\* Two requests at a time, two tokens.
CONSTANTS
  Nobody = Nobody
  Torn = Torn
  Server = Server
  NoToken = NoToken
  Empty <- NewFileState
  Clients = {c1, c2}
  Tokens = {t1, t2}
SPECIFICATION Spec
INVARIANT SeedIsWhole
