\* Two clients, three profiles, up to three snapshots.
CONSTANTS
  Nobody = Nobody
  Torn = Torn
  Server = Server
  NoProfile = NoProfile
  Builtin = Builtin
  OldDefault = OldDefault
  Empty <- NewFileState
  Clients = {c1, c2}
  Profiles = {Builtin, OldDefault, p1}
  MaxVersion = 3
SPECIFICATION Spec
INVARIANT RegistrationIsKept
