------------------------- MODULE MCProviderRegistry -------------------------
(* Instance of ProviderRegistry for TLC: two clients and three profiles,    *)
(* of which one is built in and one is the default of an old server.        *)
EXTENDS ProviderRegistry

NewFileState ==
  [profile |-> [p \in Profiles |-> "absent"],
   config |-> [v \in 1 .. MaxVersion |-> NoProfile]]
=============================================================================
