-------------------------- MODULE MCDeviceControl --------------------------
(* Instance of DeviceControl for TLC: two clients and two tokens.  The      *)
(* numbers of crashes, starts and requests are not bounded.                 *)
EXTENDS DeviceControl

NewFileState == [parts |-> {}, reported |-> 0, tokens |-> {}]
=============================================================================
