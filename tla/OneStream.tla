----------------------------- MODULE OneStream -----------------------------
(***************************************************************************)
(* What docs/zh-CN/protocol.md promises of each direction of a device      *)
(* connection: at most one stream is open at a time, every binary frame    *)
(* belongs to it, and it ends either whole, with all its frames, or not at *)
(* all.  GatewaySession implements it twice: for what the gateway takes    *)
(* from a device, and for what the device hears.                           *)
(***************************************************************************)
EXTENDS Sequences

CONSTANTS Ids, Frames, Closed   \* Closed is no stream's id

VARIABLES
  current,   \* the open stream, or Closed
  frames,    \* its frames so far
  whole      \* the streams that have ended whole, in order

channelVars == <<current, frames, whole>>

ChannelInit == current = Closed /\ frames = <<>> /\ whole = <<>>

Open ==
  /\ current = Closed
  /\ current' \in Ids /\ frames' = <<>>
  /\ UNCHANGED whole

Carry ==
  /\ current # Closed
  /\ \E f \in Frames : frames' = Append(frames, f)
  /\ UNCHANGED <<current, whole>>

Finish ==
  /\ current # Closed
  /\ whole' = Append(whole, frames)
  /\ current' = Closed /\ frames' = <<>>

Abandon ==
  /\ current # Closed
  /\ current' = Closed /\ frames' = <<>>
  /\ UNCHANGED whole

ChannelNext == Open \/ Carry \/ Finish \/ Abandon

ChannelSpec == ChannelInit /\ [][ChannelNext]_channelVars
=============================================================================
