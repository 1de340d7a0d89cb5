---------------------------- MODULE FrameChannel ----------------------------
(***************************************************************************)
(* What one direction of a connection promises its users: the messages     *)
(* written arrive whole, once and in order, and while the connection is    *)
(* sound every message written does arrive.                                *)
(***************************************************************************)
EXTENDS Naturals, Sequences

CONSTANT Message

VARIABLES
  written,   \* messages handed to the writing end, in order
  received,  \* messages the reading end returned, in order
  sound      \* FALSE once an end failed or the stream was damaged

channelVars == <<written, received, sound>>

ChannelInit == written = <<>> /\ received = <<>> /\ sound = TRUE

Write(m) ==
  /\ written' = Append(written, m)
  /\ UNCHANGED <<received, sound>>

\* Delivery goes on after the connection stopped being sound, or stops.
Receive ==
  /\ Len(received) < Len(written)
  /\ received' = Append(received, written[Len(received) + 1])
  /\ UNCHANGED <<written, sound>>

Fail == sound' = FALSE /\ UNCHANGED <<written, received>>

ChannelNext == (\E m \in Message : Write(m)) \/ Receive \/ Fail

ChannelSpec ==
  /\ ChannelInit
  /\ [][ChannelNext]_channelVars
  /\ WF_channelVars(sound /\ Receive)
=============================================================================
