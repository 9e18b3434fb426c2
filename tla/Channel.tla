------------------------------ MODULE Channel ------------------------------
(***************************************************************************)
(* What a connection promises to the two clients at its ends: the remote   *)
(* handles the messages sent to it as they were sent, in their order, each *)
(* once, and nothing else.                                                 *)
(***************************************************************************)
EXTENDS Naturals, Sequences

CONSTANT Messages

VARIABLES
    sent,     \* the messages sent so far
    handled   \* the messages the remote has handled

channelVars == <<sent, handled>>

ChannelInit == sent = <<>> /\ handled = <<>>

Submit == \E m \in Messages : sent' = Append(sent, m) /\ handled' = handled

Deliver ==
    /\ Len(handled) < Len(sent)
    /\ handled' = Append(handled, sent[Len(handled) + 1])
    /\ sent' = sent

ChannelSpec == ChannelInit /\ [][Submit \/ Deliver]_channelVars
=============================================================================
