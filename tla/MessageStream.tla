---------------------------- MODULE MessageStream ----------------------------
(***************************************************************************)
(* What the read loop of the channel client relies on: on one connection   *)
(* the messages come out whole, once each, in the order they were sent; a  *)
(* new connection starts afresh and what the old one still held is lost.   *)
(***************************************************************************)
EXTENDS Naturals, Sequences

CONSTANT Message

VARIABLES sent,     \* messages sent on the connection in use
          got       \* messages that came out of it

vars == <<sent, got>>

Init == sent = <<>> /\ got = <<>>

Send(m) == sent' = Append(sent, m) /\ UNCHANGED got

Receive == /\ Len(got) < Len(sent)
           /\ got' = Append(got, sent[Len(got) + 1])
           /\ UNCHANGED sent

Reset == sent' = <<>> /\ got' = <<>>

Next == (\E m \in Message : Send(m)) \/ Receive \/ Reset

Spec == Init /\ [][Next]_vars
==============================================================================
