--------------------------- MODULE MCChannelClient ---------------------------
(* Instances of ChannelClient for TLC. *)
EXTENDS ChannelClient, TLC

CONSTANTS c1, c2, s1, s2, f1

NoSubs == <<>>

OneSub == s1 :> f1

(* Two invocations of SubEventLogs that pass the same filter ID. *)
SharedFilter == s1 :> f1 @@ s2 :> f1

NoLogs == [g \in Conns |-> 0]

(* A log on every connection for the read loop to block on. *)
OneLog == [g \in Conns |-> 1]

(* One on the first connection only. *)
FirstLog == [g \in Conns |-> IF g = 1 THEN 1 ELSE 0]

(* Three logs make a gap; the second connection shows what a new one adds. *)
FirstMost == [g \in Conns |-> IF g = 1 THEN 3 ELSE 1]

SubSymmetry == Permutations({s1, s2})
==============================================================================
