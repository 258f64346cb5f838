------------------------------- MODULE RpcCall -------------------------------
(***************************************************************************)
(* What a JSON-RPC call of the client promises, with no table, channel or  *)
(* connection in sight: a call is opened once, the node answers it at most *)
(* once, and it is finished once, either with a failure of the client's    *)
(* own or with what it promises for the node's answer to that very call.   *)
(***************************************************************************)
CONSTANTS Calls,            \* the invocations of rpcCall
          Untold            \* those that do not tell an error of the node from a missing item

(* What a call returns for each answer of the node: the result, an error    *)
(* when the result has another type than the caller's, the node's error, or *)
(* that there is no such item.  What is no answer settles no call.          *)
Promise == [value    |-> {"ok"},
            mistyped |-> {"resultErr"},
            error    |-> {"nodeErr"},
            empty    |-> {"notFound"},
            garbled  |-> {}]

Promised(c, a) == Promise[a] \cup (IF a = "error" /\ c \in Untold THEN {"notFound"} ELSE {})

(* Ways to fail without an answer, once the request is under way. *)
LocalFailures == {"sendErr", "timeout"}

VARIABLES phase,            \* "idle", "open" or "finished"
          answer,           \* the node's answer to the call, or "none"
          outcome           \* what the call returned, or "none"

vars == <<phase, answer, outcome>>

Init == /\ phase   = [c \in Calls |-> "idle"]
        /\ answer  = [c \in Calls |-> "none"]
        /\ outcome = [c \in Calls |-> "none"]

Open(c) == /\ phase[c] = "idle"
           /\ phase' = [phase EXCEPT ![c] = "open"]
           /\ UNCHANGED <<answer, outcome>>

(* The node may answer a call that has given up waiting. *)
Answer(c) == /\ phase[c] # "idle"
             /\ answer[c] = "none"
             /\ \E a \in DOMAIN Promise : answer' = [answer EXCEPT ![c] = a]
             /\ UNCHANGED <<phase, outcome>>

Returnable(c) == LocalFailures \cup
                 (IF answer[c] = "none" THEN {} ELSE Promised(c, answer[c]))

Finish(c) == /\ phase[c] = "open"
             /\ phase' = [phase EXCEPT ![c] = "finished"]
             /\ \E r \in Returnable(c) : outcome' = [outcome EXCEPT ![c] = r]
             /\ UNCHANGED answer

(* A call whose arguments will not do makes no request. *)
Refuse(c) == /\ phase[c] = "idle"
             /\ phase' = [phase EXCEPT ![c] = "finished"]
             /\ outcome' = [outcome EXCEPT ![c] = "argErr"]
             /\ UNCHANGED answer

Next == \E c \in Calls : Open(c) \/ Answer(c) \/ Finish(c) \/ Refuse(c)

Spec == Init /\ [][Next]_vars
==============================================================================
