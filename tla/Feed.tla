-------------------------------- MODULE Feed --------------------------------
(***************************************************************************)
(* event/feed.go: one-to-many delivery.  Send holds sendLock, moves the    *)
(* inbox into sendCases and delivers to the prefix 'cases' of sendCases    *)
(* until it is empty; a channel that got the value is swapped behind the   *)
(* prefix.  Unsubscribe removes a channel from the inbox, through the Send *)
(* in progress (removeSub), or under sendLock.                             *)
(*                                                                         *)
(* sendCases is modelled without its entry 0, the removeSub case.  A value *)
(* is the number of its Send in the order the lock was taken.  A channel   *)
(* is subscribed at most once, and carries values of the feed's type.      *)
(***************************************************************************)
EXTENDS Naturals, Sequences, FiniteSets, SequencesExt

CONSTANTS Subs,       \* subscriptions, each with a channel of its own
          Senders,    \* goroutines that call Send
          Cap,        \* buffer space of a channel
          MaxSends    \* bound: calls of Send

ASSUME FeedAssumption == Cap \in Nat \ {0} /\ MaxSends \in Nat

VARIABLES inbox,      \* Feed.inbox
          sendCases,  \* Feed.sendCases
          lock,       \* the sender that holds sendLock, or Free
          pc,         \* where each Send stands
          cases,      \* length of the prefix 'cases' of the Send in progress
          at,         \* index i of its fast path
          nsent,      \* its result so far
          turn,       \* Sends that have moved the inbox
          phase,      \* where each subscription stands
          since,      \* the value of turn when Subscribe added the channel
          log,        \* values put on each channel
          taken       \* values its reader took

vars == <<inbox, sendCases, lock, pc, cases, at, nsent, turn, phase, since, log, taken>>

sendVars == <<lock, pc, cases, at, nsent, turn>>

subVars == <<phase, since>>

Free == "free"

TypeOK ==
  /\ inbox \in Seq(Subs)
  /\ sendCases \in Seq(Subs)
  /\ lock \in Senders \cup {Free}
  /\ pc \in [Senders -> {"idle", "locked", "try", "select"}]
  /\ cases \in 0..Len(sendCases)
  /\ at \in 1..(cases + 1)
  /\ nsent \in Nat
  /\ turn \in Nat
  /\ phase \in [Subs -> {"new", "on", "removing", "gone"}]
  /\ since \in [Subs -> Nat]
  /\ log \in [Subs -> Seq(Nat)]
  /\ taken \in [Subs -> Nat]

Init ==
  /\ inbox = <<>>
  /\ sendCases = <<>>
  /\ lock = Free
  /\ pc = [p \in Senders |-> "idle"]
  /\ cases = 0
  /\ at = 1
  /\ nsent = 0
  /\ turn = 0
  /\ phase = [s \in Subs |-> "new"]
  /\ since = [s \in Subs |-> 0]
  /\ log = [s \in Subs |-> <<>>]
  /\ taken = [s \in Subs |-> 0]

(***************************************************************************)
(* caseList.                                                               *)
(***************************************************************************)
find(cs, s) == CHOOSE i \in 1..Len(cs) : cs[i] = s

(* Faulty variant: the case after the one at the index is cut out. *)
deleteNext(cs, i) == IF i < Len(cs) THEN RemoveAt(cs, i + 1) ELSE SubSeq(cs, 1, i - 1)

delete(cs, i) == RemoveAt(cs, i)

(* Faulty variant: the case that got the value is not swapped out of the way. *)
deactivateNone(cs, i, last) == cs

deactivate(cs, i, last) == [cs EXCEPT ![i] = cs[last], ![last] = cs[i]]

Active == {sendCases[i] : i \in 1..cases}

(***************************************************************************)
(* Subscribe and Unsubscribe.                                              *)
(***************************************************************************)
Subscribe(s) ==
  /\ phase[s] = "new"
  /\ phase' = [phase EXCEPT ![s] = "on"]
  /\ since' = [since EXCEPT ![s] = turn]
  /\ inbox' = Append(inbox, s)
  /\ UNCHANGED <<sendCases, log, taken>> /\ UNCHANGED sendVars

(* Faulty variant: a channel that is not in the inbox counts as removed. *)
CountsAsGone(s) == "gone"

(* It is among the sendCases, and the select of remove follows. *)
NotInInbox(s) == "removing"

(* remove, under f.mu: a channel no Send has seen goes from the inbox. *)
RemoveFromInbox(s) ==
  /\ phase[s] = "on"
  /\ IF s \in ToSet(inbox)
     THEN /\ inbox' = delete(inbox, find(inbox, s))
          /\ phase' = [phase EXCEPT ![s] = "gone"]
     ELSE /\ phase' = [phase EXCEPT ![s] = NotInInbox(s)]
          /\ UNCHANGED inbox
  /\ UNCHANGED <<sendCases, since, log, taken>> /\ UNCHANGED sendVars

(* Faulty variant: the prefix shrinks for a channel that is behind it too. *)
AlwaysActive(index) == TRUE

StillActive(index) == index <= cases

CasesWithout(index) == IF StillActive(index) THEN cases - 1 ELSE cases

(* Faulty variant: Send does not listen to removeSub. *)
NeverMeets == FALSE

SendListens == lock # Free /\ pc[lock] = "select"

(* The select of remove meets the select of Send on removeSub. *)
RemoveThroughSend(s) ==
  /\ phase[s] = "removing"
  /\ SendListens
  /\ LET index == find(sendCases, s)
     IN /\ sendCases' = delete(sendCases, index)
        /\ cases' = CasesWithout(index)
  /\ phase' = [phase EXCEPT ![s] = "gone"]
  /\ pc' = [pc EXCEPT ![lock] = "try"]
  /\ at' = 1
  /\ UNCHANGED <<inbox, lock, nsent, turn, since, log, taken>>

(* Faulty variant: the list is edited without the lock. *)
LockNotNeeded == TRUE

LockTaken == lock = Free

RemoveUnderLock(s) ==
  /\ phase[s] = "removing"
  /\ LockTaken
  /\ sendCases' = delete(sendCases, find(sendCases, s))
  /\ phase' = [phase EXCEPT ![s] = "gone"]
  /\ UNCHANGED <<inbox, since, log, taken>> /\ UNCHANGED sendVars

(***************************************************************************)
(* Send.                                                                   *)
(***************************************************************************)
TakeLock(p) ==
  /\ pc[p] = "idle"
  /\ turn < MaxSends
  /\ lock = Free
  /\ lock' = p
  /\ pc' = [pc EXCEPT ![p] = "locked"]
  /\ UNCHANGED <<inbox, sendCases, cases, at, nsent, turn, log, taken>> /\ UNCHANGED subVars

MoveInbox(p) ==
  /\ pc[p] = "locked"
  /\ sendCases' = sendCases \o inbox
  /\ inbox' = <<>>
  /\ cases' = Len(sendCases) + Len(inbox)
  /\ at' = 1
  /\ nsent' = 0
  /\ turn' = turn + 1
  /\ pc' = [pc EXCEPT ![p] = "try"]
  /\ UNCHANGED <<lock, log, taken>> /\ UNCHANGED subVars

HasRoom(s) == Len(log[s]) - taken[s] < Cap

Put(i) ==
  /\ log' = [log EXCEPT ![sendCases[i]] = Append(@, turn)]
  /\ nsent' = nsent + 1
  /\ sendCases' = deactivate(sendCases, i, cases)
  /\ cases' = cases - 1

(* One round of the fast path; after a send the index stays for the case swapped in. *)
TrySend(p) ==
  /\ pc[p] = "try"
  /\ at <= cases
  /\ IF HasRoom(sendCases[at])
     THEN Put(at) /\ UNCHANGED at
     ELSE at' = at + 1 /\ UNCHANGED <<log, nsent, sendCases, cases>>
  /\ UNCHANGED <<inbox, lock, pc, turn, taken>> /\ UNCHANGED subVars

FastPathEnds(p) ==
  /\ pc[p] = "try"
  /\ at > cases
  /\ IF cases = 0
     THEN /\ lock' = Free
          /\ pc' = [pc EXCEPT ![p] = "idle"]
     ELSE /\ pc' = [pc EXCEPT ![p] = "select"]
          /\ UNCHANGED lock
  /\ at' = 1
  /\ UNCHANGED <<inbox, sendCases, cases, nsent, turn, log, taken>> /\ UNCHANGED subVars

SelectSend(p) ==
  /\ pc[p] = "select"
  /\ \E i \in 1..cases : HasRoom(sendCases[i]) /\ Put(i)
  /\ pc' = [pc EXCEPT ![p] = "try"]
  /\ at' = 1
  /\ UNCHANGED <<inbox, lock, turn, taken>> /\ UNCHANGED subVars

(* The subscriber reads its channel (external). *)
UserReceives(s) ==
  /\ taken[s] < Len(log[s])
  /\ taken' = [taken EXCEPT ![s] = @ + 1]
  /\ UNCHANGED <<inbox, sendCases, log>> /\ UNCHANGED sendVars /\ UNCHANGED subVars

SendStep(p) == MoveInbox(p) \/ TrySend(p) \/ FastPathEnds(p) \/ SelectSend(p)

Removal(s) == RemoveThroughSend(s) \/ RemoveUnderLock(s)

Next == \/ \E s \in Subs : Subscribe(s) \/ RemoveFromInbox(s) \/ Removal(s) \/ UserReceives(s)
        \/ \E p \in Senders : TakeLock(p) \/ SendStep(p)

(* Goroutines run, and subscribers read until they have unsubscribed. *)
Fairness == /\ \A p \in Senders : WF_vars(SendStep(p))
            /\ \A s \in Subs : WF_vars(Removal(s)) /\ WF_vars(phase[s] = "on" /\ UserReceives(s))

Spec == Init /\ [][Next]_vars /\ Fairness

------------------------------------------------------------------------------
(* A subscriber gets every value exactly once and in order: its channel    *)
(* holds the values of all Sends since it subscribed, the Send in progress *)
(* included exactly when its case lies behind the active prefix.           *)
DeliveredOnce ==
  \A s \in Subs : phase[s] = "on" =>
    LET last == IF s \in Active THEN turn - 1 ELSE turn
        n == IF s \in ToSet(inbox) THEN 0 ELSE last - since[s]
    IN log[s] = [k \in 1..n |-> since[s] + k]

(* remove finds the channel it looks for: delete is never called with -1.  *)
RemovedIsFound ==
  \A s \in Subs : phase[s] = "removing" => s \in ToSet(sendCases)

(* The result of Send counts the channels that got its value. *)
SentIsCounted ==
  lock # Free /\ pc[lock] # "locked" =>
    nsent = Cardinality({s \in Subs : turn \in ToSet(log[s])})

(* Once Unsubscribe has returned nothing more is put on the channel. *)
QuietAfterUnsubscribe ==
  [][\A s \in Subs : phase[s] = "gone" => log'[s] = log[s]]_vars

(* Unsubscribe returns, whether or not a Send is blocked. *)
UnsubscribeReturns == \A s \in Subs : phase[s] = "removing" ~> phase[s] = "gone"

(* Send returns when every subscriber reads or unsubscribes. *)
SendReturns == \A p \in Senders : pc[p] = "locked" ~> pc[p] = "idle"
==============================================================================
