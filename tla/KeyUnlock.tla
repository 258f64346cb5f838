------------------------------ MODULE KeyUnlock ------------------------------
(***************************************************************************)
(* accounts/keystore/keystore.go: the keys held unlocked in memory.        *)
(* TimedUnlock puts a decrypted key into the map, with a goroutine that    *)
(* drops it when its time is over; a later TimedUnlock replaces the key    *)
(* and aborts that goroutine; Lock runs expire with a timeout of zero.     *)
(*                                                                         *)
(* A call of TimedUnlock whose passphrase was right also names the key it  *)
(* decrypted and the pointer it stores: the map holds a new one each time. *)
(* mu makes the body of each operation one step; between the timer and     *)
(* the lock that expire then takes, anything may happen.                   *)
(***************************************************************************)
EXTENDS Naturals

CONSTANTS Addresses,   \* account addresses
          Calls,       \* calls of TimedUnlock
          Lockers,     \* goroutines that call Lock
          None         \* no entry

ASSUME UnlockAssumption == None \notin Calls

VARIABLES unlocked,    \* KeyStore.unlocked: address -> call, or None
          addr,        \* the address of each call
          timed,       \* whether the call had a timeout: u.abort # nil
          aborted,     \* u.abort is closed
          zeroed,      \* the key's words are zero
          expire,      \* the goroutine of the call
          lockPc,      \* where each Lock stands
          held         \* the entry Lock found last

vars == <<unlocked, addr, timed, aborted, zeroed, expire, lockPc, held>>

TypeOK ==
  /\ unlocked \in [Addresses -> Calls \cup {None}]
  /\ addr \in [Calls -> Addresses \cup {None}]
  /\ timed \in [Calls -> BOOLEAN]
  /\ aborted \in [Calls -> BOOLEAN]
  /\ zeroed \in [Calls -> BOOLEAN]
  /\ expire \in [Calls -> {"new", "none", "armed", "fired", "done"}]
  /\ lockPc \in [Lockers -> {"idle", "armed", "fired"}]
  /\ held \in [Lockers -> Calls \cup {None}]

Init ==
  /\ unlocked = [a \in Addresses |-> None]
  /\ addr = [c \in Calls |-> None]
  /\ timed = [c \in Calls |-> FALSE]
  /\ aborted = [c \in Calls |-> FALSE]
  /\ zeroed = [c \in Calls |-> FALSE]
  /\ expire = [c \in Calls |-> "new"]
  /\ lockPc = [l \in Lockers |-> "idle"]
  /\ held = [l \in Lockers |-> None]

(***************************************************************************)
(* TimedUnlock.                                                            *)
(***************************************************************************)
Indefinite(a) == unlocked[a] # None /\ ~timed[unlocked[a]]

(* Faulty variant: the key in the map is zeroed instead of the copy. *)
SpareEntry(c, a) == unlocked[a]

Spare(c, a) == c

(* The key was unlocked for good: the new copy is zeroed and nothing changes. *)
UnlockKept(c, a) ==
  /\ expire[c] = "new"
  /\ Indefinite(a)
  /\ expire' = [expire EXCEPT ![c] = "none"]
  /\ addr' = [addr EXCEPT ![c] = a]
  /\ zeroed' = [zeroed EXCEPT ![Spare(c, a)] = TRUE]
  /\ UNCHANGED <<unlocked, timed, aborted, lockPc, held>>

Replaced(a) == [c \in Calls |-> aborted[c] \/ c = unlocked[a]]

(* Faulty variant: the entry that was found stays in the map. *)
EnteredIfFree(c, a) == IF unlocked[a] = None THEN [unlocked EXCEPT ![a] = c] ELSE unlocked

Entered(c, a) == [unlocked EXCEPT ![a] = c]

(* Faulty variant: the goroutine is not started for a key that replaces one. *)
StartedIfFree(c, a, t) == IF t /\ unlocked[a] = None THEN "armed" ELSE "none"

Started(c, a, t) == IF t THEN "armed" ELSE "none"

TimedUnlock(c, a, t) ==
  /\ expire[c] = "new"
  /\ ~Indefinite(a)
  /\ aborted' = Replaced(a)
  /\ expire' = [expire EXCEPT ![c] = Started(c, a, t)]
  /\ timed' = [timed EXCEPT ![c] = t]
  /\ addr' = [addr EXCEPT ![c] = a]
  /\ unlocked' = Entered(c, a)
  /\ UNCHANGED <<zeroed, lockPc, held>>

(***************************************************************************)
(* expire: its select, and what it does under mu when the timer fired.     *)
(***************************************************************************)
(* Faulty variant: the key is dropped whichever unlock it came from. *)
DropsAny(c) == unlocked[addr[c]] # None

DropsOwn(c) == unlocked[addr[c]] = c

Drop(c) ==
  IF DropsOwn(c)
  THEN /\ zeroed' = [zeroed EXCEPT ![c] = TRUE]
       /\ unlocked' = [unlocked EXCEPT ![addr[c]] = None]
  ELSE UNCHANGED <<zeroed, unlocked>>

ExpireAborted(c) ==
  /\ expire[c] = "armed"
  /\ aborted[c]
  /\ expire' = [expire EXCEPT ![c] = "done"]
  /\ UNCHANGED <<unlocked, addr, timed, aborted, zeroed, lockPc, held>>

TimerFires(c) ==
  /\ expire[c] = "armed"
  /\ expire' = [expire EXCEPT ![c] = "fired"]
  /\ UNCHANGED <<unlocked, addr, timed, aborted, zeroed, lockPc, held>>

ExpireDrops(c) ==
  /\ expire[c] = "fired"
  /\ expire' = [expire EXCEPT ![c] = "done"]
  /\ Drop(c)
  /\ UNCHANGED <<addr, timed, aborted, lockPc, held>>

(***************************************************************************)
(* Lock: expire on the entry it found, with a timer that fires at once.    *)
(***************************************************************************)
LockFinds(l, a) ==
  /\ lockPc[l] = "idle"
  /\ unlocked[a] # None
  /\ lockPc' = [lockPc EXCEPT ![l] = "armed"]
  /\ held' = [held EXCEPT ![l] = unlocked[a]]
  /\ UNCHANGED <<unlocked, addr, timed, aborted, zeroed, expire>>

(* Faulty variant: an entry without a timeout counts as aborted. *)
QuitsUntimed(c) == aborted[c] \/ ~timed[c]

Quits(c) == aborted[c]

LockAborted(l) ==
  /\ lockPc[l] = "armed"
  /\ Quits(held[l])
  /\ lockPc' = [lockPc EXCEPT ![l] = "idle"]
  /\ UNCHANGED <<unlocked, addr, timed, aborted, zeroed, expire, held>>

LockFires(l) ==
  /\ lockPc[l] = "armed"
  /\ lockPc' = [lockPc EXCEPT ![l] = "fired"]
  /\ UNCHANGED <<unlocked, addr, timed, aborted, zeroed, expire, held>>

LockDrops(l) ==
  /\ lockPc[l] = "fired"
  /\ lockPc' = [lockPc EXCEPT ![l] = "idle"]
  /\ Drop(held[l])
  /\ UNCHANGED <<addr, timed, aborted, expire, held>>

ExpireStep(c) == ExpireAborted(c) \/ TimerFires(c) \/ ExpireDrops(c)

LockStep(l) == LockAborted(l) \/ LockFires(l) \/ LockDrops(l)

Next == \/ \E c \in Calls, a \in Addresses :
             UnlockKept(c, a) \/ \E t \in BOOLEAN : TimedUnlock(c, a, t)
        \/ \E c \in Calls : ExpireStep(c)
        \/ \E l \in Lockers : LockStep(l) \/ \E a \in Addresses : LockFinds(l, a)

(* Timers fire and goroutines run; nobody has to call anything. *)
Fairness == /\ \A c \in Calls : WF_vars(ExpireStep(c))
            /\ \A l \in Lockers : WF_vars(LockStep(l))

Spec == Init /\ [][Next]_vars /\ Fairness

------------------------------------------------------------------------------
(* SignHash and SignTx never sign with a zeroed key: expire zeroes a key   *)
(* only in the step that takes it out of the map.                          *)
UnlockedKeysUsable ==
  \A a \in Addresses : unlocked[a] # None => ~zeroed[unlocked[a]]

(* TimedUnlock closes an abort channel at most once: the entry in the map  *)
(* has not been aborted.                                                   *)
AbortClosedOnce ==
  \A a \in Addresses : unlocked[a] # None => ~aborted[unlocked[a]]

(* When Lock has returned, the entry it found is not in the map, also when *)
(* a TimedUnlock replaced it, or its own goroutine dropped it, meanwhile.  *)
LockedIsGone ==
  \A l \in Lockers : lockPc[l] = "idle" /\ held[l] # None =>
    unlocked[addr[held[l]]] # held[l]

(* What is in the map is live: its address right, its key intact, its      *)
(* abort open, its goroutine waiting when it has a timeout.                *)
EntriesLive ==
  \A a \in Addresses : unlocked[a] # None =>
    /\ addr[unlocked[a]] = a
    /\ ~aborted[unlocked[a]]
    /\ ~zeroed[unlocked[a]]
    /\ expire[unlocked[a]] \in (IF timed[unlocked[a]] THEN {"armed", "fired"} ELSE {"none"})

(* A call not yet made has left no trace. *)
CallsFresh ==
  \A c \in Calls :
    /\ expire[c] = "new" => /\ ~aborted[c] /\ ~zeroed[c]
                            /\ \A l \in Lockers : held[l] # c
    /\ expire[c] # "new" => addr[c] \in Addresses

LockersHold == \A l \in Lockers : lockPc[l] # "idle" => held[l] # None

(* The inductive invariant of TimedUnlock, expire and Lock: the properties *)
(* above and below follow from it.                                         *)
UnlockInv == TypeOK /\ EntriesLive /\ CallsFresh /\ LockersHold /\ LockedIsGone

(* An entry leaves the map only by its own timer, by a Lock that found it, *)
(* or by a TimedUnlock that replaces it, and only if it had a timeout: the *)
(* timer of an earlier unlock never ends a later one.                      *)
EntriesEndProperly ==
  [][\A a \in Addresses : \A c \in Calls :
       unlocked[a] = c /\ unlocked'[a] # c =>
         \/ expire[c] = "fired"
         \/ \E l \in Lockers : lockPc[l] = "fired" /\ held[l] = c
         \/ timed[c] /\ unlocked'[a] # None]_vars

(* A key unlocked with a timeout does not stay unlocked by that call. *)
TimedUnlockEnds ==
  \A c \in Calls, a \in Addresses : (unlocked[a] = c /\ timed[c]) ~> unlocked[a] # c
==============================================================================
