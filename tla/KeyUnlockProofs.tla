--------------------------- MODULE KeyUnlockProofs ---------------------------
(***************************************************************************)
(* UnlockInv is inductive; what the keystore promises about unlocked keys  *)
(* follows from it, for any number of accounts, calls and goroutines.      *)
(***************************************************************************)
EXTENDS KeyUnlock, TLAPS

(* newKeyStore: an empty map satisfies the invariant. *)
LEMMA UnlockInit == Init => UnlockInv
  BY UnlockAssumption DEF Init, UnlockInv, TypeOK, EntriesLive, CallsFresh, LockersHold, LockedIsGone

(* Each operation keeps the types of the variables. *)
LEMMA TypeStep == TypeOK /\ LockersHold /\ [Next]_vars => TypeOK'
<1> SUFFICES ASSUME TypeOK, LockersHold, [Next]_vars PROVE TypeOK'
  OBVIOUS
<1> USE DEF TypeOK
<1>1. ASSUME NEW c \in Calls, NEW a \in Addresses, UnlockKept(c, a) PROVE TypeOK'
  BY <1>1 DEF UnlockKept, Spare
<1>2. ASSUME NEW c \in Calls, NEW a \in Addresses, NEW t \in BOOLEAN, TimedUnlock(c, a, t)
      PROVE TypeOK'
  BY <1>2 DEF TimedUnlock, Replaced, Started, Entered
<1>3. ASSUME NEW c \in Calls, ExpireStep(c) PROVE TypeOK'
  BY <1>3 DEF ExpireStep, ExpireAborted, TimerFires, ExpireDrops, Drop
<1>4. ASSUME NEW l \in Lockers, LockStep(l) PROVE TypeOK'
  BY <1>4 DEF LockStep, LockAborted, LockFires, LockDrops, Drop, LockersHold
<1>5. ASSUME NEW l \in Lockers, NEW a \in Addresses, LockFinds(l, a) PROVE TypeOK'
  BY <1>5 DEF LockFinds
<1>6. CASE UNCHANGED vars
  BY <1>6 DEF vars
<1> QED
  BY <1>1, <1>2, <1>3, <1>4, <1>5, <1>6 DEF Next

(* Dropping one's own entry, or nothing, leaves the rest of the map alone. *)
LEMMA DropKeeps ==
  ASSUME UnlockInv, NEW c \in Calls, addr[c] \in Addresses, Drop(c)
  PROVE  /\ unlocked[addr[c]] = c => unlocked'[addr[c]] = None /\ zeroed' = [zeroed EXCEPT ![c] = TRUE]
         /\ unlocked[addr[c]] # c => unlocked' = unlocked /\ zeroed' = zeroed
         /\ unlocked'[addr[c]] # c
         /\ \A a \in Addresses : unlocked'[a] # None =>
              unlocked'[a] = unlocked[a] /\ unlocked[a] # c /\ ~zeroed'[unlocked[a]]
  BY UnlockAssumption DEF Drop, DropsOwn, UnlockInv, TypeOK, EntriesLive

(* TimedUnlock, expire and Lock keep the invariant. *)
LEMMA UnlockStep == UnlockInv /\ [Next]_vars => UnlockInv'
<1> SUFFICES ASSUME UnlockInv, [Next]_vars PROVE UnlockInv'
  OBVIOUS
<1>t. TypeOK /\ TypeOK'
  BY TypeStep DEF UnlockInv
<1>1. ASSUME NEW c \in Calls, NEW a \in Addresses, UnlockKept(c, a) PROVE UnlockInv'
  BY <1>1, <1>t, UnlockAssumption
     DEF UnlockInv, TypeOK, EntriesLive, CallsFresh, LockersHold, LockedIsGone, UnlockKept, Spare, Indefinite
<1>2. ASSUME NEW c \in Calls, NEW a \in Addresses, NEW t \in BOOLEAN, TimedUnlock(c, a, t)
      PROVE UnlockInv'
  <2> USE <1>t, UnlockAssumption DEF UnlockInv, TypeOK
  <2>0. \A b \in Addresses : unlocked[b] # c
    BY <1>2 DEF TimedUnlock, EntriesLive
  <2>1. EntriesLive'
    BY <1>2, <2>0 DEF EntriesLive, CallsFresh, TimedUnlock, Replaced, Started, Entered
  <2>2. CallsFresh'
    BY <1>2 DEF CallsFresh, EntriesLive, TimedUnlock, Replaced, Started
  <2>3. LockersHold'
    BY <1>2 DEF LockersHold, TimedUnlock
  <2>4. LockedIsGone'
    BY <1>2 DEF LockedIsGone, CallsFresh, TimedUnlock, Entered
  <2> QED
    BY <2>1, <2>2, <2>3, <2>4
<1>3. ASSUME NEW c \in Calls, ExpireAborted(c) \/ TimerFires(c) PROVE UnlockInv'
  BY <1>3, <1>t, UnlockAssumption
     DEF UnlockInv, TypeOK, EntriesLive, CallsFresh, LockersHold, LockedIsGone, ExpireAborted, TimerFires
<1>4. ASSUME NEW c \in Calls, ExpireDrops(c) PROVE UnlockInv'
  <2>0. addr[c] \in Addresses /\ Drop(c)
    BY <1>4 DEF ExpireDrops, UnlockInv, CallsFresh
  <2> USE <1>t, DropKeeps, <2>0, UnlockAssumption DEF UnlockInv, TypeOK
  <2>1. EntriesLive'
    BY <1>4 DEF EntriesLive, ExpireDrops
  <2>2. CallsFresh'
    BY <1>4 DEF CallsFresh, ExpireDrops
  <2>3. LockersHold'
    BY <1>4 DEF LockersHold, ExpireDrops
  <2>4. LockedIsGone'
    BY <1>4 DEF LockedIsGone, ExpireDrops, CallsFresh
  <2> QED
    BY <2>1, <2>2, <2>3, <2>4
<1>5. ASSUME NEW l \in Lockers, LockAborted(l) \/ LockFires(l) PROVE UnlockInv'
  BY <1>5, <1>t, UnlockAssumption
     DEF UnlockInv, TypeOK, EntriesLive, CallsFresh, LockersHold, LockedIsGone, LockAborted, Quits, LockFires
<1>6. ASSUME NEW l \in Lockers, LockDrops(l) PROVE UnlockInv'
  <2>0. held[l] \in Calls /\ expire[held[l]] # "new" /\ addr[held[l]] \in Addresses /\ Drop(held[l])
    BY <1>6 DEF LockDrops, UnlockInv, TypeOK, LockersHold, CallsFresh
  <2> USE <1>t, DropKeeps, <2>0, UnlockAssumption DEF UnlockInv, TypeOK
  <2>1. EntriesLive'
    BY <1>6 DEF EntriesLive, LockDrops
  <2>2. CallsFresh'
    BY <1>6 DEF CallsFresh, LockDrops
  <2>3. LockersHold'
    BY <1>6 DEF LockersHold, LockDrops
  <2>4. LockedIsGone'
    BY <1>6 DEF LockedIsGone, LockDrops, CallsFresh
  <2> QED
    BY <2>1, <2>2, <2>3, <2>4
<1>7. ASSUME NEW l \in Lockers, NEW a \in Addresses, LockFinds(l, a) PROVE UnlockInv'
  BY <1>7, <1>t, UnlockAssumption
     DEF UnlockInv, TypeOK, EntriesLive, CallsFresh, LockersHold, LockedIsGone, LockFinds
<1>8. CASE UNCHANGED vars
  BY <1>8, <1>t DEF vars, UnlockInv, EntriesLive, CallsFresh, LockersHold, LockedIsGone
<1> QED
  BY <1>1, <1>2, <1>3, <1>4, <1>5, <1>6, <1>7, <1>8 DEF Next, ExpireStep, LockStep

(* The keystore keeps the inductive invariant from the start. *)
THEOREM UnlockInvAlways == Spec => []UnlockInv
  BY UnlockInit, UnlockStep, PTL DEF Spec

(* SignHash and SignTx never meet a zeroed key. *)
THEOREM KeysUsable == Spec => []UnlockedKeysUsable
<1>1. UnlockInv => UnlockedKeysUsable
  BY DEF UnlockInv, EntriesLive, UnlockedKeysUsable
<1> QED
  BY <1>1, UnlockInvAlways, PTL

(* No abort channel is closed twice by TimedUnlock. *)
THEOREM AbortsOnce == Spec => []AbortClosedOnce
<1>1. UnlockInv => AbortClosedOnce
  BY DEF UnlockInv, EntriesLive, AbortClosedOnce
<1> QED
  BY <1>1, UnlockInvAlways, PTL

(* The entry a Lock found is gone when it returns. *)
THEOREM LockWorks == Spec => []LockedIsGone
<1>1. UnlockInv => LockedIsGone
  BY DEF UnlockInv
<1> QED
  BY <1>1, UnlockInvAlways, PTL

(* The timer of one unlock never ends another. *)
THEOREM EntriesEnd == Spec => EntriesEndProperly
<1> DEFINE Ends == \A a \in Addresses : \A c \in Calls :
                     unlocked[a] = c /\ unlocked'[a] # c =>
                       \/ expire[c] = "fired"
                       \/ \E l \in Lockers : lockPc[l] = "fired" /\ held[l] = c
                       \/ timed[c] /\ unlocked'[a] # None
<1>1. UnlockInv /\ [Next]_vars => [Ends]_vars
  <2> SUFFICES ASSUME UnlockInv, Next, NEW a \in Addresses, NEW c \in Calls,
                      unlocked[a] = c, unlocked'[a] # c
               PROVE  \/ expire[c] = "fired"
                      \/ \E l \in Lockers : lockPc[l] = "fired" /\ held[l] = c
                      \/ timed[c] /\ unlocked'[a] # None
    OBVIOUS
  <2> USE UnlockAssumption DEF UnlockInv, TypeOK
  <2>1. ASSUME NEW d \in Calls, NEW b \in Addresses, NEW t \in BOOLEAN, TimedUnlock(d, b, t)
        PROVE  timed[c] /\ unlocked'[a] # None
    BY <2>1 DEF TimedUnlock, Entered, Indefinite
  <2>2. ASSUME NEW d \in Calls, ExpireDrops(d) PROVE expire[c] = "fired"
    BY <2>2 DEF ExpireDrops, Drop, DropsOwn
  <2>3. ASSUME NEW l \in Lockers, LockDrops(l) PROVE lockPc[l] = "fired" /\ held[l] = c
    BY <2>3 DEF LockDrops, Drop, DropsOwn
  <2> QED
    BY <2>1, <2>2, <2>3 DEF Next, UnlockKept, ExpireStep, ExpireAborted, TimerFires,
                            LockStep, LockAborted, LockFires, LockFinds
<1> QED
  BY <1>1, UnlockInvAlways, PTL DEF Spec, EntriesEndProperly
==============================================================================
