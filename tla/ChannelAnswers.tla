---------------------------- MODULE ChannelAnswers ---------------------------
(* Machine-checked proofs about the calls of ChannelClient: the table of     *)
(* reply channels is exact, and calls return what RpcCall allows.            *)
EXTENDS ChannelClientProofs

USE DEF callVars, subVars, closeVars, nodeVars, readerVars

------------------------------------------------------------------------------
(***************************************************************************)
(* The table of calls.                                                     *)
(***************************************************************************)
(* The call has drawn an ID and stored its reply channel under it. *)
Started(c) == id[c] # 0

(* IDs are drawn from the counter and never repeat; a refused call has none. *)
IdInv ==
  /\ \A c \in Calls : id[c] <= idCounter
  /\ \A c, d \in Calls : Started(c) /\ id[c] = id[d] => c = d
  /\ \A c \in Calls : pc[c] = "idle" => ~ Started(c)
  /\ \A c \in InFlight : Started(c)

TableInv == IdInv /\ TableMatchesCalls

(* Steps that give no call an ID and leave the table as it is. *)
LEMMA TableUntouched ==
  ASSUME TInv, TableInv, UNCHANGED <<id, rpcResponse>>, InFlight' = InFlight,
         idCounter' \in {idCounter, idCounter + 1},
         \A c \in Calls : pc'[c] = "idle" => pc[c] = "idle"
  PROVE  TableInv'
  <1>1. \A c \in Calls : id'[c] <= idCounter'
    BY DEF TInv, TypeOK, TableInv, IdInv
  <1> QED BY <1>1, Zenon DEF TableInv, IdInv, Started, TableMatchesCalls

LEMMA TableStart == ASSUME TInv, TableInv, NEW c \in Calls, CallStart(c)
                    PROVE  TableInv'
  <1> USE ChannelAssumption DEF TInv, Agents
  <1>1. /\ idCounter \in Nat /\ idCounter' = idCounter + 1
        /\ \A d \in Calls : id[d] \in Nat
        /\ \A d \in Calls : id'[d] = IF d = c THEN idCounter + 1 ELSE id[d]
        /\ \A d \in Calls : pc'[d] = IF d = c THEN "send" ELSE pc[d]
    BY DEF TypeOK, CallStart, NextID
  <1>2. InFlight' = InFlight \cup {c} /\ c \notin InFlight
    BY <1>1 DEF InFlight, CallStart
  <1>3. IdInv'
    <2>1. /\ \A d \in Calls : id[d] <= idCounter
          /\ \A d, e \in Calls : id[d] # 0 /\ id[d] = id[e] => d = e
          /\ \A d \in Calls : pc[d] = "idle" => id[d] = 0
          /\ \A d \in InFlight : id[d] # 0
      BY Zenon DEF TableInv, IdInv, Started
    <2>2. /\ \A d \in Calls : id'[d] <= idCounter'
          /\ \A d, e \in Calls : id'[d] # 0 /\ id'[d] = id'[e] => d = e
      BY <1>1, <2>1
    <2>3. /\ \A d \in Calls : pc'[d] = "idle" => id'[d] = 0
          /\ \A d \in InFlight' : id'[d] # 0
      BY <1>1, <1>2, <2>1 DEF InFlight
    <2> QED BY <2>2, <2>3, Zenon DEF IdInv, Started
  <1>4. \A e \in rpcResponse : e.key # idCounter + 1
    <2>1. \A e \in rpcResponse : \E d \in InFlight : e.key = id[d]
      BY DEF TableInv, TableMatchesCalls
    <2>2. \A d \in InFlight : id[d] \in Nat /\ id[d] <= idCounter
      BY <1>1 DEF TableInv, IdInv, InFlight
    <2> QED BY <1>1, <2>1, <2>2
  <1>5. rpcResponse' = rpcResponse \cup {[key |-> idCounter + 1, val |-> c]}
    BY <1>4 DEF CallStart, NextID, Store
  <1>6. TableMatchesCalls'
    BY <1>1, <1>2, <1>5 DEF TableInv, TableMatchesCalls, InFlight
  <1> QED BY <1>3, <1>6 DEF TableInv

LEMMA TableLeave == ASSUME TInv, TableInv, NEW c \in Calls, CallLeave(c)
                    PROVE  TableInv'
  <1> USE ChannelAssumption DEF TInv, Agents
  <1>1. /\ UNCHANGED <<id, idCounter>>
        /\ \A d \in Calls : pc'[d] = IF d = c THEN "done" ELSE pc[d]
        /\ pc[c] = "leave"
    BY DEF TypeOK, CallLeave
  <1>2. InFlight' = InFlight \ {c} /\ c \in InFlight
    BY <1>1, Zenon DEF InFlight
  <1>3. IdInv'
    <2>1. \A d \in Calls : pc'[d] = "idle" => pc[d] = "idle"
      BY <1>1
    <2> QED BY <1>1, <1>2, <2>1, Zenon DEF TableInv, IdInv, Started
  <1>4. rpcResponse' = {e \in rpcResponse : e.key # id[c]}
    BY Zenon DEF CallLeave, WithoutCall, Delete
  <1>5. \A d \in InFlight : id[d] = id[c] => d = c
    BY <1>2, Zenon DEF TableInv, IdInv, InFlight
  <1>6. TableMatchesCalls'
    <2>1. rpcResponse = {[key |-> id[d], val |-> d] : d \in InFlight}
      BY Zenon DEF TableInv, TableMatchesCalls
    <2>2. ASSUME NEW e \in rpcResponse'
          PROVE  \E d \in InFlight' : e = [key |-> id[d], val |-> d]
      <3>1. PICK d \in InFlight : e = [key |-> id[d], val |-> d]
        BY <1>4, <2>1, Zenon
      <3>2. d # c
        BY <1>4, <3>1
      <3> QED BY <1>2, <3>1, <3>2, Zenon
    <2>3. \A d \in InFlight' : [key |-> id[d], val |-> d] \in rpcResponse'
      BY <1>2, <1>4, <1>5, <2>1
    <2>4. rpcResponse' = {[key |-> id[d], val |-> d] : d \in InFlight'}
      BY <2>2, <2>3
    <2> QED BY <1>1, <2>4, Zenon DEF TableMatchesCalls
  <1> QED BY <1>3, <1>6 DEF TableInv

LEMMA NextTableInv == TInv /\ TableInv /\ [Next]_vars => TableInv'
  <1> SUFFICES ASSUME TInv, TableInv, [Next]_vars PROVE TableInv'
    OBVIOUS
  <1> USE ChannelAssumption DEF TInv, Agents
  <1>1. ASSUME NEW c \in Calls, CallStep(c) PROVE TableInv'
    <2>1. CASE SendStep(c) \/ CallReceive(c) \/ CallTimeout(c)
      <3>1. /\ pc[c] \in {"send", "write", "blocked", "wait"}
            /\ \E v \in {"write", "blocked", "wait", "leave"} : pc' = [pc EXCEPT ![c] = v]
            /\ UNCHANGED <<id, idCounter, rpcResponse>>
        BY <2>1 DEF SendStep, SendCheck, SendWrite, WriteBlocks, WriteFails, SendFailed,
           Sent, CallReceive, CallTimeout, TimerRuns
      <3>2. /\ InFlight' = InFlight
            /\ \A d \in Calls : pc'[d] = "idle" => pc[d] = "idle"
        BY <3>1 DEF InFlight, TypeOK
      <3> QED BY <3>1, <3>2, TableUntouched
    <2>2. CASE CallRefused(c)
      <3>1. /\ pc[c] = "idle" /\ pc' = [pc EXCEPT ![c] = "done"]
            /\ UNCHANGED <<id, rpcResponse>> /\ idCounter' \in {idCounter, idCounter + 1}
        BY <2>2 DEF CallRefused, NextID
      <3>2. /\ InFlight' = InFlight
            /\ \A d \in Calls : pc'[d] = "idle" => pc[d] = "idle"
        BY <3>1 DEF InFlight, TypeOK
      <3> QED BY <3>1, <3>2, TableUntouched
    <2> QED BY <1>1, <2>1, <2>2, TableStart, TableLeave DEF CallStep
  <1>2. ASSUME NEW s \in Subs, SubStep(s) PROVE TableInv'
    <2>1. (\E v : pc' = [pc EXCEPT ![s] = v]) /\ UNCHANGED <<id, idCounter, rpcResponse>>
      BY <1>2, Zenon DEF SubStep, SendStep, SendCheck, SendWrite, WriteBlocks, WriteFails,
         SendFailed, SubStart, SubRegister, SubUnregister, SubWatch, Sent
    <2>2. \A d \in Calls : pc'[d] = pc[d]
      BY <2>1 DEF TypeOK
    <2> QED BY <2>1, <2>2, TableUntouched DEF InFlight
  <1>3. CASE ReaderStep
    <2>1. /\ pc' = pc \/ \E s \in Subs : pc' = [pc EXCEPT ![s] = "unregister"]
          /\ UNCHANGED <<id, idCounter, rpcResponse>>
      BY <1>3 DEF ReaderStep, ReadWithChannel, ReaderError, ReaderGathers, GatherFails,
         Reconnecte, ReconnectTick, DialFails, ReaderRpc, ReaderRegister, ReaderLog,
         ReaderReply, ReaderAnswer, UserTakesLog
    <2>2. \A d \in Calls : pc'[d] = pc[d]
      BY <2>1 DEF TypeOK
    <2> QED BY <2>1, <2>2, TableUntouched DEF InFlight
  <1>4. CASE Close \/ Node \/ (\E g \in Conns : LinkDrop(g)) \/ UNCHANGED vars
    <2>1. UNCHANGED <<pc, id, idCounter, rpcResponse>>
      BY <1>4, Zenon DEF Close, CloseSwap, CloseConn, CloseExit, Node, NodeAnswersCall,
         NodeAnswersSub, NodeEmits, LinkDrop, vars
    <2> QED BY <2>1, TableUntouched DEF InFlight
  <1> QED BY <1>1, <1>2, <1>3, <1>4 DEF Next

LEMMA TableInvAlways == Spec => []TableInv
  <1>1. Init => TableInv
    BY DEF Init, TableInv, IdInv, Started, TableMatchesCalls, InFlight, Agents
  <1> QED BY <1>1, NextTableInv, TInvAlways, PTL DEF Spec

(* Whatever the interleaving of calls, timeouts and answers, the table of   *)
(* reply channels is exactly the calls in flight, each under its own ID.    *)
THEOREM TableCorrect == Spec => []TableMatchesCalls
  BY TableInvAlways, PTL DEF TableInv

------------------------------------------------------------------------------
(***************************************************************************)
(* Refinement of RpcCall.                                                  *)
(***************************************************************************)
(* An answer under way belongs to the call whose ID it carries, if any. *)
Genuine(m) ==
  m.kind = "rpc" => /\ m.id <= idCounter
                    /\ \A c \in Calls : Started(c) /\ id[c] = m.id => answered[c] = m.val

Allowed(c) == RC!LocalFailures \cup
              (IF answered[c] = "none" THEN {} ELSE RC!Promised(c, answered[c]))

(* The request of an invocation has not been written yet. *)
Unwritten(a) == pc[a] \in {"idle", "send", "write", "blocked"}

RequestInv ==
  /\ \A r \in toNode : answered[r.from] = "none" /\ ~ Unwritten(r.from)
  /\ \A r \in toNode : r.from \in Calls => Started(r.from)
  /\ \A r, q \in toNode : r.from = q.from => r = q
  /\ \A a \in Agents : Unwritten(a) => answered[a] = "none"

GenuineMsgs == {m \in Msg \cup {ReadError} : Genuine(m)}

AnswerInv ==
  /\ inbox \in [Conns -> Seq(GenuineMsgs)]
  /\ readCh \in Seq(GenuineMsgs)
  /\ reader = "toCaller" => /\ cur \in GenuineMsgs
                            /\ \A c \in dest : Started(c) /\ id[c] = cur.id

ReplyInv ==
  \A c \in Calls :
    /\ ch[c] # <<>> => answered[c] # "none" /\ ch[c] = <<Decoded(c, answered[c])>>
    /\ pc[c] = "leave" => result[c] \in Allowed(c)

RefInv == RequestInv /\ AnswerInv /\ ReplyInv

(* No step other than CallStart gives a call an ID. *)
LEMMA IdsStay ==
  ASSUME TInv, [Next]_vars, ~ \E c \in Calls : CallStart(c)
  PROVE  id' = id /\ idCounter <= idCounter'
  <1>1. id' = id
    BY Zenon DEF Next, vars, CallStep, SendStep, SubStep, CallRefused, SendCheck,
       SendWrite, WriteBlocks, WriteFails, CallReceive, CallTimeout, CallLeave, SubStart,
       SubRegister, SubUnregister, SubWatch, ReaderStep, ReadWithChannel, ReaderGathers,
       GatherFails, ReaderError, ReconnectTick, DialFails, Reconnecte, ReaderRpc,
       ReaderRegister, ReaderLog, ReaderReply, ReaderAnswer, UserTakesLog, Close,
       CloseSwap, CloseConn, CloseExit, LinkDrop, Node, NodeAnswersCall, NodeAnswersSub,
       NodeEmits
  <1>2. idCounter' = idCounter \/ idCounter' = NextID
    BY Zenon DEF Next, vars, CallStep, SendStep, SubStep, CallRefused, SendCheck,
       SendWrite, WriteBlocks, WriteFails, CallReceive, CallTimeout, CallLeave, SubStart,
       SubRegister, SubUnregister, SubWatch, ReaderStep, ReadWithChannel, ReaderGathers,
       GatherFails, ReaderError, ReconnectTick, DialFails, Reconnecte, ReaderRpc,
       ReaderRegister, ReaderLog, ReaderReply, ReaderAnswer, UserTakesLog, Close,
       CloseSwap, CloseConn, CloseExit, LinkDrop, Node, NodeAnswersCall, NodeAnswersSub,
       NodeEmits
  <1> QED BY <1>1, <1>2 DEF TInv, TypeOK, NextID

(* What one step does to the IDs and the answers of calls. *)
LEMMA StepKeeps ==
  ASSUME TInv, TableInv, RequestInv, [Next]_vars
  PROVE  /\ \A c \in Calls : answered[c] # "none" => answered'[c] = answered[c]
         /\ idCounter <= idCounter'
         /\ \A c \in Calls : Started(c)' /\ id'[c] <= idCounter
                             => Started(c) /\ id'[c] = id[c]
         /\ \A c \in Calls : Started(c) => id'[c] = id[c]
  <1> USE ChannelAssumption DEF TInv, Agents
  <1>1. ASSUME NEW c \in Calls, CallStart(c) PROVE
           /\ answered' = answered
           /\ idCounter <= idCounter'
           /\ \A d \in Calls : id'[d] <= idCounter => id'[d] = id[d]
           /\ \A d \in Calls : id[d] # 0 => id'[d] = id[d]
    <2>1. id[c] = 0
      BY <1>1, Zenon DEF CallStart, TableInv, IdInv, Started
    <2> QED BY <1>1, <2>1 DEF CallStart, NextID, TypeOK
  <1>2. CASE ~ \E c \in Calls : CallStart(c)
    <2>1. \A c \in Calls : answered[c] # "none" => answered'[c] = answered[c]
      <3>1. ASSUME NEW r \in toNode, NEW v, answered' = [answered EXCEPT ![r.from] = v]
            PROVE  \A c \in Calls : answered[c] # "none" => answered'[c] = answered[c]
        BY <3>1 DEF RequestInv, TypeOK
      <3>2. CASE Node
        BY <3>1, <3>2, Zenon DEF Node, NodeAnswersCall, NodeAnswersSub, NodeEmits
      <3>3. CASE ~ Node
        <4>1. answered' = answered
          BY <1>2, <3>3, Zenon DEF Next, vars, CallStep, SendStep, SubStep, CallRefused,
             SendCheck, SendWrite, WriteBlocks, WriteFails, CallReceive, CallTimeout,
             CallLeave, SubStart, SubRegister, SubUnregister, SubWatch, ReaderStep,
             ReadWithChannel, ReaderGathers, GatherFails, ReaderError, ReconnectTick,
             DialFails, Reconnecte, ReaderRpc, ReaderRegister, ReaderLog, ReaderReply,
             ReaderAnswer, UserTakesLog, Close, CloseSwap, CloseConn, CloseExit, LinkDrop
        <4> QED BY <4>1
      <3> QED BY <3>2, <3>3
    <2> QED BY <1>2, <2>1, IdsStay, Zenon DEF Started
  <1> QED BY <1>1, <1>2, Zenon DEF Started

LEMMA GenuineStep ==
  ASSUME TInv, TableInv, RequestInv, [Next]_vars
  PROVE  GenuineMsgs \subseteq GenuineMsgs'
  <1>1. TypeOK' /\ TypeOK
    BY NextTInv DEF TInv
  <1> SUFFICES ASSUME NEW m \in Msg \cup {ReadError}, Genuine(m)
               PROVE  Genuine(m)'
    BY Zenon DEF GenuineMsgs, Msg, RpcMsg, RegisterMsg, LogMsg, Log, Conns, ReadError
  <1> SUFFICES ASSUME m.kind = "rpc"
               PROVE  /\ m.id <= idCounter'
                      /\ \A c \in Calls : Started(c)' /\ id'[c] = m.id
                                          => answered'[c] = m.val
    BY Zenon DEF Genuine
  <1>2. m.id \in Nat /\ m.val # "none"
    BY MsgKinds DEF RpcMsg, Answers
  <1>3. /\ m.id <= idCounter
        /\ \A c \in Calls : Started(c) /\ id[c] = m.id => answered[c] = m.val
    BY Zenon DEF Genuine
  <1>4. idCounter \in Nat /\ idCounter' \in Nat
    BY <1>1, Zenon DEF TypeOK
  <1>5. /\ \A c \in Calls : answered[c] # "none" => answered'[c] = answered[c]
        /\ idCounter <= idCounter'
        /\ \A c \in Calls : Started(c)' /\ id'[c] <= idCounter
                            => Started(c) /\ id'[c] = id[c]
    BY StepKeeps, Zenon
  <1>6. m.id <= idCounter'
    BY <1>2, <1>3, <1>4, <1>5
  <1>7. ASSUME NEW c \in Calls, Started(c)', id'[c] = m.id PROVE answered'[c] = m.val
    <2>1. Started(c) /\ id[c] = m.id
      BY <1>3, <1>5, <1>7, Zenon
    <2> QED BY <1>2, <1>3, <1>5, <2>1, Zenon
  <1> QED BY <1>6, <1>7, Zenon

LEMMA RequestStep == ASSUME TInv, TableInv, RequestInv, [Next]_vars PROVE RequestInv'
  <1> USE ChannelAssumption DEF TInv
  <1>0. \A c \in Calls : Started(c) => Started(c)'
    BY StepKeeps, Zenon DEF Started
  <1>1. ASSUME NEW a \in Agents, NEW v, pc' = [pc EXCEPT ![a] = v],
               Unwritten(a) \/ v \notin {"idle", "send", "write", "blocked"},
               UNCHANGED <<toNode, answered>>
        PROVE  RequestInv'
    <2>1. \A b \in Agents : pc'[b] = IF b = a THEN v ELSE pc[b]
      BY <1>1 DEF TypeOK
    <2>2. \A b \in Agents : Unwritten(b)' => Unwritten(b)
      BY <1>1, <2>1, Zenon DEF Unwritten
    <2>3. \A r \in toNode : r.from \in Agents
      BY DEF TypeOK
    <2> QED BY <1>0, <1>1, <2>2, <2>3, Zenon DEF RequestInv
  <1>2. ASSUME NEW a \in Agents, SendWrite(a) PROVE RequestInv'
    <2>1. /\ pc[a] = "write" /\ UNCHANGED <<answered, id>>
          /\ \E v \in {"leave", "done", "wait", "register"} : pc' = [pc EXCEPT ![a] = v]
          /\ toNode' \subseteq toNode \cup {[via |-> conn, from |-> a]}
      BY <1>2 DEF SendWrite, SendFailed, Sent
    <2>2. ~ Unwritten(a)' /\ \A b \in Agents : b # a => Unwritten(b)' = Unwritten(b)
      BY <2>1 DEF TypeOK, Unwritten
    <2>3. Unwritten(a) /\ answered[a] = "none"
      BY <2>1 DEF RequestInv, Unwritten
    <2>4. \A r \in toNode : r.from \in Agents /\ r.from # a
      BY <2>3 DEF RequestInv, TypeOK
    <2>5. \A r \in toNode' : r \in toNode \/ r = [via |-> conn, from |-> a]
      BY <2>1
    <2>6. a \in Calls => Started(a)
      BY <2>1, Zenon DEF TableInv, IdInv, InFlight
    <2>7. \A r \in toNode' : answered'[r.from] = "none" /\ ~ Unwritten(r.from)'
      BY <2>1, <2>2, <2>3, <2>4, <2>5 DEF RequestInv
    <2>8. \A r \in toNode' : r.from \in Calls => Started(r.from)
      BY <2>5, <2>6 DEF RequestInv
    <2>9. \A r, q \in toNode' : r.from = q.from => r = q
      BY <2>4, <2>5 DEF RequestInv
    <2>10. \A b \in Agents : Unwritten(b)' => answered'[b] = "none"
      BY <2>1, <2>2, Zenon DEF RequestInv
    <2> QED BY <1>0, <2>7, <2>8, <2>9, <2>10, Zenon DEF RequestInv
  <1>3. ASSUME NEW a \in Agents, SendStep(a) PROVE RequestInv'
    <2>1. CASE SendCheck(a) \/ WriteBlocks(a) \/ WriteFails(a)
      BY <1>1, <2>1, Zenon DEF SendCheck, WriteBlocks, WriteFails, SendFailed, Unwritten
    <2> QED BY <1>2, <1>3, <2>1 DEF SendStep
  <1>4. ASSUME NEW c \in Calls, CallStep(c) PROVE RequestInv'
    <2>1. CASE CallStart(c) \/ CallRefused(c)
      BY <1>1, <2>1, Zenon DEF CallStart, CallRefused, Unwritten, Agents
    <2>2. CASE CallReceive(c) \/ CallTimeout(c) \/ CallLeave(c)
      BY <1>1, <2>2, Zenon DEF CallReceive, CallTimeout, CallLeave, Agents
    <2> QED BY <1>3, <1>4, <2>1, <2>2 DEF CallStep, Agents
  <1>5. ASSUME NEW s \in Subs, SubStep(s) PROVE RequestInv'
    <2>1. CASE SubStart(s)
      BY <1>1, <2>1, Zenon DEF SubStart, Unwritten, Agents
    <2>2. CASE SubRegister(s) \/ SubUnregister(s) \/ SubWatch(s)
      BY <1>1, <2>2, Zenon DEF SubRegister, SubUnregister, AfterAnswer, SubWatch, Agents
    <2> QED BY <1>3, <1>5, <2>1, <2>2 DEF SubStep, Agents
  <1>6. ASSUME NEW s \in Subs, ReaderAnswer(s) PROVE RequestInv'
    BY <1>1, <1>6, Zenon DEF ReaderAnswer, Agents
  <1>7. CASE UNCHANGED <<pc, toNode, answered>>
    BY <1>0, <1>7 DEF RequestInv, Unwritten
  <1>8. CASE ReaderStep
    BY <1>6, <1>7, <1>8 DEF ReaderStep, ReadWithChannel, ReaderGathers, GatherFails,
       ReaderError, ReconnectTick, DialFails, Reconnecte, ReaderRpc, ReaderRegister,
       ReaderLog, ReaderReply, UserTakesLog
  <1>9. ASSUME NEW r \in toNode, NEW v, answered' = [answered EXCEPT ![r.from] = v],
               toNode' = toNode \ {r}, pc' = pc
        PROVE  RequestInv'
    <2>1. \A q \in toNode' : q \in toNode /\ q.from # r.from /\ q.from \in Agents
      BY <1>9 DEF RequestInv, TypeOK
    <2>2. \A b \in Agents : b # r.from => answered'[b] = answered[b]
      BY <1>9 DEF TypeOK
    <2>3. \A b \in Agents : Unwritten(b)' = Unwritten(b)
      BY <1>9 DEF Unwritten
    <2>4. ~ Unwritten(r.from)
      BY DEF RequestInv
    <2> QED BY <1>0, <2>1, <2>2, <2>3, <2>4, Zenon DEF RequestInv
  <1>10. CASE Node
    BY <1>7, <1>9, <1>10, Zenon DEF Node, NodeAnswersCall, NodeAnswersSub, NodeEmits
  <1>11. CASE Close \/ (\E g \in Conns : LinkDrop(g)) \/ UNCHANGED vars
    BY <1>7, <1>11, Zenon DEF Close, CloseSwap, CloseConn, CloseExit, LinkDrop, vars
  <1> QED BY <1>4, <1>5, <1>8, <1>10, <1>11 DEF Next

------------------------------------------------------------------------------
(***************************************************************************)
(* The calls implement RpcCall: every answer under way is the node's answer *)
(* to the call it names, what a reply channel holds is that answer decoded, *)
(* and so every call returns what RpcCall allows.                          *)
(***************************************************************************)

LEMMA SeqMonotone ==
  ASSUME NEW S, NEW T, S \subseteq T, NEW q \in Seq(S)
  PROVE  q \in Seq(T)
  OBVIOUS

LEMMA InboxStep ==
  ASSUME TInv, TableInv, RefInv, [Next]_vars
  PROVE  inbox' \in [Conns -> Seq(GenuineMsgs')]
  <1> USE ChannelAssumption DEF TInv, Agents
  <1>0. inbox \in [Conns -> Seq(GenuineMsgs')]
    <2>1. GenuineMsgs \subseteq GenuineMsgs'
      BY GenuineStep DEF RefInv
    <2> QED BY <2>1, SeqMonotone DEF RefInv, AnswerInv
  <1>1. ASSUME NEW h \in Conns, NEW m \in GenuineMsgs', Deliver(h, m)
        PROVE  inbox' \in [Conns -> Seq(GenuineMsgs')]
    BY <1>0, <1>1 DEF Deliver
  <1>2. CASE ReadWithChannel
    <2>1. inbox' = inbox \/ (inbox[conn] # <<>> /\ inbox' = [inbox EXCEPT ![conn] = Tail(@)])
      BY <1>2 DEF ReadWithChannel
    <2>2. inbox[conn] # <<>> => Tail(inbox[conn]) \in Seq(GenuineMsgs')
      BY <1>0, HeadTail DEF TypeOK
    <2> QED BY <1>0, <2>1, <2>2, Zenon
  <1>3. CASE Node
    <2>1. ASSUME NEW r \in toNode, NodeAnswersCall(r)
          PROVE  \E h \in Conns, m \in GenuineMsgs' : Deliver(h, m)
      <3>1. r.via \in Conns /\ r.from \in Calls
        BY <2>1, Zenon DEF NodeAnswersCall, TypeOK
      <3>2. PICK v \in Answers :
              /\ answered' = [answered EXCEPT ![r.from] = v]
              /\ Deliver(r.via, [kind |-> "rpc", id |-> id[r.from], val |-> v])
        BY <2>1, Zenon DEF NodeAnswersCall
      <3> DEFINE m == [kind |-> "rpc", id |-> id[r.from], val |-> v]
      <3>3. m \in Msg /\ m.id = id[r.from] /\ m.val = v
        BY <3>1 DEF Msg, RpcMsg, TypeOK
      <3>4. UNCHANGED <<id, idCounter>> /\ Started(r.from) /\ answered'[r.from] = v
        BY <2>1, <3>1, <3>2, Zenon DEF NodeAnswersCall, RequestInv, RefInv, TypeOK
      <3>5. /\ m.id <= idCounter'
            /\ \A c \in Calls : Started(c)' /\ id'[c] = m.id => answered'[c] = m.val
        BY <3>1, <3>3, <3>4, Zenon DEF Started, TableInv, IdInv
      <3> HIDE DEF m
      <3>6. m \in GenuineMsgs'
        BY <3>3, <3>5, Zenon DEF GenuineMsgs, Genuine
      <3> QED BY <3>1, <3>2, <3>6 DEF m
    <2>2. ASSUME NEW r \in toNode, NodeAnswersSub(r)
          PROVE  \E h \in Conns, m \in GenuineMsgs' : Deliver(h, m)
      <3>1. r.via \in Conns /\ r.from \in Subs
        BY <2>2, Zenon DEF NodeAnswersSub, TypeOK
      <3>2. PICK ok \in BOOLEAN :
              Deliver(r.via, [kind |-> "register", seq |-> r.from, ok |-> ok])
        BY <2>2, Zenon DEF NodeAnswersSub
      <3>3. [kind |-> "register", seq |-> r.from, ok |-> ok] \in GenuineMsgs'
        BY <3>1 DEF GenuineMsgs, Genuine, Msg, RegisterMsg
      <3> QED BY <3>1, <3>2, <3>3
    <2>3. ASSUME NEW h \in Conns, NEW f \in Filters, NodeEmits(h, f)
          PROVE  \E m \in GenuineMsgs' : Deliver(h, m)
      <3> DEFINE logs(k) == [i \in 1..k |-> [via |-> h, n |-> emitted[h][f] + i]]
      <3>1. PICK k \in 1..2, valid \in BOOLEAN :
              Deliver(h, [kind |-> "log", filter |-> f, valid |-> valid, logs |-> logs(k)])
        BY <2>3 DEF NodeEmits
      <3>2. emitted[h][f] \in Nat
        BY DEF TypeOK
      <3>3. logs(k) \in Seq(Log) /\ logs(k) # <<>>
        BY <3>2, LogsType, Zenon
      <3> HIDE DEF logs
      <3>4. [kind |-> "log", filter |-> f, valid |-> valid, logs |-> logs(k)] \in GenuineMsgs'
        BY <3>3, Zenon DEF GenuineMsgs, Genuine, Msg, LogMsg
      <3> QED BY <3>1, <3>4
    <2> QED BY <1>1, <1>3, <2>1, <2>2, <2>3 DEF Node
  <1>4. CASE GatherFails
    <2>1. inbox' = [inbox EXCEPT ![conn] = <<>>] /\ <<>> \in Seq(GenuineMsgs')
      BY <1>4 DEF GatherFails
    <2> QED BY <1>0, <2>1, Zenon
  <1>5. CASE ~ Node /\ ~ ReadWithChannel /\ ~ GatherFails
    <2>1. inbox' = inbox
      BY <1>5, Zenon DEF Next, vars, CallStep, SubStep, CallStart, SendStep, SendCheck,
         SendWrite, WriteBlocks, WriteFails, CallReceive, CallRefused, CallTimeout,
         CallLeave, SubStart, SubRegister, SubUnregister, SubWatch, ReaderStep,
         ReaderError, ReaderGathers,  Reconnecte, ReconnectTick, DialFails,
         ReaderRpc, ReaderRegister, ReaderLog, ReaderReply, ReaderAnswer, UserTakesLog,
         Close, CloseSwap, CloseConn, CloseExit, LinkDrop
    <2> QED BY <1>0, <2>1
  <1> QED BY <1>2, <1>3, <1>4, <1>5

LEMMA AnswerStep ==
  ASSUME TInv, TableInv, RefInv, [Next]_vars
  PROVE  AnswerInv'
  <1> USE ChannelAssumption DEF TInv, Agents
  <1>1. GenuineMsgs \subseteq GenuineMsgs' /\ ReadError \in GenuineMsgs'
    BY GenuineStep, Zenon DEF RefInv, GenuineMsgs, Genuine, ReadError
  <1>2. readCh \in Seq(GenuineMsgs')
    BY <1>1, SeqMonotone DEF RefInv, AnswerInv
  <1>3. readCh' \in Seq(GenuineMsgs')
    <2>1. CASE ReadWithChannel
      <3>1. inbox[conn] # <<>> => Head(inbox[conn]) \in GenuineMsgs'
        BY <1>1, HeadTail DEF RefInv, AnswerInv, TypeOK
      <3>2. \E m \in GenuineMsgs' : readCh' = Append(readCh, m)
        BY <1>1, <2>1, <3>1 DEF ReadWithChannel
      <3> QED BY <1>2, <3>2
    <2>2. readCh # <<>> => Tail(readCh) \in Seq(GenuineMsgs')
      BY <1>2, HeadTail
    <2>3. CASE ReaderGathers \/ ReaderError \/ ReaderRpc \/ ReaderRegister \/ ReaderLog
      BY <2>2, <2>3, Zenon DEF ReaderGathers, ReaderError, ReaderRpc, ReaderRegister,
         ReaderLog, Receive
    <2>4. CASE ~ ReadWithChannel
               /\ ~ (ReaderGathers \/ ReaderError \/ ReaderRpc \/ ReaderRegister \/ ReaderLog)
      <3>1. readCh' = readCh
        BY <2>4, Zenon DEF Next, vars, CallStep, SubStep, CallStart, SendStep, SendCheck,
           SendWrite, WriteBlocks, WriteFails, CallReceive, CallRefused, CallTimeout,
           CallLeave, SubStart, SubRegister, SubUnregister, SubWatch, ReaderStep,
           Reconnecte, ReconnectTick, GatherFails, DialFails, ReaderReply, ReaderAnswer, UserTakesLog,
           Close, CloseSwap, CloseConn, CloseExit, Node, NodeAnswersCall, NodeAnswersSub,
           NodeEmits, LinkDrop
      <3> QED BY <1>2, <3>1
    <2> QED BY <2>1, <2>3, <2>4
  <1>4. reader' = "toCaller" => /\ cur' \in GenuineMsgs'
                               /\ \A c \in dest' : Started(c)' /\ id'[c] = cur'.id
    <2>1. CASE ReaderRpc
      <3>1. CASE Loop
        BY <3>1 DEF Loop
      <3>2. CASE HandOver("toCaller", Load(rpcResponse, Head(readCh).id))
        <4>1. cur' = Head(readCh) /\ cur' \in GenuineMsgs'
          BY <1>2, <2>1, <3>2, HeadTail, Zenon DEF ReaderRpc, Receive, HandOver
        <4>2. \A c \in dest' : c \in InFlight /\ id[c] = cur'.id
          BY <3>2, <4>1 DEF HandOver, Load, TableInv, TableMatchesCalls
        <4>3. UNCHANGED <<pc, id>>
          BY <2>1 DEF ReaderRpc
        <4> QED BY <4>1, <4>2, <4>3, Zenon DEF TableInv, IdInv, Started
      <3> QED BY <2>1, <3>1, <3>2, Zenon DEF ReaderRpc
    <2>2. CASE reader' = "toCaller" /\ ~ ReaderRpc
      <3>1. reader = "toCaller" /\ UNCHANGED <<cur, dest>>
        BY <2>2, Zenon DEF Next, vars, CallStep, SubStep, CallStart, SendStep, SendCheck,
           SendWrite, WriteBlocks, WriteFails, CallReceive, CallRefused, CallTimeout,
           CallLeave, SubStart, SubRegister, SubUnregister, SubWatch, ReaderStep,
           ReadWithChannel, ReaderError, ReaderGathers, GatherFails, Redial, Reconnecte,
           ReconnectTick, DialFails, ReaderRegister, ReaderLog, ReaderReply, ReaderAnswer,
           UserTakesLog, Loop, HandOver, Close, CloseSwap, CloseConn, CloseExit, Node,
           NodeAnswersCall, NodeAnswersSub, NodeEmits, LinkDrop
      <3>2. dest \subseteq Calls
        BY <3>1 DEF ReaderInv
      <3>3. \A c \in Calls : Started(c) => Started(c)' /\ id'[c] = id[c]
        BY StepKeeps, Zenon DEF RefInv, Started
      <3> QED BY <1>1, <3>1, <3>2, <3>3, Zenon DEF RefInv, AnswerInv
    <2> QED BY <2>1, <2>2, Zenon
  <1> QED BY <1>3, <1>4, InboxStep DEF AnswerInv

(* What rpcCall makes of a decoded answer is what RpcCall promises for it. *)
LEMMA PromiseKept ==
  ASSUME NEW c \in Calls, NEW a, Decoded(c, a) \in Answers \ {"garbled"}
  PROVE  ReturnOf(Decoded(c, a)) \in RC!Promised(c, a)
  <1>1. a \in {"value", "mistyped", "error", "empty"}
    BY DEF Decoded, Answers
  <1> QED BY <1>1 DEF Decoded, ReturnOf, RC!Promised, RC!Promise

LEMMA ReplyStep ==
  ASSUME TInv, TableInv, RefInv, [Next]_vars
  PROVE  ReplyInv'
  <1> USE ChannelAssumption DEF TInv, Agents
  <1> DEFINE Full(c) == ch[c] # <<>> => answered[c] # "none" /\ ch[c] = <<Decoded(c, answered[c])>>
             Kept(c) == pc[c] = "leave" => result[c] \in Allowed(c)
  <1>1. \A c \in Calls : Full(c) /\ Kept(c)
    BY DEF RefInv, ReplyInv
  <1>2. \A c \in Calls : answered[c] # "none" => answered'[c] = answered[c]
    BY StepKeeps DEF RefInv
  <1>3. \A c \in Calls : ch'[c] = ch[c] => Full(c)'
    BY <1>1, <1>2 DEF Decoded
  <1>4. \A c \in Calls : Allowed(c) \subseteq Allowed(c)'
    BY <1>2 DEF Allowed, RC!Promised, RC!Promise, RC!LocalFailures
  <1>5. \A c \in Calls : pc[c] = "leave" /\ result'[c] = result[c] => Kept(c)'
    BY <1>1, <1>4, Zenon
  <1>6. \A c \in Calls : result'[c] \in {"sendErr", "timeout"} => Kept(c)'
    BY DEF Allowed, RC!LocalFailures
  <1>7. \A c \in Calls : pc'[c] # "leave" => Kept(c)'
    OBVIOUS
  <1> SUFFICES \A c \in Calls : Full(c)' /\ Kept(c)'
    BY Zenon DEF ReplyInv
  <1> HIDE DEF Full, Kept
  <1>8. ASSUME ch' = ch, result' = result, NEW c \in Calls,
               pc'[c] = pc[c] \/ pc'[c] # "leave"
        PROVE  Full(c)' /\ Kept(c)'
    BY <1>3, <1>5, <1>7, <1>8, Zenon DEF TypeOK
  <1>9. ASSUME ch' = ch, NEW a \in Agents,
               \E v : pc' = [pc EXCEPT ![a] = v] /\ (v = "leave" => result'[a] = "sendErr"),
               \E w : result' = [result EXCEPT ![a] = w]
        PROVE  \A c \in Calls : Full(c)' /\ Kept(c)'
    <2>1. \A c \in Calls : Full(c)'
      BY <1>3, <1>9
    <2>2. \A c \in Calls : c # a => pc'[c] = pc[c] /\ result'[c] = result[c]
      BY <1>9 DEF TypeOK
    <2>3. pc'[a] = "leave" => result'[a] = "sendErr"
      BY <1>9 DEF TypeOK
    <2> QED BY <1>5, <1>6, <1>7, <2>1, <2>2, <2>3, Zenon
  <1>10. ASSUME NEW a \in Agents, SendStep(a)
         PROVE  \A c \in Calls : Full(c)' /\ Kept(c)'
    <2>1. ch' = ch /\ \E w : result' = [result EXCEPT ![a] = w]
      <3>1. result' = result \/ result' = [result EXCEPT ![a] = "sendErr"]
        BY <1>10 DEF SendStep, SendCheck, SendWrite, WriteBlocks, WriteFails, SendFailed,
           Sent
      <3>2. result = [result EXCEPT ![a] = result[a]]
        BY DEF TypeOK
      <3>3. ch' = ch
        BY <1>10, Zenon DEF SendStep, SendCheck, SendWrite, WriteBlocks, WriteFails
      <3> QED BY <3>1, <3>2, <3>3, Zenon
    <2>2. \E v : /\ pc' = [pc EXCEPT ![a] = v]
                 /\ v = "leave" => result'[a] = "sendErr"
      <3>1. CASE SendFailed(a)
        BY <3>1, Zenon DEF SendFailed, TypeOK
      <3>2. CASE ~ SendFailed(a)
        <4>1. \E v \in {"write", "blocked", "wait", "register"} : pc' = [pc EXCEPT ![a] = v]
          BY <1>10, <3>2, Zenon DEF SendStep, SendCheck, SendWrite, WriteBlocks, WriteFails, Sent
        <4> QED BY <4>1
      <3> QED BY <3>1, <3>2
    <2> QED BY <1>9, <2>1, <2>2, Zenon
  <1>11. ASSUME NEW d \in Calls, CallReceive(d) PROVE \A c \in Calls : Full(c)' /\ Kept(c)'
    <2>1. /\ answered[d] # "none" /\ ch[d] = <<Decoded(d, answered[d])>>
          /\ Tail(ch[d]) = <<>> /\ Head(ch[d]) = Decoded(d, answered[d])
      <3>1. answered[d] # "none" /\ ch[d] = <<Decoded(d, answered[d])>>
        BY <1>1, <1>11 DEF CallReceive, Full
      <3>2. \A x : Tail(<<x>>) = <<>> /\ Head(<<x>>) = x
        OBVIOUS
      <3> QED BY <3>1, <3>2, Zenon
    <2>2. /\ answered' = answered
          /\ ch'[d] = <<>> /\ result'[d] = ReturnOf(Decoded(d, answered[d]))
          /\ \A c \in Calls : c # d => /\ ch'[c] = ch[c] /\ pc'[c] = pc[c]
                                        /\ result'[c] = result[c]
      BY <1>11, <2>1, Zenon DEF CallReceive, TypeOK
    <2>3. Decoded(d, answered[d]) \in Answers \ {"garbled"}
      <3>1. ch[d] \in Seq(Answers \ {"garbled"}) /\ ch[d] # <<>>
        BY <1>11, Zenon DEF CallReceive, TypeOK
      <3>2. Head(ch[d]) \in Answers \ {"garbled"}
        BY <3>1, HeadTail, Zenon
      <3> QED BY <2>1, <3>2, Zenon
    <2>4. ReturnOf(Decoded(d, answered[d])) \in RC!Promised(d, answered[d])
      BY <2>3, PromiseKept
    <2>5. Full(d)' /\ Kept(d)'
      BY <2>1, <2>2, <2>4, Zenon DEF Full, Kept, Allowed
    <2> QED BY <1>3, <1>5, <1>7, <2>2, <2>5, Zenon
  <1>12. ASSUME NEW d \in Calls, CallTimeout(d) PROVE \A c \in Calls : Full(c)' /\ Kept(c)'
    <2>1. /\ ch' = ch /\ result'[d] = "timeout"
          /\ \A c \in Calls : c # d => pc'[c] = pc[c] /\ result'[c] = result[c]
      BY <1>12, Zenon DEF CallTimeout, TypeOK
    <2> QED BY <1>3, <1>5, <1>6, <1>7, <2>1, Zenon
  <1>13. ASSUME NEW d \in Calls, CallStart(d) \/ CallRefused(d) \/ CallLeave(d)
         PROVE  \A c \in Calls : Full(c)' /\ Kept(c)'
    <2>1. ch' = ch
      BY <1>13, Zenon DEF CallStart, CallRefused, CallLeave
    <2>2. pc'[d] # "leave" /\ \A c \in Calls : c # d => pc'[c] = pc[c] /\ result'[c] = result[c]
      BY <1>13 DEF CallStart, CallRefused, CallLeave, TypeOK
    <2> QED BY <1>3, <1>5, <1>7, <2>1, <2>2, Zenon
  <1>14. ASSUME NEW d \in Calls, ReaderReply(d) PROVE \A c \in Calls : Full(c)' /\ Kept(c)'
    <2>1. /\ UNCHANGED <<pc, result, answered>>
          /\ ch' = [ch EXCEPT ![d] = IF @ = <<>> THEN <<Decoded(d, cur.val)>> ELSE @]
      BY <1>14 DEF ReaderReply
    <2>2. answered[d] = cur.val /\ cur.val # "none"
      BY <1>14 DEF ReaderReply, RefInv, AnswerInv, GenuineMsgs, Genuine, ReaderInv, RpcMsg, Answers
    <2>3. \A c \in Calls : ch'[c] = ch[c] \/ (c = d /\ ch'[c] = <<Decoded(c, answered[c])>>)
      BY <2>1, <2>2 DEF TypeOK
    <2>4. \A c \in Calls : Full(c)'
      BY <1>3, <2>1, <2>2, <2>3 DEF Full, Decoded
    <2> QED BY <1>5, <1>7, <2>1, <2>4, Zenon
  <1>15. ASSUME NEW s \in Subs,
                SubStart(s) \/ SubRegister(s) \/ SubUnregister(s) \/ SubWatch(s) \/ ReaderAnswer(s)
         PROVE  \A c \in Calls : Full(c)' /\ Kept(c)'
    <2>1. /\ ch' = ch
          /\ \E v : pc' = [pc EXCEPT ![s] = v]
          /\ result' = result \/ \E w : result' = [result EXCEPT ![s] = w]
      BY <1>15, Zenon DEF SubStart, SubRegister, SubUnregister, SubWatch, ReaderAnswer
    <2>2. \A c \in Calls : pc'[c] = pc[c] /\ result'[c] = result[c]
      BY <2>1 DEF TypeOK
    <2> QED BY <1>3, <1>5, <1>7, <2>1, <2>2
  <1>16. CASE UNCHANGED <<ch, pc, result>>
    BY <1>8, <1>16
  <1>17. ASSUME NEW c \in Calls, CallStep(c) PROVE \A d \in Calls : Full(d)' /\ Kept(d)'
    BY <1>10, <1>11, <1>12, <1>13, <1>17 DEF CallStep
  <1>18. ASSUME NEW s \in Subs, SubStep(s) PROVE \A d \in Calls : Full(d)' /\ Kept(d)'
    BY <1>10, <1>15, <1>18 DEF SubStep
  <1>19. CASE ReaderStep
    BY <1>14, <1>15, <1>16, <1>19 DEF ReaderStep, ReadWithChannel, ReaderError,
       ReaderGathers, GatherFails, Reconnecte, ReconnectTick, DialFails, ReaderRpc,
       ReaderRegister, ReaderLog, UserTakesLog
  <1>20. CASE Close \/ Node \/ (\E g \in Conns : LinkDrop(g)) \/ UNCHANGED vars
    BY <1>16, <1>20, Zenon DEF Close, CloseSwap, CloseConn, CloseExit, Node, NodeAnswersCall,
       NodeAnswersSub, NodeEmits, LinkDrop, vars
  <1> QED BY <1>17, <1>18, <1>19, <1>20 DEF Next

LEMMA RefInvAlways == Spec => []RefInv
  <1>1. Init => RefInv
    BY ChannelAssumption DEF Init, RefInv, RequestInv, AnswerInv, ReplyInv, Conns, Agents
  <1>2. TInv /\ TableInv /\ RefInv /\ [Next]_vars => RefInv'
    BY RequestStep, AnswerStep, ReplyStep DEF RefInv
  <1> QED BY <1>1, <1>2, TInvAlways, TableInvAlways, PTL DEF Spec

(* The refinement mapping, call by call. *)
Phase(p) == CASE p = "idle" -> "idle"
              [] p = "done" -> "finished"
              [] OTHER -> "open"

PhaseBar == [c \in Calls |-> Phase(pc[c])]

AnswerBar == [c \in Calls |-> answered[c]]

OutcomeBar == [c \in Calls |-> IF pc[c] = "done" THEN result[c] ELSE "none"]

LEMMA StepRefines ==
  ASSUME TInv, TableInv, RefInv, [Next]_vars
  PROVE  RC!Next \/ UNCHANGED RC!vars
  <1> USE ChannelAssumption DEF TInv, Agents
  <1>1. ASSUME UNCHANGED <<PhaseBar, AnswerBar, OutcomeBar>>
        PROVE  UNCHANGED RC!vars
    BY <1>1 DEF RC!vars, PhaseBar, AnswerBar, OutcomeBar, Phase
  <1> DEFINE Still(c) == \/ pc'[c] = pc[c] /\ result'[c] = result[c]
                         \/ c \in InFlight /\ c \in InFlight'
  <1>2. ASSUME answered' = answered, \A c \in Calls : Still(c)
        PROVE  UNCHANGED RC!vars
    <2>1. PhaseBar' = PhaseBar
      <3>1. \A c \in Calls : Phase(pc[c])' = Phase(pc[c])
        BY <1>2 DEF InFlight, Phase
      <3> QED BY <3>1, Zenon DEF PhaseBar
    <2>2. OutcomeBar' = OutcomeBar
      BY <1>2, Zenon DEF OutcomeBar, InFlight
    <2>3. AnswerBar' = AnswerBar
      BY <1>2, Zenon DEF AnswerBar
    <2> QED BY <1>1, <2>1, <2>2, <2>3
  <1> HIDE DEF Still
  <1>3. ASSUME NEW c \in Calls, CallStart(c) PROVE RC!Open(c)
    <2>1. /\ PhaseBar[c] = "idle"
          /\ PhaseBar' = [PhaseBar EXCEPT ![c] = "open"]
          /\ UNCHANGED <<AnswerBar, OutcomeBar>>
      BY <1>3, Zenon DEF CallStart, TypeOK, PhaseBar, AnswerBar, OutcomeBar, Phase
    <2> QED BY <2>1 DEF RC!Open, PhaseBar, AnswerBar, OutcomeBar, Phase
  <1>4. ASSUME NEW c \in Calls, CallLeave(c) PROVE RC!Finish(c)
    <2>1. /\ PhaseBar[c] = "open"
          /\ PhaseBar' = [PhaseBar EXCEPT ![c] = "finished"]
          /\ OutcomeBar' = [OutcomeBar EXCEPT ![c] = result[c]]
          /\ UNCHANGED AnswerBar
      BY <1>4, Zenon DEF CallLeave, TypeOK, PhaseBar, AnswerBar, OutcomeBar, Phase
    <2>2. result[c] \in RC!Returnable(c)
      BY <1>4, Zenon DEF CallLeave, RefInv, ReplyInv, Allowed, RC!Returnable
    <2> QED BY <2>1, <2>2, Zenon DEF RC!Finish, PhaseBar, AnswerBar, OutcomeBar, Phase
  <1>5. ASSUME NEW r \in toNode, NodeAnswersCall(r) PROVE RC!Answer(r.from)
    <2>1. r.from \in Calls /\ answered[r.from] = "none" /\ pc[r.from] # "idle"
      BY <1>5, Zenon DEF NodeAnswersCall, RefInv, RequestInv, Unwritten
    <2>2. PICK v \in Answers : answered' = [answered EXCEPT ![r.from] = v]
      BY <1>5, Zenon DEF NodeAnswersCall
    <2>3. /\ PhaseBar[r.from] # "idle" /\ AnswerBar[r.from] = "none"
          /\ AnswerBar' = [AnswerBar EXCEPT ![r.from] = v]
          /\ UNCHANGED <<PhaseBar, OutcomeBar>>
      BY <1>5, <2>1, <2>2, Zenon DEF NodeAnswersCall, TypeOK, PhaseBar, AnswerBar, OutcomeBar, Phase
    <2>4. v \in DOMAIN RC!Promise
      BY DEF RC!Promise, Answers
    <2> QED BY <2>3, <2>4 DEF RC!Answer, PhaseBar, AnswerBar, OutcomeBar, Phase
  <1>6. ASSUME NEW c \in Calls, SendStep(c) \/ CallReceive(c) \/ CallTimeout(c)
        PROVE  UNCHANGED RC!vars
    <2>1. /\ answered' = answered /\ pc[c] \in {"send", "write", "blocked", "wait"}
          /\ \E v \in {"write", "blocked", "wait", "leave"} : pc' = [pc EXCEPT ![c] = v]
          /\ result' = result \/ \E w : result' = [result EXCEPT ![c] = w]
      BY <1>6, Zenon DEF SendStep, SendCheck, SendWrite, WriteBlocks, WriteFails, SendFailed,
         Sent, CallReceive, CallTimeout, TimerRuns
    <2>2. /\ c \in InFlight /\ c \in InFlight'
          /\ \A d \in Calls : d # c => pc'[d] = pc[d] /\ result'[d] = result[d]
      BY <2>1 DEF TypeOK, InFlight
    <2>3. \A d \in Calls : Still(d)
      BY <2>2 DEF Still
    <2> QED BY <1>2, <2>1, <2>3
  <1>a. ASSUME NEW c \in Calls, CallRefused(c) PROVE RC!Refuse(c)
    <2>1. /\ PhaseBar[c] = "idle"
          /\ PhaseBar' = [PhaseBar EXCEPT ![c] = "finished"]
          /\ OutcomeBar' = [OutcomeBar EXCEPT ![c] = "argErr"]
          /\ UNCHANGED AnswerBar
      BY <1>a, Zenon DEF CallRefused, TypeOK, PhaseBar, AnswerBar, OutcomeBar, Phase
    <2> QED BY <2>1, Zenon DEF RC!Refuse, PhaseBar, AnswerBar, OutcomeBar, Phase
  <1>7. ASSUME NEW c \in Calls, CallStep(c) PROVE RC!Next \/ UNCHANGED RC!vars
    BY <1>3, <1>4, <1>6, <1>7, <1>a DEF CallStep, RC!Next
  <1>8. ASSUME NEW s \in Subs, SubStep(s) \/ ReaderAnswer(s) PROVE UNCHANGED RC!vars
    <2>1. /\ answered' = answered
          /\ \E v : pc' = [pc EXCEPT ![s] = v]
          /\ result' = result \/ \E w : result' = [result EXCEPT ![s] = w]
      BY <1>8, Zenon DEF SubStep, SendStep, SendCheck, SendWrite, WriteBlocks, WriteFails,
         SendFailed, SubStart, SubRegister, SubUnregister, SubWatch, ReaderAnswer, Sent
    <2>2. \A c \in Calls : pc'[c] = pc[c] /\ result'[c] = result[c]
      BY <2>1 DEF TypeOK
    <2>3. \A d \in Calls : Still(d)
      BY <2>2 DEF Still
    <2> QED BY <1>2, <2>1, <2>3
  <1>9. CASE UNCHANGED <<pc, result, answered>>
    <2>1. \A c \in Calls : Still(c)
      BY <1>9 DEF Still
    <2> QED BY <1>2, <1>9, <2>1
  <1>10. CASE ReaderStep
    BY <1>8, <1>9, <1>10 DEF ReaderStep, ReadWithChannel, ReaderError, ReaderGathers,
       GatherFails, Reconnecte, ReconnectTick, DialFails, ReaderRpc, ReaderRegister,
       ReaderLog, ReaderReply, UserTakesLog
  <1>11. ASSUME NEW r \in toNode, NodeAnswersSub(r) PROVE UNCHANGED RC!vars
    <2>1. r.from \in Subs /\ UNCHANGED <<pc, result>>
          /\ \E v : answered' = [answered EXCEPT ![r.from] = v]
      BY <1>11, Zenon DEF NodeAnswersSub
    <2>2. \A c \in Calls : answered'[c] = answered[c]
      BY <2>1 DEF TypeOK
    <2> QED BY <1>1, <2>1, <2>2, Zenon DEF PhaseBar, AnswerBar, OutcomeBar
  <1>12. CASE Node
    <2>1. \A r \in toNode : NodeAnswersCall(r) => r.from \in Calls
      BY Zenon DEF NodeAnswersCall
    <2> QED BY <1>5, <1>9, <1>11, <1>12, <2>1, Zenon DEF Node, NodeEmits, RC!Next
  <1>13. CASE Close \/ (\E g \in Conns : LinkDrop(g)) \/ UNCHANGED vars
    BY <1>9, <1>13, Zenon DEF Close, CloseSwap, CloseConn, CloseExit, LinkDrop, vars
  <1> QED BY <1>7, <1>8, <1>10, <1>12, <1>13 DEF Next

(* The calls of the channel client implement RpcCall: whatever is lost,     *)
(* delayed, dropped or reconnected, each call returns once, with what is    *)
(* promised for the answer to its own request or a failure of its own.      *)
THEOREM CallsRefineRpcCall == Spec => CallsAreRpcCalls
  <1>1. Init => RC!Init
    BY DEF Init, RC!Init, Agents
  <1>2. TInv /\ TableInv /\ RefInv /\ [Next]_vars => [RC!Next]_(RC!vars)
    BY StepRefines
  <1> QED BY <1>1, <1>2, TInvAlways, TableInvAlways, RefInvAlways, PTL
          DEF Spec, CallsAreRpcCalls, RC!Spec
==============================================================================
