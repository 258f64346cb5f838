------------------------- MODULE ChannelClientProofs -------------------------
(* Machine-checked proofs about ChannelClient, for any calls, subscriptions, *)
(* filters and number of connections.                                        *)
EXTENDS ChannelClient, TLAPS

(* What readResponse holds while it is about to pass a message on. *)
ReaderInv ==
  /\ reader = "toCaller" => cur \in RpcMsg /\ cur.val # "garbled" /\ dest \subseteq Calls
  /\ reader = "toPending" => cur \in RegisterMsg /\ dest = {cur.seq}
  /\ reader = "toWatcher" => cur \in LogMsg /\ dest \subseteq Subs

TInv == TypeOK /\ ReaderInv

LEMMA LoadType ==
  ASSUME NEW K, NEW V, NEW m \in SUBSET [key : K, val : V], NEW k
  PROVE  Load(m, k) \subseteq V
  BY DEF Load

LEMMA StoreType ==
  ASSUME NEW K, NEW V, NEW m \in SUBSET [key : K, val : V], NEW k \in K, NEW v \in V
  PROVE  Store(m, k, v) \subseteq [key : K, val : V]
  BY DEF Store

USE DEF callVars, subVars, closeVars, nodeVars, readerVars

LEMMA HeadTail ==
  ASSUME NEW S, NEW q \in Seq(S), q # <<>>
  PROVE  Head(q) \in S /\ Tail(q) \in Seq(S) /\ Len(Tail(q)) = Len(q) - 1
  OBVIOUS

(* TypeOK by groups of variables: an action is shown to keep the groups it  *)
(* writes; Framed carries the others over, and Joined puts TInv together.   *)
InvokeT == /\ pc \in [Agents -> CallPcs \cup SubPcs]
           /\ \A c \in Calls : pc[c] \in CallPcs
           /\ \A s \in Subs : pc[s] \in SubPcs

ResultT == result \in [Agents -> Results]

IdT == id \in [Calls -> Nat] /\ idCounter \in Nat

TableT == rpcResponse \subseteq [key : Nat, val : Calls]

ReplyT == ch \in [Calls -> Seq(Answers \ {"garbled"})]

PendingT == pending \subseteq Subs

WatcherT == watcher \subseteq [key : Filters, val : Subs]

ReceivedT == received \in [Subs -> Seq(Log)]

CloseT == isClosed \in {0, 1} /\ closer \in {"idle", "conn", "exit", "done"}

LinkT == conn \in Conns /\ link \in [Conns -> {"undialled", "up", "down", "closed"}]

RequestT == toNode \subseteq [via : Conns, from : Agents]

UnsentT == unsent \subseteq [via : Conns, from : Agents]

InboxT == inbox \in [Conns -> Seq(Msg)]

FilterT == nodeFilters \in [Conns -> SUBSET Filters]

EmittedT == emitted \in [Conns -> [Filters -> Nat]]

SpoiltT == spoilt \in [Conns -> [Filters -> SUBSET Nat]]

AnsweredT == answered \in [Agents -> Answers \cup {"none", "accepted", "refused"}]

ReadT == reading \in Nat /\ readCh \in Seq(Msg \cup {ReadError})

LoopT == /\ reader \in {"select", "gather", "reconnect", "dial", "toCaller", "toPending",
                         "toWatcher", "exited"}
         /\ cur \in Msg \cup {Nothing}
         /\ dest \subseteq Agents
         /\ ReaderInv

LEMMA Joined ==
  ASSUME InvokeT', ResultT', IdT', TableT', ReplyT', PendingT', WatcherT', ReceivedT',
         CloseT', LinkT', RequestT', UnsentT', InboxT', FilterT', EmittedT', SpoiltT',
         AnsweredT', ReadT', LoopT'
  PROVE  TInv'
  BY Zenon DEF TInv, TypeOK, InvokeT, ResultT, IdT, TableT, ReplyT, PendingT, WatcherT,
         ReceivedT, CloseT, LinkT, RequestT, UnsentT, InboxT, FilterT, EmittedT, SpoiltT,
         AnsweredT, ReadT, LoopT

LEMMA Framed ==
  ASSUME TInv
  PROVE  /\ pc' = pc => InvokeT'
         /\ result' = result => ResultT'
         /\ id' = id /\ idCounter' = idCounter => IdT'
         /\ rpcResponse' = rpcResponse => TableT'
         /\ ch' = ch => ReplyT'
         /\ pending' = pending => PendingT'
         /\ watcher' = watcher => WatcherT'
         /\ received' = received => ReceivedT'
         /\ isClosed' = isClosed /\ closer' = closer => CloseT'
         /\ conn' = conn /\ link' = link => LinkT'
         /\ toNode' = toNode => RequestT'
         /\ unsent' = unsent => UnsentT'
         /\ inbox' = inbox => InboxT'
         /\ nodeFilters' = nodeFilters => FilterT'
         /\ emitted' = emitted => EmittedT'
         /\ spoilt' = spoilt => SpoiltT'
         /\ answered' = answered => AnsweredT'
         /\ reading' = reading /\ readCh' = readCh => ReadT'
         /\ reader' = reader /\ cur' = cur /\ dest' = dest => LoopT'
  <1> USE DEF TInv, TypeOK
  <1>1. pc' = pc => InvokeT'
    BY DEF InvokeT
  <1>2. result' = result => ResultT'
    BY DEF ResultT
  <1>3. id' = id /\ idCounter' = idCounter => IdT'
    BY DEF IdT
  <1>4. rpcResponse' = rpcResponse => TableT'
    BY DEF TableT
  <1>5. ch' = ch => ReplyT'
    BY DEF ReplyT
  <1>6. pending' = pending => PendingT'
    BY DEF PendingT
  <1>7. watcher' = watcher => WatcherT'
    BY DEF WatcherT
  <1>8. received' = received => ReceivedT'
    BY DEF ReceivedT
  <1>9. isClosed' = isClosed /\ closer' = closer => CloseT'
    BY DEF CloseT
  <1>10. conn' = conn /\ link' = link => LinkT'
    BY DEF LinkT
  <1>11. toNode' = toNode => RequestT'
    BY DEF RequestT
  <1>12. inbox' = inbox => InboxT'
    BY DEF InboxT
  <1>13. nodeFilters' = nodeFilters => FilterT'
    BY DEF FilterT
  <1>14. emitted' = emitted => EmittedT'
    BY DEF EmittedT
  <1>15. answered' = answered => AnsweredT'
    BY DEF AnsweredT
  <1>16. reading' = reading /\ readCh' = readCh => ReadT'
    BY DEF ReadT
  <1>17. reader' = reader /\ cur' = cur /\ dest' = dest => LoopT'
    BY DEF LoopT, ReaderInv
  <1>18. unsent' = unsent => UnsentT'
    BY DEF UnsentT
  <1>19. spoilt' = spoilt => SpoiltT'
    BY DEF SpoiltT
  <1> QED BY <1>1, <1>2, <1>3, <1>4, <1>5, <1>6, <1>7, <1>8, <1>9, <1>10, <1>11,
             <1>12, <1>13, <1>14, <1>15, <1>16, <1>17, <1>18, <1>19

LEMMA InitTInv == Init => TInv
  <1> SUFFICES ASSUME Init PROVE TInv
    OBVIOUS
  <1> USE ChannelAssumption
  <1>1. TypeOK
    BY DEF Init, TypeOK, Agents, Conns, CallPcs, SubPcs, Results, Nothing
  <1>2. ReaderInv
    BY DEF Init, ReaderInv
  <1> QED BY <1>1, <1>2 DEF TInv

LEMMA SendTInv == ASSUME TInv, NEW a \in Agents, SendStep(a)
                  PROVE  TInv'
  <1> USE ChannelAssumption DEF TInv, Agents
  <1>1. InvokeT' /\ ResultT'
    <2>1. PICK v \in CallPcs \cup SubPcs :
            /\ pc' = [pc EXCEPT ![a] = v]
            /\ a \in Calls => v \in CallPcs
            /\ a \in Subs => v \in SubPcs
      BY DEF SendStep, SendCheck, SendWrite, WriteBlocks, WriteFails, SendFailed, Sent,
             CallPcs, SubPcs
    <2>2. result' = result \/ result' = [result EXCEPT ![a] = "sendErr"]
      BY DEF SendStep, SendCheck, SendWrite, WriteBlocks, WriteFails, SendFailed, Sent
    <2>3. ResultT'
      BY <2>2, Zenon DEF TypeOK, Results, ResultT
    <2>4. InvokeT'
      BY <2>1 DEF TypeOK, InvokeT
    <2> QED BY <2>3, <2>4
  <1>2. RequestT'
    BY DEF TypeOK, RequestT, SendStep, SendCheck, SendWrite, WriteBlocks, WriteFails
  <1>3. UnsentT'
    BY DEF TypeOK, UnsentT, SendStep, SendCheck, SendWrite, WriteBlocks, WriteFails
  <1>4. UNCHANGED <<callVars, subVars, closeVars, conn, link, inbox, nodeVars, readerVars>>
    BY DEF SendStep, SendCheck, SendWrite, WriteBlocks, WriteFails
  <1> QED BY <1>1, <1>2, <1>3, <1>4, Framed, Joined

LEMMA CallTInv ==
  ASSUME TInv, NEW c \in Calls,
         \/ CallStart(c) \/ CallRefused(c) \/ CallReceive(c)
         \/ CallTimeout(c) \/ CallLeave(c)
  PROVE  TInv'
  <1> USE ChannelAssumption DEF TInv, Agents
  <1>0. InvokeT'
    <2>1. \E v \in CallPcs : pc' = [pc EXCEPT ![c] = v]
      BY DEF CallStart, CallRefused, CallReceive, CallTimeout, CallLeave, CallPcs
    <2> QED BY <2>1 DEF TypeOK, InvokeT
  <1> DEFINE Rest == UNCHANGED <<subVars, closeVars, conn, link, toNode, unsent, inbox,
                                nodeVars, readerVars>>
  <1>1. CASE CallStart(c)
    <2>1. TableT'
      <3>1. NextID \in Nat
        BY DEF NextID, TypeOK
      <3>2. Store(rpcResponse, NextID, c) \subseteq [key : Nat, val : Calls]
        BY <3>1, StoreType, Zenon DEF TypeOK
      <3> QED BY <1>1, <3>2 DEF CallStart, TableT
    <2>2. IdT'
      BY <1>1 DEF CallStart, NextID, TypeOK, IdT
    <2>3. UNCHANGED <<result, ch>> /\ Rest
      BY <1>1 DEF CallStart
    <2> QED BY <1>0, <2>1, <2>2, <2>3, Framed, Joined
  <1>2. CASE CallReceive(c)
    <2>1. ReplyT'
      BY <1>2 DEF CallReceive, TypeOK, ReplyT
    <2>2. ResultT'
      BY <1>2 DEF CallReceive, TypeOK, ReturnOf, Results, ResultT
    <2>3. UNCHANGED <<id, idCounter, rpcResponse>> /\ Rest
      BY <1>2 DEF CallReceive
    <2> QED BY <1>0, <2>1, <2>2, <2>3, Framed, Joined
  <1>3. CASE CallTimeout(c)
    <2>1. ResultT'
      BY <1>3 DEF CallTimeout, TypeOK, Results, ResultT
    <2>2. UNCHANGED callVars /\ Rest
      BY <1>3 DEF CallTimeout
    <2> QED BY <1>0, <2>1, <2>2, Framed, Joined
  <1>4. CASE CallLeave(c)
    <2>1. TableT'
      BY <1>4 DEF CallLeave, WithoutCall, Delete, TypeOK, TableT
    <2>2. UNCHANGED <<result, id, idCounter, ch>> /\ Rest
      BY <1>4 DEF CallLeave
    <2> QED BY <1>0, <2>1, <2>2, Framed, Joined
  <1>5. CASE CallRefused(c)
    <2>1. ResultT'
      BY <1>5 DEF CallRefused, TypeOK, Results, ResultT
    <2>2. IdT'
      BY <1>5 DEF CallRefused, NextID, TypeOK, IdT
    <2>3. UNCHANGED <<rpcResponse, ch>> /\ Rest
      BY <1>5 DEF CallRefused
    <2> QED BY <1>0, <2>1, <2>2, <2>3, Framed, Joined
  <1> QED BY <1>1, <1>2, <1>3, <1>4, <1>5

LEMMA SubTInv ==
  ASSUME TInv, NEW s \in Subs,
         SubStart(s) \/ SubRegister(s) \/ SubUnregister(s) \/ SubWatch(s)
  PROVE  TInv'
  <1> USE ChannelAssumption DEF TInv, Agents
  <1>1. InvokeT'
    <2>1. \E v \in SubPcs : pc' = [pc EXCEPT ![s] = v]
      BY DEF SubStart, SubRegister, SubUnregister, AfterAnswer, SubWatch, SubPcs
    <2> QED BY <2>1 DEF TypeOK, InvokeT
  <1>2. WatcherT'
    <2>1. Store(watcher, FilterOf[s], s) \subseteq [key : Filters, val : Subs]
      BY StoreType DEF TypeOK
    <2> QED BY <2>1 DEF TypeOK, WatcherT, SubStart, SubRegister, SubUnregister, SubWatch
  <1>3. ResultT'
    <2>1. result' = result \/ \E w \in {"ok", "argErr"} : result' = [result EXCEPT ![s] = w]
      BY DEF SubStart, SubRegister, SubUnregister, SubWatch
    <2> QED BY <2>1, Zenon DEF TypeOK, Results, ResultT
  <1>4. PendingT'
    BY DEF TypeOK, PendingT, SubStart, SubRegister, SubUnregister, SubWatch
  <1>5. UNCHANGED <<callVars, received, closeVars, conn, link, toNode, unsent, inbox, nodeVars,
                    readerVars>>
    BY DEF SubStart, SubRegister, SubUnregister, SubWatch
  <1> QED BY <1>1, <1>2, <1>3, <1>4, <1>5, Framed, Joined

LEMMA ReadTInv == ASSUME TInv, ReadWithChannel PROVE TInv'
  <1> USE DEF TInv
  <1>1. ReadT'
    <2>1. \E m \in Msg \cup {ReadError} : readCh' = Append(readCh, m)
      BY HeadTail DEF TypeOK, ReadWithChannel
    <2> QED BY <2>1 DEF TypeOK, ReadT, ReadWithChannel
  <1>2. InboxT'
    <2>1. CASE inbox' = inbox
      BY <2>1, Framed
    <2>2. CASE inbox[conn] # <<>> /\ inbox' = [inbox EXCEPT ![conn] = Tail(@)]
      <3>1. Tail(inbox[conn]) \in Seq(Msg)
        BY <2>2, HeadTail DEF TypeOK
      <3> QED BY <2>2, <3>1 DEF TypeOK, InboxT
    <2> QED BY <2>1, <2>2 DEF ReadWithChannel
  <1>3. UNCHANGED <<pc, result, callVars, subVars, closeVars, conn, link, toNode, unsent,
                    nodeVars, reader, cur, dest>>
    BY DEF ReadWithChannel
  <1> QED BY <1>1, <1>2, <1>3, Framed, Joined

(* The messages are told apart by their kind. *)
LEMMA MsgKinds ==
  ASSUME NEW m \in Msg \cup {ReadError}
  PROVE  /\ m.kind = "rpc" => m \in RpcMsg
         /\ m.kind = "register" => m \in RegisterMsg
         /\ m.kind = "log" => m \in LogMsg
  BY DEF Msg, RpcMsg, RegisterMsg, LogMsg, ReadError

LEMMA LoopTInv == ASSUME TypeOK, Loop, readCh' \in Seq(Msg \cup {ReadError})
                  PROVE  ReadT' /\ LoopT'
  BY DEF TypeOK, Loop, ReaderInv, ReadT, LoopT

LEMMA ReceiveTInv ==
  ASSUME TInv, ReaderError \/ ReaderRpc \/ ReaderRegister \/ ReaderLog
  PROVE  TInv'
  <1> USE ChannelAssumption DEF TInv, Agents
  <1> DEFINE m == Head(readCh)
  <1>1. m \in Msg \cup {ReadError} /\ readCh' \in Seq(Msg \cup {ReadError})
    <2>1. readCh # <<>> /\ readCh' = Tail(readCh)
      BY DEF Receive, ReaderError, ReaderRpc, ReaderRegister, ReaderLog
    <2> QED BY <2>1, HeadTail DEF TypeOK
  <1> HIDE DEF m
  <1>a. UNCHANGED <<pc, result, callVars, subVars, closeVars, conn, link, toNode, unsent,
                    inbox, nodeVars>>
    BY DEF ReaderError, ReaderRpc, ReaderRegister, ReaderLog
  <1> SUFFICES ReadT' /\ LoopT'
    BY <1>a, Framed, Joined
  <1>b. ASSUME NEW to, NEW d, HandOver(to, d), d \subseteq Agents, m \in Msg,
               \/ /\ to = "toCaller" /\ m \in RpcMsg /\ m.val # "garbled" /\ d \subseteq Calls
               \/ /\ to = "toPending" /\ m \in RegisterMsg /\ d = {m.seq}
               \/ /\ to = "toWatcher" /\ m \in LogMsg /\ d \subseteq Subs
        PROVE  ReadT' /\ LoopT'
    BY <1>1, <1>b DEF HandOver, m, TypeOK, ReadT, LoopT, ReaderInv
  <1>2. CASE ReaderError
    BY <1>1, <1>2 DEF TypeOK, ReaderInv, ReaderError, Redial, ReadT, LoopT
  <1>3. CASE ReaderRpc
    <2>1. m \in RpcMsg
      BY <1>1, <1>3, MsgKinds, Zenon DEF ReaderRpc, Receive, m
    <2>2. Load(rpcResponse, m.id) \subseteq Calls
      BY LoadType, Zenon DEF TypeOK
    <2>3. CASE Loop
      BY <1>1, <2>3, LoopTInv
    <2>4. CASE HandOver("toCaller", Load(rpcResponse, m.id)) /\ Decodes(m)
      BY <1>b, <2>1, <2>2, <2>4 DEF Decodes, Msg
    <2> QED BY <1>3, <2>3, <2>4, Zenon DEF ReaderRpc, m
  <1>4. CASE ReaderRegister
    <2>1. m \in RegisterMsg
      BY <1>1, <1>4, MsgKinds DEF ReaderRegister, Receive, m
    <2>2. m.seq \in Subs
      BY <2>1 DEF RegisterMsg
    <2>3. CASE Loop
      BY <1>1, <2>3, LoopTInv
    <2>4. CASE HandOver("toPending", {m.seq})
      BY <1>b, <2>1, <2>2, <2>4 DEF Msg
    <2> QED BY <1>4, <2>3, <2>4 DEF ReaderRegister, m
  <1>5. CASE ReaderLog
    <2>1. m \in LogMsg
      BY <1>1, <1>5, MsgKinds DEF ReaderLog, Receive, m
    <2>2. Load(watcher, m.filter) \subseteq Subs
      BY LoadType, Zenon DEF TypeOK
    <2>3. CASE Loop
      BY <1>1, <2>3, LoopTInv
    <2>4. CASE HandOver("toWatcher", Load(watcher, m.filter))
      BY <1>b, <2>1, <2>2, <2>4 DEF Msg
    <2> QED BY <1>5, <2>3, <2>4, Zenon DEF ReaderLog, m
  <1> QED BY <1>2, <1>3, <1>4, <1>5

LEMMA GatherTInv == ASSUME TInv, ReaderGathers \/ GatherFails PROVE TInv'
  <1> USE DEF TInv
  <1>1. CASE ReaderGathers
    <2>1. ReadT'
      BY <1>1, HeadTail DEF TypeOK, ReaderGathers, ReadT
    <2>2. LoopT'
      BY <1>1 DEF TypeOK, ReaderGathers, LoopT, ReaderInv
    <2>3. UNCHANGED <<pc, result, callVars, subVars, closeVars, conn, link, toNode, unsent,
                      inbox, nodeVars>>
      BY <1>1 DEF ReaderGathers
    <2> QED BY <2>1, <2>2, <2>3, Framed, Joined
  <1>2. CASE GatherFails
    <2>1. InboxT'
      BY <1>2 DEF TypeOK, GatherFails, InboxT
    <2>2. Loop /\ UNCHANGED <<pc, result, callVars, subVars, closeVars, conn, link, toNode,
                              unsent, nodeVars, readCh>>
      BY <1>2 DEF GatherFails
    <2>3. ReadT' /\ LoopT'
      BY <2>2, LoopTInv DEF TypeOK
    <2> QED BY <2>1, <2>2, <2>3, Framed, Joined
  <1> QED BY <1>1, <1>2

LEMMA DialTInv == ASSUME TInv, ReconnectTick \/ DialFails PROVE TInv'
  <1> USE DEF TInv
  <1>1. LoopT'
    BY DEF TypeOK, ReconnectTick, DialFails, LoopT, ReaderInv
  <1>2. UNCHANGED <<pc, result, callVars, subVars, closeVars, conn, link, toNode, unsent,
                    inbox, nodeVars, reading, readCh>>
    BY DEF ReconnectTick, DialFails
  <1> QED BY <1>1, <1>2, Framed, Joined

LEMMA ReconnecteTInv == ASSUME TInv, Reconnecte PROVE TInv'
  <1> USE ChannelAssumption DEF TInv, Conns
  <1>1. LinkT'
    BY DEF TypeOK, LinkT, Reconnecte
  <1>2. Loop /\ UNCHANGED <<pc, result, callVars, subVars, closeVars, toNode, unsent, inbox,
                            nodeVars, readCh>>
    BY DEF Reconnecte
  <1>3. ReadT' /\ LoopT'
    BY <1>2, LoopTInv DEF TypeOK
  <1> QED BY <1>1, <1>2, <1>3, Framed, Joined

LEMMA PassOnTInv ==
  ASSUME TInv, \/ \E c \in Calls : ReaderReply(c)
               \/ \E s \in Subs : ReaderAnswer(s) \/ UserTakesLog(s)
  PROVE  TInv'
  <1> USE ChannelAssumption DEF TInv, Agents
  <1>1. ASSUME NEW c \in Calls, ReaderReply(c) PROVE TInv'
    <2>1. Decoded(c, cur.val) \in Answers \ {"garbled"}
      BY <1>1 DEF ReaderReply, ReaderInv, RpcMsg, Decoded, Answers
    <2>2. ReplyT'
      <3>1. PICK q \in Seq(Answers \ {"garbled"}) : ch' = [ch EXCEPT ![c] = q]
        <4>1. /\ ch[c] \in Seq(Answers \ {"garbled"})
              /\ <<Decoded(c, cur.val)>> \in Seq(Answers \ {"garbled"})
          BY <2>1 DEF TypeOK
        <4> QED BY <1>1, <4>1, Zenon DEF ReaderReply
      <3> QED BY <3>1 DEF TypeOK, ReplyT
    <2>3. Loop /\ UNCHANGED <<pc, result, id, idCounter, rpcResponse, subVars, closeVars,
                              conn, link, toNode, unsent, inbox, nodeVars, readCh>>
      BY <1>1 DEF ReaderReply
    <2>4. ReadT' /\ LoopT'
      BY <2>3, LoopTInv, Zenon DEF TypeOK
    <2> QED BY <2>2, <2>3, <2>4, Framed, Joined
  <1>2. ASSUME NEW s \in Subs, ReaderAnswer(s) PROVE TInv'
    <2>1. InvokeT'
      BY <1>2 DEF ReaderAnswer, TypeOK, SubPcs, InvokeT
    <2>2. ResultT'
      BY <1>2 DEF ReaderAnswer, TypeOK, Results, ResultT
    <2>3. Loop /\ UNCHANGED <<callVars, subVars, closeVars, conn, link, toNode, unsent, inbox,
                              nodeVars, readCh>>
      BY <1>2 DEF ReaderAnswer
    <2>4. ReadT' /\ LoopT'
      BY <2>3, LoopTInv, Zenon DEF TypeOK
    <2> QED BY <2>1, <2>2, <2>3, <2>4, Framed, Joined
  <1>3. ASSUME NEW s \in Subs, UserTakesLog(s) PROVE TInv'
    <2>1. cur \in LogMsg /\ cur.logs \in Seq(Log) /\ cur.logs # <<>>
      BY <1>3 DEF UserTakesLog, ReaderInv, LogMsg
    <2>2. Head(cur.logs) \in Log /\ Tail(cur.logs) \in Seq(Log)
      BY <2>1, HeadTail
    <2>3. ReceivedT'
      BY <1>3, <2>2 DEF UserTakesLog, Takes, TypeOK, ReceivedT
    <2>4. UNCHANGED <<pc, result, callVars, pending, watcher, closeVars, conn, link,
                      toNode, unsent, inbox, nodeVars, readCh>>
      BY <1>3 DEF UserTakesLog
    <2>5. ReadT' /\ LoopT'
      <3>1. CASE Loop
        BY <2>4, <3>1, LoopTInv, Zenon DEF TypeOK
      <3>2. CASE ~ Loop
        <4>1. /\ Tail(cur.logs) # <<>> /\ cur' = [cur EXCEPT !.logs = Tail(cur.logs)]
              /\ reader = "toWatcher" /\ UNCHANGED <<reading, reader, dest>>
          BY <1>3, <3>2 DEF UserTakesLog
        <4>2. cur' \in LogMsg
          BY <2>1, <2>2, <4>1, Zenon DEF LogMsg
        <4> QED BY <2>4, <4>1, <4>2 DEF TypeOK, ReaderInv, ReadT, LoopT, Msg
      <3> QED BY <3>1, <3>2
    <2> QED BY <2>3, <2>4, <2>5, Framed, Joined
  <1> QED BY <1>1, <1>2, <1>3

LEMMA CloseTInv == ASSUME TInv, Close PROVE TInv'
  <1>1. CloseT'
    BY DEF TInv, TypeOK, Close, CloseSwap, CloseConn, CloseExit, CloseT
  <1>2. LinkT'
    BY DEF TInv, TypeOK, Close, CloseSwap, CloseConn, CloseExit, LinkT
  <1>3. LoopT'
    BY Zenon DEF TInv, TypeOK, Close, CloseSwap, CloseConn, CloseExit, LoopT, ReaderInv
  <1>4. UNCHANGED <<pc, result, callVars, subVars, toNode, unsent, inbox, nodeVars, reading, readCh>>
    BY DEF Close, CloseSwap, CloseConn, CloseExit
  <1> QED BY <1>1, <1>2, <1>3, <1>4, Framed, Joined

(* A count for a connection and a filter goes up. *)
LEMMA CountType ==
  ASSUME NEW S, NEW T, NEW e \in [S -> [T -> Nat]], NEW g \in S, NEW f \in T, NEW k \in Nat
  PROVE  [e EXCEPT ![g][f] = @ + k] \in [S -> [T -> Nat]]
  OBVIOUS

LEMMA NewCounts == \A n \in Nat, k \in 1..2 : (n + 1)..(n + k) \subseteq Nat
  OBVIOUS

(* The logs of one event-log message. *)
LEMMA LogsType ==
  ASSUME NEW g \in Conns, NEW n \in Nat, NEW k \in 1..2
  PROVE  /\ [i \in 1..k |-> [via |-> g, n |-> n + i]] \in Seq(Log)
         /\ [i \in 1..k |-> [via |-> g, n |-> n + i]] # <<>>
  <1> DEFINE q == [i \in 1..k |-> [via |-> g, n |-> n + i]]
  <1>1. \A i \in 1..k : [via |-> g, n |-> n + i] \in Log
    BY DEF Log
  <1>2. q \in [1..k -> Log]
    BY <1>1
  <1> HIDE DEF q
  <1>3. q \in Seq(Log) /\ Len(q) = k
    BY <1>2
  <1>4. q # <<>>
    BY <1>3
  <1> QED BY <1>3, <1>4 DEF q

LEMMA DeliverTInv ==
  ASSUME TInv, NEW g \in Conns, NEW m \in Msg, Deliver(g, m)
  PROVE  InboxT'
  BY DEF TInv, TypeOK, Deliver, InboxT

LEMMA NodeTInv == ASSUME TInv, Node \/ \E g \in Conns : LinkDrop(g) PROVE TInv'
  <1> USE ChannelAssumption DEF TInv, Agents
  <1>1. ASSUME NEW r \in toNode, NodeAnswersCall(r) PROVE TInv'
    <2>1. r.via \in Conns /\ r.from \in Calls
      BY <1>1 DEF TypeOK, NodeAnswersCall
    <2>2. PICK v \in Answers :
            /\ answered' = [answered EXCEPT ![r.from] = v]
            /\ Deliver(r.via, [kind |-> "rpc", id |-> id[r.from], val |-> v])
      BY <1>1, Zenon DEF NodeAnswersCall
    <2>3. [kind |-> "rpc", id |-> id[r.from], val |-> v] \in Msg
      BY <2>1 DEF TypeOK, Msg, RpcMsg
    <2>4. InboxT'
      BY <2>1, <2>2, <2>3, DeliverTInv, Zenon
    <2>5. AnsweredT'
      BY <2>1, <2>2 DEF TypeOK, AnsweredT
    <2>6. RequestT'
      BY <1>1 DEF TypeOK, RequestT, NodeAnswersCall
    <2>7. UNCHANGED <<pc, result, callVars, subVars, closeVars, conn, link,
                      unsent, nodeFilters, emitted, spoilt, readerVars>>
      BY <1>1 DEF NodeAnswersCall
    <2> QED BY <2>4, <2>5, <2>6, <2>7, Framed, Joined
  <1>2. ASSUME NEW r \in toNode, NodeAnswersSub(r) PROVE TInv'
    <2>1. r.via \in Conns /\ r.from \in Subs
      BY <1>2 DEF TypeOK, NodeAnswersSub
    <2>2. PICK ok \in BOOLEAN :
            /\ answered' = [answered EXCEPT ![r.from] = IF ok THEN "accepted" ELSE "refused"]
            /\ Deliver(r.via, [kind |-> "register", seq |-> r.from, ok |-> ok])
            /\ nodeFilters' = IF ok THEN [nodeFilters EXCEPT ![r.via] = @ \cup {FilterOf[r.from]}]
                              ELSE nodeFilters
      BY <1>2, Zenon DEF NodeAnswersSub
    <2>3. [kind |-> "register", seq |-> r.from, ok |-> ok] \in Msg
      BY <2>1 DEF Msg, RegisterMsg
    <2>4. InboxT'
      BY <2>1, <2>2, <2>3, DeliverTInv
    <2>5. FilterT'
      BY <2>1, <2>2 DEF TypeOK, FilterT
    <2>6. AnsweredT'
      BY <2>1, <2>2 DEF TypeOK, AnsweredT
    <2>7. RequestT'
      BY <1>2 DEF TypeOK, RequestT, NodeAnswersSub
    <2>8. UNCHANGED <<pc, result, callVars, subVars, closeVars, conn, link, unsent,
                      emitted, spoilt, readerVars>>
      BY <1>2 DEF NodeAnswersSub
    <2> QED BY <2>4, <2>5, <2>6, <2>7, <2>8, Framed, Joined
  <1>3. ASSUME NEW g \in Conns, NEW f \in Filters, NodeEmits(g, f) PROVE TInv'
    <2> DEFINE logs(k) == [i \in 1..k |-> [via |-> g, n |-> emitted[g][f] + i]]
    <2>1. PICK k \in 1..2, valid \in BOOLEAN :
            /\ emitted' = [emitted EXCEPT ![g][f] = @ + k]
            /\ spoilt' = [spoilt EXCEPT ![g][f] = IF valid THEN @
                             ELSE @ \cup ((emitted[g][f] + 1)..(emitted[g][f] + k))]
            /\ Deliver(g, [kind |-> "log", filter |-> f, valid |-> valid, logs |-> logs(k)])
      BY <1>3, Zenon DEF NodeEmits
    <2>2. emitted[g][f] \in Nat
      BY DEF TypeOK
    <2>3. logs(k) \in Seq(Log) /\ logs(k) # <<>>
      BY <2>2, LogsType, Zenon
    <2>4. [kind |-> "log", filter |-> f, valid |-> valid, logs |-> logs(k)] \in Msg
      BY <2>3, Zenon DEF Msg, LogMsg
    <2> HIDE DEF logs
    <2>5. InboxT'
      BY <2>1, <2>4, DeliverTInv
    <2>6. EmittedT'
      <3>1. emitted \in [Conns -> [Filters -> Nat]] /\ k \in Nat
        BY DEF TypeOK
      <3>2. [emitted EXCEPT ![g][f] = @ + k] \in [Conns -> [Filters -> Nat]]
        BY <3>1, CountType, Zenon
      <3> QED BY <2>1, <3>2, Zenon DEF EmittedT
    <2>7. SpoiltT'
      <3>1. spoilt[g][f] \in SUBSET Nat
        BY DEF TypeOK
      <3>2. (emitted[g][f] + 1)..(emitted[g][f] + k) \subseteq Nat
        BY <2>2, NewCounts, Zenon
      <3>3. \E S \in SUBSET Nat : spoilt' = [spoilt EXCEPT ![g][f] = S]
        BY <2>1, <3>1, <3>2, Zenon
      <3> QED BY <3>3 DEF TypeOK, SpoiltT
    <2>8. UNCHANGED <<pc, result, callVars, subVars, closeVars, conn, link, toNode, unsent,
                      nodeFilters, answered, readerVars>>
      BY <1>3 DEF NodeEmits
    <2> QED BY <2>5, <2>6, <2>7, <2>8, Framed, Joined
  <1>4. ASSUME NEW g \in Conns, LinkDrop(g) PROVE TInv'
    <2>1. LinkT'
      BY <1>4 DEF TypeOK, LinkT, LinkDrop
    <2>2. UNCHANGED <<pc, result, callVars, subVars, closeVars, conn, toNode, unsent, inbox,
                      nodeVars, readerVars>>
      BY <1>4 DEF LinkDrop
    <2> QED BY <2>1, <2>2, Framed, Joined
  <1> QED BY <1>1, <1>2, <1>3, <1>4 DEF Node

LEMMA NextTInv == TInv /\ [Next]_vars => TInv'
  <1> SUFFICES ASSUME TInv, [Next]_vars PROVE TInv'
    OBVIOUS
  <1>1. CASE \E c \in Calls : CallStep(c)
    BY <1>1, SendTInv, CallTInv DEF CallStep, Agents
  <1>2. CASE \E s \in Subs : SubStep(s)
    BY <1>2, SendTInv, SubTInv DEF SubStep, Agents
  <1>3. CASE ReaderStep
    BY <1>3, ReadTInv, ReceiveTInv, GatherTInv, DialTInv, ReconnecteTInv, PassOnTInv
       DEF ReaderStep
  <1>4. CASE Close
    BY <1>4, CloseTInv
  <1>5. CASE Node \/ \E g \in Conns : LinkDrop(g)
    BY <1>5, NodeTInv
  <1>6. CASE UNCHANGED vars
    BY <1>6, Framed, Joined DEF vars
  <1> QED BY <1>1, <1>2, <1>3, <1>4, <1>5, <1>6 DEF Next

(* The type invariant holds for any number of calls, subscriptions, filters *)
(* and connections; in particular a response whose JSON does not decode     *)
(* never reaches a reply channel.                                           *)
THEOREM TypeCorrect == Spec => []TypeOK
  <1>1. Spec => []TInv
    BY InitTInv, NextTInv, PTL DEF Spec
  <1> QED BY <1>1, PTL DEF TInv

------------------------------------------------------------------------------
LEMMA TInvAlways == Spec => []TInv
  BY InitTInv, NextTInv, PTL DEF Spec

(* The reads under way and unconsumed, before and after a step of readResponse. *)
LEMMA ReadsBounded ==
  ASSUME TInv, BufferHasOneOwner, ReaderStep
  PROVE  BufferHasOneOwner'
  <1> USE DEF TInv
  <1>0. reading \in Nat /\ Len(readCh) \in Nat
    BY DEF TypeOK
  <1>1. CASE ReadWithChannel
    <2>1. Len(readCh') = Len(readCh) + 1
      BY <1>1 DEF ReadWithChannel, TypeOK
    <2> QED BY <1>0, <1>1, <2>1 DEF ReadWithChannel, BufferHasOneOwner, TypeOK
  <1>2. CASE ReaderError \/ ReaderRpc \/ ReaderRegister \/ ReaderLog
    <2>1. reader = "select" /\ readCh # <<>> /\ readCh' = Tail(readCh)
      BY <1>2, Zenon DEF Receive, ReaderError, ReaderRpc, ReaderRegister, ReaderLog
    <2>2. Len(readCh') = Len(readCh) - 1
      BY <2>1, HeadTail DEF TypeOK
    <2>3. reading' = reading \/ (reader' = "select" /\ reading' = reading + 1)
      <3>1. Redial \/ Loop \/ \E to, d : HandOver(to, d)
        BY <1>2, Zenon DEF ReaderError, ReaderRpc, ReaderRegister, ReaderLog
      <3> QED BY <3>1 DEF Redial, Loop, HandOver
    <2> QED BY <1>0, <2>1, <2>2, <2>3 DEF BufferHasOneOwner
  <1>3. CASE \/ Reconnecte
             \/ \E c \in Calls : ReaderReply(c)
             \/ \E s \in Subs : ReaderAnswer(s) \/ UserTakesLog(s)
    BY <1>0, <1>3 DEF Reconnecte, ReaderReply, ReaderAnswer, UserTakesLog, Loop,
                      BufferHasOneOwner
  <1>4. CASE ReaderGathers
    <2>1. Len(readCh') = Len(readCh) - 1
      BY <1>4, HeadTail DEF ReaderGathers, TypeOK
    <2> QED BY <1>0, <1>4, <2>1 DEF ReaderGathers, BufferHasOneOwner
  <1>5. CASE GatherFails \/ ReconnectTick \/ DialFails
    BY <1>0, <1>5 DEF GatherFails, ReconnectTick, DialFails, Loop, BufferHasOneOwner
  <1> QED BY <1>1, <1>2, <1>3, <1>4, <1>5 DEF ReaderStep

(* However often the connection breaks and is redialled, one read at most  *)
(* is under way or unconsumed, and none while readResponse still uses the  *)
(* buffer.                                                                 *)
THEOREM BufferOwned == Spec => []BufferHasOneOwner
  <1>1. Init => BufferHasOneOwner
    BY DEF Init, BufferHasOneOwner
  <1>2. TInv /\ BufferHasOneOwner /\ [Next]_vars => BufferHasOneOwner'
    <2> SUFFICES ASSUME TInv, BufferHasOneOwner, [Next]_vars PROVE BufferHasOneOwner'
      OBVIOUS
    <2>1. CASE \/ \E c \in Calls : CallStep(c)
               \/ \E s \in Subs : SubStep(s)
               \/ UNCHANGED vars
      <3>1. UNCHANGED readerVars
        BY <2>1, Zenon DEF vars, CallStep, SubStep, SendStep, CallStart, CallRefused,
           SendCheck, SendWrite, WriteBlocks, WriteFails, CallReceive, CallTimeout,
           CallLeave, SubStart, SubRegister, SubUnregister, SubWatch
      <3> QED BY <3>1 DEF BufferHasOneOwner
    <2>2. CASE ReaderStep
      BY <2>2, ReadsBounded
    <2>3. CASE Close
      BY <2>3 DEF Close, CloseSwap, CloseConn, CloseExit, BufferHasOneOwner
    <2>4. CASE Node \/ \E g \in Conns : LinkDrop(g)
      <3>1. UNCHANGED readerVars
        BY <2>4, Zenon DEF Node, NodeAnswersCall, NodeAnswersSub, NodeEmits, LinkDrop
      <3> QED BY <3>1 DEF BufferHasOneOwner
    <2> QED BY <2>1, <2>2, <2>3, <2>4 DEF Next
  <1> QED BY <1>1, <1>2, TInvAlways, PTL DEF Spec
==============================================================================
