---------------------------- MODULE ChannelClient ----------------------------
(***************************************************************************)
(* The channel backend of the client (client/channel.go over               *)
(* client/tls/connection.go): concurrent rpcCall and SubEventLogs          *)
(* invocations, the read loop readResponse with its ReadWithChannel        *)
(* goroutine, reconnection, and Close.  The node and the network are       *)
(* external.  A read returns one message, or the head of one whose rest    *)
(* never comes; how messages are cut out of the byte stream is the subject *)
(* of ChannelFraming.                                                      *)
(***************************************************************************)
EXTENDS Naturals, Sequences

CONSTANTS Calls,          \* invocations of rpcCall, each made once
          CallMethod,     \* those among Calls whose JSON-RPC method is "call"
          Subs,           \* invocations of SubEventLogs, each with its own channel
          Filters,        \* filter IDs
          FilterOf,       \* the filter ID each invocation of SubEventLogs passes
          MaxConns,       \* bound: connections dialled over the client's life
          MaxLogs         \* bound: event logs the node emits per filter, by connection

ASSUME ChannelAssumption ==
  /\ CallMethod \subseteq Calls
  /\ Calls \cap Subs = {}
  /\ FilterOf \in [Subs -> Filters]
  /\ MaxConns \in Nat \ {0}
  /\ MaxLogs \in [1..MaxConns -> Nat]

Agents == Calls \cup Subs

Conns == 1..MaxConns

VARIABLES
  pc,             \* where each invocation stands
  result,         \* what it returned, "none" before
  id,             \* the request ID a call drew from nextID, 0 before
  idCounter,      \* channelClient.idCounter
  rpcResponse,    \* channelClient.rpcResponse: request ID -> call waiting for it
  ch,             \* the call's reply channel, capacity 1
  pending,        \* channelClient.pending: registrations waiting for an answer
  watcher,        \* channelClient.watcher: filter ID -> invocation whose channel gets the logs
  received,       \* logs each subscriber took from its channel
  isClosed,       \* channelClient.isClosed
  closer,         \* where the first Close stands
  conn,           \* Connection.conn: the connection in use
  link,           \* state of each connection
  toNode,         \* requests written and not yet handled by the node
  unsent,         \* requests whose Write the peer holds up
  inbox,          \* messages the node sent on each connection, in order
  nodeFilters,    \* filters the node serves on each connection
  emitted,        \* logs emitted per connection and filter
  spoilt,         \* the logs among them in messages that do not unmarshal
  answered,       \* the node's answer to each request, "none" before
  reading,        \* number of ReadWithChannel goroutines inside Read
  readCh,         \* the read loop's result channel
  reader,         \* where readResponse stands
  cur,            \* the message readResponse is handling
  dest            \* the invocation readResponse looked up for it, in a set

callVars   == <<id, idCounter, rpcResponse, ch>>
subVars    == <<pending, watcher, received>>
closeVars  == <<isClosed, closer>>
nodeVars   == <<nodeFilters, emitted, spoilt, answered>>
readerVars == <<reading, readCh, reader, cur, dest>>
vars == <<pc, result, callVars, subVars, closeVars, conn, link, toNode, unsent,
          inbox, nodeVars, readerVars>>

(* A result, one of another type than the caller's, an error, no result,   *)
(* and a message that is no JSON-RPC answer.                               *)
Answers == {"value", "mistyped", "error", "empty", "garbled"}

Nothing == [kind |-> "nothing"]

ReadError == [kind |-> "readError"]

(***************************************************************************)
(* A sync.Map as the set of its entries.                                   *)
(***************************************************************************)
Store(m, k, v) == {e \in m : e.key # k} \cup {[key |-> k, val |-> v]}

Delete(m, k) == {e \in m : e.key # k}

Load(m, k) == {e.val : e \in {x \in m : x.key = k}}

Init ==
  /\ pc = [a \in Agents |-> "idle"]
  /\ result = [a \in Agents |-> "none"]
  /\ id = [c \in Calls |-> 0]
  /\ idCounter = 0
  /\ rpcResponse = {}
  /\ ch = [c \in Calls |-> <<>>]
  /\ pending = {}
  /\ watcher = {}
  /\ received = [s \in Subs |-> <<>>]
  /\ isClosed = 0
  /\ closer = "idle"
  /\ conn = 1
  /\ link = [g \in Conns |-> IF g = 1 THEN "up" ELSE "undialled"]
  /\ toNode = {}
  /\ unsent = {}
  /\ inbox = [g \in Conns |-> <<>>]
  /\ nodeFilters = [g \in Conns |-> {}]
  /\ emitted = [g \in Conns |-> [f \in Filters |-> 0]]
  /\ spoilt = [g \in Conns |-> [f \in Filters |-> {}]]
  /\ answered = [a \in Agents |-> "none"]
  /\ reading = 1
  /\ readCh = <<>>
  /\ reader = "select"
  /\ cur = Nothing
  /\ dest = {}

------------------------------------------------------------------------------
(***************************************************************************)
(* Send, made by calls and subscriptions alike: the check of isClosed and  *)
(* the write are two steps, and Close or a reconnection may fall between.  *)
(***************************************************************************)
SendFailed(a) ==
  /\ result' = [result EXCEPT ![a] = "sendErr"]
  /\ pc' = [pc EXCEPT ![a] = IF a \in Calls THEN "leave" ELSE "done"]

SendCheck(a) ==
  /\ pc[a] = "send"
  /\ \/ /\ isClosed # 0
        /\ SendFailed(a)
     \/ /\ isClosed = 0
        /\ pc' = [pc EXCEPT ![a] = "write"]
        /\ UNCHANGED result
  /\ UNCHANGED <<callVars, subVars, closeVars, conn, link, toNode, unsent, inbox,
                 nodeVars, readerVars>>

Sent(a) ==
  /\ pc' = [pc EXCEPT ![a] = IF a \in Calls THEN "wait" ELSE "register"]
  /\ UNCHANGED result

(* A write on a connection that is down fails or vanishes in a buffer.  (The *)
(* requests are strings and valid JSON: NewMessage always encodes them.)     *)
SendWrite(a) ==
  /\ pc[a] = "write"
  /\ \/ /\ link[conn] # "up"
        /\ SendFailed(a)
        /\ UNCHANGED toNode
     \/ /\ link[conn] # "closed"
        /\ Sent(a)
        /\ toNode' = IF link[conn] = "up"
                     THEN toNode \cup {[via |-> conn, from |-> a]} ELSE toNode
  /\ UNCHANGED <<callVars, subVars, closeVars, conn, link, unsent, inbox, nodeVars,
                 readerVars>>

(* Write has no deadline: it does not return when the peer has ceased to   *)
(* read.  (One that does go through in the end is a SendWrite taken late.) *)
WriteBlocks(a) ==
  /\ pc[a] = "write"
  /\ link[conn] = "up"
  /\ pc' = [pc EXCEPT ![a] = "blocked"]
  /\ unsent' = unsent \cup {[via |-> conn, from |-> a]}
  /\ UNCHANGED <<result, callVars, subVars, closeVars, conn, link, toNode, inbox,
                 nodeVars, readerVars>>

(* It fails when its connection goes, which need not be the one in use. *)
WriteFails(a) ==
  /\ pc[a] = "blocked"
  /\ \E r \in unsent : /\ r.from = a
                       /\ link[r.via] # "up"
                       /\ unsent' = unsent \ {r}
  /\ SendFailed(a)
  /\ UNCHANGED <<callVars, subVars, closeVars, conn, link, toNode, inbox,
                 nodeVars, readerVars>>

(* Faulty variant: a lost update of the counter. *)
NextIDLostUpdate == IF idCounter = 0 THEN 1 ELSE idCounter

(***************************************************************************)
(* rpcCall and sendRPC.                                                    *)
(***************************************************************************)
NextID == idCounter + 1

(* newRpcMessage draws the ID, sendRPC stores the reply channel under it. *)
CallStart(c) ==
  /\ pc[c] = "idle"
  /\ pc' = [pc EXCEPT ![c] = "send"]
  /\ idCounter' = NextID
  /\ id' = [id EXCEPT ![c] = NextID]
  /\ rpcResponse' = Store(rpcResponse, NextID, c)
  /\ UNCHANGED <<result, ch, subVars, closeVars, conn, link, toNode, unsent, inbox,
                 nodeVars, readerVars>>

(* A result that is no pointer is refused, and so are arguments that do    *)
(* not marshal, which have drawn an ID by then.                            *)
CallRefused(c) ==
  /\ pc[c] = "idle"
  /\ pc' = [pc EXCEPT ![c] = "done"]
  /\ result' = [result EXCEPT ![c] = "argErr"]
  /\ idCounter' \in {idCounter, NextID}
  /\ UNCHANGED <<id, rpcResponse, ch, subVars, closeVars, conn, link, toNode, unsent,
                 inbox, nodeVars, readerVars>>

(* Faulty variant: the error of the answer is not looked at. *)
ReturnNoError(resp) == IF resp \in {"error", "empty"} THEN "notFound"
                       ELSE IF resp = "mistyped" THEN "resultErr" ELSE "ok"

(* What rpcCall makes of the response sendRPC handed back: its error, or   *)
(* NotFound, or the result as far as it unmarshals.                        *)
ReturnOf(resp) == CASE resp = "error"    -> "nodeErr"
                    [] resp = "empty"    -> "notFound"
                    [] resp = "mistyped" -> "resultErr"
                    [] OTHER             -> "ok"

CallReceive(c) ==
  /\ pc[c] = "wait"
  /\ ch[c] # <<>>
  /\ ch' = [ch EXCEPT ![c] = Tail(@)]
  /\ result' = [result EXCEPT ![c] = ReturnOf(Head(ch[c]))]
  /\ pc' = [pc EXCEPT ![c] = "leave"]
  /\ UNCHANGED <<id, idCounter, rpcResponse, subVars, closeVars, conn, link,
                 toNode, unsent, inbox, nodeVars, readerVars>>

(* Faulty variant: the timer dies with the read loop. *)
TimerNeedsReader(c) == pc[c] = "wait" /\ reader # "exited"

(* The 20 s timer may fire at any time while the call waits. *)
TimerRuns(c) == pc[c] = "wait"

CallTimeout(c) ==
  /\ TimerRuns(c)
  /\ result' = [result EXCEPT ![c] = "timeout"]
  /\ pc' = [pc EXCEPT ![c] = "leave"]
  /\ UNCHANGED <<callVars, subVars, closeVars, conn, link, toNode, unsent, inbox,
                 nodeVars, readerVars>>

(* Faulty variant: a call that timed out stays in the table. *)
KeepTimedOut(c) == IF result[c] = "timeout" THEN rpcResponse
                   ELSE Delete(rpcResponse, id[c])

(* The deferred Delete. *)
WithoutCall(c) == Delete(rpcResponse, id[c])

CallLeave(c) ==
  /\ pc[c] = "leave"
  /\ pc' = [pc EXCEPT ![c] = "done"]
  /\ rpcResponse' = WithoutCall(c)
  /\ UNCHANGED <<result, id, idCounter, ch, subVars, closeVars, conn, link,
                 toNode, unsent, inbox, nodeVars, readerVars>>

(***************************************************************************)
(* SubEventLogs.  The sequence number newSeq draws (128 random bits) is    *)
(* the invocation itself.                                                  *)
(***************************************************************************)
SubStart(s) ==
  /\ pc[s] = "idle"
  /\ \/ /\ pc' = [pc EXCEPT ![s] = "done"]   \* a filter ID of another length
        /\ result' = [result EXCEPT ![s] = "argErr"]
        /\ UNCHANGED watcher
     \/ /\ Load(watcher, FilterOf[s]) # {}
        /\ watcher' = Store(watcher, FilterOf[s], s)
        /\ pc' = [pc EXCEPT ![s] = "done"]
        /\ result' = [result EXCEPT ![s] = "ok"]
     \/ /\ Load(watcher, FilterOf[s]) = {}
        /\ pc' = [pc EXCEPT ![s] = "send"]
        /\ UNCHANGED <<watcher, result>>
  /\ UNCHANGED <<callVars, pending, received, closeVars, conn, link, toNode, unsent,
                 inbox, nodeVars, readerVars>>

(* The channel is published only after the request has been written. *)
SubRegister(s) ==
  /\ pc[s] = "register"
  /\ pending' = pending \cup {s}
  /\ pc' = [pc EXCEPT ![s] = "wait"]
  /\ UNCHANGED <<result, callVars, watcher, received, closeVars, conn, link,
                 toNode, unsent, inbox, nodeVars, readerVars>>

(* Faulty variant: the wait for the answer may be given up. *)
AnsweredOrImpatient(s) == pc[s] \in {"wait", "unregister"}

(* The answer came through pch (see ReaderAnswer). *)
Answered(s) == pc[s] = "unregister"

(* Faulty variant: a refused registration is watched as well. *)
AlwaysWatch(s) == "watch"

(* The early return on an error. *)
AfterAnswer(s) == IF result[s] = "ok" THEN "watch" ELSE "done"

SubUnregister(s) ==
  /\ Answered(s)
  /\ pending' = pending \ {s}
  /\ pc' = [pc EXCEPT ![s] = AfterAnswer(s)]
  /\ UNCHANGED <<result, callVars, watcher, received, closeVars, conn, link,
                 toNode, unsent, inbox, nodeVars, readerVars>>

SubWatch(s) ==
  /\ pc[s] = "watch"
  /\ watcher' = Store(watcher, FilterOf[s], s)
  /\ pc' = [pc EXCEPT ![s] = "done"]
  /\ UNCHANGED <<result, callVars, pending, received, closeVars, conn, link,
                 toNode, unsent, inbox, nodeVars, readerVars>>

------------------------------------------------------------------------------
(***************************************************************************)
(* ReadWithChannel: one read of the connection current when the goroutine  *)
(* runs.  A connection that is down may still hold messages to read.       *)
(***************************************************************************)
ReadWithChannel ==
  /\ reading > 0
  /\ reading' = reading - 1
  /\ \/ /\ link[conn] \in {"up", "down"}
        /\ inbox[conn] # <<>>
        /\ readCh' = Append(readCh, Head(inbox[conn]))
        /\ inbox' = [inbox EXCEPT ![conn] = Tail(@)]
     \/ /\ link[conn] # "up"
        /\ readCh' = Append(readCh, ReadError)
        /\ UNCHANGED inbox
  /\ UNCHANGED <<pc, result, callVars, subVars, closeVars, conn, link, toNode, unsent,
                 nodeVars, reader, cur, dest>>

(***************************************************************************)
(* readResponse.  Every way back to the head of the loop starts a read.    *)
(***************************************************************************)
Loop == /\ reader' = "select"
        /\ reading' = reading + 1
        /\ cur' = Nothing
        /\ dest' = {}

HandOver(to, d) == /\ reader' = to
                   /\ cur' = Head(readCh)
                   /\ dest' = d
                   /\ UNCHANGED reading

Receive(kind) == /\ reader = "select"
                 /\ readCh # <<>>
                 /\ Head(readCh).kind = kind
                 /\ readCh' = Tail(readCh)

(* The read returned the head of a message, and the rest does not come:    *)
(* the loop is in the reads for it, and does not look at exit.  (A message *)
(* whose rest does come is one read late.)                                 *)
ReaderGathers ==
  /\ reader = "select"
  /\ readCh # <<>>
  /\ Head(readCh) # ReadError
  /\ readCh' = Tail(readCh)
  /\ reader' = "gather"
  /\ UNCHANGED <<pc, result, callVars, subVars, closeVars, conn, link, toNode,
                 unsent, inbox, nodeVars, reading, cur, dest>>

(* These reads fail when the connection goes.  What there is of the        *)
(* message does not decode, and nothing behind it has arrived either.      *)
GatherFails ==
  /\ reader = "gather"
  /\ link[conn] # "up"
  /\ inbox' = [inbox EXCEPT ![conn] = <<>>]
  /\ Loop
  /\ UNCHANGED <<pc, result, callVars, subVars, closeVars, conn, link, toNode,
                 unsent, nodeVars, readCh>>

(* Faulty variant: the next read starts before the redial. *)
RedialReading == /\ reader' = "reconnect"
                 /\ reading' = reading + 1
                 /\ UNCHANGED <<cur, dest>>

Redial == /\ reader' = "reconnect"
          /\ UNCHANGED <<reading, cur, dest>>

ReaderError ==
  /\ Receive("readError")
  /\ Redial
  /\ UNCHANGED <<pc, result, callVars, subVars, closeVars, conn, link, toNode, unsent,
                 inbox, nodeVars>>

(* A tick: the loop is inside Dial until that returns; it has no timeout. *)
ReconnectTick ==
  /\ reader = "reconnect"
  /\ reader' = "dial"
  /\ UNCHANGED <<pc, result, callVars, subVars, closeVars, conn, link, toNode, unsent,
                 inbox, nodeVars, reading, readCh, cur, dest>>

DialFails ==
  /\ reader = "dial"
  /\ reader' = "reconnect"
  /\ UNCHANGED <<pc, result, callVars, subVars, closeVars, conn, link, toNode, unsent,
                 inbox, nodeVars, reading, readCh, cur, dest>>

(* A dial that succeeds replaces the connection, even after Close has      *)
(* closed the previous one.                                                *)
Reconnecte ==
  /\ reader = "dial"
  /\ conn < MaxConns
  /\ conn' = conn + 1
  /\ link' = [link EXCEPT ![conn + 1] = "up"]
  /\ Loop
  /\ UNCHANGED <<pc, result, callVars, subVars, closeVars, toNode, unsent, inbox,
                 nodeVars, readCh>>

(* Faulty variant: the error of Unmarshal is ignored. *)
AlwaysDecodes(m) == TRUE

Decodes(m) == m.val # "garbled"

(* An answer nobody waits for, or whose JSON does not decode, is dropped. *)
ReaderRpc ==
  /\ Receive("rpc")
  /\ LET d == Load(rpcResponse, Head(readCh).id)
     IN IF d # {} /\ Decodes(Head(readCh)) THEN HandOver("toCaller", d) ELSE Loop
  /\ UNCHANGED <<pc, result, callVars, subVars, closeVars, conn, link, toNode, unsent,
                 inbox, nodeVars>>

(* For method "call" only the output is copied, so an error has no result. *)
Decoded(c, val) == IF c \in CallMethod /\ val = "error" THEN "empty" ELSE val

(* The send to the reply channel does not block: a full channel drops it. *)
ReaderReply(c) ==
  /\ reader = "toCaller"
  /\ c \in dest
  /\ ch' = [ch EXCEPT ![c] = IF @ = <<>> THEN <<Decoded(c, cur.val)>> ELSE @]
  /\ Loop
  /\ UNCHANGED <<pc, result, id, idCounter, rpcResponse, subVars, closeVars,
                 conn, link, toNode, unsent, inbox, nodeVars, readCh>>

(* Faulty variant: only a positive answer is passed on. *)
AwaitedAndOK(m) == m.seq \in pending /\ m.ok

Awaited(m) == m.seq \in pending

ReaderRegister ==
  /\ Receive("register")
  /\ IF Awaited(Head(readCh))
     THEN HandOver("toPending", {Head(readCh).seq}) ELSE Loop
  /\ UNCHANGED <<pc, result, callVars, subVars, closeVars, conn, link, toNode, unsent,
                 inbox, nodeVars>>

(* The unbuffered pch: the read loop and SubEventLogs step together. *)
ReaderAnswer(s) ==
  /\ reader = "toPending"
  /\ s \in dest
  /\ pc[s] = "wait"
  /\ result' = [result EXCEPT ![s] = IF cur.ok THEN "ok" ELSE "refused"]
  /\ pc' = [pc EXCEPT ![s] = "unregister"]
  /\ Loop
  /\ UNCHANGED <<callVars, subVars, closeVars, conn, link, toNode, unsent, inbox,
                 nodeVars, readCh>>

(* An event-log message that does not unmarshal is dropped, with all the   *)
(* logs in it, and so is one for a filter nobody watches.                  *)
ReaderLog ==
  /\ Receive("log")
  /\ LET d == Load(watcher, Head(readCh).filter)
     IN IF Head(readCh).valid /\ d # {} THEN HandOver("toWatcher", d) ELSE Loop
  /\ UNCHANGED <<pc, result, callVars, subVars, closeVars, conn, link, toNode, unsent,
                 inbox, nodeVars>>

(* Faulty variant: a log the subscriber is not ready for is dropped. *)
TakesOrMisses(s, log) == \/ received' = [received EXCEPT ![s] = Append(@, log)]
                         \/ UNCHANGED received

Takes(s, log) == received' = [received EXCEPT ![s] = Append(@, log)]

(* The send of a log blocks until the subscriber takes it. *)
UserTakesLog(s) ==
  /\ reader = "toWatcher"
  /\ s \in dest
  /\ Takes(s, Head(cur.logs))
  /\ IF Tail(cur.logs) = <<>> THEN Loop
     ELSE /\ cur' = [cur EXCEPT !.logs = Tail(@)]
          /\ UNCHANGED <<reading, reader, dest>>
  /\ UNCHANGED <<pc, result, callVars, pending, watcher, closeVars, conn, link,
                 toNode, unsent, inbox, nodeVars, readCh>>

(***************************************************************************)
(* Close: only the caller that wins the compare-and-swap goes on.          *)
(***************************************************************************)
CloseSwap ==
  /\ isClosed = 0
  /\ isClosed' = 1
  /\ closer' = "conn"
  /\ UNCHANGED <<pc, result, callVars, subVars, conn, link, toNode, unsent, inbox,
                 nodeVars, readerVars>>

CloseConn ==
  /\ closer = "conn"
  /\ closer' = "exit"
  /\ link' = [link EXCEPT ![conn] = "closed"]
  /\ UNCHANGED <<pc, result, callVars, subVars, isClosed, conn, toNode, unsent, inbox,
                 nodeVars, readerVars>>

(* Faulty variant: the redial loop does not listen to exit. *)
ListensInSelectOnly == reader = "select"

(* Both selects of readResponse receive from the unbuffered exit channel; *)
(* inside Dial, and while it gathers a message, nobody does.              *)
ListensToExit == reader \in {"select", "reconnect"}

CloseExit ==
  /\ closer = "exit"
  /\ ListensToExit
  /\ closer' = "done"
  /\ reader' = "exited"
  /\ UNCHANGED <<pc, result, callVars, subVars, isClosed, conn, link, toNode, unsent,
                 inbox, nodeVars, reading, readCh, cur, dest>>

------------------------------------------------------------------------------
(***************************************************************************)
(* The node and the network (external).                                    *)
(***************************************************************************)
Deliver(g, m) == inbox' = [inbox EXCEPT ![g] = Append(@, m)]

NodeAnswersCall(r) ==
  /\ r \in toNode
  /\ r.from \in Calls
  /\ link[r.via] = "up"
  /\ toNode' = toNode \ {r}
  /\ \E v \in Answers :
       /\ answered' = [answered EXCEPT ![r.from] = v]
       /\ Deliver(r.via, [kind |-> "rpc", id |-> id[r.from], val |-> v])
  /\ UNCHANGED <<pc, result, callVars, subVars, closeVars, conn, link, unsent,
                 nodeFilters, emitted, spoilt, readerVars>>

NodeAnswersSub(r) ==
  /\ r \in toNode
  /\ r.from \in Subs
  /\ link[r.via] = "up"
  /\ toNode' = toNode \ {r}
  /\ \E ok \in BOOLEAN :
       /\ answered' = [answered EXCEPT ![r.from] = IF ok THEN "accepted" ELSE "refused"]
       /\ Deliver(r.via, [kind |-> "register", seq |-> r.from, ok |-> ok])
       /\ nodeFilters' = IF ok THEN [nodeFilters EXCEPT ![r.via] = @ \cup {FilterOf[r.from]}]
                         ELSE nodeFilters
  /\ UNCHANGED <<pc, result, callVars, subVars, closeVars, conn, link, unsent, emitted,
                 spoilt, readerVars>>

(* One event-log message carries one log or two, and may not unmarshal. *)
NodeEmits(g, f) ==
  /\ f \in nodeFilters[g]
  /\ link[g] = "up"
  /\ \E k \in 1..2, valid \in BOOLEAN :
       LET new == (emitted[g][f] + 1)..(emitted[g][f] + k)
       IN /\ emitted[g][f] + k <= MaxLogs[g]
          /\ emitted' = [emitted EXCEPT ![g][f] = @ + k]
          /\ spoilt' = [spoilt EXCEPT ![g][f] = IF valid THEN @ ELSE @ \cup new]
          /\ Deliver(g, [kind |-> "log", filter |-> f, valid |-> valid,
                         logs |-> [i \in 1..k |-> [via |-> g, n |-> emitted[g][f] + i]]])
  /\ UNCHANGED <<pc, result, callVars, subVars, closeVars, conn, link, toNode, unsent,
                 nodeFilters, answered, readerVars>>

LinkDrop(g) ==
  /\ link[g] = "up"
  /\ link' = [link EXCEPT ![g] = "down"]
  /\ UNCHANGED <<pc, result, callVars, subVars, closeVars, conn, toNode, unsent, inbox,
                 nodeVars, readerVars>>

------------------------------------------------------------------------------
SendStep(a) == \/ SendCheck(a) \/ SendWrite(a)
               \/ WriteBlocks(a) \/ WriteFails(a)

CallStep(c) == \/ CallStart(c) \/ CallRefused(c) \/ SendStep(c)
               \/ CallReceive(c) \/ CallTimeout(c) \/ CallLeave(c)

SubStep(s) == \/ SubStart(s) \/ SendStep(s)
              \/ SubRegister(s) \/ SubUnregister(s) \/ SubWatch(s)

ReaderStep == \/ ReadWithChannel \/ ReaderGathers \/ GatherFails
              \/ ReaderError \/ ReconnectTick \/ DialFails \/ Reconnecte
              \/ ReaderRpc \/ ReaderRegister \/ ReaderLog
              \/ \E c \in Calls : ReaderReply(c)
              \/ \E s \in Subs : ReaderAnswer(s) \/ UserTakesLog(s)

Close == CloseSwap \/ CloseConn \/ CloseExit

Node == \/ \E r \in toNode : NodeAnswersCall(r) \/ NodeAnswersSub(r)
        \/ \E g \in Conns, f \in Filters : NodeEmits(g, f)

Next == \/ \E c \in Calls : CallStep(c)
        \/ \E s \in Subs : SubStep(s)
        \/ ReaderStep
        \/ Close
        \/ Node
        \/ \E g \in Conns : LinkDrop(g)

Spec == Init /\ [][Next]_vars

(***************************************************************************)
(* Goroutines that can run do run; a started invocation goes on, and the   *)
(* timers fire.  The subscriber keeps taking logs and the node keeps       *)
(* handling what it received.  Go's select picks among its ready cases at  *)
(* random, so an exit that is ready again and again is taken: strong       *)
(* fairness.  Nothing makes a dial return, the peer read what is written   *)
(* or send the rest of a message, a user start a call or call Close; only  *)
(* when its connection goes does a Write or a Read end by itself.          *)
(***************************************************************************)
CallGoesOn(c) == SendStep(c) \/ CallReceive(c) \/ CallTimeout(c) \/ CallLeave(c)

SubGoesOn(s) == SendStep(s) \/ SubRegister(s) \/ SubUnregister(s) \/ SubWatch(s)

ReaderHandles == \/ ReaderError \/ ReconnectTick \/ GatherFails
                 \/ ReaderRpc \/ ReaderRegister \/ ReaderLog
                 \/ \E c \in Calls : ReaderReply(c)
                 \/ \E s \in Subs : ReaderAnswer(s) \/ UserTakesLog(s)

Fairness ==
  /\ \A c \in Calls : WF_vars(CallGoesOn(c))
  /\ \A s \in Subs : WF_vars(SubGoesOn(s))
  /\ WF_vars(ReadWithChannel)
  /\ WF_vars(ReaderHandles)
  /\ WF_vars(CloseConn)
  /\ SF_vars(CloseExit)
  /\ WF_vars(\E r \in toNode : NodeAnswersCall(r) \/ NodeAnswersSub(r))

FairSpec == Spec /\ Fairness

------------------------------------------------------------------------------
(***************************************************************************)
(* Properties.                                                             *)
(***************************************************************************)
RpcMsg == [kind : {"rpc"}, id : Nat, val : Answers]

RegisterMsg == [kind : {"register"}, seq : Subs, ok : BOOLEAN]

Log == [via : Conns, n : Nat]

LogMsg == [kind : {"log"}, filter : Filters, valid : BOOLEAN, logs : Seq(Log) \ {<<>>}]

Msg == RpcMsg \cup RegisterMsg \cup LogMsg

CallPcs == {"idle", "send", "write", "blocked", "wait", "leave", "done"}

SubPcs == {"idle", "send", "write", "blocked", "register", "wait", "unregister",
           "watch", "done"}

Results == {"none", "ok", "nodeErr", "notFound", "resultErr", "timeout", "sendErr",
            "refused", "argErr"}

(* Every variable has the type of the Go field or channel it stands for. *)
TypeOK ==
  /\ pc \in [Agents -> CallPcs \cup SubPcs]
  /\ \A c \in Calls : pc[c] \in CallPcs
  /\ \A s \in Subs : pc[s] \in SubPcs
  /\ result \in [Agents -> Results]
  /\ id \in [Calls -> Nat]
  /\ idCounter \in Nat
  /\ rpcResponse \subseteq [key : Nat, val : Calls]
  /\ ch \in [Calls -> Seq(Answers \ {"garbled"})]
  /\ pending \subseteq Subs
  /\ watcher \subseteq [key : Filters, val : Subs]
  /\ received \in [Subs -> Seq(Log)]
  /\ isClosed \in {0, 1}
  /\ closer \in {"idle", "conn", "exit", "done"}
  /\ conn \in Conns
  /\ link \in [Conns -> {"undialled", "up", "down", "closed"}]
  /\ toNode \subseteq [via : Conns, from : Agents]
  /\ unsent \subseteq [via : Conns, from : Agents]
  /\ inbox \in [Conns -> Seq(Msg)]
  /\ nodeFilters \in [Conns -> SUBSET Filters]
  /\ emitted \in [Conns -> [Filters -> Nat]]
  /\ spoilt \in [Conns -> [Filters -> SUBSET Nat]]
  /\ answered \in [Agents -> Answers \cup {"none", "accepted", "refused"}]
  /\ reading \in Nat
  /\ readCh \in Seq(Msg \cup {ReadError})
  /\ reader \in {"select", "gather", "reconnect", "dial", "toCaller", "toPending",
                 "toWatcher", "exited"}
  /\ cur \in Msg \cup {Nothing}
  /\ dest \subseteq Agents

(* The table of reply channels holds exactly the calls between their Store *)
(* and their deferred Delete, each under its own ID: no call is ever       *)
(* unreachable while it waits, displaced by another, or left behind.       *)
InFlight == {c \in Calls : pc[c] \in {"send", "write", "blocked", "wait", "leave"}}

TableMatchesCalls == rpcResponse = {[key |-> id[c], val |-> c] : c \in InFlight}

(* At most one read of the shared buffer is under way or unconsumed, and   *)
(* none while readResponse still works on the bytes of an earlier one or   *)
(* waits to redial: the goroutine per iteration never overwrites a message *)
(* being decoded, and readCh (capacity 8) never fills.                     *)
BufferHasOneOwner ==
  /\ reading + Len(readCh) <= 1
  /\ reader \notin {"select", "exited"} => reading + Len(readCh) = 0

(* The blocking send of a registration answer always finds SubEventLogs at *)
(* its receive, so a registration never stops the read loop.               *)
RegisterNeverBlocksReader ==
  reader = "toPending" => \A s \in dest : pc[s] = "wait"

(* From the first log a subscriber takes on a connection, it gets none     *)
(* twice or out of order on that connection, and misses only those in      *)
(* messages that did not unmarshal: the read loop waits for a slow         *)
(* subscriber rather than drop a log.                                      *)
LogsContiguous ==
  \A s \in Subs : \A i \in 1..(Len(received[s]) - 1) :
    LET a == received[s][i]
        b == received[s][i + 1]
    IN \/ a.via < b.via
       \/ /\ a.via = b.via
          /\ a.n < b.n
          /\ (a.n + 1)..(b.n - 1) \subseteq spoilt[a.via][FilterOf[s]]

(* A channel is entered in the watcher table only for a filter the node    *)
(* accepted, and SubEventLogs returns nil only with such an entry present. *)
WatchedFiltersAccepted ==
  /\ \A e \in watcher : \E s \in Subs : FilterOf[s] = e.key /\ answered[s] = "accepted"
  /\ \A s \in Subs : pc[s] = "done" /\ result[s] = "ok" => Load(watcher, FilterOf[s]) # {}

(* The Write of an invocation waits for a peer whose connection holds. *)
HeldUp(a) == \E r \in unsent : r.from = a /\ link[r.via] = "up"

(* Every call that has started returns, unless the peer holds up the Write *)
(* of its request for ever, with the connection in place: the timer is set *)
(* only after the Write.  From there on the 20 s bound the wait, whatever  *)
(* the reader, the node and the connection do.                             *)
CallsReturn == \A c \in Calls : []<>~HeldUp(c) => (pc[c] = "send" ~> pc[c] = "done")

(* Close returns, as long as subscribers keep taking the logs the read     *)
(* loop blocks on, unless the loop never comes back from a Dial, or from   *)
(* its wait for the rest of a message (on a connection it dialled when     *)
(* Close had closed the other): then nobody takes the exit.                *)
CloseReturns == []<>(reader \notin {"dial", "gather"}) => (isClosed = 1 ~> closer = "done")

(* The answer to a registration is still on its way to the read loop, over *)
(* a connection that holds.                                                *)
AnswerOnItsWay(s) ==
  /\ reader # "exited"
  /\ \/ link[conn] = "up" /\ [via |-> conn, from |-> s] \in toNode
     \/ /\ link[conn] = "up"
        /\ \E i \in 1..Len(inbox[conn]) :
             inbox[conn][i].kind = "register" /\ inbox[conn][i].seq = s
     \/ \E i \in 1..Len(readCh) : readCh[i].kind = "register" /\ readCh[i].seq = s
     \/ reader = "toPending" /\ s \in dest

(* A SubEventLogs that waits while its answer is on its way returns unless *)
(* the connection or the read loop goes first, or the loop waits for ever  *)
(* for the rest of some message.  (An answer read before the pending       *)
(* channel is stored is not on its way any more: then, and when the        *)
(* connection goes, the caller waits for ever, there is no timeout.)       *)
SubsSettle == \A s \in Subs : []<>(reader # "gather") =>
  (pc[s] = "wait" /\ AnswerOnItsWay(s)
     ~> pc[s] = "done" \/ link[conn] # "up" \/ reader = "exited")

(* NotFound is returned only for what the node does not have: not for a    *)
(* call that the node answered with an error.  (False for the method call: *)
(* readResponse decodes the error of its answer and does not pass it on.)  *)
NotFoundMeansMissing == \A c \in Calls : result[c] = "notFound" => answered[c] = "empty"

(***************************************************************************)
(* Refinement: the calls are RpcCall.  A call is open from its Store to    *)
(* its return, and its answer is the one the node gave to its request.     *)
(***************************************************************************)
RC == INSTANCE RpcCall WITH
        Untold <- CallMethod,
        phase <- [c \in Calls |-> CASE pc[c] = "idle" -> "idle"
                                    [] pc[c] = "done" -> "finished"
                                    [] OTHER -> "open"],
        answer <- [c \in Calls |-> answered[c]],
        outcome <- [c \in Calls |-> IF pc[c] = "done" THEN result[c] ELSE "none"]

(* Every call returns once, with what RpcCall promises for the node's      *)
(* answer to that very call or a failure of its own: answers are never     *)
(* crossed or reused, even when they come late, after a timeout or over a  *)
(* new connection; an error of the node is never taken for a result.       *)
CallsAreRpcCalls == RC!Spec
==============================================================================
