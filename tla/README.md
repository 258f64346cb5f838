# A TLA+ model of go-fiscobcos

go-fiscobcos is a Go client library for FISCO-BCOS nodes.  This directory holds
TLA+ specifications of its concurrent parts, the TLC models that check them on
small instances, and TLAPS proofs of the main results.

    tlc -config channel_calls.cfg MCChannelClient     # a run
    tlapm KeyUnlockProofs.tla                         # a proof module

## The system

| part | state | operations | what makes it hard |
|---|---|---|---|
| channel client (`client/channel.go`, `client/tls`) | table of waiting calls, pending registrations, watched filters, one TLS connection, one read buffer | `rpcCall`, `SubEventLogs`, `BlockNotify`, `Close`, the goroutine `readResponse` | callers, read loop, timers, reconnection and `Close` interleave; answers come late or never |
| framing (`client/message.go`, `readResponse`) | bytes gathered so far | `getMessageLength`, `DecodeMessage` | messages split over reads, connections lost in between |
| event (`event/`) | feed: inbox, select cases; subscriptions; type mux | `Subscribe`, `Send`, `Unsubscribe`, `Resubscribe`, `Post`, `Stop` | subscribers leave during a blocked send |
| keystore (`accounts/keystore`) | unlocked keys, account cache, wallet list | `TimedUnlock`, `Lock`, expiry, file scans, `refreshWallets` | timers race with new unlocks; directory changes race with scans |
| account manager (`accounts/manager.go`) | sorted wallet list | update loop, `merge`, `drop` | events of several backends |
| JSON-RPC (`rpc/`) | waiting requests, subscriptions, codecs | `CallContext`, `Subscribe`, dispatch loop, `Stop` | send lock, reconnection in mid-request, unsubscribing through the loop that delivers |
| bloom bits (`core/bloombits`) | cached responses, sessions | scheduler, distributor, matcher | shared requests, aborted sessions |
| ABI, RLP, hex, math, priority queues, simulated clock | little or none | conversions and algorithms | boundaries |
| contract bindings, signers, crypto, logging, tools | | | I/O, text or number theory |

The wallet list of the manager is fed by the keystore through an event feed;
the contract bindings and the HTTP client use `rpc`; the channel client stands
on its own TLS connection.  `PROJECT.json` lists every part with its status, and
the hazards of each at the line where they bite.

## The modules

### ChannelClient, refining RpcCall

One action per atomic step of `client/channel.go`.

| code | model |
|---|---|
| an invocation of `rpcCall` or `SubEventLogs` | an element of `Calls` or `Subs`, with `pc`, `result` |
| `rpcResponse`, `watcher` (`sync.Map`) | sets of key/value records; `Store`, `Load`, `Delete` |
| `pending` | the set of registrations in it |
| reply channel of capacity 1, with the non-blocking send | `ch`, `ReaderReply` |
| unbuffered `pch` and `exit` | joint steps `ReaderAnswer`, `CloseExit` |
| `go ReadWithChannel` and `readCh` | `reading` (goroutines inside `Read`) and `readCh` |
| `Connection.conn` replaced by `Reconnecte` | `conn`, `link[conn]` |
| `Write`, `Dial` and the reads for a message's rest, none of them with a deadline | `WriteBlocks`, `WriteFails`; reader state `dial`; reader state `gather` |
| node and network | `NodeAnswersCall`, `NodeAnswersSub`, `NodeEmits`, `LinkDrop` (external) |

`Send` is two steps, the test of `isClosed` and the write, because `Close` and a
reconnection fit between them.  A write on a connection that is down fails or is
lost; one on a connection that is up may also block (`unsent`), until the
connection goes.  (`NewMessage` cannot fail: what `Send` is given always
encodes.)  Drawing an id and storing the reply channel under it are one step:
nobody can use the id in between.  So are the `Load` and the `Store` of a filter
that is already watched: entries are never deleted.  A call with a result that is
no pointer or arguments that do not marshal, and a registration with a filter ID
of another length than 32, are refused on the spot.

A tick takes the read loop into `Dial`, which returns with an error, with a
connection, or not at all.  A read returns a whole message, or the head of one
whose rest never comes: the loop then stays in `gather` until the connection
goes, and nothing behind that message has arrived either.

The node answers a call with a value, a value of a type the caller did not ask
for, an error, an empty result or something that does not decode; for the method
`call` the code copies only the output, so an error arrives as an empty result.
An event-log message may fail to unmarshal (`valid`); it is dropped with all its
logs, whose numbers `spoilt` remembers.  The fields of a log are not modelled:
`readResponse` ignores the errors of their hexadecimal decoding.

`RpcCall` is what a caller expects, stated without the client's tables and
conversions: a call is opened or refused, is answered at most once by the node,
and finishes once, with a failure of its own (send error, timeout) or with what
`Promise` says for the node's answer to that call: the result for a value, the
node's error for an error, `NotFound` for an empty result, an error for a value
of another type, and nothing at all for what does not decode.  `Untold` names the
calls for which `NotFound` may also stand for an error; the refinement maps it to
the calls of method `call`.  That this exception is needed is a finding, see the
run `call_errors`.

### ChannelFraming, refining MessageStream

How `readResponse` cuts messages out of the byte stream.  Bytes are counted: a
piece of the stream is the message its first byte belongs to, the offset of that
byte, and a length.  The length field has 4 bytes, the header 42.  Four bytes
that are not the head of a message are read as an arbitrary length, so lost
alignment would show.  Two facts about the peer are assumed, since the code
relies on them: a TLS record holds bytes of one message only, and the first
record of a message has at least the length field.  (Were two messages to come
out of one read, the code would take the second for data of the first.)

`MessageStream` says that per connection the messages come out whole, in order,
once each.  `ChannelClient` takes this for granted when it reads one message per
step.

### Feed

`event/feed.go` to the level of the slice operations: `sendCases` without its
entry 0, the prefix `cases`, the index of the fast path, `find`, `delete`,
`deactivate`.  Values are numbered by the order in which Sends moved the inbox.
Each subscription has a channel of its own with buffer space; `log` records what
was put on it and `since` when it was subscribed.

### KeyUnlock

The map `unlocked` of the keystore.  A call of `TimedUnlock` also names the
entry it stores, as the code stores a new pointer every time.  The goroutine
`expire` has a step for its select (abort or timer) and one for what it does
under the mutex.  `Lock` finds the entry, gives up the mutex, and runs `expire`
with a zero timer.  `SignHash` and `SignTx` only read the map.

### Proof modules

`ChannelClientProofs`, `ChannelAnswers` (which extends it) and
`KeyUnlockProofs`.

## The runs

All runs allow the system to stop (`CHECK_DEADLOCK FALSE`): users need not call
anything, a closed client stays closed, and the bounds end every behaviour.

| run | instance | states | shows |
|---|---|---|---|
| `channel_calls` | 2 calls (one of method `call`), 2 connections | 657k | `TypeOK`; `TableMatchesCalls`: the table holds exactly the calls in flight; `CallsAreRpcCalls`: refinement of `RpcCall` |
| `channel_subs` | 2 registrations of one filter, 2 connections with 3 logs and 1 | 1.0M (symmetry) | `BufferHasOneOwner`, `RegisterNeverBlocksReader`, `LogsContiguous`, `WatchedFiltersAccepted` |
| `channel_liveness` | 1 call, 1 registration, 2 connections, 1 log on the first | 243k | `CallsReturn`, `SubsSettle` |
| `channel_close` | 1 call, 1 registration, 2 connections with 1 log each | 334k | `CloseReturns` |
| `call_errors` | 1 call of method `call`, 1 connection | violated | `NotFoundMeansMissing` does not hold, see below |
| `channel_framing` | 6 ways to cut a message, 3 messages per connection, 2 connections | 6k | `FramesAreMessages`: refinement of `MessageStream`; `WaitsOnlyForItsOwn`; `EveryMessageArrives` |
| `feed_safety` | 3 subscribers, 2 senders, 3 Sends, buffers of 1 | 47k (symmetry) | `TypeOK`, `DeliveredOnce`, `RemovedIsFound`, `SentIsCounted`, `QuietAfterUnsubscribe` |
| `feed_liveness` | 2 subscribers, 2 senders, 3 Sends | 11k | `UnsubscribeReturns`, `SendReturns` |
| `keystore_unlock` | 2 accounts, 4 unlocks, 2 lockers | 141k (symmetry) | `UnlockInv`, `UnlockedKeysUsable`, `AbortClosedOnce`, `LockedIsGone`, `EntriesEndProperly` |
| `keystore_liveness` | 1 account, 3 unlocks, 1 locker | 5k | `TimedUnlockEnds` |

Why these bounds are enough to meet the interesting cases: two calls can cross
ids and answers; two connections give one loss and one reconnection with late
traffic of the first; two registrations of one filter meet in the watcher table;
three logs leave room for one to be missed between two that are taken;
three subscribers put a removed case before, at and behind the edge of the
active prefix; a buffer of one makes Sends block; four unlocks on an account
give a chain of replacements with a stale timer at each link.

Each property comes with a faulty variant of one definition (`NextIDLostUpdate`,
`KeepTimedOut`, `DropsAny`, ...), stated beside the definition it varies, under
which TLC finds the property violated.

### What the channel runs do not promise

- `CallsReturn` holds of a call unless the peer holds up its `Write` for ever
  while the connection stays up: `Write` has no deadline, and the 20 s timer is
  set after it.  From then on the timer bounds the wait.
- `CloseReturns` holds unless the read loop stays for ever inside `Dial`, which
  has no timeout, or in the reads for the rest of a message on a connection it
  dialled when `Close` had closed the other one.  Nobody receives from `exit`
  meanwhile.
- `SubsSettle` speaks of a registration whose answer is on its way over a
  connection that holds, to a read loop that does not wait for ever for the rest
  of another message.
- `LogsContiguous` allows the gaps that messages which do not unmarshal leave,
  and no others.

### Finding

`call_errors` checks what `interfaces.go:29` says, "NotFound is returned by API
methods if the requested item does not exist."  TLC finds the counterexample: for
the method `call`, `readResponse` decodes the node's error (`client/types.go:105`)
and does not copy it (`client/channel.go:214-221`), so `rpcCall` sees neither an
error nor a result and returns `NotFound`.

### Fairness

Safety runs use none.  The liveness runs assume:

- weak fairness of goroutines that can go on (calls under way, read loop, Sends,
  removals, expiry, `Lock`): the Go scheduler runs every runnable goroutine;
- the 20 s timer of a call, and the timer of an unlock, fire;
- strong fairness of `CloseExit`: Go's `select` chooses at random among its ready
  cases, so an `exit` that is ready again and again is taken;
- subscribers keep reading: the code documents that slow subscribers block
  (`event/feed.go:70`), and a log is pushed with a blocking send;
- the node handles what it received, for `SubsSettle` only.

Nothing makes a dial return, let alone succeed, the peer read what is written or
send the rest of a message, a user call, or `Close` happen.

## What is proved

For every value of the constants, from the named assumptions
`ChannelAssumption` (calls and registrations are disjoint, at least one
connection, bounds are naturals) and `UnlockAssumption` (`None` is no call):

| theorem | statement |
|---|---|
| `ChannelClientProofs!TypeCorrect` | `Spec => []TypeOK` |
| `ChannelClientProofs!BufferOwned` | `Spec => []BufferHasOneOwner` |
| `ChannelAnswers!TableCorrect` | `Spec => []TableMatchesCalls` |
| `ChannelAnswers!CallsRefineRpcCall` | `Spec => CallsAreRpcCalls`, the refinement |
| `KeyUnlockProofs!UnlockInvAlways` | `Spec => []UnlockInv` |
| `KeyUnlockProofs!KeysUsable`, `AbortsOnce`, `LockWorks` | `UnlockedKeysUsable`, `AbortClosedOnce`, `LockedIsGone` |
| `KeyUnlockProofs!EntriesEnd` | `Spec => EntriesEndProperly` |

The arguments:

- *Types.* `TypeOK` is inductive together with `ReaderInv`, which ties what the
  read loop holds (`cur`, `dest`) to where it stands: without it, nothing says
  that a message passed on to a caller has an answer in it.
- *Buffer.* A read is started only on the way back to the select, and the select
  consumes its result, so the sum of running and unconsumed reads stays at one.
- *Table.* `TableMatchesCalls` needs `IdInv`: ids are at most the counter, no two
  calls have the same, and the calls in flight have one (a refused call never
  gets any), so the `Delete` of one call takes no other call's entry.
- *Refinement.* `RefInv` has three parts.  `RequestInv`: a request on its way is
  not answered yet, and one that is not written has no answer.  `AnswerInv`:
  every answer on its way, in the inboxes, the result channel or the read loop's
  hands, is what the node answered to the call whose id it carries.  `ReplyInv`:
  what lies in a reply channel is that answer decoded, and what a call is about
  to return is promised for it (`PromiseKept` compares the code's conversions
  with `Promise`).  Then each step is `Open`, `Refuse`, `Answer`, `Finish` or a
  stutter of `RpcCall`.
- *Unlocked keys.* `UnlockInv` says that what is in the map is live (right
  address, key intact, abort open, goroutine waiting if it has a timeout), that
  a call not yet made has left no trace, and that a `Lock` that returned left its
  entry out of the map.  The freshness of calls is what makes the pointer
  comparison in `expire` sound.

Only model-checked: the liveness properties (fairness and `ENABLED` are beyond
the prover), the registrations and logs of the channel client, framing (its
lengths are sums over sequences, which would need induction over data), and the
feed.

## What is not modelled

- Of the channel client: `BlockNotify`, `CheckReceipt`, the heartbeat (it changes
  no state of the client), the wrappers that make one `rpcCall` each.
  `SubEventLogs` has no timer: it waits for ever
  when its answer is lost or read before its channel is stored, so no property
  says that it always returns.
- Of the feed: element types that do not match (a panic), one channel subscribed
  twice, unbuffered channels.
- Of the keystore: files, cache and wallets.
- Parts left out for good: cryptography (256-bit arithmetic, C, assembly), code
  generation, logging, command-line and build tools, transports as such.

## Plan

1. *Block notifications*: the `sync.Once` around a `Send` that may fail, and the
   callback list shared without a lock.  `RegisterNeverBlocksReader` as a theorem.
2. *Events*: `NewSubscription`, `Resubscribe`, `SubscriptionScope`, `TypeMux`;
   theorems for the feed (`RemovedIsFound`, `QuietAfterUnsubscribe`,
   `DeliveredOnce`).
3. *JSON-RPC*: dispatch loop with handler, request hand-over at reconnection,
   `ClientSubscription`, server; refinement of `RpcCall` once more.
4. *Keystore and manager*: account cache with file cache and watcher,
   `refreshWallets`, the update loop with `merge` and `drop`, composed through a
   feed; abstract specification: the listener's wallet list converges to the
   directory.
5. *Bloom bits*: scheduler, distributor, sessions; abstract specification: each
   section delivered once, in order.
6. *Algorithms*: lazy priority queue, simulated clock, RLP sizes and list stack,
   ABI offsets, bit compression, safe arithmetic, against reference definitions.
7. *Polling*: `WaitMined`, `WaitDeployed`, `CheckReceipt`.
