---------------------------- MODULE ChannelFraming ----------------------------
(***************************************************************************)
(* How readResponse cuts messages out of the TLS stream (client/channel.go *)
(* with message.go and utils.go): getMessageLength on the first read, the  *)
(* loop that reads on while bytes are missing, DecodeMessage, and the      *)
(* reconnection.  Bytes are counted, not listed: a piece of the stream is  *)
(* the message its first byte is of, that byte's offset, and a length.     *)
(*                                                                         *)
(* External: the node writes every message on its own, so a TLS record     *)
(* holds bytes of one message, and Read returns what one record holds.     *)
(***************************************************************************)
EXTENDS Naturals, Sequences, SequencesExt

CONSTANTS Splits,     \* ways the node's TLS layer cuts a message: record sizes
          MaxMsgs,    \* bound: messages sent per connection
          MaxConns    \* bound: connections dialled

LengthField == 4      \* bytes of Message.Length

HeaderLength == 42    \* Length, Type, Seq and Result: 4 + 2 + 32 + 4

Size(split) == FoldSeq(LAMBDA x, y : x + y, 0, split)

(* The node sends whole headers, and no TLS layer cuts inside the first four bytes. *)
ASSUME FramingAssumption ==
  /\ MaxMsgs \in Nat /\ MaxConns \in Nat \ {0}
  /\ \A s \in Splits : /\ s \in Seq(Nat \ {0})
                       /\ s[1] >= LengthField
                       /\ Size(s) >= HeaderLength

VARIABLES conn,       \* connections dialled so far
          link,       \* "up" or "down"
          sent,       \* lengths of the messages sent on this connection
          stream,     \* records not yet read
          reader,     \* where readResponse stands
          all,        \* the bytes it has gathered
          totalLen,   \* the length it is waiting for
          handled     \* what it passed on to the switch on msg.Type

vars == <<conn, link, sent, stream, reader, all, totalLen, handled>>

NoBytes == [msg |-> 0, from |-> 0, cnt |-> 0, pure |-> TRUE]

Init ==
  /\ conn = 1
  /\ link = "up"
  /\ sent = <<>>
  /\ stream = <<>>
  /\ reader = "read"
  /\ all = NoBytes
  /\ totalLen = 0
  /\ handled = <<>>

(***************************************************************************)
(* The node and the network (external).                                    *)
(***************************************************************************)
Records(n, split) ==
  [i \in 1..Len(split) |-> [msg |-> n, from |-> Size(SubSeq(split, 1, i - 1)),
                            cnt |-> split[i], pure |-> TRUE]]

NodeSends(split) ==
  /\ link = "up"
  /\ Len(sent) < MaxMsgs
  /\ sent' = Append(sent, Size(split))
  /\ stream' = stream \o Records(Len(sent) + 1, split)
  /\ UNCHANGED <<conn, link, reader, all, totalLen, handled>>

(* The connection goes, with it any part of the end of the stream. *)
LinkDrop ==
  /\ link = "up"
  /\ link' = "down"
  /\ \E k \in 0..Len(stream) : stream' = SubSeq(stream, 1, k)
  /\ UNCHANGED <<conn, sent, reader, all, totalLen, handled>>

(***************************************************************************)
(* getMessageLength and DecodeMessage.                                     *)
(***************************************************************************)
(* The four bytes at the head of a message are its length; four bytes from *)
(* anywhere else are any number, here one that is too small, met or not.   *)
LengthAt(b) == IF b.from = 0 THEN {sent[b.msg]} ELSE {0, b.cnt, b.cnt + 1}

(* Faulty variant: the length field is taken for the length of the data. *)
DataLengthOnly(b) == IF b.cnt < LengthField THEN {0}
                     ELSE {IF n > HeaderLength THEN n - HeaderLength ELSE 0 : n \in LengthAt(b)}

getMessageLength(b) == IF b.cnt < LengthField THEN {0} ELSE LengthAt(b)

(* Everything after the header is data, bytes of later messages included.  *)
(* The result is the message, or none on an error, whichever length is met. *)
DecodeMessage(b) ==
  {IF b.cnt >= HeaderLength /\ b.cnt >= n
   THEN <<IF b.from = 0 /\ b.pure THEN b.cnt ELSE 0>>
   ELSE <<>> : n \in LengthAt(b)}

(* A message that does not decode is dropped and the loop goes on. *)
Handle(b) ==
  /\ reader' = "read"
  /\ \E decoded \in DecodeMessage(b) : handled' = handled \o decoded
  /\ all' = NoBytes
  /\ totalLen' = 0

(***************************************************************************)
(* readResponse.                                                           *)
(***************************************************************************)
ReadFirst ==
  /\ reader = "read"
  /\ stream # <<>>
  /\ stream' = Tail(stream)
  /\ \E n \in getMessageLength(Head(stream)) :
       IF n > Head(stream).cnt
       THEN /\ reader' = "more"
            /\ all' = Head(stream)
            /\ totalLen' = n
            /\ UNCHANGED handled
       ELSE Handle(Head(stream))
  /\ UNCHANGED <<conn, link, sent>>

(* Faulty variant: the loop reads on when the message is complete. *)
MissingOrMet(b) == b.cnt <= totalLen

Missing(b) == b.cnt < totalLen

Gathered == [all EXCEPT !.cnt = @ + Head(stream).cnt,
                        !.pure = @ /\ Head(stream).msg = all.msg]

ReadMore ==
  /\ reader = "more"
  /\ stream # <<>>
  /\ stream' = Tail(stream)
  /\ IF Missing(Gathered)
     THEN all' = Gathered /\ UNCHANGED <<reader, totalLen, handled>>
     ELSE Handle(Gathered)
  /\ UNCHANGED <<conn, link, sent>>

(* The error of the inner Read ends the gathering, not the loop. *)
ReadMoreFails ==
  /\ reader = "more"
  /\ link = "down"
  /\ stream = <<>>
  /\ Handle(all)
  /\ UNCHANGED <<conn, link, sent, stream>>

ReadFails ==
  /\ reader = "read"
  /\ link = "down"
  /\ stream = <<>>
  /\ reader' = "reconnect"
  /\ UNCHANGED <<conn, link, sent, stream, all, totalLen, handled>>

Reconnecte ==
  /\ reader = "reconnect"
  /\ conn < MaxConns
  /\ conn' = conn + 1
  /\ link' = "up"
  /\ sent' = <<>>
  /\ stream' = <<>>
  /\ reader' = "read"
  /\ handled' = <<>>
  /\ UNCHANGED <<all, totalLen>>

Next == \/ \E s \in Splits : NodeSends(s)
        \/ LinkDrop
        \/ ReadFirst \/ ReadMore \/ ReadMoreFails \/ ReadFails \/ Reconnecte

(* The read loop runs; nothing makes the node send or a dial succeed. *)
Fairness == WF_vars(ReadFirst) /\ WF_vars(ReadMore) /\ WF_vars(ReadMoreFails)
            /\ WF_vars(ReadFails)

Spec == Init /\ [][Next]_vars /\ Fairness

------------------------------------------------------------------------------
(* The messages that come out of the byte stream are MessageStream: split  *)
(* over records or cut off by a lost connection, a message is passed on    *)
(* whole and in order or not at all, and none is made of the bytes of two. *)
MS == INSTANCE MessageStream WITH Message <- {Size(s) : s \in Splits}, got <- handled

FramesAreMessages == MS!Spec

(* While the loop waits for more, the message it holds is incomplete: it   *)
(* never waits with a whole message in hand for bytes of the next one.     *)
WaitsOnlyForItsOwn ==
  reader = "more" => /\ all.from = 0 /\ all.pure
                     /\ totalLen = sent[all.msg]
                     /\ all.cnt < totalLen

(* A message sent on a connection that holds is passed on. *)
EveryMessageArrives ==
  \A n \in 1..MaxMsgs : Len(sent) >= n ~> Len(handled) >= n \/ link = "down"
==============================================================================
