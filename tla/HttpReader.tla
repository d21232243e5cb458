------------------------------ MODULE HttpReader ------------------------------
(***************************************************************************)
(* How the bytes of a connection become requests: buffer_, a flat_buffer   *)
(* of at most opts_.max_request_size_ bytes that a session keeps from one  *)
(* async_read to the next (src/http_session.cpp).  The parser is Beast's   *)
(* and external: it takes the head of a request when all of it is in the   *)
(* buffer, moves the body to request_ as it comes, leaves what follows in  *)
(* the buffer, and has limits of its own for head and body.                *)
(*                                                                         *)
(* A peer pipelines its requests; TCP delivers the bytes in pieces of any  *)
(* size, and the stream may end anywhere.  A byte is its place in the      *)
(* stream of all that the peer sends.                                      *)
(***************************************************************************)
EXTENDS Naturals, Sequences, SequencesExt

CONSTANTS
  MaxRequestSize, \* opts_.max_request_size_
  HeaderLimit,    \* header_limit of Beast's parser
  BodyLimit,      \* body_limit of Beast's parser
  Heads,          \* bound: sizes of heads
  Bodies,         \* bound: sizes of bodies
  MaxRequests     \* bound: requests of the connection

(* run() throws for max_request_size_ = 0; a head has bytes. *)
ASSUME ReaderAssumption ==
  /\ MaxRequestSize \in Nat \ {0}
  /\ HeaderLimit \in Nat
  /\ BodyLimit \in Nat
  /\ MaxRequests \in Nat
  /\ Heads \subseteq Nat \ {0}
  /\ Bodies \subseteq Nat

VARIABLES
  reqs,   \* the requests the peer has sent: sizes, and the bytes before them
  recv,   \* how many bytes were received
  over,   \* the stream gives no more: the peer left or the deadline passed
  buf,    \* buffer_
  cur,    \* current_request_id_
  got,    \* bytes of the request that is read: its head and request_.body()
  pc      \* "dispatch", "head", "body": async_read; "process"; "closed"

vars == <<reqs, recv, over, buf, cur, got, pc>>

Size(r) == r.head + r.body

(* How many bytes the peer has sent. *)
Sent == IF reqs = <<>> THEN 0
        ELSE reqs[Len(reqs)].at + Size(reqs[Len(reqs)])

(* n bytes of the stream, from the one after the first b. *)
Stream(b, n) == [i \in 1..n |-> b + i]

Bytes(k) == Stream(reqs[k].at, Size(reqs[k]))

Init ==
  /\ reqs = <<>>
  /\ recv = 0
  /\ over = FALSE
  /\ buf = <<>>
  /\ cur = 0
  /\ got = <<>>
  /\ pc = "dispatch"

(* The peer sends a request, answered or not those before it. *)
PeerSend(h, b) ==
  /\ ~over
  /\ Len(reqs) < MaxRequests
  /\ reqs' = Append(reqs, [head |-> h, body |-> b, at |-> Sent])
  /\ UNCHANGED <<recv, over, buf, cur, got, pc>>

(* The peer leaves or the read deadline passes: what is under way is lost. *)
StreamEnds ==
  /\ ~over
  /\ over' = TRUE
  /\ UNCHANGED <<reqs, recv, buf, cur, got, pc>>

(* Mutant: each read starts with an empty buffer. *)
DoReadEmpty ==
  /\ cur' = cur + 1
  /\ buf' = <<>>
  /\ got' = <<>>
  /\ pc' = "head"

(* doRead(): async_read goes on with what buffer_ holds. *)
DoRead ==
  /\ cur' = cur + 1
  /\ buf' = buf
  /\ got' = <<>>
  /\ pc' = "head"

Run ==
  /\ pc = "dispatch"
  /\ DoRead
  /\ UNCHANGED <<reqs, recv, over>>

(* The read cannot go on with the bytes there are. *)
Short ==
  \/ pc = "head" /\ (cur <= Len(reqs) => Len(buf) < reqs[cur].head)
  \/ pc = "body" /\ buf = <<>> /\ Len(got) < Size(reqs[cur])

(* Mutant: buffer_ is not given its limit. *)
RoomUnlimited == Sent

(* Mutant: what was taken out of buffer_ still counts. *)
RoomUsed == IF recv < MaxRequestSize THEN MaxRequestSize - recv ELSE 0

(* What buffer_ may still take. *)
Room == MaxRequestSize - Len(buf)

(* The stream gives some bytes, no more than the buffer has room for. *)
ReadSome(n) ==
  /\ Short
  /\ ~over
  /\ n <= Room
  /\ n <= Sent - recv
  /\ buf' = buf \o Stream(recv, n)
  /\ recv' = recv + n
  /\ UNCHANGED <<reqs, over, cur, got, pc>>

(* The head is complete and within the limits. *)
ParseHead ==
  /\ pc = "head"
  /\ ~Short
  /\ reqs[cur].head <= HeaderLimit
  /\ reqs[cur].body <= BodyLimit
  /\ got' = SubSeq(buf, 1, reqs[cur].head)
  /\ buf' = SubSeq(buf, reqs[cur].head + 1, Len(buf))
  /\ pc' = "body"
  /\ UNCHANGED <<reqs, recv, over, cur>>

(* What the buffer holds of the body goes to request_. *)
ParseBody ==
  /\ pc = "body"
  /\ buf # <<>>
  /\ Len(got) < Size(reqs[cur])
  /\ LET n == IF Len(buf) < Size(reqs[cur]) - Len(got)
              THEN Len(buf) ELSE Size(reqs[cur]) - Len(got)
     IN got' = got \o SubSeq(buf, 1, n) /\ buf' = SubSeq(buf, n + 1, Len(buf))
  /\ UNCHANGED <<reqs, recv, over, cur, pc>>

(* buffer_overflow, header_limit or body_limit. *)
ReadFails ==
  \/ Short /\ Room = 0
  \/ /\ pc = "head"
     /\ cur <= Len(reqs)
     /\ Len(buf) > HeaderLimit \/ ~Short
     /\ reqs[cur].head > HeaderLimit
  \/ pc = "head" /\ ~Short /\ reqs[cur].body > BodyLimit

(* onRead with an error, end_of_stream and timeout included: doClose(). *)
OnReadError ==
  /\ ReadFails \/ (Short /\ over)
  /\ pc' = "closed"
  /\ UNCHANGED <<reqs, recv, over, buf, cur, got>>

(* onRead: the request is there, and processRequest() gets it. *)
OnRead ==
  /\ pc = "body"
  /\ Len(got) = Size(reqs[cur])
  /\ pc' = "process"
  /\ UNCHANGED <<reqs, recv, over, buf, cur, got>>

(* The request is answered, the response written and the connection kept:   *)
(* onWrite reads the next request.                                         *)
OnWrite ==
  /\ pc = "process"
  /\ DoRead
  /\ UNCHANGED <<reqs, recv, over>>

(* The write fails or times out, or the connection is not kept: onWrite     *)
(* closes it.                                                              *)
OnWriteClose ==
  /\ pc = "process"
  /\ pc' = "closed"
  /\ UNCHANGED <<reqs, recv, over, buf, cur, got>>

Read ==
  \/ Run
  \/ \E n \in 1..MaxRequestSize : ReadSome(n)
  \/ ParseHead
  \/ ParseBody
  \/ OnReadError
  \/ OnRead

Next ==
  \/ \E h \in Heads, b \in Bodies : PeerSend(h, b)
  \/ StreamEnds
  \/ Read
  \/ OnWrite
  \/ OnWriteClose

Spec == Init /\ [][Next]_vars

(* The io_context runs what is ready, and TCP delivers what was sent; that a  *)
(* request is ever answered is not assumed.                                *)
FairSpec == Spec /\ WF_vars(Read)

-----------------------------------------------------------------------------
(* PROPERTIES *)

(* Types; the buffer never outgrows max_request_size_, and no byte is       *)
(* received that was not sent.                                             *)
TypeOK ==
  /\ reqs \in Seq([head : Heads, body : Bodies, at : Nat])
  /\ Len(reqs) <= MaxRequests
  /\ recv \in 0..Sent
  /\ over \in BOOLEAN
  /\ buf \in Seq(Nat)
  /\ Len(buf) <= MaxRequestSize
  /\ cur \in 0..Len(reqs) + 1
  /\ got \in Seq(Nat)
  /\ pc \in {"dispatch", "head", "body", "process", "closed"}

(* However the bytes of pipelined requests are cut and wherever reads end,   *)
(* each request is made of its own bytes, all in their order.              *)
OwnBytes ==
  /\ IsPrefix(got, IF cur \in DOMAIN reqs THEN Bytes(cur) ELSE <<>>)
  /\ pc = "process" => got = Bytes(cur)

(* A request that can be read: its head fits buffer_, and the parser takes it. *)
Readable(r) ==
  /\ r.head <= MaxRequestSize
  /\ r.head <= HeaderLimit
  /\ r.body <= BodyLimit

(* A request within all limits, the documented one of its length included. *)
Allowed(r) == Readable(r) /\ Size(r) <= MaxRequestSize

(* A request within the limits that is being read is handed to               *)
(* processRequest() while the stream lasts: what came before it or is       *)
(* pipelined behind it, and how the stream is cut, never makes the reader  *)
(* wait for ever.                                                          *)
RequestRead ==
  \A k \in 1..MaxRequests :
    /\ cur = k /\ pc \in {"head", "body"}
    /\ k \in DOMAIN reqs /\ Allowed(reqs[k])
    ~> (cur = k /\ pc = "process") \/ over

(* While the stream lasts a read closes the connection for the request that  *)
(* is being read and no other: what was read before or is behind it in     *)
(* buffer_, too big or not, never makes the read of one within the limits  *)
(* fail.                                                                   *)
ClosedForCause ==
  [][pc' = "closed" /\ pc \in {"head", "body"} /\ ~over =>
       cur \in DOMAIN reqs /\ ~Allowed(reqs[cur])]_vars

(* "http request max length, if it overflow, will close the connection": of  *)
(* max_request_size_ that holds for the head of a request that is          *)
(* processed, however it came; its body is limited by the parser alone.    *)
LengthLimited == pc = "process" => Readable(reqs[cur])
=============================================================================
