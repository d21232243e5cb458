--------------------------- MODULE HttpReaderProofs ---------------------------
(***************************************************************************)
(* Proofs about HttpReader, for every size of the buffer, all limits of    *)
(* the parser, and any number of requests of any size, cut in any way.     *)
(***************************************************************************)
EXTENDS HttpReader, TLAPS

Request == [head : Heads, body : Bodies, at : Nat]

(* Where request k begins, the first that was not sent yet included. *)
Begins(k) == IF k <= Len(reqs) THEN reqs[k].at ELSE Sent

(* The peer's requests follow one another in the stream. *)
Layout ==
  /\ Begins(1) = 0
  /\ \A k \in 1..Len(reqs) : Begins(k + 1) = Begins(k) + Size(reqs[k])

(* How much of the stream was taken out of buffer_. *)
Used == IF cur = 0 THEN 0 ELSE Begins(cur) + Len(got)

(* OwnBytes is not inductive: what the next request will be made of is      *)
(* already in buffer_, which must hold the received bytes from the first   *)
(* one that was not used on, and a read begins where its request begins.   *)
Position ==
  /\ recv = Used + Len(buf)
  /\ \A i \in 1..Len(buf) : buf[i] = Used + i
  /\ \A i \in 1..Len(got) : got[i] = Begins(cur) + i
  /\ Len(got) <= IF cur \in 1..Len(reqs) THEN Size(reqs[cur]) ELSE 0

(* How far the read has come. *)
Stage ==
  /\ pc = "dispatch" => cur = 0
  /\ pc = "head" => cur # 0 /\ got = <<>>
  /\ pc \in {"body", "process"} => cur \in 1..Len(reqs) /\ Readable(reqs[cur])
  /\ pc = "process" => Len(got) = Size(reqs[cur])

Inv == TypeOK /\ Layout /\ Position /\ Stage

-----------------------------------------------------------------------------
(* THE STREAM *)

(* The fields of a request are numbers, and it has bytes. *)
LEMMA RequestNumbers ==
  ASSUME NEW r \in Request
  PROVE  /\ r.head \in Nat \ {0}
         /\ r.body \in Nat
         /\ r.at \in Nat
         /\ Size(r) \in Nat \ {0}
<1>1. r.head \in Heads /\ r.body \in Bodies /\ r.at \in Nat BY DEF Request
<1>2. r.head \in Nat \ {0} /\ r.body \in Nat BY <1>1, ReaderAssumption
<1> QED BY <1>1, <1>2 DEF Size

(* So are the requests of the stream, where they begin and what was sent. *)
LEMMA Numbers ==
  ASSUME TypeOK
  PROVE  /\ Len(reqs) \in Nat
         /\ \A k \in 1..Len(reqs) :
              /\ reqs[k] \in Request
              /\ reqs[k].head \in Nat \ {0}
              /\ reqs[k].body \in Nat
              /\ reqs[k].at \in Nat
              /\ Size(reqs[k]) \in Nat \ {0}
         /\ Sent \in Nat
         /\ \A k \in Nat \ {0} : Begins(k) \in Nat
<1>0. reqs \in Seq(Request)
  BY DEF TypeOK, Request
<1>1. /\ Len(reqs) \in Nat
      /\ \A k \in 1..Len(reqs) : reqs[k] \in Request
  BY <1>0
<1>2. \A k \in 1..Len(reqs) :
        /\ reqs[k].head \in Nat \ {0}
        /\ reqs[k].body \in Nat
        /\ reqs[k].at \in Nat
        /\ Size(reqs[k]) \in Nat \ {0}
  BY <1>1, RequestNumbers
<1>3. Sent \in Nat
  <2>1. CASE reqs = <<>> BY <2>1 DEF Sent
  <2>2. CASE reqs # <<>>
    <3>1. Len(reqs) \in 1..Len(reqs) BY <1>0, <2>2
    <3> QED BY <1>2, <2>2, <3>1 DEF Sent
  <2> QED BY <2>1, <2>2
<1> QED BY <1>1, <1>2, <1>3 DEF Begins

(* n bytes of the stream after the first b. *)
LEMMA StreamOf ==
  ASSUME NEW b \in Nat, NEW n \in Nat
  PROVE  /\ Stream(b, n) \in Seq(Nat)
         /\ Len(Stream(b, n)) = n
         /\ \A i \in 1..n : Stream(b, n)[i] = b + i
BY DEF Stream

(* PeerSend() leaves where the requests begin, and begins its own at the end. *)
LEMMA PeerSends ==
  ASSUME TypeOK, Layout, NEW h \in Heads, NEW b \in Bodies, PeerSend(h, b)
  PROVE  /\ reqs' \in Seq(Request)
         /\ Len(reqs') = Len(reqs) + 1
         /\ \A k \in 1..Len(reqs) : reqs'[k] = reqs[k]
         /\ \A k \in 1..Len(reqs) + 1 : Begins(k)' = Begins(k)
         /\ Sent' >= Sent
         /\ Layout'
<1> DEFINE r == [head |-> h, body |-> b, at |-> Sent]
<1>1. r \in Request BY Numbers DEF Request
<1>2. reqs \in Seq(Request) /\ reqs' = Append(reqs, r)
  BY DEF TypeOK, Request, PeerSend
<1>3. /\ r.at = Sent /\ r.head = h /\ r.body = b
      /\ Size(r) \in Nat
  BY ReaderAssumption DEF Size
<1> HIDE DEF r
<1>4. /\ reqs' \in Seq(Request)
      /\ Len(reqs') = Len(reqs) + 1
      /\ \A k \in 1..Len(reqs) : reqs'[k] = reqs[k]
      /\ reqs'[Len(reqs) + 1] = r
      /\ Len(reqs) \in Nat
      /\ reqs' # <<>>
  BY <1>1, <1>2
<1>5. Sent' = Sent + Size(r)
  BY <1>3, <1>4 DEF Sent
<1>6. \A k \in 1..Len(reqs) + 1 : Begins(k)' = Begins(k)
  BY <1>3, <1>4 DEF Begins
<1>7. Begins(Len(reqs) + 1) = Sent
  BY <1>4 DEF Begins
<1>8. Layout'
  <2>1. Begins(1)' = 0 BY <1>4, <1>6 DEF Layout
  <2>2. ASSUME NEW k \in 1..Len(reqs')
        PROVE  Begins(k + 1)' = Begins(k)' + Size(reqs'[k])
    <3>1. CASE k \in 1..Len(reqs) BY <1>4, <1>6, <3>1 DEF Layout
    <3>2. CASE k = Len(reqs) + 1
      <4>1. k + 1 = Len(reqs) + 2 BY <1>4, <3>2
      <4>2. Begins(k + 1)' = Sent' BY <1>4, <4>1 DEF Begins
      <4>3. Begins(k)' = Sent BY <1>4, <1>6, <1>7, <3>2
      <4> QED BY <1>4, <1>5, <3>2, <4>2, <4>3
    <3> QED BY <1>4, <2>2, <3>1, <3>2
  <2> QED BY <2>1, <2>2 DEF Layout
<1> QED BY <1>3, <1>4, <1>5, <1>6, <1>8, Numbers

(* A step of the reader leaves the requests where they are. *)
LEMMA SameLayout ==
  ASSUME UNCHANGED reqs
  PROVE  /\ Sent' = Sent
         /\ \A k : Begins(k)' = Begins(k)
         /\ Layout => Layout'
BY DEF Sent, Begins, Layout

-----------------------------------------------------------------------------
(* THE READER *)

(* Numbers of the reader. *)
LEMMA ReaderNumbers ==
  ASSUME Inv
  PROVE  /\ recv \in Nat /\ cur \in Nat
         /\ Len(buf) \in Nat /\ Len(got) \in Nat
         /\ cur # 0 => Begins(cur) \in Nat
         /\ Used \in Nat
<1>1. /\ recv \in Nat /\ cur \in Nat
      /\ Len(buf) \in Nat /\ Len(got) \in Nat
  BY Numbers DEF Inv, TypeOK
<1>2. cur # 0 => Begins(cur) \in Nat BY <1>1, Numbers DEF Inv
<1> QED BY <1>1, <1>2 DEF Used

(* Bytes of the stream in a sequence that begins after the first b of them. *)
LEMMA TakeDrop ==
  ASSUME NEW s \in Seq(Nat), NEW b \in Nat, \A i \in 1..Len(s) : s[i] = b + i,
         NEW n \in 0..Len(s)
  PROVE  /\ SubSeq(s, 1, n) \in Seq(Nat) /\ Len(SubSeq(s, 1, n)) = n
         /\ \A i \in 1..n : SubSeq(s, 1, n)[i] = b + i
         /\ SubSeq(s, n + 1, Len(s)) \in Seq(Nat)
         /\ Len(SubSeq(s, n + 1, Len(s))) = Len(s) - n
         /\ \A i \in 1..Len(s) - n : SubSeq(s, n + 1, Len(s))[i] = (b + n) + i
<1>1. /\ SubSeq(s, 1, n) \in Seq(Nat) /\ Len(SubSeq(s, 1, n)) = n
      /\ \A i \in 1..n : SubSeq(s, 1, n)[i] = s[i]
  OBVIOUS
<1>2. /\ SubSeq(s, n + 1, Len(s)) \in Seq(Nat)
      /\ Len(SubSeq(s, n + 1, Len(s))) = Len(s) - n
      /\ \A i \in 1..Len(s) - n : SubSeq(s, n + 1, Len(s))[i] = s[n + i]
  OBVIOUS
<1>3. \A i \in 1..n : SubSeq(s, 1, n)[i] = b + i BY <1>1
<1>4. ASSUME NEW i \in 1..Len(s) - n PROVE SubSeq(s, n + 1, Len(s))[i] = (b + n) + i
  <2>1. n + i \in 1..Len(s) OBVIOUS
  <2>2. s[n + i] = b + (n + i) BY <2>1
  <2> QED BY <1>2, <2>2
<1> QED BY <1>1, <1>2, <1>3, <1>4

(* Bytes of the stream put together are bytes of the stream. *)
LEMMA Joined ==
  ASSUME NEW s \in Seq(Nat), NEW b \in Nat, \A i \in 1..Len(s) : s[i] = b + i,
         NEW u \in Seq(Nat), \A i \in 1..Len(u) : u[i] = (b + Len(s)) + i
  PROVE  /\ s \o u \in Seq(Nat)
         /\ Len(s \o u) = Len(s) + Len(u)
         /\ \A i \in 1..Len(s \o u) : (s \o u)[i] = b + i
<1>1. /\ s \o u \in Seq(Nat)
      /\ Len(s \o u) = Len(s) + Len(u)
      /\ Len(s) \in Nat /\ Len(u) \in Nat
  OBVIOUS
<1>2. ASSUME NEW i \in 1..Len(s) + Len(u) PROVE (s \o u)[i] = b + i
  <2>1. CASE i <= Len(s) BY <2>1
  <2>2. CASE i > Len(s)
    <3>1. i - Len(s) \in 1..Len(u) BY <1>1, <2>2
    <3>2. (s \o u)[i] = u[i - Len(s)] BY <1>1, <2>2
    <3>3. u[i - Len(s)] = (b + Len(s)) + (i - Len(s)) BY <3>1
    <3> QED BY <1>1, <3>2, <3>3
  <2> QED BY <1>1, <2>1, <2>2
<1> QED BY <1>1, <1>2

-----------------------------------------------------------------------------
(* THE STEPS *)

(* A request that is sent is behind all that were received. *)
LEMMA PeerSendInv ==
  ASSUME Inv, NEW h \in Heads, NEW b \in Bodies, PeerSend(h, b)
  PROVE  Inv'
<1>1. /\ reqs' \in Seq(Request)
      /\ Len(reqs') = Len(reqs) + 1
      /\ \A k \in 1..Len(reqs) : reqs'[k] = reqs[k]
      /\ \A k \in 1..Len(reqs) + 1 : Begins(k)' = Begins(k)
      /\ Sent' >= Sent
      /\ Layout'
  BY PeerSends DEF Inv
<1>2. /\ UNCHANGED <<recv, over, buf, cur, got, pc>>
      /\ Len(reqs) < MaxRequests
      /\ Len(reqs) \in Nat /\ Sent \in Nat
  BY Numbers DEF PeerSend, Inv
<1>3. Sent' \in Nat /\ recv \in 0..Sent'
  <2>1. Sent' \in Int
    <3>1. reqs' # <<>> /\ Len(reqs') \in 1..Len(reqs') BY <1>1, <1>2
    <3>2. reqs'[Len(reqs')] \in Request BY <1>1, <3>1
    <3> QED BY <3>1, <3>2, RequestNumbers DEF Sent
  <2> QED BY <1>1, <1>2, <2>1 DEF Inv, TypeOK
<1>4. TypeOK'
  <2>1. reqs' \in Seq([head : Heads, body : Bodies, at : Nat]) BY <1>1 DEF Request
  <2>2. Len(reqs') <= MaxRequests BY <1>1, <1>2, ReaderAssumption
  <2>3. cur' \in 0..Len(reqs') + 1 BY <1>1, <1>2 DEF Inv, TypeOK
  <2> QED BY <1>2, <1>3, <2>1, <2>2, <2>3 DEF Inv, TypeOK
<1>5. cur # 0 => Begins(cur)' = Begins(cur) BY <1>1, <1>2 DEF Inv, TypeOK
<1>6. Used' = Used BY <1>2, <1>5 DEF Used
<1>7. Position'
  <2>1. \A i \in 1..Len(got) : got[i] = Begins(cur)' + i
    <3>1. CASE cur = 0 BY <3>1, <1>2 DEF Inv, Position, TypeOK
    <3>2. CASE cur # 0 BY <3>2, <1>5 DEF Inv, Position
    <3> QED BY <3>1, <3>2
  <2>2. Len(got') <= IF cur' \in 1..Len(reqs') THEN Size(reqs'[cur']) ELSE 0
    <3>1. CASE cur \in 1..Len(reqs) BY <1>1, <1>2, <3>1 DEF Inv, Position
    <3>2. CASE cur \notin 1..Len(reqs)
      <4>1. Len(got) <= 0 BY <3>2 DEF Inv, Position
      <4>2. cur \in 1..Len(reqs') => Size(reqs'[cur]) \in Nat BY <1>1, RequestNumbers
      <4> QED BY <1>2, <4>1, <4>2, ReaderNumbers
    <3> QED BY <3>1, <3>2
  <2> QED BY <1>2, <1>6, <2>1, <2>2 DEF Inv, Position
<1>8. Stage' BY <1>1, <1>2 DEF Inv, Stage
<1> QED BY <1>1, <1>4, <1>7, <1>8 DEF Inv

(* doRead() begins a request where the one before it ended. *)
LEMMA DoReadInv ==
  ASSUME Inv, DoRead, UNCHANGED <<reqs, recv, over>>,
         \/ pc = "dispatch"
         \/ pc = "process"
  PROVE  Inv'
<1>1. Sent' = Sent /\ (\A k : Begins(k)' = Begins(k)) /\ Layout'
  BY SameLayout DEF Inv
<1>2. cur' = cur + 1 /\ buf' = buf /\ got' = <<>> /\ pc' = "head" BY DEF DoRead
<1>3. cur \in 0..Len(reqs) BY Numbers DEF Inv, Stage
<1>4. cur' \in 1..Len(reqs) + 1 BY <1>2, <1>3, Numbers DEF Inv
<1>5. TypeOK' BY <1>1, <1>2, <1>4, Numbers DEF Inv, TypeOK
<1>6. Begins(cur + 1) = Used
  <2>1. CASE pc = "dispatch" BY <2>1, ReaderNumbers DEF Inv, Stage, Layout, Used
  <2>2. CASE pc = "process"
    <3>1. cur \in 1..Len(reqs) /\ Len(got) = Size(reqs[cur]) BY <2>2 DEF Inv, Stage
    <3>2. cur # 0 BY <3>1, Numbers DEF Inv
    <3> QED BY <3>1, <3>2 DEF Inv, Layout, Used
  <2> QED BY <2>1, <2>2
<1>7. Used' = Used
  <2>1. cur' # 0 /\ Len(got') = 0 BY <1>2, <1>4, Numbers DEF Inv
  <2>2. Used' = Begins(cur + 1) + 0 BY <1>1, <1>2, <2>1 DEF Used
  <2> QED BY <1>6, <2>2, ReaderNumbers
<1>8. Position'
  <2>1. Len(got') = 0 BY <1>2
  <2>2. Len(got') <= IF cur' \in 1..Len(reqs') THEN Size(reqs'[cur']) ELSE 0
    BY <2>1, Numbers DEF Inv
  <2>3. \A i \in 1..Len(got') : got'[i] = Begins(cur)' + i BY <2>1
  <2> QED BY <1>2, <1>7, <2>2, <2>3 DEF Inv, Position
<1>9. Stage' BY <1>2, <1>4, Numbers DEF Inv, Stage
<1> QED BY <1>1, <1>5, <1>8, <1>9 DEF Inv

(* What is received goes behind what buffer_ holds. *)
LEMMA ReadSomeInv ==
  ASSUME Inv, NEW n \in 1..MaxRequestSize, ReadSome(n)
  PROVE  Inv'
<1>1. Sent' = Sent /\ (\A k : Begins(k)' = Begins(k)) /\ Layout'
  BY SameLayout DEF Inv, ReadSome
<1>2. /\ buf' = buf \o Stream(recv, n) /\ recv' = recv + n
      /\ n <= MaxRequestSize - Len(buf) /\ n <= Sent - recv
      /\ UNCHANGED <<reqs, over, cur, got, pc>>
  BY DEF ReadSome, Room
<1>3. n \in Nat /\ Sent \in Nat BY ReaderAssumption, Numbers DEF Inv
<1>4. /\ Stream(recv, n) \in Seq(Nat) /\ Len(Stream(recv, n)) = n
      /\ \A i \in 1..n : Stream(recv, n)[i] = (Used + Len(buf)) + i
  BY <1>3, StreamOf, ReaderNumbers DEF Inv, Position
<1>5. /\ buf' \in Seq(Nat) /\ Len(buf') = Len(buf) + n
      /\ \A i \in 1..Len(buf') : buf'[i] = Used + i
  <2>1. buf \in Seq(Nat) /\ \A i \in 1..Len(buf) : buf[i] = Used + i
    BY DEF Inv, TypeOK, Position
  <2>2. Used \in Nat BY ReaderNumbers
  <2> DEFINE u == Stream(recv, n)
  <2>3. u \in Seq(Nat) /\ Len(u) = n /\ \A i \in 1..Len(u) : u[i] = (Used + Len(buf)) + i
    BY <1>4
  <2> HIDE DEF u
  <2>4. /\ buf \o u \in Seq(Nat) /\ Len(buf \o u) = Len(buf) + Len(u)
        /\ \A i \in 1..Len(buf \o u) : (buf \o u)[i] = Used + i
    BY <2>1, <2>2, <2>3, Joined, Zenon
  <2>5. buf' = buf \o u BY <1>2 DEF u
  <2> QED BY <2>3, <2>4, <2>5
<1>6. Used' = Used BY <1>1, <1>2 DEF Used
<1>7. TypeOK' BY <1>1, <1>2, <1>3, <1>5, ReaderNumbers, ReaderAssumption DEF Inv, TypeOK
<1>8. Position'
  <2>1. recv' = Used' + Len(buf')
    BY <1>2, <1>3, <1>5, <1>6, ReaderNumbers DEF Inv, Position
  <2>2. Begins(cur)' = Begins(cur) BY <1>1, <1>2
  <2> QED BY <1>2, <1>5, <1>6, <2>1, <2>2 DEF Inv, Position
<1>9. Stage' BY <1>2 DEF Inv, Stage
<1> QED BY <1>1, <1>7, <1>8, <1>9 DEF Inv

(* What the parser takes out of buffer_ is what the request goes on with. *)
LEMMA TakeInv ==
  ASSUME Inv, cur \in 1..Len(reqs), NEW n \in 0..Len(buf),
         Len(got) + n <= Size(reqs[cur]),
         got' = got \o SubSeq(buf, 1, n),
         buf' = SubSeq(buf, n + 1, Len(buf)),
         UNCHANGED <<reqs, recv, over, cur>>, pc' = "body"
  PROVE  TypeOK' /\ Layout' /\ Position'
<1>1. Sent' = Sent /\ (\A k : Begins(k)' = Begins(k)) /\ Layout'
  BY SameLayout DEF Inv
<1>2. /\ cur # 0 /\ Used = Begins(cur) + Len(got)
      /\ n \in Nat /\ n <= Len(buf)
  BY ReaderNumbers, Numbers DEF Inv, Used
<1>3. buf \in Seq(Nat) /\ \A i \in 1..Len(buf) : buf[i] = Used + i
  BY DEF Inv, TypeOK, Position
<1> DEFINE u == SubSeq(buf, 1, n)
           v == SubSeq(buf, n + 1, Len(buf))
<1>4. /\ u \in Seq(Nat) /\ Len(u) = n
      /\ \A i \in 1..n : u[i] = Used + i
      /\ v \in Seq(Nat) /\ Len(v) = Len(buf) - n
      /\ \A i \in 1..Len(buf) - n : v[i] = (Used + n) + i
  <2>1. Used \in Nat BY ReaderNumbers
  <2> QED BY <1>3, <2>1, TakeDrop, Zenon
<1>5. got' = got \o u /\ buf' = v OBVIOUS
<1> HIDE DEF u, v
<1>6. /\ Len(buf') = Len(buf) - n /\ recv = Used + Len(buf)
       /\ Len(buf) <= MaxRequestSize
  BY <1>4, <1>5 DEF Inv, TypeOK, Position
<1>7. Len(buf) \in Nat /\ Used \in Nat BY ReaderNumbers
<1>8. got \in Seq(Nat) /\ \A i \in 1..Len(got) : got[i] = Begins(cur) + i
  BY DEF Inv, TypeOK, Position
<1>9. /\ got' \in Seq(Nat) /\ Len(got') = Len(got) + n
      /\ \A i \in 1..Len(got') : got'[i] = Begins(cur) + i
  <2>1. Begins(cur) \in Nat BY <1>2, ReaderNumbers
  <2>2. \A i \in 1..Len(u) : u[i] = (Begins(cur) + Len(got)) + i BY <1>2, <1>4
  <2>3. /\ got \o u \in Seq(Nat) /\ Len(got \o u) = Len(got) + Len(u)
        /\ \A i \in 1..Len(got \o u) : (got \o u)[i] = Begins(cur) + i
    BY <1>4, <1>8, <2>1, <2>2, Joined, Zenon
  <2> QED BY <1>4, <1>5, <2>3
<1>10. Begins(cur)' = Begins(cur) BY <1>1
<1>11. Used' = Used + n BY <1>2, <1>9, <1>10, ReaderNumbers DEF Used
<1>12. TypeOK'
  <2>1. buf' \in Seq(Nat) /\ Len(buf') <= MaxRequestSize
    <3>1. buf' \in Seq(Nat) BY <1>4, <1>5, Zenon
    <3>2. Len(buf') <= MaxRequestSize BY <1>2, <1>6, <1>7, ReaderAssumption
    <3> QED BY <3>1, <3>2
  <2> QED BY <1>1, <1>9, <2>1 DEF Inv, TypeOK
<1>13. Position'
  <2>1. recv' = Used' + Len(buf')
    BY <1>2, <1>11, <1>6, <1>7
  <2>2. \A i \in 1..Len(buf') : buf'[i] = Used' + i BY <1>4, <1>11, <1>5
  <2>3. \A i \in 1..Len(got') : got'[i] = Begins(cur)' + i BY <1>9, <1>10
  <2>4. Len(got') <= IF cur' \in 1..Len(reqs') THEN Size(reqs'[cur']) ELSE 0
    BY <1>9
  <2> QED BY <2>1, <2>2, <2>3, <2>4 DEF Position
<1> QED BY <1>1, <1>12, <1>13

(* A head is taken only when all of it is in buffer_. *)
LEMMA ParseHeadInv ==
  ASSUME Inv, ParseHead
  PROVE  Inv'
<1>1. /\ pc = "head" /\ cur # 0 /\ got = <<>>
      /\ cur <= Len(reqs) /\ ~(Len(buf) < reqs[cur].head)
  BY DEF Inv, Stage, ParseHead, Short
<1>2. cur \in 1..Len(reqs) BY <1>1, ReaderNumbers, Numbers DEF Inv
<1>3. /\ reqs[cur].head \in 0..Len(buf)
      /\ reqs[cur].head <= Size(reqs[cur])
      /\ reqs[cur].head \in Nat
  BY <1>1, <1>2, ReaderNumbers, Numbers DEF Inv, Size
<1>4. got' = got \o SubSeq(buf, 1, reqs[cur].head)
  <2>1. SubSeq(buf, 1, reqs[cur].head) \in Seq(Nat) BY <1>3 DEF Inv, TypeOK
  <2> QED BY <1>1, <2>1 DEF ParseHead
<1>5. Len(got) + reqs[cur].head <= Size(reqs[cur])
  <2>1. Len(got) = 0 BY <1>1
  <2> QED BY <1>3, <2>1
<1>6. TypeOK' /\ Layout' /\ Position'
  BY <1>2, <1>3, <1>4, <1>5, TakeInv DEF ParseHead
<1>7. reqs[cur].head <= MaxRequestSize
  BY <1>3, ReaderNumbers, ReaderAssumption DEF Inv, TypeOK
<1>8. Stage' BY <1>2, <1>7 DEF ParseHead, Stage, Readable
<1> QED BY <1>6, <1>8 DEF Inv

(* No more is taken than the body still needs. *)
LEMMA ParseBodyInv ==
  ASSUME Inv, ParseBody
  PROVE  Inv'
<1>1. /\ cur \in 1..Len(reqs) /\ Len(got) < Size(reqs[cur]) /\ pc = "body"
      /\ Size(reqs[cur]) \in Nat
  BY Numbers DEF Inv, Stage, ParseBody
<1> DEFINE n == IF Len(buf) < Size(reqs[cur]) - Len(got)
                THEN Len(buf) ELSE Size(reqs[cur]) - Len(got)
<1>2. /\ got' = got \o SubSeq(buf, 1, n)
      /\ buf' = SubSeq(buf, n + 1, Len(buf))
      /\ UNCHANGED <<reqs, recv, over, cur, pc>>
  BY DEF ParseBody
<1>3. n \in 0..Len(buf) /\ Len(got) + n <= Size(reqs[cur]) BY <1>1, ReaderNumbers
<1> HIDE DEF n
<1>4. TypeOK' /\ Layout' /\ Position' BY <1>1, <1>2, <1>3, TakeInv
<1>5. Stage' BY <1>1, <1>2 DEF Inv, Stage
<1> QED BY <1>4, <1>5 DEF Inv

(* A step that moves no byte. *)
LEMMA QuietInv ==
  ASSUME Inv, UNCHANGED <<reqs, recv, buf, cur, got>>, over' \in BOOLEAN,
         \/ pc' = pc
         \/ pc' = "closed"
         \/ pc = "body" /\ Len(got) = Size(reqs[cur]) /\ pc' = "process"
  PROVE  Inv'
<1>1. Sent' = Sent /\ (\A k : Begins(k)' = Begins(k)) /\ Layout'
  BY SameLayout DEF Inv
<1>2. Used' = Used /\ Begins(cur)' = Begins(cur) BY <1>1 DEF Used
<1>3. TypeOK' BY <1>1 DEF Inv, TypeOK
<1>4. Position' BY <1>2 DEF Inv, Position
<1>5. Stage' BY DEF Inv, Stage
<1> QED BY <1>1, <1>3, <1>4, <1>5 DEF Inv

-----------------------------------------------------------------------------
(* THEOREMS *)

(* At the start. *)
LEMMA InvInit == Init => Inv
<1> SUFFICES ASSUME Init PROVE Inv OBVIOUS
<1>1. Sent = 0 /\ Len(reqs) = 0 /\ Len(buf) = 0 /\ Len(got) = 0 BY DEF Init, Sent
<1>2. TypeOK
  <2>1. reqs \in Seq([head : Heads, body : Bodies, at : Nat]) BY DEF Init
  <2>2. over \in BOOLEAN BY Zenon DEF Init
  <2>3. buf \in Seq(Nat) /\ got \in Seq(Nat) BY DEF Init
  <2>4. recv \in 0..Sent /\ cur \in 0..Len(reqs) + 1 BY <1>1 DEF Init
  <2>5. Len(reqs) <= MaxRequests /\ Len(buf) <= MaxRequestSize
    BY <1>1, ReaderAssumption
  <2>6. pc = "dispatch" BY DEF Init
  <2> QED BY <2>1, <2>2, <2>3, <2>4, <2>5, <2>6 DEF TypeOK
<1>3. Layout BY <1>1 DEF Layout, Begins
<1>4. Position BY <1>1 DEF Init, Position, Used
<1>5. Stage BY DEF Init, Stage
<1> QED BY <1>2, <1>3, <1>4, <1>5 DEF Inv

(* Every step keeps the invariant. *)
LEMMA InvStep == Inv /\ [Next]_vars => Inv'
<1> SUFFICES ASSUME Inv, [Next]_vars PROVE Inv' OBVIOUS
<1>1. ASSUME NEW h \in Heads, NEW b \in Bodies, PeerSend(h, b) PROVE Inv'
  BY <1>1, PeerSendInv
<1>2. CASE StreamEnds BY <1>2, QuietInv DEF StreamEnds
<1>3. CASE Run BY <1>3, DoReadInv DEF Run
<1>4. ASSUME NEW n \in 1..MaxRequestSize, ReadSome(n) PROVE Inv'
  BY <1>4, ReadSomeInv
<1>5. CASE ParseHead BY <1>5, ParseHeadInv
<1>6. CASE ParseBody BY <1>6, ParseBodyInv
<1>7. CASE OnReadError
  <2>1. over' \in BOOLEAN BY <1>7 DEF OnReadError, Inv, TypeOK
  <2> QED BY <1>7, <2>1, QuietInv DEF OnReadError
<1>8. CASE OnRead
  <2>1. over' \in BOOLEAN BY <1>8 DEF OnRead, Inv, TypeOK
  <2> QED BY <1>8, <2>1, QuietInv DEF OnRead
<1>9. CASE OnWrite BY <1>9, DoReadInv DEF OnWrite
<1>10. CASE UNCHANGED vars
  <2>1. over' \in BOOLEAN BY <1>10 DEF vars, Inv, TypeOK
  <2> QED BY <1>10, <2>1, QuietInv DEF vars
<1>11. CASE OnWriteClose
  <2>1. over' \in BOOLEAN BY <1>11 DEF OnWriteClose, Inv, TypeOK
  <2> QED BY <1>11, <2>1, QuietInv DEF OnWriteClose
<1> QED BY <1>1, <1>2, <1>3, <1>4, <1>5, <1>6, <1>7, <1>8, <1>9, <1>10, <1>11
     DEF Next, Read

(* The inductive invariant: buffer_ holds the bytes that were received and   *)
(* not used, from where the reader stands in the requests of the peer.     *)
THEOREM InvCorrect == Spec => []Inv
BY InvInit, InvStep, PTL DEF Spec

(* Types: buffer_ never outgrows max_request_size_, whatever is sent. *)
THEOREM TypeCorrect == Spec => []TypeOK
<1>1. Inv => TypeOK BY DEF Inv
<1> QED BY <1>1, InvCorrect, PTL

(* Every request is made of its own bytes, however requests are pipelined    *)
(* and cut, wherever a read ends and whatever async_read left in buffer_.  *)
THEOREM OwnBytesCorrect == Spec => []OwnBytes
<1>1. ASSUME Inv PROVE OwnBytes
  <2>1. got \in Seq(Nat) BY <1>1 DEF Inv, TypeOK
  <2>2. CASE cur \in DOMAIN reqs
    <3>1. cur \in 1..Len(reqs) BY <1>1, <2>2 DEF Inv, TypeOK
    <3>2. Begins(cur) = reqs[cur].at BY <1>1, <3>1, Numbers DEF Inv, Begins
    <3>3. /\ Bytes(cur) \in Seq(Nat) /\ Len(Bytes(cur)) = Size(reqs[cur])
          /\ \A i \in 1..Size(reqs[cur]) : Bytes(cur)[i] = reqs[cur].at + i
      BY <1>1, <3>1, Numbers, StreamOf DEF Inv, Bytes
    <3>4. /\ Len(got) <= Size(reqs[cur]) /\ Size(reqs[cur]) \in Nat
          /\ \A i \in 1..Len(got) : got[i] = reqs[cur].at + i
      BY <1>1, <3>1, <3>2, Numbers DEF Inv, Position
    <3>5. \A i \in 1..Len(got) : got[i] = Bytes(cur)[i] BY <2>1, <3>3, <3>4
    <3>6. IsPrefix(got, Bytes(cur)) BY <2>1, <3>3, <3>4, <3>5 DEF IsPrefix
    <3>7. pc = "process" => got = Bytes(cur)
      <4>1. pc = "process" => Len(got) = Len(Bytes(cur))
        BY <1>1, <3>3 DEF Inv, Stage
      <4> HIDE DEF Bytes
      <4> QED BY <2>1, <3>3, <3>5, <4>1
    <3> QED BY <2>2, <3>6, <3>7 DEF OwnBytes
  <2>3. CASE cur \notin DOMAIN reqs
    <3>1. cur \notin 1..Len(reqs) BY <1>1, <2>3 DEF Inv, TypeOK
    <3>2. Len(got) <= 0 BY <1>1, <3>1 DEF Inv, Position
    <3>3. got = <<>> BY <2>1, <3>2
    <3>4. IsPrefix(got, <<>>) BY <3>3 DEF IsPrefix
    <3>5. pc # "process" BY <1>1, <3>1 DEF Inv, Stage
    <3> QED BY <2>3, <3>4, <3>5 DEF OwnBytes
  <2> QED BY <2>2, <2>3
<1> QED BY <1>1, InvCorrect, PTL

(* A request is processed only if its head fits buffer_ and head and body    *)
(* are within the parser's limits.                                         *)
THEOREM LengthLimitedCorrect == Spec => []LengthLimited
<1>1. Inv => LengthLimited BY DEF Inv, Stage, LengthLimited
<1> QED BY <1>1, InvCorrect, PTL

(* While the next request was not sent, nothing is left in buffer_. *)
LEMMA NothingAhead ==
  ASSUME Inv, cur > Len(reqs)
  PROVE  Len(buf) = 0
<1>1. cur # 0 /\ Begins(cur) = Sent BY ReaderNumbers, Numbers DEF Begins, Inv
<1>2. recv = (Sent + Len(got)) + Len(buf)
  BY <1>1 DEF Inv, Position, Used
<1>3. recv <= Sent /\ Sent \in Nat BY Numbers DEF Inv, TypeOK
<1> QED BY <1>2, <1>3, ReaderNumbers

(* A read fails only for the request it reads: neither the bytes behind one  *)
(* within the limits nor the lack of them make buffer_ overflow.           *)
THEOREM ClosedForCauseCorrect == Spec => ClosedForCause
<1>1. ASSUME Inv, [Next]_vars, pc \in {"head", "body"}, pc' = "closed", ~over
      PROVE  cur \in DOMAIN reqs /\ ~Readable(reqs[cur])
  <2>1. OnReadError
    BY <1>1 DEF Next, Read, vars, PeerSend, StreamEnds, Run, DoRead, ReadSome,
                ParseHead, ParseBody, OnRead, OnWrite, OnWriteClose
  <2>2. ReadFails BY <1>1, <2>1 DEF OnReadError
  <2>3. /\ DOMAIN reqs = 1..Len(reqs)
        /\ pc \in {"head", "body"} => cur \in Nat \ {0}
        /\ Len(reqs) \in Nat
    BY <1>1, ReaderNumbers, Numbers DEF Inv, Stage, TypeOK
  <2>4. CASE Short /\ Room = 0
    <3>1. Len(buf) = MaxRequestSize /\ Len(buf) # 0
      BY <1>1, <2>4, ReaderNumbers, ReaderAssumption DEF Room
    <3>2. buf # <<>> BY <3>1
    <3>3. pc = "head" /\ (cur <= Len(reqs) => Len(buf) < reqs[cur].head)
      BY <2>4, <3>2 DEF Short
    <3>4. cur <= Len(reqs) BY <1>1, <2>3, <3>1, <3>3, NothingAhead
    <3>5. cur \in 1..Len(reqs) BY <2>3, <3>3, <3>4
    <3>6. ~(reqs[cur].head <= MaxRequestSize)
      BY <1>1, <3>1, <3>3, <3>5, Numbers, ReaderAssumption DEF Inv
    <3> QED BY <2>3, <3>5, <3>6 DEF Readable
  <2>5. CASE pc = "head" /\ cur <= Len(reqs) /\ reqs[cur].head > HeaderLimit
    <3>1. cur \in 1..Len(reqs) BY <2>3, <2>5
    <3>2. ~(reqs[cur].head <= HeaderLimit)
      BY <1>1, <2>5, <3>1, Numbers, ReaderAssumption DEF Inv
    <3> QED BY <2>3, <3>1, <3>2 DEF Readable
  <2>6. CASE pc = "head" /\ ~Short /\ reqs[cur].body > BodyLimit
    <3>1. cur \in 1..Len(reqs) BY <2>3, <2>6 DEF Short
    <3>2. ~(reqs[cur].body <= BodyLimit)
      BY <1>1, <2>6, <3>1, Numbers, ReaderAssumption DEF Inv
    <3> QED BY <2>3, <3>1, <3>2 DEF Readable
  <2> QED BY <2>2, <2>4, <2>5, <2>6 DEF ReadFails
<1>2. \A r : Allowed(r) => Readable(r) BY Zenon DEF Allowed
<1>3. ASSUME Inv, [Next]_vars
      PROVE  [pc' = "closed" /\ pc \in {"head", "body"} /\ ~over =>
                cur \in DOMAIN reqs /\ ~Allowed(reqs[cur])]_vars
  BY <1>1, <1>2, <1>3, Zenon
<1> QED BY <1>3, InvCorrect, PTL DEF Spec, ClosedForCause
=============================================================================
