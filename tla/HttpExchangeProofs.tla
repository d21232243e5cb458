-------------------------- MODULE HttpExchangeProofs --------------------------
(***************************************************************************)
(* Proofs about HttpExchange: for any number of requests on a connection,  *)
(* with and without auto_gzip_.                                            *)
(***************************************************************************)
EXTENDS HttpExchange, TLAPS

Inv == TypeOK /\ NothingLeft /\ OwnBody /\ ResponseFaithful

(* What writeResponse() makes of a response_ that was cleared. *)
LEMMA FilledFacts ==
  ASSUME n \in Nat, request \in Requests, response = Cleared, NEW rsp \in Responses
  PROVE  LET r == Filled(rsp) IN
         /\ r \in Messages
         /\ r.body # <<>> => r.length = "body"
         /\ r.gzip = Compresses(rsp)
         /\ \/ r.body = <<>> /\ r.length # "body"
            \/ r.body = <<[of |-> n, size |-> rsp.size, gzip |-> r.gzip]>> /\ r.length = "body"
         /\ r.body = <<>> <=> request.method = "head" \/ (rsp.size = "empty" /\ ~r.gzip)
<1> DEFINE r == Filled(rsp)
<1> DEFINE g == Compresses(rsp)
<1> DEFINE p == [of |-> n, size |-> rsp.size, gzip |-> g]
<1>1. g \in BOOLEAN /\ KeepAlive(rsp) \in BOOLEAN
  BY ExchangeAssumption DEF Compresses, KeepAlive, Requests, Responses
<1>2. /\ response.body = <<>> /\ response.gzip = FALSE /\ response.length = "unset"
  BY DEF Cleared
<1>3. p \in Piece BY <1>1 DEF Piece, Responses
<1> HIDE DEF g, p
<1>4. BodyWith(rsp) = IF HasBytes(rsp) /\ request.method # "head" THEN <<p>> ELSE <<>>
  BY <1>2 DEF BodyWith, p, g
<1>5. HasBytes(rsp) <=> rsp.size # "empty" \/ g BY DEF HasBytes, g
<1>6. /\ r.keepAlive = KeepAlive(rsp) /\ r.gzip = g /\ r.body = BodyWith(rsp)
      /\ r.length = IF HasBytes(rsp) THEN Payload(BodyWith(rsp)) ELSE "unset"
      /\ r = [keepAlive |-> r.keepAlive, gzip |-> r.gzip, length |-> r.length, body |-> r.body]
  BY <1>1, <1>2 DEF Filled, g
<1>7. <<p>> # <<>> /\ <<p>> \in Seq(Piece) /\ <<>> \in Seq(Piece) BY <1>3
<1>8. BodyWith(rsp) \in Seq(Piece) BY <1>4, <1>7
<1>9. r.length \in {"unset", "zero", "body"} BY <1>6 DEF Payload
<1> HIDE DEF r
<1>10. r \in Messages BY <1>1, <1>6, <1>8, <1>9 DEF Messages
<1>11. r.body # <<>> => r.body = <<p>> /\ r.length = "body"
  BY <1>4, <1>6, <1>7 DEF Payload
<1>12. r.body = <<>> => r.length # "body" BY <1>6 DEF Payload
<1>13. r.body = <<>> <=> request.method = "head" \/ (rsp.size = "empty" /\ ~r.gzip)
  BY <1>4, <1>5, <1>6, <1>7
<1> QED BY <1>6, <1>10, <1>11, <1>12, <1>13 DEF r, p, g

(* writeResponse() on a cleared response_ keeps the invariant. *)
LEMMA WriteKeepsInv ==
  ASSUME Inv, NEW rsp \in Responses, response = Cleared, WriteResponse(rsp), reqBody' = <<>>,
         UNCHANGED given
  PROVE  Inv'
<1>1. n \in Nat /\ request \in Requests /\ given \in Seq(Nat) BY DEF Inv, TypeOK
<1>2. /\ response' = Filled(rsp) /\ asked' = rsp /\ pc' = "write"
      /\ UNCHANGED <<n, request>>
  BY DEF WriteResponse
<1>3. /\ response' \in Messages
      /\ response'.body # <<>> => response'.length = "body"
      /\ \/ response'.body = <<>> /\ response'.length # "body"
         \/ response'.body = <<[of |-> n, size |-> rsp.size, gzip |-> response'.gzip]>>
            /\ response'.length = "body"
      /\ response'.body = <<>> <=>
           request.method = "head" \/ (rsp.size = "empty" /\ ~response'.gzip)
  BY <1>1, <1>2, FilledFacts
<1>4. TypeOK' BY <1>1, <1>2, <1>3 DEF TypeOK
<1>5. ResponseFaithful' BY <1>2, <1>3 DEF ResponseFaithful
<1>6. NothingLeft' /\ OwnBody' BY <1>2 DEF NothingLeft, OwnBody
<1> QED BY <1>4, <1>5, <1>6 DEF Inv

(* The constants of the model are of their types. *)
LEMMA ClearedFacts ==
  /\ Cleared \in Messages /\ Cleared.body = <<>> /\ BadRequest \in Responses
BY DEF Cleared, Messages, BadRequest, Responses

(* The invariant holds for a new session. *)
LEMMA InvInit == Init => Inv
<1> SUFFICES ASSUME Init PROVE Inv OBVIOUS
<1>1. request \in Requests BY DEF Init, Requests
<1>2. TypeOK BY <1>1, ClearedFacts DEF Init, TypeOK
<1> QED BY <1>2 DEF Init, Inv, NothingLeft, OwnBody, ResponseFaithful

(* Every step of the exchange keeps the invariant. *)
LEMMA InvNext ==
  ASSUME Inv, [Next]_vars
  PROVE  Inv'
<1>1. CASE UNCHANGED vars
  BY <1>1 DEF vars, Inv, TypeOK, NothingLeft, OwnBody, ResponseFaithful
<1>2. ASSUME NEW req \in Requests, OnRead(req) PROVE Inv'
  <2>1. reqBody = <<>> /\ response = Cleared /\ n \in Nat
    BY <1>2 DEF OnRead, Inv, NothingLeft, TypeOK
  <2>2. reqBody' = IF req.hasBody THEN <<n + 1>> ELSE <<>> BY <1>2, <2>1 DEF OnRead
  <2>3. TypeOK' BY <1>2, <2>1, <2>2 DEF OnRead, Inv, TypeOK
  <2> QED BY <1>2, <2>1, <2>2, <2>3 DEF OnRead, Inv, NothingLeft, OwnBody, ResponseFaithful
<1>3. CASE OnReadError \/ OnWriteLast \/ OnWriteError
  <2>1. pc' = "closed" /\ UNCHANGED <<n, request, reqBody, given, response, asked>>
    BY <1>3 DEF OnReadError, OnWriteLast, OnWriteError
  <2> QED BY <2>1 DEF Inv, TypeOK, NothingLeft, OwnBody, ResponseFaithful
<1>4. CASE Reject
  <2>1. response = Cleared BY <1>4 DEF Reject, Inv, NothingLeft
  <2> QED BY <1>4, <2>1, ClearedFacts, WriteKeepsInv DEF Reject
<1>5. CASE CallHandler
  BY <1>5 DEF CallHandler, Inv, TypeOK, NothingLeft, OwnBody, ResponseFaithful
<1>6. ASSUME NEW rsp \in Responses, Send(rsp) PROVE Inv'
  <2>1. response = Cleared /\ reqBody = <<>> BY <1>6 DEF Send, Inv, NothingLeft
  <2> QED BY <1>6, <2>1, WriteKeepsInv DEF Send
<1>7. CASE OnWrite
  <2>1. reqBody = <<>> BY <1>7 DEF OnWrite, Inv, NothingLeft
  <2> QED BY <1>7, <2>1, ClearedFacts
       DEF OnWrite, Inv, TypeOK, NothingLeft, OwnBody, ResponseFaithful
<1> QED BY <1>1, <1>2, <1>3, <1>4, <1>5, <1>6, <1>7 DEF Next

(* So it always holds. *)
LEMMA InvHolds == Spec => []Inv
BY InvInit, InvNext, PTL DEF Spec

(* The variables of the exchange keep their types. *)
THEOREM TypeCorrect == Spec => []TypeOK
BY InvHolds, PTL DEF Inv

(* processRequest() gives every handler the body of its own request, on a   *)
(* connection that any number of requests went through before.             *)
THEOREM OwnBodyCorrect == Spec => []OwnBody
BY InvHolds, PTL DEF Inv

(* request_ and response_ are clean whenever they are used again. *)
THEOREM NothingLeftCorrect == Spec => []NothingLeft
BY InvHolds, PTL DEF Inv

(* Whatever the handler asks for and whatever was written before, what      *)
(* writeResponse() hands to async_write is one body with the encoding and  *)
(* the length its header tells.                                            *)
THEOREM ResponseFaithfulCorrect == Spec => []ResponseFaithful
BY InvHolds, PTL DEF Inv

(* What onWrite goes by is what writeResponse() made of the response asked   *)
(* for and of the request that is still the current one.                   *)
KeepInv == pc = "write" => response.keepAlive = KeepAlive(asked)

(* The flag that onWrite looks at is the one writeResponse() set. *)
LEMMA KeepHolds == Spec => []KeepInv
<1>1. Init => KeepInv BY DEF Init, KeepInv
<1>2. ASSUME KeepInv, [Next]_vars PROVE KeepInv'
  <2>1. CASE UNCHANGED vars BY <1>2, <2>1 DEF KeepInv, vars, KeepAlive
  <2>2. ASSUME NEW rsp, WriteResponse(rsp) PROVE KeepInv'
    BY <2>2 DEF WriteResponse, Filled, KeepInv, KeepAlive
  <2>3. CASE pc' # "write" BY <2>3 DEF KeepInv
  <2> QED BY <1>2, <2>1, <2>2, <2>3
       DEF Next, OnRead, OnReadError, Reject, CallHandler, Send, OnWrite, OnWriteLast,
           OnWriteError
<1> QED BY <1>1, <1>2, PTL DEF Spec

(* For any number of requests, the next one is read only after a response    *)
(* that the handler's Connection field, or without one the peer and        *)
(* force_disable_keep_alive_, let the connection outlive.                  *)
THEOREM KeepAliveCorrect == Spec => KeepAliveAgreed
<1> DEFINE Agreed == /\ asked.connection # "close"
                     /\ asked.connection = "none" =>
                          request.keepAlive /\ ~asked.disableKeepAlive
<1>1. ASSUME KeepInv, [Next]_vars
      PROVE  [pc = "write" /\ pc' = "read" => Agreed]_vars
  <2> SUFFICES ASSUME Next, pc = "write", pc' = "read" PROVE Agreed
    BY <1>1
  <2>1. response.keepAlive
    BY DEF Next, OnRead, OnReadError, Reject, CallHandler, Send, OnWrite, OnWriteLast,
           OnWriteError, WriteResponse
  <2>2. KeepAlive(asked) BY <1>1, <2>1, Zenon DEF KeepInv
  <2> QED BY <2>2, Zenon DEF KeepAlive
<1> QED BY <1>1, KeepHolds, PTL DEF Spec, KeepAliveAgreed
=============================================================================
