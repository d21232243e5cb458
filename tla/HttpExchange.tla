----------------------------- MODULE HttpExchange -----------------------------
(***************************************************************************)
(* What travels in one connection: the two message objects of an           *)
(* HttpSession, request_ and response_, which every request of the         *)
(* connection uses again (src/http_session.cpp, processRequest and         *)
(* writeResponse).                                                         *)
(*                                                                         *)
(* HttpSession has the threads, the timers and the life of the object and  *)
(* shows that one request is served at a time; here is one connection and  *)
(* the data.  A body is the sequence of the pieces written into it.        *)
(***************************************************************************)
EXTENDS Naturals, Sequences

CONSTANTS
  AutoGzip,      \* opts_.auto_gzip_
  MaxRequests    \* bound: requests read on the connection

(* What the proofs assume of the constants. *)
ASSUME ExchangeAssumption ==
  /\ AutoGzip \in BOOLEAN
  /\ MaxRequests \in Nat

VARIABLES
  pc,        \* where the chain is: "read", "process", "handle", "write", "closed"
  n,         \* current_request_id_
  request,   \* the head of request_
  reqBody,   \* request_.body(): the requests whose bytes it holds
  given,     \* the body of the HttpRequest last handed to a handler
  response,  \* response_
  asked      \* history: the HttpResponse last passed to writeResponse()

vars == <<pc, n, request, reqBody, given, response, asked>>

-----------------------------------------------------------------------------
(* A request as far as the code looks at it; size is that of its body.      *)
Requests == [target : {"invalid", "unknown", "known"},
             method : {"get", "head", "unsupported"},
             acceptsGzip : BOOLEAN, keepAlive : BOOLEAN, hasBody : BOOLEAN]

(* An HttpResponse: body_ is empty, up to 500 bytes or more; force_gzip_,   *)
(* force_disable_keep_alive_, and the Connection field among headers_, if  *)
(* there is one: "close", or another value, such as "keep-alive".          *)
Responses == [size : {"empty", "small", "large"}, forceGzip : BOOLEAN,
              disableKeepAlive : BOOLEAN, connection : {"none", "close", "other"}]

(* The response_ of a new session, and after clear(). *)
Cleared == [keepAlive |-> TRUE, gzip |-> FALSE, length |-> "unset", body |-> <<>>]

(* The 400 that processRequest() writes itself. *)
BadRequest == [size |-> "small", forceGzip |-> FALSE, disableKeepAlive |-> FALSE,
               connection |-> "none"]

Init ==
  /\ pc = "read"
  /\ n = 0
  /\ request = [target |-> "known", method |-> "get", acceptsGzip |-> FALSE,
                keepAlive |-> TRUE, hasBody |-> FALSE]
  /\ reqBody = <<>>
  /\ given = <<>>
  /\ response = Cleared
  /\ asked = BadRequest

-----------------------------------------------------------------------------
(* async_read into request_: the parser clears the head and appends what it *)
(* reads to the body it finds.                                             *)
OnRead(req) ==
  /\ pc = "read"
  /\ n < MaxRequests
  /\ n' = n + 1
  /\ request' = req
  /\ reqBody' = IF req.hasBody THEN Append(reqBody, n + 1) ELSE reqBody
  /\ pc' = "process"
  /\ UNCHANGED <<given, response, asked>>

(* onRead with an error: the connection is closed. *)
OnReadError ==
  /\ pc = "read"
  /\ pc' = "closed"
  /\ UNCHANGED <<n, request, reqBody, given, response, asked>>

(* force_gzip_, or a large body that the peer accepts compressed. *)
Compresses(rsp) ==
  rsp.forceGzip \/ (rsp.size = "large" /\ AutoGzip /\ request.acceptsGzip)

(* Mutant: headers_ are set after keep_alive() was read. *)
KeepAliveEarly(rsp) == ~rsp.disableKeepAlive /\ request.keepAlive

(* keep_alive() of the response: a Connection field the handler set takes   *)
(* the place of the one that was set for force_disable_keep_alive_ or the  *)
(* request, and of HTTP/1.1 a connection is kept if no field says close.   *)
KeepAlive(rsp) ==
  IF rsp.connection = "none"
  THEN ~rsp.disableKeepAlive /\ request.keepAlive
  ELSE rsp.connection # "close"

(* There are bytes to send; the compressed form of an empty body has some. *)
HasBytes(rsp) == rsp.size # "empty" \/ Compresses(rsp)

(* The body of response_ after the body of rsp is written to it. *)
BodyWith(rsp) ==
  IF HasBytes(rsp) /\ request.method # "head"
  THEN Append(response.body, [of |-> n, size |-> rsp.size, gzip |-> Compresses(rsp)])
  ELSE response.body

(* prepare_payload(): Content-Length says what the body has. *)
Payload(body) == IF body = <<>> THEN "zero" ELSE "body"

(* Mutants: prepare_payload() is not called; the header is set before the   *)
(* size of the body is looked at.                                          *)
FilledNoPayload(rsp) ==
  [keepAlive |-> KeepAlive(rsp),
   gzip |-> response.gzip \/ Compresses(rsp),
   length |-> response.length,
   body |-> BodyWith(rsp)]

FilledHeaderFirst(rsp) ==
  [keepAlive |-> KeepAlive(rsp),
   gzip |-> response.gzip \/ rsp.forceGzip \/ (AutoGzip /\ request.acceptsGzip),
   length |-> IF HasBytes(rsp) THEN Payload(BodyWith(rsp)) ELSE response.length,
   body |-> BodyWith(rsp)]

(* What writeResponse() leaves in response_: the encoding and the length    *)
(* are set or stay as they were.                                           *)
Filled(rsp) ==
  [keepAlive |-> KeepAlive(rsp),
   gzip |-> response.gzip \/ Compresses(rsp),
   length |-> IF HasBytes(rsp) THEN Payload(BodyWith(rsp)) ELSE response.length,
   body |-> BodyWith(rsp)]

WriteResponse(rsp) ==
  /\ response' = Filled(rsp)
  /\ asked' = rsp
  /\ pc' = "write"
  /\ UNCHANGED <<n, request>>

(* processRequest() turns the request down: its URL does not parse, no      *)
(* handler is registered for it, or its method is beyond put.              *)
Reject ==
  /\ pc = "process"
  /\ request.target # "known" \/ request.method = "unsupported"
  /\ WriteResponse(BadRequest)
  /\ reqBody' = <<>>
  /\ UNCHANGED given

(* Mutant: the body is cleared before it is copied. *)
CallHandlerClearsFirst ==
  /\ pc = "process"
  /\ request.target = "known"
  /\ request.method # "unsupported"
  /\ given' = <<>>
  /\ reqBody' = <<>>
  /\ pc' = "handle"
  /\ UNCHANGED <<n, request, response, asked>>

(* processRequest() builds the HttpRequest and calls handle(). *)
CallHandler ==
  /\ pc = "process"
  /\ request.target = "known"
  /\ request.method # "unsupported"
  /\ given' = reqBody
  /\ reqBody' = <<>>
  /\ pc' = "handle"
  /\ UNCHANGED <<n, request, response, asked>>

(* HttpResponseWriter::send, once per request. *)
Send(rsp) ==
  /\ pc = "handle"
  /\ WriteResponse(rsp)
  /\ UNCHANGED <<reqBody, given>>

(* Mutant: response_ is not cleared. *)
OnWriteKeepsAll ==
  /\ pc = "write"
  /\ response.keepAlive
  /\ response' = response
  /\ pc' = "read"
  /\ UNCHANGED <<n, request, reqBody, given, asked>>

(* onWrite, the connection is kept: clear response_ and its body, read on. *)
OnWrite ==
  /\ pc = "write"
  /\ response.keepAlive
  /\ response' = Cleared
  /\ pc' = "read"
  /\ UNCHANGED <<n, request, reqBody, given, asked>>

(* onWrite, the connection is not kept. *)
OnWriteLast ==
  /\ pc = "write"
  /\ ~response.keepAlive
  /\ pc' = "closed"
  /\ UNCHANGED <<n, request, reqBody, given, response, asked>>

(* onWrite with an error or a timeout. *)
OnWriteError ==
  /\ pc = "write"
  /\ pc' = "closed"
  /\ UNCHANGED <<n, request, reqBody, given, response, asked>>

Next ==
  \/ \E req \in Requests : OnRead(req)
  \/ OnReadError
  \/ Reject
  \/ CallHandler
  \/ \E rsp \in Responses : Send(rsp)
  \/ OnWrite
  \/ OnWriteLast
  \/ OnWriteError

Spec == Init /\ [][Next]_vars

-----------------------------------------------------------------------------
(* PROPERTIES *)

Piece == [of : Nat, size : {"empty", "small", "large"}, gzip : BOOLEAN]
Messages == [keepAlive : BOOLEAN, gzip : BOOLEAN, length : {"unset", "zero", "body"},
             body : Seq(Piece)]

(* Types of the variables; a response with a body has its length. *)
TypeOK ==
  /\ pc \in {"read", "process", "handle", "write", "closed"}
  /\ n \in Nat
  /\ request \in Requests
  /\ reqBody \in Seq(Nat)
  /\ given \in Seq(Nat)
  /\ response \in Messages
  /\ response.body # <<>> => response.length = "body"
  /\ asked \in Responses

(* A handler is given the body of its own request, whole and with nothing   *)
(* left over from one that was turned down before it.                      *)
OwnBody ==
  pc = "handle" => given = IF request.hasBody THEN <<n>> ELSE <<>>

(* The two objects are used again for the next request, and nothing of an   *)
(* earlier one is left in them when they are, on any path through          *)
(* processRequest() and onWrite().                                         *)
NothingLeft ==
  /\ pc \in {"read", "handle", "write"} => reqBody = <<>>
  /\ pc = "process" => reqBody = IF request.hasBody THEN <<n>> ELSE <<>>
  /\ pc \in {"read", "process", "handle"} => response = Cleared

(* The peer can decode what it receives: the body is the one piece of the   *)
(* current request that was asked for, Content-Encoding says gzip exactly   *)
(* when that piece is compressed, and Content-Length counts it.            *)
ResponseFaithful ==
  pc = "write" =>
    /\ \/ response.body = <<>> /\ response.length # "body"
       \/ response.body = <<[of |-> n, size |-> asked.size, gzip |-> response.gzip]>>
          /\ response.length = "body"
    /\ response.body = <<>> <=>
         request.method = "head" \/ (asked.size = "empty" /\ ~response.gzip)

(* The next request is read only if the last word about this one was to     *)
(* keep the connection: that of the handler, if its headers have one, and  *)
(* else that of the peer, which the handler did not overrule.              *)
KeepAliveAgreed ==
  [][pc = "write" /\ pc' = "read" =>
       /\ asked.connection # "close"
       /\ asked.connection = "none" => request.keepAlive /\ ~asked.disableKeepAlive]_vars

(* "HTTP persistent connection (for HTTP/1.1)": on a connection that is     *)
(* kept, the peer can tell where the response ends.                        *)
Delimited ==
  pc = "write" /\ response.keepAlive /\ request.method # "head" =>
    response.length # "unset"
=============================================================================
