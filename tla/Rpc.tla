-------------------------------- MODULE Rpc --------------------------------
(***************************************************************************)
(* Package rpc: calls of a Client to the Server at one address.            *)
(*                                                                         *)
(* A call encodes its argument, takes the http.Client cached for the       *)
(* address, posts the request, and turns the response into a reply, a      *)
(* stream or an error; then it updates the cache.  The server finds the    *)
(* method, decodes the argument, runs the method and writes the reply, the *)
(* stream or the error.  The network, or the fault injector in its place,  *)
(* may lose a request, a response or the rest of a response's body.        *)
(*                                                                         *)
(* An error is its kind and severity.  A connection is known by the call   *)
(* that used it last; the sections under c.mu and s.mu are single steps.   *)
(***************************************************************************)
EXTENDS Naturals

CONSTANTS
    Calls,      \* bound: the calls made; each is one goroutine
    Streams,    \* the calls whose reply is an *io.ReadCloser
    Receivers,  \* bound: the objects Register is called with, for one name
    AppErrors   \* bound: the errors methods return, as [kind, sev]

\* "Other" stands for the kinds that Call does not make itself; nil has its own.
Kinds == {"nil", "Invalid", "Canceled", "Net", "Remote", "Other"}
Severities == {"nil", "Temporary", "Fatal"}
Errors == [kind : Kinds, sev : Severities]

ASSUME RpcAssumption == Streams \subseteq Calls /\ AppErrors \subseteq Errors

NoHandle == 0
NoReceiver == "none"

VARIABLES
    pc,         \* where each call is
    handle,     \* its *clientState, h
    cached,     \* c.clients for the address
    made,       \* how many clientStates there have been
    conn,       \* the connection the call used last: active, idle, closed, or taken by another
    srv,        \* where the server is with the call
    ran,        \* what the method returned: [err, stream], with err = nil or an error
    resp,       \* the response on its way: [code, body]
    got,        \* how much of the response Call has got
    result,     \* the error that Call returned
    read,       \* how reading the stream ended
    receiver,   \* s.services for the name
    used        \* the receiver that the method ran on

vars == <<pc, handle, cached, made, conn, srv, ran, resp, got, result, read, receiver, used>>
serverVars == <<srv, ran, resp, used>>
clientVars == <<pc, handle, cached, made, conn, got, result, read>>

nil == [kind |-> "nil", sev |-> "nil"]
err(kind, sev) == [kind |-> kind, sev |-> sev]
NotRun == [err |-> nil, stream |-> FALSE]
NoResp == [code |-> 0, body |-> "none"]

Init ==
    /\ pc = [c \in Calls |-> "idle"]
    /\ handle = [c \in Calls |-> NoHandle] /\ cached = NoHandle /\ made = 0
    /\ conn = [c \in Calls |-> "none"]
    /\ srv = [c \in Calls |-> "none"]
    /\ ran = [c \in Calls |-> NotRun] /\ resp = [c \in Calls |-> NoResp]
    /\ got = [c \in Calls |-> "none"] /\ result = [c \in Calls |-> nil]
    /\ read = [c \in Calls |-> "none"]
    /\ receiver = NoReceiver /\ used = [c \in Calls |-> NoReceiver]

-----------------------------------------------------------------------------
(* The client.                                                             *)

\* The argument cannot be encoded: Call returns before it takes a client.
EncodeFails(c) ==
    /\ pc[c] = "idle"
    /\ pc' = [pc EXCEPT ![c] = "done"]
    /\ result' = [result EXCEPT ![c] = err("Invalid", "Fatal")]
    /\ UNCHANGED <<handle, cached, made, conn, got, read, serverVars, receiver>>

\* getClient: the client cached for the address, or a new one, which is cached.
getClient(c) ==
    /\ pc[c] = "idle"
    /\ LET h == IF cached = NoHandle THEN made + 1 ELSE cached
       IN  /\ handle' = [handle EXCEPT ![c] = h]
           /\ cached' = h
           /\ made' = IF h > made THEN h ELSE made
    /\ pc' = [pc EXCEPT ![c] = "client"]
    /\ UNCHANGED <<conn, got, result, read, serverVars, receiver>>

\* The transport takes an idle connection of the http.Client, or makes one.
Connect(c) ==
    LET idle == {d \in Calls : conn[d] = "idle" /\ handle[d] = handle[c]}
    IN  \/ /\ idle = {}
           /\ conn' = [conn EXCEPT ![c] = "active"]
        \/ \E d \in idle : conn' = [conn EXCEPT ![d] = "none", ![c] = "active"]

\* ctxhttp.Post sends the request.
Post(c) ==
    /\ pc[c] = "client" /\ Connect(c)
    /\ pc' = [pc EXCEPT ![c] = "post"]
    /\ srv' = [srv EXCEPT ![c] = "request"]
    /\ UNCHANGED <<handle, cached, made, got, result, read, ran, resp, used, receiver>>

\* Post fails: the context is done, or the network failed, before or after the
\* request reached the server, which may still serve it.  The connection, if
\* any, is lost.
PostFails(c) ==
    /\ pc[c] \in {"client", "post"}
    /\ pc' = [pc EXCEPT ![c] = "update"]
    /\ conn' = [conn EXCEPT ![c] = IF pc[c] = "post" THEN "closed" ELSE @]
    /\ \E e \in {err("Canceled", "nil"), err("Net", "Temporary")} :
          result' = [result EXCEPT ![c] = e]
    /\ UNCHANGED <<handle, cached, made, got, read, serverVars, receiver>>

\* Faulty variant: the error of the method is returned as it is.
decodeErrorRaw(c, whole) ==
    IF whole /\ resp[c].body = "error" THEN ran[c].err ELSE err("Invalid", "Temporary")

\* Faulty variant: the severity of the error is lost.
decodeErrorBare(c, whole) ==
    IF whole /\ resp[c].body = "error" THEN err("Remote", "nil") ELSE err("Invalid", "Temporary")

\* decodeError: the method's error, wrapped in one of kind Remote, which keeps
\* its severity; or an error of its own if the body is not a whole error.
decodeError(c, whole) ==
    IF whole /\ resp[c].body = "error"
    THEN err("Remote", ran[c].err.sev) ELSE err("Invalid", "Temporary")

\* Faulty variant: only method errors and bad replies are errors.
callResultAny(c, whole) ==
    CASE resp[c].code = 590 -> decodeError(c, whole)
      [] resp[c].code = 200 /\ c \notin Streams /\ ~whole -> err("Invalid", "Temporary")
      [] OTHER -> nil

\* What Call returns for a response whose body arrives whole or not.
callResult(c, whole) ==
    CASE resp[c].code = 590 -> decodeError(c, whole)
      [] resp[c].code = 200 -> IF c \in Streams \/ (whole /\ resp[c].body = "reply")
                               THEN nil ELSE err("Invalid", "Temporary")
      [] OTHER -> err("Invalid", "Fatal")

\* The body of a response arrives whole, or the network breaks it off, or the
\* fault injector that Call wraps it with drops or truncates it.
arrival == {TRUE, FALSE}

\* Call handles the response.  It closes the body, but for a stream's, and the
\* connection is idle again if the body was read to its end.
Respond(c) ==
    /\ pc[c] = "post" /\ srv[c] \in {"stream", "replied"}
    /\ \E whole \in arrival :
          /\ got' = [got EXCEPT ![c] = IF whole THEN "whole" ELSE "broken"]
          /\ result' = [result EXCEPT ![c] = callResult(c, whole)]
          /\ conn' = [conn EXCEPT ![c] = CASE c \in Streams /\ resp[c].code = 200 -> @
                                           [] whole -> "idle"
                                           [] OTHER -> "closed"]
    /\ pc' = [pc EXCEPT ![c] = "update"]
    /\ UNCHANGED <<handle, cached, made, read, serverVars, receiver>>

\* Faulty variant: the cached client is dropped, whichever it is by now.
updateClientStateAny(c) ==
    /\ pc[c] = "update"
    /\ pc' = [pc EXCEPT ![c] = "done"]
    /\ LET now == IF result[c] # nil THEN NoHandle ELSE cached
       IN  /\ cached' = now
           /\ conn' = [d \in Calls |-> IF now # handle[c] /\ handle[d] = handle[c] /\ conn[d] = "idle"
                                       THEN "closed" ELSE conn[d]]
    /\ UNCHANGED <<handle, made, got, result, read, serverVars, receiver>>

\* Faulty variant: only the call that drops the client closes its connections.
updateClientStateOnce(c) ==
    /\ pc[c] = "update"
    /\ pc' = [pc EXCEPT ![c] = "done"]
    /\ LET now == IF result[c] # nil /\ cached = handle[c] THEN NoHandle ELSE cached
       IN  /\ cached' = now
           /\ conn' = [d \in Calls |-> IF now # cached /\ handle[d] = handle[c] /\ conn[d] = "idle"
                                       THEN "closed" ELSE conn[d]]
    /\ UNCHANGED <<handle, made, got, result, read, serverVars, receiver>>

\* updateClientState: a failed call drops its client from the cache, and a call
\* whose client is not the cached one closes the client's idle connections.
updateClientState(c) ==
    /\ pc[c] = "update"
    /\ pc' = [pc EXCEPT ![c] = "done"]
    /\ LET now == IF result[c] # nil /\ cached = handle[c] THEN NoHandle ELSE cached
       IN  /\ cached' = now
           /\ conn' = [d \in Calls |-> IF now # handle[c] /\ handle[d] = handle[c] /\ conn[d] = "idle"
                                       THEN "closed" ELSE conn[d]]
    /\ UNCHANGED <<handle, made, got, result, read, serverVars, receiver>>

\* streamReader.Read at the end of the body: the trailer has the server's error.
trailer(c) == IF resp[c].body = "badstream" THEN "error" ELSE "eof"

\* The caller reads the stream to its end, or the network or the fault injector
\* fails it, or the caller stops; then it closes the stream.
ReadStream(c) ==
    /\ pc[c] = "done" /\ c \in Streams /\ result[c] = nil /\ conn[c] = "active"
    /\ \/ /\ srv[c] = "replied"
          /\ read' = [read EXCEPT ![c] = trailer(c)]
          /\ conn' = [conn EXCEPT ![c] = "idle"]
       \/ /\ \E how \in {"error", "closed"} : read' = [read EXCEPT ![c] = how]
          /\ conn' = [conn EXCEPT ![c] = "closed"]
    /\ UNCHANGED <<pc, handle, cached, made, got, result, serverVars, receiver>>

-----------------------------------------------------------------------------
(* The server.                                                             *)

\* Register, which does nothing if the service is defined.
Register(r) ==
    /\ receiver = NoReceiver
    /\ receiver' = r
    /\ UNCHANGED <<clientVars, serverVars>>

\* What a method may return: nil, an error, or a panic, which is a Fatal error;
\* and a stream, if its reply is one, also next to an error.
Returns(c) ==
    [err : {nil, err("Other", "Fatal")} \cup AppErrors, stream : IF c \in Streams THEN BOOLEAN ELSE {FALSE}]

\* ServeHTTP once the method has returned.  A stream is copied to the body,
\* whatever the code.  Else the reply or the error is encoded; if that fails,
\* the code is 500, unless 590 has been written already.
reply(r) ==
    LET code == IF r.err = nil THEN 200 ELSE 590
    IN  IF r.stream THEN {[code |-> code, body |-> "stream"]}
        ELSE {[code |-> code, body |-> IF code = 200 THEN "reply" ELSE "error"],
              [code |-> IF code = 200 THEN 500 ELSE 590, body |-> "text"]}

\* The method runs and its reply is written.  A method that returns no error has
\* set its stream: a nil one is a reply the client takes for an empty stream.
run(c) ==
    /\ used' = [used EXCEPT ![c] = receiver]
    /\ \E r \in Returns(c) :
          /\ c \in Streams /\ r.err = nil => r.stream
          /\ ran' = [ran EXCEPT ![c] = r]
          /\ \E a \in reply(r) : resp' = [resp EXCEPT ![c] = a]
          /\ srv' = [srv EXCEPT ![c] = IF r.stream THEN "stream" ELSE "replied"]

\* Bad requests, unknown services and methods, and arguments that do not decode
\* are answered with 400, 404 or 405.
refuse(c) ==
    /\ resp' = [resp EXCEPT ![c] = [code |-> 400, body |-> "text"]]
    /\ srv' = [srv EXCEPT ![c] = "replied"]
    /\ UNCHANGED <<used, ran>>

ServeHTTP(c) ==
    /\ srv[c] = "request"
    /\ refuse(c) \/ (receiver # NoReceiver /\ run(c))
    /\ UNCHANGED <<clientVars, receiver>>

\* io.Copy of the stream ends, with an error in the trailer or without.
CopyEnds(c) ==
    /\ srv[c] = "stream"
    /\ srv' = [srv EXCEPT ![c] = "replied"]
    /\ \E b \in {"stream", "badstream"} : resp' = [resp EXCEPT ![c].body = b]
    /\ UNCHANGED <<clientVars, ran, used, receiver>>

-----------------------------------------------------------------------------
ClientNext(c) == getClient(c) \/ Post(c) \/ Respond(c) \/ updateClientState(c)
ServerNext(c) == ServeHTTP(c) \/ CopyEnds(c)

Next ==
    \/ \E c \in Calls :
          ClientNext(c) \/ ServerNext(c) \/ EncodeFails(c) \/ PostFails(c) \/ ReadStream(c)
    \/ \E r \in Receivers : Register(r)

Spec == Init /\ [][Next]_vars

-----------------------------------------------------------------------------
(* Properties.                                                             *)

Outcomes == [err : Errors, stream : BOOLEAN]
Responses == [code : {0, 200, 400, 500, 590}, body : {"none", "text", "reply", "error", "stream", "badstream"}]

\* The values the variables take.
TypeOK ==
    /\ pc \in [Calls -> {"idle", "client", "post", "update", "done"}]
    /\ handle \in [Calls -> 0 .. made] /\ made \in Nat /\ cached \in {NoHandle, made}
    /\ conn \in [Calls -> {"none", "active", "idle", "closed"}]
    /\ srv \in [Calls -> {"none", "request", "stream", "replied"}]
    /\ ran \in [Calls -> Outcomes] /\ resp \in [Calls -> Responses]
    /\ got \in [Calls -> {"none", "whole", "broken"}] /\ result \in [Calls -> Errors]
    /\ read \in [Calls -> {"none", "eof", "error", "closed"}]
    /\ receiver \in Receivers \cup {NoReceiver} /\ used \in [Calls -> Receivers \cup {NoReceiver}]

\* "Any error of the kind errors.Net is guaranteed to originate from the
\* immediate call": although methods return errors of kind Net, Call returns
\* one only when it has got no response.  Machine's loop relies on it.
NetIsLocal == \A c \in Calls : result[c].kind = "Net" => got[c] = "none"

\* A call that returns no error has run its method, on the registered object, and
\* the method has returned no error.
OkMeansRun ==
    \A c \in Calls :
        pc[c] = "done" /\ result[c] = nil => used[c] = receiver /\ used[c] # NoReceiver /\ ran[c].err = nil

\* The error of a method reaches its caller as a Remote error with its severity
\* once the response is in, unless the body was damaged on the way, the error
\* could not be encoded, or the method has set its stream as well: then the
\* stream is the body of the 590 response and the error is lost.  And a reader
\* that sees the end of a stream has got what the method wrote: an error of the
\* method's reader shows at the end of the stream.
MethodErrorReaches ==
    \A c \in Calls :
        /\ got[c] = "whole" /\ ran[c].err # nil =>
              \/ result[c] = err("Remote", ran[c].err.sev)
              \/ ran[c].stream \/ resp[c].body = "text"
        /\ read[c] = "eof" => resp[c].body = "stream" /\ ran[c].stream

\* Once a call has failed, no later call uses the client it used; and a failed
\* call never takes the client away that others have made since.
FailedClientGone ==
    /\ \A c \in Calls : pc[c] = "done" /\ result[c] # nil /\ handle[c] # NoHandle => cached # handle[c]
    /\ made > 0 /\ cached = NoHandle =>
          \E c \in Calls : handle[c] = made /\ pc[c] = "done" /\ result[c] # nil

\* A client that is no longer cached keeps an idle connection only while one of
\* its calls will still close it, or if the connection carried a stream: those
\* are closed by their reader, when nobody looks after the client any more.
IdleReclaimed ==
    \A d \in Calls :
        conn[d] = "idle" /\ handle[d] # cached =>
            \/ d \in Streams /\ result[d] = nil
            \/ \E c \in Calls : handle[c] = handle[d] /\ pc[c] \in {"client", "post", "update"}

=============================================================================
