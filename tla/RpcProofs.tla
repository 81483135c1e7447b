----------------------------- MODULE RpcProofs -----------------------------
(***************************************************************************)
(* Proofs about Rpc, for any number of calls, streams, receivers and       *)
(* errors, and about Stats, for any number of calls, methods and machines. *)
(***************************************************************************)
EXTENDS Rpc, Stats, TLAPS

\* The prover of the leaves that name none.
USE ZenonT(60)

\* A call has a client, a connection, a request and a response in this order.
ClientInv ==
    \A c \in Calls :
        /\ pc[c] \in {"client", "post", "update"} => handle[c] # NoHandle
        /\ pc[c] = "idle" => handle[c] = NoHandle
        /\ pc[c] \in {"idle", "client", "post"} => got[c] = "none"
        /\ pc[c] \in {"idle", "client"} => conn[c] = "none" /\ srv[c] = "none"
        /\ conn[c] # "none" => handle[c] # NoHandle
        /\ got[c] # "none" => srv[c] \in {"stream", "replied"}

\* What the server has said, and how it relates to what the method returned.
ServerInv ==
    \A c \in Calls :
        /\ srv[c] \in {"none", "request"} => ran[c] = NotRun /\ resp[c] = NoResp
        /\ resp[c].code = 200 =>
              used[c] = receiver /\ used[c] # NoReceiver /\ ran[c].err = nil
        /\ resp[c].code = 200 /\ c \in Streams =>
              ran[c].stream /\ resp[c].body \in {"stream", "badstream"}
        /\ ran[c].err # nil =>
              resp[c].code = 590 /\ (ran[c].stream \/ resp[c].body \in {"error", "text"})
        /\ srv[c] = "stream" => ran[c].stream

\* What Call has made of it.
ResultInv ==
    \A c \in Calls :
        /\ pc[c] \in {"update", "done"} /\ result[c] = nil => resp[c].code = 200
        /\ read[c] = "eof" => srv[c] = "replied" /\ resp[c].body = "stream" /\ ran[c].stream

-----------------------------------------------------------------------------
(* The steps of one call, and the variables each leaves alone.             *)

\* Every step is one of a call's or a Register.
LEMMA NextCases ==
    ASSUME [Next]_vars
    PROVE  \/ \E c \in Calls : EncodeFails(c) \/ getClient(c) \/ Post(c) \/ PostFails(c) \/ Respond(c)
                               \/ updateClientState(c) \/ ReadStream(c) \/ ServeHTTP(c) \/ CopyEnds(c)
           \/ \E r \in Receivers : Register(r)
           \/ UNCHANGED vars
BY DEF Next, ClientNext, ServerNext

\* The kinds and severities, and the errors, outcomes and responses named.
LEMMA Names ==
    /\ {"Invalid", "Canceled", "Net", "Remote", "Other"} \subseteq Kinds
    /\ {"nil", "Temporary", "Fatal"} \subseteq Severities
    /\ nil \in Errors /\ nil.kind = "nil"
    /\ NotRun \in Outcomes /\ NotRun.err = nil
    /\ NoResp \in Responses /\ NoResp.code = 0
<1>1. nil \in Errors /\ nil.kind = "nil"
  BY DEF nil, Errors, Kinds, Severities
<1>2. NotRun \in Outcomes /\ NotRun.err = nil
  BY <1>1 DEF NotRun, Outcomes
<1>3. NoResp \in Responses /\ NoResp.code = 0
  BY DEF NoResp, Responses
<1> QED
  BY <1>1, <1>2, <1>3 DEF Kinds, Severities

\* An error has its kind and severity; one that is not of kind nil is not nil.
LEMMA ErrType ==
    ASSUME NEW k \in Kinds, NEW s \in Severities
    PROVE  /\ err(k, s) \in Errors /\ err(k, s).kind = k /\ err(k, s).sev = s
           /\ k # "nil" => err(k, s) # nil
BY DEF err, nil, Errors

\* What a method may return, and what the server makes of it.
LEMMA ReturnsType ==
    ASSUME NEW c \in Calls, NEW r \in Returns(c)
    PROVE  /\ r \in Outcomes
           /\ \A a \in reply(r) :
                 /\ a \in Responses
                 /\ a.code = 200 => r.err = nil
                 /\ a.code = 200 /\ r.stream => a.body = "stream"
                 /\ r.err # nil => a.code = 590 /\ (r.stream \/ a.body \in {"error", "text"})
<1>1. r.stream \in BOOLEAN /\ r \in Outcomes
  <2>1. {nil, err("Other", "Fatal")} \cup AppErrors \subseteq Errors
    BY Names, ErrType, RpcAssumption, SMTT(30)
  <2> QED
    BY <2>1 DEF Returns, Outcomes
<1>2. CASE r.stream
  BY <1>1, <1>2, SMTT(30) DEF reply, Responses
<1>3. CASE ~r.stream
  BY <1>1, <1>3, SMTT(30) DEF reply, Responses
<1> QED
  BY <1>1, <1>2, <1>3

\* Call returns an error, or nil for a response of code 200.
LEMMA ResultType ==
    ASSUME TypeOK, NEW c \in Calls, NEW whole \in BOOLEAN
    PROVE  /\ callResult(c, whole) \in Errors
           /\ callResult(c, whole).kind # "Net"
           /\ callResult(c, whole) = nil => resp[c].code = 200
<1>1. ran[c].err.sev \in Severities
  BY DEF TypeOK, Outcomes, Errors
<1>2. /\ decodeError(c, whole) \in Errors
      /\ decodeError(c, whole).kind # "Net" /\ decodeError(c, whole) # nil
  BY <1>1, Names, ErrType, SMTT(30) DEF decodeError
<1> QED
  BY <1>2, Names, ErrType, SMTT(30) DEF callResult

\* Type correctness is inductive.
LEMMA TypeStep == TypeOK /\ [Next]_vars => TypeOK'
<1> SUFFICES ASSUME TypeOK, [Next]_vars PROVE TypeOK'
  OBVIOUS
<1> USE DEF NoHandle
<1>1. ASSUME NEW c \in Calls, EncodeFails(c) PROVE TypeOK'
  BY <1>1, Names, ErrType DEF EncodeFails, TypeOK, serverVars
<1>2. ASSUME NEW c \in Calls, getClient(c) PROVE TypeOK'
  <2> DEFINE h == IF cached = NoHandle THEN made + 1 ELSE cached
  <2>1. /\ h \in Nat
        /\ handle' = [handle EXCEPT ![c] = h] /\ cached' = h
        /\ made' = IF h > made THEN h ELSE made
    BY <1>2, SMTT(30) DEF getClient, TypeOK
  <2>2. made' \in Nat /\ made <= made' /\ h \in 0 .. made' /\ cached' \in {NoHandle, made'}
    BY <2>1, SMTT(30) DEF TypeOK
  <2>3. handle' \in [Calls -> 0 .. made']
    BY <2>1, <2>2, SMTT(30) DEF TypeOK
  <2> QED
    BY <1>2, <2>2, <2>3 DEF getClient, TypeOK, serverVars
<1>3. ASSUME NEW c \in Calls, Post(c) PROVE TypeOK'
  <2>1. conn' \in [Calls -> {"none", "active", "idle", "closed"}]
    BY <1>3, SMTT(30) DEF Post, Connect, TypeOK
  <2> QED
    BY <1>3, <2>1 DEF Post, TypeOK
<1>4. ASSUME NEW c \in Calls, PostFails(c) PROVE TypeOK'
  BY <1>4, Names, ErrType, SMTT(30) DEF PostFails, TypeOK, serverVars
<1>5. ASSUME NEW c \in Calls, Respond(c) PROVE TypeOK'
  <2>1. PICK whole \in BOOLEAN :
          /\ got' = [got EXCEPT ![c] = IF whole THEN "whole" ELSE "broken"]
          /\ result' = [result EXCEPT ![c] = callResult(c, whole)]
          /\ conn' = [conn EXCEPT ![c] = CASE c \in Streams /\ resp[c].code = 200 -> @
                                           [] whole -> "idle"
                                           [] OTHER -> "closed"]
    BY <1>5 DEF Respond, arrival
  <2>2. result' \in [Calls -> Errors]
    BY <2>1, ResultType DEF TypeOK
  <2>3. conn' \in [Calls -> {"none", "active", "idle", "closed"}]
    BY <2>1, SMTT(30) DEF TypeOK
  <2>4. got' \in [Calls -> {"none", "whole", "broken"}]
    BY <2>1 DEF TypeOK
  <2> QED
    BY <1>5, <2>2, <2>3, <2>4 DEF Respond, TypeOK, serverVars
<1>6. ASSUME NEW c \in Calls, updateClientState(c) PROVE TypeOK'
  BY <1>6 DEF updateClientState, TypeOK, serverVars
<1>7. ASSUME NEW c \in Calls, ReadStream(c) PROVE TypeOK'
  <2>1. /\ conn' \in [Calls -> {"none", "active", "idle", "closed"}]
        /\ read' \in [Calls -> {"none", "eof", "error", "closed"}]
    BY <1>7, SMTT(30) DEF ReadStream, trailer, TypeOK
  <2> QED
    BY <1>7, <2>1 DEF ReadStream, TypeOK, serverVars
<1>8. ASSUME NEW c \in Calls, ServeHTTP(c) PROVE TypeOK'
  <2>1. CASE refuse(c)
    <3>1. [code |-> 400, body |-> "text"] \in Responses
      BY SMTT(30) DEF Responses
    <3> QED
      BY <1>8, <2>1, <3>1 DEF ServeHTTP, refuse, TypeOK, clientVars
  <2>2. CASE run(c)
    <3>0. PICK r \in Returns(c) :
            /\ ran' = [ran EXCEPT ![c] = r] /\ (\E a \in reply(r) : resp' = [resp EXCEPT ![c] = a])
            /\ srv' = [srv EXCEPT ![c] = IF r.stream THEN "stream" ELSE "replied"]
      BY <2>2 DEF run
    <3>1. PICK a \in reply(r) : resp' = [resp EXCEPT ![c] = a]
      BY <3>0
    <3>2. r \in Outcomes /\ a \in Responses
      BY <3>1, ReturnsType, SMTT(30)
    <3>3. /\ ran' \in [Calls -> Outcomes] /\ resp' \in [Calls -> Responses]
          /\ srv' \in [Calls -> {"none", "request", "stream", "replied"}]
      BY <3>0, <3>1, <3>2 DEF TypeOK
    <3> QED
      BY <1>8, <2>2, <3>3 DEF ServeHTTP, run, TypeOK, clientVars
  <2> QED
    BY <1>8, <2>1, <2>2 DEF ServeHTTP
<1>9. ASSUME NEW c \in Calls, CopyEnds(c) PROVE TypeOK'
  <2>1. resp[c] \in Responses
    BY DEF TypeOK
  <2>2. PICK b \in {"stream", "badstream"} : resp' = [resp EXCEPT ![c] = [@ EXCEPT !.body = b]]
    BY <1>9 DEF CopyEnds
  <2>3. [resp[c] EXCEPT !.body = b] \in Responses
    BY <2>1, SMTT(30) DEF Responses
  <2>4. resp' \in [Calls -> Responses]
    BY <2>2, <2>3 DEF TypeOK
  <2> QED
    BY <1>9, <2>4 DEF CopyEnds, TypeOK, clientVars
<1>10. ASSUME NEW r \in Receivers, Register(r) PROVE TypeOK'
  BY <1>10 DEF Register, TypeOK, clientVars, serverVars
<1>11. CASE UNCHANGED vars
  BY <1>11 DEF vars, TypeOK
<1> QED
  BY NextCases, <1>1, <1>2, <1>3, <1>4, <1>5, <1>6, <1>7, <1>8, <1>9, <1>10, <1>11

\* The variables of Rpc have their types: among others, the cached client is
\* always the newest one made (getClient, updateClientState).
THEOREM TypeCorrect == Spec => []TypeOK
<1>1. Init => TypeOK
  BY Names, SMTT(30) DEF Init, TypeOK, NoHandle
<1> QED
  BY <1>1, TypeStep, PTL DEF Spec

-----------------------------------------------------------------------------
(* What the client, the server and the results keep.                       *)

\* The step of Respond, with the arrival it is about.
LEMMA RespondStep ==
    ASSUME NEW c \in Calls, Respond(c)
    PROVE  \E whole \in BOOLEAN :
             /\ got' = [got EXCEPT ![c] = IF whole THEN "whole" ELSE "broken"]
             /\ result' = [result EXCEPT ![c] = callResult(c, whole)]
             /\ conn' = [conn EXCEPT ![c] = CASE c \in Streams /\ resp[c].code = 200 -> @
                                              [] whole -> "idle"
                                              [] OTHER -> "closed"]
BY DEF Respond, arrival

\* The step of run, with the outcome and the answer it is about.
RunAs(c, r, a) ==
    /\ ran' = [ran EXCEPT ![c] = r] /\ resp' = [resp EXCEPT ![c] = a]
    /\ srv' = [srv EXCEPT ![c] = IF r.stream THEN "stream" ELSE "replied"]
    /\ used' = [used EXCEPT ![c] = receiver]
    /\ c \in Streams /\ r.err = nil => r.stream
    /\ a.code = 200 => r.err = nil
    /\ a.code = 200 /\ r.stream => a.body = "stream"
    /\ r.err # nil => a.code = 590 /\ (r.stream \/ a.body \in {"error", "text"})

LEMMA RunStep ==
    ASSUME NEW c \in Calls, run(c)
    PROVE  \E r \in Outcomes, a \in Responses : RunAs(c, r, a)
<1>1. PICK r \in Returns(c) :
        /\ c \in Streams /\ r.err = nil => r.stream
        /\ ran' = [ran EXCEPT ![c] = r] /\ (\E a \in reply(r) : resp' = [resp EXCEPT ![c] = a])
        /\ srv' = [srv EXCEPT ![c] = IF r.stream THEN "stream" ELSE "replied"]
  BY DEF run
<1>2. PICK a \in reply(r) : resp' = [resp EXCEPT ![c] = a]
  BY <1>1
<1>3. r \in Outcomes /\ a \in Responses
  BY <1>1, <1>2, ReturnsType
<1>4. /\ a.code = 200 => r.err = nil
      /\ a.code = 200 /\ r.stream => a.body = "stream"
      /\ r.err # nil => a.code = 590 /\ (r.stream \/ a.body \in {"error", "text"})
  BY <1>1, <1>2, ReturnsType, SMTT(30)
<1>5. used' = [used EXCEPT ![c] = receiver]
  BY DEF run
<1>6. RunAs(c, r, a)
  BY <1>1, <1>2, <1>4, <1>5 DEF RunAs
<1> QED
  BY <1>3, <1>6

LEMMA ClientStep == TypeOK /\ ClientInv /\ [Next]_vars => ClientInv'
<1> SUFFICES ASSUME TypeOK, ClientInv, [Next]_vars PROVE ClientInv'
  OBVIOUS
<1>1. ASSUME NEW c \in Calls, EncodeFails(c) PROVE ClientInv'
  BY <1>1 DEF EncodeFails, ClientInv, TypeOK, serverVars
<1>2. ASSUME NEW c \in Calls, getClient(c) PROVE ClientInv'
  <2>1. PICK h \in Nat : h # NoHandle /\ handle' = [handle EXCEPT ![c] = h]
    <3>1. (IF cached = NoHandle THEN made + 1 ELSE cached) \in Nat \ {NoHandle}
      BY SMTT(30) DEF TypeOK, NoHandle
    <3> QED
      BY <1>2, <3>1 DEF getClient
  <2> QED
    BY <1>2, <2>1, SMTT(30) DEF getClient, ClientInv, TypeOK, serverVars
<1>3. ASSUME NEW c \in Calls, Post(c) PROVE ClientInv'
  <2>1. /\ conn' \in [Calls -> {"none", "active", "idle", "closed"}]
        /\ \A d \in Calls \ {c} : conn'[d] \in {"none", conn[d]}
    BY <1>3 DEF Post, Connect, TypeOK
  <2> QED
    BY <1>3, <2>1, SMTT(30) DEF Post, ClientInv, TypeOK
<1>4. ASSUME NEW c \in Calls, PostFails(c) PROVE ClientInv'
  BY <1>4, SMTT(30) DEF PostFails, ClientInv, TypeOK, serverVars
<1>5. ASSUME NEW c \in Calls, Respond(c) PROVE ClientInv'
  <2>1. /\ \A d \in Calls \ {c} : got'[d] = got[d] /\ conn'[d] = conn[d]
    BY <1>5, RespondStep, SMTT(30) DEF TypeOK
  <2>2. /\ pc[c] = "post" /\ srv[c] \in {"stream", "replied"} /\ pc' = [pc EXCEPT ![c] = "update"]
        /\ UNCHANGED <<handle, srv>>
    BY <1>5 DEF Respond, serverVars
  <2> QED
    BY <2>1, <2>2, SMTT(30) DEF ClientInv, TypeOK
<1>6. ASSUME NEW c \in Calls, updateClientState(c) PROVE ClientInv'
  <2>1. \A d \in Calls : conn'[d] \in {conn[d], "closed"} /\ (conn'[d] # conn[d] => conn[d] = "idle")
    BY <1>6 DEF updateClientState, TypeOK
  <2>2. pc[c] = "update" /\ pc' = [pc EXCEPT ![c] = "done"] /\ UNCHANGED <<handle, got, srv>>
    BY <1>6 DEF updateClientState, serverVars
  <2> QED
    BY <2>1, <2>2, SMTT(30) DEF ClientInv, TypeOK
<1>7. ASSUME NEW c \in Calls, ReadStream(c) PROVE ClientInv'
  BY <1>7, SMTT(30) DEF ReadStream, ClientInv, TypeOK, serverVars
<1>8. ASSUME NEW c \in Calls, ServeHTTP(c) PROVE ClientInv'
  <2>1. /\ srv[c] = "request" /\ UNCHANGED <<pc, handle, conn, got>>
        /\ srv'[c] \in {"stream", "replied"} /\ \A d \in Calls \ {c} : srv'[d] = srv[d]
    BY <1>8, SMTT(30) DEF ServeHTTP, refuse, run, clientVars, TypeOK
  <2> QED
    BY <2>1, SMTT(30) DEF ClientInv, TypeOK
<1>9. ASSUME NEW c \in Calls, CopyEnds(c) PROVE ClientInv'
  BY <1>9 DEF CopyEnds, ClientInv, TypeOK, clientVars
<1>10. ASSUME NEW r \in Receivers, Register(r) PROVE ClientInv'
  BY <1>10 DEF Register, ClientInv, clientVars, serverVars
<1>11. CASE UNCHANGED vars
  BY <1>11 DEF vars, ClientInv
<1> QED
  BY NextCases, <1>1, <1>2, <1>3, <1>4, <1>5, <1>6, <1>7, <1>8, <1>9, <1>10, <1>11

LEMMA ServerStep == TypeOK /\ ClientInv /\ ServerInv /\ [Next]_vars => ServerInv'
<1> SUFFICES ASSUME TypeOK, ClientInv, ServerInv, [Next]_vars PROVE ServerInv'
  OBVIOUS
<1>1. ASSUME NEW c \in Calls, Post(c) PROVE ServerInv'
  BY <1>1, SMTT(30) DEF Post, ClientInv, ServerInv, TypeOK
<1>2. ASSUME NEW c \in Calls, ServeHTTP(c) PROVE ServerInv'
  <2>1. CASE refuse(c)
    <3>1. /\ srv[c] = "request" /\ UNCHANGED <<ran, used, receiver>>
          /\ resp' = [resp EXCEPT ![c] = [code |-> 400, body |-> "text"]]
          /\ srv' = [srv EXCEPT ![c] = "replied"]
      BY <1>2, <2>1 DEF ServeHTTP, refuse
    <3> QED
      BY <3>1, Names, SMTT(30) DEF ServerInv, TypeOK
  <2>2. CASE receiver # NoReceiver /\ run(c)
    <3>1. PICK r \in Outcomes, a \in Responses : RunAs(c, r, a)
      BY <2>2, RunStep
    <3>2. UNCHANGED receiver
      BY <1>2 DEF ServeHTTP
    <3>3. \A d \in Calls \ {c} : /\ ran'[d] = ran[d] /\ resp'[d] = resp[d]
                                 /\ srv'[d] = srv[d] /\ used'[d] = used[d]
      BY <3>1, SMTT(30) DEF TypeOK, RunAs
    <3>4. ran'[c] = r /\ resp'[c] = a /\ srv'[c] = (IF r.stream THEN "stream" ELSE "replied") /\ used'[c] = receiver
      BY <3>1, SMTT(30) DEF TypeOK, RunAs
    <3> QED
      BY <2>2, <3>1, <3>2, <3>3, <3>4, SMTT(30) DEF ServerInv, RunAs
  <2> QED
    BY <1>2, <2>1, <2>2 DEF ServeHTTP
<1>3. ASSUME NEW c \in Calls, CopyEnds(c) PROVE ServerInv'
  <2>1. /\ srv[c] = "stream" /\ srv' = [srv EXCEPT ![c] = "replied"] /\ UNCHANGED <<ran, used, receiver>>
        /\ \A d \in Calls \ {c} : resp'[d] = resp[d]
    BY <1>3 DEF CopyEnds, TypeOK
  <2>2. resp'[c].code = resp[c].code /\ resp'[c].body \in {"stream", "badstream"}
    BY <1>3, SMTT(30) DEF CopyEnds, TypeOK, Responses
  <2> QED
    BY <2>1, <2>2, SMTT(30) DEF ServerInv, TypeOK
<1>4. ASSUME NEW r \in Receivers, Register(r) PROVE ServerInv'
  BY <1>4, SMTT(30) DEF Register, ServerInv, serverVars
<1>5. ASSUME UNCHANGED serverVars, UNCHANGED receiver PROVE ServerInv'
  BY <1>5, SMTT(30) DEF serverVars, ServerInv
<1>6. ASSUME NEW c \in Calls, EncodeFails(c) \/ getClient(c) \/ PostFails(c) \/ Respond(c)
                              \/ updateClientState(c) \/ ReadStream(c)
      PROVE  UNCHANGED serverVars /\ UNCHANGED receiver
  BY <1>6 DEF EncodeFails, getClient, PostFails, Respond, updateClientState, ReadStream
<1>7. UNCHANGED vars => UNCHANGED serverVars /\ UNCHANGED receiver
  BY DEF vars, serverVars
<1> QED
  BY NextCases, <1>1, <1>2, <1>3, <1>4, <1>5, <1>6, <1>7

LEMMA ResultStep == TypeOK /\ ClientInv /\ ServerInv /\ ResultInv /\ [Next]_vars => ResultInv'
<1> SUFFICES ASSUME TypeOK, ClientInv, ServerInv, ResultInv, [Next]_vars PROVE ResultInv'
  OBVIOUS
<1>1. ASSUME NEW c \in Calls, EncodeFails(c) PROVE ResultInv'
  BY <1>1, Names, ErrType, SMTT(30) DEF EncodeFails, ResultInv, TypeOK, serverVars
<1>2. ASSUME NEW c \in Calls, getClient(c) PROVE ResultInv'
  BY <1>2, SMTT(30) DEF getClient, ResultInv, TypeOK, serverVars
<1>3. ASSUME NEW c \in Calls, Post(c) PROVE ResultInv'
  BY <1>3, SMTT(30) DEF Post, ClientInv, ResultInv, TypeOK
<1>4. ASSUME NEW c \in Calls, PostFails(c) PROVE ResultInv'
  <2>1. result'[c] # nil /\ \A d \in Calls \ {c} : result'[d] = result[d]
    BY <1>4, Names, ErrType, SMTT(30) DEF PostFails, TypeOK
  <2> QED
    BY <1>4, <2>1, SMTT(30) DEF PostFails, ResultInv, TypeOK, serverVars
<1>5. ASSUME NEW c \in Calls, Respond(c) PROVE ResultInv'
  <2>1. /\ result'[c] = nil => resp[c].code = 200
        /\ \A d \in Calls \ {c} : result'[d] = result[d]
    BY <1>5, RespondStep, ResultType, SMTT(30) DEF TypeOK
  <2> QED
    BY <1>5, <2>1, SMTT(30) DEF Respond, ResultInv, TypeOK, serverVars
<1>6. ASSUME NEW c \in Calls, updateClientState(c) PROVE ResultInv'
  BY <1>6, SMTT(30) DEF updateClientState, ResultInv, TypeOK, serverVars
<1>7. ASSUME NEW c \in Calls, ReadStream(c) PROVE ResultInv'
  <2>1. UNCHANGED <<pc, result, srv, ran, resp>> /\ \A d \in Calls \ {c} : read'[d] = read[d]
    BY <1>7, SMTT(30) DEF ReadStream, TypeOK, serverVars
  <2>2. resp[c].body \in {"stream", "badstream"} /\ ran[c].stream
    BY <1>7, SMTT(30) DEF ReadStream, ResultInv, ServerInv
  <2>3. read'[c] = "eof" => srv[c] = "replied" /\ resp[c].body = "stream"
    BY <1>7, <2>2 DEF ReadStream, trailer, TypeOK
  <2> QED
    BY <2>1, <2>2, <2>3, SMTT(30) DEF ResultInv
<1>8. ASSUME NEW c \in Calls, ServeHTTP(c) PROVE ResultInv'
  <2>1. resp[c].code = 0
    BY <1>8, Names DEF ServeHTTP, ServerInv
  <2>2. /\ srv[c] = "request" /\ UNCHANGED <<pc, result, read>>
        /\ \A d \in Calls \ {c} : srv'[d] = srv[d] /\ ran'[d] = ran[d] /\ resp'[d] = resp[d]
    BY <1>8, RunStep, SMTT(30) DEF ServeHTTP, refuse, RunAs, clientVars, TypeOK
  <2> QED
    BY <2>1, <2>2, SMTT(30) DEF ResultInv
<1>9. ASSUME NEW c \in Calls, CopyEnds(c) PROVE ResultInv'
  <2>1. /\ srv[c] = "stream" /\ srv' = [srv EXCEPT ![c] = "replied"] /\ UNCHANGED <<pc, result, read, ran>>
        /\ \A d \in Calls \ {c} : resp'[d] = resp[d]
    BY <1>9 DEF CopyEnds, clientVars, TypeOK
  <2>2. resp'[c].code = resp[c].code
    BY <1>9, SMTT(30) DEF CopyEnds, TypeOK, Responses
  <2> QED
    BY <2>1, <2>2, SMTT(30) DEF ResultInv, TypeOK
<1>10. ASSUME NEW r \in Receivers, Register(r) PROVE ResultInv'
  BY <1>10 DEF Register, ResultInv, clientVars, serverVars
<1>11. CASE UNCHANGED vars
  BY <1>11 DEF vars, ResultInv
<1> QED
  BY NextCases, <1>1, <1>2, <1>3, <1>4, <1>5, <1>6, <1>7, <1>8, <1>9, <1>10, <1>11

RpcInv == TypeOK /\ ClientInv /\ ServerInv /\ ResultInv

LEMMA RpcInvInit == Init => RpcInv
BY Names, SMTT(30) DEF Init, RpcInv, TypeOK, ClientInv, ServerInv, ResultInv, NoHandle, NotRun

LEMMA RpcInvStep == RpcInv /\ [Next]_vars => RpcInv'
BY TypeStep, ClientStep, ServerStep, ResultStep DEF RpcInv

\* A call that returns no error has run its method, on the registered object,
\* and the method has returned none (Call's 200 case, ServeHTTP).
THEOREM OkIsRun == Spec => []OkMeansRun
<1>1. RpcInv => OkMeansRun
  BY DEF RpcInv, ServerInv, ResultInv, OkMeansRun
<1> QED
  BY <1>1, RpcInvInit, RpcInvStep, PTL DEF Spec

\* An error of kind Net is Call's own: it has got no response, whatever errors
\* methods return (PostFails, callResult, decodeError).
THEOREM NetErrorIsLocal == Spec => []NetIsLocal
<1>1. Init => NetIsLocal
  BY DEF Init, NetIsLocal
<1>2. RpcInv /\ NetIsLocal /\ [Next]_vars => NetIsLocal'
  <2> SUFFICES ASSUME RpcInv, NetIsLocal, [Next]_vars PROVE NetIsLocal'
    OBVIOUS
  <2>1. ASSUME NEW c \in Calls, EncodeFails(c) PROVE NetIsLocal'
    <3>1. result'[c].kind = "Invalid" /\ \A d \in Calls \ {c} : result'[d] = result[d]
      BY <2>1, Names, ErrType, SMTT(30) DEF EncodeFails, RpcInv, TypeOK
    <3> QED
      BY <2>1, <3>1 DEF EncodeFails, NetIsLocal
  <2>2. ASSUME NEW c \in Calls, PostFails(c) PROVE NetIsLocal'
    BY <2>2 DEF PostFails, RpcInv, TypeOK, ClientInv, NetIsLocal
  <2>3. ASSUME NEW c \in Calls, Respond(c) PROVE NetIsLocal'
    <3>1. /\ result'[c].kind # "Net"
          /\ \A d \in Calls \ {c} : result'[d] = result[d] /\ got'[d] = got[d]
      BY <2>3, RespondStep, ResultType, SMTT(30) DEF RpcInv, TypeOK
    <3> QED
      BY <3>1 DEF NetIsLocal
  <2>4. ASSUME UNCHANGED <<result, got>> PROVE NetIsLocal'
    BY <2>4 DEF NetIsLocal
  <2>5. ASSUME NEW c \in Calls, getClient(c) \/ Post(c) \/ updateClientState(c) \/ ReadStream(c)
                                \/ ServeHTTP(c) \/ CopyEnds(c)
        PROVE  UNCHANGED <<result, got>>
    BY <2>5 DEF getClient, Post, updateClientState, ReadStream, ServeHTTP, CopyEnds, clientVars
  <2>6. ASSUME NEW r \in Receivers, Register(r) PROVE UNCHANGED <<result, got>>
    BY <2>6 DEF Register, clientVars
  <2>7. UNCHANGED vars => UNCHANGED <<result, got>>
    BY DEF vars
  <2> QED
    BY NextCases, <2>1, <2>2, <2>3, <2>4, <2>5, <2>6, <2>7
<1> QED
  BY <1>1, <1>2, RpcInvInit, RpcInvStep, PTL DEF Spec

\* The error of a method, and that of the reader it returned, reach the caller
\* (ServeHTTP, decodeError, streamReader.Read).
THEOREM ErrorsReach == Spec => []MethodErrorReaches
<1> DEFINE Reached == \A c \in Calls :
             got[c] = "whole" /\ ran[c].err # nil =>
                 \/ result[c] = err("Remote", ran[c].err.sev)
                 \/ ran[c].stream \/ resp[c].body = "text"
<1>1. Init => Reached
  BY DEF Init
<1>2. RpcInv /\ Reached /\ [Next]_vars => Reached'
  <2> SUFFICES ASSUME RpcInv, Reached, [Next]_vars PROVE Reached'
    OBVIOUS
  <2>1. ASSUME NEW c \in Calls, EncodeFails(c) \/ PostFails(c) PROVE Reached'
    <3>1. got[c] = "none" /\ UNCHANGED <<got, ran, resp>> /\ \A d \in Calls \ {c} : result'[d] = result[d]
      BY <2>1, SMTT(30) DEF EncodeFails, PostFails, serverVars, RpcInv, TypeOK, ClientInv
    <3> QED
      BY <3>1
  <2>2. ASSUME NEW c \in Calls, Respond(c) PROVE Reached'
    <3>0. PICK whole \in BOOLEAN : /\ got' = [got EXCEPT ![c] = IF whole THEN "whole" ELSE "broken"]
                                   /\ result' = [result EXCEPT ![c] = callResult(c, whole)]
      BY <2>2, RespondStep
    <3>1. /\ \A d \in Calls \ {c} : result'[d] = result[d] /\ got'[d] = got[d]
          /\ result'[c] = callResult(c, whole)
          /\ got'[c] = "whole" => whole
      BY <3>0, SMTT(30) DEF RpcInv, TypeOK
    <3>2. UNCHANGED <<ran, resp>>
      BY <2>2 DEF Respond, serverVars
    <3>3. ran[c].err # nil =>
             resp[c].code = 590 /\ (ran[c].stream \/ resp[c].body \in {"error", "text"})
      BY DEF RpcInv, ServerInv
    <3>4. whole /\ resp[c].code = 590 /\ resp[c].body = "error" =>
             callResult(c, whole) = err("Remote", ran[c].err.sev)
      BY SMTT(30) DEF callResult, decodeError
    <3>5. got'[c] = "whole" /\ ran[c].err # nil =>
             result'[c] = err("Remote", ran[c].err.sev) \/ ran[c].stream \/ resp[c].body = "text"
      BY <3>1, <3>3, <3>4
    <3> QED
      BY <3>1, <3>2, <3>5
  <2>3. ASSUME NEW c \in Calls, ServeHTTP(c) PROVE Reached'
    <3>1. /\ got[c] = "none" /\ UNCHANGED <<result, got>>
          /\ \A d \in Calls \ {c} : ran'[d] = ran[d] /\ resp'[d] = resp[d]
      BY <2>3, RunStep, SMTT(30) DEF ServeHTTP, refuse, RunAs, clientVars, RpcInv, TypeOK, ClientInv
    <3> QED
      BY <3>1
  <2>4. ASSUME NEW c \in Calls, CopyEnds(c) PROVE Reached'
    <3>1. /\ ran[c].stream /\ UNCHANGED <<result, got, ran>>
          /\ \A d \in Calls \ {c} : resp'[d] = resp[d]
      BY <2>4, SMTT(30) DEF CopyEnds, clientVars, RpcInv, TypeOK, ServerInv
    <3> QED
      BY <3>1
  <2>5. ASSUME UNCHANGED <<result, got, ran, resp>> PROVE Reached'
    BY <2>5
  <2>6. ASSUME NEW c \in Calls, getClient(c) \/ Post(c) \/ updateClientState(c) \/ ReadStream(c)
        PROVE  UNCHANGED <<result, got, ran, resp>>
    BY <2>6 DEF getClient, Post, updateClientState, ReadStream, serverVars
  <2>7. ASSUME NEW r \in Receivers, Register(r) PROVE UNCHANGED <<result, got, ran, resp>>
    BY <2>7 DEF Register, clientVars, serverVars
  <2>8. UNCHANGED vars => UNCHANGED <<result, got, ran, resp>>
    BY DEF vars
  <2> QED
    BY NextCases, <2>1, <2>2, <2>3, <2>4, <2>5, <2>6, <2>7, <2>8
<1>3. RpcInv /\ Reached => MethodErrorReaches
  BY DEF RpcInv, ResultInv, MethodErrorReaches
<1> QED
  BY <1>1, <1>2, <1>3, RpcInvInit, RpcInvStep, PTL DEF Spec

-----------------------------------------------------------------------------
(* The cache of clients.                                                   *)

\* The steps that leave the client's bookkeeping alone.
cacheVars == <<pc, handle, cached, made, conn, result>>

LEMMA CacheFrame ==
    ASSUME [Next]_vars
    PROVE  \/ \E c \in Calls : EncodeFails(c) \/ getClient(c) \/ Post(c) \/ PostFails(c) \/ Respond(c)
                               \/ updateClientState(c) \/ ReadStream(c)
           \/ UNCHANGED cacheVars
<1>1. ASSUME NEW c \in Calls, ServeHTTP(c) \/ CopyEnds(c) PROVE UNCHANGED cacheVars
  BY <1>1 DEF ServeHTTP, CopyEnds, clientVars, cacheVars
<1>2. ASSUME NEW r \in Receivers, Register(r) PROVE UNCHANGED cacheVars
  BY <1>2 DEF Register, clientVars, cacheVars
<1>3. UNCHANGED vars => UNCHANGED cacheVars
  BY DEF vars, cacheVars
<1> QED
  BY NextCases, <1>1, <1>2, <1>3

\* No call uses a client that has failed, and a failure takes no newer client
\* away (getClient, updateClientState).
THEOREM FailedClientDropped == Spec => []FailedClientGone
<1> USE DEF NoHandle
<1>1. Init => FailedClientGone
  BY SMTT(30) DEF Init, FailedClientGone
<1>2. RpcInv /\ FailedClientGone /\ [Next]_vars => FailedClientGone'
  <2> SUFFICES ASSUME RpcInv, FailedClientGone, [Next]_vars PROVE FailedClientGone'
    OBVIOUS
  <2>0. TypeOK /\ ClientInv
    BY DEF RpcInv
  <2>1. ASSUME NEW c \in Calls, EncodeFails(c) PROVE FailedClientGone'
    <3>2. /\ pc[c] = "idle" /\ UNCHANGED <<handle, cached, made>>
          /\ \A d \in Calls \ {c} : pc'[d] = pc[d] /\ result'[d] = result[d]
      BY <2>0, <2>1 DEF EncodeFails, TypeOK
    <3>3. handle[c] = NoHandle
      BY <2>0, <3>2 DEF ClientInv
    <3> QED
      BY <3>2, <3>3 DEF FailedClientGone
  <2>2. ASSUME NEW c \in Calls, getClient(c) PROVE FailedClientGone'
    <3>1. cached' # NoHandle /\ (cached' = cached \/ cached' = made + 1)
      BY <2>0, <2>2, SMTT(30) DEF getClient, TypeOK
    <3>2. \A d \in Calls \ {c} : pc'[d] = pc[d] /\ result'[d] = result[d] /\ handle'[d] = handle[d]
      BY <2>0, <2>2 DEF getClient, TypeOK
    <3>3. pc'[c] = "client"
      BY <2>0, <2>2 DEF getClient, TypeOK
    <3>4. \A d \in Calls : handle[d] # made + 1
      BY <2>0, SMTT(30) DEF TypeOK
    <3> QED
      BY <3>1, <3>2, <3>3, <3>4 DEF FailedClientGone
  <2>3. ASSUME NEW c \in Calls, Post(c) \/ PostFails(c) \/ Respond(c) PROVE FailedClientGone'
    <3>1. /\ pc[c] # "done" /\ pc'[c] # "done" /\ UNCHANGED <<handle, cached, made>>
          /\ \A d \in Calls \ {c} : pc'[d] = pc[d] /\ result'[d] = result[d]
      BY <2>0, <2>3, RespondStep, SMTT(30) DEF Post, PostFails, Respond, TypeOK
    <3> QED
      BY <3>1 DEF FailedClientGone
  <2>4. ASSUME NEW c \in Calls, updateClientState(c) PROVE FailedClientGone'
    <3>1. /\ pc[c] = "update" /\ pc'[c] = "done" /\ UNCHANGED <<handle, made, result>>
          /\ \A d \in Calls \ {c} : pc'[d] = pc[d]
          /\ cached' = IF result[c] # nil /\ cached = handle[c] THEN NoHandle ELSE cached
      BY <2>0, <2>4 DEF updateClientState, TypeOK
    <3>2. handle[c] # NoHandle
      BY <2>0, <3>1 DEF ClientInv
    <3>3. CASE result[c] # nil /\ cached = handle[c]
      <4>1. cached' = NoHandle /\ handle[c] = made
        BY <2>0, <3>1, <3>2, <3>3 DEF TypeOK
      <4> QED
        BY <3>1, <3>3, <4>1 DEF FailedClientGone
    <3>4. CASE ~(result[c] # nil /\ cached = handle[c])
      BY <3>1, <3>4 DEF FailedClientGone
    <3> QED
      BY <3>3, <3>4
  <2>5. ASSUME NEW c \in Calls, ReadStream(c) PROVE FailedClientGone'
    BY <2>5 DEF ReadStream, FailedClientGone
  <2>6. CASE UNCHANGED cacheVars
    BY <2>6 DEF cacheVars, FailedClientGone
  <2> QED
    BY CacheFrame, <2>1, <2>2, <2>3, <2>4, <2>5, <2>6
<1> QED
  BY <1>1, <1>2, RpcInvInit, RpcInvStep, PTL DEF Spec

\* An idle connection of a client that is no longer cached will be closed, or
\* carried a stream (Call, updateClientState).
THEOREM IdleIsReclaimed == Spec => []IdleReclaimed
<1>1. Init => IdleReclaimed
  BY DEF Init, IdleReclaimed
<1>2. RpcInv /\ IdleReclaimed /\ [Next]_vars => IdleReclaimed'
  <2> SUFFICES ASSUME RpcInv, IdleReclaimed, [Next]_vars PROVE IdleReclaimed'
    OBVIOUS
  <2>0. TypeOK /\ ClientInv
    BY DEF RpcInv
  <2>1. ASSUME NEW c \in Calls, EncodeFails(c) PROVE IdleReclaimed'
    <3>1. /\ pc[c] = "idle" /\ conn[c] = "none" /\ UNCHANGED <<handle, cached, conn>>
          /\ \A d \in Calls \ {c} : pc'[d] = pc[d] /\ result'[d] = result[d]
      BY <2>0, <2>1 DEF EncodeFails, TypeOK, ClientInv
    <3> QED
      BY <3>1, SMTT(30) DEF IdleReclaimed
  <2>2. ASSUME NEW c \in Calls, getClient(c) PROVE IdleReclaimed'
    <3>1. /\ pc[c] = "idle" /\ conn[c] = "none" /\ UNCHANGED <<conn, result>>
          /\ \A d \in Calls \ {c} : pc'[d] = pc[d] /\ handle'[d] = handle[d]
          /\ cached # NoHandle => cached' = cached
      BY <2>0, <2>2 DEF getClient, TypeOK, ClientInv
    <3>2. \A d \in Calls : conn[d] = "idle" => handle[d] # NoHandle
      BY <2>0 DEF ClientInv
    <3> QED
      BY <3>1, <3>2, SMTT(30) DEF IdleReclaimed
  <2>3. ASSUME NEW c \in Calls, Post(c) \/ PostFails(c) PROVE IdleReclaimed'
    <3>1. /\ pc[c] \in {"client", "post"} /\ pc'[c] \in {"post", "update"}
          /\ \A d \in Calls \ {c} : pc'[d] = pc[d] /\ result'[d] = result[d]
          /\ UNCHANGED <<handle, cached>>
      BY <2>0, <2>3, SMTT(30) DEF Post, PostFails, TypeOK
    <3>2. \A d \in Calls : conn'[d] = "idle" => conn[d] = "idle"
      BY <2>0, <2>3, SMTT(30) DEF Post, Connect, PostFails, TypeOK
    <3> QED
      BY <3>1, <3>2, SMTT(30) DEF IdleReclaimed
  <2>4. ASSUME NEW c \in Calls, Respond(c) PROVE IdleReclaimed'
    <3>1. /\ pc[c] = "post" /\ pc'[c] = "update"
          /\ \A d \in Calls \ {c} : pc'[d] = pc[d] /\ result'[d] = result[d] /\ conn'[d] = conn[d]
          /\ UNCHANGED <<handle, cached>>
      BY <2>0, <2>4, RespondStep, SMTT(30) DEF Respond, TypeOK
    <3> QED
      BY <3>1, SMTT(30) DEF IdleReclaimed
  <2>5. ASSUME NEW c \in Calls, updateClientState(c) PROVE IdleReclaimed'
    <3>1. /\ pc'[c] = "done" /\ UNCHANGED <<handle, result>>
          /\ \A d \in Calls \ {c} : pc'[d] = pc[d]
          /\ cached' = IF result[c] # nil /\ cached = handle[c] THEN NoHandle ELSE cached
          /\ \A d \in Calls : conn'[d] = "idle" =>
                conn[d] = "idle" /\ (cached' = handle[c] \/ handle[d] # handle[c])
      BY <2>0, <2>5 DEF updateClientState, TypeOK
    <3>2. ASSUME NEW d \in Calls, conn'[d] = "idle", handle'[d] # cached'
          PROVE  conn[d] = "idle" /\ handle[d] # handle[c] /\ handle[d] # cached
      BY <3>1, <3>2
    <3> QED
      BY <3>1, <3>2, SMTT(30) DEF IdleReclaimed
  <2>6. ASSUME NEW c \in Calls, ReadStream(c) PROVE IdleReclaimed'
    <3>1. /\ c \in Streams /\ result[c] = nil /\ UNCHANGED <<pc, handle, cached, result>>
          /\ \A d \in Calls \ {c} : conn'[d] = conn[d]
      BY <2>0, <2>6 DEF ReadStream, TypeOK
    <3> QED
      BY <3>1, SMTT(30) DEF IdleReclaimed
  <2>7. CASE UNCHANGED cacheVars
    BY <2>7 DEF cacheVars, IdleReclaimed
  <2> QED
    BY CacheFrame, <2>1, <2>2, <2>3, <2>4, <2>5, <2>6, <2>7
<1> QED
  BY <1>1, <1>2, RpcInvInit, RpcInvStep, PTL DEF Spec
-----------------------------------------------------------------------------
(* The statistics of a process: what its calls have counted.               *)

StatsNames == {"method", "machine"} \cup {Method[c] : c \in StatsCalls} \cup {Addr[c] : c \in StatsCalls}

\* r is what follows the first k elements of q.
Suffix(r, q, k) ==
    /\ k \in 0 .. Len(q)
    /\ Len(r) = Len(q) - k
    /\ \A i \in 1 .. Len(r) : r[i] = q[i + k]

\* The children that name leads to from the nodes S of the tree T.
nexts(T, S, name) == {t[3] : t \in {u \in T : u[1] \in S /\ u[2] = name}}

\* Every node but the root is the child of one node under one name, and a node
\* has one child of a name.
TreeOK(T, N) ==
    /\ N \in Nat
    /\ T \subseteq Nat \X StatsNames \X (1 .. N)
    /\ \A t, u \in T : (t[1] = u[1] /\ t[2] = u[2]) \/ t[3] = u[3] => t = u

\* The path that a call is at, or was at last.
cur(c) == Len(paths(c)) - Len(todo[c])
curPath(c) == paths(c)[cur(c)]

descending(c) == callPc[c] \in {"child", "lock", "locked", "make"}
walking(c) == descending(c) \/ callPc[c] \in {"add", "max", "set"}

\* A call is somewhere on its path, which what it has left completes.
WalkOK(c) ==
    /\ Suffix(todo[c], paths(c), cur(c))
    /\ walking(c) => cur(c) \in 1 .. Len(paths(c))
    /\ descending(c) => \E k \in 0 .. Len(curPath(c)) - 1 :
                            /\ Suffix(rest[c], curPath(c), k)
                            /\ at[c] \in reached(tree, curPath(c))[k]
    /\ callPc[c] \in {"add", "max", "set"} => at[c] \in nodesOf(curPath(c))
    /\ callPc[c] \in {"add", "rpc"} => c \notin done
    /\ callPc[c] \in {"max", "set", "end"} => c \in done
    /\ callPc[c] \in {"rpc", "end"} => todo[c] = <<>>
WalkInv == \A c \in StatsCalls : WalkOK(c)

\* The mutex of a node: who is between Lock and Unlock holds it, alone, and
\* nobody makes the child that one is about to make.
locking(c) == callPc[c] \in {"locked", "make"}
MutexInv ==
    \A c \in StatsCalls : locking(c) =>
        /\ <<at[c], c>> \in mu
        /\ \A d \in StatsCalls : locking(d) /\ at[d] = at[c] => d = c
        /\ callPc[c] = "make" => nexts(tree, {at[c]}, Head(rest[c])) = {}

\* The paths of c that this walk has finished with.
finished(c) == {i \in 1 .. Len(paths(c)) : i < cur(c) \/ (i = cur(c) /\ ~walking(c))}

CountOK(c, i) == \E n \in nodesOf(paths(c)[i]) : <<n, c>> \in counted
CountInv ==
    \A c \in StatsCalls : \A i \in 1 .. Len(paths(c)) : c \in done \/ i \in finished(c) => CountOK(c, i)

\* The values that are set at n in S, and the one of them.
valuesIn(S, n) == {t[2] : t \in {u \in S : u[1] = n}}
valueIn(S, n) == IF valuesIn(S, n) = {} THEN 0 ELSE only(valuesIn(S, n))

\* S with the value v set at n.
put(S, n, v) == {t \in S : t[1] # n} \cup {<<n, v>>}

\* A maxtime is the time of a call whose path leads to it.
TopOK(t) ==
    \E d \in StatsCalls : \E i \in 1 .. Len(paths(d)) :
        t[1] \in nodesOf(paths(d)[i]) /\ t[2] = Elapsed[d]
TopInv == done \subseteq StatsCalls /\ \A t \in top : TopOK(t)

\* Two calls between comparison and Set have raced; one that has not raced sets
\* a larger value; and the maxtime that a call has left behind is not below its
\* own.
setting(c) == callPc[c] = "set"
Larger(c, n) ==
    /\ n \notin raced => valueIn(top, n) >= Elapsed[c]
    /\ valuesIn(top, n) = {} => Elapsed[c] = 0
RaceInv ==
    \A c \in StatsCalls : setting(c) /\ at[c] \notin raced =>
        /\ \A d \in StatsCalls : setting(d) /\ at[d] = at[c] => d = c
        /\ Elapsed[c] > valueIn(top, at[c])
MaxInv == \A c \in done : \A i \in finished(c) : \A n \in nodesOf(paths(c)[i]) : Larger(c, n)

StatsTypeOK ==
    /\ callPc \in [StatsCalls -> {"path", "child", "lock", "locked", "make", "add", "rpc", "max", "set", "end"}]
    /\ at \in [StatsCalls -> Nat]
    /\ rest \in [StatsCalls -> Seq(StatsNames)]
    /\ todo \in [StatsCalls -> Seq(Seq(StatsNames))]
    /\ TreeOK(tree, nodes)

-----------------------------------------------------------------------------
(* Paths, and where they lead.                                             *)

LEMMA PathsAre ==
    ASSUME NEW c \in StatsCalls
    PROVE  /\ paths(c) \in Seq(Seq(StatsNames))
           /\ Len(paths(c)) \in {1, 2}
           /\ paths(c)[1] = <<"method", Method[c]>>
           /\ Len(paths(c)) = 2 => paths(c)[2] = <<"machine", Addr[c], "method", Method[c]>>
<1>1. <<"method", Method[c]>> \in Seq(StatsNames) /\ <<"machine", Addr[c], "method", Method[c]>> \in Seq(StatsNames)
  BY SMTT(30) DEF StatsNames
<1>2. CASE Addr[c] = NoAddr
  <2> DEFINE q == <<"method", Method[c]>>
  <2>1. q \in Seq(StatsNames)
    BY <1>1
  <2> HIDE DEF q
  <2>2. <<q>> \o <<>> \in Seq(Seq(StatsNames)) /\ Len(<<q>> \o <<>>) = 1 /\ (<<q>> \o <<>>)[1] = q
    BY <2>1, SMTT(30)
  <2>3. paths(c) = <<q>> \o <<>>
    BY <1>2 DEF paths, q
  <2> QED
    BY <2>2, <2>3, SMTT(30) DEF q
<1>3. CASE Addr[c] # NoAddr
  <2> DEFINE q == <<"method", Method[c]>>
             r == <<"machine", Addr[c], "method", Method[c]>>
  <2>1. q \in Seq(StatsNames) /\ r \in Seq(StatsNames)
    BY <1>1
  <2> HIDE DEF q, r
  <2>2. /\ <<q>> \o <<r>> \in Seq(Seq(StatsNames)) /\ Len(<<q>> \o <<r>>) = 2
        /\ (<<q>> \o <<r>>)[1] = q /\ (<<q>> \o <<r>>)[2] = r
    BY <2>1, SMTT(30)
  <2>3. paths(c) = <<q>> \o <<r>>
    BY <1>3 DEF paths, q, r
  <2> QED
    BY <2>2, <2>3 DEF q, r
<1> QED
  BY <1>2, <1>3

LEMMA IndexIs ==
    ASSUME NEW c \in StatsCalls, NEW i \in 1 .. Len(paths(c))
    PROVE  i = 1 \/ (i = 2 /\ Len(paths(c)) = 2)
<1>1. CASE Len(paths(c)) = 1
  BY <1>1, SMTT(30)
<1>2. CASE Len(paths(c)) = 2
  BY <1>2, SMTT(30)
<1> QED
  BY <1>1, <1>2, PathsAre

\* One path of a call.
LEMMA PathIs ==
    ASSUME NEW c \in StatsCalls, NEW i \in 1 .. Len(paths(c))
    PROVE  /\ paths(c)[i] \in Seq(StatsNames)
           /\ Len(paths(c)[i]) \in {2, 4}
<1>1. i = 1 \/ (i = 2 /\ Len(paths(c)) = 2)
  BY IndexIs
<1>2. paths(c)[i] \in {<<"method", Method[c]>>, <<"machine", Addr[c], "method", Method[c]>>}
  BY <1>1, PathsAre
<1>3. <<"method", Method[c]>> \in Seq(StatsNames) /\ <<"machine", Addr[c], "method", Method[c]>> \in Seq(StatsNames)
  BY SMTT(30) DEF StatsNames
<1> QED
  BY <1>2, <1>3

LEMMA InRange ==
    ASSUME NEW c \in StatsCalls, NEW p
    PROVE  p \in Range(paths(c)) <=> \E i \in 1 .. Len(paths(c)) : p = paths(c)[i]
<1>1. DOMAIN paths(c) = 1 .. Len(paths(c))
  BY PathsAre, SMTT(30)
<1> QED
  BY <1>1 DEF Range

LEMMA SuffixWhole ==
    ASSUME NEW S, NEW q \in Seq(S)
    PROVE  Suffix(q, q, 0)
<1>1. Len(q) \in Nat
  BY SMTT(30)
<1>2. \A i \in 1 .. Len(q) : q[i] = q[i + 0]
  BY <1>1, SMTT(30)
<1>3. 0 \in 0 .. Len(q) /\ Len(q) = Len(q) - 0
  BY <1>1, SMTT(30)
<1> QED
  BY <1>2, <1>3 DEF Suffix

LEMMA SuffixStep ==
    ASSUME NEW S, NEW q \in Seq(S), NEW r \in Seq(S), NEW k, Suffix(r, q, k)
    PROVE  /\ k = Len(q) <=> r = <<>>
           /\ k < Len(q) => Head(r) = q[k + 1] /\ Suffix(Tail(r), q, k + 1) /\ Tail(r) \in Seq(S)
<1>1. Len(q) \in Nat /\ Len(r) \in Nat /\ k \in 0 .. Len(q) /\ Len(r) = Len(q) - k
  BY SMTT(30) DEF Suffix
<1>2. Len(r) = 0 <=> r = <<>>
  BY SMTT(30)
<1>3. ASSUME k < Len(q) PROVE Head(r) = q[k + 1] /\ Suffix(Tail(r), q, k + 1) /\ Tail(r) \in Seq(S)
  <2>1. Len(r) >= 1 /\ r # <<>>
    BY <1>1, <1>2, <1>3, SMTT(30)
  <2>2. Head(r) = r[1] /\ Tail(r) \in Seq(S) /\ Len(Tail(r)) = Len(r) - 1
    BY <2>1, SMTT(30)
  <2>3. \A i \in 1 .. Len(r) : r[i] = q[i + k]
    BY DEF Suffix
  <2>4. Head(r) = q[k + 1]
    BY <1>1, <2>1, <2>2, <2>3, SMTT(30)
  <2>5. ASSUME NEW i \in 1 .. Len(Tail(r)) PROVE Tail(r)[i] = q[i + (k + 1)]
    <3>1. Tail(r)[i] = r[i + 1] /\ i + 1 \in 1 .. Len(r)
      BY <1>1, <2>1, <2>2, SMTT(30)
    <3>2. r[i + 1] = q[(i + 1) + k] /\ (i + 1) + k = i + (k + 1)
      BY <1>1, <2>2, <2>3, <3>1, SMTT(30)
    <3> QED
      BY <3>1, <3>2
  <2>6. k + 1 \in 0 .. Len(q) /\ Len(Tail(r)) = Len(q) - (k + 1)
    BY <1>1, <1>3, <2>2, SMTT(30)
  <2> QED
    BY <2>2, <2>4, <2>5, <2>6 DEF Suffix
<1>4. k = Len(q) <=> Len(r) = 0
  BY <1>1, SMTT(30)
<1> QED
  BY <1>2, <1>3, <1>4

\* What holds at the root of a path and is kept by each of its names.
LEMMA AllSteps ==
    ASSUME NEW p, NEW B, Len(p) \in {2, 4}, 0 \in B, \A i \in 1 .. Len(p) : i - 1 \in B => i \in B
    PROVE  \A k \in 0 .. Len(p) : k \in B
<1>1. 1 \in B
  <2>1. 1 \in 1 .. Len(p) /\ 1 - 1 = 0
    BY SMTT(30)
  <2> QED
    BY <2>1
<1>2. 2 \in B
  <2>1. 2 \in 1 .. Len(p) /\ 2 - 1 = 1
    BY SMTT(30)
  <2> QED
    BY <1>1, <2>1, SMTT(30)
<1>3. ASSUME Len(p) = 4 PROVE 3 \in B
  <2>1. 3 \in 1 .. Len(p) /\ 3 - 1 = 2
    BY <1>3, SMTT(30)
  <2> QED
    BY <1>2, <2>1
<1>4. ASSUME Len(p) = 4 PROVE 4 \in B
  <2>1. 4 \in 1 .. Len(p) /\ 4 - 1 = 3
    BY <1>4, SMTT(30)
  <2> QED
    BY <1>3, <1>4, <2>1, SMTT(30)
<1>5. CASE Len(p) = 2
  <2>1. \A k \in 0 .. Len(p) : k = 0 \/ k = 1 \/ k = 2
    BY <1>5, SMTT(30)
  <2> QED
    BY <1>1, <1>2, <2>1
<1>6. CASE Len(p) = 4
  <2>1. \A k \in 0 .. Len(p) : k = 0 \/ k = 1 \/ k = 2 \/ k = 3 \/ k = 4
    BY <1>6, SMTT(30)
  <2> QED
    BY <1>1, <1>2, <1>3, <1>4, <1>6, <2>1
<1> QED
  BY <1>5, <1>6

LEMMA ReachedAre ==
    ASSUME NEW T, NEW p, Len(p) \in {2, 4}
    PROVE  /\ reached(T, p)[0] = {0}
           /\ \A k \in 1 .. Len(p) : reached(T, p)[k] = nexts(T, reached(T, p)[k - 1], p[k])
<1> DEFINE F(f) == f = [k \in 0 .. Len(p) |-> IF k = 0 THEN {0} ELSE nexts(T, f[k - 1], p[k])]
           s1 == nexts(T, {0}, p[1])
           s2 == nexts(T, s1, p[2])
           s3 == nexts(T, s2, p[3])
           s4 == nexts(T, s3, p[4])
           g == [k \in 0 .. Len(p) |-> IF k = 0 THEN {0} ELSE IF k = 1 THEN s1 ELSE IF k = 2 THEN s2
                                       ELSE IF k = 3 THEN s3 ELSE s4]
<1>1. F(g)
  <2>1. ASSUME NEW k \in 0 .. Len(p)
        PROVE  g[k] = IF k = 0 THEN {0} ELSE nexts(T, g[k - 1], p[k])
    <3>1. CASE k = 0
      BY <3>1
    <3>2. CASE k = 1
      <4>1. g[0] = {0} /\ g[1] = s1
        BY SMTT(30)
      <4> QED
        BY <3>2, <4>1, SMTT(30)
    <3>3. CASE k = 2
      <4>1. g[1] = s1 /\ g[2] = s2
        BY SMTT(30)
      <4> QED
        BY <3>3, <4>1, SMTT(30)
    <3>4. CASE k = 3
      <4>1. g[2] = s2 /\ g[3] = s3
        BY <3>4, SMTT(30)
      <4> QED
        BY <3>4, <4>1, SMTT(30)
    <3>5. CASE k = 4
      <4>1. g[3] = s3 /\ g[4] = s4
        BY <3>5, SMTT(30)
      <4> QED
        BY <3>5, <4>1, SMTT(30)
    <3>6. k = 0 \/ k = 1 \/ k = 2 \/ k = 3 \/ k = 4
      <4>1. CASE Len(p) = 2
        BY <4>1, SMTT(30)
      <4>2. CASE Len(p) = 4
        BY <4>2, SMTT(30)
      <4> QED
        BY <4>1, <4>2
    <3> QED
      BY <3>1, <3>2, <3>3, <3>4, <3>5, <3>6
  <2> HIDE DEF s1, s2, s3, s4
  <2>2. g = [k \in 0 .. Len(p) |-> g[k]]
    OBVIOUS
  <2> HIDE DEF g
  <2> QED
    BY <2>1, <2>2
<1>2. F(CHOOSE f : F(f))
  BY <1>1
<1>3. reached(T, p) = CHOOSE f : F(f)
  BY DEF reached, nexts
<1>4. F(reached(T, p))
  BY <1>2, <1>3
<1> QED
  <2> DEFINE h == reached(T, p)
  <2>1. h = [k \in 0 .. Len(p) |-> IF k = 0 THEN {0} ELSE nexts(T, h[k - 1], p[k])]
    BY <1>4
  <2> HIDE DEF h
  <2>2. \A k \in 0 .. Len(p) : h[k] = IF k = 0 THEN {0} ELSE nexts(T, h[k - 1], p[k])
    BY <2>1
  <2>3. h[0] = {0} /\ \A k \in 1 .. Len(p) : h[k] = nexts(T, h[k - 1], p[k])
    BY <2>2, SMTT(30)
  <2> QED
    BY <2>3 DEF h

\* A larger tree leads wherever the smaller one does.
LEMMA ReachedGrows ==
    ASSUME NEW T, NEW U, NEW p, NEW k \in 0 .. Len(p), T \subseteq U, Len(p) \in {2, 4}
    PROVE  reached(T, p)[k] \subseteq reached(U, p)[k]
<1>1. ASSUME NEW R, NEW S, R \subseteq S, NEW x PROVE nexts(T, R, x) \subseteq nexts(U, S, x)
  BY <1>1 DEF nexts
<1> DEFINE f == reached(T, p)
           g == reached(U, p)
<1>2. f[0] = {0} /\ g[0] = {0} /\ \A i \in 1 .. Len(p) : f[i] = nexts(T, f[i - 1], p[i]) /\ g[i] = nexts(U, g[i - 1], p[i])
  BY ReachedAre, SMTT(30)
<1> HIDE DEF f, g
<1> DEFINE B == {i \in 0 .. Len(p) : f[i] \subseteq g[i]}
<1>3. 0 \in B
  BY <1>2, SMTT(30)
<1>4. ASSUME NEW i \in 1 .. Len(p), i - 1 \in B PROVE i \in B
  BY <1>1, <1>2, <1>4, SMTT(30)
<1>5. k \in B
  <2> HIDE DEF B
  <2> QED
    BY <1>3, <1>4, AllSteps, SMTT(30)
<1> QED
  BY <1>5 DEF f, g

\* A path leads to one node.
LEMMA ReachedOne ==
    ASSUME NEW T, NEW N, NEW p, NEW k \in 0 .. Len(p), NEW m \in reached(T, p)[k], NEW n \in reached(T, p)[k],
           TreeOK(T, N), Len(p) \in {2, 4}
    PROVE  m = n
<1> DEFINE f == reached(T, p)
<1>1. f[0] = {0} /\ \A i \in 1 .. Len(p) : f[i] = nexts(T, f[i - 1], p[i])
  BY ReachedAre, SMTT(30)
<1>2. ASSUME NEW S, \A x, y \in S : x = y, NEW name, NEW x \in nexts(T, S, name), NEW y \in nexts(T, S, name)
      PROVE  x = y
  <2>1. PICK t \in T : t[1] \in S /\ t[2] = name /\ t[3] = x
    BY DEF nexts
  <2>2. PICK u \in T : u[1] \in S /\ u[2] = name /\ u[3] = y
    BY DEF nexts
  <2>3. t = u
    BY <1>2, <2>1, <2>2 DEF TreeOK
  <2> QED
    BY <2>1, <2>2, <2>3
<1> DEFINE B == {i \in 0 .. Len(p) : \A x, y \in f[i] : x = y}
<1> HIDE DEF f
<1>3. 0 \in B
  BY <1>1, SMTT(30)
<1>4. ASSUME NEW i \in 1 .. Len(p), i - 1 \in B PROVE i \in B
  <2>1. f[i] = nexts(T, f[i - 1], p[i]) /\ \A x, y \in f[i - 1] : x = y
    BY <1>1, <1>4
  <2>2. \A x, y \in f[i] : x = y
    BY <1>2, <2>1, SMTT(30)
  <2> QED
    BY <2>2, SMTT(30)
<1>5. k \in B
  <2> HIDE DEF B
  <2> QED
    BY <1>3, <1>4, AllSteps, SMTT(30)
<1> QED
  BY <1>5 DEF f

\* A node is a child of one node, by one name.
LEMMA OneParent ==
    ASSUME NEW T, NEW N, NEW R, NEW S, NEW x, NEW y, NEW n \in nexts(T, R, x),
           TreeOK(T, N), n \in nexts(T, S, y)
    PROVE  n # 0 /\ x = y /\ \E m \in R : m \in S
<1>1. PICK t \in T : t[1] \in R /\ t[2] = x /\ t[3] = n
  BY DEF nexts
<1>2. PICK u \in T : u[1] \in S /\ u[2] = y /\ u[3] = n
  BY DEF nexts
<1>3. t = u
  BY <1>1, <1>2 DEF TreeOK
<1>4. t[3] \in 1 .. N /\ N \in Nat
  BY DEF TreeOK
<1> QED
  BY <1>1, <1>2, <1>3, <1>4, SMTT(30)

LEMMA ShortPath ==
    ASSUME NEW T, NEW x, NEW y
    PROVE  /\ reached(T, <<x, y>>)[1] = nexts(T, {0}, x)
           /\ reached(T, <<x, y>>)[2] = nexts(T, reached(T, <<x, y>>)[1], y)
<1> DEFINE p == <<x, y>>
           f == reached(T, p)
<1>1. Len(p) = 2 /\ p[1] = x /\ p[2] = y
  BY SMTT(30)
<1> HIDE DEF p
<1>2. f[0] = {0} /\ \A k \in 1 .. Len(p) : f[k] = nexts(T, f[k - 1], p[k])
  BY <1>1, ReachedAre, SMTT(30)
<1> HIDE DEF f
<1>3. 1 \in 1 .. 2 /\ 2 \in 1 .. 2 /\ 1 - 1 = 0 /\ 2 - 1 = 1
  BY SMTT(30)
<1>4. f[1] = nexts(T, {0}, x) /\ f[2] = nexts(T, f[1], y)
  BY <1>1, <1>2, <1>3
<1> QED
  BY <1>4 DEF f, p

LEMMA LongPath ==
    ASSUME NEW T, NEW w, NEW x, NEW y, NEW z
    PROVE  /\ reached(T, <<w, x, y, z>>)[2] = nexts(T, reached(T, <<w, x, y, z>>)[1], x)
           /\ reached(T, <<w, x, y, z>>)[3] = nexts(T, reached(T, <<w, x, y, z>>)[2], y)
           /\ reached(T, <<w, x, y, z>>)[4] = nexts(T, reached(T, <<w, x, y, z>>)[3], z)
<1> DEFINE p == <<w, x, y, z>>
           f == reached(T, p)
<1>1. Len(p) = 4 /\ p[2] = x /\ p[3] = y /\ p[4] = z
  BY SMTT(30)
<1> HIDE DEF p
<1>2. \A k \in 1 .. Len(p) : f[k] = nexts(T, f[k - 1], p[k])
  BY <1>1, ReachedAre, SMTT(30)
<1> HIDE DEF f
<1>3. 2 \in 1 .. 4 /\ 3 \in 1 .. 4 /\ 4 \in 1 .. 4 /\ 2 - 1 = 1 /\ 3 - 1 = 2 /\ 4 - 1 = 3
  BY SMTT(30)
<1>4. f[2] = nexts(T, f[1], x) /\ f[3] = nexts(T, f[2], y) /\ f[4] = nexts(T, f[3], z)
  BY <1>1, <1>2, <1>3
<1> QED
  BY <1>4 DEF f, p

\* Two different paths lead to two different nodes.
LEMMA PathsApart ==
    ASSUME NEW T, NEW N, NEW c \in StatsCalls, NEW d \in StatsCalls,
           NEW i \in 1 .. Len(paths(c)), NEW j \in 1 .. Len(paths(d)),
           NEW n \in reached(T, paths(c)[i])[Len(paths(c)[i])],
           TreeOK(T, N), n \in reached(T, paths(d)[j])[Len(paths(d)[j])]
    PROVE  paths(c)[i] = paths(d)[j]
<1> DEFINE short(e) == <<"method", Method[e]>>
           long(e) == <<"machine", Addr[e], "method", Method[e]>>
<1>1. ASSUME NEW e \in StatsCalls, NEW l \in 1 .. Len(paths(e)) PROVE paths(e)[l] \in {short(e), long(e)}
  <2>2. l = 1 \/ (l = 2 /\ Len(paths(e)) = 2)
    BY IndexIs
  <2> QED
    BY <2>2, PathsAre
<1>2. ASSUME NEW e \in StatsCalls
      PROVE  /\ reached(T, short(e))[1] = nexts(T, {0}, "method")
             /\ reached(T, short(e))[2] = nexts(T, reached(T, short(e))[1], Method[e])
             /\ reached(T, long(e))[2] = nexts(T, reached(T, long(e))[1], Addr[e])
             /\ reached(T, long(e))[3] = nexts(T, reached(T, long(e))[2], "method")
             /\ reached(T, long(e))[4] = nexts(T, reached(T, long(e))[3], Method[e])
  BY ShortPath, LongPath, SMTT(30)
<1>3. ASSUME NEW e \in StatsCalls, NEW a \in StatsCalls,
             NEW m \in reached(T, short(e))[2], m \in reached(T, long(a))[4]
      PROVE  FALSE
  <2> DEFINE f == reached(T, short(e))
             g == reached(T, long(a))
  <2>1. /\ f[1] = nexts(T, {0}, "method") /\ f[2] = nexts(T, f[1], Method[e])
        /\ g[2] = nexts(T, g[1], Addr[a]) /\ g[3] = nexts(T, g[2], "method") /\ g[4] = nexts(T, g[3], Method[a])
    BY <1>2
  <2>2. m \in f[2] /\ m \in g[4]
    BY <1>3
  <2> HIDE DEF f, g
  <2>3. PICK m1 \in f[1] : m1 \in g[3]
    BY <2>1, <2>2, OneParent, SMTT(30)
  <2>4. PICK m2 \in {0} : m2 \in g[2]
    BY <2>1, <2>3, OneParent, SMTT(30)
  <2>5. m2 # 0
    BY <2>1, <2>4, OneParent, SMTT(30)
  <2> QED
    BY <2>4, <2>5
<1>4. ASSUME NEW e \in StatsCalls, NEW a \in StatsCalls,
             NEW m \in reached(T, short(e))[2], m \in reached(T, short(a))[2]
      PROVE  short(e) = short(a)
  <2> DEFINE f == reached(T, short(e))
             g == reached(T, short(a))
  <2>1. f[2] = nexts(T, f[1], Method[e]) /\ g[2] = nexts(T, g[1], Method[a])
    BY <1>2
  <2>2. m \in f[2] /\ m \in g[2]
    BY <1>4
  <2> HIDE DEF f, g
  <2>3. Method[e] = Method[a]
    BY <2>1, <2>2, OneParent, SMTT(30)
  <2> QED
    BY <2>3
<1>5. ASSUME NEW e \in StatsCalls, NEW a \in StatsCalls,
             NEW m \in reached(T, long(e))[4], m \in reached(T, long(a))[4]
      PROVE  long(e) = long(a)
  <2> DEFINE f == reached(T, long(e))
             g == reached(T, long(a))
  <2>1. /\ f[4] = nexts(T, f[3], Method[e]) /\ g[4] = nexts(T, g[3], Method[a])
        /\ f[3] = nexts(T, f[2], "method") /\ g[3] = nexts(T, g[2], "method")
        /\ f[2] = nexts(T, f[1], Addr[e]) /\ g[2] = nexts(T, g[1], Addr[a])
    BY <1>2
  <2>2. m \in f[4] /\ m \in g[4]
    BY <1>5
  <2> HIDE DEF f, g
  <2>4. Method[e] = Method[a] /\ \E m1 \in f[3] : m1 \in g[3]
    BY <2>1, <2>2, OneParent, SMTT(30)
  <2>5. \E m2 \in f[2] : m2 \in g[2]
    BY <2>1, <2>4, OneParent, SMTT(30)
  <2>6. Addr[e] = Addr[a]
    BY <2>1, <2>5, OneParent, SMTT(30)
  <2> QED
    BY <2>4, <2>6
<1>6. \A e \in StatsCalls : Len(short(e)) = 2 /\ Len(long(e)) = 4
  OBVIOUS
<1> HIDE DEF short, long
<1>7. CASE paths(c)[i] = short(c) /\ paths(d)[j] = short(d)
  BY <1>4, <1>6, <1>7
<1>8. CASE paths(c)[i] = short(c) /\ paths(d)[j] = long(d)
  BY <1>3, <1>6, <1>8
<1>9. CASE paths(c)[i] = long(c) /\ paths(d)[j] = short(d)
  BY <1>3, <1>6, <1>9
<1>10. CASE paths(c)[i] = long(c) /\ paths(d)[j] = long(d)
  BY <1>5, <1>6, <1>10
<1>11. paths(c)[i] \in {short(c), long(c)} /\ paths(d)[j] \in {short(d), long(d)}
  BY <1>1
<1> QED
  BY <1>7, <1>8, <1>9, <1>10, <1>11

-----------------------------------------------------------------------------
(* The walks.                                                              *)

LEMMA CallCases == [StatsNext]_statsVars <=> (\E c \in StatsCalls : CallNext(c)) \/ UNCHANGED statsVars
  BY DEF StatsNext

\* A call on its way down has a name to follow.
LEMMA Descends ==
    ASSUME StatsTypeOK, NEW c \in StatsCalls, WalkOK(c), descending(c)
    PROVE  \E k \in 0 .. Len(curPath(c)) - 1 :
               /\ Suffix(rest[c], curPath(c), k) /\ at[c] \in reached(tree, curPath(c))[k]
               /\ Head(rest[c]) = curPath(c)[k + 1] /\ Head(rest[c]) \in StatsNames
               /\ Tail(rest[c]) \in Seq(StatsNames) /\ Suffix(Tail(rest[c]), curPath(c), k + 1)
<1> DEFINE p == curPath(c)
<1>1. cur(c) \in 1 .. Len(paths(c))
  BY DEF WalkOK, walking
<1>2. p \in Seq(StatsNames) /\ Len(p) \in {2, 4}
  BY <1>1, PathIs DEF curPath
<1>3. PICK k \in 0 .. Len(p) - 1 : Suffix(rest[c], p, k) /\ at[c] \in reached(tree, p)[k]
  BY DEF WalkOK
<1>4. rest[c] \in Seq(StatsNames)
  BY DEF StatsTypeOK
<1> HIDE DEF p
<1>a. Len(p) = 2 \/ Len(p) = 4
  BY <1>2
<1>5. Len(p) \in Nat /\ k < Len(p) /\ k + 1 \in 1 .. Len(p)
  BY <1>a, SMTT(30)
<1>6. Head(rest[c]) = p[k + 1] /\ Tail(rest[c]) \in Seq(StatsNames) /\ Suffix(Tail(rest[c]), p, k + 1)
  BY <1>2, <1>3, <1>4, <1>5, SuffixStep, SMTT(30)
<1>7. p[k + 1] \in StatsNames
  BY <1>2, <1>5, SMTT(30)
<1> QED
  BY <1>3, <1>6, <1>7 DEF p

\* What Get returns is a child, and only makes sense for a child.
LEMMA Gets ==
    ASSUME NEW n, NEW name
    PROVE  /\ get(n, name) = nexts(tree, {n}, name)
           /\ get(n, name) # {} => only(get(n, name)) \in get(n, name)
  BY DEF get, nexts, only

LEMMA NextsAre ==
    ASSUME NEW T, NEW S, NEW n \in S, NEW name
    PROVE  nexts(T, {n}, name) \subseteq nexts(T, S, name)
  BY DEF nexts

\* A child is made where there is none, so the tree only grows.
LEMMA TreeStep ==
    ASSUME StatsTypeOK, WalkInv, MutexInv, [StatsNext]_statsVars
    PROVE  TreeOK(tree, nodes)' /\ tree \subseteq tree'
<1>1. ASSUME NEW c \in StatsCalls, MakeChild(c) PROVE TreeOK(tree, nodes)' /\ tree \subseteq tree'
  <2> DEFINE new == <<at[c], Head(rest[c]), nodes + 1>>
  <2>1. descending(c) /\ WalkOK(c)
    BY <1>1 DEF MakeChild, descending, WalkInv
  <2>2. Head(rest[c]) \in StatsNames
    BY <2>1, Descends
  <2>3. get(at[c], Head(rest[c])) = {}
    BY <1>1, Gets DEF MakeChild, MutexInv, locking
  <2>4. \A t \in tree : ~(t[1] = at[c] /\ t[2] = Head(rest[c]))
    BY <2>3 DEF get
  <2>5. tree' = tree \cup {new} /\ nodes' = nodes + 1
    BY <1>1, <2>4 DEF MakeChild
  <2>6. nodes \in Nat /\ tree \subseteq Nat \X StatsNames \X (1 .. nodes) /\ at[c] \in Nat
    BY DEF StatsTypeOK, TreeOK
  <2>7. new \in Nat \X StatsNames \X (1 .. nodes + 1) /\ nodes + 1 \in Nat
    BY <2>2, <2>6, SMTT(30)
  <2>8. tree \subseteq Nat \X StatsNames \X (1 .. nodes + 1) /\ \A t \in tree : t[3] # nodes + 1
    BY <2>6, SMTT(30)
  <2>9. new[1] = at[c] /\ new[2] = Head(rest[c]) /\ new[3] = nodes + 1
    OBVIOUS
  <2> HIDE DEF new
  <2>10. \A t, u \in tree : (t[1] = u[1] /\ t[2] = u[2]) \/ t[3] = u[3] => t = u
    BY DEF StatsTypeOK, TreeOK
  <2>11. \A t \in tree : ~((t[1] = new[1] /\ t[2] = new[2]) \/ t[3] = new[3])
    BY <2>4, <2>8, <2>9
  <2>12. \A t, u \in tree' : (t[1] = u[1] /\ t[2] = u[2]) \/ t[3] = u[3] => t = u
    BY <2>5, <2>10, <2>11
  <2> QED
    BY <2>5, <2>7, <2>8, <2>12 DEF TreeOK
<1>2. CASE UNCHANGED <<tree, nodes>>
  BY <1>2 DEF StatsTypeOK, TreeOK
<1>3. ASSUME NEW c \in StatsCalls, CallNext(c), ~MakeChild(c) PROVE UNCHANGED <<tree, nodes>>
  BY <1>3 DEF CallNext, Path, Child, Lock, ChildLocked, Add, RpcDone, maxRead, maxSet, treeVars
<1>4. UNCHANGED statsVars => UNCHANGED <<tree, nodes>>
  BY DEF statsVars, treeVars
<1> QED
  BY <1>1, <1>2, <1>3, <1>4, CallCases

\* The walk of a call that does not move, in a tree that may grow.
LEMMA WalkKept ==
    ASSUME NEW c \in StatsCalls, WalkOK(c), tree \subseteq tree',
           at'[c] = at[c], rest'[c] = rest[c], todo'[c] = todo[c], c \in done' <=> c \in done,
           \/ callPc'[c] = callPc[c]
           \/ descending(c) /\ callPc'[c] \in {"lock", "locked", "make"}
           \/ callPc[c] = "max" /\ callPc'[c] = "set"
           \/ callPc'[c] = "path"
    PROVE  WalkOK(c)'
<1>1. cur(c)' = cur(c) /\ curPath(c)' = curPath(c)
  BY DEF cur, curPath
<1>2. (descending(c)' => descending(c)) /\ (walking(c)' => walking(c))
  BY DEF descending, walking
<1>3. walking(c) => cur(c) \in 1 .. Len(paths(c))
  BY DEF WalkOK
<1>4. ASSUME walking(c) PROVE Len(curPath(c)) \in {2, 4}
  BY <1>3, <1>4, PathIs DEF curPath
<1>5. ASSUME descending(c)'
      PROVE  \E k \in 0 .. Len(curPath(c)) - 1 : Suffix(rest[c], curPath(c), k) /\ at[c] \in reached(tree', curPath(c))[k]
  <2>1. descending(c) /\ walking(c)
    BY <1>2, <1>5 DEF walking
  <2>2. PICK k \in 0 .. Len(curPath(c)) - 1 : Suffix(rest[c], curPath(c), k) /\ at[c] \in reached(tree, curPath(c))[k]
    BY <2>1 DEF WalkOK
  <2>3. Len(curPath(c)) \in {2, 4}
    BY <1>4, <2>1
  <2>4. k \in 0 .. Len(curPath(c))
    BY <2>3, SMTT(30)
  <2>5. reached(tree, curPath(c))[k] \subseteq reached(tree', curPath(c))[k]
    BY <2>3, <2>4, ReachedGrows
  <2> QED
    BY <2>2, <2>5
<1>6. ASSUME callPc'[c] \in {"add", "max", "set"}
      PROVE  at[c] \in reached(tree', curPath(c))[Len(curPath(c))]
  <2>1. callPc[c] \in {"add", "max", "set"} /\ walking(c)
    BY <1>6 DEF walking, descending
  <2>2. at[c] \in reached(tree, curPath(c))[Len(curPath(c))]
    BY <2>1 DEF WalkOK, nodesOf
  <2>3. Len(curPath(c)) \in {2, 4}
    BY <1>4, <2>1
  <2>4. Len(curPath(c)) \in 0 .. Len(curPath(c))
    BY <2>3, SMTT(30)
  <2>5. reached(tree, curPath(c))[Len(curPath(c))] \subseteq reached(tree', curPath(c))[Len(curPath(c))]
    BY <2>3, <2>4, ReachedGrows
  <2> QED
    BY <2>2, <2>5
<1>7. Suffix(todo'[c], paths(c), cur(c)) /\ (walking(c)' => cur(c) \in 1 .. Len(paths(c)))
  BY <1>2 DEF WalkOK
<1>8. /\ callPc'[c] \in {"add", "rpc"} => c \notin done'
      /\ callPc'[c] \in {"max", "set", "end"} => c \in done'
      /\ callPc'[c] \in {"rpc", "end"} => todo'[c] = <<>>
  BY DEF WalkOK, descending
<1> QED
  BY <1>1, <1>5, <1>6, <1>7, <1>8 DEF WalkOK, nodesOf

\* A call goes down to a child.
LEMMA Moved ==
    ASSUME StatsTypeOK, NEW c \in StatsCalls, NEW n, WalkOK(c), descending(c), moveTo(c, n),
           UNCHANGED <<todo, done>>, tree \subseteq tree', n \in nexts(tree', {at[c]}, Head(rest[c]))
    PROVE  WalkOK(c)'
<1> DEFINE p == curPath(c)
<1>1. PICK k \in 0 .. Len(p) - 1 :
            /\ Suffix(rest[c], p, k) /\ at[c] \in reached(tree, p)[k]
            /\ Head(rest[c]) = p[k + 1] /\ Suffix(Tail(rest[c]), p, k + 1)
  BY Descends
<1>2. cur(c) \in 1 .. Len(paths(c))
  BY DEF WalkOK, walking
<1>3. Len(p) \in {2, 4}
  BY <1>2, PathIs DEF curPath
<1>4. cur(c)' = cur(c) /\ curPath(c)' = p
  BY DEF cur, curPath
<1> HIDE DEF p
<1>5. k \in 0 .. Len(p) /\ k + 1 \in 1 .. Len(p) /\ (k + 1) - 1 = k /\ Len(p) \in Nat
  BY <1>3, SMTT(30)
<1>6. at[c] \in reached(tree', p)[k]
  BY <1>1, <1>3, <1>5, ReachedGrows
<1>7. n \in nexts(tree', reached(tree', p)[k], p[k + 1])
  BY <1>1, <1>6, NextsAre
<1>8. reached(tree', p)[k + 1] = nexts(tree', reached(tree', p)[(k + 1) - 1], p[k + 1])
  BY <1>3, <1>5, ReachedAre, SMTT(30)
<1>9. n \in reached(tree', p)[k + 1]
  BY <1>5, <1>7, <1>8
<1>10. /\ at'[c] = n /\ rest'[c] = Tail(rest[c]) /\ todo'[c] = todo[c] /\ done' = done
       /\ callPc'[c] = IF Len(rest[c]) > 1 THEN "child" ELSE IF c \in done THEN "max" ELSE "add"
  BY DEF moveTo, go, StatsTypeOK
<1>11. Suffix(todo'[c], paths(c), cur(c))
  BY <1>10 DEF WalkOK
<1>12. Len(rest[c]) = Len(p) - k
  BY <1>1 DEF Suffix
<1>13. CASE Len(rest[c]) > 1
  <2>1. k + 1 \in 0 .. Len(p) - 1
    BY <1>5, <1>12, <1>13, SMTT(30)
  <2>2. callPc'[c] = "child"
    BY <1>10, <1>13
  <2>3. \E l \in 0 .. Len(p) - 1 : Suffix(rest'[c], p, l) /\ at'[c] \in reached(tree', p)[l]
    BY <1>1, <1>9, <1>10, <2>1
  <2> QED
    BY <1>2, <1>4, <1>11, <2>2, <2>3 DEF WalkOK, descending
<1>14. CASE ~(Len(rest[c]) > 1)
  <2>1. k + 1 = Len(p)
    BY <1>5, <1>12, <1>14, SMTT(30)
  <2>2. callPc'[c] = IF c \in done THEN "max" ELSE "add"
    BY <1>10, <1>14
  <2>3. at'[c] \in reached(tree', p)[Len(p)]
    BY <1>9, <1>10, <2>1
  <2>4. c \in done' <=> c \in done
    BY <1>10
  <2> QED
    BY <1>2, <1>4, <1>11, <2>2, <2>3, <2>4 DEF WalkOK, descending, nodesOf
<1> QED
  BY <1>13, <1>14

\* What Child returns: the child that is there.
LEMMA Found ==
    ASSUME StatsTypeOK, NEW c \in StatsCalls, get(at[c], Head(rest[c])) # {}
    PROVE  LET n == only(get(at[c], Head(rest[c])))
           IN  n \in Nat /\ n \in nexts(tree, {at[c]}, Head(rest[c]))
<1> DEFINE n == only(get(at[c], Head(rest[c])))
<1>1. n \in nexts(tree, {at[c]}, Head(rest[c]))
  BY Gets
<1>2. \A t \in tree : t[3] \in 1 .. nodes
  BY DEF StatsTypeOK, TreeOK
<1>3. n \in 1 .. nodes /\ nodes \in Nat
  BY <1>1, <1>2 DEF nexts, StatsTypeOK, TreeOK
<1> QED
  BY <1>1, <1>3, SMTT(30)

LEMMA OthersWalk ==
    ASSUME StatsTypeOK, WalkInv, tree \subseteq tree', NEW c \in StatsCalls, CallNext(c)
    PROVE  \A d \in StatsCalls \ {c} : WalkOK(d)'
<1> SUFFICES ASSUME NEW d \in StatsCalls, d # c PROVE WalkOK(d)'
  OBVIOUS
<1>1. /\ callPc'[d] = callPc[d] /\ at'[d] = at[d] /\ rest'[d] = rest[d] /\ todo'[d] = todo[d]
      /\ d \in done' <=> d \in done
  BY DEF CallNext, Path, Child, Lock, ChildLocked, MakeChild, Add, RpcDone, maxRead, maxSet, moveTo, go,
         walkVars, StatsTypeOK
<1> QED
  BY <1>1, WalkKept DEF WalkInv

LEMMA WalkStep ==
    ASSUME StatsTypeOK, WalkInv, MutexInv, [StatsNext]_statsVars
    PROVE  WalkInv'
<1>0. tree \subseteq tree'
  BY TreeStep
<1>a. ASSUME NEW c \in StatsCalls, CallNext(c), WalkOK(c)' PROVE WalkInv'
  BY <1>0, <1>a, OthersWalk DEF WalkInv
<1>b. ASSUME NEW c \in StatsCalls PROVE WalkOK(c)
  BY DEF WalkInv
<1>1. ASSUME NEW c \in StatsCalls, Path(c) PROVE WalkOK(c)'
  <2>1. /\ todo[c] \in Seq(Seq(StatsNames)) /\ paths(c) \in Seq(Seq(StatsNames)) /\ Suffix(todo[c], paths(c), cur(c))
        /\ Len(paths(c)) \in Nat
    BY <1>b, PathsAre, SMTT(30) DEF StatsTypeOK, WalkOK
  <2>2. CASE todo[c] = <<>>
    <3>1. todo'[c] = todo[c] /\ callPc'[c] = (IF c \in done THEN "end" ELSE "rpc") /\ done' = done
      BY <1>1, <2>2 DEF Path, go, walkVars, StatsTypeOK
    <3>2. cur(c)' = cur(c)
      BY <3>1 DEF cur
    <3>3. c \in done' <=> c \in done
      BY <3>1
    <3> QED
      BY <2>1, <2>2, <3>1, <3>2, <3>3 DEF WalkOK, descending, walking
  <2>3. CASE todo[c] # <<>>
    <3>1. /\ todo'[c] = Tail(todo[c]) /\ callPc'[c] = "child" /\ at'[c] = 0 /\ rest'[c] = Head(todo[c])
      BY <1>1, <2>3 DEF Path, go, walkVars, StatsTypeOK
    <3>2. cur(c) \in 0 .. Len(paths(c)) /\ cur(c) # Len(paths(c)) /\ Len(todo[c]) = Len(paths(c)) - cur(c)
      BY <2>1, <2>3, SuffixStep, SMTT(30) DEF Suffix
    <3>3. Head(todo[c]) = paths(c)[cur(c) + 1] /\ Suffix(Tail(todo[c]), paths(c), cur(c) + 1)
      BY <2>1, <3>2, SuffixStep, SMTT(30)
    <3>4. Len(Tail(todo[c])) = Len(paths(c)) - (cur(c) + 1)
      BY <3>3 DEF Suffix
    <3>5. cur(c)' = cur(c) + 1
      <4>1. cur(c)' = Len(paths(c)) - Len(Tail(todo[c]))
        BY <3>1 DEF cur
      <4>2. cur(c) \in Nat /\ Len(paths(c)) \in Nat
        BY <2>1, <3>2, SMTT(30)
      <4> QED
        BY <3>4, <4>1, <4>2, SMTT(30)
    <3>6. cur(c) + 1 \in 1 .. Len(paths(c))
      BY <2>1, <3>2, SMTT(30)
    <3> DEFINE p == paths(c)[cur(c) + 1]
    <3>7. p \in Seq(StatsNames) /\ Len(p) \in {2, 4}
      BY <3>6, PathIs
    <3>8. curPath(c)' = p
      BY <3>5 DEF curPath
    <3> HIDE DEF p
    <3>9. Suffix(p, p, 0) /\ 0 \in 0 .. Len(p) - 1
      BY <3>7, SuffixWhole, SMTT(30)
    <3>10. 0 \in reached(tree', p)[0]
      BY <3>7, ReachedAre, SMTT(30)
    <3>11. rest'[c] = p
      BY <3>1, <3>3 DEF p
    <3>12. \E k \in 0 .. Len(p) - 1 : Suffix(rest'[c], p, k) /\ at'[c] \in reached(tree', p)[k]
      BY <3>1, <3>9, <3>10, <3>11
    <3>13. Suffix(todo'[c], paths(c), cur(c)')
      BY <3>1, <3>3, <3>5
    <3> QED
      BY <3>1, <3>5, <3>6, <3>8, <3>12, <3>13 DEF WalkOK, descending, walking
  <2> QED
    BY <2>2, <2>3
<1>2. ASSUME NEW c \in StatsCalls, Child(c) \/ ChildLocked(c) PROVE WalkOK(c)'
  <2>1. descending(c) /\ UNCHANGED <<todo, done, tree>>
    BY <1>2 DEF Child, ChildLocked, descending, treeVars
  <2>2. CASE get(at[c], Head(rest[c])) = {}
    <3>1. callPc'[c] \in {"lock", "make"} /\ UNCHANGED <<at, rest>>
      BY <1>2, <2>2 DEF Child, ChildLocked, go, StatsTypeOK
    <3> QED
      BY <1>0, <1>b, <2>1, <3>1, WalkKept
  <2>3. CASE get(at[c], Head(rest[c])) # {}
    <3>1. PICK n : n \in nexts(tree, {at[c]}, Head(rest[c])) /\ moveTo(c, n)
      BY <1>2, <2>3, Found DEF Child, ChildLocked
    <3> QED
      BY <1>0, <1>b, <2>1, <3>1, Moved
  <2> QED
    BY <2>2, <2>3
<1>3. ASSUME NEW c \in StatsCalls, MakeChild(c) PROVE WalkOK(c)'
  <2>1. descending(c) /\ UNCHANGED <<todo, done>> /\ moveTo(c, nodes + 1)
    BY <1>3 DEF MakeChild, descending
  <2>2. <<at[c], Head(rest[c]), nodes + 1>> \in tree'
    BY <1>3 DEF MakeChild
  <2>3. nodes + 1 \in nexts(tree', {at[c]}, Head(rest[c]))
    BY <2>2, SMTT(30) DEF nexts
  <2> QED
    BY <1>0, <1>b, <2>1, <2>3, Moved
<1>4. ASSUME NEW c \in StatsCalls, Lock(c) \/ Add(c) \/ maxRead(c) \/ maxSet(c) PROVE WalkOK(c)'
  <2>1. /\ UNCHANGED <<at, rest, todo, done>>
        /\ \/ descending(c) /\ callPc'[c] = "locked"
           \/ callPc'[c] = "path"
           \/ callPc[c] = "max" /\ callPc'[c] = "set"
    BY <1>4 DEF Lock, Add, maxRead, maxSet, go, walkVars, StatsTypeOK, descending
  <2> QED
    BY <1>0, <1>b, <2>1, WalkKept
<1>5. ASSUME NEW c \in StatsCalls, RpcDone(c) PROVE WalkOK(c)'
  <2>1. todo'[c] = paths(c) /\ callPc'[c] = "path"
    BY <1>5 DEF RpcDone, go, StatsTypeOK
  <2>2. Len(paths(c)) \in Nat
    BY PathsAre, SMTT(30)
  <2>3. cur(c)' = 0
    BY <2>1, <2>2, SMTT(30) DEF cur
  <2>4. Suffix(paths(c), paths(c), 0)
    BY PathsAre, SuffixWhole
  <2> QED
    BY <2>1, <2>3, <2>4 DEF WalkOK, descending, walking
<1>6. CASE UNCHANGED statsVars
  BY <1>0, <1>6, WalkKept DEF WalkInv, statsVars, walkVars
<1>7. ASSUME NEW c \in StatsCalls, CallNext(c) PROVE WalkOK(c)'
  BY <1>1, <1>2, <1>3, <1>4, <1>5, <1>7 DEF CallNext
<1> QED
  BY <1>a, <1>6, <1>7, CallCases

LEMMA StatsTypeStep ==
    ASSUME StatsTypeOK, WalkInv, MutexInv, [StatsNext]_statsVars
    PROVE  StatsTypeOK'
<1>0. TreeOK(tree, nodes)'
  BY TreeStep
<1>a. ASSUME NEW c \in StatsCalls, descending(c), NEW n \in Nat, moveTo(c, n), UNCHANGED todo
      PROVE  StatsTypeOK'
  <2>1. WalkOK(c)
    BY DEF WalkInv
  <2>2. Tail(rest[c]) \in Seq(StatsNames)
    BY <1>a, <2>1, Descends
  <2> QED
    BY <1>0, <1>a, <2>2 DEF moveTo, go, StatsTypeOK
<1>1. ASSUME NEW c \in StatsCalls, Path(c) PROVE StatsTypeOK'
  <2>1. todo[c] # <<>> => Head(todo[c]) \in Seq(StatsNames) /\ Tail(todo[c]) \in Seq(Seq(StatsNames))
    BY SMTT(30) DEF StatsTypeOK
  <2>2. CASE todo[c] = <<>>
    <3>1. callPc' = [callPc EXCEPT ![c] = IF c \in done THEN "end" ELSE "rpc"] /\ UNCHANGED <<at, rest, todo>>
      BY <1>1, <2>2 DEF Path, go, walkVars
    <3> QED
      BY <1>0, <3>1 DEF StatsTypeOK
  <2>3. CASE todo[c] # <<>>
    <3>1. /\ callPc' = [callPc EXCEPT ![c] = "child"] /\ at' = [at EXCEPT ![c] = 0]
          /\ rest' = [rest EXCEPT ![c] = Head(todo[c])] /\ todo' = [todo EXCEPT ![c] = Tail(todo[c])]
      BY <1>1, <2>3 DEF Path, go, walkVars, StatsTypeOK
    <3> QED
      BY <1>0, <2>1, <2>3, <3>1 DEF StatsTypeOK
  <2> QED
    BY <2>2, <2>3
<1>2. ASSUME NEW c \in StatsCalls, Child(c) \/ ChildLocked(c) PROVE StatsTypeOK'
  <2>1. descending(c) /\ UNCHANGED todo
    BY <1>2 DEF Child, ChildLocked, descending
  <2>2. CASE get(at[c], Head(rest[c])) = {}
    <3>1. PICK l \in {"lock", "make"} : callPc' = [callPc EXCEPT ![c] = l]
      BY <1>2, <2>2 DEF Child, ChildLocked, go
    <3>2. UNCHANGED <<at, rest>>
      BY <1>2, <2>2 DEF Child, ChildLocked
    <3> QED
      BY <1>0, <2>1, <3>1, <3>2 DEF StatsTypeOK
  <2>3. CASE get(at[c], Head(rest[c])) # {}
    <3>1. PICK n \in Nat : moveTo(c, n)
      BY <1>2, <2>3, Found DEF Child, ChildLocked
    <3> QED
      BY <1>a, <2>1, <3>1
  <2> QED
    BY <2>2, <2>3
<1>3. ASSUME NEW c \in StatsCalls, MakeChild(c) PROVE StatsTypeOK'
  <2>1. descending(c) /\ UNCHANGED todo /\ moveTo(c, nodes + 1)
    BY <1>3 DEF MakeChild, descending
  <2>2. nodes + 1 \in Nat
    BY SMTT(30) DEF StatsTypeOK, TreeOK
  <2> QED
    BY <1>a, <2>1, <2>2
<1>4. ASSUME NEW c \in StatsCalls, Lock(c) \/ Add(c) \/ maxRead(c) \/ maxSet(c) PROVE StatsTypeOK'
  <2>1. PICK l \in {"locked", "path", "set"} : callPc' = [callPc EXCEPT ![c] = l]
    BY <1>4 DEF Lock, Add, maxRead, maxSet, go
  <2>2. UNCHANGED <<at, rest, todo>>
    BY <1>4 DEF Lock, Add, maxRead, maxSet, walkVars
  <2> QED
    BY <1>0, <2>1, <2>2 DEF StatsTypeOK
<1>5. ASSUME NEW c \in StatsCalls, RpcDone(c) PROVE StatsTypeOK'
  <2>1. paths(c) \in Seq(Seq(StatsNames))
    BY PathsAre
  <2> QED
    BY <1>0, <1>5, <2>1 DEF RpcDone, go, StatsTypeOK
<1>6. CASE UNCHANGED statsVars
  BY <1>0, <1>6 DEF StatsTypeOK, statsVars, walkVars
<1> QED
  BY <1>1, <1>2, <1>3, <1>4, <1>5, <1>6, CallCases DEF CallNext

\* The mutex keeps calls apart between the second look and the Set of a child.
LEMMA MutexStep ==
    ASSUME StatsTypeOK, WalkInv, MutexInv, [StatsNext]_statsVars
    PROVE  MutexInv'
<1> DEFINE Holds(c) == <<at[c], c>> \in mu
           Alone(c) == \A d \in StatsCalls : locking(d) /\ at[d] = at[c] => d = c
           Free(c) == callPc[c] = "make" => nexts(tree, {at[c]}, Head(rest[c])) = {}
           Others(c) == \A d \in StatsCalls \ {c} :
                            callPc'[d] = callPc[d] /\ at'[d] = at[d] /\ rest'[d] = rest[d]
<1>a. \A c \in StatsCalls : locking(c) => Holds(c) /\ Alone(c) /\ Free(c)
  BY DEF MutexInv
<1>b. SUFFICES \A c \in StatsCalls : locking(c)' => Holds(c)' /\ Alone(c)' /\ Free(c)'
  BY DEF MutexInv
<1>c. ASSUME NEW c \in StatsCalls, CallNext(c) PROVE Others(c)
  BY <1>c DEF CallNext, Path, Child, Lock, ChildLocked, MakeChild, Add, RpcDone, maxRead, maxSet, moveTo, go,
              walkVars, StatsTypeOK
<1>1. ASSUME NEW c \in StatsCalls, NEW d \in StatsCalls, d # c, Others(c), ~locking(c)', locking(d)',
             mu \ {<<at[c], c>>} \subseteq mu',
             nexts(tree', {at[d]}, Head(rest[d])) = nexts(tree, {at[d]}, Head(rest[d]))
      PROVE  Holds(d)' /\ Alone(d)' /\ Free(d)'
  <2>1. locking(d) /\ callPc'[d] = callPc[d] /\ at'[d] = at[d] /\ rest'[d] = rest[d]
    BY <1>1 DEF locking
  <2>2. Holds(d) /\ Alone(d) /\ Free(d)
    BY <1>a, <2>1
  <2>3. Holds(d)'
    BY <1>1, <2>1, <2>2
  <2>4. Alone(d)'
    BY <1>1, <2>1, <2>2 DEF locking
  <2>5. Free(d)'
    BY <1>1, <2>1, <2>2
  <2> QED
    BY <2>3, <2>4, <2>5
<1>2. ASSUME NEW c \in StatsCalls, Path(c) \/ Child(c) \/ Add(c) \/ RpcDone(c) \/ maxRead(c) \/ maxSet(c),
             NEW d \in StatsCalls, locking(d)'
      PROVE  Holds(d)' /\ Alone(d)' /\ Free(d)'
  <2>1. ~locking(c)' /\ UNCHANGED <<mu, tree>>
    BY <1>2 DEF locking, Path, Child, Add, RpcDone, maxRead, maxSet, moveTo, go, StatsTypeOK, treeVars
  <2>2. Others(c) /\ d # c
    BY <1>2, <1>c, <2>1 DEF CallNext
  <2> QED
    BY <1>1, <1>2, <2>1, <2>2
<1>3. ASSUME NEW c \in StatsCalls, Lock(c), NEW d \in StatsCalls, locking(d)'
      PROVE  Holds(d)' /\ Alone(d)' /\ Free(d)'
  <2>1. /\ ~ \E e \in StatsCalls : <<at[c], e>> \in mu
        /\ mu' = mu \cup {<<at[c], c>>} /\ UNCHANGED <<at, rest, tree>>
        /\ callPc'[c] = "locked" /\ \A e \in StatsCalls \ {c} : callPc'[e] = callPc[e]
    BY <1>3 DEF Lock, go, walkVars, StatsTypeOK
  <2>2. \A e \in StatsCalls \ {c} : locking(e)' => locking(e) /\ at[e] # at[c]
    BY <1>a, <2>1 DEF locking
  <2>3. Holds(d)'
    BY <1>3, <1>a, <2>1, <2>2
  <2>4. Alone(d)'
    <3>1. CASE d = c
      BY <2>1, <2>2, <3>1
    <3>2. CASE d # c
      BY <1>3, <1>a, <2>1, <2>2, <3>2
    <3> QED
      BY <3>1, <3>2
  <2>5. Free(d)'
    <3>1. CASE d = c
      BY <2>1, <3>1
    <3>2. CASE d # c
      BY <1>3, <1>a, <2>1, <2>2, <3>2
    <3> QED
      BY <3>1, <3>2
  <2> QED
    BY <2>3, <2>4, <2>5
<1>4. ASSUME NEW c \in StatsCalls, ChildLocked(c), NEW d \in StatsCalls, locking(d)'
      PROVE  Holds(d)' /\ Alone(d)' /\ Free(d)'
  <2>1. Others(c) /\ locking(c) /\ tree' = tree
    BY <1>4, <1>c DEF CallNext, ChildLocked, locking
  <2>2. CASE get(at[c], Head(rest[c])) # {}
    <3>1. ~locking(c)' /\ mu' = mu \ {<<at[c], c>>}
      BY <1>4, <2>2 DEF ChildLocked, moveTo, go, locking, StatsTypeOK
    <3>2. d # c
      BY <1>4, <3>1
    <3> QED
      BY <1>1, <1>4, <2>1, <3>1, <3>2
  <2>3. CASE get(at[c], Head(rest[c])) = {}
    <3>1. UNCHANGED <<at, rest, mu>> /\ \A e \in StatsCalls : locking(e)' => locking(e)
      BY <1>4, <2>1, <2>3 DEF ChildLocked, go, locking
    <3>2. nexts(tree, {at[c]}, Head(rest[c])) = {}
      BY <2>3, Gets
    <3>3. Holds(d) /\ Alone(d) /\ Free(d)
      BY <1>4, <1>a, <3>1
    <3>4. Holds(d)' /\ Alone(d)'
      BY <3>1, <3>3
    <3>5. Free(d)'
      <4>1. CASE d = c
        BY <2>1, <3>1, <3>2, <4>1
      <4>2. CASE d # c
        BY <2>1, <3>1, <3>3, <4>2
      <4> QED
        BY <4>1, <4>2
    <3> QED
      BY <3>4, <3>5
  <2> QED
    BY <2>2, <2>3
<1>5. ASSUME NEW c \in StatsCalls, MakeChild(c), NEW d \in StatsCalls, locking(d)'
      PROVE  Holds(d)' /\ Alone(d)' /\ Free(d)'
  <2>1. Others(c) /\ locking(c) /\ ~locking(c)' /\ mu' = mu \ {<<at[c], c>>}
    BY <1>5, <1>c DEF CallNext, MakeChild, moveTo, go, locking, StatsTypeOK
  <2>2. d # c /\ locking(d)
    BY <1>5, <2>1 DEF locking
  <2>3. at[d] # at[c]
    BY <1>a, <2>1, <2>2
  <2>4. nexts(tree', {at[d]}, Head(rest[d])) = nexts(tree, {at[d]}, Head(rest[d]))
    <3> DEFINE new == <<at[c], Head(rest[c]), nodes + 1>>
    <3>1. tree' = {t \in tree : ~(t[1] = at[c] /\ t[2] = Head(rest[c]))} \cup {new} /\ new[1] = at[c]
      BY <1>5 DEF MakeChild
    <3> HIDE DEF new
    <3>2. \A t : t[1] = at[d] => (t \in tree' <=> t \in tree)
      BY <2>3, <3>1
    <3> QED
      BY <3>2 DEF nexts
  <2> QED
    BY <1>1, <1>5, <2>1, <2>2, <2>4
<1>6. ASSUME UNCHANGED statsVars, NEW d \in StatsCalls, locking(d)'
      PROVE  Holds(d)' /\ Alone(d)' /\ Free(d)'
  <2>1. UNCHANGED <<callPc, at, rest, mu, tree>>
    BY <1>6 DEF statsVars, walkVars, treeVars
  <2>2. Holds(d) /\ Alone(d) /\ Free(d)
    BY <1>6, <1>a, <2>1 DEF locking
  <2> QED
    BY <2>1, <2>2 DEF locking
<1> HIDE DEF Holds, Alone, Free
<1> QED
  BY <1>2, <1>3, <1>4, <1>5, <1>6, CallCases DEF CallNext

-----------------------------------------------------------------------------
(* What is counted.                                                        *)

LEMMA PathBegins ==
    ASSUME StatsTypeOK, NEW c \in StatsCalls, WalkOK(c), Path(c), todo[c] # <<>>
    PROVE  cur(c) \in Nat /\ cur(c)' = cur(c) + 1
<1>1. /\ todo[c] \in Seq(Seq(StatsNames)) /\ paths(c) \in Seq(Seq(StatsNames)) /\ Suffix(todo[c], paths(c), cur(c))
      /\ Len(paths(c)) \in Nat
  BY PathsAre, SMTT(30) DEF StatsTypeOK, WalkOK
<1>2. cur(c) \in 0 .. Len(paths(c)) /\ cur(c) # Len(paths(c))
  BY <1>1, SuffixStep, SMTT(30) DEF Suffix
<1>3. Suffix(Tail(todo[c]), paths(c), cur(c) + 1)
  BY <1>1, <1>2, SuffixStep, SMTT(30)
<1>4. todo'[c] = Tail(todo[c])
  BY DEF Path, StatsTypeOK
<1>5. cur(c)' = Len(paths(c)) - Len(Tail(todo[c]))
  BY <1>4 DEF cur
<1>6. Len(Tail(todo[c])) = Len(paths(c)) - (cur(c) + 1)
  BY <1>3 DEF Suffix
<1>7. Len(paths(c)) \in Nat
  BY <1>1
<1>8. cur(c) \in Nat
  BY <1>2, <1>7, SMTT(30)
<1>9. \A l, k \in Nat : l - (l - (k + 1)) = k + 1
  BY SMTT(30)
<1> QED
  BY <1>5, <1>6, <1>7, <1>8, <1>9

\* A step finishes with a path by counting at its node, or by its maxtime.
LEMMA FinishedStep ==
    ASSUME StatsTypeOK, WalkInv, NEW c \in StatsCalls, CallNext(c), NEW d \in StatsCalls, NEW i \in finished(d)'
    PROVE  /\ i \in 1 .. Len(paths(d)) /\ ~(d = c /\ RpcDone(c))
           /\ i \in finished(d) \/ (d = c /\ i = cur(c) /\ (Add(c) \/ maxRead(c) \/ maxSet(c)))
<1>1. i \in 1 .. Len(paths(d)) /\ (i < cur(d)' \/ (i = cur(d)' /\ ~walking(d)'))
  BY DEF finished
<1>2. CASE d # c
  <2>1. callPc'[d] = callPc[d] /\ todo'[d] = todo[d]
    BY <1>2 DEF CallNext, Path, Child, Lock, ChildLocked, MakeChild, Add, RpcDone, maxRead, maxSet, moveTo, go,
                walkVars, StatsTypeOK
  <2>2. cur(d)' = cur(d) /\ (walking(d)' <=> walking(d))
    BY <2>1 DEF cur, walking, descending
  <2> QED
    BY <1>1, <1>2, <2>2 DEF finished
<1>3. CASE d = c /\ Path(c)
  <2>0. WalkOK(c) /\ ~walking(c) /\ ~RpcDone(c)
    BY <1>3 DEF WalkInv, Path, RpcDone, walking, descending
  <2>1. CASE todo[c] = <<>>
    <3>1. todo'[c] = todo[c]
      BY <1>3, <2>1 DEF Path, walkVars
    <3>2. cur(c)' = cur(c)
      BY <3>1 DEF cur
    <3> QED
      BY <1>1, <1>3, <2>0, <3>2 DEF finished
  <2>2. CASE todo[c] # <<>>
    <3>1. cur(c) \in Nat /\ cur(c)' = cur(c) + 1
      BY <1>3, <2>0, <2>2, PathBegins
    <3>2. walking(c)'
      BY <1>3, <2>2 DEF Path, go, StatsTypeOK, walking, descending
    <3>3. i < cur(c) + 1
      BY <1>1, <1>3, <3>1, <3>2
    <3>4. i < cur(c) \/ i = cur(c)
      BY <1>1, <3>1, <3>3, SMTT(30)
    <3> QED
      BY <1>1, <1>3, <2>0, <3>4 DEF finished
  <2> QED
    BY <2>1, <2>2
<1>4. CASE d = c /\ RpcDone(c)
  <2>1. todo'[c] = paths(c)
    BY <1>4 DEF RpcDone, StatsTypeOK
  <2>2. cur(c)' = Len(paths(c)) - Len(paths(c))
    BY <2>1 DEF cur
  <2>3. cur(c)' = 0
    BY <2>2, PathsAre, SMTT(30)
  <2> QED
    BY <1>1, <1>4, <2>3, SMTT(30)
<1>5. CASE d = c /\ (Child(c) \/ Lock(c) \/ ChildLocked(c) \/ MakeChild(c))
  <2>1. todo' = todo /\ walking(c) /\ walking(c)' /\ ~RpcDone(c)
    BY <1>5
       DEF Child, Lock, ChildLocked, MakeChild, RpcDone, moveTo, go, walkVars, StatsTypeOK, walking, descending
  <2>2. cur(c)' = cur(c)
    BY <2>1 DEF cur
  <2> QED
    BY <1>1, <1>5, <2>1, <2>2 DEF finished
<1>6. CASE d = c /\ (Add(c) \/ maxRead(c) \/ maxSet(c))
  <2>1. todo' = todo /\ ~RpcDone(c)
    BY <1>6 DEF Add, maxRead, maxSet, RpcDone, walkVars
  <2>2. cur(c)' = cur(c)
    BY <2>1 DEF cur
  <2> QED
    BY <1>1, <1>6, <2>1, <2>2 DEF finished
<1> QED
  BY <1>2, <1>3, <1>4, <1>5, <1>6 DEF CallNext

\* A call that has followed all its paths has finished with each.
LEMMA AllFinished ==
    ASSUME StatsTypeOK, NEW c \in StatsCalls, WalkOK(c), callPc[c] \in {"rpc", "end"}
    PROVE  \A i \in 1 .. Len(paths(c)) : i \in finished(c)
<1>1. todo[c] = <<>> /\ ~walking(c)
  BY DEF WalkOK, walking, descending
<1>2. Len(paths(c)) \in Nat
  BY PathsAre, SMTT(30)
<1>3. cur(c) = Len(paths(c))
  BY <1>1, <1>2, SMTT(30) DEF cur
<1>4. \A i \in 1 .. Len(paths(c)) : i < cur(c) \/ i = cur(c)
  BY <1>2, <1>3, SMTT(30)
<1> QED
  BY <1>1, <1>4 DEF finished

LEMMA CountKept ==
    ASSUME tree \subseteq tree', counted \subseteq counted', NEW c \in StatsCalls, NEW i \in 1 .. Len(paths(c)),
           CountOK(c, i)
    PROVE  CountOK(c, i)'
<1> DEFINE p == paths(c)[i]
<1>1. PICK n \in reached(tree, p)[Len(p)] : <<n, c>> \in counted
  BY DEF CountOK, nodesOf
<1>2. Len(p) \in {2, 4}
  BY PathIs
<1>3. Len(p) \in 0 .. Len(p)
  BY <1>2, SMTT(30)
<1>4. n \in reached(tree', p)[Len(p)]
  BY <1>2, <1>3, ReachedGrows
<1> QED
  BY <1>1, <1>4 DEF CountOK, nodesOf

LEMMA CountStep ==
    ASSUME StatsTypeOK, WalkInv, MutexInv, CountInv, [StatsNext]_statsVars
    PROVE  CountInv'
<1>0. tree \subseteq tree'
  BY TreeStep
<1>1. ASSUME NEW c \in StatsCalls, CallNext(c), NEW d \in StatsCalls, NEW i \in 1 .. Len(paths(d)),
             d \in done' \/ i \in finished(d)'
      PROVE  CountOK(d, i)'
  <2>0. WalkOK(c) /\ WalkOK(d) /\ counted \subseteq counted'
    BY <1>1
       DEF WalkInv, CallNext, Path, Child, Lock, ChildLocked, MakeChild, Add, RpcDone, maxRead, maxSet, valueVars
  <2>1. CASE d \in done \/ i \in finished(d)
    <3>1. CountOK(d, i)
      BY <2>1 DEF CountInv
    <3> QED
      BY <1>0, <2>0, <3>1, CountKept
  <2>2. CASE d \notin done /\ d \in done'
    <3>1. d = c /\ callPc[c] = "rpc"
      BY <1>1, <2>2 DEF CallNext, Path, Child, Lock, ChildLocked, MakeChild, Add, RpcDone, maxRead, maxSet
    <3>2. i \in finished(d)
      BY <1>1, <2>0, <3>1, AllFinished
    <3> QED
      BY <2>1, <3>2
  <2>3. CASE d \notin done /\ d \notin done' /\ i \notin finished(d)
    <3>1. d = c /\ i = cur(c) /\ (Add(c) \/ maxRead(c) \/ maxSet(c))
      BY <1>1, <2>3, FinishedStep
    <3>2. Add(c)
      BY <2>0, <2>3, <3>1 DEF WalkOK, maxRead, maxSet
    <3>3. at[c] \in reached(tree, curPath(c))[Len(curPath(c))]
      BY <2>0, <3>2 DEF WalkOK, Add, nodesOf
    <3>4. <<at[c], c>> \in counted' /\ tree' = tree
      BY <3>2 DEF Add, treeVars
    <3>5. curPath(c) = paths(d)[i]
      BY <3>1 DEF curPath
    <3> QED
      BY <3>1, <3>3, <3>4, <3>5 DEF CountOK, nodesOf
  <2> QED
    BY <1>1, <2>1, <2>2, <2>3
<1>2. CASE UNCHANGED statsVars
  <2>1. /\ UNCHANGED <<done, counted, tree>>
        /\ \A c \in StatsCalls : finished(c)' = finished(c)
    BY <1>2 DEF statsVars, walkVars, treeVars, valueVars, finished, cur, walking, descending
  <2> QED
    BY <1>0, <2>1, CountKept DEF CountInv
<1> QED
  BY <1>1, <1>2, CallCases DEF CountInv

-----------------------------------------------------------------------------
(* maxtime.                                                                *)

LEMMA ValueIs == ASSUME NEW n PROVE values(n) = valuesIn(top, n) /\ value(n) = valueIn(top, n)
  BY DEF values, value, valuesIn, valueIn

LEMMA ValueThere ==
    ASSUME NEW S, NEW n, valuesIn(S, n) # {}
    PROVE  \E t \in S : t[1] = n /\ t[2] = valueIn(S, n)
<1>1. valueIn(S, n) \in valuesIn(S, n)
  BY DEF valueIn, only
<1> QED
  BY <1>1 DEF valuesIn

\* A Set is of one node.
LEMMA SetOne ==
    ASSUME NEW S, NEW m, NEW v
    PROVE  /\ valuesIn(put(S, m, v), m) # {} /\ valueIn(put(S, m, v), m) = v
           /\ \A n : n # m => /\ valuesIn(put(S, m, v), n) = valuesIn(S, n)
                             /\ valueIn(put(S, m, v), n) = valueIn(S, n)
<1> DEFINE new == <<m, v>>
           R == put(S, m, v)
<1>1. new[1] = m /\ new[2] = v /\ R = {t \in S : t[1] # m} \cup {new}
  BY DEF put
<1> HIDE DEF new, R
<1>2. valuesIn(R, m) = {v}
  BY <1>1 DEF valuesIn
<1>3. only({v}) = v
  BY DEF only
<1>4. valueIn(R, m) = v
  BY <1>2, <1>3 DEF valueIn
<1>5. ASSUME NEW n, n # m PROVE valuesIn(R, n) = valuesIn(S, n)
  BY <1>1, <1>5 DEF valuesIn
<1>6. ASSUME NEW n, n # m PROVE valueIn(R, n) = valueIn(S, n)
  BY <1>5, <1>6, SMTT(30) DEF valueIn
<1> QED
  BY <1>2, <1>4, <1>5, <1>6 DEF R

LEMMA ValueType == ASSUME TopInv, NEW n PROVE valueIn(top, n) \in Nat
<1>1. CASE valuesIn(top, n) = {}
  BY <1>1 DEF valueIn
<1>2. CASE valuesIn(top, n) # {}
  <2>1. PICK t \in top : t[2] = valueIn(top, n)
    BY <1>2, ValueThere
  <2>2. \E d \in StatsCalls : t[2] = Elapsed[d]
    BY DEF TopInv, TopOK
  <2> QED
    BY <2>1, <2>2, StatsAssumption
<1> QED
  BY <1>1, <1>2

LEMMA TopKept == ASSUME tree \subseteq tree', NEW t, TopOK(t) PROVE TopOK(t)'
<1>0. PICK d \in StatsCalls : \E i \in 1 .. Len(paths(d)) :
            t[1] \in reached(tree, paths(d)[i])[Len(paths(d)[i])] /\ t[2] = Elapsed[d]
  BY DEF TopOK, nodesOf
<1>1. PICK i \in 1 .. Len(paths(d)) :
            t[1] \in reached(tree, paths(d)[i])[Len(paths(d)[i])] /\ t[2] = Elapsed[d]
  BY <1>0
<1> DEFINE p == paths(d)[i]
<1>2. Len(p) \in {2, 4}
  BY PathIs
<1>3. Len(p) \in 0 .. Len(p)
  BY <1>2, SMTT(30)
<1>4. t[1] \in reached(tree', p)[Len(p)]
  BY <1>1, <1>2, <1>3, ReachedGrows
<1> QED
  BY <1>1, <1>4 DEF TopOK, nodesOf

\* A call that compares or sets is at the node of its path.
LEMMA AtPath ==
    ASSUME NEW c \in StatsCalls, WalkOK(c), callPc[c] \in {"max", "set"}
    PROVE  c \in done /\ cur(c) \in 1 .. Len(paths(c)) /\ at[c] \in nodesOf(paths(c)[cur(c)])
  BY DEF WalkOK, walking, curPath

LEMMA TopStep ==
    ASSUME StatsTypeOK, WalkInv, MutexInv, TopInv, [StatsNext]_statsVars
    PROVE  TopInv'
<1>0. tree \subseteq tree'
  BY TreeStep
<1>1. done' \subseteq StatsCalls
  BY CallCases
     DEF TopInv, CallNext, Path, Child, Lock, ChildLocked, MakeChild, Add, RpcDone, maxRead, maxSet, statsVars
<1>2. ASSUME NEW c \in StatsCalls, maxSet(c), NEW t \in top' PROVE TopOK(t)'
  <2>1. t \in top \/ t = <<at[c], Elapsed[c]>>
    BY <1>2 DEF maxSet
  <2>2. CASE t \in top
    BY <1>0, <2>2, TopKept DEF TopInv
  <2>3. CASE t = <<at[c], Elapsed[c]>>
    <3>1. cur(c) \in 1 .. Len(paths(c)) /\ at[c] \in nodesOf(paths(c)[cur(c)])
      BY <1>2, AtPath DEF maxSet, WalkInv
    <3>2. TopOK(t)
      BY <2>3, <3>1 DEF TopOK
    <3> QED
      BY <1>0, <3>2, TopKept
  <2> QED
    BY <2>1, <2>2, <2>3
<1>3. CASE top' = top
  BY <1>0, <1>1, <1>3, TopKept DEF TopInv
<1>4. ASSUME NEW c \in StatsCalls, CallNext(c), ~maxSet(c) PROVE top' = top
  BY <1>4 DEF CallNext, Path, Child, Lock, ChildLocked, MakeChild, Add, RpcDone, maxRead, valueVars
<1>5. UNCHANGED statsVars => top' = top
  BY DEF statsVars, valueVars
<1> QED
  BY <1>1, <1>2, <1>3, <1>4, <1>5, CallCases DEF TopInv

\* Comparison and Set are two steps, and raced says who came between them.
LEMMA RaceStep ==
    ASSUME StatsTypeOK, WalkInv, RaceInv, [StatsNext]_statsVars
    PROVE  RaceInv'
<1> DEFINE Alone(c) == \A d \in StatsCalls : setting(d) /\ at[d] = at[c] => d = c
           Above(c) == Elapsed[c] > valueIn(top, at[c])
<1>a. \A c \in StatsCalls : setting(c) /\ at[c] \notin raced => Alone(c) /\ Above(c)
  BY DEF RaceInv
<1>b. SUFFICES \A c \in StatsCalls : setting(c)' /\ at'[c] \notin raced' => Alone(c)' /\ Above(c)'
  BY DEF RaceInv
<1>1. ASSUME NEW c \in StatsCalls, maxRead(c), NEW d \in StatsCalls, setting(d)', at'[d] \notin raced'
      PROVE  Alone(d)' /\ Above(d)'
  <2>1. /\ UNCHANGED <<at, top>> /\ \A e \in StatsCalls \ {c} : setting(e)' <=> setting(e)
        /\ raced \subseteq raced' /\ ~setting(c)
    BY <1>1 DEF maxRead, go, walkVars, StatsTypeOK, setting
  <2>2. ASSUME setting(c)'
        PROVE  /\ Elapsed[c] > valueIn(top, at[c])
               /\ \A e \in StatsCalls : setting(e) /\ at[e] = at[c] => at[c] \in raced'
    <3>1. Elapsed[c] > value(at[c])
      BY <1>1, <2>2 DEF maxRead, go, StatsTypeOK, setting
    <3>2. raced' = raced \cup {at[e] : e \in {f \in StatsCalls : callPc[f] = "set" /\ at[f] = at[c]}}
      BY <1>1, <3>1 DEF maxRead
    <3> QED
      BY <3>1, <3>2, ValueIs DEF setting
  <2>3. CASE d = c
    <3>1. Alone(d)'
      BY <1>1, <2>1, <2>2, <2>3
    <3>2. Above(d)'
      BY <1>1, <2>1, <2>2, <2>3
    <3> QED
      BY <3>1, <3>2
  <2>4. CASE d # c
    <3>1. setting(d) /\ Alone(d) /\ Above(d)
      BY <1>1, <1>a, <2>1, <2>4
    <3>2. Above(d)'
      BY <2>1, <3>1
    <3>3. ASSUME setting(c)' PROVE at[c] # at[d]
      BY <1>1, <2>1, <2>2, <3>1, <3>3
    <3>4. Alone(d)'
      BY <2>1, <3>1, <3>3
    <3> QED
      BY <3>2, <3>4
  <2> QED
    BY <2>3, <2>4
<1>2. ASSUME NEW c \in StatsCalls, maxSet(c), NEW d \in StatsCalls, setting(d)', at'[d] \notin raced'
      PROVE  Alone(d)' /\ Above(d)'
  <2>1. /\ UNCHANGED <<at, raced>> /\ \A e \in StatsCalls : setting(e)' => setting(e) /\ e # c
        /\ setting(c)
    BY <1>2 DEF maxSet, go, walkVars, StatsTypeOK, setting
  <2>2. Alone(d) /\ Above(d) /\ at[d] # at[c]
    BY <1>2, <1>a, <2>1
  <2>3. top' = put(top, at[c], Elapsed[c])
    BY <1>2 DEF maxSet, put
  <2>4. valueIn(top', at[d]) = valueIn(top, at[d])
    BY <2>2, <2>3, SetOne, SMTT(30)
  <2>5. Above(d)'
    BY <2>1, <2>2, <2>4
  <2>6. Alone(d)'
    BY <2>1, <2>2
  <2> QED
    BY <2>5, <2>6
<1>3. ASSUME NEW c \in StatsCalls, CallNext(c), ~maxRead(c), ~maxSet(c),
             NEW d \in StatsCalls, setting(d)', at'[d] \notin raced'
      PROVE  Alone(d)' /\ Above(d)'
  <2>1. UNCHANGED <<top, raced>> /\ \A e \in StatsCalls : setting(e)' => setting(e) /\ at'[e] = at[e]
    BY <1>3
       DEF CallNext, Path, Child, Lock, ChildLocked, MakeChild, Add, RpcDone, moveTo, go, walkVars, valueVars,
                StatsTypeOK, setting
  <2>2. Alone(d) /\ Above(d)
    BY <1>3, <1>a, <2>1
  <2>3. Alone(d)'
    BY <1>3, <2>1, <2>2
  <2>4. Above(d)'
    BY <1>3, <2>1, <2>2
  <2> QED
    BY <2>3, <2>4
<1>4. ASSUME UNCHANGED statsVars, NEW d \in StatsCalls, setting(d)', at'[d] \notin raced'
      PROVE  Alone(d)' /\ Above(d)'
  <2>1. UNCHANGED <<callPc, at, top, raced>>
    BY <1>4 DEF statsVars, walkVars, valueVars
  <2>2. Alone(d) /\ Above(d)
    BY <1>4, <1>a, <2>1 DEF setting
  <2> QED
    BY <2>1, <2>2 DEF setting
<1> HIDE DEF Alone, Above
<1> QED
  BY <1>1, <1>2, <1>3, <1>4, CallCases

LEMMA MaxStep ==
    ASSUME StatsTypeOK, WalkInv, MutexInv, CountInv, TopInv, RaceInv, MaxInv, [StatsNext]_statsVars
    PROVE  MaxInv'
<1>0. tree \subseteq tree' /\ TreeOK(tree, nodes)'
  BY TreeStep
<1>a. ASSUME NEW c \in done, NEW i \in 1 .. Len(paths(c)), NEW n \in nodesOf(paths(c)[i])'
      PROVE  n \in nodesOf(paths(c)[i]) /\ c \in StatsCalls
  <2> DEFINE p == paths(c)[i]
  <2>0. c \in StatsCalls
    BY DEF TopInv
  <2>1. Len(p) \in {2, 4}
    BY <2>0, PathIs
  <2>2. Len(p) \in 0 .. Len(p)
    BY <2>1, SMTT(30)
  <2>3. PICK m : m \in reached(tree, p)[Len(p)]
    BY <2>0 DEF CountInv, CountOK, nodesOf
  <2>4. m \in reached(tree', p)[Len(p)]
    BY <1>0, <2>1, <2>2, <2>3, ReachedGrows
  <2>5. n \in reached(tree', p)[Len(p)]
    BY DEF nodesOf
  <2>6. TreeOK(tree', nodes')
    BY <1>0 DEF TreeOK
  <2>7. m = n
    BY <2>1, <2>2, <2>4, <2>5, <2>6, ReachedOne
  <2> QED
    BY <2>0, <2>3, <2>7 DEF nodesOf
<1>b. ASSUME NEW c \in StatsCalls, callPc[c] \in {"max", "set"}, NEW n \in nodesOf(paths(c)[cur(c)])
      PROVE  n = at[c]
  <2> DEFINE p == paths(c)[cur(c)]
  <2>1. cur(c) \in 1 .. Len(paths(c)) /\ at[c] \in reached(tree, p)[Len(p)]
    BY <1>b, AtPath DEF WalkInv, nodesOf
  <2>2. Len(p) \in {2, 4}
    BY <2>1, PathIs
  <2>3. Len(p) \in 0 .. Len(p)
    BY <2>2, SMTT(30)
  <2>4. n \in reached(tree, p)[Len(p)] /\ TreeOK(tree, nodes)
    BY DEF nodesOf, StatsTypeOK
  <2> QED
    BY <2>1, <2>2, <2>3, <2>4, ReachedOne
<1>c. \A c \in StatsCalls : Elapsed[c] \in Nat
  BY StatsAssumption
<1>d. \A c \in done : \A i \in finished(c) : \A n \in nodesOf(paths(c)[i]) : Larger(c, n)
  BY DEF MaxInv
<1>1. ASSUME NEW c \in StatsCalls, maxSet(c), NEW d \in done', NEW i \in finished(d)', NEW n \in nodesOf(paths(d)[i])'
      PROVE  Larger(d, n)'
  <2>1. done' = done /\ raced' = raced /\ callPc[c] = "set"
    BY <1>1 DEF maxSet
  <2>2. d \in done /\ d \in StatsCalls
    BY <2>1 DEF TopInv
  <2>3. i \in 1 .. Len(paths(d)) /\ (i \in finished(d) \/ (d = c /\ i = cur(c)))
    BY <1>1, <2>2, FinishedStep DEF CallNext
  <2>4. n \in nodesOf(paths(d)[i])
    BY <1>1, <1>a, <2>2, <2>3
  <2>5. top' = put(top, at[c], Elapsed[c])
    BY <1>1 DEF maxSet, put
  <2>6. CASE n # at[c]
    <3>1. valuesIn(top', n) = valuesIn(top, n) /\ valueIn(top', n) = valueIn(top, n)
      BY <2>5, <2>6, SetOne, SMTT(30)
    <3>2. Larger(d, n)
      BY <1>1, <1>b, <1>d, <2>1, <2>2, <2>3, <2>4, <2>6
    <3> QED
      BY <2>1, <3>1, <3>2 DEF Larger
  <2>7. CASE n = at[c]
    <3>1. valuesIn(top', n) # {} /\ valueIn(top', n) = Elapsed[c]
      BY <2>5, <2>7, SetOne, SMTT(30)
    <3>2. ASSUME n \notin raced PROVE Elapsed[c] >= Elapsed[d]
      <4>1. CASE d = c
        BY <1>c, <4>1, SMTT(30)
      <4>2. CASE i \in finished(d)
        <5>1. valueIn(top, n) >= Elapsed[d]
          BY <1>d, <2>2, <2>4, <3>2, <4>2 DEF Larger
        <5>2. Elapsed[c] > valueIn(top, n)
          BY <2>1, <2>7, <3>2 DEF RaceInv, setting
        <5>3. valueIn(top, n) \in Nat
          BY ValueType
        <5> QED
          BY <1>c, <2>2, <5>1, <5>2, <5>3, SMTT(30)
      <4> QED
        BY <2>3, <4>1, <4>2
    <3> QED
      BY <2>1, <3>1, <3>2 DEF Larger
  <2> QED
    BY <2>6, <2>7
<1>2. ASSUME NEW c \in StatsCalls, maxRead(c), NEW d \in done', NEW i \in finished(d)', NEW n \in nodesOf(paths(d)[i])'
      PROVE  Larger(d, n)'
  <2>1. done' = done /\ raced \subseteq raced' /\ top' = top /\ callPc[c] = "max"
    BY <1>2 DEF maxRead
  <2>2. d \in done /\ d \in StatsCalls
    BY <2>1 DEF TopInv
  <2>3. i \in 1 .. Len(paths(d)) /\ (i \in finished(d) \/ (d = c /\ i = cur(c)))
    BY <1>2, <2>2, FinishedStep DEF CallNext
  <2>4. n \in nodesOf(paths(d)[i])
    BY <1>2, <1>a, <2>2, <2>3
  <2>5. CASE i \in finished(d)
    <3>1. Larger(d, n)
      BY <1>d, <2>2, <2>4, <2>5
    <3> QED
      BY <2>1, <3>1 DEF Larger
  <2>6. CASE d = c /\ i = cur(c) /\ ~(Elapsed[c] > value(at[c]))
    <3>1. n = at[c]
      BY <1>b, <2>1, <2>4, <2>6
    <3>2. ~(Elapsed[c] > valueIn(top, n))
      BY <2>6, <3>1, ValueIs
    <3>3. valueIn(top, n) \in Nat /\ Elapsed[c] \in Nat /\ (valuesIn(top, n) = {} => valueIn(top, n) = 0)
      BY <1>c, ValueType DEF valueIn
    <3>4. valueIn(top, n) >= Elapsed[c] /\ (valuesIn(top, n) = {} => Elapsed[c] = 0)
      BY <3>2, <3>3, SMTT(30)
    <3> QED
      BY <2>1, <2>6, <3>4 DEF Larger
  <2>7. CASE d = c /\ i = cur(c) /\ Elapsed[c] > value(at[c])
    <3>1. callPc'[c] = "set" /\ todo' = todo
      BY <1>2, <2>7 DEF maxRead, go, walkVars, StatsTypeOK
    <3>2. walking(c)' /\ cur(c)' = cur(c)
      BY <3>1 DEF walking, descending, cur
    <3>3. i < cur(c)
      BY <1>2, <2>7, <3>2 DEF finished
    <3>4. i \in finished(d)
      BY <2>3, <2>7, <3>3 DEF finished
    <3> QED
      BY <2>5, <3>4
  <2> QED
    BY <2>3, <2>5, <2>6, <2>7
<1>3. ASSUME NEW c \in StatsCalls, CallNext(c), ~maxSet(c), ~maxRead(c),
             NEW d \in done', NEW i \in finished(d)', NEW n \in nodesOf(paths(d)[i])'
      PROVE  Larger(d, n)'
  <2>1. top' = top /\ raced' = raced /\ (done' = done \/ (RpcDone(c) /\ done' = done \cup {c}))
    BY <1>3 DEF CallNext, Path, Child, Lock, ChildLocked, MakeChild, Add, RpcDone, valueVars
  <2>2. d \in StatsCalls
    BY <2>1 DEF TopInv
  <2>3. /\ i \in 1 .. Len(paths(d)) /\ ~(d = c /\ RpcDone(c))
        /\ i \in finished(d) \/ (d = c /\ Add(c))
    BY <1>3, <2>2, FinishedStep
  <2>4. d \in done
    BY <2>1, <2>3
  <2>5. ~(d = c /\ Add(c))
    BY <2>2, <2>4 DEF Add, WalkInv, WalkOK
  <2>6. n \in nodesOf(paths(d)[i])
    BY <1>3, <1>a, <2>3, <2>4
  <2>7. Larger(d, n)
    BY <1>d, <2>3, <2>4, <2>5, <2>6
  <2> QED
    BY <2>1, <2>7 DEF Larger
<1>4. CASE UNCHANGED statsVars
  <2>1. /\ UNCHANGED <<done, top, raced, tree>>
        /\ \A c \in StatsCalls : finished(c)' = finished(c)
    BY <1>4 DEF statsVars, walkVars, treeVars, valueVars, finished, cur, walking, descending
  <2>2. ASSUME NEW d \in done', NEW i \in finished(d)', NEW n \in nodesOf(paths(d)[i])' PROVE Larger(d, n)'
    <3>1. d \in done /\ d \in StatsCalls /\ i \in finished(d) /\ n \in nodesOf(paths(d)[i])
      BY <2>1 DEF TopInv, nodesOf
    <3>2. Larger(d, n)
      BY <1>d, <3>1
    <3> QED
      BY <2>1, <3>2 DEF Larger
  <2> QED
    BY <2>2 DEF MaxInv
<1> QED
  BY <1>1, <1>2, <1>3, <1>4, CallCases DEF MaxInv

-----------------------------------------------------------------------------
StatsInv == StatsTypeOK /\ WalkInv /\ MutexInv /\ CountInv /\ TopInv /\ RaceInv /\ MaxInv

LEMMA StatsInvInit == StatsInit => StatsInv
<1> SUFFICES ASSUME StatsInit PROVE StatsInv
  OBVIOUS
<1>1. StatsTypeOK
  <2>1. \A c \in StatsCalls : paths(c) \in Seq(Seq(StatsNames))
    BY PathsAre
  <2>2. <<>> \in Seq(StatsNames)
    BY SMTT(30)
  <2> QED
    BY <2>1, <2>2 DEF StatsInit, StatsTypeOK, TreeOK
<1>2. ASSUME NEW c \in StatsCalls PROVE cur(c) = 0 /\ WalkOK(c) /\ finished(c) = {}
  <2>1. todo[c] = paths(c) /\ callPc[c] = "path"
    BY DEF StatsInit
  <2>2. Len(paths(c)) \in Nat
    BY PathsAre, SMTT(30)
  <2>3. cur(c) = 0
    BY <2>1, <2>2, SMTT(30) DEF cur
  <2>4. Suffix(paths(c), paths(c), 0)
    BY PathsAre, SuffixWhole
  <2>5. WalkOK(c)
    BY <2>1, <2>3, <2>4 DEF WalkOK, walking, descending
  <2>6. finished(c) = {}
    BY <2>3, SMTT(30) DEF finished
  <2> QED
    BY <2>3, <2>5, <2>6
<1>3. MutexInv /\ RaceInv
  BY DEF StatsInit, MutexInv, RaceInv, locking, setting
<1>4. CountInv /\ TopInv /\ MaxInv
  BY <1>2 DEF StatsInit, CountInv, TopInv, MaxInv
<1> QED
  BY <1>1, <1>2, <1>3, <1>4 DEF StatsInv, WalkInv

LEMMA StatsInvStep == StatsInv /\ [StatsNext]_statsVars => StatsInv'
  BY StatsTypeStep, WalkStep, MutexStep, CountStep, TopStep, RaceStep, MaxStep DEF StatsInv

LEMMA StatsInvHolds == StatsSpec => []StatsInv
  BY StatsInvInit, StatsInvStep, PTL DEF StatsSpec

\* However calls race through Path and Child to make the nodes of one path, a
\* call that Start has counted is at the node where the path leads, for good.
THEOREM NoCountLost == StatsSpec => []CountsKept
<1>1. StatsInv => CountsKept
  <2> SUFFICES ASSUME StatsInv, NEW c \in StatsCalls, callPc[c] = "rpc" \/ c \in done, NEW p \in Range(paths(c))
               PROVE  nodesOf(p) # {} /\ \A n \in nodesOf(p) : <<n, c>> \in counted
    BY DEF CountsKept
  <2>0. StatsTypeOK /\ WalkOK(c) /\ CountInv
    BY DEF StatsInv, WalkInv
  <2>1. PICK i \in 1 .. Len(paths(c)) : p = paths(c)[i]
    BY InRange
  <2>2. c \in done \/ i \in finished(c)
    BY <2>0, AllFinished
  <2>3. PICK m \in nodesOf(p) : <<m, c>> \in counted
    BY <2>0, <2>1, <2>2 DEF CountInv, CountOK
  <2>4. Len(p) \in {2, 4}
    BY <2>1, PathIs
  <2>5. Len(p) \in 0 .. Len(p)
    BY <2>4, SMTT(30)
  <2>6. \A n \in nodesOf(p) : n = m
    BY <2>0, <2>3, <2>4, <2>5, ReachedOne DEF nodesOf, StatsTypeOK
  <2> QED
    BY <2>3, <2>6
<1> QED
  BY <1>1, StatsInvHolds, PTL

\* max keeps the longest time where no two calls are between its comparison and
\* its Set at once, and a time that some call of the path took in any case.
THEOREM LongestKept == StatsSpec => []MaxKept
<1>1. StatsInv => MaxKept
  <2> SUFFICES ASSUME StatsInv, NEW c \in StatsCalls, callPc[c] = "end", NEW p \in Range(paths(c)), NEW n \in nodesOf(p)
               PROVE  /\ n \notin raced => value(n) >= Elapsed[c]
                      /\ value(n) \in {Elapsed[d] : d \in {e \in StatsCalls : p \in Range(paths(e))}}
    BY DEF MaxKept
  <2>0. StatsTypeOK /\ WalkOK(c) /\ TopInv /\ MaxInv
    BY DEF StatsInv, WalkInv
  <2>1. PICK i \in 1 .. Len(paths(c)) : p = paths(c)[i]
    BY InRange, SMTT(30)
  <2>2. i \in finished(c) /\ c \in done
    BY <2>0, AllFinished DEF WalkOK
  <2>3. Larger(c, n)
    BY <2>0, <2>1, <2>2 DEF MaxInv
  <2>4. value(n) = valueIn(top, n)
    BY ValueIs
  <2>5. \E d \in StatsCalls : p \in Range(paths(d)) /\ valueIn(top, n) = Elapsed[d]
    <3>1. CASE valuesIn(top, n) = {}
      <4>1. valueIn(top, n) = Elapsed[c]
        BY <2>3, <3>1 DEF Larger, valueIn
      <4> QED
        BY <4>1
    <3>2. CASE valuesIn(top, n) # {}
      <4>1. PICK t \in top : t[1] = n /\ t[2] = valueIn(top, n)
        BY <3>2, ValueThere
      <4>2. PICK d \in StatsCalls : \E j \in 1 .. Len(paths(d)) : t[1] \in nodesOf(paths(d)[j]) /\ t[2] = Elapsed[d]
        BY <2>0 DEF TopInv, TopOK
      <4>3. PICK j \in 1 .. Len(paths(d)) : n \in nodesOf(paths(d)[j])
        BY <4>1, <4>2
      <4>4. TreeOK(tree, nodes) /\ n \in reached(tree, p)[Len(p)] /\ n \in reached(tree, paths(d)[j])[Len(paths(d)[j])]
        BY <2>0, <4>3 DEF nodesOf, StatsTypeOK
      <4>5. p = paths(d)[j]
        BY <2>1, <4>4, PathsApart
      <4>6. p \in Range(paths(d))
        BY <4>5, InRange
      <4> QED
        BY <4>1, <4>2, <4>6
    <3> QED
      BY <3>1, <3>2
  <2> QED
    BY <2>3, <2>4, <2>5 DEF Larger
<1> QED
  BY <1>1, StatsInvHolds, PTL

=============================================================================
