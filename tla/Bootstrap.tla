----------------------------- MODULE Bootstrap -----------------------------
(***************************************************************************)
(* How a machine that B.Start created comes to run the driver's binary and *)
(* to serve its services: the part of loop (machine.go) from the first     *)
(* ping to setState(Running), exec's calls of the Supervisor, and at the   *)
(* other end the methods of the Supervisor, the RPC server's table of      *)
(* services, and the process that syscall.Exec replaces.                   *)
(*                                                                         *)
(* A call is a request and what becomes of it.  The connection may break   *)
(* or the call time out at any moment; the driver then has an error, and   *)
(* the request may be lost, may be handled later, or may have been handled *)
(* already.  The driver makes one call at a time.                          *)
(***************************************************************************)
EXTENDS Naturals

CONSTANTS
    Services,   \* the names of m.services
    BootKnows,  \* the process the system started knows the services' types:
                \* it is the driver's own program (local.go), not ec2boot
    MaxFaults,  \* bound: broken connections, timeouts and crashes
    MaxTries    \* bound: attempts of one Supervisor.Register

ASSUME BootstrapAssumption ==
    /\ Services # {}
    /\ BootKnows \in BOOLEAN
    /\ MaxFaults \in Nat /\ MaxTries \in Nat \ {0}

VARIABLES
    image,     \* what the process runs: the system's program, the driver's
               \* uploaded binary, or nothing
    conf,      \* what its supervisor was given: s.environ, os.Args, s.binaryPath
    runsWith,  \* what syscall.Exec passed on to the image
    served,    \* s.services of the RPC server: for each name the attempt of
               \* Register whose instance is served, or 0
    initing,   \* the instances, named alike, whose Init is running
    inited,    \* the ones whose Init has returned nil
    pc,        \* where loop is; in exec, the call it makes
    todo,      \* the services loop has yet to register
    req,       \* the request of the driver's call
    rpc,       \* what has become of it
    late,      \* requests the driver has given up that are yet to be handled
    faults     \* what is left of MaxFaults

procVars == <<image, conf, runsWith, served, initing, inited>>
vars == <<procVars, pc, todo, req, rpc, late, faults>>

\* exec's calls, in order.
After == [Info |-> "Setenv", Setenv |-> "Setargs", Setargs |-> "Keepalive",
          Keepalive |-> "Setbinary", Setbinary |-> "Exec", Exec |-> "ping"]
ExecCalls == DOMAIN After

Request(method, s, try) == [method |-> method, service |-> s, try |-> try]

Init ==
    /\ image = "boot" /\ conf = {} /\ runsWith = {}
    /\ served = [s \in Services |-> 0] /\ initing = {} /\ inited = {}
    /\ pc = "bootping" /\ todo = Services
    /\ req = Request("none", "none", 0) /\ rpc = "none"
    /\ late = {} /\ faults = MaxFaults

-----------------------------------------------------------------------------
(* The remote process.                                                     *)

\* The process is gone, and another runs image i with c, or none does.  What it
\* was handling and what was on its way to it is gone too.
Replaced(i, c) ==
    /\ image' = i /\ runsWith' = c /\ conf' = {}
    /\ served' = [s \in Services |-> 0] /\ initing' = {} /\ inited' = {}
    /\ late' = {}

\* A request whose argument the process can decode: gob knows the types of the
\* services only in a program that links them.
Decodable(r) == r.method = "Register" => BootKnows \/ image = "new"

\* Supervisor.Info, and Supervisor.Keepalive, whose effect is in Keepalive.tla.
Info(r) == r.method \in {"Info", "Keepalive"} /\ UNCHANGED procVars

\* Supervisor.Setenv, Setargs and Setbinary.
Configure(r) ==
    /\ r.method \in {"Setenv", "Setargs", "Setbinary"}
    /\ conf' = conf \cup {r.method}
    /\ UNCHANGED <<image, runsWith, served, initing, inited>>

\* Register of the RPC server, which does nothing if the name is taken.
serverRegister(s, try) ==
    served' = IF served[s] = 0 THEN [served EXCEPT ![s] = try] ELSE served

\* Supervisor.Register up to the call of Init, on this attempt's own instance.
Register(r) ==
    /\ r.method = "Register"
    /\ serverRegister(r.service, r.try)
    /\ initing' = initing \cup {<<r.service, r.try>>}
    /\ UNCHANGED <<image, conf, runsWith, inited>>

\* Supervisor.Exec with a binary: syscall.Exec does not return.
ExecReplaces(r) ==
    /\ r.method = "Exec" /\ "Setbinary" \in conf
    /\ Replaced("new", conf \ {"Setbinary"})

\* The request of the driver's call is handled and answered.  An error that is
\* not about the request's syntax is a method's own: a full disk, no binary set,
\* a service that has no methods, an errno.
Handle ==
    /\ rpc = "sent" /\ image # "down"
    /\ \/ Decodable(req) /\ (Info(req) \/ Configure(req)) /\ rpc' = "ok"
       \/ Decodable(req) /\ Register(req) /\ rpc' = "handling"
       \/ Decodable(req) /\ req.method \in {"Setbinary", "Exec", "Register"}
          /\ rpc' = "error" /\ UNCHANGED procVars
       \/ ~Decodable(req) /\ rpc' = "fatal" /\ UNCHANGED procVars
    /\ UNCHANGED <<pc, todo, req, late, faults>>

\* The process handles a request the driver has given up, if it ever reaches it;
\* only these change anything, and Exec is below.
HandleLate(r) ==
    /\ image # "down" /\ Decodable(r)
    /\ Configure(r) \/ Register(r)
    /\ late' = late \ {r}
    /\ UNCHANGED <<pc, todo, req, rpc, faults>>

\* A call that the process was handling ends with its connection.
Broken == IF rpc = "handling" THEN "broken" ELSE rpc

Exec ==
    /\ \/ rpc = "sent" /\ ExecReplaces(req) /\ rpc' = "broken"
       \/ \E r \in late : ExecReplaces(r) /\ rpc' = Broken
    /\ image # "down"
    /\ UNCHANGED <<pc, todo, req, faults>>

\* The answer to the driver, if it is still there for this attempt.
Answer(i, result) ==
    rpc' = IF rpc = "handling" /\ i = <<req.service, req.try>> THEN result ELSE rpc

\* Faulty variant: an error of Init is not returned.
InitReturnsIgnored(i) ==
    /\ initing' = initing \ {i}
    /\ inited' \in {inited, inited \cup {i}} /\ Answer(i, "ok")
    /\ UNCHANGED <<image, conf, runsWith, served, pc, todo, req, late, faults>>

\* maybeInit returns nil, or an error, or panics.
InitReturns(i) ==
    /\ initing' = initing \ {i}
    /\ \/ inited' = inited \cup {i} /\ Answer(i, "ok")
       \/ inited' = inited /\ \E result \in {"error", "fatal"} : Answer(i, result)
    /\ UNCHANGED <<image, conf, runsWith, served, pc, todo, req, late, faults>>

\* The process dies, of whatever cause; nothing restarts it.
Crash ==
    /\ image # "down" /\ faults > 0
    /\ Replaced("down", {})
    /\ rpc' = Broken
    /\ faults' = faults - 1
    /\ UNCHANGED <<pc, todo, req>>

-----------------------------------------------------------------------------
(* The driver.                                                             *)

Call(next, r) == pc' = next /\ req' = r /\ rpc' = "sent"
Goto(next) == pc' = next /\ req' = Request("none", "none", 0) /\ rpc' = "none"

\* The calls of loop that ping: m.ping retries for two minutes, so that it
\* succeeds only if there is a process, and fails only after a while.
BootPing ==
    /\ pc = "bootping"
    /\ \/ image # "down" /\ Call("Info", Request("Info", "none", 0))
       \/ Goto("failed")
    /\ UNCHANGED <<procVars, todo, late, faults>>

\* The ping that is to find the new image; then the first service is registered.
Ping ==
    /\ pc = "ping"
    /\ \/ image # "down" /\ \E s \in todo : Call("register", Request("Register", s, 1))
       \/ Goto("failed")
    /\ UNCHANGED <<procVars, todo, late, faults>>

\* exec goes on to its next call.
ExecContinues ==
    IF After[pc] = "ping" THEN Goto("ping") ELSE Call(After[pc], Request(After[pc], "none", 0))

\* Faulty variant: an error of any of the preparing calls is only logged.
loggedOnlyMore == {"Setenv", "Setargs", "Keepalive"}

\* The calls of exec whose error is only logged.
loggedOnly == {"Keepalive"}

\* A call of exec has a result; only a network error is taken for the expected
\* one, but from any of the calls.
ExecResult(result) ==
    /\ \/ (result = "ok" \/ pc \in loggedOnly) /\ ExecContinues
       \/ pc \notin loggedOnly /\ result = "net" /\ Goto("ping")
       \/ pc \notin loggedOnly /\ result \in {"error", "fatal", "timeout"} /\ Goto("failed")
    /\ UNCHANGED todo

\* Faulty variant: one service is enough.
NextServiceFirst == todo' = todo \ {req.service} /\ Goto("running")

\* loop registers the next service, or enters Running.
NextService ==
    /\ todo' = todo \ {req.service}
    /\ IF todo' = {} THEN Goto("running")
       ELSE \E s \in todo' : Call("register", Request("Register", s, 1))

\* An attempt to register has a result; retryCall tries again, each time with a
\* copy of its own, unless the error is fatal or its time is over.
RegisterResult(result) ==
    \/ result = "ok" /\ NextService
    \/ result \in {"net", "timeout", "error"} /\ req.try < MaxTries
       /\ Call("register", [req EXCEPT !.try = @ + 1]) /\ UNCHANGED todo
    \/ result # "ok" /\ Goto("failed") /\ UNCHANGED todo

Result(result) ==
    \/ pc \in ExecCalls /\ ExecResult(result)
    \/ pc = "register" /\ RegisterResult(result)

\* The reply, or the end of the connection, reaches the driver.
Reply ==
    /\ rpc \in {"ok", "error", "fatal", "broken"}
    /\ Result(IF rpc = "broken" THEN "net" ELSE rpc)
    /\ UNCHANGED <<procVars, late, faults>>

\* Nobody listens.
Refused ==
    /\ rpc = "sent" /\ image = "down"
    /\ Result("net")
    /\ UNCHANGED <<procVars, late, faults>>

\* The connection breaks or the call times out, which an upload does not.  The
\* request, if it has not been handled yet, is lost or will be.
Fault ==
    /\ rpc \in {"sent", "handling", "ok", "error"} /\ faults > 0
    /\ \E result \in {"net", "timeout"} :
          (result = "timeout" => pc # "Setbinary") /\ Result(result)
    /\ late' \in {late} \cup {late \cup {r} : r \in {q \in {req} : rpc = "sent"}}
    /\ faults' = faults - 1
    /\ UNCHANGED procVars

Next ==
    \/ BootPing \/ Ping \/ Reply \/ Refused \/ Fault
    \/ Handle \/ Exec \/ Crash
    \/ \E r \in late : HandleLate(r)
    \/ \E i \in initing : InitReturns(i)

Spec == Init /\ [][Next]_vars

-----------------------------------------------------------------------------
(* Properties.                                                             *)

Requests ==
    [method : ExecCalls \cup {"none"}, service : {"none"}, try : {0}]
        \cup [method : {"Register"}, service : Services, try : 1 .. MaxTries]
Instances == Services \X (1 .. MaxTries)

\* The variables have their types; in particular loop is in Running only once
\* it has been through all the services.
TypeOK ==
    /\ image \in {"boot", "new", "down"}
    /\ conf \subseteq {"Setenv", "Setargs", "Setbinary"} /\ runsWith \subseteq {"Setenv", "Setargs"}
    /\ served \in [Services -> 0 .. MaxTries]
    /\ initing \subseteq Instances /\ inited \subseteq Instances
    /\ pc \in ExecCalls \cup {"bootping", "ping", "register", "running", "failed"}
    /\ todo \subseteq Services /\ (pc = "running" => todo = {})
    /\ req \in Requests /\ late \subseteq Requests
    /\ rpc \in {"none", "sent", "handling", "ok", "error", "fatal", "broken"}
    /\ faults \in 0 .. MaxFaults

\* Whatever fails, and whichever calls are handled late, the uploaded binary is
\* only ever executed with the driver's arguments and environment: "it should
\* be used before Exec" (Supervisor.Setargs, Setenv).
ExecConfigured == image = "new" => runsWith = {"Setenv", "Setargs"}

\* A machine that loop takes to Running runs the uploaded binary.
RunsUploaded == pc = "running" => image # "boot"

\* In a machine that is Running, every service can be called.
ServicesServed == pc = "running" /\ image # "down" => \A s \in Services : served[s] # 0

\* "After registration, the service is also initialized" (Supervisor.Register), of
\* the instance that is served, if the attempt that made the server serve it is
\* the one that loop got its answer from.  Otherwise a later attempt was: that one
\* has initialised an instance of its own, which the server does not serve, and
\* the comment does not hold of the service.
ServedIsInitialized ==
    image # "down" =>
        \A s \in Services \ todo :
            \/ <<s, served[s]>> \in inited
            \/ \E k \in 1 .. MaxTries : served[s] # 0 /\ k > served[s] /\ <<s, k>> \in inited

=============================================================================
