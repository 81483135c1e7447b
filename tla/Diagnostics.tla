---------------------------- MODULE Diagnostics ----------------------------
(***************************************************************************)
(* The diagnostic requests of a driver: profiles, the profile index, the   *)
(* status page and the exported variables, each gathered from the machines *)
(* of B at once, and the heap profile that Machine.loop saves when a       *)
(* machine is unhealthy.  Requests run concurrently, from HTTP handlers,   *)
(* dumps and loops, while machines start and stop.                         *)
(*                                                                         *)
(* A request asks machines (ask), has their response bodies open (open),   *)
(* buffers profiles in temporary files (files) and writes its response     *)
(* (out, code).  On the machine, a profile is a stream; a CPU profile      *)
(* holds the profiler of the process.  Machines are numbered in the order  *)
(* of their addresses.  What a profile or a row says is left out.          *)
(***************************************************************************)
EXTENDS Naturals, Sequences, FiniteSets, Functions

CONSTANTS
    Machines,   \* the machines of B, numbered by address
    Owned,      \* those with Owned
    Requests,   \* bound: the requests there are
    Debugs,     \* bound: the requests that may have debug
    Singles,    \* bound: the requests that have an address if they can
    Mixes       \* bound: which requests there are at once, by kind

Kinds == {"none", "cpu", "heap", "status", "index", "vars", "save"}

NoOne == "nobody"

ASSUME DiagnosticsAssumption ==
    /\ Machines \subseteq Nat /\ IsFiniteSet(Machines)
    /\ Owned \subseteq Machines /\ Debugs \subseteq Requests
    /\ Mixes \subseteq [Requests -> Kinds] /\ NoOne \notin Requests

Parts == {"mem", "disk", "load"}

VARIABLES
    mstate,     \* State of each machine
    pc,         \* where each request is
    kind,       \* what it asks for
    debug,      \* requests with debug > 0
    ask,        \* the call to each machine
    parts,      \* the infos that allInfo has
    files,      \* the machines whose temporary file exists
    fds,        \* the machines whose temporary file has a descriptor
    open,       \* the machines whose response body is open
    stream,     \* what the machine writes for the request
    slot,       \* the request that the CPU profiler of the machine works for
    out,        \* the machines in the response, in order
    code        \* the status of the response

handlerVars == <<kind, pc, debug, out, code>>
callVars == <<ask, parts, files, fds, open>>
serverVars == <<stream, slot>>
vars == <<mstate, handlerVars, callVars, serverVars>>

Init ==
    /\ mstate \in [Machines -> {"starting", "running"}]
    /\ pc = [r \in Requests |-> "idle"] /\ kind \in Mixes
    /\ debug = {}
    /\ ask = [r \in Requests |-> [m \in Machines |-> "no"]]
    /\ parts = [r \in Requests |-> [m \in Machines |-> {}]]
    /\ files = [r \in Requests |-> {}] /\ fds = [r \in Requests |-> {}]
    /\ open = [r \in Requests |-> {}]
    /\ stream = [r \in Requests |-> [m \in Machines |-> "none"]]
    /\ slot = [m \in Machines |-> NoOne]
    /\ out = [r \in Requests |-> <<>>] /\ code = [r \in Requests |-> "none"]

\* The state of the machine, as other goroutines set it (module Lifecycle).
MachineStep(m) ==
    /\ \/ mstate[m] = "starting" /\ mstate' = [mstate EXCEPT ![m] = "running"]
       \/ mstate[m] # "stopped" /\ mstate' = [mstate EXCEPT ![m] = "stopped"]
    /\ UNCHANGED <<handlerVars, callVars, serverVars>>

-----------------------------------------------------------------------------
(* A request begins: which machines it asks.                               *)

begin(r, k, to, asked, rest) ==
    /\ pc[r] = "idle" /\ kind[r] = k
    /\ pc' = [pc EXCEPT ![r] = to]
    /\ ask' = [ask EXCEPT ![r] = [m \in Machines |-> IF m \in asked THEN "call" ELSE rest]]
    /\ UNCHANGED <<mstate, kind, parts, files, fds, open, serverVars, out, code>>

Up == {m \in Machines : mstate[m] = "running"}

\* profiler.Marshal without an address: the machines that are Running.
Marshal(r) ==
    /\ r \notin Singles
    /\ \E k \in {"cpu", "heap"} : begin(r, k, "gather", Up, "no")
    /\ debug' \in {debug, debug \cup ({r} \cap Debugs)}

\* profiler.Marshal with an address: Dial, which starts the machine if B does
\* not have it, and that machine's profile.
MarshalOne(r) ==
    /\ \E k \in {"cpu", "heap"}, m \in Machines : begin(r, k, "one", {m}, "no")
    /\ debug' \in {debug, debug \cup ({r} \cap Debugs)}

\* Machine.loop, told that the machine is unhealthy, calls saveProfile.
SaveProfile(r) ==
    /\ \E m \in Up : begin(r, "save", "one", {m}, "no")
    /\ UNCHANGED debug

\* writeStatus: a machine that is not Running has the error as its row.
writeStatus(r) == begin(r, "status", "gather", Up, "failed") /\ UNCHANGED debug

\* pprofIndex asks all machines, machineVars.String those that B owns.
pprofIndex(r) == begin(r, "index", "gather", Machines, "no") /\ UNCHANGED debug
String(r) == begin(r, "vars", "gather", Owned, "no") /\ UNCHANGED debug

-----------------------------------------------------------------------------
(* The calls, one goroutine for each machine.                              *)

becomes(r, m, a) == ask' = [ask EXCEPT ![r][m] = a]

\* Machine.Call fails: the machine has stopped, the call is answered with an
\* error, or the context is done, which allInfo, pprofIndex and String make it
\* after 10, 5 and 30 seconds.  The error is the row of the status; all else log
\* it.  In allInfo the first error cancels the other calls.
CallFails(r, m) ==
    /\ ask[r][m] = "call"
    /\ becomes(r, m, "failed")
    /\ UNCHANGED <<mstate, handlerVars, parts, files, fds, open, serverVars>>

\* allInfo: one of the three calls returns; all of them make the row.
allInfo(r, m, p) ==
    /\ ask[r][m] = "call" /\ kind[r] = "status" /\ mstate[m] = "running" /\ p \notin parts[r][m]
    /\ parts' = [parts EXCEPT ![r][m] = @ \cup {p}]
    /\ becomes(r, m, IF parts'[r][m] = Parts THEN "have" ELSE "call")
    /\ UNCHANGED <<mstate, handlerVars, files, fds, open, serverVars>>

\* A list is returned whole.
lists(r, m, k) ==
    /\ ask[r][m] = "call" /\ kind[r] = k /\ mstate[m] = "running"
    /\ becomes(r, m, "have")
    /\ UNCHANGED <<mstate, handlerVars, parts, files, fds, open, serverVars>>

\* Supervisor.Profiles and Supervisor.Expvars.
ProfileStats(r, m) == lists(r, m, "index")
Expvars(r, m) == lists(r, m, "vars")

\* Supervisor.Profile returns the reader of a pipe, and writes the profile to it.
Profile(r, m) ==
    /\ ask[r][m] = "call" /\ kind[r] \in {"heap", "save"} /\ mstate[m] = "running"
    /\ becomes(r, m, "copy") /\ open' = [open EXCEPT ![r] = @ \cup {m}]
    /\ stream' = [stream EXCEPT ![r][m] = "writing"]
    /\ UNCHANGED <<mstate, handlerVars, parts, files, fds, slot>>

\* Supervisor.CPUProfile returns the reader at once.
CPUProfile(r, m) ==
    /\ ask[r][m] = "call" /\ kind[r] = "cpu" /\ mstate[m] = "running"
    /\ becomes(r, m, "copy") /\ open' = [open EXCEPT ![r] = @ \cup {m}]
    /\ stream' = [stream EXCEPT ![r][m] = "begun"]
    /\ UNCHANGED <<mstate, handlerVars, parts, files, fds, slot>>

\* Faulty variant: goes on when StartCPUProfile fails.
StartCPUProfileAnyhow(r, m) ==
    /\ stream[r][m] = "begun"
    /\ stream' = [stream EXCEPT ![r][m] = "writing"]
    /\ slot' = [slot EXCEPT ![m] = IF @ = NoOne THEN r ELSE @]
    /\ UNCHANGED <<mstate, handlerVars, callVars>>

\* Its goroutine: pprof.StartCPUProfile gets the profiler, which the process has
\* one of, or its error ends the stream.
StartCPUProfile(r, m) ==
    /\ stream[r][m] = "begun"
    /\ stream' = [stream EXCEPT ![r][m] = IF slot[m] = NoOne THEN "writing" ELSE "error"]
    /\ slot' = [slot EXCEPT ![m] = IF @ = NoOne THEN r ELSE @]
    /\ UNCHANGED <<mstate, handlerVars, callVars>>

\* The goroutine of the profile is done and closes the pipe.  A CPU profile ends
\* after its duration, or with an error when the context of the call is done,
\* which it is once the driver has given up or closed the body.
StreamEnds(r, m) ==
    /\ stream[r][m] = "writing"
    /\ \/ stream' = [stream EXCEPT ![r][m] = "eof"]
       \/ stream' = [stream EXCEPT ![r][m] = "error"]
    /\ slot' = IF kind[r] = "cpu" THEN [slot EXCEPT ![m] = NoOne] ELSE slot
    /\ UNCHANGED <<mstate, handlerVars, callVars>>

closed(r, m) == open' = [open EXCEPT ![r] = @ \ {m}]

buffered(r, m) ==
    /\ files' = [files EXCEPT ![r] = @ \cup {m}] /\ fds' = [fds EXCEPT ![r] = @ \cup {m}]

\* Faulty variant: the file stays when the copy fails.
NewLeaves(r, m) ==
    /\ pc[r] = "gather" /\ ask[r][m] = "copy" /\ closed(r, m)
    /\ \/ stream[r][m] = "eof" /\ becomes(r, m, "have") /\ buffered(r, m)
       \/ becomes(r, m, "failed") /\ (buffered(r, m) \/ UNCHANGED <<files, fds>>)
    /\ UNCHANGED <<mstate, handlerVars, parts, serverVars>>

\* Faulty variant: takes what there is when the stream breaks.
NewTruncated(r, m) ==
    /\ pc[r] = "gather" /\ ask[r][m] = "copy" /\ closed(r, m)
    /\ stream[r][m] \in {"eof", "error"} /\ becomes(r, m, "have") /\ buffered(r, m)
    /\ UNCHANGED <<mstate, handlerVars, parts, serverVars>>

\* filebuf.New: the whole stream is copied to a temporary file.  If the file
\* cannot be made there is none; if the stream breaks it is removed, but not
\* closed: the descriptor is left to the garbage collector.  The body is closed.
New(r, m) ==
    /\ pc[r] = "gather" /\ ask[r][m] = "copy" /\ closed(r, m)
    /\ \/ stream[r][m] = "eof" /\ becomes(r, m, "have") /\ buffered(r, m)
       \/ /\ becomes(r, m, "failed") /\ UNCHANGED files
          /\ fds' \in {fds, [fds EXCEPT ![r] = @ \cup {m}]}
    /\ UNCHANGED <<mstate, handlerVars, parts, serverVars>>

-----------------------------------------------------------------------------
(* The response.                                                           *)

Have(r) == {m \in Machines : ask[r][m] = "have"}

\* FileBuf.Close: closes and removes the files of the machines ms.
Close(r, ms) == files' = [files EXCEPT ![r] = @ \ ms] /\ fds' = [fds EXCEPT ![r] = @ \ ms]

respond(r, ms, c) ==
    /\ pc' = [pc EXCEPT ![r] = "done"]
    /\ out' = [out EXCEPT ![r] = ms]
    /\ code' = [code EXCEPT ![r] = c]

\* What sort.Slice may make of ms: all of them, by address.
inOrder(ms) ==
    {s \in [1 .. Cardinality(ms) -> ms] : Range(s) = ms /\ \A i, j \in DOMAIN s : i < j => s[i] < s[j]}

\* Faulty variant: waits for all machines that were asked to answer.
WaitedAll(r) == pc[r] = "gather" /\ \A m \in Machines : ask[r][m] \notin {"call", "copy", "failed"}

\* errgroup.Wait returns once every goroutine has.
Waited(r) == pc[r] = "gather" /\ \A m \in Machines : ask[r][m] \notin {"call", "copy"}

rows(r, k, ms) ==
    /\ Waited(r) /\ kind[r] = k
    /\ \E s \in inOrder(ms) : respond(r, s, "ok")
    /\ UNCHANGED <<mstate, kind, debug, callVars, serverVars>>

\* The status has a row for every machine, the index and the variables for those
\* that answered.
StatusRows(r) == rows(r, "status", Machines)
IndexRows(r) == rows(r, "index", Have(r))
VarsRows(r) == rows(r, "vars", Have(r))

\* The variables of a machine cannot be marshaled: "error".
VarsError(r) ==
    /\ Waited(r) /\ kind[r] = "vars" /\ Have(r) # {} /\ respond(r, <<>>, "error")
    /\ UNCHANGED <<mstate, kind, debug, callVars, serverVars>>

\* Marshal has the profiles: none is errNoProfiles, a 404.
Profiles(r) ==
    /\ Waited(r) /\ kind[r] \in {"cpu", "heap"}
    /\ IF Have(r) = {} THEN respond(r, <<>>, "notfound")
       ELSE pc' = [pc EXCEPT ![r] = "emit"] /\ UNCHANGED <<out, code>>
    /\ UNCHANGED <<mstate, kind, debug, callVars, serverVars>>

\* With debug the profiles are written one after the other, by address.  After
\* an error the deferred function closes the others, and the status is 200: a
\* part has been written.
appendProfile(r) ==
    /\ pc[r] = "emit" /\ r \in debug
    /\ \E m \in Have(r) :
          /\ \A n \in Have(r) : m <= n
          /\ becomes(r, m, "sent")
          /\ \/ Close(r, {m}) /\ out' = [out EXCEPT ![r] = Append(@, m)] /\ UNCHANGED <<pc, code>>
             \/ Close(r, Have(r)) /\ respond(r, out[r], "cut")
    /\ UNCHANGED <<mstate, kind, debug, parts, open, serverVars>>

\* Else they are parsed, in any order.
parseProfile(r) ==
    /\ pc[r] = "emit" /\ r \notin debug
    /\ \E m \in Have(r) :
          /\ becomes(r, m, "sent")
          /\ \/ Close(r, {m}) /\ UNCHANGED <<pc, out, code>>
             \/ Close(r, Have(r)) /\ respond(r, <<>>, "error")
    /\ UNCHANGED <<mstate, kind, debug, parts, open, serverVars>>

Sent(r) == {m \in Machines : ask[r][m] = "sent"}

\* All are written, or parsed, merged and written, or one of these two fails.
Marshaled(r) ==
    /\ pc[r] = "emit" /\ Have(r) = {}
    /\ \/ r \in debug /\ respond(r, out[r], "ok")
       \/ r \notin debug /\ \E s \in inOrder(Sent(r)) : respond(r, s, "ok")
       \/ r \notin debug /\ \E c \in {"error", "cut"} : respond(r, <<>>, c)
    /\ UNCHANGED <<mstate, kind, debug, callVars, serverVars>>

\* With an address the body is copied to the response and closed; an error may
\* come after a part of it.  saveProfile copies to a local file.
CopyOne(r, m) ==
    /\ pc[r] = "one" /\ ask[r][m] = "copy" /\ closed(r, m)
    /\ \/ stream[r][m] = "eof" /\ becomes(r, m, "sent")
       \/ becomes(r, m, "failed")
    /\ UNCHANGED <<mstate, handlerVars, parts, files, fds, serverVars>>

MarshaledOne(r) ==
    /\ pc[r] = "one" /\ kind[r] # "save"
    /\ \/ Sent(r) # {} /\ \E s \in inOrder(Sent(r)) : respond(r, s, "ok")
       \/ (\E m \in Machines : ask[r][m] = "failed") /\ \E c \in {"error", "cut"} : respond(r, <<>>, c)
    /\ UNCHANGED <<mstate, kind, debug, callVars, serverVars>>

\* saveProfile has returned, with an error or without.
saveProfile(r) ==
    /\ pc[r] = "one" /\ kind[r] = "save" /\ \A m \in Machines : ask[r][m] \in {"no", "sent", "failed"}
    /\ pc' = [pc EXCEPT ![r] = "vars"]
    /\ UNCHANGED <<mstate, kind, debug, out, code, callVars, serverVars>>

\* saveExpvars: its retried call has an answer, or its time is over; the variables
\* are written to a file.
saveExpvars(r) ==
    /\ pc[r] = "vars"
    /\ \E c \in {"ok", "error"}, s \in inOrder(Sent(r)) : respond(r, s, c)
    /\ UNCHANGED <<mstate, kind, debug, callVars, serverVars>>

-----------------------------------------------------------------------------
Begins(r) ==
    Marshal(r) \/ MarshalOne(r) \/ SaveProfile(r) \/ writeStatus(r) \/ pprofIndex(r) \/ String(r)

\* The goroutine for m, once it is not waiting for the machine.
Calls(r, m) ==
    \/ CallFails(r, m) \/ (\E p \in Parts : allInfo(r, m, p)) \/ ProfileStats(r, m) \/ Expvars(r, m)
    \/ Profile(r, m) \/ CPUProfile(r, m) \/ New(r, m) \/ CopyOne(r, m)

\* The goroutine of the profile on the machine.
Streams(r, m) == StartCPUProfile(r, m) \/ StreamEnds(r, m)

Responds(r) ==
    \/ StatusRows(r) \/ IndexRows(r) \/ VarsRows(r) \/ VarsError(r)
    \/ Profiles(r) \/ appendProfile(r) \/ parseProfile(r) \/ Marshaled(r)
    \/ MarshaledOne(r) \/ saveProfile(r) \/ saveExpvars(r)

Next ==
    \/ \E r \in Requests : Begins(r) \/ Responds(r)
    \/ \E r \in Requests, m \in Machines : Calls(r, m) \/ Streams(r, m)
    \/ \E m \in Machines : MachineStep(m)

Spec == Init /\ [][Next]_vars

\* The steps that do not depend on anybody's decision: a call to a machine that
\* runs or has stopped is answered or fails, one to a machine that is starting only
\* if it has a timeout, since a machine may be starting for ever; handlers go on,
\* and the timer of a CPU profile fires.
Progress ==
    \/ \E r \in Requests : Responds(r)
    \/ \E r \in Requests, m \in Machines :
          \/ (mstate[m] # "starting" \/ kind[r] \in {"index", "vars"}) /\ Calls(r, m)
          \/ Streams(r, m)

\* The processes and goroutines that can go on do not all stop.
Fairness == WF_vars(Progress)

FairSpec == Spec /\ Fairness

-----------------------------------------------------------------------------
(* Properties.                                                             *)

\* The values the variables take.
TypeOK ==
    /\ mstate \in [Machines -> {"starting", "running", "stopped"}]
    /\ pc \in [Requests -> {"idle", "gather", "one", "vars", "emit", "done"}]
    /\ kind \in [Requests -> Kinds]
    /\ debug \subseteq Requests
    /\ ask \in [Requests -> [Machines -> {"no", "call", "copy", "have", "sent", "failed"}]]
    /\ parts \in [Requests -> [Machines -> SUBSET Parts]]
    /\ files \in [Requests -> SUBSET Machines] /\ fds \in [Requests -> SUBSET Machines]
    /\ open \in [Requests -> SUBSET Machines]
    /\ stream \in [Requests -> [Machines -> {"none", "begun", "writing", "eof", "error"}]]
    /\ slot \in [Machines -> Requests \cup {NoOne}]
    /\ DOMAIN out = Requests
    /\ code \in [Requests -> {"none", "ok", "cut", "notfound", "error"}]

\* Whatever failed, a finished request leaves no temporary file on the driver and
\* no response body open, and neither is gone before it was used.  A descriptor
\* stays open only of a file whose copy failed (filebuf.New).
NothingLeft ==
    \A r \in Requests :
        /\ pc[r] = "done" =>
              files[r] = {} /\ open[r] = {} /\ \A m \in fds[r] : ask[r][m] = "failed"
        /\ kind[r] \in {"cpu", "heap"} /\ pc[r] # "done" => Have(r) = files[r] /\ Have(r) \subseteq fds[r]

\* Requests for CPU profiles do not end each other's: while one is being written
\* the profiler of the machine works for it.
OneProfiler ==
    \A r \in Requests, m \in Machines :
        kind[r] = "cpu" /\ stream[r][m] = "writing" => slot[m] = r

\* A response without an error has every profile that was gathered, each once,
\* by address, and only whole ones; a status has a row for every machine, which
\* is an error or has all three infos.  Machines whose call failed are missing from
\* a profile, although profileHandler is said to gather "from all machines".
Complete ==
    \A r \in Requests : code[r] = "ok" =>
        /\ \A i, j \in DOMAIN out[r] : i < j => out[r][i] < out[r][j]
        /\ kind[r] \in {"cpu", "heap"} =>
               /\ Range(out[r]) = Sent(r) /\ Have(r) = {}
               /\ \A m \in Range(out[r]) : stream[r][m] = "eof"
        /\ kind[r] = "status" =>
               /\ Range(out[r]) = Machines
               /\ \A m \in Machines : ask[r][m] = "failed" \/ parts[r][m] = Parts
        /\ kind[r] = "vars" => Range(out[r]) \subseteq Owned

\* The request has an address, and waits in Call for its machine, which has not
\* begun to run: there is no timeout but the client's.
WaitsForStart(r) ==
    pc[r] = "one" /\ \E m \in Machines : ask[r][m] = "call" /\ mstate[m] = "starting"

\* Every request is answered, also when machines stop while it gathers, except one
\* for the profile of a single machine that is starting for ever (Marshal,
\* Machine.Call); and the profiler of a machine is given back, also when the
\* driver has gone.
RequestsEnd ==
    /\ \A r \in Requests : (pc[r] # "idle") ~> (pc[r] = "done" \/ []WaitsForStart(r))
    /\ \A m \in Machines : (slot[m] # NoOne) ~> (slot[m] = NoOne)

=============================================================================
