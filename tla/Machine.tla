------------------------------ MODULE Machine ------------------------------
(***************************************************************************)
(* The life of one Machine value in the process that holds it              *)
(* (machine.go): the goroutine that runs loop, the goroutine that runs     *)
(* tryMonitorOOMs, the goroutine that tails the remote log, the goroutines *)
(* that invoke Call or RetryCall, the goroutines that block on a channel   *)
(* returned by Wait, and whoever invokes Cancel.                           *)
(*                                                                         *)
(* What a critical section of m.mu does is one step.  What happens between *)
(* two critical sections is not: setError writes m.err in one section and  *)
(* m.state in another, and setState closes the channels it collected after *)
(* it has released the lock.  State() reads m.state without the lock.      *)
(*                                                                         *)
(* An RPC is its outcome.  retryCall always returns, because every attempt *)
(* and the whole of it are bounded by timeouts; exec uploads the binary    *)
(* with no timeout, so it may never return unless the context is canceled. *)
(* An RPC of the loop succeeds only while m's context is live: one that    *)
(* was answered just before Cancel is ordered before it, which nobody can  *)
(* tell apart, and net/http fails one that begins after it.                *)
(***************************************************************************)
EXTENDS Naturals

CONSTANTS
    Callers,    \* goroutines that invoke Call or RetryCall
    Waiters,    \* goroutines that block on the channel Wait returns
    Services,   \* m.services
    Owners,     \* what m.owner may be: created by B.Start, or by B.Dial
    HasSystem,  \* loop's system argument is not nil
    NoExec,     \* m.NoExec
    MaxOOM      \* bound: kernel log lines that name the remote process

ASSUME MachineAssumption ==
    /\ "loop" \notin Callers /\ Callers \cap Waiters = {}
    /\ "loop" \notin Waiters
    /\ Owners \subseteq BOOLEAN /\ HasSystem \in BOOLEAN /\ NoExec \in BOOLEAN
    /\ MaxOOM \in Nat

Unstarted == 0
Starting == 1
Running == 2
Stopped == 3
States == Unstarted .. Stopped

\* m.err: nil; context.Canceled, as it is or wrapped by retryCall; an error
\* that Cancel brought about but that errorf turned into text; any other error
\* of an RPC; the monitor's error.
NoErr == "nil"
ErrCanceled == "context.Canceled"
ErrFormatted == "formatted"
ErrRPC == "rpc"
ErrOOM == "oom"
Errors == {ErrCanceled, ErrFormatted, ErrRPC, ErrOOM}

\* The goroutines that call setState and setError.
Setters == {"loop", "oom"}
\* The goroutines that invoke Call; loop does so for its heap profiles.
Clients == Callers \cup {"loop"}
\* A channel of Wait is named after the goroutine that waits on it.
Channels == Clients \cup Waiters

VARIABLES
    state,      \* m.state
    err,        \* m.err
    waiters,    \* m.waiters
    closed,     \* the channels of Wait that have been closed
    cancelers,  \* m.cancelers, by the client whose call registered it
    canceled,   \* m's own context has been canceled
    setPc,      \* where each setter is in setState
    setTo,      \* setState's argument
    triggered,  \* setState's local of that name
    loopPc,     \* where loop is
    toRegister, \* the services loop has yet to register
    tail,       \* the tail goroutine and m.tailDone
    oomPc,      \* where tryMonitorOOMs is
    oomLeft,    \* log lines that may still match, of MaxOOM
    callPc,     \* where each client is in Call or RetryCall
    retry,      \* the clients that invoked RetryCall
    callCtx,    \* the clients whose context, passed to Call, is done
    derived,    \* the context m.context derived from it
    callRes,    \* what the call returned
    waitPc,     \* where each waiter is
    waitFor     \* the state it waits for

\* m.owner: B.Start sets it and makes m.tailDone, B.Dial does neither.
Owner == tail # "nil"

setVars == <<setPc, setTo, triggered>>
callVars == <<callPc, retry, callCtx, derived, callRes>>
waitVars == <<waitPc, waitFor>>
oomVars == <<oomPc, oomLeft>>
loopVars == <<loopPc, toRegister, tail>>
sharedVars == <<state, err, waiters, closed, cancelers, canceled>>
vars == <<sharedVars, setVars, loopVars, oomVars, callVars, waitVars>>

Init ==
    /\ state = Unstarted /\ err = NoErr
    /\ waiters = {} /\ closed = {} /\ cancelers = {}
    /\ canceled = FALSE
    /\ setPc = [g \in Setters |-> "idle"]
    /\ setTo = [g \in Setters |-> Unstarted]
    /\ triggered = [g \in Setters |-> {}]
    /\ loopPc = "begin" /\ toRegister = Services
    /\ tail \in {IF owner THEN "open" ELSE "nil" : owner \in Owners}
    /\ oomPc = "off" /\ oomLeft = MaxOOM
    /\ callPc = [c \in Clients |-> "idle"]
    /\ retry = {} /\ callCtx = {}
    /\ derived = [c \in Clients |-> "none"]
    /\ callRes = [c \in Clients |-> "none"]
    /\ waitPc = [w \in Waiters |-> "idle"]
    /\ waitFor = [w \in Waiters |-> Unstarted]

-----------------------------------------------------------------------------
(* setState and setError, run by the loop and by the OOM monitor.          *)

\* g enters setState(s).
BeginSetState(g, s) ==
    /\ setPc' = [setPc EXCEPT ![g] = "store"]
    /\ setTo' = [setTo EXCEPT ![g] = s]
    /\ UNCHANGED triggered

\* Faulty variant: the error is not recorded.
setErrorUnrecorded(g, e) == e \in Errors /\ err' = err /\ BeginSetState(g, Stopped)

\* The first critical section of setError(e), and the entry to the second.
setError(g, e) ==
    /\ err' = e
    /\ BeginSetState(g, Stopped)

\* Faulty variants: only the waiters for s itself are triggered; all are.
triggeredByEqual(s) == {w \in waiters : w.state = s}
\* The waiters setState(s) triggers.
triggeredBy(s) == {w \in waiters : w.state <= s}

\* Faulty variant: m.waiters is not reset.
keptByReset(s) == waiters \cup triggeredBy(s)

\* The waiters it keeps.
keptBy(s) == waiters \ triggeredBy(s)

\* The cancelers it cancels and removes.
canceledBy(s) == {c \in cancelers : s >= Stopped}

\* The critical section of setState: split the waiters, store the state and,
\* if the machine stops, cancel the contexts of the calls in progress.
setState(g) ==
    /\ setPc[g] = "store"
    /\ LET s == setTo[g]
       IN  /\ waiters' = keptBy(s)
           /\ triggered' = [triggered EXCEPT ![g] = {w.c : w \in triggeredBy(s)}]
           /\ state' = s
           /\ cancelers' = cancelers \ canceledBy(s)
           /\ derived' = [c \in Clients |->
                            IF c \in canceledBy(s) THEN "canceled" ELSE derived[c]]
    /\ setPc' = [setPc EXCEPT ![g] = "close"]
    /\ UNCHANGED <<err, closed, canceled, setTo, loopVars, oomVars, callPc,
                   retry, callCtx, callRes, waitVars>>

\* After the lock is released: close the channels of the waiters triggered.
closeTriggered(g) ==
    /\ setPc[g] = "close"
    /\ closed' = closed \cup triggered[g]
    /\ triggered' = [triggered EXCEPT ![g] = {}]
    /\ setPc' = [setPc EXCEPT ![g] = "idle"]
    /\ UNCHANGED <<state, err, waiters, cancelers, canceled, setTo, loopVars,
                   oomVars, callVars, waitVars>>

-----------------------------------------------------------------------------
(* Wait, and a goroutine that blocks on the channel it returns.            *)

\* The critical section of Wait(s), for the channel c.
WaitOn(c, s) ==
    IF s <= state
    THEN closed' = closed \cup {c} /\ UNCHANGED waiters
    ELSE waiters' = waiters \cup {[c |-> c, state |-> s]}
         /\ closed' = closed \ {c}

Wait(w, s) ==
    /\ waitPc[w] = "idle"
    /\ WaitOn(w, s)
    /\ waitPc' = [waitPc EXCEPT ![w] = "blocked"]
    /\ waitFor' = [waitFor EXCEPT ![w] = s]
    /\ UNCHANGED <<state, err, cancelers, canceled, setVars, loopVars, oomVars,
                   callVars>>

WaitReturns(w) ==
    /\ waitPc[w] = "blocked" /\ w \in closed
    /\ waitPc' = [waitPc EXCEPT ![w] = "released"]
    /\ UNCHANGED <<sharedVars, setVars, loopVars, oomVars, callVars, waitFor>>

-----------------------------------------------------------------------------
(* loop.  It takes a step only when it is not inside setState.             *)

LoopAt(pc) == loopPc = pc /\ setPc["loop"] = "idle"

\* What an RPC of the loop may fail with.
rpcErrors == IF canceled THEN {ErrRPC, ErrCanceled} ELSE {ErrRPC}

\* What errorf makes of it.
errorfErrors == IF canceled THEN {ErrRPC, ErrFormatted} ELSE {ErrRPC}

\* Faulty variants: loop goes on after setError; it returns without it.
LoopFailsNoReturn(es) ==
    /\ \E e \in es : setError("loop", e)
    /\ UNCHANGED <<state, waiters, closed, cancelers, canceled, loopVars,
                   oomVars, callVars, waitVars>>
LoopFailsSilently(es) ==
    /\ es # {}
    /\ loopPc' = "exit"
    /\ UNCHANGED <<sharedVars, setVars, toRegister, tail, oomVars, callVars, waitVars>>

\* loop fails with one of the errors es and returns.
LoopFails(es) ==
    /\ \E e \in es : setError("loop", e)
    /\ loopPc' = "exit"
    /\ UNCHANGED <<state, waiters, closed, cancelers, canceled, toRegister,
                   tail, oomVars, callVars, waitVars>>

LoopGoto(pc) ==
    /\ loopPc' = pc
    /\ UNCHANGED <<sharedVars, setVars, toRegister, tail, oomVars, callVars,
                   waitVars>>

LoopBegin ==
    /\ LoopAt("begin")
    /\ BeginSetState("loop", Starting)
    /\ loopPc' = "starting"
    /\ UNCHANGED <<sharedVars, toRegister, tail, oomVars, callVars, waitVars>>

\* The owner starts the goroutine that tails the log, then bootstraps.
LoopStarting ==
    /\ LoopAt("starting")
    /\ tail' = IF ~Owner THEN "nil" ELSE IF HasSystem THEN "tailing" ELSE "closed"
    /\ loopPc' = IF Owner /\ ~NoExec THEN "bootping" ELSE "ping"
    /\ UNCHANGED <<sharedVars, setVars, toRegister, oomVars, callVars, waitVars>>

LoopBootPing ==
    /\ LoopAt("bootping")
    /\ \/ ~canceled /\ LoopGoto("exec")
       \/ LoopFails(rpcErrors)

\* exec returns nil or the network error that replacing the process causes.
LoopExec ==
    /\ LoopAt("exec")
    /\ \/ ~canceled /\ LoopGoto("ping")
       \/ LoopFails(rpcErrors)

LoopPing ==
    /\ LoopAt("ping")
    /\ \/ ~canceled /\ Owner /\ LoopGoto("register")
       \/ /\ ~canceled /\ ~Owner
          /\ BeginSetState("loop", Running)
          /\ loopPc' = "keepalive"
          /\ UNCHANGED <<sharedVars, toRegister, tail, oomVars, callVars, waitVars>>
       \/ LoopFails(rpcErrors)

LoopRegister ==
    /\ LoopAt("register") /\ toRegister # {}
    /\ \/ /\ ~canceled
          /\ \E svc \in toRegister : toRegister' = toRegister \ {svc}
          /\ UNCHANGED <<sharedVars, setVars, loopPc, tail, oomVars, callVars, waitVars>>
       \/ LoopFails(rpcErrors)

\* Every service is registered: start the OOM monitor, then setState(Running).
LoopRun ==
    /\ LoopAt("register") /\ toRegister = {}
    /\ oomPc' = IF HasSystem THEN "getpid" ELSE "off"
    /\ BeginSetState("loop", Running)
    /\ loopPc' = "keepalive"
    /\ UNCHANGED <<sharedVars, toRegister, tail, oomLeft, callVars, waitVars>>

\* The owner's Keepalive, or the Ping of a machine that was dialed.  A reply
\* that is not Healthy makes the owner save a heap profile with m.Call.
LoopKeepalive ==
    /\ LoopAt("keepalive")
    /\ \/ ~canceled /\ LoopGoto(IF Owner THEN "select" ELSE "sleep")
       \/ /\ ~canceled /\ Owner
          /\ callPc' = [callPc EXCEPT !["loop"] = "switch"]
          /\ loopPc' = "profile"
          /\ UNCHANGED <<sharedVars, setVars, toRegister, tail, oomVars, retry,
                         callCtx, derived, callRes, waitVars>>
       \/ LoopFails(errorfErrors)

\* The saved profile's context is canceled when saveProfile returns, and
\* saveExpvars retries its call until it succeeds or times out.
LoopProfileSaved ==
    /\ LoopAt("profile") /\ callPc["loop"] = "done"
    /\ callPc' = [callPc EXCEPT !["loop"] = "idle"]
    /\ callCtx' = callCtx \ {"loop"}
    /\ derived' = [derived EXCEPT !["loop"] = "none"]
    /\ callRes' = [callRes EXCEPT !["loop"] = "none"]
    /\ loopPc' = "select"
    /\ UNCHANGED <<sharedVars, setVars, toRegister, tail, oomVars, retry, waitVars>>

\* nextc fires, or ctx.Done does.
LoopSelect ==
    /\ LoopAt("select")
    /\ \/ LoopGoto("keepalive")
       \/ canceled /\ LoopFails({ErrCanceled})

\* time.Sleep, which a canceled context does not cut short.
LoopSleep == LoopAt("sleep") /\ LoopGoto("keepalive")

\* loop has returned; start's goroutine cancels m's context.
LoopExit ==
    /\ LoopAt("exit")
    /\ canceled' = TRUE
    /\ loopPc' = "done"
    /\ UNCHANGED <<state, err, waiters, closed, cancelers, setVars, toRegister,
                   tail, oomVars, callVars, waitVars>>

\* The tail goroutine ends: it read the marker, or hit an error or Cancel.
TailEnds ==
    /\ tail = "tailing"
    /\ tail' = "closed"
    /\ UNCHANGED <<sharedVars, setVars, loopPc, toRegister, oomVars, callVars, waitVars>>

Cancel ==
    /\ canceled' = TRUE
    /\ UNCHANGED <<state, err, waiters, closed, cancelers, setVars, loopVars,
                   oomVars, callVars, waitVars>>

-----------------------------------------------------------------------------
(* tryMonitorOOMs.                                                         *)

OOMAt(pc) == oomPc = pc /\ setPc["oom"] = "idle"

OOMGoto(pc) ==
    /\ oomPc' = pc
    /\ UNCHANGED <<sharedVars, setVars, loopVars, oomLeft, callVars, waitVars>>

OOMGetpid ==
    /\ OOMAt("getpid")
    /\ \/ ~canceled /\ OOMGoto("read")
       \/ OOMGoto("done")

OOMRead ==
    /\ OOMAt("read")
    /\ \/ OOMGoto("scan")
       \/ OOMGoto("done")

\* A line of the kernel log names the process.  The scan goes on after it.
OOMMatch ==
    /\ OOMAt("scan") /\ oomLeft > 0
    /\ setError("oom", ErrOOM)
    /\ oomLeft' = oomLeft - 1
    /\ UNCHANGED <<state, waiters, closed, cancelers, canceled, loopVars, oomPc,
                   callVars, waitVars>>

OOMEnd == OOMAt("scan") /\ OOMGoto("done")

-----------------------------------------------------------------------------
(* Call and RetryCall.                                                     *)

BeginCall(c) ==
    /\ callPc[c] = "idle"
    /\ callPc' = [callPc EXCEPT ![c] = "switch"]
    /\ retry' \in {retry, retry \cup {c}}
    /\ UNCHANGED <<sharedVars, setVars, loopVars, oomVars, callCtx, derived,
                   callRes, waitVars>>

\* The context passed to Call expires or is canceled, and with it what
\* m.context derived from it.
CtxDone(c) ==
    /\ callPc[c] # "idle" /\ c \notin callCtx
    /\ callCtx' = callCtx \cup {c}
    /\ derived' = [derived EXCEPT ![c] = IF @ = "live" THEN "canceled" ELSE @]
    /\ UNCHANGED <<sharedVars, setVars, loopVars, oomVars, callPc, retry,
                   callRes, waitVars>>

\* switch m.State()
CallSwitch(c) ==
    /\ callPc[c] = "switch"
    /\ callPc' = [callPc EXCEPT ![c] = CASE state = Running -> "context"
                                         [] state = Stopped -> "stopped"
                                         [] OTHER -> "wait"]
    /\ UNCHANGED <<sharedVars, setVars, loopVars, oomVars, retry, callCtx,
                   derived, callRes, waitVars>>

\* The select of the default case: m.Wait(Running) is evaluated first.
CallWait(c) ==
    /\ callPc[c] = "wait"
    /\ WaitOn(c, Running)
    /\ callPc' = [callPc EXCEPT ![c] = "blocked"]
    /\ UNCHANGED <<state, err, cancelers, canceled, setVars, loopVars, oomVars,
                   retry, callCtx, derived, callRes, waitVars>>

CallWoken(c) ==
    /\ callPc[c] = "blocked" /\ c \in closed
    /\ callPc' = [callPc EXCEPT ![c] = "switch"]
    /\ UNCHANGED <<sharedVars, setVars, loopVars, oomVars, retry, callCtx,
                   derived, callRes, waitVars>>

\* Faulty variant: the state is not looked at again under the lock.
contextUnchecked(c) ==
    /\ callPc[c] = "context"
    /\ derived' = [derived EXCEPT ![c] = IF c \in callCtx THEN "canceled" ELSE "live"]
    /\ cancelers' = cancelers \cup {c}
    /\ callPc' = [callPc EXCEPT ![c] = "rpc"]
    /\ UNCHANGED <<state, err, waiters, closed, canceled, setVars, loopVars,
                   oomVars, retry, callCtx, callRes, waitVars>>

\* m.context: the critical section tells whether the machine has stopped.
context(c) ==
    /\ callPc[c] = "context"
    /\ IF state >= Stopped
       THEN derived' = [derived EXCEPT ![c] = "canceled"] /\ UNCHANGED cancelers
       ELSE /\ derived' = [derived EXCEPT ![c] = IF c \in callCtx THEN "canceled" ELSE "live"]
            /\ cancelers' = cancelers \cup {c}
    /\ callPc' = [callPc EXCEPT ![c] = "rpc"]
    /\ UNCHANGED <<state, err, waiters, closed, canceled, setVars, loopVars,
                   oomVars, retry, callCtx, callRes, waitVars>>

\* Call returns res, running the deferred cancel function, which forgets the
\* canceler and nothing else; RetryCall goes on to retry a temporary error,
\* which the error of a context is if it is a deadline that has passed.
CallReturns(c, res) ==
    /\ cancelers' = cancelers \ {c}
    /\ \/ /\ c \in retry /\ res \in {"temporary", "ctx"}
          /\ callPc' = [callPc EXCEPT ![c] = "backoff"]
          /\ UNCHANGED callRes
       \/ /\ c \notin retry \/ res # "temporary"
          /\ callPc' = [callPc EXCEPT ![c] = "done"]
          /\ callRes' = [callRes EXCEPT ![c] = res]
    /\ UNCHANGED <<state, err, waiters, closed, canceled, setVars, loopVars,
                   oomVars, retry, callCtx, derived, waitVars>>

CallBlockedCtxDone(c) ==
    callPc[c] = "blocked" /\ c \in callCtx /\ CallReturns(c, "ctx")

\* The RPC ends with a reply or with an error other than its context's.
CallRPC(c) ==
    /\ callPc[c] = "rpc"
    /\ \E res \in {"ok", "temporary", "fatal"} : CallReturns(c, res)

\* Faulty variant: the error of the context is returned as it is.
CallRPCCanceledRaw(c) ==
    callPc[c] = "rpc" /\ derived[c] = "canceled" /\ CallReturns(c, "ctx")

\* The RPC ends with the error of its context: the caller gets that error,
\* unless the machine has stopped, which becomes the error (fallthrough).
CallRPCCanceled(c) ==
    /\ callPc[c] = "rpc" /\ derived[c] = "canceled"
    /\ IF state # Stopped
       THEN CallReturns(c, "ctx")
       ELSE /\ callPc' = [callPc EXCEPT ![c] = "stopped"]
            /\ UNCHANGED <<sharedVars, setVars, loopVars, oomVars, retry,
                           callCtx, derived, callRes, waitVars>>

\* case Stopped: the error carries m.Err() if there is one.
CallStopped(c) ==
    /\ callPc[c] = "stopped"
    /\ CallReturns(c, IF err # NoErr THEN "stopped" ELSE "stopped without cause")

\* RetryCall's retry.Wait: it fails once the context is done.
RetryWait(c) ==
    /\ callPc[c] = "backoff"
    /\ \/ /\ c \notin callCtx
          /\ callPc' = [callPc EXCEPT ![c] = "switch"]
          /\ UNCHANGED callRes
       \/ /\ c \in callCtx
          /\ callPc' = [callPc EXCEPT ![c] = "done"]
          /\ callRes' = [callRes EXCEPT ![c] = "fatal"]
    /\ UNCHANGED <<sharedVars, setVars, loopVars, oomVars, retry, callCtx,
                   derived, waitVars>>

\* The caller moves on and lets go of its context.
EndCall(c) ==
    /\ callPc[c] = "done"
    /\ callPc' = [callPc EXCEPT ![c] = "idle"]
    /\ retry' = retry \ {c}
    /\ callCtx' = callCtx \ {c}
    /\ derived' = [derived EXCEPT ![c] = "none"]
    /\ callRes' = [callRes EXCEPT ![c] = "none"]
    /\ UNCHANGED <<sharedVars, setVars, loopVars, oomVars, waitVars>>

-----------------------------------------------------------------------------
LoopNext ==
    \/ LoopBegin \/ LoopStarting \/ LoopBootPing \/ LoopExec \/ LoopPing
    \/ LoopRegister \/ LoopRun \/ LoopKeepalive \/ LoopProfileSaved
    \/ LoopSelect \/ LoopSleep \/ LoopExit

OOMNext == OOMGetpid \/ OOMRead \/ OOMMatch \/ OOMEnd

\* The steps of a call that its goroutine takes by itself.
CallSteps(c) ==
    \/ CallSwitch(c) \/ CallWait(c) \/ CallWoken(c) \/ context(c)
    \/ CallBlockedCtxDone(c) \/ CallRPCCanceled(c) \/ CallStopped(c)
    \/ RetryWait(c)

Next ==
    \/ LoopNext \/ OOMNext \/ TailEnds \/ Cancel
    \/ \E g \in Setters : setState(g) \/ closeTriggered(g)
    \/ \E w \in Waiters : WaitReturns(w) \/ \E s \in States : Wait(w, s)
    \/ \E c \in Clients : CallSteps(c) \/ CallRPC(c) \/ CtxDone(c)
    \/ \E c \in Callers : BeginCall(c) \/ EndCall(c)

Spec == Init /\ [][Next]_vars

\* Goroutines that can run do run.  Nothing is assumed of RPCs but what the
\* code's timeouts and contexts guarantee: the upload in exec ends only when
\* it succeeds, fails or is canceled, a caller's RPC likewise, and only the
\* context of the loop's own call is sure to expire.
Fairness ==
    /\ WF_vars(LoopNext /\ (loopPc = "exec" => canceled))
    /\ WF_vars(canceled /\ TailEnds)
    /\ \A g \in Setters : WF_vars(setState(g) \/ closeTriggered(g))
    /\ \A w \in Waiters : WF_vars(WaitReturns(w))
    /\ \A c \in Clients : WF_vars(CallSteps(c))
    /\ WF_vars(CtxDone("loop"))

FairSpec == Spec /\ Fairness

-----------------------------------------------------------------------------
(* Properties.                                                             *)

\* The variables have their types.
TypeOK ==
    /\ state \in States /\ err \in Errors \cup {NoErr}
    /\ waiters \subseteq [c : Channels, state : States] /\ closed \subseteq Channels
    /\ cancelers \subseteq Clients /\ canceled \in BOOLEAN
    /\ setPc \in [Setters -> {"idle", "store", "close"}]
    /\ setTo \in [Setters -> States]
    /\ triggered \in [Setters -> SUBSET Channels]
    /\ loopPc \in {"begin", "starting", "bootping", "exec", "ping", "register",
                   "keepalive", "profile", "select", "sleep", "exit", "done"}
    /\ toRegister \subseteq Services
    /\ tail \in {"nil", "open", "tailing", "closed"}
    /\ oomPc \in {"off", "getpid", "read", "scan", "done"}
    /\ oomLeft \in 0 .. MaxOOM
    /\ callPc \in [Clients -> {"idle", "switch", "wait", "blocked", "context",
                               "rpc", "stopped", "backoff", "done"}]
    /\ retry \subseteq Clients /\ callCtx \subseteq Clients
    /\ derived \in [Clients -> {"none", "live", "canceled"}]
    /\ callRes \in [Clients -> {"none", "ok", "temporary", "fatal", "ctx",
                                "stopped", "stopped without cause"}]
    /\ waitPc \in [Waiters -> {"idle", "blocked", "released"}]
    /\ waitFor \in [Waiters -> States]

\* "If a machine fails its keepalive, pending calls are canceled" (Call): once
\* the machine has stopped no RPC is in flight with a live context, whichever
\* way setState(Stopped) interleaves with m.context.
StoppedCancelsCalls ==
    \A c \in Clients :
        state = Stopped /\ callPc[c] = "rpc" => derived[c] = "canceled"

\* A stopped machine has an error, and every call that fails because of it
\* carries one, though setError writes m.err and m.state in two sections.
StoppedHasErr ==
    /\ state = Stopped => err # NoErr
    /\ \A c \in Clients : callRes[c] # "stopped without cause"

\* No wakeup is lost: Wait never leaves a channel registered for a state the
\* machine is in or past, so setState has closed it or is about to.
NoLostWakeup ==
    /\ \A w \in waiters : w.state > state
    /\ \A w \in Waiters :
          waitPc[w] = "blocked" /\ waitFor[w] <= state
             => w \in closed \cup triggered["loop"] \cup triggered["oom"]

\* No channel is closed twice (which would panic), though the loop and the
\* monitor may be in setState at once.
NoDoubleClose ==
    \A w \in Waiters :
        /\ \A g \in Setters : w \in triggered[g] =>
              /\ w \notin closed
              /\ \A x \in waiters : x.c # w
        /\ ~(w \in triggered["loop"] /\ w \in triggered["oom"])

\* Wait closes its channel "once the machine reaches the provided state or
\* greater", and not before: nobody is released from a wait for Running, say,
\* while the machine has only ever been Starting.
NoEarlyWakeup ==
    \A w \in Waiters : waitPc[w] = "released" => waitFor[w] <= state

\* "Machine states proceed monotonically: they can only increase in value"
\* (State).
StateMonotonic == [][state' >= state]_vars

\* "Err is only well-defined when the machine is in Stopped state" (Err): the
\* error a stopped machine reports does not change.
ErrStable == [][state = Stopped => err' = err]_vars

\* A call returns the error of its context only if the context its caller
\* passed is done; when the machine's stop canceled it, the call reports that.
CtxErrIsCallers == \A c \in Clients : callRes[c] = "ctx" => c \in callCtx

\* Cancel stops the machine for good, wherever loop is: bootstrapping,
\* uploading, in a call of its own, backing off or asleep.
CancelStops == canceled ~> [](state = Stopped)

\* The machine as its users see it: the error counts once the machine has
\* stopped, and a call is pending while it is retried.
L == INSTANCE Lifecycle WITH
    phase <- state,
    cause <- IF state = Stopped THEN err ELSE NoErr,
    waits <- waitPc,
    calls <- [c \in Callers |-> IF callPc[c] \in {"idle", "done"} THEN callPc[c] ELSE "pending"],
    expired <- callCtx \ {"loop"},
    result <- [c \in Callers |-> callRes[c]]

\* A machine with no OOM monitor keeps the promises of Lifecycle: State, Wait,
\* Err, Call and RetryCall mean what their comments say, with every wait that
\* is due released and every call of a stopped machine ended.
ImplementsLifecycle == L!FairSpec

=============================================================================
