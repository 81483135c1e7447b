----------------------------- MODULE Keepalive -----------------------------
(***************************************************************************)
(* The keepalive between the process that owns a machine and the machine's *)
(* supervisor: the keepalive loop at the end of loop with retryCall        *)
(* (machine.go), and Keepalive with watchdog (supervisor.go), joined by a  *)
(* network that loses and delays requests and replies.                     *)
(*                                                                         *)
(* Time is discrete: Tick lets one unit pass on every timer at once.       *)
(* Timers are kept relative to now, so next - now is the variable lease.   *)
(* Tick waits for whatever is due: a goroutine whose timer has fired runs  *)
(* before the next unit passes, except that a Keepalive handler may wait   *)
(* up to Stall units for the watchdog to take its time from nextc.         *)
(*                                                                         *)
(* The model begins when the execed process has started its watchdog and   *)
(* ends when the process has gone.  reply.Healthy is any Boolean: it tells *)
(* the driver about the remote memory, which the model leaves out.         *)
(***************************************************************************)
EXTENDS Integers

CONSTANTS
    Lease,       \* the keepalive the driver asks for (5 minutes)
    Grace,       \* the watchdog's initial timeout (2 minutes)
    TickPeriod,  \* the period of the watchdog's ticker (30 seconds)
    Period,      \* m.keepalivePeriod
    Timeout,     \* m.keepaliveTimeout
    RpcTimeout,  \* m.keepaliveRpcTimeout
    MaxBackoff,  \* the longest pause of retryPolicy (5 seconds)
    Diags,       \* how long saveProfile (up to 1m) and saveExpvars (up to 5m,
                 \* and an attempt of 25s begun before that) take together
    Stall,       \* bound: how long a handler waits for the watchdog
    MaxStray     \* bound: abandoned requests still in the network

ASSUME KeepaliveAssumption ==
    /\ Lease \in Nat /\ Grace \in Nat /\ TickPeriod \in Nat \ {0}
    /\ Period \in Nat /\ Timeout \in Nat /\ RpcTimeout \in Nat
    /\ MaxBackoff \in Nat /\ Diags \subseteq Nat /\ MaxStray \in Nat
    /\ Stall \in 0 .. Lease

VARIABLES
    proc,       \* the process: alive, expired (killed by its watchdog), crashed
    lease,      \* watchdog: next, relative to now
    sinceTick,  \* watchdog: time since its ticker last fired
    accepted,   \* the watchdog has taken a keepalive since it started
    lateTimes,  \* handlers of abandoned requests: the times they hold
    stray,      \* abandoned requests that have not reached the process
    driverPc,   \* where the driver is
    att,        \* the driver's current attempt
    curT,       \* the time its handler holds
    replyNext,  \* reply.KeepaliveNext
    callAge,    \* time since retryCall was entered
    rpcAge,     \* time since the attempt was begun
    backoff,    \* what is left of retry.Wait
    waitLeft,   \* what is left until nextc fires
    diag,       \* how long the diagnostics after the last reply take, if any
    diagLeft,   \* what is left of the heap profile and the expvar dump
    deadFor     \* how long the process has been gone with the driver at it

watchdogVars == <<proc, lease, sinceTick, accepted>>
netVars == <<lateTimes, stray>>
attVars == <<att, curT, replyNext>>
timerVars == <<callAge, rpcAge, backoff, waitLeft, diag, diagLeft>>
keepaliveVars == <<watchdogVars, netVars, attVars, driverPc, timerVars, deadFor>>

KeepaliveInit ==
    /\ proc = "alive" /\ lease = Grace /\ sinceTick = 0 /\ accepted = FALSE
    /\ lateTimes = {} /\ stray = 0
    /\ driverPc = "boot" /\ att = "none" /\ curT = 0 /\ replyNext = 0
    /\ callAge = 0 /\ rpcAge = 0 /\ backoff = 0 /\ waitLeft = 0 /\ diagLeft = 0
    /\ diag = 0 /\ deadFor = 0

-----------------------------------------------------------------------------
(* The supervisor.                                                         *)

\* Faulty variant: the initial timeout is offered, whatever was asked for.
KeepaliveArrivesGrace ==
    /\ proc = "alive" /\ att = "sent"
    /\ att' = "handling" /\ curT' = Grace
    /\ UNCHANGED <<watchdogVars, netVars, replyNext, driverPc, timerVars, deadFor>>

\* A handler computes the time t it will offer to the watchdog: now + next.
\* The request is that of the current attempt, or one that was abandoned.
KeepaliveArrives ==
    /\ proc = "alive" /\ att = "sent"
    /\ att' = "handling" /\ curT' = Lease
    /\ UNCHANGED <<watchdogVars, netVars, replyNext, driverPc, timerVars, deadFor>>

StrayArrives ==
    /\ proc = "alive" /\ stray > 0
    /\ stray' = stray - 1
    /\ lateTimes' = lateTimes \cup {Lease}
    /\ UNCHANGED <<watchdogVars, attVars, driverPc, timerVars, deadFor>>

\* The handler of an abandoned request returns, its context being done.
LateGivesUp ==
    /\ \E t \in lateTimes : lateTimes' = lateTimes \ {t}
    /\ UNCHANGED <<watchdogVars, stray, attVars, driverPc, timerVars, deadFor>>

StrayLost ==
    /\ stray > 0
    /\ stray' = stray - 1
    /\ UNCHANGED <<watchdogVars, lateTimes, attVars, driverPc, timerVars, deadFor>>

\* Faulty variant: the expiry is never acted upon.
expireNever(t) == proc' = IF t < -(TickPeriod + Lease) THEN "expired" ELSE proc

\* if time.Since(next) > 0 { s.system.Exit(1) }
expire(t) == proc' = IF t < 0 THEN "expired" ELSE proc

\* case next = <-s.nextc, with the current attempt's handler: it replies.
AcceptCurrent ==
    /\ proc = "alive" /\ att = "handling"
    /\ lease' = curT /\ accepted' = TRUE
    /\ expire(curT)
    /\ att' = "replied" /\ replyNext' = curT
    /\ UNCHANGED <<sinceTick, netVars, curT, driverPc, timerVars, deadFor>>

\* The same with the handler of an abandoned request: nobody reads its reply.
AcceptLate ==
    /\ proc = "alive"
    /\ \E t \in lateTimes :
          /\ lateTimes' = lateTimes \ {t}
          /\ lease' = t /\ accepted' = TRUE
          /\ expire(t)
    /\ UNCHANGED <<sinceTick, stray, attVars, driverPc, timerVars, deadFor>>

\* Faulty variant: a tick renews the keepalive.
WatchdogTickRenews ==
    /\ proc = "alive" /\ sinceTick = TickPeriod
    /\ sinceTick' = 0 /\ lease' = Grace
    /\ UNCHANGED <<proc, accepted, netVars, attVars, driverPc, timerVars, deadFor>>

\* case <-tick.C
WatchdogTick ==
    /\ proc = "alive" /\ sinceTick = TickPeriod
    /\ sinceTick' = 0
    /\ expire(lease)
    /\ UNCHANGED <<lease, accepted, netVars, attVars, driverPc, timerVars, deadFor>>

\* The process dies of something other than its watchdog.
ProcCrash ==
    /\ proc = "alive"
    /\ proc' = "crashed"
    /\ UNCHANGED <<lease, sinceTick, accepted, netVars, attVars, driverPc, timerVars, deadFor>>

-----------------------------------------------------------------------------
(* The driver.                                                             *)

\* retryCall begins its first attempt.
BeginCall ==
    /\ driverPc' = "rpc" /\ att' = "sent"
    /\ callAge' = 0 /\ rpcAge' = 0
    /\ UNCHANGED <<watchdogVars, netVars, curT, replyNext, backoff, waitLeft, diag, diagLeft, deadFor>>

\* The services are registered: the first keepalive.
BootDone == driverPc = "boot" /\ BeginCall

\* The driver gives up, in bootstrapping or with "keepalive failed", and
\* abandons its attempt, if any; Cancel and a crash look the same from here.
Abandon ==
    /\ lateTimes' = IF att = "handling" THEN lateTimes \cup {curT} ELSE lateTimes
    /\ stray' = IF att = "sent" /\ stray < MaxStray THEN stray + 1 ELSE stray
    /\ att' = "none"
    /\ UNCHANGED <<curT, replyNext>>

DriverStops ==
    /\ driverPc' = "stopped"
    /\ UNCHANGED <<watchdogVars, callAge, rpcAge, backoff, waitLeft, diag, diagLeft, deadFor>>

DriverGone ==
    /\ driverPc # "stopped"
    /\ Abandon /\ DriverStops

\* The network loses the request or the reply.
AttemptLost ==
    /\ att \in {"sent", "replied"}
    /\ att' = "lost"
    /\ UNCHANGED <<watchdogVars, netVars, curT, replyNext, driverPc, timerVars, deadFor>>

\* Faulty variant: the backoff is not checked against the overall timeout.
retryWaitUnchecked(b) ==
    /\ driverPc' = "backoff" /\ backoff' = b
    /\ UNCHANGED <<watchdogVars, callAge, rpcAge, waitLeft, diag, diagLeft, deadFor>>

\* retry.Wait(retryCtx) fails at once if its deadline would pass meanwhile.
retryWait(b) ==
    IF callAge + b > Timeout
    THEN DriverStops
    ELSE /\ driverPc' = "backoff" /\ backoff' = b
         /\ UNCHANGED <<watchdogVars, callAge, rpcAge, waitLeft, diag, diagLeft, deadFor>>

\* The attempt fails: with a network error at any time, with its own deadline
\* after RpcTimeout.  rpcCtx derives from ctx, so the overall timeout does not
\* cut it short.
AttemptFails ==
    /\ driverPc = "rpc"
    /\ Abandon
    /\ \E b \in 0 .. MaxBackoff : retryWait(b)

\* An error of severity Fatal ends retryCall without a retry.
AttemptFatal ==
    /\ driverPc = "rpc"
    /\ Abandon /\ DriverStops

NextAttempt ==
    /\ driverPc = "backoff" /\ backoff = 0
    /\ driverPc' = "rpc" /\ att' = "sent" /\ rpcAge' = 0
    /\ UNCHANGED <<watchdogVars, netVars, curT, replyNext, callAge, backoff, waitLeft,
                   diag, diagLeft, deadFor>>

\* time.After(next / 2), next being at most keepalivePeriod.
nextWait(next) ==
    LET capped == IF next > Period THEN Period ELSE next
    IN  IF capped <= 0 THEN 0 ELSE capped \div 2

\* The reply.  If it is not Healthy, a heap profile and the exported variables
\* are saved before the select, and no keepalive is sent meanwhile.
ReplyReceived ==
    /\ driverPc = "rpc" /\ att = "replied"
    /\ driverPc' = "wait" /\ att' = "none"
    /\ waitLeft' = nextWait(replyNext)
    /\ diag' \in {0} \cup Diags /\ diagLeft' = diag'
    /\ UNCHANGED <<watchdogVars, netVars, curT, replyNext, callAge, rpcAge, backoff, deadFor>>

\* nextc has fired and the diagnostics are done.
NextKeepalive ==
    /\ driverPc = "wait" /\ waitLeft = 0 /\ diagLeft = 0
    /\ BeginCall

-----------------------------------------------------------------------------
(* Time.                                                                   *)

Countdown(n) == IF n > 0 THEN n - 1 ELSE 0

\* Nothing is due: time may pass.
NothingDue ==
    /\ proc = "alive" =>
          /\ sinceTick < TickPeriod
          /\ att = "handling" => curT > Lease - Stall
          /\ \A t \in lateTimes : t > Lease - Stall
    /\ driverPc = "rpc" => rpcAge < RpcTimeout
    /\ driverPc = "backoff" => backoff > 0
    /\ driverPc = "wait" => waitLeft > 0 \/ diagLeft > 0
    /\ ~(driverPc = "stopped" /\ proc # "alive")

Tick ==
    /\ NothingDue
    /\ IF proc = "alive"
       THEN /\ lease' = lease - 1 /\ sinceTick' = sinceTick + 1
            /\ curT' = IF att = "handling" THEN curT - 1 ELSE curT
            /\ lateTimes' = {t - 1 : t \in lateTimes}
            /\ UNCHANGED deadFor
       ELSE /\ deadFor' = IF driverPc \in {"rpc", "backoff", "wait"} THEN deadFor + 1 ELSE deadFor
            /\ UNCHANGED <<lease, sinceTick, curT, lateTimes>>
    /\ callAge' = IF driverPc \in {"rpc", "backoff"} THEN callAge + 1 ELSE callAge
    /\ rpcAge' = IF driverPc = "rpc" THEN rpcAge + 1 ELSE rpcAge
    /\ backoff' = Countdown(backoff)
    /\ waitLeft' = Countdown(waitLeft) /\ diagLeft' = Countdown(diagLeft)
    /\ UNCHANGED <<proc, accepted, stray, att, replyNext, driverPc, diag>>

Supervisor ==
    \/ KeepaliveArrives \/ StrayArrives \/ LateGivesUp \/ AcceptCurrent
    \/ AcceptLate \/ WatchdogTick

Driver ==
    \/ BootDone \/ DriverGone \/ AttemptFails \/ AttemptFatal \/ NextAttempt
    \/ ReplyReceived \/ NextKeepalive

KeepaliveNext == Supervisor \/ Driver \/ ProcCrash \/ AttemptLost \/ StrayLost \/ Tick

KeepaliveSpec == KeepaliveInit /\ [][KeepaliveNext]_keepaliveVars

\* Time passes, and the watchdog's goroutine and the handlers get to run.
KeepaliveFairness ==
    /\ WF_keepaliveVars(Tick) /\ WF_keepaliveVars(WatchdogTick)
    /\ WF_keepaliveVars(AcceptLate \/ LateGivesUp)

KeepaliveFairSpec == KeepaliveSpec /\ KeepaliveFairness

-----------------------------------------------------------------------------
(* Properties.                                                             *)

MaxLease == IF Lease > Grace THEN Lease ELSE Grace
\* The longest the loop can spend between a reply and its next call, if the
\* diagnostics take d.
PauseOf(d) == IF d > Period \div 2 THEN d ELSE Period \div 2
\* The keepalive lasts for a reply in flight, such a pause, and a retryCall.
FitsLease(d) == 2 * RpcTimeout + PauseOf(d) + Timeout + Stall <= Lease

\* The variables have their types.
KeepaliveTypeOK ==
    /\ proc \in {"alive", "expired", "crashed"}
    /\ lease \in Int /\ lease <= MaxLease
    /\ sinceTick \in 0 .. TickPeriod /\ accepted \in BOOLEAN
    /\ lateTimes \subseteq (Lease - Stall) .. Lease /\ stray \in 0 .. MaxStray
    /\ driverPc \in {"boot", "rpc", "backoff", "wait", "stopped"}
    /\ att \in {"none", "sent", "handling", "replied", "lost"}
    /\ curT \in 0 .. Lease /\ replyNext \in 0 .. Lease
    /\ callAge \in 0 .. Timeout + RpcTimeout /\ rpcAge \in 0 .. RpcTimeout
    /\ backoff \in 0 .. MaxBackoff
    /\ waitLeft \in 0 .. Period \div 2
    /\ diag \in {0} \cup Diags /\ diagLeft \in 0 .. diag
    /\ deadFor \in Nat

\* The watchdog is prompt: a process outlives its keepalive by no more than
\* the time since the last tick, so by at most one period of the ticker.
LeaseBound == proc = "alive" => lease >= -sinceTick

\* Once a keepalive has been accepted, the watchdog never kills a process that
\* its driver still takes to be running: the driver has given up before that.
\* The one exception is a driver that took too long over the diagnostics after
\* its last reply to "call Keepalive again before replynext expires"
\* (Supervisor.Keepalive): FitsLease allows the local system 2m40s less Stall for
\* them, and they may take 6m25s.
DriverGivesUpFirst ==
    proc = "expired" /\ accepted /\ FitsLease(diag) => driverPc = "stopped"

\* A driver that keeps calling finds out that the process is gone: it stops
\* within a reply in flight, a pause and one retryCall, whose last attempt may
\* begin at its overall timeout and take RpcTimeout more.
DetectsDeath ==
    proc # "alive" /\ driverPc \in {"rpc", "backoff", "wait"}
        => deadFor <= 2 * RpcTimeout + PauseOf(diag) + Timeout

\* "When the Bigmachine driver process fails to maintain its keepalive [...]
\* the target machine shuts itself down" (docs/impl.md), also when requests
\* that the driver has abandoned are still to arrive.
OrphanExits == driverPc = "stopped" ~> proc # "alive"

=============================================================================
