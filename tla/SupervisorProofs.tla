-------------------------- MODULE SupervisorProofs -------------------------
(***************************************************************************)
(* Proofs about a machine's supervisor: Keepalive, for every choice of the *)
(* timeouts, and Bootstrap, however many services there are, attempts are  *)
(* made and connections break.                                             *)
(***************************************************************************)
EXTENDS Keepalive, Bootstrap, TLAPS

\* The prover of the leaves that name none.
USE ZenonT(60)

-----------------------------------------------------------------------------
(* The keepalive.                                                          *)

\* Where the timers of the driver can be.  An attempt begins no later than the
\* overall timeout, so the call lasts at most RpcTimeout longer; a handler has
\* waited at most Stall; before the first call nothing has been sent.
AgeInv ==
    /\ driverPc = "rpc" => callAge <= Timeout + rpcAge
    /\ driverPc = "backoff" => callAge + backoff <= Timeout
    /\ att # "none" => driverPc = "rpc"
    /\ att = "handling" => curT >= Lease - Stall
    /\ driverPc = "boot" => ~accepted /\ lateTimes = {} /\ stray = 0 /\ deadFor = 0
    /\ proc = "alive" => deadFor = 0

KeepaliveInv == KeepaliveTypeOK /\ AgeInv

\* The maxima are what their names say.
LEMMA Maxima ==
    /\ MaxLease \in Nat /\ Lease <= MaxLease /\ Grace <= MaxLease
    /\ Period \div 2 \in Nat
    /\ \A d \in Nat : PauseOf(d) \in Nat /\ d <= PauseOf(d) /\ Period \div 2 <= PauseOf(d)
<1>1. Period \div 2 \in Nat
  BY KeepaliveAssumption, SMTT(30)
<1> QED
  BY <1>1, KeepaliveAssumption, SMTT(30) DEF MaxLease, PauseOf

\* How long diagnostics take is a natural number.
LEMMA DiagNat == KeepaliveTypeOK => diag \in Nat /\ diagLeft \in Nat /\ diagLeft <= diag
<1> SUFFICES ASSUME KeepaliveTypeOK PROVE diag \in Nat /\ diagLeft \in Nat /\ diagLeft <= diag
  OBVIOUS
<1>1. diag \in {0} \cup Diags /\ diagLeft \in 0 .. diag
  BY DEF KeepaliveTypeOK
<1>2. diag \in Nat
  BY <1>1, KeepaliveAssumption, SMTT(30)
<1> QED
  BY <1>1, <1>2, SMTT(30)

\* The pause after a reply is at most half the period.
LEMMA NextWaitBound ==
    ASSUME NEW next \in Nat
    PROVE  nextWait(next) \in 0 .. Period \div 2
  BY KeepaliveAssumption, SMTT(30) DEF nextWait

\* The initial state.
LEMMA KeepaliveInvInit == KeepaliveInit => KeepaliveInv
<1> SUFFICES ASSUME KeepaliveInit PROVE KeepaliveInv
  OBVIOUS
<1>1. KeepaliveTypeOK
  <2>1. accepted \in BOOLEAN
    BY DEF KeepaliveInit
  <2> QED
    BY <2>1, KeepaliveAssumption, Maxima, SMTT(30) DEF KeepaliveInit, KeepaliveTypeOK
<1>2. AgeInv
  <2>1. ~accepted
    BY DEF KeepaliveInit
  <2> QED
    BY <2>1 DEF KeepaliveInit, AgeInv
<1> QED
  BY <1>1, <1>2 DEF KeepaliveInv

\* The steps of the supervisor keep the timers in their ranges.
LEMMA SupervisorInv == KeepaliveInv /\ Supervisor => KeepaliveInv'
<1> SUFFICES ASSUME KeepaliveInv, Supervisor PROVE KeepaliveInv'
  OBVIOUS
<1> USE KeepaliveAssumption DEF KeepaliveInv, watchdogVars, netVars, attVars, timerVars
<1>1. CASE KeepaliveArrives
  BY <1>1, SMTT(30) DEF KeepaliveArrives, KeepaliveTypeOK, AgeInv
<1>2. CASE StrayArrives
  <2>1. lateTimes' \subseteq (Lease - Stall) .. Lease /\ stray' \in 0 .. MaxStray
    BY <1>2, SMTT(30) DEF StrayArrives, KeepaliveTypeOK
  <2> QED
    BY <1>2, <2>1, SMTT(30) DEF StrayArrives, KeepaliveTypeOK, AgeInv
<1>3. CASE LateGivesUp
  <2>1. lateTimes' \subseteq lateTimes
    BY <1>3 DEF LateGivesUp
  <2> QED
    BY <1>3, <2>1 DEF LateGivesUp, KeepaliveTypeOK, AgeInv
<1>4. CASE AcceptCurrent
  BY <1>4, Maxima, SMTT(30) DEF AcceptCurrent, expire, KeepaliveTypeOK, AgeInv
<1>5. CASE AcceptLate
  <2>1. PICK t \in lateTimes : lateTimes' = lateTimes \ {t} /\ lease' = t /\ expire(t)
    BY <1>5 DEF AcceptLate
  <2>2. t \in (Lease - Stall) .. Lease
    BY <2>1 DEF KeepaliveTypeOK
  <2>3. KeepaliveTypeOK'
    BY <1>5, <2>1, <2>2, Maxima, SMTT(30) DEF AcceptLate, expire, KeepaliveTypeOK
  <2>4. driverPc # "boot"
    BY <2>1 DEF AgeInv
  <2> QED
    BY <1>5, <2>1, <2>2, <2>3, <2>4 DEF AcceptLate, expire, AgeInv, KeepaliveTypeOK
<1>6. CASE WatchdogTick
  BY <1>6, SMTT(30) DEF WatchdogTick, expire, KeepaliveTypeOK, AgeInv
<1> QED
  BY <1>1, <1>2, <1>3, <1>4, <1>5, <1>6 DEF Supervisor

\* Abandoning an attempt keeps the bounds of what is left of it.
LEMMA AbandonInv ==
    ASSUME KeepaliveInv, Abandon
    PROVE  /\ lateTimes' \subseteq (Lease - Stall) .. Lease /\ stray' \in 0 .. MaxStray
           /\ att' = "none" /\ UNCHANGED <<curT, replyNext>>
<1> USE KeepaliveAssumption DEF KeepaliveInv
<1>1. lateTimes' \subseteq (Lease - Stall) .. Lease
  <2>1. CASE att = "handling"
    <3>1. curT \in (Lease - Stall) .. Lease
      BY <2>1, SMTT(30) DEF KeepaliveTypeOK, AgeInv
    <3> QED
      BY <2>1, <3>1 DEF Abandon, KeepaliveTypeOK
  <2> QED
    BY <2>1 DEF Abandon, KeepaliveTypeOK
<1>2. stray' \in 0 .. MaxStray
  BY SMTT(30) DEF Abandon, KeepaliveTypeOK
<1> QED
  BY <1>1, <1>2 DEF Abandon

\* The steps of the driver keep the timers in their ranges.
LEMMA DriverInv == KeepaliveInv /\ Driver => KeepaliveInv'
<1> SUFFICES ASSUME KeepaliveInv, Driver PROVE KeepaliveInv'
  OBVIOUS
<1> USE KeepaliveAssumption DEF KeepaliveInv, watchdogVars, netVars, attVars, timerVars
<1>1. CASE BootDone \/ NextKeepalive
  <2>1. BeginCall
    BY <1>1 DEF BootDone, NextKeepalive
  <2>2. KeepaliveTypeOK'
    BY <2>1, SMTT(30) DEF BeginCall, KeepaliveTypeOK
  <2> QED
    BY <2>1, <2>2, SMTT(30) DEF BeginCall, AgeInv
<1>2. CASE Abandon /\ DriverStops
  BY <1>2, AbandonInv DEF DriverStops, KeepaliveTypeOK, AgeInv
<1>3. CASE AttemptFails
  <2>1. PICK b \in 0 .. MaxBackoff : retryWait(b)
    BY <1>3 DEF AttemptFails
  <2>2. CASE callAge + b > Timeout
    BY <1>2, <1>3, <2>1, <2>2 DEF AttemptFails, retryWait
  <2>3. CASE ~(callAge + b > Timeout)
    <3>1. /\ driverPc' = "backoff" /\ backoff' = b
          /\ UNCHANGED <<watchdogVars, callAge, rpcAge, waitLeft, diag, diagLeft, deadFor>>
      BY <2>1, <2>3 DEF retryWait
    <3>2. Abandon
      BY <1>3 DEF AttemptFails
    <3> QED
      BY <2>3, <3>1, <3>2, AbandonInv, SMTT(30) DEF KeepaliveTypeOK, AgeInv
  <2> QED
    BY <2>2, <2>3
<1>4. CASE NextAttempt
  BY <1>4, SMTT(30) DEF NextAttempt, KeepaliveTypeOK, AgeInv
<1>5. CASE ReplyReceived
  <2>1. waitLeft' \in 0 .. Period \div 2
    BY <1>5, NextWaitBound, SMTT(30) DEF ReplyReceived, KeepaliveTypeOK
  <2>2. PICK d \in {0} \cup Diags : diag' = d /\ diagLeft' = d
    BY <1>5 DEF ReplyReceived
  <2>3. d \in 0 .. d
    BY <2>2, SMTT(30)
  <2> QED
    BY <1>5, <2>1, <2>2, <2>3 DEF ReplyReceived, KeepaliveTypeOK, AgeInv
<1> QED
  BY <1>1, <1>2, <1>3, <1>4, <1>5 DEF Driver, DriverGone, AttemptFatal

\* Time passes only as far as the timers allow.
LEMMA TickInv == KeepaliveInv /\ Tick => KeepaliveInv'
<1> SUFFICES ASSUME KeepaliveInv, Tick PROVE KeepaliveInv'
  OBVIOUS
<1> USE KeepaliveAssumption DEF KeepaliveInv
<1>1. lateTimes' \subseteq (Lease - Stall) .. Lease /\ (lateTimes = {} => lateTimes' = {})
  <2>1. CASE proc = "alive"
    <3>1. \A t \in lateTimes : t \in Int /\ t > Lease - Stall /\ t <= Lease
      BY <2>1, SMTT(30) DEF Tick, NothingDue, KeepaliveTypeOK
    <3>2. lateTimes' = {t - 1 : t \in lateTimes}
      BY <2>1 DEF Tick
    <3> QED
      BY <3>1, <3>2, SMTT(30)
  <2>2. CASE proc # "alive"
    BY <2>2 DEF Tick, KeepaliveTypeOK
  <2> QED
    BY <2>1, <2>2
<1>2. /\ lease' \in Int /\ lease' <= MaxLease /\ sinceTick' \in 0 .. TickPeriod
      /\ curT' \in 0 .. Lease /\ deadFor' \in Nat
      /\ att = "handling" => curT' >= Lease - Stall
  BY Maxima, SMTT(30) DEF Tick, NothingDue, KeepaliveTypeOK, AgeInv
<1>3. /\ callAge' \in 0 .. Timeout + RpcTimeout /\ rpcAge' \in 0 .. RpcTimeout
      /\ driverPc = "rpc" => callAge' <= Timeout + rpcAge'
      /\ driverPc = "backoff" => callAge' + backoff' <= Timeout
  BY SMTT(30) DEF Tick, NothingDue, KeepaliveTypeOK, AgeInv, Countdown
<1>4. /\ backoff' \in 0 .. MaxBackoff /\ waitLeft' \in 0 .. Period \div 2
      /\ diagLeft' \in 0 .. diag
  BY Maxima, DiagNat, SMTT(30) DEF Tick, KeepaliveTypeOK, Countdown
<1>5. KeepaliveTypeOK'
  BY <1>1, <1>2, <1>3, <1>4 DEF Tick, KeepaliveTypeOK
<1> QED
  BY <1>1, <1>2, <1>3, <1>5 DEF Tick, AgeInv

\* KeepaliveInv is inductive.
LEMMA KeepaliveInvStep == KeepaliveInv /\ [KeepaliveNext]_keepaliveVars => KeepaliveInv'
<1> SUFFICES ASSUME KeepaliveInv, [KeepaliveNext]_keepaliveVars PROVE KeepaliveInv'
  OBVIOUS
<1> USE KeepaliveAssumption DEF watchdogVars, netVars, attVars, timerVars
<1>1. CASE ProcCrash
  BY <1>1 DEF ProcCrash, KeepaliveInv, KeepaliveTypeOK, AgeInv
<1>2. CASE AttemptLost
  BY <1>2 DEF AttemptLost, KeepaliveInv, KeepaliveTypeOK, AgeInv
<1>3. CASE StrayLost
  BY <1>3, SMTT(30) DEF StrayLost, KeepaliveInv, KeepaliveTypeOK, AgeInv
<1>4. CASE UNCHANGED keepaliveVars
  BY <1>4 DEF keepaliveVars, KeepaliveInv, KeepaliveTypeOK, AgeInv
<1> QED
  BY <1>1, <1>2, <1>3, <1>4, SupervisorInv, DriverInv, TickInv DEF KeepaliveNext

\* KeepaliveInv holds always.
LEMMA KeepaliveInvHolds == KeepaliveSpec => []KeepaliveInv
  BY KeepaliveInvInit, KeepaliveInvStep, PTL DEF KeepaliveSpec

\* Type correctness: the call of the driver, for one, never lasts longer than
\* the overall timeout and one attempt.
THEOREM KeepaliveTypeCorrect == KeepaliveSpec => []KeepaliveTypeOK
<1>1. KeepaliveInv => KeepaliveTypeOK
  BY DEF KeepaliveInv
<1> QED
  BY <1>1, KeepaliveInvHolds, PTL

-----------------------------------------------------------------------------
(* The watchdog.                                                           *)

\* LeaseBound is preserved.
LEMMA LeaseBoundStep == KeepaliveInv /\ LeaseBound /\ [KeepaliveNext]_keepaliveVars => LeaseBound'
<1> SUFFICES ASSUME KeepaliveInv, LeaseBound, [KeepaliveNext]_keepaliveVars PROVE LeaseBound'
  OBVIOUS
<1> USE KeepaliveAssumption DEF KeepaliveInv, LeaseBound, watchdogVars, netVars, attVars, timerVars
<1>1. CASE AcceptCurrent
  BY <1>1, SMTT(30) DEF AcceptCurrent, expire, KeepaliveTypeOK
<1>2. CASE AcceptLate
  <2>1. PICK t \in lateTimes : lease' = t /\ expire(t)
    BY <1>2 DEF AcceptLate
  <2>2. t \in Int
    BY <2>1, SMTT(30) DEF KeepaliveTypeOK
  <2> QED
    BY <1>2, <2>1, <2>2, SMTT(30) DEF AcceptLate, expire, KeepaliveTypeOK
<1>3. CASE WatchdogTick
  BY <1>3, SMTT(30) DEF WatchdogTick, expire, KeepaliveTypeOK
<1>4. CASE Tick
  BY <1>4, SMTT(30) DEF Tick, KeepaliveTypeOK
<1>5. CASE UNCHANGED watchdogVars
  BY <1>5
<1>6. CASE ProcCrash
  BY <1>6 DEF ProcCrash
<1>7. ASSUME Driver \/ KeepaliveArrives \/ StrayArrives \/ LateGivesUp \/ AttemptLost
             \/ StrayLost \/ UNCHANGED keepaliveVars
      PROVE  UNCHANGED watchdogVars
  BY <1>7 DEF Driver, KeepaliveArrives, StrayArrives, LateGivesUp, AttemptLost, StrayLost,
     BootDone, DriverGone, AttemptFails, AttemptFatal, NextAttempt, ReplyReceived,
     NextKeepalive, BeginCall, DriverStops, retryWait, keepaliveVars
<1> QED
  BY <1>1, <1>2, <1>3, <1>4, <1>5, <1>6, <1>7 DEF KeepaliveNext, Supervisor

\* For every choice of the timeouts, and whatever the driver and the network
\* do, a process outlives its keepalive by less than the watchdog's period.
THEOREM WatchdogPrompt == KeepaliveSpec => []LeaseBound
<1>1. KeepaliveInit => LeaseBound
  BY KeepaliveAssumption, SMTT(30) DEF KeepaliveInit, LeaseBound
<1> QED
  BY <1>1, LeaseBoundStep, KeepaliveInvHolds, PTL DEF KeepaliveSpec

-----------------------------------------------------------------------------
(* Who gives up first.                                                     *)

\* The keepalive of a reply in flight was given no longer ago than the attempt;
\* and where the pause fits, it lasts until the driver has renewed it or given up.
SlackInv ==
    /\ proc = "alive" /\ att = "replied" => lease + rpcAge >= Lease - Stall
    /\ proc = "expired" /\ accepted /\ att = "replied" =>
          2 * RpcTimeout + Timeout + Stall > Lease
    /\ proc = "alive" /\ accepted /\ FitsLease(diag) =>
          /\ driverPc \in {"rpc", "backoff"} => lease + callAge >= Timeout + RpcTimeout
          /\ driverPc = "wait" => /\ lease >= waitLeft + Timeout + RpcTimeout
                                 /\ lease >= diagLeft + Timeout + RpcTimeout
    /\ DriverGivesUpFirst

\* While the driver is at work, its pause fits and SlackInv holds, the keepalive
\* has not expired.
LEMMA SlackPositive ==
    ASSUME KeepaliveInv, SlackInv, proc = "alive", accepted, FitsLease(diag), driverPc # "stopped"
    PROVE  lease >= 0
  BY KeepaliveAssumption, DiagNat, SMTT(30) DEF KeepaliveInv, KeepaliveTypeOK, AgeInv, SlackInv

\* What accepting the time t does.
LEMMA SlackAccept ==
    ASSUME KeepaliveInv, SlackInv, NEW t \in (Lease - Stall) .. Lease,
           proc = "alive", lease' = t, expire(t), accepted' = TRUE, driverPc # "boot",
           att' \in {att, "replied"}, driverPc = "rpc" \/ att' = att,
           UNCHANGED <<driverPc, timerVars>>
    PROVE  SlackInv'
<1> USE KeepaliveAssumption
<1>1. t \in Nat /\ t >= Lease - Stall
  BY SMTT(30)
<1>2. proc' = "alive"
  BY <1>1, SMTT(30) DEF expire
<1>3. t + rpcAge >= Lease - Stall
  BY <1>1, SMTT(30) DEF KeepaliveInv, KeepaliveTypeOK
<1>4. ASSUME FitsLease(diag)
      PROVE  /\ t + callAge >= Timeout + RpcTimeout
             /\ t >= waitLeft + Timeout + RpcTimeout /\ t >= diagLeft + Timeout + RpcTimeout
  <2>1. PauseOf(diag) \in Nat /\ diagLeft <= PauseOf(diag) /\ waitLeft <= PauseOf(diag)
    BY Maxima, DiagNat, SMTT(30) DEF KeepaliveInv, KeepaliveTypeOK
  <2>2. t >= 2 * RpcTimeout + PauseOf(diag) + Timeout
    BY <1>1, <1>4, <2>1, SMTT(30) DEF FitsLease
  <2> QED
    BY <1>1, <2>1, <2>2, DiagNat, SMTT(30) DEF KeepaliveInv, KeepaliveTypeOK
<1> QED
  BY <1>2, <1>3, <1>4 DEF SlackInv, DriverGivesUpFirst, timerVars

\* SlackInv is preserved.
LEMMA SlackStep == KeepaliveInv /\ SlackInv /\ [KeepaliveNext]_keepaliveVars => SlackInv'
<1> SUFFICES ASSUME KeepaliveInv, SlackInv, [KeepaliveNext]_keepaliveVars PROVE SlackInv'
  OBVIOUS
<1> USE KeepaliveAssumption, Maxima
<1>1. CASE AcceptCurrent
  <2>1. curT \in (Lease - Stall) .. Lease /\ driverPc = "rpc"
    BY <1>1, SMTT(30) DEF AcceptCurrent, KeepaliveInv, KeepaliveTypeOK, AgeInv
  <2> QED
    BY <1>1, <2>1, SlackAccept DEF AcceptCurrent
<1>2. CASE AcceptLate
  <2>1. PICK t \in lateTimes : lease' = t /\ expire(t)
    BY <1>2 DEF AcceptLate
  <2>2. t \in (Lease - Stall) .. Lease /\ driverPc # "boot"
    BY <2>1 DEF KeepaliveInv, KeepaliveTypeOK, AgeInv
  <2> QED
    BY <1>2, <2>1, <2>2, SlackAccept DEF AcceptLate, attVars
<1>3. CASE WatchdogTick
  <2> USE <1>3 DEF WatchdogTick
  <2>1. CASE ~(lease < 0)
    <3>1. proc' = "alive" /\ proc = "alive"
      BY <2>1 DEF expire
    <3> QED
      BY <3>1 DEF SlackInv, DriverGivesUpFirst, attVars, timerVars
  <2>2. CASE lease < 0
    <3>1. proc' = "expired" /\ proc = "alive"
      BY <2>2 DEF expire
    <3>2. accepted /\ FitsLease(diag) => driverPc = "stopped"
      <4>1. lease \in Int /\ ~(lease >= 0)
        BY <2>2, SMTT(30) DEF KeepaliveInv, KeepaliveTypeOK
      <4> QED
        BY <3>1, <4>1, SlackPositive
    <3>3. att = "replied" => 2 * RpcTimeout + Timeout + Stall > Lease
      <4> SUFFICES ASSUME att = "replied" PROVE 2 * RpcTimeout + Timeout + Stall > Lease
        OBVIOUS
      <4>1. lease + rpcAge >= Lease - Stall
        BY <3>1 DEF SlackInv
      <4> QED
        BY <2>2, <4>1, SMTT(30) DEF KeepaliveInv, KeepaliveTypeOK
    <3> QED
      BY <3>1, <3>2, <3>3 DEF SlackInv, DriverGivesUpFirst, attVars, timerVars
  <2> QED
    BY <2>1, <2>2
<1>4. CASE Tick
  <2>1. UNCHANGED <<proc, accepted, att, driverPc, diag>>
    BY <1>4 DEF Tick
  <2>2. ASSUME proc = "alive", att = "replied" PROVE lease' + rpcAge' >= Lease - Stall
    BY <1>4, <2>2, SMTT(30) DEF Tick, SlackInv, KeepaliveInv, KeepaliveTypeOK, AgeInv
  <2>3. ASSUME proc = "alive", accepted, FitsLease(diag), driverPc \in {"rpc", "backoff"}
        PROVE  lease' + callAge' >= Timeout + RpcTimeout
    <3>1. lease + callAge >= Timeout + RpcTimeout
      BY <2>3 DEF SlackInv
    <3> QED
      BY <1>4, <2>3, <3>1, SMTT(30) DEF Tick, KeepaliveInv, KeepaliveTypeOK
  <2>4. ASSUME proc = "alive", accepted, FitsLease(diag), driverPc = "wait"
        PROVE  /\ lease' >= waitLeft' + Timeout + RpcTimeout
               /\ lease' >= diagLeft' + Timeout + RpcTimeout
    <3>1. waitLeft > 0 \/ diagLeft > 0
      BY <1>4, <2>4 DEF Tick, NothingDue
    <3>2. /\ lease' = lease - 1 /\ waitLeft' = Countdown(waitLeft)
          /\ diagLeft' = Countdown(diagLeft)
      BY <1>4, <2>4 DEF Tick
    <3>3. /\ lease >= waitLeft + Timeout + RpcTimeout
          /\ lease >= diagLeft + Timeout + RpcTimeout
      BY <2>4 DEF SlackInv
    <3> QED
      BY <3>1, <3>2, <3>3, DiagNat, SMTT(30) DEF Countdown, KeepaliveInv, KeepaliveTypeOK
  <2> QED
    BY <2>1, <2>2, <2>3, <2>4 DEF SlackInv, DriverGivesUpFirst
<1>5. CASE ReplyReceived
  <2>1. waitLeft' \in 0 .. Period \div 2
    BY <1>5, NextWaitBound, SMTT(30) DEF ReplyReceived, KeepaliveInv, KeepaliveTypeOK
  <2>2. PICK d \in {0} \cup Diags : diag' = d /\ diagLeft' = d
    BY <1>5 DEF ReplyReceived
  <2>3. /\ driverPc = "rpc" /\ att = "replied" /\ driverPc' = "wait" /\ att' = "none"
        /\ UNCHANGED <<proc, lease, accepted, deadFor>>
    BY <1>5 DEF ReplyReceived, watchdogVars
  <2>4. PICK w \in Nat : waitLeft' = w /\ w <= Period \div 2
    BY <2>1, SMTT(30)
  <2>5. d \in Nat
    BY SMTT(30)
  <2>6. PauseOf(d) \in Nat /\ w <= PauseOf(d) /\ d <= PauseOf(d)
    BY <2>4, <2>5, SMTT(30)
  <2>7. ASSUME FitsLease(d), proc = "alive"
        PROVE  lease >= w + Timeout + RpcTimeout /\ lease >= d + Timeout + RpcTimeout
    <3>1. lease + rpcAge >= Lease - Stall
      BY <2>3, <2>7 DEF SlackInv
    <3> QED
      BY <2>5, <2>6, <2>7, <3>1, SMTT(30) DEF FitsLease, KeepaliveInv, KeepaliveTypeOK
  <2>8. proc = "expired" /\ accepted => ~FitsLease(d)
    <3> SUFFICES ASSUME proc = "expired", accepted PROVE ~FitsLease(d)
      OBVIOUS
    <3>1. 2 * RpcTimeout + Timeout + Stall > Lease
      BY <2>3 DEF SlackInv
    <3> QED
      BY <2>6, <3>1, SMTT(30) DEF FitsLease
  <2> QED
    BY <2>2, <2>3, <2>4, <2>7, <2>8 DEF SlackInv, DriverGivesUpFirst
<1>6. CASE BootDone \/ NextKeepalive
  BY <1>6, SMTT(30) DEF BootDone, NextKeepalive, BeginCall, SlackInv, DriverGivesUpFirst, KeepaliveInv, KeepaliveTypeOK,
     AgeInv, watchdogVars
<1>7. CASE NextAttempt
  BY <1>7 DEF NextAttempt, SlackInv, DriverGivesUpFirst, watchdogVars
<1>8. CASE Abandon /\ DriverStops
  BY <1>8 DEF Abandon, DriverStops, SlackInv, DriverGivesUpFirst, watchdogVars
<1>9. CASE AttemptFails
  <2>1. PICK b \in 0 .. MaxBackoff : retryWait(b)
    BY <1>9 DEF AttemptFails
  <2>2. CASE callAge + b > Timeout
    <3>1. Abandon /\ DriverStops
      BY <1>9, <2>1, <2>2 DEF AttemptFails, retryWait
    <3> QED
      BY <1>8, <3>1
  <2>3. CASE ~(callAge + b > Timeout)
    <3>1. driverPc' = "backoff" /\ UNCHANGED <<watchdogVars, callAge, diag, deadFor>>
      BY <2>1, <2>3 DEF retryWait
    <3>2. driverPc = "rpc" /\ att' = "none"
      BY <1>9 DEF AttemptFails, Abandon
    <3> QED
      BY <3>1, <3>2 DEF SlackInv, DriverGivesUpFirst, watchdogVars
  <2> QED
    BY <2>2, <2>3
<1>10. CASE KeepaliveArrives \/ StrayArrives \/ LateGivesUp \/ AttemptLost \/ StrayLost
            \/ UNCHANGED keepaliveVars \/ ProcCrash
  BY <1>10, SMTT(30) DEF KeepaliveArrives, StrayArrives, LateGivesUp, AttemptLost, StrayLost, keepaliveVars,
     ProcCrash, SlackInv, DriverGivesUpFirst, watchdogVars, attVars, timerVars
<1> QED
  BY <1>1, <1>2, <1>3, <1>4, <1>5, <1>6, <1>7, <1>8, <1>9, <1>10
  DEF KeepaliveNext, Supervisor, Driver, DriverGone, AttemptFatal

\* For every choice of the timeouts, the watchdog kills no process that has
\* accepted a keepalive and whose driver still takes it to be running, as long as
\* a reply in flight, the pause after it and a retryCall fit the keepalive.  In
\* the local system (5m; 10s, 1m, 2m) they do after every healthy reply, and
\* after diagnostics that take up to 2m40s less Stall; with the timeouts of the EC2
\* system, whose retryCall alone takes 10m, they never do.
THEOREM GivesUpFirst == KeepaliveSpec => []DriverGivesUpFirst
<1>1. KeepaliveInit => SlackInv
  <2> SUFFICES ASSUME KeepaliveInit PROVE SlackInv
    OBVIOUS
  <2>1. ~accepted /\ proc = "alive" /\ att = "none"
    BY DEF KeepaliveInit
  <2> QED
    BY <2>1 DEF SlackInv, DriverGivesUpFirst
<1>2. KeepaliveInv /\ SlackInv /\ [KeepaliveNext]_keepaliveVars => SlackInv'
  BY SlackStep
<1>3. SlackInv => DriverGivesUpFirst
  BY DEF SlackInv
<1> QED
  BY <1>1, <1>2, <1>3, KeepaliveInvHolds, PTL DEF KeepaliveSpec

-----------------------------------------------------------------------------
(* How soon the driver finds out.                                          *)

\* How long the process can have been gone, by where the driver is.
DeadInv ==
    proc # "alive" =>
        /\ att = "replied" => deadFor <= rpcAge
        /\ driverPc \in {"rpc", "backoff"} => deadFor <= RpcTimeout + PauseOf(diag) + callAge
        /\ driverPc = "wait" => /\ deadFor + waitLeft <= RpcTimeout + PauseOf(diag)
                          /\ deadFor + diagLeft <= RpcTimeout + PauseOf(diag)

\* DeadInv is preserved.
LEMMA DeadStep == KeepaliveInv /\ DeadInv /\ [KeepaliveNext]_keepaliveVars => DeadInv'
<1> SUFFICES ASSUME KeepaliveInv, DeadInv, [KeepaliveNext]_keepaliveVars PROVE DeadInv'
  OBVIOUS
<1> USE KeepaliveAssumption, Maxima
<1>1. ASSUME proc = "alive", UNCHANGED <<driverPc, timerVars, deadFor>> PROVE DeadInv'
  BY <1>1, SMTT(30) DEF DeadInv, KeepaliveInv, KeepaliveTypeOK, AgeInv, timerVars
<1>2. CASE AcceptCurrent \/ AcceptLate \/ WatchdogTick \/ ProcCrash \/ KeepaliveArrives
           \/ StrayArrives
  BY <1>1, <1>2 DEF AcceptCurrent, AcceptLate, WatchdogTick, ProcCrash, KeepaliveArrives,
     StrayArrives
<1>3. CASE LateGivesUp \/ AttemptLost \/ StrayLost \/ UNCHANGED keepaliveVars
  BY <1>3
     DEF LateGivesUp, AttemptLost, StrayLost, keepaliveVars, DeadInv, watchdogVars, attVars, timerVars
<1>4. CASE Tick
  <2>1. UNCHANGED <<proc, att, driverPc, diag>>
    BY <1>4 DEF Tick
  <2>2. ASSUME proc # "alive"
        PROVE  /\ att = "replied" => deadFor' <= rpcAge'
               /\ driverPc \in {"rpc", "backoff"} => deadFor' <= RpcTimeout + PauseOf(diag) + callAge'
    BY <1>4, <2>2, SMTT(30) DEF Tick, DeadInv, KeepaliveInv, KeepaliveTypeOK, AgeInv
  <2>3. ASSUME proc # "alive", driverPc = "wait"
        PROVE  /\ deadFor' + waitLeft' <= RpcTimeout + PauseOf(diag)
               /\ deadFor' + diagLeft' <= RpcTimeout + PauseOf(diag)
    <3>1. waitLeft > 0 \/ diagLeft > 0
      BY <1>4, <2>3 DEF Tick, NothingDue
    <3>2. /\ deadFor' = deadFor + 1 /\ waitLeft' = Countdown(waitLeft)
          /\ diagLeft' = Countdown(diagLeft)
      BY <1>4, <2>3 DEF Tick
    <3> QED
      BY <2>3, <3>1, <3>2, SMTT(30) DEF Countdown, DeadInv, KeepaliveInv, KeepaliveTypeOK
  <2> QED
    BY <2>1, <2>2, <2>3 DEF DeadInv
<1>5. CASE ReplyReceived
  <2>1. waitLeft' \in 0 .. Period \div 2
    BY <1>5, NextWaitBound, SMTT(30) DEF ReplyReceived, KeepaliveInv, KeepaliveTypeOK
  <2>2. PICK d \in {0} \cup Diags : diag' = d /\ diagLeft' = d
    BY <1>5 DEF ReplyReceived
  <2>3. /\ driverPc = "rpc" /\ att = "replied" /\ driverPc' = "wait" /\ att' = "none"
        /\ UNCHANGED <<proc, lease, accepted, deadFor>>
    BY <1>5 DEF ReplyReceived, watchdogVars
  <2>4. PICK w \in Nat : waitLeft' = w /\ w <= Period \div 2
    BY <2>1, SMTT(30)
  <2>5. d \in Nat
    BY SMTT(30)
  <2>6. PauseOf(d) \in Nat /\ w <= PauseOf(d) /\ d <= PauseOf(d)
    BY <2>4, <2>5, SMTT(30)
  <2>7. proc # "alive" => deadFor <= RpcTimeout
    BY <2>3, SMTT(30) DEF DeadInv, KeepaliveInv, KeepaliveTypeOK
  <2>8. proc # "alive" => deadFor + w <= RpcTimeout + PauseOf(d) /\ deadFor + d <= RpcTimeout + PauseOf(d)
    BY <2>5, <2>6, <2>7, SMTT(30) DEF KeepaliveInv, KeepaliveTypeOK
  <2> QED
    BY <2>2, <2>3, <2>4, <2>8 DEF DeadInv
<1>6. CASE BootDone \/ NextKeepalive
  BY <1>6, SMTT(30) DEF BootDone, NextKeepalive, BeginCall, DeadInv, KeepaliveInv, KeepaliveTypeOK, AgeInv, watchdogVars
<1>7. CASE NextAttempt
  BY <1>7 DEF NextAttempt, DeadInv, watchdogVars
<1>8. CASE Abandon /\ DriverStops
  BY <1>8 DEF Abandon, DriverStops, DeadInv, watchdogVars
<1>9. CASE AttemptFails
  <2>1. PICK b \in 0 .. MaxBackoff : retryWait(b)
    BY <1>9 DEF AttemptFails
  <2>2. CASE callAge + b > Timeout
    <3>1. Abandon /\ DriverStops
      BY <1>9, <2>1, <2>2 DEF AttemptFails, retryWait
    <3> QED
      BY <1>8, <3>1
  <2>3. CASE ~(callAge + b > Timeout)
    <3>1. driverPc' = "backoff" /\ UNCHANGED <<watchdogVars, callAge, diag, deadFor>>
      BY <2>1, <2>3 DEF retryWait
    <3>2. driverPc = "rpc" /\ att' = "none"
      BY <1>9 DEF AttemptFails, Abandon
    <3> QED
      BY <3>1, <3>2 DEF DeadInv, watchdogVars
  <2> QED
    BY <2>2, <2>3
<1> QED
  BY <1>2, <1>3, <1>4, <1>5, <1>6, <1>7, <1>8, <1>9
  DEF KeepaliveNext, Supervisor, Driver, DriverGone, AttemptFatal

\* For every choice of the timeouts, a driver that still calls has not been
\* without its process for longer than the bound of DetectsDeath.
THEOREM DeathDetected == KeepaliveSpec => []DetectsDeath
<1>1. KeepaliveInit => DeadInv
  BY DEF KeepaliveInit, DeadInv
<1>2. KeepaliveInv /\ DeadInv => DetectsDeath
  BY KeepaliveAssumption, Maxima, SMTT(30) DEF KeepaliveInv, KeepaliveTypeOK, DeadInv, DetectsDeath
<1> QED
  BY <1>1, <1>2, DeadStep, KeepaliveInvHolds, PTL DEF KeepaliveSpec

-----------------------------------------------------------------------------
(* The bootstrap.                                                          *)

\* exec's calls, written out.
LEMMA ExecCallsAre ==
    /\ ExecCalls = {"Info", "Setenv", "Setargs", "Keepalive", "Setbinary", "Exec"}
    /\ After["Info"] = "Setenv" /\ After["Setenv"] = "Setargs"
    /\ After["Setargs"] = "Keepalive" /\ After["Keepalive"] = "Setbinary"
    /\ After["Setbinary"] = "Exec" /\ After["Exec"] = "ping"
  BY DEF ExecCalls, After

\* A request is of the call that loop makes.
ReqInv ==
    /\ pc \in ExecCalls => req.method = pc
    /\ pc = "register" => req.method = "Register" /\ req.service \in todo
    /\ pc \notin ExecCalls \cup {"register"} => rpc = "none"
    /\ rpc = "handling" => pc = "register"

\* The requests of the calls that loop makes.
LEMMA RequestType ==
    /\ \A m \in ExecCalls \cup {"none"} : Request(m, "none", 0) \in Requests
    /\ \A s \in Services : Request("Register", s, 1) \in Requests
<1>1. 1 \in 1 .. MaxTries
  BY BootstrapAssumption, SMTT(30)
<1> QED
  BY <1>1 DEF Requests, Request

\* The fields of a request.
LEMMA RequestFields ==
    \A m, s, k :
        Request(m, s, k).method = m /\ Request(m, s, k).service = s /\ Request(m, s, k).try = k
  BY DEF Request

\* A request to register names a service and an attempt.
LEMMA RegisterRequest ==
    ASSUME NEW r \in Requests, r.method = "Register"
    PROVE  /\ r.service \in Services /\ r.try \in 1 .. MaxTries
           /\ r.try < MaxTries => /\ [r EXCEPT !.try = @ + 1] \in Requests
                                  /\ [r EXCEPT !.try = @ + 1].method = "Register"
                                  /\ [r EXCEPT !.try = @ + 1].service = r.service
<1>1. "Register" \notin ExecCalls \cup {"none"}
  BY ExecCallsAre
<1>2. r \in [method : {"Register"}, service : Services, try : 1 .. MaxTries]
  BY <1>1 DEF Requests
<1>3. r.try < MaxTries => r.try + 1 \in 1 .. MaxTries
  BY <1>2, BootstrapAssumption, SMTT(30)
<1> QED
  BY <1>2, <1>3 DEF Requests

\* What a result of the driver's call can lead to.
LEMMA ResultSteps ==
    ASSUME TypeOK, ReqInv, NEW result, Result(result)
    PROVE  \/ /\ pc \in ExecCalls /\ todo' = todo
              /\ (result = "ok" \/ pc = "Keepalive") /\ pc # "Exec"
              /\ pc' = After[pc] /\ req' = Request(pc', "none", 0) /\ rpc' = "sent"
           \/ /\ pc \in ExecCalls /\ todo' = todo /\ result \in {"ok", "net"}
              /\ result = "ok" => pc = "Exec"
              /\ pc' = "ping" /\ req' = Request("none", "none", 0) /\ rpc' = "none"
           \/ /\ pc \in ExecCalls \cup {"register"} /\ todo' = todo
              /\ pc' = "failed" /\ req' = Request("none", "none", 0) /\ rpc' = "none"
           \/ /\ pc = "register" /\ result = "ok" /\ todo' = todo \ {req.service}
              /\ todo' = {} /\ pc' = "running" /\ req' = Request("none", "none", 0) /\ rpc' = "none"
           \/ /\ pc = "register" /\ result = "ok" /\ todo' = todo \ {req.service}
              /\ pc' = "register" /\ rpc' = "sent"
              /\ \E s \in todo' : req' = Request("Register", s, 1)
           \/ /\ pc = "register" /\ result # "ok" /\ todo' = todo /\ req.try < MaxTries
              /\ pc' = "register" /\ rpc' = "sent" /\ req' = [req EXCEPT !.try = @ + 1]
<1>1. CASE pc \in ExecCalls /\ ExecResult(result)
  <2>1. CASE (result = "ok" \/ pc \in loggedOnly) /\ ExecContinues
    <3>1. CASE pc = "Exec"
      BY <1>1, <2>1, <3>1, ExecCallsAre DEF ExecResult, ExecContinues, Goto, loggedOnly
    <3>2. CASE pc # "Exec"
      <4>1. After[pc] # "ping"
        BY <1>1, <3>2, ExecCallsAre
      <4> QED
        BY <1>1, <2>1, <3>2, <4>1 DEF ExecResult, ExecContinues, Call, loggedOnly
    <3> QED
      BY <3>1, <3>2
  <2>2. CASE result = "net" /\ Goto("ping")
    BY <1>1, <2>2 DEF ExecResult, Goto
  <2>3. CASE Goto("failed")
    BY <1>1, <2>3 DEF ExecResult, Goto
  <2> QED
    BY <1>1, <2>1, <2>2, <2>3 DEF ExecResult
<1>2. CASE pc = "register" /\ RegisterResult(result)
  BY <1>2 DEF RegisterResult, NextService, Goto, Call
<1> QED
  BY <1>1, <1>2 DEF Result

TypeInv == TypeOK /\ ReqInv

\* A result of the driver's call preserves the types of what it changes.
LEMMA ResultType ==
    ASSUME TypeInv, NEW result, Result(result)
    PROVE  /\ pc' \in ExecCalls \cup {"bootping", "ping", "register", "running", "failed"}
           /\ todo' \subseteq Services /\ (pc' = "running" => todo' = {})
           /\ req' \in Requests
           /\ rpc' \in {"none", "sent", "handling", "ok", "error", "fatal", "broken"}
           /\ ReqInv'
<1> USE ExecCallsAre, RequestType, RequestFields, RegisterRequest DEF TypeInv
<1>1. CASE pc \in ExecCalls
  BY <1>1, ResultSteps, SMTT(30) DEF TypeOK, ReqInv
<1>2. CASE pc = "register"
  <2>1. req \in Requests /\ req.method = "Register" /\ req.service \in todo
    BY <1>2 DEF TypeOK, ReqInv
  <2>2. todo \subseteq Services /\ "register" \notin ExecCalls
    BY DEF TypeOK
  <2>3. CASE todo' = todo
    <3>1. \/ pc' = "failed" /\ req' = Request("none", "none", 0) /\ rpc' = "none"
          \/ /\ req.try < MaxTries /\ pc' = "register" /\ rpc' = "sent"
             /\ req' = [req EXCEPT !.try = @ + 1]
      BY <1>2, <2>1, <2>2, <2>3, ResultSteps
    <3>2. CASE pc' = "failed" /\ req' = Request("none", "none", 0) /\ rpc' = "none"
      BY <2>2, <2>3, <3>2 DEF ReqInv
    <3>3. CASE /\ req.try < MaxTries /\ pc' = "register" /\ rpc' = "sent"
               /\ req' = [req EXCEPT !.try = @ + 1]
      <4>1. req' \in Requests /\ req'.method = "Register" /\ req'.service \in todo'
        BY <2>1, <2>3, <3>3, SMTT(30)
      <4> QED
        BY <2>2, <2>3, <3>3, <4>1 DEF ReqInv
    <3> QED
      BY <3>1, <3>2, <3>3
  <2>4. CASE todo' # todo
    <3>1. /\ todo' \subseteq Services
          /\ \/ todo' = {} /\ pc' = "running" /\ req' = Request("none", "none", 0) /\ rpc' = "none"
             \/ /\ pc' = "register" /\ rpc' = "sent"
                /\ \E s \in todo' : req' = Request("Register", s, 1)
      BY <1>2, <2>1, <2>2, <2>4, ResultSteps
    <3> QED
      BY <2>2, <3>1, SMTT(30) DEF ReqInv
  <2> QED
    BY <2>3, <2>4
<1> QED
  BY <1>1, <1>2 DEF Result

\* What a method that returns does to the process.
LEMMA MethodType ==
    ASSUME TypeOK, NEW r \in Requests, Info(r) \/ Configure(r) \/ Register(r)
    PROVE  /\ image' = image /\ runsWith' = runsWith /\ inited' = inited
           /\ conf' \subseteq {"Setenv", "Setargs", "Setbinary"}
           /\ served' \in [Services -> 0 .. MaxTries] /\ initing' \subseteq Instances
<1>1. CASE Info(r) \/ Configure(r)
  BY <1>1 DEF Info, Configure, procVars, TypeOK
<1>2. CASE Register(r)
  <2>1. r.service \in Services /\ r.try \in 1 .. MaxTries
    BY <1>2, RegisterRequest DEF Register
  <2>2. r.try \in 0 .. MaxTries
    BY <2>1, BootstrapAssumption, SMTT(30)
  <2>3. served' \in [Services -> 0 .. MaxTries]
    BY <1>2, <2>1, <2>2 DEF Register, serverRegister, TypeOK
  <2>4. <<r.service, r.try>> \in Instances
    BY <2>1 DEF Instances
  <2> QED
    BY <1>2, <2>3, <2>4 DEF Register, TypeOK
<1> QED
  BY <1>1, <1>2

\* What the end of the process does to it.
LEMMA ReplacedType ==
    ASSUME NEW i, NEW c, Replaced(i, c)
    PROVE  /\ conf' \subseteq {"Setenv", "Setargs", "Setbinary"}
           /\ served' \in [Services -> 0 .. MaxTries]
           /\ initing' \subseteq Instances /\ inited' \subseteq Instances
           /\ late' \subseteq Requests
<1>1. 0 \in 0 .. MaxTries
  BY BootstrapAssumption, SMTT(30)
<1> QED
  BY <1>1 DEF Replaced

\* TypeInv is inductive.
LEMMA TypeStep == TypeInv /\ [Next]_vars => TypeInv'
<1> SUFFICES ASSUME TypeInv, [Next]_vars PROVE TypeInv'
  OBVIOUS
<1> USE DEF TypeInv
<1>1. CASE BootPing \/ Ping
  <2>1. /\ UNCHANGED <<procVars, todo, late, faults>>
        /\ \/ pc' = "Info" /\ req' = Request("Info", "none", 0) /\ rpc' = "sent"
           \/ pc' = "failed" /\ req' = Request("none", "none", 0) /\ rpc' = "none"
           \/ pc' = "register" /\ rpc' = "sent" /\ \E s \in todo : req' = Request("Register", s, 1)
    BY <1>1 DEF BootPing, Ping, Call, Goto
  <2>2. ReqInv'
    BY <2>1, ExecCallsAre, RequestFields, SMTT(30) DEF ReqInv
  <2>3. req' \in Requests
    BY <2>1, ExecCallsAre, RequestType DEF TypeOK
  <2> QED
    BY <2>1, <2>2, <2>3, ExecCallsAre DEF TypeOK, procVars
<1>2. CASE Reply \/ Refused \/ Fault
  <2>1. UNCHANGED procVars /\ \E result : Result(result)
    BY <1>2 DEF Reply, Refused, Fault
  <2>2. late' \subseteq Requests
    BY <1>2 DEF Reply, Refused, Fault, TypeOK
  <2>3. faults' \in 0 .. MaxFaults
    BY <1>2, BootstrapAssumption, SMTT(30) DEF Reply, Refused, Fault, TypeOK
  <2> QED
    BY <2>1, <2>2, <2>3, ResultType DEF TypeOK, procVars
<1>3. CASE Handle
  <2>1. req \in Requests
    BY DEF TypeOK
  <2>2. /\ UNCHANGED <<pc, todo, req, late, faults>> /\ rpc = "sent"
        /\ rpc' \in {"ok", "handling", "error", "fatal"}
    BY <1>3 DEF Handle
  <2>3. ReqInv'
    <3>1. rpc' = "handling" => req.method = "Register"
      BY <1>3 DEF Handle, Register
    <3>2. "Register" \notin ExecCalls
      BY ExecCallsAre
    <3> QED
      BY <2>2, <3>1, <3>2 DEF ReqInv
  <2>4. CASE Info(req) \/ Configure(req) \/ Register(req)
    BY <2>1, <2>2, <2>3, <2>4, MethodType DEF TypeOK
  <2>5. CASE UNCHANGED procVars
    BY <2>2, <2>3, <2>5 DEF TypeOK, procVars
  <2> QED
    BY <1>3, <2>4, <2>5 DEF Handle
<1>4. ASSUME NEW r \in late, HandleLate(r) PROVE TypeInv'
  <2>1. r \in Requests /\ (Configure(r) \/ Register(r))
    BY <1>4 DEF TypeOK, HandleLate
  <2> QED
    BY <1>4, <2>1, MethodType DEF HandleLate, TypeOK, ReqInv
<1>5. CASE Exec
  <2>1. /\ Replaced("new", conf \ {"Setbinary"}) /\ UNCHANGED <<pc, todo, req, faults>>
        /\ rpc = "none" => rpc' = "none"
        /\ rpc' \in {rpc, "broken"}
    BY <1>5 DEF Exec, ExecReplaces, Broken
  <2>2. image' = "new" /\ runsWith' \subseteq {"Setenv", "Setargs"}
    BY <2>1 DEF Replaced, TypeOK
  <2>3. ReqInv'
    BY <2>1 DEF ReqInv
  <2> QED
    BY <2>1, <2>2, <2>3, ReplacedType DEF TypeOK
<1>6. CASE Crash
  <2>1. /\ Replaced("down", {}) /\ UNCHANGED <<pc, todo, req>>
        /\ rpc = "none" => rpc' = "none"
        /\ rpc' \in {rpc, "broken"}
    BY <1>6 DEF Crash, Broken
  <2>2. image' = "down" /\ runsWith' \subseteq {"Setenv", "Setargs"}
    BY <2>1 DEF Replaced
  <2>3. ReqInv'
    BY <2>1 DEF ReqInv
  <2>4. faults' \in 0 .. MaxFaults
    BY <1>6, BootstrapAssumption, SMTT(30) DEF Crash, TypeOK
  <2> QED
    BY <2>1, <2>2, <2>3, <2>4, ReplacedType DEF TypeOK
<1>7. ASSUME NEW i \in initing, InitReturns(i) PROVE TypeInv'
  BY <1>7 DEF InitReturns, Answer, TypeOK, ReqInv
<1>8. CASE UNCHANGED vars
  BY <1>8 DEF vars, procVars, TypeOK, ReqInv
<1> QED
  BY <1>1, <1>2, <1>3, <1>4, <1>5, <1>6, <1>7, <1>8 DEF Next

\* TypeInv is invariant.
LEMMA TypeInvariant == Spec => []TypeInv
<1>1. Init => TypeInv
  BY BootstrapAssumption, ExecCallsAre, RequestType, RequestFields, SMTT(30) DEF Init, TypeInv, TypeOK, ReqInv
<1> QED
  BY <1>1, TypeStep, PTL DEF Spec

\* Type correctness; in particular loop reaches Running only when it has been
\* through all the services.
THEOREM TypeCorrect == Spec => []TypeOK
  BY TypeInvariant, PTL DEF TypeInv

-----------------------------------------------------------------------------
(* The image is executed with what it was given.                           *)

\* What the supervisor holds depends on how far exec has got; there is at most
\* one Exec, and no other process to configure after it.
ConfInv ==
    /\ image = "new" => runsWith = {"Setenv", "Setargs"} /\ conf = {}
    /\ "Setbinary" \in conf => {"Setenv", "Setargs"} \subseteq conf
    /\ image = "boot" =>
          /\ pc = "Setenv" /\ rpc = "ok" => "Setenv" \in conf
          /\ pc = "Setargs" /\ rpc = "ok" => "Setargs" \in conf
          /\ pc \in {"Setargs", "Keepalive", "Setbinary", "Exec"} => "Setenv" \in conf
          /\ pc \in {"Keepalive", "Setbinary", "Exec"} => "Setargs" \in conf
          /\ \A r \in late : r.method = "Setbinary" => {"Setenv", "Setargs"} \subseteq conf
          /\ \A r \in late : r.method = "Exec" =>
                pc \in {"ping", "register", "running", "failed"}
    /\ image = "new" =>
          /\ pc \in {"Exec", "ping", "register", "running", "failed"}
          /\ pc = "Exec" => rpc # "sent"
          /\ \A r \in late : r.method = "Register"

\* ConfInv is preserved by the steps of the driver.
LEMMA ConfDriver ==
    ASSUME TypeInv, ConfInv, BootPing \/ Ping \/ Reply \/ Refused \/ Fault
    PROVE  ConfInv'
<1>1. CASE BootPing \/ Ping
  BY <1>1, ExecCallsAre DEF BootPing, Ping, Call, Goto, procVars, ConfInv
<1>2. CASE Reply \/ Refused
  <2>1. PICK result : Result(result) /\ (result = "ok" => rpc = "ok")
    BY <1>2, SMTT(30) DEF Reply, Refused
  <2>2. UNCHANGED <<procVars, late>>
    BY <1>2 DEF Reply, Refused
  <2> QED
    BY <2>1, <2>2, ResultSteps, ExecCallsAre DEF TypeInv, procVars, ConfInv
<1>3. CASE Fault
  <2>1. PICK result \in {"net", "timeout"} : Result(result)
    BY <1>3 DEF Fault
  <2>2. UNCHANGED procVars /\ \A r \in late' : r \in late \/ (r = req /\ rpc = "sent")
    BY <1>3 DEF Fault
  <2>3. pc \in ExecCalls => req.method = pc
    BY DEF TypeInv, ReqInv
  <2>4. pc = "register" => req.method = "Register"
    BY DEF TypeInv, ReqInv
  <2> QED
    BY <2>1, <2>2, <2>3, <2>4, ResultSteps, ExecCallsAre, SMTT(30) DEF TypeInv, procVars, ConfInv
<1> QED
  BY <1>1, <1>2, <1>3

\* ConfInv is inductive.
LEMMA ConfStep == TypeInv /\ ConfInv /\ [Next]_vars => ConfInv'
<1> SUFFICES ASSUME TypeInv, ConfInv, [Next]_vars PROVE ConfInv'
  OBVIOUS
<1>1. CASE BootPing \/ Ping \/ Reply \/ Refused \/ Fault
  BY <1>1, ConfDriver
<1>2. CASE Handle
  <2>1. (pc \in ExecCalls => req.method = pc) /\ (pc = "register" => req.method = "Register")
        /\ pc \in ExecCalls \cup {"register"}
    BY <1>2 DEF TypeInv, ReqInv, Handle
  <2>2. UNCHANGED <<pc, late, image, runsWith>> /\ rpc = "sent"
        /\ conf' = IF rpc' = "ok" /\ req.method \in {"Setenv", "Setargs", "Setbinary"}
                   THEN conf \cup {req.method} ELSE conf
    BY <1>2 DEF Handle, Info, Configure, Register, procVars
  <2>3. rpc' = "ok" => pc \in ExecCalls
    BY <1>2, <2>1, ExecCallsAre DEF Handle, Info, Configure
  <2>4. CASE rpc' = "ok" /\ pc \in {"Setenv", "Setargs", "Setbinary"}
    <3>1. conf' = conf \cup {pc} /\ image # "new"
      BY <2>1, <2>2, <2>4, ExecCallsAre DEF ConfInv
    <3>2. CASE pc = "Setenv"
      BY <2>2, <2>4, <3>1, <3>2 DEF ConfInv
    <3>3. CASE pc = "Setargs"
      BY <2>2, <2>4, <3>1, <3>3 DEF ConfInv
    <3>4. CASE pc = "Setbinary"
      <4>1. {"Setenv", "Setargs"} \subseteq conf
        BY <1>2, <3>1, <3>4 DEF ConfInv, Handle, TypeInv, TypeOK
      <4> QED
        BY <2>2, <2>4, <3>1, <3>4, <4>1 DEF ConfInv
    <3> QED
      BY <2>4, <3>2, <3>3, <3>4
  <2>5. CASE ~(rpc' = "ok" /\ pc \in {"Setenv", "Setargs", "Setbinary"})
    <3>1. conf' = conf
      BY <2>1, <2>2, <2>3, <2>5
    <3> QED
      BY <2>2, <2>5, <3>1 DEF ConfInv
  <2> QED
    BY <2>4, <2>5
<1>3. ASSUME NEW r \in late, HandleLate(r) PROVE ConfInv'
  <2>1. UNCHANGED <<pc, rpc, image, runsWith>> /\ late' \subseteq late /\ image # "down"
        /\ conf' = IF r.method \in {"Setenv", "Setargs", "Setbinary"}
                   THEN conf \cup {r.method} ELSE conf
    BY <1>3 DEF HandleLate, Configure, Register
  <2> QED
    BY <2>1 DEF ConfInv, TypeInv, TypeOK
<1>4. CASE Exec
  <2>1. "Setbinary" \in conf /\ image = "boot"
    BY <1>4 DEF Exec, ExecReplaces, ConfInv, TypeInv, TypeOK
  <2>2. conf = {"Setenv", "Setargs", "Setbinary"}
    BY <2>1 DEF ConfInv, TypeInv, TypeOK
  <2>3. image' = "new" /\ conf' = {} /\ late' = {} /\ pc' = pc /\ runsWith' = {"Setenv", "Setargs"}
    BY <1>4, <2>2 DEF Exec, ExecReplaces, Replaced
  <2>4. CASE rpc = "sent" /\ req.method = "Exec" /\ rpc' = "broken"
    <3>1. pc = "Exec"
      BY <2>4, ExecCallsAre DEF TypeInv, ReqInv
    <3> QED
      BY <2>3, <2>4, <3>1 DEF ConfInv
  <2>5. CASE \E r \in late : r.method = "Exec"
    <3>1. pc \in {"ping", "register", "running", "failed"}
      BY <2>1, <2>5 DEF ConfInv
    <3> QED
      BY <2>3, <3>1 DEF ConfInv
  <2> QED
    BY <1>4, <2>4, <2>5 DEF Exec, ExecReplaces
<1>5. CASE Crash
  BY <1>5 DEF Crash, Replaced, ConfInv
<1>6. ASSUME NEW i \in initing, InitReturns(i) PROVE ConfInv'
  <2>1. UNCHANGED <<image, conf, runsWith, pc, late>> /\ (rpc' = rpc \/ rpc = "handling")
    BY <1>6 DEF InitReturns, Answer
  <2>2. rpc = "handling" => pc = "register"
    BY DEF TypeInv, ReqInv
  <2> QED
    BY <1>6, <2>1, <2>2 DEF ConfInv
<1>7. CASE UNCHANGED vars
  BY <1>7 DEF vars, procVars, ConfInv
<1> QED
  BY <1>1, <1>2, <1>3, <1>4, <1>5, <1>6, <1>7 DEF Next

\* However the calls fail and whenever they are handled, the uploaded binary is
\* executed with the driver's arguments and environment (Supervisor.Exec).
THEOREM ImageConfigured == Spec => []ExecConfigured
<1>1. Init => ConfInv
  BY DEF Init, ConfInv
<1>2. ConfInv => ExecConfigured
  BY DEF ConfInv, ExecConfigured
<1> QED
  BY <1>1, <1>2, ConfStep, TypeInvariant, PTL DEF Spec

-----------------------------------------------------------------------------
(* A machine whose first program does not know the services.               *)

\* No attempt to register s has been handled, or will be.
Fresh(s) == served[s] = 0 /\ \A r \in late : ~(r.method = "Register" /\ r.service = s)

\* The attempts of the service that loop is registering are numbered up to the
\* current one, and those of the services after it have not begun.
TryInv ==
    /\ pc # "failed" => \A s \in todo : Fresh(s) \/ (pc = "register" /\ s = req.service)
    /\ pc = "register" =>
          /\ served[req.service] <= req.try
          /\ \A r \in late : r.method = "Register" /\ r.service = req.service => r.try <= req.try

\* What the driver has given up and the end of the driver's call do to TryInv.
LEMMA TryResult ==
    ASSUME TypeInv, TryInv, NEW result, Result(result), UNCHANGED procVars,
           late' \in {late} \cup {late \cup {r} : r \in {q \in {req} : rpc = "sent"}}
    PROVE  TryInv'
<1>1. "register" \notin ExecCalls /\ "Register" \notin ExecCalls /\ "failed" \notin ExecCalls
  BY ExecCallsAre
<1>2. \A r \in late' : r \in late \/ r = req
  OBVIOUS
<1>3. served' = served
  BY DEF procVars
<1>4. CASE pc \in ExecCalls
  <2>1. todo' = todo /\ pc' # "register"
    BY <1>1, <1>4, ResultSteps, ExecCallsAre DEF TypeInv
  <2>2. req.method # "Register" /\ pc # "register" /\ pc # "failed"
    BY <1>1, <1>4 DEF TypeInv, ReqInv
  <2> QED
    BY <1>2, <1>3, <2>1, <2>2 DEF TryInv, Fresh
<1>5. CASE pc = "register"
  <2>1. /\ req.method = "Register" /\ req.service \in todo /\ req.try \in 1 .. MaxTries
        /\ todo \subseteq Services /\ served \in [Services -> 0 .. MaxTries]
    BY <1>5, RegisterRequest DEF TypeInv, ReqInv, TypeOK
  <2>2. /\ served[req.service] <= req.try
        /\ \A r \in late' : r.method = "Register" /\ r.service = req.service => r.try <= req.try
    BY <1>2, <1>5, <2>1, SMTT(30) DEF TryInv
  <2>3. \A s \in todo \ {req.service} : Fresh(s)'
    BY <1>2, <1>3, <1>5, <2>1 DEF TryInv, Fresh
  <2>4. CASE pc' = "failed"
    BY <2>4 DEF TryInv
  <2>5. CASE todo' = todo /\ pc' = "register" /\ req' = [req EXCEPT !.try = @ + 1]
    <3>1. req'.service = req.service /\ req'.try = req.try + 1
      BY <2>1, <2>5, RequestFields, SMTT(30) DEF Requests, TypeInv, TypeOK
    <3>2. \A r \in late' : r.method = "Register" => r.try \in 1 .. MaxTries
      BY <1>2, RegisterRequest DEF TypeInv, TypeOK
    <3>3. /\ served'[req'.service] <= req'.try
          /\ \A r \in late' : r.method = "Register" /\ r.service = req'.service => r.try <= req'.try
      BY <1>3, <2>1, <2>2, <3>1, <3>2, BootstrapAssumption, SMTT(30)
    <3> QED
      BY <2>3, <2>5, <3>1, <3>3 DEF TryInv
  <2>6. CASE todo' = todo \ {req.service} /\ pc' # "register"
    BY <2>3, <2>6 DEF TryInv
  <2>7. CASE /\ todo' = todo \ {req.service} /\ pc' = "register"
             /\ \E s \in todo' : req' = Request("Register", s, 1)
    <3>1. PICK s \in todo' : req' = Request("Register", s, 1)
      BY <2>7
    <3>2. req'.service = s /\ req'.try = 1 /\ Fresh(s)'
      <4>1. req'.service = s /\ req'.try = 1
        BY <3>1, SMTT(30) DEF Request
      <4>2. Fresh(s)'
        BY <2>3, <2>7
      <4> QED
        BY <4>1, <4>2
    <3>3. served'[s] <= 1
      BY <3>2, SMTT(30) DEF Fresh
    <3> QED
      BY <2>3, <2>7, <3>2, <3>3 DEF TryInv, Fresh
  <2> QED
    BY <1>1, <1>5, <2>4, <2>5, <2>6, <2>7, ResultSteps DEF TypeInv
<1> QED
  BY <1>4, <1>5 DEF Result

\* What handling an attempt to register does to TryInv.
LEMMA TryRegister ==
    ASSUME TypeInv, TryInv, NEW r \in Requests, Register(r),
           r \in late \/ (r = req /\ pc = "register"), late' \subseteq late, UNCHANGED <<pc, todo, req>>
    PROVE  TryInv'
<1>1. r.service \in Services /\ r.try \in 1 .. MaxTries /\ r.method = "Register"
  BY RegisterRequest DEF Register
<1>2. /\ served \in [Services -> 0 .. MaxTries]
      /\ pc = "register" => req.service \in todo /\ req.try \in 1 .. MaxTries
      /\ todo \subseteq Services
  BY RegisterRequest DEF TypeInv, ReqInv, TypeOK
<1>3. \A s \in Services : s # r.service => served'[s] = served[s]
  BY <1>1, <1>2 DEF Register, serverRegister
<1>4. served'[r.service] = served[r.service] \/ served'[r.service] = r.try
  BY <1>1, <1>2 DEF Register, serverRegister
<1>5. \A s \in todo : Fresh(s) /\ s # r.service => Fresh(s)'
  BY <1>2, <1>3 DEF Fresh
<1>6. \A s \in todo : Fresh(s) /\ ~(pc = "register" /\ s = req.service) => s # r.service
  BY <1>1 DEF Fresh
<1>7. pc = "register" => served'[req.service] <= req.try
  <2>1. CASE pc = "register" /\ req.service = r.service
    <3>1. r.try <= req.try /\ served[req.service] <= req.try
      BY <1>1, <1>2, <2>1, SMTT(30) DEF TryInv
    <3> QED
      BY <1>4, <2>1, <3>1
  <2>2. CASE pc = "register" /\ req.service # r.service
    BY <1>2, <1>3, <2>2 DEF TryInv
  <2> QED
    BY <2>1, <2>2
<1> QED
  BY <1>5, <1>6, <1>7 DEF TryInv

\* TryInv is inductive.
LEMMA TryStep == TypeInv /\ TryInv /\ [Next]_vars => TryInv'
<1> SUFFICES ASSUME TypeInv, TryInv, [Next]_vars PROVE TryInv'
  OBVIOUS
<1>1. CASE BootPing
  BY <1>1 DEF BootPing, Call, Goto, procVars, TryInv, Fresh
<1>2. CASE Ping
  <2>1. UNCHANGED <<procVars, todo, late>> /\ pc = "ping"
        /\ (pc' = "failed" \/ (pc' = "register" /\ \E s \in todo : req' = Request("Register", s, 1)))
    BY <1>2 DEF Ping, Call, Goto
  <2>2. \A s \in todo : Fresh(s) /\ Fresh(s)'
    BY <2>1 DEF TryInv, Fresh, procVars
  <2>3. CASE pc' = "failed"
    BY <2>3 DEF TryInv
  <2>4. CASE pc' = "register"
    <3>1. PICK s \in todo : req' = Request("Register", s, 1)
      BY <2>1, <2>4
    <3>2. req'.service = s /\ req'.try = 1 /\ Fresh(s)'
      <4>1. req'.service = s /\ req'.try = 1
        BY <3>1, SMTT(30) DEF Request
      <4>2. Fresh(s)'
        BY <2>2
      <4> QED
        BY <4>1, <4>2
    <3>3. served'[s] <= 1
      BY <3>2, SMTT(30) DEF Fresh
    <3> QED
      BY <2>1, <2>2, <2>4, <3>2, <3>3 DEF TryInv, Fresh
  <2> QED
    BY <2>1, <2>3, <2>4
<1>3. CASE Reply \/ Refused \/ Fault
  <2>1. /\ UNCHANGED procVars /\ \E result : Result(result)
        /\ late' \in {late} \cup {late \cup {r} : r \in {q \in {req} : rpc = "sent"}}
    BY <1>3 DEF Reply, Refused, Fault
  <2> QED
    BY <2>1, TryResult
<1>4. CASE Handle
  <2>1. req \in Requests /\ UNCHANGED <<pc, todo, req, late>> /\ rpc = "sent"
    BY <1>4 DEF TypeInv, TypeOK, Handle
  <2>2. CASE Register(req)
    <3>1. pc = "register"
      BY <2>1, <2>2, ExecCallsAre DEF Register, TypeInv, ReqInv
    <3> QED
      BY <2>1, <2>2, <3>1, TryRegister
  <2>3. CASE served' = served
    BY <2>1, <2>3 DEF TryInv, Fresh
  <2> QED
    BY <1>4, <2>2, <2>3 DEF Handle, Info, Configure, procVars
<1>5. ASSUME NEW r \in late, HandleLate(r) PROVE TryInv'
  <2>1. r \in Requests /\ UNCHANGED <<pc, todo, req>> /\ late' \subseteq late
    BY <1>5 DEF TypeInv, TypeOK, HandleLate
  <2>2. CASE Register(r)
    BY <2>1, <2>2, TryRegister
  <2>3. CASE Configure(r)
    BY <2>1, <2>3 DEF TryInv, Fresh, Configure
  <2> QED
    BY <1>5, <2>2, <2>3 DEF HandleLate
<1>6. CASE Exec \/ Crash
  <2>1. UNCHANGED <<pc, todo, req>> /\ late' = {} /\ served' = [s \in Services |-> 0]
    BY <1>6 DEF Exec, ExecReplaces, Crash, Replaced
  <2>2. todo \subseteq Services /\ (pc = "register" => req.service \in Services /\ req.try \in 1 .. MaxTries)
    BY RegisterRequest DEF TypeInv, ReqInv, TypeOK
  <2>3. \A s \in todo : Fresh(s)'
    BY <2>1, <2>2 DEF Fresh
  <2>4. pc = "register" => served'[req.service] <= req.try
    BY <2>1, <2>2, SMTT(30)
  <2> QED
    BY <2>1, <2>3, <2>4 DEF TryInv
<1>7. ASSUME NEW i \in initing, InitReturns(i) PROVE TryInv'
  BY <1>7 DEF InitReturns, TryInv, Fresh
<1>8. CASE UNCHANGED vars
  BY <1>8 DEF vars, procVars, TryInv, Fresh
<1> QED
  BY <1>1, <1>2, <1>3, <1>4, <1>5, <1>6, <1>7, <1>8 DEF Next

\* Service s is served, and the instance that is, or one of a later attempt, was
\* initialised.
Ready(s) ==
    served[s] # 0 /\ \E k \in 1 .. MaxTries : served[s] <= k /\ <<s, k>> \in inited

\* The first program registers nothing, and the uploaded one keeps what it has
\* registered: nothing replaces it.
ServedInv ==
    /\ image = "boot" => todo = Services /\ ~(pc = "register" /\ rpc \in {"handling", "ok"})
    /\ image = "new" => \A s \in Services \ todo : Ready(s)
    /\ image = "new" /\ pc = "register" /\ rpc = "handling" => served[req.service] # 0
    /\ image = "new" /\ pc = "register" /\ rpc = "ok" => Ready(req.service)

\* What a process has registered and initialised stays so.
LEMMA ReadyKept ==
    ASSUME TypeOK, NEW r \in Requests, Info(r) \/ Configure(r) \/ Register(r)
    PROVE  \A s \in Services : (served[s] # 0 => served'[s] # 0) /\ (Ready(s) => Ready(s)')
<1>1. CASE Info(r) \/ Configure(r)
  BY <1>1 DEF Info, Configure, procVars, Ready
<1>2. CASE Register(r)
  <2>1. r.service \in Services /\ r.try \in 1 .. MaxTries
    BY <1>2, RegisterRequest DEF Register
  <2>2. \A s \in Services : served[s] # 0 => served'[s] # 0
    BY <1>2, <2>1 DEF Register, serverRegister, TypeOK
  <2>3. \A s \in Services : served[s] # 0 => served'[s] = served[s]
    BY <1>2, <2>1 DEF Register, serverRegister, TypeOK
  <2> QED
    BY <1>2, <2>2, <2>3 DEF Register, Ready
<1> QED
  BY <1>1, <1>2

\* ServedInv is preserved when the driver has a result.
LEMMA ServedResult ==
    ASSUME TypeInv, ServedInv, NEW result, Result(result), UNCHANGED procVars,
           result = "ok" => rpc = "ok"
    PROVE  ServedInv'
<1>1. \A s : Ready(s)' <=> Ready(s)
  BY DEF Ready, procVars
<1>2. "register" \notin ExecCalls /\ "ping" # "register"
  BY ExecCallsAre
<1>3. CASE pc \in ExecCalls
  <2>1. todo' = todo /\ rpc' \in {"sent", "none"}
    BY <1>2, <1>3, ResultSteps DEF TypeInv
  <2> QED
    BY <1>1, <2>1 DEF ServedInv, procVars
<1>4. CASE pc = "register" /\ result = "ok"
  <2>1. rpc' \in {"sent", "none"} /\ (todo' = todo \/ todo' = todo \ {req.service})
    BY <1>2, <1>4, ResultSteps DEF TypeInv
  <2>2. image # "boot" /\ (image = "new" => Ready(req.service))
    BY <1>4 DEF ServedInv
  <2> QED
    BY <1>1, <2>1, <2>2 DEF ServedInv, procVars
<1>5. CASE pc = "register" /\ result # "ok"
  <2>1. rpc' \in {"sent", "none"} /\ todo' = todo
    BY <1>2, <1>5, ResultSteps DEF TypeInv
  <2> QED
    BY <1>1, <2>1 DEF ServedInv, procVars
<1> QED
  BY <1>3, <1>4, <1>5 DEF Result

\* ServedInv is inductive.
LEMMA ServedStep ==
    ASSUME ~BootKnows, TypeInv, ConfInv, TryInv, ServedInv, [Next]_vars
    PROVE  ServedInv'
<1>1. CASE BootPing \/ Ping
  <2>1. UNCHANGED <<procVars, todo>> /\ rpc' \in {"sent", "none"}
    BY <1>1 DEF BootPing, Ping, Call, Goto
  <2> QED
    BY <2>1 DEF ServedInv, Ready, procVars
<1>2. CASE Reply \/ Refused \/ Fault
  <2>1. UNCHANGED procVars /\ \E result : Result(result) /\ (result = "ok" => rpc = "ok")
    BY <1>2, SMTT(30) DEF Reply, Refused, Fault
  <2> QED
    BY <2>1, ServedResult
<1>3. CASE Handle
  <2>1. req \in Requests /\ TypeOK /\ image # "down" /\ UNCHANGED <<pc, todo, req>> /\ rpc = "sent"
    BY <1>3 DEF TypeInv, TypeOK, Handle
  <2>2. pc = "register" => req.method = "Register" /\ req.service \in Services
    BY <2>1, RegisterRequest DEF TypeInv, ReqInv
  <2>3. CASE Decodable(req) /\ (Info(req) \/ Configure(req)) /\ rpc' = "ok"
    <3>1. pc # "register"
      BY <2>2, <2>3 DEF Info, Configure
    <3> QED
      BY <2>1, <2>3, <3>1, ReadyKept, MethodType DEF ServedInv
  <2>4. CASE Decodable(req) /\ Register(req) /\ rpc' = "handling"
    <3>1. image = "new" /\ image' = "new"
      BY <2>1, <2>4 DEF Decodable, Register, TypeOK
    <3>2. req.service \in Services /\ req.try \in 1 .. MaxTries
      BY <2>1, <2>4, RegisterRequest DEF Register
    <3>3. served'[req.service] # 0
      BY <2>1, <2>4, <3>2, SMTT(30) DEF Register, serverRegister, TypeOK
    <3> QED
      BY <2>1, <2>4, <3>1, <3>3, ReadyKept DEF ServedInv
  <2>5. CASE UNCHANGED procVars /\ rpc' \in {"error", "fatal"}
    BY <2>1, <2>5 DEF ServedInv, Ready, procVars
  <2> QED
    BY <1>3, <2>3, <2>4, <2>5 DEF Handle
<1>4. ASSUME NEW r \in late, HandleLate(r) PROVE ServedInv'
  <2>1. /\ r \in Requests /\ TypeOK /\ UNCHANGED <<pc, todo, req, rpc, image>>
        /\ Configure(r) \/ Register(r)
    BY <1>4 DEF TypeInv, TypeOK, HandleLate, Configure, Register
  <2>2. pc = "register" => req.service \in Services
    BY DEF TypeInv, ReqInv, TypeOK
  <2> QED
    BY <2>1, <2>2, ReadyKept DEF ServedInv
<1>5. CASE Exec
  <2>1. image = "boot" /\ image' = "new" /\ UNCHANGED <<pc, todo, req>> /\ rpc' \in {rpc, "broken"}
    BY <1>5 DEF Exec, ExecReplaces, Replaced, Broken, ConfInv, TypeInv, TypeOK
  <2> QED
    BY <2>1 DEF ServedInv
<1>6. CASE Crash
  BY <1>6 DEF Crash, Replaced, ServedInv
<1>7. ASSUME NEW i \in initing, InitReturns(i) PROVE ServedInv'
  <2>1. UNCHANGED <<image, served, pc, todo, req>> /\ inited \subseteq inited'
    BY <1>7 DEF InitReturns
  <2>2. \A s : Ready(s) => Ready(s)'
    BY <2>1 DEF Ready
  <2>3. \/ rpc' = rpc
        \/ rpc = "handling" /\ rpc' # "handling"
           /\ (rpc' = "ok" => <<req.service, req.try>> \in inited')
    BY <1>7 DEF InitReturns, Answer
  <2>4. rpc = "handling" => req.try \in 1 .. MaxTries
    BY RegisterRequest DEF TypeInv, ReqInv, TypeOK
  <2>5. image = "new" /\ pc = "register" /\ rpc = "handling" /\ rpc' = "ok" => Ready(req.service)'
    BY <2>1, <2>3, <2>4 DEF Ready, ServedInv, TryInv
  <2> QED
    BY <2>1, <2>2, <2>3, <2>5 DEF ServedInv, TypeInv, ReqInv
<1>8. CASE UNCHANGED vars
  BY <1>8 DEF vars, procVars, ServedInv, Ready
<1> QED
  BY <1>1, <1>2, <1>3, <1>4, <1>5, <1>6, <1>7, <1>8 DEF Next

\* What ServedInv says of a machine whatever state loop is in.
LEMMA ServedGives ==
    ASSUME TypeInv, ServedInv
    PROVE  RunsUploaded /\ ServicesServed /\ ServedIsInitialized
<1>1. (pc = "running" => todo = {}) /\ image \in {"boot", "new", "down"}
  BY DEF TypeInv, TypeOK
<1>2. RunsUploaded
  BY <1>1, BootstrapAssumption DEF RunsUploaded, ServedInv
<1>3. \A s \in Services : Ready(s) =>
          \/ <<s, served[s]>> \in inited
          \/ \E k \in 1 .. MaxTries : served[s] # 0 /\ k > served[s] /\ <<s, k>> \in inited
  <2> TAKE s \in Services
  <2>1. served[s] \in Nat
    BY BootstrapAssumption, SMTT(30) DEF TypeInv, TypeOK
  <2>2. \A k \in 1 .. MaxTries : served[s] <= k => k > served[s] \/ k = served[s]
    BY <2>1, BootstrapAssumption, SMTT(30)
  <2> QED
    BY <2>2 DEF Ready
<1> QED
  BY <1>1, <1>2, <1>3 DEF RunsUploaded, ServicesServed, ServedIsInitialized, ServedInv, Ready

\* A machine that was started with another program than the driver's (ec2boot)
\* and gets to Running runs the uploaded binary and serves every service,
\* whatever calls were lost or repeated: the network errors that loop mistakes
\* for the expected one do no harm there.
THEOREM OtherProgramReplaced == ~BootKnows => (Spec => [](RunsUploaded /\ ServicesServed))
<1> SUFFICES ASSUME ~BootKnows PROVE Spec => [](RunsUploaded /\ ServicesServed)
  OBVIOUS
<1>1. Init => ServedInv /\ ConfInv /\ TryInv
  BY DEF Init, ServedInv, ConfInv, TryInv, Fresh
<1>2. TypeInv /\ ConfInv /\ TryInv /\ ServedInv /\ [Next]_vars => ServedInv'
  BY ServedStep
<1>3. TypeInv /\ ServedInv => RunsUploaded /\ ServicesServed
  BY ServedGives
<1> QED
  BY <1>1, <1>2, <1>3, ConfStep, TryStep, TypeInvariant, PTL DEF Spec

\* In such a machine the instance of a registered service that is served has been
\* initialised, at every moment and not only once loop is done, unless loop got its
\* answer from a later attempt than the one the server took the instance from
\* (Supervisor.Register, maybeInit): then the instance of that later attempt has.
THEOREM InitializedWhenRegistered == ~BootKnows => (Spec => []ServedIsInitialized)
<1> SUFFICES ASSUME ~BootKnows PROVE Spec => []ServedIsInitialized
  OBVIOUS
<1>1. Init => ServedInv /\ ConfInv /\ TryInv
  BY DEF Init, ServedInv, ConfInv, TryInv, Fresh
<1>2. TypeInv /\ ConfInv /\ TryInv /\ ServedInv /\ [Next]_vars => ServedInv'
  BY ServedStep
<1>3. TypeInv /\ ServedInv => ServedIsInitialized
  BY ServedGives
<1> QED
  BY <1>1, <1>2, <1>3, ConfStep, TryStep, TypeInvariant, PTL DEF Spec

=============================================================================
