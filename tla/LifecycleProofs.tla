-------------------------- MODULE LifecycleProofs --------------------------
(* Machine-checked proof that Machine implements Lifecycle, but for its    *)
(* liveness: every step of a machine without an OOM monitor is one of the  *)
(* steps its users were promised, or one they cannot see.                  *)
EXTENDS MachineProofs

\* The prover of the leaves that name none.
USE ZenonT(60)

\* The state changes only when the loop stores it, and how.
LEMMA LoneStore ==
    ASSUME TypeOK, LoneLoopInv, [Next]_vars, state' # state
    PROVE  /\ setState("loop") /\ state' = setTo["loop"]
           /\ \/ state = Unstarted /\ state' = Starting
              \/ state = Starting /\ state' = Running
              \/ state \in {Starting, Running} /\ state' = Stopped
<1>1. setState("loop")
  BY StateFrame, SMTT(30) DEF setState, LoneLoopInv, Setters
<1>2. state' = setTo["loop"] /\ setPc["loop"] = "store"
  BY <1>1 DEF setState
<1> QED
  BY <1>1, <1>2 DEF LoneLoopInv, TypeOK

\* The state never decreases.
LEMMA LoneMonotonic ==
    ASSUME TypeOK, LoneLoopInv, [Next]_vars
    PROVE  state \in Nat /\ state' \in Nat /\ state <= state'
<1>1. state \in Nat
  BY StateOrder DEF TypeOK
<1> QED
  BY <1>1, LoneStore, SMTT(30) DEF Unstarted, Starting, Running, Stopped

-----------------------------------------------------------------------------
(* What a wait and a call know of the state.                               *)

\* A channel is registered for the state its goroutine waits for, and collected
\* or closed only when the machine has reached that state.
WakeInv ==
    /\ \A x \in waiters : x.c \in Waiters => waitPc[x.c] # "idle" /\ x.state = waitFor[x.c]
    /\ \A g \in Setters : \A w \in triggered[g] :
          w \in Waiters => waitPc[w] # "idle" /\ waitFor[w] <= state
    /\ \A w \in closed : w \in Waiters /\ waitPc[w] # "idle" => waitFor[w] <= state

\* A call is in its RPC only if the machine has run, fails as stopped only if the
\* machine has, and its context is canceled for no other reason than its own.
SimInv ==
    \A c \in Clients :
        /\ callPc[c] \in {"context", "rpc"} => state >= Running
        /\ callPc[c] = "stopped" => state = Stopped
        /\ callPc[c] = "rpc" /\ derived[c] = "canceled" /\ state # Stopped => c \in callCtx

\* WakeInv is inductive.
LEMMA WakeInvStep ==
    ASSUME TypeOK, LoneLoopInv, WakeInv, [Next]_vars
    PROVE  WakeInv'
<1> USE DEF setVars, callVars, waitVars, oomVars, loopVars, sharedVars
<1>1. CASE LoopNext \/ OOMNext
  BY <1>1, LoopFrame, OOMFrame DEF WakeInv
<1>2. CASE TailEnds \/ Cancel \/ UNCHANGED vars
  BY <1>2 DEF TailEnds, Cancel, vars, WakeInv
<1>3. ASSUME NEW g \in Setters, setState(g) PROVE WakeInv'
  <2> DEFINE s == setTo[g]
  <2>1. /\ waiters' \subseteq waiters /\ state' = s
        /\ UNCHANGED <<closed, waitPc, waitFor>>
    BY <1>3 DEF setState, keptBy
  <2>2. /\ triggered'[g] = {x.c : x \in triggeredBy(s)}
        /\ \A h \in Setters \ {g} : triggered'[h] = triggered[h]
    BY <1>3 DEF setState, TypeOK
  <2>3. \A x \in triggeredBy(s) : x \in waiters /\ x.state <= s
    BY DEF triggeredBy
  <2>4. \A w \in triggered'[g] : w \in Waiters => waitPc'[w] # "idle" /\ waitFor'[w] <= state'
    BY <2>1, <2>2, <2>3, SMTT(30) DEF WakeInv
  <2>5. \A w \in Waiters : waitFor[w] <= state => waitFor'[w] <= state'
    <3>1. \A w \in Waiters : waitFor[w] \in Nat
      BY StateOrder DEF TypeOK
    <3> QED
      BY <2>1, <3>1, LoneMonotonic, SMTT(30)
  <2>6. \A x \in waiters' : x.c \in Waiters => waitPc'[x.c] # "idle" /\ x.state = waitFor'[x.c]
    BY <2>1 DEF WakeInv
  <2>7. \A w \in closed' : w \in Waiters /\ waitPc'[w] # "idle" => waitFor'[w] <= state'
    BY <2>1, <2>5 DEF WakeInv
  <2>8. \A h \in Setters \ {g} : \A w \in triggered'[h] :
           w \in Waiters => waitPc'[w] # "idle" /\ waitFor'[w] <= state'
    BY <2>1, <2>2, <2>5 DEF WakeInv
  <2> QED
    BY <2>4, <2>6, <2>7, <2>8 DEF WakeInv
<1>4. ASSUME NEW g \in Setters, closeTriggered(g) PROVE WakeInv'
  <2>1. /\ closed' = closed \cup triggered[g] /\ triggered'[g] = {}
        /\ \A h \in Setters \ {g} : triggered'[h] = triggered[h]
        /\ UNCHANGED <<state, waiters, waitPc, waitFor>>
    BY <1>4 DEF closeTriggered, TypeOK
  <2> QED
    BY <2>1 DEF WakeInv
<1>5. ASSUME NEW w \in Waiters, NEW s \in States, Wait(w, s) PROVE WakeInv'
  <2>1. /\ waitPc[w] = "idle" /\ waitPc'[w] = "blocked" /\ waitFor'[w] = s
        /\ \A v \in Waiters \ {w} : waitPc'[v] = waitPc[v] /\ waitFor'[v] = waitFor[v]
        /\ UNCHANGED <<state, triggered>>
    BY <1>5 DEF Wait, TypeOK
  <2>2. \A x \in waiters : x.c \in Waiters => x.c # w
    BY <2>1 DEF WakeInv
  <2>3. \A g \in Setters : w \notin triggered[g]
    BY <2>1 DEF WakeInv
  <2>4. CASE s <= state
    <3>1. closed' = closed \cup {w} /\ waiters' = waiters
      BY <1>5, <2>4 DEF Wait, WaitOn
    <3> QED
      BY <2>1, <2>2, <2>3, <2>4, <3>1 DEF WakeInv
  <2>5. CASE ~(s <= state)
    <3>1. closed' = closed \ {w} /\ waiters' = waiters \cup {[c |-> w, state |-> s]}
      BY <1>5, <2>5 DEF Wait, WaitOn
    <3> QED
      BY <2>1, <2>2, <2>3, <3>1, SMTT(30) DEF WakeInv
  <2> QED
    BY <2>4, <2>5
<1>6. ASSUME NEW w \in Waiters, WaitReturns(w) PROVE WakeInv'
  <2>1. /\ \A v \in Waiters : waitPc'[v] = "idle" <=> waitPc[v] = "idle"
        /\ UNCHANGED <<state, waiters, closed, triggered, waitFor>>
    BY <1>6 DEF WaitReturns, TypeOK
  <2> QED
    BY <2>1 DEF WakeInv
<1>7. ASSUME NEW c \in Clients, CallWait(c) PROVE WakeInv'
  <2>1. c \notin Waiters
    BY MachineAssumption DEF Clients
  <2>2. /\ closed' \subseteq closed \cup {c}
        /\ waiters' \subseteq waiters \cup {[c |-> c, state |-> Running]}
        /\ UNCHANGED <<state, triggered, waitPc, waitFor>>
    BY <1>7 DEF CallWait, WaitOn
  <2>3. \A x \in waiters' : x.c \in Waiters => x \in waiters
    BY <2>1, <2>2, SMTT(30)
  <2>4. \A w \in closed' : w \in Waiters => w \in closed
    BY <2>1, <2>2
  <2> QED
    BY <2>2, <2>3, <2>4 DEF WakeInv
<1>8. ASSUME NEW c \in Clients,
             \/ CallSteps(c) /\ ~CallWait(c)
             \/ CallRPC(c) \/ CtxDone(c) \/ BeginCall(c) \/ EndCall(c)
      PROVE  WakeInv'
  <2>1. UNCHANGED <<state, waiters, closed, triggered, waitPc, waitFor>>
    BY <1>8 DEF CallSteps, CallSwitch, CallWoken, context, CallBlockedCtxDone,
       CallRPCCanceled, CallStopped, RetryWait, CallReturns, CallRPC, CtxDone, BeginCall, EndCall
  <2> QED
    BY <2>1 DEF WakeInv
<1> QED
  BY <1>1, <1>2, <1>3, <1>4, <1>5, <1>6, <1>7, <1>8, Names DEF Next

\* What a step of the call of c leaves alone: everything of the other calls.
LEMMA OtherCalls ==
    ASSUME TypeOK, NEW c \in Clients, NEW d \in Clients, d # c,
           CallSteps(c) \/ CallRPC(c) \/ CtxDone(c) \/ BeginCall(c) \/ EndCall(c)
    PROVE  /\ callPc'[d] = callPc[d] /\ derived'[d] = derived[d] /\ callRes'[d] = callRes[d]
           /\ d \in callCtx' <=> d \in callCtx
<1>1. CASE CallSwitch(c) \/ CallWait(c) \/ CallWoken(c) \/ context(c)
  BY <1>1 DEF CallSwitch, CallWait, CallWoken, context, TypeOK
<1>2. CASE CallBlockedCtxDone(c) \/ CallRPCCanceled(c) \/ CallStopped(c) \/ RetryWait(c) \/ CallRPC(c)
  BY <1>2 DEF CallBlockedCtxDone, CallRPCCanceled, CallStopped, RetryWait, CallReturns, CallRPC, TypeOK
<1>3. CASE CtxDone(c) \/ BeginCall(c) \/ EndCall(c)
  BY <1>3 DEF CtxDone, BeginCall, EndCall, TypeOK
<1> QED
  BY <1>1, <1>2, <1>3 DEF CallSteps

\* The loop begins and ends its own call, and no other.
LEMMA LoopOtherCalls ==
    ASSUME TypeOK, LoopNext, NEW d \in Clients
    PROVE  \/ UNCHANGED <<callPc, derived, callRes, callCtx>>
           \/ /\ callPc'["loop"] \in {"switch", "idle"}
              /\ d # "loop" => /\ callPc'[d] = callPc[d] /\ derived'[d] = derived[d]
                               /\ callRes'[d] = callRes[d]
                               /\ d \in callCtx' <=> d \in callCtx
<1> USE DEF callVars
<1>1. CASE LoopKeepalive
  BY <1>1, Names DEF LoopKeepalive, LoopGoto, LoopFails, TypeOK
<1>2. CASE LoopProfileSaved
  BY <1>2, Names DEF LoopProfileSaved, TypeOK
<1>3. CASE ~LoopKeepalive /\ ~LoopProfileSaved
  BY <1>3 DEF LoopNext, LoopBegin, LoopStarting, LoopBootPing, LoopExec, LoopPing,
     LoopRegister, LoopRun, LoopSelect, LoopSleep, LoopExit, LoopGoto, LoopFails
<1> QED
  BY <1>1, <1>2, <1>3

\* SimInv is inductive.
LEMMA SimInvStep ==
    ASSUME TypeOK, LoneLoopInv, SimInv, [Next]_vars
    PROVE  SimInv'
<1> USE DEF setVars, callVars, waitVars, oomVars, loopVars, sharedVars
<1>0. /\ state \in Nat /\ Running \in Nat
      /\ state >= Stopped <=> state = Stopped
      /\ state = Stopped => state >= Running
  <2>1. state \in States
    BY DEF TypeOK
  <2>2. state \in Nat /\ (state >= Stopped <=> state = Stopped)
    BY <2>1, StateOrder
  <2> QED
    BY <2>2, SMTT(30) DEF Running, Stopped
<1>1. CASE LoopNext
  BY <1>1, LoopFrame, LoopOtherCalls, Names DEF SimInv
<1>2. CASE OOMNext \/ TailEnds \/ Cancel \/ UNCHANGED vars
  <2>1. UNCHANGED <<state, callPc, derived, callCtx>>
    BY <1>2 DEF OOMNext, OOMGetpid, OOMRead, OOMMatch, OOMEnd, OOMGoto, TailEnds, Cancel, vars
  <2> QED
    BY <2>1 DEF SimInv
<1>3. ASSUME NEW g \in Setters, setState(g) PROVE SimInv'
  <2>1. UNCHANGED <<callPc, callCtx>> /\ state' = setTo[g]
    BY <1>3 DEF setState
  <2>2. state' # Stopped => \A c \in Clients : derived'[c] = derived[c]
    <3>1. setTo[g] \in States
      BY DEF TypeOK
    <3> QED
      BY <1>3, <2>1, <3>1, StateOrder DEF setState, canceledBy
  <2>3. state >= Running => state' >= Running
    BY <1>0, LoneMonotonic, SMTT(30)
  <2>4. state = Stopped => state' = Stopped
    BY LoneStore, SMTT(30) DEF Unstarted, Starting, Running, Stopped
  <2>5. \A c \in Clients : callPc'[c] \in {"context", "rpc"} => state' >= Running
    BY <2>1, <2>3 DEF SimInv
  <2>6. \A c \in Clients : callPc'[c] = "stopped" => state' = Stopped
    BY <2>1, <2>4 DEF SimInv
  <2>7. \A c \in Clients : callPc'[c] = "rpc" /\ derived'[c] = "canceled" /\ state' # Stopped
                             => c \in callCtx'
    BY <2>1, <2>2, <2>4 DEF SimInv
  <2> QED
    BY <2>5, <2>6, <2>7 DEF SimInv
<1>4. CASE (\E g \in Setters : closeTriggered(g))
           \/ \E w \in Waiters : WaitReturns(w) \/ \E s \in States : Wait(w, s)
  <2>1. UNCHANGED <<state, callPc, derived, callCtx>>
    BY <1>4 DEF closeTriggered, WaitReturns, Wait
  <2> QED
    BY <2>1 DEF SimInv
<1>5. ASSUME NEW c \in Clients,
             CallSteps(c) \/ CallRPC(c) \/ CtxDone(c) \/ BeginCall(c) \/ EndCall(c)
      PROVE  SimInv'
  <2>1. state' = state
    BY <1>5 DEF CallSteps, CallSwitch, CallWait, CallWoken, context, CallBlockedCtxDone,
       CallRPCCanceled, CallStopped, RetryWait, CallReturns, CallRPC, CtxDone, BeginCall, EndCall
  <2>2. /\ callPc'[c] \in {"context", "rpc"} => state >= Running
        /\ callPc'[c] = "stopped" => state = Stopped
        /\ callPc'[c] = "rpc" /\ derived'[c] = "canceled" /\ state # Stopped => c \in callCtx'
    <3>1. CASE CallSwitch(c)
      <4>1. state = Running => state >= Running
        BY <1>0, SMTT(30)
      <4>2. callPc'[c] = CASE state = Running -> "context"
                           [] state = Stopped -> "stopped"
                           [] OTHER -> "wait"
        BY <3>1 DEF CallSwitch, TypeOK
      <4>3. CASE state = Running
        BY <4>1, <4>2, <4>3 DEF Running, Stopped
      <4>4. CASE state = Stopped
        BY <4>2, <4>4, SMTT(30) DEF Running, Stopped
      <4>5. CASE state # Running /\ state # Stopped
        BY <4>2, <4>5
      <4> QED
        BY <4>3, <4>4, <4>5
    <3>2. CASE CallWait(c) \/ CallWoken(c) \/ RetryWait(c) \/ BeginCall(c) \/ EndCall(c)
      <4>1. callPc'[c] \in {"blocked", "switch", "done", "idle"}
        BY <3>2 DEF CallWait, CallWoken, RetryWait, BeginCall, EndCall, TypeOK
      <4> QED
        BY <4>1
    <3>3. CASE context(c)
      <4>1. callPc'[c] = "rpc" /\ callCtx' = callCtx
            /\ (state # Stopped /\ derived'[c] = "canceled" => c \in callCtx)
        BY <1>0, <3>3 DEF context, TypeOK
      <4> QED
        BY <3>3, <4>1 DEF context, SimInv
    <3>4. CASE CallBlockedCtxDone(c) \/ CallStopped(c) \/ CallRPC(c)
               \/ (CallRPCCanceled(c) /\ state # Stopped)
      <4>1. callPc'[c] \in {"backoff", "done"}
        BY <3>4
           DEF CallBlockedCtxDone, CallStopped, CallRPC, CallRPCCanceled, CallReturns, TypeOK
      <4> QED
        BY <4>1
    <3>5. CASE CallRPCCanceled(c) /\ state = Stopped
      BY <1>0, <3>5 DEF CallRPCCanceled, TypeOK
    <3>6. CASE CtxDone(c)
      BY <3>6 DEF CtxDone, SimInv
    <3> QED
      BY <1>5, <3>1, <3>2, <3>3, <3>4, <3>5, <3>6 DEF CallSteps
  <2> QED
    BY <1>5, <2>1, <2>2, OtherCalls DEF SimInv
<1> QED
  BY <1>1, <1>2, <1>3, <1>4, <1>5, Names DEF Next

\* A released waiter stays released, and its state behind it.
LEMMA NoEarlyWakeupStep ==
    ASSUME TypeOK, LoneLoopInv, WakeInv, NoEarlyWakeup, [Next]_vars
    PROVE  NoEarlyWakeup'
<1> USE DEF setVars, callVars, waitVars, oomVars, loopVars, sharedVars
<1>1. \A w \in Waiters : waitFor[w] <= state => waitFor[w] <= state'
  <2>1. \A w \in Waiters : waitFor[w] \in Nat
    BY StateOrder DEF TypeOK
  <2> QED
    BY <2>1, LoneMonotonic, SMTT(30)
<1>2. CASE UNCHANGED <<waitPc, waitFor>>
  BY <1>1, <1>2 DEF NoEarlyWakeup
<1>3. ASSUME NEW w \in Waiters, WaitReturns(w) PROVE NoEarlyWakeup'
  <2>1. waitFor[w] <= state /\ UNCHANGED <<state, waitFor>>
    BY <1>3 DEF WaitReturns, WakeInv
  <2>2. \A v \in Waiters \ {w} : waitPc'[v] = waitPc[v]
    BY <1>3 DEF WaitReturns, TypeOK
  <2> QED
    BY <2>1, <2>2 DEF NoEarlyWakeup
<1>4. ASSUME NEW w \in Waiters, NEW s \in States, Wait(w, s) PROVE NoEarlyWakeup'
  <2>1. /\ waitPc'[w] = "blocked" /\ state' = state
        /\ \A v \in Waiters \ {w} : waitPc'[v] = waitPc[v] /\ waitFor'[v] = waitFor[v]
    BY <1>4 DEF Wait, TypeOK
  <2> QED
    BY <2>1 DEF NoEarlyWakeup
<1>5. ASSUME NEW c, CallSteps(c) \/ CallRPC(c) \/ CtxDone(c) \/ BeginCall(c) \/ EndCall(c)
      PROVE  UNCHANGED <<waitPc, waitFor>>
  BY <1>5 DEF CallSteps, CallSwitch, CallWait, CallWoken, context, CallBlockedCtxDone,
     CallRPCCanceled, CallStopped, RetryWait, CallReturns, CallRPC, CtxDone, BeginCall, EndCall
<1>6. TailEnds \/ Cancel \/ UNCHANGED vars \/ (\E g \in Setters : setState(g) \/ closeTriggered(g))
      => UNCHANGED <<waitPc, waitFor>>
  BY DEF TailEnds, Cancel, vars, setState, closeTriggered
<1> QED
  BY <1>2, <1>3, <1>4, <1>5, <1>6, LoopFrame, OOMFrame DEF Next

\* A call that returned its context's error was given one that is done.
LEMMA CtxErrStep ==
    ASSUME TypeOK, SimInv, CtxErrIsCallers, [Next]_vars
    PROVE  CtxErrIsCallers'
<1> USE DEF setVars, callVars, waitVars, oomVars, loopVars, sharedVars
<1>1. CASE LoopNext
  <2>1. callRes'["loop"] \in {callRes["loop"], "none"}
        /\ (callRes'["loop"] = callRes["loop"] /\ callRes["loop"] # "none" => callCtx' = callCtx)
    <3>1. CASE LoopProfileSaved
      BY <3>1, Names DEF LoopProfileSaved, TypeOK
    <3>2. CASE LoopKeepalive
      BY <3>2, SMTT(30) DEF LoopKeepalive, LoopGoto, LoopFails
    <3>3. CASE LoopBegin \/ LoopStarting \/ LoopBootPing \/ LoopExec \/ LoopPing
      BY <3>3, SMTT(30) DEF LoopBegin, LoopStarting, LoopBootPing, LoopExec, LoopPing, LoopGoto, LoopFails
    <3>4. CASE LoopRegister \/ LoopRun \/ LoopSelect \/ LoopSleep \/ LoopExit
      BY <3>4, SMTT(30) DEF LoopRegister, LoopRun, LoopSelect, LoopSleep, LoopExit, LoopGoto, LoopFails
    <3> QED
      BY <1>1, <3>1, <3>2, <3>3, <3>4 DEF LoopNext
  <2> QED
    BY <1>1, <2>1, LoopOtherCalls, Names DEF CtxErrIsCallers
<1>2. CASE \/ OOMNext \/ TailEnds \/ Cancel \/ UNCHANGED vars
           \/ \E g \in Setters : setState(g) \/ closeTriggered(g)
           \/ \E w \in Waiters : WaitReturns(w) \/ \E s \in States : Wait(w, s)
  <2>1. UNCHANGED <<callRes, callCtx>>
    BY <1>2
       DEF OOMNext, OOMGetpid, OOMRead, OOMMatch, OOMEnd, OOMGoto, TailEnds, Cancel, vars,
       setState, closeTriggered, WaitReturns, Wait
  <2> QED
    BY <2>1 DEF CtxErrIsCallers
<1>3. ASSUME NEW c \in Clients,
             CallSteps(c) \/ CallRPC(c) \/ CtxDone(c) \/ BeginCall(c) \/ EndCall(c)
      PROVE  CtxErrIsCallers'
  <2>1. callRes'[c] = "ctx" => c \in callCtx'
    <3>1. ASSUME NEW res, CallReturns(c, res), res = "ctx" => c \in callCtx
          PROVE  callRes'[c] = "ctx" => c \in callCtx'
      <4>1. callCtx' = callCtx /\ callRes' \in {callRes, [callRes EXCEPT ![c] = res]}
        BY <3>1 DEF CallReturns
      <4> QED
        BY <3>1, <4>1 DEF CtxErrIsCallers, TypeOK
    <3>2. CASE CallBlockedCtxDone(c) \/ CallStopped(c) \/ CallRPC(c)
      <4>1. CASE CallBlockedCtxDone(c)
        BY <3>1, <4>1 DEF CallBlockedCtxDone
      <4>2. CASE CallStopped(c)
        <5>1. CallReturns(c, "stopped") \/ CallReturns(c, "stopped without cause")
          BY <4>2 DEF CallStopped
        <5> QED
          BY <3>1, <5>1
      <4>3. CASE CallRPC(c)
        BY <3>1, <4>3 DEF CallRPC
      <4> QED
        BY <3>2, <4>1, <4>2, <4>3
    <3>3. CASE CallRPCCanceled(c)
      <4>1. CASE state # Stopped
        BY <3>1, <3>3, <4>1 DEF CallRPCCanceled, SimInv
      <4>2. CASE state = Stopped
        BY <3>3, <4>2 DEF CallRPCCanceled, CtxErrIsCallers
      <4> QED
        BY <4>1, <4>2
    <3>4. CASE CallSwitch(c) \/ CallWait(c) \/ CallWoken(c) \/ context(c) \/ CtxDone(c) \/ BeginCall(c)
      BY <3>4 DEF CallSwitch, CallWait, CallWoken, context, CtxDone, BeginCall, CtxErrIsCallers
    <3>5. CASE RetryWait(c) \/ EndCall(c)
      BY <3>5 DEF RetryWait, EndCall, CtxErrIsCallers, TypeOK
    <3> QED
      BY <1>3, <3>2, <3>3, <3>4, <3>5 DEF CallSteps
  <2> QED
    BY <1>3, <2>1, OtherCalls DEF CtxErrIsCallers
<1> QED
  BY <1>1, <1>2, <1>3, Names DEF Next

\* Without a monitor there is none at the start.
LEMMA NoMonitorInit == ASSUME ~(HasSystem /\ TRUE \in Owners), Init PROVE ~(Owner /\ HasSystem)
<1> SUFFICES ASSUME HasSystem PROVE tail = "nil"
  BY DEF Owner
<1>1. PICK owner \in Owners : tail = IF owner THEN "open" ELSE "nil"
  BY DEF Init
<1>2. owner = FALSE
  BY MachineAssumption
<1> QED
  BY <1>1, <1>2

\* Without a monitor nobody is released from Wait before its state is reached,
\* and a call reports its context's error only if that context is done.
THEOREM WaitAndCallHonest ==
    ~(HasSystem /\ TRUE \in Owners) => (Spec => []NoEarlyWakeup /\ []CtxErrIsCallers)
<1> SUFFICES ASSUME ~(HasSystem /\ TRUE \in Owners)
             PROVE  Spec => []NoEarlyWakeup /\ []CtxErrIsCallers
  OBVIOUS
<1> DEFINE NoMonitor == ~(Owner /\ HasSystem)
<1>1. Init => NoMonitor /\ LoneLoopInv
  BY NoMonitorInit, Names DEF Init, LoneLoopInv
<1>2. Init => WakeInv /\ SimInv /\ NoEarlyWakeup /\ CtxErrIsCallers
  BY DEF Init, WakeInv, SimInv, NoEarlyWakeup, CtxErrIsCallers
<1>3. TypeOK /\ NoMonitor /\ LoneLoopInv /\ [Next]_vars => LoneLoopInv' /\ NoMonitor'
  BY LoneLoopStep, OwnerStable
<1>4. TypeOK /\ LoneLoopInv /\ WakeInv /\ SimInv /\ [Next]_vars => WakeInv' /\ SimInv'
  BY WakeInvStep, SimInvStep
<1>5. TypeOK /\ LoneLoopInv /\ WakeInv /\ NoEarlyWakeup /\ [Next]_vars => NoEarlyWakeup'
  BY NoEarlyWakeupStep
<1>6. TypeOK /\ SimInv /\ CtxErrIsCallers /\ [Next]_vars => CtxErrIsCallers'
  BY CtxErrStep
<1> QED
  BY <1>1, <1>2, <1>3, <1>4, <1>5, <1>6, TypeCorrect, PTL DEF Spec

-----------------------------------------------------------------------------
(* The refinement.  calls, cause, expired and result are what L puts for   *)
(* the variables of Lifecycle that Machine does not have.                  *)

cause == IF state = Stopped THEN err ELSE NoErr
callAt(pc) == IF pc \in {"idle", "done"} THEN pc ELSE "pending"
calls == [c \in Callers |-> callAt(callPc[c])]
expired == callCtx \ {"loop"}
result == [c \in Callers |-> callRes[c]]

\* What users see does not change.
LEMMA Unseen ==
    ASSUME UNCHANGED <<state, cause, waitPc, waitFor, calls, expired, result>>
    PROVE  UNCHANGED L!lifeVars
  BY DEF L!lifeVars, cause, calls, callAt, expired, result

\* The error of a stopped machine does not change.
LEMMA CauseStable == ASSUME TypeOK, LoneLoopInv, [Next]_vars, state' = state PROVE cause' = cause
<1> SUFFICES ASSUME state = Stopped, err' # err PROVE FALSE
  BY DEF cause
<1>1. ~OOMNext
  BY DEF LoneLoopInv, OOMNext, OOMGetpid, OOMRead, OOMMatch, OOMEnd, OOMAt
<1>2. setPc["loop"] = "idle" /\ loopPc \notin {"exit", "done"}
  BY <1>1, ErrFrame
<1>3. state \in {Unstarted, Starting, Running}
  BY <1>2 DEF LoneLoopInv, TypeOK
<1> QED
  BY <1>3, SMTT(30) DEF Unstarted, Starting, Running, Stopped

\* A caller is not the loop.
LEMMA CallerNotLoop == \A c \in Callers : c \in Clients /\ c # "loop"
  BY MachineAssumption DEF Clients

\* setState is a step of the machine's phase, the rest is not seen.
LEMMA StoreRefines ==
    ASSUME TypeOK, LoneLoopInv, ErrInv, [Next]_vars, state' # state
    PROVE  L!Advance \/ L!Stop
<1>1. /\ setState("loop") /\ state' = setTo["loop"]
      /\ \/ state = Unstarted /\ state' = Starting
         \/ state = Starting /\ state' = Running
         \/ state \in {Starting, Running} /\ state' = Stopped
  BY LoneStore
<1>2. UNCHANGED <<err, callPc, callCtx, callRes, waitPc, waitFor>> /\ setPc["loop"] = "store"
  BY <1>1 DEF setState, waitVars
<1>3. UNCHANGED <<waitPc, waitFor, calls, expired, result>>
  BY <1>2 DEF calls, expired, result
<1>4. CASE state' # Stopped
  <2>1. state < 2 /\ state' = state + 1 /\ state # Stopped
    BY <1>1, <1>4, SMTT(30) DEF Unstarted, Starting, Running, Stopped
  <2>2. cause' = cause
    BY <1>4, <2>1 DEF cause
  <2> QED
    BY <1>3, <2>1, <2>2 DEF L!Advance, cause, calls, callAt, expired, result
<1>5. CASE state' = Stopped
  <2>1. state < 3 /\ state' = 3
    BY <1>1, <1>5, SMTT(30) DEF Unstarted, Starting, Running, Stopped
  <2>2. err' \in Errors
    BY <1>1, <1>2, <1>5, Names DEF ErrInv, TypeOK
  <2>3. cause' \in Errors
    BY <1>5, <2>2 DEF cause
  <2> QED
    BY <1>3, <2>1, <2>3 DEF L!Stop, cause, calls, callAt, expired, result
<1> QED
  BY <1>4, <1>5

\* Blocking on a channel, and being released from it.
LEMMA WaitRefines ==
    ASSUME TypeOK, LoneLoopInv, WakeInv, [Next]_vars, NEW w \in Waiters,
           WaitReturns(w) \/ \E s \in States : Wait(w, s)
    PROVE  L!Next
<1>1. UNCHANGED <<state, err, callPc, callCtx, callRes>>
  BY DEF WaitReturns, Wait, sharedVars, callVars
<1>2. UNCHANGED <<state, cause, calls, expired, result>>
  BY <1>1 DEF cause, calls, expired, result
<1>3. CASE WaitReturns(w)
  <2>1. waitPc[w] = "blocked" /\ waitFor[w] <= state
    BY <1>3 DEF WaitReturns, WakeInv
  <2>2. L!Release(w)
    BY <1>2, <1>3, <2>1 DEF L!Release, WaitReturns, cause, calls, callAt, expired, result
  <2> QED
    BY <2>2 DEF L!Next
<1>4. ASSUME NEW s \in States, Wait(w, s) PROVE L!Next
  <2>1. L!Wait(w, s)
    BY <1>2, <1>4 DEF L!Wait, Wait, cause, calls, callAt, expired, result
  <2>2. s \in 0 .. 3
    BY DEF States, Unstarted, Stopped
  <2> QED
    BY <2>1, <2>2 DEF L!Next
<1> QED
  BY <1>3, <1>4

\* The steps of a call are seen in what its caller sees, and nowhere else.
LEMMA CallFrame ==
    ASSUME TypeOK, LoneLoopInv, [Next]_vars, NEW c \in Clients,
           CallSteps(c) \/ CallRPC(c) \/ CtxDone(c) \/ BeginCall(c) \/ EndCall(c)
    PROVE  /\ UNCHANGED <<state, cause, waitPc, waitFor>>
           /\ calls' = [calls EXCEPT ![c] = callAt(callPc'[c])]
           /\ result' = [result EXCEPT ![c] = callRes'[c]]
           /\ expired' \ {c} = expired \ {c}
<1> USE DEF setVars, callVars, waitVars, oomVars, loopVars, sharedVars
<1>1. UNCHANGED <<state, waitPc, waitFor>>
  BY DEF CallSteps, CallSwitch, CallWait, CallWoken, context, CallBlockedCtxDone,
     CallRPCCanceled, CallStopped, RetryWait, CallReturns, CallRPC, CtxDone, BeginCall, EndCall
<1>2. cause' = cause
  BY <1>1, CauseStable
<1>3. \A d \in Callers \ {c} : callPc'[d] = callPc[d] /\ callRes'[d] = callRes[d]
  BY OtherCalls, CallerNotLoop
<1>4. calls' = [calls EXCEPT ![c] = callAt(callPc'[c])]
  BY <1>3 DEF calls
<1>5. result' = [result EXCEPT ![c] = callRes'[c]]
  BY <1>3 DEF result
<1>6. callCtx' \in {callCtx, callCtx \cup {c}, callCtx \ {c}}
  BY DEF CallSteps, CallSwitch, CallWait, CallWoken, context, CallBlockedCtxDone,
     CallRPCCanceled, CallStopped, RetryWait, CallReturns, CallRPC, CtxDone, BeginCall, EndCall
<1>7. expired' \ {c} = expired \ {c}
  BY <1>6 DEF expired
<1> QED
  BY <1>1, <1>2, <1>4, <1>5, <1>7

\* What a call returns it may return.
LEMMA ReturnRefines ==
    ASSUME TypeOK, LoneLoopInv, [Next]_vars, NEW c \in Callers,
           CallSteps(c) \/ CallRPC(c), callAt(callPc[c]) = "pending",
           NEW res \in L!Results, L!MayReturn(c, res),
           CallReturns(c, res) \/ (callPc'[c] = "done" /\ callRes'[c] = res /\ callCtx' = callCtx)
    PROVE  [L!Next]_L!lifeVars
<1>1. /\ UNCHANGED <<state, cause, waitPc, waitFor>>
      /\ calls' = [calls EXCEPT ![c] = callAt(callPc'[c])]
      /\ result' = [result EXCEPT ![c] = callRes'[c]]
  BY CallFrame, CallerNotLoop
<1>2. callCtx' = callCtx /\ expired' = expired
  BY DEF CallReturns, callVars, expired
<1>3. c \in Clients
  BY CallerNotLoop
<1>4. CASE callPc'[c] = "backoff" /\ callRes' = callRes
  <2>1. callAt(callPc'[c]) = calls[c]
    BY <1>4 DEF callAt, calls
  <2>2. callRes'[c] = result[c]
    BY <1>4 DEF result
  <2>3. UNCHANGED <<calls, result>>
    BY <1>1, <2>1, <2>2 DEF calls, result
  <2> QED
    BY <1>1, <1>2, <2>3, Unseen
<1>5. CASE callPc'[c] = "done" /\ callRes'[c] = res
  <2>1. calls' = [calls EXCEPT ![c] = "done"] /\ result' = [result EXCEPT ![c] = res]
    BY <1>1, <1>5 DEF callAt
  <2>2. calls[c] = "pending"
    BY DEF calls
  <2>3. L!Return(c, res)
    BY <1>1, <1>2, <2>1, <2>2 DEF L!Return, cause, calls, callAt, expired, result
  <2> QED
    BY <2>3 DEF L!Next
<1> QED
  BY <1>3, <1>4, <1>5 DEF CallReturns, TypeOK

\* The steps of the call of a caller.
LEMMA CallRefines ==
    ASSUME TypeOK, LoneLoopInv, ErrInv, SimInv, [Next]_vars, NEW c \in Callers,
           CallSteps(c) \/ CallRPC(c) \/ CtxDone(c) \/ BeginCall(c) \/ EndCall(c)
    PROVE  [L!Next]_L!lifeVars
<1>1. c \in Clients /\ c # "loop" /\ (c \in expired <=> c \in callCtx)
  BY CallerNotLoop DEF expired
<1>2. /\ UNCHANGED <<state, cause, waitPc, waitFor>>
      /\ calls' = [calls EXCEPT ![c] = callAt(callPc'[c])]
      /\ result' = [result EXCEPT ![c] = callRes'[c]]
      /\ calls[c] = callAt(callPc[c]) /\ result[c] = callRes[c]
  BY <1>1, CallFrame DEF calls, result
<1>3. state \in Nat
  BY StateOrder DEF TypeOK
<1> USE <1>1 DEF callVars, sharedVars
<1>4. ASSUME callAt(callPc'[c]) = callAt(callPc[c]), callRes'[c] = callRes[c], callCtx' = callCtx
      PROVE  UNCHANGED L!lifeVars
  <2>1. UNCHANGED <<calls, result, expired>>
    BY <1>2, <1>4 DEF calls, result, expired
  <2> QED
    BY <1>2, <2>1, Unseen
<1>5. CASE CallSwitch(c) \/ CallWait(c) \/ CallWoken(c) \/ context(c)
           \/ (CallRPCCanceled(c) /\ state = Stopped)
  <2>1. callAt(callPc'[c]) = "pending" /\ callAt(callPc[c]) = "pending"
    <3>1. CASE CallSwitch(c)
      <4>1. callPc[c] = "switch" /\ callPc'[c] \in {"context", "stopped", "wait"}
        BY <3>1 DEF CallSwitch, TypeOK
      <4> QED
        BY <4>1 DEF callAt
    <3>2. CASE CallWait(c) \/ CallWoken(c) \/ context(c)
               \/ (CallRPCCanceled(c) /\ state = Stopped)
      BY <3>2 DEF CallWait, CallWoken, context, CallRPCCanceled, callAt, TypeOK
    <3> QED
      BY <1>5, <3>1, <3>2
  <2>2. UNCHANGED <<callRes, callCtx>>
    BY <1>5 DEF CallSwitch, CallWait, CallWoken, context, CallRPCCanceled
  <2> QED
    BY <1>4, <2>1, <2>2
<1>6. CASE CallBlockedCtxDone(c) \/ (CallRPCCanceled(c) /\ state # Stopped)
  <2>1. CallReturns(c, "ctx") /\ callAt(callPc[c]) = "pending" /\ c \in callCtx
    BY <1>6 DEF CallBlockedCtxDone, CallRPCCanceled, callAt, SimInv
  <2>2. L!MayReturn(c, "ctx") /\ "ctx" \in L!Results
    BY <2>1 DEF L!MayReturn, L!Results
  <2> QED
    BY <1>6, <2>1, <2>2, ReturnRefines DEF CallSteps
<1>7. CASE CallRPC(c)
  <2>1. PICK res \in {"ok", "temporary", "fatal"} : CallReturns(c, res)
    BY <1>7 DEF CallRPC
  <2>2. callPc[c] = "rpc" /\ state >= 2
    BY <1>7 DEF CallRPC, SimInv, Running
  <2>3. L!MayReturn(c, res) /\ res \in L!Results
    BY <2>2 DEF L!MayReturn, L!Results
  <2>4. callAt(callPc[c]) = "pending"
    BY <2>2 DEF callAt
  <2> QED
    BY <1>7, <2>1, <2>3, <2>4, ReturnRefines
<1>8. CASE CallStopped(c)
  <2>1. callPc[c] = "stopped" /\ state = 3 /\ err # NoErr
    BY <1>8 DEF CallStopped, SimInv, ErrInv, Stopped
  <2>2. CallReturns(c, "stopped")
    BY <1>8, <2>1 DEF CallStopped
  <2>3. L!MayReturn(c, "stopped") /\ "stopped" \in L!Results
    BY <2>1 DEF L!MayReturn, L!Results
  <2>4. callAt(callPc[c]) = "pending"
    BY <2>1 DEF callAt
  <2> QED
    BY <1>8, <2>2, <2>3, <2>4, ReturnRefines DEF CallSteps
<1>9. CASE RetryWait(c)
  <2>1. CASE c \in callCtx
    <3>1. /\ callPc[c] = "backoff" /\ callPc'[c] = "done" /\ callRes'[c] = "fatal"
          /\ callCtx' = callCtx
      BY <1>9, <2>1 DEF RetryWait, TypeOK
    <3>2. L!MayReturn(c, "fatal") /\ "fatal" \in L!Results /\ callAt(callPc[c]) = "pending"
      BY <2>1, <3>1 DEF L!MayReturn, L!Results, callAt
    <3> QED
      BY <1>9, <3>1, <3>2, ReturnRefines DEF CallSteps
  <2>2. CASE c \notin callCtx
    <3>1. callPc[c] = "backoff" /\ callPc'[c] = "switch" /\ UNCHANGED <<callRes, callCtx>>
      BY <1>9, <2>2 DEF RetryWait, TypeOK
    <3> QED
      BY <1>4, <3>1 DEF callAt
  <2> QED
    BY <2>1, <2>2
<1>10. CASE CtxDone(c)
  <2>1. callPc[c] # "idle" /\ c \notin expired /\ UNCHANGED <<callPc, callRes>>
    BY <1>10 DEF CtxDone
  <2>2. expired' = expired \cup {c}
    BY <1>10 DEF CtxDone, expired
  <2>3. calls[c] # "idle" /\ UNCHANGED <<calls, result>>
    BY <1>2, <2>1 DEF calls, result, callAt
  <2>4. L!Expire(c)
    BY <1>2, <2>1, <2>2, <2>3 DEF L!Expire, cause, calls, callAt, expired, result
  <2> QED
    BY <2>4 DEF L!Next
<1>11. CASE BeginCall(c)
  <2>1. callPc[c] = "idle" /\ callPc'[c] = "switch" /\ UNCHANGED <<callRes, callCtx>>
    BY <1>11 DEF BeginCall, TypeOK
  <2>2. calls[c] = "idle" /\ calls' = [calls EXCEPT ![c] = "pending"] /\ UNCHANGED <<result, expired>>
    BY <1>2, <2>1 DEF callAt, result, expired
  <2>3. L!Begin(c)
    BY <1>2, <2>2 DEF L!Begin, cause, calls, callAt, expired, result
  <2> QED
    BY <2>3 DEF L!Next
<1>12. CASE EndCall(c)
  <2>1. callPc[c] = "done" /\ callPc'[c] = "idle" /\ callRes'[c] = "none"
        /\ callCtx' = callCtx \ {c}
    BY <1>12 DEF EndCall, TypeOK
  <2>2. /\ calls[c] = "done" /\ calls' = [calls EXCEPT ![c] = "idle"]
        /\ result' = [result EXCEPT ![c] = "none"] /\ expired' = expired \ {c}
    BY <1>2, <2>1 DEF callAt, expired
  <2>3. L!End(c)
    BY <1>2, <2>2 DEF L!End, cause, calls, callAt, expired, result
  <2> QED
    BY <2>3 DEF L!Next
<1> QED
  BY <1>5, <1>6, <1>7, <1>8, <1>9, <1>10, <1>11, <1>12 DEF CallSteps

\* Nobody sees the loop's own steps, nor those of the call it makes.
LEMMA LoopUnseen ==
    ASSUME TypeOK, LoneLoopInv, [Next]_vars, state' = state, UNCHANGED <<waitPc, waitFor>>,
           \A c \in Callers : /\ callPc'[c] = callPc[c] /\ callRes'[c] = callRes[c]
                              /\ c \in callCtx' <=> c \in callCtx
    PROVE  UNCHANGED L!lifeVars
<1>1. calls' = calls /\ result' = result
  BY DEF calls, result
<1>2. expired' = expired
  <2>1. callCtx \subseteq Clients
    BY DEF TypeOK
  <2>2. callCtx' \subseteq Clients
    BY TypeStep DEF TypeOK
  <2> QED
    BY <2>1, <2>2 DEF expired, Clients
<1> QED
  BY <1>1, <1>2, CauseStable, Unseen

\* Every step of the machine is one of Lifecycle, or none.
LEMMA StepRefines ==
    ASSUME TypeOK, LoneLoopInv, ErrInv, WakeInv, SimInv, [Next]_vars
    PROVE  [L!Next]_L!lifeVars
<1> USE DEF setVars, callVars, waitVars, oomVars, loopVars, sharedVars
<1>1. CASE state' # state
  BY <1>1, StoreRefines DEF L!Next
<1>2. CASE state' = state
  <2>1. CASE LoopNext
    BY <1>2, <2>1, LoopFrame, LoopOtherCalls, CallerNotLoop, LoopUnseen
  <2>2. CASE \/ OOMNext \/ TailEnds \/ Cancel \/ UNCHANGED vars
             \/ \E g \in Setters : setState(g) \/ closeTriggered(g)
    <3>1. UNCHANGED <<waitPc, waitFor, callPc, callRes, callCtx>>
      BY <2>2
         DEF OOMNext, OOMGetpid, OOMRead, OOMMatch, OOMEnd, OOMGoto, TailEnds, Cancel, vars,
         setState, closeTriggered
    <3> QED
      BY <1>2, <3>1, LoopUnseen
  <2>3. ASSUME NEW w \in Waiters, WaitReturns(w) \/ \E s \in States : Wait(w, s) PROVE L!Next
    BY <2>3, WaitRefines
  <2>4. ASSUME NEW c \in Callers,
               CallSteps(c) \/ CallRPC(c) \/ CtxDone(c) \/ BeginCall(c) \/ EndCall(c)
        PROVE  [L!Next]_L!lifeVars
    BY <2>4, CallRefines
  <2>5. CASE CallSteps("loop") \/ CallRPC("loop") \/ CtxDone("loop")
    <3>1. UNCHANGED <<waitPc, waitFor>>
      BY <2>5, Names, CallFrame
    <3>2. \A c \in Callers : /\ callPc'[c] = callPc[c] /\ callRes'[c] = callRes[c]
                             /\ c \in callCtx' <=> c \in callCtx
      BY <2>5, Names, OtherCalls, CallerNotLoop
    <3> QED
      BY <1>2, <3>1, <3>2, LoopUnseen
  <2> QED
    BY <2>1, <2>2, <2>3, <2>4, <2>5 DEF Next, Clients
<1> QED
  BY <1>1, <1>2

\* A machine without an OOM monitor keeps the promises Lifecycle makes of State,
\* Wait, Err, Call and RetryCall, for any number of callers, waiters and
\* services (but for the fairness in ImplementsLifecycle, which TLC checks).
THEOREM Refines == ~(HasSystem /\ TRUE \in Owners) => (Spec => L!Spec)
<1> SUFFICES ASSUME ~(HasSystem /\ TRUE \in Owners) PROVE Spec => L!Spec
  OBVIOUS
<1> DEFINE NoMonitor == ~(Owner /\ HasSystem)
<1>0. Init => NoMonitor
  BY NoMonitorInit
<1>1. Init => LoneLoopInv
  BY Names DEF Init, LoneLoopInv
<1>2. Init => ErrInv
  BY SMTT(30) DEF Init, ErrInv, Unstarted, Stopped
<1>3. Init => WakeInv /\ SimInv
  BY DEF Init, WakeInv, SimInv
<1>4. Init => L!Init
  <2> SUFFICES ASSUME Init PROVE L!Init
    OBVIOUS
  <2>1. state = 0 /\ cause = "nil" /\ waitPc = [w \in Waiters |-> "idle"]
        /\ waitFor = [w \in Waiters |-> 0]
    BY DEF Init, cause, Unstarted, Stopped, NoErr
  <2>2. calls = [c \in Callers |-> "idle"] /\ result = [c \in Callers |-> "none"]
    BY CallerNotLoop DEF Init, calls, callAt, result
  <2>3. expired = {}
    BY DEF Init, expired
  <2> QED
    BY <2>1, <2>2, <2>3 DEF L!Init, cause, calls, callAt, expired, result
<1>5. TypeOK /\ NoMonitor /\ LoneLoopInv /\ [Next]_vars => LoneLoopInv' /\ NoMonitor'
  BY LoneLoopStep, OwnerStable
<1>6. TypeOK /\ LoneLoopInv /\ WakeInv /\ SimInv /\ [Next]_vars => WakeInv' /\ SimInv'
  BY WakeInvStep, SimInvStep
<1>7. TypeOK /\ LoneLoopInv /\ ErrInv /\ WakeInv /\ SimInv /\ [Next]_vars => [L!Next]_L!lifeVars
  BY StepRefines
<1> QED
  BY <1>0, <1>1, <1>2, <1>3, <1>4, <1>5, <1>6, <1>7, ErrInvStep, TypeCorrect, PTL DEF Spec, L!Spec

=============================================================================
