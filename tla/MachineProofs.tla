--------------------------- MODULE MachineProofs ---------------------------
(* Machine-checked proofs about Machine, for every set of callers, waiters *)
(* and services and for every kind of machine (owned or dialed).           *)
EXTENDS Machine, TLAPS

\* The prover of the leaves that name none.
USE ZenonT(60)

\* The names of Machine are members of the sets it gathers them in.
LEMMA Names ==
    /\ "loop" \in Setters /\ "oom" \in Setters
    /\ Unstarted \in States /\ Starting \in States /\ Running \in States /\ Stopped \in States
    /\ "loop" \in Clients /\ \A c \in Callers : c \in Clients
    /\ \A c \in Clients : c \in Channels
    /\ \A w \in Waiters : w \in Channels
    /\ NoErr \notin Errors
    /\ ErrCanceled \in Errors /\ ErrFormatted \in Errors /\ ErrRPC \in Errors /\ ErrOOM \in Errors
  BY SMTT(30) DEF Setters, States, Unstarted, Starting, Running, Stopped, Clients, Channels, Errors,
         NoErr, ErrCanceled, ErrFormatted, ErrRPC, ErrOOM

-----------------------------------------------------------------------------
(* Type correctness, first of the operators the actions share.             *)

\* Entering setState keeps the types of its locals.
LEMMA BeginSetStateType ==
    ASSUME TypeOK, NEW g \in Setters, NEW s \in States, BeginSetState(g, s)
    PROVE  /\ setPc' \in [Setters -> {"idle", "store", "close"}]
           /\ setTo' \in [Setters -> States]
           /\ triggered' = triggered
  BY DEF BeginSetState, TypeOK

\* A loop that fails keeps the types.
LEMMA LoopFailsType == ASSUME TypeOK, NEW es, es \subseteq Errors, LoopFails(es) PROVE TypeOK'
<1>1. err' \in Errors /\ BeginSetState("loop", Stopped)
  BY DEF LoopFails, setError
<1>2. /\ setPc' \in [Setters -> {"idle", "store", "close"}]
      /\ setTo' \in [Setters -> States]
      /\ triggered' = triggered
  BY <1>1, Names, BeginSetStateType
<1> QED
  BY <1>1, <1>2 DEF LoopFails, TypeOK, callVars, waitVars, oomVars

\* What the RPCs of the loop fail with are errors.
LEMMA LoopErrors == rpcErrors \subseteq Errors /\ errorfErrors \subseteq Errors /\ {ErrCanceled} \subseteq Errors
  BY Names DEF rpcErrors, errorfErrors

\* A jump of the loop keeps the types.
LEMMA LoopGotoType ==
    ASSUME TypeOK,
           NEW pc \in {"exec", "ping", "register", "keepalive", "select", "sleep"},
           LoopGoto(pc)
    PROVE  TypeOK'
  BY DEF LoopGoto, TypeOK, setVars, callVars, waitVars, oomVars, sharedVars

\* Wait registers a channel for a state, or closes it.
LEMMA WaitOnType ==
    ASSUME TypeOK, NEW c \in Channels, NEW s \in States, WaitOn(c, s)
    PROVE  waiters' \subseteq [c : Channels, state : States] /\ closed' \subseteq Channels
<1>1. [c |-> c, state |-> s] \in [c : Channels, state : States]
  OBVIOUS
<1>2. CASE s <= state
  BY <1>2 DEF WaitOn, TypeOK
<1>3. CASE ~(s <= state)
  <2>1. waiters' = waiters \cup {[c |-> c, state |-> s]} /\ closed' = closed \ {c}
    BY <1>3 DEF WaitOn
  <2>2. waiters \subseteq [c : Channels, state : States] /\ closed \subseteq Channels
    BY DEF TypeOK
  <2> QED
    BY <1>1, <2>1, <2>2
<1> QED
  BY <1>2, <1>3

\* TypeOK is preserved by the steps of the loop.
LEMMA LoopType == TypeOK /\ LoopNext => TypeOK'
<1> SUFFICES ASSUME TypeOK, LoopNext PROVE TypeOK'
  OBVIOUS
<1> USE Names, BeginSetStateType, LoopFailsType, LoopErrors, LoopGotoType
        DEF setVars, callVars, waitVars, oomVars, loopVars, sharedVars
<1>1. CASE LoopBegin
  <2>1. BeginSetState("loop", Starting)
    BY <1>1 DEF LoopBegin
  <2> QED
    BY <1>1, <2>1 DEF LoopBegin, TypeOK
<1>2. CASE LoopStarting
  BY <1>2 DEF LoopStarting, TypeOK
<1>3. CASE LoopBootPing \/ LoopExec
  BY <1>3 DEF LoopBootPing, LoopExec
<1>4. CASE LoopPing
  <2>1. CASE BeginSetState("loop", Running) /\ loopPc' = "keepalive"
             /\ UNCHANGED <<sharedVars, toRegister, tail, oomVars, callVars, waitVars>>
    BY <2>1 DEF TypeOK
  <2> QED
    BY <1>4, <2>1 DEF LoopPing
<1>5. CASE LoopRegister
  <2>1. CASE UNCHANGED <<sharedVars, setVars, loopPc, tail, oomVars, callVars, waitVars>>
             /\ \E svc \in toRegister : toRegister' = toRegister \ {svc}
    BY <2>1 DEF TypeOK
  <2> QED
    BY <1>5, <2>1 DEF LoopRegister
<1>6. CASE LoopRun
  <2>1. BeginSetState("loop", Running)
    BY <1>6 DEF LoopRun
  <2> QED
    BY <1>6, <2>1 DEF LoopRun, TypeOK
<1>7. CASE LoopKeepalive
  <2>1. CASE callPc' = [callPc EXCEPT !["loop"] = "switch"] /\ loopPc' = "profile"
             /\ UNCHANGED <<sharedVars, setVars, toRegister, tail, oomVars, retry,
                            callCtx, derived, callRes, waitVars>>
    BY <2>1 DEF TypeOK
  <2> QED
    BY <1>7, <2>1 DEF LoopKeepalive
<1>8. CASE LoopProfileSaved
  BY <1>8 DEF LoopProfileSaved, TypeOK
<1>9. CASE LoopSelect \/ LoopSleep
  BY <1>9 DEF LoopSelect, LoopSleep
<1>10. CASE LoopExit
  BY <1>10 DEF LoopExit, TypeOK
<1> QED
  BY <1>1, <1>2, <1>3, <1>4, <1>5, <1>6, <1>7, <1>8, <1>9, <1>10 DEF LoopNext

\* TypeOK is preserved by the OOM monitor.
LEMMA OOMType == TypeOK /\ OOMNext => TypeOK'
<1> SUFFICES ASSUME TypeOK, OOMNext PROVE TypeOK'
  OBVIOUS
<1> USE DEF setVars, callVars, waitVars, oomVars, loopVars, sharedVars
<1>1. CASE OOMGetpid \/ OOMRead \/ OOMEnd
  BY <1>1 DEF OOMGetpid, OOMRead, OOMEnd, OOMGoto, TypeOK
<1>2. CASE OOMMatch
  <2>1. BeginSetState("oom", Stopped) /\ err' = ErrOOM
    BY <1>2 DEF OOMMatch, setError
  <2>2. oomLeft' \in 0 .. MaxOOM
    <3>1. oomLeft \in 0 .. MaxOOM
      BY DEF TypeOK
    <3>2. oomLeft > 0 /\ oomLeft' = oomLeft - 1
      BY <1>2 DEF OOMMatch
    <3> QED
      BY <3>1, <3>2, MachineAssumption, SMTT(30)
  <2> QED
    BY <1>2, <2>1, <2>2, Names, BeginSetStateType DEF OOMMatch, TypeOK
<1> QED
  BY <1>1, <1>2 DEF OOMNext

\* The channels of a set of waiters are channels.
LEMMA WaiterChannels ==
    ASSUME NEW S \in SUBSET [c : Channels, state : States]
    PROVE  {w.c : w \in S} \subseteq Channels
<1>1. \A w \in S : w.c \in Channels
  OBVIOUS
<1> QED
  BY <1>1

\* TypeOK is preserved by setState and by what it does after unlocking.
LEMMA SetStateType ==
    ASSUME TypeOK, NEW g \in Setters, setState(g) \/ closeTriggered(g)
    PROVE  TypeOK'
<1> USE DEF setVars, callVars, waitVars, oomVars, loopVars, sharedVars
<1>1. CASE setState(g)
  <2> USE <1>1 DEF setState, keptBy, triggeredBy, canceledBy, TypeOK
  <2>1. waiters' \subseteq [c : Channels, state : States]
    OBVIOUS
  <2>2. {w.c : w \in triggeredBy(setTo[g])} \subseteq Channels
    BY WaiterChannels
  <2>3. triggered' \in [Setters -> SUBSET Channels]
    BY <2>2
  <2>4. derived' \in [Clients -> {"none", "live", "canceled"}] /\ cancelers' \subseteq Clients
    OBVIOUS
  <2>5. state' \in States /\ setPc' \in [Setters -> {"idle", "store", "close"}]
    OBVIOUS
  <2> QED
    BY <2>1, <2>3, <2>4, <2>5
<1>2. CASE closeTriggered(g)
  BY <1>2 DEF closeTriggered, TypeOK
<1> QED
  BY <1>1, <1>2

\* TypeOK in two parts: what the steps of a call change, and the rest.
CallTypes ==
    /\ cancelers \subseteq Clients
    /\ callPc \in [Clients -> {"idle", "switch", "wait", "blocked", "context",
                               "rpc", "stopped", "backoff", "done"}]
    /\ retry \subseteq Clients /\ callCtx \subseteq Clients
    /\ derived \in [Clients -> {"none", "live", "canceled"}]
    /\ callRes \in [Clients -> {"none", "ok", "temporary", "fatal", "ctx",
                                "stopped", "stopped without cause"}]

WaiterTypes == waiters \subseteq [c : Channels, state : States] /\ closed \subseteq Channels

RestTypes ==
    /\ state \in States /\ err \in Errors \cup {NoErr} /\ canceled \in BOOLEAN
    /\ setPc \in [Setters -> {"idle", "store", "close"}]
    /\ setTo \in [Setters -> States]
    /\ triggered \in [Setters -> SUBSET Channels]
    /\ loopPc \in {"begin", "starting", "bootping", "exec", "ping", "register",
                   "keepalive", "profile", "select", "sleep", "exit", "done"}
    /\ toRegister \subseteq Services
    /\ tail \in {"nil", "open", "tailing", "closed"}
    /\ oomPc \in {"off", "getpid", "read", "scan", "done"}
    /\ oomLeft \in 0 .. MaxOOM
    /\ waitPc \in [Waiters -> {"idle", "blocked", "released"}]
    /\ waitFor \in [Waiters -> States]

\* The parts make up TypeOK.
LEMMA TypeParts == TypeOK <=> CallTypes /\ WaiterTypes /\ RestTypes
  BY DEF TypeOK, CallTypes, WaiterTypes, RestTypes

\* The steps of a call leave the rest alone, and the waiters but for CallWait.
LEMMA CallRest ==
    ASSUME RestTypes, NEW c,
           CallSteps(c) \/ CallRPC(c) \/ CtxDone(c) \/ BeginCall(c) \/ EndCall(c)
    PROVE  RestTypes' /\ (~CallWait(c) => UNCHANGED <<waiters, closed>>)
<1>1. /\ UNCHANGED <<state, err, canceled, setPc, setTo, triggered, loopPc, toRegister,
                     tail, oomPc, oomLeft, waitPc, waitFor>>
      /\ ~CallWait(c) => UNCHANGED <<waiters, closed>>
  BY DEF CallSteps, CallSwitch, CallWait, CallWoken, context, CallBlockedCtxDone,
     CallRPCCanceled, CallStopped, RetryWait, CallReturns, CallRPC, CtxDone, BeginCall, EndCall,
     setVars, callVars, waitVars, oomVars, loopVars, sharedVars
<1> QED
  BY <1>1, SMTT(30) DEF RestTypes

\* TypeOK is preserved by every step of a call.
LEMMA CallType ==
    ASSUME TypeOK, NEW c \in Clients,
           CallSteps(c) \/ CallRPC(c) \/ CtxDone(c) \/ BeginCall(c) \/ EndCall(c)
    PROVE  TypeOK'
<1> USE DEF callVars, sharedVars
<1>0. CallTypes /\ WaiterTypes /\ RestTypes
  BY TypeParts
<1>1. RestTypes' /\ (~CallWait(c) => UNCHANGED <<waiters, closed>>)
  BY <1>0, CallRest
<1>2. CASE CallWait(c)
  <2>1. WaiterTypes'
    BY <1>2, Names, WaitOnType DEF CallWait, WaiterTypes
  <2>2. CallTypes'
    BY <1>0, <1>2 DEF CallWait, CallTypes
  <2> QED
    BY <1>1, <2>1, <2>2 DEF TypeOK, CallTypes, WaiterTypes, RestTypes
<1>3. ASSUME ~CallWait(c), CallTypes' PROVE TypeOK'
  <2>1. WaiterTypes'
    BY <1>0, <1>1, <1>3 DEF WaiterTypes
  <2> QED
    BY <1>1, <1>3, <2>1 DEF TypeOK, CallTypes, WaiterTypes, RestTypes
<1>4. CASE CallSwitch(c) \/ CallWoken(c)
  <2>1. CallTypes'
    BY <1>0, <1>4 DEF CallSwitch, CallWoken, CallTypes
  <2> QED
    BY <1>2, <1>3, <2>1
<1>5. CASE context(c)
  <2>1. cancelers' \subseteq Clients
    BY <1>0, <1>5 DEF context, CallTypes
  <2>2. derived' \in [Clients -> {"none", "live", "canceled"}]
    BY <1>0, <1>5 DEF context, CallTypes
  <2>3. CallTypes'
    BY <1>0, <1>5, <2>1, <2>2 DEF context, CallTypes
  <2> QED
    BY <1>2, <1>3, <2>3
<1>6. ASSUME NEW res \in {"ok", "temporary", "fatal", "ctx", "stopped", "stopped without cause"},
             CallReturns(c, res)
      PROVE  CallTypes'
  BY <1>0, <1>6 DEF CallReturns, CallTypes
<1>7. CASE CallBlockedCtxDone(c) \/ CallStopped(c) \/ CallRPC(c)
  BY <1>2, <1>3, <1>6, <1>7 DEF CallBlockedCtxDone, CallStopped, CallRPC
<1>8. CASE CallRPCCanceled(c)
  <2>1. CASE state # Stopped
    BY <1>2, <1>3, <1>6, <1>8, <2>1 DEF CallRPCCanceled
  <2>2. CASE state = Stopped
    <3>1. CallTypes'
      BY <1>0, <1>8, <2>2 DEF CallRPCCanceled, CallTypes
    <3> QED
      BY <1>2, <1>3, <3>1
  <2> QED
    BY <2>1, <2>2
<1>9. CASE RetryWait(c)
  <2>1. CASE c \in callCtx
    BY <1>0, <1>2, <1>3, <1>9, <2>1 DEF RetryWait, CallTypes
  <2>2. CASE c \notin callCtx
    BY <1>0, <1>2, <1>3, <1>9, <2>2 DEF RetryWait, CallTypes
  <2> QED
    BY <2>1, <2>2
<1>10. CASE CtxDone(c)
  BY <1>0, <1>2, <1>3, <1>10 DEF CtxDone, CallTypes
<1>11. CASE BeginCall(c)
  BY <1>0, <1>2, <1>3, <1>11 DEF BeginCall, CallTypes
<1>12. CASE EndCall(c)
  BY <1>0, <1>2, <1>3, <1>12 DEF EndCall, CallTypes
<1> QED
  BY <1>2, <1>4, <1>5, <1>7, <1>8, <1>9, <1>10, <1>11, <1>12 DEF CallSteps

\* TypeOK is preserved by the goroutines that wait for a state.
LEMMA WaitType ==
    ASSUME TypeOK, NEW w \in Waiters, WaitReturns(w) \/ \E s \in States : Wait(w, s)
    PROVE  TypeOK'
<1> USE DEF setVars, callVars, waitVars, oomVars, loopVars, sharedVars
<1>1. CASE WaitReturns(w)
  BY <1>1 DEF WaitReturns, TypeOK
<1>2. ASSUME NEW s \in States, Wait(w, s) PROVE TypeOK'
  <2>1. waiters' \subseteq [c : Channels, state : States] /\ closed' \subseteq Channels
    BY <1>2, Names, WaitOnType DEF Wait
  <2> QED
    BY <1>2, <2>1 DEF Wait, TypeOK
<1> QED
  BY <1>1, <1>2

\* TypeOK is preserved by every step.
LEMMA TypeStep == TypeOK /\ [Next]_vars => TypeOK'
<1> SUFFICES ASSUME TypeOK, [Next]_vars PROVE TypeOK'
  OBVIOUS
<1> USE DEF setVars, callVars, waitVars, oomVars, loopVars, sharedVars
<1>1. CASE TailEnds
  BY <1>1 DEF TailEnds, TypeOK
<1>2. CASE Cancel
  BY <1>2 DEF Cancel, TypeOK
<1>3. CASE UNCHANGED vars
  BY <1>3 DEF vars, TypeOK
<1> QED
  BY <1>1, <1>2, <1>3, LoopType, OOMType, SetStateType, CallType, WaitType, Names DEF Next

\* Every variable of a machine keeps its type, in every reachable state.
THEOREM TypeCorrect == Spec => []TypeOK
<1>1. Init => TypeOK
  <2> SUFFICES ASSUME Init PROVE TypeOK
    OBVIOUS
  <2>1. oomLeft \in 0 .. MaxOOM
    BY MachineAssumption, SMTT(30) DEF Init
  <2>2. waiters \subseteq [c : Channels, state : States]
    BY DEF Init
  <2> QED
    BY <2>1, <2>2, Names DEF Init, TypeOK
<1> QED
  BY <1>1, TypeStep, PTL DEF Spec

-----------------------------------------------------------------------------
(* Safety.  Each property is proved from an inductive strengthening of it, *)
(* with TypeOK already known to hold.                                      *)

\* Stopped is the last state.
LEMMA StateOrder == \A s \in States : s \in Nat /\ (s >= Stopped <=> s = Stopped)
  BY SMTT(30) DEF States, Unstarted, Stopped

\* What the loop and the monitor leave alone outside setState.
LEMMA LoopFrame ==
    ASSUME LoopNext
    PROVE  UNCHANGED <<state, waiters, closed, cancelers, triggered, waitPc, waitFor>>
  BY DEF LoopNext, LoopBegin, LoopStarting, LoopBootPing, LoopExec, LoopPing, LoopRegister,
         LoopRun, LoopKeepalive, LoopProfileSaved, LoopSelect, LoopSleep, LoopExit,
         LoopGoto, LoopFails, setError, BeginSetState, setVars, waitVars, sharedVars

\* The monitor touches no waiter, no channel and no call.
LEMMA OOMFrame ==
    ASSUME OOMNext
    PROVE  UNCHANGED <<state, waiters, closed, cancelers, triggered, waitPc, waitFor,
                       callPc, derived, callRes>>
  BY DEF OOMNext, OOMGetpid, OOMRead, OOMMatch, OOMEnd, OOMGoto, setError, BeginSetState,
         setVars, waitVars, sharedVars, callVars

\* The loop's own call is not in its RPC when the loop begins or ends it.
LEMMA LoopCallFrame ==
    ASSUME TypeOK, LoopNext, NEW c \in Clients
    PROVE  \/ callPc'[c] = callPc[c] /\ derived'[c] = derived[c] /\ callRes'[c] = callRes[c]
           \/ callPc'[c] \in {"switch", "idle"} /\ callRes'[c] \in {callRes[c], "none"}
<1>1. CASE LoopKeepalive
  BY <1>1 DEF LoopKeepalive, LoopGoto, LoopFails, TypeOK, callVars
<1>2. CASE LoopProfileSaved
  BY <1>2 DEF LoopProfileSaved, TypeOK
<1>3. CASE ~LoopKeepalive /\ ~LoopProfileSaved
  BY <1>3 DEF LoopNext, LoopBegin, LoopStarting, LoopBootPing, LoopExec, LoopPing,
     LoopRegister, LoopRun, LoopSelect, LoopSleep, LoopExit, LoopGoto, LoopFails, callVars
<1> QED
  BY <1>1, <1>2, <1>3

\* A stopped machine has no cancelers left, and the context of an RPC in
\* flight is canceled or can still be.
CallInv ==
    /\ state = Stopped => cancelers = {}
    /\ \A c \in Clients :
          callPc[c] = "rpc" => derived[c] = "canceled" \/ c \in cancelers

\* CallInv is inductive.
LEMMA CallInvStep == TypeOK /\ CallInv /\ [Next]_vars => CallInv'
<1> SUFFICES ASSUME TypeOK, CallInv, [Next]_vars PROVE CallInv'
  OBVIOUS
<1> USE DEF setVars, callVars, waitVars, oomVars, loopVars, sharedVars
<1>1. CASE LoopNext
  BY <1>1, LoopFrame, LoopCallFrame DEF CallInv
<1>2. CASE OOMNext
  BY <1>2, OOMFrame DEF CallInv
<1>3. CASE TailEnds \/ Cancel \/ UNCHANGED vars
  BY <1>3 DEF TailEnds, Cancel, vars, CallInv
<1>4. ASSUME NEW g \in Setters, setState(g) PROVE CallInv'
  <2>1. CASE setTo[g] = Stopped
    <3>1. canceledBy(setTo[g]) = cancelers
      BY <2>1, SMTT(30) DEF canceledBy, Stopped
    <3>2. cancelers' = {} /\ callPc' = callPc
      BY <1>4, <3>1 DEF setState
    <3>3. \A c \in Clients : derived'[c] = IF c \in cancelers THEN "canceled" ELSE derived[c]
      BY <1>4, <3>1 DEF setState
    <3> QED
      BY <3>2, <3>3 DEF CallInv
  <2>2. CASE setTo[g] # Stopped
    <3>1. setTo[g] \in States
      BY DEF TypeOK
    <3>2. canceledBy(setTo[g]) = {}
      BY <2>2, <3>1, StateOrder DEF canceledBy
    <3>3. state' # Stopped
      BY <1>4, <2>2 DEF setState
    <3> QED
      BY <1>4, <3>2, <3>3 DEF setState, CallInv, TypeOK
  <2> QED
    BY <2>1, <2>2
<1>5. ASSUME NEW g \in Setters, closeTriggered(g) PROVE CallInv'
  BY <1>5 DEF closeTriggered, CallInv
<1>6. ASSUME NEW w \in Waiters, WaitReturns(w) \/ \E s \in States : Wait(w, s) PROVE CallInv'
  BY <1>6 DEF WaitReturns, Wait, CallInv
<1>7. ASSUME NEW c \in Clients, context(c) PROVE CallInv'
  <2>1. state >= Stopped <=> state = Stopped
    BY StateOrder DEF TypeOK
  <2>2. state' = state /\ cancelers \subseteq cancelers' /\ (state = Stopped => cancelers' = cancelers)
    BY <1>7, <2>1 DEF context
  <2>3. derived'[c] = "canceled" \/ c \in cancelers'
    BY <1>7, <2>1 DEF context, TypeOK
  <2>4. \A d \in Clients \ {c} : callPc'[d] = callPc[d] /\ derived'[d] = derived[d]
    BY <1>7 DEF context, TypeOK
  <2> QED
    BY <2>2, <2>3, <2>4 DEF CallInv
<1>8. ASSUME NEW c \in Clients, NEW res, CallReturns(c, res) PROVE CallInv'
  <2>1. callPc'[c] # "rpc" /\ \A d \in Clients \ {c} : callPc'[d] = callPc[d]
    BY <1>8 DEF CallReturns, TypeOK
  <2> QED
    BY <1>8, <2>1 DEF CallReturns, CallInv
<1>9. ASSUME NEW c \in Clients, CallSwitch(c) \/ CallWait(c) \/ CallWoken(c) \/ RetryWait(c)
      PROVE  CallInv'
  <2>1. callPc'[c] # "rpc" /\ \A d \in Clients \ {c} : callPc'[d] = callPc[d]
    BY <1>9 DEF CallSwitch, CallWait, CallWoken, RetryWait, TypeOK
  <2>2. UNCHANGED <<state, cancelers, derived>>
    BY <1>9 DEF CallSwitch, CallWait, CallWoken, RetryWait
  <2> QED
    BY <2>1, <2>2 DEF CallInv
<1>10. ASSUME NEW c \in Clients, CallRPCCanceled(c) PROVE CallInv'
  <2>1. CASE state # Stopped
    BY <1>8, <1>10, <2>1 DEF CallRPCCanceled
  <2>2. CASE state = Stopped
    BY <1>10, <2>2 DEF CallRPCCanceled, CallInv, TypeOK
  <2> QED
    BY <2>1, <2>2
<1>11. ASSUME NEW c \in Clients, CallBlockedCtxDone(c) \/ CallStopped(c) \/ CallRPC(c)
       PROVE  CallInv'
  BY <1>8, <1>11 DEF CallBlockedCtxDone, CallStopped, CallRPC
<1>12. ASSUME NEW c \in Clients, CtxDone(c) PROVE CallInv'
  BY <1>12 DEF CtxDone, CallInv, TypeOK
<1>13. ASSUME NEW c \in Clients, BeginCall(c) \/ EndCall(c) PROVE CallInv'
  BY <1>13 DEF BeginCall, EndCall, CallInv, TypeOK
<1> QED
  BY <1>1, <1>2, <1>3, <1>4, <1>5, <1>6, <1>7, <1>9, <1>10, <1>11, <1>12, <1>13, Names
     DEF Next, CallSteps

\* Whatever the callers, the waiters and the kind of machine: once it has
\* stopped, every RPC of a Call in progress has had its context canceled.
THEOREM StopCancelsCalls == Spec => []StoppedCancelsCalls
<1>1. Init => CallInv
  BY DEF Init, CallInv, Unstarted, Stopped
<1>2. CallInv => StoppedCancelsCalls
  BY DEF CallInv, StoppedCancelsCalls
<1> QED
  BY <1>1, <1>2, CallInvStep, TypeCorrect, PTL DEF Spec

\* m.err is set before any setState(Stopped) is entered, and never unset.
ErrInv ==
    /\ state = Stopped => err # NoErr
    /\ \A g \in Setters : setPc[g] = "store" /\ setTo[g] = Stopped => err # NoErr
    /\ \A c \in Clients : callPc[c] = "stopped" => err # NoErr
    /\ \A c \in Clients : callRes[c] # "stopped without cause"

\* What the loop does to m.err and to its own setState.
LEMMA LoopErrFrame ==
    ASSUME TypeOK, LoopNext
    PROVE  \/ err' \in Errors
           \/ err' = err /\ UNCHANGED setVars
           \/ err' = err /\ \E s \in {Starting, Running} : BeginSetState("loop", s)
<1>1. \A es : es \subseteq Errors /\ LoopFails(es) => err' \in Errors
  BY DEF LoopFails, setError
<1> QED
  BY <1>1, LoopErrors
     DEF LoopNext, LoopBegin, LoopStarting, LoopBootPing, LoopExec, LoopPing, LoopRegister,
         LoopRun, LoopKeepalive, LoopProfileSaved, LoopSelect, LoopSleep, LoopExit,
         LoopGoto, sharedVars

\* ErrInv is inductive.
LEMMA ErrInvStep == TypeOK /\ ErrInv /\ [Next]_vars => ErrInv'
<1> SUFFICES ASSUME TypeOK, ErrInv, [Next]_vars PROVE ErrInv'
  OBVIOUS
<1> USE DEF setVars, callVars, waitVars, oomVars, loopVars, sharedVars
<1>1. CASE LoopNext
  <2>1. /\ \A c \in Clients : callRes'[c] # "stopped without cause"
        /\ \A c \in Clients : callPc'[c] = "stopped" => callPc[c] = "stopped"
    BY <1>1, LoopCallFrame DEF ErrInv
  <2>2. CASE err' \in Errors
    BY <2>1, <2>2, Names DEF ErrInv
  <2>3. CASE err' = err /\ UNCHANGED setVars
    BY <1>1, <2>1, <2>3, LoopFrame DEF ErrInv
  <2>4. ASSUME err' = err, NEW s \in {Starting, Running}, BeginSetState("loop", s) PROVE ErrInv'
    <3>1. \A g \in Setters : setPc'[g] = "store" /\ setTo'[g] = Stopped
                               => setPc[g] = "store" /\ setTo[g] = Stopped
      <4>1. s # Stopped
        BY <2>4, SMTT(30) DEF Starting, Running, Stopped
      <4>2. /\ setPc' = [setPc EXCEPT !["loop"] = "store"]
            /\ setTo' = [setTo EXCEPT !["loop"] = s]
            /\ setPc \in [Setters -> {"idle", "store", "close"}] /\ setTo \in [Setters -> States]
        BY <2>4 DEF BeginSetState, TypeOK
      <4> QED
        BY <4>1, <4>2
    <3> QED
      BY <1>1, <2>1, <2>4, <3>1, LoopFrame DEF ErrInv
  <2> QED
    BY <1>1, <2>2, <2>3, <2>4, LoopErrFrame
<1>2. CASE OOMNext
  <2>1. err' \in Errors \/ (err' = err /\ UNCHANGED setVars)
    BY <1>2, Names DEF OOMNext, OOMGetpid, OOMRead, OOMMatch, OOMEnd, OOMGoto, setError
  <2> QED
    BY <1>2, <2>1, OOMFrame, Names DEF ErrInv
<1>3. CASE TailEnds \/ Cancel \/ UNCHANGED vars
  BY <1>3 DEF TailEnds, Cancel, vars, ErrInv
<1>4. ASSUME NEW g \in Setters, setState(g) PROVE ErrInv'
  <2>1. state' = setTo[g] /\ setPc[g] = "store" /\ UNCHANGED <<err, setTo, callPc, callRes>>
    BY <1>4 DEF setState
  <2>2. \A h \in Setters : setPc'[h] = "store" => setPc[h] = "store"
    BY <1>4 DEF setState, TypeOK
  <2> QED
    BY <2>1, <2>2 DEF ErrInv
<1>5. ASSUME NEW g \in Setters, closeTriggered(g) PROVE ErrInv'
  <2>1. \A h \in Setters : setPc'[h] = "store" => setPc[h] = "store"
    BY <1>5 DEF closeTriggered, TypeOK
  <2> QED
    BY <1>5, <2>1 DEF closeTriggered, ErrInv
<1>6. ASSUME NEW w \in Waiters, WaitReturns(w) \/ \E s \in States : Wait(w, s) PROVE ErrInv'
  BY <1>6 DEF WaitReturns, Wait, ErrInv
<1>7. ASSUME NEW c \in Clients,
             CallSteps(c) \/ CallRPC(c) \/ CtxDone(c) \/ BeginCall(c) \/ EndCall(c)
      PROVE  ErrInv'
  <2>1. UNCHANGED <<state, err, setPc, setTo>>
    BY <1>7 DEF CallSteps, CallSwitch, CallWait, CallWoken, context, CallBlockedCtxDone,
       CallRPCCanceled, CallStopped, RetryWait, CallReturns, CallRPC, CtxDone, BeginCall, EndCall
  <2>2. \A d \in Clients \ {c} : callPc'[d] = callPc[d] /\ callRes'[d] = callRes[d]
    BY <1>7 DEF CallSteps, CallSwitch, CallWait, CallWoken, context, CallBlockedCtxDone,
       CallRPCCanceled, CallStopped, RetryWait, CallReturns, CallRPC, CtxDone, BeginCall,
       EndCall, TypeOK
  <2>3. callPc'[c] = "stopped" => state = Stopped \/ callPc[c] = "stopped"
    BY <1>7 DEF CallSteps, CallSwitch, CallWait, CallWoken, context, CallBlockedCtxDone,
       CallRPCCanceled, CallStopped, RetryWait, CallReturns, CallRPC, CtxDone, BeginCall,
       EndCall, TypeOK
  <2>4. callRes'[c] # "stopped without cause"
    <3>1. callRes[c] # "stopped without cause"
      BY DEF ErrInv
    <3>2. ASSUME NEW res, CallReturns(c, res), res # "stopped without cause"
          PROVE  callRes'[c] # "stopped without cause"
      <4>1. callRes' = callRes \/ callRes' = [callRes EXCEPT ![c] = res]
        BY <3>2 DEF CallReturns
      <4> QED
        BY <3>1, <3>2, <4>1 DEF TypeOK
    <3>3. CASE CallBlockedCtxDone(c) \/ CallRPC(c)
      BY <3>2, <3>3 DEF CallBlockedCtxDone, CallRPC
    <3>4. CASE CallStopped(c)
      <4>1. err # NoErr
        BY <3>4 DEF CallStopped, ErrInv
      <4> QED
        BY <3>2, <3>4, <4>1 DEF CallStopped
    <3>5. CASE CallRPCCanceled(c)
      <4>1. CallReturns(c, "ctx") \/ UNCHANGED callRes
        BY <3>5 DEF CallRPCCanceled
      <4> QED
        BY <3>1, <3>2, <4>1
    <3>6. CASE CallSwitch(c) \/ CallWait(c) \/ CallWoken(c) \/ context(c) \/ RetryWait(c)
               \/ CtxDone(c) \/ BeginCall(c) \/ EndCall(c)
      <4>1. \/ UNCHANGED callRes
            \/ callRes' = [callRes EXCEPT ![c] = "fatal"]
            \/ callRes' = [callRes EXCEPT ![c] = "none"]
        BY <3>6 DEF CallSwitch, CallWait, CallWoken, context, RetryWait, CtxDone, BeginCall,
           EndCall
      <4> QED
        BY <3>1, <4>1 DEF TypeOK
    <3> QED
      BY <1>7, <3>3, <3>4, <3>5, <3>6 DEF CallSteps
  <2> QED
    BY <2>1, <2>2, <2>3, <2>4 DEF ErrInv
<1> QED
  BY <1>1, <1>2, <1>3, <1>4, <1>5, <1>6, <1>7, Names DEF Next

\* A machine is never Stopped without an error, however setError's two
\* critical sections interleave, and no call reports a stop without a cause.
THEOREM StopHasErr == Spec => []StoppedHasErr
<1>1. Init => ErrInv
  BY SMTT(30) DEF Init, ErrInv, Unstarted, Stopped
<1>2. ErrInv => StoppedHasErr
  BY DEF ErrInv, StoppedHasErr
<1> QED
  BY <1>1, <1>2, ErrInvStep, TypeCorrect, PTL DEF Spec

\* setState empties the list it collects, and a waiter that is blocked has
\* its channel closed, about to be closed, or registered for its state.
WaitInv ==
    /\ \A x \in waiters : x.state > state
    /\ \A g \in Setters : setPc[g] = "store" => triggered[g] = {}
    /\ \A g \in Setters : setPc[g] = "idle" => triggered[g] = {}
    /\ \A w \in Waiters : waitPc[w] = "blocked" =>
          \/ w \in closed
          \/ \E g \in Setters : w \in triggered[g]
          \/ [c |-> w, state |-> waitFor[w]] \in waiters

\* Outside setState a setter is idle when it enters it.
LEMMA EnterFrame ==
    ASSUME TypeOK, LoopNext \/ OOMNext, NEW g \in Setters
    PROVE  setPc'[g] = setPc[g] \/ setPc[g] = "idle"
<1>1. CASE LoopNext
  <2>1. setPc["loop"] = "idle" /\ setPc' \in {setPc, [setPc EXCEPT !["loop"] = "store"]}
    BY <1>1 DEF LoopNext, LoopBegin, LoopStarting, LoopBootPing, LoopExec, LoopPing,
       LoopRegister, LoopRun, LoopKeepalive, LoopProfileSaved, LoopSelect, LoopSleep, LoopExit,
       LoopGoto, LoopFails, LoopAt, setError, BeginSetState, setVars
  <2> QED
    BY <2>1 DEF TypeOK
<1>2. CASE OOMNext
  <2>1. setPc["oom"] = "idle" /\ setPc' \in {setPc, [setPc EXCEPT !["oom"] = "store"]}
    BY <1>2 DEF OOMNext, OOMGetpid, OOMRead, OOMMatch, OOMEnd, OOMAt, OOMGoto, setError,
       BeginSetState, setVars
  <2> QED
    BY <2>1 DEF TypeOK
<1> QED
  BY <1>1, <1>2

\* Waiting on one channel leaves the others where they are.
LEMMA WaitOnFrame ==
    ASSUME TypeOK, WaitInv, NEW c, NEW s \in States, WaitOn(c, s)
    PROVE  /\ \A x \in waiters' : x.state > state
           /\ waiters \subseteq waiters' /\ closed \ {c} \subseteq closed'
           /\ c \in closed' \/ [c |-> c, state |-> s] \in waiters'
<1>1. state \in Nat /\ s \in Nat
  BY StateOrder DEF TypeOK
<1>2. CASE s <= state
  BY <1>2 DEF WaitOn, WaitInv
<1>3. CASE ~(s <= state)
  <2>1. waiters' = waiters \cup {[c |-> c, state |-> s]} /\ closed' = closed \ {c}
    BY <1>3 DEF WaitOn
  <2>2. [c |-> c, state |-> s].state > state
    BY <1>1, <1>3, SMTT(30)
  <2> QED
    BY <2>1, <2>2 DEF WaitInv
<1> QED
  BY <1>2, <1>3

\* WaitInv is inductive.
LEMMA WaitInvStep == TypeOK /\ WaitInv /\ [Next]_vars => WaitInv'
<1> SUFFICES ASSUME TypeOK, WaitInv, [Next]_vars PROVE WaitInv'
  OBVIOUS
<1> USE DEF setVars, callVars, waitVars, oomVars, loopVars, sharedVars
<1>1. CASE LoopNext \/ OOMNext
  BY <1>1, EnterFrame, LoopFrame, OOMFrame DEF WaitInv, TypeOK
<1>2. CASE TailEnds \/ Cancel \/ UNCHANGED vars
  BY <1>2 DEF TailEnds, Cancel, vars, WaitInv
<1>3. ASSUME NEW g \in Setters, setState(g) PROVE WaitInv'
  <2> DEFINE s == setTo[g]
  <2>1. /\ waiters' = keptBy(s) /\ state' = s /\ setPc[g] = "store"
        /\ UNCHANGED <<closed, waitPc, waitFor>>
    BY <1>3 DEF setState
  <2>2. /\ triggered'[g] = {x.c : x \in triggeredBy(s)} /\ setPc'[g] = "close"
        /\ \A h \in Setters \ {g} : triggered'[h] = triggered[h] /\ setPc'[h] = setPc[h]
    BY <1>3 DEF setState, TypeOK
  <2>3. \A x \in waiters' : x.state > state'
    <3>1. \A x \in waiters : x.state \in Nat
      BY StateOrder DEF TypeOK
    <3>2. s \in Nat
      BY StateOrder DEF TypeOK
    <3> QED
      BY <2>1, <3>1, <3>2, SMTT(30) DEF keptBy, triggeredBy
  <2>4. ASSUME NEW w \in Waiters, waitPc'[w] = "blocked"
        PROVE  \/ w \in closed'
               \/ \E h \in Setters : w \in triggered'[h]
               \/ [c |-> w, state |-> waitFor'[w]] \in waiters'
    <3> DEFINE x == [c |-> w, state |-> waitFor[w]]
    <3>1. CASE x \in waiters
      <4>1. x \in keptBy(s) \/ x \in triggeredBy(s)
        BY <3>1 DEF keptBy
      <4>2. x \in triggeredBy(s) => x.c \in triggered'[g]
        BY <2>2
      <4> QED
        BY <2>1, <4>1, <4>2
    <3>2. CASE x \notin waiters
      BY <2>1, <2>2, <2>4, <3>2 DEF WaitInv
    <3> QED
      BY <3>1, <3>2
  <2> QED
    BY <2>1, <2>2, <2>3, <2>4 DEF WaitInv
<1>4. ASSUME NEW g \in Setters, closeTriggered(g) PROVE WaitInv'
  <2>1. /\ closed' = closed \cup triggered[g] /\ triggered'[g] = {} /\ setPc'[g] = "idle"
        /\ \A h \in Setters \ {g} : triggered'[h] = triggered[h] /\ setPc'[h] = setPc[h]
        /\ UNCHANGED <<state, waiters, waitPc, waitFor>>
    BY <1>4 DEF closeTriggered, TypeOK
  <2> QED
    BY <2>1 DEF WaitInv
<1>5. ASSUME NEW w \in Waiters, NEW s \in States, Wait(w, s) PROVE WaitInv'
  <2>1. /\ WaitOn(w, s) /\ UNCHANGED <<state, setPc, triggered>> /\ waitFor'[w] = s
        /\ \A v \in Waiters \ {w} : waitPc'[v] = waitPc[v] /\ waitFor'[v] = waitFor[v]
    BY <1>5 DEF Wait, TypeOK
  <2> QED
    BY <2>1, WaitOnFrame DEF WaitInv
<1>6. ASSUME NEW w \in Waiters, WaitReturns(w) PROVE WaitInv'
  BY <1>6 DEF WaitReturns, WaitInv, TypeOK
<1>7. ASSUME NEW c \in Clients, CallWait(c) PROVE WaitInv'
  <2>1. WaitOn(c, Running) /\ UNCHANGED <<state, setPc, triggered, waitPc, waitFor>>
    BY <1>7 DEF CallWait
  <2>2. \A w \in Waiters : w # c
    BY MachineAssumption DEF Clients
  <2> QED
    BY <2>1, <2>2, WaitOnFrame, Names DEF WaitInv
<1>8. ASSUME NEW c \in Clients,
             \/ CallSteps(c) /\ ~CallWait(c)
             \/ CallRPC(c) \/ CtxDone(c) \/ BeginCall(c) \/ EndCall(c)
      PROVE  WaitInv'
  <2>1. UNCHANGED <<state, waiters, closed, setPc, triggered, waitPc, waitFor>>
    BY <1>8 DEF CallSteps, CallSwitch, CallWoken, context, CallBlockedCtxDone,
       CallRPCCanceled, CallStopped, RetryWait, CallReturns, CallRPC, CtxDone, BeginCall, EndCall
  <2> QED
    BY <2>1 DEF WaitInv
<1> QED
  BY <1>1, <1>2, <1>3, <1>4, <1>5, <1>6, <1>7, <1>8, Names DEF Next

\* No wakeup is lost, for any number of waiters and callers: a registered
\* channel is for a later state, a blocked waiter's is closed or about to be.
THEOREM WakeupsKept == Spec => []NoLostWakeup
<1>1. Init => WaitInv
  BY DEF Init, WaitInv
<1>2. TypeOK /\ WaitInv => NoLostWakeup
  <2> SUFFICES ASSUME TypeOK, WaitInv PROVE NoLostWakeup
    OBVIOUS
  <2>1. ASSUME NEW w \in Waiters, waitPc[w] = "blocked", waitFor[w] <= state
        PROVE  [c |-> w, state |-> waitFor[w]] \notin waiters
    <3>1. state \in Nat /\ waitFor[w] \in Nat
      BY StateOrder DEF TypeOK
    <3>2. ~([c |-> w, state |-> waitFor[w]].state > state)
      BY <2>1, <3>1, SMTT(30)
    <3> QED
      BY <3>2 DEF WaitInv
  <2> QED
    BY <2>1 DEF WaitInv, NoLostWakeup, Setters
<1> QED
  BY <1>1, <1>2, WaitInvStep, TypeCorrect, PTL DEF Spec

\* A channel of Wait is in one place only: with a goroutine that has yet to call
\* Wait it is nowhere, then it is registered, at most once, or collected by one
\* setter, or closed.
CloseInv ==
    \A w \in Waiters :
        /\ waitPc[w] = "idle" =>
              /\ w \notin closed /\ \A x \in waiters : x.c # w
              /\ \A g \in Setters : w \notin triggered[g]
        /\ \A x, y \in waiters : x.c = w /\ y.c = w => x = y
        /\ \A x \in waiters : x.c = w =>
              w \notin closed /\ \A g \in Setters : w \notin triggered[g]
        /\ \A g \in Setters : w \in triggered[g] =>
              w \notin closed /\ \A h \in Setters \ {g} : w \notin triggered[h]

\* CloseInv is inductive.
LEMMA CloseInvStep == TypeOK /\ CloseInv /\ [Next]_vars => CloseInv'
<1> SUFFICES ASSUME TypeOK, CloseInv, [Next]_vars PROVE CloseInv'
  OBVIOUS
<1> USE DEF setVars, callVars, waitVars, oomVars, loopVars, sharedVars
<1>1. CASE LoopNext \/ OOMNext
  BY <1>1, LoopFrame, OOMFrame DEF CloseInv
<1>2. CASE TailEnds \/ Cancel \/ UNCHANGED vars
  BY <1>2 DEF TailEnds, Cancel, vars, CloseInv
<1>3. ASSUME NEW g \in Setters, setState(g) PROVE CloseInv'
  <2> DEFINE s == setTo[g]
  <2>1. waiters' = waiters \ triggeredBy(s) /\ UNCHANGED <<closed, waitPc>>
    BY <1>3 DEF setState, keptBy
  <2>2. /\ triggered'[g] = {x.c : x \in triggeredBy(s)}
        /\ \A h \in Setters \ {g} : triggered'[h] = triggered[h]
    BY <1>3 DEF setState, TypeOK
  <2>3. \A w \in triggered'[g] : \E x \in waiters \ waiters' : x.c = w
    BY <2>1, <2>2 DEF triggeredBy
  <2> HIDE DEF s
  <2> SUFFICES ASSUME NEW w \in Waiters
               PROVE  /\ waitPc[w] = "idle" =>
                            /\ w \notin closed /\ \A x \in waiters' : x.c # w
                            /\ \A h \in Setters : w \notin triggered'[h]
                      /\ \A x, y \in waiters' : x.c = w /\ y.c = w => x = y
                      /\ \A x \in waiters' : x.c = w =>
                            w \notin closed /\ \A h \in Setters : w \notin triggered'[h]
                      /\ \A h \in Setters : w \in triggered'[h] =>
                            w \notin closed /\ \A k \in Setters \ {h} : w \notin triggered'[k]
    BY <2>1 DEF CloseInv
  <2>4. waiters' \subseteq waiters
    BY <2>1
  <2>5. CASE w \in triggered'[g]
    <3>1. PICK x \in waiters \ waiters' : x.c = w
      BY <2>3, <2>5
    <3> QED
      BY <2>2, <2>4, <3>1 DEF CloseInv
  <2>6. CASE w \notin triggered'[g]
    BY <2>2, <2>4, <2>6 DEF CloseInv
  <2> QED
    BY <2>5, <2>6
<1>4. ASSUME NEW g \in Setters, closeTriggered(g) PROVE CloseInv'
  <2>1. /\ closed' = closed \cup triggered[g] /\ triggered'[g] = {}
        /\ \A h \in Setters \ {g} : triggered'[h] = triggered[h]
        /\ UNCHANGED <<waiters, waitPc>>
    BY <1>4 DEF closeTriggered, TypeOK
  <2> QED
    BY <2>1 DEF CloseInv
<1>5. ASSUME NEW w \in Waiters, NEW s \in States, Wait(w, s) PROVE CloseInv'
  <2>1. /\ waitPc[w] = "idle" /\ waitPc'[w] = "blocked" /\ triggered' = triggered
        /\ \A v \in Waiters \ {w} : waitPc'[v] = waitPc[v]
    BY <1>5 DEF Wait, TypeOK
  <2>2. /\ w \notin closed /\ \A x \in waiters : x.c # w
        /\ \A g \in Setters : w \notin triggered[g]
    BY <2>1 DEF CloseInv
  <2>3. CASE s <= state
    <3>1. closed' = closed \cup {w} /\ waiters' = waiters
      BY <1>5, <2>3 DEF Wait, WaitOn
    <3> QED
      BY <2>1, <2>2, <3>1 DEF CloseInv
  <2>4. CASE ~(s <= state)
    <3> DEFINE x == [c |-> w, state |-> s]
    <3>1. closed' = closed \ {w} /\ waiters' = waiters \cup {x} /\ x.c = w
      BY <1>5, <2>4 DEF Wait, WaitOn
    <3> HIDE DEF x
    <3> QED
      BY <2>1, <2>2, <3>1, SMTT(30) DEF CloseInv
  <2> QED
    BY <2>3, <2>4
<1>6. ASSUME NEW w \in Waiters, WaitReturns(w) PROVE CloseInv'
  <2>1. /\ \A v \in Waiters : waitPc'[v] = "idle" <=> waitPc[v] = "idle"
        /\ UNCHANGED <<waiters, closed, triggered>>
    BY <1>6 DEF WaitReturns, TypeOK
  <2> QED
    BY <2>1 DEF CloseInv
<1>7. ASSUME NEW c \in Clients, CallWait(c) PROVE CloseInv'
  <2>1. c \notin Waiters
    BY MachineAssumption DEF Clients
  <2>2. /\ closed' \subseteq closed \cup {c}
        /\ waiters' \subseteq waiters \cup {[c |-> c, state |-> Running]}
        /\ UNCHANGED <<triggered, waitPc>>
    BY <1>7 DEF CallWait, WaitOn
  <2>3. \A x \in waiters' : x.c \in Waiters => x \in waiters
    BY <2>1, <2>2, SMTT(30)
  <2>4. \A w \in closed' : w \in Waiters => w \in closed
    BY <2>1, <2>2
  <2>5. triggered' = triggered /\ waitPc' = waitPc
    BY <2>2
  <2> QED
    BY <2>3, <2>4, <2>5, SMTT(30) DEF CloseInv
<1>8. ASSUME NEW c \in Clients,
             \/ CallSteps(c) /\ ~CallWait(c)
             \/ CallRPC(c) \/ CtxDone(c) \/ BeginCall(c) \/ EndCall(c)
      PROVE  CloseInv'
  <2>1. UNCHANGED <<waiters, closed, triggered, waitPc>>
    BY <1>8 DEF CallSteps, CallSwitch, CallWoken, context, CallBlockedCtxDone,
       CallRPCCanceled, CallStopped, RetryWait, CallReturns, CallRPC, CtxDone, BeginCall, EndCall
  <2> QED
    BY <2>1 DEF CloseInv
<1> QED
  BY <1>1, <1>2, <1>3, <1>4, <1>5, <1>6, <1>7, <1>8, Names DEF Next

\* No channel of Wait is closed twice, whichever way the setState of the loop and
\* that of the monitor interleave: a channel that one of them has collected under
\* the lock is neither closed, nor registered, nor collected by the other.
THEOREM ClosedOnce == Spec => []NoDoubleClose
<1>1. Init => CloseInv
  BY DEF Init, CloseInv
<1>2. TypeOK /\ CloseInv /\ [Next]_vars => CloseInv'
  BY CloseInvStep
<1>3. CloseInv => NoDoubleClose
  BY DEF CloseInv, NoDoubleClose, Setters
<1> QED
  BY <1>1, <1>2, <1>3, TypeCorrect, PTL DEF Spec

-----------------------------------------------------------------------------
(* Monotonicity, where no OOM monitor runs: dialed machines, and machines  *)
(* started without a system.  With the monitor it does not hold.           *)

\* Without a monitor the loop is the only setter, and where it is tells the
\* state of the machine.
LoneLoopInv ==
    /\ oomPc = "off" /\ setPc["oom"] = "idle"
    /\ loopPc = "begin" => setPc["loop"] = "idle" /\ state = Unstarted
    /\ loopPc = "starting" =>
          IF setPc["loop"] = "store" THEN state = Unstarted /\ setTo["loop"] = Starting
                                     ELSE state = Starting
    /\ loopPc \in {"bootping", "exec", "ping", "register"} =>
          setPc["loop"] = "idle" /\ state = Starting
    /\ loopPc = "register" => Owner
    /\ loopPc \in {"keepalive", "profile", "select", "sleep"} =>
          IF setPc["loop"] = "store" THEN state = Starting /\ setTo["loop"] = Running
                                     ELSE state = Running
    /\ loopPc = "exit" =>
          IF setPc["loop"] = "store"
          THEN state \in {Starting, Running} /\ setTo["loop"] = Stopped
          ELSE state = Stopped
    /\ loopPc = "done" => setPc["loop"] = "idle" /\ state = Stopped

\* A machine that was dialed stays one, and so does one that was started.
LEMMA OwnerStable == [Next]_vars => (Owner' <=> Owner)
<1> SUFFICES ASSUME [Next]_vars PROVE (tail' = "nil") <=> (tail = "nil")
  BY DEF Owner
<1> USE DEF setVars, callVars, waitVars, oomVars, loopVars, sharedVars
<1>1. CASE LoopNext
  BY <1>1
     DEF LoopNext, LoopBegin, LoopStarting, LoopBootPing, LoopExec, LoopPing, LoopRegister,
     LoopRun, LoopKeepalive, LoopProfileSaved, LoopSelect, LoopSleep, LoopExit, LoopGoto,
     LoopFails, Owner
<1>2. CASE OOMNext
  BY <1>2 DEF OOMNext, OOMGetpid, OOMRead, OOMMatch, OOMEnd, OOMGoto
<1>3. CASE TailEnds \/ Cancel \/ UNCHANGED vars
  BY <1>3 DEF TailEnds, Cancel, vars
<1>4. CASE \/ \E g \in Setters : setState(g) \/ closeTriggered(g)
           \/ \E w \in Waiters : WaitReturns(w) \/ \E s \in States : Wait(w, s)
  BY <1>4 DEF setState, closeTriggered, WaitReturns, Wait
<1>5. ASSUME NEW c, CallSteps(c) \/ CallRPC(c) \/ CtxDone(c) \/ BeginCall(c) \/ EndCall(c)
      PROVE  tail' = tail
  BY <1>5 DEF CallSteps, CallSwitch, CallWait, CallWoken, context, CallBlockedCtxDone,
     CallRPCCanceled, CallStopped, RetryWait, CallReturns, CallRPC, CtxDone, BeginCall, EndCall
<1> QED
  BY <1>1, <1>2, <1>3, <1>4, <1>5 DEF Next

\* LoneLoopInv is preserved by every step of a machine without a monitor.
LEMMA LoneLoopStep ==
    ASSUME ~(Owner /\ HasSystem), TypeOK, LoneLoopInv, [Next]_vars
    PROVE  LoneLoopInv'
<1>00. Owner' <=> Owner
  BY OwnerStable
<1> USE <1>00 DEF setVars, callVars, waitVars, oomVars, loopVars, sharedVars
<1>0. /\ setPc \in [Setters -> {"idle", "store", "close"}] /\ setTo \in [Setters -> States]
      /\ loopPc \in {"begin", "starting", "bootping", "exec", "ping", "register",
                     "keepalive", "profile", "select", "sleep", "exit", "done"}
      /\ "loop" \in Setters /\ "oom" \in Setters
  BY Names DEF TypeOK
<1>1. ASSUME NEW s \in States, BeginSetState("loop", s)
      PROVE  setPc'["loop"] = "store" /\ setTo'["loop"] = s /\ setPc'["oom"] = setPc["oom"]
  BY <1>0, <1>1 DEF BeginSetState
<1>2. ASSUME NEW es, LoopFails(es), setPc["loop"] = "idle",
             loopPc \in {"bootping", "exec", "ping", "register", "keepalive", "select"}
      PROVE  LoneLoopInv'
  <2>1. /\ setPc'["loop"] = "store" /\ setTo'["loop"] = Stopped /\ setPc'["oom"] = setPc["oom"]
        /\ loopPc' = "exit" /\ state' = state /\ oomPc' = oomPc
    BY <1>1, <1>2, Names DEF LoopFails, setError
  <2>2. state \in {Starting, Running}
    BY <1>2 DEF LoneLoopInv
  <2> QED
    BY <2>1, <2>2 DEF LoneLoopInv
<1>3. CASE LoopBegin
  BY <1>1, <1>3, Names DEF LoopBegin, LoopAt, LoneLoopInv
<1>4. CASE LoopStarting
  BY <1>4 DEF LoopStarting, LoopAt, LoneLoopInv
<1>5. CASE LoopBootPing \/ LoopExec
  BY <1>2, <1>5 DEF LoopBootPing, LoopExec, LoopAt, LoopGoto, LoneLoopInv
<1>6. CASE LoopPing
  <2>1. CASE ~Owner /\ BeginSetState("loop", Running) /\ loopPc' = "keepalive"
             /\ UNCHANGED <<sharedVars, toRegister, tail, oomVars, callVars, waitVars>>
    BY <1>1, <1>6, <2>1, Names DEF LoopPing, LoopAt, LoneLoopInv
  <2>2. CASE Owner /\ LoopGoto("register")
    BY <1>6, <2>2 DEF LoopPing, LoopAt, LoopGoto, LoneLoopInv
  <2> QED
    BY <1>2, <1>6, <2>1, <2>2 DEF LoopPing, LoopAt
<1>7. CASE LoopRegister
  <2>1. CASE UNCHANGED <<sharedVars, setVars, loopPc, tail, oomVars, callVars, waitVars>>
    BY <2>1 DEF LoneLoopInv
  <2> QED
    BY <1>2, <1>7, <2>1 DEF LoopRegister, LoopAt
<1>8. CASE LoopRun
  <2>1. ~HasSystem
    BY <1>8 DEF LoopRun, LoopAt, LoneLoopInv
  <2> QED
    BY <1>1, <1>8, <2>1, Names DEF LoopRun, LoopAt, LoneLoopInv
<1>9. CASE LoopKeepalive \/ LoopSelect
  <2>1. CASE LoopGoto("select") \/ LoopGoto("sleep") \/ LoopGoto("keepalive")
    BY <1>9, <2>1 DEF LoopKeepalive, LoopSelect, LoopAt, LoopGoto, LoneLoopInv
  <2>2. CASE loopPc' = "profile" /\ UNCHANGED <<sharedVars, setVars, oomVars>>
    BY <1>9, <2>2 DEF LoopKeepalive, LoopSelect, LoopAt, LoneLoopInv
  <2> QED
    BY <1>2, <1>9, <2>1, <2>2 DEF LoopKeepalive, LoopSelect, LoopAt
<1>10. CASE LoopProfileSaved \/ LoopSleep
  BY <1>10 DEF LoopProfileSaved, LoopSleep, LoopAt, LoopGoto, LoneLoopInv
<1>11. CASE LoopExit
  BY <1>11 DEF LoopExit, LoopAt, LoneLoopInv
<1>12. CASE OOMNext
  BY <1>12 DEF OOMNext, OOMGetpid, OOMRead, OOMMatch, OOMEnd, OOMAt, LoneLoopInv
<1>13. ASSUME NEW g \in Setters, setState(g) PROVE LoneLoopInv'
  <2>1. g = "loop"
    BY <1>13 DEF setState, LoneLoopInv, Setters
  <2>2. /\ state' = setTo["loop"] /\ setPc["loop"] = "store" /\ setPc'["loop"] = "close"
        /\ setPc'["oom"] = setPc["oom"] /\ UNCHANGED <<loopPc, oomPc>>
    BY <1>0, <1>13, <2>1 DEF setState
  <2> QED
    BY <1>0, <2>2 DEF LoneLoopInv
<1>14. ASSUME NEW g \in Setters, closeTriggered(g) PROVE LoneLoopInv'
  <2>1. g = "loop"
    BY <1>14 DEF closeTriggered, LoneLoopInv, Setters
  <2>2. /\ setPc["loop"] = "close" /\ setPc'["loop"] = "idle"
        /\ setPc'["oom"] = setPc["oom"] /\ UNCHANGED <<state, loopPc, oomPc>>
    BY <1>0, <1>14, <2>1 DEF closeTriggered
  <2> QED
    BY <1>0, <2>2 DEF LoneLoopInv
<1>15. CASE UNCHANGED <<state, setPc, setTo, loopPc, oomPc>>
  BY <1>15 DEF LoneLoopInv
<1>16. ASSUME NEW c \in Clients,
              CallSteps(c) \/ CallRPC(c) \/ CtxDone(c) \/ BeginCall(c) \/ EndCall(c)
       PROVE  UNCHANGED <<state, setPc, setTo, loopPc, oomPc>>
  BY <1>16 DEF CallSteps, CallSwitch, CallWait, CallWoken, context, CallBlockedCtxDone,
     CallRPCCanceled, CallStopped, RetryWait, CallReturns, CallRPC, CtxDone, BeginCall, EndCall
<1>17. TailEnds \/ Cancel \/ UNCHANGED vars
          \/ (\E w \in Waiters : WaitReturns(w) \/ \E s \in States : Wait(w, s))
       => UNCHANGED <<state, setPc, setTo, loopPc, oomPc>>
  BY DEF TailEnds, Cancel, vars, WaitReturns, Wait
<1> QED
  BY <1>3, <1>4, <1>5, <1>6, <1>7, <1>8, <1>9, <1>10, <1>11, <1>12, <1>13, <1>14, <1>15,
     <1>16, <1>17, Names DEF Next, LoopNext

\* Only setState changes the state, and only the loop and the monitor the error.
LEMMA StateFrame ==
    ASSUME [Next]_vars, state' # state
    PROVE  \E g \in Setters : setState(g)
<1> USE DEF setVars, callVars, waitVars, oomVars, loopVars, sharedVars
<1>1. ASSUME NEW c, CallSteps(c) \/ CallRPC(c) \/ CtxDone(c) \/ BeginCall(c) \/ EndCall(c)
      PROVE  state' = state
  BY <1>1 DEF CallSteps, CallSwitch, CallWait, CallWoken, context, CallBlockedCtxDone,
     CallRPCCanceled, CallStopped, RetryWait, CallReturns, CallRPC, CtxDone, BeginCall, EndCall
<1>2. TailEnds \/ Cancel \/ UNCHANGED vars
          \/ (\E w \in Waiters : WaitReturns(w) \/ \E s \in States : Wait(w, s))
          \/ (\E g \in Setters : closeTriggered(g))
      => state' = state
  BY DEF TailEnds, Cancel, vars, WaitReturns, Wait, closeTriggered
<1> QED
  BY <1>1, <1>2, LoopFrame, OOMFrame DEF Next

\* m.err changes only in a step of the monitor, or of a loop that has not ended.
LEMMA ErrFrame ==
    ASSUME TypeOK, [Next]_vars, err' # err
    PROVE  OOMNext \/ (LoopNext /\ setPc["loop"] = "idle" /\ loopPc \notin {"exit", "done"})
<1> USE DEF setVars, callVars, waitVars, oomVars, loopVars, sharedVars
<1>1. ASSUME NEW c, CallSteps(c) \/ CallRPC(c) \/ CtxDone(c) \/ BeginCall(c) \/ EndCall(c)
      PROVE  err' = err
  BY <1>1 DEF CallSteps, CallSwitch, CallWait, CallWoken, context, CallBlockedCtxDone,
     CallRPCCanceled, CallStopped, RetryWait, CallReturns, CallRPC, CtxDone, BeginCall, EndCall
<1>2. TailEnds \/ Cancel \/ UNCHANGED vars
          \/ (\E w \in Waiters : WaitReturns(w) \/ \E s \in States : Wait(w, s))
          \/ (\E g \in Setters : setState(g) \/ closeTriggered(g))
      => err' = err
  BY DEF TailEnds, Cancel, vars, WaitReturns, Wait, setState, closeTriggered
<1>3. LoopNext => setPc["loop"] = "idle" /\ (loopPc \in {"exit", "done"} => err' = err)
  BY DEF LoopNext, LoopBegin, LoopStarting, LoopBootPing, LoopExec, LoopPing, LoopRegister,
     LoopRun, LoopKeepalive, LoopProfileSaved, LoopSelect, LoopSleep, LoopExit, LoopAt
<1> QED
  BY <1>1, <1>2, <1>3 DEF Next

\* Without an OOM monitor the states of a machine only increase, and the error
\* of a stopped machine does not change.
THEOREM LoneLoopMonotonic ==
    ~(HasSystem /\ TRUE \in Owners) => (Spec => StateMonotonic /\ ErrStable)
<1> SUFFICES ASSUME ~(HasSystem /\ TRUE \in Owners) PROVE Spec => StateMonotonic /\ ErrStable
  OBVIOUS
<1> DEFINE NoMonitor == ~(Owner /\ HasSystem)
<1>0. Init => NoMonitor
  <2> SUFFICES ASSUME Init, HasSystem PROVE tail = "nil"
    BY DEF Owner
  <2>1. PICK owner \in Owners : tail = IF owner THEN "open" ELSE "nil"
    BY DEF Init
  <2>2. owner = FALSE
    BY MachineAssumption
  <2> QED
    BY <2>1, <2>2
<1>1. Init => LoneLoopInv
  BY Names DEF Init, LoneLoopInv
<1>2. TypeOK /\ NoMonitor /\ LoneLoopInv /\ [Next]_vars => LoneLoopInv' /\ NoMonitor'
  BY LoneLoopStep, OwnerStable
<1>3. TypeOK /\ LoneLoopInv /\ [Next]_vars => [state' >= state]_vars
  <2> SUFFICES ASSUME TypeOK, LoneLoopInv, [Next]_vars PROVE state' >= state
    OBVIOUS
  <2>1. CASE state' = state
    <3>1. state \in Nat
      BY StateOrder DEF TypeOK
    <3> QED
      BY <2>1, <3>1, SMTT(30)
  <2>2. CASE state' # state
    <3>1. setState("loop")
      BY <2>2, StateFrame DEF setState, LoneLoopInv, Setters
    <3>2. state' = setTo["loop"] /\ setPc["loop"] = "store"
      BY <3>1 DEF setState
    <3>3. \/ state = Unstarted /\ setTo["loop"] = Starting
          \/ state = Starting /\ setTo["loop"] = Running
          \/ state \in {Starting, Running} /\ setTo["loop"] = Stopped
      BY <3>2 DEF LoneLoopInv, TypeOK
    <3> QED
      BY <3>2, <3>3, SMTT(30) DEF Unstarted, Starting, Running, Stopped
  <2> QED
    BY <2>1, <2>2
<1>4. TypeOK /\ LoneLoopInv /\ [Next]_vars => [state = Stopped => err' = err]_vars
  <2> SUFFICES ASSUME TypeOK, LoneLoopInv, [Next]_vars, state = Stopped, err' # err PROVE FALSE
    OBVIOUS
  <2>1. ~OOMNext
    BY DEF LoneLoopInv, OOMNext, OOMGetpid, OOMRead, OOMMatch, OOMEnd, OOMAt
  <2>2. setPc["loop"] = "idle" /\ loopPc \notin {"exit", "done"}
    BY <2>1, ErrFrame
  <2>3. state \in {Unstarted, Starting, Running}
    BY <2>2 DEF LoneLoopInv, TypeOK
  <2> QED
    BY <2>3, SMTT(30) DEF Unstarted, Starting, Running, Stopped
<1> QED
  BY <1>0, <1>1, <1>2, <1>3, <1>4, TypeCorrect, PTL DEF Spec, StateMonotonic, ErrStable

=============================================================================
