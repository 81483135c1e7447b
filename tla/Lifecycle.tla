----------------------------- MODULE Lifecycle -----------------------------
(***************************************************************************)
(* What a Machine promises to the code that uses it, without the loop, the *)
(* locks and the channels that keep the promise: the documented meaning of *)
(* State, Wait, Err, Call and RetryCall (machine.go).  Machine implements  *)
(* this specification for a machine that has no OOM monitor.               *)
(***************************************************************************)
EXTENDS Naturals

CONSTANTS
    Callers,    \* goroutines that invoke Call or RetryCall
    Waiters,    \* goroutines that invoke Wait and block on its channel
    Errors      \* what a machine may stop with

VARIABLES
    phase,      \* State(), 0 (Unstarted) .. 3 (Stopped)
    cause,      \* Err(), once the machine has stopped
    waits,      \* where each waiter is
    waitFor,    \* the state it waits for
    calls,      \* where each call is
    expired,    \* the callers whose context is done
    result      \* what the last call of each caller returned

Results == {"ok", "temporary", "fatal", "ctx", "stopped"}

lifeVars == <<phase, cause, waits, waitFor, calls, expired, result>>

Init ==
    /\ phase = 0 /\ cause = "nil"
    /\ waits = [w \in Waiters |-> "idle"] /\ waitFor = [w \in Waiters |-> 0]
    /\ calls = [c \in Callers |-> "idle"] /\ expired = {}
    /\ result = [c \in Callers |-> "none"]

\* "Machine states proceed monotonically: they can only increase in value."
Advance ==
    /\ phase < 2 /\ phase' = phase + 1
    /\ UNCHANGED <<cause, waits, waitFor, calls, expired, result>>

\* The machine stops, once, with its error, which then stays.
Stop ==
    /\ phase < 3 /\ phase' = 3
    /\ cause' \in Errors
    /\ UNCHANGED <<waits, waitFor, calls, expired, result>>

Wait(w, s) ==
    /\ waits[w] = "idle"
    /\ waits' = [waits EXCEPT ![w] = "blocked"]
    /\ waitFor' = [waitFor EXCEPT ![w] = s]
    /\ UNCHANGED <<phase, cause, calls, expired, result>>

\* The channel "is closed once the machine reaches the provided state or
\* greater".
Release(w) ==
    /\ waits[w] = "blocked" /\ waitFor[w] <= phase
    /\ waits' = [waits EXCEPT ![w] = "released"]
    /\ UNCHANGED <<phase, cause, waitFor, calls, expired, result>>

Begin(c) ==
    /\ calls[c] = "idle"
    /\ calls' = [calls EXCEPT ![c] = "pending"]
    /\ UNCHANGED <<phase, cause, waits, waitFor, expired, result>>

Expire(c) ==
    /\ calls[c] # "idle" /\ c \notin expired
    /\ expired' = expired \cup {c}
    /\ UNCHANGED <<phase, cause, waits, waitFor, calls, result>>

\* What a call may return, and when: what its method returned or an error of
\* the RPC only from a machine that got to Running, its context's error only if
\* its own context is done, and that the machine has stopped only if it has.
MayReturn(c, res) ==
    \/ res \in {"ok", "temporary", "fatal"} /\ phase >= 2
    \/ res \in {"ctx", "fatal"} /\ c \in expired
    \/ res = "stopped" /\ phase = 3

Return(c, res) ==
    /\ calls[c] = "pending" /\ MayReturn(c, res)
    /\ calls' = [calls EXCEPT ![c] = "done"]
    /\ result' = [result EXCEPT ![c] = res]
    /\ UNCHANGED <<phase, cause, waits, waitFor, expired>>

End(c) ==
    /\ calls[c] = "done"
    /\ calls' = [calls EXCEPT ![c] = "idle"]
    /\ expired' = expired \ {c}
    /\ result' = [result EXCEPT ![c] = "none"]
    /\ UNCHANGED <<phase, cause, waits, waitFor>>

Next ==
    \/ Advance \/ Stop
    \/ \E w \in Waiters : Release(w) \/ \E s \in 0 .. 3 : Wait(w, s)
    \/ \E c \in Callers : \/ Begin(c) \/ Expire(c) \/ End(c)
                          \/ \E res \in Results : Return(c, res)

Spec == Init /\ [][Next]_lifeVars

\* A wait that is due ends, and a call "fails fast when it is stopped".
FairSpec ==
    /\ Spec
    /\ \A w \in Waiters : WF_lifeVars(Release(w))
    /\ \A c \in Callers : WF_lifeVars(phase = 3 /\ \E res \in Results : Return(c, res))

=============================================================================
