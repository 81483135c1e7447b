------------------------------ MODULE Cluster ------------------------------
(***************************************************************************)
(* A bigmachine session: the value B with its table of machines            *)
(* (bigmachine.go: Start, Dial, Machines, Shutdown), the system that       *)
(* launches the processes (the local system of local.go or the test system *)
(* of testsystem.go), the Machine values that watch them, and the program  *)
(* that uses them all (the main of cmd/bigpi; cmd/bigoom and the programs  *)
(* of regress have one machine and one call, and bigoom only logs the      *)
(* error).  The EC2 system is here with what Start returns.                *)
(*                                                                         *)
(* A Machine is what Lifecycle says of it: its state only increases, it    *)
(* needs a process at its address to get to Running, and it stops.  A      *)
(* section under b.mu or s.mu is one step.  An address may be given to a   *)
(* new process once the process that had it is gone (Reuse): the local and *)
(* the test system let the kernel choose a port.                           *)
(***************************************************************************)
EXTENDS Naturals, FiniteSets, FiniteSetsExt

CONSTANTS
    N,          \* bound: Machine values 1 .. N, created in this order
    Addrs,      \* bound: the addresses processes may be given
    Reuse,      \* an address may be given again after its process is gone
    Wanted,     \* how many machines the program asks B.Start for
    Procs,      \* Maxprocs of a machine
    NSamples    \* -n of bigpi

ASSUME ClusterAssumption ==
    /\ N \in Nat /\ Reuse \in BOOLEAN /\ IsFiniteSet(Addrs)
    /\ Procs \in Nat \ {0} /\ Wanted \in Nat \ {0} /\ NSamples \in Nat

Machines == 1 .. N
NoMachine == 0
Unstarted == 0
Starting == 1
Running == 2
Stopped == 3

VARIABLES
    sys,        \* "os": the local or the EC2 system; "test": the test system
    addr,       \* m.Addr
    kind,       \* how the value came about: by Start or by Dial
    phase,      \* m.State()
    proc,       \* the process system.Start launched for m
    table,      \* b.machines
    watching,   \* dialed machines whose goroutine waits for them to stop
    startPc,    \* where the call of B.Start is
    launched,   \* the machines system.Start has launched for it so far
    shut,       \* where Shutdown is
    toCall,     \* the machines it has yet to send Supervisor.Shutdown to
    toTail,     \* the machines whose log it waits for
    mainPc,     \* where the program is
    ready,      \* the machines it has seen Running
    work,       \* the calls it waits for, by machine and processor
    failed,     \* one of them failed, which cancels the others
    taken       \* the samples it has counted

procVars == <<addr, kind, phase, proc>>
startVars == <<startPc, launched>>
shutVars == <<shut, toCall, toTail>>
mainVars == <<mainPc, ready, work, failed, taken>>
bVars == <<table, watching>>
vars == <<sys, procVars, bVars, startVars, shutVars, mainVars>>

Init ==
    /\ sys \in {"os", "test"}
    /\ addr = [m \in Machines |-> "none"]
    /\ kind = [m \in Machines |-> "free"]
    /\ phase = [m \in Machines |-> Unstarted]
    /\ proc = [m \in Machines |-> "none"]
    /\ table = [a \in Addrs |-> NoMachine]
    /\ watching = {}
    /\ startPc = "idle" /\ launched = {}
    /\ shut = "no" /\ toCall = {} /\ toTail = {}
    /\ mainPc = "start" /\ ready = {} /\ work = {} /\ failed = FALSE /\ taken = 0

FreeMachines == {m \in Machines : kind[m] = "free"}
NextMachine == Min(FreeMachines)

\* A process accepts connections at a.
Serving(a) == \E m \in Machines : addr[m] = a /\ proc[m] \in {"up", "exiting"}

\* An address that the kernel may give to a new process.
FreeAddr(a) == ~Serving(a) /\ (Reuse \/ \A m \in Machines : addr[m] # a)

\* The driver process is there, and with it its keepalives.
DriverUp == mainPc \notin {"exit", "fatal"}

-----------------------------------------------------------------------------
(* system.Start and B.Start.                                               *)

StartCalled ==
    /\ startPc = "idle"
    /\ startPc' = "launching"
    /\ UNCHANGED <<sys, procVars, bVars, launched, shutVars, mainVars>>

\* One round of system.Start: a port, a Machine value and its process.
Launch(a) ==
    /\ DriverUp /\ startPc = "launching"
    /\ Cardinality(launched) < Wanted
    /\ FreeMachines # {} /\ FreeAddr(a)
    /\ LET m == NextMachine
       IN  /\ addr' = [addr EXCEPT ![m] = a]
           /\ kind' = [kind EXCEPT ![m] = "launched"]
           /\ proc' = [proc EXCEPT ![m] = "up"]
           /\ launched' = launched \cup {m}
    /\ UNCHANGED <<sys, phase, bVars, startPc, shutVars, mainVars>>

\* system.Start fails part way: it returns the error and leaves the processes
\* it has launched to themselves.
LaunchFails ==
    /\ DriverUp /\ sys # "test" /\ startPc = "launching"
    /\ Cardinality(launched) < Wanted
    /\ startPc' = "error"
    /\ UNCHANGED <<sys, procVars, bVars, launched, shutVars, mainVars>>

\* Faulty variant: only the first machine is put into the table.
registerFirst ==
    /\ kind' = [m \in Machines |-> IF m \in launched THEN "started" ELSE kind[m]]
    /\ table' = [a \in Addrs |-> IF a = addr[Min(launched)] THEN Min(launched) ELSE table[a]]

\* The loop under b.mu: the machines are started and put into the table, each
\* over whatever is there.
register ==
    /\ kind' = [m \in Machines |-> IF m \in launched THEN "started" ELSE kind[m]]
    /\ table' = [a \in Addrs |->
                   LET here == {m \in launched : addr[m] = a}
                   IN  IF here = {} THEN table[a] ELSE Max(here)]

\* B.Start once system.Start has returned.  EC2 may return fewer machines than
\* were asked for, and none.  The caller may have passed no service.
StartReturns ==
    /\ DriverUp /\ startPc = "launching"
    /\ sys = "os" \/ Cardinality(launched) = Wanted
    /\ \/ /\ launched # {} /\ register
          /\ startPc' = "ok"
       \/ /\ startPc' = "error"
          /\ UNCHANGED <<kind, table>>
    /\ UNCHANGED <<sys, addr, phase, proc, watching, launched, shutVars, mainVars>>

-----------------------------------------------------------------------------
(* Dial and the goroutine that removes the machine when it has stopped.    *)

\* Faulty variant: Dial makes a machine even if the table has one.
DialAlways(a) ==
    /\ DriverUp
    /\ startPc \in {"ok", "error"} \/ Cardinality(FreeMachines) > Wanted - Cardinality(launched)
    /\ FreeMachines # {}
    /\ \E m \in Machines : addr[m] = a
    /\ LET d == NextMachine
       IN  /\ addr' = [addr EXCEPT ![d] = a]
           /\ kind' = [kind EXCEPT ![d] = "dialed"]
           /\ table' = [table EXCEPT ![a] = d]
           /\ watching' = watching \cup {d}
    /\ UNCHANGED <<sys, phase, proc, startVars, shutVars, mainVars>>

Dial(a) ==
    /\ DriverUp /\ table[a] = NoMachine
    /\ startPc \in {"ok", "error"} \/ Cardinality(FreeMachines) > Wanted - Cardinality(launched)
    /\ FreeMachines # {}    \* bound: values are kept for Start
    /\ \E m \in Machines : addr[m] = a    \* somebody learned of the address
    /\ LET d == NextMachine
       IN  /\ addr' = [addr EXCEPT ![d] = a]
           /\ kind' = [kind EXCEPT ![d] = "dialed"]
           /\ table' = [table EXCEPT ![a] = d]
           /\ watching' = watching \cup {d}
    /\ UNCHANGED <<sys, phase, proc, startVars, shutVars, mainVars>>

\* delete(b.machines, addr), whichever machine is there by now.
Forget(d) ==
    /\ DriverUp /\ d \in watching /\ phase[d] = Stopped
    /\ watching' = watching \ {d}
    /\ table' = [table EXCEPT ![addr[d]] = NoMachine]
    /\ UNCHANGED <<sys, procVars, startVars, shutVars, mainVars>>

-----------------------------------------------------------------------------
(* The machines, as Lifecycle has them, and the processes.                 *)

Advance(m) ==
    /\ DriverUp /\ kind[m] \in {"started", "dialed"} /\ phase[m] < Running
    /\ phase[m] = Starting => Serving(addr[m])
    /\ phase' = [phase EXCEPT ![m] = @ + 1]
    /\ UNCHANGED <<sys, addr, kind, proc, bVars, startVars, shutVars, mainVars>>

\* A ping or keepalive fails for good: the process is gone or out of reach.
Stop(m) ==
    /\ DriverUp /\ phase[m] \in {Starting, Running}
    /\ phase' = [phase EXCEPT ![m] = Stopped]
    /\ UNCHANGED <<sys, addr, kind, proc, bVars, startVars, shutVars, mainVars>>

\* A process crashes.
Crash(m) ==
    /\ sys # "test" /\ proc[m] \in {"up", "exiting"}
    /\ proc' = [proc EXCEPT ![m] = "gone"]
    /\ UNCHANGED <<sys, addr, kind, phase, bVars, startVars, shutVars, mainVars>>

\* s.machines of the test system.
live == {m \in Machines : sys = "test" /\ proc[m] \in {"up", "exiting"}}

\* The test system's Kill.  system.Start holds the lock while it launches.
Kill(m) ==
    /\ m \in live /\ startPc # "launching"
    /\ proc' = [proc EXCEPT ![m] = "gone"]
    /\ UNCHANGED <<sys, addr, kind, phase, bVars, startVars, shutVars, mainVars>>

\* system.Exit: the end of the process; the test system only takes a note.
SystemExit(m) == proc' = [proc EXCEPT ![m] = IF sys = "test" THEN "up" ELSE "gone"]

\* Supervisor.Shutdown's goroutine wakes up.
ShutdownExits(m) ==
    /\ proc[m] = "exiting" /\ SystemExit(m)
    /\ UNCHANGED <<sys, addr, kind, phase, bVars, startVars, shutVars, mainVars>>

\* Some machine of the driver keeps the process at a alive.
KeptAlive(a) ==
    DriverUp /\ \E m \in Machines : kind[m] = "started" /\ addr[m] = a /\ phase[m] # Stopped

\* The watchdog: nobody sends keepalives.  A process has some time for them to
\* begin, more than the launch of the others takes.
WatchdogExits(m) ==
    /\ proc[m] = "up" /\ ~KeptAlive(addr[m])
    /\ DriverUp => startPc # "launching"
    /\ SystemExit(m)
    /\ UNCHANGED <<sys, addr, kind, phase, bVars, startVars, shutVars, mainVars>>

-----------------------------------------------------------------------------
(* Shutdown, called by the program when it is done.                        *)

Snapshot == {table[a] : a \in Addrs} \ {NoMachine}

ShutdownCalled ==
    /\ mainPc = "shutdown" /\ shut = "no"
    /\ shut' = "call" /\ toCall' = Snapshot /\ toTail' = Snapshot
    /\ UNCHANGED <<sys, procVars, bVars, startVars, mainVars>>

\* m.Call(Supervisor.Shutdown), with no timeout: it waits for m to run or to
\* stop, and reaches whichever process serves the address.  Errors are logged.
ShutdownCall(m) ==
    /\ shut = "call" /\ m \in toCall /\ phase[m] >= Running
    /\ toCall' = toCall \ {m}
    /\ \/ /\ phase[m] = Running
          /\ \E p \in Machines :
                /\ addr[p] = addr[m] /\ proc[p] = "up"
                /\ proc' = [proc EXCEPT ![p] = "exiting"]
       \/ UNCHANGED proc
    /\ UNCHANGED <<sys, addr, kind, phase, bVars, startVars, shut, toTail, mainVars>>

ShutdownCalledAll ==
    /\ shut = "call" /\ toCall = {}
    /\ shut' = "tail"
    /\ UNCHANGED <<sys, procVars, bVars, startVars, toCall, toTail, mainVars>>

\* m.tailDone, which is nil for a dialed machine, or the end of 20 seconds.
ShutdownTail(m) ==
    /\ shut = "tail" /\ m \in toTail
    /\ toTail' = toTail \ {m}
    /\ UNCHANGED <<sys, procVars, bVars, startVars, shut, toCall, mainVars>>

\* Shutdown returns, and with it the program.
ShutdownReturns ==
    /\ shut = "tail" /\ toTail = {}
    /\ shut' = "done" /\ mainPc' = "exit"
    /\ UNCHANGED <<sys, procVars, bVars, startVars, toCall, toTail, ready, work, failed, taken>>

-----------------------------------------------------------------------------
(* The program.                                                            *)

\* Start has failed: log.Fatal, without the deferred Shutdown.
MainStartFails ==
    /\ mainPc = "start" /\ startPc = "error"
    /\ mainPc' = "fatal"
    /\ UNCHANGED <<sys, procVars, bVars, startVars, shutVars, ready, work, failed, taken>>

\* Faulty variant: the stop of a machine does not end the wait for Running.
MainReadyOnly ==
    /\ mainPc = "start" /\ startPc = "ok" /\ launched # ready
    /\ LET m == Min(launched \ ready)
       IN  phase[m] = Running /\ ready' = ready \cup {m}
    /\ UNCHANGED <<sys, procVars, bVars, startVars, shutVars, mainPc, work, failed, taken>>

\* <-m.Wait(Running), which a stop ends as well, and the test of m.Err(), one
\* machine after the other.
MainReady ==
    /\ mainPc = "start" /\ startPc = "ok" /\ launched # ready
    /\ LET m == Min(launched \ ready)
       IN  /\ phase[m] >= Running
           /\ IF phase[m] = Stopped
              THEN mainPc' = "fatal" /\ UNCHANGED ready
              ELSE ready' = ready \cup {m} /\ UNCHANGED mainPc
    /\ UNCHANGED <<sys, procVars, bVars, startVars, shutVars, work, failed, taken>>

\* The samples each call asks for.
share == (NSamples \div Wanted) \div Procs

\* Every machine is ready: one call for each processor.
MainWork ==
    /\ mainPc = "start" /\ startPc = "ok" /\ ready = launched
    /\ mainPc' = "work" /\ work' = launched \X (1 .. Procs)
    /\ UNCHANGED <<sys, procVars, bVars, startVars, shutVars, ready, failed, taken>>

\* Faulty variant: the error of a call is dropped.
WorkReturnsUnchecked(w) ==
    /\ mainPc = "work" /\ w \in work
    /\ work' = work \ {w}
    /\ (phase[w[1]] = Running /\ taken' = taken + share) \/ UNCHANGED taken
    /\ UNCHANGED <<sys, procVars, bVars, startVars, shutVars, mainPc, ready, failed>>

\* A call returns.  One that fails cancels the context of the others.
WorkReturns(w) ==
    /\ mainPc = "work" /\ w \in work
    /\ work' = work \ {w}
    /\ \/ phase[w[1]] = Running /\ taken' = taken + share /\ UNCHANGED failed
       \/ failed' = TRUE /\ UNCHANGED taken
    /\ UNCHANGED <<sys, procVars, bVars, startVars, shutVars, mainPc, ready>>

\* g.Wait(): log.Fatal after an error, else the estimate is printed and the
\* deferred Shutdown is next.
MainDone ==
    /\ mainPc = "work" /\ work = {}
    /\ mainPc' = IF failed THEN "fatal" ELSE "shutdown"
    /\ UNCHANGED <<sys, procVars, bVars, startVars, shutVars, ready, work, failed, taken>>

\* The error of the call, which bigoom expects, is logged.
OomDone ==
    /\ mainPc = "work" /\ work = {} /\ failed
    /\ mainPc' = "shutdown"
    /\ UNCHANGED <<sys, procVars, bVars, startVars, shutVars, ready, work, failed, taken>>

-----------------------------------------------------------------------------
MainNext ==
    \/ MainStartFails \/ MainReady \/ MainWork \/ MainDone \/ OomDone
    \/ \E w \in work : WorkReturns(w)

ShutdownNext ==
    \/ ShutdownCalled \/ ShutdownCalledAll \/ ShutdownReturns
    \/ \E m \in Machines : ShutdownCall(m) \/ ShutdownTail(m)

StartNext ==
    StartCalled \/ LaunchFails \/ StartReturns \/ \E a \in Addrs : Launch(a)

ProcessNext(m) == ShutdownExits(m) \/ WatchdogExits(m)

Next ==
    \/ MainNext \/ ShutdownNext \/ StartNext
    \/ \E a \in Addrs : Dial(a)
    \/ \E m \in Machines :
          \/ Forget(m) \/ Advance(m) \/ Stop(m)
          \/ Crash(m) \/ Kill(m) \/ ProcessNext(m)

Spec == Init /\ [][Next]_vars

\* The goroutines that can run do: those of the program, of Start and Shutdown, and
\* a machine's loop, which sets Starting at once; the methods called return.  A
\* running machine stops if nothing serves its address (DetectsDeath of
\* Keepalive).  Nothing makes a machine leave Starting: the upload of its binary
\* has no timeout.
Fairness ==
    /\ WF_vars(MainNext) /\ WF_vars(ShutdownNext) /\ WF_vars(StartNext)
    /\ \A m \in Machines :
          /\ WF_vars(phase[m] = Unstarted /\ Advance(m))
          /\ WF_vars(phase[m] = Running /\ ~Serving(addr[m]) /\ Stop(m))

FairSpec == Spec /\ Fairness

-----------------------------------------------------------------------------
(* Properties.                                                             *)

\* The values the variables take.
TypeOK ==
    /\ sys \in {"os", "test"}
    /\ addr \in [Machines -> Addrs \cup {"none"}]
    /\ kind \in [Machines -> {"free", "launched", "started", "dialed"}]
    /\ phase \in [Machines -> Unstarted .. Stopped]
    /\ proc \in [Machines -> {"none", "up", "exiting", "gone"}]
    /\ table \in [Addrs -> Machines \cup {NoMachine}]
    /\ watching \subseteq Machines
    /\ failed \in BOOLEAN /\ taken \in Nat
    /\ startPc \in {"idle", "launching", "ok", "error"}
    /\ launched \subseteq Machines
    /\ shut \in {"no", "call", "tail", "done"}
    /\ toCall \subseteq Machines /\ toTail \subseteq Machines
    /\ mainPc \in {"start", "work", "shutdown", "exit", "fatal"}
    /\ ready \subseteq launched /\ work \subseteq Machines \X (1 .. Procs)

\* However Dial, the goroutines that remove dialed machines, and Start
\* interleave, at most one machine dialed to an address is not yet removed, and
\* b.machines is not empty there while there is one: two Dials of an address
\* share a machine as long as it has not stopped, and a dialed machine that
\* has stopped is in the table only until its goroutine has run.
DialShares ==
    \A a \in Addrs :
        LET open == {d \in watching : addr[d] = a}
        IN  /\ Cardinality(open) <= 1
            /\ table[a] = NoMachine => open = {}
            /\ table[a] # NoMachine /\ kind[table[a]] = "dialed" => table[a] \in open

\* A machine Start has returned stays in b.machines, where Machines, Shutdown
\* and the diagnostics find it, unless its address was also the address of
\* another machine: the goroutine of an earlier dialed machine deletes
\* whatever is at its address, and Start overwrites it.
NotForgotten ==
    \A m \in Machines :
        kind[m] = "started" =>
            \/ table[addr[m]] = m
            \/ \E x \in Machines \ {m} : kind[x] \in {"started", "dialed"} /\ addr[x] = addr[m]

\* A program that prints its estimate and gets no error from its calls has had
\* machines, although EC2's Start may return none without an error, and has
\* counted all its samples, but for rounding; only when Start returned fewer
\* machines than it wanted (which divides by the number it wanted) is the
\* share of the missing ones lost.
EstimateComplete ==
    mainPc \in {"shutdown", "exit"} /\ ~failed =>
        /\ launched # {} /\ taken <= NSamples
        /\ NSamples - taken <
              Wanted * Procs
              + (Wanted - Cardinality(launched)) * Procs * share

\* The program ends, through its Shutdown or without it, unless a machine is
\* Starting for ever: nothing else that it waits for - machines that stop, calls
\* of Shutdown without a timeout, the logs of dialed machines, which have no
\* channel - keeps it.  A machine that hangs in its upload (machine.go:596) does,
\* if the program or Shutdown waits for it to run.
MainEnds == <>(~DriverUp) \/ \E m \in Machines : <>[](phase[m] = Starting)
=============================================================================
