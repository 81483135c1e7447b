--------------------------- MODULE ClusterProofs ---------------------------
(***************************************************************************)
(* Proofs about Cluster, for any number of machines, addresses, processors *)
(* and samples.                                                            *)
(***************************************************************************)
EXTENDS Cluster, FiniteSetTheorems, TLAPS

\* The prover of the leaves that name none.
USE ZenonT(60)

\* The machines of system.Start are none before it is called, and are not in
\* use until B.Start has them.  A machine that is not free has an address.
LaunchInv ==
    /\ startPc = "idle" => launched = {}
    /\ \A m \in launched : kind[m] # "free"
    /\ \A m \in Machines : kind[m] # "free" => addr[m] \in Addrs
    /\ startPc = "launching" => \A m \in launched : kind[m] = "launched"

\* The table has machines that are in use, at their own address.  A dialed
\* machine has its goroutine while it is there, and a goroutine its entry.
TableInv ==
    /\ \A a \in Addrs : table[a] # NoMachine =>
          /\ addr[table[a]] = a /\ kind[table[a]] \in {"started", "dialed"}
          /\ kind[table[a]] = "dialed" => table[a] \in watching
    /\ \A d \in watching :
          /\ kind[d] = "dialed" /\ addr[d] \in Addrs /\ table[addr[d]] # NoMachine
          /\ \A e \in watching : addr[d] = addr[e] => d = e

-----------------------------------------------------------------------------
(* The least and the greatest machine of a set.                            *)

LEMMA LeastIsMin ==
    ASSUME NEW S \in SUBSET Nat, NEW R, \A x, y \in S : y < x => <<y, x>> \in R,
           \E x \in S : \A y \in S : ~(<<y, x>> \in R)
    PROVE  \E x \in S : \A y \in S : x <= y
<1>1. PICK x \in S : \A y \in S : ~(<<y, x>> \in R)
  OBVIOUS
<1>2. ASSUME NEW y \in S PROVE x <= y
  <2>1. ~(<<y, x>> \in R)
    BY <1>1
  <2>2. ~(y < x)
    BY <2>1
  <2>3. x \in Nat /\ y \in Nat
    OBVIOUS
  <2> QED
    BY <2>2, <2>3, SMTT(30)
<1> QED
  BY <1>2

LEMMA NatMin ==
    ASSUME NEW S \in SUBSET Nat, S # {} PROVE \E x \in S : \A y \in S : x <= y
<1> DEFINE R == OpToRel(<, Nat)
<1>1. IsWellFoundedOn(R, Nat)
  BY NatLessThanWellFounded
<1>2. \A x, y \in S : y < x => <<y, x>> \in R
  BY DEF OpToRel
<1> HIDE DEF R
<1>3. \E x \in S : \A y \in S : ~(<<y, x>> \in R)
  BY <1>1, WFMin
<1> QED
  BY <1>2, <1>3, LeastIsMin

LEMMA MinIn == ASSUME NEW S \in SUBSET Machines, S # {} PROVE Min(S) \in S
<1>1. \E x \in S : \A y \in S : x =< y
  BY NatMin, ClusterAssumption, SMTT(30) DEF Machines
<1> QED
  BY <1>1 DEF Min

LEMMA MaxIn == ASSUME NEW S \in SUBSET Machines, S # {} PROVE Max(S) \in S
<1> DEFINE T == {N - m : m \in S}
<1>1. T \in SUBSET Nat /\ T # {}
  <2>1. \A m \in Machines : N - m \in Nat
    BY ClusterAssumption, SMTT(30) DEF Machines
  <2> QED
    BY <2>1
<1>2. PICK t \in T : \A u \in T : t <= u
  BY <1>1, NatMin
<1>3. PICK x \in S : t = N - x
  BY <1>2
<1>4. ASSUME NEW y \in S PROVE x >= y
  <2>1. N - y \in T
    OBVIOUS
  <2>2. N - x <= N - y
    BY <1>2, <1>3, <2>1
  <2> QED
    BY <2>2, ClusterAssumption, SMTT(30) DEF Machines
<1>5. \E z \in S : \A y \in S : z >= y
  BY <1>4
<1> QED
  BY <1>5 DEF Max

LEMMA NextFree ==
    ASSUME FreeMachines # {} PROVE NextMachine \in Machines /\ kind[NextMachine] = "free"
<1>1. FreeMachines \in SUBSET Machines
  BY DEF FreeMachines
<1>2. NextMachine \in FreeMachines
  BY <1>1, MinIn DEF NextMachine
<1> QED
  BY <1>2 DEF FreeMachines

-----------------------------------------------------------------------------
(* The steps.                                                              *)

\* Only these steps change the machines, the table and what Start has launched.
LEMMA TableFrame ==
    ASSUME [Next]_vars
    PROVE  \/ \E a \in Addrs : Launch(a) \/ Dial(a)
           \/ \E m \in Machines : Forget(m)
           \/ StartCalled \/ LaunchFails \/ StartReturns
           \/ UNCHANGED <<addr, kind, bVars, startVars>>
<1>1. MainNext => UNCHANGED <<addr, kind, bVars, startVars>>
  BY DEF MainNext, MainStartFails, MainReady, MainWork, MainDone, OomDone, WorkReturns, procVars
<1>2. ShutdownNext => UNCHANGED <<addr, kind, bVars, startVars>>
  BY
     DEF ShutdownNext, ShutdownCalled, ShutdownCalledAll, ShutdownReturns, ShutdownCall, ShutdownTail, procVars
<1>3. ASSUME NEW m \in Machines, Advance(m) \/ Stop(m) \/ Crash(m) \/ Kill(m) \/ ProcessNext(m)
      PROVE  UNCHANGED <<addr, kind, bVars, startVars>>
  BY <1>3 DEF Advance, Stop, Crash, Kill, ProcessNext, ShutdownExits, WatchdogExits
<1>4. UNCHANGED vars => UNCHANGED <<addr, kind, bVars, startVars>>
  BY DEF vars, procVars
<1> QED
  BY <1>1, <1>2, <1>3, <1>4 DEF Next, StartNext

\* What B.Start registers is a machine it launched for the address.
LEMMA RegisterStep ==
    ASSUME TypeOK, LaunchInv, startPc = "launching", register
    PROVE  /\ \A m \in Machines : kind'[m] = IF m \in launched THEN "started" ELSE kind[m]
           /\ \A a \in Addrs :
                 \/ table'[a] = table[a] /\ \A m \in launched : addr[m] # a
                 \/ table'[a] \in launched /\ addr[table'[a]] = a
           /\ table' \in [Addrs -> Machines \cup {NoMachine}]
<1>1. \A m \in Machines : kind'[m] = IF m \in launched THEN "started" ELSE kind[m]
  BY DEF register
<1>2. ASSUME NEW a \in Addrs
      PROVE  \/ table'[a] = table[a] /\ \A m \in launched : addr[m] # a
             \/ table'[a] \in launched /\ addr[table'[a]] = a
  <2> DEFINE here == {m \in launched : addr[m] = a}
  <2>1. table'[a] = IF here = {} THEN table[a] ELSE Max(here)
    BY DEF register
  <2>2. here \in SUBSET Machines
    BY DEF TypeOK
  <2>3. here # {} => Max(here) \in here
    BY <2>2, MaxIn
  <2> QED
    BY <2>1, <2>3
<1>3. table' \in [Addrs -> Machines \cup {NoMachine}]
  <2>1. table' = [a \in Addrs |-> table'[a]]
    BY DEF register
  <2>2. \A a \in Addrs : table'[a] \in Machines \cup {NoMachine}
    BY <1>2 DEF TypeOK
  <2> QED
    BY <2>1, <2>2
<1> QED
  BY <1>1, <1>2, <1>3

TypeTable ==
    /\ addr \in [Machines -> Addrs \cup {"none"}]
    /\ kind \in [Machines -> {"free", "launched", "started", "dialed"}]
    /\ table \in [Addrs -> Machines \cup {NoMachine}]
    /\ watching \subseteq Machines
    /\ startPc \in {"idle", "launching", "ok", "error"}
    /\ launched \subseteq Machines

LEMMA TableTypeStep == TypeOK /\ LaunchInv /\ [Next]_vars => TypeTable'
<1> SUFFICES ASSUME TypeOK, LaunchInv, [Next]_vars PROVE TypeTable'
  OBVIOUS
<1>1. ASSUME NEW a \in Addrs, Launch(a) PROVE TypeTable'
  BY <1>1, NextFree DEF Launch, TypeOK, TypeTable, bVars
<1>2. ASSUME NEW a \in Addrs, Dial(a) PROVE TypeTable'
  BY <1>2, NextFree DEF Dial, TypeOK, TypeTable, startVars
<1>3. ASSUME NEW d \in Machines, Forget(d) PROVE TypeTable'
  BY <1>3 DEF Forget, TypeOK, TypeTable, procVars, startVars
<1>4. CASE StartCalled \/ LaunchFails
  BY <1>4 DEF StartCalled, LaunchFails, TypeOK, TypeTable, procVars, bVars
<1>5. CASE StartReturns
  <2>1. CASE register
    <3>1. kind' \in [Machines -> {"free", "launched", "started", "dialed"}]
      BY <2>1 DEF register, TypeOK
    <3>2. table' \in [Addrs -> Machines \cup {NoMachine}]
      BY <1>5, <2>1, RegisterStep DEF StartReturns
    <3> QED
      BY <1>5, <3>1, <3>2 DEF StartReturns, TypeOK, TypeTable
  <2>2. CASE ~register
    BY <1>5, <2>2 DEF StartReturns, TypeOK, TypeTable
  <2> QED
    BY <2>1, <2>2
<1>6. CASE UNCHANGED <<addr, kind, bVars, startVars>>
  BY <1>6 DEF TypeOK, TypeTable, bVars, startVars
<1> QED
  BY TableFrame, <1>1, <1>2, <1>3, <1>4, <1>5, <1>6

LEMMA LaunchStep == TypeOK /\ LaunchInv /\ [Next]_vars => LaunchInv'
<1> SUFFICES ASSUME TypeOK, LaunchInv, [Next]_vars PROVE LaunchInv'
  OBVIOUS
<1>1. ASSUME NEW a \in Addrs, Launch(a) PROVE LaunchInv'
  BY <1>1, NextFree, SMTT(30) DEF Launch, TypeOK, LaunchInv
<1>2. ASSUME NEW a \in Addrs, Dial(a) PROVE LaunchInv'
  BY <1>2, NextFree DEF Dial, TypeOK, LaunchInv, startVars
<1>3. ASSUME NEW d \in Machines, Forget(d) PROVE LaunchInv'
  BY <1>3 DEF Forget, LaunchInv, procVars, startVars
<1>4. CASE StartCalled \/ LaunchFails
  BY <1>4 DEF StartCalled, LaunchFails, LaunchInv, procVars
<1>5. CASE StartReturns
  <2>1. startPc' \in {"ok", "error"} /\ UNCHANGED <<addr, launched>>
    BY <1>5 DEF StartReturns
  <2>2. /\ \A m \in launched : kind'[m] # "free"
        /\ \A m \in Machines : kind'[m] # "free" => kind[m] # "free"
    BY <1>5, SMTT(30) DEF StartReturns, register, LaunchInv, TypeOK
  <2> QED
    BY <2>1, <2>2 DEF LaunchInv
<1>6. CASE UNCHANGED <<addr, kind, bVars, startVars>>
  BY <1>6 DEF LaunchInv, startVars
<1> QED
  BY TableFrame, <1>1, <1>2, <1>3, <1>4, <1>5, <1>6

LEMMA TableStep == TypeOK /\ LaunchInv /\ TableInv /\ [Next]_vars => TableInv'
<1> SUFFICES ASSUME TypeOK, LaunchInv, TableInv, [Next]_vars PROVE TableInv'
  OBVIOUS
<1> USE DEF NoMachine
<1>1. ASSUME NEW a \in Addrs, Launch(a) PROVE TableInv'
  <2> DEFINE m == NextMachine
  <2>1. m \in Machines /\ kind[m] = "free" /\ UNCHANGED <<table, watching>>
        /\ \A x \in Machines \ {m} : kind'[x] = kind[x] /\ addr'[x] = addr[x]
    BY <1>1, NextFree DEF Launch, TypeOK, bVars
  <2> HIDE DEF m
  <2>2. (\A b \in Addrs : table[b] # NoMachine => table[b] \in Machines \ {m}) /\ watching \subseteq Machines \ {m}
    BY <2>1, SMTT(30) DEF TableInv, TypeOK
  <2> QED
    BY <2>1, <2>2, SMTT(30) DEF TableInv
<1>2. ASSUME NEW a \in Addrs, Dial(a) PROVE TableInv'
  <2> DEFINE m == NextMachine
  <2>1. /\ m \in Machines /\ kind[m] = "free" /\ table[a] = NoMachine
        /\ addr'[m] = a /\ kind'[m] = "dialed" /\ table'[a] = m /\ watching' = watching \cup {m}
        /\ \A x \in Machines \ {m} : kind'[x] = kind[x] /\ addr'[x] = addr[x]
        /\ \A b \in Addrs \ {a} : table'[b] = table[b]
    BY <1>2, NextFree DEF Dial, TypeOK
  <2> HIDE DEF m
  <2>2. (\A b \in Addrs : table[b] # NoMachine => table[b] \in Machines \ {m}) /\ watching \subseteq Machines \ {m}
    BY <2>1, SMTT(30) DEF TableInv, TypeOK
  <2>3. m # NoMachine /\ \A d \in watching : addr[d] # a
    BY <2>1, ClusterAssumption, SMTT(30) DEF TableInv, Machines
  <2>4. \A b \in Addrs : table'[b] # NoMachine =>
          /\ addr'[table'[b]] = b /\ kind'[table'[b]] \in {"started", "dialed"}
          /\ kind'[table'[b]] = "dialed" => table'[b] \in watching'
    BY <2>1, <2>2, SMTT(30) DEF TableInv
  <2>5. \A d \in watching' :
          /\ kind'[d] = "dialed" /\ addr'[d] \in Addrs /\ table'[addr'[d]] # NoMachine
    BY <2>1, <2>2, <2>3, SMTT(30) DEF TableInv
  <2>6. \A d, e \in watching' : addr'[d] = addr'[e] => d = e
    BY <2>1, <2>2, <2>3, SMTT(30) DEF TableInv
  <2> QED
    BY <2>4, <2>5, <2>6 DEF TableInv
<1>3. ASSUME NEW d \in Machines, Forget(d) PROVE TableInv'
  <2>1. /\ d \in watching /\ watching' = watching \ {d} /\ UNCHANGED <<addr, kind>>
        /\ table'[addr[d]] = NoMachine /\ addr[d] \in Addrs
        /\ \A b \in Addrs \ {addr[d]} : table'[b] = table[b]
    BY <1>3, SMTT(30) DEF Forget, TypeOK, TableInv, procVars
  <2> QED
    BY <2>1, SMTT(30) DEF TableInv
<1>4. CASE StartCalled \/ LaunchFails
  BY <1>4, SMTT(30) DEF StartCalled, LaunchFails, TableInv, procVars, bVars
<1>5. CASE StartReturns
  <2>1. UNCHANGED <<addr, watching, launched>> /\ startPc = "launching"
    BY <1>5 DEF StartReturns
  <2>2. CASE register
    <3>1. /\ \A m \in Machines : kind'[m] = IF m \in launched THEN "started" ELSE kind[m]
          /\ \A a \in Addrs :
                 \/ table'[a] = table[a] /\ \A m \in launched : addr[m] # a
                 \/ table'[a] \in launched /\ addr[table'[a]] = a
      BY <2>1, <2>2, RegisterStep
    <3>2. \A m \in launched : m \in Machines /\ m # NoMachine /\ kind[m] = "launched"
      BY <2>1, ClusterAssumption, SMTT(30) DEF LaunchInv, TypeOK, Machines
    <3>3. \A a \in Addrs : table[a] # NoMachine => table[a] \in Machines \ launched
      BY <3>2, SMTT(30) DEF TableInv, TypeOK
    <3>4. watching \subseteq Machines \ launched
      BY <3>2 DEF TableInv, TypeOK
    <3>5. \A a \in Addrs : table'[a] # NoMachine =>
          /\ addr'[table'[a]] = a /\ kind'[table'[a]] \in {"started", "dialed"}
          /\ kind'[table'[a]] = "dialed" => table'[a] \in watching'
      BY <2>1, <3>1, <3>2, <3>3, SMTT(30) DEF TableInv
    <3>6. \A d \in watching' :
          /\ kind'[d] = "dialed" /\ addr'[d] \in Addrs /\ table'[addr'[d]] # NoMachine
          /\ \A e \in watching' : addr'[d] = addr'[e] => d = e
      BY <2>1, <3>1, <3>2, <3>4, SMTT(30) DEF TableInv
    <3> QED
      BY <3>5, <3>6 DEF TableInv
  <2>3. CASE ~register
    BY <1>5, <2>3 DEF StartReturns, TableInv
  <2> QED
    BY <2>2, <2>3
<1>6. CASE UNCHANGED <<addr, kind, bVars, startVars>>
  BY <1>6 DEF TableInv, bVars
<1> QED
  BY TableFrame, <1>1, <1>2, <1>3, <1>4, <1>5, <1>6

\* The rest of the type invariant.
TypeRest ==
    /\ sys \in {"os", "test"}
    /\ phase \in [Machines -> Unstarted .. Stopped]
    /\ proc \in [Machines -> {"none", "up", "exiting", "gone"}]
    /\ failed \in BOOLEAN /\ taken \in Nat
    /\ shut \in {"no", "call", "tail", "done"}
    /\ toCall \subseteq Machines /\ toTail \subseteq Machines
    /\ mainPc \in {"start", "work", "shutdown", "exit", "fatal"}
    /\ ready \subseteq launched /\ work \subseteq Machines \X (1 .. Procs)

\* The samples of a call are a natural number.
LEMMA ShareNat == share \in Nat
<1>1. NSamples \div Wanted \in Nat
  BY ClusterAssumption, SMTT(30)
<1> QED
  BY <1>1, ClusterAssumption, SMTT(30) DEF share

LEMMA RestTypeStep == TypeOK /\ [Next]_vars => TypeRest'
<1> SUFFICES ASSUME TypeOK, [Next]_vars PROVE TypeRest'
  OBVIOUS
<1>1. CASE StartNext
  BY <1>1, NextFree, SMTT(30) DEF StartNext, StartCalled, LaunchFails, StartReturns, Launch, TypeOK, TypeRest,
       procVars, shutVars, mainVars, startVars
<1>2. ASSUME NEW a \in Addrs, Dial(a) PROVE TypeRest'
  BY <1>2 DEF Dial, TypeOK, TypeRest, startVars, shutVars, mainVars
<1>3. ASSUME NEW m \in Machines, Forget(m) PROVE TypeRest'
  BY <1>3 DEF Forget, TypeOK, TypeRest, procVars, startVars, shutVars, mainVars
<1>4. ASSUME NEW m \in Machines, Advance(m) \/ Stop(m) PROVE TypeRest'
  <2>1. phase' \in [Machines -> Unstarted .. Stopped]
    BY <1>4, SMTT(30) DEF Advance, Stop, TypeOK, Unstarted, Starting, Running, Stopped
  <2> QED
    BY <1>4, <2>1 DEF Advance, Stop, TypeOK, TypeRest, startVars, shutVars, mainVars
<1>5. ASSUME NEW m \in Machines, Crash(m) \/ Kill(m) \/ ProcessNext(m) PROVE TypeRest'
  <2>1. proc' \in [Machines -> {"none", "up", "exiting", "gone"}]
    BY <1>5 DEF Crash, Kill, ProcessNext, ShutdownExits, WatchdogExits, SystemExit, TypeOK
  <2> QED
    BY <1>5, <2>1 DEF Crash, Kill, ProcessNext, ShutdownExits, WatchdogExits, TypeOK, TypeRest,
         startVars, shutVars, mainVars
<1>6. CASE ShutdownCalled
  <2>1. Snapshot \subseteq Machines
    BY SMTT(30) DEF Snapshot, TypeOK, NoMachine
  <2> QED
    BY <1>6, <2>1 DEF ShutdownCalled, TypeOK, TypeRest, procVars, startVars, mainVars
<1>7. ASSUME NEW m \in Machines, ShutdownCall(m) \/ ShutdownTail(m) PROVE TypeRest'
  <2>1. proc' \in [Machines -> {"none", "up", "exiting", "gone"}]
    BY <1>7 DEF ShutdownCall, ShutdownTail, TypeOK, procVars
  <2> QED
    BY <1>7, <2>1 DEF ShutdownCall, ShutdownTail, TypeOK, TypeRest, procVars, startVars, mainVars
<1>8. CASE ShutdownCalledAll \/ ShutdownReturns
  BY <1>8 DEF ShutdownCalledAll, ShutdownReturns, TypeOK, TypeRest, procVars, startVars, mainVars
<1>9. CASE MainStartFails \/ MainDone \/ OomDone
  BY <1>9 DEF MainStartFails, MainDone, OomDone, TypeOK, TypeRest, procVars, startVars, shutVars
<1>10. CASE MainReady
  <2>1. launched \ ready # {} /\ launched \ ready \in SUBSET Machines
    BY <1>10 DEF MainReady, TypeOK
  <2>2. Min(launched \ ready) \in launched
    BY <2>1, MinIn
  <2> QED
    BY <1>10, <2>2 DEF MainReady, TypeOK, TypeRest, procVars, startVars, shutVars
<1>11. CASE MainWork
  BY <1>11 DEF MainWork, TypeOK, TypeRest, procVars, startVars, shutVars
<1>12. ASSUME NEW w \in work, WorkReturns(w) PROVE TypeRest'
  <2>1. taken' = taken + share \/ taken' = taken
    BY <1>12 DEF WorkReturns
  <2>2. taken' \in Nat
    BY <2>1, ShareNat, SMTT(30) DEF TypeOK
  <2>3. failed' \in BOOLEAN
    BY <1>12 DEF WorkReturns, TypeOK
  <2> QED
    BY <1>12, <2>2, <2>3 DEF WorkReturns, TypeOK, TypeRest, procVars, startVars, shutVars
<1>13. CASE UNCHANGED vars
  BY <1>13 DEF vars, TypeOK, TypeRest, procVars, startVars, shutVars, mainVars
<1> QED
  BY <1>1, <1>2, <1>3, <1>4, <1>5, <1>6, <1>7, <1>8, <1>9, <1>10, <1>11, <1>12, <1>13
     DEF Next, MainNext, ShutdownNext

ClusterInv == TypeOK /\ LaunchInv /\ TableInv

LEMMA ClusterInit == Init => ClusterInv
<1> SUFFICES ASSUME Init PROVE ClusterInv
  OBVIOUS
<1>1. TypeOK
  <2>1. failed \in BOOLEAN /\ taken \in Nat
    BY DEF Init
  <2>2. Unstarted \in Unstarted .. Stopped
    BY SMTT(30) DEF Unstarted, Stopped
  <2> QED
    BY <2>1, <2>2 DEF Init, TypeOK
<1>2. LaunchInv /\ TableInv
  BY DEF Init, LaunchInv, TableInv
<1> QED
  BY <1>1, <1>2 DEF ClusterInv

LEMMA ClusterStep == ClusterInv /\ [Next]_vars => ClusterInv'
<1> SUFFICES ASSUME ClusterInv, [Next]_vars PROVE ClusterInv'
  OBVIOUS
<1>1. TypeTable' /\ TypeRest'
  BY TableTypeStep, RestTypeStep DEF ClusterInv
<1>2. TypeOK'
  BY <1>1 DEF TypeTable, TypeRest, TypeOK
<1> QED
  BY <1>2, LaunchStep, TableStep DEF ClusterInv

-----------------------------------------------------------------------------
(* The properties.                                                         *)

\* The variables of Cluster have their types.
THEOREM TypeCorrect == Spec => []TypeOK
<1>1. ClusterInv => TypeOK
  BY DEF ClusterInv
<1> QED
  BY <1>1, ClusterInit, ClusterStep, PTL DEF Spec

\* Dials of an address share a machine, however Dial, its goroutines and Start
\* interleave (Dial, Start).
THEOREM DialsShare == Spec => []DialShares
<1>1. ClusterInv => DialShares
  <2> SUFFICES ASSUME ClusterInv, NEW a \in Addrs
               PROVE  /\ Cardinality({d \in watching : addr[d] = a}) <= 1
                      /\ table[a] = NoMachine => {d \in watching : addr[d] = a} = {}
                      /\ table[a] # NoMachine /\ kind[table[a]] = "dialed" =>
                            table[a] \in {d \in watching : addr[d] = a}
    BY DEF DialShares
  <2> DEFINE open == {d \in watching : addr[d] = a}
  <2>1. table[a] = NoMachine => open = {}
    BY SMTT(30) DEF ClusterInv, TableInv
  <2>2. table[a] # NoMachine /\ kind[table[a]] = "dialed" => table[a] \in open
    BY DEF ClusterInv, TableInv
  <2>3. \A d, e \in open : d = e
    BY SMTT(30) DEF ClusterInv, TableInv
  <2>4. CASE open = {}
    <3>1. Cardinality(open) = 0
      BY <2>4, FS_EmptySet
    <3> QED
      BY <2>1, <2>2, <3>1, SMTT(30)
  <2>5. CASE open # {}
    <3>1. PICK d \in open : TRUE
      BY <2>5
    <3>2. open = {d}
      BY <2>3, <3>1
    <3>3. Cardinality({d}) = 1
      BY FS_Singleton
    <3>4. Cardinality(open) = 1
      BY <3>2, <3>3
    <3> QED
      BY <2>1, <2>2, <3>4, SMTT(30)
  <2> QED
    BY <2>4, <2>5
<1> QED
  BY <1>1, ClusterInit, ClusterStep, PTL DEF Spec

\* A machine that Start has returned stays in the table unless another machine
\* has had its address (Start, the goroutine of Dial).
THEOREM NoneForgotten == Spec => []NotForgotten
<1>1. Init => NotForgotten
  BY DEF Init, NotForgotten
<1>2. ClusterInv /\ NotForgotten /\ [Next]_vars => NotForgotten'
  <2> SUFFICES ASSUME ClusterInv, NotForgotten, [Next]_vars PROVE NotForgotten'
    OBVIOUS
  <2>0. TypeOK /\ LaunchInv /\ TableInv
    BY DEF ClusterInv
  <2>1. ASSUME NEW a \in Addrs, Launch(a) PROVE NotForgotten'
    <3> DEFINE n == NextMachine
    <3>1. n \in Machines /\ kind[n] = "free" /\ kind'[n] = "launched" /\ UNCHANGED table
          /\ \A x \in Machines \ {n} : kind'[x] = kind[x] /\ addr'[x] = addr[x]
      BY <2>0, <2>1, NextFree DEF Launch, TypeOK, bVars
    <3> HIDE DEF n
    <3> QED
      BY <3>1, SMTT(30) DEF NotForgotten
  <2>2. ASSUME NEW a \in Addrs, Dial(a) PROVE NotForgotten'
    <3> DEFINE n == NextMachine
    <3>1. /\ n \in Machines /\ kind[n] = "free" /\ kind'[n] = "dialed" /\ addr'[n] = a
          /\ \A x \in Machines \ {n} : kind'[x] = kind[x] /\ addr'[x] = addr[x]
          /\ table' = [table EXCEPT ![a] = n] /\ table \in [Addrs -> Machines \cup {NoMachine}]
      BY <2>0, <2>2, NextFree DEF Dial, TypeOK
    <3> HIDE DEF n
    <3>2. ASSUME NEW m \in Machines, kind'[m] = "started"
          PROVE  \/ table'[addr'[m]] = m
                 \/ \E x \in Machines \ {m} : kind'[x] \in {"started", "dialed"} /\ addr'[x] = addr'[m]
      <4>1. m # n /\ kind[m] = "started" /\ addr'[m] = addr[m]
        BY <3>1, <3>2
      <4>2. CASE addr[m] = a
        BY <3>1, <4>1, <4>2
      <4>3. CASE addr[m] # a
        <5>1. table'[addr[m]] = table[addr[m]]
          BY <3>1, <4>3, SMTT(30)
        <5> QED
          BY <3>1, <4>1, <5>1, SMTT(30) DEF NotForgotten
      <4> QED
        BY <4>2, <4>3
    <3> QED
      BY <3>2 DEF NotForgotten
  <2>3. ASSUME NEW d \in Machines, Forget(d) PROVE NotForgotten'
    <3>1. d \in Machines /\ kind[d] = "dialed" /\ UNCHANGED <<addr, kind>>
          /\ table' = [table EXCEPT ![addr[d]] = NoMachine]
      BY <2>0, <2>3 DEF Forget, TableInv, procVars
    <3>2. \A m \in Machines : kind[m] = "started" => m # d /\ (addr[m] # addr[d] => table'[addr[m]] = table[addr[m]])
      BY <3>1, SMTT(30)
    <3> QED
      BY <3>1, <3>2 DEF NotForgotten
  <2>4. CASE StartCalled \/ LaunchFails
    BY <2>4, SMTT(30) DEF StartCalled, LaunchFails, NotForgotten, procVars, bVars
  <2>5. CASE StartReturns
    <3>1. UNCHANGED <<addr, launched>> /\ startPc = "launching"
      BY <2>5 DEF StartReturns
    <3>2. CASE register
      <4>1. /\ \A m \in Machines : kind'[m] = IF m \in launched THEN "started" ELSE kind[m]
            /\ \A a \in Addrs :
                   \/ table'[a] = table[a] /\ \A m \in launched : addr[m] # a
                   \/ table'[a] \in launched /\ addr[table'[a]] = a
        BY <2>0, <3>1, <3>2, RegisterStep
      <4>2. launched \subseteq Machines /\ \A m \in launched : addr[m] \in Addrs /\ kind[m] = "launched"
        BY <2>0, <3>1 DEF LaunchInv, TypeOK
      <4>3. ASSUME NEW m \in Machines, kind'[m] = "started"
            PROVE  \/ table'[addr[m]] = m
                   \/ \E x \in Machines \ {m} : kind'[x] \in {"started", "dialed"} /\ addr[x] = addr[m]
        <5>1. CASE m \in launched
          BY <4>1, <4>2, <5>1
        <5>2. CASE m \notin launched /\ addr[m] \in Addrs
          <6>1. \A x \in Machines : kind[x] \in {"started", "dialed"} => kind'[x] = kind[x]
            BY <4>1, <4>2
          <6>2. kind[m] = "started"
            BY <4>1, <4>3, <5>2
          <6>3. CASE table'[addr[m]] = table[addr[m]]
            BY <6>1, <6>2, <6>3 DEF NotForgotten
          <6>4. CASE table'[addr[m]] \in launched /\ addr[table'[addr[m]]] = addr[m]
            BY <4>1, <4>2, <5>2, <6>4
          <6> QED
            BY <4>1, <5>2, <6>3, <6>4
        <5>3. CASE m \notin launched /\ addr[m] \notin Addrs
          BY <2>0, <4>1, <4>3, <5>3 DEF LaunchInv
        <5> QED
          BY <5>1, <5>2, <5>3
      <4> QED
        BY <3>1, <4>3 DEF NotForgotten
    <3>3. CASE ~register
      BY <2>5, <3>3 DEF StartReturns, NotForgotten
    <3> QED
      BY <3>2, <3>3
  <2>6. CASE UNCHANGED <<addr, kind, bVars, startVars>>
    BY <2>6 DEF NotForgotten, bVars
  <2> QED
    BY TableFrame, <2>1, <2>2, <2>3, <2>4, <2>5, <2>6
<1> QED
  BY <1>1, <1>2, ClusterInit, ClusterStep, PTL DEF Spec

-----------------------------------------------------------------------------
(* The samples of bigpi.                                                   *)

\* While no call has failed, the program has counted the share of every call it
\* does not wait for any more; and what Start has launched is what it wanted,
\* or less, and fixed once the calls begin.
SampleInv ==
    /\ mainPc = "start" => taken = 0 /\ work = {}
    /\ Cardinality(launched) <= Wanted
    /\ startPc = "ok" => launched # {}
    /\ mainPc \in {"work", "shutdown", "exit"} => startPc = "ok"
    /\ mainPc \in {"work", "shutdown", "exit"} /\ ~failed =>
          taken = share * (Cardinality(launched) * Procs - Cardinality(work))
    /\ mainPc \in {"shutdown", "exit"} => work = {}
    /\ shut \in {"call", "tail"} => mainPc = "shutdown"

\* The machines launched and the calls are finitely many.
LEMMA Finite ==
    ASSUME TypeOK
    PROVE  /\ IsFiniteSet(launched) /\ Cardinality(launched) \in Nat
           /\ IsFiniteSet(work) /\ Cardinality(work) \in Nat
           /\ Cardinality(launched \X (1 .. Procs)) = Cardinality(launched) * Procs
<1>1. IsFiniteSet(Machines) /\ IsFiniteSet(1 .. Procs) /\ Cardinality(1 .. Procs) = Procs
  BY FS_Interval, ClusterAssumption, SMTT(30) DEF Machines
<1>2. IsFiniteSet(launched)
  BY <1>1, FS_Subset DEF TypeOK
<1>3. IsFiniteSet(Machines \X (1 .. Procs))
  BY <1>1, FS_Product
<1>4. IsFiniteSet(work)
  BY <1>3, FS_Subset DEF TypeOK
<1>5. Cardinality(launched \X (1 .. Procs)) = Cardinality(launched) * Procs
  BY <1>1, <1>2, FS_Product
<1>6. Cardinality(launched) \in Nat /\ Cardinality(work) \in Nat
  BY <1>2, <1>4, FS_CardinalityType
<1> QED
  BY <1>2, <1>4, <1>5, <1>6

\* Facts of arithmetic that the samples need.
LEMMA DivBounds ==
    ASSUME NEW n \in Nat, NEW d \in Nat \ {0}
    PROVE  /\ n \div d \in Nat /\ d * (n \div d) <= n /\ n < d * ((n \div d) + 1)
           /\ n + 1 <= d * ((n \div d) + 1)
BY SMTT(30)

LEMMA TimesMonotonic == ASSUME NEW a \in Nat, NEW b \in Nat, NEW c \in Nat, a <= b PROVE a * c <= b * c
BY SMTT(30)

LEMMA OneMore == ASSUME NEW s \in Nat, NEW k \in Int PROVE s * k + s = s * (k + 1)
BY SMTT(30)

sampleVars == <<startVars, shut, mainVars>>

LEMMA SampleStep == TypeOK /\ SampleInv /\ [Next]_vars => SampleInv'
<1> SUFFICES ASSUME TypeOK, SampleInv, [Next]_vars PROVE SampleInv'
  OBVIOUS
<1>1. CASE StartCalled \/ LaunchFails
  BY <1>1 DEF StartCalled, LaunchFails, SampleInv, shutVars, mainVars
<1>2. ASSUME NEW a \in Addrs, Launch(a) PROVE SampleInv'
  <2>1. /\ launched' = launched \cup {NextMachine} /\ startPc = "launching"
        /\ UNCHANGED <<startPc, shut, mainPc, work, failed, taken>> /\ Cardinality(launched) < Wanted
    BY <1>2 DEF Launch, shutVars, mainVars
  <2>2. Cardinality(launched') \in {Cardinality(launched), Cardinality(launched) + 1}
    <3> DEFINE m == NextMachine
    <3> HIDE DEF m
    <3>1. IsFiniteSet(launched)
      BY Finite
    <3>2. Cardinality(launched \cup {m}) = IF m \in launched THEN Cardinality(launched) ELSE Cardinality(launched) + 1
      BY <3>1, FS_AddElement
    <3> QED
      BY <2>1, <3>2 DEF m
  <2>3. Cardinality(launched') <= Wanted
    BY <2>1, <2>2, Finite, ClusterAssumption, SMTT(30)
  <2> QED
    BY <2>1, <2>3 DEF SampleInv
<1>3. CASE StartReturns
  BY <1>3 DEF StartReturns, SampleInv, shutVars, mainVars
<1>4. CASE ShutdownCalled \/ ShutdownCalledAll \/ ShutdownReturns
  BY <1>4 DEF ShutdownCalled, ShutdownCalledAll, ShutdownReturns, SampleInv, startVars, mainVars
<1>5. CASE MainStartFails \/ MainReady
  <2>1. /\ mainPc = "start" /\ mainPc' \in {"start", "fatal"}
        /\ UNCHANGED <<startPc, launched, shut, work, failed, taken>>
    BY <1>5 DEF MainStartFails, MainReady, startVars, shutVars
  <2> QED
    BY <2>1 DEF SampleInv
<1>6. CASE MainWork
  <2>1. /\ startPc = "ok" /\ mainPc' = "work" /\ work' = launched \X (1 .. Procs) /\ taken = 0
        /\ UNCHANGED <<startPc, launched, shut, failed, taken>> /\ mainPc = "start"
    BY <1>6 DEF MainWork, startVars, shutVars, SampleInv
  <2>2. Cardinality(work') = Cardinality(launched) * Procs /\ Cardinality(launched) * Procs \in Nat
    BY <2>1, Finite, ClusterAssumption, SMTT(30)
  <2>3. share * (Cardinality(launched) * Procs - Cardinality(work')) = 0
    BY <2>2, ShareNat, SMTT(30)
  <2> QED
    BY <2>1, <2>3 DEF SampleInv
<1>7. ASSUME NEW w \in work, WorkReturns(w) PROVE SampleInv'
  <2>1. /\ mainPc = "work" /\ work' = work \ {w}
        /\ UNCHANGED <<startPc, launched, shut, mainPc>>
    BY <1>7 DEF WorkReturns, startVars, shutVars
  <2>2. Cardinality(work') = Cardinality(work) - 1
    BY <2>1, Finite, FS_RemoveElement
  <2>3. CASE failed'
    BY <2>1, <2>3 DEF SampleInv
  <2>4. CASE ~failed'
    <3>1. taken' = taken + share /\ ~failed
      BY <1>7, <2>4, SMTT(30) DEF WorkReturns, TypeOK
    <3> DEFINE k == Cardinality(launched) * Procs - Cardinality(work)
    <3>2. taken = share * k
      BY <2>1, <3>1 DEF SampleInv
    <3>3. k \in Int /\ Cardinality(launched) * Procs - Cardinality(work') = k + 1
      BY <2>2, Finite, ClusterAssumption, SMTT(30)
    <3> HIDE DEF k
    <3>4. taken' = share * (k + 1)
      BY <3>1, <3>2, <3>3, ShareNat, OneMore
    <3> QED
      BY <2>1, <3>3, <3>4 DEF SampleInv
  <2> QED
    BY <2>3, <2>4
<1>8. CASE MainDone \/ OomDone
  BY <1>8 DEF MainDone, OomDone, SampleInv, startVars, shutVars
<1>9. ASSUME UNCHANGED sampleVars PROVE SampleInv'
  BY <1>9 DEF sampleVars, startVars, mainVars, SampleInv
<1>10. ASSUME NEW m \in Machines,
              \/ ShutdownCall(m) \/ ShutdownTail(m) \/ Forget(m) \/ Advance(m) \/ Stop(m)
              \/ Crash(m) \/ Kill(m) \/ ProcessNext(m)
       PROVE  UNCHANGED sampleVars
  BY <1>10 DEF ShutdownCall, ShutdownTail, Forget, Advance, Stop, Crash, Kill, ProcessNext,
       ShutdownExits, WatchdogExits, shutVars, sampleVars
<1>11. ASSUME NEW a \in Addrs, Dial(a) PROVE UNCHANGED sampleVars
  BY <1>11 DEF Dial, shutVars, sampleVars
<1>12. UNCHANGED vars => UNCHANGED sampleVars
  BY DEF vars, shutVars, sampleVars
<1> QED
  BY <1>1, <1>2, <1>3, <1>4, <1>5, <1>6, <1>7, <1>8, <1>9, <1>10, <1>11, <1>12, SMTT(30)
     DEF Next, MainNext, ShutdownNext, StartNext

\* The shares of every processor of every wanted machine miss less than one
\* sample for each processor.
LEMMA ShareBounds ==
    /\ share * Procs * Wanted <= NSamples
    /\ NSamples < Wanted * Procs * (share + 1)
<1> DEFINE q == NSamples \div Wanted
<1>0. NSamples \in Nat /\ Wanted \in Nat \ {0} /\ Procs \in Nat \ {0} /\ share \in Nat
  BY ClusterAssumption, ShareNat
<1>1. q \in Nat /\ Wanted * q <= NSamples /\ NSamples < Wanted * (q + 1)
  BY <1>0, DivBounds
<1>2. share = q \div Procs
  BY DEF share
<1> HIDE DEF q
<1>3. Procs * share <= q /\ q + 1 <= Procs * (share + 1)
  BY <1>0, <1>1, <1>2, DivBounds
<1>4. (Procs * share) * Wanted <= q * Wanted
  BY <1>0, <1>1, <1>3, TimesMonotonic, SMTT(30)
<1>5. (q + 1) * Wanted <= (Procs * (share + 1)) * Wanted
  BY <1>0, <1>1, <1>3, TimesMonotonic, SMTT(30)
<1> QED
  BY <1>0, <1>1, <1>4, <1>5, SMTT(30)

\* A program that prints its estimate has had machines and has counted its
\* samples but for rounding (main of bigpi, B.Start).
THEOREM EstimateIsComplete == Spec => []EstimateComplete
<1>1. Init => SampleInv
  BY FS_EmptySet, ClusterAssumption, SMTT(30) DEF Init, SampleInv
<1>2. TypeOK /\ SampleInv => EstimateComplete
  <2> SUFFICES ASSUME TypeOK, SampleInv, mainPc \in {"shutdown", "exit"}, ~failed
               PROVE  /\ launched # {} /\ taken <= NSamples
                      /\ NSamples - taken < Wanted * Procs + (Wanted - Cardinality(launched)) * Procs * share
    BY DEF EstimateComplete
  <2> DEFINE L == Cardinality(launched)
  <2>1. launched # {} /\ L \in Nat /\ L <= Wanted
    BY Finite DEF SampleInv
  <2>2. Cardinality(work) = 0
    BY FS_EmptySet DEF SampleInv
  <2>3. taken = share * (L * Procs)
    <3>1. taken = share * (L * Procs - Cardinality(work)) /\ L * Procs \in Nat
      BY <2>1, ClusterAssumption, SMTT(30) DEF SampleInv
    <3> QED
      BY <2>2, <3>1, SMTT(30)
  <2> HIDE DEF L
  <2>4. NSamples \in Nat /\ Wanted \in Nat /\ Procs \in Nat /\ share \in Nat
    BY ClusterAssumption, ShareNat
  <2>5. share * Procs \in Nat /\ taken = L * (share * Procs)
    BY <2>1, <2>3, <2>4, SMTT(30)
  <2>6. L * (share * Procs) <= Wanted * (share * Procs)
    BY <2>1, <2>4, <2>5, TimesMonotonic
  <2>7. taken <= NSamples
    BY <2>4, <2>5, <2>6, ShareBounds, SMTT(30)
  <2>8. Wanted * Procs + (Wanted - L) * Procs * share = Wanted * Procs * (share + 1) - taken
    BY <2>1, <2>4, <2>5, SMTT(30)
  <2>9. NSamples - taken < Wanted * Procs * (share + 1) - taken
    BY <2>1, <2>4, <2>5, ShareBounds, SMTT(30)
  <2> QED
    BY <2>1, <2>7, <2>8, <2>9 DEF L
<1> QED
  BY <1>1, <1>2, TypeCorrect, SampleStep, PTL DEF Spec
=============================================================================
