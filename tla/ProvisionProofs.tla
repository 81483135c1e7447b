-------------------------- MODULE ProvisionProofs --------------------------
(***************************************************************************)
(* Proofs about CloudConfig and Provision: for every data space, and for   *)
(* any number of drivers, instances and calls of Start.                    *)
(***************************************************************************)
EXTENDS Provision, TLAPS

\* The prover of the leaves that name none.
USE ZenonT(60)

\* A driver has an authority once it has been through Init, and keeps it; the
\* file of a local driver has it as well.
AuthInv ==
    \A d \in Drivers :
        /\ pc[d] \in {"init", "generate", "write"} => auth[d] = NoOne
        /\ pc[d] \in {"ready", "describe", "run", "wait", "list", "ok", "error", "empty"} => auth[d] # NoOne
        /\ sys = "local" /\ auth[d] # NoOne => file[d] = auth[d]

\* The instances of a Start are its driver's, and there are none before it.
OwnerInv ==
    /\ \A i \in Instances : istate[i] # "none" => owner[i] \in Drivers /\ auth[owner[i]] # NoOne
    /\ \A d \in Drivers :
          /\ \A i \in batch[d] \cup machines[d] : istate[i] # "none" /\ owner[i] = d
          /\ pc[d] \in {"describe", "run"} => batch[d] = {}
          /\ pc[d] \in {"wait", "list"} => batch[d] # {}

\* An instance that has begun its script does not boot again.
RunsInv ==
    \A i \in Instances :
        /\ istate[i] \in {"none", "boot", "script"} => runs[i] = 0
        /\ sys = "ec2" /\ (runs[i] > 0 \/ istate[i] = "script") => i \in poweroff

\* What an instance is given depends on the configuration alone.
PlanInv == plan = [devices |-> present(cfg), units |-> started(cfg)]

-----------------------------------------------------------------------------
(* The volumes and the units.                                              *)

\* The volumes have the space asked for, or all but the remainder.
LEMMA Space == ASSUME NEW n \in Nat PROVE SpaceFor(n)
<1> DEFINE k == (n + 335 - 1) \div 335
<1>1. k \in Nat /\ 335 * k <= n + 334 /\ n + 334 < 335 * k + 335
  BY SMTT(30)
<1> DEFINE q == n \div 25
<1>2. q \in Nat /\ 25 * q <= n /\ n < 25 * q + 25
  BY SMTT(30)
<1>3. sliceConfig(n) = IF k <= 25 THEN [n |-> k, size |-> 335] ELSE [n |-> 25, size |-> q]
  BY DEF sliceConfig, minDataVolumeSliceSize, maxInstanceDataVolumes
<1> HIDE DEF k, q
<1>4. CASE k <= 25
  <2>1. sliceConfig(n).n = k /\ sliceConfig(n).size = 335
    BY <1>3, <1>4, SMTT(30)
  <2> QED
    BY <1>1, <1>4, <2>1, SMTT(30) DEF SpaceFor, minDataVolumeSliceSize, maxInstanceDataVolumes
<1>5. CASE ~(k <= 25)
  <2>1. sliceConfig(n).n = 25 /\ sliceConfig(n).size = q
    BY <1>3, <1>5, SMTT(30)
  <2> QED
    BY <1>1, <1>2, <1>5, <2>1, SMTT(30) DEF SpaceFor, minDataVolumeSliceSize, maxInstanceDataVolumes
<1> QED
  BY <1>1, <1>4, <1>5

\* The number of volumes is a natural.
LEMMA SlicesType == ASSUME NEW n \in Nat PROVE sliceConfig(n).n \in Nat
BY SMTT(30) DEF sliceConfig, minDataVolumeSliceSize, maxInstanceDataVolumes

\* The devices formatted have the data volumes, and all are in the mounts.
LEMMA DevicesMatch ==
    ASSUME NEW c, c.dataspace \in Nat PROVE DevicesMatchFor(c)
<1> DEFINE m == sliceConfig(c.dataspace).n
           k == IF c.type.nvme THEN "nvme" ELSE "xvd"
<1>1. m \in Nat
  BY SlicesType
<1>2. Range(devices(c)) = {devices(c)[i] : i \in 1 .. m} /\ Len(devices(c)) = m
  BY <1>1, SMTT(30) DEF Range, devices
<1>3. ASSUME NEW a \in attached(c)
      PROVE  /\ Range(devices(c)) \subseteq DOMAIN a
             /\ {a[d] : d \in Range(devices(c))} = blockDevices(c) \ {0}
  <2>1. Range(devices(c)) = {<<k, i>> : i \in 1 .. m}
    <3>1. \A i \in 1 .. m : devices(c)[i] = <<k, i>>
      BY DEF devices
    <3> QED
      BY <1>2, <3>1
  <2>2. present(c) = {k} \X (0 .. m) /\ blockDevices(c) = 0 .. m
    BY DEF present, blockDevices
  <2>3. /\ a \in [present(c) -> 0 .. m]
        /\ \A d, e \in present(c) : a[d] = a[e] => d = e
        /\ \A j \in 0 .. m : \E d \in present(c) : a[d] = j
    BY <2>2 DEF attached, Bijection, Injection, Surjection, IsInjective
  <2>4. <<k, 0>> \in present(c) /\ a[<<k, 0>>] = 0
    <3>1. <<k, 0>> \in present(c)
      BY <1>1, <2>2, SMTT(30)
    <3>2. <<k, 0>>[2] = 0
      OBVIOUS
    <3> QED
      BY <3>1, <3>2 DEF attached
  <2> HIDE DEF m, k
  <2>5. \A i \in 1 .. m : <<k, i>> \in present(c) /\ i # 0 /\ i \in 0 .. m
    BY <1>1, <2>2, SMTT(30)
  <2>6. ASSUME NEW i \in 1 .. m PROVE a[<<k, i>>] \in (0 .. m) \ {0}
    <3>1. <<k, i>> # <<k, 0>>
      BY <2>5
    <3> QED
      BY <2>3, <2>4, <2>5, <3>1
  <2>7. ASSUME NEW j \in (0 .. m) \ {0} PROVE \E i \in 1 .. m : a[<<k, i>>] = j
    <3>1. PICK d \in present(c) : a[d] = j
      BY <2>3
    <3>2. PICK i \in 0 .. m : d = <<k, i>>
      BY <2>2, SMTT(30)
    <3>3. i # 0
      BY <2>4, <3>1, <3>2
    <3>4. i \in 1 .. m
      BY <1>1, <3>2, <3>3, SMTT(30)
    <3> QED
      BY <3>1, <3>2, <3>4
  <2>8. {a[d] : d \in Range(devices(c))} = {a[<<k, i>>] : i \in 1 .. m}
    BY <2>1
  <2>9. DOMAIN a = present(c)
    BY <2>3
  <2>10. Range(devices(c)) \subseteq DOMAIN a
    BY <2>1, <2>5, <2>9
  <2> HIDE DEF m
  <2>11. {a[<<k, i>>] : i \in 1 .. m} = (0 .. m) \ {0}
    BY <2>6, <2>7
  <2> QED
    BY <2>2, <2>8, <2>10, <2>11
<1>4. ASSUME c.flavor = "ubuntu" PROVE Range(devices(c)) \subseteq mounts(c)
  <2>1. CASE m = 0
    BY <1>2, <2>1, SMTT(30)
  <2>2. CASE m = 1
    <3>1. dataDevice(c) = devices(c)[1] /\ Range(devices(c)) = {devices(c)[1]}
      BY <1>2, <2>2, SMTT(30) DEF dataDevice
    <3>2. hasData(c)
      BY <1>2, <2>2, <3>1, SMTT(30) DEF hasData, devices
    <3> QED
      BY <1>4, <3>1, <3>2 DEF mounts
  <2>3. CASE m > 1
    <3>1. dataDevice(c) = <<"md", 0>>
      BY <1>1, <1>2, <2>3, SMTT(30) DEF dataDevice
    <3> QED
      BY <1>2, <1>4, <2>3, <3>1, SMTT(30) DEF mounts, hasData
  <2> QED
    BY <1>1, <2>1, <2>2, <2>3, SMTT(30)
<1> QED
  BY <1>3, <1>4 DEF DevicesMatchFor

\* On an instance with a data partition, bootmachine waits for its mount.
LEMMA BootUnitWaits ==
    ASSUME NEW c, NEW u \in started(c), u.name = "bootmachine", hasData(c)
    PROVE  "mnt-data" \in u.needs
<1> DEFINE first == IF c.flavor = "flatcar"
                    THEN <<unit("stop-update-engine", {}, {}), unit("stop-locksmithd", {}, {})>> ELSE <<>>
<1>1. u \in Range(units(c))
  BY DEF started, Marshal
<1>2. PICK j \in DOMAIN units(c) : u = units(c)[j]
  BY <1>1 DEF Range
<1>3. units(c) = (first \o storageUnits(c)) \o bootUnits(c)
  BY DEF units
<1>4. first \in Seq({unit("stop-update-engine", {}, {}), unit("stop-locksmithd", {}, {})})
  <2>1. CASE c.flavor = "flatcar"
    BY <2>1, SMTT(30)
  <2>2. CASE c.flavor # "flatcar"
    BY <2>2, SMTT(30)
  <2> QED
    BY <2>1, <2>2
<1> HIDE DEF first
<1>5. /\ storageUnits(c) = <<unit("format", {}, Range(devices(c))), unit("mnt-data", {"format"}, {})>>
      /\ bootUnits(c) = <<unit("update-sysctl", {}, {}), unit("bootmachine", {"mnt-data"}, {})>>
  BY DEF storageUnits, bootUnits
<1>6. u \in {unit("stop-update-engine", {}, {}), unit("stop-locksmithd", {}, {}),
             unit("format", {}, Range(devices(c))), unit("mnt-data", {"format"}, {}),
             unit("update-sysctl", {}, {}), unit("bootmachine", {"mnt-data"}, {})}
  BY <1>2, <1>3, <1>4, <1>5, SMTT(30)
<1> QED
  BY <1>6, SMTT(30) DEF unit

-----------------------------------------------------------------------------
(* Type correctness, and the invariants.                                   *)

LEMMA NextCases ==
    ASSUME [Next]_vars
    PROVE  \/ \E d \in Drivers :
                 \/ InitFails(d) \/ readAuthority(d) \/ createAuthority(d) \/ writeAuthority(d)
                 \/ DriverGone(d) \/ StartCalled(d) \/ DescribeImages(d) \/ RunInstances(d)
                 \/ WaitRunning(d) \/ ListInstances(d)
           \/ \E i \in Instances :
                 \/ \E u \in plan.units : StartUnit(i, u) \/ UnitFails(i, u) \/ BootScript(i, u)
                 \/ ProcessStarts(i) \/ ProcessEnds(i) \/ Reboot(i)
           \/ \E d \in Drivers, i \in Instances : Connect(d, i) \/ CallFails(d, i)
           \/ Tick \/ UNCHANGED vars
BY DEF Next, DriverNext, BootNext

\* What fixes an instance's fate at launch never changes.
LEMMA Fixed == [Next]_vars => UNCHANGED <<sys, cfg, plan>>
BY NextCases, SMTT(30) DEF InitFails, readAuthority, createAuthority, writeAuthority, DriverGone, StartCalled,
     DescribeImages, RunInstances, WaitRunning, ListInstances, StartUnit, UnitFails, BootScript,
     ProcessStarts, ProcessEnds, Reboot, Connect, CallFails, Tick, vars

LEMMA PathType == ASSUME TypeOK, NEW d \in Drivers PROVE path(d) \in Drivers \cup {"shared"}
BY DEF path

LEMMA TypeStep == TypeOK /\ OwnerInv /\ [Next]_vars => TypeOK'
<1> SUFFICES ASSUME TypeOK, OwnerInv, [Next]_vars PROVE TypeOK'
  OBVIOUS
<1>0. UNCHANGED <<sys, cfg, plan>>
  BY Fixed
<1>t. /\ pc \in [Drivers -> {"init", "generate", "write", "ready", "describe", "run", "wait",
                             "list", "ok", "error", "empty", "gone"}]
      /\ file \in [Drivers \cup {"shared"} -> Drivers \cup {"absent", "partial"}]
      /\ auth \in [Drivers -> Drivers \cup {NoOne}]
      /\ batch \in [Drivers -> SUBSET Instances] /\ machines \in [Drivers -> SUBSET Instances]
  BY DEF TypeOK
<1>1. ASSUME NEW d \in Drivers, InitFails(d) \/ DriverGone(d) PROVE TypeOK'
  BY <1>0, <1>1 DEF InitFails, DriverGone, TypeOK, tlsVars, instVars
<1>2. ASSUME NEW d \in Drivers, readAuthority(d) PROVE TypeOK'
  <2>1. /\ pc' \in [Drivers -> {"init", "generate", "write", "ready", "describe", "run", "wait",
                                "list", "ok", "error", "empty", "gone"}]
        /\ auth' \in [Drivers -> Drivers \cup {NoOne}]
    <3>1. CASE file[path(d)] \in {"absent", "partial"}
      BY <1>2, <1>t, <3>1, SMTT(30) DEF readAuthority
    <3>2. CASE file[path(d)] \notin {"absent", "partial"}
      <4>1. file[path(d)] \in Drivers
        BY <1>t, <3>2, PathType
      <4>2. pc' = [pc EXCEPT ![d] = "ready"] /\ auth' = [auth EXCEPT ![d] = file[path(d)]]
        BY <1>2, <3>2 DEF readAuthority
      <4> QED
        BY <1>t, <4>1, <4>2
    <3> QED
      BY <3>1, <3>2
  <2> QED
    BY <1>0, <1>2, <2>1 DEF readAuthority, TypeOK, tlsVars, instVars
<1>3. ASSUME NEW d \in Drivers, createAuthority(d) \/ writeAuthority(d) PROVE TypeOK'
  <2>1. file' \in [Drivers \cup {"shared"} -> Drivers \cup {"absent", "partial"}]
    BY <1>3, <1>t, PathType, SMTT(30) DEF createAuthority, writeAuthority
  <2>2. /\ pc' \in [Drivers -> {"init", "generate", "write", "ready", "describe", "run", "wait",
                                "list", "ok", "error", "empty", "gone"}]
        /\ auth' \in [Drivers -> Drivers \cup {NoOne}]
    BY <1>3, <1>t, SMTT(30) DEF createAuthority, writeAuthority
  <2> QED
    BY <1>0, <1>3, <2>1, <2>2 DEF createAuthority, writeAuthority, TypeOK, tlsVars, instVars
<1>4. ASSUME NEW d \in Drivers, StartCalled(d) PROVE TypeOK'
  BY <1>0, <1>4, SMTT(30) DEF StartCalled, TypeOK, tlsVars, instVars
<1>5. ASSUME NEW d \in Drivers, DescribeImages(d) PROVE TypeOK'
  BY <1>0, <1>5, SMTT(30) DEF DescribeImages, TypeOK, tlsVars, instVars
<1>6. ASSUME NEW d \in Drivers, RunInstances(d) PROVE TypeOK'
  <2>1. PICK is \in SUBSET Instances : launch(d, is)
    BY <1>6 DEF RunInstances
  <2>2. pc' \in [Drivers -> {"init", "generate", "write", "ready", "describe", "run", "wait",
                             "list", "ok", "error", "empty", "gone"}]
    BY <1>6, <1>t, SMTT(30) DEF RunInstances
  <2>3. /\ owner' \in [Instances -> Drivers \cup {NoOne}]
        /\ istate' \in [Instances -> {"none", "boot", "script", "serving", "failed", "off"}]
        /\ batch' \in [Drivers -> SUBSET Instances]
        /\ UNCHANGED <<ca, active, poweroff, runs, rebooted>>
    BY <2>1 DEF launch, TypeOK
  <2> QED
    BY <1>0, <1>6, <2>2, <2>3 DEF RunInstances, TypeOK, tlsVars
<1>7. ASSUME NEW d \in Drivers, WaitRunning(d) \/ ListInstances(d) PROVE TypeOK'
  <2>1. /\ pc' \in [Drivers -> {"init", "generate", "write", "ready", "describe", "run", "wait",
                                "list", "ok", "error", "empty", "gone"}]
        /\ machines' \in [Drivers -> SUBSET Instances]
    BY <1>7, <1>t, SMTT(30) DEF WaitRunning, ListInstances
  <2> QED
    BY <1>0, <1>7, <2>1, SMTT(30) DEF WaitRunning, ListInstances, TypeOK, tlsVars, instVars
<1>8. ASSUME NEW i \in Instances, NEW u \in plan.units, StartUnit(i, u) PROVE TypeOK'
  <2>1. u.name \in {"format", "mnt-data"} /\ active' = [active EXCEPT ![i] = @ \cup {u.name}]
    BY <1>8 DEF StartUnit
  <2>2. active' \in [Instances -> SUBSET {"format", "mnt-data"}]
    BY <2>1 DEF TypeOK
  <2> QED
    BY <1>0, <1>8, <2>2 DEF StartUnit, TypeOK, driverVars, tlsVars
<1>9. ASSUME NEW i \in Instances, NEW u \in plan.units, UnitFails(i, u) PROVE TypeOK'
  BY <1>0, <1>9, SMTT(30) DEF UnitFails, fail, TypeOK, driverVars, tlsVars
<1>10. ASSUME NEW i \in Instances, NEW u \in plan.units, BootScript(i, u) PROVE TypeOK'
  BY <1>0, <1>10 DEF BootScript, TypeOK, driverVars, tlsVars
<1>11. ASSUME NEW i \in Instances, ProcessStarts(i) PROVE TypeOK'
  <2>1. owner[i] \in Drivers
    BY <1>11 DEF ProcessStarts, OwnerInv
  <2>2. authorityOf(owner[i]) \in Drivers \cup {NoOne, "absent", "partial"}
    BY <2>1, PathType DEF authorityOf, TypeOK
  <2> QED
    BY <1>0, <1>11, <2>2, SMTT(30) DEF ProcessStarts, TypeOK, driverVars, tlsVars
<1>12. ASSUME NEW i \in Instances, ProcessEnds(i) PROVE TypeOK'
  BY <1>0, <1>12 DEF ProcessEnds, fail, TypeOK, driverVars, tlsVars
<1>13. ASSUME NEW i \in Instances, Reboot(i) PROVE TypeOK'
  BY <1>0, <1>13 DEF Reboot, TypeOK, driverVars, tlsVars
<1>14. ASSUME NEW d \in Drivers, NEW i \in Instances, Connect(d, i) PROVE TypeOK'
  <2>0. client[d][i] \in 0 .. NoCert /\ issued[d] \in 0 .. NoCert /\ clock \in 0 .. MaxClock
    BY DEF TypeOK
  <2>1. clientCert(d) \in 0 .. NoCert /\ getClient(d, i) \in 0 .. MaxClock
    BY <2>0, ProvisionAssumption, SMTT(30) DEF clientCert, ec2HTTPClient, localHTTPClient, getClient, NoCert
  <2>2. 0 .. MaxClock \subseteq 0 .. NoCert /\ NoCert \in 0 .. NoCert
    BY ProvisionAssumption, SMTT(30) DEF NoCert
  <2>3. issued' \in [Drivers -> 0 .. NoCert] /\ client' \in [Drivers -> [Instances -> 0 .. NoCert]]
    BY <1>14, <2>1, <2>2 DEF Connect, TypeOK
  <2>4. refused' \in [Drivers -> [Instances -> SUBSET (0 .. MaxClock)]]
    <3>1. refused' = [refused EXCEPT ![d][i] = IF accepted(d, i) THEN {} ELSE @ \cup {getClient(d, i)}]
      BY <1>14 DEF Connect
    <3>2. refused \in [Drivers -> [Instances -> SUBSET (0 .. MaxClock)]]
      BY DEF TypeOK
    <3>3. refused[d][i] \cup {getClient(d, i)} \in SUBSET (0 .. MaxClock)
      BY <2>1, <3>2
    <3> QED
      BY <3>1, <3>2, <3>3
  <2>5. again' \subseteq Drivers \X Instances
    <3>1. again \subseteq Drivers \X Instances /\ <<d, i>> \in Drivers \X Instances
      BY DEF TypeOK
    <3>2. again' = again \cup {<<d, i>>} \/ again' = again \ {<<d, i>>}
      BY <1>14 DEF Connect
    <3> QED
      BY <3>1, <3>2
  <2> QED
    BY <1>0, <1>14, <2>3, <2>4, <2>5 DEF Connect, TypeOK, driverVars, instVars
<1>17. ASSUME NEW d \in Drivers, NEW i \in Instances, CallFails(d, i) PROVE TypeOK'
  <2>1. NoCert \in 0 .. NoCert
    BY ProvisionAssumption, SMTT(30) DEF NoCert
  <2> QED
    BY <1>0, <1>17, <2>1 DEF CallFails, TypeOK, driverVars, instVars
<1>15. CASE Tick
  BY <1>0, <1>15, ProvisionAssumption, SMTT(30) DEF Tick, TypeOK, driverVars, instVars
<1>16. CASE UNCHANGED vars
  BY <1>16 DEF vars, TypeOK, driverVars, instVars, tlsVars
<1> QED
  BY NextCases, <1>1, <1>2, <1>3, <1>4, <1>5, <1>6, <1>7, <1>8, <1>9, <1>10, <1>11, <1>12, <1>13,
     <1>14, <1>15, <1>16, <1>17

\* A driver that has an authority keeps it.
LEMMA AuthStep ==
    TypeOK /\ AuthInv /\ [Next]_vars => AuthInv' /\ (\A d \in Drivers : auth[d] # NoOne => auth'[d] = auth[d])
<1> SUFFICES ASSUME TypeOK, AuthInv, [Next]_vars
             PROVE  AuthInv' /\ (\A d \in Drivers : auth[d] # NoOne => auth'[d] = auth[d])
  OBVIOUS
<1>0. UNCHANGED <<sys, cfg, plan>>
  BY Fixed
<1>1. ASSUME NEW d \in Drivers, readAuthority(d)
      PROVE  AuthInv' /\ (\A e \in Drivers : auth[e] # NoOne => auth'[e] = auth[e])
  <2>1. pc[d] = "init" /\ auth[d] = NoOne /\ UNCHANGED file
    BY <1>1 DEF readAuthority, AuthInv
  <2>2. /\ \A e \in Drivers \ {d} : pc'[e] = pc[e] /\ auth'[e] = auth[e]
        /\ pc'[d] \in {"generate", "gone"} => auth'[d] = NoOne
        /\ \/ pc'[d] \in {"generate", "gone"}
           \/ pc'[d] = "ready" /\ auth'[d] = file[path(d)] /\ file[path(d)] \notin {"absent", "partial"}
    BY <1>1, <2>1, SMTT(30) DEF readAuthority, TypeOK
  <2>3. file[path(d)] \notin {"absent", "partial"} => file[path(d)] # NoOne
    BY PathType, ProvisionAssumption DEF TypeOK
  <2>4. sys = "local" => path(d) = d
    BY DEF path
  <2> QED
    BY <1>0, <2>1, <2>2, <2>3, <2>4 DEF AuthInv
<1>2. ASSUME NEW d \in Drivers, createAuthority(d) \/ writeAuthority(d)
      PROVE  AuthInv' /\ (\A e \in Drivers : auth[e] # NoOne => auth'[e] = auth[e])
  <2>1. auth[d] = NoOne
    BY <1>2 DEF createAuthority, writeAuthority, AuthInv
  <2>2. /\ \A e \in Drivers \ {d} : pc'[e] = pc[e] /\ auth'[e] = auth[e]
        /\ sys = "local" => \A e \in Drivers \ {d} : file'[e] = file[e]
    BY <1>2, SMTT(30) DEF createAuthority, writeAuthority, TypeOK, path
  <2>3. \/ pc'[d] = "write" /\ auth'[d] = NoOne
        \/ pc'[d] = "ready" /\ auth'[d] = d /\ (sys = "local" => file'[d] = d)
    BY <1>2, <2>1, SMTT(30) DEF createAuthority, writeAuthority, TypeOK, path
  <2> QED
    BY <1>0, <2>1, <2>2, <2>3, ProvisionAssumption DEF AuthInv
<1>3. ASSUME NEW d \in Drivers,
             \/ InitFails(d) \/ DriverGone(d) \/ StartCalled(d) \/ DescribeImages(d)
             \/ RunInstances(d) \/ WaitRunning(d) \/ ListInstances(d)
      PROVE  AuthInv' /\ UNCHANGED auth
  <2>1. /\ \A e \in Drivers \ {d} : pc'[e] = pc[e]
        /\ UNCHANGED <<auth, file>>
        /\ pc'[d] \in {"describe", "run", "wait", "list", "ok", "error", "empty", "gone"}
        /\ pc'[d] # "gone" =>
              pc[d] \in {"ready", "describe", "run", "wait", "list", "error", "empty"}
    BY <1>3, SMTT(30) DEF InitFails, DriverGone, StartCalled, DescribeImages, RunInstances, WaitRunning,
         ListInstances, TypeOK
  <2> QED
    BY <1>0, <2>1 DEF AuthInv
<1>4. ASSUME UNCHANGED <<pc, auth, file>> PROVE AuthInv' /\ UNCHANGED auth
  BY <1>0, <1>4 DEF AuthInv
<1>5. ASSUME NEW i \in Instances,
             \/ \E u \in plan.units : StartUnit(i, u) \/ UnitFails(i, u) \/ BootScript(i, u)
             \/ ProcessStarts(i) \/ ProcessEnds(i) \/ Reboot(i)
      PROVE  UNCHANGED <<pc, auth, file>>
  BY <1>5 DEF StartUnit, UnitFails, BootScript, ProcessStarts, ProcessEnds, Reboot, driverVars
<1>6. ASSUME NEW d \in Drivers, NEW i \in Instances, Connect(d, i) \/ CallFails(d, i)
      PROVE  UNCHANGED <<pc, auth, file>>
  BY <1>6 DEF Connect, CallFails, driverVars
<1>7. Tick \/ UNCHANGED vars => UNCHANGED <<pc, auth, file>>
  BY DEF Tick, driverVars, vars
<1> QED
  BY NextCases, <1>1, <1>2, <1>3, <1>4, <1>5, <1>6, <1>7

\* The steps of an instance, of TLS and of the clock leave the drivers alone and
\* launch nothing.
LEMMA DriverFrame ==
    ASSUME TypeOK, [Next]_vars
    PROVE  \/ \E d \in Drivers :
                 \/ InitFails(d) \/ readAuthority(d) \/ createAuthority(d) \/ writeAuthority(d)
                 \/ DriverGone(d) \/ StartCalled(d) \/ DescribeImages(d) \/ RunInstances(d)
                 \/ WaitRunning(d) \/ ListInstances(d)
           \/ /\ UNCHANGED <<driverVars, owner>>
              /\ \A j \in Instances : istate[j] = "none" => istate'[j] = "none"
<1> DEFINE Alone == /\ UNCHANGED <<driverVars, owner>>
                    /\ \A j \in Instances : istate[j] = "none" => istate'[j] = "none"
<1>1. ASSUME NEW i \in Instances, NEW u \in plan.units, StartUnit(i, u) \/ UnitFails(i, u) \/ BootScript(i, u)
      PROVE  Alone
  BY <1>1, SMTT(30) DEF StartUnit, UnitFails, BootScript, fail, TypeOK
<1>2. ASSUME NEW i \in Instances, ProcessStarts(i) \/ ProcessEnds(i) \/ Reboot(i) PROVE Alone
  BY <1>2, SMTT(30) DEF ProcessStarts, ProcessEnds, Reboot, fail, TypeOK
<1>3. ASSUME NEW d \in Drivers, NEW i \in Instances, Connect(d, i) \/ CallFails(d, i) PROVE Alone
  BY <1>3 DEF Connect, CallFails, instVars
<1>4. Tick \/ UNCHANGED vars => Alone
  BY DEF Tick, instVars, vars
<1> HIDE DEF Alone
<1>5. Alone \/ \E d \in Drivers :
                 \/ InitFails(d) \/ readAuthority(d) \/ createAuthority(d) \/ writeAuthority(d)
                 \/ DriverGone(d) \/ StartCalled(d) \/ DescribeImages(d) \/ RunInstances(d)
                 \/ WaitRunning(d) \/ ListInstances(d)
  BY NextCases, <1>1, <1>2, <1>3, <1>4
<1> QED
  BY <1>5 DEF Alone

\* An instance is launched once.
LEMMA StaysLaunched ==
    ASSUME TypeOK, [Next]_vars, NEW j \in Instances, istate[j] # "none" PROVE istate'[j] # "none"
<1>1. ASSUME NEW d \in Drivers,
             \/ InitFails(d) \/ readAuthority(d) \/ createAuthority(d) \/ writeAuthority(d)
             \/ DriverGone(d) \/ StartCalled(d) \/ DescribeImages(d)
             \/ WaitRunning(d) \/ ListInstances(d)
      PROVE  istate'[j] # "none"
  BY <1>1 DEF InitFails, readAuthority, createAuthority, writeAuthority, DriverGone, StartCalled,
       DescribeImages, WaitRunning, ListInstances, instVars
<1>2. ASSUME NEW d \in Drivers, RunInstances(d) PROVE istate'[j] # "none"
  BY <1>2 DEF RunInstances, launch
<1>3. ASSUME NEW i \in Instances, NEW u \in plan.units, StartUnit(i, u) \/ UnitFails(i, u) \/ BootScript(i, u)
      PROVE  istate'[j] # "none"
  BY <1>3, SMTT(30) DEF StartUnit, UnitFails, BootScript, fail, TypeOK
<1>4. ASSUME NEW i \in Instances, ProcessStarts(i) \/ ProcessEnds(i) \/ Reboot(i) PROVE istate'[j] # "none"
  BY <1>4, SMTT(30) DEF ProcessStarts, ProcessEnds, Reboot, fail, TypeOK
<1>5. ASSUME NEW d \in Drivers, NEW i \in Instances, Connect(d, i) \/ CallFails(d, i)
      PROVE  istate'[j] # "none"
  BY <1>5 DEF Connect, CallFails, instVars
<1>6. Tick \/ UNCHANGED vars => istate'[j] # "none"
  BY DEF Tick, instVars, vars
<1> QED
  BY NextCases, <1>1, <1>2, <1>3, <1>4, <1>5, <1>6

LEMMA OwnerStep == TypeOK /\ AuthInv /\ OwnerInv /\ [Next]_vars => OwnerInv'
<1> SUFFICES ASSUME TypeOK, AuthInv, OwnerInv, [Next]_vars PROVE OwnerInv'
  OBVIOUS
<1>0. \A d \in Drivers : auth[d] # NoOne => auth'[d] # NoOne
  BY AuthStep
<1>1. \A j \in Instances : istate[j] # "none" => istate'[j] # "none"
  BY StaysLaunched
<1>2. ASSUME NEW d \in Drivers, RunInstances(d) PROVE OwnerInv'
  <2>1. PICK is \in SUBSET Instances :
          /\ launch(d, is)
          /\ is # {} \/ pc'[d] = "error"
    BY <1>2, SMTT(30) DEF RunInstances, TypeOK
  <2>2. /\ pc[d] = "run" /\ batch[d] = {} /\ auth[d] # NoOne
        /\ UNCHANGED <<auth, machines>>
        /\ \A e \in Drivers \ {d} : pc'[e] = pc[e]
        /\ pc'[d] \in {"wait", "list", "error"}
    BY <1>2, SMTT(30) DEF RunInstances, TypeOK, AuthInv, OwnerInv
  <2>3. /\ \A i \in is : istate[i] = "none" /\ istate'[i] # "none" /\ owner'[i] = d
        /\ \A i \in Instances \ is : istate'[i] = istate[i] /\ owner'[i] = owner[i]
        /\ batch'[d] = is /\ \A e \in Drivers \ {d} : batch'[e] = batch[e]
    BY <2>1, <2>2, SMTT(30) DEF launch, Unused, TypeOK
  <2>4. ASSUME NEW i \in Instances, istate'[i] # "none" PROVE owner'[i] \in Drivers /\ auth'[owner'[i]] # NoOne
    <3>1. CASE i \in is
      BY <2>2, <2>3, <3>1
    <3>2. CASE i \notin is
      BY <2>2, <2>3, <2>4, <3>2, SMTT(30) DEF OwnerInv
    <3> QED
      BY <3>1, <3>2
  <2>5. \A e \in Drivers : \A i \in batch[e] \cup machines[e] : i \in Instances /\ i \notin is
    BY <2>3 DEF OwnerInv, TypeOK
  <2>6. \A e \in Drivers : \A i \in batch'[e] \cup machines'[e] : istate'[i] # "none" /\ owner'[i] = e
    <3>1. \A e \in Drivers : \A i \in batch[e] \cup machines[e] : istate'[i] # "none" /\ owner'[i] = e
      BY <2>3, <2>5, SMTT(30) DEF OwnerInv
    <3> QED
      BY <2>2, <2>3, <3>1, SMTT(30)
  <2>7. \A e \in Drivers : /\ pc'[e] \in {"describe", "run"} => batch'[e] = {}
                           /\ pc'[e] \in {"wait", "list"} => batch'[e] # {}
    BY <2>1, <2>2, <2>3, SMTT(30) DEF OwnerInv
  <2> QED
    BY <2>4, <2>6, <2>7 DEF OwnerInv
<1>3. ASSUME NEW d \in Drivers,
             \/ InitFails(d) \/ readAuthority(d) \/ createAuthority(d) \/ writeAuthority(d)
             \/ DriverGone(d) \/ StartCalled(d) \/ DescribeImages(d)
             \/ WaitRunning(d) \/ ListInstances(d)
      PROVE  OwnerInv'
  <2>1. UNCHANGED <<istate, owner>>
    BY <1>3 DEF InitFails, readAuthority, createAuthority, writeAuthority, DriverGone, StartCalled,
         DescribeImages, WaitRunning, ListInstances, instVars
  <2>2. \A e \in Drivers \ {d} : pc'[e] = pc[e] /\ batch'[e] = batch[e] /\ machines'[e] = machines[e]
    BY <1>3, SMTT(30) DEF InitFails, readAuthority, createAuthority, writeAuthority, DriverGone, StartCalled,
         DescribeImages, WaitRunning, ListInstances, TypeOK
  <2>3. /\ batch'[d] \in {{}, batch[d]} /\ machines'[d] \in {machines[d], batch[d]}
        /\ pc'[d] \in {"describe", "run"} => batch'[d] = {}
        /\ pc'[d] \in {"wait", "list"} => pc[d] = "wait" /\ batch'[d] = batch[d]
    BY <1>3, SMTT(30) DEF InitFails, readAuthority, createAuthority, writeAuthority, DriverGone, StartCalled,
         DescribeImages, WaitRunning, ListInstances, TypeOK, OwnerInv
  <2> QED
    BY <1>0, <2>1, <2>2, <2>3, SMTT(30) DEF OwnerInv
<1>4. CASE /\ UNCHANGED <<driverVars, owner>>
           /\ \A j \in Instances : istate[j] = "none" => istate'[j] = "none"
  BY <1>0, <1>1, <1>4 DEF OwnerInv, driverVars, TypeOK
<1> QED
  BY DriverFrame, <1>2, <1>3, <1>4

\* A driver's steps, TLS and the clock leave the instances alone, but for a launch.
LEMMA InstanceFrame ==
    ASSUME [Next]_vars
    PROVE  \/ \E d \in Drivers : RunInstances(d)
           \/ \E i \in Instances :
                 \/ \E u \in plan.units : StartUnit(i, u) \/ UnitFails(i, u) \/ BootScript(i, u)
                 \/ ProcessStarts(i) \/ ProcessEnds(i) \/ Reboot(i)
           \/ UNCHANGED instVars
<1>1. ASSUME NEW d \in Drivers,
             \/ InitFails(d) \/ readAuthority(d) \/ createAuthority(d) \/ writeAuthority(d)
             \/ DriverGone(d) \/ StartCalled(d) \/ DescribeImages(d)
             \/ WaitRunning(d) \/ ListInstances(d)
      PROVE  UNCHANGED instVars
  BY <1>1 DEF InitFails, readAuthority, createAuthority, writeAuthority, DriverGone, StartCalled,
       DescribeImages, WaitRunning, ListInstances
<1>2. ASSUME NEW d \in Drivers, NEW i \in Instances, Connect(d, i) \/ CallFails(d, i)
      PROVE  UNCHANGED instVars
  BY <1>2 DEF Connect, CallFails
<1>3. Tick \/ UNCHANGED vars => UNCHANGED instVars
  BY DEF Tick, vars
<1> QED
  BY NextCases, <1>1, <1>2, <1>3

LEMMA RunsStep == TypeOK /\ RunsInv /\ [Next]_vars => RunsInv'
<1> SUFFICES ASSUME TypeOK, RunsInv, [Next]_vars PROVE RunsInv'
  OBVIOUS
<1>0. UNCHANGED <<sys, cfg, plan>>
  BY Fixed
<1>1. ASSUME NEW d \in Drivers, RunInstances(d) PROVE RunsInv'
  <2>1. PICK is \in SUBSET Instances : launch(d, is)
    BY <1>1 DEF RunInstances
  <2>2. UNCHANGED <<runs, poweroff>>
        /\ \A i \in Instances : \/ istate'[i] = istate[i]
                                \/ /\ istate[i] = "none" /\ istate'[i] \in {"boot", "script"}
                                   /\ sys = "ec2" => istate'[i] = "boot"
    BY <2>1 DEF launch, Unused, TypeOK
  <2> QED
    BY <1>0, <2>2 DEF RunsInv
<1>2. ASSUME NEW i \in Instances, NEW u \in plan.units, StartUnit(i, u) \/ UnitFails(i, u) PROVE RunsInv'
  BY <1>0, <1>2, SMTT(30) DEF StartUnit, UnitFails, fail, RunsInv, TypeOK
<1>3. ASSUME NEW i \in Instances, NEW u \in plan.units, BootScript(i, u) PROVE RunsInv'
  <2>1. /\ istate[i] = "boot" /\ istate'[i] = "script" /\ poweroff' = poweroff \cup {i} /\ UNCHANGED runs
        /\ \A j \in Instances \ {i} : istate'[j] = istate[j]
    BY <1>3, SMTT(30) DEF BootScript, TypeOK
  <2> QED
    BY <1>0, <2>1 DEF RunsInv
<1>4. ASSUME NEW i \in Instances, ProcessStarts(i) PROVE RunsInv'
  BY <1>0, <1>4 DEF ProcessStarts, RunsInv, TypeOK
<1>5. ASSUME NEW i \in Instances, ProcessEnds(i) PROVE RunsInv'
  BY <1>0, <1>5, SMTT(30) DEF ProcessEnds, fail, RunsInv, TypeOK
<1>6. ASSUME NEW i \in Instances, Reboot(i) PROVE RunsInv'
  BY <1>0, <1>6, SMTT(30) DEF Reboot, RunsInv, TypeOK
<1>7. CASE UNCHANGED instVars
  BY <1>0, <1>7 DEF instVars, RunsInv
<1> QED
  BY InstanceFrame, <1>1, <1>2, <1>3, <1>4, <1>5, <1>6, <1>7

ProvisionInv == TypeOK /\ AuthInv /\ OwnerInv /\ RunsInv /\ PlanInv

LEMMA ProvisionInit == Init => ProvisionInv
<1> SUFFICES ASSUME Init PROVE ProvisionInv
  OBVIOUS
<1>1. TypeOK
  <2>1. 0 \in 0 .. MaxClock /\ NoCert \in 0 .. NoCert /\ 0 \in Nat
    BY ProvisionAssumption, SMTT(30) DEF NoCert
  <2> QED
    BY <2>1 DEF Init, TypeOK
<1>2. AuthInv /\ OwnerInv /\ RunsInv /\ PlanInv
  BY ProvisionAssumption, SMTT(30) DEF Init, AuthInv, OwnerInv, RunsInv, PlanInv
<1> QED
  BY <1>1, <1>2 DEF ProvisionInv

LEMMA ProvisionStep == ProvisionInv /\ [Next]_vars => ProvisionInv'
<1>1. PlanInv /\ [Next]_vars => PlanInv'
  BY Fixed DEF PlanInv
<1> QED
  BY <1>1, TypeStep, AuthStep, OwnerStep, RunsStep DEF ProvisionInv

-----------------------------------------------------------------------------
(* The properties.                                                         *)

\* The variables of Provision have their types.
THEOREM TypeCorrect == Spec => []TypeOK
<1>1. ProvisionInv => TypeOK
  BY DEF ProvisionInv
<1> QED
  BY <1>1, ProvisionInit, ProvisionStep, PTL DEF Spec

\* Of every size of the data space, the volumes have it, but for the remainder of
\* the division beyond 25 slices; and whichever name EC2 gives to which volume, the
\* devices the instance formats, stripes and mounts hold all of the data volumes
\* and not the root volume (sliceConfig, cloudConfig).
THEOREM StorageFits == Spec => []StorageMatches
<1>1. \A n \in Sizes : SpaceFor(n)
  BY Space, ProvisionAssumption
<1>2. ASSUME NEW n \in Striped, NEW f \in {"flatcar", "ubuntu"}, NEW t \in Types
      PROVE  DevicesMatchFor([flavor |-> f, type |-> t, dataspace |-> n])
  <2> DEFINE c == [flavor |-> f, type |-> t, dataspace |-> n]
  <2>1. c.dataspace \in Nat
    BY ProvisionAssumption
  <2> QED
    BY <2>1, DevicesMatch
<1>3. StorageMatches
  BY <1>1, <1>2 DEF StorageMatches
<1> QED
  BY <1>3, PTL

\* With a data partition, the process runs only once it is mounted
\* (bootmachine.service).
THEOREM MountedFirst == Spec => []BootAfterMount
<1>1. Init => BootAfterMount
  BY DEF Init, BootAfterMount
<1>2. ProvisionInv /\ BootAfterMount /\ [Next]_vars => BootAfterMount'
  <2> SUFFICES ASSUME ProvisionInv, BootAfterMount, [Next]_vars PROVE BootAfterMount'
    OBVIOUS
  <2>0. TypeOK /\ PlanInv /\ UNCHANGED <<sys, cfg, plan>>
    BY Fixed DEF ProvisionInv
  <2>7. UNCHANGED hasData(cfg)
    BY <2>0
  <2>1. ASSUME NEW d \in Drivers, RunInstances(d) PROVE BootAfterMount'
    <3>1. PICK is \in SUBSET Instances : launch(d, is)
      BY <2>1 DEF RunInstances
    <3>2. UNCHANGED active /\ \A i \in Instances : istate'[i] = istate[i] \/ istate'[i] = "boot" \/ sys # "ec2"
      BY <3>1 DEF launch
    <3> QED
      BY <2>0, <2>7, <3>2 DEF BootAfterMount
  <2>2. ASSUME NEW i \in Instances, NEW u \in plan.units, StartUnit(i, u) PROVE BootAfterMount'
    <3>1. UNCHANGED istate /\ \A j \in Instances : active[j] \subseteq active'[j]
      BY <2>0, <2>2, SMTT(30) DEF StartUnit, TypeOK
    <3> QED
      BY <2>0, <2>7, <3>1 DEF BootAfterMount
  <2>3. ASSUME NEW i \in Instances, NEW u \in plan.units, BootScript(i, u) PROVE BootAfterMount'
    <3>1. hasData(cfg) => "mnt-data" \in u.needs
      BY <2>0, <2>3, BootUnitWaits DEF BootScript, PlanInv
    <3>2. /\ UNCHANGED active /\ u.needs \subseteq active[i]
          /\ \A j \in Instances \ {i} : istate'[j] = istate[j]
      BY <2>0, <2>3, SMTT(30) DEF BootScript, TypeOK
    <3> QED
      BY <2>0, <2>7, <3>1, <3>2 DEF BootAfterMount
  <2>4. ASSUME NEW i \in Instances, ProcessStarts(i) PROVE BootAfterMount'
    <3>1. UNCHANGED active /\ istate[i] = "script" /\ \A j \in Instances \ {i} : istate'[j] = istate[j]
      BY <2>0, <2>4 DEF ProcessStarts, TypeOK
    <3> QED
      BY <2>0, <2>7, <3>1 DEF BootAfterMount
  <2>5. ASSUME NEW i \in Instances, ProcessEnds(i) \/ Reboot(i) \/ (\E u \in plan.units : UnitFails(i, u))
        PROVE  BootAfterMount'
    <3>1. /\ istate'[i] \notin {"script", "serving"}
          /\ \A j \in Instances \ {i} : istate'[j] = istate[j] /\ active'[j] = active[j]
      BY <2>0, <2>5, SMTT(30) DEF UnitFails, ProcessEnds, Reboot, fail, TypeOK
    <3> QED
      BY <2>0, <2>7, <3>1 DEF BootAfterMount
  <2>6. CASE UNCHANGED instVars
    BY <2>0, <2>7, <2>6 DEF instVars, BootAfterMount
  <2> QED
    BY InstanceFrame, <2>1, <2>2, <2>3, <2>4, <2>5, <2>6
<1> QED
  BY <1>1, <1>2, ProvisionInit, ProvisionStep, PTL DEF Spec

\* An empty batch has no instance: the recursion of Cardinality ends at once.
LEMMA NoneInEmpty == Cardinality({}) = 0
<1> DEFINE F(f) == f = [T \in SUBSET {} |-> IF T = {} THEN 0 ELSE 1 + f[T \ {CHOOSE x : x \in T}]]
           g == [T \in SUBSET {} |-> 0]
<1>1. F(g)
  OBVIOUS
<1>2. F(CHOOSE f : F(f))
  BY <1>1
<1>3. (CHOOSE f : F(f))[{}] = 0
  BY <1>2
<1> QED
  BY <1>3 DEF Cardinality

\* No Start launches more than it was asked for or loses one it returns, and no
\* instance starts its process again (Start, run, the bootmachine script).
THEOREM NothingLaunchedTwice == Spec => []LaunchedOnce
<1> DEFINE Batches == \A d \in Drivers : /\ Cardinality(batch[d]) <= Count
                                         /\ pc[d] = "ok" => machines[d] = batch[d] /\ batch[d] # {}
           Runs == \A i \in Instances : runs[i] <= 1
<1>0. Cardinality({}) = 0 /\ Count \in Nat
  BY NoneInEmpty, ProvisionAssumption
<1>1. Init => Batches /\ Runs
  BY <1>0, SMTT(30) DEF Init
<1>2. ProvisionInv /\ Batches /\ [Next]_vars => Batches'
  <2> SUFFICES ASSUME ProvisionInv, Batches, [Next]_vars PROVE Batches'
    OBVIOUS
  <2>0. TypeOK /\ OwnerInv
    BY DEF ProvisionInv
  <2>1. ASSUME NEW d \in Drivers, RunInstances(d) PROVE Batches'
    <3>1. PICK is \in SUBSET Instances : launch(d, is)
      BY <2>1 DEF RunInstances
    <3>2. batch[d] = {} /\ pc'[d] # "ok" /\ UNCHANGED machines /\ \A e \in Drivers \ {d} : pc'[e] = pc[e]
      BY <2>0, <2>1, SMTT(30) DEF RunInstances, OwnerInv, TypeOK
    <3>3. /\ batch'[d] = is /\ Cardinality(is) <= Count
          /\ \A e \in Drivers \ {d} : batch'[e] = batch[e]
      BY <2>0, <3>1, <3>2, SMTT(30) DEF launch, TypeOK
    <3> QED
      BY <3>2, <3>3
  <2>2. ASSUME NEW d \in Drivers,
               \/ InitFails(d) \/ readAuthority(d) \/ createAuthority(d) \/ writeAuthority(d)
               \/ DriverGone(d) \/ StartCalled(d) \/ DescribeImages(d) \/ WaitRunning(d)
        PROVE  Batches'
    <3>1. /\ UNCHANGED machines /\ pc'[d] # "ok" /\ batch'[d] \in {{}, batch[d]}
          /\ \A e \in Drivers \ {d} : pc'[e] = pc[e] /\ batch'[e] = batch[e]
      BY <2>0, <2>2, SMTT(30) DEF InitFails, readAuthority, createAuthority, writeAuthority, DriverGone,
           StartCalled, DescribeImages, WaitRunning, TypeOK
    <3>2. Cardinality(batch'[d]) <= Count
      <4>1. CASE batch'[d] = {}
        <5>1. Cardinality(batch'[d]) = 0
          BY <1>0, <4>1
        <5> QED
          BY <1>0, <5>1, SMTT(30)
      <4>2. CASE batch'[d] = batch[d]
        BY <4>2
      <4> QED
        BY <3>1, <4>1, <4>2
    <3> QED
      BY <3>1, <3>2
  <2>3. ASSUME NEW d \in Drivers, ListInstances(d) PROVE Batches'
    <3>1. /\ UNCHANGED batch /\ batch[d] # {}
          /\ pc'[d] = "ok" => machines'[d] = batch[d]
          /\ \A e \in Drivers \ {d} : pc'[e] = pc[e] /\ machines'[e] = machines[e]
      BY <2>0, <2>3, SMTT(30) DEF ListInstances, OwnerInv, TypeOK
    <3> QED
      BY <3>1
  <2>4. CASE UNCHANGED <<driverVars, owner>>
    BY <2>4 DEF driverVars
  <2> QED
    BY <2>0, DriverFrame, <2>1, <2>2, <2>3, <2>4
<1>3. ProvisionInv /\ Runs /\ [Next]_vars => Runs'
  <2> SUFFICES ASSUME ProvisionInv, Runs, [Next]_vars PROVE Runs'
    OBVIOUS
  <2>1. ASSUME NEW i \in Instances, ProcessStarts(i) PROVE Runs'
    <3>1. runs[i] = 0 /\ runs' = [runs EXCEPT ![i] = @ + 1] /\ runs \in [Instances -> Nat]
      BY <2>1 DEF ProcessStarts, ProvisionInv, RunsInv, TypeOK
    <3> QED
      BY <3>1, SMTT(30)
  <2>2. ASSUME UNCHANGED runs PROVE Runs'
    BY <2>2
  <2>3. ASSUME NEW i \in Instances,
               \/ \E u \in plan.units : StartUnit(i, u) \/ UnitFails(i, u) \/ BootScript(i, u)
               \/ ProcessEnds(i) \/ Reboot(i)
        PROVE  UNCHANGED runs
    BY <2>3 DEF StartUnit, UnitFails, BootScript, ProcessEnds, Reboot
  <2>4. ASSUME NEW d \in Drivers, RunInstances(d) PROVE UNCHANGED runs
    BY <2>4 DEF RunInstances, launch
  <2>5. UNCHANGED instVars => UNCHANGED runs
    BY DEF instVars
  <2> QED
    BY InstanceFrame, <2>1, <2>2, <2>3, <2>4, <2>5
<1>4. Batches /\ Runs => LaunchedOnce
  BY DEF LaunchedOnce
<1> QED
  BY <1>1, <1>2, <1>3, <1>4, ProvisionInit, ProvisionStep, PTL DEF Spec

\* A machine verifies clients with the authority of the driver that launched it
\* (authority.New, cloudConfig, the local Start).
THEOREM TrustsItsDriver == Spec => []MachineTrustsDriver
<1>1. Init => MachineTrustsDriver
  BY DEF Init, MachineTrustsDriver
<1>2. ProvisionInv /\ MachineTrustsDriver /\ [Next]_vars => MachineTrustsDriver'
  <2> SUFFICES ASSUME ProvisionInv, MachineTrustsDriver, [Next]_vars PROVE MachineTrustsDriver'
    OBVIOUS
  <2>0. TypeOK /\ AuthInv /\ OwnerInv
    BY DEF ProvisionInv
  <2>1. \A d \in Drivers : auth[d] # NoOne => auth'[d] = auth[d]
    BY <2>0, AuthStep
  <2>2. \A i \in Instances : istate[i] = "serving" => owner[i] \in Drivers /\ auth[owner[i]] # NoOne
    BY <2>0 DEF OwnerInv
  <2>3. ASSUME NEW d \in Drivers, RunInstances(d) PROVE MachineTrustsDriver'
    <3>1. PICK is \in SUBSET Instances : launch(d, is)
      BY <2>3 DEF RunInstances
    <3>2. UNCHANGED ca /\ \A i \in Instances : istate'[i] = "serving" => istate[i] = "serving" /\ owner'[i] = owner[i]
      BY <3>1 DEF launch, Unused
    <3> QED
      BY <2>1, <2>2, <3>2, SMTT(30) DEF MachineTrustsDriver
  <2>4. ASSUME NEW i \in Instances, ProcessStarts(i) PROVE MachineTrustsDriver'
    <3>1. /\ ca'[i] = authorityOf(owner[i]) /\ UNCHANGED <<owner, auth>>
          /\ \A j \in Instances \ {i} : ca'[j] = ca[j] /\ istate'[j] = istate[j]
      BY <2>0, <2>4 DEF ProcessStarts, TypeOK, driverVars
    <3>2. owner[i] \in Drivers /\ auth[owner[i]] # NoOne
      BY <2>0, <2>4 DEF ProcessStarts, OwnerInv
    <3>3. authorityOf(owner[i]) = auth[owner[i]]
      BY <2>0, <3>2 DEF authorityOf, path, AuthInv, TypeOK
    <3> QED
      BY <3>1, <3>2, <3>3 DEF MachineTrustsDriver
  <2>5. ASSUME UNCHANGED <<owner, ca>>, \A i \in Instances : istate'[i] = "serving" => istate[i] = "serving"
        PROVE  MachineTrustsDriver'
    BY <2>1, <2>2, <2>5 DEF MachineTrustsDriver
  <2>6. ASSUME NEW i \in Instances,
               \/ \E u \in plan.units : StartUnit(i, u) \/ UnitFails(i, u) \/ BootScript(i, u)
               \/ ProcessEnds(i) \/ Reboot(i)
        PROVE  UNCHANGED <<owner, ca>> /\ \A j \in Instances : istate'[j] = "serving" => istate[j] = "serving"
    <3>1. UNCHANGED <<owner, ca>>
      BY <2>6 DEF StartUnit, UnitFails, BootScript, ProcessEnds, Reboot
    <3>2. /\ istate'[i] = istate[i] \/ istate'[i] \in {"boot", "script", "off", "failed"}
          /\ \A j \in Instances \ {i} : istate'[j] = istate[j]
      BY <2>0, <2>6, SMTT(30) DEF StartUnit, UnitFails, BootScript, ProcessEnds, Reboot, fail, TypeOK
    <3> QED
      BY <3>1, <3>2
  <2>7. UNCHANGED instVars => UNCHANGED <<owner, ca, istate>>
    BY DEF instVars
  <2> QED
    BY InstanceFrame, <2>3, <2>4, <2>5, <2>6, <2>7
<1> QED
  BY <1>1, <1>2, ProvisionInit, ProvisionStep, PTL DEF Spec

\* The local system has no client for an instance that has just refused it.
ClientInv ==
    sys = "local" =>
        again = {} /\ \A d \in Drivers, i \in Instances : refused[d][i] # {} => client[d][i] = NoCert

\* A machine refuses its driver only when the driver's certificate has expired,
\* and two calls in a row only with the EC2 system, which makes one certificate
\* (HTTPClient, updateClientState).
THEOREM RefusedOnlyExpired == Spec => []RefusedExpired
<1> DEFINE Inv == RefusedExpired /\ ClientInv
<1>1. Init => Inv
  BY SMTT(30) DEF Init, RefusedExpired, ClientInv
<1>2. ProvisionInv /\ MachineTrustsDriver /\ Inv /\ [Next]_vars => Inv'
  <2> SUFFICES ASSUME ProvisionInv, MachineTrustsDriver, RefusedExpired, ClientInv, [Next]_vars PROVE Inv'
    OBVIOUS
  <2>0. TypeOK /\ OwnerInv /\ UNCHANGED sys /\ clock \in Nat /\ CertDuration \in Nat
    BY Fixed, ProvisionAssumption, SMTT(30) DEF ProvisionInv, TypeOK
  <2>t. /\ refused \in [Drivers -> [Instances -> SUBSET (0 .. MaxClock)]]
        /\ client \in [Drivers -> [Instances -> 0 .. NoCert]]
        /\ issued \in [Drivers -> 0 .. NoCert]
    BY <2>0 DEF TypeOK
  <2>u. clock \in 0 .. MaxClock /\ MaxClock \in Nat
    BY <2>0, ProvisionAssumption DEF TypeOK
  <2>1. ASSUME NEW d \in Drivers, NEW i \in Instances, Connect(d, i) PROVE Inv'
    <3>0. i \in machines[d] /\ istate[i] = "serving"
      BY <2>1 DEF Connect
    <3>1. ca[i] = auth[d]
      <4>1. owner[i] = d
        BY <2>0, <3>0 DEF OwnerInv
      <4> QED
        BY <3>0, <4>1 DEF MachineTrustsDriver
    <3>2. getClient(d, i) \in 0 .. MaxClock
      <4>1. client[d][i] \in 0 .. NoCert /\ issued[d] \in 0 .. NoCert
        BY <2>t
      <4> QED
        BY <2>u, <4>1, SMTT(30) DEF getClient, clientCert, ec2HTTPClient, localHTTPClient, NoCert
    <3>3. ~accepted(d, i) => clock > getClient(d, i) + CertDuration
      BY <2>0, <3>1, <3>2, SMTT(30) DEF accepted
    <3>4. ~accepted(d, i) /\ sys = "local" => refused[d][i] = {}
      <4>1. CASE client[d][i] # NoCert
        BY <4>1 DEF ClientInv
      <4>2. CASE client[d][i] = NoCert /\ sys = "local"
        <5>1. getClient(d, i) = clock
          BY <4>2 DEF getClient, clientCert, ec2HTTPClient, localHTTPClient
        <5> QED
          BY <2>0, <3>3, <5>1, SMTT(30)
      <4> QED
        BY <4>1, <4>2
    <3>5. UNCHANGED clock
      BY <2>1 DEF Connect
    <3>6. /\ \A e \in Drivers, j \in Instances : <<e, j>> # <<d, i>> =>
                refused'[e][j] = refused[e][j] /\ client'[e][j] = client[e][j]
          /\ client'[d][i] = IF accepted(d, i) THEN getClient(d, i) ELSE NoCert
          /\ refused'[d][i] = IF accepted(d, i) THEN {} ELSE refused[d][i] \cup {getClient(d, i)}
      <4>1. /\ client' = [client EXCEPT ![d][i] = IF accepted(d, i) THEN getClient(d, i) ELSE NoCert]
            /\ refused' = [refused EXCEPT ![d][i] = IF accepted(d, i) THEN {} ELSE @ \cup {getClient(d, i)}]
        BY <2>1 DEF Connect
      <4> QED
        BY <2>t, <4>1
    <3>7. again' \subseteq again \/ (~accepted(d, i) /\ refused[d][i] # {})
      BY <2>1 DEF Connect
    <3>8. sys = "local" => again' = {}
      BY <3>4, <3>7 DEF ClientInv
    <3>9. again' # {} => sys = "ec2"
      <4>1. sys \in {"ec2", "local"}
        BY <2>0 DEF TypeOK
      <4> QED
        BY <3>8, <4>1
    <3>10. \A t \in refused'[d][i] : clock > t + CertDuration
      BY <3>3, <3>6 DEF RefusedExpired
    <3>11. RefusedExpired'
      BY <2>0, <3>5, <3>6, <3>9, <3>10 DEF RefusedExpired
    <3>12. ClientInv'
      BY <2>0, <3>6, <3>8 DEF ClientInv
    <3> QED
      BY <3>11, <3>12
  <2>2. CASE Tick
    <3>1. UNCHANGED <<client, refused, again>> /\ clock' = clock + 1
      BY <2>2 DEF Tick
    <3>2. ClientInv'
      BY <2>0, <3>1 DEF ClientInv
    <3>3. ASSUME NEW e \in Drivers, NEW j \in Instances, NEW t \in refused[e][j]
          PROVE  clock + 1 > t + CertDuration
      <4>1. t \in 0 .. MaxClock /\ clock > t + CertDuration
        BY <2>t DEF RefusedExpired
      <4> QED
        BY <2>0, <4>1, SMTT(30)
    <3>4. RefusedExpired'
      BY <2>0, <3>1, <3>3 DEF RefusedExpired
    <3> QED
      BY <3>2, <3>4
  <2>7. ASSUME NEW d \in Drivers, NEW i \in Instances, CallFails(d, i) PROVE Inv'
    <3>1. /\ UNCHANGED <<refused, again, clock>>
          /\ \A e \in Drivers, j \in Instances : client'[e][j] \in {client[e][j], NoCert}
      BY <2>t, <2>7, SMTT(30) DEF CallFails
    <3> QED
      BY <2>0, <3>1 DEF RefusedExpired, ClientInv
  <2>3. ASSUME UNCHANGED tlsVars PROVE Inv'
    BY <2>0, <2>3 DEF tlsVars, RefusedExpired, ClientInv
  <2>4. ASSUME NEW d \in Drivers,
               \/ InitFails(d) \/ readAuthority(d) \/ createAuthority(d) \/ writeAuthority(d)
               \/ DriverGone(d) \/ StartCalled(d) \/ DescribeImages(d) \/ RunInstances(d)
               \/ WaitRunning(d) \/ ListInstances(d)
        PROVE  UNCHANGED tlsVars
    BY <2>4 DEF InitFails, readAuthority, createAuthority, writeAuthority, DriverGone, StartCalled,
         DescribeImages, RunInstances, WaitRunning, ListInstances
  <2>5. ASSUME NEW i \in Instances,
               \/ \E u \in plan.units : StartUnit(i, u) \/ UnitFails(i, u) \/ BootScript(i, u)
               \/ ProcessStarts(i) \/ ProcessEnds(i) \/ Reboot(i)
        PROVE  UNCHANGED tlsVars
    BY <2>5 DEF StartUnit, UnitFails, BootScript, ProcessStarts, ProcessEnds, Reboot
  <2>6. UNCHANGED vars => UNCHANGED tlsVars
    BY DEF vars
  <2> QED
    BY NextCases, <2>1, <2>2, <2>3, <2>4, <2>5, <2>6, <2>7
<1> QED
  BY <1>1, <1>2, TrustsItsDriver, ProvisionInit, ProvisionStep, PTL DEF Spec
=============================================================================
