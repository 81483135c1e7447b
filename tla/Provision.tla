----------------------------- MODULE Provision -----------------------------
(***************************************************************************)
(* How machines come about and go: driver processes that share a host set  *)
(* up their system (package Start and run; Init of the EC2 and the local   *)
(* system with the certificate authority of internal/authority), launch    *)
(* instances (System.Start), the instances boot under systemd, run the     *)
(* bootstrap binary, serve TLS, and power off.                             *)
(*                                                                         *)
(* EC2 itself, systemd and TLS are external: EC2 launches what it is asked *)
(* for or not, and its answers may be lost; systemd starts a unit when     *)
(* what it requires is active and takes OnFailure when it fails; a server  *)
(* accepts a client certificate of its own authority that has not expired. *)
(* A key stands for an authority; each driver generates its own.           *)
(***************************************************************************)
EXTENDS CloudConfig, FiniteSets

CONSTANTS
    Drivers,        \* bound: the driver processes on the host
    Instances,      \* bound: the instances (processes, if local) there may be
    Count,          \* how many machines Start is asked for
    MaxStarts,      \* bound: calls of Start, for each driver
    CertDuration,   \* certDuration, in ticks
    MaxClock,       \* bound: the ticks there are
    Configs,        \* bound: the configurations of the EC2 system
    Sizes,          \* bound: values of Dataspace for sliceConfig alone
    Striped         \* bound: values of Dataspace for the devices of an instance

NoOne == "nobody"
NoCert == MaxClock + 1      \* no certificate has been issued

ASSUME ProvisionAssumption ==
    /\ Count \in Nat \ {0} /\ MaxStarts \in [Drivers -> Nat] /\ CertDuration \in Nat /\ MaxClock \in Nat
    /\ Configs \subseteq System /\ Sizes \subseteq Nat /\ Striped \subseteq Nat
    /\ NoOne \notin Drivers

VARIABLES
    sys,        \* "ec2" or "local"
    cfg,        \* the configuration of the EC2 system
    plan,       \* the devices and the units Start gives to every instance
    file,       \* the authority file: /tmp/bigmachine.pem, or a driver's own
    pc,         \* where each driver is
    auth,       \* s.authority
    describe,   \* describeImages: not done, done, or failed
    starts,     \* how often the driver has called Start
    batch,      \* the instances launched for the current Start
    machines,   \* the machines Start returned
    issued,     \* when the driver's last client certificate was issued
    client,     \* of the http.Client the rpc client has for an instance: when its certificate was
    refused,    \* the certificates an instance has refused since it accepted one
    again,      \* the drivers and instances that refused them twice in a row
    owner,      \* the driver that launched the instance
    istate,     \* where the instance is
    ca,         \* the authority the instance's server verifies clients with
    active,     \* its active units
    poweroff,   \* poweroff is its default target
    runs,       \* how often the bootstrap process was started on it
    rebooted,   \* bound: instances reboot once
    clock

driverVars == <<file, pc, auth, describe, starts, batch, machines>>
tlsVars == <<issued, client, refused, again, clock>>
instVars == <<owner, istate, ca, active, poweroff, runs, rebooted>>
vars == <<sys, cfg, plan, driverVars, tlsVars, instVars>>

Init ==
    /\ sys \in {"ec2", "local"} /\ cfg \in Configs
    /\ sys = "local" => cfg.dataspace = 0    \* a local machine has no volumes
    /\ plan = [devices |-> present(cfg), units |-> started(cfg)]
    /\ file = [p \in Drivers \cup {"shared"} |-> "absent"]
    /\ pc = [d \in Drivers |-> "init"]
    /\ auth = [d \in Drivers |-> NoOne]
    /\ describe = [d \in Drivers |-> "no"]
    /\ starts = [d \in Drivers |-> 0]
    /\ batch = [d \in Drivers |-> {}] /\ machines = [d \in Drivers |-> {}]
    /\ issued = [d \in Drivers |-> NoCert]
    /\ client = [d \in Drivers |-> [i \in Instances |-> NoCert]]
    /\ refused = [d \in Drivers |-> [i \in Instances |-> {}]]
    /\ again = {} /\ clock = 0
    /\ owner = [i \in Instances |-> NoOne]
    /\ istate = [i \in Instances |-> "none"]
    /\ ca = [i \in Instances |-> NoOne]
    /\ active = [i \in Instances |-> {}]
    /\ poweroff = {} /\ rebooted = {} /\ runs = [i \in Instances |-> 0]

-----------------------------------------------------------------------------
(* run, Init and authority.New.                                            *)

\* The file of the authority: the EC2 drivers of a host share one, a local
\* driver has the name of a temporary file that it has removed.
path(d) == IF sys = "ec2" THEN "shared" ELSE d

\* Init fails: bad configuration, a type or region that is not in the table, no
\* session, no temporary file.  run exits the process.
InitFails(d) ==
    /\ pc[d] = "init"
    /\ pc' = [pc EXCEPT ![d] = "gone"]
    /\ UNCHANGED <<sys, cfg, plan, file, auth, describe, starts, batch, machines, tlsVars, instVars>>

\* cached reads the file; an incomplete one is an error of New.
readAuthority(d) ==
    /\ pc[d] = "init" /\ (sys = "ec2" => configured(cfg) /\ offered(cfg))
    /\ CASE file[path(d)] = "absent" -> pc' = [pc EXCEPT ![d] = "generate"] /\ UNCHANGED auth
         [] file[path(d)] = "partial" -> pc' = [pc EXCEPT ![d] = "gone"] /\ UNCHANGED auth
         [] OTHER -> pc' = [pc EXCEPT ![d] = "ready"] /\ auth' = [auth EXCEPT ![d] = file[path(d)]]
    /\ UNCHANGED <<sys, cfg, plan, file, describe, starts, batch, machines, tlsVars, instVars>>

\* cached generates a key, and WriteFile first creates or truncates the file.
createAuthority(d) ==
    /\ pc[d] = "generate"
    /\ pc' = [pc EXCEPT ![d] = "write"]
    /\ file' = [file EXCEPT ![path(d)] = "partial"]
    /\ UNCHANGED <<sys, cfg, plan, auth, describe, starts, batch, machines, tlsVars, instVars>>

\* WriteFile writes it; New parses the bytes that were generated.
writeAuthority(d) ==
    /\ pc[d] = "write"
    /\ pc' = [pc EXCEPT ![d] = "ready"]
    /\ file' = [file EXCEPT ![path(d)] = d]
    /\ auth' = [auth EXCEPT ![d] = d]
    /\ UNCHANGED <<sys, cfg, plan, describe, starts, batch, machines, tlsVars, instVars>>

\* The driver exits or dies.
DriverGone(d) ==
    /\ pc[d] # "gone"
    /\ pc' = [pc EXCEPT ![d] = "gone"]
    /\ UNCHANGED <<sys, cfg, plan, file, auth, describe, starts, batch, machines, tlsVars, instVars>>

-----------------------------------------------------------------------------
(* System.Start.                                                           *)

Unused == {i \in Instances : istate[i] = "none"}

StartCalled(d) ==
    /\ pc[d] \in {"ready", "error", "empty"} /\ starts[d] < MaxStarts[d] /\ Cardinality(Unused) >= Count
    /\ pc' = [pc EXCEPT ![d] = IF sys = "ec2" THEN "describe" ELSE "run"]
    /\ starts' = [starts EXCEPT ![d] = @ + 1]
    /\ batch' = [batch EXCEPT ![d] = {}]
    /\ UNCHANGED <<sys, cfg, plan, file, auth, describe, machines, tlsVars, instVars>>

\* describeImages.Do: an error of AWS stays, since only errors of the errors
\* package that are not Fatal are forgotten.
DescribeImages(d) ==
    /\ pc[d] = "describe"
    /\ \E r \in {"ok", "failed"} :
          /\ describe[d] \in {"no", r}
          /\ describe' = [describe EXCEPT ![d] = r]
          /\ pc' = [pc EXCEPT ![d] = IF r = "ok" THEN "run" ELSE "error"]
    /\ UNCHANGED <<sys, cfg, plan, file, auth, starts, batch, machines, tlsVars, instVars>>

\* Some of the instances asked for are launched, or processes started.
launch(d, is) ==
    /\ is \subseteq Unused /\ Cardinality(is) <= Count
    /\ owner' = [i \in Instances |-> IF i \in is THEN d ELSE owner[i]]
    /\ istate' = [i \in Instances |-> IF i \in is THEN IF sys = "ec2" THEN "boot" ELSE "script" ELSE istate[i]]
    /\ batch' = [batch EXCEPT ![d] = @ \cup is]
    /\ UNCHANGED <<ca, active, poweroff, runs, rebooted>>

\* run, for spot or on-demand instances: one request.  An error may hide that
\* instances were launched; it is not repeated, since the test for
\* RequestLimitExceeded looks for an error type that run has wrapped.
RunInstances(d) ==
    /\ pc[d] = "run"
    /\ \E is \in SUBSET Instances :
          /\ launch(d, is)
          /\ \/ /\ is # {} /\ (sys = "local" => Cardinality(is) = Count)
                /\ pc' = [pc EXCEPT ![d] = IF sys = "ec2" THEN "wait" ELSE "list"]
             \/ pc' = [pc EXCEPT ![d] = "error"]
    /\ UNCHANGED <<sys, cfg, plan, file, auth, describe, starts, machines, tlsVars>>

\* WaitUntilInstanceRunning: when it fails, Start returns the error of the
\* DescribeInstances that follows, and without one, no machines and no error.
WaitRunning(d) ==
    /\ pc[d] = "wait"
    /\ \E r \in {"list", "error", "empty"} : pc' = [pc EXCEPT ![d] = r]
    /\ UNCHANGED <<sys, cfg, plan, file, auth, describe, starts, batch, machines, tlsVars, instVars>>

\* The machines are the instances described, if there is one for each
\* instance and each has an address.
ListInstances(d) ==
    /\ pc[d] = "list"
    /\ \/ /\ pc' = [pc EXCEPT ![d] = "ok"]
          /\ machines' = [machines EXCEPT ![d] = batch[d]]
       \/ /\ sys = "ec2"
          /\ pc' = [pc EXCEPT ![d] = "error"]
          /\ UNCHANGED machines
    /\ UNCHANGED <<sys, cfg, plan, file, auth, describe, starts, batch, tlsVars, instVars>>

-----------------------------------------------------------------------------
(* The instance.                                                           *)

\* Faulty variant: the service has no OnFailure.
failStays(i) == istate' = [istate EXCEPT ![i] = IF sys = "local" THEN "off" ELSE "failed"]

\* bootmachine.service fails: OnFailure=poweroff.target, unless the system was
\* made immortal.  EC2 terminates an instance that powers off.  A local machine
\* is only its process.
fail(i) == istate' = [istate EXCEPT ![i] = IF sys = "local" \/ cfg.mortal THEN "off" ELSE "failed"]

\* systemd starts a unit.  The ones that bootmachine does not wait for are left
\* out: they run at any time and change nothing here.
StartUnit(i, u) ==
    /\ istate[i] = "boot" /\ u.name \in {"format", "mnt-data"} \ active[i]
    /\ u.needs \subseteq active[i] /\ u.devs \subseteq plan.devices
    /\ active' = [active EXCEPT ![i] = @ \cup {u.name}]
    /\ UNCHANGED <<sys, cfg, plan, driverVars, tlsVars, owner, istate, ca, poweroff, runs, rebooted>>

\* The format or the mount fails, and bootmachine with it.
UnitFails(i, u) ==
    /\ istate[i] = "boot" /\ u.name \in {"format", "mnt-data"} \ active[i]
    /\ u.needs \subseteq active[i]
    /\ fail(i)
    /\ UNCHANGED <<sys, cfg, plan, driverVars, tlsVars, owner, ca, active, poweroff, runs, rebooted>>

\* Faulty variant: the script leaves the default target alone.
BootScriptPlain(i, u) ==
    /\ istate[i] = "boot" /\ u.name = "bootmachine" /\ u.needs \subseteq active[i]
    /\ istate' = [istate EXCEPT ![i] = "script"]
    /\ UNCHANGED <<sys, cfg, plan, driverVars, tlsVars, owner, ca, active, poweroff, runs, rebooted>>

\* systemd runs /opt/bin/bootmachine, which sets the default target first.
BootScript(i, u) ==
    /\ istate[i] = "boot" /\ u.name = "bootmachine" /\ u.needs \subseteq active[i]
    /\ istate' = [istate EXCEPT ![i] = "script"]
    /\ poweroff' = poweroff \cup {i}
    /\ UNCHANGED <<sys, cfg, plan, driverVars, tlsVars, owner, ca, active, runs, rebooted>>

\* Faulty variant: the authority is read from the driver's file.
authorityOfFile(d) == file[path(d)]

\* The authority a machine of d gets: for EC2, authority.Contents in a file of
\* the cloud config; for the local system, BIGMACHINE_AUTHORITY names the file.
authorityOf(d) == IF sys = "ec2" THEN auth[d] ELSE file[path(d)]

\* The process starts: run in machine mode, Init, and ListenAndServe.
ProcessStarts(i) ==
    /\ istate[i] = "script"
    /\ istate' = [istate EXCEPT ![i] = "serving"]
    /\ runs' = [runs EXCEPT ![i] = @ + 1]
    /\ ca' = [ca EXCEPT ![i] = authorityOf(owner[i])]
    /\ UNCHANGED <<sys, cfg, plan, driverVars, tlsVars, owner, active, poweroff, rebooted>>

\* A driver that has the machine sends keepalives.
keptAlive(i) ==
    \/ owner[i] \in Drivers /\ i \in machines[owner[i]] /\ pc[owner[i]] # "gone"
    \/ owner[i] \in Drivers /\ pc[owner[i]] \in {"wait", "list"}

\* The bootstrap binary cannot be fetched, or the process ends: it crashes, is
\* told to shut down, or has no keepalives.  The script ends with an error.
ProcessEnds(i) ==
    /\ istate[i] \in {"script", "serving"}
    /\ fail(i)
    /\ UNCHANGED <<sys, cfg, plan, driverVars, tlsVars, owner, ca, active, poweroff, runs, rebooted>>

\* EC2, or a service, reboots the instance.
Reboot(i) ==
    /\ sys = "ec2" /\ i \notin rebooted /\ istate[i] \in {"boot", "script", "serving", "failed"}
    /\ istate' = [istate EXCEPT ![i] = IF i \in poweroff THEN "off" ELSE "boot"]
    /\ rebooted' = rebooted \cup {i}
    /\ active' = [active EXCEPT ![i] = {}]
    /\ UNCHANGED <<sys, cfg, plan, driverVars, tlsVars, owner, ca, poweroff, runs>>

-----------------------------------------------------------------------------
(* TLS between a driver and its machine.                                   *)

\* EC2's HTTPClient: the certificate is made once for the process.
ec2HTTPClient(d) == IF issued[d] # NoCert THEN issued[d] ELSE clock

\* Faulty variant: the local system keeps its certificate as well.
localHTTPClientOnce(d) == ec2HTTPClient(d)

\* The local system's HTTPClient: a certificate for every client.
localHTTPClient(d) == clock

\* When the certificate of a new http.Client was issued.
clientCert(d) == IF sys = "ec2" THEN ec2HTTPClient(d) ELSE localHTTPClient(d)

\* getClient and Client: the http.Client kept for the address, or a new one.
getClient(d, i) == IF client[d][i] # NoCert THEN client[d][i] ELSE clientCert(d)

\* The certificate was issued by the authority that the server of i has in
\* ClientCAs, and no longer ago than certDuration.
accepted(d, i) == ca[i] = auth[d] /\ clock <= getClient(d, i) + CertDuration

\* A call opens a new connection, with RequireAndVerifyClientCert; one that is
\* open is not verified again.  updateClientState forgets a client that failed.
Connect(d, i) ==
    /\ pc[d] = "ok" /\ i \in machines[d] /\ istate[i] = "serving"
    /\ issued' = [issued EXCEPT ![d] = IF client[d][i] # NoCert THEN @ ELSE clientCert(d)]
    /\ client' = [client EXCEPT ![d][i] = IF accepted(d, i) THEN getClient(d, i) ELSE NoCert]
    /\ refused' = [refused EXCEPT ![d][i] = IF accepted(d, i) THEN {} ELSE @ \cup {getClient(d, i)}]
    /\ again' = IF ~accepted(d, i) /\ refused[d][i] # {} THEN again \cup {<<d, i>>} ELSE again \ {<<d, i>>}
    /\ UNCHANGED <<sys, cfg, plan, driverVars, instVars, clock>>

\* A call fails for another reason, of the method or the network.
CallFails(d, i) ==
    /\ pc[d] = "ok" /\ client[d][i] # NoCert
    /\ client' = [client EXCEPT ![d][i] = NoCert]
    /\ UNCHANGED <<sys, cfg, plan, driverVars, instVars, issued, refused, again, clock>>

Tick ==
    /\ clock < MaxClock /\ \E d \in Drivers : issued[d] # NoCert
    /\ clock' = clock + 1
    /\ UNCHANGED <<sys, cfg, plan, driverVars, instVars, issued, client, refused, again>>

-----------------------------------------------------------------------------
DriverNext(d) ==
    \/ readAuthority(d) \/ createAuthority(d) \/ writeAuthority(d)
    \/ DescribeImages(d) \/ RunInstances(d) \/ WaitRunning(d) \/ ListInstances(d)

BootNext(i) ==
    \/ \E u \in plan.units : StartUnit(i, u) \/ UnitFails(i, u) \/ BootScript(i, u)
    \/ ProcessStarts(i)

Next ==
    \/ \E d \in Drivers : InitFails(d) \/ DriverNext(d) \/ StartCalled(d) \/ DriverGone(d)
    \/ \E i \in Instances : BootNext(i) \/ ProcessEnds(i) \/ Reboot(i)
    \/ \E d \in Drivers, i \in Instances : Connect(d, i) \/ CallFails(d, i)
    \/ Tick

Spec == Init /\ [][Next]_vars

\* The calls to EC2 are bounded, systemd goes on, and the watchdog ends a process
\* without keepalives (OrphanExits of Keepalive).
Fairness ==
    /\ \A d \in Drivers : WF_vars(DriverNext(d))
    /\ \A i \in Instances : WF_vars(BootNext(i)) /\ WF_vars(~keptAlive(i) /\ ProcessEnds(i))

FairSpec == Spec /\ Fairness

-----------------------------------------------------------------------------
(* Properties.                                                             *)

\* The values the variables take.
TypeOK ==
    /\ sys \in {"ec2", "local"} /\ cfg \in Configs
    /\ file \in [Drivers \cup {"shared"} -> Drivers \cup {"absent", "partial"}]
    /\ pc \in [Drivers -> {"init", "generate", "write", "ready", "describe", "run", "wait",
                           "list", "ok", "error", "empty", "gone"}]
    /\ auth \in [Drivers -> Drivers \cup {NoOne}] /\ ca \in [Instances -> Drivers \cup {NoOne, "absent", "partial"}]
    /\ describe \in [Drivers -> {"no", "ok", "failed"}] /\ starts \in [Drivers -> Nat]
    /\ batch \in [Drivers -> SUBSET Instances] /\ machines \in [Drivers -> SUBSET Instances]
    /\ issued \in [Drivers -> 0 .. NoCert] /\ client \in [Drivers -> [Instances -> 0 .. NoCert]]
    /\ refused \in [Drivers -> [Instances -> SUBSET (0 .. MaxClock)]] /\ again \subseteq Drivers \X Instances
    /\ clock \in 0 .. MaxClock
    /\ owner \in [Instances -> Drivers \cup {NoOne}]
    /\ istate \in [Instances -> {"none", "boot", "script", "serving", "failed", "off"}]
    /\ active \in [Instances -> SUBSET {"format", "mnt-data"}]
    /\ poweroff \subseteq Instances /\ rebooted \subseteq Instances /\ runs \in [Instances -> Nat]

\* What depends on no variable is evaluated once, at the start.
AtStart == clock = 0 /\ \A d \in Drivers : pc[d] = "init"

\* The data volumes Start asks for have the data space, all of it or all but the
\* remainder that SpaceFor names; and of every type and flavor, however EC2 attaches
\* them, they are what the instance formats, stripes and mounts (DevicesMatchFor).
StorageMatches ==
    AtStart =>
        /\ \A n \in Sizes : SpaceFor(n)
        /\ \A n \in Striped, f \in {"flatcar", "ubuntu"}, t \in Types :
               DevicesMatchFor([flavor |-> f, type |-> t, dataspace |-> n])

\* With a data partition, the process that puts its temporary files there runs
\* only once it is mounted, in whatever order systemd starts the units.
BootAfterMount ==
    \A i \in Instances :
        sys = "ec2" /\ istate[i] \in {"script", "serving"} /\ hasData(cfg) => "mnt-data" \in active[i]

\* Nothing is launched twice: a Start launches no more instances than it was
\* asked for, also when an answer of EC2 is lost, and returns all of them; and an
\* instance starts its process once, also when it reboots, so that there is no
\* second supervisor without the state of the first.
LaunchedOnce ==
    /\ \A d \in Drivers :
          /\ Cardinality(batch[d]) <= Count
          /\ pc[d] = "ok" => machines[d] = batch[d] /\ batch[d] # {}
    /\ \A i \in Instances : runs[i] <= 1

\* A machine verifies its clients with the authority of the driver that has
\* launched it, also when drivers on the same host race to write the file.
MachineTrustsDriver ==
    \A i \in Instances : istate[i] = "serving" => ca[i] = auth[owner[i]] /\ ca[i] # NoOne

\* A machine refuses its own driver only when the client certificate has expired.
\* The local system then makes another for the next call, which is not refused:
\* two calls in a row are only with the EC2 system, which has one certificate.
RefusedExpired ==
    /\ \A d \in Drivers, i \in Instances : \A t \in refused[d][i] : clock > t + CertDuration
    /\ again # {} => sys = "ec2"

\* An instance no driver has as a machine - its driver is gone, or Start failed
\* after it was launched - terminates, unless instances were made immortal.
OrphansTerminate ==
    \A i \in Instances :
        (cfg.mortal /\ istate[i] # "none" /\ ~keptAlive(i)) ~> (istate[i] = "off" \/ keptAlive(i))
=============================================================================
