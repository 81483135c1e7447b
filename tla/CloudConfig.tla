---------------------------- MODULE CloudConfig ----------------------------
(***************************************************************************)
(* What the EC2 system asks EC2 for and what it tells cloud-init to do:    *)
(* the volumes of an instance (sliceConfig, the block devices of Start),   *)
(* the systemd units, files and mounts of cloudConfig, and what Marshal    *)
(* makes of them for each flavor of the operating system.                  *)
(*                                                                         *)
(* A unit is its name with the units and devices it is After and Requires; *)
(* the text of the templates is left out.  A device is its kind and        *)
(* number: <<"xvd", 1>> is xvdb.                                           *)
(***************************************************************************)
EXTENDS Naturals, Sequences, Functions

minDataVolumeSliceSize == 335
maxInstanceDataVolumes == 25

\* The classes of entries of instances.Types: EBS volumes are NVMe devices or
\* not, the instance is EBS optimized (those of the current generation), and it
\* has a price in all regions or in some.
Types == {[nvme |-> n, optimized |-> o, everywhere |-> e] :
             n \in BOOLEAN, o \in BOOLEAN, e \in BOOLEAN}
         \ {t \in [nvme : BOOLEAN, optimized : {FALSE}, everywhere : BOOLEAN] : t.nvme \/ t.everywhere}

\* The fields of the EC2 System that decide what an instance is and does, and
\* whether its process is to be left running (ec2machineimmortal).  Names, keys,
\* tags, images and security groups are passed on to EC2 as they are.
System == [flavor : {"flatcar", "ubuntu", "unknown"}, type : Types, region : {"us-west-2", "other"},
           dataspace : Nat, mortal : BOOLEAN]

\* The configuration's constructor knows two flavors.
configured(cfg) == cfg.flavor \in {"flatcar", "ubuntu"}

\* Init: the type has a price in the region; every type has one in us-west-2, the
\* default, and "other" stands for a region that does not have them all.
offered(cfg) == cfg.region = "other" => cfg.type.everywhere

\* sliceConfig: the number of data volumes and their size in GiB.
sliceConfig(dataspace) ==
    LET n == (dataspace + minDataVolumeSliceSize - 1) \div minDataVolumeSliceSize
    IN  IF n <= maxInstanceDataVolumes
        THEN [n |-> n, size |-> minDataVolumeSliceSize]
        ELSE [n |-> maxInstanceDataVolumes, size |-> dataspace \div maxInstanceDataVolumes]

\* The volumes in the block device mappings of Start: 0 is the root volume, which
\* is not for data, and the others are named xvdb and so on.
blockDevices(cfg) == 0 .. sliceConfig(cfg.dataspace).n

\* The devices an instance has.
present(cfg) == {IF cfg.type.nvme THEN "nvme" ELSE "xvd"} \X blockDevices(cfg)

\* The ways EC2 may attach the volumes: an NVMe instance type ignores the names
\* asked for, and any data volume may have any name but the root volume's.
attached(cfg) ==
    {a \in Bijection(present(cfg), blockDevices(cfg)) :
        \A d \in present(cfg) : d[2] = 0 \/ ~cfg.type.nvme => a[d] = d[2]}

\* Faulty variant: the names are not remapped on NVMe instances.
devicesNamed(cfg) == [i \in 1 .. sliceConfig(cfg.dataspace).n |-> <<"xvd", i>>]

\* cloudConfig: the devices that compose the storage.
devices(cfg) ==
    [i \in 1 .. sliceConfig(cfg.dataspace).n |-> IF cfg.type.nvme THEN <<"nvme", i>> ELSE <<"xvd", i>>]

\* The device of the data partition: none, the only volume, or a stripe.
dataDevice(cfg) ==
    CASE Len(devices(cfg)) = 0 -> <<"none", 0>>
      [] Len(devices(cfg)) = 1 -> devices(cfg)[1]
      [] OTHER -> <<"md", 0>>

hasData(cfg) == dataDevice(cfg) # <<"none", 0>>

unit(name, needs, devs) == [name |-> name, needs |-> needs, devs |-> devs]

\* The units that format the data partition, striped or not, and mount it.
storageUnits(cfg) ==
    IF hasData(cfg)
    THEN <<unit("format", {}, Range(devices(cfg))), unit("mnt-data", {"format"}, {})>> ELSE <<>>

\* Faulty variant: bootmachine does not wait for the data partition.
bootUnitsUnordered(cfg) == <<unit("update-sysctl", {}, {}), unit("bootmachine", {}, {})>>

\* The units that every instance has.
bootUnits(cfg) ==
    <<unit("update-sysctl", {}, {}),
      unit("bootmachine", IF hasData(cfg) THEN {"mnt-data"} ELSE {}, {})>>

\* The units of cloudConfig, in order.
units(cfg) ==
    (IF cfg.flavor = "flatcar"
     THEN <<unit("stop-update-engine", {}, {}), unit("stop-locksmithd", {}, {})>> ELSE <<>>)
    \o storageUnits(cfg) \o bootUnits(cfg)

\* The mounts cloud-init is told to leave alone: an entry without a mount point
\* disables the device.
mounts(cfg) ==
    IF hasData(cfg) /\ cfg.flavor = "ubuntu"
    THEN {dataDevice(cfg)} \cup (IF Len(devices(cfg)) > 1 THEN Range(devices(cfg)) ELSE {})
    ELSE {}

\* Marshal: Flatcar is given the units; else each is a file, and the commands
\* start them in this order without waiting, after systemd has read the files.
Marshal(cfg) ==
    IF cfg.flavor = "flatcar"
    THEN [units |-> units(cfg), files |-> {}, runcmd |-> <<>>]
    ELSE [units |-> <<>>,
          files |-> {u.name : u \in Range(units(cfg))},
          runcmd |-> <<"daemon-reload">> \o [i \in DOMAIN units(cfg) |-> units(cfg)[i].name]]

\* The units an instance starts, and is able to.
started(cfg) ==
    LET c == Marshal(cfg)
    IN  IF cfg.flavor = "flatcar" THEN Range(c.units)
        ELSE {u \in Range(units(cfg)) : u.name \in Range(Tail(c.runcmd)) /\ u.name \in c.files}

-----------------------------------------------------------------------------
(* Properties, of a configuration.                                         *)

\* However EC2 attaches the volumes, the devices the instance formats and stripes
\* are its own: together they hold every data volume and not the root volume; and
\* cloud-init on Ubuntu mounts none of them by itself.
DevicesMatchFor(cfg) ==
    /\ \A a \in attached(cfg) :
          /\ Range(devices(cfg)) \subseteq DOMAIN a
          /\ {a[d] : d \in Range(devices(cfg))} = blockDevices(cfg) \ {0}
    /\ cfg.flavor = "ubuntu" => Range(devices(cfg)) \subseteq mounts(cfg)

\* What sliceConfig makes of the data space: at most 25 volumes, b to z, of at
\* least the size that gives full throughput.  Up to 25 of that size they have all
\* the space asked for, and not a volume more than that takes.  Beyond, they have
\* less: the remainder of the division by 25 is not allocated.
SpaceFor(dataspace) ==
    LET s == sliceConfig(dataspace)
    IN  /\ s.n <= maxInstanceDataVolumes
        /\ s.size >= minDataVolumeSliceSize
        /\ IF dataspace <= maxInstanceDataVolumes * minDataVolumeSliceSize
           THEN dataspace <= s.n * s.size /\ s.n * s.size < dataspace + minDataVolumeSliceSize
           ELSE s.n * s.size <= dataspace /\ dataspace < s.n * s.size + maxInstanceDataVolumes
=============================================================================
