---------------------------- MODULE MCProvision ----------------------------
(***************************************************************************)
(* Instance: two drivers that share a host; one starts machines.           *)
(***************************************************************************)
EXTENDS Provision

MCMaxStarts == [d1 |-> 2, d2 |-> 0]

MCConfig(f, n, d, m) ==
    [flavor |-> f, type |-> [nvme |-> n, optimized |-> TRUE, everywhere |-> FALSE],
     region |-> "us-west-2", dataspace |-> d, mortal |-> m]

\* No volume, one and two; a flavor that is not known, a type that is not sold.
MCConfigs ==
    {MCConfig("flatcar", TRUE, 0, TRUE), MCConfig("ubuntu", TRUE, 600, TRUE),
     MCConfig("flatcar", FALSE, 300, FALSE), MCConfig("unknown", FALSE, 0, TRUE),
     [MCConfig("flatcar", FALSE, 0, TRUE) EXCEPT !.region = "other"]}

\* Sizes of Dataspace around one slice, around 25 slices, and beyond.
MCSizes == {0, 1, 334, 335, 336, 670, 671, 8374, 8375, 8376, 8399, 8400, 8401, 16000}

\* Sizes that take no volume to three.
MCStriped == {0, 1, 335, 336, 671, 1005}
=============================================================================
