------------------------------ MODULE MCDrive ------------------------------
(* Instances of Drive for TLC. *)
EXTENDS Drive, TLC

Chs(heads, sectors, cylinders) ==
    [edd |-> FALSE, heads |-> heads, sectors |-> sectors, cylinders |-> cylinders]

Edd(heads, sectors, cylinders) ==
    [edd |-> TRUE, heads |-> heads, sectors |-> sectors, cylinders |-> cylinders]

\* A floppy, two disks of different geometry and a drive that is not there.
FourDrives ==
    0 :> Chs(2, 3, 2) @@ 1 :> Chs(1, 1, 1) @@ 128 :> Edd(2, 2, 3) @@ 129 :> Chs(3, 2, 2)

TwoDrives == 0 :> Chs(2, 3, 2) @@ 128 :> Chs(3, 2, 2)
=============================================================================
