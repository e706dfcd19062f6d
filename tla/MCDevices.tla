----------------------------- MODULE MCDevices -----------------------------
(* Instances of Devices for TLC. *)
EXTENDS Devices, TLC

Unused == [type |-> "unused", start |-> 0, size |-> 0]
Data(start, size) == [type |-> "data", start |-> start, size |-> size]
Ext(start) == [type |-> "extended", start |-> start, size |-> 8]

\* A primary partition, one that leaves the drive, and two logical ones; and a
\* drive whose table names two extended partitions.
TwoDisks ==
    128 :> [total |-> 20,
            tables |-> 0  :> <<Data(1, 5), Data(18, 4), Ext(8), Unused>>
                    @@ 8  :> <<Data(9, 2), Ext(12), Unused, Unused>>
                    @@ 12 :> <<Data(13, 3), Unused, Unused, Unused>>]
    @@ 129 :> [total |-> 8, tables |-> 0 :> <<Ext(1), Ext(4), Data(6, 2), Unused>>]

\* Two more: the second table of one begins with an extended partition, and the
\* list of the other is a circle.
FourDisks ==
    TwoDisks
    @@ 130 :> [total |-> 20,
               tables |-> 0 :> <<Unused, Ext(8), Data(2, 3), Unused>>
                       @@ 8 :> <<Ext(9), Unused, Unused, Unused>>]
    @@ 131 :> [total |-> 8,
               tables |-> 0 :> <<Ext(1), Unused, Data(6, 2), Unused>>
                       @@ 1 :> <<Data(2, 1), Ext(3), Unused, Unused>>
                       @@ 3 :> <<Data(4, 1), Ext(1), Unused, Unused>>]

FirstPartition == DeviceId(128, 0)
BsdPartition == [drive |-> 128, part |-> 0, plain |-> FALSE]

Path(kind, number, comma, p, junk, file) ==
    [kind |-> kind, number |-> number, comma |-> comma, part |-> p,
     junk |-> junk, file |-> file]

Hd(numbers, parts) ==
    {Path("hd", n, TRUE, p, FALSE, f) : n \in numbers, p \in parts, f \in BOOLEAN}

Other ==
    {Path("boot", 0, FALSE, 0, FALSE, TRUE), Path("cd", 0, FALSE, 0, FALSE, TRUE),
     Path("fd", 0, FALSE, 0, FALSE, TRUE), Path("fd", 0, TRUE, 1, FALSE, TRUE),
     Path("hd", 0, FALSE, 0, FALSE, FALSE), Path("hd", 0, FALSE, 0, TRUE, FALSE),
     Path("hd", NoNumber, FALSE, 0, FALSE, TRUE), Path("hd", 128, FALSE, 0, FALSE, TRUE),
     Path("hd", 0, TRUE, NoNumber, FALSE, TRUE), Path("hd", 0, TRUE, 255, FALSE, TRUE)}

AllPaths == Hd(0 .. 3, {0, 1, 2, 4, 6}) \cup Other
Logical == Hd({0, 1}, {4, 5})
=============================================================================
