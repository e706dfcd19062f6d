----------------------------- MODULE MCPhysMem -----------------------------
(***************************************************************************)
(* Instances of PhysMem for TLC, scaled down: 1 MB is address 8, 4 GB is   *)
(* address 64, a page is 8 bytes and a kilobyte 2.                         *)
(***************************************************************************)
EXTENDS PhysMem

E(a, n, t) == [addr |-> a, size |-> n, type |-> t]

\* Low memory, a region across 1 MB, a reserved one, two more and one at 4 GB.
UsualMap ==
    <<E(0, 4, 1), E(6, 14, 1), E(20, 4, 2), E(26, 10, 1), E(64, 8, 1)>>

\* A region that overlaps the end of one entry and the start of another.
OverlappingMap == <<E(8, 4, 1), E(16, 8, 1), E(10, 8, 1)>>

OneRegion == <<E(8, 16, 1)>>

NoMap == << >>

=============================================================================
