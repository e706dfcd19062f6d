--------------------------- MODULE MCSectorCache ---------------------------
(* Instances of SectorCache for TLC. *)
EXTENDS SectorCache

\* All requests within a device of DevSectors sectors, and one beyond its end.
AllRequests ==
    {r \in [sector : 0 .. DevSectors, count : 0 .. DevSectors] :
        r.sector + r.count <= DevSectors + (IF r.count = 2 THEN 1 ELSE 0)}
=============================================================================
