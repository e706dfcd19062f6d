----------------------------- MODULE MCFiles -------------------------------
(* Instances of Files for TLC: clusters and sectors of two bytes. *)
EXTENDS Files

V(type, chain, size) == [type |-> type, chain |-> chain, size |-> size]

\* An empty file, contiguous ones, and files in two and three fragments, going
\* forward and backward, with and without a partial last cluster.  With sectors of
\* four bytes the FAT12 entries of clusters 2 and 5 are in two sectors.
SmallVolumes ==
    {V(32, << >>, 0), V(16, <<4>>, 1), V(12, <<2, 3, 4>>, 6), V(16, <<5, 6, 3>>, 5),
     V(32, <<7, 3, 4, 5>>, 8), V(12, <<2, 5, 6, 8>>, 7)}

Fragmented == {V(16, <<2, 3, 6>>, 6)}

\* The first cluster does not fit DIR_FstClusLO.
HighCluster == {V(32, <<6, 7>>, 4)}

Calls ==
    [op : {"read"}, n : {0, 1, 2, 3, 5, 8}]
    \cup [op : {"seek"}, offset : {-1, 0, 1, 3, 4}, whence : {"begin", "current", "end"}]

RawCalls ==
    [op : {"read"}, n : 0 .. 9]
    \cup [op : {"seek"}, offset : -1 .. 8, whence : {"begin", "current", "end"}]
=============================================================================
