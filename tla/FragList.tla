------------------------------ MODULE FragList ------------------------------
(***************************************************************************)
(* The list of a file's fragments, which fs_ioctl2 hands out so that the   *)
(* file can be read past the file system (get_frag_list in                 *)
(* bdmfs_fs_driver.c).  The cluster chain is followed for as many clusters *)
(* as the size of the file asks for; clusters that follow one another make *)
(* one fragment.  The FAT comes from the medium and may say anything.      *)
(***************************************************************************)
EXTENDS Integers, Sequences

CONSTANTS
    n_fatent,       \* clusters are 2 .. n_fatent - 1
    csize,          \* sectors per cluster
    database,       \* first sector of cluster 2 in the partition
    sectorOffset,   \* first sector of the partition on the device
    Sizes,          \* sizes of the file, in sectors
    MaxFragments    \* lengths of the caller's buffer

Clusters == 2 .. n_fatent - 1
EndMark == n_fatent              \* any value from n_fatent on
ReadError == n_fatent + 1        \* 0xFFFFFFFF
Entries == Clusters \cup {0, EndMark, ReadError}
EIO == -5

VARIABLES
    fat,       \* what get_fat returns
    file,      \* sclust and objsize, and the room in the caller's buffer
    walk,      \* the loop: where it is, and the clusters that remain
    fragments, \* the caller's buffer
    ret        \* what is returned, or the number of fragments that are complete

vars == <<fat, file, walk, fragments, ret>>

Init ==
    /\ fat \in [Clusters -> Entries]
    /\ file \in [sclust : {0, 2, 3, n_fatent}, objsize : Sizes, max : MaxFragments]
    /\ walk = [pc |-> "start", start |-> 0, current |-> 0, remaining |-> 0]
    /\ fragments = <<>>
    /\ ret = 0

clst2sect(c) == database + csize * (c - 2)
ClusterCount == (file.objsize - 1) \div csize + 1

Done == [pc |-> "done", start |-> 0, current |-> 0, remaining |-> 0]

-----------------------------------------------------------------------------
Empty ==
    /\ walk.pc = "start" /\ file.objsize = 0
    /\ walk' = Done
    /\ UNCHANGED <<fat, file, fragments, ret>>

\* the size does not fit on the volume, or the file does not begin on it
Malformed == ClusterCount > n_fatent - 2 \/ file.sclust \notin Clusters

Refuse ==
    /\ walk.pc = "start" /\ file.objsize # 0 /\ Malformed
    /\ walk' = Done /\ ret' = EIO
    /\ UNCHANGED <<fat, file, fragments>>

Begin ==
    /\ walk.pc = "start" /\ file.objsize # 0 /\ ~Malformed
    /\ walk' = [pc |-> "walk", start |-> file.sclust, current |-> file.sclust, remaining |-> ClusterCount]
    /\ UNCHANGED <<fat, file, fragments, ret>>

StoredOneSector ==
    IF Len(fragments) < file.max
    THEN Append(fragments, [sector |-> clst2sect(walk.start) + sectorOffset,
                            count |-> clst2sect(walk.current) - clst2sect(walk.start) + 1])
    ELSE fragments

\* the fragment from cluster_start to cluster_current, if the buffer has room
Stored ==
    IF Len(fragments) < file.max
    THEN Append(fragments, [sector |-> clst2sect(walk.start) + sectorOffset,
                            count |-> clst2sect(walk.current) - clst2sect(walk.start) + csize])
    ELSE fragments

Adjacent(c) == c = walk.current + 1

\* the loop over all clusters but the last
Follow ==
    LET next == fat[walk.current] IN
    /\ walk.pc = "walk" /\ walk.remaining > 1
    /\ next \in Clusters
    /\ IF Adjacent(next)
       THEN UNCHANGED <<fragments, ret>>
       ELSE fragments' = Stored /\ ret' = ret + 1
    /\ walk' = [walk EXCEPT !.start = IF Adjacent(next) THEN @ ELSE next, !.current = next, !.remaining = @ - 1]
    /\ UNCHANGED <<fat, file>>

\* the chain ends before the file, goes on behind it, or cannot be read
Broken == IF walk.remaining > 1 THEN fat[walk.current] \notin Clusters ELSE fat[walk.current] # EndMark

Fail ==
    /\ walk.pc = "walk" /\ Broken
    /\ walk' = Done /\ ret' = EIO
    /\ UNCHANGED <<fat, file, fragments>>

End ==
    /\ walk.pc = "walk" /\ walk.remaining = 1 /\ ~Broken
    /\ fragments' = Stored /\ ret' = ret + 1
    /\ walk' = Done
    /\ UNCHANGED <<fat, file>>

-----------------------------------------------------------------------------
Next == Empty \/ Refuse \/ Begin \/ Follow \/ Fail \/ End

Spec == Init /\ [][Next]_vars

-----------------------------------------------------------------------------
\* Types; in particular the buffer is not overrun.
TypeOK ==
    /\ walk.pc \in {"start", "walk", "done"}
    /\ Len(fragments) <= file.max
    /\ \A i \in 1 .. Len(fragments) : fragments[i].sector \in Nat /\ fragments[i].count \in Nat \ {0}
    /\ ret \in Nat \cup {EIO}

\* the clusters of the file in order, as far as the chain goes
Chain ==
    LET ch[k \in 0 .. ClusterCount - 1] ==
          IF k = 0 THEN file.sclust ELSE IF ch[k - 1] \in Clusters THEN fat[ch[k - 1]] ELSE ReadError
    IN  ch

\* the chain has all the clusters of the file and ends there
Sound ==
    /\ ClusterCount <= n_fatent - 2
    /\ \A k \in 0 .. ClusterCount - 1 : Chain[k] \in Clusters
    /\ fat[Chain[ClusterCount - 1]] = EndMark

HaveList == walk.pc = "done" /\ ret > 0 /\ ret <= file.max

\* the sectors of a list, one after the other
SectorsOf(list) ==
    LET cat[i \in 0 .. Len(list)] ==
          IF i = 0 THEN <<>> ELSE cat[i - 1] \o [k \in 1 .. list[i].count |-> list[i].sector + k - 1]
    IN  cat[Len(list)]

\* A list that fits into the buffer holds the sectors of the file, in the order of its
\* cluster chain, rounded up to whole clusters.
ListIsFile ==
    HaveList =>
        SectorsOf(fragments) = [k \in 1 .. ClusterCount * csize |->
                                   clst2sect(Chain[(k - 1) \div csize]) + ((k - 1) % csize) + sectorOffset]

\* The fragments of a list do not overlap, whatever is in the FAT: a chain that comes to
\* its end has no cycle.  This is what BdDefrag assumes of its list.
NoOverlap ==
    HaveList =>
        \A i, j \in 1 .. Len(fragments) :
           i # j => \/ fragments[i].sector + fragments[i].count <= fragments[j].sector
                    \/ fragments[j].sector + fragments[j].count <= fragments[i].sector

\* A file whose chain is sound gets its list, and no other does.
ListIffSound == walk.pc = "done" /\ file.objsize # 0 => (ret > 0 <=> file.sclust \in Clusters /\ Sound)

\* USBMASS_IOCTL_CHECK_CHAIN: there is one fragment exactly if the file is contiguous.
OneIffContiguous ==
    walk.pc = "done" /\ ret > 0 =>
        (ret = 1 <=> \A k \in 0 .. ClusterCount - 1 : Chain[k] = file.sclust + k)
=============================================================================
