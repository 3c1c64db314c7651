------------------------------- MODULE MCFiles -------------------------------
(***************************************************************************)
(* Files on a FAT volume: the list of a file's fragments, reading and      *)
(* writing the file by such a list, and the tables of open files.  One of  *)
(* them moves in a behaviour and the others stay as they begin; part says  *)
(* which: "transfer", "list" or "tables".                                  *)
(***************************************************************************)
EXTENDS BdDefrag

VARIABLES part, fat, file, walk, fragments, ret, volume, table, dynamic, fd, fsRet

\* a file of four sectors in three pieces, and a fragment without sectors
MCFraglist == << [sector |-> 3, count |-> 2], [sector |-> 1, count |-> 0],
                 [sector |-> 2, count |-> 1], [sector |-> 0, count |-> 1] >>
MCFirst == <<0, 2, 2, 3, 4>>

\* four clusters, files of none to five
List == INSTANCE FragList WITH n_fatent <- 6, csize <- 2, database <- 3, sectorOffset <- 1,
            Sizes <- {0, 2, 5, 8, 9}, MaxFragments <- {1, 3}

\* the link map of one file fits into the static table, the other's is allocated
MCItems == [f \in {"whole", "pieces"} |-> IF f = "whole" THEN 4 ELSE 6]
MCMax == [file |-> 2, dir |-> 1]

Tables == INSTANCE FatfsFiles WITH Handles <- {1, 2}, Files <- {"whole", "pieces"}, Items <- MCItems,
            Max <- MCMax, StaticItems <- 4, MaxItems <- 8, IdSpace <- 4, MaxMounts <- 2,
            Faults <- {"memory", "disk"}, ret <- fsRet

listVars == <<fat, file, walk, fragments, ret>>
tableVars == <<volume, table, dynamic, fd, fsRet>>
MCVars == <<part, vars, listVars, tableVars>>

MCInit ==
    /\ part \in {"transfer", "list", "tables"}
    /\ Init /\ (part # "transfer" => medium = [p \in 0 .. bdSectors - 1 |-> 1])
    /\ List!Init
    /\ part # "list" => /\ fat = [c \in List!Clusters |-> 0]
                        /\ file = [sclust |-> 0, objsize |-> 0, max |-> 1]
    /\ Tables!Init

\* get_frag_list has returned
Listed == part = "list" /\ walk.pc = "done" /\ UNCHANGED <<vars, listVars, tableVars>>

MCNext ==
    /\ UNCHANGED part
    /\ \/ part = "transfer" /\ Next /\ UNCHANGED <<listVars, tableVars>>
       \/ part = "list" /\ List!Next /\ UNCHANGED <<vars, tableVars>>
       \/ Listed
       \/ part = "tables" /\ Tables!Next /\ UNCHANGED <<vars, listVars>>

\* the thread that called runs on, and the device answers
MCSpec == MCInit /\ [][MCNext]_MCVars /\ WF_vars(part = "transfer" /\ Step)

-----------------------------------------------------------------------------
\* A list that fits into the caller's buffer holds the sectors of the file, in the
\* order of its cluster chain, rounded up to whole clusters (get_frag_list).  Its
\* fragments do not overlap, whatever is in the FAT: a chain that comes to its end has
\* no cycle.  A file whose chain is sound gets its list, and no other does;
\* USBMASS_IOCTL_CHECK_CHAIN finds one fragment exactly if the file is contiguous.
\* This is what BdDefrag assumes of its list.
ListIsFile ==
    part = "list" => /\ List!TypeOK /\ List!ListIsFile /\ List!NoOverlap
                     /\ List!ListIffSound /\ List!OneIffContiguous

\* I/O through a handle reaches the file it was opened for, on the volume it was opened
\* on; after the volume is gone, and after another one came in its place, it fails.  An
\* open handle has its structure for itself, an allocated link map is used by the open
\* file it was made for, and no structure is lost but by a close that failed.
HandlesSound ==
    part = "tables" => /\ Tables!TypeOK /\ Tables!OwnFile /\ Tables!OneHolder
                       /\ Tables!MapsOwned /\ Tables!SlotsAccounted
=============================================================================
