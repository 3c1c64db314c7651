----------------------------- MODULE BdmProofs -----------------------------
(***************************************************************************)
(* For every set of devices, every partition layout, every size of the     *)
(* tables and every choice of faults: the state of the Block Device        *)
(* Manager keeps its types, and the ata filter is airtight once            *)
(* bdm_set_ata_only has returned.                                          *)
(*                                                                         *)
(* The second half shows that the mount table, the caches, the pseudo      *)
(* devices and mass0 agree, and that nobody reads through a device that    *)
(* is gone.  Memory may run out and the first read of a probe may fail     *)
(* there; a table that breaks off, or a device pulled while bdm_thread     *)
(* reads it, does break this.                                              *)
(*                                                                         *)
(* The last section shows, from the same invariant, that a callback is     *)
(* told of a mount: as long as it has not been, an event or bdm_thread on  *)
(* its way will tell it.                                                   *)
(***************************************************************************)
EXTENDS Bdm, SequenceTheorems, TLAPS

\* Most leaves are first-order. Those with arithmetic or records name Z3 and SMT,
\* two encodings, of which the second is tried where the first fails.
USE ZenonT(60)

\* bdm_thread is inside bdm_try_mount
Trying == {"probe", "notify"} \cup InConnectBd

WholeHandles == {Raw(d) : d \in Devices} \cup {Cache(d) : d \in Devices}

\* Where bdm_thread is and what it holds there.
ThreadOK ==
    /\ thread.pc \in Trying => Started /\ thread.slot \in Slots
    /\ thread.pc \in InConnectBd => thread.arg # NULL
    /\ thread.pc \in {"header", "table", "entries"} => thread.arg \in WholeHandles
    /\ thread.pc = "entries" => thread.sector <= Len(Table[thread.arg[2]])

\* Devices only come once the file systems are connected.
Control ==
    /\ inserting = NULL \/ \E d \in Devices : inserting = Raw(d)
    /\ ~Started => inserting = NULL /\ \A i \in Slots : g_mount[i].bd = NULL
    /\ ThreadOK

\* A slot never holds a pseudo device that is free.
PseudoHeld ==
    \A i \in Slots, p \in Partitions : g_mount[i].bd = Pseudo(p) => g_part[p] # NULL

AtaSlot(i) == g_mount[i].bd # NULL => IsAta(g_mount[i].bd)

\* The stages of the filter request: raised and not yet taken by bdm_thread;
\* being carried out, with the slots behind the loop clean; answered.
Raised == "FILTER" \in event /\ "FILTER" \notin thread.bits /\ ~filterEvent
Working ==
    /\ "FILTER" \notin event /\ ~filterEvent
    /\ thread.pc = "filter" /\ "FILTER" \in thread.bits
    /\ \A i \in Slots : i < thread.slot => AtaSlot(i)
Answered == "FILTER" \notin event /\ filterEvent /\ \A i \in Slots : AtaSlot(i)

\* A device that slipped past the check is inserted before the request is
\* taken, so before bdm_thread filters.
Filter ==
    /\ setter = "idle" => ~g_ata_only
    /\ setter \in {"idle", "set"} =>
          "FILTER" \notin event /\ "FILTER" \notin thread.bits /\ ~filterEvent
    /\ setter # "idle" => g_ata_only
    /\ setter = "waiting" => Raised \/ Working \/ Answered
    /\ setter = "done" => "FILTER" \notin event /\ \A i \in Slots : AtaSlot(i)
    /\ g_ata_only /\ inserting # NULL =>
          \/ IsAta(inserting)
          \/ setter = "set"
          \/ setter = "waiting" /\ "FILTER" \in event

IInv == TypeOK /\ Control /\ PseudoHeld /\ Filter

USE BdmAssumption DEF tables, flags, fatfs, callers

-----------------------------------------------------------------------------
(* Handles *)

\* The pointers the code passes around are handles.
LEMMA HandleTypes ==
    /\ NULL \in Handles
    /\ \A d \in Devices : Raw(d) \in Handles /\ Cache(d) \in Handles
    /\ \A p \in Partitions : Pseudo(p) \in Handles
BY DEF Handles

\* NULL, devices, caches and pseudo devices are told apart.
LEMMA HandleKinds ==
    /\ \A d : /\ Raw(d) # NULL /\ IsWhole(Raw(d)) /\ Raw(d)[2] = d
              /\ Cache(d) # NULL /\ IsWhole(Cache(d)) /\ Cache(d)[2] = d
    /\ \A p : Pseudo(p) # NULL /\ ~IsWhole(Pseudo(p)) /\ Pseudo(p)[2] = p
    /\ \A d, p : Raw(d) # Pseudo(p) /\ Cache(d) # Pseudo(p)
BY DEF Raw, Cache, Pseudo, NULL, IsWhole

\* A handle that is not a partition is a device or its cache.
LEMMA WholeHandle ==
    ASSUME NEW h \in Handles, h # NULL, IsWhole(h)
    PROVE  h \in WholeHandles
BY Z3T(20), SMTT(20), HandleKinds DEF Handles, WholeHandles

\* A device and its cache have the same name and number (bd_cache_create).
LEMMA WholeDevice ==
    ASSUME NEW h \in WholeHandles
    PROVE  DeviceOf(h) = h[2] /\ h[2] \in Devices /\ IsWhole(h) /\ h # NULL
BY Z3T(20), SMTT(20) DEF WholeHandles, DeviceOf, VolumeOf, IsWhole, Raw, Cache, NULL

-----------------------------------------------------------------------------
(* Records *)

\* The values that reset a row, the mounted volume and the thread are typed.
LEMMA ResetTypes == Unmounted \in Mass /\ Empty \in Rows /\ Idle \in Threads
<1>1. Unmounted \in Mass
  BY HandleTypes DEF Unmounted, Mass, States
<1>2. Empty \in Rows
  BY HandleTypes DEF Empty, Rows, FsNames
<1>3. {} \in SUBSET Bits /\ 1 \in 1 .. MAX_CONNECTIONS + 1 /\ 1 \in 1 .. 3
  BY Z3T(20), SMTT(20)
<1>4. "wait" \in Pcs
  BY DEF Pcs
<1>5. Idle \in Threads
  BY Z3T(20), SMTT(20), <1>3, <1>4, HandleTypes DEF Idle, Threads
<1> QED
  BY <1>1, <1>2, <1>5

\* Every file system that bdm_try_mount asks has a name.
LEMMA FileSystemNames ==
    /\ Len(FileSystems) = 3 /\ \A i \in 1 .. 3 : FileSystems[i] \in FsNames
    /\ TypeOK /\ Started => Len(g_fs) = 3 /\ \A i \in 1 .. 3 : g_fs[i] \in FsNames
<1>1. Len(FileSystems) = 3 /\ \A i \in 1 .. 3 : FileSystems[i] \in FsNames
  BY Z3T(20), SMTT(20) DEF FileSystems, FsNames
<1>2. ASSUME TypeOK, Started PROVE Len(g_fs) = 3 /\ \A i \in 1 .. 3 : g_fs[i] \in FsNames
  <2>1. g_fs \in Seq(FsNames) /\ Len(g_fs) = 3
    BY <1>1, <1>2 DEF TypeOK, Started
  <2> QED
    BY <2>1, ElementOfSeq
<1> QED
  BY <1>1, <1>2

-----------------------------------------------------------------------------
(* bdm_thread *)

\* bdm_try_mount after a connect_bd that failed: the same slot or the next.
LEMMA RejectStep ==
    ASSUME IInv, thread.pc \in Trying, Reject
    PROVE  /\ thread' \in Threads /\ g_mount' = g_mount /\ thread'.bits = thread.bits
           /\ thread'.pc \in {"probe", "mount"}
           /\ thread'.pc = "probe" => thread'.slot = thread.slot
<1>1. thread \in Threads /\ thread.slot \in Slots /\ Len(g_fs) = 3
  BY FileSystemNames DEF IInv, TypeOK, Control, ThreadOK
<1>2. "probe" \in Pcs /\ "mount" \in Pcs
  BY DEF Pcs
<1>3. thread.slot + 1 \in 1 .. MAX_CONNECTIONS + 1
  BY Z3T(20), SMTT(20), <1>1 DEF Slots
<1>6. g_mount' = g_mount
  BY DEF Reject
<1>4. CASE thread.fs < Len(g_fs)
  <2>1. thread.fs + 1 \in 1 .. 3
    BY Z3T(20), SMTT(20), <1>1, <1>4 DEF Threads
  <2>2. thread' = [thread EXCEPT !.pc = "probe", !.fs = thread.fs + 1, !.arg = NULL]
    BY <1>4 DEF Reject
  <2> QED
    BY <1>1, <1>2, <1>6, <2>1, <2>2, HandleTypes DEF Threads
<1>5. CASE ~(thread.fs < Len(g_fs))
  <2>1. thread' = [thread EXCEPT !.pc = "mount", !.slot = thread.slot + 1, !.arg = NULL]
    BY <1>5 DEF Reject
  <2> QED
    BY <1>1, <1>2, <1>3, <1>6, <2>1, HandleTypes DEF Threads
<1> QED
  BY <1>4, <1>5

\* bdm_try_mount after a connect_bd that succeeded.
LEMMA AcceptStep ==
    ASSUME IInv, thread.pc \in Trying, Accept
    PROVE  /\ thread' \in Threads /\ thread'.bits = thread.bits
           /\ thread'.pc = "notify" /\ thread'.slot = thread.slot
           /\ g_mount' \in [Slots -> Rows]
           /\ \A i \in Slots : g_mount'[i].bd = g_mount[i].bd
<1>1. thread \in Threads /\ thread.slot \in Slots
  BY DEF IInv, TypeOK, Control, ThreadOK
<1>2. g_fs[thread.fs] \in FsNames
  BY <1>1, FileSystemNames DEF IInv, Control, ThreadOK, Threads
<1>3. "notify" \in Pcs
  BY DEF Pcs
<1>4. g_mount' = [g_mount EXCEPT
                    ![thread.slot] = [g_mount[thread.slot] EXCEPT !.fs = g_fs[thread.fs]]]
  BY DEF Accept
<1>5. g_mount \in [Slots -> Rows]
  BY DEF IInv, TypeOK
<1>6. /\ [g_mount[thread.slot] EXCEPT !.fs = g_fs[thread.fs]] \in Rows
      /\ [g_mount[thread.slot] EXCEPT !.fs = g_fs[thread.fs]].bd = g_mount[thread.slot].bd
  BY <1>1, <1>2, <1>5 DEF Rows
<1>7. g_mount' \in [Slots -> Rows] /\ \A i \in Slots : g_mount'[i].bd = g_mount[i].bd
  BY <1>1, <1>4, <1>5, <1>6
<1>8. thread' = [thread EXCEPT !.pc = "notify", !.arg = NULL]
  BY DEF Accept
<1> QED
  BY <1>1, <1>3, <1>7, <1>8, HandleTypes DEF Threads

\* The mount table as bdm_thread reads it.
LEMMA ProbedHandle ==
    ASSUME IInv, thread.pc \in Trying
    PROVE  /\ Target(g_mount[thread.slot]) \in Handles
           /\ g_fs[thread.fs] \in FsNames
<1>1. thread \in Threads /\ thread.slot \in Slots /\ g_mount \in [Slots -> Rows]
  BY DEF IInv, TypeOK, Control, ThreadOK
<1>2. g_fs[thread.fs] \in FsNames
  BY <1>1, FileSystemNames DEF IInv, Control, ThreadOK, Threads
<1> QED
  BY <1>1, <1>2 DEF Target, Rows

\* Rejecting and accepting leave bdm_thread in order.
LEMMA VerdictOK ==
    ASSUME IInv, thread.pc \in Trying, g_fs' = g_fs, Reject \/ Accept
    PROVE  thread' \in Threads /\ ThreadOK' /\ thread'.bits = thread.bits
<1>1. Started /\ thread.slot \in Slots
  BY DEF IInv, Control, ThreadOK
<1>2. CASE Reject
  BY <1>1, <1>2, RejectStep DEF ThreadOK, Trying, InConnectBd, Started
<1>3. CASE Accept
  BY <1>1, <1>3, AcceptStep DEF ThreadOK, Trying, InConnectBd, Started
<1> QED
  BY <1>2, <1>3

\* What a step of bdm_thread does to its own state; only WaitEventFlag adds
\* event bits.
LEMMA ThreadStep ==
    ASSUME IInv, BdmThread
    PROVE  /\ thread' \in Threads /\ ThreadOK'
           /\ BdmWait \/ thread'.bits \subseteq thread.bits
<1>0. thread \in Threads /\ event \in SUBSET Bits /\ g_mount \in [Slots -> Rows]
  BY DEF IInv, TypeOK
<1>a. thread.pc \in Trying => Started /\ thread.slot \in Slots
  BY DEF IInv, Control, ThreadOK
<1>b. 1 \in 1 .. MAX_CONNECTIONS + 1 /\ 1 \in 1 .. 3
      /\ \A i \in Slots : i + 1 \in 1 .. MAX_CONNECTIONS + 1
  BY Z3T(20), SMTT(20) DEF Slots
<1>c. {"filter", "mount", "callback", "probe", "notify", "header", "table", "entries",
       "fatfs", "f_mount", "vcd", "crashed"} \subseteq Pcs
  BY DEF Pcs
<1>1. CASE BdmWait
  <2>1. thread' = [thread EXCEPT !.pc = "filter", !.bits = event, !.slot = 1]
    BY <1>1 DEF BdmWait
  <2>2. thread' \in Threads /\ thread'.pc = "filter"
    BY <1>0, <1>b, <1>c, <2>1 DEF Threads
  <2> QED
    BY <1>1, <2>2 DEF ThreadOK, Trying, InConnectBd
<1>2. CASE BdmFilterSlot
  <2>1. thread' = [thread EXCEPT !.slot = thread.slot + 1] /\ thread.pc = "filter"
        /\ thread.slot \in Slots
    BY <1>2 DEF BdmFilterSlot, At
  <2>2. thread' \in Threads /\ thread'.pc = "filter" /\ thread'.bits = thread.bits
    BY <1>0, <1>b, <2>1 DEF Threads
  <2> QED
    BY <2>2 DEF ThreadOK, Trying, InConnectBd
<1>3. CASE BdmFilterDone
  <2>1. thread' = [thread EXCEPT !.pc = "mount", !.slot = 1]
    BY <1>3 DEF BdmFilterDone
  <2>2. thread' \in Threads /\ thread'.pc = "mount" /\ thread'.bits = thread.bits
    BY <1>0, <1>b, <1>c, <2>1 DEF Threads
  <2> QED
    BY <2>2 DEF ThreadOK, Trying, InConnectBd
<1>4. CASE BdmMountSlot
  <2>0. thread.pc = "mount" /\ thread.slot \in Slots /\ g_fs' = g_fs
    BY <1>4 DEF BdmMountSlot, At
  <2>1. CASE g_mount[thread.slot].bd # NULL /\ g_mount[thread.slot].fs = "none"
    <3>1. thread' = [thread EXCEPT !.pc = "probe", !.fs = 1]
      BY <1>4, <2>1 DEF BdmMountSlot
    <3>2. thread' \in Threads /\ thread'.pc = "probe" /\ thread'.bits = thread.bits
          /\ thread'.slot = thread.slot
      BY <1>0, <1>b, <1>c, <3>1 DEF Threads
    <3>3. Started
      BY <2>0, <2>1 DEF IInv, Control
    <3> QED
      BY <2>0, <3>2, <3>3 DEF ThreadOK, InConnectBd, Started
  <2>2. CASE ~(g_mount[thread.slot].bd # NULL /\ g_mount[thread.slot].fs = "none")
    <3>1. thread' = [thread EXCEPT !.slot = thread.slot + 1]
      BY <1>4, <2>2 DEF BdmMountSlot
    <3>2. thread' \in Threads /\ thread'.pc = "mount" /\ thread'.bits = thread.bits
      BY <1>0, <1>b, <2>0, <3>1 DEF Threads
    <3> QED
      BY <3>2 DEF ThreadOK, Trying, InConnectBd
  <2> QED
    BY <2>1, <2>2
<1>5. CASE BdmMountDone
  <2>1. thread' = [thread EXCEPT !.pc = "callback"]
    BY <1>5 DEF BdmMountDone, Goto
  <2>2. thread' \in Threads /\ thread'.pc = "callback" /\ thread'.bits = thread.bits
    BY <1>0, <1>b, <1>c, <2>1 DEF Threads
  <2> QED
    BY <2>2 DEF ThreadOK, Trying, InConnectBd
<1>6. CASE BdmCallback
  <2>1. thread' = Idle
    BY <1>6 DEF BdmCallback
  <2>2. thread' \in Threads /\ thread'.pc = "wait" /\ thread'.bits = {}
    BY <2>1, ResetTypes DEF Idle
  <2> QED
    BY <2>2 DEF ThreadOK, Trying, InConnectBd
<1>7. CASE BdmNotify
  <2>1. thread' = [thread EXCEPT !.pc = "mount", !.slot = thread.slot + 1]
        /\ thread.slot \in Slots
    BY <1>7, <1>a DEF BdmNotify, At, Trying
  <2>2. thread' \in Threads /\ thread'.pc = "mount" /\ thread'.bits = thread.bits
    BY <1>0, <1>b, <1>c, <2>1 DEF Threads
  <2> QED
    BY <2>2 DEF ThreadOK, Trying, InConnectBd
<1>8. CASE BdmProbe
  <2>0. thread.pc = "probe" /\ thread.pc \in Trying /\ g_fs' = g_fs
    BY <1>8 DEF BdmProbe, At, Trying
  <2> DEFINE h == Target(g_mount[thread.slot])
             driver == g_fs[thread.fs]
             pc == IF driver = "fatfs" THEN "fatfs" ELSE "header"
  <2>1. CASE Reject
    BY <2>0, <2>1, VerdictOK
  <2>2. CASE Goto("crashed")
    <3>1. thread' = [thread EXCEPT !.pc = "crashed"]
      BY <2>2 DEF Goto
    <3>2. thread' \in Threads /\ thread'.pc = "crashed" /\ thread'.bits = thread.bits
      BY <1>0, <1>c, <3>1 DEF Threads
    <3> QED
      BY <3>2 DEF ThreadOK, Trying, InConnectBd
  <2>3. CASE /\ h # NULL /\ (driver # "fatfs" => IsWhole(h))
             /\ thread' = [thread EXCEPT !.pc = pc, !.arg = h, !.sector = 1, !.entry = 1,
                                         !.found = FALSE]
    <3>1. h \in Handles /\ pc \in {"fatfs", "header"}
      BY <2>0, ProbedHandle
    <3>2. thread' \in Threads /\ thread'.pc = pc /\ thread'.bits = thread.bits
          /\ thread'.slot = thread.slot /\ thread'.arg = h
      <4>1. pc \in Pcs /\ 1 \in Nat \ {0}
        BY Z3T(20), SMTT(20), <1>c, <3>1
      <4>2. thread' = [thread EXCEPT !.pc = pc, !.arg = h, !.sector = 1, !.entry = 1,
                                     !.found = FALSE]
        BY <2>3
      <4> HIDE DEF h, pc
      <4> QED
        BY <1>0, <3>1, <4>1, <4>2 DEF Threads
    <3>3. pc = "header" => h \in WholeHandles
      BY <2>3, <3>1, WholeHandle
    <3> HIDE DEF h, pc
    <3> QED
      BY <1>a, <2>0, <2>3, <3>1, <3>2, <3>3 DEF ThreadOK, Trying, InConnectBd, Started
  <2> QED
    BY <1>8, <2>1, <2>2, <2>3 DEF BdmProbe
<1>9. CASE PartHeader
  <2>0. thread.pc = "header" /\ thread.pc \in Trying /\ g_fs' = g_fs
    BY <1>9 DEF PartHeader, At, Trying, InConnectBd
  <2>1. CASE Reject
    BY <2>0, <2>1, VerdictOK
  <2>2. CASE Goto("table")
    <3>1. thread' = [thread EXCEPT !.pc = "table"]
      BY <2>2 DEF Goto
    <3>2. thread' \in Threads /\ thread'.pc = "table" /\ thread'.bits = thread.bits
          /\ thread'.slot = thread.slot /\ thread'.arg = thread.arg
      BY <1>0, <1>c, <3>1 DEF Threads
    <3>3. thread.arg \in WholeHandles /\ thread.arg # NULL
      BY <2>0 DEF IInv, Control, ThreadOK, InConnectBd
    <3> QED
      BY <1>a, <2>0, <3>2, <3>3 DEF ThreadOK, Started
  <2> QED
    BY <1>9, <2>1, <2>2 DEF PartHeader
<1>10. CASE PartTable
  <2>0. thread.pc = "table" /\ thread.pc \in Trying /\ g_fs' = g_fs
    BY <1>10 DEF PartTable, At, Trying, InConnectBd
  <2>1. CASE Reject
    BY <2>0, <2>1, VerdictOK
  <2>2. CASE Goto("entries")
    <3>1. thread' = [thread EXCEPT !.pc = "entries"]
      BY <2>2 DEF Goto
    <3>2. thread' \in Threads /\ thread'.pc = "entries" /\ thread'.bits = thread.bits
          /\ thread'.slot = thread.slot /\ thread'.arg = thread.arg
          /\ thread'.sector = thread.sector
      BY <1>0, <1>c, <3>1 DEF Threads
    <3>3. thread.arg \in WholeHandles /\ thread.arg # NULL
      BY <2>0 DEF IInv, Control, ThreadOK, InConnectBd
    <3>4. thread.sector <= Len(Table[thread.arg[2]])
      BY <1>10, <3>3, WholeDevice DEF PartTable, Sectors
    <3> QED
      BY <1>a, <2>0, <3>2, <3>3, <3>4 DEF ThreadOK, Started
  <2> QED
    BY <1>10, <2>1, <2>2 DEF PartTable
<1>11. CASE PartEntry
  <2>0. thread.pc = "entries" /\ g_fs' = g_fs
    BY <1>11 DEF PartEntry, At
  <2>1. thread.entry + 1 \in Nat \ {0} /\ TRUE \in BOOLEAN
    BY Z3T(20), SMTT(20), <1>0 DEF Threads
  <2>2. \/ thread' = [thread EXCEPT !.entry = thread.entry + 1, !.found = TRUE]
        \/ thread' = [thread EXCEPT !.entry = thread.entry + 1]
    BY <1>11 DEF PartEntry
  <2>3. thread' \in Threads /\ thread'.pc = thread.pc /\ thread'.bits = thread.bits
        /\ thread'.slot = thread.slot /\ thread'.arg = thread.arg
        /\ thread'.sector = thread.sector
    <3>1. CASE thread' = [thread EXCEPT !.entry = thread.entry + 1, !.found = TRUE]
      BY <1>0, <2>1, <3>1 DEF Threads
    <3>2. CASE thread' = [thread EXCEPT !.entry = thread.entry + 1]
      BY <1>0, <2>1, <3>2 DEF Threads
    <3> QED
      BY <2>2, <3>1, <3>2
  <2>4. ThreadOK
    BY DEF IInv, Control
  <2> QED
    BY <2>0, <2>3, <2>4 DEF ThreadOK, Started
<1>12. CASE PartNextSector
  <2>0. thread.pc = "entries" /\ thread.pc \in Trying /\ g_fs' = g_fs
    BY <1>12 DEF PartNextSector, At, Trying, InConnectBd
  <2>1. thread.sector + 1 \in Nat \ {0} /\ 1 \in Nat \ {0}
    BY Z3T(20), SMTT(20), <1>0 DEF Threads
  <2>2. thread' = [thread EXCEPT !.pc = "table", !.sector = thread.sector + 1, !.entry = 1]
    BY <1>12 DEF PartNextSector
  <2>3. thread' \in Threads /\ thread'.pc = "table" /\ thread'.bits = thread.bits
        /\ thread'.slot = thread.slot /\ thread'.arg = thread.arg
    BY <1>0, <1>c, <2>1, <2>2 DEF Threads
  <2>4. thread.arg \in WholeHandles /\ thread.arg # NULL
    BY <2>0 DEF IInv, Control, ThreadOK, InConnectBd
  <2> QED
    BY <1>a, <2>0, <2>3, <2>4 DEF ThreadOK, Started
<1>13. CASE PartDone
  <2>0. thread.pc \in Trying /\ g_fs' = g_fs
    BY <1>13 DEF PartDone, At, Trying, InConnectBd
  <2> QED
    BY <1>13, <2>0, VerdictOK DEF PartDone
<1>14. CASE FatfsLock
  <2>0. thread.pc = "fatfs" /\ thread.pc \in Trying /\ g_fs' = g_fs
    BY <1>14 DEF FatfsLock, At, Trying, InConnectBd
  <2>1. CASE Reject
    BY <2>0, <2>1, VerdictOK
  <2>2. CASE Goto("f_mount")
    <3>1. thread' = [thread EXCEPT !.pc = "f_mount"]
      BY <2>2 DEF Goto
    <3>2. thread' \in Threads /\ thread'.pc = "f_mount" /\ thread'.bits = thread.bits
          /\ thread'.slot = thread.slot /\ thread'.arg = thread.arg
      BY <1>0, <1>c, <3>1 DEF Threads
    <3>3. thread.arg # NULL
      BY <2>0 DEF IInv, Control, ThreadOK, InConnectBd
    <3> QED
      BY <1>a, <2>0, <3>2, <3>3 DEF ThreadOK, Started
  <2> QED
    BY <1>14, <2>1, <2>2 DEF FatfsLock
<1>15. CASE FatfsMount
  <2>0. thread.pc = "f_mount" /\ thread.pc \in Trying /\ g_fs' = g_fs
    BY <1>15 DEF FatfsMount, At, Trying, InConnectBd
  <2>1. CASE Reject
    BY <2>0, <2>1, VerdictOK
  <2>2. CASE Goto("vcd")
    <3>1. thread' = [thread EXCEPT !.pc = "vcd"]
      BY <2>2 DEF Goto
    <3>2. thread' \in Threads /\ thread'.pc = "vcd" /\ thread'.bits = thread.bits
          /\ thread'.slot = thread.slot /\ thread'.arg = thread.arg
      BY <1>0, <1>c, <3>1 DEF Threads
    <3>3. thread.arg # NULL
      BY <2>0 DEF IInv, Control, ThreadOK, InConnectBd
    <3> QED
      BY <1>a, <2>0, <3>2, <3>3 DEF ThreadOK, Started
  <2> QED
    BY <1>15, <2>1, <2>2 DEF FatfsMount
<1>16. CASE FatfsFound
  <2>0. thread.pc \in Trying /\ g_fs' = g_fs
    BY <1>16 DEF FatfsFound, At, Trying, InConnectBd
  <2> QED
    BY <1>16, <2>0, VerdictOK DEF FatfsFound
<1> QED
  BY <1>1, <1>2, <1>3, <1>4, <1>5, <1>6, <1>7, <1>8, <1>9, <1>10, <1>11, <1>12, <1>13,
     <1>14, <1>15, <1>16 DEF BdmThread

-----------------------------------------------------------------------------
(* The tables *)

\* Inserting h fills at most one empty slot, and asks for no filtering.
LEMMA InsertStep ==
    ASSUME TypeOK, NEW h \in Handles, h # NULL, Insert(h)
    PROVE  /\ g_mount' \in [Slots -> Rows] /\ caches' \subseteq Devices /\ event' \subseteq Bits
           /\ "FILTER" \in event' <=> "FILTER" \in event
           /\ \A i \in Slots : \/ g_mount'[i].bd = g_mount[i].bd
                               \/ g_mount'[i].bd = h
<1>1. g_mount \in [Slots -> Rows] /\ caches \subseteq Devices /\ event \subseteq Bits
  BY DEF TypeOK
<1>2. CASE FreeSlots = {} /\ UNCHANGED <<g_mount, caches, event>>
  BY <1>1, <1>2
<1>3. ASSUME NEW i \in Slots, NEW c \in Handles, event' = event \cup {"MOUNT"},
             caches' \subseteq Devices,
             g_mount' = [g_mount EXCEPT ![i].bd = h, ![i].cbd = c]
      PROVE  /\ g_mount' \in [Slots -> Rows] /\ caches' \subseteq Devices /\ event' \subseteq Bits
             /\ "FILTER" \in event' <=> "FILTER" \in event
             /\ \A j \in Slots : \/ g_mount'[j].bd = g_mount[j].bd
                                 \/ g_mount'[j].bd = h
  <2>1. event' \subseteq Bits /\ ("FILTER" \in event' <=> "FILTER" \in event)
    BY <1>1, <1>3 DEF Bits
  <2>2. g_mount' = [g_mount EXCEPT ![i] = [g_mount[i] EXCEPT !.bd = h, !.cbd = c]]
    BY <1>1, <1>3
  <2>3. [g_mount[i] EXCEPT !.bd = h, !.cbd = c] \in Rows
        /\ [g_mount[i] EXCEPT !.bd = h, !.cbd = c].bd = h
    BY <1>1 DEF Rows
  <2> QED
    BY Z3T(20), SMTT(20), <1>1, <1>3, <2>1, <2>2, <2>3
<1>4. IsWhole(h) => h[2] \in Devices /\ Cache(h[2]) \in Handles
  BY WholeHandle, WholeDevice, HandleTypes
<1> QED
  BY <1>1, <1>2, <1>3, <1>4, HandleTypes, ZenonT(60) DEF Insert, FreeSlots

\* Disconnecting h empties slots and frees pseudo devices, and no slot is left
\* with a pseudo device that has been freed.
LEMMA DisconnectStep ==
    ASSUME TypeOK, PseudoHeld, NEW h, Disconnect(h)
    PROVE  /\ g_mount' \in [Slots -> Rows] /\ g_part' \in [Partitions -> Handles]
           /\ caches' \subseteq Devices /\ event' \subseteq Bits /\ mass0' \in Mass
           /\ "FILTER" \in event' <=> "FILTER" \in event
           /\ \A i \in Slots : \/ g_mount'[i].bd = g_mount[i].bd
                               \/ g_mount'[i].bd = NULL
           /\ \A i \in SlotsOf(h) : g_mount'[i].bd = NULL
           /\ PseudoHeld'
<1>1. g_mount \in [Slots -> Rows] /\ g_part \in [Partitions -> Handles]
      /\ caches \subseteq Devices /\ event \subseteq Bits /\ mass0 \in Mass
  BY DEF TypeOK
<1>2. \A i \in Slots : g_mount'[i] = IF i \in Cleared(h) THEN Empty ELSE g_mount[i]
  BY DEF Disconnect
<1>3. g_mount' \in [Slots -> Rows]
  BY <1>1, ResetTypes DEF Disconnect
<1>4. g_part' \in [Partitions -> Handles]
  BY <1>1, HandleTypes DEF Disconnect
<1>5. caches' \subseteq Devices
  BY <1>1 DEF Disconnect
<1>6. event' \subseteq Bits /\ ("FILTER" \in event' <=> "FILTER" \in event)
  BY <1>1 DEF Disconnect, Bits
<1>7. mass0' \in Mass
  BY <1>1, ResetTypes DEF Disconnect, FatfsDisconnect
<1>8. \A i \in Slots : g_mount'[i].bd = g_mount[i].bd \/ g_mount'[i].bd = NULL
  BY Z3T(20), SMTT(20), <1>2 DEF Empty
<1>9. \A i \in SlotsOf(h) : g_mount'[i].bd = NULL
  BY Z3T(20), SMTT(20), <1>2 DEF Empty, Cleared, SlotsOf
<1>10. ASSUME NEW i \in Slots, NEW p \in Partitions, g_mount'[i].bd = Pseudo(p)
       PROVE  g_part'[p] # NULL
  <2>1. i \notin Cleared(h) /\ g_mount[i].bd = Pseudo(p)
    BY Z3T(20), SMTT(20), <1>2, <1>10, HandleKinds DEF Empty
  <2>2. p \notin PartitionsOn(h)
    BY <2>1 DEF Cleared
  <2>3. g_part'[p] = g_part[p]
    BY <2>2 DEF Disconnect
  <2> QED
    BY <2>1, <2>3 DEF PseudoHeld
<1> QED
  BY <1>3, <1>4, <1>5, <1>6, <1>7, <1>8, <1>9, <1>10 DEF PseudoHeld

\* A verdict of bdm_try_mount keeps the devices of the mount table.
LEMMA VerdictTable ==
    ASSUME IInv, thread.pc \in Trying, Reject \/ Accept
    PROVE  g_mount' \in [Slots -> Rows] /\ \A i \in Slots : g_mount'[i].bd = g_mount[i].bd
<1>1. g_mount \in [Slots -> Rows]
  BY DEF IInv, TypeOK
<1> QED
  BY <1>1, RejectStep, AcceptStep

\* The steps of bdm_thread that leave devices, partitions and caches alone.
Quiet ==
    \/ BdmWait \/ BdmFilterDone \/ BdmMountSlot \/ BdmMountDone \/ BdmCallback \/ BdmNotify
    \/ BdmProbe \/ PartHeader \/ PartTable \/ PartNextSector \/ PartDone
    \/ FatfsLock \/ FatfsMount \/ FatfsFound

\* A quiet step of bdm_thread keeps the devices in their slots.
LEMMA QuietTables ==
    ASSUME IInv, Quiet
    PROVE  /\ g_mount' \in [Slots -> Rows] /\ \A i \in Slots : g_mount'[i].bd = g_mount[i].bd
           /\ UNCHANGED <<g_part, partVolume, caches>> /\ UNCHANGED callers
           /\ inserting = NULL
<1>1. g_mount \in [Slots -> Rows]
  BY DEF IInv, TypeOK
<1>2. CASE \/ BdmWait \/ BdmFilterDone \/ BdmMountSlot \/ BdmMountDone \/ BdmCallback
           \/ BdmNotify \/ PartNextSector
  BY <1>1, <1>2 DEF BdmWait, BdmFilterDone, BdmMountSlot, BdmMountDone, BdmCallback, BdmNotify,
                    PartNextSector, At, BdmMayRun
<1>3. CASE BdmProbe \/ PartHeader \/ PartTable \/ PartDone \/ FatfsLock \/ FatfsMount \/ FatfsFound
  <2>1. thread.pc \in Trying /\ inserting = NULL
    BY <1>3 DEF BdmProbe, PartHeader, PartTable, PartDone, FatfsLock, FatfsMount, FatfsFound,
                At, BdmMayRun, Trying, InConnectBd
  <2>2. UNCHANGED <<g_part, partVolume, caches>> /\ UNCHANGED callers
    BY <1>3 DEF BdmProbe, PartHeader, PartTable, PartDone, FatfsLock, FatfsMount, FatfsFound
  <2>3. UNCHANGED g_mount \/ Reject \/ Accept
    BY <1>3 DEF BdmProbe, PartHeader, PartTable, PartDone, FatfsLock, FatfsMount, FatfsFound
  <2> QED
    BY <1>1, <2>1, <2>2, <2>3, VerdictTable
<1> QED
  BY <1>2, <1>3 DEF Quiet

\* The flags and the mounted volume after a quiet step; BdmWait takes the
\* events, BdmFilterDone answers the filter request.
LEMMA QuietFlags ==
    ASSUME IInv, Quiet
    PROVE  /\ event' \subseteq Bits /\ filterEvent' \in BOOLEAN /\ told' \in BOOLEAN
           /\ mass0' \in Mass /\ lock' \in {"free", "bdm", "client"}
           /\ BdmWait \/ ("FILTER" \in event' <=> "FILTER" \in event)
           /\ BdmFilterDone \/ filterEvent' = filterEvent
<1>1. event \subseteq Bits /\ filterEvent \in BOOLEAN /\ told \in BOOLEAN /\ mass0 \in Mass
      /\ lock \in {"free", "bdm", "client"}
  BY DEF IInv, TypeOK
<1>2. CASE BdmWait
  BY <1>1, <1>2 DEF BdmWait
<1>3. CASE BdmFilterDone
  BY <1>1, <1>3 DEF BdmFilterDone
<1>4. CASE BdmCallback
  BY <1>1, <1>4 DEF BdmCallback
<1>5. CASE BdmNotify
  BY <1>1, <1>5 DEF BdmNotify, Bits
<1>6. CASE \/ BdmMountSlot \/ BdmMountDone \/ BdmProbe \/ PartHeader \/ PartTable
           \/ PartNextSector \/ PartDone
  BY <1>1, <1>6 DEF BdmMountSlot, BdmMountDone, BdmProbe, PartHeader, PartTable,
                    PartNextSector, PartDone
<1>7. CASE FatfsLock
  <2>1. [bd |-> thread.arg, state |-> "UNSELECTED"] \in Mass
    BY DEF IInv, TypeOK, Threads, Mass, States
  <2> QED
    BY <1>1, <1>7, <2>1 DEF FatfsLock
<1>8. CASE FatfsMount \/ FatfsFound
  <2>1. \A s \in States : [mass0 EXCEPT !.state = s] \in Mass
    BY <1>1 DEF Mass
  <2>2. "VOLUME_LOCKED" \in States /\ "VCD_READY" \in States
    BY DEF States
  <2> QED
    BY <1>1, <1>8, <2>1, <2>2, ResetTypes DEF FatfsMount, FatfsFound
<1> QED
  BY <1>2, <1>3, <1>4, <1>5, <1>6, <1>7, <1>8 DEF Quiet

\* A partition entry uses a free pseudo device p: it stands for a volume of
\* the device being read, and enters the mount table if that device may.
LEMMA EntryStep ==
    ASSUME IInv, PartEntry
    PROVE  /\ g_mount' \in [Slots -> Rows] /\ g_part' \in [Partitions -> Handles]
           /\ partVolume' \in [Partitions -> Volumes]
           /\ caches' \subseteq Devices /\ event' \subseteq Bits
           /\ "FILTER" \in event' <=> "FILTER" \in event
           /\ \/ UNCHANGED tables
              \/ \E p \in Partitions :
                    /\ g_part[p] = NULL /\ g_part'[p] # NULL
                    /\ partVolume'[p][1] = DeviceOf(thread.arg)
                    /\ \A q \in Partitions \ {p} :
                          g_part'[q] = g_part[q] /\ partVolume'[q] = partVolume[q]
                    /\ \A i \in Slots :
                          \/ g_mount'[i].bd = g_mount[i].bd
                          \/ /\ g_mount'[i].bd = Pseudo(p)
                             /\ ~Filtered(Name[DeviceOf(thread.arg)])
<1>1. TypeOK /\ g_mount \in [Slots -> Rows] /\ g_part \in [Partitions -> Handles]
      /\ partVolume \in [Partitions -> Volumes] /\ caches \subseteq Devices
      /\ event \subseteq Bits /\ thread \in Threads
  BY DEF IInv, TypeOK
<1>2. thread.arg \in WholeHandles /\ thread.arg \in Handles /\ thread.arg # NULL
      /\ thread.sector \in 1 .. Len(Table[thread.arg[2]])
  <2>1. thread.pc = "entries" /\ thread.pc \in Trying
    BY DEF PartEntry, At, Trying, InConnectBd
  <2>2. thread.arg \in Handles /\ thread.sector \in Nat \ {0}
    BY <1>1 DEF Threads
  <2>3. thread.arg \in WholeHandles /\ thread.arg # NULL
        /\ thread.sector <= Len(Table[thread.arg[2]])
    BY <2>1 DEF IInv, Control, ThreadOK, InConnectBd
  <2>4. Table[thread.arg[2]] \in Seq(Seq(Nat \ {0}))
    BY <2>3, WholeDevice
  <2>5. Len(Table[thread.arg[2]]) \in Nat
    BY Z3T(20), SMTT(20), <2>4
  <2>6. thread.sector \in 1 .. Len(Table[thread.arg[2]])
    BY Z3T(20), SMTT(20), <2>2, <2>3, <2>5
  <2> QED
    BY <2>2, <2>3, <2>6
<1>3. DeviceOf(thread.arg) = thread.arg[2] /\ thread.arg[2] \in Devices
  BY <1>2, WholeDevice
<1>4. Sectors[thread.sector] \in Seq(Nat \ {0})
  BY <1>2, <1>3, ElementOfSeq DEF Sectors
<1>5. Sectors[thread.sector][thread.entry] \in Nat
  <2>1. thread.entry \in 1 .. Len(Sectors[thread.sector])
    BY Z3T(20), SMTT(20), <1>1, <1>4 DEF PartEntry, Threads
  <2> QED
    BY Z3T(20), SMTT(20), <1>4, <2>1, ElementOfSeq
<1>6. CASE UNCHANGED <<tables, event>>
  BY <1>1, <1>6
<1>7. CASE ~UNCHANGED <<tables, event>>
  <2>1. PICK p \in FreePartitions :
             /\ g_part' = [g_part EXCEPT ![p] = thread.arg]
             /\ partVolume' = [partVolume EXCEPT
                   ![p] = <<DeviceOf(thread.arg), Sectors[thread.sector][thread.entry]>>]
             /\ IF Filtered(Name[DeviceOf(thread.arg)])
                THEN UNCHANGED <<g_mount, caches, event>>
                ELSE Insert(Pseudo(p))
    BY <1>7 DEF PartEntry
  <2>2. p \in Partitions /\ g_part[p] = NULL /\ Pseudo(p) \in Handles /\ Pseudo(p) # NULL
    BY HandleTypes, HandleKinds DEF FreePartitions
  <2>3. g_part' \in [Partitions -> Handles] /\ g_part'[p] # NULL
        /\ \A q \in Partitions \ {p} : g_part'[q] = g_part[q]
    BY <1>1, <1>2, <2>1, <2>2
  <2>4. <<DeviceOf(thread.arg), Sectors[thread.sector][thread.entry]>> \in Volumes
    BY <1>3, <1>5 DEF Volumes
  <2>5. partVolume' \in [Partitions -> Volumes] /\ partVolume'[p][1] = DeviceOf(thread.arg)
        /\ \A q \in Partitions \ {p} : partVolume'[q] = partVolume[q]
    BY <1>1, <2>1, <2>2, <2>4
  <2>6. CASE Filtered(Name[DeviceOf(thread.arg)])
    BY <1>1, <2>1, <2>2, <2>3, <2>5, <2>6
  <2>7. CASE ~Filtered(Name[DeviceOf(thread.arg)])
    <3>1. Insert(Pseudo(p))
      BY <2>1, <2>7
    <3>2. /\ g_mount' \in [Slots -> Rows] /\ caches' \subseteq Devices /\ event' \subseteq Bits
          /\ "FILTER" \in event' <=> "FILTER" \in event
          /\ \A i \in Slots : g_mount'[i].bd = g_mount[i].bd \/ g_mount'[i].bd = Pseudo(p)
      BY <1>1, <2>2, <3>1, InsertStep
    <3> QED
      BY <2>2, <2>3, <2>5, <2>7, <3>2
  <2> QED
    BY <2>6, <2>7
<1> QED
  BY <1>6, <1>7

-----------------------------------------------------------------------------
(* Types *)

\* The tables start typed (bdm_init, part_init).
LEMMA InitType == Init => TypeOK
<1> SUFFICES ASSUME Init PROVE TypeOK
  OBVIOUS
<1>1. partVolume \in [Partitions -> Volumes]
  BY DEF Init, Volumes
<1>2. g_mount \in [Slots -> Rows] /\ mass0 \in Mass /\ thread \in Threads
  BY ResetTypes DEF Init
<1>3. g_part \in [Partitions -> Handles] /\ inserting \in Handles /\ client \in Handles
  BY HandleTypes DEF Init
<1>4. caches \subseteq Devices /\ connected \subseteq Devices /\ event \subseteq Bits
      /\ plugs \in 0 .. MaxPlugs
  BY Z3T(20), SMTT(20) DEF Init
<1>5. filterEvent \in BOOLEAN /\ g_ata_only \in BOOLEAN /\ told \in BOOLEAN
  BY DEF Init
<1>6. g_fs \in Seq(FsNames) /\ Len(g_fs) <= Len(FileSystems)
  BY Z3T(20), SMTT(20), FileSystemNames DEF Init
<1>7. lock \in {"free", "bdm", "client"} /\ setter \in {"idle", "set", "waiting", "done"}
      /\ registrar \in {"idle", "stored", "done"}
  BY DEF Init
<1> QED
  BY <1>1, <1>2, <1>3, <1>4, <1>5, <1>6, <1>7 DEF TypeOK

\* The device a driver is announcing is a handle of its own device.
LEMMA InsertingRaw ==
    ASSUME IInv, inserting # NULL
    PROVE  /\ inserting \in Handles
           /\ \E d \in Devices : inserting = Raw(d)
           /\ \A p : inserting # Pseudo(p)
BY HandleTypes, HandleKinds DEF IInv, TypeOK, Control

\* Every step keeps the types.
LEMMA TypeStep ==
    ASSUME IInv, [Next]_vars
    PROVE  TypeOK'
<1>0. TypeOK /\ PseudoHeld
  BY DEF IInv
<1>1. CASE Quiet
  <2>1. thread' \in Threads
    BY <1>1, ThreadStep DEF Quiet, BdmThread
  <2> QED
    BY <1>0, <1>1, <2>1, QuietTables, QuietFlags DEF TypeOK
<1>2. CASE BdmFilterSlot
  <2>1. thread' \in Threads
    BY <1>2, ThreadStep DEF BdmThread
  <2>2. /\ g_mount' \in [Slots -> Rows] /\ g_part' \in [Partitions -> Handles]
        /\ caches' \subseteq Devices /\ event' \subseteq Bits /\ mass0' \in Mass
    <3>1. CASE UNCHANGED <<g_mount, g_part, caches, event, mass0>>
      BY <1>0, <3>1 DEF TypeOK
    <3>2. CASE Disconnect(g_mount[thread.slot].bd)
      BY <1>0, <3>2, DisconnectStep
    <3> QED
      BY <1>2, <3>1, <3>2 DEF BdmFilterSlot
  <2>3. UNCHANGED <<callers, partVolume, lock, filterEvent, told>>
    BY <1>2 DEF BdmFilterSlot
  <2> QED
    BY <1>0, <2>1, <2>2, <2>3 DEF TypeOK
<1>3. CASE PartEntry
  <2>1. thread' \in Threads
    BY <1>3, ThreadStep DEF BdmThread
  <2>2. UNCHANGED <<fatfs, callers, filterEvent, told>>
    BY <1>3 DEF PartEntry
  <2> QED
    BY <1>0, <1>3, <2>1, <2>2, EntryStep DEF TypeOK
<1>4. CASE ConnectFs
  <2>1. g_fs' \in Seq(FsNames) /\ Len(g_fs') <= Len(FileSystems)
    <3>1. g_fs \in Seq(FsNames) /\ Len(g_fs) \in Nat /\ Len(g_fs) < 3
      BY Z3T(20), SMTT(20), <1>0, <1>4, FileSystemNames DEF TypeOK, ConnectFs
    <3>2. FileSystems[Len(g_fs) + 1] \in FsNames
      BY Z3T(20), SMTT(20), <3>1, FileSystemNames
    <3>3. g_fs' = Append(g_fs, FileSystems[Len(g_fs) + 1])
      BY <1>4 DEF ConnectFs
    <3> QED
      BY Z3T(20), SMTT(20), <3>1, <3>2, <3>3, FileSystemNames, AppendProperties
  <2>2. event' \subseteq Bits
    BY <1>0, <1>4 DEF TypeOK, ConnectFs, Bits
  <2> QED
    BY <1>0, <1>4, <2>1, <2>2 DEF TypeOK, ConnectFs
<1>5. CASE SetAtaOnly \/ SetAtaOnlyRaises
  <2>1. event' \subseteq Bits
    BY <1>0, <1>5 DEF TypeOK, SetAtaOnly, SetAtaOnlyRaises, Bits
  <2> QED
    BY <1>0, <1>5, <2>1 DEF TypeOK, SetAtaOnly, SetAtaOnlyRaises
<1>6. CASE SetAtaOnlyReturns
  BY <1>0, <1>6 DEF TypeOK, SetAtaOnlyReturns
<1>7. CASE RegisterCallback
  BY <1>0, <1>7 DEF TypeOK, RegisterCallback
<1>8. CASE RegisterScan
  <2>1. event' \subseteq Bits
    BY <1>0, <1>8 DEF TypeOK, RegisterScan, Bits
  <2> QED
    BY <1>0, <1>8, <2>1 DEF TypeOK, RegisterScan
<1>9. CASE ClientStart
  <2>1. mass0.bd \in Handles
    BY <1>0 DEF TypeOK, Mass
  <2> QED
    BY <1>0, <1>9, <2>1 DEF TypeOK, ClientStart
<1>10. CASE ClientEnd
  BY <1>0, <1>10, HandleTypes DEF TypeOK, ClientEnd
<1>11. CASE ClientStop
  BY <1>0, <1>11, ResetTypes DEF TypeOK, ClientStop
<1>12. CASE ConnectInsert
  <2>1. g_mount' \in [Slots -> Rows] /\ caches' \subseteq Devices /\ event' \subseteq Bits
    BY <1>0, <1>12, InsertingRaw, InsertStep DEF ConnectInsert
  <2> QED
    BY <1>0, <1>12, <2>1, HandleTypes DEF TypeOK, ConnectInsert
<1>13. ASSUME NEW d \in Devices, ConnectCheck(d) PROVE TypeOK'
  <2>1. inserting' \in Handles /\ connected' \subseteq Devices /\ plugs' \in 0 .. MaxPlugs
    <3>1. inserting' = NULL \/ inserting' = Raw(d)
      BY <1>13 DEF ConnectCheck
    <3>2. connected' \subseteq Devices
      BY <1>0, <1>13 DEF TypeOK, ConnectCheck
    <3>3. plugs' \in 0 .. MaxPlugs
      BY Z3T(20), SMTT(20), <1>0, <1>13 DEF TypeOK, ConnectCheck
    <3> QED
      BY <3>1, <3>2, <3>3, HandleTypes
  <2> QED
    BY <1>0, <1>13, <2>1 DEF TypeOK, ConnectCheck
<1>14. ASSUME NEW d \in Devices, Unplug(d) PROVE TypeOK'
  <2>1. /\ g_mount' \in [Slots -> Rows] /\ g_part' \in [Partitions -> Handles]
        /\ caches' \subseteq Devices /\ event' \subseteq Bits /\ mass0' \in Mass
    BY <1>0, <1>14, DisconnectStep DEF Unplug
  <2> QED
    BY <1>0, <1>14, <2>1 DEF TypeOK, Unplug
<1>15. CASE UNCHANGED vars
  BY <1>0, <1>15 DEF TypeOK, vars
<1> QED
  BY <1>1, <1>2, <1>3, <1>4, <1>5, <1>6, <1>7, <1>8, <1>9, <1>10, <1>11, <1>12, <1>13,
     <1>14, <1>15 DEF Next, BdmThread, Quiet, StartCode, Users

-----------------------------------------------------------------------------
(* Control and pseudo devices *)

\* The steps of the other threads leave bdm_thread where it is.
Others ==
    \/ StartCode \/ Users \/ ConnectInsert
    \/ \E d \in Devices : ConnectCheck(d) \/ Unplug(d)

\* No other thread moves bdm_thread or disconnects a file system.
LEMMA OthersStep ==
    ASSUME IInv, Others \/ UNCHANGED vars
    PROVE  thread' = thread /\ (Started => Started')
<1>1. CASE ConnectFs
  <2>0. Len(g_fs) \in Nat
    <3>1. g_fs \in Seq(FsNames)
      BY DEF IInv, TypeOK
    <3> QED
      BY Z3T(20), SMTT(20), <3>1
  <2>1. thread' = thread /\ ~Started
    <3>1. thread' = thread
      BY <1>1 DEF ConnectFs
    <3>2. Len(g_fs) < 3
      BY <1>1, FileSystemNames DEF ConnectFs
    <3>3. \A n \in Nat : n < 3 => n # 3
      BY Z3T(20), SMTT(20)
    <3>4. Len(g_fs) # 3
      BY <2>0, <3>2, <3>3
    <3> QED
      BY <3>1, <3>4, FileSystemNames DEF Started
  <2> QED
    BY <2>1
<1>2. CASE Others /\ ~ConnectFs
  BY <1>2 DEF Others, StartCode, Users, SetAtaOnly, SetAtaOnlyRaises, SetAtaOnlyReturns, RegisterCallback,
              RegisterScan, ClientStart, ClientEnd, ClientStop, ConnectInsert, ConnectCheck,
              Unplug, Started
<1>3. CASE UNCHANGED vars
  BY <1>3 DEF vars, Started
<1> QED
  BY <1>1, <1>2, <1>3

\* Every step keeps bdm_thread in order.
LEMMA ControlStep ==
    ASSUME IInv, [Next]_vars
    PROVE  Control'
<1>0. Control /\ TypeOK /\ PseudoHeld
  BY DEF IInv
<1>1. CASE Quiet
  <2>1. ThreadOK'
    BY <1>1, ThreadStep DEF Quiet, BdmThread
  <2> QED
    BY <1>0, <1>1, <2>1, QuietTables DEF Control, Started
<1>2. CASE BdmFilterSlot
  <2>1. ThreadOK'
    BY <1>2, ThreadStep DEF BdmThread
  <2>2. UNCHANGED <<g_fs, inserting>>
    BY <1>2 DEF BdmFilterSlot
  <2>3. \A i \in Slots : g_mount'[i].bd = g_mount[i].bd \/ g_mount'[i].bd = NULL
    BY <1>0, <1>2, DisconnectStep DEF BdmFilterSlot
  <2> QED
    BY <1>0, <2>1, <2>2, <2>3 DEF Control, Started
<1>3. CASE PartEntry
  <2>1. ThreadOK'
    BY <1>3, ThreadStep DEF BdmThread
  <2>2. UNCHANGED <<g_fs, inserting>> /\ thread.pc \in Trying
    BY <1>3 DEF PartEntry, At, Trying, InConnectBd
  <2> QED
    BY <1>0, <2>1, <2>2 DEF Control, ThreadOK, Started
<1>4. CASE Others
  <2>1. thread' = thread /\ (Started => Started')
    BY <1>4, OthersStep
  <2>2. ThreadOK'
    BY <1>0, <2>1 DEF Control, ThreadOK
  <2>3. CASE StartCode \/ Users
    <3>1. UNCHANGED <<inserting, g_mount>>
      BY <2>3 DEF StartCode, Users, ConnectFs, SetAtaOnly, SetAtaOnlyRaises, SetAtaOnlyReturns,
                  RegisterCallback, RegisterScan, ClientStart, ClientEnd, ClientStop
    <3> QED
      BY <1>0, <2>1, <2>2, <3>1 DEF Control
  <2>4. CASE ConnectInsert
    BY <1>0, <2>1, <2>2, <2>4 DEF Control, ConnectInsert
  <2>5. ASSUME NEW d \in Devices, ConnectCheck(d) PROVE Control'
    BY <1>0, <2>1, <2>2, <2>5 DEF Control, ConnectCheck
  <2>6. ASSUME NEW d \in Devices, Unplug(d) PROVE Control'
    <3>1. \A i \in Slots : g_mount'[i].bd = g_mount[i].bd \/ g_mount'[i].bd = NULL
      BY <1>0, <2>6, DisconnectStep DEF Unplug
    <3> QED
      BY <1>0, <2>1, <2>2, <2>6, <3>1 DEF Control, Unplug
  <2> QED
    BY <1>4, <2>3, <2>4, <2>5, <2>6 DEF Others
<1>5. CASE UNCHANGED vars
  BY <1>0, <1>5 DEF Control, ThreadOK, Started, vars
<1> QED
  BY <1>1, <1>2, <1>3, <1>4, <1>5 DEF Next, BdmThread, Quiet, Others

\* No step frees a pseudo device that is in a slot.
LEMMA PseudoStep ==
    ASSUME IInv, [Next]_vars
    PROVE  PseudoHeld'
<1>0. TypeOK /\ PseudoHeld
  BY DEF IInv
<1>1. CASE Quiet
  BY <1>0, <1>1, QuietTables DEF PseudoHeld
<1>2. CASE BdmFilterSlot
  BY <1>0, <1>2, DisconnectStep DEF BdmFilterSlot, PseudoHeld
<1>3. CASE PartEntry
  <2>1. ASSUME NEW i \in Slots, NEW p \in Partitions, g_mount'[i].bd = Pseudo(p)
        PROVE  g_part'[p] # NULL
    <3>1. CASE UNCHANGED tables
      BY <1>0, <2>1, <3>1 DEF PseudoHeld
    <3>2. CASE ~UNCHANGED tables
      <4>1. PICK q \in Partitions :
               /\ g_part'[q] # NULL
               /\ \A r \in Partitions \ {q} : g_part'[r] = g_part[r]
               /\ g_mount'[i].bd = g_mount[i].bd \/ g_mount'[i].bd = Pseudo(q)
        BY <1>3, <3>2, EntryStep
      <4>2. CASE p = q
        BY <4>1, <4>2
      <4>3. CASE p # q
        <5>1. g_mount[i].bd = Pseudo(p)
          BY Z3T(20), SMTT(20), <2>1, <4>1, <4>3, HandleKinds
        <5> QED
          BY <1>0, <4>1, <4>3, <5>1 DEF PseudoHeld
      <4> QED
        BY <4>2, <4>3
    <3> QED
      BY <3>1, <3>2
  <2> QED
    BY <2>1 DEF PseudoHeld
<1>4. CASE Others \/ UNCHANGED vars
  <2>1. CASE StartCode \/ Users \/ UNCHANGED vars
    <3>1. UNCHANGED <<g_part, g_mount>>
      BY <2>1 DEF StartCode, Users, ConnectFs, SetAtaOnly, SetAtaOnlyRaises, SetAtaOnlyReturns, vars,
                  RegisterCallback, RegisterScan, ClientStart, ClientEnd, ClientStop
    <3> QED
      BY <1>0, <3>1 DEF PseudoHeld
  <2>2. CASE ConnectInsert
    <3>1. \A i \in Slots : g_mount'[i].bd = g_mount[i].bd \/ g_mount'[i].bd = inserting
      BY <1>0, <2>2, InsertingRaw, InsertStep DEF ConnectInsert
    <3> QED
      BY <1>0, <2>2, <3>1, InsertingRaw DEF PseudoHeld, ConnectInsert
  <2>3. ASSUME NEW d \in Devices, ConnectCheck(d) PROVE PseudoHeld'
    BY <1>0, <2>3 DEF ConnectCheck, PseudoHeld
  <2>4. ASSUME NEW d \in Devices, Unplug(d) PROVE PseudoHeld'
    BY <1>0, <2>4, DisconnectStep DEF Unplug
  <2> QED
    BY <1>4, <2>1, <2>2, <2>3, <2>4 DEF Others
<1> QED
  BY <1>1, <1>2, <1>3, <1>4 DEF Next, BdmThread, Quiet, Others

-----------------------------------------------------------------------------
(* The filter *)

\* While partVolume keeps still, so does IsAta; a slot stays as clean as it is
\* when it keeps its device or loses it.
LEMMA AtaSame ==
    ASSUME UNCHANGED partVolume, NEW i \in Slots, AtaSlot(i),
           g_mount'[i].bd = g_mount[i].bd \/ g_mount'[i].bd = NULL
    PROVE  AtaSlot(i)'
BY DEF AtaSlot, IsAta, DeviceOf, VolumeOf

\* With the filter on, no step puts a device that is not ata into a clean slot,
\* unless its driver had passed the check before.
LEMMA AtaKept ==
    ASSUME IInv, [Next]_vars, g_ata_only, ConnectInsert => IsAta(inserting),
           NEW i \in Slots, AtaSlot(i)
    PROVE  AtaSlot(i)'
<1>0. TypeOK /\ PseudoHeld
  BY DEF IInv
<1>1. CASE Quiet
  BY <1>1, QuietTables, AtaSame
<1>2. CASE BdmFilterSlot
  <2>1. UNCHANGED partVolume
    BY <1>2 DEF BdmFilterSlot
  <2>2. g_mount'[i].bd = g_mount[i].bd \/ g_mount'[i].bd = NULL
    BY <1>0, <1>2, DisconnectStep DEF BdmFilterSlot
  <2> QED
    BY <2>1, <2>2, AtaSame
<1>3. CASE PartEntry
  <2>1. CASE UNCHANGED tables
    BY <2>1, AtaSame
  <2>2. CASE ~UNCHANGED tables
    <3>1. PICK p \in Partitions :
                    /\ g_part[p] = NULL
                    /\ partVolume'[p][1] = DeviceOf(thread.arg)
                    /\ \A q \in Partitions \ {p} : partVolume'[q] = partVolume[q]
                    /\ \/ g_mount'[i].bd = g_mount[i].bd
                       \/ /\ g_mount'[i].bd = Pseudo(p)
                          /\ ~Filtered(Name[DeviceOf(thread.arg)])
      BY <1>3, <2>2, EntryStep
    <3>2. CASE g_mount'[i].bd = g_mount[i].bd
      <4>1. g_mount[i].bd \in Handles /\ g_mount[i].bd # Pseudo(p)
        BY <1>0, <3>1 DEF TypeOK, Rows, PseudoHeld
      <4>2. DeviceOf(g_mount[i].bd)' = DeviceOf(g_mount[i].bd)
        <5>1. CASE ~\E q \in Partitions : g_mount[i].bd = Pseudo(q)
          <6>1. g_mount[i].bd[1] # "pseudo"
            BY Z3T(20), SMTT(20), <4>1, <5>1 DEF Handles, NULL, Raw, Cache
          <6> QED
            BY <3>2, <6>1 DEF DeviceOf, VolumeOf
        <5>2. ASSUME NEW q \in Partitions, g_mount[i].bd = Pseudo(q)
              PROVE  DeviceOf(g_mount[i].bd)' = DeviceOf(g_mount[i].bd)
          <6>1. partVolume'[q] = partVolume[q]
            BY <3>1, <4>1, <5>2
          <6>2. g_mount'[i].bd = Pseudo(q)
            BY <3>2, <5>2
          <6> QED
            <7>1. VolumeOf(g_mount[i].bd)' = partVolume'[q]
              BY <6>2, HandleKinds DEF VolumeOf, IsWhole
            <7>2. VolumeOf(g_mount[i].bd) = partVolume[q]
              BY <5>2, HandleKinds DEF VolumeOf, IsWhole
            <7> QED
              BY <6>1, <7>1, <7>2 DEF DeviceOf
        <5> QED
          BY <5>1, <5>2
      <4> QED
        BY <3>2, <4>2 DEF AtaSlot, IsAta
    <3>3. CASE g_mount'[i].bd = Pseudo(p) /\ ~Filtered(Name[DeviceOf(thread.arg)])
      <4>1. DeviceOf(g_mount[i].bd)' = DeviceOf(thread.arg)
        <5>1. VolumeOf(g_mount[i].bd)' = partVolume'[p]
          BY <3>3, HandleKinds DEF VolumeOf, IsWhole
        <5> QED
          BY <3>1, <5>1 DEF DeviceOf
      <4>2. Name[DeviceOf(thread.arg)] = "ata"
        BY <3>3 DEF Filtered
      <4> QED
        BY <4>1, <4>2 DEF AtaSlot, IsAta
    <3> QED
      BY <3>1, <3>2, <3>3
  <2> QED
    BY <2>1, <2>2
<1>4. CASE StartCode \/ Users \/ UNCHANGED vars \/ \E d \in Devices : ConnectCheck(d)
  <2>1. UNCHANGED <<partVolume, g_mount>>
    BY <1>4 DEF StartCode, Users, ConnectFs, SetAtaOnly, SetAtaOnlyRaises, SetAtaOnlyReturns,
                vars, ConnectCheck, RegisterCallback, RegisterScan, ClientStart, ClientEnd, ClientStop
  <2> QED
    BY <2>1, AtaSame
<1>5. CASE ConnectInsert
  <2>1. UNCHANGED partVolume /\ (g_mount'[i].bd = g_mount[i].bd \/ g_mount'[i].bd = inserting)
    BY <1>0, <1>5, InsertingRaw, InsertStep DEF ConnectInsert
  <2>2. IsAta(inserting)
    BY <1>5
  <2>3. CASE g_mount'[i].bd = inserting
    BY <2>1, <2>2, <2>3 DEF AtaSlot, IsAta, DeviceOf, VolumeOf
  <2> QED
    BY <2>1, <2>3, AtaSame
<1>6. ASSUME NEW d \in Devices, Unplug(d) PROVE AtaSlot(i)'
  <2>1. UNCHANGED partVolume
    BY <1>6 DEF Unplug
  <2>2. g_mount'[i].bd = g_mount[i].bd \/ g_mount'[i].bd = NULL
    BY <1>0, <1>6, DisconnectStep DEF Unplug
  <2> QED
    BY <2>1, <2>2, AtaSame
<1> QED
  BY <1>1, <1>2, <1>3, <1>4, <1>5, <1>6 DEF Next, BdmThread, Quiet

\* A device being announced is ata or not, whatever happens to partitions.
LEMMA InsertingAta ==
    ASSUME IInv, inserting # NULL, inserting' = inserting, IsAta(inserting)
    PROVE  IsAta(inserting)'
<1>1. PICK d \in Devices : inserting = Raw(d)
  BY InsertingRaw
<1> QED
  BY <1>1 DEF IsAta, DeviceOf, VolumeOf, Raw

\* The steps that have no part in the filter request.
LEMMA PlainStep ==
    ASSUME IInv, [Next]_vars, ~BdmWait, ~BdmFilterSlot, ~BdmFilterDone, ~SetAtaOnly,
           ~SetAtaOnlyRaises, ~SetAtaOnlyReturns
    PROVE  /\ UNCHANGED <<setter, g_ata_only, filterEvent>>
           /\ "FILTER" \in event' <=> "FILTER" \in event
           /\ thread'.bits \subseteq thread.bits
           /\ thread.pc = "filter" => thread' = thread
           /\ \/ inserting' = inserting \/ inserting' = NULL
              \/ inserting' # NULL /\ (g_ata_only => IsAta(inserting)')
<1>0. TypeOK /\ PseudoHeld
  BY DEF IInv
<1>1. CASE Quiet
  <2>1. thread.pc # "filter"
    BY <1>1 DEF Quiet, BdmMountSlot, BdmMountDone, BdmCallback, BdmNotify, BdmProbe, PartHeader,
                PartTable, PartNextSector, PartDone, FatfsLock, FatfsMount, FatfsFound, At
  <2>2. thread'.bits \subseteq thread.bits
    BY <1>1, ThreadStep DEF Quiet, BdmThread
  <2> QED
    BY <1>1, <2>1, <2>2, QuietTables, QuietFlags
<1>2. CASE PartEntry
  <2>1. thread.pc # "filter" /\ UNCHANGED <<callers, filterEvent>>
    BY <1>2 DEF PartEntry, At
  <2>2. thread'.bits \subseteq thread.bits
    BY <1>2, ThreadStep DEF BdmThread
  <2> QED
    BY <1>2, <2>1, <2>2, EntryStep
<1>3. CASE ConnectFs \/ Users \/ UNCHANGED vars
  BY <1>3 DEF ConnectFs, Users, RegisterCallback, RegisterScan, ClientStart, ClientEnd,
              ClientStop, vars
<1>4. CASE ConnectInsert
  <2>1. "FILTER" \in event' <=> "FILTER" \in event
    BY <1>0, <1>4, InsertingRaw, InsertStep DEF ConnectInsert
  <2> QED
    BY <1>4, <2>1 DEF ConnectInsert
<1>5. ASSUME NEW d \in Devices, ConnectCheck(d)
      PROVE  /\ UNCHANGED <<setter, g_ata_only, filterEvent, event, thread>>
             /\ inserting' = NULL \/ (inserting' # NULL /\ (g_ata_only => IsAta(inserting)'))
  <2>1. UNCHANGED <<setter, g_ata_only, filterEvent, event, thread>>
    BY <1>5 DEF ConnectCheck
  <2>2. ASSUME inserting' = Raw(d), ~Filtered(Name[d])
        PROVE  inserting' # NULL /\ (g_ata_only => IsAta(inserting)')
    <3>1. DeviceOf(inserting)' = d
      BY <2>2 DEF DeviceOf, VolumeOf, Raw
    <3>2. inserting' # NULL
      BY <2>2, HandleKinds
    <3>3. g_ata_only => IsAta(inserting)'
      BY <2>2, <3>1 DEF Filtered, IsAta
    <3> QED
      BY <3>2, <3>3
  <2>3. inserting' = NULL \/ (inserting' = Raw(d) /\ ~Filtered(Name[d]))
    BY <1>5 DEF ConnectCheck
  <2>4. inserting' = NULL \/ (inserting' # NULL /\ (g_ata_only => IsAta(inserting)'))
    BY <2>2, <2>3
  <2> QED
    BY <2>1, <2>4
<1>6. ASSUME NEW d \in Devices, Unplug(d)
      PROVE  /\ UNCHANGED <<setter, g_ata_only, filterEvent, inserting, thread>>
             /\ "FILTER" \in event' <=> "FILTER" \in event
  BY <1>0, <1>6, DisconnectStep DEF Unplug
<1> QED
  BY <1>1, <1>2, <1>3, <1>4, <1>5, <1>6 DEF Next, BdmThread, Quiet, StartCode

\* Every step leaves the filter request in one of its stages.
LEMMA FilterStep ==
    ASSUME IInv, [Next]_vars
    PROVE  Filter'
<1>0. TypeOK /\ PseudoHeld /\ Filter
  BY DEF IInv
<1>a. setter \in {"idle", "set", "waiting", "done"} /\ thread \in Threads
  BY <1>0 DEF TypeOK
\* once the request has been taken, a device being announced is ata
<1>b. g_ata_only /\ setter # "set" /\ "FILTER" \notin event =>
         \A i \in Slots : AtaSlot(i) => AtaSlot(i)'
  BY <1>0, AtaKept DEF Filter, ConnectInsert
<1>1. CASE BdmWait
  <2>1. thread' = [thread EXCEPT !.pc = "filter", !.bits = event, !.slot = 1]
        /\ thread.pc = "wait" /\ event' = {} /\ inserting = NULL
        /\ UNCHANGED <<setter, g_ata_only, filterEvent, inserting>>
    BY <1>1 DEF BdmWait, At, BdmMayRun
  <2>2. thread'.pc = "filter" /\ thread'.bits = event /\ thread'.slot = 1
    BY <1>a, <2>1 DEF Threads
  <2>3. Raised => Working'
    <3>1. \A i \in Slots : ~(i < 1)
      BY Z3T(20), SMTT(20) DEF Slots
    <3> QED
      BY <2>1, <2>2, <3>1 DEF Raised, Working
  <2>4. ~Working
    BY <2>1 DEF Working
  <2>5. g_ata_only /\ setter # "set" /\ Answered => Answered'
    BY <1>b, <2>1 DEF Answered
  <2> QED
    BY <1>0, <1>b, <2>1, <2>2, <2>3, <2>4, <2>5 DEF Filter
<1>2. CASE BdmFilterSlot
  <2>1. thread' = [thread EXCEPT !.slot = thread.slot + 1] /\ "FILTER" \in thread.bits
        /\ thread.pc = "filter" /\ thread.slot \in Slots /\ inserting = NULL
        /\ UNCHANGED <<setter, g_ata_only, filterEvent, inserting, partVolume>>
    BY <1>2 DEF BdmFilterSlot, Filtering, At, BdmMayRun
  <2>2. thread'.pc = "filter" /\ thread'.bits = thread.bits /\ thread'.slot = thread.slot + 1
    BY <1>a, <2>1 DEF Threads
  <2>3. "FILTER" \in event' <=> "FILTER" \in event
    BY <1>0, <1>2, DisconnectStep DEF BdmFilterSlot
  <2>4. ASSUME NEW i \in Slots, i = thread.slot PROVE AtaSlot(i)'
    <3>1. CASE g_mount[i].bd # NULL /\ ~IsAta(g_mount[i].bd)
      <4>1. Disconnect(g_mount[i].bd)
        BY <1>2, <2>4, <3>1 DEF BdmFilterSlot
      <4>2. i \in SlotsOf(g_mount[i].bd)
        BY DEF SlotsOf
      <4>3. g_mount'[i].bd = NULL
        BY <1>0, <4>1, <4>2, DisconnectStep
      <4> QED
        BY <4>3 DEF AtaSlot
    <3>2. CASE AtaSlot(i)
      BY <1>2, <2>1, <2>4, <3>2, AtaSame DEF BdmFilterSlot, AtaSlot
    <3> QED
      BY <3>1, <3>2 DEF AtaSlot
  <2>5. g_ata_only /\ setter # "set" /\ Working => Working'
    <3>1. \A i \in Slots : i < thread.slot + 1 => i < thread.slot \/ i = thread.slot
      BY Z3T(20), SMTT(20), <2>1 DEF Slots
    <3> QED
      BY <1>b, <2>1, <2>2, <2>3, <2>4, <3>1 DEF Working
  <2>6. g_ata_only /\ setter # "set" /\ Answered => Answered'
    BY <1>b, <2>1, <2>3 DEF Answered
  <2>7. ~Raised
    BY <2>1 DEF Raised
  <2> QED
    BY <1>0, <1>b, <2>1, <2>2, <2>3, <2>5, <2>6, <2>7 DEF Filter
<1>3. CASE BdmFilterDone
  <2>1. thread' = [thread EXCEPT !.pc = "mount", !.slot = 1] /\ thread.pc = "filter"
        /\ inserting = NULL /\ (Filtering => thread.slot \notin Slots)
        /\ UNCHANGED <<setter, g_ata_only, inserting, event, g_mount, partVolume>>
    BY <1>3 DEF BdmFilterDone, At, BdmMayRun
  <2>2. thread'.bits = thread.bits
    BY <1>a, <2>1 DEF Threads
  <2>3. filterEvent' = (filterEvent \/ "FILTER" \in thread.bits)
    BY <1>3 DEF BdmFilterDone
  <2>4. Raised => Raised'
    BY <2>1, <2>2, <2>3 DEF Raised
  <2>5. g_ata_only /\ setter # "set" /\ Answered => Answered'
    BY <1>b, <2>1, <2>3 DEF Answered
  <2>6. g_ata_only /\ setter # "set" /\ Working => Answered'
    <3>1. SUFFICES ASSUME g_ata_only, setter # "set", Working PROVE Answered'
      OBVIOUS
    <3>2. thread.slot \notin Slots /\ thread.slot \in 1 .. MAX_CONNECTIONS + 1
      BY <1>a, <2>1, <3>1 DEF Working, Filtering, Threads
    <3>3. \A i \in Slots : i < thread.slot
      BY Z3T(20), SMTT(20), <3>2 DEF Slots
    <3> QED
      BY <1>b, <2>1, <2>3, <3>1, <3>3 DEF Working, Answered
  <2> QED
    BY <1>0, <1>b, <2>1, <2>2, <2>3, <2>4, <2>5, <2>6 DEF Filter
<1>4. CASE SetAtaOnly
  <2>1. setter = "idle" /\ g_ata_only' = TRUE /\ setter' = "set"
        /\ UNCHANGED <<event, filterEvent, thread, inserting>>
    BY <1>4 DEF SetAtaOnly
  <2> QED
    BY <1>0, <2>1 DEF Filter
<1>7. CASE SetAtaOnlyRaises
  <2>1. setter = "set" /\ setter' = "waiting" /\ event' = event \cup {"FILTER"}
        /\ UNCHANGED <<g_ata_only, filterEvent, thread, inserting>>
    BY <1>7 DEF SetAtaOnlyRaises
  <2>2. Raised'
    BY <1>0, <2>1 DEF Filter, Raised
  <2> QED
    BY <1>0, <2>1, <2>2 DEF Filter
<1>5. CASE SetAtaOnlyReturns
  <2>1. setter = "waiting" /\ setter' = "done" /\ filterEvent
        /\ UNCHANGED <<event, g_ata_only, inserting, g_mount, partVolume>>
    BY <1>5 DEF SetAtaOnlyReturns
  <2>2. Answered /\ g_ata_only
    BY <1>0, <2>1 DEF Filter, Raised, Working
  <2>3. inserting # NULL => IsAta(inserting)'
    BY <1>0, <2>1, <2>2, InsertingAta DEF Filter, Answered
  <2> QED
    BY <1>b, <2>1, <2>2, <2>3 DEF Filter, Answered
<1>6. CASE /\ ~BdmWait /\ ~BdmFilterSlot /\ ~BdmFilterDone
           /\ ~SetAtaOnly /\ ~SetAtaOnlyRaises /\ ~SetAtaOnlyReturns
  <2>1. /\ UNCHANGED <<setter, g_ata_only, filterEvent>>
        /\ "FILTER" \in event' <=> "FILTER" \in event
        /\ thread'.bits \subseteq thread.bits
        /\ thread.pc = "filter" => thread' = thread
        /\ \/ inserting' = inserting \/ inserting' = NULL
           \/ inserting' # NULL /\ (g_ata_only => IsAta(inserting)')
    BY <1>6, PlainStep
  <2>2. Raised => Raised'
    BY <2>1 DEF Raised
  <2>3. g_ata_only /\ setter # "set" /\ Working => Working'
    BY <1>b, <2>1 DEF Working
  <2>4. g_ata_only /\ setter # "set" /\ Answered => Answered'
    BY <1>b, <2>1 DEF Answered
  <2>5. g_ata_only' /\ inserting' # NULL =>
           IsAta(inserting)' \/ setter' = "set" \/ (setter' = "waiting" /\ "FILTER" \in event')
    BY <1>0, <2>1, InsertingAta DEF Filter
  <2> QED
    BY <1>0, <1>b, <2>1, <2>2, <2>3, <2>4, <2>5 DEF Filter
<1> QED
  BY <1>1, <1>2, <1>3, <1>4, <1>5, <1>6, <1>7

-----------------------------------------------------------------------------
(* Theorems *)

\* The initial state satisfies the inductive invariant.
LEMMA InitInv == Init => IInv
<1> SUFFICES ASSUME Init PROVE IInv
  OBVIOUS
<1>1. \A i \in Slots : g_mount[i].bd = NULL
  BY DEF Init, Empty
<1>2. thread.pc = "wait" /\ thread.bits = {}
  BY DEF Init, Idle
<1>3. Control
  BY <1>1, <1>2 DEF Init, Control, ThreadOK, Trying, InConnectBd
<1>4. PseudoHeld
  BY <1>1, HandleKinds DEF PseudoHeld
<1>5. Filter
  BY <1>2 DEF Init, Filter
<1> QED
  BY <1>3, <1>4, <1>5, InitType DEF IInv

\* The inductive invariant is inductive.
LEMMA InvStep == IInv /\ [Next]_vars => IInv'
BY TypeStep, ControlStep, PseudoStep, FilterStep DEF IInv

\* The state of the Block Device Manager keeps its types: the scan index of
\* bdm_thread stays within the mount table or one past it, bdm_try_mount never
\* asks a file system that is not there, and every handle is one of the known
\* devices (bdm_bdm.c, bdm_part_driver*.c, bdmfs_fs_driver.c).
THEOREM BdmTyped == Spec => []TypeOK
<1>1. IInv => TypeOK
  BY DEF IInv
<1> QED
  BY <1>1, InitInv, InvStep, PTL DEF Spec

\* Once bdm_set_ata_only has returned, the mount table holds ata devices only,
\* for any number of devices, slots and partitions and under every fault.
THEOREM FilterAirtight == Spec => []AtaOnly
<1>1. IInv => AtaOnly
  BY DEF IInv, Filter, AtaOnly, AtaSlot
<1> QED
  BY <1>1, InitInv, InvStep, PTL DEF Spec

-----------------------------------------------------------------------------
(* The tables *)

\* what may go wrong
Steady == Faults \cap {"table", "unplug"} = {}

\* a row of the mount table: free, a device with or without its cache, or a
\* pseudo device
RowOK(m) ==
    \/ m = Empty
    \/ \E d \in connected :
          m.bd = Raw(d) /\ (m.cbd = NULL \/ (m.cbd = Cache(d) /\ d \in caches))
    \/ \E p \in Partitions : m.bd = Pseudo(p) /\ m.cbd = NULL

\* the rows, the caches and the device that is being inserted
RowsOK ==
    /\ \A i \in Slots : RowOK(g_mount[i])
    /\ \A i, j \in Slots : g_mount[i].bd = g_mount[j].bd => i = j \/ g_mount[i].bd = NULL
    /\ \A d \in caches : \E i \in Slots : g_mount[i].cbd = Cache(d)
    /\ inserting # NULL =>
          \E d \in connected : inserting = Raw(d) /\ \A i \in Slots : g_mount[i].bd # Raw(d)

\* p lies on the device of slot i, which its partition driver holds or reads
HeldBy(p, i) ==
    /\ g_part[p] = Target(g_mount[i])
    /\ \/ g_mount[i].fs \in PartitionDrivers
       \/ thread.pc \in InConnectBd /\ thread.slot = i /\ thread.arg = g_part[p]

\* the pseudo devices in use
PartsOK ==
    \A p \in Partitions : g_part[p] # NULL =>
       /\ g_part[p] \in WholeHandles /\ partVolume[p][1] = g_part[p][2]
       /\ \E i \in Slots : HeldBy(p, i)

\* what bdm_thread holds inside bdm_try_mount
WorkOK ==
    /\ thread.pc \in {"probe"} \cup InConnectBd =>
          g_mount[thread.slot].bd # NULL /\ g_mount[thread.slot].fs = "none"
    /\ thread.pc \in InConnectBd => thread.arg = Target(g_mount[thread.slot])
    /\ thread.pc \in {"header", "table", "entries"} => g_fs[thread.fs] \in PartitionDrivers
    /\ thread.pc \in {"fatfs", "f_mount", "vcd"} => g_fs[thread.fs] = "fatfs"
    /\ thread.pc \in {"header", "fatfs", "f_mount", "vcd"} => ~thread.found
    /\ thread.pc \in InConnectBd /\ ~thread.found => \A p \in Partitions : g_part[p] # thread.arg

\* mass0 and _fs_lock
MountOK ==
    /\ lock = "bdm" <=> thread.pc \in {"f_mount", "vcd"}
    /\ lock = "bdm" => mass0.bd = thread.arg /\ mass0.state # "VCD_READY"
    /\ thread.pc = "vcd" => VolumeOf(thread.arg) \in Pops
    /\ lock # "bdm" /\ mass0.bd # NULL =>
          \E i \in Slots : g_mount[i].fs = "fatfs" /\ Target(g_mount[i]) = mass0.bd
    /\ mass0.bd # NULL /\ mass0.state = "VCD_READY" => VolumeOf(mass0.bd) \in Pops \cap Ready
    /\ lock = "client" <=> client # NULL
    /\ client # NULL => client = mass0.bd

Order == RowsOK /\ PartsOK /\ WorkOK /\ MountOK

\* Every file system that is connected is one of the three.
FsOK == \A k \in 1 .. Len(g_fs) : g_fs[k] \in PartitionDrivers \cup {"fatfs"}

-----------------------------------------------------------------------------
(* Rows *)

\* NULL, devices and caches are told apart, and whose they are.
LEMMA HandleNames ==
    /\ \A d, e : Raw(d) = Raw(e) => d = e
    /\ \A d, e : Cache(d) = Cache(e) => d = e
    /\ \A d, e : Raw(d) # Cache(e)
    /\ \A p, q : Pseudo(p) = Pseudo(q) => p = q
    /\ \A d : Raw(d)[1] = "raw" /\ Cache(d)[1] = "cache" /\ Pseudo(d)[1] = "pseudo"
  BY DEF Raw, Cache, Pseudo

\* What the file systems are given for a row.
LEMMA RowTarget ==
    ASSUME NEW m, RowOK(m)
    PROVE  /\ m.bd = NULL <=> Target(m) = NULL
           /\ m.bd = NULL => m = Empty
           /\ \A d : m.bd = Raw(d) => Target(m) = Raw(d) \/ Target(m) = Cache(d)
           /\ \A p : m.bd = Pseudo(p) <=> Target(m) = Pseudo(p)
           /\ \A d : Target(m) = Raw(d) \/ Target(m) = Cache(d) => m.bd = Raw(d)
<1>1. CASE m = Empty
  BY <1>1, HandleKinds DEF Empty, Target
<1>2. CASE \E d \in connected : m.bd = Raw(d) /\ (m.cbd = NULL \/ (m.cbd = Cache(d) /\ d \in caches))
  BY Z3T(20), SMTT(20), <1>2, HandleKinds, HandleNames DEF Target
<1>3. CASE \E p \in Partitions : m.bd = Pseudo(p) /\ m.cbd = NULL
  BY <1>3, HandleKinds, HandleNames DEF Target
<1> QED BY <1>1, <1>2, <1>3 DEF RowOK

\* Two slots never share a device, nor what the file systems are given for it.
LEMMA OneSlot ==
    ASSUME RowsOK, NEW i \in Slots, NEW j \in Slots,
           Target(g_mount[i]) = Target(g_mount[j]), Target(g_mount[i]) # NULL
    PROVE  i = j
<1>1. RowOK(g_mount[i]) /\ RowOK(g_mount[j])
  BY DEF RowsOK
<1>2. g_mount[i].bd # NULL
  BY <1>1, RowTarget
<1>3. g_mount[i].bd = g_mount[j].bd
  <2>1. CASE \E d \in connected : g_mount[i].bd = Raw(d)
    <3>1. PICK d \in connected : g_mount[i].bd = Raw(d)
      BY <2>1
    <3>2. Target(g_mount[j]) = Raw(d) \/ Target(g_mount[j]) = Cache(d)
      BY <1>1, <3>1, RowTarget
    <3> QED BY <1>1, <3>1, <3>2, RowTarget
  <2>2. CASE \E p \in Partitions : g_mount[i].bd = Pseudo(p)
    BY Z3T(20), SMTT(20), <1>1, <2>2, RowTarget
  <2> QED BY Z3T(20), SMTT(20), <1>1, <1>2, <2>1, <2>2 DEF RowOK, Empty
<1> QED BY <1>2, <1>3 DEF RowsOK

\* A whole device belongs to one slot, that of the device.
LEMMA WholeTarget ==
    ASSUME NEW m, RowOK(m), Target(m) \in WholeHandles
    PROVE  m.bd = Raw(Target(m)[2])
<1>1. PICK d \in Devices : Target(m) = Raw(d) \/ Target(m) = Cache(d)
  BY DEF WholeHandles
<1>2. Target(m)[2] = d
  BY <1>1, HandleKinds
<1> QED BY <1>1, <1>2, RowTarget

-----------------------------------------------------------------------------
(* Steps that leave the tables alone *)

\* The rows do not depend on bdm_thread, nor on file I/O.
LEMMA RowsSame ==
    ASSUME RowsOK, UNCHANGED <<g_mount, caches, connected, inserting>>
    PROVE  RowsOK'
<1>1. \A i \in Slots : RowOK(g_mount[i])'
  BY DEF RowsOK, RowOK
<1> QED BY <1>1 DEF RowsOK

\* Nothing that the invariant is about changes.
LEMMA OrderSame ==
    ASSUME Order, UNCHANGED <<g_mount, g_part, partVolume, caches, connected, inserting, thread, g_fs,
                              mass0, lock, client>>
    PROVE  Order'
<1>1. RowsOK'
  BY RowsSame DEF Order
<1>2. PartsOK'
  BY Z3T(20), SMTT(20) DEF Order, PartsOK, HeldBy, Target
<1>3. WorkOK'
  BY DEF Order, WorkOK, Target
<1>4. MountOK'
  BY DEF Order, MountOK, Target, VolumeOf
<1> QED BY <1>1, <1>2, <1>3, <1>4 DEF Order


-----------------------------------------------------------------------------
(* Insert *)

\* A device that enters the table takes an empty row, without a file system.
LEMMA InsertRow ==
    ASSUME IInv, Order, NEW h \in Handles, h # NULL, Insert(h)
    PROVE  \/ UNCHANGED <<g_mount, caches>>
           \/ \E i \in Slots :
                 /\ g_mount[i] = Empty /\ g_mount'[i].bd = h /\ g_mount'[i].fs = "none"
                 /\ \/ IsWhole(h) /\ g_mount'[i].cbd = Cache(h[2]) /\ caches' = caches \cup {h[2]}
                    \/ g_mount'[i].cbd = NULL /\ caches' = caches
                 /\ \A j \in Slots : j # i => g_mount'[j] = g_mount[j]
<1>1. CASE UNCHANGED <<g_mount, caches>>
  BY <1>1
<1>2. ASSUME NEW i \in FreeSlots, NEW c \in Handles,
             g_mount' = [g_mount EXCEPT ![i].bd = h, ![i].cbd = c]
      PROVE  /\ i \in Slots /\ g_mount[i] = Empty
             /\ g_mount'[i].bd = h /\ g_mount'[i].fs = "none" /\ g_mount'[i].cbd = c
             /\ \A j \in Slots : j # i => g_mount'[j] = g_mount[j]
  <2>1. g_mount \in [Slots -> Rows] /\ i \in Slots /\ g_mount[i].bd = NULL
    BY DEF IInv, TypeOK, FreeSlots
  <2>2. g_mount[i] = Empty
    BY <2>1, RowTarget DEF Order, RowsOK
  <2>3. g_mount' = [g_mount EXCEPT ![i] = [g_mount[i] EXCEPT !.bd = h, !.cbd = c]]
    BY <1>2, <2>1
  <2>4. /\ [g_mount[i] EXCEPT !.bd = h, !.cbd = c].bd = h
        /\ [g_mount[i] EXCEPT !.bd = h, !.cbd = c].cbd = c
        /\ [g_mount[i] EXCEPT !.bd = h, !.cbd = c].fs = "none"
    BY Z3T(20), SMTT(20), <2>1, <2>2 DEF Rows, Empty
  <2> QED BY <2>1, <2>2, <2>3, <2>4
<1>3. IsWhole(h) => Cache(h[2]) \in Handles
  BY WholeHandle, WholeDevice, HandleTypes
<1>4. CASE \E i \in FreeSlots : /\ IsWhole(h)
                                /\ g_mount' = [g_mount EXCEPT ![i].bd = h, ![i].cbd = Cache(h[2])]
                                /\ caches' = caches \cup {h[2]}
  <2>1. PICK i \in FreeSlots : /\ IsWhole(h)
                              /\ g_mount' = [g_mount EXCEPT ![i].bd = h, ![i].cbd = Cache(h[2])]
                              /\ caches' = caches \cup {h[2]}
    BY <1>4
  <2>2. /\ i \in Slots /\ g_mount[i] = Empty
        /\ g_mount'[i].bd = h /\ g_mount'[i].fs = "none" /\ g_mount'[i].cbd = Cache(h[2])
        /\ \A j \in Slots : j # i => g_mount'[j] = g_mount[j]
    BY <1>2, <1>3, <2>1
  <2> QED BY <2>1, <2>2
<1>5. CASE \E i \in FreeSlots : /\ g_mount' = [g_mount EXCEPT ![i].bd = h, ![i].cbd = NULL]
                                /\ caches' = caches
  <2>1. PICK i \in FreeSlots : /\ g_mount' = [g_mount EXCEPT ![i].bd = h, ![i].cbd = NULL]
                              /\ caches' = caches
    BY <1>5
  <2>2. /\ i \in Slots /\ g_mount[i] = Empty
        /\ g_mount'[i].bd = h /\ g_mount'[i].fs = "none" /\ g_mount'[i].cbd = NULL
        /\ \A j \in Slots : j # i => g_mount'[j] = g_mount[j]
    BY <1>2, <2>1, HandleTypes
  <2> QED BY <2>1, <2>2
<1> QED BY <1>1, <1>4, <1>5 DEF Insert

\* The rows stay in order when a new device enters the table.
LEMMA InsertRows ==
    ASSUME IInv, Order, NEW h \in Handles, Insert(h), inserting' = NULL, connected' = connected,
           (\E d \in connected : h = Raw(d)) \/ (\E p \in Partitions : h = Pseudo(p)),
           \A i \in Slots : g_mount[i].bd # h
    PROVE  /\ RowsOK'
           /\ \A i \in Slots : g_mount[i].bd # NULL => g_mount'[i] = g_mount[i]
<1>0. h # NULL /\ RowsOK
  BY HandleKinds DEF Order
<1>1. CASE UNCHANGED <<g_mount, caches>>
  <2>1. \A i \in Slots : RowOK(g_mount[i])'
    BY <1>0, <1>1 DEF RowsOK, RowOK
  <2> QED BY <1>0, <1>1, <2>1 DEF RowsOK
<1>2. ASSUME NEW i \in Slots, g_mount[i] = Empty, g_mount'[i].bd = h, g_mount'[i].fs = "none",
             \/ IsWhole(h) /\ g_mount'[i].cbd = Cache(h[2]) /\ caches' = caches \cup {h[2]}
             \/ g_mount'[i].cbd = NULL /\ caches' = caches,
             \A j \in Slots : j # i => g_mount'[j] = g_mount[j]
      PROVE  /\ RowsOK'
             /\ \A j \in Slots : g_mount[j].bd # NULL => g_mount'[j] = g_mount[j]
  <2>1. caches \subseteq caches' /\ (g_mount[i].bd = NULL /\ g_mount[i].cbd = NULL)
    BY Z3T(20), SMTT(20), <1>2 DEF Empty
  <2>2. RowOK(g_mount[i])'
    BY Z3T(20), SMTT(20), <1>2, HandleKinds DEF RowOK
  <2>3. ASSUME NEW j \in Slots, j # i PROVE RowOK(g_mount[j])'
    <3>1. RowOK(g_mount[j]) /\ g_mount'[j] = g_mount[j]
      BY <1>0, <1>2, <2>3 DEF RowsOK
    <3> QED BY <2>1, <3>1 DEF RowOK
  <2>4. ASSUME NEW j \in Slots, NEW k \in Slots, g_mount'[j].bd = g_mount'[k].bd,
               g_mount'[j].bd # NULL
        PROVE  j = k
    <3>1. CASE j = i
      BY <1>2, <2>4, <3>1
    <3>2. CASE k = i
      BY <1>2, <2>4, <3>2
    <3>3. CASE j # i /\ k # i
      BY Z3T(20), SMTT(20), <1>0, <1>2, <2>4, <3>3 DEF RowsOK
    <3> QED BY <3>1, <3>2, <3>3
  <2>5. ASSUME NEW e \in caches' PROVE \E j \in Slots : g_mount'[j].cbd = Cache(e)
    <3>1. CASE e \in caches
      <4>1. PICK j \in Slots : g_mount[j].cbd = Cache(e)
        BY <1>0, <3>1 DEF RowsOK
      <4>2. j # i
        BY <2>1, <4>1, HandleKinds
      <4> QED BY <1>2, <4>1, <4>2
    <3>2. CASE e \notin caches
      BY Z3T(20), SMTT(20), <1>2, <2>5, <3>2
    <3> QED BY <3>1, <3>2
  <2>6. \A j \in Slots : RowOK(g_mount[j])'
    BY <2>2, <2>3
  <2> QED BY <1>2, <2>1, <2>4, <2>5, <2>6 DEF RowsOK
<1> QED BY Z3T(20), SMTT(20), <1>0, <1>1, <1>2, InsertRow


-----------------------------------------------------------------------------
(* Disconnect *)

\* Exactly the caches of the cleared rows are destroyed.
LEMMA DisconnectRows ==
    ASSUME IInv, Order, NEW h, Disconnect(h), inserting' = NULL,
           connected' = connected \/ \E d : h = Raw(d) /\ connected' = connected \ {d}
    PROVE  RowsOK'
<1>0. RowsOK
  BY DEF Order
<1>1. \A i \in Slots : i \in Cleared(h) => g_mount'[i] = Empty
  BY DEF Disconnect
<1>2. \A i \in Slots : i \notin Cleared(h) => g_mount'[i] = g_mount[i]
  BY DEF Disconnect
<1>3. caches' = {d \in caches : \A i \in Cleared(h) : g_mount[i].cbd # Cache(d)}
  BY DEF Disconnect
<1>4. ASSUME NEW i \in Slots PROVE RowOK(g_mount[i])'
  <2>1. CASE i \in Cleared(h)
    BY <1>1, <2>1 DEF RowOK
  <2>2. CASE i \notin Cleared(h)
    <3>1. RowOK(g_mount[i]) /\ g_mount'[i] = g_mount[i]
      BY <1>0, <1>2, <2>2 DEF RowsOK
    <3>2. ASSUME NEW d \in connected, g_mount[i].bd = Raw(d) PROVE d \in connected'
      <4>1. h # Raw(d)
        BY <2>2, <3>2 DEF Cleared, SlotsOf
      <4> QED BY <3>2, <4>1, HandleNames
    <3>3. ASSUME NEW d \in caches, g_mount[i].bd = Raw(d), g_mount[i].cbd = Cache(d) PROVE d \in caches'
      <4>1. SUFFICES ASSUME NEW k \in Cleared(h), g_mount[k].cbd = Cache(d) PROVE FALSE
        BY <1>3
      <4>2. k \in Slots /\ RowOK(g_mount[k])
        BY <1>0 DEF Cleared, SlotsOf, RowsOK
      <4>3. g_mount[k].bd = Raw(d)
        BY Z3T(20), SMTT(20), <4>1, <4>2, HandleNames, HandleKinds DEF RowOK, Empty
      <4>4. k = i
        BY Z3T(20), SMTT(20), <1>0, <3>3, <4>2, <4>3, HandleKinds DEF RowsOK
      <4> QED BY <2>2, <4>4
    <3> QED BY <3>1, <3>2, <3>3 DEF RowOK
  <2> QED BY <2>1, <2>2
<1>5. ASSUME NEW i \in Slots, NEW j \in Slots, g_mount'[i].bd = g_mount'[j].bd,
             g_mount'[i].bd # NULL
      PROVE  i = j
  <2>1. i \notin Cleared(h) /\ j \notin Cleared(h)
    BY Z3T(20), SMTT(20), <1>1, <1>5 DEF Empty
  <2> QED BY <1>0, <1>2, <1>5, <2>1 DEF RowsOK
<1>6. ASSUME NEW d \in caches' PROVE \E i \in Slots : g_mount'[i].cbd = Cache(d)
  <2>1. PICK i \in Slots : g_mount[i].cbd = Cache(d)
    BY <1>0, <1>3, <1>6 DEF RowsOK
  <2>2. i \notin Cleared(h)
    BY <1>3, <1>6, <2>1
  <2> QED BY <1>2, <2>1, <2>2
<1> QED BY <1>4, <1>5, <1>6 DEF RowsOK

\* What bdm_disconnect_bd leaves behind when bdm_thread is not reading what
\* it clears.
LEMMA DisconnectOrder ==
    ASSUME IInv, Order, NEW h, Disconnect(h), inserting' = NULL,
           connected' = connected \/ \E d : h = Raw(d) /\ connected' = connected \ {d},
           UNCHANGED <<partVolume, lock, client, g_fs>>,
           \/ thread.pc = "filter" /\ thread'.pc = "filter"
           \/ thread' = thread /\ (thread.pc \in {"probe"} \cup InConnectBd => thread.slot \notin Cleared(h))
    PROVE  Order'
<1>0. RowsOK /\ PartsOK /\ WorkOK /\ MountOK
  BY DEF Order
<1>1. \A i \in Slots : i \in Cleared(h) => g_mount'[i] = Empty
  BY DEF Disconnect
<1>2. \A i \in Slots : i \notin Cleared(h) => g_mount'[i] = g_mount[i]
  BY DEF Disconnect
<1>3. \A p \in Partitions : g_part'[p] = IF p \in PartitionsOn(h) THEN NULL ELSE g_part[p]
  BY DEF Disconnect
<1>4. thread.pc \in InConnectBd => thread' = thread /\ thread.slot \in Slots \ Cleared(h) /\ thread.arg # NULL
  BY DEF InConnectBd, IInv, Control, ThreadOK, Trying
<1>5. PartsOK'
  <2>1. SUFFICES ASSUME NEW p \in Partitions, g_part'[p] # NULL
                 PROVE  /\ g_part'[p] \in WholeHandles /\ partVolume'[p][1] = g_part'[p][2]
                        /\ \E i \in Slots : HeldBy(p, i)'
    BY DEF PartsOK
  <2>2. p \notin PartitionsOn(h) /\ g_part'[p] = g_part[p]
    BY <1>3, <2>1
  <2>3. g_part[p] \in WholeHandles /\ partVolume[p][1] = g_part[p][2]
    BY <1>0, <2>1, <2>2 DEF PartsOK
  <2>4. PICK i \in Slots : HeldBy(p, i)
    BY <1>0, <2>1, <2>2 DEF PartsOK
  <2>5. g_mount[i].bd = Raw(g_part[p][2])
    BY Z3T(20), SMTT(20), <1>0, <2>3, <2>4, WholeTarget DEF HeldBy, RowsOK
  <2>6. i \notin SlotsOf(h)
    <3>1. SUFFICES ASSUME i \in SlotsOf(h) PROVE FALSE
      OBVIOUS
    <3>2. g_mount[i].fs \notin PartitionDrivers
      BY Z3T(20), SMTT(20), <2>2, <2>4, <3>1 DEF HeldBy, PartitionsOn, Children
    <3> QED BY <1>4, <2>4, <3>1, <3>2 DEF HeldBy, Cleared
  <2>7. i \notin Cleared(h)
    BY Z3T(20), SMTT(20), <2>5, <2>6, HandleKinds DEF Cleared
  <2>8. HeldBy(p, i)'
    BY <1>2, <1>4, <2>2, <2>4, <2>7 DEF HeldBy, Target
  <2> QED BY <2>2, <2>3, <2>8
<1>6. WorkOK'
  <2>1. CASE thread.pc = "filter" /\ thread'.pc = "filter"
    BY <2>1 DEF WorkOK, InConnectBd
  <2>2. CASE thread' = thread /\ (thread.pc \in {"probe"} \cup InConnectBd => thread.slot \notin Cleared(h))
    <3>1. thread.pc \in {"probe"} \cup InConnectBd => g_mount'[thread.slot] = g_mount[thread.slot]
      BY <1>2, <2>2 DEF IInv, Control, ThreadOK, Trying
    <3>2. thread.pc \in InConnectBd /\ ~thread.found => \A p \in Partitions : g_part'[p] # thread.arg
      BY <1>0, <1>3, <1>4 DEF WorkOK
    <3> QED BY <1>0, <2>2, <3>1, <3>2 DEF WorkOK, Target
  <2> QED BY <2>1, <2>2
<1>7. MountOK'
  <2> DEFINE mine == {i \in Cleared(h) : g_mount[i].fs = "fatfs"}
  <2>1. /\ mine # {} => lock = "free"
        /\ mass0' = IF \E i \in mine : mass0.bd = Target(g_mount[i]) THEN Unmounted ELSE mass0
    BY DEF Disconnect, FatfsDisconnect
  <2>2. lock # "free" => mass0' = mass0
    BY <2>1
  <2>3. mass0' = mass0 \/ mass0' = Unmounted
    BY <2>1
  <2>4. mass0'.bd # NULL => mass0' = mass0 /\ mass0.bd # NULL
    BY Z3T(20), SMTT(20), <2>3 DEF Unmounted
  <2>5. lock = "bdm" => thread' = thread
    BY <1>0, <1>4 DEF MountOK, InConnectBd
  <2>6. lock # "bdm" /\ mass0'.bd # NULL =>
           \E i \in Slots : g_mount'[i].fs = "fatfs" /\ Target(g_mount'[i]) = mass0'.bd
    <3>1. SUFFICES ASSUME lock # "bdm", mass0'.bd # NULL
                   PROVE  \E i \in Slots : g_mount'[i].fs = "fatfs" /\ Target(g_mount'[i]) = mass0'.bd
      OBVIOUS
    <3>2. PICK i \in Slots : g_mount[i].fs = "fatfs" /\ Target(g_mount[i]) = mass0.bd
      BY <1>0, <2>4, <3>1 DEF MountOK
    <3>3. i \notin Cleared(h)
      BY <2>1, <2>4, <3>1, <3>2 DEF Unmounted
    <3> QED BY <1>2, <2>4, <3>1, <3>2, <3>3 DEF Target
  <2>8. lock = "bdm" <=> thread'.pc \in {"f_mount", "vcd"}
    <3>1. CASE thread' = thread
      BY <1>0, <3>1 DEF MountOK
    <3>2. CASE thread.pc = "filter" /\ thread'.pc = "filter"
      BY <1>0, <3>2 DEF MountOK
    <3> QED BY <3>1, <3>2
  <2>9. lock = "client" <=> client # NULL
    BY <1>0 DEF MountOK
  <2>10. client # NULL => client = mass0'.bd
    BY <1>0, <2>2, <2>9 DEF MountOK
  <2>11. lock = "bdm" => mass0'.bd = thread'.arg /\ mass0'.state # "VCD_READY"
    BY <1>0, <2>2, <2>5 DEF MountOK
  <2>12. thread'.pc = "vcd" => VolumeOf(thread.arg) \in Pops /\ thread'.arg = thread.arg
    BY <1>0, <2>5, <2>8 DEF MountOK
  <2>13. mass0'.bd # NULL /\ mass0'.state = "VCD_READY" => VolumeOf(mass0'.bd) \in Pops \cap Ready
    BY <1>0, <2>4 DEF MountOK
  <2>14. /\ VolumeOf(thread.arg)' = IF thread'.arg[1] = "pseudo" THEN partVolume[thread'.arg[2]] ELSE <<thread'.arg[2], 0>>
         /\ VolumeOf(mass0.bd)' = VolumeOf(mass0'.bd)
    BY DEF VolumeOf
  <2> QED BY <2>6, <2>8, <2>9, <2>10, <2>11, <2>12, <2>13, <2>14 DEF MountOK, VolumeOf, Target
<1> QED BY <1>0, <1>5, <1>6, <1>7, DisconnectRows DEF Order


-----------------------------------------------------------------------------
(* bdm_thread *)

\* While the partition driver stays inside connect_bd, or has found nothing,
\* the pseudo devices stay held.
LEMMA PartsSame ==
    ASSUME Order, UNCHANGED <<g_mount, g_part, partVolume>>,
           thread.pc \in InConnectBd /\ thread.found =>
              thread'.pc \in InConnectBd /\ thread'.slot = thread.slot /\ thread'.arg = thread.arg
    PROVE  PartsOK'
<1>1. SUFFICES ASSUME NEW p \in Partitions, g_part[p] # NULL
               PROVE  /\ g_part[p] \in WholeHandles /\ partVolume[p][1] = g_part[p][2]
                      /\ \E i \in Slots : HeldBy(p, i)'
  BY DEF PartsOK
<1>2. /\ g_part[p] \in WholeHandles /\ partVolume[p][1] = g_part[p][2]
      /\ \E i \in Slots : HeldBy(p, i)
  BY <1>1 DEF Order, PartsOK
<1>3. PICK i \in Slots : HeldBy(p, i)
  BY <1>2
<1>4. thread.pc \in InConnectBd /\ thread.arg = g_part[p] => thread.found
  BY DEF Order, WorkOK
<1>5. HeldBy(p, i)'
  BY <1>3, <1>4 DEF HeldBy, Target
<1> QED BY <1>2, <1>5

\* mass0 does not change while bdm_thread is not in f_mount.
LEMMA MountSame ==
    ASSUME Order, UNCHANGED <<mass0, lock, client, partVolume>>,
           thread.pc \notin {"f_mount", "vcd"}, thread'.pc \notin {"f_mount", "vcd"},
           \A i \in Slots : g_mount[i].fs = "fatfs" => g_mount'[i] = g_mount[i]
    PROVE  MountOK'
<1>1. MountOK
  BY DEF Order
<1>2. lock # "bdm"
  BY <1>1 DEF MountOK
<1>3. mass0.bd # NULL => \E i \in Slots : g_mount'[i].fs = "fatfs" /\ Target(g_mount'[i]) = mass0.bd
  BY <1>1, <1>2 DEF MountOK, Target
<1>4. mass0.bd # NULL /\ mass0.state = "VCD_READY" => VolumeOf(mass0.bd)' \in Pops \cap Ready
  BY <1>1 DEF MountOK, VolumeOf
<1> QED BY <1>1, <1>2, <1>3, <1>4 DEF MountOK, Target

\* A connect_bd that fails leaves nothing behind.
LEMMA RejectOrder ==
    ASSUME IInv, Order, Reject, thread.pc \in {"probe", "header", "table", "fatfs", "f_mount"},
           thread.pc \in InConnectBd => ~thread.found,
           UNCHANGED <<g_part, partVolume, caches, connected, inserting, client, g_fs>>,
           \/ thread.pc # "f_mount" /\ UNCHANGED fatfs
           \/ thread.pc = "f_mount" /\ mass0' = Unmounted /\ lock' = "free"
    PROVE  Order'
<1>0. thread.pc \in Trying
  BY DEF Trying, InConnectBd
<1>1. /\ g_mount' = g_mount /\ thread'.pc \in {"probe", "mount"}
      /\ thread'.pc = "probe" => thread'.slot = thread.slot
  BY <1>0, RejectStep
<1>2. RowsOK'
  BY <1>1, RowsSame DEF Order
<1>3. PartsOK'
  BY <1>1, PartsSame
<1>4. WorkOK'
  BY <1>1 DEF Order, WorkOK, InConnectBd
<1>5. MountOK'
  <2>1. CASE thread.pc # "f_mount" /\ UNCHANGED fatfs
    BY <1>1, <2>1, MountSame
  <2>2. CASE thread.pc = "f_mount" /\ mass0' = Unmounted /\ lock' = "free"
    <3>1. client = NULL /\ lock = "bdm"
      BY <2>2 DEF Order, MountOK
    <3> QED BY <1>1, <2>2, <3>1 DEF MountOK, Unmounted
  <2> QED BY <2>1, <2>2
<1> QED BY <1>2, <1>3, <1>4, <1>5 DEF Order

\* A connect_bd that succeeds gives the row its file system.
LEMMA AcceptRow ==
    ASSUME IInv, thread.pc \in InConnectBd, Accept
    PROVE  /\ g_mount'[thread.slot].bd = g_mount[thread.slot].bd
           /\ g_mount'[thread.slot].cbd = g_mount[thread.slot].cbd
           /\ g_mount'[thread.slot].fs = g_fs[thread.fs]
           /\ \A i \in Slots : i # thread.slot => g_mount'[i] = g_mount[i]
           /\ thread.slot \in Slots /\ thread'.pc = "notify"
<1>1. thread \in Threads /\ thread.slot \in Slots /\ g_mount \in [Slots -> Rows]
  BY DEF IInv, TypeOK, Control, ThreadOK, Trying
<1>2. g_mount' = [g_mount EXCEPT ![thread.slot] = [g_mount[thread.slot] EXCEPT !.fs = g_fs[thread.fs]]]
  BY DEF Accept
<1>3. /\ [g_mount[thread.slot] EXCEPT !.fs = g_fs[thread.fs]].bd = g_mount[thread.slot].bd
      /\ [g_mount[thread.slot] EXCEPT !.fs = g_fs[thread.fs]].cbd = g_mount[thread.slot].cbd
      /\ [g_mount[thread.slot] EXCEPT !.fs = g_fs[thread.fs]].fs = g_fs[thread.fs]
  BY Z3T(20), SMTT(20), <1>1 DEF Rows
<1>4. thread'.pc = "notify"
  BY AcceptStep DEF Trying
<1> QED BY <1>1, <1>2, <1>3, <1>4

\* Rows and pseudo devices after a connect_bd that succeeds.
LEMMA AcceptTables ==
    ASSUME IInv, Order, thread.pc \in InConnectBd, Accept,
           UNCHANGED <<g_part, partVolume, caches, connected, inserting>>,
           g_fs[thread.fs] \in PartitionDrivers \/ ~thread.found
    PROVE  /\ RowsOK' /\ PartsOK' /\ WorkOK'
           /\ \A i \in Slots : Target(g_mount'[i]) = Target(g_mount[i])
           /\ \A i \in Slots : g_mount[i].fs = "fatfs" => g_mount'[i] = g_mount[i]
           /\ g_mount'[thread.slot].fs = g_fs[thread.fs]
<1>0. RowsOK /\ PartsOK /\ WorkOK
  BY DEF Order
<1> DEFINE s == thread.slot
<1>1. /\ g_mount'[s].bd = g_mount[s].bd /\ g_mount'[s].cbd = g_mount[s].cbd
      /\ g_mount'[s].fs = g_fs[thread.fs]
      /\ \A i \in Slots : i # s => g_mount'[i] = g_mount[i]
      /\ s \in Slots /\ thread'.pc = "notify"
  BY AcceptRow
<1>2. g_mount[s].fs = "none" /\ g_mount[s].bd # NULL
  BY <1>0 DEF WorkOK
<1>3. \A i \in Slots : Target(g_mount'[i]) = Target(g_mount[i])
  BY <1>1 DEF Target
<1>4. \A i \in Slots : g_mount[i].fs # "none" => g_mount'[i] = g_mount[i]
  BY <1>1, <1>2
<1>5. ASSUME NEW i \in Slots PROVE RowOK(g_mount[i])'
  <2>1. CASE i # s
    BY Z3T(20), SMTT(20), <1>0, <1>1, <2>1 DEF RowsOK, RowOK
  <2>2. CASE i = s
    <3>1. RowOK(g_mount[s]) /\ g_mount[s] # Empty
      BY Z3T(20), SMTT(20), <1>0, <1>1, <1>2 DEF RowsOK, Empty
    <3> QED BY <1>1, <2>2, <3>1 DEF RowOK
  <2> QED BY <2>1, <2>2
<1>6. RowsOK'
  <2>1. \A i \in Slots : g_mount'[i].bd = g_mount[i].bd /\ g_mount'[i].cbd = g_mount[i].cbd
    BY <1>1
  <2>2. ASSUME NEW i \in Slots, NEW j \in Slots, g_mount'[i].bd = g_mount'[j].bd
        PROVE  i = j \/ g_mount'[i].bd = NULL
    BY Z3T(20), SMTT(20), <1>0, <2>1, <2>2 DEF RowsOK
  <2>3. ASSUME NEW d \in caches PROVE \E i \in Slots : g_mount'[i].cbd = Cache(d)
    BY <1>0, <2>1 DEF RowsOK
  <2>4. inserting # NULL =>
           \E d \in connected : inserting = Raw(d) /\ \A i \in Slots : g_mount'[i].bd # Raw(d)
    BY <1>0, <2>1 DEF RowsOK
  <2>5. \A i \in Slots : RowOK(g_mount[i])'
    BY <1>5
  <2> QED BY <2>2, <2>3, <2>4, <2>5 DEF RowsOK
<1>7. PartsOK'
  <2>1. SUFFICES ASSUME NEW p \in Partitions, g_part[p] # NULL
                 PROVE  /\ g_part[p] \in WholeHandles /\ partVolume[p][1] = g_part[p][2]
                        /\ \E i \in Slots : HeldBy(p, i)'
    BY DEF PartsOK
  <2>2. /\ g_part[p] \in WholeHandles /\ partVolume[p][1] = g_part[p][2]
        /\ \E i \in Slots : HeldBy(p, i)
    BY <1>0, <2>1 DEF PartsOK
  <2>3. PICK i \in Slots : HeldBy(p, i)
    BY <2>2
  <2>4. CASE g_mount[i].fs \in PartitionDrivers
    <3>1. g_mount[i].fs # "none"
      BY <2>4 DEF PartitionDrivers
    <3>2. HeldBy(p, i)'
      BY <1>4, <2>3, <2>4, <3>1 DEF HeldBy, Target
    <3> QED BY <2>2, <3>2
  <2>5. CASE g_mount[i].fs \notin PartitionDrivers
    <3>1. i = s /\ thread.arg = g_part[p] /\ g_part[p] = Target(g_mount[i])
      BY <2>3, <2>5 DEF HeldBy
    <3>2. thread.found
      BY <1>0, <3>1 DEF WorkOK
    <3>3. HeldBy(p, i)'
      BY <1>1, <1>3, <3>1, <3>2 DEF HeldBy, Target
    <3> QED BY <2>2, <3>3
  <2> QED BY <2>4, <2>5
<1>8. WorkOK'
  BY <1>1 DEF WorkOK, InConnectBd
<1> QED BY <1>1, <1>3, <1>4, <1>6, <1>7, <1>8


\* The loops of bdm_thread, outside connect_bd.
LEMMA LoopsOrder ==
    ASSUME IInv, Order,
           \/ BdmWait \/ BdmFilterDone \/ BdmMountSlot \/ BdmMountDone \/ BdmCallback \/ BdmNotify
    PROVE  Order'
<1>0. /\ UNCHANGED <<g_mount, g_part, partVolume, caches, connected, inserting, client, g_fs, mass0, lock>>
      /\ thread.pc \in {"wait", "filter", "mount", "callback", "notify"}
  BY DEF BdmWait, BdmFilterDone, BdmMountSlot, BdmMountDone, BdmCallback, BdmNotify, At
<1>1. thread \in Threads
  BY DEF IInv, TypeOK
<1>2. /\ thread'.pc \in {"filter", "mount", "callback", "wait", "probe"}
      /\ thread'.pc = "probe" => g_mount[thread'.slot].bd # NULL /\ g_mount[thread'.slot].fs = "none"
  <2>1. CASE BdmMountSlot
    <3>1. CASE g_mount[thread.slot].bd # NULL /\ g_mount[thread.slot].fs = "none"
      <4>1. thread' = [thread EXCEPT !.pc = "probe", !.fs = 1]
        BY <2>1, <3>1 DEF BdmMountSlot
      <4> QED BY <1>1, <3>1, <4>1 DEF Threads
    <3>2. CASE ~(g_mount[thread.slot].bd # NULL /\ g_mount[thread.slot].fs = "none")
      <4>1. thread' = [thread EXCEPT !.slot = @ + 1] /\ thread.pc = "mount"
        BY <2>1, <3>2 DEF BdmMountSlot, At
      <4> QED BY <1>1, <4>1 DEF Threads
    <3> QED BY <3>1, <3>2
  <2>2. CASE BdmWait
    <3>1. thread' = [thread EXCEPT !.pc = "filter", !.bits = event, !.slot = 1]
      BY <2>2 DEF BdmWait
    <3> QED BY <1>1, <3>1 DEF Threads
  <2>3. CASE BdmFilterDone
    <3>1. thread' = [thread EXCEPT !.pc = "mount", !.slot = 1]
      BY <2>3 DEF BdmFilterDone
    <3> QED BY <1>1, <3>1 DEF Threads
  <2>4. CASE BdmMountDone
    <3>1. thread' = [thread EXCEPT !.pc = "callback"]
      BY <2>4 DEF BdmMountDone, Goto
    <3> QED BY <1>1, <3>1 DEF Threads
  <2>5. CASE BdmCallback
    BY <2>5 DEF BdmCallback, Idle
  <2>6. CASE BdmNotify
    <3>1. thread' = [thread EXCEPT !.pc = "mount", !.slot = @ + 1]
      BY <2>6 DEF BdmNotify
    <3> QED BY <1>1, <3>1 DEF Threads
  <2> QED BY <2>1, <2>2, <2>3, <2>4, <2>5, <2>6
<1>3. RowsOK'
  BY <1>0, RowsSame DEF Order
<1>4. PartsOK'
  BY <1>0, PartsSame DEF InConnectBd
<1>5. WorkOK'
  BY <1>0, <1>2 DEF WorkOK, InConnectBd
<1>6. MountOK'
  BY <1>0, <1>2, MountSame
<1> QED BY <1>3, <1>4, <1>5, <1>6 DEF Order

\* No pseudo device lies on a device that is only about to be probed.
LEMMA ProbedIsBare ==
    ASSUME IInv, Order, thread.pc = "probe"
    PROVE  /\ Target(g_mount[thread.slot]) # NULL
           /\ \A p \in Partitions : g_part[p] # Target(g_mount[thread.slot])
<1>0. thread.slot \in Slots /\ g_mount[thread.slot].bd # NULL /\ g_mount[thread.slot].fs = "none"
  BY DEF IInv, Control, ThreadOK, Trying, Order, WorkOK
<1>1. Target(g_mount[thread.slot]) # NULL
  BY <1>0, RowTarget DEF Order, RowsOK
<1>2. ASSUME NEW p \in Partitions, g_part[p] = Target(g_mount[thread.slot]) PROVE FALSE
  <2>1. PICK i \in Slots : HeldBy(p, i)
    BY <1>1, <1>2 DEF Order, PartsOK
  <2>2. i = thread.slot
    BY <1>0, <1>1, <1>2, <2>1, OneSlot DEF HeldBy, Order
  <2> QED BY <1>0, <2>1, <2>2 DEF HeldBy, InConnectBd, PartitionDrivers
<1> QED BY <1>1, <1>2

\* bdm_try_mount asks a file system.
LEMMA ProbeOrder ==
    ASSUME IInv, Order, FsOK, BdmProbe
    PROVE  Order'
<1>0. /\ thread.pc = "probe" /\ thread.slot \in Slots /\ thread \in Threads
      /\ UNCHANGED <<g_part, partVolume, caches, connected, inserting, client, g_fs, mass0, lock>>
  BY DEF BdmProbe, At, IInv, Control, ThreadOK, Trying, TypeOK
<1>d. g_fs[thread.fs] \in PartitionDrivers \cup {"fatfs"}
  <2>1. Started
    BY <1>0 DEF IInv, Control, ThreadOK, Trying
  <2>2. Len(g_fs) = 3 /\ thread.fs \in 1 .. 3
    BY <1>0, <2>1, FileSystemNames DEF IInv, Threads
  <2> QED BY <2>2 DEF FsOK
<1> DEFINE h == Target(g_mount[thread.slot])
           pc == IF g_fs[thread.fs] = "fatfs" THEN "fatfs" ELSE "header"
<1>1. h # NULL /\ \A p \in Partitions : g_part[p] # h
  BY <1>0, ProbedIsBare
<1>2. CASE Reject
  BY <1>0, <1>2, RejectOrder DEF InConnectBd
<1>3. CASE /\ thread' = [thread EXCEPT !.pc = pc, !.arg = h, !.sector = 1, !.entry = 1, !.found = FALSE]
           /\ g_mount' = g_mount
  <2>1. /\ thread'.pc = pc /\ thread'.arg = h /\ ~thread'.found
        /\ thread'.slot = thread.slot /\ thread'.fs = thread.fs
    BY <1>0, <1>3 DEF Threads
  <2>2. RowsOK'
    BY <1>0, <1>3, RowsSame DEF Order
  <2>3. PartsOK'
    BY <1>0, <1>3, PartsSame DEF InConnectBd
  <2>4. pc \in {"fatfs", "header"} /\ (pc = "fatfs" <=> g_fs[thread.fs] = "fatfs")
    OBVIOUS
  <2>5. WorkOK'
    <3>1. g_mount[thread.slot].bd # NULL /\ g_mount[thread.slot].fs = "none"
      BY <1>0 DEF Order, WorkOK
    <3>2. thread'.arg = Target(g_mount'[thread'.slot])
      BY <1>3, <2>1
    <3> HIDE DEF h, pc
    <3> QED BY <1>0, <1>d, <1>1, <1>3, <2>1, <2>4, <3>1, <3>2 DEF WorkOK, Target
  <2>6. MountOK'
    <3> HIDE DEF h, pc
    <3> QED BY <1>0, <1>3, <2>1, <2>4, MountSame
  <2> QED BY <2>2, <2>3, <2>5, <2>6 DEF Order
<1> QED BY <1>1, <1>2, <1>3 DEF BdmProbe

\* Steps inside connect_bd that only move on.
LEMMA MovesOnOrder ==
    ASSUME IInv, Order, thread.pc \in InConnectBd,
           UNCHANGED <<g_mount, g_part, partVolume, caches, connected, inserting, client, g_fs>>,
           thread'.slot = thread.slot, thread'.arg = thread.arg, thread'.fs = thread.fs,
           thread'.found = thread.found,
           \/ thread.pc \in {"header", "table", "entries"} /\ thread'.pc \in {"table", "entries"}
           \/ thread.pc = "fatfs" /\ thread'.pc = "f_mount"
           \/ thread.pc = "f_mount" /\ thread'.pc = "vcd"
    PROVE  RowsOK' /\ PartsOK' /\ WorkOK'
<1>1. RowsOK'
  BY RowsSame DEF Order
<1>2. thread'.pc \in InConnectBd
  BY DEF InConnectBd
<1>3. PartsOK'
  BY <1>2, PartsSame
<1>4. WorkOK'
  BY <1>2 DEF Order, WorkOK, Target
<1> QED BY <1>1, <1>3, <1>4


-----------------------------------------------------------------------------
(* The partition drivers *)

\* Goto only moves the program counter.
LEMMA GotoMoves ==
    ASSUME IInv, NEW pc, Goto(pc)
    PROVE  /\ thread'.pc = pc /\ thread'.slot = thread.slot /\ thread'.arg = thread.arg
           /\ thread'.fs = thread.fs /\ thread'.found = thread.found
  BY DEF Goto, IInv, TypeOK, Threads

\* The header and the sectors of a table are read.
LEMMA PartReadsOrder ==
    ASSUME IInv, Order, Steady, PartHeader \/ PartTable \/ PartNextSector
    PROVE  Order'
<1>0. /\ thread.pc \in {"header", "table", "entries"} /\ thread.pc \in InConnectBd
      /\ UNCHANGED <<g_part, partVolume, caches, connected, inserting, client, g_fs, mass0, lock>>
  BY DEF PartHeader, PartTable, PartNextSector, At, InConnectBd
<1>1. CASE /\ g_mount' = g_mount /\ thread'.pc \in {"table", "entries"}
           /\ thread'.slot = thread.slot /\ thread'.arg = thread.arg
           /\ thread'.fs = thread.fs /\ thread'.found = thread.found
  <2>1. RowsOK' /\ PartsOK' /\ WorkOK'
    BY <1>0, <1>1, MovesOnOrder
  <2>2. MountOK'
    BY <1>0, <1>1, MountSame
  <2> QED BY <2>1, <2>2 DEF Order
<1>2. CASE PartHeader
  <2>1. thread.pc = "header" /\ ~thread.found
    BY <1>2 DEF PartHeader, At, Order, WorkOK
  <2>2. CASE Reject
    BY <1>0, <2>1, <2>2, RejectOrder
  <2>3. CASE Goto("table") /\ g_mount' = g_mount
    BY <1>1, <2>3, GotoMoves
  <2> QED BY <1>2, <2>2, <2>3 DEF PartHeader
<1>3. CASE PartTable
  <2>1. Goto("entries") /\ g_mount' = g_mount
    BY <1>3 DEF PartTable, Steady
  <2> QED BY <1>1, <2>1, GotoMoves
<1>4. CASE PartNextSector
  <2>1. thread' = [thread EXCEPT !.pc = "table", !.sector = @ + 1, !.entry = 1] /\ g_mount' = g_mount
    BY <1>4 DEF PartNextSector
  <2>2. thread \in Threads
    BY DEF IInv, TypeOK
  <2>3. /\ thread'.pc = "table" /\ thread'.slot = thread.slot /\ thread'.arg = thread.arg
        /\ thread'.fs = thread.fs /\ thread'.found = thread.found
    BY <2>1, <2>2 DEF Threads
  <2> QED BY <1>1, <2>1, <2>3
<1> QED BY <1>2, <1>3, <1>4

\* The end of the table: the slot is taken if a partition was found.
LEMMA PartDoneOrder ==
    ASSUME IInv, Order, PartDone
    PROVE  Order'
<1>0. /\ thread.pc = "table" /\ thread.pc \in InConnectBd
      /\ UNCHANGED <<g_part, partVolume, caches, connected, inserting, client, g_fs, mass0, lock>>
  BY DEF PartDone, At, InConnectBd
<1>1. CASE thread.found
  <2>1. Accept /\ g_fs[thread.fs] \in PartitionDrivers
    BY <1>0, <1>1 DEF PartDone, Order, WorkOK
  <2>2. /\ RowsOK' /\ PartsOK' /\ WorkOK'
        /\ \A i \in Slots : g_mount[i].fs = "fatfs" => g_mount'[i] = g_mount[i]
    BY <1>0, <2>1, AcceptTables
  <2>3. thread'.pc = "notify"
    BY <1>0, <2>1, AcceptRow
  <2>4. MountOK'
    BY <1>0, <2>2, <2>3, MountSame
  <2> QED BY <2>2, <2>4 DEF Order
<1>2. CASE ~thread.found
  <2>1. Reject
    BY <1>2 DEF PartDone
  <2> QED BY <1>0, <1>2, <2>1, RejectOrder
<1> QED BY <1>1, <1>2

\* A usable entry: a free pseudo device starts to lie on the device, and
\* enters the table unless it is filtered.
LEMMA PartEntryOrder ==
    ASSUME IInv, Order, PartEntry
    PROVE  Order'
<1>0. /\ thread.pc = "entries" /\ inserting = NULL /\ thread \in Threads /\ thread.slot \in Slots
      /\ thread.arg \in WholeHandles /\ thread.arg # NULL
      /\ UNCHANGED <<connected, inserting, client, g_fs, mass0, lock>>
  BY DEF PartEntry, At, BdmMayRun, IInv, TypeOK, Control, ThreadOK, Trying, InConnectBd
<1>a. RowsOK /\ PartsOK /\ WorkOK /\ MountOK /\ PseudoHeld
  BY DEF Order, IInv
<1>b. /\ g_part \in [Partitions -> Handles] /\ partVolume \in [Partitions -> Volumes]
  BY DEF IInv, TypeOK
<1>1. ASSUME /\ thread'.slot = thread.slot /\ thread'.arg = thread.arg /\ thread'.fs = thread.fs
             /\ thread'.pc = "entries"
             /\ RowsOK'
             /\ \A i \in Slots : g_mount[i].bd # NULL => g_mount'[i] = g_mount[i],
             NEW p \in Partitions, g_part[p] = NULL, thread'.found,
             g_part'[p] = thread.arg, partVolume'[p][1] = thread.arg[2],
             \A q \in Partitions : q # p => g_part'[q] = g_part[q] /\ partVolume'[q] = partVolume[q]
      PROVE  Order'
  <2>0. thread.pc \in InConnectBd /\ thread'.pc \in InConnectBd
    BY <1>0, <1>1 DEF InConnectBd
  <2>1. g_mount[thread.slot].bd # NULL /\ g_mount[thread.slot].fs = "none"
        /\ thread.arg = Target(g_mount[thread.slot])
    BY <1>a, <2>0 DEF WorkOK
  <2>2. g_mount'[thread.slot] = g_mount[thread.slot]
    BY <1>0, <1>1, <2>1
  <2>3. PartsOK'
    <3>1. SUFFICES ASSUME NEW q \in Partitions, g_part'[q] # NULL
                   PROVE  /\ g_part'[q] \in WholeHandles /\ partVolume'[q][1] = g_part'[q][2]
                          /\ \E i \in Slots : HeldBy(q, i)'
      BY DEF PartsOK
    <3>2. CASE q = p
      <4>1. HeldBy(q, thread.slot)'
        BY Z3T(20), SMTT(20), <1>1, <2>0, <2>1, <2>2, <3>2 DEF HeldBy, Target
      <4> QED BY <1>0, <1>1, <3>2, <4>1
    <3>3. CASE q # p
      <4>1. /\ g_part[q] \in WholeHandles /\ partVolume[q][1] = g_part[q][2]
            /\ \E i \in Slots : HeldBy(q, i)
        BY <1>a, <1>1, <3>1, <3>3 DEF PartsOK
      <4>2. PICK i \in Slots : HeldBy(q, i)
        BY <4>1
      <4>3. g_mount[i].bd # NULL
        BY <1>a, <1>1, <3>1, <3>3, <4>2, RowTarget DEF HeldBy, RowsOK
      <4>4. HeldBy(q, i)'
        BY <1>1, <2>0, <3>3, <4>2, <4>3 DEF HeldBy, Target
      <4> QED BY <1>1, <3>3, <4>1, <4>4
    <3> QED BY <3>2, <3>3
  <2>4. WorkOK'
    BY Z3T(20), SMTT(20), <1>0, <1>a, <1>1, <2>0, <2>1, <2>2 DEF WorkOK, Target
  <2>5. MountOK'
    <3>1. lock # "bdm"
      BY <1>0, <1>a DEF MountOK
    <3>2. mass0.bd # NULL =>
             \E i \in Slots : g_mount'[i] = g_mount[i] /\ g_mount[i].fs = "fatfs" /\ Target(g_mount[i]) = mass0.bd
      <4>1. SUFFICES ASSUME mass0.bd # NULL
                     PROVE  \E i \in Slots : g_mount'[i] = g_mount[i] /\ g_mount[i].fs = "fatfs"
                                             /\ Target(g_mount[i]) = mass0.bd
        OBVIOUS
      <4>2. PICK i \in Slots : g_mount[i].fs = "fatfs" /\ Target(g_mount[i]) = mass0.bd
        BY <1>a, <3>1, <4>1 DEF MountOK
      <4>3. g_mount[i].bd # NULL
        BY <1>a, <4>1, <4>2, RowTarget DEF RowsOK
      <4> QED BY <1>1, <4>2, <4>3
    <3>3. mass0.bd # Pseudo(p)
      <4>1. SUFFICES ASSUME mass0.bd = Pseudo(p) PROVE FALSE
        OBVIOUS
      <4>2. PICK i \in Slots : g_mount[i].fs = "fatfs" /\ Target(g_mount[i]) = mass0.bd
        BY <3>2, <4>1, HandleKinds
      <4>3. g_mount[i].bd = Pseudo(p)
        BY Z3T(20), SMTT(20), <1>a, <4>1, <4>2, RowTarget DEF RowsOK
      <4> QED BY <1>a, <1>1, <4>3 DEF PseudoHeld
    <3>4. VolumeOf(mass0.bd)' = VolumeOf(mass0.bd)
      <4>1. mass0.bd \in Handles
        BY DEF IInv, TypeOK, Mass
      <4>2. CASE IsWhole(mass0.bd)
        BY <1>0, <4>2 DEF VolumeOf, IsWhole
      <4>3. CASE ~IsWhole(mass0.bd)
        <5>1. PICK q \in Partitions : mass0.bd = Pseudo(q)
          BY Z3T(20), SMTT(20), <4>1, <4>3 DEF Handles, IsWhole, Raw, Cache, Pseudo, NULL
        <5>2. q # p
          BY <3>3, <5>1
        <5> QED BY Z3T(20), SMTT(20), <1>0, <1>1, <5>1, <5>2 DEF VolumeOf, Pseudo
      <4> QED BY <4>2, <4>3
    <3> QED BY Z3T(20), SMTT(20), <1>0, <1>a, <1>1, <3>1, <3>2, <3>4 DEF MountOK, Target
  <2> QED BY <1>1, <2>3, <2>4, <2>5 DEF Order
<1>2. ASSUME NEW p \in FreePartitions,
             g_part' = [g_part EXCEPT ![p] = thread.arg],
             partVolume' = [partVolume EXCEPT
                ![p] = <<DeviceOf(thread.arg), Sectors[thread.sector][thread.entry]>>],
             UNCHANGED <<g_mount, caches>> \/ Insert(Pseudo(p)),
             thread' = [thread EXCEPT !.entry = @ + 1, !.found = TRUE]
      PROVE  Order'
  <2>1. p \in Partitions /\ g_part[p] = NULL
    BY DEF FreePartitions
  <2>2. /\ thread'.slot = thread.slot /\ thread'.arg = thread.arg /\ thread'.fs = thread.fs
        /\ thread'.pc = "entries" /\ thread'.found
    BY <1>0, <1>2 DEF Threads
  <2>3. /\ g_part'[p] = thread.arg /\ partVolume'[p][1] = thread.arg[2]
        /\ \A q \in Partitions : q # p => g_part'[q] = g_part[q] /\ partVolume'[q] = partVolume[q]
    BY <1>0, <1>b, <1>2, <2>1, WholeDevice
  <2>4. RowsOK' /\ \A i \in Slots : g_mount[i].bd # NULL => g_mount'[i] = g_mount[i]
    <3>1. CASE UNCHANGED <<g_mount, caches>>
      BY <1>0, <1>a, <3>1, RowsSame
    <3>2. CASE Insert(Pseudo(p))
      <4>1. \A i \in Slots : g_mount[i].bd # Pseudo(p)
        BY <1>a, <2>1 DEF PseudoHeld
      <4> QED BY <1>0, <2>1, <3>2, <4>1, InsertRows, HandleTypes
    <3> QED BY <1>2, <3>1, <3>2
  <2> QED BY <1>1, <2>1, <2>2, <2>3, <2>4
<1>3. CASE /\ thread' = [thread EXCEPT !.entry = @ + 1]
           /\ UNCHANGED <<g_mount, g_part, partVolume, caches>>
  <2>1. /\ thread'.slot = thread.slot /\ thread'.arg = thread.arg /\ thread'.fs = thread.fs
        /\ thread'.pc = "entries" /\ thread'.found = thread.found
    BY <1>0, <1>3 DEF Threads
  <2>2. RowsOK' /\ PartsOK' /\ WorkOK'
    BY <1>0, <1>3, <2>1, MovesOnOrder DEF InConnectBd
  <2>3. MountOK'
    BY <1>0, <1>3, <2>1, MountSame
  <2> QED BY <2>2, <2>3 DEF Order
<1> QED BY <1>2, <1>3 DEF PartEntry


-----------------------------------------------------------------------------
(* The FatFs driver *)

\* mass0 is taken under _fs_lock.
LEMMA FatfsLockOrder ==
    ASSUME IInv, Order, FatfsLock
    PROVE  Order'
<1>0. /\ thread.pc = "fatfs" /\ lock = "free" /\ ~thread.found /\ thread.pc \in InConnectBd
      /\ UNCHANGED <<g_part, partVolume, caches, connected, inserting, client, g_fs>>
  BY DEF FatfsLock, At, Order, WorkOK, InConnectBd
<1>1. CASE Reject /\ UNCHANGED fatfs
  BY <1>0, <1>1, RejectOrder
<1>2. CASE /\ mass0.bd = NULL /\ lock' = "bdm" /\ mass0' = [bd |-> thread.arg, state |-> "UNSELECTED"]
           /\ Goto("f_mount") /\ UNCHANGED g_mount
  <2>1. /\ thread'.pc = "f_mount" /\ thread'.slot = thread.slot /\ thread'.arg = thread.arg
        /\ thread'.fs = thread.fs /\ thread'.found = thread.found
    BY <1>2, GotoMoves
  <2>2. RowsOK' /\ PartsOK' /\ WorkOK'
    BY <1>0, <1>2, <2>1, MovesOnOrder
  <2>3. client = NULL
    BY <1>0 DEF Order, MountOK
  <2>4. MountOK'
    BY <1>0, <1>2, <2>1, <2>3 DEF MountOK
  <2> QED BY <2>2, <2>4 DEF Order
<1> QED BY <1>1, <1>2 DEF FatfsLock

\* f_mount keeps the volume only if it has a POPS directory.
LEMMA FatfsMountOrder ==
    ASSUME IInv, Order, FatfsMount
    PROVE  Order'
<1>0. /\ thread.pc = "f_mount" /\ ~thread.found /\ thread.pc \in InConnectBd
      /\ UNCHANGED <<g_part, partVolume, caches, connected, inserting, client, g_fs>>
  BY DEF FatfsMount, At, Order, WorkOK, InConnectBd
<1>1. CASE Reject /\ mass0' = Unmounted /\ lock' = "free"
  BY <1>0, <1>1, RejectOrder
<1>2. CASE /\ VolumeOf(thread.arg) \in Fat \cap Pops /\ mass0' = [mass0 EXCEPT !.state = "VOLUME_LOCKED"]
           /\ Goto("vcd") /\ UNCHANGED <<g_mount, lock>>
  <2>1. /\ thread'.pc = "vcd" /\ thread'.slot = thread.slot /\ thread'.arg = thread.arg
        /\ thread'.fs = thread.fs /\ thread'.found = thread.found
    BY <1>2, GotoMoves
  <2>2. RowsOK' /\ PartsOK' /\ WorkOK'
    BY <1>0, <1>2, <2>1, MovesOnOrder
  <2>3. mass0'.bd = mass0.bd /\ mass0'.state = "VOLUME_LOCKED"
    BY <1>2 DEF IInv, TypeOK, Mass
  <2>4. lock = "bdm" /\ client = NULL /\ mass0.bd = thread.arg
    BY <1>0 DEF Order, MountOK
  <2>5. VolumeOf(thread.arg)' \in Pops
    BY <1>0, <1>2, <2>1 DEF VolumeOf
  <2>6. MountOK'
    BY <1>0, <1>2, <2>1, <2>3, <2>4, <2>5 DEF MountOK
  <2> QED BY <2>2, <2>6 DEF Order
<1> QED BY <1>1, <1>2 DEF FatfsMount

\* POPStarter goes on once the target file is there.
LEMMA FatfsFoundOrder ==
    ASSUME IInv, Order, FatfsFound
    PROVE  Order'
<1>0. /\ thread.pc = "vcd" /\ ~thread.found /\ thread.pc \in InConnectBd /\ Accept
      /\ VolumeOf(thread.arg) \in Ready /\ lock' = "free"
      /\ mass0' = [mass0 EXCEPT !.state = "VCD_READY"]
      /\ UNCHANGED <<g_part, partVolume, caches, connected, inserting, client, g_fs>>
  BY DEF FatfsFound, At, Order, WorkOK, InConnectBd
<1>1. /\ RowsOK' /\ PartsOK' /\ WorkOK'
      /\ \A i \in Slots : Target(g_mount'[i]) = Target(g_mount[i])
      /\ g_mount'[thread.slot].fs = g_fs[thread.fs]
  BY <1>0, AcceptTables
<1>2. thread.slot \in Slots /\ thread'.pc = "notify"
  BY <1>0, AcceptRow
<1>3. /\ g_fs[thread.fs] = "fatfs" /\ thread.arg = Target(g_mount[thread.slot])
  BY <1>0 DEF Order, WorkOK
<1>4. /\ mass0'.bd = mass0.bd /\ mass0'.state = "VCD_READY"
  BY <1>0 DEF IInv, TypeOK, Mass
<1>5. lock = "bdm" /\ client = NULL /\ mass0.bd = thread.arg /\ VolumeOf(thread.arg) \in Pops
  BY <1>0 DEF Order, MountOK
<1>6. \E i \in Slots : g_mount'[i].fs = "fatfs" /\ Target(g_mount'[i]) = mass0'.bd
  BY Z3T(20), SMTT(20), <1>1, <1>2, <1>3, <1>4, <1>5
<1>7. VolumeOf(mass0.bd)' \in Pops \cap Ready
  BY <1>0, <1>4, <1>5 DEF VolumeOf
<1>8. MountOK'
  BY <1>0, <1>2, <1>4, <1>5, <1>6, <1>7 DEF MountOK, Target
<1> QED BY <1>1, <1>8 DEF Order

-----------------------------------------------------------------------------
(* Drivers and clients *)

\* An unplugged device is not the one bdm_thread reads.
LEMMA UnplugOrder ==
    ASSUME IInv, Order, Steady, NEW d \in Devices, Unplug(d)
    PROVE  Order'
<1>0. /\ ~Probing(d) /\ Disconnect(Raw(d)) /\ inserting' = NULL /\ connected' = connected \ {d}
      /\ UNCHANGED <<partVolume, lock, client, g_fs, thread>>
  BY DEF Unplug, Steady
<1>1. ASSUME thread.pc \in {"probe"} \cup InConnectBd, thread.slot \in Cleared(Raw(d)) PROVE FALSE
  <2>1. DeviceOf(g_mount[thread.slot].bd) # d
    BY <1>0, <1>1 DEF Probing, InConnectBd
  <2>2. g_mount[thread.slot].bd # Raw(d)
    BY Z3T(20), SMTT(20), <2>1 DEF DeviceOf, VolumeOf, Raw
  <2>3. PICK p \in PartitionsOn(Raw(d)) : g_mount[thread.slot].bd = Pseudo(p)
    BY <1>1, <2>2 DEF Cleared, SlotsOf
  <2>4. PICK i \in SlotsOf(Raw(d)) : p \in Children(i)
    BY DEF PartitionsOn
  <2>5. /\ i \in Slots /\ g_mount[i].bd = Raw(d) /\ p \in Partitions /\ g_part[p] = Target(g_mount[i])
    BY <2>4 DEF SlotsOf, Children
  <2>6. g_part[p] = Raw(d) \/ g_part[p] = Cache(d)
    BY <2>5, RowTarget DEF Order, RowsOK
  <2>7. g_part[p] # NULL /\ g_part[p][2] = d
    BY <2>6, HandleKinds
  <2>8. partVolume[p][1] = d
    BY <2>5, <2>7 DEF Order, PartsOK
  <2> QED BY Z3T(20), SMTT(20), <2>1, <2>3, <2>8 DEF DeviceOf, VolumeOf, Pseudo
<1>2. thread' = thread /\ (thread.pc \in {"probe"} \cup InConnectBd => thread.slot \notin Cleared(Raw(d)))
  BY <1>0, <1>1
<1>3. connected' = connected \/ \E e : Raw(d) = Raw(e) /\ connected' = connected \ {e}
  BY <1>0
<1> QED BY <1>0, <1>2, <1>3, DisconnectOrder

\* The filter loop disconnects a device or a partition.
LEMMA FilterOrder ==
    ASSUME IInv, Order, BdmFilterSlot
    PROVE  Order'
<1>0. /\ thread.pc = "filter" /\ inserting' = NULL
      /\ UNCHANGED <<partVolume, lock, client, g_fs, connected, inserting>>
  BY DEF BdmFilterSlot, At, BdmMayRun
<1>1. thread'.pc = "filter"
  BY <1>0 DEF BdmFilterSlot, IInv, TypeOK, Threads
<1>2. CASE Disconnect(g_mount[thread.slot].bd)
  BY <1>0, <1>1, <1>2, DisconnectOrder
<1>3. CASE UNCHANGED <<g_mount, g_part, caches, event, mass0>>
  <2>1. RowsOK'
    BY <1>0, <1>3, RowsSame DEF Order
  <2>2. PartsOK'
    BY <1>0, <1>3, PartsSame DEF InConnectBd
  <2>3. WorkOK'
    BY <1>1 DEF WorkOK, InConnectBd
  <2>4. MountOK'
    BY <1>0, <1>1, <1>3, MountSame
  <2> QED BY <2>1, <2>2, <2>3, <2>4 DEF Order
<1> QED BY <1>2, <1>3 DEF BdmFilterSlot

\* A device that is announced is in no row yet.
LEMMA ConnectCheckOrder ==
    ASSUME IInv, Order, NEW d \in Devices, ConnectCheck(d)
    PROVE  Order'
<1>0. /\ d \notin connected /\ connected' = connected \cup {d} /\ (inserting' = NULL \/ inserting' = Raw(d))
      /\ UNCHANGED <<g_mount, g_part, partVolume, caches, thread, g_fs, mass0, lock, client>>
  BY DEF ConnectCheck
<1>1. ASSUME NEW i \in Slots PROVE RowOK(g_mount[i])' /\ g_mount[i].bd # Raw(d)
  <2>1. RowOK(g_mount[i])
    BY DEF Order, RowsOK
  <2>2. RowOK(g_mount[i])'
    BY <1>0, <2>1 DEF RowOK
  <2>3. g_mount[i].bd # Raw(d)
    BY Z3T(20), SMTT(20), <1>0, <2>1, HandleKinds, HandleNames DEF RowOK, Empty
  <2> QED BY <2>2, <2>3
<1>2. RowsOK'
  BY <1>0, <1>1 DEF Order, RowsOK
<1>3. PartsOK'
  BY Z3T(20), SMTT(20), <1>0 DEF Order, PartsOK, HeldBy, Target
<1>4. WorkOK'
  BY <1>0 DEF Order, WorkOK, Target
<1>5. MountOK'
  BY <1>0 DEF Order, MountOK, Target, VolumeOf
<1> QED BY <1>2, <1>3, <1>4, <1>5 DEF Order

\* The device enters the table.
LEMMA ConnectInsertOrder ==
    ASSUME IInv, Order, ConnectInsert
    PROVE  Order'
<1>0. /\ inserting # NULL /\ Insert(inserting) /\ inserting' = NULL
      /\ UNCHANGED <<g_part, partVolume, connected, thread, g_fs, mass0, lock, client>>
  BY DEF ConnectInsert
<1>1. PICK d \in connected : inserting = Raw(d) /\ \A i \in Slots : g_mount[i].bd # Raw(d)
  BY <1>0 DEF Order, RowsOK
<1>2. inserting \in Handles
  BY DEF IInv, TypeOK
<1>3. RowsOK' /\ \A i \in Slots : g_mount[i].bd # NULL => g_mount'[i] = g_mount[i]
  BY <1>0, <1>1, <1>2, InsertRows
<1>4. \A i \in Slots : Target(g_mount[i]) # NULL => g_mount'[i] = g_mount[i]
  BY <1>3, RowTarget DEF Order, RowsOK
<1>5. PartsOK'
  <2>1. SUFFICES ASSUME NEW p \in Partitions, g_part[p] # NULL
                 PROVE  /\ g_part[p] \in WholeHandles /\ partVolume[p][1] = g_part[p][2]
                        /\ \E i \in Slots : HeldBy(p, i)'
    BY <1>0 DEF PartsOK
  <2>2. /\ g_part[p] \in WholeHandles /\ partVolume[p][1] = g_part[p][2]
        /\ \E i \in Slots : HeldBy(p, i)
    BY <2>1 DEF Order, PartsOK
  <2>3. PICK i \in Slots : HeldBy(p, i)
    BY <2>2
  <2>4. HeldBy(p, i)'
    BY <1>0, <1>4, <2>1, <2>3 DEF HeldBy, Target
  <2> QED BY <2>2, <2>4
<1>6. WorkOK'
  <2>1. thread.pc \in {"probe"} \cup InConnectBd => g_mount'[thread.slot] = g_mount[thread.slot]
    BY <1>3 DEF Order, WorkOK, IInv, Control, ThreadOK, Trying
  <2> QED BY <1>0, <2>1 DEF Order, WorkOK, Target
<1>7. MountOK'
  <2>1. lock # "bdm" /\ mass0.bd # NULL =>
           \E i \in Slots : g_mount'[i].fs = "fatfs" /\ Target(g_mount'[i]) = mass0.bd
    BY <1>4 DEF Order, MountOK
  <2> QED BY <1>0, <2>1 DEF Order, MountOK, Target, VolumeOf
<1> QED BY <1>3, <1>5, <1>6, <1>7 DEF Order

\* A client's file operation holds _fs_lock.
LEMMA ClientOrder ==
    ASSUME IInv, Order, ClientStart \/ ClientEnd \/ ClientStop
    PROVE  Order'
<1>0. UNCHANGED <<g_mount, g_part, partVolume, caches, connected, inserting, thread, g_fs>>
  BY DEF ClientStart, ClientEnd, ClientStop
<1>1. RowsOK'
  BY <1>0, RowsSame DEF Order
<1>2. PartsOK' /\ WorkOK'
  BY Z3T(20), SMTT(20), <1>0 DEF Order, PartsOK, HeldBy, WorkOK, Target
<1>3. MountOK'
  <2>0. MountOK
    BY DEF Order
  <2>1. CASE ClientStart
    BY Z3T(20), SMTT(20), <1>0, <2>0, <2>1 DEF ClientStart, MountOK, Target, VolumeOf
  <2>2. CASE ClientEnd
    BY <1>0, <2>0, <2>2 DEF ClientEnd, MountOK, Target, VolumeOf
  <2>3. CASE ClientStop
    BY <1>0, <2>0, <2>3 DEF ClientStop, MountOK, Target, VolumeOf, Unmounted
  <2> QED BY <2>1, <2>2, <2>3
<1> QED BY <1>1, <1>2, <1>3 DEF Order


-----------------------------------------------------------------------------
(* Every step *)

\* The list of file systems only grows by the three of them.
LEMMA FsStep ==
    ASSUME TypeOK, FsOK, [Next]_vars
    PROVE  FsOK'
<1>1. CASE ConnectFs
  <2>1. g_fs \in Seq(FsNames) /\ Len(g_fs) < 3 /\ g_fs' = Append(g_fs, FileSystems[Len(g_fs) + 1])
    BY <1>1, FileSystemNames DEF ConnectFs, TypeOK
  <2>2. FileSystems[Len(g_fs) + 1] \in PartitionDrivers \cup {"fatfs"}
    <3>1. Len(g_fs) \in Nat
      BY <2>1, LenProperties
    <3>2. FileSystems[1] = "MBR" /\ FileSystems[2] = "GPT" /\ FileSystems[3] = "fatfs"
      BY DEF FileSystems
    <3>3. \A n \in Nat : n < 3 => n + 1 = 1 \/ n + 1 = 2 \/ n + 1 = 3
      BY Z3T(20), SMTT(20)
    <3>4. \A n \in Nat : n < 3 => FileSystems[n + 1] \in PartitionDrivers \cup {"fatfs"}
      BY <3>2, <3>3 DEF PartitionDrivers
    <3> QED BY <2>1, <3>1, <3>4
  <2>3. /\ Len(g_fs') = Len(g_fs) + 1 /\ g_fs'[Len(g_fs) + 1] = FileSystems[Len(g_fs) + 1]
        /\ \A k \in 1 .. Len(g_fs) : g_fs'[k] = g_fs[k]
    BY Z3T(20), SMTT(20), <2>1
  <2> QED BY Z3T(20), SMTT(20), <2>1, <2>2, <2>3, LenProperties DEF FsOK
<1>2. CASE ~ConnectFs
  <2>1. g_fs' = g_fs
    BY <1>2 DEF Next, BdmThread, StartCode, Users, vars, BdmWait, BdmFilterSlot, BdmFilterDone,
       BdmMountSlot, BdmMountDone, BdmCallback, BdmProbe, BdmNotify, PartHeader, PartTable, PartEntry,
       PartNextSector, PartDone, FatfsLock, FatfsMount, FatfsFound, SetAtaOnly, SetAtaOnlyRaises,
       SetAtaOnlyReturns, RegisterCallback, RegisterScan, ClientStart, ClientEnd, ClientStop,
       ConnectInsert, ConnectCheck, Unplug
  <2> QED BY <2>1 DEF FsOK
<1> QED BY <1>1, <1>2

\* Every step keeps the tables in order.
LEMMA OrderStep ==
    ASSUME Steady, IInv, FsOK, Order, [Next]_vars
    PROVE  Order'
<1>1. CASE BdmThread
  <2>1. CASE BdmWait \/ BdmFilterDone \/ BdmMountSlot \/ BdmMountDone \/ BdmCallback \/ BdmNotify
    BY <2>1, LoopsOrder
  <2>2. CASE PartHeader \/ PartTable \/ PartNextSector
    BY <2>2, PartReadsOrder
  <2> QED BY <1>1, <2>1, <2>2, FilterOrder, ProbeOrder, PartEntryOrder, PartDoneOrder,
             FatfsLockOrder, FatfsMountOrder, FatfsFoundOrder DEF BdmThread
<1>2. CASE StartCode \/ RegisterCallback \/ RegisterScan
  <2>1. CASE ConnectFs
    <3>0. Len(g_fs) < 3 /\ UNCHANGED <<g_mount, g_part, partVolume, caches, connected, inserting, thread,
                                       mass0, lock, client>>
      BY <2>1, FileSystemNames DEF ConnectFs
    <3>1. thread.pc \notin {"probe"} \cup InConnectBd
      <4>1. Len(FileSystems) = 3
        BY FileSystemNames
      <4>2. g_fs \in Seq(FsNames)
        BY DEF IInv, TypeOK
      <4>3. Len(g_fs) \in Nat
        BY <4>2, LenProperties
      <4>5. \A n \in Nat : n < 3 => n # 3
        BY Z3T(20), SMTT(20)
      <4>4. ~Started
        BY <3>0, <4>1, <4>3, <4>5 DEF Started
      <4> QED BY <4>4 DEF IInv, Control, ThreadOK, Trying
    <3>2. RowsOK'
      BY <3>0, RowsSame DEF Order
    <3>3. PartsOK'
      BY <3>0, PartsSame
    <3>4. WorkOK'
      BY <3>0, <3>1 DEF WorkOK, InConnectBd
    <3>5. MountOK'
      BY <3>0 DEF Order, MountOK, Target, VolumeOf
    <3> QED BY <3>2, <3>3, <3>4, <3>5 DEF Order
  <2>2. CASE ~ConnectFs
    BY <1>2, <2>2, OrderSame DEF StartCode, SetAtaOnly, SetAtaOnlyRaises, SetAtaOnlyReturns,
       RegisterCallback, RegisterScan
  <2> QED BY <2>1, <2>2
<1>3. CASE ClientStart \/ ClientEnd \/ ClientStop
  BY <1>3, ClientOrder
<1>4. CASE ConnectInsert
  BY <1>4, ConnectInsertOrder
<1>5. CASE \E d \in Devices : ConnectCheck(d) \/ Unplug(d)
  BY <1>5, ConnectCheckOrder, UnplugOrder
<1>6. CASE UNCHANGED vars
  BY <1>6, OrderSame DEF vars
<1> QED BY <1>1, <1>2, <1>3, <1>4, <1>5, <1>6 DEF Next, Users

\* bdm_init leaves the tables in order.
LEMMA OrderInit == Init => Order /\ FsOK
<1> SUFFICES ASSUME Init PROVE Order /\ FsOK
  OBVIOUS
<1>1. \A i \in Slots : g_mount[i] = Empty
  BY DEF Init
<1>2. RowsOK
  BY <1>1 DEF Init, RowsOK, RowOK, Empty
<1>3. PartsOK
  BY DEF Init, PartsOK
<1>4. WorkOK
  BY DEF Init, WorkOK, Idle, InConnectBd
<1>5. MountOK
  BY DEF Init, MountOK, Idle, Unmounted
<1>6. FsOK
  BY Z3T(20), SMTT(20) DEF Init, FsOK
<1> QED BY <1>2, <1>3, <1>4, <1>5, <1>6 DEF Order

\* What the file systems are given for a device in the table can be read.
LEMMA TargetLive ==
    ASSUME IInv, Order, NEW i \in Slots, g_mount[i].bd # NULL
    PROVE  Live(Target(g_mount[i]))
<1>1. ASSUME NEW m, RowOK(m), m.bd # NULL, \A p : m.bd # Pseudo(p) PROVE LiveDevice(Target(m))
  <2>1. PICK d \in connected : m.bd = Raw(d) /\ (m.cbd = NULL \/ (m.cbd = Cache(d) /\ d \in caches))
    BY Z3T(20), SMTT(20), <1>1 DEF RowOK, Empty
  <2> QED BY Z3T(20), SMTT(20), <2>1, HandleKinds, HandleNames DEF Target, LiveDevice
<1>2. RowOK(g_mount[i])
  BY DEF Order, RowsOK
<1>3. CASE \E p \in Partitions : g_mount[i].bd = Pseudo(p)
  <2>1. PICK p \in Partitions : g_mount[i].bd = Pseudo(p)
    BY <1>3
  <2>2. Target(g_mount[i]) = Pseudo(p) /\ g_part[p] # NULL
    BY <1>2, <2>1, RowTarget DEF IInv, PseudoHeld
  <2>3. PICK j \in Slots : g_part[p] \in WholeHandles /\ g_part[p] = Target(g_mount[j])
    BY <2>2 DEF Order, PartsOK, HeldBy
  <2>4. RowOK(g_mount[j]) /\ g_mount[j].bd = Raw(g_part[p][2])
    BY <2>3, WholeTarget DEF Order, RowsOK
  <2>5. LiveDevice(g_part[p])
    BY Z3T(20), SMTT(20), <1>1, <2>3, <2>4, HandleKinds
  <2> QED BY Z3T(20), SMTT(20), <2>2, <2>5, HandleKinds, HandleNames DEF Live
<1>4. CASE ~\E p \in Partitions : g_mount[i].bd = Pseudo(p)
  <2>1. PICK d \in connected : g_mount[i].bd = Raw(d)
    BY Z3T(20), SMTT(20), <1>2, <1>4 DEF RowOK, Empty
  <2> QED BY Z3T(20), SMTT(20), <1>1, <1>2, <2>1, HandleKinds DEF Live
<1> QED BY <1>3, <1>4

\* The inductive invariant of the tables.
THEOREM TablesInOrder == ASSUME Steady PROVE Spec => [](IInv /\ FsOK /\ Order)
<1>1. Init => IInv /\ FsOK /\ Order
  BY InitInv, OrderInit
<1>2. IInv /\ FsOK /\ Order /\ [Next]_vars => (IInv /\ FsOK /\ Order)'
  BY InvStep, FsStep, OrderStep DEF IInv
<1> QED BY <1>1, <1>2, PTL DEF Spec

\* The mount table, the caches and the pseudo devices agree at every moment:
\* no cache is leaked or freed twice (bd_cache_create and bd_cache_destroy in
\* bdm_connect_bd and bdm_disconnect_bd), and part_disconnect finds every
\* pseudo device that a partition driver connected.
THEOREM TablesAlwaysAgree == ASSUME Steady PROVE Spec => []TablesAgree
<1>1. IInv /\ FsOK /\ Order => TablesAgree
  <2> SUFFICES ASSUME IInv, Order PROVE TablesAgree
    OBVIOUS
  <2>1. \A i \in Slots : RowOK(g_mount[i])
    BY DEF Order, RowsOK
  <2>2. \A i \in Slots : g_mount[i].fs # "none" => g_mount[i].bd # NULL
    BY Z3T(20), SMTT(20), <2>1, RowTarget DEF Empty
  <2>3. ASSUME NEW i \in Slots, g_mount[i].cbd # NULL
        PROVE  \E d \in caches : g_mount[i].bd = Raw(d) /\ g_mount[i].cbd = Cache(d)
    BY Z3T(20), SMTT(20), <2>1, <2>3 DEF RowOK, Empty
  <2>4. ASSUME NEW p \in Partitions, g_part[p] # NULL
        PROVE  \E i \in Slots :
                  /\ g_part[p] = Target(g_mount[i])
                  /\ \/ g_mount[i].fs \in PartitionDrivers
                     \/ thread.pc \in InConnectBd /\ thread.slot = i /\ thread.arg = g_part[p]
    BY <2>4 DEF Order, PartsOK, HeldBy
  <2> QED BY <2>2, <2>3, <2>4 DEF TablesAgree, Order, RowsOK
<1> QED BY <1>1, TablesInOrder, PTL

\* mass0 always belongs to a slot that FatFs accepted, and POPStarter is only
\* told to go on when the volume behind mass0 holds the POPS directory and
\* the target file (connect_bd of bdmfs_fs_driver.c).
THEOREM Mass0AlwaysTarget == ASSUME Steady PROVE Spec => []Mass0IsTarget
<1>1. IInv /\ FsOK /\ Order => Mass0IsTarget
  BY DEF Order, MountOK, Mass0IsTarget
<1> QED BY <1>1, TablesInOrder, PTL

\* Nobody reads through a device that was disconnected or a cache that was
\* freed: not bdm_thread inside connect_bd, and not a client inside a file
\* operation, because bdm_disconnect_bd unmounts under _fs_lock first.
THEOREM NoIODangles == ASSUME Steady PROVE Spec => []NoDanglingIO
<1>1. IInv /\ FsOK /\ Order => NoDanglingIO
  <2> SUFFICES ASSUME IInv, Order PROVE NoDanglingIO
    OBVIOUS
  <2>1. ASSUME thread.pc \in InConnectBd PROVE Live(thread.arg)
    <3>1. thread.slot \in Slots
      BY <2>1 DEF IInv, Control, ThreadOK, Trying
    <3>2. g_mount[thread.slot].bd # NULL /\ thread.arg = Target(g_mount[thread.slot])
      BY <2>1 DEF Order, WorkOK
    <3> QED BY <3>1, <3>2, TargetLive
  <2>2. ASSUME client # NULL PROVE Live(client)
    <3>1. lock = "client" /\ client = mass0.bd
      BY <2>2 DEF Order, MountOK
    <3>2. PICK i \in Slots : Target(g_mount[i]) = client
      BY <2>2, <3>1 DEF Order, MountOK
    <3>3. g_mount[i].bd # NULL
      BY <2>2, <3>2, RowTarget DEF Order, RowsOK
    <3> QED BY <3>2, <3>3, TargetLive
  <2> QED BY <2>1, <2>2 DEF NoDanglingIO
<1> QED BY <1>1, TablesInOrder, PTL
-----------------------------------------------------------------------------
(* The callback *)

\* something is mounted; the callback has been told of a mount or will be: the
\* event is raised, bdm_thread has taken it, or is about to raise it; and the
\* invariant
Mounted == \E i \in Slots : g_mount[i].bd # NULL /\ g_mount[i].fs # "none"
Tells ==
    \/ told
    \/ "CB_MOUNT" \in event
    \/ thread.pc # "wait" /\ "CB_MOUNT" \in thread.bits
    \/ thread.pc = "notify"
Telling == registrar = "done" /\ Mounted => Tells

\* only connect_bd that returns 0 mounts something, and BdmNotify follows it
LEMMA MountsThenNotifies ==
    ASSUME IInv, Order, [Next]_vars
    PROVE  (Mounted' => Mounted) \/ thread'.pc = "notify"
<1>1. CASE \E h \in Handles : h # NULL /\ Insert(h)
  <2>1. PICK h \in Handles : h # NULL /\ Insert(h)
    BY <1>1
  <2> QED BY <2>1, InsertRow DEF Mounted, Empty
<1>2. CASE \E h : Disconnect(h)
  <2>1. PICK h : g_mount' = [i \in Slots |-> IF i \in Cleared(h) THEN Empty ELSE g_mount[i]]
    BY <1>2 DEF Disconnect
  <2>2. \A i \in Slots : g_mount'[i] = Empty \/ g_mount'[i] = g_mount[i]
    BY <2>1
  <2> QED BY Z3T(20), SMTT(20), <2>2 DEF Mounted, Empty
<1>3. CASE thread.pc \in Trying /\ Accept
  BY <1>3, AcceptStep
<1>4. CASE UNCHANGED g_mount
  BY <1>4 DEF Mounted
<1>5. CASE BdmThread
  <2>1. CASE BdmFilterSlot
    BY <1>2, <1>4, <2>1 DEF BdmFilterSlot
  <2>2. CASE PartEntry
    <3>1. \A p \in Partitions : Pseudo(p) \in Handles /\ Pseudo(p) # NULL
      BY HandleKinds DEF Handles
    <3>2. CASE UNCHANGED <<g_mount, caches, event>>
      BY <1>4, <3>2
    <3>3. CASE \E p \in FreePartitions : Insert(Pseudo(p))
      BY <1>1, <3>1, <3>3 DEF FreePartitions
    <3> QED BY <2>2, <3>2, <3>3 DEF PartEntry, tables
  <2>3. CASE PartDone \/ FatfsFound
    BY <1>3, <1>4, <2>3 DEF PartDone, FatfsFound, Reject, At, Trying, InConnectBd
  <2>4. CASE BdmProbe \/ PartHeader \/ PartTable \/ FatfsLock \/ FatfsMount
    BY <1>4, <2>4 DEF BdmProbe, PartHeader, PartTable, FatfsLock, FatfsMount, Reject
  <2>5. CASE BdmWait \/ BdmFilterDone \/ BdmMountSlot \/ BdmMountDone \/ BdmCallback \/ BdmNotify
             \/ PartNextSector
    BY <1>4, <2>5 DEF BdmWait, BdmFilterDone, BdmMountSlot, BdmMountDone, BdmCallback, BdmNotify,
       PartNextSector, tables
  <2> QED BY <1>5, <2>1, <2>2, <2>3, <2>4, <2>5 DEF BdmThread
<1>6. CASE ConnectInsert
  <2>1. inserting \in Handles /\ inserting # NULL /\ Insert(inserting)
    BY <1>6 DEF ConnectInsert, IInv, TypeOK
  <2> QED BY <1>1, <2>1
<1>7. CASE \E d \in Devices : ConnectCheck(d) \/ Unplug(d)
  BY <1>2, <1>4, <1>7 DEF ConnectCheck, Unplug, tables
<1>8. CASE StartCode \/ Users \/ UNCHANGED vars
  BY <1>4, <1>8 DEF StartCode, Users, vars, tables, ConnectFs, SetAtaOnly, SetAtaOnlyRaises,
     SetAtaOnlyReturns, RegisterCallback, RegisterScan, ClientStart, ClientEnd, ClientStop
<1> QED BY <1>5, <1>6, <1>7, <1>8 DEF Next

\* bdm_thread keeps the bits it has taken until it calls the callback
LEMMA BitsKept ==
    ASSUME IInv, BdmThread, ~BdmWait, ~BdmCallback
    PROVE  thread'.bits = thread.bits /\ thread'.pc # "wait"
<1>0. thread \in Threads
  BY DEF IInv, TypeOK
<1>1. CASE BdmFilterSlot \/ BdmMountSlot
  <2>1. thread.pc # "wait"
    BY <1>1 DEF BdmFilterSlot, BdmMountSlot, At
  <2> QED BY <1>0, <1>1, <2>1 DEF BdmFilterSlot, BdmMountSlot, Threads
<1>2. CASE BdmFilterDone \/ BdmMountDone \/ BdmNotify \/ PartNextSector
  BY <1>0, <1>2 DEF BdmFilterDone, BdmMountDone, BdmNotify, PartNextSector, Goto, Threads
<1>3. CASE PartEntry
  <2>1. thread.pc # "wait" /\ \/ thread' = [thread EXCEPT !.entry = @ + 1, !.found = TRUE]
                              \/ thread' = [thread EXCEPT !.entry = @ + 1]
    BY <1>3 DEF PartEntry, At
  <2> QED BY <1>0, <2>1 DEF Threads
<1>4. CASE BdmProbe \/ PartHeader \/ PartTable \/ PartDone \/ FatfsLock \/ FatfsMount \/ FatfsFound
  <2>1. thread.pc \in Trying
    BY <1>4 DEF BdmProbe, PartHeader, PartTable, PartDone, FatfsLock, FatfsMount, FatfsFound, At,
       Trying, InConnectBd
  <2>2. CASE Reject \/ Accept
    BY <2>1, <2>2, RejectStep, AcceptStep
  <2>3. CASE \E pc \in {"table", "entries", "f_mount", "vcd", "crashed"} : Goto(pc)
    BY <1>0, <2>3 DEF Goto, Threads
  <2>4. CASE \E h, pc : pc # "wait" /\ thread' = [thread EXCEPT !.pc = pc, !.arg = h, !.sector = 1,
                                                     !.entry = 1, !.found = FALSE]
    BY <1>0, <2>4 DEF Threads
  <2>5. BdmProbe => Reject \/ Goto("crashed")
              \/ \E h, pc : pc # "wait" /\ thread' = [thread EXCEPT !.pc = pc, !.arg = h, !.sector = 1,
                                                     !.entry = 1, !.found = FALSE]
    BY DEF BdmProbe
  <2>6. PartHeader => Reject \/ Goto("table")
    BY DEF PartHeader
  <2>7. PartTable => Reject \/ Goto("entries")
    BY DEF PartTable
  <2>8. FatfsLock \/ FatfsMount => Reject \/ Goto("f_mount") \/ Goto("vcd")
    BY DEF FatfsLock, FatfsMount
  <2>9. PartDone \/ FatfsFound => Reject \/ Accept
    BY DEF PartDone, FatfsFound
  <2> QED BY <1>4, <2>2, <2>3, <2>4, <2>5, <2>6, <2>7, <2>8, <2>9
<1> QED BY <1>1, <1>2, <1>3, <1>4 DEF BdmThread

\* what the callback is to be told is not forgotten
LEMMA TellsStays ==
    ASSUME IInv, Tells, registrar = "done", [Next]_vars
    PROVE  Tells'
<1>0. g_cb /\ thread \in Threads
  BY DEF g_cb, IInv, TypeOK
<1>1. CASE BdmWait
  BY <1>0, <1>1 DEF BdmWait, At, Tells, Threads
<1>2. CASE BdmCallback
  BY <1>0, <1>2 DEF BdmCallback, flags, At, Tells
<1>3. CASE BdmNotify
  BY <1>0, <1>3 DEF BdmNotify, Tells
<1>4. CASE BdmThread /\ ~BdmWait /\ ~BdmCallback /\ ~BdmNotify
  <2>1. thread'.bits = thread.bits /\ thread'.pc # "wait"
    BY <1>4, BitsKept
  <2>2. thread.pc # "notify" /\ told' = told
    BY <1>4 DEF BdmThread, At, BdmFilterSlot, BdmFilterDone, BdmMountSlot, BdmMountDone, BdmProbe,
       PartHeader, PartTable, PartEntry, PartNextSector, PartDone, FatfsLock, FatfsMount, FatfsFound
  <2>3. event \subseteq event'
    BY <1>4 DEF BdmThread, BdmFilterSlot, BdmFilterDone, BdmMountSlot, BdmMountDone, BdmProbe,
       PartHeader, PartTable, PartEntry, PartNextSector, PartDone, FatfsLock, FatfsMount, FatfsFound,
       Disconnect, Insert, flags, tables
  <2> QED BY <2>1, <2>2, <2>3 DEF Tells
<1>5. CASE \/ StartCode \/ Users \/ ConnectInsert \/ UNCHANGED vars
           \/ \E d \in Devices : ConnectCheck(d) \/ Unplug(d)
  <2>1. thread' = thread /\ told' = told
    BY <1>5 DEF StartCode, Users, vars, ConnectFs, SetAtaOnly, SetAtaOnlyRaises, SetAtaOnlyReturns,
       RegisterCallback, RegisterScan, ClientStart, ClientEnd, ClientStop, ConnectInsert, ConnectCheck,
       Unplug
  <2>2. event \subseteq event'
    BY <1>5 DEF StartCode, Users, vars, flags, ConnectFs, SetAtaOnly, SetAtaOnlyRaises,
       SetAtaOnlyReturns, RegisterCallback, RegisterScan, ClientStart, ClientEnd, ClientStop,
       ConnectInsert, ConnectCheck, Unplug, Insert, Disconnect
  <2> QED BY <2>1, <2>2 DEF Tells
<1> QED BY <1>1, <1>2, <1>3, <1>4, <1>5 DEF Next

\* every step: a callback that is registered meanwhile looks for what is mounted
LEMMA TellingStep ==
    ASSUME IInv, Order, Telling, [Next]_vars
    PROVE  Telling'
<1> SUFFICES ASSUME registrar' = "done", Mounted' PROVE Tells'
  BY DEF Telling
<1>1. CASE thread'.pc = "notify"
  BY <1>1 DEF Tells
<1>2. CASE thread'.pc # "notify"
  <2>1. Mounted
    BY <1>2, MountsThenNotifies
  <2>2. CASE registrar = "done"
    BY <2>1, <2>2, TellsStays DEF Telling
  <2>3. CASE RegisterScan
    BY <2>1, <2>3 DEF RegisterScan, Mounted, Tells
  <2>4. registrar = "done" \/ RegisterScan
    BY DEF Next, BdmThread, StartCode, Users, vars, callers, BdmWait, BdmFilterSlot, BdmFilterDone,
       BdmMountSlot, BdmMountDone, BdmCallback, BdmProbe, BdmNotify, PartHeader, PartTable, PartEntry,
       PartNextSector, PartDone, FatfsLock, FatfsMount, FatfsFound, ConnectFs, SetAtaOnly,
       SetAtaOnlyRaises, SetAtaOnlyReturns, RegisterCallback, ClientStart, ClientEnd, ClientStop,
       ConnectInsert, ConnectCheck, Unplug
  <2> QED BY <2>2, <2>3, <2>4
<1> QED BY <1>1, <1>2

\* A callback is not missed, although bdm_RegisterCallback and bdm_thread have no lock
\* in common: when bdm_thread sleeps, no event is raised and something is mounted, a
\* callback that is registered has been told of a mount (bdm_RegisterCallback,
\* bdm_try_mount, bdm_thread).
THEOREM CallbackAlwaysTold == ASSUME Steady PROVE Spec => []CallbackTold
<1>1. Init => Telling
  BY DEF Init, Telling
<1>2. IInv /\ Order /\ Telling /\ [Next]_vars => Telling'
  BY TellingStep
<1>3. Telling => CallbackTold
  BY DEF Telling, Tells, Mounted, CallbackTold
<1> QED BY <1>1, <1>2, <1>3, TablesInOrder, PTL DEF Spec
=============================================================================
