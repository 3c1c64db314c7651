----------------------------- MODULE FatfsFiles -----------------------------
(***************************************************************************)
(* Open files and directories of the FatFs driver (bdmfs_fs_driver.c): the *)
(* two tables of structures, the handles that point into them and the      *)
(* cluster link maps, while volumes come and go under mass0.  Every        *)
(* operation runs under _fs_lock and is one step; a handle is used by one  *)
(* caller at a time.  A mount is known by its number, of which FatFs keeps *)
(* the lowest bits (Fsid, a WORD).                                         *)
(***************************************************************************)
EXTENDS Naturals

CONSTANTS
    Handles,        \* iop_file_t structures of the callers
    Files,          \* names, the same ones on every volume
    Items,          \* entries that the link map of a file needs
    Max,            \* MAX_FILES and MAX_DIRS
    StaticItems,    \* FATFS_CLMT_STATIC_ITEMS
    MaxItems,       \* FATFS_CLMT_MAX_ITEMS
    IdSpace,        \* values of Fsid
    MaxMounts,      \* bound: how often a volume is mounted
    Faults          \* "memory" (malloc fails), "disk" (a transfer fails)

VARIABLES
    volume,   \* mass0: is a device mounted, and the number of the last mount
    table,    \* fil_structures and dir_structures
    dynamic,  \* fil_dynamic_clmt: the slots that own an allocated map
    fd,       \* privdata of each handle, with what its caller opened
    ret       \* what the last operation returned

vars == <<volume, table, dynamic, fd, ret>>

Kinds == {"file", "dir"}
Slots(k) == 1 .. Max[k]
Nothing == <<"none", 0>>
Objects == Files \X (0 .. MaxMounts)

\* a structure whose obj.fs is NULL; f_open sets all of it again
Free == [fs |-> FALSE, object |-> Nothing, id |-> 0, write |-> FALSE, modified |-> FALSE, cltbl |-> "none"]
Closed == [kind |-> "file", slot |-> 0, object |-> Nothing]

Init ==
    /\ volume = [mounted |-> FALSE, mount |-> 0]
    /\ table = [k \in Kinds |-> [i \in Slots(k) |-> Free]]
    /\ dynamic = {}
    /\ fd = [h \in Handles |-> Closed]
    /\ ret = "OK"

Fsid == volume.mount % IdSpace

\* mutant: any mounted volume will do
validateAny(s) == s.fs /\ volume.mounted

\* the structure belongs to the volume that is mounted now
validate(s) == s.fs /\ volume.mounted /\ s.id = Fsid

-----------------------------------------------------------------------------
(* Volumes *)

\* connect_bd: f_mount gives the volume a new number
Mount ==
    /\ ~volume.mounted /\ volume.mount < MaxMounts
    /\ volume' = [mounted |-> TRUE, mount |-> volume.mount + 1]
    /\ UNCHANGED <<table, dynamic, fd, ret>>

\* connect_bd of a volume without a POPS directory: mounted and unmounted at once
Probe ==
    /\ ~volume.mounted /\ volume.mount < MaxMounts
    /\ volume' = [volume EXCEPT !.mount = @ + 1]
    /\ UNCHANGED <<table, dynamic, fd, ret>>

\* disconnect_bd, and fatfs_fs_driver_stop_single_bd for the unit that is mounted:
\* files and directories stay as they are
Unmount ==
    /\ volume.mounted
    /\ volume' = [volume EXCEPT !.mounted = FALSE]
    /\ UNCHANGED <<table, dynamic, fd, ret>>

\* fs_devctl with USBMASS_DEVCTL_STOP_ALL on a unit other than mass0, or with a
\* command it does not know; only mass0 is ever mounted
Devctl(r) ==
    /\ ret' = r
    /\ UNCHANGED <<volume, table, dynamic, fd>>

-----------------------------------------------------------------------------
(* Opening *)

FreeSlots(k) == {i \in Slots(k) : ~table[k][i].fs}

IsFirst(i, S) == i \in S /\ \A j \in S : i <= j

\* the slot that fs_find_free_fil_structure or fs_find_free_dir_structure returns
Slot(i, k) == IsFirst(i, FreeSlots(k))

TooMany(h, k) ==
    /\ FreeSlots(k) = {}
    /\ fd' = [fd EXCEPT ![h] = Closed] /\ ret' = "EMFILE"
    /\ UNCHANGED <<volume, table, dynamic>>

\* f_open or f_opendir fails: nothing mounted, no such name, a bad transfer
Refused(h, k) ==
    /\ \E i \in Slots(k) : Slot(i, k) /\ table' = [table EXCEPT ![k][i] = Free]
    /\ fd' = [fd EXCEPT ![h] = Closed] /\ ret' = "error"
    /\ UNCHANGED <<volume, dynamic>>

Opened(f, w, c) ==
    [fs |-> TRUE, object |-> <<f, volume.mount>>, id |-> Fsid, write |-> w, modified |-> FALSE, cltbl |-> c]

Take(h, k, i, s) ==
    /\ table' = [table EXCEPT ![k][i] = s]
    /\ fd' = [fd EXCEPT ![h] = [kind |-> k, slot |-> i, object |-> s.object]]
    /\ ret' = "OK"

\* which map a file opened for reading gets
MapOf(f) ==
    IF Items[f] <= StaticItems THEN {"static"}
    ELSE IF Items[f] > MaxItems THEN {"none"}
    ELSE {"dynamic"} \cup (IF "memory" \in Faults THEN {"none"} ELSE {})

\* f_open works and building the map does not: a map that was allocated is freed
\* and the file closed again
MapFailed(h, f) ==
    /\ "disk" \in Faults /\ volume.mounted
    /\ \E i \in Slots("file") :
          Slot(i, "file") /\ table' = [table EXCEPT !["file"][i] = Free]
    /\ fd' = [fd EXCEPT ![h] = Closed] /\ ret' = "error"
    /\ UNCHANGED <<volume, dynamic>>

OpenRead(h, f) ==
    /\ volume.mounted
    /\ \E i \in Slots("file"), c \in MapOf(f) :
          /\ Slot(i, "file")
          /\ Take(h, "file", i, Opened(f, FALSE, c))
          /\ dynamic' = IF c = "dynamic" THEN dynamic \cup {i} ELSE dynamic
    /\ UNCHANGED <<volume>>

\* O_CREAT and O_TRUNC set FA_MODIFIED
OpenWrite(h, f) ==
    /\ volume.mounted
    /\ \E i \in Slots("file"), m \in BOOLEAN :
          Slot(i, "file") /\ Take(h, "file", i, [Opened(f, TRUE, "none") EXCEPT !.modified = m])
    /\ UNCHANGED <<volume, dynamic>>

fs_open(h, f) ==
    /\ fd[h] = Closed
    /\ \/ TooMany(h, "file") \/ Refused(h, "file") \/ MapFailed(h, f)
       \/ OpenRead(h, f) \/ OpenWrite(h, f)

fs_dopen(h, f) ==
    /\ fd[h] = Closed
    /\ \/ TooMany(h, "dir")
       \/ Refused(h, "dir")
       \/ /\ volume.mounted
          /\ \E i \in Slots("dir") : Slot(i, "dir") /\ Take(h, "dir", i, Opened(f, FALSE, "none"))
          /\ UNCHANGED <<volume, dynamic>>

-----------------------------------------------------------------------------
(* Closing *)

Of(h) == table[fd[h].kind][fd[h].slot]
Holds(h, k) == fd[h] # Closed /\ fd[h].kind = k

\* f_close and f_closedir: the structure is released only if its volume is still there
\* and what was written reaches it
Release(s, t) ==
    \/ validate(s) /\ t = Free
    \/ (~validate(s) \/ (s.modified /\ "disk" \in Faults)) /\ t = s

fs_close(h) ==
    /\ Holds(h, "file")
    /\ \E s \in {Of(h), Free} :
          /\ Release(Of(h), s)
          /\ table' = [table EXCEPT !["file"][fd[h].slot] =
                          IF fd[h].slot \in dynamic THEN [s EXCEPT !.cltbl = "none"] ELSE s]
          /\ ret' = IF s.fs THEN "error" ELSE "OK"
    /\ dynamic' = dynamic \ {fd[h].slot}
    /\ fd' = [fd EXCEPT ![h] = Closed]
    /\ UNCHANGED <<volume>>

fs_dclose(h) ==
    /\ Holds(h, "dir")
    /\ \E s \in {Of(h), Free} :
          /\ Release(Of(h), s)
          /\ table' = [table EXCEPT !["dir"][fd[h].slot] = s]
          /\ ret' = IF s.fs THEN "error" ELSE "OK"
    /\ fd' = [fd EXCEPT ![h] = Closed]
    /\ UNCHANGED <<volume, dynamic>>

-----------------------------------------------------------------------------
(* Using an open file or directory *)

\* fs_lseek64, fs_write, fs_read, fs_dread and fs_ioctl2 of a handle that is not open
NotOpen(h) ==
    /\ fd[h] = Closed /\ ret' = "ENOENT"
    /\ UNCHANGED <<volume, table, dynamic, fd>>

\* what I/O through a handle reaches
Reached(h) == <<Of(h).object[1], volume.mount>>

Stale(h) ==
    /\ fd[h] # Closed /\ ~validate(Of(h)) /\ ret' = "error"
    /\ UNCHANGED <<volume, table, dynamic, fd>>

\* fs_read, fs_lseek64 in a file opened for reading, fs_dread
Inspect(h) ==
    /\ fd[h] # Closed /\ validate(Of(h))
    /\ ret' \in {"OK", "error"}
    /\ UNCHANGED <<volume, table, dynamic, fd>>

\* fs_write, and fs_lseek64 past the end of a file opened for writing
Modify(h) ==
    /\ Holds(h, "file") /\ validate(Of(h)) /\ Of(h).write
    /\ ret' \in {"OK", "error"}
    /\ table' = [table EXCEPT !["file"][fd[h].slot].modified = TRUE]
    /\ UNCHANGED <<volume, dynamic, fd>>

\* fs_ioctl2 with USBMASS_IOCTL_GET_LBA asks the device that is at the drive number of
\* the file system object now
GetLba(h) ==
    /\ Holds(h, "file")
    /\ ret' = "OK"
    /\ UNCHANGED <<volume, table, dynamic, fd>>

\* fs_ioctl2 with any other command
Ioctl(h) ==
    /\ Holds(h, "file")
    /\ ret' \in {"OK", "error"}
    /\ UNCHANGED <<volume, table, dynamic, fd>>

\* fs_remove, fs_mkdir, fs_rename and fs_getstat: names on the mounted volume
ByName ==
    /\ ret' \in IF volume.mounted THEN {"OK", "error"} ELSE {"error"}
    /\ UNCHANGED <<volume, table, dynamic, fd>>

Next ==
    \/ Mount \/ Probe \/ Unmount \/ ByName
    \/ \E r \in {"OK", "error"} : Devctl(r)
    \/ \E h \in Handles :
          \/ \E f \in Files : fs_open(h, f) \/ fs_dopen(h, f)
          \/ fs_close(h) \/ fs_dclose(h) \/ NotOpen(h) \/ Stale(h)
          \/ Inspect(h) \/ Modify(h) \/ GetLba(h) \/ Ioctl(h)

Spec == Init /\ [][Next]_vars

-----------------------------------------------------------------------------
Structures == [fs : BOOLEAN, object : Objects \cup {Nothing}, id : 0 .. IdSpace - 1,
               write : BOOLEAN, modified : BOOLEAN, cltbl : {"none", "static", "dynamic"}]

\* The tables, handles and maps hold what their C types allow; a file opened for writing
\* has no link map, which its next write would make wrong.
TypeOK ==
    /\ volume \in [mounted : BOOLEAN, mount : 0 .. MaxMounts]
    /\ \A k \in Kinds : table[k] \in [Slots(k) -> Structures]
    /\ \A i \in Slots("file") : table["file"][i].write => table["file"][i].cltbl = "none"
    /\ dynamic \subseteq Slots("file")
    /\ \A h \in Handles : fd[h] = Closed \/ (fd[h].slot \in Slots(fd[h].kind) /\ fd[h].object \in Objects)
    /\ ret \in {"OK", "error", "EMFILE", "ENOENT"}

\* I/O through a handle reaches the file it was opened for, on the volume it was opened
\* on: after the volume is gone, and after another one came in its place, it fails.
OwnFile ==
    \A h \in Handles : fd[h] # Closed /\ validate(Of(h)) => Reached(h) = fd[h].object

\* An open handle has its structure for itself, with the file it was opened for in it,
\* even when the volume of that file is gone.
OneHolder ==
    \A h \in Handles : fd[h] # Closed =>
        /\ Of(h).fs /\ Of(h).object = fd[h].object
        /\ \A g \in Handles \ {h} : Holds(g, fd[h].kind) => fd[g].slot # fd[h].slot

Holders(k, i) == {h \in Handles : Holds(h, k) /\ fd[h].slot = i}

\* An allocated link map is used by the open file it was made for, and no open file uses
\* one that was freed: fs_close frees it even when the file cannot be closed.
MapsOwned ==
    \A i \in Slots("file") :
        i \in dynamic <=> Holders("file", i) # {} /\ table["file"][i].cltbl = "dynamic"

\* A structure that is taken and has no handle was given up by a close that failed: its
\* volume is gone or it could not be written.  No other path loses one, so a caller
\* that gets EMFILE has the others open.
SlotsAccounted ==
    \A k \in Kinds : \A i \in Slots(k) :
        LET s == table[k][i] IN
        s.fs /\ Holders(k, i) = {} => ~validate(s) \/ s.modified
=============================================================================
