-------------------------------- MODULE Bdm --------------------------------
(***************************************************************************)
(* The Block Device Manager of usbd.irx: the mount table and its thread   *)
(* (bdm_bdm.c), the MBR and GPT partition drivers (bdm_part_driver*.c)    *)
(* and the mounting half of the FatFs driver (bdmfs_fs_driver.c), with    *)
(* the threads that call into them:                                       *)
(*   - the USB threads and the mx4sio module connect and disconnect       *)
(*     devices, above the priority of bdm_thread;                         *)
(*   - the start code of bdmhdd.irx sets the ata filter, then connects    *)
(*     the disk;                                                          *)
(*   - a client does file I/O on mass0 under _fs_lock.                    *)
(***************************************************************************)
EXTENDS Naturals, Sequences

CONSTANTS
    Devices,          \* physical block devices
    Name,             \* driver name of each device: "usb", "ata" or "sdc"
    Scheme,           \* of each device: "MBR", "GPT" or "none"
    Table,            \* per device, the usable partition numbers in each
                      \* sector of its partition table
    Fat,              \* volumes <<device, partition>> that f_mount accepts
    Pops,             \* volumes with a POPS directory
    Ready,            \* volumes with the launch target (VCD or PAK file)
    MAX_CONNECTIONS,
    MAX_PARTITIONS,
    MaxPlugs,         \* bound: how often devices are connected
    Faults            \* what may go wrong: "memory" (an allocation fails),
                      \* "read" (the first read of a probe fails), "table" (a
                      \* later sector of a GPT cannot be read), "unplug" (a
                      \* device vanishes while bdm_thread probes it)

ASSUME BdmAssumption ==
    /\ MAX_CONNECTIONS \in Nat \ {0} /\ MAX_PARTITIONS \in Nat /\ MaxPlugs \in Nat
    /\ Name \in [Devices -> {"usb", "ata", "sdc"}]
    /\ Scheme \in [Devices -> {"MBR", "GPT", "none"}]
    /\ Table \in [Devices -> Seq(Seq(Nat \ {0}))]
    /\ Faults \subseteq {"memory", "read", "table", "unplug"}

VARIABLES
    g_mount,      \* the mount table
    g_part,       \* the device each pseudo device lies on
    partVolume,   \* g_part_bd: the volume each pseudo device stands for
    caches,       \* devices whose cache is allocated
    g_fs,         \* file systems in the order they were connected
    g_ata_only,
    event,        \* bdm_event
    filterEvent,  \* bdm_filter_event
    mass0,        \* fs_driver_mount_info[0] and g_popstarter_mount_state
    lock,         \* _fs_lock
    thread,       \* bdm_thread
    connected,    \* devices that their drivers have announced
    inserting,    \* handle that passed the filter of bdm_connect_bd
    setter,       \* start code of bdmhdd.irx
    registrar,    \* a caller of bdm_RegisterCallback
    told,         \* has the callback been told of a mount?
    client,       \* device a client's file I/O runs on
    plugs         \* connections so far

tables == <<g_mount, g_part, partVolume, caches>>
flags == <<event, filterEvent>>
fatfs == <<mass0, lock>>
callers == <<g_fs, g_ata_only, connected, inserting, setter, registrar, client, plugs>>
vars == <<tables, flags, fatfs, callers, thread, told>>

Slots == 1 .. MAX_CONNECTIONS
Partitions == 1 .. MAX_PARTITIONS

\* struct block_device pointers: a device, its cache, a pseudo device
NULL == <<"null", 0>>
Raw(d) == <<"raw", d>>
Cache(d) == <<"cache", d>>
Pseudo(p) == <<"pseudo", p>>
Handles == {NULL} \cup {Raw(d) : d \in Devices} \cup {Cache(d) : d \in Devices}
           \cup {Pseudo(p) : p \in Partitions}

FileSystems == <<"MBR", "GPT", "fatfs">>
PartitionDrivers == {"MBR", "GPT"}
Empty == [bd |-> NULL, cbd |-> NULL, fs |-> "none"]
Unmounted == [bd |-> NULL, state |-> "UNSELECTED"]
Idle == [pc |-> "wait", bits |-> {}, slot |-> 1, fs |-> 1, arg |-> NULL,
         sector |-> 1, entry |-> 1, found |-> FALSE]

\* volume, name and parNr of a handle, as its driver filled them in
VolumeOf(h) == IF h[1] = "pseudo" THEN partVolume[h[2]] ELSE <<h[2], 0>>
DeviceOf(h) == VolumeOf(h)[1]
IsAta(h) == Name[DeviceOf(h)] = "ata"
IsWhole(h) == h[1] # "pseudo"

g_cb == registrar # "idle"

\* what the file systems are given: the cached device where there is one
Target(m) == IF m.cbd # NULL THEN m.cbd ELSE m.bd

\* Threads above bdm_thread (priority 0x30) run until they block.  Inside
\* bdm_connect_bd they do not block, so bdm_thread waits.
BdmMayRun == inserting = NULL

At(pc) == thread.pc = pc /\ BdmMayRun

-----------------------------------------------------------------------------
(* bdm_connect_bd and bdm_disconnect_bd *)

FilteredUsb(n) == g_ata_only /\ n = "usb"

\* the filter at the top of bdm_connect_bd, for a device of driver n
Filtered(n) == g_ata_only /\ n # "ata"

\* the element a loop from index 1 on finds first
IsFirst(i, S) == i \in S /\ \A j \in S : i <= j

FreeSlots == {i \in Slots : g_mount[i].bd = NULL}

\* the search for a slot: whole devices get a cache if memory allows; a full
\* table drops the device
Insert(h) ==
    \/ /\ \E i \in FreeSlots :
          /\ IsFirst(i, FreeSlots)
          /\ \/ /\ IsWhole(h)
                /\ g_mount' = [g_mount EXCEPT ![i].bd = h, ![i].cbd = Cache(h[2])]
                /\ caches' = caches \cup {h[2]}
             \/ /\ IsWhole(h) => "memory" \in Faults
                /\ g_mount' = [g_mount EXCEPT ![i].bd = h, ![i].cbd = NULL]
                /\ UNCHANGED caches
       /\ event' = event \cup {"MOUNT"}
    \/ /\ FreeSlots = {}
       /\ UNCHANGED <<g_mount, caches, event>>

\* part_disconnect: the pseudo devices on the device of slot i
Children(i) ==
    {p \in Partitions : /\ g_mount[i].fs \in PartitionDrivers
                        /\ g_part[p] = Target(g_mount[i])}

\* the slots that disconnecting h clears: its own and its partitions'
SlotsOf(h) == {i \in Slots : g_mount[i].bd = h}
PartitionsOn(h) == UNION {Children(i) : i \in SlotsOf(h)}
Cleared(h) ==
    SlotsOf(h) \cup {i \in Slots : \E p \in PartitionsOn(h) : g_mount[i].bd = Pseudo(p)}

\* mutant: unmounts without _fs_lock
FatfsDisconnectUnlocked(slots) ==
    mass0' = IF \E i \in slots : g_mount[i].fs = "fatfs" /\ mass0.bd = Target(g_mount[i])
             THEN Unmounted ELSE mass0

\* disconnect_bd of the FatFs driver for the slots it is mounted on; it takes
\* _fs_lock
FatfsDisconnect(slots) ==
    LET mine == {i \in slots : g_mount[i].fs = "fatfs"} IN
    /\ mine # {} => lock = "free"
    /\ mass0' = IF \E i \in mine : mass0.bd = Target(g_mount[i]) THEN Unmounted ELSE mass0

\* mutant: part_disconnect does not free the pseudo devices
DisconnectKeepsPart(h) ==
    /\ FatfsDisconnect(Cleared(h))
    /\ g_mount' = [i \in Slots |-> IF i \in Cleared(h) THEN Empty ELSE g_mount[i]]
    /\ caches' = {d \in caches : \A i \in Cleared(h) : g_mount[i].cbd # Cache(d)}
    /\ event' = IF g_cb /\ Cleared(h) # {} THEN event \cup {"CB_UMOUNT"} ELSE event
    /\ UNCHANGED g_part

Disconnect(h) ==
    /\ FatfsDisconnect(Cleared(h))
    /\ g_mount' = [i \in Slots |-> IF i \in Cleared(h) THEN Empty ELSE g_mount[i]]
    /\ g_part' = [p \in Partitions |-> IF p \in PartitionsOn(h) THEN NULL ELSE g_part[p]]
    /\ caches' = {d \in caches : \A i \in Cleared(h) : g_mount[i].cbd # Cache(d)}
    /\ event' = IF g_cb /\ Cleared(h) # {} THEN event \cup {"CB_UMOUNT"} ELSE event

-----------------------------------------------------------------------------
(* Drivers, start code and clients *)

\* bdm_connect_fs, called three times before any device driver is loaded
ConnectFs ==
    /\ Len(g_fs) < Len(FileSystems)
    /\ g_fs' = Append(g_fs, FileSystems[Len(g_fs) + 1])
    /\ event' = event \cup {"MOUNT"}
    /\ UNCHANGED <<tables, fatfs, filterEvent, g_ata_only, thread, connected, inserting,
                   setter, registrar, told, client, plugs>>

Started == Len(g_fs) = Len(FileSystems)

\* a driver announces d: the filter of bdm_connect_bd ...
ConnectCheck(d) ==
    /\ Started /\ d \notin connected /\ plugs < MaxPlugs /\ inserting = NULL
    /\ Name[d] = "ata" => setter = "done"
    /\ connected' = connected \cup {d}
    /\ plugs' = plugs + 1
    /\ inserting' = IF Filtered(Name[d]) THEN NULL ELSE Raw(d)
    /\ UNCHANGED <<tables, flags, fatfs, g_fs, g_ata_only, thread, setter, registrar, told, client>>

\* ... and the search for a slot
ConnectInsert ==
    /\ inserting # NULL
    /\ Insert(inserting)
    /\ inserting' = NULL
    /\ UNCHANGED <<fatfs, g_part, partVolume, filterEvent, g_fs, g_ata_only, thread, connected,
                   setter, registrar, told, client, plugs>>

\* is bdm_thread inside bdm_try_mount of a volume of d?
Probing(d) ==
    /\ thread.pc \notin {"wait", "filter", "mount", "callback"}
    /\ d \in {DeviceOf(g_mount[thread.slot].bd), DeviceOf(thread.arg)}

\* a USB or SD device goes away; the fixed disk stays
Unplug(d) ==
    /\ d \in connected /\ Name[d] # "ata" /\ inserting = NULL
    /\ Probing(d) => "unplug" \in Faults
    /\ Disconnect(Raw(d))
    /\ connected' = connected \ {d}
    /\ UNCHANGED <<partVolume, lock, filterEvent, g_fs, g_ata_only, thread, inserting,
                   setter, registrar, told, client, plugs>>

\* bdm_set_ata_only(1) sets the flag ...
SetAtaOnly ==
    /\ Started /\ setter = "idle"
    /\ g_ata_only' = TRUE
    /\ setter' = "set"
    /\ UNCHANGED <<tables, flags, fatfs, g_fs, thread, connected, inserting, registrar, told,
                   client, plugs>>

\* ... raises the filter event ...
SetAtaOnlyRaises ==
    /\ setter = "set"
    /\ event' = event \cup {"FILTER"}
    /\ setter' = "waiting"
    /\ UNCHANGED <<tables, fatfs, filterEvent, g_fs, g_ata_only, thread, connected, inserting,
                   registrar, told, client, plugs>>

\* ... and waits for bdm_thread to answer
SetAtaOnlyReturns ==
    /\ setter = "waiting" /\ filterEvent
    /\ filterEvent' = FALSE
    /\ setter' = "done"
    /\ UNCHANGED <<tables, fatfs, event, g_fs, g_ata_only, thread, connected, inserting,
                   registrar, told, client, plugs>>

\* bdm_RegisterCallback stores the callback ...
RegisterCallback ==
    /\ registrar = "idle"
    /\ registrar' = "stored"
    /\ UNCHANGED <<tables, flags, fatfs, g_fs, g_ata_only, thread, connected, inserting,
                   setter, told, client, plugs>>

\* mutant: what is mounted already is forgotten
RegisterScanForgets ==
    /\ registrar = "stored"
    /\ registrar' = "done"
    /\ UNCHANGED <<tables, flags, fatfs, g_fs, g_ata_only, thread, connected, inserting,
                   setter, told, client, plugs>>

\* ... and then looks for what is mounted already
RegisterScan ==
    /\ registrar = "stored"
    /\ registrar' = "done"
    /\ event' = IF \E i \in Slots : g_mount[i].bd # NULL /\ g_mount[i].fs # "none"
                THEN event \cup {"CB_MOUNT"} ELSE event
    /\ UNCHANGED <<tables, fatfs, filterEvent, g_fs, g_ata_only, thread, connected, inserting,
                   setter, told, client, plugs>>

\* a file operation on mass0: takes _fs_lock, then does I/O
ClientStart ==
    /\ lock = "free" /\ mass0.bd # NULL
    /\ lock' = "client"
    /\ client' = mass0.bd
    /\ UNCHANGED <<tables, flags, mass0, g_fs, g_ata_only, thread, connected, inserting,
                   setter, registrar, told, plugs>>

ClientEnd ==
    /\ lock = "client"
    /\ lock' = "free"
    /\ client' = NULL
    /\ UNCHANGED <<tables, flags, mass0, g_fs, g_ata_only, thread, connected, inserting,
                   setter, registrar, told, plugs>>

\* devctl stop, under _fs_lock: mass0 is unmounted, the mount table not told
ClientStop ==
    /\ lock = "free" /\ mass0.bd # NULL
    /\ mass0' = Unmounted
    /\ UNCHANGED <<tables, flags, lock, callers, thread, told>>

-----------------------------------------------------------------------------
(* bdm_thread *)

Goto(pc) == thread' = [thread EXCEPT !.pc = pc]

\* WaitEventFlag with WEF_CLEAR
BdmWait ==
    /\ At("wait") /\ event # {}
    /\ thread' = [thread EXCEPT !.pc = "filter", !.bits = event, !.slot = 1]
    /\ event' = {}
    /\ UNCHANGED <<tables, fatfs, callers, filterEvent, told>>

Filtering == "FILTER" \in thread.bits /\ g_ata_only

\* mutant: partitions are left to their device
BdmFilterSlotWhole ==
    /\ At("filter") /\ Filtering /\ thread.slot \in Slots
    /\ LET h == g_mount[thread.slot].bd IN
       IF h # NULL /\ IsWhole(h) /\ ~IsAta(h)
       THEN Disconnect(h)
       ELSE UNCHANGED <<g_mount, g_part, caches, event, mass0>>
    /\ thread' = [thread EXCEPT !.slot = @ + 1]
    /\ UNCHANGED <<callers, partVolume, lock, filterEvent, told>>

\* the filter loop disconnects what is not ata, slot by slot ...
BdmFilterSlot ==
    /\ At("filter") /\ Filtering /\ thread.slot \in Slots
    /\ LET h == g_mount[thread.slot].bd IN
       IF h # NULL /\ ~IsAta(h)
       THEN Disconnect(h)
       ELSE UNCHANGED <<g_mount, g_part, caches, event, mass0>>
    /\ thread' = [thread EXCEPT !.slot = @ + 1]
    /\ UNCHANGED <<callers, partVolume, lock, filterEvent, told>>

\* ... and then releases bdm_set_ata_only
BdmFilterDone ==
    /\ At("filter") /\ (Filtering => thread.slot \notin Slots)
    /\ filterEvent' = (filterEvent \/ "FILTER" \in thread.bits)
    /\ thread' = [thread EXCEPT !.pc = "mount", !.slot = 1]
    /\ UNCHANGED <<tables, fatfs, callers, event, told>>

\* the mount loop tries every slot with a device and no file system
BdmMountSlot ==
    /\ At("mount") /\ "MOUNT" \in thread.bits /\ thread.slot \in Slots
    /\ thread' = IF g_mount[thread.slot].bd # NULL /\ g_mount[thread.slot].fs = "none"
                 THEN [thread EXCEPT !.pc = "probe", !.fs = 1]
                 ELSE [thread EXCEPT !.slot = @ + 1]
    /\ UNCHANGED <<tables, flags, fatfs, callers, told>>

BdmMountDone ==
    /\ At("mount") /\ ("MOUNT" \in thread.bits => thread.slot \notin Slots)
    /\ Goto("callback")
    /\ UNCHANGED <<tables, flags, fatfs, callers, told>>

\* g_cb(1) and g_cb(0)
BdmCallback ==
    /\ At("callback")
    /\ told' = (told \/ (g_cb /\ "CB_MOUNT" \in thread.bits))
    /\ thread' = Idle
    /\ UNCHANGED <<tables, flags, fatfs, callers>>

\* bdm_try_mount: connect_bd failed, so the next file system or slot follows
Reject ==
    /\ thread' = IF thread.fs < Len(g_fs)
                 THEN [thread EXCEPT !.pc = "probe", !.fs = @ + 1, !.arg = NULL]
                 ELSE [thread EXCEPT !.pc = "mount", !.slot = @ + 1, !.arg = NULL]
    /\ UNCHANGED g_mount

\* bdm_try_mount: connect_bd returned 0
Accept ==
    /\ g_mount' = [g_mount EXCEPT ![thread.slot].fs = g_fs[thread.fs]]
    /\ thread' = [thread EXCEPT !.pc = "notify", !.arg = NULL]

BdmNotify ==
    /\ At("notify")
    /\ event' = IF g_cb THEN event \cup {"CB_MOUNT"} ELSE event
    /\ thread' = [thread EXCEPT !.pc = "mount", !.slot = @ + 1]
    /\ UNCHANGED <<tables, fatfs, callers, filterEvent, told>>

\* bdm_try_mount calls connect_bd.  The partition drivers leave partitions
\* alone and need a buffer; FatFs leaves whole ata disks to them.  A device
\* that has vanished leaves a NULL pointer behind, whose fields are whatever
\* lies at address 0.
BdmProbe ==
    /\ At("probe")
    /\ LET h == Target(g_mount[thread.slot])
           driver == g_fs[thread.fs]
       IN \/ /\ h # NULL
             /\ driver = "fatfs" => ~(IsWhole(h) /\ IsAta(h))
             /\ driver # "fatfs" => IsWhole(h)
             /\ thread' = [thread EXCEPT !.pc = IF driver = "fatfs" THEN "fatfs" ELSE "header",
                                         !.arg = h, !.sector = 1, !.entry = 1, !.found = FALSE]
             /\ UNCHANGED g_mount
          \/ /\ \/ h = NULL
                \/ driver = "fatfs" /\ h # NULL /\ IsWhole(h) /\ IsAta(h)
                \/ driver # "fatfs" /\ ("memory" \in Faults \/ ~IsWhole(h))
             /\ Reject
          \/ h = NULL /\ driver # "fatfs" /\ Goto("crashed") /\ UNCHANGED g_mount
    /\ UNCHANGED <<g_part, partVolume, caches, flags, fatfs, callers, told>>

-----------------------------------------------------------------------------
(* part_connect_mbr and part_connect_gpt, inside bdm_thread *)

\* the partition table of the device being probed
Sectors == Table[DeviceOf(thread.arg)]

\* sector 0 carries the boot signature and no protective MBR
MbrSigned(d) == Scheme[d] = "MBR"

\* sector 1 carries the EFI signature
GptSigned(d) == Scheme[d] = "GPT"

\* the MBR, or the GPT header: unreadable, of another scheme, or good
PartHeader ==
    /\ At("header")
    /\ LET d == DeviceOf(thread.arg)
           mine == IF g_fs[thread.fs] = "MBR" THEN MbrSigned(d) ELSE GptSigned(d)
       IN
       \/ mine /\ Goto("table") /\ UNCHANGED g_mount
       \/ (~mine \/ "read" \in Faults) /\ Reject
    /\ UNCHANGED <<g_part, partVolume, caches, flags, fatfs, callers, told>>

\* the GPT driver reads the next sector of the table.  If that fails it
\* returns -1 and leaves the partitions it has connected so far.
PartTable ==
    /\ At("table") /\ thread.sector <= Len(Sectors)
    /\ \/ Goto("entries") /\ UNCHANGED g_mount
       \/ "table" \in Faults /\ g_fs[thread.fs] = "GPT" /\ Reject
    /\ UNCHANGED <<g_part, partVolume, caches, flags, fatfs, callers, told>>

FreePartitions == {p \in Partitions : g_part[p] = NULL}

\* one usable entry: the first free pseudo device is set up and connected
PartEntry ==
    /\ At("entries") /\ thread.entry <= Len(Sectors[thread.sector])
    /\ \/ \E p \in FreePartitions :
             /\ IsFirst(p, FreePartitions)
             /\ g_part' = [g_part EXCEPT ![p] = thread.arg]
             /\ partVolume' = [partVolume EXCEPT
                   ![p] = <<DeviceOf(thread.arg), Sectors[thread.sector][thread.entry]>>]
             /\ IF Filtered(Name[DeviceOf(thread.arg)])
                THEN UNCHANGED <<g_mount, caches, event>>
                ELSE Insert(Pseudo(p))
             /\ thread' = [thread EXCEPT !.entry = @ + 1, !.found = TRUE]
       \/ /\ FreePartitions = {}
          /\ thread' = [thread EXCEPT !.entry = @ + 1]
          /\ UNCHANGED <<tables, event>>
    /\ UNCHANGED <<fatfs, callers, filterEvent, told>>

PartNextSector ==
    /\ At("entries") /\ thread.entry > Len(Sectors[thread.sector])
    /\ thread' = [thread EXCEPT !.pc = "table", !.sector = @ + 1, !.entry = 1]
    /\ UNCHANGED <<tables, flags, fatfs, callers, told>>

\* success if at least one partition was connected
PartDone ==
    /\ At("table") /\ thread.sector > Len(Sectors)
    /\ IF thread.found THEN Accept ELSE Reject
    /\ UNCHANGED <<g_part, partVolume, caches, flags, fatfs, callers, told>>

-----------------------------------------------------------------------------
(* connect_bd of the FatFs driver, inside bdm_thread *)

FatfsLock ==
    /\ At("fatfs") /\ lock = "free"
    /\ \/ /\ mass0.bd = NULL
          /\ lock' = "bdm"
          /\ mass0' = [bd |-> thread.arg, state |-> "UNSELECTED"]
          /\ Goto("f_mount")
          /\ UNCHANGED g_mount
       \/ /\ mass0.bd # NULL
          /\ Reject
          /\ UNCHANGED fatfs
    /\ UNCHANGED <<g_part, partVolume, caches, flags, callers, told>>

\* f_mount and the search for the POPS directory
FatfsMount ==
    /\ At("f_mount")
    /\ LET pops == VolumeOf(thread.arg) \in Fat \cap Pops IN
       \/ /\ pops
          /\ mass0' = [mass0 EXCEPT !.state = "VOLUME_LOCKED"]
          /\ Goto("vcd")
          /\ UNCHANGED <<g_mount, lock>>
       \/ /\ ~pops \/ "read" \in Faults
          /\ mass0' = Unmounted
          /\ lock' = "free"
          /\ Reject
    /\ UNCHANGED <<g_part, partVolume, caches, flags, callers, told>>

\* mutant: an error of f_stat ends the wait
FatfsFoundOnError ==
    /\ At("vcd")
    /\ mass0' = [mass0 EXCEPT !.state = "VCD_READY"]
    /\ lock' = "free"
    /\ Accept
    /\ UNCHANGED <<g_part, partVolume, caches, flags, callers, told>>

\* mutant: the good path leaves _fs_lock taken
FatfsFoundKeepsLock ==
    /\ At("vcd") /\ VolumeOf(thread.arg) \in Ready
    /\ mass0' = [mass0 EXCEPT !.state = "VCD_READY"]
    /\ Accept
    /\ UNCHANGED <<g_part, partVolume, caches, flags, lock, callers, told>>

\* the target file is found; until then the thread sleeps and polls
FatfsFound ==
    /\ At("vcd") /\ VolumeOf(thread.arg) \in Ready
    /\ mass0' = [mass0 EXCEPT !.state = "VCD_READY"]
    /\ lock' = "free"
    /\ Accept
    /\ UNCHANGED <<g_part, partVolume, caches, flags, callers, told>>

-----------------------------------------------------------------------------
\* bdm_init and part_init
Init ==
    /\ g_mount = [i \in Slots |-> Empty]
    /\ g_part = [p \in Partitions |-> NULL]
    /\ partVolume = [p \in Partitions |-> <<0, 0>>]
    /\ caches = {} /\ connected = {} /\ event = {}
    /\ g_fs = <<>>
    /\ g_ata_only = FALSE /\ filterEvent = FALSE /\ told = FALSE
    /\ mass0 = Unmounted
    /\ lock = "free" /\ setter = "idle" /\ registrar = "idle"
    /\ thread = Idle
    /\ inserting = NULL /\ client = NULL
    /\ plugs = 0

BdmThread ==
    \/ BdmWait \/ BdmFilterSlot \/ BdmFilterDone \/ BdmMountSlot \/ BdmMountDone
    \/ BdmCallback \/ BdmProbe \/ BdmNotify
    \/ PartHeader \/ PartTable \/ PartEntry \/ PartNextSector \/ PartDone
    \/ FatfsLock \/ FatfsMount \/ FatfsFound

StartCode == ConnectFs \/ SetAtaOnly \/ SetAtaOnlyRaises \/ SetAtaOnlyReturns
Users == RegisterCallback \/ RegisterScan \/ ClientStart \/ ClientEnd \/ ClientStop

Next ==
    \/ BdmThread
    \/ StartCode
    \/ Users
    \/ ConnectInsert
    \/ \E d \in Devices : ConnectCheck(d) \/ Unplug(d)

Spec == Init /\ [][Next]_vars

\* The threads above bdm_thread finish what they began, and leave bdm_thread
\* time to run; a client's I/O ends.
Fairness ==
    /\ WF_vars(BdmThread) /\ SF_vars(BdmFilterSlot) /\ SF_vars(FatfsLock)
    /\ WF_vars(ConnectFs) /\ WF_vars(ConnectInsert)
    /\ WF_vars(SetAtaOnlyRaises) /\ WF_vars(SetAtaOnlyReturns) /\ WF_vars(ClientEnd)

FairSpec == Spec /\ Fairness

-----------------------------------------------------------------------------
(* Properties *)

Pcs == {"wait", "filter", "mount", "callback", "probe", "notify", "header", "table",
        "entries", "fatfs", "f_mount", "vcd", "crashed"}
Bits == {"MOUNT", "FILTER", "CB_MOUNT", "CB_UMOUNT"}
States == {"UNSELECTED", "VOLUME_LOCKED", "VCD_READY"}
Volumes == (Devices \cup {0}) \X Nat

FsNames == {"none", "MBR", "GPT", "fatfs"}
Rows == [bd : Handles, cbd : Handles, fs : FsNames]
Mass == [bd : Handles, state : States]
Threads == [pc : Pcs, bits : SUBSET Bits, slot : 1 .. MAX_CONNECTIONS + 1, fs : 1 .. 3,
            arg : Handles, sector : Nat \ {0}, entry : Nat \ {0}, found : BOOLEAN]

TypeOK ==
    /\ g_mount \in [Slots -> Rows]
    /\ g_part \in [Partitions -> Handles]
    /\ partVolume \in [Partitions -> Volumes]
    /\ caches \subseteq Devices /\ connected \subseteq Devices
    /\ g_fs \in Seq(FsNames) /\ Len(g_fs) <= Len(FileSystems)
    /\ event \subseteq Bits /\ filterEvent \in BOOLEAN
    /\ g_ata_only \in BOOLEAN /\ told \in BOOLEAN
    /\ mass0 \in Mass
    /\ lock \in {"free", "bdm", "client"}
    /\ thread \in Threads
    /\ inserting \in Handles /\ client \in Handles
    /\ setter \in {"idle", "set", "waiting", "done"} /\ registrar \in {"idle", "stored", "done"}
    /\ plugs \in 0 .. MaxPlugs

\* a handle whose memory and device are still there
LiveDevice(h) == h[1] \in {"raw", "cache"} /\ h[2] \in connected
                 /\ (h[1] = "cache" => h[2] \in caches)
Live(h) == LiveDevice(h) \/ (h[1] = "pseudo" /\ LiveDevice(g_part[h[2]]))

InConnectBd == {"header", "table", "entries", "fatfs", "f_mount", "vcd"}

\* Neither bdm_thread inside a connect_bd nor a client inside a file operation
\* reads through a device that has been disconnected or a cache that has been
\* freed: bdm_disconnect_bd unmounts, waiting for _fs_lock, before it calls
\* bd_cache_destroy (bdm_bdm.c:99-109).
NoDanglingIO ==
    /\ thread.pc \in InConnectBd => Live(thread.arg)
    /\ client # NULL => Live(client)

\* The mount table, the caches and the pseudo devices agree: no device is
\* in two slots, a file system is only recorded with a device, every
\* allocated cache belongs to the slot of its device (none is leaked or freed
\* twice), and every pseudo device in use lies on a device whose slot is held
\* by a partition driver, or is being read by it right now, so that
\* part_disconnect will find it.
TablesAgree ==
    /\ \A i \in Slots : g_mount[i].fs # "none" => g_mount[i].bd # NULL
    /\ \A i, j \in Slots : g_mount[i].bd = g_mount[j].bd => i = j \/ g_mount[i].bd = NULL
    /\ \A i \in Slots : g_mount[i].cbd # NULL =>
          \E d \in caches : g_mount[i].bd = Raw(d) /\ g_mount[i].cbd = Cache(d)
    /\ \A d \in caches : \E i \in Slots : g_mount[i].cbd = Cache(d)
    /\ \A p \in Partitions : g_part[p] # NULL =>
          \E i \in Slots :
             /\ g_part[p] = Target(g_mount[i])
             /\ \/ g_mount[i].fs \in PartitionDrivers
                \/ thread.pc \in InConnectBd /\ thread.slot = i /\ thread.arg = g_part[p]

\* mass0 always belongs to a slot that FatFs accepted (or that bdm_thread is
\* about to accept), and when POPStarter is told to go on, the volume behind
\* mass0 holds the POPS directory and the target file: no FatFs error releases
\* it early (bdmfs_fs_driver.c:294) and no reuse of a slot or pseudo device
\* changes the volume under it.
Mass0IsTarget ==
    mass0.bd # NULL =>
       /\ \/ lock = "bdm" /\ thread.arg = mass0.bd
          \/ \E i \in Slots : g_mount[i].fs = "fatfs" /\ Target(g_mount[i]) = mass0.bd
       /\ mass0.state = "VCD_READY" => VolumeOf(mass0.bd) \in Pops \cap Ready

\* Once bdm_set_ata_only(1) has returned, only ata devices are in the mount
\* table, and none enters it later (bdm.h:66): a USB device that passed the
\* check of bdm_connect_bd before the flag was set is inserted before
\* bdm_thread filters, because its thread has the higher priority.
AtaOnly ==
    setter = "done" => \A i \in Slots : g_mount[i].bd # NULL => IsAta(g_mount[i].bd)

\* No wake-up is lost: when bdm_thread sleeps and no mount is pending, every
\* partitioned device in the table has been taken by its partition driver,
\* although devices are connected while the mount loop runs.
IdleMeansProbed ==
    (thread.pc = "wait" /\ "MOUNT" \notin event /\ inserting = NULL) =>
       \A i \in Slots, d \in Devices :
          (g_mount[i].bd = Raw(d) /\ \E k \in DOMAIN Table[d] : Table[d][k] # <<>>)
          => g_mount[i].fs = Scheme[d]

\* A callback registered while bdm_thread mounts is not missed: when all is
\* quiet and something is mounted, the callback has been told of a mount.
CallbackTold ==
    (/\ registrar = "done" /\ thread.pc = "wait" /\ event = {}
     /\ \E i \in Slots : g_mount[i].bd # NULL /\ g_mount[i].fs # "none")
    => told

\* bdm_set_ata_only returns.
FilterReturns == setter = "set" ~> setter = "done"

\* The start code of bdmhdd.irx gets its answer: once a disk with a complete
\* POPS volume is connected and not mounted yet, bdm_is_fatfs_ready("ata")
\* becomes true, whatever devices held mass0 before.
FatfsOnAta(i) == g_mount[i].fs = "fatfs" /\ IsAta(g_mount[i].bd)

HddReady ==
    (/\ \E d \in connected : Name[d] = "ata"
     /\ \A i \in Slots : ~FatfsOnAta(i))
    ~> (mass0.state = "VCD_READY" /\ IsAta(mass0.bd))
=============================================================================
