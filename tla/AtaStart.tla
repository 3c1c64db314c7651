------------------------------ MODULE AtaStart ------------------------------
(***************************************************************************)
(* Starting the hard disk module (usbd_usbd.c, ps2dev9.c and ps2atad.c of  *)
(* the bdmhdd module): the DEV9 driver with its interrupt and exports, the *)
(* ATA driver with its first probe of the disks, and the loop that        *)
(* probes a slow disk again and holds the boot until the file system       *)
(* is mounted.  The thread of the manager mounts a disk as soon as it is   *)
(* connected, while the start goes on.                                     *)
(***************************************************************************)
EXTENDS Naturals, Sequences, FiniteSets

CONSTANTS
    FirstKinds, SecondKinds,  \* what may be device 0 and device 1 of the bus: "none", "disk",
                              \* "packet" (a packet device), "other" (not known to the driver)
    Faults,      \* "hardware" (no adaptor or no disk interface), "memory" (no semaphore or event
                 \* flag), "table" (a module, library or device of that name is there already),
                 \* "bus" (a wait for the bus or a command fails)
    MaxFaults    \* bound: failures of the bus

Devices == {0, 1}

VARIABLES
    kind,       \* what the devices are
    spun,       \* is the device ready?
    pc,         \* where the start is
    back,       \* where sceAtaInit returns to
    i,          \* the device that ata_init_devices looks at
    devinfo,    \* atad_devinfo
    locked,     \* ata_devinfo_init
    connected,  \* how often bdm_connect_bd was called
    wait,       \* ata_detected, ready_samples and probe_waited, in tenths of a second
    hooks,      \* what points into the module: interrupt handlers, exports, a device
    result,     \* what _start returned
    mount,      \* what the thread of the manager does with each device
    inCommand,  \* the threads between sceAtaExecCmd and the end of sceAtaWaitResult
    faults      \* failures of the bus so far

probing == <<i, devinfo, locked, connected>>
others == <<kind, spun, mount>>
vars == <<kind, spun, pc, back, i, devinfo, locked, connected, wait, hooks, result, mount, inCommand, faults>>

Unknown == [exists |-> FALSE, packet |-> "no"]
NoDevices == [d \in Devices |-> Unknown]

Init ==
    /\ kind \in {k \in [Devices -> FirstKinds \cup SecondKinds] : k[0] \in FirstKinds /\ k[1] \in SecondKinds}
    /\ spun = [d \in Devices |-> FALSE]
    /\ pc = "dev9" /\ back = "none" /\ i = 0
    /\ devinfo = NoDevices /\ locked = FALSE /\ connected = [d \in Devices |-> 0]
    /\ wait = [detected |-> FALSE, samples |-> 0, waited |-> 5]
    /\ hooks = {} /\ result = "none"
    /\ mount = [d \in Devices |-> "none"]
    /\ inCommand = {} /\ faults = 0

-----------------------------------------------------------------------------
(* _start: the DEV9 driver and the ATA driver *)

Leave(r) == result' = r /\ pc' = "end"

\* the hardware and the semaphore, before anything is registered
Dev9Starts ==
    /\ pc = "dev9"
    /\ \/ Faults \cap {"hardware", "memory"} # {} /\ Leave("unloaded") /\ UNCHANGED hooks
       \/ pc' = "export" /\ hooks' = {"interrupt"} /\ UNCHANGED result
    /\ UNCHANGED <<back, probing, wait, inCommand, faults, others>>

\* the exports, and the device dev9x
Dev9Registers ==
    /\ pc = "export"
    /\ \/ "table" \in Faults /\ Leave("unloaded") /\ UNCHANGED hooks
       \/ "table" \in Faults /\ Leave("unloaded") /\ hooks' = hooks \cup {"exports"}
       \/ pc' = "atad" /\ hooks' = hooks \cup {"exports", "device"} /\ UNCHANGED result
    /\ UNCHANGED <<back, probing, wait, inCommand, faults, others>>

\* the ATA driver did not start: DEV9 is resident, so the module has to stay
AtadFails == Leave("resident")

AtadStarts ==
    /\ pc = "atad"
    /\ \/ Faults \cap {"hardware", "memory"} # {} /\ AtadFails /\ UNCHANGED <<hooks, back>>
       \/ "table" \in Faults /\ AtadFails /\ hooks' = hooks \cup {"ata"} /\ UNCHANGED back
       \/ pc' = "probe" /\ back' = "first" /\ hooks' = hooks \cup {"ata"} /\ UNCHANGED result
    /\ UNCHANGED <<probing, wait, inCommand, faults, others>>

-----------------------------------------------------------------------------
(* sceAtaInit and ata_init_devices *)

\* the time since the last probe, counted up to the retry interval
Waited(w) == IF w.waited < 5 THEN [w EXCEPT !.waited = @ + 2] ELSE w

\* the result of the first probe is not looked at
Probed(ok) ==
    /\ pc' = "loop"
    /\ wait' = CASE back = "first" -> wait
                 [] back # "first" /\ ok -> [wait EXCEPT !.detected = TRUE]
                 [] OTHER -> Waited(wait)

MayFail == "bus" \in Faults /\ faults < MaxFaults

\* a failure of the bus ends the probe
BusFails == MayFail /\ faults' = faults + 1 /\ devinfo' = NoDevices /\ Probed(FALSE)

sceAtaInit ==
    /\ pc = "probe"
    /\ IF locked THEN Probed(TRUE) /\ UNCHANGED devinfo
       ELSE pc' = "reset" /\ devinfo' = NoDevices /\ UNCHANGED wait
    /\ UNCHANGED <<back, i, locked, connected, hooks, result, inCommand, faults, others>>

\* ata_bus_reset and sceAtaSoftReset: a device that is not ready keeps the bus busy
Reset ==
    /\ pc = "reset"
    /\ \/ BusFails
       \/ /\ kind[0] # "none" /\ ~spun[0]
          /\ devinfo' = NoDevices /\ Probed(FALSE) /\ UNCHANGED faults
       \/ /\ kind[0] = "none" \/ spun[0]
          /\ pc' = "probe0" /\ UNCHANGED <<devinfo, wait, faults>>
    /\ UNCHANGED <<back, i, locked, connected, hooks, result, inCommand, others>>

\* ata_device_probe: what the registers of a device say
ata_device_probe(d) ==
    IF kind[d] = "none" \/ ~spun[d] THEN Unknown
    ELSE [exists |-> TRUE,
          packet |-> CASE kind[d] = "disk" -> "no" [] kind[d] = "packet" -> "yes" [] OTHER -> "unknown"]

\* without a device 0 there is no device 1
ProbeFirst ==
    /\ pc = "probe0"
    /\ LET found == ata_device_probe(0) IN
       IF found.exists
       THEN devinfo' = [devinfo EXCEPT ![0] = found] /\ pc' = "probe1" /\ UNCHANGED wait
       ELSE devinfo' = NoDevices /\ Probed(FALSE)
    /\ UNCHANGED <<back, i, locked, connected, hooks, result, inCommand, faults, others>>

\* ata_device_select(1) waits for the bus, which device 1 may keep busy
ProbeSecond ==
    /\ pc = "probe1"
    /\ \/ BusFails /\ UNCHANGED i
       \/ /\ devinfo' = [devinfo EXCEPT ![1] = ata_device_probe(1)]
          /\ pc' = "device" /\ i' = 0
          /\ UNCHANGED <<wait, faults>>
    /\ UNCHANGED <<back, locked, connected, hooks, result, inCommand, others>>

\* the next device; one that does not exist, and an unknown one, get no command
NextDevice ==
    /\ pc = "device" /\ i \in Devices
    /\ IF devinfo[i].exists /\ devinfo[i].packet # "unknown"
       THEN pc' = "identify" /\ inCommand' = inCommand \cup {"start"} /\ UNCHANGED i
       ELSE i' = i + 1 /\ UNCHANGED <<pc, inCommand>>
    /\ UNCHANGED <<back, devinfo, locked, connected, wait, hooks, result, faults, others>>

\* can the manager use the device?
Usable(info) == info.exists /\ info.packet = "no"

\* mutant: the manager gets the device before its mode is set
IdentifyConnects ==
    /\ pc = "identify"
    /\ inCommand' = inCommand \ {"start"}
    /\ \/ /\ MayFail /\ faults' = faults + 1
          /\ devinfo' = [devinfo EXCEPT ![i].exists = FALSE]
          /\ pc' = "device" /\ i' = i + 1 /\ UNCHANGED connected
       \/ /\ IF Usable(devinfo[i])
             THEN pc' = "modes" /\ connected' = [connected EXCEPT ![i] = @ + 1] /\ UNCHANGED i
             ELSE pc' = "device" /\ i' = i + 1 /\ UNCHANGED connected
          /\ UNCHANGED <<devinfo, faults>>
    /\ UNCHANGED <<back, locked, wait, hooks, result, others>>

\* IDENTIFY: a device that fails it does not exist
Identify ==
    /\ pc = "identify"
    /\ inCommand' = inCommand \ {"start"}
    /\ \/ /\ MayFail /\ faults' = faults + 1
          /\ devinfo' = [devinfo EXCEPT ![i].exists = FALSE]
          /\ pc' = "device" /\ i' = i + 1
       \/ /\ IF Usable(devinfo[i]) THEN pc' = "modes" /\ UNCHANGED i
                                   ELSE pc' = "device" /\ i' = i + 1
          /\ UNCHANGED <<devinfo, faults>>
    /\ UNCHANGED <<back, locked, connected, wait, hooks, result, others>>

\* transfer mode, SMART and the idle timer, whose results are not looked at
SetModes ==
    /\ pc = "modes" /\ "start" \notin inCommand
    /\ inCommand' = inCommand \cup {"start"}
    /\ UNCHANGED <<pc, back, probing, wait, hooks, result, faults, others>>

ModesSet ==
    /\ pc = "modes" /\ "start" \in inCommand
    /\ inCommand' = inCommand \ {"start"} /\ pc' = "connect"
    /\ UNCHANGED <<back, probing, wait, hooks, result, faults, others>>

Connect ==
    /\ pc = "connect"
    /\ connected' = [connected EXCEPT ![i] = @ + 1]
    /\ pc' = "device" /\ i' = i + 1
    /\ UNCHANGED <<back, devinfo, locked, wait, hooks, result, inCommand, faults, others>>

\* is there a disk that the manager can use?
Found == \E d \in Devices : Usable(devinfo[d])

InitDone ==
    /\ pc = "device" /\ i \notin Devices
    /\ Probed(Found) /\ i' = 0
    /\ IF Found THEN locked' = TRUE /\ UNCHANGED devinfo ELSE devinfo' = NoDevices /\ UNCHANGED locked
    /\ UNCHANGED <<back, connected, hooks, result, inCommand, faults, others>>

-----------------------------------------------------------------------------
(* bdm_hdd_wait_pops_on_mass0 *)

\* bdm_is_fatfs_ready("ata")
FatfsReady == \E d \in Devices : mount[d] = "mounted"

Ready ==
    /\ pc = "loop" /\ FatfsReady
    /\ Leave("resident")
    /\ UNCHANGED <<back, probing, wait, hooks, inCommand, faults, others>>

\* atad_get_probe_status of the selected device, which may be busy with a command
Samples == {spun[0] /\ kind[0] # "none"} \cup (IF inCommand # {} THEN {FALSE} ELSE {})

Sample ==
    /\ pc = "loop" /\ ~FatfsReady /\ ~wait.detected
    /\ \E ready \in Samples :
          LET n == IF ready THEN wait.samples + 1 ELSE 0 IN
          IF n >= 2 /\ wait.waited >= 5
          THEN /\ pc' = "probe" /\ back' = "retry"
               /\ wait' = [wait EXCEPT !.samples = 0, !.waited = 0]
          ELSE /\ wait' = Waited([wait EXCEPT !.samples = IF n > 2 THEN 2 ELSE n])
               /\ UNCHANGED <<pc, back>>
    /\ UNCHANGED <<probing, hooks, result, inCommand, faults, others>>

-----------------------------------------------------------------------------
(* The devices, and the thread of the manager *)

SpinUp(d) ==
    /\ kind[d] # "none" /\ ~spun[d]
    /\ spun' = [spun EXCEPT ![d] = TRUE]
    /\ UNCHANGED <<kind, pc, back, probing, wait, hooks, result, mount, inCommand, faults>>

\* a device that is connected is read ...
BdmReads(d) ==
    /\ connected[d] > 0 /\ mount[d] = "none" /\ "bdm" \notin inCommand
    /\ mount' = [mount EXCEPT ![d] = "reading"]
    /\ inCommand' = inCommand \cup {"bdm"}
    /\ UNCHANGED <<kind, spun, pc, back, probing, wait, hooks, result, faults>>

\* ... and has the file system, or it has not
BdmMounts(d) ==
    /\ mount[d] = "reading"
    /\ inCommand' = inCommand \ {"bdm"}
    /\ mount' \in {[mount EXCEPT ![d] = "mounted"], [mount EXCEPT ![d] = "empty"]}
    /\ UNCHANGED <<kind, spun, pc, back, probing, wait, hooks, result, faults>>

-----------------------------------------------------------------------------
Start ==
    \/ Dev9Starts \/ Dev9Registers \/ AtadStarts
    \/ sceAtaInit \/ Reset \/ ProbeFirst \/ ProbeSecond \/ NextDevice \/ Identify
    \/ SetModes \/ ModesSet \/ Connect \/ InitDone
    \/ Ready \/ Sample

Manager == \E d \in Devices : BdmReads(d) \/ BdmMounts(d)

Next == Start \/ Manager \/ \E d \in Devices : SpinUp(d)

Spec == Init /\ [][Next]_vars

\* both threads run, and every device is ready in the end
FairSpec == Spec /\ WF_vars(Start) /\ WF_vars(Manager) /\ \A d \in Devices : WF_vars(SpinUp(d))

-----------------------------------------------------------------------------
(* Properties *)

TypeOK ==
    /\ i \in 0 .. 2 /\ locked \in BOOLEAN /\ result \in {"none", "resident", "unloaded"}
    /\ \A d \in Devices : connected[d] \in Nat /\ devinfo[d].exists \in BOOLEAN
    /\ wait.detected \in BOOLEAN /\ wait.samples \in 0 .. 2 /\ wait.waited \in 0 .. 6
    /\ inCommand \subseteq {"start", "bdm"} /\ faults \in 0 .. MaxFaults

\* A module that is unloaded is not pointed to: no interrupt handler, export or
\* device of DEV9 and the ATA driver stays behind.
HooksStay == result = "unloaded" => hooks = {}

\* However often the disks are probed, a disk is connected to the manager once,
\* and only a disk is connected (bdm_connect_bd in ata_init_devices).
ConnectedOnce == \A d \in Devices : connected[d] <= 1 /\ (connected[d] > 0 => kind[d] = "disk")

\* Only one thread at a time is between sceAtaExecCmd and the end of
\* sceAtaWaitResult, which share atad_cmd_state and the event flag.
OneCommand == Cardinality(inCommand) <= 1

=============================================================================
