------------------------------ MODULE UsbMass ------------------------------
(***************************************************************************)
(* The life of a USB drive in the mass storage driver                      *)
(* (usbmass_bd_usb_mass.c, usbmass_bd_scsi.c): it is given a slot,         *)
(* configured, warmed up, announced to the block device manager, and       *)
(* withdrawn when it is unplugged.                                         *)
(*                                                                         *)
(* Two threads share the slots.  hcdIrqThread of usbd (0x1E) calls         *)
(* usb_mass_connect and usb_mass_disconnect; usb_mass_update (0x10)        *)
(* configures.  The second is above the first: hcdIrqThread only runs      *)
(* while the update thread is blocked, and is preempted when that wakes.   *)
(* A transfer is one step here; UsbBulk has what happens inside it.        *)
(***************************************************************************)
EXTENDS Naturals, FiniteSets

CONSTANTS
    Ports,         \* a device number of usbd belongs to a port
    NUM_DEVICES,
    MaxPlugs,      \* how often something is plugged in
    Faults,        \* what may go wrong: see Answers, Unplug and Connect
    None

Slots == 1 .. NUM_DEVICES

ASSUME UsbMassAssumption == NUM_DEVICES \in Nat \ {0} /\ None \notin Ports \cup Slots

VARIABLES
    plugged,     \* there is a drive at the port
    devDriver,   \* usbd has bound the device at the port to this driver
    slot,        \* g_mass_device
    semas,       \* number of ioSemas that exist
    bd,          \* g_scsi_bd, and whether bdm_connect_bd has been called for it
    update,      \* usb_mass_update_sema is signalled
    u,           \* the update thread
    t,           \* hcdIrqThread
    refused,     \* slots whose drive could not be configured
    plugs

vars == <<plugged, devDriver, slot, semas, bd, update, u, t, refused, plugs>>

Free == [devId |-> None, conn |-> FALSE, conf |-> FALSE, err |-> FALSE,
         controlEp |-> None, bulkEp |-> None, ioSema |-> FALSE]
NoDevice == [priv |-> None, announced |-> FALSE]
Waiting == [pc |-> "wait", todo |-> {}]
Idle == [pc |-> "idle"]

Init ==
    /\ plugged = [p \in Ports |-> FALSE]
    /\ devDriver = [p \in Ports |-> FALSE]
    /\ slot = [s \in Slots |-> Free]
    /\ semas = 0
    /\ bd = [i \in Slots |-> NoDevice]
    /\ update = FALSE
    /\ u = Waiting
    /\ t = Idle
    /\ refused = {}
    /\ plugs = 0

-----------------------------------------------------------------------------
(* Scheduling *)

UpdateReady ==
    CASE u.pc = "wait" -> update
      [] u.pc = "delay" -> FALSE
      [] u.pc = "io" -> ~slot[u.slot].ioSema
      [] OTHER -> TRUE

\* hcdIrqThread gets the processor only when the update thread sleeps
MayRun == ~UpdateReady

\* fetchEndpointById finds an endpoint while its device has not been flushed
Usable(pipe) == pipe # None /\ devDriver[pipe]

-----------------------------------------------------------------------------
(* The port *)

\* from SET_INTERFACE to the end of TEST UNIT READY
BecomingReady(p) ==
    /\ u.pc \in {"step", "io"}
    /\ u.step \in {"haltIn", "haltOut", "connect", "maxlun", "lunIn", "lunOut",
                   "inquiry", "ready", "sense", "start"}
    /\ slot[u.slot].devId = p

Unplug(p) ==
    /\ plugged[p]
    /\ "pull" \in Faults \/ ~BecomingReady(p)
    /\ plugged' = [plugged EXCEPT ![p] = FALSE]
    /\ UNCHANGED <<devDriver, slot, semas, bd, update, u, t, refused, plugs>>

-----------------------------------------------------------------------------
(* usb_mass_probe and usb_mass_connect, in hcdIrqThread *)

\* the element that a loop from index 1 on comes to first
First(S) == CHOOSE s \in S : \A x \in S : s <= x

\* usb_mass_findDevice with create: the first slot that is free or has the number
Found(p) == {s \in Slots : slot[s].devId \in {p, None}}

\* a slot that the update thread has in new_devs from before
Stale(s) == s \in u.todo

\* a drive has been plugged in and its descriptors have been read; the slot
\* that is found is reset and the control pipe opened
Connect(p) ==
    /\ MayRun /\ t.pc = "idle"
    /\ plugs < MaxPlugs
    /\ ~plugged[p] /\ ~devDriver[p]
    /\ ~\E s \in Slots : slot[s].devId = p /\ slot[s].conn
    /\ plugged' = [plugged EXCEPT ![p] = TRUE]
    /\ devDriver' = [devDriver EXCEPT ![p] = TRUE]
    /\ plugs' = plugs + 1
    /\ IF Found(p) # {} /\ slot[First(Found(p))].devId = None
       THEN LET s == First(Found(p)) IN
              /\ "replug" \in Faults \/ ~Stale(s)
              /\ slot' = [slot EXCEPT ![s] = [@ EXCEPT !.conn = FALSE, !.conf = FALSE, !.err = FALSE,
                                                       !.bulkEp = None, !.controlEp = p]]
              /\ t' = [pc |-> "open", slot |-> s, port |-> p]
       ELSE UNCHANGED <<slot, t>>
    /\ UNCHANGED <<semas, bd, update, u, refused>>

\* usb_mass_release
Released(r) == [r EXCEPT !.bulkEp = None, !.controlEp = None,
                         !.conn = FALSE, !.conf = FALSE, !.err = FALSE]

OpenPipes ==
    /\ MayRun /\ t.pc = "open"
    /\ \/ /\ slot' = [slot EXCEPT ![t.slot].bulkEp = t.port]
          /\ t' = [t EXCEPT !.pc = "sema"]
       \/ /\ "memory" \in Faults
          /\ slot' = [slot EXCEPT ![t.slot] = Released(@)]
          /\ t' = Idle
    /\ UNCHANGED <<plugged, devDriver, semas, bd, update, u, refused, plugs>>

CreateIoSema ==
    /\ MayRun /\ t.pc = "sema"
    /\ \/ /\ slot' = [slot EXCEPT ![t.slot].ioSema = TRUE]
          /\ semas' = semas + 1
          /\ t' = [t EXCEPT !.pc = "status"]
       \/ /\ "memory" \in Faults
          /\ t' = Idle
          /\ UNCHANGED <<slot, semas>>
    /\ UNCHANGED <<plugged, devDriver, bd, update, u, refused, plugs>>

SetStatus ==
    /\ MayRun /\ t.pc = "status"
    /\ slot' = [slot EXCEPT ![t.slot] = [@ EXCEPT !.conn = TRUE, !.conf = FALSE, !.err = FALSE]]
    /\ t' = [t EXCEPT !.pc = "publish"]
    /\ UNCHANGED <<plugged, devDriver, semas, bd, update, u, refused, plugs>>

Publish ==
    /\ MayRun /\ t.pc = "publish"
    /\ slot' = [slot EXCEPT ![t.slot].devId = t.port]
    /\ refused' = refused \ {t.slot}
    /\ t' = [t EXCEPT !.pc = "signal"]
    /\ UNCHANGED <<plugged, devDriver, semas, bd, update, u, plugs>>

SignalUpdate ==
    /\ MayRun /\ t.pc = "signal"
    /\ update' = TRUE
    /\ t' = Idle
    /\ UNCHANGED <<plugged, devDriver, slot, semas, bd, u, refused, plugs>>

-----------------------------------------------------------------------------
(* usb_mass_disconnect, in hcdIrqThread; flushPort of usbd follows it *)

\* the slot that has the number, if the driver still counts it as connected
Connected(p) == {s \in Slots : slot[s].devId = p /\ slot[s].conn}

Disconnect(p) ==
    /\ MayRun /\ t.pc = "idle"
    /\ ~plugged[p] /\ devDriver[p]
    /\ IF Connected(p) = {}
       THEN /\ devDriver' = [devDriver EXCEPT ![p] = FALSE]
            /\ UNCHANGED <<slot, t>>
       ELSE \E s \in Connected(p) :
              /\ slot' = [slot EXCEPT ![s] = [Released(@) EXCEPT !.devId = None]]
              /\ t' = [pc |-> "delete", slot |-> s, port |-> p]
              /\ UNCHANGED devDriver
    /\ UNCHANGED <<plugged, semas, bd, update, u, refused, plugs>>

DeleteIoSemaForgotten ==
    /\ MayRun /\ t.pc = "delete"
    /\ t' = [t EXCEPT !.pc = "scsi"]
    /\ UNCHANGED <<plugged, devDriver, slot, semas, bd, update, u, refused, plugs>>

\* wakes whoever waits for a transfer
DeleteIoSema ==
    /\ MayRun /\ t.pc = "delete"
    /\ slot' = [slot EXCEPT ![t.slot].ioSema = FALSE]
    /\ semas' = semas - 1
    /\ t' = [t EXCEPT !.pc = "scsi"]
    /\ UNCHANGED <<plugged, devDriver, bd, update, u, refused, plugs>>

Devices(s) == {i \in Slots : bd[i].priv = s}

ScsiDisconnectKeepsPriv ==
    /\ MayRun /\ t.pc = "scsi"
    /\ bd' = IF Devices(t.slot) = {} THEN bd
             ELSE [bd EXCEPT ![First(Devices(t.slot))].announced = FALSE]
    /\ devDriver' = [devDriver EXCEPT ![t.port] = FALSE]
    /\ t' = Idle
    /\ UNCHANGED <<plugged, slot, semas, update, u, refused, plugs>>

ScsiDisconnect ==
    /\ MayRun /\ t.pc = "scsi"
    /\ bd' = IF Devices(t.slot) = {} THEN bd
             ELSE [bd EXCEPT ![First(Devices(t.slot))] = NoDevice]
    /\ devDriver' = [devDriver EXCEPT ![t.port] = FALSE]
    /\ t' = Idle
    /\ UNCHANGED <<plugged, slot, semas, update, u, refused, plugs>>

-----------------------------------------------------------------------------
(* usb_mass_update *)

IsNew(s) == slot[s].devId # None /\ slot[s].conn /\ ~slot[s].conf

CollectFirst ==
    /\ u.pc = "wait" /\ update
    /\ update' = FALSE
    /\ u' = [pc |-> "next",
             todo |-> {s \in Slots : IsNew(s) /\ \A x \in Slots : IsNew(x) => s <= x}]
    /\ UNCHANGED <<plugged, devDriver, slot, semas, bd, t, refused, plugs>>

Collect ==
    /\ u.pc = "wait" /\ update
    /\ update' = FALSE
    /\ u' = [pc |-> "next", todo |-> {s \in Slots : IsNew(s)}]
    /\ UNCHANGED <<plugged, devDriver, slot, semas, bd, t, refused, plugs>>

\* the loop over new_devs, which holds the slots in their order
NextDevice ==
    /\ u.pc = "next"
    /\ u' = IF u.todo = {} THEN Waiting
            ELSE [pc |-> "step", todo |-> u.todo \ {First(u.todo)}, slot |-> First(u.todo),
                  step |-> "config", port |-> None, bd |-> None, initRequired |-> FALSE]
    /\ UNCHANGED <<plugged, devDriver, slot, semas, bd, update, t, refused, plugs>>

DelayEnds ==
    /\ u.pc = "delay"
    /\ u' = [u EXCEPT !.pc = "next"]
    /\ UNCHANGED <<plugged, devDriver, slot, semas, bd, update, t, refused, plugs>>

ControlSteps == {"config", "iface", "haltIn", "haltOut", "maxlun", "lunIn", "lunOut"}
CommandSteps == {"inquiry", "ready", "sense", "start", "capacity", "capacity16"}

\* what follows a transfer with result r; initRequired is what sd says,
\* which is uninitialised if the first REQUEST SENSE fails
After(step, r, initRequired) ==
    CASE step = "config"  -> IF r = "ok" THEN {"iface"} ELSE {"release"}
      [] step = "iface" /\ r = "ok"    -> {"connect"}
      [] step = "iface" /\ r = "stall" -> {"haltIn"}
      [] step = "iface" /\ r = "error" -> {"release"}
      [] step = "haltIn"  -> {"haltOut"}
      [] step = "haltOut" -> {"connect"}
      [] step = "maxlun"  -> IF r = "ok" THEN {"inquiry"} ELSE {"lunIn"}
      [] step = "lunIn"   -> {"lunOut"}
      [] step = "lunOut"  -> {"inquiry"}
      [] step = "inquiry" -> IF r = "error" THEN {"drop"} ELSE {"ready"}
      [] step = "ready"   -> IF r = "ok" THEN {"capacity"} ELSE {"sense"}
      [] step = "sense"   -> IF initRequired THEN {"start"} ELSE {"ready"}
      [] step = "start"   -> IF r = "ok" THEN {"ready"} ELSE {"drop"}
      [] step = "capacity"   -> IF r = "ok" THEN {"announce", "capacity16"} ELSE {"drop"}
      [] step = "capacity16" -> {"announce"}

Returns(r) ==
    \E init \in IF u.step = "sense" /\ r = "ok" THEN BOOLEAN ELSE {u.initRequired} :
       \E next \in After(u.step, r, init) :
          u' = [u EXCEPT !.pc = "step", !.step = next, !.initRequired = init]

\* a transfer on a pipe that is gone fails at once, and so do the resets
\* that follow a command
SubmitFails ==
    /\ u.pc = "step"
    /\ \/ u.step \in ControlSteps /\ ~Usable(slot[u.slot].controlEp)
       \/ u.step \in CommandSteps /\ (slot[u.slot].err \/ ~Usable(slot[u.slot].bulkEp))
    /\ slot' = IF u.step \in CommandSteps THEN [slot EXCEPT ![u.slot].err = TRUE] ELSE slot
    /\ Returns("error")
    /\ UNCHANGED <<plugged, devDriver, semas, bd, update, t, refused, plugs>>

Submit ==
    /\ u.pc = "step"
    /\ \/ u.step \in ControlSteps /\ Usable(slot[u.slot].controlEp)
       \/ u.step \in CommandSteps /\ ~slot[u.slot].err /\ Usable(slot[u.slot].bulkEp)
    /\ u' = [u EXCEPT !.pc = "io", !.port = slot[u.slot].controlEp]
    /\ UNCHANGED <<plugged, devDriver, slot, semas, bd, update, t, refused, plugs>>

Answers(step) ==
    {"ok"} \cup (IF "refuse" \in Faults /\ step \in ControlSteps THEN {"stall", "error"} ELSE {})
           \cup (IF "command" \in Faults /\ step \in CommandSteps \ {"ready", "sense"}
                 THEN {"failed", "error"} ELSE {})
           \cup (IF "ready" \in Faults /\ step \in {"ready", "sense"} THEN {"failed", "error"} ELSE {})

\* the drive at the other end answers, or there is none and the bus gives up;
\* nothing is heard of a request on a pipe that was closed.  A command that
\* fails may end in a reset that fails and takes the drive offline.
Answer ==
    /\ u.pc = "io" /\ slot[u.slot].ioSema
    /\ devDriver[u.port]
    /\ u.step \in CommandSteps => slot[u.slot].bulkEp # None
    /\ \E r \in IF plugged[u.port] THEN Answers(u.step) ELSE {"error"} :
          /\ Returns(r)
          /\ \E offline \in IF r = "error" /\ u.step \in CommandSteps THEN BOOLEAN ELSE {FALSE} :
                slot' = IF offline THEN [slot EXCEPT ![u.slot].err = TRUE] ELSE slot
    /\ UNCHANGED <<plugged, devDriver, semas, bd, update, t, refused, plugs>>

\* WaitSema on a semaphore that is deleted: the result on the stack is
\* uninitialised.  A command ends well only if its status was being read, for
\* which a good one is filled in beforehand.
WaitDeleted ==
    /\ u.pc = "io" /\ ~slot[u.slot].ioSema
    /\ \E r \in IF u.step \in ControlSteps THEN {"ok", "stall", "error"} ELSE {"ok", "error"} :
          Returns(r)
    /\ UNCHANGED <<plugged, devDriver, slot, semas, bd, update, t, refused, plugs>>

\* set_configuration or set_interface has failed
GiveUp ==
    /\ u.pc = "step" /\ u.step = "release"
    /\ slot' = [slot EXCEPT ![u.slot] = Released(@)]
    /\ refused' = refused \cup {u.slot}
    /\ u' = [pc |-> "next", todo |-> u.todo]
    /\ UNCHANGED <<plugged, devDriver, semas, bd, update, t, plugs>>

Done == [pc |-> "delay", todo |-> u.todo]

\* scsi_connect takes a block device; warm-up starts
ScsiConnect ==
    /\ u.pc = "step" /\ u.step = "connect"
    /\ slot' = [slot EXCEPT ![u.slot].conf = TRUE]
    /\ IF Devices(None) = {}
       THEN u' = Done /\ UNCHANGED bd
       ELSE /\ bd' = [bd EXCEPT ![First(Devices(None))].priv = u.slot]
            /\ \E junk \in BOOLEAN :
                  u' = [u EXCEPT !.step = "maxlun", !.bd = First(Devices(None)),
                                 !.initRequired = junk]
    /\ UNCHANGED <<plugged, devDriver, semas, update, t, refused, plugs>>

WarmupFails ==
    /\ u.pc = "step" /\ u.step = "drop"
    /\ bd' = [bd EXCEPT ![u.bd] = NoDevice]
    /\ u' = Done
    /\ UNCHANGED <<plugged, devDriver, slot, semas, update, t, refused, plugs>>

Announce ==
    /\ u.pc = "step" /\ u.step = "announce"
    /\ bd' = [bd EXCEPT ![u.bd].announced = TRUE]
    /\ u' = Done
    /\ UNCHANGED <<plugged, devDriver, slot, semas, update, t, refused, plugs>>

-----------------------------------------------------------------------------
UsbdThread ==
    \/ OpenPipes
    \/ CreateIoSema
    \/ SetStatus
    \/ Publish
    \/ SignalUpdate
    \/ \E p \in Ports : Disconnect(p)
    \/ DeleteIoSema
    \/ ScsiDisconnect

UpdateThread ==
    \/ Collect
    \/ NextDevice
    \/ DelayEnds
    \/ SubmitFails
    \/ Submit
    \/ WaitDeleted
    \/ GiveUp
    \/ ScsiConnect
    \/ WarmupFails
    \/ Announce

Next ==
    \/ \E p \in Ports : Unplug(p) \/ Connect(p)
    \/ UsbdThread
    \/ UpdateThread
    \/ Answer

Spec == Init /\ [][Next]_vars

\* the update thread is above every other and hcdIrqThread above those that
\* compute; a drive answers, or the bus reports that it does not
FairSpec == Spec /\ WF_vars(UpdateThread) /\ WF_vars(Answer) /\ WF_vars(UsbdThread)

-----------------------------------------------------------------------------
\* Types of the tables and of where the two threads are.
TypeOK ==
    /\ plugged \in [Ports -> BOOLEAN]
    /\ devDriver \in [Ports -> BOOLEAN]
    /\ slot \in [Slots -> [devId : Ports \cup {None}, conn : BOOLEAN, conf : BOOLEAN, err : BOOLEAN,
                           controlEp : Ports \cup {None}, bulkEp : Ports \cup {None}, ioSema : BOOLEAN]]
    /\ semas \in 0 .. NUM_DEVICES
    /\ bd \in [Slots -> [priv : Slots \cup {None}, announced : BOOLEAN]]
    /\ update \in BOOLEAN
    /\ u.pc \in {"wait", "next", "step", "io", "delay"}
    /\ t.pc \in {"idle", "open", "sema", "status", "publish", "signal", "delete", "scsi"}
    /\ refused \subseteq Slots

InTransit(s, pcs) == t.pc \in pcs /\ t.slot = s

\* The update thread never works on a slot that usb_mass_connect is still
\* filling in (the comment before dev->devId is set).
NoPartialData ==
    u.pc = "step" /\ u.step = "config" => ~InTransit(u.slot, {"open", "sema", "status", "publish"})

\* A block device that the manager knows, or that is taken, has a drive: one that
\* is connected, being warmed up, or about to be withdrawn (scsi_connect,
\* scsi_disconnect).
NoGhost ==
    \A i \in Slots : bd[i].priv # None =>
       \/ slot[bd[i].priv].devId # None
       \/ InTransit(bd[i].priv, {"delete", "scsi"})
       \/ u.pc \in {"step", "io"} /\ u.slot = bd[i].priv

\* scsi_disconnect only calls bdm_disconnect_bd for a device that was announced
\* with bdm_connect_bd, and no drive is announced twice.
InTurn ==
    /\ t.pc = "scsi" /\ MayRun => \A i \in Devices(t.slot) : bd[i].announced
    /\ \A i, j \in Slots : bd[i].priv = bd[j].priv /\ bd[i].priv # None => i = j

\* A slot whose device has left is free again, unless the update thread had
\* given the device up (usb_mass_release clears the status and keeps devId, after
\* which usb_mass_disconnect does nothing).
LostOnlyIfRefused ==
    \A s \in Slots : slot[s].devId # None /\ ~devDriver[slot[s].devId] => s \in refused

\* There is one I/O semaphore per slot in use: none leaks when drives come and
\* go, or when usb_mass_connect fails halfway.
OneSemaPerSlot ==
    semas = Cardinality({s \in Slots : slot[s].devId # None
                                       \/ InTransit(s, {"status", "publish", "delete"})})

\* The slots of usbmass_bd are kept while drives come and go: a slot and its semaphore
\* are lost to a drive that was refused and to no other, and every drive is announced
\* once and withdrawn once.
SlotsKept == TypeOK /\ InTurn /\ LostOnlyIfRefused /\ OneSemaPerSlot

\* What the update thread works on and what the manager knows are drives: complete
\* ones, and none that has gone.
DrivesReal == NoPartialData /\ NoGhost
=============================================================================
