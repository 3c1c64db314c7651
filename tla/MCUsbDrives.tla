---------------------------- MODULE MCUsbDrives ----------------------------
(***************************************************************************)
(* The drives of usbmass_bd, and the drivers that usbd offers its devices  *)
(* to.  One of the two moves in a behaviour and the other stays as it      *)
(* begins; part says which, and what may go wrong there.                   *)
(***************************************************************************)
EXTENDS UsbMass, TLC

CONSTANTS p1, p2, hub, mass, pad

VARIABLES part, attached, dev, drvList, reg, connected, attachments

\* drives that never get ready and drives that are pulled while usbd works on them
Rough == INSTANCE UsbMass WITH Faults <- {"memory", "refuse", "command", "ready", "pull"}

\* three devices and three drivers that want some of the same
Bind == INSTANCE UsbDrivers WITH NumDevices <- 3, Drivers <- {hub, mass, pad},
            Accepts <- hub :> {1} @@ mass :> {2, 3} @@ pad :> {1, 3},
            Configs <- [d \in 1 .. 3 |-> 1], MaxPlugs <- 3, Faults <- {"unregister"},
            plugged <- attached, plugs <- attachments

\* the same, when both threads may come to a device at the same time
Busy == INSTANCE UsbDrivers WITH NumDevices <- 3, Drivers <- {hub, mass, pad},
            Accepts <- hub :> {1} @@ mass :> {2, 3} @@ pad :> {1, 3},
            Configs <- [d \in 1 .. 3 |-> 1], MaxPlugs <- 2, Faults <- {"busy"},
            plugged <- attached, plugs <- attachments

bindVars == <<attached, dev, drvList, reg, connected, attachments>>
MCVars == <<part, vars, bindVars>>

MCInit == part \in {"drives", "rough", "bind", "busy"} /\ Init /\ Bind!Init

MCNext ==
    /\ UNCHANGED part
    /\ \/ part = "drives" /\ Next /\ UNCHANGED bindVars
       \/ part = "rough" /\ Rough!Next /\ UNCHANGED bindVars
       \/ part = "bind" /\ Bind!Next /\ UNCHANGED vars
       \/ part = "busy" /\ Busy!Next /\ UNCHANGED vars

\* FairSpec of UsbMass, for drives that get ready
MCSpec ==
    /\ MCInit /\ [][MCNext]_MCVars
    /\ WF_vars(part = "drives" /\ UpdateThread)
    /\ WF_vars(part = "drives" /\ Answer)
    /\ WF_vars(part = "drives" /\ UsbdThread)

-----------------------------------------------------------------------------
\* A drive that is connected is configured, refused or unplugged: no wake-up of the
\* update thread is lost although its semaphore counts to one.  The thread comes back
\* to wait for the next drive, also if the one it works on is unplugged: deleting
\* ioSema ends its wait.  A drive that is unplugged is withdrawn from the manager.
DrivesSettle ==
    /\ \A s \in Slots : part = "drives" /\ IsNew(s) ~> ~IsNew(s)
    /\ []<>(part = "drives" => u.pc = "wait")
    /\ \A p \in Ports : part = "drives" /\ ~plugged[p] /\ devDriver[p] ~> ~devDriver[p]

\* A device is connected to one driver, and once, although both threads offer devices
\* to drivers and neither has the lock while it does; the driver is the one that will
\* be told when the device goes.  No device falls between the two threads: when no
\* driver is registering, a device that has been read and that a registered driver
\* wants is connected.
DriversBound ==
    /\ part = "bind" => Bind!TypeOK /\ Bind!ConnectedOnce /\ Bind!WillBeTold
    /\ part = "busy" => Busy!NoneMissed
=============================================================================
