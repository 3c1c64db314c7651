----------------------------- MODULE UsbDrivers -----------------------------
(***************************************************************************)
(* How devices and drivers find each other in usbd (usbd_driver.c).  A     *)
(* device whose descriptors have been read is offered to the registered    *)
(* drivers (connectNewDevice), and a driver that registers is offered the  *)
(* devices that are there (probeDeviceTree).  usbdLock is released around  *)
(* every call into a driver.                                               *)
(*                                                                         *)
(* The first happens in hcdIrqThread, which is above the thread that       *)
(* registers a driver and blocks on nothing but usbdLock: once it has the  *)
(* lock, the other thread is not in the way any more, and what it does is  *)
(* one step here.  The registering thread may be interrupted wherever it   *)
(* has released the lock.                                                  *)
(***************************************************************************)
EXTENDS Naturals, Sequences, SequencesExt, FiniteSets, FiniteSetsExt

CONSTANTS
    NumDevices,    \* in the order of the device tree
    Drivers, None,
    Accepts,       \* [Drivers -> SUBSET Devices]: what the probe of a driver looks for
    Configs,       \* [Devices -> Nat]: bNumConfigurations
    MaxPlugs,
    Faults         \* "busy": hcdIrqThread comes to a device while a driver that registers
                   \* is called for it; "unregister": drivers leave again

Devices == 1 .. NumDevices

VARIABLES
    plugged,      \* [Devices -> BOOLEAN]
    dev,          \* deviceStatus = DEVICE_READY, devDriver, configurations read
    drvList,      \* the registered drivers
    reg,          \* the registering thread; it has usbdLock while pc = "scan"
    connected,    \* [Devices -> Seq(Drivers)]: the drivers that have set themselves
                  \* up for the device
    plugs

vars == <<plugged, dev, drvList, reg, connected, plugs>>

Gone == [ready |-> FALSE, drv |-> None, read |-> 0]
Idle == [pc |-> "idle", drv |-> None, dev |-> 0]

Init ==
    /\ plugged = [d \in Devices |-> FALSE]
    /\ dev = [d \in Devices |-> Gone]
    /\ drvList = <<>>
    /\ reg = Idle
    /\ connected = [d \in Devices |-> <<>>]
    /\ plugs = 0

Unlocked == reg.pc # "scan"

-----------------------------------------------------------------------------
(* The bus *)

Plug(d) ==
    /\ ~plugged[d] /\ ~dev[d].ready /\ plugs < MaxPlugs
    /\ plugged' = [plugged EXCEPT ![d] = TRUE]
    /\ plugs' = plugs + 1
    /\ UNCHANGED <<dev, drvList, reg, connected>>

Unplug(d) ==
    /\ plugged[d]
    /\ plugged' = [plugged EXCEPT ![d] = FALSE]
    /\ UNCHANGED <<dev, drvList, reg, connected, plugs>>

-----------------------------------------------------------------------------
(* hcdIrqThread *)

Undisturbed(d) == "busy" \in Faults \/ reg.pc \notin {"probe", "connect", "open"} \/ reg.dev # d

\* hubPeekDeviceDescriptor: the device has its address, and is ready
Addressed(d) ==
    /\ Unlocked /\ plugged[d] /\ ~dev[d].ready
    /\ dev' = [dev EXCEPT ![d].ready = TRUE]
    /\ UNCHANGED <<plugged, drvList, reg, connected, plugs>>

\* a driver finds the device in the descriptors that have been read
Probe(drv, d) == d \in Accepts[drv] /\ dev[d].read > 0

Matching(d) == {i \in 1 .. Len(drvList) : d \in Accepts[drvList[i]]}

\* the first driver that wants the device gets it
ConnectNewDevice(d) ==
    LET drv == drvList[Min(Matching(d))] IN
    IF Matching(d) = {}
    THEN /\ dev' = [dev EXCEPT ![d].read = Configs[d]]
         /\ UNCHANGED connected
    ELSE /\ dev' = [dev EXCEPT ![d].read = Configs[d], ![d].drv = drv]
         /\ connected' = [connected EXCEPT ![d] = Append(@, drv)]

\* fetchConfigDescriptors
FetchConfigDescriptors(d) ==
    /\ Unlocked /\ plugged[d] /\ dev[d].ready /\ dev[d].read < Configs[d]
    /\ Undisturbed(d)
    /\ IF dev[d].read + 1 = Configs[d] THEN ConnectNewDevice(d)
       ELSE dev' = [dev EXCEPT ![d].read = @ + 1] /\ UNCHANGED connected
    /\ UNCHANGED <<plugged, drvList, reg, plugs>>

\* flushPort: the driver is told
FlushPort(d) ==
    /\ Unlocked /\ ~plugged[d] /\ dev[d].ready
    /\ Undisturbed(d)
    /\ dev' = [dev EXCEPT ![d] = Gone]
    /\ connected' = [connected EXCEPT ![d] = SelectSeq(@, LAMBDA drv : drv # dev[d].drv)]
    /\ UNCHANGED <<plugged, drvList, reg, plugs>>

-----------------------------------------------------------------------------
(* The registering thread *)

IsRegistered(drv) == drv \in Range(drvList)

RegisterDriverOnly(drv) ==
    /\ reg.pc = "idle"
    /\ ~IsRegistered(drv)
    /\ drvList' = Append(drvList, drv)
    /\ UNCHANGED <<plugged, dev, reg, connected, plugs>>

\* doRegisterDriver
RegisterDriver(drv) ==
    /\ reg.pc = "idle"
    /\ ~IsRegistered(drv)
    /\ drvList' = Append(drvList, drv)
    /\ reg' = [pc |-> "scan", drv |-> drv, dev |-> 1]
    /\ UNCHANGED <<plugged, dev, connected, plugs>>

\* a device that nobody has
Wanted(d) == dev[d].ready /\ dev[d].drv = None

NextDevice == [reg EXCEPT !.pc = "scan", !.dev = @ + 1]

\* the loop of probeDeviceTree, up to a call
ProbeDeviceTree ==
    /\ reg.pc = "scan"
    /\ reg' = IF reg.dev > NumDevices THEN Idle
              ELSE IF Wanted(reg.dev) THEN [reg EXCEPT !.pc = "probe"]
              ELSE NextDevice
    /\ UNCHANGED <<plugged, dev, drvList, connected, plugs>>

\* the device is taken before the driver connects
ProbeReturns ==
    /\ reg.pc = "probe"
    /\ IF Probe(reg.drv, reg.dev)
       THEN /\ dev' = [dev EXCEPT ![reg.dev].drv = reg.drv]
            /\ reg' = [reg EXCEPT !.pc = "connect"]
       ELSE reg' = NextDevice /\ UNCHANGED dev
    /\ UNCHANGED <<plugged, drvList, connected, plugs>>

\* the driver opens its pipes, which a device that is gone does not have
Opens ==
    /\ reg.pc = "connect"
    /\ reg' = IF dev[reg.dev].ready THEN [reg EXCEPT !.pc = "open"] ELSE NextDevice
    /\ UNCHANGED <<plugged, dev, drvList, connected, plugs>>

Connects ==
    /\ reg.pc = "open"
    /\ connected' = [connected EXCEPT ![reg.dev] = Append(@, reg.drv)]
    /\ reg' = NextDevice
    /\ UNCHANGED <<plugged, dev, drvList, plugs>>

\* doUnregisterDriver, of a driver that drops its devices
UnregisterDriver(drv) ==
    /\ "unregister" \in Faults
    /\ reg.pc = "idle"
    /\ IsRegistered(drv)
    /\ drvList' = SelectSeq(drvList, LAMBDA x : x # drv)
    /\ dev' = [d \in Devices |-> IF dev[d].drv = drv THEN [dev[d] EXCEPT !.drv = None] ELSE dev[d]]
    /\ connected' = [d \in Devices |-> SelectSeq(connected[d], LAMBDA x : x # drv)]
    /\ UNCHANGED <<plugged, reg, plugs>>

-----------------------------------------------------------------------------
Next ==
    \/ \E d \in Devices : \/ Plug(d) \/ Unplug(d)
                          \/ Addressed(d) \/ FetchConfigDescriptors(d) \/ FlushPort(d)
    \/ \E drv \in Drivers : RegisterDriver(drv) \/ UnregisterDriver(drv)
    \/ ProbeDeviceTree \/ ProbeReturns \/ Opens \/ Connects

Spec == Init /\ [][Next]_vars

-----------------------------------------------------------------------------
\* Types; in particular no more configurations are read than there are.
TypeOK ==
    /\ \A d \in Devices : dev[d] \in [ready : BOOLEAN, drv : Drivers \cup {None}, read : 0 .. Configs[d]]
    /\ drvList \in Seq(Drivers)
    /\ reg.pc \in {"idle", "scan", "probe", "connect", "open"}
    /\ connected \in [Devices -> Seq(Drivers)]

\* A device is connected to one driver, and once, although both threads offer
\* devices to drivers and neither has the lock while it does.
ConnectedOnce == \A d \in Devices : Len(connected[d]) <= 1

\* A driver that has set itself up for a device is the one that will be told when
\* the device goes: it is the device's devDriver.
WillBeTold == \A d \in Devices : \A drv \in Range(connected[d]) : dev[d].ready /\ dev[d].drv = drv

\* No device falls between the two: when no driver is registering, a device that has
\* been read and that a registered driver wants is connected.
NoneMissed ==
    reg.pc = "idle" =>
        \A d \in Devices : dev[d].ready /\ dev[d].read = Configs[d] /\ Matching(d) # {} => connected[d] # <<>>
=============================================================================
