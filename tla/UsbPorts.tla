------------------------------ MODULE UsbPorts ------------------------------
(***************************************************************************)
(* How usbd gives the devices at the root ports their addresses            *)
(* (usbd_hub.c, usbd_hcd.c).  A device that is reset answers to address 0  *)
(* until it has its own, so the resets of the others are put off           *)
(* meanwhile (memPool.delayResets).                                        *)
(*                                                                         *)
(* Every handler runs in hcdIrqThread, one after the other; between them   *)
(* the ports change, transfers end and timers run out in any order, but    *)
(* for the two delays that KillDelay and ResetDelay name.  A change of a   *)
(* port interrupts and is looked at before the next tick, and before a     *)
(* reset, which takes ten of them, has ended.                              *)
(***************************************************************************)
EXTENDS Naturals, FiniteSets

CONSTANTS
    NumPorts,
    MaxEndpoints,   \* usbConfig.maxEndpoints
    MaxPlugs,       \* how often something is plugged in
    MaxFaults,      \* how often a transfer goes wrong
    Faults          \* in which ways: see Results

Ports == 1 .. NumPorts

VARIABLES
    line,        \* HcRhPortStatus, and the address the device answers to
    rhsc,        \* the interrupt that a port has changed
    next,        \* the port that handleRhsc looks at; 0 if it does not run
    pool,        \* deviceStatus and resetFlag of the ports, delayResets
    timer,       \* what the port's timer waits for
    io,          \* what the port's ioRequest is used for
    functionDelay,
    ep,          \* the default control endpoint is open
    limbo,       \* it was removed with the ioRequest under way
    dying,       \* number of other endpoints that wait for killEndpoint
    free,        \* number of endpoints in the free list
    driver,      \* the port's devDriver
    plugs, faults

vars == <<line, rhsc, next, pool, timer, io, functionDelay, ep, limbo, dying, free, driver, plugs, faults>>

Unplugged == [plugged |-> FALSE, changed |-> FALSE, reset |-> FALSE, address |-> "none"]

Init ==
    /\ line = [p \in Ports |-> Unplugged]
    /\ rhsc = FALSE
    /\ next = 0
    /\ pool = [status |-> [p \in Ports |-> "NOTCONNECTED"],
               resetFlag |-> [p \in Ports |-> FALSE], delayResets |-> FALSE]
    /\ timer = [p \in Ports |-> "none"]
    /\ io = [p \in Ports |-> "none"]
    /\ functionDelay = [p \in Ports |-> 0]
    /\ ep = [p \in Ports |-> FALSE]
    /\ limbo = [p \in Ports |-> FALSE]
    /\ dying = 0
    /\ free = MaxEndpoints
    /\ driver = [p \in Ports |-> FALSE]
    /\ plugs = 0
    /\ faults = 0

-----------------------------------------------------------------------------
(* The ports *)

\* contacts bounce in the first half second; later usbd sees a device leave
\* before another can be plugged in
Plug(p) ==
    /\ ~line[p].plugged /\ plugs < MaxPlugs
    /\ line[p].changed => pool.status[p] \in {"NOTCONNECTED", "CONNECTED"}
    /\ line' = [line EXCEPT ![p].plugged = TRUE, ![p].changed = TRUE]
    /\ rhsc' = TRUE
    /\ plugs' = plugs + 1
    /\ UNCHANGED <<next, pool, timer, io, functionDelay, ep, limbo, dying, driver, faults, free>>

Unplug(p) ==
    /\ line[p].plugged
    /\ line' = [line EXCEPT ![p] = [Unplugged EXCEPT !.changed = TRUE]]
    /\ rhsc' = TRUE
    /\ UNCHANGED <<next, pool, timer, io, functionDelay, ep, limbo, dying, driver, plugs, faults, free>>

PortResetDone(p) ==
    /\ line[p].reset /\ ~rhsc /\ next = 0
    /\ line' = [line EXCEPT ![p].reset = FALSE, ![p].address = "default"]
    /\ rhsc' = TRUE
    /\ UNCHANGED <<next, pool, timer, io, functionDelay, ep, limbo, dying, driver, plugs, faults, free>>

\* what the controller makes of PORT_RESET: nothing at an empty port
Written(l, before, after) ==
    [p \in Ports |->
       IF after.status[p] = "RESETPENDING" /\ before.status[p] # "RESETPENDING" /\ l[p].plugged
       THEN [l[p] EXCEPT !.reset = TRUE, !.address = "none"] ELSE l[p]]

-----------------------------------------------------------------------------
(* The resets; m is the pool *)

HubResetDevice(m, p) ==
    IF m.delayResets THEN [m EXCEPT !.status[p] = "RESETDELAYED"]
    ELSE [m EXCEPT !.delayResets = TRUE, !.status[p] = "RESETPENDING", !.resetFlag[p] = TRUE]

Delayed(m) == {p \in Ports : m.status[p] = "RESETDELAYED"}
First(S) == CHOOSE p \in S : \A q \in S : p <= q

CheckDelayedResetsTree(m) ==
    IF Delayed(m) = {} THEN m ELSE HubResetDevice(m, First(Delayed(m)))

CheckDelayedResets(m, p) ==
    CheckDelayedResetsTree([m EXCEPT !.delayResets = FALSE, !.resetFlag[p] = FALSE])

\* flushPort: what it does to the pool; FlushEndpoint is the rest
FlushPort(m, p) ==
    LET f == [m EXCEPT !.status[p] = "NOTCONNECTED"]
    IN  IF m.resetFlag[p] THEN CheckDelayedResets(f, p) ELSE f

FlushEndpointLeaks(p) ==
    /\ ep' = [ep EXCEPT ![p] = FALSE]
    /\ UNCHANGED <<limbo, dying>>

\* removeEndpointFromDevice: killEndpoint is put off by KillDelay ticks
FlushEndpoint(p) ==
    /\ ep' = [ep EXCEPT ![p] = FALSE]
    /\ limbo' = [limbo EXCEPT ![p] = limbo[p] \/ (ep[p] /\ io[p] # "none")]
    /\ dying' = IF ep[p] /\ (io[p] = "none" \/ limbo[p]) THEN dying + 1 ELSE dying

-----------------------------------------------------------------------------
(* handleRhsc *)

HandleRhsc ==
    /\ next = 0 /\ rhsc
    /\ rhsc' = FALSE
    /\ next' = 1
    /\ UNCHANGED <<line, pool, timer, io, functionDelay, ep, limbo, dying, driver, plugs, faults, free>>

Flushed(p) == /\ timer' = [timer EXCEPT ![p] = "none"]
              /\ io' = [io EXCEPT ![p] = "none"]
              /\ driver' = [driver EXCEPT ![p] = FALSE]
              /\ FlushEndpoint(p)

Gone(p) ==
    /\ ~line[p].plugged
    /\ pool' = FlushPort(pool, p)
    /\ Flushed(p)
    /\ UNCHANGED <<functionDelay, free>>

Replaced(p) ==
    /\ line[p].plugged /\ line[p].changed /\ pool.status[p] # "NOTCONNECTED"
    /\ pool' = [FlushPort(pool, p) EXCEPT !.status[p] = "CONNECTED"]
    /\ timer' = [timer EXCEPT ![p] = "reset"]
    /\ io' = [io EXCEPT ![p] = "none"]
    /\ driver' = [driver EXCEPT ![p] = FALSE]
    /\ FlushEndpoint(p)
    /\ UNCHANGED <<functionDelay, free>>

New(p) ==
    /\ line[p].plugged /\ pool.status[p] = "NOTCONNECTED"
    /\ pool' = [pool EXCEPT !.status[p] = "CONNECTED"]
    /\ timer' = [timer EXCEPT ![p] = "reset"]
    /\ UNCHANGED <<io, functionDelay, ep, limbo, dying, free, driver>>

\* the default control endpoint is opened, if there is one left
WasReset(p) ==
    /\ line[p].plugged /\ ~line[p].changed /\ ~line[p].reset
    /\ pool.status[p] = "RESETPENDING"
    /\ pool' = [pool EXCEPT !.status[p] = "RESETCOMPLETE"]
    /\ IF free = 0 THEN UNCHANGED <<ep, free, timer, functionDelay>>
       ELSE /\ free' = free - 1
            /\ ep' = [ep EXCEPT ![p] = TRUE]
            /\ timer' = [timer EXCEPT ![p] = "address"]
            /\ functionDelay' = [functionDelay EXCEPT ![p] = 20]
    /\ UNCHANGED <<io, limbo, dying, driver>>

NothingNew(p) ==
    /\ line[p].plugged /\ pool.status[p] # "NOTCONNECTED" /\ ~line[p].changed
    /\ pool.status[p] = "RESETPENDING" => line[p].reset
    /\ UNCHANGED <<pool, timer, io, functionDelay, ep, limbo, dying, free, driver>>

HandlePort ==
    /\ next # 0
    /\ Gone(next) \/ Replaced(next) \/ New(next) \/ WasReset(next) \/ NothingNew(next)
    /\ line' = Written([line EXCEPT ![next].changed = FALSE], pool, pool')
    /\ next' = IF next = NumPorts THEN 0 ELSE next + 1
    /\ UNCHANGED <<rhsc, plugs, faults>>

-----------------------------------------------------------------------------
(* Timers and transfers *)

KillDelay == 200
ResetDelay == 500

TimerReset(p) ==
    /\ next = 0 /\ ~rhsc /\ timer[p] = "reset"
    /\ KillDelay < ResetDelay => ~limbo[p]
    /\ timer' = [timer EXCEPT ![p] = "none"]
    /\ pool' = HubResetDevice(pool, p)
    /\ line' = Written(line, pool, pool')
    /\ UNCHANGED <<rhsc, next, io, functionDelay, ep, limbo, dying, driver, plugs, faults, free>>

HubPeekEarly(p) ==
    /\ next = 0 /\ ~rhsc /\ timer[p] = "address"
    /\ timer' = [timer EXCEPT ![p] = "none"]
    /\ io' = [io EXCEPT ![p] = "address"]
    /\ pool' = CheckDelayedResets(pool, p)
    /\ line' = Written(line, pool, pool')
    /\ UNCHANGED <<rhsc, next, functionDelay, ep, limbo, dying, driver, plugs, faults, free>>

HubSetFuncAddress(p) ==
    /\ next = 0 /\ ~rhsc /\ timer[p] = "address"
    /\ timer' = [timer EXCEPT ![p] = "none"]
    /\ io' = [io EXCEPT ![p] = "address"]
    /\ UNCHANGED <<line, rhsc, next, pool, functionDelay, ep, limbo, dying, driver, plugs, faults, free>>

KillDevice(p) ==
    /\ pool' = HubResetDevice(CheckDelayedResets(pool, p), p)
    /\ line' = Written(line, pool, pool')
    /\ ep' = [ep EXCEPT ![p] = FALSE]
    /\ dying' = dying + 1
    /\ io' = [io EXCEPT ![p] = "none"]

\* how a transfer with the port's device can end; with "late" it is seen to fail
\* before the device is seen to be gone
Results(p) ==
    {r \in {"ok", "noresponse", "error", "short", "large"} :
       IF line[p].plugged THEN r = "ok" \/ (r \in Faults /\ faults < MaxFaults)
       ELSE r \in {"noresponse", "error"} /\ "late" \in Faults}
Fault(p, r) == faults' = IF line[p].plugged /\ r # "ok" THEN faults + 1 ELSE faults

MAX_DELAY == 1280

HubSetFuncAddressCB(p) ==
    /\ next = 0 /\ io[p] = "address"
    /\ \E r \in Results(p) \cap {"ok", "noresponse"} :
          /\ Fault(p, r)
          /\ \/ /\ r = "ok"
                /\ pool' = [pool EXCEPT !.status[p] = "READY"]
                /\ line' = [line EXCEPT ![p].address = "own"]
                /\ timer' = [timer EXCEPT ![p] = "peek"]
                /\ io' = [io EXCEPT ![p] = "none"]
                /\ UNCHANGED <<functionDelay, ep, dying>>
             \/ /\ r = "noresponse"
                /\ functionDelay' = [functionDelay EXCEPT ![p] = 2 * @]
                /\ IF functionDelay'[p] <= MAX_DELAY
                   THEN /\ timer' = [timer EXCEPT ![p] = "address"]
                        /\ io' = [io EXCEPT ![p] = "none"]
                        /\ UNCHANGED <<line, pool, ep, dying>>
                   ELSE KillDevice(p) /\ UNCHANGED timer
    /\ UNCHANGED <<rhsc, next, limbo, driver, plugs, free>>

HubPeekDeviceDescriptor(p) ==
    /\ next = 0 /\ ~rhsc /\ timer[p] = "peek"
    /\ timer' = [timer EXCEPT ![p] = "none"]
    /\ io' = [io EXCEPT ![p] = "peek"]
    /\ pool' = CheckDelayedResets(pool, p)
    /\ line' = Written(line, pool, pool')
    /\ UNCHANGED <<rhsc, next, functionDelay, ep, limbo, dying, driver, plugs, faults, free>>

NextReadOver(step, r) ==
    CASE step = "peek" -> "device"
      [] step = "device" -> "configHead"
      [] step = "configHead" -> "config"
      [] step = "config" -> "configHead"

\* the next read of a descriptor after one that has ended well: the device's,
\* its first bytes and then all of it, then the same for its configuration
NextRead(step, r) ==
    CASE step = "peek" -> "device"
      [] step = "device" /\ r = "short" -> "device"
      [] step = "device" /\ r # "short" -> "configHead"
      [] step = "configHead" -> IF r = "large" THEN "none" ELSE "config"
      [] step = "config" -> "none"

Reads == {"peek", "device", "configHead", "config"}

\* requestDevDescrptCb and fetchConfigDescriptors
DescriptorRead(p) ==
    /\ next = 0 /\ io[p] \in Reads
    /\ \E r \in Results(p) :
          /\ Fault(p, r)
          /\ \/ /\ r = "error"
                /\ KillDevice(p)
                /\ UNCHANGED driver
             \/ /\ r = "ok" \/ (r = "short" /\ io[p] = "device") \/ (r = "large" /\ io[p] = "configHead")
                /\ io' = [io EXCEPT ![p] = NextRead(io[p], r)]
                /\ IF io[p] = "config"
                   THEN \E found \in BOOLEAN : driver' = [driver EXCEPT ![p] = found]
                   ELSE UNCHANGED driver
                /\ UNCHANGED <<line, pool, ep, dying>>
    /\ UNCHANGED <<rhsc, next, timer, functionDelay, limbo, plugs, free>>

\* the request of a removed endpoint is dropped when it ends
LateDone(p) ==
    /\ next = 0 /\ limbo[p]
    /\ limbo' = [limbo EXCEPT ![p] = FALSE]
    /\ dying' = dying + 1
    /\ UNCHANGED <<line, rhsc, next, pool, timer, io, functionDelay, ep, driver, plugs, faults, free>>

KillEndpoint ==
    /\ next = 0
    /\ \/ dying > 0 /\ dying' = dying - 1 /\ UNCHANGED limbo
       \/ \E p \in Ports : limbo[p] /\ limbo' = [limbo EXCEPT ![p] = FALSE] /\ UNCHANGED dying
    /\ free' = free + 1
    /\ UNCHANGED <<line, rhsc, next, pool, timer, io, functionDelay, ep, driver, plugs, faults>>

-----------------------------------------------------------------------------
Handler(p) ==
    \/ TimerReset(p)
    \/ HubSetFuncAddress(p)
    \/ HubSetFuncAddressCB(p)
    \/ HubPeekDeviceDescriptor(p)
    \/ DescriptorRead(p)
    \/ PortResetDone(p)

Next ==
    \/ \E p \in Ports : Plug(p) \/ Unplug(p) \/ Handler(p) \/ LateDone(p)
    \/ HandleRhsc
    \/ HandlePort
    \/ KillEndpoint

Spec == Init /\ [][Next]_vars

\* timers run out, transfers and resets end, and hcdIrqThread gets to see it
FairSpec ==
    /\ Spec
    /\ WF_vars(HandleRhsc) /\ WF_vars(HandlePort) /\ WF_vars(KillEndpoint)
    /\ \A p \in Ports : WF_vars(Handler(p))

-----------------------------------------------------------------------------
\* Types of the pool and of the port's fields.
TypeOK ==
    /\ pool \in [status : [Ports -> {"NOTCONNECTED", "CONNECTED", "RESETDELAYED", "RESETPENDING",
                                     "RESETCOMPLETE", "READY"}],
                 resetFlag : [Ports -> BOOLEAN], delayResets : BOOLEAN]
    /\ next \in 0 .. NumPorts
    /\ timer \in [Ports -> {"none", "reset", "address", "peek"}]
    /\ io \in [Ports -> Reads \cup {"none", "address"}]
    /\ ep \in [Ports -> BOOLEAN] /\ limbo \in [Ports -> BOOLEAN]
    /\ dying \in 0 .. MaxEndpoints /\ free \in 0 .. MaxEndpoints
    /\ driver \in [Ports -> BOOLEAN]

\* Only one device at a time answers to address 0: the next is reset when the
\* one before has its own address (hubPeekDeviceDescriptor), or when usbd has
\* given up on it and it waits for another reset.
OneAtDefaultAddress ==
    Cardinality({p \in Ports : line[p].address = "default" /\ pool.status[p] # "RESETDELAYED"}) <= 1

\* While resets are put off there is a port whose reset they wait for, and
\* whose progress or removal will let them go on (checkDelayedResets).
ResetsGoOn ==
    pool.delayResets => \E p \in Ports : /\ pool.resetFlag[p]
                                         /\ pool.status[p] \in {"RESETPENDING", "RESETCOMPLETE", "READY"}

\* No port waits for its turn when there is nobody to give it one.
NoneForgotten == Delayed(pool) # {} => pool.delayResets

\* A port's ioRequest is not used again while the controller may still have it
\* from before the device was unplugged (flushPort clears busyFlag at once).
RequestNotReused == \A p \in Ports : io[p] # "none" => ~limbo[p]

Open == Cardinality({p \in Ports : ep[p]})
Limbo == Cardinality({p \in Ports : limbo[p]})

\* No endpoint is lost or freed twice: each is free, open, or waits for
\* killEndpoint.
EndpointsKept == free + Open + Limbo + dying = MaxEndpoints

Unsettled(p) == line[p].plugged /\ ~(pool.status[p] = "READY" /\ timer[p] = "none" /\ io[p] = "none")

=============================================================================
