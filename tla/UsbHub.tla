------------------------------- MODULE UsbHub -------------------------------
(***************************************************************************)
(* The driver of an external hub (usbd_hub.c).  The hub's status change    *)
(* pipe says at which ports something has changed; the driver then reads   *)
(* the port's status, clears the change bits one by one and acts.  Each    *)
(* hub has one control request: a second one is dropped while it is busy   *)
(* (HubControlTransfer).  The resets take turns with those of the rest of  *)
(* the bus, which is one more device here, at a root port.                 *)
(* The addressing of a device is one step; UsbPorts has its parts.         *)
(***************************************************************************)
EXTENDS Naturals, FiniteSets

CONSTANTS
    NumPorts,    \* ports of the hub
    MaxPlugs,    \* how often something is plugged in, or the hub reports its own state
    Faults       \* see Undisturbed, Unplug, PortError, HubEvent, Attached and KillDevice

HubPorts == 1 .. NumPorts
Root == NumPorts + 1
Devices == 1 .. Root      \* in the order of checkDelayedResetsTree

VARIABLES
    line,      \* the hub's ports
    hubLine,   \* the hub's own change bits
    m,         \* the pool: deviceStatus, resetFlag, delayResets; and the UsbHub
    timer,     \* what a device's timer waits for
    plugs

vars == <<line, hubLine, m, timer, plugs>>

Empty == [power |-> FALSE, connected |-> FALSE, enabled |-> FALSE, reset |-> FALSE, change |-> {}]
Idle == [req |-> "none", port |-> 0]

\* hubDrvConnect has bound the hub and asked it to take its configuration
Init ==
    /\ line = [p \in Devices |-> [Empty EXCEPT !.power = p = Root]]
    /\ hubLine = {}
    /\ m = [status |-> [p \in Devices |-> "NOTCONNECTED"], resetFlag |-> [p \in Devices |-> FALSE],
            delayResets |-> FALSE, control |-> [req |-> "SET_CONFIGURATION", port |-> 0],
            armed |-> FALSE, info |-> {}, hubStatusCounter |-> 0, portStatusChange |-> Empty,
            hubStatusChange |-> {}, numChildDevices |-> 0]
    /\ timer = [p \in Devices |-> "none"]
    /\ plugs = 0

First(S) == CHOOSE p \in S : \A q \in S : p <= q

-----------------------------------------------------------------------------
(* Requests to the hub; h is m *)

HubControlTransfer(h, req, port) ==
    IF h.control = Idle THEN [h EXCEPT !.control = [req |-> req, port |-> port]] ELSE h

\* of a status request only one is pending
GetHubStatusChange(h) == [h EXCEPT !.armed = TRUE]

\* the hub itself comes first; while a port is reset only that port is listened to
HubStatusChangeCallback(h) ==
    LET turn == IF h.hubStatusCounter > 0 THEN h.info \cap {h.hubStatusCounter}
                ELSE h.info \cap 1 .. h.numChildDevices
    IN  IF 0 \in h.info THEN HubControlTransfer([h EXCEPT !.info = @ \ {0}], "HUB_STATUS", 0)
        ELSE IF turn = {} THEN GetHubStatusChange(h)
        ELSE HubControlTransfer([h EXCEPT !.info = @ \ {First(turn)}], "GET_STATUS", First(turn))

HubResetDevice(h, p) ==
    IF h.delayResets THEN [h EXCEPT !.status[p] = "RESETDELAYED"]
    ELSE LET r == [h EXCEPT !.delayResets = TRUE, !.status[p] = "RESETPENDING", !.resetFlag[p] = TRUE]
         IN  IF p = Root THEN r
             ELSE HubControlTransfer([r EXCEPT !.hubStatusCounter = p], "PORT_RESET", p)

Delayed(h) == {p \in Devices : h.status[p] = "RESETDELAYED"}

CheckDelayedResets(h, p) ==
    LET c == [h EXCEPT !.delayResets = FALSE, !.resetFlag[p] = FALSE]
    IN  IF Delayed(c) = {} THEN c ELSE HubResetDevice(c, First(Delayed(c)))

FlushPort(h, p) ==
    LET f == [h EXCEPT !.status[p] = "NOTCONNECTED"]
    IN  IF h.resetFlag[p] THEN CheckDelayedResets(f, p) ELSE f

-----------------------------------------------------------------------------
(* The hub and the bus *)

\* nothing changes at a port between the reading of its status and the clearing
\* of its change bits: the new change would be cleared with the old
Undisturbed(p) == "race" \in Faults \/ m.control.port # p

Plug(p) ==
    /\ ~line[p].connected /\ plugs < MaxPlugs
    /\ Undisturbed(p)
    /\ line' = [line EXCEPT ![p].connected = TRUE,
                            ![p].change = IF line[p].power THEN @ \cup {"C_PORT_CONNECTION"} ELSE @]
    /\ plugs' = plugs + 1
    /\ UNCHANGED <<hubLine, m, timer>>

\* without "pull" a device stays until it has its address
Unplug(p) ==
    /\ line[p].connected
    /\ "pull" \in Faults \/ m.status[p] \in {"NOTCONNECTED", "READY"}
    /\ Undisturbed(p)
    /\ line' = [line EXCEPT ![p] = [Empty EXCEPT
                  !.power = line[p].power,
                  !.change = IF line[p].power THEN line[p].change \cup {"C_PORT_CONNECTION"} ELSE {}]]
    /\ UNCHANGED <<hubLine, m, timer, plugs>>

ResetEnds(p) ==
    /\ line[p].reset
    /\ line' = [line EXCEPT ![p].reset = FALSE, ![p].enabled = TRUE, ![p].change = @ \cup {"C_PORT_RESET"}]
    /\ UNCHANGED <<hubLine, m, timer, plugs>>

\* the hub disables a port after an error on it
PortError(p) ==
    /\ "disable" \in Faults /\ p # Root
    /\ line[p].enabled
    /\ Undisturbed(p)
    /\ line' = [line EXCEPT ![p].enabled = FALSE, ![p].change = @ \cup {"C_PORT_ENABLE"}]
    /\ UNCHANGED <<hubLine, m, timer, plugs>>

\* the hub loses its local power, or too much current flows
HubEvent ==
    /\ "hub" \in Faults /\ plugs < MaxPlugs
    /\ \E bit \in {"C_HUB_LOCAL_POWER", "C_HUB_OVER_CURRENT"} \ hubLine : hubLine' = hubLine \cup {bit}
    /\ plugs' = plugs + 1
    /\ UNCHANGED <<line, m, timer>>

\* what the status change pipe has to say
Changed == {p \in HubPorts : line[p].change # {}} \cup (IF hubLine # {} THEN {0} ELSE {})

\* the status change pipe delivers, and hubStatusChangeCallback runs
StatusChange ==
    /\ m.armed
    /\ Changed # {}
    /\ m' = HubStatusChangeCallback([m EXCEPT !.armed = FALSE, !.info = Changed])
    /\ UNCHANGED <<line, hubLine, timer, plugs>>

-----------------------------------------------------------------------------
(* The end of a control request; its busyFlag is clear when the callback runs *)

Released == [m EXCEPT !.control = Idle]

\* hubCheckDeviceDesc: the descriptor may have been read with the others
ConfigurationSet ==
    /\ m.control.req = "SET_CONFIGURATION"
    /\ \E next \in {"GET_DESCRIPTOR", "SETUP_STATUS"} : m' = HubControlTransfer(Released, next, 0)
    /\ UNCHANGED <<line, hubLine, timer, plugs>>

\* hubCheckPorts; this hub has no more ports than usbd is configured for
DescriptorRead ==
    /\ m.control.req = "GET_DESCRIPTOR"
    /\ m' = HubControlTransfer(Released, "SETUP_STATUS", 0)
    /\ UNCHANGED <<line, hubLine, timer, plugs>>

\* the ports for which attachChildDevice finds a free device
Attached == IF "pool" \in Faults THEN 0 .. NumPorts ELSE {NumPorts}

\* hubSetPortPower, which powers the ports one by one and then listens
HubSetPortPower(h, port) ==
    IF port <= h.numChildDevices THEN HubControlTransfer(h, "PORT_POWER", port) ELSE GetHubStatusChange(h)

HubSetupPorts ==
    /\ m.control.req = "SETUP_STATUS"
    /\ \E n \in Attached :
          m' = IF n > 0 THEN HubSetPortPower([Released EXCEPT !.numChildDevices = n], 1) ELSE Released
    /\ UNCHANGED <<line, hubLine, timer, plugs>>

PortPowered ==
    /\ m.control.req = "PORT_POWER"
    /\ LET p == m.control.port IN
         /\ line' = [line EXCEPT ![p].power = TRUE,
                                 ![p].change = IF line[p].connected THEN {"C_PORT_CONNECTION"} ELSE {}]
         /\ m' = HubSetPortPower(Released, p + 1)
    /\ UNCHANGED <<hubLine, timer, plugs>>

\* hubGetHubStatusCallback, which clears the hub's own change bits
HubGetHubStatusCallback(h) ==
    CASE "C_HUB_LOCAL_POWER" \in h.hubStatusChange ->
           HubControlTransfer([h EXCEPT !.hubStatusChange = @ \ {"C_HUB_LOCAL_POWER"}], "C_HUB_LOCAL_POWER", 0)
      [] h.hubStatusChange = {"C_HUB_OVER_CURRENT"} ->
           HubControlTransfer([h EXCEPT !.hubStatusChange = {}], "C_HUB_OVER_CURRENT", 0)
      [] OTHER -> HubStatusChangeCallback(h)

HubStatusRead ==
    /\ m.control.req = "HUB_STATUS"
    /\ m' = HubGetHubStatusCallback([Released EXCEPT !.hubStatusChange = hubLine])
    /\ UNCHANGED <<line, hubLine, timer, plugs>>

HubFeatureCleared ==
    /\ m.control.req \in {"C_HUB_LOCAL_POWER", "C_HUB_OVER_CURRENT"}
    /\ hubLine' = hubLine \ {m.control.req}
    /\ m' = HubGetHubStatusCallback(Released)
    /\ UNCHANGED <<line, timer, plugs>>

\* the order in which hubGetPortStatusCallback clears the change bits; the bits
\* for suspend and over-current, between the last two, are not raised here
Features == <<"C_PORT_CONNECTION", "C_PORT_ENABLE", "C_PORT_RESET">>
FirstFeature(S) == Features[First({i \in 1 .. 3 : Features[i] \in S})]

ClearFeature(p, s) ==
    /\ s.change # {}
    /\ m' = HubControlTransfer([Released EXCEPT !.portStatusChange = [s EXCEPT !.change = @ \ {FirstFeature(@)}]],
                               FirstFeature(s.change), p)
    /\ UNCHANGED timer

\* the port is new; the status pipe is not read again before its reset
Connected(p, s) ==
    /\ s.change = {} /\ s.connected /\ m.status[p] = "NOTCONNECTED"
    /\ m' = [Released EXCEPT !.status[p] = "CONNECTED"]
    /\ timer' = [timer EXCEPT ![p] = "reset"]

WasReset(p, s) ==
    /\ s.change = {} /\ s.connected /\ s.enabled /\ m.status[p] = "RESETPENDING"
    /\ m' = HubStatusChangeCallback([Released EXCEPT !.status[p] = "RESETCOMPLETE", !.hubStatusCounter = 0])
    /\ timer' = [timer EXCEPT ![p] = "address"]

NothingNew(p, s) ==
    /\ s.change = {} /\ s.connected
    /\ m.status[p] # "NOTCONNECTED" /\ (m.status[p] = "RESETPENDING" => ~s.enabled)
    /\ m' = HubStatusChangeCallback(Released)
    /\ UNCHANGED timer

Disconnected(p, s) ==
    /\ s.change = {} /\ ~s.connected
    /\ m' = HubStatusChangeCallback(FlushPort(Released, p))
    /\ timer' = [timer EXCEPT ![p] = "none"]

HubGetPortStatusCallback(p, s) ==
    ClearFeature(p, s) \/ Connected(p, s) \/ WasReset(p, s) \/ NothingNew(p, s) \/ Disconnected(p, s)

\* what PORT_RESET does at the root port
Written(l, after) ==
    IF after.status[Root] = "RESETPENDING" /\ m.status[Root] # "RESETPENDING" /\ l[Root].connected
    THEN [l EXCEPT ![Root].reset = TRUE] ELSE l

PortStatusRead ==
    /\ m.control.req = "GET_STATUS"
    /\ HubGetPortStatusCallback(m.control.port, line[m.control.port])
    /\ line' = Written(line, m')
    /\ UNCHANGED <<hubLine, plugs>>

FeatureCleared ==
    /\ m.control.req \in {"C_PORT_CONNECTION", "C_PORT_ENABLE", "C_PORT_RESET"}
    /\ HubGetPortStatusCallback(m.control.port, m.portStatusChange)
    /\ line' = Written([line EXCEPT ![m.control.port].change = @ \ {m.control.req}], m')
    /\ UNCHANGED <<hubLine, plugs>>

\* hubDeviceResetCallback; an empty port is not reset
ResetStarted ==
    /\ m.control.req = "PORT_RESET"
    /\ m' = GetHubStatusChange(Released)
    /\ line' = [line EXCEPT ![m.control.port].reset = line[m.control.port].connected]
    /\ UNCHANGED <<hubLine, timer, plugs>>

-----------------------------------------------------------------------------
(* The root port, and what all ports have in common *)

RootChange ==
    /\ line[Root].change # {}
    /\ IF ~line[Root].connected
       THEN m' = FlushPort(m, Root) /\ timer' = [timer EXCEPT ![Root] = "none"]
       ELSE IF m.status[Root] = "NOTCONNECTED"
       THEN m' = [m EXCEPT !.status[Root] = "CONNECTED"] /\ timer' = [timer EXCEPT ![Root] = "reset"]
       ELSE IF m.status[Root] = "RESETPENDING" /\ ~line[Root].reset
       THEN m' = [m EXCEPT !.status[Root] = "RESETCOMPLETE"] /\ timer' = [timer EXCEPT ![Root] = "address"]
       ELSE UNCHANGED <<m, timer>>
    /\ line' = Written([line EXCEPT ![Root].change = {}], m')
    /\ UNCHANGED <<hubLine, plugs>>

TimerReset(p) ==
    /\ timer[p] = "reset"
    /\ timer' = [timer EXCEPT ![p] = "none"]
    /\ m' = HubResetDevice(m, p)
    /\ line' = Written(line, m')
    /\ UNCHANGED <<hubLine, plugs>>

\* the device has its address and its descriptors are read
Addressed(p) ==
    /\ timer[p] = "address" /\ line[p].connected
    /\ timer' = [timer EXCEPT ![p] = "none"]
    /\ m' = CheckDelayedResets([m EXCEPT !.status[p] = "READY"], p)
    /\ line' = Written(line, m')
    /\ UNCHANGED <<hubLine, plugs>>

KillDevice(p) ==
    /\ "kill" \in Faults /\ timer[p] = "address"
    /\ timer' = [timer EXCEPT ![p] = "none"]
    /\ m' = HubResetDevice(CheckDelayedResets(m, p), p)
    /\ line' = Written(line, m')
    /\ UNCHANGED <<hubLine, plugs>>

-----------------------------------------------------------------------------
\* the end of a request to the hub
Answered ==
    \/ ConfigurationSet \/ DescriptorRead \/ HubSetupPorts \/ PortPowered
    \/ HubStatusRead \/ HubFeatureCleared
    \/ PortStatusRead \/ FeatureCleared \/ ResetStarted

Next ==
    \/ StatusChange
    \/ Answered
    \/ RootChange
    \/ HubEvent
    \/ \E p \in Devices : \/ Plug(p) \/ Unplug(p) \/ ResetEnds(p) \/ PortError(p)
                          \/ TimerReset(p) \/ Addressed(p) \/ KillDevice(p)

Spec == Init /\ [][Next]_vars

\* the hub and the devices answer, and timers run out
FairSpec ==
    /\ Spec
    /\ WF_vars(StatusChange \/ Answered)
    /\ WF_vars(RootChange)
    /\ \A p \in Devices : WF_vars(ResetEnds(p) \/ TimerReset(p) \/ Addressed(p))

-----------------------------------------------------------------------------
\* Types of the pool and of the hub's requests.
TypeOK ==
    /\ m.status \in [Devices -> {"NOTCONNECTED", "CONNECTED", "RESETDELAYED", "RESETPENDING",
                                 "RESETCOMPLETE", "READY"}]
    /\ m.resetFlag \in [Devices -> BOOLEAN] /\ m.delayResets \in BOOLEAN
    /\ m.control \in [req : {"none", "SET_CONFIGURATION", "GET_DESCRIPTOR", "SETUP_STATUS", "PORT_POWER",
                              "HUB_STATUS", "C_HUB_LOCAL_POWER", "C_HUB_OVER_CURRENT", "GET_STATUS",
                              "PORT_RESET", "C_PORT_CONNECTION", "C_PORT_ENABLE", "C_PORT_RESET"},
                      port : 0 .. NumPorts]
    /\ m.hubStatusCounter \in 0 .. NumPorts /\ m.info \subseteq 0 .. NumPorts
    /\ timer \in [Devices -> {"none", "reset", "address"}]

\* A port of the hub that is said to be reset is being reset: the request is on
\* its way, or the port is in reset, or its change bits are being looked at.
ResetUnderWay ==
    \A p \in HubPorts : m.status[p] = "RESETPENDING" =>
       m.control.port = p \/ line[p].reset \/ line[p].change # {}

\* The hub is heard of again: its status pipe is read, a request to it is under
\* way, or a port waits for a reset, after which it is.
NotDeaf ==
    \/ m.armed
    \/ m.control # Idle
    \/ m.numChildDevices = 0
    \/ \E p \in HubPorts : m.status[p] \in {"CONNECTED", "RESETDELAYED"}

\* Resets are put off only for a device that is being reset or addressed, and no
\* device waits for its turn when none are put off.
ResetsGoOn ==
    /\ m.delayResets => \E p \in Devices : /\ m.resetFlag[p]
                                           /\ m.status[p] \in {"RESETPENDING", "RESETCOMPLETE"}
    /\ Delayed(m) # {} => m.delayResets

Unaddressed(p) == line[p].connected /\ m.status[p] # "READY"

=============================================================================
