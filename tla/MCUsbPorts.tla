---------------------------- MODULE MCUsbPorts ----------------------------
(***************************************************************************)
(* The root ports and a hub.  One of them moves in a behaviour and the     *)
(* other stays as it begins; part says which, and what may go wrong there. *)
(***************************************************************************)
EXTENDS UsbPorts

VARIABLES part, hubPorts, hubLine, m, hubTimer, hubPlugs

\* devices that may not answer, and fewer endpoints than they want
Calm == INSTANCE UsbPorts WITH MaxEndpoints <- 1, MaxPlugs <- 2, MaxFaults <- 2, Faults <- {"noresponse"}

\* a hub with two ports beside one device at a root port
Hub == INSTANCE UsbHub WITH NumPorts <- 2, MaxPlugs <- 4, Faults <- {"hub"},
            line <- hubPorts, timer <- hubTimer, plugs <- hubPlugs

\* the same, and everything that may happen to it
BadHub == INSTANCE UsbHub WITH NumPorts <- 2, MaxPlugs <- 2,
            Faults <- {"race", "pull", "kill", "disable", "hub", "pool"},
            line <- hubPorts, timer <- hubTimer, plugs <- hubPlugs

hubVars == <<hubPorts, hubLine, m, hubTimer, hubPlugs>>
MCVars == <<part, vars, hubVars>>

MCInit ==
    /\ part \in {"ports", "calm", "hub", "badHub"}
    /\ IF part = "calm" THEN Calm!Init ELSE Init
    /\ Hub!Init

MCNext ==
    /\ UNCHANGED part
    /\ \/ part = "ports" /\ Next /\ UNCHANGED hubVars
       \/ part = "calm" /\ Calm!Next /\ UNCHANGED hubVars
       \/ part = "hub" /\ Hub!Next /\ UNCHANGED vars
       \/ part = "badHub" /\ BadHub!Next /\ UNCHANGED vars

HubDevice(p) == Hub!ResetEnds(p) \/ Hub!TimerReset(p) \/ Hub!Addressed(p)

\* FairSpec of UsbPorts and of UsbHub; only one of the parts takes steps
MCSpec ==
    /\ MCInit /\ [][MCNext]_MCVars
    /\ WF_vars(part = "ports" /\ HandleRhsc)
    /\ WF_vars(part = "ports" /\ HandlePort)
    /\ WF_vars(part = "ports" /\ KillEndpoint)
    /\ \A p \in Ports : WF_vars(part = "ports" /\ Handler(p))
    /\ WF_hubVars(part = "hub" /\ (Hub!StatusChange \/ Hub!Answered))
    /\ WF_hubVars(part = "hub" /\ Hub!RootChange)
    /\ \A p \in 1 .. 3 : WF_hubVars(part = "hub" /\ HubDevice(p))

-----------------------------------------------------------------------------
\* Only one device at a time answers to address 0: the next is reset when the
\* one before has its own address (hubPeekDeviceDescriptor), or when usbd has
\* given up on it and it waits for another reset.
DefaultAddressAlone == part = "calm" => OneAtDefaultAddress

\* The hub is heard of again: its status pipe is read, a request to it is under
\* way, or a port waits for a reset, after which it is.  A port that is said to be
\* reset is being reset: the request is on its way, or the port is in reset, or its
\* change bits are being looked at.
HubHeard == Hub!TypeOK /\ Hub!NotDeaf /\ (part = "hub" => Hub!ResetUnderWay)

\* Resets are put off only for a device that is being reset or addressed, and no
\* device waits for its turn when none are put off, at the root and whatever happens
\* to the hub.  No request, timer or endpoint of a device that has gone is used for
\* the next one or lost.
PortsKept ==
    /\ TypeOK /\ ResetsGoOn /\ NoneForgotten /\ RequestNotReused
    /\ IF part = "calm" THEN Calm!EndpointsKept ELSE EndpointsKept
    /\ Hub!ResetsGoOn /\ HubHeard

\* Every device that stays plugged in is enumerated, at a root port however the
\* others come, go and fail, if transfers go wrong only finitely often, and behind
\* a hub.
Enumerated ==
    /\ \A p \in Ports : part = "ports" /\ Unsettled(p) ~> ~Unsettled(p)
    /\ \A p \in Hub!Devices : part = "hub" /\ Hub!Unaddressed(p) ~> ~Hub!Unaddressed(p)
=============================================================================
