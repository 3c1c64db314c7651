------------------------------- MODULE MCStart -------------------------------
(***************************************************************************)
(* How two drivers get hold of their hardware: the hooks that let mx4sio   *)
(* share the SIO2, and the start of the hard disk module.  One of them     *)
(* moves in a behaviour and the other stays as it begins; part says which: *)
(* "run" (mx4sio stays loaded), "unload" (it is unloaded while the         *)
(* libraries keep still and nobody reads files), "disks" (any devices on   *)
(* the bus and any failure), "disk" (one device, and no name taken).       *)
(***************************************************************************)
EXTENDS Sio2Lock

VARIABLES part, kind, spun, pc, back, i, devinfo, locked, connected, wait, hooks, result, mount,
    inCommand, faults

Unloaded == INSTANCE Sio2Lock WITH Loaded <- {"pad"}, Quiet <- TRUE, Stops <- TRUE

AnyKind == {"none", "disk", "packet", "other"}

Disks == INSTANCE AtaStart WITH FirstKinds <- AnyKind, SecondKinds <- AnyKind, MaxFaults <- 3,
            Faults <- {"hardware", "memory", "table", "bus"}
Disk == INSTANCE AtaStart WITH FirstKinds <- AnyKind, SecondKinds <- {"none"}, MaxFaults <- 3,
            Faults <- {"hardware", "memory", "bus"}

ataVars == <<kind, spun, pc, back, i, devinfo, locked, connected, wait, hooks, result, mount, inCommand, faults>>
MCVars == <<part, vars, ataVars>>

MCInit ==
    /\ part \in {"run", "unload", "disks", "disk"}
    /\ IF part = "unload" THEN Unloaded!Init ELSE Init
    /\ IF part = "disks" THEN Disks!Init ELSE Disk!Init
    /\ part \in {"run", "unload"} => kind[0] = "none"

\* the start is over, or holds the boot until there is a file system
AtaEnds == part \in {"disks", "disk"} /\ (result # "none" \/ wait.detected) /\ UNCHANGED MCVars

MCNext ==
    /\ UNCHANGED part
    /\ \/ part = "run" /\ Next /\ UNCHANGED ataVars
       \/ part = "unload" /\ Unloaded!Next /\ UNCHANGED <<user, ataVars>>
       \/ part = "disks" /\ Disks!Next /\ UNCHANGED vars
       \/ part = "disk" /\ Disk!Next /\ UNCHANGED vars
       \/ AtaEnds

\* FairSpec of Sio2Lock, whose fair steps are the same in both instances, and of AtaStart
Locks == part \in {"run", "unload"}

MCSpec ==
    /\ MCInit /\ [][MCNext]_MCVars
    /\ SF_vars(Locks /\ ModuleStep)
    /\ \A c \in Clients :
          /\ SF_vars(Locks /\ InitLocks(c)) /\ SF_vars(Locks /\ InitOwn(c)) /\ SF_vars(Locks /\ TransferLocks(c))
          /\ WF_vars(Locks /\ TransferEnds(c)) /\ SF_vars(Locks /\ TransferReset(c))
          /\ WF_vars(Locks /\ ResetUnlocks(c))
    /\ \A u \in Users : SF_vars(Locks /\ ReadLocks(u)) /\ WF_vars(Locks /\ ReadEnds(u))
    /\ WF_ataVars(part = "disk" /\ Disk!Start) /\ WF_ataVars(part = "disk" /\ Disk!Manager)
    /\ WF_ataVars(part = "disk" /\ Disk!SpinUp(0))

-----------------------------------------------------------------------------
\* However often the disks are probed, a disk is connected to the manager once,
\* and only a disk is connected (bdm_connect_bd in ata_init_devices).  With one disk on
\* the bus, only one thread at a time is between sceAtaExecCmd and the end of
\* sceAtaWaitResult, which share atad_cmd_state and the event flag.  A module that is
\* unloaded is not pointed to, unless a name that it registers is taken: no interrupt
\* handler, export or device of DEV9 and the ATA driver stays.
DisksSound ==
    /\ TypeOK /\ Disks!TypeOK /\ Disks!ConnectedOnce
    /\ part = "disk" => Disk!OneCommand /\ Disk!HooksStay

\* Who waits for the SIO2 gets it, and the stop of the module returns.  A disk that is
\* alone on the bus is found and connected in the end, however long it takes to be
\* ready and whatever failed before, unless the drivers did not start.
StartEnds ==
    /\ Served /\ StopReturns
    /\ (part = "disk" /\ kind[0] = "disk") ~> (connected[0] > 0 \/ result # "none")
=============================================================================
