----------------------------- MODULE MCUsbBulk -----------------------------
(***************************************************************************)
(* bdm_thread (priority 0x30) works on one drive, usb_mass_update (0x10,   *)
(* so it runs first) on another; most runs have the first thread only.     *)
(* part says which drive it is: "main" is as the constants say, one that   *)
(* is "rough" takes one sector per command and may do all that can go      *)
(* wrong, and one that is "fair" never breaks a transfer off without       *)
(* telling the host.                                                       *)
(***************************************************************************)
EXTENDS UsbBulk, TLC

CONSTANTS bdm, update, drive1, drive2, Parts

VARIABLE part

MCDrive == [t \in Threads |-> IF t = bdm THEN drive1 ELSE drive2]
MCPriority == [t \in Threads |-> IF t = bdm THEN 1 ELSE 2]
\* usbd numbers the pipes of the first drive 1 and 2 (0 is the control pipe);
\* a common drive has its bulk pipes at 0x81 and 0x02, another at 0x81 and 0x01
MCPipes == [d \in {drive1, drive2} |-> "in" :> 1 @@ "out" :> 2]
Address2 == [d \in {drive1, drive2} |-> "in" :> 129 @@ "out" :> 2]
Address1 == [d \in {drive1, drive2} |-> "in" :> 129 @@ "out" :> 1]

Rough == INSTANCE UsbBulk WITH max_sectors <- 1, TagCount <- 1, bEndpointAddress <- Address2,
             Faults <- {"cbw", "in", "out", "control", "stall", "short", "fail", "phase"}
Fair == INSTANCE UsbBulk WITH bEndpointAddress <- Address2, Data <- {CHOOSE any \in Data : TRUE}, MaxCount <- 1,
             Faults <- {"cbw", "in", "control", "stall", "fail", "phase"}

MCInit ==
    /\ part \in Parts
    /\ IF part = "fair" THEN Fair!Init ELSE Init

MCNext ==
    /\ UNCHANGED part
    /\ \/ part = "main" /\ Next
       \/ part = "rough" /\ Rough!Next
       \/ part = "fair" /\ Fair!Next

\* as FairSpec of UsbBulk has it
MCSpec ==
    /\ MCInit /\ [][MCNext]_<<part, vars>>
    /\ \A t \in Threads : WF_vars(part = "fair" /\ Fair!Proceeds(t))

-----------------------------------------------------------------------------
\* Every call of scsi_read, scsi_write and scsi_cmd returns: no error path of
\* the transport waits for an answer that a fair drive will not give.
FairReturns == \A t \in Threads : part = "fair" /\ thread[t].pc # "idle" ~> thread[t].pc = "idle"
=============================================================================
