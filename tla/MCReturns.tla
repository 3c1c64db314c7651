------------------------------ MODULE MCReturns ------------------------------
(***************************************************************************)
(* That the calls of the block device manager and of the drivers of hard   *)
(* disk and SD card come to their ends.  One of them moves in a behaviour  *)
(* and the others stay as they begin; part says which: "bdm" (a USB stick  *)
(* with one MBR partition and a fixed disk whose GPT spreads two           *)
(* partitions over two sectors), "ata" or "card" (with every fault).       *)
(***************************************************************************)
EXTENDS Bdm, TLC

CONSTANTS usb, hdd

VARIABLES part,
    platter, dev, fifo, dmaOn, ataCall, t, ataCmd, flag, alarm, mask, exists, ataReply,
    card, sdCall, sdThread, sdCmd, sdEvents, dma, intr, baud, sdReply

MCName == usb :> "usb" @@ hdd :> "ata"
MCScheme == usb :> "MBR" @@ hdd :> "GPT"
MCTable == usb :> <<<<1>>>> @@ hdd :> <<<<1>>, <<2>>>>
MCFat == {<<usb, 1>>, <<hdd, 1>>, <<hdd, 2>>}
MCReady == {<<usb, 1>>, <<hdd, 2>>}

Ata == INSTANCE AtaCommand WITH sectorCount <- 1, PerSector <- 1, Requested <- {0}, MaxCount <- 1,
            Data <- {1}, Extended <- {}, Byte <- 1, Word <- 4, Buffered <- 2, Retries <- 2, gamestar <- FALSE,
            Faults <- {"error", "quit", "slow", "notready", "alarms", "card"},
            disk <- platter, call <- ataCall, cmd <- ataCmd, reply <- ataReply

Card == INSTANCE SdTransfer WITH sectorCount <- 2, Requested <- {0, 1}, Data <- {1}, Reverse <- <<1>>,
            MaxCount <- 2, MAX_RETRIES <- 2, Faults <- {"command", "token", "hang", "lost", "slow", "dead"},
            call <- sdCall, thread <- sdThread, cmd <- sdCmd, events <- sdEvents, reply <- sdReply

ataVars == <<platter, dev, fifo, dmaOn, ataCall, t, ataCmd, flag, alarm, mask, exists, ataReply>>
sdVars == <<card, sdCall, sdThread, sdCmd, sdEvents, dma, intr, baud, sdReply>>

MCInit ==
    /\ part \in {"bdm", "ata", "card"}
    /\ Init /\ Ata!Init /\ Card!Init

MCNext ==
    /\ UNCHANGED part
    /\ \/ part = "bdm" /\ Next /\ UNCHANGED <<ataVars, sdVars>>
       \/ part = "ata" /\ Ata!Next /\ UNCHANGED <<vars, sdVars>>
       \/ part = "card" /\ Card!Next /\ UNCHANGED <<vars, ataVars>>

\* as the FairSpec of each part has it
MCSpec ==
    /\ MCInit /\ [][MCNext]_<<part, vars, ataVars, sdVars>>
    /\ WF_vars(part = "bdm" /\ BdmThread)
    /\ SF_vars(part = "bdm" /\ BdmFilterSlot) /\ SF_vars(part = "bdm" /\ FatfsLock)
    /\ WF_vars(part = "bdm" /\ ConnectFs) /\ WF_vars(part = "bdm" /\ ConnectInsert)
    /\ WF_vars(part = "bdm" /\ SetAtaOnlyRaises) /\ WF_vars(part = "bdm" /\ SetAtaOnlyReturns)
    /\ WF_vars(part = "bdm" /\ ClientEnd)
    /\ WF_ataVars(part = "ata" /\ Ata!Thread) /\ WF_ataVars(part = "ata" /\ Ata!ata_intr_cb)
    /\ WF_ataVars(part = "ata" /\ Ata!Alarm)
    /\ WF_sdVars(part = "card" /\ Card!Step) /\ WF_sdVars(part = "card" /\ Card!Isr)

-----------------------------------------------------------------------------
\* No wake-up of bdm_thread and no call of the callback is missed: the thread only
\* waits when every device has been probed, and a callback is told of a mount,
\* even if it is registered while bdm_thread mounts.
NothingMissed == IdleMeansProbed /\ CallbackTold

\* Every command and transfer of the hard disk returns, also if the disk never answers: a
\* wait ends with the alarm at the latest, and the polls are counted.
CommandsReturn == ataCall # Ata!NoCall ~> ataCall = Ata!NoCall

\* Every call of spisd_read and spisd_write comes to its end.
TransfersReturn == sdCall # Card!NoCall ~> sdCall = Card!NoCall

\* What a boot waits for happens: bdm_set_ata_only returns, the fixed disk becomes
\* ready, and the calls of both drivers end.
CallsReturn == FilterReturns /\ HddReady /\ CommandsReturn /\ TransfersReturn
=============================================================================
