------------------------------- MODULE MCBlocks -------------------------------
(***************************************************************************)
(* What stands between the block device manager and a medium: the cache,   *)
(* and the drivers of hard disk and SD card.  One of them moves in a       *)
(* behaviour and the others stay as they begin; part says which: "cache",  *)
(* "ata" (sectors of 512 bytes), "4k" (sectors of several blocks),         *)
(* "gamestar" (the adaptor of that name), "card" (a card with every        *)
(* fault), "good card" (one without).                                      *)
(***************************************************************************)
EXTENDS BdCache

VARIABLES part,
    platter, dev, fifo, dmaOn, call, t, cmd, flag, alarm, mask, exists, ataReply,
    card, sdCall, thread, sdCmd, events, dma, intr, baud, sdReply

Ata == INSTANCE AtaCommand WITH sectorCount <- 2, PerSector <- 1, Requested <- {0}, MaxCount <- 2,
            Data <- {1, 2}, Extended <- {}, Byte <- 1, Word <- 4, Buffered <- 2, Retries <- 2,
            gamestar <- FALSE, Faults <- {"error", "slow"}, disk <- platter, reply <- ataReply
Large == INSTANCE AtaCommand WITH sectorCount <- 1, PerSector <- 2, Requested <- {0}, MaxCount <- 1,
            Data <- {1, 2}, Extended <- {0}, Byte <- 1, Word <- 4, Buffered <- 2, Retries <- 2,
            gamestar <- FALSE, Faults <- {"quit", "slow", "card"}, disk <- platter, reply <- ataReply
Gamestar == INSTANCE AtaCommand WITH sectorCount <- 2, PerSector <- 1, Requested <- {0}, MaxCount <- 2,
            Data <- {1, 2}, Extended <- {}, Byte <- 1, Word <- 4, Buffered <- 2, Retries <- 2,
            gamestar <- TRUE, Faults <- {"error", "quit"}, disk <- platter, reply <- ataReply

TurnedRound == [d \in {1, 2} |-> 3 - d]

Card == INSTANCE SdTransfer WITH sectorCount <- 2, Requested <- {0}, Data <- {1, 2}, Reverse <- TurnedRound,
            MaxCount <- 2, MAX_RETRIES <- 2, Faults <- {"command", "token", "hang", "lost", "slow", "dead"},
            call <- sdCall, cmd <- sdCmd, reply <- sdReply
GoodCard == INSTANCE SdTransfer WITH sectorCount <- 2, Requested <- {0, 1}, Data <- {1, 2}, Reverse <- TurnedRound,
            MaxCount <- 2, MAX_RETRIES <- 2, Faults <- {}, call <- sdCall, cmd <- sdCmd, reply <- sdReply

ataVars == <<platter, dev, fifo, dmaOn, call, t, cmd, flag, alarm, mask, exists, ataReply>>
sdVars == <<card, sdCall, thread, sdCmd, events, dma, intr, baud, sdReply>>
MCVars == <<part, vars, ataVars, sdVars>>

Disks == {"ata", "4k", "gamestar"}
Cards == {"card", "good card"}
Blank == [s \in {0, 1} |-> 1]

MCInit ==
    /\ part \in {"cache"} \cup Disks \cup Cards
    /\ Init /\ (part # "cache" => disk = [s \in Device!Sectors |-> 1] /\ cache = [b \in Blocks |-> [o \in Offsets |-> 1]])
    /\ Ata!Init /\ (part \notin Disks => platter = Blank)
    /\ Card!Init /\ (part \notin Cards => card = Blank)

MCNext ==
    /\ UNCHANGED part
    /\ \/ part = "cache" /\ Next /\ UNCHANGED <<ataVars, sdVars>>
       \/ part = "ata" /\ Ata!Next /\ UNCHANGED <<vars, sdVars>>
       \/ part = "4k" /\ Large!Next /\ UNCHANGED <<vars, sdVars>>
       \/ part = "gamestar" /\ Gamestar!Next /\ UNCHANGED <<vars, sdVars>>
       \/ part = "card" /\ Card!Next /\ UNCHANGED <<vars, ataVars>>
       \/ part = "good card" /\ GoodCard!Next /\ UNCHANGED <<vars, ataVars>>

MCSpec == MCInit /\ [][MCNext]_MCVars

-----------------------------------------------------------------------------
\* Weights, registers, counters and flags keep their ranges.
Types == TypeOK /\ (IF part = "4k" THEN Large!TypeOK ELSE Ata!TypeOK) /\ Card!TypeOK

\* A command that sceAtaWaitResult reports as successful is the one that was sent,
\* and the disk has executed all of it: a completion that is left over from a
\* command that timed out is not taken for the new command's, no alarm of an earlier
\* command is armed when sceAtaExecCmd sets its own, and the driver expects exactly the
\* blocks that the disk has yet to pass and those that are in the buffer.  No command
\* is sent to the card while the DMA of a sector runs, and a request within a card that
\* makes no mistakes is done at the first attempt: no event of the interrupt handler
\* gets lost between PollEventFlag and ClearEventFlag.
CommandsSound ==
    /\ Types /\ Ata!OkMeansDone /\ Ata!NoAlarmLeft
    /\ part # "gamestar" => Ata!BlocksOfCommand
    /\ Card!PioAlone
    /\ part = "good card" => GoodCard!FirstAttempt

\* To its users the disk is a block device, whatever interrupts, alarms and blocks of
\* earlier commands are still about (ata_bd_read, ata_bd_write).
DiskIsDevice ==
    /\ Ata!Device!Init
    /\ [][IF part = "4k"
          THEN Large!Device!Next \/ UNCHANGED <<Large!Seen, Large!Asked, ataReply>>
          ELSE Ata!Device!Next \/ UNCHANGED <<Ata!Seen, Ata!Asked, ataReply>>]_ataVars

\* However transfers are stopped and taken up again, spisd_read and spisd_write keep
\* the promise of a block device.
CardIsDevice == GoodCard!CardIsDevice
=============================================================================
