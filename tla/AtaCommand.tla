----------------------------- MODULE AtaCommand -----------------------------
(***************************************************************************)
(* The commands of the ATA driver (ps2atad.c).  sceAtaExecCmd arms an      *)
(* alarm and sends a command; sceAtaWaitResult waits for the interrupt or  *)
(* the alarm, which meet in one event flag, and moves the data, which the  *)
(* disk passes through a short buffer of the adaptor.  A transfer is cut   *)
(* into commands that the registers can express, and a command that a CRC  *)
(* error spoiled is sent again.  The disk may take longer than the alarm,  *)
(* so its interrupt may come when another command is under way.  To the    *)
(* users of the driver the disk is a block device.                         *)
(***************************************************************************)
EXTENDS Naturals, Sequences

CONSTANTS
    sectorCount,   \* logical sectors of the disk
    PerSector,     \* blocks of 512 bytes in a logical sector
    Requested,     \* sector numbers that a request may name
    MaxCount,      \* bound: sectors per request
    Data,          \* contents of one block
    Extended,      \* sectors that are addressed with 48 bits
    Byte, Word,    \* what fits into the sector count of a command, plain and extended
    Buffered,      \* blocks that the adaptor buffers
    Retries,
    gamestar,      \* ata_gamestar_workaround
    Faults         \* "error" (the disk reports one), "quit" (it ends a command early), "slow"
                   \* (the alarm goes off first), "notready", "alarms" (there is no free
                   \* alarm), "card" (the card was changed)

VARIABLES
    disk,     \* what the disk holds, by block
    dev,      \* the command that the disk executes, and its registers
    fifo,     \* the blocks in the adaptor's buffer, or for a write those it has room for
    dmaOn,    \* does the adaptor exchange blocks with the disk?
    call,     \* the call, its buffer and what the disk held before
    t,        \* where the thread is, and its local variables
    cmd,      \* atad_cmd_state
    flag,     \* ata_evflg
    alarm,    \* is the alarm armed?
    mask,     \* the interrupts that are enabled
    exists,   \* atad_devinfo[device].exists
    reply     \* what the last call of the block device interface returned

program == <<call, t, cmd, exists, reply>>
signals == <<flag, alarm, mask>>
hardware == <<disk, dev, fifo, dmaOn>>
vars == <<program, signals, hardware>>

NoCall == [op |-> "none"]
Blocks == 0 .. sectorCount * PerSector - 1

\* during a call the disk counts as what it was before
Seen == IF call = NoCall THEN disk ELSE call.old

RequestedBlocks == {s * PerSector : s \in Requested}

\* the read or write under way, in blocks
Asked ==
    IF call.op = "read"
    THEN [op |-> "read", sector |-> call.sector * PerSector, count |-> call.count * PerSector]
    ELSE IF call.op = "write"
    THEN [op |-> "write", sector |-> call.sector * PerSector, count |-> call.count * PerSector,
          buffer |-> call.buffer]
    ELSE NoCall

Device == INSTANCE BlockDevice WITH
    disk <- Seen, request <- Asked, sectorCount <- sectorCount * PerSector, Requested <- RequestedBlocks,
    MaxCount <- MaxCount * PerSector

Idle == [pc |-> "idle", res |-> "OK", lba |-> 0, left |-> 0, at |-> 0, len |-> 0, retries |-> 0]
NoCommand == [type |-> "none", at |-> 0, blkcount |-> 0]
NoWork == [state |-> "idle", op |-> "none", ext |-> FALSE, next |-> 0, left |-> 0, err |-> "none",
           irq |-> FALSE, nien |-> FALSE]

Transfers == {"read", "write"}

\* the commands without data, and those whose data the processor moves
Others == {"flush", "identify"}

Type(op) == IF op \in Transfers THEN "dma" ELSE IF op = "flush" THEN "nondata" ELSE "pio"

Init ==
    /\ disk \in [Blocks -> Data]
    /\ dev = NoWork /\ fifo = <<>> /\ dmaOn = FALSE
    /\ call = NoCall /\ t = Idle /\ cmd = NoCommand
    /\ flag = {} /\ alarm = FALSE /\ mask = {} /\ exists = TRUE
    /\ reply = Device!Wrote

At(pc) == t.pc = pc
Goto(pc) == t' = [t EXCEPT !.pc = pc]
Transfer == call.op \in Transfers

-----------------------------------------------------------------------------
(* The calls *)

Call(op, s, n, buf) ==
    /\ At("idle")
    /\ call' = [op |-> op, sector |-> s, count |-> n, buffer |-> buf, old |-> disk]
    /\ t' = [Idle EXCEPT !.pc = IF op \in Transfers THEN "chunk" ELSE "exec", !.lba = s, !.left = n]
    /\ reply' = IF op \in Transfers THEN Device!Pending ELSE reply
    /\ UNCHANGED <<cmd, exists, signals, hardware>>

\* the buffer of a read holds anything
ata_bd_read(s, n) == Call("read", s, n, [k \in 1 .. n * PerSector |-> CHOOSE d \in Data : TRUE])
ata_bd_write(s, n, buf) == Call("write", s, n, buf)

\* sceAtaFlushCache and its like; ata_device_identify and the others that move one block
Command(op) == Call(op, 0, 0, <<>>)

Return ==
    /\ At("return")
    /\ call' = NoCall /\ t' = Idle
    /\ reply' = IF ~Transfer THEN reply
                ELSE IF t.res # "OK" THEN Device!Failed
                ELSE IF call.op = "read" THEN [ok |-> TRUE, data |-> call.buffer] ELSE Device!Wrote
    /\ UNCHANGED <<cmd, exists, signals, hardware>>

-----------------------------------------------------------------------------
(* ata_device_sector_io64 and ata_device_sector_io64_bdm_2 *)

Least(a, b) == IF a < b THEN a ELSE b

\* the sectors of the next command, in a 16 bit variable
CommandLen(lba, n) == IF lba \in Extended THEN Least(n, Word) % Word ELSE Least(n, Byte)

Chunk ==
    /\ At("chunk")
    /\ t' = IF t.res = "OK" /\ t.left > 0
            THEN [t EXCEPT !.pc = "exec", !.len = CommandLen(t.lba, t.left), !.retries = Retries]
            ELSE [t EXCEPT !.pc = "return"]
    /\ UNCHANGED <<call, cmd, exists, reply, signals, hardware>>

\* ata_set_dir empties the buffer and turns the DMA on
ata_set_dir == fifo' = <<>> /\ dmaOn' = TRUE

\* after sceAtaExecCmd: the number of blocks, and the direction
SetUp ==
    /\ At("setup")
    /\ cmd' = [cmd EXCEPT !.blkcount = t.len * PerSector]
    /\ IF gamestar THEN UNCHANGED <<fifo, dmaOn>> ELSE ata_set_dir
    /\ Goto("dma")
    /\ UNCHANGED <<call, exists, reply, signals, disk, dev>>

\* after sceAtaWaitResult
Again ==
    /\ At("after")
    /\ dmaOn' = FALSE
    /\ t' = IF t.res = "ICRC" /\ t.retries > 1
            THEN [t EXCEPT !.pc = "exec", !.retries = @ - 1]
            ELSE [t EXCEPT !.pc = "advance"]
    /\ UNCHANGED <<call, cmd, exists, reply, signals, disk, dev, fifo>>

\* mutant: the next command starts in the buffer where this one did
AdvanceStays ==
    /\ At("advance")
    /\ t' = [t EXCEPT !.pc = "chunk", !.lba = @ + t.len, !.left = @ - t.len]
    /\ UNCHANGED <<call, cmd, exists, reply, signals, hardware>>

Advance ==
    /\ At("advance")
    /\ t' = [t EXCEPT !.pc = "chunk", !.at = @ + t.len * PerSector, !.lba = @ + t.len, !.left = @ - t.len]
    /\ UNCHANGED <<call, cmd, exists, reply, signals, hardware>>

-----------------------------------------------------------------------------
(* sceAtaExecCmd *)

NotSent(r) == t' = [t EXCEPT !.pc = IF Transfer THEN "advance" ELSE "return", !.res = r]

Exec ==
    /\ At("exec")
    /\ flag' = {}
    /\ IF exists THEN Goto("select") ELSE NotSent("NODEV")
    /\ IF Transfer /\ gamestar THEN ata_set_dir ELSE UNCHANGED <<fifo, dmaOn>>
    /\ UNCHANGED <<call, cmd, exists, reply, alarm, mask, disk, dev>>

\* ata_device_select: the wait for the bus ends, or the last poll still finds it busy
ata_device_select ==
    /\ At("select")
    /\ IF dev.state = "idle" THEN Goto("prepare") ELSE NotSent("TIMEOUT")
    /\ UNCHANGED <<call, cmd, exists, reply, signals, hardware>>

UsesAlarm == Type(call.op) # "pio"

Prepare ==
    /\ At("prepare")
    /\ cmd' = [type |-> Type(call.op), at |-> t.at, blkcount |-> IF Transfer THEN t.len ELSE 1]
    /\ \/ "notready" \in Faults /\ NotSent("NOTREADY") /\ UNCHANGED alarm
       \/ "alarms" \in Faults /\ UsesAlarm /\ NotSent("alarm") /\ UNCHANGED alarm
       \/ alarm' = (alarm \/ UsesAlarm) /\ Goto("issue")
    /\ UNCHANGED <<call, exists, reply, flag, mask, hardware>>

\* the sectors that the count register of a command stands for
Commanded == LET most == IF t.lba \in Extended THEN Word ELSE Byte IN
             IF t.len % most = 0 THEN most ELSE t.len % most

Issue ==
    /\ At("issue")
    /\ mask' = IF cmd.type = "nondata" THEN mask \cup {"ATA0"} ELSE mask
    /\ dev' = [state |-> "busy", op |-> call.op, ext |-> t.lba \in Extended, next |-> t.lba * PerSector,
               left |-> CASE cmd.type = "dma" -> Commanded * PerSector
                          [] cmd.type = "pio" -> 1
                          [] OTHER -> 0,
               err |-> "none", irq |-> FALSE, nien |-> cmd.type = "pio"]
    /\ t' = [t EXCEPT !.res = "OK", !.pc = CASE cmd.type = "dma" -> "setup"
                                             [] cmd.type = "pio" -> "pioWait"
                                             [] OTHER -> "wait"]
    /\ UNCHANGED <<call, cmd, exists, reply, flag, alarm, disk, fifo, dmaOn>>

-----------------------------------------------------------------------------
(* sceAtaWaitResult *)

Got(bits) == bits = flag /\ flag # {} /\ flag' = {}

\* commands without data: a time-out leaves at once
WaitNonData ==
    /\ At("wait")
    /\ \E bits \in SUBSET {"TIMEOUT", "COMPLETE"} :
          /\ Got(bits)
          /\ t' = IF "TIMEOUT" \in bits THEN [t EXCEPT !.pc = "return", !.res = "TIMEOUT"]
                  ELSE [t EXCEPT !.pc = "status"]
    /\ UNCHANGED <<call, cmd, exists, reply, alarm, mask, hardware>>

\* SpdDmaTransfer of what the adaptor has, in ata_dma_complete
Move ==
    LET count == Least(cmd.blkcount, Len(fifo)) IN
    /\ cmd' = [cmd EXCEPT !.at = @ + count, !.blkcount = @ - count]
    /\ fifo' = SubSeq(fifo, count + 1, Len(fifo))
    /\ IF call.op = "read"
       THEN /\ call' = [call EXCEPT !.buffer =
                          [k \in DOMAIN @ |-> IF k - cmd.at \in 1 .. count THEN disk[fifo[k - cmd.at]] ELSE @[k]]]
            /\ UNCHANGED disk
       ELSE /\ disk' = [b \in Blocks |-> IF \E k \in 1 .. count : fifo[k] = b
                                         THEN call.buffer[cmd.at + CHOOSE k \in 1 .. count : fifo[k] = b]
                                         ELSE disk[b]]
            /\ UNCHANGED call

MovesBlocks ==
    /\ At("dma") /\ cmd.blkcount > 0 /\ fifo # <<>>
    /\ Move
    /\ UNCHANGED <<t, exists, reply, signals, dev, dmaOn>>

\* the polls found nothing
AwaitsBlocks ==
    /\ At("dma") /\ cmd.blkcount > 0 /\ fifo = <<>>
    /\ mask' = {"ATA0", "ATA1"}
    /\ Goto("dmaWait")
    /\ UNCHANGED <<call, cmd, exists, reply, flag, alarm, hardware>>

End(r) == t' = [t EXCEPT !.pc = "finish", !.res = r]

\* reading the status register takes the disk's interrupt back
ReadStatus == dev' = [dev EXCEPT !.irq = FALSE]

WaitBlocks ==
    /\ At("dmaWait")
    /\ \E bits \in SUBSET {"TIMEOUT", "COMPLETE"} :
          /\ Got(bits)
          /\ \/ "TIMEOUT" \in bits /\ End("TIMEOUT") /\ UNCHANGED <<cmd, call, disk, dev, fifo>>
             \/ /\ "TIMEOUT" \notin bits /\ fifo = <<>> /\ dev.err # "none"
                /\ ReadStatus /\ End(dev.err)
                /\ UNCHANGED <<cmd, call, disk, fifo>>
             \/ /\ "TIMEOUT" \notin bits /\ fifo = <<>> /\ dev.err = "none"
                /\ Goto("dma")
                /\ UNCHANGED <<cmd, call, disk, dev, fifo>>
             \/ /\ "TIMEOUT" \notin bits /\ fifo # <<>>
                /\ Move /\ Goto("dma")
                /\ UNCHANGED dev
    /\ UNCHANGED <<exists, reply, alarm, mask, dmaOn>>

\* all blocks are moved: is the interrupt there, or does it have to be waited for?
BlocksMoved ==
    /\ At("dma") /\ cmd.blkcount = 0
    /\ IF dev.irq THEN Goto("status") /\ UNCHANGED mask
                  ELSE Goto("endWait") /\ mask' = mask \cup {"ATA0"}
    /\ UNCHANGED <<call, cmd, exists, reply, flag, alarm, hardware>>

WaitEnd ==
    /\ At("endWait")
    /\ \E bits \in SUBSET {"TIMEOUT", "COMPLETE"} :
          Got(bits) /\ IF "TIMEOUT" \in bits THEN End("TIMEOUT") ELSE Goto("status")
    /\ UNCHANGED <<call, cmd, exists, reply, alarm, mask, hardware>>

\* commands whose data the processor moves; ata_wait_busy ends, or its last poll fails
PioBusy ==
    /\ At("pioWait")
    /\ IF dev.state = "busy" THEN End("TIMEOUT")
       ELSE Goto(IF cmd.blkcount = 0 THEN "status" ELSE "pio")
    /\ UNCHANGED <<call, cmd, exists, reply, signals, hardware>>

ata_pio_transfer ==
    /\ At("pio")
    /\ \/ dev.err # "none" /\ End("IO") /\ UNCHANGED <<cmd, dev>>
       \/ dev.err = "none" /\ dev.state # "drq" /\ End("NODATA") /\ UNCHANGED <<cmd, dev>>
       \/ /\ dev.state = "drq"
          /\ dev' = [dev EXCEPT !.state = "busy", !.left = @ - 1]
          /\ cmd' = [cmd EXCEPT !.blkcount = @ - 1]
          /\ Goto("pioWait")
    /\ UNCHANGED <<call, exists, reply, signals, disk, fifo, dmaOn>>

\* mutant: takes the interrupt's word for it
StatusTrusts ==
    /\ At("status")
    /\ ReadStatus
    /\ End(IF dev.err = "none" THEN "OK" ELSE dev.err)
    /\ UNCHANGED <<call, cmd, exists, reply, signals, disk, fifo, dmaOn>>

\* the disk is asked whether it is done; ata_wait_busy ends, or its last poll fails
Status ==
    /\ At("status")
    /\ ReadStatus
    /\ End(IF dev.state = "busy" THEN "TIMEOUT" ELSE IF dev.err = "none" THEN "OK" ELSE dev.err)
    /\ UNCHANGED <<call, cmd, exists, reply, signals, disk, fifo, dmaOn>>

Finish ==
    /\ At("finish")
    /\ alarm' = FALSE
    /\ Goto(IF Transfer THEN "after" ELSE "return")
    /\ UNCHANGED <<call, cmd, exists, reply, flag, mask, hardware>>

-----------------------------------------------------------------------------
(* The interrupt handler, the alarm, and a change of the card *)

Pending == {i \in mask : IF i = "ATA0" THEN dev.irq ELSE fifo # <<>>}

ata_intr_cb ==
    /\ Pending # {}
    /\ mask' = {} /\ flag' = flag \cup {"COMPLETE"}
    /\ UNCHANGED <<program, alarm, hardware>>

ata_alarm_cb ==
    /\ alarm /\ alarm' = FALSE
    /\ flag' = flag \cup {"TIMEOUT"}
    /\ UNCHANGED <<program, mask, hardware>>

NewCard ==
    /\ "card" \in Faults /\ Pending = {} /\ exists
    /\ exists' = FALSE
    /\ UNCHANGED <<call, t, cmd, reply, signals, hardware>>

-----------------------------------------------------------------------------
(* The disk.  It asserts its interrupt unless the command told it not to. *)

Ends(d) == dev' = [d EXCEPT !.state = "idle", !.irq = ~dev.nien]

\* the next block is in the buffer, or there is room for it
Offer ==
    /\ dev.state = "busy" /\ dev.op \in Transfers /\ dmaOn
    /\ dev.left > 0 /\ dev.next \in Blocks /\ Len(fifo) < Buffered
    /\ fifo' = Append(fifo, dev.next)
    /\ dev' = [dev EXCEPT !.next = @ + 1, !.left = @ - 1]
    /\ UNCHANGED <<program, signals, disk, dmaOn>>

Request ==
    /\ dev.state = "busy" /\ Type(dev.op) = "pio" /\ dev.left > 0
    /\ dev' = [dev EXCEPT !.state = "drq"]
    /\ UNCHANGED <<program, signals, disk, fifo, dmaOn>>

Completes ==
    /\ dev.state = "busy" /\ dev.left = 0 /\ (dev.op = "write" => fifo = <<>>)
    /\ Ends(dev)
    /\ UNCHANGED <<program, signals, disk, fifo, dmaOn>>

\* the disk fails, or is asked for sectors that it does not have
Fails ==
    /\ dev.state # "idle"
    /\ \E err \in IF Type(dev.op) = "dma" THEN {"ICRC", "IO"} ELSE {"IO"} :
          /\ "error" \in Faults \/ (err = "IO" /\ Type(dev.op) = "dma" /\ dev.left > 0 /\ dev.next \notin Blocks)
          /\ Ends([dev EXCEPT !.err = err])
    /\ UNCHANGED <<program, signals, disk, fifo, dmaOn>>

\* the disk ends a command without an error before it is done
Quits ==
    /\ "quit" \in Faults /\ dev.state # "idle" /\ dev.left > 0
    /\ Ends(dev)
    /\ UNCHANGED <<program, signals, disk, fifo, dmaOn>>

-----------------------------------------------------------------------------
Thread ==
    \/ Return \/ Chunk \/ SetUp \/ Again \/ Advance
    \/ Exec \/ ata_device_select \/ Prepare \/ Issue
    \/ WaitNonData \/ MovesBlocks \/ AwaitsBlocks \/ WaitBlocks \/ BlocksMoved \/ WaitEnd
    \/ PioBusy \/ ata_pio_transfer \/ Status \/ Finish

Alarm == "slow" \in Faults /\ ata_alarm_cb

Next ==
    \/ \E s \in Requested, n \in 0 .. MaxCount : ata_bd_read(s, n)
    \/ \E s \in Requested, n \in 0 .. MaxCount :
          \E buf \in [1 .. n * PerSector -> Data] : ata_bd_write(s, n, buf)
    \/ \E op \in Others : Command(op)
    \/ Thread \/ ata_intr_cb \/ Alarm \/ NewCard
    \/ Offer \/ Request \/ Completes \/ Fails \/ Quits

Spec == Init /\ [][Next]_vars

\* the disk may do nothing at all: the thread runs, interrupts and alarms come
Fairness == WF_vars(Thread) /\ WF_vars(ata_intr_cb) /\ WF_vars(Alarm)

FairSpec == Spec /\ Fairness

-----------------------------------------------------------------------------
(* Properties *)

TypeOK ==
    /\ disk \in [Blocks -> Data] /\ DOMAIN dev = DOMAIN NoWork
    /\ dev.state \in {"idle", "busy", "drq"} /\ dev.left \in 0 .. Word * PerSector
    /\ fifo \in Seq(Blocks) /\ Len(fifo) <= Buffered /\ dmaOn \in BOOLEAN
    /\ t.left \in 0 .. MaxCount /\ t.retries \in 0 .. Retries
    /\ cmd.blkcount \in Nat
    /\ flag \subseteq {"TIMEOUT", "COMPLETE"} /\ alarm \in BOOLEAN /\ mask \subseteq {"ATA0", "ATA1"}

\* To its users the disk is a block device: a read that succeeds returns what
\* is stored, a write that succeeds has stored everything, one that fails a
\* prefix, and nothing else changes, whatever interrupts, alarms and blocks
\* of earlier commands are still about (ata_bd_read, ata_bd_write).
DiskIsDevice == Device!Spec

\* A command that sceAtaWaitResult reports as successful is the one that was
\* sent, and the disk has executed all of it: a completion that is left over
\* from a command that timed out is not taken for the new command's.
OkMeansDone ==
    At("return") /\ t.res = "OK" /\ (Transfer => call.count > 0) =>
        dev.op = call.op /\ dev.state = "idle" /\ dev.err = "none" /\ dev.left = 0

\* No alarm of an earlier command is armed when sceAtaExecCmd sets its own:
\* it would fail, and the old alarm would cut the new command short.
NoAlarmLeft == At("prepare") \/ At("idle") => ~alarm

\* While the disk works on a transfer, the driver expects exactly the blocks
\* that the disk has yet to pass and those that are in the buffer ("The number
\* of 512-byte blocks (sectors) to transfer").
BlocksOfCommand ==
    (At("dma") \/ At("dmaWait")) /\ dev.state = "busy" => cmd.blkcount = dev.left + Len(fifo)

\* Every call returns, also if the disk never answers: a wait ends with the
\* alarm at the latest, and the polls are counted.
Returns == call # NoCall ~> call = NoCall
=============================================================================
