----------------------------- MODULE SdTransfer -----------------------------
(***************************************************************************)
(* Reading and writing an SD card through the SIO2 (spi_sdcard_driver.c    *)
(* and the interrupt handlers of mx4sio.c).  The thread opens a multiple   *)
(* block transfer and starts the DMA of the first sector; from then on the *)
(* interrupt handler starts one sector after the other, while the thread   *)
(* turns round the bits of those that have been read.  A transfer that     *)
(* stops is taken up again behind the sectors that are done.  To its user  *)
(* the card is a block device.                                             *)
(***************************************************************************)
EXTENDS Naturals

CONSTANTS
    sectorCount,   \* sectors of the card
    Requested,     \* sector numbers that a request may name
    Data,          \* contents of one sector
    Reverse,       \* reverse_buffer: the contents with the bits of every byte turned round
    MaxCount,      \* bound: sectors per request
    MAX_RETRIES,
    Faults         \* "command" (the card refuses a command), "token" (no read token, a
                   \* sector is rejected), "hang" (the SIO2 does not finish), "lost" (no
                   \* interrupt comes), "slow" (one comes when the thread gives up), "dead"
                   \* (the card cannot be recovered)

VARIABLES
    card,     \* what the card holds
    call,     \* the request, the caller's buffer and what the card held before
    thread,   \* where spisd_read or spisd_write is, and its local variables
    cmd,      \* the DMA command that thread and interrupt handler share
    events,   \* sio2_event_flag
    dma,      \* "off", "on", or "lost" if its interrupt will not come
    intr,     \* is the interrupt enabled, and is one pending from a transfer that was stopped
    baud,     \* sdcard.baud
    reply     \* what the last call returned

vars == <<card, call, thread, cmd, events, dma, intr, baud, reply>>

NoCall == [op |-> "none"]

\* during a call the card counts as what it was before
Seen == IF call = NoCall THEN card ELSE call.old

\* the call under way, with the bits of the buffer as the caller passed them
Asked ==
    IF call.op = "read" THEN [op |-> "read", sector |-> call.sector, count |-> call.count]
    ELSE IF call.op = "write"
    THEN [op |-> "write", sector |-> call.sector, count |-> call.count,
          buffer |-> [k \in 1 .. call.count |-> Reverse[call.buffer[k]]]]
    ELSE NoCall

Device == INSTANCE BlockDevice WITH disk <- Seen, request <- Asked

NoCommand == [base |-> 0, sector_count |-> 0, transferred |-> 0, reversed |-> 0, abort |-> "none"]
Idle == [pc |-> "idle", left |-> 0, done |-> 0, retries |-> 0, strict |-> FALSE, failed |-> FALSE, bits |-> {}]

Init ==
    /\ card \in [Device!Sectors -> Data]
    /\ call = NoCall /\ thread = Idle /\ cmd = NoCommand /\ events = {} /\ dma = "off"
    /\ intr = [on |-> FALSE, late |-> FALSE]
    /\ baud = "FAST" /\ reply = Device!Wrote

\* an interrupt that is pending when it is enabled comes before anything else
Interrupted == intr.on /\ intr.late

At(pc) == thread.pc = pc /\ call # NoCall /\ ~Interrupted
Goto(pc) == thread' = [thread EXCEPT !.pc = pc]

-----------------------------------------------------------------------------
(* The call and the lock, which is held for the whole call except for a moment *)
(* after a time-out.  mx_sio2_lock enables the interrupt, mx_sio2_unlock       *)
(* disables it and stops the DMA.                                              *)

\* an interrupt that was pending may have been dropped
Lock == \E late \in {intr.late, FALSE} : intr' = [on |-> TRUE, late |-> late]

\* the sector that the DMA works on, in the buffer and on the card
Index == cmd.base + cmd.transferred + 1
Sector == call.sector + Index - 1

\* the card stores the sector that was sent to it
Store == IF call.op = "write" /\ Sector < sectorCount
         THEN [card EXCEPT ![Sector] = Reverse[call.buffer[Index]]] ELSE card

\* the DMA may just have come to its end
Unlock ==
    \/ /\ dma' = "off" /\ intr' = [intr EXCEPT !.on = FALSE]
       /\ UNCHANGED card
    \/ /\ dma = "on" /\ dma' = "off"
       /\ intr' = [on |-> FALSE, late |-> TRUE]
       /\ card' \in {card, Store}

Call(op, s, n, buf) ==
    /\ thread.pc = "idle"
    /\ call' = [op |-> op, sector |-> s, count |-> n, buffer |-> buf, old |-> card]
    /\ \/ n > 0 /\ thread' = [Idle EXCEPT !.pc = "loop", !.left = n] /\ Lock
       \/ n = 0 /\ thread' = [Idle EXCEPT !.pc = "nothing"] /\ UNCHANGED intr
    /\ reply' = Device!Pending
    /\ UNCHANGED <<card, cmd, events, dma, baud>>

\* the buffer of a read holds anything; reverse_buffer turns the one of a write round
spisd_read(s, n) == Call("read", s, n, [k \in 1 .. n |-> CHOOSE d \in Data : TRUE])
spisd_write(s, n, buf) == Call("write", s, n, [k \in 1 .. n |-> Reverse[buf[k]]])

\* a call for no sectors returns before it takes the lock
Nothing ==
    /\ At("nothing")
    /\ reply' = IF call.op = "read" THEN [ok |-> TRUE, data |-> call.buffer] ELSE Device!Wrote
    /\ call' = NoCall /\ thread' = Idle
    /\ UNCHANGED <<card, cmd, events, dma, intr, baud>>

Return ==
    /\ At("return")
    /\ Unlock
    /\ reply' = IF thread.left # 0 \/ thread.failed THEN Device!Failed
                ELSE IF call.op = "read" THEN [ok |-> TRUE, data |-> call.buffer] ELSE Device!Wrote
    /\ call' = NoCall /\ thread' = Idle
    /\ UNCHANGED <<cmd, events, baud>>

-----------------------------------------------------------------------------
(* The loop over attempts *)

Loop ==
    /\ At("loop")
    /\ Goto(IF thread.left > 0 /\ thread.retries < MAX_RETRIES THEN "begin" ELSE "return")
    /\ UNCHANGED <<card, call, cmd, events, dma, intr, baud, reply>>

\* spisd_read_multi_begin and spisd_write_multi_begin: the card knows its end
Begin ==
    /\ At("begin")
    /\ \/ call.sector + thread.done < sectorCount /\ Goto("do")
       \/ /\ "command" \in Faults \/ call.sector + thread.done >= sectorCount
          /\ thread' = [thread EXCEPT !.pc = "recover", !.strict = FALSE]
    /\ UNCHANGED <<card, call, cmd, events, dma, intr, baud, reply>>

\* spisd_read_multi_do and spisd_write_multi_do, up to the start of the DMA
Do ==
    /\ At("do")
    /\ cmd' = [NoCommand EXCEPT !.base = thread.done, !.sector_count = thread.left]
    /\ events' = {} /\ dma' = "on"
    /\ Goto("wait")
    /\ UNCHANGED <<card, call, intr, baud, reply>>

\* mutant: counts sectors whose bits have not been turned round
LeftTransferred ==
    /\ At("left")
    /\ LET results == cmd.transferred IN
       thread' = [thread EXCEPT !.pc = "judge", !.left = @ - results, !.done = @ + results]
    /\ UNCHANGED <<card, call, cmd, events, dma, intr, baud, reply>>

\* what the attempt achieved
Left ==
    /\ At("left")
    /\ LET results == IF call.op = "read" THEN cmd.reversed ELSE cmd.transferred IN
       thread' = [thread EXCEPT !.pc = "judge", !.left = @ - results, !.done = @ + results]
    /\ UNCHANGED <<card, call, cmd, events, dma, intr, baud, reply>>

\* without a read token only a reset helps; after a time-out the DMA has to be stopped
Judge ==
    /\ At("judge")
    /\ thread' = IF call.op = "read" /\ thread.left > 0 /\ cmd.abort = "NO_READ_TOKEN"
                 THEN [thread EXCEPT !.pc = "recover", !.strict = FALSE]
                 ELSE IF cmd.abort = "TIMEOUT" THEN [thread EXCEPT !.pc = "unlock", !.strict = TRUE]
                 ELSE [thread EXCEPT !.pc = "end", !.strict = TRUE]
    /\ UNCHANGED <<card, call, cmd, events, dma, intr, baud, reply>>

Release ==
    /\ At("unlock")
    /\ Unlock /\ Goto("lock")
    /\ UNCHANGED <<call, cmd, events, baud, reply>>

Retake ==
    /\ thread.pc = "lock"
    /\ Lock /\ Goto("recover")
    /\ UNCHANGED <<card, call, cmd, events, dma, baud, reply>>

\* the next attempt
Again == [thread EXCEPT !.pc = "loop", !.retries = @ + 1]

\* spisd_read_multi_end and spisd_write_multi_end
End ==
    /\ At("end")
    /\ \/ thread' = Again
       \/ "command" \in Faults /\ Goto("recover")
    /\ UNCHANGED <<card, call, cmd, events, dma, intr, baud, reply>>

GiveUp == [thread EXCEPT !.pc = "return", !.failed = thread.strict]

\* one turn of spisd_recover: slower; the card may not start, or start and not tell
\* what it is, which ends the search at the lowest speed
Recover ==
    /\ At("recover")
    /\ baud' = IF baud = "FAST" THEN "MEDIUM" ELSE "COMPAT"
    /\ \/ thread' = Again
       \/ "dead" \in Faults /\ thread' = GiveUp
       \/ "dead" \in Faults /\ thread' = IF baud' = "COMPAT" THEN GiveUp ELSE thread
    /\ UNCHANGED <<card, call, cmd, events, dma, intr, reply>>

-----------------------------------------------------------------------------
(* Waiting for the interrupt handler *)

Awaited == IF call.op = "read" THEN {"REVERSE", "COMPLETE"} ELSE {"COMPLETE"}

\* PollEventFlag in spisd_wait_dma_event
Poll ==
    /\ At("wait") /\ events \cap Awaited # {}
    /\ thread' = [thread EXCEPT !.pc = "got", !.bits = events]
    /\ UNCHANGED <<card, call, cmd, events, dma, intr, baud, reply>>

\* the last poll found nothing
Timeout ==
    /\ At("wait") /\ events \cap Awaited = {}
    /\ dma # "on" \/ "slow" \in Faults
    /\ Goto("abort")
    /\ UNCHANGED <<card, call, cmd, events, dma, intr, baud, reply>>

Abort ==
    /\ At("abort")
    /\ cmd' = [cmd EXCEPT !.abort = "TIMEOUT"]
    /\ Goto("left")
    /\ UNCHANGED <<card, call, events, dma, intr, baud, reply>>

Got ==
    /\ At("got")
    /\ IF call.op = "read" /\ "REVERSE" \in thread.bits
       THEN events' = events \ {"REVERSE"} /\ Goto("turn")
       ELSE events' = events \ {"COMPLETE"} /\ Goto("left")
    /\ UNCHANGED <<card, call, cmd, dma, intr, baud, reply>>

\* reverse_buffer for the next sector that has come in
Turn ==
    /\ At("turn") /\ cmd.reversed < cmd.transferred /\ cmd.abort = "none"
    /\ call' = [call EXCEPT !.buffer[cmd.base + cmd.reversed + 1] = Reverse[@]]
    /\ Goto("count")
    /\ UNCHANGED <<card, cmd, events, dma, intr, baud, reply>>

\* the transfer may have been aborted in the meantime
Count ==
    /\ At("count")
    /\ cmd' = IF cmd.abort = "none" THEN [cmd EXCEPT !.reversed = @ + 1] ELSE cmd
    /\ Goto("turn")
    /\ UNCHANGED <<card, call, events, dma, intr, baud, reply>>

Turned ==
    /\ At("turn") /\ ~(cmd.reversed < cmd.transferred /\ cmd.abort = "none")
    /\ IF "COMPLETE" \in thread.bits
       THEN events' = events \ {"COMPLETE"} /\ Goto("left")
       ELSE UNCHANGED events /\ Goto("wait")
    /\ UNCHANGED <<card, call, cmd, dma, intr, baud, reply>>

-----------------------------------------------------------------------------
(* The interrupt handlers, which run at the end of the DMA of a sector *)

Fires == intr.on /\ (dma = "on" \/ Interrupted)

\* the late interrupt is spent
Spent == intr' = [intr EXCEPT !.late = FALSE]

\* the data of the sector are in the buffer; a late interrupt came after its transfer
Loaded == IF dma = "on" THEN [call EXCEPT !.buffer[Index] = Reverse[card[Sector]]] ELSE call

\* the SIO2 does not finish
IsrHangs ==
    /\ Fires /\ "hang" \in Faults
    /\ cmd' = [cmd EXCEPT !.abort = "TIMEOUT"]
    /\ events' = events \cup {"COMPLETE"} /\ dma' = "off"
    /\ card' \in IF dma = "on" THEN {card, Store} ELSE {card}
    /\ Spent
    /\ UNCHANGED <<call, thread, baud, reply>>

\* is there more to transfer after the sector, with cmd as it is then?
More(c) == c.transferred < c.sector_count /\ c.abort = "none"

\* the token of the next sector comes or does not
mx_sio2_dma_isr_rx ==
    /\ Fires /\ call.op = "read"
    /\ LET next == [cmd EXCEPT !.transferred = @ + 1] IN
       \/ /\ More(next) /\ Sector + 1 < sectorCount
          /\ cmd' = next /\ dma' = "on" /\ events' = events \cup {"REVERSE"}
       \/ /\ More(next) /\ ("token" \in Faults \/ Sector + 1 >= sectorCount)
          /\ cmd' = [next EXCEPT !.abort = "NO_READ_TOKEN"]
          /\ dma' = "off" /\ events' = events \cup {"REVERSE", "COMPLETE"}
       \/ /\ ~More(next)
          /\ cmd' = next /\ dma' = "off" /\ events' = events \cup {"REVERSE", "COMPLETE"}
    /\ call' = Loaded
    /\ Spent
    /\ UNCHANGED <<card, thread, baud, reply>>

\* the card accepts the sector, or rejects it or fails to program it
Accepted(c) == IF c.abort = "none" THEN [c EXCEPT !.transferred = @ + 1] ELSE c
Rejected(c) == [c EXCEPT !.abort = "WRITE_ERROR"]

mx_sio2_dma_isr_tx ==
    /\ Fires /\ call.op = "write"
    /\ \/ /\ Sector < sectorCount \/ Interrupted
          /\ cmd' = Accepted(cmd)
          /\ card' = IF dma = "on" THEN Store ELSE card
       \/ /\ "token" \in Faults \/ Sector >= sectorCount
          /\ cmd' = Rejected(cmd)
          /\ card' \in IF dma = "on" THEN {card, Store} ELSE {card}
    /\ IF More(cmd') THEN dma' = "on" /\ UNCHANGED events
                     ELSE dma' = "off" /\ events' = events \cup {"COMPLETE"}
    /\ Spent
    /\ UNCHANGED <<call, thread, baud, reply>>

\* the end of the DMA is not noticed
Lose ==
    /\ dma = "on" /\ "lost" \in Faults
    /\ dma' = "lost"
    /\ card' \in {card, Store}
    /\ UNCHANGED <<call, thread, cmd, events, intr, baud, reply>>

Isr == IsrHangs \/ mx_sio2_dma_isr_rx \/ mx_sio2_dma_isr_tx

Step ==
    \/ Nothing \/ Return \/ Loop \/ Begin \/ Do \/ Left \/ Judge \/ Release \/ Retake \/ End \/ Recover
    \/ Poll \/ Timeout \/ Abort \/ Got \/ Turn \/ Count \/ Turned

Next ==
    \/ \E s \in Requested, n \in 0 .. MaxCount :
          spisd_read(s, n) \/ \E buf \in [1 .. n -> Data] : spisd_write(s, n, buf)
    \/ Step \/ Isr \/ Lose

Spec == Init /\ [][Next]_vars

\* The thread runs and the interrupts come.
FairSpec == Spec /\ WF_vars(Step) /\ WF_vars(Isr)

-----------------------------------------------------------------------------
(* Properties *)

Pcs == {"idle", "nothing", "loop", "begin", "do", "wait", "got", "turn", "count", "abort", "left", "judge",
        "unlock", "lock", "recover", "end", "return"}
Aborts == {"none", "TIMEOUT", "NO_READ_TOKEN", "WRITE_ERROR"}

\* The two counters that thread and handler advance on their own never overtake each
\* other or the request (sectors_reversed, sectors_transferred and sector_count of cmd).
TypeOK ==
    /\ card \in [Device!Sectors -> Data]
    /\ call # NoCall => call.buffer \in [1 .. call.count -> Data]
    /\ thread.pc \in Pcs /\ (thread.pc = "idle" <=> call = NoCall)
    /\ thread.retries \in 0 .. MAX_RETRIES
    /\ call # NoCall => thread.left + thread.done = call.count
    /\ cmd.reversed <= cmd.transferred /\ cmd.transferred <= cmd.sector_count /\ cmd.abort \in Aborts
    /\ events \subseteq {"REVERSE", "COMPLETE"} /\ dma \in {"off", "on", "lost"}
    /\ intr \in [on : BOOLEAN, late : BOOLEAN]
    /\ baud \in {"FAST", "MEDIUM", "COMPAT"}

\* Whatever stops a transfer, and however often it is taken up again, spisd_read and
\* spisd_write keep the promise of a block device: a read that succeeds returns what the
\* card holds, with its bits the right way round, a write that succeeds stored everything,
\* one that fails stored a prefix.
CardIsDevice == Device!Spec

\* No command is sent to the card while the DMA of a sector runs: both use the SIO2's
\* FIFOs (the thread's mx_sio2_* calls and mx_sio2_start_rx_dma, mx_sio2_start_tx_dma).
PioAlone == thread.pc \in {"idle", "loop", "begin", "do", "recover", "end"} => dma = "off"

\* A request within a card that makes no mistakes is done at the first attempt: no event
\* of the interrupt handler gets lost between PollEventFlag and ClearEventFlag.
FirstAttempt ==
    Faults = {} /\ call # NoCall /\ call.sector + call.count <= sectorCount
       => /\ thread.pc \notin {"abort", "recover"}
          /\ thread.retries > 0 => thread.left = 0

\* Every call of spisd_read and spisd_write comes to its end.
Returns == call # NoCall ~> call = NoCall
=============================================================================
