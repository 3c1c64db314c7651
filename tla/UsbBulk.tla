------------------------------ MODULE UsbBulk ------------------------------
(***************************************************************************)
(* The data path of a USB mass storage drive: scsi_read and scsi_write    *)
(* (usbmass_bd_scsi.c) on top of usb_queue_cmd and the bulk-only          *)
(* transport (usbmass_bd_usb_mass.c, built without ASYNC).  A command     *)
(* block (CBW) goes out, data moves in transfers of USB_BLOCK_SIZE, and a *)
(* status block (CSW) comes back; stalls are cleared, lost sync is mended *)
(* by a reset, and scsi_read and scsi_write retry.                        *)
(*                                                                         *)
(* A sector stands for one transfer of USB_BLOCK_SIZE bytes.  Every drive *)
(* has one user thread; the command block and its tag are static          *)
(* variables, shared by the threads of all drives.                        *)
(***************************************************************************)
EXTENDS Integers

CONSTANTS
    Threads,
    Drive,             \* the drive each thread works on, one each
    Updaters,          \* threads that run usb_mass_update: they only warm up
    Priority,          \* of each thread, a larger number runs first
    bulkEp,            \* bulkEpI and bulkEpO of each drive: pipe numbers of usbd
    bEndpointAddress,  \* addresses of the two pipes in each drive
    sectorCount,       \* sectors of each drive
    max_sectors,       \* sectors per command
    SCSI_MAX_RETRIES,
    Data,              \* contents of one sector
    Junk,              \* memory that no sector was read into
    MaxCount,          \* bound: sectors per request
    TagCount,          \* number of values of the tag, 2^32 in the code
    Faults             \* what drive and bus may do wrong

ASSUME UsbBulkAssumption ==
    /\ \A t, u \in Threads : Drive[t] = Drive[u] => t = u
    /\ Updaters \subseteq Threads
    /\ \A t \in Threads : Priority[t] \in Nat
    /\ \A t \in Threads :   \* an address has bit 7 for IN, a pipe number is small
          /\ bEndpointAddress[Drive[t]]["in"] \in 129 .. 143
          /\ bEndpointAddress[Drive[t]]["out"] \in 1 .. 15
          /\ bulkEp[Drive[t]]["in"] \in 1 .. 127 /\ bulkEp[Drive[t]]["out"] \in 1 .. 127
    /\ sectorCount \in Nat \ {0}
    /\ max_sectors \in Nat \ {0}
    /\ SCSI_MAX_RETRIES \in Nat \ {0}
    /\ MaxCount \in Nat
    /\ TagCount \in Nat \ {0}
    /\ Junk \notin Data
    /\ Faults \subseteq {"cbw", "in", "out", "control", "stall", "short", "fail", "phase"}

VARIABLES
    thread,    \* where each thread is and the locals of its call
    tag,       \* static tag of usb_queue_cmd
    ucmd,      \* static ucmd of usb_queue_cmd: its CBW
    offline,   \* USBMASS_DEV_STAT_ERR of each drive
    dev,       \* the bulk-only state machine inside each drive
    halted,    \* the stalled bulk pipes of each drive
    disk,      \* the medium of each drive
    seen,      \* the medium when the last call of its thread returned
    reply      \* what that call returned

vars == <<thread, tag, ucmd, offline, dev, halted, disk, seen, reply>>

Drives == {Drive[t] : t \in Threads}
Requested == 0 .. sectorCount
Tags == 0 .. TagCount - 1

\* the call of scsi_read or scsi_write under way
Asked(t) ==
    LET c == thread[t] IN
    IF c.kind = "read" THEN [op |-> "read", sector |-> c.s, count |-> c.n]
    ELSE IF c.kind = "write" THEN [op |-> "write", sector |-> c.s, count |-> c.n, buffer |-> c.buf]
    ELSE [op |-> "none"]

\* the block device that the user of a drive sees
Device(t) == INSTANCE BlockDevice WITH disk <- seen[Drive[t]], request <- Asked(t), reply <- reply[t]

Sectors == 0 .. sectorCount - 1
Buffer(n) == [1 .. n -> Data \cup {Junk}]

NoCommand == [kind |-> "none", s |-> 0, n |-> 0]
Idle == [pc |-> "idle", kind |-> "none", s |-> 0, n |-> 0, buf |-> <<>>,
         done |-> 0, moved |-> 0, tries |-> SCSI_MAX_RETRIES,
         rcode |-> "ok", want |-> 0, result |-> 0]

\* a drive that waits for a CBW
Waiting == [phase |-> "cbw", cmd |-> NoCommand, tag |-> 0, k |-> 0, status |-> 0]

Fault(f) == f \in Faults

\* sectors of the command that the thread is at: sc of scsi_read, scsi_write
Sc(t) == LET left == thread[t].n - thread[t].done
         IN  IF left > max_sectors THEN max_sectors ELSE left

\* what scsi_cmd and scsi_cmd_rw_sector put in the CBW
Command(t) == [kind |-> thread[t].kind, s |-> thread[t].s + thread[t].done, n |-> Sc(t)]

Pipe(t) == IF thread[t].kind = "write" THEN "out" ELSE "in"

\* a thread that does not wait for the USB host runs before any of lower
\* priority
Computing == {"nothing", "tag", "build", "send", "status", "end"}
MayRun(t) ==
    \A u \in Threads : Priority[u] > Priority[t] => thread[u].pc \notin Computing

Step(t, next) == thread' = [thread EXCEPT ![t] = next]

-----------------------------------------------------------------------------
(* The drive *)

\* how a command can end whose data phase went by with status st
Ending(st) ==
    {st} \cup (IF Fault("fail") THEN {1} ELSE {}) \cup (IF Fault("phase") THEN {2} ELSE {})

\* the drive after it has taken the CBW c
Started(c) ==
    IF c.cmd.n = 0
    THEN {[phase |-> "csw", cmd |-> c.cmd, tag |-> c.tag, k |-> 0, status |-> st] :
              st \in Ending(0)}
    ELSE {[phase |-> "data", cmd |-> c.cmd, tag |-> c.tag, k |-> 0, status |-> 0]}

\* the drive after one more sector, which failed when st is 1
Advanced(v, st) ==
    IF v.k + 1 = v.cmd.n
    THEN {[v EXCEPT !.phase = "csw", !.k = v.k + 1, !.status = e] : e \in Ending(st)}
    ELSE {[v EXCEPT !.k = v.k + 1, !.status = st]}

\* the drive after it has cut the data phase short
Cut(v) == {[v EXCEPT !.phase = "csw", !.status = st] : st \in {0, 1}}

\* the sector that the drive is at, and whether it has it
At(v) == v.cmd.s + v.k
InRange(v) == v.cmd.kind = "query" \/ At(v) < sectorCount

\* a sector is moved well, or badly (from then on the command has failed)
Moves(v) ==
    (IF v.status = 0 /\ InRange(v) THEN {0} ELSE {})
    \cup (IF v.status = 1 \/ Fault("fail") THEN {1} ELSE {})

\* CLEAR_FEATURE(ENDPOINT_HALT) with the number of the pipe where the address
\* belongs: it reaches the pipe whose address happens to be that number.  If
\* there is none the drive refuses it, or acknowledges it and does nothing.  A
\* control transfer that fails on the bus may still have had its effect.
ClearFeature(t, pipe, ok, failed) ==
    LET d       == Drive[t]
        reached == {q \in {"in", "out"} : bEndpointAddress[d][q] = bulkEp[d][pipe]}
    IN
    \/ /\ reached # {} /\ halted' = [halted EXCEPT ![d] = @ \ reached]
       /\ ok \/ (Fault("control") /\ failed)
    \/ /\ UNCHANGED halted
       /\ \/ reached = {} /\ (ok \/ failed)
          \/ Fault("control") /\ failed

-----------------------------------------------------------------------------
Init ==
    /\ thread = [t \in Threads |-> Idle]
    /\ tag = 0
    /\ ucmd = [cmd |-> NoCommand, tag |-> 0]
    /\ offline = [d \in Drives |-> FALSE]
    /\ dev = [d \in Drives |-> Waiting]
    /\ halted = [d \in Drives |-> {}]
    /\ disk \in [Drives -> [Sectors -> Data]]
    /\ seen = disk
    /\ reply = [t \in Threads |-> [ok |-> TRUE]]

\* the loop over the commands is not entered for no sectors
Begin(t, kind, s, n, buf) ==
    /\ Step(t, [Idle EXCEPT !.pc = IF n = 0 /\ kind # "query" THEN "nothing" ELSE "tag",
                            !.kind = kind, !.s = s, !.n = n, !.buf = buf])
    /\ reply' = IF kind = "query" THEN reply ELSE [reply EXCEPT ![t] = [pending |-> TRUE]]
    /\ UNCHANGED <<tag, ucmd, offline, dev, halted, disk, seen>>

\* scsi_read
Read(t) ==
    /\ thread[t].pc = "idle" /\ t \notin Updaters
    /\ \E s \in Requested, n \in 0 .. MaxCount : Begin(t, "read", s, n, [k \in 1 .. n |-> Junk])

\* scsi_write
Write(t) ==
    /\ thread[t].pc = "idle" /\ t \notin Updaters
    /\ \E s \in Requested, n \in 0 .. MaxCount :
          \E buf \in [1 .. n -> Data] : Begin(t, "write", s, n, buf)

\* scsi_cmd: the commands of scsi_warmup and scsi_stop, with data or without
Query(t) ==
    /\ thread[t].pc = "idle"
    /\ \E n \in 0 .. 1 : Begin(t, "query", 0, n, [k \in 1 .. n |-> Junk])

-----------------------------------------------------------------------------
(* usb_queue_cmd *)

TakeTag(t) ==
    /\ thread[t].pc = "tag" /\ MayRun(t)
    /\ tag' = (tag + 1) % TagCount
    /\ Step(t, [thread[t] EXCEPT !.pc = "build"])
    /\ UNCHANGED <<ucmd, offline, dev, halted, disk, seen, reply>>

BuildCbw(t) ==
    /\ thread[t].pc = "build" /\ MayRun(t)
    /\ ucmd' = [cmd |-> Command(t), tag |-> tag]
    /\ Step(t, [thread[t] EXCEPT !.pc = "send", !.rcode = "ok", !.moved = 0])
    /\ UNCHANGED <<tag, offline, dev, halted, disk, seen, reply>>

\* usb_bulk_command, to the wait for the transfer
SendCbw(t) ==
    /\ thread[t].pc = "send" /\ MayRun(t)
    /\ Step(t, IF offline[Drive[t]]
               THEN [thread[t] EXCEPT !.pc = "end", !.result = -1]
               ELSE [thread[t] EXCEPT !.pc = "cbw"])
    /\ UNCHANGED <<tag, ucmd, offline, dev, halted, disk, seen, reply>>

\* the host controller fetches the CBW from ucmd, where usb_bulk_command
\* pointed it, and the drive takes it
CbwTaken(t) ==
    LET d == Drive[t] IN
    /\ thread[t].pc = "cbw"
    /\ dev[d].phase = "cbw" /\ "out" \notin halted[d]
    /\ \E v \in Started(ucmd) : dev' = [dev EXCEPT ![d] = v]
    /\ Step(t, [thread[t] EXCEPT !.pc = IF Sc(t) > 0 THEN "data" ELSE "status"])
    /\ UNCHANGED <<tag, ucmd, offline, halted, disk, seen, reply>>

\* the CBW is lost, damaged, answered by nothing, or refused by a drive that
\* does not expect one; usb_bulk_command resets the drive
CbwFails(t) ==
    LET d == Drive[t] IN
    /\ thread[t].pc = "cbw"
    /\ \/ /\ Fault("cbw") /\ dev[d].phase = "cbw" /\ "out" \notin halted[d]
          /\ \E v \in Started(ucmd) \cup {dev[d]} : dev' = [dev EXCEPT ![d] = v]
          /\ UNCHANGED halted
       \/ /\ dev[d].phase # "cbw" \/ "out" \in halted[d]
          /\ halted' = [halted EXCEPT ![d] = @ \cup {"out"}]
          /\ UNCHANGED dev
    /\ Step(t, [thread[t] EXCEPT !.pc = "reset", !.result = -1])
    /\ UNCHANGED <<tag, ucmd, offline, disk, seen, reply>>

-----------------------------------------------------------------------------
(* usb_bulk_transfer: usb_transfer_callback asks for the rest until nothing *)
(* remains, an error ends it and is followed by usb_bulk_clear_halt.        *)

\* one transfer has moved a whole sector
Moved(t, buf) ==
    Step(t, [thread[t] EXCEPT !.buf = buf, !.moved = @ + 1,
                              !.pc = IF thread[t].moved + 1 = Sc(t) THEN "status" ELSE "data"])

DataFails(t) == Step(t, [thread[t] EXCEPT !.pc = "dataclear", !.rcode = "err"])

\* the drive is in the data phase of a command in the thread's direction
DataReady(t) ==
    LET v == dev[Drive[t]] IN
    /\ thread[t].pc = "data"
    /\ v.phase = "data" /\ (v.cmd.kind = "write") = (Pipe(t) = "out")
    /\ Pipe(t) \notin halted[Drive[t]]

DataIn(t) ==
    LET d == Drive[t] IN
    /\ DataReady(t) /\ Pipe(t) = "in"
    /\ \E st \in Moves(dev[d]) :
          /\ \E v \in Advanced(dev[d], st) : dev' = [dev EXCEPT ![d] = v]
          /\ Moved(t, [thread[t].buf EXCEPT ![thread[t].done + thread[t].moved + 1] =
                          IF st = 0 /\ dev[d].cmd.kind = "read" THEN disk[d][At(dev[d])] ELSE Junk])
    /\ UNCHANGED <<tag, ucmd, offline, halted, disk, seen, reply>>

\* the drive stores the sector of the buffer, unless the command has failed
Store(t, st) ==
    LET d == Drive[t]
        x == thread[t].buf[thread[t].done + thread[t].moved + 1]
    IN  disk' = IF st = 0 THEN [disk EXCEPT ![d][At(dev[d])] = x] ELSE disk

DataOut(t) ==
    LET d == Drive[t] IN
    /\ DataReady(t) /\ Pipe(t) = "out"
    /\ \E st \in Moves(dev[d]) :
          /\ \E v \in Advanced(dev[d], st) : dev' = [dev EXCEPT ![d] = v]
          /\ Store(t, st)
    /\ Moved(t, thread[t].buf)
    /\ UNCHANGED <<tag, ucmd, offline, halted, seen, reply>>

\* the drive ends the data phase with a stall, with a good or a bad status
DataStall(t) ==
    LET d == Drive[t] IN
    /\ DataReady(t)
    /\ Fault("stall") \/ ~InRange(dev[d])
    /\ \E v \in Cut(dev[d]) : dev' = [dev EXCEPT ![d] = v]
    /\ halted' = [halted EXCEPT ![d] = @ \cup {Pipe(t)}]
    /\ DataFails(t)
    /\ UNCHANGED <<tag, ucmd, offline, disk, seen, reply>>

\* the pipe is still stalled from an earlier command
DataHalted(t) ==
    /\ thread[t].pc = "data" /\ Pipe(t) \in halted[Drive[t]]
    /\ DataFails(t)
    /\ UNCHANGED <<tag, ucmd, offline, dev, halted, disk, seen, reply>>

\* the drive ends the data phase with a short packet, which is no error: the
\* callback asks for what remains
DataShort(t) ==
    LET d == Drive[t] IN
    /\ DataReady(t) /\ Pipe(t) = "in" /\ Fault("short")
    /\ \E v \in Cut(dev[d]) : dev' = [dev EXCEPT ![d] = v]
    /\ UNCHANGED <<thread, tag, ucmd, offline, halted, disk, seen, reply>>

\* what arrives then is the CSW, and something still remains
DataTakesCsw(t) ==
    LET d == Drive[t] IN
    /\ thread[t].pc = "data" /\ Pipe(t) = "in"
    /\ dev[d].phase = "csw" /\ "in" \notin halted[d]
    /\ dev' = [dev EXCEPT ![d] = Waiting]
    /\ UNCHANGED <<thread, tag, ucmd, offline, halted, disk, seen, reply>>

\* a bus error; a drive may have stored the sector it did not acknowledge
DataError(t) ==
    LET d == Drive[t] IN
    /\ DataReady(t) /\ Fault(Pipe(t))
    /\ \/ UNCHANGED <<dev, disk>>
       \/ /\ Pipe(t) = "out"
          /\ \E st \in Moves(dev[d]) :
                /\ \E v \in Advanced(dev[d], st) : dev' = [dev EXCEPT ![d] = v]
                /\ Store(t, st)
    /\ DataFails(t)
    /\ UNCHANGED <<tag, ucmd, offline, halted, seen, reply>>

\* usb_bulk_clear_halt; both callers ignore its result
ClearHalt(t, pipe, next) ==
    /\ ClearFeature(t, pipe, TRUE, TRUE)
    /\ Step(t, [thread[t] EXCEPT !.pc = next])
    /\ UNCHANGED <<tag, ucmd, offline, dev, disk, seen, reply>>

DataClear(t) == thread[t].pc = "dataclear" /\ ClearHalt(t, Pipe(t), "status")

-----------------------------------------------------------------------------
(* usb_bulk_manage_status *)

\* the call, which reads the static tag
AskStatus(t) ==
    /\ thread[t].pc = "status" /\ MayRun(t)
    /\ Step(t, [thread[t] EXCEPT !.pc = "csw1", !.want = tag])
    /\ UNCHANGED <<tag, ucmd, offline, dev, halted, disk, seen, reply>>

CswArrives(t) ==
    LET d    == Drive[t]
        good == dev[d].tag = thread[t].want
    IN
    /\ thread[t].pc \in {"csw1", "csw2"}
    /\ dev[d].phase = "csw" /\ "in" \notin halted[d]
    /\ dev' = [dev EXCEPT ![d] = Waiting]
    /\ Step(t, [thread[t] EXCEPT
                  !.result = IF good THEN dev[d].status ELSE -1,
                  !.pc = IF ~good \/ dev[d].status = 2 THEN "reset" ELSE "end"])
    /\ UNCHANGED <<tag, ucmd, offline, halted, disk, seen, reply>>

\* the pipe is stalled, a packet of data overruns the CSW, or a bus error
CswBad(t) ==
    LET d == Drive[t] IN
    \/ "in" \in halted[d]
    \/ dev[d].phase = "data" /\ dev[d].cmd.kind # "write"
    \/ Fault("in")

\* mutant: no reset recovery when the CSW cannot be read
CswFailsNoReset(t) ==
    /\ thread[t].pc \in {"csw1", "csw2"} /\ CswBad(t)
    /\ Step(t, [thread[t] EXCEPT
                  !.pc = IF @ = "csw1" THEN "cswclear" ELSE "end", !.result = -1])
    /\ UNCHANGED <<tag, ucmd, offline, dev, halted, disk, seen, reply>>

CswFails(t) ==
    /\ thread[t].pc \in {"csw1", "csw2"} /\ CswBad(t)
    /\ Step(t, [thread[t] EXCEPT
                  !.pc = IF @ = "csw1" THEN "cswclear" ELSE "reset", !.result = -1])
    /\ UNCHANGED <<tag, ucmd, offline, dev, halted, disk, seen, reply>>

CswClear(t) == thread[t].pc = "cswclear" /\ ClearHalt(t, "in", "csw2")

-----------------------------------------------------------------------------
(* usb_bulk_reset(dev, 3): reset and clear both pipes; the first failure    *)
(* takes the drive offline.                                                 *)

GoesOn(t, next) ==
    Step(t, [thread[t] EXCEPT !.pc = next]) /\ UNCHANGED offline

GoesOffline(t) ==
    /\ offline' = [offline EXCEPT ![Drive[t]] = TRUE]
    /\ Step(t, [thread[t] EXCEPT !.pc = "end"])

ResetDrive(t) ==
    /\ thread[t].pc = "reset"
    /\ \/ dev' = [dev EXCEPT ![Drive[t]] = Waiting] /\ GoesOn(t, "clearin")
       \/ /\ Fault("control")
          /\ dev' \in {dev, [dev EXCEPT ![Drive[t]] = Waiting]}
          /\ GoesOffline(t)
    /\ UNCHANGED <<tag, ucmd, halted, disk, seen, reply>>

ResetPipe(t, pipe, next) ==
    /\ ClearFeature(t, pipe, GoesOn(t, next), GoesOffline(t))
    /\ UNCHANGED <<tag, ucmd, dev, disk, seen, reply>>

ResetIn(t) == thread[t].pc = "clearin" /\ ResetPipe(t, "in", "clearout")
ResetOut(t) == thread[t].pc = "clearout" /\ ResetPipe(t, "out", "end")

-----------------------------------------------------------------------------
(* The end of usb_queue_cmd and the loops of scsi_read and scsi_write *)

Return(t, r) ==
    /\ reply' = [reply EXCEPT ![t] = r]
    /\ seen' = [seen EXCEPT ![Drive[t]] = disk[Drive[t]]]
    /\ Step(t, Idle)

\* mutant: the result of the data phase is dropped
GoodStatus(t) == thread[t].result = 0

\* usb_queue_cmd reports 0 only if the data phase went well, too
Good(t) == thread[t].rcode = "ok" /\ thread[t].result = 0

\* what a call that succeeded returns
Success(t) == IF thread[t].kind = "read" THEN [ok |-> TRUE, data |-> thread[t].buf] ELSE [ok |-> TRUE]

Nothing(t) ==
    /\ thread[t].pc = "nothing" /\ MayRun(t)
    /\ Return(t, Success(t))
    /\ UNCHANGED <<tag, ucmd, offline, dev, halted, disk>>

EndQuery(t) ==
    /\ thread[t].pc = "end" /\ MayRun(t) /\ thread[t].kind = "query"
    /\ Return(t, reply[t])
    /\ UNCHANGED <<tag, ucmd, offline, dev, halted, disk>>

EndGood(t) ==
    LET through == thread[t].done + Sc(t) IN
    /\ thread[t].pc = "end" /\ MayRun(t) /\ thread[t].kind # "query" /\ Good(t)
    /\ \/ /\ through < thread[t].n
          /\ Step(t, [thread[t] EXCEPT !.pc = "tag", !.done = through,
                                       !.tries = SCSI_MAX_RETRIES])
          /\ UNCHANGED <<reply, seen>>
       \/ /\ through = thread[t].n
          /\ Return(t, Success(t))
    /\ UNCHANGED <<tag, ucmd, offline, dev, halted, disk>>

\* mutant: tries are not counted
EndBadForever(t) ==
    /\ thread[t].pc = "end" /\ MayRun(t) /\ thread[t].kind # "query" /\ ~Good(t)
    /\ Step(t, [thread[t] EXCEPT !.pc = "tag"])
    /\ UNCHANGED <<tag, ucmd, offline, dev, halted, disk, seen, reply>>

EndBad(t) ==
    /\ thread[t].pc = "end" /\ MayRun(t) /\ thread[t].kind # "query" /\ ~Good(t)
    /\ \/ /\ thread[t].tries > 1
          /\ Step(t, [thread[t] EXCEPT !.pc = "tag", !.tries = @ - 1])
          /\ UNCHANGED <<reply, seen>>
       \/ /\ thread[t].tries = 1
          /\ Return(t, [ok |-> FALSE])
    /\ UNCHANGED <<tag, ucmd, offline, dev, halted, disk>>

-----------------------------------------------------------------------------
Calls(t) == Read(t) \/ Write(t) \/ Query(t)

Proceeds(t) ==
    \/ TakeTag(t) \/ BuildCbw(t) \/ SendCbw(t) \/ CbwTaken(t) \/ CbwFails(t)
    \/ DataIn(t) \/ DataOut(t) \/ DataStall(t) \/ DataHalted(t) \/ DataShort(t)
    \/ DataTakesCsw(t) \/ DataError(t) \/ DataClear(t)
    \/ AskStatus(t) \/ CswArrives(t) \/ CswFails(t) \/ CswClear(t)
    \/ ResetDrive(t) \/ ResetIn(t) \/ ResetOut(t)
    \/ Nothing(t) \/ EndQuery(t) \/ EndGood(t) \/ EndBad(t)

Next == \E t \in Threads : Calls(t) \/ Proceeds(t)

Spec == Init /\ [][Next]_vars

\* A drive answers what it is asked unless it has nothing to say, the host
\* controller reports it, and a thread that can run does.
FairSpec == Spec /\ \A t \in Threads : WF_vars(Proceeds(t))

-----------------------------------------------------------------------------
(* Properties *)

Labels == Computing \cup {"idle", "cbw", "data", "dataclear", "csw1", "csw2",
                          "cswclear", "reset", "clearin", "clearout"}

Commands == [kind : {"none", "read", "write", "query"},
             s : 0 .. sectorCount + MaxCount, n : 0 .. max_sectors]

\* The locals of scsi_read and scsi_write stay in range: done and moved never
\* leave the buffer and a command has at least one try left.
TypeOK ==
    /\ \A t \in Threads :
          /\ thread[t].pc \in Labels
          /\ thread[t].s \in Requested /\ thread[t].n \in 0 .. MaxCount \cup {1}
          /\ thread[t].buf \in Buffer(thread[t].n)
          /\ thread[t].done \in 0 .. thread[t].n
          /\ thread[t].moved \in 0 .. max_sectors
          /\ thread[t].tries \in 1 .. SCSI_MAX_RETRIES
          /\ thread[t].want \in Tags
          /\ thread[t].result \in -1 .. 2
    /\ tag \in Tags
    /\ ucmd \in [cmd : Commands, tag : Tags]
    /\ offline \in [Drives -> BOOLEAN]
    /\ dev \in [Drives -> [phase : {"cbw", "data", "csw"}, cmd : Commands, tag : Tags,
                           k : 0 .. max_sectors, status : 0 .. 2]]
    /\ halted \in [Drives -> SUBSET {"in", "out"}]
    /\ disk \in [Drives -> [Sectors -> Data]]

\* A CBW is only sent to a drive that waits for one: whatever went wrong in the
\* command before, usb_bulk_manage_status and usb_bulk_reset have brought the
\* drive back in step or have taken it offline.
InStep ==
    \A t \in Threads : thread[t].pc = "cbw" => dev[Drive[t]].phase = "cbw"

\* The locals of scsi_read and scsi_write stay in range, and host and drive in step.
TransportSound == TypeOK /\ InStep

\* scsi_read and scsi_write are the read and the write of a block device: every
\* drive implements BlockDevice for its user.  Data reported as read is what the
\* medium holds, a write reported as done is on the medium, one that failed
\* stored a prefix: across chunks, retries, stalls, short packets, bus errors
\* and failing resets.
ImplementsBlockDevice ==
    /\ \A t \in Threads : Device(t)!Init
    /\ [][\A t \in Threads : Device(t)!Next \/ UNCHANGED <<seen[Drive[t]], Asked(t), reply[t]>>]_vars

\* Every call of scsi_read, scsi_write and scsi_cmd returns: no error path of
\* the transport waits for an answer that the drive will not give.
CallsReturn == \A t \in Threads : thread[t].pc # "idle" ~> thread[t].pc = "idle"

\* The command that a drive executes is the one its own user built: the wait
\* in usb_mass_update is there "to avoid incorrect initialization when
\* attaching multiple drives at the same time" (usbmass_bd_usb_mass.c:791).
OwnCommand ==
    \A t \in Threads :
       dev[Drive[t]].phase # "cbw" /\ thread[t].pc # "end" => dev[Drive[t]].cmd = Command(t)
=============================================================================
