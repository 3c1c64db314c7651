------------------------------- MODULE SmbFile -------------------------------
(***************************************************************************)
(* Reading, writing and seeking in the files of a share (smb_fio.c), with  *)
(* the one read-ahead buffer that all handles share.  Calls hold the io    *)
(* lock, so that only one is under way; a read is a loop over requests and *)
(* copies from the buffer, and every request may meet a lost connection,   *)
(* which is restored before it is repeated.  Offsets are in units.  The    *)
(* files are changed by this client only.                                  *)
(***************************************************************************)
EXTENDS Integers

CONSTANTS
    Files,
    Slots,              \* smbman_fdhandles
    None,
    Data,
    MaxLength,          \* bound: length of a file
    MaxCount,           \* bound: length of a read or write
    READ_AHEAD_SIZE,    \* SMB_READ_AHEAD_SIZE
    Faults              \* "lost" connections, "error" replies to reads and writes

ASSUME SmbFileAssumption ==
    /\ None \notin Files /\ None \notin Slots /\ Data # {}
    /\ MaxLength \in Nat /\ MaxCount \in Nat /\ READ_AHEAD_SIZE \in Nat \ {0}

VARIABLES
    contents,   \* what the files on the server hold
    length,     \* and how long they are
    handles,    \* the file, filesize and position of each handle
    ahead,      \* smb_read_ahead: whose data, from where, how much
    data,       \* smb_read_ahead.data
    sequence,   \* sequence_fh and sequence_next
    call,       \* the read that is under way
    buf         \* its caller's buffer

vars == <<contents, length, handles, ahead, data, sequence, call, buf>>

Offsets == 0 .. MaxLength - 1
Handle == [file : Files \cup {None}, filesize : 0..MaxLength, position : 0..MaxLength]
Free == [file |-> None, filesize |-> 0, position |-> 0]

NoAhead == [fh |-> None, offset |-> 0, length |-> 0]
NoSequence == [fh |-> None, next |-> 0]
NoCall == [pc |-> "idle", fh |-> None, size |-> 0, completed |-> 0, want |-> 0, allow |-> FALSE]

\* buffers whose contents are of no use any more
Blank == CHOOSE d \in Data : TRUE
NoData == [i \in 0 .. READ_AHEAD_SIZE - 1 |-> Blank]
NoBuf == [i \in 0 .. MaxCount - 1 |-> Blank]

Init ==
    /\ contents \in [Files -> [Offsets -> Data]] /\ length \in [Files -> 0..MaxLength]
    /\ handles = [s \in Slots |-> Free]
    /\ ahead = NoAhead /\ data = NoData /\ sequence = NoSequence
    /\ call = NoCall /\ buf = NoBuf

Lowest(a, b) == IF a < b THEN a ELSE b

IsOpen(s) == handles[s].file # None

-----------------------------------------------------------------------------
(* smb_ReadAheadInvalidate for one handle and for all of them. *)

InvalidateAll == ahead' = NoAhead /\ data' = NoData /\ sequence' = NoSequence

Invalidate(s) ==
    /\ ahead' = IF ahead.fh = s THEN NoAhead ELSE ahead
    /\ data' = IF ahead.fh = s THEN NoData ELSE data
    /\ sequence' = IF sequence.fh = s THEN NoSequence ELSE sequence

-----------------------------------------------------------------------------
(* Handles. *)

\* a file that is truncated is open nowhere else
smb_open(s, f, flags) ==
    /\ call = NoCall /\ ~IsOpen(s)
    /\ "O_TRUNC" \in flags => \A t \in Slots : handles[t].file # f
    /\ Invalidate(s)
    /\ length' = IF "O_TRUNC" \in flags THEN [length EXCEPT ![f] = 0] ELSE length
    /\ handles' = [handles EXCEPT ![s] =
                      [file |-> f,
                       filesize |-> IF "O_TRUNC" \in flags THEN 0 ELSE length[f],
                       position |-> IF "O_APPEND" \in flags /\ "O_TRUNC" \notin flags
                                    THEN length[f] ELSE 0]]
    /\ UNCHANGED <<contents, call, buf>>

smb_close(s) ==
    /\ call = NoCall /\ IsOpen(s)
    /\ Invalidate(s)
    /\ handles' = [handles EXCEPT ![s] = Free]
    /\ UNCHANGED <<contents, length, call, buf>>

\* smb_Delete; the server refuses to delete a file that is open
smb_remove(f) ==
    /\ call = NoCall /\ \A s \in Slots : handles[s].file # f
    /\ InvalidateAll
    /\ length' = [length EXCEPT ![f] = 0]
    /\ UNCHANGED <<contents, handles, call, buf>>

\* to any place up to the end of the file
smb_lseek64(s, r) ==
    /\ call = NoCall /\ IsOpen(s) /\ r <= handles[s].filesize
    /\ handles' = [handles EXCEPT ![s].position = r]
    /\ UNCHANGED <<contents, length, ahead, data, sequence, call, buf>>

-----------------------------------------------------------------------------
(* Writing.  A write whose request is answered by an error, or repeated after *)
(* the connection was lost, may have reached the file in part.                *)

Stored(f, position, n, d) ==
    [contents EXCEPT ![f] = [i \in Offsets |-> IF position <= i /\ i < position + n THEN d ELSE @[i]]]

Store(s, n, d) ==
    LET f == handles[s].file
        end == handles[s].position + n
    IN /\ contents' = Stored(f, handles[s].position, n, d)
       /\ length' = [length EXCEPT ![f] = IF end > length[f] /\ n > 0 THEN end ELSE length[f]]

smb_writeOwn(s, n, d) ==
    /\ call = NoCall /\ IsOpen(s) /\ handles[s].position + n <= MaxLength
    /\ Invalidate(s)
    /\ Store(s, n, d)
    /\ LET end == handles[s].position + n IN
       handles' = [handles EXCEPT ![s].position = end,
                                  ![s].filesize = IF end > @ THEN end ELSE @]
    /\ UNCHANGED <<call, buf>>

smb_write(s, n, d) ==
    /\ call = NoCall /\ IsOpen(s) /\ handles[s].position + n <= MaxLength
    /\ InvalidateAll
    /\ \/ /\ Store(s, n, d)
          /\ LET end == handles[s].position + n IN
             handles' = [handles EXCEPT ![s].position = end,
                                        ![s].filesize = IF end > @ THEN end ELSE @]
       \/ /\ "error" \in Faults
          /\ \E k \in 0..n : Store(s, k, d)
          /\ UNCHANGED handles
    /\ UNCHANGED <<call, buf>>

-----------------------------------------------------------------------------
(* Reading. *)

smb_read(s, n) ==
    LET h == handles[s] IN
    /\ call = NoCall /\ IsOpen(s)
    /\ call' = [pc |-> "loop", fh |-> s,
                size |-> IF h.position + n > h.filesize THEN h.filesize - h.position ELSE n,
                completed |-> 0, want |-> 0,
                allow |-> sequence = [fh |-> s, next |-> h.position]]
    /\ buf' = NoBuf
    /\ UNCHANGED <<contents, length, handles, ahead, data, sequence>>

\* where smb_ReadCached reads next, and how much is missing
Position == handles[call.fh].position + call.completed
Remaining == call.size - call.completed

At(pc) == call.pc = pc

WithinInclusive ==
    /\ ahead.fh = call.fh
    /\ ahead.offset <= Position /\ Position <= ahead.offset + ahead.length

\* is the next place in the read-ahead buffer
Within ==
    /\ ahead.fh = call.fh
    /\ ahead.offset <= Position /\ Position < ahead.offset + ahead.length

\* what the caller's buffer holds after n units of source have been put in its next places
Filled(source, n) ==
    [i \in 0 .. MaxCount - 1 |->
        IF call.completed <= i /\ i < call.completed + n THEN source[i - call.completed] ELSE buf[i]]

Copied(n) == Filled([i \in 0 .. n - 1 |-> data[Position - ahead.offset + i]], n)

FromBuffer ==
    /\ At("loop") /\ Remaining > 0 /\ Within
    /\ LET n == Lowest(ahead.length - (Position - ahead.offset), Remaining) IN
        /\ buf' = Copied(n)
        /\ call' = [call EXCEPT !.completed = @ + n]
    /\ UNCHANGED <<contents, length, handles, ahead, data, sequence>>

\* the request is read straight into the caller's buffer: no sequence, or it is long
Directly ==
    /\ At("loop") /\ Remaining > 0 /\ ~Within
    /\ ~call.allow \/ Remaining >= READ_AHEAD_SIZE
    /\ call' = [call EXCEPT !.pc = "direct", !.want = Remaining]
    /\ UNCHANGED <<contents, length, handles, ahead, data, sequence, buf>>

\* or more than it into the read-ahead buffer
ReadAhead ==
    /\ At("loop") /\ Remaining > 0 /\ ~Within
    /\ call.allow /\ Remaining < READ_AHEAD_SIZE
    /\ handles[call.fh].filesize > Position
    /\ call' = [call EXCEPT !.pc = "ahead",
                            !.want = Lowest(READ_AHEAD_SIZE, handles[call.fh].filesize - Position)]
    /\ InvalidateAll
    /\ UNCHANGED <<contents, length, handles, buf>>

\* the file as smb_ReadFile gets it: all that was asked for, or nothing
File == handles[call.fh].file
Served == Position + call.want <= length[File]

DirectRead ==
    /\ At("direct") /\ Served
    /\ buf' = Filled([i \in 0 .. call.want - 1 |-> contents[File][Position + i]], call.want)
    /\ call' = [call EXCEPT !.pc = "loop", !.completed = @ + call.want, !.want = 0]
    /\ UNCHANGED <<contents, length, handles, ahead, data, sequence>>

AheadRead ==
    /\ At("ahead") /\ Served
    /\ ahead' = [fh |-> call.fh, offset |-> Position, length |-> call.want]
    /\ data' = [i \in 0 .. READ_AHEAD_SIZE - 1 |->
                   IF i < call.want THEN contents[File][Position + i] ELSE Blank]
    /\ call' = [call EXCEPT !.pc = "loop", !.want = 0]
    /\ UNCHANGED <<contents, length, handles, sequence, buf>>

\* smb_ReconnectUntilReady: the handles are opened again and their sizes taken anew
Reconnected ==
    /\ InvalidateAll
    /\ handles' = [s \in Slots |-> IF IsOpen(s) THEN [handles[s] EXCEPT !.filesize = length[handles[s].file]]
                                   ELSE handles[s]]
    /\ UNCHANGED <<contents, length, call, buf>>

Lost == "lost" \in Faults /\ call.pc \in {"direct", "ahead"} /\ Reconnected

\* the end of the loop: all is read, nothing is left, or a request failed
ReadFails ==
    /\ call.pc \in {"direct", "ahead"}
    /\ \/ ~Served /\ call' = [call EXCEPT !.pc = "done", !.want = 0]
       \/ /\ "error" \in Faults
          /\ call' = [call EXCEPT !.pc = IF call.completed = 0 THEN "failed" ELSE "done", !.want = 0]
    /\ UNCHANGED <<contents, length, handles, ahead, data, sequence, buf>>

LoopEnds ==
    /\ At("loop")
    /\ \/ Remaining <= 0
       \/ ~Within /\ call.allow /\ Remaining < READ_AHEAD_SIZE /\ handles[call.fh].filesize <= Position
    /\ call' = [call EXCEPT !.pc = "done"]
    /\ UNCHANGED <<contents, length, handles, ahead, data, sequence, buf>>

\* what smb_read does with the result
ReadReturns ==
    /\ \/ /\ At("done") /\ call.completed > 0
          /\ handles' = [handles EXCEPT ![call.fh].position = Position]
          /\ sequence' = [fh |-> call.fh, next |-> Position]
          /\ UNCHANGED <<ahead, data>>
       \/ At("done") /\ call.completed = 0 /\ UNCHANGED <<handles, ahead, data, sequence>>
       \/ At("failed") /\ Invalidate(call.fh) /\ UNCHANGED handles
    /\ call' = NoCall /\ buf' = NoBuf
    /\ UNCHANGED <<contents, length>>

-----------------------------------------------------------------------------
\* the connection may also be lost between two calls: the keep-alive thread notices
LostIdle == "lost" \in Faults /\ call = NoCall /\ Reconnected

Reading == FromBuffer \/ Directly \/ ReadAhead \/ DirectRead \/ AheadRead \/ ReadFails \/ LoopEnds \/ ReadReturns

Next ==
    \/ \E s \in Slots, f \in Files, flags \in SUBSET {"O_TRUNC", "O_APPEND"} : smb_open(s, f, flags)
    \/ \E s \in Slots : smb_close(s)
    \/ \E f \in Files : smb_remove(f)
    \/ \E s \in Slots, r \in 0..MaxLength : smb_lseek64(s, r)
    \/ \E s \in Slots, n \in 0..MaxCount, d \in Data : smb_write(s, n, d)
    \/ \E s \in Slots, n \in 0..MaxCount : smb_read(s, n)
    \/ Lost \/ LostIdle \/ Reading

Spec == Init /\ [][Next]_vars

\* the caller runs, and a request is answered in the end
FairSpec == Spec /\ WF_vars(Reading)

-----------------------------------------------------------------------------
TypeOK ==
    /\ contents \in [Files -> [Offsets -> Data]] /\ length \in [Files -> 0..MaxLength]
    /\ handles \in [Slots -> Handle]
    /\ ahead \in [fh : Slots \cup {None}, offset : 0..MaxLength, length : 0..READ_AHEAD_SIZE]
    /\ data \in [0 .. READ_AHEAD_SIZE - 1 -> Data]
    /\ sequence \in [fh : Slots \cup {None}, next : 0..MaxLength]
    /\ call \in [pc : {"idle", "loop", "direct", "ahead", "done", "failed"}, fh : Slots \cup {None},
                 size : -MaxLength..MaxCount, completed : 0..MaxCount,
                 want : 0 .. MaxCount + READ_AHEAD_SIZE, allow : BOOLEAN]
    /\ buf \in [0 .. MaxCount - 1 -> Data]

(* What smb_read hands to its caller is what the file holds at that place,   *)
(* wherever it came from, after whatever writes through this and the other   *)
(* handles, new uses of the slot and lost connections.                       *)
ReadsFile ==
    call # NoCall => \A i \in 0 .. call.completed - 1 :
        /\ handles[call.fh].position + i < length[File]
        /\ buf[i] = contents[File][handles[call.fh].position + i]

(* A read ends. *)
Returns == (call # NoCall) ~> (call = NoCall)
=============================================================================
