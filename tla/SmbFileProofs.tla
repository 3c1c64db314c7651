--------------------------- MODULE SmbFileProofs ---------------------------
(***************************************************************************)
(* smb_read returns what the file holds, for any number of files and       *)
(* handles, lengths of files and reads, and size of the read-ahead buffer. *)
(* What makes ReadsFile inductive is that the read-ahead buffer holds what *)
(* the file of its handle holds: every operation that changes the file or  *)
(* the handle gives the buffer up.                                         *)
(***************************************************************************)
EXTENDS SmbFile, TLAPS

\* Most leaves are first-order. Those with arithmetic or records name Z3 and SMT,
\* two encodings, of which the second is tried where the first fails.
USE ZenonT(60)

(* The read-ahead buffer belongs to an open handle and holds its file.      *)
AheadIsFile ==
    ahead.fh # None =>
        LET f == handles[ahead.fh].file IN
        /\ f # None
        /\ ahead.offset + ahead.length <= length[f]
        /\ \A i \in 0 .. ahead.length - 1 : data[i] = contents[f][ahead.offset + i]

(* A read is of an open handle; it does not ask for more than fits.         *)
InCall ==
    call # NoCall =>
        /\ call.fh \in Slots /\ handles[call.fh].file \in Files
        /\ call.pc # "idle"
        /\ call.completed > 0 => call.completed <= call.size
        /\ call.pc = "direct" => call.want = call.size - call.completed /\ call.want > 0
        /\ call.pc = "ahead" => call.want <= READ_AHEAD_SIZE

IInv == TypeOK /\ ReadsFile /\ AheadIsFile /\ InCall

\* what a fresh buffer is filled with is data
LEMMA BlankIsData == Blank \in Data
  BY SmbFileAssumption DEF Blank

\* the driver starts with nothing open and an empty read-ahead buffer (smb_initdev)
LEMMA InitInv == Init => IInv
  <1> SUFFICES ASSUME Init PROVE IInv
    OBVIOUS
  <1>1. TypeOK
    BY Z3T(20), SMTT(20), BlankIsData, SmbFileAssumption
    DEF Init, TypeOK, Handle, Free, NoAhead, NoData, NoSequence, NoCall, NoBuf, Offsets
  <1>2. ReadsFile /\ AheadIsFile /\ InCall
    BY DEF Init, ReadsFile, AheadIsFile, InCall, NoAhead
  <1> QED
    BY <1>1, <1>2 DEF IInv

\* the constants are numbers and sets as they should be, throughout
USE SmbFileAssumption

\* smb_ReadAheadInvalidate leaves a buffer of the right shape
LEMMA InvalidatedTypes ==
    ASSUME NEW s \in Slots, TypeOK, InvalidateAll \/ Invalidate(s)
    PROVE  /\ ahead' \in [fh : Slots \cup {None}, offset : 0..MaxLength, length : 0..READ_AHEAD_SIZE]
           /\ data' \in [0 .. READ_AHEAD_SIZE - 1 -> Data]
           /\ sequence' \in [fh : Slots \cup {None}, next : 0..MaxLength]
  BY Z3T(20), SMTT(20), BlankIsData DEF TypeOK, InvalidateAll, Invalidate, NoAhead, NoData, NoSequence

\* a write that fits leaves files of the right shape (smb_WriteFile)
LEMMA StoredTypes ==
    ASSUME NEW s \in Slots, NEW n \in 0..MaxCount, NEW d \in Data, TypeOK, IsOpen(s),
           handles[s].position + n <= MaxLength, Store(s, n, d)
    PROVE  /\ contents' \in [Files -> [Offsets -> Data]]
           /\ length' \in [Files -> 0..MaxLength]
  <1> DEFINE f == handles[s].file
  <1>1. f \in Files /\ handles[s].position \in 0..MaxLength
    BY DEF TypeOK, Handle, IsOpen
  <1>2. contents' \in [Files -> [Offsets -> Data]]
    BY Z3T(20), SMTT(20), <1>1 DEF TypeOK, Store, Stored
  <1>3. length' \in [Files -> 0..MaxLength]
    <2> DEFINE end == handles[s].position + n
    <2>0. length[f] \in 0..MaxLength
      BY <1>1 DEF TypeOK
    <2>1. (IF end > length[f] /\ n > 0 THEN end ELSE length[f]) \in 0..MaxLength
      BY Z3T(20), SMTT(20), <1>1, <2>0
    <2>2. length' = [length EXCEPT ![f] = IF end > length[f] /\ n > 0 THEN end ELSE length[f]]
      BY DEF Store
    <2> HIDE DEF f, end
    <2> QED
      BY <1>1, <2>1, <2>2 DEF TypeOK
  <1> QED
    BY <1>2, <1>3

\* changing one handle keeps the table of handles well formed
LEMMA HandleMoved ==
    ASSUME NEW s \in Slots, TypeOK, NEW h \in Handle, handles' = [handles EXCEPT ![s] = h]
    PROVE  handles' \in [Slots -> Handle]
  BY DEF TypeOK

\* nothing is under way, so that only the read-ahead buffer says something of the files
LEMMA NoCallInv ==
    ASSUME call' = NoCall
    PROVE  ReadsFile' /\ InCall'
  BY DEF ReadsFile, InCall

\* the read that is under way
LEMMA InRead ==
    ASSUME IInv, call.pc # "idle"
    PROVE  /\ call # NoCall /\ call.fh \in Slots
           /\ handles[call.fh] \in Handle
           /\ File \in Files /\ length[File] \in 0..MaxLength
           /\ handles[call.fh].position \in 0..MaxLength /\ handles[call.fh].filesize \in 0..MaxLength
           /\ call.completed \in 0..MaxCount /\ call.size \in Int /\ call.size <= MaxCount
           /\ call.want \in Nat
           /\ Position \in Nat /\ Remaining \in Int
  <1>1. call # NoCall
    BY Z3T(20), SMTT(20) DEF NoCall
  <1>2. call.fh \in Slots /\ File \in Files
    BY <1>1 DEF IInv, InCall, File
  <1>3. /\ call.completed \in 0..MaxCount /\ call.size \in -MaxLength..MaxCount
        /\ call.want \in 0 .. MaxCount + READ_AHEAD_SIZE
    BY DEF IInv, TypeOK
  <1>4. handles[call.fh] \in Handle /\ length[File] \in 0..MaxLength
    BY <1>2 DEF IInv, TypeOK
  <1>5. handles[call.fh].position \in 0..MaxLength /\ handles[call.fh].filesize \in 0..MaxLength
    BY <1>4 DEF Handle
  <1> QED
    BY Z3T(20), SMTT(20), <1>1, <1>2, <1>3, <1>4, <1>5 DEF Position, Remaining

\* n units of source are the file from the next place on
FileGoesOn(source, n) ==
    /\ source \in [0 .. n - 1 -> Data]
    /\ \A i \in 0 .. n - 1 : source[i] = contents[File][Position + i]

\* a place in the caller's buffer, counted from where a request was put
LEMMA Shift ==
    ASSUME NEW i \in Nat, NEW c \in Nat, NEW n \in Nat, c <= i, i < c + n
    PROVE  i - c \in 0 .. n - 1
  BY Z3T(20), SMTT(20)

\* what is put in the buffer then
LEMMA FilledIsFile ==
    ASSUME IInv, call.pc # "idle", NEW n \in Nat, NEW source, FileGoesOn(source, n),
           call.completed + n <= MaxCount, Position + n <= length[File]
    PROVE  /\ Filled(source, n) \in [0 .. MaxCount - 1 -> Data]
           /\ \A i \in 0 .. call.completed + n - 1 :
                /\ handles[call.fh].position + i < length[File]
                /\ Filled(source, n)[i] = contents[File][handles[call.fh].position + i]
  <1> DEFINE p == handles[call.fh].position
  <1>1. p \in Nat /\ call.completed \in Nat /\ Position = p + call.completed /\ length[File] \in Nat
    BY Z3T(20), SMTT(20), InRead DEF Position
  <1>2. buf \in [0 .. MaxCount - 1 -> Data]
    BY DEF IInv, TypeOK
  <1>3. ASSUME NEW i \in 0 .. MaxCount - 1
        PROVE  Filled(source, n)[i] \in Data
    <2>1. CASE call.completed <= i /\ i < call.completed + n
      <3>1. i - call.completed \in 0 .. n - 1
        BY Z3T(20), SMTT(20), <1>1, <2>1, Shift
      <3> QED
        BY <2>1, <3>1 DEF Filled, FileGoesOn
    <2>2. CASE ~(call.completed <= i /\ i < call.completed + n)
      BY <1>2, <2>2 DEF Filled
    <2> QED
      BY <2>1, <2>2
  <1>4. ASSUME NEW i \in 0 .. call.completed + n - 1
        PROVE  /\ p + i < length[File]
               /\ Filled(source, n)[i] = contents[File][p + i]
    <2>1. i \in 0 .. MaxCount - 1 /\ p + i < length[File]
      BY Z3T(20), SMTT(20), <1>1
    <2>2. CASE i < call.completed
      <3>1. i \in 0 .. call.completed - 1
        BY Z3T(20), SMTT(20), <1>1, <2>2
      <3>2. buf[i] = contents[File][p + i]
        BY <3>1, InRead DEF IInv, ReadsFile
      <3>3. Filled(source, n)[i] = buf[i]
        BY Z3T(20), SMTT(20), <1>1, <2>1, <2>2 DEF Filled
      <3> QED
        BY <2>1, <3>2, <3>3
    <2>3. CASE i >= call.completed
      <3>1. i - call.completed \in 0 .. n - 1 /\ Position + (i - call.completed) = p + i
        BY Z3T(20), SMTT(20), <1>1, <2>3, Shift
      <3>2. Filled(source, n)[i] = source[i - call.completed]
        BY Z3T(20), SMTT(20), <1>1, <2>1, <2>3 DEF Filled
      <3> QED
        BY <2>1, <3>1, <3>2 DEF FileGoesOn
    <2> QED
      BY Z3T(20), SMTT(20), <1>1, <2>2, <2>3
  <1>5. Filled(source, n) = [i \in 0 .. MaxCount - 1 |-> Filled(source, n)[i]]
    BY DEF Filled
  <1> QED
    BY <1>3, <1>4, <1>5

Completes(n) ==
    \/ call.pc = "loop" /\ call' = [call EXCEPT !.completed = @ + n]
    \/ call' = [call EXCEPT !.pc = "loop", !.completed = @ + n, !.want = 0]

\* so a step that completes n more units keeps the invariant
LEMMA FilledStep ==
    ASSUME IInv, call.pc # "idle", NEW n \in Nat, n > 0, Completes(n),
           call.completed + n <= call.size, Position + n <= length[File],
           NEW source, FileGoesOn(source, n), buf' = Filled(source, n),
           UNCHANGED <<contents, length, handles, ahead, data, sequence>>
    PROVE  IInv'
  <1>0. call.completed + n <= MaxCount /\ call.completed + n \in 0..MaxCount
    BY Z3T(20), SMTT(20), InRead
  <1>1. /\ call'.fh = call.fh /\ call'.completed = call.completed + n /\ call'.pc = "loop"
        /\ call'.size = call.size
    BY DEF IInv, TypeOK, Completes
  <1>2. TypeOK'
    <2>1. buf' \in [0 .. MaxCount - 1 -> Data]
      BY <1>0, FilledIsFile
    <2>2. call' \in [pc : {"idle", "loop", "direct", "ahead", "done", "failed"}, fh : Slots \cup {None},
                     size : -MaxLength..MaxCount, completed : 0..MaxCount,
                     want : 0 .. MaxCount + READ_AHEAD_SIZE, allow : BOOLEAN]
      <3>1. 0 \in 0 .. MaxCount + READ_AHEAD_SIZE
        BY Z3T(20), SMTT(20)
      <3> QED
        BY <1>0, <3>1 DEF IInv, TypeOK, Completes
    <2> QED
      BY <2>1, <2>2 DEF IInv, TypeOK
  <1>3. ReadsFile'
    <2>1. \A i \in 0 .. call.completed + n - 1 :
            /\ handles[call.fh].position + i < length[File]
            /\ buf'[i] = contents[File][handles[call.fh].position + i]
      BY <1>0, FilledIsFile
    <2>2. File' = File /\ handles'[call'.fh].position = handles[call.fh].position
      BY <1>1 DEF File
    <2>3. 0 .. call'.completed - 1 = 0 .. call.completed + n - 1
      <3>1. call.completed \in Int
        BY Z3T(20), SMTT(20), InRead
      <3> QED
        BY Z3T(20), SMTT(20), <1>1, <3>1
    <2> QED
      BY <2>1, <2>2, <2>3 DEF ReadsFile
  <1>4. AheadIsFile'
    BY DEF IInv, AheadIsFile
  <1>5. InCall'
    BY <1>1, InRead DEF InCall, File
  <1> QED
    BY <1>2, <1>3, <1>4, <1>5 DEF IInv

\* a step within a read that changes only where it is and what it asks for next
Asks(pc, want) == call' = [call EXCEPT !.pc = pc, !.want = want]

\* ... keeps what has been read so far (smb_ReadCached)
LEMMA AsksStep ==
    ASSUME IInv, call.pc # "idle", NEW pc \in {"loop", "direct", "ahead", "done", "failed"},
           NEW want \in 0 .. MaxCount + READ_AHEAD_SIZE, Asks(pc, want),
           pc = "direct" => want = Remaining /\ want > 0, pc = "ahead" => want <= READ_AHEAD_SIZE,
           UNCHANGED <<contents, length, handles, buf>>
    PROVE  ReadsFile' /\ InCall' /\ call' \in
                      [pc : {"idle", "loop", "direct", "ahead", "done", "failed"}, fh : Slots \cup {None},
                       size : -MaxLength..MaxCount, completed : 0..MaxCount,
                       want : 0 .. MaxCount + READ_AHEAD_SIZE, allow : BOOLEAN]
  <1>1. /\ call'.fh = call.fh /\ call'.completed = call.completed /\ call'.pc = pc
        /\ call'.size = call.size /\ call'.want = want
    BY DEF IInv, TypeOK, Asks
  <1>2. ReadsFile'
    BY <1>1, InRead DEF IInv, ReadsFile, File
  <1>3. InCall'
    BY <1>1, InRead DEF IInv, InCall, File, Remaining
  <1>4. call' \in
                      [pc : {"idle", "loop", "direct", "ahead", "done", "failed"}, fh : Slots \cup {None},
                       size : -MaxLength..MaxCount, completed : 0..MaxCount,
                       want : 0 .. MaxCount + READ_AHEAD_SIZE, allow : BOOLEAN]
    BY DEF IInv, TypeOK, Asks
  <1> QED
    BY <1>2, <1>3, <1>4

\* every operation of the client, and every step of a read, keeps the invariant
LEMMA NextInv == IInv /\ [Next]_vars => IInv'
  <1> SUFFICES ASSUME IInv, [Next]_vars PROVE IInv'
    OBVIOUS
  <1> USE DEF IInv
  <1>1. ASSUME NEW s \in Slots, NEW f \in Files, NEW flags \in SUBSET {"O_TRUNC", "O_APPEND"}, smb_open(s, f, flags)
        PROVE  IInv'
    <2>1. TypeOK'
      <3>1. length' \in [Files -> 0..MaxLength]
        BY Z3T(20), SMTT(20), <1>1 DEF smb_open, TypeOK
      <3>2. handles' \in [Slots -> Handle]
        BY Z3T(20), SMTT(20), <1>1 DEF smb_open, TypeOK, Handle
      <3> QED
        BY <1>1, <3>1, <3>2, InvalidatedTypes DEF smb_open, TypeOK
    <2>2. AheadIsFile'
      <3> SUFFICES ASSUME ahead'.fh # None PROVE AheadIsFile'
        BY DEF AheadIsFile
      <3>1. ahead' = ahead /\ data' = data /\ ahead.fh # s /\ ahead.fh \in Slots
        BY <1>1 DEF smb_open, Invalidate, NoAhead, TypeOK
      <3>2. handles'[ahead.fh] = handles[ahead.fh]
        BY <1>1, <3>1 DEF smb_open, TypeOK
      <3>3. length'[handles[ahead.fh].file] = length[handles[ahead.fh].file]
        BY <1>1, <3>1 DEF smb_open, TypeOK, Handle, AheadIsFile
      <3> QED
        BY <1>1, <3>1, <3>2, <3>3 DEF smb_open, AheadIsFile
    <2> QED
      BY <1>1, <2>1, <2>2, NoCallInv DEF smb_open
  <1>2. ASSUME NEW s \in Slots, smb_close(s)
        PROVE  IInv'
    <2>1. TypeOK'
      <3>1. Free \in Handle
        BY Z3T(20), SMTT(20) DEF Free, Handle
      <3>2. handles' \in [Slots -> Handle]
        BY <1>2, <3>1, HandleMoved DEF smb_close
      <3> QED
        BY <1>2, <3>2, InvalidatedTypes DEF smb_close, TypeOK
    <2>2. AheadIsFile'
      BY <1>2 DEF smb_close, Invalidate, NoAhead, TypeOK, AheadIsFile
    <2> QED
      BY <1>2, <2>1, <2>2, NoCallInv DEF smb_close
  <1>3. ASSUME NEW f \in Files, smb_remove(f)
        PROVE  IInv'
    <2>1. TypeOK'
      BY Z3T(20), SMTT(20), <1>3, BlankIsData DEF smb_remove, TypeOK, InvalidateAll, NoAhead, NoData, NoSequence
    <2>2. AheadIsFile'
      BY <1>3 DEF smb_remove, InvalidateAll, NoAhead, AheadIsFile
    <2> QED
      BY <1>3, <2>1, <2>2, NoCallInv DEF smb_remove
  <1>4. ASSUME NEW s \in Slots, NEW r \in 0..MaxLength, smb_lseek64(s, r)
        PROVE  IInv'
    <2> DEFINE h == [handles[s] EXCEPT !.position = r]
    <2>0. handles[s] \in Handle
      BY DEF TypeOK
    <2>1. h \in Handle /\ h.file = handles[s].file /\ handles' = [handles EXCEPT ![s] = h]
      BY <1>4, <2>0 DEF smb_lseek64, Handle
    <2> HIDE DEF h
    <2>2. TypeOK'
      BY <1>4, <2>1, HandleMoved DEF smb_lseek64, TypeOK
    <2>3. AheadIsFile'
      <3>1. \A t \in Slots : handles'[t].file = handles[t].file
        BY <2>1 DEF TypeOK
      <3> QED
        BY <1>4, <3>1 DEF smb_lseek64, AheadIsFile, TypeOK
    <2> QED
      BY <1>4, <2>2, <2>3, NoCallInv DEF smb_lseek64
  <1>5. ASSUME NEW s \in Slots, NEW n \in 0..MaxCount, NEW d \in Data, smb_write(s, n, d)
        PROVE  IInv'
    <2>1. contents' \in [Files -> [Offsets -> Data]] /\ length' \in [Files -> 0..MaxLength]
      <3>1. PICK k \in 0..n : Store(s, k, d)
        BY Z3T(20), SMTT(20), <1>5 DEF smb_write
      <3>2. handles[s].position \in 0..MaxLength
        BY DEF TypeOK, Handle
      <3>3. k \in 0..MaxCount /\ handles[s].position + k <= MaxLength
        BY Z3T(20), SMTT(20), <1>5, <3>1, <3>2 DEF smb_write
      <3> QED
        BY <1>5, <3>1, <3>3, StoredTypes DEF smb_write
    <2>2. handles' \in [Slots -> Handle]
      <3> DEFINE end == handles[s].position + n
      <3> DEFINE h == [handles[s] EXCEPT !.position = end,
                                         !.filesize = IF end > @ THEN end ELSE @]
      <3>0. handles[s] \in Handle
        BY DEF TypeOK
      <3>1. end \in 0..MaxLength
        BY Z3T(20), SMTT(20), <1>5, <3>0 DEF smb_write, Handle
      <3>2. h \in Handle
        BY <3>0, <3>1 DEF Handle
      <3>3. handles' = handles \/ handles' = [handles EXCEPT ![s] = h]
        BY <1>5 DEF smb_write, TypeOK, Handle
      <3> QED
        BY <3>2, <3>3, HandleMoved DEF TypeOK
    <2>3. TypeOK'
      <3>1. ahead' = NoAhead /\ data' = NoData /\ sequence' = NoSequence /\ UNCHANGED <<call, buf>>
        BY <1>5 DEF smb_write, InvalidateAll
      <3>2. ahead' \in [fh : Slots \cup {None}, offset : 0..MaxLength, length : 0..READ_AHEAD_SIZE]
        BY Z3T(20), SMTT(20), <3>1 DEF NoAhead
      <3>3. data' \in [0 .. READ_AHEAD_SIZE - 1 -> Data]
        BY <3>1, BlankIsData DEF NoData
      <3>4. sequence' \in [fh : Slots \cup {None}, next : 0..MaxLength]
        BY Z3T(20), SMTT(20), <3>1 DEF NoSequence
      <3> QED
        BY <2>1, <2>2, <3>1, <3>2, <3>3, <3>4 DEF TypeOK
    <2>4. AheadIsFile'
      BY <1>5 DEF smb_write, InvalidateAll, NoAhead, AheadIsFile
    <2> QED
      BY <1>5, <2>3, <2>4, NoCallInv DEF smb_write
  <1>6. ASSUME NEW s \in Slots, NEW n \in 0..MaxCount, smb_read(s, n)
        PROVE  IInv'
    <2>1. handles[s] \in Handle /\ handles[s].file \in Files
      BY <1>6 DEF smb_read, TypeOK, Handle, IsOpen
    <2>2. TypeOK'
      <3> DEFINE h == handles[s]
      <3> DEFINE size == IF h.position + n > h.filesize THEN h.filesize - h.position ELSE n
      <3>1. size \in -MaxLength..MaxCount
        BY Z3T(20), SMTT(20), <2>1 DEF Handle
      <3>2. (sequence = [fh |-> s, next |-> h.position]) \in BOOLEAN
        OBVIOUS
      <3>3. call' = [pc |-> "loop", fh |-> s, size |-> size, completed |-> 0, want |-> 0,
                     allow |-> sequence = [fh |-> s, next |-> h.position]]
        BY <1>6 DEF smb_read
      <3>4. buf' \in [0 .. MaxCount - 1 -> Data]
        BY <1>6, BlankIsData DEF smb_read, NoBuf
      <3> HIDE DEF size
      <3> QED
        BY Z3T(20), SMTT(20), <1>6, <3>1, <3>2, <3>3, <3>4 DEF smb_read, TypeOK
    <2>3. ReadsFile'
      BY Z3T(20), SMTT(20), <1>6 DEF smb_read, ReadsFile
    <2>4. AheadIsFile'
      BY <1>6 DEF smb_read, AheadIsFile
    <2>5. InCall'
      BY Z3T(20), SMTT(20), <1>6, <2>1 DEF smb_read, InCall
    <2> QED
      BY <2>2, <2>3, <2>4, <2>5
  <1>7. CASE FromBuffer
    <2> DEFINE n == Lowest(ahead.length - (Position - ahead.offset), Remaining)
    <2> DEFINE source == [i \in 0 .. n - 1 |-> data[Position - ahead.offset + i]]
    <2>1. call.pc # "idle" /\ ahead.fh = call.fh /\ ahead.fh # None
      BY <1>7, InRead DEF FromBuffer, At, Within
    <2>2. /\ ahead.offset \in Nat /\ ahead.length \in 0..READ_AHEAD_SIZE
          /\ ahead.offset <= Position /\ Position < ahead.offset + ahead.length /\ Remaining > 0
      BY Z3T(20), SMTT(20), <1>7 DEF FromBuffer, Within, TypeOK
    <2>3. /\ n \in Nat /\ n > 0 /\ n <= Remaining /\ Position - ahead.offset \in Nat
          /\ Position - ahead.offset + n <= ahead.length
      BY Z3T(20), SMTT(20), <2>1, <2>2, InRead DEF Lowest
    <2>4. buf' = Filled(source, n) /\ call' = [call EXCEPT !.completed = @ + n]
      BY <1>7 DEF FromBuffer, Copied
    <2> HIDE DEF n
    <2>5. /\ ahead.offset + ahead.length <= length[File]
          /\ \A i \in 0 .. ahead.length - 1 : data[i] = contents[File][ahead.offset + i]
      BY <2>1 DEF AheadIsFile, File
    <2>6. \A i \in 0 .. n - 1 :
              /\ Position - ahead.offset + i \in 0 .. ahead.length - 1
              /\ ahead.offset + (Position - ahead.offset + i) = Position + i
      BY Z3T(20), SMTT(20), <2>1, <2>2, <2>3, InRead
    <2>7. \A i \in 0 .. n - 1 : source[i] = contents[File][Position + i]
      BY <2>5, <2>6
    <2>8. \A i \in 0 .. n - 1 : data[Position - ahead.offset + i] \in Data
      <3>1. \A i \in 0 .. n - 1 : Position - ahead.offset + i \in 0 .. READ_AHEAD_SIZE - 1
        BY Z3T(20), SMTT(20), <2>2, <2>6
      <3> QED
        BY <3>1 DEF TypeOK
    <2>9. FileGoesOn(source, n)
      BY <2>7, <2>8 DEF FileGoesOn
    <2>10. Position + n <= length[File] /\ call.completed + n <= call.size
      BY Z3T(20), SMTT(20), <2>1, <2>2, <2>3, <2>5, InRead DEF Remaining
    <2>11. call.pc = "loop" /\ UNCHANGED <<contents, length, handles, ahead, data, sequence>>
      BY <1>7 DEF FromBuffer, At
    <2> HIDE DEF source
    <2>12. Completes(n)
      BY <2>4, <2>11 DEF Completes
    <2> HIDE DEF source
    <2> QED
      BY <2>1, <2>3, <2>4, <2>9, <2>10, <2>11, <2>12, FilledStep
  <1>8. CASE Directly
    <2>1. call.pc # "idle" /\ Remaining \in 0..MaxCount
      <3>1. call.pc # "idle"
        BY <1>8 DEF Directly, At
      <3> QED
        BY Z3T(20), SMTT(20), <1>8, <3>1, InRead DEF Directly, Remaining
    <2>2. Asks("direct", Remaining) /\ Remaining \in 0 .. MaxCount + READ_AHEAD_SIZE /\ Remaining > 0
      BY Z3T(20), SMTT(20), <1>8, <2>1 DEF Directly, Asks
    <2>3. UNCHANGED <<contents, length, handles, ahead, data, sequence, buf>>
      BY <1>8 DEF Directly
    <2> QED
      BY <2>1, <2>2, <2>3, AsksStep DEF TypeOK, AheadIsFile
  <1>9. CASE ReadAhead
    <2> DEFINE want == Lowest(READ_AHEAD_SIZE, handles[call.fh].filesize - Position)
    <2>1. call.pc # "idle"
      BY <1>9 DEF ReadAhead, At
    <2>2. want \in 0 .. MaxCount + READ_AHEAD_SIZE /\ want <= READ_AHEAD_SIZE
      BY Z3T(20), SMTT(20), <1>9, <2>1, InRead DEF ReadAhead, Lowest
    <2>3. Asks("ahead", want) /\ UNCHANGED <<contents, length, handles, buf>>
      BY <1>9 DEF ReadAhead, Asks
    <2> HIDE DEF want
    <2>4. TypeOK'
      <3>1. /\ ahead' \in [fh : Slots \cup {None}, offset : 0..MaxLength, length : 0..READ_AHEAD_SIZE]
            /\ data' \in [0 .. READ_AHEAD_SIZE - 1 -> Data]
            /\ sequence' \in [fh : Slots \cup {None}, next : 0..MaxLength]
        BY <1>9, <2>1, InvalidatedTypes, InRead DEF ReadAhead
      <3>2. call' \in
              [pc : {"idle", "loop", "direct", "ahead", "done", "failed"}, fh : Slots \cup {None},
               size : -MaxLength..MaxCount, completed : 0..MaxCount,
               want : 0 .. MaxCount + READ_AHEAD_SIZE, allow : BOOLEAN]
        BY <2>1, <2>2, <2>3, AsksStep
      <3> QED
        BY <2>3, <3>1, <3>2 DEF TypeOK
    <2>5. AheadIsFile'
      BY <1>9 DEF ReadAhead, InvalidateAll, NoAhead, AheadIsFile
    <2> QED
      BY <2>1, <2>2, <2>3, <2>4, <2>5, AsksStep
  <1>10. CASE DirectRead
    <2> DEFINE source == [i \in 0 .. call.want - 1 |-> contents[File][Position + i]]
    <2>1. call.pc # "idle" /\ call.pc = "direct"
      BY <1>10 DEF DirectRead, At
    <2>2. call.want = Remaining /\ call.want > 0 /\ Position + call.want <= length[File]
      BY <1>10, <2>1, InRead DEF DirectRead, InCall, Served, Remaining
    <2>3. \A i \in 0 .. call.want - 1 : Position + i \in Offsets
      BY Z3T(20), SMTT(20), <2>1, <2>2, InRead DEF Offsets
    <2>4. FileGoesOn(source, call.want)
      BY Z3T(20), SMTT(20), <2>1, <2>3, InRead DEF FileGoesOn, TypeOK
    <2>5. buf' = Filled(source, call.want) /\ Completes(call.want)
      BY <1>10 DEF DirectRead, Completes
    <2>6. call.completed + call.want <= call.size
      BY Z3T(20), SMTT(20), <2>1, <2>2, InRead DEF Remaining
    <2>7. UNCHANGED <<contents, length, handles, ahead, data, sequence>>
      BY <1>10 DEF DirectRead
    <2> HIDE DEF source
    <2>8. call.want \in Nat
      BY <2>1, InRead
    <2> QED
      BY <2>1, <2>2, <2>4, <2>5, <2>6, <2>7, <2>8, FilledStep
  <1>11. CASE AheadRead
    <2>1. call.pc # "idle" /\ call.pc = "ahead"
      BY <1>11 DEF AheadRead, At
    <2>2. call.want \in 0..READ_AHEAD_SIZE /\ Position + call.want <= length[File] /\ Position \in 0..MaxLength
      BY Z3T(20), SMTT(20), <1>11, <2>1, InRead DEF AheadRead, InCall, Served
    <2>3. Asks("loop", 0) /\ UNCHANGED <<contents, length, handles, sequence, buf>>
      BY <1>11 DEF AheadRead, Asks
    <2>4. \A i \in 0 .. READ_AHEAD_SIZE - 1 : i < call.want => Position + i \in Offsets
      BY Z3T(20), SMTT(20), <2>1, <2>2, InRead DEF Offsets
    <2>5. data' \in [0 .. READ_AHEAD_SIZE - 1 -> Data]
      BY Z3T(20), SMTT(20), <1>11, <2>1, <2>4, InRead, BlankIsData DEF AheadRead, TypeOK
    <2>6. ahead' = [fh |-> call.fh, offset |-> Position, length |-> call.want]
      BY <1>11 DEF AheadRead
    <2>7. TypeOK'
      <3>1. ahead' \in [fh : Slots \cup {None}, offset : 0..MaxLength, length : 0..READ_AHEAD_SIZE]
        BY <2>1, <2>2, <2>6, InRead
      <3>2. 0 \in 0 .. MaxCount + READ_AHEAD_SIZE
        BY Z3T(20), SMTT(20)
      <3>3. call' \in
              [pc : {"idle", "loop", "direct", "ahead", "done", "failed"}, fh : Slots \cup {None},
               size : -MaxLength..MaxCount, completed : 0..MaxCount,
               want : 0 .. MaxCount + READ_AHEAD_SIZE, allow : BOOLEAN]
        BY <2>1, <2>3, <3>2, AsksStep
      <3> QED
        BY <2>3, <2>5, <3>1, <3>3 DEF TypeOK
    <2>8. \A i \in 0 .. call.want - 1 : data'[i] = contents[File][Position + i]
      BY Z3T(20), SMTT(20), <1>11, <2>2 DEF AheadRead
    <2>9. AheadIsFile'
      <3>1. File # None
        BY <2>1, InRead
      <3> QED
        BY <2>2, <2>3, <2>6, <2>8, <3>1 DEF AheadIsFile, File
    <2>10. 0 \in 0 .. MaxCount + READ_AHEAD_SIZE
      BY Z3T(20), SMTT(20)
    <2> QED
      BY <2>1, <2>3, <2>7, <2>9, <2>10, AsksStep
  <1>12. CASE Lost \/ LostIdle
    <2>1. Reconnected
      BY <1>12 DEF Lost, LostIdle
    <2>2. /\ handles' \in [Slots -> Handle]
          /\ \A s \in Slots : handles'[s].file = handles[s].file /\ handles'[s].position = handles[s].position
      <3>1. ASSUME NEW s \in Slots
            PROVE  /\ handles'[s] \in Handle
                   /\ handles'[s].file = handles[s].file /\ handles'[s].position = handles[s].position
        <4>1. handles[s] \in Handle
          BY DEF TypeOK
        <4>2. CASE IsOpen(s)
          <5>1. length[handles[s].file] \in 0..MaxLength
            BY <4>1, <4>2 DEF IsOpen, Handle, TypeOK
          <5>2. handles'[s] = [handles[s] EXCEPT !.filesize = length[handles[s].file]]
            BY <2>1, <4>2 DEF Reconnected
          <5> QED
            BY <4>1, <5>1, <5>2 DEF Handle
        <4>3. CASE ~IsOpen(s)
          BY <2>1, <4>1, <4>3 DEF Reconnected
        <4> QED
          BY <4>2, <4>3
      <3>2. handles' = [s \in Slots |-> handles'[s]]
        BY <2>1 DEF Reconnected
      <3> QED
        BY <3>1, <3>2
    <2>3. UNCHANGED <<contents, length, call, buf>>
      BY <2>1 DEF Reconnected
    <2>4. TypeOK'
      BY Z3T(20), SMTT(20), <2>1, <2>2, <2>3, BlankIsData DEF Reconnected, TypeOK, InvalidateAll, NoAhead, NoData, NoSequence
    <2>5. ReadsFile' /\ InCall'
      <3>1. CASE call = NoCall
        BY <2>3, <3>1 DEF ReadsFile, InCall
      <3>2. CASE call # NoCall
        <4>1. call.fh \in Slots
          BY <3>2 DEF InCall
        <4>2. handles'[call.fh].file = handles[call.fh].file /\ handles'[call.fh].position = handles[call.fh].position
          BY <2>2, <4>1
        <4> QED
          BY <2>3, <4>1, <4>2 DEF ReadsFile, InCall, File
      <3> QED
        BY <3>1, <3>2
    <2>6. AheadIsFile'
      BY <2>1 DEF Reconnected, InvalidateAll, NoAhead, AheadIsFile
    <2> QED
      BY <2>4, <2>5, <2>6
  <1>13. CASE ReadFails \/ LoopEnds
    <2>1. call.pc # "idle"
      BY <1>13 DEF ReadFails, LoopEnds, At
    <2>2. PICK pc \in {"done", "failed"}, want \in 0 .. MaxCount + READ_AHEAD_SIZE : Asks(pc, want)
      <3>1. 0 \in 0 .. MaxCount + READ_AHEAD_SIZE /\ call.want \in 0 .. MaxCount + READ_AHEAD_SIZE
        BY Z3T(20), SMTT(20) DEF TypeOK
      <3>2. CASE ReadFails
        BY <3>1, <3>2 DEF ReadFails, Asks
      <3>3. CASE LoopEnds
        <4>1. call' = [call EXCEPT !.pc = "done", !.want = call.want]
          BY <3>3 DEF LoopEnds, TypeOK
        <4> QED
          BY <3>1, <4>1 DEF Asks
      <3> QED
        BY <1>13, <3>2, <3>3
    <2>3. UNCHANGED <<contents, length, handles, ahead, data, sequence, buf>>
      BY <1>13 DEF ReadFails, LoopEnds
    <2>4. pc \in {"loop", "direct", "ahead", "done", "failed"} /\ pc # "direct" /\ pc # "ahead"
      BY <2>2
    <2>5. /\ ReadsFile' /\ InCall'
          /\ call' \in [pc : {"idle", "loop", "direct", "ahead", "done", "failed"}, fh : Slots \cup {None},
                         size : -MaxLength..MaxCount, completed : 0..MaxCount,
                         want : 0 .. MaxCount + READ_AHEAD_SIZE, allow : BOOLEAN]
      BY <2>1, <2>2, <2>3, <2>4, AsksStep
    <2>6. TypeOK' /\ AheadIsFile'
      BY <2>3, <2>5 DEF TypeOK, AheadIsFile, File
    <2> QED
      BY <2>5, <2>6
  <1>14. CASE ReadReturns
    <2>1. call.pc # "idle" /\ call' = NoCall /\ UNCHANGED <<contents, length>>
      BY <1>14 DEF ReadReturns, At
    <2>2. /\ handles' \in [Slots -> Handle]
          /\ \A s \in Slots : handles'[s].file = handles[s].file
          /\ sequence' \in [fh : Slots \cup {None}, next : 0..MaxLength]
      <3>1. CASE At("done") /\ call.completed > 0
        <4> DEFINE h == [handles[call.fh] EXCEPT !.position = Position]
        <4>1. call.completed - 1 \in 0 .. call.completed - 1
          BY Z3T(20), SMTT(20), <2>1, <3>1, InRead
        <4>2. handles[call.fh].position + (call.completed - 1) < length[File]
          BY <2>1, <4>1, InRead DEF ReadsFile
        <4>3. Position \in 0..MaxLength
          BY Z3T(20), SMTT(20), <2>1, <4>2, InRead DEF Position
        <4>4. h \in Handle /\ h.file = handles[call.fh].file
          BY <2>1, <4>3, InRead DEF Handle
        <4>5. /\ handles' = [handles EXCEPT ![call.fh] = h]
              /\ sequence' = [fh |-> call.fh, next |-> Position]
          <5>1. call.pc = "done" /\ call.completed > 0 /\ call.completed # 0
            BY Z3T(20), SMTT(20), <2>1, <3>1, InRead DEF At
          <5> QED
            BY <1>14, <5>1 DEF ReadReturns, At
        <4> HIDE DEF h
        <4> QED
          BY <2>1, <4>3, <4>4, <4>5, InRead DEF TypeOK
      <3>2. CASE ~(At("done") /\ call.completed > 0)
        BY <1>14, <3>2, InvalidatedTypes, <2>1, InRead DEF ReadReturns, TypeOK
      <3> QED
        BY <3>1, <3>2
    <2>3. (ahead' = ahead /\ data' = data) \/ Invalidate(call.fh)
      BY <1>14 DEF ReadReturns
    <2>4. TypeOK'
      <3>1. buf' \in [0 .. MaxCount - 1 -> Data]
        BY <1>14, BlankIsData DEF ReadReturns, NoBuf
      <3>2. call' \in
              [pc : {"idle", "loop", "direct", "ahead", "done", "failed"}, fh : Slots \cup {None},
               size : -MaxLength..MaxCount, completed : 0..MaxCount,
               want : 0 .. MaxCount + READ_AHEAD_SIZE, allow : BOOLEAN]
        BY Z3T(20), SMTT(20), <2>1 DEF NoCall
      <3> QED
        BY <2>1, <2>2, <2>3, <3>1, <3>2, InvalidatedTypes, InRead DEF TypeOK
    <2>5. AheadIsFile'
      <3> SUFFICES ASSUME ahead'.fh # None PROVE AheadIsFile'
        BY DEF AheadIsFile
      <3>1. ahead' = ahead /\ data' = data /\ ahead.fh \in Slots
        BY Z3T(20), SMTT(20), <2>3 DEF Invalidate, NoAhead, TypeOK
      <3> QED
        BY <2>1, <2>2, <3>1 DEF AheadIsFile
    <2> QED
      BY <2>1, <2>4, <2>5, NoCallInv
  <1>15. CASE UNCHANGED vars
    BY Z3T(20), SMTT(20), <1>15 DEF vars, TypeOK, ReadsFile, AheadIsFile, InCall, File
  <1> QED
    BY <1>1, <1>2, <1>3, <1>4, <1>5, <1>6, <1>7, <1>8, <1>9, <1>10, <1>11, <1>12, <1>13, <1>14, <1>15
    DEF Next, Reading

(* Whatever the number of files and handles, the length of files and reads    *)
(* and the size of the read-ahead buffer: what smb_read hands to its caller   *)
(* is what the file holds at that place, and variables keep their types.      *)
THEOREM ReadsAreCurrent == Spec => [](TypeOK /\ ReadsFile)
  <1>1. IInv => TypeOK /\ ReadsFile
    BY DEF IInv
  <1> QED
    BY InitInv, NextInv, <1>1, PTL DEF Spec
=============================================================================
