------------------------------ MODULE BdDefrag ------------------------------
(***************************************************************************)
(* Reading and writing a file by its list of fragments                     *)
(* (libbdm/src/bd_defrag.c): a call is cut into one request to the device  *)
(* for every fragment that it touches, and ends at the first that fails.   *)
(* To its user the file is a block device of its own.                      *)
(***************************************************************************)
EXTENDS Integers, Sequences

CONSTANTS
    fraglist,     \* sequence of fragments: first sector on the device and sector count
    First,        \* the sector of the file with which a fragment begins
    bdSectors,    \* sectors of the device
    Data,         \* contents of one sector
    MaxSector,    \* bound: largest sector number of a request
    MaxCount      \* bound: sectors per request, 2^16 - 1 in the code

fragcount == Len(fraglist)
Fragments == 1 .. fragcount

\* the sectors of the device that a fragment has
Extent(f) == f.sector .. f.sector + f.count - 1

\* The fragments are parts of the device that do not overlap; First adds up their
\* lengths, and First[fragcount + 1] is the length of the file.
ASSUME BdDefragAssumption ==
    /\ fraglist \in Seq([sector : Nat, count : Nat])
    /\ bdSectors \in Nat
    /\ \A i \in Fragments : fraglist[i].sector + fraglist[i].count <= bdSectors
    /\ \A i, j \in Fragments : i # j => Extent(fraglist[i]) \cap Extent(fraglist[j]) = {}
    /\ First \in [1 .. fragcount + 1 -> Nat]
    /\ First[1] = 0
    /\ \A i \in Fragments : First[i + 1] = First[i] + fraglist[i].count
    /\ MaxSector \in Nat
    /\ MaxCount \in Nat

VARIABLES
    medium,   \* what the device holds
    call,     \* the call under way
    reply     \* what the last call returned

vars == <<medium, call, reply>>

Length == First[fragcount + 1]
Requested == 0 .. MaxSector

\* the file: where its sectors are and what they hold
FragmentOf(t) == CHOOSE i \in Fragments : First[i] <= t /\ t < First[i + 1]
Place(t) == fraglist[FragmentOf(t)].sector + (t - First[FragmentOf(t)])
File == [t \in 0 .. Length - 1 |-> medium[Place(t)]]

\* between calls the file is what the medium holds, during a call what it held before
Seen == IF call.pc = "idle" THEN File ELSE call.old

\* the call under way
Asked ==
    IF call.pc = "idle" THEN [op |-> "none"]
    ELSE IF call.op = "read" THEN [op |-> "read", sector |-> call.sector, count |-> call.count]
    ELSE [op |-> "write", sector |-> call.sector, count |-> call.count, buffer |-> call.buffer]

Device == INSTANCE BlockDevice WITH sectorCount <- Length, disk <- Seen, request <- Asked

Init ==
    /\ medium \in [0 .. bdSectors - 1 -> Data]
    /\ call = [pc |-> "idle"]
    /\ reply = Device!Wrote

-----------------------------------------------------------------------------
\* a call begins; the buffer of a read holds anything
Call(op, sector, count, buffer) ==
    /\ call.pc = "idle"
    /\ call' = [pc |-> "loop", op |-> op, sector |-> sector, count |-> count, buffer |-> buffer,
                start |-> sector, left |-> count, i |-> 1, offset |-> 0, old |-> File]
    /\ reply' = Device!Pending
    /\ UNCHANGED medium

\* the head of the loop
NextPart ==
    /\ call.pc = "loop" /\ call.left > 0
    /\ call' = [call EXCEPT !.pc = "locate", !.i = 1, !.offset = 0]
    /\ UNCHANGED <<medium, reply>>

Return ==
    /\ call.pc = "loop" /\ call.left = 0
    /\ reply' = IF call.op = "read" THEN [ok |-> TRUE, data |-> call.buffer] ELSE Device!Wrote
    /\ call' = [pc |-> "idle"]
    /\ UNCHANGED medium

FoundAtEnd ==
    /\ call.offset <= call.start
    /\ call.offset + fraglist[call.i].count >= call.start

\* the fragment holds the sector at which the call has arrived
Found ==
    /\ call.offset <= call.start
    /\ call.offset + fraglist[call.i].count > call.start

SkipForgets ==
    /\ call.pc = "locate" /\ call.i <= fragcount
    /\ ~Found
    /\ call' = [call EXCEPT !.i = @ + 1]
    /\ UNCHANGED <<medium, reply>>

Skip ==
    /\ call.pc = "locate" /\ call.i <= fragcount
    /\ ~Found
    /\ call' = [call EXCEPT !.i = @ + 1, !.offset = @ + fraglist[call.i].count]
    /\ UNCHANGED <<medium, reply>>

NotFound ==
    /\ call.pc = "locate" /\ call.i > fragcount
    /\ reply' = Device!Failed
    /\ call' = [pc |-> "idle"]
    /\ UNCHANGED medium

\* the part of the call that the fragment holds
Clipped ==
    IF call.start + call.left > call.offset + fraglist[call.i].count
    THEN call.offset + fraglist[call.i].count - call.start
    ELSE call.left

\* the first of these sectors on the device
At == fraglist[call.i].sector + (call.start - call.offset)

\* the place of its data in the buffer
Pos == call.start - call.sector

\* the medium after n sectors of the part have been stored
Stored(n) ==
    [p \in 0 .. bdSectors - 1 |-> IF At <= p /\ p < At + n THEN call.buffer[Pos + p - At + 1] ELSE medium[p]]

\* the buffer after n sectors of the part have been read
Loaded(n) ==
    [k \in 1 .. call.count |-> IF Pos < k /\ k <= Pos + n THEN medium[At + (k - Pos) - 1] ELSE call.buffer[k]]

Transfer ==
    /\ call.pc = "locate" /\ call.i <= fragcount
    /\ Found
    /\ medium' = IF call.op = "write" THEN Stored(Clipped) ELSE medium
    /\ call' = [call EXCEPT !.pc = "loop", !.start = @ + Clipped, !.left = @ - Clipped,
                            !.buffer = IF call.op = "read" THEN Loaded(Clipped) ELSE @]
    /\ UNCHANGED reply

TransferFailsUnseen ==
    /\ call.pc = "locate" /\ call.i <= fragcount
    /\ Found
    /\ \E n \in 0 .. Clipped : medium' = IF call.op = "write" THEN Stored(n) ELSE medium
    /\ call' = [pc |-> "idle"]
    /\ reply' = IF call.op = "read" THEN [ok |-> TRUE, data |-> call.buffer] ELSE Device!Wrote

\* the device fails, after it has stored a part
TransferFails ==
    /\ call.pc = "locate" /\ call.i <= fragcount
    /\ Found
    /\ \E n \in 0 .. Clipped : medium' = IF call.op = "write" THEN Stored(n) ELSE medium
    /\ call' = [pc |-> "idle"]
    /\ reply' = Device!Failed

-----------------------------------------------------------------------------
Step == NextPart \/ Return \/ Skip \/ NotFound \/ Transfer \/ TransferFails

Next ==
    \/ \E op \in {"read", "write"}, sector \in Requested, count \in 0 .. MaxCount :
          \E buffer \in [1 .. count -> Data] : Call(op, sector, count, buffer)
    \/ Step

Spec == Init /\ [][Next]_vars
FairSpec == Spec /\ WF_vars(Step)

-----------------------------------------------------------------------------
Calls ==
    [pc : {"loop", "locate"}, op : {"read", "write"}, sector : Requested, count : Nat,
     buffer : UNION {[1 .. n -> Data] : n \in 0 .. MaxCount},
     start : Nat, left : Nat, i : Nat, offset : Nat, old : [0 .. Length - 1 -> Data]]

\* Types; in particular a call stays within its buffer.
TypeOK ==
    /\ medium \in [0 .. bdSectors - 1 -> Data]
    /\ \/ call = [pc |-> "idle"]
       \/ /\ call \in Calls
          /\ call.count \in 0 .. MaxCount /\ call.left <= call.count
          /\ call.buffer \in [1 .. call.count -> Data]
          /\ call.start = call.sector + call.count - call.left

\* Where the walk over the fragments is: no fragment that it has passed holds the sector.
Walk ==
    call.pc = "locate" =>
         /\ call.left > 0
         /\ call.i \in 1 .. fragcount + 1
         /\ call.offset = First[call.i]
         /\ call.offset <= call.start

\* What has been done of a call: the data of the sectors up to where it has arrived.
Progress ==
    call.pc # "idle" =>
         /\ call.start > call.sector => call.start <= Length
         /\ call.op = "read" =>
               /\ File = call.old
               /\ \A k \in 1 .. call.start - call.sector : call.buffer[k] = call.old[call.sector + k - 1]
         /\ call.op = "write" => File = Device!After(call.old, call.sector, call.start - call.sector, call.buffer)

\* Nothing outside the file is ever written.
OnlyTheFile ==
    [][\A p \in 0 .. bdSectors - 1 :
          (\A i \in Fragments : p \notin Extent(fraglist[i])) => medium'[p] = medium[p]]_medium

\* A file that is read and written by its fragments behaves as a block device: a call
\* that succeeds has transferred exactly the sectors it names, one that fails a part
\* of them from the first on.  The sectors around the file stay as they are.
FileIsDevice == Device!Spec /\ OnlyTheFile

\* A call returns, also one that reaches beyond the file or meets an empty fragment.
Returns == call.pc # "idle" ~> call.pc = "idle"

\* A request inside the file is not refused for want of a fragment.
FoundInside ==
    call.pc = "locate" /\ call.i > fragcount => call.sector + call.count > Length

\* A call of bd_defrag_read or bd_defrag_write stays within its buffer, looks for its
\* next sector in no fragment that comes too late, finds it if the file has it, and has
\* transferred exactly the sectors before it.
CallSound == TypeOK /\ Walk /\ Progress /\ FoundInside
=============================================================================
