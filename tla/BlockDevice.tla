---------------------------- MODULE BlockDevice ----------------------------
(***************************************************************************)
(* What every block device of the Block Device Manager promises its users *)
(* (struct block_device, libbdm): a read that reports success returned    *)
(* what is stored at that moment, a write that reports success stored the *)
(* whole buffer, a write that reports an error stored a prefix of it.     *)
(***************************************************************************)
EXTENDS Naturals

CONSTANTS
    sectorCount,  \* sectors of the device
    Requested,    \* sector numbers that a request may name
    Data,         \* contents of one sector
    MaxCount      \* bound: sectors per request

VARIABLES
    disk,     \* what the medium holds
    request,  \* the call under way
    reply     \* what the last call returned, until the next begins

vars == <<disk, request, reply>>

Sectors == 0 .. sectorCount - 1
Counts == 0 .. MaxCount
Buffer(n) == [1 .. n -> Data]

NoRequest == [op |-> "none"]
ReadOf(s, n) == [op |-> "read", sector |-> s, count |-> n]
WriteOf(s, n, buf) == [op |-> "write", sector |-> s, count |-> n, buffer |-> buf]

Pending == [pending |-> TRUE]
Failed == [ok |-> FALSE]
Wrote  == [ok |-> TRUE]
Stored(d, s, n) == [ok |-> TRUE, data |-> [k \in 1 .. n |-> d[s + k - 1]]]

\* the medium after the first k sectors of buf have been stored from s on
After(d, s, k, buf) ==
    [t \in Sectors |-> IF s <= t /\ t < s + k THEN buf[t - s + 1] ELSE d[t]]

\* the device has all sectors of the request
Has(s, n) == s + n <= sectorCount \/ n = 0

Init ==
    /\ disk \in [Sectors -> Data]
    /\ request = NoRequest
    /\ reply = Wrote

Ask ==
    /\ request = NoRequest /\ reply' = Pending /\ UNCHANGED disk
    /\ \E s \in Requested, n \in Counts :
          \/ request' = ReadOf(s, n)
          \/ \E buf \in Buffer(n) : request' = WriteOf(s, n, buf)

Read(s, n) ==
    /\ UNCHANGED disk
    /\ \/ Has(s, n) /\ reply' = Stored(disk, s, n)
       \/ reply' = Failed

Write(s, n, buf) ==
    \/ /\ Has(s, n)
       /\ reply' = Wrote
       /\ disk' = After(disk, s, n, buf)
    \/ /\ reply' = Failed
       /\ \E k \in 0 .. n : disk' = After(disk, s, k, buf)

Answer ==
    /\ request # NoRequest /\ request' = NoRequest
    /\ \/ request.op = "read" /\ Read(request.sector, request.count)
       \/ request.op = "write" /\ Write(request.sector, request.count, request.buffer)

Next == Ask \/ Answer

Spec == Init /\ [][Next]_vars
=============================================================================
