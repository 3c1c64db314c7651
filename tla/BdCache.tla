------------------------------ MODULE BdCache ------------------------------
(***************************************************************************)
(* The sector cache that bdm_connect_bd puts before every physical device *)
(* (libbdm/src/bd_cache.c).  One call runs at a time: the cache has no    *)
(* lock of its own, its users are serialised by _fs_lock and bdm_thread.  *)
(* The device below it may fail any call after a part of the transfer.    *)
(***************************************************************************)
EXTENDS Integers

CONSTANTS
    SECTORS_PER_BLOCK,
    BLOCK_COUNT,
    BLOCK_WEIGHT_FACTOR,
    sectorSize,    \* of the device; only 512 byte sectors are cached
    sectorCount,
    Data,          \* contents of one sector
    U64,           \* number of values of a u64, 2^64 in the code
    INT_MAX,       \* largest int, 2^31 - 1 in the code
    MaxCount       \* bound: sectors per request

ASSUME BdCacheAssumption ==
    /\ SECTORS_PER_BLOCK \in Nat \ {0}
    /\ BLOCK_COUNT \in Nat \ {0}
    /\ BLOCK_WEIGHT_FACTOR \in Nat \ {0}
    /\ sectorCount \in Nat \ {0}
    /\ INT_MAX \in Nat
    /\ SECTORS_PER_BLOCK * BLOCK_WEIGHT_FACTOR <= INT_MAX + 1
    /\ MaxCount \in Nat
    /\ U64 \in Nat
    /\ sectorCount + SECTORS_PER_BLOCK + MaxCount < U64
    /\ Data # {}

VARIABLES
    disk,     \* the medium behind bd
    sector,   \* first sector held by each block
    weight,   \* of each block
    cache,    \* sector contents held by each block
    request,  \* the call under way
    reply     \* what the last call returned

vars == <<disk, sector, weight, cache, request, reply>>

\* a request names any u64, also one outside the device
Requested == 0 .. U64 - 1

Device == INSTANCE BlockDevice

Blocks == 0 .. BLOCK_COUNT - 1
Offsets == 0 .. SECTORS_PER_BLOCK - 1

\* (u64)-1, the sector of a block that holds nothing
Invalid == U64 - 1

\* u64 addition
Add64(a, b) == IF a + b < U64 THEN a + b ELSE a + b - U64

\* int arithmetic as the compiler's addu/subu leave it in the register
Int32(w) ==
    IF w > INT_MAX THEN w - 2 * (INT_MAX + 1)
    ELSE IF w < -INT_MAX - 1 THEN w + 2 * (INT_MAX + 1)
    ELSE w

\* C division truncates toward zero
CDiv(a, b) == IF a >= 0 THEN a \div b ELSE -((-a) \div b)

-----------------------------------------------------------------------------
\* mutant: a request that begins inside the block is not seen to touch it
OverlapsStartOnly(csector, s, n) == s <= csector /\ Add64(s, n) > csector

\* _overlaps: the request touches the block that starts at csector
Overlaps(csector, s, n) ==
    s < Add64(csector, SECTORS_PER_BLOCK) /\ Add64(s, n) > csector

\* _contains: the block holds the whole request
Contains(csector, s, n) ==
    s >= csector /\ Add64(s, n) <= Add64(csector, SECTORS_PER_BLOCK)

\* _invalidate
Invalidate(s, n) ==
    [b \in Blocks |-> IF Overlaps(sector[b], s, n) THEN Invalid ELSE sector[b]]

\* the weights after a miss has aged every block
Aged ==
    [b \in Blocks |->
        Int32(weight[b] - ((SECTORS_PER_BLOCK * BLOCK_WEIGHT_FACTOR) \div BLOCK_COUNT
                           + CDiv(weight[b], 32)))]

\* the loop takes the first block of the lowest weight, block 0 if none is
\* below INT_MAX
IsVictim(b) ==
    \/ /\ Aged[b] < INT_MAX
       /\ \A c \in Blocks : Aged[b] < Aged[c] \/ (Aged[b] = Aged[c] /\ b <= c)
    \/ b = 0 /\ \A c \in Blocks : Aged[c] >= INT_MAX

\* the weight of a block that has just served n sectors
Credit(w, n) == Int32((IF w < 0 THEN 0 ELSE w) + n * BLOCK_WEIGHT_FACTOR)

\* the guard of _read: the request leaves the device
OutOfRange(s, n) == s >= sectorCount \/ n > sectorCount - s

\* large requests, and devices of another sector size, bypass the cache
Bypass(n) == sectorSize # 512 \/ n >= SECTORS_PER_BLOCK

\* sectors a miss on s reads: up to a block, clipped to the device
ToCache(s) ==
    IF sectorCount - s < SECTORS_PER_BLOCK THEN sectorCount - s ELSE SECTORS_PER_BLOCK

\* the contents of a block once the device has delivered k sectors from s
Filled(b, s, k) ==
    [o \in Offsets |-> IF o < k THEN disk[s + o] ELSE cache[b][o]]

\* mutant: copies from the start of the block
FromBlockStart(b, s, n) == [ok |-> TRUE, data |-> [k \in 1 .. n |-> cache[b][k - 1]]]

\* the copy from the block that holds the request
FromBlock(b, s, n) ==
    [ok |-> TRUE, data |-> [k \in 1 .. n |-> cache[b][s - sector[b] + k - 1]]]

-----------------------------------------------------------------------------
\* bd_cache_create: nothing cached yet
Init ==
    /\ disk \in [Device!Sectors -> Data]
    /\ sector = [b \in Blocks |-> Invalid]
    /\ weight = [b \in Blocks |-> 0]
    /\ cache \in [Blocks -> [Offsets -> Data]]
    /\ request = Device!NoRequest
    /\ reply = Device!Wrote

\* a user calls read or write of the cached device
Call ==
    /\ Device!Ask
    /\ UNCHANGED <<sector, weight, cache>>

\* _read, the early returns: an empty request and one outside the device
ReadNothing(s, n) ==
    /\ \/ n = 0 /\ reply' = Device!Stored(disk, s, 0)
       \/ n # 0 /\ OutOfRange(s, n) /\ reply' = Device!Failed
    /\ UNCHANGED <<disk, sector, weight, cache>>

\* _read of a request that goes straight to the device
ReadBypass(s, n) ==
    /\ n # 0 /\ ~OutOfRange(s, n) /\ Bypass(n)
    /\ reply' \in {Device!Stored(disk, s, n), Device!Failed}
    /\ UNCHANGED <<disk, sector, weight, cache>>

\* _read served by the first block that holds the request
ReadHit(s, n) ==
    /\ n # 0 /\ ~OutOfRange(s, n) /\ ~Bypass(n)
    /\ \E b \in Blocks :
          /\ Contains(sector[b], s, n)
          /\ \A c \in Blocks : c < b => ~Contains(sector[c], s, n)
          /\ weight' = [weight EXCEPT ![b] = Credit(weight[b], n)]
          /\ reply' = FromBlock(b, s, n)
    /\ UNCHANGED <<disk, sector, cache>>

\* _read that evicts a block.  The block is invalid while the device reads
\* into it; it becomes valid only when every sector has arrived.
ReadMiss(s, n) ==
    /\ n # 0 /\ ~OutOfRange(s, n) /\ ~Bypass(n)
    /\ \A b \in Blocks : ~Contains(sector[b], s, n)
    /\ \E b \in Blocks :
          /\ IsVictim(b)
          /\ \/ /\ sector' = [sector EXCEPT ![b] = s]
                /\ weight' = [Aged EXCEPT ![b] = n * BLOCK_WEIGHT_FACTOR]
                /\ cache' = [cache EXCEPT ![b] = Filled(b, s, ToCache(s))]
                /\ reply' = [ok |-> TRUE, data |-> [k \in 1 .. n |-> cache'[b][k - 1]]]
             \/ \E k \in 0 .. ToCache(s) - 1 :   \* an error or a short read
                /\ sector' = [sector EXCEPT ![b] = Invalid]
                /\ weight' = Aged
                /\ cache' = [cache EXCEPT ![b] = Filled(b, s, k)]
                /\ reply' = Device!Failed
    /\ UNCHANGED disk

\* _write: drop every block the request touches, then write the device
Write(s, n, buf) ==
    /\ sector' = Invalidate(s, n)
    /\ Device!Write(s, n, buf)
    /\ UNCHANGED <<weight, cache>>

\* the call that is under way, to its return
Serve ==
    LET s == request.sector
        n == request.count
    IN
    /\ request # Device!NoRequest /\ request' = Device!NoRequest
    /\ \/ /\ request.op = "read"
          /\ ReadNothing(s, n) \/ ReadBypass(s, n) \/ ReadHit(s, n) \/ ReadMiss(s, n)
       \/ request.op = "write" /\ Write(s, n, request.buffer)

Next == Call \/ Serve

Spec == Init /\ [][Next]_vars

-----------------------------------------------------------------------------
(* Properties *)

TypeOK ==
    /\ disk \in [Device!Sectors -> Data]
    /\ sector \in [Blocks -> Device!Sectors \cup {Invalid}]
    /\ weight \in [Blocks -> -INT_MAX - 1 .. INT_MAX]
    /\ cache \in [Blocks -> [Offsets -> Data]]

\* Every sector of the device that a valid block claims to hold is the one on
\* the medium: whatever was evicted, written in between or cut short by a
\* failing device (the invalidation before the read at bd_cache.c:131-133 and
\* the one in _write), and also for a block clipped at the end of the device.
Coherent ==
    \A b \in Blocks : sector[b] # Invalid =>
       \A o \in Offsets :
          sector[b] + o < sectorCount => cache[b][o] = disk[sector[b] + o]

\* The cache cannot be told from the device behind it: every call of the
\* cached device is one that the device alone could have answered.
CacheRefinesDevice == Device!Spec
=============================================================================
