--------------------------- MODULE BdCacheProofs ---------------------------
(***************************************************************************)
(* For every size of the device, of the blocks and of the machine words:  *)
(* the cache is coherent with the medium, and the cached device is a      *)
(* block device (BlockDevice).                                            *)
(***************************************************************************)
EXTENDS BdCache, TLAPS

\* the calls that a user may have under way
RequestType ==
    \/ request = Device!NoRequest
    \/ \E s \in Requested, n \in Device!Counts :
          \/ request = Device!ReadOf(s, n)
          \/ \E buf \in Device!Buffer(n) : request = Device!WriteOf(s, n, buf)

\* What the proofs need to know of the state: its types, without the width
\* of the weights (which only choose the block to evict).
CacheType ==
    /\ disk \in [Device!Sectors -> Data]
    /\ sector \in [Blocks -> Device!Sectors \cup {Invalid}]
    /\ cache \in [Blocks -> [Offsets -> Data]]

\* The inductive invariant.
CacheInv == CacheType /\ RequestType /\ Coherent

USE BdCacheAssumption

\* u64 addition to a sector of the device does not wrap (_overlaps, _contains).
LEMMA NoWrap ==
    ASSUME NEW s \in Device!Sectors, NEW n \in Device!Counts
    PROVE  /\ Add64(s, n) = s + n
           /\ Add64(s, SECTORS_PER_BLOCK) = s + SECTORS_PER_BLOCK
BY DEF Device!Sectors, Device!Counts, Add64

\* A block that holds nothing contains no request (_contains on (u64)-1).
LEMMA InvalidContainsNothing ==
    ASSUME NEW s \in Device!Sectors, NEW n \in Device!Counts
    PROVE  ~Contains(Invalid, s, n)
BY DEF Contains, Device!Sectors, Invalid

\* A valid block that _invalidate leaves alone shares no sector with the
\* request.
LEMMA KeptIsDisjoint ==
    ASSUME NEW c \in Device!Sectors, NEW s \in Requested,
           NEW n \in Device!Counts, ~Overlaps(c, s, n), NEW o \in Offsets
    PROVE  ~(s <= c + o /\ c + o < s + n)
<1>1. Add64(c, SECTORS_PER_BLOCK) = c + SECTORS_PER_BLOCK
  BY NoWrap DEF Device!Counts
<1>2. CASE s + n < U64
  <2>1. ~(s < c + SECTORS_PER_BLOCK /\ s + n > c)
    BY <1>1, <1>2 DEF Overlaps, Add64
  <2> QED
    BY <2>1 DEF Offsets, Device!Sectors, Requested, Device!Counts
<1>3. CASE ~(s + n < U64)   \* s lies far behind the last block
  BY <1>3 DEF Offsets, Device!Sectors, Requested, Device!Counts
<1> QED
  BY <1>2, <1>3

\* The initial states satisfy the invariant (bd_cache_create).
LEMMA InitInv == Init => CacheInv
BY DEF Init, CacheInv, CacheType, RequestType, Coherent

\* What a call does is what its request says.
LEMMA ServeCases ==
    ASSUME RequestType, Serve
    PROVE  \E s \in Requested, n \in Device!Counts :
             \/ /\ request = Device!ReadOf(s, n)
                /\ ReadNothing(s, n) \/ ReadBypass(s, n) \/ ReadHit(s, n) \/ ReadMiss(s, n)
             \/ \E buf \in Device!Buffer(n) : request = Device!WriteOf(s, n, buf) /\ Write(s, n, buf)
<1>1. PICK s \in Requested, n \in Device!Counts :
        \/ request = Device!ReadOf(s, n)
        \/ \E buf \in Device!Buffer(n) : request = Device!WriteOf(s, n, buf)
  BY DEF RequestType, Serve
<1>2. CASE request = Device!ReadOf(s, n)
  <2>1. request.op = "read" /\ request.op # "write" /\ request.sector = s /\ request.count = n
    BY <1>2 DEF Device!ReadOf
  <2> QED
    BY <1>2, <2>1 DEF Serve
<1>3. ASSUME NEW buf \in Device!Buffer(n), request = Device!WriteOf(s, n, buf)
      PROVE  Write(s, n, buf)
  <2>1. /\ request.op = "write" /\ request.op # "read"
        /\ request.sector = s /\ request.count = n /\ request.buffer = buf
    BY <1>3 DEF Device!WriteOf
  <2> QED
    BY <2>1 DEF Serve
<1> QED
  BY <1>1, <1>2, <1>3

\* A miss, successful or not, keeps the invariant: the evicted block is
\* either refilled completely or invalid.
LEMMA MissInv ==
    ASSUME CacheInv, NEW s \in Requested, NEW n \in Device!Counts,
           ReadMiss(s, n)
    PROVE  (CacheType /\ Coherent)'
<1>1. s \in Device!Sectors
  BY DEF ReadMiss, OutOfRange, Requested, Device!Sectors
<1>2. ToCache(s) \in 1 .. SECTORS_PER_BLOCK /\ s + ToCache(s) <= sectorCount
  BY <1>1 DEF ToCache, Device!Sectors
<1>3. PICK b \in Blocks, k \in 0 .. ToCache(s) :
        /\ cache' = [cache EXCEPT ![b] = Filled(b, s, k)]
        /\ \/ sector' = [sector EXCEPT ![b] = s] /\ k = ToCache(s)
           \/ sector' = [sector EXCEPT ![b] = Invalid]
        /\ disk' = disk
  <2>1. PICK b \in Blocks :
          \/ /\ sector' = [sector EXCEPT ![b] = s]
             /\ cache' = [cache EXCEPT ![b] = Filled(b, s, ToCache(s))]
          \/ \E k \in 0 .. ToCache(s) - 1 :
             /\ sector' = [sector EXCEPT ![b] = Invalid]
             /\ cache' = [cache EXCEPT ![b] = Filled(b, s, k)]
    BY DEF ReadMiss
  <2>2. disk' = disk
    BY DEF ReadMiss
  <2>3. ToCache(s) \in 0 .. ToCache(s) /\ 0 .. ToCache(s) - 1 \subseteq 0 .. ToCache(s)
    BY <1>2
  <2> QED
    BY <2>1, <2>2, <2>3
<1>4. Filled(b, s, k) \in [Offsets -> Data]
  BY <1>1, <1>2 DEF Filled, CacheInv, CacheType, Device!Sectors, Offsets
<1>5. CacheType'
  BY <1>1, <1>3, <1>4 DEF CacheInv, CacheType
<1>6. Coherent'
  <2> SUFFICES ASSUME NEW c \in Blocks, sector'[c] # Invalid,
                      NEW o \in Offsets, sector'[c] + o < sectorCount
               PROVE  cache'[c][o] = disk'[sector'[c] + o]
    BY <1>3 DEF Coherent, Invalid, Blocks, Offsets
  <2>1. CASE c # b
    BY <1>3, <2>1 DEF CacheInv, CacheType, Coherent
  <2>2. CASE c = b
    <3>1. sector'[b] = s /\ k = ToCache(s)
      BY <1>3, <2>2 DEF CacheInv, CacheType
    <3>2. cache'[b] = Filled(b, s, ToCache(s))
      BY <1>3, <3>1 DEF CacheInv, CacheType
    <3>3. o < ToCache(s)
      BY <1>1, <2>2, <3>1 DEF ToCache, Offsets, Device!Sectors
    <3> QED
      BY <1>3, <2>2, <3>1, <3>2, <3>3 DEF Filled
  <2> QED
    BY <2>1, <2>2
<1> QED
  BY <1>5, <1>6

\* A write keeps the invariant, also when only a prefix reached the medium:
\* the blocks that stay valid share no sector with the request.
LEMMA WriteInv ==
    ASSUME CacheInv, NEW s \in Requested, NEW n \in Device!Counts,
           NEW buf \in Device!Buffer(n), Write(s, n, buf)
    PROVE  (CacheType /\ Coherent)'
<1>1. PICK k \in 0 .. n : disk' = Device!After(disk, s, k, buf)
  BY DEF Write, Device!Write, Device!Counts
<1>2. Device!After(disk, s, k, buf) \in [Device!Sectors -> Data]
  BY DEF Device!After, Device!Buffer, Device!Sectors, Requested,
         Device!Counts, CacheInv, CacheType
<1>3. sector' = Invalidate(s, n) /\ cache' = cache
  BY DEF Write
<1>4. CacheType'
  BY <1>1, <1>2, <1>3 DEF CacheInv, CacheType, Invalidate
<1>5. Coherent'
  <2> SUFFICES ASSUME NEW b \in Blocks, sector'[b] # Invalid,
                      NEW o \in Offsets, sector'[b] + o < sectorCount
               PROVE  cache'[b][o] = disk'[sector'[b] + o]
    BY <1>3 DEF Coherent
  <2>1. sector'[b] = sector[b] /\ ~Overlaps(sector[b], s, n)
    BY <1>3 DEF Invalidate
  <2>2. sector[b] \in Device!Sectors
    BY <2>1 DEF CacheInv, CacheType
  <2>3. ~(s <= sector[b] + o /\ sector[b] + o < s + n)
    BY <2>1, <2>2, KeptIsDisjoint
  <2>4. sector[b] + o \in Device!Sectors
    BY <2>1, <2>2 DEF Device!Sectors, Offsets
  <2>5. disk'[sector[b] + o] = disk[sector[b] + o]
    BY <1>1, <2>3, <2>4 DEF Device!After, Device!Sectors, Requested, Device!Counts
  <2> QED
    BY <1>3, <2>1, <2>5 DEF CacheInv, Coherent
<1> QED
  BY <1>4, <1>5

\* The reads that leave the blocks alone keep the invariant.
LEMMA QuietInv ==
    ASSUME CacheInv, UNCHANGED <<disk, sector, cache>>
    PROVE  (CacheType /\ Coherent)'
BY DEF CacheInv, CacheType, Coherent

\* Every call keeps the invariant.
LEMMA NextInv == CacheInv /\ [Next]_vars => CacheInv'
<1> SUFFICES ASSUME CacheInv, [Next]_vars PROVE CacheInv'
  OBVIOUS
<1>1. CASE UNCHANGED vars
  BY <1>1, QuietInv DEF vars, CacheInv, RequestType
<1>2. CASE Call
  <2>1. RequestType'
    BY <1>2 DEF Call, Device!Ask, RequestType
  <2> QED
    BY <1>2, <2>1, QuietInv DEF Call, Device!Ask, CacheInv
<1>3. CASE Serve
  <2>1. PICK s \in Requested, n \in Device!Counts :
          \/ ReadNothing(s, n)
          \/ ReadBypass(s, n)
          \/ ReadHit(s, n)
          \/ ReadMiss(s, n)
          \/ \E buf \in Device!Buffer(n) : Write(s, n, buf)
    BY <1>3, ServeCases DEF CacheInv
  <2>2. ASSUME ReadNothing(s, n) \/ ReadBypass(s, n) \/ ReadHit(s, n)
        PROVE  (CacheType /\ Coherent)'
    BY <2>2, QuietInv DEF ReadNothing, ReadBypass, ReadHit
  <2>3. ASSUME ReadMiss(s, n)
        PROVE  (CacheType /\ Coherent)'
    BY <2>3, MissInv
  <2>4. ASSUME \E buf \in Device!Buffer(n) : Write(s, n, buf)
        PROVE  (CacheType /\ Coherent)'
    BY <2>4, WriteInv
  <2>5. RequestType'
    BY <1>3 DEF Serve, RequestType
  <2> QED
    BY <2>1, <2>2, <2>3, <2>4, <2>5 DEF CacheInv
<1> QED
  BY <1>1, <1>2, <1>3 DEF Next

\* The cache is always coherent with the medium, for all sizes.
THEOREM CacheCoherent == Spec => []Coherent
<1>1. Spec => []CacheInv
  BY InitInv, NextInv, PTL DEF Spec
<1>2. CacheInv => Coherent
  BY DEF CacheInv
<1> QED
  BY <1>1, <1>2, PTL

-----------------------------------------------------------------------------
\* One wrap brings a sum of an int and a value up to INT_MAX + 1 back into
\* the range of an int.
Ints == -INT_MAX - 1 .. INT_MAX

\* Int32 brings a sum that overflowed once back into the range of an int.
LEMMA WrapInRange ==
    ASSUME NEW w \in Int, -3 * (INT_MAX + 1) <= w, w <= 2 * INT_MAX + 1
    PROVE  Int32(w) \in Ints
BY DEF Int32, Ints

\* Dividing by a positive number does not lead away from zero.
LEMMA DivShrinks ==
    ASSUME NEW a \in Nat, NEW b \in Nat \ {0}
    PROVE  a \div b \in 0 .. a
<1>1. a \div b \in Nat
  BY SMT
<1>2. a = b * (a \div b) + (a % b) /\ a % b >= 0
  BY SMT
<1>3. b * (a \div b) >= a \div b
  BY <1>1, SMT
<1> QED
  BY <1>1, <1>2, <1>3

\* Nor does the truncating division of C.
LEMMA CDivShrinks ==
    ASSUME NEW a \in Int, NEW b \in Nat \ {0}
    PROVE  /\ a >= 0 => CDiv(a, b) \in 0 .. a
           /\ a < 0 => CDiv(a, b) \in a .. 0
<1>1. CASE a >= 0
  BY <1>1, DivShrinks DEF CDiv
<1>2. CASE a < 0
  <2>1. (-a) \div b \in 0 .. -a
    BY <1>2, DivShrinks
  <2> QED
    BY <1>2, <2>1 DEF CDiv
<1> QED
  BY <1>1, <1>2

\* What a request adds to a weight fits an int.
LEMMA CreditFits ==
    ASSUME NEW n \in Device!Counts, n < SECTORS_PER_BLOCK
    PROVE  n * BLOCK_WEIGHT_FACTOR \in 0 .. INT_MAX
<1>1. n * BLOCK_WEIGHT_FACTOR \in Nat
  BY DEF Device!Counts
<1>2. n * BLOCK_WEIGHT_FACTOR + BLOCK_WEIGHT_FACTOR
        <= SECTORS_PER_BLOCK * BLOCK_WEIGHT_FACTOR
  BY DEF Device!Counts
<1> QED
  BY <1>1, <1>2

\* Ageing keeps a weight an int.
LEMMA AgedInRange ==
    ASSUME weight \in [Blocks -> Ints]
    PROVE  Aged \in [Blocks -> Ints]
<1> DEFINE toll == (SECTORS_PER_BLOCK * BLOCK_WEIGHT_FACTOR) \div BLOCK_COUNT
<1>1. toll \in 0 .. INT_MAX + 1
  <2>1. SECTORS_PER_BLOCK * BLOCK_WEIGHT_FACTOR \in 0 .. INT_MAX + 1
    OBVIOUS
  <2> HIDE DEF toll
  <2>2. toll \in 0 .. SECTORS_PER_BLOCK * BLOCK_WEIGHT_FACTOR
    BY <2>1, DivShrinks DEF toll
  <2> QED
    BY <2>1, <2>2
<1> HIDE DEF toll
<1>2. ASSUME NEW b \in Blocks
      PROVE  Int32(weight[b] - (toll + CDiv(weight[b], 32))) \in Ints
  <2>1. weight[b] \in Int /\ -INT_MAX - 1 <= weight[b] /\ weight[b] <= INT_MAX
    BY DEF Ints
  <2>2. /\ weight[b] >= 0 => CDiv(weight[b], 32) \in 0 .. weight[b]
        /\ weight[b] < 0 => CDiv(weight[b], 32) \in weight[b] .. 0
    BY <2>1, CDivShrinks
  <2> DEFINE v == weight[b] - (toll + CDiv(weight[b], 32))
  <2>3. v \in Int /\ -3 * (INT_MAX + 1) <= v /\ v <= 2 * INT_MAX + 1
    BY <1>1, <2>1, <2>2
  <2> QED
    BY <2>3, WrapInRange
<1> QED
  BY <1>2 DEF Aged, toll

\* Every step keeps the weights ints.
LEMMA WeightStep ==
    ASSUME weight \in [Blocks -> Ints], RequestType, [Next]_vars
    PROVE  weight' \in [Blocks -> Ints]
<1>1. CASE UNCHANGED weight
  BY <1>1
<1>2. ASSUME NEW s \in Requested, NEW n \in Device!Counts, ReadHit(s, n)
      PROVE  weight' \in [Blocks -> Ints]
  <2>1. PICK b \in Blocks : weight' = [weight EXCEPT ![b] = Credit(weight[b], n)]
    BY <1>2 DEF ReadHit
  <2>2. n * BLOCK_WEIGHT_FACTOR \in 0 .. INT_MAX
    BY <1>2, CreditFits DEF ReadHit, Bypass, Device!Counts
  <2> DEFINE v == (IF weight[b] < 0 THEN 0 ELSE weight[b]) + n * BLOCK_WEIGHT_FACTOR
  <2>3. v \in Int /\ -3 * (INT_MAX + 1) <= v /\ v <= 2 * INT_MAX + 1
    BY <2>2 DEF Ints
  <2>4. Credit(weight[b], n) \in Ints
    BY <2>3, WrapInRange DEF Credit
  <2> QED
    BY <2>1, <2>4
<1>3. ASSUME NEW s \in Requested, NEW n \in Device!Counts, ReadMiss(s, n)
      PROVE  weight' \in [Blocks -> Ints]
  <2>1. n * BLOCK_WEIGHT_FACTOR \in Ints
    <3>1. n < SECTORS_PER_BLOCK
      BY <1>3 DEF ReadMiss, Bypass, Device!Counts
    <3>2. n * BLOCK_WEIGHT_FACTOR \in 0 .. INT_MAX
      BY <3>1, CreditFits
    <3> QED
      BY <3>2 DEF Ints
  <2>2. Aged \in [Blocks -> Ints]
    BY AgedInRange
  <2>3. \E b \in Blocks : \/ weight' = [Aged EXCEPT ![b] = n * BLOCK_WEIGHT_FACTOR]
                          \/ weight' = Aged
    BY <1>3 DEF ReadMiss
  <2> QED
    BY <2>1, <2>2, <2>3
<1>4. CASE Serve
  BY <1>1, <1>2, <1>3, <1>4, ServeCases DEF ReadNothing, ReadBypass, Write
<1> QED
  BY <1>1, <1>4 DEF Next, vars, Call

\* The state keeps its types; in particular no weight leaves the range of an
\* int although the hits on a block are not bounded.
THEOREM CacheTyped == Spec => []TypeOK
<1> DEFINE WInv == weight \in [Blocks -> Ints]
<1>1. Init => WInv
  BY DEF Init, Ints
<1>2. WInv /\ CacheInv /\ [Next]_vars => WInv'
  BY WeightStep DEF CacheInv
<1>3. Spec => []CacheInv
  BY InitInv, NextInv, PTL DEF Spec
<1>4. CacheInv /\ WInv => TypeOK
  BY DEF CacheInv, CacheType, TypeOK, Ints
<1> HIDE DEF WInv
<1> QED
  BY <1>1, <1>2, <1>3, <1>4, PTL DEF Spec

-----------------------------------------------------------------------------
\* What a block returns to a hit is what the device stores.
LEMMA HitIsStored ==
    ASSUME CacheInv, NEW s \in Requested, NEW n \in Device!Counts,
           ~OutOfRange(s, n), NEW b \in Blocks, Contains(sector[b], s, n)
    PROVE  FromBlock(b, s, n) = Device!Stored(disk, s, n)
<1>0. s \in Device!Sectors
  BY DEF OutOfRange, Requested, Device!Sectors
<1>1. sector[b] \in Device!Sectors
  BY <1>0, InvalidContainsNothing DEF CacheInv, CacheType
<1>2. s >= sector[b] /\ s + n <= sector[b] + SECTORS_PER_BLOCK
  BY <1>0, <1>1, NoWrap DEF Contains
<1>3. s + n <= sectorCount
  BY DEF OutOfRange, Requested, Device!Counts
<1>4. ASSUME NEW k \in 1 .. n
      PROVE  cache[b][s - sector[b] + k - 1] = disk[s + k - 1]
  <2>1. s - sector[b] + k - 1 \in Offsets
    BY <1>1, <1>2 DEF Offsets, Device!Sectors, Requested, Device!Counts
  <2>2. sector[b] + (s - sector[b] + k - 1) = s + k - 1 /\ s + k - 1 < sectorCount
    BY <1>1, <1>3 DEF Device!Sectors, Requested, Device!Counts
  <2>3. sector[b] # Invalid
    BY <1>1 DEF Device!Sectors, Invalid
  <2> QED
    BY <2>1, <2>2, <2>3 DEF CacheInv, Coherent
<1> QED
  BY <1>4 DEF FromBlock, Device!Stored

\* What a completed miss returns is what the device stores.
LEMMA MissIsStored ==
    ASSUME CacheInv, NEW s \in Requested, NEW n \in Device!Counts,
           n # 0, ~OutOfRange(s, n), ~Bypass(n), NEW b \in Blocks,
           cache' = [cache EXCEPT ![b] = Filled(b, s, ToCache(s))]
    PROVE  [ok |-> TRUE, data |-> [k \in 1 .. n |-> cache'[b][k - 1]]]
              = Device!Stored(disk, s, n)
<1>1. n < SECTORS_PER_BLOCK /\ s + n <= sectorCount
  BY DEF Bypass, OutOfRange, Requested, Device!Counts
<1>2. n <= ToCache(s)
  BY <1>1 DEF ToCache, Requested, Device!Counts
<1>3. cache'[b] = Filled(b, s, ToCache(s))
  BY DEF CacheInv, CacheType
<1>4. ASSUME NEW k \in 1 .. n
      PROVE  cache'[b][k - 1] = disk[s + k - 1]
  <2>1. k - 1 \in Offsets /\ k - 1 < ToCache(s)
    BY <1>1, <1>2 DEF Offsets, ToCache, Requested, Device!Counts
  <2>2. s + (k - 1) = s + k - 1
    BY DEF Requested, Device!Counts
  <2> QED
    BY <1>3, <2>1, <2>2 DEF Filled
<1> QED
  BY <1>4 DEF Device!Stored

\* Every step of the cached device is a step of a plain device.
LEMMA StepRefines ==
    ASSUME CacheInv, [Next]_vars
    PROVE  [Device!Next]_(Device!vars)
<1>1. CASE UNCHANGED vars
  BY <1>1 DEF vars, Device!vars
<1>2. CASE Call
  BY <1>2 DEF Call, Device!Next
<1>3. CASE Serve
  <2>0. request # Device!NoRequest /\ request' = Device!NoRequest
    BY <1>3 DEF Serve
  <2>1. PICK s \in Requested, n \in Device!Counts :
             \/ /\ request = Device!ReadOf(s, n)
                /\ ReadNothing(s, n) \/ ReadBypass(s, n) \/ ReadHit(s, n) \/ ReadMiss(s, n)
             \/ \E buf \in Device!Buffer(n) : request = Device!WriteOf(s, n, buf) /\ Write(s, n, buf)
    BY <1>3, ServeCases DEF CacheInv
  <2>2. ~OutOfRange(s, n) => Device!Has(s, n)
    BY DEF OutOfRange, Requested, Device!Counts, Device!Has
  <2>3. ASSUME ReadNothing(s, n) PROVE Device!Read(s, n)
    BY <2>3 DEF ReadNothing, Device!Read, Device!Has
  <2>4. ASSUME ReadBypass(s, n) PROVE Device!Read(s, n)
    BY <2>2, <2>4 DEF ReadBypass, Device!Read
  <2>5. ASSUME ReadHit(s, n) PROVE Device!Read(s, n)
    BY <2>2, <2>5, HitIsStored DEF ReadHit, Device!Read
  <2>6. ASSUME ReadMiss(s, n) PROVE Device!Read(s, n)
    <3>1. PICK b \in Blocks :
            \/ /\ cache' = [cache EXCEPT ![b] = Filled(b, s, ToCache(s))]
               /\ reply' = [ok |-> TRUE, data |-> [k \in 1 .. n |-> cache'[b][k - 1]]]
            \/ reply' = Device!Failed
      BY <2>6 DEF ReadMiss
    <3>2. n # 0 /\ ~OutOfRange(s, n) /\ ~Bypass(n) /\ disk' = disk
      BY <2>6 DEF ReadMiss
    <3>3. reply' \in {Device!Stored(disk, s, n), Device!Failed}
      BY <3>1, <3>2, MissIsStored
    <3> QED
      BY <2>2, <3>2, <3>3 DEF Device!Read
  <2>7. CASE request = Device!ReadOf(s, n) /\ Device!Read(s, n)
    <3>1. request.op = "read" /\ request.sector = s /\ request.count = n
      BY <2>7 DEF Device!ReadOf
    <3> QED
      BY <2>0, <2>7, <3>1 DEF Device!Answer, Device!Next
  <2>8. ASSUME NEW buf \in Device!Buffer(n), request = Device!WriteOf(s, n, buf), Write(s, n, buf)
        PROVE  Device!Next
    <3>1. request.op = "write" /\ request.sector = s /\ request.count = n /\ request.buffer = buf
      BY <2>8 DEF Device!WriteOf
    <3> QED
      BY <2>0, <2>8, <3>1 DEF Write, Device!Answer, Device!Next
  <2> QED
    BY <2>1, <2>3, <2>4, <2>5, <2>6, <2>7, <2>8
<1> QED
  BY <1>1, <1>2, <1>3 DEF Next

\* The cached device implements the block device it stands before.
THEOREM CacheImplementsDevice == Spec => CacheRefinesDevice
<1>1. Init => Device!Init
  BY DEF Init, Device!Init
<1>2. Spec => []CacheInv
  BY InitInv, NextInv, PTL DEF Spec
<1> QED
  BY <1>1, <1>2, StepRefines, PTL DEF Spec, CacheRefinesDevice, Device!Spec
=============================================================================
