--------------------------- MODULE BdDefragProofs ---------------------------
(***************************************************************************)
(* A file that is read and written by its fragments is a block device, for *)
(* every list of fragments that do not overlap.                            *)
(***************************************************************************)
EXTENDS BdDefrag, WellFoundedInduction, TLAPS

\* Most leaves are first-order. Those with arithmetic or records name Z3 and SMT,
\* two encodings, of which the second is tried where the first fails.
USE ZenonT(60)

\* A set of natural numbers that is not empty has a least element.
LEMMA LeastNat ==
    ASSUME NEW T \in SUBSET Nat, T # {}
    PROVE  \E n \in T : \A k \in T : n <= k
<1>1. PICK n \in T : \A k \in T : ~ (<<k, n>> \in OpToRel(<, Nat))
  BY NatLessThanWellFounded, WFMin
<1>2. \A k \in T : ~ (k < n)
  BY <1>1 DEF OpToRel
<1> QED
  BY Z3T(20), SMTT(20), <1>2

\* Types of the constants.
LEMMA Lists ==
    /\ fragcount \in Nat
    /\ \A i \in Fragments : fraglist[i] \in [sector : Nat, count : Nat]
    /\ Length \in Nat
<1>1. fragcount \in Nat
  BY Z3T(20), SMTT(20), BdDefragAssumption DEF fragcount
<1>2. \A i \in Fragments : fraglist[i] \in [sector : Nat, count : Nat]
  <2> DEFINE R == [sector : Nat, count : Nat]
  <2>1. fraglist \in Seq(R)
    BY BdDefragAssumption
  <2> HIDE DEF R
  <2>2. \A i \in Fragments : fraglist[i] \in R
    BY Z3T(20), SMTT(20), <2>1 DEF Fragments, fragcount
  <2> QED BY <2>2 DEF R
<1>3. Length \in Nat
  BY Z3T(20), SMTT(20), <1>1, BdDefragAssumption DEF Length
<1> QED
  BY <1>1, <1>2, <1>3

\* A fragment and where it begins and ends.
LEMMA FragmentFacts ==
    ASSUME NEW i \in Fragments
    PROVE  /\ First[i] \in Nat /\ First[i + 1] \in Nat
           /\ First[i + 1] = First[i] + fraglist[i].count
           /\ fraglist[i].sector \in Nat /\ fraglist[i].count \in Nat
           /\ fraglist[i].sector + fraglist[i].count <= bdSectors
           /\ bdSectors \in Nat
<1>1. i \in 1 .. fragcount + 1 /\ i + 1 \in 1 .. fragcount + 1
  BY Z3T(20), SMTT(20), Lists DEF Fragments
<1>2. First[i] \in Nat /\ First[i + 1] \in Nat
  BY <1>1, BdDefragAssumption
<1>3. fraglist[i].sector \in Nat /\ fraglist[i].count \in Nat
  BY Lists
<1> QED
  BY <1>2, <1>3, BdDefragAssumption

\* The fragments begin in the order of the list.
LEMMA Ascending ==
    ASSUME NEW i \in 1 .. fragcount + 1, NEW j \in 1 .. fragcount + 1, i <= j
    PROVE  First[i] <= First[j]
<1> DEFINE Below == {k \in Nat : i <= k /\ k <= fragcount + 1 /\ First[k] < First[i]}
<1> SUFFICES ASSUME First[j] < First[i]
             PROVE  FALSE
  BY Z3T(20), SMTT(20), Lists, BdDefragAssumption
<1>1. Below \in SUBSET Nat /\ Below # {}
  <2>1. j \in Below
    BY Z3T(20), SMTT(20), Lists
  <2> QED BY <2>1
<1>2. PICK m \in Below : \A k \in Below : m <= k
  BY <1>1, LeastNat
<1>3. m \in Nat /\ i < m /\ m <= fragcount + 1 /\ First[m] < First[i]
  BY Z3T(20), SMTT(20), <1>2, Lists, BdDefragAssumption
<1>4. m - 1 \in Fragments /\ i <= m - 1 /\ m - 1 \notin Below
  BY Z3T(20), SMTT(20), <1>2, <1>3, Lists DEF Fragments
<1>5. First[m - 1] >= First[i]
  BY Z3T(20), SMTT(20), <1>4, Lists, BdDefragAssumption DEF Fragments
<1>6. First[m] = First[m - 1] + fraglist[m - 1].count
  <2>1. First[(m - 1) + 1] = First[m - 1] + fraglist[m - 1].count
    BY <1>4, BdDefragAssumption
  <2>2. (m - 1) + 1 = m
    BY Z3T(20), SMTT(20), <1>3
  <2> QED BY <2>1, <2>2
<1>7. fraglist[m - 1].count \in Nat
  BY <1>4, Lists
<1>8. First[m - 1] \in Nat /\ First[i] \in Nat
  BY Z3T(20), SMTT(20), <1>4, Lists, BdDefragAssumption DEF Fragments
<1> QED
  BY Z3T(20), SMTT(20), <1>3, <1>5, <1>6, <1>7, <1>8

\* Every sector of the file is in a fragment.
LEMMA Located ==
    ASSUME NEW t \in 0 .. Length - 1
    PROVE  \E i \in Fragments : First[i] <= t /\ t < First[i + 1]
<1> DEFINE Above == {k \in Nat : 1 <= k /\ k <= fragcount + 1 /\ t < First[k]}
<1>1. Above \in SUBSET Nat /\ Above # {}
  <2>1. fragcount + 1 \in Above
    BY Z3T(20), SMTT(20), Lists DEF Length
  <2> QED BY <2>1
<1>2. PICK m \in Above : \A k \in Above : m <= k
  BY <1>1, LeastNat
<1>3. m \in Nat /\ 1 < m /\ m <= fragcount + 1 /\ t < First[m]
  <2>1. ~ (t < First[1])
    BY Z3T(20), SMTT(20), BdDefragAssumption, Lists
  <2> QED BY Z3T(20), SMTT(20), <1>2, <2>1
<1>4. m - 1 \in Fragments /\ m - 1 \notin Above
  BY Z3T(20), SMTT(20), <1>2, <1>3, Lists DEF Fragments
<1>5. First[m - 1] <= t
  BY Z3T(20), SMTT(20), <1>4, Lists, BdDefragAssumption DEF Fragments
<1>6. (m - 1) + 1 = m
  BY Z3T(20), SMTT(20), <1>3
<1> QED
  BY <1>3, <1>4, <1>5, <1>6

\* A sector of the file is in one fragment only.
LEMMA InOneFragment ==
    ASSUME NEW i \in Fragments, NEW t \in Nat, First[i] <= t, t < First[i + 1]
    PROVE  FragmentOf(t) = i /\ t \in 0 .. Length - 1
<1>1. t < Length
  <2>1. First[i + 1] <= First[fragcount + 1]
    BY Z3T(20), SMTT(20), Ascending, Lists DEF Fragments
  <2>2. First[i + 1] \in Nat /\ First[fragcount + 1] \in Nat
    BY Z3T(20), SMTT(20), Lists, BdDefragAssumption DEF Fragments
  <2> QED BY Z3T(20), SMTT(20), <2>1, <2>2 DEF Length
<1>2. ASSUME NEW j \in Fragments, First[j] <= t, t < First[j + 1]
      PROVE  j = i
  <2>1. First[i] \in Nat /\ First[i + 1] \in Nat /\ First[j] \in Nat /\ First[j + 1] \in Nat
    BY Z3T(20), SMTT(20), Lists, BdDefragAssumption DEF Fragments
  <2>2. CASE j < i
    <3>1. First[j + 1] <= First[i]
      BY Z3T(20), SMTT(20), <2>2, Ascending, Lists DEF Fragments
    <3> QED BY Z3T(20), SMTT(20), <2>1, <3>1, <1>2
  <2>3. CASE i < j
    <3>1. First[i + 1] <= First[j]
      BY Z3T(20), SMTT(20), <2>3, Ascending, Lists DEF Fragments
    <3> QED BY Z3T(20), SMTT(20), <2>1, <3>1, <1>2
  <2> QED BY Z3T(20), SMTT(20), <2>2, <2>3, Lists DEF Fragments
<1>3. FragmentOf(t) = i
  BY <1>2 DEF FragmentOf
<1> QED
  BY Z3T(20), SMTT(20), <1>1, <1>3, Lists

\* A sector of the file is where its fragment has it.
LEMMA PlaceInExtent ==
    ASSUME NEW t \in 0 .. Length - 1
    PROVE  /\ FragmentOf(t) \in Fragments
           /\ Place(t) = fraglist[FragmentOf(t)].sector + (t - First[FragmentOf(t)])
           /\ Place(t) \in Extent(fraglist[FragmentOf(t)])
           /\ Place(t) \in 0 .. bdSectors - 1
<1> DEFINE i == FragmentOf(t)
<1>1. i \in Fragments /\ First[i] <= t /\ t < First[i + 1]
  BY Located DEF FragmentOf
<1>2. Place(t) = fraglist[i].sector + (t - First[i])
  BY DEF Place
<1> HIDE DEF i
<1>3. /\ First[i + 1] = First[i] + fraglist[i].count
      /\ First[i] \in Nat
      /\ fraglist[i].sector \in Nat /\ fraglist[i].count \in Nat
      /\ fraglist[i].sector + fraglist[i].count <= bdSectors
      /\ bdSectors \in Nat
  BY <1>1, FragmentFacts
<1>4. Place(t) \in Extent(fraglist[i])
  BY Z3T(20), SMTT(20), <1>1, <1>2, <1>3 DEF Extent
<1>5. Place(t) \in 0 .. bdSectors - 1
  BY Z3T(20), SMTT(20), <1>1, <1>2, <1>3
<1> QED
  BY <1>1, <1>2, <1>4, <1>5 DEF i

\* The sectors a to a + n - 1 of the file, if one fragment has them, are n sectors
\* of the device in the same order, and no other sector of the file is among them.
LEMMA PartInPlace ==
    ASSUME NEW i \in Fragments, NEW a \in Nat, NEW n \in Nat, NEW t \in 0 .. Length - 1,
           First[i] <= a, a + n <= First[i + 1],
           NEW p \in Nat, p = fraglist[i].sector + (a - First[i])
    PROVE  /\ p <= Place(t) /\ Place(t) < p + n <=> a <= t /\ t < a + n
           /\ a <= t /\ t < a + n => Place(t) - p = t - a
<1> DEFINE q == fraglist[i].sector
           c == fraglist[i].count
<1>1. /\ First[i + 1] = First[i] + c
      /\ First[i] \in Nat
      /\ q \in Nat /\ c \in Nat
  BY FragmentFacts
<1>2. Place(t) \in Nat
  BY Z3T(20), SMTT(20), PlaceInExtent, BdDefragAssumption
<1>3. Extent(fraglist[i]) = q .. q + c - 1
  BY DEF Extent
<1> HIDE DEF q, c
<1>4. ASSUME a <= t, t < a + n
      PROVE  /\ p <= Place(t) /\ Place(t) < p + n
             /\ Place(t) - p = t - a
  <2>1. First[i] <= t /\ t < First[i + 1]
    BY Z3T(20), SMTT(20), <1>1, <1>4, Lists
  <2>2. FragmentOf(t) = i
    BY Z3T(20), SMTT(20), <2>1, InOneFragment, Lists
  <2>3. Place(t) = q + (t - First[i]) /\ p = q + (a - First[i])
    BY <2>2, PlaceInExtent DEF q
  <2> QED BY Z3T(20), SMTT(20), <1>1, <1>2, <1>4, <2>3, Lists
<1>5. ASSUME p <= Place(t), Place(t) < p + n
      PROVE  a <= t /\ t < a + n
  <2>0. p = q + (a - First[i])
    BY DEF q
  <2>1. Place(t) \in Extent(fraglist[i])
    <3>1. q <= Place(t)
      BY Z3T(20), SMTT(20), <1>1, <1>2, <1>5, <2>0
    <3>2. Place(t) <= q + c - 1
      BY Z3T(20), SMTT(20), <1>1, <1>2, <1>5, <2>0
    <3> QED BY Z3T(20), SMTT(20), <1>1, <1>2, <1>3, <3>1, <3>2
  <2>2. FragmentOf(t) = i
    BY <2>1, PlaceInExtent, BdDefragAssumption
  <2>3. Place(t) = q + (t - First[i])
    BY <2>2, PlaceInExtent DEF q
  <2> QED BY Z3T(20), SMTT(20), <1>1, <1>2, <1>5, <2>0, <2>3, Lists
<1> QED
  BY <1>4, <1>5
-----------------------------------------------------------------------------
(* The invariant: the types, where the walk is and what has been done. *)
IInv == TypeOK /\ Walk /\ Progress

\* A call that has found its fragment.
AtFragment == call.pc = "locate" /\ call.i <= fragcount /\ Found

\* The fields of a call under way.
LEMMA CallTyped ==
    ASSUME TypeOK, call.pc # "idle"
    PROVE  /\ call \in Calls
           /\ call.pc \in {"loop", "locate"} /\ call.op \in {"read", "write"}
           /\ call.count \in 0 .. MaxCount /\ call.left \in 0 .. call.count
           /\ call.sector \in Requested /\ call.sector \in Nat
           /\ call.start \in Nat /\ call.i \in Nat /\ call.offset \in Nat
           /\ call.start = call.sector + call.count - call.left
           /\ call.buffer \in [1 .. call.count -> Data]
           /\ call.old \in [0 .. Length - 1 -> Data]
<1>1. call \in Calls /\ call.count \in 0 .. MaxCount /\ call.left <= call.count
      /\ call.buffer \in [1 .. call.count -> Data]
      /\ call.start = call.sector + call.count - call.left
  BY Z3T(20), SMTT(20) DEF TypeOK
<1>2. /\ call.pc \in {"loop", "locate"} /\ call.op \in {"read", "write"}
      /\ call.left \in Nat /\ call.sector \in Requested /\ call.start \in Nat
      /\ call.i \in Nat /\ call.offset \in Nat
      /\ call.old \in [0 .. Length - 1 -> Data]
  BY <1>1 DEF Calls
<1>3. call.sector \in Nat
  BY Z3T(20), SMTT(20), <1>2, BdDefragAssumption DEF Requested
<1> QED
  BY Z3T(20), SMTT(20), <1>1, <1>2, <1>3, BdDefragAssumption

\* The part of a call that the fragment holds is in the fragment and in the buffer.
LEMMA PartFits ==
    ASSUME TypeOK, Walk, AtFragment
    PROVE  /\ call.i \in Fragments
           /\ First[call.i] <= call.start
           /\ Clipped \in 1 .. call.left
           /\ call.start + Clipped <= First[call.i + 1]
           /\ At = fraglist[call.i].sector + (call.start - First[call.i])
           /\ At \in Nat /\ At + Clipped <= bdSectors
           /\ Pos = call.count - call.left
           /\ call.start + Clipped <= Length
<1> DEFINE i == call.i
           q == fraglist[i].sector
           c == fraglist[i].count
<1>1. /\ call.left \in 0 .. call.count /\ call.count \in Nat
      /\ call.sector \in Nat /\ call.start \in Nat /\ i \in Nat
      /\ call.start = call.sector + call.count - call.left
  BY Z3T(20), SMTT(20), CallTyped, BdDefragAssumption DEF AtFragment
<1>2. i \in Fragments /\ call.left > 0 /\ call.offset = First[i] /\ First[i] <= call.start
  BY Z3T(20), SMTT(20), <1>1, Lists DEF Walk, AtFragment, Fragments
<1>3. /\ First[i + 1] = First[i] + c
      /\ First[i] \in Nat
      /\ q \in Nat /\ c \in Nat /\ q + c <= bdSectors
  BY <1>2, FragmentFacts
<1>4. call.start < First[i] + c
  BY <1>1, <1>2, <1>3 DEF AtFragment, Found
<1>5. Clipped = IF call.start + call.left > First[i] + c THEN First[i] + c - call.start ELSE call.left
  BY <1>2 DEF Clipped
<1>6. At = q + (call.start - First[i])
  BY <1>2 DEF At
<1>7. First[i + 1] <= Length
  BY Z3T(20), SMTT(20), <1>2, Ascending, Lists DEF Fragments, Length
<1>8. First[i + 1] \in Nat /\ Length \in Nat /\ bdSectors \in Nat
  BY Z3T(20), SMTT(20), <1>2, Lists, BdDefragAssumption DEF Fragments
<1> HIDE DEF i, q, c
<1>9. Clipped \in 1 .. call.left
  BY Z3T(20), SMTT(20), <1>1, <1>2, <1>3, <1>4, <1>5
<1>10. call.start + Clipped <= First[i] + c
  BY Z3T(20), SMTT(20), <1>1, <1>2, <1>3, <1>4, <1>5
<1>11. At \in Nat /\ At + Clipped <= bdSectors
  BY Z3T(20), SMTT(20), <1>1, <1>2, <1>3, <1>6, <1>8, <1>9, <1>10
<1>12. Pos = call.count - call.left
  BY Z3T(20), SMTT(20), <1>1 DEF Pos
<1>13. call.start + Clipped <= First[i + 1] /\ call.start + Clipped <= Length
  BY Z3T(20), SMTT(20), <1>1, <1>3, <1>7, <1>8, <1>9, <1>10
<1> QED
  BY <1>2, <1>6, <1>9, <1>11, <1>12, <1>13 DEF i, q

\* What a store of n sectors of the part does to the medium and to the file.
LEMMA StoreFile ==
    ASSUME TypeOK, Walk, AtFragment, NEW n \in 0 .. Clipped, medium' = Stored(n)
    PROVE  /\ medium' \in [0 .. bdSectors - 1 -> Data]
           /\ File' = [t \in 0 .. Length - 1 |->
                          IF call.start <= t /\ t < call.start + n THEN call.buffer[t - call.sector + 1] ELSE File[t]]
<1>1. /\ call.i \in Fragments /\ First[call.i] <= call.start
      /\ Clipped \in 1 .. call.left /\ call.start + Clipped <= First[call.i + 1]
      /\ At = fraglist[call.i].sector + (call.start - First[call.i])
      /\ At \in Nat /\ At + Clipped <= bdSectors
      /\ Pos = call.count - call.left
  BY PartFits
<1>2. /\ call.left \in 0 .. call.count /\ call.count \in Nat
      /\ call.sector \in Nat /\ call.start \in Nat
      /\ call.start = call.sector + call.count - call.left
      /\ call.buffer \in [1 .. call.count -> Data]
  BY Z3T(20), SMTT(20), CallTyped, BdDefragAssumption DEF AtFragment
<1>3. n \in Nat /\ n <= Clipped
  BY Z3T(20), SMTT(20), <1>1
<1>4. medium' \in [0 .. bdSectors - 1 -> Data]
  <2>1. ASSUME NEW p \in 0 .. bdSectors - 1
        PROVE  (IF At <= p /\ p < At + n THEN call.buffer[Pos + p - At + 1] ELSE medium[p]) \in Data
    <3>1. CASE At <= p /\ p < At + n
      <4>1. Pos + p - At + 1 \in 1 .. call.count
        <5> DEFINE a == At
                   l == call.left
                   c == call.count
                   k == Clipped
        <5>1. a \in Nat /\ p \in Nat /\ l \in 0 .. c /\ c \in Nat /\ k \in 1 .. l /\ n \in Nat /\ n <= k
              /\ a <= p /\ p < a + n
          BY Z3T(20), SMTT(20), <1>1, <1>2, <1>3, <3>1, BdDefragAssumption
        <5> HIDE DEF a, l, c, k
        <5>2. (c - l) + p - a + 1 \in 1 .. c
          BY Z3T(20), SMTT(20), <5>1
        <5> QED BY <1>1, <5>2 DEF a, l, c
      <4> QED BY <1>2, <3>1, <4>1
    <3>2. CASE ~ (At <= p /\ p < At + n)
      BY <3>2 DEF TypeOK
    <3> QED BY <3>1, <3>2
  <2> QED BY <2>1 DEF Stored
<1>5. ASSUME NEW t \in 0 .. Length - 1
      PROVE  medium'[Place(t)] =
                IF call.start <= t /\ t < call.start + n THEN call.buffer[t - call.sector + 1] ELSE medium[Place(t)]
  <2>1. First[call.i + 1] \in Nat
    BY <1>1, FragmentFacts
  <2>2. call.start + n <= First[call.i + 1]
    <3> DEFINE e == First[call.i + 1]
               k == Clipped
               a == call.start
    <3>1. a \in Nat /\ n \in Nat /\ n <= k /\ k \in Nat /\ a + k <= e /\ e \in Nat
      <4>1. k \in Nat
        BY Z3T(20), SMTT(20), <1>1, <1>2
      <4> QED BY <1>1, <1>2, <1>3, <2>1, <4>1
    <3> HIDE DEF e, k, a
    <3>2. a + n <= e
      BY Z3T(20), SMTT(20), <3>1
    <3> QED BY <3>2 DEF e, a
  <2>3. /\ At <= Place(t) /\ Place(t) < At + n <=> call.start <= t /\ t < call.start + n
        /\ call.start <= t /\ t < call.start + n => Place(t) - At = t - call.start
    <3> DEFINE i == call.i
               a == call.start
               p == At
    <3>1. /\ i \in Fragments /\ a \in Nat /\ n \in Nat /\ p \in Nat
          /\ First[i] <= a /\ a + n <= First[i + 1]
          /\ p = fraglist[i].sector + (a - First[i])
      BY <1>1, <1>2, <1>3, <2>2
    <3> HIDE DEF i, a, p
    <3>2. /\ p <= Place(t) /\ Place(t) < p + n <=> a <= t /\ t < a + n
          /\ a <= t /\ t < a + n => Place(t) - p = t - a
      BY Z3T(20), SMTT(20), <3>1, PartInPlace
    <3> QED BY <3>2 DEF a, p
  <2>4. Place(t) \in 0 .. bdSectors - 1
    BY PlaceInExtent
  <2>5. medium'[Place(t)] =
           IF At <= Place(t) /\ Place(t) < At + n THEN call.buffer[Pos + Place(t) - At + 1] ELSE medium[Place(t)]
    BY <2>4 DEF Stored
  <2>6. CASE call.start <= t /\ t < call.start + n
    <3>1. Pos + Place(t) - At + 1 = t - call.sector + 1
      <4> DEFINE a == At
                 w == Place(t)
                 l == call.left
                 c == call.count
                 b == call.sector
                 x == call.start
      <4>1. a \in Nat /\ w \in Int /\ l \in Int /\ c \in Nat /\ b \in Nat /\ x \in Nat /\ t \in Int
        <5>1. w \in Int
          BY Z3T(20), SMTT(20), <2>4, BdDefragAssumption
        <5>2. l \in Int /\ c \in Nat /\ b \in Nat /\ x \in Nat
          BY Z3T(20), SMTT(20), <1>2
        <5>3. t \in Int
          BY Z3T(20), SMTT(20), Lists
        <5> QED BY <1>1, <5>1, <5>2, <5>3
      <4>2. w - a = t - x /\ x = b + c - l
        BY <1>2, <2>3, <2>6
      <4> HIDE DEF a, w, l, c, b, x
      <4>3. (c - l) + w - a + 1 = t - b + 1
        BY Z3T(20), SMTT(20), <4>1, <4>2
      <4> QED BY <1>1, <4>3 DEF a, w, l, c, b
    <3> QED BY <2>3, <2>5, <2>6, <3>1
  <2>7. CASE ~ (call.start <= t /\ t < call.start + n)
    BY <2>3, <2>5, <2>7
  <2> QED BY <2>6, <2>7
<1> QED
  BY <1>4, <1>5 DEF File

\* The file has the contents that the medium has at its places.
LEMMA FileTyped ==
    ASSUME medium \in [0 .. bdSectors - 1 -> Data]
    PROVE  File \in [0 .. Length - 1 -> Data]
<1>1. ASSUME NEW t \in 0 .. Length - 1
      PROVE  medium[Place(t)] \in Data
  BY PlaceInExtent
<1> QED
  BY <1>1 DEF File

\* n more sectors of a write that has stored d of them.
LEMMA WriteGrows ==
    ASSUME TypeOK, Walk, AtFragment, call.op = "write", Progress,
           NEW n \in 0 .. Clipped, medium' = Stored(n)
    PROVE  File' = Device!After(call.old, call.sector, (call.start - call.sector) + n, call.buffer)
<1> DEFINE b == call.sector
           x == call.start
<1>1. b \in Nat /\ x \in Nat /\ b <= x
  BY Z3T(20), SMTT(20), CallTyped, BdDefragAssumption DEF AtFragment
<1>2. n \in Nat
  <2>1. Clipped \in Nat
    BY Z3T(20), SMTT(20), PartFits, CallTyped, BdDefragAssumption DEF AtFragment
  <2> QED BY Z3T(20), SMTT(20), <2>1
<1>3. File' = [t \in 0 .. Length - 1 |->
                  IF x <= t /\ t < x + n THEN call.buffer[t - b + 1] ELSE File[t]]
  BY StoreFile
<1>4. File = Device!After(call.old, b, x - b, call.buffer)
  BY DEF Progress, AtFragment
<1>5. ASSUME NEW t \in 0 .. Length - 1
      PROVE  File[t] = IF b <= t /\ t < b + (x - b) THEN call.buffer[t - b + 1] ELSE call.old[t]
  BY <1>4 DEF Device!After, Device!Sectors
<1> HIDE DEF b, x
<1>6. ASSUME NEW t \in 0 .. Length - 1
      PROVE  (IF x <= t /\ t < x + n THEN call.buffer[t - b + 1] ELSE File[t])
             = IF b <= t /\ t < b + ((x - b) + n) THEN call.buffer[t - b + 1] ELSE call.old[t]
  <2>1. t \in Int
    BY Z3T(20), SMTT(20), Lists
  <2>2. b + (x - b) = x /\ b + ((x - b) + n) = x + n
    BY Z3T(20), SMTT(20), <1>1, <1>2
  <2>3. CASE x <= t /\ t < x + n
    BY Z3T(20), SMTT(20), <1>1, <1>2, <2>1, <2>2, <2>3
  <2>4. CASE t < x
    <3>1. t < x + n /\ ~ (x <= t)
      BY Z3T(20), SMTT(20), <1>1, <1>2, <2>1, <2>4
    <3> QED BY <1>5, <2>2, <2>4, <3>1
  <2>5. CASE x + n <= t
    <3>1. ~ (t < x) /\ ~ (t < x + n)
      BY Z3T(20), SMTT(20), <1>1, <1>2, <2>1, <2>5
    <3> QED BY <1>5, <2>2, <3>1
  <2> QED BY Z3T(20), SMTT(20), <1>1, <1>2, <2>1, <2>3, <2>4, <2>5
<1>7. File' = [t \in 0 .. Length - 1 |->
                  IF b <= t /\ t < b + ((x - b) + n) THEN call.buffer[t - b + 1] ELSE call.old[t]]
  BY <1>3, <1>6
<1> QED
  BY <1>7 DEF b, x, Device!After, Device!Sectors

\* n more sectors of a read that has filled in d of them.
LEMMA ReadGrows ==
    ASSUME TypeOK, Walk, AtFragment, call.op = "read", Progress
    PROVE  /\ Loaded(Clipped) \in [1 .. call.count -> Data]
           /\ \A k \in 1 .. (call.start - call.sector) + Clipped :
                 Loaded(Clipped)[k] = call.old[call.sector + k - 1]
<1> DEFINE b == call.sector
           x == call.start
           n == Clipped
           c == call.count
           l == call.left
           i == call.i
           a == At
<1>1. b \in Nat /\ x \in Nat /\ c \in Nat /\ l \in 0 .. c /\ x = b + c - l
  BY Z3T(20), SMTT(20), CallTyped, BdDefragAssumption DEF AtFragment
<1>2. n \in 1 .. l
  BY PartFits
<1>3. call.buffer \in [1 .. c -> Data]
  BY CallTyped DEF AtFragment
<1>4. /\ i \in Fragments /\ First[i] <= x /\ x + n <= First[i + 1] /\ x + n <= Length
      /\ a = fraglist[i].sector + (x - First[i]) /\ a \in Nat /\ a + n <= bdSectors
      /\ Pos = c - l
  BY PartFits
<1>5. /\ File = call.old
      /\ \A k \in 1 .. x - b : call.buffer[k] = call.old[b + k - 1]
  BY DEF Progress, AtFragment
<1>6. Loaded(n) = [k \in 1 .. c |-> IF c - l < k /\ k <= (c - l) + n THEN medium[a + (k - (c - l)) - 1]
                                   ELSE call.buffer[k]]
  BY <1>4 DEF Loaded
<1> HIDE DEF b, x, n, c, l, i, a
<1>7. x - b = c - l /\ n \in Nat /\ (c - l) + n <= c /\ c - l \in Nat
  BY Z3T(20), SMTT(20), <1>1, <1>2
<1>8. ASSUME NEW k \in 1 .. c, c - l < k, k <= (c - l) + n
      PROVE  /\ medium[a + (k - (c - l)) - 1] \in Data
             /\ medium[a + (k - (c - l)) - 1] = call.old[b + k - 1]
  <2> DEFINE t == b + k - 1
  <2>1. t \in 0 .. Length - 1 /\ x <= t /\ t < x + n
    BY Z3T(20), SMTT(20), <1>1, <1>4, <1>7, <1>8, Lists
  <2> HIDE DEF t
  <2>2. Place(t) - a = t - x
    <3>1. /\ i \in Fragments /\ x \in Nat /\ n \in Nat /\ a \in Nat
          /\ First[i] <= x /\ x + n <= First[i + 1]
          /\ a = fraglist[i].sector + (x - First[i])
      BY <1>1, <1>4, <1>7
    <3>2. t \in 0 .. Length - 1
      BY <2>1
    <3>3. /\ a <= Place(t) /\ Place(t) < a + n <=> x <= t /\ t < x + n
          /\ x <= t /\ t < x + n => Place(t) - a = t - x
      BY Z3T(20), SMTT(20), <3>1, <3>2, PartInPlace
    <3> QED BY <2>1, <3>3
  <2>3. Place(t) \in 0 .. bdSectors - 1
    BY <2>1, PlaceInExtent
  <2>4. Place(t) \in Int
    BY Z3T(20), SMTT(20), <2>3, BdDefragAssumption
  <2> DEFINE w == Place(t)
  <2>5. File[t] = medium[w]
    BY <2>1 DEF File
  <2>6. w - a = t - x /\ w \in Int
    BY <2>2, <2>4
  <2>7. medium[w] \in Data
    BY <2>3 DEF TypeOK
  <2> HIDE DEF w
  <2>8. w = a + (k - (c - l)) - 1
    BY Z3T(20), SMTT(20), <1>1, <1>4, <1>7, <2>6 DEF t
  <2> QED BY <1>5, <2>5, <2>7, <2>8 DEF t
<1>9. Loaded(n) \in [1 .. c -> Data]
  BY <1>3, <1>6, <1>8
<1>10. ASSUME NEW k \in 1 .. (x - b) + n
       PROVE  Loaded(n)[k] = call.old[b + k - 1]
  <2>1. k \in 1 .. c /\ k \in Nat
    BY Z3T(20), SMTT(20), <1>1, <1>7
  <2>2. CASE c - l < k
    <3>1. k <= (c - l) + n
      BY Z3T(20), SMTT(20), <1>7
    <3> QED BY <1>6, <1>8, <2>1, <2>2, <3>1
  <2>3. CASE ~ (c - l < k)
    <3>1. k \in 1 .. x - b
      BY Z3T(20), SMTT(20), <1>1, <1>7, <2>1, <2>3
    <3> QED BY <1>5, <1>6, <2>1, <2>3, <3>1
  <2> QED BY <2>2, <2>3
<1> QED
  BY <1>9, <1>10 DEF b, x, n, c

-----------------------------------------------------------------------------
(* Every step keeps the invariant. *)

\* Nothing is claimed between calls.
LEMMA IdleInv ==
    ASSUME medium' \in [0 .. bdSectors - 1 -> Data], call' = [pc |-> "idle"]
    PROVE  IInv'
BY DEF IInv, TypeOK, Walk, Progress

\* A call begins with nothing done.
LEMMA CallInv ==
    ASSUME IInv, NEW op \in {"read", "write"}, NEW sector \in Requested, NEW count \in 0 .. MaxCount,
           NEW buffer \in [1 .. count -> Data], Call(op, sector, count, buffer)
    PROVE  IInv'
<1>1. medium' = medium /\ medium \in [0 .. bdSectors - 1 -> Data] /\ File' = File
  BY DEF IInv, TypeOK, Call, File
<1>2. File \in [0 .. Length - 1 -> Data]
  BY <1>1, FileTyped
<1>3. sector \in Nat /\ count \in Nat
  BY Z3T(20), SMTT(20), BdDefragAssumption DEF Requested
<1>4. call' = [pc |-> "loop", op |-> op, sector |-> sector, count |-> count, buffer |-> buffer,
               start |-> sector, left |-> count, i |-> 1, offset |-> 0, old |-> File]
  BY DEF Call
<1>5. buffer \in UNION {[1 .. n -> Data] : n \in 0 .. MaxCount}
  OBVIOUS
<1>6. call' \in Calls
  BY <1>2, <1>3, <1>4, <1>5 DEF Calls
<1>7. TypeOK'
  BY Z3T(20), SMTT(20), <1>1, <1>3, <1>4, <1>6 DEF TypeOK
<1>8. Walk'
  BY <1>4 DEF Walk
<1>9. Progress'
  <2>1. File = Device!After(File, sector, sector - sector, buffer)
    <3>1. sector - sector = 0 /\ sector + 0 = sector
      BY Z3T(20), SMTT(20), <1>3
    <3>2. ASSUME NEW t \in 0 .. Length - 1
          PROVE  ~ (sector <= t /\ t < sector)
      BY Z3T(20), SMTT(20), <1>3, Lists
    <3> QED BY <1>2, <3>1, <3>2 DEF Device!After, Device!Sectors
  <2>2. 1 .. sector - sector = {}
    BY Z3T(20), SMTT(20), <1>3
  <2>3. /\ call'.start = sector /\ call'.sector = sector /\ call'.old = File
        /\ call'.buffer = buffer /\ call'.op = op
    BY <1>4
  <2>4. ~ (sector > sector)
    BY Z3T(20), SMTT(20), <1>3
  <2> QED BY <1>1, <2>1, <2>2, <2>3, <2>4 DEF Progress
<1> QED
  BY <1>7, <1>8, <1>9 DEF IInv

\* The steps that only move the walk.
LEMMA WalkInv ==
    ASSUME IInv, NextPart \/ Skip
    PROVE  IInv'
<1>1. call.pc # "idle" /\ medium' = medium /\ File' = File
  BY DEF NextPart, Skip, File
<1>2. call \in Calls
  BY <1>1, CallTyped DEF IInv
<1>3. \E j, o : call' = [call EXCEPT !.pc = "locate", !.i = j, !.offset = o] /\ j \in Nat /\ o \in Nat
  <2>1. CASE NextPart
    BY <2>1 DEF NextPart
  <2>2. CASE Skip
    <3>1. call.i \in Fragments /\ call.offset \in Nat
      BY Z3T(20), SMTT(20), <1>1, <2>2, CallTyped, Lists DEF IInv, Skip, Walk, Fragments
    <3>2. fraglist[call.i].count \in Nat
      BY <3>1, Lists
    <3>3. call.i + 1 \in Nat /\ call.offset + fraglist[call.i].count \in Nat
      BY Z3T(20), SMTT(20), <3>1, <3>2, Lists DEF Fragments
    <3>4. call' = [call EXCEPT !.pc = "locate", !.i = call.i + 1, !.offset = call.offset + fraglist[call.i].count]
      BY <1>2, <2>2 DEF Skip, Calls
    <3> QED BY <3>3, <3>4
  <2> QED BY <2>1, <2>2
<1>4. PICK j, o : call' = [call EXCEPT !.pc = "locate", !.i = j, !.offset = o] /\ j \in Nat /\ o \in Nat
  BY <1>3
<1>5. /\ call' \in Calls
      /\ call'.pc = "locate" /\ call'.op = call.op /\ call'.sector = call.sector /\ call'.count = call.count
      /\ call'.buffer = call.buffer /\ call'.start = call.start /\ call'.left = call.left
      /\ call'.old = call.old /\ call'.i = j /\ call'.offset = o
  BY <1>2, <1>4 DEF Calls
<1>6. TypeOK'
  BY Z3T(20), SMTT(20), <1>1, <1>5, CallTyped DEF IInv, TypeOK
<1>7. Progress'
  BY <1>1, <1>5 DEF IInv, Progress
<1>8. Walk'
  <2>1. CASE NextPart
    <3>1. call'.i = 1 /\ call'.offset = 0 /\ call'.left > 0
      BY <1>2, <1>5, <2>1 DEF NextPart, Calls
    <3>2. call'.start \in Nat
      BY <1>5 DEF Calls
    <3> QED BY Z3T(20), SMTT(20), <3>1, <3>2, Lists, BdDefragAssumption DEF Walk
  <2>2. CASE Skip
    <3>1. /\ call.pc = "locate" /\ call.left > 0 /\ call.i \in Fragments
          /\ call.offset = First[call.i] /\ call.offset <= call.start
      BY Z3T(20), SMTT(20), <2>2, Lists DEF IInv, Walk, Skip, Fragments
    <3>2. call'.i = call.i + 1 /\ call'.offset = call.offset + fraglist[call.i].count
      BY <1>2, <2>2 DEF Skip, Calls
    <3>3. /\ First[call.i + 1] = First[call.i] + fraglist[call.i].count
          /\ First[call.i + 1] \in Nat /\ call.start \in Nat
      BY <1>1, <3>1, FragmentFacts, CallTyped DEF IInv
    <3>4. ~ (call.offset + fraglist[call.i].count > call.start)
      BY <2>2, <3>1 DEF Skip, Found
    <3>5. call'.offset = First[call'.i] /\ call'.offset <= call'.start
      BY Z3T(20), SMTT(20), <1>5, <3>1, <3>2, <3>3, <3>4
    <3>6. call'.i \in 1 .. fragcount + 1
      BY Z3T(20), SMTT(20), <3>1, <3>2, Lists DEF Fragments
    <3> QED BY <1>5, <3>1, <3>5, <3>6 DEF Walk
  <2> QED BY <2>1, <2>2
<1> QED
  BY <1>6, <1>7, <1>8 DEF IInv

\* A part is transferred.
LEMMA TransferInv ==
    ASSUME IInv, Transfer
    PROVE  IInv'
<1> DEFINE n == Clipped
           buf == IF call.op = "read" THEN Loaded(Clipped) ELSE call.buffer
<1>1. TypeOK /\ Walk /\ Progress /\ AtFragment /\ call.pc # "idle"
  BY DEF IInv, Transfer, AtFragment
<1>2. call \in Calls
  BY <1>1, CallTyped
<1>3. /\ call.count \in 0 .. MaxCount /\ call.left \in 0 .. call.count /\ call.count \in Nat
      /\ call.sector \in Nat /\ call.start \in Nat /\ call.op \in {"read", "write"}
      /\ call.start = call.sector + call.count - call.left
  BY Z3T(20), SMTT(20), <1>1, CallTyped, BdDefragAssumption
<1>4. n \in 1 .. call.left /\ call.start + n <= Length
  BY <1>1, PartFits
<1>5. buf \in [1 .. call.count -> Data]
  BY <1>1, ReadGrows, CallTyped
<1>6. call' = [call EXCEPT !.pc = "loop", !.start = call.start + n, !.left = call.left - n, !.buffer = buf]
  BY <1>2 DEF Transfer, Calls
<1>7. medium' = IF call.op = "write" THEN Stored(n) ELSE medium
  BY DEF Transfer
<1>8. n \in 0 .. Clipped
  BY Z3T(20), SMTT(20), <1>3, <1>4
<1>9. medium' \in [0 .. bdSectors - 1 -> Data]
  <2>1. CASE call.op = "write"
    BY <1>1, <1>7, <1>8, <2>1, StoreFile
  <2>2. CASE call.op # "write"
    BY <1>1, <1>7, <2>2 DEF TypeOK
  <2> QED BY <2>1, <2>2
<1>10. call.op = "write" => File' = Device!After(call.old, call.sector, (call.start - call.sector) + n, call.buffer)
  BY <1>1, <1>7, <1>8, WriteGrows
<1>11. call.op = "read" =>
          /\ File' = call.old
          /\ \A k \in 1 .. (call.start - call.sector) + n : buf[k] = call.old[call.sector + k - 1]
  <2> HAVE call.op = "read"
  <2>1. medium' = medium
    BY <1>7
  <2>2. File' = File
    BY <2>1 DEF File
  <2>3. File = call.old
    BY <1>1 DEF Progress
  <2> QED BY <1>1, <2>2, <2>3, ReadGrows
<1> HIDE DEF n, buf
<1>12. call.start + n \in Nat /\ call.left - n \in Nat /\ call.left - n <= call.count
       /\ call.start + n = call.sector + call.count - (call.left - n)
       /\ (call.start + n) - call.sector = (call.start - call.sector) + n
  BY Z3T(20), SMTT(20), <1>3, <1>4
<1>13. buf \in UNION {[1 .. k -> Data] : k \in 0 .. MaxCount}
  BY <1>3, <1>5
<1>14. /\ call' \in Calls
       /\ call'.pc = "loop" /\ call'.op = call.op /\ call'.sector = call.sector /\ call'.count = call.count
       /\ call'.buffer = buf /\ call'.start = call.start + n /\ call'.left = call.left - n
       /\ call'.old = call.old
  BY <1>2, <1>6, <1>12, <1>13 DEF Calls
<1>15. TypeOK'
  BY <1>3, <1>5, <1>9, <1>12, <1>14 DEF TypeOK
<1>16. Walk'
  BY <1>14 DEF Walk
<1>17. Progress'
  <2>1. call'.start - call'.sector = (call.start - call.sector) + n
    BY <1>12, <1>14
  <2>2. call'.start <= Length
    BY <1>4, <1>14
  <2>3. call.op = "write" => buf = call.buffer
    BY DEF buf
  <2>4. call'.op = "read" =>
           /\ File' = call'.old
           /\ \A k \in 1 .. call'.start - call'.sector : call'.buffer[k] = call'.old[call'.sector + k - 1]
    BY <1>11, <1>14, <2>1
  <2>5. call'.op = "write" =>
           File' = Device!After(call'.old, call'.sector, call'.start - call'.sector, call'.buffer)
    BY <1>10, <1>14, <2>1, <2>3
  <2> QED BY <2>2, <2>4, <2>5 DEF Progress, Device!After
<1> QED
  BY <1>15, <1>16, <1>17 DEF IInv

\* Every step keeps the invariant.
LEMMA NextInv == IInv /\ [Next]_vars => IInv'
<1> SUFFICES ASSUME IInv, [Next]_vars
             PROVE  IInv'
  OBVIOUS
<1>1. CASE UNCHANGED vars
  BY <1>1 DEF vars, IInv, TypeOK, Walk, Progress, File, Found, Device!After
<1>2. ASSUME NEW op \in {"read", "write"}, NEW sector \in Requested, NEW count \in 0 .. MaxCount,
             NEW buffer \in [1 .. count -> Data], Call(op, sector, count, buffer)
      PROVE  IInv'
  BY <1>2, CallInv
<1>3. CASE NextPart \/ Skip
  BY <1>3, WalkInv
<1>4. CASE Return \/ NotFound
  BY <1>4, IdleInv DEF Return, NotFound, IInv, TypeOK
<1>5. CASE Transfer
  BY <1>5, TransferInv
<1>6. CASE TransferFails
  <2>1. PICK n \in 0 .. Clipped : medium' = IF call.op = "write" THEN Stored(n) ELSE medium
    BY <1>6 DEF TransferFails
  <2>2. TypeOK /\ Walk /\ AtFragment
    BY <1>6 DEF TransferFails, IInv, AtFragment
  <2>3. medium' \in [0 .. bdSectors - 1 -> Data]
    <3>1. CASE call.op = "write"
      BY <2>1, <2>2, <3>1, StoreFile
    <3>2. CASE call.op # "write"
      BY <2>1, <2>2, <3>2 DEF TypeOK
    <3> QED BY <3>1, <3>2
  <2> QED BY <1>6, <2>3, IdleInv DEF TransferFails
<1> QED
  BY <1>1, <1>2, <1>3, <1>4, <1>5, <1>6 DEF Next, Step

\* The invariant holds before the first call.
LEMMA InitInv == Init => IInv
BY Z3T(20), SMTT(20) DEF Init, IInv, TypeOK, Walk, Progress

\* A request inside the file is not refused for want of a fragment: a walk that has
\* passed all fragments looks for a sector beyond them.
LEMMA InsideIsFound == IInv => FoundInside
<1> SUFFICES ASSUME IInv, call.pc = "locate", call.i > fragcount
             PROVE  call.sector + call.count > Length
  BY DEF FoundInside
<1>1. /\ call.left \in 0 .. call.count /\ call.count \in Nat /\ call.sector \in Nat /\ call.start \in Nat
      /\ call.start = call.sector + call.count - call.left /\ call.i \in Nat
  BY Z3T(20), SMTT(20), CallTyped, BdDefragAssumption DEF IInv
<1>2. call.left > 0 /\ call.i = fragcount + 1 /\ call.offset = First[call.i] /\ call.offset <= call.start
  BY Z3T(20), SMTT(20), <1>1, Lists DEF IInv, Walk
<1>3. Length <= call.start
  BY <1>2 DEF Length
<1> QED BY Z3T(20), SMTT(20), <1>1, <1>2, <1>3, Lists

\* A call stays within its buffer, finds its sectors and has done what it has counted.
THEOREM CallsSound == Spec => []CallSound
<1>1. IInv => CallSound
  BY InsideIsFound DEF IInv, CallSound
<1> QED
  BY <1>1, InitInv, NextInv, PTL DEF Spec

\* Nothing but the file is written: the part of a call is inside its fragment.
THEOREM OthersUntouched == Spec => OnlyTheFile
<1> DEFINE Same == \A p \in 0 .. bdSectors - 1 :
                      (\A i \in Fragments : p \notin Extent(fraglist[i])) => medium'[p] = medium[p]
<1>1. ASSUME IInv, Next
      PROVE  Same
  <2>1. CASE medium' = medium
    BY <2>1
  <2>2. ASSUME AtFragment, NEW n \in 0 .. Clipped, medium' = Stored(n)
        PROVE  Same
    <3> SUFFICES ASSUME NEW p \in 0 .. bdSectors - 1, \A i \in Fragments : p \notin Extent(fraglist[i])
                 PROVE  medium'[p] = medium[p]
      OBVIOUS
    <3> DEFINE i == call.i
               a == At
               k == Clipped
               x == call.start
    <3>1. /\ i \in Fragments /\ First[i] <= x /\ x + k <= First[i + 1]
          /\ a = fraglist[i].sector + (x - First[i]) /\ a \in Nat /\ k \in Nat
      BY Z3T(20), SMTT(20), <1>1, <2>2, PartFits, CallTyped, BdDefragAssumption DEF IInv, AtFragment
    <3>2. x \in Nat
      BY <1>1, <2>2, CallTyped DEF IInv, AtFragment
    <3>3. p \notin Extent(fraglist[i])
      BY <3>1
    <3>4. medium'[p] = IF a <= p /\ p < a + n THEN call.buffer[Pos + p - a + 1] ELSE medium[p]
      BY <2>2 DEF Stored
    <3> HIDE DEF i, a, k, x
    <3>5. n \in Nat /\ n <= k /\ p \in Nat
      BY Z3T(20), SMTT(20), <3>1, BdDefragAssumption DEF k
    <3>6. /\ First[i + 1] = First[i] + fraglist[i].count
          /\ First[i] \in Nat /\ fraglist[i].sector \in Nat /\ fraglist[i].count \in Nat
      BY <3>1, FragmentFacts
    <3>7. ASSUME a <= p, p < a + n
          PROVE  FALSE
      <4>1. fraglist[i].sector <= p /\ p <= fraglist[i].sector + fraglist[i].count - 1
        BY Z3T(20), SMTT(20), <3>1, <3>2, <3>5, <3>6, <3>7
      <4> QED BY Z3T(20), SMTT(20), <3>3, <3>5, <3>6, <4>1 DEF Extent
    <3> QED BY <3>4, <3>7
  <2>3. CASE Transfer
    <3>1. AtFragment /\ Clipped \in 0 .. Clipped
      <4>1. AtFragment
        BY <2>3 DEF Transfer, AtFragment
      <4>2. Clipped \in Nat
        BY Z3T(20), SMTT(20), <1>1, <4>1, PartFits, CallTyped, BdDefragAssumption DEF IInv, AtFragment
      <4> QED BY Z3T(20), SMTT(20), <4>1, <4>2
    <3> QED BY <2>1, <2>2, <2>3, <3>1 DEF Transfer
  <2>4. CASE TransferFails
    <3>1. PICK n \in 0 .. Clipped : medium' = IF call.op = "write" THEN Stored(n) ELSE medium
      BY <2>4 DEF TransferFails
    <3> QED BY <2>1, <2>2, <2>4, <3>1 DEF TransferFails, AtFragment
  <2> QED
    BY <1>1, <2>1, <2>3, <2>4 DEF Next, Step, Call, NextPart, Return, Skip, NotFound
<1>2. IInv /\ [Next]_vars => [Same]_medium
  BY <1>1 DEF vars
<1> QED
  BY <1>2, InitInv, NextInv, PTL DEF Spec, OnlyTheFile

-----------------------------------------------------------------------------
(* The file is a block device. *)

\* The request of the block device is the call that is under way.
LEMMA AskedIsCall ==
    ASSUME IInv, call.pc # "idle"
    PROVE  /\ Asked # Device!NoRequest /\ Asked.op = call.op
           /\ Asked.sector = call.sector /\ Asked.count = call.count
           /\ call.op = "write" => Asked.buffer = call.buffer
<1>1. call.op \in {"read", "write"}
  BY CallTyped DEF IInv
<1>2. CASE call.op = "read"
  <2>1. Asked = [op |-> "read", sector |-> call.sector, count |-> call.count]
    BY <1>2 DEF Asked
  <2>2. Asked.op = "read" /\ Device!NoRequest.op = "none"
    BY <2>1 DEF Device!NoRequest
  <2> QED BY <1>2, <2>1, <2>2
<1>3. CASE call.op = "write"
  <2>1. Asked = [op |-> "write", sector |-> call.sector, count |-> call.count, buffer |-> call.buffer]
    BY <1>3 DEF Asked
  <2>2. Asked.op = "write" /\ Device!NoRequest.op = "none"
    BY <2>1 DEF Device!NoRequest
  <2> QED BY <1>3, <2>1, <2>2
<1> QED BY <1>1, <1>2, <1>3

\* A call that ends with what a block device may answer is a step of one.
LEMMA AnswerRefines ==
    ASSUME IInv, call.pc # "idle", call' = [pc |-> "idle"],
           call.op = "read" => Device!Read(call.sector, call.count),
           call.op = "write" => Device!Write(call.sector, call.count, call.buffer)
    PROVE  Device!Next
<1>1. Asked' = Device!NoRequest
  BY DEF Asked, Device!NoRequest
<1>2. call.op \in {"read", "write"}
  BY CallTyped DEF IInv
<1>3. Device!Answer
  BY <1>1, <1>2, AskedIsCall DEF Device!Answer
<1> QED
  BY <1>3 DEF Device!Next

\* A call that ends with an error has transferred a part of what it was asked for.
LEMMA FailureRefines ==
    ASSUME IInv, call.pc # "idle", call' = [pc |-> "idle"], reply' = Device!Failed,
           NEW k \in 0 .. call.count,
           call.op = "read" => File' = call.old,
           call.op = "write" => File' = Device!After(call.old, call.sector, k, call.buffer)
    PROVE  Device!Next
<1>1. Seen = call.old /\ Seen' = File'
  BY DEF Seen
<1>2. call.op = "read" => Device!Read(call.sector, call.count)
  BY <1>1 DEF Device!Read
<1>3. call.op = "write" => Device!Write(call.sector, call.count, call.buffer)
  BY <1>1 DEF Device!Write
<1> QED
  BY <1>2, <1>3, AnswerRefines

\* A call that ends well has transferred all of it.
LEMMA ReturnRefines ==
    ASSUME IInv, Return
    PROVE  Device!Next
<1> DEFINE b == call.sector
           c == call.count
<1>1. call.pc # "idle" /\ call.left = 0 /\ call' = [pc |-> "idle"] /\ File' = File
  BY DEF Return, File
<1>2. /\ call.buffer \in Device!Buffer(c)
      /\ b \in Nat /\ c \in Nat /\ call.start = b + c - call.left
  BY Z3T(20), SMTT(20), <1>1, CallTyped, BdDefragAssumption DEF IInv, Device!Buffer
<1>3. call.start = b + c /\ call.start - b = c
  BY Z3T(20), SMTT(20), <1>1, <1>2
<1>4. Device!Has(b, c)
  BY Z3T(20), SMTT(20), <1>1, <1>2, <1>3 DEF IInv, Progress, Device!Has
<1>5. Seen = call.old /\ Seen' = File
  BY <1>1 DEF Seen
<1>6. ASSUME call.op = "read" PROVE Device!Read(b, c)
  <2>1. File = call.old /\ \A k \in 1 .. c : call.buffer[k] = call.old[b + k - 1]
    BY <1>1, <1>3, <1>6 DEF IInv, Progress
  <2>2. call.buffer = [k \in 1 .. c |-> call.old[b + k - 1]]
    BY <1>2, <2>1 DEF Device!Buffer
  <2>3. reply' = Device!Stored(Seen, b, c)
    BY <1>5, <1>6, <2>2 DEF Return, Device!Stored
  <2> QED BY <1>4, <1>5, <2>1, <2>3 DEF Device!Read
<1>7. ASSUME call.op = "write" PROVE Device!Write(b, c, call.buffer)
  <2>1. File = Device!After(call.old, b, c, call.buffer) /\ reply' = Device!Wrote
    BY <1>1, <1>3, <1>7 DEF IInv, Progress, Return
  <2> QED BY <1>4, <1>5, <2>1 DEF Device!Write
<1> QED
  BY <1>1, <1>6, <1>7, AnswerRefines

\* Every step is one of a block device or none.
LEMMA StepRefines ==
    ASSUME IInv, [Next]_vars
    PROVE  [Device!Next]_(Device!vars)
<1>1. CASE UNCHANGED vars
  BY <1>1 DEF vars, Device!vars, Seen, File, Asked
<1>2. ASSUME NEW op \in {"read", "write"}, NEW sector \in Requested, NEW count \in 0 .. MaxCount,
             NEW buffer \in [1 .. count -> Data], Call(op, sector, count, buffer)
      PROVE  Device!Next
  <2>1. call.pc = "idle" /\ reply' = Device!Pending /\ Asked = Device!NoRequest
    BY <1>2 DEF Call, Asked, Device!NoRequest
  <2>2. Seen' = Seen
    BY <1>2 DEF Call, Seen
  <2>3. \/ Asked' = Device!ReadOf(sector, count)
        \/ Asked' = Device!WriteOf(sector, count, buffer)
    BY <1>2 DEF Call, Asked, Device!ReadOf, Device!WriteOf
  <2> QED
    BY <2>1, <2>2, <2>3 DEF Device!Next, Device!Ask, Device!Counts, Device!Buffer
<1>3. CASE NextPart \/ Skip \/ Transfer
  <2>1. call \in Calls /\ call.pc # "idle"
    BY <1>3, CallTyped DEF NextPart, Skip, Transfer, IInv
  <2>2. /\ call'.pc # "idle" /\ call'.old = call.old /\ reply' = reply
        /\ call'.op = call.op /\ call'.sector = call.sector /\ call'.count = call.count
        /\ call.op # "read" => call'.buffer = call.buffer
    BY <1>3, <2>1 DEF NextPart, Skip, Transfer, Calls
  <2>3. Asked' = Asked
    BY <2>1, <2>2 DEF Asked
  <2> QED BY <2>1, <2>2, <2>3 DEF Device!vars, Seen
<1>4. CASE Return
  BY <1>4, ReturnRefines
<1>5. CASE NotFound
  <2>1. call.pc # "idle" /\ call' = [pc |-> "idle"] /\ reply' = Device!Failed /\ File' = File
    BY <1>5 DEF NotFound, File
  <2>2. call.start - call.sector \in 0 .. call.count
    <3>1. /\ call.left \in 0 .. call.count /\ call.count \in Nat /\ call.sector \in Nat
          /\ call.start = call.sector + call.count - call.left
      BY Z3T(20), SMTT(20), <2>1, CallTyped, BdDefragAssumption DEF IInv
    <3> QED BY Z3T(20), SMTT(20), <3>1
  <2>3. /\ call.op = "read" => File = call.old
        /\ call.op = "write" => File = Device!After(call.old, call.sector, call.start - call.sector, call.buffer)
    BY <2>1 DEF IInv, Progress
  <2> QED BY <2>1, <2>2, <2>3, FailureRefines
<1>6. CASE TransferFails
  <2>1. PICK n \in 0 .. Clipped : medium' = IF call.op = "write" THEN Stored(n) ELSE medium
    BY <1>6 DEF TransferFails
  <2>2. TypeOK /\ Walk /\ Progress /\ AtFragment /\ call.pc # "idle"
    BY <1>6 DEF TransferFails, IInv, AtFragment
  <2>3. call' = [pc |-> "idle"] /\ reply' = Device!Failed
    BY <1>6 DEF TransferFails
  <2>4. (call.start - call.sector) + n \in 0 .. call.count
    <3>1. /\ Clipped \in 1 .. call.left /\ call.left \in 0 .. call.count /\ call.count \in Nat
          /\ call.sector \in Nat /\ call.start = call.sector + call.count - call.left
      BY Z3T(20), SMTT(20), <2>2, PartFits, CallTyped, BdDefragAssumption
    <3> QED BY Z3T(20), SMTT(20), <3>1
  <2>5. call.op = "write" => File' = Device!After(call.old, call.sector, (call.start - call.sector) + n, call.buffer)
    BY <2>1, <2>2, WriteGrows
  <2>6. call.op = "read" => File' = call.old
    <3> HAVE call.op = "read"
    <3>1. File' = File
      BY <2>1 DEF File
    <3> QED BY <2>2, <3>1 DEF Progress
  <2> QED BY <2>2, <2>3, <2>4, <2>5, <2>6, FailureRefines
<1> QED
  BY <1>1, <1>2, <1>3, <1>4, <1>5, <1>6 DEF Next, Step

\* A file read and written by its fragments implements a block device, and no sector
\* outside the fragments is written.
THEOREM FileImplementsDevice == Spec => FileIsDevice
<1>1. Init => Device!Init
  <2> SUFFICES ASSUME Init
               PROVE  Device!Init
    OBVIOUS
  <2>1. Seen \in [0 .. Length - 1 -> Data]
    BY FileTyped DEF Init, Seen
  <2>2. Asked = Device!NoRequest
    BY DEF Init, Asked, Device!NoRequest
  <2> QED BY <2>1, <2>2 DEF Init, Device!Init, Device!Sectors
<1> QED
  BY <1>1, InitInv, NextInv, StepRefines, OthersUntouched, PTL DEF Spec, FileIsDevice, Device!Spec
=============================================================================
