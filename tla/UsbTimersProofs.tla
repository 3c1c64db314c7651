-------------------------- MODULE UsbTimersProofs --------------------------
(***************************************************************************)
(* What the timer list of usbd does to the delays its callers ask for,     *)
(* for any number of timers and any delays.                                *)
(***************************************************************************)
EXTENDS UsbTimers, TLAPS

\* Most leaves are first-order. Those with arithmetic or records name Z3 and SMT,
\* two encodings, of which the second is tried where the first fails.
USE ZenonT(60)

-----------------------------------------------------------------------------
(* The inductive invariant *)

Positions == 1 .. Len(list)

\* no timer is in the list twice, and the active ones are those in the list
\* and the one that is being added
Members ==
    /\ \A i, j \in Positions : list[i] = list[j] => i = j
    /\ \A t \in Timers : isActive[t] <=> Listed(t) \/ (cpu.pc = "add" /\ cpu.timer = t)
    /\ cpu.pc = "add" => ~Listed(cpu.timer)

\* wait is the sum of the delays up to a timer
Chain ==
    /\ list # <<>> => wait[list[1]] = delayCount[list[1]]
    /\ \A i \in Positions : i > 1 => wait[list[i]] = wait[list[i - 1]] + delayCount[list[i]]
    /\ \A i, j \in Positions : i <= j => wait[list[i]] <= wait[list[j]]

\* the next tick counts for nobody
Idles == IF cpu.pc # "expire" /\ list # <<>> /\ delayCount[list[1]] = 0 THEN 1 ELSE 0

\* what the list makes of the delays asked for
Delayed ==
    \A i \in Positions :
       /\ wait[list[i]] + Idles <= left[list[i]] + 1
       /\ list[i] \notin hastened => wait[list[i]] >= left[list[i]]

\* what addTimerCallback has subtracted so far
Walking ==
    cpu.pc = "add" =>
       left[cpu.timer] = cpu.delay + (IF cpu.pos = 1 THEN 0 ELSE wait[list[cpu.pos - 1]])

\* a timer due earlier is earlier in the list
Ordered ==
    \A p \in before : \E i \in Positions :
       /\ list[i] = p[1]
       /\ \/ \E j \in Positions : i < j /\ list[j] = p[2]
          \/ cpu.pc = "add" /\ cpu.timer = p[2] /\ wait[p[1]] < left[p[2]]

IInv == TypeOK /\ Members /\ Chain /\ Delayed /\ Walking /\ Ordered

-----------------------------------------------------------------------------
(* The list operations, element by element *)

\* What concatenation holds.
LEMMA ConcatElements ==
    ASSUME NEW S, NEW s \in Seq(S), NEW t \in Seq(S)
    PROVE  /\ s \o t \in Seq(S)
           /\ Len(s \o t) = Len(s) + Len(t)
           /\ \A i \in 1 .. Len(s) : (s \o t)[i] = s[i]
           /\ \A i \in Len(s) + 1 .. Len(s) + Len(t) : (s \o t)[i] = t[i - Len(s)]
BY Z3T(20), SMTT(20)

\* What a part of a sequence holds.
LEMMA SubSeqElements ==
    ASSUME NEW S, NEW s \in Seq(S), NEW m \in 1 .. Len(s) + 1, NEW n \in m - 1 .. Len(s)
    PROVE  /\ SubSeq(s, m, n) \in Seq(S)
           /\ Len(SubSeq(s, m, n)) = n - m + 1
           /\ \A i \in 1 .. n - m + 1 : SubSeq(s, m, n)[i] = s[m + i - 1]
BY Z3T(20), SMTT(20)

\* Linking a timer in before position k.
LEMMA InsertAtElements ==
    ASSUME NEW S, NEW s \in Seq(S), NEW k \in 1 .. Len(s) + 1, NEW e \in S
    PROVE  /\ InsertAt(s, k, e) \in Seq(S)
           /\ Len(InsertAt(s, k, e)) = Len(s) + 1
           /\ \A i \in 1 .. Len(s) + 1 :
                 InsertAt(s, k, e)[i] = IF i < k THEN s[i] ELSE IF i = k THEN e ELSE s[i - 1]
<1> DEFINE a == SubSeq(s, 1, k - 1)
           b == SubSeq(s, k, Len(s))
<1>1. a \in Seq(S) /\ Len(a) = k - 1 /\ \A i \in 1 .. k - 1 : a[i] = s[i]
  <2>1. 1 \in 1 .. Len(s) + 1 /\ k - 1 \in 1 - 1 .. Len(s) /\ k - 1 - 1 + 1 = k - 1
    BY Z3T(20), SMTT(20)
  <2> QED BY Z3T(20), SMTT(20), <2>1, SubSeqElements
<1>2. b \in Seq(S) /\ Len(b) = Len(s) - k + 1 /\ \A i \in 1 .. Len(s) - k + 1 : b[i] = s[k + i - 1]
  BY Z3T(20), SMTT(20), SubSeqElements
<1> HIDE DEF a, b
<1> DEFINE c == a \o <<e>>
<1>3. InsertAt(s, k, e) = c \o b
  BY DEF InsertAt, a, b
<1>4. <<e>> \in Seq(S) /\ Len(<<e>>) = 1 /\ <<e>>[1] = e
  BY Z3T(20), SMTT(20)
<1>5. c \in Seq(S) /\ Len(c) = k /\ \A i \in 1 .. k : c[i] = IF i < k THEN s[i] ELSE e
  BY Z3T(20), SMTT(20), <1>1, <1>4, ConcatElements
<1> HIDE DEF c
<1>6. /\ c \o b \in Seq(S)
      /\ Len(c \o b) = Len(c) + Len(b)
      /\ \A i \in 1 .. Len(c) : (c \o b)[i] = c[i]
      /\ \A i \in Len(c) + 1 .. Len(c) + Len(b) : (c \o b)[i] = b[i - Len(c)]
  BY <1>2, <1>5, ConcatElements
<1>7. Len(c) + Len(b) = Len(s) + 1
  BY Z3T(20), SMTT(20), <1>2, <1>5
<1>8. ASSUME NEW i \in 1 .. Len(s) + 1
      PROVE  (c \o b)[i] = IF i < k THEN s[i] ELSE IF i = k THEN e ELSE s[i - 1]
  <2>1. CASE i <= k
    BY Z3T(20), SMTT(20), <2>1, <1>5, <1>6
  <2>2. CASE i > k
    <3>1. i - k \in 1 .. Len(s) - k + 1 /\ k + (i - k) - 1 = i - 1
      BY Z3T(20), SMTT(20), <2>2
    <3>2. b[i - k] = s[i - 1]
      BY <3>1, <1>2
    <3>3. Len(c) = k /\ i \in Len(c) + 1 .. Len(c) + Len(b)
      BY Z3T(20), SMTT(20), <2>2, <1>5, <1>7
    <3>4. (c \o b)[i] = b[i - k]
      BY <3>3, <1>6
    <3>5. ~(i < k) /\ i # k
      BY Z3T(20), SMTT(20), <2>2
    <3> QED BY <3>2, <3>4, <3>5, Zenon
  <2>3. i <= k \/ i > k
    BY Z3T(20), SMTT(20)
  <2> QED BY <2>1, <2>2, <2>3, Zenon
<1> QED BY <1>3, <1>6, <1>7, <1>8

\* Unlinking the timer at position k.
LEMMA RemoveAtElements ==
    ASSUME NEW S, NEW s \in Seq(S), NEW k \in 1 .. Len(s)
    PROVE  /\ RemoveAt(s, k) \in Seq(S)
           /\ Len(RemoveAt(s, k)) = Len(s) - 1
           /\ \A i \in 1 .. Len(s) - 1 :
                 RemoveAt(s, k)[i] = IF i < k THEN s[i] ELSE s[i + 1]
<1> DEFINE a == SubSeq(s, 1, k - 1)
           b == SubSeq(s, k + 1, Len(s))
<1>1. a \in Seq(S) /\ Len(a) = k - 1 /\ \A i \in 1 .. k - 1 : a[i] = s[i]
  <2>1. 1 \in 1 .. Len(s) + 1 /\ k - 1 \in 1 - 1 .. Len(s) /\ k - 1 - 1 + 1 = k - 1
    BY Z3T(20), SMTT(20)
  <2> QED BY Z3T(20), SMTT(20), <2>1, SubSeqElements
<1>2. b \in Seq(S) /\ Len(b) = Len(s) - k /\ \A i \in 1 .. Len(s) - k : b[i] = s[k + i]
  <2>1. /\ k + 1 \in 1 .. Len(s) + 1 /\ Len(s) \in k + 1 - 1 .. Len(s)
        /\ Len(s) - (k + 1) + 1 = Len(s) - k /\ \A i \in Nat : k + 1 + i - 1 = k + i
    BY Z3T(20), SMTT(20)
  <2> DEFINE m == k + 1
             n == Len(s)
  <2>2. m \in 1 .. Len(s) + 1 /\ n \in m - 1 .. Len(s) /\ b = SubSeq(s, m, n)
    BY Z3T(20), SMTT(20)
  <2> HIDE DEF m, n, b
  <2>3. /\ b \in Seq(S) /\ Len(b) = n - m + 1
        /\ \A i \in 1 .. n - m + 1 : b[i] = s[m + i - 1]
    BY <2>2, SubSeqElements
  <2> QED BY Z3T(20), SMTT(20), <2>1, <2>3 DEF m, n
<1> HIDE DEF a, b
<1>3. RemoveAt(s, k) = a \o b
  BY DEF RemoveAt, a, b
<1>4. /\ a \o b \in Seq(S)
      /\ Len(a \o b) = Len(a) + Len(b)
      /\ \A i \in 1 .. Len(a) : (a \o b)[i] = a[i]
      /\ \A i \in Len(a) + 1 .. Len(a) + Len(b) : (a \o b)[i] = b[i - Len(a)]
  BY <1>1, <1>2, ConcatElements
<1>5. Len(a) + Len(b) = Len(s) - 1
  BY Z3T(20), SMTT(20), <1>1, <1>2
<1>6. ASSUME NEW i \in 1 .. Len(s) - 1
      PROVE  (a \o b)[i] = IF i < k THEN s[i] ELSE s[i + 1]
  <2>1. CASE i < k
    BY Z3T(20), SMTT(20), <2>1, <1>1, <1>4
  <2>2. CASE i >= k
    <3>1. i - (k - 1) \in 1 .. Len(s) - k /\ k + (i - (k - 1)) = i + 1
      BY Z3T(20), SMTT(20), <2>2
    <3>2. b[i - (k - 1)] = s[i + 1]
      BY <3>1, <1>2
    <3>3. Len(a) = k - 1 /\ i \in Len(a) + 1 .. Len(a) + Len(b)
      BY Z3T(20), SMTT(20), <2>2, <1>1, <1>5
    <3>4. (a \o b)[i] = b[i - (k - 1)]
      BY <3>3, <1>4
    <3>5. ~(i < k)
      BY Z3T(20), SMTT(20), <2>2
    <3> QED BY <3>2, <3>4, <3>5, Zenon
  <2>3. i < k \/ i >= k
    BY Z3T(20), SMTT(20)
  <2> QED BY <2>1, <2>2, <2>3, Zenon
<1> QED BY <1>3, <1>4, <1>5, <1>6

-----------------------------------------------------------------------------
(* Every action keeps it *)

\* The types of what the list refers to.
LEMMA Typed ==
    ASSUME IInv
    PROVE  /\ Len(list) \in Nat
           /\ \A i \in Positions : list[i] \in Timers
           /\ \A t \in Timers : wait[t] \in Int /\ left[t] \in Int /\ delayCount[t] \in Nat
           /\ \A t \in Timers : Listed(t) <=> \E i \in Positions : list[i] = t
<1>1. list \in Seq(Timers)
  BY DEF IInv, TypeOK
<1>2. Len(list) \in Nat /\ \A i \in Positions : list[i] \in Timers
  BY Z3T(20), SMTT(20), <1>1 DEF Positions
<1> QED BY <1>2 DEF IInv, TypeOK, Listed, Positions

\* An empty list.
LEMMA InitInv == Init => IInv
<1> SUFFICES ASSUME Init PROVE IInv
  OBVIOUS
<1>1. list = <<>> /\ Len(list) = 0 /\ Positions = {} /\ cpu.pc = "idle"
  BY Z3T(20), SMTT(20) DEF Init, Positions, Idle
<1>2. TypeOK
  <2>1. list \in Seq(Timers)
    BY Z3T(20), SMTT(20), <1>1
  <2>2. /\ delayCount \in [Timers -> Nat] /\ isActive \in [Timers -> BOOLEAN]
        /\ left \in [Timers -> Int] /\ wait \in [Timers -> Int]
    BY Z3T(20), SMTT(20) DEF Init
  <2> QED BY <2>1, <2>2 DEF Init, TypeOK
<1>3. Members /\ Chain /\ Delayed /\ Walking /\ Ordered
  BY Z3T(20), SMTT(20), <1>1 DEF Init, Members, Chain, Delayed, Walking, Ordered, Listed
<1> QED BY <1>2, <1>3 DEF IInv

\* A step that leaves the state alone.
LEMMA StutterInv == IInv /\ UNCHANGED vars => IInv'
BY Z3T(20), SMTT(20) DEF IInv, vars, TypeOK, Members, Chain, Delayed, Walking, Ordered, Positions, Listed, Idles

\* addTimerCallback starts.
LEMMA AddInv ==
    ASSUME IInv, NEW t \in Timers, NEW d \in Delays, AddTimerCallback(t, d)
    PROVE  IInv'
<1>1. d \in Nat \ {0}
  BY TimersAssumption
<1>2. /\ cpu.pc = "idle" /\ cpu'.pc = "add" /\ cpu'.timer = t /\ cpu'.pos = 1 /\ cpu'.delay = d
      /\ list' = list /\ delayCount' = delayCount /\ wait' = wait /\ hastened' = hastened
      /\ Positions' = Positions
  BY DEF AddTimerCallback, Idle, Adding, Positions
<1>3. ~Listed(t)
  BY DEF AddTimerCallback, IInv, Members
<1>4. left' = [left EXCEPT ![t] = d] /\ left'[t] = d
      /\ \A u \in Timers : u # t => left'[u] = left[u]
  BY DEF AddTimerCallback, IInv, TypeOK
<1>5. \A i \in Positions : list[i] \in Timers /\ list[i] # t
  BY <1>3, Typed
<1>6. TypeOK'
  <2>1. left' \in [Timers -> Int]
    BY Z3T(20), SMTT(20), <1>1, <1>4 DEF IInv, TypeOK
  <2>2. isActive' \in [Timers -> BOOLEAN] /\ before' \subseteq Timers \X Timers
    BY Z3T(20), SMTT(20) DEF AddTimerCallback, IInv, TypeOK
  <2>3. cpu' = Adding(t, 1, d) /\ 1 \in 1 .. Len(list) + 1
    BY Z3T(20), SMTT(20) DEF AddTimerCallback, IInv, TypeOK
  <2> QED BY <1>1, <1>2, <2>1, <2>2, <2>3 DEF AddTimerCallback, IInv, TypeOK
<1>7. Members'
  <2>1. isActive'[t] /\ \A u \in Timers : u # t => (isActive'[u] <=> isActive[u])
    BY DEF AddTimerCallback, IInv, TypeOK
  <2>2. \A u \in Timers : Listed(u)' <=> Listed(u)
    BY <1>2 DEF Listed
  <2>3. \A u \in Timers : isActive[u] <=> Listed(u)
    BY <1>2 DEF IInv, Members
  <2>4. \A u \in Timers : isActive'[u] <=> Listed(u)' \/ (cpu'.pc = "add" /\ cpu'.timer = u)
    BY <2>1, <2>2, <2>3, <1>2
  <2>5. (cpu.pc = "add" => ~Listed(cpu.timer))'
    BY <1>2, <1>3 DEF Listed
  <2>6. \A i, j \in Positions' : list'[i] = list'[j] => i = j
    BY <1>2 DEF IInv, Members
  <2> QED BY <2>4, <2>5, <2>6 DEF Members
<1>8. Chain'
  BY <1>2 DEF IInv, Chain
<1>9. Delayed'
  BY <1>2, <1>4, <1>5 DEF IInv, Delayed, Idles
<1>10. Walking'
  BY Z3T(20), SMTT(20), <1>1, <1>2, <1>4 DEF Walking
<1>11. Ordered'
  <2> SUFFICES ASSUME NEW p \in before'
               PROVE  \E i \in Positions :
                         /\ list[i] = p[1]
                         /\ \/ \E j \in Positions : i < j /\ list[j] = p[2]
                            \/ t = p[2] /\ wait[p[1]] < left'[p[2]]
    BY <1>2 DEF Ordered
  <2>1. CASE p \in before
    BY <2>1, <1>2 DEF IInv, Ordered
  <2>2. CASE p \notin before
    <3>1. PICK u \in Timers : p = <<u, t>> /\ Listed(u) /\ left[u] + 1 < d
      BY <2>2 DEF AddTimerCallback
    <3>2. PICK i \in Positions : list[i] = u
      BY <3>1 DEF Listed, Positions
    <3>3. wait[u] <= left[u] + 1
      <4>1. wait[u] + Idles <= left[u] + 1 /\ Idles \in {0, 1}
        BY <3>2 DEF IInv, Delayed, Idles
      <4> QED BY Z3T(20), SMTT(20), <4>1, Typed
    <3>4. wait[u] < d
      BY Z3T(20), SMTT(20), <3>1, <3>3, <1>1 DEF IInv, TypeOK
    <3> QED BY <3>1, <3>2, <3>4, <1>4
  <2> QED BY <2>1, <2>2
<1> QED BY <1>6, <1>7, <1>8, <1>9, <1>10, <1>11 DEF IInv

\* addTimerCallback goes past a timer.
LEMMA NextPosInv == ASSUME IInv, NextPos PROVE IInv'
<1> DEFINE x == list[cpu.pos]
<1>1. /\ cpu.pc = "add" /\ cpu.pos \in Positions /\ x \in Timers
      /\ cpu.delay > delayCount[x] /\ cpu.delay \in Nat /\ delayCount[x] \in Nat
  BY Z3T(20), SMTT(20) DEF NextPos, Later, IInv, TypeOK, Positions, Idle, Expiring
<1>2. /\ cpu'.pc = "add" /\ cpu'.timer = cpu.timer /\ cpu'.pos = cpu.pos + 1
      /\ cpu'.delay = cpu.delay - delayCount[x]
  BY DEF NextPos, Adding
<1>3. /\ list' = list /\ delayCount' = delayCount /\ wait' = wait /\ hastened' = hastened
      /\ left' = left /\ before' = before /\ isActive' = isActive /\ Positions' = Positions
  BY DEF NextPos, Positions
<1> HIDE DEF x
<1>4. cpu.timer \in Timers
  BY Z3T(20), SMTT(20), <1>1 DEF IInv, TypeOK, Idle, Expiring
<1>5. TypeOK'
  <2>1. cpu'.delay \in Nat \ {0} /\ cpu'.pos \in 1 .. Len(list) + 1
    BY Z3T(20), SMTT(20), <1>1, <1>2 DEF Positions
  <2>2. cpu' = Adding(cpu'.timer, cpu'.pos, cpu'.delay)
    BY <1>2 DEF NextPos, x
  <2> QED BY <2>1, <2>2, <1>2, <1>3, <1>4 DEF IInv, TypeOK, NextPos
<1>6. Members' /\ Chain'
  BY <1>1, <1>2, <1>3 DEF IInv, Members, Chain, Listed
<1>7. Delayed'
  BY <1>1, <1>2, <1>3 DEF IInv, Delayed, Idles
<1>8. Ordered'
  BY <1>1, <1>2, <1>3 DEF IInv, Ordered
<1>9. Walking'
  <2>1. wait[x] = delayCount[x] + (IF cpu.pos = 1 THEN 0 ELSE wait[list[cpu.pos - 1]])
    <3>1. CASE cpu.pos = 1
      <4>1. list # <<>>
        BY Z3T(20), SMTT(20), <1>1 DEF Positions
      <4>2. wait[x] = delayCount[x]
        BY <3>1, <4>1 DEF IInv, Chain, x
      <4> QED BY Z3T(20), SMTT(20), <3>1, <4>2, <1>1
    <3>2. CASE cpu.pos # 1
      <4>1. cpu.pos > 1
        BY Z3T(20), SMTT(20), <3>2, <1>1 DEF Positions
      <4>2. wait[x] = wait[list[cpu.pos - 1]] + delayCount[x]
        BY <4>1, <1>1 DEF IInv, Chain, x
      <4>3. list[cpu.pos - 1] \in Timers
        BY Z3T(20), SMTT(20), <4>1, <1>1, Typed DEF Positions
      <4>4. wait[list[cpu.pos - 1]] \in Int
        BY <4>3, Typed
      <4> QED BY Z3T(20), SMTT(20), <3>2, <4>2, <4>4, <1>1
    <3> QED BY <3>1, <3>2
  <2>2. left[cpu.timer] = cpu.delay + (IF cpu.pos = 1 THEN 0 ELSE wait[list[cpu.pos - 1]])
    BY <1>1 DEF IInv, Walking
  <2>3. wait[x] \in Int /\ left[cpu.timer] \in Int
    BY <1>1, <1>4 DEF IInv, TypeOK
  <2>4. left[cpu.timer] = (cpu.delay - delayCount[x]) + wait[x]
    <3> DEFINE w == IF cpu.pos = 1 THEN 0 ELSE wait[list[cpu.pos - 1]]
    <3>1. w \in Int
      <4>1. cpu.pos # 1 => cpu.pos - 1 \in Positions
        BY Z3T(20), SMTT(20), <1>1 DEF Positions
      <4> QED BY Z3T(20), SMTT(20), <4>1, Typed
    <3>2. wait[x] = delayCount[x] + w /\ left[cpu.timer] = cpu.delay + w
      BY <2>1, <2>2
    <3> HIDE DEF w
    <3> QED BY Z3T(20), SMTT(20), <3>1, <3>2, <2>3, <1>1
  <2>5. cpu'.pos # 1 /\ cpu'.pos - 1 = cpu.pos
    BY Z3T(20), SMTT(20), <1>1, <1>2 DEF Positions
  <2> QED BY <2>4, <2>5, <1>2, <1>3 DEF Walking, x
<1> QED BY <1>5, <1>6, <1>7, <1>8, <1>9 DEF IInv

\* addTimerCallback links the timer in.
LEMMA InsertInv == ASSUME IInv, InsertTimer PROVE IInv'
<1> DEFINE n == Len(list)
           k == cpu.pos
           t == cpu.timer
           d == cpu.delay
           w == IF k = 1 THEN 0 ELSE wait[list[k - 1]]
<1>1. /\ cpu.pc = "add" /\ k \in 1 .. n + 1 /\ t \in Timers /\ d \in Nat \ {0} /\ n \in Nat
      /\ list \in Seq(Timers)
  BY Z3T(20), SMTT(20) DEF InsertTimer, IInv, TypeOK, Idle, Expiring
<1>2. /\ list' = InsertAt(list, k, t) /\ sof' = TRUE /\ cpu' = Idle /\ cpu'.pc = "idle"
      /\ wait' = [wait EXCEPT ![t] = w + d]
      /\ isActive' = isActive /\ left' = left /\ hastened' = hastened /\ before' = before
  BY DEF InsertTimer, Idle
<1>3. delayCount' = [u \in Timers |->
          IF u = t THEN d
          ELSE IF k <= n /\ u = list[k] THEN delayCount[u] - d ELSE delayCount[u]]
  BY DEF InsertTimer
<1>4. k \in Positions => d <= delayCount[list[k]]
  BY Z3T(20), SMTT(20), <1>1, Typed DEF InsertTimer, Later, Positions
<1>5. \A i \in Positions : list[i] \in Timers /\ list[i] # t
  BY <1>1, Typed DEF IInv, Members
<1>6. w \in Int
  <2>1. k # 1 => k - 1 \in Positions
    BY Z3T(20), SMTT(20), <1>1 DEF Positions
  <2> QED BY Z3T(20), SMTT(20), <2>1, Typed
<1>7. left[t] = d + w
  BY <1>1 DEF IInv, Walking
<1> HIDE DEF n, k, t, d
<1>8. /\ list' \in Seq(Timers) /\ Len(list') = n + 1 /\ Positions' = 1 .. n + 1
      /\ \A i \in 1 .. n + 1 : list'[i] = IF i < k THEN list[i] ELSE IF i = k THEN t ELSE list[i - 1]
  <2>1. /\ InsertAt(list, k, t) \in Seq(Timers) /\ Len(InsertAt(list, k, t)) = n + 1
        /\ \A i \in 1 .. n + 1 : InsertAt(list, k, t)[i] =
              IF i < k THEN list[i] ELSE IF i = k THEN t ELSE list[i - 1]
    BY Z3T(20), SMTT(20), <1>1, InsertAtElements DEF n
  <2>2. list' = InsertAt(list, k, t)
    BY <1>2
  <2> HIDE <1>1, <1>2
  <2> QED BY <2>1, <2>2, Zenon DEF Positions
<1>9. /\ \A i \in 1 .. n + 1 : i < k => i \in Positions /\ list'[i] = list[i]
      /\ k \in 1 .. n + 1 /\ list'[k] = t
      /\ \A i \in 1 .. n + 1 : i > k => i - 1 \in Positions /\ list'[i] = list[i - 1]
  BY Z3T(20), SMTT(20), <1>1, <1>8 DEF Positions, n
<1>9a. ASSUME NEW i \in Positions, i >= k
       PROVE  i + 1 \in 1 .. n + 1 /\ list'[i + 1] = list[i]
  <2> DEFINE x == i + 1
  <2>1. x \in 1 .. n + 1 /\ x > k /\ x - 1 = i
    BY Z3T(20), SMTT(20), <1>9a, <1>1 DEF Positions, n
  <2> HIDE DEF x
  <2>2. list'[x] = list[x - 1]
    BY <2>1, <1>9
  <2> QED BY <2>1, <2>2 DEF x
<1>10. /\ wait'[t] = w + d
       /\ \A u \in Timers : u # t => wait'[u] = wait[u]
       /\ \A u \in Timers : wait[u] \in Int /\ left[u] \in Int
  BY <1>1, <1>2, Typed DEF IInv, TypeOK
<1>11. \A i, j \in Positions : list[i] = list[j] => i = j
  BY DEF IInv, Members
<1>12. /\ delayCount'[t] = d
       /\ k \in Positions => delayCount'[list[k]] = delayCount[list[k]] - d
       /\ \A i \in Positions : i # k => delayCount'[list[i]] = delayCount[list[i]]
  BY Z3T(20), SMTT(20), <1>1, <1>3, <1>5, <1>11 DEF Positions, n
<1>13. \A i \in Positions : i < k => wait[list[i]] <= w
  <2> SUFFICES ASSUME NEW i \in Positions, i < k PROVE wait[list[i]] <= w
    OBVIOUS
  <2>1. k - 1 \in Positions /\ i <= k - 1 /\ k # 1
    BY Z3T(20), SMTT(20), <1>1 DEF Positions, n
  <2> QED BY <2>1 DEF IInv, Chain
<1>14. k \in Positions => wait[list[k]] = w + delayCount[list[k]]
  <2> SUFFICES ASSUME k \in Positions PROVE wait[list[k]] = w + delayCount[list[k]]
    OBVIOUS
  <2>1. list[k] \in Timers /\ delayCount[list[k]] \in Nat
    BY Typed
  <2>2. CASE k = 1
    <3>1. list # <<>>
      BY Z3T(20), SMTT(20), <1>1 DEF Positions, n
    <3> QED BY Z3T(20), SMTT(20), <2>1, <2>2, <3>1 DEF IInv, Chain
  <2>3. CASE k # 1
    <3>1. k > 1
      BY Z3T(20), SMTT(20), <2>3, <1>1
    <3> QED BY <3>1, <2>3 DEF IInv, Chain
  <2> QED BY <2>2, <2>3
<1> HIDE DEF w
<1>15. \A i \in Positions : i >= k => w + d <= wait[list[i]]
  <2> SUFFICES ASSUME NEW i \in Positions, i >= k PROVE w + d <= wait[list[i]]
    OBVIOUS
  <2>1. k \in Positions
    BY Z3T(20), SMTT(20), <1>1 DEF Positions, n
  <2>2. wait[list[k]] <= wait[list[i]]
    BY <2>1 DEF IInv, Chain
  <2>3. w + d <= wait[list[k]]
    BY Z3T(20), SMTT(20), <2>1, <1>1, <1>4, <1>6, <1>14, Typed
  <2> QED BY Z3T(20), SMTT(20), <2>1, <2>2, <2>3, <1>1, <1>6, Typed
<1>16. TypeOK'
  <2>1. delayCount' \in [Timers -> Nat]
    <3>1. ASSUME NEW u \in Timers
          PROVE  (IF u = t THEN d ELSE IF k <= n /\ u = list[k] THEN delayCount[u] - d
                  ELSE delayCount[u]) \in Nat
      BY Z3T(20), SMTT(20), <1>1, <1>4, Typed DEF Positions, n
    <3> QED BY <1>3, <3>1
  <2>2. wait' \in [Timers -> Int]
    BY Z3T(20), SMTT(20), <1>1, <1>2, <1>6 DEF IInv, TypeOK
  <2> QED BY <2>1, <2>2, <1>2, <1>8 DEF IInv, TypeOK
<1>17. Members'
  <2>1. ASSUME NEW u \in Timers
        PROVE  Listed(u)' <=> u = t \/ Listed(u)
    <3>1. Listed(u) => Listed(u)'
      <4>1. ASSUME NEW i \in Positions, list[i] = u PROVE Listed(u)'
        <5>1. CASE i < k
          BY Z3T(20), SMTT(20), <5>1, <4>1, <1>1, <1>8 DEF Listed, Positions, n
        <5>2. CASE i >= k
          BY <5>2, <4>1, <1>8, <1>9a DEF Listed
        <5> QED BY Z3T(20), SMTT(20), <5>1, <5>2, <1>1 DEF Positions
      <4> QED BY <4>1, Typed
    <3>2. u = t => Listed(u)'
      BY <1>8, <1>9 DEF Listed
    <3>3. Listed(u)' => u = t \/ Listed(u)
      <4>1. ASSUME NEW i \in 1 .. n + 1, list'[i] = u PROVE u = t \/ Listed(u)
        <5>1. CASE i = k
          BY <5>1, <4>1, <1>9
        <5>2. CASE i < k
          BY <5>2, <4>1, <1>9, Typed
        <5>3. CASE i > k
          BY <5>3, <4>1, <1>9, Typed
        <5> QED BY Z3T(20), SMTT(20), <5>1, <5>2, <5>3, <1>1
      <4> QED BY <4>1, <1>8 DEF Listed
    <3> QED BY <3>1, <3>2, <3>3
  <2>2. \A i, j \in Positions' : list'[i] = list'[j] => i = j
    <3> SUFFICES ASSUME NEW i \in 1 .. n + 1, NEW j \in 1 .. n + 1, list'[i] = list'[j]
                 PROVE  i = j
      BY <1>8
    <3> DEFINE a == IF i < k THEN i ELSE i - 1
               b == IF j < k THEN j ELSE j - 1
    <3>1. CASE i = k \/ j = k
      BY Z3T(20), SMTT(20), <3>1, <1>1, <1>5, <1>9
    <3>2. CASE i # k /\ j # k
      <4>1. a \in Positions /\ b \in Positions /\ list'[i] = list[a] /\ list'[j] = list[b]
        BY Z3T(20), SMTT(20), <3>2, <1>1, <1>9
      <4>2. a = b
        BY <4>1, <1>11
      <4> QED BY Z3T(20), SMTT(20), <4>2, <3>2, <1>1
    <3> QED BY <3>1, <3>2
  <2>3. \A u \in Timers : isActive'[u] <=> Listed(u)'
    BY <2>1, <1>1, <1>2 DEF IInv, Members, t
  <2> QED BY <2>2, <2>3, <1>2 DEF Members
<1>18. Chain'
  <2>1. list' # <<>> /\ wait'[list'[1]] = delayCount'[list'[1]]
    <3>1. list' # <<>> /\ 1 \in 1 .. n + 1
      BY Z3T(20), SMTT(20), <1>1, <1>8
    <3>2. CASE k = 1
      <4>1. list'[1] = t /\ w = 0
        BY <3>2, <1>9 DEF w
      <4>2. wait'[t] = d
        BY Z3T(20), SMTT(20), <4>1, <1>1, <1>10
      <4> QED BY <4>1, <4>2, <3>1, <1>12
    <3>3. CASE k # 1
      <4>1. 1 < k /\ 1 \in Positions /\ list'[1] = list[1] /\ list # <<>>
        BY Z3T(20), SMTT(20), <3>3, <3>1, <1>1, <1>9 DEF Positions, n
      <4>2. wait[list[1]] = delayCount[list[1]]
        BY <4>1 DEF IInv, Chain
      <4> QED BY <4>1, <4>2, <3>1, <1>5, <1>10, <1>12, <3>3
    <3> QED BY <3>2, <3>3
  <2>2. ASSUME NEW i \in 1 .. n + 1, i > 1
        PROVE  wait'[list'[i]] = wait'[list'[i - 1]] + delayCount'[list'[i]]
    <3>1. i - 1 \in 1 .. n + 1
      BY Z3T(20), SMTT(20), <2>2, <1>1
    <3>2. CASE i < k
      <4>1. i \in Positions /\ i - 1 \in Positions /\ list'[i] = list[i] /\ list'[i - 1] = list[i - 1] /\ i # k
        BY Z3T(20), SMTT(20), <3>1, <3>2, <1>1, <1>9
      <4>2. wait[list[i]] = wait[list[i - 1]] + delayCount[list[i]]
        BY <4>1, <2>2 DEF IInv, Chain
      <4> QED BY <4>1, <4>2, <1>5, <1>10, <1>12
    <3>3. CASE i = k
      <4>1. i - 1 \in Positions /\ list'[i - 1] = list[i - 1] /\ w = wait[list[k - 1]] /\ list'[i] = t
        BY Z3T(20), SMTT(20), <3>1, <3>3, <2>2, <1>1, <1>9 DEF w
      <4> QED BY <4>1, <3>3, <1>5, <1>10, <1>12
    <3>4. CASE i = k + 1
      <4>1. k \in Positions /\ list'[i] = list[k] /\ list'[i - 1] = t
        BY Z3T(20), SMTT(20), <3>1, <3>4, <1>1, <1>9
      <4>2. delayCount[list[k]] \in Nat
        BY <4>1, Typed
      <4>3. wait[list[k]] = (w + d) + (delayCount[list[k]] - d)
        BY Z3T(20), SMTT(20), <4>1, <4>2, <1>1, <1>6, <1>14
      <4> QED BY <4>1, <4>3, <1>5, <1>10, <1>12
    <3>5. CASE i > k + 1
      <4> DEFINE x == i - 1
                 y == i - 1 - 1
      <4>1. x \in Positions /\ y \in Positions /\ x > 1 /\ x # k /\ y = x - 1 /\ x > k
        BY Z3T(20), SMTT(20), <3>1, <3>5, <1>1 DEF Positions, n
      <4>2. list'[i] = list[x] /\ list'[i - 1] = list[y]
        <5>1. list'[i] = list[x]
          BY Z3T(20), SMTT(20), <3>5, <1>1, <1>9
        <5>2. list'[x] = list[x - 1]
          BY <4>1, <3>1, <1>1, <1>9
        <5> QED BY <5>1, <5>2, <4>1
      <4> HIDE DEF x, y
      <4>3. wait[list[x]] = wait[list[y]] + delayCount[list[x]]
        BY <4>1 DEF IInv, Chain
      <4>4. wait'[list[x]] = wait[list[x]] /\ wait'[list[y]] = wait[list[y]] /\ delayCount'[list[x]] = delayCount[list[x]]
        BY <4>1, <1>5, <1>10, <1>12
      <4> QED BY <4>2, <4>3, <4>4
    <3> QED BY Z3T(20), SMTT(20), <3>2, <3>3, <3>4, <3>5, <1>1
  <2>3. ASSUME NEW i \in 1 .. n + 1, NEW j \in 1 .. n + 1, i <= j
        PROVE  wait'[list'[i]] <= wait'[list'[j]]
    <3> DEFINE a == IF i < k THEN i ELSE i - 1
               b == IF j < k THEN j ELSE j - 1
    <3>1. CASE i = k /\ j = k
      BY Z3T(20), SMTT(20), <3>1, <1>1, <1>6, <1>9, <1>10
    <3>2. CASE i = k /\ j > k
      <4>1. j - 1 \in Positions /\ j - 1 >= k /\ list'[j] = list[j - 1] /\ list'[i] = t
        BY Z3T(20), SMTT(20), <3>2, <1>1, <1>9
      <4> QED BY <4>1, <1>5, <1>10, <1>15
    <3>3. CASE i < k /\ j = k
      <4>1. i \in Positions /\ list'[i] = list[i] /\ list'[j] = t
        BY <3>3, <1>1, <1>9
      <4>2. wait[list[i]] <= w /\ wait[list[i]] \in Int
        BY <4>1, <3>3, <1>13, <1>5, Typed
      <4> QED BY Z3T(20), SMTT(20), <4>1, <4>2, <1>1, <1>5, <1>6, <1>10
    <3>4. CASE i # k /\ j # k
      <4>1. a \in Positions /\ b \in Positions /\ a <= b /\ list'[i] = list[a] /\ list'[j] = list[b]
        BY Z3T(20), SMTT(20), <3>4, <2>3, <1>1, <1>9
      <4>2. wait[list[a]] <= wait[list[b]]
        BY <4>1 DEF IInv, Chain
      <4> QED BY <4>1, <4>2, <1>5, <1>10
    <3> QED BY Z3T(20), SMTT(20), <3>1, <3>2, <3>3, <3>4, <2>3, <1>1
  <2> QED BY <2>1, <2>2, <2>3, <1>8 DEF Chain
<1>19. Idles' <= Idles /\ Idles' \in {0, 1} /\ Idles \in {0, 1}
       /\ (Idles' = 1 => k # 1)
  <2>1. CASE k = 1
    <3>1. list'[1] = t
      BY <2>1, <1>9
    <3>2. delayCount'[t] # 0
      BY <1>1, <1>12
    <3> QED BY Z3T(20), SMTT(20), <3>1, <3>2 DEF Idles
  <2>2. CASE k # 1
    <3>1. 1 \in Positions /\ 1 < k /\ list'[1] = list[1] /\ list # <<>>
      BY Z3T(20), SMTT(20), <2>2, <1>1, <1>8 DEF Positions, n
    <3>2. delayCount'[list[1]] = delayCount[list[1]]
      BY Z3T(20), SMTT(20), <3>1, <1>12
    <3> QED BY Z3T(20), SMTT(20), <3>1, <3>2, <1>1, <1>2, <2>2 DEF Idles
  <2> QED BY <2>1, <2>2
<1>20. Delayed'
  <2> SUFFICES ASSUME NEW i \in 1 .. n + 1
               PROVE  /\ wait'[list'[i]] + Idles' <= left[list'[i]] + 1
                      /\ list'[i] \notin hastened => wait'[list'[i]] >= left[list'[i]]
    BY <1>2, <1>8 DEF Delayed
  <2> DEFINE a == IF i < k THEN i ELSE i - 1
  <2>1. CASE i = k
    <3>1. list'[i] = t /\ wait'[t] = w + d /\ left[t] = w + d
      BY Z3T(20), SMTT(20), <2>1, <1>1, <1>6, <1>7, <1>9, <1>10
    <3>2. w + d + Idles' <= w + d + 1 /\ w + d >= w + d
      <4>1. d \in Int /\ w \in Int
        BY Z3T(20), SMTT(20), <1>1, <1>6
      <4>2. Idles' = 0 \/ Idles' = 1
        BY <1>19
      <4> QED BY Z3T(20), SMTT(20), <4>1, <4>2
    <3> QED BY <3>1, <3>2
  <2>2. CASE i # k
    <3>1. a \in Positions /\ list'[i] = list[a] /\ wait'[list[a]] = wait[list[a]]
      <4>1. CASE i < k
        BY <4>1, <1>5, <1>9, <1>10
      <4>2. CASE i > k
        BY <4>2, <1>1, <1>5, <1>9, <1>10
      <4> QED BY Z3T(20), SMTT(20), <4>1, <4>2, <2>2, <1>1
    <3> HIDE DEF a
    <3>2. /\ wait[list[a]] + Idles <= left[list[a]] + 1
          /\ list[a] \notin hastened => wait[list[a]] >= left[list[a]]
      BY <3>1 DEF IInv, Delayed
    <3>3. wait[list[a]] \in Int /\ left[list[a]] \in Int
      BY <3>1, Typed
    <3> QED BY Z3T(20), SMTT(20), <3>1, <3>2, <3>3, <1>19
  <2> QED BY <2>1, <2>2
<1>21. Walking'
  BY <1>2 DEF Walking
<1>22. Ordered'
  <2> SUFFICES ASSUME NEW p \in before
               PROVE  \E i, j \in 1 .. n + 1 : list'[i] = p[1] /\ i < j /\ list'[j] = p[2]
    BY <1>2, <1>8 DEF Ordered
  <2>1. PICK i \in Positions :
           /\ list[i] = p[1]
           /\ \/ \E j \in Positions : i < j /\ list[j] = p[2]
              \/ cpu.timer = p[2] /\ wait[p[1]] < left[p[2]]
    BY DEF IInv, Ordered
  <2> DEFINE up(x) == IF x < k THEN x ELSE x + 1
  <2>2. ASSUME NEW x \in Positions
        PROVE  up(x) \in 1 .. n + 1 /\ list'[up(x)] = list[x]
    <3>1. CASE x < k
      BY Z3T(20), SMTT(20), <3>1, <1>1, <1>9 DEF Positions, n
    <3>2. CASE x >= k
      BY Z3T(20), SMTT(20), <3>2, <1>1, <1>9a DEF Positions, n
    <3> QED BY Z3T(20), SMTT(20), <3>1, <3>2, <1>1 DEF Positions
  <2>3. CASE \E j \in Positions : i < j /\ list[j] = p[2]
    <3>1. PICK j \in Positions : i < j /\ list[j] = p[2]
      BY <2>3
    <3>2. up(i) < up(j)
      BY Z3T(20), SMTT(20), <3>1, <1>1 DEF Positions, n
    <3> QED BY Z3T(20), SMTT(20), <3>1, <3>2, <2>1, <2>2
  <2>4. CASE cpu.timer = p[2] /\ wait[p[1]] < left[p[2]]
    <3>1. wait[list[i]] < d + w /\ t = p[2]
      BY <2>1, <2>4, <1>7 DEF t
    <3>2. i < k
      <4>1. ~(i >= k)
        BY Z3T(20), SMTT(20), <3>1, <1>1, <1>6, <1>15, Typed
      <4> QED BY Z3T(20), SMTT(20), <4>1, <1>1 DEF Positions, n
    <3>3. list'[i] = p[1] /\ i \in 1 .. n + 1
      BY Z3T(20), SMTT(20), <3>2, <2>1, <1>9, <1>1 DEF Positions, n
    <3> QED BY <3>1, <3>2, <3>3, <1>9
  <2> QED BY <2>1, <2>3, <2>4
<1> QED BY <1>16, <1>17, <1>18, <1>20, <1>21, <1>22 DEF IInv

\* cancelTimerCallback unlinks a timer.
LEMMA CancelInv ==
    ASSUME IInv, NEW t \in Timers, CancelTimerCallback(t)
    PROVE  IInv'
<1> DEFINE n == Len(list)
           c == delayCount[t]
<1>1. PICK k \in Positions :
         /\ list[k] = t
         /\ list' = RemoveAt(list, k)
         /\ wait' = [u \in Timers |->
                IF \E i \in k + 1 .. n : list[i] = u THEN wait[u] - c ELSE wait[u]]
         /\ hastened' = (hastened \ {t}) \cup {list[i] : i \in k + 1 .. n}
  BY DEF CancelTimerCallback, Positions
<1>2. /\ cpu = Idle /\ cpu' = Idle /\ cpu.pc = "idle" /\ cpu'.pc = "idle"
      /\ isActive' = [isActive EXCEPT ![t] = FALSE] /\ before' = Unlisted(t)
      /\ delayCount' = delayCount /\ sof' = sof /\ left' = left
  BY DEF CancelTimerCallback, Idle
<1>3. /\ n \in Nat /\ k \in 1 .. n /\ c \in Nat /\ list \in Seq(Timers)
  BY <1>1, Typed DEF IInv, TypeOK, Positions
<1> HIDE DEF n, c
<1>4. /\ list' \in Seq(Timers) /\ Len(list') = n - 1 /\ Positions' = 1 .. n - 1
      /\ \A i \in 1 .. n - 1 : list'[i] = IF i < k THEN list[i] ELSE list[i + 1]
  <2>1. /\ RemoveAt(list, k) \in Seq(Timers) /\ Len(RemoveAt(list, k)) = n - 1
        /\ \A i \in 1 .. n - 1 : RemoveAt(list, k)[i] = IF i < k THEN list[i] ELSE list[i + 1]
    BY <1>3, RemoveAtElements DEF n
  <2>2. list' = RemoveAt(list, k)
    BY <1>1
  <2> QED BY <2>1, <2>2, Zenon DEF Positions
<1>5. \A i, j \in Positions : list[i] = list[j] => i = j
  BY DEF IInv, Members
<1>6. \A i \in Positions : wait'[list[i]] = IF i > k THEN wait[list[i]] - c ELSE wait[list[i]]
  <2> SUFFICES ASSUME NEW i \in Positions
               PROVE  wait'[list[i]] = IF i > k THEN wait[list[i]] - c ELSE wait[list[i]]
    OBVIOUS
  <2>1. (\E j \in k + 1 .. n : list[j] = list[i]) <=> i > k
    BY Z3T(20), SMTT(20), <1>3, <1>5 DEF Positions, n
  <2>2. list[i] \in Timers
    BY Typed
  <2> QED BY <2>1, <2>2, <1>1
\* the timer at i was at old(i)
<1> DEFINE old(i) == IF i < k THEN i ELSE i + 1
<1>7. \A i \in 1 .. n - 1 : old(i) \in Positions /\ old(i) # k /\ list'[i] = list[old(i)]
  <2> SUFFICES ASSUME NEW i \in 1 .. n - 1
               PROVE  old(i) \in Positions /\ old(i) # k /\ list'[i] = list[old(i)]
    OBVIOUS
  <2>1. old(i) \in Positions /\ old(i) # k
    BY Z3T(20), SMTT(20), <1>3 DEF Positions, n
  <2>2. list'[i] = list[old(i)]
    BY <1>3, <1>4
  <2> QED BY <2>1, <2>2
<1>7a. \A i \in 1 .. n - 1 :
          /\ list'[i] \in Timers /\ list'[i] # t /\ delayCount[list'[i]] \in Nat
          /\ wait[list'[i]] \in Int /\ left[list'[i]] \in Int
  <2> SUFFICES ASSUME NEW i \in 1 .. n - 1
               PROVE  /\ list'[i] \in Timers /\ list'[i] # t /\ delayCount[list'[i]] \in Nat
                      /\ wait[list'[i]] \in Int /\ left[list'[i]] \in Int
    OBVIOUS
  <2> DEFINE x == old(i)
  <2>1. x \in Positions /\ x # k /\ list'[i] = list[x]
    BY <1>7
  <2> HIDE DEF x
  <2>2. list[x] # t
    BY <2>1, <1>1, <1>5
  <2> QED BY <2>1, <2>2, Typed
<1>7b. \A i \in 1 .. n - 1 :
          wait'[list'[i]] = IF i >= k THEN wait[list'[i]] - c ELSE wait[list'[i]]
  <2> SUFFICES ASSUME NEW i \in 1 .. n - 1
               PROVE  wait'[list'[i]] = IF i >= k THEN wait[list'[i]] - c ELSE wait[list'[i]]
    OBVIOUS
  <2> DEFINE x == old(i)
  <2>1. x \in Positions /\ list'[i] = list[x] /\ (x > k <=> i >= k)
    BY Z3T(20), SMTT(20), <1>3, <1>7
  <2> HIDE DEF x
  <2> QED BY Z3T(20), SMTT(20), <2>1, <1>6
<1>8. TypeOK'
  <2>1. wait' \in [Timers -> Int]
    BY Z3T(20), SMTT(20), <1>1, <1>3, Typed
  <2>2. hastened' \subseteq Timers
    <3>1. \A i \in k + 1 .. n : list[i] \in Timers
      BY Z3T(20), SMTT(20), <1>3, Typed DEF Positions, n
    <3>2. {list[i] : i \in k + 1 .. n} \subseteq Timers
      BY <3>1
    <3> QED BY <3>2, <1>1 DEF IInv, TypeOK
  <2>3. isActive' \in [Timers -> BOOLEAN] /\ before' \subseteq Timers \X Timers
    BY <1>2 DEF IInv, TypeOK, Unlisted
  <2> QED BY <2>1, <2>2, <2>3, <1>2, <1>4 DEF IInv, TypeOK
<1>9. Members'
  <2>1. ASSUME NEW i \in 1 .. n - 1, NEW j \in 1 .. n - 1, list'[i] = list'[j]
        PROVE  i = j
    <3>1. old(i) = old(j)
      <4>1. old(i) \in Positions /\ old(j) \in Positions /\ list[old(i)] = list[old(j)]
        BY <2>1, <1>7
      <4> QED BY <4>1, <1>5
    <3> QED BY Z3T(20), SMTT(20), <3>1, <1>3
  <2>2. ASSUME NEW u \in Timers PROVE Listed(u)' <=> u # t /\ Listed(u)
    <3>1. ASSUME NEW i \in 1 .. n - 1, list'[i] = u PROVE u # t /\ Listed(u)
      <4>1. list'[i] = list[old(i)] /\ old(i) \in Positions /\ u # t
        BY <3>1, <1>7, <1>7a
      <4> HIDE DEF old
      <4> QED BY <4>1, <3>1, Typed
    <3>2. ASSUME NEW j \in Positions, list[j] = u, u # t
          PROVE  \E i \in 1 .. n - 1 : list'[i] = u
      <4>1. CASE j < k
        <5>1. j \in 1 .. n - 1 /\ list'[j] = list[j]
          BY Z3T(20), SMTT(20), <4>1, <1>3, <1>4 DEF Positions, n
        <5> QED BY <5>1, <3>2
      <4>2. CASE j > k
        <5> DEFINE x == j - 1
        <5>1. x \in 1 .. n - 1 /\ ~(x < k) /\ x + 1 = j
          BY Z3T(20), SMTT(20), <4>2, <1>3 DEF Positions, n
        <5> HIDE DEF x
        <5>2. list'[x] = list[x + 1]
          BY <5>1, <1>4
        <5> QED BY <5>1, <5>2, <3>2
      <4>3. j # k
        BY <3>2, <1>1
      <4> QED BY Z3T(20), SMTT(20), <4>1, <4>2, <4>3, <1>3 DEF Positions
    <3> QED BY <3>1, <3>2, <1>4, Typed DEF Listed
  <2>3. \A u \in Timers : isActive'[u] <=> Listed(u)'
    BY <2>2, <1>2 DEF IInv, Members, TypeOK
  <2> QED BY <2>1, <2>3, <1>2, <1>4 DEF Members
<1>10. k > 1 => wait[t] = wait[list[k - 1]] + c
  BY <1>1, <1>3 DEF IInv, Chain, c
<1>11. k = 1 => wait[t] = c
  <2>1. list # <<>>
    BY Z3T(20), SMTT(20), <1>3 DEF n
  <2> QED BY <2>1, <1>1 DEF IInv, Chain, c
<1>12. \A i, j \in Positions : i <= j => wait[list[i]] <= wait[list[j]]
  BY DEF IInv, Chain
<1>13. wait[t] \in Int
  BY Typed
<1>14. Chain'
  <2>1. list' # <<>> => wait'[list'[1]] = delayCount[list'[1]]
    <3> SUFFICES ASSUME list' # <<>> PROVE wait'[list'[1]] = delayCount[list'[1]]
      OBVIOUS
    <3>1. 1 \in 1 .. n - 1
      BY Z3T(20), SMTT(20), <1>3, <1>4
    <3>2. CASE k = 1
      <4>1. list'[1] = list[2] /\ 2 \in Positions
        BY Z3T(20), SMTT(20), <3>1, <3>2, <1>3, <1>4 DEF Positions, n
      <4>2. wait[list[2]] = wait[list[2 - 1]] + delayCount[list[2]]
        BY Z3T(20), SMTT(20), <4>1 DEF IInv, Chain
      <4>3. wait'[list'[1]] = wait[list[2]] - c
        BY Z3T(20), SMTT(20), <4>1, <3>2, <1>6
      <4>4. wait[list[2 - 1]] = c /\ delayCount[list[2]] \in Nat
        BY Z3T(20), SMTT(20), <3>2, <4>1, <1>1, <1>11, Typed
      <4> QED BY Z3T(20), SMTT(20), <4>1, <4>2, <4>3, <4>4, <1>3
    <3>3. CASE k # 1
      <4>1. list'[1] = list[1] /\ 1 \in Positions /\ list # <<>> /\ ~(1 > k)
        BY Z3T(20), SMTT(20), <3>1, <3>3, <1>3, <1>4 DEF Positions, n
      <4>2. wait[list[1]] = delayCount[list[1]]
        BY <4>1 DEF IInv, Chain
      <4> QED BY <4>1, <4>2, <1>6
    <3> QED BY <3>2, <3>3
  <2>2. ASSUME NEW i \in 1 .. n - 1, i > 1
        PROVE  wait'[list'[i]] = wait'[list'[i - 1]] + delayCount[list'[i]]
    <3>1. i - 1 \in 1 .. n - 1
      BY Z3T(20), SMTT(20), <2>2, <1>3
    <3>2. CASE i < k
      <4>1. i \in Positions /\ i - 1 \in Positions /\ list'[i] = list[i] /\ list'[i - 1] = list[i - 1]
            /\ ~(i > k) /\ ~(i - 1 > k)
        BY Z3T(20), SMTT(20), <3>1, <3>2, <1>3, <1>4 DEF Positions, n
      <4>2. wait[list[i]] = wait[list[i - 1]] + delayCount[list[i]]
        BY <4>1, <2>2 DEF IInv, Chain
      <4> QED BY <4>1, <4>2, <1>6
    <3>3. CASE i = k
      <4>1. /\ k + 1 \in Positions /\ k - 1 \in Positions /\ list'[i] = list[k + 1] /\ list'[i - 1] = list[k - 1]
            /\ k + 1 > 1 /\ k + 1 - 1 = k /\ k > 1
        BY Z3T(20), SMTT(20), <3>1, <3>3, <2>2, <1>3, <1>4 DEF Positions, n
      <4>2. wait[list[k + 1]] = wait[list[k]] + delayCount[list[k + 1]]
        <5> DEFINE x == k + 1
        <5>1. x \in Positions /\ x > 1 /\ x - 1 = k
          <6>1. x \in Positions
            BY <4>1, Zenon
          <6>2. x > 1 /\ x - 1 = k
            BY Z3T(20), SMTT(20), <1>3
          <6> QED BY <6>1, <6>2, Zenon
        <5> HIDE DEF x
        <5>2. wait[list[x]] = wait[list[x - 1]] + delayCount[list[x]]
          BY <5>1 DEF IInv, Chain
        <5> QED BY <5>1, <5>2 DEF x
      <4>3. wait'[list[k + 1]] = wait[list[k + 1]] - c /\ wait'[list[k - 1]] = wait[list[k - 1]]
        BY Z3T(20), SMTT(20), <4>1, <1>3, <1>6
      <4>4. /\ wait[list[k + 1]] \in Int /\ wait[list[k - 1]] \in Int
            /\ delayCount[list[k + 1]] \in Nat
        BY <4>1, Typed
      <4>5. wait[list[k]] = wait[list[k - 1]] + c
        BY <4>1, <1>1, <1>10
      <4> DEFINE a == wait[list[k + 1]]
                 b == wait[list[k - 1]]
                 d == delayCount[list[k + 1]]
      <4>6. a \in Int /\ b \in Int /\ d \in Int /\ a = (b + c) + d
        BY Z3T(20), SMTT(20), <4>2, <4>4, <4>5
      <4>7. wait'[list'[i]] = a - c /\ wait'[list'[i - 1]] = b /\ delayCount[list'[i]] = d
        BY <4>1, <4>3
      <4> HIDE DEF a, b, d
      <4>8. a - c = b + d
        BY Z3T(20), SMTT(20), <4>6, <1>3
      <4> QED BY <4>7, <4>8
    <3>4. CASE i > k
      <4>1. /\ i + 1 \in Positions /\ i \in Positions /\ list'[i] = list[i + 1] /\ list'[i - 1] = list[i]
            /\ i + 1 > 1 /\ i + 1 - 1 = i
        BY Z3T(20), SMTT(20), <3>1, <3>4, <1>3, <1>4 DEF Positions, n
      <4>2. wait[list[i + 1]] = wait[list[i]] + delayCount[list[i + 1]]
        BY Z3T(20), SMTT(20), <4>1 DEF IInv, Chain
      <4>3. wait'[list[i + 1]] = wait[list[i + 1]] - c /\ wait'[list[i]] = wait[list[i]] - c
        BY Z3T(20), SMTT(20), <4>1, <3>4, <1>3, <1>6
      <4>4. wait[list[i + 1]] \in Int /\ wait[list[i]] \in Int /\ delayCount[list[i + 1]] \in Nat
        BY <4>1, Typed
      <4> DEFINE a == wait[list[i + 1]]
                 b == wait[list[i]]
                 d == delayCount[list[i + 1]]
      <4>5. a \in Int /\ b \in Int /\ d \in Int /\ a = b + d
        BY Z3T(20), SMTT(20), <4>2, <4>4
      <4>6. wait'[list'[i]] = a - c /\ wait'[list'[i - 1]] = b - c /\ delayCount[list'[i]] = d
        BY <4>1, <4>3
      <4> HIDE DEF a, b, d
      <4>7. a - c = (b - c) + d
        BY Z3T(20), SMTT(20), <4>5, <1>3
      <4> QED BY <4>6, <4>7
    <3> QED BY Z3T(20), SMTT(20), <3>2, <3>3, <3>4, <1>3
  <2>3. ASSUME NEW i \in 1 .. n - 1, NEW j \in 1 .. n - 1, i <= j
        PROVE  wait'[list'[i]] <= wait'[list'[j]]
    <3> DEFINE x == old(i)
               y == old(j)
    <3>1. /\ x \in Positions /\ y \in Positions /\ x <= y /\ list'[i] = list[x] /\ list'[j] = list[y]
          /\ (i < k => x = i) /\ (j >= k => y > k)
      BY Z3T(20), SMTT(20), <2>3, <1>3, <1>7
    <3> HIDE DEF x, y
    <3>2. wait[list'[i]] <= wait[list'[j]]
      BY <3>1, <1>12
    <3>3. wait[list'[i]] \in Int /\ wait[list'[j]] \in Int
      BY <1>7a
    <3>4. CASE j < k
      <4>1. wait'[list'[i]] = wait[list'[i]] /\ wait'[list'[j]] = wait[list'[j]]
        BY Z3T(20), SMTT(20), <3>4, <2>3, <1>3, <1>7b
      <4> QED BY <4>1, <3>2
    <3>5. CASE i >= k
      <4>1. wait'[list'[i]] = wait[list'[i]] - c /\ wait'[list'[j]] = wait[list'[j]] - c
        BY Z3T(20), SMTT(20), <3>5, <2>3, <1>3, <1>7b
      <4> QED BY Z3T(20), SMTT(20), <4>1, <3>2, <3>3, <1>3
    <3>6. CASE i < k /\ j >= k
      <4>1. wait'[list'[i]] = wait[list'[i]] /\ wait'[list'[j]] = wait[list'[j]] - c
        BY Z3T(20), SMTT(20), <3>6, <1>3, <1>7b
      <4>2. k - 1 \in Positions /\ x <= k - 1 /\ k > 1 /\ k <= y
        BY Z3T(20), SMTT(20), <3>1, <3>6, <1>3 DEF Positions, n
      <4>3. wait[list'[i]] <= wait[list[k - 1]] /\ wait[list[k - 1]] \in Int
        BY <4>2, <3>1, <1>12, Typed
      <4>4. wait[t] <= wait[list'[j]]
        BY <4>2, <3>1, <1>1, <1>12
      <4>5. wait[t] = wait[list[k - 1]] + c
        BY <4>2, <1>10
      <4> DEFINE a == wait[list'[i]]
                 b == wait[list'[j]]
                 d == wait[list[k - 1]]
      <4>6. a \in Int /\ b \in Int /\ d \in Int /\ a <= d /\ d + c <= b
        BY <4>3, <4>4, <4>5, <3>3
      <4>7. wait'[list'[i]] = a /\ wait'[list'[j]] = b - c
        BY <4>1
      <4> HIDE DEF a, b, d
      <4>8. a <= b - c
        BY Z3T(20), SMTT(20), <4>6, <1>3
      <4> QED BY <4>7, <4>8
    <3> QED BY Z3T(20), SMTT(20), <3>4, <3>5, <3>6, <1>3
  <2> QED BY <2>1, <2>2, <2>3, <1>2, <1>4 DEF Chain
<1>15. Delayed'
  <2> SUFFICES ASSUME NEW i \in 1 .. n - 1
               PROVE  /\ wait'[list'[i]] + Idles' <= left[list'[i]] + 1
                      /\ list'[i] \notin hastened' => wait'[list'[i]] >= left[list'[i]]
    BY <1>2, <1>4 DEF Delayed
  <2> DEFINE x == old(i)
  <2>1. x \in Positions /\ list'[i] = list[x] /\ (i >= k => x \in k + 1 .. n)
    BY Z3T(20), SMTT(20), <1>3, <1>7 DEF Positions, n
  <2> HIDE DEF x
  <2>2. /\ wait[list'[i]] + Idles <= left[list'[i]] + 1
        /\ list'[i] \notin hastened => wait[list'[i]] >= left[list'[i]]
    BY <2>1 DEF IInv, Delayed
  <2>3. (Idles = 0 \/ Idles = 1) /\ (Idles' = 0 \/ Idles' = 1)
    BY DEF Idles
  <2>4. wait[list'[i]] \in Int /\ left[list'[i]] \in Int /\ list'[i] # t
    BY <1>7a
  <2>5. CASE i >= k
    <3>1. wait'[list'[i]] = wait[list'[i]] - c
      BY <2>5, <1>7b
    <3>2. list'[i] \in hastened'
      BY <2>1, <2>5, <1>1
    <3>3. Idles' = 1 => Idles = 1 \/ c > 0
      <4>1. CASE k = 1 /\ c = 0
        BY Z3T(20), SMTT(20), <4>1, <1>1, <1>2, <1>3 DEF Idles, c, n
      <4>2. CASE k # 1
        <5>1. 1 \in 1 .. n - 1 /\ list'[1] = list[1] /\ list # <<>>
          BY Z3T(20), SMTT(20), <4>2, <1>3, <1>4 DEF n
        <5> QED BY <5>1, <1>2 DEF Idles
      <4> QED BY Z3T(20), SMTT(20), <4>1, <4>2, <1>3
    <3>4. wait[list'[i]] - c + Idles' <= left[list'[i]] + 1
      <4> DEFINE a == wait[list'[i]]
                 b == left[list'[i]]
      <4>1. a \in Int /\ b \in Int /\ a + Idles <= b + 1
        BY <2>2, <2>4
      <4> HIDE DEF a, b
      <4>2. a - c + Idles' <= b + 1
        BY Z3T(20), SMTT(20), <4>1, <3>3, <2>3, <1>3
      <4> QED BY <4>2 DEF a, b
    <3> QED BY <3>1, <3>2, <3>4
  <2>6. CASE i < k
    <3>1. wait'[list'[i]] = wait[list'[i]]
      BY Z3T(20), SMTT(20), <2>6, <1>3, <1>7b
    <3>2. Idles' = Idles
      <4>1. 1 \in 1 .. n - 1 /\ list'[1] = list[1] /\ list # <<>> /\ list' # <<>>
        BY Z3T(20), SMTT(20), <2>6, <1>3, <1>4 DEF n
      <4> QED BY <4>1, <1>2 DEF Idles
    <3>3. list'[i] \notin hastened' => list'[i] \notin hastened
      BY <2>4, <1>1
    <3> QED BY <3>1, <3>2, <3>3, <2>2
  <2> QED BY Z3T(20), SMTT(20), <2>5, <2>6, <1>3
<1>16. Walking'
  BY <1>2 DEF Walking
<1>17. Ordered'
  <2> SUFFICES ASSUME NEW p \in before'
               PROVE  \E i, j \in 1 .. n - 1 : list'[i] = p[1] /\ i < j /\ list'[j] = p[2]
    BY <1>2, <1>4 DEF Ordered
  <2>1. p \in before /\ t # p[1] /\ t # p[2]
    BY <1>2 DEF Unlisted
  <2>2. PICK i, j \in Positions : list[i] = p[1] /\ i < j /\ list[j] = p[2]
    BY <2>1, <1>2 DEF IInv, Ordered
  <2> DEFINE down(x) == IF x < k THEN x ELSE x - 1
  <2>3. ASSUME NEW x \in Positions, x # k
        PROVE  down(x) \in 1 .. n - 1 /\ list'[down(x)] = list[x]
    <3> DEFINE y == down(x)
    <3>1. y \in 1 .. n - 1 /\ x = IF y < k THEN y ELSE y + 1
      BY Z3T(20), SMTT(20), <2>3, <1>3 DEF Positions, n
    <3> HIDE DEF y
    <3>2. list'[y] = list[x]
      BY <3>1, <1>4
    <3> QED BY <3>1, <3>2 DEF y
  <2>4. i # k /\ j # k /\ down(i) < down(j)
    <3>1. i # k /\ j # k
      BY <2>1, <2>2, <1>1
    <3> QED BY Z3T(20), SMTT(20), <3>1, <2>2, <1>3 DEF Positions, n
  <2> HIDE DEF down
  <2> QED BY <2>2, <2>3, <2>4
<1> QED BY <1>8, <1>9, <1>14, <1>15, <1>16, <1>17 DEF IInv

\* A tick is taken from the head.
LEMMA TickInv == ASSUME IInv, Tick PROVE IInv'
<1> DEFINE c == IF list # <<>> /\ delayCount[list[1]] > 0 THEN 1 ELSE 0
<1>1. /\ cpu.pc = "idle" /\ cpu' = Expiring /\ cpu'.pc = "expire"
      /\ list' = list /\ isActive' = isActive /\ hastened' = hastened /\ before' = before
      /\ sof' = sof /\ Positions' = Positions
  BY DEF Tick, Idle, Expiring, Positions
<1>2. c \in {0, 1}
  OBVIOUS
<1>3. list # <<>> => 1 \in Positions
  BY Z3T(20), SMTT(20) DEF IInv, TypeOK, Positions
<1>4. ASSUME NEW i \in Positions
      PROVE  list # <<>> /\ Listed(list[i]) /\ list[i] \in Timers
  <2>1. list # <<>>
    BY Z3T(20), SMTT(20) DEF IInv, TypeOK, Positions
  <2> QED BY <2>1, Typed DEF Positions, Listed
<1>5. \A i \in Positions : wait'[list[i]] = wait[list[i]] - c /\ left'[list[i]] = left[list[i]] - 1
  <2> SUFFICES ASSUME NEW i \in Positions
               PROVE  wait'[list[i]] = wait[list[i]] - c /\ left'[list[i]] = left[list[i]] - 1
    OBVIOUS
  <2>1. left'[list[i]] = left[list[i]] - 1
    BY <1>4 DEF Tick
  <2>2. wait'[list[i]] = IF delayCount[list[1]] > 0 THEN wait[list[i]] - 1 ELSE wait[list[i]]
    BY <1>4 DEF Tick
  <2>3. wait[list[i]] \in Int /\ list # <<>>
    BY <1>4, Typed
  <2> QED BY Z3T(20), SMTT(20), <2>1, <2>2, <2>3
<1>6. ASSUME NEW i \in Positions
      PROVE  delayCount'[list[i]] = IF i = 1 THEN delayCount[list[i]] - c ELSE delayCount[list[i]]
  <2>1. list[i] \in Timers /\ list[1] \in Timers /\ 1 \in Positions /\ delayCount[list[i]] \in Nat
        /\ (i # 1 => list[i] # list[1])
    BY <1>3, <1>4, Typed DEF IInv, Members
  <2>2. CASE c = 1
    <3>1. delayCount' = [delayCount EXCEPT ![list[1]] = @ - 1]
      BY Z3T(20), SMTT(20), <2>2 DEF Tick
    <3>2. i = 1 => delayCount'[list[i]] = delayCount[list[i]] - 1
      BY <3>1, <2>1 DEF IInv, TypeOK
    <3>3. i # 1 => delayCount'[list[i]] = delayCount[list[i]]
      BY <3>1, <2>1 DEF IInv, TypeOK
    <3> QED BY <3>2, <3>3, <2>2
  <2>3. CASE c = 0
    <3>1. delayCount' = delayCount
      BY Z3T(20), SMTT(20), <2>3 DEF Tick
    <3> QED BY Z3T(20), SMTT(20), <3>1, <2>1, <2>3
  <2> QED BY <2>2, <2>3, <1>2
<1>7. TypeOK'
  <2>1. delayCount' \in [Timers -> Nat]
    <3>1. CASE c = 1
      <4>1. delayCount' = [delayCount EXCEPT ![list[1]] = @ - 1]
        BY Z3T(20), SMTT(20), <3>1 DEF Tick
      <4>2. list[1] \in Timers /\ delayCount[list[1]] - 1 \in Nat
        <5>1. list[1] \in Timers /\ delayCount[list[1]] > 0
          BY Z3T(20), SMTT(20), <3>1, <1>3, <1>4
        <5> QED BY Z3T(20), SMTT(20), <5>1, Typed
      <4> QED BY <4>1, <4>2 DEF IInv, TypeOK
    <3>2. CASE c = 0
      <4>1. delayCount' = delayCount
        BY Z3T(20), SMTT(20), <3>2 DEF Tick
      <4> QED BY <4>1 DEF IInv, TypeOK
    <3> QED BY <3>1, <3>2, <1>2
  <2>2. left' \in [Timers -> Int] /\ wait' \in [Timers -> Int]
    BY Z3T(20), SMTT(20), Typed DEF Tick
  <2> QED BY <2>1, <2>2, <1>1 DEF IInv, TypeOK
<1>8. Members'
  BY <1>1 DEF IInv, Members, Listed
<1> HIDE DEF c
<1>9. Chain'
  <2>1. list # <<>> => wait'[list[1]] = delayCount'[list[1]]
    <3>1. list # <<>> => wait[list[1]] = delayCount[list[1]]
      BY DEF IInv, Chain
    <3> QED BY <3>1, <1>3, <1>5, <1>6
  <2>2. ASSUME NEW i \in Positions, i > 1
        PROVE  wait'[list[i]] = wait'[list[i - 1]] + delayCount'[list[i]]
    <3>1. i - 1 \in Positions
      BY Z3T(20), SMTT(20), <2>2 DEF Positions
    <3>2. wait[list[i]] = wait[list[i - 1]] + delayCount[list[i]]
      BY <2>2 DEF IInv, Chain
    <3>3. delayCount'[list[i]] = delayCount[list[i]]
      BY Z3T(20), SMTT(20), <2>2, <1>6
    <3>4. wait'[list[i]] = wait[list[i]] - c /\ wait'[list[i - 1]] = wait[list[i - 1]] - c
      BY <3>1, <1>5
    <3>5. wait[list[i]] \in Int /\ wait[list[i - 1]] \in Int /\ delayCount[list[i]] \in Nat
      BY <3>1, Typed
    <3> QED BY Z3T(20), SMTT(20), <3>2, <3>3, <3>4, <3>5, <1>2
  <2>3. ASSUME NEW i \in Positions, NEW j \in Positions, i <= j
        PROVE  wait'[list[i]] <= wait'[list[j]]
    <3>1. wait[list[i]] <= wait[list[j]]
      BY <2>3 DEF IInv, Chain
    <3>2. wait[list[i]] \in Int /\ wait[list[j]] \in Int
      BY Typed
    <3> QED BY Z3T(20), SMTT(20), <3>1, <3>2, <1>2, <1>5
  <2> QED BY <2>1, <2>2, <2>3, <1>1 DEF Chain
<1>10. Delayed'
  <2> SUFFICES ASSUME NEW i \in Positions
               PROVE  /\ wait'[list[i]] <= left'[list[i]] + 1
                      /\ list[i] \notin hastened => wait'[list[i]] >= left'[list[i]]
    <3>1. Idles' = 0
      BY <1>1 DEF Idles
    <3>2. \A i \in Positions : wait'[list[i]] \in Int
      BY Z3T(20), SMTT(20), <1>2, <1>5, Typed
    <3> QED BY Z3T(20), SMTT(20), <3>1, <3>2, <1>1 DEF Delayed
  <2>1. /\ wait[list[i]] + Idles <= left[list[i]] + 1
        /\ list[i] \notin hastened => wait[list[i]] >= left[list[i]]
    BY DEF IInv, Delayed
  <2>2. Idles + c = 1
    <3>1. list # <<>> /\ delayCount[list[1]] \in Nat
      BY <1>3, <1>4, Typed
    <3> QED BY Z3T(20), SMTT(20), <3>1, <1>1 DEF Idles, c
  <2>3. wait[list[i]] \in Int /\ left[list[i]] \in Int /\ (Idles = 0 \/ Idles = 1)
    BY Typed DEF Idles
  <2> QED BY Z3T(20), SMTT(20), <2>1, <2>2, <2>3, <1>2, <1>5
<1>11. Walking' /\ Ordered'
  BY <1>1 DEF IInv, Walking, Ordered
<1> QED BY <1>7, <1>8, <1>9, <1>10, <1>11 DEF IInv

\* The head runs out.
LEMMA ExpireInv == ASSUME IInv, Expire PROVE IInv'
<1> DEFINE n == Len(list)
           h == list[1]
<1>1. /\ cpu = Expiring /\ cpu.pc = "expire" /\ cpu' = cpu
      /\ delayCount' = delayCount /\ wait' = wait /\ left' = left /\ sof' = sof
      /\ list # <<>> /\ delayCount[h] = 0 /\ hastened' = hastened \ {h}
      /\ before' = Unlisted(h)
  BY DEF Expire, Expiring, Due
<1>2. n \in Nat \ {0} /\ 1 \in Positions /\ h \in Timers
  BY Z3T(20), SMTT(20), <1>1 DEF IInv, TypeOK, Positions
<1>3. /\ list' \in Seq(Timers) /\ Len(list') = n - 1 /\ Positions' = 1 .. n - 1
      /\ \A i \in 1 .. n - 1 : list'[i] = list[i + 1] /\ i + 1 \in Positions
  BY Z3T(20), SMTT(20), <1>1 DEF Expire, IInv, TypeOK, Positions
<1>4. \A i \in 1 .. n - 1 : list'[i] \in Timers /\ list'[i] # h
  <2> SUFFICES ASSUME NEW i \in 1 .. n - 1 PROVE list'[i] \in Timers /\ list'[i] # h
    OBVIOUS
  <2> DEFINE x == i + 1
  <2>1. list'[i] = list[x] /\ x \in Positions /\ x # 1
    BY Z3T(20), SMTT(20), <1>2, <1>3
  <2> HIDE DEF x
  <2> QED BY <2>1, <1>2, Typed DEF IInv, Members
<1> HIDE DEF n, h
<1>5. TypeOK'
  <2>1. isActive' \in [Timers -> BOOLEAN] /\ hastened' \subseteq Timers
        /\ before' \subseteq Timers \X Timers
    BY DEF Expire, IInv, TypeOK, Unlisted
  <2> QED BY <1>1, <1>3, <2>1 DEF IInv, TypeOK
<1>6. Members'
  <2>1. \A i, j \in 1 .. n - 1 : list'[i] = list'[j] => i = j
    BY Z3T(20), SMTT(20), <1>2, <1>3 DEF IInv, Members
  <2>2. ASSUME NEW t \in Timers
        PROVE  isActive'[t] <=> \E i \in 1 .. n - 1 : list'[i] = t
    <3>1. isActive'[t] <=> t # h /\ \E i \in Positions : list[i] = t
      BY <1>1, Typed DEF Expire, IInv, TypeOK, Members, h
    <3>2. ASSUME NEW i \in Positions, list[i] = t, t # h
          PROVE  \E j \in 1 .. n - 1 : list'[j] = t
      <4> DEFINE j == i - 1
      <4>1. j \in 1 .. n - 1 /\ j + 1 = i
        BY Z3T(20), SMTT(20), <3>2, <1>2 DEF Positions, n, h
      <4> HIDE DEF j
      <4> QED BY <4>1, <3>2, <1>3
    <3>3. ASSUME NEW i \in 1 .. n - 1, list'[i] = t
          PROVE  t # h /\ \E j \in Positions : list[j] = t
      BY <3>3, <1>3, <1>4
    <3> QED BY <3>1, <3>2, <3>3
  <2> QED BY Z3T(20), SMTT(20), <2>1, <2>2, <1>1, <1>3 DEF Members, Listed
<1>7. Chain'
  <2>1. wait[h] = 0
    BY <1>1 DEF IInv, Chain, h
  <2>2. ASSUME NEW i \in 1 .. n - 1
        PROVE  wait[list'[i]] = wait[list[i]] + delayCount[list'[i]]
    <3> DEFINE x == i + 1
    <3>1. list'[i] = list[x] /\ x \in Positions /\ x > 1 /\ x - 1 = i
      <4>1. list'[i] = list[x] /\ x \in Positions
        BY <1>3
      <4>2. x > 1 /\ x - 1 = i
        BY Z3T(20), SMTT(20), <1>2
      <4> QED BY <4>1, <4>2
    <3> HIDE DEF x
    <3>2. wait[list[x]] = wait[list[x - 1]] + delayCount[list[x]]
      BY <3>1 DEF IInv, Chain
    <3> QED BY <3>1, <3>2
  <2>3. list' # <<>> => wait[list'[1]] = delayCount[list'[1]]
    <3> SUFFICES ASSUME list' # <<>> PROVE wait[list'[1]] = delayCount[list'[1]]
      OBVIOUS
    <3>1. 1 \in 1 .. n - 1
      BY Z3T(20), SMTT(20), <1>2, <1>3
    <3>2. wait[list'[1]] = wait[h] + delayCount[list'[1]] /\ delayCount[list'[1]] \in Nat
      BY <3>1, <2>2, <1>4, Typed DEF h
    <3> QED BY Z3T(20), SMTT(20), <3>2, <2>1
  <2>4. ASSUME NEW i \in 1 .. n - 1, i > 1
        PROVE  wait[list'[i]] = wait[list'[i - 1]] + delayCount[list'[i]]
    <3> DEFINE x == i - 1
    <3>1. x \in 1 .. n - 1 /\ x + 1 = i
      BY Z3T(20), SMTT(20), <2>4, <1>2
    <3> HIDE DEF x
    <3>2. list'[x] = list[i]
      BY <3>1, <1>3
    <3> QED BY <3>2, <2>2 DEF x
  <2>5. ASSUME NEW i \in 1 .. n - 1, NEW j \in 1 .. n - 1, i <= j
        PROVE  wait[list'[i]] <= wait[list'[j]]
    <3> DEFINE x == i + 1
               y == j + 1
    <3>1. /\ list'[i] = list[x] /\ list'[j] = list[y] /\ x <= y
          /\ x \in Positions /\ y \in Positions
      BY Z3T(20), SMTT(20), <2>5, <1>2, <1>3
    <3> HIDE DEF x, y
    <3> QED BY <3>1 DEF IInv, Chain
  <2> QED BY <2>3, <2>4, <2>5, <1>1, <1>3 DEF Chain
<1>8. Delayed'
  <2> SUFFICES ASSUME NEW i \in 1 .. n - 1
               PROVE  /\ wait[list'[i]] + 0 <= left[list'[i]] + 1
                      /\ list'[i] \notin hastened' => wait[list'[i]] >= left[list'[i]]
    <3>1. Idles' = 0
      BY <1>1 DEF Idles
    <3> QED BY <3>1, <1>1, <1>3 DEF Delayed
  <2>1. Idles = 0
    BY <1>1 DEF Idles
  <2> DEFINE x == i + 1
  <2>2. list'[i] = list[x] /\ x \in Positions
    BY <1>3
  <2> HIDE DEF x
  <2>3. /\ wait[list[x]] + 0 <= left[list[x]] + 1
        /\ list[x] \notin hastened => wait[list[x]] >= left[list[x]]
    BY <2>1, <2>2 DEF IInv, Delayed
  <2> QED BY <2>2, <2>3, <1>1, <1>4
<1>9. Walking'
  BY <1>1 DEF Walking
<1>10. Ordered'
  <2> SUFFICES ASSUME NEW p \in before'
               PROVE  \E i, j \in 1 .. n - 1 : list'[i] = p[1] /\ i < j /\ list'[j] = p[2]
    BY Z3T(20), SMTT(20), <1>1, <1>3 DEF Ordered
  <2>1. p \in before /\ h # p[1] /\ h # p[2]
    BY <1>1 DEF Unlisted
  <2>2. PICK i, j \in Positions : list[i] = p[1] /\ i < j /\ list[j] = p[2]
    BY <2>1, <1>1 DEF IInv, Ordered
  <2> DEFINE x == i - 1
             y == j - 1
  <2>3. x \in 1 .. n - 1 /\ y \in 1 .. n - 1 /\ x + 1 = i /\ y + 1 = j /\ x < y
    BY Z3T(20), SMTT(20), <2>1, <2>2, <1>2 DEF Positions, n, h
  <2> HIDE DEF x, y
  <2> QED BY <2>2, <2>3, <1>3
<1> QED BY <1>5, <1>6, <1>7, <1>8, <1>9, <1>10 DEF IInv

\* handleTimerList returns.
LEMMA TickDoneInv == ASSUME IInv, TickDone PROVE IInv'
<1>1. /\ cpu.pc = "expire" /\ cpu' = Idle /\ cpu'.pc = "idle" /\ Positions' = Positions
      /\ list' = list /\ delayCount' = delayCount /\ wait' = wait /\ left' = left
      /\ hastened' = hastened /\ before' = before /\ isActive' = isActive
  BY DEF TickDone, Idle, Expiring, Positions
<1>2. TypeOK'
  BY <1>1 DEF TickDone, IInv, TypeOK
<1>3. Members' /\ Chain' /\ Walking' /\ Ordered'
  BY Z3T(20), SMTT(20), <1>1 DEF IInv, Members, Chain, Walking, Ordered, Listed
<1>4. Idles = 0 /\ Idles' = 0
  BY <1>1 DEF TickDone, Due, Idles
<1>5. Delayed'
  BY <1>1, <1>4 DEF IInv, Delayed
<1> QED BY <1>2, <1>3, <1>5 DEF IInv

\* The invariant is inductive.
LEMMA Invariance == Spec => []IInv
<1>1. IInv /\ [Next]_vars => IInv'
  <2> SUFFICES ASSUME IInv, [Next]_vars PROVE IInv'
    OBVIOUS
  <2>1. ASSUME NEW t \in Timers, NEW d \in Delays, AddTimerCallback(t, d) PROVE IInv'
    BY <2>1, AddInv
  <2>2. ASSUME NEW t \in Cancellable, CancelTimerCallback(t) PROVE IInv'
    BY <2>2, CancelInv, TimersAssumption
  <2> QED BY <2>1, <2>2, NextPosInv, InsertInv, TickInv, ExpireInv, TickDoneInv, StutterInv DEF Next
<1> QED BY <1>1, InitInv, PTL DEF Spec

-----------------------------------------------------------------------------
(* The theorems *)

\* The list, its delays and the locals of addTimerCallback keep their types:
\* no delayCount is ever taken below zero (it is an unsigned counter in
\* handleTimerList, and the delay of the next timer is reduced on insertion).
THEOREM TimersTyped == Spec => []TypeOK
<1>1. IInv => TypeOK
  BY DEF IInv
<1> QED BY <1>1, Invariance, PTL

\* No timer of addTimerCallback is more than one tick late.
THEOREM LateByOneTickAtMost == Spec => []AtMostOneTickLate
<1>1. IInv => AtMostOneTickLate
  <2> SUFFICES ASSUME IInv, cpu = Idle, NEW t \in Timers, Listed(t)
               PROVE  left[t] >= 0
    BY DEF AtMostOneTickLate
  <2>1. PICK i \in Positions : list[i] = t
    BY Typed
  <2>2. 1 \in Positions /\ 1 <= i /\ list # <<>>
    BY Z3T(20), SMTT(20) DEF IInv, TypeOK, Positions
  <2>3. wait[list[1]] = delayCount[list[1]] /\ wait[list[1]] <= wait[t]
    BY <2>1, <2>2 DEF IInv, Chain
  <2>4. wait[t] + Idles <= left[t] + 1
    BY <2>1 DEF IInv, Delayed
  <2>5. wait[t] \in Int /\ left[t] \in Int /\ delayCount[list[1]] \in Nat
    BY <2>2, Typed
  <2>6. Idles = IF delayCount[list[1]] = 0 THEN 1 ELSE 0
    BY <2>2 DEF Idles, Idle
  <2> QED BY Z3T(20), SMTT(20), <2>3, <2>4, <2>5, <2>6
<1> QED BY <1>1, Invariance, PTL

\* A timer that runs out is the head of the list, with nothing left to wait.
LEMMA ExpiresHead ==
    ASSUME IInv, Next, NEW t \in Timers, Expires(t)
    PROVE  list # <<>> /\ t = list[1] /\ wait[t] = 0 /\ 1 \in Positions /\ cpu.pc = "expire"
<1>1. cpu = Expiring /\ cpu.pc = "expire" /\ cpu # Idle /\ isActive[t] # isActive'[t]
  BY DEF Expires, Expiring, Idle
<1>2. Expire
  BY <1>1 DEF Next, AddTimerCallback, NextPos, InsertTimer, CancelTimerCallback, Tick, TickDone
<1>3. list # <<>> /\ delayCount[list[1]] = 0
  BY <1>2 DEF Expire, Due
<1>4. t = list[1]
  BY <1>1, <1>2 DEF Expire, IInv, TypeOK
<1>5. wait[t] = 0
  BY <1>3, <1>4 DEF IInv, Chain
<1>6. 1 \in Positions
  BY Z3T(20), SMTT(20), <1>3 DEF IInv, TypeOK, Positions
<1> QED BY <1>1, <1>3, <1>4, <1>5, <1>6

\* A timer runs out before its delay is over only after the cancellation of a
\* timer that was before it in the list.
THEOREM EarlyOnlyThen == Spec => EarlyOnlyIfCancelled
<1>1. IInv /\ [Next]_vars =>
         [\A t \in Timers : Expires(t) /\ left[t] > 0 => t \in hastened]_vars
  <2> SUFFICES ASSUME IInv, Next, NEW t \in Timers, Expires(t), left[t] > 0
               PROVE  t \in hastened
    OBVIOUS
  <2>1. t = list[1] /\ wait[t] = 0 /\ 1 \in Positions
    BY ExpiresHead
  <2>2. t \notin hastened => wait[t] >= left[t]
    BY <2>1 DEF IInv, Delayed
  <2>3. left[t] \in Int
    BY Typed
  <2> QED BY Z3T(20), SMTT(20), <2>1, <2>2, <2>3
<1> QED BY <1>1, Invariance, PTL DEF Spec, EarlyOnlyIfCancelled

\* No timer overtakes one that was due two ticks before it, whatever is added
\* and cancelled meanwhile.
THEOREM OrderKept == Spec => InOrder
<1>1. IInv /\ [Next]_vars =>
         [\A t \in Timers : Expires(t) => \A u \in Timers : <<u, t>> \notin before]_vars
  <2> SUFFICES ASSUME IInv, Next, NEW t \in Timers, Expires(t),
                      NEW u \in Timers, <<u, t>> \in before
               PROVE  FALSE
    OBVIOUS
  <2>1. t = list[1] /\ 1 \in Positions /\ cpu.pc = "expire"
    BY ExpiresHead
  <2>2. PICK i, j \in Positions : i < j /\ list[j] = t
    BY <2>1 DEF IInv, Ordered
  <2>3. j = 1
    BY <2>1, <2>2 DEF IInv, Members
  <2> QED BY Z3T(20), SMTT(20), <2>2, <2>3, <2>1 DEF Positions
<1> QED BY <1>1, Invariance, PTL DEF Spec, InOrder

\* Timers run out in their turn, for any timers and delays.
THEOREM TimersInTurn == Spec => InTurn
  BY EarlyOnlyThen, OrderKept DEF InTurn
=============================================================================
