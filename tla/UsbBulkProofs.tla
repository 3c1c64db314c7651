--------------------------- MODULE UsbBulkProofs ---------------------------
(***************************************************************************)
(* The transport of a USB drive, for any sizes, retries and faults.  For   *)
(* any number of drives and threads: the counters of a call stay within    *)
(* its buffer, and no command is sent to a drive that is in the middle of  *)
(* another one.                                                            *)
(*                                                                         *)
(* The second half is about a single drive: scsi_read and scsi_write       *)
(* implement BlockDevice.  With two drives the command block is shared and *)
(* a drive may get the command of the other one, so nothing of the kind    *)
(* holds.                                                                  *)
(***************************************************************************)
EXTENDS UsbBulk, TLAPS

\* Most leaves are first-order. Those with arithmetic or records name Z3 and SMT,
\* two encodings, of which the second is tried where the first fails.
USE ZenonT(60)

\* the locals of a call
Buffers == UNION {Buffer(n) : n \in Nat}
Locals == [pc : Labels, kind : {"none", "read", "write", "query"}, s : Nat, n : Nat, buf : Buffers,
           done : Nat, moved : Nat, tries : Nat, rcode : {"ok", "err"}, want : Nat, result : Int]

\* r is c at pc p, with these counters and results
Is(r, c, p, buf, done, moved, tries, rcode, want, result) ==
    /\ r \in Locals
    /\ r.pc = p /\ r.kind = c.kind /\ r.s = c.s /\ r.n = c.n /\ r.buf = buf
    /\ r.done = done /\ r.moved = moved /\ r.tries = tries
    /\ r.rcode = rcode /\ r.want = want /\ r.result = result

\* Sc and Command of a thread with the locals c
ScOf(c) == IF c.n - c.done > max_sectors THEN max_sectors ELSE c.n - c.done
CommandOf(c) == [kind |-> c.kind, s |-> c.s + c.done, n |-> ScOf(c)]

\* The locals of a call: the counters stay within the request and the command.
ThreadOK(c) ==
    /\ c \in Locals
    /\ c.s \in Requested /\ c.n \in 0 .. MaxCount \cup {1}
    /\ c.buf \in Buffer(c.n)
    /\ c.done \in 0 .. c.n
    /\ c.moved \in 0 .. max_sectors
    /\ c.tries \in 1 .. SCSI_MAX_RETRIES
    /\ c.want \in Tags
    /\ c.result \in -1 .. 2
    /\ c.pc = "idle" <=> c.kind = "none"
    /\ c.kind = "query" => c.s = 0 /\ c.done = 0
    /\ c.kind # "query" => c.n <= MaxCount
    /\ c.kind = "write" => c.buf \in [1 .. c.n -> Data]
    /\ c.pc \in {"send", "cbw"} => c.moved = 0
    /\ c.pc = "data" => c.moved < ScOf(c)

\* The state of a drive: in the data phase some sector is due.
DriveOK(v) ==
    /\ v \in [phase : {"cbw", "data", "csw"}, cmd : Commands, tag : Tags,
              k : 0 .. max_sectors, status : 0 .. 2]
    /\ v.phase = "data" => v.k < v.cmd.n

\* where a thread has no command under way
Between == {"idle", "nothing", "tag", "build", "send", "cbw", "clearin", "clearout", "end"}

\* a drive whose thread has no command under way is offline or waits for one,
\* and no CBW is on its way to a drive that is offline
Synced(pc, off, phase) ==
    /\ pc \in Between => off \/ phase = "cbw"
    /\ pc = "cbw" => ~off

\* what holds of a thread with the locals c and of its drive
Pair(c, off, v) == ThreadOK(c) /\ DriveOK(v) /\ off \in BOOLEAN /\ Synced(c.pc, off, v.phase)

Pairs ==
    /\ thread = [t \in Threads |-> thread[t]]
    /\ dev = [d \in Drives |-> dev[d]]
    /\ offline = [d \in Drives |-> offline[d]]
    /\ \A t \in Threads : Pair(thread[t], offline[Drive[t]], dev[Drive[t]])

\* the static variables, the pipes and the media
Globals ==
    /\ tag \in Tags /\ ucmd \in [cmd : Commands, tag : Tags]
    /\ halted \in [Drives -> SUBSET {"in", "out"}]
    /\ disk \in [Drives -> [Sectors -> Data]]

IInv == Pairs /\ Globals
-----------------------------------------------------------------------------
\* The locals c with another pc, and what else a step writes.
LEMMA Rewritten ==
    ASSUME NEW c \in Locals, NEW p \in Labels
    PROVE  /\ Is([c EXCEPT !.pc = p], c, p, c.buf, c.done, c.moved, c.tries, c.rcode, c.want, c.result)
           /\ \A a \in Int : Is([c EXCEPT !.pc = p, !.result = a],
                                c, p, c.buf, c.done, c.moved, c.tries, c.rcode, c.want, a)
           /\ \A a \in Int : Is([c EXCEPT !.result = a, !.pc = p],
                                c, p, c.buf, c.done, c.moved, c.tries, c.rcode, c.want, a)
           /\ Is([c EXCEPT !.pc = p, !.rcode = "err"],
                 c, p, c.buf, c.done, c.moved, c.tries, "err", c.want, c.result)
           /\ \A a \in Nat : Is([c EXCEPT !.pc = p, !.want = a],
                                c, p, c.buf, c.done, c.moved, c.tries, c.rcode, a, c.result)
           /\ \A a \in Nat : Is([c EXCEPT !.pc = p, !.tries = a],
                                c, p, c.buf, c.done, c.moved, a, c.rcode, c.want, c.result)
           /\ \A a, b \in Nat : Is([c EXCEPT !.pc = p, !.done = a, !.tries = b],
                                   c, p, c.buf, a, c.moved, b, c.rcode, c.want, c.result)
           /\ Is([c EXCEPT !.pc = p, !.rcode = "ok", !.moved = 0],
                 c, p, c.buf, c.done, 0, c.tries, "ok", c.want, c.result)
           /\ \A a \in Buffers, b \in Nat :
                 Is([c EXCEPT !.buf = a, !.moved = b, !.pc = p],
                    c, p, a, c.done, b, c.tries, c.rcode, c.want, c.result)
  BY DEF Locals, Is

\* Types of the constants.
LEMMA Sizes ==
    /\ sectorCount \in Nat /\ sectorCount > 0
    /\ max_sectors \in Nat /\ max_sectors > 0
    /\ SCSI_MAX_RETRIES \in Nat /\ SCSI_MAX_RETRIES > 0
    /\ MaxCount \in Nat /\ TagCount \in Nat /\ TagCount > 0
  BY Z3T(20), SMTT(20), UsbBulkAssumption

\* The numbers among the locals, and the command that they make.
LEMMA Counts ==
    ASSUME NEW c, ThreadOK(c)
    PROVE  /\ c \in Locals
           /\ c.s \in Nat /\ c.n \in Nat /\ c.done \in Nat /\ c.moved \in Nat /\ c.tries \in Nat
           /\ c.want \in Nat /\ c.result \in Int
           /\ c.s <= sectorCount /\ c.done <= c.n
           /\ ScOf(c) \in Nat /\ ScOf(c) <= max_sectors /\ c.done + ScOf(c) <= c.n
           /\ CommandOf(c) \in Commands
<1>1. /\ c \in Locals
      /\ c.s \in Nat /\ c.n \in Nat /\ c.done \in Nat /\ c.moved \in Nat /\ c.tries \in Nat
      /\ c.want \in Nat /\ c.result \in Int
      /\ c.s <= sectorCount /\ c.done <= c.n
  BY Z3T(20), SMTT(20), Sizes DEF ThreadOK, Requested, Locals
<1>2. ScOf(c) \in Nat /\ ScOf(c) <= max_sectors /\ c.done + ScOf(c) <= c.n
  BY Z3T(20), SMTT(20), <1>1, Sizes DEF ScOf
<1>3. c.s + c.done \in 0 .. sectorCount + MaxCount
  <2>1. CASE c.kind = "query"
    BY Z3T(20), SMTT(20), <2>1, Sizes DEF ThreadOK
  <2>2. CASE c.kind # "query"
    <3>1. c.n <= MaxCount
      BY <2>2 DEF ThreadOK
    <3> QED BY Z3T(20), SMTT(20), <1>1, <3>1, Sizes
  <2> QED BY <2>1, <2>2
<1>4. c.kind \in {"none", "read", "write", "query"}
  BY <1>1 DEF Locals
<1>5. ScOf(c) \in 0 .. max_sectors
  BY Z3T(20), SMTT(20), <1>2, Sizes
<1> HIDE DEF ScOf
<1> QED BY <1>1, <1>2, <1>3, <1>4, <1>5 DEF CommandOf, Commands

\* A call goes on at p; its counters are as good as before.
LEMMA GoesOK ==
    ASSUME NEW c, ThreadOK(c), c.pc # "idle", NEW r, NEW p \in Labels, p # "idle",
           NEW buf \in Buffer(c.n), c.kind = "write" => buf \in [1 .. c.n -> Data],
           NEW moved \in 0 .. max_sectors, p = "data" => moved < ScOf(c),
           p \in {"send", "cbw"} => moved = 0,
           NEW tries \in 1 .. SCSI_MAX_RETRIES,
           NEW rcode, NEW want \in Tags, NEW result \in -1 .. 2,
           Is(r, c, p, buf, c.done, moved, tries, rcode, want, result)
    PROVE  ThreadOK(r) /\ ScOf(r) = ScOf(c) /\ CommandOf(r) = CommandOf(c)
<1>1. ScOf(r) = ScOf(c) /\ CommandOf(r) = CommandOf(c)
  BY DEF ScOf, CommandOf, Is
<1>2. ThreadOK(r)
  BY <1>1 DEF ThreadOK, Is
<1> QED BY <1>1, <1>2

\* What a step of one thread on its own drive does to the others: nothing.
LEMMA StepKeeps ==
    ASSUME Pairs, NEW t \in Threads, NEW r, NEW v, NEW o,
           Step(t, r),
           dev' = [dev EXCEPT ![Drive[t]] = v],
           offline' = [offline EXCEPT ![Drive[t]] = o],
           Pair(r, o, v)
    PROVE  Pairs'
<1>1. Drive[t] \in Drives
  BY DEF Drives
<1>2. /\ thread' = [u \in Threads |-> thread'[u]]
      /\ dev' = [d \in Drives |-> dev'[d]]
      /\ offline' = [d \in Drives |-> offline'[d]]
  BY DEF Pairs, Step
<1>3. thread'[t] = r /\ dev'[Drive[t]] = v /\ offline'[Drive[t]] = o
  BY <1>1 DEF Pairs, Step
<1>4. ASSUME NEW u \in Threads, u # t
      PROVE  /\ thread'[u] = thread[u]
             /\ dev'[Drive[u]] = dev[Drive[u]]
             /\ offline'[Drive[u]] = offline[Drive[u]]
  <2>1. Drive[u] # Drive[t]
    BY <1>4, UsbBulkAssumption
  <2>2. Drive[u] \in Drives
    BY DEF Drives
  <2> QED BY <2>1, <2>2, <1>4 DEF Pairs, Step
<1>5. ASSUME NEW u \in Threads
      PROVE  Pair(thread'[u], offline'[Drive[u]], dev'[Drive[u]])
  <2>1. CASE u = t
    BY <2>1, <1>3
  <2>2. CASE u # t
    BY <2>2, <1>4 DEF Pairs
  <2> QED BY <2>1, <2>2
<1> QED BY <1>2, <1>5 DEF Pairs

\* A step of the thread t that leaves its drive in the state v, which may be the old
\* one, and does not take it offline.
LEMMA StepKeepsOnline ==
    ASSUME Pairs, NEW t \in Threads, NEW r, NEW v,
           Step(t, r), UNCHANGED offline,
           \/ dev' = [dev EXCEPT ![Drive[t]] = v]
           \/ UNCHANGED dev /\ v = dev[Drive[t]],
           ThreadOK(r), DriveOK(v), Synced(r.pc, offline[Drive[t]], v.phase)
    PROVE  Pairs'
<1>1. Drive[t] \in Drives
  BY DEF Drives
<1>2. /\ dev' = [dev EXCEPT ![Drive[t]] = v]
      /\ offline' = [offline EXCEPT ![Drive[t]] = offline[Drive[t]]]
  BY <1>1 DEF Pairs
<1>3. Pair(r, offline[Drive[t]], v)
  BY DEF Pair, Pairs
<1> QED BY <1>2, <1>3, StepKeeps

\* What the drive does never matters to Synced when the thread is not between
\* commands.
LEMMA InCommand ==
    ASSUME NEW p, p \notin Between, NEW o, NEW f
    PROVE  Synced(p, o, f)
  BY DEF Synced, Between

\* What is known of a thread and of its drive before a step.
LEMMA Before ==
    ASSUME Pairs, NEW t \in Threads
    PROVE  /\ Drive[t] \in Drives
           /\ ThreadOK(thread[t]) /\ DriveOK(dev[Drive[t]])
           /\ Synced(thread[t].pc, offline[Drive[t]], dev[Drive[t]].phase)
           /\ Sc(t) = ScOf(thread[t]) /\ Command(t) = CommandOf(thread[t])
<1>1. Drive[t] \in Drives
  BY DEF Drives
<1>2. Sc(t) = ScOf(thread[t])
  BY DEF Sc, ScOf
<1>3. Command(t) = CommandOf(thread[t])
  BY <1>2 DEF Command, CommandOf
<1> QED BY <1>1, <1>2, <1>3 DEF Pairs, Pair

\* The drive keeps its types whatever it does with a CBW, with a sector, or instead of
\* one.
LEMMA DriveMoves ==
    /\ DriveOK(Waiting)
    /\ \A u \in [cmd : Commands, tag : Tags] : \A v \in Started(u) : DriveOK(v)
    /\ \A w : DriveOK(w) /\ w.phase = "data" =>
                 \A st \in Moves(w) : \A v \in Advanced(w, st) : DriveOK(v)
    /\ \A w : DriveOK(w) => \A v \in Cut(w) : DriveOK(v)
<1>0. ASSUME NEW w \in [phase : {"cbw", "data", "csw"}, cmd : Commands, tag : Tags,
                         k : 0 .. max_sectors, status : 0 .. 2], w.phase # "data"
      PROVE  DriveOK(w)
  BY <1>0 DEF DriveOK
<1>1. DriveOK(Waiting)
  <2>1. NoCommand \in Commands /\ 0 \in Tags
    BY Z3T(20), SMTT(20), Sizes DEF NoCommand, Commands, Tags
  <2> QED BY Z3T(20), SMTT(20), <1>0, <2>1, Sizes DEF Waiting
<1>2. \A st \in 0 .. 2 : Ending(st) \subseteq 0 .. 2
  BY Z3T(20), SMTT(20) DEF Ending
<1>3. ASSUME NEW u \in [cmd : Commands, tag : Tags], NEW v \in Started(u)
      PROVE  DriveOK(v)
  <2>1. u.cmd.n \in 0 .. max_sectors
    BY DEF Commands
  <2>2. CASE u.cmd.n = 0
    BY Z3T(20), SMTT(20), <1>0, <1>2, <2>2, Sizes DEF Started
  <2>3. CASE u.cmd.n # 0
    <3>1. v = [phase |-> "data", cmd |-> u.cmd, tag |-> u.tag, k |-> 0, status |-> 0]
      BY <2>3 DEF Started
    <3> QED BY Z3T(20), SMTT(20), <3>1, <2>1, <2>3, Sizes DEF DriveOK
  <2> QED BY <2>2, <2>3
<1>4. ASSUME NEW w, DriveOK(w), w.phase = "data", NEW st \in Moves(w), NEW v \in Advanced(w, st)
      PROVE  DriveOK(v)
  <2>1. st \in 0 .. 2
    BY Z3T(20), SMTT(20) DEF Moves
  <2>2. w.cmd.n \in 0 .. max_sectors /\ w.k \in 0 .. max_sectors /\ w.k < w.cmd.n
    BY <1>4 DEF DriveOK, Commands
  <2>3. w.k + 1 \in 0 .. max_sectors /\ w.k + 1 <= w.cmd.n
    BY Z3T(20), SMTT(20), <2>2, Sizes
  <2>4. CASE w.k + 1 = w.cmd.n
    <3>1. PICK e \in Ending(st) : v = [w EXCEPT !.phase = "csw", !.k = w.k + 1, !.status = e]
      BY <2>4 DEF Advanced
    <3>2. e \in 0 .. 2
      BY <1>2, <2>1, <3>1
    <3> QED BY <1>0, <1>4, <2>3, <3>1, <3>2 DEF DriveOK
  <2>5. CASE w.k + 1 # w.cmd.n
    <3>1. v = [w EXCEPT !.k = w.k + 1, !.status = st]
      BY <2>5 DEF Advanced
    <3>2. /\ v \in [phase : {"cbw", "data", "csw"}, cmd : Commands, tag : Tags,
                    k : 0 .. max_sectors, status : 0 .. 2]
          /\ v.k = w.k + 1 /\ v.cmd = w.cmd
      BY <1>4, <2>1, <2>3, <3>1 DEF DriveOK
    <3>3. w.k + 1 < w.cmd.n
      BY Z3T(20), SMTT(20), <2>2, <2>3, <2>5, Sizes
    <3> QED BY <3>2, <3>3 DEF DriveOK
  <2> QED BY <2>4, <2>5
<1>5. ASSUME NEW w, DriveOK(w), NEW v \in Cut(w)
      PROVE  DriveOK(v)
  <2>1. PICK st \in {0, 1} : v = [w EXCEPT !.phase = "csw", !.status = st]
    BY DEF Cut
  <2>2. st \in 0 .. 2
    BY Z3T(20), SMTT(20), <2>1
  <2> QED BY <1>0, <1>5, <2>1, <2>2 DEF DriveOK
<1> QED BY <1>1, <1>3, <1>4, <1>5

\* A thread without a call.
LEMMA IdleOK == Idle \in Locals /\ ThreadOK(Idle) /\ Idle.pc = "idle" /\ Idle.kind = "none"
<1>1. <<>> \in Buffer(0)
  BY Z3T(20), SMTT(20) DEF Buffer
<1>2. Idle \in Locals
  BY Z3T(20), SMTT(20), <1>1, Sizes DEF Idle, Locals, Labels, Computing, Buffers
<1> QED BY Z3T(20), SMTT(20), <1>1, <1>2, Sizes DEF Idle, ThreadOK, Requested, Tags

\* A call begins: the drive stays as it is.
LEMMA CallsKeep ==
    ASSUME IInv, NEW t \in Threads, Calls(t)
    PROVE  IInv'
<1>0. Synced(thread[t].pc, offline[Drive[t]], dev[Drive[t]].phase) /\ DriveOK(dev[Drive[t]])
  BY Before DEF IInv
<1>1. ASSUME NEW kind \in {"read", "write", "query"}, NEW s \in Requested, NEW n \in Nat,
             NEW buf \in Buffer(n), kind = "write" => buf \in [1 .. n -> Data],
             kind = "query" => s = 0 /\ n \in 0 .. 1, kind # "query" => n \in 0 .. MaxCount,
             Begin(t, kind, s, n, buf), thread[t].pc = "idle"
      PROVE  IInv'
  <2> DEFINE p == IF n = 0 /\ kind # "query" THEN "nothing" ELSE "tag"
             r == [Idle EXCEPT !.pc = p, !.kind = kind, !.s = s, !.n = n, !.buf = buf]
  <2>1. /\ r.pc = p /\ r.kind = kind /\ r.s = s /\ r.n = n /\ r.buf = buf
        /\ r.done = 0 /\ r.moved = 0 /\ r.tries = SCSI_MAX_RETRIES
        /\ r.rcode = "ok" /\ r.want = 0 /\ r.result = 0
    BY DEF Idle
  <2>2. Step(t, r) /\ UNCHANGED <<dev, offline>> /\ Globals'
    BY <1>1 DEF Begin, IInv, Globals
  <2>3. p \in Labels /\ p \in {"nothing", "tag"}
    BY DEF Labels, Computing
  <2>4. s \in Nat /\ buf \in Buffers
    BY Z3T(20), SMTT(20), Sizes DEF Requested, Buffers
  <2>5. 0 \in Tags /\ n \in 0 .. MaxCount \cup {1}
    BY Z3T(20), SMTT(20), <1>1, Sizes DEF Tags
  <2> HIDE DEF p
  <2>6. r \in Locals
    BY <2>3, <2>4, IdleOK DEF Locals
  <2> HIDE DEF r
  <2>7. ThreadOK(r)
    BY Z3T(20), SMTT(20), <1>1, <2>1, <2>3, <2>5, <2>6, Sizes DEF ThreadOK
  <2>8. Synced(r.pc, offline[Drive[t]], dev[Drive[t]].phase)
    BY <1>0, <1>1, <2>1, <2>3 DEF Synced, Between
  <2>9. Pairs'
    BY <1>0, <2>2, <2>7, <2>8, StepKeepsOnline DEF IInv
  <2> QED BY <2>2, <2>9 DEF IInv
<1>2. ASSUME NEW n \in Nat
      PROVE  [k \in 1 .. n |-> Junk] \in Buffer(n) /\ [1 .. n -> Data] \subseteq Buffer(n)
  BY DEF Buffer
<1>3. CASE Read(t)
  <2>1. PICK s \in Requested, n \in 0 .. MaxCount : Begin(t, "read", s, n, [k \in 1 .. n |-> Junk])
    BY <1>3 DEF Read
  <2> QED BY Z3T(20), SMTT(20), <1>1, <1>2, <1>3, <2>1, Sizes DEF Read
<1>4. CASE Write(t)
  <2>1. PICK s \in Requested, n \in 0 .. MaxCount :
           \E buf \in [1 .. n -> Data] : Begin(t, "write", s, n, buf)
    BY <1>4 DEF Write
  <2>2. PICK buf \in [1 .. n -> Data] : Begin(t, "write", s, n, buf)
    BY <2>1
  <2>3. n \in Nat /\ thread[t].pc = "idle"
    BY Z3T(20), SMTT(20), <1>4, Sizes DEF Write
  <2>4. buf \in Buffer(n)
    BY <1>2, <2>3
  <2> QED BY <1>1, <2>2, <2>3, <2>4
<1>5. CASE Query(t)
  <2>1. PICK n \in 0 .. 1 : Begin(t, "query", 0, n, [k \in 1 .. n |-> Junk])
    BY <1>5 DEF Query
  <2>2. 0 \in Requested
    BY Z3T(20), SMTT(20), Sizes DEF Requested
  <2>3. n \in Nat /\ thread[t].pc = "idle"
    BY Z3T(20), SMTT(20), <1>5 DEF Query
  <2> DEFINE b == [k \in 1 .. n |-> Junk]
  <2>4. b \in Buffer(n) /\ Begin(t, "query", 0, n, b)
    BY <1>2, <2>1, <2>3
  <2> HIDE DEF b
  <2>5. PICK s \in Requested : s = 0 /\ Begin(t, "query", s, n, b)
    BY <2>2, <2>4
  <2> QED BY <1>1, <2>1, <2>3, <2>4, <2>5
<1> QED BY <1>3, <1>4, <1>5 DEF Calls

\* A step of a call that writes pc and perhaps a result.
LEMMA GoesKeeps ==
    ASSUME Pairs, NEW t \in Threads, thread[t].pc # "idle", NEW r, NEW p \in Labels,
           p \notin {"idle", "data"}, p \in {"send", "cbw"} => thread[t].moved = 0,
           NEW tries \in 1 .. SCSI_MAX_RETRIES, NEW rcode, NEW want \in Tags, NEW result \in -1 .. 2,
           Is(r, thread[t], p, thread[t].buf, thread[t].done, thread[t].moved, tries, rcode, want, result),
           Step(t, r), UNCHANGED offline, NEW v, DriveOK(v),
           \/ dev' = [dev EXCEPT ![Drive[t]] = v]
           \/ UNCHANGED dev /\ v = dev[Drive[t]],
           Synced(p, offline[Drive[t]], v.phase)
    PROVE  Pairs'
<1> DEFINE c == thread[t]
<1>1. ThreadOK(c)
  BY Before
<1>2. c.buf \in Buffer(c.n) /\ (c.kind = "write" => c.buf \in [1 .. c.n -> Data])
      /\ c.moved \in 0 .. max_sectors
  BY <1>1 DEF ThreadOK
<1>3. ThreadOK(r) /\ r.pc = p
  BY <1>1, <1>2, GoesOK DEF Is
<1> QED BY <1>3, StepKeepsOnline

\* The steps of usb_queue_cmd up to the CBW.
LEMMA CommandKeeps ==
    ASSUME IInv, NEW t \in Threads,
           TakeTag(t) \/ BuildCbw(t) \/ SendCbw(t) \/ CbwTaken(t) \/ CbwFails(t)
    PROVE  IInv'
<1> DEFINE c == thread[t]
           d == Drive[t]
<1>0. /\ d \in Drives /\ ThreadOK(c) /\ DriveOK(dev[d]) /\ Synced(c.pc, offline[d], dev[d].phase)
      /\ Sc(t) = ScOf(c) /\ Command(t) = CommandOf(c)
  BY Before DEF IInv
<1>1. /\ c \in Locals /\ ScOf(c) \in Nat /\ CommandOf(c) \in Commands
      /\ c.tries \in 1 .. SCSI_MAX_RETRIES /\ c.want \in Tags /\ c.result \in -1 .. 2
  BY <1>0, Counts DEF ThreadOK
<1>l. {"build", "send", "end", "cbw", "data", "status", "reset"} \subseteq Labels
  BY DEF Labels, Computing
<1>2. CASE TakeTag(t)
  <2>1. Pairs'
    <3> DEFINE r == [c EXCEPT !.pc = "build"]
    <3>1. Is(r, c, "build", c.buf, c.done, c.moved, c.tries, c.rcode, c.want, c.result)
      BY <1>1, <1>l, Rewritten
    <3>2. Step(t, r) /\ UNCHANGED <<dev, offline>> /\ c.pc = "tag"
      BY <1>2 DEF TakeTag
    <3>3. Synced("build", offline[d], dev[d].phase)
      BY <1>0, <3>2 DEF Synced, Between
    <3> HIDE DEF r
    <3> QED BY <1>0, <1>1, <1>l, <3>1, <3>2, <3>3, GoesKeeps DEF IInv
  <2>2. (tag + 1) % TagCount \in Tags
    BY Z3T(20), SMTT(20), Sizes DEF IInv, Globals, Tags
  <2> QED BY <1>2, <2>1, <2>2 DEF TakeTag, IInv, Globals
<1>3. CASE BuildCbw(t)
  <2> DEFINE r == [c EXCEPT !.pc = "send", !.rcode = "ok", !.moved = 0]
  <2>1. Is(r, c, "send", c.buf, c.done, 0, c.tries, "ok", c.want, c.result)
    BY <1>1, <1>l, Rewritten
  <2>2. Step(t, r) /\ UNCHANGED <<dev, offline>> /\ c.pc = "build"
    BY <1>3 DEF BuildCbw
  <2> HIDE DEF r
  <2>3. ThreadOK(r)
    <3>1. c.buf \in Buffer(c.n) /\ (c.kind = "write" => c.buf \in [1 .. c.n -> Data])
          /\ 0 \in 0 .. max_sectors
      BY Z3T(20), SMTT(20), <1>0, Sizes DEF ThreadOK
    <3> QED BY <1>0, <1>1, <1>l, <2>1, <2>2, <3>1, GoesOK
  <2>4. Synced(r.pc, offline[d], dev[d].phase)
    BY <1>0, <2>1, <2>2 DEF Synced, Between, Is
  <2>5. Pairs'
    BY <1>0, <2>2, <2>3, <2>4, StepKeepsOnline DEF IInv
  <2> QED BY <1>0, <1>1, <1>3, <2>5 DEF BuildCbw, IInv, Globals
<1>4. CASE SendCbw(t)
  <2>1. Globals' /\ UNCHANGED <<dev, offline>> /\ c.pc = "send"
    BY <1>4 DEF SendCbw, IInv, Globals
  <2>2. CASE offline[d]
    <3>0. PICK a \in Int : a = -1 /\ a \in -1 .. 2
      BY Z3T(20), SMTT(20)
    <3> DEFINE r == [c EXCEPT !.pc = "end", !.result = a]
    <3>1. Is(r, c, "end", c.buf, c.done, c.moved, c.tries, c.rcode, c.want, a)
      BY <1>1, <1>l, Rewritten
    <3>2. Step(t, r)
      BY <1>4, <2>2, <3>0 DEF SendCbw
    <3>3. Synced("end", offline[d], dev[d].phase)
      BY <2>2, Zenon DEF Synced, Between
    <3> HIDE DEF r
    <3> QED BY <1>0, <1>1, <1>l, <2>1, <3>0, <3>1, <3>2, <3>3, GoesKeeps DEF IInv
  <2>3. CASE ~offline[d]
    <3> DEFINE r == [c EXCEPT !.pc = "cbw"]
    <3>1. Is(r, c, "cbw", c.buf, c.done, c.moved, c.tries, c.rcode, c.want, c.result)
      BY <1>1, <1>l, Rewritten
    <3>2. Step(t, r)
      BY <1>4, <2>3 DEF SendCbw
    <3>3. Synced("cbw", offline[d], dev[d].phase) /\ c.moved = 0
      BY <1>0, <2>1, <2>3 DEF Synced, Between, ThreadOK
    <3> HIDE DEF r
    <3> QED BY <1>0, <1>1, <1>l, <2>1, <3>1, <3>2, <3>3, GoesKeeps DEF IInv
  <2> QED BY <2>2, <2>3
<1>5. CASE CbwTaken(t)
  <2> DEFINE p == IF Sc(t) > 0 THEN "data" ELSE "status"
             r == [c EXCEPT !.pc = p]
  <2>1. c.pc = "cbw" /\ UNCHANGED offline /\ Globals' /\ Step(t, r)
    BY <1>5 DEF CbwTaken, IInv, Globals
  <2>2. PICK v \in Started(ucmd) : dev' = [dev EXCEPT ![d] = v]
    BY <1>5 DEF CbwTaken
  <2>3. DriveOK(v)
    BY DriveMoves DEF IInv, Globals
  <2>4. c.moved = 0 /\ (p = "data" => 0 < ScOf(c)) /\ p \in {"data", "status"}
    BY <1>0, <1>1, <2>1 DEF ThreadOK
  <2> HIDE DEF p
  <2>5. Is(r, c, p, c.buf, c.done, c.moved, c.tries, c.rcode, c.want, c.result)
    BY <1>1, <1>l, <2>4, Rewritten
  <2> HIDE DEF r
  <2>6. ThreadOK(r)
    <3>1. c.buf \in Buffer(c.n) /\ (c.kind = "write" => c.buf \in [1 .. c.n -> Data])
          /\ c.moved \in 0 .. max_sectors
      BY <1>0 DEF ThreadOK
    <3> QED BY <1>0, <1>1, <1>l, <2>1, <2>4, <2>5, <3>1, GoesOK
  <2>7. Synced(r.pc, offline[d], v.phase)
    BY <2>4, <2>5, InCommand DEF Between, Is
  <2>8. Pairs'
    BY <2>1, <2>2, <2>3, <2>6, <2>7, StepKeepsOnline DEF IInv
  <2> QED BY <2>1, <2>8 DEF IInv
<1>6. CASE CbwFails(t)
  <2>0. PICK a \in Int : a = -1 /\ a \in -1 .. 2
    BY Z3T(20), SMTT(20)
  <2> DEFINE r == [c EXCEPT !.pc = "reset", !.result = a]
  <2>1. Is(r, c, "reset", c.buf, c.done, c.moved, c.tries, c.rcode, c.want, a)
    BY <1>1, <1>l, Rewritten
  <2>2. c.pc = "cbw" /\ Step(t, r) /\ UNCHANGED <<offline, tag, ucmd, disk>>
    BY <1>6, <2>0 DEF CbwFails
  <2> HIDE DEF r
  <2>3. PICK v : DriveOK(v) /\ \/ dev' = [dev EXCEPT ![d] = v]
                               \/ UNCHANGED dev /\ v = dev[d]
    <3>1. CASE UNCHANGED dev
      BY <1>0, <3>1
    <3>2. CASE \E v \in Started(ucmd) \cup {dev[d]} : dev' = [dev EXCEPT ![d] = v]
      BY <1>0, <3>2, DriveMoves DEF IInv, Globals
    <3> QED BY <1>6, <3>1, <3>2 DEF CbwFails
  <2>4. halted' \in [Drives -> SUBSET {"in", "out"}]
    BY <1>6 DEF CbwFails, IInv, Globals
  <2>5. Synced("reset", offline[d], v.phase)
    BY InCommand DEF Between
  <2>6. Pairs'
    BY <1>0, <1>1, <1>l, <2>0, <2>1, <2>2, <2>3, <2>5, GoesKeeps DEF IInv
  <2> QED BY <2>2, <2>4, <2>6 DEF IInv, Globals
<1> QED BY <1>2, <1>3, <1>4, <1>5, <1>6

\* A sector is due: where it is in the buffer.
LEMMA Due ==
    ASSUME NEW c, ThreadOK(c), c.pc = "data"
    PROVE  /\ c.done + c.moved + 1 \in 1 .. c.n
           /\ c.moved + 1 \in 0 .. max_sectors /\ c.moved + 1 <= ScOf(c)
<1>1. c.moved < ScOf(c)
  BY DEF ThreadOK
<1> HIDE DEF ScOf
<1> QED BY Z3T(20), SMTT(20), <1>1, Counts, Sizes

\* A sector has been moved and the call goes on with the buffer b.
LEMMA MovedKeeps ==
    ASSUME Pairs, NEW t \in Threads, thread[t].pc = "data",
           NEW b \in Buffer(thread[t].n), thread[t].kind = "write" => b \in [1 .. thread[t].n -> Data],
           Moved(t, b), UNCHANGED offline, NEW v, DriveOK(v), dev' = [dev EXCEPT ![Drive[t]] = v]
    PROVE  Pairs'
<1> DEFINE c == thread[t]
           p == IF c.moved + 1 = Sc(t) THEN "status" ELSE "data"
           m == c.moved + 1
           r == [c EXCEPT !.buf = b, !.moved = m, !.pc = p]
<1>1. ThreadOK(c) /\ Sc(t) = ScOf(c)
  BY Before
<1>2. /\ c \in Locals /\ c.tries \in 1 .. SCSI_MAX_RETRIES /\ c.want \in Tags /\ c.result \in -1 .. 2
      /\ c.n \in Nat /\ ScOf(c) \in Nat
  BY <1>1, Counts DEF ThreadOK
<1>3. m \in 0 .. max_sectors /\ m <= ScOf(c)
  BY <1>1, Due
<1>4. m \in Nat /\ b \in Buffers
  BY Z3T(20), SMTT(20), <1>2, <1>3 DEF Buffers
<1>5. p \in Labels /\ p \in {"status", "data"} /\ (p = "data" => m < ScOf(c))
  BY Z3T(20), SMTT(20), <1>1, <1>2, <1>3, <1>4 DEF Labels, Computing
<1>6. Step(t, r)
  BY DEF Moved
<1> HIDE DEF p, m
<1>7. Is(r, c, p, b, c.done, m, c.tries, c.rcode, c.want, c.result)
  BY <1>2, <1>4, <1>5, Rewritten
<1> HIDE DEF r
<1>8. ThreadOK(r)
  BY <1>1, <1>2, <1>3, <1>5, <1>7, GoesOK
<1>9. Synced(r.pc, offline[Drive[t]], v.phase)
  BY <1>5, <1>7, InCommand DEF Is, Between
<1> QED BY <1>6, <1>8, <1>9, StepKeepsOnline

\* The sector that a drive is at when it moves it well.
LEMMA AtSector ==
    ASSUME NEW v, DriveOK(v), 0 \in Moves(v), v.cmd.kind # "query"
    PROVE  At(v) \in Sectors
<1>1. v.cmd.s \in Nat /\ v.k \in Nat
  BY Z3T(20), SMTT(20), Sizes DEF DriveOK, Commands
<1>2. At(v) < sectorCount
  BY Z3T(20), SMTT(20) DEF Moves, InRange
<1> QED BY Z3T(20), SMTT(20), <1>1, <1>2, Sizes DEF At, Sectors

\* What a write leaves on the medium.
LEMMA StoreKeeps ==
    ASSUME IInv, NEW t \in Threads, DataReady(t), Pipe(t) = "out",
           NEW st \in Moves(dev[Drive[t]]), Store(t, st)
    PROVE  disk' \in [Drives -> [Sectors -> Data]]
<1> DEFINE c == thread[t]
           d == Drive[t]
           x == c.buf[c.done + c.moved + 1]
<1>1. d \in Drives /\ ThreadOK(c) /\ DriveOK(dev[d])
  BY Before DEF IInv
<1>2. c.pc = "data" /\ c.kind = "write" /\ dev[d].cmd.kind = "write"
  BY DEF DataReady, Pipe
<1>3. x \in Data
  <2>1. c.done + c.moved + 1 \in 1 .. c.n
    BY <1>1, <1>2, Due
  <2> QED BY <1>1, <1>2, <2>1 DEF ThreadOK
<1>4. disk \in [Drives -> [Sectors -> Data]]
  BY DEF IInv, Globals
<1>5. CASE st = 0
  <2>1. At(dev[d]) \in Sectors
    BY <1>1, <1>2, <1>5, AtSector
  <2>2. disk' = [disk EXCEPT ![d][At(dev[d])] = x]
    BY <1>5 DEF Store
  <2> HIDE DEF x
  <2> QED BY <1>1, <1>3, <1>4, <2>1, <2>2
<1>6. CASE st # 0
  BY <1>4, <1>6 DEF Store
<1> QED BY <1>5, <1>6

\* The data phase breaks off.
LEMMA FailsKeeps ==
    ASSUME Pairs, NEW t \in Threads, thread[t].pc = "data", DataFails(t), UNCHANGED offline,
           NEW v, DriveOK(v), \/ dev' = [dev EXCEPT ![Drive[t]] = v]
                              \/ UNCHANGED dev /\ v = dev[Drive[t]]
    PROVE  Pairs'
<1> DEFINE c == thread[t]
           r == [c EXCEPT !.pc = "dataclear", !.rcode = "err"]
<1>1. ThreadOK(c)
  BY Before
<1>2. /\ c \in Locals /\ c.tries \in 1 .. SCSI_MAX_RETRIES /\ c.want \in Tags /\ c.result \in -1 .. 2
  BY <1>1 DEF ThreadOK
<1>3. "dataclear" \in Labels
  BY DEF Labels
<1>4. Is(r, c, "dataclear", c.buf, c.done, c.moved, c.tries, "err", c.want, c.result)
  BY <1>2, <1>3, Rewritten
<1>5. Step(t, r)
  BY DEF DataFails
<1>6. Synced("dataclear", offline[Drive[t]], v.phase)
  BY InCommand DEF Between
<1> HIDE DEF r
<1> QED BY <1>2, <1>3, <1>4, <1>5, <1>6, GoesKeeps

\* CLEAR_FEATURE keeps the type of the pipes.
LEMMA ClearKeeps ==
    ASSUME Globals, NEW t \in Threads, NEW pipe, NEW ok \in BOOLEAN, NEW failed \in BOOLEAN,
           ClearFeature(t, pipe, ok, failed)
    PROVE  halted' \in [Drives -> SUBSET {"in", "out"}] /\ (ok \/ failed)
<1>1. Drive[t] \in Drives
  BY DEF Drives
<1>2. halted' \in [Drives -> SUBSET {"in", "out"}]
  BY Z3T(20), SMTT(20), <1>1 DEF Globals, ClearFeature
<1>3. ok \/ failed
  BY Zenon DEF ClearFeature
<1> QED BY <1>2, <1>3

\* The steps of usb_bulk_transfer.
LEMMA DataKeeps ==
    ASSUME IInv, NEW t \in Threads,
           \/ DataIn(t) \/ DataOut(t) \/ DataStall(t) \/ DataHalted(t)
           \/ DataShort(t) \/ DataTakesCsw(t) \/ DataError(t)
    PROVE  IInv'
<1> DEFINE c == thread[t]
           d == Drive[t]
<1>0. /\ d \in Drives /\ ThreadOK(c) /\ DriveOK(dev[d]) /\ Synced(c.pc, offline[d], dev[d].phase)
      /\ c.pc = "data"
  BY Before DEF IInv, DataIn, DataOut, DataStall, DataHalted, DataShort, DataTakesCsw, DataError,
                DataReady
<1>1. c.buf \in Buffer(c.n) /\ (c.kind = "write" => c.buf \in [1 .. c.n -> Data])
  BY <1>0 DEF ThreadOK
<1>2. CASE DataIn(t)
  <2>1. PICK st \in Moves(dev[d]) :
           /\ \E v \in Advanced(dev[d], st) : dev' = [dev EXCEPT ![d] = v]
           /\ Moved(t, [c.buf EXCEPT ![c.done + c.moved + 1] =
                           IF st = 0 /\ dev[d].cmd.kind = "read" THEN disk[d][At(dev[d])] ELSE Junk])
    BY <1>2 DEF DataIn
  <2> DEFINE x == IF st = 0 /\ dev[d].cmd.kind = "read" THEN disk[d][At(dev[d])] ELSE Junk
             b == [c.buf EXCEPT ![c.done + c.moved + 1] = x]
  <2>2. PICK v \in Advanced(dev[d], st) : dev' = [dev EXCEPT ![d] = v]
    BY <2>1
  <2>3. DriveOK(v)
    BY <1>0, <1>2, <2>1, <2>2, DriveMoves DEF DataIn, DataReady
  <2>4. x \in Data \cup {Junk}
    <3>1. CASE st = 0 /\ dev[d].cmd.kind = "read"
      <4>1. At(dev[d]) \in Sectors
        BY <1>0, <2>1, <3>1, AtSector
      <4> QED BY Z3T(20), SMTT(20), <1>0, <3>1, <4>1 DEF IInv, Globals
    <3>2. CASE ~(st = 0 /\ dev[d].cmd.kind = "read")
      BY <3>2
    <3> QED BY <3>1, <3>2
  <2>5. Moved(t, b) /\ UNCHANGED offline /\ Globals' /\ c.kind # "write"
    BY <1>2, <2>1 DEF DataIn, IInv, Globals, Pipe
  <2> HIDE DEF x
  <2>6. b \in Buffer(c.n)
    BY <1>1, <2>4 DEF Buffer
  <2> HIDE DEF b
  <2>7. Pairs'
    BY <1>0, <2>2, <2>3, <2>5, <2>6, MovedKeeps DEF IInv
  <2> QED BY <2>5, <2>7 DEF IInv
<1>3. CASE DataOut(t)
  <2>1. PICK st \in Moves(dev[d]) :
           /\ \E v \in Advanced(dev[d], st) : dev' = [dev EXCEPT ![d] = v]
           /\ Store(t, st)
    BY <1>3 DEF DataOut
  <2>2. PICK v \in Advanced(dev[d], st) : dev' = [dev EXCEPT ![d] = v]
    BY <2>1
  <2>3. DriveOK(v)
    BY <1>0, <1>3, <2>1, <2>2, DriveMoves DEF DataOut, DataReady
  <2>4. disk' \in [Drives -> [Sectors -> Data]]
    BY <1>3, <2>1, StoreKeeps DEF DataOut
  <2>5. Moved(t, c.buf) /\ UNCHANGED <<tag, ucmd, offline, halted>>
    BY <1>3 DEF DataOut
  <2>6. Pairs'
    BY <1>0, <1>1, <2>2, <2>3, <2>5, MovedKeeps DEF IInv
  <2> QED BY <2>4, <2>5, <2>6 DEF IInv, Globals
<1>4. CASE DataStall(t)
  <2>1. PICK v \in Cut(dev[d]) : dev' = [dev EXCEPT ![d] = v]
    BY <1>4 DEF DataStall
  <2>2. DriveOK(v)
    BY <1>0, <2>1, DriveMoves
  <2>3. DataFails(t) /\ UNCHANGED <<tag, ucmd, offline, disk>>
    BY <1>4 DEF DataStall
  <2>4. halted' \in [Drives -> SUBSET {"in", "out"}]
    BY <1>4 DEF DataStall, IInv, Globals, Pipe
  <2>5. Pairs'
    BY <1>0, <2>1, <2>2, <2>3, FailsKeeps DEF IInv
  <2> QED BY <2>3, <2>4, <2>5 DEF IInv, Globals
<1>5. CASE DataHalted(t)
  <2>1. DataFails(t) /\ UNCHANGED <<tag, ucmd, offline, dev, halted, disk>>
    BY <1>5 DEF DataHalted
  <2>2. Pairs'
    BY <1>0, <2>1, FailsKeeps DEF IInv
  <2> QED BY <2>1, <2>2 DEF IInv, Globals
<1>6. CASE DataShort(t) \/ DataTakesCsw(t)
  <2>1. PICK v : DriveOK(v) /\ dev' = [dev EXCEPT ![d] = v]
    BY <1>0, <1>6, DriveMoves DEF DataShort, DataTakesCsw
  <2>2. UNCHANGED <<thread, tag, ucmd, offline, halted, disk>>
    BY <1>6 DEF DataShort, DataTakesCsw
  <2>3. Step(t, c)
    BY <2>2 DEF Step, IInv, Pairs
  <2>4. Synced(c.pc, offline[d], v.phase)
    BY <1>0, InCommand DEF Between
  <2>5. Pairs'
    BY <1>0, <2>1, <2>2, <2>3, <2>4, StepKeepsOnline DEF IInv
  <2> QED BY <2>2, <2>5 DEF IInv, Globals
<1>7. CASE DataError(t)
  <2>1. DataFails(t) /\ UNCHANGED <<tag, ucmd, offline, halted>>
    BY <1>7 DEF DataError
  <2>2. CASE UNCHANGED <<dev, disk>>
    <3>1. Pairs'
      BY <1>0, <2>1, <2>2, FailsKeeps DEF IInv
    <3> QED BY <2>1, <2>2, <3>1 DEF IInv, Globals
  <2>3. CASE /\ Pipe(t) = "out"
             /\ \E st \in Moves(dev[d]) :
                   /\ \E v \in Advanced(dev[d], st) : dev' = [dev EXCEPT ![d] = v]
                   /\ Store(t, st)
    <3>1. PICK st \in Moves(dev[d]) :
             /\ \E v \in Advanced(dev[d], st) : dev' = [dev EXCEPT ![d] = v]
             /\ Store(t, st)
      BY <2>3
    <3>2. PICK v \in Advanced(dev[d], st) : dev' = [dev EXCEPT ![d] = v]
      BY <3>1
    <3>3. DriveOK(v)
      BY <1>0, <1>7, <3>1, <3>2, DriveMoves DEF DataError, DataReady
    <3>4. disk' \in [Drives -> [Sectors -> Data]]
      BY <1>7, <2>3, <3>1, StoreKeeps DEF DataError
    <3>5. Pairs'
      BY <1>0, <2>1, <3>2, <3>3, FailsKeeps DEF IInv
    <3> QED BY <2>1, <3>4, <3>5 DEF IInv, Globals
  <2> QED BY <1>7, <2>2, <2>3 DEF DataError
<1> QED BY <1>2, <1>3, <1>4, <1>5, <1>6, <1>7

\* A step that writes only pc, and leaves the drive as it is.
LEMMA PcKeeps ==
    ASSUME Pairs, NEW t \in Threads, thread[t].pc # "idle", NEW p \in Labels,
           p \notin {"idle", "data", "send", "cbw"}, Step(t, [thread[t] EXCEPT !.pc = p]),
           UNCHANGED offline, NEW v, DriveOK(v),
           \/ dev' = [dev EXCEPT ![Drive[t]] = v]
           \/ UNCHANGED dev /\ v = dev[Drive[t]],
           Synced(p, offline[Drive[t]], v.phase)
    PROVE  Pairs'
<1> DEFINE c == thread[t]
           r == [c EXCEPT !.pc = p]
<1>1. /\ c \in Locals /\ c.tries \in 1 .. SCSI_MAX_RETRIES /\ c.want \in Tags /\ c.result \in -1 .. 2
  BY Before DEF ThreadOK
<1>2. Is(r, c, p, c.buf, c.done, c.moved, c.tries, c.rcode, c.want, c.result)
  BY <1>1, Rewritten
<1>3. Step(t, r)
  OBVIOUS
<1> HIDE DEF r
<1> QED BY <1>1, <1>2, <1>3, GoesKeeps

\* The steps of usb_bulk_manage_status, and usb_bulk_clear_halt before it.
LEMMA StatusKeeps ==
    ASSUME IInv, NEW t \in Threads,
           DataClear(t) \/ AskStatus(t) \/ CswArrives(t) \/ CswFails(t) \/ CswClear(t)
    PROVE  IInv'
<1> DEFINE c == thread[t]
           d == Drive[t]
<1>0. /\ d \in Drives /\ ThreadOK(c) /\ DriveOK(dev[d]) /\ Synced(c.pc, offline[d], dev[d].phase)
  BY Before DEF IInv
<1>1. /\ c \in Locals
      /\ c.tries \in 1 .. SCSI_MAX_RETRIES /\ c.want \in Tags /\ c.result \in -1 .. 2
  BY <1>0 DEF ThreadOK
<1>l. {"status", "csw1", "csw2", "cswclear", "reset", "end"} \subseteq Labels
  BY DEF Labels, Computing
<1>2. ASSUME NEW pipe, NEW p \in {"status", "csw2"}, c.pc # "idle", ClearHalt(t, pipe, p)
      PROVE  IInv'
  <2>1. Step(t, [c EXCEPT !.pc = p]) /\ UNCHANGED <<tag, ucmd, offline, dev, disk>>
    BY <1>2 DEF ClearHalt
  <2>2. Synced(p, offline[d], dev[d].phase)
    BY InCommand DEF Between
  <2>3. Pairs'
    BY <1>0, <1>l, <1>2, <2>1, <2>2, PcKeeps DEF IInv
  <2>4. halted' \in [Drives -> SUBSET {"in", "out"}]
    BY <1>2, ClearKeeps DEF ClearHalt, IInv
  <2> QED BY <2>1, <2>3, <2>4 DEF IInv, Globals
<1>3. CASE DataClear(t)
  BY <1>2, <1>3 DEF DataClear
<1>4. CASE CswClear(t)
  BY <1>2, <1>4 DEF CswClear
<1>5. CASE AskStatus(t)
  <2> DEFINE r == [c EXCEPT !.pc = "csw1", !.want = tag]
  <2>1. tag \in Tags /\ tag \in Nat
    BY Z3T(20), SMTT(20), Sizes DEF IInv, Globals, Tags
  <2>2. Is(r, c, "csw1", c.buf, c.done, c.moved, c.tries, c.rcode, tag, c.result)
    BY <1>1, <1>l, <2>1, Rewritten
  <2>3. Step(t, r) /\ UNCHANGED <<dev, offline>> /\ c.pc = "status" /\ Globals'
    BY <1>5 DEF AskStatus, IInv, Globals
  <2>4. Synced("csw1", offline[d], dev[d].phase)
    BY InCommand DEF Between
  <2> HIDE DEF r
  <2>5. Pairs'
    BY <1>0, <1>1, <1>l, <2>1, <2>2, <2>3, <2>4, GoesKeeps DEF IInv
  <2> QED BY <2>3, <2>5 DEF IInv
<1>6. CASE CswArrives(t)
  <2> DEFINE good == dev[d].tag = c.want
             a == IF good THEN dev[d].status ELSE -1
             p == IF ~good \/ dev[d].status = 2 THEN "reset" ELSE "end"
             r == [c EXCEPT !.result = a, !.pc = p]
  <2>1. a \in -1 .. 2 /\ a \in Int
    BY Z3T(20), SMTT(20), <1>0 DEF DriveOK
  <2>2. p \in {"reset", "end"}
    OBVIOUS
  <2>3. /\ Step(t, r) /\ UNCHANGED offline /\ c.pc # "idle" /\ Globals'
        /\ dev' = [dev EXCEPT ![d] = Waiting]
    BY <1>6 DEF CswArrives, IInv, Globals
  <2> HIDE DEF a, p
  <2>4. Is(r, c, p, c.buf, c.done, c.moved, c.tries, c.rcode, c.want, a)
    BY <1>1, <1>l, <2>1, <2>2, Rewritten
  <2>5. Synced(p, offline[d], Waiting.phase)
    BY <2>2 DEF Synced, Waiting
  <2> HIDE DEF r
  <2>6. Pairs'
    BY <1>1, <1>l, <2>1, <2>2, <2>3, <2>4, <2>5, DriveMoves, GoesKeeps DEF IInv
  <2> QED BY <2>3, <2>6 DEF IInv
<1>7. CASE CswFails(t)
  <2>0. PICK a \in Int : a = -1 /\ a \in -1 .. 2
    BY Z3T(20), SMTT(20)
  <2> DEFINE p == IF c.pc = "csw1" THEN "cswclear" ELSE "reset"
             r == [c EXCEPT !.pc = p, !.result = a]
  <2>2. p \in {"cswclear", "reset"}
    OBVIOUS
  <2>3. Step(t, r) /\ UNCHANGED <<dev, offline>> /\ c.pc # "idle" /\ Globals'
    BY <1>7, <2>0 DEF CswFails, IInv, Globals
  <2> HIDE DEF p
  <2>4. Is(r, c, p, c.buf, c.done, c.moved, c.tries, c.rcode, c.want, a)
    BY <1>1, <1>l, <2>2, Rewritten
  <2>5. Synced(p, offline[d], dev[d].phase)
    BY <2>2, InCommand DEF Between
  <2> HIDE DEF r
  <2>6. Pairs'
    BY <1>0, <1>1, <1>l, <2>0, <2>2, <2>3, <2>4, <2>5, GoesKeeps DEF IInv
  <2> QED BY <2>3, <2>6 DEF IInv
<1> QED BY <1>3, <1>4, <1>5, <1>6, <1>7

\* The steps of usb_bulk_reset: a drive that stays online waits for a CBW afterwards.
LEMMA ResetKeeps ==
    ASSUME IInv, NEW t \in Threads, ResetDrive(t) \/ ResetIn(t) \/ ResetOut(t)
    PROVE  IInv'
<1> DEFINE c == thread[t]
           d == Drive[t]
<1>0. /\ d \in Drives /\ ThreadOK(c) /\ DriveOK(dev[d]) /\ Synced(c.pc, offline[d], dev[d].phase)
  BY Before DEF IInv
<1>l. {"clearin", "clearout", "end"} \subseteq Labels
  BY DEF Labels, Computing
\* the drive goes offline
<1>1. ASSUME GoesOffline(t), c.pc # "idle", NEW v, DriveOK(v),
             \/ dev' = [dev EXCEPT ![d] = v]
             \/ UNCHANGED dev /\ v = dev[d]
      PROVE  Pairs'
  <2> DEFINE r == [c EXCEPT !.pc = "end"]
  <2>1. /\ c \in Locals /\ c.tries \in 1 .. SCSI_MAX_RETRIES /\ c.want \in Tags /\ c.result \in -1 .. 2
        /\ c.buf \in Buffer(c.n) /\ (c.kind = "write" => c.buf \in [1 .. c.n -> Data])
        /\ c.moved \in 0 .. max_sectors
    BY <1>0 DEF ThreadOK
  <2>2. Is(r, c, "end", c.buf, c.done, c.moved, c.tries, c.rcode, c.want, c.result)
    BY <1>l, <2>1, Rewritten
  <2>3. Step(t, r) /\ offline' = [offline EXCEPT ![d] = TRUE]
    BY <1>1 DEF GoesOffline
  <2>4. dev' = [dev EXCEPT ![d] = v]
    BY <1>0, <1>1 DEF IInv, Pairs
  <2> HIDE DEF r
  <2>5. ThreadOK(r)
    BY <1>0, <1>1, <1>l, <2>1, <2>2, GoesOK
  <2>6. Pair(r, TRUE, v)
    BY <1>1, <2>2, <2>5 DEF Pair, Synced, Is
  <2> QED BY <2>3, <2>4, <2>6, StepKeeps DEF IInv
<1>2. CASE ResetDrive(t)
  <2>1. c.pc = "reset" /\ Globals'
    BY <1>2 DEF ResetDrive, IInv, Globals
  <2>2. CASE dev' = [dev EXCEPT ![d] = Waiting] /\ GoesOn(t, "clearin")
    <3>1. Synced("clearin", offline[d], Waiting.phase)
      BY DEF Synced, Waiting
    <3>2. Step(t, [c EXCEPT !.pc = "clearin"]) /\ UNCHANGED offline
      BY <2>2 DEF GoesOn
    <3>3. Pairs'
      BY <1>l, <2>1, <2>2, <3>1, <3>2, DriveMoves, PcKeeps DEF IInv
    <3> QED BY <2>1, <3>3 DEF IInv
  <2>3. CASE dev' \in {dev, [dev EXCEPT ![d] = Waiting]} /\ GoesOffline(t)
    <3>1. Pairs'
      BY <1>0, <1>1, <2>1, <2>3, DriveMoves
    <3> QED BY <2>1, <3>1 DEF IInv
  <2> QED BY <1>2, <2>2, <2>3 DEF ResetDrive
<1>3. ASSUME NEW pipe, NEW p \in {"clearout", "end"}, c.pc \in {"clearin", "clearout"},
             ResetPipe(t, pipe, p)
      PROVE  IInv'
  <2>1. /\ UNCHANGED <<tag, ucmd, dev, disk>>
        /\ halted' \in [Drives -> SUBSET {"in", "out"}]
        /\ GoesOn(t, p) \/ GoesOffline(t)
    <3> DEFINE ok == GoesOn(t, p)
               failed == GoesOffline(t)
    <3>1. ClearFeature(t, pipe, ok, failed) /\ UNCHANGED <<tag, ucmd, dev, disk>>
      BY <1>3 DEF ResetPipe
    <3>2. halted' \in [Drives -> SUBSET {"in", "out"}]
      BY Z3T(20), SMTT(20), <1>0, <3>1 DEF ClearFeature, IInv, Globals
    <3>3. ok \/ failed
      BY <3>1, Zenon DEF ClearFeature
    <3> QED BY <3>1, <3>2, <3>3
  <2>2. Globals'
    BY <2>1 DEF IInv, Globals
  <2>3. CASE GoesOn(t, p)
    <3>1. Synced(p, offline[d], dev[d].phase)
      BY <1>0, <1>3 DEF Synced, Between
    <3>2. Step(t, [c EXCEPT !.pc = p]) /\ UNCHANGED offline
      BY <2>3 DEF GoesOn
    <3>3. Pairs'
      BY <1>0, <1>l, <1>3, <2>1, <3>1, <3>2, PcKeeps DEF IInv
    <3> QED BY <2>2, <3>3 DEF IInv
  <2>4. CASE GoesOffline(t)
    <3>1. Pairs'
      BY <1>0, <1>1, <1>3, <2>1, <2>4
    <3> QED BY <2>2, <3>1 DEF IInv
  <2> QED BY <2>1, <2>3, <2>4
<1>4. CASE ResetIn(t)
  BY <1>3, <1>4 DEF ResetIn
<1>5. CASE ResetOut(t)
  BY <1>3, <1>5 DEF ResetOut
<1> QED BY <1>2, <1>4, <1>5

\* The end of a command, and of a call.
LEMMA EndKeeps ==
    ASSUME IInv, NEW t \in Threads, Nothing(t) \/ EndQuery(t) \/ EndGood(t) \/ EndBad(t)
    PROVE  IInv'
<1> DEFINE c == thread[t]
           d == Drive[t]
<1>0. /\ d \in Drives /\ ThreadOK(c) /\ DriveOK(dev[d]) /\ Synced(c.pc, offline[d], dev[d].phase)
      /\ Sc(t) = ScOf(c)
  BY Before DEF IInv
<1>1. /\ c.pc \in {"nothing", "end"} /\ UNCHANGED <<tag, ucmd, offline, dev, halted, disk>>
  BY DEF Nothing, EndQuery, EndGood, EndBad
<1>2. Globals'
  BY <1>1 DEF IInv, Globals
<1>3. /\ c \in Locals /\ c.want \in Tags /\ c.result \in -1 .. 2 /\ c.tries \in 1 .. SCSI_MAX_RETRIES
      /\ c.buf \in Buffer(c.n) /\ (c.kind = "write" => c.buf \in [1 .. c.n -> Data])
      /\ c.moved \in 0 .. max_sectors /\ c.n \in Nat
  BY <1>0, Counts DEF ThreadOK
<1>s. Synced("tag", offline[d], dev[d].phase) /\ Synced("idle", offline[d], dev[d].phase)
      /\ "tag" \in Labels
  BY <1>0, <1>1 DEF Synced, Between, Labels, Computing
<1>4. CASE Step(t, Idle)
  <2>1. Pairs'
    BY <1>0, <1>1, <1>4, <1>s, IdleOK, StepKeepsOnline DEF IInv
  <2> QED BY <1>2, <2>1 DEF IInv
<1>5. CASE /\ c.done + ScOf(c) < c.n /\ c.kind # "query"
           /\ Step(t, [c EXCEPT !.pc = "tag", !.done = c.done + ScOf(c), !.tries = SCSI_MAX_RETRIES])
  <2> DEFINE a == c.done + ScOf(c)
             r == [c EXCEPT !.pc = "tag", !.done = a, !.tries = SCSI_MAX_RETRIES]
  <2>1. a \in Nat /\ a \in 0 .. c.n
    BY Z3T(20), SMTT(20), <1>0, Counts
  <2>2. Step(t, r)
    BY <1>5
  <2> HIDE DEF a
  <2>3. Is(r, c, "tag", c.buf, a, c.moved, SCSI_MAX_RETRIES, c.rcode, c.want, c.result)
    BY <1>3, <1>s, <2>1, Rewritten, Sizes
  <2> HIDE DEF r
  <2>4. ThreadOK(r)
    BY Z3T(20), SMTT(20), <1>0, <1>1, <1>3, <1>5, <2>1, <2>3, Sizes DEF ThreadOK, Is
  <2>5. Pairs'
    BY <1>0, <1>1, <1>s, <2>2, <2>3, <2>4, StepKeepsOnline DEF IInv, Is
  <2> QED BY <1>2, <2>5 DEF IInv
<1>6. CASE c.tries > 1 /\ Step(t, [c EXCEPT !.pc = "tag", !.tries = c.tries - 1])
  <2> DEFINE a == c.tries - 1
             r == [c EXCEPT !.pc = "tag", !.tries = a]
  <2>1. a \in Nat /\ a \in 1 .. SCSI_MAX_RETRIES
    BY Z3T(20), SMTT(20), <1>3, <1>6, Sizes
  <2>2. Step(t, r)
    BY <1>6
  <2> HIDE DEF a
  <2>3. Is(r, c, "tag", c.buf, c.done, c.moved, a, c.rcode, c.want, c.result)
    BY <1>3, <1>s, <2>1, Rewritten
  <2> HIDE DEF r
  <2>4. Pairs'
    BY <1>0, <1>1, <1>3, <1>s, <2>1, <2>2, <2>3, GoesKeeps DEF IInv
  <2> QED BY <1>2, <2>4 DEF IInv
<1>7. \/ Step(t, Idle)
      \/ /\ c.done + ScOf(c) < c.n /\ c.kind # "query"
         /\ Step(t, [c EXCEPT !.pc = "tag", !.done = c.done + ScOf(c), !.tries = SCSI_MAX_RETRIES])
      \/ c.tries > 1 /\ Step(t, [c EXCEPT !.pc = "tag", !.tries = c.tries - 1])
  BY <1>0 DEF Nothing, EndQuery, EndGood, EndBad, Return
<1> QED BY <1>4, <1>5, <1>6, <1>7

\* The inductive step.
LEMMA NextKeeps ==
    ASSUME IInv, [Next]_vars
    PROVE  IInv'
<1>1. CASE Next
  <2>1. PICK t \in Threads : Calls(t) \/ Proceeds(t)
    BY <1>1 DEF Next
  <2> QED BY <2>1, CallsKeep, CommandKeeps, DataKeeps, StatusKeeps, ResetKeeps, EndKeeps DEF Proceeds
<1>2. CASE UNCHANGED vars
  BY <1>2 DEF vars, IInv, Pairs, Globals
<1> QED BY <1>1, <1>2

\* The first states.
LEMMA InitOK ==
    ASSUME Init
    PROVE  IInv
<1>1. Globals
  BY Z3T(20), SMTT(20), Sizes DEF Init, Globals, NoCommand, Commands, Tags
<1>2. ASSUME NEW t \in Threads
      PROVE  Pair(thread[t], offline[Drive[t]], dev[Drive[t]])
  <2>1. Drive[t] \in Drives
    BY DEF Drives
  <2>2. thread[t] = Idle /\ offline[Drive[t]] = FALSE /\ dev[Drive[t]] = Waiting
    BY <2>1 DEF Init
  <2>3. Synced("idle", FALSE, Waiting.phase)
    BY DEF Synced, Waiting
  <2> QED BY <2>2, <2>3, IdleOK, DriveMoves DEF Pair
<1>3. Pairs
  BY <1>2 DEF Init, Pairs
<1> QED BY <1>1, <1>3 DEF IInv

\* What the invariant is for.
LEMMA InvSound ==
    ASSUME IInv
    PROVE  TransportSound
<1>1. ASSUME NEW t \in Threads
      PROVE  /\ ThreadOK(thread[t]) /\ DriveOK(dev[Drive[t]]) /\ offline[Drive[t]] \in BOOLEAN
             /\ Synced(thread[t].pc, offline[Drive[t]], dev[Drive[t]].phase)
  BY DEF IInv, Pairs, Pair
<1>2. \A d \in Drives : \E t \in Threads : d = Drive[t]
  BY DEF Drives
<1>3. offline \in [Drives -> BOOLEAN]
  BY <1>1, <1>2 DEF IInv, Pairs
<1>4. dev \in [Drives -> [phase : {"cbw", "data", "csw"}, cmd : Commands, tag : Tags,
                          k : 0 .. max_sectors, status : 0 .. 2]]
  BY Z3T(20), SMTT(20), <1>1, <1>2 DEF IInv, Pairs, DriveOK
<1>5. ASSUME NEW t \in Threads
      PROVE  /\ thread[t].pc \in Labels
             /\ thread[t].s \in Requested /\ thread[t].n \in 0 .. MaxCount \cup {1}
             /\ thread[t].buf \in Buffer(thread[t].n)
             /\ thread[t].done \in 0 .. thread[t].n
             /\ thread[t].moved \in 0 .. max_sectors
             /\ thread[t].tries \in 1 .. SCSI_MAX_RETRIES
             /\ thread[t].want \in Tags
             /\ thread[t].result \in -1 .. 2
  BY <1>1 DEF ThreadOK, Locals
<1>6. TypeOK
  BY <1>3, <1>4, <1>5 DEF TypeOK, IInv, Globals
<1>7. InStep
  BY <1>1 DEF InStep, Synced, Between
<1> QED BY <1>6, <1>7 DEF TransportSound

\* For any number of drives and of threads, and whatever fails: the locals of scsi_read,
\* scsi_write and the transport stay in range, so that no transfer leaves the buffer of
\* its call, and no CBW is sent to a drive that is in the middle of another command.
THEOREM TransportIsSound == Spec => []TransportSound
<1>1. Init => IInv
  BY InitOK
<1>2. IInv /\ [Next]_vars => IInv'
  BY NextKeeps
<1>3. IInv => TransportSound
  BY InvSound
<1> QED BY <1>1, <1>2, <1>3, PTL DEF Spec

-----------------------------------------------------------------------------
(* A single drive *)

\* the one thread, of the one drive
OneThread == \A t, u \in Threads : t = u

\* where the drive may be at work on a command of the thread
Under == {"data", "dataclear", "status", "csw1", "cswclear", "csw2"}

\* The drive works on the command of its thread, and counts with it as long as
\* the data phase goes well; whatever needs a reset has failed.
Owned(c, v, u) ==
    /\ c.pc = "nothing" => c.n = 0 /\ c.kind # "query"
    /\ c.pc \in {"send", "cbw"} => u.cmd = CommandOf(c)
    /\ c.pc \in Under /\ v.phase # "cbw" => v.cmd = CommandOf(c)
    /\ c.pc \in {"send", "cbw", "data"} => c.rcode = "ok"
    /\ c.pc = "dataclear" => c.rcode = "err"
    /\ c.pc \in Under /\ c.rcode = "ok" /\ v.phase # "cbw" => v.k = c.moved
    /\ c.pc \in {"status", "csw1", "cswclear", "csw2"} /\ c.rcode = "ok" => c.moved = ScOf(c)
    /\ c.pc \in {"reset", "clearin", "clearout"} => c.result # 0

\* the whole command went well, or has so far
AllWell(c) == c.pc = "end" /\ c.rcode = "ok" /\ c.result = 0
SoFarWell(c, v) ==
    /\ c.pc \in Under /\ c.rcode = "ok" /\ v.status = 0
    /\ v.phase = "data" \/ (v.phase = "csw" /\ c.pc # "data")

\* sectors of the request that are known to have been moved well
Through(c, v) ==
    IF AllWell(c) THEN c.done + ScOf(c)
    ELSE IF SoFarWell(c, v) THEN c.done + c.moved
    ELSE c.done

\* the first p sectors of the request are on the medium m, which was z
Prefix(c, m, z, p) ==
    /\ m = [x \in Sectors |-> IF c.s <= x /\ x < c.s + p THEN c.buf[x - c.s + 1] ELSE z[x]]
    /\ p = 0 \/ c.s + p <= sectorCount

\* A read has put what the medium holds in the buffer, as far as it got; a write
\* has stored a prefix of the buffer that is at least as long.
Content(c, v, m, z) ==
    /\ z \in [Sectors -> Data]
    /\ c.kind # "write" => m = z
    /\ c.kind = "read" =>
          \A i \in 1 .. Through(c, v) :
             c.s + i <= sectorCount /\ c.buf[i] = z[c.s + i - 1]
    /\ c.kind = "write" =>
          \E p \in Through(c, v) .. c.n : Prefix(c, m, z, p)

\* with IInv, the inductive invariant for one thread
Alone ==
    /\ seen = [d \in Drives |-> seen[d]]
    /\ reply = [t \in Threads |-> reply[t]]
    /\ \A t \in Threads :
          /\ Owned(thread[t], dev[Drive[t]], ucmd)
          /\ Content(thread[t], dev[Drive[t]], disk[Drive[t]], seen[Drive[t]])

\* what a step is to the user of a drive
Promised(t) == Device(t)!Next \/ UNCHANGED <<seen[Drive[t]], Asked(t), reply[t]>>

-----------------------------------------------------------------------------
\* The progress of a call is within its command.
LEMMA Progress ==
    ASSUME NEW c, NEW v, NEW u, ThreadOK(c), Owned(c, v, u)
    PROVE  /\ Through(c, v) \in Nat
           /\ c.done <= Through(c, v) /\ Through(c, v) <= c.done + ScOf(c) /\ Through(c, v) <= c.n
<1>1. /\ c.done \in Nat /\ c.moved \in Nat /\ c.n \in Nat
      /\ ScOf(c) \in Nat /\ c.done + ScOf(c) <= c.n
  BY Counts
<1>2. ASSUME SoFarWell(c, v)
      PROVE  c.moved <= ScOf(c)
  <2>1. CASE c.pc = "data"
    BY Z3T(20), SMTT(20), <1>1, <2>1 DEF ThreadOK
  <2>2. CASE c.pc # "data"
    BY Z3T(20), SMTT(20), <1>1, <1>2, <2>2 DEF SoFarWell, Owned, Under
  <2> QED BY <2>1, <2>2
<1> HIDE DEF ScOf, SoFarWell, AllWell
<1> QED BY Z3T(20), SMTT(20), <1>1, <1>2 DEF Through

\* A step that goes no further, and writes neither buffer nor medium.
LEMMA ContentKeeps ==
    ASSUME NEW c, NEW v, NEW m, NEW z, Content(c, v, m, z), NEW r, NEW w,
           r.kind = c.kind, r.s = c.s, r.n = c.n, r.buf = c.buf, c.n \in Nat,
           Through(c, v) \in Nat, Through(r, w) \in Nat, Through(r, w) <= Through(c, v)
    PROVE  Content(r, w, m, z)
<1> HIDE DEF Through
<1>1. CASE c.kind = "read"
  BY Z3T(20), SMTT(20), <1>1 DEF Content
<1>2. CASE c.kind = "write"
  <2>1. PICK p \in Through(c, v) .. c.n : Prefix(c, m, z, p)
    BY <1>2 DEF Content
  <2>2. p \in Through(r, w) .. r.n
    BY Z3T(20), SMTT(20), <2>1
  <2>3. Prefix(r, m, z, p)
    BY <2>1 DEF Prefix
  <2> QED BY <1>2, <2>2, <2>3 DEF Content
<1>3. CASE c.kind \notin {"read", "write"}
  BY <1>3 DEF Content
<1> QED BY <1>1, <1>2, <1>3

\* A step within a call: what the user sees does not change.
LEMMA Within ==
    ASSUME OneThread, Alone, NEW t \in Threads, NEW r, thread'[t] = r,
           UNCHANGED <<seen, reply>>,
           r.kind = thread[t].kind, r.s = thread[t].s, r.n = thread[t].n,
           r.kind = "write" => r.buf = thread[t].buf,
           Owned(r, dev'[Drive[t]], ucmd'),
           Content(r, dev'[Drive[t]], disk'[Drive[t]], seen[Drive[t]])
    PROVE  Alone' /\ Promised(t)
<1>1. UNCHANGED <<seen[Drive[t]], Asked(t), reply[t]>>
  BY DEF Asked
<1>2. \A u \in Threads : u = t
  BY DEF OneThread
<1>3. Alone'
  BY <1>2 DEF Alone
<1> QED BY <1>1, <1>3 DEF Promised

\* A step within a call that writes neither buffer nor medium and goes no further.
LEMMA GoesWithin ==
    ASSUME OneThread, IInv, IInv', Alone, NEW t \in Threads, NEW r, NEW p, NEW moved, NEW tries,
           NEW rcode, NEW want, NEW result,
           Is(r, thread[t], p, thread[t].buf, thread[t].done, moved, tries, rcode, want, result),
           Step(t, r), UNCHANGED <<seen, reply, disk>>,
           Owned(r, dev'[Drive[t]], ucmd'),
           \/ Through(r, dev'[Drive[t]]) = r.done
           \/ Through(r, dev'[Drive[t]]) = Through(thread[t], dev[Drive[t]])
    PROVE  Alone' /\ Promised(t)
<1> DEFINE c == thread[t]
           v == dev[Drive[t]]
           w == dev'[Drive[t]]
<1>1. thread'[t] = r
  BY DEF Step, IInv, Pairs
<1>2. ThreadOK(c) /\ ThreadOK(r)
  <2>1. ThreadOK(c)
    BY Before DEF IInv
  <2>2. ThreadOK(thread'[t])
    BY DEF IInv, Pairs, Pair
  <2> QED BY <1>1, <2>1, <2>2
<1>3. Owned(c, v, ucmd) /\ Content(c, v, disk[Drive[t]], seen[Drive[t]])
  BY DEF Alone
<1>4. Through(c, v) \in Nat /\ c.done <= Through(c, v) /\ Through(r, w) \in Nat /\ c.n \in Nat
      /\ r.done = c.done
  BY <1>2, <1>3, Progress, Counts DEF Is
<1>5. Through(r, w) <= Through(c, v)
  BY Z3T(20), SMTT(20), <1>4
<1>6. /\ r.kind = c.kind /\ r.s = c.s /\ r.n = c.n /\ r.buf = c.buf
  BY DEF Is
<1> HIDE DEF c, v, w
<1>7. Content(r, w, disk[Drive[t]], seen[Drive[t]])
  BY <1>3, <1>4, <1>5, <1>6, ContentKeeps
<1>8. disk' = disk
  OBVIOUS
<1> QED BY <1>1, <1>6, <1>7, <1>8, Within DEF c, w

\* The steps of usb_queue_cmd up to the CBW.
LEMMA CommandWithin ==
    ASSUME OneThread, IInv, IInv', Alone, NEW t \in Threads,
           TakeTag(t) \/ BuildCbw(t) \/ SendCbw(t) \/ CbwTaken(t) \/ CbwFails(t)
    PROVE  Alone' /\ Promised(t)
<1> DEFINE c == thread[t]
           d == Drive[t]
<1>0. /\ d \in Drives /\ ThreadOK(c) /\ Sc(t) = ScOf(c) /\ Command(t) = CommandOf(c)
      /\ DriveOK(dev[d]) /\ Owned(c, dev[d], ucmd) /\ c \in Locals /\ ScOf(c) \in Nat
  BY Before, Counts DEF IInv, Alone
<1>1. UNCHANGED <<seen, reply, disk>>
  BY DEF TakeTag, BuildCbw, SendCbw, CbwTaken, CbwFails
<1>l. {"build", "send", "end", "cbw", "data", "status", "reset"} \subseteq Labels
  BY DEF Labels, Computing
<1>2. CASE TakeTag(t)
  <2> DEFINE r == [c EXCEPT !.pc = "build"]
  <2>1. Is(r, c, "build", c.buf, c.done, c.moved, c.tries, c.rcode, c.want, c.result)
    BY <1>0, <1>l, Rewritten
  <2>2. Step(t, r)
    BY <1>2 DEF TakeTag
  <2> HIDE DEF r
  <2>3. Owned(r, dev'[d], ucmd') /\ Through(r, dev'[d]) = r.done
    BY <2>1 DEF Owned, Through, AllWell, SoFarWell, Under, Is
  <2> QED BY <1>1, <2>1, <2>2, <2>3, GoesWithin
<1>3. CASE BuildCbw(t)
  <2> DEFINE r == [c EXCEPT !.pc = "send", !.rcode = "ok", !.moved = 0]
  <2>1. Is(r, c, "send", c.buf, c.done, 0, c.tries, "ok", c.want, c.result)
    BY <1>0, <1>l, Rewritten
  <2>2. Step(t, r)
    BY <1>3 DEF BuildCbw
  <2>3. ucmd'.cmd = CommandOf(c)
    BY <1>0, <1>3 DEF BuildCbw
  <2> HIDE DEF r
  <2>4. CommandOf(r) = CommandOf(c)
    BY <2>1 DEF CommandOf, ScOf, Is
  <2>5. Owned(r, dev'[d], ucmd') /\ Through(r, dev'[d]) = r.done
    BY <2>1, <2>3, <2>4 DEF Owned, Through, AllWell, SoFarWell, Under, Is
  <2> QED BY <1>1, <2>1, <2>2, <2>5, GoesWithin
<1>4. CASE SendCbw(t)
  <2>0. c.pc = "send" /\ UNCHANGED ucmd
    BY <1>4 DEF SendCbw
  <2>1. CASE offline[d]
    <3>0. PICK a \in Int : a = -1
      BY Z3T(20), SMTT(20)
    <3> DEFINE r == [c EXCEPT !.pc = "end", !.result = a]
    <3>1. Is(r, c, "end", c.buf, c.done, c.moved, c.tries, c.rcode, c.want, a)
      BY <1>0, <1>l, Rewritten
    <3>2. Step(t, r)
      BY <1>4, <2>1, <3>0 DEF SendCbw
    <3> HIDE DEF r
    <3>3. Owned(r, dev'[d], ucmd') /\ Through(r, dev'[d]) = r.done
      BY Z3T(20), SMTT(20), <3>0, <3>1 DEF Owned, Through, AllWell, SoFarWell, Under, Is
    <3> QED BY <1>1, <3>1, <3>2, <3>3, GoesWithin
  <2>2. CASE ~offline[d]
    <3> DEFINE r == [c EXCEPT !.pc = "cbw"]
    <3>1. Is(r, c, "cbw", c.buf, c.done, c.moved, c.tries, c.rcode, c.want, c.result)
      BY <1>0, <1>l, Rewritten
    <3>2. Step(t, r)
      BY <1>4, <2>2 DEF SendCbw
    <3> HIDE DEF r
    <3>3. CommandOf(r) = CommandOf(c)
      BY <3>1 DEF CommandOf, ScOf, Is
    <3>4. Owned(r, dev'[d], ucmd') /\ Through(r, dev'[d]) = r.done
      BY <1>0, <2>0, <3>1, <3>3 DEF Owned, Through, AllWell, SoFarWell, Under, Is
    <3> QED BY <1>1, <3>1, <3>2, <3>4, GoesWithin
  <2> QED BY <2>1, <2>2
<1>5. CASE CbwTaken(t)
  <2> DEFINE p == IF Sc(t) > 0 THEN "data" ELSE "status"
             r == [c EXCEPT !.pc = p]
  <2>1. c.pc = "cbw" /\ Step(t, r)
    BY <1>5 DEF CbwTaken
  <2>2. PICK v \in Started(ucmd) : dev' = [dev EXCEPT ![d] = v]
    BY <1>5 DEF CbwTaken
  <2>3. dev'[d] = v
    BY <1>0, <2>2 DEF IInv, Pairs
  <2>4. v.cmd = CommandOf(c) /\ v.k = 0
    BY Z3T(20), SMTT(20), <1>0, <2>1 DEF Started, Owned
  <2>5. p \in {"data", "status"} /\ (p = "status" => ScOf(c) = 0)
    BY Z3T(20), SMTT(20), <1>0
  <2>6. c.moved = 0 /\ c.rcode = "ok" /\ c.done \in Nat
    BY <1>0, <2>1, Counts DEF ThreadOK, Owned
  <2> HIDE DEF p
  <2>7. Is(r, c, p, c.buf, c.done, c.moved, c.tries, c.rcode, c.want, c.result)
    BY <1>0, <1>l, <2>5, Rewritten
  <2> HIDE DEF r
  <2>8. CommandOf(r) = CommandOf(c) /\ ScOf(r) = ScOf(c)
    BY <2>7 DEF CommandOf, ScOf, Is
  <2>9. Owned(r, dev'[d], ucmd')
    BY <2>3, <2>4, <2>5, <2>6, <2>7, <2>8 DEF Owned, Under, Is
  <2>10. Through(r, dev'[d]) = r.done
    BY Z3T(20), SMTT(20), <2>5, <2>6, <2>7 DEF Through, AllWell, Is
  <2> QED BY <1>1, <2>1, <2>7, <2>9, <2>10, GoesWithin
<1>6. CASE CbwFails(t)
  <2>0. PICK a \in Int : a = -1
    BY Z3T(20), SMTT(20)
  <2> DEFINE r == [c EXCEPT !.pc = "reset", !.result = a]
  <2>1. Is(r, c, "reset", c.buf, c.done, c.moved, c.tries, c.rcode, c.want, a)
    BY <1>0, <1>l, Rewritten
  <2>2. Step(t, r)
    BY <1>6, <2>0 DEF CbwFails
  <2> HIDE DEF r
  <2>3. Owned(r, dev'[d], ucmd') /\ Through(r, dev'[d]) = r.done
    BY Z3T(20), SMTT(20), <2>0, <2>1 DEF Owned, Through, AllWell, SoFarWell, Under, Is
  <2> QED BY <1>1, <2>1, <2>2, <2>3, GoesWithin
<1> QED BY <1>2, <1>3, <1>4, <1>5, <1>6

\* The drive after it has moved a sector.
LEMMA OneMore ==
    ASSUME NEW v, DriveOK(v), v.phase = "data", NEW st \in Moves(v), NEW w \in Advanced(v, st)
    PROVE  /\ w.cmd = v.cmd /\ w.k = v.k + 1
           /\ v.k + 1 = v.cmd.n => w.phase = "csw"
           /\ v.k + 1 # v.cmd.n => w.phase = "data"
           /\ w.status = 0 => st = 0
<1>1. v \in [phase : {"cbw", "data", "csw"}, cmd : Commands, tag : Tags,
             k : 0 .. max_sectors, status : 0 .. 2]
  BY DEF DriveOK
<1>2. CASE v.k + 1 = v.cmd.n
  <2>1. PICK e \in Ending(st) : w = [v EXCEPT !.phase = "csw", !.k = v.k + 1, !.status = e]
    BY <1>2 DEF Advanced
  <2>2. e = 0 => st = 0
    BY Z3T(20), SMTT(20) DEF Ending
  <2> QED BY <1>1, <1>2, <2>1, <2>2
<1>3. CASE v.k + 1 # v.cmd.n
  <2>1. w = [v EXCEPT !.k = v.k + 1, !.status = st]
    BY <1>3 DEF Advanced
  <2> QED BY <1>1, <1>3, <2>1
<1> QED BY <1>2, <1>3

\* A sector is stored behind those that went well: it extends the prefix, or is
\* there already.
LEMMA Extends ==
    ASSUME NEW c, NEW m, NEW z \in [Sectors -> Data], NEW p \in Nat, NEW q \in Nat,
           c.s \in Nat, c.n \in Nat, q <= p, p <= c.n, q < c.n, c.s + q \in Sectors,
           Prefix(c, m, z, p)
    PROVE  \E i \in q + 1 .. c.n : Prefix(c, [m EXCEPT ![c.s + q] = c.buf[q + 1]], z, i)
<1> DEFINE k == [m EXCEPT ![c.s + q] = c.buf[q + 1]]
           f(i) == [x \in Sectors |-> IF c.s <= x /\ x < c.s + i THEN c.buf[x - c.s + 1] ELSE z[x]]
<1>0. m = f(p) /\ (p = 0 \/ c.s + p <= sectorCount)
  BY DEF Prefix
<1>1. CASE q < p
  <2>1. (c.s + q) - c.s + 1 = q + 1
    BY Z3T(20), SMTT(20)
  <2>2. m[c.s + q] = c.buf[q + 1]
    BY Z3T(20), SMTT(20), <1>0, <1>1, <2>1
  <2>3. k = m
    BY <1>0, <2>2
  <2>4. p \in q + 1 .. c.n
    BY Z3T(20), SMTT(20), <1>1
  <2> QED BY <2>3, <2>4
<1>2. CASE q = p
  <2>0. sectorCount \in Nat /\ \A x \in Sectors : x \in Nat
    BY Z3T(20), SMTT(20), Sizes DEF Sectors
  <2>1. ASSUME NEW x \in Sectors
        PROVE  k[x] = f(q + 1)[x]
    <3>1. CASE x = c.s + q
      <4>1. k[x] = c.buf[q + 1]
        BY <1>0, <3>1
      <4>2. c.s <= x /\ x < c.s + (q + 1) /\ x - c.s + 1 = q + 1
        BY Z3T(20), SMTT(20), <3>1
      <4> QED BY <4>1, <4>2
    <3>2. CASE x # c.s + q
      <4>1. k[x] = f(p)[x]
        BY <1>0, <3>2
      <4>2. x < c.s + (q + 1) <=> x < c.s + q
        BY Z3T(20), SMTT(20), <2>0, <3>2
      <4> QED BY <1>2, <4>1, <4>2
    <3> QED BY <3>1, <3>2
  <2>2. k = [x \in Sectors |-> k[x]]
    BY <1>0
  <2>3. k = f(q + 1)
    BY <2>1, <2>2
  <2>4. c.s + (q + 1) <= sectorCount
    BY Z3T(20), SMTT(20), <2>0 DEF Sectors
  <2>5. q + 1 \in q + 1 .. c.n
    BY Z3T(20), SMTT(20)
  <2> QED BY <2>3, <2>4, <2>5 DEF Prefix
<1>3. q < p \/ q = p
  BY Z3T(20), SMTT(20)
<1> QED BY <1>1, <1>2, <1>3

\* What is known in the data phase, when drive and thread both are in it.
LEMMA InPhase ==
    ASSUME IInv, Alone, NEW t \in Threads, DataReady(t)
    PROVE  LET c == thread[t]
               v == dev[Drive[t]]
           IN  /\ Drive[t] \in Drives /\ ThreadOK(c) /\ DriveOK(v) /\ Sc(t) = ScOf(c)
               /\ c.pc = "data" /\ c.rcode = "ok" /\ v.phase = "data"
               /\ v.cmd = CommandOf(c) /\ v.k = c.moved
               /\ c.s \in Nat /\ c.n \in Nat /\ c.done \in Nat /\ c.moved \in Nat /\ c.moved < ScOf(c)
               /\ ScOf(c) \in Nat /\ c.done + ScOf(c) <= c.n
               /\ At(v) = c.s + (c.done + c.moved)
               /\ v.status = 0 => Through(c, v) = c.done + c.moved
<1> DEFINE c == thread[t]
           v == dev[Drive[t]]
<1>1. /\ Drive[t] \in Drives /\ ThreadOK(c) /\ DriveOK(v) /\ Sc(t) = ScOf(c) /\ Owned(c, v, ucmd)
  BY Before DEF IInv, Alone
<1>2. c.pc = "data" /\ v.phase = "data"
  BY DEF DataReady
<1>3. c.rcode = "ok" /\ v.cmd = CommandOf(c) /\ v.k = c.moved /\ c.moved < ScOf(c)
  BY <1>1, <1>2 DEF Owned, Under, ThreadOK
<1>4. /\ c.s \in Nat /\ c.n \in Nat /\ c.done \in Nat /\ c.moved \in Nat
      /\ ScOf(c) \in Nat /\ c.done + ScOf(c) <= c.n
  BY <1>1, Counts
<1>5. At(v) = c.s + (c.done + c.moved)
  BY Z3T(20), SMTT(20), <1>3, <1>4 DEF At, CommandOf
<1>6. v.status = 0 => Through(c, v) = c.done + c.moved
  BY <1>2, <1>3 DEF Through, AllWell, SoFarWell, Under
<1> QED BY <1>1, <1>2, <1>3, <1>4, <1>5, <1>6

\* The locals and the drive after a sector: they still count alike.
LEMMA MovedOwned ==
    ASSUME IInv, Alone, NEW t \in Threads, DataReady(t), NEW st \in Moves(dev[Drive[t]]),
           NEW w \in Advanced(dev[Drive[t]], st), NEW b \in Buffer(thread[t].n), Moved(t, b)
    PROVE  LET c == thread[t]
               r == thread'[t]
           IN  /\ r.kind = c.kind /\ r.s = c.s /\ r.n = c.n /\ r.buf = b /\ r.done = c.done
               /\ \A u : Owned(r, w, u)
               /\ w.status = 0 => Through(r, w) = c.done + c.moved + 1
               /\ w.status # 0 => Through(r, w) = c.done
<1> DEFINE c == thread[t]
           v == dev[Drive[t]]
           m == c.moved + 1
           p == IF m = Sc(t) THEN "status" ELSE "data"
           r == [c EXCEPT !.buf = b, !.moved = m, !.pc = p]
<1>0. /\ Drive[t] \in Drives /\ ThreadOK(c) /\ DriveOK(v) /\ Sc(t) = ScOf(c)
      /\ c.pc = "data" /\ c.rcode = "ok" /\ v.phase = "data"
      /\ v.cmd = CommandOf(c) /\ v.k = c.moved
      /\ c.n \in Nat /\ c.done \in Nat /\ c.moved \in Nat
  BY InPhase
<1>1. thread'[t] = r
  BY DEF Moved, Step, IInv, Pairs
<1>2. w.cmd = v.cmd /\ w.k = m /\ (m = ScOf(c) => w.phase = "csw") /\ (m # ScOf(c) => w.phase = "data")
  BY Z3T(20), SMTT(20), <1>0, OneMore DEF CommandOf
<1>3. p \in {"status", "data"} /\ p \in Labels /\ (p = "status" <=> m = ScOf(c))
  BY <1>0 DEF Labels, Computing
<1>4. m \in Nat /\ b \in Buffers /\ c \in Locals
  BY Z3T(20), SMTT(20), <1>0, Counts DEF Buffers
<1>5. c.done + c.moved + 1 = c.done + m
  BY Z3T(20), SMTT(20), <1>0
<1> HIDE DEF m, p
<1>6. Is(r, c, p, b, c.done, m, c.tries, c.rcode, c.want, c.result)
  BY <1>3, <1>4, Rewritten
<1> HIDE DEF r
<1>7. CommandOf(r) = CommandOf(c) /\ ScOf(r) = ScOf(c)
  BY <1>6 DEF CommandOf, ScOf, Is
<1>8. ASSUME NEW u
      PROVE  Owned(r, w, u)
  BY <1>0, <1>2, <1>3, <1>6, <1>7 DEF Owned, Under, Is
<1>9. /\ w.status = 0 => Through(r, w) = c.done + m
      /\ w.status # 0 => Through(r, w) = c.done
  BY <1>0, <1>2, <1>3, <1>6 DEF Through, AllWell, SoFarWell, Under, Is
<1> QED BY <1>1, <1>5, <1>6, <1>8, <1>9 DEF Is

\* What a sector stored leaves on the medium: at least the sectors that went well
\* before, and with it if it went well.
LEMMA StoredPrefix ==
    ASSUME IInv, Alone, NEW t \in Threads, DataReady(t), Pipe(t) = "out",
           NEW st \in Moves(dev[Drive[t]]), Store(t, st)
    PROVE  \E p \in (IF st = 0 THEN thread[t].done + thread[t].moved + 1 ELSE thread[t].done) .. thread[t].n :
              Prefix(thread[t], disk'[Drive[t]], seen[Drive[t]], p)
<1> DEFINE c == thread[t]
           d == Drive[t]
           v == dev[d]
           q == c.done + c.moved
<1>0. /\ d \in Drives /\ ThreadOK(c) /\ DriveOK(v)
      /\ v.cmd = CommandOf(c) /\ v.k = c.moved
      /\ c.s \in Nat /\ c.n \in Nat /\ c.done \in Nat /\ c.moved \in Nat /\ c.moved < ScOf(c)
      /\ ScOf(c) \in Nat /\ c.done + ScOf(c) <= c.n
      /\ At(v) = c.s + q
      /\ v.status = 0 => Through(c, v) = q
  BY InPhase
<1>1. c.kind = "write" /\ v.cmd.kind = "write"
  BY DEF DataReady, Pipe
<1>2. Owned(c, v, ucmd) /\ Content(c, v, disk[d], seen[d])
  BY DEF Alone
<1>3. Through(c, v) \in Nat /\ c.done <= Through(c, v) /\ Through(c, v) <= c.n
  BY <1>0, <1>2, Progress
<1>4. PICK p \in Through(c, v) .. c.n : Prefix(c, disk[d], seen[d], p)
  BY <1>1, <1>2 DEF Content
<1>5. CASE st = 0
  <2>1. v.status = 0
    BY Z3T(20), SMTT(20), <1>5 DEF Moves
  <2>2. At(v) \in Sectors
    BY <1>0, <1>1, <1>5, AtSector
  <2>3. disk'[d] = [disk[d] EXCEPT ![c.s + q] = c.buf[q + 1]]
    BY <1>0, <1>5 DEF Store, IInv, Globals
  <2>4. q \in Nat /\ q < c.n /\ q <= p /\ p \in Nat /\ p <= c.n
    BY Z3T(20), SMTT(20), <1>0, <1>3, <1>4, <2>1
  <2>5. seen[d] \in [Sectors -> Data]
    BY <1>2 DEF Content
  <2>6. \E i \in q + 1 .. c.n : Prefix(c, [disk[d] EXCEPT ![c.s + q] = c.buf[q + 1]], seen[d], i)
    <3> HIDE DEF c, d, q
    <3>1. c.s \in Nat /\ c.n \in Nat /\ c.s + q \in Sectors
      BY <1>0, <2>2
    <3> QED BY <1>4, <2>4, <2>5, <3>1, Extends
  <2> QED BY <1>5, <2>3, <2>6
<1>6. CASE st # 0
  <2>1. disk' = disk
    BY <1>6 DEF Store
  <2>2. p \in c.done .. c.n
    BY Z3T(20), SMTT(20), <1>0, <1>3, <1>4
  <2> QED BY <1>4, <1>6, <2>1, <2>2
<1> QED BY <1>5, <1>6

\* The data phase breaks off: only what earlier commands did is certain.
LEMMA FailsOwned ==
    ASSUME IInv, Alone, NEW t \in Threads, thread[t].pc = "data", DataFails(t),
           NEW w, w.phase = "cbw" \/ dev[Drive[t]].phase # "cbw", w.cmd = dev[Drive[t]].cmd
    PROVE  LET c == thread[t]
               r == thread'[t]
           IN  /\ Is(r, c, "dataclear", c.buf, c.done, c.moved, c.tries, "err", c.want, c.result)
               /\ Step(t, r)
               /\ \A u : Owned(r, w, u)
               /\ Through(r, w) = r.done
<1> DEFINE c == thread[t]
           r == [c EXCEPT !.pc = "dataclear", !.rcode = "err"]
<1>0. c \in Locals /\ Owned(c, dev[Drive[t]], ucmd)
  BY Before DEF IInv, ThreadOK, Alone
<1>1. Step(t, r)
  BY DEF DataFails
<1>2. thread'[t] = r
  BY <1>1 DEF Step, IInv, Pairs
<1>3. Is(r, c, "dataclear", c.buf, c.done, c.moved, c.tries, "err", c.want, c.result)
  <2>1. "dataclear" \in Labels
    BY DEF Labels
  <2> QED BY <1>0, <2>1, Rewritten
<1> HIDE DEF r
<1>4. CommandOf(r) = CommandOf(c)
  BY <1>3 DEF CommandOf, ScOf, Is
<1>5. ASSUME NEW u
      PROVE  Owned(r, w, u)
  BY <1>0, <1>3, <1>4 DEF Owned, Under, Is
<1>6. Through(r, w) = r.done
  BY <1>3 DEF Through, AllWell, SoFarWell, Is
<1> QED BY <1>1, <1>2, <1>3, <1>5, <1>6

\* The steps of usb_bulk_transfer that leave buffer and medium alone.
LEMMA DataWithin ==
    ASSUME OneThread, IInv, IInv', Alone, NEW t \in Threads,
           \/ DataStall(t) \/ DataHalted(t) \/ DataShort(t) \/ DataTakesCsw(t)
           \/ DataError(t) /\ UNCHANGED <<dev, disk>>
    PROVE  Alone' /\ Promised(t)
<1> DEFINE c == thread[t]
           d == Drive[t]
           v == dev[d]
<1>0. /\ d \in Drives /\ ThreadOK(c) /\ DriveOK(v) /\ Owned(c, v, ucmd) /\ c \in Locals
      /\ c.pc = "data"
  BY Before, Counts DEF IInv, Alone, DataStall, DataHalted, DataShort, DataTakesCsw, DataError, DataReady
<1>1. UNCHANGED <<seen, reply, disk>>
  BY DEF DataStall, DataHalted, DataShort, DataTakesCsw, DataError
<1>2. ASSUME NEW x \in Cut(v), dev' = [dev EXCEPT ![d] = x]
      PROVE  dev'[d] = x /\ x.phase = "csw" /\ x.cmd = v.cmd /\ x.k = v.k
  BY <1>0, <1>2 DEF Cut, IInv, Pairs, DriveOK
<1>3. CASE DataStall(t)
  <2>1. DataFails(t) /\ v.phase = "data"
    BY <1>3 DEF DataStall, DataReady
  <2>2. dev'[d].cmd = v.cmd
    BY <1>2, <1>3 DEF DataStall
  <2> QED BY <1>0, <1>1, <2>1, <2>2, FailsOwned, GoesWithin
<1>4. CASE DataHalted(t)
  <2>1. DataFails(t) /\ dev' = dev
    BY <1>4 DEF DataHalted
  <2>2. v.phase = "cbw" \/ v.phase # "cbw"
    OBVIOUS
  <2> QED BY <1>0, <1>1, <2>1, <2>2, FailsOwned, GoesWithin
<1>5. CASE DataError(t) /\ UNCHANGED <<dev, disk>>
  <2>1. DataFails(t) /\ v.phase = "data" /\ dev' = dev
    BY <1>5 DEF DataError, DataReady
  <2> QED BY <1>0, <1>1, <2>1, FailsOwned, GoesWithin
<1>6. CASE DataShort(t) \/ DataTakesCsw(t)
  <2>1. thread' = thread /\ UNCHANGED ucmd
    BY <1>6 DEF DataShort, DataTakesCsw
  <2>2. Step(t, c)
    BY <2>1 DEF Step, IInv, Pairs
  <2>3. Is(c, c, c.pc, c.buf, c.done, c.moved, c.tries, c.rcode, c.want, c.result)
    BY <1>0 DEF Is
  <2>4. /\ dev'[d].phase \in {"cbw", "csw"}
        /\ dev'[d].phase # "cbw" => v.phase = "data" /\ dev'[d].cmd = v.cmd /\ dev'[d].k = v.k
    <3>1. CASE DataShort(t)
      BY <1>2, <3>1 DEF DataShort, DataReady
    <3>2. CASE DataTakesCsw(t)
      <4>1. dev'[d] = Waiting
        BY <1>0, <3>2 DEF DataTakesCsw, IInv, Pairs
      <4> QED BY Z3T(20), SMTT(20), <4>1 DEF Waiting
    <3> QED BY <1>6, <3>1, <3>2
  <2>5. Owned(c, dev'[d], ucmd')
    BY <1>0, <2>1, <2>4 DEF Owned, Under
  <2>6. Through(c, dev'[d]) = c.done
    BY <1>0, <2>4 DEF Through, AllWell, SoFarWell
  <2> QED BY <1>1, <2>2, <2>3, <2>5, <2>6, GoesWithin
<1> QED BY <1>3, <1>4, <1>5, <1>6

\* A sector is read.
LEMMA DataInWithin ==
    ASSUME OneThread, IInv, IInv', Alone, NEW t \in Threads, DataIn(t)
    PROVE  Alone' /\ Promised(t)
<1> DEFINE c == thread[t]
           d == Drive[t]
           v == dev[d]
           i == c.done + c.moved + 1
           r == thread'[t]
<1>0. /\ DataReady(t) /\ UNCHANGED <<seen, reply, disk>> /\ c.kind # "write"
  BY DEF DataIn, Pipe
<1>1. /\ d \in Drives /\ ThreadOK(c) /\ DriveOK(v) /\ c.buf \in Buffer(c.n)
      /\ v.cmd = CommandOf(c) /\ c.pc = "data"
      /\ c.s \in Nat /\ c.n \in Nat /\ c.done \in Nat /\ c.moved \in Nat
      /\ At(v) = c.s + (c.done + c.moved)
      /\ v.status = 0 => Through(c, v) = c.done + c.moved
  BY <1>0, InPhase DEF ThreadOK
<1>2. i \in 1 .. c.n
  BY <1>1, Due
<1>3. PICK st \in Moves(v) :
         /\ \E w \in Advanced(v, st) : dev' = [dev EXCEPT ![d] = w]
         /\ Moved(t, [c.buf EXCEPT ![i] =
                         IF st = 0 /\ v.cmd.kind = "read" THEN disk[d][At(v)] ELSE Junk])
  BY DEF DataIn
<1> DEFINE x == IF st = 0 /\ v.cmd.kind = "read" THEN disk[d][At(v)] ELSE Junk
           b == [c.buf EXCEPT ![i] = x]
<1>4. PICK w \in Advanced(v, st) : dev' = [dev EXCEPT ![d] = w]
  BY <1>3
<1>5. dev'[d] = w
  BY <1>1, <1>4 DEF IInv, Pairs
<1>6. st = 0 /\ c.kind = "read" => x = disk[d][At(v)] /\ At(v) \in Sectors /\ v.status = 0
  BY Z3T(20), SMTT(20), <1>1, AtSector DEF CommandOf, Moves
<1>7. x \in Data \cup {Junk}
  BY Z3T(20), SMTT(20), <1>1, <1>6, AtSector DEF IInv, Globals
<1>8. Moved(t, b)
  BY <1>3
<1> HIDE DEF x
<1>9. b \in Buffer(c.n)
  BY <1>1, <1>7 DEF Buffer
<1>10. b[i] = x /\ \A j \in 1 .. c.n : j # i => b[j] = c.buf[j]
  BY <1>1, <1>2 DEF Buffer
<1> HIDE DEF b
<1>11. /\ r.kind = c.kind /\ r.s = c.s /\ r.n = c.n /\ r.buf = b /\ r.done = c.done
       /\ \A u : Owned(r, w, u)
       /\ w.status = 0 => Through(r, w) = c.done + c.moved + 1
       /\ w.status # 0 => Through(r, w) = c.done
  BY <1>0, <1>8, <1>9, MovedOwned
<1>12. w.status = 0 => st = 0
  BY <1>0, <1>1, OneMore DEF DataReady
<1>13. Content(c, v, disk[d], seen[d]) /\ Owned(c, v, ucmd)
  BY DEF Alone
<1>14. Content(r, w, disk[d], seen[d])
  <2>1. CASE c.kind # "read"
    BY <1>0, <1>11, <1>13, <2>1 DEF Content
  <2>2. CASE c.kind = "read"
    <3>1. disk[d] = seen[d] /\ Through(c, v) \in Nat /\ c.done <= Through(c, v)
      BY <1>1, <1>13, <2>2, Progress DEF Content
    <3>2. ASSUME NEW j \in 1 .. Through(r, w)
          PROVE  c.s + j <= sectorCount /\ b[j] = seen[d][c.s + j - 1]
      <4>1. CASE j = i
        <5>1. w.status = 0
          BY Z3T(20), SMTT(20), <1>1, <1>11, <4>1
        <5>2. x = disk[d][At(v)] /\ At(v) \in Sectors
          BY <1>6, <1>12, <2>2, <5>1
        <5>3. c.s + j - 1 = At(v)
          BY Z3T(20), SMTT(20), <1>1, <4>1
        <5>4. c.s + j <= sectorCount
          BY Z3T(20), SMTT(20), <1>1, <4>1, <5>2, <5>3, Sizes DEF Sectors
        <5> QED BY <1>10, <3>1, <4>1, <5>2, <5>3, <5>4
      <4>2. CASE j # i
        <5>1. j \in 1 .. Through(c, v)
          <6>1. CASE w.status = 0
            <7>1. Through(r, w) = i /\ v.status = 0
              BY Z3T(20), SMTT(20), <1>11, <1>12, <6>1 DEF Moves
            <7>2. Through(c, v) = c.done + c.moved
              BY <1>1, <7>1
            <7> QED BY Z3T(20), SMTT(20), <1>1, <4>2, <7>1, <7>2
          <6>2. CASE w.status # 0
            BY Z3T(20), SMTT(20), <1>1, <1>11, <3>1, <6>2
          <6> QED BY <6>1, <6>2
        <5>2. c.s + j <= sectorCount /\ c.buf[j] = seen[d][c.s + j - 1]
          BY <1>13, <2>2, <5>1 DEF Content
        <5>3. j \in 1 .. c.n
          BY Z3T(20), SMTT(20), <1>1, <1>13, <5>1, Progress
        <5> QED BY <1>10, <4>2, <5>2, <5>3
      <4> QED BY <4>1, <4>2
    <3> QED BY <1>11, <1>13, <2>2, <3>1, <3>2 DEF Content
  <2> QED BY <2>1, <2>2
<1> QED BY <1>0, <1>5, <1>11, <1>14, Within

\* A sector is written, acknowledged or not.
LEMMA DataOutWithin ==
    ASSUME OneThread, IInv, IInv', Alone, NEW t \in Threads,
           DataOut(t) \/ (DataError(t) /\ ~UNCHANGED <<dev, disk>>)
    PROVE  Alone' /\ Promised(t)
<1> DEFINE c == thread[t]
           d == Drive[t]
           v == dev[d]
           r == thread'[t]
<1>0. /\ DataReady(t) /\ UNCHANGED <<seen, reply>> /\ Pipe(t) = "out"
      /\ \E st \in Moves(v) :
            /\ \E w \in Advanced(v, st) : dev' = [dev EXCEPT ![d] = w]
            /\ Store(t, st)
  BY DEF DataOut, DataError
<1>1. /\ d \in Drives /\ ThreadOK(c) /\ DriveOK(v) /\ c.buf \in Buffer(c.n) /\ c.kind = "write"
      /\ v.phase = "data" /\ c.pc = "data"
      /\ c.n \in Nat /\ c.done \in Nat /\ c.moved \in Nat
  BY <1>0, InPhase DEF ThreadOK, Pipe
<1>2. PICK st \in Moves(v) :
         /\ \E w \in Advanced(v, st) : dev' = [dev EXCEPT ![d] = w]
         /\ Store(t, st)
  BY <1>0
<1>3. PICK w \in Advanced(v, st) : dev' = [dev EXCEPT ![d] = w]
  BY <1>2
<1>4. dev'[d] = w
  BY <1>1, <1>3 DEF IInv, Pairs
<1>5. w.cmd = v.cmd /\ (w.status = 0 => st = 0)
  BY <1>1, OneMore
<1>6. PICK p \in (IF st = 0 THEN c.done + c.moved + 1 ELSE c.done) .. c.n :
         Prefix(c, disk'[d], seen[d], p)
  BY <1>0, <1>2, StoredPrefix
<1>7. seen[d] \in [Sectors -> Data]
  BY DEF Alone, Content
\* what is left to show for either
<1>8. ASSUME r.kind = c.kind, r.s = c.s, r.n = c.n, r.buf = c.buf,
             Owned(r, w, ucmd'), p \in Through(r, w) .. c.n
      PROVE  Alone' /\ Promised(t)
  <2>1. Prefix(r, disk'[d], seen[d], p)
    BY <1>6, <1>8 DEF Prefix
  <2>2. Content(r, w, disk'[d], seen[d])
    BY <1>1, <1>7, <1>8, <2>1 DEF Content
  <2> QED BY <1>0, <1>4, <1>8, <2>2, Within
<1>9. CASE DataOut(t)
  <2>1. Moved(t, c.buf)
    BY <1>9 DEF DataOut
  <2>2. /\ r.kind = c.kind /\ r.s = c.s /\ r.n = c.n /\ r.buf = c.buf /\ r.done = c.done
        /\ \A u : Owned(r, w, u)
        /\ w.status = 0 => Through(r, w) = c.done + c.moved + 1
        /\ w.status # 0 => Through(r, w) = c.done
    BY <1>0, <1>1, <2>1, MovedOwned
  <2>3. p \in Through(r, w) .. c.n
    BY Z3T(20), SMTT(20), <1>1, <1>5, <1>6, <2>2
  <2> QED BY <1>8, <2>2, <2>3
<1>10. CASE DataError(t)
  <2>1. DataFails(t)
    BY <1>10 DEF DataError
  <2>2. /\ Is(r, c, "dataclear", c.buf, c.done, c.moved, c.tries, "err", c.want, c.result)
        /\ \A u : Owned(r, w, u)
        /\ Through(r, w) = r.done
    BY <1>1, <1>5, <2>1, FailsOwned
  <2>3. /\ r.kind = c.kind /\ r.s = c.s /\ r.n = c.n /\ r.buf = c.buf /\ r.done = c.done
    BY <2>2 DEF Is
  <2>4. p \in Through(r, w) .. c.n
    BY Z3T(20), SMTT(20), <1>1, <1>6, <2>2, <2>3
  <2> QED BY <1>8, <2>2, <2>3, <2>4
<1> QED BY <1>9, <1>10

\* The steps of usb_bulk_manage_status, and usb_bulk_clear_halt before it.
LEMMA StatusWithin ==
    ASSUME OneThread, IInv, IInv', Alone, NEW t \in Threads,
           DataClear(t) \/ AskStatus(t) \/ CswArrives(t) \/ CswFails(t) \/ CswClear(t)
    PROVE  Alone' /\ Promised(t)
<1> DEFINE c == thread[t]
           d == Drive[t]
           v == dev[d]
<1>0. /\ d \in Drives /\ ThreadOK(c) /\ DriveOK(v) /\ Owned(c, v, ucmd) /\ c \in Locals
  BY Before, Counts DEF IInv, Alone
<1>1. UNCHANGED <<seen, reply, disk, ucmd>>
  BY DEF DataClear, AskStatus, CswArrives, CswFails, CswClear, ClearHalt
<1>l. {"status", "csw1", "csw2", "cswclear", "reset", "end"} \subseteq Labels
  BY DEF Labels, Computing
<1>2. ASSUME NEW p \in {"status", "csw2"}, Step(t, [c EXCEPT !.pc = p]), dev' = dev,
             c.pc = "dataclear" \/ (c.pc = "cswclear" /\ p = "csw2")
      PROVE  Alone' /\ Promised(t)
  <2> DEFINE r == [c EXCEPT !.pc = p]
  <2>3. Is(r, c, p, c.buf, c.done, c.moved, c.tries, c.rcode, c.want, c.result)
    BY <1>0, <1>l, Rewritten
  <2>4. Step(t, r)
    BY <1>2
  <2> HIDE DEF r
  <2>5. CommandOf(r) = CommandOf(c) /\ ScOf(r) = ScOf(c)
    BY <2>3 DEF CommandOf, ScOf, Is
  <2>6. Owned(r, v, ucmd')
    BY <1>0, <1>2, <2>3, <2>5 DEF Owned, Under, Is
  <2>7. Through(r, v) = Through(c, v)
    BY <1>0, <1>2, <2>3, <2>5 DEF Owned, Through, AllWell, SoFarWell, Under, Is
  <2> QED BY <1>1, <1>2, <2>3, <2>4, <2>6, <2>7, GoesWithin
<1>3. CASE AskStatus(t)
  <2> DEFINE r == [c EXCEPT !.pc = "csw1", !.want = tag]
  <2>1. tag \in Nat
    BY Z3T(20), SMTT(20), Sizes DEF IInv, Globals, Tags
  <2>2. Is(r, c, "csw1", c.buf, c.done, c.moved, c.tries, c.rcode, tag, c.result)
    BY <1>0, <1>l, <2>1, Rewritten
  <2>3. Step(t, r) /\ UNCHANGED dev /\ c.pc = "status"
    BY <1>3 DEF AskStatus
  <2> HIDE DEF r
  <2>4. CommandOf(r) = CommandOf(c) /\ ScOf(r) = ScOf(c)
    BY <2>2 DEF CommandOf, ScOf, Is
  <2>5. Owned(r, v, ucmd')
    BY <1>0, <2>2, <2>3, <2>4 DEF Owned, Under, Is
  <2>6. Through(r, v) = Through(c, v)
    BY <1>0, <2>2, <2>3, <2>4 DEF Owned, Through, AllWell, SoFarWell, Under, Is
  <2> QED BY <1>1, <2>2, <2>3, <2>5, <2>6, GoesWithin
<1>4. CASE CswArrives(t)
  <2> DEFINE good == v.tag = c.want
             a == IF good THEN v.status ELSE -1
             p == IF ~good \/ v.status = 2 THEN "reset" ELSE "end"
             r == [c EXCEPT !.result = a, !.pc = p]
  <2>1. a \in Int /\ p \in {"reset", "end"} /\ (p = "reset" => a # 0) /\ (a = 0 => v.status = 0)
    BY Z3T(20), SMTT(20), <1>0 DEF DriveOK
  <2>2. Step(t, r) /\ c.pc \in {"csw1", "csw2"} /\ v.phase = "csw" /\ dev' = [dev EXCEPT ![d] = Waiting]
    BY <1>4 DEF CswArrives
  <2> HIDE DEF a, p
  <2>3. Is(r, c, p, c.buf, c.done, c.moved, c.tries, c.rcode, c.want, a)
    BY <1>0, <1>l, <2>1, Rewritten
  <2> HIDE DEF r
  <2>4. Owned(r, dev'[d], ucmd')
    BY <2>1, <2>3 DEF Owned, Under, Is
  <2>5. CASE AllWell(r)
    <3>1. c.rcode = "ok" /\ v.status = 0
      BY <2>1, <2>3, <2>5 DEF AllWell, Is
    <3>2. c.moved = ScOf(c) /\ SoFarWell(c, v) /\ ~AllWell(c)
      BY <1>0, <2>2, <3>1 DEF Owned, SoFarWell, AllWell, Under
    <3>3. ScOf(r) = ScOf(c) /\ r.done = c.done
      BY <2>3 DEF ScOf, Is
    <3>4. Through(r, dev'[d]) = Through(c, v)
      BY <2>5, <3>2, <3>3 DEF Through
    <3> QED BY <1>1, <2>2, <2>3, <2>4, <3>4, GoesWithin
  <2>6. CASE ~AllWell(r)
    <3>1. Through(r, dev'[d]) = r.done
      BY <2>1, <2>3, <2>6 DEF Through, SoFarWell, Under, Is
    <3> QED BY <1>1, <2>2, <2>3, <2>4, <3>1, GoesWithin
  <2> QED BY <2>5, <2>6
<1>5. CASE CswFails(t)
  <2>0. PICK a \in Int : a = -1
    BY Z3T(20), SMTT(20)
  <2> DEFINE p == IF c.pc = "csw1" THEN "cswclear" ELSE "reset"
             r == [c EXCEPT !.pc = p, !.result = a]
  <2>1. p \in {"cswclear", "reset"}
    OBVIOUS
  <2>2. Step(t, r) /\ c.pc \in {"csw1", "csw2"} /\ dev' = dev
    BY <1>5, <2>0 DEF CswFails
  <2> HIDE DEF p
  <2>3. Is(r, c, p, c.buf, c.done, c.moved, c.tries, c.rcode, c.want, a)
    BY <1>0, <1>l, <2>1, Rewritten
  <2> HIDE DEF r
  <2>4. CommandOf(r) = CommandOf(c) /\ ScOf(r) = ScOf(c)
    BY <2>3 DEF CommandOf, ScOf, Is
  <2>5. Owned(r, v, ucmd')
    BY Z3T(20), SMTT(20), <1>0, <2>0, <2>1, <2>2, <2>3, <2>4 DEF Owned, Under, Is
  <2>6. Through(r, v) = Through(c, v) \/ Through(r, v) = r.done
    BY <1>0, <2>1, <2>2, <2>3, <2>4 DEF Owned, Through, AllWell, SoFarWell, Under, Is
  <2> QED BY <1>1, <2>2, <2>3, <2>5, <2>6, GoesWithin
<1>6. CASE DataClear(t)
  <2>1. Step(t, [c EXCEPT !.pc = "status"]) /\ c.pc = "dataclear" /\ dev' = dev
    BY <1>6 DEF DataClear, ClearHalt
  <2> QED BY <1>2, <2>1
<1>7. CASE CswClear(t)
  <2>1. Step(t, [c EXCEPT !.pc = "csw2"]) /\ c.pc = "cswclear" /\ dev' = dev
    BY <1>7 DEF CswClear, ClearHalt
  <2> QED BY <1>2, <2>1
<1> QED BY <1>3, <1>4, <1>5, <1>6, <1>7

\* The steps of usb_bulk_reset: the command has failed.
LEMMA ResetWithin ==
    ASSUME OneThread, IInv, IInv', Alone, NEW t \in Threads,
           ResetDrive(t) \/ ResetIn(t) \/ ResetOut(t)
    PROVE  Alone' /\ Promised(t)
<1> DEFINE c == thread[t]
           d == Drive[t]
<1>0. /\ d \in Drives /\ ThreadOK(c) /\ Owned(c, dev[d], ucmd) /\ c \in Locals
  BY Before, Counts DEF IInv, Alone
<1>1. UNCHANGED <<seen, reply, disk>> /\ c.pc \in {"reset", "clearin", "clearout"}
  BY DEF ResetDrive, ResetIn, ResetOut, ResetPipe
<1>2. ASSUME NEW p \in {"clearin", "clearout", "end"}, Step(t, [c EXCEPT !.pc = p])
      PROVE  Alone' /\ Promised(t)
  <2> DEFINE r == [c EXCEPT !.pc = p]
  <2>1. p \in Labels
    BY DEF Labels, Computing
  <2>2. Is(r, c, p, c.buf, c.done, c.moved, c.tries, c.rcode, c.want, c.result)
    BY <1>0, <2>1, Rewritten
  <2>3. Step(t, r)
    BY <1>2
  <2> HIDE DEF r
  <2>4. c.result # 0
    BY <1>0, <1>1 DEF Owned
  <2>5. Owned(r, dev'[d], ucmd')
    BY <2>2, <2>4 DEF Owned, Under, Is
  <2>6. Through(r, dev'[d]) = r.done
    BY <2>2, <2>4 DEF Through, AllWell, SoFarWell, Under, Is
  <2> QED BY <1>1, <2>2, <2>3, <2>5, <2>6, GoesWithin
<1>3. CASE ResetDrive(t)
  <2>1. Step(t, [c EXCEPT !.pc = "clearin"]) \/ Step(t, [c EXCEPT !.pc = "end"])
    BY <1>3 DEF ResetDrive, GoesOn, GoesOffline
  <2> QED BY <1>2, <2>1
<1>4. ASSUME NEW pipe, NEW p \in {"clearout", "end"}, ResetPipe(t, pipe, p)
      PROVE  Alone' /\ Promised(t)
  <2>1. GoesOn(t, p) \/ GoesOffline(t)
    BY <1>4, Zenon DEF ResetPipe, ClearFeature
  <2>2. Step(t, [c EXCEPT !.pc = p]) \/ Step(t, [c EXCEPT !.pc = "end"])
    BY <2>1 DEF GoesOn, GoesOffline
  <2> QED BY <1>2, <2>2
<1>5. CASE ResetIn(t)
  BY <1>4, <1>5 DEF ResetIn
<1>6. CASE ResetOut(t)
  BY <1>4, <1>6 DEF ResetOut
<1> QED BY <1>3, <1>5, <1>6

\* A call returns what the block device may answer.
LEMMA Returns ==
    ASSUME OneThread, IInv, Alone, NEW t \in Threads, NEW a, Return(t, a), UNCHANGED disk,
           IF thread[t].kind = "query" THEN a = reply[t]
           ELSE \/ a = [ok |-> FALSE]
                \/ a = Success(t) /\ Through(thread[t], dev[Drive[t]]) = thread[t].n,
           thread[t].pc # "idle"
    PROVE  Alone' /\ Promised(t)
<1> DEFINE c == thread[t]
           d == Drive[t]
           v == dev[d]
           m == disk[d]
           z == seen[d]
<1>0. /\ d \in Drives /\ ThreadOK(c) /\ Owned(c, v, ucmd) /\ Content(c, v, m, z)
      /\ c.s \in Nat /\ c.n \in Nat /\ c.buf \in Buffer(c.n)
      /\ c.kind \in {"read", "write", "query"}
  <2>1. d \in Drives /\ ThreadOK(c)
    BY Before DEF IInv
  <2>2. Owned(c, v, ucmd) /\ Content(c, v, m, z)
    BY DEF Alone
  <2>3. c.kind \in {"read", "write", "query"} /\ c.buf \in Buffer(c.n)
    BY <2>1 DEF ThreadOK, Locals
  <2> QED BY <2>1, <2>2, <2>3, Counts
<1>1. thread'[t] = Idle /\ seen'[d] = m /\ reply'[t] = a
  BY <1>0 DEF Return, Step, Alone, IInv, Pairs
<1>2. Asked(t)' = [op |-> "none"]
  <2>1. thread'[t].kind = "none"
    BY <1>1, IdleOK
  <2> QED
    BY <2>1 DEF Asked
<1>3. Through(c, v) \in Nat /\ Through(c, v) <= c.n
  BY <1>0, Progress
<1>4. Alone'
  <2>1. \A u \in Threads : u = t
    BY DEF OneThread
  <2>2. Owned(Idle, dev'[d], ucmd')
    BY DEF Owned, Idle, Under
  <2>3. disk'[d] \in [Sectors -> Data]
    BY <1>0 DEF IInv, Globals
  <2>4. Content(Idle, dev'[d], disk'[d], disk'[d])
    BY <2>3 DEF Content, Idle
  <2>5. seen' = [e \in Drives |-> seen'[e]] /\ reply' = [u \in Threads |-> reply'[u]]
    BY DEF Alone, Return
  <2> QED BY <1>1, <2>1, <2>2, <2>4, <2>5 DEF Alone
<1>5. CASE c.kind = "query"
  <2>1. Asked(t) = [op |-> "none"]
    BY <1>5 DEF Asked
  <2>2. m = z
    BY <1>0, <1>5 DEF Content
  <2> QED BY <1>1, <1>2, <1>4, <1>5, <2>1, <2>2 DEF Promised
<1>6. CASE c.kind = "read"
  <2>1. Asked(t) = [op |-> "read", sector |-> c.s, count |-> c.n]
    BY <1>6 DEF Asked
  <2>2. m = z
    BY <1>0, <1>6 DEF Content
  <2>3. Device(t)!Read(c.s, c.n)
    <3>1. CASE a = [ok |-> FALSE]
      BY <1>1, <2>2, <3>1 DEF Device!Read, Device!Failed
    <3>2. CASE a = Success(t) /\ Through(c, v) = c.n
      <4>1. a = [ok |-> TRUE, data |-> c.buf]
        BY <1>6, <3>2 DEF Success
      <4>2. \A i \in 1 .. c.n : c.s + i <= sectorCount /\ c.buf[i] = z[c.s + i - 1]
        BY <1>0, <1>6, <3>2 DEF Content
      <4>3. c.buf = [i \in 1 .. c.n |-> z[c.s + i - 1]]
        BY <1>0, <4>2 DEF Buffer
      <4>4. c.s + c.n <= sectorCount \/ c.n = 0
        BY Z3T(20), SMTT(20), <1>0, <4>2
      <4> QED BY <1>1, <2>2, <4>1, <4>3, <4>4 DEF Device!Read, Device!Has, Device!Stored
    <3> QED BY <1>6, <3>1, <3>2
  <2>4. /\ Asked(t) # [op |-> "none"] /\ Asked(t).op = "read"
        /\ Asked(t).sector = c.s /\ Asked(t).count = c.n
    BY Z3T(20), SMTT(20), <2>1
  <2> QED BY <1>2, <1>4, <2>3, <2>4 DEF Promised, Device!Next, Device!Answer, Device!NoRequest
<1>7. CASE c.kind = "write"
  <2>1. Asked(t) = [op |-> "write", sector |-> c.s, count |-> c.n, buffer |-> c.buf]
    BY <1>7 DEF Asked
  <2>2. PICK p \in Through(c, v) .. c.n : Prefix(c, m, z, p)
    BY <1>0, <1>7 DEF Content
  <2>3. seen'[d] = Device(t)!After(z, c.s, p, c.buf)
    BY <1>1, <2>2 DEF Prefix, Device!After, Device!Sectors, Sectors
  <2>4. Device(t)!Write(c.s, c.n, c.buf)
    <3>1. CASE a = [ok |-> FALSE]
      <4>1. p \in 0 .. c.n
        BY Z3T(20), SMTT(20), <1>0, <1>3, <2>2
      <4> QED BY <1>1, <2>3, <3>1, <4>1 DEF Device!Write, Device!Failed
    <3>2. CASE a = Success(t) /\ Through(c, v) = c.n
      <4>1. a = [ok |-> TRUE]
        BY <1>7, <3>2 DEF Success
      <4>2. p = c.n
        BY Z3T(20), SMTT(20), <1>0, <2>2, <3>2
      <4>3. c.s + c.n <= sectorCount \/ c.n = 0
        BY <2>2, <4>2 DEF Prefix
      <4> QED BY <1>1, <2>3, <4>1, <4>2, <4>3 DEF Device!Write, Device!Wrote, Device!Has
    <3> QED BY <1>7, <3>1, <3>2
  <2>5. /\ Asked(t) # [op |-> "none"] /\ Asked(t).op = "write"
        /\ Asked(t).sector = c.s /\ Asked(t).count = c.n /\ Asked(t).buffer = c.buf
    BY Z3T(20), SMTT(20), <2>1
  <2> QED BY <1>2, <1>4, <2>4, <2>5 DEF Promised, Device!Next, Device!Answer, Device!NoRequest
<1> QED BY <1>0, <1>5, <1>6, <1>7

\* The end of a command, and of a call.
LEMMA EndWithin ==
    ASSUME OneThread, IInv, IInv', Alone, NEW t \in Threads,
           Nothing(t) \/ EndQuery(t) \/ EndGood(t) \/ EndBad(t)
    PROVE  Alone' /\ Promised(t)
<1> DEFINE c == thread[t]
           d == Drive[t]
           v == dev[d]
<1>0. /\ ThreadOK(c) /\ Sc(t) = ScOf(c) /\ c \in Locals /\ Owned(c, v, ucmd)
      /\ Content(c, v, disk[d], seen[d])
      /\ c.done \in Nat /\ c.n \in Nat /\ c.tries \in Nat /\ ScOf(c) \in Nat
  BY Before, Counts DEF IInv, Alone
<1>1. UNCHANGED <<ucmd, dev, disk>> /\ c.pc \in {"nothing", "end"}
  BY DEF Nothing, EndQuery, EndGood, EndBad
<1>l. "tag" \in Labels
  BY DEF Labels, Computing
<1>2. CASE Nothing(t)
  <2>1. c.pc = "nothing" /\ Return(t, Success(t))
    BY <1>2 DEF Nothing
  <2>2. c.n = 0 /\ c.kind # "query"
    BY <1>0, <2>1 DEF Owned
  <2>3. Through(c, v) = 0
    BY Z3T(20), SMTT(20), <1>0, <2>2, Progress
  <2> QED BY <1>1, <2>1, <2>2, <2>3, Returns
<1>3. CASE EndQuery(t)
  BY <1>1, <1>3, Returns DEF EndQuery
<1>4. CASE EndGood(t)
  <2>1. c.pc = "end" /\ c.kind # "query" /\ AllWell(c)
    BY <1>4 DEF EndGood, Good, AllWell
  <2>2. Through(c, v) = c.done + ScOf(c)
    BY <2>1 DEF Through
  <2>3. CASE c.done + Sc(t) = c.n /\ Return(t, Success(t))
    BY <1>0, <1>1, <2>1, <2>2, <2>3, Returns
  <2>4. CASE /\ Step(t, [c EXCEPT !.pc = "tag", !.done = c.done + Sc(t), !.tries = SCSI_MAX_RETRIES])
             /\ UNCHANGED <<reply, seen>>
    <3> DEFINE a == c.done + ScOf(c)
               r == [c EXCEPT !.pc = "tag", !.done = a, !.tries = SCSI_MAX_RETRIES]
    <3>1. Step(t, r) /\ a \in Nat
      BY Z3T(20), SMTT(20), <1>0, <2>4
    <3>2. thread'[t] = r
      BY <3>1 DEF Step, IInv, Pairs
    <3>3. Through(c, v) = a
      BY <2>2
    <3> HIDE DEF a
    <3>4. Is(r, c, "tag", c.buf, a, c.moved, SCSI_MAX_RETRIES, c.rcode, c.want, c.result)
      BY <1>0, <1>l, <3>1, Sizes, Rewritten
    <3> HIDE DEF r
    <3>5. Owned(r, v, ucmd) /\ Through(r, v) = a
      BY <3>4 DEF Owned, Through, AllWell, SoFarWell, Under, Is
    <3>6. r.kind = c.kind /\ r.s = c.s /\ r.n = c.n /\ r.buf = c.buf
      BY <3>4 DEF Is
    <3>7. Content(r, v, disk[d], seen[d])
      BY Z3T(20), SMTT(20), <1>0, <3>1, <3>3, <3>5, <3>6, ContentKeeps
    <3> QED BY <1>1, <2>4, <3>2, <3>5, <3>6, <3>7, Within
  <2> QED BY <1>4, <2>3, <2>4 DEF EndGood
<1>5. CASE EndBad(t)
  <2>1. c.pc = "end" /\ c.kind # "query"
    BY <1>5 DEF EndBad
  <2>2. CASE Return(t, [ok |-> FALSE])
    BY <1>1, <2>1, <2>2, Returns
  <2>3. CASE c.tries > 1 /\ Step(t, [c EXCEPT !.pc = "tag", !.tries = c.tries - 1]) /\ UNCHANGED <<reply, seen>>
    <3> DEFINE a == c.tries - 1
               r == [c EXCEPT !.pc = "tag", !.tries = a]
    <3>1. Step(t, r) /\ a \in Nat
      BY Z3T(20), SMTT(20), <1>0, <2>3
    <3> HIDE DEF a
    <3>2. Is(r, c, "tag", c.buf, c.done, c.moved, a, c.rcode, c.want, c.result)
      BY <1>0, <1>l, <3>1, Rewritten
    <3> HIDE DEF r
    <3>3. Owned(r, dev'[d], ucmd') /\ Through(r, dev'[d]) = r.done
      BY <3>2 DEF Owned, Through, AllWell, SoFarWell, Under, Is
    <3> QED BY <1>1, <2>3, <3>1, <3>2, <3>3, GoesWithin
  <2> QED BY <1>5, <2>2, <2>3 DEF EndBad
<1> QED BY <1>2, <1>3, <1>4, <1>5

\* A call begins.
LEMMA CallsAsk ==
    ASSUME OneThread, IInv, IInv', Alone, NEW t \in Threads, Calls(t)
    PROVE  Alone' /\ Promised(t)
<1> DEFINE c == thread[t]
           d == Drive[t]
           r == thread'[t]
<1>0. c.pc = "idle" /\ ThreadOK(c) /\ Content(c, dev[d], disk[d], seen[d])
  BY Before DEF IInv, Alone, Calls, Read, Write, Query
<1>1. c.kind = "none" /\ Asked(t) = [op |-> "none"] /\ disk[d] = seen[d] /\ seen[d] \in [Sectors -> Data]
  BY <1>0 DEF ThreadOK, Asked, Content
\* the locals of the call, and the invariant
<1>2. ASSUME NEW kind \in {"read", "write", "query"}, NEW s \in Nat, NEW n \in Nat, NEW buf,
             Begin(t, kind, s, n, buf)
      PROVE  /\ Alone' /\ r.kind = kind /\ r.s = s /\ r.n = n /\ r.buf = buf
             /\ UNCHANGED seen
             /\ reply' = IF kind = "query" THEN reply ELSE [reply EXCEPT ![t] = [pending |-> TRUE]]
  <2> DEFINE p == IF n = 0 /\ kind # "query" THEN "nothing" ELSE "tag"
             q == [Idle EXCEPT !.pc = p, !.kind = kind, !.s = s, !.n = n, !.buf = buf]
  <2>1. /\ q.pc = p /\ q.kind = kind /\ q.s = s /\ q.n = n /\ q.buf = buf /\ q.done = 0
    BY DEF Idle
  <2>2. r = q /\ UNCHANGED <<ucmd, dev, disk, seen>>
    BY <1>2 DEF Begin, Step, IInv, Pairs
  <2>3. p \in {"nothing", "tag"} /\ (p = "nothing" => n = 0 /\ kind # "query")
    OBVIOUS
  <2> HIDE DEF p, q
  <2>4. Owned(q, dev[d], ucmd)
    BY <2>1, <2>3 DEF Owned, Under
  <2>5. Through(q, dev[d]) = 0
    BY <2>1, <2>3 DEF Through, AllWell, SoFarWell, Under
  <2>6. Prefix(q, disk[d], seen[d], 0)
    <3>1. \A x \in Sectors : ~(q.s <= x /\ x < q.s + 0)
      BY Z3T(20), SMTT(20), <2>1, Sizes DEF Sectors
    <3>2. disk[d] = [x \in Sectors |-> seen[d][x]]
      BY <1>1
    <3> QED BY <3>1, <3>2 DEF Prefix
  <2>7. Content(q, dev[d], disk[d], seen[d])
    <3>1. 0 \in 0 .. n /\ \A i \in 1 .. 0 : FALSE
      BY Z3T(20), SMTT(20)
    <3> QED BY <1>1, <2>1, <2>5, <2>6, <3>1 DEF Content
  <2>8. \A u \in Threads : u = t
    BY DEF OneThread
  <2>9. reply' = [u \in Threads |-> reply'[u]]
    BY <1>2 DEF Begin, Alone
  <2>10. reply' = IF kind = "query" THEN reply ELSE [reply EXCEPT ![t] = [pending |-> TRUE]]
    BY <1>2 DEF Begin
  <2>11. Alone'
    BY <2>2, <2>4, <2>7, <2>8, <2>9 DEF Alone
  <2> QED BY <2>1, <2>2, <2>10, <2>11
<1>3. reply = [u \in Threads |-> reply[u]] /\ Requested \subseteq Nat /\ MaxCount \in Nat
  BY Z3T(20), SMTT(20), Sizes DEF Alone, Requested
<1>4. CASE Read(t)
  <2>1. PICK s \in Requested, n \in 0 .. MaxCount : Begin(t, "read", s, n, [k \in 1 .. n |-> Junk])
    BY <1>4 DEF Read
  <2> DEFINE b == [k \in 1 .. n |-> Junk]
  <2>2. s \in Nat /\ n \in Nat /\ Begin(t, "read", s, n, b)
    BY Z3T(20), SMTT(20), <1>3, <2>1
  <2> HIDE DEF b
  <2>3. /\ Alone' /\ r.kind = "read" /\ r.s = s /\ r.n = n /\ UNCHANGED seen
        /\ reply' = [reply EXCEPT ![t] = [pending |-> TRUE]]
    BY <1>2, <2>2
  <2>4. Asked(t)' = [op |-> "read", sector |-> s, count |-> n] /\ reply'[t] = [pending |-> TRUE]
    BY <1>3, <2>3 DEF Asked
  <2>5. Device(t)!Ask
    BY <1>1, <2>1, <2>3, <2>4 DEF Device!Ask, Device!NoRequest, Device!Pending, Device!ReadOf, Device!Counts
  <2> QED BY <2>3, <2>5 DEF Promised, Device!Next
<1>5. CASE Write(t)
  <2>1. PICK s \in Requested, n \in 0 .. MaxCount :
           \E buf \in [1 .. n -> Data] : Begin(t, "write", s, n, buf)
    BY <1>5 DEF Write
  <2>2. PICK b \in [1 .. n -> Data] : Begin(t, "write", s, n, b)
    BY <2>1
  <2>3. s \in Nat /\ n \in Nat
    BY Z3T(20), SMTT(20), <1>3
  <2>4. /\ Alone' /\ r.kind = "write" /\ r.s = s /\ r.n = n /\ r.buf = b /\ UNCHANGED seen
        /\ reply' = [reply EXCEPT ![t] = [pending |-> TRUE]]
    BY <1>2, <2>2, <2>3
  <2>5. /\ Asked(t)' = [op |-> "write", sector |-> s, count |-> n, buffer |-> b]
        /\ reply'[t] = [pending |-> TRUE]
    BY <1>3, <2>4 DEF Asked
  <2>6. Device(t)!Ask
    BY <1>1, <2>1, <2>4, <2>5
       DEF Device!Ask, Device!NoRequest, Device!Pending, Device!WriteOf, Device!Counts, Device!Buffer
  <2> QED BY <2>4, <2>6 DEF Promised, Device!Next
<1>6. CASE Query(t)
  <2>1. PICK n \in 0 .. 1 : Begin(t, "query", 0, n, [k \in 1 .. n |-> Junk])
    BY <1>6 DEF Query
  <2> DEFINE b == [k \in 1 .. n |-> Junk]
  <2>2. PICK s \in Nat : Begin(t, "query", s, n, b)
    BY <2>1
  <2> HIDE DEF b
  <2>3. Alone' /\ r.kind = "query" /\ UNCHANGED seen /\ reply' = reply
    BY Z3T(20), SMTT(20), <1>2, <2>2
  <2>4. Asked(t)' = [op |-> "none"]
    BY <2>3 DEF Asked
  <2> QED BY <1>1, <2>3, <2>4 DEF Promised
<1> QED BY <1>4, <1>5, <1>6 DEF Calls

\* One step, as the user of the drive sees it.
LEMMA NextPromised ==
    ASSUME OneThread, IInv, Alone, [Next]_vars
    PROVE  /\ IInv' /\ Alone'
           /\ [\A t \in Threads : Promised(t)]_vars
<1>0. IInv'
  BY NextKeeps
<1>1. CASE Next
  <2>1. PICK t \in Threads : Calls(t) \/ Proceeds(t)
    BY <1>1 DEF Next
  <2>2. DataError(t) => UNCHANGED <<dev, disk>> \/ ~UNCHANGED <<dev, disk>>
    OBVIOUS
  <2>3. Alone' /\ Promised(t)
    BY <1>0, <2>1, <2>2, CallsAsk, CommandWithin, DataWithin, DataInWithin, DataOutWithin, StatusWithin,
       ResetWithin, EndWithin DEF Proceeds
  <2>4. \A u \in Threads : u = t
    BY DEF OneThread
  <2> QED BY <1>0, <2>3, <2>4
<1>2. CASE UNCHANGED vars
  BY <1>0, <1>2 DEF vars, Alone
<1> QED BY <1>1, <1>2

\* The first states.
LEMMA InitPromised ==
    ASSUME Init
    PROVE  Alone /\ \A t \in Threads : Device(t)!Init
<1>1. seen = [d \in Drives |-> seen[d]] /\ reply = [t \in Threads |-> reply[t]]
  BY DEF Init
<1>2. ASSUME NEW t \in Threads
      PROVE  /\ Device(t)!Init
             /\ Owned(thread[t], dev[Drive[t]], ucmd)
             /\ Content(thread[t], dev[Drive[t]], disk[Drive[t]], seen[Drive[t]])
  <2>1. Drive[t] \in Drives
    BY DEF Drives
  <2>2. /\ thread[t] = Idle /\ reply[t] = [ok |-> TRUE] /\ seen[Drive[t]] = disk[Drive[t]]
        /\ disk[Drive[t]] \in [Sectors -> Data]
    BY <2>1 DEF Init
  <2>3. Device(t)!Init
    <3>1. Asked(t) = [op |-> "none"]
      BY <2>2, IdleOK DEF Asked
    <3> QED BY <2>2, <3>1 DEF Device!Init, Device!NoRequest, Device!Wrote, Device!Sectors, Sectors
  <2>4. Owned(Idle, dev[Drive[t]], ucmd)
    BY DEF Owned, Idle, Under
  <2>5. Content(Idle, dev[Drive[t]], disk[Drive[t]], disk[Drive[t]])
    BY <2>2 DEF Content, Idle
  <2> QED BY <2>2, <2>3, <2>4, <2>5
<1> QED BY <1>1, <1>2 DEF Alone

\* A USB drive is a block device: data that scsi_read reports as read is what the medium
\* holds, a write that scsi_write reports as done is on the medium and one that failed has
\* stored a prefix of its buffer, across commands, retries, stalls, short packets, bus
\* errors and failing resets, for any sizes and any number of retries.
THEOREM DriveImplementsDevice ==
    ASSUME OneThread
    PROVE  Spec => ImplementsBlockDevice
<1>1. Init => IInv /\ Alone /\ \A t \in Threads : Device(t)!Init
  BY InitOK, InitPromised
<1>2. IInv /\ Alone /\ [Next]_vars => IInv' /\ Alone'
  BY NextPromised
<1>3. IInv /\ Alone /\ [Next]_vars =>
         [\A t \in Threads : Device(t)!Next \/ UNCHANGED <<seen[Drive[t]], Asked(t), reply[t]>>]_vars
  BY NextPromised DEF Promised
<1> QED BY <1>1, <1>2, <1>3, PTL DEF Spec, ImplementsBlockDevice
=============================================================================
