--------------------------- MODULE UsbMassProofs ---------------------------
(***************************************************************************)
(* Proofs about UsbMass: SlotsKept and DrivesReal hold for every number of *)
(* ports, slots and drives, with every fault of Faults but "replug".       *)
(*                                                                         *)
(* Steady says that a slot which the update thread still has in new_devs   *)
(* is not given to the next drive.  The code does nothing to prevent that  *)
(* (usb_mass_update keeps pointers to slots while it waits for the drives  *)
(* before them), and DrivesReal is false without it.                       *)
(*                                                                         *)
(* The inductive invariant has four parts beside the types.  Semas: which  *)
(* slots have a semaphore.  Bound: a slot with a device number belongs to  *)
(* a device that usbd has bound, to no other slot, and what a call of      *)
(* hcdIrqThread has done so far.  Apart: the two threads are not on one    *)
(* slot, but that hcdIrqThread may take it away from the update thread.    *)
(* Drives: what holds of a block device that is taken.  hcdIrqThread runs  *)
(* only while the update thread sleeps, hence on a slot that has its       *)
(* semaphore: that is why the semaphores are part of the argument.         *)
(***************************************************************************)
EXTENDS UsbMass, FiniteSetTheorems, WellFoundedInduction, TLAPS

\* Most leaves are first-order. Those with arithmetic or records name Z3 and SMT,
\* two encodings, of which the second is tried where the first fails.
USE ZenonT(60)

\* no drive gets a slot that the update thread has in new_devs from before
Steady == "replug" \notin Faults

\* the steps of the update thread before and after scsi_connect has taken a block device,
\* and those of usb_mass_connect and usb_mass_disconnect in hcdIrqThread
Before == {"config", "iface", "haltIn", "haltOut", "connect", "release"}
Warm == {"maxlun", "lunIn", "lunOut", "inquiry", "ready", "sense", "start",
         "capacity", "capacity16", "drop", "announce"}
Filling == {"open", "sema", "status", "publish"}
Leaving == {"delete", "scsi"}

\* a slot, and where the update thread and hcdIrqThread are
Slot == [devId : Ports \cup {None}, conn : BOOLEAN, conf : BOOLEAN, err : BOOLEAN,
         controlEp : Ports \cup {None}, bulkEp : Ports \cup {None}, ioSema : BOOLEAN]
AtWork == [pc : {"step", "io"}, todo : SUBSET Slots, slot : Slots, step : Before \cup Warm,
           port : Ports \cup {None}, bd : Slots \cup {None}, initRequired : BOOLEAN]
AtRest == [pc : {"wait", "next", "delay"}, todo : SUBSET Slots]
InCall == [pc : Filling \cup {"signal"} \cup Leaving, slot : Slots, port : Ports]

Working == u \in AtWork

\* Types, where the two threads are included.
Typed ==
    /\ plugged \in [Ports -> BOOLEAN]
    /\ devDriver \in [Ports -> BOOLEAN]
    /\ slot \in [Slots -> Slot]
    /\ bd \in [Slots -> [priv : Slots \cup {None}, announced : BOOLEAN]]
    /\ update \in BOOLEAN
    /\ u \in AtWork \cup AtRest
    /\ u.pc = "io" => u.step \in ControlSteps \cup CommandSteps
    /\ t \in InCall \cup {Idle}
    /\ refused \subseteq Slots

\* A slot has its semaphore from usb_mass_connect to usb_mass_disconnect.
Held == {s \in Slots : slot[s].ioSema}
Semas ==
    /\ \A s \in Slots : slot[s].ioSema <=>
          slot[s].devId # None \/ InTransit(s, {"status", "publish", "delete"})
    /\ semas = Cardinality(Held)

\* A slot with a device number is bound by usbd or was refused; a drive has one
\* slot; what the call that hcdIrqThread is in has done so far.
Alive == \A s \in Slots : slot[s].devId # None =>
    IF slot[s].conn THEN devDriver[slot[s].devId] ELSE s \in refused
OneSlot == \A r, s \in Slots :
    slot[r].devId = slot[s].devId /\ slot[r].devId # None /\ slot[r].conn /\ slot[s].conn => r = s
SoFar ==
    /\ t.pc # "idle" => devDriver[t.port]
    /\ t.pc \in Filling \cup Leaving =>
          /\ slot[t.slot].devId = None
          /\ \A s \in Slots : ~(slot[s].devId = t.port /\ slot[s].conn)
    /\ t.pc = "publish" => slot[t.slot].conn
    /\ t.pc \in Leaving => slot[t.slot].controlEp = None
Bound == Alive /\ OneSlot /\ SoFar

\* The update thread is never on a slot that is being filled in; a slot that has been
\* freed under it has no control pipe, so that the next request fails.
Apart ==
    /\ \A s \in u.todo :
          /\ ~InTransit(s, Filling)
          /\ slot[s].devId = None => slot[s].controlEp = None
    /\ Working =>
          /\ u.slot \notin u.todo
          /\ ~InTransit(u.slot, Filling)
          /\ slot[u.slot].devId = None /\ ~InTransit(u.slot, Leaving) =>
                u.pc = "step" /\ u.step \in {"config", "release"} /\ slot[u.slot].controlEp = None

\* A block device that is taken is announced or being warmed up, its drive is not new
\* and has not left unseen.
WarmsUp(i) == Working /\ u.step \in Warm /\ u.bd = i /\ u.slot = bd[i].priv
DriveOK(i) ==
    /\ bd[i].announced \/ WarmsUp(i)
    /\ bd[i].priv \notin u.todo
    /\ ~InTransit(bd[i].priv, Filling)
    /\ ~IsNew(bd[i].priv)
    /\ Working /\ u.slot = bd[i].priv => u.step \in Warm
    /\ slot[bd[i].priv].devId # None \/ InTransit(bd[i].priv, Leaving) \/ WarmsUp(i)
OneDevice == \A i, j \in Slots : bd[i].priv = bd[j].priv /\ bd[i].priv # None => i = j
Warming == Working /\ u.step \in Warm => u.bd \in Slots /\ bd[u.bd].priv = u.slot
Drives == (\A i \in Slots : bd[i].priv # None => DriveOK(i)) /\ OneDevice /\ Warming

IInv == Typed /\ Semas /\ Bound /\ Apart /\ Drives

-----------------------------------------------------------------------------
(* Operators *)

\* every transfer belongs to one of the two parts of the work
LEMMA StepsSorted ==
    ControlSteps \cup CommandSteps \subseteq Before \cup Warm
  BY DEF ControlSteps, CommandSteps, Before, Warm

\* what follows a transfer: the first part of the work stays the first part,
\* the warm-up the warm-up
LEMMA AfterFacts ==
    ASSUME NEW step \in ControlSteps \cup CommandSteps,
           NEW r \in {"ok", "stall", "failed", "error"},
           step = "iface" => r # "failed",
           NEW init \in BOOLEAN, NEW next \in After(step, r, init)
    PROVE  /\ next \in Before \cup Warm
           /\ step \in Before <=> next \in Before
           /\ step \in Warm <=> next \in Warm
           /\ next # "config"
           /\ step = "config" /\ r = "error" => next = "release"
<1>1. CASE step = "config"
  BY <1>1 DEF After, Before, Warm
<1>2. CASE step = "iface"
  BY <1>2 DEF After, Before, Warm
<1>3. CASE step \in {"haltIn", "haltOut", "maxlun", "lunIn", "lunOut"}
  BY <1>3 DEF After, Before, Warm
<1>4. CASE step \in {"inquiry", "ready", "sense"}
  BY <1>4 DEF After, Before, Warm
<1>5. CASE step \in {"start", "capacity", "capacity16"}
  BY <1>5 DEF After, Before, Warm
<1> QED
  BY <1>1, <1>2, <1>3, <1>4, <1>5 DEF ControlSteps, CommandSteps

\* a set of natural numbers that is not empty has a least element
LEMMA LeastOf ==
    ASSUME NEW S \in SUBSET Nat, S # {}
    PROVE  \E s \in S : \A x \in S : s <= x
<1>1. PICK s \in S : \A x \in S : ~ (<<x, s>> \in OpToRel(<, Nat))
  BY NatLessThanWellFounded, WFMin
<1>2. \A x \in S : ~ (x < s)
  BY <1>1 DEF OpToRel
<1> QED
  BY Z3T(20), SMTT(20), <1>2

\* a loop over a set of slots that is not empty comes to one of them
LEMMA FirstMember ==
    ASSUME NEW S \in SUBSET Slots, S # {}
    PROVE  First(S) \in S
<1>1. S \in SUBSET Nat
  BY Z3T(20), SMTT(20), UsbMassAssumption DEF Slots
<1>2. \E s \in S : \A x \in S : s <= x
  BY <1>1, LeastOf
<1> QED
  BY <1>2 DEF First

\* the step after a transfer
LEMMA ReturnsFacts ==
    ASSUME Working, u.step \in ControlSteps \cup CommandSteps,
           NEW r \in {"ok", "stall", "failed", "error"}, u.step = "iface" => r # "failed",
           Returns(r)
    PROVE  /\ u' \in AtWork
           /\ u'.pc = "step" /\ u'.todo = u.todo /\ u'.slot = u.slot /\ u'.bd = u.bd
           /\ u'.step \in Before \cup Warm
           /\ u.step \in Before <=> u'.step \in Before
           /\ u.step \in Warm <=> u'.step \in Warm
           /\ u'.step # "config"
           /\ u.step = "config" /\ r = "error" => u'.step = "release"
<1>0. u \in AtWork
  BY DEF Working
<1>1. PICK init \in (IF u.step = "sense" /\ r = "ok" THEN BOOLEAN ELSE {u.initRequired}) :
        \E next \in After(u.step, r, init) :
          u' = [u EXCEPT !.pc = "step", !.step = next, !.initRequired = init]
  BY DEF Returns
<1>2. init \in BOOLEAN
  BY <1>0, <1>1 DEF AtWork
<1>3. PICK next \in After(u.step, r, init) :
          u' = [u EXCEPT !.pc = "step", !.step = next, !.initRequired = init]
  BY <1>1
<1>4. /\ next \in Before \cup Warm
      /\ u.step \in Before <=> next \in Before
      /\ u.step \in Warm <=> next \in Warm
      /\ next # "config"
      /\ u.step = "config" /\ r = "error" => next = "release"
  BY Z3T(20), SMTT(20), <1>2, <1>3, AfterFacts
<1>5. /\ u' \in AtWork
      /\ u'.pc = "step" /\ u'.todo = u.todo /\ u'.slot = u.slot /\ u'.bd = u.bd
      /\ u'.step = next
  BY <1>0, <1>2, <1>3, <1>4 DEF AtWork
<1> QED
  BY <1>4, <1>5

-----------------------------------------------------------------------------
(* Types *)

\* where the two threads are, by their pc
LEMMA Places ==
    ASSUME Typed
    PROVE  /\ Working <=> u.pc \in {"step", "io"}
           /\ ~Working => u \in AtRest
           /\ u.todo \in SUBSET Slots
           /\ Working => u.slot \in Slots /\ u.step \in Before \cup Warm /\ u.bd \in Slots \cup {None}
           /\ t.pc = "idle" <=> t = Idle
           /\ t.pc # "idle" => /\ t \in InCall /\ t.slot \in Slots /\ t.port \in Ports
                               /\ t.pc \in Filling \cup {"signal"} \cup Leaving
           /\ MayRun => ~Working \/ (u.pc = "io" /\ slot[u.slot].ioSema)
<1>1. u \in AtWork => u.pc \in {"step", "io"} /\ u.todo \in SUBSET Slots /\ u.slot \in Slots
                       /\ u.step \in Before \cup Warm /\ u.bd \in Slots \cup {None}
  BY DEF AtWork
<1>2. u \in AtRest => u.pc \in {"wait", "next", "delay"} /\ u.todo \in SUBSET Slots
  BY DEF AtRest
<1>3. Working <=> u.pc \in {"step", "io"}
  BY <1>1, <1>2 DEF Working, Typed
<1>4. t \in InCall => t.slot \in Slots /\ t.port \in Ports
                      /\ t.pc \in Filling \cup {"signal"} \cup Leaving /\ t.pc # "idle"
  BY DEF InCall, Filling, Leaving
<1>5. Idle.pc = "idle"
  BY DEF Idle
<1>6. t.pc = "idle" <=> t = Idle
  BY <1>4, <1>5 DEF Typed
<1>7. MayRun => ~Working \/ (u.pc = "io" /\ slot[u.slot].ioSema)
  <2> SUFFICES ASSUME MayRun, Working PROVE u.pc = "io" /\ slot[u.slot].ioSema
    OBVIOUS
  <2>1. u.pc = "step" => UpdateReady
    BY DEF UpdateReady
  <2>2. u.pc = "io" /\ ~slot[u.slot].ioSema => UpdateReady
    BY DEF UpdateReady
  <2>3. u.pc \in {"step", "io"} /\ ~UpdateReady
    BY <1>3 DEF MayRun
  <2>4. u.pc = "io"
    BY <2>1, <2>3
  <2> QED
    BY <2>2, <2>3, <2>4
<1> QED
  BY <1>1, <1>2, <1>3, <1>4, <1>6, <1>7 DEF Typed, Working

\* usb_mass_release
LEMMA ReleasedType ==
    ASSUME NEW r \in Slot
    PROVE  /\ Released(r) \in Slot
           /\ Released(r).devId = r.devId /\ Released(r).ioSema = r.ioSema
           /\ Released(r).conn = FALSE /\ Released(r).conf = FALSE
           /\ Released(r).controlEp = None /\ Released(r).bulkEp = None
  BY DEF Released, Slot

\* the other changes of a slot
LEMMA FieldsType ==
    ASSUME NEW r \in Slot, NEW p \in Ports \cup {None}
    PROVE  /\ [r EXCEPT !.conn = FALSE, !.conf = FALSE, !.err = FALSE,
                        !.bulkEp = None, !.controlEp = p] \in Slot
           /\ [r EXCEPT !.conn = TRUE, !.conf = FALSE, !.err = FALSE] \in Slot
           /\ \A b \in BOOLEAN : [r EXCEPT !.ioSema = b] \in Slot
           /\ [r EXCEPT !.err = TRUE] \in Slot
           /\ [r EXCEPT !.conf = TRUE] \in Slot
           /\ [r EXCEPT !.devId = p] \in Slot
           /\ [r EXCEPT !.bulkEp = p] \in Slot
  BY DEF Slot

\* one slot is changed
LEMMA SlotSet ==
    ASSUME NEW x \in Slots, NEW r \in Slot, slot \in [Slots -> Slot],
           slot' = [slot EXCEPT ![x] = r]
    PROVE  /\ slot' \in [Slots -> Slot]
           /\ slot'[x] = r
           /\ \A y \in Slots : y # x => slot'[y] = slot[y]
  OBVIOUS

\* the types hold in the beginning
LEMMA TypedInit ==
    Init => Typed
<1> SUFFICES ASSUME Init PROVE Typed
  OBVIOUS
<1>1. Free \in Slot
  BY DEF Free, Slot
<1>2. NoDevice \in [priv : Slots \cup {None}, announced : BOOLEAN]
  BY DEF NoDevice
<1>3. Waiting \in AtRest /\ Waiting.pc # "io"
  BY DEF Waiting, AtRest
<1> QED
  BY <1>1, <1>2, <1>3 DEF Init, Typed

\* the answers that a drive, the bus or a deleted semaphore can give
LEMMA ResultFacts ==
    ASSUME Typed, Working, u.step \in ControlSteps \cup CommandSteps,
           \/ Returns("error")
           \/ \E r \in Answers(u.step) : Returns(r)
           \/ \E r \in IF u.step \in ControlSteps THEN {"ok", "stall", "error"} ELSE {"ok", "error"} :
                 Returns(r)
    PROVE  /\ u' \in AtWork
           /\ u'.pc = "step" /\ u'.todo = u.todo /\ u'.slot = u.slot /\ u'.bd = u.bd
           /\ u'.step \in Before \cup Warm
           /\ u.step \in Before <=> u'.step \in Before
           /\ u.step \in Warm <=> u'.step \in Warm
           /\ u'.step # "config"
<1>1. \E r \in {"ok", "stall", "failed", "error"} : (u.step = "iface" => r # "failed") /\ Returns(r)
  <2>1. CASE Returns("error")
    BY <2>1
  <2>2. CASE \E r \in Answers(u.step) : Returns(r)
    <3>1. PICK r \in Answers(u.step) : Returns(r)
      BY <2>2
    <3>2. r \in {"ok", "stall", "failed", "error"} /\ (u.step = "iface" => r # "failed")
      BY <3>1 DEF Answers, ControlSteps, CommandSteps
    <3> QED
      BY <3>1, <3>2
  <2>3. CASE \E r \in IF u.step \in ControlSteps THEN {"ok", "stall", "error"} ELSE {"ok", "error"} :
                Returns(r)
    BY <2>3
  <2> QED
    BY <2>1, <2>2, <2>3
<1> QED
  BY <1>1, ReturnsFacts

\* A step of hcdIrqThread or of the port keeps the types.
LEMMA TypedUsbd ==
    ASSUME Typed, \/ \E p \in Ports : Unplug(p) \/ Connect(p)
                  \/ UsbdThread
    PROVE  Typed'
<1>0. /\ t.pc # "idle" => t \in InCall /\ t.slot \in Slots /\ t.port \in Ports
      /\ slot \in [Slots -> Slot] /\ devDriver \in [Ports -> BOOLEAN]
  BY Places DEF Typed
<1>1. ASSUME NEW p \in Ports, Unplug(p) PROVE Typed'
  BY <1>1 DEF Typed, Unplug
<1>2. ASSUME NEW p \in Ports, Connect(p) PROVE Typed'
  <2>1. plugged' \in [Ports -> BOOLEAN] /\ devDriver' \in [Ports -> BOOLEAN]
    BY <1>2 DEF Connect, Typed
  <2>2. CASE Found(p) # {} /\ slot[First(Found(p))].devId = None
    <3> DEFINE s == First(Found(p))
    <3>1. s \in Slots
      BY <2>2, FirstMember DEF Found
    <3> HIDE DEF s
    <3> DEFINE r == [slot[s] EXCEPT !.conn = FALSE, !.conf = FALSE, !.err = FALSE,
                                    !.bulkEp = None, !.controlEp = p]
    <3>2. /\ slot' = [slot EXCEPT ![s] = r]
          /\ t' = [pc |-> "open", slot |-> s, port |-> p]
      BY <1>2, <2>2 DEF Connect, s
    <3>3. slot' \in [Slots -> Slot]
      <4>1. r \in Slot
        BY <1>0, <3>1, FieldsType
      <4> QED
        BY <1>0, <3>1, <3>2, <4>1, SlotSet
    <3>4. t' \in InCall
      BY <3>1, <3>2 DEF InCall, Filling
    <3> QED
      BY <1>2, <2>1, <3>3, <3>4 DEF Typed, Connect
  <2>3. CASE ~(Found(p) # {} /\ slot[First(Found(p))].devId = None)
    BY <1>2, <2>1, <2>3 DEF Typed, Connect
  <2> QED
    BY <2>2, <2>3
<1>3. CASE OpenPipes
  <2>1. slot' \in [Slots -> Slot]
    <3>1. CASE slot' = [slot EXCEPT ![t.slot].bulkEp = t.port]
      BY Z3T(20), SMTT(20), <1>0, <1>3, <3>1 DEF OpenPipes, Slot
    <3>2. CASE slot' = [slot EXCEPT ![t.slot] = Released(@)]
      BY <1>0, <1>3, <3>2, ReleasedType DEF OpenPipes
    <3> QED
      BY <1>3, <3>1, <3>2 DEF OpenPipes
  <2>2. t' \in InCall \cup {Idle}
    BY <1>0, <1>3 DEF OpenPipes, InCall, Filling
  <2> QED
    BY <1>3, <2>1, <2>2 DEF Typed, OpenPipes
<1>4. CASE CreateIoSema
  <2>1. slot' \in [Slots -> Slot]
    <3> DEFINE r == [slot[t.slot] EXCEPT !.ioSema = TRUE]
    <3>1. CASE slot' = [slot EXCEPT ![t.slot] = r]
      <4>1. r \in Slot
        BY <1>0, <1>4, FieldsType DEF CreateIoSema
      <4> QED
        BY <1>0, <1>4, <3>1, <4>1, SlotSet DEF CreateIoSema
    <3>2. CASE slot' = slot
      BY <1>0, <3>2
    <3> QED
      BY <1>4, <3>1, <3>2 DEF CreateIoSema
  <2>2. t' \in InCall \cup {Idle}
    BY <1>0, <1>4 DEF CreateIoSema, InCall, Filling
  <2> QED
    BY <1>4, <2>1, <2>2 DEF Typed, CreateIoSema
<1>5. CASE SetStatus
  <2>1. slot' \in [Slots -> Slot]
    <3> DEFINE r == [slot[t.slot] EXCEPT !.conn = TRUE, !.conf = FALSE, !.err = FALSE]
    <3>1. r \in Slot
      BY <1>0, <1>5, FieldsType DEF SetStatus
    <3> QED
      BY <1>0, <1>5, <3>1, SlotSet DEF SetStatus
  <2>2. t' \in InCall \cup {Idle}
    BY <1>0, <1>5 DEF SetStatus, InCall, Filling
  <2> QED
    BY <1>5, <2>1, <2>2 DEF Typed, SetStatus
<1>6. CASE Publish
  <2>1. slot' \in [Slots -> Slot]
    BY Z3T(20), SMTT(20), <1>0, <1>6 DEF Publish, Slot
  <2>2. t' \in InCall \cup {Idle}
    BY <1>0, <1>6 DEF Publish, InCall, Filling
  <2> QED
    BY <1>6, <2>1, <2>2 DEF Typed, Publish
<1>7. CASE SignalUpdate
  BY <1>7 DEF Typed, SignalUpdate
<1>8. ASSUME NEW p \in Ports, Disconnect(p) PROVE Typed'
  <2>1. devDriver' \in [Ports -> BOOLEAN]
    BY <1>0, <1>8 DEF Disconnect
  <2>2. CASE Connected(p) = {}
    BY <1>8, <2>1, <2>2 DEF Typed, Disconnect
  <2>3. CASE Connected(p) # {}
    <3>1. PICK s \in Connected(p) :
              /\ slot' = [slot EXCEPT ![s] = [Released(@) EXCEPT !.devId = None]]
              /\ t' = [pc |-> "delete", slot |-> s, port |-> p]
      BY <1>8, <2>3 DEF Disconnect
    <3>2. s \in Slots
      BY DEF Connected
    <3>3. Released(slot[s]) \in Slot
      BY <1>0, <3>2, ReleasedType
    <3>4. [Released(slot[s]) EXCEPT !.devId = None] \in Slot
      BY <3>3 DEF Slot
    <3>5. slot' \in [Slots -> Slot]
      BY <1>0, <3>1, <3>2, <3>4
    <3>6. t' \in InCall
      BY <3>1, <3>2 DEF InCall, Leaving
    <3> QED
      BY <1>8, <2>1, <3>5, <3>6 DEF Typed, Disconnect
  <2> QED
    BY <2>2, <2>3
<1>9. CASE DeleteIoSema
  <2>1. slot' \in [Slots -> Slot]
    BY <1>0, <1>9 DEF DeleteIoSema, Slot
  <2>2. t' \in InCall \cup {Idle}
    BY <1>0, <1>9 DEF DeleteIoSema, InCall, Leaving
  <2> QED
    BY <1>9, <2>1, <2>2 DEF Typed, DeleteIoSema
<1>10. CASE ScsiDisconnect
  <2>1. devDriver' \in [Ports -> BOOLEAN]
    BY <1>0, <1>10 DEF ScsiDisconnect
  <2>2. bd' \in [Slots -> [priv : Slots \cup {None}, announced : BOOLEAN]]
    BY <1>10 DEF ScsiDisconnect, Typed, NoDevice
  <2> QED
    BY <1>10, <2>1, <2>2 DEF Typed, ScsiDisconnect
<1> QED
  BY <1>1, <1>2, <1>3, <1>4, <1>5, <1>6, <1>7, <1>8, <1>9, <1>10 DEF UsbdThread

\* A step of the update thread, or an answer to it, keeps the types.
LEMMA TypedUpdate ==
    ASSUME Typed, UpdateThread \/ Answer
    PROVE  Typed'
<1>0. /\ Working <=> u.pc \in {"step", "io"}
      /\ Working => u \in AtWork /\ u.slot \in Slots
      /\ u.todo \in SUBSET Slots
      /\ slot \in [Slots -> Slot]
      /\ bd \in [Slots -> [priv : Slots \cup {None}, announced : BOOLEAN]]
  BY Places DEF Typed, Working
<1>1. CASE Collect
  <2>1. u' \in AtRest /\ u'.pc # "io"
    BY <1>1 DEF Collect, AtRest
  <2> QED
    BY <1>1, <2>1 DEF Typed, Collect
<1>2. CASE NextDevice
  <2>1. CASE u.todo = {}
    <3>1. u' \in AtRest /\ u'.pc # "io"
      BY <1>2, <2>1 DEF NextDevice, AtRest, Waiting
    <3> QED
      BY <1>2, <3>1 DEF Typed, NextDevice
  <2>2. CASE u.todo # {}
    <3>1. First(u.todo) \in Slots
      BY <1>0, <2>2, FirstMember
    <3>2. u' \in AtWork /\ u'.pc # "io"
      BY <1>0, <1>2, <2>2, <3>1 DEF NextDevice, AtWork, Before
    <3> QED
      BY <1>2, <3>2 DEF Typed, NextDevice
  <2> QED
    BY <2>1, <2>2
<1>3. CASE DelayEnds
  <2>1. u \in AtRest
    BY <1>3, Places DEF DelayEnds
  <2>2. u' \in AtRest /\ u'.pc # "io"
    BY <1>3, <2>1 DEF DelayEnds, AtRest
  <2> QED
    BY <1>3, <2>2 DEF Typed, DelayEnds
<1>4. CASE SubmitFails
  <2>1. u' \in AtWork /\ u'.pc = "step"
    BY <1>0, <1>4, ResultFacts DEF SubmitFails
  <2>2. slot' \in [Slots -> Slot]
    <3>1. [slot[u.slot] EXCEPT !.err = TRUE] \in Slot
      BY <1>0, <1>4, FieldsType DEF SubmitFails
    <3>2. [slot EXCEPT ![u.slot].err = TRUE] \in [Slots -> Slot]
      BY <1>0, <3>1
    <3> QED
      BY <1>0, <1>4, <3>2 DEF SubmitFails
  <2> QED
    BY <1>4, <2>1, <2>2 DEF Typed, SubmitFails
<1>5. CASE Submit
  <2>1. slot[u.slot].controlEp \in Ports \cup {None}
    BY <1>0, <1>5 DEF Submit, Slot
  <2>2. u' \in AtWork /\ u'.step = u.step
    BY <1>0, <1>5, <2>1 DEF Submit, AtWork
  <2>3. u'.step \in ControlSteps \cup CommandSteps
    BY <1>5, <2>2 DEF Submit
  <2> QED
    BY <1>5, <2>2, <2>3 DEF Typed, Submit
<1>6. CASE WaitDeleted
  <2>1. u' \in AtWork /\ u'.pc = "step"
    BY <1>0, <1>6, ResultFacts DEF WaitDeleted, Typed
  <2> QED
    BY <1>6, <2>1 DEF Typed, WaitDeleted
<1>7. CASE GiveUp
  <2>1. slot' \in [Slots -> Slot]
    BY <1>0, <1>7, ReleasedType DEF GiveUp
  <2>2. u' \in AtRest /\ u'.pc # "io"
    BY <1>0, <1>7 DEF GiveUp, AtRest
  <2> QED
    BY <1>0, <1>7, <2>1, <2>2 DEF Typed, GiveUp
<1>8. Done \in AtRest /\ Done.pc # "io"
  BY <1>0 DEF Done, AtRest
<1>9. CASE ScsiConnect
  <2>1. slot' \in [Slots -> Slot]
    BY <1>0, <1>9 DEF ScsiConnect, Slot
  <2>2. CASE Devices(None) = {}
    BY <1>8, <1>9, <2>1, <2>2 DEF ScsiConnect, Typed
  <2>3. CASE Devices(None) # {}
    <3>1. First(Devices(None)) \in Slots
      BY <2>3, FirstMember DEF Devices
    <3>2. bd' \in [Slots -> [priv : Slots \cup {None}, announced : BOOLEAN]]
      <4> DEFINE f == First(Devices(None))
      <4>1. bd' = [bd EXCEPT ![f].priv = u.slot]
        BY <1>9, <2>3 DEF ScsiConnect
      <4> HIDE DEF f
      <4> QED
        BY <1>0, <1>9, <3>1, <4>1 DEF ScsiConnect
    <3>3. u' \in AtWork /\ u'.pc # "io"
      <4> DEFINE f == First(Devices(None))
      <4>1. PICK junk \in BOOLEAN : u' = [u EXCEPT !.step = "maxlun", !.bd = f, !.initRequired = junk]
        BY <1>9, <2>3 DEF ScsiConnect
      <4>2. f \in Slots
        BY <3>1
      <4> HIDE DEF f
      <4> QED
        BY <1>0, <1>9, <4>1, <4>2 DEF ScsiConnect, AtWork, Warm
    <3> QED
      BY <1>9, <2>1, <3>2, <3>3 DEF ScsiConnect, Typed
  <2> QED
    BY <2>2, <2>3
<1>10. CASE WarmupFails
  <2>1. bd' \in [Slots -> [priv : Slots \cup {None}, announced : BOOLEAN]]
    BY <1>0, <1>10 DEF WarmupFails, NoDevice
  <2> QED
    BY <1>8, <1>10, <2>1 DEF WarmupFails, Typed
<1>11. CASE Announce
  <2>1. bd' \in [Slots -> [priv : Slots \cup {None}, announced : BOOLEAN]]
    BY <1>0, <1>11 DEF Announce
  <2> QED
    BY <1>8, <1>11, <2>1 DEF Announce, Typed
<1>12. CASE Answer
  <2>1. Returns("error") \/ \E r \in Answers(u.step) : Returns(r)
    BY <1>12 DEF Answer
  <2>2. u' \in AtWork /\ u'.pc = "step"
    BY <1>0, <1>12, <2>1, ResultFacts DEF Answer, Typed
  <2>3. slot' \in [Slots -> Slot]
    <3>1. [slot[u.slot] EXCEPT !.err = TRUE] \in Slot
      BY <1>0, <1>12 DEF Answer, Slot
    <3>2. [slot EXCEPT ![u.slot].err = TRUE] \in [Slots -> Slot]
      BY <1>0, <3>1
    <3> QED
      BY <1>0, <1>12, <3>2 DEF Answer
  <2> QED
    BY <1>12, <2>2, <2>3 DEF Typed, Answer
<1> QED
  BY <1>1, <1>2, <1>3, <1>4, <1>5, <1>6, <1>7, <1>9, <1>10, <1>11, <1>12 DEF UpdateThread

-----------------------------------------------------------------------------
(* hcdIrqThread *)

\* while hcdIrqThread runs, the update thread is not at work on a slot whose
\* semaphore does not exist
LEMMA Sleeps ==
    ASSUME Typed, MayRun, NEW s \in Slots, ~slot[s].ioSema
    PROVE  ~(Working /\ u.slot = s)
  BY Places

\* A step of usb_mass_connect before the device number is set: neither the update
\* thread nor a block device has to do with the slot.
LEMMA FillingKeeps ==
    ASSUME IInv, t.pc \in Filling,
           \A y \in Slots : y # t.slot => slot'[y] = slot[y],
           slot'[t.slot].devId = None,
           t'.pc = "publish" => slot'[t.slot].conn,
           \/ t'.pc \in Filling /\ t'.slot = t.slot /\ t'.port = t.port
           \/ t'.pc = "idle",
           UNCHANGED <<devDriver, bd, u, refused>>
    PROVE  Bound' /\ Apart' /\ Drives'
<1>0. /\ t.slot \in Slots /\ t.port \in Ports /\ t.port # None
      /\ slot[t.slot].devId = None /\ devDriver[t.port]
      /\ \A s \in Slots : ~(slot[s].devId = t.port /\ slot[s].conn)
      /\ t.pc \notin Leaving /\ t'.pc \notin Leaving
  BY Places, UsbMassAssumption DEF IInv, Bound, SoFar, Filling, Leaving
<1>1. \A s \in Slots : slot'[s].devId # None => slot'[s] = slot[s] /\ slot[s].devId # None
  BY <1>0
<1>2. Alive' /\ OneSlot'
  BY <1>0, <1>1 DEF IInv, Bound, Alive, OneSlot
<1>3. SoFar'
  BY <1>0, <1>1 DEF SoFar, Filling, Leaving
<1>4. Apart'
  <2>1. \A s \in u.todo : s \in Slots /\ s # t.slot
    BY Places DEF IInv, Apart, InTransit
  <2>2. Working => u.slot \in Slots /\ u.slot # t.slot
    BY Places DEF IInv, Apart, InTransit
  <2> QED
    BY Z3T(20), SMTT(20), <1>0, <2>1, <2>2 DEF IInv, Apart, InTransit, Working, Filling
<1>5. ASSUME NEW i \in Slots, bd'[i].priv # None PROVE DriveOK(i)'
  <2>1. DriveOK(i) /\ bd'[i] = bd[i] /\ bd[i].priv \in Slots
    BY <1>5 DEF IInv, Drives, Typed
  <2>2. bd[i].priv # t.slot /\ slot'[bd[i].priv] = slot[bd[i].priv]
    BY <2>1 DEF DriveOK, InTransit
  <2> QED
    BY <1>0, <2>1, <2>2 DEF DriveOK, InTransit, Filling, Leaving, Working, WarmsUp, IsNew
<1>6. OneDevice' /\ Warming'
  BY DEF IInv, Drives, OneDevice, Warming, Working
<1> QED
  BY <1>2, <1>3, <1>4, <1>5, <1>6 DEF Bound, Drives

\* the fields of a slot after each of the changes
LEMMA Fields ==
    ASSUME NEW r \in Slot, NEW q
    PROVE  /\ q = [r EXCEPT !.conn = TRUE, !.conf = FALSE, !.err = FALSE] =>
                 q.devId = r.devId /\ q.ioSema = r.ioSema /\ q.conn = TRUE
           /\ \A p : q = [r EXCEPT !.bulkEp = p] => q.devId = r.devId /\ q.ioSema = r.ioSema
           /\ \A p : q = [r EXCEPT !.conn = FALSE, !.conf = FALSE, !.err = FALSE,
                                   !.bulkEp = None, !.controlEp = p] =>
                 q.devId = r.devId /\ q.ioSema = r.ioSema /\ q.conn = FALSE
           /\ q = [r EXCEPT !.err = TRUE] =>
                 /\ q.devId = r.devId /\ q.ioSema = r.ioSema /\ q.conn = r.conn /\ q.conf = r.conf
                 /\ q.controlEp = r.controlEp
           /\ q = [r EXCEPT !.conf = TRUE] =>
                 /\ q.devId = r.devId /\ q.ioSema = r.ioSema /\ q.conn = r.conn /\ q.conf = TRUE
                 /\ q.controlEp = r.controlEp
  BY DEF Slot

\* the same for the semaphore
LEMMA SemaField ==
    ASSUME NEW r \in Slot, NEW b \in BOOLEAN, NEW q, q = [r EXCEPT !.ioSema = b]
    PROVE  /\ q \in Slot
           /\ q.devId = r.devId /\ q.ioSema = b /\ q.conn = r.conn /\ q.conf = r.conf
           /\ q.controlEp = r.controlEp
  BY DEF Slot

\* and for the device number
LEMMA IdField ==
    ASSUME NEW r \in Slot, NEW p \in Ports \cup {None}, NEW q, q = [r EXCEPT !.devId = p]
    PROVE  /\ q \in Slot
           /\ q.devId = p /\ q.ioSema = r.ioSema /\ q.conn = r.conn /\ q.conf = r.conf
           /\ q.controlEp = r.controlEp
  BY DEF Slot

\* the semaphores that exist are the same
LEMMA SameSemas ==
    ASSUME IInv, UNCHANGED semas,
           \A s \in Slots : slot'[s].ioSema = slot[s].ioSema,
           \A s \in Slots :
              (slot[s].devId # None \/ InTransit(s, {"status", "publish", "delete"})) <=>
              (slot'[s].devId # None \/ InTransit(s, {"status", "publish", "delete"})')
    PROVE  Semas'
<1>1. Held' = Held
  BY DEF Held
<1> QED
  BY <1>1 DEF IInv, Semas

\* usb_mass_connect sets the status
LEMMA SetStatusKeeps ==
    ASSUME IInv, SetStatus
    PROVE  Semas' /\ Bound' /\ Apart' /\ Drives'
<1> DEFINE x == t.slot
           r == [slot[x] EXCEPT !.conn = TRUE, !.conf = FALSE, !.err = FALSE]
<1>0. /\ t.pc = "status" /\ x \in Slots /\ slot[x] \in Slot /\ t \in InCall
      /\ slot \in [Slots -> Slot] /\ slot[x].devId = None
  BY Places DEF IInv, Typed, SetStatus, Bound, SoFar, Filling
<1>1. r \in Slot /\ r.devId = None /\ r.ioSema = slot[x].ioSema /\ r.conn = TRUE
  BY <1>0, FieldsType, Fields
<1>2. slot' = [slot EXCEPT ![x] = r]
  BY DEF SetStatus
<1> HIDE DEF r
<1>3. slot'[x] = r /\ \A y \in Slots : y # x => slot'[y] = slot[y]
  BY <1>0, <1>1, <1>2, SlotSet
<1>4. t'.pc = "publish" /\ t'.slot = x /\ t'.port = t.port
  BY <1>0 DEF SetStatus, InCall
<1>5. Bound' /\ Apart' /\ Drives'
  BY <1>0, <1>1, <1>3, <1>4, FillingKeeps DEF SetStatus, Filling
<1>6. Semas'
  <2>1. \A s \in Slots : slot'[s].ioSema = slot[s].ioSema /\ slot'[s].devId = slot[s].devId
    BY <1>0, <1>1, <1>3
  <2>2. UNCHANGED semas
    BY DEF SetStatus
  <2> QED
    BY <1>0, <1>4, <2>1, <2>2, SameSemas DEF InTransit
<1> QED
  BY <1>5, <1>6

\* usb_mass_connect opens the bulk pipes, or fails to
LEMMA OpenPipesKeeps ==
    ASSUME IInv, OpenPipes
    PROVE  Semas' /\ Bound' /\ Apart' /\ Drives'
<1> DEFINE x == t.slot
<1>0. /\ t.pc = "open" /\ x \in Slots /\ slot[x] \in Slot /\ t \in InCall
      /\ slot \in [Slots -> Slot] /\ slot[x].devId = None /\ t.port \in Ports
  BY Places DEF IInv, Typed, OpenPipes, Bound, SoFar, Filling
<1>1. PICK r \in Slot : /\ r.devId = None /\ r.ioSema = slot[x].ioSema
                        /\ slot' = [slot EXCEPT ![x] = r]
  <2>1. CASE slot' = [slot EXCEPT ![x].bulkEp = t.port]
    <3> DEFINE r == [slot[x] EXCEPT !.bulkEp = t.port]
    <3>1. r \in Slot /\ r.devId = None /\ r.ioSema = slot[x].ioSema
      BY <1>0, FieldsType, Fields
    <3> QED
      BY <2>1, <3>1
  <2>2. CASE slot' = [slot EXCEPT ![x] = Released(@)]
    BY <1>0, <2>2, ReleasedType
  <2> QED
    BY <2>1, <2>2 DEF OpenPipes
<1>2. slot'[x] = r /\ \A y \in Slots : y # x => slot'[y] = slot[y]
  BY <1>0, <1>1, SlotSet
<1>3. \/ t'.pc = "sema" /\ t'.slot = x /\ t'.port = t.port
      \/ t'.pc = "idle"
  BY Z3T(20), SMTT(20), <1>0 DEF OpenPipes, InCall, Idle
<1>4. Bound' /\ Apart' /\ Drives'
  BY <1>0, <1>1, <1>2, <1>3, FillingKeeps DEF OpenPipes, Filling
<1>5. Semas'
  <2>1. \A s \in Slots : slot'[s].ioSema = slot[s].ioSema /\ slot'[s].devId = slot[s].devId
    BY <1>0, <1>1, <1>2
  <2>2. UNCHANGED semas
    BY DEF OpenPipes
  <2> QED
    BY <1>0, <1>3, <2>1, <2>2, SameSemas DEF InTransit
<1> QED
  BY <1>4, <1>5

\* the slots are finitely many, and so are the semaphores
LEMMA HeldFinite ==
    IsFiniteSet(Slots) /\ Cardinality(Slots) = NUM_DEVICES
    /\ IsFiniteSet(Held) /\ Cardinality(Held) \in 0 .. NUM_DEVICES
<1>1. IsFiniteSet(Slots) /\ Cardinality(Slots) = NUM_DEVICES
  BY Z3T(20), SMTT(20), UsbMassAssumption, FS_Interval DEF Slots
<1>2. Held \in SUBSET Slots
  BY DEF Held
<1>3. IsFiniteSet(Held) /\ Cardinality(Held) <= NUM_DEVICES /\ Cardinality(Held) \in Nat
  BY <1>1, <1>2, FS_Subset, FS_CardinalityType
<1> QED
  BY Z3T(20), SMTT(20), <1>1, <1>3, UsbMassAssumption

\* usb_mass_connect creates the semaphore, or fails to
LEMMA CreateIoSemaKeeps ==
    ASSUME IInv, CreateIoSema
    PROVE  Semas' /\ Bound' /\ Apart' /\ Drives'
<1> DEFINE x == t.slot
           r == [slot[x] EXCEPT !.ioSema = TRUE]
<1>0. /\ t.pc = "sema" /\ x \in Slots /\ slot[x] \in Slot /\ t \in InCall
      /\ slot \in [Slots -> Slot] /\ slot[x].devId = None
  BY Places DEF IInv, Typed, CreateIoSema, Bound, SoFar, Filling
<1>1. CASE slot' = [slot EXCEPT ![x].ioSema = TRUE] /\ semas' = semas + 1
           /\ t' = [t EXCEPT !.pc = "status"]
  <2>1. r \in Slot /\ r.devId = None /\ r.ioSema = TRUE
    <3>1. \A o \in Slot : o.devId = None => LET q == [o EXCEPT !.ioSema = TRUE]
                                           IN  q \in Slot /\ q.devId = None /\ q.ioSema = TRUE
      BY SemaField
    <3> QED
      BY <1>0, <3>1
  <2>2. slot' = [slot EXCEPT ![x] = r]
    BY <1>1
  <2> HIDE DEF r
  <2>3. slot'[x] = r /\ \A y \in Slots : y # x => slot'[y] = slot[y]
    BY <1>0, <2>1, <2>2, SlotSet
  <2>4. t'.pc = "status" /\ t'.slot = x /\ t'.port = t.port
    BY <1>0, <1>1 DEF InCall
  <2>5. Bound' /\ Apart' /\ Drives'
    BY <1>0, <2>1, <2>3, <2>4, FillingKeeps DEF CreateIoSema, Filling
  <2>6. ~slot[x].ioSema
    BY <1>0 DEF IInv, Semas, InTransit
  <2>7. Held' = Held \cup {x} /\ x \notin Held
    BY <1>0, <2>1, <2>3, <2>6 DEF Held
  <2>8. Cardinality(Held') = Cardinality(Held) + 1
    BY <2>7, HeldFinite, FS_AddElement
  <2>9. Semas'
    BY <1>0, <1>1, <2>1, <2>3, <2>4, <2>8 DEF IInv, Semas, InTransit
  <2> QED
    BY <2>5, <2>9
<1>2. CASE t' = Idle /\ UNCHANGED <<slot, semas>>
  <2>1. t'.pc = "idle"
    BY <1>2 DEF Idle
  <2>2. Bound' /\ Apart' /\ Drives'
    BY <1>0, <1>2, <2>1, FillingKeeps DEF CreateIoSema, Filling
  <2>3. Semas'
    BY <1>0, <1>2, <2>1, SameSemas DEF InTransit
  <2> QED
    BY <2>2, <2>3
<1> QED
  BY <1>1, <1>2 DEF CreateIoSema

\* usb_mass_connect sets the device number: from here on the slot is seen
LEMMA PublishKeeps ==
    ASSUME IInv, Publish
    PROVE  Semas' /\ Bound' /\ Apart' /\ Drives'
<1> DEFINE x == t.slot
           r == [slot[x] EXCEPT !.devId = t.port]
<1>0. /\ t.pc = "publish" /\ x \in Slots /\ slot[x] \in Slot /\ t \in InCall
      /\ slot \in [Slots -> Slot] /\ slot[x].devId = None /\ slot[x].conn
      /\ t.port \in Ports /\ t.port # None /\ devDriver[t.port]
      /\ \A s \in Slots : ~(slot[s].devId = t.port /\ slot[s].conn)
  BY Places, UsbMassAssumption DEF IInv, Typed, Publish, Bound, SoFar, Filling
<1>1. r \in Slot /\ r.devId = t.port /\ r.ioSema = slot[x].ioSema /\ r.conn = slot[x].conn
  <2>1. \A o \in Slot : \A p \in Ports : LET q == [o EXCEPT !.devId = p]
          IN  q \in Slot /\ q.devId = p /\ q.ioSema = o.ioSema /\ q.conn = o.conn
    BY Z3T(20), SMTT(20), IdField
  <2> QED
    BY <1>0, <2>1
<1>2. slot' = [slot EXCEPT ![x] = r]
  BY DEF Publish
<1> HIDE DEF r
<1>3. slot'[x] = r /\ \A y \in Slots : y # x => slot'[y] = slot[y]
  BY <1>0, <1>1, <1>2, SlotSet
<1>4. t'.pc = "signal" /\ t'.slot = x /\ t'.port = t.port
  BY <1>0 DEF Publish, InCall
<1>5. UNCHANGED <<devDriver, semas, bd, u>> /\ refused' = refused \ {x}
  BY DEF Publish
<1>6. Semas'
  <2>1. \A s \in Slots : slot'[s].ioSema = slot[s].ioSema
    BY <1>0, <1>1, <1>3
  <2> QED
    BY <1>0, <1>1, <1>3, <1>4, <1>5, <2>1, SameSemas DEF InTransit
<1>7. Alive'
  BY <1>0, <1>1, <1>3, <1>5 DEF IInv, Bound, Alive
<1>8. OneSlot'
  BY Z3T(20), SMTT(20), <1>0, <1>1, <1>3, <1>5 DEF IInv, Bound, OneSlot
<1>9. SoFar'
  BY <1>0, <1>4, <1>5 DEF SoFar, Filling, Leaving
<1>10. Apart'
  <2>1. \A s \in u.todo : s \in Slots /\ s # x
    BY <1>0, Places DEF IInv, Apart, InTransit, Filling
  <2>2. Working => u.slot \in Slots /\ u.slot # x
    BY <1>0, Places DEF IInv, Apart, InTransit, Filling
  <2> QED
    BY Z3T(20), SMTT(20), <1>0, <1>3, <1>4, <1>5, <2>1, <2>2 DEF IInv, Apart, InTransit, Working, Filling, Leaving
<1>11. ASSUME NEW i \in Slots, bd'[i].priv # None PROVE DriveOK(i)'
  <2>1. DriveOK(i) /\ bd'[i] = bd[i] /\ bd[i].priv \in Slots
    BY <1>5, <1>11 DEF IInv, Drives, Typed
  <2>2. bd[i].priv # x /\ slot'[bd[i].priv] = slot[bd[i].priv]
    BY <1>0, <1>3, <2>1 DEF DriveOK, InTransit, Filling
  <2> QED
    BY <1>0, <1>4, <1>5, <2>1, <2>2 DEF DriveOK, InTransit, Filling, Leaving, Working, WarmsUp, IsNew
<1>12. OneDevice' /\ Warming'
  BY <1>5 DEF IInv, Drives, OneDevice, Warming, Working
<1> QED
  BY <1>6, <1>7, <1>8, <1>9, <1>10, <1>11, <1>12 DEF Bound, Drives

\* a step that leaves alone what the invariant is about
LEMMA NothingKeeps ==
    ASSUME IInv, UNCHANGED <<devDriver, slot, semas, bd, u, refused>>,
           t' = t \/ (t.pc = "signal" /\ t' = Idle)
    PROVE  Semas' /\ Bound' /\ Apart' /\ Drives'
<1>0. t' = t \/ (t.pc = "signal" /\ t'.pc = "idle")
  BY Z3T(20), SMTT(20) DEF Idle
<1>1. Semas'
  BY <1>0, SameSemas DEF InTransit
<1>2. Alive' /\ OneSlot'
  BY DEF IInv, Bound, Alive, OneSlot
<1>3. SoFar'
  BY <1>0 DEF IInv, Bound, SoFar, Filling, Leaving
<1>4. Apart'
  BY <1>0 DEF IInv, Apart, InTransit, Working, Filling, Leaving
<1>5. ASSUME NEW i \in Slots, bd'[i].priv # None PROVE DriveOK(i)'
  <2>1. DriveOK(i)
    BY <1>5 DEF IInv, Drives
  <2> QED
    BY <1>0, <2>1 DEF DriveOK, InTransit, Filling, Leaving, Working, WarmsUp, IsNew
<1>6. OneDevice' /\ Warming'
  BY DEF IInv, Drives, OneDevice, Warming, Working
<1> QED
  BY <1>1, <1>2, <1>3, <1>4, <1>5, <1>6 DEF Bound, Drives

\* Between its calls hcdIrqThread finds a free slot that nobody else has to do
\* with, if it is not in new_devs from before.
LEMMA FreeSlot ==
    ASSUME IInv, MayRun, t.pc = "idle", NEW x \in Slots, slot[x].devId = None
    PROVE  /\ ~slot[x].ioSema
           /\ ~(Working /\ u.slot = x)
           /\ \A i \in Slots : bd[i].priv # x
<1>1. ~slot[x].ioSema
  BY DEF IInv, Semas, InTransit
<1>2. ~(Working /\ u.slot = x)
  BY <1>1, Sleeps DEF IInv
<1>3. ASSUME NEW i \in Slots, bd[i].priv = x PROVE FALSE
  <2>1. DriveOK(i)
    BY <1>3, UsbMassAssumption DEF IInv, Drives
  <2> QED
    BY <1>2, <1>3, <2>1 DEF DriveOK, InTransit, WarmsUp, Leaving
<1> QED
  BY <1>1, <1>2, <1>3

\* usb_mass_connect takes a slot; here new_devs matters
LEMMA ConnectKeeps ==
    ASSUME IInv, Steady, NEW p \in Ports, Connect(p)
    PROVE  Semas' /\ Bound' /\ Apart' /\ Drives'
<1>0. /\ MayRun /\ t.pc = "idle" /\ slot \in [Slots -> Slot] /\ p # None
      /\ devDriver \in [Ports -> BOOLEAN] /\ devDriver' = [devDriver EXCEPT ![p] = TRUE]
      /\ UNCHANGED <<semas, bd, u, refused>>
      /\ \A s \in Slots : ~(slot[s].devId = p /\ slot[s].conn)
  BY UsbMassAssumption DEF IInv, Typed, Connect
<1>1. \A q \in Ports : devDriver[q] => devDriver'[q]
  BY <1>0
<1>2. devDriver'[p]
  BY <1>0
<1>3. \A s \in Slots : slot[s].devId \in Ports \cup {None}
  BY <1>0 DEF Slot
<1>4. CASE Found(p) # {} /\ slot[First(Found(p))].devId = None
  <2> DEFINE x == First(Found(p))
             r == [slot[x] EXCEPT !.conn = FALSE, !.conf = FALSE, !.err = FALSE,
                                  !.bulkEp = None, !.controlEp = p]
  <2>1. x \in Slots /\ slot[x] \in Slot /\ slot[x].devId = None
    BY <1>0, <1>4, FirstMember DEF Found
  <2>2. r \in Slot /\ r.devId = None /\ r.ioSema = slot[x].ioSema /\ r.conn = FALSE
    BY <2>1, FieldsType, Fields
  <2>3. /\ slot' = [slot EXCEPT ![x] = r]
        /\ t' = [pc |-> "open", slot |-> x, port |-> p]
        /\ x \notin u.todo
    BY <1>4 DEF Connect, Steady, Stale
  <2> HIDE DEF r, x
  <2>4. slot'[x] = r /\ \A y \in Slots : y # x => slot'[y] = slot[y]
    BY <1>0, <2>1, <2>2, <2>3, SlotSet
  <2>5. t'.pc = "open" /\ t'.slot = x /\ t'.port = p
    BY <2>3
  <2>6. /\ ~slot[x].ioSema
        /\ ~(Working /\ u.slot = x)
        /\ \A i \in Slots : bd[i].priv # x
    BY <1>0, <2>1, FreeSlot
  <2>7. \A s \in Slots : slot'[s].devId # None => slot'[s] = slot[s] /\ slot[s].devId # None
    BY <2>1, <2>2, <2>4
  <2>8. Semas'
    <3>1. \A s \in Slots : slot'[s].ioSema = slot[s].ioSema /\ slot'[s].devId = slot[s].devId
      BY <2>1, <2>2, <2>4
    <3> QED
      BY <1>0, <2>5, <3>1, SameSemas DEF InTransit
  <2>9. Alive' /\ OneSlot'
    BY <1>0, <1>1, <1>3, <2>7 DEF IInv, Bound, Alive, OneSlot
  <2>10. SoFar'
    BY <1>0, <1>2, <2>1, <2>2, <2>4, <2>5, <2>7 DEF SoFar, Filling, Leaving
  <2>11. Apart'
    <3>1. \A s \in u.todo : s \in Slots /\ s # x
      BY <2>3, Places DEF IInv
    <3>2. Working => u.slot \in Slots /\ u.slot # x
      BY <2>6, Places DEF IInv
    <3> QED
      BY <1>0, <2>4, <2>5, <3>1, <3>2 DEF IInv, Apart, InTransit, Working, Filling, Leaving
  <2>12. ASSUME NEW i \in Slots, bd'[i].priv # None PROVE DriveOK(i)'
    <3>1. DriveOK(i) /\ bd'[i] = bd[i] /\ bd[i].priv \in Slots
      BY <1>0, <2>12 DEF IInv, Drives, Typed
    <3>2. bd[i].priv # x /\ slot'[bd[i].priv] = slot[bd[i].priv]
      BY <2>4, <2>6, <3>1
    <3> QED
      BY <1>0, <2>5, <3>1, <3>2 DEF DriveOK, InTransit, Filling, Leaving, Working, WarmsUp, IsNew
  <2>13. OneDevice' /\ Warming'
    BY <1>0 DEF IInv, Drives, OneDevice, Warming, Working
  <2> QED
    BY <2>8, <2>9, <2>10, <2>11, <2>12, <2>13 DEF Bound, Drives
<1>5. CASE ~(Found(p) # {} /\ slot[First(Found(p))].devId = None)
  <2>1. UNCHANGED <<slot, t>>
    BY <1>5 DEF Connect
  <2>2. Semas'
    BY <1>0, <2>1, SameSemas DEF InTransit
  <2>3. Alive' /\ OneSlot'
    BY <1>0, <1>1, <1>3, <2>1 DEF IInv, Bound, Alive, OneSlot
  <2>4. SoFar'
    BY <1>0, <2>1 DEF SoFar, Filling, Leaving
  <2>5. Apart'
    BY <1>0, <2>1 DEF IInv, Apart, InTransit, Working
  <2>6. ASSUME NEW i \in Slots, bd'[i].priv # None PROVE DriveOK(i)'
    <3>1. DriveOK(i)
      BY <1>0, <2>6 DEF IInv, Drives
    <3> QED
      BY <1>0, <2>1, <3>1 DEF DriveOK, InTransit, Working, WarmsUp, IsNew
  <2>7. OneDevice' /\ Warming'
    BY <1>0 DEF IInv, Drives, OneDevice, Warming, Working
  <2> QED
    BY <2>2, <2>3, <2>4, <2>5, <2>6, <2>7 DEF Bound, Drives
<1> QED
  BY <1>4, <1>5

\* usb_mass_disconnect frees the slot
LEMMA DisconnectKeeps ==
    ASSUME IInv, NEW p \in Ports, Disconnect(p)
    PROVE  Semas' /\ Bound' /\ Apart' /\ Drives'
<1>0. /\ MayRun /\ t.pc = "idle" /\ slot \in [Slots -> Slot] /\ p # None
      /\ devDriver \in [Ports -> BOOLEAN] /\ devDriver[p]
      /\ UNCHANGED <<semas, bd, u, refused>>
  BY UsbMassAssumption DEF IInv, Typed, Disconnect
<1>1. CASE Connected(p) = {}
  <2>1. devDriver' = [devDriver EXCEPT ![p] = FALSE] /\ UNCHANGED <<slot, t>>
    BY <1>1 DEF Disconnect
  <2>2. \A s \in Slots : slot[s].conn => slot[s].devId # p
    BY <1>1 DEF Connected
  <2>3. \A q \in Ports : q # p => devDriver'[q] = devDriver[q]
    BY <1>0, <2>1
  <2>4. \A s \in Slots : slot[s].devId \in Ports \cup {None}
    BY <1>0 DEF Slot
  <2>5. Semas'
    BY <1>0, <2>1, SameSemas DEF InTransit
  <2>6. Alive' /\ OneSlot'
    BY <1>0, <2>1, <2>2, <2>3, <2>4 DEF IInv, Bound, Alive, OneSlot
  <2>7. SoFar'
    BY <1>0, <2>1 DEF SoFar, Filling, Leaving
  <2>8. Apart'
    BY <1>0, <2>1 DEF IInv, Apart, InTransit, Working
  <2>9. ASSUME NEW i \in Slots, bd'[i].priv # None PROVE DriveOK(i)'
    <3>1. DriveOK(i)
      BY <1>0, <2>9 DEF IInv, Drives
    <3> QED
      BY <1>0, <2>1, <3>1 DEF DriveOK, InTransit, Working, WarmsUp, IsNew
  <2>10. OneDevice' /\ Warming'
    BY <1>0 DEF IInv, Drives, OneDevice, Warming, Working
  <2> QED
    BY <2>5, <2>6, <2>7, <2>8, <2>9, <2>10 DEF Bound, Drives
<1>2. CASE Connected(p) # {}
  <2>1. PICK x \in Connected(p) :
            /\ slot' = [slot EXCEPT ![x] = [Released(@) EXCEPT !.devId = None]]
            /\ t' = [pc |-> "delete", slot |-> x, port |-> p]
            /\ UNCHANGED devDriver
    BY <1>2 DEF Disconnect
  <2>2. x \in Slots /\ slot[x] \in Slot /\ slot[x].devId = p /\ slot[x].conn
    BY <1>0 DEF Connected
  <2> DEFINE r == [Released(slot[x]) EXCEPT !.devId = None]
  <2>3. r \in Slot /\ r.devId = None /\ r.ioSema = slot[x].ioSema /\ r.conn = FALSE /\ r.controlEp = None
    <3>1. \A o \in Slot : LET q == [o EXCEPT !.devId = None]
              IN  /\ q \in Slot /\ q.devId = None /\ q.ioSema = o.ioSema /\ q.conn = o.conn
                  /\ q.controlEp = o.controlEp
      BY Z3T(20), SMTT(20), IdField
    <3>2. /\ Released(slot[x]) \in Slot /\ Released(slot[x]).ioSema = slot[x].ioSema
          /\ Released(slot[x]).conn = FALSE /\ Released(slot[x]).controlEp = None
      BY <2>2, ReleasedType
    <3> QED
      BY <3>1, <3>2
  <2>4. slot' = [slot EXCEPT ![x] = r]
    BY <2>1
  <2> HIDE DEF r
  <2>5. slot'[x] = r /\ \A y \in Slots : y # x => slot'[y] = slot[y]
    BY <1>0, <2>2, <2>3, <2>4, SlotSet
  <2>6. t'.pc = "delete" /\ t'.slot = x /\ t'.port = p
    BY <2>1
  <2>7. \A s \in Slots : slot'[s].devId # None => s # x /\ slot'[s] = slot[s]
    BY <2>2, <2>3, <2>5
  <2>8. Semas'
    <3>1. \A s \in Slots : slot'[s].ioSema = slot[s].ioSema
      BY <2>2, <2>3, <2>5
    <3> QED
      BY <1>0, <2>2, <2>3, <2>5, <2>6, <3>1, SameSemas DEF InTransit
  <2>9. Alive' /\ OneSlot'
    BY <1>0, <2>1, <2>7 DEF IInv, Bound, Alive, OneSlot
  <2>10. SoFar'
    <3>1. \A s \in Slots : ~(slot'[s].devId = p /\ slot'[s].conn)
      BY <1>0, <2>2, <2>7 DEF IInv, Bound, OneSlot
    <3> QED
      BY <1>0, <2>1, <2>2, <2>3, <2>5, <2>6, <3>1 DEF SoFar, Filling, Leaving
  <2>11. Apart'
    <3>1. \A s \in u.todo : s \in Slots
      BY Places DEF IInv
    <3>2. Working => u.slot \in Slots
      BY Places DEF IInv
    <3>3. t'.pc \notin Filling /\ t'.pc \in Leaving
      BY <2>6 DEF Filling, Leaving
    <3>4. ASSUME NEW s \in u.todo PROVE slot'[s].devId = None => slot'[s].controlEp = None
      BY <2>3, <2>5, <3>1 DEF IInv, Apart
    <3>5. ASSUME Working, slot'[u.slot].devId = None, u.slot # x
          PROVE u.pc = "step" /\ u.step \in {"config", "release"} /\ slot'[u.slot].controlEp = None
      <4>1. slot'[u.slot] = slot[u.slot]
        BY <2>5, <3>2, <3>5
      <4>2. ~InTransit(u.slot, Leaving)
        BY <1>0 DEF InTransit, Leaving
      <4> QED
        BY <3>5, <4>1, <4>2 DEF IInv, Apart
    <3>6. Working => u.slot \notin u.todo
      BY DEF IInv, Apart
    <3>7. Working' <=> Working
      BY <1>0 DEF Working
    <3> QED
      BY <1>0, <2>6, <3>3, <3>4, <3>5, <3>6, <3>7 DEF Apart, InTransit
  <2>12. ASSUME NEW i \in Slots, bd'[i].priv # None PROVE DriveOK(i)'
    <3>1. DriveOK(i) /\ bd'[i] = bd[i] /\ bd[i].priv \in Slots
      BY <1>0, <2>12 DEF IInv, Drives, Typed
    <3>2. CASE bd[i].priv # x
      <4>1. slot'[bd[i].priv] = slot[bd[i].priv]
        BY <2>5, <3>1, <3>2
      <4> QED
        BY <1>0, <2>6, <3>1, <3>2, <4>1 DEF DriveOK, InTransit, Filling, Leaving, Working, WarmsUp, IsNew
    <3>3. CASE bd[i].priv = x
      BY <1>0, <2>3, <2>5, <2>6, <3>1, <3>3 DEF DriveOK, InTransit, Filling, Leaving, Working, WarmsUp, IsNew
    <3> QED
      BY <3>2, <3>3
  <2>13. OneDevice' /\ Warming'
    BY <1>0 DEF IInv, Drives, OneDevice, Warming, Working
  <2> QED
    BY <2>8, <2>9, <2>10, <2>11, <2>12, <2>13 DEF Bound, Drives
<1> QED
  BY <1>1, <1>2

\* usb_mass_disconnect deletes the semaphore
LEMMA DeleteIoSemaKeeps ==
    ASSUME IInv, DeleteIoSema
    PROVE  Semas' /\ Bound' /\ Apart' /\ Drives'
<1> DEFINE x == t.slot
           r == [slot[x] EXCEPT !.ioSema = FALSE]
<1>0. /\ t.pc = "delete" /\ x \in Slots /\ slot[x] \in Slot /\ t \in InCall
      /\ slot \in [Slots -> Slot] /\ slot[x].devId = None
      /\ UNCHANGED <<devDriver, bd, u, refused>>
  BY Places DEF IInv, Typed, DeleteIoSema, Bound, SoFar, Leaving
<1>1. /\ r \in Slot /\ r.devId = slot[x].devId /\ r.ioSema = FALSE /\ r.conn = slot[x].conn
      /\ r.conf = slot[x].conf /\ r.controlEp = slot[x].controlEp
  <2>1. \A o \in Slot : LET q == [o EXCEPT !.ioSema = FALSE]
          IN  /\ q \in Slot /\ q.devId = o.devId /\ q.ioSema = FALSE /\ q.conn = o.conn
              /\ q.conf = o.conf /\ q.controlEp = o.controlEp
    BY SemaField
  <2> QED
    BY <1>0, <2>1
<1>2. slot' = [slot EXCEPT ![x] = r]
  BY DEF DeleteIoSema
<1> HIDE DEF r
<1>3. slot'[x] = r /\ \A y \in Slots : y # x => slot'[y] = slot[y]
  BY <1>0, <1>1, <1>2, SlotSet
<1>4. t'.pc = "scsi" /\ t'.slot = x /\ t'.port = t.port
  BY <1>0 DEF DeleteIoSema, InCall
<1>5. \A s \in Slots : /\ slot'[s].devId = slot[s].devId /\ slot'[s].conn = slot[s].conn
                       /\ slot'[s].conf = slot[s].conf /\ slot'[s].controlEp = slot[s].controlEp
  BY <1>1, <1>3
<1>6. Semas'
  <2>1. slot[x].ioSema
    BY <1>0 DEF IInv, Semas, InTransit
  <2>2. Held' = Held \ {x} /\ x \in Held
    BY <1>0, <1>1, <1>3, <2>1 DEF Held
  <2>3. Cardinality(Held') = Cardinality(Held) - 1
    BY <2>2, HeldFinite, FS_RemoveElement
  <2>4. semas' = semas - 1
    BY DEF DeleteIoSema
  <2> QED
    BY <1>0, <1>1, <1>3, <1>4, <2>3, <2>4 DEF IInv, Semas, InTransit
<1>7. Alive' /\ OneSlot'
  BY Z3T(20), SMTT(20), <1>0, <1>5 DEF IInv, Bound, Alive, OneSlot
<1>8. SoFar'
  BY Z3T(20), SMTT(20), <1>0, <1>4, <1>5 DEF IInv, Bound, SoFar, Filling, Leaving
<1>9. Apart'
  <2>1. \A s \in u.todo : s \in Slots
    BY Places DEF IInv
  <2>2. Working => u.slot \in Slots
    BY Places DEF IInv
  <2> QED
    BY Z3T(20), SMTT(20), <1>0, <1>4, <1>5, <2>1, <2>2 DEF IInv, Apart, InTransit, Working, Filling, Leaving
<1>10. ASSUME NEW i \in Slots, bd'[i].priv # None PROVE DriveOK(i)'
  <2>1. DriveOK(i) /\ bd'[i] = bd[i] /\ bd[i].priv \in Slots
    BY <1>0, <1>10 DEF IInv, Drives, Typed
  <2> QED
    BY <1>0, <1>4, <1>5, <2>1 DEF DriveOK, InTransit, Filling, Leaving, Working, WarmsUp, IsNew
<1>11. OneDevice' /\ Warming'
  BY <1>0 DEF IInv, Drives, OneDevice, Warming, Working
<1> QED
  BY <1>6, <1>7, <1>8, <1>9, <1>10, <1>11 DEF Bound, Drives

\* scsi_disconnect: the update thread cannot be on the slot, whose semaphore is gone
LEMMA ScsiDisconnectKeeps ==
    ASSUME IInv, ScsiDisconnect
    PROVE  Semas' /\ Bound' /\ Apart' /\ Drives'
<1> DEFINE x == t.slot
           Pair == [priv : Slots \cup {None}, announced : BOOLEAN]
<1>0. /\ t.pc = "scsi" /\ x \in Slots /\ MayRun /\ t.port \in Ports /\ t.port # None
      /\ slot[x].devId = None /\ slot[x].controlEp = None
      /\ \A s \in Slots : ~(slot[s].devId = t.port /\ slot[s].conn)
      /\ slot \in [Slots -> Slot] /\ devDriver \in [Ports -> BOOLEAN] /\ bd \in [Slots -> Pair]
      /\ UNCHANGED <<slot, semas, u, refused>>
      /\ devDriver' = [devDriver EXCEPT ![t.port] = FALSE]
  BY Places, UsbMassAssumption DEF IInv, Typed, ScsiDisconnect, Bound, SoFar, Leaving
<1>1. t'.pc = "idle"
  BY DEF ScsiDisconnect, Idle
<1>2. ~(Working /\ u.slot = x)
  <2>1. ~slot[x].ioSema
    BY <1>0 DEF IInv, Semas, InTransit
  <2> QED
    BY <1>0, <2>1, Sleeps DEF IInv
<1>3. /\ \A i \in Slots : bd'[i].priv # x
      /\ \A i \in Slots : bd[i].priv # x => bd'[i] = bd[i]
      /\ \A i \in Slots : bd'[i].priv # None => bd'[i] = bd[i]
  <2>1. CASE Devices(x) = {}
    <3>1. bd' = bd
      BY <2>1 DEF ScsiDisconnect
    <3> QED
      BY <2>1, <3>1 DEF Devices
  <2>2. CASE Devices(x) # {}
    <3> DEFINE f == First(Devices(x))
    <3>1. Devices(x) \in SUBSET Slots
      BY DEF Devices
    <3>2. f \in Slots /\ bd[f].priv = x
      BY <2>2, <3>1, FirstMember DEF Devices
    <3>3. bd' = [bd EXCEPT ![f] = NoDevice]
      BY <2>2 DEF ScsiDisconnect
    <3> HIDE DEF f
    <3>4. NoDevice.priv = None /\ x # None
      BY <1>0, UsbMassAssumption DEF NoDevice
    <3>5. \A i \in Slots : i # f => bd'[i] = bd[i]
      BY <1>0, <3>3
    <3>6. bd'[f] = NoDevice
      BY <1>0, <3>2, <3>3
    <3>7. \A i \in Slots : i # f => bd[i].priv # x
      BY <3>2, <3>4 DEF IInv, Drives, OneDevice
    <3> QED
      BY <3>2, <3>4, <3>5, <3>6, <3>7
  <2> QED
    BY <2>1, <2>2
<1>4. \A q \in Ports : q # t.port => devDriver'[q] = devDriver[q]
  BY <1>0
<1>5. Semas'
  BY <1>0, <1>1, SameSemas DEF InTransit
<1>6. Alive' /\ OneSlot'
  <2>1. \A s \in Slots : slot[s].devId \in Ports \cup {None}
    BY <1>0 DEF Slot
  <2> QED
    BY <1>0, <1>4, <2>1 DEF IInv, Bound, Alive, OneSlot
<1>7. SoFar'
  BY <1>1 DEF SoFar, Filling, Leaving
<1>8. Apart'
  BY <1>0, <1>1, <1>2 DEF IInv, Apart, InTransit, Working, Filling, Leaving
<1>9. ASSUME NEW i \in Slots, bd'[i].priv # None PROVE DriveOK(i)'
  <2>1. DriveOK(i) /\ bd'[i] = bd[i] /\ bd[i].priv # x
    BY <1>3, <1>9 DEF IInv, Drives
  <2> QED
    BY <1>0, <1>1, <2>1 DEF DriveOK, InTransit, Filling, Leaving, Working, WarmsUp, IsNew
<1>10. OneDevice'
  BY Z3T(20), SMTT(20), <1>3 DEF IInv, Drives, OneDevice
<1>11. Warming'
  BY <1>0, <1>2, <1>3 DEF IInv, Drives, Warming, Working
<1> QED
  BY <1>5, <1>6, <1>7, <1>8, <1>9, <1>10, <1>11 DEF Bound, Drives

-----------------------------------------------------------------------------
(* The update thread *)

\* the update thread does not touch what Bound is about but in GiveUp
LEMMA BoundStays ==
    ASSUME IInv, UNCHANGED <<devDriver, t, refused>>,
           \A s \in Slots : slot'[s].devId = slot[s].devId /\ slot'[s].conn = slot[s].conn
                            /\ slot'[s].controlEp = slot[s].controlEp
    PROVE  Bound'
<1>1. Alive' /\ OneSlot'
  BY Z3T(20), SMTT(20) DEF IInv, Bound, Alive, OneSlot
<1>2. t.pc \in Filling \cup Leaving => t.slot \in Slots
  BY Places DEF IInv, Filling, Leaving
<1>3. SoFar'
  BY <1>2 DEF IInv, Bound, SoFar, Filling, Leaving
<1> QED
  BY <1>1, <1>3 DEF Bound

\* usb_mass_update collects the new devices
LEMMA CollectKeeps ==
    ASSUME IInv, Collect
    PROVE  Semas' /\ Bound' /\ Apart' /\ Drives'
<1>0. /\ ~Working /\ ~Working' /\ UNCHANGED <<devDriver, slot, semas, bd, t, refused>>
      /\ u'.todo = {s \in Slots : IsNew(s)}
  <2>1. u.pc = "wait" /\ u'.pc = "next"
    BY DEF Collect
  <2>2. u' \notin AtWork
    BY <2>1 DEF AtWork
  <2> QED
    BY <2>1, <2>2, Places DEF IInv, Collect, Working
<1>1. Semas' /\ Bound'
  BY <1>0, SameSemas, BoundStays DEF InTransit
<1>2. Apart'
  <2>1. ASSUME NEW s \in u'.todo PROVE slot[s].devId # None /\ ~InTransit(s, Filling)
    <3>1. s \in Slots /\ slot[s].devId # None
      BY <1>0, <2>1 DEF IsNew
    <3> QED
      BY <3>1 DEF IInv, Bound, SoFar, InTransit
  <2> QED
    BY <1>0, <2>1 DEF Apart, InTransit
<1>3. ASSUME NEW i \in Slots, bd'[i].priv # None PROVE DriveOK(i)'
  <2>1. DriveOK(i)
    BY <1>0, <1>3 DEF IInv, Drives
  <2> QED
    BY <1>0, <2>1 DEF DriveOK, InTransit, WarmsUp, IsNew
<1>4. OneDevice' /\ Warming'
  BY <1>0 DEF IInv, Drives, OneDevice, Warming
<1> QED
  BY <1>1, <1>2, <1>3, <1>4 DEF Drives

\* a step of the update thread between two devices
LEMMA RestKeeps ==
    ASSUME IInv, ~Working, ~Working', u'.todo = u.todo,
           UNCHANGED <<devDriver, slot, semas, bd, t, refused>>
    PROVE  Semas' /\ Bound' /\ Apart' /\ Drives'
<1>1. Semas' /\ Bound'
  BY SameSemas, BoundStays DEF InTransit
<1>2. Apart'
  BY DEF IInv, Apart, InTransit
<1>3. ASSUME NEW i \in Slots, bd'[i].priv # None PROVE DriveOK(i)'
  <2>1. DriveOK(i)
    BY <1>3 DEF IInv, Drives
  <2> QED
    BY <2>1 DEF DriveOK, InTransit, WarmsUp, IsNew
<1>4. OneDevice' /\ Warming'
  BY DEF IInv, Drives, OneDevice, Warming
<1> QED
  BY <1>1, <1>2, <1>3, <1>4 DEF Drives

\* usb_mass_update goes on to the next device
LEMMA NextDeviceKeeps ==
    ASSUME IInv, NextDevice
    PROVE  Semas' /\ Bound' /\ Apart' /\ Drives'
<1>0. /\ ~Working /\ UNCHANGED <<devDriver, slot, semas, bd, t, refused>>
      /\ u.todo \in SUBSET Slots
  BY Places DEF IInv, NextDevice
<1>1. CASE u.todo = {}
  <2>1. u'.todo = u.todo /\ u'.pc = "wait"
    BY <1>1 DEF NextDevice, Waiting
  <2>2. ~Working'
    BY <2>1 DEF Working, AtWork
  <2> QED
    BY <1>0, <2>1, <2>2, RestKeeps
<1>2. CASE u.todo # {}
  <2> DEFINE x == First(u.todo)
  <2>1. x \in u.todo /\ x \in Slots
    BY <1>0, <1>2, FirstMember
  <2>2. u' = [pc |-> "step", todo |-> u.todo \ {x}, slot |-> x,
              step |-> "config", port |-> None, bd |-> None, initRequired |-> FALSE]
    BY <1>2 DEF NextDevice
  <2> HIDE DEF x
  <2>3. /\ u'.pc = "step" /\ u'.todo = u.todo \ {x} /\ u'.slot = x /\ u'.step = "config"
        /\ "config" \notin Warm
    BY <2>2 DEF Warm
  <2>4. Semas' /\ Bound'
    BY <1>0, SameSemas, BoundStays DEF InTransit
  <2>5. Apart'
    <3>1. \A s \in u.todo : ~InTransit(s, Filling) /\ (slot[s].devId = None => slot[s].controlEp = None)
      BY DEF IInv, Apart
    <3> QED
      BY <1>0, <2>1, <2>3, <3>1 DEF Apart, InTransit
  <2>6. ASSUME NEW i \in Slots, bd'[i].priv # None PROVE DriveOK(i)'
    <3>1. DriveOK(i)
      BY <1>0, <2>6 DEF IInv, Drives
    <3>2. bd[i].priv # x
      BY <2>1, <3>1 DEF DriveOK
    <3> QED
      BY <1>0, <2>3, <3>1, <3>2 DEF DriveOK, InTransit, WarmsUp, IsNew
  <2>7. OneDevice' /\ Warming'
    BY <1>0, <2>3 DEF IInv, Drives, OneDevice, Warming
  <2> QED
    BY <2>4, <2>5, <2>6, <2>7 DEF Drives
<1> QED
  BY <1>1, <1>2

\* the 50 ms after a device are over
LEMMA DelayEndsKeeps ==
    ASSUME IInv, DelayEnds
    PROVE  Semas' /\ Bound' /\ Apart' /\ Drives'
<1>1. u \in AtRest /\ u.pc = "delay" /\ ~Working
  BY Places DEF IInv, DelayEnds
<1>2. u'.todo = u.todo /\ u'.pc = "next"
  BY <1>1 DEF DelayEnds, AtRest
<1>3. ~Working'
  BY <1>2 DEF Working, AtWork
<1> QED
  BY <1>1, <1>2, <1>3, RestKeeps DEF DelayEnds

\* the only field of a slot that a transfer changes is the error flag
LEMMA ErrOnly ==
    ASSUME Typed, Working, slot' = slot \/ slot' = [slot EXCEPT ![u.slot].err = TRUE]
    PROVE  \A s \in Slots : /\ slot'[s].devId = slot[s].devId /\ slot'[s].conn = slot[s].conn
                            /\ slot'[s].conf = slot[s].conf /\ slot'[s].controlEp = slot[s].controlEp
                            /\ slot'[s].ioSema = slot[s].ioSema
<1>1. CASE slot' = slot
  BY <1>1
<1>2. CASE slot' = [slot EXCEPT ![u.slot].err = TRUE]
  <2> DEFINE x == u.slot
             r == [slot[x] EXCEPT !.err = TRUE]
  <2>1. x \in Slots /\ slot \in [Slots -> Slot] /\ slot[x] \in Slot
    BY Places DEF Typed
  <2>2. /\ r \in Slot /\ r.devId = slot[x].devId /\ r.ioSema = slot[x].ioSema
        /\ r.conn = slot[x].conn /\ r.conf = slot[x].conf /\ r.controlEp = slot[x].controlEp
    <3>1. \A o \in Slot : LET q == [o EXCEPT !.err = TRUE]
            IN  /\ q \in Slot /\ q.devId = o.devId /\ q.ioSema = o.ioSema /\ q.conn = o.conn
                /\ q.conf = o.conf /\ q.controlEp = o.controlEp
      BY Fields, FieldsType
    <3> QED
      BY <2>1, <3>1
  <2>3. slot' = [slot EXCEPT ![x] = r]
    BY <1>2
  <2> HIDE DEF r
  <2>4. slot'[x] = r /\ \A y \in Slots : y # x => slot'[y] = slot[y]
    BY <2>1, <2>2, <2>3, SlotSet
  <2> QED
    BY <2>2, <2>4
<1> QED
  BY <1>1, <1>2

\* a step of a transfer: the update thread stays on its slot, and at its part of the work
LEMMA TransferKeeps ==
    ASSUME IInv, Working, Working',
           slot' = slot \/ slot' = [slot EXCEPT ![u.slot].err = TRUE],
           u'.todo = u.todo, u'.slot = u.slot, u'.bd = u.bd,
           u.step \in Warm <=> u'.step \in Warm,
           slot[u.slot].devId = None /\ ~InTransit(u.slot, Leaving) =>
              u'.pc = "step" /\ u'.step \in {"config", "release"},
           UNCHANGED <<devDriver, semas, bd, t, refused>>
    PROVE  Semas' /\ Bound' /\ Apart' /\ Drives'
<1>0. \A s \in Slots : /\ slot'[s].devId = slot[s].devId /\ slot'[s].conn = slot[s].conn
                       /\ slot'[s].conf = slot[s].conf /\ slot'[s].controlEp = slot[s].controlEp
                       /\ slot'[s].ioSema = slot[s].ioSema
  BY ErrOnly DEF IInv
<1>1. u.slot \in Slots /\ u.todo \in SUBSET Slots
  BY Places DEF IInv
<1>2. Semas'
  BY <1>0, SameSemas DEF InTransit
<1>3. Bound'
  BY <1>0, BoundStays
<1>4. Apart'
  BY Z3T(20), SMTT(20), <1>0, <1>1 DEF IInv, Apart, InTransit
<1>5. ASSUME NEW i \in Slots, bd'[i].priv # None PROVE DriveOK(i)'
  <2>1. DriveOK(i) /\ bd[i].priv \in Slots
    BY <1>5 DEF IInv, Drives, Typed
  <2> QED
    BY <1>0, <2>1 DEF DriveOK, InTransit, WarmsUp, IsNew
<1>6. OneDevice' /\ Warming'
  BY DEF IInv, Drives, OneDevice, Warming
<1> QED
  BY <1>2, <1>3, <1>4, <1>5, <1>6 DEF Drives

\* a request that fails at once
LEMMA SubmitFailsKeeps ==
    ASSUME IInv, SubmitFails
    PROVE  Semas' /\ Bound' /\ Apart' /\ Drives'
<1>1. /\ Working /\ u.step \in ControlSteps \cup CommandSteps /\ Returns("error")
      /\ slot' = slot \/ slot' = [slot EXCEPT ![u.slot].err = TRUE]
      /\ UNCHANGED <<devDriver, semas, bd, t, refused>>
  BY Places DEF IInv, SubmitFails
<1>2. /\ u' \in AtWork
      /\ u'.pc = "step" /\ u'.todo = u.todo /\ u'.slot = u.slot /\ u'.bd = u.bd
      /\ u.step \in Warm <=> u'.step \in Warm
      /\ u.step = "config" => u'.step = "release"
  BY <1>1, ReturnsFacts
<1>3. slot[u.slot].devId = None /\ ~InTransit(u.slot, Leaving) => u.step = "config"
  BY <1>1 DEF IInv, Apart, ControlSteps, CommandSteps
<1>4. Working'
  BY <1>2 DEF Working
<1> QED
  BY <1>1, <1>2, <1>3, <1>4, TransferKeeps

\* a request goes out, so the slot has a pipe
LEMMA SubmitKeeps ==
    ASSUME IInv, Submit
    PROVE  Semas' /\ Bound' /\ Apart' /\ Drives'
<1>1. /\ Working /\ u.step \in ControlSteps \cup CommandSteps
      /\ UNCHANGED <<slot, devDriver, semas, bd, t, refused>>
  BY Places DEF IInv, Submit
<1>2. slot[u.slot].controlEp \in Ports \cup {None}
  BY <1>1, Places DEF IInv, Typed, Slot
<1>3. /\ u' \in AtWork
      /\ u'.todo = u.todo /\ u'.slot = u.slot /\ u'.bd = u.bd /\ u'.step = u.step
  BY <1>1, <1>2 DEF Working, AtWork, Submit
<1>4. ~(slot[u.slot].devId = None /\ ~InTransit(u.slot, Leaving))
  BY <1>1 DEF IInv, Apart, ControlSteps, CommandSteps, Submit, Usable
<1>5. Working'
  BY <1>3 DEF Working
<1> QED
  BY <1>1, <1>3, <1>4, <1>5, TransferKeeps

\* a request ends while the update thread sleeps, which a freed slot would not let it
LEMMA AnswerKeeps ==
    ASSUME IInv, Answer \/ WaitDeleted
    PROVE  Semas' /\ Bound' /\ Apart' /\ Drives'
<1>1. /\ Working /\ u.pc = "io" /\ u.step \in ControlSteps \cup CommandSteps
      /\ slot' = slot \/ slot' = [slot EXCEPT ![u.slot].err = TRUE]
      /\ UNCHANGED <<devDriver, semas, bd, t, refused>>
  BY Places DEF IInv, Typed, Answer, WaitDeleted
<1>2. \/ Returns("error")
      \/ \E r \in Answers(u.step) : Returns(r)
      \/ \E r \in IF u.step \in ControlSteps THEN {"ok", "stall", "error"} ELSE {"ok", "error"} :
            Returns(r)
  BY DEF Answer, WaitDeleted
<1>3. /\ u' \in AtWork
      /\ u'.todo = u.todo /\ u'.slot = u.slot /\ u'.bd = u.bd
      /\ u.step \in Warm <=> u'.step \in Warm
  BY <1>1, <1>2, ResultFacts DEF IInv
<1>4. ~(slot[u.slot].devId = None /\ ~InTransit(u.slot, Leaving))
  BY <1>1 DEF IInv, Apart
<1>5. Working'
  BY <1>3 DEF Working
<1> QED
  BY <1>1, <1>3, <1>4, <1>5, TransferKeeps

\* usb_mass_release after a refused configuration
LEMMA GiveUpKeeps ==
    ASSUME IInv, GiveUp
    PROVE  Semas' /\ Bound' /\ Apart' /\ Drives'
<1> DEFINE x == u.slot
           r == Released(slot[x])
<1>0. /\ Working /\ u.step = "release" /\ x \in Slots /\ slot \in [Slots -> Slot] /\ slot[x] \in Slot
      /\ UNCHANGED <<devDriver, semas, bd, t>> /\ refused' = refused \cup {x}
      /\ x \notin u.todo /\ u.todo \in SUBSET Slots
      /\ "release" \notin Warm
  BY Places DEF IInv, Typed, GiveUp, Apart, Warm
<1>1. /\ r \in Slot /\ r.devId = slot[x].devId /\ r.ioSema = slot[x].ioSema
      /\ r.conn = FALSE /\ r.controlEp = None
  BY <1>0, ReleasedType
<1>2. slot' = [slot EXCEPT ![x] = r]
  BY DEF GiveUp
<1> HIDE DEF r
<1>3. slot'[x] = r /\ \A y \in Slots : y # x => slot'[y] = slot[y]
  BY <1>0, <1>1, <1>2, SlotSet
<1>4. u'.pc = "next" /\ u'.todo = u.todo
  BY DEF GiveUp
<1>5. ~Working'
  BY <1>4 DEF Working, AtWork
<1>6. \A s \in Slots : slot'[s].devId = slot[s].devId /\ slot'[s].ioSema = slot[s].ioSema
  BY <1>1, <1>3
<1>7. \A s \in Slots : slot'[s].conn => s # x /\ slot'[s] = slot[s]
  BY <1>1, <1>3
<1>8. Semas'
  BY <1>0, <1>6, SameSemas DEF InTransit
<1>9. Bound'
  <2>1. Alive'
    BY <1>0, <1>3, <1>6, <1>7 DEF IInv, Bound, Alive
  <2>2. OneSlot'
    BY <1>7 DEF IInv, Bound, OneSlot
  <2>3. ~InTransit(x, Filling)
    BY <1>0 DEF IInv, Apart
  <2>4. t.pc \in Filling \cup Leaving => t.slot \in Slots
    BY Places DEF IInv, Filling, Leaving
  <2>5. SoFar'
    BY <1>0, <1>1, <1>3, <1>6, <1>7, <2>3, <2>4 DEF IInv, Bound, SoFar, InTransit, Filling, Leaving
  <2> QED
    BY <2>1, <2>2, <2>5 DEF Bound
<1>10. Apart'
  BY <1>0, <1>3, <1>4, <1>5 DEF IInv, Apart, InTransit
<1>11. ASSUME NEW i \in Slots, bd'[i].priv # None PROVE DriveOK(i)'
  <2>1. DriveOK(i) /\ bd[i].priv \in Slots
    BY <1>0, <1>11 DEF IInv, Drives, Typed
  <2>2. bd[i].priv # x
    BY <1>0, <2>1 DEF DriveOK
  <2> QED
    BY <1>0, <1>3, <1>4, <1>5, <2>1, <2>2 DEF DriveOK, InTransit, WarmsUp, IsNew
<1>12. OneDevice' /\ Warming'
  BY <1>0, <1>5 DEF IInv, Drives, OneDevice, Warming
<1> QED
  BY <1>8, <1>9, <1>10, <1>11, <1>12 DEF Drives

\* scsi_connect takes a block device
LEMMA ScsiConnectKeeps ==
    ASSUME IInv, ScsiConnect
    PROVE  Semas' /\ Bound' /\ Apart' /\ Drives'
<1> DEFINE x == u.slot
           r == [slot[x] EXCEPT !.conf = TRUE]
           Pair == [priv : Slots \cup {None}, announced : BOOLEAN]
<1>0. /\ Working /\ u.pc = "step" /\ u.step = "connect" /\ x \in Slots
      /\ slot \in [Slots -> Slot] /\ slot[x] \in Slot /\ bd \in [Slots -> Pair]
      /\ UNCHANGED <<devDriver, semas, t, refused>>
      /\ x \notin u.todo /\ u.todo \in SUBSET Slots /\ ~InTransit(x, Filling)
      /\ "connect" \notin Warm /\ x # None
  BY Places, UsbMassAssumption DEF IInv, Typed, ScsiConnect, Apart, Warm
<1>1. /\ r \in Slot /\ r.devId = slot[x].devId /\ r.ioSema = slot[x].ioSema
      /\ r.conn = slot[x].conn /\ r.conf = TRUE /\ r.controlEp = slot[x].controlEp
  <2>1. \A o \in Slot : LET q == [o EXCEPT !.conf = TRUE]
          IN  /\ q \in Slot /\ q.devId = o.devId /\ q.ioSema = o.ioSema /\ q.conn = o.conn
              /\ q.conf = TRUE /\ q.controlEp = o.controlEp
    BY Fields, FieldsType
  <2> QED
    BY <1>0, <2>1
<1>2. slot' = [slot EXCEPT ![x] = r]
  BY DEF ScsiConnect
<1> HIDE DEF r
<1>3. slot'[x] = r /\ \A y \in Slots : y # x => slot'[y] = slot[y]
  BY Z3T(20), SMTT(20), <1>0, <1>1, <1>2, SlotSet
<1>4. \A s \in Slots : /\ slot'[s].devId = slot[s].devId /\ slot'[s].conn = slot[s].conn
                       /\ slot'[s].controlEp = slot[s].controlEp /\ slot'[s].ioSema = slot[s].ioSema
  BY <1>1, <1>3
<1>5. Semas'
  BY <1>0, <1>4, SameSemas DEF InTransit
<1>6. Bound'
  BY <1>0, <1>4, BoundStays
<1>7. slot[x].devId # None \/ InTransit(x, Leaving)
  BY <1>0 DEF IInv, Apart
<1>8. \A i \in Slots : bd[i].priv # None => DriveOK(i) /\ bd[i].priv \in Slots /\ bd[i].priv # x
  <2>1. ASSUME NEW i \in Slots, bd[i].priv # None PROVE DriveOK(i) /\ bd[i].priv \in Slots
    BY <1>0, <2>1 DEF IInv, Drives
  <2> QED
    BY <1>0, <2>1 DEF DriveOK
<1>9. CASE Devices(None) = {}
  <2>1. u'.pc = "delay" /\ u'.todo = u.todo /\ bd' = bd
    BY Z3T(20), SMTT(20), <1>9 DEF ScsiConnect, Done
  <2>2. ~Working'
    BY <2>1 DEF Working, AtWork
  <2>3. Apart'
    BY Z3T(20), SMTT(20), <1>0, <1>4, <2>1, <2>2 DEF IInv, Apart, InTransit
  <2>4. ASSUME NEW i \in Slots, bd'[i].priv # None PROVE DriveOK(i)'
    <3>1. DriveOK(i) /\ bd[i].priv \in Slots /\ bd[i].priv # x
      BY <1>8, <2>1, <2>4
    <3> QED
      BY <1>0, <1>3, <2>1, <2>2, <3>1 DEF DriveOK, InTransit, WarmsUp, IsNew
  <2>5. OneDevice' /\ Warming'
    BY <2>1, <2>2 DEF IInv, Drives, OneDevice, Warming
  <2> QED
    BY <1>5, <1>6, <2>3, <2>4, <2>5 DEF Drives
<1>10. CASE Devices(None) # {}
  <2> DEFINE f == First(Devices(None))
  <2>1. Devices(None) \in SUBSET Slots
    BY DEF Devices
  <2>2. f \in Slots /\ bd[f].priv = None
    BY <1>10, <2>1, FirstMember DEF Devices
  <2>3. bd' = [bd EXCEPT ![f].priv = x]
    BY <1>10 DEF ScsiConnect
  <2>4. PICK junk \in BOOLEAN : u' = [u EXCEPT !.step = "maxlun", !.bd = f, !.initRequired = junk]
    BY <1>10 DEF ScsiConnect
  <2> HIDE DEF f
  <2>5. /\ u' \in AtWork /\ u'.todo = u.todo /\ u'.slot = x /\ u'.bd = f /\ u'.step = "maxlun"
        /\ u'.step \in Warm
    BY <1>0, <2>2, <2>4 DEF Working, AtWork, Warm
  <2>6. Working'
    BY <2>5 DEF Working
  <2>7. bd'[f].priv = x /\ \A i \in Slots : i # f => bd'[i] = bd[i]
    BY <1>0, <2>2, <2>3
  <2>8. Apart'
    BY Z3T(20), SMTT(20), <1>0, <1>4, <1>7, <2>5, <2>6 DEF IInv, Apart, InTransit
  <2>9. ASSUME NEW i \in Slots, bd'[i].priv # None PROVE DriveOK(i)'
    <3>1. CASE i = f
      <4>1. WarmsUp(i)'
        BY <2>5, <2>6, <2>7, <3>1 DEF WarmsUp
      <4>2. ~IsNew(bd[i].priv)'
        BY <1>0, <1>1, <1>3, <2>7, <3>1 DEF IsNew
      <4> QED
        BY <1>0, <2>5, <2>6, <2>7, <3>1, <4>1, <4>2 DEF DriveOK, InTransit
    <3>2. CASE i # f
      <4>1. DriveOK(i) /\ bd[i].priv \in Slots /\ bd[i].priv # x /\ bd'[i] = bd[i]
        BY <1>8, <2>7, <2>9, <3>2
      <4>2. ~WarmsUp(i)
        BY <1>0 DEF WarmsUp
      <4> QED
        BY <1>0, <1>3, <2>5, <4>1, <4>2 DEF DriveOK, InTransit, WarmsUp, IsNew
    <3> QED
      BY <3>1, <3>2
  <2>10. OneDevice'
    BY Z3T(20), SMTT(20), <1>8, <2>7, <2>2 DEF IInv, Drives, OneDevice
  <2>11. Warming'
    BY <2>2, <2>5, <2>7 DEF Warming
  <2> QED
    BY <1>5, <1>6, <2>8, <2>9, <2>10, <2>11 DEF Drives
<1> QED
  BY <1>9, <1>10

\* the last step of a warm-up
LEMMA WarmupEnds ==
    ASSUME IInv, WarmupFails \/ Announce
    PROVE  /\ Working /\ u.slot \in Slots /\ u.step \in Warm
           /\ u.bd \in Slots /\ bd[u.bd].priv = u.slot
           /\ ~Working' /\ u'.todo = u.todo
           /\ UNCHANGED <<devDriver, slot, semas, t, refused>>
<1>1. Working /\ u.slot \in Slots /\ u.step \in Warm
  BY Places DEF IInv, WarmupFails, Announce, Warm
<1>2. u.bd \in Slots /\ bd[u.bd].priv = u.slot
  BY <1>1 DEF IInv, Drives, Warming
<1>3. u'.pc = "delay" /\ u'.todo = u.todo
  BY Z3T(20), SMTT(20) DEF WarmupFails, Announce, Done
<1>4. ~Working'
  BY <1>3 DEF Working, AtWork
<1> QED
  BY <1>1, <1>2, <1>3, <1>4 DEF WarmupFails, Announce

\* the drive is announced or dropped
LEMMA WarmupEndsKeeps ==
    ASSUME IInv, WarmupFails \/ Announce
    PROVE  Semas' /\ Bound' /\ Apart' /\ Drives'
<1> DEFINE f == u.bd
           Pair == [priv : Slots \cup {None}, announced : BOOLEAN]
<1>0. /\ Working /\ u.slot \in Slots /\ u.step \in Warm
      /\ f \in Slots /\ bd[f].priv = u.slot
      /\ ~Working' /\ u'.todo = u.todo
      /\ UNCHANGED <<devDriver, slot, semas, t, refused>>
      /\ bd \in [Slots -> Pair]
  BY WarmupEnds DEF IInv, Typed
<1>1. Semas' /\ Bound'
  BY <1>0, SameSemas, BoundStays DEF InTransit
<1>2. Apart'
  BY <1>0 DEF IInv, Apart, InTransit
<1>3. \A i \in Slots : i # f => bd'[i] = bd[i]
  BY <1>0 DEF WarmupFails, Announce
<1>4. bd'[f].priv # None => bd'[f].priv = u.slot /\ bd'[f].announced
  <2>1. CASE WarmupFails
    BY <1>0, <2>1 DEF WarmupFails, NoDevice
  <2>2. CASE Announce
    BY <1>0, <2>2 DEF Announce
  <2> QED
    BY <2>1, <2>2
<1>5. \A i \in Slots : bd'[i].priv # None => bd'[i].priv = bd[i].priv
  BY <1>0, <1>3, <1>4
<1>6. ASSUME NEW i \in Slots, bd'[i].priv # None PROVE DriveOK(i)'
  <2>1. DriveOK(i) /\ bd'[i].priv = bd[i].priv
    BY <1>5, <1>6 DEF IInv, Drives
  <2>2. bd'[i].announced
    BY <1>0, <1>3, <1>4, <1>6, <2>1 DEF DriveOK, WarmsUp
  <2>3. slot[bd[i].priv].devId # None \/ InTransit(bd[i].priv, Leaving)
    <3>1. WarmsUp(i) => u.slot = bd[i].priv
      BY DEF WarmsUp
    <3>2. slot[u.slot].devId # None \/ InTransit(u.slot, Leaving)
      BY <1>0 DEF IInv, Apart, Warm
    <3> QED
      BY <2>1, <3>1, <3>2 DEF DriveOK
  <2> QED
    BY <1>0, <2>1, <2>2, <2>3 DEF DriveOK, InTransit, IsNew
<1>7. OneDevice'
  BY <1>5 DEF IInv, Drives, OneDevice
<1>8. Warming'
  BY <1>0 DEF Warming
<1> QED
  BY <1>1, <1>2, <1>6, <1>7, <1>8 DEF Drives

-----------------------------------------------------------------------------
(* The invariant *)

\* the invariant holds in the beginning
LEMMA InitIInv ==
    Init => IInv
<1> SUFFICES ASSUME Init PROVE IInv
  OBVIOUS
<1>1. Typed
  BY TypedInit
<1>2. \A s \in Slots : slot[s].devId = None /\ slot[s].ioSema = FALSE
  BY DEF Init, Free
<1>3. \A i \in Slots : bd[i].priv = None
  BY DEF Init, NoDevice
<1>4. u.pc = "wait" /\ u.todo = {} /\ t.pc = "idle"
  BY DEF Init, Waiting, Idle
<1>5. ~Working
  BY <1>1, <1>4, Places
<1>6. Semas
  <2>1. Held = {}
    BY <1>2 DEF Held
  <2>2. semas = Cardinality(Held)
    BY <2>1, FS_EmptySet DEF Init
  <2> QED
    BY <1>2, <1>4, <2>2 DEF Semas, InTransit
<1>7. Bound
  BY <1>2, <1>4 DEF Bound, Alive, OneSlot, SoFar, Filling, Leaving
<1>8. Apart
  BY <1>4, <1>5 DEF Apart
<1>9. Drives
  BY <1>3, <1>5 DEF Drives, OneDevice, Warming
<1> QED
  BY <1>1, <1>6, <1>7, <1>8, <1>9 DEF IInv

\* one step per action
LEMMA NextIInv ==
    ASSUME Steady, IInv, [Next]_vars
    PROVE  IInv'
<1>1. CASE UNCHANGED vars
  <2>1. Typed'
    BY <1>1 DEF vars, IInv, Typed
  <2>2. Semas' /\ Bound' /\ Apart' /\ Drives'
    BY <1>1, NothingKeeps DEF vars
  <2> QED
    BY <2>1, <2>2 DEF IInv
<1>2. ASSUME NEW p \in Ports, Unplug(p) PROVE IInv'
  <2>1. Typed'
    BY <1>2, TypedUsbd DEF IInv
  <2>2. Semas' /\ Bound' /\ Apart' /\ Drives'
    BY <1>2, NothingKeeps DEF Unplug
  <2> QED
    BY <2>1, <2>2 DEF IInv
<1>3. ASSUME NEW p \in Ports, Connect(p) PROVE IInv'
  <2>1. Typed'
    BY <1>3, TypedUsbd DEF IInv
  <2> QED
    BY <1>3, <2>1, ConnectKeeps DEF IInv
<1>4. CASE UsbdThread
  <2>1. Typed'
    BY <1>4, TypedUsbd DEF IInv
  <2>2. CASE OpenPipes
    BY <2>1, <2>2, OpenPipesKeeps DEF IInv
  <2>3. CASE CreateIoSema
    BY <2>1, <2>3, CreateIoSemaKeeps DEF IInv
  <2>4. CASE SetStatus
    BY <2>1, <2>4, SetStatusKeeps DEF IInv
  <2>5. CASE Publish
    BY <2>1, <2>5, PublishKeeps DEF IInv
  <2>6. CASE SignalUpdate
    <3>1. Semas' /\ Bound' /\ Apart' /\ Drives'
      BY <2>6, NothingKeeps DEF SignalUpdate
    <3> QED
      BY <2>1, <3>1 DEF IInv
  <2>7. ASSUME NEW p \in Ports, Disconnect(p) PROVE IInv'
    BY <2>1, <2>7, DisconnectKeeps DEF IInv
  <2>8. CASE DeleteIoSema
    BY <2>1, <2>8, DeleteIoSemaKeeps DEF IInv
  <2>9. CASE ScsiDisconnect
    BY <2>1, <2>9, ScsiDisconnectKeeps DEF IInv
  <2> QED
    BY <1>4, <2>2, <2>3, <2>4, <2>5, <2>6, <2>7, <2>8, <2>9 DEF UsbdThread
<1>5. CASE UpdateThread \/ Answer
  <2>1. Typed'
    BY <1>5, TypedUpdate DEF IInv
  <2>2. CASE Collect
    BY <2>1, <2>2, CollectKeeps DEF IInv
  <2>3. CASE NextDevice
    BY <2>1, <2>3, NextDeviceKeeps DEF IInv
  <2>4. CASE DelayEnds
    BY <2>1, <2>4, DelayEndsKeeps DEF IInv
  <2>5. CASE SubmitFails
    BY <2>1, <2>5, SubmitFailsKeeps DEF IInv
  <2>6. CASE Submit
    BY <2>1, <2>6, SubmitKeeps DEF IInv
  <2>7. CASE Answer \/ WaitDeleted
    BY <2>1, <2>7, AnswerKeeps DEF IInv
  <2>8. CASE GiveUp
    BY <2>1, <2>8, GiveUpKeeps DEF IInv
  <2>9. CASE ScsiConnect
    BY <2>1, <2>9, ScsiConnectKeeps DEF IInv
  <2>10. CASE WarmupFails \/ Announce
    BY <2>1, <2>10, WarmupEndsKeeps DEF IInv
  <2> QED
    BY <1>5, <2>2, <2>3, <2>4, <2>5, <2>6, <2>7, <2>8, <2>9, <2>10 DEF UpdateThread
<1> QED
  BY <1>1, <1>2, <1>3, <1>4, <1>5 DEF Next

\* what the invariant says of the slots and their semaphores
LEMMA IInvSlots ==
    IInv => SlotsKept
<1> SUFFICES ASSUME IInv PROVE SlotsKept
  OBVIOUS
<1>1. TypeOK
  <2>1. semas \in 0 .. NUM_DEVICES
    BY HeldFinite DEF IInv, Semas
  <2>2. u.pc \in {"wait", "next", "step", "io", "delay"}
    BY DEF IInv, Typed, AtWork, AtRest
  <2>3. t.pc \in {"idle", "open", "sema", "status", "publish", "signal", "delete", "scsi"}
    BY Places DEF IInv, Filling, Leaving
  <2> QED
    BY <2>1, <2>2, <2>3 DEF IInv, Typed, TypeOK, Slot
<1>2. InTurn
  <2>1. ASSUME t.pc = "scsi", MayRun, NEW i \in Devices(t.slot) PROVE bd[i].announced
    <3>1. i \in Slots /\ bd[i].priv = t.slot /\ t.slot \in Slots /\ t.slot # None
      BY <2>1, Places, UsbMassAssumption DEF IInv, Devices
    <3>2. ~slot[t.slot].ioSema
      BY <2>1, <3>1 DEF IInv, Semas, Bound, SoFar, InTransit, Leaving
    <3>3. ~(Working /\ u.slot = t.slot)
      BY <2>1, <3>1, <3>2, Sleeps DEF IInv
    <3>4. DriveOK(i)
      BY <3>1 DEF IInv, Drives
    <3> QED
      BY <3>1, <3>3, <3>4 DEF DriveOK, WarmsUp
  <2>2. OneDevice
    BY DEF IInv, Drives
  <2> QED
    BY <2>1, <2>2 DEF InTurn, OneDevice
<1>3. LostOnlyIfRefused
  BY DEF IInv, Bound, Alive, LostOnlyIfRefused
<1>4. OneSemaPerSlot
  <2>1. Held = {s \in Slots : slot[s].devId # None
                              \/ InTransit(s, {"status", "publish", "delete"})}
    BY DEF IInv, Semas, Held
  <2> QED
    BY <2>1 DEF IInv, Semas, OneSemaPerSlot
<1> QED
  BY <1>1, <1>2, <1>3, <1>4 DEF SlotsKept

\* what it says of the drives
LEMMA IInvDrives ==
    IInv => DrivesReal
<1> SUFFICES ASSUME IInv PROVE DrivesReal
  OBVIOUS
<1>1. NoPartialData
  <2>1. u.pc = "step" => Working
    BY Places DEF IInv
  <2> QED
    BY <2>1 DEF IInv, Apart, NoPartialData, InTransit, Filling
<1>2. NoGhost
  <2>1. Working => u.pc \in {"step", "io"}
    BY Places DEF IInv
  <2> QED
    BY <2>1 DEF IInv, Drives, DriveOK, WarmsUp, NoGhost, InTransit, Leaving
<1> QED
  BY <1>1, <1>2 DEF DrivesReal

\* The slots of usbmass_bd are kept, for every number of ports, slots and drives and
\* whatever fails: a slot is lost only to a drive whose configuration was refused, as
\* many ioSemas exist as slots are in use, and a block device is announced when it is
\* withdrawn and belongs to one drive (usb_mass_connect, usb_mass_disconnect,
\* scsi_disconnect).  Steady: see the head of the module.
THEOREM SlotsAlwaysKept ==
    ASSUME Steady PROVE Spec => []SlotsKept
<1>1. Init => IInv
  BY InitIInv
<1>2. IInv /\ [Next]_vars => IInv'
  BY NextIInv
<1>3. IInv => SlotsKept
  BY IInvSlots
<1> QED
  BY <1>1, <1>2, <1>3, PTL DEF Spec

\* The update thread begins no work on a slot that usb_mass_connect is still filling
\* in, and every block device that is taken has a drive that is connected, worked on
\* or about to be withdrawn (usb_mass_update, scsi_connect, scsi_disconnect).
THEOREM DrivesAlwaysReal ==
    ASSUME Steady PROVE Spec => []DrivesReal
<1>1. Init => IInv
  BY InitIInv
<1>2. IInv /\ [Next]_vars => IInv'
  BY NextIInv
<1>3. IInv => DrivesReal
  BY IInvDrives
<1> QED
  BY <1>1, <1>2, <1>3, PTL DEF Spec
=============================================================================
