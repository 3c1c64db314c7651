----------------------------- MODULE UsbTimers -----------------------------
(***************************************************************************)
(* The timer list of the USB host driver (usbd_hub.c, usbd_usbd.c): one    *)
(* list for all devices and endpoints, each timer holding the ticks that   *)
(* it waits after the one before it.  A tick is a start-of-frame interrupt.*)
(*                                                                         *)
(* The list is only touched under usbdLock; the loops of addTimerCallback  *)
(* and handleTimerList are taken one iteration at a time, and cpu says     *)
(* which of them is running.  left, wait, hastened and before are history: *)
(* what the callers asked for, beside what the list makes of it.           *)
(***************************************************************************)
EXTENDS Integers, Sequences, SequencesExt

CONSTANTS
    Timers,        \* the timer of every device and endpoint
    Cancellable,   \* timers that flushPort cancels: those of devices
    Delays         \* delays that callers ask for

ASSUME TimersAssumption ==
    /\ Cancellable \subseteq Timers
    /\ Delays \subseteq Nat \ {0}

VARIABLES
    list,        \* timerListStart .. timerListEnd
    delayCount,  \* of each timer, relative to the timer before it
    isActive,    \* of each timer
    sof,         \* OHCI_INT_SF is enabled
    cpu,         \* the loop that runs, with its locals
    left,        \* ticks that each timer should still wait
    wait,        \* ticks that the list counts down before it runs out
    hastened,    \* timers behind one that was cancelled
    before       \* <<u, t>>: u was due two ticks before t when t was added

vars == <<list, delayCount, isActive, sof, cpu, left, wait, hastened, before>>

Idle == [pc |-> "idle"]
Adding(t, pos, delay) == [pc |-> "add", timer |-> t, pos |-> pos, delay |-> delay]
Expiring == [pc |-> "expire"]

Listed(t) == \E i \in 1 .. Len(list) : list[i] = t

Init ==
    /\ list = <<>>
    /\ delayCount = [t \in Timers |-> 0]
    /\ isActive = [t \in Timers |-> FALSE]
    /\ sof = FALSE
    /\ cpu = Idle
    /\ left = [t \in Timers |-> 0]
    /\ wait = [t \in Timers |-> 0]
    /\ hastened = {}
    /\ before = {}

-----------------------------------------------------------------------------
(* addTimerCallback; an active timer is refused *)

AddTimerCallback(t, delay) ==
    /\ cpu = Idle
    /\ ~isActive[t]
    /\ isActive' = [isActive EXCEPT ![t] = TRUE]
    /\ cpu' = Adding(t, 1, delay)
    /\ left' = [left EXCEPT ![t] = delay]
    /\ before' = before \cup {<<u, t>> : u \in {x \in Timers : Listed(x) /\ left[x] + 1 < delay}}
    /\ UNCHANGED <<list, delayCount, sof, wait, hastened>>

\* the test of the loop: the new timer is due after the one at pos
Later == cpu.pos <= Len(list) /\ cpu.delay > delayCount[list[cpu.pos]]

NextPos ==
    /\ cpu.pc = "add"
    /\ Later
    /\ cpu' = Adding(cpu.timer, cpu.pos + 1, cpu.delay - delayCount[list[cpu.pos]])
    /\ UNCHANGED <<list, delayCount, isActive, sof, left, wait, hastened, before>>

InsertTimerKeepsDelta ==
    /\ cpu.pc = "add"
    /\ ~Later
    /\ list' = InsertAt(list, cpu.pos, cpu.timer)
    /\ delayCount' = [delayCount EXCEPT ![cpu.timer] = cpu.delay]
    /\ sof' = TRUE
    /\ cpu' = Idle
    /\ UNCHANGED <<isActive, left, wait, hastened, before>>

InsertTimer ==
    /\ cpu.pc = "add"
    /\ ~Later
    /\ list' = InsertAt(list, cpu.pos, cpu.timer)
    /\ delayCount' = [t \in Timers |->
          IF t = cpu.timer THEN cpu.delay
          ELSE IF cpu.pos <= Len(list) /\ t = list[cpu.pos] THEN delayCount[t] - cpu.delay
          ELSE delayCount[t]]
    /\ sof' = TRUE
    /\ cpu' = Idle
    /\ wait' = [wait EXCEPT ![cpu.timer] =
          (IF cpu.pos = 1 THEN 0 ELSE wait[list[cpu.pos - 1]]) + cpu.delay]
    /\ UNCHANGED <<isActive, left, hastened, before>>

-----------------------------------------------------------------------------
(* Leaving the list *)

Unlisted(t) == {p \in before : t \notin {p[1], p[2]}}

CancelTimerCallbackMovesLast(t) ==
    /\ cpu = Idle
    /\ isActive[t]
    /\ \E k \in 1 .. Len(list) :
          /\ list[k] = t
          /\ list' = Front([list EXCEPT ![k] = Last(list)])
          /\ wait' = wait
          /\ hastened' = (hastened \ {t}) \cup {list[i] : i \in k + 1 .. Len(list)}
    /\ isActive' = [isActive EXCEPT ![t] = FALSE]
    /\ before' = Unlisted(t)
    /\ UNCHANGED <<delayCount, sof, cpu, left>>

\* cancelTimerCallback: what the timer still had to wait is not given to the
\* next one, so that all behind it are early by that much
CancelTimerCallback(t) ==
    /\ cpu = Idle
    /\ isActive[t]
    /\ \E k \in 1 .. Len(list) :
          /\ list[k] = t
          /\ list' = RemoveAt(list, k)
          /\ wait' = [u \in Timers |->
                IF \E i \in k + 1 .. Len(list) : list[i] = u
                THEN wait[u] - delayCount[t] ELSE wait[u]]
          /\ hastened' = (hastened \ {t}) \cup {list[i] : i \in k + 1 .. Len(list)}
    /\ isActive' = [isActive EXCEPT ![t] = FALSE]
    /\ before' = Unlisted(t)
    /\ UNCHANGED <<delayCount, sof, cpu, left>>

\* handleTimerList: a tick is taken from the head only
Tick ==
    /\ cpu = Idle
    /\ sof
    /\ cpu' = Expiring
    /\ delayCount' = IF list # <<>> /\ delayCount[list[1]] > 0
                     THEN [delayCount EXCEPT ![list[1]] = @ - 1] ELSE delayCount
    /\ left' = [t \in Timers |-> IF Listed(t) THEN left[t] - 1 ELSE left[t]]
    /\ wait' = [t \in Timers |->
          IF Listed(t) /\ delayCount[list[1]] > 0 THEN wait[t] - 1 ELSE wait[t]]
    /\ UNCHANGED <<list, isActive, sof, hastened, before>>

Due == list # <<>> /\ delayCount[list[1]] = 0

Expire ==
    /\ cpu = Expiring
    /\ Due
    /\ list' = Tail(list)
    /\ isActive' = [isActive EXCEPT ![list[1]] = FALSE]
    /\ hastened' = hastened \ {list[1]}
    /\ before' = Unlisted(list[1])
    /\ UNCHANGED <<delayCount, sof, cpu, left, wait>>

TickDone ==
    /\ cpu = Expiring
    /\ ~Due
    /\ cpu' = Idle
    /\ sof' = (sof /\ list # <<>>)
    /\ UNCHANGED <<list, delayCount, isActive, left, wait, hastened, before>>

Next ==
    \/ \E t \in Timers, d \in Delays : AddTimerCallback(t, d)
    \/ NextPos
    \/ InsertTimer
    \/ \E t \in Cancellable : CancelTimerCallback(t)
    \/ Tick
    \/ Expire
    \/ TickDone

Spec == Init /\ [][Next]_vars

\* a thread that holds usbdLock finishes what it has begun; an interrupt that
\* comes meanwhile stays pending, so that no amount of adding and cancelling
\* keeps the ticks out
FairSpec ==
    /\ Spec
    /\ WF_vars(NextPos \/ InsertTimer)
    /\ WF_vars(Expire \/ TickDone)
    /\ SF_vars(Tick)

-----------------------------------------------------------------------------
\* Types of the list and of the locals of the loops (TimerCbStruct).
TypeOK ==
    /\ list \in Seq(Timers)
    /\ delayCount \in [Timers -> Nat]
    /\ isActive \in [Timers -> BOOLEAN]
    /\ sof \in BOOLEAN
    /\ \/ cpu \in {Idle, Expiring}
       \/ /\ cpu.pc = "add"
          /\ cpu = Adding(cpu.timer, cpu.pos, cpu.delay)
          /\ cpu.timer \in Timers
          /\ cpu.pos \in 1 .. Len(list) + 1
          /\ cpu.delay \in Nat \ {0}
    /\ left \in [Timers -> Int]
    /\ wait \in [Timers -> Int]
    /\ hastened \subseteq Timers
    /\ before \subseteq Timers \X Timers

\* No timer is late by more than one tick, whatever was added before it or
\* cancelled.  One tick is lost when the head is cancelled and the next timer
\* was due with it: that one has nothing left to count down, so the next tick
\* of handleTimerList counts for nobody.
AtMostOneTickLate == cpu = Idle => \A t \in Timers : Listed(t) => left[t] >= 0

Expires(t) == isActive[t] /\ ~isActive'[t] /\ cpu = Expiring

\* A timer runs out early only if a timer before it was cancelled
\* (cancelTimerCallback drops the ticks of the one it removes).
EarlyOnlyIfCancelled ==
    [][\A t \in Timers : Expires(t) /\ left[t] > 0 => t \in hastened]_vars

\* A timer never overtakes one that was due two ticks earlier when it was added,
\* even if cancellations make both early.  removeEndpointFromDevice and flushPort rest
\* on it: the endpoints of a device that was unplugged are killed (200 ticks)
\* before the device that is plugged in next is reset (500 ticks).
InOrder ==
    [][\A t \in Timers : Expires(t) => \A u \in Timers : <<u, t>> \notin before]_vars

\* Timers run out in their turn (handleTimerList): none before its time unless one
\* before it was cancelled, and none before one that was due two ticks earlier.
InTurn == EarlyOnlyIfCancelled /\ InOrder

\* Every timer that is started runs out or is cancelled: the interrupt is
\* enabled whenever the list is not empty.
TimersRunOut == \A t \in Timers : isActive[t] ~> ~isActive[t]
=============================================================================
