----------------------------- MODULE MCUsbHost -----------------------------
(***************************************************************************)
(* The two lists that the host driver is built on: its timers and its      *)
(* transfers.  They share no state, so that one of them moves in a         *)
(* behaviour and the other stays as it begins; part says which.            *)
(***************************************************************************)
EXTENDS UsbTimers

CONSTANTS
    d1, d2, e1,    \* timers of two devices and of an endpoint
    c1, b1         \* endpoints

VARIABLES part, pool, done, event, thread, out, told, submits

\* a control endpoint and a bulk endpoint that share a few descriptors
Pipes == INSTANCE UsbTransfers WITH Control <- {c1}, Bulk <- {b1}, MaxTds <- 4, MaxIoReqs <- 2,
            MaxOut <- 2, MaxSubmits <- 3, Faults <- {"error", "close"}

\* the same endpoints, which stay open
Open == INSTANCE UsbTransfers WITH Control <- {c1}, Bulk <- {b1}, MaxTds <- 5, MaxIoReqs <- 2,
            MaxOut <- 1, MaxSubmits <- 3, Faults <- {"error"}

pipeVars == <<pool, done, event, thread, out, told, submits>>
MCVars == <<part, vars, pipeVars>>

MCInit ==
    /\ part \in {"timers", "pipes", "open"}
    /\ Init
    /\ IF part = "open" THEN Open!Init ELSE Pipes!Init

TimersMove == part = "timers" /\ Next /\ UNCHANGED <<part, pipeVars>>
PipesMove == part = "pipes" /\ Pipes!Next /\ UNCHANGED <<part, vars>>
OpenMove == part = "open" /\ Open!Next /\ UNCHANGED <<part, vars>>

MCNext == TimersMove \/ PipesMove \/ OpenMove

\* A thread that holds usbdLock finishes what it has begun, the interrupts are
\* served, the controller works through its lists and the callback thread runs
\* (FairSpec of UsbTimers and of UsbTransfers).  ProcessDoneQueue empties the done
\* queue and nothing else shortens it: to be fair to it is to find the queue empty
\* again and again.
MCSpec ==
    /\ MCInit /\ [][MCNext]_MCVars
    /\ WF_MCVars(\/ cpu # Idle /\ TimersMove
                 \/ part = "open" /\ Open!CallbackThread /\ UNCHANGED <<part, vars>>)
    /\ SF_MCVars(part = "timers" /\ Tick /\ UNCHANGED <<part, pipeVars>>)
    /\ \A e \in {c1, b1} : WF_MCVars(part = "open" /\ Open!Retire(e) /\ UNCHANGED <<part, vars>>)
    /\ []<>(part = "open" => ~Open!DoneHead)

-----------------------------------------------------------------------------
\* A client is told of its requests in the order in which it made them.
ToldInOrder == [][part = "pipes" => Pipes!InTurn]_told

\* No TD is lost or given out twice (allocTd, freeTd, checkTdQueue), and no request: one
\* that is not free is waiting, under way or finished, at its own endpoint and in one
\* place only.  A request that has not been started while its endpoint works is in the
\* queue for TDs, and clients are told in order.
PoolsKept ==
    /\ [](TypeOK /\ (part = "pipes" => Pipes!TypeOK /\ Pipes!TdsKept /\ Pipes!RequestsKept))
    /\ [](part = "open" => Open!WaitsInQueue)
    /\ ToldInOrder

\* Every request of an endpoint that stays open is called back, and every timer runs
\* out or is cancelled.
AllEnd ==
    /\ \A e \in {c1, b1} : part = "open" /\ Open!Waiting(e) ~> ~Open!Waiting(e)
    /\ TimersRunOut
=============================================================================
