---------------------------- MODULE UsbTransfers ----------------------------
(***************************************************************************)
(* The transfers of the USB host driver, from sceUsbdTransferPipe to the   *)
(* callback (usbd_interface.c, usbd_usbio.c, usbd_usbd.c, usbd_hub.c,      *)
(* usbd_driver.c).  A request of a client is put at the end of the         *)
(* endpoint's list; starting it takes transfer descriptors (TDs) from a    *)
(* pool that all endpoints share.  An endpoint that finds too few of them  *)
(* joins a queue, which is looked at when TDs come back.  The host         *)
(* controller retires the TDs of an endpoint in order and halts it at the  *)
(* first error.  Finished requests go to the callback thread.              *)
(*                                                                         *)
(* What the code does under usbdLock is one step here; the callback thread *)
(* takes the lock only to free a request.  Which TD is which is left out:  *)
(* a TD is in the pool, the tail of an endpoint, in an endpoint's list or  *)
(* retired.  Isochronous endpoints, which no driver of the repository      *)
(* opens, are left out.                                                    *)
(***************************************************************************)
EXTENDS Naturals, Sequences, SequencesExt, FiniteSets, FiniteSetsExt

CONSTANTS
    Control, Bulk,     \* endpoints of either type
    MaxTds,            \* usbConfig.maxTransfDesc
    MaxIoReqs,         \* usbConfig.maxIoReqs
    MaxOut,            \* requests of a client that are out on one endpoint
    MaxSubmits,        \* requests altogether
    Faults             \* "error": a TD fails; "close": an endpoint is closed

Endpoints == Control \cup Bulk
Requests == 1 .. MaxIoReqs

VARIABLES
    pool,      \* memPool: the free TDs, the free requests, the requests, the endpoints
               \* and their queue; and the list of the callback thread
    done,      \* the done queue of the host controller
    event,     \* callbackEvent
    thread,    \* the callback thread
    out,       \* requests the client of an endpoint waits for
    told,      \* the last request that the client has been told of
    submits

vars == <<pool, done, event, thread, out, told, submits>>

Closed == [state |-> "free", list |-> <<>>, tds |-> <<>>, halted |-> FALSE]
Blank == [ep |-> {}, num |-> 0, data |-> FALSE, live |-> FALSE]
Idle == [pc |-> "wait", req |-> 0]

Init ==
    /\ pool = [tds |-> MaxTds, reqs |-> Requests, req |-> [r \in Requests |-> Blank],
               ep |-> [e \in Endpoints |-> Closed],
               queue |-> <<>>, cb |-> <<>>]
    /\ done = <<>>
    /\ event = FALSE
    /\ thread = Idle
    /\ out = [e \in Endpoints |-> 0]
    /\ told = [e \in Endpoints |-> 0]
    /\ submits = 0

-----------------------------------------------------------------------------
(* usbd_mem.c and usbd_usbio.c; m is the pool *)

\* freeIoRequest
FreeIoRequests(m, rs) ==
    [m EXCEPT !.reqs = @ \cup rs, !.req = [r \in Requests |-> IF r \in rs THEN Blank ELSE @[r]]]

RemoveEndpointFromQueue(m, e) == [m EXCEPT !.queue = SelectSeq(@, LAMBDA x : x # e)]

EnqueueEndpoint(m, e) ==
    IF \E i \in 1 .. Len(m.queue) : m.queue[i] = e THEN m ELSE [m EXCEPT !.queue = Append(@, e)]

\* the TDs of a request: its stages, of which the last one interrupts.  The
\* first takes the place of the tail, and the endpoint gets a new tail.
Stages(e, q) == IF e \in Bulk THEN 1 ELSE IF q.data THEN 3 ELSE 2
Tds(e, r, q) == [i \in 1 .. Stages(e, q) |-> [req |-> r, interrupt |-> i = Stages(e, q)]]

\* setupControlTransfer and setupBulkTransfer, once the endpoint is ready; with too
\* few TDs what was taken is given back
Start(m, e) ==
    LET r == Head(m.ep[e].list)
        q == m.req[r]
        s == [m EXCEPT !.tds = @ - Stages(e, q), !.ep[e].list = Tail(@), !.ep[e].tds = @ \o Tds(e, r, q)]
    IN  IF m.tds < Stages(e, q) THEN EnqueueEndpoint(m, e)
        ELSE IF s.ep[e].list = <<>> THEN RemoveEndpointFromQueue(s, e) ELSE s

Ready(m, e) == m.ep[e].state = "open" /\ ~m.ep[e].halted /\ m.ep[e].list # <<>>

HandleIoReqList(m, e) ==
    IF Ready(m, e) THEN Start(m, e) ELSE RemoveEndpointFromQueue(m, e)

CheckTdQueueNever(m) == m

CheckTdQueue(m) ==
    IF m.tds = 0 \/ m.queue = <<>> THEN m ELSE HandleIoReqList(m, Head(m.queue))

-----------------------------------------------------------------------------
(* Endpoints *)

\* openDeviceEndpoint; the tail is the endpoint's first TD
Open(e) ==
    /\ pool.ep[e].state = "free"
    /\ pool.tds > 0
    /\ pool' = [pool EXCEPT !.tds = @ - 1, !.ep[e] = [Closed EXCEPT !.state = "open"]]
    /\ told' = [told EXCEPT ![e] = submits]
    /\ UNCHANGED <<done, event, thread, out, submits>>

\* removeEndpointFromDevice: the controller skips the endpoint from now on
Close(e) ==
    /\ "close" \in Faults
    /\ pool.ep[e].state = "open"
    /\ pool' = [pool EXCEPT !.ep[e].state = "closing",
                            !.req = [r \in Requests |-> IF @[r].ep = e THEN [@[r] EXCEPT !.live = FALSE] ELSE @[r]]]
    /\ out' = [out EXCEPT ![e] = 0]
    /\ UNCHANGED <<done, event, thread, told, submits>>

RequestsOf(tds) == {tds[i].req : i \in 1 .. Len(tds)}

\* killEndpoint, 200 ms later: whatever had been retired by then has been processed
KillEndpoint(e) ==
    /\ pool.ep[e].state = "closing"
    /\ \A i \in 1 .. Len(done) : done[i].ep # e
    /\ LET n == pool.ep[e] IN
         pool' = RemoveEndpointFromQueue(
                   FreeIoRequests([pool EXCEPT !.tds = @ + Len(n.tds) + 1, !.ep[e] = Closed],
                                  RequestsOf(n.tds) \cup Range(n.list)), e)
    /\ UNCHANGED <<done, event, thread, out, told, submits>>

-----------------------------------------------------------------------------
(* Requests *)

\* sceUsbdTransferPipe; without a free request it fails and changes nothing
TransferPipe(e, data) ==
    /\ submits < MaxSubmits /\ out[e] < MaxOut
    /\ pool.ep[e].state = "open"
    /\ e \in Bulk => data
    /\ pool.reqs # {}
    /\ LET r == Min(pool.reqs)
           q == [ep |-> e, num |-> submits + 1, data |-> data, live |-> TRUE]
       IN  pool' = HandleIoReqList([pool EXCEPT !.reqs = @ \ {r}, !.req[r] = q, !.ep[e].list = Append(@, r)], e)
    /\ submits' = submits + 1
    /\ out' = [out EXCEPT ![e] = @ + 1]
    /\ UNCHANGED <<done, event, thread, told>>

\* the host controller retires the first TD of an endpoint that it does not skip
Retire(e) ==
    /\ pool.ep[e].state = "open" /\ ~pool.ep[e].halted /\ pool.ep[e].tds # <<>>
    /\ \E err \in IF "error" \in Faults THEN BOOLEAN ELSE {FALSE} :
          /\ pool' = [pool EXCEPT !.ep[e].tds = Tail(@), !.ep[e].halted = err]
          /\ done' = Append(done, [ep |-> e, req |-> Head(pool.ep[e].tds).req, err |-> err,
                                   interrupt |-> err \/ Head(pool.ep[e].tds).interrupt])
    /\ UNCHANGED <<event, thread, out, told, submits>>

\* signalCallbackThreadFunc for the requests of a sequence, or freeIoRequest if
\* the endpoint has been removed
Finish(m, e, rs) ==
    IF m.ep[e].state = "open" THEN [m EXCEPT !.cb = @ \o rs] ELSE FreeIoRequests(m, Range(rs))

\* the requests of the TDs behind the failed one, each once, without those in rs
Aborted(tds, rs) ==
    FoldLeft(LAMBDA acc, t : IF t.req \in Range(acc) THEN acc ELSE Append(acc, t.req), rs, tds)

ProcessTdTwice(m, d) ==
    LET e    == d.ep
        rs   == IF d.interrupt THEN <<d.req>> ELSE <<>>
        halt == d.err /\ m.ep[e].halted
        rest == m.ep[e].tds
        a    == [m EXCEPT !.tds = @ + 1]
        b    == IF halt THEN [a EXCEPT !.tds = @ + Len(rest), !.ep[e].tds = <<>>, !.ep[e].halted = FALSE] ELSE a
    IN  Finish(b, e, IF halt THEN rs \o Aborted(rest, <<>>) ELSE rs)

\* processDoneQueue_GenTd up to the callbacks: the TD is freed and, if it failed,
\* those behind it, and the endpoint goes on
ProcessTd(m, d) ==
    LET e    == d.ep
        rs   == IF d.interrupt THEN <<d.req>> ELSE <<>>
        halt == d.err /\ m.ep[e].halted
        rest == m.ep[e].tds
        a    == [m EXCEPT !.tds = @ + 1]
        b    == IF halt THEN [a EXCEPT !.tds = @ + Len(rest), !.ep[e].tds = <<>>, !.ep[e].halted = FALSE] ELSE a
    IN  Finish(b, e, IF halt THEN Aborted(rest, rs) ELSE rs)

\* hcdProcessIntr, when a TD that interrupts has been retired
DoneHead == \E i \in 1 .. Len(done) : done[i].interrupt

ProcessDoneQueue ==
    /\ DoneHead
    /\ pool' = FoldLeft(LAMBDA m, d : CheckTdQueue(ProcessTd(m, d)), pool, done)
    /\ done' = <<>>
    /\ event' = (event \/ pool'.cb # pool.cb)
    /\ UNCHANGED <<thread, out, told, submits>>

-----------------------------------------------------------------------------
(* callbackThreadFunc *)

WaitEvent ==
    /\ thread.pc = "wait" /\ event
    /\ event' = FALSE
    /\ thread' = [thread EXCEPT !.pc = "take"]
    /\ UNCHANGED <<pool, done, out, told, submits>>

TakeRequest ==
    /\ thread.pc = "take"
    /\ IF pool.cb = <<>>
       THEN thread' = Idle /\ UNCHANGED pool
       ELSE /\ thread' = [pc |-> "call", req |-> Head(pool.cb)]
            /\ pool' = [pool EXCEPT !.cb = Tail(@)]
    /\ UNCHANGED <<done, event, out, told, submits>>

\* the request is freed and the copy of it is called back
Call ==
    /\ thread.pc = "call"
    /\ pool' = FreeIoRequests(pool, {thread.req})
    /\ LET q == pool.req[thread.req] IN
         /\ out' = IF q.live THEN [out EXCEPT ![q.ep] = @ - 1] ELSE out
         /\ told' = IF q.live THEN [told EXCEPT ![q.ep] = q.num] ELSE told
    /\ thread' = [thread EXCEPT !.pc = "take"]
    /\ UNCHANGED <<done, event, submits>>

-----------------------------------------------------------------------------
CallbackThread == WaitEvent \/ TakeRequest \/ Call

Next ==
    \/ \E e \in Endpoints : \/ Open(e) \/ Close(e) \/ KillEndpoint(e) \/ Retire(e)
                            \/ \E data \in BOOLEAN : TransferPipe(e, data)
    \/ ProcessDoneQueue
    \/ CallbackThread

Spec == Init /\ [][Next]_vars

\* the controller works through its lists, its interrupts are served and the
\* callback thread runs
FairSpec ==
    /\ Spec
    /\ \A e \in Endpoints : WF_vars(Retire(e)) /\ WF_vars(KillEndpoint(e))
    /\ WF_vars(ProcessDoneQueue)
    /\ WF_vars(CallbackThread)

-----------------------------------------------------------------------------
\* Types; in particular no client is told of more requests than it made.
TypeOK ==
    /\ pool.tds \in 0 .. MaxTds /\ pool.reqs \subseteq Requests
    /\ pool.queue \in Seq(Endpoints) /\ pool.cb \in Seq(Requests)
    /\ \A e \in Endpoints : /\ pool.ep[e].state \in {"free", "open", "closing"}
                            /\ pool.ep[e].list \in Seq(Requests)
                            /\ out[e] \in 0 .. MaxOut
    /\ thread.pc \in {"wait", "take", "call"}

SumOver(f(_), S) == FoldSet(LAMBDA e, n : f(e) + n, 0, S)

\* No TD is lost or given out twice: those of the pool, the tails, the ones in the
\* lists of the controller and the retired ones are all there are.
TdsKept ==
    pool.tds + Len(done)
      + SumOver(LAMBDA e : IF pool.ep[e].state = "free" THEN 0 ELSE 1 + Len(pool.ep[e].tds), Endpoints)
      = MaxTds

\* where a request is: waiting for TDs, under way, on its way to the callback thread
\* or with it
Unstarted(e) == Range(pool.ep[e].list)
UnderWay(e) == RequestsOf(pool.ep[e].tds) \cup {done[i].req : i \in {j \in 1 .. Len(done) : done[j].ep = e}}
Finished == Range(pool.cb) \cup (IF thread.pc = "call" THEN {thread.req} ELSE {})

\* No request is lost or used twice: one that is not free is waiting, under way or
\* finished, at its own endpoint and in one place only.
RequestsKept ==
    /\ Requests = pool.reqs \cup Finished \cup UNION {Unstarted(e) \cup UnderWay(e) : e \in Endpoints}
    /\ pool.reqs \cap Finished = {}
    /\ Cardinality(Range(pool.cb)) = Len(pool.cb)
    /\ \A e \in Endpoints :
         /\ Unstarted(e) \cap UnderWay(e) = {}
         /\ (Unstarted(e) \cup UnderWay(e)) \cap (pool.reqs \cup Finished) = {}
         /\ \A r \in Unstarted(e) \cup UnderWay(e) : pool.req[r].ep = e

\* A request that has not been started while its endpoint works is in the queue for TDs.
WaitsInQueue ==
    \A e \in Endpoints : Ready(pool, e) => e \in Range(pool.queue)

InTurn == \A e \in Endpoints : told'[e] >= told[e]

\* A client is told of its requests in the order in which it made them.
InOrder == [][InTurn]_told

Waiting(e) == out[e] > 0 /\ pool.ep[e].state = "open"

\* Every request of an endpoint that stays open is called back.
Answered == \A e \in Endpoints : Waiting(e) ~> ~Waiting(e)
=============================================================================
