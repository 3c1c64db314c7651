------------------------------- MODULE SmbRead -------------------------------
(***************************************************************************)
(* How the SMB client takes a reply from the TCP stream: smb_ReadFile with *)
(* the receive that splits a reply into header and file data, and          *)
(* GetSMBServerReply, which every other request uses (smb.c, and           *)
(* lwip_recvfrom_internal of ps2ip).  The stream comes in segments of any  *)
(* size.  Lengths are in units; a unit is a part of a message that the     *)
(* code tells from its neighbours.                                         *)
(***************************************************************************)
EXTENDS Naturals, Sequences, FiniteSetsExt

CONSTANTS
    SessionSize,    \* sizeof(sessionHeader)
    HeaderSize,     \* the same with sizeof(SMBHeader_t)
    ResponseSize,   \* the same with sizeof(ReadAndXResponse_t); 63 in lwip_recvfrom_internal
    BufferSize,     \* sizeof(SMB_buf.smb)
    MaxRecv,        \* CLIENT_MAX_RECV_SIZE
    Total,          \* what smb_ReadFile is asked for
    MaxSize,        \* bound: size of a message
    Faults          \* "malformed", "silence", and "keepalive" messages of the server;
                    \* "coalesced": one of those shares its segment with a reply

VARIABLES
    msgs,      \* the messages that answer the request
    wire,      \* what is unread of them: <<message, place>>
    seg,       \* how much of that is in the segment in hand (lastdata)
    hdr,       \* SMB_buf
    readbuf,   \* the caller's buffer: which place of the file each unit holds, 0 for others
    done,      \* smb_ReadFile: what has been read
    call       \* where the request is: op, pc, rcv_size, and the receive under way

vars == <<msgs, wire, seg, hdr, readbuf, done, call>>

Statuses == {"success", "end_of_file", "gone", "other"}
Message == [type : {"message", "keepalive"}, size : SessionSize..MaxSize, magic : BOOLEAN,
            status : Statuses, offset : 0..MaxSize, length : 0..MaxSize]

Results == {"nbytes", "0", "EPROTO", "EIO", "transport"}
Places == {"idle", "send", "first", "session", "size", "header", "magic", "response", "offset",
           "data", "tail", "reject", "ignore", "fail", "again", "nb", "body", "whole", "drained"}

Init ==
    /\ msgs = <<>> /\ wire = <<>> /\ seg = 0 /\ hdr = <<>> /\ done = 0
    /\ readbuf = [i \in 1..Total |-> 0]
    /\ call = [op |-> "none", pc |-> "idle", rcv |-> 0, want |-> 0, to |-> "none", result |-> "0"]

toRead == Min({Total - done, MaxRecv})

-----------------------------------------------------------------------------
(* The server. *)

Keepalive == [type |-> "keepalive", size |-> SessionSize, magic |-> TRUE, status |-> "other",
              offset |-> 0, length |-> 0]

\* a reply to a read: data behind some padding and before some more, or an error
GoodReplies ==
    {m \in Message : /\ m.type = "message" /\ m.magic /\ m.status = "success"
                     /\ m.offset + SessionSize >= ResponseSize /\ m.length <= toRead
                     /\ m.offset + SessionSize + m.length <= m.size}
    \cup [type : {"message"}, size : {HeaderSize + 1}, magic : {TRUE},
          status : Statuses \ {"success"}, offset : {0}, length : {0}]

Malformed == {m \in Message : /\ m.type = "message" /\ m.status = "success" /\ m.length <= toRead + 1
                              /\ m.offset \in {0, m.size - SessionSize, m.size}}

\* what the other requests tell apart is only the size of a reply
OtherReplies == [type : {"message"}, size : SessionSize..MaxSize, magic : {TRUE},
                 status : {"success"}, offset : {0}, length : {0}]

Units(k, m) == [i \in 1..m.size |-> <<k, i>>]

Answers(replies) ==
    \E m \in replies, k \in IF "keepalive" \in Faults THEN {0, 1} ELSE {0} :
        /\ msgs' = IF k = 1 THEN <<Keepalive, m>> ELSE <<m>>
        /\ wire' = IF k = 1 THEN Units(1, Keepalive) \o Units(2, m) ELSE Units(1, m)

\* which place of the file a unit of the reply holds
Value(u) ==
    LET m == msgs[u[1]]
        i == u[2] - m.offset - SessionSize
    IN IF m.type = "message" /\ u[2] > m.offset + SessionSize /\ i <= m.length /\ done + i <= Total
       THEN done + i ELSE 0

-----------------------------------------------------------------------------
(* Receiving.  The code computes from one receive to the next; a receive   *)
(* that wants several units goes on until it has them.                     *)

At(pc) == call.pc = pc /\ call.want = 0
Goto(pc) == call' = [call EXCEPT !.pc = pc]

\* lengths that the next segment may have
Segments ==
    IF seg > 0 THEN {seg}
    ELSE {n \in 1..Len(wire) : "coalesced" \in Faults \/ wire[n][1] = wire[1][1]}

Consume(n, k) == wire' = SubSeq(wire, k + 1, Len(wire)) /\ seg' = n - k

\* RecvData and DiscardData for so many units, and where the code goes on then
Recv(n, to, pc) == call' = [call EXCEPT !.want = n, !.to = to, !.pc = pc]

\* RecvTimeout inside RecvData
RecvTimeout ==
    /\ call.want > 0
    /\ \E n \in Segments : LET k == Min({n, call.want}) IN
        /\ Consume(n, k)
        /\ hdr' = IF call.to = "hdr" THEN hdr \o SubSeq(wire, 1, k) ELSE hdr
        /\ readbuf' = IF call.to = "readbuf"
                      THEN LET m == msgs[hdr[1][1]]
                               from == done + call.rcv - m.offset - SessionSize
                           IN [i \in DOMAIN readbuf \cup from+1..from+k |->
                                  IF i \in from+1..from+k THEN Value(wire[i - from]) ELSE readbuf[i]]
                      ELSE readbuf
        /\ call' = [call EXCEPT !.want = @ - k, !.rcv = @ + k]
        /\ UNCHANGED <<msgs, done>>

\* poll times out, or the connection is reset
Silence ==
    /\ "silence" \in Faults /\ seg = 0
    /\ call.want > 0 \/ At("first")
    /\ call' = [call EXCEPT !.pc = "idle", !.want = 0, !.result = "transport"]
    /\ UNCHANGED <<msgs, wire, seg, hdr, readbuf, done>>

Finish(result) ==
    /\ call' = [call EXCEPT !.pc = "idle", !.result = result]
    /\ UNCHANGED <<msgs, wire, seg, hdr, readbuf, done>>

-----------------------------------------------------------------------------
(* smb_ReadFile and, for each piece, smb_ReadAndX. *)

\* a call on a stream that is in step, or on a new connection
Start(op, pc) ==
    /\ At("idle")
    /\ call' = [op |-> op, pc |-> pc, rcv |-> 0, want |-> 0, to |-> "none", result |-> "0"]
    /\ msgs' = <<>> /\ wire' = <<>> /\ seg' = 0 /\ hdr' = <<>> /\ done' = 0
    /\ readbuf' = [i \in 1..Total |-> 0]

smb_ReadFile == Start("smb_ReadFile", "send")

smb_ReadAndX ==
    /\ At("send")
    /\ Answers(IF "malformed" \in Faults THEN GoodReplies \cup Malformed ELSE GoodReplies)
    /\ call' = [call EXCEPT !.pc = "first", !.rcv = 0]
    /\ UNCHANGED <<seg, hdr, readbuf, done>>

\* where lwip_recvsplit divides a segment of n units: DataOffset, if the header
\* in the segment is that of one message
SplitOffsets ==
    LET u == wire[ResponseSize] IN
    IF u = <<wire[1][1], ResponseSize>> THEN {msgs[u[1]].offset + SessionSize} ELSE 0..MaxSize

\* is the place of the data in the segment
Reached(index, n) == ResponseSize <= index /\ index <= n

Split(index, n) == IF Reached(index, n) THEN index ELSE ResponseSize

\* lwip_recvsplit: the header to SMB_buf, what follows the dividing place to the caller
RecvSplitTimeout ==
    /\ At("first")
    /\ \E n \in Segments :
        \/ /\ n < ResponseSize
           /\ hdr' = SubSeq(wire, 1, n) /\ Consume(n, n)
           /\ call' = [call EXCEPT !.rcv = n, !.pc = "session"]
           /\ UNCHANGED readbuf
        \/ /\ n >= ResponseSize
           /\ hdr' = SubSeq(wire, 1, ResponseSize)
           /\ \E index \in SplitOffsets :
                LET from == Split(index, n)
                    k == Min({toRead, n - from})
                IN /\ Consume(n, from + k)
                   /\ call' = [call EXCEPT !.rcv = from + k, !.pc = "session"]
                   /\ readbuf' = [i \in DOMAIN readbuf |-> IF i \in done+1..done+k
                                     THEN Value(wire[from + i - done]) ELSE readbuf[i]]
    /\ UNCHANGED <<msgs, done>>

Same == UNCHANGED <<msgs, wire, seg, hdr, readbuf, done>>

Session ==
    /\ At("session") /\ Same
    /\ \/ call.rcv < SessionSize /\ Recv(SessionSize - call.rcv, "hdr", "size")
       \/ call.rcv >= SessionSize /\ Goto("size")

\* the reply, as the headers that have been received describe it
Reply == msgs[hdr[1][1]]

PacketSize ==
    /\ At("size")
    /\ \/ call.rcv > Reply.size /\ Finish("EPROTO")
       \/ /\ call.rcv <= Reply.size /\ Reply.type = "keepalive" /\ Same
          /\ Recv(Reply.size - call.rcv, "none", "again")
       \/ call.rcv <= Reply.size /\ Reply.type = "message" /\ Goto("header") /\ Same

\* the loop in which messages that keep the session alive are dropped
DropKeepalive ==
    /\ At("again") /\ call' = [call EXCEPT !.pc = "first", !.rcv = 0] /\ Same

\* RecvData of nothing returns 0, and so does smb_ReadAndX
Header ==
    /\ At("header")
    /\ LET want == Min({HeaderSize, Reply.size}) - call.rcv IN
        \/ call.rcv < HeaderSize /\ want > 0 /\ Recv(want, "hdr", "magic") /\ Same
        \/ call.rcv < HeaderSize /\ want = 0 /\ Finish("0")
        \/ call.rcv >= HeaderSize /\ Goto("magic") /\ Same

DrainNothing(pc) == Goto(pc)

\* DiscardData for the rest of the message
Drain(pc) == Recv(IF call.rcv < Reply.size THEN Reply.size - call.rcv ELSE 0, "none", pc)

\* the sanity checks and the status
Status ==
    /\ At("magic")
    /\ LET bad == Reply.size < HeaderSize \/ ~Reply.magic IN
        \/ bad /\ Drain("reject") /\ Same
        \/ ~bad /\ Reply.status = "success" /\ Reply.size < ResponseSize /\ Drain("reject") /\ Same
        \/ ~bad /\ Reply.status = "success" /\ Reply.size >= ResponseSize /\ Same /\
            IF call.rcv < ResponseSize THEN Recv(ResponseSize - call.rcv, "hdr", "offset")
            ELSE Goto("offset")
        \/ ~bad /\ Reply.status = "end_of_file" /\ Drain("ignore") /\ Same
        \/ ~bad /\ Reply.status = "gone" /\ Finish("transport")
        \/ ~bad /\ Reply.status = "other" /\ Drain("fail") /\ Same

DataStart == Reply.offset + SessionSize

OffsetChecked ==
    /\ At("offset") /\ Same
    /\ LET bad == \/ DataStart < ResponseSize \/ DataStart > Reply.size
                  \/ Reply.length > toRead \/ DataStart + Reply.length > Reply.size IN
        \/ bad /\ Drain("reject")
        \/ ~bad /\ call.rcv < DataStart /\ Recv(DataStart - call.rcv, "none", "data")
        \/ ~bad /\ call.rcv >= DataStart /\ Goto("data")

Payload ==
    /\ At("data") /\ Same
    /\ LET received == call.rcv - DataStart IN
        \/ received > Reply.length /\ Drain("reject")
        \/ received < Reply.length /\ Recv(Reply.length - received, "readbuf", "tail")
        \/ received = Reply.length /\ Goto("tail")

Rest == At("tail") /\ Drain("drained") /\ Same

Rejected == At("reject") /\ Finish("EPROTO")
EndOfFile == At("ignore") /\ Finish("0")
Failed == At("fail") /\ Finish("EIO")

\* smb_ReadFile goes on behind what it has got
Piece ==
    /\ At("drained")
    /\ \/ Reply.length = 0 /\ Finish("0")
       \/ /\ Reply.length > 0
          /\ done' = done + Reply.length
          /\ call' = [call EXCEPT !.pc = IF done' = Total THEN "idle" ELSE "send",
                                  !.result = IF done' = Total THEN "nbytes" ELSE "0"]
          /\ msgs' = <<>> /\ hdr' = <<>>
          /\ UNCHANGED <<wire, seg, readbuf>>

-----------------------------------------------------------------------------
(* GetSMBServerReply: the session header first, then as much as it announces. *)

GetSMBServerReply == Start("GetSMBServerReply", "nb")

NbSend ==
    /\ At("nb") /\ Answers(OtherReplies)
    /\ Recv(SessionSize, "hdr", "body") /\ UNCHANGED <<seg, hdr, readbuf, done>>

NbBody ==
    /\ At("body")
    /\ LET size == Reply.size - SessionSize IN
        \/ /\ Reply.type = "keepalive" /\ hdr' = <<>>
           /\ call' = [call EXCEPT !.want = SessionSize, !.to = "hdr", !.rcv = 0]
           /\ UNCHANGED <<msgs, wire, seg, readbuf, done>>
        \/ Reply.type = "message" /\ size > BufferSize /\ Drain("reject") /\ Same
        \/ Reply.type = "message" /\ size <= BufferSize /\ size > 0 /\ Recv(size, "hdr", "whole") /\ Same
        \/ Reply.type = "message" /\ size = 0 /\ Finish("0")

NbWhole == At("whole") /\ Finish("nbytes")

-----------------------------------------------------------------------------
Steps ==
    \/ smb_ReadAndX \/ RecvSplitTimeout \/ RecvTimeout \/ Silence
    \/ Session \/ PacketSize \/ DropKeepalive \/ Header \/ Status \/ OffsetChecked \/ Payload \/ Rest
    \/ Rejected \/ EndOfFile \/ Failed \/ Piece
    \/ NbSend \/ NbBody \/ NbWhole

Next == smb_ReadFile \/ GetSMBServerReply \/ Steps

Spec == Init /\ [][Next]_vars

\* the client runs, and every receive has a time limit
FairSpec == Spec /\ WF_vars(Steps)

-----------------------------------------------------------------------------
(* Types; in particular nothing is written behind the caller's buffer or      *)
(* SMB_buf.                                                                    *)
TypeOK ==
    /\ msgs \in Seq(Message) /\ Len(msgs) <= 2
    /\ wire \in Seq({1, 2} \X (1..MaxSize)) /\ seg \in 0..Len(wire)
    /\ hdr \in Seq({1, 2} \X (1..MaxSize)) /\ Len(hdr) <= Max({BufferSize + SessionSize, ResponseSize})
    /\ readbuf \in [1..Total -> 0..Total]
    /\ done \in 0..Total
    /\ call \in [op : {"none", "smb_ReadFile", "GetSMBServerReply"}, pc : Places, rcv : 0..MaxSize,
                 want : 0..MaxSize, to : {"none", "hdr", "readbuf"}, result : Results]

(* However the stream was cut into segments and whatever the reply was: when a *)
(* request ends and the connection stays in use, since the error is none that  *)
(* the callers answer with a new one, the whole reply has been taken.  The     *)
(* next request finds its own.                                                 *)
InStep == At("idle") /\ call.result # "transport" => wire = <<>>

(* What smb_ReadFile has counted as read is in the caller's buffer, each unit  *)
(* in its place.                                                               *)
DataInPlace == \A i \in 1..done : readbuf[i] = i

(* Every request ends. *)
Returns == (call.pc # "idle") ~> (call.pc = "idle")
=============================================================================
