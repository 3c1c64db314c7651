------------------------------ MODULE MCSmbFile ------------------------------
(***************************************************************************)
(* Files that are read through the read-ahead, and the reply to one read   *)
(* on the wire.  One of the two moves in a behaviour and the other stays   *)
(* as it begins; part says which.                                          *)
(***************************************************************************)
EXTENDS SmbFile

VARIABLES part, msgs, wire, seg, hdr, readbuf, done, request

\* sizes in units that keep the order of the real ones
Wire == INSTANCE SmbRead WITH SessionSize <- 2, HeaderSize <- 3, ResponseSize <- 5, BufferSize <- 5,
            MaxRecv <- 2, Total <- 3, MaxSize <- 9, Faults <- {"malformed", "silence", "keepalive"},
            call <- request

Both == {"lost", "error"}

wireVars == <<msgs, wire, seg, hdr, readbuf, done, request>>
MCVars == <<part, vars, wireVars>>

MCInit ==
    /\ part \in {"file", "wire"}
    /\ Init /\ Wire!Init
    /\ part = "wire" => /\ length = [f \in Files |-> 0]
                        /\ contents = [f \in Files |-> [o \in Offsets |-> Blank]]

MCNext ==
    /\ UNCHANGED part
    /\ \/ part = "file" /\ Next /\ UNCHANGED wireVars
       \/ part = "wire" /\ Wire!Next /\ UNCHANGED vars

\* FairSpec of SmbFile and of SmbRead
MCSpec ==
    /\ MCInit /\ [][MCNext]_MCVars
    /\ WF_vars(part = "file" /\ Reading)
    /\ WF_wireVars(part = "wire" /\ Wire!Steps)

-----------------------------------------------------------------------------
\* However the stream was cut into segments and whatever the reply was: when a
\* request ends and the connection stays in use, the whole reply has been taken,
\* so that the next request finds its own (DrainSMBReply and its callers).  What
\* smb_ReadFile has counted as read is in the caller's buffer, each unit in its
\* place.
RepliesInStep == TypeOK /\ Wire!TypeOK /\ Wire!InStep /\ Wire!DataInPlace

\* A read ends, and so does every request that it makes.
ReadsReturn == (call # NoCall \/ request.pc # "idle") ~> (call = NoCall /\ request.pc = "idle")
=============================================================================
