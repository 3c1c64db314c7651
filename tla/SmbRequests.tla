----------------------------- MODULE SmbRequests -----------------------------
(***************************************************************************)
(* The requests of the SMB client (smb.c) and what smb_fio.c does when one *)
(* fails: a request is sent, and the next message that comes is taken for  *)
(* its reply.  Log-on and opening take several requests, some are sent     *)
(* again after an error, and reads, writes and the keep-alive's echo make  *)
(* the connection anew after a transport error.                            *)
(*                                                                         *)
(* The server answers in order.  SmbRead has the bytes of a reply,         *)
(* SmbSession the threads and the identifiers.                             *)
(***************************************************************************)
EXTENDS Naturals, Sequences

CONSTANTS
    Late,          \* the commands whose reply may come after the client has stopped waiting
    MaxTroubles    \* bound: late replies, refusals and broken connections

\* requests that end with their reply, whatever it is
Plain == {"enum", "disk", "delete", "directory", "rename", "find", "echo"}
Commands == Plain \cup {"negotiate", "setup", "tree", "create", "open", "basic", "standard",
                        "read", "write", "keepalive", "close", "leave", "logoff"}

Names == {"given", "PS2"}
Auths == {"NTLM", "LM"}

VARIABLES
    server,     \* which log-ons it rejects, its security level, whether it has the NT commands
    due,        \* the commands whose replies are still to be read from the connection
    up,         \* the connection works
    logon,      \* glogon_info and glogon_valid: is it anonymous, the name, has it been used
    session,    \* UID and TID, and the name that the server was given
    shared,     \* gopenshare_valid
    file,       \* a file is open
    call,       \* the call in progress and its request
    troubles

vars == <<server, due, up, logon, session, shared, file, call, troubles>>

Nil == "none"
NoCall == [op |-> Nil, pc |-> "idle", cmd |-> Nil, user |-> Nil, auth |-> Nil, tries |-> 0, restoring |-> FALSE]

Init ==
    /\ server \in [rejects : SUBSET (Names \X Auths), userLevel : BOOLEAN, nt : BOOLEAN]
    /\ due = <<>> /\ up = FALSE
    /\ logon \in [anonymous : BOOLEAN, user : {"given"}, valid : {FALSE}]
    /\ session = [level |-> Nil, user |-> Nil]
    /\ shared = FALSE /\ file = FALSE
    /\ call = NoCall /\ troubles = 0

-----------------------------------------------------------------------------
(* Calls. *)

Idle == call.pc = "idle"

\* the first request of a call
Request(op, cmd) ==
    /\ Idle /\ session.level = "share"
    /\ call' = [NoCall EXCEPT !.op = op, !.pc = "send", !.cmd = cmd]
    /\ UNCHANGED <<server, due, up, logon, session, shared, file, troubles>>

smb_NetShareEnum == Request("enum", "enum")

smb_QueryInformationDisk == Request("disk", "disk")

smb_QueryPathInformation == Request("getstat", "basic")

smb_Delete == Request("delete", "delete")

smb_ManageDirectory == Request("directory", "directory")

smb_Rename == Request("rename", "rename")

smb_FindFirstNext2 == Request("find", "find")

\* smb_OpenAndX turns to smb_NTCreateAndX for a server that has it
smb_OpenAndX == ~file /\ ~server.nt /\ Request("open", "open")

smb_NTCreateAndX == ~file /\ server.nt /\ Request("open", "create")

smb_Close == file /\ Request("close", "close")

smb_ReadFile == file /\ Request("read", "read")

smb_WriteFile == file /\ Request("write", "write")

\* from keepalive_thread, or as a call of its own
smb_Echo == \E cmd \in {"keepalive", "echo"} : Request(cmd, cmd)

\* smb_closeAll comes first
smb_LogOff == Request("logoff", IF file THEN "close" ELSE "leave")

\* smb_Connect closes a connection that is left
smb_LogOn ==
    /\ Idle /\ session.level = Nil
    /\ up' = TRUE /\ due' = <<>>
    /\ call' = [NoCall EXCEPT !.op = "logon", !.pc = "send", !.cmd = "negotiate"]
    /\ UNCHANGED <<server, logon, session, shared, file, troubles>>

smb_OpenShare ==
    /\ Idle /\ session.level = "user"
    /\ call' = [NoCall EXCEPT !.op = "openshare", !.pc = "send", !.cmd = "tree", !.auth = "NTLM"]
    /\ UNCHANGED <<server, due, up, logon, session, shared, file, troubles>>

-----------------------------------------------------------------------------
(* How a request ends.  Every outcome is the step of one reply, or of one    *)
(* error of the connection.                                                   *)

Send(cmd) == call' = [call EXCEPT !.pc = "send", !.cmd = cmd]
End == call' = NoCall

\* the call goes on from a connection that has been made anew
Resume == IF call.op = "keepalive"
          THEN End
          ELSE call' = [NoCall EXCEPT !.op = call.op, !.pc = "send", !.cmd = call.op]

Finish == IF call.restoring THEN Resume ELSE End

\* the log-on is remembered as it was accepted
SetupDone ==
    /\ session' = [level |-> "user", user |-> call.user]
    /\ logon' = [logon EXCEPT !.user = call.user, !.valid = TRUE]
    /\ IF call.restoring /\ shared
       THEN call' = [call EXCEPT !.pc = "send", !.cmd = "tree", !.auth = "NTLM"]
       ELSE Finish
    /\ UNCHANGED <<shared, file>>

TreeDone ==
    /\ session' = [session EXCEPT !.level = "share"] /\ shared' = TRUE
    /\ IF call.restoring /\ file THEN Send(IF server.nt THEN "create" ELSE "open") ELSE Finish
    /\ UNCHANGED <<logon, file>>

\* smb_LogOff: what becomes of closing the files and leaving the tree makes no difference
Leaving ==
    /\ call.op = "logoff"
    /\ \/ call.cmd = "close" /\ Send("leave") /\ UNCHANGED session
       \/ call.cmd = "leave" /\ Send("logoff") /\ session' = [session EXCEPT !.level = "user"]
    /\ UNCHANGED <<logon, shared, file>>

Unchanged == UNCHANGED <<logon, session, shared, file>>

NegotiateDone ==
    /\ call' = [call EXCEPT !.pc = "send", !.cmd = "setup", !.user = logon.user, !.auth = "NTLM"]
    /\ Unchanged

OpenDone == file' = (file \/ call.op = "open") /\ Finish /\ UNCHANGED <<logon, session, shared>>

CloseDone == file' = FALSE /\ End /\ UNCHANGED <<logon, session, shared>>

LogOffDone ==
    /\ session' = [level |-> Nil, user |-> Nil] /\ logon' = [logon EXCEPT !.valid = FALSE]
    /\ shared' = FALSE /\ End /\ UNCHANGED file

Succeed ==
    \/ call.cmd = "negotiate" /\ NegotiateDone
    \/ call.cmd = "setup" /\ SetupDone
    \/ call.cmd = "tree" /\ TreeDone
    \/ call.cmd = "open" /\ Send("basic") /\ Unchanged
    \/ call.cmd = "basic" /\ Send("standard") /\ Unchanged
    \/ call.cmd \in {"create", "standard"} /\ OpenDone
    \/ call.cmd \in Plain \cup {"read", "write", "keepalive"} /\ End /\ Unchanged
    \/ call.op = "close" /\ CloseDone
    \/ Leaving
    \/ call.cmd = "logoff" /\ LogOffDone

-----------------------------------------------------------------------------
(* How a request fails: e is the error of GetSMBServerReply, or the status. *)

\* errors that smb_ReadAndX, smb_WriteAndX and smb_Echo tell from others, for smb_IsTransportError
TransportExceptTimeout(e) == e \in {"reset", "gone"}

smb_IsTransportError(e) == e \in {"reset", "timeout", "gone"}

\* the call is given up; in smb_ReconnectUntilReady, begun anew
GiveUp ==
    IF call.restoring THEN call' = [call EXCEPT !.pc = "abort"] ELSE End

\* STATUS_LOGON_FAILURE: once more with the other kind of password
AgainAsLM(e) == call' = [call EXCEPT !.pc = "send", !.auth = "LM"]

MayTryLM(e) == e = "failure" /\ server.userLevel /\ call.auth = "NTLM"

\* smb_SessionSetupWithAnonymousFallback
MayTryPS2 == logon.anonymous /\ call.user = "given"

MayNegotiateAgain(e) == call.tries < 2

NegotiateFails(e) ==
    IF MayNegotiateAgain(e) THEN call' = [call EXCEPT !.pc = "send", !.tries = @ + 1] ELSE GiveUp

SetupFails(e) ==
    \/ MayTryLM(e) /\ AgainAsLM(e)
    \/ ~MayTryLM(e) /\ MayTryPS2 /\ call' = [call EXCEPT !.pc = "send", !.user = "PS2", !.auth = "NTLM"]
    \/ ~MayTryLM(e) /\ ~MayTryPS2 /\ GiveUp

TreeFails(e) == IF MayTryLM(e) THEN AgainAsLM(e) ELSE GiveUp

\* smb_ReadFileWithReconnect, smb_WriteFileWithReconnect and keepalive_thread
TransferFails(e) ==
    IF smb_IsTransportError(e) THEN call' = [call EXCEPT !.pc = "abort", !.restoring = TRUE] ELSE End

FailCall(e) ==
    \/ call.cmd = "negotiate" /\ NegotiateFails(e)
    \/ call.cmd = "setup" /\ SetupFails(e)
    \/ call.cmd = "tree" /\ TreeFails(e)
    \/ call.cmd \in {"create", "open", "basic", "standard"} /\ GiveUp
    \/ call.cmd \in {"read", "write", "keepalive"} /\ TransferFails(e)
    \/ call.cmd \in Plain \cup {"logoff"} /\ End
    \/ call.op = "close" /\ End

Fail(e) ==
    \/ FailCall(e) /\ Unchanged
    \/ Leaving

-----------------------------------------------------------------------------
(* GetSMBServerReply. *)

Trouble == troubles < MaxTroubles /\ troubles' = troubles + 1

SendData ==
    /\ call.pc = "send" /\ up
    /\ due' = Append(due, call.cmd) /\ call' = [call EXCEPT !.pc = "await"]
    /\ UNCHANGED <<server, up, logon, session, shared, file, troubles>>

Rejected == call.cmd = "setup" /\ <<call.user, call.auth>> \in server.rejects

\* the next message is the reply
Reply ==
    /\ call.pc = "await" /\ up /\ due' = Tail(due)
    /\ \/ ~Rejected /\ Succeed /\ UNCHANGED troubles
       \/ Rejected /\ Fail("failure") /\ UNCHANGED troubles
       \/ Trouble /\ \E e \in {"failure", "gone", "other"} : Fail(e)
    /\ UNCHANGED <<server, up>>

\* it has not come in time
TimeOut ==
    /\ call.pc = "await" /\ up /\ call.cmd \in Late
    /\ Trouble /\ Fail("timeout")
    /\ UNCHANGED <<server, due, up>>

\* the connection is reset: every later request finds it so
Reset ==
    /\ up /\ Trouble /\ up' = FALSE /\ due' = <<>>
    /\ UNCHANGED <<server, logon, session, shared, file, call>>

Broken ==
    /\ call.pc \in {"send", "await"} /\ ~up /\ Fail("reset")
    /\ UNCHANGED <<server, due, up, troubles>>

-----------------------------------------------------------------------------
\* smb_RestoreConnection: the old connection is left, whatever is due on it
smb_AbortConnection == due' = <<>>

smb_RestoreConnection ==
    /\ call.pc = "abort" /\ smb_AbortConnection /\ up' = TRUE
    /\ session' = [level |-> Nil, user |-> Nil]
    /\ call' = [call EXCEPT !.pc = "send", !.cmd = "negotiate", !.tries = 0]
    /\ UNCHANGED <<server, logon, shared, file, troubles>>

-----------------------------------------------------------------------------
Calls ==
    \/ smb_NetShareEnum \/ smb_QueryInformationDisk \/ smb_QueryPathInformation
    \/ smb_Delete \/ smb_ManageDirectory \/ smb_Rename \/ smb_FindFirstNext2
    \/ smb_OpenAndX \/ smb_NTCreateAndX \/ smb_Close \/ smb_ReadFile \/ smb_WriteFile \/ smb_Echo
    \/ smb_LogOff \/ smb_LogOn \/ smb_OpenShare

Steps == SendData \/ Reply \/ TimeOut \/ Broken \/ smb_RestoreConnection

Next == Calls \/ Steps \/ Reset

Spec == Init /\ [][Next]_vars

\* the client's thread runs, and the server answers
FairSpec == Spec /\ WF_vars(Steps)

-----------------------------------------------------------------------------
TypeOK ==
    /\ due \in Seq(Commands) /\ up \in BOOLEAN
    /\ logon \in [anonymous : BOOLEAN, user : Names, valid : BOOLEAN]
    /\ session \in [level : {Nil, "user", "share"}, user : Names \cup {Nil}]
    /\ shared \in BOOLEAN /\ file \in BOOLEAN
    /\ call.pc \in {"idle", "send", "await", "abort"} /\ call.cmd \in Commands \cup {Nil}
    /\ call.tries \in 0..2 /\ call.user \in Names \cup {Nil} /\ call.auth \in Auths \cup {Nil}
    /\ troubles \in 0..MaxTroubles

(* A request is only sent when nothing else is due: the message that its      *)
(* caller takes for the reply is the reply.                                    *)
OwnReply == call.pc = "await" /\ up => due = <<call.cmd>>

(* The log-on that reconnections repeat is the one that the server accepted,   *)
(* the replacement for the anonymous name included.                            *)
SameUser == session.user # Nil => logon.user = session.user

(* Every call returns: each of the second attempts is made a bounded number    *)
(* of times, and a reconnection ends once the troubles do.                     *)
Returns == ~Idle ~> Idle
=============================================================================
