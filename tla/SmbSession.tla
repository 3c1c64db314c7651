----------------------------- MODULE SmbSession -----------------------------
(***************************************************************************)
(* The session of the SMB client and what depends on it (smb_fio.c): user, *)
(* tree and file identifiers, the handles, the io lock, the shared path    *)
(* buffer, the keep-alive thread, and the reconnection that a read, a      *)
(* write or an echo starts when the connection is lost.                    *)
(*                                                                         *)
(* An identifier counts as "current" if the server gave it in the session  *)
(* of the present connection, as "old" if in an earlier one, a file        *)
(* identifier as "left" if its tree has been left since; -1 is None.       *)
(* Requests are atomic; what they read and write is not modelled here.     *)
(***************************************************************************)
EXTENDS Naturals, FiniteSets

CONSTANTS
    Users,       \* threads that use the share
    Openers,     \* those of them that name files: open, directories, other requests with a path
    Masters,     \* those of them that log on and off, open and close the share
    Slots,       \* smbman_fdhandles
    None,
    Careful,     \* nobody changes the session while a handle is in use
    MaxLosses,   \* bound: how often the connection is lost
    Faults       \* "refuse": the server turns requests down

VARIABLES
    net,       \* is there a socket and is it alive; is the server within reach; losses so far
    UID,
    TID,
    valid,     \* glogon_valid and gopenshare_valid
    handles,   \* smbman_fdhandles: mode and smb_fid, whose path was opened; who holds the file
    curpath,   \* smb_curpath: whose path it is
    lock,      \* smbman_io_sema
    alive,     \* keepalive_locked, and whether keepalive_idle_ticks has reached its limit
    threads    \* where the users and the keep-alive thread are

vars == <<net, UID, TID, valid, handles, curpath, lock, alive, threads>>

Keeper == "keepalive_thread"
Ids == {"current", "old", None}
FileIds == Ids \cup {"left"}
Sessions == {"logon", "logoff", "openshare", "closeshare", "sharelist", "ask"}

FreeHandle == [mode |-> "free", fid |-> None, path |-> None, holder |-> None]
Resting == [pc |-> "idle", op |-> None, slot |-> None]

Init ==
    /\ net = [socket |-> "none", reach |-> TRUE, losses |-> 0]
    /\ UID = None /\ TID = None /\ valid = {}
    /\ handles = [s \in Slots |-> FreeHandle]
    /\ curpath = None /\ lock = None
    /\ alive = [locked |-> TRUE, idle |-> FALSE]
    /\ threads = [t \in Users \cup {Keeper} |-> Resting]

-----------------------------------------------------------------------------
(* The server and the network. *)

Lose ==
    /\ net.socket = "up" /\ net.losses < MaxLosses
    /\ \E r \in BOOLEAN : net' = [socket |-> "lost", reach |-> r, losses |-> net.losses + 1]
    /\ UNCHANGED <<UID, TID, valid, handles, curpath, lock, alive, threads>>

ComesBack ==
    /\ ~net.reach /\ net' = [net EXCEPT !.reach = TRUE]
    /\ UNCHANGED <<UID, TID, valid, handles, curpath, lock, alive, threads>>

\* requests that the server can serve
InSession == net.socket = "up" /\ UID = "current"
InShare == InSession /\ TID = "current"
MayRefuse == "refuse" \in Faults

Aged(id) == IF id = None THEN None ELSE "old"

\* a connection ends, and with it what the server gave during it
CloseSocket == net' = [net EXCEPT !.socket = "none"]
AgeHandles == [s \in Slots |-> [handles[s] EXCEPT !.fid = Aged(@)]]

\* a tree is left, and its files with it
LeaveTree ==
    [s \in Slots |-> IF InShare /\ handles[s].fid = "current" THEN [handles[s] EXCEPT !.fid = "left"] ELSE handles[s]]

-----------------------------------------------------------------------------
(* Threads. *)

At(t, pc) == threads[t].pc = pc
Goto(t, pc) == threads' = [threads EXCEPT ![t].pc = pc]

Begin(u, op, slot) == threads' = [threads EXCEPT ![u] = [pc |-> "wait", op |-> op, slot |-> slot]]

\* smb_io_lock
Lock(u) ==
    /\ At(u, "wait") /\ lock = None
    /\ lock' = u /\ Goto(u, "body")
    /\ alive' = [alive EXCEPT !.idle = FALSE]
    /\ UNCHANGED <<net, UID, TID, valid, handles, curpath>>

Body(u, op) == At(u, "body") /\ threads[u].op = op

\* smb_io_unlock, and the call returns
Unlock(u) == lock' = None /\ threads' = [threads EXCEPT ![u] = Resting]
Rest == alive' = [alive EXCEPT !.idle = FALSE]
Return(u) == Unlock(u) /\ Rest

Holds(u, s) == handles[s].holder = u

-----------------------------------------------------------------------------
(* Opening and closing.  The path is put in the shared buffer, and           *)
(* identifiers are looked at, before the lock is taken.                       *)

CallWithPath(u) ==
    /\ At(u, "idle") /\ UID # None /\ TID # None
    /\ Careful => \A v \in Users : threads[v].op \notin Sessions
    /\ curpath' = u
    /\ \E op \in {"open", "dopen", "query"} : Begin(u, op, None)
    /\ UNCHANGED <<net, UID, TID, valid, handles, lock, alive>>

Take(u, s, mode, fid) ==
    handles' = [handles EXCEPT ![s] = [mode |-> mode, fid |-> fid, path |-> curpath, holder |-> u]]

smb_open(u) ==
    /\ Body(u, "open") /\ Return(u)
    /\ \/ \E s \in Slots : handles[s].mode = "free" /\ InShare /\ Take(u, s, "file", "current")
       \/ /\ ~InShare \/ MayRefuse \/ \A s \in Slots : handles[s].mode # "free"
          /\ UNCHANGED handles
    /\ UNCHANGED <<net, UID, TID, valid, curpath>>

smb_dopen(u) ==
    /\ Body(u, "dopen") /\ Return(u)
    /\ \/ \E s \in Slots : handles[s].mode = "free" /\ InShare /\ Take(u, s, "dir", handles[s].fid)
       \/ /\ ~InShare \/ MayRefuse \/ \A s \in Slots : handles[s].mode # "free"
          /\ UNCHANGED handles
    /\ UNCHANGED <<net, UID, TID, valid, curpath>>

\* smb_remove, smb_mkdir, smb_rmdir, smb_getstat, smb_rename; smb_EchoServer, smb_QueryDiskInfo
Query(u) ==
    /\ Body(u, "query") \/ Body(u, "ask")
    /\ Return(u) /\ UNCHANGED <<net, UID, TID, valid, handles, curpath>>

\* smb_close and smb_dclose, whose caller takes the handle for closed in any case
CallClose(u, s) ==
    /\ At(u, "idle") /\ Holds(u, s)
    /\ handles' = [handles EXCEPT ![s].holder = None]
    /\ IF UID = None \/ TID = None \/ handles[s].fid = None
       THEN UNCHANGED threads ELSE Begin(u, "close", s)
    /\ UNCHANGED <<net, UID, TID, valid, curpath, lock, alive>>

smb_close(u) ==
    LET s == threads[u].slot IN
    /\ Body(u, "close") /\ Return(u)
    /\ \/ /\ handles[s].mode = "dir" \/ InShare
          /\ handles' = [handles EXCEPT ![s] = FreeHandle]
       \/ /\ handles[s].mode = "file"
          /\ ~InShare \/ handles[s].fid # "current" \/ MayRefuse
          /\ UNCHANGED handles
    /\ UNCHANGED <<net, UID, TID, valid, curpath>>

-----------------------------------------------------------------------------
(* Reading and writing files, and reading directories. *)

\* smb_read and smb_write look at the identifiers under the lock, smb_dread before
CallHandle(u, s) ==
    /\ At(u, "idle") /\ Holds(u, s)
    /\ \/ handles[s].mode = "file" /\ Begin(u, "read", s)
       \/ handles[s].mode = "dir" /\ UID # None /\ TID # None /\ Begin(u, "dread", s)
    /\ UNCHANGED <<net, UID, TID, valid, handles, curpath, lock, alive>>

smb_read(u) ==
    /\ Body(u, "read")
    /\ IF UID = None \/ TID = None \/ handles[threads[u].slot].fid = None
       THEN Return(u) ELSE Goto(u, "request") /\ UNCHANGED <<lock, alive>>
    /\ UNCHANGED <<net, UID, TID, valid, handles, curpath>>

\* smb_ReadFile or smb_WriteFile; a transport error leads to smb_ReconnectUntilReady
ReadFile(u) ==
    /\ At(u, "request")
    /\ \/ (InShare \/ MayRefuse) /\ net.socket = "up" /\ Return(u)
       \/ /\ net.socket # "up" \/ handles[threads[u].slot].fid # "current" \/ ~InShare
          /\ Goto(u, "abort")
          /\ alive' = [locked |-> TRUE, idle |-> FALSE] /\ UNCHANGED lock
    /\ UNCHANGED <<net, UID, TID, valid, handles, curpath>>

\* a search is begun if there is none, and gone on with otherwise
smb_dread(u) ==
    LET s == threads[u].slot IN
    /\ Body(u, "dread") /\ Return(u)
    /\ \/ InShare /\ handles' = [handles EXCEPT ![s].fid = IF @ = None THEN "current" ELSE @]
       \/ (~InShare \/ MayRefuse \/ handles[s].fid \in {"left", "old"}) /\ UNCHANGED handles
    /\ UNCHANGED <<net, UID, TID, valid, curpath>>

-----------------------------------------------------------------------------
(* smb_ReconnectUntilReady: smb_RestoreConnection until it succeeds.  The    *)
(* thread t holds the io lock.                                                *)

smb_AbortConnection(t) ==
    /\ At(t, "abort")
    /\ \/ /\ "logon" \in valid
          /\ CloseSocket /\ UID' = None /\ TID' = None /\ handles' = AgeHandles
          /\ Goto(t, "connect")
       \/ "logon" \notin valid /\ Goto(t, "gaveup") /\ UNCHANGED <<net, UID, TID, handles>>
    /\ UNCHANGED <<valid, curpath, lock, alive>>

Connect(t) ==
    /\ At(t, "connect")
    /\ \/ net.reach /\ net' = [net EXCEPT !.socket = "up"] /\ Goto(t, "setup")
       \/ ~net.reach /\ Goto(t, "abort") /\ UNCHANGED net
    /\ UNCHANGED <<UID, TID, valid, handles, curpath, lock, alive>>

Setup(t) ==
    /\ At(t, "setup")
    /\ \/ /\ net.socket = "up" /\ UID' = "current"
          /\ Goto(t, IF "share" \in valid THEN "tree" ELSE "ready")
       \/ (net.socket # "up" \/ MayRefuse) /\ Goto(t, "abort") /\ UNCHANGED UID
    /\ UNCHANGED <<net, TID, valid, handles, curpath, lock, alive>>

Tree(t) ==
    /\ At(t, "tree")
    /\ \/ InSession /\ TID' = "current" /\ Goto(t, "reopen")
       \/ (~InSession \/ MayRefuse) /\ Goto(t, "abort") /\ UNCHANGED TID
    /\ UNCHANGED <<net, UID, valid, handles, curpath, lock, alive>>

ReopenFilesOnly(t) ==
    /\ At(t, "reopen") /\ Goto(t, IF InShare THEN "ready" ELSE "abort")
    /\ handles' = [s \in Slots |-> IF handles[s].mode = "file" /\ InShare
                                   THEN [handles[s] EXCEPT !.fid = "current"] ELSE handles[s]]
    /\ UNCHANGED <<net, UID, TID, valid, curpath, lock, alive>>

ReopenAsFiles(t) ==
    /\ At(t, "reopen")
    /\ IF \E s \in Slots : handles[s].mode = "dir" \/ ~InShare THEN Goto(t, "abort") ELSE Goto(t, "ready")
    /\ handles' = [s \in Slots |-> IF handles[s].mode = "file" /\ InShare
                                   THEN [handles[s] EXCEPT !.fid = "current"] ELSE handles[s]]
    /\ UNCHANGED <<net, UID, TID, valid, curpath, lock, alive>>

\* smb_ReopenHandles, which stops at the first file that cannot be opened
smb_ReopenHandles(t) ==
    /\ At(t, "reopen")
    /\ \/ /\ InShare \/ \A s \in Slots : handles[s].mode # "file"
          /\ Goto(t, "ready")
          /\ handles' = [s \in Slots |->
                            CASE handles[s].mode = "dir" -> [handles[s] EXCEPT !.fid = None]
                              [] handles[s].mode = "file" -> [handles[s] EXCEPT !.fid = "current"]
                              [] OTHER -> handles[s]]
       \/ /\ \E s \in Slots : handles[s].mode = "file"
          /\ ~InShare \/ MayRefuse
          /\ Goto(t, "abort") /\ UNCHANGED handles
    /\ UNCHANGED <<net, UID, TID, valid, curpath, lock, alive>>

\* the request is repeated; the keep-alive thread is content
Ready(t) ==
    /\ At(t, "ready")
    /\ alive' = [locked |-> FALSE, idle |-> FALSE]
    /\ IF t = Keeper THEN Unlock(t) ELSE Goto(t, "request") /\ UNCHANGED lock
    /\ UNCHANGED <<net, UID, TID, valid, handles, curpath>>

GaveUp(t) ==
    /\ At(t, "gaveup") /\ Unlock(t)
    /\ IF t = Keeper THEN UNCHANGED alive ELSE Rest
    /\ UNCHANGED <<net, UID, TID, valid, handles, curpath>>

Restore(t) ==
    \/ smb_AbortConnection(t) \/ Connect(t) \/ Setup(t) \/ Tree(t) \/ smb_ReopenHandles(t)
    \/ Ready(t) \/ GaveUp(t)

-----------------------------------------------------------------------------
(* smb_devctl: the session and the share. *)

CallSession(u) ==
    /\ At(u, "idle")
    /\ Careful => /\ \A s \in Slots : handles[s].holder = None
                  /\ \A v \in Users : At(v, "idle")
    /\ \E op \in Sessions : Begin(u, op, None)
    /\ UNCHANGED <<net, UID, TID, valid, handles, curpath, lock, alive>>

\* smb_LogOff for a user identifier: files are closed and the tree left, whatever comes
\* of it; the rest only happens if the server logs the client off
LoggedOff ==
    /\ InSession
    /\ UID' = None /\ TID' = None /\ valid' = {} /\ CloseSocket /\ handles' = AgeHandles
    /\ alive' = [locked |-> TRUE, idle |-> FALSE]

NotLoggedOff ==
    /\ ~InSession \/ MayRefuse
    /\ TID' = None
    /\ handles' = LeaveTree
    /\ UNCHANGED <<net, UID, valid>>

smb_LogOff(u) ==
    /\ Body(u, "logoff") /\ Unlock(u) /\ UNCHANGED curpath
    /\ \/ UID = None /\ Rest /\ UNCHANGED <<net, UID, TID, valid, handles>>
       \/ UID # None /\ LoggedOff
       \/ UID # None /\ NotLoggedOff /\ Rest

smb_LogOn(u) ==
    /\ Body(u, "logon") /\ Goto(u, "logon") /\ UNCHANGED <<curpath, lock>>
    /\ \/ UID = None /\ UNCHANGED <<net, UID, TID, valid, handles, alive>>
       \/ UID # None /\ LoggedOff
       \/ UID # None /\ NotLoggedOff /\ UNCHANGED alive

\* smb_Connect, which closes a connection that is left
LogOnConnect(u) ==
    /\ At(u, "logon")
    /\ UID' = Aged(UID) /\ handles' = AgeHandles
    /\ net' = [net EXCEPT !.socket = IF net.reach THEN "up" ELSE "none"]
    /\ IF net.reach THEN Goto(u, "negotiate") /\ UNCHANGED <<lock, alive>> ELSE Return(u)
    /\ UNCHANGED <<TID, valid, curpath>>

LogOnSetup(u) ==
    /\ At(u, "negotiate") /\ Unlock(u)
    /\ \/ /\ net.socket = "up"
          /\ UID' = "current" /\ valid' = valid \cup {"logon"}
          /\ alive' = [locked |-> FALSE, idle |-> FALSE]
       \/ (net.socket # "up" \/ MayRefuse) /\ Rest /\ UNCHANGED <<UID, valid>>
    /\ UNCHANGED <<net, TID, handles, curpath>>

smb_OpenShare(u) ==
    /\ Body(u, "openshare") /\ Return(u)
    /\ \/ InSession /\ TID' = "current" /\ valid' = valid \cup {"share"} /\ handles' = LeaveTree
       \/ (~InSession \/ MayRefuse) /\ TID' = None /\ handles' = LeaveTree /\ UNCHANGED valid
       \/ UNCHANGED <<TID, valid, handles>>    \* not a share's name: split_share_path
    /\ UNCHANGED <<net, UID, curpath>>

smb_CloseShare(u) ==
    /\ Body(u, "closeshare") /\ Return(u)
    /\ \/ TID = None /\ UNCHANGED <<TID, valid, handles>>
       \/ InShare /\ TID' = None /\ valid' = valid \ {"share"} /\ handles' = LeaveTree
       \/ /\ TID # None /\ (~InShare \/ MayRefuse)
          /\ handles' = LeaveTree
          /\ UNCHANGED <<TID, valid>>
    /\ UNCHANGED <<net, UID, curpath>>

\* the tree of the share is left for that of IPC$, which stays if a request fails
smb_GetShareList(u) ==
    /\ Body(u, "sharelist") /\ Return(u)
    /\ \/ TID' = None
       \/ InSession /\ MayRefuse /\ TID' = "ipc"
    /\ handles' = LeaveTree
    /\ UNCHANGED <<net, UID, valid, curpath>>

-----------------------------------------------------------------------------
(* keepalive_thread. *)

\* enough time without a call has passed
Tick ==
    /\ At(Keeper, "idle") /\ ~alive.locked
    /\ alive' = [alive EXCEPT !.idle = TRUE] /\ Goto(Keeper, "poll")
    /\ UNCHANGED <<net, UID, TID, valid, handles, curpath, lock>>

Poll ==
    /\ At(Keeper, "poll")
    /\ IF lock = None THEN lock' = Keeper /\ Goto(Keeper, "check") ELSE Goto(Keeper, "idle") /\ UNCHANGED lock
    /\ UNCHANGED <<net, UID, TID, valid, handles, curpath, alive>>

\* the state is looked at again under the lock
Check ==
    /\ At(Keeper, "check")
    /\ IF ~alive.locked /\ alive.idle
       THEN Goto(Keeper, "echo") /\ Rest /\ UNCHANGED lock
       ELSE Unlock(Keeper) /\ UNCHANGED alive
    /\ UNCHANGED <<net, UID, TID, valid, handles, curpath>>

smb_Echo ==
    /\ At(Keeper, "echo")
    /\ \/ net.socket = "up" /\ Unlock(Keeper) /\ UNCHANGED alive
       \/ /\ net.socket # "up" \/ UID # "current"
          /\ Goto(Keeper, "abort") /\ UNCHANGED lock
          /\ alive' = [locked |-> TRUE, idle |-> FALSE]
    /\ UNCHANGED <<net, UID, TID, valid, handles, curpath>>

-----------------------------------------------------------------------------
InCall(u) ==
    \/ smb_open(u) \/ smb_dopen(u) \/ Query(u) \/ smb_close(u)
    \/ smb_read(u) \/ ReadFile(u) \/ smb_dread(u)
    \/ smb_LogOff(u) \/ smb_LogOn(u) \/ LogOnConnect(u) \/ LogOnSetup(u)
    \/ smb_OpenShare(u) \/ smb_CloseShare(u) \/ smb_GetShareList(u)

Keep == Tick \/ Poll \/ Check \/ smb_Echo \/ Restore(Keeper)

Next ==
    \/ Lose \/ ComesBack \/ Keep
    \/ \E u \in Openers : CallWithPath(u)
    \/ \E u \in Masters : CallSession(u)
    \/ \E u \in Users, s \in Slots : CallClose(u, s) \/ CallHandle(u, s)
    \/ \E u \in Users : Lock(u) \/ InCall(u) \/ Restore(u)

Spec == Init /\ [][Next]_vars

\* threads run, a thread that waits for the semaphore gets its turn, and the server comes
\* back within reach
FairSpec ==
    /\ Spec /\ WF_vars(Keep) /\ WF_vars(ComesBack)
    /\ \A u \in Users : SF_vars(Lock(u)) /\ WF_vars(InCall(u) \/ Restore(u))

-----------------------------------------------------------------------------
TypeOK ==
    /\ net \in [socket : {"none", "up", "lost"}, reach : BOOLEAN, losses : 0..MaxLosses]
    /\ UID \in Ids /\ TID \in {"current", "ipc", None} /\ valid \subseteq {"logon", "share"}
    /\ handles \in [Slots -> [mode : {"free", "file", "dir"}, fid : FileIds, path : Users \cup {None},
                              holder : Users \cup {None}]]
    /\ curpath \in Users \cup {None} /\ lock \in Users \cup {None, Keeper}
    /\ alive \in [locked : BOOLEAN, idle : BOOLEAN]
    /\ \A t \in Users \cup {Keeper} :
        threads[t].pc \notin {"idle", "wait", "poll"} => lock = t

(* A file is read and written with a file identifier of the present session:  *)
(* after every reconnection, whichever thread made it, the handles have been   *)
(* opened again before any of them is used.                                    *)
FileInSession == \A u \in Users : At(u, "request") => handles[threads[u].slot].fid = "current"

(* "A search handle cannot be used beyond its SMB session; the next dread      *)
(* begins the search anew."                                                    *)
SearchInSession == \A u \in Users : Body(u, "dread") /\ InShare => handles[threads[u].slot].fid # "old"

(* The keep-alive thread sends an echo only while the client is logged on,     *)
(* however log-off, reconnection and its own delay interleave.                 *)
EchoInSession == At(Keeper, "echo") => "logon" \in valid /\ ~alive.locked

(* Every call returns, once the server is within reach: a reconnection ends    *)
(* and lets those that wait for the lock go on.                                *)
Returns == \A u \in Users : ~At(u, "idle") ~> At(u, "idle")
=============================================================================
