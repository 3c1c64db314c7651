---------------------------- MODULE MCSmbSession ----------------------------
(***************************************************************************)
(* The session that the threads of the console share, and the requests of  *)
(* one thread.  One of the two moves in a behaviour and the other stays as *)
(* it begins; part says which, and whether the server turns requests down. *)
(***************************************************************************)
EXTENDS SmbSession

VARIABLES part, server, due, up, logon, session, shared, file, call, troubles

\* a server that does what it is asked for
Willing == INSTANCE SmbSession WITH Faults <- {}, MaxLosses <- 1

\* late replies of the requests after whose time-out the connection is made anew
Requests == INSTANCE SmbRequests WITH Late <- {"read", "write", "keepalive"}, MaxTroubles <- 2

Refusing == {"refuse"}

requestVars == <<server, due, up, logon, session, shared, file, call, troubles>>
MCVars == <<part, vars, requestVars>>

MCInit ==
    /\ part \in {"session", "willing", "requests"}
    /\ Init /\ Requests!Init
    /\ part # "requests" => server = [rejects |-> {}, userLevel |-> TRUE, nt |-> TRUE] /\ ~logon.anonymous

MCNext ==
    /\ UNCHANGED part
    /\ \/ part = "session" /\ Next /\ UNCHANGED requestVars
       \/ part = "willing" /\ Willing!Next /\ UNCHANGED requestVars
       \/ part = "requests" /\ Requests!Next /\ UNCHANGED vars

\* FairSpec of SmbSession, for a server that does what it is asked for, and of
\* SmbRequests
MCSpec ==
    /\ MCInit /\ [][MCNext]_MCVars
    /\ WF_vars(part = "willing" /\ Willing!Keep)
    /\ WF_vars(part = "willing" /\ Willing!ComesBack)
    /\ \A u \in Users : /\ SF_vars(part = "willing" /\ Willing!Lock(u))
                        /\ WF_vars(part = "willing" /\ (Willing!InCall(u) \/ Willing!Restore(u)))
    /\ WF_requestVars(part = "requests" /\ Requests!Steps)

-----------------------------------------------------------------------------
\* No identifier of one session or connection is used in another: not by files, not
\* by searches, not by the echo of the keep-alive thread.
SessionsApart == TypeOK /\ FileInSession /\ SearchInSession /\ EchoInSession

\* A request is only sent when nothing else is due: the message that its caller
\* takes for the reply is the reply.  The log-on that reconnections repeat is the one
\* that the server accepted, the replacement for the anonymous name included.
OwnReply == Requests!TypeOK /\ Requests!OwnReply /\ Requests!SameUser

\* Every call returns, once the server is within reach: a reconnection ends and lets
\* those that wait for the lock go on, and each of the second attempts of a request is
\* made a bounded number of times.
CallsReturn ==
    /\ \A u \in Users : part = "willing" /\ ~At(u, "idle") ~> At(u, "idle")
    /\ ~Requests!Idle ~> Requests!Idle
=============================================================================
