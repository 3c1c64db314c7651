------------------------------ MODULE Sio2Lock ------------------------------
(***************************************************************************)
(* Who may use the SIO2 (sio2man_hook.c and ioplib.c of the mx4sio driver, *)
(* and its module_start and module_stop).  The libraries of pads and       *)
(* memory cards use it through sio2man in sessions: init, transfers,       *)
(* reset.  The driver puts functions of its own before these three that    *)
(* take its two semaphores, and takes both itself when it uses the SIO2.   *)
(* A library calls sio2man through stubs that are linked when it is        *)
(* loaded; those of libraries that were there before are patched one by    *)
(* one.  Files on the card are read under the file system's lock.          *)
(***************************************************************************)
EXTENDS Naturals, FiniteSets

CONSTANTS
    Clients,   \* libraries that use sio2man
    Loaded,    \* those that are there before the driver
    Users,     \* threads that read files on the card
    Quiet,     \* do the libraries keep still while the driver is starting or stopping?
    Stops      \* is the driver ever unloaded?

ASSUME Sio2LockAssumption == Loaded \subseteq Clients /\ Quiet \in BOOLEAN /\ Stops \in BOOLEAN

VARIABLES
    sema,      \* every semaphore: "free", "taken" or "deleted"
    exports,   \* which functions of sio2man are hooked
    stub,      \* which of them every library calls hooked
    client,    \* where every library is, and whether in a function of the driver
    module,    \* where module_start or module_stop is, and the stubs it has still to patch
    bd,        \* is the card connected to the block device manager?
    user       \* where every reader of files is

vars == <<sema, exports, stub, client, module, bd, user>>

Functions == {"init", "transfer", "reset"}
Unhooked == [f \in Functions |-> FALSE]

\* "own" is the semaphore of sio2man, "fs" the one behind _fs_lock
Init ==
    /\ sema = [s \in {"lock_sema", "lock_sema2", "own", "fs"} |-> "free"]
    /\ exports = Unhooked
    /\ stub = [c \in Clients |-> Unhooked]
    /\ client = [c \in Clients |-> [pc |-> IF c \in Loaded THEN "out" ELSE "absent", hooked |-> FALSE]]
    /\ module = [pc |-> "hook init", todo |-> {}]
    /\ bd = FALSE
    /\ user = [u \in Users |-> "out"]

\* WaitSema goes on when the semaphore is deleted; a count is at most one
WaitSema(s) ==
    /\ sema[s] # "taken"
    /\ sema' = [sema EXCEPT ![s] = IF @ = "free" THEN "taken" ELSE @]

SignalSema(s) == sema' = [sema EXCEPT ![s] = IF @ = "taken" THEN "free" ELSE @]

-----------------------------------------------------------------------------
(* The libraries *)

Goes(c, pc, hooked) == client' = [client EXCEPT ![c] = [pc |-> pc, hooked |-> hooked]]
Stays == UNCHANGED <<exports, stub, module, bd, user>>

Settled == module.pc \in {"run", "lock", "lock2", "using", "unlock", "gone"}
MayCall == Quiet => Settled

\* mutant: a library that is loaded later calls sio2man itself
LoadUnhooked(c) ==
    /\ client[c].pc = "absent" /\ Settled
    /\ Goes(c, "out", FALSE)
    /\ UNCHANGED <<sema, exports, stub, module, bd, user>>

\* a library is loaded and linked to what sio2man exports then
Load(c) ==
    /\ client[c].pc = "absent" /\ Settled
    /\ Goes(c, "out", FALSE)
    /\ stub' = [stub EXCEPT ![c] = exports]
    /\ UNCHANGED <<sema, exports, module, bd, user>>

\* _sio2_transfer_init
TransferInit(c) ==
    /\ client[c].pc = "out" /\ MayCall
    /\ Goes(c, IF stub[c]["init"] THEN "lock" ELSE "own", stub[c]["init"])
    /\ UNCHANGED sema /\ Stays

InitLocks(c) ==
    /\ client[c].pc = "lock"
    /\ WaitSema("lock_sema") /\ Goes(c, "own", TRUE)
    /\ Stays

\* what sio2man itself does
InitOwn(c) ==
    /\ client[c].pc = "own"
    /\ WaitSema("own") /\ Goes(c, "session", FALSE)
    /\ Stays

\* _sio2_transfer; the transfers for the driver's own port are refused, which is to do nothing
Transfer(c) ==
    /\ client[c].pc = "session"
    /\ Goes(c, IF stub[c]["transfer"] THEN "lock2" ELSE "using", stub[c]["transfer"])
    /\ UNCHANGED sema /\ Stays

TransferLocks(c) ==
    /\ client[c].pc = "lock2"
    /\ WaitSema("lock_sema2") /\ Goes(c, "using", TRUE)
    /\ Stays

TransferEnds(c) ==
    /\ client[c].pc = "using"
    /\ IF client[c].hooked THEN SignalSema("lock_sema2") ELSE UNCHANGED sema
    /\ Goes(c, "session", FALSE)
    /\ Stays

\* _sio2_transfer_reset
TransferReset(c) ==
    /\ client[c].pc = "session"
    /\ SignalSema("own")
    /\ Goes(c, IF stub[c]["reset"] THEN "unlock" ELSE "out", stub[c]["reset"])
    /\ Stays

ResetUnlocks(c) ==
    /\ client[c].pc = "unlock"
    /\ SignalSema("lock_sema") /\ Goes(c, "out", FALSE)
    /\ Stays

-----------------------------------------------------------------------------
(* The driver *)

Goto(pc) == module' = [module EXCEPT !.pc = pc]
At(pc) == module.pc = pc

\* ioplib_hookExportEntry
Patch(f, hooked) == exports' = [exports EXCEPT ![f] = hooked]

\* _sio2man_hook: after the first function sio2man is locked from the others
HookInit ==
    /\ At("hook init")
    /\ Patch("init", TRUE) /\ Goto("take own")
    /\ UNCHANGED <<sema, stub, client, bd, user>>

TakeOwn ==
    /\ At("take own")
    /\ WaitSema("own") /\ Goto("hook transfer")
    /\ UNCHANGED <<exports, stub, client, bd, user>>

HookTransfer ==
    /\ At("hook transfer")
    /\ Patch("transfer", TRUE) /\ Goto("hook reset")
    /\ UNCHANGED <<sema, stub, client, bd, user>>

HookReset ==
    /\ At("hook reset")
    /\ Patch("reset", TRUE) /\ Goto("give own")
    /\ UNCHANGED <<sema, stub, client, bd, user>>

\* the stubs of all libraries that are linked
Stubs == {c \in Clients : client[c].pc # "absent"} \X Functions

GiveOwn ==
    /\ At("give own")
    /\ SignalSema("own")
    /\ module' = [pc |-> "relink", todo |-> Stubs]
    /\ UNCHANGED <<exports, stub, client, bd, user>>

\* ioplib_relinkExports
Relink ==
    /\ At("relink")
    /\ \/ \E s \in module.todo :
             /\ stub' = [stub EXCEPT ![s[1]][s[2]] = exports[s[2]]]
             /\ module' = [module EXCEPT !.todo = @ \ {s}]
       \/ /\ module.todo = {} /\ UNCHANGED stub
          /\ Goto(IF exports = Unhooked THEN "delete" ELSE "run")
    /\ UNCHANGED <<sema, exports, client, bd, user>>

\* mx_sio2_lock, the use of the SIO2 and mx_sio2_unlock, by sd_detect, which may find the card
Detect ==
    /\ At("run") /\ ~bd
    /\ Goto("lock")
    /\ UNCHANGED <<sema, exports, stub, client, bd, user>>

DetectLocks ==
    /\ \/ At("lock") /\ WaitSema("lock_sema") /\ Goto("lock2")
       \/ At("lock2") /\ WaitSema("lock_sema2") /\ Goto("using")
    /\ UNCHANGED <<exports, stub, client, bd, user>>

Detected ==
    /\ At("using")
    /\ bd' \in BOOLEAN
    /\ SignalSema("lock_sema2") /\ Goto("unlock")
    /\ UNCHANGED <<exports, stub, client, user>>

DetectUnlocks ==
    /\ At("unlock")
    /\ SignalSema("lock_sema") /\ Goto("run")
    /\ UNCHANGED <<exports, stub, client, bd, user>>

\* module_stop: the card is disconnected with the SIO2 locked
ModuleStop ==
    /\ At("run") /\ Stops
    /\ Goto(IF bd THEN "stop lock" ELSE "unhook init")
    /\ UNCHANGED <<sema, exports, stub, client, bd, user>>

\* mutant: does not wait for the semaphore
StopLocksPolls ==
    /\ \/ At("stop lock") /\ WaitSema("lock_sema") /\ Goto("stop lock2")
       \/ At("stop lock") /\ sema["lock_sema"] = "taken" /\ Goto("run") /\ UNCHANGED sema
       \/ At("stop lock2") /\ WaitSema("lock_sema2") /\ Goto("disconnect")
    /\ UNCHANGED <<exports, stub, client, bd, user>>

StopLocks ==
    /\ \/ At("stop lock") /\ WaitSema("lock_sema") /\ Goto("stop lock2")
       \/ At("stop lock2") /\ WaitSema("lock_sema2") /\ Goto("disconnect")
    /\ UNCHANGED <<exports, stub, client, bd, user>>

\* bdm_disconnect_bd: disconnect_bd takes the file system's lock and gives it back
Disconnect ==
    /\ At("disconnect") /\ sema["fs"] = "free"
    /\ bd' = FALSE
    /\ Goto("stop unlock2")
    /\ UNCHANGED <<sema, exports, stub, client, user>>

StopUnlocks ==
    /\ \/ At("stop unlock2") /\ SignalSema("lock_sema2") /\ Goto("stop unlock")
       \/ At("stop unlock") /\ SignalSema("lock_sema") /\ Goto("unhook init")
    /\ UNCHANGED <<exports, stub, client, bd, user>>

\* _sio2man_unhook, in the same order and not locked
Unhook ==
    /\ \/ At("unhook init") /\ Patch("init", FALSE) /\ Goto("unhook transfer")
       \/ At("unhook transfer") /\ Patch("transfer", FALSE) /\ Goto("unhook reset")
       \/ At("unhook reset") /\ Patch("reset", FALSE) /\ module' = [pc |-> "relink", todo |-> Stubs]
    /\ UNCHANGED <<sema, stub, client, bd, user>>

\* DeleteSema, and the module leaves the memory
Delete ==
    /\ At("delete")
    /\ sema' = [sema EXCEPT !["lock_sema"] = "deleted", !["lock_sema2"] = "deleted"]
    /\ Goto("gone")
    /\ UNCHANGED <<exports, stub, client, bd, user>>

-----------------------------------------------------------------------------
(* Threads that read files on the card *)

Moves(u, pc) == user' = [user EXCEPT ![u] = pc]
Others == UNCHANGED <<exports, stub, client, module, bd>>

\* _fs_lock; without the card the file is not there
Read(u) ==
    /\ user[u] = "out" /\ bd
    /\ WaitSema("fs") /\ Moves(u, "lock")
    /\ Others

\* mx_sio2_lock in spisd_read
ReadLocks(u) ==
    /\ \/ user[u] = "lock" /\ WaitSema("lock_sema") /\ Moves(u, "lock2")
       \/ user[u] = "lock2" /\ WaitSema("lock_sema2") /\ Moves(u, "using")
    /\ Others

\* mx_sio2_unlock, and _fs_unlock
ReadEnds(u) ==
    /\ \/ user[u] = "using" /\ SignalSema("lock_sema2") /\ Moves(u, "unlock")
       \/ user[u] = "unlock" /\ SignalSema("lock_sema") /\ Moves(u, "fs unlock")
       \/ user[u] = "fs unlock" /\ SignalSema("fs") /\ Moves(u, "out")
    /\ Others

-----------------------------------------------------------------------------

ModuleStep ==
    \/ HookInit \/ TakeOwn \/ HookTransfer \/ HookReset \/ GiveOwn \/ Relink
    \/ DetectLocks \/ Detected \/ DetectUnlocks
    \/ StopLocks \/ Disconnect \/ StopUnlocks \/ Unhook \/ Delete

Next ==
    \/ \E c \in Clients :
          \/ Load(c) \/ TransferInit(c) \/ InitLocks(c) \/ InitOwn(c) \/ Transfer(c)
          \/ TransferLocks(c) \/ TransferEnds(c) \/ TransferReset(c) \/ ResetUnlocks(c)
    \/ Detect \/ ModuleStop \/ ModuleStep
    \/ \E u \in Users : Read(u) \/ ReadLocks(u) \/ ReadEnds(u)

Spec == Init /\ [][Next]_vars

\* A thread that waits for a semaphore is let through at some time when it is free, the
\* transfers of a library end, and so do its sessions.
FairSpec ==
    /\ Spec
    /\ SF_vars(ModuleStep)
    /\ \A c \in Clients :
          /\ SF_vars(InitLocks(c)) /\ SF_vars(InitOwn(c)) /\ SF_vars(TransferLocks(c))
          /\ WF_vars(TransferEnds(c)) /\ SF_vars(TransferReset(c)) /\ WF_vars(ResetUnlocks(c))
    /\ \A u \in Users : SF_vars(ReadLocks(u)) /\ WF_vars(ReadEnds(u))

-----------------------------------------------------------------------------
(* Properties *)

\* Types, and the driver's semaphores are deleted when it is gone and not before.
TypeOK ==
    /\ sema \in [{"lock_sema", "lock_sema2", "own", "fs"} -> {"free", "taken", "deleted"}]
    /\ exports \in [Functions -> BOOLEAN] /\ stub \in [Clients -> [Functions -> BOOLEAN]]
    /\ \A c \in Clients : /\ client[c].pc \in {"absent", "out", "lock", "own", "session", "lock2", "using", "unlock"}
                          /\ client[c].hooked \in BOOLEAN
    /\ module.todo \subseteq Clients \X Functions
    /\ \A s \in DOMAIN sema : sema[s] = "deleted" <=> s \in {"lock_sema", "lock_sema2"} /\ At("gone")

\* The SIO2 has at most one user at a time: a transfer of a library, sd_detect, or
\* spisd_read and spisd_write.
Exclusive ==
    Cardinality({c \in Clients : client[c].pc = "using"} \cup {u \in Users : user[u] = "using"}
                \cup {m \in {"module"} : At("using")}) <= 1

\* A session, a search for the card and a read of a file that wait for the SIO2 get it.
Served ==
    /\ \A c \in Clients : client[c].pc = "lock" ~> client[c].pc = "session"
    /\ \A u \in Users : user[u] = "lock" ~> user[u] = "using"
    /\ At("lock") ~> At("using")

\* module_stop comes to its end.
StopReturns == At("stop lock") ~> At("gone")

=============================================================================
