-------------------------- MODULE Sio2LockProofs --------------------------
(***************************************************************************)
(* For any number of libraries and of readers of files, whether or not the *)
(* mx4sio driver is unloaded: the SIO2 has at most one user at a time, if  *)
(* no library calls sio2man while the driver puts its functions in.        *)
(***************************************************************************)
EXTENDS Sio2Lock, FiniteSetTheorems, TLAPS

\* Most leaves are first-order. Those with arithmetic or records name Z3 and SMT,
\* two encodings, of which the second is tried where the first fails.
USE ZenonT(60)

\* No library is there before the driver, or those that are keep still.
NobodyCalls == Loaded = {} \/ Quiet

Semas == {"lock_sema", "lock_sema2", "own", "fs"}
ClientPcs == {"absent", "out", "lock", "own", "session", "lock2", "using", "unlock"}
UserPcs == {"out", "lock", "lock2", "using", "unlock", "fs unlock"}

\* the functions are being put in; the libraries call them; they are taken out
Starting == {"hook init", "take own", "hook transfer", "hook reset", "give own"}
Working == {"run", "lock", "lock2", "using", "unlock",
            "stop lock", "stop lock2", "disconnect", "stop unlock2", "stop unlock"}
Leaving == {"unhook init", "unhook transfer", "unhook reset", "delete", "gone"}

Hooked == [f \in Functions |-> TRUE]

Typed ==
    /\ sema \in [Semas -> {"free", "taken", "deleted"}]
    /\ exports \in [Functions -> BOOLEAN]
    /\ stub \in [Clients -> [Functions -> BOOLEAN]]
    /\ client \in [Clients -> [pc : ClientPcs, hooked : BOOLEAN]]
    /\ module \in [pc : Starting \cup Working \cup Leaving \cup {"relink"}, todo : SUBSET (Clients \X Functions)]
    /\ bd \in BOOLEAN
    /\ user \in [Users -> UserPcs]

\* sio2man's semaphore: one session at a time, none while the driver holds it
InSession(c) == client[c].pc \in {"session", "lock2", "using"}
OwnHeld ==
    /\ \A c \in Clients : InSession(c) => sema["own"] = "taken"
    /\ \A c, d \in Clients : InSession(c) /\ InSession(d) => c = d

\* the file system's lock: one reader at a time, and only from a card
FsHeld ==
    /\ \A u \in Users : user[u] # "out" => sema["fs"] = "taken" /\ bd
    /\ \A u, v \in Users : user[u] # "out" /\ user[v] # "out" => u = v
    /\ bd => module.pc \in {"run", "unlock", "stop lock", "stop lock2", "disconnect"}

\* the driver's semaphores are there until it is gone
Deleted ==
    /\ sema["own"] # "deleted" /\ sema["fs"] # "deleted"
    /\ sema["lock_sema2"] = "deleted" => At("gone")

\* lock_sema2: around every use of the SIO2 that goes through the driver
ClientHas(c) == client[c].pc = "using" /\ client[c].hooked
ModuleHas == module.pc \in {"using", "disconnect", "stop unlock2"}
Lock2Held ==
    ~At("gone") =>
       /\ \A c \in Clients : ClientHas(c) => sema["lock_sema2"] = "taken" /\ ~ModuleHas
       /\ \A u \in Users : user[u] = "using" => sema["lock_sema2"] = "taken" /\ ~ModuleHas
       /\ \A c \in Clients, u \in Users : ~(ClientHas(c) /\ user[u] = "using")
       /\ ModuleHas => sema["lock_sema2"] = "taken"

\* which functions the libraries call
Linked ==
    /\ module.pc \in Starting \/ (At("relink") /\ exports # Unhooked) =>
          \A c \in Clients : client[c].pc = "absent" \/ (client[c].pc = "out" /\ Quiet)
    /\ module.pc \in {"take own", "hook transfer", "hook reset", "give own"} => exports["init"]
    /\ module.pc \in {"hook reset", "give own"} => exports["transfer"]
    /\ At("give own") => exports["reset"]
    /\ At("unhook transfer") => ~exports["init"]
    /\ At("unhook reset") => ~exports["init"] /\ ~exports["transfer"]
    /\ At("relink") =>
          \/ exports = Unhooked
          \/ /\ exports = Hooked
             /\ \A c \in Clients, f \in Functions :
                   client[c].pc # "absent" => stub[c][f] \/ <<c, f>> \in module.todo
    /\ module.pc \in Working =>
          /\ exports = Hooked
          /\ \A c \in Clients : client[c].pc # "absent" => stub[c] = Hooked
          /\ \A c \in Clients : client[c].pc = "using" => client[c].hooked

IInv == Typed /\ OwnHeld /\ FsHeld /\ Deleted /\ Lock2Held /\ Linked

USE Sio2LockAssumption

-----------------------------------------------------------------------------
(* What a step changes *)

\* WaitSema takes a semaphore that is free; one that is deleted stays so.
LEMMA Waits ==
    ASSUME Typed, NEW s \in Semas, WaitSema(s)
    PROVE  /\ sema' \in [Semas -> {"free", "taken", "deleted"}]
           /\ \/ sema[s] = "free" /\ sema'[s] = "taken"
              \/ sema[s] = "deleted" /\ sema'[s] = "deleted"
           /\ \A r \in Semas : r # s => sema'[r] = sema[r]
<1>1. sema \in [Semas -> {"free", "taken", "deleted"}] /\ sema[s] # "taken"
  BY DEF Typed, WaitSema
<1>2. CASE sema[s] = "free"
  <2>1. sema' = [sema EXCEPT ![s] = "taken"]
    BY <1>2 DEF WaitSema
  <2> QED BY <1>1, <1>2, <2>1
<1>3. CASE sema[s] = "deleted"
  <2>1. sema' = [sema EXCEPT ![s] = sema[s]]
    BY <1>3 DEF WaitSema
  <2> QED BY <1>1, <1>3, <2>1
<1> QED BY <1>1, <1>2, <1>3

\* SignalSema gives a semaphore back.
LEMMA Signals ==
    ASSUME Typed, NEW s \in Semas, SignalSema(s)
    PROVE  /\ sema' \in [Semas -> {"free", "taken", "deleted"}]
           /\ sema'[s] = "deleted" <=> sema[s] = "deleted"
           /\ \A r \in Semas : r # s => sema'[r] = sema[r]
  BY DEF Typed, SignalSema

\* One library moves.
LEMMA ClientMoves ==
    ASSUME Typed, NEW c \in Clients, NEW pc \in ClientPcs, NEW h \in BOOLEAN, Goes(c, pc, h)
    PROVE  /\ client' \in [Clients -> [pc : ClientPcs, hooked : BOOLEAN]]
           /\ client'[c].pc = pc /\ client'[c].hooked = h
           /\ \A d \in Clients : d # c => client'[d] = client[d]
  BY DEF Typed, Goes

\* One reader of files moves.
LEMMA UserMoves ==
    ASSUME Typed, NEW u \in Users, NEW pc \in UserPcs, Moves(u, pc)
    PROVE  /\ user' \in [Users -> UserPcs] /\ user'[u] = pc
           /\ \A v \in Users : v # u => user'[v] = user[v]
  BY DEF Typed, Moves

\* The driver moves.
LEMMA ModuleMoves ==
    ASSUME Typed, NEW pc \in Starting \cup Working \cup Leaving \cup {"relink"}, Goto(pc)
    PROVE  /\ module' \in [pc : Starting \cup Working \cup Leaving \cup {"relink"}, todo : SUBSET (Clients \X Functions)]
           /\ module'.pc = pc /\ module'.todo = module.todo
  BY DEF Typed, Goto

\* The names of the semaphores.
LEMMA SemaNames == "lock_sema" \in Semas /\ "lock_sema2" \in Semas /\ "own" \in Semas /\ "fs" \in Semas
  BY DEF Semas

\* Where a thread can be.
LEMMA PcNames ==
    /\ \A p \in {"out", "lock", "own", "session", "lock2", "using", "unlock"} : p \in ClientPcs
    /\ \A p \in {"out", "lock", "lock2", "using", "unlock", "fs unlock"} : p \in UserPcs
  BY DEF ClientPcs, UserPcs

-----------------------------------------------------------------------------
(* The libraries *)

\* A library that moves outside its sessions, or between taking and giving
\* back nothing that the others see.
LEMMA ClientStep ==
    ASSUME IInv, NEW c \in Clients, Stays,
           client' \in [Clients -> [pc : ClientPcs, hooked : BOOLEAN]],
           sema' \in [Semas -> {"free", "taken", "deleted"}],
           \A d \in Clients : d # c => client'[d] = client[d],
           sema'["fs"] = sema["fs"],
           sema'["own"] # "deleted", sema'["lock_sema2"] = "deleted" <=> sema["lock_sema2"] = "deleted",
           \* sio2man's semaphore
           \/ sema'["own"] = sema["own"] /\ (client'[c].pc \in {"session", "lock2", "using"} => InSession(c))
           \/ sema["own"] = "free" /\ sema'["own"] = "taken"
           \/ InSession(c) /\ client'[c].pc \notin {"session", "lock2", "using"},
           \* lock_sema2
           \/ sema'["lock_sema2"] = sema["lock_sema2"] /\ ~(client'[c].pc = "using" /\ client'[c].hooked)
           \/ sema["lock_sema2"] = "free" /\ sema'["lock_sema2"] = "taken"
           \/ sema["lock_sema2"] = "deleted"
           \/ ClientHas(c) /\ client'[c].pc # "using",
           \* what it calls
           client[c].pc # "absent", client'[c].pc # "absent",
           client[c].pc = "out" => MayCall,
           client'[c].pc = "using" => client'[c].hooked \/ ~stub[c]["transfer"]
    PROVE  IInv'
<1>0. UNCHANGED <<exports, stub, module, bd, user>>
  BY DEF Stays
<1>1. Typed'
  BY <1>0 DEF IInv, Typed
<1>2. OwnHeld'
  BY DEF IInv, OwnHeld, InSession
<1>3. FsHeld'
  BY <1>0 DEF IInv, FsHeld
<1>4. Deleted'
  BY <1>0 DEF IInv, Deleted, At
<1>5. Lock2Held'
  <2>1. CASE At("gone")
    BY <1>0, <2>1 DEF Lock2Held, At
  <2>2. CASE ~At("gone")
    <3>1. Lock2Held /\ sema["lock_sema2"] # "deleted" /\ (InSession(c) => \A d \in Clients : InSession(d) => d = c)
      BY <2>2 DEF IInv, Deleted, OwnHeld
    <3> QED BY <1>0, <2>2, <3>1 DEF Lock2Held, ClientHas, ModuleHas, At, InSession
  <2> QED BY <2>1, <2>2
<1>6. Linked'
  <2>0. Linked
    BY DEF IInv
  <2>1. ASSUME module.pc \in Starting \/ (At("relink") /\ exports # Unhooked) PROVE FALSE
    <3>1. client[c].pc = "out" /\ Quiet
      BY <2>0, <2>1 DEF Linked
    <3>2. Settled
      BY <3>1 DEF MayCall
    <3> QED BY <2>1, <3>2 DEF Settled, Starting, At
  <2>2. ASSUME module.pc \in Working
        PROVE  /\ \A d \in Clients : client'[d].pc # "absent" => stub[d] = Hooked
               /\ \A d \in Clients : client'[d].pc = "using" => client'[d].hooked
    <3>1. \A d \in Clients : client'[d].pc # "absent" => client[d].pc # "absent"
      OBVIOUS
    <3>2. \A d \in Clients : client[d].pc # "absent" => stub[d] = Hooked
      BY <2>0, <2>2 DEF Linked
    <3>3. stub[c]["transfer"]
      BY <3>2 DEF Hooked, Functions
    <3>4. \A d \in Clients : client[d].pc = "using" => client[d].hooked
      BY <2>0, <2>2 DEF Linked
    <3> QED BY <3>1, <3>2, <3>3, <3>4
  <2>3. module.pc \notin Starting /\ (At("relink") => exports = Unhooked)
    BY <2>1
  <2> QED BY <1>0, <2>0, <2>2, <2>3 DEF Linked, At, Starting
<1> QED BY <1>1, <1>2, <1>3, <1>4, <1>5, <1>6 DEF IInv


\* A library is loaded when the functions are either all in or all out.
LEMMA LoadKeeps ==
    ASSUME IInv, NEW c \in Clients, Load(c)
    PROVE  IInv'
<1>0. client[c].pc = "absent" /\ Settled /\ UNCHANGED <<sema, exports, module, bd, user>>
  BY DEF Load
<1>1. /\ client' \in [Clients -> [pc : ClientPcs, hooked : BOOLEAN]]
      /\ client'[c].pc = "out" /\ \A d \in Clients : d # c => client'[d] = client[d]
  BY ClientMoves, PcNames DEF Load, IInv
<1>2. /\ stub' \in [Clients -> [Functions -> BOOLEAN]] /\ stub'[c] = exports
      /\ \A d \in Clients : d # c => stub'[d] = stub[d]
  BY DEF Load, IInv, Typed
<1>3. Typed'
  BY <1>0, <1>1, <1>2 DEF IInv, Typed
<1>4. OwnHeld'
  BY <1>0, <1>1 DEF IInv, OwnHeld, InSession
<1>5. FsHeld' /\ Deleted'
  BY <1>0 DEF IInv, FsHeld, Deleted, At
<1>6. Lock2Held'
  BY <1>0, <1>1 DEF IInv, Lock2Held, ClientHas, ModuleHas, At
<1>7. Linked'
  <2>1. Linked /\ module.pc \notin Starting /\ ~At("relink") /\ module.pc \notin {"unhook transfer", "unhook reset"}
    BY <1>0 DEF IInv, Settled, Starting, At
  <2>2. module.pc \in Working =>
          /\ exports = Hooked
          /\ \A d \in Clients : client'[d].pc # "absent" => stub'[d] = Hooked
          /\ \A d \in Clients : client'[d].pc = "using" => client'[d].hooked
    BY <1>1, <1>2, <2>1 DEF Linked
  <2> QED BY <1>0, <2>1, <2>2 DEF Linked, At, Starting
<1> QED BY <1>3, <1>4, <1>5, <1>6, <1>7 DEF IInv

\* The sessions of a library.
LEMMA SessionKeeps ==
    ASSUME IInv, NEW c \in Clients,
           \/ TransferInit(c) \/ InitLocks(c) \/ InitOwn(c) \/ Transfer(c)
           \/ TransferLocks(c) \/ TransferEnds(c) \/ TransferReset(c) \/ ResetUnlocks(c)
    PROVE  IInv'
<1>0. Typed /\ Deleted /\ Stays
  BY DEF IInv, TransferInit, InitLocks, InitOwn, Transfer, TransferLocks, TransferEnds, TransferReset,
         ResetUnlocks
<1>a. /\ stub[c]["init"] \in BOOLEAN /\ stub[c]["transfer"] \in BOOLEAN /\ stub[c]["reset"] \in BOOLEAN
      /\ sema \in [Semas -> {"free", "taken", "deleted"}]
  BY Z3T(20), SMTT(20), <1>0 DEF Typed, Functions
<1>b. sema["own"] # "deleted"
  BY <1>0 DEF Deleted
<1>1. CASE TransferInit(c)
  <2>1. /\ client' \in [Clients -> [pc : ClientPcs, hooked : BOOLEAN]]
        /\ client'[c].pc \in {"lock", "own"}
        /\ \A d \in Clients : d # c => client'[d] = client[d]
    BY <1>0, <1>a, <1>1, ClientMoves, PcNames DEF TransferInit
  <2>2. client[c].pc = "out" /\ MayCall /\ sema' = sema
    BY <1>1 DEF TransferInit
  <2> QED BY <1>0, <1>a, <1>b, <2>1, <2>2, ClientStep
<1>2. CASE InitLocks(c)
  <2>1. /\ client' \in [Clients -> [pc : ClientPcs, hooked : BOOLEAN]] /\ client'[c].pc = "own"
        /\ \A d \in Clients : d # c => client'[d] = client[d]
    BY <1>0, <1>2, ClientMoves, PcNames DEF InitLocks
  <2>2. /\ client[c].pc = "lock" /\ sema' \in [Semas -> {"free", "taken", "deleted"}]
        /\ sema'["own"] = sema["own"] /\ sema'["lock_sema2"] = sema["lock_sema2"] /\ sema'["fs"] = sema["fs"]
    BY Z3T(20), SMTT(20), <1>0, <1>2, Waits, SemaNames DEF InitLocks
  <2> QED BY <1>0, <1>b, <2>1, <2>2, ClientStep
<1>3. CASE InitOwn(c)
  <2>1. /\ client' \in [Clients -> [pc : ClientPcs, hooked : BOOLEAN]] /\ client'[c].pc = "session"
        /\ \A d \in Clients : d # c => client'[d] = client[d]
    BY <1>0, <1>3, ClientMoves, PcNames DEF InitOwn
  <2>2. /\ client[c].pc = "own" /\ sema' \in [Semas -> {"free", "taken", "deleted"}]
        /\ sema["own"] = "free" /\ sema'["own"] = "taken"
        /\ sema'["lock_sema2"] = sema["lock_sema2"] /\ sema'["fs"] = sema["fs"]
    BY <1>0, <1>b, <1>3, Waits, SemaNames DEF InitOwn
  <2> QED BY <1>0, <2>1, <2>2, ClientStep
<1>4. CASE Transfer(c)
  <2>1. /\ client' \in [Clients -> [pc : ClientPcs, hooked : BOOLEAN]]
        /\ \A d \in Clients : d # c => client'[d] = client[d]
        /\ \/ client'[c].pc = "lock2"
           \/ client'[c].pc = "using" /\ ~stub[c]["transfer"] /\ ~client'[c].hooked
    <3>1. CASE stub[c]["transfer"]
      BY <1>0, <1>a, <1>4, <3>1, ClientMoves, PcNames DEF Transfer
    <3>2. CASE ~stub[c]["transfer"]
      <4>1. Goes(c, "using", FALSE)
        BY <1>a, <1>4, <3>2 DEF Transfer
      <4> QED BY <1>0, <3>2, <4>1, ClientMoves, PcNames
    <3> QED BY <3>1, <3>2
  <2>2. client[c].pc = "session" /\ sema' = sema
    BY <1>4 DEF Transfer
  <2> QED BY <1>0, <1>a, <1>b, <2>1, <2>2, ClientStep DEF InSession
<1>5. CASE TransferLocks(c)
  <2>1. /\ client' \in [Clients -> [pc : ClientPcs, hooked : BOOLEAN]] /\ client'[c].pc = "using"
        /\ client'[c].hooked /\ \A d \in Clients : d # c => client'[d] = client[d]
    BY <1>0, <1>5, ClientMoves, PcNames DEF TransferLocks
  <2>2. /\ client[c].pc = "lock2" /\ sema' \in [Semas -> {"free", "taken", "deleted"}]
        /\ \/ sema["lock_sema2"] = "free" /\ sema'["lock_sema2"] = "taken"
           \/ sema["lock_sema2"] = "deleted" /\ sema'["lock_sema2"] = "deleted"
        /\ sema'["own"] = sema["own"] /\ sema'["fs"] = sema["fs"]
    BY Z3T(20), SMTT(20), <1>0, <1>5, Waits, SemaNames DEF TransferLocks
  <2> QED BY <1>0, <1>b, <2>1, <2>2, ClientStep DEF InSession
<1>6. CASE TransferEnds(c)
  <2>1. /\ client' \in [Clients -> [pc : ClientPcs, hooked : BOOLEAN]] /\ client'[c].pc = "session"
        /\ \A d \in Clients : d # c => client'[d] = client[d]
    BY <1>0, <1>6, ClientMoves, PcNames DEF TransferEnds
  <2>2. client[c].pc = "using"
    BY <1>6 DEF TransferEnds
  <2>3. CASE client[c].hooked
    <3>1. /\ sema' \in [Semas -> {"free", "taken", "deleted"}]
          /\ sema'["lock_sema2"] = "deleted" <=> sema["lock_sema2"] = "deleted"
          /\ sema'["own"] = sema["own"] /\ sema'["fs"] = sema["fs"]
      BY <1>0, <1>6, <2>3, Signals, SemaNames DEF TransferEnds
    <3> QED BY <1>0, <1>b, <2>1, <2>2, <2>3, <3>1, ClientStep DEF InSession, ClientHas
  <2>4. CASE ~client[c].hooked
    <3>1. sema' = sema
      BY <1>6, <2>4 DEF TransferEnds
    <3> QED BY <1>0, <1>a, <1>b, <2>1, <2>2, <3>1, ClientStep DEF InSession
  <2> QED BY <2>3, <2>4
<1>7. CASE TransferReset(c)
  <2>1. /\ client' \in [Clients -> [pc : ClientPcs, hooked : BOOLEAN]]
        /\ client'[c].pc \in {"unlock", "out"} /\ \A d \in Clients : d # c => client'[d] = client[d]
    BY <1>0, <1>a, <1>7, ClientMoves, PcNames DEF TransferReset
  <2>2. /\ client[c].pc = "session" /\ sema' \in [Semas -> {"free", "taken", "deleted"}]
        /\ sema'["own"] # "deleted"
        /\ sema'["lock_sema2"] = sema["lock_sema2"] /\ sema'["fs"] = sema["fs"]
    BY <1>0, <1>b, <1>7, Signals, SemaNames DEF TransferReset
  <2> QED BY <1>0, <2>1, <2>2, ClientStep DEF InSession
<1>8. CASE ResetUnlocks(c)
  <2>1. /\ client' \in [Clients -> [pc : ClientPcs, hooked : BOOLEAN]] /\ client'[c].pc = "out"
        /\ \A d \in Clients : d # c => client'[d] = client[d]
    BY <1>0, <1>8, ClientMoves, PcNames DEF ResetUnlocks
  <2>2. /\ client[c].pc = "unlock" /\ sema' \in [Semas -> {"free", "taken", "deleted"}]
        /\ sema'["own"] = sema["own"] /\ sema'["lock_sema2"] = sema["lock_sema2"] /\ sema'["fs"] = sema["fs"]
    BY <1>0, <1>8, Signals, SemaNames DEF ResetUnlocks
  <2> QED BY <1>0, <1>b, <2>1, <2>2, ClientStep
<1> QED BY <1>1, <1>2, <1>3, <1>4, <1>5, <1>6, <1>7, <1>8


-----------------------------------------------------------------------------
(* The driver *)

\* What a step of the driver has to keep when no library and no reader moves.
LEMMA DriverStep ==
    ASSUME IInv, UNCHANGED <<client, user>>, Typed', Linked',
           ~At("gone"),
           sema'["fs"] = sema["fs"],
           bd' => bd \/ \A u \in Users : user[u] = "out",
           bd => bd' \/ \A u \in Users : user[u] = "out",
           bd' => module'.pc \in {"run", "unlock", "stop lock", "stop lock2", "disconnect"},
           \/ sema'["own"] = sema["own"]
           \/ sema'["own"] # "deleted" /\ \A c \in Clients : ~InSession(c),
           \/ sema'["lock_sema2"] = sema["lock_sema2"] /\ (ModuleHas' => ModuleHas)
           \/ sema["lock_sema2"] = "free" /\ sema'["lock_sema2"] = "taken"
           \/ ModuleHas /\ ~ModuleHas' /\ sema'["lock_sema2"] # "deleted"
           \/ module'.pc = "gone"
    PROVE  IInv'
<1>0. OwnHeld /\ FsHeld /\ Deleted /\ Lock2Held
  BY DEF IInv
<1>1. OwnHeld'
  BY <1>0 DEF OwnHeld, InSession
<1>2. FsHeld'
  BY <1>0 DEF FsHeld
<1>3. Deleted'
  <2>1. sema["lock_sema2"] # "deleted"
    BY <1>0 DEF Deleted
  <2> QED BY <1>0, <2>1 DEF Deleted, At
<1>4. Lock2Held'
  BY <1>0 DEF Lock2Held, At, ClientHas, ModuleHas
<1> QED BY <1>1, <1>2, <1>3, <1>4 DEF IInv

\* Its functions are put in before any library calls them.
LEMMA HookKeeps ==
    ASSUME IInv, HookInit \/ TakeOwn \/ HookTransfer \/ HookReset \/ GiveOwn
    PROVE  IInv'
<1>0. /\ UNCHANGED <<stub, client, bd, user>> /\ module.pc \in Starting
      /\ Typed /\ Deleted /\ Linked /\ FsHeld
  BY DEF HookInit, TakeOwn, HookTransfer, HookReset, GiveOwn, At, Starting, IInv
<1>1. \A c \in Clients : client[c].pc = "absent" \/ (client[c].pc = "out" /\ Quiet)
  BY <1>0 DEF Linked
<1>2. \A c \in Clients : ~InSession(c)
  BY <1>1 DEF InSession
<1>3. ~bd /\ \A u \in Users : user[u] = "out"
  BY <1>0 DEF FsHeld, Starting
<1>4. /\ exports \in [Functions -> BOOLEAN] /\ "init" \in Functions /\ "transfer" \in Functions
      /\ "reset" \in Functions /\ \A f \in Functions : f = "init" \/ f = "transfer" \/ f = "reset"
  BY <1>0 DEF Typed, Functions
<1>5. \A p \in Starting : p \in Starting \cup Working \cup Leaving \cup {"relink"}
  OBVIOUS
<1>6. ASSUME Typed', sema'["fs"] = sema["fs"], sema'["lock_sema2"] = sema["lock_sema2"],
             sema'["own"] # "deleted", Linked', module'.pc \in Starting \cup {"relink"}
      PROVE  IInv'
  <2>1. ~At("gone") /\ ~ModuleHas'
    BY <1>0, <1>6 DEF At, ModuleHas, Starting
  <2> QED BY <1>0, <1>2, <1>3, <1>6, <2>1, DriverStep
<1>7. sema["own"] # "deleted" /\ sema \in [Semas -> {"free", "taken", "deleted"}]
  BY <1>0 DEF Deleted, Typed
<1>8. CASE HookInit
  <2>1. /\ module' \in [pc : Starting \cup Working \cup Leaving \cup {"relink"}, todo : SUBSET (Clients \X Functions)]
        /\ module'.pc = "take own"
    BY <1>0, <1>8, ModuleMoves DEF HookInit, Starting
  <2>2. sema' = sema /\ exports' \in [Functions -> BOOLEAN] /\ exports'["init"]
    BY <1>4, <1>8 DEF HookInit, Patch
  <2>3. Typed'
    BY <1>0, <2>1, <2>2 DEF Typed
  <2>4. Linked'
    BY <1>0, <1>1, <2>1, <2>2 DEF Linked, At, Working
  <2> QED BY <1>6, <1>7, <2>1, <2>2, <2>3, <2>4 DEF Starting
<1>9. CASE TakeOwn
  <2>1. /\ module' \in [pc : Starting \cup Working \cup Leaving \cup {"relink"}, todo : SUBSET (Clients \X Functions)]
        /\ module'.pc = "hook transfer" /\ module.pc = "take own" /\ exports' = exports
    BY <1>0, <1>9, ModuleMoves DEF TakeOwn, At, Starting
  <2>2. /\ sema' \in [Semas -> {"free", "taken", "deleted"}] /\ sema'["own"] # "deleted"
        /\ sema'["lock_sema2"] = sema["lock_sema2"] /\ sema'["fs"] = sema["fs"]
    BY <1>0, <1>7, <1>9, Waits, SemaNames DEF TakeOwn
  <2>3. Typed'
    BY <1>0, <2>1, <2>2 DEF Typed
  <2>4. Linked'
    BY <1>0, <1>1, <2>1 DEF Linked, At, Working
  <2> QED BY <1>6, <2>1, <2>2, <2>3, <2>4 DEF Starting
<1>10. CASE HookTransfer
  <2>1. /\ module' \in [pc : Starting \cup Working \cup Leaving \cup {"relink"}, todo : SUBSET (Clients \X Functions)]
        /\ module'.pc = "hook reset" /\ module.pc = "hook transfer"
    BY <1>0, <1>10, ModuleMoves DEF HookTransfer, At, Starting
  <2>2. /\ sema' = sema /\ exports' \in [Functions -> BOOLEAN] /\ exports'["transfer"]
        /\ exports'["init"] = exports["init"]
    BY <1>4, <1>10 DEF HookTransfer, Patch
  <2>3. Typed'
    BY <1>0, <2>1, <2>2 DEF Typed
  <2>4. Linked'
    BY <1>0, <1>1, <2>1, <2>2 DEF Linked, At, Working
  <2> QED BY <1>6, <1>7, <2>1, <2>2, <2>3, <2>4 DEF Starting
<1>11. CASE HookReset
  <2>1. /\ module' \in [pc : Starting \cup Working \cup Leaving \cup {"relink"}, todo : SUBSET (Clients \X Functions)]
        /\ module'.pc = "give own" /\ module.pc = "hook reset"
    BY <1>0, <1>11, ModuleMoves DEF HookReset, At, Starting
  <2>2. /\ sema' = sema /\ exports' \in [Functions -> BOOLEAN] /\ exports'["reset"]
        /\ exports'["init"] = exports["init"] /\ exports'["transfer"] = exports["transfer"]
    BY <1>4, <1>11 DEF HookReset, Patch
  <2>3. Typed'
    BY <1>0, <2>1, <2>2 DEF Typed
  <2>4. Linked'
    BY <1>0, <1>1, <2>1, <2>2 DEF Linked, At, Working
  <2> QED BY <1>6, <1>7, <2>1, <2>2, <2>3, <2>4 DEF Starting
<1>12. CASE GiveOwn
  <2>0. Stubs \in SUBSET (Clients \X Functions)
    BY DEF Stubs
  <2>1. /\ module' \in [pc : Starting \cup Working \cup Leaving \cup {"relink"}, todo : SUBSET (Clients \X Functions)]
        /\ module'.pc = "relink" /\ module'.todo = Stubs /\ module.pc = "give own" /\ exports' = exports
    BY <1>12, <2>0 DEF GiveOwn, At
  <2>2. /\ sema' \in [Semas -> {"free", "taken", "deleted"}] /\ sema'["own"] # "deleted"
        /\ sema'["lock_sema2"] = sema["lock_sema2"] /\ sema'["fs"] = sema["fs"]
    BY <1>0, <1>7, <1>12, Signals, SemaNames DEF GiveOwn
  <2>3. Typed'
    BY <1>0, <2>1, <2>2 DEF Typed
  <2>4. exports = Hooked
    <3>1. exports["init"] /\ exports["transfer"] /\ exports["reset"]
      BY <1>0, <2>1 DEF Linked, At
    <3>2. \A f \in Functions : exports[f] = TRUE
      BY <1>4, <3>1
    <3> QED BY <1>4, <3>2 DEF Hooked
  <2>5. \A c \in Clients, f \in Functions : client[c].pc # "absent" => <<c, f>> \in Stubs
    BY DEF Stubs
  <2>6. Linked'
    BY <1>0, <1>1, <2>1, <2>4, <2>5 DEF Linked, At, Working, Starting
  <2> QED BY <1>6, <2>1, <2>2, <2>3, <2>6
<1> QED BY <1>8, <1>9, <1>10, <1>11, <1>12

\* The stubs are patched one by one; all of them are when the driver runs.
LEMMA RelinkKeeps ==
    ASSUME IInv, Relink
    PROVE  IInv'
<1>0. /\ UNCHANGED <<sema, exports, client, bd, user>> /\ module.pc = "relink"
      /\ Typed /\ Linked /\ FsHeld
  BY DEF Relink, At, IInv
<1>1. ~bd /\ ~ModuleHas /\ ~At("gone")
  BY <1>0 DEF FsHeld, ModuleHas, At
<1>2. ASSUME Typed', Linked', module'.pc \in {"relink", "delete", "run"} PROVE IInv'
  <2>1. ~ModuleHas'
    BY <1>2 DEF ModuleHas
  <2> QED BY <1>0, <1>1, <1>2, <2>1, DriverStep
<1>t. /\ stub \in [Clients -> [Functions -> BOOLEAN]] /\ exports \in [Functions -> BOOLEAN]
      /\ module \in [pc : Starting \cup Working \cup Leaving \cup {"relink"}, todo : SUBSET (Clients \X Functions)]
  BY <1>0 DEF Typed
<1>l. \/ exports = Unhooked
      \/ /\ exports = Hooked /\ exports # Unhooked
         /\ \A c \in Clients : client[c].pc = "absent" \/ (client[c].pc = "out" /\ Quiet)
         /\ \A c \in Clients, f \in Functions : client[c].pc # "absent" => stub[c][f] \/ <<c, f>> \in module.todo
  BY <1>0 DEF Linked, At
<1>3. ASSUME NEW s \in module.todo, stub' = [stub EXCEPT ![s[1]][s[2]] = exports[s[2]]],
             module' = [module EXCEPT !.todo = @ \ {s}]
      PROVE  IInv'
  <2>1. PICK e \in Clients, g \in Functions : s = <<e, g>>
    BY Z3T(20), SMTT(20), <1>t, <1>3
  <2>2. stub' = [stub EXCEPT ![e] = [stub[e] EXCEPT ![g] = exports[g]]]
    BY <1>3, <2>1
  <2>3. /\ module' \in [pc : Starting \cup Working \cup Leaving \cup {"relink"}, todo : SUBSET (Clients \X Functions)]
        /\ module'.pc = "relink" /\ module'.todo = module.todo \ {s}
    BY <1>0, <1>t, <1>3
  <2>4. stub' \in [Clients -> [Functions -> BOOLEAN]]
    BY <1>t, <2>2
  <2>5. Typed'
    BY <1>0, <2>3, <2>4 DEF Typed
  <2>6. \A c \in Clients, f \in Functions : stub'[c][f] = IF c = e /\ f = g THEN exports[g] ELSE stub[c][f]
    BY <1>t, <2>2
  <2>7. ASSUME exports = Hooked, exports # Unhooked, NEW c \in Clients, NEW f \in Functions, client[c].pc # "absent"
        PROVE  stub'[c][f] \/ <<c, f>> \in module'.todo
    <3>1. CASE c = e /\ f = g
      BY <2>6, <2>7, <3>1 DEF Hooked
    <3>2. CASE ~(c = e /\ f = g)
      <4>1. stub'[c][f] = stub[c][f] /\ <<c, f>> # s
        BY <2>1, <2>6, <3>2
      <4>2. stub[c][f] \/ <<c, f>> \in module.todo
        BY <1>l, <2>7
      <4> QED BY <2>3, <4>1, <4>2
    <3> QED BY <3>1, <3>2
  <2>8. Linked'
    BY <1>0, <1>l, <2>3, <2>7 DEF Linked, At, Working, Starting
  <2> QED BY <1>2, <2>3, <2>5, <2>8
<1>4. CASE /\ module.todo = {} /\ UNCHANGED stub
           /\ Goto(IF exports = Unhooked THEN "delete" ELSE "run")
  <2>1. CASE exports = Unhooked
    <3>1. /\ module' \in [pc : Starting \cup Working \cup Leaving \cup {"relink"}, todo : SUBSET (Clients \X Functions)]
          /\ module'.pc = "delete"
      BY <1>0, <1>4, <2>1, ModuleMoves DEF Leaving
    <3>2. Typed'
      BY <1>0, <1>4, <3>1 DEF Typed
    <3>3. Linked'
      BY <3>1 DEF Linked, At, Working, Starting
    <3> QED BY <1>2, <3>1, <3>2, <3>3
  <2>2. CASE exports # Unhooked
    <3>1. /\ module' \in [pc : Starting \cup Working \cup Leaving \cup {"relink"}, todo : SUBSET (Clients \X Functions)]
          /\ module'.pc = "run"
      BY <1>0, <1>4, <2>2, ModuleMoves DEF Working
    <3>2. Typed'
      BY <1>0, <1>4, <3>1 DEF Typed
    <3>3. ASSUME NEW c \in Clients, client[c].pc # "absent" PROVE stub[c] = Hooked
      <4>1. \A f \in Functions : stub[c][f] = TRUE
        BY <1>l, <1>t, <1>4, <2>2, <3>3
      <4> QED BY <1>t, <4>1 DEF Hooked
    <3>4. \A c \in Clients : client[c].pc # "using"
      BY <1>l, <2>2
    <3>5. Linked'
      BY <1>0, <1>l, <1>4, <2>2, <3>1, <3>3, <3>4 DEF Linked, At, Starting
    <3> QED BY <1>2, <3>1, <3>2, <3>5
  <2> QED BY <2>1, <2>2
<1> QED BY <1>3, <1>4 DEF Relink


\* The driver at work leaves the functions alone.
LEMMA WorkLinked ==
    ASSUME Linked, module.pc \in Working, UNCHANGED <<exports, stub, client>>,
           module'.pc \in Working \cup {"unhook init"}
    PROVE  Linked'
<1>1. /\ exports = Hooked
      /\ \A c \in Clients : client[c].pc # "absent" => stub[c] = Hooked
      /\ \A c \in Clients : client[c].pc = "using" => client[c].hooked
  BY DEF Linked
<1>2. module'.pc \notin Starting \cup {"relink", "unhook transfer", "unhook reset"}
  BY DEF Working, Starting
<1> QED BY <1>1, <1>2 DEF Linked, At, Starting

\* The search for the card, and what module_stop does before it takes the
\* functions out.
LEMMA WorkKeeps ==
    ASSUME IInv,
           \/ Detect \/ DetectLocks \/ Detected \/ DetectUnlocks
           \/ ModuleStop \/ StopLocks \/ Disconnect \/ StopUnlocks
    PROVE  IInv'
<1>0. /\ UNCHANGED <<exports, stub, client, user>> /\ module.pc \in Working
      /\ Typed /\ Deleted /\ Linked /\ FsHeld
  BY DEF Detect, DetectLocks, Detected, DetectUnlocks, ModuleStop, StopLocks, Disconnect, StopUnlocks,
         At, Working, IInv
<1>1. ~At("gone") /\ sema["lock_sema2"] # "deleted" /\ sema["own"] # "deleted"
  BY <1>0 DEF At, Working, Deleted
<1>2. ~bd => \A u \in Users : user[u] = "out"
  BY <1>0 DEF FsHeld
<1>3. \A p \in Working \cup {"unhook init"} : p \in Starting \cup Working \cup Leaving \cup {"relink"}
  BY DEF Leaving
<1>4. ASSUME NEW p \in Working \cup {"unhook init"}, Goto(p), bd' \in BOOLEAN,
             sema' \in [Semas -> {"free", "taken", "deleted"}]
      PROVE  module'.pc = p /\ Typed' /\ Linked'
  <2>1. /\ module' \in [pc : Starting \cup Working \cup Leaving \cup {"relink"}, todo : SUBSET (Clients \X Functions)]
        /\ module'.pc = p
    BY <1>0, <1>3, <1>4, ModuleMoves
  <2>2. Typed'
    BY <1>0, <1>4, <2>1 DEF Typed
  <2> QED BY <1>0, <2>1, <2>2, WorkLinked
<1>5. ASSUME NEW p \in Working \cup {"unhook init"}, Goto(p), bd' = bd, sema' = sema,
             bd => p \in {"run", "unlock", "stop lock", "stop lock2", "disconnect"},
             p \notin {"using", "disconnect", "stop unlock2"}
      PROVE  IInv'
  <2>1. module'.pc = p /\ Typed' /\ Linked'
    BY <1>0, <1>4, <1>5 DEF Typed
  <2>2. ~ModuleHas'
    BY <1>5, <2>1 DEF ModuleHas
  <2> QED BY <1>0, <1>1, <1>5, <2>1, <2>2, DriverStep
<1>b. bd \in BOOLEAN /\ sema \in [Semas -> {"free", "taken", "deleted"}]
  BY <1>0 DEF Typed
<1>6. ASSUME NEW p \in Working \cup {"unhook init"}, Goto(p), bd' = bd,
             WaitSema("lock_sema") \/ SignalSema("lock_sema"),
             bd => p \in {"run", "unlock", "stop lock", "stop lock2", "disconnect"},
             p \notin {"using", "disconnect", "stop unlock2"}
      PROVE  IInv'
  <2>1. /\ sema' \in [Semas -> {"free", "taken", "deleted"}] /\ sema'["own"] = sema["own"]
        /\ sema'["lock_sema2"] = sema["lock_sema2"] /\ sema'["fs"] = sema["fs"]
    <3>1. CASE WaitSema("lock_sema")
      BY <1>0, <3>1, Waits, SemaNames
    <3>2. CASE SignalSema("lock_sema")
      BY <1>0, <3>2, Signals, SemaNames
    <3> QED BY <1>6, <3>1, <3>2
  <2>2. module'.pc = p /\ Typed' /\ Linked'
    BY <1>b, <1>4, <1>6, <2>1
  <2>3. ~ModuleHas'
    BY <1>6, <2>2 DEF ModuleHas
  <2> QED BY <1>0, <1>1, <1>6, <2>1, <2>2, <2>3, DriverStep
<1>7. ASSUME NEW p \in Working, Goto(p), bd' = bd, WaitSema("lock_sema2"),
             bd => p \in {"run", "unlock", "stop lock", "stop lock2", "disconnect"}
      PROVE  IInv'
  <2>1. /\ sema' \in [Semas -> {"free", "taken", "deleted"}] /\ sema'["own"] = sema["own"]
        /\ sema["lock_sema2"] = "free" /\ sema'["lock_sema2"] = "taken" /\ sema'["fs"] = sema["fs"]
    BY <1>0, <1>1, <1>7, Waits, SemaNames
  <2>2. module'.pc = p /\ Typed' /\ Linked'
    BY <1>b, <1>4, <1>7, <2>1
  <2> QED BY <1>0, <1>1, <1>7, <2>1, <2>2, DriverStep
<1>8. ASSUME NEW p \in Working, Goto(p), bd' \in BOOLEAN, SignalSema("lock_sema2"), ModuleHas,
             p \in {"unlock", "stop unlock"}, ~bd, bd' => p = "unlock"
      PROVE  IInv'
  <2>1. /\ sema' \in [Semas -> {"free", "taken", "deleted"}] /\ sema'["own"] = sema["own"]
        /\ sema'["lock_sema2"] # "deleted" /\ sema'["fs"] = sema["fs"]
    BY <1>0, <1>1, <1>8, Signals, SemaNames
  <2>2. module'.pc = p /\ Typed' /\ Linked'
    BY <1>4, <1>8, <2>1
  <2>3. ~ModuleHas'
    BY <1>8, <2>2 DEF ModuleHas
  <2> QED BY <1>0, <1>1, <1>2, <1>8, <2>1, <2>2, <2>3, DriverStep
<1>9. \A p \in {"run", "lock", "lock2", "using", "unlock", "stop lock", "stop lock2", "disconnect",
                "stop unlock2", "stop unlock"} : p \in Working
  BY DEF Working
<1>10. CASE Detect
  BY <1>5, <1>9, <1>10 DEF Detect
<1>11. CASE DetectLocks
  <2>1. ~bd /\ bd' = bd
    BY <1>0, <1>11 DEF DetectLocks, At, FsHeld
  <2>2. CASE At("lock") /\ WaitSema("lock_sema") /\ Goto("lock2")
    BY <1>6, <1>9, <2>1, <2>2
  <2>3. CASE At("lock2") /\ WaitSema("lock_sema2") /\ Goto("using")
    BY <1>7, <1>9, <2>1, <2>3
  <2> QED BY <1>11, <2>2, <2>3 DEF DetectLocks
<1>12. CASE Detected
  <2>1. ~bd /\ ModuleHas
    BY <1>0, <1>12 DEF Detected, At, FsHeld, ModuleHas
  <2> QED BY <1>8, <1>9, <1>12, <2>1 DEF Detected
<1>13. CASE DetectUnlocks
  BY <1>6, <1>9, <1>13 DEF DetectUnlocks
<1>14. CASE ModuleStop
  <2>1. CASE bd
    BY <1>5, <1>9, <1>14, <2>1 DEF ModuleStop
  <2>2. CASE ~bd
    BY <1>5, <1>14, <2>2 DEF ModuleStop
  <2> QED BY <2>1, <2>2
<1>15. CASE StopLocks
  <2>1. CASE At("stop lock") /\ WaitSema("lock_sema") /\ Goto("stop lock2")
    BY <1>6, <1>9, <1>15, <2>1 DEF StopLocks
  <2>2. CASE At("stop lock2") /\ WaitSema("lock_sema2") /\ Goto("disconnect")
    BY <1>7, <1>9, <1>15, <2>2 DEF StopLocks
  <2> QED BY <1>15, <2>1, <2>2 DEF StopLocks
<1>16. CASE Disconnect
  <2>1. Goto("stop unlock2") /\ bd' = FALSE /\ sema' = sema /\ sema["fs"] = "free" /\ ModuleHas
    BY <1>16 DEF Disconnect, ModuleHas, At
  <2>2. \A u \in Users : user[u] = "out"
    BY <1>0, <2>1 DEF FsHeld
  <2>3. module'.pc = "stop unlock2" /\ Typed' /\ Linked'
    BY <1>4, <1>9, <1>b, <2>1
  <2> QED BY <1>0, <1>1, <2>1, <2>2, <2>3, DriverStep
<1>17. CASE StopUnlocks
  <2>1. ~bd /\ bd' = bd
    BY <1>0, <1>17 DEF StopUnlocks, At, FsHeld
  <2>2. CASE At("stop unlock2") /\ SignalSema("lock_sema2") /\ Goto("stop unlock")
    BY <1>8, <1>9, <1>b, <2>1, <2>2 DEF At, ModuleHas
  <2>3. CASE At("stop unlock") /\ SignalSema("lock_sema") /\ Goto("unhook init")
    BY <1>6, <2>1, <2>3
  <2> QED BY <1>17, <2>2, <2>3 DEF StopUnlocks
<1> QED BY <1>10, <1>11, <1>12, <1>13, <1>14, <1>15, <1>16, <1>17

\* The driver takes its functions out and leaves the memory.
LEMMA LeaveKeeps ==
    ASSUME IInv, Unhook \/ Delete
    PROVE  IInv'
<1>0. /\ UNCHANGED <<stub, client, bd, user>> /\ module.pc \in Leaving /\ ~At("gone")
      /\ Typed /\ Deleted /\ Linked /\ FsHeld
  BY DEF Unhook, Delete, At, Leaving, IInv
<1>1. ~bd /\ ~ModuleHas /\ sema["own"] # "deleted"
  BY <1>0 DEF FsHeld, ModuleHas, Leaving, Deleted
<1>2. /\ exports \in [Functions -> BOOLEAN] /\ "init" \in Functions /\ "transfer" \in Functions
      /\ "reset" \in Functions /\ \A f \in Functions : f = "init" \/ f = "transfer" \/ f = "reset"
  BY <1>0 DEF Typed, Functions
<1>3. ASSUME Typed', Linked', sema' = sema, module'.pc \in {"unhook transfer", "unhook reset", "relink"}
      PROVE  IInv'
  <2>1. ~ModuleHas'
    BY <1>3 DEF ModuleHas
  <2> QED BY <1>0, <1>1, <1>3, <2>1, DriverStep
<1>4. CASE At("unhook init") /\ Patch("init", FALSE) /\ Goto("unhook transfer") /\ sema' = sema
  <2>1. /\ module' \in [pc : Starting \cup Working \cup Leaving \cup {"relink"}, todo : SUBSET (Clients \X Functions)]
        /\ module'.pc = "unhook transfer"
    BY <1>0, <1>4, ModuleMoves DEF Leaving
  <2>2. exports' \in [Functions -> BOOLEAN] /\ ~exports'["init"]
    BY <1>2, <1>4 DEF Patch
  <2>3. Typed'
    BY <1>0, <1>4, <2>1, <2>2 DEF Typed
  <2>4. Linked'
    BY <2>1, <2>2 DEF Linked, At, Working, Starting
  <2> QED BY <1>3, <1>4, <2>1, <2>3, <2>4
<1>5. CASE At("unhook transfer") /\ Patch("transfer", FALSE) /\ Goto("unhook reset") /\ sema' = sema
  <2>1. /\ module' \in [pc : Starting \cup Working \cup Leaving \cup {"relink"}, todo : SUBSET (Clients \X Functions)]
        /\ module'.pc = "unhook reset"
    BY <1>0, <1>5, ModuleMoves DEF Leaving
  <2>2. exports' \in [Functions -> BOOLEAN] /\ ~exports'["transfer"] /\ exports'["init"] = exports["init"]
    BY <1>2, <1>5 DEF Patch
  <2>5. ~exports["init"]
    BY <1>0, <1>5 DEF Linked
  <2>3. Typed'
    BY <1>0, <1>5, <2>1, <2>2 DEF Typed
  <2>4. Linked'
    BY <2>1, <2>2, <2>5 DEF Linked, At, Working, Starting
  <2> QED BY <1>3, <1>5, <2>1, <2>3, <2>4
<1>6. CASE At("unhook reset") /\ Patch("reset", FALSE) /\ module' = [pc |-> "relink", todo |-> Stubs] /\ sema' = sema
  <2>0. Stubs \in SUBSET (Clients \X Functions)
    BY DEF Stubs
  <2>1. /\ module' \in [pc : Starting \cup Working \cup Leaving \cup {"relink"}, todo : SUBSET (Clients \X Functions)]
        /\ module'.pc = "relink"
    BY <1>6, <2>0
  <2>2. /\ exports' \in [Functions -> BOOLEAN] /\ exports'["reset"] = FALSE
        /\ exports'["init"] = exports["init"] /\ exports'["transfer"] = exports["transfer"]
    BY <1>2, <1>6 DEF Patch
  <2>3. exports["init"] = FALSE /\ exports["transfer"] = FALSE
    BY <1>0, <1>2, <1>6 DEF Linked
  <2>4. exports' = Unhooked
    <3>1. \A f \in Functions : exports'[f] = FALSE
      BY <1>2, <2>2, <2>3
    <3> QED BY <2>2, <3>1 DEF Unhooked
  <2>5. Typed'
    BY <1>0, <1>6, <2>1, <2>2 DEF Typed
  <2>6. Linked'
    BY <2>1, <2>4 DEF Linked, At, Working, Starting
  <2> QED BY <1>3, <1>6, <2>1, <2>5, <2>6
<1>7. CASE Delete
  <2>1. /\ module' \in [pc : Starting \cup Working \cup Leaving \cup {"relink"}, todo : SUBSET (Clients \X Functions)]
        /\ module'.pc = "gone" /\ exports' = exports
    BY <1>0, <1>7, ModuleMoves DEF Delete, Leaving
  <2>2. /\ sema' \in [Semas -> {"free", "taken", "deleted"}]
        /\ sema'["own"] = sema["own"] /\ sema'["fs"] = sema["fs"]
    BY <1>0, <1>7, SemaNames DEF Delete, Typed
  <2>3. Typed'
    BY <1>0, <2>1, <2>2 DEF Typed
  <2>4. Linked'
    BY <2>1 DEF Linked, At, Working, Starting
  <2> QED BY <1>0, <1>1, <2>1, <2>2, <2>3, <2>4, DriverStep
<1> QED BY <1>4, <1>5, <1>6, <1>7 DEF Unhook

-----------------------------------------------------------------------------
(* The readers of files *)

\* A reader takes the file system's lock, then the two semaphores.
LEMMA UserKeeps ==
    ASSUME IInv, NEW u \in Users, Read(u) \/ ReadLocks(u) \/ ReadEnds(u)
    PROVE  IInv'
<1>0. /\ UNCHANGED <<exports, stub, client, module, bd>>
      /\ Typed /\ Deleted /\ Linked /\ FsHeld /\ OwnHeld /\ Lock2Held
  BY DEF Read, ReadLocks, ReadEnds, Others, IInv
<1>1. bd /\ module.pc \in {"run", "unlock", "stop lock", "stop lock2", "disconnect"}
  <2>1. user[u] = "out" => bd
    BY DEF Read, ReadLocks, ReadEnds
  <2> QED BY <1>0, <2>1 DEF FsHeld
<1>2. ~At("gone") /\ sema["lock_sema2"] # "deleted" /\ sema["fs"] # "deleted"
  BY <1>0, <1>1 DEF At, Deleted
<1>3. ASSUME NEW p \in UserPcs, Moves(u, p), sema' \in [Semas -> {"free", "taken", "deleted"}],
             sema'["own"] = sema["own"], sema'["fs"] # "deleted", sema'["lock_sema2"] # "deleted",
             \/ sema'["fs"] = sema["fs"] /\ user[u] # "out" /\ p # "out"
             \/ sema["fs"] = "free" /\ sema'["fs"] = "taken" /\ user[u] = "out"
             \/ user[u] # "out" /\ p = "out",
             \/ sema'["lock_sema2"] = sema["lock_sema2"] /\ p # "using"
             \/ sema["lock_sema2"] = "free" /\ sema'["lock_sema2"] = "taken"
             \/ user[u] = "using" /\ p # "using"
      PROVE  IInv'
  <2>1. /\ user' \in [Users -> UserPcs] /\ user'[u] = p
        /\ \A v \in Users : v # u => user'[v] = user[v]
    BY <1>0, <1>3, UserMoves
  <2>2. Typed'
    BY <1>0, <1>3, <2>1 DEF Typed
  <2>3. OwnHeld'
    BY <1>0, <1>3 DEF OwnHeld, InSession
  <2>4. FsHeld'
    <3>1. \A v \in Users : user[v] # "out" => sema["fs"] = "taken"
      BY <1>0 DEF FsHeld
    <3>2. \A v, w \in Users : user[v] # "out" /\ user[w] # "out" => v = w
      BY <1>0 DEF FsHeld
    <3>3. ASSUME NEW v \in Users, user'[v] # "out" PROVE sema'["fs"] = "taken"
      BY <1>3, <2>1, <3>1, <3>2, <3>3
    <3>4. ASSUME NEW v \in Users, NEW w \in Users, user'[v] # "out", user'[w] # "out" PROVE v = w
      BY Z3T(20), SMTT(20), <1>3, <2>1, <3>1, <3>2, <3>4
    <3> QED BY <1>0, <1>1, <3>3, <3>4 DEF FsHeld
  <2>5. Deleted'
    BY <1>0, <1>3 DEF Deleted
  <2>6. Lock2Held'
    <3>1. user[u] = "using" => \A v \in Users : user[v] = "using" => v = u
      BY <1>0 DEF FsHeld
    <3> QED BY <1>0, <1>2, <1>3, <2>1, <3>1 DEF Lock2Held, At, ClientHas, ModuleHas
  <2>7. Linked'
    BY <1>0 DEF Linked, At
  <2> QED BY <2>2, <2>3, <2>4, <2>5, <2>6, <2>7 DEF IInv
<1>4. CASE Read(u)
  <2>1. /\ sema' \in [Semas -> {"free", "taken", "deleted"}] /\ sema'["own"] = sema["own"]
        /\ sema["fs"] = "free" /\ sema'["fs"] = "taken" /\ sema'["lock_sema2"] = sema["lock_sema2"]
    BY <1>0, <1>2, <1>4, Waits, SemaNames DEF Read
  <2> QED BY <1>2, <1>3, <1>4, <2>1, PcNames DEF Read
<1>5. CASE user[u] = "lock" /\ WaitSema("lock_sema") /\ Moves(u, "lock2")
  <2>1. /\ sema' \in [Semas -> {"free", "taken", "deleted"}] /\ sema'["own"] = sema["own"]
        /\ sema'["fs"] = sema["fs"] /\ sema'["lock_sema2"] = sema["lock_sema2"]
    BY Z3T(20), SMTT(20), <1>0, <1>5, Waits, SemaNames
  <2> QED BY <1>2, <1>3, <1>5, <2>1, PcNames
<1>6. CASE user[u] = "lock2" /\ WaitSema("lock_sema2") /\ Moves(u, "using")
  <2>1. /\ sema' \in [Semas -> {"free", "taken", "deleted"}] /\ sema'["own"] = sema["own"]
        /\ sema'["fs"] = sema["fs"] /\ sema["lock_sema2"] = "free" /\ sema'["lock_sema2"] = "taken"
    BY <1>0, <1>2, <1>6, Waits, SemaNames
  <2> QED BY <1>2, <1>3, <1>6, <2>1, PcNames
<1>7. CASE user[u] = "using" /\ SignalSema("lock_sema2") /\ Moves(u, "unlock")
  <2>1. /\ sema' \in [Semas -> {"free", "taken", "deleted"}] /\ sema'["own"] = sema["own"]
        /\ sema'["fs"] = sema["fs"] /\ sema'["lock_sema2"] # "deleted"
    BY <1>0, <1>2, <1>7, Signals, SemaNames
  <2> QED BY <1>2, <1>3, <1>7, <2>1, PcNames
<1>8. CASE user[u] = "unlock" /\ SignalSema("lock_sema") /\ Moves(u, "fs unlock")
  <2>1. /\ sema' \in [Semas -> {"free", "taken", "deleted"}] /\ sema'["own"] = sema["own"]
        /\ sema'["fs"] = sema["fs"] /\ sema'["lock_sema2"] = sema["lock_sema2"]
    BY <1>0, <1>8, Signals, SemaNames
  <2> QED BY <1>2, <1>3, <1>8, <2>1, PcNames
<1>9. CASE user[u] = "fs unlock" /\ SignalSema("fs") /\ Moves(u, "out")
  <2>1. /\ sema' \in [Semas -> {"free", "taken", "deleted"}] /\ sema'["own"] = sema["own"]
        /\ sema'["fs"] # "deleted" /\ sema'["lock_sema2"] = sema["lock_sema2"]
    <3>1. /\ sema' \in [Semas -> {"free", "taken", "deleted"}]
          /\ sema'["fs"] = "deleted" <=> sema["fs"] = "deleted"
          /\ \A r \in Semas : r # "fs" => sema'[r] = sema[r]
      BY <1>0, <1>9, Signals, SemaNames
    <3> QED BY <1>2, <3>1, SemaNames
  <2> QED BY <1>2, <1>3, <1>9, <2>1, PcNames
<1> QED BY <1>4, <1>5, <1>6, <1>7, <1>8, <1>9 DEF ReadLocks, ReadEnds

-----------------------------------------------------------------------------
(* The theorem *)

\* Before the driver starts nobody uses the SIO2.
LEMMA InitOK == NobodyCalls /\ Init => IInv
<1> SUFFICES ASSUME NobodyCalls, Init PROVE IInv
  OBVIOUS
<1>1. \A c \in Clients : client[c] = [pc |-> IF c \in Loaded THEN "out" ELSE "absent", hooked |-> FALSE]
  BY DEF Init
<1>2. \A c \in Clients : client[c].pc = "absent" \/ (client[c].pc = "out" /\ Quiet)
  <2> SUFFICES ASSUME NEW c \in Clients PROVE client[c].pc = "absent" \/ (client[c].pc = "out" /\ Quiet)
    OBVIOUS
  <2>1. CASE c \in Loaded
    <3>0. client[c] = [pc |-> "out", hooked |-> FALSE]
      BY <1>1, <2>1, Zenon
    <3>1. client[c].pc = "out"
      BY Z3T(20), SMTT(20), <3>0
    <3>2. Quiet
      BY <2>1 DEF NobodyCalls
    <3> QED BY <3>1, <3>2
  <2>2. CASE c \notin Loaded
    <3>1. client[c] = [pc |-> "absent", hooked |-> FALSE]
      BY <1>1, <2>2, Zenon
    <3> QED BY Z3T(20), SMTT(20), <3>1
  <2> QED BY <2>1, <2>2
<1>3. module.pc = "hook init" /\ module.todo = {} /\ ~bd
  BY DEF Init
<1>4. Typed
  BY DEF Init, Typed, Semas, Unhooked, ClientPcs, UserPcs, Starting
<1>5. OwnHeld
  BY <1>2 DEF OwnHeld, InSession
<1>6. FsHeld
  BY <1>3 DEF Init, FsHeld
<1>7. Deleted
  BY DEF Init, Deleted
<1>8. Lock2Held
  BY <1>2, <1>3 DEF Init, Lock2Held, ClientHas, ModuleHas
<1>9. Linked
  BY <1>2, <1>3 DEF Linked, At, Working
<1> QED BY <1>4, <1>5, <1>6, <1>7, <1>8, <1>9 DEF IInv

\* Every step keeps the invariant.
LEMMA NextKeeps == IInv /\ [Next]_vars => IInv'
<1> SUFFICES ASSUME IInv, [Next]_vars PROVE IInv'
  OBVIOUS
<1>1. CASE UNCHANGED vars
  <2>0. Typed /\ OwnHeld /\ FsHeld /\ Deleted /\ Lock2Held /\ Linked
    BY DEF IInv
  <2>1. Typed'
    BY <1>1, <2>0 DEF vars, Typed
  <2>2. OwnHeld' /\ FsHeld' /\ Deleted'
    BY <1>1, <2>0 DEF vars, OwnHeld, InSession, FsHeld, Deleted, At
  <2>3. Lock2Held'
    BY <1>1, <2>0 DEF vars, Lock2Held, ClientHas, ModuleHas, At
  <2>4. Linked'
    BY <1>1, <2>0 DEF vars, Linked, At
  <2> QED BY <2>1, <2>2, <2>3, <2>4 DEF IInv
<1>2. CASE Next
  BY <1>2, LoadKeeps, SessionKeeps, HookKeeps, RelinkKeeps, WorkKeeps, LeaveKeeps, UserKeeps
     DEF Next, ModuleStep
<1> QED BY <1>1, <1>2

\* At most one is in a transfer.
LEMMA InvExclusive == IInv => Exclusive
<1> SUFFICES ASSUME IInv PROVE Exclusive
  OBVIOUS
<1> DEFINE S == {c \in Clients : client[c].pc = "using"} \cup {u \in Users : user[u] = "using"}
                \cup {m \in {"module"} : At("using")}
<1>1. ASSUME NEW x \in S, NEW y \in S PROVE x = y
  <2>0. Typed /\ OwnHeld /\ FsHeld /\ Lock2Held /\ Linked
    BY DEF IInv
  <2>1. \A c, d \in Clients : client[c].pc = "using" /\ client[d].pc = "using" => c = d
    BY <2>0 DEF OwnHeld, InSession
  <2>2. \A u, v \in Users : user[u] = "using" /\ user[v] = "using" => u = v
    BY <2>0 DEF FsHeld
  <2>3. \A u \in Users : user[u] = "using" =>
           module.pc \in {"run", "unlock", "stop lock", "stop lock2", "disconnect"}
    BY <2>0 DEF FsHeld
  <2>4. \A c \in Clients, u \in Users : ~(client[c].pc = "using" /\ user[u] = "using")
    BY <2>0, <2>3 DEF Lock2Held, ClientHas, Linked, Working, At
  <2>5. \A c \in Clients : ~(client[c].pc = "using" /\ At("using"))
    BY <2>0 DEF Lock2Held, ClientHas, ModuleHas, Linked, Working, At
  <2>6. \A u \in Users : ~(user[u] = "using" /\ At("using"))
    BY <2>3 DEF At
  <2> QED BY <2>1, <2>2, <2>4, <2>5, <2>6
<1>2. CASE S = {}
  <2>1. Cardinality(S) = 0
    BY <1>2, FS_EmptySet
  <2> QED BY Z3T(20), SMTT(20), <2>1 DEF Exclusive
<1>3. CASE S # {}
  <2>1. PICK x : x \in S
    BY <1>3
  <2>2. S = {x}
    BY <1>1, <2>1
  <2>3. Cardinality(S) = 1
    BY <2>2, FS_Singleton
  <2> QED BY Z3T(20), SMTT(20), <2>3 DEF Exclusive
<1> QED BY <1>2, <1>3

\* The SIO2 has at most one user at a time: a transfer of a library through
\* sio2man (_sio2_transfer), sd_detect, or spisd_read and spisd_write; also
\* while module_stop takes the functions of the driver out again.
THEOREM OneUserOfSio2 == ASSUME NobodyCalls PROVE Spec => []Exclusive
<1>1. Init => IInv
  BY InitOK
<1> QED BY <1>1, NextKeeps, InvExclusive, PTL DEF Spec

=============================================================================
