------------------------------- MODULE Master -------------------------------
(***************************************************************************)
(* The master process (Service::Run and Service::Accept) and its worker    *)
(* processes, as far as the master can see them.                           *)
(*                                                                         *)
(* Each slot of m_work_processes has one end of a datagram socketpair      *)
(* whose other end the child forked for it reads; a socketpair is named by *)
(* that child.  The master does not watch its children: to learn whether   *)
(* the process of a slot is alive it tries to lock the slot's pid file,    *)
(* which a child locks some time after the fork and until it ends.  The    *)
(* threads of a worker are WorkerPool's subject; here a worker receives    *)
(* messages, gives up when idle, quits when told, and may crash.           *)
(***************************************************************************)
EXTENDS Naturals, Sequences, FiniteSets

CONSTANTS
  N,         \* CHttpBase::m_max_instance_num, the number of slots
  Pids,      \* bound: the children that are ever forked
  Clients,   \* bound: the connections that are ever accepted
  QueueMax,  \* datagrams a socket holds (net.unix.max_dgram_qlen)
  Prestarts, \* the values of CHttpBase::m_instance_prestart
  Round,     \* m_instance_balance_scheme is 'R', not by address
  Crashes,   \* bound: workers that crash
  Reloads    \* bound: reload commands

None   == "none"
MasterProc == "master"

ASSUME MasterAssumption ==
  /\ N \in Nat \ {0}
  /\ QueueMax \in Nat \ {0}
  /\ Crashes \in Nat /\ Reloads \in Nat
  /\ Prestarts \subseteq BOOLEAN /\ Round \in BOOLEAN
  /\ {None, MasterProc} \cap Pids = {}
  /\ {"quit", "reload"} \cap Clients = {}

VARIABLES
  pc,      \* where the master is
  boot,    \* slots set up so far
  next,    \* m_next_process
  tries,   \* t, the slots SEND_FD has been tried for
  clt,     \* the client in the master's hands, or None
  sock,    \* sockfds[0] of each slot: the child at the other end, or None
  lock,    \* who holds the lock on each slot's pid file
  proc,    \* what each child does
  slot,    \* the slot each child was forked for
  inbox,   \* the datagrams queued for each child
  client,  \* what became of each client
  crashed, \* crashes so far
  cast,    \* the command being passed on
  version, \* the lists the master has read
  knows,   \* the lists each child has read
  prestart \* m_instance_prestart: never changes

masterVars == <<pc, boot, next, tries, clt, sock>>
procVars   == <<proc, slot, inbox>>
config == <<cast, version, knows, prestart>>
vars == <<pc, boot, next, tries, clt, sock, lock, proc, slot, inbox, client,
          crashed, cast, version, knows, prestart>>

Slots == 0 .. N - 1

(* A child's life: not forked; forked, the pid file not locked; in         *)
(* Worker::Working; RECV_FD timed out after ten idle minutes; its socket   *)
(* closed, its threads ending; told to quit, the socket still open; ended. *)
(* An unborn child is one whose fork failed when the socketpair was in its *)
(* slot already: the pair stays there with both ends open in the master.   *)
Lives == {"none", "forked", "working", "idle", "closed", "quitting", "ended",
          "unborn"}

(* The process exists / its end of the socketpair is open. *)
Alive(p) == proc[p] \in Lives \ {"none", "ended", "unborn"}
Open(p)  == proc[p] \in {"forked", "working", "idle", "quitting", "unborn"}

Init ==
  /\ pc = "boot"
  /\ boot = 0 /\ next = 0 /\ tries = 0
  /\ clt = None
  /\ sock = [i \in Slots |-> None]
  /\ lock = [i \in Slots |-> None]
  /\ proc = [p \in Pids |-> "none"]
  /\ slot = [p \in Pids |-> 0]
  /\ inbox = [p \in Pids |-> <<>>]
  /\ client = [c \in Clients |-> "new"]
  /\ crashed = 0
  /\ cast = "none" /\ version = 0
  /\ knows = [p \in Pids |-> 0]
  /\ prestart \in Prestarts

(* A new socketpair for slot i and its child, which has the lists of the   *)
(* master.                                                                 *)
NewPair(i, life) ==
  \E p \in Pids :
    /\ proc[p] = "none"
    /\ proc' = [proc EXCEPT ![p] = life]
    /\ slot' = [slot EXCEPT ![p] = i]
    /\ sock' = [sock EXCEPT ![i] = p]
    /\ knows' = [knows EXCEPT ![p] = version]
    /\ UNCHANGED <<inbox, cast, version, prestart>>

Fork(i) == NewPair(i, "forked")

(* fork fails, as it may for want of memory or of processes: in Accept the *)
(* new socketpair is not in the slot yet; in Run it is.                    *)
NoFork ==
  UNCHANGED <<proc, slot, inbox, sock>> /\ UNCHANGED config
NoPrestart(i) == NewPair(i, "unborn")

-----------------------------------------------------------------------------
(* Service::Run sets up the slots, starting their children if configured.  *)
Boot ==
  /\ pc = "boot"
  /\ IF prestart THEN Fork(boot) \/ NoPrestart(boot)
     ELSE UNCHANGED <<proc, slot, inbox, sock>> /\ UNCHANGED config
  /\ boot' = boot + 1
  /\ pc' = IF boot + 1 = N THEN "accept" ELSE "boot"
  /\ UNCHANGED <<next, tries, clt, lock, client, crashed>>

(* (Here and below, a definition whose name begins with Slip is a faulty   *)
(* variant of the one after it and is used by nothing.)                    *)
NextSlot(i) == (i + 1) % N

(* A connection: the next slot, or that of the client's address.           *)
Accept ==
  /\ pc = "accept"
  /\ \E c \in Clients, i \in Slots :
       /\ client[c] = "new"
       /\ Round => i = NextSlot(next)
       /\ client' = [client EXCEPT ![c] = "held"]
       /\ clt' = c
       /\ next' = i
  /\ pc' = "check"
  /\ UNCHANGED <<boot, tries, sock, lock, crashed>> /\ UNCHANGED procVars /\ UNCHANGED config

(* The permit and reject lists turn the client away. *)
Reject ==
  /\ pc = "check"
  /\ client' = [client EXCEPT ![clt] = "closed"]
  /\ clt' = None
  /\ pc' = "accept"
  /\ UNCHANGED <<boot, next, tries, sock, lock, crashed>>
  /\ UNCHANGED procVars /\ UNCHANGED config

(* check_pid_file: the lock is taken, so the slot has its process ...      *)
CheckTaken ==
  /\ pc = "check"
  /\ lock[next] # None
  /\ tries' = 0
  /\ pc' = "send"
  /\ UNCHANGED <<boot, next, clt, sock, lock, client, crashed>>
  /\ UNCHANGED procVars /\ UNCHANGED config

(* ... or the master gets it, and gives it up again when it closes the     *)
(* file.                                                                   *)
CheckFree ==
  /\ pc = "check"
  /\ lock[next] = None
  /\ lock' = [lock EXCEPT ![next] = MasterProc]
  /\ pc' = "release"
  /\ UNCHANGED <<boot, next, tries, clt, sock, client, crashed>>
  /\ UNCHANGED procVars /\ UNCHANGED config

Release ==
  /\ pc = "release"
  /\ lock' = [lock EXCEPT ![next] = None]
  /\ pc' = "fork"
  /\ UNCHANGED <<boot, next, tries, clt, sock, client, crashed>>
  /\ UNCHANGED procVars /\ UNCHANGED config

(* The slot gets a new socketpair and a new child. *)
Replace ==
  /\ pc = "fork"
  /\ Fork(next)
  /\ tries' = 0
  /\ pc' = "send"
  /\ UNCHANGED <<boot, next, clt, lock, client, crashed>>

(* Accept returns without closing the client's socket. *)
ReplaceFails ==
  /\ pc = "fork"
  /\ NoFork
  /\ client' = [client EXCEPT ![clt] = "leaked"]
  /\ clt' = None
  /\ pc' = "accept"
  /\ UNCHANGED <<boot, next, tries, lock, crashed>>

(* SEND_FD succeeds when the other end of the socket is open, if only in   *)
(* the master itself, and has room in its queue.                           *)
Full(p) == Len(inbox[p]) >= QueueMax
Takers  == {p \in Pids : Open(p) /\ ~Full(p)}

Send ==
  /\ pc = "send" /\ tries < N
  /\ sock[next] \in Takers
  /\ inbox' = [inbox EXCEPT ![sock[next]] = Append(@, clt)]
  /\ client' = [client EXCEPT ![clt] = "sent"]
  /\ clt' = None
  /\ pc' = "accept"
  /\ UNCHANGED <<boot, next, tries, sock, lock, proc, slot, crashed>>
  /\ UNCHANGED config

(* SEND_FD fails, at once (the other end is closed) or after the time-out  *)
(* (the queue is full), or the slot never had a child: the next slot.      *)
SlipStopsEarly(t) == N
NextTry(t)        == t + 1

Failover ==
  /\ pc = "send" /\ tries < N
  /\ sock[next] \notin Takers
  /\ next' = NextSlot(next)
  /\ tries' = NextTry(tries)
  /\ UNCHANGED <<pc, boot, clt, sock, lock, client, crashed>>
  /\ UNCHANGED procVars /\ UNCHANGED config

(* All slots failed. *)
Drop ==
  /\ pc = "send" /\ tries = N
  /\ client' = [client EXCEPT ![clt] = "closed"]
  /\ clt' = None
  /\ pc' = "accept"
  /\ UNCHANGED <<boot, next, tries, sock, lock, crashed>>
  /\ UNCHANGED procVars /\ UNCHANGED config

(* A command from the queue: MSG_EXIT, or one of the reloads.  The master  *)
(* reads the changed list itself and then tells the children, by a message *)
(* to every slot that has a socket.  This SEND_FD waits for room.          *)
Command(m) ==
  /\ pc = "accept"
  /\ cast' = m
  /\ tries' = 0
  /\ pc' = "cast"
  /\ UNCHANGED <<boot, next, clt, sock, lock, client, crashed>>
  /\ UNCHANGED procVars

ExitMessage == Command("quit") /\ UNCHANGED <<version, knows, prestart>>

ReloadMessage ==
  /\ version < Reloads
  /\ Command("reload")
  /\ version' = version + 1
  /\ UNCHANGED <<knows, prestart>>

SlipSkipsLast == tries + 1 < N
MoreSlots     == tries < N

Cast ==
  /\ pc = "cast" /\ MoreSlots
  /\ IF sock[tries] \in {p \in Pids : Open(p)}
     THEN /\ sock[tries] \in Takers
          /\ inbox' = [inbox EXCEPT ![sock[tries]] = Append(@, cast)]
     ELSE UNCHANGED inbox
  /\ tries' = tries + 1
  /\ UNCHANGED <<pc, boot, next, clt, sock, lock, proc, slot, client, crashed>>
  /\ UNCHANGED config

(* The master waits in SEND_FD for room in a queue that nobody reads.      *)
AtNobodysQueue ==
  /\ pc = "cast" /\ MoreSlots
  /\ sock[tries] \in Pids
  /\ proc[sock[tries]] = "unborn" /\ Full(sock[tries])

Hangs == AtNobodysQueue /\ UNCHANGED vars

CastDone ==
  /\ pc = "cast" /\ ~MoreSlots
  /\ pc' = IF cast = "quit" THEN "stopped" ELSE "accept"
  /\ UNCHANGED <<boot, next, tries, clt, sock, lock, client, crashed>>
  /\ UNCHANGED procVars /\ UNCHANGED config

-----------------------------------------------------------------------------
(* The children.                                                           *)

Becomes(p, from, to) ==
  proc[p] = from /\ proc' = [proc EXCEPT ![p] = to]

(* lock_pid_file: a child that does not get the lock ends at once.         *)
SlipIgnoresLock(p) == TRUE
LockFree(p)        == lock[slot[p]] = None

LockPid(p) ==
  /\ LockFree(p)
  /\ Becomes(p, "forked", "working")
  /\ lock' = [lock EXCEPT ![slot[p]] = p]
  /\ UNCHANGED <<slot, inbox, client, crashed>>
  /\ UNCHANGED masterVars /\ UNCHANGED config

LockFails(p) ==
  /\ ~LockFree(p)
  /\ Becomes(p, "forked", "ended")
  /\ UNCHANGED <<lock, slot, inbox, client, crashed>>
  /\ UNCHANGED masterVars /\ UNCHANGED config

(* RECV_FD: quit, read the lists again, or hand the client to the pool.    *)
Receive(p) ==
  /\ proc[p] = "working" /\ inbox[p] # <<>>
  /\ inbox' = [inbox EXCEPT ![p] = Tail(@)]
  /\ LET m == Head(inbox[p]) IN
       /\ proc' = IF m = "quit" THEN [proc EXCEPT ![p] = "quitting"] ELSE proc
       /\ knows' = IF m = "reload" THEN [knows EXCEPT ![p] = version] ELSE knows
       /\ client' = IF m \in Clients THEN [client EXCEPT ![m] = "received"]
                    ELSE client
  /\ UNCHANGED <<lock, slot, crashed, cast, version, prestart>>
  /\ UNCHANGED masterVars

(* RECV_FD times out with nothing queued and the pool idle for ten minutes *)
(* ...                                                                     *)
IdleOut(p) ==
  /\ inbox[p] = <<>>
  /\ Becomes(p, "working", "idle")
  /\ UNCHANGED <<lock, slot, inbox, client, crashed>>
  /\ UNCHANGED masterVars /\ UNCHANGED config

(* ... and the worker closes its socket, with what came in the meantime.   *)
SlipLeftOpen == "quitting"
SocketShut   == "closed"

CloseSocket(p) ==
  /\ Becomes(p, "idle", SocketShut)
  /\ UNCHANGED <<lock, slot, inbox, client, crashed>>
  /\ UNCHANGED masterVars /\ UNCHANGED config

SlipKeepsLock(p) == lock
Unlocked(p)      ==
  IF lock[slot[p]] = p THEN [lock EXCEPT ![slot[p]] = None] ELSE lock

(* The pool has stopped; the process exits, and with it the lock goes.     *)
Exit(p) ==
  /\ Becomes(p, "closed", "ended") \/ Becomes(p, "quitting", "ended")
  /\ lock' = Unlocked(p)
  /\ UNCHANGED <<slot, inbox, client, crashed>>
  /\ UNCHANGED masterVars /\ UNCHANGED config

Crash(p) ==
  /\ Alive(p) /\ crashed < Crashes
  /\ proc' = [proc EXCEPT ![p] = "ended"]
  /\ lock' = Unlocked(p)
  /\ crashed' = crashed + 1
  /\ UNCHANGED <<slot, inbox, client>>
  /\ UNCHANGED masterVars /\ UNCHANGED config

Stopped ==
  /\ pc = "stopped"
  /\ \A p \in Pids : ~Alive(p)
  /\ UNCHANGED vars

-----------------------------------------------------------------------------
Serve ==
  \/ Boot \/ CheckTaken \/ CheckFree \/ Release \/ Replace \/ ReplaceFails
  \/ Send \/ Failover \/ Drop \/ Cast \/ CastDone

Work(p) == LockPid(p) \/ LockFails(p) \/ Receive(p) \/ CloseSocket(p)

Next ==
  \/ Serve \/ Accept \/ Reject \/ ExitMessage \/ ReloadMessage \/ Hangs \/ Stopped
  \/ \E p \in Pids : Work(p) \/ IdleOut(p) \/ Exit(p) \/ Crash(p)

Spec == Init /\ [][Next]_vars

(* The kernel runs every process.  That a worker is ever idle, or that its *)
(* pool ever stops (Exit), is not promised: a leaked mutex or a session    *)
(* without end prevents both (WorkerPool).                                 *)
FairSpec ==
  /\ Spec
  /\ WF_vars(Serve)
  /\ \A p \in Pids : WF_vars(Work(p))

-----------------------------------------------------------------------------
(* Properties.                                                             *)

(* Types of m_work_processes, the pid files and the socketpairs.           *)
TypeOK ==
  /\ pc \in {"boot", "accept", "check", "release", "fork", "send", "cast",
             "stopped"}
  /\ boot \in 0 .. N /\ next \in Slots /\ tries \in 0 .. N
  /\ clt \in Clients \cup {None}
  /\ sock \in [Slots -> Pids \cup {None}]
  /\ lock \in [Slots -> Pids \cup {None, MasterProc}]
  /\ proc \in [Pids -> Lives]
  /\ slot \in [Pids -> Slots]
  /\ inbox \in [Pids -> Seq(Clients \cup {"quit", "reload"})]
  /\ client \in [Clients -> {"new", "held", "sent", "received", "closed",
                             "leaked"}]
  /\ crashed \in 0 .. Crashes
  /\ cast \in {"none", "quit", "reload"}
  /\ version \in 0 .. Reloads /\ knows \in [Pids -> 0 .. Reloads]

(* However forks, failed checks and crashes interleave, at most one child  *)
(* of a slot serves clients (they share the slot's files in the work       *)
(* path), and it is the one that holds the slot's lock.                    *)
Serving(p) == proc[p] \in {"working", "idle", "closed", "quitting"}
OneWorkerPerSlot ==
  /\ \A p \in Pids : Serving(p) => lock[slot[p]] = p
  /\ \A p, q \in Pids : Serving(p) /\ Serving(q) /\ slot[p] = slot[q] => p = q

(* A lock never outlives its holder, so that a slot whose child has ended  *)
(* can be given a new one.                                                 *)
LockHolderLives ==
  \A i \in Slots : lock[i] \in Pids => Serving(lock[i]) /\ slot[lock[i]] = i

(* The master has a client in hand from accept to the end of Accept, holds *)
(* the lock of its slot only while it checks it, and boots N slots.        *)
MasterHolds ==
  /\ pc \in {"check", "release", "fork", "send"} => clt \in Clients
  /\ pc = "release" => lock[next] = MasterProc
  /\ pc = "boot" => boot < N
  /\ pc = "cast" => cast \in {"quit", "reload"}

ServersLock == \A p \in Pids : Serving(p) => lock[slot[p]] = p

(* All of it: what a process owns, the lock of a slot or a client, goes    *)
(* with where it is, whatever crashes.                                     *)
MasterInv == TypeOK /\ MasterHolds /\ ServersLock /\ LockHolderLives

(* A worker the slot table names has the lists of the last reload, or has  *)
(* been told, or is about to be, whenever it was forked meanwhile.         *)
Told(p) == \/ \E k \in 1 .. Len(inbox[p]) : inbox[p][k] \in {"reload", "quit"}
           \/ pc = "cast" /\ slot[p] >= tries
ReloadReaches ==
  \A p \in Pids : proc[p] = "working" /\ sock[slot[p]] = p =>
                   knows[p] = version \/ Told(p)

(* When queues do not fill up, the master gives a client up only when no   *)
(* slot at all has a socket that would take it, and so after trying them   *)
(* all.                                                                    *)
DroppedOnlyWithoutWorker ==
  [][pc = "send" /\ clt # None /\ client'[clt] = "closed" =>
       \A i \in Slots : sock[i] \notin Takers]_vars

(* A worker that need not end: its pool does not stop, or the table has    *)
(* had no socket for it, so that it was not told, and it is never idle.    *)
Stays(p) ==
  \/ proc[p] \in {"closed", "quitting"}
  \/ proc[p] = "working" /\ sock[slot[p]] # p

(* After MSG_EXIT the master tells every worker of its table and stops,    *)
(* however full their queues are and whichever crash or give up meanwhile, *)
(* and every child ends but for those that Stays names; only the queue of  *)
(* a pair whose fork had failed can hold the master for ever.              *)
ServiceStops ==
  pc = "cast" /\ cast = "quit" ~>
    \/ AtNobodysQueue
    \/ pc = "stopped" /\ \A p \in Pids : ~Alive(p) \/ Stays(p)
=============================================================================
