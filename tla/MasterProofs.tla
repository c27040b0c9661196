---------------------------- MODULE MasterProofs ----------------------------
(***************************************************************************)
(* Proofs about Master for any number of slots, children, clients, crashes *)
(* and reloads.  One invariant carries them: what a process owns (the      *)
(* slot's lock, the client in hand) goes with where it is.                 *)
(***************************************************************************)
EXTENDS Master, TLAPS, SequenceTheorems, FiniteSetTheorems

(* The master starts with no child and no lock.                            *)
LEMMA MasterInit == Init => MasterInv
<1> SUFFICES ASSUME Init PROVE MasterInv
  OBVIOUS
<1>1. TypeOK
  BY MasterAssumption DEF Init, TypeOK, Slots, Lives
<1>2. MasterHolds
  BY MasterAssumption DEF Init, MasterHolds
<1>3. ServersLock
  BY DEF Init, ServersLock, Serving
<1>4. LockHolderLives
  BY MasterAssumption DEF Init, LockHolderLives
<1> QED
  BY <1>1, <1>2, <1>3, <1>4 DEF MasterInv

(* The service after the last is the first.                                *)
LEMMA SlotArithmetic ==
  /\ 0 \in Slots
  /\ \A i \in Slots : NextSlot(i) \in Slots
BY MasterAssumption DEF Slots, NextSlot

Newborn == {"forked", "unborn"}

(* A fork touches no lock and no child that serves, nor does one that      *)
(* fails.                                                                  *)
LEMMA ForkKeeps ==
  ASSUME MasterInv, NEW i \in Slots, NEW life \in Newborn, NewPair(i, life),
         UNCHANGED <<lock, next>>
  PROVE  /\ sock' \in [Slots -> Pids \cup {None}]
         /\ proc' \in [Pids -> Lives]
         /\ slot' \in [Pids -> Slots]
         /\ knows' \in [Pids -> 0 .. Reloads]
         /\ UNCHANGED <<inbox, cast, version>>
         /\ ServersLock'
         /\ LockHolderLives'
<1> PICK p \in Pids :
      /\ proc[p] = "none"
      /\ proc' = [proc EXCEPT ![p] = life]
      /\ slot' = [slot EXCEPT ![p] = i]
      /\ sock' = [sock EXCEPT ![i] = p]
      /\ knows' = [knows EXCEPT ![p] = version]
      /\ UNCHANGED <<inbox, cast, version>>
  BY DEF NewPair
<1> USE DEF MasterInv, TypeOK
<1>1. \A q \in Pids : q # p => proc'[q] = proc[q] /\ slot'[q] = slot[q]
  OBVIOUS
<1>2. proc'[p] = life /\ life \in Newborn
  OBVIOUS
<1>3. ServersLock'
  BY <1>1, <1>2 DEF ServersLock, Serving, Newborn
<1>4. LockHolderLives'
  <2> SUFFICES ASSUME NEW j \in Slots, lock[j] \in Pids
               PROVE  Serving(lock[j])' /\ slot'[lock[j]] = j
    BY DEF LockHolderLives
  <2>1. Serving(lock[j]) /\ slot[lock[j]] = j
    BY DEF LockHolderLives
  <2>2. lock[j] # p
    BY <2>1 DEF Serving
  <2> QED
    BY <1>1, <2>1, <2>2 DEF Serving
<1> QED
  BY <1>3, <1>4 DEF Lives, Newborn

(* The steps of the master.                                                *)
LEMMA MasterStep ==
  ASSUME MasterInv,
         Serve \/ Accept \/ Reject \/ ExitMessage \/ ReloadMessage
  PROVE  MasterInv'
<1> USE SlotArithmetic DEF MasterInv
<1>1. ASSUME UNCHANGED <<lock, proc, slot>>
      PROVE  ServersLock' /\ LockHolderLives'
  BY <1>1 DEF ServersLock, LockHolderLives, Serving
<1>2. N \in Nat \ {0} /\ 0 \in 0 .. N
  BY MasterAssumption
<1>3. CASE Boot
  <2>1. boot \in Slots /\ boot + 1 \in 0 .. N
    BY <1>2, <1>3 DEF Boot, MasterHolds, TypeOK, Slots
  <2>2. CASE Fork(boot) \/ NoPrestart(boot)
    <3>1. /\ sock' \in [Slots -> Pids \cup {None}]
          /\ proc' \in [Pids -> Lives]
          /\ slot' \in [Pids -> Slots]
          /\ knows' \in [Pids -> 0 .. Reloads]
          /\ UNCHANGED <<inbox, cast, version>>
          /\ ServersLock' /\ LockHolderLives'
      BY <1>3, <2>1, <2>2, ForkKeeps DEF Boot, Fork, NoPrestart, Newborn
    <3>2. TypeOK'
      BY <1>3, <2>1, <3>1 DEF Boot, TypeOK
    <3>3. MasterHolds'
      BY <1>2, <1>3, <2>1, <3>1 DEF Boot, MasterHolds, TypeOK
    <3> QED
      BY <3>1, <3>2, <3>3
  <2>3. CASE UNCHANGED <<proc, slot, inbox, sock>> /\ UNCHANGED config
    <3>1. TypeOK'
      BY <1>3, <2>1, <2>3 DEF Boot, TypeOK, config
    <3>2. MasterHolds'
      BY <1>2, <1>3, <2>1, <2>3 DEF Boot, MasterHolds, TypeOK, config
    <3> QED
      BY <1>1, <1>3, <2>3, <3>1, <3>2 DEF Boot
  <2> QED
    BY <1>3, <2>2, <2>3 DEF Boot
<1>4. CASE Accept
  <2>1. TypeOK'
    BY <1>4 DEF Accept, TypeOK, procVars, config
  <2>2. MasterHolds'
    BY <1>4 DEF Accept, MasterHolds
  <2> QED
    BY <1>1, <1>4, <2>1, <2>2 DEF Accept, procVars
<1>5. CASE Reject \/ ReplaceFails \/ Drop
  <2>1. TypeOK'
    BY <1>5 DEF Reject, ReplaceFails, NoFork, Drop, MasterHolds, TypeOK,
       procVars, config
  <2>2. MasterHolds'
    BY <1>5 DEF Reject, ReplaceFails, Drop, MasterHolds
  <2> QED
    BY <1>1, <1>5, <2>1, <2>2 DEF Reject, ReplaceFails, NoFork, Drop, procVars
<1>6. CASE CheckTaken
  <2>1. TypeOK'
    BY <1>2, <1>6 DEF CheckTaken, TypeOK, procVars, config
  <2>2. MasterHolds'
    BY <1>6 DEF CheckTaken, MasterHolds
  <2> QED
    BY <1>1, <1>6, <2>1, <2>2 DEF CheckTaken, procVars
<1>7. CASE CheckFree
  <2>1. /\ TypeOK' /\ MasterHolds'
        /\ lock' = [lock EXCEPT ![next] = MasterProc] /\ lock[next] = None
        /\ next \in Slots
        /\ UNCHANGED <<proc, slot>>
    BY <1>7 DEF CheckFree, TypeOK, MasterHolds, procVars, config
  <2>2. None \notin Pids /\ MasterProc \notin Pids
    BY MasterAssumption
  <2>3. ServersLock'
    BY <2>1, <2>2 DEF ServersLock, Serving, TypeOK
  <2>4. LockHolderLives'
    BY <2>1, <2>2 DEF LockHolderLives, Serving, TypeOK
  <2> QED
    BY <2>1, <2>3, <2>4
<1>8. CASE Release
  <2>1. /\ TypeOK' /\ MasterHolds'
        /\ lock' = [lock EXCEPT ![next] = None] /\ lock[next] = MasterProc
        /\ next \in Slots
        /\ UNCHANGED <<proc, slot>>
    BY <1>8 DEF Release, TypeOK, MasterHolds, procVars, config
  <2>2. None \notin Pids /\ MasterProc \notin Pids
    BY MasterAssumption
  <2>3. ServersLock'
    BY <2>1, <2>2 DEF ServersLock, Serving, TypeOK
  <2>4. LockHolderLives'
    BY <2>1, <2>2 DEF LockHolderLives, Serving, TypeOK
  <2> QED
    BY <2>1, <2>3, <2>4
<1>9. CASE Replace
  <2>1. next \in Slots /\ Fork(next) /\ UNCHANGED <<lock, next>>
    BY <1>9 DEF Replace, TypeOK
  <2>2. /\ sock' \in [Slots -> Pids \cup {None}]
        /\ proc' \in [Pids -> Lives]
        /\ slot' \in [Pids -> Slots]
        /\ knows' \in [Pids -> 0 .. Reloads]
        /\ UNCHANGED <<inbox, cast, version>>
        /\ ServersLock' /\ LockHolderLives'
    BY <2>1, ForkKeeps DEF Fork, Newborn
  <2>3. TypeOK'
    BY <1>2, <1>9, <2>2 DEF Replace, TypeOK
  <2>4. MasterHolds'
    BY <1>9, <2>2 DEF Replace, MasterHolds
  <2> QED
    BY <2>2, <2>3, <2>4
<1>10. CASE Send
  <2>1. clt \in Clients /\ sock[next] \in Pids
    BY <1>10 DEF Send, Takers, MasterHolds
  <2>2. inbox' \in [Pids -> Seq(Clients \cup {"quit", "reload"})]
    <3>1. inbox[sock[next]] \in Seq(Clients \cup {"quit", "reload"})
      BY <2>1 DEF TypeOK
    <3>2. Append(inbox[sock[next]], clt) \in Seq(Clients \cup {"quit", "reload"})
      BY <2>1, <3>1, AppendProperties
    <3> QED
      BY <1>10, <2>1, <3>2 DEF Send, TypeOK
  <2>3. TypeOK'
    BY <1>10, <2>1, <2>2 DEF Send, TypeOK, config
  <2>4. MasterHolds'
    BY <1>10 DEF Send, MasterHolds
  <2> QED
    BY <1>1, <1>10, <2>3, <2>4 DEF Send
<1>11. CASE Failover
  <2>1. tries + 1 \in 0 .. N
    BY <1>2, <1>11 DEF Failover, TypeOK
  <2>2. TypeOK'
    BY <1>11, <2>1 DEF Failover, NextTry, TypeOK, procVars, config
  <2>3. MasterHolds'
    BY <1>11 DEF Failover, MasterHolds
  <2> QED
    BY <1>1, <1>11, <2>2, <2>3 DEF Failover, procVars
<1>12. CASE ExitMessage \/ ReloadMessage
  <2>1. TypeOK'
    BY <1>2, <1>12, MasterAssumption
       DEF ExitMessage, ReloadMessage, Command, TypeOK, procVars
  <2>2. MasterHolds'
    BY <1>12 DEF ExitMessage, ReloadMessage, Command, MasterHolds
  <2> QED
    BY <1>1, <1>12, <2>1, <2>2 DEF ExitMessage, ReloadMessage, Command, procVars
<1>13. CASE Cast
  <2>1. tries + 1 \in 0 .. N
    BY <1>2, <1>13 DEF Cast, MoreSlots, TypeOK
  <2>2. inbox' \in [Pids -> Seq(Clients \cup {"quit", "reload"})]
    <3>1. CASE UNCHANGED inbox
      BY <3>1 DEF TypeOK
    <3>2. CASE /\ sock[tries] \in Pids
               /\ inbox' = [inbox EXCEPT ![sock[tries]] = Append(@, cast)]
      <4>1. /\ inbox[sock[tries]] \in Seq(Clients \cup {"quit", "reload"})
            /\ cast \in Clients \cup {"quit", "reload"}
        BY <1>13, <3>2 DEF Cast, MasterHolds, TypeOK
      <4>2. Append(inbox[sock[tries]], cast) \in Seq(Clients \cup {"quit", "reload"})
        BY <4>1, AppendProperties
      <4> QED
        BY <3>2, <4>2 DEF TypeOK
    <3> QED
      BY <1>13, <3>1, <3>2 DEF Cast
  <2>3. TypeOK'
    BY <1>13, <2>1, <2>2 DEF Cast, TypeOK, config
  <2>4. MasterHolds'
    BY <1>13 DEF Cast, MasterHolds, config
  <2> QED
    BY <1>1, <1>13, <2>3, <2>4 DEF Cast
<1>14. CASE CastDone
  <2>1. TypeOK'
    BY <1>14 DEF CastDone, TypeOK, procVars, config
  <2>2. MasterHolds'
    BY <1>14 DEF CastDone, MasterHolds
  <2> QED
    BY <1>1, <1>14, <2>1, <2>2 DEF CastDone, procVars
<1> QED
  BY <1>3, <1>4, <1>5, <1>6, <1>7, <1>8, <1>9, <1>10, <1>11, <1>12, <1>13,
     <1>14 DEF Serve

(* A child that goes from one place to another without the lock changing   *)
(* hands keeps the invariant, if both places serve or neither does.        *)
LEMMA ChildMoves ==
  ASSUME MasterInv, NEW p \in Pids, NEW to \in Lives,
         proc' = [proc EXCEPT ![p] = to], UNCHANGED <<slot, lock>>,
         Serving(p) <=> to \in {"working", "idle", "closed", "quitting"}
  PROVE  ServersLock' /\ LockHolderLives'
<1>1. \A q \in Pids : Serving(q)' <=> Serving(q)
  BY DEF MasterInv, TypeOK, Serving
<1> QED
  BY <1>1 DEF MasterInv, ServersLock, LockHolderLives

(* A child that ends gives up its lock and no other.                       *)
LEMMA ChildEnds ==
  ASSUME MasterInv, NEW p \in Pids,
         proc' = [proc EXCEPT ![p] = "ended"], UNCHANGED slot,
         lock' = Unlocked(p)
  PROVE  ServersLock' /\ LockHolderLives'
<1> USE DEF MasterInv, TypeOK
<1>1. slot[p] \in Slots /\ None \notin Pids
  BY MasterAssumption
<1>2. ServersLock'
  BY <1>1 DEF ServersLock, Serving, Unlocked
<1>3. LockHolderLives'
  <2> SUFFICES ASSUME NEW j \in Slots, lock'[j] \in Pids
               PROVE  Serving(lock[j])' /\ slot'[lock'[j]] = j /\ lock'[j] = lock[j]
    BY DEF LockHolderLives, Serving
  <2>1. lock'[j] = lock[j]
    BY <1>1 DEF Unlocked
  <2>2. Serving(lock[j]) /\ slot[lock[j]] = j
    BY <2>1 DEF LockHolderLives
  <2>3. lock[j] # p
    BY <1>1, <2>1, <2>2 DEF Unlocked
  <2> QED
    BY <2>1, <2>2, <2>3 DEF Serving
<1> QED
  BY <1>2, <1>3

(* A child's work, its exit after the idle time and its crash keep the     *)
(* invariant.                                                              *)
LEMMA ChildStep ==
  ASSUME MasterInv, NEW p \in Pids, Work(p) \/ IdleOut(p) \/ Exit(p) \/ Crash(p)
  PROVE  MasterInv'
<1> USE DEF MasterInv
<1>1. None \notin Pids /\ MasterProc \notin Pids /\ None # MasterProc
  BY MasterAssumption DEF None, MasterProc
<1>2. slot[p] \in Slots
  BY DEF TypeOK
<1>3. CASE LockPid(p)
  <2>1. /\ proc[p] = "forked" /\ proc' = [proc EXCEPT ![p] = "working"]
        /\ lock[slot[p]] = None /\ lock' = [lock EXCEPT ![slot[p]] = p]
        /\ UNCHANGED <<slot, inbox, client, crashed>>
        /\ UNCHANGED masterVars /\ UNCHANGED config
    BY <1>3 DEF LockPid, LockFree, Becomes
  <2>2. TypeOK'
    BY <2>1 DEF TypeOK, Lives, masterVars, config
  <2>3. MasterHolds'
    BY <1>1, <1>2, <2>1 DEF MasterHolds, TypeOK, masterVars, config
  <2>4. ServersLock'
    <3> SUFFICES ASSUME NEW q \in Pids, Serving(q)'
                 PROVE  lock'[slot[q]] = q
      BY <2>1 DEF ServersLock
    <3>1. CASE q = p
      BY <1>2, <2>1, <3>1 DEF TypeOK
    <3>2. CASE q # p
      <4>1. lock[slot[q]] = q
        BY <2>1, <3>2 DEF ServersLock, Serving, TypeOK
      <4>2. slot[q] # slot[p]
        BY <1>1, <2>1, <4>1
      <4> QED
        BY <2>1, <4>1, <4>2 DEF TypeOK
    <3> QED
      BY <3>1, <3>2
  <2>5. LockHolderLives'
    BY <1>1, <1>2, <2>1 DEF LockHolderLives, Serving, TypeOK
  <2> QED
    BY <2>2, <2>3, <2>4, <2>5
<1>4. CASE LockFails(p)
  <2>1. TypeOK'
    BY <1>4 DEF LockFails, Becomes, TypeOK, Lives, masterVars, config
  <2>2. MasterHolds'
    BY <1>4 DEF LockFails, MasterHolds, masterVars, config
  <2> QED
    BY <1>4, <2>1, <2>2, ChildMoves DEF LockFails, Becomes, Serving, Lives
<1>5. CASE Receive(p)
  <2> DEFINE Msgs == Clients \cup {"quit", "reload"}
  <2>1. inbox[p] \in Seq(Msgs) /\ inbox[p] # <<>>
    BY <1>5 DEF Receive, TypeOK
  <2>2. Tail(inbox[p]) \in Seq(Msgs) /\ Head(inbox[p]) \in Msgs
    BY <2>1, HeadTailProperties
  <2>3. inbox' = [inbox EXCEPT ![p] = Tail(inbox[p])]
    BY <1>5 DEF Receive
  <2>4. inbox' \in [Pids -> Seq(Msgs)]
    BY <2>2, <2>3 DEF TypeOK
  <2>5. /\ proc' = [proc EXCEPT ![p] = proc'[p]]
        /\ proc'[p] \in {"working", "quitting"} /\ proc[p] = "working"
    BY <1>5 DEF Receive, TypeOK
  <2>6. TypeOK'
    BY <1>5, <2>4, <2>5 DEF Receive, TypeOK, Lives, masterVars
  <2>7. MasterHolds'
    BY <1>5 DEF Receive, MasterHolds, masterVars
  <2>8. UNCHANGED <<slot, lock>>
    BY <1>5 DEF Receive
  <2>9. ServersLock' /\ LockHolderLives'
    BY <2>5, <2>8, ChildMoves DEF Serving, Lives
  <2> QED
    BY <2>6, <2>7, <2>9
<1>6. CASE IdleOut(p) \/ CloseSocket(p)
  <2>1. TypeOK'
    BY <1>6 DEF IdleOut, CloseSocket, SocketShut, Becomes, TypeOK, Lives, masterVars, config
  <2>2. MasterHolds'
    BY <1>6 DEF IdleOut, CloseSocket, SocketShut, MasterHolds, masterVars, config
  <2>3. ServersLock' /\ LockHolderLives'
    BY <1>6, ChildMoves DEF IdleOut, CloseSocket, SocketShut, Becomes, Serving, Lives
  <2> QED
    BY <2>1, <2>2, <2>3
<1>7. CASE Exit(p) \/ Crash(p)
  <2>1. /\ proc' = [proc EXCEPT ![p] = "ended"] /\ lock' = Unlocked(p)
        /\ UNCHANGED <<slot, inbox, client>>
        /\ UNCHANGED masterVars /\ UNCHANGED config
    BY <1>7 DEF Exit, Crash, Becomes
  <2>2. crashed' \in 0 .. Crashes
    BY <1>7, MasterAssumption DEF Exit, Crash, TypeOK
  <2>3. lock' \in [Slots -> Pids \cup {None, MasterProc}]
    BY <2>1 DEF Unlocked, TypeOK
  <2>4. TypeOK'
    BY <2>1, <2>2, <2>3 DEF TypeOK, Lives, masterVars, config
  <2>5. MasterHolds'
    BY <1>1, <1>2, <2>1 DEF MasterHolds, Unlocked, TypeOK, masterVars, config
  <2> QED
    BY <2>1, <2>4, <2>5, ChildEnds
<1> QED
  BY <1>3, <1>4, <1>5, <1>6, <1>7 DEF Work

(* What a process owns, the lock of a slot or a client, goes with where it *)
(* is, for any number of services and processes.                           *)
THEOREM MasterInvariant == Spec => []MasterInv
<1>1. MasterInv /\ [Next]_vars => MasterInv'
  <2> SUFFICES ASSUME MasterInv, [Next]_vars PROVE MasterInv'
    OBVIOUS
  <2>1. CASE UNCHANGED vars
    BY <2>1 DEF vars, config, MasterInv, TypeOK, MasterHolds, ServersLock,
       LockHolderLives, Serving
  <2> QED
    BY <2>1, MasterStep, ChildStep DEF Next, Hangs, Stopped
<1> QED
  BY <1>1, MasterInit, PTL DEF Spec

(* At any time at most one process of a slot serves clients, and it holds  *)
(* the slot's pid file, however checks, forks and crashes interleave.      *)
THEOREM OneWorker == Spec => []OneWorkerPerSlot
<1>1. MasterInv => OneWorkerPerSlot
  BY DEF MasterInv, ServersLock, OneWorkerPerSlot
<1> QED
  BY <1>1, MasterInvariant, PTL

(* The lock of a slot is never held by a process that has ended.           *)
THEOREM LockNeverStale == Spec => []LockHolderLives
BY MasterInvariant, PTL DEF MasterInv
-----------------------------------------------------------------------------
(* Reloads.                                                                *)

Msgs == Clients \cup {"quit", "reload"}

(* A child forked for the slot table, from its fork on, has the lists or   *)
(* will have: what ReloadReaches says, and before the lock is taken too.   *)
Expects(p)  == proc[p] \in {"forked", "working"} /\ sock[slot[p]] = p
UpToDate(p) == knows[p] = version \/ Told(p)
AllReload   == \A p \in Pids : Expects(p) => UpToDate(p)

(* A message that is queued stays queued behind another one, and in front  *)
(* of a new one.                                                           *)
TellsIn(s) == \E k \in 1 .. Len(s) : s[k] \in {"reload", "quit"}

(* Being told survives what is queued behind it, and what is read before   *)
(* it.                                                                     *)
LEMMA Queued ==
  ASSUME NEW s \in Seq(Msgs)
  PROVE  /\ \A m \in Msgs : TellsIn(s) => TellsIn(Append(s, m))
         /\ \A m \in {"reload", "quit"} : TellsIn(Append(s, m))
         /\ s # <<>> /\ Head(s) \notin {"reload", "quit"} /\ TellsIn(s)
              => TellsIn(Tail(s))
<1>1. ASSUME NEW m \in Msgs
      PROVE  TellsIn(s) => TellsIn(Append(s, m))
  <2>1. /\ Len(Append(s, m)) = Len(s) + 1 /\ Len(s) \in Nat
        /\ \A k \in 1 .. Len(s) : Append(s, m)[k] = s[k]
    BY AppendProperties, LenProperties
  <2> QED
    BY <2>1 DEF TellsIn
<1>2. ASSUME NEW m \in {"reload", "quit"}
      PROVE  TellsIn(Append(s, m))
  <2>1. /\ Len(Append(s, m)) = Len(s) + 1 /\ Len(s) \in Nat
        /\ Append(s, m)[Len(s) + 1] = m
    BY AppendProperties, LenProperties DEF Msgs
  <2> QED
    BY <2>1 DEF TellsIn
<1>3. ASSUME s # <<>>, Head(s) \notin {"reload", "quit"}, TellsIn(s)
      PROVE  TellsIn(Tail(s))
  <2>1. /\ Len(Tail(s)) = Len(s) - 1 /\ Len(s) \in Nat /\ Head(s) = s[1]
        /\ \A k \in 1 .. Len(s) - 1 : Tail(s)[k] = s[k + 1]
    BY <1>3, HeadTailProperties, LenProperties
  <2>2. PICK k \in 1 .. Len(s) : s[k] \in {"reload", "quit"}
    BY <1>3 DEF TellsIn
  <2>3. k # 1 /\ k - 1 \in 1 .. Len(s) - 1 /\ k - 1 + 1 = k
    BY <1>3, <2>1, <2>2
  <2> QED
    BY <2>1, <2>2, <2>3 DEF TellsIn
<1> QED
  BY <1>1, <1>2, <1>3

(* Told, in terms of the queue.                                            *)
LEMMA ToldMeans ==
  \A p \in Pids :
    Told(p) <=> TellsIn(inbox[p]) \/ (pc = "cast" /\ slot[p] >= tries)
BY DEF Told, TellsIn

(* The queues hold the commands of the services.                           *)
LEMMA QueuesTyped == TypeOK => \A p \in Pids : inbox[p] \in Seq(Msgs)
BY DEF TypeOK, Msgs

(* A step that is no part of a broadcast, and takes nothing out of a queue *)
(* that a child still reads.                                               *)
LEMMA ReloadCarried ==
  ASSUME AllReload, UNCHANGED <<slot, sock, knows, version>>,
         pc # "cast",
         \A p \in Pids :
           /\ proc'[p] \in {"forked", "working"}
                => proc[p] \in {"forked", "working"}
           /\ TellsIn(inbox[p]) => TellsIn(inbox'[p])
  PROVE  AllReload'
BY ToldMeans DEF AllReload, Expects, UpToDate, Told, TellsIn

(* A fork gives the new child the lists the master has, and takes its slot *)
(* from the child that had it.                                             *)
LEMMA ReloadFork ==
  ASSUME MasterInv, AllReload, NEW i \in Slots, NEW life \in Newborn,
         NewPair(i, life), pc # "cast"
  PROVE  AllReload'
<1> PICK p \in Pids :
      /\ proc[p] = "none"
      /\ proc' = [proc EXCEPT ![p] = life]
      /\ slot' = [slot EXCEPT ![p] = i]
      /\ sock' = [sock EXCEPT ![i] = p]
      /\ knows' = [knows EXCEPT ![p] = version]
      /\ UNCHANGED <<inbox, cast, version>>
  BY DEF NewPair
<1> SUFFICES ASSUME NEW q \in Pids, Expects(q)'
             PROVE  UpToDate(q)'
  BY DEF AllReload
<1>1. CASE q = p
  BY <1>1 DEF UpToDate, MasterInv, TypeOK
<1>2. CASE q # p
  <2>1. /\ proc'[q] = proc[q] /\ slot'[q] = slot[q] /\ knows'[q] = knows[q]
        /\ inbox'[q] = inbox[q] /\ version' = version
    BY <1>2 DEF MasterInv, TypeOK
  <2>2. slot[q] # i /\ sock'[slot[q]] = sock[slot[q]]
    BY <1>2, <2>1 DEF Expects, MasterInv, TypeOK
  <2>3. UpToDate(q)
    BY <2>1, <2>2 DEF AllReload, Expects
  <2> QED
    BY <2>1, <2>3 DEF UpToDate, Told
<1> QED
  BY <1>1, <1>2

(* A command that begins to be passed on will reach every slot.            *)
LEMMA ReloadBegins ==
  ASSUME MasterInv, ExitMessage \/ ReloadMessage
  PROVE  AllReload'
BY DEF ExitMessage, ReloadMessage, Command, procVars, MasterInv, TypeOK, Slots,
   AllReload, UpToDate, Told

(* The master passes it on to the slot it has come to, or has passed all.  *)
LEMMA ReloadCast ==
  ASSUME MasterInv, AllReload, Cast \/ CastDone
  PROVE  AllReload'
<1> SUFFICES ASSUME NEW p \in Pids, Expects(p)'
             PROVE  UpToDate(p)'
  BY DEF AllReload
<1>1. /\ proc' = proc /\ slot' = slot /\ sock' = sock /\ version' = version
      /\ knows' = knows
  BY DEF Cast, CastDone, procVars, config
<1>2. Expects(p) /\ UpToDate(p)
  BY <1>1 DEF AllReload, Expects
<1>3. /\ slot[p] \in Slots /\ tries \in Nat /\ N \in Nat
      /\ inbox[p] \in Seq(Msgs)
  BY MasterAssumption, QueuesTyped DEF MasterInv, TypeOK
<1>4. CASE knows[p] = version
  BY <1>1, <1>4 DEF UpToDate
<1>5. CASE CastDone /\ knows[p] # version
  <2>1. ~(slot[p] >= tries)
    BY <1>3, <1>5 DEF CastDone, MoreSlots, Slots
  <2>2. TellsIn(inbox[p]) /\ inbox' = inbox
    BY <1>2, <1>5, <2>1, ToldMeans DEF UpToDate, CastDone, procVars
  <2> QED
    BY <2>2 DEF UpToDate, Told, TellsIn
<1>6. CASE Cast /\ knows[p] # version
  <2>1. /\ pc = "cast" /\ pc' = "cast" /\ tries' = tries + 1
        /\ cast \in {"quit", "reload"}
    BY <1>6 DEF Cast, MasterInv, MasterHolds
  <2>2. CASE slot[p] = tries
    <3>1. sock[tries] = p /\ Open(p)
      BY <1>2, <2>2 DEF Expects, Open
    <3>2. inbox'[p] = Append(inbox[p], cast)
      BY <1>6, <3>1 DEF Cast, MasterInv, TypeOK
    <3> QED
      BY <1>3, <2>1, <3>2, Queued DEF UpToDate, Told, TellsIn
  <2>3. CASE slot[p] # tries /\ TellsIn(inbox[p])
    <3>1. \/ inbox'[p] = inbox[p]
          \/ inbox'[p] = Append(inbox[p], cast)
      BY <1>6 DEF Cast, MasterInv, TypeOK
    <3>2. TellsIn(inbox'[p])
      BY <1>3, <2>1, <2>3, <3>1, Queued DEF Msgs
    <3> QED
      BY <3>2 DEF UpToDate, Told, TellsIn
  <2>4. CASE slot[p] # tries /\ ~TellsIn(inbox[p])
    <3>1. slot[p] >= tries
      BY <1>2, <1>6, <2>4, ToldMeans DEF UpToDate
    <3>2. slot'[p] >= tries'
      BY <1>1, <1>3, <2>1, <2>4, <3>1 DEF Slots
    <3> QED
      BY <2>1, <3>2 DEF UpToDate, Told
  <2> QED
    BY <2>2, <2>3, <2>4
<1> QED
  BY <1>4, <1>5, <1>6

(* A child reads its queue from the front.                                 *)
LEMMA ReloadReceive ==
  ASSUME MasterInv, AllReload, NEW q \in Pids, Receive(q)
  PROVE  AllReload'
<1> SUFFICES ASSUME NEW p \in Pids, Expects(p)'
             PROVE  UpToDate(p)'
  BY DEF AllReload
<1>1. /\ UNCHANGED <<slot, sock, version, pc, tries>>
      /\ proc[q] = "working" /\ inbox[q] # <<>>
      /\ inbox' = [inbox EXCEPT ![q] = Tail(inbox[q])]
      /\ inbox[q] \in Seq(Msgs)
  BY QueuesTyped DEF Receive, masterVars, MasterInv
<1>2. CASE p # q
  <2>1. proc'[p] = proc[p] /\ knows'[p] = knows[p] /\ inbox'[p] = inbox[p]
    BY <1>1, <1>2 DEF Receive, MasterInv, TypeOK
  <2>2. UpToDate(p)
    BY <1>1, <2>1 DEF AllReload, Expects
  <2> QED
    BY <1>1, <2>1, <2>2 DEF UpToDate, Told
<1>3. CASE p = q
  <2>1. CASE Head(inbox[q]) = "quit"
    BY <1>3, <2>1 DEF Receive, Expects, MasterInv, TypeOK
  <2>2. CASE Head(inbox[q]) = "reload"
    <3>1. knows'[p] = version
      BY <1>3, <2>2 DEF Receive, MasterInv, TypeOK
    <3> QED
      BY <1>1, <3>1 DEF UpToDate
  <2>3. CASE Head(inbox[q]) \notin {"quit", "reload"}
    <3>1. knows' = knows /\ proc' = proc /\ inbox'[p] = Tail(inbox[p])
      BY <1>1, <1>3, <2>3 DEF Receive, MasterInv, TypeOK
    <3>2. UpToDate(p)
      BY <1>1, <3>1 DEF AllReload, Expects
    <3>3. TellsIn(inbox[p]) => TellsIn(inbox'[p])
      BY <1>1, <1>3, <2>3, <3>1, Queued
    <3> QED
      BY <1>1, <3>1, <3>2, <3>3, ToldMeans DEF UpToDate, Told, TellsIn
  <2> QED
    BY <2>1, <2>2, <2>3
<1> QED
  BY <1>2, <1>3

(* The other steps of a child read no message.                             *)
LEMMA ReloadChild ==
  ASSUME MasterInv, AllReload, NEW q \in Pids,
         LockPid(q) \/ LockFails(q) \/ IdleOut(q) \/ CloseSocket(q) \/ Exit(q)
           \/ Crash(q)
  PROVE  AllReload'
<1>1. /\ UNCHANGED <<slot, sock, knows, version, pc, tries, inbox>>
      /\ \A p \in Pids : proc'[p] \in {"forked", "working"}
           => proc[p] \in {"forked", "working"}
  BY DEF LockPid, LockFails, IdleOut, CloseSocket, SocketShut, Exit, Crash, Becomes,
     masterVars, config, MasterInv, TypeOK
<1> QED
  BY <1>1 DEF AllReload, Expects, UpToDate, Told

(* The other steps of the master, outside a broadcast.                     *)
LEMMA ReloadMaster ==
  ASSUME MasterInv, AllReload,
         Boot \/ Accept \/ Reject \/ CheckTaken \/ CheckFree \/ Release
           \/ Replace \/ ReplaceFails \/ Send \/ Failover \/ Drop
  PROVE  AllReload'
<1>0. pc # "cast"
  BY DEF Boot, Accept, Reject, CheckTaken, CheckFree, Release, Replace,
     ReplaceFails, Send, Failover, Drop
<1>1. CASE \E i \in Slots, life \in Newborn : NewPair(i, life)
  BY <1>0, <1>1, ReloadFork
<1>2. CASE UNCHANGED <<slot, sock, knows, version, inbox, proc>>
  BY <1>0, <1>2, ReloadCarried
<1>3. CASE Boot \/ Replace \/ ReplaceFails
  <2>1. Boot => boot \in Slots
    BY MasterAssumption DEF Boot, MasterInv, MasterHolds, TypeOK, Slots
  <2>2. next \in Slots
    BY DEF MasterInv, TypeOK
  <2> QED
    BY <1>1, <1>2, <1>3, <2>1, <2>2 DEF Boot, Replace, ReplaceFails, Fork,
       NoFork, NoPrestart, Newborn, config
<1>4. CASE Accept \/ Reject \/ CheckTaken \/ CheckFree \/ Release \/ Failover
           \/ Drop
  BY <1>2, <1>4 DEF Accept, Reject, CheckTaken, CheckFree, Release, Failover,
     Drop, procVars, config
<1>5. CASE Send
  <2>1. /\ clt \in Clients /\ UNCHANGED <<slot, sock, knows, version, proc>>
        /\ inbox' = [inbox EXCEPT ![sock[next]] = Append(@, clt)]
    BY <1>5 DEF Send, MasterInv, MasterHolds, config
  <2>2. ASSUME NEW p \in Pids, TellsIn(inbox[p])
        PROVE  TellsIn(inbox'[p])
    <3>1. inbox'[p] = inbox[p] \/ inbox'[p] = Append(inbox[p], clt)
      BY <2>1 DEF MasterInv, TypeOK
    <3>2. inbox[p] \in Seq(Msgs) /\ clt \in Msgs
      BY <2>1, QueuesTyped DEF MasterInv, Msgs
    <3> QED
      BY <2>2, <3>1, <3>2, Queued
  <2> QED
    BY <1>0, <2>1, <2>2, ReloadCarried
<1> QED
  BY <1>3, <1>4, <1>5

(* A reload reaches every worker the slot table names, also one forked or  *)
(* still waiting for its slot's lock while it is passed on.                *)
THEOREM ReloadsReach == Spec => []ReloadReaches
<1>1. Init => AllReload
  BY DEF Init, AllReload, Expects
<1>2. MasterInv /\ AllReload /\ [Next]_vars => AllReload'
  <2> SUFFICES ASSUME MasterInv, AllReload, [Next]_vars PROVE AllReload'
    OBVIOUS
  <2>1. CASE UNCHANGED vars
    BY <2>1 DEF vars, AllReload, Expects, UpToDate, Told
  <2> QED
    BY <2>1, ReloadMaster, ReloadBegins, ReloadCast, ReloadReceive, ReloadChild
       DEF Next, Serve, Work, Hangs, Stopped
<1>3. AllReload => ReloadReaches
  BY DEF AllReload, ReloadReaches, Expects, UpToDate
<1> QED
  BY <1>1, <1>2, <1>3, MasterInvariant, PTL DEF Spec

-----------------------------------------------------------------------------
(* Dropped clients.                                                        *)

(* The clients that have been given to a child, or given up.               *)
Passed == {c \in Clients : client[c] \notin {"new", "held"}}

(* The commands passed on so far, and whether a child is to be sent one.   *)
Commands == version + (IF cast = "quit" THEN 1 ELSE 0)
Due(p)   == IF pc = "cast" /\ slot[p] >= tries THEN 1 ELSE 0

Held == pc \in {"check", "release", "fork", "send"} => client[clt] = "held"
Ours == \A i \in Slots : sock[i] \in Pids => slot[sock[i]] = i /\ proc[sock[i]] # "none"
Gone == \A p \in Pids : \A k \in 1 .. Len(inbox[p]) :
          inbox[p][k] \in Clients => client[inbox[p][k]] \notin {"new", "held"}

(* What is queued for a child are clients and commands, each of them once. *)
Bounded == \A p \in Pids : Len(inbox[p]) + Due(p) <= Cardinality(Passed) + Commands

(* Whoever has been tried has no child any more that would take a client.  *)
Behind(i, k) == next = IF i + k < N THEN i + k ELSE i + k - N
Tried == pc = "send" => \A i \in Slots, k \in 1 .. tries :
           Behind(i, k) => sock[i] \notin {p \in Pids : Open(p)}

Quits == cast = "quit" => pc \in {"cast", "stopped"}

Drops   == Held /\ Ours /\ Gone /\ Quits /\ Bounded /\ Tried
DropInv == MasterInv /\ Drops

LEMMA DropBegins ==
  ASSUME Init, IsFiniteSet(Clients)
  PROVE  Drops
<1>1. Passed = {}
  BY DEF Init, Passed
<1>2. Cardinality(Passed) = 0
  BY <1>1, FS_EmptySet
<1>3. \A p \in Pids : Len(inbox[p]) = 0 /\ Due(p) = 0
  BY DEF Init, Due
<1>4. Commands = 0
  BY DEF Init, Commands
<1>5. Bounded
  BY <1>2, <1>3, <1>4 DEF Bounded
<1>6. None \notin Pids
  BY MasterAssumption
<1> QED  BY <1>3, <1>5, <1>6 DEF Init, Drops, Held, Ours, Gone, Quits, Tried

(* What the sizes of the queues are made of.                               *)
LEMMA PassedIsFinite ==
  ASSUME IsFiniteSet(Clients)
  PROVE  IsFiniteSet(Passed) /\ Cardinality(Passed) \in Nat
BY FS_Subset, FS_CardinalityType DEF Passed

LEMMA BoundedKept ==
  ASSUME IsFiniteSet(Clients), MasterInv, MasterInv', Bounded,
         Passed \subseteq Passed', Commands' = Commands,
         \A p \in Pids : Len(inbox'[p]) <= Len(inbox[p]) /\ Due(p)' <= Due(p)
  PROVE  Bounded'
<1>1. IsFiniteSet(Passed) /\ Cardinality(Passed) \in Nat
  BY PassedIsFinite
<1>2. IsFiniteSet(Passed') /\ Cardinality(Passed') \in Nat
  <2> DEFINE P == Passed'
  <2>1. P \subseteq Clients
    BY DEF Passed
  <2> HIDE DEF P
  <2>2. IsFiniteSet(P) /\ Cardinality(P) \in Nat
    BY <2>1, FS_Subset, FS_CardinalityType
  <2> QED  BY <2>2 DEF P
<1>3. Cardinality(Passed) <= Cardinality(Passed')
  BY <1>1, <1>2, FS_Subset
<1>4. Commands \in Nat
  BY MasterAssumption DEF Commands, MasterInv, TypeOK
<1>5. ASSUME NEW p \in Pids
      PROVE  Len(inbox'[p]) + Due(p)' <= Cardinality(Passed') + Commands'
  <2>1. Len(inbox[p]) \in Nat /\ Len(inbox'[p]) \in Nat
    BY LenProperties DEF MasterInv, TypeOK
  <2>2. Due(p) \in Nat /\ Due(p)' \in Nat
    BY DEF Due
  <2>3. Len(inbox[p]) + Due(p) <= Cardinality(Passed) + Commands
    BY DEF Bounded
  <2> QED  BY <1>1, <1>2, <1>3, <1>4, <2>1, <2>2, <2>3
<1> QED  BY <1>5 DEF Bounded

LEMMA GoneKept ==
  ASSUME MasterInv, Gone, inbox' = inbox, Passed \subseteq Passed'
  PROVE  Gone'
<1>1. ASSUME NEW p \in Pids, NEW k \in 1 .. Len(inbox[p]), inbox[p][k] \in Clients
      PROVE  client'[inbox[p][k]] \notin {"new", "held"}
  BY <1>1 DEF Gone, Passed
<1> QED  BY <1>1 DEF Gone

(* A new child is its slot's.                                              *)
LEMMA OursFork ==
  ASSUME MasterInv, Ours, NEW i \in Slots, NEW life \in Newborn, NewPair(i, life)
  PROVE  Ours'
<1> PICK p \in Pids :
      /\ proc[p] = "none"
      /\ proc' = [proc EXCEPT ![p] = life]
      /\ slot' = [slot EXCEPT ![p] = i]
      /\ sock' = [sock EXCEPT ![i] = p]
  BY DEF NewPair
<1> QED  BY DEF Ours, MasterInv, TypeOK, Newborn

LEMMA OursKept ==
  ASSUME Ours, UNCHANGED <<sock, slot>>,
         \A p \in Pids : proc[p] # "none" => proc'[p] # "none"
  PROVE  Ours'
BY DEF Ours

(* A child that takes no client will take none later, and the slots do not *)
(* change while they are tried.                                            *)
LEMMA TriedKept ==
  ASSUME Tried, UNCHANGED <<pc, next, tries, sock>>, \A p \in Pids : Open(p)' => Open(p)
  PROVE  Tried'
BY DEF Tried, Behind
LEMMA DropQuiet ==
  ASSUME IsFiniteSet(Clients), MasterInv, MasterInv', Drops,
         UNCHANGED <<slot, inbox, client, masterVars, cast, version>>,
         \A p \in Pids : /\ proc[p] # "none" => proc'[p] # "none"
                         /\ Open(p)' => Open(p)
  PROVE  Drops'
<1> USE DEF masterVars, Drops
<1>1. Passed' = Passed /\ Commands' = Commands
  BY DEF Passed, Commands
<1>2. \A p \in Pids : Due(p)' = Due(p) /\ Due(p) \in Nat /\ Len(inbox[p]) \in Nat /\ Len(inbox'[p]) = Len(inbox[p])
  BY DEF Due, MasterInv, TypeOK
<1>3. Bounded'
  BY <1>1, <1>2, BoundedKept
<1>4. Held' /\ Quits'
  BY DEF Held, Quits
<1> QED  BY <1>1, <1>3, <1>4, OursKept, GoneKept, TriedKept

LEMMA DropReceive ==
  ASSUME IsFiniteSet(Clients), MasterInv, MasterInv', Drops, NEW q \in Pids, Receive(q)
  PROVE  Drops'
<1> USE DEF masterVars, Drops
<1> DEFINE m == Head(inbox[q])
<1>1. /\ inbox[q] \in Seq(Msgs) /\ inbox[q] # << >>
      /\ inbox' = [inbox EXCEPT ![q] = Tail(inbox[q])]
      /\ UNCHANGED <<slot, masterVars, cast, version>>
      /\ client' = IF m \in Clients THEN [client EXCEPT ![m] = "received"] ELSE client
  BY QueuesTyped DEF Receive, MasterInv
<1>2. PICK n \in Nat : n = Len(inbox[q])
  BY <1>1, LenProperties
<1>3. /\ n # 0 /\ m = inbox[q][1] /\ Len(Tail(inbox[q])) = n - 1
      /\ \A k \in 1 .. n - 1 : Tail(inbox[q])[k] = inbox[q][k + 1]
  BY <1>1, <1>2, HeadTailProperties, EmptySeq
<1>4. \A c \in Clients : client'[c] = client[c]
                         \/ (client'[c] = "received" /\ client[c] \notin {"new", "held"})
  BY <1>1, <1>2, <1>3, SMTT(40) DEF Gone, MasterInv, TypeOK
<1>5. Passed \subseteq Passed' /\ Commands' = Commands
  BY <1>1, <1>4 DEF Passed, Commands
<1>6. \A p \in Pids : Due(p)' = Due(p) /\ Due(p) \in Nat
  BY <1>1 DEF Due
<1>7. \A p \in Pids : Len(inbox'[p]) <= Len(inbox[p])
  <2>1. ASSUME NEW p \in Pids, p # q  PROVE  Len(inbox'[p]) = Len(inbox[p]) /\ Len(inbox[p]) \in Nat
    BY <1>1, <2>1 DEF MasterInv, TypeOK
  <2>2. Len(inbox'[q]) = n - 1 /\ Len(inbox[q]) = n
    <3>1. inbox'[q] = Tail(inbox[q])
      BY <1>1 DEF MasterInv, TypeOK
    <3> QED  BY <1>2, <1>3, <3>1
  <2>3. \A p \in Pids : p = q \/ Len(inbox'[p]) <= Len(inbox[p])
    BY <2>1
  <2> QED  BY <2>2, <2>3
<1>8. Bounded'
  BY <1>5, <1>6, <1>7, BoundedKept
<1>9. Held'
  BY <1>1, <1>4 DEF Held, MasterInv, MasterHolds
<1>10. Gone'
  <2> SUFFICES ASSUME NEW p \in Pids, NEW k \in 1 .. Len(inbox'[p]), inbox'[p][k] \in Clients
               PROVE  client'[inbox'[p][k]] \notin {"new", "held"}
    BY DEF Gone
  <2>1. PICK j \in 1 .. Len(inbox[p]) : inbox'[p][k] = inbox[p][j]
    <3>1. CASE p = q
      <4>1. inbox'[q] = Tail(inbox[q])
        BY <1>1 DEF MasterInv, TypeOK
      <4> QED  BY <1>2, <1>3, <3>1, <4>1
    <3>2. CASE p # q
      BY <1>1, <3>2 DEF MasterInv, TypeOK
    <3> QED  BY <3>1, <3>2
  <2>2. client[inbox[p][j]] \notin {"new", "held"}
    BY <2>1 DEF Gone
  <2> QED  BY <1>4, <2>1, <2>2
<1>11. /\ \A p \in Pids : proc[p] # "none" => proc'[p] # "none"
       /\ \A p \in Pids : Open(p)' => Open(p)
  BY DEF Receive, Open, MasterInv, TypeOK
<1>12. Ours' /\ Quits' /\ Tried'
  BY <1>1, <1>11, OursKept, TriedKept DEF Quits
<1> QED  BY <1>8, <1>9, <1>10, <1>12

LEMMA DropChild ==
  ASSUME IsFiniteSet(Clients), MasterInv, MasterInv', Drops, NEW p \in Pids,
         Work(p) \/ IdleOut(p) \/ Exit(p) \/ Crash(p)
  PROVE  Drops'
<1>1. CASE Receive(p)
  BY <1>1, DropReceive
<1>2. CASE LockPid(p) \/ LockFails(p) \/ CloseSocket(p) \/ Exit(p) \/ IdleOut(p) \/ Crash(p)
  <2>1. UNCHANGED <<slot, inbox, client, masterVars, cast, version>>
    BY <1>2 DEF LockPid, LockFails, CloseSocket, SocketShut, Exit, IdleOut, Crash, Becomes, config
  <2>2. \A q \in Pids : (proc[q] # "none" => proc'[q] # "none") /\ (Open(q)' => Open(q))
    BY <1>2 DEF LockPid, LockFails, CloseSocket, SocketShut, Exit, IdleOut, Crash, Becomes, Alive, Lives,
       Open, MasterInv, TypeOK
  <2> QED  BY <2>1, <2>2, DropQuiet
<1> QED  BY <1>1, <1>2 DEF Work

(* A step of the master that is no broadcast and sends nothing.            *)
LEMMA DropPause ==
  ASSUME IsFiniteSet(Clients), MasterInv, MasterInv', Drops, Ours', Passed \subseteq Passed',
         inbox' = inbox, UNCHANGED <<cast, version>>, pc' # "cast", cast # "quit" \/ pc = "cast"
  PROVE  Gone' /\ Bounded'
<1>1. Commands' = Commands
  BY DEF Commands
<1>2. \A p \in Pids : Due(p)' = 0 /\ Due(p) \in Nat /\ Len(inbox[p]) \in Nat /\ inbox'[p] = inbox[p]
  BY DEF Due, MasterInv, TypeOK
<1>3. Bounded'
  BY <1>1, <1>2, BoundedKept DEF Drops
<1> QED  BY <1>3, GoneKept DEF Drops

(* Children are forked, and clients come and go.                           *)
LEMMA DropMaster ==
  ASSUME IsFiniteSet(Clients), MasterInv, MasterInv', Drops,
         Boot \/ Accept \/ Reject \/ CheckTaken \/ CheckFree \/ Release
           \/ Replace \/ ReplaceFails \/ Drop
  PROVE  Drops'
<1>1. /\ inbox' = inbox /\ UNCHANGED <<cast, version>>
      /\ pc \notin {"cast", "stopped"} /\ pc' \notin {"cast", "stopped"}
  BY DEF Boot, Accept, Reject, CheckTaken, CheckFree, Release, Replace,
     ReplaceFails, Drop, NewPair, Fork, NoFork, NoPrestart, procVars, config
<1>2. \A c \in Clients : client[c] \notin {"new", "held"} => client'[c] \notin {"new", "held"}
  BY DEF Boot, Accept, Reject, CheckTaken, CheckFree, Release, Replace,
     ReplaceFails, Drop, MasterInv, TypeOK, MasterHolds
<1>3. Passed \subseteq Passed'
  BY <1>2 DEF Passed
<1>4. Ours'
  <2>1. CASE \E i \in Slots, life \in Newborn : NewPair(i, life)
    BY <2>1, OursFork DEF Drops
  <2>2. CASE UNCHANGED <<sock, slot, proc>>
    BY <2>2, OursKept DEF Drops
  <2>3. Boot => boot \in Slots
    BY MasterAssumption DEF Boot, MasterInv, MasterHolds, TypeOK, Slots
  <2>4. next \in Slots
    BY DEF MasterInv, TypeOK
  <2> QED
    BY <2>1, <2>2, <2>3, <2>4 DEF Boot, Accept, Reject, CheckTaken, CheckFree, Release,
       Replace, ReplaceFails, Drop, Fork, NoFork, NoPrestart, Newborn, procVars, config
<1>5. Held'
  BY DEF Boot, Accept, Reject, CheckTaken, CheckFree, Release, Replace,
     ReplaceFails, Drop, MasterInv, TypeOK, MasterHolds, Held, Drops
<1>6. Quits'
  BY <1>1 DEF Quits, Drops
<1>7. Tried'
  <2>1. pc' = "send" => tries' = 0
    BY DEF Boot, Accept, Reject, CheckTaken, CheckFree, Release, Replace,
       ReplaceFails, Drop
  <2> QED  BY <2>1 DEF Tried
<1>8. Gone' /\ Bounded'
  BY <1>1, <1>3, <1>4, DropPause DEF Drops, Quits
<1> QED  BY <1>4, <1>5, <1>6, <1>7, <1>8 DEF Drops

(* A child is given the client, which is one more that has been passed on. *)
LEMMA DropSend ==
  ASSUME IsFiniteSet(Clients), MasterInv, MasterInv', Drops, Send
  PROVE  Drops'
<1> DEFINE p == sock[next]
<1>1. /\ p \in Pids /\ clt \in Clients /\ client[clt] = "held" /\ pc = "send" /\ pc' = "accept"
      /\ inbox' = [inbox EXCEPT ![p] = Append(inbox[p], clt)]
      /\ client' = [client EXCEPT ![clt] = "sent"]
      /\ UNCHANGED <<sock, slot, proc, cast, version>>
  BY DEF Send, Takers, config, MasterInv, MasterHolds, Drops, Held
<1>2. \A c \in Clients : c # clt => client'[c] = client[c]
  BY <1>1 DEF MasterInv, TypeOK
<1>3. client'[clt] = "sent"
  BY <1>1 DEF MasterInv, TypeOK
<1>4. Passed' = Passed \cup {clt} /\ clt \notin Passed
  BY <1>1, <1>2, <1>3 DEF Passed
<1>5. Cardinality(Passed') = Cardinality(Passed) + 1 /\ Cardinality(Passed) \in Nat
  BY <1>4, PassedIsFinite, FS_AddElement
<1>6. /\ \A q \in Pids : q # p => inbox'[q] = inbox[q]
      /\ inbox'[p] = Append(inbox[p], clt)
  BY <1>1 DEF MasterInv, TypeOK
<1>7. PICK n \in Nat : n = Len(inbox[p])
  BY <1>1, LenProperties DEF MasterInv, TypeOK
<1>8. /\ Len(inbox'[p]) = n + 1 /\ inbox'[p][n + 1] = clt
      /\ \A k \in 1 .. n : inbox'[p][k] = inbox[p][k]
  <2>1. inbox[p] \in Seq(Msgs) /\ clt \in Msgs
    BY <1>1, QueuesTyped DEF MasterInv, Msgs
  <2> QED  BY <1>6, <1>7, <2>1, AppendProperties
<1>9. Commands' = Commands /\ Commands \in Nat /\ \A q \in Pids : Due(q)' = 0 /\ Due(q) = 0
  BY <1>1, MasterAssumption DEF Commands, Due, MasterInv, TypeOK
<1>10. Bounded'
  <2> SUFFICES ASSUME NEW q \in Pids
               PROVE  Len(inbox'[q]) + Due(q)' <= Cardinality(Passed') + Commands'
    BY DEF Bounded
  <2>1. Len(inbox[q]) + Due(q) <= Cardinality(Passed) + Commands
    BY DEF Drops, Bounded
  <2>2. Len(inbox[q]) \in Nat
    BY LenProperties DEF MasterInv, TypeOK
  <2>3. Len(inbox'[q]) \in {Len(inbox[q]), Len(inbox[q]) + 1}
    <3>1. CASE q = p
      BY <1>7, <1>8, <3>1
    <3>2. CASE q # p
      BY <1>6, <3>2
    <3> QED  BY <3>1, <3>2
  <2> HIDE DEF p
  <2> QED  BY <1>5, <1>9, <2>1, <2>2, <2>3
<1>11. Gone'
  <2> SUFFICES ASSUME NEW q \in Pids, NEW k \in 1 .. Len(inbox'[q]), inbox'[q][k] \in Clients
               PROVE  inbox'[q][k] \in Passed'
    BY DEF Gone, Passed
  <2>1. CASE inbox'[q][k] = clt
    BY <1>4, <2>1
  <2>2. CASE inbox'[q][k] # clt
    <3>1. k \in 1 .. Len(inbox[q]) /\ inbox'[q][k] = inbox[q][k]
      <4>1. CASE q = p
        BY <1>7, <1>8, <2>2, <4>1
      <4>2. CASE q # p
        BY <1>6, <4>2
      <4> QED  BY <4>1, <4>2
    <3>2. inbox[q][k] \in Passed
      BY <2>2, <3>1 DEF Drops, Gone, Passed
    <3> QED  BY <1>4, <3>1, <3>2
  <2> QED  BY <2>1, <2>2
<1>12. Held' /\ Quits' /\ Tried' /\ Ours'
  BY <1>1, OursKept DEF Held, Quits, Tried, Drops
<1> QED  BY <1>10, <1>11, <1>12 DEF Drops

LEMMA NextSlotIs ==
  ASSUME NEW i \in Slots
  PROVE  NextSlot(i) = IF i + 1 < N THEN i + 1 ELSE 0
BY MasterAssumption DEF Slots, NextSlot

(* While a client is in hand, a queue holds less than all clients and      *)
(* reloads.                                                                *)
LEMMA NotFull ==
  ASSUME IsFiniteSet(Clients), Cardinality(Clients) + Reloads <= QueueMax,
         MasterInv, Drops, pc = "send", NEW p \in Pids
  PROVE  ~Full(p)
<1>1. clt \in Clients /\ client[clt] = "held" /\ cast # "quit"
  BY DEF MasterInv, MasterHolds, Drops, Held, Quits
<1>2. Passed \subseteq Clients \ {clt}
  BY <1>1 DEF Passed
<1>3. /\ IsFiniteSet(Clients \ {clt}) /\ Cardinality(Clients \ {clt}) = Cardinality(Clients) - 1
      /\ Cardinality(Clients) \in Nat
  BY <1>1, FS_RemoveElement, FS_CardinalityType
<1>4. Cardinality(Passed) <= Cardinality(Clients) - 1
  BY <1>2, <1>3, FS_Subset
<1>5. Cardinality(Passed) \in Nat
  BY PassedIsFinite
<1>6. Len(inbox[p]) + Due(p) <= Cardinality(Passed) + Commands
  BY DEF Drops, Bounded
<1>7. Due(p) = 0 /\ Commands = version /\ version \in 0 .. Reloads /\ Len(inbox[p]) \in Nat
  BY <1>1, MasterAssumption, LenProperties DEF Due, Commands, MasterInv, TypeOK
<1> QED  BY <1>3, <1>4, <1>5, <1>6, <1>7, MasterAssumption DEF Full

(* One more slot has been tried.                                           *)
LEMMA DropFailover ==
  ASSUME IsFiniteSet(Clients), Cardinality(Clients) + Reloads <= QueueMax,
         MasterInv, MasterInv', Drops, Failover
  PROVE  Drops'
<1>1. /\ pc = "send" /\ pc' = "send" /\ tries' = tries + 1 /\ tries < N
      /\ next' = NextSlot(next) /\ sock[next] \notin Takers
      /\ UNCHANGED <<sock, clt, inbox, client, slot, proc, cast, version>>
  BY DEF Failover, NextTry, procVars, config
<1>2. next \in Slots /\ tries \in Nat /\ N \in Nat
  BY MasterAssumption DEF MasterInv, TypeOK
<1>3. sock[next] \notin {p \in Pids : Open(p)}
  BY <1>1, NotFull DEF Takers
<1>4. Tried'
  <2> SUFFICES ASSUME NEW i \in Slots, NEW k \in 1 .. tries + 1, Behind(i, k)'
               PROVE  sock[i] \notin {p \in Pids : Open(p)}
    BY <1>1 DEF Tried, Open
  <2>1. next' = IF next + 1 < N THEN next + 1 ELSE 0
    BY <1>1, <1>2, NextSlotIs
  <2>2. k <= N /\ next' = IF i + k < N THEN i + k ELSE i + k - N
    BY <1>1, <1>2 DEF Behind
  <2>3. CASE k = 1
    <3>1. i = next
      BY <1>2, <2>1, <2>2, <2>3 DEF Slots
    <3> QED  BY <1>3, <3>1
  <2>4. CASE k # 1
    <3>1. next = (IF i + (k - 1) < N THEN i + (k - 1) ELSE i + (k - 1) - N) /\ k - 1 \in 1 .. tries
      BY <1>2, <2>1, <2>2, <2>4 DEF Slots
    <3> QED  BY <1>1, <3>1 DEF Drops, Tried, Behind
  <2> QED  BY <2>3, <2>4
<1>5. Passed' = Passed
  BY <1>1 DEF Passed
<1>6. Ours' /\ Held' /\ Quits'
  BY <1>1, OursKept DEF Drops, Held, Quits
<1>7. Gone' /\ Bounded'
  BY <1>1, <1>5, <1>6, DropPause DEF Drops, Quits
<1> QED  BY <1>4, <1>6, <1>7 DEF Drops

(* A command is one more for every child, and is sent once to each.        *)
LEMMA DropCommand ==
  ASSUME IsFiniteSet(Clients), MasterInv, MasterInv', Drops, ExitMessage \/ ReloadMessage
  PROVE  Drops'
<1>1. /\ pc = "accept" /\ pc' = "cast" /\ cast # "quit"
      /\ UNCHANGED <<inbox, client, sock, slot, proc, clt>>
  BY DEF ExitMessage, ReloadMessage, Command, procVars, Drops, Quits
<1>2. Commands' = Commands + 1 /\ Commands \in Nat
  <2>1. version \in Nat /\ Commands = version
    BY <1>1, MasterAssumption DEF Commands, MasterInv, TypeOK
  <2>2. \/ version' = version /\ cast' = "quit"
        \/ version' = version + 1 /\ cast' = "reload"
    BY DEF ExitMessage, ReloadMessage, Command
  <2> QED  BY <2>1, <2>2 DEF Commands
<1>3. Passed' = Passed /\ Cardinality(Passed) \in Nat
  BY <1>1, PassedIsFinite DEF Passed
<1>4. ASSUME NEW p \in Pids
      PROVE  Len(inbox'[p]) + Due(p)' <= Cardinality(Passed') + Commands'
  <2>1. Len(inbox[p]) \in Nat /\ Due(p) = 0 /\ Due(p)' \in {0, 1}
    BY <1>1, LenProperties DEF Due, MasterInv, TypeOK
  <2>2. Len(inbox[p]) + Due(p) <= Cardinality(Passed) + Commands
    BY DEF Drops, Bounded
  <2> QED  BY <1>1, <1>2, <1>3, <2>1, <2>2
<1>5. Bounded'
  BY <1>4 DEF Bounded
<1> QED
  BY <1>1, <1>3, <1>5, OursKept, GoneKept DEF Drops, Held, Quits, Tried

LEMMA DropCast ==
  ASSUME IsFiniteSet(Clients), MasterInv, MasterInv', Drops, Cast
  PROVE  Drops'
<1>1. /\ pc = "cast" /\ pc' = "cast" /\ tries' = tries + 1 /\ tries \in Slots
      /\ UNCHANGED <<client, sock, slot, proc, clt, cast, version>>
  BY MasterAssumption DEF Cast, MoreSlots, config, MasterInv, TypeOK, Slots
<1>2. Passed' = Passed /\ Cardinality(Passed) \in Nat /\ Commands' = Commands /\ Commands \in Nat
  BY <1>1, PassedIsFinite, MasterAssumption DEF Passed, Commands, MasterInv, TypeOK
<1>3. cast \in Msgs \ Clients
  BY <1>1, MasterAssumption DEF MasterInv, MasterHolds, Msgs
<1>4. ASSUME NEW p \in Pids
      PROVE  \/ inbox'[p] = inbox[p]
             \/ inbox'[p] = Append(inbox[p], cast) /\ slot[p] = tries
  BY <1>1 DEF Cast, MasterInv, TypeOK, Drops, Ours
<1>5. ASSUME NEW p \in Pids
      PROVE  /\ inbox[p] \in Seq(Msgs) /\ Len(inbox[p]) \in Nat
             /\ Len(Append(inbox[p], cast)) = Len(inbox[p]) + 1
             /\ Append(inbox[p], cast)[Len(inbox[p]) + 1] = cast
             /\ \A k \in 1 .. Len(inbox[p]) : Append(inbox[p], cast)[k] = inbox[p][k]
  <2>1. inbox[p] \in Seq(Msgs) /\ cast \in Msgs
    BY <1>3, QueuesTyped DEF MasterInv
  <2> QED  BY <2>1, AppendProperties, LenProperties
<1>6. ASSUME NEW p \in Pids
      PROVE  Len(inbox'[p]) + Due(p)' <= Cardinality(Passed') + Commands'
  <2>1. Len(inbox[p]) + Due(p) <= Cardinality(Passed) + Commands
    BY DEF Drops, Bounded
  <2>2. slot[p] \in Nat /\ tries \in Nat
    BY <1>1 DEF MasterInv, TypeOK, Slots
  <2>3. /\ Due(p)' <= Due(p) /\ Due(p) \in {0, 1} /\ Due(p)' \in {0, 1}
        /\ slot[p] = tries => Due(p) = 1 /\ Due(p)' = 0
    BY <1>1, <2>2 DEF Due
  <2>4. PICK n \in Nat : n = Len(inbox[p])
    BY <1>5
  <2>5. CASE inbox'[p] = inbox[p]
    BY <1>2, <2>1, <2>3, <2>4, <2>5
  <2>6. CASE inbox'[p] = Append(inbox[p], cast) /\ slot[p] = tries
    <3>1. Len(inbox'[p]) = n + 1
      BY <1>5, <2>4, <2>6
    <3> QED  BY <1>2, <2>1, <2>3, <2>4, <2>6, <3>1
  <2> QED  BY <1>4, <2>5, <2>6
<1>7. Bounded'
  BY <1>6 DEF Bounded
<1>8. Gone'
  <2> SUFFICES ASSUME NEW p \in Pids, NEW k \in 1 .. Len(inbox'[p]), inbox'[p][k] \in Clients
               PROVE  client[inbox'[p][k]] \notin {"new", "held"}
    BY <1>1 DEF Gone
  <2>1. k \in 1 .. Len(inbox[p]) /\ inbox'[p][k] = inbox[p][k]
    <3>1. CASE inbox'[p] = inbox[p]
      BY <3>1
    <3>2. CASE inbox'[p] = Append(inbox[p], cast)
      <4>1. k # Len(inbox[p]) + 1
        BY <1>3, <1>5, <3>2
      <4> QED  BY <1>5, <3>2, <4>1
    <3> QED  BY <1>4, <3>1, <3>2
  <2> QED  BY <2>1 DEF Drops, Gone
<1> QED
  BY <1>1, <1>7, <1>8, OursKept DEF Drops, Held, Quits, Tried

LEMMA DropCastDone ==
  ASSUME IsFiniteSet(Clients), MasterInv, MasterInv', Drops, CastDone
  PROVE  Drops'
<1>1. /\ pc = "cast" /\ pc' = (IF cast = "quit" THEN "stopped" ELSE "accept")
      /\ UNCHANGED <<client, inbox, sock, slot, proc, clt, cast, version>>
  BY DEF CastDone, procVars, config
<1>2. Passed' = Passed
  BY <1>1 DEF Passed
<1>3. Ours' /\ Held' /\ Quits' /\ Tried'
  BY <1>1, OursKept DEF Drops, Held, Quits, Tried
<1>4. Gone' /\ Bounded'
  BY <1>1, <1>2, <1>3, DropPause
<1> QED  BY <1>3, <1>4 DEF Drops

(* A client is only given up when all slots have been tried.               *)
LEMMA DropAct ==
  ASSUME MasterInv, Drops, Next, pc = "send", client'[clt] = "closed", NEW i \in Slots
  PROVE  sock[i] \notin Takers
<1>1. clt \in Clients /\ client[clt] = "held"
  BY DEF MasterInv, MasterHolds, Drops, Held
<1>2. tries = N
  <2>1. CASE Drop
    BY <2>1 DEF Drop
  <2>2. CASE Serve /\ ~Drop
    BY <1>1, <2>2 DEF Serve, Boot, CheckTaken, CheckFree, Release, Replace, ReplaceFails,
       Send, Failover, Cast, CastDone, MasterInv, TypeOK
  <2>3. CASE Accept \/ Reject \/ ExitMessage \/ ReloadMessage \/ Hangs \/ Stopped
    BY <1>1, <2>3 DEF Accept, Reject, ExitMessage, ReloadMessage, Command, Hangs, Stopped, vars
  <2>4. ASSUME NEW p \in Pids, Work(p) \/ IdleOut(p) \/ Exit(p) \/ Crash(p)
        PROVE  client'[clt] # "closed"
    BY <1>1, <2>4 DEF Work, LockPid, LockFails, Receive, CloseSocket, SocketShut, Exit, IdleOut, Crash,
       MasterInv, TypeOK
  <2> QED  BY <2>1, <2>2, <2>3, <2>4 DEF Next
<1>3. next \in Slots /\ N \in Nat \ {0}
  BY MasterAssumption DEF MasterInv, TypeOK
<1>4. \E k \in 1 .. N : Behind(i, k)
  <2>1. CASE next > i
    <3>1. next - i \in 1 .. N /\ Behind(i, next - i)
      BY <1>3, <2>1 DEF Slots, Behind
    <3> QED  BY <3>1
  <2>2. CASE next <= i
    <3>1. next - i + N \in 1 .. N /\ Behind(i, next - i + N)
      BY <1>3, <2>2 DEF Slots, Behind
    <3> QED  BY <3>1
  <2> QED  BY <1>3, <2>1, <2>2 DEF Slots
<1> QED  BY <1>2, <1>4 DEF Drops, Tried, Takers

(* When queues never fill up, which they cannot if there is room for every *)
(* client and reload in one, the master closes a client in Accept only     *)
(* when no slot has a child that would take it.                            *)
THEOREM NoneWouldTake ==
  ASSUME IsFiniteSet(Clients), Cardinality(Clients) + Reloads <= QueueMax
  PROVE  Spec => DroppedOnlyWithoutWorker
<1>1. Init => Drops
  BY DropBegins
<1>2. MasterInv /\ MasterInv' /\ Drops /\ [Next]_vars => Drops'
  <2> SUFFICES ASSUME MasterInv, MasterInv', Drops, [Next]_vars PROVE Drops'
    OBVIOUS
  <2>1. CASE UNCHANGED vars
    BY <2>1, DropQuiet DEF vars, masterVars, Open
  <2>2. CASE Next
    <3>1. CASE Hangs \/ Stopped
      BY <3>1, DropQuiet DEF Hangs, Stopped, vars, masterVars, Open
    <3> QED
      BY <2>2, <3>1, DropMaster, DropSend, DropFailover, DropCommand, DropCast, DropCastDone,
         DropChild DEF Next, Serve
  <2> QED  BY <2>1, <2>2
<1>3. MasterInv /\ Drops /\ [Next]_vars =>
        [pc = "send" /\ clt # None /\ client'[clt] = "closed" =>
           \A i \in Slots : sock[i] \notin Takers]_vars
  BY DropAct DEF vars
<1> QED
  BY <1>1, <1>2, <1>3, MasterInvariant, PTL DEF Spec, DroppedOnlyWithoutWorker
=============================================================================
