----------------------------- MODULE WorkerPool -----------------------------
(***************************************************************************)
(* One worker process of heaphttpd in the synchronous build:               *)
(* Worker::Working (the dispatcher, the process's main thread) receives    *)
(* client sockets from the master, queues them and grows the pool;         *)
(* START_THREAD_POOL_HANDLER (each pool thread) takes them from the queue  *)
(* and serves them; LEAVE_THREAD_POOL_HANDLER stops the pool.              *)
(*                                                                         *)
(* Sessions are numbered 1, 2, ... in the order RECV_FD returned them.     *)
(* The critical sections of the SIZE mutex and of the IDLE_NUM rwlock hold *)
(* one statement each and are single steps.  The dispatcher's critical     *)
(* section under MUTEX, between a trylock that succeeds and the unlock, is *)
(* a single step too: everything another thread could see of its middle is *)
(* a thread blocked on MUTEX.  A pool thread's critical section is two     *)
(* steps (Lock, Pop), so that the dispatcher's trylock can fail.           *)
(***************************************************************************)
EXTENDS Naturals, Sequences, FiniteSets

CONSTANTS
  Threads,      \* threads the operating system lets the process have
  MaxSessions,  \* bound: sessions the master hands to this worker
  MaxThreads,   \* CHttpBase::m_max_instance_thread_num
  Step          \* CHttpBase::m_thread_increase_step

ASSUME PoolAssumption ==
  /\ IsFiniteSet(Threads)
  /\ {"free", "dispatcher"} \cap Threads = {}
  /\ MaxSessions \in Nat
  /\ MaxThreads \in Nat
  /\ Step \in Nat

VARIABLES
  pc,        \* where the dispatcher is
  arrived,   \* sessions received so far
  cur,       \* session_param in the dispatcher's hands, or NoSession
  local,     \* local_session_queue
  queue,     \* m_STATIC_THREAD_POOL_ARG_QUEUE
  mutex,     \* holder of m_STATIC_THREAD_POOL_MUTEX: Free, Dispatcher, a thread
  sem,       \* value of m_STATIC_THREAD_POOL_SEM
  running,   \* m_STATIC_THREAD_POOL_EXIT (TRUE: keep running)
  size,      \* m_STATIC_THREAD_POOL_SIZE
  idle,      \* m_STATIC_THREAD_IDLE_NUM
  snap,      \* the counter the dispatcher read first
  st,        \* where each thread is
  srv        \* the session each thread has popped and not finished

dispVars == <<pc, arrived, cur, local, snap>>
poolVars == <<queue, mutex, sem, running, size, idle, st, srv>>
vars     == <<pc, arrived, cur, local, queue, mutex, sem, running, size,
              idle, snap, st, srv>>

NoSession  == 0
Free       == "free"
Dispatcher == "dispatcher"

Sessions == 1 .. MaxSessions

(* The places of a thread: not created; created and before the first       *)
(* statement; EXIT written; SIZE incremented; at the loop test; in         *)
(* sem_timedwait; before the mutex; holding it; session in hand; in        *)
(* SESSION_HANDLING; back from it; out of the loop; SIZE decremented.      *)
Places == {"none", "created", "started", "counted", "loop", "wait", "lock",
           "hold", "begin", "busy", "end", "leaving", "left"}

(* Places between SIZE++ and SIZE--, and between IDLE_NUM++ and --.        *)
Registered == {"counted", "loop", "wait", "lock", "hold", "begin", "busy",
               "end", "leaving"}
Idling     == {"loop", "wait", "lock", "hold", "begin", "leaving", "left"}

At(S) == {t \in Threads : st[t] \in S}

(* The dispatcher went back to RECV_FD without unlocking MUTEX.            *)
Leaked == mutex = Dispatcher

-----------------------------------------------------------------------------
(* INIT_THREAD_POOL_HANDLER and the constructor of ThreadPool, which       *)
(* creates pre_step = m_thread_increase_step threads.  pthread_create      *)
(* fails when Threads is used up, which the code ignores.                  *)
NewThreads(n) ==
  {S \in SUBSET At({"none"}) :
     Cardinality(S) = IF n < Cardinality(At({"none"}))
                      THEN n ELSE Cardinality(At({"none"}))}

Init ==
  /\ pc = "recv"
  /\ arrived = 0
  /\ cur = NoSession
  /\ local = <<>>
  /\ queue = <<>>
  /\ mutex = Free
  /\ sem = 0
  /\ running = TRUE
  /\ size = 0
  /\ idle = 0
  /\ snap = 0
  /\ \E S \in SUBSET Threads :
       /\ Cardinality(S) = IF Step < Cardinality(Threads)
                           THEN Step ELSE Cardinality(Threads)
       /\ st = [t \in Threads |-> IF t \in S THEN "created" ELSE "none"]
  /\ srv = [t \in Threads |-> NoSession]

-----------------------------------------------------------------------------
(* The dispatcher: Worker::Working.                                        *)

(* RECV_FD returns a client socket (ctrl is SessionParamData). *)
RecvSession ==
  /\ pc = "recv"
  /\ arrived < MaxSessions
  /\ arrived' = arrived + 1
  /\ cur' = arrived + 1
  /\ pc' = "try"
  /\ UNCHANGED <<local, snap>>
  /\ UNCHANGED poolVars

(* trylock succeeds: the local queue, then the new session, go to the      *)
(* shared queue; one sem_post for each of the local ones; unlock.          *)
(* (Here and below, a definition whose name begins with Slip is a faulty   *)
(* variant of the one after it and is used by nothing.)                    *)
Enqueued     == Append(queue \o local, cur)

SlipNoPosts == 0
LocalPosts  == Len(local)

Enqueue ==
  /\ pc = "try"
  /\ mutex = Free
  /\ queue' = Enqueued
  /\ sem' = sem + LocalPosts
  /\ local' = <<>>
  /\ cur' = NoSession
  /\ pc' = "post"
  /\ UNCHANGED <<arrived, snap, mutex, running, size, idle, st, srv>>

(* The sem_post of the new session comes after the unlock.                 *)
Post ==
  /\ pc = "post"
  /\ sem' = sem + 1
  /\ pc' = "grow"
  /\ UNCHANGED <<arrived, cur, local, snap, queue, mutex, running, size,
                 idle, st, srv>>

(* trylock fails: the session stays with the dispatcher.                   *)
KeepLocal ==
  /\ pc = "try"
  /\ mutex # Free
  /\ local' = Append(local, cur)
  /\ cur' = NoSession
  /\ pc' = "grow"
  /\ UNCHANGED <<arrived, snap>>
  /\ UNCHANGED poolVars

(* The dispatcher reads IDLE_NUM, then SIZE, and calls More().             *)
ReadIdle ==
  /\ pc = "grow"
  /\ snap' = idle
  /\ pc' = "more"
  /\ UNCHANGED <<arrived, cur, local>>
  /\ UNCHANGED poolVars

MoreCount == IF MaxThreads - size < Step THEN MaxThreads - size ELSE Step

More ==
  /\ pc = "more"
  /\ IF snap < Step /\ size < MaxThreads
     THEN \E S \in NewThreads(MoreCount) :
            st' = [t \in Threads |-> IF t \in S THEN "created" ELSE st[t]]
     ELSE UNCHANGED st
  /\ pc' = "recv"
  /\ UNCHANGED <<arrived, cur, local, snap, queue, mutex, sem, running, size,
                 idle, srv>>

(* RECV_FD times out with a local queue, and trylock succeeds: the local   *)
(* queue moves to the shared one.  This branch has no unlock.  It also     *)
(* resets last_service_idle_time, so the loop continues.                   *)
TimeoutDrain ==
  /\ pc = "recv"
  /\ local # <<>>
  /\ mutex = Free
  /\ mutex' = Dispatcher
  /\ queue' = queue \o local
  /\ sem' = sem + Len(local)
  /\ local' = <<>>
  /\ UNCHANGED <<pc, arrived, cur, snap, running, size, idle, st, srv>>

(* No thread can move but by the end of a session or by its own timeout.   *)
Settled ==
  \A t \in Threads :
    \/ st[t] \in {"none", "busy"}
    \/ st[t] = "wait" /\ sem = 0
    \/ st[t] = "lock" /\ mutex # Free

(* RECV_FD times out, there is nothing to drain (or MUTEX is taken), and   *)
(* m_service_idle_timeout seconds (600) have passed since the last         *)
(* message: by then the threads have long done all they can do without     *)
(* waiting.  The dispatcher reads SIZE ...                                 *)
IdleTimeout ==
  /\ pc = "recv"
  /\ local = <<>> \/ mutex # Free
  /\ Settled
  /\ snap' = size
  /\ pc' = "idle"
  /\ UNCHANGED <<arrived, cur, local>>
  /\ UNCHANGED poolVars

(* ... then IDLE_NUM, and quits if the two are equal.                      *)
IdleCheck ==
  /\ pc = "idle"
  /\ pc' = IF snap = idle THEN "quit" ELSE "recv"
  /\ UNCHANGED <<arrived, cur, local, snap>>
  /\ UNCHANGED poolVars

(* RECV_FD returns a quit message or fails.                                *)
RecvQuit ==
  /\ pc = "recv"
  /\ pc' = "quit"
  /\ UNCHANGED <<arrived, cur, local, snap>>
  /\ UNCHANGED poolVars

(* LEAVE_THREAD_POOL_HANDLER clears the flag, after the first statement of *)
(* the threads that have started and before that of those still to start   *)
(* ...                                                                     *)
Leave ==
  /\ pc = "quit"
  /\ running' = FALSE
  /\ pc' = "join"
  /\ UNCHANGED <<arrived, cur, local, snap, queue, mutex, sem, size, idle,
                 st, srv>>

(* ... polls SIZE every 10 ms ...                                          *)
LeavePoll ==
  /\ pc = "join"
  /\ size > 0
  /\ UNCHANGED vars

(* ... and finds it 0 at last.                                             *)
SlipNoJoin == TRUE
AllLeft    == size = 0

LeaveSeen ==
  /\ pc = "join"
  /\ AllLeft
  /\ pc' = "seen"
  /\ UNCHANGED <<arrived, cur, local, snap>>
  /\ UNCHANGED poolVars

(* It then destroys the locks, whoever has begun to use them meanwhile ... *)
Destroy ==
  /\ pc = "seen"
  /\ pc' = "destroyed"
  /\ UNCHANGED <<arrived, cur, local, snap>>
  /\ UNCHANGED poolVars

(* ... and Working returns to a process that exits.                        *)
Exit ==
  /\ pc = "destroyed"
  /\ pc' = "gone"
  /\ UNCHANGED <<arrived, cur, local, snap>>
  /\ UNCHANGED poolVars

Exited == pc = "gone" /\ UNCHANGED vars

-----------------------------------------------------------------------------
(* A pool thread: START_THREAD_POOL_HANDLER.                               *)

(* What a thread does with a lock that has been destroyed is undefined: a  *)
(* thread that comes to it is not followed beyond that point (Locks).      *)
Locks == pc \notin {"destroyed", "gone"}

Move(t, from, to) ==
  /\ pc # "gone"
  /\ st[t] = from
  /\ st' = [st EXCEPT ![t] = to]

(* The first statement sets the flag that LEAVE clears.                    *)
Start(t) ==
  /\ Move(t, "created", "started")
  /\ running' = TRUE
  /\ UNCHANGED dispVars
  /\ UNCHANGED <<queue, mutex, sem, size, idle, srv>>

Register(t) ==
  /\ Locks
  /\ Move(t, "started", "counted")
  /\ size' = size + 1
  /\ UNCHANGED dispVars
  /\ UNCHANGED <<queue, mutex, sem, running, idle, srv>>

SlipNotIdle == idle
OneMoreIdle == idle + 1

RegisterIdle(t) ==
  /\ Locks
  /\ Move(t, "counted", "loop")
  /\ idle' = OneMoreIdle
  /\ UNCHANGED dispVars
  /\ UNCHANGED <<queue, mutex, sem, running, size, srv>>

(* while(m_STATIC_THREAD_POOL_EXIT)                                        *)
SlipTestLater == TRUE
KeepOn        == running

LoopTest(t) ==
  /\ Move(t, "loop", IF KeepOn THEN "wait" ELSE "leaving")
  /\ UNCHANGED dispVars
  /\ UNCHANGED <<queue, mutex, sem, running, size, idle, srv>>

(* sem_timedwait succeeds ...                                              *)
Take(t) ==
  /\ sem > 0
  /\ Move(t, "wait", "lock")
  /\ sem' = sem - 1
  /\ UNCHANGED dispVars
  /\ UNCHANGED <<queue, mutex, running, size, idle, srv>>

(* ... or fails after m_service_idle_timeout (or by a signal).             *)
SlipWaitsAgain == "loop"
AfterTimeout   == "leaving"

Timeout(t) ==
  /\ sem = 0
  /\ Move(t, "wait", AfterTimeout)
  /\ UNCHANGED dispVars
  /\ UNCHANGED <<queue, mutex, sem, running, size, idle, srv>>

SlipNoLock == TRUE
MutexFree  == mutex = Free

Lock(t) ==
  /\ Locks
  /\ MutexFree
  /\ Move(t, "lock", "hold")
  /\ mutex' = t
  /\ UNCHANGED dispVars
  /\ UNCHANGED <<queue, sem, running, size, idle, srv>>

(* Pop the oldest session, if there is one, and unlock.                    *)
SlipNewest(q) == <<q[Len(q)]>> \o SubSeq(q, 1, Len(q) - 1)
FrontFirst(q) == q

Pop(t) ==
  /\ Locks
  /\ Move(t, "hold", IF queue = <<>> THEN "loop" ELSE "begin")
  /\ mutex' = Free
  /\ IF queue = <<>>
     THEN UNCHANGED <<queue, srv>>
     ELSE /\ srv' = [srv EXCEPT ![t] = Head(FrontFirst(queue))]
          /\ queue' = Tail(FrontFirst(queue))
  /\ UNCHANGED dispVars
  /\ UNCHANGED <<sem, running, size, idle>>

Begin(t) ==
  /\ Locks
  /\ Move(t, "begin", "busy")
  /\ idle' = idle - 1
  /\ UNCHANGED dispVars
  /\ UNCHANGED <<queue, mutex, sem, running, size, srv>>

(* SESSION_HANDLING returns; the parameter is deleted.                     *)
Finish(t) ==
  /\ Move(t, "busy", "end")
  /\ srv' = [srv EXCEPT ![t] = NoSession]
  /\ UNCHANGED dispVars
  /\ UNCHANGED <<queue, mutex, sem, running, size, idle>>

End(t) ==
  /\ Locks
  /\ Move(t, "end", "loop")
  /\ idle' = OneMoreIdle
  /\ UNCHANGED dispVars
  /\ UNCHANGED <<queue, mutex, sem, running, size, srv>>

Unregister(t) ==
  /\ Locks
  /\ Move(t, "leaving", "left")
  /\ size' = size - 1
  /\ UNCHANGED dispVars
  /\ UNCHANGED <<queue, mutex, sem, running, idle, srv>>

UnregisterIdle(t) ==
  /\ Locks
  /\ Move(t, "left", "none")
  /\ idle' = idle - 1
  /\ UNCHANGED dispVars
  /\ UNCHANGED <<queue, mutex, sem, running, size, srv>>

-----------------------------------------------------------------------------
Dispatch ==
  \/ RecvSession \/ Enqueue \/ Post \/ KeepLocal \/ ReadIdle \/ More
  \/ TimeoutDrain \/ IdleTimeout \/ IdleCheck \/ RecvQuit
  \/ Leave \/ LeavePoll \/ LeaveSeen \/ Destroy \/ Exit \/ Exited

(* What a thread does by itself; only the end of a session is not in it.   *)
ThreadRuns(t) ==
  \/ Start(t) \/ Register(t) \/ RegisterIdle(t) \/ LoopTest(t)
  \/ Take(t) \/ Timeout(t) \/ Lock(t) \/ Pop(t)
  \/ Begin(t) \/ End(t)
  \/ Unregister(t) \/ UnregisterIdle(t)

Thread(t) == ThreadRuns(t) \/ Finish(t)

Next == Dispatch \/ \E t \in Threads : Thread(t)

Spec == Init /\ [][Next]_vars

(***************************************************************************)
(* Fairness.  Every thread that can run is run by the kernel, and its      *)
(* sem_timedwait ends.  Finish is in no fairness condition: the accept     *)
(* loop of TLS, SSLRead and SSLWrite, the relays and the wait for an       *)
(* HTTP/2 window have no time-out, so a session need never return.         *)
(* The dispatcher runs on until it is back at RECV_FD, and RECV_FD times   *)
(* out after one second.  A message from the master, the master's own      *)
(* decision, is never promised; nor are ten idle minutes.                  *)
(***************************************************************************)
DispatcherRuns ==
  \/ Enqueue \/ Post \/ KeepLocal \/ ReadIdle \/ More \/ IdleCheck
  \/ Leave \/ LeaveSeen \/ Destroy \/ Exit

Fairness ==
  /\ \A t \in Threads : WF_vars(ThreadRuns(t))
  /\ WF_vars(DispatcherRuns)
  /\ WF_vars(TimeoutDrain)

FairSpec == Spec /\ Fairness

-----------------------------------------------------------------------------
(* Properties.                                                             *)

(* Every variable has its type; the queues hold sessions and the owner of  *)
(* MUTEX is a participant (service.cpp, the statics of Worker).            *)
TypeOK ==
  /\ pc \in {"recv", "try", "post", "grow", "more", "idle", "quit", "join",
             "seen", "destroyed", "gone"}
  /\ arrived \in 0 .. MaxSessions
  /\ cur \in Sessions \cup {NoSession}
  /\ local \in Seq(Sessions)
  /\ queue \in Seq(Sessions)
  /\ mutex \in {Free, Dispatcher} \cup Threads
  /\ sem \in Nat
  /\ running \in BOOLEAN
  /\ size \in Nat
  /\ idle \in Nat
  /\ snap \in Nat
  /\ st \in [Threads -> Places]
  /\ srv \in [Threads -> Sessions \cup {NoSession}]

(* The sessions nobody has taken yet, in the order they will be taken.     *)
Pending == (queue \o local) \o (IF cur = NoSession THEN <<>> ELSE <<cur>>)
Taken   == arrived - Len(Pending)

(* No wakeup is lost and none is spurious: each queued session has exactly *)
(* one token, in the semaphore, with a thread on its way to the queue, or  *)
(* about to be posted.  (So the queue is never found empty in Pop.)        *)
TokensMatchQueue ==
  sem + Cardinality(At({"lock", "hold"})) + (IF pc = "post" THEN 1 ELSE 0)
    = Len(queue)

(* SIZE and IDLE_NUM, each written under a lock of its own by threads that *)
(* start, serve and leave, count exactly the threads in those phases.      *)
CountersExact ==
  /\ size = Cardinality(At(Registered))
  /\ idle = Cardinality(At(Idling))

(* They never run below zero either, with everything else of its type.     *)
PoolAccounts == TypeOK /\ CountersExact

(* The places from which a thread takes the queue's MUTEX or serves.       *)
Working == {"wait", "lock", "hold", "begin", "busy", "end"}

(* From the last poll of LEAVE on, while MUTEX and the semaphore are being *)
(* destroyed, no thread waits for work, is at the queue or serves, unless  *)
(* one that had not yet begun when LEAVE cleared the flag has set it       *)
(* again: the threads that LEAVE does not see, not counted yet or not      *)
(* counted any more, only pass the locks of the counters on their way out. *)
UnusedWhenDestroyed ==
  pc \in {"seen", "destroyed"} /\ ~running => At(Working) = {}

(* When the process has come to rest with a session in the shared queue,   *)
(* no thread is waiting for work: MUTEX has leaked, or every thread is     *)
(* busy with another session or has timed out and gone.                    *)
StrandedOnlyWithoutThread ==
  Settled /\ pc = "recv" /\ queue # <<>> =>
    Leaked \/ At({"none", "busy"}) = Threads

(* Once the timeout branch has locked MUTEX it is never unlocked, and no   *)
(* thread takes a session again: the worker accepts and never serves.      *)
LeakStopsService ==
  [][Leaked => Leaked' /\ \A t \in Threads : srv'[t] \in {srv[t], NoSession}]_vars

Stopping == pc \in {"quit", "join", "seen", "destroyed", "gone"}
Staying  == Places \ {"none", "leaving", "left"}

(* A session whose sem_post is done is taken as long as one thread has not *)
(* left its loop by then, whatever the other threads do, unless MUTEX      *)
(* leaks, the worker stops, or every thread there is stays in a session    *)
(* that never returns.                                                     *)
AllInSessions == At(Staying) # {} /\ \A t \in At(Staying) : st[t] = "busy"

EventuallyServed ==
  \A s \in Sessions :
    (Taken < s /\ s <= Taken + Len(queue) /\ pc # "post" /\ At(Staying) # {})
      ~> (Taken >= s \/ Leaked \/ Stopping \/ []AllInSessions)

(* A worker that leaves its loop ends, late threads that set the running   *)
(* flag again notwithstanding, unless MUTEX has leaked or one session      *)
(* never returns.                                                          *)
PoolStops ==
  pc = "join" ~>
    (pc = "gone" \/ Leaked \/ \E t \in Threads : [](st[t] = "busy"))

(* The worker keeps the promise of SessionHandoff.                         *)
Handoff == INSTANCE SessionHandoff
  WITH accepted  <- arrived,
       waiting   <- Pending,
       inService <- {srv[t] : t \in Threads} \ {NoSession},
       open      <- ~Stopping

HandoffSpec == Handoff!Spec
=============================================================================
