-------------------------- MODULE WorkerPoolProofs --------------------------
(***************************************************************************)
(* Proofs about WorkerPool for any number of threads, sessions, and any    *)
(* limits.  The counters and the types are proved together: a counter is   *)
(* decremented by a thread in a given phase, and only because it counts    *)
(* the threads in that phase does it stay a natural number.                *)
(***************************************************************************)
EXTENDS WorkerPool, TLAPS, FiniteSetTheorems, SequenceTheorems

Where(f, S) == {t \in Threads : f[t] \in S}

(* Moving one thread changes the number of threads in a phase by what the  *)
(* place it leaves and the place it enters contribute.                     *)
LEMMA CountMove ==
  ASSUME NEW f \in [Threads -> Places], NEW t \in Threads, NEW to \in Places,
         NEW S
  PROVE  LET g == [f EXCEPT ![t] = to]
         IN  /\ Cardinality(Where(f, S)) \in Nat
             /\ Cardinality(Where(g, S)) \in Nat
             /\ Cardinality(Where(g, S)) =
                  Cardinality(Where(f, S)) + (IF to \in S THEN 1 ELSE 0)
                                           - (IF f[t] \in S THEN 1 ELSE 0)
<1> DEFINE g == [f EXCEPT ![t] = to]
           W == Where(f, S)
           V == W \ {t}
<1>1. IsFiniteSet(W)
  BY PoolAssumption, FS_Subset DEF Where
<1>2. /\ IsFiniteSet(V)
      /\ Cardinality(V) = IF t \in W THEN Cardinality(W) - 1 ELSE Cardinality(W)
  BY <1>1, FS_RemoveElement
<1>3. /\ IsFiniteSet(V \cup {t})
      /\ Cardinality(V \cup {t}) = Cardinality(V) + 1
  BY <1>2, FS_AddElement
<1>4. Where(g, S) = IF to \in S THEN V \cup {t} ELSE V
  BY DEF Where
<1>5. t \in W <=> f[t] \in S
  BY DEF Where
<1>6. /\ Cardinality(W) \in Nat
      /\ Cardinality(V) \in Nat
      /\ Cardinality(V \cup {t}) \in Nat
  BY <1>1, <1>2, <1>3, FS_CardinalityType
<1>7. Cardinality(Where(g, S)) = IF to \in S THEN Cardinality(V) + 1 ELSE Cardinality(V)
  BY <1>3, <1>4
<1> QED
  BY <1>2, <1>5, <1>6, <1>7

(* The same for a step of WorkerPool that moves thread t.                  *)
LEMMA MoveCount ==
  ASSUME TypeOK, NEW t \in Threads, NEW from \in Places, NEW to \in Places,
         Move(t, from, to), NEW S
  PROVE  /\ Cardinality(At(S)) \in Nat
         /\ Cardinality(At(S)') \in Nat
         /\ Cardinality(At(S)') =
              Cardinality(At(S)) + (IF to \in S THEN 1 ELSE 0)
                                 - (IF from \in S THEN 1 ELSE 0)
<1>1. st \in [Threads -> Places] /\ st' = [st EXCEPT ![t] = to] /\ st[t] = from
  BY DEF TypeOK, Move
<1>2. At(S) = Where(st, S) /\ At(S)' = Where(st', S)
  BY DEF At, Where
<1>3. LET g == [st EXCEPT ![t] = to]
      IN  /\ Cardinality(Where(st, S)) \in Nat
          /\ Cardinality(Where(g, S)) \in Nat
          /\ Cardinality(Where(g, S)) =
               Cardinality(Where(st, S)) + (IF to \in S THEN 1 ELSE 0)
                                         - (IF st[t] \in S THEN 1 ELSE 0)
  BY <1>1, CountMove, ZenonT(30)
<1> QED
  BY <1>1, <1>2, <1>3

(* More() changes the number of threads in no phase that a thread reaches  *)
(* by itself.                                                              *)
LEMMA MoreCounts ==
  ASSUME TypeOK, More, NEW S, S \cap {"none", "created"} = {}
  PROVE  At(S)' = At(S)
<1>1. CASE UNCHANGED st
  BY <1>1 DEF At
<1>2. CASE \E T \in NewThreads(MoreCount) :
             st' = [t \in Threads |-> IF t \in T THEN "created" ELSE st[t]]
  <2> PICK T \in NewThreads(MoreCount) :
             st' = [t \in Threads |-> IF t \in T THEN "created" ELSE st[t]]
    BY <1>2
  <2>1. T \in SUBSET At({"none"})
    BY DEF NewThreads
  <2>2. \A t \in T : st[t] = "none"
    BY <2>1 DEF At
  <2> QED
    BY <2>1, <2>2 DEF At
<1> QED
  BY <1>1, <1>2 DEF More

(* A thread that is registered, or idle, has been started.                 *)
LEMMA PlacesFacts ==
  /\ Registered \subseteq Places
  /\ Idling \subseteq Places
  /\ Registered \cap {"none", "created"} = {}
  /\ Idling \cap {"none", "created"} = {}
BY DEF Registered, Idling, Places

(* The dispatcher has a session in hand exactly between RECV_FD and the    *)
(* trylock, and it is the one received last.                               *)
InHand ==
  /\ pc = "try" => cur = arrived /\ cur \in Sessions
  /\ pc # "try" => cur = NoSession

TypedCounters == TypeOK /\ InHand /\ CountersExact

(* The counters start with no thread registered.                           *)
LEMMA TypedCountersInit == Init => TypedCounters
<1> SUFFICES ASSUME Init PROVE TypedCounters
  OBVIOUS
<1>1. TypeOK
  BY PoolAssumption DEF Init, TypeOK, Sessions, Places, NoSession, Free
<1>2. At(Registered) = {} /\ At(Idling) = {}
  BY DEF Init, At, Registered, Idling
<1> QED
  BY <1>1, <1>2, FS_EmptySet DEF TypedCounters, InHand, CountersExact, Init

(* Each step of a thread takes it from one place to another and changes a  *)
(* counter exactly when the two places differ in being counted.            *)
Shift(from, to) ==
  /\ size' = size + (IF to \in Registered THEN 1 ELSE 0)
                  - (IF from \in Registered THEN 1 ELSE 0)
  /\ idle' = idle + (IF to \in Idling THEN 1 ELSE 0)
                  - (IF from \in Idling THEN 1 ELSE 0)

(* Each step of a thread is a move between two places, with the counters'  *)
(* part of it.                                                             *)
LEMMA ThreadShifts ==
  ASSUME TypeOK, NEW t \in Threads, Thread(t)
  PROVE  \E from, to \in Places : Move(t, from, to) /\ Shift(from, to)
<1> USE DEF TypeOK, Shift, Registered, Idling, Places
<1>1. CASE Start(t)
  <2>1. Move(t, "created", "started") /\ Shift("created", "started")
    BY <1>1 DEF Start
  <2> QED BY <2>1
<1>2. CASE Register(t)
  <2>1. Move(t, "started", "counted") /\ Shift("started", "counted")
    BY <1>2 DEF Register
  <2> QED BY <2>1
<1>3. CASE RegisterIdle(t)
  <2>1. Move(t, "counted", "loop") /\ Shift("counted", "loop")
    BY <1>3 DEF RegisterIdle, OneMoreIdle
  <2> QED BY <2>1
<1>4. CASE LoopTest(t)
  <2>1. CASE running
    <3>1. Move(t, "loop", "wait") /\ Shift("loop", "wait")
      BY <1>4, <2>1 DEF LoopTest, KeepOn
    <3> QED BY <3>1
  <2>2. CASE ~running
    <3>1. Move(t, "loop", "leaving") /\ Shift("loop", "leaving")
      BY <1>4, <2>2 DEF LoopTest, KeepOn
    <3> QED BY <3>1
  <2> QED BY <2>1, <2>2
<1>5. CASE Take(t)
  <2>1. Move(t, "wait", "lock") /\ Shift("wait", "lock")
    BY <1>5 DEF Take
  <2> QED BY <2>1
<1>6. CASE Timeout(t)
  <2>1. Move(t, "wait", "leaving") /\ Shift("wait", "leaving")
    BY <1>6 DEF Timeout, AfterTimeout
  <2> QED BY <2>1
<1>7. CASE Lock(t)
  <2>1. Move(t, "lock", "hold") /\ Shift("lock", "hold")
    BY <1>7 DEF Lock
  <2> QED BY <2>1
<1>8. CASE Pop(t)
  <2>1. CASE queue = <<>>
    <3>1. Move(t, "hold", "loop") /\ Shift("hold", "loop")
      BY <1>8, <2>1 DEF Pop
    <3> QED BY <3>1
  <2>2. CASE queue # <<>>
    <3>1. Move(t, "hold", "begin") /\ Shift("hold", "begin")
      BY <1>8, <2>2 DEF Pop
    <3> QED BY <3>1
  <2> QED BY <2>1, <2>2
<1>9. CASE Begin(t)
  <2>1. Move(t, "begin", "busy") /\ Shift("begin", "busy")
    BY <1>9 DEF Begin
  <2> QED BY <2>1
<1>10. CASE Finish(t)
  <2>1. Move(t, "busy", "end") /\ Shift("busy", "end")
    BY <1>10 DEF Finish
  <2> QED BY <2>1
<1>11. CASE End(t)
  <2>1. Move(t, "end", "loop") /\ Shift("end", "loop")
    BY <1>11 DEF End, OneMoreIdle
  <2> QED BY <2>1
<1>12. CASE Unregister(t)
  <2>1. Move(t, "leaving", "left") /\ Shift("leaving", "left")
    BY <1>12 DEF Unregister
  <2> QED BY <2>1
<1>13. CASE UnregisterIdle(t)
  <2>1. Move(t, "left", "none") /\ Shift("left", "none")
    BY <1>13 DEF UnregisterIdle
  <2> QED BY <2>1
<1> QED
  BY <1>1, <1>2, <1>3, <1>4, <1>5, <1>6, <1>7, <1>8, <1>9, <1>10, <1>11,
     <1>12, <1>13 DEF Thread, ThreadRuns

(* The counters stay exact, and natural numbers, across a thread's step.   *)
LEMMA ThreadCounters ==
  ASSUME TypedCounters, NEW t \in Threads, Thread(t)
  PROVE  /\ CountersExact'
         /\ size' \in Nat /\ idle' \in Nat
         /\ st' \in [Threads -> Places]
<1> USE DEF TypedCounters, CountersExact
<1>1. PICK from \in Places, to \in Places : Move(t, from, to) /\ Shift(from, to)
  BY ThreadShifts
<1>2. /\ Cardinality(At(Registered)') \in Nat
      /\ Cardinality(At(Registered)') =
           Cardinality(At(Registered)) + (IF to \in Registered THEN 1 ELSE 0)
                                       - (IF from \in Registered THEN 1 ELSE 0)
  BY <1>1, MoveCount
<1>3. /\ Cardinality(At(Idling)') \in Nat
      /\ Cardinality(At(Idling)') =
           Cardinality(At(Idling)) + (IF to \in Idling THEN 1 ELSE 0)
                                   - (IF from \in Idling THEN 1 ELSE 0)
  BY <1>1, MoveCount
<1>4. Registered' = Registered /\ Idling' = Idling
  BY DEF Registered, Idling
<1>5. size' = Cardinality(At(Registered)') /\ idle' = Cardinality(At(Idling)')
  BY <1>1, <1>2, <1>3 DEF Shift
<1>6. st' \in [Threads -> Places]
  BY <1>1 DEF Move, TypeOK
<1> QED
  BY <1>2, <1>3, <1>4, <1>5, <1>6 DEF At

(* So a thread's step keeps types and counters ...                         *)
LEMMA ThreadTyped ==
  ASSUME TypedCounters, NEW t \in Threads, Thread(t)
  PROVE  TypedCounters'
<1>1. /\ CountersExact'
      /\ size' \in Nat /\ idle' \in Nat
      /\ st' \in [Threads -> Places]
  BY ThreadCounters
<1>2. /\ UNCHANGED dispVars
      /\ queue' \in Seq(Sessions)
      /\ mutex' \in {Free, Dispatcher} \cup Threads
      /\ sem' \in Nat
      /\ running' \in BOOLEAN
      /\ srv' \in [Threads -> Sessions \cup {NoSession}]
  <2> USE DEF TypedCounters, TypeOK
  <2>1. CASE Start(t)
    BY <2>1 DEF Start
  <2>2. CASE Register(t) \/ RegisterIdle(t) \/ LoopTest(t) \/ Timeout(t)
    BY <2>2 DEF Register, RegisterIdle, LoopTest, KeepOn, Timeout
  <2>3. CASE Take(t)
    BY <2>3 DEF Take
  <2>4. CASE Lock(t)
    BY <2>4 DEF Lock
  <2>5. CASE Pop(t)
    <3>1. CASE queue = <<>>
      BY <2>5, <3>1 DEF Pop
    <3>2. CASE queue # <<>>
      <4>1. Head(queue) \in Sessions /\ Tail(queue) \in Seq(Sessions)
        BY <3>2, HeadTailProperties
      <4> QED
        BY <2>5, <3>2, <4>1 DEF Pop, FrontFirst
    <3> QED
      BY <3>1, <3>2
  <2>6. CASE Begin(t) \/ End(t) \/ Unregister(t) \/ UnregisterIdle(t)
    BY <2>6 DEF Begin, End, Unregister, UnregisterIdle
  <2>7. CASE Finish(t)
    BY <2>7 DEF Finish
  <2> QED
    BY <2>1, <2>2, <2>3, <2>4, <2>5, <2>6, <2>7 DEF Thread, ThreadRuns
<1> QED
  BY <1>1, <1>2 DEF TypedCounters, TypeOK, InHand, dispVars, Sessions, Free, Dispatcher, NoSession

(* ... and one of the dispatcher, too, which does not change them.         *)
LEMMA DispatchTyped ==
  ASSUME TypedCounters, Dispatch
  PROVE  TypedCounters'
<1>1. UNCHANGED <<st, size, idle>> => CountersExact'
  BY DEF TypedCounters, CountersExact, At
<1> USE DEF TypedCounters, TypeOK, InHand
<1>2. CASE RecvSession
  BY <1>1, <1>2, PoolAssumption DEF RecvSession, poolVars, Sessions, NoSession
<1>3. CASE Enqueue
  <2>1. queue \o local \in Seq(Sessions) /\ Len(local) \in Nat
    BY ConcatProperties, LenProperties
  <2>2. Append(queue \o local, cur) \in Seq(Sessions)
    BY <1>3, <2>1, AppendProperties DEF Enqueue
  <2> QED
    BY <1>1, <1>3, <2>1, <2>2 DEF Enqueue, Enqueued, LocalPosts
<1>4. CASE Post \/ ReadIdle \/ IdleCheck \/ RecvQuit \/ Leave \/ LeaveSeen
        \/ Destroy \/ Exit
  <2>1. CASE Post
    BY <1>1, <2>1 DEF Post
  <2>2. CASE ReadIdle
    BY <1>1, <2>2 DEF ReadIdle, poolVars
  <2>3. CASE IdleCheck
    BY <1>1, <2>3 DEF IdleCheck, poolVars
  <2>4. CASE RecvQuit
    BY <1>1, <2>4 DEF RecvQuit, poolVars
  <2>5. CASE Leave
    BY <1>1, <2>5 DEF Leave
  <2>6. CASE LeaveSeen \/ Destroy \/ Exit
    BY <1>1, <2>6 DEF LeaveSeen, Destroy, Exit, poolVars
  <2> QED
    BY <1>4, <2>1, <2>2, <2>3, <2>4, <2>5, <2>6
<1>5. CASE KeepLocal
  BY <1>1, <1>5 DEF KeepLocal, poolVars
<1>6. CASE More
  <2>1. At(Registered)' = At(Registered) /\ At(Idling)' = At(Idling)
    BY <1>6, MoreCounts, PlacesFacts DEF Registered, Idling
  <2>2. st' \in [Threads -> Places]
    BY <1>6 DEF More, Places
  <2> QED
    BY <1>6, <2>1, <2>2 DEF More, CountersExact
<1>7. CASE TimeoutDrain
  <2>1. queue \o local \in Seq(Sessions) /\ Len(local) \in Nat
    BY ConcatProperties, LenProperties
  <2> QED
    BY <1>1, <1>7, <2>1 DEF TimeoutDrain
<1>8. CASE IdleTimeout
  BY <1>1, <1>8 DEF IdleTimeout, poolVars
<1>9. CASE LeavePoll \/ Exited
  BY <1>1, <1>9 DEF LeavePoll, Exited, vars
<1> QED
  BY <1>2, <1>3, <1>4, <1>5, <1>6, <1>7, <1>8, <1>9 DEF Dispatch

(* Spec keeps the types and the counters.                                  *)
THEOREM TypedCountersInvariant == Spec => []TypedCounters
<1>1. TypedCounters /\ [Next]_vars => TypedCounters'
  <2> SUFFICES ASSUME TypedCounters, [Next]_vars PROVE TypedCounters'
    OBVIOUS
  <2>1. CASE UNCHANGED vars
    BY <2>1 DEF vars, TypedCounters, TypeOK, InHand, CountersExact, At
  <2> QED
    BY <2>1, ThreadTyped, DispatchTyped DEF Next
<1> QED
  BY <1>1, TypedCountersInit, PTL DEF Spec

(* The types of every variable (the statics of Worker keep their ranges;   *)
(* SIZE and IDLE_NUM, unsigned in the code, never go below zero).          *)
THEOREM TypeCorrect == Spec => []TypeOK
BY TypedCountersInvariant, PTL DEF TypedCounters

(* SIZE and IDLE_NUM count the threads of their phases, however starting,  *)
(* serving and leaving threads interleave.                                 *)
THEOREM CountersAlwaysExact == Spec => []CountersExact
BY TypedCountersInvariant, PTL DEF TypedCounters

(* Both together, as the runs check them.                                  *)
THEOREM PoolAlwaysAccounts == Spec => []PoolAccounts
BY TypedCountersInvariant, PTL DEF TypedCounters, PoolAccounts

(* UnusedWhenDestroyed is inductive with the counters: SIZE was 0 at the   *)
(* poll, so nobody was at the queue then, and the threads that LEAVE had   *)
(* not counted find the flag cleared at their loop test, unless one of     *)
(* them has set it.                                                        *)
LEMMA ThreadUnused ==
  ASSUME TypedCounters, UnusedWhenDestroyed, NEW t \in Threads, Thread(t)
  PROVE  UnusedWhenDestroyed'
<1> USE DEF UnusedWhenDestroyed, At, Working, TypedCounters, TypeOK
<1>1. pc' = pc
  BY DEF Thread, ThreadRuns, Start, Register, RegisterIdle, LoopTest, Take,
     Timeout, Lock, Pop, Begin, Finish, End, Unregister, UnregisterIdle,
     dispVars
<1>2. CASE Start(t)
  BY <1>1, <1>2 DEF Start
<1>3. CASE Register(t) \/ RegisterIdle(t)
  BY <1>1, <1>3 DEF Register, RegisterIdle, Move
<1>4. CASE LoopTest(t)
  BY <1>1, <1>4 DEF LoopTest, KeepOn, Move
<1>5. CASE Take(t) \/ Timeout(t) \/ Lock(t) \/ Pop(t)
  BY <1>1, <1>5 DEF Take, Timeout, Lock, Pop, Move, AfterTimeout
<1>6. CASE Begin(t) \/ Finish(t) \/ End(t)
  BY <1>1, <1>6 DEF Begin, Finish, End, Move
<1>7. CASE Unregister(t) \/ UnregisterIdle(t)
  BY <1>1, <1>7 DEF Unregister, UnregisterIdle, Move
<1> QED
  BY <1>2, <1>3, <1>4, <1>5, <1>6, <1>7 DEF Thread, ThreadRuns

(* LEAVE_THREAD_POOL_HANDLER's poll of an exact SIZE makes the destruction *)
(* of MUTEX and the semaphore safe for every thread that had written the   *)
(* running flag before LEAVE did, the ones it has not counted included.    *)
THEOREM LocksUnusedAtTheEnd == Spec => []UnusedWhenDestroyed
<1>1. Init => UnusedWhenDestroyed
  BY DEF Init, UnusedWhenDestroyed
<1>2. ASSUME TypedCounters, UnusedWhenDestroyed, [Next]_vars
      PROVE  UnusedWhenDestroyed'
  <2>1. CASE UNCHANGED vars
    BY <1>2, <2>1 DEF vars, UnusedWhenDestroyed, At
  <2>2. CASE \E t \in Threads : Thread(t)
    BY <1>2, <2>2, ThreadUnused
  <2>3. CASE LeaveSeen
    <3>1. Cardinality(At(Registered)) = 0
      BY <1>2, <2>3 DEF LeaveSeen, AllLeft, TypedCounters, CountersExact
    <3>2. IsFiniteSet(At(Registered))
      BY PoolAssumption, FS_Subset DEF At
    <3>3. At(Registered) = {}
      BY <3>1, <3>2, FS_EmptySet
    <3> QED
      BY <2>3, <3>3 DEF LeaveSeen, poolVars, At, Registered, Working,
         UnusedWhenDestroyed
  <2>4. CASE Destroy \/ Exit
    BY <1>2, <2>4 DEF Destroy, Exit, poolVars, At, UnusedWhenDestroyed
  <2>5. CASE Dispatch /\ ~LeaveSeen /\ ~(Destroy \/ Exit)
    BY <1>2, <2>5 DEF Dispatch, RecvSession, Enqueue, Post, KeepLocal,
       ReadIdle, More, TimeoutDrain, IdleTimeout, IdleCheck, RecvQuit, Leave,
       LeavePoll, Exited, vars, At, UnusedWhenDestroyed
  <2> QED
    BY <1>2, <2>1, <2>2, <2>3, <2>4, <2>5 DEF Next
<1>3. TypedCounters /\ UnusedWhenDestroyed /\ [Next]_vars => UnusedWhenDestroyed'
  BY <1>2
<1> QED
  BY <1>1, <1>3, TypedCountersInvariant, PTL DEF Spec

(***************************************************************************)
(* MUTEX and the wakeups.  A thread is in its critical section exactly     *)
(* when it owns MUTEX; the tokens match the queue because Pop, under       *)
(* MUTEX, is the only step that takes a session out.                       *)
(***************************************************************************)
OwnerHolds == \A t \in Threads : st[t] = "hold" <=> mutex = t

PoolInv == TypedCounters /\ OwnerHolds /\ TokensMatchQueue

Ready == {"lock", "hold"}

(* Nobody holds the mutex at the start, and there are neither tokens nor   *)
(* sessions.                                                               *)
LEMMA PoolInvInit == Init => OwnerHolds /\ TokensMatchQueue
<1> SUFFICES ASSUME Init PROVE OwnerHolds /\ TokensMatchQueue
  OBVIOUS
<1>1. At({"lock", "hold"}) = {}
  BY DEF Init, At
<1>2. OwnerHolds
  BY PoolAssumption DEF Init, OwnerHolds, Free
<1>3. Cardinality(At({"lock", "hold"})) = 0 /\ Len(queue) = 0 /\ sem = 0 /\ pc # "post"
  BY <1>1, FS_EmptySet DEF Init
<1> QED
  BY <1>2, <1>3 DEF TokensMatchQueue

(* A step of a thread that takes no token and touches no queue.            *)
LEMMA QuietStep ==
  ASSUME TypeOK, TokensMatchQueue, NEW t \in Threads,
         NEW from \in Places \ Ready, NEW to \in Places \ Ready,
         Move(t, from, to), UNCHANGED <<pc, sem, queue>>
  PROVE  TokensMatchQueue'
<1>1. Cardinality(At(Ready)') = Cardinality(At(Ready))
  BY MoveCount
<1> QED
  BY <1>1 DEF TokensMatchQueue, Ready, At

(* A thread that takes a token takes a session with it.                    *)
LEMMA ThreadTokens ==
  ASSUME TypeOK, TokensMatchQueue, NEW t \in Threads, Thread(t)
  PROVE  TokensMatchQueue'
<1> USE DEF Ready, Places, dispVars
<1>1. CASE Start(t)
  BY <1>1, QuietStep DEF Start
<1>2. CASE Register(t)
  BY <1>2, QuietStep DEF Register
<1>3. CASE RegisterIdle(t)
  BY <1>3, QuietStep DEF RegisterIdle
<1>4. CASE LoopTest(t)
  <2>1. Move(t, "loop", "wait") \/ Move(t, "loop", "leaving")
    BY <1>4 DEF LoopTest, KeepOn
  <2> QED
    BY <1>4, <2>1, QuietStep DEF LoopTest, KeepOn
<1>5. CASE Take(t)
  <2>1. /\ Cardinality(At(Ready)) \in Nat
        /\ Cardinality(At(Ready)') = Cardinality(At(Ready)) + 1
    BY <1>5, MoveCount DEF Take
  <2>2. sem \in Nat /\ sem' = sem - 1 /\ UNCHANGED <<pc, queue>>
    BY <1>5 DEF Take, TypeOK
  <2> QED
    BY <2>1, <2>2 DEF TokensMatchQueue, At
<1>6. CASE Timeout(t)
  BY <1>6, QuietStep DEF Timeout, AfterTimeout
<1>7. CASE Lock(t)
  <2>1. Cardinality(At(Ready)') = Cardinality(At(Ready))
    BY <1>7, MoveCount DEF Lock
  <2>2. UNCHANGED <<pc, sem, queue>>
    BY <1>7 DEF Lock
  <2> QED
    BY <2>1, <2>2 DEF TokensMatchQueue, At
<1>8. CASE Pop(t)
  <2>1. Move(t, "hold", "loop") \/ Move(t, "hold", "begin")
    BY <1>8 DEF Pop
  <2>2. /\ Cardinality(At(Ready)) \in Nat
        /\ Cardinality(At(Ready)') \in Nat
        /\ Cardinality(At(Ready)') = Cardinality(At(Ready)) - 1
    BY <2>1, MoveCount
  <2>3. sem \in Nat /\ queue \in Seq(Sessions) /\ UNCHANGED <<pc, sem>>
    BY <1>8 DEF Pop, TypeOK
  <2>4. Len(queue) # 0
    BY <2>2, <2>3 DEF TokensMatchQueue, At
  <2>5. queue # <<>>
    BY <2>4
  <2>6. queue' = Tail(queue) /\ Len(queue') = Len(queue) - 1
    BY <1>8, <2>3, <2>5, HeadTailProperties DEF Pop, FrontFirst
  <2>7. Len(queue) \in Nat
    BY <2>3, LenProperties
  <2> QED
    BY <2>2, <2>3, <2>6, <2>7 DEF TokensMatchQueue, At
<1>9. CASE Begin(t)
  BY <1>9, QuietStep DEF Begin
<1>10. CASE Finish(t)
  BY <1>10, QuietStep DEF Finish
<1>11. CASE End(t)
  BY <1>11, QuietStep DEF End
<1>12. CASE Unregister(t)
  BY <1>12, QuietStep DEF Unregister
<1>13. CASE UnregisterIdle(t)
  BY <1>13, QuietStep DEF UnregisterIdle
<1> QED
  BY <1>1, <1>2, <1>3, <1>4, <1>5, <1>6, <1>7, <1>8, <1>9, <1>10, <1>11,
     <1>12, <1>13 DEF Thread, ThreadRuns

(* A thread takes and gives up MUTEX only for itself.                      *)
LEMMA ThreadOwns ==
  ASSUME TypeOK, OwnerHolds, NEW t \in Threads, Thread(t)
  PROVE  OwnerHolds'
<1> USE PoolAssumption DEF TypeOK, OwnerHolds, Move, Free
<1>1. CASE Lock(t)
  <2>1. \A u \in Threads : st[u] # "hold"
    BY <1>1 DEF Lock, MutexFree
  <2> QED
    BY <1>1, <2>1 DEF Lock
<1>2. CASE Pop(t)
  <2>1. st[t] = "hold" /\ mutex = t /\ mutex' = Free
    BY <1>2 DEF Pop
  <2>2. st' = [st EXCEPT ![t] = "loop"] \/ st' = [st EXCEPT ![t] = "begin"]
    BY <1>2 DEF Pop
  <2> QED
    BY <2>1, <2>2
<1>3. CASE Start(t) \/ Register(t) \/ RegisterIdle(t) \/ LoopTest(t)
  BY <1>3 DEF Start, Register, RegisterIdle, LoopTest, KeepOn
<1>4. CASE Take(t) \/ Timeout(t)
  BY <1>4 DEF Take, Timeout, AfterTimeout
<1>5. CASE Begin(t) \/ Finish(t) \/ End(t)
  BY <1>5 DEF Begin, Finish, End
<1>6. CASE Unregister(t) \/ UnregisterIdle(t)
  BY <1>6 DEF Unregister, UnregisterIdle
<1> QED
  BY <1>1, <1>2, <1>3, <1>4, <1>5, <1>6 DEF Thread, ThreadRuns

(* The dispatcher takes MUTEX only in TimeoutDrain, when no thread has it, *)
(* and posts as many tokens as it queues sessions.                         *)
LEMMA DispatchOwns ==
  ASSUME TypeOK, OwnerHolds, Dispatch
  PROVE  OwnerHolds'
<1> USE DEF TypeOK, OwnerHolds
<1>1. CASE More
  <2>1. CASE UNCHANGED st
    BY <1>1, <2>1 DEF More
  <2>2. CASE \E T \in NewThreads(MoreCount) :
               st' = [t \in Threads |-> IF t \in T THEN "created" ELSE st[t]]
    <3>1. \A t \in Threads : st'[t] = "hold" <=> st[t] = "hold"
      BY <2>2 DEF NewThreads, At
    <3> QED
      BY <1>1, <3>1 DEF More
  <2> QED
    BY <1>1, <2>1, <2>2 DEF More
<1>2. CASE TimeoutDrain
  <2>1. Dispatcher \notin Threads /\ mutex = Free /\ Free \notin Threads
    BY <1>2, PoolAssumption DEF TimeoutDrain, Dispatcher, Free
  <2> QED
    BY <1>2, <2>1 DEF TimeoutDrain
<1>3. CASE UNCHANGED <<mutex, st>>
  BY <1>3
<1> QED
  BY <1>1, <1>2, <1>3 DEF Dispatch, RecvSession, Enqueue, Post, KeepLocal,
     ReadIdle, IdleTimeout, IdleCheck, RecvQuit, Leave, LeavePoll,
     LeaveSeen, Destroy, Exit, Exited, vars, poolVars

(* The dispatcher queues a session and then posts its token.               *)
LEMMA DispatchTokens ==
  ASSUME TypeOK, TokensMatchQueue, Dispatch
  PROVE  TokensMatchQueue'
<1> USE DEF Ready
<1>1. /\ sem \in Nat /\ Len(queue) \in Nat /\ Len(local) \in Nat
      /\ Cardinality(At(Ready)) \in Nat
  <2>1. IsFiniteSet(At(Ready))
    BY PoolAssumption, FS_Subset DEF At
  <2> QED
    BY <2>1, FS_CardinalityType, LenProperties DEF TypeOK
<1>2. Len(queue \o local) = Len(queue) + Len(local)
  BY ConcatProperties DEF TypeOK
<1>3. UNCHANGED st => At(Ready)' = At(Ready)
  BY DEF At
<1>4. CASE Enqueue
  <2>1. Len(Append(queue \o local, cur)) = Len(queue \o local) + 1
    <3>1. queue \o local \in Seq(Sessions \cup {NoSession})
      BY ConcatProperties DEF TypeOK
    <3> QED
      BY <3>1, AppendProperties DEF TypeOK
  <2>2. sem' = sem + Len(local) /\ pc = "try" /\ pc' = "post"
    BY <1>4 DEF Enqueue, LocalPosts
  <2>3. Len(queue') = Len(queue) + Len(local) + 1 /\ At(Ready)' = At(Ready)
    BY <1>4, <1>1, <1>2, <1>3, <2>1 DEF Enqueue, Enqueued
  <2> QED
    BY <1>1, <2>2, <2>3 DEF TokensMatchQueue
<1>5. CASE Post
  BY <1>1, <1>3, <1>5 DEF Post, TokensMatchQueue
<1>6. CASE More
  <2>1. At(Ready)' = At(Ready)
    BY <1>6, MoreCounts
  <2> QED
    BY <1>6, <2>1 DEF More, TokensMatchQueue
<1>7. CASE TimeoutDrain
  <2>1. /\ sem' = sem + Len(local) /\ pc = "recv" /\ pc' = "recv"
        /\ Len(queue') = Len(queue) + Len(local)
        /\ At(Ready)' = At(Ready)
    BY <1>2, <1>3, <1>7 DEF TimeoutDrain
  <2> QED
    BY <1>1, <2>1 DEF TokensMatchQueue
<1>8. CASE /\ pc # "post" /\ pc' # "post"
           /\ UNCHANGED <<st, sem, queue>>
  BY <1>3, <1>8 DEF TokensMatchQueue
<1>9. CASE LeavePoll \/ Exited
  BY <1>9 DEF LeavePoll, Exited, vars, TokensMatchQueue, At
<1> QED
  BY <1>4, <1>5, <1>6, <1>7, <1>8, <1>9 DEF Dispatch, RecvSession, KeepLocal,
     ReadIdle, IdleTimeout, IdleCheck, RecvQuit, Leave, LeaveSeen, Destroy,
     Exit, poolVars

(* The counters are exact, the mutex has one owner and the tokens match    *)
(* the queue, at every moment.                                             *)
THEOREM PoolInvariant == Spec => []PoolInv
<1>1. Init => PoolInv
  BY TypedCountersInit, PoolInvInit DEF PoolInv
<1>2. PoolInv /\ [Next]_vars => PoolInv'
  <2> SUFFICES ASSUME PoolInv, [Next]_vars PROVE PoolInv'
    OBVIOUS
  <2> USE DEF PoolInv
  <2>1. CASE UNCHANGED vars
    BY <2>1 DEF vars, TypedCounters, TypeOK, InHand, CountersExact, At,
       OwnerHolds, TokensMatchQueue
  <2>2. CASE Dispatch
    BY <2>2, DispatchTyped, DispatchOwns, DispatchTokens DEF TypedCounters
  <2>3. CASE \E t \in Threads : Thread(t)
    BY <2>3, ThreadTyped, ThreadOwns, ThreadTokens DEF TypedCounters
  <2> QED
    BY <2>1, <2>2, <2>3 DEF Next
<1> QED
  BY <1>1, <1>2, PTL DEF Spec

(* Every session in the shared queue has exactly one wakeup, for any       *)
(* number of threads and sessions (sem_post/sem_timedwait in service.cpp). *)
THEOREM NoLostWakeup == Spec => []TokensMatchQueue
BY PoolInvariant, PTL DEF PoolInv

(* A worker at rest leaves a session in the shared queue only when MUTEX   *)
(* has leaked or no thread is waiting for work.                            *)
THEOREM StrandedWithoutThread == Spec => []StrandedOnlyWithoutThread
<1>1. PoolInv => StrandedOnlyWithoutThread
  <2> SUFFICES ASSUME PoolInv, Settled, pc = "recv", queue # <<>>,
                      mutex # Dispatcher
               PROVE  At({"none", "busy"}) = Threads
    BY DEF StrandedOnlyWithoutThread, Leaked
  <2> USE DEF PoolInv, TypedCounters
  <2>1. mutex = Free
    BY DEF TypeOK, OwnerHolds, Settled
  <2>2. At({"lock", "hold"}) = {}
    BY <2>1 DEF Settled, At
  <2>3. sem = Len(queue)
    <3>1. Cardinality(At({"lock", "hold"})) = 0 /\ sem \in Nat /\ pc # "post"
      BY <2>2, FS_EmptySet DEF TypeOK
    <3> QED
      BY <3>1 DEF TokensMatchQueue
  <2>4. sem # 0
    BY <2>3 DEF TypeOK
  <2> QED
    BY <2>1, <2>4 DEF Settled, At
<1> QED
  BY <1>1, PoolInvariant, PTL

(* The timeout branch of Worker::Working, which locks MUTEX and never      *)
(* unlocks it, ends the service of the worker for good.                    *)
THEOREM LeakIsFinal == Spec => LeakStopsService
<1> DEFINE Stops == Leaked => /\ Leaked'
                              /\ \A t \in Threads : srv'[t] \in {srv[t], NoSession}
<1>1. ASSUME PoolInv, [Next]_vars
      PROVE  [Stops]_vars
  <2> SUFFICES ASSUME Leaked, Next PROVE Stops
    BY <1>1
  <2> USE DEF Leaked
  <2>1. mutex = Dispatcher /\ mutex # Free /\ mutex \notin Threads
    BY PoolAssumption DEF Dispatcher, Free
  <2>2. \A t \in Threads : st[t] # "hold"
    BY <1>1, <2>1 DEF PoolInv, OwnerHolds
  <2>3. CASE Dispatch
    BY <2>1, <2>3 DEF Dispatch, RecvSession, Enqueue, Post, KeepLocal,
       ReadIdle, More, TimeoutDrain, IdleTimeout, IdleCheck, RecvQuit, Leave,
       LeavePoll, LeaveSeen, Destroy, Exit, Exited, vars, poolVars
  <2>4. ASSUME NEW t \in Threads, Thread(t)
        PROVE  Stops
    <3>1. ~Lock(t) /\ ~Pop(t)
      BY <2>1, <2>2 DEF Lock, MutexFree, Pop, Move
    <3>2. CASE Finish(t)
      BY <1>1, <2>1, <3>2 DEF Finish, PoolInv, TypedCounters, TypeOK
    <3> QED
      BY <2>1, <2>4, <3>1, <3>2 DEF Thread, ThreadRuns, Start, Register, RegisterIdle,
         LoopTest, KeepOn, Take, Timeout, Begin, End, Unregister, UnregisterIdle
  <2> QED
    BY <2>3, <2>4 DEF Next
<1>2. PoolInv /\ [Next]_vars => [Stops]_vars
  BY <1>1
<1> QED
  BY <1>2, PoolInvariant, PTL DEF Spec, LeakStopsService

(***************************************************************************)
(* The worker implements SessionHandoff.  The line of the abstract         *)
(* specification is the shared queue, the local queue and the session in   *)
(* the dispatcher's hands, one after the other: moving sessions from one   *)
(* to the next leaves it as it is.  Because sessions are numbered as they  *)
(* arrive, the line holds the latest ones in order, and what the threads   *)
(* have in hand came before them, so that no two threads have the same.    *)
(***************************************************************************)
InLine ==
  /\ Len(Pending) <= arrived
  /\ \A i \in 1 .. Len(Pending) : Pending[i] = Taken + i

OnePerThread ==
  /\ \A t \in Threads : srv[t] # NoSession <=> st[t] \in {"begin", "busy"}
  /\ \A t \in Threads : srv[t] <= Taken
  /\ \A t, u \in Threads :
        srv[t] = srv[u] /\ srv[t] # NoSession => t = u

LineInv == PoolInv /\ InLine /\ OnePerThread

(* What is taken from the head of a line does not depend on its tail.      *)
LEMMA HeadOfConcat ==
  ASSUME NEW S, NEW q \in Seq(S), NEW r \in Seq(S), q # <<>>
  PROVE  /\ q \o r # <<>>
         /\ Head(q \o r) = Head(q)
         /\ Tail(q \o r) = Tail(q) \o r
<1>1. Len(q) \in Nat /\ Len(r) \in Nat /\ Len(q) # 0
  BY LenProperties, EmptySeq
<1>2. /\ q \o r \in Seq(S) /\ Len(q \o r) = Len(q) + Len(r)
      /\ \A i \in 1 .. Len(q) + Len(r) :
            (q \o r)[i] = IF i <= Len(q) THEN q[i] ELSE r[i - Len(q)]
  BY ConcatProperties
<1>3. q \o r # <<>>
  BY <1>1, <1>2
<1>4. Head(q \o r) = Head(q)
  BY <1>1, <1>2
<1>5. /\ Tail(q) \in Seq(S) /\ Len(Tail(q)) = Len(q) - 1
      /\ \A i \in 1 .. Len(Tail(q)) : Tail(q)[i] = q[i + 1]
  BY HeadTailProperties
<1>6. /\ Tail(q \o r) \in Seq(S) /\ Len(Tail(q \o r)) = Len(q) + Len(r) - 1
      /\ \A i \in 1 .. Len(Tail(q \o r)) : Tail(q \o r)[i] = (q \o r)[i + 1]
  BY <1>2, <1>3, HeadTailProperties
<1>7. /\ Tail(q) \o r \in Seq(S)
      /\ Len(Tail(q) \o r) = Len(q) - 1 + Len(r)
      /\ \A i \in 1 .. Len(q) - 1 + Len(r) :
            (Tail(q) \o r)[i] = IF i <= Len(q) - 1 THEN Tail(q)[i]
                                ELSE r[i - (Len(q) - 1)]
  BY <1>5, ConcatProperties
<1>8. \A i \in 1 .. Len(q) - 1 + Len(r) : Tail(q \o r)[i] = (Tail(q) \o r)[i]
  BY <1>1, <1>2, <1>5, <1>6, <1>7
<1>9. Tail(q \o r) = Tail(q) \o r
  BY <1>1, <1>6, <1>7, <1>8, SeqEqual
<1> QED  BY <1>3, <1>4, <1>9

(* The parts of the line are sequences of sessions.                        *)
Carried == IF cur = NoSession THEN <<>> ELSE <<cur>>

(* The line is the queue, the dispatcher's own list and the session in its *)
(* hand.                                                                   *)
LEMMA LineParts ==
  ASSUME TypeOK
  PROVE  /\ queue \in Seq(Sessions) /\ local \in Seq(Sessions)
         /\ Carried \in Seq(Sessions)
         /\ queue \o local \in Seq(Sessions)
         /\ Pending = (queue \o local) \o Carried
         /\ Pending \in Seq(Sessions)
<1>1. Carried \in Seq(Sessions)
  BY DEF TypeOK, Carried
<1>2. queue \o local \in Seq(Sessions)
  BY ConcatProperties DEF TypeOK
<1>3. Pending = (queue \o local) \o Carried
  BY DEF Pending, Carried
<1>4. Pending \in Seq(Sessions)
  BY <1>1, <1>2, <1>3, ConcatProperties
<1> QED  BY <1>1, <1>2, <1>3, <1>4 DEF TypeOK

(* The steps of the dispatcher, as the line sees them.                     *)
Untouched == UNCHANGED <<arrived, Pending, srv>>

(* The dispatcher lets one session in at the end of the line, stops, or    *)
(* leaves the line as it is.                                               *)
LEMMA DispatchLine ==
  ASSUME LineInv, Dispatch
  PROVE  \/ /\ pc = "recv" /\ pc' = "try" /\ arrived' = arrived + 1
            /\ Pending' = Append(Pending, arrived + 1) /\ UNCHANGED srv
         \/ ~Stopping /\ Stopping' /\ Untouched
         \/ UNCHANGED Stopping /\ Untouched
<1> USE DEF LineInv, PoolInv, TypedCounters, InHand, Untouched
<1>1. CASE RecvSession
  <2>1. cur = NoSession /\ cur' = arrived + 1 /\ arrived + 1 # NoSession
    BY <1>1 DEF RecvSession, TypeOK, NoSession
  <2>2. Pending = queue \o local
    BY <2>1, LineParts, ConcatEmptySeq DEF Carried
  <2>3. Pending' = (queue \o local) \o <<arrived + 1>>
    BY <1>1, <2>1 DEF RecvSession, poolVars, Pending
  <2>4. arrived + 1 \in Sessions
    BY <1>1, PoolAssumption DEF RecvSession, TypeOK, Sessions
  <2>5. Append(queue \o local, arrived + 1) = (queue \o local) \o <<arrived + 1>>
    BY <2>4, LineParts, AppendIsConcat
  <2> QED  BY <1>1, <2>2, <2>3, <2>5 DEF RecvSession, poolVars
<1>2. CASE Enqueue
  <2>1. cur \in Sessions /\ cur # NoSession
    BY <1>2, PoolAssumption DEF Enqueue, Sessions, NoSession
  <2>2. Pending = Append(queue \o local, cur)
    BY <2>1, LineParts, AppendIsConcat DEF Carried
  <2>3. Append(queue \o local, cur) \in Seq(Sessions)
    BY <2>1, LineParts, AppendProperties
  <2>4. Pending' = (Append(queue \o local, cur) \o <<>>) \o <<>>
    BY <1>2 DEF Enqueue, Enqueued, Pending
  <2>5. Pending' = Pending
    BY <2>2, <2>3, <2>4, ConcatEmptySeq
  <2> QED  BY <1>2, <2>5 DEF Enqueue, Stopping
<1>3. CASE KeepLocal
  <2>1. cur \in Sessions /\ cur # NoSession
    BY <1>3, PoolAssumption DEF KeepLocal, Sessions, NoSession
  <2>2. Pending = (queue \o local) \o <<cur>>
    BY <2>1, LineParts DEF Carried
  <2>3. <<cur>> \in Seq(Sessions)
    BY <2>1
  <2>4. Pending' = (queue \o Append(local, cur)) \o <<>>
    BY <1>3 DEF KeepLocal, poolVars, Pending
  <2>5. Append(local, cur) = local \o <<cur>> /\ Append(local, cur) \in Seq(Sessions)
    BY <2>1, LineParts, AppendIsConcat, AppendProperties
  <2>6. queue \o Append(local, cur) \in Seq(Sessions)
    BY <2>5, LineParts, ConcatProperties
  <2>7. Pending' = queue \o (local \o <<cur>>)
    BY <2>4, <2>5, <2>6, ConcatEmptySeq
  <2>8. Pending' = Pending
    BY <2>2, <2>3, <2>7, LineParts, ConcatAssociative
  <2> QED  BY <1>3, <2>8 DEF KeepLocal, poolVars, Stopping
<1>4. CASE TimeoutDrain
  <2>1. Pending' = ((queue \o local) \o <<>>) \o Carried
    BY <1>4 DEF TimeoutDrain, Pending, Carried
  <2>2. Pending' = Pending
    BY <2>1, LineParts, ConcatEmptySeq
  <2> QED  BY <1>4, <2>2 DEF TimeoutDrain, Stopping
<1>5. CASE /\ UNCHANGED <<arrived, cur, local, queue, srv>>
           /\ (Stopping => Stopping')
  BY <1>5 DEF Pending, Stopping
<1> QED
  BY <1>1, <1>2, <1>3, <1>4, <1>5
     DEF Dispatch, Post, ReadIdle, More, IdleTimeout, IdleCheck, RecvQuit,
         Leave, LeavePoll, LeaveSeen, Destroy, Exit, Exited, vars, poolVars, Stopping

(* The steps of a thread.  A thread that holds MUTEX has a token, and so   *)
(* finds a session in the queue.                                           *)
LEMMA ThreadLine ==
  ASSUME LineInv, NEW t \in Threads, Thread(t)
  PROVE  /\ UNCHANGED <<arrived, pc>>
         /\ \/ /\ st[t] = "hold" /\ Pending # <<>> /\ Pending' = Tail(Pending)
               /\ srv' = [srv EXCEPT ![t] = Head(Pending)]
               /\ st' = [st EXCEPT ![t] = "begin"]
            \/ /\ st[t] = "busy" /\ srv' = [srv EXCEPT ![t] = NoSession]
               /\ st' = [st EXCEPT ![t] = "end"]
               /\ UNCHANGED Pending
            \/ /\ UNCHANGED <<Pending, srv>>
               /\ \/ /\ st[t] \notin {"begin", "busy"}
                     /\ \E to \in Places \ {"begin", "busy"} :
                           st' = [st EXCEPT ![t] = to]
                  \/ st[t] = "begin" /\ st' = [st EXCEPT ![t] = "busy"]
<1> USE DEF LineInv, PoolInv, TypedCounters
<1>1. UNCHANGED <<arrived, pc>>
  BY DEF Thread, ThreadRuns, Start, Register, RegisterIdle, LoopTest, KeepOn, Take, Timeout, Lock,
         Pop, Begin, Finish, End, Unregister, UnregisterIdle, dispVars
<1>2. CASE Pop(t)
  <2>1. st[t] = "hold" /\ queue # <<>>
    <3>1. st[t] = "hold"
      BY <1>2 DEF Pop, Move
    <3>2. t \in At({"lock", "hold"}) /\ IsFiniteSet(At({"lock", "hold"}))
      BY <3>1, PoolAssumption, FS_Subset DEF At
    <3>3. Cardinality(At({"lock", "hold"})) \in Nat \ {0}
      BY <3>2, FS_CardinalityType, FS_EmptySet
    <3>4. Len(queue) # 0
      BY <3>3 DEF TokensMatchQueue, TypeOK
    <3> QED  BY <3>1, <3>4
  <2>2. /\ srv' = [srv EXCEPT ![t] = Head(queue)] /\ queue' = Tail(queue)
        /\ st' = [st EXCEPT ![t] = "begin"] /\ UNCHANGED <<local, cur>>
    BY <1>2, <2>1 DEF Pop, FrontFirst, Move, dispVars
  <2>3. /\ queue \o local # <<>> /\ Head(queue \o local) = Head(queue)
        /\ Tail(queue \o local) = Tail(queue) \o local
    BY <2>1, LineParts, HeadOfConcat
  <2>4. /\ Pending # <<>> /\ Head(Pending) = Head(queue \o local)
        /\ Tail(Pending) = Tail(queue \o local) \o Carried
    <3> DEFINE front == queue \o local
    <3>1. /\ front \in Seq(Sessions) /\ Carried \in Seq(Sessions)
          /\ front # <<>> /\ Pending = front \o Carried
      BY <2>3, LineParts
    <3> HIDE DEF front
    <3>2. /\ front \o Carried # <<>> /\ Head(front \o Carried) = Head(front)
          /\ Tail(front \o Carried) = Tail(front) \o Carried
      BY <3>1, HeadOfConcat
    <3> QED  BY <3>1, <3>2 DEF front
  <2>5. Pending' = (Tail(queue) \o local) \o Carried
    BY <2>2 DEF Pending, Carried
  <2> QED  BY <1>1, <2>1, <2>2, <2>3, <2>4, <2>5
<1>3. ~Pop(t) => UNCHANGED Pending
  BY DEF Thread, ThreadRuns, Start, Register, RegisterIdle, LoopTest, KeepOn, Take, Timeout, Lock,
         Begin, Finish, End, Unregister, UnregisterIdle, dispVars, Pending
<1>4. CASE Finish(t)
  BY <1>1, <1>3, <1>4 DEF Finish, Move, Pop
<1>5. CASE Begin(t)
  BY <1>1, <1>3, <1>5 DEF Begin, Move, Pop
<1>6. CASE Start(t) \/ Register(t) \/ RegisterIdle(t)
  BY <1>1, <1>3, <1>6 DEF Start, Register, RegisterIdle, Move, Pop, Places
<1>7. CASE LoopTest(t) \/ Take(t) \/ Timeout(t) \/ Lock(t)
  BY <1>1, <1>3, <1>7 DEF LoopTest, KeepOn, Take, Timeout, Lock, AfterTimeout, Move,
                          Pop, Places
<1>8. CASE End(t) \/ Unregister(t) \/ UnregisterIdle(t)
  BY <1>1, <1>3, <1>8 DEF End, Unregister, UnregisterIdle, Move, Pop, Places
<1> QED  BY <1>2, <1>4, <1>5, <1>6, <1>7, <1>8 DEF Thread, ThreadRuns

(* At the start nobody has come.                                           *)
LEMMA LineInit == Init => InLine /\ OnePerThread
<1> SUFFICES ASSUME Init  PROVE InLine /\ OnePerThread
  OBVIOUS
<1>1. Pending = <<>>
  BY DEF Init, Pending
<1>2. \A t \in Threads : srv[t] = NoSession /\ st[t] \in {"created", "none"}
  BY DEF Init
<1> QED
  BY <1>1, <1>2 DEF Init, InLine, OnePerThread, Taken, NoSession

(* The number a line is behind by, and how many were taken.                *)
LEMMA LineTypes ==
  ASSUME TypeOK, InLine
  PROVE  /\ arrived \in Nat /\ Len(Pending) \in Nat /\ Taken \in Nat
         /\ Taken = arrived - Len(Pending)
         /\ \A t \in Threads : srv[t] \in Nat
<1>1. arrived \in Nat /\ Len(Pending) \in Nat
  BY LineParts, LenProperties, PoolAssumption DEF TypeOK
<1> QED  BY <1>1, PoolAssumption DEF InLine, Taken, TypeOK, Sessions, NoSession

(* The line keeps its order, and the threads what came before it.          *)
LEMMA LineNext ==
  ASSUME LineInv, Next
  PROVE  InLine' /\ OnePerThread'
<1> USE DEF LineInv, PoolInv, TypedCounters
<1>0. /\ Pending \in Seq(Sessions)
      /\ arrived \in Nat /\ Len(Pending) \in Nat /\ Taken \in Nat
      /\ Taken = arrived - Len(Pending)
      /\ \A t \in Threads : srv[t] \in Nat
  BY LineParts, LineTypes
<1>1. CASE Dispatch
  <2>1. \A t \in Threads : st'[t] \in {"begin", "busy"} <=>
                           st[t] \in {"begin", "busy"}
    <3>1. CASE More
      BY <3>1 DEF More, NewThreads, At, TypeOK
    <3>2. CASE UNCHANGED st
      BY <3>2
    <3> QED
      BY <1>1, <3>1, <3>2
         DEF Dispatch, RecvSession, Enqueue, Post, KeepLocal, ReadIdle,
             TimeoutDrain, IdleTimeout, IdleCheck, RecvQuit, Leave, LeavePoll,
             LeaveSeen, Destroy, Exit, Exited, vars, poolVars
  <2>2. CASE /\ arrived' = arrived + 1 /\ UNCHANGED srv
             /\ Pending' = Append(Pending, arrived + 1)
    <3>1. Pending \in Seq(Nat)
      <4>1. Sessions \subseteq Nat
        BY DEF Sessions
      <4> QED  BY <1>0, <4>1, SeqMonotonic
    <3>2. /\ Len(Pending') = Len(Pending) + 1
          /\ \A i \in 1 .. Len(Pending) : Pending'[i] = Pending[i]
          /\ Pending'[Len(Pending) + 1] = arrived + 1
      <4>1. arrived + 1 \in Nat
        BY <1>0
      <4> QED  BY <2>2, <3>1, <4>1, AppendProperties
    <3>3. Taken' = Taken
      BY <1>0, <2>2, <3>2 DEF Taken
    <3>4. InLine'
      <4>1. Len(Pending') <= arrived'
        BY <1>0, <2>2, <3>2 DEF InLine
      <4>2. ASSUME NEW i \in 1 .. Len(Pending')
            PROVE  Pending'[i] = Taken' + i
        <5>1. i \in 1 .. Len(Pending) \/ i = Len(Pending) + 1
          BY <1>0, <3>2
        <5>2. arrived + 1 = Taken + (Len(Pending) + 1)
          BY <1>0
        <5> QED  BY <3>2, <3>3, <5>1, <5>2 DEF InLine
      <4> QED  BY <4>1, <4>2 DEF InLine
    <3> QED  BY <2>1, <2>2, <3>3, <3>4 DEF OnePerThread
  <2>3. CASE Untouched
    BY <2>1, <2>3 DEF Untouched, InLine, OnePerThread, Taken
  <2> QED  BY <1>1, <2>2, <2>3, DispatchLine
<1>2. ASSUME NEW t \in Threads, Thread(t)
      PROVE  InLine' /\ OnePerThread'
  <2>1. /\ st \in [Threads -> Places] /\ srv \in [Threads -> Nat]
        /\ UNCHANGED arrived
    BY <1>0, <1>2, ThreadLine DEF TypeOK
  <2>2. CASE /\ st[t] = "hold" /\ Pending # <<>> /\ Pending' = Tail(Pending)
             /\ srv' = [srv EXCEPT ![t] = Head(Pending)]
             /\ st' = [st EXCEPT ![t] = "begin"]
    <3>1. /\ Len(Pending') = Len(Pending) - 1 /\ Len(Pending) # 0
          /\ \A i \in 1 .. Len(Pending') : Pending'[i] = Pending[i + 1]
          /\ Head(Pending) = Pending[1]
      BY <1>0, <2>2, HeadTailProperties, EmptySeq
    <3>2. Taken' = Taken + 1
      BY <1>0, <2>1, <3>1 DEF Taken
    <3>3. Head(Pending) = Taken + 1
      BY <1>0, <3>1 DEF InLine
    <3>4. InLine'
      <4>1. Len(Pending') <= arrived'
        BY <1>0, <2>1, <3>1 DEF InLine
      <4>2. ASSUME NEW i \in 1 .. Len(Pending')
            PROVE  Pending'[i] = Taken' + i
        <5>1. i + 1 \in 1 .. Len(Pending)
          BY <1>0, <3>1
        <5>2. Pending[i + 1] = Taken + (i + 1)
          BY <5>1 DEF InLine
        <5> QED  BY <1>0, <3>1, <3>2, <5>2
      <4> QED  BY <4>1, <4>2 DEF InLine
    <3>5. srv'[t] = Taken + 1 /\ \A u \in Threads : u # t => srv'[u] = srv[u]
      BY <2>1, <2>2, <3>3
    <3>6. \A u \in Threads : srv'[u] <= Taken'
      BY <1>0, <3>2, <3>5 DEF OnePerThread
    <3>7. \A u \in Threads : srv'[u] # NoSession <=> st'[u] \in {"begin", "busy"}
      BY <1>0, <2>1, <2>2, <3>5 DEF OnePerThread, NoSession
    <3>8. \A u, v \in Threads :
            srv'[u] = srv'[v] /\ srv'[u] # NoSession => u = v
      BY <1>0, <3>5 DEF OnePerThread
    <3> QED  BY <3>4, <3>6, <3>7, <3>8 DEF OnePerThread
  <2>3. CASE /\ st[t] = "busy" /\ srv' = [srv EXCEPT ![t] = NoSession]
             /\ st' = [st EXCEPT ![t] = "end"] /\ UNCHANGED Pending
    <3>1. InLine' /\ Taken' = Taken
      BY <2>1, <2>3 DEF InLine, Taken
    <3>2. srv'[t] = 0 /\ \A u \in Threads : u # t => srv'[u] = srv[u]
      BY <2>1, <2>3 DEF NoSession
    <3>3. st'[t] = "end" /\ \A u \in Threads : u # t => st'[u] = st[u]
      BY <2>1, <2>3
    <3> QED  BY <1>0, <3>1, <3>2, <3>3 DEF OnePerThread, NoSession
  <2>4. CASE /\ UNCHANGED <<Pending, srv>>
             /\ \/ /\ st[t] \notin {"begin", "busy"}
                   /\ \E to \in Places \ {"begin", "busy"} :
                         st' = [st EXCEPT ![t] = to]
                \/ st[t] = "begin" /\ st' = [st EXCEPT ![t] = "busy"]
    <3>1. InLine' /\ Taken' = Taken
      BY <2>1, <2>4 DEF InLine, Taken
    <3>2. \A u \in Threads : st'[u] \in {"begin", "busy"} <=>
                             st[u] \in {"begin", "busy"}
      BY <2>1, <2>4
    <3> QED  BY <2>4, <3>1, <3>2 DEF OnePerThread
  <2> QED  BY <1>2, <2>2, <2>3, <2>4, ThreadLine
<1> QED  BY <1>1, <1>2 DEF Next

(* The order of the line and what the threads have in hand, for any number *)
(* of sessions and of threads that come and go.                            *)
THEOREM LineInvariant == Spec => []LineInv
<1>1. Init => InLine /\ OnePerThread
  BY LineInit
<1>2. PoolInv /\ InLine /\ OnePerThread /\ [Next]_vars
        => InLine' /\ OnePerThread'
  <2> SUFFICES ASSUME LineInv, UNCHANGED vars
               PROVE  InLine' /\ OnePerThread'
    BY LineNext DEF LineInv
  <2> QED
    BY DEF LineInv, vars, InLine, OnePerThread, Taken, Pending
<1> QED  BY <1>1, <1>2, PoolInvariant, PTL DEF Spec, LineInv

(* Worker::Working and its threads keep the promise of SessionHandoff:     *)
(* each session is served once, by one thread, in the order of arrival,    *)
(* until the worker stops.                                                 *)
THEOREM WorkerHandsOff == Spec => HandoffSpec
<1>1. Init => Handoff!Init
  <2> SUFFICES ASSUME Init  PROVE Handoff!Init
    OBVIOUS
  <2>1. Pending = <<>> /\ ~Stopping
    BY DEF Init, Pending, Stopping
  <2>2. {srv[t] : t \in Threads} \ {NoSession} = {}
    BY DEF Init
  <2> QED  BY <2>1, <2>2 DEF Init, Handoff!Init
<1>2. LineInv /\ [Next]_vars => [Handoff!Next]_(Handoff!vars)
  <2> SUFFICES ASSUME LineInv, [Next]_vars
               PROVE  Handoff!Next \/ UNCHANGED Handoff!vars
    OBVIOUS
  <2> DEFINE held == {srv[t] : t \in Threads} \ {NoSession}
  <2>1. CASE UNCHANGED vars
    BY <2>1 DEF vars, Handoff!vars, Pending, Stopping
  <2>2. CASE Dispatch
    <3>1. CASE /\ pc = "recv" /\ pc' = "try" /\ arrived' = arrived + 1
               /\ Pending' = Append(Pending, arrived + 1) /\ UNCHANGED srv
      <4>1. ~Stopping /\ ~Stopping'
        BY <3>1 DEF Stopping
      <4>2. Handoff!Accept
        BY <3>1, <4>1 DEF Handoff!Accept
      <4> QED  BY <4>2 DEF Handoff!Next
    <3>2. CASE ~Stopping /\ Stopping' /\ Untouched
      <4>1. Handoff!Close
        BY <3>2 DEF Untouched, Handoff!Close
      <4> QED  BY <4>1 DEF Handoff!Next
    <3>3. CASE UNCHANGED Stopping /\ Untouched
      BY <3>3 DEF Untouched, Handoff!vars
    <3> QED  BY <2>2, <3>1, <3>2, <3>3, DispatchLine
  <2>3. ASSUME NEW t \in Threads, Thread(t)
        PROVE  Handoff!Next \/ UNCHANGED Handoff!vars
    <3>0. /\ UNCHANGED arrived /\ UNCHANGED Stopping
          /\ srv \in [Threads -> Sessions \cup {NoSession}]
      BY <2>3, ThreadLine DEF Stopping, LineInv, PoolInv, TypedCounters, TypeOK
    <3>1. CASE /\ st[t] = "hold" /\ Pending # <<>> /\ Pending' = Tail(Pending)
               /\ srv' = [srv EXCEPT ![t] = Head(Pending)]
      <4>1. srv[t] = NoSession
        BY <3>1 DEF LineInv, OnePerThread
      <4>2. Head(Pending) # NoSession
        <5>1. Head(Pending) \in Sessions
          BY <3>1, LineParts, HeadTailProperties
                   DEF LineInv, PoolInv, TypedCounters
        <5> QED  BY <5>1, PoolAssumption DEF Sessions, NoSession
      <4>3. held' = held \cup {Head(Pending)}
        BY <3>0, <3>1, <4>1, <4>2
      <4>4. Handoff!Serve
        BY <3>0, <3>1, <4>3 DEF Handoff!Serve
      <4> QED  BY <4>4 DEF Handoff!Next
    <3>2. CASE /\ st[t] = "busy" /\ srv' = [srv EXCEPT ![t] = NoSession]
               /\ UNCHANGED Pending
      <4>1. /\ srv[t] # NoSession
            /\ \A u \in Threads : u # t => srv[u] # srv[t]
        BY <3>2 DEF LineInv, OnePerThread
      <4>2. held' = held \ {srv[t]} /\ srv[t] \in held
        BY <3>0, <3>2, <4>1
      <4>3. PICK s \in held : s = srv[t]
        BY <4>2
      <4>4. Handoff!Done(s)
        BY <3>0, <3>2, <4>2, <4>3 DEF Handoff!Done
      <4> QED  BY <4>4 DEF Handoff!Next
    <3>3. CASE UNCHANGED <<Pending, srv>>
      BY <3>0, <3>3 DEF Handoff!vars
    <3> QED  BY <2>3, <3>1, <3>2, <3>3, ThreadLine
  <2> QED  BY <2>1, <2>2, <2>3 DEF Next
<1> QED
  BY <1>1, <1>2, LineInvariant, PTL DEF Spec, HandoffSpec, Handoff!Spec
=============================================================================
