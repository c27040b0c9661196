--------------------------- MODULE SessionHandoff ---------------------------
(***************************************************************************)
(* What a worker process promises about the client connections the master  *)
(* hands to it: sessions, numbered in the order the worker received them,  *)
(* wait in one line, are taken from its head, each by one thread, and are  *)
(* in service until that thread is done.  The worker may stop at any time; *)
(* what is still waiting then is abandoned, and nothing is accepted any    *)
(* more.                                                                   *)
(*                                                                         *)
(* WorkerPool.tla implements this with two queues, a mutex, a semaphore    *)
(* and a growing and shrinking set of threads.                             *)
(***************************************************************************)
EXTENDS Naturals, Sequences

VARIABLES
  accepted,   \* how many sessions the worker has received
  waiting,    \* the sessions nobody serves yet, oldest first
  inService,  \* the sessions a thread is serving
  open        \* FALSE once the worker stops taking sessions

vars == <<accepted, waiting, inService, open>>

Init ==
  /\ accepted = 0
  /\ waiting = <<>>
  /\ inService = {}
  /\ open = TRUE

(* The worker receives the next session. *)
Accept ==
  /\ open
  /\ accepted' = accepted + 1
  /\ waiting' = Append(waiting, accepted + 1)
  /\ UNCHANGED <<inService, open>>

(* A thread takes the session that has waited longest. *)
Serve ==
  /\ waiting # <<>>
  /\ waiting' = Tail(waiting)
  /\ inService' = inService \cup {Head(waiting)}
  /\ UNCHANGED <<accepted, open>>

(* A thread is done with a session. *)
Done(s) ==
  /\ s \in inService
  /\ inService' = inService \ {s}
  /\ UNCHANGED <<accepted, waiting, open>>

(* The worker stops taking sessions. *)
Close ==
  /\ open
  /\ open' = FALSE
  /\ UNCHANGED <<accepted, waiting, inService>>

Next == Accept \/ Serve \/ Close \/ \E s \in inService : Done(s)

Spec == Init /\ [][Next]_vars
=============================================================================
