----------------------------- MODULE SharedVars -----------------------------
(***************************************************************************)
(* Session variables, which the workers share through files: memory_cache  *)
(* of each worker keeps them in a map, writes the map to the file of its   *)
(* slot at every change, and reads the files of all slots, whose first     *)
(* lines have a version, before it answers.  Server variables are kept the *)
(* same way, under one name instead of a session's, and do not expire.     *)
(*                                                                         *)
(* One variable per session.  The threads of a worker take turns by the    *)
(* lock of the map.  memcached is not used.                                *)
(***************************************************************************)
EXTENDS Naturals, FiniteSets

CONSTANTS
  Workers,  \* the slots, each with a worker or none
  Clients,  \* a client's requests can reach any worker
  LastTime, \* bound: the clock
  Changes,  \* bound: how many requests set the variable
  Stops,    \* bound: how many times workers stop or crash
  Life      \* a variable that was set longer ago is not saved

ASSUME VarsAssumption ==
  /\ LastTime \in Nat /\ Changes \in Nat /\ Stops \in Nat /\ Life \in Nat
  /\ "nobody" \notin Clients

(* A session's uid is made of the second, the process, and the address of  *)
(* the CHttp, which a worker's next one has again; the random number is    *)
(* seeded with the second.                                                 *)
Uids == (0 .. LastTime) \X Workers
NoUid == << >>
NoVar == [by |-> "nobody", at |-> 0]
NoVars == [u \in Uids |-> NoVar]
Empty == [ver |-> 0, vars |-> NoVars]
NotBegun == [of |-> "none", file |-> Empty]

VARIABLES
  now,     \* time()
  uid,     \* the session of each client, which its cookie has
  mem,     \* m_session_vars of each worker
  known,   \* m_session_vars_file_versions of each
  disk,    \* the file of each slot; version 0: it is empty or not there
  stage,   \* what each worker does
  saving,  \* what it is about to write
  serves,  \* the client whose variable it answers with
  toread,  \* the files it has still to read
  begun,   \* the one that it has read a block of, and what was in it then
  base,    \* the last complete change of that variable before, as in last;
           \* 0 too once an empty file has been read that is about to be written
  last,    \* when the last complete change of each was
  changes, stops, \* how many there have been
  torn,    \* a file has been read of which a part was written, or that was then written anew
  broken   \* a worker has crashed while it wrote its file

worker == <<mem, known, stage, saving, serves, toread, begun, base>>
allVars == <<now, uid, mem, known, disk, stage, saving, serves, toread, begun, base, last, changes,
          stops, torn, broken>>

VarsInit ==
  /\ now = 0
  /\ uid = [c \in Clients |-> NoUid]
  /\ mem = [w \in Workers |-> NoVars]
  /\ known = [w \in Workers |-> [f \in Workers |-> 0]]
  /\ disk = [w \in Workers |-> Empty]
  /\ stage = [w \in Workers |-> "idle"]
  /\ saving = [w \in Workers |-> NoVars]
  /\ serves = [w \in Workers |-> "nobody"]
  /\ toread = [w \in Workers |-> {}] /\ begun = [w \in Workers |-> NotBegun]
  /\ base = [w \in Workers |-> 0]
  /\ last = [u \in Uids |-> 0]
  /\ changes = 0 /\ stops = 0
  /\ torn = FALSE /\ broken = FALSE

Pass ==
  /\ now < LastTime /\ now' = now + 1
  /\ UNCHANGED <<uid, worker, disk, last, changes, stops, torn, broken>>

-----------------------------------------------------------------------------
(* _save_session_vars_: what is fresh is written, under a new version,     *)
(* once the file has been emptied; if nothing is, the file is left alone.  *)
Fresh(m) == [u \in Uids |-> IF now - m[u].at <= Life THEN m[u] ELSE NoVar]

SlipVersion(w) == IF known[w][w] = 0 THEN 1 ELSE known[w][w]
Version(w) == known[w][w] + 1

OpenOwn(w, m, next) ==
  IF Fresh(m) = NoVars
  THEN stage' = [stage EXCEPT ![w] = next] /\ UNCHANGED <<known, disk, saving>>
  ELSE /\ saving' = [saving EXCEPT ![w] = Fresh(m)]
       /\ known' = [known EXCEPT ![w][w] = Version(w)]
       /\ disk' = [disk EXCEPT ![w] = Empty]
       /\ stage' = [stage EXCEPT ![w] = IF next = "gone" THEN "writing last" ELSE "writing"]

Writing(w) == stage[w] \in {"writing", "partly", "writing last", "partly last"}

(* SetSessionVar and push_session_var. *)
Set(c, w) ==
  /\ stage[w] = "idle" /\ changes < Changes
  /\ LET u == IF uid[c] = NoUid THEN <<now, w>> ELSE uid[c]
         m == [mem[w] EXCEPT ![u] = [by |-> c, at |-> now]]
     IN /\ uid' = [uid EXCEPT ![c] = u]
        /\ mem' = [mem EXCEPT ![w] = m]
        /\ OpenOwn(w, m, "idle")
  /\ serves' = [serves EXCEPT ![w] = c]
  /\ changes' = changes + 1
  /\ UNCHANGED <<now, toread, begun, base, last, stops, torn, broken>>

(* The stream writes when its buffer is full, and when it is closed.       *)
WritePart(w) ==
  /\ stage[w] \in {"writing", "writing last"}
  /\ \E u \in Uids :
       /\ saving[w][u] # NoVar
       /\ \E v \in Uids \ {u} : saving[w][v] # NoVar
       /\ disk' = [disk EXCEPT ![w] = [ver |-> known[w][w],
                                       vars |-> [NoVars EXCEPT ![u] = saving[w][u]]]]
  /\ stage' = [stage EXCEPT ![w] = IF @ = "writing" THEN "partly" ELSE "partly last"]
  /\ UNCHANGED <<now, uid, mem, known, saving, serves, toread, begun, base, last, changes,
                 stops, torn, broken>>

WriteRest(w) ==
  /\ Writing(w)
  /\ disk' = [disk EXCEPT ![w] = [ver |-> known[w][w], vars |-> saving[w]]]
  /\ saving' = [saving EXCEPT ![w] = NoVars]
  /\ IF stage[w] \in {"writing", "partly"}
     THEN /\ stage' = [stage EXCEPT ![w] = "idle"]
          /\ last' = [last EXCEPT ![uid[serves[w]]] = saving[w][uid[serves[w]]].at + 1]
          /\ UNCHANGED <<mem, known>>
     ELSE /\ stage' = [stage EXCEPT ![w] = "gone"]
          /\ mem' = [mem EXCEPT ![w] = NoVars]
          /\ known' = [known EXCEPT ![w] = [f \in Workers |-> 0]]
          /\ UNCHANGED last
  /\ serves' = [serves EXCEPT ![w] = "nobody"]
  /\ UNCHANGED <<now, uid, toread, begun, base, changes, stops, torn, broken>>

-----------------------------------------------------------------------------
(* GetSessionVar and get_session_var: the files are read, and then what    *)
(* the map has is the answer.                                              *)
Get(c, w) ==
  /\ stage[w] = "idle" /\ uid[c] # NoUid
  /\ stage' = [stage EXCEPT ![w] = "reading"]
  /\ serves' = [serves EXCEPT ![w] = c]
  /\ toread' = [toread EXCEPT ![w] = Workers]
  /\ base' = [base EXCEPT ![w] = last[uid[c]]]
  /\ UNCHANGED <<now, uid, mem, known, disk, saving, begun, last, changes, stops, torn, broken>>

(* _reload_session_vars_: a variable is replaced by one set in a later     *)
(* second.                                                                 *)
Newer(old, new) == IF new # NoVar /\ (old = NoVar \/ old.at < new.at) THEN new ELSE old

(* ifstream reads a block at a time, from the file as it is then; what has *)
(* been read of one that stays as it is can be put into the map with the   *)
(* rest, as the other threads wait.                                        *)
ReadBlock(w, f) ==
  /\ f \in toread[w] /\ begun[w] = NotBegun
  /\ disk[f].ver \notin {0, known[w][f]}
  /\ begun' = [begun EXCEPT ![w] = [of |-> f, file |-> disk[f]]]
  /\ UNCHANGED <<now, uid, mem, known, disk, stage, saving, serves, toread, base, last, changes,
                 stops, torn, broken>>

HasTaken(w, f) ==
  /\ f \in toread[w] /\ toread' = [toread EXCEPT ![w] = @ \ {f}]
  /\ begun' = [begun EXCEPT ![w] = NotBegun]
  /\ UNCHANGED <<now, uid, disk, stage, saving, serves, last, changes, stops, broken>>

ReadFile(w, f) ==
  /\ begun[w] \in {NotBegun, [of |-> f, file |-> disk[f]]}
  /\ HasTaken(w, f)
  /\ IF disk[f].ver \in {0, known[w][f]} THEN UNCHANGED <<mem, known>>
     ELSE /\ known' = [known EXCEPT ![w][f] = disk[f].ver]
          /\ mem' = [mem EXCEPT ![w] = [u \in Uids |-> Newer(@[u], disk[f].vars[u])]]
  /\ torn' = (torn \/ stage[f] \in {"partly", "partly last"})
  /\ base' = [base EXCEPT ![w] = IF stage[f] \in {"writing", "writing last"} THEN 0 ELSE @]

(* A file that has been emptied or written anew since its first block was  *)
(* read: some lines are of the old one, and some, if any, of the new.      *)
Held(vs) == {u \in Uids : vs[u] # NoVar}
Mixed(m, older, newer, taken) ==
  [u \in Uids |-> LET v == IF u \in taken[1] THEN Newer(m[u], older[u]) ELSE m[u]
                  IN IF u \in taken[2] THEN Newer(v, newer[u]) ELSE v]

ReadMixed(w, f) ==
  /\ begun[w].of = f /\ begun[w].file # disk[f]
  /\ HasTaken(w, f)
  /\ known' = [known EXCEPT ![w][f] = begun[w].file.ver]
  /\ \E taken \in (SUBSET Held(begun[w].file.vars)) \X (SUBSET Held(disk[f].vars)) :
       mem' = [mem EXCEPT ![w] = Mixed(@, begun[w].file.vars, disk[f].vars, taken)]
  /\ torn' = TRUE
  /\ UNCHANGED base

Answering(w) == stage[w] = "reading" /\ toread[w] = {}

Answer(w) ==
  /\ Answering(w)
  /\ stage' = [stage EXCEPT ![w] = "idle"] /\ serves' = [serves EXCEPT ![w] = "nobody"]
  /\ base' = [base EXCEPT ![w] = 0]
  /\ UNCHANGED <<now, uid, mem, known, disk, saving, toread, begun, last, changes, stops, torn,
                 broken>>

-----------------------------------------------------------------------------
(* unload, at a worker's end. *)
Stop(w) ==
  /\ stage[w] = "idle" /\ stops < Stops
  /\ stops' = stops + 1
  /\ OpenOwn(w, mem[w], "gone")
  /\ UNCHANGED <<now, uid, mem, serves, toread, begun, base, last, changes, torn, broken>>

Crash(w) ==
  /\ stage[w] # "gone" /\ stops < Stops
  /\ stops' = stops + 1
  /\ broken' = (broken \/ Writing(w))
  /\ stage' = [stage EXCEPT ![w] = "gone"]
  /\ mem' = [mem EXCEPT ![w] = NoVars] /\ saving' = [saving EXCEPT ![w] = NoVars]
  /\ known' = [known EXCEPT ![w] = [f \in Workers |-> 0]]
  /\ serves' = [serves EXCEPT ![w] = "nobody"] /\ toread' = [toread EXCEPT ![w] = {}]
  /\ begun' = [begun EXCEPT ![w] = NotBegun]
  /\ base' = [base EXCEPT ![w] = 0]
  /\ UNCHANGED <<now, uid, disk, last, changes, torn>>

(* load, at the start of the worker that replaces it. *)
SlipNothing == {}
ToLoad == Workers

Start(w) ==
  /\ stage[w] = "gone"
  /\ mem' = [mem EXCEPT ![w] = NoVars]
  /\ known' = [known EXCEPT ![w] = [f \in Workers |-> 0]]
  /\ stage' = [stage EXCEPT ![w] = "loading"]
  /\ toread' = [toread EXCEPT ![w] = ToLoad]
  /\ UNCHANGED <<now, uid, disk, saving, serves, begun, base, last, changes, stops, torn, broken>>

Started(w) ==
  /\ stage[w] = "loading" /\ toread[w] = {}
  /\ stage' = [stage EXCEPT ![w] = "idle"]
  /\ UNCHANGED <<now, uid, mem, known, disk, saving, serves, toread, begun, base, last, changes,
                 stops, torn, broken>>

-----------------------------------------------------------------------------
VarsNext ==
  \/ Pass
  \/ \E w \in Workers :
       \/ \E c \in Clients : Set(c, w) \/ Get(c, w)
       \/ WritePart(w) \/ WriteRest(w) \/ Answer(w)
       \/ \E f \in Workers : ReadBlock(w, f) \/ ReadFile(w, f) \/ ReadMixed(w, f)
       \/ Stop(w) \/ Crash(w) \/ Start(w) \/ Started(w)

VarsSpec == VarsInit /\ [][VarsNext]_allVars

-----------------------------------------------------------------------------
VarsTypeOK ==
  /\ now \in 0 .. LastTime
  /\ \A w \in Workers :
       /\ stage[w] \in {"idle", "writing", "partly", "writing last", "partly last", "reading",
                     "loading", "gone"}
       /\ toread[w] \subseteq Workers
       /\ \A f \in Workers : known[w][f] \in 0 .. Changes + Stops

(* A request is answered with its own session's variable, and not with    *)
(* one of an earlier second than the last that had been saved when it came,*)
(* whichever worker it reaches and whatever has been restarted: unless that*)
(* one has expired, a file has been read that was empty or partly written  *)
(* then or was written meanwhile, or a crash has left such a file, whose   *)
(* version starts anew.                                                    *)
GetsLatest ==
  /\ VarsTypeOK
  /\ \A w \in Workers :
       (Answering(w) /\ base[w] > 0 /\ ~torn /\ ~broken) =>
         LET c == serves[w]
             answer == mem[w][uid[c]]
         IN \/ now - (base[w] - 1) > Life
            \/ answer # NoVar /\ answer.at >= base[w] - 1 /\ uid[answer.by] = uid[c]

(* What has been saved stays in some file, or is about to be written into  *)
(* one again, until it expires: no restart loses it, nor a save by a worker*)
(* that has been told of it late.                                          *)
StaysSaved ==
  \A u \in Uids :
    (last[u] > 0 /\ now - (last[u] - 1) <= Life /\ ~torn /\ ~broken) =>
      \E w \in Workers : \E v \in {disk[w].vars[u], saving[w][u]} :
        v # NoVar /\ v.at >= last[u] - 1
=============================================================================
