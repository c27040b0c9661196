----------------------------- MODULE FileCache -----------------------------
(***************************************************************************)
(* The cache of local files of a worker (the file part of memory_cache)    *)
(* and the threads that serve files from it (web_doc::Response), while the *)
(* files change on the disk.                                               *)
(*                                                                         *)
(* A file's content is named by its version, the second in which it was    *)
(* last modified: contents of the same second are not told apart, as the   *)
(* code does not, though their lengths may differ.                         *)
(* Files are numbered in the order of the map, that of their names.  A     *)
(* cached object is named by the number of the request that pushed it, so  *)
(* that an address is never used twice.  Of an object's age the model      *)
(* keeps what the code compares it with.                                   *)
(***************************************************************************)
EXTENDS Naturals, FiniteSets, FiniteSetsExt

CONSTANTS
  Threads,      \* the pool threads of the worker
  NFiles,       \* files below html/
  MaxRequests,  \* bound: requests for files
  MaxVersions,  \* bound: seconds in which files are changed
  Lengths,      \* the lengths a file may have
  Single,       \* m_single_localfile_cache_size
  Total         \* m_total_localfile_cache_size

ASSUME FileCacheAssumption ==
  /\ NFiles \in Nat /\ MaxRequests \in Nat /\ MaxVersions \in Nat \ {0}
  /\ Lengths \subseteq Nat
  /\ Single \in Nat /\ Total \in Nat
  /\ 0 \notin Threads

Files == 1 .. NFiles
Objs  == 1 .. MaxRequests
None  == 0

(* Seconds since an object was created: none; less than 10; less than 90;  *)
(* no more than 900, the max_age of file_cache; more.                      *)
New == 0  Young == 1  Old == 2  Stale == 3  Expired == 4

VARIABLES
  disk,     \* version and length of each file; version 0: there is none
  made,     \* the second of the last change of a file
  asked,    \* requests so far
  live,     \* the file_cache objects that exist
  heap,     \* what each object holds
  cache,    \* m_file_cache: the object of each file, or None
  size,     \* m_file_cache_size
  writer,   \* the thread that holds m_file_rwlock for writing, or None
  readers,  \* the threads that hold each object's lock for reading
  pc,       \* where each thread is
  req,      \* number of each thread's request
  file,     \* the file it asks for
  seen,     \* what stat said of the file
  data,     \* version whose bytes are in file_buf
  obj,      \* file_cache_instance, or None
  victim    \* the object the pushing thread is about to delete, or None

shared == <<live, heap, cache, size, writer>>
local  == <<req, file, seen, data, victim>>
world  == <<disk, made, asked>>
vars == <<disk, made, asked, live, heap, cache, size, writer, readers, pc,
          req, file, seen, data, obj, victim>>

NoFile == [version |-> 0, length |-> 0]
Nothing == [file |-> 0, length |-> 0, modify |-> 0, content |-> 0, age |-> New]

Init ==
  /\ disk \in [Files -> {[version |-> 1, length |-> n] : n \in Lengths}]
  /\ made = 1 /\ asked = 0
  /\ live = {} /\ heap = [o \in Objs |-> Nothing]
  /\ cache = [f \in Files |-> None]
  /\ size = 0
  /\ writer = None
  /\ readers = [o \in Objs |-> {}]
  /\ pc = [t \in Threads |-> "idle"]
  /\ req = [t \in Threads |-> 0] /\ file = [t \in Threads |-> 0]
  /\ seen = [t \in Threads |-> NoFile] /\ data = [t \in Threads |-> 0]
  /\ obj = [t \in Threads |-> None]
  /\ victim = None

(* After undefined behaviour the worker is gone. *)
Dead == \E t \in Threads : pc[t] = "wild"

Goes(t, to) == pc' = [pc EXCEPT ![t] = to]

-----------------------------------------------------------------------------
(* The disk and the clock.                                                 *)

Modify(f) ==
  /\ made' \in made .. MaxVersions /\ made' <= made + 1
  /\ \E n \in Lengths :
       disk' = [disk EXCEPT ![f] = [version |-> made', length |-> n]]
  /\ UNCHANGED <<asked, readers, pc, obj>> /\ UNCHANGED <<shared, local>>

Remove(f) ==
  /\ disk[f] # NoFile
  /\ disk' = [disk EXCEPT ![f] = NoFile]
  /\ UNCHANGED <<made, asked, readers, pc, obj>> /\ UNCHANGED <<shared, local>>

Tick(o) ==
  /\ o \in live /\ heap[o].age < Expired
  /\ heap' = [heap EXCEPT ![o].age = @ + 1]
  /\ UNCHANGED <<live, cache, size, writer, readers, pc, obj>>
  /\ UNCHANGED <<world, local>>

-----------------------------------------------------------------------------
(* A request: look the file up under the read lock, unless the client asks *)
(* for no cached answer, and lock the object found.                        *)
(* (Here and below, a definition whose name begins with Slip is a faulty   *)
(* variant of the one after it and is used by nothing.)                    *)
Found(f) == cache[f] # None /\ heap[cache[f]].age < Expired

ReadLocked(o, t) == [readers EXCEPT ![o] = @ \cup {t}]

Request(t, f, nocache) ==
  /\ pc[t] = "idle" /\ asked < MaxRequests
  /\ writer = None
  /\ asked' = asked + 1
  /\ req' = [req EXCEPT ![t] = asked + 1]
  /\ file' = [file EXCEPT ![t] = f]
  /\ IF ~nocache /\ Found(f)
     THEN /\ obj' = [obj EXCEPT ![t] = cache[f]]
          /\ readers' = ReadLocked(cache[f], t)
          /\ Goes(t, "check")
     ELSE /\ Goes(t, "stat")
          /\ UNCHANGED <<obj, readers>>
  /\ UNCHANGED <<disk, made, seen, data, victim>> /\ UNCHANGED shared

Unlocked(t) ==
  IF obj[t] = None THEN readers ELSE [readers EXCEPT ![obj[t]] = @ \ {t}]

(* END_STEP1: the object is unlocked and the answer is complete.           *)
Finish(t) ==
  /\ readers' = Unlocked(t)
  /\ obj' = [obj EXCEPT ![t] = None]
  /\ Goes(t, "idle")
  /\ req' = [req EXCEPT ![t] = 0] /\ file' = [file EXCEPT ![t] = 0]
  /\ seen' = [seen EXCEPT ![t] = NoFile] /\ data' = [data EXCEPT ![t] = 0]
  /\ UNCHANGED victim /\ UNCHANGED <<world, shared>>

(* An object is good for less than ten seconds after the one it was        *)
(* created in; up to 90 seconds, if the file has not been modified since.  *)
SlipAnyTime(f, o) == disk[f] # NoFile
SameTime(f, o)    == disk[f] # NoFile /\ disk[f].version = heap[o].modify

Available(f, o) == heap[o].age = Young \/ (heap[o].age = Old /\ SameTime(f, o))

Hit(t) ==
  /\ pc[t] = "check"
  /\ Available(file[t], obj[t])
  /\ Goes(t, "send")
  /\ UNCHANGED <<readers, obj>> /\ UNCHANGED <<world, shared, local>>

SlipStaysLocked(t) == readers
LetGo(t)           == Unlocked(t)

Miss(t) ==
  /\ pc[t] = "check"
  /\ ~Available(file[t], obj[t])
  /\ readers' = LetGo(t)
  /\ obj' = [obj EXCEPT ![t] = None]
  /\ Goes(t, "stat")
  /\ UNCHANGED <<world, shared, local>>

(* 404, when stat, or get_file_etag, finds no file; and 304, when          *)
(* If-Modified-Since spares the content: an answer without a content.      *)
Short(t) ==
  /\ Goes(t, "send")
  /\ UNCHANGED <<readers, obj>> /\ UNCHANGED <<world, shared, local>>

NotFound(t) ==
  /\ pc[t] \in {"stat", "read"}
  /\ disk[file[t]] = NoFile
  /\ Short(t)

NotModified(t) == pc[t] = "read" /\ Short(t)

Stat(t) ==
  /\ pc[t] = "stat"
  /\ disk[file[t]] # NoFile
  /\ seen' = [seen EXCEPT ![t] = disk[file[t]]]
  /\ Goes(t, "read")
  /\ UNCHANGED <<readers, obj, req, file, data, victim>>
  /\ UNCHANGED <<world, shared>>

(* get_file_etag reads the file into a buffer of the length stat gave, if  *)
(* this is not too large for the cache, and does not look at the length.   *)
Fits(t) == seen[t].length <= Single

Read(t) ==
  /\ pc[t] = "read"
  /\ disk[file[t]] # NoFile
  /\ data' = [data EXCEPT ![t] = disk[file[t]].version]
  /\ Goes(t, IF ~Fits(t) THEN "send"
             ELSE IF disk[file[t]].length > seen[t].length THEN "wild"
             ELSE "push")
  /\ UNCHANGED <<readers, obj, req, file, seen, victim>>
  /\ UNCHANGED <<world, shared>>

-----------------------------------------------------------------------------
(* _push_file_, under the write lock.  An object of the same name makes    *)
(* room; otherwise, when the cache is full, the one _find_oldest_file_     *)
(* chooses.  Reading an access time through file_rdlock sets it, so that   *)
(* the access times compared are both the present: the later object wins   *)
(* when the second changes between the two, and else the shorter object.   *)
Cached == {f \in Files : cache[f] # None}

Shortest(S) ==
  CHOOSE f \in S : \A g \in S :
    LET a == heap[cache[f]].length  b == heap[cache[g]].length
    IN  a < b \/ (a = b /\ f <= g)

Oldest == {Shortest({g \in Cached : g >= f}) : f \in Cached}

Victims(f) ==
  IF cache[f] # None THEN {cache[f]}
  ELSE IF size < Total THEN {None}
  ELSE {cache[g] : g \in Oldest}

PushLock(t) ==
  /\ pc[t] = "push"
  /\ writer = None
  /\ writer' = t
  /\ IF Victims(file[t]) = {}      \* no oldest: end() is dereferenced
     THEN /\ Goes(t, "wild")
          /\ UNCHANGED victim
     ELSE /\ victim' \in Victims(file[t])
          /\ Goes(t, "insert")
  /\ UNCHANGED <<readers, obj, req, file, seen, data>>
  /\ UNCHANGED <<world, live, heap, cache, size>>

(* ~file_cache takes the object's lock for writing, so the push waits for  *)
(* the readers of the victim, with the lock of the cache.                  *)
SlipNoWait == TRUE
NoReaders  == victim # None => readers[victim] = {}

Freed == IF victim = None THEN 0 ELSE heap[victim].length

SlipStillMapped == cache
Unmapped        ==
  IF victim = None THEN cache ELSE [cache EXCEPT ![heap[victim].file] = None]

Pushed(t) ==
  [file |-> file[t], length |-> seen[t].length, modify |-> seen[t].version,
   content |-> data[t], age |-> New]

Insert(t) ==
  /\ pc[t] = "insert"
  /\ NoReaders
  /\ live' = (live \ {victim}) \cup {req[t]}
  /\ heap' = [o \in Objs |-> IF o = req[t] THEN Pushed(t)
                            ELSE IF o = victim THEN Nothing ELSE heap[o]]
  /\ cache' = [Unmapped EXCEPT ![file[t]] = req[t]]
  /\ size' = size + seen[t].length - Freed
  /\ obj' = [obj EXCEPT ![t] = req[t]]
  /\ victim' = None
  /\ writer' = None
  /\ Goes(t, "lock")
  /\ UNCHANGED <<readers, req, file, seen, data>> /\ UNCHANGED world

(* The pushed object is locked after the lock of the cache is released.    *)
Relock(t) ==
  /\ pc[t] = "lock"
  /\ IF obj[t] \in live
     THEN readers' = ReadLocked(obj[t], t) /\ Goes(t, "send")
     ELSE Goes(t, "wild") /\ UNCHANGED readers
  /\ UNCHANGED obj /\ UNCHANGED <<world, shared, local>>

(* The client has taken the answer, whole or (If-None-Match) the header of *)
(* a 304, from the object or (too large) from the disk; or the sending has *)
(* failed.  A client that takes nothing need not make it fail: SSLWrite    *)
(* tries again for ever, and an HTTP/2 response waits for a window.        *)
Send(t) == pc[t] = "send" /\ Finish(t)

-----------------------------------------------------------------------------
Serve(t) ==
  \/ Hit(t) \/ Miss(t) \/ NotFound(t) \/ Stat(t) \/ Read(t)
  \/ PushLock(t) \/ Insert(t) \/ Relock(t)

Rest ==
  /\ Dead \/ (asked = MaxRequests /\ \A t \in Threads : pc[t] = "idle")
  /\ UNCHANGED vars

Next ==
  \/ /\ ~Dead
     /\ \/ \E t \in Threads :
             \/ Serve(t) \/ NotModified(t) \/ Send(t)
             \/ \E f \in Files, nocache \in BOOLEAN : Request(t, f, nocache)
        \/ \E f \in Files : Modify(f) \/ Remove(f)
        \/ \E o \in Objs : Tick(o)
  \/ Rest

Spec == Init /\ [][Next]_vars

(* Every thread runs until it sends.  The clients owe nothing: a sending   *)
(* may never end.                                                          *)
FairSpec == Spec /\ \A t \in Threads : WF_vars(~Dead /\ Serve(t))

-----------------------------------------------------------------------------
(* Properties.                                                             *)

Places == {"idle", "check", "stat", "read", "push", "insert", "lock", "send",
           "wild"}

(* Types of memory_cache's file members and of a thread's locals.          *)
TypeOK ==
  /\ disk \in [Files -> [version : 0 .. MaxVersions, length : Lengths \cup {0}]]
  /\ asked \in 0 .. MaxRequests
  /\ live \subseteq Objs
  /\ \A o \in live : heap[o].file \in Files /\ heap[o].age \in New .. Expired
  /\ cache \in [Files -> Objs \cup {None}]
  /\ size \in Nat
  /\ writer \in Threads \cup {None}
  /\ readers \in [Objs -> SUBSET Threads]
  /\ pc \in [Threads -> Places]
  /\ obj \in [Threads -> Objs \cup {None}]
  /\ victim \in Objs \cup {None}

(* A thread that sends from an object holds its lock, and no push, however *)
(* it chooses its victim, deletes an object that somebody holds.           *)
SentFromLive ==
  /\ \A o \in Objs : readers[o] # {} => o \in live
  /\ \A t \in Threads : pc[t] \in {"check", "send"} /\ obj[t] # None =>
                          t \in readers[obj[t]]

(* The objects that exist are those in the map, each under its own name:   *)
(* nothing leaks and no entry is left of an object that is gone.           *)
MapIsLive ==
  /\ {cache[f] : f \in Cached} = live
  /\ \A f \in Cached : heap[cache[f]].file = f

(* m_file_cache_size is the sum of the lengths of the cached files, over   *)
(* all replacements and evictions.                                         *)
SizeAccounts == size = MapThenSumSet(LAMBDA f : heap[cache[f]].length, Cached)

(* What the cache says of itself, of its type and in step.                 *)
CacheAccounts == TypeOK /\ MapIsLive /\ SizeAccounts

(* What a hit sends after the first ten seconds is what is on the disk,    *)
(* although stat and the reading of the content were two steps when the    *)
(* object was made, and so the two may have been of different versions.    *)
RevalidatedIsCurrent ==
  [][\A t \in Threads :
       pc[t] = "check" /\ pc'[t] = "send" /\ heap[obj[t]].age # Young =>
         heap[obj[t]].content = disk[file[t]].version]_vars

(* A push waits, with the lock of the whole cache, for a client that is    *)
(* being sent the object to be deleted.                                    *)
HeldUp ==
  victim # None /\ \E u \in readers[victim] : pc[u] = "send"

(* Every request comes to the sending of its answer, though a push waits   *)
(* for those who hold its victim and everybody waits for the push: or one  *)
(* client, that never takes its answer, keeps the worker's cache locked.   *)
Answered ==
  \A t \in Threads :
     pc[t] # "idle" ~> (pc[t] \in {"idle", "send"} \/ Dead \/ []HeldUp)
=============================================================================
