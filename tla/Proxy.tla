------------------------------- MODULE Proxy -------------------------------
(***************************************************************************)
(* The HTTP proxy of the synchronous build: http_tunneling::processing for *)
(* requests with an absolute URL, the http_client that reads the backend's *)
(* answer, and the cache of answers the threads of a worker share.         *)
(*                                                                         *)
(* Each session is served by a thread of its own and keeps one tunnel with *)
(* one backend connection through its requests.  An answer is a sequence   *)
(* of pieces, which arrive one by one; a receive takes one.  Requests fit  *)
(* the buffer of the backend's socket; TLS to backends is left out.  Calls *)
(* that may never return have places of their own, which are never left: a *)
(* thread is "asking" a name server that always says to try again; it is   *)
(* "stalled" in an SSLWrite to a client that takes nothing, or "holding"   *)
(* an object of the cache in one.                                          *)
(***************************************************************************)
EXTENDS Naturals, Sequences, FiniteSets, FiniteSetsExt

CONSTANTS
  Sessions, \* the sessions, each with its thread
  Secure,   \* the sessions whose clients are spoken to over TLS
  Requests, \* bound: the paths each asks for, one after the other
  Addrs,    \* the backends of every URL: the first and its backups
  Paths,    \* the paths of the URLs, in the order of the cache's map
  Size,     \* the length of a path's cacheable answer
  Room,    \* m_total_tunneling_cache_size
  Kinds     \* the kinds of answers a path may have, see Pieces

ASSUME ProxyAssumption ==
  /\ Secure \subseteq Sessions
  /\ Requests \in [Sessions -> Seq(Paths)]
  /\ Len(Addrs) \in Nat \ {0}
  /\ Paths \subseteq Nat /\ IsFiniteSet(Paths)
  /\ Size \in [Paths -> Nat \ {0}] /\ Room \in Nat \ {0}
  /\ Kinds \in [Paths -> SUBSET {"cached", "chunked", "unsized"}]

Urls == (1 .. Len(Addrs)) \X Paths
NoObject == [of |-> <<0, 0>>, len |-> 0]
Mixed == 99
NoClient == [state |-> "none", need |-> 0, use |-> FALSE]

VARIABLES
  answers, \* m_tunneling_cache: the object of each URL: whose answer, its length
  stored,  \* m_tunneling_cache_size
  storing, \* who has the lock of the cache for writing, or "nobody"
  place,   \* where the thread is
  nth,     \* how many requests there have been
  tried,   \* which of the backends it is at
  tunnel,  \* the session's http_tunneling
  backend, \* the backend's end of the connection: what is to come from it
  client,  \* m_client, the http_client
  ongoing, \* tunneling_ongoing
  pending, \* m_client_send_buf_used_len > 0
  found,   \* m_tunneling_cache_instance: nothing, or the URL's object
  out,     \* how much of its answer the client has been sent, or Mixed
  late,    \* a relay over this connection ended before its answer did
  fate     \* what undefined behaviour has done to the thread

store == <<answers, stored, storing>>
relay == <<client, ongoing, pending, found, out, late>>
proxyVars == <<answers, stored, storing, place, nth, tried, tunnel, backend, client,
               ongoing, pending, found, out, late, fate>>

ProxyInit ==
  /\ answers = [u \in Urls |-> NoObject] /\ stored = 0
  /\ storing = "nobody"
  /\ place = [s \in Sessions |-> "idle"]
  /\ nth = [s \in Sessions |-> 0]
  /\ tried = [s \in Sessions |-> 1]
  /\ tunnel = [s \in Sessions |-> [addr |-> 0, url |-> <<0, 0>>, conn |-> FALSE]]
  /\ backend = [s \in Sessions |-> [is |-> "open", todo |-> <<>>]]
  /\ client = [s \in Sessions |-> NoClient]
  /\ ongoing = [s \in Sessions |-> FALSE] /\ pending = [s \in Sessions |-> FALSE]
  /\ found = [s \in Sessions |-> "nothing"] /\ out = [s \in Sessions |-> 0]
  /\ late = [s \in Sessions |-> FALSE]
  /\ fate = [s \in Sessions |-> "fine"]

Goto(s, label) == place' = [place EXCEPT ![s] = label]

-----------------------------------------------------------------------------
(* A backend's answers: "cached" may be cached, "unsized" has no length.   *)
(* It ends its connection whenever it likes, and what it has sent by then  *)
(* can still be received, unless the connection is reset.                  *)
Pieces(kind) ==
  CASE kind = "cached"  -> <<"head", "body">>
    [] kind = "chunked" -> <<"head", "chunk", "zero">>
    [] kind = "unsized" -> <<"head", "body">>
Answer(s, kind) == [i \in DOMAIN Pieces(kind) |->
                      [no |-> nth[s], kind |-> kind, is |-> Pieces(kind)[i]]]

BackendEnds(s) ==
  /\ tunnel[s].conn /\ backend[s].is = "open" /\ place[s] # "crashed"
  /\ (place[s] = "idle" => nth[s] < Len(Requests[s]))
  /\ \E end \in {<<"closed", backend[s].todo>>, <<"closed", <<>>>>, <<"reset", <<>>>>} :
       backend' = [backend EXCEPT ![s] = [is |-> end[1], todo |-> end[2]]]
  /\ UNCHANGED <<store, relay, place, nth, tried, tunnel, fate>>

-----------------------------------------------------------------------------
(* A request. *)
Ask(s) ==
  /\ place[s] = "idle" /\ nth[s] < Len(Requests[s])
  /\ nth' = [nth EXCEPT ![s] = @ + 1]
  /\ Goto(s, "find")
  /\ UNCHANGED <<store, relay, tried, tunnel, backend, fate>>

Path(s) == Requests[s][nth[s]]
Url(s) == <<tried[s], Path(s)>>

(* connect_backend: an answer in the cache, if it is still fresh and the   *)
(* session's first request did not say no-cache (which is left open: if it *)
(* did, the lock of the cache is not waited for), ...                      *)
Find(s) ==
  /\ place[s] = "find"
  /\ \E hit \in BOOLEAN :
       /\ hit => storing = "nobody" /\ answers[Url(s)] # NoObject
       /\ found' = [found EXCEPT ![s] = IF hit THEN "live" ELSE "nothing"]
       /\ Goto(s, IF hit THEN "cached" ELSE "dial")
  /\ UNCHANGED <<store, nth, tried, tunnel, backend, client, ongoing, pending, out, late, fate>>

(* ... or the connection there is, ...                                     *)
Same(s) == tunnel[s].addr = tried[s] /\ tunnel[s].conn

Reuse(s) ==
  /\ place[s] = "dial" /\ Same(s)
  /\ Goto(s, "send")
  /\ UNCHANGED <<store, relay, nth, tried, tunnel, backend, fate>>

(* ... or a new one.  One that is refused after connect has returned is    *)
(* taken for connected.  The descriptor of another backend's connection is *)
(* lost.                                                                   *)
Dialled(s) == [tunnel[s] EXCEPT !.addr = tried[s], !.conn = TRUE, !.url = Url(s)]

Dial(s) ==
  /\ place[s] = "dial" /\ ~Same(s)
  /\ tunnel' = [tunnel EXCEPT ![s] = Dialled(s)]
  /\ \E is \in {"open", "reset"} : backend' = [backend EXCEPT ![s] = [is |-> is, todo |-> <<>>]]
  /\ late' = [late EXCEPT ![s] = FALSE]
  /\ Goto(s, "send")
  /\ UNCHANGED <<store, client, ongoing, pending, found, out, nth, tried, fate>>

(* processing: the next backup, if there is one; else an error, of which   *)
(* the client is told nothing.                                             *)
DialFails(s) ==
  /\ place[s] = "dial" /\ ~Same(s)
  /\ \E resolved \in BOOLEAN :
       tunnel' = [tunnel EXCEPT ![s].conn = @ /\ ~resolved]
  /\ IF tried[s] < Len(Addrs)
     THEN tried' = [tried EXCEPT ![s] = @ + 1] /\ Goto(s, "find")
     ELSE UNCHANGED tried /\ Goto(s, "done")
  /\ UNCHANGED <<store, relay, nth, backend, fate>>

(* getaddrinfo says EAI_AGAIN whenever it is called.                       *)
AsksForEver(s) ==
  /\ place[s] = "dial" /\ ~Same(s)
  /\ Goto(s, "asking")
  /\ UNCHANGED <<store, relay, nth, tried, tunnel, backend, fate>>

(* send_request_to_backend: an end the backend has closed takes one more   *)
(* request, without an answer; on one that is reset the send fails.        *)
SendRequest(s) ==
  /\ place[s] = "send" /\ backend[s].is # "reset"
  /\ \E kind \in Kinds[Path(s)] :
       backend' = IF backend[s].is = "open"
                  THEN [backend EXCEPT ![s].todo = @ \o Answer(s, kind)] ELSE backend
  /\ client' = [client EXCEPT ![s] = [NoClient EXCEPT !.state = "header"]]
  /\ ongoing' = [ongoing EXCEPT ![s] = TRUE]
  /\ Goto(s, "relay")
  /\ UNCHANGED <<store, nth, tried, tunnel, pending, found, out, late, fate>>

SendFails(s) ==
  /\ place[s] = "send" /\ backend[s].is = "reset"
  /\ Goto(s, "done")
  /\ UNCHANGED <<store, relay, nth, tried, tunnel, backend, fate>>

-----------------------------------------------------------------------------
(* http_client::processing and http_chunk::processing: a piece is part of  *)
(* the header until the header is complete, and then of a body whose end   *)
(* is where the length, or the last chunk, says.  A chunk with a bad size  *)
(* ends the answer, too.                                                   *)
SlipNeeds(kind) == Len(Pieces(kind)) - 2
Needs(kind) == Len(Pieces(kind)) - 1

Header(c, t) ==
  IF t.is # "head" THEN c
  ELSE [state |-> CASE t.kind = "unsized" -> "endless" [] t.kind = "chunked" -> "chunks"
                    [] OTHER -> "content",
        need |-> Needs(t.kind), use |-> t.kind = "cached"]

Chunk(c, t) == IF t.is \in {"chunk", "zero"} THEN [c EXCEPT !.need = @ - 1]
               ELSE [c EXCEPT !.need = 0]

Processed(c, t) ==
  CASE c.state = "header"  -> Header(c, t)
    [] c.state = "chunks"  -> Chunk(c, t)
    [] c.state = "content" -> [c EXCEPT !.need = @ - 1]
    [] OTHER               -> c

Complete(c) == c.state \in {"content", "chunks"} /\ c.need = 0

(* client_send: everything is sent, or the rest of it is kept (after some  *)
(* has been sent, or none and an error is returned), or the client is gone.*)
Sent == {"all", "some", "none", "gone"}

IsNext(s, t) == t \in {Answer(s, t.kind)[i] : i \in {out[s] + 1} \cap DOMAIN Pieces(t.kind)}

(* SSLWrite to a client that takes nothing, once 4096 bytes are kept.      *)
Stalls(s) ==
  /\ s \in Secure
  /\ \/ place[s] = "answer" /\ Goto(s, "holding")
     \/ /\ place[s] = "relay" /\ client[s].state # "none" /\ backend[s].todo # <<>>
        /\ Goto(s, "stalled")
  /\ UNCHANGED <<store, relay, nth, tried, tunnel, backend, fate>>

(* A piece comes, is parsed and is sent on (that of a header only with the *)
(* header's end).  The client object is deleted at the answer's end or if  *)
(* a send fails, and the loop goes on while something is kept: another     *)
(* piece is then parsed without a client object.                           *)
Receive(s) ==
  /\ place[s] = "relay" /\ client[s].state # "none" /\ backend[s].todo # <<>>
  /\ LET t == Head(backend[s].todo)
         c == Processed(client[s], t)
     IN \E result \in IF c.state = "header" THEN {"all"} ELSE Sent :
          /\ backend' = [backend EXCEPT ![s].todo = Tail(@)]
          /\ out' = [out EXCEPT ![s] = IF IsNext(s, t) THEN @ + 1 ELSE Mixed]
          /\ pending' = [pending EXCEPT ![s] = (result = "some") \/ (result = "none")
                                               \/ (c.state = "header" /\ @)]
          /\ \/ /\ result \in {"none", "gone"}
                /\ client' = [client EXCEPT ![s] = NoClient]
                /\ ongoing' = [ongoing EXCEPT ![s] = FALSE]
                /\ late' = [late EXCEPT ![s] = TRUE]
                /\ UNCHANGED place
             \/ /\ result \in {"all", "some"} /\ Complete(c) /\ c.use
                /\ Goto(s, "push")
                /\ UNCHANGED <<client, ongoing, late>>
             \/ /\ result \in {"all", "some"} /\ Complete(c) /\ ~c.use
                /\ client' = [client EXCEPT ![s] = NoClient]
                /\ ongoing' = [ongoing EXCEPT ![s] = FALSE]
                /\ UNCHANGED <<place, late>>
             \/ /\ result \in {"all", "some"} /\ ~Complete(c)
                /\ client' = [client EXCEPT ![s] = c]
                /\ UNCHANGED <<place, ongoing, late>>
  /\ UNCHANGED <<store, nth, tried, tunnel, found, fate>>

ReceiveWithoutClient(s) ==
  /\ place[s] = "relay" /\ client[s].state = "none" /\ pending[s] /\ backend[s].todo # <<>>
  /\ fate' = [fate EXCEPT ![s] = "no client"]
  /\ Goto(s, "crashed")
  /\ UNCHANGED <<store, relay, nth, tried, tunnel, backend>>

(* recv fails on a connection that has been reset; at the end of one it    *)
(* returns 0, which changes nothing: the loop turns.                       *)
ReceiveFails(s) ==
  /\ place[s] = "relay" /\ backend[s].is = "reset" /\ backend[s].todo = <<>> /\ ongoing[s]
  /\ ongoing' = [ongoing EXCEPT ![s] = FALSE]
  /\ UNCHANGED <<store, place, nth, tried, tunnel, backend, client, pending, found, out, late, fate>>

Flush(s) ==
  /\ place[s] = "relay" /\ pending[s]
  /\ pending' = [pending EXCEPT ![s] = FALSE]
  /\ UNCHANGED <<store, place, nth, tried, tunnel, backend, client, ongoing, found, out, late, fate>>

Relayed(s) ==
  /\ place[s] = "relay" /\ ~ongoing[s] /\ ~pending[s]
  /\ Goto(s, "done")
  /\ UNCHANGED <<store, relay, nth, tried, tunnel, backend, fate>>

(* select: nothing for the idle time.                                      *)
SlipQuiet(s) == backend[s].is = "open" /\ ongoing[s] /\ client[s].state = "header"
Quiet(s) == backend[s].is = "open"

Timeout(s) ==
  /\ place[s] = "relay" /\ Quiet(s) /\ (ongoing[s] \/ pending[s])
  /\ late' = [late EXCEPT ![s] = TRUE]
  /\ Goto(s, "done")
  /\ UNCHANGED <<store, nth, tried, tunnel, backend, client, ongoing, pending, found, out, fate>>

-----------------------------------------------------------------------------
(* ~http_client: _push_tunneling_ under the lock of the cache, which is    *)
(* kept while the destructor of an object waits for its readers.           *)
LockStore(s) ==
  /\ place[s] = "push" /\ storing = "nobody"
  /\ storing' = s
  /\ Goto(s, "pushing")
  /\ UNCHANGED <<answers, stored, relay, nth, tried, tunnel, backend, fate>>

Mapped == {u \in Urls : answers[u] # NoObject}
Reads(s, u) == found[s] = "live" /\ Url(s) = u

SlipNoWaiting(u) == TRUE
NoSenders(u) ==
  \A s \in Sessions : ~(place[s] \in {"answer", "holding"} /\ Reads(s, u))

(* _find_oldest_tunneling_: to compare two objects sets the access times   *)
(* of both: the shorter is chosen, unless a second begins between the two. *)
Before(u, v) == u[1] < v[1] \/ (u[1] = v[1] /\ u[2] < v[2])
OldestAnswer == {u \in Mapped : \A v \in Mapped : Before(u, v) => answers[v].len >= answers[u].len}

Full == stored >= Room
Replaced(u) == IF answers[u] = NoObject /\ Full THEN OldestAnswer ELSE {u}

Less(old) == stored - answers[old].len

Push(s) ==
  /\ place[s] = "pushing"
  /\ LET u == tunnel[s].url
         new == [of |-> <<tried[s], Path(s)>>, len |-> Size[Path(s)]]
     IN \E old \in Replaced(u) :
          /\ NoSenders(old)
          /\ answers' = [answers EXCEPT ![old] = NoObject, ![u] = new]
          /\ stored' = Less(old) + new.len
          /\ found' = [t \in Sessions |-> IF Reads(t, old) THEN "deleted" ELSE found[t]]
  /\ storing' = "nobody"
  /\ client' = [client EXCEPT ![s] = NoClient]
  /\ ongoing' = [ongoing EXCEPT ![s] = FALSE]
  /\ Goto(s, "relay")
  /\ UNCHANGED <<nth, tried, tunnel, backend, pending, out, late, fate>>

-----------------------------------------------------------------------------
(* acquire_cache_relay_to_client: the object that was found is locked only *)
(* now, and may have been deleted.                                         *)
LockObject(s) ==
  /\ place[s] = "cached" /\ found[s] = "live"
  /\ Goto(s, "answer")
  /\ UNCHANGED <<store, relay, nth, tried, tunnel, backend, fate>>

LockDeleted(s) ==
  /\ place[s] = "cached" /\ found[s] = "deleted"
  /\ fate' = [fate EXCEPT ![s] = "deleted object"]
  /\ Goto(s, "crashed")
  /\ UNCHANGED <<store, relay, nth, tried, tunnel, backend>>

AnswerCached(s) ==
  /\ place[s] = "answer"
  /\ \E result \in Sent :
       /\ pending' = [pending EXCEPT ![s] = result \in {"some", "none"}]
       /\ Goto(s, IF result \in {"all", "some"} THEN "flush" ELSE "done")
  /\ UNCHANGED <<store, nth, tried, tunnel, backend, client, ongoing, found, out, late, fate>>

(* What is kept is flushed, unless the client does not read for the idle   *)
(* time or select does not look at it (its first argument is the number of *)
(* bytes): the rest then begins the next answer.                           *)
FlushCached(s) ==
  /\ place[s] = "flush"
  /\ pending' = [pending EXCEPT ![s] = FALSE] \/ UNCHANGED pending
  /\ Goto(s, "done")
  /\ UNCHANGED <<store, nth, tried, tunnel, backend, client, ongoing, found, out, late, fate>>

(* CHttp::Tunneling: the tunnel is new again for the next request.         *)
Done(s) ==
  /\ place[s] = "done"
  /\ client' = [client EXCEPT ![s] = NoClient]
  /\ ongoing' = [ongoing EXCEPT ![s] = FALSE]
  /\ found' = [found EXCEPT ![s] = "nothing"]
  /\ tried' = [tried EXCEPT ![s] = 1]
  /\ out' = [out EXCEPT ![s] = 0]
  /\ Goto(s, "idle")
  /\ UNCHANGED <<store, nth, tunnel, backend, pending, late, fate>>

-----------------------------------------------------------------------------
(* The steps for which a thread needs nobody else.                         *)
Alone(s) ==
  \/ Reuse(s) \/ Dial(s) \/ DialFails(s) \/ SendRequest(s) \/ SendFails(s)
  \/ Receive(s) \/ ReceiveWithoutClient(s) \/ ReceiveFails(s)
  \/ Relayed(s) \/ Timeout(s) \/ LockStore(s)
  \/ LockObject(s) \/ LockDeleted(s) \/ AnswerCached(s) \/ FlushCached(s) \/ Done(s)

Thread(s) == Alone(s) \/ Find(s) \/ Push(s) \/ AsksForEver(s) \/ Stalls(s)

ProxyNext == \E s \in Sessions : Ask(s) \/ BackendEnds(s) \/ Flush(s) \/ Thread(s)

ProxySpec == ProxyInit /\ [][ProxyNext]_proxyVars

(* A thread runs; the client need not read and the backend need not answer.*)
(* One that is to look into the cache may have to wait for its lock, and a *)
(* push goes on for certain only when nobody holds any object it may have  *)
(* chosen.                                                                 *)
ThreadRuns(s) ==
  \/ Alone(s)
  \/ Find(s) /\ storing = "nobody"
  \/ Push(s) /\ \A old \in Replaced(tunnel[s].url) : NoSenders(old)

FairProxySpec == ProxySpec /\ \A s \in Sessions : WF_proxyVars(ThreadRuns(s))

-----------------------------------------------------------------------------
ProxyTypeOK ==
  /\ stored \in Nat /\ storing \in Sessions \cup {"nobody"}
  /\ \A s \in Sessions :
       /\ place[s] \in {"idle", "find", "dial", "send", "relay", "push", "pushing", "cached",
                     "answer", "flush", "done", "crashed",
                     "asking", "stalled", "holding"}
       /\ tried[s] \in 1 .. Len(Addrs) /\ nth[s] <= Len(Requests[s])
       /\ found[s] \in {"nothing", "live", "deleted"}
       /\ fate[s] \in {"fine", "no client", "deleted object"}

(* The cache is true: every object is counted once in its size, one that a *)
(* thread has locked to send from is not deleted, and what it has for a    *)
(* URL comes from that URL's backend (not always from its path: a session  *)
(* that asks for another over the same connection pushes the answer under  *)
(* the URL the connection was made for).                                   *)
CacheIsTrue ==
  /\ ProxyTypeOK
  /\ stored = MapThenSumSet(LAMBDA u : answers[u].len, Mapped)
  /\ \A s \in Sessions : place[s] \in {"answer", "holding"} => found[s] = "live"
  /\ \A u \in Mapped : answers[u].of[1] = u[1]

(* What a client is sent are the pieces of the answer to its own request,  *)
(* in order, unless a relay over the same connection had timed out or had  *)
(* failed to send: then the rest of that answer comes first.  And a piece  *)
(* is parsed without a client object only after such a relay.              *)
OwnAnswer ==
  \A s \in Sessions :
    /\ out[s] = Mixed => late[s]
    /\ fate[s] = "no client" => late[s]

(* Every request's thread comes back, but for these.  It turns for ever    *)
(* when the backend has closed its end before the end of its answer, or    *)
(* has ended the connection while the client does not read.  It may be in  *)
(* a call that never returns.  And it may need the cache while another     *)
(* waits, with its lock, for the object that such a call holds.            *)
Turning(s) == /\ place[s] = "relay"
              /\ \/ ongoing[s] /\ backend[s].is = "closed"
                 \/ pending[s] /\ backend[s].is # "open"

InCall(s) == place[s] \in {"asking", "stalled", "holding"}

HeldBy(u) == /\ storing # "nobody" /\ place[u] = "holding"
             /\ \E old \in Replaced(tunnel[storing].url) : Reads(u, old)

Waiting(s) == /\ place[s] \in {"find", "push", "pushing"}
              /\ \E u \in Sessions : HeldBy(u)

Finishes ==
  \A s \in Sessions :
    []<>(place[s] \in {"idle", "crashed"} \/ Turning(s) \/ InCall(s) \/ Waiting(s))
=============================================================================
