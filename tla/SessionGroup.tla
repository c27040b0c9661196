---------------------------- MODULE SessionGroup ----------------------------
(***************************************************************************)
(* The asynchronous build: the sessions of a worker in one Session_Group,  *)
(* whose Processing hands the events of epoll to sessions and to backend   *)
(* connections by descriptor number.                                       *)
(*                                                                         *)
(* One pool thread runs Processing and appends new sessions; with more of  *)
(* them the group would be used by several without a lock, of which        *)
(* nothing can be said.  The dispatcher, another thread, receives          *)
(* descriptors meanwhile.  HTTP/1 without TLS; a request, and an answer of *)
(* a backend, come whole.                                                  *)
(***************************************************************************)
EXTENDS Naturals, FiniteSets

CONSTANTS
  Clients,  \* each connects once; its name is also its session's
  Fds,      \* bound: the descriptors there may be
  Requests, \* bound: how many requests each sends
  Proxied   \* the clients that ask for an absolute URL, and not for a document

Nobody == "nobody"

ASSUME GroupAssumption ==
  /\ Fds \subseteq Nat \ {0} /\ Requests \in [Clients -> Nat] /\ Proxied \subseteq Clients
  /\ Nobody \notin Clients

Nothing == [who |-> Nobody, end |-> "none"]
None == [fd |-> 0, who |-> Nothing, in |-> FALSE, out |-> FALSE, hup |-> FALSE]

NoServer == [is |-> "none", unread |-> 0]
Failed == {"failed", "refused", "closed", "reset"}
NewSession == [life |-> "none", fd |-> 0, http |-> "none", got |-> 0, left |-> FALSE,
               shut |-> FALSE]
Deleted == [NewSession EXCEPT !.life = "deleted"]
Made(f) == [NewSession EXCEPT !.life = "live", !.fd = f, !.http = "request"]
NoTunnel == [state |-> "none", fd |-> 0, got |-> 0]

VARIABLES
  file,    \* the process's descriptors: which connection each is
  epoll,   \* what epoll looks for on each: nothing, "in" or "inout"
  list,    \* m_session_list
  backs,   \* m_backend_list: the session whose tunnel it is
  client,  \* a client: requests asked, and not yet read; whether it is there
  session, \* its session and the CHttp of it
  tunnel,  \* its session's http_tunneling
  server,  \* the backend's end of that: its state, and what has not been read
  batch,   \* m_epoll_events, those to come
  now,     \* the event that is handled
  stage,   \* the branch of Processing that is next
  harm     \* what has happened to connections of others

kernel == <<file, epoll>>
loop == <<batch, now, stage>>
vars == <<file, epoll, list, backs, client, session, tunnel, server, batch, now, stage, harm>>

Init ==
  /\ file = [f \in Fds |-> Nothing] /\ epoll = [f \in Fds |-> "none"]
  /\ list = [f \in Fds |-> Nobody] /\ backs = [f \in Fds |-> Nobody]
  /\ client = [c \in Clients |-> [asked |-> 0, unread |-> 0, is |-> "absent", answered |-> FALSE]]
  /\ session = [c \in Clients |-> NewSession]
  /\ tunnel = [c \in Clients |-> NoTunnel]
  /\ server = [c \in Clients |-> NoServer]
  /\ batch = {} /\ now = None /\ stage = "wait"
  /\ harm = {}

At(stages) == harm = {} /\ stage \in stages

Lowest(f) == file[f] = Nothing /\ \A g \in Fds : g < f => file[g] # Nothing
End(c, end) == [who |-> c, end |-> end]

-----------------------------------------------------------------------------
(* The clients and backends, between two events: what they do during one is*)
(* noticed by the next, at the earliest.                                   *)
Between == At({"wait", "next"})

(* RECV_FD, by the dispatcher at any time; the client has asked by then.   *)
Arrive(c) ==
  /\ harm = {} /\ client[c].is = "absent"
  /\ client' = [client EXCEPT ![c].is = "there", ![c].asked = 1, ![c].unread = 1]
  /\ \E f \in Fds : /\ Lowest(f) /\ file' = [file EXCEPT ![f] = End(c, "client")]
                    /\ session' = [session EXCEPT ![c].life = "queued", ![c].fd = f]
  /\ UNCHANGED <<epoll, list, backs, tunnel, server, loop, harm>>

Asks(c) ==
  /\ Between /\ client[c].is = "there" /\ client[c].answered /\ client[c].asked < Requests[c]
  /\ client' = [client EXCEPT ![c].asked = @ + 1, ![c].unread = @ + 1,
                               ![c].answered = FALSE]
  /\ UNCHANGED <<kernel, list, backs, session, tunnel, server, loop, harm>>

Leaves(c) ==
  /\ Between /\ client[c].is = "there"
  /\ \E how \in {"closed", "reset"} : client' = [client EXCEPT ![c].is = how]
  /\ UNCHANGED <<kernel, list, backs, session, tunnel, server, loop, harm>>

(* The backend accepts or refuses a connection, answers, may send more     *)
(* than its answer, and ends the connection, perhaps with a part of the    *)
(* request.                                                                *)
Serves(c) ==
  /\ Between
  /\ \/ /\ server[c].is = "connecting"
        /\ \E is \in {"idle", "refused"} : server' = [server EXCEPT ![c].is = is]
     \/ /\ server[c].is \in {"asked", "answered"}
        /\ server' = [server EXCEPT ![c].is = IF @ = "asked" THEN "answered" ELSE "more",
                                    ![c].unread = @ + 1]
     \/ /\ server[c].is \in {"part", "asked", "answered", "more"}
        /\ \E is \in {"closed", "reset"} : server' = [server EXCEPT ![c].is = is]
  /\ UNCHANGED <<kernel, list, backs, client, session, tunnel, loop, harm>>

-----------------------------------------------------------------------------
(* Closing a number closes whatever it is.                                 *)
Closed(fds) ==
  /\ file' = [f \in Fds |-> IF f \in fds THEN Nothing ELSE file[f]]
  /\ epoll' = [f \in Fds |-> IF f \in fds THEN "none" ELSE epoll[f]]

(* What happens to the connection of another, or with an object that has   *)
(* been deleted, is recorded; the model then stops.                        *)
Foreign(f, x) == f # 0 /\ file[f] \notin {Nothing, x}
Note(what) == harm' = harm \cup what
When(what, if) == IF if THEN {what} ELSE {}

Backend(c) == tunnel[c].fd

SlipErase(c) == list
Erase(c) == [list EXCEPT ![session[c].fd] = Nobody]

(* Remove. The tunnel's descriptor is closed, by the group or, when there  *)
(* is no CHttp any more, by the tunnel's destructor; that of a CHttp shuts *)
(* the client's down, by its number, unless it is to be kept.              *)
Remove(c) ==
  /\ session' = [session EXCEPT ![c] = Deleted]
  /\ tunnel' = [tunnel EXCEPT ![c] = NoTunnel]
  /\ client' = [client EXCEPT ![c].is = IF @ = "there" THEN "dropped" ELSE @, ![c].unread = 0]
  /\ server' = [server EXCEPT ![c] = [NoServer EXCEPT !.is = IF server[c].is \in Failed
                                                           THEN server[c].is ELSE @]]
  /\ list' = Erase(c)
  /\ backs' = [f \in Fds |-> IF f = Backend(c) THEN Nobody ELSE backs[f]]
  /\ file' = [f \in Fds |-> IF f = Backend(c) THEN Nothing ELSE file[f]]
  /\ epoll' = [f \in Fds |-> IF f \in {Backend(c), session[c].fd} THEN "none" ELSE epoll[f]]
  /\ \E keep \in BOOLEAN :
       Note(When("tunnel", Foreign(Backend(c), End(c, "backend")))
            \cup When("shut", /\ session[c].http # "none" /\ ~keep
                              /\ Foreign(session[c].fd, End(c, "client"))))

(* Append. A session that the list has under the same number is deleted;   *)
(* one that epoll does not take is lost, with its descriptor open.         *)
Append(c) ==
  /\ At({"wait"}) /\ session[c].life = "queued"
  /\ LET f == session[c].fd
         old == list[f]
     IN \/ /\ list' = [list EXCEPT ![f] = c]
           /\ epoll' = [epoll EXCEPT ![f] = "in"]
           /\ session' = [d \in Clients |-> IF d = c THEN Made(f)
                                            ELSE IF d = old THEN Deleted ELSE session[d]]
           /\ Note(When("replaced", old # Nobody))
        \/ /\ session' = [session EXCEPT ![c].life = "lost"]
           /\ UNCHANGED <<list, epoll, harm>>
  /\ UNCHANGED <<file, backs, client, tunnel, server, loop>>

-----------------------------------------------------------------------------
(* epoll_wait.  A socket that both ends have shut hangs up.                *)
In(f) == LET c == file[f].who IN
         IF file[f].end = "client"
         THEN client[c].unread > 0 \/ client[c].is # "there" \/ session[c].shut
         ELSE server[c].unread > 0 \/ server[c].is \in {"closed", "reset", "refused"}
Out(f) == /\ epoll[f] = "inout"
          /\ file[f].end = "backend" => server[file[f].who].is # "connecting"
Hup(f) == LET c == file[f].who IN
          IF file[f].end = "client" THEN client[c].is = "reset" \/ session[c].shut
          ELSE server[c].is \in {"reset", "refused"}

Ready == {[fd |-> f, who |-> file[f], in |-> In(f), out |-> Out(f), hup |-> Hup(f)] :
            f \in {g \in Fds : epoll[g] # "none" /\ (In(g) \/ Out(g) \/ Hup(g))}}

Wait ==
  /\ At({"wait"}) /\ Ready # {}
  /\ batch' = Ready
  /\ stage' = "next"
  /\ UNCHANGED <<kernel, list, backs, client, session, tunnel, server, now, harm>>

(* The branches of an event that are still to come. *)
Branch(e, from) ==
  IF from <= 1 /\ e.out THEN "out"
  ELSE IF from <= 2 /\ e.in THEN "in" ELSE IF e.hup THEN "hup" ELSE "next"

Take ==
  /\ At({"next"})
  /\ IF batch = {} THEN stage' = "wait" /\ now' = None /\ UNCHANGED <<batch, harm>>
     ELSE \E e \in batch :
       /\ batch' = batch \ {e} /\ now' = e /\ stage' = Branch(e, 1)
       /\ Note(When("event", Foreign(e.fd, e.who)))
  /\ UNCHANGED <<kernel, list, backs, client, session, tunnel, server>>

After == IF stage \in {"out", "outserve", "outclose"} THEN Branch(now, 2) ELSE Branch(now, 3)
Serving == IF stage = "out" THEN "outserve" ELSE "inserve"
Closing == IF stage = "out" THEN "outclose" ELSE "inclose"

Skip ==
  /\ At({"out", "in"}) /\ list[now.fd] = Nobody /\ backs[now.fd] = Nobody
  /\ stage' = After
  /\ UNCHANGED <<kernel, list, backs, client, session, tunnel, server, batch, now, harm>>

(* The session an event is for, if it finds one; else the tunnel.          *)
ForSession(c) == list[now.fd] = c
ForTunnel(c) == list[now.fd] = Nobody /\ backs[now.fd] = c

(* Session::AsyncSend and AsyncRecv fail without a CHttp.  A client that   *)
(* can be sent to takes all that is left.                                  *)
SendToClient(c) ==
  /\ At({"out"}) /\ ForSession(c)
  /\ \/ /\ session[c].http = "none" \/ client[c].is = "reset"
        /\ Remove(c) /\ stage' = Closing
     \/ /\ session[c].http # "none" /\ client[c].is # "reset"
        /\ session' = [session EXCEPT ![c].left = FALSE]
        /\ client' = [client EXCEPT ![c].answered = TRUE]
        /\ epoll' = [epoll EXCEPT ![now.fd] = "in"]
        /\ stage' = Serving
        /\ UNCHANGED <<file, list, backs, tunnel, server, harm>>
  /\ UNCHANGED <<batch, now>>

RecvFromClient(c) ==
  /\ At({"in"}) /\ ForSession(c)
  /\ \/ /\ session[c].http = "none" \/ client[c].is # "there"
        /\ Remove(c) /\ stage' = Closing
     \/ /\ session[c].http # "none" /\ client[c].is = "there"
        /\ session' = [session EXCEPT ![c].got = @ + client[c].unread]
        /\ client' = [client EXCEPT ![c].unread = 0]
        /\ stage' = Serving
        /\ UNCHANGED <<kernel, list, backs, tunnel, server, harm>>
  /\ UNCHANGED <<batch, now>>

(* What Remove is followed by: the dispatcher may have the tunnel's number *)
(* by now, not this one.                                                   *)
CloseClient ==
  /\ At({"outclose", "inclose"})
  /\ Closed({now.fd})
  /\ Note(When("socket", Foreign(now.fd, now.who)))
  /\ stage' = After
  /\ UNCHANGED <<list, backs, client, session, tunnel, server, batch, now>>

(* An error closes the descriptor, but the tunnel keeps its number and the *)
(* list its entry.                                                         *)
CloseBackend(c) ==
  /\ Closed({now.fd})
  /\ Note(When("backend", Foreign(now.fd, End(c, "backend"))))
  /\ stage' = After
  /\ UNCHANGED <<tunnel, server>>

(* The rest of a request, if a part of it has been sent, and epoll need    *)
(* not tell of room any more.                                              *)
FlushToBackend(c) ==
  /\ At({"out"}) /\ ForTunnel(c)
  /\ IF tunnel[c].state = "relaying" /\ epoll[now.fd] = "inout" /\ server[c].is = "reset"
     THEN CloseBackend(c)
     ELSE /\ epoll' = [epoll EXCEPT ![now.fd] = IF @ = "inout" THEN "in" ELSE @]
          /\ server' = [server EXCEPT ![c].is = IF @ = "part" THEN "asked" ELSE @]
          /\ stage' = Serving
          /\ UNCHANGED <<file, tunnel, harm>>
  /\ UNCHANGED <<list, backs, client, session, batch, now>>

RecvFromBackend(c) ==
  /\ At({"in"}) /\ ForTunnel(c)
  /\ IF server[c].unread > 0 /\ file[now.fd] = End(c, "backend")
     THEN /\ tunnel' = [tunnel EXCEPT ![c].got = @ + 1]
          /\ server' = [server EXCEPT ![c].unread = @ - 1]
          /\ stage' = Serving
          /\ UNCHANGED <<kernel, harm>>
     ELSE CloseBackend(c)
  /\ UNCHANGED <<list, backs, client, session, batch, now>>

(* The descriptor is closed, for the second time if it could not be read;  *)
(* then what the lists have under the number goes, which may be the        *)
(* dispatcher's latest by now.                                             *)
HangUp ==
  /\ At({"hup"})
  /\ Closed({now.fd})
  /\ Note(When("twice", Foreign(now.fd, now.who)))
  /\ stage' = "forget"
  /\ UNCHANGED <<list, backs, client, session, tunnel, server, batch, now>>

Forget ==
  /\ At({"forget"})
  /\ LET c == list[now.fd] IN
     IF c # Nobody THEN Remove(c)
     ELSE /\ backs' = [backs EXCEPT ![now.fd] = Nobody]
          /\ UNCHANGED <<kernel, list, client, session, tunnel, server, harm>>
  /\ stage' = "next" /\ now' = None
  /\ UNCHANGED batch

-----------------------------------------------------------------------------
(* Session::AsyncProcessing, and CHttp's.                                  *)
Served(c) == At({"outserve", "inserve"}) /\ ForSession(c)
Turns(c) == /\ At({"outserve", "inserve"})
            /\ \/ ForSession(c) /\ session[c].http = "tunnel"
               \/ ForTunnel(c)

(* AsyncHttpSend: what cannot be sent at once is left for epoll.           *)
Send(c, left) ==
  /\ client' = [client EXCEPT ![c].answered = ~left]
  /\ epoll' = [epoll EXCEPT ![session[c].fd] = IF left THEN "inout" ELSE "in"]

Reply(c) ==
  /\ c \notin Proxied /\ Served(c) /\ session[c].http = "request" /\ session[c].got > 0
  /\ \E left \in BOOLEAN :
       /\ Send(c, left)
       /\ session' = [session EXCEPT ![c].http = "complete", ![c].got = @ - 1, ![c].left = left]
  /\ UNCHANGED <<file, list, backs, tunnel, server, loop, harm>>

Proxy(c) ==
  /\ c \in Proxied /\ Served(c) /\ session[c].http = "request" /\ session[c].got > 0
  /\ session' = [session EXCEPT ![c].http = "tunnel", ![c].got = @ - 1]
  /\ tunnel' = [tunnel EXCEPT ![c].state = "new"]
  /\ UNCHANGED <<kernel, list, backs, client, server, loop, harm>>

Interest == "inout"

Connect(c) ==
  /\ Turns(c) /\ tunnel[c].state = "new" /\ Backend(c) = 0
  /\ \/ \E f \in Fds :
          /\ Lowest(f) /\ file' = [file EXCEPT ![f] = End(c, "backend")]
          /\ epoll' = [epoll EXCEPT ![f] = Interest]
          /\ backs' = [backs EXCEPT ![f] = IF @ = Nobody THEN c ELSE @]
          /\ Note(When("shadowed", backs[f] # Nobody))
          /\ tunnel' = [tunnel EXCEPT ![c].state = "waiting", ![c].fd = f]
          /\ server' = [server EXCEPT ![c].is = "connecting"]
     \/ /\ tunnel' = [tunnel EXCEPT ![c].state = "complete"]
        /\ server' = [server EXCEPT ![c].is = "failed"]
        /\ UNCHANGED <<kernel, backs, harm>>
  /\ UNCHANGED <<list, client, session, loop>>

(* select finds the connection made, or refused; the request may not go    *)
(* out whole.                                                              *)
Connected(c) ==
  /\ Turns(c) /\ tunnel[c].state = "waiting" /\ server[c].is # "connecting"
  /\ tunnel' = [tunnel EXCEPT ![c].state =
                  IF server[c].is \in {"refused", "reset"} THEN "complete" ELSE "relaying"]
  /\ \E whole \in BOOLEAN :
       /\ server' = [server EXCEPT ![c].is =
                       IF @ # "idle" THEN @ ELSE IF whole THEN "asked" ELSE "part"]
       /\ epoll' = [epoll EXCEPT ![Backend(c)] =
                      IF @ = "none" THEN @ ELSE IF whole THEN "in" ELSE "inout"]
  /\ UNCHANGED <<file, list, backs, client, session, loop, harm>>

(* What the backend sends after its answer makes the tunnel, which is new  *)
(* again, send the request again, of a CHttp that may be gone.             *)
Again(c) ==
  /\ Turns(c) /\ tunnel[c].state = "new" /\ Backend(c) # 0
  /\ Note({"repeated"})
  /\ UNCHANGED <<kernel, list, backs, client, session, tunnel, server, loop>>

Relay(c) ==
  /\ Turns(c) /\ tunnel[c].state = "relaying" /\ tunnel[c].got > 0
  /\ \E left \in BOOLEAN : Send(c, left) /\ session' = [session EXCEPT ![c].left = left]
  /\ tunnel' = [tunnel EXCEPT ![c].state = "complete", ![c].got = @ - 1]
  /\ UNCHANGED <<file, list, backs, server, loop, harm>>

(* CHttp learns of the end of the answer when its client has an event.     *)
Finish(c) ==
  /\ Served(c) /\ session[c].http = "tunnel" /\ tunnel[c].state = "complete"
  /\ session' = [session EXCEPT ![c].http = "complete"]
  /\ tunnel' = [tunnel EXCEPT ![c].state = "new"]
  /\ UNCHANGED <<kernel, list, backs, client, server, loop, harm>>

(* The CHttp is deleted, with what it has received of the next request,    *)
(* and shuts the connection down unless that is to be kept.                *)
Release(c) ==
  /\ Served(c) /\ session[c].http = "complete" /\ ~session[c].left
  /\ \E keep \in BOOLEAN :
       session' = [session EXCEPT ![c].http = "none", ![c].got = 0, ![c].shut = ~keep]
  /\ stage' = After
  /\ UNCHANGED <<kernel, list, backs, client, tunnel, server, batch, now, harm>>

Idle(c) ==
  \/ ForSession(c) /\ session[c].http = "request" /\ session[c].got = 0
  \/ ForSession(c) /\ session[c].http = "complete" /\ session[c].left
  \/ /\ Turns(c)
     /\ \/ tunnel[c].state = "waiting" /\ server[c].is = "connecting"
        \/ tunnel[c].state = "relaying" /\ tunnel[c].got = 0
        \/ tunnel[c].state = "complete" /\ ForTunnel(c)

Return(c) ==
  /\ At({"outserve", "inserve"}) /\ Idle(c)
  /\ stage' = After
  /\ UNCHANGED <<kernel, list, backs, client, session, tunnel, server, batch, now, harm>>

-----------------------------------------------------------------------------
Pool ==
  \/ Wait \/ Take \/ Skip \/ CloseClient \/ HangUp \/ Forget
  \/ \E c \in Clients :
       \/ Append(c) \/ SendToClient(c) \/ RecvFromClient(c)
       \/ FlushToBackend(c) \/ RecvFromBackend(c)
       \/ Reply(c) \/ Proxy(c) \/ Connect(c) \/ Connected(c) \/ Again(c) \/ Relay(c)
       \/ Finish(c) \/ Release(c) \/ Return(c)

Next == Pool \/ \E c \in Clients : Arrive(c) \/ Asks(c) \/ Leaves(c) \/ Serves(c)

Spec == Init /\ [][Next]_vars

(* The pool thread runs, and backends answer or end their connections. *)
FairSpec == Spec /\ WF_vars(Pool) /\ WF_vars(\E c \in Clients : Serves(c))

-----------------------------------------------------------------------------
Stages == {"wait", "next", "out", "outserve", "outclose", "in", "inserve", "inclose", "hup",
           "forget"}

TypeOK ==
  /\ file \in [Fds -> {Nothing} \cup {End(c, e) : c \in Clients, e \in {"client", "backend"}}]
  /\ epoll \in [Fds -> {"none", "in", "inout"}]
  /\ list \in [Fds -> Clients \cup {Nobody}] /\ backs \in [Fds -> Clients \cup {Nobody}]
  /\ stage \in Stages
  /\ harm \subseteq {"twice", "tunnel", "event", "shadowed", "repeated", "backend"}

(* Unless the descriptor of another has been hit, which happens only where *)
(* TypeOK says (a number closed twice, a tunnel's number that the group    *)
(* had closed, an event or an entry that outlived its connection, a        *)
(* backend that sends too much; never the socket a session is removed      *)
(* with, nor one a CHttp shuts down after it was closed, nor a session that*)
(* is still in the list): every session that lives is found under its      *)
(* number and watched, no list has a session that has been deleted, and a  *)
(* tunnel's entry and its number agree.                                    *)
Found ==
  /\ TypeOK
  /\ harm = {} =>
       /\ \A c \in Clients : session[c].life = "live" =>
            LET f == session[c].fd IN
            list[f] = c /\ file[f] = End(c, "client") /\ epoll[f] # "none"
       /\ \A f \in Fds :
            /\ list[f] # Nobody => session[list[f]].life = "live" /\ session[list[f]].fd = f
            /\ backs[f] # Nobody => session[backs[f]].life = "live" /\ Backend(backs[f]) = f
            /\ file[f].end = "backend" => backs[f] = file[f].who

(* A client's first request is answered, unless the client leaves, epoll   *)
(* does not take its descriptor, that of another was hit, or the backend   *)
(* fails or ends its connection early.  A later one on a connection that   *)
(* is kept never is: the CHttp has gone, and it may take it along.         *)
Answered ==
  \A c \in Clients :
    []<>(\/ client[c].asked # 1 \/ client[c].answered
         \/ client[c].is \in {"closed", "reset"} \/ session[c].life = "lost" \/ harm # {}
         \/ server[c].is \in Failed)
=============================================================================
