------------------------- MODULE SessionGroupProofs -------------------------
(***************************************************************************)
(* Proofs about SessionGroup for any number of clients, descriptors and    *)
(* requests: until the descriptor of another has been hit, the group finds *)
(* every session under its number, and that happens only in named ways.    *)
(***************************************************************************)
EXTENDS SessionGroup, Integers, TLAPS

Ends == {Nothing} \cup {End(c, e) : c \in Clients, e \in {"client", "backend"}}

Lives   == {"none", "queued", "live", "lost", "deleted"}
Flags   == BOOLEAN
Session == [life : Lives, fd : Fds \cup {0}, http : {"none", "request", "tunnel", "complete"},
            got : Int, left : Flags, shut : Flags]
Tunnel  == [state : {"none", "new", "waiting", "relaying", "complete"},
            fd : Fds \cup {0}, got : Int]
Client  == [asked : Int, unread : Int, is : {"absent", "there", "closed", "reset", "dropped"},
            answered : BOOLEAN]
Event(e) == e.fd \in Fds \cup {0} /\ e.who \in Ends

(* The stages in which there is an event.                                  *)
Handling == Stages \ {"wait", "next"}

Typed ==
  /\ TypeOK
  /\ session \in [Clients -> Session]
  /\ tunnel \in [Clients -> Tunnel]
  /\ client \in [Clients -> Client]
  /\ \A e \in batch : Event(e) /\ e.fd # 0
  /\ Event(now)
  /\ stage \in Handling => now.fd # 0

(* A client's descriptor is its session's, from the dispatcher on.         *)
Own(c) ==
  /\ client[c].is = "absent" => session[c].life = "none"
  /\ session[c].life \in {"queued", "live", "lost"} =>
       session[c].fd \in Fds /\ file[session[c].fd] = End(c, "client")
  /\ session[c].life = "live" =>
       list[session[c].fd] = c /\ epoll[session[c].fd] # "none"

(* The number that is closed next.                                         *)
Leaving(f) == stage \in {"outclose", "inclose"} /\ f = now.fd

(* What there is under a number.                                           *)
Number(f) ==
  /\ file[f].end = "client" /\ ~Leaving(f) =>
       /\ session[file[f].who].life \in {"queued", "live", "lost"}
       /\ session[file[f].who].fd = f
       /\ epoll[f] # "none" => session[file[f].who].life = "live"
  /\ file[f].end = "backend" => backs[f] = file[f].who
  /\ file[f] = Nothing => epoll[f] = "none"
  /\ list[f] # Nobody => session[list[f]].life = "live" /\ session[list[f]].fd = f
  /\ backs[f] # Nobody => session[backs[f]].life = "live" /\ Backend(backs[f]) = f

(* An event is of a session that the group has had; what hangs up can be   *)
(* read, to no avail when it is a client's.                                *)
Doomed(c) == client[c].is = "reset" \/ session[c].http = "none"
Old(e) ==
  /\ e.who.end = "client" => session[e.who.who].life \in {"live", "deleted"}
  /\ e.hup => e.in /\ (e.who.end = "client" => Doomed(e.who.who))

(* Whom the event is for: no session has its number any more when it comes *)
(* to the end of it.                                                       *)
Meant ==
  /\ stage \in {"out", "outserve", "in", "inserve"} /\ list[now.fd] # Nobody =>
       now.who = End(list[now.fd], "client")
  /\ stage \in {"outclose", "inclose"} =>
       /\ list[now.fd] = Nobody /\ epoll[now.fd] = "none"
       /\ file[now.fd] = now.who /\ now.who.end = "client"
       /\ session[now.who.who].life = "deleted"
  /\ stage \in {"hup", "forget"} \/ (stage = "inserve" /\ now.hup) => list[now.fd] = Nobody
  /\ stage = "forget" => file[now.fd].end # "backend"

Sound ==
  /\ \A c \in Clients : Own(c)
  /\ \A f \in Fds : Number(f)
  /\ \A e \in batch \cup {now} : Old(e)
  /\ \A c \in Clients : session[c].shut => session[c].http = "none"
  /\ Meant

GroupInv == Typed /\ (harm = {} => Sound)

-----------------------------------------------------------------------------
(* What a descriptor is, it is of one client.                              *)
LEMMA EndsApart ==
  ASSUME NEW x \in Ends
  PROVE  /\ x.end \in {"none", "client", "backend"}
         /\ x.end = "none" <=> x = Nothing
         /\ x # Nothing => x.who \in Clients
         /\ \A c \in Clients, e \in {"client", "backend"} :
              /\ End(c, e).who = c /\ End(c, e).end = e
              /\ x.end = e /\ x.who = c => x = End(c, e)
BY DEF Ends, End, Nothing

LEMMA EndsTyped ==
  ASSUME NEW c \in Clients, NEW e \in {"client", "backend"}
  PROVE  /\ End(c, e) \in Ends /\ End(c, e) # Nothing
         /\ End(c, e).who = c /\ End(c, e).end = e
BY DEF Ends, End, Nothing

LEMMA TypesAre ==
  ASSUME Typed
  PROVE  /\ file \in [Fds -> Ends]
         /\ epoll \in [Fds -> {"none", "in", "inout"}]
         /\ list \in [Fds -> Clients \cup {Nobody}]
         /\ backs \in [Fds -> Clients \cup {Nobody}]
         /\ stage \in Stages
         /\ Fds \subseteq Nat /\ 0 \notin Fds /\ Nobody \notin Clients
BY GroupAssumption DEF Typed, TypeOK, Ends

LEMMA NewTyped ==
  NewSession \in Session /\ NewSession.life = "none" /\ NewSession.http = "none"
<1>1. FALSE \in Flags
  BY Zenon DEF Flags
<1>2. PICK no \in Flags : no = FALSE
  BY <1>1, Zenon
<1>3. NewSession = [life |-> "none", fd |-> 0, http |-> "none", got |-> 0, left |-> no, shut |-> no]
  BY <1>2, Zenon DEF NewSession
<1> QED  BY <1>3 DEF Session, Lives

LEMMA MadeTyped ==
  ASSUME NEW f \in Fds
  PROVE  /\ Made(f) \in Session
         /\ Made(f).life = "live" /\ Made(f).fd = f /\ ~Made(f).shut
<1>1. FALSE \in Flags
  BY Zenon DEF Flags
<1>2. PICK no \in Flags : no = FALSE
  BY <1>1, Zenon
<1>3. NewSession = [life |-> "none", fd |-> 0, http |-> "none", got |-> 0, left |-> no, shut |-> no]
  BY <1>2, Zenon DEF NewSession
<1>4. NewSession \in Session
  BY NewTyped
<1> DEFINE first == [NewSession EXCEPT !.life = "live"]
           second == [first EXCEPT !.fd = f]
<1>5. first \in Session /\ first.life = "live" /\ first.shut = no
  BY <1>2, <1>3 DEF Session, Lives
<1>6. Made(f) = [second EXCEPT !.http = "request"]
  BY Zenon DEF Made
<1> HIDE DEF first
<1>7. second \in Session /\ second.life = "live" /\ second.fd = f /\ second.shut = no
  BY <1>5 DEF Session
<1> HIDE DEF second
<1> QED  BY <1>2, <1>6, <1>7 DEF Session

LEMMA NoneOld == Event(None) /\ Old(None) /\ Old(None)' /\ ~None.hup
BY DEF None, Event, Old, Nothing, Ends

-----------------------------------------------------------------------------
(* A step that leaves the connections, the lists and the lives as they are *)
(* keeps what is sound.                                                    *)
Still ==
  /\ file' = file /\ list' = list /\ backs' = backs
  /\ \A f \in Fds : epoll'[f] = "none" <=> epoll[f] = "none"
  /\ \A c \in Clients :
       /\ session'[c].life = session[c].life /\ session'[c].fd = session[c].fd
       /\ tunnel'[c].fd = tunnel[c].fd
       /\ client'[c].is = "absent" => client[c].is = "absent"
       /\ client[c].is = "reset" => client'[c].is = "reset"
       /\ session[c].http = "none" => session'[c].http = "none"
       /\ session'[c].shut => session'[c].http = "none"
  /\ \A e \in batch' \cup {now'} : e \in batch \cup {now} \/ e = None
  /\ {stage, stage'} \cap {"outclose", "inclose"} = {}

LEMMA StillSound ==
  ASSUME Typed, Sound, Still, Meant'
  PROVE  Sound'
<1> USE TypesAre
<1>1. ASSUME NEW c \in Clients  PROVE Own(c)'
  BY <1>1 DEF Sound, Still, Own
<1>2. ASSUME NEW f \in Fds  PROVE Number(f)'
  <2>1. /\ file[f] \in Ends /\ list[f] \in Clients \cup {Nobody}
        /\ backs[f] \in Clients \cup {Nobody} /\ file[f].end \in {"client", "backend"} => file[f].who \in Clients
    BY <1>2, EndsApart, TypesAre
  <2>2. Number(f)
    BY <1>2 DEF Sound
  <2> QED  BY <2>1, <2>2, <1>2, ZenonT(40) DEF Still, Number, Backend, Leaving
<1>3. ASSUME NEW e \in batch' \cup {now'}  PROVE Old(e)'
  <2>1. Event(e) \/ e = None
    BY <1>3 DEF Typed, Still
  <2>2. CASE e = None
    BY <2>2, NoneOld
  <2>3. CASE e \in batch \cup {now}
    <3>1. Event(e)
      BY <2>3 DEF Typed
    <3>2. e.who \in Ends
      BY <3>1 DEF Event
    <3>3. e.who.end = "client" => e.who.who \in Clients
      BY <3>2, EndsApart
    <3>4. Old(e)
      BY <2>3 DEF Sound
    <3> QED  BY <3>3, <3>4 DEF Still, Old, Doomed
  <2> QED  BY <1>3, <2>2, <2>3 DEF Still
<1> QED  BY <1>1, <1>2, <1>3 DEF Sound, Still

-----------------------------------------------------------------------------
(* Whom an event or a turn is for.                                         *)
LEMMA SessionLives ==
  ASSUME Typed, Sound, NEW f \in Fds, NEW c \in Clients, list[f] = c
  PROVE  /\ session[c].life = "live" /\ session[c].fd = f
         /\ file[f] = End(c, "client") /\ epoll[f] # "none"
<1>1. c # Nobody
  BY TypesAre
<1>2. Number(f) /\ Own(c)
  BY DEF Sound
<1> QED  BY <1>1, <1>2 DEF Number, Own

LEMMA TunnelLives ==
  ASSUME Typed, Sound, NEW f \in Fds, NEW c \in Clients, backs[f] = c
  PROVE  session[c].life = "live" /\ Backend(c) = f
<1>1. c # Nobody
  BY TypesAre
<1>2. Number(f)
  BY DEF Sound
<1> QED  BY <1>1, <1>2 DEF Number

-----------------------------------------------------------------------------
(* What the clients and the backends do.                                   *)
LEMMA AsksKeeps ==
  ASSUME Typed, Sound, NEW c \in Clients, Asks(c) \/ Leaves(c)
  PROVE  Typed' /\ Sound'
<1>1. /\ UNCHANGED <<kernel, list, backs, session, tunnel, server, loop, harm>>
      /\ client[c].is = "there" /\ client' \in [Clients -> Client]
      /\ \A d \in Clients : /\ client'[d].is = "absent" => client[d].is = "absent"
                            /\ client[d].is = "reset" => client'[d].is = "reset"
      /\ stage \in {"wait", "next"}
  <2>1. CASE Asks(c)
    <3> DEFINE first == [client EXCEPT ![c].asked = @ + 1]
               second == [first EXCEPT ![c].unread = @ + 1]
    <3>1. first \in [Clients -> Client] /\ \A d \in Clients : first[d].is = client[d].is
      BY DEF Typed, Client
    <3>2. client' = [second EXCEPT ![c].answered = FALSE] /\ client[c].is = "there"
      BY <2>1, Zenon DEF Asks
    <3> HIDE DEF first
    <3>3. second \in [Clients -> Client] /\ \A d \in Clients : second[d].is = client[d].is
      BY <3>1 DEF Client
    <3> HIDE DEF second
    <3> QED  BY <2>1, <3>2, <3>3 DEF Asks, Client, Between, At
  <2>2. CASE Leaves(c)
    BY <2>2 DEF Leaves, Typed, Client, Between, At
  <2> QED  BY <2>1, <2>2
<1>2. Typed'
  BY <1>1 DEF Typed, TypeOK, kernel, loop
<1>3. Still
  BY <1>1 DEF Still, kernel, loop, Sound
<1>4. Meant'
  BY <1>1 DEF Meant, loop
<1> QED  BY <1>2, <1>3, <1>4, StillSound

LEMMA ServesKeeps ==
  ASSUME Typed, Sound, NEW c \in Clients, Serves(c)
  PROVE  Typed' /\ Sound'
<1>1. /\ UNCHANGED <<kernel, list, backs, client, session, tunnel, loop, harm>>
      /\ stage \in {"wait", "next"}
  BY DEF Serves, Between, At
<1>2. Typed'
  BY <1>1 DEF Typed, TypeOK, kernel, loop
<1>3. Still
  BY <1>1 DEF Still, kernel, loop, Sound
<1>4. Meant'
  BY <1>1 DEF Meant, loop
<1> QED  BY <1>2, <1>3, <1>4, StillSound

(* Events that are put off, or have come to nothing.                       *)
LEMMA Stage ==
  ASSUME NEW e, NEW from \in {1, 2, 3}
  PROVE  /\ Branch(e, from) \in {"out", "in", "hup", "next"}
         /\ from # 1 => Branch(e, from) # "out"
         /\ from = 3 => Branch(e, from) # "in"
         /\ Branch(e, from) = "hup" => e.hup /\ (from = 3 \/ ~e.in)
BY DEF Branch

LEMMA AfterStage ==
  /\ After \in {"out", "in", "hup", "next"} /\ After # "out"
  /\ After = "in" => stage \in {"out", "outserve", "outclose"}
  /\ After = "hup" => now.hup /\ (~now.in \/ stage \notin {"out", "outserve", "outclose"})
<1>1. Branch(now, 2) \in {"in", "hup", "next"} /\ (Branch(now, 2) = "hup" => now.hup /\ ~now.in)
  BY Stage
<1>2. Branch(now, 3) \in {"hup", "next"} /\ (Branch(now, 3) = "hup" => now.hup)
  BY Stage
<1> QED  BY <1>1, <1>2 DEF After

(* Where an event comes to when a branch of it has been handled.           *)
LEMMA AfterMeant ==
  ASSUME Sound, now' = now, list' = list, stage' = After,
         \/ stage \in {"out", "outserve", "outclose", "inserve", "inclose"}
         \/ stage = "in" /\ list[now.fd] = Nobody
  PROVE  Meant'
<1>1. Meant /\ Old(now)
  BY DEF Sound
<1>2. now.hup => now.in
  BY <1>1 DEF Old
<1> QED  BY <1>1, <1>2, AfterStage DEF Meant

LEMMA PassKeeps ==
  ASSUME Typed, Sound,
         Skip \/ \E c \in Clients : Return(c)
  PROVE  Typed' /\ Sound'
<1>1. /\ stage \in {"out", "outserve", "in", "inserve"} /\ stage' = After
      /\ stage = "in" => list[now.fd] = Nobody
      /\ UNCHANGED <<kernel, list, backs, client, session, tunnel, server, batch, now, harm>>
  BY DEF Skip, Return, At
<1>2. Typed'
  BY <1>1, AfterStage DEF Typed, TypeOK, kernel, Stages, Handling
<1>3. Still
  BY <1>1, AfterStage DEF Still, kernel, Sound
<1>4. Meant'
  BY <1>1, AfterMeant
<1> QED  BY <1>2, <1>3, <1>4, StillSound

LEMMA TakeKeeps ==
  ASSUME Typed, Sound, Take
  PROVE  Typed' /\ (harm' = {} => Sound')
<1>1. /\ harm = {} /\ stage = "next"
      /\ UNCHANGED <<kernel, list, backs, client, session, tunnel, server>>
  BY DEF Take, At
<1>2. CASE batch = {}
  <2>1. stage' = "wait" /\ now' = None /\ batch' = batch /\ harm' = harm
    BY <1>2 DEF Take
  <2>2. Event(None)
    BY DEF None, Event, Ends
  <2>3. Typed'
    BY <1>1, <2>1, <2>2 DEF Typed, TypeOK, kernel, Stages, Handling
  <2>4. Still
    BY <1>1, <2>1 DEF Still, kernel, Sound
  <2>5. Meant'
    BY <2>1 DEF Meant
  <2> QED  BY <2>3, <2>4, <2>5, StillSound
<1>3. CASE batch # {}
  <2>1. PICK e \in batch : batch' = batch \ {e} /\ now' = e /\ stage' = Branch(e, 1)
                           /\ Note(When("event", Foreign(e.fd, e.who)))
    BY <1>3 DEF Take
  <2>2. Event(e) /\ e.fd # 0
    BY DEF Typed
  <2>3. stage' \in {"out", "in", "hup", "next"}
    BY <2>1, <2>2, Stage
  <2>4. harm' \subseteq {"event"}
    BY <1>1, <2>1 DEF Note, When
  <2>5. Typed'
    BY <1>1, <2>1, <2>2, <2>3, <2>4 DEF Typed, TypeOK, kernel, Stages, Handling
  <2>6. Still
    BY <1>1, <2>1, <2>3 DEF Still, kernel, Sound
  <2>7. Old(e)
    BY DEF Sound
  <2>8. stage' # "hup"
    BY <2>1, <2>7, Stage DEF Old
  <2>9. harm' = {} => Meant'
    <3> SUFFICES ASSUME harm' = {}  PROVE Meant'
      OBVIOUS
    <3>1. file[e.fd] \in {Nothing, e.who}
      BY <1>1, <2>1, <2>2 DEF Note, When, Foreign
    <3>2. e.fd \in Fds
      BY <2>2 DEF Event
    <3>3. list[e.fd] # Nobody => e.who = End(list[e.fd], "client")
      <4> SUFFICES ASSUME NEW c \in Clients, list[e.fd] = c  PROVE e.who = End(c, "client")
        BY <3>2, TypesAre
      <4> QED  BY <3>1, <3>2, SessionLives, EndsTyped
    <3> QED  BY <1>1, <2>1, <2>3, <2>8, <3>3 DEF Meant
  <2> QED  BY <2>5, <2>6, <2>9, StillSound
<1> QED  BY <1>2, <1>3

LEMMA Handled ==
  ASSUME Typed, Sound, NEW c \in Clients,
         stage \in Handling,
         ForSession(c) \/ ForTunnel(c)
  PROVE  /\ session[c].life = "live" /\ session[c].fd \in Fds
         /\ list[session[c].fd] = c /\ epoll[session[c].fd] # "none"
         /\ now.fd \in Fds
<1>1. now.fd \in Fds
  BY DEF Typed, Event
<1>2. session[c].life = "live"
  BY <1>1, SessionLives, TunnelLives DEF ForSession, ForTunnel
<1>3. Own(c)
  BY DEF Sound
<1> QED  BY <1>1, <1>2, <1>3 DEF Own

(* What an answer is sent with.                                            *)
LEMMA SendStill ==
  ASSUME Typed, NEW c \in Clients, NEW left \in BOOLEAN, Send(c, left),
         session[c].fd \in Fds, epoll[session[c].fd] # "none"
  PROVE  /\ client' \in [Clients -> Client] /\ epoll' \in [Fds -> {"none", "in", "inout"}]
         /\ \A d \in Clients : client'[d].is = client[d].is
         /\ \A f \in Fds : epoll'[f] = "none" <=> epoll[f] = "none"
<1>1. epoll \in [Fds -> {"none", "in", "inout"}]
  BY TypesAre
<1>2. client' = [client EXCEPT ![c].answered = ~left]
  BY DEF Send
<1>3. client' \in [Clients -> Client] /\ \A d \in Clients : client'[d].is = client[d].is
  BY <1>2 DEF Typed, Client
<1>4. /\ epoll' = [epoll EXCEPT ![session[c].fd] = "inout"]
      \/ epoll' = [epoll EXCEPT ![session[c].fd] = "in"]
  BY Zenon DEF Send
<1> QED  BY <1>1, <1>3, <1>4

(* A session's or a tunnel's turn, and what leaves the connections alone.  *)
Flushed(c) ==
  /\ At({"out"}) /\ ForTunnel(c)
  /\ epoll' = [epoll EXCEPT ![now.fd] = IF @ = "inout" THEN "in" ELSE @]
  /\ stage' = Serving
  /\ UNCHANGED <<file, list, backs, client, session, tunnel, batch, now, harm>>

LEMMA TurnsKeep ==
  ASSUME Typed, Sound, NEW c \in Clients,
         \/ Reply(c) \/ Proxy(c) \/ Connected(c) \/ Relay(c) \/ Finish(c) \/ Release(c)
         \/ Flushed(c)
  PROVE  Typed' /\ Sound'
<1>1. /\ stage \in {"out", "outserve", "inserve"}
      /\ ForSession(c) \/ ForTunnel(c)
      /\ stage = "out" => list[now.fd] = Nobody
  BY DEF Reply, Proxy, Connected, Relay, Finish, Release, Served, Turns, Flushed, At, ForTunnel
<1>2. /\ session[c].life = "live" /\ session[c].fd \in Fds
      /\ list[session[c].fd] = c /\ epoll[session[c].fd] # "none" /\ now.fd \in Fds
  BY <1>1, Handled DEF Handling, Stages
<1>3. UNCHANGED <<file, list, backs, batch, now, harm>>
  BY DEF Reply, Proxy, Connected, Relay, Finish, Release, Flushed, kernel, loop
<1>4. /\ session' \in [Clients -> Session]
      /\ \A d \in Clients : /\ session'[d].life = session[d].life /\ session'[d].fd = session[d].fd
                            /\ session[d].http = "none" => session'[d].http = "none"
                            /\ session'[d].shut => session'[d].http = "none"
  <2>0. \A d \in Clients : session[d].shut => session[d].http = "none"
    BY DEF Sound
  <2>1. CASE Reply(c)
    <3>1. PICK left \in BOOLEAN :
            session' = [session EXCEPT ![c].http = "complete", ![c].got = @ - 1, ![c].left = left]
      BY <2>1 DEF Reply
    <3>2. left \in Flags
      BY <3>1, Zenon DEF Flags
    <3>3. PICK x \in Flags :
            session' = [session EXCEPT ![c].http = "complete", ![c].got = @ - 1, ![c].left = x]
      BY <3>1, <3>2, Zenon
    <3>4. session[c].http = "request"
      BY <2>1 DEF Reply
    <3> QED  BY <2>0, <3>3, <3>4 DEF Typed, Session
  <2>2. CASE Proxy(c)
    BY <2>0, <2>2 DEF Proxy, Typed, Session
  <2>3. CASE Relay(c)
    <3>1. PICK x \in BOOLEAN : session' = [session EXCEPT ![c].left = x]
      BY <2>3 DEF Relay
    <3>2. x \in Flags
      BY <3>1, Zenon DEF Flags
    <3>3. PICK y \in Flags : session' = [session EXCEPT ![c].left = y]
      BY <3>1, <3>2, Zenon
    <3> QED  BY <2>0, <3>3 DEF Typed, Session
  <2>4. CASE Finish(c)
    BY <2>0, <2>4 DEF Finish, Typed, Session
  <2>5. CASE Release(c)
    <3>1. PICK keep \in BOOLEAN :
            session' = [session EXCEPT ![c].http = "none", ![c].got = 0, ![c].shut = ~keep]
      BY <2>5 DEF Release
    <3>2. \/ session' = [session EXCEPT ![c].http = "none", ![c].got = 0, ![c].shut = TRUE]
          \/ session' = [session EXCEPT ![c].http = "none", ![c].got = 0, ![c].shut = FALSE]
      <4>1. CASE keep
        <5>1. (~keep) = FALSE
          BY <4>1
        <5> QED  BY <3>1, <5>1, Zenon
      <4>2. CASE ~keep
        <5>1. (~keep) = TRUE
          BY <4>2
        <5> QED  BY <3>1, <5>1, Zenon
      <4> QED  BY <4>1, <4>2
    <3>3. PICK x \in Flags :
            session' = [session EXCEPT ![c].http = "none", ![c].got = 0, ![c].shut = x]
      BY <3>2, Zenon DEF Flags
    <3> DEFINE first == [session EXCEPT ![c].http = "none"]
               second == [first EXCEPT ![c].got = 0]
    <3>4. /\ first \in [Clients -> Session]
          /\ \A d \in Clients : /\ first[d].life = session[d].life /\ first[d].fd = session[d].fd
                                /\ d # c => first[d] = session[d]
          /\ first[c].http = "none"
      BY DEF Typed, Session
    <3>5. session' = [second EXCEPT ![c].shut = x]
      BY <3>3, Zenon
    <3>6. second = [first EXCEPT ![c].got = 0]
      OBVIOUS
    <3> HIDE DEF first
    <3>7. /\ second \in [Clients -> Session]
          /\ \A d \in Clients : /\ second[d].life = session[d].life /\ second[d].fd = session[d].fd
                                /\ d # c => second[d] = session[d]
          /\ second[c].http = "none"
      BY <3>4 DEF Session
    <3> HIDE DEF second
    <3> QED  BY <2>0, <3>5, <3>7 DEF Session
  <2>6. CASE Connected(c) \/ Flushed(c)
    BY <2>0, <2>6 DEF Connected, Flushed, Typed
  <2> QED  BY <2>1, <2>2, <2>3, <2>4, <2>5, <2>6
<1>5. /\ tunnel' \in [Clients -> Tunnel]
      /\ \A d \in Clients : tunnel'[d].fd = tunnel[d].fd
  <2>1. CASE Proxy(c)
    BY <2>1 DEF Proxy, Typed, Tunnel
  <2>2. CASE Relay(c)
    BY <2>2 DEF Relay, Typed, Tunnel
  <2>3. CASE Finish(c)
    BY <2>3 DEF Finish, Typed, Tunnel
  <2>4. CASE Connected(c)
    <3>1. \/ tunnel' = [tunnel EXCEPT ![c].state = "complete"]
          \/ tunnel' = [tunnel EXCEPT ![c].state = "relaying"]
      BY <2>4, Zenon DEF Connected
    <3>2. tunnel \in [Clients -> Tunnel]
      BY DEF Typed
    <3> QED  BY <3>1, <3>2 DEF Tunnel
  <2>5. CASE Reply(c) \/ Release(c) \/ Flushed(c)
    BY <2>5 DEF Reply, Release, Flushed, Typed
  <2> QED  BY <2>1, <2>2, <2>3, <2>4, <2>5
<1>6. /\ client' \in [Clients -> Client] /\ epoll' \in [Fds -> {"none", "in", "inout"}]
      /\ \A d \in Clients : client'[d].is = client[d].is
      /\ \A f \in Fds : epoll'[f] = "none" <=> epoll[f] = "none"
  <2>1. CASE Reply(c) \/ Relay(c)
    <3>1. PICK left \in BOOLEAN : Send(c, left)
      BY <2>1 DEF Reply, Relay
    <3> QED  BY <3>1, <1>2, SendStill
  <2>2. CASE Proxy(c) \/ Finish(c) \/ Release(c)
    BY <2>2, TypesAre DEF Proxy, Finish, Release, kernel, Typed
  <2>4. CASE Connected(c)
    <3>1. PICK x \in {"in", "inout"} :
            epoll' = [epoll EXCEPT ![Backend(c)] = IF @ = "none" THEN @ ELSE x]
      BY <2>4 DEF Connected
    <3> QED  BY <3>1, <2>4, TypesAre DEF Connected, Typed
  <2>3. CASE Flushed(c)
    <3>1. \/ epoll' = [epoll EXCEPT ![now.fd] = "in"] /\ epoll[now.fd] = "inout"
          \/ epoll' = epoll
      BY <2>3, <1>2, TypesAre DEF Flushed
    <3> QED  BY <3>1, <2>3, <1>2, TypesAre DEF Flushed, Typed
  <2> QED  BY <2>1, <2>2, <2>3, <2>4
<1>7. /\ stage' \in Stages /\ now.fd # 0
      /\ stage' \notin {"outclose", "inclose"}
  <2>1. now.fd # 0
    BY <1>2, TypesAre
  <2>2. stage' \in {After, stage, Serving}
    BY DEF Reply, Proxy, Connected, Relay, Finish, Release, Flushed, loop
  <2>3. {After, stage, Serving} \subseteq Stages \ {"outclose", "inclose"}
    BY <1>1, AfterStage DEF Serving, Stages
  <2> QED  BY <2>1, <2>2, <2>3
<1>8. Typed'
  BY <1>3, <1>4, <1>5, <1>6, <1>7, TypesAre DEF Typed, TypeOK
<1>9. Still
  BY <1>1, <1>3, <1>4, <1>5, <1>6, <1>7 DEF Still
<1>10. Meant'
  <2>1. CASE stage' = After /\ stage # "out"
    BY <1>1, <1>3, <2>1, AfterMeant
  <2>2. CASE stage' = stage
    BY <1>1, <1>3, <2>2 DEF Sound, Meant
  <2>3. CASE stage = "out" /\ stage' = Serving
    BY <1>1, <1>3, <2>3 DEF Meant, Serving
  <2> QED
    BY <2>1, <2>2, <2>3
    DEF Reply, Proxy, Connected, Relay, Finish, Release, Flushed, Served, Turns, At, loop
<1> QED  BY <1>8, <1>9, <1>10, StillSound

(* The tunnel's second request.                                            *)
LEMMA AgainKeeps ==
  ASSUME Typed, Sound, NEW c \in Clients, Again(c)
  PROVE  Typed' /\ harm' # {}
<1>1. /\ harm' = {"repeated"}
      /\ UNCHANGED <<kernel, list, backs, client, session, tunnel, server, loop>>
  BY DEF Again, Note, Turns, At
<1> QED  BY <1>1 DEF Typed, TypeOK, kernel, loop

-----------------------------------------------------------------------------
(* Descriptors that come: from the dispatcher, and of a tunnel.            *)
LEMMA ArriveKeeps ==
  ASSUME Typed, Sound, NEW c \in Clients, Arrive(c)
  PROVE  Typed' /\ Sound'
<1> USE TypesAre
<1>1. PICK f \in Fds :
        /\ Lowest(f) /\ file' = [file EXCEPT ![f] = End(c, "client")]
        /\ session' = [session EXCEPT ![c].life = "queued", ![c].fd = f]
  BY DEF Arrive
<1>2. /\ client[c].is = "absent"
      /\ client' = [client EXCEPT ![c].is = "there", ![c].asked = 1, ![c].unread = 1]
      /\ UNCHANGED <<epoll, list, backs, tunnel, server, loop, harm>>
  BY DEF Arrive
<1>3. End(c, "client") \in Ends /\ End(c, "client").who = c /\ End(c, "client").end = "client"
  BY EndsTyped
<1>4. file[f] = Nothing /\ session[c].life = "none" /\ epoll[f] = "none"
  <2>1. file[f] = Nothing
    BY <1>1 DEF Lowest
  <2>2. Own(c) /\ Number(f)
    BY <1>1 DEF Sound
  <2> QED  BY <2>1, <2>2, <1>2 DEF Own, Number
<1>5. /\ session' \in [Clients -> Session]
      /\ session'[c].life = "queued" /\ session'[c].fd = f
      /\ session'[c].shut = session[c].shut /\ session'[c].http = session[c].http
      /\ \A d \in Clients : d # c => session'[d] = session[d]
  <2> DEFINE first == [session EXCEPT ![c].life = "queued"]
  <2>1. first \in [Clients -> Session] /\ first[c].life = "queued"
        /\ first[c].shut = session[c].shut /\ first[c].http = session[c].http
        /\ \A d \in Clients : d # c => first[d] = session[d]
    BY DEF Typed, Session, Lives
  <2>2. session' = [first EXCEPT ![c].fd = f]
    BY <1>1, Zenon
  <2> HIDE DEF first
  <2> QED  BY <2>1, <2>2 DEF Session
<1>6. /\ client' \in [Clients -> Client] /\ client'[c].is = "there"
      /\ \A d \in Clients : d # c => client'[d] = client[d]
  <2> DEFINE first == [client EXCEPT ![c].is = "there"]
             second == [first EXCEPT ![c].asked = 1]
  <2>1. first \in [Clients -> Client] /\ first[c].is = "there"
        /\ \A d \in Clients : d # c => first[d] = client[d]
    BY DEF Typed, Client
  <2>2. client' = [second EXCEPT ![c].unread = 1]
    BY <1>2, Zenon
  <2> HIDE DEF first
  <2>3. second \in [Clients -> Client] /\ second[c].is = "there"
        /\ \A d \in Clients : d # c => second[d] = client[d]
    BY <2>1 DEF Client
  <2> HIDE DEF second
  <2> QED  BY <2>2, <2>3 DEF Client
<1>7. file' \in [Fds -> Ends]
  BY <1>1, <1>3
<1>8. Typed'
  BY <1>2, <1>5, <1>6, <1>7 DEF Typed, TypeOK, loop, Ends
<1>12. stage \in {"outclose", "inclose"} => f # now.fd
  BY <1>4, EndsApart DEF Sound, Meant, Nothing
<1>9. ASSUME NEW d \in Clients  PROVE Own(d)'
  <2>1. CASE d = c
    BY <2>1, <1>1, <1>3, <1>5, <1>6 DEF Own
  <2>2. CASE d # c
    <3>1. Own(d)
      BY DEF Sound
    <3>2. session[d].life \in {"queued", "live", "lost"} => session[d].fd # f
      BY <3>1, <1>4, EndsTyped DEF Own
    <3> QED  BY <2>2, <3>1, <3>2, <1>1, <1>2, <1>5, <1>6 DEF Own
  <2> QED  BY <2>1, <2>2
<1>10. ASSUME NEW g \in Fds  PROVE Number(g)'
  <2>1. Number(g) /\ file[g] \in Ends
    BY DEF Sound
  <2>2. list[g] # c /\ backs[g] # c
    BY <1>4, SessionLives, TunnelLives
  <2>4. CASE g = f
    BY <2>1, <2>2, <2>4, <1>1, <1>2, <1>3, <1>4, <1>5, <1>12 DEF Number, Backend, Leaving
  <2>5. CASE g # f
    <3>1. file'[g] = file[g] /\ epoll'[g] = epoll[g] /\ list'[g] = list[g] /\ backs'[g] = backs[g]
      BY <2>5, <1>1, <1>2
    <3>2. file[g].end \in {"client", "backend"} => file[g].who \in Clients
      BY <2>1, EndsApart
    <3>3. list[g] \in Clients \cup {Nobody} /\ backs[g] \in Clients \cup {Nobody}
      OBVIOUS
    <3>4. file[g].end = "client" /\ ~Leaving(g) => file[g].who # c
      BY <2>1, <1>4 DEF Number
    <3>5. Leaving(g)' <=> Leaving(g)
      BY <1>2 DEF Leaving, loop
    <3> QED  BY <2>1, <2>2, <3>1, <3>2, <3>3, <3>4, <3>5, <1>2, <1>5 DEF Number, Backend
  <2> QED  BY <2>4, <2>5
<1>11. ASSUME NEW e \in batch' \cup {now'}  PROVE Old(e)'
  <2>1. e \in batch \cup {now} /\ Event(e)
    BY <1>2 DEF loop, Typed
  <2>2. Old(e) /\ e.who \in Ends
    BY <2>1 DEF Sound, Event
  <2>3. e.who.end = "client" => e.who.who \in Clients /\ e.who.who # c
    BY <2>2, <1>4, EndsApart DEF Old
  <2> QED  BY <2>2, <2>3, <1>5, <1>6 DEF Old, Doomed
<1>13. ASSUME NEW d \in Clients  PROVE session'[d].shut => session'[d].http = "none"
  BY <1>5 DEF Sound
<1>14. Meant'
  <2>1. /\ stage' = stage /\ now' = now /\ list' = list /\ epoll' = epoll
        /\ stage \in {"outclose", "inclose"} => file'[now.fd] = file[now.fd]
        /\ stage = "forget" => file'[now.fd] \in {file[now.fd], End(c, "client")}
    BY <1>1, <1>2, <1>12 DEF loop, Typed, Event, Handling, Stages
  <2>2. Meant
    BY DEF Sound
  <2>3. stage \in {"outclose", "inclose"} => now.who.who \in Clients /\ now.who.who # c
    <3>1. now.who \in Ends
      BY DEF Typed, Event
    <3> QED  BY <2>2, <3>1, <1>4, EndsApart DEF Meant
  <2> QED  BY <2>1, <2>2, <2>3, <1>3, <1>5 DEF Meant
<1> QED  BY <1>8, <1>9, <1>10, <1>11, <1>13, <1>14 DEF Sound

LEMMA ConnectKeeps ==
  ASSUME Typed, Sound, NEW c \in Clients, Connect(c)
  PROVE  Typed' /\ (harm' = {} => Sound')
<1> USE TypesAre
<1>1. /\ harm = {} /\ Backend(c) = 0 /\ UNCHANGED <<list, client, session, loop>>
      /\ stage \in {"outserve", "inserve"} /\ (ForSession(c) \/ ForTunnel(c))
  BY DEF Connect, Turns, At
<1>2. session[c].life = "live"
  BY <1>1, Handled DEF Handling, Stages
<1>3. CASE tunnel' = [tunnel EXCEPT ![c].state = "complete"] /\ UNCHANGED <<kernel, backs, harm>>
  <2>1. tunnel' \in [Clients -> Tunnel] /\ \A d \in Clients : tunnel'[d].fd = tunnel[d].fd
    BY <1>3 DEF Typed, Tunnel
  <2>2. Typed'
    BY <1>1, <1>3, <2>1 DEF Typed, TypeOK, kernel, loop
  <2>3. Still
    BY <1>1, <1>3, <2>1 DEF Still, kernel, loop, Sound
  <2>4. Meant'
    BY <1>1, <1>3 DEF Sound, Meant, loop, kernel
  <2> QED  BY <2>2, <2>3, <2>4, StillSound
<1>4. CASE \E f \in Fds :
             /\ Lowest(f) /\ file' = [file EXCEPT ![f] = End(c, "backend")]
             /\ epoll' = [epoll EXCEPT ![f] = Interest]
             /\ backs' = [backs EXCEPT ![f] = IF @ = Nobody THEN c ELSE @]
             /\ Note(When("shadowed", backs[f] # Nobody))
             /\ tunnel' = [tunnel EXCEPT ![c].state = "waiting", ![c].fd = f]
  <2>1. PICK f \in Fds :
             /\ Lowest(f) /\ file' = [file EXCEPT ![f] = End(c, "backend")]
             /\ epoll' = [epoll EXCEPT ![f] = Interest]
             /\ backs' = [backs EXCEPT ![f] = IF @ = Nobody THEN c ELSE @]
             /\ Note(When("shadowed", backs[f] # Nobody))
             /\ tunnel' = [tunnel EXCEPT ![c].state = "waiting", ![c].fd = f]
    BY <1>4
  <2>2. /\ harm' \subseteq {"shadowed"}
        /\ harm' = {} => backs[f] = Nobody
    BY <1>1, <2>1 DEF Note, When
  <2>3. End(c, "backend") \in Ends /\ End(c, "backend").who = c /\ End(c, "backend").end = "backend"
        /\ End(c, "backend") # Nothing
    BY EndsTyped
  <2>4. /\ tunnel' \in [Clients -> Tunnel] /\ tunnel'[c].fd = f
        /\ \A d \in Clients : d # c => tunnel'[d] = tunnel[d]
    BY <2>1, ZenonT(40) DEF Typed, Tunnel
  <2>5. /\ file' \in [Fds -> Ends] /\ epoll' \in [Fds -> {"none", "in", "inout"}]
        /\ backs' \in [Fds -> Clients \cup {Nobody}]
    BY <2>1, <2>3 DEF Interest
  <2>6. Typed'
    BY <1>1, <2>2, <2>4, <2>5 DEF Typed, TypeOK, loop, Ends
  <2>7. file[f] = Nothing
    BY <2>1 DEF Lowest
  <2> SUFFICES ASSUME harm' = {}  PROVE Sound'
    BY <2>6
  <2>8. backs' = [backs EXCEPT ![f] = c]
    BY <2>1, <2>2
  <2>9. ASSUME NEW d \in Clients  PROVE Own(d)'
    <3>1. Own(d)
      BY DEF Sound
    <3>2. session[d].life \in {"queued", "live", "lost"} => session[d].fd # f
      BY <3>1, <2>7, EndsTyped DEF Own
    <3> QED  BY <3>1, <3>2, <1>1, <2>1 DEF Own
  <2>10. ASSUME NEW g \in Fds  PROVE Number(g)'
    <3>1. Number(g) /\ Number(f)
      BY DEF Sound
    <3>2. CASE g = f
      BY <3>1, <3>2, <1>1, <1>2, <2>1, <2>3, <2>4, <2>8 DEF Number, Backend, Leaving, loop
    <3>3. CASE g # f
      <4>1. file'[g] = file[g] /\ epoll'[g] = epoll[g] /\ list'[g] = list[g] /\ backs'[g] = backs[g]
        BY <3>3, <1>1, <2>1, <2>8
      <4>2. backs[g] # c
        BY <1>1, TunnelLives
      <4>3. backs[g] \in Clients \cup {Nobody}
        OBVIOUS
      <4> QED  BY <3>1, <4>1, <4>2, <4>3, <1>1, <2>4 DEF Number, Backend, Leaving, loop
    <3> QED  BY <3>2, <3>3
  <2>11. \A e \in batch' \cup {now'} : Old(e)'
    BY <1>1 DEF Sound, Old, Doomed, loop
  <2>12. Meant'
    BY <1>1 DEF Sound, Meant, loop
  <2>13. \A d \in Clients : session'[d].shut => session'[d].http = "none"
    BY <1>1 DEF Sound
  <2> QED  BY <2>9, <2>10, <2>11, <2>12, <2>13 DEF Sound
<1> QED  BY <1>3, <1>4 DEF Connect

-----------------------------------------------------------------------------
(* A session that goes, with its tunnel's number; its own is closed next.  *)
LEMMA RemoveTyped ==
  ASSUME Typed, NEW c \in Clients, session[c].life = "live", session[c].fd \in Fds,
         Own(c), Remove(c)
  PROVE  /\ session' \in [Clients -> Session]
         /\ session'[c].life = "deleted" /\ session'[c].http = "none"
         /\ \A d \in Clients : d # c => session'[d] = session[d]
         /\ tunnel' \in [Clients -> Tunnel]
         /\ \A d \in Clients : d # c => tunnel'[d] = tunnel[d]
         /\ client' \in [Clients -> Client] /\ client'[c].is # "absent"
         /\ \A d \in Clients : d # c => client'[d] = client[d]
<1> USE TypesAre
<1>1. /\ session' = [session EXCEPT ![c] = Deleted]
      /\ Deleted \in Session /\ Deleted.life = "deleted" /\ Deleted.http = "none"
  <2>1. Deleted \in Session /\ Deleted.life = "deleted" /\ Deleted.http = "none"
    BY NewTyped DEF Deleted, Session, Lives
  <2> QED  BY <2>1 DEF Remove
<1>2. tunnel' = [tunnel EXCEPT ![c] = NoTunnel] /\ NoTunnel \in Tunnel
  BY DEF Remove, NoTunnel, Tunnel
<1> DEFINE is == IF client[c].is = "there" THEN "dropped" ELSE client[c].is
<1>3. is \in {"there", "closed", "reset", "dropped"}
  BY DEF Own, Typed, Client
<1>4. /\ client' \in [Clients -> Client] /\ client'[c].is # "absent"
      /\ \A d \in Clients : d # c => client'[d] = client[d]
  <2>1. client' = [client EXCEPT ![c].is = is, ![c].unread = 0]
    BY Zenon DEF Remove
  <2> HIDE DEF is
  <2> DEFINE first == [client EXCEPT ![c].is = is]
  <2>2. first \in [Clients -> Client] /\ first[c].is # "absent"
        /\ \A d \in Clients : d # c => first[d] = client[d]
    BY <1>3 DEF Typed, Client
  <2>3. client' = [first EXCEPT ![c].unread = 0]
    BY <2>1, Zenon
  <2> HIDE DEF first
  <2> QED  BY <2>2, <2>3 DEF Client
<1> QED  BY <1>1, <1>2, <1>4 DEF Typed

LEMMA RemoveKeeps ==
  ASSUME Typed, Sound, harm = {}, NEW c \in Clients, stage \in {"out", "in"}, ForSession(c),
         Remove(c), batch' = batch, now' = now, stage' = Closing
  PROVE  Typed' /\ (harm' = {} => Sound')
<1> USE TypesAre
<1> DEFINE s == session[c].fd
           b == Backend(c)
<1>1. /\ s \in Fds /\ file[s] = End(c, "client") /\ list[s] = c /\ b \in Fds \cup {0}
      /\ session[c].life = "live" /\ now.fd = s /\ now.who = End(c, "client")
      /\ stage' \in {"outclose", "inclose"}
  <2>1. now.fd \in Fds /\ list[now.fd] = c
    BY DEF Typed, Handling, Stages, Event, ForSession
  <2> QED  BY <2>1, SessionLives DEF Sound, Meant, Backend, Typed, Tunnel, Closing
<1>2. /\ session' \in [Clients -> Session]
      /\ session'[c].life = "deleted" /\ session'[c].http = "none"
      /\ \A d \in Clients : d # c => session'[d] = session[d]
      /\ tunnel' \in [Clients -> Tunnel]
      /\ \A d \in Clients : d # c => tunnel'[d] = tunnel[d]
      /\ client' \in [Clients -> Client] /\ client'[c].is # "absent"
      /\ \A d \in Clients : d # c => client'[d] = client[d]
  BY <1>1, RemoveTyped DEF Sound
<1>3. /\ file' = [f \in Fds |-> IF f = b THEN Nothing ELSE file[f]]
      /\ epoll' = [f \in Fds |-> IF f \in {b, s} THEN "none" ELSE epoll[f]]
      /\ list' = [list EXCEPT ![s] = Nobody]
      /\ backs' = [f \in Fds |-> IF f = b THEN Nobody ELSE backs[f]]
  BY DEF Remove, Erase
<1>4. harm' \subseteq {"tunnel"}
  <2>1. ~Foreign(s, End(c, "client"))
    BY <1>1 DEF Foreign
  <2> QED  BY <2>1 DEF Remove, Note, When
<1>5. harm' = {} /\ b # 0 => file[b] \in {Nothing, End(c, "backend")}
  BY DEF Remove, Note, When, Foreign
<1> HIDE DEF s, b
<1>6. /\ file' \in [Fds -> Ends] /\ epoll' \in [Fds -> {"none", "in", "inout"}]
      /\ list' \in [Fds -> Clients \cup {Nobody}] /\ backs' \in [Fds -> Clients \cup {Nobody}]
  <2>1. Nothing \in Ends
    BY DEF Ends
  <2> QED  BY <1>1, <1>3, <2>1
<1>7. Typed'
  BY <1>1, <1>2, <1>4, <1>6 DEF Typed, TypeOK, Ends, Stages, Handling
<1> SUFFICES ASSUME harm' = {}  PROVE Sound'
  BY <1>7
<1>8. b # s
  BY <1>1, <1>5, EndsTyped
<1>9. ASSUME NEW d \in Clients  PROVE Own(d)'
  <2>1. CASE d = c
    BY <2>1, <1>2 DEF Own
  <2>2. CASE d # c
    <3>1. Own(d)
      BY DEF Sound
    <3>2. session[d].life \in {"queued", "live", "lost"} => session[d].fd # s /\ session[d].fd # b
      BY <3>1, <2>2, <1>1, <1>5, EndsTyped DEF Own
    <3>3. session'[d] = session[d] /\ client'[d] = client[d]
      BY <2>2, <1>2
    <3>4. session[d].life \in {"queued", "live", "lost"} =>
            /\ file'[session[d].fd] = file[session[d].fd]
            /\ epoll'[session[d].fd] = epoll[session[d].fd]
            /\ list'[session[d].fd] = list[session[d].fd]
      BY <3>1, <3>2, <1>3 DEF Own
    <3> QED  BY <3>1, <3>3, <3>4 DEF Own
  <2> QED  BY <2>1, <2>2
<1>10. ASSUME NEW g \in Fds  PROVE Number(g)'
  <2>1. Number(g) /\ file[g] \in Ends /\ list[g] \in Clients \cup {Nobody}
        /\ backs[g] \in Clients \cup {Nobody} /\ ~Leaving(g) /\ (Leaving(g)' <=> g = s)
    BY <1>1 DEF Sound, Leaving
  <2>2. backs[g] = c => g = b
    BY <2>1 DEF Number, b
  <2>3. list[g] = c => g = s
    BY <2>1 DEF Number, s
  <2>4. backs'[g] # Nobody => session'[backs'[g]].life = "live" /\ Backend(backs[g])' = g /\ backs'[g] = backs[g]
    BY <2>1, <2>2, <1>2, <1>3 DEF Number, Backend
  <2>5. list'[g] # Nobody => session'[list'[g]].life = "live" /\ session'[list'[g]].fd = g
    BY <2>1, <2>3, <1>1, <1>2, <1>3 DEF Number
  <2>6. CASE g = b
    <3>1. file'[g] = Nothing /\ epoll'[g] = "none"
      BY <2>6, <1>3
    <3> QED  BY <3>1, <2>4, <2>5 DEF Number, Backend, Nothing
  <2>7. CASE g = s
    <3>1. file'[g] = End(c, "client") /\ epoll'[g] = "none"
      BY <2>7, <1>1, <1>3, <1>8
    <3> QED  BY <2>1, <2>7, <3>1, <2>4, <2>5, EndsTyped DEF Number, Backend
  <2>8. CASE g \notin {s, b}
    <3>1. file'[g] = file[g] /\ epoll'[g] = epoll[g] /\ backs'[g] = backs[g]
      BY <2>8, <1>3
    <3>2. file[g].end = "client" => file[g].who \in Clients /\ file[g].who # c
      BY <2>1, <2>8, EndsApart DEF Number, s
    <3>3. Number(g)
      BY <2>1
    <3>4. file'[g].end = "client" =>
            /\ session'[file'[g].who].life \in {"queued", "live", "lost"}
            /\ session'[file'[g].who].fd = g
            /\ epoll'[g] # "none" => session'[file'[g].who].life = "live"
      BY <2>1, <3>1, <3>2, <3>3, <1>2 DEF Number
    <3> QED  BY <3>1, <3>3, <3>4, <2>4, <2>5 DEF Number, Backend
  <2> QED  BY <2>6, <2>7, <2>8
<1>11. ASSUME NEW e \in batch' \cup {now'}  PROVE Old(e)'
  <2>1. Event(e) /\ Old(e)
    BY <1>11 DEF Typed, Sound
  <2>2. e.who \in Ends
    BY <2>1 DEF Event
  <2>3. e.who.end = "client" => e.who.who \in Clients
    BY <2>2, EndsApart
  <2> QED  BY <2>1, <2>3, <1>2 DEF Old, Doomed
<1>12. \A d \in Clients : session'[d].shut => session'[d].http = "none"
  BY <1>2 DEF Sound
<1>13. Meant'
  BY <1>1, <1>2, <1>3, <1>8, EndsTyped DEF Meant
<1> QED  BY <1>9, <1>10, <1>11, <1>12, <1>13 DEF Sound

(* Sending to and receiving from a client.                                 *)
LEMMA ClientKeeps ==
  ASSUME Typed, Sound, NEW c \in Clients, SendToClient(c) \/ RecvFromClient(c)
  PROVE  Typed' /\ (harm' = {} => Sound')
<1> USE TypesAre
<1>1. /\ harm = {} /\ stage \in {"out", "in"} /\ ForSession(c) /\ now' = now /\ batch' = batch
      /\ now.fd \in Fds /\ now.fd # 0
  BY DEF SendToClient, RecvFromClient, At, Typed, Event, Handling, Stages
<1>2. session[c].life = "live" /\ list[now.fd] = c /\ epoll[now.fd] # "none"
  BY <1>1, SessionLives DEF ForSession
<1>3. CASE Remove(c) /\ stage' = Closing
  BY <1>1, <1>3, RemoveKeeps
<1>6. \A d \in Clients : session[d].shut => session[d].http = "none"
  BY DEF Sound
<1>4. CASE /\ session[c].http # "none" /\ client[c].is # "reset"
           /\ session' = [session EXCEPT ![c].left = FALSE]
           /\ client' = [client EXCEPT ![c].answered = TRUE]
           /\ epoll' = [epoll EXCEPT ![now.fd] = "in"]
           /\ stage' = Serving /\ stage = "out"
           /\ UNCHANGED <<file, list, backs, tunnel, server, harm>>
  <2>1. /\ session' \in [Clients -> Session]
        /\ \A d \in Clients : /\ session'[d].life = session[d].life /\ session'[d].fd = session[d].fd
                              /\ session'[d].http = session[d].http
                              /\ session'[d].shut => session'[d].http = "none"
    <3>1. FALSE \in Flags
      BY Zenon DEF Flags
    <3>2. PICK x \in Flags : session' = [session EXCEPT ![c].left = x]
      BY <1>4, <3>1, Zenon
    <3> QED  BY <1>6, <3>2 DEF Typed, Session
  <2>2. /\ client' \in [Clients -> Client]
        /\ \A d \in Clients : client'[d].is = client[d].is
    BY <1>4 DEF Typed, Client
  <2>3. /\ epoll' \in [Fds -> {"none", "in", "inout"}]
        /\ \A f \in Fds : epoll'[f] = "none" <=> epoll[f] = "none"
    BY <1>2, <1>4
  <2>4. Typed'
    BY <1>1, <1>4, <2>1, <2>2, <2>3 DEF Typed, TypeOK, Serving, Stages, Handling
  <2>5. Still
    BY <1>1, <1>4, <2>1, <2>2, <2>3 DEF Still, Serving
  <2>6. Meant'
    BY <1>1, <1>4 DEF Sound, Meant, Serving
  <2> QED  BY <2>4, <2>5, <2>6, StillSound
<1>5. CASE /\ session' = [session EXCEPT ![c].got = @ + client[c].unread]
           /\ client' = [client EXCEPT ![c].unread = 0]
           /\ stage' = Serving /\ stage = "in" /\ session[c].http # "none" /\ client[c].is = "there"
           /\ UNCHANGED <<kernel, list, backs, tunnel, server, harm>>
  <2>1. /\ session' \in [Clients -> Session]
        /\ \A d \in Clients : /\ session'[d].life = session[d].life /\ session'[d].fd = session[d].fd
                              /\ session'[d].http = session[d].http
                              /\ session'[d].shut => session'[d].http = "none"
    <3>1. client[c].unread \in Int
      BY DEF Typed, Client
    <3> QED  BY <1>5, <1>6, <3>1 DEF Typed, Session
  <2>2. /\ client' \in [Clients -> Client]
        /\ \A d \in Clients : client'[d].is = client[d].is
    BY <1>5 DEF Typed, Client
  <2>3. Typed'
    BY <1>1, <1>5, <2>1, <2>2 DEF Typed, TypeOK, Serving, Stages, Handling, kernel
  <2>4. Still
    BY <1>1, <1>5, <2>1, <2>2 DEF Still, kernel, Serving
  <2>5. now.who = End(c, "client") /\ Old(now)
    BY <1>2, <1>5 DEF Sound, Meant
  <2>6. ~now.hup
    BY <1>5, <2>5, EndsTyped DEF Old, Doomed
  <2>7. Meant'
    BY <1>1, <1>2, <1>5, <2>5, <2>6 DEF Meant, Serving
  <2> QED  BY <2>3, <2>4, <2>7, StillSound
<1> QED  BY <1>3, <1>4, <1>5 DEF SendToClient, RecvFromClient, At

-----------------------------------------------------------------------------
(* A descriptor under which no session is found is closed.                 *)
LEMMA NobodysNumber ==
  ASSUME Typed, Sound, now.fd \in Fds, list[now.fd] = Nobody,
         \/ file[now.fd].end # "client"
         \/ session[file[now.fd].who].life \in {"live", "deleted"},
         NEW d \in Clients, session[d].life \in {"queued", "live", "lost"}
  PROVE  session[d].fd # now.fd
<1> USE TypesAre
<1>1. Own(d) /\ d # Nobody
  BY DEF Sound
<1>2. SUFFICES ASSUME session[d].fd = now.fd  PROVE FALSE
  OBVIOUS
<1>3. file[now.fd] = End(d, "client") /\ (session[d].life = "live" => list[now.fd] = d)
  BY <1>1, <1>2 DEF Own
<1>4. file[now.fd].end = "client" /\ file[now.fd].who = d
  BY <1>3, EndsTyped
<1> QED  BY <1>1, <1>3, <1>4

LEMMA ClosedKeeps ==
  ASSUME Typed, Sound, harm = {}, harm' \subseteq {"twice", "backend"}, now.fd \in Fds,
         Closed({now.fd}), UNCHANGED <<list, backs, client, session, tunnel, batch, now>>,
         stage' \in Stages \ {"outclose", "inclose"},
         harm' = {} => /\ Meant'
                       /\ \A d \in Clients : session[d].life \in {"queued", "live", "lost"} =>
                                               session[d].fd # now.fd
  PROVE  Typed' /\ (harm' = {} => Sound')
<1> USE TypesAre
<1>2. /\ file' = [file EXCEPT ![now.fd] = Nothing]
      /\ epoll' = [epoll EXCEPT ![now.fd] = "none"]
  BY DEF Closed
<1>3. file' \in [Fds -> Ends] /\ epoll' \in [Fds -> {"none", "in", "inout"}]
  BY <1>2 DEF Ends
<1>4. TypeOK'
  BY <1>3 DEF TypeOK, Ends
<1>5. Typed'
  BY <1>4 DEF Typed
<1> SUFFICES ASSUME harm' = {}  PROVE Sound'
  BY <1>5
<1>7. ASSUME NEW d \in Clients  PROVE Own(d)'
  <2>1. Own(d)
    BY DEF Sound
  <2> QED  BY <2>1, <1>2 DEF Own
<1>8. ASSUME NEW g \in Fds  PROVE Number(g)'
  <2>1. Number(g) /\ backs[g] \in Clients \cup {Nobody}
    BY DEF Sound
  <2>2. CASE g = now.fd
    BY <2>1, <2>2, <1>2 DEF Number, Backend, Nothing
  <2>3. CASE g # now.fd
    <3>1. file'[g] = file[g] /\ epoll'[g] = epoll[g] /\ ~Leaving(g)
      BY <2>3, <1>2 DEF Leaving
    <3> QED  BY <2>1, <3>1 DEF Number, Backend
  <2> QED  BY <2>2, <2>3
<1>9. \A e \in batch' \cup {now'} : Old(e)'
  BY DEF Sound, Old, Doomed
<1> QED  BY <1>7, <1>8, <1>9 DEF Sound

LEMMA CloseClientKeeps ==
  ASSUME Typed, Sound, CloseClient
  PROVE  Typed' /\ (harm' = {} => Sound')
<1> USE TypesAre
<1>1. /\ harm = {} /\ stage \in {"outclose", "inclose"} /\ now.fd \in Fds
      /\ Closed({now.fd}) /\ Note(When("socket", Foreign(now.fd, now.who))) /\ stage' = After
      /\ UNCHANGED <<list, backs, client, session, tunnel, batch, now>>
  BY DEF CloseClient, At, Typed, Event, Handling, Stages
<1>2. /\ list[now.fd] = Nobody /\ file[now.fd] = now.who
      /\ session[file[now.fd].who].life = "deleted"
  BY <1>1 DEF Sound, Meant
<1>3. harm' = {}
  BY <1>1, <1>2 DEF Note, When, Foreign
<1>4. Meant'
  BY <1>1, AfterMeant
<1>5. stage' \in Stages \ {"outclose", "inclose"}
  BY <1>1, AfterStage DEF Stages
<1> QED  BY <1>1, <1>2, <1>3, <1>4, <1>5, NobodysNumber, ClosedKeeps

(* Sending to and receiving from a backend.                                *)
LEMMA CloseBackendKeeps ==
  ASSUME Typed, Sound, NEW c \in Clients, harm = {}, stage \in {"out", "in"}, ForTunnel(c),
         CloseBackend(c), UNCHANGED <<list, backs, client, session, batch, now>>
  PROVE  Typed' /\ (harm' = {} => Sound')
<1> USE TypesAre
<1>1. /\ now.fd \in Fds /\ list[now.fd] = Nobody
      /\ Closed({now.fd}) /\ stage' = After /\ UNCHANGED <<tunnel, server>>
      /\ Note(When("backend", Foreign(now.fd, End(c, "backend"))))
  BY DEF CloseBackend, ForTunnel, Typed, Event, Handling, Stages
<1>2. harm' \subseteq {"twice", "backend"}
  BY <1>1 DEF Note, When
<1>3. harm' = {} => file[now.fd] \in {Nothing, End(c, "backend")}
  BY <1>1, TypesAre DEF Note, When, Foreign
<1>4. harm' = {} => file[now.fd].end # "client"
  BY <1>3, EndsTyped DEF Nothing
<1>5. Meant'
  BY <1>1, AfterMeant
<1>6. stage' \in Stages \ {"outclose", "inclose"}
  BY <1>1, AfterStage DEF Stages
<1> QED  BY <1>1, <1>2, <1>4, <1>5, <1>6, NobodysNumber, ClosedKeeps

LEMMA FlushKeeps ==
  ASSUME Typed, Sound, NEW c \in Clients, FlushToBackend(c)
  PROVE  Typed' /\ (harm' = {} => Sound')
<1>1. /\ harm = {} /\ stage = "out" /\ ForTunnel(c)
      /\ UNCHANGED <<list, backs, client, session, batch, now>>
  BY DEF FlushToBackend, At
<1>2. CASE CloseBackend(c)
  BY <1>1, <1>2, CloseBackendKeeps
<1>3. CASE /\ epoll' = [epoll EXCEPT ![now.fd] = IF @ = "inout" THEN "in" ELSE @]
           /\ stage' = Serving /\ UNCHANGED <<file, tunnel, harm>>
  BY <1>1, <1>3, TurnsKeep DEF Flushed, At
<1> QED  BY <1>2, <1>3, Zenon DEF FlushToBackend

LEMMA RecvFromBackendKeeps ==
  ASSUME Typed, Sound, NEW c \in Clients, RecvFromBackend(c)
  PROVE  Typed' /\ (harm' = {} => Sound')
<1> USE TypesAre
<1>1. /\ harm = {} /\ stage = "in" /\ ForTunnel(c)
      /\ UNCHANGED <<list, backs, client, session, batch, now>>
  BY DEF RecvFromBackend, At
<1>2. CASE /\ tunnel' = [tunnel EXCEPT ![c].got = @ + 1] /\ stage' = Serving
           /\ UNCHANGED <<kernel, harm>>
  <2>1. tunnel' \in [Clients -> Tunnel] /\ \A d \in Clients : tunnel'[d].fd = tunnel[d].fd
    <3>1. tunnel \in [Clients -> Tunnel]
      BY DEF Typed
    <3> QED  BY <1>2, <3>1 DEF Tunnel
  <2>2. Typed'
    BY <1>1, <1>2, <2>1 DEF Typed, TypeOK, kernel, Serving, Stages, Handling
  <2>3. Still
    BY <1>1, <1>2, <2>1 DEF Still, kernel, Serving, Sound
  <2>4. Meant'
    BY <1>1, <1>2 DEF Meant, Serving, ForTunnel
  <2> QED  BY <2>2, <2>3, <2>4, StillSound
<1>3. CASE CloseBackend(c)
  BY <1>1, <1>3, CloseBackendKeeps
<1> QED  BY <1>2, <1>3, Zenon DEF RecvFromBackend

(* The end of an event that hangs up.                                      *)
LEMMA HangUpKeeps ==
  ASSUME Typed, Sound, HangUp
  PROVE  Typed' /\ (harm' = {} => Sound')
<1> USE TypesAre
<1>1. /\ harm = {} /\ stage = "hup" /\ now.fd \in Fds
      /\ Closed({now.fd}) /\ Note(When("twice", Foreign(now.fd, now.who)))
      /\ stage' = "forget"
      /\ UNCHANGED <<list, backs, client, session, tunnel, server, batch, now>>
  BY DEF HangUp, At, Typed, Event, Handling, Stages
<1>2. list[now.fd] = Nobody /\ Old(now)
  BY <1>1 DEF Sound, Meant
<1>3. harm' \subseteq {"twice", "backend"}
  BY <1>1 DEF Note, When
<1>4. harm' = {} => file[now.fd] \in {Nothing, now.who}
  BY <1>1 DEF Note, When, Foreign
<1>5. harm' = {} => \/ file[now.fd].end # "client"
                    \/ session[file[now.fd].who].life \in {"live", "deleted"}
  BY <1>2, <1>4 DEF Old, Nothing
<1>6. Meant'
  <2>1. file'[now.fd] = Nothing
    BY <1>1 DEF Closed
  <2> QED  BY <1>1, <1>2, <2>1 DEF Meant, Nothing
<1>7. stage' \in Stages \ {"outclose", "inclose"}
  BY <1>1 DEF Stages
<1> QED  BY <1>1, <1>2, <1>3, <1>5, <1>6, <1>7, NobodysNumber, ClosedKeeps

LEMMA ForgetKeeps ==
  ASSUME Typed, Sound, Forget
  PROVE  Typed' /\ Sound'
<1> USE TypesAre
<1>1. /\ harm = {} /\ stage = "forget" /\ now.fd \in Fds
      /\ stage' = "next" /\ now' = None /\ batch' = batch
  BY DEF Forget, At, Typed, Event, Handling, Stages
<1>2. list[now.fd] = Nobody /\ file[now.fd].end # "backend"
  BY <1>1 DEF Sound, Meant
<1>3. /\ backs' = [backs EXCEPT ![now.fd] = Nobody]
      /\ UNCHANGED <<kernel, list, client, session, tunnel, server, harm>>
  BY <1>2 DEF Forget
<1>4. Typed'
  BY <1>1, <1>3, NoneOld DEF Typed, TypeOK, kernel, Stages, Handling
<1>5. \A d \in Clients : Own(d)'
  BY <1>3 DEF Sound, Own, kernel
<1>6. ASSUME NEW g \in Fds  PROVE Number(g)'
  <2>1. Number(g) /\ backs[g] \in Clients \cup {Nobody}
    BY DEF Sound
  <2>2. ~Leaving(g) /\ ~Leaving(g)'
    BY <1>1 DEF Leaving
  <2>3. backs'[g] = IF g = now.fd THEN Nobody ELSE backs[g]
    BY <1>1, <1>3
  <2> QED  BY <1>2, <1>3, <2>1, <2>2, <2>3 DEF Number, Backend, kernel
<1>7. \A e \in batch' \cup {now'} : Old(e)'
  <2>1. \A e \in batch : Old(e)'
    BY <1>3 DEF Sound, Old, Doomed
  <2> QED  BY <1>1, <2>1, NoneOld
<1>8. \A d \in Clients : session'[d].shut => session'[d].http = "none"
  BY <1>3 DEF Sound
<1>9. Meant'
  BY <1>1 DEF Meant
<1> QED  BY <1>4, <1>5, <1>6, <1>7, <1>8, <1>9 DEF Sound

-----------------------------------------------------------------------------
(* A session that the group takes from the dispatcher, or loses.           *)
LEMMA AppendKeeps ==
  ASSUME Typed, Sound, NEW c \in Clients, Append(c)
  PROVE  Typed' /\ Sound'
<1> USE TypesAre
<1> DEFINE f == session[c].fd
           life == session'[c].life
<1>1. /\ harm = {} /\ session[c].life = "queued" /\ stage = "wait"
      /\ UNCHANGED <<file, backs, client, tunnel, server, loop>>
  BY DEF Append, At
<1>2. f \in Fds /\ file[f] = End(c, "client")
  BY <1>1 DEF Sound, Own
<1>3. list[f] = Nobody
  <2>1. SUFFICES ASSUME NEW d \in Clients, list[f] = d  PROVE FALSE
    BY <1>2
  <2>2. session[d].life = "live" /\ file[f] = End(d, "client")
    BY <1>2, <2>1, SessionLives
  <2> QED  BY <1>1, <1>2, <2>2, EndsTyped
<1>4. /\ session' \in [Clients -> Session] /\ session'[c].fd = f
      /\ \A d \in Clients : d # c => session'[d] = session[d]
      /\ session'[c].shut => session'[c].http = "none"
      /\ harm' = {}
      /\ \/ /\ life = "live" /\ list' = [list EXCEPT ![f] = c]
            /\ epoll' = [epoll EXCEPT ![f] = "in"]
         \/ life = "lost" /\ list' = list /\ epoll' = epoll
  <2>1. CASE /\ list' = [list EXCEPT ![f] = c]
             /\ epoll' = [epoll EXCEPT ![f] = "in"]
             /\ session' = [d \in Clients |-> IF d = c THEN Made(f)
                                              ELSE IF d = list[f] THEN Deleted ELSE session[d]]
             /\ Note(When("replaced", list[f] # Nobody))
    <3>1. harm' = {}
      BY <1>1, <1>3, <2>1 DEF Note, When
    <3>2. session' = [session EXCEPT ![c] = Made(f)]
      BY <1>3, <2>1 DEF Typed
    <3> QED  BY <1>2, <2>1, <3>1, <3>2, MadeTyped DEF Typed
  <2>2. CASE /\ session' = [session EXCEPT ![c].life = "lost"]
             /\ UNCHANGED <<list, epoll, harm>>
    BY <1>1, <2>2 DEF Typed, Session, Lives, Sound
  <2> QED  BY <2>1, <2>2, Zenon DEF Append
<1>8. session[c].fd = f /\ life = session'[c].life
  OBVIOUS
<1> HIDE DEF f, life
<1>7. Typed'
  BY <1>1, <1>2, <1>4 DEF Typed, TypeOK, loop
<1>9. ASSUME NEW d \in Clients  PROVE Own(d)'
  <2>1. Own(d)
    BY DEF Sound
  <2>2. d # c /\ session[d].life \in {"queued", "live", "lost"} => session[d].fd # f
    BY <2>1, <1>2, EndsTyped DEF Own
  <2>3. CASE d = c
    <3>1. client'[c].is # "absent"
      BY <2>1, <2>3, <1>1 DEF Own
    <3> QED  BY <2>3, <3>1, <1>1, <1>2, <1>4, <1>8 DEF Own
  <2>4. CASE d # c
    BY <2>1, <2>2, <2>4, <1>1, <1>2, <1>4 DEF Own
  <2> QED  BY <2>3, <2>4
<1>10. ASSUME NEW g \in Fds  PROVE Number(g)'
  <2>1. Number(g) /\ file[g] \in Ends /\ list[g] \in Clients \cup {Nobody}
        /\ backs[g] \in Clients \cup {Nobody} /\ ~Leaving(g) /\ ~Leaving(g)'
    BY <1>1 DEF Sound, Leaving, loop
  <2>2. list[g] # c /\ backs[g] # c
    BY <1>1, SessionLives, TunnelLives
  <2>3. CASE g = f
    <3>1. file'[g] = End(c, "client") /\ list'[g] \in {c, Nobody} /\ backs'[g] = backs[g]
      BY <1>1, <1>2, <1>3, <1>4, <2>3
    <3>2. End(c, "client").who = c /\ End(c, "client").end = "client" /\ End(c, "client") # Nothing
      BY EndsTyped
    <3>3. epoll'[g] # "none" \/ list'[g] = c => life = "live"
      <4>1. epoll[g] = "none"
        BY <1>1, <1>2, <2>1, <2>3, <3>2 DEF Number
      <4> QED  BY <1>3, <1>4, <2>2, <2>3, <4>1
    <3>4. backs[g] # Nobody => session'[backs[g]] = session[backs[g]]
      BY <2>1, <2>2, <1>4
    <3> QED  BY <2>1, <2>2, <2>3, <3>1, <3>2, <3>3, <3>4, <1>1, <1>4, <1>8 DEF Number, Backend
  <2>4. CASE g # f
    <3>1. file'[g] = file[g] /\ list'[g] = list[g] /\ backs'[g] = backs[g] /\ epoll'[g] = epoll[g]
      BY <1>1, <1>4, <2>4
    <3>2. file[g].end = "client" => file[g].who \in Clients /\ file[g].who # c
      BY <2>1, <2>4, <1>8, EndsApart DEF Number
    <3> QED  BY <2>1, <2>2, <3>1, <3>2, <1>1, <1>4 DEF Number, Backend
  <2> QED  BY <2>3, <2>4
<1>11. ASSUME NEW e \in batch' \cup {now'}  PROVE Old(e)'
  <2>1. e \in batch \cup {now} /\ Event(e)
    BY <1>1, <1>11 DEF loop, Typed
  <2>2. Old(e) /\ e.who \in Ends
    BY <2>1 DEF Sound, Event
  <2>3. e.who.end = "client" => e.who.who \in Clients /\ e.who.who # c
    BY <1>1, <2>2, EndsApart DEF Old
  <2> QED  BY <2>2, <2>3, <1>1, <1>4 DEF Old, Doomed
<1>12. \A d \in Clients : session'[d].shut => session'[d].http = "none"
  BY <1>4 DEF Sound
<1>13. Meant'
  BY <1>1 DEF Meant, loop
<1> QED  BY <1>7, <1>9, <1>10, <1>11, <1>12, <1>13 DEF Sound

(* epoll tells of descriptors that it watches.                             *)
LEMMA WaitKeeps ==
  ASSUME Typed, Sound, Wait
  PROVE  Typed' /\ Sound'
<1> USE TypesAre
<1>1. /\ batch' = Ready /\ stage' = "next" /\ stage = "wait"
      /\ UNCHANGED <<kernel, list, backs, client, session, tunnel, server, now, harm>>
  BY DEF Wait, At
<1>2. ASSUME NEW e \in Ready
      PROVE  Event(e) /\ e.fd # 0 /\ Old(e)
  <2>1. PICK f \in Fds : /\ epoll[f] # "none"
                         /\ e = [fd |-> f, who |-> file[f], in |-> In(f), out |-> Out(f), hup |-> Hup(f)]
    BY <1>2 DEF Ready
  <2>2. e.fd = f /\ e.who = file[f] /\ (e.in <=> In(f)) /\ (e.hup <=> Hup(f))
    BY <2>1, Zenon
  <2>3. Number(f) /\ file[f] \in Ends /\ ~Leaving(f)
    BY <1>1 DEF Sound, Leaving
  <2>4. file[f].end = "client" => file[f].who \in Clients
    BY <2>3, EndsApart
  <2>5. Hup(f) => In(f)
    BY DEF Hup, In
  <2>6. Hup(f) /\ file[f].end = "client" => Doomed(file[f].who)
    BY <2>4 DEF Hup, Doomed, Sound
  <2> HIDE DEF In, Hup
  <2>7. file[f].end = "client" => session[file[f].who].life = "live"
    BY <2>1, <2>3 DEF Number
  <2> QED  BY <2>2, <2>3, <2>5, <2>6, <2>7 DEF Event, Old
<1>3. Typed'
  BY <1>1, <1>2 DEF Typed, TypeOK, Event, kernel, Stages, Handling
<1>4. (\A c \in Clients : Own(c)') /\ (\A f \in Fds : Number(f)')
  <2>1. \A f \in Fds : ~Leaving(f) /\ ~Leaving(f)'
    BY <1>1 DEF Leaving
  <2> QED  BY <1>1, <2>1 DEF Sound, Own, Number, Backend, kernel
<1>5. ASSUME NEW e \in batch' \cup {now'}  PROVE Old(e)'
  <2>1. Old(e)
    BY <1>1, <1>2 DEF Sound
  <2> QED  BY <1>1, <2>1 DEF Old, Doomed
<1>6. Meant' /\ \A c \in Clients : session'[c].shut => session'[c].http = "none"
  BY <1>1 DEF Sound, Meant
<1> QED  BY <1>3, <1>4, <1>5, <1>6 DEF Sound

-----------------------------------------------------------------------------
(* Every step.                                                             *)
LEMMA InitInv == Init => GroupInv
<1> SUFFICES ASSUME Init  PROVE GroupInv
  OBVIOUS
<1> USE GroupAssumption DEF Init
<1>3. session \in [Clients -> Session] /\ \A c \in Clients : session[c].life = "none"
  BY NewTyped
<1>4. client \in [Clients -> Client]
  BY DEF Client
<1>5. tunnel \in [Clients -> Tunnel]
  BY DEF Tunnel, NoTunnel
<1>6. TypeOK
  BY DEF TypeOK, Stages
<1>7. Event(now) /\ Old(now)
  BY NoneOld
<1>8. Typed
  BY <1>3, <1>4, <1>5, <1>6, <1>7 DEF Typed, Handling
<1>9. \A c \in Clients : Own(c)
  BY <1>3 DEF Own
<1>10. \A f \in Fds : Number(f)
  BY DEF Number, Nothing
<1>11. Meant /\ \A c \in Clients : session[c].http = "none"
  BY NewTyped DEF Meant
<1> QED  BY <1>7, <1>8, <1>9, <1>10, <1>11 DEF GroupInv, Sound

LEMMA NextInv == GroupInv /\ [Next]_vars => GroupInv'
<1> SUFFICES ASSUME GroupInv, [Next]_vars  PROVE GroupInv'
  OBVIOUS
<1>1. CASE UNCHANGED vars
  <2>1. Typed'
    BY <1>1 DEF GroupInv, Typed, TypeOK, vars, Event
  <2>2. Sound' <=> Sound
    BY <1>1 DEF Sound, Own, Number, Old, Doomed, Meant, Leaving, Backend, vars
  <2> QED  BY <1>1, <2>1, <2>2 DEF GroupInv, vars
<1>2. CASE Next
  <2>1. harm = {}
    BY <1>2, ZenonT(40) DEF Next, Pool, Wait, Take, Skip, CloseClient, HangUp, Forget, Append, SendToClient,
                RecvFromClient, FlushToBackend, RecvFromBackend, Reply, Proxy, Connect, Connected, Again, Relay,
                Finish, Release, Return, Arrive, Asks, Leaves, Serves, Served, Turns, Between, At
  <2>2. Typed /\ Sound
    BY <2>1 DEF GroupInv
  <2>3. CASE Wait \/ Take \/ Skip \/ CloseClient \/ HangUp \/ Forget
    BY <2>2, <2>3, WaitKeeps, TakeKeeps, PassKeeps, CloseClientKeeps, HangUpKeeps, ForgetKeeps
    DEF GroupInv
  <2>4. ASSUME NEW c \in Clients,
               \/ Append(c) \/ SendToClient(c) \/ RecvFromClient(c)
               \/ FlushToBackend(c) \/ RecvFromBackend(c)
               \/ Reply(c) \/ Proxy(c) \/ Connect(c) \/ Connected(c) \/ Again(c) \/ Relay(c)
               \/ Finish(c) \/ Release(c) \/ Return(c)
        PROVE  GroupInv'
    BY <2>2, <2>4, AppendKeeps, ClientKeeps, FlushKeeps, RecvFromBackendKeeps, TurnsKeep,
       ConnectKeeps, AgainKeeps, PassKeeps DEF GroupInv
  <2>5. ASSUME NEW c \in Clients, Arrive(c) \/ Asks(c) \/ Leaves(c) \/ Serves(c)
        PROVE  GroupInv'
    BY <2>2, <2>5, ArriveKeeps, AsksKeeps, ServesKeeps DEF GroupInv
  <2> QED  BY <1>2, <2>3, <2>4, <2>5 DEF Next, Pool
<1> QED  BY <1>1, <1>2

THEOREM GroupInvariant == Spec => []GroupInv
<1> QED  BY InitInv, NextInv, PTL DEF Spec

(* Until the descriptor of another has been hit, every session that lives  *)
(* is found under its number and watched, no list of the group has one     *)
(* that was deleted, and tunnels agree with their entries; the descriptor  *)
(* of another is hit only in the ways TypeOK names, with any number of     *)
(* clients.                                                                *)
THEOREM SessionsAreFound == Spec => []Found
<1>1. GroupInv => Found
  <2> SUFFICES ASSUME GroupInv  PROVE Found
    OBVIOUS
  <2>1. TypeOK
    BY DEF GroupInv, Typed
  <2>2. SUFFICES ASSUME harm = {}
        PROVE  /\ \A c \in Clients : session[c].life = "live" =>
                    LET f == session[c].fd IN
                    list[f] = c /\ file[f] = End(c, "client") /\ epoll[f] # "none"
               /\ \A f \in Fds :
                    /\ list[f] # Nobody => session[list[f]].life = "live" /\ session[list[f]].fd = f
                    /\ backs[f] # Nobody => session[backs[f]].life = "live" /\ Backend(backs[f]) = f
                    /\ file[f].end = "backend" => backs[f] = file[f].who
    BY <2>1, Zenon DEF Found
  <2>3. Sound
    BY <2>2 DEF GroupInv
  <2> QED  BY <2>3 DEF Sound, Own, Number
<1> QED  BY <1>1, GroupInvariant, PTL
=============================================================================
