------------------------------ MODULE Gateway ------------------------------
(***************************************************************************)
(* The answers a worker gets from other programs: Htdoc::Response forks a  *)
(* CGI program, or asks a FastCGI (php-fpm too) or an SCGI application     *)
(* through an object that the session keeps for its next request.          *)
(*                                                                         *)
(* The sessions are served by a thread each, and share the descriptors of  *)
(* the process.  _Recv_ and _Send_ close a descriptor when it ends, fails  *)
(* or times out, and who called them keeps its number.  What happens once  *)
(* a number is used that is another's by then is only recorded.            *)
(***************************************************************************)
EXTENDS Naturals, Sequences, FiniteSets

CONSTANTS
  Sessions, \* client connections, each with a pool thread
  Asks,     \* what each asks for: "plain", "fork", "fcgi", "scgi"
  Inet,     \* the applications that are reached by an address, the others by a file
  Keeping,  \* the sessions with keep-alive; the others end with their request
  Requests, \* bound: how many requests each has
  Fds,      \* bound: the descriptors there may be
  Faults    \* bound: time-outs, failed forks, programs that end or never end

ASSUME GatewayAssumption ==
  /\ \A s \in Sessions : Asks[s] \subseteq {"plain", "fork", "fcgi", "scgi"}
  /\ Inet \subseteq {"fcgi", "scgi"}
  /\ Keeping \subseteq Sessions /\ Requests \in Nat /\ Faults \in Nat
  /\ Fds \subseteq Nat \ {0}
  /\ "nobody" \notin Sessions

Instances == {"fcgi", "scgi"} \* kept by the session
Records == {"fcgi"}           \* FastCGI: an answer is a sequence of records
Ways == {"fork"} \cup Instances

Free == [of |-> "nobody", way |-> "none"]
File(s, way) == [of |-> s, way |-> way]
Quiet == [unread |-> << >>, rest |-> << >>, up |-> FALSE]

VARIABLES
  pc,      \* what each session's thread does
  way,     \* how its request is answered
  asked,   \* its requests so far
  got,     \* the parts of answers its client got for the last
  call,    \* the parts that the running Recv has
  number,  \* m_sockfd of its objects, 0 for none
  joined,  \* m_is_connected of those it keeps
  pair,    \* fds of its socketpair
  file,    \* the descriptors of the process; a "child" is the end of a pair for the child
  wire,    \* the other end: what the program has sent, will send, and whether it is there
  holders, \* the children that have, by fork, the child's end of a session's pair
  child,   \* its child
  shut,    \* its client's socket has been shut down by a child
  why,     \* what has happened to the last request
  skewed,  \* the kept connections in which an answer was left unread
  faults,  \* how many there have been
  hit      \* a number was used that was another's

thread == <<pc, way, asked, got, call, why, skewed>>
object == <<number, joined, pair>>
program == <<wire, holders, child, shut>>
vars == <<thread, object, file, program, faults, hit>>

Init ==
  /\ pc = [s \in Sessions |-> "idle"]
  /\ way = [s \in Sessions |-> "none"]
  /\ asked = [s \in Sessions |-> 0]
  /\ got = [s \in Sessions |-> << >>] /\ call = [s \in Sessions |-> << >>]
  /\ number = [s \in Sessions |-> [w \in Ways |-> 0]]
  /\ joined = [s \in Sessions |-> [w \in Instances |-> FALSE]]
  /\ pair = [s \in Sessions |-> <<0, 0>>]
  /\ file = [f \in Fds |-> Free]
  /\ wire = [s \in Sessions |-> [w \in Ways |-> Quiet]]
  /\ holders = [s \in Sessions |-> {}]
  /\ child = [s \in Sessions |-> "none"]
  /\ shut = [s \in Sessions |-> FALSE]
  /\ why = [s \in Sessions |-> {}] /\ skewed = [s \in Sessions |-> {}]
  /\ faults = 0 /\ hit = FALSE

At(s, where) == ~hit /\ pc[s] = where
Goes(s, to) == pc' = [pc EXCEPT ![s] = to]
Because(s, what) == why' = [why EXCEPT ![s] = @ \cup {what}]
Fault == faults < Faults /\ faults' = faults + 1

Lowest(f) == file[f] = Free /\ \A g \in Fds : g < f => file[g] # Free

-----------------------------------------------------------------------------
(* A number is its owner's, nobody's, or another's by now: to use it or to *)
(* close it then is the harm.                                              *)
Mine(f, s, w) == f # 0 /\ file[f] = File(s, w)
Gone(f) == f \notin {g \in Fds : file[g] # Free}
Foreign(f, s, w) == f \in {g \in Fds : file[g] \notin {Free, File(s, w)}}
Closed(f) == [g \in Fds |-> IF g = f THEN Free ELSE file[g]]

Harm(s) ==
  /\ ~hit /\ hit' = TRUE
  /\ \/ /\ pc[s] \in {"peek", "begin", "send", "first", "more", "over"}
        /\ Foreign(number[s][way[s]], s, way[s])
        /\ pc[s] = "peek" => joined[s][way[s]]
     \/ pc[s] = "close" /\ Foreign(pair[s][1], s, "fork")
     \/ pc[s] = "ending" /\ \E w \in Instances : Foreign(number[s][w], s, w)
  /\ UNCHANGED <<thread, object, file, program, faults>>

-----------------------------------------------------------------------------
(* The client: a request, and Response's choice among its handlers.        *)
Ask(s, w) ==
  /\ At(s, "idle") /\ w \in Asks[s] /\ asked[s] < Requests
  /\ asked' = [asked EXCEPT ![s] = @ + 1]
  /\ way' = [way EXCEPT ![s] = w]
  /\ Goes(s, CASE w = "plain" -> "plain" [] w = "fork" -> "pair" [] OTHER -> "peek")
  /\ UNCHANGED <<got, call, why, skewed, object, file, program, faults, hit>>

Out(s, n) == [to |-> asked[s], part |-> n]
Error == [to |-> 0, part |-> 500]

(* A file, an answer of api_response, or an error that needs no program.   *)
Plain(s) ==
  /\ At(s, "plain")
  /\ got' = [got EXCEPT ![s] = <<Out(s, 1)>>]
  /\ Goes(s, "done")
  /\ UNCHANGED <<way, asked, call, why, skewed, object, file, program, faults, hit>>

(* What has been received is sent on; if nothing was, the answer is 500.   *)
(* The child may have shut the socket.                                     *)
Sent(s, parts) == [got EXCEPT ![s] = IF shut[s] THEN @ ELSE @ \o parts]

Fails(s) == got' = Sent(s, <<Error>>)

-----------------------------------------------------------------------------
(* cgi-bin and php-cgi.                                                    *)
SocketPair(s) ==
  /\ At(s, "pair")
  /\ \E f, g \in Fds :
       /\ Lowest(f) /\ g > f /\ file[g] = Free
       /\ \A h \in Fds : f < h /\ h < g => file[h] # Free
       /\ pair' = [pair EXCEPT ![s] = <<f, g>>]
       /\ file' = [file EXCEPT ![f] = File(s, "fork"), ![g] = File(s, "child")]
  /\ Goes(s, "fork")
  /\ UNCHANGED <<way, asked, got, call, why, skewed, number, joined, program, faults, hit>>

(* fork: the child has every descriptor the worker has, and does not close *)
(* the others'.                                                            *)
Answers(s, w) ==
  IF w \in Records
  THEN {<<Out(s, 1), Out(s, 2), Out(s, 0)>>, <<Out(s, 9), Out(s, 1), Out(s, 0)>>}
  ELSE {<<Out(s, 1)>>} \cup IF w = "fork" THEN {<< >>} ELSE {}

Fork(s) ==
  /\ At(s, "fork")
  /\ holders' = [t \in Sessions |->
       IF \E f \in Fds : file[f] = File(t, "child") THEN holders[t] \cup {s} ELSE holders[t]]
  /\ child' = [child EXCEPT ![s] = "forked"]
  /\ \E answer \in Answers(s, "fork") :
       wire' = [wire EXCEPT ![s]["fork"] = [unread |-> << >>, rest |-> answer, up |-> TRUE]]
  /\ number' = [number EXCEPT ![s]["fork"] = pair[s][1]]
  /\ Goes(s, "parent")
  /\ UNCHANGED <<way, asked, got, call, why, skewed, joined, pair, file, shut, faults, hit>>

NoFork(s) ==
  /\ At(s, "fork") /\ Fault
  /\ file' = [f \in Fds |-> IF f \in {pair[s][1], pair[s][2]} THEN Free ELSE file[f]]
  /\ Because(s, "not forked")
  /\ Goes(s, "done")
  /\ UNCHANGED <<way, asked, got, call, skewed, object, program, hit>>

SlipNoEnd(s) == 0
ChildEnd(s) == pair[s][2]

Parent(s) ==
  /\ At(s, "parent")
  /\ file' = Closed(ChildEnd(s))
  /\ Goes(s, "send")
  /\ UNCHANGED <<way, asked, got, call, why, skewed, object, program, faults, hit>>

(* In the child, the session's CHttp is deleted before the program starts: *)
(* without keep-alive that shuts the client's socket down.                 *)
Keeps(s) == s \in Keeping /\ asked[s] < Requests

Exec(s) ==
  /\ ~hit /\ child[s] = "forked"
  /\ child' = [child EXCEPT ![s] = "runs"]
  /\ shut' = [shut EXCEPT ![s] = @ \/ ~Keeps(s)]
  /\ UNCHANGED <<thread, object, file, wire, holders, faults, hit>>

(* A program that writes to nobody is killed. *)
Ends(s) ==
  /\ holders' = [t \in Sessions |-> holders[t] \ {s}]
  /\ child' = [child EXCEPT ![s] = "ended"]

Reachable(s) == \E f \in Fds : file[f] = File(s, "fork")

Runs(s) ==
  /\ ~hit /\ child[s] = "runs"
  /\ IF wire[s]["fork"].rest = << >> \/ ~Reachable(s)
     THEN Ends(s) /\ UNCHANGED wire
     ELSE /\ wire' = [wire EXCEPT ![s]["fork"].unread = Append(@, Head(wire[s]["fork"].rest)),
                                  ![s]["fork"].rest = Tail(@)]
          /\ UNCHANGED <<holders, child>>
  /\ UNCHANGED <<thread, object, file, shut, faults, hit>>

Hangs(s) ==
  /\ ~hit /\ child[s] = "runs" /\ Fault
  /\ child' = [child EXCEPT ![s] = "hangs"]
  /\ UNCHANGED <<thread, object, file, wire, holders, shut, hit>>

-----------------------------------------------------------------------------
(* Connect of fastcgi and scgi: a connection that is there, and has not    *)
(* ended, is used again, whatever can be read from it.                     *)
Ended(s, w) ==
  /\ wire[s][w].unread = << >>
  /\ IF w = "fork" THEN holders[s] = {} /\ \A f \in Fds : file[f] # File(s, "child")
     ELSE ~wire[s][w].up

Reused(s, w) == joined[s][w] /\ Mine(number[s][w], s, w) /\ ~Ended(s, w)

Reuse(s) ==
  /\ At(s, "peek") /\ Reused(s, way[s])
  /\ Goes(s, "begin")
  /\ UNCHANGED <<way, asked, got, call, why, skewed, object, file, program, faults, hit>>

(* The first socket of an INET connect is left open: its number is         *)
(* overwritten.                                                            *)
With(files, g, x) == [f \in Fds |-> IF f = g THEN x ELSE files[f]]
FirstFree(files, g) == files[g] = Free /\ \A h \in Fds : h < g => files[h] # Free
Behind(s, w, files) ==
  IF w \in Inet
  THEN {With(files, g, File(s, "left")) : g \in {h \in Fds : FirstFree(files, h)}}
  ELSE {files}

Socket(s, w, files, up) ==
  /\ \E g \in Fds : /\ FirstFree(files, g)
                    /\ file' = With(files, g, File(s, w))
                    /\ number' = [number EXCEPT ![s][w] = g]
  /\ wire' = [wire EXCEPT ![s][w] = [Quiet EXCEPT !.up = up]]
  /\ skewed' = [skewed EXCEPT ![s] = @ \ {w}]

(* An address that is not found returns 0: the first socket, which nothing *)
(* is at the other end of, is taken for a connection.                      *)
Dialled(s, w, kept) ==
  /\ \/ /\ \E files \in Behind(s, w, kept) : Socket(s, w, files, TRUE)
        /\ UNCHANGED faults
     \/ w \in Inet /\ Fault /\ Socket(s, w, kept, FALSE)
  /\ joined' = [joined EXCEPT ![s][w] = TRUE]
  /\ Goes(s, "begin") /\ UNCHANGED <<got, why>>

(* A socket that could not be bound, to a name of its own, stays open with *)
(* its number, until that is overwritten or the object deleted.            *)
NotReached(s, w, kept) ==
  /\ Fault
  /\ \/ /\ file' \in {kept} \cup Behind(s, w, kept)
        /\ number' = [number EXCEPT ![s][w] = 0]
        /\ UNCHANGED <<wire, skewed>>
     \/ w \notin Inet /\ Socket(s, w, kept, FALSE)
  /\ joined' = [joined EXCEPT ![s][w] = FALSE]
  /\ Fails(s) /\ Because(s, "not connected")
  /\ Goes(s, "done")

Given(s, w) ==
  IF joined[s][w] THEN Closed(number[s][w])
  ELSE IF Mine(number[s][w], s, w) THEN With(file, number[s][w], File(s, "left")) ELSE file

Connect(s) ==
  /\ At(s, "peek") /\ ~Reused(s, way[s])
  /\ LET w == way[s]
     IN /\ joined[s][w] => ~Foreign(number[s][w], s, w)
        /\ Dialled(s, w, Given(s, w)) \/ NotReached(s, w, Given(s, w))
  /\ UNCHANGED <<way, asked, call, pair, holders, child, shut, hit>>

-----------------------------------------------------------------------------
(* _Send_: to a program that has ended it fails and closes the descriptor; *)
(* with a number that is nobody's it fails.                                *)
Heard(s, w) == Mine(number[s][w], s, w) /\ (IF w = "fork" THEN holders[s] # {} ELSE wire[s][w].up)
Usable(s, w) == ~Foreign(number[s][w], s, w)
AfterSend(s, w) == IF Heard(s, w) THEN file ELSE Closed(number[s][w])

Told(s, w) ==
  IF Heard(s, w)
  THEN \E answer \in Answers(s, w) : wire' = [wire EXCEPT ![s][w].rest = @ \o answer]
  ELSE UNCHANGED wire

(* BeginRequest of FastCGI, and all that SCGI sends: checked. *)
Begin(s) ==
  /\ At(s, "begin") /\ Usable(s, way[s])
  /\ file' = AfterSend(s, way[s])
  /\ IF Heard(s, way[s])
     THEN /\ Goes(s, IF way[s] = "scgi" THEN "first" ELSE "send") /\ UNCHANGED <<got, why>>
          /\ IF way[s] = "scgi" THEN Told(s, "scgi") ELSE UNCHANGED wire
     ELSE Goes(s, "done") /\ Fails(s) /\ Because(s, "ended") /\ UNCHANGED wire
  /\ UNCHANGED <<way, asked, call, skewed, object, holders, child, shut, faults, hit>>

(* The parameters and data of FastCGI, and the data of a CGI program: not  *)
(* checked.  Without data nothing is sent to the latter.                   *)
Send(s) ==
  /\ At(s, "send") /\ Usable(s, way[s])
  /\ \/ /\ file' = AfterSend(s, way[s])
        /\ IF Heard(s, way[s]) THEN UNCHANGED why ELSE Because(s, "ended")
     \/ way[s] = "fork" /\ UNCHANGED <<file, why>>
  /\ IF way[s] = "fork" THEN UNCHANGED wire ELSE Told(s, way[s])
  /\ Goes(s, "first")
  /\ UNCHANGED <<way, asked, got, call, skewed, object, holders, child, shut, faults, hit>>

-----------------------------------------------------------------------------
(* RecvAppData of FastCGI, a record at a time: the first must be output,   *)
(* or the answer is 500 and the rest of the records stay unread; the last  *)
(* one ends the answer.                                                    *)
Receiving(s) == \E where \in {"first", "more"} : At(s, where)
Unread(s) == Mine(number[s][way[s]], s, way[s]) /\ wire[s][way[s]].unread # << >>
First(s) == Head(wire[s][way[s]].unread)
Taken(s) == wire' = [wire EXCEPT ![s][way[s]].unread = Tail(@)]

SlipStops(r) == FALSE
Continues(r) == r.part # 0

Record(s) ==
  /\ Receiving(s) /\ way[s] \in Records /\ Unread(s)
  /\ Taken(s)
  /\ LET r == First(s)
     IN IF r.part \in {1, 2}
        THEN /\ got' = Sent(s, <<r>>) /\ Goes(s, IF Continues(r) THEN "more" ELSE "done")
             /\ UNCHANGED <<why, skewed>>
        ELSE IF pc[s] = "first"
        THEN /\ Fails(s) /\ Because(s, "no output") /\ Goes(s, "done")
             /\ skewed' = IF Continues(r) THEN [skewed EXCEPT ![s] = @ \cup {way[s]}] ELSE skewed
        ELSE Goes(s, IF Continues(r) THEN "more" ELSE "done") /\ UNCHANGED <<got, why, skewed>>
  /\ UNCHANGED <<way, asked, call, object, file, holders, child, shut, faults, hit>>

(* ReadAppData of forkcgi and RecvAppData of scgi: until the end; what     *)
(* fills the buffers is sent on before.                                    *)
Part(s) ==
  /\ Receiving(s) /\ way[s] \notin Records /\ Unread(s)
  /\ Taken(s)
  /\ \/ call' = [call EXCEPT ![s] = Append(@, First(s))] /\ UNCHANGED <<pc, got>>
     \/ /\ got' = Sent(s, Append(call[s], First(s)))
        /\ call' = [call EXCEPT ![s] = << >>] /\ Goes(s, "more")
  /\ UNCHANGED <<way, asked, why, skewed, object, file, holders, child, shut, faults, hit>>

(* An answer is over: what the last call has is sent, or 500 if nothing    *)
(* ever came.                                                              *)
Finish(s, parts, causes) ==
  /\ call' = [call EXCEPT ![s] = << >>]
  /\ LET empty == pc[s] = "first" /\ parts = << >>
     IN /\ got' = Sent(s, IF empty THEN <<Error>> ELSE parts)
        /\ why' = [why EXCEPT ![s] = @ \cup causes \cup IF empty THEN {"no output"} ELSE {}]
  /\ Goes(s, IF way[s] = "fork" THEN "close" ELSE "done")

(* _Recv_ at the end of what the program sends: the descriptor is closed,  *)
(* and if the call has received something there is another one.            *)
Last(s) ==
  /\ Receiving(s) /\ Mine(number[s][way[s]], s, way[s]) /\ Ended(s, way[s])
  /\ file' = Closed(number[s][way[s]])
  /\ IF call[s] # << >> THEN Goes(s, "over") /\ UNCHANGED <<got, call, why>>
     ELSE Finish(s, << >>, IF way[s] \in Records THEN {"ended"} ELSE {})
  /\ UNCHANGED <<way, asked, skewed, object, program, faults, hit>>

(* Another one, with a number that is nobody's.                            *)
Over(s) ==
  /\ \/ At(s, "over") /\ Gone(number[s][way[s]]) /\ Finish(s, call[s], {})
     \/ Receiving(s) /\ Gone(number[s][way[s]]) /\ Finish(s, << >>, {"ended"})
  /\ UNCHANGED <<way, asked, skewed, object, file, program, faults, hit>>

(* What the call has received is lost.                                     *)
TimeOut(s) ==
  /\ Receiving(s) /\ Mine(number[s][way[s]], s, way[s])
  /\ ~Unread(s) /\ ~Ended(s, way[s])
  /\ \/ way[s] = "fork" /\ (\E t \in holders[s] : child[t] = "hangs") /\ UNCHANGED faults
     \/ Fault
  /\ file' = Closed(number[s][way[s]])
  /\ Finish(s, << >>, {"timed out"})
  /\ UNCHANGED <<way, asked, skewed, object, program, hit>>

(* fds[0] is closed, and again with the object; then the child is awaited. *)
Close(s) ==
  /\ At(s, "close") /\ ~Foreign(pair[s][1], s, "fork")
  /\ file' = Closed(pair[s][1])
  /\ Goes(s, "wait")
  /\ UNCHANGED <<way, asked, got, call, why, skewed, object, program, faults, hit>>

Wait(s) ==
  /\ At(s, "wait") /\ child[s] = "ended"
  /\ child' = [child EXCEPT ![s] = "none"]
  /\ number' = [number EXCEPT ![s]["fork"] = 0]
  /\ pair' = [pair EXCEPT ![s] = <<0, 0>>]
  /\ wire' = [wire EXCEPT ![s]["fork"] = Quiet]
  /\ Goes(s, "done")
  /\ UNCHANGED <<way, asked, got, call, why, skewed, joined, file, holders, shut, faults, hit>>

-----------------------------------------------------------------------------
(* The applications.  FastCGI is asked not to keep the connection, and may *)
(* still; SCGI ends an answer by closing it.                               *)
Sends(s, w) ==
  /\ ~hit /\ wire[s][w].up /\ wire[s][w].rest # << >>
  /\ wire' = [wire EXCEPT ![s][w].unread = Append(@, Head(wire[s][w].rest)),
                          ![s][w].rest = Tail(@)]
  /\ UNCHANGED <<thread, object, file, holders, child, shut, faults, hit>>

Busy(s, w) == way[s] = w /\ pc[s] \in {"begin", "send"}

Hangup(s, w) ==
  /\ ~hit /\ wire[s][w].up
  /\ \/ wire[s][w].rest = << >> /\ ~Busy(s, w) /\ UNCHANGED <<why, faults>>
     \/ Fault /\ way[s] = w /\ Because(s, "ended")
  /\ wire' = [wire EXCEPT ![s][w].up = FALSE, ![s][w].rest = << >>]
  /\ UNCHANGED <<pc, way, asked, got, call, skewed, object, file, holders, child, shut, hit>>

-----------------------------------------------------------------------------
(* The session goes on, or is deleted with what it kept.                   *)
Done(s) ==
  /\ At(s, "done")
  /\ Goes(s, IF Keeps(s) THEN "idle" ELSE "ending")
  /\ way' = [way EXCEPT ![s] = "none"]
  /\ got' = [got EXCEPT ![s] = << >>] /\ why' = [why EXCEPT ![s] = {}]
  /\ UNCHANGED <<asked, call, skewed, object, file, program, faults, hit>>

Leave(s) ==
  /\ At(s, "idle")
  /\ Goes(s, "ending")
  /\ UNCHANGED <<way, asked, got, call, why, skewed, object, file, program, faults, hit>>

Deleted(s) ==
  /\ At(s, "ending")
  /\ \A w \in Instances : Usable(s, w)
  /\ file' = [f \in Fds |-> IF \E w \in Instances : f = number[s][w] THEN Free ELSE file[f]]
  /\ wire' = [wire EXCEPT ![s] = [w \in Ways |-> Quiet]]
  /\ number' = [number EXCEPT ![s] = [w \in Ways |-> 0]]
  /\ joined' = [joined EXCEPT ![s] = [w \in Instances |-> FALSE]]
  /\ skewed' = [skewed EXCEPT ![s] = {}]
  /\ Goes(s, "gone")
  /\ asked' = [asked EXCEPT ![s] = 0] /\ shut' = [shut EXCEPT ![s] = FALSE]
  /\ UNCHANGED <<way, got, call, why, pair, holders, child, faults, hit>>

-----------------------------------------------------------------------------
Next ==
  \E s \in Sessions :
    \/ \E w \in Asks[s] : Ask(s, w)
    \/ Plain(s)
    \/ SocketPair(s) \/ Fork(s) \/ NoFork(s) \/ Parent(s) \/ Exec(s) \/ Runs(s) \/ Hangs(s)
    \/ Reuse(s) \/ Connect(s) \/ Begin(s) \/ Send(s)
    \/ Record(s) \/ Part(s) \/ Last(s) \/ Over(s) \/ TimeOut(s)
    \/ Close(s) \/ Wait(s) \/ Done(s) \/ Leave(s) \/ Deleted(s) \/ Harm(s)
    \/ \E w \in Instances : Sends(s, w) \/ Hangup(s, w)

Spec == Init /\ [][Next]_vars

-----------------------------------------------------------------------------
TypeOK ==
  /\ \A s \in Sessions :
       /\ pc[s] \in {"idle", "plain", "pair", "fork", "parent", "send", "peek", "begin", "first",
                     "more", "over", "close", "wait", "done", "ending", "gone"}
       /\ child[s] \in {"none", "forked", "runs", "hangs", "ended"}
       /\ holders[s] \subseteq Sessions /\ skewed[s] \subseteq Instances
       /\ \A w \in Ways : number[s][w] \in Fds \cup {0}
  /\ \A f \in Fds : file[f].of \in Sessions \cup {"nobody"}

Whole(s) == got[s] = IF way[s] \in Records THEN <<Out(s, 1), Out(s, 2)>> ELSE <<Out(s, 1)>>

(* As long as no number has been used that was another's: a client gets    *)
(* parts of its own request's answer only, unless the connection had an    *)
(* earlier one left in it; and when the thread has done with the request   *)
(* the client has all of it, unless the program sent no output, ended or   *)
(* timed out, was not reached, or shut the client's socket down.           *)
AnswersWhole ==
  ~hit =>
    /\ TypeOK
    /\ \A s \in Sessions :
         /\ way[s] \notin skewed[s] => \A i \in DOMAIN got[s] : got[s][i].to \in {0, asked[s]}
         /\ (pc[s] = "done" /\ why[s] = {} /\ ~shut[s] /\ way[s] \notin skewed[s]) => Whole(s)

(* As long as no number has been used that was another's: a session that   *)
(* is gone has no descriptor open, and one between requests those it       *)
(* keeps, but for the sockets its connects have left behind, at an address *)
(* each time and else after a fault; and a thread that waits for the end   *)
(* of an answer waits for a program that is there, or for another thread   *)
(* that is about to close its copy of the end.  Closing numbers twice,     *)
(* keeping them too long, and letting children have them lose nothing by   *)
(* itself.                                                                 *)
OpenForSomebody ==
  ~hit => \A s \in Sessions :
    /\ \A f \in Fds : file[f].of = s =>
         \/ file[f].way = "left" /\ (Inet # {} \/ faults > 0)
         \/ pc[s] \notin {"idle", "gone"}
         \/ pc[s] = "idle" /\ file[f].way \in Instances /\ number[s][file[f].way] = f
    /\ (Receiving(s) /\ Mine(number[s][way[s]], s, way[s]) /\ ~Unread(s) /\ ~Ended(s, way[s])) =>
         IF way[s] = "fork" THEN \E t \in holders[s] : child[t] # "ended"
         ELSE wire[s][way[s]].rest # << >> \/ way[s] = "scgi"
    /\ pc[s] = "wait" => child[s] # "none"
=============================================================================
