------------------------------- MODULE Relay -------------------------------
(***************************************************************************)
(* http_tunneling::relay_processing in the synchronous build: one thread   *)
(* relays a CONNECT tunnel between the client's socket and the backend's,  *)
(* with one ring buffer in each direction.                                 *)
(*                                                                         *)
(* A direction is named by the end its bytes come from.  Bytes are         *)
(* numbered 1, 2, ... in the order the end sent them, so the content of a  *)
(* buffer cell is the number of the byte it holds, 0 for a cell that was   *)
(* never written.  w_pos and r_pos are C ints: they wrap at IntMax, and %  *)
(* truncates towards zero.  The sockets are non-blocking.                  *)
(***************************************************************************)
EXTENDS Integers, Sequences, FiniteSets

CONSTANTS
  BufLen,    \* BUFFER_DESCR_BUF_LEN
  IntMax,    \* the largest int
  Room,      \* bytes the send buffer of a socket takes
  Slow,      \* the values of slow: may the ends be slow to read
  MaxUp,     \* bound: bytes the client sends
  MaxDown,   \* bound: bytes the backend sends
  ClientFds, \* the values of m_client_sockfd
  BackendFd, \* m_backend_sockfd
  Word       \* descriptors in a word of an fd_set

ASSUME RelayAssumption ==
  /\ BufLen \in Nat \ {0}
  /\ IntMax \in Nat /\ BufLen <= IntMax
  /\ Room \in Nat \ {0}
  /\ Slow \subseteq BOOLEAN
  /\ MaxUp \in Nat /\ MaxDown \in Nat
  /\ BackendFd \in Nat /\ ClientFds \subseteq Nat \ {BackendFd}
  /\ Word \in Nat \ {0}

VARIABLES
  slow,   \* FALSE: the ends read whatever is sent to them at once
  clientFd, \* m_client_sockfd
  pc,     \* where the loop is
  rd, wr, \* mask_r, mask_w
  w, r,   \* w_pos and r_pos of each direction
  buf,    \* the memory of each direction's buffer
  got,    \* bytes received in each direction
  out,    \* bytes sent in each direction
  inbox,  \* kernel: bytes of each end waiting to be received
  room,   \* kernel: bytes each end's socket can be sent now
  eof     \* kernel: the ends that have closed

tunnel == <<slow, clientFd>>  \* as the tunnel was found: never changes
ring   == <<w, r, buf, got, out>>
kernel == <<inbox, room, eof>>
vars   == <<slow, clientFd, pc, rd, wr, w, r, buf, got, out, inbox, room, eof>>

Client  == "client"
Backend == "backend"
Ends    == {Client, Backend}
Other(e) == IF e = Client THEN Backend ELSE Client
Fd(e)    == IF e = Client THEN clientFd ELSE BackendFd
MaxBytes(e) == IF e = Client THEN MaxUp ELSE MaxDown

Cells == 0 .. 2 * BufLen

(* int arithmetic *)
Wrap(x)   == IF x > IntMax THEN x - 2 * (IntMax + 1)
             ELSE IF x < -(IntMax + 1) THEN x + 2 * (IntMax + 1) ELSE x
Offset(x) == IF x >= 0 THEN x % BufLen ELSE -((-x) % BufLen)
Used(e)   == Wrap(w[e] - r[e])
Least(a, b) == IF a < b THEN a ELSE b

Init ==
  /\ slow \in Slow /\ clientFd \in ClientFds
  /\ pc = "select"
  /\ rd = {} /\ wr = {}
  /\ w = [e \in Ends |-> 0]
  /\ r = [e \in Ends |-> 0]
  /\ buf = [e \in Ends |-> [c \in Cells |-> 0]]
  /\ got = [e \in Ends |-> 0]
  /\ out = [e \in Ends |-> <<>>]
  /\ inbox = [e \in Ends |-> 0]
  /\ room = [e \in Ends |-> Room]
  /\ eof = {}

-----------------------------------------------------------------------------
(* The two ends and the kernel.                                            *)

Offer(e) ==
  /\ e \notin eof
  /\ got[e] + inbox[e] < MaxBytes(e)
  /\ inbox' = [inbox EXCEPT ![e] = @ + 1]
  /\ UNCHANGED <<pc, rd, wr, room, eof>> /\ UNCHANGED ring

Drain(e) ==
  /\ room[e] < Room
  /\ room' = [room EXCEPT ![e] = Room]
  /\ UNCHANGED <<pc, rd, wr, inbox, eof>> /\ UNCHANGED ring

CloseEnd(e) ==
  /\ e \notin eof
  /\ eof' = eof \cup {e}
  /\ UNCHANGED <<pc, rd, wr, inbox, room>> /\ UNCHANGED ring

-----------------------------------------------------------------------------
(* select.  Its first argument is the backend's descriptor + 1, whichever  *)
(* descriptor is larger, so a client's descriptor beyond it is not looked  *)
(* at; and the kernel copies whole words, so that its bits come back       *)
(* cleared when they share the last word and as they were otherwise.  The  *)
(* masks are in-out: an end that wr asked for and that is not writable now *)
(* is no longer in wr after select.                                        *)
Watched == {e \in Ends : Fd(e) <= BackendFd}
Untouched ==
  {e \in Ends \ Watched : Fd(e) \div Word > BackendFd \div Word}

Readable == {e \in Watched : inbox[e] > 0 \/ e \in eof}
Writable == {e \in Watched \cap wr : room[e] > 0}

Select ==
  /\ pc = "select"
  /\ Readable \cup Writable # {}
  /\ rd' = Readable \cup Untouched
  /\ wr' = Writable \cup (wr \cap Untouched)
  /\ pc' = "fromClient"
  /\ UNCHANGED ring /\ UNCHANGED kernel

Close == pc' = "closed" /\ UNCHANGED <<rd, wr, ring, kernel>>

(* m_connection_idle_timeout seconds without an event. *)
Idle == pc = "select" /\ Readable \cup Writable = {} /\ Close

(* select fails, for one because of a signal. *)
SelectFails == pc = "select" /\ Close

-----------------------------------------------------------------------------
(* recv from end e into its ring, at the offset of w_pos; what was written *)
(* beyond the ring's length is copied to its start.  (Here and below, a    *)
(* definition whose name begins with Slip is a faulty variant of the one   *)
(* after it and is used by nothing.)                                       *)
SlipNoDup(m, from, n) == m
Dup(m, from, n) ==
  [c \in Cells |-> IF c + BufLen < from + n THEN m[c + BufLen] ELSE m[c]]

Stored(m, from, n, first) ==
  [c \in Cells |-> IF from <= c /\ c < from + n
                   THEN first + (c - from) ELSE m[c]]

SlipIgnoresUsed(e) == BufLen
WannaRecv(e)       == BufLen - Used(e)

SlipUnasked(e) == wr
Asked(e)       == wr \cup {Other(e)}

Received(e, n) ==
  LET at == Offset(w[e]) IN
  /\ buf' = [buf EXCEPT ![e] = Dup(Stored(@, at, n, got[e] + 1), at, n)]
  /\ w' = [w EXCEPT ![e] = Wrap(@ + n)]
  /\ got' = [got EXCEPT ![e] = @ + n]
  /\ inbox' = [inbox EXCEPT ![e] = @ - n]
  /\ wr' = Asked(e)

(* recv returned 0 at the end of the stream, or failed with EAGAIN. *)
SlipTriesAgain(e, next) == next
AfterNothing(e, next)   == IF e \in eof THEN "closed" ELSE next

(* The end is reported readable, there is room in the ring, and the offset *)
(* is inside the buffer.                                                   *)
CanRecv(e) == e \in rd /\ WannaRecv(e) > 0 /\ WannaRecv(e) <= BufLen

RecvStep(e, here, next) ==
  /\ pc = here
  /\ UNCHANGED <<rd, r, out, room, eof>>
  /\ \/ /\ ~CanRecv(e)
        /\ pc' = next
        /\ UNCHANGED <<wr, w, buf, got, inbox>>
     \/ /\ CanRecv(e) /\ Offset(w[e]) < 0   \* writes before the buffer
        /\ pc' = "wild"
        /\ UNCHANGED <<wr, w, buf, got, inbox>>
     \/ /\ CanRecv(e) /\ Offset(w[e]) >= 0 /\ inbox[e] > 0
        /\ Received(e, Least(WannaRecv(e), inbox[e]))
        /\ pc' = next
     \/ /\ CanRecv(e) /\ Offset(w[e]) >= 0 /\ inbox[e] = 0
        /\ pc' = AfterNothing(e, next)
        /\ UNCHANGED <<wr, w, buf, got, inbox>>

(* send what is in the ring of end e to the other end, from the offset of  *)
(* r_pos on, in one piece: past the ring's length it reads the second half *)
(* of the allocation.                                                      *)
CanSend(e) == Other(e) \in wr /\ Used(e) > 0 /\ Used(e) <= BufLen

Sendable(e) == Least(Used(e), room[Other(e)])

SlipKeepsPosition(e, n) == r[e]
NextRead(e, n)          == Wrap(r[e] + n)

Sent(e, n) ==
  LET from == Offset(r[e]) IN
  /\ out' = [out EXCEPT ![e] = @ \o [i \in 1 .. n |-> buf[e][from + i - 1]]]
  /\ r' = [r EXCEPT ![e] = NextRead(e, n)]
  /\ wr' = IF r'[e] = w[e] THEN wr \ {Other(e)} ELSE wr
  /\ room' = IF slow THEN [room EXCEPT ![Other(e)] = @ - n] ELSE room

SendStep(e, here, next) ==
  /\ pc = here
  /\ UNCHANGED <<rd, w, buf, got, inbox, eof>>
  /\ \/ /\ ~CanSend(e)
        /\ pc' = next
        /\ wr' = IF Used(e) = 0 THEN wr \ {Other(e)} ELSE wr
        /\ UNCHANGED <<r, out, room>>
     \/ /\ CanSend(e) /\ Offset(r[e]) < 0   \* reads before the buffer
        /\ pc' = "wild"
        /\ UNCHANGED <<wr, r, out, room>>
     \/ /\ CanSend(e) /\ Offset(r[e]) >= 0 /\ room[Other(e)] > 0
        /\ Sent(e, Sendable(e))
        /\ pc' = next
     \/ /\ CanSend(e) /\ Offset(r[e]) >= 0 /\ room[Other(e)] = 0  \* EAGAIN
        /\ pc' = next
        /\ UNCHANGED <<wr, r, out, room>>
     \/ /\ CanSend(e) /\ Other(e) \in eof   \* EPIPE or ECONNRESET
        /\ pc' = "closed"
        /\ UNCHANGED <<wr, r, out, room>>

FromClient  == RecvStep(Client, "fromClient", "toBackend")
ToBackend   == SendStep(Client, "toBackend", "fromBackend")
FromBackend == RecvStep(Backend, "fromBackend", "toClient")
ToClient    == SendStep(Backend, "toClient", "except")

(* The pass ends with a descriptor in mask_e: the bit of an end that       *)
(* select does not touch is still there, or there is urgent data; or with  *)
(* none, and the loop goes on.                                             *)
StaleBit == pc = "except" /\ Untouched # {} /\ Close

Urgent == pc = "except" /\ Close

Again ==
  /\ pc = "except" /\ Untouched = {}
  /\ pc' = "select"
  /\ UNCHANGED <<rd, wr, ring, kernel>>

Ended == pc \in {"closed", "wild"} /\ UNCHANGED vars

-----------------------------------------------------------------------------
Pass ==
  /\ \/ Select \/ Idle \/ FromClient \/ ToBackend \/ FromBackend \/ ToClient
     \/ StaleBit \/ Again
  /\ UNCHANGED tunnel
Fails == (SelectFails \/ Urgent) /\ UNCHANGED tunnel
EndStep(e) == (Offer(e) \/ Drain(e) \/ CloseEnd(e)) /\ UNCHANGED tunnel

Next ==
  \/ Pass \/ Fails \/ Ended
  \/ pc \notin {"closed", "wild"} /\ \E e \in Ends : EndStep(e)

Spec == Init /\ [][Next]_vars

(* The thread runs, and select's timeout passes when nothing happens.  The *)
(* ends owe nothing.                                                       *)
FairSpec == Spec /\ WF_vars(Pass)

-----------------------------------------------------------------------------
(* Properties.                                                             *)

(* Types of the state of relay_processing.                                 *)
TypeOK ==
  /\ pc \in {"select", "fromClient", "toBackend", "fromBackend", "toClient",
             "except", "closed", "wild"}
  /\ rd \subseteq Ends /\ wr \subseteq Ends /\ eof \subseteq Ends
  /\ w \in [Ends -> -(IntMax + 1) .. IntMax]
  /\ r \in [Ends -> -(IntMax + 1) .. IntMax]
  /\ buf \in [Ends -> [Cells -> Nat]]
  /\ got \in [Ends -> Nat]
  /\ out \in [Ends -> Seq(Nat)]
  /\ inbox \in [Ends -> Nat]
  /\ room \in [Ends -> 0 .. Room]

Pending(e) == got[e] - Len(out[e])

(* The two positions always account for exactly the bytes received and not *)
(* sent yet, and these always fit the ring: recv is never given more room  *)
(* than there is, however sends fall behind.                               *)
RingAccounts ==
  \A e \in Ends : Used(e) = Pending(e) /\ Pending(e) \in 0 .. BufLen

(* And the rest is of its type: a mask names ends, a send never takes more *)
(* than a socket has room for.                                             *)
RelayInv == TypeOK /\ RingAccounts

(* Until the positions pass the largest int, each byte not sent yet is in  *)
(* the first half of the allocation, at its number modulo the ring's       *)
(* length: a later recv never overwrites it, and the copy from the second  *)
(* half brings it there when recv ran over.  (Past it, the first position  *)
(* that is a negative multiple of the ring's length is taken for its       *)
(* start, which for a ring of 12288 is 4096 bytes off.)                    *)
LiveBytesKept ==
  \A e \in Ends : got[e] <= IntMax =>
     \A i \in Len(out[e]) + 1 .. got[e] : buf[e][(i - 1) % BufLen] = i

(* src/tunneling.cpp:1167 "dup for implement ring buffer": a ring buffer   *)
(* hands its bytes on as they came.                                        *)
Faithful == \A e \in Ends : \A i \in DOMAIN out[e] : out[e][i] = i

(* It does when the ends take whatever is sent to them and a socket takes  *)
(* a whole ring at once, also past the largest int: the ring is then empty *)
(* whenever something is received.                                         *)
Taken == ~slow /\ BufLen <= Room
FaithfulWhenTaken == Taken => Faithful

(* Neither end is slow, and select looks at both.                          *)
Easy == ~slow /\ Watched = Ends

(* When the relay ends, it has delivered what it received to an end that   *)
(* is still there: true when the ends take whatever is sent to them.       *)
ClosesDrained ==
  [][Easy /\ pc # "closed" /\ pc' = "closed" =>
       \A e \in Ends : Other(e) \in eof \/ Pending(e) = 0]_vars

(* The idle timeout strikes only when nothing is waiting to be received,   *)
(* and what is waiting to be sent cannot be: no event was lost in the      *)
(* masks (true, again, when the ends take whatever is sent to them).       *)
IdleWhenDone ==
  [][Easy /\ Idle => \A e \in Ends :
                      /\ inbox[e] = 0
                      /\ (Pending(e) = 0 \/ room[Other(e)] = 0)]_vars

(* Once an end has closed, the relay ends: it receives what that end had   *)
(* sent, comes upon the end of the stream, and gives up (or it has run     *)
(* past the largest int and copies outside the ring).  And with a client   *)
(* beyond the words that select looks at it ends in any case: no pass      *)
(* leads to another.                                                       *)
EndsWithPeer ==
  \A e \in Ends :
     (Easy /\ e \in eof) \/ Untouched # {} ~> pc \in {"closed", "wild"}
=============================================================================
