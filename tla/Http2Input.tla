----------------------------- MODULE Http2Input -----------------------------
(***************************************************************************)
(* What a connection of HTTP/2 receives, as functions: the frames that the *)
(* asynchronous build makes of the octets, which come in any pieces, and   *)
(* the window that a stream's client has after each frame of DATA.         *)
(*                                                                         *)
(* A piece is what can be read without waiting at one event of the socket; *)
(* AsyncProcessing handles the first frame, and calls itself for the rest. *)
(***************************************************************************)
EXTENDS Integers, Sequences, SequencesExt

CONSTANTS
  Preface,     \* the octets a client starts with
  HeaderLen,   \* sizeof(HTTP2_Frame)
  Lengths,     \* bound: lengths of payloads
  Most,        \* bound: frames in a row
  Initial,     \* m_initial_local_window_size
  Sizes,       \* bound: what a frame of DATA carries
  Data         \* bound: frames of DATA in a row

-----------------------------------------------------------------------------
(* m_http2_state, m_frame_hdr and how much of it is valid, m_payload and   *)
(* m_async_recv_buf, and what ProtParse was called with.                   *)
Octets == Seq(0..255)
Connections == [state : {"preface", "header", "payload"}, header : Octets, valid : 0..HeaderLen,
                payload : Octets, recv : Octets, frames : Seq([header : Octets, payload : Octets])]

New == [state |-> "preface", header |-> [i \in 1..HeaderLen |-> 0], valid |-> 0,
        payload |-> << >>, recv |-> << >>, frames |-> << >>]

AsyncRecv(c, piece) == [c EXCEPT !.recv = @ \o piece]

From(s, n) == SubSeq(s, n + 1, Len(s))

AfterPreface(c) ==
  IF Len(c.recv) < Len(Preface) THEN c
  ELSE [c EXCEPT !.recv = From(@, Len(Preface)), !.state = "header"]

(* All that was received joins what is left of m_payload.                  *)
Joined(c) == [c EXCEPT !.payload = @ \o c.recv, !.recv = << >>]

(* The second part of a header is not put behind the first one, but as     *)
(* many headers further: the header has there what it had before.          *)
HeaderTaken(c) ==
  LET rest == HeaderLen - c.valid
      taken == IF Len(c.payload) > rest THEN rest ELSE Len(c.payload)
  IN IF c.state # "header" THEN c
     ELSE [c EXCEPT !.header = IF c.valid > 0 THEN @ ELSE SubSeq(c.payload, 1, taken) \o From(@, taken),
                    !.valid = @ + taken,
                    !.payload = From(@, taken),
                    !.state = IF taken = rest THEN "payload" ELSE "header"]

(* The length is the first three octets.                                   *)
PayloadLen(h) == 65536 * h[1] + 256 * h[2] + h[3]

Whole(c) == c.state = "payload" /\ Len(c.payload) >= PayloadLen(c.header)

Parsed(c) ==
  LET n == PayloadLen(c.header)
  IN [c EXCEPT !.frames = Append(@, [header |-> c.header, payload |-> SubSeq(c.payload, 1, n)]),
               !.payload = From(@, n), !.valid = 0, !.state = "header"]

AsyncProcessing[c \in Connections] ==
  IF c.state = "preface" THEN AfterPreface(c)
  ELSE LET d == HeaderTaken(Joined(c))
       IN IF ~Whole(d) THEN d
          ELSE IF Len(Parsed(d).payload) >= HeaderLen THEN AsyncProcessing[Parsed(d)]
          ELSE Parsed(d)

-----------------------------------------------------------------------------
(* The client's frames, and those of them that are whole within n octets.  *)
Frame(k, length) ==
  [header |-> [i \in 1..HeaderLen |-> IF i = 3 THEN length ELSE IF i = HeaderLen THEN k ELSE 0],
   payload |-> [i \in 1..length |-> 16 * k + i]]

Sequences == UNION {[1..m -> Lengths] : m \in 0..Most}
Frames(lengths) == [k \in DOMAIN lengths |-> Frame(k, lengths[k])]
Written(sent) == Preface \o FlattenSeq([k \in DOMAIN sent |-> sent[k].header \o sent[k].payload])

Within(sent, n) ==
  SubSeq(sent, 1, Cardinality({k \in DOMAIN sent : Len(Written(SubSeq(sent, 1, k))) <= n}))

After(c, piece) == AsyncProcessing[AsyncRecv(c, piece)]

CutsHeader(sent, n) ==
  \E k \in DOMAIN sent : LET start == Len(Written(SubSeq(sent, 1, k - 1)))
                         IN start < n /\ n < start + HeaderLen

(* Whatever pieces the octets come in, an event leaves exactly the frames  *)
(* handled that have come whole, in their order, provided that the preface *)
(* had come before it (those that come with it wait for the next event),   *)
(* and that none but the first piece had ended within a header.            *)
PiecesAgree ==
  \A lengths \in Sequences :
    LET sent == Frames(lengths)
        octets == Written(sent)
    IN \A b \in 2..Len(octets) : \A a \in 1..b - 1 :
         \E c \in {After(New, SubSeq(octets, 1, a))} :
         \E d \in {After(c, SubSeq(octets, a + 1, b))} :
           /\ c.frames = << >>
           /\ c.state # "preface" => d.frames = Within(sent, b)
           /\ /\ d.state # "preface" /\ b < Len(octets)
              /\ c.state = "preface" \/ ~CutsHeader(sent, b)
              => After(d, From(octets, b)).frames = sent

-----------------------------------------------------------------------------
(* The window of a stream that is open: m_local_window_size, and the       *)
(* client's own account of it.  (Bit 24 of an increment is lost on its     *)
(* way, as in Http2Conn; no frame is so long.)                             *)
AtFirst == [local |-> Initial, client |-> Initial]

send_window_update(w, n) == [local |-> w.local + n, client |-> w.client + n]

DecreaseLocalWindowSize(w, n) ==
  LET less == [w EXCEPT !.local = @ - n]
  IN IF less.local <= 0 THEN send_window_update(less, Initial) ELSE less

RecvData(w, n) == send_window_update(DecreaseLocalWindowSize([w EXCEPT !.client = @ - n], n), n)

(* After any DATA the client may send again as much as at first, and the   *)
(* server's account is the client's: no upload waits for a window.         *)
WindowsAgree ==
  \A m \in 0..Data : \A sizes \in [1..m -> Sizes] :
    FoldLeft(RecvData, AtFirst, sizes) = AtFirst
=============================================================================
