--------------------------- MODULE WebSocketFrame ---------------------------
(***************************************************************************)
(* The frames of WebSocket, as functions: the length in seven bits or in   *)
(* sixteen or sixty-four that follow, and the mask.  The header is two     *)
(* octets in the order of the network; a payload is octets.                *)
(***************************************************************************)
EXTENDS Naturals, Sequences, Bitwise

CONSTANTS
  Lengths,  \* bound: lengths that are sent
  Octets,   \* bound: octets of a payload and of a mask's key
  Longest   \* bound: how long a payload is spelt out

None == << >>

(* Send: 65535 is none of the first two, and the seven bits of it are 127. *)
SevenBits(len) ==
  IF len > 65535 THEN 127 ELSE IF len > 125 /\ len < 65535 THEN 126 ELSE len % 128

Extended(len) ==
  CASE SevenBits(len) = 126 -> len % 2^16 [] SevenBits(len) = 127 -> len [] OTHER -> None

Masked(payload, key) == [i \in DOMAIN payload |-> payload[i] ^^ key[((i - 1) % 4) + 1]]

Send(opcode, key, payload) ==
  [fin |-> 1, opcode |-> opcode, mask |-> key # None, seven |-> SevenBits(Len(payload)),
   ext |-> Extended(Len(payload)), key |-> key,
   payload |-> IF key = None THEN payload ELSE Masked(payload, key)]

(* Close, Ping and Pong send a header alone.                               *)
Control(opcode) ==
  [fin |-> 1, opcode |-> opcode, mask |-> FALSE, seven |-> 0, ext |-> None, key |-> None,
   payload |-> << >>]

(* Recv: what it gives, and the octets it leaves to the next one.  It does *)
(* not give the opcode.                                                    *)
RecvLength(seven, ext) == IF seven < 126 THEN seven ELSE ext

Recv(frame) ==
  LET len == RecvLength(frame.seven, frame.ext)
      taken == SubSeq(frame.payload, 1, IF len < Len(frame.payload) THEN len ELSE Len(frame.payload))
  IN [len |-> len, left |-> SubSeq(frame.payload, len + 1, Len(frame.payload)),
      payload |-> IF frame.mask THEN Masked(taken, frame.key) ELSE taken]

(* A frame of every length is taken whole and in its place, by the shortest*)
(* form that RFC 6455 demands, and a payload comes out of the mask as it   *)
(* was; what ends, asks and answers leaves nothing behind.                 *)
FramesAgree ==
  /\ \A len \in Lengths :
       /\ RecvLength(SevenBits(len), Extended(len)) = len
       /\ SevenBits(len) = IF len < 126 THEN len ELSE IF len < 2^16 - 1 THEN 126 ELSE 127
  /\ \A n \in 0..Longest : \A payload \in [1..n -> Octets] :
       \A key \in {None} \cup [1..4 -> Octets] :
         Recv(Send(1, key, payload)) = [len |-> n, left |-> << >>, payload |-> payload]
  /\ \A opcode \in 8..10 : Recv(Control(opcode)) = [len |-> 0, left |-> << >>, payload |-> << >>]
=============================================================================
