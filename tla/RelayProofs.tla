---------------------------- MODULE RelayProofs ----------------------------
(***************************************************************************)
(* Proofs about Relay for every ring length, width of int, send buffer and *)
(* number of bytes.  The types and the account of the ring are proved      *)
(* together: recv stays inside the allocation only because the positions   *)
(* account for the bytes in the ring, also after they have wrapped.        *)
(***************************************************************************)
EXTENDS Relay, TLAPS, SequenceTheorems

Ints == -(IntMax + 1) .. IntMax

(* Moving one position forward by n <= BufLen keeps it an int, and changes *)
(* the distance of the two by n, whether or not it wraps.                  *)
LEMMA WrapAdvance ==
  ASSUME NEW x \in Ints, NEW y \in Ints, NEW n \in 0 .. BufLen
  PROVE  /\ Wrap(x + n) \in Ints
         /\ Wrap(x - y) \in 0 .. BufLen - n =>
              Wrap(Wrap(x + n) - y) = Wrap(x - y) + n
         /\ Wrap(x - y) \in n .. BufLen =>
              Wrap(x - Wrap(y + n)) = Wrap(x - y) - n
<1>1. BufLen \in Nat /\ IntMax \in Nat /\ BufLen <= IntMax
  BY RelayAssumption
<1>2. Wrap(x + n) \in Ints
  BY <1>1 DEF Wrap, Ints
<1>3. Wrap(x - y) \in 0 .. BufLen - n =>
        Wrap(Wrap(x + n) - y) = Wrap(x - y) + n
  BY <1>1 DEF Wrap, Ints
<1>4. Wrap(x - y) \in n .. BufLen =>
        Wrap(x - Wrap(y + n)) = Wrap(x - y) - n
  BY <1>1 DEF Wrap, Ints
<1> QED
  BY <1>2, <1>3, <1>4

(* An offset that is not negative is inside of the ring.                   *)
LEMMA OffsetRange ==
  ASSUME NEW x \in Ints, Offset(x) >= 0
  PROVE  Offset(x) \in 0 .. BufLen - 1
<1>1. \A i \in Nat : i % BufLen \in 0 .. BufLen - 1
  BY RelayAssumption
<1>2. x \in Int /\ -x \in Int
  BY RelayAssumption DEF Ints
<1>3. CASE x >= 0
  BY <1>1, <1>2, <1>3 DEF Offset
<1>4. CASE ~(x >= 0)
  <2>1. -x \in Nat
    BY <1>2, <1>4
  <2>2. (-x) % BufLen \in 0 .. BufLen - 1
    BY <1>1, <2>1
  <2> QED
    BY <1>4, <2>2, RelayAssumption DEF Offset
<1> QED
  BY <1>3, <1>4

(* Both rings start empty.                                                 *)
LEMMA RelayInit == Init => RelayInv
<1> SUFFICES ASSUME Init PROVE RelayInv
  OBVIOUS
<1>1. TypeOK
  BY RelayAssumption DEF Init, TypeOK
<1>2. \A e \in Ends : w[e] = 0 /\ r[e] = 0 /\ got[e] = 0 /\ Len(out[e]) = 0
  BY DEF Init
<1>3. RingAccounts
  BY <1>2, RelayAssumption DEF RingAccounts, Used, Wrap, Pending
<1> QED
  BY <1>1, <1>3 DEF RelayInv

Phases == {"select", "fromClient", "toBackend", "fromBackend", "toClient",
           "except", "closed", "wild"}

(* The end a ring's bytes go to is one of the two.                         *)
LEMMA OtherEnd == \A e \in Ends : Other(e) \in Ends
BY DEF Ends, Other

(* A recv: what arrives is no more than the ring has room for.             *)
LEMMA RecvKeeps ==
  ASSUME RelayInv, NEW e \in Ends, NEW here \in Phases, NEW next \in Phases,
         RecvStep(e, here, next)
  PROVE  RelayInv'
<1> USE DEF RelayInv
<1>1. CASE UNCHANGED <<w, buf, got, inbox, wr>> /\ pc' \in Phases
  BY <1>1 DEF RecvStep, TypeOK, RingAccounts, Used, Pending, Phases
<1>2. CASE \E n \in 1 .. BufLen :
             /\ n = Least(WannaRecv(e), inbox[e])
             /\ CanRecv(e) /\ Offset(w[e]) >= 0
             /\ Received(e, n) /\ pc' = next
  <2> PICK n \in 1 .. BufLen :
             /\ n = Least(WannaRecv(e), inbox[e])
             /\ CanRecv(e) /\ Offset(w[e]) >= 0
             /\ Received(e, n) /\ pc' = next
    BY <1>2
  <2>1. /\ BufLen \in Nat \ {0} /\ IntMax \in Nat /\ Used(e) \in 0 .. BufLen
        /\ inbox[e] \in Nat /\ got[e] \in Nat
        /\ w[e] \in Ints /\ r[e] \in Ints
    BY RelayAssumption DEF TypeOK, RingAccounts, Ints
  <2>2. n <= BufLen - Used(e) /\ n <= inbox[e]
    BY <2>1 DEF Least, WannaRecv
  <2>3. Wrap(w[e] + n) \in Ints /\ Wrap(Wrap(w[e] + n) - r[e]) = Used(e) + n
    <3>1. n \in 0 .. BufLen /\ Used(e) = Wrap(w[e] - r[e])
      BY <2>1 DEF Used
    <3>2. Wrap(w[e] - r[e]) \in 0 .. BufLen - n
      BY <2>1, <2>2, <3>1
    <3>3. w[e] \in Ints /\ r[e] \in Ints
      BY <2>1
    <3> QED
      <4>1. Wrap(w[e] + n) \in Ints
        BY <3>1, <3>3, WrapAdvance
      <4>2. Wrap(Wrap(w[e] + n) - r[e]) = Wrap(w[e] - r[e]) + n
        BY <3>1, <3>2, <3>3, WrapAdvance
      <4> QED
        BY <3>1, <4>1, <4>2
  <2>4. /\ w' = [w EXCEPT ![e] = Wrap(w[e] + n)]
        /\ got' = [got EXCEPT ![e] = got[e] + n]
        /\ inbox' = [inbox EXCEPT ![e] = inbox[e] - n]
        /\ wr' = wr \cup {Other(e)}
        /\ UNCHANGED <<rd, r, out, room, eof>>
    BY DEF Received, RecvStep, Asked
  <2>5. buf' \in [Ends -> [Cells -> Nat]]
    <3> DEFINE at   == Offset(w[e])
               mem1 == Stored(buf[e], at, n, got[e] + 1)
               mem2 == Dup(mem1, at, n)
    <3>1. at \in 0 .. BufLen - 1
      BY <2>1, OffsetRange
    <3>2. \A c \in Cells : c >= at => got[e] + 1 + (c - at) \in Nat
      BY <2>1, <3>1 DEF Cells
    <3>3. buf[e] \in [Cells -> Nat]
      BY DEF TypeOK
    <3>4. mem1 \in [Cells -> Nat]
      BY <3>2, <3>3 DEF Stored
    <3> HIDE DEF mem1
    <3>5. \A c \in Cells : c + BufLen < at + n => c + BufLen \in Cells
      BY <2>1, <3>1 DEF Cells
    <3>6. mem2 \in [Cells -> Nat]
      BY <3>4, <3>5 DEF Dup
    <3> HIDE DEF mem2
    <3>7. buf' = [buf EXCEPT ![e] = mem2]
      BY DEF Received, mem1, mem2
    <3> QED
      BY <3>6, <3>7 DEF TypeOK
  <2>6. TypeOK'
    <3>1. w' \in [Ends -> Ints]
      BY <2>3, <2>4 DEF TypeOK, Ints
    <3>2. got' \in [Ends -> Nat] /\ inbox' \in [Ends -> Nat]
      <4>1. got[e] + n \in Nat /\ inbox[e] - n \in Nat
        BY <2>1, <2>2
      <4> QED
        BY <2>4, <4>1 DEF TypeOK
    <3>3. wr' \subseteq Ends
      BY <2>4, OtherEnd DEF TypeOK
    <3>4. pc' \in Phases
      OBVIOUS
    <3> QED
      BY <2>4, <2>5, <3>1, <3>2, <3>3, <3>4 DEF TypeOK, Ints, Phases
  <2>7. RingAccounts'
    <3> SUFFICES ASSUME NEW f \in Ends
                 PROVE  Used(f)' = Pending(f)' /\ Pending(f)' \in 0 .. BufLen
      BY DEF RingAccounts
    <3>1. Used(f) = Pending(f) /\ Pending(f) \in 0 .. BufLen
      BY DEF RingAccounts
    <3>2. CASE f = e
      <4>1. /\ w'[e] = Wrap(w[e] + n) /\ r'[e] = r[e]
            /\ got'[e] = got[e] + n /\ out'[e] = out[e]
        BY <2>4 DEF TypeOK
      <4>2. Used(e)' = Used(e) + n
        BY <2>3, <4>1 DEF Used
      <4>3. Len(out[e]) \in Nat
        BY LenProperties DEF TypeOK
      <4>4. Pending(e)' = Pending(e) + n
        BY <2>1, <4>1, <4>3 DEF Pending
      <4> QED
        BY <2>1, <2>2, <3>1, <3>2, <4>2, <4>4
    <3>3. CASE f # e
      <4>1. w'[f] = w[f] /\ r'[f] = r[f] /\ got'[f] = got[f] /\ out'[f] = out[f]
        BY <2>4, <3>3 DEF TypeOK
      <4> QED
        BY <3>1, <4>1 DEF Used, Pending
    <3> QED
      BY <3>2, <3>3
  <2> QED
    BY <2>6, <2>7
<1> QED
  <2>1. CASE CanRecv(e) /\ Offset(w[e]) >= 0 /\ inbox[e] > 0
    <3>1. Least(WannaRecv(e), inbox[e]) \in 1 .. BufLen
      BY <2>1, RelayAssumption
         DEF Least, CanRecv, WannaRecv, TypeOK, RingAccounts
    <3> QED
      BY <1>1, <1>2, <2>1, <3>1 DEF RecvStep, AfterNothing, Phases
  <2>2. CASE ~(CanRecv(e) /\ Offset(w[e]) >= 0 /\ inbox[e] > 0)
    BY <1>1, <2>2 DEF RecvStep, AfterNothing, Phases
  <2> QED
    BY <2>1, <2>2

(* The bytes of s, then those of t.                                        *)
Extends(u, s, t) ==
  /\ \A i \in 1 .. Len(s) : u[i] = s[i]
  /\ \A i \in 1 .. Len(t) : u[Len(s) + i] = t[i]

(* What a send of n bytes takes.                                           *)
Piece(e, n) == [i \in 1 .. n |-> buf[e][Offset(r[e]) + i - 1]]

(* What a send takes lies inside the allocation and is appended to what    *)
(* the other end has received.                                             *)
LEMMA PieceSent ==
  ASSUME RelayInv, NEW e \in Ends, NEW n \in 1 .. BufLen, Offset(r[e]) >= 0
  PROVE  /\ Piece(e, n) \in Seq(Nat) /\ Len(Piece(e, n)) = n
         /\ out[e] \o Piece(e, n) \in Seq(Nat)
         /\ Len(out[e] \o Piece(e, n)) = Len(out[e]) + n
         /\ Len(out[e]) \in Nat
         /\ Extends(out[e] \o Piece(e, n), out[e], Piece(e, n))
<1> DEFINE from == Offset(r[e])
<1>1. /\ BufLen \in Nat \ {0} /\ r[e] \in Ints /\ n \in Nat
      /\ out[e] \in Seq(Nat)
  BY RelayAssumption DEF RelayInv, TypeOK, Ints
<1>2. Piece(e, n) \in Seq(Nat) /\ Len(Piece(e, n)) = n
  <2>1. from \in 0 .. BufLen - 1
    BY <1>1, OffsetRange
  <2>2. \A i \in 1 .. n : from + i - 1 \in Cells
    BY <1>1, <2>1 DEF Cells
  <2>3. \A i \in 1 .. n : buf[e][from + i - 1] \in Nat
    BY <2>2 DEF RelayInv, TypeOK
  <2> QED
    BY <1>1, <2>3 DEF Piece
<1>3. Extends(out[e] \o Piece(e, n), out[e], Piece(e, n))
  BY <1>1, <1>2, ConcatProperties, LenProperties DEF Extends
<1> QED
  BY <1>1, <1>2, <1>3, ConcatProperties, LenProperties

(* A send: no more than is in the ring, all of it inside the allocation.   *)
LEMMA SendKeeps ==
  ASSUME RelayInv, NEW e \in Ends, NEW here \in Phases, NEW next \in Phases,
         SendStep(e, here, next)
  PROVE  RelayInv'
<1> USE DEF RelayInv
<1>1. CASE UNCHANGED <<r, out, room>> /\ wr' \subseteq Ends /\ pc' \in Phases
  BY <1>1 DEF SendStep, TypeOK, RingAccounts, Used, Pending, Phases
<1>2. CASE \E n \in 1 .. BufLen :
             /\ n = Sendable(e)
             /\ CanSend(e) /\ Offset(r[e]) >= 0
             /\ Sent(e, n) /\ pc' = next
  <2> PICK n \in 1 .. BufLen :
             /\ n = Sendable(e)
             /\ CanSend(e) /\ Offset(r[e]) >= 0
             /\ Sent(e, n) /\ pc' = next
    BY <1>2
  <2> DEFINE from  == Offset(r[e])
             piece == Piece(e, n)
  <2>1. /\ BufLen \in Nat \ {0} /\ IntMax \in Nat /\ Used(e) \in 0 .. BufLen
        /\ room[Other(e)] \in 0 .. Room /\ Room \in Nat
        /\ w[e] \in Ints /\ r[e] \in Ints
    BY OtherEnd, RelayAssumption DEF TypeOK, RingAccounts, Ints
  <2>2. n <= Used(e) /\ n <= room[Other(e)]
    BY <2>1 DEF Sendable, Least
  <2>3. Wrap(r[e] + n) \in Ints /\ Wrap(w[e] - Wrap(r[e] + n)) = Used(e) - n
    <3>1. n \in 0 .. BufLen /\ Used(e) = Wrap(w[e] - r[e])
      BY <2>1 DEF Used
    <3>2. Wrap(w[e] - r[e]) \in n .. BufLen
      BY <2>1, <2>2, <3>1
    <3>3. w[e] \in Ints /\ r[e] \in Ints
      BY <2>1
    <3>4. Wrap(r[e] + n) \in Ints
      BY <3>1, <3>3, WrapAdvance
    <3>5. Wrap(w[e] - Wrap(r[e] + n)) = Wrap(w[e] - r[e]) - n
      BY <3>1, <3>2, <3>3, WrapAdvance
    <3> QED
      BY <3>1, <3>4, <3>5
  <2>4. /\ r' = [r EXCEPT ![e] = Wrap(r[e] + n)]
        /\ out' = [out EXCEPT ![e] = out[e] \o piece]
        /\ wr' = IF r'[e] = w[e] THEN wr \ {Other(e)} ELSE wr
        /\ room' = IF slow
                   THEN [room EXCEPT ![Other(e)] = room[Other(e)] - n]
                   ELSE room
        /\ UNCHANGED <<rd, w, buf, got, inbox, eof>>
    BY DEF Sent, SendStep, NextRead, Piece
  <2>6. /\ out[e] \o piece \in Seq(Nat)
        /\ Len(out[e] \o piece) = Len(out[e]) + n
        /\ Len(out[e]) \in Nat
    BY PieceSent
  <2>7. TypeOK'
    <3>1. r' \in [Ends -> Ints]
      BY <2>3, <2>4 DEF TypeOK, Ints
    <3>2. out' \in [Ends -> Seq(Nat)]
      BY <2>4, <2>6 DEF TypeOK
    <3>3. room' \in [Ends -> 0 .. Room]
      <4>1. room[Other(e)] - n \in 0 .. Room
        BY <2>1, <2>2
      <4> QED
        BY <2>4, <4>1 DEF TypeOK
    <3>4. wr' \subseteq Ends
      BY <2>4 DEF TypeOK
    <3>5. pc' \in Phases
      OBVIOUS
    <3> QED
      BY <2>4, <3>1, <3>2, <3>3, <3>4, <3>5 DEF TypeOK, Ints, Phases
  <2>8. RingAccounts'
    <3> SUFFICES ASSUME NEW f \in Ends
                 PROVE  Used(f)' = Pending(f)' /\ Pending(f)' \in 0 .. BufLen
      BY DEF RingAccounts
    <3>1. Used(f) = Pending(f) /\ Pending(f) \in 0 .. BufLen
      BY DEF RingAccounts
    <3>2. CASE f = e
      <4>1. /\ w'[e] = w[e] /\ r'[e] = Wrap(r[e] + n)
            /\ got'[e] = got[e] /\ out'[e] = out[e] \o piece
        BY <2>4 DEF TypeOK
      <4>2. Used(e)' = Used(e) - n
        BY <2>3, <4>1 DEF Used
      <4>3. got[e] \in Nat
        BY DEF TypeOK
      <4>4. Pending(e)' = Pending(e) - n
        BY <2>1, <2>6, <4>1, <4>3 DEF Pending
      <4> QED
        BY <2>1, <2>2, <3>1, <3>2, <4>2, <4>4
    <3>3. CASE f # e
      <4>1. w'[f] = w[f] /\ r'[f] = r[f] /\ got'[f] = got[f] /\ out'[f] = out[f]
        BY <2>4, <3>3 DEF TypeOK
      <4> QED
        BY <3>1, <4>1 DEF Used, Pending
    <3> QED
      BY <3>2, <3>3
  <2> QED
    BY <2>7, <2>8
<1> QED
  <2>1. CASE CanSend(e) /\ Offset(r[e]) >= 0 /\ room[Other(e)] > 0
    <3>1. Sendable(e) \in 1 .. BufLen
      <4>1. Used(e) \in 0 .. BufLen /\ Used(e) > 0 /\ BufLen \in Nat
        BY <2>1, RelayAssumption DEF CanSend, RingAccounts
      <4>2. room[Other(e)] \in 0 .. Room /\ Room \in Nat
        BY OtherEnd, RelayAssumption DEF TypeOK
      <4> QED
        BY <2>1, <4>1, <4>2 DEF Sendable, Least
    <3>2. wr \subseteq Ends
      BY DEF TypeOK
    <3> QED
      BY <1>1, <1>2, <2>1, <3>1, <3>2 DEF SendStep, Phases
  <2>2. CASE ~(CanSend(e) /\ Offset(r[e]) >= 0 /\ room[Other(e)] > 0)
    <3>1. wr \subseteq Ends /\ wr \ {Other(e)} \subseteq Ends
      BY DEF TypeOK
    <3> QED
      BY <1>1, <2>2, <3>1 DEF SendStep, Phases
  <2> QED
    BY <2>1, <2>2

(* w_pos and r_pos always account for the bytes in the ring, and they fit  *)
(* it, for any length of the ring and width of int.                        *)
THEOREM RelayAccounts == Spec => []RelayInv
<1>1. RelayInv /\ [Next]_vars => RelayInv'
  <2> SUFFICES ASSUME RelayInv, [Next]_vars PROVE RelayInv'
    OBVIOUS
  <2> USE DEF RelayInv
  <2>1. CASE FromClient \/ FromBackend
    BY <2>1, RecvKeeps DEF FromClient, FromBackend, Ends, Phases
  <2>2. CASE ToBackend \/ ToClient
    BY <2>2, SendKeeps DEF ToBackend, ToClient, Ends, Phases
  <2>3. CASE UNCHANGED <<ring, kernel>> /\ rd' \subseteq Ends
                /\ wr' \subseteq Ends /\ pc' \in Phases
    BY <2>3 DEF ring, kernel, TypeOK, RingAccounts, Used, Pending, Phases
  <2>4. CASE Select
    BY <2>3, <2>4 DEF Select, Readable, Writable, Watched, Untouched, TypeOK,
       Phases
  <2>5. CASE Idle \/ Fails \/ StaleBit \/ Again \/ Ended
    BY <2>3, <2>5 DEF Idle, Fails, SelectFails, Again, StaleBit, Urgent, Ended, Close,
       vars, ring, kernel, TypeOK, Phases
  <2>6. ASSUME NEW e \in Ends, EndStep(e)
        PROVE  RelayInv'
    <3>1. UNCHANGED ring /\ UNCHANGED <<pc, rd, wr>>
      BY <2>6 DEF EndStep, Offer, Drain, CloseEnd
    <3>2. /\ inbox' \in [Ends -> Nat] /\ room' \in [Ends -> 0 .. Room]
          /\ eof' \subseteq Ends
      <4>1. CASE Offer(e)
        <5>1. inbox[e] + 1 \in Nat
          BY DEF TypeOK
        <5> QED
          BY <4>1, <5>1 DEF Offer, TypeOK
      <4>2. CASE Drain(e)
        <5>1. Room \in 0 .. Room
          BY RelayAssumption
        <5> QED
          BY <4>2, <5>1 DEF Drain, TypeOK
      <4>3. CASE CloseEnd(e)
        BY <4>3 DEF CloseEnd, TypeOK
      <4> QED
        BY <2>6, <4>1, <4>2, <4>3 DEF EndStep
    <3> QED
      BY <3>1, <3>2 DEF ring, TypeOK, RingAccounts, Used, Pending
  <2>7. CASE UNCHANGED vars
    BY <2>3, <2>7 DEF vars, ring, kernel, TypeOK, Phases
  <2> QED
    BY <2>1, <2>2, <2>4, <2>5, <2>6, <2>7 DEF Next, Pass
<1> QED
  BY <1>1, RelayInit, PTL DEF Spec

(* The account of the ring by itself.                                      *)
THEOREM RingAlwaysAccounts == Spec => []RingAccounts
BY RelayAccounts, PTL DEF RelayInv
-----------------------------------------------------------------------------
(* The bytes in the ring.                                                  *)

(* Moving k further round a ring of b cells wraps at most once.            *)
LEMMA ModShift ==
  ASSUME NEW b \in Nat \ {0}, NEW a \in Nat, NEW k \in 0 .. b
  PROVE  (a + k) % b = IF (a % b) + k < b THEN (a % b) + k
                                          ELSE (a % b) + k - b
<1>1. a = b * (a \div b) + (a % b) /\ a % b \in 0 .. b - 1 /\ a \div b \in Nat
  OBVIOUS
<1>2. \A q \in Nat, m \in 0 .. b - 1 : (b * q + m) % b = m
  OBVIOUS
<1>3. CASE (a % b) + k < b
  <2>1. a + k = b * (a \div b) + ((a % b) + k)
    BY <1>1
  <2>2. (a % b) + k \in 0 .. b - 1
    BY <1>1, <1>3
  <2> QED
    BY <1>1, <1>2, <1>3, <2>1, <2>2
<1>4. CASE ~((a % b) + k < b)
  <2>1. a + k = b * (a \div b + 1) + ((a % b) + k - b)
    BY <1>1
  <2>2. (a % b) + k - b \in 0 .. b - 1
    BY <1>1, <1>4
  <2>3. a \div b + 1 \in Nat
    BY <1>1
  <2> QED
    BY <1>2, <1>4, <2>1, <2>2, <2>3
<1> QED
  BY <1>3, <1>4

(* Before the first position passes the largest int, the positions are the *)
(* numbers of bytes received and sent.                                     *)
Straight ==
  \A e \in Ends : got[e] <= IntMax => w[e] = got[e] /\ r[e] = Len(out[e])

LiveInv == RelayInv /\ Straight /\ LiveBytesKept

(* The positions start at zero, as the numbers of bytes do.                *)
LEMMA StraightInit == Init => Straight /\ LiveBytesKept
BY RelayAssumption DEF Init, Straight, LiveBytesKept

(* A step that leaves the rings alone.                                     *)
LEMMA StraightStutter ==
  LiveInv /\ UNCHANGED ring => Straight' /\ LiveBytesKept'
BY DEF LiveInv, ring, Straight, LiveBytesKept

(* The cells s hold n new bytes from offset at on, numbered from first,    *)
(* in one piece and also round the ring; the rest of the ring is as in m.  *)
Holds(s, m, at, n, first) ==
  /\ \A c \in 0 .. BufLen - 1 :
       c + BufLen >= at + n /\ (c < at \/ c >= at + n) => s[c] = m[c]
  /\ \A j \in 0 .. n - 1 : s[at + j] = first + j
  /\ \A j \in 0 .. n - 1 : at + j >= BufLen => s[at + j - BufLen] = first + j

(* That is what a recv leaves in them.                                     *)
LEMMA StoredThenDup ==
  ASSUME NEW m \in [Cells -> Nat], NEW at \in 0 .. BufLen - 1,
         NEW n \in 0 .. BufLen, NEW first \in Nat,
         NEW s, s = Dup(Stored(m, at, n, first), at, n)
  PROVE  Holds(s, m, at, n, first)
<1> DEFINE s1 == Stored(m, at, n, first)
<1>1. BufLen \in Nat \ {0}
  BY RelayAssumption
<1>2. \A c \in Cells : s1[c] = IF at <= c /\ c < at + n
                               THEN first + (c - at) ELSE m[c]
  BY DEF Stored
<1> HIDE DEF s1
<1>3. \A c \in Cells : s[c] = IF c + BufLen < at + n THEN s1[c + BufLen]
                              ELSE s1[c]
  BY DEF Dup, s1
<1>4. ASSUME NEW c \in 0 .. BufLen - 1, c + BufLen >= at + n,
             c < at \/ c >= at + n
      PROVE  s[c] = m[c]
  BY <1>1, <1>2, <1>3, <1>4 DEF Cells
<1>5. ASSUME NEW j \in 0 .. n - 1
      PROVE  s[at + j] = first + j
  <2>1. at + j \in Cells /\ at + j + BufLen >= at + n
    BY <1>1, <1>5 DEF Cells
  <2>2. s[at + j] = s1[at + j]
    BY <1>1, <1>3, <2>1
  <2> QED
    BY <1>1, <1>2, <2>1, <2>2
<1>6. ASSUME NEW j \in 0 .. n - 1, at + j >= BufLen
      PROVE  s[at + j - BufLen] = first + j
  <2>1. /\ at + j - BufLen \in Cells /\ at + j \in Cells
        /\ (at + j - BufLen) + BufLen = at + j /\ at + j < at + n
    BY <1>1, <1>6 DEF Cells
  <2>2. s[at + j - BufLen] = s1[at + j]
    BY <1>3, <2>1
  <2> QED
    BY <1>1, <1>2, <2>1, <2>2
<1> QED
  BY <1>4, <1>5, <1>6 DEF Holds

(* A recv keeps the bytes not sent yet, and puts the new ones behind them. *)
LEMMA RecvKeepsLive ==
  ASSUME LiveInv, NEW e \in Ends, NEW here \in Phases, NEW next \in Phases,
         RecvStep(e, here, next)
  PROVE  Straight' /\ LiveBytesKept'
<1>1. CASE UNCHANGED <<w, r, buf, got, out>>
  BY <1>1, StraightStutter DEF ring
<1>2. CASE \E n \in 1 .. BufLen :
             /\ n = Least(WannaRecv(e), inbox[e])
             /\ CanRecv(e) /\ Offset(w[e]) >= 0
             /\ Received(e, n)
             /\ UNCHANGED <<r, out>>
  <2> PICK n \in 1 .. BufLen :
             /\ n = Least(WannaRecv(e), inbox[e])
             /\ CanRecv(e) /\ Offset(w[e]) >= 0
             /\ Received(e, n)
             /\ UNCHANGED <<r, out>>
    BY <1>2
  <2> DEFINE at == Offset(w[e])
             g  == got[e]
             o  == Len(out[e])
             cells == Dup(Stored(buf[e], at, n, g + 1), at, n)
  <2>1. /\ BufLen \in Nat \ {0} /\ IntMax \in Nat /\ BufLen <= IntMax
        /\ inbox[e] \in Nat /\ g \in Nat /\ o \in Nat
        /\ w[e] \in Ints /\ r[e] \in Ints
        /\ buf[e] \in [Cells -> Nat]
    BY RelayAssumption, LenProperties DEF LiveInv, RelayInv, TypeOK, Ints
  <2>2. Used(e) = g - o /\ g - o \in 0 .. BufLen
    BY DEF LiveInv, RelayInv, RingAccounts, Pending
  <2>3. n <= BufLen - (g - o)
    BY <2>1, <2>2 DEF Least, WannaRecv
  <2>4. /\ w'[e] = Wrap(w[e] + n) /\ r' = r /\ got'[e] = g + n /\ out' = out
        /\ buf'[e] = cells
        /\ \A f \in Ends : f # e =>
             w'[f] = w[f] /\ got'[f] = got[f] /\ buf'[f] = buf[f]
    BY DEF Received, LiveInv, RelayInv, TypeOK
  <2>5. g <= IntMax => w[e] = g /\ r[e] = o
    BY DEF LiveInv, Straight
  <2>6. Straight'
    <3> SUFFICES ASSUME NEW f \in Ends, got'[f] <= IntMax
                 PROVE  w'[f] = got'[f] /\ r'[f] = Len(out'[f])
      BY DEF Straight
    <3>1. CASE f = e
      BY <2>1, <2>4, <2>5, <3>1 DEF Wrap
    <3>2. CASE f # e
      BY <2>4, <3>2 DEF LiveInv, Straight
    <3> QED
      BY <3>1, <3>2
  <2>7. LiveBytesKept'
    <3> SUFFICES ASSUME NEW f \in Ends, got'[f] <= IntMax,
                        NEW i \in Len(out'[f]) + 1 .. got'[f]
                 PROVE  buf'[f][(i - 1) % BufLen] = i
      BY DEF LiveBytesKept
    <3>1. CASE f # e
      BY <2>4, <3>1 DEF LiveInv, LiveBytesKept
    <3>2. CASE f = e
      <4>1. g + n <= IntMax /\ i \in o + 1 .. g + n
        BY <2>4, <3>2
      <4>2. w[e] = g /\ at = g % BufLen /\ at \in 0 .. BufLen - 1
        BY <2>1, <2>5, <4>1 DEF Offset
      <4>3. \A j \in o + 1 .. g : buf[e][(j - 1) % BufLen] = j
        <5>1. g <= IntMax
          <6> HIDE DEF g, o
          <6> QED
            BY <2>1, <4>1
        <5> QED
          BY <5>1 DEF LiveInv, LiveBytesKept
      <4> HIDE DEF at
      <4>4. Holds(cells, buf[e], at, n, g + 1)
        <5>1. n \in 0 .. BufLen /\ g + 1 \in Nat
          BY <2>1
        <5>2. cells = Dup(Stored(buf[e], at, n, g + 1), at, n)
          OBVIOUS
        <5> HIDE DEF cells, g
        <5>3. buf[e] \in [Cells -> Nat] /\ at \in 0 .. BufLen - 1
          BY <2>1, <4>2
        <5> QED
          BY <5>1, <5>2, <5>3, StoredThenDup
      <4> HIDE DEF cells, g, o
      <4>5. CASE i > g
        <5>1. PICK j \in 0 .. n - 1 : i = g + 1 + j
          <6>1. i - 1 - g \in 0 .. n - 1 /\ i = g + 1 + (i - 1 - g)
            BY <2>1, <4>1, <4>5
          <6> QED
            BY <6>1
        <5>2. j \in 0 .. BufLen /\ i - 1 = g + j
          BY <2>1, <5>1
        <5>3. (g + j) % BufLen = IF at + j < BufLen THEN at + j
                                                    ELSE at + j - BufLen
          BY <2>1, <4>2, <5>2, ModShift
        <5>4. cells[(i - 1) % BufLen] = g + 1 + j
          <6>1. /\ cells[at + j] = g + 1 + j
                /\ at + j >= BufLen => cells[at + j - BufLen] = g + 1 + j
            BY <4>4, <5>1 DEF Holds
          <6>2. at + j < BufLen \/ at + j >= BufLen
            BY <2>1, <4>2, <5>2
          <6> QED
            BY <5>2, <5>3, <6>1, <6>2
        <5> QED
          BY <2>4, <3>2, <5>1, <5>4
      <4>6. CASE i <= g
        <5> DEFINE k == g - (i - 1)
                   c == (i - 1) % BufLen
        <5>1. i \in o + 1 .. g /\ i - 1 \in Nat /\ k \in 1 .. BufLen - n
              /\ k \in 0 .. BufLen /\ i - 1 + k = g
          <6>1. i \in o + 1 .. g /\ i \in Int /\ i - 1 \in Nat /\ i - 1 + k = g
            BY <2>1, <4>1, <4>6
          <6>2. k >= 1 /\ k <= g - o /\ k \in Int
            BY <2>1, <6>1
          <6>3. g - o \in Int /\ n \in Int /\ g - o <= BufLen - n
            BY <2>1, <2>3
          <6> HIDE DEF k, c
          <6>4. k \in 1 .. BufLen - n /\ k \in 0 .. BufLen
            BY <2>1, <6>2, <6>3
          <6> QED
            BY <6>1, <6>4
        <5>2. at = IF c + k < BufLen THEN c + k ELSE c + k - BufLen
          BY <2>1, <4>2, <5>1, ModShift, ZenonT(30)
        <5>3. c \in 0 .. BufLen - 1
          BY <2>1, <5>1
        <5> HIDE DEF c, k
        <5>4. cells[c] = buf[e][c]
          <6>1. CASE c + k < BufLen
            BY <2>1, <4>4, <5>1, <5>2, <5>3, <6>1, SMTT(20) DEF Holds
          <6>2. CASE c + k >= BufLen
            BY <2>1, <4>4, <5>1, <5>2, <5>3, <6>2, SMTT(20) DEF Holds
          <6> QED
            BY <2>1, <5>1, <5>3, <6>1, <6>2
        <5>5. buf[e][c] = i
          BY <4>3, <5>1 DEF c
        <5> QED
          BY <2>4, <3>2, <5>4, <5>5 DEF c
      <4> QED
        BY <2>1, <4>1, <4>5, <4>6
    <3> QED
      BY <3>1, <3>2
  <2> QED
    BY <2>6, <2>7
<1> QED
  <2>1. CASE CanRecv(e) /\ Offset(w[e]) >= 0 /\ inbox[e] > 0
    <3>1. Least(WannaRecv(e), inbox[e]) \in 1 .. BufLen
      BY <2>1, RelayAssumption
         DEF Least, CanRecv, WannaRecv, TypeOK, RingAccounts, LiveInv, RelayInv
    <3> QED
      BY <1>1, <1>2, <2>1, <3>1 DEF RecvStep
  <2>2. CASE ~(CanRecv(e) /\ Offset(w[e]) >= 0 /\ inbox[e] > 0)
    BY <1>1, <2>2 DEF RecvStep
  <2> QED
    BY <2>1, <2>2

(* A send only takes bytes from the front.                                 *)
LEMMA SendKeepsLive ==
  ASSUME LiveInv, NEW e \in Ends, NEW here \in Phases, NEW next \in Phases,
         SendStep(e, here, next)
  PROVE  Straight' /\ LiveBytesKept'
<1>1. CASE UNCHANGED <<w, r, buf, got, out>>
  BY <1>1, StraightStutter DEF ring
<1>2. CASE CanSend(e) /\ Offset(r[e]) >= 0 /\ room[Other(e)] > 0
           /\ Sent(e, Sendable(e)) /\ UNCHANGED <<w, buf, got>>
  <2> DEFINE n == Sendable(e)
             piece == Piece(e, n)
             g == got[e]
             o == Len(out[e])
  <2>1. /\ BufLen \in Nat \ {0} /\ IntMax \in Nat /\ BufLen <= IntMax
        /\ g \in Nat /\ o \in Nat /\ room[Other(e)] \in Nat
        /\ Used(e) = g - o /\ g - o \in 0 .. BufLen
    BY RelayAssumption, LenProperties, OtherEnd
       DEF LiveInv, RelayInv, TypeOK, RingAccounts, Pending
  <2>2. n \in Nat /\ n <= g - o
    BY <1>2, <2>1 DEF Sendable, Least
  <2> HIDE DEF n
  <2>3. /\ r'[e] = Wrap(r[e] + n) /\ out'[e] = out[e] \o piece
        /\ \A f \in Ends : f # e => r'[f] = r[f] /\ out'[f] = out[f]
    BY <1>2 DEF Sent, NextRead, LiveInv, RelayInv, TypeOK, Piece, n
  <2>4. Len(out'[e]) = o + n
    <3>1. n \in 1 .. BufLen
      BY <1>2, <2>1, RelayAssumption DEF Sendable, Least, CanSend, n
    <3> QED
      BY <1>2, <2>3, <3>1, PieceSent DEF LiveInv
  <2>5. Straight'
    <3> SUFFICES ASSUME NEW f \in Ends, got'[f] <= IntMax
                 PROVE  w'[f] = got'[f] /\ r'[f] = Len(out'[f])
      BY DEF Straight
    <3>1. CASE f = e
      <4>1. w[e] = g /\ r[e] = o /\ g <= IntMax
        BY <1>2, <3>1 DEF LiveInv, Straight
      <4>2. Wrap(o + n) = o + n
        <5> HIDE DEF g, o
        <5> QED
          BY <2>1, <2>2, <4>1 DEF Wrap
      <4> QED
        BY <1>2, <2>3, <2>4, <3>1, <4>1, <4>2
    <3>2. CASE f # e
      BY <1>2, <2>3, <3>2 DEF LiveInv, Straight
    <3> QED
      BY <3>1, <3>2
  <2>6. LiveBytesKept'
    <3> SUFFICES ASSUME NEW f \in Ends, got'[f] <= IntMax,
                        NEW i \in Len(out'[f]) + 1 .. got'[f]
                 PROVE  buf'[f][(i - 1) % BufLen] = i
      BY DEF LiveBytesKept
    <3>1. i \in Len(out[f]) + 1 .. got[f]
      <4>1. CASE f = e
        BY <1>2, <2>1, <2>2, <2>4, <4>1
      <4>2. CASE f # e
        BY <1>2, <2>3, <4>2
      <4> QED
        BY <4>1, <4>2
    <3> QED
      BY <1>2, <3>1 DEF LiveInv, LiveBytesKept
  <2> QED
    BY <2>5, <2>6
<1> QED
  BY <1>1, <1>2 DEF SendStep

-----------------------------------------------------------------------------
(* What the ends receive when they take whatever is sent to them.          *)

(* Where the bytes that come from e are sent.                              *)
Sending(e) == IF e = Client THEN "toBackend" ELSE "toClient"

(* What was just received from e lies in one piece where the send that     *)
(* follows will take it.                                                   *)
Handed(e) ==
  /\ Other(e) \in wr /\ Offset(r[e]) >= 0
  /\ \A k \in 0 .. Pending(e) - 1 :
       buf[e][Offset(r[e]) + k] = Len(out[e]) + 1 + k

(* Between a recv and the send after it, and then only, bytes are in hand. *)
InHand ==
  Taken => /\ Faithful
           /\ \A e \in Ends :
                /\ room[e] = Room
                /\ \/ Pending(e) = 0
                   \/ pc \in {"closed", "wild"}
                   \/ pc = Sending(e) /\ Handed(e)

(* Nothing is in hand before the first byte.                               *)
LEMMA InHandInit == Init => InHand
BY DEF Init, InHand, Faithful, Pending

(* A step that leaves rings and masks alone does so with what is in hand,  *)
(* if it gives the sockets no less room.                                   *)
LEMMA InHandStays ==
  ASSUME InHand, UNCHANGED <<ring, tunnel, wr>>,
         pc' = pc \/ pc' \in {"closed", "wild"},
         \A e \in Ends : room'[e] = room[e] \/ room'[e] = Room
  PROVE  InHand'
BY DEF ring, tunnel, InHand, Taken, Faithful, Pending, Handed

(* Where nothing is in hand, masks and pc may change.                      *)
LEMMA NothingInHand ==
  ASSUME InHand, UNCHANGED <<ring, tunnel, room>>,
         \A e \in Ends : pc # Sending(e) \/ Pending(e) = 0,
         pc \notin {"closed", "wild"}
  PROVE  InHand'
<1>1. Taken => Faithful /\ \A e \in Ends : room[e] = Room /\ Pending(e) = 0
  BY DEF InHand
<1>2. UNCHANGED <<w, r, buf, got, out, slow>>
  BY DEF ring, tunnel
<1> QED
  BY <1>1, <1>2 DEF InHand, Taken, Faithful, Pending

(* Equal positions are what an empty ring means.                           *)
LEMMA EmptyRing ==
  ASSUME NEW x \in Ints, NEW y \in Ints, Wrap(x - y) = 0
  PROVE  x = y
BY RelayAssumption DEF Ints, Wrap

(* A recv into an empty ring, and the send that follows takes it.          *)
LEMMA RecvHands ==
  ASSUME RelayInv, InHand, UNCHANGED tunnel, NEW e \in Ends,
         NEW here \in {"fromClient", "fromBackend"},
         RecvStep(e, here, Sending(e))
  PROVE  InHand'
<1>1. pc \notin {"closed", "wild"} /\ \A f \in Ends : pc # Sending(f)
  BY DEF RecvStep, Sending
<1>2. CASE UNCHANGED <<w, r, buf, got, out>>
  BY <1>1, <1>2, NothingInHand DEF ring, RecvStep
<1>3. CASE /\ CanRecv(e) /\ Offset(w[e]) >= 0 /\ inbox[e] > 0
           /\ Received(e, Least(WannaRecv(e), inbox[e]))
           /\ pc' = Sending(e)
  <2> SUFFICES ASSUME Taken'
               PROVE  /\ Faithful'
                      /\ \A f \in Ends :
                           /\ room'[f] = Room
                           /\ \/ Pending(f)' = 0
                              \/ pc' = Sending(f) /\ Handed(f)'
    BY DEF InHand
  <2> DEFINE n  == Least(WannaRecv(e), inbox[e])
             at == Offset(w[e])
             g  == got[e]
  <2>1. Faithful /\ \A f \in Ends : room[f] = Room /\ Pending(f) = 0
    BY <1>1 DEF InHand, Taken, tunnel
  <2>2. /\ BufLen \in Nat \ {0} /\ inbox[e] \in Nat /\ g \in Nat
        /\ Len(out[e]) \in Nat
        /\ w[e] \in Ints /\ r[e] \in Ints /\ buf[e] \in [Cells -> Nat]
    BY RelayAssumption, LenProperties DEF RelayInv, TypeOK, Ints
  <2>3. Used(e) = 0 /\ Len(out[e]) = g
    BY <2>1, <2>2 DEF RelayInv, RingAccounts, Pending
  <2>4. w[e] = r[e] /\ at = Offset(r[e]) /\ at \in 0 .. BufLen - 1
    BY <1>3, <2>2, <2>3, EmptyRing, OffsetRange DEF Used
  <2>5. n \in 0 .. BufLen
    BY <1>3, <2>2, <2>3 DEF Least, WannaRecv
  <2> HIDE DEF n
  <2>6. /\ got'[e] = g + n /\ wr' = wr \cup {Other(e)}
        /\ buf'[e] = Dup(Stored(buf[e], at, n, g + 1), at, n)
        /\ \A f \in Ends : f # e => got'[f] = got[f]
    BY <1>3 DEF Received, Asked, RelayInv, TypeOK, n
  <2>7. UNCHANGED <<r, out, room>>
    BY DEF RecvStep
  <2>8. Holds(buf'[e], buf[e], at, n, g + 1)
    <3> HIDE DEF at
    <3>1. g + 1 \in Nat
      BY <2>2
    <3> QED
      BY <2>2, <2>4, <2>5, <2>6, <3>1, StoredThenDup
  <2>9. Pending(e)' = n
    BY <2>2, <2>3, <2>5, <2>6, <2>7 DEF Pending
  <2>10. Handed(e)'
    <3>1. \A k \in 0 .. n - 1 : buf'[e][at + k] = g + 1 + k
      BY <2>8 DEF Holds
    <3>2. Other(e) \in wr' /\ Offset(r'[e]) = at /\ at >= 0
      BY <1>3, <2>4, <2>6, <2>7
    <3> QED
      BY <2>3, <2>7, <2>9, <3>1, <3>2 DEF Handed
  <2>11. \A f \in Ends : f # e => Pending(f)' = 0
    BY <2>1, <2>6, <2>7 DEF Pending
  <2> QED
    BY <1>3, <2>1, <2>7, <2>10, <2>11 DEF Faithful
<1> QED
  BY <1>2, <1>3 DEF RecvStep

(* A send takes all that is in hand.                                       *)
LEMMA SendTakesAll ==
  ASSUME RelayInv, InHand, UNCHANGED tunnel, NEW e \in Ends, NEW next,
         next \notin {Sending(e), "closed", "wild"},
         SendStep(e, Sending(e), next)
  PROVE  InHand'
<1> SUFFICES ASSUME Taken'
             PROVE  /\ Faithful'
                    /\ \A f \in Ends :
                         /\ room'[f] = Room
                         /\ \/ Pending(f)' = 0
                            \/ pc' \in {"closed", "wild"}
  BY DEF InHand
<1>1. /\ Taken /\ Faithful /\ ~slow /\ BufLen <= Room
      /\ \A f \in Ends : room[f] = Room
      /\ \A f \in Ends : f # e => Pending(f) = 0
      /\ Pending(e) = 0 \/ Handed(e)
  BY DEF InHand, Taken, tunnel, SendStep, Sending, Ends
<1>2. /\ BufLen \in Nat \ {0} /\ Room \in Nat
      /\ got[e] \in Nat /\ Len(out[e]) \in Nat
      /\ Used(e) = Pending(e) /\ Pending(e) \in 0 .. BufLen
  BY RelayAssumption, LenProperties DEF RelayInv, TypeOK, RingAccounts
<1>3. CASE UNCHANGED <<r, out, room>>
           /\ (Pending(e) = 0 \/ pc' \in {"closed", "wild"})
  BY <1>1, <1>3 DEF SendStep, Faithful, Pending
<1>4. CASE CanSend(e) /\ Offset(r[e]) >= 0 /\ Sent(e, Sendable(e))
  <2> DEFINE n     == Pending(e)
             o     == Len(out[e])
             piece == Piece(e, n)
  <2>1. n > 0 /\ n \in 1 .. BufLen /\ Handed(e)
    BY <1>1, <1>2, <1>4 DEF CanSend
  <2>2. Sendable(e) = n
    BY <1>1, <1>2, OtherEnd DEF Sendable, Least
  <2>3. /\ out'[e] = out[e] \o piece
        /\ \A f \in Ends : f # e => out'[f] = out[f]
        /\ room' = room /\ got' = got
    BY <1>1, <1>4, <2>2 DEF Sent, SendStep, RelayInv, TypeOK, Piece
  <2> HIDE DEF n
  <2>4. /\ Len(out'[e]) = o + n
        /\ \A i \in 1 .. o : out'[e][i] = out[e][i]
        /\ \A i \in 1 .. n : out'[e][o + i] = piece[i]
        /\ out'[e] \in Seq(Nat) /\ out[e] \in Seq(Nat)
    <3>1. out[e] \in Seq(Nat)
      BY DEF RelayInv, TypeOK
    <3>3. /\ out[e] \o piece \in Seq(Nat)
          /\ Len(out[e] \o piece) = o + n
          /\ Extends(out[e] \o piece, out[e], piece) /\ Len(piece) = n
      BY <1>4, <2>1, PieceSent
    <3> QED
      BY <2>3, <3>1, <3>3 DEF Extends
  <2>5. Pending(e)' = 0
    <3>1. got'[e] = got[e] /\ Len(out'[e]) = Len(out[e]) + n
      BY <2>3, <2>4
    <3>2. n = got[e] - Len(out[e])
      BY DEF Pending, n
    <3> QED
      BY <1>2, <3>1, <3>2 DEF Pending
  <2>6. \A i \in DOMAIN out'[e] : out'[e][i] = i
    <3> SUFFICES ASSUME NEW i \in 1 .. o + n PROVE out'[e][i] = i
      BY <2>4
    <3>1. CASE i <= o
      <4>1. i \in DOMAIN out[e]
        BY <1>2, <2>4, <3>1
      <4> QED
        BY <1>1, <1>2, <2>4, <3>1, <4>1, SMTT(40) DEF Faithful
    <3>2. CASE ~(i <= o)
      <4>1. PICK k \in 1 .. n : i = o + k
        <5>1. i - o \in 1 .. n /\ i = o + (i - o)
          BY <1>2, <2>1, <3>2
        <5> QED
          BY <5>1
      <4>2. piece[k] = buf[e][Offset(r[e]) + (k - 1)]
        <5>1. Offset(r[e]) \in Int
          BY <1>4, OffsetRange, RelayAssumption DEF RelayInv, TypeOK, Ints
        <5>2. Offset(r[e]) + k - 1 = Offset(r[e]) + (k - 1)
          BY <2>1, <4>1, <5>1
        <5> QED
          BY <5>2 DEF Piece
      <4>3. buf[e][Offset(r[e]) + (k - 1)] = o + 1 + (k - 1)
        <5>1. k - 1 \in 0 .. n - 1
          BY <2>1
        <5> QED
          BY <2>1, <5>1 DEF Handed, n
      <4>4. o + 1 + (k - 1) = o + k
        BY <1>2, <2>1
      <4> QED
        BY <2>4, <4>1, <4>2, <4>3, <4>4
    <3> QED
      BY <3>1, <3>2
  <2>7. \A f \in Ends : f # e => Pending(f)' = 0
    BY <1>1, <2>3 DEF Pending
  <2> QED
    BY <1>1, <2>3, <2>5, <2>6, <2>7 DEF Faithful
<1> QED
  <2>1. Pending(e) > 0 => CanSend(e) /\ Offset(r[e]) >= 0
    BY <1>1, <1>2 DEF Handed, CanSend
  <2>2. room[Other(e)] = Room /\ Room > 0
    BY <1>1, OtherEnd, RelayAssumption
  <2> QED
    BY <1>2, <1>3, <1>4, <2>1, <2>2 DEF SendStep, CanSend

(* All of it at the start.                                                 *)
LEMMA LiveInit == Init => LiveInv /\ InHand
BY RelayInit, StraightInit, InHandInit DEF LiveInv

(* A step is one of the four, or it leaves the rings alone: one of the     *)
(* relay's between two passes, or one of the ends and the kernel.          *)
LEMMA StepKinds ==
  ASSUME [Next]_vars
  PROVE  /\ UNCHANGED tunnel
         /\ \/ FromClient \/ FromBackend \/ ToBackend \/ ToClient
            \/ UNCHANGED <<ring, room>> /\ pc \in {"select", "except"}
            \/ /\ UNCHANGED <<ring, wr>> /\ pc' = pc
               /\ \A e \in Ends : TypeOK => room'[e] = room[e] \/ room'[e] = Room
<1>1. CASE Select \/ Idle \/ SelectFails \/ Again \/ StaleBit \/ Urgent
  BY <1>1 DEF Select, Idle, SelectFails, Again, StaleBit, Urgent, Close, ring, kernel,
     Next, Pass, Fails, Ended, EndStep, vars, tunnel
<1>2. ASSUME NEW e \in Ends, EndStep(e)
      PROVE  /\ UNCHANGED <<ring, wr>> /\ pc' = pc /\ UNCHANGED tunnel
             /\ TypeOK => \A f \in Ends : room'[f] = room[f] \/ room'[f] = Room
  BY <1>2 DEF EndStep, Offer, Drain, CloseEnd, ring, TypeOK
<1>3. CASE Ended \/ UNCHANGED vars
  BY <1>3 DEF Ended, vars, ring, tunnel
<1>4. CASE FromClient \/ FromBackend \/ ToBackend \/ ToClient
  BY <1>4 DEF Next, Pass, Fails, Ended, EndStep, vars, tunnel
<1> QED
  BY <1>1, <1>2, <1>3, <1>4 DEF Next, Pass, Fails

(* Until its positions pass the largest int, a recv never overwrites a     *)
(* byte the ring still owes, and leaves each where the ring's arithmetic   *)
(* looks for it: for rings of every length, and sends that fall behind.    *)
THEOREM LiveBytesStay == Spec => []LiveBytesKept
<1>1. LiveInv /\ [Next]_vars => Straight' /\ LiveBytesKept'
  <2> SUFFICES ASSUME LiveInv, [Next]_vars PROVE Straight' /\ LiveBytesKept'
    OBVIOUS
  <2>1. CASE FromClient \/ FromBackend
    BY <2>1, RecvKeepsLive DEF FromClient, FromBackend, Ends, Phases
  <2>2. CASE ToBackend \/ ToClient
    BY <2>2, SendKeepsLive DEF ToBackend, ToClient, Ends, Phases
  <2>3. CASE UNCHANGED ring
    BY <2>3, StraightStutter
  <2> QED
    BY <2>1, <2>2, <2>3, StepKinds
<1> QED
  BY <1>1, LiveInit, RelayAccounts, PTL DEF Spec, LiveInv

(* What is in hand is as InHand says, wherever the relay is.               *)
THEOREM InHandAlways == Spec => []InHand
<1>1. RelayInv /\ InHand /\ [Next]_vars => InHand'
  <2> SUFFICES ASSUME RelayInv, InHand, [Next]_vars PROVE InHand'
    OBVIOUS
  <2>1. UNCHANGED tunnel
    BY StepKinds
  <2>2. /\ Sending(Client) = "toBackend" /\ Sending(Backend) = "toClient"
        /\ Client \in Ends /\ Backend \in Ends
    BY DEF Sending, Client, Backend, Ends
  <2>3. CASE FromClient \/ FromBackend
    BY <2>1, <2>2, <2>3, RecvHands DEF FromClient, FromBackend
  <2>4. CASE ToBackend \/ ToClient
    BY <2>1, <2>2, <2>4, SendTakesAll DEF ToBackend, ToClient
  <2>5. CASE UNCHANGED <<ring, room>> /\ pc \in {"select", "except"}
    BY <2>1, <2>5, NothingInHand DEF Sending, InHand
  <2>6. CASE /\ UNCHANGED <<ring, wr>> /\ pc' = pc
             /\ \A e \in Ends : room'[e] = room[e] \/ room'[e] = Room
    BY <2>1, <2>6, InHandStays
  <2> QED
    BY <2>3, <2>4, <2>5, <2>6, StepKinds DEF RelayInv
<1> QED
  BY <1>1, LiveInit, RelayAccounts, PTL DEF Spec

(* When the ends take whatever is sent to them and a socket takes a whole  *)
(* ring, each end receives what the other sent, in order, for any number   *)
(* of bytes: also when the positions wrap, since the ring is then empty    *)
(* whenever something is received.                                         *)
THEOREM TakenIsFaithful == Spec => []FaithfulWhenTaken
<1>1. InHand => FaithfulWhenTaken
  BY DEF InHand, FaithfulWhenTaken
<1> QED
  BY <1>1, InHandAlways, PTL

(* When the relay closes, what is in hand could not be sent any more.      *)
LEMMA ClosedStep ==
  ASSUME RelayInv, InHand, Taken, [Next]_vars, pc # "closed", pc' = "closed", NEW e \in Ends
  PROVE  Other(e) \in eof \/ Pending(e) = 0
<1>1. Pending(e) = 0 \/ pc = "wild" \/ pc = Sending(e)
  BY DEF InHand
<1>2. pc # "wild"
  BY DEF Next, Pass, Fails, Ended, Select, Idle, FromClient, ToBackend, FromBackend, ToClient,
     Again, SelectFails, StaleBit, Urgent, RecvStep, SendStep, vars
<1>3. CASE pc = Sending(e)
  <2>1. e = Client \/ e = Backend
    BY DEF Ends
  <2>2. ToBackend \/ ToClient
    BY <1>3 DEF Next, Pass, Fails, Ended, EndStep, Offer, Drain, CloseEnd, Select, Idle,
       FromClient, FromBackend, Again, SelectFails, StaleBit, Urgent, RecvStep, vars, Sending
  <2>3. SendStep(e, Sending(e), pc') \/ Other(e) \in eof
    BY <1>3, <2>1, <2>2 DEF ToBackend, ToClient, SendStep, Sending, Client, Backend
  <2> QED
    BY <1>3, <2>1, <2>2 DEF ToBackend, ToClient, SendStep, Sending, Client, Backend
<1> QED  BY <1>1, <1>2, <1>3

(* When the ends take whatever is sent to them and a socket takes a whole  *)
(* ring at once, the relay has sent all it received when it closes, but    *)
(* to an end that has gone.                                                *)
THEOREM ClosedIsDrained == BufLen <= Room => (Spec => ClosesDrained)
<1> SUFFICES ASSUME BufLen <= Room  PROVE Spec => ClosesDrained
  OBVIOUS
<1>1. RelayInv /\ InHand /\ [Next]_vars =>
        [Easy /\ pc # "closed" /\ pc' = "closed" =>
           \A e \in Ends : Other(e) \in eof \/ Pending(e) = 0]_vars
  BY ClosedStep DEF Easy, Taken
<1> QED
  BY <1>1, InHandAlways, RelayAccounts, PTL DEF ClosesDrained, Spec

-----------------------------------------------------------------------------
(* An end is asked for in the mask for as long as there is something for   *)
(* it in the ring.                                                         *)
WrKeeps ==
  Easy => \A e \in Ends : room[e] = Room /\ (Pending(e) = 0 \/ Other(e) \in wr)

LEMMA RecvAsks ==
  ASSUME RelayInv, WrKeeps, UNCHANGED tunnel, NEW e \in Ends, NEW here, NEW next,
         RecvStep(e, here, next)
  PROVE  WrKeeps'
<1>1. Easy' <=> Easy
  BY DEF Easy, tunnel, Watched, Fd
<1>2. CASE UNCHANGED <<wr, got>>
  BY <1>1, <1>2 DEF RecvStep, WrKeeps, Pending
<1>3. CASE wr' = wr \cup {Other(e)} /\ \A f \in Ends : f # e => got'[f] = got[f]
  BY <1>1, <1>3 DEF RecvStep, WrKeeps, Pending
<1> QED
  BY <1>2, <1>3 DEF RecvStep, Received, Asked, RelayInv, TypeOK

LEMMA SendAsks ==
  ASSUME RelayInv, RelayInv', WrKeeps, UNCHANGED tunnel, NEW e \in Ends, NEW here, NEW next,
         SendStep(e, here, next)
  PROVE  WrKeeps'
<1>1. Easy' <=> Easy
  BY DEF Easy, tunnel, Watched, Fd
<1>2. Used(e) = Pending(e) /\ Used(e)' = Pending(e)'
  BY DEF RelayInv, RingAccounts
<1>3. \A f \in Ends : f # e => Other(f) # Other(e)
  BY DEF Other, Ends, Client, Backend
<1>4. CASE UNCHANGED <<r, out, room>> /\ (wr' = wr \/ (Used(e) = 0 /\ wr' = wr \ {Other(e)}))
  <2>1. \A f \in Ends : Pending(f)' = Pending(f)
    BY <1>4 DEF SendStep, Pending
  <2>2. \A f \in Ends : Other(f) \in wr => Other(f) \in wr' \/ Pending(f) = 0
    BY <1>2, <1>3, <1>4
  <2> QED
    BY <1>1, <1>4, <2>1, <2>2 DEF WrKeeps
<1>5. CASE CanSend(e) /\ Sent(e, Sendable(e))
  <2>1. \A f \in Ends : f # e => Pending(f)' = Pending(f)
    BY <1>5 DEF Sent, SendStep, Pending, RelayInv, TypeOK
  <2>2. wr' = wr \/ (r'[e] = w[e] /\ wr' = wr \ {Other(e)})
    BY <1>5 DEF Sent
  <2>3. r'[e] = w[e] => Pending(e)' = 0
    <3>1. w'[e] = w[e] /\ w[e] \in Ints
      BY DEF SendStep, RelayInv, TypeOK, Ints
    <3>2. r'[e] = w[e] => Used(e)' = 0
      BY <3>1, RelayAssumption DEF Used, Wrap, Ints
    <3> QED  BY <1>2, <3>2
  <2>4. Easy => room' = room
    BY <1>5 DEF Sent, Easy
  <2>5. Other(e) \in wr
    BY <1>5 DEF CanSend
  <2>6. \A f \in Ends : Other(f) \in wr' \/ Pending(f)' = 0 \/ (f # e /\ Other(f) \notin wr)
    BY <1>3, <2>2, <2>3, <2>5
  <2> QED
    BY <1>1, <2>1, <2>4, <2>6 DEF WrKeeps
<1> QED
  BY <1>4, <1>5 DEF SendStep

(* A pass, and what the ends do, keep the mask true.                       *)
LEMMA WrStays ==
  ASSUME RelayInv, RelayInv', WrKeeps, [Next]_vars
  PROVE  WrKeeps'
<1>1. UNCHANGED tunnel /\ (Easy' <=> Easy)
  BY StepKinds DEF Easy, tunnel, Watched, Fd
<1>2. CASE FromClient \/ FromBackend
  BY <1>1, <1>2, RecvAsks DEF FromClient, FromBackend, Ends
<1>3. CASE ToBackend \/ ToClient
  BY <1>1, <1>3, SendAsks DEF ToBackend, ToClient, Ends
<1>4. CASE UNCHANGED <<ring, wr>> /\ \A e \in Ends : room'[e] = room[e] \/ room'[e] = Room
  BY <1>1, <1>4 DEF WrKeeps, Pending, ring
<1>5. CASE Select
  <2>1. UNCHANGED <<got, out, room>> /\ wr' = Writable \cup (wr \cap Untouched)
    BY <1>5 DEF Select, ring, kernel
  <2>2. Easy => \A e \in Ends : Other(e) \in Watched
    BY OtherEnd DEF Easy
  <2>3. ASSUME Easy, NEW e \in Ends, Other(e) \in wr  PROVE Other(e) \in wr'
    <3>1. room[Other(e)] = Room /\ Room > 0
      BY <2>3, OtherEnd, RelayAssumption DEF WrKeeps
    <3> QED  BY <2>1, <2>2, <2>3, <3>1 DEF Writable
  <2> QED
    BY <1>1, <2>1, <2>3 DEF WrKeeps, Pending
<1>6. CASE Idle \/ SelectFails \/ Again \/ StaleBit \/ Urgent
  BY <1>1, <1>6 DEF Idle, SelectFails, Again, StaleBit, Urgent, Close, ring, kernel, WrKeeps, Pending
<1>7. ASSUME NEW e \in Ends, EndStep(e)  PROVE WrKeeps'
  <2>1. UNCHANGED <<ring, wr>> /\ \A f \in Ends : room'[f] = room[f] \/ room'[f] = Room
    BY <1>7 DEF EndStep, Offer, Drain, CloseEnd, RelayInv, TypeOK
  <2> QED  BY <1>4, <2>1
<1>8. CASE Ended \/ UNCHANGED vars
  BY <1>1, <1>4, <1>8 DEF Ended, vars, ring
<1> QED
  BY <1>2, <1>3, <1>5, <1>6, <1>7, <1>8 DEF Next, Pass, Fails

(* The idle time-out finds nothing to receive, and nothing to send, in a   *)
(* tunnel between ends that take what they are sent: whatever the ring,    *)
(* the room of the sockets and the positions are.                          *)
THEOREM IdleIsDone == Spec => IdleWhenDone
<1>1. Init => WrKeeps
  BY DEF Init, WrKeeps, Pending
<1>2. RelayInv /\ RelayInv' /\ WrKeeps /\ [Next]_vars => WrKeeps'
  BY WrStays
<1>3. ASSUME RelayInv, WrKeeps, Easy, Idle, NEW e \in Ends
      PROVE  inbox[e] = 0 /\ (Pending(e) = 0 \/ room[Other(e)] = 0)
  <2>1. e \notin Readable /\ Other(e) \notin Writable /\ e \in Watched /\ Other(e) \in Watched
    BY <1>3, OtherEnd DEF Idle, Easy
  <2>2. inbox[e] = 0
    BY <1>3, <2>1 DEF Readable, RelayInv, TypeOK
  <2>3. room[Other(e)] = Room /\ Room > 0
    BY <1>3, OtherEnd, RelayAssumption DEF WrKeeps
  <2>4. Other(e) \notin wr
    BY <2>1, <2>3 DEF Writable
  <2> QED  BY <1>3, <2>2, <2>4 DEF WrKeeps
<1>4. RelayInv /\ WrKeeps /\ [Next]_vars =>
        [Easy /\ Idle => \A e \in Ends : /\ inbox[e] = 0
                                         /\ (Pending(e) = 0 \/ room[Other(e)] = 0)]_vars
  BY <1>3
<1> QED
  BY <1>1, <1>2, <1>4, RelayAccounts, PTL DEF Spec, IdleWhenDone
=============================================================================
