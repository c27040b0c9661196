---------------------------- MODULE HandlerProofs ----------------------------
(***************************************************************************)
(* Proofs about what the handlers of dynamic documents rely on: Gateway,   *)
(* for any number of sessions, requests, descriptors and faults, and       *)
(* SharedVars, for any number of workers, clients, changes and restarts.   *)
(***************************************************************************)
EXTENDS Gateway, SharedVars, Integers, SequenceTheorems, TLAPS

-----------------------------------------------------------------------------
(* GATEWAY.  Until a number is used that is another's, a client gets the   *)
(* whole answer to its own request but for recorded causes, and nothing is *)
(* open, or waited for, that is nobody's.                                  *)

PCs    == {"idle", "plain", "pair", "fork", "parent", "send", "peek", "begin", "first",
           "more", "over", "close", "wait", "done", "ending", "gone"}
Piece  == [to : Nat, part : {0, 1, 2, 9, 500}]
Flags  == BOOLEAN
Wire   == [unread : Seq(Piece), rest : Seq(Piece), up : Flags]
Opened == {Free} \cup {File(s, w) : s \in Sessions, w \in Ways \cup {"child", "left"}}

ThreadTyped ==
  /\ pc \in [Sessions -> PCs]
  /\ way \in [Sessions -> {"none", "plain"} \cup Ways]
  /\ asked \in [Sessions -> Nat]
  /\ got \in [Sessions -> Seq(Piece)] /\ call \in [Sessions -> Seq(Piece)]
  /\ DOMAIN why = Sessions
  /\ skewed \in [Sessions -> SUBSET Instances]

Typed ==
  /\ ThreadTyped
  /\ number \in [Sessions -> [Ways -> Fds \cup {0}]]
  /\ joined \in [Sessions -> [Instances -> Flags]]
  /\ pair \in [Sessions -> (Fds \cup {0}) \X (Fds \cup {0})]
  /\ file \in [Fds -> Opened]
  /\ wire \in [Sessions -> [Ways -> Wire]]
  /\ holders \in [Sessions -> SUBSET Sessions]
  /\ child \in [Sessions -> {"none", "forked", "runs", "hangs", "ended"}]
  /\ shut \in [Sessions -> Flags]

(* The descriptors that are open for a session.                            *)
In(files, s, w) == {f \in Fds : files[f] = File(s, w)}
Of(s, w) == In(file, s, w)
Open(s, w) == number[s][w] \in Of(s, w)

Forking == {"fork", "parent"}
Running == {"parent", "send", "first", "more", "over", "close", "wait"}

(* What a thread does follows from how the request is answered.            *)
Way(s) ==
  /\ pc[s] = "plain" => way[s] = "plain"
  /\ pc[s] \in {"pair", "fork", "parent", "close", "wait"} => way[s] = "fork"
  /\ pc[s] \in {"peek", "begin"} => way[s] \in Instances
  /\ pc[s] = "send" => way[s] \in {"fork", "fcgi"}
  /\ pc[s] \in {"first", "more"} => way[s] \in Ways
  /\ pc[s] = "over" => way[s] \in {"fork", "scgi"}
  /\ pc[s] \in {"idle", "ending", "gone"} => way[s] = "none"

Files(s) ==
  /\ \A f \in Of(s, "fork") : pair[s][1] = f /\ way[s] = "fork"
                              /\ pc[s] \in {"fork", "parent", "send", "first", "more", "close"}
  /\ \A f \in Of(s, "child") : pair[s][2] = f /\ pc[s] \in Forking
  /\ \A w \in Instances : \A f \in Of(s, w) : number[s][w] = f /\ pc[s] # "gone"
  /\ pc[s] \in Forking => pair[s][1] \in Of(s, "fork") /\ pair[s][2] \in Of(s, "child")
  /\ way[s] = "fork" /\ pc[s] \in Running \ {"wait"} => number[s]["fork"] = pair[s][1]

Child(s) ==
  /\ child[s] = "none" <=> ~(way[s] = "fork" /\ pc[s] \in Running)
  /\ way[s] = "fork" /\ Open(s, "fork") /\ pc[s] \in Running /\ s \notin holders[s]
       => wire[s]["fork"].rest = << >>

(* A child that holds an end is there.                                     *)
HoldersRun == \A s \in Sessions : \A t \in holders[s] : child[t] \notin {"none", "ended"}

-----------------------------------------------------------------------------
(* What has been sent and is to come of answers is of the request of the   *)
(* session, and the last record of FastCGI ends one.                       *)
Stream(s, w) == wire[s][w].unread \o wire[s][w].rest
OwnParts(q, n) == \A i \in 1 .. Len(q) : q[i].to \in {0, n}
Reading == {"first", "more"}

Streams(s) ==
  /\ wire[s]["fcgi"].up => LET q == Stream(s, "fcgi") IN q # << >> => q[Len(q)].part = 0
  /\ \A w \in Instances :
       /\ ~wire[s][w].up => wire[s][w].rest = << >>
       /\ (w \notin skewed[s] /\ Open(s, w) /\ ~(way[s] = w /\ pc[s] \in Reading)) => Stream(s, w) = << >>
       /\ (w \notin skewed[s] /\ Open(s, w) /\ way[s] = w /\ pc[s] \in Reading) =>
            LET q == Stream(s, w)
            IN OwnParts(q, asked[s]) /\ (w = "fcgi" => \A i \in 1 .. Len(q) - 1 : q[i].part # 0)
  /\ way[s] = "fork" /\ pc[s] \in Running => OwnParts(Stream(s, "fork"), asked[s])
  /\ way[s] = "fcgi" /\ pc[s] \in Reading /\ Open(s, "fcgi") /\ wire[s]["fcgi"].up =>
       Stream(s, "fcgi") # << >>

(* What the thread has, and the client.                                    *)
Has(s) ==
  /\ way[s] \notin skewed[s] => OwnParts(call[s], asked[s]) /\ OwnParts(got[s], asked[s])
  /\ way[s] = "fcgi" \/ pc[s] \notin {"first", "more", "over"} => call[s] = << >>
  /\ pc[s] \notin {"more", "over", "close", "wait", "done"} => got[s] = << >>
  /\ pc[s] = "over" => call[s] # << >>

(* Nothing has happened to the request.                                    *)
Fine(s) == why[s] = {} /\ ~shut[s] /\ way[s] \notin skewed[s]

Total(s) == got[s] \o call[s] \o Stream(s, way[s])

Underway(s) ==
  \/ way[s] = "fork" /\ pc[s] \in {"parent", "send"} /\ Open(s, "fork")
  \/ pc[s] \in Reading /\ Open(s, way[s])

Totals(s) ==
  Fine(s) =>
    /\ Underway(s) => Total(s) \in Answers(s, way[s])
    /\ pc[s] = "more" => got[s] # << >>
    /\ (way[s] = "fcgi" /\ pc[s] \in Reading) => \A i \in 1 .. Len(got[s]) : got[s][i].part \in {1, 2}
    /\ pc[s] = "over" => got[s] \o call[s] \in Answers(s, way[s])
    /\ pc[s] \in {"close", "wait", "done"} => Whole(s)

Sound(s) == Way(s) /\ Files(s) /\ Child(s) /\ Streams(s) /\ Has(s) /\ Totals(s)

GatewayInv == ~hit => Typed /\ HoldersRun /\ \A s \in Sessions : Sound(s)

-----------------------------------------------------------------------------
LEMMA WaysAre ==
  /\ Ways = {"fork", "fcgi", "scgi"} /\ Instances = {"fcgi", "scgi"} /\ Records = {"fcgi"}
  /\ Fds \subseteq Nat /\ 0 \notin Fds /\ "nobody" \notin Sessions
BY GatewayAssumption DEF Ways, Instances, Records

LEMMA TrueFalse == FALSE \in Flags /\ TRUE \in Flags
BY Zenon DEF Flags

(* What a session has, and what is open for it, are as they were.          *)
Same(t) ==
  /\ pc'[t] = pc[t] /\ way'[t] = way[t] /\ asked'[t] = asked[t] /\ got'[t] = got[t]
  /\ call'[t] = call[t] /\ number'[t] = number[t] /\ joined'[t] = joined[t]
  /\ pair'[t] = pair[t] /\ wire'[t] = wire[t] /\ child'[t] = child[t] /\ shut'[t] = shut[t]
  /\ why'[t] = why[t] /\ skewed'[t] = skewed[t]
  /\ t \in holders'[t] <=> t \in holders[t]
  /\ \A w \in Ways \cup {"child"} : Of(t, w)' = Of(t, w)

LEMMA SameSound ==
  ASSUME Typed, NEW t \in Sessions, Same(t), Sound(t)
  PROVE  Sound(t)'
<1> USE WaysAre
<1>1. Way(t)'
  BY DEF Sound, Same, Way
<1>2. \A w \in Ways : Open(t, w)' <=> Open(t, w)
  BY DEF Same, Open
<1>3. \A w \in Ways : Stream(t, w)' = Stream(t, w)
  BY DEF Same, Stream
<1>4. Files(t)'
  BY DEF Sound, Same, Files
<1>5. Child(t)'
  BY <1>2 DEF Sound, Same, Child
<1>6. Has(t)'
  BY DEF Sound, Same, Has, OwnParts
<1>7. Streams(t)'
  BY <1>2, <1>3 DEF Sound, Same, Streams, OwnParts
<1>8. Totals(t)'
  <2>1. Fine(t)' <=> Fine(t)
    BY DEF Same, Fine
  <2>2. \A w : Answers(t, w)' = Answers(t, w)
    BY DEF Same, Answers, Out
  <2>3. Whole(t)' <=> Whole(t)
    BY DEF Same, Whole, Out
  <2>4. pc[t] \in Reading => way[t] \in Ways
    BY DEF Sound, Way, Reading
  <2>5. Underway(t)' <=> Underway(t)
    BY <1>2, <2>4 DEF Same, Underway
  <2>6. Underway(t) => Total(t)' = Total(t)
    <3>1. Underway(t) => way[t] \in Ways
      BY <2>4 DEF Underway
    <3> QED  BY <3>1, <1>3 DEF Same, Total
  <2>7. pc'[t] = pc[t] /\ way'[t] = way[t] /\ got'[t] = got[t] /\ call'[t] = call[t]
    BY DEF Same
  <2>8. Totals(t)
    BY DEF Sound
  <2> HIDE DEF Reading
  <2> QED  BY <2>1, <2>2, <2>3, <2>5, <2>6, <2>7, <2>8 DEF Totals
<1> QED  BY <1>1, <1>4, <1>5, <1>6, <1>7, <1>8 DEF Sound

-----------------------------------------------------------------------------
(* Descriptors that are opened and closed.                                 *)
Kinds == Ways \cup {"child"}

LEMMA FilesApart ==
  ASSUME NEW s \in Sessions, NEW t \in Sessions, NEW w \in Kinds, NEW x \in Kinds
  PROVE  /\ File(s, w) \in Opened /\ Free \in Opened
         /\ File(s, w) # Free /\ File(s, w).of = s /\ File(s, w).way = w
         /\ File(s, w) = File(t, x) => s = t /\ w = x
BY WaysAre DEF File, Free, Opened, Kinds

(* What a connect leaves behind is none of these.                          *)
LEMMA LeftApart ==
  ASSUME NEW s \in Sessions
  PROVE  /\ File(s, "left") \in Opened /\ File(s, "left") # Free
         /\ \A t \in Sessions, x \in Kinds : File(s, "left") # File(t, x)
BY WaysAre DEF File, Free, Opened, Kinds

LEMMA CloseFiles ==
  ASSUME NEW files \in [Fds -> Opened], NEW new, NEW c, NEW s \in Sessions,
         new = [f \in Fds |-> IF f \in c THEN Free ELSE files[f]],
         \A f \in c \cap Fds : files[f].of \in {s, "nobody"}
  PROVE  /\ new \in [Fds -> Opened]
         /\ \A x \in Kinds : In(new, s, x) = In(files, s, x) \ c
         /\ \A t \in Sessions, x \in Kinds : t # s => In(new, t, x) = In(files, t, x)
<1>1. new \in [Fds -> Opened]
  BY DEF Opened
<1>2. ASSUME NEW t \in Sessions, NEW x \in Kinds, NEW f \in Fds
      PROVE  new[f] = File(t, x) <=> files[f] = File(t, x) /\ f \notin c
  BY FilesApart, <1>2
<1>3. ASSUME NEW t \in Sessions, NEW x \in Kinds
      PROVE  In(new, t, x) = In(files, t, x) \ c
  BY <1>2 DEF In
<1>4. ASSUME NEW t \in Sessions, NEW x \in Kinds, t # s
      PROVE  In(new, t, x) = In(files, t, x)
  <2> DEFINE before == In(files, t, x)
  <2>1. ASSUME NEW f \in before, f \in c  PROVE FALSE
    <3>1. f \in Fds /\ files[f] = File(t, x)
      BY <2>1 DEF In
    <3>2. files[f].of = t /\ t # "nobody"
      BY <3>1, FilesApart, WaysAre
    <3> QED  BY <2>1, <3>1, <3>2, <1>4
  <2>2. In(new, t, x) = before \ c
    BY <1>3
  <2> HIDE DEF before
  <2>3. before \ c = before
    BY <2>1
  <2> QED  BY <2>2, <2>3 DEF before
<1> QED  BY <1>1, <1>3, <1>4

LEMMA OpenFile ==
  ASSUME NEW files \in [Fds -> Opened], NEW g \in Fds, NEW s \in Sessions, NEW w \in Kinds,
         files[g] = Free, NEW opened \in [Fds -> Opened],
         opened[g] = File(s, w), \A f \in Fds : f # g => opened[f] = files[f]
  PROVE  /\ In(opened, s, w) = In(files, s, w) \cup {g}
         /\ \A x \in Kinds : x # w => In(opened, s, x) = In(files, s, x)
         /\ \A t \in Sessions, x \in Kinds : t # s => In(opened, t, x) = In(files, t, x)
<1>1. ASSUME NEW t \in Sessions, NEW x \in Kinds, NEW f \in Fds
      PROVE  opened[f] = File(t, x) <=> files[f] = File(t, x) \/ (f = g /\ t = s /\ x = w)
  BY FilesApart, <1>1
<1> QED  BY <1>1 DEF In

LEMMA LeaveFile ==
  ASSUME NEW files \in [Fds -> Opened], NEW g \in Fds, NEW s \in Sessions, NEW w \in Kinds,
         files[g] \in {Free, File(s, w)}, NEW after, after = With(files, g, File(s, "left"))
  PROVE  /\ after \in [Fds -> Opened]
         /\ In(after, s, w) = In(files, s, w) \ {g}
         /\ \A x \in Kinds : x # w => In(after, s, x) = In(files, s, x)
         /\ \A t \in Sessions, x \in Kinds : t # s => In(after, t, x) = In(files, t, x)
<1>1. after \in [Fds -> Opened]
  BY LeftApart DEF With
<1>2. ASSUME NEW t \in Sessions, NEW x \in Kinds, NEW f \in Fds
      PROVE  after[f] = File(t, x) <=> files[f] = File(t, x) /\ f # g
  <2>1. CASE f = g
    <3>1. after[f] # File(t, x)
      BY <2>1, LeftApart DEF With
    <3> QED  BY <2>1, <3>1
  <2>2. CASE f # g
    BY <2>2 DEF With
  <2> QED  BY <2>1, <2>2
<1>3. ASSUME NEW t \in Sessions, NEW x \in Kinds, t # s \/ x # w
      PROVE  files[g] # File(t, x)
  BY <1>3, FilesApart
<1> QED  BY <1>1, <1>2, <1>3 DEF In

-----------------------------------------------------------------------------
(* The wire of one way of a session is set.                                *)
LEMMA WireSet ==
  ASSUME NEW before \in [Sessions -> [Ways -> Wire]], NEW s \in Sessions, NEW w \in Ways,
         NEW v \in Wire, NEW after, after = [before EXCEPT ![s][w] = v]
  PROVE  /\ after \in [Sessions -> [Ways -> Wire]]
         /\ after[s][w] = v
         /\ \A x \in Ways : x # w => after[s][x] = before[s][x]
         /\ \A t \in Sessions : t # s => after[t] = before[t]
<1> DEFINE row == [before[s] EXCEPT ![w] = v]
<1>1. row \in [Ways -> Wire] /\ row[w] = v /\ \A x \in Ways : x # w => row[x] = before[s][x]
  OBVIOUS
<1>2. after = [before EXCEPT ![s] = row]
  BY Zenon
<1> HIDE DEF row
<1> QED  BY <1>1, <1>2

(* The first of what is to come follows what has come.                     *)
LEMMA Passed ==
  ASSUME NEW u \in Seq(Piece), NEW r \in Seq(Piece), r # << >>
  PROVE  Append(u, Head(r)) \o Tail(r) = u \o r
<1> DEFINE a == Append(u, Head(r))
           b == Tail(r)
<1>1. Len(u) \in Nat /\ Len(r) \in Nat /\ Len(r) > 0
  BY LenProperties, EmptySeq
<1>2. Head(r) \in Piece /\ b \in Seq(Piece) /\ Len(b) = Len(r) - 1
      /\ \A i \in 1 .. Len(b) : b[i] = r[i + 1]
  BY HeadTailProperties
<1>3. Head(r) = r[1]
  BY <1>1
<1>4. a \in Seq(Piece) /\ Len(a) = Len(u) + 1
      /\ (\A i \in 1 .. Len(u) : a[i] = u[i]) /\ a[Len(u) + 1] = r[1]
  BY <1>1, <1>2, <1>3, AppendProperties
<1> HIDE DEF a, b
<1>5. /\ a \o b \in Seq(Piece) /\ Len(a \o b) = Len(a) + Len(b)
      /\ \A i \in 1 .. Len(a) + Len(b) : (a \o b)[i] = IF i <= Len(a) THEN a[i] ELSE b[i - Len(a)]
  BY <1>2, <1>4, ConcatProperties
<1>6. /\ u \o r \in Seq(Piece) /\ Len(u \o r) = Len(u) + Len(r)
      /\ \A i \in 1 .. Len(u) + Len(r) : (u \o r)[i] = IF i <= Len(u) THEN u[i] ELSE r[i - Len(u)]
  BY ConcatProperties
<1> DEFINE x == a \o b
           y == u \o r
<1> HIDE DEF x, y
<1>7. x \in Seq(Piece) /\ y \in Seq(Piece) /\ Len(x) = Len(y)
  BY <1>1, <1>2, <1>4, <1>5, <1>6 DEF x, y
<1>8. ASSUME NEW i \in 1 .. Len(x)  PROVE x[i] = y[i]
  <2>1. i \in 1 .. Len(u) + Len(r) /\ i \in 1 .. Len(a) + Len(b)
    BY <1>1, <1>2, <1>4, <1>5 DEF x
  <2>2. x[i] = (IF i <= Len(a) THEN a[i] ELSE b[i - Len(a)]) /\ y[i] = IF i <= Len(u) THEN u[i] ELSE r[i - Len(u)]
    BY <2>1, <1>5, <1>6 DEF x, y
  <2>3. CASE i <= Len(u)
    BY <2>1, <2>2, <2>3, <1>1, <1>4
  <2>4. CASE i = Len(u) + 1
    BY <2>1, <2>2, <2>4, <1>1, <1>4
  <2>5. CASE i > Len(u) + 1
    <3>1. i - Len(a) \in 1 .. Len(b) /\ (i - Len(a)) + 1 = i - Len(u)
      BY <2>1, <2>5, <1>1, <1>2, <1>4
    <3>2. b[i - Len(a)] = r[i - Len(u)]
      BY <3>1, <1>2
    <3> QED  BY <2>1, <2>2, <2>5, <3>2, <1>1, <1>4
  <2> QED  BY <2>1, <2>3, <2>4, <2>5, <1>1
<1>9. x = y
  BY <1>7, <1>8, SeqEqual
<1> QED  BY <1>9 DEF x, y, a, b

(* One part is sent: the rest is one shorter, and nothing is lost.         *)
Moved(x) == [unread |-> Append(x.unread, Head(x.rest)), rest |-> Tail(x.rest), up |-> x.up]

LEMMA MovedIs ==
  ASSUME NEW x \in Wire, x.rest # << >>
  PROVE  /\ Moved(x) \in Wire /\ Moved(x).up = x.up
         /\ Moved(x).unread \o Moved(x).rest = x.unread \o x.rest
<1>1. x.unread \in Seq(Piece) /\ x.rest \in Seq(Piece) /\ x.up \in Flags
  BY DEF Wire
<1>2. Head(x.rest) \in Piece /\ Tail(x.rest) \in Seq(Piece)
  BY <1>1, HeadTailProperties
<1>3. Append(x.unread, Head(x.rest)) \in Seq(Piece)
  BY <1>1, <1>2, AppendProperties
<1>4. Append(x.unread, Head(x.rest)) \o Tail(x.rest) = x.unread \o x.rest
  BY <1>1, Passed
<1>5. Moved(x) \in Wire
  BY <1>1, <1>2, <1>3 DEF Moved, Wire
<1> QED  BY <1>4, <1>5 DEF Moved

LEMMA MoveOne ==
  ASSUME NEW x \in Wire
  PROVE  [[x EXCEPT !.unread = Append(x.unread, Head(x.rest))] EXCEPT !.rest = Tail(x.rest)] = Moved(x)
<1>1. PICK u \in Seq(Piece), r \in Seq(Piece), b \in Flags : x = [unread |-> u, rest |-> r, up |-> b]
  BY DEF Wire
<1>2. x.unread = u /\ x.rest = r /\ x.up = b
  BY <1>1
<1> DEFINE e == Append(u, Head(r))
           d == Tail(r)
<1>3. [[x EXCEPT !.unread = Append(x.unread, Head(x.rest))] EXCEPT !.rest = Tail(x.rest)]
        = [[[unread |-> u, rest |-> r, up |-> b] EXCEPT !.unread = e] EXCEPT !.rest = d]
  BY <1>1, <1>2, Zenon
<1>4. Moved(x) = [unread |-> e, rest |-> d, up |-> b]
  BY <1>2 DEF Moved
<1> HIDE DEF e, d
<1>5. [[unread |-> u, rest |-> r, up |-> b] EXCEPT !.unread = e] = [unread |-> e, rest |-> r, up |-> b]
  OBVIOUS
<1>6. [[unread |-> e, rest |-> r, up |-> b] EXCEPT !.rest = d] = [unread |-> e, rest |-> d, up |-> b]
  OBVIOUS
<1> QED  BY <1>3, <1>4, <1>5, <1>6, Zenon

LEMMA Sending ==
  ASSUME NEW q \in [Sessions -> [Ways -> Wire]], NEW s \in Sessions, NEW w \in Ways
  PROVE  [q EXCEPT ![s][w].unread = Append(@, Head(q[s][w].rest)), ![s][w].rest = Tail(@)]
           = [q EXCEPT ![s][w] = Moved(q[s][w])]
<1> DEFINE x == q[s][w]
           mid == [x EXCEPT !.unread = Append(x.unread, Head(x.rest))]
           row == [q[s] EXCEPT ![w] = mid]
           half == [q EXCEPT ![s] = row]
           whole == [q EXCEPT ![s][w].unread = Append(@, Head(q[s][w].rest)), ![s][w].rest = Tail(@)]
<1>1. whole = [half EXCEPT ![s] = [half[s] EXCEPT ![w] = [half[s][w] EXCEPT !.rest = Tail(half[s][w].rest)]]]
  BY Zenon
<1>2. x \in Wire /\ q[s] \in [Ways -> Wire]
  OBVIOUS
<1>3. mid.rest = x.rest
  BY <1>2 DEF Wire
<1>4. [mid EXCEPT !.rest = Tail(x.rest)] = Moved(x)
  BY <1>2, MoveOne, Zenon
<1>5. half[s] = row /\ row[w] = mid
  <2> HIDE DEF mid
  <2> QED  BY <1>2
<1> DEFINE v == Moved(x)
<1>6. whole = [half EXCEPT ![s] = [row EXCEPT ![w] = v]]
  <2> HIDE DEF whole, half, row, mid, x
  <2> QED  BY <1>1, <1>3, <1>4, <1>5, Zenon
<1> HIDE DEF v, mid, whole
<1>7. [row EXCEPT ![w] = v] = [q[s] EXCEPT ![w] = v]
  OBVIOUS
<1> DEFINE new == [q[s] EXCEPT ![w] = v]
<1>8. whole = [half EXCEPT ![s] = new]
  BY <1>6, <1>7, Zenon
<1>9. [q EXCEPT ![s][w] = v] = [q EXCEPT ![s] = new]
  BY Zenon
<1> HIDE DEF new, row
<1>10. [half EXCEPT ![s] = new] = [q EXCEPT ![s] = new]
  OBVIOUS
<1> QED  BY <1>8, <1>9, <1>10, Zenon DEF v, whole

-----------------------------------------------------------------------------
(* Parts of answers.                                                       *)
LEMMA PiecesAre ==
  ASSUME Typed, NEW s \in Sessions
  PROVE  /\ \A n \in {0, 1, 2, 9} : Out(s, n) \in Piece /\ Out(s, n).to = asked[s] /\ Out(s, n).part = n
         /\ Error \in Piece /\ Error.to = 0
BY DEF Typed, ThreadTyped, Out, Error, Piece

LEMMA OwnNone == \A n : OwnParts(<< >>, n)
BY DEF OwnParts

LEMMA OwnOne ==
  ASSUME NEW x \in Piece, NEW n, x.to \in {0, n}
  PROVE  OwnParts(<<x>>, n) /\ <<x>> \in Seq(Piece)
BY DEF OwnParts

LEMMA OwnConcat ==
  ASSUME NEW p \in Seq(Piece), NEW q \in Seq(Piece), NEW n
  PROVE  /\ p \o q \in Seq(Piece)
         /\ OwnParts(p \o q, n) <=> OwnParts(p, n) /\ OwnParts(q, n)
<1>1. /\ p \o q \in Seq(Piece) /\ Len(p \o q) = Len(p) + Len(q)
      /\ \A i \in 1 .. Len(p) + Len(q) : (p \o q)[i] = IF i <= Len(p) THEN p[i] ELSE q[i - Len(p)]
  BY ConcatProperties
<1>2. Len(p) \in Nat /\ Len(q) \in Nat
  BY LenProperties
<1> DEFINE r == p \o q
<1> HIDE DEF r
<1>3. Len(r) = Len(p) + Len(q) /\ (\A i \in 1 .. Len(p) : r[i] = p[i])
      /\ \A i \in 1 .. Len(q) : r[i + Len(p)] = q[i]
  <2>1. \A i \in 1 .. Len(p) : r[i] = p[i]
    BY <1>1, <1>2 DEF r
  <2>2. ASSUME NEW i \in 1 .. Len(q)  PROVE r[i + Len(p)] = q[i]
    BY <1>1, <1>2, <2>2 DEF r
  <2> QED  BY <1>1, <2>1, <2>2 DEF r
<1>4. OwnParts(r, n) => OwnParts(p, n) /\ OwnParts(q, n)
  <2> SUFFICES ASSUME OwnParts(r, n)  PROVE OwnParts(p, n) /\ OwnParts(q, n)
    OBVIOUS
  <2>1. ASSUME NEW i \in 1 .. Len(p)  PROVE p[i].to \in {0, n}
    <3>1. i \in 1 .. Len(r)
      BY <1>2, <1>3
    <3> QED  BY <1>3, <3>1 DEF OwnParts
  <2>2. ASSUME NEW i \in 1 .. Len(q)  PROVE q[i].to \in {0, n}
    <3>1. i + Len(p) \in 1 .. Len(r)
      BY <1>2, <1>3
    <3> QED  BY <1>3, <3>1 DEF OwnParts
  <2> QED  BY <2>1, <2>2 DEF OwnParts
<1>5. OwnParts(p, n) /\ OwnParts(q, n) => OwnParts(r, n)
  <2> SUFFICES ASSUME OwnParts(p, n), OwnParts(q, n), NEW i \in 1 .. Len(r)  PROVE r[i].to \in {0, n}
    BY DEF OwnParts
  <2>1. CASE i <= Len(p)
    BY <2>1, <1>2, <1>3 DEF OwnParts
  <2>2. CASE ~(i <= Len(p))
    <3>1. i - Len(p) \in 1 .. Len(q) /\ (i - Len(p)) + Len(p) = i
      BY <2>2, <1>2, <1>3
    <3>2. r[i] = q[i - Len(p)]
      BY <3>1, <1>3
    <3> QED  BY <3>1, <3>2 DEF OwnParts
  <2> QED  BY <2>1, <2>2
<1> QED  BY <1>1, <1>4, <1>5 DEF r

LEMMA AnswersAre ==
  ASSUME Typed, NEW s \in Sessions, NEW w \in Ways, NEW a \in Answers(s, w)
  PROVE  /\ a \in Seq(Piece) /\ OwnParts(a, asked[s])
         /\ w = "fcgi" => /\ Len(a) = 3 /\ a[3] = Out(s, 0) /\ a[2] \in {Out(s, 1), Out(s, 2)}
                          /\ a[1].part # 9 => a[1] = Out(s, 1) /\ a[2] = Out(s, 2)
                          /\ a[1] \in {Out(s, 1), Out(s, 9)}
         /\ w \in {"fork", "scgi"} /\ a # << >> => a = <<Out(s, 1)>>
<1> DEFINE n == asked[s]
           x == Out(s, 0)
           y == Out(s, 1)
           z == Out(s, 2)
           e == Out(s, 9)
<1>1. /\ x \in Piece /\ y \in Piece /\ z \in Piece /\ e \in Piece
      /\ x.to = n /\ y.to = n /\ z.to = n /\ e.to = n /\ e.part = 9 /\ y.part = 1
  BY PiecesAre
<1>2. CASE w = "fcgi"
  <2>1. a = <<y, z, x>> \/ a = <<e, y, x>>
    BY <1>2, WaysAre DEF Answers
  <2> HIDE DEF x, y, z, e, n
  <2>2. CASE a = <<y, z, x>>
    <3>1. a \in Seq(Piece) /\ Len(a) = 3 /\ a[1] = y /\ a[2] = z /\ a[3] = x
      BY <1>1, <2>2
    <3>2. OwnParts(a, n)
      BY <1>1, <3>1 DEF OwnParts
    <3> QED  BY <1>1, <1>2, <3>1, <3>2 DEF x, y, z, e, n
  <2>3. CASE a = <<e, y, x>>
    <3>1. a \in Seq(Piece) /\ Len(a) = 3 /\ a[1] = e /\ a[2] = y /\ a[3] = x
      BY <1>1, <2>3
    <3>2. OwnParts(a, n)
      BY <1>1, <3>1 DEF OwnParts
    <3> QED  BY <1>1, <1>2, <3>1, <3>2 DEF x, y, z, e, n
  <2> QED  BY <2>1, <2>2, <2>3
<1>3. CASE w # "fcgi"
  <2>1. a = << >> \/ a = <<y>>
    BY <1>3, WaysAre DEF Answers
  <2> HIDE DEF y, n
  <2>2. a \in Seq(Piece) /\ OwnParts(a, n)
    <3>1. << >> \in Seq(Piece) /\ OwnParts(<< >>, n) /\ <<y>> \in Seq(Piece) /\ OwnParts(<<y>>, n)
      BY <1>1, EmptySeq, OwnNone, OwnOne
    <3> QED  BY <2>1, <3>1
  <2> QED  BY <1>3, <2>1, <2>2 DEF y, n
<1> QED  BY <1>2, <1>3

LEMMA SentIs ==
  ASSUME Typed, NEW s \in Sessions, NEW parts \in Seq(Piece)
  PROVE  /\ Sent(s, parts) \in [Sessions -> Seq(Piece)]
         /\ shut[s] => Sent(s, parts)[s] = got[s]
         /\ ~shut[s] => Sent(s, parts)[s] = got[s] \o parts
         /\ \A t \in Sessions : t # s => Sent(s, parts)[t] = got[t]
         /\ \A n : OwnParts(got[s], n) /\ OwnParts(parts, n) => OwnParts(Sent(s, parts)[s], n)
<1> DEFINE new == IF shut[s] THEN got[s] ELSE got[s] \o parts
<1>1. got \in [Sessions -> Seq(Piece)]
  BY DEF Typed, ThreadTyped
<1>2. got[s] \o parts \in Seq(Piece)
  BY <1>1, OwnConcat
<1>3. new \in Seq(Piece) /\ (shut[s] => new = got[s]) /\ (~shut[s] => new = got[s] \o parts)
  BY <1>1, <1>2
<1>4. \A n : OwnParts(got[s], n) /\ OwnParts(parts, n) => OwnParts(new, n)
  BY <1>1, OwnConcat
<1>5. Sent(s, parts) = [got EXCEPT ![s] = new]
  BY Zenon DEF Sent
<1> HIDE DEF new
<1> QED  BY <1>1, <1>3, <1>4, <1>5

-----------------------------------------------------------------------------
(* A step of one session's thread that opens and closes nothing, and takes *)
(* nothing from a program.                                                 *)
Quiets(t) ==
  /\ pc'[t] = pc[t] /\ way'[t] = way[t] /\ asked'[t] = asked[t] /\ got'[t] = got[t]
  /\ call'[t] = call[t] /\ why'[t] = why[t] /\ skewed'[t] = skewed[t]

Stays(s) ==
  /\ \A w \in Kinds : Of(s, w)' = Of(s, w)
  /\ \A w \in Ways : Stream(s, w)' = Stream(s, w) /\ (Open(s, w)' <=> Open(s, w))
  /\ number' = number /\ joined' = joined /\ pair' = pair /\ file' = file
  /\ wire' = wire /\ holders' = holders /\ child' = child /\ shut' = shut

LEMMA ThreadStep ==
  ASSUME Typed, HoldersRun, NEW s \in Sessions, UNCHANGED <<object, file, program>>,
         ThreadTyped', \A t \in Sessions : t # s => Quiets(t)
  PROVE  Typed' /\ HoldersRun' /\ Stays(s) /\ \A t \in Sessions : t # s => Same(t)
<1>1. /\ number' = number /\ joined' = joined /\ pair' = pair /\ file' = file
      /\ wire' = wire /\ holders' = holders /\ child' = child /\ shut' = shut
  BY DEF object, program
<1>2. Typed'
  BY <1>1 DEF Typed
<1>3. HoldersRun'
  BY <1>1 DEF HoldersRun
<1>4. ASSUME NEW t \in Sessions, NEW w  PROVE Of(t, w)' = Of(t, w)
  BY <1>1 DEF Of, In
<1>5. ASSUME NEW t \in Sessions, t # s  PROVE Same(t)
  BY <1>1, <1>4, <1>5 DEF Same, Quiets
<1>6. ASSUME NEW w  PROVE Stream(s, w)' = Stream(s, w) /\ (Open(s, w)' <=> Open(s, w))
  BY <1>1, <1>4 DEF Stream, Open
<1> QED  BY <1>1, <1>2, <1>3, <1>4, <1>5, <1>6 DEF Stays

LEMMA Others ==
  ASSUME Typed, NEW s \in Sessions, \A t \in Sessions : Sound(t), Sound(s)',
         \A t \in Sessions : t # s => Same(t)
  PROVE  \A t \in Sessions : Sound(t)'
BY SameSound

(* A request, and one that needs no program.                               *)
LEMMA AskKeeps ==
  ASSUME Typed, HoldersRun, \A t \in Sessions : Sound(t),
         NEW s \in Sessions, NEW w \in Asks[s], Ask(s, w)
  PROVE  Typed' /\ HoldersRun' /\ \A t \in Sessions : Sound(t)'
<1> USE WaysAre
<1> DEFINE to == CASE w = "plain" -> "plain" [] w = "fork" -> "pair" [] OTHER -> "peek"
<1>1. /\ pc[s] = "idle" /\ pc' = [pc EXCEPT ![s] = to]
      /\ way' = [way EXCEPT ![s] = w] /\ asked' = [asked EXCEPT ![s] = @ + 1]
      /\ UNCHANGED <<got, call, why, skewed, object, file, program>>
  BY DEF Ask, At, Goes
<1>2. w \in {"plain", "fork", "fcgi", "scgi"}
  BY GatewayAssumption
<1>3. /\ to \in PCs /\ (w = "plain" => to = "plain") /\ (w = "fork" => to = "pair")
      /\ w \in Instances => to = "peek"
  BY <1>2 DEF PCs
<1> HIDE DEF to
<1>4. ThreadTyped' /\ \A t \in Sessions : t # s => Quiets(t)
  BY <1>1, <1>2, <1>3 DEF Typed, ThreadTyped, Quiets
<1>5. /\ pc'[s] = to /\ way'[s] = w /\ got'[s] = got[s] /\ call'[s] = call[s] /\ why' = why
      /\ skewed' = skewed
  BY <1>1 DEF Typed, ThreadTyped
<1>6. Sound(s)
  OBVIOUS
<1>7. Typed' /\ HoldersRun' /\ Stays(s) /\ \A t \in Sessions : t # s => Same(t)
  BY <1>1, <1>4, ThreadStep
<1>8. got'[s] = << >> /\ call'[s] = << >> /\ way[s] = "none"
  BY <1>1, <1>5, <1>6 DEF Sound, Has, Way
<1>9. Way(s)'
  BY <1>2, <1>3, <1>5 DEF Way
<1>10. Files(s)'
  BY <1>1, <1>2, <1>3, <1>5, <1>6, <1>7, <1>8 DEF Sound, Files, Forking, Running, Kinds, Stays
<1>11. Child(s)'
  BY <1>1, <1>2, <1>3, <1>5, <1>6, <1>7, <1>8 DEF Sound, Child, Running, Stays
<1>12. Streams(s)'
  BY <1>1, <1>2, <1>3, <1>5, <1>6, <1>7, <1>8 DEF Sound, Streams, Running, Reading, Stays
<1>13. Has(s)'
  BY <1>2, <1>3, <1>5, <1>8, OwnNone DEF Has
<1>14. Totals(s)'
  BY <1>2, <1>3, <1>5 DEF Totals, Underway, Reading
<1>15. Sound(s)'
  BY <1>9, <1>10, <1>11, <1>12, <1>13, <1>14 DEF Sound
<1> QED  BY <1>7, <1>15, Others

LEMMA PlainKeeps ==
  ASSUME Typed, HoldersRun, \A t \in Sessions : Sound(t), NEW s \in Sessions, Plain(s)
  PROVE  Typed' /\ HoldersRun' /\ \A t \in Sessions : Sound(t)'
<1> USE WaysAre
<1> DEFINE part == <<Out(s, 1)>>
<1>1. /\ pc[s] = "plain" /\ pc' = [pc EXCEPT ![s] = "done"] /\ got' = [got EXCEPT ![s] = part]
      /\ UNCHANGED <<way, asked, call, why, skewed, object, file, program>>
  BY DEF Plain, At, Goes
<1>2. part \in Seq(Piece) /\ OwnParts(part, asked[s])
  BY PiecesAre, OwnOne
<1>3. ThreadTyped' /\ \A t \in Sessions : t # s => Quiets(t)
  <2> HIDE DEF part
  <2> QED  BY <1>1, <1>2 DEF Typed, ThreadTyped, Quiets, PCs
<1>4. pc'[s] = "done" /\ got'[s] = part /\ call' = call /\ way' = way /\ asked' = asked /\ skewed' = skewed
  BY <1>1 DEF Typed, ThreadTyped
<1>5. Sound(s) /\ way[s] = "plain"
  BY <1>1 DEF Sound, Way
<1>6. Typed' /\ HoldersRun' /\ Stays(s) /\ \A t \in Sessions : t # s => Same(t)
  BY <1>1, <1>3, ThreadStep
<1>7. Whole(s)'
  BY <1>4, <1>5 DEF Whole, Out
<1> HIDE DEF part
<1>8. Way(s)'
  BY <1>4, <1>5 DEF Way
<1>9. Files(s)'
  BY <1>1, <1>4, <1>5, <1>6 DEF Sound, Files, Forking, Running, Kinds, Stays
<1>10. Child(s)'
  BY <1>1, <1>4, <1>5, <1>6 DEF Sound, Child, Running, Stays
<1>11. Streams(s)'
  BY <1>1, <1>4, <1>5, <1>6 DEF Sound, Streams, Running, Reading, Stays
<1>12. Has(s)'
  BY <1>1, <1>2, <1>4, <1>5 DEF Sound, Has
<1>13. Totals(s)'
  BY <1>4, <1>5, <1>7 DEF Totals, Underway, Reading
<1>14. Sound(s)'
  BY <1>8, <1>9, <1>10, <1>11, <1>12, <1>13 DEF Sound
<1> QED  BY <1>6, <1>14, Others

LEMMA ReuseKeeps ==
  ASSUME Typed, HoldersRun, \A t \in Sessions : Sound(t), NEW s \in Sessions, Reuse(s)
  PROVE  Typed' /\ HoldersRun' /\ \A t \in Sessions : Sound(t)'
<1> USE WaysAre
<1>1. /\ pc[s] = "peek" /\ pc' = [pc EXCEPT ![s] = "begin"]
      /\ UNCHANGED <<way, asked, got, call, why, skewed, object, file, program>>
  BY DEF Reuse, At, Goes
<1>2. ThreadTyped' /\ \A t \in Sessions : t # s => Quiets(t)
  BY <1>1 DEF Typed, ThreadTyped, Quiets, PCs
<1>3. pc'[s] = "begin" /\ got' = got /\ call' = call /\ way' = way /\ asked' = asked /\ skewed' = skewed
  BY <1>1 DEF Typed, ThreadTyped
<1>4. Sound(s) /\ way[s] \in Instances
  BY <1>1 DEF Sound, Way
<1>5. Typed' /\ HoldersRun' /\ Stays(s) /\ \A t \in Sessions : t # s => Same(t)
  BY <1>1, <1>2, ThreadStep
<1>6. Way(s)'
  BY <1>3, <1>4 DEF Way
<1>7. Files(s)'
  BY <1>1, <1>3, <1>4, <1>5 DEF Sound, Files, Forking, Running, Kinds, Stays
<1>8. Child(s)'
  BY <1>1, <1>3, <1>4, <1>5 DEF Sound, Child, Running, Stays
<1>9. Streams(s)'
  BY <1>1, <1>3, <1>4, <1>5 DEF Sound, Streams, Running, Reading, Stays
<1>10. Has(s)'
  BY <1>1, <1>3, <1>4 DEF Sound, Has
<1>11. Totals(s)'
  BY <1>3, <1>4 DEF Totals, Underway, Reading
<1>12. Sound(s)'
  BY <1>6, <1>7, <1>8, <1>9, <1>10, <1>11 DEF Sound
<1> QED  BY <1>5, <1>12, Others

(* The request is done with, or the session.                               *)
LEMMA DoneKeeps ==
  ASSUME Typed, HoldersRun, \A t \in Sessions : Sound(t), NEW s \in Sessions, Done(s) \/ Leave(s)
  PROVE  Typed' /\ HoldersRun' /\ \A t \in Sessions : Sound(t)'
<1> USE WaysAre
<1>1. /\ pc[s] \in {"idle", "done"}
      /\ \E to \in {"idle", "ending"} : pc' = [pc EXCEPT ![s] = to]
      /\ way' = [way EXCEPT ![s] = "none"] /\ got' = [got EXCEPT ![s] = << >>]
      /\ why' = why \/ why' = [why EXCEPT ![s] = {}]
      /\ UNCHANGED <<asked, call, skewed, object, file, program>>
  <2>1. CASE Done(s)
    BY <2>1 DEF Done, At, Goes
  <2>2. CASE Leave(s)
    <3>1. /\ pc[s] = "idle" /\ pc' = [pc EXCEPT ![s] = "ending"]
          /\ UNCHANGED <<way, asked, got, call, why, skewed, object, file, program>>
      BY <2>2 DEF Leave, At, Goes
    <3>2. way[s] = "none" /\ got[s] = << >>
      BY <3>1 DEF Sound, Way, Has
    <3> QED  BY <3>1, <3>2 DEF Typed, ThreadTyped
  <2> QED  BY <2>1, <2>2
<1>2. ThreadTyped' /\ \A t \in Sessions : t # s => Quiets(t)
  <2>1. << >> \in Seq(Piece)
    BY EmptySeq
  <2> QED  BY <1>1, <2>1 DEF Typed, ThreadTyped, Quiets, PCs
<1>3. pc'[s] \in {"idle", "ending"} /\ got'[s] = << >> /\ call' = call /\ way'[s] = "none" /\ asked' = asked
      /\ skewed' = skewed
  BY <1>1 DEF Typed, ThreadTyped
<1>4. Sound(s)
  OBVIOUS
<1>5. Typed' /\ HoldersRun' /\ Stays(s) /\ \A t \in Sessions : t # s => Same(t)
  BY <1>1, <1>2, ThreadStep
<1>6. Way(s)'
  BY <1>3, <1>4 DEF Way
<1>7. Files(s)'
  BY <1>1, <1>3, <1>4, <1>5 DEF Sound, Files, Forking, Running, Kinds, Stays
<1>8. Child(s)'
  BY <1>1, <1>3, <1>4, <1>5 DEF Sound, Child, Running, Stays
<1>9. Streams(s)'
  BY <1>1, <1>3, <1>4, <1>5 DEF Sound, Streams, Running, Reading, Stays
<1>10. Has(s)'
  <2>1. call'[s] = << >>
    BY <1>1, <1>3, <1>4 DEF Sound, Has
  <2> QED  BY <1>3, <2>1, OwnNone DEF Has
<1>11. Totals(s)'
  BY <1>3, <1>4 DEF Totals, Underway, Reading
<1>12. Sound(s)'
  BY <1>6, <1>7, <1>8, <1>9, <1>10, <1>11 DEF Sound
<1> QED  BY <1>5, <1>12, Others

-----------------------------------------------------------------------------
(* The pair of descriptors of a forked program.                            *)
LEMMA SocketPairKeeps ==
  ASSUME Typed, HoldersRun, \A t \in Sessions : Sound(t), NEW s \in Sessions, SocketPair(s)
  PROVE  Typed' /\ HoldersRun' /\ \A t \in Sessions : Sound(t)'
<1> USE WaysAre
<1>1. PICK f \in Fds, g \in Fds :
        /\ file[f] = Free /\ g > f /\ file[g] = Free
        /\ pair' = [pair EXCEPT ![s] = <<f, g>>]
        /\ file' = [file EXCEPT ![f] = File(s, "fork"), ![g] = File(s, "child")]
  BY DEF SocketPair, Lowest
<1>2. /\ pc[s] = "pair" /\ pc' = [pc EXCEPT ![s] = "fork"]
      /\ UNCHANGED <<way, asked, got, call, why, skewed, number, joined, program, faults>>
  BY DEF SocketPair, At, Goes
<1>3. f # g
  BY <1>1
<1> DEFINE half == [file EXCEPT ![f] = File(s, "fork")]
<1>4. file \in [Fds -> Opened] /\ "fork" \in Kinds /\ "child" \in Kinds
  BY DEF Typed, Kinds
<1>5. /\ half \in [Fds -> Opened]
      /\ In(half, s, "fork") = In(file, s, "fork") \cup {f}
      /\ \A x \in Kinds : x # "fork" => In(half, s, x) = In(file, s, x)
      /\ \A t \in Sessions, x \in Kinds : t # s => In(half, t, x) = In(file, t, x)
  <2>1. File(s, "fork") \in Opened
    BY <1>4, FilesApart
  <2>2. half \in [Fds -> Opened] /\ half[f] = File(s, "fork") /\ \A h \in Fds : h # f => half[h] = file[h]
    BY <1>4, <2>1
  <2>3. file[f] = Free
    BY <1>1
  <2> HIDE DEF half
  <2> QED  BY <1>4, <2>2, <2>3, OpenFile
<1>6. half[g] = Free /\ file' = [half EXCEPT ![g] = File(s, "child")]
  <2>1. half[g] = Free
    BY <1>1, <1>3, <1>4 DEF half
  <2>2. file' = [half EXCEPT ![g] = File(s, "child")]
    BY <1>1, Zenon
  <2> QED  BY <2>1, <2>2
<1> HIDE DEF half
<1>7. /\ file' \in [Fds -> Opened]
      /\ In(file', s, "child") = In(half, s, "child") \cup {g}
      /\ \A x \in Kinds : x # "child" => In(file', s, x) = In(half, s, x)
      /\ \A t \in Sessions, x \in Kinds : t # s => In(file', t, x) = In(half, t, x)
  <2> DEFINE new == file'
  <2>1. File(s, "child") \in Opened
    BY <1>4, FilesApart
  <2>2. new \in [Fds -> Opened] /\ new[g] = File(s, "child") /\ \A h \in Fds : h # g => new[h] = half[h]
    BY <1>5, <1>6, <2>1
  <2>3. half[g] = Free /\ half \in [Fds -> Opened]
    BY <1>5, <1>6
  <2> HIDE DEF new
  <2>4. /\ In(new, s, "child") = In(half, s, "child") \cup {g}
        /\ \A x \in Kinds : x # "child" => In(new, s, x) = In(half, s, x)
        /\ \A t \in Sessions, x \in Kinds : t # s => In(new, t, x) = In(half, t, x)
    BY <1>4, <2>2, <2>3, OpenFile
  <2> QED  BY <2>2, <2>4 DEF new
<1>8. /\ Of(s, "fork")' = Of(s, "fork") \cup {f} /\ Of(s, "child")' = Of(s, "child") \cup {g}
      /\ \A w \in Instances : Of(s, w)' = Of(s, w)
      /\ \A t \in Sessions, x \in Kinds : t # s => Of(t, x)' = Of(t, x)
  BY <1>4, <1>5, <1>7 DEF Of, Kinds
<1>9. /\ pc'[s] = "fork" /\ pair'[s] = <<f, g>>
      /\ way' = way /\ asked' = asked /\ got' = got /\ call' = call /\ why' = why /\ skewed' = skewed
      /\ number' = number /\ joined' = joined
      /\ wire' = wire /\ holders' = holders /\ child' = child /\ shut' = shut
  BY <1>1, <1>2 DEF Typed, ThreadTyped, program
<1>10. Typed'
  <2>1. ThreadTyped'
    BY <1>2, <1>9 DEF Typed, ThreadTyped, PCs
  <2>2. pair' \in [Sessions -> (Fds \cup {0}) \X (Fds \cup {0})]
    BY <1>1 DEF Typed
  <2> QED  BY <2>1, <2>2, <1>7, <1>9 DEF Typed
<1>11. HoldersRun'
  BY <1>9 DEF HoldersRun
<1>12. ASSUME NEW t \in Sessions, t # s  PROVE Same(t)
  BY <1>1, <1>2, <1>8, <1>9, <1>12 DEF Same, Typed, ThreadTyped, Kinds
<1>13. Sound(s) /\ way[s] = "fork"
  BY <1>2 DEF Sound, Way
<1>14. Of(s, "fork") = {} /\ Of(s, "child") = {}
  BY <1>2, <1>13 DEF Sound, Files, Forking
<1>15. /\ \A w \in Instances : Open(s, w)' <=> Open(s, w)
       /\ \A w \in Ways : Stream(s, w)' = Stream(s, w)
  BY <1>8, <1>9 DEF Open, Stream
<1>16. Way(s)'
  BY <1>9, <1>13 DEF Way
<1>17. Files(s)'
  <2>1. pair'[s][1] = f /\ pair'[s][2] = g
    BY <1>9
  <2> QED  BY <2>1, <1>8, <1>2, <1>9, <1>13, <1>14 DEF Sound, Files, Forking, Running
<1>18. Child(s)'
  BY <1>2, <1>9, <1>13 DEF Sound, Child, Running
<1>19. Streams(s)'
  BY <1>2, <1>9, <1>13, <1>15 DEF Sound, Streams, Running, Reading
<1>20. Has(s)'
  BY <1>2, <1>9, <1>13 DEF Sound, Has
<1>21. Totals(s)'
  BY <1>9, <1>13 DEF Totals, Underway, Reading
<1>22. Sound(s)'
  BY <1>16, <1>17, <1>18, <1>19, <1>20, <1>21 DEF Sound
<1> QED  BY <1>10, <1>11, <1>12, <1>22, Others

LEMMA ForkKeeps ==
  ASSUME Typed, HoldersRun, \A t \in Sessions : Sound(t), NEW s \in Sessions, Fork(s)
  PROVE  Typed' /\ HoldersRun' /\ \A t \in Sessions : Sound(t)'
<1> USE WaysAre
<1>1. PICK answer \in Answers(s, "fork") :
        wire' = [wire EXCEPT ![s]["fork"] = [unread |-> << >>, rest |-> answer, up |-> TRUE]]
  BY DEF Fork
<1>2. /\ pc[s] = "fork" /\ pc' = [pc EXCEPT ![s] = "parent"]
      /\ holders' = [t \in Sessions |->
           IF \E f \in Fds : file[f] = File(t, "child") THEN holders[t] \cup {s} ELSE holders[t]]
      /\ child' = [child EXCEPT ![s] = "forked"]
      /\ number' = [number EXCEPT ![s]["fork"] = pair[s][1]]
      /\ UNCHANGED <<way, asked, got, call, why, skewed, joined, pair, file, shut>>
  BY DEF Fork, At, Goes
<1>3. answer \in Seq(Piece) /\ OwnParts(answer, asked[s])
  BY AnswersAre
<1>4. PICK yes \in Flags : yes = TRUE
  BY TrueFalse, Zenon
<1> DEFINE v == [unread |-> << >>, rest |-> answer, up |-> yes]
<1>5. v \in Wire /\ wire' = [wire EXCEPT ![s]["fork"] = v]
  <2>1. << >> \in Seq(Piece)
    BY EmptySeq
  <2> QED  BY <1>1, <1>3, <1>4, <2>1 DEF Wire
<1>6. v.unread = << >> /\ v.rest = answer
  OBVIOUS
<1> HIDE DEF v
<1>7. wire \in [Sessions -> [Ways -> Wire]]
  BY DEF Typed
<1>8. /\ wire' \in [Sessions -> [Ways -> Wire]]
      /\ wire'[s]["fork"] = v
      /\ \A x \in Ways : x # "fork" => wire'[s][x] = wire[s][x]
      /\ \A t \in Sessions : t # s => wire'[t] = wire[t]
  BY <1>5, <1>7, WireSet
<1>9. Sound(s) /\ way[s] = "fork"
  BY <1>2 DEF Sound, Way
<1>10. pair[s][1] \in Of(s, "fork") /\ pair[s][2] \in Of(s, "child")
  BY <1>2, <1>9 DEF Sound, Files, Forking
<1>11. /\ pc'[s] = "parent" /\ way' = way /\ asked' = asked /\ got' = got /\ call' = call /\ why' = why
       /\ skewed' = skewed /\ joined' = joined /\ pair' = pair /\ file' = file /\ shut' = shut
       /\ child'[s] = "forked" /\ s \in holders'[s]
       /\ \A w \in Instances : number'[s][w] = number[s][w]
       /\ number'[s]["fork"] = pair[s][1]
       /\ \A t \in Sessions : holders'[t] \subseteq holders[t] \cup {s}
  <2>1. s \in holders'[s]
    BY <1>2, <1>10 DEF Of, In
  <2>2. \A t \in Sessions : holders'[t] \subseteq holders[t] \cup {s}
    BY <1>2
  <2> QED  BY <1>2, <2>1, <2>2 DEF Typed, ThreadTyped
<1>12. \A w : \A t \in Sessions : Of(t, w)' = Of(t, w)
  BY <1>11 DEF Of, In
<1>13. Typed'
  <2>1. ThreadTyped'
    BY <1>2, <1>11 DEF Typed, ThreadTyped, PCs
  <2>2. pair[s][1] \in Fds
    BY <1>10 DEF Of, In
  <2>3. number' \in [Sessions -> [Ways -> Fds \cup {0}]]
    BY <1>2, <2>2 DEF Typed
  <2>4. holders' \in [Sessions -> SUBSET Sessions]
    <3>1. DOMAIN holders' = Sessions /\ \A t \in Sessions : holders'[t] \subseteq Sessions
      BY <1>2 DEF Typed
    <3>2. holders' = [t \in Sessions |-> holders'[t]]
      BY <1>2
    <3> QED  BY <3>1, <3>2
  <2>5. child' \in [Sessions -> {"none", "forked", "runs", "hangs", "ended"}]
    BY <1>2 DEF Typed
  <2> QED  BY <2>1, <2>3, <2>4, <2>5, <1>8, <1>11 DEF Typed
<1>14. HoldersRun'
  <2> SUFFICES ASSUME NEW t \in Sessions, NEW x \in holders'[t]  PROVE child'[x] \notin {"none", "ended"}
    BY DEF HoldersRun
  <2>1. CASE x = s
    BY <2>1, <1>11
  <2>2. CASE x # s
    <3>1. x \in holders[t] /\ x \in Sessions
      BY <2>2, <1>11 DEF Typed
    <3> QED  BY <3>1, <2>2, <1>2 DEF HoldersRun, Typed
  <2> QED  BY <2>1, <2>2
<1>15. ASSUME NEW t \in Sessions, t # s  PROVE Same(t)
  <2>1. t \in holders'[t] <=> t \in holders[t]
    BY <1>2, <1>15
  <2>2. /\ pc'[t] = pc[t] /\ child'[t] = child[t] /\ number'[t] = number[t]
    BY <1>2, <1>15 DEF Typed, ThreadTyped
  <2> QED  BY <2>1, <2>2, <1>8, <1>11, <1>12, <1>15 DEF Same
<1>16. /\ \A w \in Instances : (Open(s, w)' <=> Open(s, w)) /\ Stream(s, w)' = Stream(s, w)
       /\ Stream(s, "fork")' = answer
  <2>1. Stream(s, "fork")' = << >> \o answer
    BY <1>6, <1>8 DEF Stream
  <2>2. << >> \o answer = answer
    BY <1>3, ConcatEmptySeq
  <2>3. ASSUME NEW w \in Instances  PROVE (Open(s, w)' <=> Open(s, w)) /\ Stream(s, w)' = Stream(s, w)
    <3>1. number'[s][w] = number[s][w] /\ wire'[s][w] = wire[s][w] /\ Of(s, w)' = Of(s, w)
      BY <1>8, <1>11, <1>12
    <3> QED  BY <3>1 DEF Open, Stream
  <2> QED  BY <2>1, <2>2, <2>3
<1>17. Way(s)'
  BY <1>9, <1>11 DEF Way
<1>18. Files(s)'
  BY <1>2, <1>9, <1>10, <1>11, <1>12 DEF Sound, Files, Forking, Running
<1>19. Child(s)'
  BY <1>2, <1>9, <1>11 DEF Sound, Child, Running
<1>20. Streams(s)'
  <2>1. \A w \in Instances : wire'[s][w] = wire[s][w]
    BY <1>8
  <2> QED  BY <2>1, <1>2, <1>3, <1>9, <1>11, <1>16 DEF Sound, Streams, Running, Reading
<1>21. Has(s)'
  BY <1>2, <1>9, <1>11 DEF Sound, Has
<1>22. Totals(s)'
  <2>1. got'[s] = << >> /\ call'[s] = << >>
    BY <1>2, <1>9, <1>11 DEF Sound, Has
  <2>2. Total(s)' = (<< >> \o << >>) \o answer
    BY <2>1, <1>9, <1>11, <1>16 DEF Total
  <2>3. Total(s)' = answer
    BY <2>2, <1>3, ConcatEmptySeq
  <2>4. Answers(s, way[s])' = Answers(s, "fork")
    BY <1>9, <1>11 DEF Answers, Out
  <2> QED  BY <1>1, <1>9, <1>11, <2>3, <2>4 DEF Totals, Reading
<1>23. Sound(s)'
  BY <1>17, <1>18, <1>19, <1>20, <1>21, <1>22 DEF Sound
<1> QED  BY <1>13, <1>14, <1>15, <1>23, Others

(* A step of one session's thread that closes some of its descriptors.     *)
Closing(c) == file' = [f \in Fds |-> IF f \in c THEN Free ELSE file[f]]

Leaves(s, c) ==
  /\ \A w \in Kinds : Of(s, w)' = Of(s, w) \ c
  /\ \A w \in Ways : Stream(s, w)' = Stream(s, w) /\ (Open(s, w)' <=> Open(s, w) /\ number[s][w] \notin c)
  /\ number' = number /\ joined' = joined /\ pair' = pair
  /\ wire' = wire /\ holders' = holders /\ child' = child /\ shut' = shut

LEMMA CloseStep ==
  ASSUME Typed, HoldersRun, NEW s \in Sessions, NEW c, UNCHANGED <<object, program>>,
         ThreadTyped', \A t \in Sessions : t # s => Quiets(t),
         Closing(c), \A f \in c \cap Fds : file[f].of \in {s, "nobody"}
  PROVE  Typed' /\ HoldersRun' /\ Leaves(s, c) /\ \A t \in Sessions : t # s => Same(t)
<1>1. /\ number' = number /\ joined' = joined /\ pair' = pair
      /\ wire' = wire /\ holders' = holders /\ child' = child /\ shut' = shut
  BY DEF object, program
<1>2. /\ file' \in [Fds -> Opened]
      /\ \A x \in Kinds : In(file', s, x) = In(file, s, x) \ c
      /\ \A t \in Sessions, x \in Kinds : t # s => In(file', t, x) = In(file, t, x)
  <2> DEFINE new == file'
  <2>1. file \in [Fds -> Opened] /\ new = [f \in Fds |-> IF f \in c THEN Free ELSE file[f]]
    BY DEF Typed, Closing
  <2> HIDE DEF new
  <2>2. /\ new \in [Fds -> Opened]
        /\ \A x \in Kinds : In(new, s, x) = In(file, s, x) \ c
        /\ \A t \in Sessions, x \in Kinds : t # s => In(new, t, x) = In(file, t, x)
    BY <2>1, CloseFiles, SMTT(60)
  <2> QED  BY <2>2 DEF new
<1>3. Typed'
  BY <1>1, <1>2 DEF Typed
<1>4. HoldersRun'
  BY <1>1 DEF HoldersRun
<1>5. /\ \A x \in Kinds : Of(s, x)' = Of(s, x) \ c
      /\ \A t \in Sessions, x \in Kinds : t # s => Of(t, x)' = Of(t, x)
  BY <1>2 DEF Of
<1>6. ASSUME NEW t \in Sessions, t # s  PROVE Same(t)
  BY <1>1, <1>5, <1>6 DEF Same, Quiets, Kinds
<1>7. ASSUME NEW w \in Ways
      PROVE  Stream(s, w)' = Stream(s, w) /\ (Open(s, w)' <=> Open(s, w) /\ number[s][w] \notin c)
  <2>1. w \in Kinds
    BY DEF Kinds
  <2> QED  BY <2>1, <1>1, <1>5 DEF Stream, Open
<1> QED  BY <1>1, <1>3, <1>4, <1>5, <1>6, <1>7 DEF Leaves

LEMMA NoForkKeeps ==
  ASSUME Typed, HoldersRun, \A t \in Sessions : Sound(t), NEW s \in Sessions, NoFork(s)
  PROVE  Typed' /\ HoldersRun' /\ \A t \in Sessions : Sound(t)'
<1> USE WaysAre
<1> DEFINE c == {pair[s][1], pair[s][2]}
<1>1. /\ pc[s] = "fork" /\ pc' = [pc EXCEPT ![s] = "done"]
      /\ why' = [why EXCEPT ![s] = @ \cup {"not forked"}]
      /\ Closing(c)
      /\ UNCHANGED <<way, asked, got, call, skewed, object, program>>
  BY DEF NoFork, At, Goes, Because, Closing
<1>2. ThreadTyped' /\ \A t \in Sessions : t # s => Quiets(t)
  BY <1>1 DEF Typed, ThreadTyped, Quiets, PCs
<1>3. Sound(s) /\ way[s] = "fork"
  BY <1>1 DEF Sound, Way
<1>4. pair[s][1] \in Of(s, "fork") /\ pair[s][2] \in Of(s, "child")
  BY <1>1, <1>3 DEF Sound, Files, Forking
<1>5. \A f \in c \cap Fds : file[f].of \in {s, "nobody"}
  BY <1>4, FilesApart DEF Of, In, Kinds
<1> HIDE DEF c
<1>6. Typed' /\ HoldersRun' /\ Leaves(s, c) /\ \A t \in Sessions : t # s => Same(t)
  BY <1>1, <1>2, <1>5, CloseStep
<1>7. /\ pc'[s] = "done" /\ way' = way /\ asked' = asked /\ got' = got /\ call' = call
      /\ skewed' = skewed /\ why'[s] # {}
  BY <1>1 DEF Typed, ThreadTyped
<1>8. /\ Of(s, "fork")' = {} /\ Of(s, "child")' = {}
      /\ \A w \in Instances : Of(s, w)' \subseteq Of(s, w)
  <2>1. \A f \in Of(s, "fork") : f \in c
    BY <1>3 DEF Sound, Files, c
  <2>2. \A f \in Of(s, "child") : f \in c
    BY <1>3 DEF Sound, Files, c
  <2>3. \A w \in Kinds : Of(s, w)' = Of(s, w) \ c
    BY <1>6 DEF Leaves
  <2> QED  BY <2>1, <2>2, <2>3 DEF Kinds
<1>9. /\ number' = number /\ joined' = joined /\ pair' = pair
      /\ wire' = wire /\ holders' = holders /\ child' = child /\ shut' = shut
      /\ \A w \in Ways : Stream(s, w)' = Stream(s, w) /\ (Open(s, w)' => Open(s, w))
  BY <1>6 DEF Leaves
<1>10. Way(s)'
  BY <1>3, <1>7 DEF Way
<1>11. Files(s)'
  BY <1>3, <1>7, <1>8, <1>9 DEF Sound, Files, Forking, Running
<1>12. Child(s)'
  BY <1>1, <1>3, <1>7, <1>9 DEF Sound, Child, Running
<1>13. Streams(s)'
  BY <1>1, <1>3, <1>7, <1>9 DEF Sound, Streams, Running, Reading
<1>14. Has(s)'
  BY <1>1, <1>3, <1>7 DEF Sound, Has
<1>15. Totals(s)'
  BY <1>7 DEF Totals, Fine
<1>16. Sound(s)'
  BY <1>10, <1>11, <1>12, <1>13, <1>14, <1>15 DEF Sound
<1> QED  BY <1>6, <1>16, Others

LEMMA ParentKeeps ==
  ASSUME Typed, HoldersRun, \A t \in Sessions : Sound(t), NEW s \in Sessions, Parent(s)
  PROVE  Typed' /\ HoldersRun' /\ \A t \in Sessions : Sound(t)'
<1> USE WaysAre
<1> DEFINE c == {pair[s][2]}
<1>1. /\ pc[s] = "parent" /\ pc' = [pc EXCEPT ![s] = "send"]
      /\ Closing(c)
      /\ UNCHANGED <<way, asked, got, call, why, skewed, object, program>>
  BY DEF Parent, At, Goes, Closing, Closed, ChildEnd
<1>2. ThreadTyped' /\ \A t \in Sessions : t # s => Quiets(t)
  BY <1>1 DEF Typed, ThreadTyped, Quiets, PCs
<1>3. Sound(s) /\ way[s] = "fork"
  BY <1>1 DEF Sound, Way
<1>4. pair[s][1] \in Of(s, "fork") /\ pair[s][2] \in Of(s, "child")
  BY <1>1, <1>3 DEF Sound, Files, Forking
<1>5. \A f \in c \cap Fds : file[f].of \in {s, "nobody"}
  BY <1>4, FilesApart DEF Of, In, Kinds
<1>6. pair[s][1] # pair[s][2]
  BY <1>4, FilesApart DEF Of, In, Kinds
<1> HIDE DEF c
<1>7. Typed' /\ HoldersRun' /\ Leaves(s, c) /\ \A t \in Sessions : t # s => Same(t)
  BY <1>1, <1>2, <1>5, CloseStep
<1>8. /\ pc'[s] = "send" /\ way' = way /\ asked' = asked /\ got' = got /\ call' = call
      /\ skewed' = skewed /\ why' = why
  BY <1>1 DEF Typed, ThreadTyped
<1>9. /\ Of(s, "fork")' \subseteq Of(s, "fork") /\ pair[s][1] \in Of(s, "fork")' /\ Of(s, "child")' = {}
      /\ \A w \in Instances : Of(s, w)' \subseteq Of(s, w)
  <2>1. \A f \in Of(s, "child") : f \in c
    BY <1>3 DEF Sound, Files, c
  <2>2. \A w \in Kinds : Of(s, w)' = Of(s, w) \ c
    BY <1>7 DEF Leaves
  <2>3. pair[s][1] \notin c
    BY <1>6 DEF c
  <2> QED  BY <1>4, <2>1, <2>2, <2>3 DEF Kinds
<1>10. /\ number' = number /\ joined' = joined /\ pair' = pair
       /\ wire' = wire /\ holders' = holders /\ child' = child /\ shut' = shut
       /\ \A w \in Ways : Stream(s, w)' = Stream(s, w) /\ (Open(s, w)' => Open(s, w))
  BY <1>7 DEF Leaves
<1>11. Way(s)'
  BY <1>3, <1>8 DEF Way
<1>12. Files(s)'
  BY <1>1, <1>3, <1>8, <1>9, <1>10 DEF Sound, Files, Forking, Running
<1>13. Child(s)'
  BY <1>1, <1>3, <1>8, <1>10 DEF Sound, Child, Running
<1>14. Streams(s)'
  BY <1>1, <1>3, <1>8, <1>10 DEF Sound, Streams, Running, Reading
<1>15. Has(s)'
  BY <1>1, <1>3, <1>8 DEF Sound, Has
<1>16. Totals(s)'
  <2>1. (Fine(s)' <=> Fine(s)) /\ Answers(s, way[s])' = Answers(s, way[s]) /\ Total(s)' = Total(s)
    BY <1>3, <1>8, <1>10 DEF Fine, Answers, Out, Total
  <2>2. Underway(s)' => Underway(s)
    BY <1>1, <1>3, <1>8, <1>10 DEF Underway, Reading
  <2>3. Totals(s)
    BY <1>3 DEF Sound
  <2> QED  BY <1>3, <1>8, <2>1, <2>2, <2>3 DEF Totals, Reading
<1>17. Sound(s)'
  BY <1>11, <1>12, <1>13, <1>14, <1>15, <1>16 DEF Sound
<1> QED  BY <1>7, <1>17, Others

LEMMA CloseKeeps ==
  ASSUME Typed, HoldersRun, \A t \in Sessions : Sound(t), NEW s \in Sessions, Close(s)
  PROVE  Typed' /\ HoldersRun' /\ \A t \in Sessions : Sound(t)'
<1> USE WaysAre
<1> DEFINE c == {pair[s][1]}
<1>1. /\ pc[s] = "close" /\ pc' = [pc EXCEPT ![s] = "wait"]
      /\ Closing(c)
      /\ UNCHANGED <<way, asked, got, call, why, skewed, object, program>>
  BY DEF Close, At, Goes, Closing, Closed
<1>2. ThreadTyped' /\ \A t \in Sessions : t # s => Quiets(t)
  BY <1>1 DEF Typed, ThreadTyped, Quiets, PCs
<1>3. Sound(s) /\ way[s] = "fork"
  BY <1>1 DEF Sound, Way
<1>4. \A f \in c \cap Fds : file[f].of \in {s, "nobody"}
  <2>1. \A f \in c \cap Fds : file[f] \in {Free, File(s, "fork")}
    BY DEF Close, Foreign
  <2>2. Free.of = "nobody" /\ File(s, "fork").of = s
    BY DEF Free, File
  <2> QED  BY <2>1, <2>2
<1> HIDE DEF c
<1>5. Typed' /\ HoldersRun' /\ Leaves(s, c) /\ \A t \in Sessions : t # s => Same(t)
  BY <1>1, <1>2, <1>4, CloseStep
<1>6. /\ pc'[s] = "wait" /\ way' = way /\ asked' = asked /\ got' = got /\ call' = call
      /\ skewed' = skewed /\ why' = why
  BY <1>1 DEF Typed, ThreadTyped
<1>7. /\ Of(s, "fork")' = {} /\ Of(s, "child")' = {}
      /\ \A w \in Instances : Of(s, w)' \subseteq Of(s, w)
  <2>1. Of(s, "child") = {}
    BY <1>1, <1>3 DEF Sound, Files, Forking
  <2>2. \A f \in Of(s, "fork") : f \in c
    BY <1>3 DEF Sound, Files, c
  <2>3. \A w \in Kinds : Of(s, w)' = Of(s, w) \ c
    BY <1>5 DEF Leaves
  <2> QED  BY <2>1, <2>2, <2>3 DEF Kinds
<1>8. /\ number' = number /\ joined' = joined /\ pair' = pair
      /\ wire' = wire /\ holders' = holders /\ child' = child /\ shut' = shut
      /\ \A w \in Ways : Stream(s, w)' = Stream(s, w) /\ (Open(s, w)' => Open(s, w))
  BY <1>5 DEF Leaves
<1>9. Way(s)'
  BY <1>3, <1>6 DEF Way
<1>10. Files(s)'
  BY <1>3, <1>6, <1>7, <1>8 DEF Sound, Files, Forking, Running
<1>11. Child(s)'
  BY <1>1, <1>3, <1>6, <1>8 DEF Sound, Child, Running
<1>12. Streams(s)'
  BY <1>1, <1>3, <1>6, <1>8 DEF Sound, Streams, Running, Reading
<1>13. Has(s)'
  BY <1>1, <1>3, <1>6 DEF Sound, Has
<1>14. Totals(s)'
  <2>1. (Fine(s)' <=> Fine(s)) /\ (Whole(s)' <=> Whole(s))
    BY <1>6, <1>8 DEF Fine, Whole, Out
  <2> QED  BY <1>1, <1>3, <1>6, <2>1 DEF Sound, Totals, Underway, Reading
<1>15. Sound(s)'
  BY <1>9, <1>10, <1>11, <1>12, <1>13, <1>14 DEF Sound
<1> QED  BY <1>5, <1>15, Others

LEMMA WaitKeeps ==
  ASSUME Typed, HoldersRun, \A t \in Sessions : Sound(t), NEW s \in Sessions, Wait(s)
  PROVE  Typed' /\ HoldersRun' /\ \A t \in Sessions : Sound(t)'
<1> USE WaysAre
<1>1. /\ pc[s] = "wait" /\ child[s] = "ended" /\ pc' = [pc EXCEPT ![s] = "done"]
      /\ child' = [child EXCEPT ![s] = "none"]
      /\ number' = [number EXCEPT ![s]["fork"] = 0]
      /\ pair' = [pair EXCEPT ![s] = <<0, 0>>]
      /\ UNCHANGED <<way, asked, got, call, why, skewed, joined, file, holders, shut>>
  BY DEF Wait, At, Goes
<1>2. PICK no \in Flags : no = FALSE
  BY TrueFalse, Zenon
<1> DEFINE v == [unread |-> << >>, rest |-> << >>, up |-> no]
<1>3. v \in Wire /\ v = Quiet
  <2>1. << >> \in Seq(Piece)
    BY EmptySeq
  <2> QED  BY <1>2, <2>1, Zenon DEF Wire, Quiet
<1>4. wire' = [wire EXCEPT ![s]["fork"] = v]
  BY <1>3, Zenon DEF Wait
<1> HIDE DEF v
<1>5. wire \in [Sessions -> [Ways -> Wire]]
  BY DEF Typed
<1>6. /\ wire' \in [Sessions -> [Ways -> Wire]]
      /\ \A x \in Instances : wire'[s][x] = wire[s][x]
      /\ \A t \in Sessions : t # s => wire'[t] = wire[t]
  BY <1>3, <1>4, <1>5, WireSet
<1>7. Sound(s) /\ way[s] = "fork"
  BY <1>1 DEF Sound, Way
<1>8. /\ pc'[s] = "done" /\ way' = way /\ asked' = asked /\ got' = got /\ call' = call
      /\ skewed' = skewed /\ why' = why /\ joined' = joined /\ file' = file /\ holders' = holders
      /\ shut' = shut /\ child'[s] = "none"
      /\ \A w \in Instances : number'[s][w] = number[s][w]
  BY <1>1 DEF Typed, ThreadTyped
<1>9. \A w : \A t \in Sessions : Of(t, w)' = Of(t, w)
  BY <1>8 DEF Of, In
<1>10. Typed'
  <2>1. ThreadTyped'
    BY <1>1, <1>8 DEF Typed, ThreadTyped, PCs
  <2>2. number' \in [Sessions -> [Ways -> Fds \cup {0}]]
    BY <1>1 DEF Typed
  <2>3. pair' \in [Sessions -> (Fds \cup {0}) \X (Fds \cup {0})]
    BY <1>1 DEF Typed
  <2>4. child' \in [Sessions -> {"none", "forked", "runs", "hangs", "ended"}]
    BY <1>1 DEF Typed
  <2> QED  BY <2>1, <2>2, <2>3, <2>4, <1>6, <1>8 DEF Typed
<1>11. HoldersRun'
  BY <1>1, <1>8 DEF HoldersRun, Typed
<1>12. ASSUME NEW t \in Sessions, t # s  PROVE Same(t)
  BY <1>1, <1>6, <1>8, <1>9, <1>12 DEF Same, Typed, ThreadTyped
<1>13. /\ Of(s, "fork") = {} /\ Of(s, "child") = {}
  BY <1>1, <1>7 DEF Sound, Files, Forking
<1>14. ASSUME NEW w \in Instances
       PROVE  (Open(s, w)' <=> Open(s, w)) /\ Stream(s, w)' = Stream(s, w)
  <2>1. number'[s][w] = number[s][w] /\ wire'[s][w] = wire[s][w] /\ Of(s, w)' = Of(s, w)
    BY <1>6, <1>8, <1>9
  <2> QED  BY <2>1 DEF Open, Stream
<1>15. Way(s)'
  BY <1>7, <1>8 DEF Way
<1>16. Files(s)'
  BY <1>1, <1>7, <1>8, <1>9, <1>13 DEF Sound, Files, Forking, Running
<1>17. Child(s)'
  BY <1>8 DEF Child, Running
<1>18. Streams(s)'
  BY <1>1, <1>6, <1>7, <1>8, <1>14 DEF Sound, Streams, Running, Reading
<1>19. Has(s)'
  BY <1>1, <1>7, <1>8 DEF Sound, Has
<1>20. Totals(s)'
  <2>1. (Fine(s)' <=> Fine(s)) /\ (Whole(s)' <=> Whole(s))
    BY <1>8 DEF Fine, Whole, Out
  <2> QED  BY <1>1, <1>7, <1>8, <2>1 DEF Sound, Totals, Underway, Reading
<1>21. Sound(s)'
  BY <1>15, <1>16, <1>17, <1>18, <1>19, <1>20 DEF Sound
<1> QED  BY <1>10, <1>11, <1>12, <1>21, Others

-----------------------------------------------------------------------------
(* The forked child.                                                       *)
LEMMA ExecKeeps ==
  ASSUME Typed, HoldersRun, \A t \in Sessions : Sound(t), NEW s \in Sessions, Exec(s) \/ Hangs(s)
  PROVE  Typed' /\ HoldersRun' /\ \A t \in Sessions : Sound(t)'
<1> USE WaysAre
<1>1. /\ child[s] \in {"forked", "runs"}
      /\ \E to \in {"runs", "hangs"} : child' = [child EXCEPT ![s] = to]
      /\ shut' \in [Sessions -> Flags] /\ (\A t \in Sessions : t # s => shut'[t] = shut[t])
      /\ shut[s] => shut'[s]
      /\ UNCHANGED <<thread, object, file, wire, holders>>
  <2>1. CASE Exec(s)
    <3>1. PICK b \in Flags : b = (shut[s] \/ ~Keeps(s))
      BY Zenon DEF Flags
    <3>2. shut' = [shut EXCEPT ![s] = b]
      BY <2>1, <3>1, Zenon DEF Exec
    <3>3. shut \in [Sessions -> Flags]
      BY DEF Typed
    <3>4. shut' \in [Sessions -> Flags] /\ (\A t \in Sessions : t # s => shut'[t] = shut[t]) /\ shut'[s] = b
      BY <3>2, <3>3
    <3>5. shut[s] => shut'[s]
      BY <3>1, <3>4, Zenon
    <3> QED  BY <2>1, <3>4, <3>5 DEF Exec
  <2>2. CASE Hangs(s)
    BY <2>2 DEF Hangs, Typed
  <2> QED  BY <2>1, <2>2
<1>2. Sound(s)
  OBVIOUS
<1>3. /\ pc' = pc /\ way' = way /\ asked' = asked /\ got' = got /\ call' = call
      /\ skewed' = skewed /\ why' = why /\ number' = number /\ pair' = pair /\ joined' = joined
      /\ file' = file /\ holders' = holders /\ wire' = wire
      /\ child'[s] \in {"runs", "hangs"}
  BY <1>1 DEF thread, object, Typed
<1>4. \A w : \A t \in Sessions : Of(t, w)' = Of(t, w)
  BY <1>3 DEF Of, In
<1>5. Typed'
  <2>1. ThreadTyped'
    BY <1>3 DEF Typed, ThreadTyped
  <2>2. child' \in [Sessions -> {"none", "forked", "runs", "hangs", "ended"}]
    BY <1>1 DEF Typed
  <2> QED  BY <2>1, <2>2, <1>1, <1>3 DEF Typed
<1>6. HoldersRun'
  BY <1>1, <1>3 DEF HoldersRun, Typed
<1>7. ASSUME NEW t \in Sessions, t # s  PROVE Same(t)
  BY <1>1, <1>3, <1>4, <1>7 DEF Same, Typed
<1>8. \A w : (Open(s, w)' <=> Open(s, w)) /\ Stream(s, w)' = Stream(s, w)
  BY <1>3, <1>4 DEF Open, Stream
<1>9. Way(s)'
  BY <1>2, <1>3 DEF Sound, Way
<1>10. Files(s)'
  BY <1>2, <1>3, <1>4 DEF Sound, Files
<1>11. Child(s)'
  BY <1>1, <1>2, <1>3, <1>8 DEF Sound, Child, Running
<1>12. Streams(s)'
  BY <1>2, <1>3, <1>8 DEF Sound, Streams, OwnParts
<1>13. Has(s)'
  BY <1>2, <1>3 DEF Sound, Has, OwnParts
<1>14. Totals(s)'
  <2>1. (Fine(s)' => Fine(s)) /\ (Whole(s)' <=> Whole(s)) /\ Answers(s, way[s])' = Answers(s, way[s])
    BY <1>1, <1>3 DEF Fine, Whole, Out, Answers
  <2>2. (Underway(s)' <=> Underway(s)) /\ Total(s)' = Total(s)
    BY <1>3, <1>8 DEF Underway, Total
  <2> QED  BY <1>2, <1>3, <2>1, <2>2 DEF Sound, Totals
<1>15. Sound(s)'
  BY <1>9, <1>10, <1>11, <1>12, <1>13, <1>14 DEF Sound
<1> QED  BY <1>5, <1>6, <1>7, <1>15, Others

LEMMA RunsKeeps ==
  ASSUME Typed, HoldersRun, \A t \in Sessions : Sound(t), NEW s \in Sessions, Runs(s)
  PROVE  Typed' /\ HoldersRun' /\ \A t \in Sessions : Sound(t)'
<1> USE WaysAre
<1>1. /\ child[s] = "runs"
      /\ UNCHANGED <<thread, object, file, shut>>
  BY DEF Runs
<1>2. Sound(s)
  OBVIOUS
<1>3. way[s] = "fork" /\ pc[s] \in Running
  BY <1>1, <1>2 DEF Sound, Child
<1>4. /\ pc' = pc /\ way' = way /\ asked' = asked /\ got' = got /\ call' = call
      /\ skewed' = skewed /\ why' = why /\ number' = number /\ pair' = pair /\ joined' = joined
      /\ file' = file /\ shut' = shut
  BY <1>1 DEF thread, object
<1>5. wire \in [Sessions -> [Ways -> Wire]]
  BY DEF Typed
(* It ends, and lets go of every end; or it sends a part.                  *)
<1>6. /\ wire' \in [Sessions -> [Ways -> Wire]]
      /\ \A w \in Instances : wire'[s][w] = wire[s][w]
      /\ Stream(s, "fork")' = Stream(s, "fork")
      /\ \A t \in Sessions : t # s => wire'[t] = wire[t]
      /\ Open(s, "fork") /\ s \notin holders'[s] => wire'[s]["fork"].rest = << >>
      /\ \/ holders' = holders /\ child' = child
         \/ Ends(s)
  <2>1. CASE wire[s]["fork"].rest = << >> \/ ~Reachable(s)
    <3>1. Ends(s) /\ wire' = wire
      BY <2>1 DEF Runs
    <3>2. Open(s, "fork") => Reachable(s)
      BY DEF Open, Of, In, Reachable
    <3> QED  BY <2>1, <3>1, <3>2, <1>5 DEF Stream
  <2>2. CASE ~(wire[s]["fork"].rest = << >> \/ ~Reachable(s))
    <3> DEFINE x == wire[s]["fork"]
               v == Moved(x)
    <3>1. /\ wire' = [wire EXCEPT ![s]["fork"].unread = Append(@, Head(wire[s]["fork"].rest)),
                                  ![s]["fork"].rest = Tail(@)]
          /\ holders' = holders /\ child' = child /\ x.rest # << >>
      BY <2>2, Zenon DEF Runs
    <3>2. wire' = [wire EXCEPT ![s]["fork"] = v]
      <4>1. "fork" \in Ways
        OBVIOUS
      <4> QED  BY <3>1, <4>1, <1>5, Sending, Zenon
    <3>3. x \in Wire
      BY <1>5
    <3>4. v \in Wire /\ v.unread \o v.rest = x.unread \o x.rest
      BY <3>1, <3>3, MovedIs
    <3>5. x.rest # << >> /\ holders' = holders /\ child' = child
      BY <3>1
    <3> HIDE DEF v
    <3>6. /\ wire' \in [Sessions -> [Ways -> Wire]] /\ wire'[s]["fork"] = v
          /\ \A y \in Instances : wire'[s][y] = wire[s][y]
          /\ \A t \in Sessions : t # s => wire'[t] = wire[t]
      BY <3>2, <3>4, <1>5, WireSet
    <3>7. Open(s, "fork") => s \in holders[s]
      BY <3>5, <1>2, <1>3 DEF Sound, Child
    <3> QED  BY <3>4, <3>5, <3>6, <3>7 DEF Stream
  <2> QED  BY <2>1, <2>2
<1>7. \A w : \A t \in Sessions : Of(t, w)' = Of(t, w)
  BY <1>4 DEF Of, In
<1>8. /\ child'[s] # "none" /\ child' \in [Sessions -> {"none", "forked", "runs", "hangs", "ended"}]
      /\ holders' \in [Sessions -> SUBSET Sessions]
      /\ HoldersRun'
      /\ \A t \in Sessions : t # s => child'[t] = child[t] /\ (t \in holders'[t] <=> t \in holders[t])
  <2>1. CASE holders' = holders /\ child' = child
    BY <2>1, <1>1 DEF Typed, HoldersRun
  <2>2. CASE Ends(s)
    <3>1. holders' = [t \in Sessions |-> holders[t] \ {s}] /\ child' = [child EXCEPT ![s] = "ended"]
      BY <2>2 DEF Ends
    <3>2. HoldersRun'
      BY <3>1 DEF HoldersRun, Typed
    <3> QED  BY <3>1, <3>2 DEF Typed
  <2> QED  BY <1>6, <2>1, <2>2
<1>9. Typed'
  <2>1. ThreadTyped'
    BY <1>4 DEF Typed, ThreadTyped
  <2> QED  BY <2>1, <1>4, <1>6, <1>8 DEF Typed
<1>10. ASSUME NEW t \in Sessions, t # s  PROVE Same(t)
  BY <1>4, <1>6, <1>7, <1>8, <1>10 DEF Same
<1>11. ASSUME NEW w \in Ways  PROVE (Open(s, w)' <=> Open(s, w)) /\ Stream(s, w)' = Stream(s, w)
  <2>1. number'[s][w] = number[s][w] /\ Of(s, w)' = Of(s, w)
    BY <1>4, <1>7
  <2>2. w = "fork" \/ wire'[s][w] = wire[s][w]
    BY <1>6
  <2> QED  BY <2>1, <2>2, <1>6 DEF Open, Stream
<1>12. Way(s)'
  BY <1>2, <1>4 DEF Sound, Way
<1>13. Files(s)'
  BY <1>2, <1>4, <1>7 DEF Sound, Files
<1>14. Child(s)'
  BY <1>3, <1>4, <1>6, <1>8, <1>11 DEF Child
<1>15. Streams(s)'
  BY <1>2, <1>4, <1>6, <1>11 DEF Sound, Streams, OwnParts
<1>16. Has(s)'
  BY <1>2, <1>4 DEF Sound, Has, OwnParts
<1>17. Totals(s)'
  <2>1. (Fine(s)' <=> Fine(s)) /\ (Whole(s)' <=> Whole(s)) /\ Answers(s, way[s])' = Answers(s, way[s])
    BY <1>4 DEF Fine, Whole, Out, Answers
  <2>2. (Underway(s)' <=> Underway(s)) /\ Total(s)' = Total(s)
    BY <1>3, <1>4, <1>11 DEF Underway, Total
  <2> QED  BY <1>2, <1>4, <2>1, <2>2 DEF Sound, Totals
<1>18. Sound(s)'
  BY <1>12, <1>13, <1>14, <1>15, <1>16, <1>17 DEF Sound
<1> QED  BY <1>8, <1>9, <1>10, <1>18, Others

-----------------------------------------------------------------------------
(* A connection is given up and another made.                              *)
Spared(s, files) ==
  /\ files \in [Fds -> Opened] /\ In(files, s, way[s]) = {}
  /\ \A x \in Kinds : In(files, s, x) \subseteq Of(s, x)
  /\ \A t \in Sessions, x \in Kinds : t # s => In(files, t, x) = Of(t, x)

LEMMA GivenUp ==
  ASSUME Typed, NEW s \in Sessions, Sound(s), NEW w \in Instances, way[s] = w,
         joined[s][w] => ~Foreign(number[s][w], s, w)
  PROVE  Spared(s, Given(s, w))
<1> USE WaysAre
<1> DEFINE kept == Given(s, w)
<1>1. file \in [Fds -> Opened] /\ w \in Kinds
  BY DEF Typed, Kinds
<1>2. \A f \in Of(s, w) : number[s][w] = f
  BY DEF Sound, Files
<1>3. CASE joined[s][w]
  <2>1. PICK c : c = {number[s][w]}
    OBVIOUS
  <2>2. \A f \in c \cap Fds : file[f].of \in {s, "nobody"}
    <3>1. \A f \in c \cap Fds : file[f] \in {Free, File(s, w)}
      BY <1>3, <2>1 DEF Foreign
    <3>2. Free.of = "nobody" /\ File(s, w).of = s
      BY DEF Free, File
    <3> QED  BY <3>1, <3>2
  <2>3. PICK new : new = [f \in Fds |-> IF f \in c THEN Free ELSE file[f]]
    OBVIOUS
  <2>4. kept = new
    BY <1>3, <2>1, <2>3 DEF Closed, Given
  <2>5. /\ new \in [Fds -> Opened]
        /\ \A x \in Kinds : In(new, s, x) = In(file, s, x) \ c
        /\ \A t \in Sessions, x \in Kinds : t # s => In(new, t, x) = In(file, t, x)
    BY <1>1, <2>2, <2>3, CloseFiles, SMTT(60)
  <2>6. Spared(s, new)
    BY <1>1, <1>2, <2>1, <2>5 DEF Of, Spared
  <2> QED  BY <2>4, <2>6
<1>4. CASE ~joined[s][w] /\ Mine(number[s][w], s, w)
  <2>1. PICK g \in Fds : g = number[s][w] /\ file[g] = File(s, w)
    <3>1. number[s][w] \in Fds
      BY <1>4 DEF Typed, Mine, Ways
    <3> QED  BY <1>4, <3>1 DEF Mine
  <2>2. kept = With(file, g, File(s, "left"))
    BY <1>4, <2>1 DEF Given
  <2> HIDE DEF kept
  <2>3. /\ kept \in [Fds -> Opened]
        /\ In(kept, s, w) = In(file, s, w) \ {g}
        /\ \A x \in Kinds : x # w => In(kept, s, x) = In(file, s, x)
        /\ \A t \in Sessions, x \in Kinds : t # s => In(kept, t, x) = In(file, t, x)
    BY <1>1, <2>1, <2>2, LeaveFile
  <2>4. Spared(s, kept)
    BY <1>1, <1>2, <2>1, <2>3 DEF Of, Spared
  <2> QED  BY <2>4 DEF kept
<1>5. CASE ~joined[s][w] /\ ~Mine(number[s][w], s, w)
  <2>1. kept = file
    BY <1>5 DEF Given
  <2>2. Of(s, w) = {}
    <3>1. ASSUME NEW f \in Of(s, w)  PROVE FALSE
      BY <1>2, <1>5, <3>1 DEF Of, In, Mine
    <3> QED  BY <3>1
  <2> QED  BY <1>1, <2>1, <2>2 DEF Of, Spared
<1> QED  BY <1>3, <1>4, <1>5

(* A socket that is left behind is no one's, and the next is the object's. *)
LEMMA BehindSpares ==
  ASSUME NEW s \in Sessions, NEW w \in Instances, way[s] = w, NEW files, Spared(s, files),
         NEW after \in Behind(s, w, files)
  PROVE  Spared(s, after)
<1>1. CASE after = files
  BY <1>1
<1>2. CASE \E g \in Fds : FirstFree(files, g) /\ after = With(files, g, File(s, "left"))
  <2>1. PICK g \in Fds : files[g] = Free /\ after = With(files, g, File(s, "left"))
    BY <1>2 DEF FirstFree
  <2>2. w \in Kinds /\ files \in [Fds -> Opened]
    BY WaysAre DEF Kinds, Spared
  <2>3. /\ after \in [Fds -> Opened]
        /\ In(after, s, w) = In(files, s, w) \ {g}
        /\ \A x \in Kinds : x # w => In(after, s, x) = In(files, s, x)
        /\ \A t \in Sessions, x \in Kinds : t # s => In(after, t, x) = In(files, t, x)
    BY <2>1, <2>2, LeaveFile
  <2> QED  BY <2>2, <2>3 DEF Spared
<1> QED  BY <1>1, <1>2 DEF Behind

LEMMA SocketIs ==
  ASSUME Typed, NEW s \in Sessions, NEW w \in Instances, way[s] = w,
         NEW kept, Spared(s, kept), NEW up \in Flags, Socket(s, w, kept, up)
  PROVE  \E g \in Fds :
           /\ wire' \in [Sessions -> [Ways -> Wire]]
           /\ wire'[s][w].unread = << >> /\ wire'[s][w].rest = << >>
           /\ \A x \in Ways : x # w => wire'[s][x] = wire[s][x]
           /\ \A t \in Sessions : t # s => wire'[t] = wire[t]
           /\ file' \in [Fds -> Opened] /\ Of(s, w)' = {g}
           /\ \A x \in Kinds : x # w => Of(s, x)' \subseteq Of(s, x)
           /\ \A t \in Sessions, x \in Kinds : t # s => Of(t, x)' = Of(t, x)
           /\ number' \in [Sessions -> [Ways -> Fds \cup {0}]] /\ number'[s][w] = g
           /\ \A x \in Ways : x # w => number'[s][x] = number[s][x]
           /\ \A t \in Sessions : t # s => number'[t] = number[t]
           /\ skewed' \in [Sessions -> SUBSET Instances] /\ skewed'[s] = skewed[s] \ {w}
           /\ \A t \in Sessions : t # s => skewed'[t] = skewed[t]
<1> USE WaysAre
<1>1. PICK g \in Fds :
        kept[g] = Free /\ file' = With(kept, g, File(s, w)) /\ number' = [number EXCEPT ![s][w] = g]
  BY DEF Socket, FirstFree
<1>2. kept \in [Fds -> Opened]
  BY DEF Spared
<1> DEFINE v == [unread |-> << >>, rest |-> << >>, up |-> up]
<1>5. v \in Wire
  <2>1. << >> \in Seq(Piece)
    BY EmptySeq
  <2> QED  BY <2>1 DEF Wire
<1>6. wire' = [wire EXCEPT ![s][w] = v]
  <2>1. wire' = [wire EXCEPT ![s][w] = [Quiet EXCEPT !.up = up]]
    BY DEF Socket
  <2>2. PICK no \in Flags : no = FALSE
    BY TrueFalse, Zenon
  <2>3. [Quiet EXCEPT !.up = up] = [[unread |-> << >>, rest |-> << >>, up |-> no] EXCEPT !.up = up]
    BY <2>2, Zenon DEF Quiet
  <2>4. [[unread |-> << >>, rest |-> << >>, up |-> no] EXCEPT !.up = up] = v
    OBVIOUS
  <2> QED  BY <2>1, <2>3, <2>4, Zenon
<1>7. v.unread = << >> /\ v.rest = << >>
  OBVIOUS
<1> HIDE DEF v
<1>8. w \in Ways /\ w \in Kinds
  BY DEF Kinds
<1>9. /\ wire' \in [Sessions -> [Ways -> Wire]] /\ wire'[s][w] = v
      /\ \A x \in Ways : x # w => wire'[s][x] = wire[s][x]
      /\ \A t \in Sessions : t # s => wire'[t] = wire[t]
  <2>1. wire \in [Sessions -> [Ways -> Wire]]
    BY DEF Typed
  <2> QED  BY <1>5, <1>6, <1>8, <2>1, WireSet
<1>10. /\ file' \in [Fds -> Opened] /\ Of(s, w)' = {g}
       /\ \A x \in Kinds : x # w => Of(s, x)' \subseteq Of(s, x)
       /\ \A t \in Sessions, x \in Kinds : t # s => Of(t, x)' = Of(t, x)
  <2> DEFINE new == file'
  <2>1. File(s, w) \in Opened
    BY <1>8, FilesApart
  <2>2. new \in [Fds -> Opened] /\ new[g] = File(s, w) /\ \A f \in Fds : f # g => new[f] = kept[f]
    BY <1>1, <1>2, <2>1 DEF With
  <2>3. kept[g] = Free
    BY <1>1
  <2> HIDE DEF new
  <2>4. /\ In(new, s, w) = In(kept, s, w) \cup {g}
        /\ \A x \in Kinds : x # w => In(new, s, x) = In(kept, s, x)
        /\ \A t \in Sessions, x \in Kinds : t # s => In(new, t, x) = In(kept, t, x)
    BY <1>2, <1>8, <2>2, <2>3, OpenFile
  <2>6. ASSUME NEW t \in Sessions, NEW x \in Kinds  PROVE Of(t, x)' = In(new, t, x)
    BY DEF Of, new
  <2>7. Of(s, w)' = {g} /\ \A x \in Kinds : x # w => Of(s, x)' \subseteq Of(s, x)
    BY <1>8, <2>4, <2>6 DEF Spared
  <2>8. \A t \in Sessions, x \in Kinds : t # s => Of(t, x)' = Of(t, x)
    BY <2>4, <2>6 DEF Spared
  <2>9. new = file'
    BY DEF new
  <2> QED  BY <2>2, <2>7, <2>8, <2>9
<1>11. /\ number' \in [Sessions -> [Ways -> Fds \cup {0}]] /\ number'[s][w] = g
       /\ \A x \in Ways : x # w => number'[s][x] = number[s][x]
       /\ \A t \in Sessions : t # s => number'[t] = number[t]
  BY <1>1, <1>8 DEF Typed
<1>12. /\ skewed' \in [Sessions -> SUBSET Instances] /\ skewed'[s] = skewed[s] \ {w}
       /\ \A t \in Sessions : t # s => skewed'[t] = skewed[t]
  BY DEF Socket, Typed, ThreadTyped
<1> QED  BY <1>7, <1>9, <1>10, <1>11, <1>12

(* What is kept and what is made of a session's other ways stays as it is. *)
LEMMA OtherWays ==
  ASSUME Typed, NEW s \in Sessions, NEW w \in Instances, Sound(s), way[s] = w, pc[s] \notin Reading,
         NEW x \in Instances, x # w,
         Open(s, x)' => Open(s, x), Stream(s, x)' = Stream(s, x), wire'[s][x] = wire[s][x],
         skewed'[s] \in {skewed[s], skewed[s] \ {w}}
  PROVE  /\ ~wire'[s][x].up => wire'[s][x].rest = << >>
         /\ x = "fcgi" /\ wire'[s][x].up => LET q == Stream(s, x)' IN q # << >> => q[Len(q)].part = 0
         /\ (x \notin skewed'[s] /\ Open(s, x)') => Stream(s, x)' = << >>
<1>1. /\ ~wire[s][x].up => wire[s][x].rest = << >>
      /\ x = "fcgi" /\ wire[s][x].up => LET q == Stream(s, x) IN q # << >> => q[Len(q)].part = 0
      /\ (x \notin skewed[s] /\ Open(s, x)) => Stream(s, x) = << >>
  BY DEF Sound, Streams
<1> QED  BY <1>1

LEMMA DialledKeeps ==
  ASSUME Typed, HoldersRun, \A t \in Sessions : Sound(t), NEW s \in Sessions, Connect(s),
         NEW kept, Spared(s, kept), Dialled(s, way[s], kept)
  PROVE  Typed' /\ HoldersRun' /\ \A t \in Sessions : Sound(t)'
<1> USE WaysAre
<1>0. PICK w \in Instances : w = way[s]
  <2>1. pc[s] = "peek" /\ Sound(s)
    BY DEF Connect, At
  <2> QED  BY <2>1 DEF Sound, Way
<1>2. /\ pc[s] = "peek" /\ pc' = [pc EXCEPT ![s] = "begin"]
      /\ joined' = [joined EXCEPT ![s][w] = TRUE]
      /\ UNCHANGED <<way, asked, got, call, why, pair, holders, child, shut>>
  BY <1>0 DEF Connect, Dialled, At, Goes
<1>3. Sound(s) /\ w \in Instances
  OBVIOUS
<1>4. PICK yes \in Flags : yes = TRUE
  BY TrueFalse, Zenon
<1>1. PICK g \in Fds :
           /\ wire' \in [Sessions -> [Ways -> Wire]]
           /\ wire'[s][w].unread = << >> /\ wire'[s][w].rest = << >>
           /\ \A x \in Ways : x # w => wire'[s][x] = wire[s][x]
           /\ \A t \in Sessions : t # s => wire'[t] = wire[t]
           /\ file' \in [Fds -> Opened] /\ Of(s, w)' = {g}
           /\ \A x \in Kinds : x # w => Of(s, x)' \subseteq Of(s, x)
           /\ \A t \in Sessions, x \in Kinds : t # s => Of(t, x)' = Of(t, x)
           /\ number' \in [Sessions -> [Ways -> Fds \cup {0}]] /\ number'[s][w] = g
           /\ \A x \in Ways : x # w => number'[s][x] = number[s][x]
           /\ \A t \in Sessions : t # s => number'[t] = number[t]
           /\ skewed' \in [Sessions -> SUBSET Instances] /\ skewed'[s] = skewed[s] \ {w}
           /\ \A t \in Sessions : t # s => skewed'[t] = skewed[t]
  <2>1. \/ \E files \in Behind(s, w, kept) : Socket(s, w, files, TRUE)
        \/ Socket(s, w, kept, FALSE)
    BY <1>0, Zenon DEF Dialled
  <2>2. \A files \in Behind(s, w, kept) : Spared(s, files)
    BY <1>0, BehindSpares
  <2>3. \E files : \E up \in Flags : Spared(s, files) /\ Socket(s, w, files, up)
    BY <2>1, <2>2, TrueFalse, Zenon
  <2>4. PICK files : \E up \in Flags : Spared(s, files) /\ Socket(s, w, files, up)
    BY <2>3
  <2>5. PICK up \in Flags : Spared(s, files) /\ Socket(s, w, files, up)
    BY <2>4
  <2> QED  BY <1>0, <2>5, SocketIs
<1>8. w \in Ways /\ w \in Kinds /\ w # "fork" /\ w # "child"
  BY <1>3 DEF Kinds
<1>9. /\ wire' \in [Sessions -> [Ways -> Wire]]
      /\ wire'[s][w].unread = << >> /\ wire'[s][w].rest = << >>
      /\ \A x \in Ways : x # w => wire'[s][x] = wire[s][x]
      /\ \A t \in Sessions : t # s => wire'[t] = wire[t]
  BY <1>1
<1>10. /\ file' \in [Fds -> Opened] /\ Of(s, w)' = {g}
       /\ \A x \in Kinds : x # w => Of(s, x)' \subseteq Of(s, x)
       /\ \A t \in Sessions, x \in Kinds : t # s => Of(t, x)' = Of(t, x)
  BY <1>1
<1>11. /\ pc'[s] = "begin" /\ way' = way /\ asked' = asked /\ got' = got /\ call' = call /\ why' = why
       /\ pair' = pair /\ holders' = holders /\ child' = child /\ shut' = shut
       /\ skewed'[s] = skewed[s] \ {w}
       /\ number'[s][w] = g
       /\ \A x \in Ways : x # w => number'[s][x] = number[s][x]
  BY <1>1, <1>2 DEF Typed, ThreadTyped
<1>12. Typed'
  <2>1. ThreadTyped'
    BY <1>1, <1>2, <1>11 DEF Typed, ThreadTyped, PCs
  <2>3. joined' \in [Sessions -> [Instances -> Flags]]
    <3>1. joined' = [joined EXCEPT ![s][w] = yes]
      BY <1>2, <1>4, Zenon
    <3> QED  BY <1>3, <3>1 DEF Typed
  <2> QED  BY <2>1, <2>3, <1>1, <1>11 DEF Typed
<1>13. HoldersRun'
  BY <1>11 DEF HoldersRun
<1>14. ASSUME NEW t \in Sessions, t # s  PROVE Same(t)
  <2>1. \A x \in Ways \cup {"child"} : Of(t, x)' = Of(t, x)
    BY <1>10, <1>14 DEF Kinds
  <2>2. number'[t] = number[t] /\ joined'[t] = joined[t] /\ skewed'[t] = skewed[t] /\ pc'[t] = pc[t]
    BY <1>1, <1>2, <1>14 DEF Typed, ThreadTyped
  <2> QED  BY <2>1, <2>2, <1>9, <1>11, <1>14 DEF Same
<1>15. Stream(s, w)' = << >>
  <2>1. Stream(s, w)' = << >> \o << >>
    BY <1>9 DEF Stream
  <2> QED  BY <2>1
<1>16. ASSUME NEW x \in Ways, x # w
       PROVE  (Open(s, x)' => Open(s, x)) /\ Stream(s, x)' = Stream(s, x) /\ wire'[s][x] = wire[s][x]
  <2>1. number'[s][x] = number[s][x] /\ wire'[s][x] = wire[s][x] /\ Of(s, x)' \subseteq Of(s, x)
    BY <1>9, <1>10, <1>11, <1>16 DEF Kinds
  <2> QED  BY <2>1 DEF Open, Stream
<1>17. /\ way[s] = w /\ got[s] = << >> /\ call[s] = << >>
       /\ Of(s, "fork") = {} /\ Of(s, "child") = {} /\ child[s] = "none"
  <2>1. way[s] = w
    BY <1>0
  <2>2. call[s] = << >> /\ got[s] = << >>
    BY <1>2, <1>3 DEF Sound, Has
  <2> QED  BY <2>1, <2>2, <1>2, <1>3, <1>8 DEF Sound, Files, Forking, Child
<1>18. Way(s)'
  BY <1>3, <1>11, <1>17 DEF Way
<1>19. Files(s)'
  <2>1. Of(s, "fork")' = {} /\ Of(s, "child")' = {}
    BY <1>8, <1>10, <1>17 DEF Kinds
  <2>2. \A x \in Instances : \A f \in Of(s, x)' : number'[s][x] = f
    BY <1>3, <1>10, <1>11 DEF Sound, Files, Kinds
  <2> QED  BY <2>1, <2>2, <1>8, <1>11, <1>17 DEF Files, Forking
<1>20. Child(s)'
  BY <1>8, <1>11, <1>17 DEF Child, Running
<1>21. Streams(s)'
  <2>1. ASSUME NEW x \in Instances, x # w
        PROVE  /\ ~wire'[s][x].up => wire'[s][x].rest = << >>
               /\ x = "fcgi" /\ wire'[s][x].up => LET q == Stream(s, x)' IN q # << >> => q[Len(q)].part = 0
               /\ (x \notin skewed'[s] /\ Open(s, x)') => Stream(s, x)' = << >>
    BY <2>1, <1>2, <1>3, <1>11, <1>16, <1>17, OtherWays DEF Reading
  <2> QED  BY <2>1, <1>8, <1>9, <1>11, <1>15, <1>17 DEF Streams, Reading
<1>22. Has(s)'
  BY <1>11, <1>17, OwnNone DEF Has
<1>23. Totals(s)'
  BY <1>8, <1>11, <1>17 DEF Totals, Underway, Reading
<1>24. Sound(s)'
  BY <1>18, <1>19, <1>20, <1>21, <1>22, <1>23 DEF Sound
<1> QED  BY <1>12, <1>13, <1>14, <1>24, Others

LEMMA NotReachedKeeps ==
  ASSUME Typed, HoldersRun, \A t \in Sessions : Sound(t), NEW s \in Sessions, Connect(s),
         NEW kept, Spared(s, kept), NotReached(s, way[s], kept)
  PROVE  Typed' /\ HoldersRun' /\ \A t \in Sessions : Sound(t)'
<1> USE WaysAre
<1>0. PICK w \in Instances : w = way[s]
  <2>1. pc[s] = "peek" /\ Sound(s)
    BY DEF Connect, At
  <2> QED  BY <2>1 DEF Sound, Way
<1> DEFINE error == <<Error>>
<1>1. /\ pc[s] = "peek" /\ pc' = [pc EXCEPT ![s] = "done"]
      /\ joined' = [joined EXCEPT ![s][w] = FALSE]
      /\ got' = Sent(s, error) /\ why' = [why EXCEPT ![s] = @ \cup {"not connected"}]
      /\ UNCHANGED <<way, asked, call, pair, holders, child, shut>>
  BY <1>0 DEF Connect, NotReached, At, Goes, Fails, Because
<1>2. w \in Ways /\ w \in Kinds /\ w # "fork" /\ w # "child"
  BY DEF Kinds
<1>3. Sound(s) /\ got[s] = << >> /\ call[s] = << >> /\ child[s] = "none"
      /\ Of(s, "fork") = {} /\ Of(s, "child") = {}
  BY <1>0, <1>1, <1>2 DEF Sound, Has, Child, Files, Forking
<1>4. error \in Seq(Piece) /\ OwnParts(error, asked[s])
  BY PiecesAre, OwnOne
<1> HIDE DEF error
<1>5. /\ got' \in [Sessions -> Seq(Piece)] /\ (\A t \in Sessions : t # s => got'[t] = got[t])
      /\ OwnParts(got'[s], asked[s])
  <2>1. /\ Sent(s, error) \in [Sessions -> Seq(Piece)]
        /\ \A t \in Sessions : t # s => Sent(s, error)[t] = got[t]
        /\ OwnParts(got[s], asked[s]) /\ OwnParts(error, asked[s]) => OwnParts(Sent(s, error)[s], asked[s])
    BY <1>4, SentIs
  <2>2. OwnParts(got[s], asked[s])
    BY <1>3, OwnNone
  <2> QED  BY <1>1, <1>4, <2>1, <2>2
(* With a socket that could not be bound, or with none.                    *)
<1>7. /\ wire' \in [Sessions -> [Ways -> Wire]]
      /\ \/ wire' = wire /\ Of(s, w)' = {} /\ skewed' = skewed
         \/ /\ wire'[s][w].unread = << >> /\ wire'[s][w].rest = << >>
            /\ Of(s, w)' = {number'[s][w]} /\ skewed'[s] = skewed[s] \ {w}
      /\ \A x \in Ways : x # w => wire'[s][x] = wire[s][x]
      /\ \A t \in Sessions : t # s => wire'[t] = wire[t]
      /\ file' \in [Fds -> Opened]
      /\ \A x \in Kinds : x # w => Of(s, x)' \subseteq Of(s, x)
      /\ \A t \in Sessions, x \in Kinds : t # s => Of(t, x)' = Of(t, x)
      /\ number' \in [Sessions -> [Ways -> Fds \cup {0}]]
      /\ \A x \in Ways : x # w => number'[s][x] = number[s][x]
      /\ \A t \in Sessions : t # s => number'[t] = number[t]
      /\ skewed' \in [Sessions -> SUBSET Instances]
      /\ \A t \in Sessions : t # s => skewed'[t] = skewed[t]
  <2>1. CASE /\ file' \in {kept} \cup Behind(s, w, kept)
             /\ number' = [number EXCEPT ![s][w] = 0] /\ UNCHANGED <<wire, skewed>>
    <3>1. Spared(s, file')
      BY <1>0, <2>1, BehindSpares
    <3> DEFINE new == file'
    <3>2. Spared(s, new)
      BY <3>1
    <3>3. ASSUME NEW t \in Sessions, NEW x \in Kinds  PROVE Of(t, x)' = In(new, t, x)
      BY DEF Of
    <3>4. file' = new
      OBVIOUS
    <3> HIDE DEF new
    <3>5. /\ file' \in [Fds -> Opened] /\ Of(s, w)' = {}
          /\ \A x \in Kinds : x # w => Of(s, x)' \subseteq Of(s, x)
          /\ \A t \in Sessions, x \in Kinds : t # s => Of(t, x)' = Of(t, x)
      BY <1>0, <1>2, <3>2, <3>3, <3>4 DEF Spared
    <3> QED  BY <2>1, <3>5, <1>2 DEF Typed, ThreadTyped
  <2>2. CASE Socket(s, w, kept, FALSE)
    <3>1. PICK no \in Flags : Socket(s, w, kept, no)
      BY <2>2, TrueFalse, Zenon
    <3> QED  BY <1>0, <3>1, SocketIs
  <2>3. \/ /\ file' \in {kept} \cup Behind(s, w, kept)
           /\ number' = [number EXCEPT ![s][w] = 0] /\ UNCHANGED <<wire, skewed>>
        \/ Socket(s, w, kept, FALSE)
    BY <1>0, Zenon DEF NotReached
  <2> QED  BY <2>1, <2>2, <2>3
<1>6. /\ pc'[s] = "done" /\ way' = way /\ asked' = asked /\ call' = call
      /\ pair' = pair /\ holders' = holders /\ child' = child /\ shut' = shut
      /\ why'[s] # {}
  BY <1>1 DEF Typed, ThreadTyped
<1>8. Typed'
  <2>1. ThreadTyped'
    BY <1>1, <1>5, <1>7 DEF Typed, ThreadTyped, PCs
  <2>3. joined' \in [Sessions -> [Instances -> Flags]]
    <3>1. PICK no \in Flags : no = FALSE
      BY TrueFalse, Zenon
    <3>2. joined' = [joined EXCEPT ![s][w] = no]
      BY <1>1, <3>1, Zenon
    <3> QED  BY <3>2 DEF Typed
  <2> QED  BY <2>1, <2>3, <1>1, <1>7 DEF Typed
<1>9. HoldersRun'
  BY <1>6 DEF HoldersRun
<1>10. ASSUME NEW t \in Sessions, t # s  PROVE Same(t)
  <2>1. \A x \in Ways \cup {"child"} : Of(t, x)' = Of(t, x)
    BY <1>7, <1>10 DEF Kinds
  <2>2. joined'[t] = joined[t] /\ why'[t] = why[t] /\ pc'[t] = pc[t]
    BY <1>1, <1>10 DEF Typed, ThreadTyped
  <2> QED  BY <2>1, <2>2, <1>5, <1>6, <1>7, <1>10 DEF Same
<1>11. ASSUME NEW x \in Ways, x # w
       PROVE  (Open(s, x)' => Open(s, x)) /\ Stream(s, x)' = Stream(s, x) /\ wire'[s][x] = wire[s][x]
  <2>1. number'[s][x] = number[s][x] /\ wire'[s][x] = wire[s][x] /\ Of(s, x)' \subseteq Of(s, x)
    BY <1>7, <1>11 DEF Kinds
  <2> QED  BY <2>1 DEF Open, Stream
<1>12. Way(s)'
  BY <1>0, <1>6 DEF Way
<1>13. Files(s)'
  <2>1. Of(s, "fork")' = {} /\ Of(s, "child")' = {}
    BY <1>2, <1>3, <1>7 DEF Kinds
  <2>2. \A x \in Instances : \A f \in Of(s, x)' : number'[s][x] = f
    BY <1>3, <1>7 DEF Sound, Files, Kinds
  <2> QED  BY <2>1, <2>2, <1>0, <1>2, <1>6 DEF Files, Forking
<1>14. Child(s)'
  BY <1>0, <1>2, <1>3, <1>6 DEF Child, Running
<1>15. Streams(s)'
  <2>1. ASSUME NEW x \in Instances, x # w
        PROVE  /\ ~wire'[s][x].up => wire'[s][x].rest = << >>
               /\ x = "fcgi" /\ wire'[s][x].up => LET q == Stream(s, x)' IN q # << >> => q[Len(q)].part = 0
               /\ (x \notin skewed'[s] /\ Open(s, x)') => Stream(s, x)' = << >>
    <3>1. skewed'[s] \in {skewed[s], skewed[s] \ {w}} /\ pc[s] \notin Reading
      BY <1>1, <1>7 DEF Reading
    <3> QED  BY <2>1, <3>1, <1>0, <1>3, <1>11, OtherWays
  <2>2. CASE wire' = wire /\ Of(s, w)' = {} /\ skewed' = skewed
    <3>1. ~Open(s, w)' /\ Stream(s, w)' = Stream(s, w)
      BY <2>2 DEF Open, Stream
    <3>2. /\ ~wire[s][w].up => wire[s][w].rest = << >>
          /\ w = "fcgi" /\ wire[s][w].up => LET q == Stream(s, w) IN q # << >> => q[Len(q)].part = 0
      BY <1>3 DEF Sound, Streams
    <3> QED  BY <2>1, <2>2, <3>1, <3>2, <1>0, <1>2, <1>6 DEF Streams, Reading
  <2>3. CASE wire'[s][w].unread = << >> /\ wire'[s][w].rest = << >>
    <3>1. Stream(s, w)' = << >> \o << >>
      BY <2>3 DEF Stream
    <3>2. Stream(s, w)' = << >>
      BY <3>1
    <3> QED  BY <2>1, <2>3, <3>2, <1>0, <1>2, <1>6 DEF Streams, Reading
  <2> QED  BY <2>2, <2>3, <1>7
<1>16. Has(s)'
  BY <1>3, <1>5, <1>6, OwnNone DEF Has
<1>17. Totals(s)'
  BY <1>6 DEF Totals, Fine
<1>18. Sound(s)'
  BY <1>12, <1>13, <1>14, <1>15, <1>16, <1>17 DEF Sound
<1> QED  BY <1>8, <1>9, <1>10, <1>18, Others

LEMMA ConnectKeeps ==
  ASSUME Typed, HoldersRun, \A t \in Sessions : Sound(t), NEW s \in Sessions, Connect(s)
  PROVE  Typed' /\ HoldersRun' /\ \A t \in Sessions : Sound(t)'
<1>1. PICK w \in Instances : w = way[s]
  <2>1. pc[s] = "peek" /\ Sound(s)
    BY DEF Connect, At
  <2> QED  BY <2>1 DEF Sound, Way
<1>3. /\ joined[s][w] => ~Foreign(number[s][w], s, w)
      /\ Dialled(s, way[s], Given(s, w)) \/ NotReached(s, way[s], Given(s, w))
  BY <1>1, Zenon DEF Connect
<1>4. Spared(s, Given(s, w))
  BY <1>1, <1>3, GivenUp
<1> QED  BY <1>3, <1>4, DialledKeeps, NotReachedKeeps

-----------------------------------------------------------------------------
(* The program is told to answer.                                          *)
Adds(s, w, a) == wire' = [wire EXCEPT ![s][w].rest = @ \o a]

LEMMA TellStep ==
  ASSUME wire \in [Sessions -> [Ways -> Wire]], NEW s \in Sessions, NEW w \in Ways,
         NEW a \in Seq(Piece), Adds(s, w, a)
  PROVE  /\ wire' \in [Sessions -> [Ways -> Wire]]
         /\ wire'[s][w].up = wire[s][w].up
         /\ Stream(s, w) \in Seq(Piece) /\ Stream(s, w)' = Stream(s, w) \o a
         /\ \A x \in Ways : x # w => wire'[s][x] = wire[s][x]
         /\ \A t \in Sessions : t # s => wire'[t] = wire[t]
<1> DEFINE x == wire[s][w]
           v == [unread |-> x.unread, rest |-> x.rest \o a, up |-> x.up]
<1>1. wire' = [wire EXCEPT ![s][w] = v]
  <2> DEFINE e == x.rest \o a
  <2>1. wire' = [wire EXCEPT ![s][w] = [x EXCEPT !.rest = e]]
    BY Zenon DEF Adds
  <2> HIDE DEF e
  <2>2. PICK u \in Seq(Piece), r \in Seq(Piece), b \in Flags : x = [unread |-> u, rest |-> r, up |-> b]
    <3>1. x \in Wire
      OBVIOUS
    <3> HIDE DEF x
    <3> QED  BY <3>1 DEF Wire
  <2>3. x.unread = u /\ x.up = b
    <3> HIDE DEF x
    <3> QED  BY <2>2
  <2>4. [[unread |-> u, rest |-> r, up |-> b] EXCEPT !.rest = e] = [unread |-> u, rest |-> e, up |-> b]
    OBVIOUS
  <2>5. [x EXCEPT !.rest = e] = [unread |-> x.unread, rest |-> e, up |-> x.up]
    BY <2>2, <2>3, <2>4, Zenon
  <2> QED  BY <2>1, <2>5, Zenon DEF e
<1>2. x.unread \in Seq(Piece) /\ x.rest \in Seq(Piece) /\ x.up \in Flags
  BY DEF Wire
<1>3. x.rest \o a \in Seq(Piece)
  BY <1>2, OwnConcat
<1>4. v \in Wire
  BY <1>2, <1>3 DEF Wire
<1>5. x.unread \o (x.rest \o a) = (x.unread \o x.rest) \o a /\ x.unread \o x.rest \in Seq(Piece)
  <2> DEFINE u == x.unread
             r == x.rest
  <2>1. u \in Seq(Piece) /\ r \in Seq(Piece)
    BY <1>2
  <2> HIDE DEF u, r
  <2>2. u \o (r \o a) = (u \o r) \o a
    BY <2>1, ConcatAssociative
  <2>3. u \o r \in Seq(Piece)
    BY <2>1, OwnConcat
  <2> QED  BY <2>2, <2>3 DEF u, r
<1>6. v.unread \o v.rest = (x.unread \o x.rest) \o a /\ v.up = x.up
  BY <1>5
<1> DEFINE new == wire'
<1>7. new = [wire EXCEPT ![s][w] = v]
  BY <1>1
<1> HIDE DEF v, new
<1>8. /\ new \in [Sessions -> [Ways -> Wire]] /\ new[s][w] = v
      /\ \A y \in Ways : y # w => new[s][y] = wire[s][y]
      /\ \A t \in Sessions : t # s => new[t] = wire[t]
  BY <1>4, <1>7, WireSet
<1>9. Stream(s, w)' = new[s][w].unread \o new[s][w].rest
  BY DEF Stream, new
<1>10. Stream(s, w)' = (x.unread \o x.rest) \o a
  BY <1>6, <1>8, <1>9
<1>11. Stream(s, w) \in Seq(Piece) /\ Stream(s, w)' = Stream(s, w) \o a
  BY <1>5, <1>10 DEF Stream
<1>12. new = wire'
  BY DEF new
<1>13. new[s][w].up = x.up
  BY <1>6, <1>8
<1> QED  BY <1>8, <1>11, <1>12, <1>13

LEMMA LastIs ==
  ASSUME NEW p \in Seq(Piece), NEW q \in Seq(Piece), q # << >>
  PROVE  p \o q # << >> /\ (p \o q)[Len(p \o q)] = q[Len(q)]
<1>1. /\ p \o q \in Seq(Piece) /\ Len(p \o q) = Len(p) + Len(q)
      /\ \A i \in 1 .. Len(p) + Len(q) : (p \o q)[i] = IF i <= Len(p) THEN p[i] ELSE q[i - Len(p)]
  BY ConcatProperties
<1>2. Len(p) \in Nat /\ Len(q) \in Nat /\ Len(q) > 0
  BY LenProperties, EmptySeq
<1> DEFINE r == p \o q
           n == Len(p) + Len(q)
<1>3. n \in 1 .. Len(p) + Len(q) /\ ~(n <= Len(p)) /\ n - Len(p) = Len(q)
  BY <1>2
<1>4. r[n] = q[n - Len(p)]
  BY <1>1, <1>3
<1>5. r # << >>
  BY <1>1, <1>2
<1> QED  BY <1>1, <1>3, <1>4, <1>5

(* An application is heard of the whole request, and answers.              *)
LEMMA ToldKeeps ==
  ASSUME Typed, HoldersRun, \A t \in Sessions : Sound(t), NEW s \in Sessions,
         NEW w \in Instances, way[s] = w, pc[s] \in {"begin", "send"}, Heard(s, w),
         pc' = [pc EXCEPT ![s] = "first"],
         NEW answer \in Answers(s, w), Adds(s, w, answer),
         UNCHANGED <<way, asked, got, call, why, skewed, object, file, holders, child, shut>>
  PROVE  Typed' /\ HoldersRun' /\ \A t \in Sessions : Sound(t)'
<1> USE WaysAre
<1>1. w \in Ways /\ w \in Kinds /\ w # "fork" /\ w # "child"
  BY DEF Kinds
<1>2. Sound(s)
  OBVIOUS
<1>3. Open(s, w) /\ wire[s][w].up
  <2>1. number[s][w] \in Fds \cup {0}
    BY <1>1 DEF Typed
  <2> QED  BY <1>1, <2>1 DEF Heard, Mine, Open, Of, In
<1>4. /\ answer \in Seq(Piece) /\ OwnParts(answer, asked[s])
      /\ w = "fcgi" => /\ Len(answer) = 3 /\ answer[3] = Out(s, 0) /\ answer[2] \in {Out(s, 1), Out(s, 2)}
                       /\ answer[1] \in {Out(s, 1), Out(s, 9)}
  BY <1>1, AnswersAre
<1>5. w = "scgi" => answer = <<Out(s, 1)>>
  BY WaysAre DEF Answers
<1>6. answer # << >>
  <2>1. w = "fcgi" \/ w = "scgi"
    OBVIOUS
  <2> QED  BY <2>1, <1>4, <1>5
<1>7. /\ wire' \in [Sessions -> [Ways -> Wire]]
      /\ wire'[s][w].up = wire[s][w].up
      /\ Stream(s, w) \in Seq(Piece) /\ Stream(s, w)' = Stream(s, w) \o answer
      /\ \A x \in Ways : x # w => wire'[s][x] = wire[s][x]
      /\ \A t \in Sessions : t # s => wire'[t] = wire[t]
  <2>1. wire \in [Sessions -> [Ways -> Wire]]
    BY DEF Typed
  <2>2. answer \in Seq(Piece)
    BY <1>4
  <2>3. w \in Ways
    BY <1>1
  <2> HIDE WaysAre
  <2> QED  BY <2>1, <2>2, <2>3, TellStep
<1>8. /\ pc'[s] = "first" /\ way' = way /\ asked' = asked /\ got' = got /\ call' = call /\ why' = why
      /\ skewed' = skewed /\ number' = number /\ joined' = joined /\ pair' = pair /\ file' = file
      /\ holders' = holders /\ child' = child /\ shut' = shut
  BY DEF object, Typed, ThreadTyped
<1>9. \A x : \A t \in Sessions : Of(t, x)' = Of(t, x)
  BY <1>8 DEF Of, In
<1>10. \A t \in Sessions : t # s => pc'[t] = pc[t]
  BY DEF Typed, ThreadTyped
<1>11. pc' \in [Sessions -> PCs]
  BY DEF Typed, ThreadTyped, PCs
<1>12. Typed'
  BY <1>7, <1>8, <1>11 DEF Typed, ThreadTyped
<1>13. HoldersRun'
  BY <1>8 DEF HoldersRun
<1>14. ASSUME NEW t \in Sessions, t # s  PROVE Same(t)
  BY <1>7, <1>8, <1>9, <1>10, <1>14 DEF Same
<1>15. ASSUME NEW x \in Ways, x # w
       PROVE  (Open(s, x)' <=> Open(s, x)) /\ Stream(s, x)' = Stream(s, x) /\ wire'[s][x] = wire[s][x]
  <2>1. number'[s][x] = number[s][x] /\ wire'[s][x] = wire[s][x] /\ Of(s, x)' = Of(s, x)
    BY <1>7, <1>8, <1>9, <1>15
  <2> QED  BY <2>1 DEF Open, Stream
<1>16. Way(s)'
  BY <1>8, <1>1 DEF Way
<1>17. Files(s)'
  BY <1>2, <1>1, <1>8, <1>9 DEF Sound, Files, Forking
<1>18. Child(s)'
  BY <1>2, <1>1, <1>8 DEF Sound, Child
<1>19. w \notin skewed[s] => Stream(s, w)' = answer
  <2> SUFFICES ASSUME w \notin skewed[s]  PROVE Stream(s, w)' = answer
    OBVIOUS
  <2>1. Stream(s, w) = << >>
    BY <1>2, <1>3 DEF Sound, Streams, Reading
  <2>2. << >> \o answer = answer
    BY <1>4, ConcatEmptySeq
  <2> QED  BY <1>7, <2>1, <2>2
<1>20. Streams(s)'
  <2>1. ASSUME NEW x \in Instances, x # w
        PROVE  /\ ~wire'[s][x].up => wire'[s][x].rest = << >>
               /\ x = "fcgi" /\ wire'[s][x].up => LET q == Stream(s, x)' IN q # << >> => q[Len(q)].part = 0
               /\ (x \notin skewed'[s] /\ Open(s, x)') => Stream(s, x)' = << >>
    <3>1. /\ ~wire[s][x].up => wire[s][x].rest = << >>
          /\ x = "fcgi" /\ wire[s][x].up => LET q == Stream(s, x) IN q # << >> => q[Len(q)].part = 0
          /\ (x \notin skewed[s] /\ Open(s, x)) => Stream(s, x) = << >>
      BY <2>1, <1>2 DEF Sound, Streams, Reading
    <3> QED  BY <3>1, <2>1, <1>8, <1>15
  <2>2. wire'[s][w].up
    BY <1>3, <1>7
  <2>3. w = "fcgi" => LET q == Stream(s, w)' IN q # << >> /\ q[Len(q)].part = 0
    <3> SUFFICES ASSUME w = "fcgi"  PROVE LET q == Stream(s, w)' IN q # << >> /\ q[Len(q)].part = 0
      OBVIOUS
    <3>1. answer[Len(answer)].part = 0
      <4>1. Len(answer) = 3 /\ answer[3] = Out(s, 0)
        BY <1>4
      <4>2. Out(s, 0).part = 0
        BY PiecesAre
      <4> QED  BY <4>1, <4>2
    <3>2. LET q == Stream(s, w) \o answer IN q # << >> /\ q[Len(q)] = answer[Len(answer)]
      BY <1>4, <1>6, <1>7, LastIs
    <3> QED  BY <3>1, <3>2, <1>7
  <2>4. w \notin skewed[s] =>
          /\ OwnParts(Stream(s, w)', asked[s])
          /\ w = "fcgi" => LET q == Stream(s, w)' IN \A i \in 1 .. Len(q) - 1 : q[i].part # 0
    <3> SUFFICES ASSUME w \notin skewed[s]
                 PROVE  /\ OwnParts(answer, asked[s])
                        /\ w = "fcgi" => \A i \in 1 .. Len(answer) - 1 : answer[i].part # 0
      BY <1>19
    <3>1. ASSUME w = "fcgi", NEW i \in 1 .. Len(answer) - 1  PROVE answer[i].part # 0
      <4>1. i = 1 \/ i = 2
        <5>1. Len(answer) = 3
          BY <1>4, <3>1
        <5> QED  BY <5>1, <3>1
      <4>2. Out(s, 1).part = 1 /\ Out(s, 2).part = 2 /\ Out(s, 9).part = 9
        BY PiecesAre
      <4> QED  BY <1>4, <3>1, <4>1, <4>2
    <3> QED  BY <1>4, <3>1
  <2> QED  BY <2>1, <2>2, <2>3, <2>4, <1>1, <1>8 DEF Streams, Reading
<1>21. got[s] = << >> /\ call[s] = << >>
  BY <1>2, <1>1 DEF Sound, Has
<1>22. Has(s)'
  BY <1>8, <1>21, OwnNone DEF Has
<1>23. Totals(s)'
  <2> SUFFICES ASSUME Fine(s)'  PROVE Total(s)' \in Answers(s, way[s])'
    <3>1. pc'[s] = "first" /\ got'[s] = << >>
      BY <1>8, <1>21
    <3>2. \A i \in 1 .. Len(got'[s]) : got'[s][i].part \in {1, 2}
      BY <3>1
    <3> QED  BY <3>1, <3>2 DEF Totals
  <2>1. w \notin skewed[s]
    BY <1>8 DEF Fine
  <2>2. Total(s)' = (<< >> \o << >>) \o answer
    BY <1>8, <1>19, <1>21, <2>1 DEF Total
  <2>3. Total(s)' = answer
    BY <2>2, <1>4, ConcatEmptySeq
  <2>4. Answers(s, way[s])' = Answers(s, w)
    BY <1>8 DEF Answers, Out
  <2> QED  BY <2>3, <2>4
<1>24. Sound(s)'
  BY <1>16, <1>17, <1>18, <1>20, <1>22, <1>23 DEF Sound
<1> QED  BY <1>12, <1>13, <1>14, <1>24, Others

(* What is not Foreign can be closed.                                      *)
LEMMA UsableIs ==
  ASSUME NEW s \in Sessions, NEW w \in Kinds, NEW n, ~Foreign(n, s, w)
  PROVE  \A f \in {n} \cap Fds : file[f].of \in {s, "nobody"}
<1>1. \A f \in {n} \cap Fds : file[f] \in {Free, File(s, w)}
  BY DEF Foreign
<1>2. Free.of = "nobody" /\ File(s, w).of = s
  BY DEF Free, File
<1> QED  BY <1>1, <1>2

LEMMA ClosedIs ==
  ASSUME NEW n, file' = Closed(n)
  PROVE  Closing({n})
BY DEF Closed, Closing

(* The program has ended, or the connection: the request fails, or what    *)
(* comes is waited for in vain.                                            *)
LEMMA UnheardKeeps ==
  ASSUME Typed, HoldersRun, \A t \in Sessions : Sound(t), NEW s \in Sessions,
         NEW w \in Ways, way[s] = w, ~Foreign(number[s][w], s, w), file' = Closed(number[s][w]),
         \/ pc[s] = "begin" /\ pc' = [pc EXCEPT ![s] = "done"] /\ Fails(s)
         \/ pc[s] = "send" /\ pc' = [pc EXCEPT ![s] = "first"] /\ got' = got,
         Because(s, "ended"),
         UNCHANGED <<way, asked, call, skewed, object, program>>
  PROVE  Typed' /\ HoldersRun' /\ \A t \in Sessions : Sound(t)'
<1> USE WaysAre
<1> DEFINE c == {number[s][w]}
<1>1. Closing(c) /\ \A f \in c \cap Fds : file[f].of \in {s, "nobody"}
  BY ClosedIs, UsableIs DEF Kinds
<1>2. Sound(s)
  OBVIOUS
<1>3. got[s] = << >> /\ call[s] = << >>
  BY <1>2 DEF Sound, Has
<1>4. /\ got' \in [Sessions -> Seq(Piece)] /\ (\A t \in Sessions : t # s => got'[t] = got[t])
      /\ OwnParts(got'[s], asked[s]) /\ (pc'[s] = "first" => got'[s] = << >>)
  <2> DEFINE error == <<Error>>
  <2>1. error \in Seq(Piece) /\ OwnParts(error, asked[s])
    BY PiecesAre, OwnOne
  <2>2. OwnParts(got[s], asked[s])
    BY <1>3, OwnNone
  <2>3. CASE got' = got
    BY <2>2, <2>3, <1>3 DEF Typed, ThreadTyped
  <2>4. CASE Fails(s) /\ pc' = [pc EXCEPT ![s] = "done"]
    <3>1. got' = Sent(s, error) /\ pc'[s] = "done"
      BY <2>4 DEF Fails, Typed, ThreadTyped
    <3> HIDE DEF error
    <3>2. /\ Sent(s, error) \in [Sessions -> Seq(Piece)]
          /\ \A t \in Sessions : t # s => Sent(s, error)[t] = got[t]
          /\ OwnParts(got[s], asked[s]) /\ OwnParts(error, asked[s]) => OwnParts(Sent(s, error)[s], asked[s])
      BY <2>1, SentIs
    <3> QED  BY <2>1, <2>2, <3>1, <3>2
  <2> QED  BY <2>3, <2>4
<1>5. /\ (pc[s] = "begin" /\ pc'[s] = "done") \/ (pc[s] = "send" /\ pc'[s] = "first")
      /\ pc' \in [Sessions -> PCs] /\ \A t \in Sessions : t # s => pc'[t] = pc[t]
  BY DEF Typed, ThreadTyped, PCs
<1>6. why'[s] # {} /\ DOMAIN why' = Sessions /\ \A t \in Sessions : t # s => why'[t] = why[t]
  BY DEF Because, Typed, ThreadTyped
<1>7. way' = way /\ asked' = asked /\ call' = call /\ skewed' = skewed
  OBVIOUS
<1>8. ThreadTyped' /\ \A t \in Sessions : t # s => Quiets(t)
  BY <1>4, <1>5, <1>6, <1>7 DEF Typed, ThreadTyped, Quiets
<1>9. Typed' /\ HoldersRun' /\ Leaves(s, c) /\ \A t \in Sessions : t # s => Same(t)
  BY <1>1, <1>8, CloseStep
<1>10. /\ number' = number /\ joined' = joined /\ pair' = pair
       /\ wire' = wire /\ holders' = holders /\ child' = child /\ shut' = shut
       /\ \A x \in Ways : Stream(s, x)' = Stream(s, x) /\ (Open(s, x)' => Open(s, x))
       /\ ~Open(s, w)'
       /\ \A x \in Kinds : Of(s, x)' \subseteq Of(s, x)
  BY <1>9 DEF Leaves, c
<1> HIDE DEF c
<1>11. w \in {"fcgi", "scgi"} \/ (w = "fork" /\ pc[s] = "send")
  BY <1>2, <1>5 DEF Sound, Way
<1>12. Way(s)'
  BY <1>5, <1>7 DEF Way
<1>13. Files(s)'
  <2>1. Of(s, "child")' = {}
    BY <1>2, <1>5, <1>10 DEF Sound, Files, Forking, Kinds
  <2>2. \A x \in Ways : Of(s, x)' \subseteq Of(s, x)
    BY <1>10 DEF Kinds
  <2>3. Of(s, "fork")' = {}
    <3>1. CASE w = "fork"
      <4>1. number[s]["fork"] = pair[s][1]
        BY <1>2, <1>5, <1>11, <3>1 DEF Sound, Files, Running
      <4>2. \A f \in Of(s, "fork") : f = pair[s][1]
        BY <1>2 DEF Sound, Files
      <4> QED  BY <4>1, <4>2, <2>2, <1>10, <3>1 DEF Open
    <3>2. CASE w # "fork"
      BY <3>2, <1>2, <2>2 DEF Sound, Files
    <3> QED  BY <3>1, <3>2
  <2>4. /\ \A x \in Instances : \A f \in Of(s, x)' : number'[s][x] = f
        /\ way'[s] = "fork" /\ pc'[s] \in Running \ {"wait"} => number'[s]["fork"] = pair'[s][1]
    BY <1>2, <1>5, <1>7, <1>10, <1>11, <2>2 DEF Sound, Files, Running
  <2> QED  BY <2>1, <2>3, <2>4, <1>5 DEF Files, Forking
<1>14. Child(s)'
  BY <1>2, <1>5, <1>7, <1>10, <1>11 DEF Sound, Child, Running
<1>15. Streams(s)'
  <2>1. ASSUME NEW x \in Instances
        PROVE  /\ ~wire'[s][x].up => wire'[s][x].rest = << >>
               /\ x = "fcgi" /\ wire'[s][x].up => LET q == Stream(s, x)' IN q # << >> => q[Len(q)].part = 0
               /\ (x \notin skewed'[s] /\ Open(s, x)') => x # w /\ Stream(s, x)' = << >>
    BY <1>2, <1>5, <1>7, <1>10 DEF Sound, Streams, Reading
  <2>2. way'[s] = "fork" => OwnParts(Stream(s, "fork")', asked'[s])
    BY <1>2, <1>5, <1>7, <1>10, <1>11 DEF Sound, Streams, Running
  <2> QED  BY <2>1, <2>2, <1>7, <1>10 DEF Streams
<1>16. Has(s)'
  BY <1>3, <1>4, <1>5, <1>7, OwnNone DEF Has
<1>17. Totals(s)'
  BY <1>6 DEF Totals, Fine
<1>18. Sound(s)'
  BY <1>12, <1>13, <1>14, <1>15, <1>16, <1>17 DEF Sound
<1> QED  BY <1>9, <1>18, Others

(* The next step of a request of which nothing is answered yet.            *)
LEMMA NextKeeps ==
  ASSUME Typed, HoldersRun, \A t \in Sessions : Sound(t), NEW s \in Sessions,
         \/ pc[s] = "begin" /\ way[s] = "fcgi" /\ pc' = [pc EXCEPT ![s] = "send"]
         \/ pc[s] = "send" /\ way[s] = "fork" /\ pc' = [pc EXCEPT ![s] = "first"],
         why' = why \/ Because(s, "ended"),
         UNCHANGED <<way, asked, got, call, skewed, object, file, program>>
  PROVE  Typed' /\ HoldersRun' /\ \A t \in Sessions : Sound(t)'
<1> USE WaysAre
<1>1. Sound(s)
  OBVIOUS
<1>2. /\ \/ pc[s] = "begin" /\ way[s] = "fcgi" /\ pc'[s] = "send"
         \/ pc[s] = "send" /\ way[s] = "fork" /\ pc'[s] = "first"
      /\ pc' \in [Sessions -> PCs] /\ \A t \in Sessions : t # s => pc'[t] = pc[t]
  BY DEF Typed, ThreadTyped, PCs
<1>3. DOMAIN why' = Sessions /\ (\A t \in Sessions : t # s => why'[t] = why[t]) /\ (why'[s] = {} => why[s] = {})
  BY DEF Because, Typed, ThreadTyped
<1>4. way' = way /\ asked' = asked /\ got' = got /\ call' = call /\ skewed' = skewed
  OBVIOUS
<1>5. ThreadTyped' /\ \A t \in Sessions : t # s => Quiets(t)
  BY <1>2, <1>3, <1>4 DEF Typed, ThreadTyped, Quiets
<1>6. Typed' /\ HoldersRun' /\ Stays(s) /\ \A t \in Sessions : t # s => Same(t)
  BY <1>5, ThreadStep
<1>7. got[s] = << >> /\ call[s] = << >>
  BY <1>1, <1>2 DEF Sound, Has
<1>8. Way(s)'
  BY <1>2, <1>4 DEF Way
<1>9. Files(s)'
  BY <1>1, <1>2, <1>4, <1>6 DEF Sound, Files, Forking, Running, Kinds, Stays
<1>10. Child(s)'
  BY <1>1, <1>2, <1>4, <1>6 DEF Sound, Child, Running, Stays
<1>11. Streams(s)'
  BY <1>1, <1>2, <1>4, <1>6 DEF Sound, Streams, Running, Reading, Stays
<1>12. Has(s)'
  BY <1>2, <1>4, <1>7, OwnNone DEF Has
<1>13. Totals(s)'
  <2>1. (Fine(s)' => Fine(s)) /\ Answers(s, way[s])' = Answers(s, way[s]) /\ Total(s)' = Total(s)
    BY <1>2, <1>3, <1>4, <1>6 DEF Fine, Answers, Out, Total, Stays
  <2>2. Underway(s)' => Underway(s)
    BY <1>1, <1>2, <1>4, <1>6 DEF Underway, Reading, Stays
  <2>3. Totals(s)
    BY <1>1 DEF Sound
  <2>4. \A i \in 1 .. Len(got'[s]) : got'[s][i].part \in {1, 2}
    BY <1>4, <1>7
  <2> QED  BY <1>2, <1>4, <2>1, <2>2, <2>3, <2>4 DEF Totals, Reading
<1>14. Sound(s)'
  BY <1>8, <1>9, <1>10, <1>11, <1>12, <1>13 DEF Sound
<1> QED  BY <1>6, <1>14, Others

LEMMA BeginKeeps ==
  ASSUME Typed, HoldersRun, \A t \in Sessions : Sound(t), NEW s \in Sessions, Begin(s)
  PROVE  Typed' /\ HoldersRun' /\ \A t \in Sessions : Sound(t)'
<1> USE WaysAre
<1>1. PICK w \in Instances : w = way[s]
  <2>1. pc[s] = "begin" /\ Sound(s)
    BY DEF Begin, At
  <2> QED  BY <2>1 DEF Sound, Way
<1>2. /\ pc[s] = "begin" /\ ~Foreign(number[s][w], s, w)
      /\ file' = AfterSend(s, w)
      /\ UNCHANGED <<way, asked, call, skewed, object, holders, child, shut>>
  BY <1>1 DEF Begin, At, Usable
<1>3. CASE Heard(s, w)
  <2>1. /\ Goes(s, IF w = "scgi" THEN "first" ELSE "send") /\ UNCHANGED <<got, why>>
        /\ IF w = "scgi" THEN Told(s, "scgi") ELSE UNCHANGED wire
    BY <1>1, <1>3 DEF Begin
  <2>2. file' = file
    BY <1>2, <1>3 DEF AfterSend
  <2>3. CASE w = "scgi"
    <3>1. PICK answer \in Answers(s, w) : Adds(s, w, answer)
      BY <1>3, <2>1, <2>3 DEF Told, Adds
    <3>2. pc' = [pc EXCEPT ![s] = "first"]
      BY <2>1, <2>3 DEF Goes
    <3>3. UNCHANGED <<way, asked, got, call, why, skewed, object, file, holders, child, shut>>
      BY <1>2, <2>1, <2>2
    <3> QED  BY <1>1, <1>2, <1>3, <3>1, <3>2, <3>3, ToldKeeps
  <2>4. CASE w = "fcgi"
    <3>1. pc' = [pc EXCEPT ![s] = "send"] /\ UNCHANGED <<got, why, wire>>
      BY <2>1, <2>4 DEF Goes
    <3>2. UNCHANGED <<way, asked, got, call, skewed, object, file, program>> /\ why' = why
      BY <1>2, <2>2, <3>1 DEF program
    <3> QED  BY <1>1, <1>2, <2>4, <3>1, <3>2, NextKeeps
  <2> QED  BY <2>3, <2>4
<1>4. CASE ~Heard(s, w)
  <2>1. Goes(s, "done") /\ Fails(s) /\ Because(s, "ended") /\ wire' = wire
    BY <1>1, <1>4 DEF Begin
  <2>2. file' = Closed(number[s][w])
    BY <1>2, <1>4 DEF AfterSend
  <2>3. pc' = [pc EXCEPT ![s] = "done"]
    BY <2>1 DEF Goes
  <2>4. UNCHANGED <<way, asked, call, skewed, object, program>>
    BY <1>2, <2>1 DEF program
  <2>5. w \in Ways /\ way[s] = w
    BY <1>1
  <2> QED  BY <1>2, <2>1, <2>2, <2>3, <2>4, <2>5, UnheardKeeps
<1> QED  BY <1>3, <1>4

LEMMA SendKeeps ==
  ASSUME Typed, HoldersRun, \A t \in Sessions : Sound(t), NEW s \in Sessions, Send(s)
  PROVE  Typed' /\ HoldersRun' /\ \A t \in Sessions : Sound(t)'
<1> USE WaysAre
<1>1. PICK w \in {"fork", "fcgi"} : w = way[s]
  <2>1. pc[s] = "send" /\ Sound(s)
    BY DEF Send, At
  <2> QED  BY <2>1 DEF Sound, Way
<1>2. /\ pc[s] = "send" /\ ~Foreign(number[s][w], s, w) /\ pc' = [pc EXCEPT ![s] = "first"]
      /\ w \in Ways /\ way[s] = w
      /\ UNCHANGED <<way, asked, got, call, skewed, object, holders, child, shut>>
  BY <1>1 DEF Send, At, Usable, Goes
<1>3. /\ \/ /\ file' = AfterSend(s, w)
            /\ IF Heard(s, w) THEN UNCHANGED why ELSE Because(s, "ended")
         \/ w = "fork" /\ UNCHANGED <<file, why>>
      /\ IF w = "fork" THEN UNCHANGED wire ELSE Told(s, w)
  BY <1>1 DEF Send
<1>4. CASE file' = AfterSend(s, w) /\ ~Heard(s, w) /\ Because(s, "ended")
  <2>1. file' = Closed(number[s][w])
    BY <1>4 DEF AfterSend
  <2>2. wire' = wire
    BY <1>3, <1>4 DEF Told
  <2>3. UNCHANGED <<way, asked, call, skewed, object, program>> /\ got' = got
    BY <1>2, <2>2 DEF program
  <2> QED  BY <1>2, <1>4, <2>1, <2>3, UnheardKeeps
<1>5. CASE file' = file /\ why' = why /\ (w = "fork" \/ Heard(s, w))
  <2>1. CASE w = "fork"
    <3>1. UNCHANGED <<way, asked, got, call, skewed, object, file, program>>
      BY <1>2, <1>3, <1>5, <2>1 DEF program
    <3> QED  BY <1>2, <1>5, <2>1, <3>1, NextKeeps
  <2>2. CASE w = "fcgi"
    <3>1. PICK answer \in Answers(s, w) : Adds(s, w, answer)
      BY <1>3, <1>5, <2>2 DEF Told, Adds
    <3>2. UNCHANGED <<way, asked, got, call, why, skewed, object, file, holders, child, shut>>
      BY <1>2, <1>5
    <3>3. w \in Instances
      BY <2>2
    <3> QED  BY <1>2, <1>5, <2>2, <3>1, <3>2, <3>3, ToldKeeps
  <2> QED  BY <2>1, <2>2
<1> QED  BY <1>3, <1>4, <1>5 DEF AfterSend

-----------------------------------------------------------------------------
(* A part is taken from what has come.                                     *)
LEMMA FirstIs ==
  ASSUME NEW r \in Piece, NEW p \in Seq(Piece)
  PROVE  LET q == <<r>> \o p
         IN /\ q \in Seq(Piece) /\ Len(q) = Len(p) + 1 /\ q[1] = r
            /\ \A i \in 1 .. Len(p) : q[i + 1] = p[i]
            /\ \A n : OwnParts(q, n) => r.to \in {0, n} /\ OwnParts(p, n)
            /\ p # << >> => q[Len(q)] = p[Len(p)]
            /\ p = << >> => q[Len(q)] = r
            /\ (\A i \in 1 .. Len(q) - 1 : q[i].part # 0) =>
                 (\A i \in 1 .. Len(p) - 1 : p[i].part # 0) /\ (r.part = 0 => p = << >>)
<1> DEFINE o == <<r>>
           q == o \o p
<1>1. o \in Seq(Piece) /\ Len(o) = 1 /\ o[1] = r
  OBVIOUS
<1> HIDE DEF o
<1>2. /\ q \in Seq(Piece) /\ Len(q) = Len(o) + Len(p)
      /\ \A i \in 1 .. Len(o) + Len(p) : q[i] = IF i <= Len(o) THEN o[i] ELSE p[i - Len(o)]
  BY <1>1, ConcatProperties
<1>3. Len(p) \in Nat /\ (p # << >> => Len(p) > 0) /\ (Len(p) = 0 => p = << >>) /\ (p = << >> => Len(p) = 0)
  BY LenProperties, EmptySeq
<1> HIDE DEF q
<1>4. Len(q) = Len(p) + 1
  BY <1>1, <1>2, <1>3
<1>5. q[1] = r
  BY <1>1, <1>2, <1>3
<1>6. ASSUME NEW i \in 1 .. Len(p)  PROVE q[i + 1] = p[i]
  <2>1. i + 1 \in 1 .. Len(o) + Len(p) /\ ~(i + 1 <= Len(o)) /\ (i + 1) - Len(o) = i
    BY <1>1, <1>3, <1>6
  <2> QED  BY <1>2, <2>1
<1>7. ASSUME NEW n, OwnParts(q, n)  PROVE r.to \in {0, n} /\ OwnParts(p, n)
  <2>1. 1 \in 1 .. Len(q)
    BY <1>3, <1>4
  <2>2. ASSUME NEW i \in 1 .. Len(p)  PROVE p[i].to \in {0, n}
    <3>1. i + 1 \in 1 .. Len(q)
      BY <1>3, <1>4
    <3> QED  BY <1>6, <1>7, <3>1 DEF OwnParts
  <2> QED  BY <1>5, <1>7, <2>1, <2>2 DEF OwnParts
<1>8. p # << >> => q[Len(q)] = p[Len(p)]
  BY <1>3, <1>4, <1>6
<1>9. p = << >> => q[Len(q)] = r
  BY <1>3, <1>4, <1>5
<1>10. ASSUME \A i \in 1 .. Len(q) - 1 : q[i].part # 0
       PROVE  (\A i \in 1 .. Len(p) - 1 : p[i].part # 0) /\ (r.part = 0 => p = << >>)
  <2>1. ASSUME NEW i \in 1 .. Len(p) - 1  PROVE p[i].part # 0
    <3>1. i + 1 \in 1 .. Len(q) - 1 /\ i \in 1 .. Len(p)
      BY <1>3, <1>4
    <3> QED  BY <1>6, <1>10, <3>1
  <2>2. p # << >> => 1 \in 1 .. Len(q) - 1
    BY <1>3, <1>4
  <2> QED  BY <1>5, <1>10, <2>1, <2>2
<1>11. /\ q \in Seq(Piece) /\ Len(q) = Len(p) + 1 /\ q[1] = r
       /\ \A i \in 1 .. Len(p) : q[i + 1] = p[i]
       /\ \A n : OwnParts(q, n) => r.to \in {0, n} /\ OwnParts(p, n)
       /\ p # << >> => q[Len(q)] = p[Len(p)]
       /\ p = << >> => q[Len(q)] = r
       /\ (\A i \in 1 .. Len(q) - 1 : q[i].part # 0) =>
            (\A i \in 1 .. Len(p) - 1 : p[i].part # 0) /\ (r.part = 0 => p = << >>)
  BY <1>2, <1>4, <1>5, <1>6, <1>7, <1>8, <1>9, <1>10
<1> QED  BY <1>11 DEF q, o

Takes(s, w) == wire' = [wire EXCEPT ![s][w].unread = Tail(@)]

LEMMA TakeStep ==
  ASSUME wire \in [Sessions -> [Ways -> Wire]], NEW s \in Sessions, NEW w \in Ways,
         wire[s][w].unread # << >>, Takes(s, w)
  PROVE  /\ wire' \in [Sessions -> [Ways -> Wire]]
         /\ wire'[s][w].up = wire[s][w].up /\ wire'[s][w].rest = wire[s][w].rest
         /\ Head(wire[s][w].unread) \in Piece /\ Stream(s, w)' \in Seq(Piece)
         /\ Stream(s, w) = <<Head(wire[s][w].unread)>> \o Stream(s, w)'
         /\ \A x \in Ways : x # w => wire'[s][x] = wire[s][x]
         /\ \A t \in Sessions : t # s => wire'[t] = wire[t]
<1> DEFINE x == wire[s][w]
           e == Tail(x.unread)
           v == [unread |-> e, rest |-> x.rest, up |-> x.up]
<1>1. wire' = [wire EXCEPT ![s][w] = [x EXCEPT !.unread = e]]
  BY Zenon DEF Takes
<1>2. x \in Wire /\ x.unread # << >>
  OBVIOUS
<1> HIDE DEF x
<1>3. PICK u \in Seq(Piece), r \in Seq(Piece), b \in Flags : x = [unread |-> u, rest |-> r, up |-> b]
  BY <1>2 DEF Wire
<1>4. x.unread = u /\ x.rest = r /\ x.up = b
  BY <1>3
<1>5. e \in Seq(Piece) /\ Head(x.unread) \in Piece
  BY <1>2, <1>4, HeadTailProperties
<1>6. [x EXCEPT !.unread = e] = v
  <2> HIDE DEF e
  <2>1. [[unread |-> u, rest |-> r, up |-> b] EXCEPT !.unread = e] = [unread |-> e, rest |-> r, up |-> b]
    OBVIOUS
  <2> QED  BY <1>3, <1>4, <2>1, Zenon
<1>7. v \in Wire
  BY <1>4, <1>5 DEF Wire
<1>8. v.unread = e /\ v.rest = x.rest /\ v.up = x.up
  OBVIOUS
<1> DEFINE new == wire'
<1>9. new = [wire EXCEPT ![s][w] = v]
  BY <1>1, <1>6, Zenon
<1> HIDE DEF v, new
<1>10. /\ new \in [Sessions -> [Ways -> Wire]] /\ new[s][w] = v
       /\ \A y \in Ways : y # w => new[s][y] = wire[s][y]
       /\ \A t \in Sessions : t # s => new[t] = wire[t]
  BY <1>7, <1>9, WireSet
<1>11. Stream(s, w)' = e \o r
  <2>1. Stream(s, w)' = new[s][w].unread \o new[s][w].rest
    BY DEF Stream, new
  <2> QED  BY <2>1, <1>4, <1>8, <1>10
<1>12. Stream(s, w) = u \o r
  BY <1>4 DEF Stream, x
<1>13. u \o r = <<Head(u)>> \o (e \o r) /\ e \o r \in Seq(Piece)
  <2> DEFINE h == <<Head(u)>>
  <2>1. h \in Seq(Piece) /\ Len(h) = 1 /\ h[1] = Head(u)
    BY <1>4, <1>5
  <2>2. u = h \o e
    <3>1. Len(u) \in Nat /\ Len(u) > 0 /\ Head(u) = u[1]
      BY <1>2, <1>4, LenProperties, EmptySeq
    <3>2. Len(e) = Len(u) - 1 /\ \A i \in 1 .. Len(e) : e[i] = u[i + 1]
      BY <1>2, <1>4, HeadTailProperties
    <3> HIDE DEF h, e
    <3> DEFINE y == h \o e
    <3>3. /\ y \in Seq(Piece) /\ Len(y) = Len(h) + Len(e)
          /\ \A i \in 1 .. Len(h) + Len(e) : y[i] = IF i <= Len(h) THEN h[i] ELSE e[i - Len(h)]
      BY <1>5, <2>1, ConcatProperties
    <3> HIDE DEF y
    <3>4. Len(y) = Len(u)
      BY <2>1, <3>1, <3>2, <3>3
    <3>5. ASSUME NEW i \in 1 .. Len(u)  PROVE u[i] = y[i]
      <4>1. CASE i = 1
        BY <4>1, <2>1, <3>1, <3>2, <3>3
      <4>2. CASE i # 1
        <5>1. i - 1 \in 1 .. Len(e) /\ ~(i <= Len(h)) /\ i - Len(h) = i - 1 /\ i \in 1 .. Len(h) + Len(e)
              /\ (i - 1) + 1 = i
          BY <4>2, <2>1, <3>1, <3>2
        <5> QED  BY <5>1, <3>2, <3>3
      <4> QED  BY <4>1, <4>2
    <3>6. u = y
      BY <3>3, <3>4, <3>5, SeqEqual
    <3> QED  BY <3>6 DEF y
  <2> HIDE DEF h, e
  <2>3. (h \o e) \o r = h \o (e \o r)
    BY <2>1, <1>5, ConcatAssociative, SMTT(40)
  <2>4. e \o r \in Seq(Piece)
    BY <1>5, OwnConcat
  <2> QED  BY <2>2, <2>3, <2>4 DEF h
<1>14. new = wire'
  BY DEF new
<1>15. new[s][w].up = x.up /\ new[s][w].rest = x.rest
  BY <1>8, <1>10
<1>16. Stream(s, w) = <<Head(x.unread)>> \o Stream(s, w)' /\ Stream(s, w)' \in Seq(Piece)
  BY <1>4, <1>11, <1>12, <1>13
<1> QED  BY <1>5, <1>10, <1>14, <1>15, <1>16 DEF x

Took(s, w, r) ==
  /\ number' = number /\ joined' = joined /\ pair' = pair /\ file' = file
  /\ holders' = holders /\ child' = child /\ shut' = shut
  /\ \A x \in Kinds : Of(s, x)' = Of(s, x)
  /\ \A x \in Ways : Open(s, x)' <=> Open(s, x)
  /\ \A x \in Ways : x # w => Stream(s, x)' = Stream(s, x) /\ wire'[s][x] = wire[s][x]
  /\ wire'[s][w].up = wire[s][w].up /\ wire'[s][w].rest = wire[s][w].rest
  /\ r \in Piece /\ Stream(s, w)' \in Seq(Piece) /\ Stream(s, w) = <<r>> \o Stream(s, w)'

LEMMA TookIs ==
  ASSUME Typed, HoldersRun, NEW s \in Sessions, NEW w \in Ways,
         wire[s][w].unread # << >>, Takes(s, w),
         ThreadTyped', \A t \in Sessions : t # s => Quiets(t),
         UNCHANGED <<object, file, holders, child, shut>>
  PROVE  /\ Typed' /\ HoldersRun' /\ Took(s, w, Head(wire[s][w].unread))
         /\ \A t \in Sessions : t # s => Same(t)
<1>1. /\ wire' \in [Sessions -> [Ways -> Wire]]
      /\ wire'[s][w].up = wire[s][w].up /\ wire'[s][w].rest = wire[s][w].rest
      /\ Head(wire[s][w].unread) \in Piece /\ Stream(s, w)' \in Seq(Piece)
      /\ Stream(s, w) = <<Head(wire[s][w].unread)>> \o Stream(s, w)'
      /\ \A x \in Ways : x # w => wire'[s][x] = wire[s][x]
      /\ \A t \in Sessions : t # s => wire'[t] = wire[t]
  BY TakeStep DEF Typed
<1>2. /\ number' = number /\ joined' = joined /\ pair' = pair /\ file' = file
      /\ holders' = holders /\ child' = child /\ shut' = shut
  BY DEF object
<1>3. Typed'
  BY <1>1, <1>2 DEF Typed
<1>4. HoldersRun'
  BY <1>2 DEF HoldersRun
<1>5. ASSUME NEW t \in Sessions, NEW x  PROVE Of(t, x)' = Of(t, x)
  BY <1>2 DEF Of, In
<1>6. ASSUME NEW x \in Ways  PROVE Open(s, x)' <=> Open(s, x)
  BY <1>2, <1>5 DEF Open
<1>7. ASSUME NEW x \in Ways, x # w  PROVE Stream(s, x)' = Stream(s, x) /\ wire'[s][x] = wire[s][x]
  <2>1. wire'[s][x] = wire[s][x]
    BY <1>1, <1>7
  <2> QED  BY <2>1 DEF Stream
<1>8. ASSUME NEW t \in Sessions, t # s  PROVE Same(t)
  <2>1. wire'[t] = wire[t]
    BY <1>1, <1>8
  <2>2. Quiets(t)
    BY <1>8
  <2> QED  BY <2>1, <2>2, <1>2, <1>5 DEF Same, Quiets
<1> QED  BY <1>1, <1>2, <1>3, <1>4, <1>5, <1>6, <1>7, <1>8 DEF Took

(* The output records of an answer that has any are the whole answer, and  *)
(* the record after them ends it.                                          *)
LEMMA OutputWhole ==
  ASSUME Typed, NEW s \in Sessions, NEW g \in Seq(Piece), NEW r \in Piece, NEW p \in Seq(Piece),
         g # << >>, \A i \in 1 .. Len(g) : g[i].part \in {1, 2}, r.part \notin {1, 2},
         g \o (<<r>> \o p) \in Answers(s, "fcgi")
  PROVE  r.part = 0 /\ g = <<Out(s, 1), Out(s, 2)>>
<1> DEFINE q == <<r>> \o p
           a == g \o q
<1>1. q \in Seq(Piece) /\ Len(q) = Len(p) + 1 /\ q[1] = r
  BY FirstIs
<1> HIDE DEF q
<1>2. /\ a \in Seq(Piece) /\ Len(a) = Len(g) + Len(q)
      /\ \A i \in 1 .. Len(g) + Len(q) : a[i] = IF i <= Len(g) THEN g[i] ELSE q[i - Len(g)]
  BY <1>1, ConcatProperties
<1>3. a \in Answers(s, "fcgi")
  BY DEF q
<1> HIDE DEF a
<1>4. /\ Len(a) = 3 /\ a[3] = Out(s, 0) /\ a[2] \in {Out(s, 1), Out(s, 2)}
      /\ a[1].part # 9 => a[1] = Out(s, 1) /\ a[2] = Out(s, 2)
  BY <1>3, AnswersAre, WaysAre
<1>5. Len(g) \in Nat /\ Len(g) > 0 /\ Len(p) \in Nat
  BY LenProperties, EmptySeq
<1>6. \A i \in 1 .. Len(g) : a[i] = g[i]
  BY <1>1, <1>2, <1>5
<1>7. a[Len(g) + 1] = r /\ Len(g) + 1 <= 3
  <2>0. PICK n \in Nat, m \in Nat : n = Len(g) /\ m = Len(p)
    BY <1>5
  <2>1. /\ Len(g) + 1 \in 1 .. Len(g) + Len(q) /\ ~(Len(g) + 1 <= Len(g)) /\ (Len(g) + 1) - Len(g) = 1
        /\ Len(g) + 1 <= 3
    <3>1. Len(q) = m + 1 /\ n + Len(q) = 3
      BY <2>0, <1>1, <1>2, <1>4
    <3>2. n + 1 \in 1 .. n + (m + 1) /\ ~(n + 1 <= n) /\ (n + 1) - n = 1 /\ n + 1 <= n + (m + 1)
      OBVIOUS
    <3> QED  BY <3>1, <3>2, <2>0
  <2>2. a[Len(g) + 1] = q[(Len(g) + 1) - Len(g)]
    BY <1>2, <2>1
  <2> QED  BY <1>1, <1>5, <2>1, <2>2
<1>8. a[1].part \in {1, 2}
  BY <1>5, <1>6
<1>9. a[1] = Out(s, 1) /\ a[2] = Out(s, 2) /\ Out(s, 2).part = 2 /\ Out(s, 0).part = 0
  BY <1>4, <1>8, PiecesAre
<1>10. Len(g) = 2
  <2>1. Len(g) = 1 \/ Len(g) = 2
    <3>1. PICK n \in Nat : n = Len(g)
      BY <1>5
    <3>2. n > 0 /\ n + 1 <= 3
      BY <3>1, <1>5, <1>7
    <3>3. n > 0 /\ n + 1 <= 3 => n = 1 \/ n = 2
      OBVIOUS
    <3> QED  BY <3>1, <3>2, <3>3
  <2>2. Len(g) = 1 => a[2] = r
    BY <1>7
  <2>3. a[2] # r
    BY <1>9
  <2> QED  BY <2>1, <2>2, <2>3
<1>11. g[1] = Out(s, 1) /\ g[2] = Out(s, 2)
  BY <1>6, <1>9, <1>10
<1>12. g = <<Out(s, 1), Out(s, 2)>>
  <2> DEFINE y == Out(s, 1)
             z == Out(s, 2)
  <2>1. y \in Piece /\ z \in Piece
    BY PiecesAre
  <2> HIDE DEF y, z
  <2> DEFINE h == <<y, z>>
  <2>2. h \in Seq(Piece) /\ Len(h) = 2 /\ h[1] = y /\ h[2] = z
    BY <2>1
  <2> HIDE DEF h
  <2>3. \A i \in 1 .. Len(g) : g[i] = h[i]
    BY <1>10, <1>11, <2>2 DEF y, z
  <2>4. g = h
    BY <1>10, <2>2, <2>3, SeqEqual
  <2> QED  BY <2>4 DEF h, y, z
<1> QED  BY <1>4, <1>7, <1>9, <1>10, <1>12

(* A record is received.                                                   *)
LEMMA RecordKeeps ==
  ASSUME Typed, HoldersRun, \A t \in Sessions : Sound(t), NEW s \in Sessions, Record(s)
  PROVE  Typed' /\ HoldersRun' /\ \A t \in Sessions : Sound(t)'
<1> USE WaysAre
<1>1. PICK w \in {"fcgi"} : w = way[s]
  BY DEF Record
<1> DEFINE r == Head(wire[s][w].unread)
           to == IF Continues(r) THEN "more" ELSE "done"
<1>2. /\ pc[s] \in Reading /\ Mine(number[s][w], s, w) /\ wire[s][w].unread # << >> /\ Takes(s, w)
      /\ UNCHANGED <<way, asked, call, object, file, holders, child, shut>>
  BY <1>1 DEF Record, Receiving, At, Reading, Unread, Taken, Takes
<1>3. \/ r.part \in {1, 2} /\ got' = Sent(s, <<r>>) /\ Goes(s, to) /\ UNCHANGED <<why, skewed>>
      \/ /\ r.part \notin {1, 2} /\ pc[s] = "first"
         /\ Fails(s) /\ Because(s, "no output") /\ Goes(s, "done")
         /\ skewed' = IF Continues(r) THEN [skewed EXCEPT ![s] = @ \cup {w}] ELSE skewed
      \/ r.part \notin {1, 2} /\ pc[s] # "first" /\ Goes(s, to) /\ UNCHANGED <<got, why, skewed>>
  BY <1>1 DEF Record, First
<1>4. w \in Ways /\ w \in Instances /\ w \in Kinds /\ w # "fork" /\ w # "child" /\ way[s] = w /\ Sound(s)
  BY <1>1 DEF Kinds
<1>5. wire[s][w] \in Wire /\ number[s][w] \in Fds \cup {0}
  BY <1>4 DEF Typed
<1>6. r \in Piece
  BY <1>2, <1>5, HeadTailProperties DEF Wire
<1>7. Open(s, w)
  BY <1>2, <1>5 DEF Mine, Open, Of, In
<1> HIDE DEF r
<1>8. to = (IF r.part = 0 THEN "done" ELSE "more") /\ to \in PCs /\ "done" \in PCs
  BY DEF Continues, PCs
<1> DEFINE error == <<Error>>
           one == <<r>>
<1>9. /\ error \in Seq(Piece) /\ one \in Seq(Piece)
      /\ (\A n : OwnParts(error, n)) /\ \A n : r.to \in {0, n} => OwnParts(one, n)
  BY <1>6, PiecesAre, OwnOne
<1>10. PICK sent \in {got, Sent(s, one), Sent(s, error)} : got' = sent
  BY <1>3 DEF Fails
<1> HIDE DEF error, one, to
<1>11. /\ got' \in [Sessions -> Seq(Piece)]
       /\ (\A t \in Sessions : t # s => got'[t] = got[t])
  <2>1. got \in [Sessions -> Seq(Piece)]
    BY DEF Typed, ThreadTyped
  <2>2. \A p \in Seq(Piece) : Sent(s, p) \in [Sessions -> Seq(Piece)]
                              /\ \A t \in Sessions : t # s => Sent(s, p)[t] = got[t]
    BY SentIs
  <2> QED  BY <1>9, <1>10, <2>1, <2>2
<1>12. /\ pc'[s] = (IF r.part \in {1, 2} \/ pc[s] # "first" THEN to ELSE "done")
       /\ pc' \in [Sessions -> PCs] /\ \A t \in Sessions : t # s => pc'[t] = pc[t]
  <2>1. pc \in [Sessions -> PCs]
    BY DEF Typed, ThreadTyped
  <2>2. CASE (r.part \in {1, 2} \/ pc[s] # "first") /\ Goes(s, to)
    BY <1>8, <2>1, <2>2 DEF Goes
  <2>3. CASE r.part \notin {1, 2} /\ pc[s] = "first" /\ Goes(s, "done")
    BY <1>8, <2>1, <2>3 DEF Goes
  <2> QED  BY <1>3, <2>2, <2>3, Zenon
<1>13. /\ DOMAIN why' = Sessions /\ \A t \in Sessions : t # s => why'[t] = why[t]
       /\ skewed' \in [Sessions -> SUBSET Instances]
       /\ \A t \in Sessions : t # s => skewed'[t] = skewed[t]
       /\ \/ skewed'[s] = skewed[s]
          \/ skewed'[s] = skewed[s] \cup {w} /\ pc'[s] = "done"
       /\ r.part \notin {1, 2} /\ pc[s] = "first" => why'[s] # {} /\ (r.part # 0 => w \in skewed'[s])
       /\ r.part \in {1, 2} \/ pc[s] # "first" => why'[s] = why[s] /\ skewed'[s] = skewed[s]
  <2>1. CASE UNCHANGED <<why, skewed>> /\ (r.part \in {1, 2} \/ pc[s] # "first")
    BY <2>1 DEF Typed, ThreadTyped
  <2>2. CASE /\ r.part \notin {1, 2} /\ pc[s] = "first"
             /\ Because(s, "no output") /\ Goes(s, "done")
             /\ skewed' = IF Continues(r) THEN [skewed EXCEPT ![s] = @ \cup {w}] ELSE skewed
    <3>1. DOMAIN why' = Sessions /\ why'[s] # {} /\ \A t \in Sessions : t # s => why'[t] = why[t]
      BY <2>2 DEF Because, Typed, ThreadTyped
    <3>2. /\ skewed' \in [Sessions -> SUBSET Instances]
          /\ \A t \in Sessions : t # s => skewed'[t] = skewed[t]
          /\ skewed'[s] = IF r.part = 0 THEN skewed[s] ELSE skewed[s] \cup {w}
      BY <1>4, <2>2 DEF Continues, Typed, ThreadTyped
    <3> QED  BY <2>2, <3>1, <3>2, <1>12
  <2> QED  BY <1>3, <2>1, <2>2
<1>14. way' = way /\ asked' = asked /\ call' = call
  BY <1>2
<1>15. ThreadTyped' /\ \A t \in Sessions : t # s => Quiets(t)
  BY <1>11, <1>12, <1>13, <1>14 DEF Typed, ThreadTyped, Quiets
<1>16. Typed' /\ HoldersRun' /\ Took(s, w, r) /\ \A t \in Sessions : t # s => Same(t)
  BY <1>2, <1>4, <1>15, TookIs DEF r
<1> DEFINE p == Stream(s, w)'
           q == <<r>> \o p
<1>17. /\ number' = number /\ joined' = joined /\ pair' = pair
       /\ child' = child /\ shut' = shut
       /\ \A x \in Kinds : Of(s, x)' = Of(s, x)
       /\ \A x \in Ways : Open(s, x)' <=> Open(s, x)
       /\ \A x \in Ways : x # w => Stream(s, x)' = Stream(s, x) /\ wire'[s][x] = wire[s][x]
       /\ wire'[s][w].up = wire[s][w].up /\ wire'[s][w].rest = wire[s][w].rest
       /\ p \in Seq(Piece) /\ Stream(s, w) = q
  BY <1>16 DEF Took
<1>18. /\ q \in Seq(Piece) /\ q # << >>
       /\ \A n : OwnParts(q, n) => r.to \in {0, n} /\ OwnParts(p, n)
       /\ p # << >> => q[Len(q)] = p[Len(p)]
       /\ p = << >> => q[Len(q)] = r
       /\ (\A i \in 1 .. Len(q) - 1 : q[i].part # 0) =>
            (\A i \in 1 .. Len(p) - 1 : p[i].part # 0) /\ (r.part = 0 => p = << >>)
  <2> HIDE DEF p
  <2>1. p \in Seq(Piece)
    BY <1>17
  <2>2. q \in Seq(Piece) /\ q # << >>
    <3>1. q \in Seq(Piece) /\ Len(q) = Len(p) + 1
      BY <1>6, <2>1, FirstIs
    <3>2. Len(p) \in Nat
      BY <2>1, LenProperties
    <3> QED  BY <3>1, <3>2
  <2> QED  BY <1>6, <2>1, <2>2, FirstIs
<1> HIDE DEF p, q
<1>19. pc'[s] \in {"more", "done"} /\ (pc'[s] = "more" => r.part # 0)
  BY <1>8, <1>12
<1>20. w \notin skewed'[s] => /\ w \notin skewed[s]
                              /\ pc'[s] = "done" => r.part = 0
  BY <1>8, <1>12, <1>13
<1>21. w \notin skewed[s] => OwnParts(q, asked[s]) /\ \A i \in 1 .. Len(q) - 1 : q[i].part # 0
  BY <1>1, <1>2, <1>4, <1>7, <1>17 DEF Sound, Streams
<1>22. wire[s][w].up => q[Len(q)].part = 0
  BY <1>1, <1>4, <1>17, <1>18 DEF Sound, Streams
<1>23. call[s] = << >> /\ OwnParts(call[s], asked[s])
  BY <1>1, <1>4, OwnNone DEF Sound, Has
<1>24. Way(s)'
  BY <1>4, <1>14, <1>19 DEF Way
<1>25. Files(s)'
  BY <1>4, <1>14, <1>17, <1>19 DEF Sound, Files, Forking, Kinds
<1>26. Child(s)'
  BY <1>4, <1>14, <1>17, <1>19 DEF Sound, Child
<1>27. Streams(s)'
  <2>1. ASSUME NEW x \in Instances, x # w
        PROVE  /\ ~wire'[s][x].up => wire'[s][x].rest = << >>
               /\ (x \notin skewed'[s] /\ Open(s, x)') => Stream(s, x)' = << >>
    <3>1. /\ ~wire[s][x].up => wire[s][x].rest = << >>
          /\ (x \notin skewed[s] /\ Open(s, x)) => Stream(s, x) = << >>
      BY <2>1, <1>4 DEF Sound, Streams
    <3>2. x \notin skewed'[s] => x \notin skewed[s]
      BY <1>13
    <3> QED  BY <3>1, <3>2, <2>1, <1>17
  <2>2. ~wire'[s][w].up => wire'[s][w].rest = << >>
    BY <1>4, <1>17 DEF Sound, Streams
  <2>3. wire'[s][w].up => (p # << >> => p[Len(p)].part = 0) /\ (pc'[s] = "more" => p # << >>)
    BY <1>17, <1>18, <1>19, <1>22
  <2>4. w \notin skewed'[s] =>
           /\ OwnParts(p, asked[s])
           /\ \A i \in 1 .. Len(p) - 1 : p[i].part # 0
           /\ pc'[s] = "done" => p = << >>
    BY <1>18, <1>20, <1>21
  <2> QED  BY <2>1, <2>2, <2>3, <2>4, <1>1, <1>4, <1>14, <1>19 DEF Streams, Reading, p
<1>28. OwnParts(q, asked[s]) => r.to \in {0, asked[s]}
  BY <1>18
<1>29. got'[s] \in Seq(Piece)
  BY <1>11
<1>30. Has(s)'
  <2>1. w \notin skewed'[s] => OwnParts(got'[s], asked[s])
    <3> SUFFICES ASSUME w \notin skewed'[s]  PROVE OwnParts(got'[s], asked[s])
      OBVIOUS
    <3>1. OwnParts(got[s], asked[s]) /\ OwnParts(one, asked[s]) /\ OwnParts(error, asked[s])
      BY <1>4, <1>9, <1>20, <1>21, <1>28 DEF Sound, Has
    <3>2. \A m \in Seq(Piece) : OwnParts(m, asked[s]) => OwnParts(Sent(s, m)[s], asked[s])
      BY <3>1, SentIs
    <3> QED  BY <3>1, <3>2, <1>9, <1>10
  <2> QED  BY <2>1, <1>4, <1>14, <1>19, <1>23 DEF Has
<1>31. Totals(s)'
  <2> SUFFICES ASSUME Fine(s)'
               PROVE  /\ pc'[s] = "more" => /\ Total(s)' \in Answers(s, way[s])' /\ got'[s] # << >>
                                            /\ \A i \in 1 .. Len(got'[s]) : got'[s][i].part \in {1, 2}
                      /\ pc'[s] = "done" => Whole(s)'
    BY <1>14, <1>19 DEF Totals, Underway, Reading
  <2>1. why'[s] = {} /\ ~shut[s] /\ w \notin skewed[s]
    BY <1>4, <1>14, <1>17, <1>20 DEF Fine
  <2>2. r.part \in {1, 2} \/ pc[s] # "first"
    BY <1>13, <2>1
  <2>3. Fine(s)
    BY <1>4, <1>13, <2>1, <2>2 DEF Fine
  <2>4. /\ got[s] \o call[s] \o q \in Answers(s, w)
        /\ pc[s] = "more" => got[s] # << >>
        /\ \A i \in 1 .. Len(got[s]) : got[s][i].part \in {1, 2}
    BY <1>2, <1>4, <1>7, <1>17, <2>3 DEF Sound, Totals, Underway, Total
  <2>5. got[s] \in Seq(Piece)
    BY DEF Typed, ThreadTyped
  <2>6. got[s] \o q \in Answers(s, w)
    <3>1. got[s] \o << >> = got[s]
      BY <2>5, ConcatEmptySeq
    <3> QED  BY <3>1, <2>4, <1>23
  <2>7. Answers(s, way[s])' = Answers(s, w) /\ (Whole(s)' <=> got'[s] = <<Out(s, 1), Out(s, 2)>>)
    BY <1>1, <1>4, <1>14 DEF Answers, Out, Whole
  <2>8. CASE r.part \in {1, 2}
    <3>1. got' = Sent(s, one) /\ pc'[s] = "more"
      <4>1. got' = Sent(s, one)
        BY <1>3, <2>8, Zenon DEF one
      <4>2. r.part # 0
        BY <2>8
      <4>3. pc'[s] = "more"
        BY <1>8, <1>12, <2>8, <4>2
      <4> QED  BY <4>1, <4>3
    <3>2. got'[s] = got[s] \o one
      <4>1. Sent(s, one)[s] = got[s] \o one
        BY <1>9, <2>1, SentIs
      <4> QED  BY <3>1, <4>1
    <3>3. one \in Seq(Piece) /\ Len(one) = 1 /\ one[1] = r
      BY <1>6, <1>9 DEF one
    <3>4. got'[s] # << >> /\ \A i \in 1 .. Len(got'[s]) : got'[s][i].part \in {1, 2}
      <4> DEFINE y == got[s] \o one
      <4>1. /\ y \in Seq(Piece) /\ Len(y) = Len(got[s]) + Len(one)
            /\ \A i \in 1 .. Len(got[s]) + Len(one) :
                 y[i] = IF i <= Len(got[s]) THEN got[s][i] ELSE one[i - Len(got[s])]
        BY <2>5, <3>3, ConcatProperties
      <4>2. Len(got[s]) \in Nat
        BY <2>5, LenProperties
      <4> HIDE DEF y
      <4>3. y # << >>
        BY <4>1, <4>2, <3>3
      <4>4. ASSUME NEW i \in 1 .. Len(y)  PROVE y[i].part \in {1, 2}
        <5>1. CASE i <= Len(got[s])
          BY <5>1, <4>1, <4>2, <4>4, <2>4
        <5>2. CASE ~(i <= Len(got[s]))
          <6>1. i - Len(got[s]) = 1
            BY <5>2, <4>1, <4>2, <4>4, <3>3
          <6> QED  BY <6>1, <5>2, <4>1, <4>4, <3>3, <2>8
        <5> QED  BY <5>1, <5>2
      <4> QED  BY <4>3, <4>4, <3>2 DEF y
    <3>5. Total(s)' = got[s] \o q
      <4>1. Total(s)' = ((got[s] \o one) \o << >>) \o p
        BY <1>4, <1>14, <1>23, <3>2 DEF Total, p
      <4>2. p \in Seq(Piece)
        BY <1>17
      <4>3. got[s] \o one \in Seq(Piece)
        BY <2>5, <3>3, OwnConcat
      <4>4. (got[s] \o one) \o << >> = got[s] \o one
        BY <4>3, ConcatEmptySeq
      <4>5. (got[s] \o one) \o p = got[s] \o (one \o p)
        <5> DEFINE g == got[s]
        <5>1. g \in Seq(Piece) /\ one \in Seq(Piece) /\ p \in Seq(Piece)
          BY <2>5, <3>3, <4>2
        <5> HIDE DEF g
        <5>2. (g \o one) \o p = g \o (one \o p)
          BY <5>1, ConcatAssociative, SMTT(40)
        <5> QED  BY <5>2 DEF g
      <4> QED  BY <4>1, <4>4, <4>5 DEF q, one
    <3> QED  BY <2>6, <2>7, <3>1, <3>4, <3>5
  <2>9. CASE r.part \notin {1, 2}
    <3>1. pc[s] = "more" /\ got' = got
      BY <1>2, <1>3, <2>2, <2>9 DEF Reading
    <3>2. r.part = 0 /\ got[s] = <<Out(s, 1), Out(s, 2)>>
      <4> DEFINE g == got[s]
      <4>1. g \in Seq(Piece) /\ g # << >> /\ \A i \in 1 .. Len(g) : g[i].part \in {1, 2}
        BY <2>4, <2>5, <3>1
      <4>2. g \o (<<r>> \o p) \in Answers(s, "fcgi") /\ p \in Seq(Piece)
        BY <1>1, <1>17, <2>6 DEF q
      <4> HIDE DEF g
      <4>3. r.part = 0 /\ g = <<Out(s, 1), Out(s, 2)>>
        BY <1>6, <2>9, <4>1, <4>2, OutputWhole
      <4> QED  BY <4>3 DEF g
    <3>3. pc'[s] = "done"
      BY <3>2, <1>19
    <3> QED  BY <3>1, <3>2, <3>3, <2>7
  <2> QED  BY <2>8, <2>9
<1>32. Sound(s)'
  BY <1>24, <1>25, <1>26, <1>27, <1>30, <1>31 DEF Sound
<1> QED  BY <1>16, <1>32, Others

LEMMA ThreeParts ==
  ASSUME NEW a \in Seq(Piece), NEW b \in Seq(Piece), NEW c \in Seq(Piece)
  PROVE  (a \o b) \o c = a \o (b \o c)
BY ConcatAssociative

LEMMA AppendIs ==
  ASSUME NEW c \in Seq(Piece), NEW r \in Piece, NEW a, a = Append(c, r)
  PROVE  /\ a \in Seq(Piece) /\ a # << >> /\ a = c \o <<r>>
         /\ \A n : OwnParts(c, n) /\ r.to \in {0, n} => OwnParts(a, n)
<1> DEFINE o == <<r>>
<1>1. o \in Seq(Piece) /\ Len(o) = 1 /\ o[1] = r
  OBVIOUS
<1>2. a \in Seq(Piece) /\ Len(a) = Len(c) + 1 /\ (\A i \in 1 .. Len(c) : a[i] = c[i]) /\ a[Len(c) + 1] = r
  BY AppendProperties
<1> HIDE DEF o
<1>3. PICK k \in Nat : k = Len(c)
  BY LenProperties
<1>4. a = c \o o
  <2> DEFINE y == c \o o
  <2>1. /\ y \in Seq(Piece) /\ Len(y) = Len(c) + Len(o)
        /\ \A i \in 1 .. Len(c) + Len(o) : y[i] = IF i <= Len(c) THEN c[i] ELSE o[i - Len(c)]
    BY <1>1, ConcatProperties
  <2> HIDE DEF y
  <2>2. Len(y) = k + 1 /\ Len(a) = k + 1
    BY <1>1, <1>2, <1>3, <2>1
  <2>3. ASSUME NEW i \in 1 .. Len(a)  PROVE a[i] = y[i]
    <3>1. i \in 1 .. k + 1
      BY <2>2
    <3>2. CASE i <= k
      BY <3>1, <3>2, <2>1, <1>1, <1>2, <1>3
    <3>3. CASE i = k + 1
      <4>1. ~(i <= k) /\ i - k = 1
        BY <3>3
      <4>2. y[i] = o[i - k]
        BY <4>1, <3>1, <2>1, <1>1, <1>3
      <4> QED  BY <4>1, <4>2, <3>3, <1>1, <1>2, <1>3
    <3> QED  BY <3>1, <3>2, <3>3
  <2>4. a = y
    BY <1>2, <2>1, <2>2, <2>3, SeqEqual
  <2> QED  BY <2>4 DEF y
<1>5. a # << >>
  <2>1. Len(a) # 0
    BY <1>2, <1>3
  <2> QED  BY <2>1
<1>6. \A n : OwnParts(c, n) /\ r.to \in {0, n} => OwnParts(a, n)
  <2>1. \A n : r.to \in {0, n} => OwnParts(o, n)
    BY OwnOne DEF o
  <2>2. \A n : OwnParts(c \o o, n) <=> OwnParts(c, n) /\ OwnParts(o, n)
    BY <1>1, OwnConcat
  <2> QED  BY <1>4, <2>1, <2>2
<1> QED  BY <1>2, <1>4, <1>5, <1>6 DEF o

MovesOver(g, c, o, p) ==
  /\ (g \o (c \o o)) \o p = (g \o c) \o (o \o p)
  /\ ((g \o (c \o o)) \o << >>) \o p = (g \o c) \o (o \o p)

LEMMA MovedOver ==
  ASSUME NEW g \in Seq(Piece), NEW c \in Seq(Piece), NEW o \in Seq(Piece), NEW p \in Seq(Piece)
  PROVE  MovesOver(g, c, o, p)
<1> DEFINE a == c \o o
<1>1. a \in Seq(Piece) /\ g \o c \in Seq(Piece)
  BY OwnConcat
<1>2. g \o a = (g \o c) \o o
  BY ThreeParts, ZenonT(40)
<1> HIDE DEF a
<1>3. (g \o a) \o p = (g \o c) \o (o \o p)
  <2> DEFINE h == g \o c
  <2> HIDE DEF h
  <2>1. h \in Seq(Piece) /\ g \o a = h \o o
    BY <1>1, <1>2 DEF h
  <2>2. (h \o o) \o p = h \o (o \o p)
    BY <2>1, ThreeParts
  <2> QED  BY <2>1, <2>2 DEF h
<1>4. (g \o a) \o << >> = g \o a
  <2>1. g \o a \in Seq(Piece)
    BY <1>1, OwnConcat
  <2> DEFINE h == g \o a
  <2> HIDE DEF h
  <2>2. h \in Seq(Piece)
    BY <2>1 DEF h
  <2>3. h \o << >> = h
    BY <2>2, ConcatEmptySeq
  <2> QED  BY <2>3 DEF h
<1> QED  BY <1>3, <1>4 DEF a, MovesOver

(* What a program or an SCGI application sends is received.                *)
LEMMA PartKeeps ==
  ASSUME Typed, HoldersRun, \A t \in Sessions : Sound(t), NEW s \in Sessions, Part(s)
  PROVE  Typed' /\ HoldersRun' /\ \A t \in Sessions : Sound(t)'
<1> USE WaysAre
<1>1. Sound(s) /\ pc[s] \in Reading
  BY DEF Part, Receiving, At, Reading
<1>2. PICK w \in {"fork", "scgi"} : w = way[s]
  BY <1>1 DEF Part, Sound, Way, Reading
<1> DEFINE r == Head(wire[s][w].unread)
           more == Append(call[s], r)
<1>3. /\ Mine(number[s][w], s, w) /\ wire[s][w].unread # << >> /\ Takes(s, w)
      /\ \/ call' = [call EXCEPT ![s] = more] /\ UNCHANGED <<pc, got>>
         \/ /\ got' = Sent(s, more) /\ call' = [call EXCEPT ![s] = << >>] /\ pc' = [pc EXCEPT ![s] = "more"]
      /\ UNCHANGED <<way, asked, why, skewed, object, file, holders, child, shut>>
  BY <1>2 DEF Part, Unread, First, Taken, Takes, Goes
<1>4. w \in Ways /\ w \in Kinds /\ w # "fcgi" /\ way[s] = w
  BY <1>2 DEF Kinds
<1>5. wire[s][w] \in Wire /\ number[s][w] \in Fds \cup {0}
  BY <1>4 DEF Typed
<1>6. r \in Piece
  BY <1>3, <1>5, HeadTailProperties DEF Wire
<1>7. Open(s, w)
  BY <1>3, <1>5 DEF Mine, Open, Of, In
<1> HIDE DEF r
<1>8. call[s] \in Seq(Piece) /\ got[s] \in Seq(Piece) /\ << >> \in Seq(Piece)
  BY EmptySeq DEF Typed, ThreadTyped
<1>9. more \in Seq(Piece)
  BY <1>6, <1>8, AppendProperties
<1> HIDE DEF more
<1>10. /\ ThreadTyped' /\ \A t \in Sessions : t # s => Quiets(t)
       /\ \/ call'[s] = more /\ got'[s] = got[s] /\ pc'[s] = pc[s]
          \/ call'[s] = << >> /\ got'[s] = Sent(s, more)[s] /\ pc'[s] = "more"
  <2>1. CASE call' = [call EXCEPT ![s] = more] /\ UNCHANGED <<pc, got>>
    BY <1>3, <1>9, <2>1 DEF Typed, ThreadTyped, Quiets
  <2>2. CASE got' = Sent(s, more) /\ call' = [call EXCEPT ![s] = << >>] /\ pc' = [pc EXCEPT ![s] = "more"]
    <3>1. got' \in [Sessions -> Seq(Piece)] /\ \A t \in Sessions : t # s => got'[t] = got[t]
      BY <1>9, <2>2, SentIs
    <3> QED  BY <1>3, <1>8, <2>2, <3>1 DEF Typed, ThreadTyped, Quiets, PCs
  <2> QED  BY <1>3, <2>1, <2>2
<1>11. way' = way /\ asked' = asked /\ why' = why /\ skewed' = skewed
  BY <1>3
<1>12. Typed' /\ HoldersRun' /\ Took(s, w, r) /\ \A t \in Sessions : t # s => Same(t)
  BY <1>3, <1>4, <1>10, TookIs DEF r
<1> DEFINE p == Stream(s, w)'
           q == <<r>> \o p
<1>13. /\ number' = number /\ joined' = joined /\ pair' = pair
       /\ holders' = holders /\ child' = child /\ shut' = shut
       /\ \A x \in Kinds : Of(s, x)' = Of(s, x)
       /\ \A x \in Ways : Open(s, x)' <=> Open(s, x)
       /\ \A x \in Ways : x # w => Stream(s, x)' = Stream(s, x) /\ wire'[s][x] = wire[s][x]
       /\ wire'[s][w].up = wire[s][w].up /\ wire'[s][w].rest = wire[s][w].rest
       /\ p \in Seq(Piece) /\ Stream(s, w) = q
  BY <1>12 DEF Took
<1>14. /\ more # << >> /\ got[s] \o more # << >>
       /\ \A n : OwnParts(call[s], n) /\ r.to \in {0, n} => OwnParts(more, n)
       /\ (got[s] \o more) \o p = (got[s] \o call[s]) \o q
       /\ ((got[s] \o more) \o << >>) \o p = (got[s] \o call[s]) \o q
  <2> DEFINE g == got[s]
             c == call[s]
  <2> HIDE DEF g, c, p
  <2>1. g \in Seq(Piece) /\ c \in Seq(Piece) /\ p \in Seq(Piece)
    BY <1>8, <1>13 DEF g, c
  <2>2. more = Append(c, r)
    BY DEF more, c
  <2> DEFINE o == <<r>>
  <2>3. /\ more # << >> /\ more = c \o o
        /\ \A n : OwnParts(c, n) /\ r.to \in {0, n} => OwnParts(more, n)
    BY <1>6, <2>1, <2>2, AppendIs
  <2>4. o \in Seq(Piece) /\ q = o \o p
    BY <1>6
  <2> HIDE DEF o, q
  <2>5. g \o more # << >>
    <3>1. more \in Seq(Piece)
      BY <1>9
    <3> QED  BY <2>1, <2>3, <3>1, LastIs
  <2>6. /\ (g \o more) \o p = (g \o c) \o (o \o p)
        /\ ((g \o more) \o << >>) \o p = (g \o c) \o (o \o p)
    <3>1. MovesOver(g, c, o, p)
      BY <2>1, <2>4, MovedOver
    <3> QED  BY <2>3, <3>1 DEF MovesOver
  <2> QED  BY <2>3, <2>4, <2>5, <2>6 DEF g, c
<1>15. \A n : OwnParts(q, n) => r.to \in {0, n} /\ OwnParts(p, n)
  <2> HIDE DEF p
  <2>1. p \in Seq(Piece)
    BY <1>13
  <2> QED  BY <1>6, <2>1, FirstIs
<1> HIDE DEF p, q
<1>16. pc'[s] \in Reading /\ (pc'[s] = "first" => got'[s] = got[s] /\ pc[s] = "first")
  BY <1>1, <1>10 DEF Reading
<1>17. w \notin skewed[s] => OwnParts(q, asked[s])
  BY <1>1, <1>2, <1>4, <1>7, <1>13 DEF Sound, Streams, Running, Reading
<1>18. w = "fork" => OwnParts(q, asked[s])
  BY <1>1, <1>4, <1>13 DEF Sound, Streams, Running, Reading
<1>19. Way(s)'
  BY <1>4, <1>11, <1>16 DEF Way, Reading
<1>20. Files(s)'
  BY <1>1, <1>4, <1>11, <1>13, <1>16 DEF Sound, Files, Forking, Running, Reading, Kinds
<1>21. Child(s)'
  <2>1. wire'[s]["fork"].rest = wire[s]["fork"].rest
    BY <1>4, <1>13
  <2> QED  BY <2>1, <1>1, <1>4, <1>11, <1>13, <1>16 DEF Sound, Child, Running, Reading
<1>22. Streams(s)'
  <2>1. ASSUME NEW x \in Instances, x # w
        PROVE  /\ ~wire'[s][x].up => wire'[s][x].rest = << >>
               /\ x = "fcgi" /\ wire'[s][x].up => LET y == Stream(s, x)' IN y # << >> => y[Len(y)].part = 0
               /\ (x \notin skewed'[s] /\ Open(s, x)') => Stream(s, x)' = << >>
    <3>1. /\ ~wire[s][x].up => wire[s][x].rest = << >>
          /\ x = "fcgi" /\ wire[s][x].up => LET y == Stream(s, x) IN y # << >> => y[Len(y)].part = 0
          /\ (x \notin skewed[s] /\ Open(s, x)) => Stream(s, x) = << >>
      BY <2>1, <1>1, <1>4 DEF Sound, Streams
    <3>2. Stream(s, x)' = Stream(s, x) /\ wire'[s][x] = wire[s][x] /\ (Open(s, x)' <=> Open(s, x))
      BY <2>1, <1>13
    <3> QED  BY <3>1, <3>2, <1>11
  <2>2. w \in Instances => (~wire'[s][w].up => wire'[s][w].rest = << >>)
    BY <1>1, <1>13 DEF Sound, Streams
  <2>3. w \notin skewed[s] \/ w = "fork" => OwnParts(p, asked[s])
    BY <1>15, <1>17, <1>18
  <2>4. p = Stream(s, w)'
    BY DEF p
  <2>5. \A x \in Instances : x # w \/ x = w
    OBVIOUS
  <2> QED  BY <2>1, <2>2, <2>3, <2>4, <2>5, <1>2, <1>4, <1>11, <1>16 DEF Streams
<1>23. w \notin skewed[s] => OwnParts(more, asked[s]) /\ OwnParts(Sent(s, more)[s], asked[s])
                             /\ OwnParts(got[s], asked[s])
  <2> SUFFICES ASSUME w \notin skewed[s]
               PROVE  OwnParts(more, asked[s]) /\ OwnParts(Sent(s, more)[s], asked[s])
                      /\ OwnParts(got[s], asked[s])
    OBVIOUS
  <2>1. OwnParts(call[s], asked[s]) /\ OwnParts(got[s], asked[s])
    BY <1>1, <1>4 DEF Sound, Has
  <2>2. OwnParts(more, asked[s])
    BY <1>14, <1>15, <1>17, <2>1
  <2> QED  BY <1>9, <2>1, <2>2, SentIs
<1>24. Has(s)'
  <2>1. pc'[s] = "first" => got'[s] = << >>
    BY <1>1, <1>16 DEF Sound, Has
  <2>2. pc'[s] \in {"first", "more"}
    BY <1>16 DEF Reading
  <2>3. w \notin skewed[s] => OwnParts(call'[s], asked[s]) /\ OwnParts(got'[s], asked[s])
    BY <1>10, <1>23, OwnNone
  <2> QED  BY <2>1, <2>2, <2>3, <1>4, <1>11 DEF Has
<1>25. Totals(s)'
  <2> SUFFICES ASSUME Fine(s)'
               PROVE  Total(s)' \in Answers(s, way[s])' /\ (pc'[s] = "more" => got'[s] # << >>)
    <3>1. pc'[s] \in {"first", "more"}
      BY <1>16 DEF Reading
    <3> QED  BY <1>4, <1>11, <3>1 DEF Totals
  <2>1. Fine(s) /\ ~shut[s]
    BY <1>11, <1>13 DEF Fine
  <2>2. /\ (got[s] \o call[s]) \o q \in Answers(s, w)
        /\ pc[s] = "more" => got[s] # << >>
    BY <1>1, <1>4, <1>7, <1>13, <2>1 DEF Sound, Totals, Underway, Total
  <2>3. Sent(s, more)[s] = got[s] \o more
    BY <1>9, <2>1, SentIs
  <2>4. Answers(s, way[s])' = Answers(s, w)
    BY <1>4, <1>11 DEF Answers, Out
  <2>5. Total(s)' = (got'[s] \o call'[s]) \o p
    BY <1>4, <1>11 DEF Total, p
  <2>6. Total(s)' = (got[s] \o call[s]) \o q
    BY <1>10, <1>14, <2>3, <2>5
  <2> QED  BY <1>10, <1>14, <2>2, <2>3, <2>4, <2>6
<1>26. Sound(s)'
  BY <1>19, <1>20, <1>21, <1>22, <1>24, <1>25 DEF Sound
<1> QED  BY <1>12, <1>26, Others

LEMMA ErrorIs ==
  ASSUME Typed, NEW s \in Sessions
  PROVE  <<Error>> \in Seq(Piece) /\ \A n : OwnParts(<<Error>>, n)
BY PiecesAre, OwnOne

(* An answer is over: sent, but for what has happened, it is whole.        *)
LEMMA FinishKeeps ==
  ASSUME Typed, HoldersRun, \A t \in Sessions : Sound(t), NEW s \in Sessions,
         NEW w \in Ways, way[s] = w, pc[s] \in Reading \cup {"over"},
         NEW parts \in Seq(Piece), NEW causes, Finish(s, parts, causes),
         NEW c, Closing(c), \A f \in c \cap Fds : file[f].of \in {s, "nobody"},
         ~Open(s, w) \/ number[s][w] \in c,
         w \notin skewed[s] => OwnParts(parts, asked[s]),
         (Fine(s) /\ causes = {} /\ ~(pc[s] = "first" /\ parts = << >>)) =>
           got[s] \o parts = IF w = "fcgi" THEN <<Out(s, 1), Out(s, 2)>> ELSE <<Out(s, 1)>>,
         UNCHANGED <<way, asked, skewed, object, program>>
  PROVE  Typed' /\ HoldersRun' /\ \A t \in Sessions : Sound(t)'
<1> USE WaysAre
<1> DEFINE to == IF w = "fork" THEN "close" ELSE "done"
           empty == pc[s] = "first" /\ parts = << >>
           error == <<Error>>
           reply == IF empty THEN error ELSE parts
           whys == why[s] \cup causes \cup IF empty THEN {"no output"} ELSE {}
<1>1. /\ pc' = [pc EXCEPT ![s] = to] /\ call' = [call EXCEPT ![s] = << >>]
      /\ got' = Sent(s, reply) /\ why' = [why EXCEPT ![s] = whys]
  BY Zenon DEF Finish, Goes
<1>2. /\ reply \in Seq(Piece) /\ (w \notin skewed[s] => OwnParts(reply, asked[s]))
      /\ (~empty => reply = parts)
  <2>1. error \in Seq(Piece) /\ OwnParts(error, asked[s])
    BY ErrorIs, Zenon
  <2> HIDE DEF error, empty
  <2> QED  BY <2>1
<1>3. whys = {} => why[s] = {} /\ causes = {} /\ ~empty
  OBVIOUS
<1>4. to \in PCs /\ to \in {"close", "done"} /\ (to = "close" <=> w = "fork")
  BY DEF PCs
<1> HIDE DEF to, reply, whys, empty
<1>5. got' \in [Sessions -> Seq(Piece)] /\ \A t \in Sessions : t # s => got'[t] = got[t]
  BY <1>1, <1>2, SentIs
<1>6. << >> \in Seq(Piece)
  BY EmptySeq
<1>7. /\ pc' \in [Sessions -> PCs] /\ pc'[s] = to /\ \A t \in Sessions : t # s => pc'[t] = pc[t]
  BY <1>1, <1>4 DEF Typed, ThreadTyped
<1>8. /\ call' \in [Sessions -> Seq(Piece)] /\ call'[s] = << >> /\ \A t \in Sessions : t # s => call'[t] = call[t]
  BY <1>1, <1>6 DEF Typed, ThreadTyped
<1>9. /\ DOMAIN why' = Sessions /\ why'[s] = whys /\ \A t \in Sessions : t # s => why'[t] = why[t]
  BY <1>1 DEF Typed, ThreadTyped
<1>10. way' = way /\ asked' = asked /\ skewed' = skewed
  OBVIOUS
<1>11. ThreadTyped' /\ \A t \in Sessions : t # s => Quiets(t)
  BY <1>5, <1>7, <1>8, <1>9, <1>10 DEF Typed, ThreadTyped, Quiets
<1>12. Typed' /\ HoldersRun' /\ Leaves(s, c) /\ \A t \in Sessions : t # s => Same(t)
  BY <1>11, CloseStep
<1>13. /\ number' = number /\ joined' = joined /\ pair' = pair
       /\ wire' = wire /\ holders' = holders /\ child' = child /\ shut' = shut
       /\ \A x \in Ways : Stream(s, x)' = Stream(s, x) /\ (Open(s, x)' => Open(s, x))
       /\ ~Open(s, w)'
       /\ \A x \in Kinds : Of(s, x)' \subseteq Of(s, x)
  BY <1>12 DEF Leaves
<1>14. Sound(s)
  OBVIOUS
<1>15. Way(s)'
  BY <1>4, <1>7, <1>10 DEF Way
<1>16. Files(s)'
  <2>1. \A x \in Ways \cup {"child"} : Of(s, x)' \subseteq Of(s, x)
    BY <1>13 DEF Kinds
  <2>2. /\ \A f \in Of(s, "fork")' : pair'[s][1] = f /\ way'[s] = "fork"
        /\ Of(s, "child")' = {}
        /\ \A x \in Instances : \A f \in Of(s, x)' : number'[s][x] = f
        /\ w = "fork" => number'[s]["fork"] = pair'[s][1]
    BY <2>1, <1>10, <1>13, <1>14 DEF Sound, Files, Forking, Running, Reading
  <2> QED  BY <2>2, <1>4, <1>7, <1>10 DEF Files, Forking
<1>17. Child(s)'
  BY <1>4, <1>7, <1>10, <1>13, <1>14 DEF Sound, Child, Running, Reading
<1>18. Streams(s)'
  <2>1. ASSUME NEW x \in Instances
        PROVE  /\ ~wire'[s][x].up => wire'[s][x].rest = << >>
               /\ x = "fcgi" /\ wire'[s][x].up => LET q == Stream(s, x)' IN q # << >> => q[Len(q)].part = 0
               /\ (x \notin skewed'[s] /\ Open(s, x)') => x # w /\ Stream(s, x)' = << >>
    BY <1>10, <1>13, <1>14 DEF Sound, Streams
  <2>2. way'[s] = "fork" => OwnParts(Stream(s, "fork")', asked'[s])
    BY <1>10, <1>13, <1>14 DEF Sound, Streams, Running, Reading
  <2> QED  BY <2>1, <2>2, <1>4, <1>7, <1>10, <1>13 DEF Streams, Reading
<1>19. Has(s)'
  <2>1. w \notin skewed[s] => OwnParts(got'[s], asked[s])
    <3>1. w \notin skewed[s] => OwnParts(got[s], asked[s])
      BY <1>14 DEF Sound, Has
    <3> QED  BY <3>1, <1>1, <1>2, SentIs
  <2> QED  BY <2>1, <1>4, <1>7, <1>8, <1>10, OwnNone DEF Has
<1>20. Totals(s)'
  <2> SUFFICES ASSUME Fine(s)'  PROVE Whole(s)'
    BY <1>4, <1>7 DEF Totals, Underway, Reading
  <2>1. why[s] = {} /\ causes = {} /\ ~empty /\ ~shut[s]
    BY <1>3, <1>9, <1>13 DEF Fine
  <2>2. Fine(s)
    BY <2>1, <1>10 DEF Fine
  <2>3. got'[s] = got[s] \o parts
    <3>1. Sent(s, reply)[s] = got[s] \o reply
      BY <1>2, <2>1, SentIs
    <3> QED  BY <3>1, <1>1, <1>2, <2>1
  <2>4. got[s] \o parts = IF w = "fcgi" THEN <<Out(s, 1), Out(s, 2)>> ELSE <<Out(s, 1)>>
    BY <2>1, <2>2 DEF empty
  <2> QED  BY <2>3, <2>4, <1>10 DEF Whole, Out
<1>21. Sound(s)'
  BY <1>15, <1>16, <1>17, <1>18, <1>19, <1>20 DEF Sound
<1> QED  BY <1>12, <1>21, Others

LEMMA KeptOpen ==
  ASSUME file' = file, Typed
  PROVE  Closing({})
BY DEF Closing, Typed

LEMMA GoneIs ==
  ASSUME Typed, NEW s \in Sessions, NEW w \in Ways, Gone(number[s][w])
  PROVE  ~Open(s, w)
<1>1. \A f \in Of(s, w) : f \in {g \in Fds : file[g] # Free}
  BY FilesApart DEF Of, In, Kinds
<1> QED  BY <1>1 DEF Gone, Open

(* A whole answer of a program or of an SCGI application is one part.      *)
LEMMA OnePart ==
  ASSUME Typed, NEW s \in Sessions, NEW w \in {"fork", "scgi"}, NEW q \in Answers(s, w), q # << >>
  PROVE  q = <<Out(s, 1)>>
BY AnswersAre, WaysAre

(* The program has ended, or the connection, and there is nothing left.    *)
LEMMA NothingLeft ==
  ASSUME Typed, NEW s \in Sessions, NEW w \in Ways, Sound(s), way[s] = w, pc[s] \in Reading,
         Open(s, w), Ended(s, w)
  PROVE  Stream(s, w) = << >>
<1> USE WaysAre
<1>1. wire[s][w].unread = << >>
  BY DEF Ended
<1>2. wire[s][w].rest = << >>
  <2>1. CASE w = "fork"
    <3>1. holders[s] = {}
      BY <2>1 DEF Ended
    <3>2. s \notin holders[s]
      BY <3>1
    <3> QED  BY <2>1, <3>2 DEF Sound, Child, Running, Reading
  <2>2. CASE w # "fork"
    BY <2>2 DEF Ended, Sound, Streams
  <2> QED  BY <2>1, <2>2
<1>3. Stream(s, w) = << >> \o << >>
  BY <1>1, <1>2 DEF Stream
<1> QED  BY <1>3

(* What a thread has of a request that is all received.                    *)
LEMMA AllHad ==
  ASSUME Typed, NEW s \in Sessions, NEW w \in Ways, Sound(s), way[s] = w, pc[s] \in Reading,
         Open(s, w), Stream(s, w) = << >>, Fine(s)
  PROVE  got[s] \o call[s] \in Answers(s, w) /\ (pc[s] = "more" => got[s] # << >>)
<1> USE WaysAre
<1>1. Total(s) \in Answers(s, w) /\ (pc[s] = "more" => got[s] # << >>)
  BY DEF Sound, Totals, Underway
<1>2. Total(s) = (got[s] \o call[s]) \o << >>
  BY DEF Total
<1>3. (got[s] \o call[s]) \o << >> = got[s] \o call[s]
  <2> DEFINE h == got[s] \o call[s]
  <2>1. got[s] \in Seq(Piece) /\ call[s] \in Seq(Piece)
    BY DEF Typed, ThreadTyped
  <2>2. h \in Seq(Piece)
    BY <2>1, OwnConcat
  <2> HIDE DEF h
  <2>3. h \o << >> = h
    BY <2>2, ConcatEmptySeq
  <2> QED  BY <2>3 DEF h
<1> QED  BY <1>1, <1>2, <1>3

(* The end comes after something has been received.                        *)
LEMMA EndKeeps ==
  ASSUME Typed, HoldersRun, \A t \in Sessions : Sound(t), NEW s \in Sessions, NEW w \in Ways,
         way[s] = w, pc[s] \in Reading, Open(s, w), Stream(s, w) = << >>, call[s] # << >>,
         file' = Closed(number[s][w]), ~Foreign(number[s][w], s, w), pc' = [pc EXCEPT ![s] = "over"],
         UNCHANGED <<way, asked, got, call, why, skewed, object, program>>
  PROVE  Typed' /\ HoldersRun' /\ \A t \in Sessions : Sound(t)'
<1> USE WaysAre
<1> DEFINE c == {number[s][w]}
<1>1. Closing(c) /\ \A f \in c \cap Fds : file[f].of \in {s, "nobody"}
  BY ClosedIs, UsableIs DEF Kinds
<1>2. /\ pc' \in [Sessions -> PCs] /\ pc'[s] = "over" /\ \A t \in Sessions : t # s => pc'[t] = pc[t]
  BY DEF Typed, ThreadTyped, PCs
<1>3. way' = way /\ asked' = asked /\ got' = got /\ call' = call /\ why' = why /\ skewed' = skewed
  OBVIOUS
<1>4. ThreadTyped' /\ \A t \in Sessions : t # s => Quiets(t)
  BY <1>2, <1>3 DEF Typed, ThreadTyped, Quiets
<1>5. Typed' /\ HoldersRun' /\ Leaves(s, c) /\ \A t \in Sessions : t # s => Same(t)
  BY <1>1, <1>4, CloseStep
<1>6. /\ number' = number /\ joined' = joined /\ pair' = pair
      /\ wire' = wire /\ holders' = holders /\ child' = child /\ shut' = shut
      /\ \A x \in Ways : Stream(s, x)' = Stream(s, x) /\ (Open(s, x)' => Open(s, x))
      /\ ~Open(s, w)'
      /\ \A x \in Kinds : Of(s, x)' \subseteq Of(s, x)
  BY <1>5 DEF Leaves, c
<1> HIDE DEF c
<1>7. Sound(s)
  OBVIOUS
<1>8. w \in {"fork", "scgi"}
  BY <1>7 DEF Sound, Has
<1>9. Way(s)'
  BY <1>2, <1>3, <1>8 DEF Way
<1>10. Files(s)'
  <2>1. \A x \in Ways \cup {"child"} : Of(s, x)' \subseteq Of(s, x)
    BY <1>6 DEF Kinds
  <2>2. Of(s, "fork")' = {}
    <3>1. CASE w = "fork"
      <4>1. number[s]["fork"] = pair[s][1]
        BY <1>7, <3>1 DEF Sound, Files, Running, Reading
      <4>2. \A f \in Of(s, "fork") : f = pair[s][1]
        BY <1>7 DEF Sound, Files
      <4> QED  BY <4>1, <4>2, <2>1, <1>6, <3>1 DEF Open
    <3>2. CASE w # "fork"
      BY <3>2, <1>7, <2>1 DEF Sound, Files
    <3> QED  BY <3>1, <3>2
  <2>3. /\ Of(s, "child")' = {}
        /\ \A x \in Instances : \A f \in Of(s, x)' : number'[s][x] = f
        /\ w = "fork" => number'[s]["fork"] = pair'[s][1]
    BY <2>1, <1>6, <1>7 DEF Sound, Files, Forking, Running, Reading
  <2> QED  BY <2>2, <2>3, <1>2, <1>3 DEF Files, Forking
<1>11. Child(s)'
  BY <1>2, <1>3, <1>6, <1>7 DEF Sound, Child, Running, Reading
<1>12. Streams(s)'
  <2>1. ASSUME NEW x \in Instances
        PROVE  /\ ~wire'[s][x].up => wire'[s][x].rest = << >>
               /\ x = "fcgi" /\ wire'[s][x].up => LET q == Stream(s, x)' IN q # << >> => q[Len(q)].part = 0
               /\ (x \notin skewed'[s] /\ Open(s, x)') => x # w /\ Stream(s, x)' = << >>
    BY <1>3, <1>6, <1>7 DEF Sound, Streams
  <2>2. way'[s] = "fork" => OwnParts(Stream(s, "fork")', asked'[s])
    BY <1>3, <1>6, <1>7 DEF Sound, Streams, Running, Reading
  <2> QED  BY <2>1, <2>2, <1>2, <1>3, <1>6 DEF Streams, Reading
<1>13. Has(s)'
  BY <1>2, <1>3, <1>7, <1>8 DEF Sound, Has
<1>14. Totals(s)'
  <2> SUFFICES ASSUME Fine(s)'  PROVE got'[s] \o call'[s] \in Answers(s, way[s])'
    BY <1>2 DEF Totals, Underway, Reading
  <2>1. Fine(s)
    BY <1>3, <1>6 DEF Fine
  <2>2. got[s] \o call[s] \in Answers(s, w)
    BY <1>7, <2>1, AllHad
  <2>3. Answers(s, way[s])' = Answers(s, w)
    BY <1>3 DEF Answers, Out
  <2> QED  BY <1>3, <2>2, <2>3
<1>15. Sound(s)'
  BY <1>9, <1>10, <1>11, <1>12, <1>13, <1>14 DEF Sound
<1> QED  BY <1>5, <1>15, Others

(* A number that is the session's own is not another's.                    *)
LEMMA MineIs ==
  ASSUME Typed, NEW s \in Sessions, NEW w \in Ways, Mine(number[s][w], s, w)
  PROVE  Open(s, w) /\ ~Foreign(number[s][w], s, w)
<1>1. number[s][w] \in Fds \cup {0}
  BY DEF Typed
<1> QED  BY <1>1 DEF Mine, Open, Of, In, Foreign

LEMMA LastKeeps ==
  ASSUME Typed, HoldersRun, \A t \in Sessions : Sound(t), NEW s \in Sessions, Last(s)
  PROVE  Typed' /\ HoldersRun' /\ \A t \in Sessions : Sound(t)'
<1> USE WaysAre
<1>1. pc[s] \in Reading /\ Sound(s)
  BY DEF Last, Receiving, At, Reading
<1>2. PICK w \in Ways : w = way[s]
  BY <1>1 DEF Sound, Way, Reading
<1>3. /\ Mine(number[s][w], s, w) /\ Ended(s, w) /\ file' = Closed(number[s][w])
      /\ IF call[s] # << >> THEN Goes(s, "over") /\ UNCHANGED <<got, call, why>>
         ELSE Finish(s, << >>, IF w \in Records THEN {"ended"} ELSE {})
      /\ UNCHANGED <<way, asked, skewed, object, program>>
  BY <1>2 DEF Last
<1>4. Open(s, w) /\ ~Foreign(number[s][w], s, w)
  BY <1>3, MineIs
<1>5. Stream(s, w) = << >>
  BY <1>1, <1>2, <1>3, <1>4, NothingLeft
<1>6. CASE call[s] # << >>
  <2>1. pc' = [pc EXCEPT ![s] = "over"] /\ UNCHANGED <<got, call, why>>
    BY <1>3, <1>6 DEF Goes
  <2>2. UNCHANGED <<way, asked, got, call, why, skewed, object, program>>
    BY <1>3, <2>1
  <2>3. way[s] = w /\ file' = Closed(number[s][w])
    BY <1>2, <1>3
  <2> QED  BY <1>1, <1>4, <1>5, <1>6, <2>1, <2>2, <2>3, EndKeeps
<1>7. CASE call[s] = << >>
  <2> DEFINE causes == IF w \in Records THEN {"ended"} ELSE {}
             none == << >>
             c == {number[s][w]}
  <2>1. Closing(c) /\ (\A f \in c \cap Fds : file[f].of \in {s, "nobody"}) /\ number[s][w] \in c
    BY <1>3, <1>4, ClosedIs, UsableIs DEF Kinds
  <2>2. Finish(s, none, causes)
    BY <1>3, <1>7
  <2>3. (Fine(s) /\ causes = {} /\ ~(pc[s] = "first" /\ none = << >>)) =>
           got[s] \o none = IF w = "fcgi" THEN <<Out(s, 1), Out(s, 2)>> ELSE <<Out(s, 1)>>
    <3> SUFFICES ASSUME Fine(s), causes = {}, pc[s] # "first"
                 PROVE  got[s] \o none = IF w = "fcgi" THEN <<Out(s, 1), Out(s, 2)>> ELSE <<Out(s, 1)>>
      OBVIOUS
    <3>1. w \in {"fork", "scgi"}
      OBVIOUS
    <3>2. got[s] \o none \in Answers(s, w) /\ got[s] # << >>
      BY <1>1, <1>2, <1>4, <1>5, <1>7, AllHad DEF Reading
    <3>3. got[s] \o none = got[s]
      <4>1. got[s] \in Seq(Piece)
        BY DEF Typed, ThreadTyped
      <4> QED  BY <4>1, ConcatEmptySeq
    <3>4. got[s] = <<Out(s, 1)>>
      BY <3>1, <3>2, <3>3, OnePart
    <3> QED  BY <3>1, <3>3, <3>4
  <2>4. none \in Seq(Piece) /\ OwnParts(none, asked[s])
    BY EmptySeq, OwnNone
  <2>5. way[s] = w /\ pc[s] \in Reading \cup {"over"} /\ UNCHANGED <<way, asked, skewed, object, program>>
    BY <1>1, <1>2, <1>3
  <2> HIDE DEF causes, none, c
  <2> QED  BY <2>1, <2>2, <2>3, <2>4, <2>5, FinishKeeps
<1> QED  BY <1>6, <1>7

(* And after the end.                                                      *)
LEMMA OverKeeps ==
  ASSUME Typed, HoldersRun, \A t \in Sessions : Sound(t), NEW s \in Sessions, Over(s)
  PROVE  Typed' /\ HoldersRun' /\ \A t \in Sessions : Sound(t)'
<1> USE WaysAre
<1>1. pc[s] \in Reading \cup {"over"} /\ Sound(s)
  BY DEF Over, Receiving, At, Reading
<1>2. PICK w \in Ways : w = way[s]
  BY <1>1 DEF Sound, Way, Reading
<1>3. /\ \/ pc[s] = "over" /\ Finish(s, call[s], {})
         \/ pc[s] \in Reading /\ Finish(s, << >>, {"ended"})
      /\ Gone(number[s][w])
      /\ UNCHANGED <<way, asked, skewed, object, file, program>>
  BY <1>2 DEF Over, Receiving, At, Reading
<1>4. ~Open(s, w)
  BY <1>3, GoneIs
<1> DEFINE c == {}
<1>5. Closing(c) /\ \A f \in c \cap Fds : file[f].of \in {s, "nobody"}
  BY <1>3, KeptOpen
<1>6. way[s] = w /\ UNCHANGED <<way, asked, skewed, object, program>>
  BY <1>2, <1>3
<1> HIDE DEF c
<1>7. CASE pc[s] = "over" /\ Finish(s, call[s], {})
  <2> DEFINE parts == call[s]
             causes == {}
  <2>1. parts \in Seq(Piece) /\ (w \notin skewed[s] => OwnParts(parts, asked[s])) /\ parts # << >>
    BY <1>1, <1>2, <1>7 DEF Sound, Has, Typed, ThreadTyped
  <2>2. (Fine(s) /\ causes = {} /\ ~(pc[s] = "first" /\ parts = << >>)) =>
           got[s] \o parts = IF w = "fcgi" THEN <<Out(s, 1), Out(s, 2)>> ELSE <<Out(s, 1)>>
    <3> SUFFICES ASSUME Fine(s)
                 PROVE  got[s] \o parts = IF w = "fcgi" THEN <<Out(s, 1), Out(s, 2)>> ELSE <<Out(s, 1)>>
      OBVIOUS
    <3>1. w \in {"fork", "scgi"}
      BY <1>1, <1>2, <1>7 DEF Sound, Way
    <3>2. got[s] \o parts \in Answers(s, w)
      BY <1>1, <1>2, <1>7 DEF Sound, Totals
    <3>3. got[s] \o parts # << >>
      <4>1. got[s] \in Seq(Piece)
        BY DEF Typed, ThreadTyped
      <4> HIDE DEF parts
      <4> QED  BY <4>1, <2>1, LastIs
    <3>4. got[s] \o parts = <<Out(s, 1)>>
      <4> DEFINE q == got[s] \o parts
      <4>1. q \in Answers(s, w) /\ q # << >>
        BY <3>2, <3>3
      <4> HIDE DEF q
      <4>2. q = <<Out(s, 1)>>
        BY <3>1, <4>1, OnePart
      <4> QED  BY <4>2 DEF q
    <3> QED  BY <3>1, <3>4
  <2>3. Finish(s, parts, causes)
    BY <1>7
  <2> HIDE DEF parts, causes
  <2> QED  BY <1>1, <1>4, <1>5, <1>6, <2>1, <2>2, <2>3, FinishKeeps
<1>8. CASE pc[s] \in Reading /\ Finish(s, << >>, {"ended"})
  <2> DEFINE parts == << >>
             causes == {"ended"}
  <2>1. parts \in Seq(Piece) /\ OwnParts(parts, asked[s]) /\ causes # {}
    BY EmptySeq, OwnNone
  <2>2. Finish(s, parts, causes)
    BY <1>8
  <2> HIDE DEF parts, causes
  <2> QED  BY <1>1, <1>4, <1>5, <1>6, <2>1, <2>2, FinishKeeps
<1> QED  BY <1>3, <1>7, <1>8

LEMMA TimeOutKeeps ==
  ASSUME Typed, HoldersRun, \A t \in Sessions : Sound(t), NEW s \in Sessions, TimeOut(s)
  PROVE  Typed' /\ HoldersRun' /\ \A t \in Sessions : Sound(t)'
<1> USE WaysAre
<1>1. pc[s] \in Reading /\ Sound(s)
  BY DEF TimeOut, Receiving, At, Reading
<1>2. PICK w \in Ways : w = way[s]
  BY <1>1 DEF Sound, Way, Reading
<1> DEFINE parts == << >>
           causes == {"timed out"}
           c == {number[s][w]}
<1>3. /\ Mine(number[s][w], s, w) /\ file' = Closed(number[s][w]) /\ Finish(s, parts, causes)
      /\ UNCHANGED <<way, asked, skewed, object, program>>
  BY <1>2 DEF TimeOut
<1>4. ~Foreign(number[s][w], s, w)
  BY <1>3, MineIs
<1>5. Closing(c) /\ (\A f \in c \cap Fds : file[f].of \in {s, "nobody"}) /\ number[s][w] \in c
  BY <1>3, <1>4, ClosedIs, UsableIs DEF Kinds
<1>6. parts \in Seq(Piece) /\ OwnParts(parts, asked[s]) /\ causes # {}
  BY EmptySeq, OwnNone
<1>7. way[s] = w /\ pc[s] \in Reading \cup {"over"} /\ UNCHANGED <<way, asked, skewed, object, program>>
  BY <1>1, <1>2, <1>3
<1> HIDE DEF parts, causes, c
<1> QED  BY <1>3, <1>5, <1>6, <1>7, FinishKeeps

-----------------------------------------------------------------------------
(* A step of an application.                                               *)
Puts(s, w, v) ==
  /\ pc' = pc /\ way' = way /\ asked' = asked /\ got' = got /\ call' = call /\ skewed' = skewed
  /\ number' = number /\ joined' = joined /\ pair' = pair /\ file' = file
  /\ holders' = holders /\ child' = child /\ shut' = shut
  /\ \A x \in Kinds : Of(s, x)' = Of(s, x)
  /\ \A x \in Ways : Open(s, x)' <=> Open(s, x)
  /\ \A x \in Ways : x # w => Stream(s, x)' = Stream(s, x) /\ wire'[s][x] = wire[s][x]
  /\ wire'[s][w] = v /\ Stream(s, w)' = v.unread \o v.rest

LEMMA PutStep ==
  ASSUME Typed, HoldersRun, NEW s \in Sessions, NEW w \in Ways, NEW v \in Wire,
         wire' = [wire EXCEPT ![s][w] = v],
         UNCHANGED <<pc, way, asked, got, call, skewed, object, file, holders, child, shut>>,
         DOMAIN why' = Sessions, \A t \in Sessions : t # s => why'[t] = why[t]
  PROVE  Typed' /\ HoldersRun' /\ Puts(s, w, v) /\ \A t \in Sessions : t # s => Same(t)
<1>1. /\ pc' = pc /\ way' = way /\ asked' = asked /\ got' = got /\ call' = call /\ skewed' = skewed
      /\ number' = number /\ joined' = joined /\ pair' = pair /\ file' = file
      /\ holders' = holders /\ child' = child /\ shut' = shut
  BY DEF object
<1>2. /\ wire' \in [Sessions -> [Ways -> Wire]] /\ wire'[s][w] = v
      /\ \A x \in Ways : x # w => wire'[s][x] = wire[s][x]
      /\ \A t \in Sessions : t # s => wire'[t] = wire[t]
  <2>1. wire \in [Sessions -> [Ways -> Wire]]
    BY DEF Typed
  <2> QED  BY <2>1, WireSet
<1>3. Typed'
  BY <1>1, <1>2 DEF Typed, ThreadTyped
<1>4. HoldersRun'
  BY <1>1 DEF HoldersRun
<1>5. ASSUME NEW t \in Sessions, NEW x  PROVE Of(t, x)' = Of(t, x)
  BY <1>1 DEF Of, In
<1>6. ASSUME NEW x \in Ways  PROVE Open(s, x)' <=> Open(s, x)
  BY <1>1, <1>5 DEF Open
<1>7. ASSUME NEW x \in Ways, x # w  PROVE Stream(s, x)' = Stream(s, x) /\ wire'[s][x] = wire[s][x]
  <2>1. wire'[s][x] = wire[s][x]
    BY <1>2, <1>7
  <2> QED  BY <2>1 DEF Stream
<1>8. Stream(s, w)' = v.unread \o v.rest
  BY <1>2 DEF Stream
<1>9. ASSUME NEW t \in Sessions, t # s  PROVE Same(t)
  <2>1. wire'[t] = wire[t] /\ why'[t] = why[t]
    BY <1>2, <1>9
  <2> QED  BY <2>1, <1>1, <1>5 DEF Same
<1> QED  BY <1>1, <1>2, <1>3, <1>4, <1>5, <1>6, <1>7, <1>8, <1>9 DEF Puts

LEMMA SendsIs ==
  ASSUME Typed, NEW s \in Sessions, NEW w \in Ways, Sends(s, w)
  PROVE  wire' = [wire EXCEPT ![s][w] = Moved(wire[s][w])]
<1>1. wire' = [wire EXCEPT ![s][w].unread = Append(@, Head(wire[s][w].rest)),
                           ![s][w].rest = Tail(@)]
  BY Zenon DEF Sends
<1>2. wire \in [Sessions -> [Ways -> Wire]]
  BY DEF Typed
<1> QED  BY <1>1, <1>2, Sending, Zenon

LEMMA SendsKeeps ==
  ASSUME Typed, HoldersRun, \A t \in Sessions : Sound(t),
         NEW s \in Sessions, NEW w \in Instances, Sends(s, w)
  PROVE  Typed' /\ HoldersRun' /\ \A t \in Sessions : Sound(t)'
<1> USE WaysAre
<1> DEFINE x == wire[s][w]
           v == Moved(x)
<1>1. wire \in [Sessions -> [Ways -> Wire]] /\ w \in Ways /\ w # "fork"
  BY DEF Typed
<1>2. /\ x.up /\ x.rest # << >>
      /\ UNCHANGED <<thread, object, file, holders, child, shut>>
  BY Zenon DEF Sends
<1>3. wire' = [wire EXCEPT ![s][w] = v]
  BY <1>1, SendsIs
<1>4. v \in Wire /\ v.up = x.up /\ v.unread \o v.rest = x.unread \o x.rest
  <2>1. x \in Wire
    BY <1>1
  <2> QED  BY <1>2, <2>1, MovedIs
<1> HIDE DEF v
<1>5. /\ UNCHANGED <<pc, way, asked, got, call, skewed, object, file, holders, child, shut>>
      /\ why' = why
  BY <1>2 DEF thread
<1>6. DOMAIN why' = Sessions /\ \A t \in Sessions : t # s => why'[t] = why[t]
  BY <1>5 DEF Typed, ThreadTyped
<1>7. Typed' /\ HoldersRun' /\ Puts(s, w, v) /\ \A t \in Sessions : t # s => Same(t)
  BY <1>1, <1>3, <1>4, <1>5, <1>6, PutStep
<1>8. Sound(s)
  OBVIOUS
<1>9. /\ pc' = pc /\ way' = way /\ asked' = asked /\ got' = got /\ call' = call /\ skewed' = skewed
      /\ number' = number /\ joined' = joined /\ pair' = pair
      /\ holders' = holders /\ child' = child /\ shut' = shut
      /\ \A y \in Kinds : Of(s, y)' = Of(s, y)
      /\ \A y \in Ways : y # w => wire'[s][y] = wire[s][y]
  BY <1>7 DEF Puts
<1>10. ASSUME NEW y \in Ways  PROVE (Open(s, y)' <=> Open(s, y)) /\ Stream(s, y)' = Stream(s, y)
  BY <1>4, <1>7 DEF Puts, Stream
<1>11. wire'[s][w].up
  BY <1>2, <1>4, <1>7 DEF Puts
<1>12. Way(s)'
  BY <1>8, <1>9 DEF Sound, Way
<1>13. Files(s)'
  BY <1>8, <1>9 DEF Sound, Files, Kinds
<1>14. Child(s)'
  <2>1. wire'[s]["fork"] = wire[s]["fork"]
    BY <1>1, <1>9
  <2> QED  BY <2>1, <1>8, <1>9, <1>10 DEF Sound, Child
<1>15. Streams(s)'
  <2>1. ASSUME NEW y \in Instances
        PROVE  /\ ~wire'[s][y].up => wire'[s][y].rest = << >>
               /\ (y = "fcgi" /\ wire'[s][y].up) => wire[s][y].up
               /\ (y \notin skewed'[s] /\ Open(s, y)' /\ ~(way'[s] = y /\ pc'[s] \in Reading)) => Stream(s, y)' = << >>
               /\ (y \notin skewed'[s] /\ Open(s, y)' /\ way'[s] = y /\ pc'[s] \in Reading) =>
                    LET q == Stream(s, y)'
                    IN OwnParts(q, asked'[s]) /\ (y = "fcgi" => \A i \in 1 .. Len(q) - 1 : q[i].part # 0)
    <3>1. y # w => wire'[s][y] = wire[s][y]
      BY <1>9
    <3>2. (Open(s, y)' <=> Open(s, y)) /\ Stream(s, y)' = Stream(s, y)
      BY <1>10
    <3>3. ~wire'[s][y].up => wire'[s][y].rest = << >>
      BY <3>1, <1>8, <1>11 DEF Sound, Streams
    <3>4. wire'[s][y].up => wire[s][y].up
      BY <3>1, <1>2
    <3> QED  BY <3>2, <3>3, <3>4, <1>8, <1>9 DEF Sound, Streams
  <2>2. Stream(s, "fcgi")' = Stream(s, "fcgi") /\ Stream(s, "fork")' = Stream(s, "fork")
        /\ (Open(s, "fcgi")' <=> Open(s, "fcgi"))
    BY <1>10
  <2>3. wire[s]["fcgi"].up => LET q == Stream(s, "fcgi") IN q # << >> => q[Len(q)].part = 0
    BY <1>8 DEF Sound, Streams
  <2>4. way[s] = "fork" /\ pc[s] \in Running => OwnParts(Stream(s, "fork"), asked[s])
    BY <1>8 DEF Sound, Streams
  <2>5. way[s] = "fcgi" /\ pc[s] \in Reading /\ Open(s, "fcgi") /\ wire[s]["fcgi"].up =>
          Stream(s, "fcgi") # << >>
    BY <1>8 DEF Sound, Streams
  <2> QED  BY <2>1, <2>2, <2>3, <2>4, <2>5, <1>9 DEF Streams
<1>16. Has(s)'
  BY <1>8, <1>9 DEF Sound, Has, OwnParts
<1>17. Totals(s)'
  <2>1. (Fine(s)' <=> Fine(s)) /\ (Whole(s)' <=> Whole(s)) /\ Answers(s, way[s])' = Answers(s, way[s])
    BY <1>5, <1>9 DEF Fine, Whole, Out, Answers
  <2>2. pc[s] \in Reading => way[s] \in Ways
    BY <1>8 DEF Sound, Way, Reading
  <2>3. Underway(s)' <=> Underway(s)
    BY <2>2, <1>9, <1>10 DEF Underway
  <2>4. Underway(s) => Total(s)' = Total(s)
    BY <2>2, <1>9, <1>10 DEF Underway, Total
  <2> QED  BY <1>8, <1>9, <2>1, <2>3, <2>4 DEF Sound, Totals
<1>18. Sound(s)'
  BY <1>12, <1>13, <1>14, <1>15, <1>16, <1>17 DEF Sound
<1> QED  BY <1>7, <1>18, Others

(* What has come is a first part of what there was to come.                *)
LEMMA FirstPart ==
  ASSUME NEW u \in Seq(Piece), NEW r \in Seq(Piece), NEW q, q = u \o r
  PROVE  /\ \A n : OwnParts(q, n) => OwnParts(u, n)
         /\ (\A i \in 1 .. Len(q) - 1 : q[i].part # 0) => \A i \in 1 .. Len(u) - 1 : u[i].part # 0
         /\ q = << >> => u = << >>
         /\ r = << >> => q = u
<1>1. /\ q \in Seq(Piece) /\ Len(q) = Len(u) + Len(r)
      /\ \A i \in 1 .. Len(u) + Len(r) : q[i] = IF i <= Len(u) THEN u[i] ELSE r[i - Len(u)]
  BY ConcatProperties
<1>2. PICK k \in Nat, m \in Nat : k = Len(u) /\ m = Len(r)
  BY LenProperties
<1>3. \A n : OwnParts(q, n) => OwnParts(u, n)
  BY OwnConcat
<1>4. ASSUME \A i \in 1 .. Len(q) - 1 : q[i].part # 0, NEW i \in 1 .. Len(u) - 1
      PROVE  u[i].part # 0
  <2>1. Len(q) = k + m /\ i \in 1 .. k - 1
    BY <1>1, <1>2
  <2>2. i \in 1 .. (k + m) - 1 /\ i \in 1 .. k + m /\ i <= k
    BY <2>1
  <2>3. q[i].part # 0
    BY <2>1, <2>2, <1>4
  <2>4. q[i] = u[i]
    BY <2>2, <1>1, <1>2
  <2> QED  BY <2>3, <2>4
<1>5. q = << >> => u = << >>
  <2> SUFFICES ASSUME q = << >>  PROVE u = << >>
    OBVIOUS
  <2>1. k = 0
    BY <1>1, <1>2
  <2> QED  BY <2>1, <1>2, EmptySeq
<1>6. r = << >> => q = u
  BY ConcatEmptySeq
<1> QED  BY <1>3, <1>4, <1>5, <1>6

LEMMA HangupKeeps ==
  ASSUME Typed, HoldersRun, \A t \in Sessions : Sound(t),
         NEW s \in Sessions, NEW w \in Instances, Hangup(s, w)
  PROVE  Typed' /\ HoldersRun' /\ \A t \in Sessions : Sound(t)'
<1> USE WaysAre
<1>1. wire \in [Sessions -> [Ways -> Wire]] /\ w \in Ways /\ w # "fork"
  BY DEF Typed
<1>2. PICK u \in Seq(Piece), r \in Seq(Piece), b \in Flags : wire[s][w] = [unread |-> u, rest |-> r, up |-> b]
  BY <1>1 DEF Wire
<1>3. wire[s][w].unread = u /\ wire[s][w].rest = r /\ wire[s][w].up = b
  BY <1>2
<1>4. PICK no \in Flags : no = FALSE
  BY TrueFalse, Zenon
<1> DEFINE none == << >>
           v == [unread |-> u, rest |-> none, up |-> no]
<1>5. wire' = [wire EXCEPT ![s][w] = v]
  <2> DEFINE mid == [wire[s][w] EXCEPT !.up = FALSE]
             half == [wire EXCEPT ![s][w] = mid]
             final == [half[s][w] EXCEPT !.rest = none]
  <2>1. wire' = [half EXCEPT ![s][w] = final]
    BY Zenon DEF Hangup
  <2>2. mid = [unread |-> u, rest |-> r, up |-> no]
    <3>1. mid = [[unread |-> u, rest |-> r, up |-> b] EXCEPT !.up = no]
      BY <1>2, <1>4, Zenon
    <3>2. [[unread |-> u, rest |-> r, up |-> b] EXCEPT !.up = no] = [unread |-> u, rest |-> r, up |-> no]
      OBVIOUS
    <3> QED  BY <3>1, <3>2, Zenon
  <2>3. mid \in Wire
    BY <2>2 DEF Wire
  <2>4. /\ half \in [Sessions -> [Ways -> Wire]] /\ half[s][w] = mid
        /\ \A x \in Ways : x # w => half[s][x] = wire[s][x]
        /\ \A t \in Sessions : t # s => half[t] = wire[t]
    <3> HIDE DEF mid
    <3> DEFINE new == half
    <3>1. new = [wire EXCEPT ![s][w] = mid]
      OBVIOUS
    <3> HIDE DEF new
    <3>2. /\ new \in [Sessions -> [Ways -> Wire]] /\ new[s][w] = mid
          /\ \A x \in Ways : x # w => new[s][x] = wire[s][x]
          /\ \A t \in Sessions : t # s => new[t] = wire[t]
      BY <3>1, <2>3, <1>1, WireSet
    <3> QED  BY <3>2 DEF new
  <2>5. final = v
    <3>1. final = [[unread |-> u, rest |-> r, up |-> no] EXCEPT !.rest = none]
      BY <2>2, <2>4, Zenon
    <3>2. [[unread |-> u, rest |-> r, up |-> no] EXCEPT !.rest = none] = v
      OBVIOUS
    <3> QED  BY <3>1, <3>2, Zenon
  <2> HIDE DEF final, v
  <2>6. wire' = [half EXCEPT ![s][w] = v]
    BY <2>1, <2>5, Zenon
  <2> DEFINE row == [wire[s] EXCEPT ![w] = v]
  <2>7. half[s] = [wire[s] EXCEPT ![w] = mid]
    BY <1>1 DEF half
  <2>8. [half[s] EXCEPT ![w] = v] = row
    <3> HIDE DEF mid, half
    <3>1. [[wire[s] EXCEPT ![w] = mid] EXCEPT ![w] = v] = row
      OBVIOUS
    <3> QED  BY <2>7, <3>1, Zenon
  <2> DEFINE first == [wire[s] EXCEPT ![w] = mid]
  <2>9. half = [wire EXCEPT ![s] = first]
    BY Zenon
  <2> HIDE DEF row, first, half, mid
  <2>10. [[wire EXCEPT ![s] = first] EXCEPT ![s] = row] = [wire EXCEPT ![s] = row]
    OBVIOUS
  <2>11. wire' = [half EXCEPT ![s] = row]
    BY <2>6, <2>8, Zenon
  <2>12. wire' = [wire EXCEPT ![s] = row]
    BY <2>9, <2>10, <2>11, Zenon
  <2> QED  BY <2>12, Zenon DEF row
<1>6. v \in Wire /\ v.unread = u /\ v.rest = << >> /\ v.up = no
  <2>1. none \in Seq(Piece)
    BY EmptySeq
  <2> HIDE DEF none
  <2>2. v \in Wire /\ v.unread = u /\ v.rest = none /\ v.up = no
    BY <2>1 DEF Wire
  <2> QED  BY <2>2 DEF none
<1> HIDE DEF v
<1>7. /\ \/ r = << >> /\ ~Busy(s, w) /\ why' = why
         \/ way[s] = w /\ Because(s, "ended")
      /\ UNCHANGED <<pc, way, asked, got, call, skewed, object, file, holders, child, shut>>
  BY <1>3 DEF Hangup
<1>8. /\ DOMAIN why' = Sessions /\ (\A t \in Sessions : t # s => why'[t] = why[t])
      /\ \/ r = << >> /\ why'[s] = why[s]
         \/ way[s] = w /\ why'[s] # {}
  <2>1. DOMAIN why = Sessions
    BY DEF Typed, ThreadTyped
  <2>2. CASE r = << >> /\ why' = why
    BY <2>1, <2>2
  <2>3. CASE way[s] = w /\ Because(s, "ended")
    <3>1. why' = [why EXCEPT ![s] = why[s] \cup {"ended"}]
      BY <2>3, Zenon DEF Because
    <3> DEFINE more == why[s] \cup {"ended"}
    <3>2. more # {}
      OBVIOUS
    <3>3. why' = [why EXCEPT ![s] = more]
      BY <3>1
    <3> HIDE DEF more
    <3> QED  BY <2>1, <2>3, <3>2, <3>3
  <2> QED  BY <1>7, <2>2, <2>3, Zenon
<1>9. Typed' /\ HoldersRun' /\ Puts(s, w, v) /\ \A t \in Sessions : t # s => Same(t)
  BY <1>1, <1>5, <1>6, <1>7, <1>8, PutStep
<1>10. Sound(s)
  OBVIOUS
<1>11. /\ pc' = pc /\ way' = way /\ asked' = asked /\ got' = got /\ call' = call /\ skewed' = skewed
       /\ number' = number /\ joined' = joined /\ pair' = pair
       /\ holders' = holders /\ child' = child /\ shut' = shut
       /\ \A y \in Kinds : Of(s, y)' = Of(s, y)
       /\ \A y \in Ways : y # w => Stream(s, y)' = Stream(s, y) /\ wire'[s][y] = wire[s][y]
       /\ \A y \in Ways : Open(s, y)' <=> Open(s, y)
       /\ wire'[s][w] = v
  BY <1>9 DEF Puts
<1>12. Stream(s, w)' = u /\ Stream(s, w) = u \o r
  <2>1. Stream(s, w)' = u \o << >>
    BY <1>6, <1>9 DEF Puts
  <2>2. u \o << >> = u
    BY ConcatEmptySeq
  <2> QED  BY <2>1, <2>2, <1>3 DEF Stream
<1> DEFINE q == Stream(s, w)
<1>13. /\ \A n : OwnParts(q, n) => OwnParts(u, n)
       /\ (\A i \in 1 .. Len(q) - 1 : q[i].part # 0) => \A i \in 1 .. Len(u) - 1 : u[i].part # 0
       /\ q = << >> => u = << >>
       /\ r = << >> => q = u
  <2>1. q = u \o r
    BY <1>12
  <2> HIDE DEF q
  <2> QED  BY <2>1, FirstPart
<1>14. Way(s)'
  BY <1>10, <1>11 DEF Sound, Way
<1>15. Files(s)'
  BY <1>10, <1>11 DEF Sound, Files, Kinds
<1>16. Child(s)'
  <2>1. wire'[s]["fork"] = wire[s]["fork"]
    BY <1>1, <1>11
  <2> QED  BY <2>1, <1>10, <1>11 DEF Sound, Child
<1>17. Streams(s)'
  <2>1. ~wire'[s][w].up /\ wire'[s][w].rest = << >>
    BY <1>4, <1>6, <1>11
  <2>2. ASSUME NEW y \in Instances
        PROVE  /\ ~wire'[s][y].up => wire'[s][y].rest = << >>
               /\ (y = "fcgi" /\ wire'[s][y].up) => y # w
               /\ (y \notin skewed'[s] /\ Open(s, y)' /\ ~(way'[s] = y /\ pc'[s] \in Reading)) => Stream(s, y)' = << >>
               /\ (y \notin skewed'[s] /\ Open(s, y)' /\ way'[s] = y /\ pc'[s] \in Reading) =>
                    LET p == Stream(s, y)'
                    IN OwnParts(p, asked'[s]) /\ (y = "fcgi" => \A i \in 1 .. Len(p) - 1 : p[i].part # 0)
    <3>1. CASE y = w
      BY <3>1, <2>1, <1>10, <1>11, <1>12, <1>13 DEF Sound, Streams
    <3>2. CASE y # w
      <4>1. wire'[s][y] = wire[s][y] /\ Stream(s, y)' = Stream(s, y) /\ (Open(s, y)' <=> Open(s, y))
        BY <3>2, <1>11
      <4> QED  BY <3>2, <4>1, <1>10, <1>11 DEF Sound, Streams
    <3> QED  BY <3>1, <3>2
  <2>3. (w # "fcgi" => Stream(s, "fcgi")' = Stream(s, "fcgi") /\ wire'[s]["fcgi"] = wire[s]["fcgi"])
        /\ Stream(s, "fork")' = Stream(s, "fork") /\ (Open(s, "fcgi")' <=> Open(s, "fcgi"))
    BY <1>1, <1>11
  <2>4. wire'[s]["fcgi"].up =>
          /\ LET p == Stream(s, "fcgi")' IN p # << >> => p[Len(p)].part = 0
          /\ way[s] = "fcgi" /\ pc[s] \in Reading /\ Open(s, "fcgi")' => Stream(s, "fcgi")' # << >>
    BY <2>1, <2>3, <1>10 DEF Sound, Streams
  <2>5. way[s] = "fork" /\ pc[s] \in Running => OwnParts(Stream(s, "fork")', asked[s])
    BY <2>3, <1>10 DEF Sound, Streams
  <2> QED  BY <2>2, <2>4, <2>5, <1>11 DEF Streams
<1>18. Has(s)'
  BY <1>10, <1>11 DEF Sound, Has, OwnParts
<1>19. Totals(s)'
  <2> SUFFICES ASSUME Fine(s)'  PROVE Totals(s)'
    BY DEF Totals
  <2>1. r = << >> /\ why'[s] = why[s]
    BY <1>8 DEF Fine
  <2>2. \A y \in Ways : Stream(s, y)' = Stream(s, y)
    BY <2>1, <1>11, <1>12, <1>13
  <2>3. (Fine(s)' <=> Fine(s)) /\ (Whole(s)' <=> Whole(s)) /\ Answers(s, way[s])' = Answers(s, way[s])
    BY <2>1, <1>11 DEF Fine, Whole, Out, Answers
  <2>4. pc[s] \in Reading => way[s] \in Ways
    BY <1>10 DEF Sound, Way, Reading
  <2>5. Underway(s)' <=> Underway(s)
    BY <2>4, <1>11 DEF Underway
  <2>6. Underway(s) => Total(s)' = Total(s)
    BY <2>2, <2>4, <1>11 DEF Underway, Total
  <2> QED  BY <1>10, <1>11, <2>3, <2>5, <2>6 DEF Sound, Totals
<1>20. Sound(s)'
  BY <1>14, <1>15, <1>16, <1>17, <1>18, <1>19 DEF Sound
<1> QED  BY <1>9, <1>20, Others

-----------------------------------------------------------------------------
(* The session is deleted.                                                 *)
LEMMA QuietIs ==
  /\ Quiet \in Wire /\ Quiet.unread = << >> /\ Quiet.rest = << >> /\ ~Quiet.up
  /\ FALSE \in Flags
<1>1. PICK no \in Flags : no = FALSE
  BY TrueFalse, Zenon
<1> DEFINE none == << >>
           v == [unread |-> none, rest |-> none, up |-> no]
<1>2. none \in Seq(Piece)
  BY EmptySeq
<1>3. Quiet = v
  BY <1>1, Zenon DEF Quiet
<1> HIDE DEF none
<1>4. v \in Wire /\ v.unread = none /\ v.rest = none /\ v.up = no
  BY <1>2 DEF Wire
<1> HIDE DEF v
<1>5. Quiet \in Wire /\ Quiet.unread = none /\ Quiet.rest = none /\ Quiet.up = no
  BY <1>3, <1>4
<1> QED  BY <1>1, <1>5, Zenon DEF none

LEMMA DeletedKeeps ==
  ASSUME Typed, HoldersRun, \A t \in Sessions : Sound(t), NEW s \in Sessions, Deleted(s)
  PROVE  Typed' /\ HoldersRun' /\ \A t \in Sessions : Sound(t)'
<1> USE WaysAre
<1> DEFINE c == {number[s][w] : w \in Instances}
<1>1. /\ pc[s] = "ending" /\ pc' = [pc EXCEPT ![s] = "gone"]
      /\ \A w \in Instances : ~Foreign(number[s][w], s, w)
      /\ UNCHANGED <<way, got, call, why, pair, holders, child>>
  BY DEF Deleted, At, Goes, Usable
<1>2. Sound(s) /\ way[s] = "none" /\ way' = way /\ got' = got /\ call' = call /\ why' = why
      /\ pair' = pair /\ holders' = holders /\ child' = child
  BY <1>1 DEF Sound, Way
<1>3. file' = [f \in Fds |-> IF f \in c THEN Free ELSE file[f]]
  <2>1. \A f \in Fds : (f \in c) <=> \E w \in Instances : f = number[s][w]
    OBVIOUS
  <2>2. file' = [f \in Fds |-> IF \E w \in Instances : f = number[s][w] THEN Free ELSE file[f]]
    BY Zenon DEF Deleted
  <2> HIDE DEF c
  <2> QED  BY <2>1, <2>2, Zenon
<1>4. \A f \in c \cap Fds : file[f].of \in {s, "nobody"}
  <2>1. ASSUME NEW f \in c, f \in Fds  PROVE file[f].of \in {s, "nobody"}
    <3>1. PICK w \in Instances : f = number[s][w]
      BY <2>1
    <3>2. w \in Kinds
      BY <3>1 DEF Kinds
    <3>3. \A g \in {number[s][w]} \cap Fds : file[g].of \in {s, "nobody"}
      BY <1>1, <3>2, UsableIs
    <3> QED  BY <2>1, <3>1, <3>3
  <2> QED  BY <2>1
<1>5. \A w \in Instances : number[s][w] \in c
  OBVIOUS
<1> HIDE DEF c
<1>6. /\ file' \in [Fds -> Opened]
      /\ \A x \in Kinds : Of(s, x)' = Of(s, x) \ c
      /\ \A t \in Sessions, x \in Kinds : t # s => Of(t, x)' = Of(t, x)
  <2> DEFINE new == file'
  <2>1. file \in [Fds -> Opened] /\ new = [f \in Fds |-> IF f \in c THEN Free ELSE file[f]]
    BY <1>3 DEF Typed
  <2> HIDE DEF new
  <2>2. /\ new \in [Fds -> Opened]
        /\ \A x \in Kinds : In(new, s, x) = In(file, s, x) \ c
        /\ \A t \in Sessions, x \in Kinds : t # s => In(new, t, x) = In(file, t, x)
    BY <1>4, <2>1, CloseFiles
  <2> QED  BY <2>2 DEF new, Of
<1>7. /\ pc' \in [Sessions -> PCs] /\ pc'[s] = "gone" /\ \A t \in Sessions : t # s => pc'[t] = pc[t]
  BY <1>1 DEF Typed, ThreadTyped, PCs
<1>8. /\ number' \in [Sessions -> [Ways -> Fds \cup {0}]]
      /\ (\A w \in Ways : number'[s][w] = 0) /\ \A t \in Sessions : t # s => number'[t] = number[t]
  <2> DEFINE row == [w \in Ways |-> 0]
  <2>1. row \in [Ways -> Fds \cup {0}] /\ \A w \in Ways : row[w] = 0
    OBVIOUS
  <2>2. number' = [number EXCEPT ![s] = row]
    BY DEF Deleted
  <2> HIDE DEF row
  <2> QED  BY <2>1, <2>2 DEF Typed
<1>9. /\ joined' \in [Sessions -> [Instances -> Flags]]
      /\ \A t \in Sessions : t # s => joined'[t] = joined[t]
  <2> DEFINE row == [w \in Instances |-> FALSE]
  <2>1. row \in [Instances -> Flags]
    <3>1. PICK no \in Flags : no = FALSE
      BY TrueFalse, Zenon
    <3>2. row = [w \in Instances |-> no]
      BY <3>1, Zenon
    <3>3. [w \in Instances |-> no] \in [Instances -> Flags]
      OBVIOUS
    <3> QED  BY <3>2, <3>3, Zenon
  <2>2. joined' = [joined EXCEPT ![s] = row]
    BY Zenon DEF Deleted
  <2> HIDE DEF row
  <2> QED  BY <2>1, <2>2 DEF Typed
<1>10. /\ wire' \in [Sessions -> [Ways -> Wire]]
       /\ (\A w \in Ways : wire'[s][w] = Quiet) /\ \A t \in Sessions : t # s => wire'[t] = wire[t]
  <2> DEFINE row == [w \in Ways |-> Quiet]
  <2>1. row \in [Ways -> Wire] /\ \A w \in Ways : row[w] = Quiet
    BY QuietIs
  <2>2. wire' = [wire EXCEPT ![s] = row]
    BY Zenon DEF Deleted
  <2> HIDE DEF row
  <2> QED  BY <2>1, <2>2 DEF Typed
<1>11. /\ skewed' \in [Sessions -> SUBSET Instances] /\ \A t \in Sessions : t # s => skewed'[t] = skewed[t]
  BY DEF Deleted, Typed, ThreadTyped
<1>12. /\ asked' \in [Sessions -> Nat] /\ \A t \in Sessions : t # s => asked'[t] = asked[t]
  BY DEF Deleted, Typed, ThreadTyped
<1>13. /\ shut' \in [Sessions -> Flags] /\ \A t \in Sessions : t # s => shut'[t] = shut[t]
  <2>1. PICK no \in Flags : no = FALSE
    BY TrueFalse, Zenon
  <2>2. shut' = [shut EXCEPT ![s] = no]
    BY <2>1, Zenon DEF Deleted
  <2> QED  BY <2>2 DEF Typed
<1>14. Typed'
  BY <1>2, <1>6, <1>7, <1>8, <1>9, <1>10, <1>11, <1>12, <1>13 DEF Typed, ThreadTyped
<1>15. HoldersRun'
  BY <1>2 DEF HoldersRun
<1>16. ASSUME NEW t \in Sessions, t # s  PROVE Same(t)
  <2>1. \A x \in Ways \cup {"child"} : Of(t, x)' = Of(t, x)
    BY <1>6, <1>16 DEF Kinds
  <2> QED  BY <2>1, <1>2, <1>7, <1>8, <1>9, <1>10, <1>11, <1>12, <1>13, <1>16 DEF Same
<1>17. /\ \A w \in Ways : Of(s, w)' = {} /\ ~Open(s, w)'
       /\ Of(s, "child")' = {}
  <2>1. Of(s, "fork") = {} /\ Of(s, "child") = {}
    BY <1>1, <1>2 DEF Sound, Files, Forking
  <2>2. \A w \in Instances : \A f \in Of(s, w) : f \in c
    BY <1>2, <1>5 DEF Sound, Files
  <2>3. \A w \in Kinds : Of(s, w)' = {}
    BY <2>1, <2>2, <1>6 DEF Kinds
  <2>4. ASSUME NEW w \in Ways  PROVE ~Open(s, w)'
    BY <2>3 DEF Open, Kinds
  <2> QED  BY <2>3, <2>4 DEF Kinds
<1>18. \A w \in Ways : ~wire'[s][w].up /\ wire'[s][w].rest = << >>
  BY <1>10, QuietIs
<1>19. got[s] = << >> /\ call[s] = << >>
  BY <1>1, <1>2 DEF Sound, Has
<1>20. Way(s)'
  BY <1>2, <1>7 DEF Way
<1>21. Files(s)'
  BY <1>2, <1>7, <1>8, <1>17 DEF Files, Forking
<1>22. Child(s)'
  BY <1>2, <1>7, <1>17 DEF Sound, Child
<1>23. Streams(s)'
  BY <1>2, <1>17, <1>18 DEF Streams
<1>24. Has(s)'
  BY <1>2, <1>7, <1>19, OwnNone DEF Has
<1>25. Totals(s)'
  BY <1>2, <1>7 DEF Totals, Underway, Reading
<1>26. Sound(s)'
  BY <1>20, <1>21, <1>22, <1>23, <1>24, <1>25 DEF Sound
<1> QED  BY <1>14, <1>15, <1>16, <1>26, Others

-----------------------------------------------------------------------------
LEMMA Starts ==
  ASSUME Init
  PROVE  Typed /\ HoldersRun /\ \A s \in Sessions : Sound(s)
<1> USE WaysAre
<1>1. /\ pc = [s \in Sessions |-> "idle"] /\ way = [s \in Sessions |-> "none"]
      /\ asked = [s \in Sessions |-> 0] /\ got = [s \in Sessions |-> << >>]
      /\ call = [s \in Sessions |-> << >>] /\ number = [s \in Sessions |-> [w \in Ways |-> 0]]
      /\ pair = [s \in Sessions |-> <<0, 0>>] /\ file = [f \in Fds |-> Free]
      /\ holders = [s \in Sessions |-> {}] /\ child = [s \in Sessions |-> "none"]
      /\ why = [s \in Sessions |-> {}] /\ skewed = [s \in Sessions |-> {}]
  BY DEF Init
<1>2. joined \in [Sessions -> [Instances -> Flags]] /\ shut \in [Sessions -> Flags]
  <2>1. PICK no \in Flags : no = FALSE
    BY TrueFalse, Zenon
  <2>2. joined = [s \in Sessions |-> [w \in Instances |-> no]] /\ shut = [s \in Sessions |-> no]
    BY <2>1, Zenon DEF Init
  <2> QED  BY <2>2
<1>3. /\ wire \in [Sessions -> [Ways -> Wire]]
      /\ \A s \in Sessions, w \in Ways : ~wire[s][w].up /\ wire[s][w].rest = << >>
  <2>1. wire = [s \in Sessions |-> [w \in Ways |-> Quiet]]
    BY DEF Init
  <2> QED  BY <2>1, QuietIs
<1>4. << >> \in Seq(Piece)
  BY EmptySeq
<1>5. ThreadTyped
  BY <1>1, <1>4 DEF ThreadTyped, PCs
<1>6. Typed
  BY <1>1, <1>2, <1>3, <1>5 DEF Typed, Opened
<1>7. HoldersRun
  BY <1>1 DEF HoldersRun
<1>8. ASSUME NEW s \in Sessions  PROVE Sound(s)
  <2>1. \A w \in Kinds : Of(s, w) = {}
    <3>1. \A w \in Kinds : File(s, w) # Free
      BY FilesApart
    <3> QED  BY <1>1, <3>1 DEF Of, In
  <2>2. /\ pc[s] = "idle" /\ way[s] = "none" /\ got[s] = << >> /\ call[s] = << >> /\ child[s] = "none"
        /\ \A w \in Ways : number[s][w] = 0 /\ ~Open(s, w)
    BY <1>1, <2>1 DEF Open, Kinds
  <2>3. Way(s)
    BY <2>2 DEF Way
  <2>4. Files(s)
    BY <2>1, <2>2 DEF Files, Forking, Kinds
  <2>5. Child(s)
    BY <2>2 DEF Child
  <2>6. Streams(s)
    BY <1>3, <2>2 DEF Streams
  <2>7. Has(s)
    BY <2>2, OwnNone DEF Has
  <2>8. Totals(s)
    BY <2>2 DEF Totals, Underway, Reading
  <2> QED  BY <2>3, <2>4, <2>5, <2>6, <2>7, <2>8 DEF Sound
<1> QED  BY <1>6, <1>7, <1>8

(* No action of Next breaks it but the use of another's number, after      *)
(* which nothing is said.                                                  *)
LEMMA NextInv ==
  ASSUME GatewayInv, [Next]_vars
  PROVE  GatewayInv'
<1> SUFFICES ASSUME ~hit'
             PROVE  Typed' /\ HoldersRun' /\ \A s \in Sessions : Sound(s)'
  BY DEF GatewayInv
<1>1. CASE UNCHANGED vars
  <2>1. /\ pc' = pc /\ way' = way /\ asked' = asked /\ got' = got /\ call' = call /\ why' = why
        /\ skewed' = skewed /\ number' = number /\ joined' = joined /\ pair' = pair /\ file' = file
        /\ wire' = wire /\ holders' = holders /\ child' = child /\ shut' = shut /\ hit' = hit
    BY <1>1 DEF vars, thread, object, program
  <2>2. Typed /\ HoldersRun /\ \A s \in Sessions : Sound(s)
    BY <2>1 DEF GatewayInv
  <2>3. Typed' /\ HoldersRun'
    BY <2>1, <2>2 DEF Typed, ThreadTyped, HoldersRun
  <2>4. ASSUME NEW t \in Sessions  PROVE Same(t)
    BY <2>1 DEF Same, Of, In
  <2> QED  BY <2>2, <2>3, <2>4, SameSound
<1>2. CASE Next
  <2>1. PICK s \in Sessions :
          \/ \E w \in Asks[s] : Ask(s, w)
          \/ Plain(s)
          \/ SocketPair(s) \/ Fork(s) \/ NoFork(s) \/ Parent(s) \/ Exec(s) \/ Runs(s) \/ Hangs(s)
          \/ Reuse(s) \/ Connect(s) \/ Begin(s) \/ Send(s)
          \/ Record(s) \/ Part(s) \/ Last(s) \/ Over(s) \/ TimeOut(s)
          \/ Close(s) \/ Wait(s) \/ Done(s) \/ Leave(s) \/ Deleted(s) \/ Harm(s)
          \/ \E w \in Instances : Sends(s, w) \/ Hangup(s, w)
    BY <1>2 DEF Next
  <2>2. ~Harm(s)
    BY DEF Harm
  <2>3. ~hit
    BY <2>1, <2>2 DEF Ask, Plain, SocketPair, Fork, NoFork, Parent, Exec, Runs, Hangs, Reuse,
      Connect, Begin, Send, Record, Part, Last, Over, TimeOut, Close, Wait, Done, Leave, Deleted,
      Sends, Hangup, At, Receiving
  <2>4. Typed /\ HoldersRun /\ \A t \in Sessions : Sound(t)
    BY <2>3 DEF GatewayInv
  <2>5. CASE \E w \in Asks[s] : Ask(s, w)
    BY <2>4, <2>5, AskKeeps
  <2>6. CASE Plain(s)
    BY <2>4, <2>6, PlainKeeps
  <2>7. CASE SocketPair(s)
    BY <2>4, <2>7, SocketPairKeeps
  <2>8. CASE Fork(s)
    BY <2>4, <2>8, ForkKeeps
  <2>9. CASE NoFork(s)
    BY <2>4, <2>9, NoForkKeeps
  <2>10. CASE Parent(s)
    BY <2>4, <2>10, ParentKeeps
  <2>11. CASE Exec(s) \/ Hangs(s)
    BY <2>4, <2>11, ExecKeeps
  <2>12. CASE Runs(s)
    BY <2>4, <2>12, RunsKeeps
  <2>13. CASE Reuse(s)
    BY <2>4, <2>13, ReuseKeeps
  <2>14. CASE Connect(s)
    BY <2>4, <2>14, ConnectKeeps
  <2>15. CASE Begin(s)
    BY <2>4, <2>15, BeginKeeps
  <2>16. CASE Send(s)
    BY <2>4, <2>16, SendKeeps
  <2>17. CASE Record(s)
    BY <2>4, <2>17, RecordKeeps
  <2>18. CASE Part(s)
    BY <2>4, <2>18, PartKeeps
  <2>19. CASE Last(s)
    BY <2>4, <2>19, LastKeeps
  <2>20. CASE Over(s)
    BY <2>4, <2>20, OverKeeps
  <2>21. CASE TimeOut(s)
    BY <2>4, <2>21, TimeOutKeeps
  <2>22. CASE Close(s)
    BY <2>4, <2>22, CloseKeeps
  <2>23. CASE Wait(s)
    BY <2>4, <2>23, WaitKeeps
  <2>24. CASE Done(s) \/ Leave(s)
    BY <2>4, <2>24, DoneKeeps
  <2>25. CASE Deleted(s)
    BY <2>4, <2>25, DeletedKeeps
  <2>26. CASE \E w \in Instances : Sends(s, w)
    BY <2>4, <2>26, SendsKeeps
  <2>27. CASE \E w \in Instances : Hangup(s, w)
    BY <2>4, <2>27, HangupKeeps
  <2> QED  BY <2>1, <2>2, <2>5, <2>6, <2>7, <2>8, <2>9, <2>10, <2>11, <2>12, <2>13, <2>14, <2>15,
    <2>16, <2>17, <2>18, <2>19, <2>20, <2>21, <2>22, <2>23, <2>24, <2>25, <2>26, <2>27
<1> QED  BY <1>1, <1>2

-----------------------------------------------------------------------------
LEMMA InvAnswersWhole ==
  ASSUME GatewayInv
  PROVE  AnswersWhole
<1> USE WaysAre
<1> SUFFICES ASSUME ~hit
             PROVE  /\ TypeOK
                    /\ \A s \in Sessions :
                         /\ way[s] \notin skewed[s] =>
                              \A i \in DOMAIN got[s] : got[s][i].to \in {0, asked[s]}
                         /\ (pc[s] = "done" /\ why[s] = {} /\ ~shut[s] /\ way[s] \notin skewed[s]) => Whole(s)
  BY DEF AnswersWhole
<1>1. Typed /\ \A s \in Sessions : Sound(s)
  BY DEF GatewayInv
<1>2. TypeOK
  <2>1. ASSUME NEW s \in Sessions
        PROVE  /\ pc[s] \in PCs /\ child[s] \in {"none", "forked", "runs", "hangs", "ended"}
               /\ holders[s] \subseteq Sessions /\ skewed[s] \subseteq Instances
               /\ \A w \in Ways : number[s][w] \in Fds \cup {0}
    BY <1>1 DEF Typed, ThreadTyped
  <2>2. ASSUME NEW f \in Fds  PROVE file[f].of \in Sessions \cup {"nobody"}
    BY <1>1 DEF Typed, Opened, Free, File
  <2> QED  BY <2>1, <2>2 DEF TypeOK, PCs
<1>3. ASSUME NEW s \in Sessions, way[s] \notin skewed[s], NEW i \in DOMAIN got[s]
      PROVE  got[s][i].to \in {0, asked[s]}
  <2>1. OwnParts(got[s], asked[s])
    BY <1>1, <1>3 DEF Sound, Has
  <2>2. i \in 1 .. Len(got[s])
    BY <1>1 DEF Typed, ThreadTyped
  <2> QED  BY <2>1, <2>2 DEF OwnParts
<1>4. ASSUME NEW s \in Sessions, pc[s] = "done", why[s] = {}, ~shut[s], way[s] \notin skewed[s]
      PROVE  Whole(s)
  BY <1>1, <1>4 DEF Sound, Totals, Fine
<1> QED  BY <1>2, <1>3, <1>4

(* A socket is left behind by a connect to an address; without those, none *)
(* is, and no object has the number of one, until something fails.         *)
NoneLeft ==
  /\ \A f \in Fds : file[f].way # "left"
  /\ \A s \in Sessions : \A w \in Instances : ~joined[s][w] => number[s][w] = 0

Lefts ==
  /\ faults \in Nat /\ DOMAIN file = Fds
  /\ DOMAIN joined = Sessions /\ \A s \in Sessions : DOMAIN joined[s] = Instances
  /\ DOMAIN number = Sessions /\ \A s \in Sessions : DOMAIN number[s] = Ways
  /\ Inet # {} \/ faults > 0 \/ NoneLeft

LEMMA StartsLeft == Init => Lefts
<1> SUFFICES ASSUME Init  PROVE Lefts
  OBVIOUS
<1> USE WaysAre
<1>1. Free.way # "left"
  BY DEF Free
<1>2. /\ faults = 0 /\ DOMAIN file = Fds
      /\ DOMAIN joined = Sessions /\ \A s \in Sessions : DOMAIN joined[s] = Instances
      /\ DOMAIN number = Sessions /\ \A s \in Sessions : DOMAIN number[s] = Ways
  BY DEF Init
<1>3. NoneLeft
  BY <1>1, WaysAre DEF Init, NoneLeft
<1> QED  BY <1>2, <1>3 DEF Lefts

(* A step that changes no object's number, and opens no socket.            *)
Spends == faults' = faults \/ faults' = faults + 1

LEMMA FilesLeft ==
  ASSUME Lefts, Spends, UNCHANGED <<number, joined>>, DOMAIN file' = Fds,
         \A f \in Fds : file'[f] = file[f] \/ file'[f].way # "left"
  PROVE  Lefts'
BY DEF Lefts, NoneLeft, Spends

LEMMA ForkLeft ==
  ASSUME Lefts, NEW s \in Sessions, NEW n, file' = file, joined' = joined, faults' = faults,
         number' = [number EXCEPT ![s]["fork"] = n]
  PROVE  Lefts'
<1> USE WaysAre
<1>1. /\ DOMAIN number' = Sessions /\ \A t \in Sessions : DOMAIN number'[t] = Ways
      /\ \A t \in Sessions : \A w \in Instances : number'[t][w] = number[t][w]
  BY DEF Lefts
<1> HIDE WaysAre
<1> QED  BY <1>1 DEF Lefts, NoneLeft

LEMMA ConnectLeft ==
  ASSUME GatewayInv, Lefts, NEW s \in Sessions, Connect(s)
  PROVE  Lefts'
<1> USE WaysAre
<1>1. PICK w \in Instances : w = way[s]
  BY DEF GatewayInv, Connect, At, Sound, Way
<1>2. Dialled(s, w, Given(s, w)) \/ NotReached(s, w, Given(s, w))
  BY <1>1 DEF Connect
<1>3. DOMAIN Given(s, w) = Fds
  BY DEF Given, Closed, With, Lefts
<1>4. \E yes \in {TRUE, FALSE} : joined' = [joined EXCEPT ![s][w] = yes]
  BY <1>2, Zenon DEF Dialled, NotReached
<1>5. \E n : number' = [number EXCEPT ![s][w] = n]
  BY <1>2, Zenon DEF Dialled, NotReached, Socket
<1>6. /\ DOMAIN joined' = Sessions /\ \A t \in Sessions : DOMAIN joined'[t] = Instances
      /\ DOMAIN number' = Sessions /\ \A t \in Sessions : DOMAIN number'[t] = Ways
  BY <1>4, <1>5 DEF Lefts
<1>7. DOMAIN file' = Fds
  <2>1. \A files \in Behind(s, w, Given(s, w)) : DOMAIN files = Fds
    BY <1>3 DEF Behind, With
  <2>2. \/ file' \in {Given(s, w)} \cup Behind(s, w, Given(s, w))
        \/ \E files : \E g : file' = With(files, g, File(s, w))
    BY <1>2, Zenon DEF Dialled, NotReached, Socket
  <2> QED  BY <1>3, <2>1, <2>2 DEF With
<1>8. faults' = faults \/ faults' = faults + 1
  BY <1>2, Zenon DEF Dialled, NotReached, Fault
<1>9. ASSUME Inet = {}, faults' = 0
      PROVE  NoneLeft'
  <2>1. faults' # faults + 1 /\ faults = 0 /\ NoneLeft
    BY <1>8, <1>9 DEF Lefts
  <2>2. /\ Socket(s, w, Given(s, w), TRUE)
        /\ joined' = [joined EXCEPT ![s][w] = TRUE]
    <3>1. Dialled(s, w, Given(s, w)) /\ ~Fault
      BY <1>2, <2>1, Zenon DEF NotReached, Fault
    <3>2. Behind(s, w, Given(s, w)) = {Given(s, w)}
      BY <1>9 DEF Behind
    <3> QED  BY <3>1, <3>2, Zenon DEF Dialled
  <2>3. Given(s, w) = file \/ \A f \in Fds : Given(s, w)[f] \in {file[f], Free}
    BY <2>1 DEF Given, Mine, NoneLeft, Closed
  <2>4. \A f \in Fds : Given(s, w)[f].way # "left"
    BY <2>1, <2>3 DEF NoneLeft, Free
  <2>5. PICK g \in Fds : /\ file' = With(Given(s, w), g, File(s, w))
                         /\ number' = [number EXCEPT ![s][w] = g]
    BY <2>2, Zenon DEF Socket
  <2>6. \A f \in Fds : file'[f].way # "left"
    <3>1. File(s, w).way # "left"
      BY DEF File
    <3> QED  BY <2>4, <2>5, <3>1 DEF With
  <2>7. \A t \in Sessions : \A x \in Instances :
          \/ t = s /\ x = w /\ joined'[t][x]
          \/ joined'[t][x] = joined[t][x] /\ number'[t][x] = number[t][x]
    BY <2>2, <2>5, Zenon DEF Lefts
  <2> QED  BY <2>1, <2>6, <2>7 DEF NoneLeft
<1> QED  BY <1>6, <1>7, <1>8, <1>9 DEF Lefts

LEMMA NextLefts ==
  ASSUME GatewayInv, Lefts, [Next]_vars
  PROVE  Lefts'
<1> USE WaysAre
<1>1. CASE UNCHANGED vars
  BY <1>1, FilesLeft DEF vars, object, Spends, Lefts
<1>2. ASSUME NEW s \in Sessions, UNCHANGED <<number, joined, file>>, Spends
      PROVE  Lefts'
  BY <1>2, FilesLeft DEF Lefts
<1>3. ASSUME NEW s \in Sessions,
             \/ \E w \in Asks[s] : Ask(s, w)
             \/ Plain(s) \/ Exec(s) \/ Runs(s) \/ Hangs(s) \/ Reuse(s)
             \/ Record(s) \/ Part(s) \/ Over(s) \/ Done(s) \/ Leave(s) \/ Harm(s)
             \/ \E w \in Instances : Sends(s, w) \/ Hangup(s, w)
      PROVE  Lefts'
  <2>1. UNCHANGED <<number, joined, file>> /\ Spends
    BY <1>3, Zenon DEF Ask, Plain, Exec, Runs, Hangs, Reuse, Record, Part, Over, Done, Leave, Harm,
                       Sends, Hangup, object, thread, program, Spends, Fault, Goes, Because
  <2> QED  BY <1>2, <2>1
<1>4. ASSUME NEW s \in Sessions,
             NoFork(s) \/ Parent(s) \/ Begin(s) \/ Send(s) \/ Last(s) \/ TimeOut(s) \/ Close(s)
      PROVE  Lefts'
  <2>1. UNCHANGED <<number, joined>> /\ Spends
    BY <1>4, Zenon DEF NoFork, Parent, Begin, Send, Last, TimeOut, Close, object, Spends, Fault
  <2>2. \/ file' = file
        \/ \E f : file' = Closed(f)
        \/ file' = [f \in Fds |-> IF f \in {pair[s][1], pair[s][2]} THEN Free ELSE file[f]]
    BY <1>4, Zenon DEF NoFork, Parent, Begin, Send, Last, TimeOut, Close, AfterSend
  <2>3. DOMAIN file' = Fds /\ \A f \in Fds : file'[f] = file[f] \/ file'[f] = Free
    BY <2>2 DEF Closed, Lefts
  <2>4. Free.way # "left"
    BY DEF Free
  <2> QED  BY <2>1, <2>3, <2>4, FilesLeft
<1>5. ASSUME NEW s \in Sessions, SocketPair(s)
      PROVE  Lefts'
  <2>1. UNCHANGED <<number, joined>> /\ Spends
    BY <1>5, Zenon DEF SocketPair, Spends
  <2>2. /\ DOMAIN file' = Fds
        /\ \A f \in Fds : file'[f] = file[f] \/ file'[f] \in {File(s, "fork"), File(s, "child")}
    BY <1>5 DEF SocketPair, Lefts
  <2> QED  BY <2>1, <2>2, FilesLeft DEF File
<1>6. ASSUME NEW s \in Sessions, Fork(s) \/ Wait(s)
      PROVE  Lefts'
  <2>1. /\ UNCHANGED <<file, joined, faults>>
        /\ \E n : number' = [number EXCEPT ![s]["fork"] = n]
    BY <1>6, Zenon DEF Fork, Wait
  <2> QED  BY <2>1, ForkLeft
<1>7. ASSUME NEW s \in Sessions, Deleted(s)
      PROVE  Lefts'
  <2>1. /\ DOMAIN file' = Fds /\ \A f \in Fds : file'[f] = file[f] \/ file'[f] = Free
        /\ number' = [number EXCEPT ![s] = [w \in Ways |-> 0]]
        /\ joined' = [joined EXCEPT ![s] = [w \in Instances |-> FALSE]]
        /\ faults' = faults
    BY <1>7 DEF Deleted, Lefts
  <2>2. /\ DOMAIN joined' = Sessions /\ \A t \in Sessions : DOMAIN joined'[t] = Instances
        /\ DOMAIN number' = Sessions /\ \A t \in Sessions : DOMAIN number'[t] = Ways
        /\ \A t \in Sessions : \A w \in Instances :
             number'[t][w] = 0 \/ (number'[t][w] = number[t][w] /\ joined'[t][w] = joined[t][w])
    <3>1. joined'[s] = [w \in Instances |-> FALSE] /\ number'[s] = [w \in Ways |-> 0]
      BY <2>1, Zenon DEF Lefts
    <3>5. DOMAIN joined'[s] = Instances
      BY <3>1, Zenon
    <3>6. DOMAIN number'[s] = Ways
      BY <3>1, Zenon
    <3>7. ASSUME NEW w \in Instances  PROVE number'[s][w] = 0
      BY <3>1
    <3>2. \A t \in Sessions : t # s => joined'[t] = joined[t] /\ number'[t] = number[t]
      BY <2>1, Zenon DEF Lefts
    <3>3. DOMAIN joined' = Sessions /\ DOMAIN number' = Sessions
      BY <2>1, Zenon DEF Lefts
    <3>4. \A t \in Sessions : DOMAIN joined'[t] = Instances /\ DOMAIN number'[t] = Ways
      BY <3>2, <3>5, <3>6 DEF Lefts
    <3>8. \A t \in Sessions : \A w \in Instances :
             number'[t][w] = 0 \/ (number'[t][w] = number[t][w] /\ joined'[t][w] = joined[t][w])
      <4>1. ASSUME NEW t \in Sessions, NEW w \in Instances, number'[t][w] # 0
            PROVE  number'[t][w] = number[t][w] /\ joined'[t][w] = joined[t][w]
        <5>1. t # s
          BY <3>7, <4>1
        <5> QED  BY <3>2, <5>1
      <4> QED  BY <4>1
    <3> QED  BY <3>3, <3>4, <3>8
  <2>3. Free.way # "left"
    BY DEF Free
  <2> QED  BY <2>1, <2>2, <2>3 DEF Lefts, NoneLeft
<1> QED
  BY <1>1, <1>3, <1>4, <1>5, <1>6, <1>7, ConnectLeft, Zenon DEF Next

LEMMA InvOpenForSomebody ==
  ASSUME GatewayInv, Lefts
  PROVE  OpenForSomebody
<1> USE WaysAre
<1> SUFFICES ASSUME ~hit, NEW s \in Sessions
             PROVE  /\ \A f \in Fds : file[f].of = s =>
                         \/ file[f].way = "left" /\ (Inet # {} \/ faults > 0)
                         \/ pc[s] \notin {"idle", "gone"}
                         \/ pc[s] = "idle" /\ file[f].way \in Instances /\ number[s][file[f].way] = f
                    /\ (Receiving(s) /\ Mine(number[s][way[s]], s, way[s]) /\ ~Unread(s) /\ ~Ended(s, way[s])) =>
                         IF way[s] = "fork" THEN \E t \in holders[s] : child[t] # "ended"
                         ELSE wire[s][way[s]].rest # << >> \/ way[s] = "scgi"
                    /\ pc[s] = "wait" => child[s] # "none"
  BY DEF OpenForSomebody
<1>1. Typed /\ HoldersRun /\ Sound(s)
  BY DEF GatewayInv
<1>2. ASSUME pc[s] \in {"idle", "gone"}, NEW f \in Fds, file[f].of = s
      PROVE  \/ file[f].way = "left" /\ (Inet # {} \/ faults > 0)
             \/ pc[s] = "idle" /\ file[f].way \in Instances /\ number[s][file[f].way] = f
  <2>1. PICK t \in Sessions, w \in Ways \cup {"child", "left"} : file[f] = File(t, w)
    <3>1. file[f] \in Opened /\ Free.of = "nobody"
      BY <1>1 DEF Typed, Free
    <3> QED  BY <3>1, <1>2 DEF Opened
  <2>2. file[f].of = t /\ file[f].way = w
    BY <2>1 DEF File
  <2>3. CASE w = "left"
    BY <1>2, <2>2, <2>3 DEF Lefts, NoneLeft
  <2>4. CASE w # "left"
    <3>1. w \in Kinds
      BY <2>1, <2>4 DEF Kinds
    <3>2. f \in Of(s, w)
      BY <1>2, <2>1, <2>2 DEF Of, In
    <3>3. way[s] = "none"
      BY <1>1, <1>2 DEF Sound, Way
    <3> QED  BY <1>1, <1>2, <2>2, <3>1, <3>2, <3>3 DEF Sound, Files, Forking, Kinds
  <2> QED  BY <2>1, <2>3, <2>4
<1>3. ASSUME Receiving(s), Mine(number[s][way[s]], s, way[s]), ~Unread(s), ~Ended(s, way[s])
      PROVE  IF way[s] = "fork" THEN \E t \in holders[s] : child[t] # "ended"
             ELSE wire[s][way[s]].rest # << >> \/ way[s] = "scgi"
  <2>1. pc[s] \in Reading
    BY <1>3 DEF Receiving, At, Reading
  <2>2. PICK w \in Ways : w = way[s]
    BY <1>1, <2>1 DEF Sound, Way, Reading
  <2>3. wire[s][w].unread = << >>
    BY <1>3, <2>2 DEF Unread
  <2>4. CASE w = "fork"
    <3>1. Of(s, "child") = {}
      BY <1>1, <2>1 DEF Sound, Files, Forking, Reading
    <3>2. holders[s] # {}
      BY <1>3, <2>2, <2>3, <2>4, <3>1 DEF Ended, Of, In
    <3> QED  BY <1>1, <2>2, <2>4, <3>2 DEF HoldersRun
  <2>5. CASE w = "fcgi"
    <3>1. wire[s][w].up
      BY <1>3, <2>2, <2>3, <2>5 DEF Ended
    <3>2. Open(s, w)
      BY <1>1, <1>3, <2>2, MineIs
    <3>3. Stream(s, w) # << >>
      BY <1>1, <2>1, <2>2, <2>5, <3>1, <3>2 DEF Sound, Streams
    <3>4. << >> \o << >> = << >>
      OBVIOUS
    <3>5. wire[s][w].rest # << >>
      BY <2>3, <3>3, <3>4 DEF Stream
    <3> QED  BY <2>2, <2>5, <3>5
  <2> QED  BY <2>2, <2>4, <2>5
<1>4. pc[s] = "wait" => child[s] # "none"
  BY <1>1 DEF Sound, Way, Child, Running
<1> QED  BY <1>2, <1>3, <1>4

-----------------------------------------------------------------------------
(* The threads, descriptors, connections and children agree, for any       *)
(* number of each, until a number is used that is another's.               *)
THEOREM GatewayInvariant == Spec => []GatewayInv
<1>1. Init => GatewayInv
  BY Starts DEF GatewayInv
<1>2. GatewayInv /\ [Next]_vars => GatewayInv'
  BY NextInv
<1> QED  BY <1>1, <1>2, PTL DEF Spec

(* A client gets the whole answer to its own request, but for what has     *)
(* been recorded: RecvAppData and _Recv_ of the three kinds of programs.   *)
THEOREM AnswersAreWhole == Spec => []AnswersWhole
<1>1. GatewayInv => AnswersWhole
  BY InvAnswersWhole
<1> QED  BY <1>1, GatewayInvariant, PTL

(* What is left behind, and by whom: by connects to addresses, and else    *)
(* after a fault only.                                                     *)
THEOREM LeftByConnects == Spec => []Lefts
<1>1. Init => Lefts
  BY StartsLeft
<1>2. GatewayInv /\ Lefts /\ [Next]_vars => Lefts'
  BY NextLefts
<1> QED  BY <1>1, <1>2, GatewayInvariant, PTL DEF Spec

(* A session between requests, or gone, has nothing open but what it keeps *)
(* and the sockets that Connect of fastcgi and scgi has left behind, one   *)
(* with each address and else after a fault; and no thread waits for a     *)
(* program that has nothing more to say.                                   *)
THEOREM OpenForSomebodyHolds == Spec => []OpenForSomebody
<1>1. GatewayInv /\ Lefts => OpenForSomebody
  BY InvOpenForSomebody
<1> QED  BY <1>1, GatewayInvariant, LeftByConnects, PTL

-----------------------------------------------------------------------------
(* SHAREDVARS.  What has been saved stays in some file, and is found.      *)

Value  == [by : Clients \cup {"nobody"}, at : Nat]
Values == [Uids -> Value]
Contents   == [ver : Nat, vars : Values]
Versions == [Workers -> Nat]
Stages == {"idle", "writing", "partly", "writing last", "partly last", "reading", "loading", "gone"}

BegunTyped == begun \in [Workers -> [of : Workers \cup {"none"}, file : Contents]]

VarsTyped ==
  /\ now \in 0 .. LastTime
  /\ uid \in [Clients -> Uids \cup {NoUid}]
  /\ mem \in [Workers -> Values] /\ saving \in [Workers -> Values]
  /\ known \in [Workers -> Versions]
  /\ disk \in [Workers -> Contents]
  /\ stage \in [Workers -> Stages]
  /\ serves \in [Workers -> Clients \cup {"nobody"}]
  /\ toread \in [Workers -> SUBSET Workers]
  /\ BegunTyped
  /\ base \in [Workers -> Nat]
  /\ last \in [Uids -> Nat]
  /\ changes \in 0 .. Changes /\ stops \in 0 .. Stops
  /\ torn \in BOOLEAN /\ broken \in BOOLEAN

(* Versions are counted by the changes and the ends of workers.            *)
Within(ver, knows, n) == ver <= n /\ \A f \in Workers : knows[f] <= n
Counted == \A w \in Workers : Within(disk[w].ver, known[w], changes + stops)
BegunCounted == \A w \in Workers : begun[w].file.ver <= changes + stops

(* What a map holds of a session was set by a client of that session.      *)
OwnedBy(v, u, uids, n) ==
  v # NoVar => v.by \in Clients /\ uids[v.by] = u /\ v.at <= n
Owned(vs) == \A u \in Uids : OwnedBy(vs[u], u, uid, now)
AllOwned == \A w \in Workers : Owned(mem[w]) /\ Owned(saving[w]) /\ Owned(disk[w].vars)
BegunOwned == \A w \in Workers : Owned(begun[w].file.vars)

Covers(a, b) == b # NoVar => a # NoVar /\ a.at >= b.at

(* What each worker does, and the file it writes.                          *)
Engaged(w) ==
  /\ toread[w] # {} => stage[w] \in {"reading", "loading"}
  /\ ~Writing(w) => saving[w] = NoVars
  /\ stage[w] \in {"writing", "writing last"} => disk[w] = Empty
  /\ Writing(w) =>
       /\ known[w][w] > 0
       /\ \A u \in Uids : /\ Covers(mem[w][u], saving[w][u])
                          /\ disk[w].vars[u] \in {NoVar, saving[w][u]}
  /\ stage[w] \in {"writing", "partly"} =>
       /\ serves[w] \in Clients /\ uid[serves[w]] # NoUid
       /\ saving[w][uid[serves[w]]] # NoVar
  /\ stage[w] = "reading" => serves[w] \in Clients /\ uid[serves[w]] # NoUid
  /\ disk[w].ver = 0 => disk[w].vars = NoVars

Calm == ~torn /\ ~broken

(* Versions of a file tell whether it has been read.                       *)
HasRead(w, f) ==
  /\ IF Writing(f) THEN w # f => known[w][f] < known[f][f]
                   ELSE known[w][f] <= disk[f].ver
  /\ known[w][f] = disk[f].ver =>
       \A u \in Uids : Covers(mem[w][u], disk[f].vars[u])

KnowsOwn(w) ==
  (stage[w] \in {"idle", "reading"} \/ (stage[w] = "loading" /\ w \notin toread[w]))
    => known[w][w] = disk[w].ver

(* A value of session u not older than n is in the file of f, or about to be.*)
Recent(v, n) == v # NoVar /\ v.at >= n
Holds(f, u, n) == Recent(disk[f].vars[u], n) \/ Recent(saving[f][u], n)
Expired(n) == now - n > Life

Finds(w) ==
  (stage[w] = "reading" /\ base[w] > 0) =>
    \/ Expired(base[w] - 1)
    \/ Recent(mem[w][uid[serves[w]]], base[w] - 1)
    \/ \E f \in toread[w] : Holds(f, uid[serves[w]], base[w] - 1)

(* All but what is found.                                                  *)
Kept ==
  /\ VarsTyped /\ AllOwned
  /\ \A w \in Workers : Engaged(w) /\ KnowsOwn(w)
  /\ \A w, f \in Workers : HasRead(w, f)

VarsInv ==
  /\ VarsTyped /\ Counted /\ AllOwned /\ BegunCounted /\ BegunOwned
  /\ \A w \in Workers : Engaged(w)
  /\ Calm => /\ \A w \in Workers : KnowsOwn(w) /\ Finds(w)
             /\ \A w, f \in Workers : HasRead(w, f)
  /\ StaysSaved

-----------------------------------------------------------------------------
(* Maps and what is saved of them.                                         *)

(* A new uid is one, and none is not.                                      *)
LEMMA UidsAreUids ==
  /\ NoUid \notin Uids
  /\ \A t \in 0 .. LastTime, w \in Workers : <<t, w>> \in Uids
BY DEF Uids, NoUid

(* A map without any variable.                                             *)
LEMMA NoVarsIsMap ==
  /\ NoVar \in Value /\ NoVars \in Values
  /\ \A u \in Uids : NoVars[u] = NoVar
  /\ Empty \in Contents /\ Empty.ver = 0 /\ Empty.vars = NoVars
BY DEF NoVar, NoVars, Value, Values, Empty, Contents

(* Two maps with the same variables are the same.                          *)
LEMMA SameMap ==
  ASSUME NEW m \in Values, \A u \in Uids : m[u] = NoVar
  PROVE  m = NoVars
BY DEF Values, NoVars

(* What is fresh of a map is a map.                                        *)
LEMMA FreshIsMap ==
  ASSUME NEW m \in Values
  PROVE  /\ Fresh(m) \in Values
         /\ \A u \in Uids : Fresh(m)[u] = IF now - m[u].at <= Life THEN m[u] ELSE NoVar
<1>1. \A u \in Uids : (IF now - m[u].at <= Life THEN m[u] ELSE NoVar) \in Value
  BY NoVarsIsMap DEF Values
<1> QED
  BY <1>1 DEF Fresh, Values

(* A file that has been written is a file.                                 *)
LEMMA FileIsFile ==
  ASSUME NEW n \in Nat, NEW m \in Values
  PROVE  [ver |-> n, vars |-> m] \in Contents
BY DEF Contents

(* What is known of versions: of one file more, or nothing.                *)
LEMMA KnownIsKnown ==
  ASSUME NEW k \in [Workers -> Versions], NEW w \in Workers
  PROVE  /\ [k EXCEPT ![w] = [f \in Workers |-> 0]] \in [Workers -> Versions]
         /\ \A f \in Workers, n \in Nat :
              [k EXCEPT ![w][f] = n] \in [Workers -> Versions]
<1>1. [f \in Workers |-> 0] \in Versions
  BY DEF Versions
<1>2. \A f \in Workers, n \in Nat : [k[w] EXCEPT ![f] = n] \in Versions
  BY DEF Versions
<1> QED
  BY <1>1, <1>2

(* What _reload_session_vars_ leaves in the map.                           *)
LEMMA NewerIsNewer ==
  ASSUME NEW a \in Value, NEW b \in Value
  PROVE  /\ Newer(a, b) \in {a, b} /\ Newer(a, b) \in Value
         /\ Covers(Newer(a, b), a) /\ Covers(Newer(a, b), b)
BY DEF Newer, Covers, Value, NoVar

(* What it leaves of a file that has been written meanwhile.               *)
LEMMA NotBegunIs == NotBegun \in [of : Workers \cup {"none"}, file : Contents]
BY NoVarsIsMap DEF NotBegun

LEMMA MixedIs ==
  ASSUME VarsTyped, NEW w \in Workers, NEW f \in Workers, ReadMixed(w, f)
  PROVE  /\ mem' \in [Workers -> Values]
         /\ \A u \in Uids : mem'[w][u] \in {mem[w][u], begun[w].file.vars[u], disk[f].vars[u]}
         /\ \A x \in Workers : x # w => mem'[x] = mem[x]
<1> DEFINE older == begun[w].file.vars
           newer == disk[f].vars
<1>1. mem[w] \in Values /\ older \in Values /\ newer \in Values
  BY DEF VarsTyped, BegunTyped, Contents
<1>2. PICK taken : mem' = [mem EXCEPT ![w] = Mixed(mem[w], older, newer, taken)]
  BY Zenon DEF ReadMixed
<1> HIDE DEF older, newer
<1>3. /\ Mixed(mem[w], older, newer, taken) \in Values
      /\ \A u \in Uids : Mixed(mem[w], older, newer, taken)[u] \in {mem[w][u], older[u], newer[u]}
  BY <1>1 DEF Mixed, Values, Newer
<1> QED
  BY <1>2, <1>3 DEF VarsTyped, older, newer

(* _save_session_vars_ begins.                                             *)
LEMMA OpenIsTyped ==
  ASSUME VarsTyped, NEW w \in Workers, NEW m \in Values, NEW next \in {"idle", "gone"},
         OpenOwn(w, m, next)
  PROVE  /\ stage' \in [Workers -> Stages]
         /\ known' \in [Workers -> Versions]
         /\ saving' \in [Workers -> Values]
         /\ disk' \in [Workers -> Contents]
<1>1. CASE Fresh(m) = NoVars
  BY <1>1 DEF OpenOwn, VarsTyped, Stages
<1>2. CASE Fresh(m) # NoVars
  <2>1. known[w][w] + 1 \in Nat
    BY DEF VarsTyped, Versions
  <2>2. known' \in [Workers -> Versions]
    <3>1. known' = [known EXCEPT ![w][w] = known[w][w] + 1]
      BY <1>2 DEF OpenOwn, Version
    <3> QED
      BY <2>1, <3>1, KnownIsKnown DEF VarsTyped
  <2>3. stage' \in [Workers -> Stages]
    BY <1>2 DEF OpenOwn, VarsTyped, Stages
  <2>4. saving' \in [Workers -> Values] /\ disk' \in [Workers -> Contents]
    BY <1>2, FreshIsMap, NoVarsIsMap DEF OpenOwn, VarsTyped
  <2> QED
    BY <2>2, <2>3, <2>4
<1> QED
  BY <1>1, <1>2

-----------------------------------------------------------------------------
(* A step of one worker; or one of which nothing is seen, but that a first *)
(* block has been read.                                                    *)
StepOf(w) ==
  \/ \E c \in Clients : Set(c, w) \/ Get(c, w)
  \/ WritePart(w) \/ WriteRest(w) \/ Answer(w)
  \/ \E f \in Workers : ReadFile(w, f) \/ ReadMixed(w, f)
  \/ Stop(w) \/ Crash(w) \/ Start(w) \/ Started(w)

AllElse == <<now, uid, mem, known, disk, stage, saving, serves, toread, base, last, changes, stops,
             torn, broken>>
Rests == Pass \/ UNCHANGED AllElse

LEMMA BegunSteps ==
  ASSUME [VarsNext]_allVars
  PROVE  \/ UNCHANGED begun
         \/ \E w \in Workers : begun' = [begun EXCEPT ![w] = NotBegun]
         \/ \E w, f \in Workers : ReadBlock(w, f)
<1>1. CASE UNCHANGED allVars
  BY <1>1 DEF allVars
<1>2. CASE Pass
  BY <1>2 DEF Pass, worker
<1>3. ASSUME NEW w \in Workers,
             \/ \E c \in Clients : Set(c, w) \/ Get(c, w)
             \/ WritePart(w) \/ WriteRest(w) \/ Answer(w) \/ Stop(w) \/ Start(w) \/ Started(w)
      PROVE  UNCHANGED begun
  BY <1>3, Zenon DEF Set, Get, WritePart, WriteRest, Answer, Stop, Start, Started
<1>4. ASSUME NEW w \in Workers, Crash(w) \/ \E f \in Workers : ReadFile(w, f) \/ ReadMixed(w, f)
      PROVE  begun' = [begun EXCEPT ![w] = NotBegun]
  BY <1>4, Zenon DEF Crash, ReadFile, ReadMixed, HasTaken
<1> QED
  BY <1>1, <1>2, <1>3, <1>4, Zenon DEF VarsNext

(* Types are kept.                                                         *)
LEMMA BegunTypedStep ==
  ASSUME VarsTyped, [VarsNext]_allVars
  PROVE  BegunTyped'
<1>1. CASE UNCHANGED begun
  BY <1>1 DEF VarsTyped, BegunTyped
<1>2. ASSUME NEW w \in Workers, begun' = [begun EXCEPT ![w] = NotBegun]
      PROVE  BegunTyped'
  BY <1>2, NotBegunIs DEF VarsTyped, BegunTyped
<1>3. ASSUME NEW w \in Workers, NEW f \in Workers, ReadBlock(w, f)
      PROVE  BegunTyped'
  <2>1. [of |-> f, file |-> disk[f]] \in [of : Workers \cup {"none"}, file : Contents]
    BY DEF VarsTyped
  <2> QED
    BY <1>3, <2>1 DEF VarsTyped, BegunTyped, ReadBlock
<1> QED
  BY <1>1, <1>2, <1>3, BegunSteps

LEMMA TypedStep ==
  ASSUME VarsTyped, [VarsNext]_allVars
  PROVE  VarsTyped'
<1> USE VarsAssumption, BegunTypedStep
<1>1. CASE Pass \/ UNCHANGED allVars
  BY <1>1 DEF VarsTyped, Pass, allVars, worker
<1>12. ASSUME NEW w \in Workers, NEW f \in Workers, ReadBlock(w, f)
       PROVE  VarsTyped'
  BY <1>12 DEF VarsTyped, ReadBlock
<1>13. ASSUME NEW w \in Workers, NEW f \in Workers, ReadMixed(w, f)
       PROVE  VarsTyped'
  <2>1. mem' \in [Workers -> Values]
    BY <1>13, MixedIs DEF VarsTyped
  <2>2. known' \in [Workers -> Versions]
    <3>1. begun[w].file.ver \in Nat
      BY DEF VarsTyped, BegunTyped, Contents
    <3> QED
      BY <1>13, <3>1, KnownIsKnown DEF VarsTyped, ReadMixed
  <2> QED
    BY <1>13, <2>1, <2>2 DEF VarsTyped, ReadMixed, HasTaken
<1>2. ASSUME NEW c \in Clients, NEW w \in Workers, Set(c, w)
      PROVE  VarsTyped'
  <2> DEFINE u == IF uid[c] = NoUid THEN <<now, w>> ELSE uid[c]
             m == [mem[w] EXCEPT ![u] = [by |-> c, at |-> now]]
  <2>1. u \in Uids
    BY UidsAreUids DEF VarsTyped
  <2>2. [by |-> c, at |-> now] \in Value
    BY DEF Value, VarsTyped
  <2>3. m \in Values
    BY <2>2 DEF Values, VarsTyped
  <2>4. /\ uid' = [uid EXCEPT ![c] = u]
        /\ mem' = [mem EXCEPT ![w] = m]
        /\ OpenOwn(w, m, "idle")
    BY <1>2 DEF Set
  <2> HIDE DEF u, m
  <2>5. /\ stage' \in [Workers -> Stages]
        /\ known' \in [Workers -> Versions]
        /\ saving' \in [Workers -> Values]
        /\ disk' \in [Workers -> Contents]
    BY <2>3, <2>4, OpenIsTyped
  <2>6. uid' \in [Clients -> Uids \cup {NoUid}] /\ mem' \in [Workers -> Values]
    BY <2>1, <2>3, <2>4 DEF VarsTyped
  <2> QED
    BY <1>2, <2>5, <2>6 DEF VarsTyped, Set
<1>3. ASSUME NEW c \in Clients, NEW w \in Workers, Get(c, w)
      PROVE  VarsTyped'
  BY <1>3, UidsAreUids DEF VarsTyped, Get, Stages
<1>4. ASSUME NEW w \in Workers, WritePart(w)
      PROVE  VarsTyped'
  <2>1. PICK u \in Uids :
          disk' = [disk EXCEPT ![w] = [ver |-> known[w][w],
                                       vars |-> [NoVars EXCEPT ![u] = saving[w][u]]]]
    BY <1>4 DEF WritePart
  <2>2. [NoVars EXCEPT ![u] = saving[w][u]] \in Values
    BY NoVarsIsMap DEF Values, VarsTyped
  <2>3. disk' \in [Workers -> Contents]
    BY <2>1, <2>2, FileIsFile, ZenonT(60) DEF VarsTyped, Versions
  <2> QED
    BY <1>4, <2>3 DEF VarsTyped, WritePart, Stages
<1>5. ASSUME NEW w \in Workers, WriteRest(w)
      PROVE  VarsTyped'
  <2>1. disk' \in [Workers -> Contents]
    <3>1. [ver |-> known[w][w], vars |-> saving[w]] \in Contents
      BY FileIsFile DEF VarsTyped, Versions
    <3> QED
      BY <1>5, <3>1 DEF VarsTyped, WriteRest
  <2>2. last' \in [Uids -> Nat]
    <3>1. \A u \in Uids : saving[w][u].at + 1 \in Nat
      BY DEF VarsTyped, Values, Value
    <3> QED
      BY <1>5, <3>1 DEF VarsTyped, WriteRest
  <2>3. known' \in [Workers -> Versions]
    <3>1. known' = known \/ known' = [known EXCEPT ![w] = [f \in Workers |-> 0]]
      BY <1>5, Zenon DEF WriteRest
    <3>2. known \in [Workers -> Versions]
      BY DEF VarsTyped
    <3>3. [known EXCEPT ![w] = [f \in Workers |-> 0]] \in [Workers -> Versions]
      BY <3>2, KnownIsKnown
    <3> QED
      BY <3>1, <3>2, <3>3, Zenon
  <2>4. stage' \in [Workers -> Stages] /\ mem' \in [Workers -> Values]
    BY <1>5, NoVarsIsMap DEF VarsTyped, WriteRest, Stages
  <2> QED
    BY <1>5, <2>1, <2>2, <2>3, <2>4, NoVarsIsMap DEF VarsTyped, WriteRest
<1>6. ASSUME NEW w \in Workers, NEW f \in Workers, ReadFile(w, f)
      PROVE  VarsTyped'
  <2>1. mem' \in [Workers -> Values]
    <3>1. [u \in Uids |-> Newer(mem[w][u], disk[f].vars[u])] \in Values
      BY NewerIsNewer DEF VarsTyped, Values, Contents
    <3> QED
      BY <1>6, <3>1 DEF VarsTyped, ReadFile, HasTaken
  <2>2. known' \in [Workers -> Versions]
    <3>1. disk[f].ver \in Nat
      BY DEF VarsTyped, Contents
    <3>2. known' = known \/ known' = [known EXCEPT ![w][f] = disk[f].ver]
      BY <1>6, Zenon DEF ReadFile, HasTaken
    <3>3. known \in [Workers -> Versions]
      BY DEF VarsTyped
    <3>4. [known EXCEPT ![w][f] = disk[f].ver] \in [Workers -> Versions]
      BY <3>1, <3>3, KnownIsKnown, Zenon
    <3> QED
      BY <3>2, <3>3, <3>4, Zenon
  <2>3. torn' \in BOOLEAN
    BY <1>6, Zenon DEF ReadFile, HasTaken
  <2> QED
    BY <1>6, <2>1, <2>2, <2>3 DEF VarsTyped, ReadFile, HasTaken
<1>7. ASSUME NEW w \in Workers, Answer(w)
      PROVE  VarsTyped'
  BY <1>7 DEF VarsTyped, Answer, Stages
<1>11. ASSUME NEW w \in Workers, Started(w)
      PROVE  VarsTyped'
  BY <1>11 DEF VarsTyped, Started, Stages
<1>10. ASSUME NEW w \in Workers, Start(w)
      PROVE  VarsTyped'
  <2>1. known' \in [Workers -> Versions]
    BY <1>10, KnownIsKnown DEF VarsTyped, Start
  <2> QED
    BY <1>10, <2>1, NoVarsIsMap DEF VarsTyped, Start, Stages, ToLoad
<1>8. ASSUME NEW w \in Workers, Stop(w)
      PROVE  VarsTyped'
  <2>1. OpenOwn(w, mem[w], "gone") /\ mem[w] \in Values
    BY <1>8 DEF Stop, VarsTyped
  <2>2. /\ stage' \in [Workers -> Stages]
        /\ known' \in [Workers -> Versions]
        /\ saving' \in [Workers -> Values]
        /\ disk' \in [Workers -> Contents]
    BY <2>1, OpenIsTyped
  <2> QED
    BY <1>8, <2>2 DEF VarsTyped, Stop
<1>9. ASSUME NEW w \in Workers, Crash(w)
      PROVE  VarsTyped'
  <2>1. broken' \in BOOLEAN
    BY <1>9, Zenon DEF Crash
  <2>2. known' \in [Workers -> Versions]
    BY <1>9, KnownIsKnown DEF VarsTyped, Crash
  <2>3. mem' \in [Workers -> Values] /\ saving' \in [Workers -> Values]
    BY <1>9, NoVarsIsMap DEF VarsTyped, Crash
  <2>4. /\ stage' \in [Workers -> Stages] /\ toread' \in [Workers -> SUBSET Workers]
        /\ serves' \in [Workers -> Clients \cup {"nobody"}] /\ base' \in [Workers -> Nat]
    BY <1>9 DEF VarsTyped, Crash, Stages
  <2>5. stops' \in 0 .. Stops
    BY <1>9 DEF VarsTyped, Crash
  <2> QED
    BY <1>9, <2>1, <2>2, <2>3, <2>4, <2>5 DEF VarsTyped, Crash
<1> QED
  BY <1>1, <1>2, <1>3, <1>4, <1>5, <1>6, <1>7, <1>8, <1>9, <1>10, <1>11, <1>12, <1>13 DEF VarsNext

-----------------------------------------------------------------------------
LEMMA Steps ==
  ASSUME [VarsNext]_allVars
  PROVE  Rests \/ \E w \in Workers : StepOf(w)
<1>1. CASE UNCHANGED allVars
  BY <1>1 DEF Rests, AllElse, allVars, worker
<1>2. CASE \E w, f \in Workers : ReadBlock(w, f)
  BY <1>2 DEF Rests, AllElse, ReadBlock
<1> QED
  BY <1>1, <1>2, Zenon DEF VarsNext, StepOf, Rests

(* What a step of a worker leaves alone of another.                        *)
Apart(x) ==
  /\ mem'[x] = mem[x] /\ known'[x] = known[x] /\ disk'[x] = disk[x] /\ stage'[x] = stage[x]
  /\ saving'[x] = saving[x] /\ serves'[x] = serves[x] /\ toread'[x] = toread[x]
  /\ base'[x] = base[x]

LEMMA OthersApart ==
  ASSUME VarsTyped, NEW w \in Workers, StepOf(w), NEW x \in Workers, x # w
  PROVE  Apart(x)
<1>1. ASSUME NEW m, NEW next, OpenOwn(w, m, next)
      PROVE  known'[x] = known[x] /\ disk'[x] = disk[x] /\ stage'[x] = stage[x]
             /\ saving'[x] = saving[x]
  <2>1. CASE Fresh(m) = NoVars
    BY <1>1, <2>1 DEF OpenOwn, VarsTyped
  <2>2. CASE Fresh(m) # NoVars
    <3>1. /\ saving' = [saving EXCEPT ![w] = Fresh(m)]
          /\ disk' = [disk EXCEPT ![w] = Empty]
          /\ \E place : stage' = [stage EXCEPT ![w] = place]
          /\ known' = [known EXCEPT ![w][w] = Version(w)]
      BY <1>1, <2>2, Zenon DEF OpenOwn
    <3>2. known'[x] = known[x]
      BY <3>1 DEF VarsTyped
    <3>3. saving'[x] = saving[x] /\ stage'[x] = stage[x]
      BY <3>1 DEF VarsTyped
    <3>4. disk'[x] = disk[x]
      BY <3>1 DEF VarsTyped
    <3> QED
      BY <3>1, <3>2, <3>3, <3>4
  <2> QED
    BY <2>1, <2>2
<1>2. ASSUME NEW c \in Clients, Set(c, w)
      PROVE  Apart(x)
  <2>1. known'[x] = known[x] /\ disk'[x] = disk[x] /\ stage'[x] = stage[x] /\ saving'[x] = saving[x]
    BY <1>1, <1>2 DEF Set
  <2> QED
    BY <1>2, <2>1 DEF Set, Apart, VarsTyped
<1>3. CASE Stop(w)
  <2>1. known'[x] = known[x] /\ disk'[x] = disk[x] /\ stage'[x] = stage[x] /\ saving'[x] = saving[x]
    BY <1>1, <1>3 DEF Stop
  <2> QED
    BY <1>3, <2>1 DEF Stop, Apart, VarsTyped
<1>4. ASSUME NEW f \in Workers, ReadFile(w, f)
      PROVE  Apart(x)
  BY <1>4 DEF ReadFile, HasTaken, Apart, VarsTyped
<1>10. ASSUME NEW f \in Workers, ReadMixed(w, f)
       PROVE  Apart(x)
  <2>1. mem'[x] = mem[x]
    BY <1>10, MixedIs
  <2> QED
    BY <1>10, <2>1 DEF ReadMixed, HasTaken, Apart, VarsTyped
<1>5. ASSUME NEW c \in Clients, Get(c, w)
      PROVE  Apart(x)
  BY <1>5 DEF Get, Apart, VarsTyped
<1>6. CASE WritePart(w)
  BY <1>6 DEF WritePart, Apart, VarsTyped
<1>7. CASE WriteRest(w)
  BY <1>7 DEF WriteRest, Apart, VarsTyped
<1>8. CASE Answer(w) \/ Start(w) \/ Started(w)
  BY <1>8 DEF Answer, Start, Started, Apart, VarsTyped
<1>9. CASE Crash(w)
  BY <1>9 DEF Crash, Apart, VarsTyped
<1> QED
  BY <1>2, <1>3, <1>4, <1>5, <1>6, <1>7, <1>8, <1>9, <1>10 DEF StepOf

(* Time passes between the steps of workers, and a session keeps its uid.  *)
LEMMA Onward ==
  ASSUME VarsTyped, [VarsNext]_allVars
  PROVE  /\ now <= now' /\ now \in Nat /\ now' \in Nat
         /\ \A c \in Clients : uid[c] # NoUid => uid'[c] = uid[c]
         /\ Calm' => Calm
         /\ changes <= changes' /\ stops <= stops'
<1> USE VarsAssumption
<1>1. CASE Rests
  BY <1>1 DEF Rests, Pass, AllElse, allVars, VarsTyped, Calm
<1>2. ASSUME NEW w \in Workers, StepOf(w)
      PROVE  /\ now' = now
             /\ \A c \in Clients : uid[c] # NoUid => uid'[c] = uid[c]
             /\ Calm' => Calm
             /\ changes <= changes' /\ stops <= stops'
  <2>1. ASSUME NEW c \in Clients, Set(c, w)
        PROVE  /\ now' = now
               /\ \A d \in Clients : uid[d] # NoUid => uid'[d] = uid[d]
               /\ Calm' => Calm
               /\ changes <= changes' /\ stops <= stops'
    BY <2>1 DEF Set, VarsTyped, Calm
  <2>2. CASE ~ \E c \in Clients : Set(c, w)
    <3>1. now' = now /\ uid' = uid
      BY <1>2, <2>2 DEF StepOf, Get, WritePart, WriteRest, Answer, ReadFile, ReadMixed, HasTaken, Stop, Crash, Start, Started
    <3>2. Calm' => Calm
      BY <1>2, <2>2 DEF StepOf, Get, WritePart, WriteRest, Answer, ReadFile, ReadMixed, HasTaken, Stop, Crash, Start,
                        Started, Calm
    <3>3. changes <= changes' /\ stops <= stops'
      <4>1. changes' = changes /\ (stops' = stops \/ stops' = stops + 1)
        BY <1>2, <2>2 DEF StepOf, Get, WritePart, WriteRest, Answer, ReadFile, ReadMixed, HasTaken, Stop, Crash, Start,
                          Started
      <4> QED
        BY <4>1 DEF VarsTyped
    <3> QED
      BY <3>1, <3>2, <3>3
  <2> QED
    BY <2>1, <2>2
<1>3. now \in Nat
  BY DEF VarsTyped
<1> QED
  BY <1>1, <1>2, <1>3, Steps

(* How a save begins: nothing is fresh, or what is fresh is to be written  *)
(* under the version after the last.                                       *)
Unsaved(w, m, next) ==
  /\ Fresh(m) = NoVars /\ stage'[w] = next /\ known'[w] = known[w]
  /\ disk'[w] = disk[w] /\ saving'[w] = saving[w]
Begun(w, m, next) ==
  /\ Fresh(m) # NoVars
  /\ stage'[w] = IF next = "gone" THEN "writing last" ELSE "writing"
  /\ known'[w][w] = known[w][w] + 1
  /\ \A f \in Workers : f # w => known'[w][f] = known[w][f]
  /\ disk'[w] = Empty /\ saving'[w] = Fresh(m)

LEMMA OpenBegins ==
  ASSUME VarsTyped, NEW w \in Workers, NEW m, NEW next, OpenOwn(w, m, next)
  PROVE  Unsaved(w, m, next) \/ Begun(w, m, next)
<1>1. CASE Fresh(m) = NoVars
  BY <1>1 DEF OpenOwn, VarsTyped, Unsaved
<1>2. CASE Fresh(m) # NoVars
  <2>1. stage'[w] = IF next = "gone" THEN "writing last" ELSE "writing"
    BY <1>2 DEF OpenOwn, VarsTyped
  <2>2. known'[w][w] = known[w][w] + 1 /\ \A f \in Workers : f # w => known'[w][f] = known[w][f]
    <3>1. known' = [known EXCEPT ![w][w] = known[w][w] + 1]
      BY <1>2, Zenon DEF OpenOwn, Version
    <3>2. known \in [Workers -> Versions]
      BY DEF VarsTyped
    <3> QED
      BY <3>1, <3>2 DEF Versions
  <2>3. disk'[w] = Empty
    BY <1>2 DEF OpenOwn, VarsTyped
  <2>4. saving'[w] = Fresh(m)
    <3>1. saving' = [saving EXCEPT ![w] = Fresh(m)]
      BY <1>2, Zenon DEF OpenOwn
    <3> QED
      BY <3>1 DEF VarsTyped
  <2> QED
    BY <1>2, <2>1, <2>2, <2>3, <2>4 DEF Begun
<1> QED
  BY <1>1, <1>2

(* The map of the worker that sets a variable.                             *)
LEMMA SetSets ==
  ASSUME VarsTyped, NEW c \in Clients, NEW w \in Workers, Set(c, w)
  PROVE  \E u \in Uids, m \in Values :
           /\ m[u] = [by |-> c, at |-> now]
           /\ \A v \in Uids : v # u => m[v] = mem[w][v]
           /\ uid'[c] = u /\ mem'[w] = m
           /\ OpenOwn(w, m, "idle")
<1> DEFINE u == IF uid[c] = NoUid THEN <<now, w>> ELSE uid[c]
           m == [mem[w] EXCEPT ![u] = [by |-> c, at |-> now]]
<1>1. u \in Uids
  BY UidsAreUids DEF VarsTyped
<1>2. [by |-> c, at |-> now] \in Value
  BY VarsAssumption DEF Value, VarsTyped
<1>3. /\ uid' = [uid EXCEPT ![c] = u]
      /\ mem' = [mem EXCEPT ![w] = m]
      /\ OpenOwn(w, m, "idle")
  BY DEF Set
<1>4. /\ m \in Values /\ m[u] = [by |-> c, at |-> now]
      /\ \A v \in Uids : v # u => m[v] = mem[w][v]
  BY <1>1, <1>2 DEF Values, VarsTyped
<1> HIDE DEF u, m
<1>5. uid'[c] = u /\ mem'[w] = m
  BY <1>3 DEF VarsTyped
<1> QED
  BY <1>1, <1>3, <1>4, <1>5

-----------------------------------------------------------------------------
(* Versions stay within the changes and the ends there have been.          *)
LEMMA CountedStep ==
  ASSUME VarsTyped, Counted, BegunCounted, [VarsNext]_allVars
  PROVE  Counted'
<1> DEFINE n == changes + stops
           m == changes' + stops'
<1>1. VarsTyped' /\ n \in Nat /\ m \in Nat /\ n <= m
  BY TypedStep, Onward, VarsAssumption DEF VarsTyped
<1>2. /\ \A x \in Workers : known[x] \in Versions /\ known'[x] \in Versions
      /\ \A x \in Workers : disk[x].ver \in Nat /\ disk'[x].ver \in Nat
  BY <1>1 DEF VarsTyped, Contents
<1>3. \A x \in Workers : Within(disk[x].ver, known[x], n)
  BY DEF Counted
<1> DEFINE Sane(x) == Within(disk'[x].ver, known'[x], m)
<1>4. SUFFICES \A x \in Workers : Sane(x)
  BY DEF Counted
<1>5. ASSUME NEW x \in Workers, known'[x] = known[x], disk'[x] = disk[x]
      PROVE  Sane(x)
  BY <1>1, <1>2, <1>3, <1>5 DEF Within, Versions
<1> HIDE DEF Sane, n, m
<1>6. CASE Rests
  <2>1. known' = known /\ disk' = disk
    BY <1>6 DEF Rests, Pass, AllElse, allVars, worker
  <2> QED
    BY <1>5, <2>1
<1>7. ASSUME NEW w \in Workers, StepOf(w)
      PROVE  \A x \in Workers : Sane(x)
  <2>1. \A x \in Workers : x # w => Sane(x)
    BY <1>5, <1>7, OthersApart DEF Apart
  <2> SUFFICES Sane(w)
    BY <2>1
  <2>2. ASSUME NEW vs, NEW next, OpenOwn(w, vs, next), n + 1 <= m
        PROVE  Sane(w)
    <3>1. CASE Unsaved(w, vs, next)
      BY <1>5, <3>1 DEF Unsaved
    <3>2. CASE Begun(w, vs, next)
      <4>1. known[w][w] \in Nat /\ known[w][w] <= n
        BY <1>2, <1>3 DEF Within, Versions
      <4>2. known'[w][w] <= m
        <5>1. known'[w][w] = known[w][w] + 1
          BY <3>2 DEF Begun
        <5> QED
          BY <1>1, <2>2, <4>1, <5>1
      <4>3. \A f \in Workers : known[w][f] \in Nat /\ known[w][f] <= n
        BY <1>2, <1>3 DEF Within, Versions
      <4>4. \A f \in Workers : f # w => known'[w][f] = known[w][f]
        BY <3>2 DEF Begun
      <4>5. disk'[w].ver = 0
        BY <3>2, NoVarsIsMap DEF Begun
      <4>6. \A f \in Workers : known'[w][f] <= m
        BY <1>1, <4>2, <4>3, <4>4
      <4> QED
        BY <1>1, <4>5, <4>6 DEF Within, Sane
    <3> QED
      BY <2>2, <3>1, <3>2, OpenBegins
  <2>3. ASSUME NEW c \in Clients, Set(c, w)
        PROVE  Sane(w)
    <3>1. n + 1 <= m
      BY <2>3, VarsAssumption DEF Set, VarsTyped, n, m
    <3>2. \E vs : OpenOwn(w, vs, "idle")
      BY <2>3, Zenon DEF Set
    <3> QED
      BY <2>2, <3>1, <3>2
  <2>4. CASE Stop(w)
    <3>1. n + 1 <= m
      BY <2>4, VarsAssumption DEF Stop, VarsTyped, n, m
    <3>2. OpenOwn(w, mem[w], "gone")
      BY <2>4, Zenon DEF Stop
    <3> QED
      BY <2>2, <3>1, <3>2
  <2>11. \A f \in Workers : /\ disk[f].ver \in Nat /\ disk[f].ver <= n
                             /\ begun[f].file.ver \in Nat /\ begun[f].file.ver <= n
    BY <1>2, <1>3 DEF Within, VarsTyped, BegunTyped, Contents, BegunCounted, n
  <2>5. ASSUME NEW ver \in Nat, ver <= n, disk'[w].ver \in {disk[w].ver, known[w][w]},
               \A g \in Workers : known'[w][g] \in {0, known[w][g], ver}
        PROVE  Sane(w)
    <3>1. \A g \in Workers : known[w][g] \in Nat /\ known[w][g] <= n
      BY <1>2, <1>3 DEF Within, Versions
    <3>2. disk[w].ver <= n
      BY <1>3 DEF Within
    <3> QED
      BY <1>1, <1>2, <2>5, <3>1, <3>2 DEF Within, Versions, Sane
  <2>6. CASE (\E c \in Clients : Get(c, w)) \/ Answer(w) \/ Started(w)
    <3>1. known'[w] = known[w] /\ disk'[w] = disk[w]
      BY <2>6 DEF Get, Answer, Started
    <3> QED
      BY <1>5, <3>1
  <2>7. CASE WritePart(w)
    <3>1. known'[w] = known[w] /\ disk'[w].ver = known[w][w]
      <4>1. /\ known' = known
            /\ \E vs : disk' = [disk EXCEPT ![w] = [ver |-> known[w][w], vars |-> vs]]
        BY <2>7, Zenon DEF WritePart
      <4> QED
        BY <4>1 DEF VarsTyped
    <3> QED
      BY <2>5, <2>11, <3>1
  <2>8. CASE WriteRest(w)
    <3>1. disk'[w].ver = known[w][w]
      BY <2>8 DEF WriteRest, VarsTyped
    <3>2. \A f \in Workers : known'[w][f] \in {0, known[w][f]}
      BY <2>8 DEF WriteRest, VarsTyped
    <3> QED
      BY <2>5, <2>11, <3>1, <3>2
  <2>9. ASSUME NEW f \in Workers, ReadFile(w, f)
        PROVE  Sane(w)
    <3>1. disk'[w].ver = disk[w].ver
      BY <2>9 DEF ReadFile, HasTaken
    <3>2. known' = known \/ known' = [known EXCEPT ![w][f] = disk[f].ver]
      BY <2>9, Zenon DEF ReadFile, HasTaken
    <3>3. known \in [Workers -> Versions]
      BY DEF VarsTyped
    <3>4. \A g \in Workers : known'[w][g] \in {known[w][g], disk[f].ver}
      BY <3>2, <3>3 DEF Versions
    <3> QED
      BY <2>5, <2>11, <3>1, <3>4
  <2>12. ASSUME NEW f \in Workers, ReadMixed(w, f)
         PROVE  Sane(w)
    <3>1. disk'[w].ver = disk[w].ver
      BY <2>12 DEF ReadMixed, HasTaken
    <3>2. known' = [known EXCEPT ![w][f] = begun[w].file.ver]
      BY <2>12, Zenon DEF ReadMixed
    <3>3. known \in [Workers -> Versions]
      BY DEF VarsTyped
    <3>4. \A g \in Workers : known'[w][g] \in {known[w][g], begun[w].file.ver}
      BY <3>2, <3>3 DEF Versions
    <3> QED
      BY <2>5, <2>11, <3>1, <3>4
  <2>10. CASE Crash(w) \/ Start(w)
    <3>1. disk'[w].ver = disk[w].ver
      BY <2>10 DEF Crash, Start
    <3>2. \A f \in Workers : known'[w][f] = 0
      BY <2>10 DEF Crash, Start, VarsTyped
    <3> QED
      BY <2>5, <2>11, <3>1, <3>2
  <2> QED
    BY <1>7, <2>3, <2>4, <2>6, <2>7, <2>8, <2>9, <2>10, <2>12 DEF StepOf
<1> QED
  BY <1>6, <1>7, Steps

-----------------------------------------------------------------------------
(* A variable that is kept stays its session's.                            *)
LEMMA OwnedStays ==
  ASSUME VarsTyped, [VarsNext]_allVars, NEW u \in Uids, NEW v \in Value, OwnedBy(v, u, uid, now)
  PROVE  OwnedBy(v, u, uid', now')
<1>1. /\ now <= now' /\ now \in Nat /\ now' \in Nat
      /\ \A c \in Clients : uid[c] # NoUid => uid'[c] = uid[c]
  BY Onward
<1> SUFFICES ASSUME v # NoVar PROVE OwnedBy(v, u, uid', now')
  BY DEF OwnedBy
<1>2. v.by \in Clients /\ uid[v.by] = u /\ v.at <= now /\ v.at \in Nat
  BY DEF OwnedBy, Value
<1> QED
  BY <1>1, <1>2, UidsAreUids DEF OwnedBy

(* Every map has variables of the sessions only that they are kept for.    *)
LEMMA OwnedStep ==
  ASSUME VarsTyped, AllOwned, BegunOwned, [VarsNext]_allVars
  PROVE  AllOwned'
<1> DEFINE Own(vs) == \A u \in Uids : OwnedBy(vs[u], u, uid', now')
           Sane(x) == Own(mem'[x]) /\ Own(saving'[x]) /\ Own(disk'[x].vars)
<1>1. SUFFICES \A x \in Workers : Sane(x)
  BY DEF AllOwned, Owned
<1>2. ASSUME NEW x \in Workers
      PROVE  /\ mem[x] \in Values /\ saving[x] \in Values /\ disk[x].vars \in Values
             /\ \A u \in Uids : /\ OwnedBy(mem[x][u], u, uid', now')
                                /\ OwnedBy(saving[x][u], u, uid', now')
                                /\ OwnedBy(disk[x].vars[u], u, uid', now')
  <2>1. mem[x] \in Values /\ saving[x] \in Values /\ disk[x].vars \in Values
    BY DEF VarsTyped, Contents
  <2>2. \A u \in Uids : mem[x][u] \in Value /\ saving[x][u] \in Value /\ disk[x].vars[u] \in Value
    BY <2>1 DEF Values
  <2>3. \A u \in Uids : /\ OwnedBy(mem[x][u], u, uid, now)
                        /\ OwnedBy(saving[x][u], u, uid, now)
                        /\ OwnedBy(disk[x].vars[u], u, uid, now)
    BY DEF AllOwned, Owned
  <2> QED
    BY <2>1, <2>2, <2>3, OwnedStays
<1>3. \A u \in Uids : OwnedBy(NoVars[u], u, uid', now')
  BY NoVarsIsMap DEF OwnedBy
<1>4. ASSUME NEW x \in Workers,
             mem'[x] \in {mem[x], NoVars}, saving'[x] \in {saving[x], NoVars},
             disk'[x].vars \in {disk[x].vars, saving[x], NoVars}
      PROVE  Sane(x)
  <2>1. Own(mem'[x])
    BY <1>2, <1>3, <1>4
  <2>2. Own(saving'[x])
    BY <1>2, <1>3, <1>4
  <2>3. Own(disk'[x].vars)
    BY <1>2, <1>3, <1>4
  <2> QED
    BY <2>1, <2>2, <2>3
<1> HIDE DEF Sane
<1>5. CASE Rests
  <2>1. mem' = mem /\ saving' = saving /\ disk' = disk
    BY <1>5 DEF Rests, Pass, AllElse, allVars, worker
  <2> QED
    BY <1>4, <2>1
<1>6. ASSUME NEW w \in Workers, StepOf(w)
      PROVE  \A x \in Workers : Sane(x)
  <2>1. \A x \in Workers : x # w => Sane(x)
    BY <1>4, <1>6, OthersApart DEF Apart
  <2> SUFFICES Sane(w)
    BY <2>1
  <2>2. ASSUME NEW m \in Values, NEW next, OpenOwn(w, m, next), Own(m), mem'[w] = m
        PROVE  Sane(w)
    <3>1. CASE Unsaved(w, m, next)
      BY <1>2, <2>2, <3>1 DEF Unsaved, Sane
    <3>2. CASE Begun(w, m, next)
      <4>1. Own(Fresh(m))
        BY <2>2, FreshIsMap DEF OwnedBy
      <4> QED
        BY <1>3, <2>2, <3>2, <4>1, NoVarsIsMap DEF Begun, Sane
    <3> QED
      BY <2>2, <3>1, <3>2, OpenBegins
  <2>3. ASSUME NEW c \in Clients, Set(c, w)
        PROVE  Sane(w)
    <3>1. PICK u \in Uids, m \in Values :
            /\ m[u] = [by |-> c, at |-> now]
            /\ \A v \in Uids : v # u => m[v] = mem[w][v]
            /\ uid'[c] = u /\ mem'[w] = m
            /\ OpenOwn(w, m, "idle")
      BY <2>3, SetSets
    <3>2. OwnedBy(m[u], u, uid', now')
      <4>1. now' = now /\ now \in Nat
        BY <2>3, Onward DEF Set
      <4> QED
        BY <3>1, <4>1 DEF OwnedBy
    <3>3. Own(m)
      BY <1>2, <3>1, <3>2
    <3> HIDE DEF Own
    <3> QED
      BY <2>2, <3>1, <3>3
  <2>4. CASE Stop(w)
    <3>1. OpenOwn(w, mem[w], "gone") /\ mem'[w] = mem[w]
      BY <2>4 DEF Stop
    <3>2. Own(mem[w]) /\ mem[w] \in Values
      BY <1>2
    <3> HIDE DEF Own
    <3> QED
      BY <2>2, <3>1, <3>2
  <2>5. CASE (\E c \in Clients : Get(c, w)) \/ Answer(w) \/ Started(w) \/ Start(w) \/ Crash(w)
    <3>1. mem'[w] \in {mem[w], NoVars}
      BY <2>5 DEF Get, Answer, Started, Start, Crash, VarsTyped
    <3>2. saving'[w] \in {saving[w], NoVars} /\ disk'[w] = disk[w]
      BY <2>5 DEF Get, Answer, Started, Start, Crash, VarsTyped
    <3> QED
      BY <1>4, <3>1, <3>2
  <2>6. CASE WritePart(w)
    <3>1. PICK u \in Uids :
            disk' = [disk EXCEPT ![w] = [ver |-> known[w][w],
                                         vars |-> [NoVars EXCEPT ![u] = saving[w][u]]]]
      BY <2>6 DEF WritePart
    <3>2. disk'[w].vars = [NoVars EXCEPT ![u] = saving[w][u]]
      BY <3>1 DEF VarsTyped
    <3>3. NoVars \in [Uids -> Value]
      BY NoVarsIsMap DEF Values
    <3>4. \A v \in Uids : disk'[w].vars[v] = IF v = u THEN saving[w][u] ELSE NoVars[v]
      BY <3>2, <3>3
    <3>5. Own(disk'[w].vars)
      BY <1>2, <1>3, <3>4
    <3>6. mem'[w] = mem[w] /\ saving'[w] = saving[w]
      BY <2>6 DEF WritePart
    <3> QED
      BY <1>2, <3>5, <3>6 DEF Sane
  <2>7. CASE WriteRest(w)
    <3>1. mem'[w] \in {mem[w], NoVars}
      BY <2>7 DEF WriteRest, VarsTyped
    <3>2. saving'[w] = NoVars /\ disk'[w].vars = saving[w]
      BY <2>7 DEF WriteRest, VarsTyped
    <3> QED
      BY <1>4, <3>1, <3>2
  <2>8. ASSUME NEW f \in Workers, ReadFile(w, f)
        PROVE  Sane(w)
    <3>1. saving'[w] = saving[w] /\ disk'[w] = disk[w]
      BY <2>8 DEF ReadFile, HasTaken
    <3>2. \/ mem' = mem
          \/ mem' = [mem EXCEPT ![w] = [u \in Uids |-> Newer(@[u], disk[f].vars[u])]]
      BY <2>8, Zenon DEF ReadFile, HasTaken
    <3>3. \A u \in Uids : mem'[w][u] \in {mem[w][u], disk[f].vars[u]}
      BY <3>2 DEF VarsTyped, Newer
    <3>4. Own(mem'[w])
      BY <1>2, <3>3
    <3> QED
      BY <1>2, <3>1, <3>4 DEF Sane
  <2>9. ASSUME NEW f \in Workers, ReadMixed(w, f)
        PROVE  Sane(w)
    <3>1. saving'[w] = saving[w] /\ disk'[w] = disk[w]
      BY <2>9 DEF ReadMixed, HasTaken
    <3>2. \A u \in Uids : mem'[w][u] \in {mem[w][u], begun[w].file.vars[u], disk[f].vars[u]}
      BY <2>9, MixedIs
    <3>3. \A u \in Uids : OwnedBy(begun[w].file.vars[u], u, uid', now')
      <4>1. \A u \in Uids : begun[w].file.vars[u] \in Value
        BY DEF VarsTyped, BegunTyped, Contents, Values
      <4>2. \A u \in Uids : OwnedBy(begun[w].file.vars[u], u, uid, now)
        BY DEF BegunOwned, Owned
      <4> QED
        BY <4>1, <4>2, OwnedStays
    <3>4. Own(mem'[w])
      BY <1>2, <3>2, <3>3
    <3> QED
      BY <1>2, <3>1, <3>4 DEF Sane
  <2> QED
    BY <1>6, <2>3, <2>4, <2>5, <2>6, <2>7, <2>8, <2>9 DEF StepOf
<1> QED
  BY <1>5, <1>6, Steps

(* What has been read of a file was in it.                                 *)
LEMMA BegunIs ==
  ASSUME VarsTyped, [VarsNext]_allVars, NEW x \in Workers
  PROVE  \/ begun'[x] = begun[x] \/ begun'[x] = NotBegun
         \/ \E f \in Workers : begun'[x].file = disk[f]
<1>1. CASE UNCHANGED begun
  BY <1>1
<1>2. ASSUME NEW w \in Workers, begun' = [begun EXCEPT ![w] = NotBegun]
      PROVE  begun'[x] = begun[x] \/ begun'[x] = NotBegun
  BY <1>2 DEF VarsTyped, BegunTyped
<1>3. ASSUME NEW w \in Workers, NEW f \in Workers, ReadBlock(w, f)
      PROVE  begun'[x] = begun[x] \/ begun'[x].file = disk[f]
  BY <1>3 DEF ReadBlock, VarsTyped, BegunTyped
<1> QED
  BY <1>1, <1>2, <1>3, BegunSteps

LEMMA BegunStep ==
  ASSUME VarsTyped, Counted, AllOwned, BegunCounted, BegunOwned, [VarsNext]_allVars
  PROVE  BegunCounted' /\ BegunOwned'
<1>1. changes + stops \in Nat /\ changes' + stops' \in Nat /\ changes + stops <= changes' + stops'
  BY TypedStep, Onward, VarsAssumption DEF VarsTyped
<1>2. ASSUME NEW x \in Workers, NEW read \in Contents, read.ver <= changes + stops, Owned(read.vars)
      PROVE  /\ read.ver <= changes' + stops'
             /\ \A u \in Uids : OwnedBy(read.vars[u], u, uid', now')
  <2>1. read.ver \in Nat /\ \A u \in Uids : read.vars[u] \in Value
    BY DEF Contents, Values
  <2>2. \A u \in Uids : OwnedBy(read.vars[u], u, uid, now)
    BY <1>2 DEF Owned
  <2> QED
    BY <1>1, <1>2, <2>1, <2>2, OwnedStays
<1>3. ASSUME NEW x \in Workers
      PROVE  /\ begun'[x].file.ver <= changes' + stops'
             /\ \A u \in Uids : OwnedBy(begun'[x].file.vars[u], u, uid', now')
  <2>1. CASE begun'[x] = begun[x]
    <3>1. begun[x].file \in Contents
      BY DEF VarsTyped, BegunTyped
    <3> QED
      BY <1>2, <2>1, <3>1 DEF BegunCounted, BegunOwned
  <2>2. CASE begun'[x] = NotBegun
    <3>1. begun'[x].file = Empty
      BY <2>2 DEF NotBegun
    <3> QED
      BY <1>1, <3>1, NoVarsIsMap DEF OwnedBy
  <2>3. ASSUME NEW f \in Workers, begun'[x].file = disk[f]
        PROVE  /\ begun'[x].file.ver <= changes' + stops'
               /\ \A u \in Uids : OwnedBy(begun'[x].file.vars[u], u, uid', now')
    <3>1. disk[f] \in Contents /\ disk[f].ver <= changes + stops /\ Owned(disk[f].vars)
      BY DEF VarsTyped, Counted, Within, AllOwned
    <3> QED
      BY <1>2, <2>3, <3>1
  <2> QED
    BY <2>1, <2>2, <2>3, BegunIs
<1> QED
  BY <1>3 DEF BegunCounted, BegunOwned, Owned

-----------------------------------------------------------------------------
(* What is fresh of a map is covered by it.                                *)
LEMMA FreshIsCovered ==
  ASSUME NEW m \in Values, NEW u \in Uids
  PROVE  Covers(m[u], Fresh(m)[u])
<1>1. m[u] \in Value
  BY DEF Values
<1> QED
  BY <1>1, FreshIsMap DEF Covers, Value

(* A variable that has just been set is one, and is fresh.                 *)
LEMMA SetIsFresh ==
  ASSUME VarsTyped, NEW m \in Values, NEW u \in Uids, NEW c \in Clients,
         m[u] = [by |-> c, at |-> now]
  PROVE  m[u] # NoVar /\ Fresh(m)[u] = m[u] /\ Fresh(m) # NoVars
<1>1. m[u] # NoVar
  BY VarsAssumption DEF NoVar
<1>2. now - m[u].at <= Life
  BY VarsAssumption DEF VarsTyped
<1> QED
  BY <1>1, <1>2, FreshIsMap, NoVarsIsMap

(* What WritePart has written of a map.                                    *)
LEMMA PartIsWritten ==
  ASSUME VarsTyped, NEW w \in Workers, WritePart(w)
  PROVE  \A v \in Uids : disk'[w].vars[v] \in {NoVar, saving[w][v]}
<1>1. PICK u \in Uids :
        disk' = [disk EXCEPT ![w] = [ver |-> known[w][w],
                                     vars |-> [NoVars EXCEPT ![u] = saving[w][u]]]]
  BY DEF WritePart
<1>2. disk'[w].vars = [NoVars EXCEPT ![u] = saving[w][u]]
  BY <1>1 DEF VarsTyped
<1>3. NoVars \in [Uids -> Value] /\ \A v \in Uids : NoVars[v] = NoVar
  BY NoVarsIsMap DEF Values
<1> QED
  BY <1>2, <1>3

(* Each worker goes on as it should.                                       *)
LEMMA BusyStep ==
  ASSUME VarsTyped, \A x \in Workers : Engaged(x), [VarsNext]_allVars
  PROVE  \A x \in Workers : Engaged(x)'
<1>1. /\ \A c \in Clients : uid[c] # NoUid => uid'[c] = uid[c]
      /\ VarsTyped'
  BY Onward, TypedStep
<1>2. ASSUME NEW x \in Workers, Apart(x)
      PROVE  Engaged(x)'
  <2>1. Engaged(x)
    OBVIOUS
  <2>2. Writing(x)' <=> Writing(x)
    BY <1>2 DEF Apart, Writing
  <2> QED
    BY <1>1, <1>2, <2>1, <2>2 DEF Apart, Engaged
<1>3. CASE Rests
  <2>1. \A x \in Workers : Apart(x)
    BY <1>3 DEF Rests, Pass, AllElse, allVars, worker, Apart
  <2> QED
    BY <1>2, <2>1
<1>4. ASSUME NEW w \in Workers, StepOf(w)
      PROVE  \A x \in Workers : Engaged(x)'
  <2>1. \A x \in Workers : x # w => Engaged(x)'
    BY <1>2, <1>4, OthersApart
  <2> SUFFICES Engaged(w)'
    BY <2>1
  <2>2. Engaged(w)
    OBVIOUS
  <2>3. ASSUME NEW c \in Clients, Set(c, w)
        PROVE  Engaged(w)'
    <3>1. PICK u \in Uids, m \in Values :
            /\ m[u] = [by |-> c, at |-> now]
            /\ \A v \in Uids : v # u => m[v] = mem[w][v]
            /\ uid'[c] = u /\ mem'[w] = m
            /\ OpenOwn(w, m, "idle")
      BY <2>3, SetSets
    <3>2. m[u] # NoVar /\ Fresh(m)[u] = m[u] /\ Fresh(m) # NoVars
      BY <3>1, SetIsFresh
    <3>3. Begun(w, m, "idle")
      BY <3>1, <3>2, OpenBegins DEF Unsaved
    <3>4. toread'[w] = {} /\ serves'[w] = c
      BY <2>2, <2>3 DEF Set, Engaged, VarsTyped
    <3>5. known[w][w] \in Nat
      BY DEF VarsTyped, Versions
    <3>6. stage'[w] = "writing" /\ disk'[w] = Empty /\ saving'[w] = Fresh(m) /\ known'[w][w] > 0
      BY <3>3, <3>5 DEF Begun
    <3> QED
      BY <3>1, <3>2, <3>4, <3>6, FreshIsCovered, NoVarsIsMap, UidsAreUids DEF Engaged, Writing
  <2>4. CASE Stop(w)
    <3>1. OpenOwn(w, mem[w], "gone") /\ mem'[w] = mem[w] /\ toread'[w] = toread[w] /\ stage[w] = "idle"
      BY <2>4 DEF Stop
    <3>2. toread'[w] = {} /\ saving[w] = NoVars
      BY <2>2, <3>1 DEF Engaged, Writing
    <3>3. CASE Unsaved(w, mem[w], "gone")
      BY <2>2, <3>2, <3>3 DEF Engaged, Writing, Unsaved
    <3>4. CASE Begun(w, mem[w], "gone")
      <4>1. known[w][w] \in Nat /\ mem[w] \in Values
        BY DEF VarsTyped, Versions
      <4>2. stage'[w] = "writing last" /\ disk'[w] = Empty /\ saving'[w] = Fresh(mem[w])
        BY <3>4 DEF Begun
      <4>3. known'[w][w] > 0
        <5>1. known'[w][w] = known[w][w] + 1
          BY <3>4 DEF Begun
        <5> QED
          BY <4>1, <5>1
      <4> QED
        BY <3>1, <3>2, <4>1, <4>2, <4>3, FreshIsCovered, NoVarsIsMap DEF Engaged, Writing
    <3> QED
      BY <3>1, <3>3, <3>4, OpenBegins
  <2>5. ASSUME NEW c \in Clients, Get(c, w)
        PROVE  Engaged(w)'
    <3>1. /\ stage'[w] = "reading" /\ serves'[w] = c /\ uid'[c] # NoUid
          /\ saving' = saving /\ disk' = disk /\ stage[w] = "idle"
      BY <2>5 DEF Get, VarsTyped
    <3> QED
      BY <2>2, <3>1 DEF Engaged, Writing
  <2>6. CASE WritePart(w)
    <3>1. disk'[w].ver = known[w][w]
      <4>1. \E vs : disk' = [disk EXCEPT ![w] = [ver |-> known[w][w], vars |-> vs]]
        BY <2>6, Zenon DEF WritePart
      <4> QED
        BY <4>1 DEF VarsTyped
    <3>2. /\ stage'[w] = IF stage[w] = "writing" THEN "partly" ELSE "partly last"
          /\ stage[w] \in {"writing", "writing last"}
          /\ toread' = toread /\ saving' = saving /\ known' = known /\ mem' = mem /\ serves' = serves
          /\ uid' = uid
      BY <2>6 DEF WritePart, VarsTyped
    <3>3. Writing(w) /\ Writing(w)'
      BY <3>2 DEF Writing
    <3>4. known[w][w] \in Nat /\ known[w][w] > 0
      BY <2>2, <3>3 DEF VarsTyped, Versions, Engaged
    <3>5. disk'[w].ver # 0
      BY <3>1, <3>4
    <3>6. \A u \in Uids : Covers(mem'[w][u], saving'[w][u])
      BY <2>2, <3>2, <3>3 DEF Engaged
    <3>7. stage'[w] \in {"writing", "partly"} => stage[w] \in {"writing", "partly"}
      BY <3>2
    <3>8. stage'[w] \in {"partly", "partly last"}
      BY <3>2
    <3>9. \A v \in Uids : disk'[w].vars[v] \in {NoVar, saving'[w][v]}
      BY <2>6, <3>2, PartIsWritten
    <3> QED
      BY <2>2, <3>2, <3>3, <3>4, <3>5, <3>6, <3>7, <3>8, <3>9 DEF Engaged
  <2>7. CASE WriteRest(w)
    <3>1. disk'[w].ver = known[w][w] /\ saving'[w] = NoVars /\ stage'[w] \in {"idle", "gone"}
          /\ Writing(w) /\ toread' = toread
      BY <2>7 DEF WriteRest, VarsTyped
    <3>2. known[w][w] \in Nat /\ known[w][w] > 0
      BY <2>2, <3>1 DEF VarsTyped, Versions, Engaged
    <3>3. disk'[w].ver # 0
      BY <3>1, <3>2
    <3>4. toread'[w] = {}
      BY <2>2, <3>1 DEF Engaged, Writing
    <3> QED
      BY <3>1, <3>3, <3>4 DEF Engaged, Writing
  <2>8. ASSUME NEW f \in Workers, ReadFile(w, f) \/ ReadMixed(w, f)
        PROVE  Engaged(w)'
    <3>1. /\ toread[w] # {} /\ stage' = stage /\ saving' = saving /\ disk' = disk /\ serves' = serves
          /\ uid' = uid
      BY <2>8 DEF ReadFile, ReadMixed, HasTaken
    <3> QED
      BY <2>2, <3>1 DEF Engaged, Writing
  <2>9. CASE Answer(w) \/ Started(w)
    <3>1. /\ toread' = toread /\ saving' = saving /\ disk' = disk /\ stage'[w] = "idle"
          /\ toread[w] = {} /\ stage[w] \in {"reading", "loading"}
      BY <2>9 DEF Answer, Started, Answering, VarsTyped
    <3> QED
      BY <2>2, <3>1 DEF Engaged, Writing
  <2>10. CASE Start(w)
    <3>1. /\ saving' = saving /\ disk' = disk /\ stage'[w] = "loading" /\ stage[w] = "gone"
      BY <2>10 DEF Start, VarsTyped
    <3> QED
      BY <2>2, <3>1 DEF Engaged, Writing
  <2>11. CASE Crash(w)
    <3>1. /\ saving'[w] = NoVars /\ disk' = disk /\ stage'[w] = "gone" /\ toread'[w] = {}
      BY <2>11 DEF Crash, VarsTyped
    <3> QED
      BY <2>2, <3>1 DEF Engaged, Writing
  <2> QED
    BY <1>4, <2>3, <2>4, <2>5, <2>6, <2>7, <2>8, <2>9, <2>10, <2>11 DEF StepOf
<1> QED
  BY <1>3, <1>4, Steps

-----------------------------------------------------------------------------
(* What covers, and what is recent.                                        *)
LEMMA CoversTrans ==
  ASSUME NEW a \in Value, NEW b \in Value, NEW c \in Value, Covers(a, b), Covers(b, c)
  PROVE  Covers(a, c)
BY DEF Covers, Value

LEMMA RecentIsCovered ==
  ASSUME NEW a \in Value, NEW b \in Value, NEW n \in Nat, Covers(a, b), Recent(b, n)
  PROVE  Recent(a, n)
BY DEF Covers, Value, Recent

(* Every variable a worker has or a file holds is one.                     *)
LEMMA AllAreValues ==
  ASSUME VarsTyped, NEW w \in Workers, NEW u \in Uids
  PROVE  mem[w][u] \in Value /\ saving[w][u] \in Value /\ disk[w].vars[u] \in Value
BY DEF VarsTyped, Values, Contents

(* What a worker sets covers what it had.                                  *)
LEMMA SetCovers ==
  ASSUME VarsTyped, AllOwned, NEW w \in Workers, NEW c \in Clients, NEW m, NEW u \in Uids,
         NEW v \in Uids, m[u] = [by |-> c, at |-> now],
         v # u => m[v] = mem[w][v]
  PROVE  Covers(m[v], mem[w][v])
<1>1. mem[w][v] \in Value /\ (mem[w][v] # NoVar => mem[w][v].at <= now)
  BY AllAreValues DEF AllOwned, Owned, OwnedBy
<1>2. CASE v = u
  <2>1. m[v] # NoVar /\ m[v].at = now
    BY <1>2, VarsAssumption DEF NoVar
  <2> QED
    BY <1>1, <2>1 DEF Covers
<1>3. CASE v # u
  BY <1>1, <1>3 DEF Covers, Value
<1> QED
  BY <1>2, <1>3

(* A save writes again what its file had, unless it has expired.           *)
LEMMA SaveHolds ==
  ASSUME Kept, NEW f \in Workers, NEW m \in Values, NEW next, Begun(f, m, next),
         stage[f] = "idle", NEW u \in Uids, Covers(m[u], mem[f][u]),
         NEW n \in Nat, Holds(f, u, n), ~Expired(n)
  PROVE  Recent(saving'[f][u], n)
<1>1. saving[f] = NoVars /\ known[f][f] = disk[f].ver
  BY DEF Kept, Engaged, Writing, KnowsOwn
<1>2. Recent(disk[f].vars[u], n)
  BY <1>1, NoVarsIsMap DEF Holds, Recent
<1>3. Covers(mem[f][u], disk[f].vars[u])
  BY <1>1 DEF Kept, HasRead
<1>4. m[u] \in Value
  BY DEF Values
<1>5. Recent(m[u], n)
  <2>1. VarsTyped
    BY DEF Kept
  <2>2. Recent(mem[f][u], n)
    BY <1>2, <1>3, <2>1, AllAreValues, RecentIsCovered
  <2> QED
    BY <1>4, <2>1, <2>2, AllAreValues, RecentIsCovered
<1>6. now - m[u].at <= Life
  <2>1. now \in Nat /\ m[u].at \in Nat /\ m[u].at >= n
    BY <1>4, <1>5, VarsAssumption DEF Kept, VarsTyped, Value, Recent
  <2> QED
    BY <2>1, VarsAssumption DEF Expired
<1>7. saving'[f][u] = m[u]
  BY <1>6, FreshIsMap DEF Begun
<1> QED
  BY <1>5, <1>7

(* What a file has or is about to have, it keeps until it expires.         *)
LEMMA HoldsStays ==
  ASSUME Kept, Calm', NEW f \in Workers, StepOf(f), NEW u \in Uids, NEW n \in Nat,
         Holds(f, u, n), ~Expired(n)
  PROVE  Holds(f, u, n)'
<1>1. VarsTyped /\ AllOwned /\ Engaged(f)
  BY DEF Kept
<1>2. ASSUME disk'[f] = disk[f], saving'[f] = saving[f]
      PROVE  Holds(f, u, n)'
  BY <1>2 DEF Holds
<1>3. ASSUME NEW m \in Values, NEW next, OpenOwn(f, m, next), stage[f] = "idle",
             Covers(m[u], mem[f][u])
      PROVE  Holds(f, u, n)'
  <2>1. CASE Unsaved(f, m, next)
    BY <1>2, <2>1 DEF Unsaved
  <2>2. CASE Begun(f, m, next)
    BY <1>3, <2>2, SaveHolds DEF Holds
  <2> QED
    BY <1>1, <1>3, <2>1, <2>2, OpenBegins
<1>4. ASSUME NEW c \in Clients, Set(c, f)
      PROVE  Holds(f, u, n)'
  <2>1. PICK v \in Uids, m \in Values :
          /\ m[v] = [by |-> c, at |-> now]
          /\ \A x \in Uids : x # v => m[x] = mem[f][x]
          /\ uid'[c] = v /\ mem'[f] = m
          /\ OpenOwn(f, m, "idle")
    BY <1>1, <1>4, SetSets
  <2>2. Covers(m[u], mem[f][u])
    BY <1>1, <2>1, SetCovers
  <2>3. stage[f] = "idle"
    BY <1>4 DEF Set
  <2> QED
    BY <1>3, <2>1, <2>2, <2>3
<1>5. CASE Stop(f)
  <2>1. OpenOwn(f, mem[f], "gone") /\ stage[f] = "idle"
    BY <1>5 DEF Stop
  <2>2. mem[f] \in Values /\ Covers(mem[f][u], mem[f][u])
    BY <1>1, AllAreValues DEF VarsTyped, Covers, Value
  <2> QED
    BY <1>3, <2>1, <2>2
<1>6. CASE WritePart(f)
  <2>1. saving'[f] = saving[f] /\ Writing(f)
    BY <1>6 DEF WritePart, Writing
  <2>2. disk[f].vars[u] \in {NoVar, saving[f][u]}
    BY <1>1, <2>1 DEF Engaged
  <2> QED
    BY <2>1, <2>2 DEF Holds, Recent
<1>7. CASE WriteRest(f)
  <2>1. disk'[f].vars = saving[f] /\ Writing(f)
    BY <1>1, <1>7 DEF WriteRest, VarsTyped
  <2>2. disk[f].vars[u] \in {NoVar, saving[f][u]}
    BY <1>1, <2>1 DEF Engaged
  <2> QED
    BY <2>1, <2>2 DEF Holds, Recent
<1>8. CASE Crash(f)
  <2>1. ~Writing(f) /\ disk'[f] = disk[f] /\ saving'[f] = NoVars
    BY <1>1, <1>8 DEF Crash, Calm, VarsTyped
  <2> QED
    BY <1>1, <1>2, <2>1 DEF Engaged
<1>9. CASE (\E c \in Clients : Get(c, f)) \/ (\E g \in Workers : ReadFile(f, g) \/ ReadMixed(f, g))
           \/ Answer(f) \/ Start(f) \/ Started(f)
  <2>1. disk'[f] = disk[f] /\ saving'[f] = saving[f]
    BY <1>9 DEF Get, ReadFile, ReadMixed, HasTaken, Answer, Start, Started
  <2> QED
    BY <1>2, <2>1
<1> QED
  BY <1>4, <1>5, <1>6, <1>7, <1>8, <1>9 DEF StepOf

-----------------------------------------------------------------------------
(* What is known of versions stays true.                                   *)

(* Of the file of a worker that saves, starts, or reads.                   *)
LEMMA ToldOfStep ==
  ASSUME Kept, Calm', NEW w \in Workers, StepOf(w), NEW x \in Workers, x # w
  PROVE  HasRead(x, w)'
<1>1. VarsTyped /\ Engaged(w) /\ HasRead(x, w) /\ KnowsOwn(w)
  BY DEF Kept
<1>2. /\ known[x][w] \in Nat /\ known[w][w] \in Nat /\ disk[w].ver \in Nat
      /\ known'[x] = known[x] /\ mem'[x] = mem[x]
  BY <1>1, OthersApart DEF VarsTyped, Versions, Contents, Apart
<1>3. ASSUME ~Writing(w), ~Writing(w)', disk'[w] = disk[w]
      PROVE  HasRead(x, w)'
  BY <1>1, <1>2, <1>3 DEF HasRead
<1>4. ASSUME NEW m, NEW next, OpenOwn(w, m, next), next \in {"idle", "gone"}, stage[w] = "idle"
      PROVE  HasRead(x, w)'
  <2>1. CASE Unsaved(w, m, next)
    BY <1>3, <1>4, <2>1 DEF Unsaved, Writing
  <2>2. CASE Begun(w, m, next)
    <3>1. known[x][w] <= disk[w].ver /\ known[w][w] = disk[w].ver
      BY <1>1, <1>4 DEF HasRead, Writing, KnowsOwn
    <3>2. known'[w][w] = known[w][w] + 1
      BY <2>2 DEF Begun
    <3>3. Writing(w)'
      BY <2>2 DEF Begun, Writing
    <3>4. known'[x][w] < known'[w][w]
      BY <1>2, <3>1, <3>2
    <3>5. \A u \in Uids : disk'[w].vars[u] = NoVar
      BY <2>2, NoVarsIsMap DEF Begun
    <3> QED
      BY <3>3, <3>4, <3>5 DEF HasRead, Covers
  <2> QED
    BY <1>1, <1>4, <2>1, <2>2, OpenBegins
<1>5. CASE \E c \in Clients : Set(c, w)
  <2>1. stage[w] = "idle" /\ \E m : OpenOwn(w, m, "idle")
    BY <1>5, Zenon DEF Set
  <2> QED
    BY <1>4, <2>1
<1>6. CASE Stop(w)
  BY <1>4, <1>6 DEF Stop
<1>7. CASE WritePart(w)
  <2>1. disk'[w].ver = known[w][w]
    <3>1. \E vs : disk' = [disk EXCEPT ![w] = [ver |-> known[w][w], vars |-> vs]]
      BY <1>7, Zenon DEF WritePart
    <3> QED
      BY <1>1, <3>1 DEF VarsTyped
  <2>2. Writing(w) /\ Writing(w)' /\ known' = known
    BY <1>1, <1>7 DEF WritePart, Writing, VarsTyped
  <2>3. known[x][w] < known[w][w]
    BY <1>1, <2>2 DEF HasRead
  <2> QED
    BY <1>2, <2>1, <2>2, <2>3 DEF HasRead
<1>8. CASE WriteRest(w)
  <2>1. disk'[w].ver = known[w][w] /\ Writing(w) /\ ~Writing(w)'
    BY <1>1, <1>8 DEF WriteRest, Writing, VarsTyped
  <2>2. known[x][w] < known[w][w]
    BY <1>1, <2>1 DEF HasRead
  <2> QED
    BY <1>2, <2>1, <2>2 DEF HasRead
<1>9. CASE Crash(w)
  <2>1. ~Writing(w) /\ ~Writing(w)' /\ disk'[w] = disk[w]
    BY <1>1, <1>9 DEF Crash, Calm, VarsTyped, Writing
  <2> QED
    BY <1>3, <2>1
<1>10. CASE \E f \in Workers : ReadFile(w, f) \/ ReadMixed(w, f)
  <2>1. disk'[w] = disk[w] /\ stage' = stage /\ toread[w] # {}
    BY <1>10 DEF ReadFile, ReadMixed, HasTaken
  <2>2. ~Writing(w) /\ ~Writing(w)'
    BY <1>1, <2>1 DEF Engaged, Writing
  <2> QED
    BY <1>3, <2>1, <2>2
<1>11. CASE (\E c \in Clients : Get(c, w)) \/ Answer(w) \/ Start(w) \/ Started(w)
  <2>1. disk'[w] = disk[w] /\ ~Writing(w) /\ ~Writing(w)'
    BY <1>1, <1>11 DEF Get, Answer, Answering, Start, Started, Writing, VarsTyped
  <2> QED
    BY <1>3, <2>1
<1> QED
  BY <1>5, <1>6, <1>7, <1>8, <1>9, <1>10, <1>11 DEF StepOf

(* What a worker forgets, it will read again.                              *)
LEMMA ToldNothing ==
  ASSUME NEW w \in Workers, NEW y \in Workers, VarsTyped', Engaged(y)', known'[w][y] = 0,
         Writing(y)' => w # y
  PROVE  HasRead(w, y)'
<1>1. known'[y][y] \in Nat /\ disk'[y].ver \in Nat
  BY DEF VarsTyped, Versions, Contents
<1>2. Writing(y)' => known'[y][y] > 0
  BY DEF Engaged
<1>3. disk'[y].ver = 0 => \A u \in Uids : disk'[y].vars[u] = NoVar
  BY NoVarsIsMap DEF Engaged
<1> QED
  BY <1>1, <1>2, <1>3 DEF HasRead, Covers

(* What the map of a worker has of a file it has read.                     *)
LEMMA ReadCovers ==
  ASSUME VarsTyped, NEW w \in Workers, NEW f \in Workers, ReadFile(w, f)
  PROVE  /\ \A u \in Uids : Covers(mem'[w][u], mem[w][u])
         /\ \/ disk[f].ver \in {0, known[w][f]} /\ known'[w] = known[w]
            \/ /\ disk[f].ver \notin {0, known[w][f]} /\ known'[w][f] = disk[f].ver
               /\ \A g \in Workers : g # f => known'[w][g] = known[w][g]
               /\ \A u \in Uids : Covers(mem'[w][u], disk[f].vars[u])
<1>1. CASE disk[f].ver \in {0, known[w][f]}
  <2>1. mem' = mem /\ known' = known
    BY <1>1 DEF ReadFile, HasTaken
  <2>2. \A u \in Uids : Covers(mem[w][u], mem[w][u])
    BY AllAreValues DEF Covers, Value
  <2> QED
    BY <1>1, <2>1, <2>2
<1>2. CASE disk[f].ver \notin {0, known[w][f]}
  <2>1. /\ known' = [known EXCEPT ![w][f] = disk[f].ver]
        /\ mem' = [mem EXCEPT ![w] = [u \in Uids |-> Newer(@[u], disk[f].vars[u])]]
    BY <1>2, Zenon DEF ReadFile, HasTaken
  <2>2. \A u \in Uids : mem'[w][u] = Newer(mem[w][u], disk[f].vars[u])
    BY <2>1 DEF VarsTyped
  <2>3. \A u \in Uids : /\ Covers(mem'[w][u], mem[w][u])
                        /\ Covers(mem'[w][u], disk[f].vars[u])
    BY <2>2, AllAreValues, NewerIsNewer
  <2>4. known \in [Workers -> Versions]
    BY DEF VarsTyped
  <2>5. known'[w][f] = disk[f].ver /\ \A g \in Workers : g # f => known'[w][g] = known[w][g]
    BY <2>1, <2>4 DEF Versions
  <2> QED
    BY <1>2, <2>3, <2>5
<1> QED
  BY <1>1, <1>2

(* To the worker that steps, of the file of any other.                     *)
LEMMA ToldToStep ==
  ASSUME Kept, Calm', [VarsNext]_allVars, NEW w \in Workers, StepOf(w), NEW y \in Workers, y # w
  PROVE  HasRead(w, y)'
<1>1. VarsTyped /\ AllOwned /\ Engaged(w) /\ Engaged(y) /\ HasRead(w, y) /\ VarsTyped' /\ Engaged(y)'
  BY TypedStep, BusyStep DEF Kept
<1>2. /\ known[w][y] \in Nat /\ known[y][y] \in Nat /\ disk[y].ver \in Nat
      /\ known'[y] = known[y] /\ disk'[y] = disk[y] /\ (Writing(y)' <=> Writing(y))
  BY <1>1, OthersApart, ZenonT(60) DEF VarsTyped, Versions, Contents, Apart, Writing
<1>3. ASSUME known'[w][y] = known[w][y], \A u \in Uids : Covers(mem'[w][u], mem[w][u])
      PROVE  HasRead(w, y)'
  <2>1. ASSUME known[w][y] = disk[y].ver, NEW u \in Uids
        PROVE  Covers(mem'[w][u], disk[y].vars[u])
    <3>1. Covers(mem[w][u], disk[y].vars[u])
      BY <1>1, <2>1 DEF HasRead
    <3>2. mem'[w][u] \in Value
      BY <1>1 DEF VarsTyped, Values
    <3> QED
      BY <1>1, <1>3, <3>1, <3>2, AllAreValues, CoversTrans
  <2> QED
    BY <1>1, <1>2, <1>3, <2>1 DEF HasRead
<1>4. ASSUME known'[w] = known[w], mem'[w] = mem[w]
      PROVE  HasRead(w, y)'
  <2>1. \A u \in Uids : Covers(mem[w][u], mem[w][u])
    BY <1>1, AllAreValues DEF Covers, Value
  <2> QED
    BY <1>3, <1>4, <2>1
<1>5. ASSUME NEW m, NEW next, OpenOwn(w, m, next)
      PROVE  known'[w][y] = known[w][y]
  BY <1>1, <1>5, OpenBegins DEF Unsaved, Begun
<1>6. ASSUME NEW c \in Clients, Set(c, w)
      PROVE  HasRead(w, y)'
  <2>1. PICK v \in Uids, m \in Values :
          /\ m[v] = [by |-> c, at |-> now]
          /\ \A x \in Uids : x # v => m[x] = mem[w][x]
          /\ uid'[c] = v /\ mem'[w] = m
          /\ OpenOwn(w, m, "idle")
    BY <1>1, <1>6, SetSets
  <2>2. \A u \in Uids : Covers(mem'[w][u], mem[w][u])
    BY <1>1, <2>1, SetCovers
  <2> QED
    BY <1>3, <1>5, <2>1, <2>2
<1>7. CASE Stop(w)
  <2>1. mem'[w] = mem[w] /\ OpenOwn(w, mem[w], "gone")
    BY <1>7 DEF Stop
  <2>2. \A u \in Uids : Covers(mem[w][u], mem[w][u])
    BY <1>1, AllAreValues DEF Covers, Value
  <2> QED
    BY <1>3, <1>5, <2>1, <2>2
<1>8. CASE WriteRest(w)
  <2>1. \/ known' = known /\ mem' = mem
        \/ known' = [known EXCEPT ![w] = [f \in Workers |-> 0]]
    BY <1>8, Zenon DEF WriteRest
  <2>2. CASE known' = known /\ mem' = mem
    BY <1>4, <2>2
  <2>3. CASE known' = [known EXCEPT ![w] = [f \in Workers |-> 0]]
    <3>1. known'[w][y] = 0
      BY <1>1, <2>3 DEF VarsTyped
    <3> QED
      BY <1>1, <3>1, ToldNothing
  <2> QED
    BY <2>1, <2>2, <2>3
<1>9. ASSUME NEW f \in Workers, ReadFile(w, f)
      PROVE  HasRead(w, y)'
  <2>1. \A u \in Uids : Covers(mem'[w][u], mem[w][u])
    BY <1>1, <1>9, ReadCovers
  <2>2. CASE known'[w][y] = known[w][y]
    BY <1>3, <2>1, <2>2
  <2>3. CASE known'[w][y] # known[w][y]
    <3>1. /\ f = y /\ known'[w][y] = disk[y].ver /\ disk[y].ver # 0
          /\ \A u \in Uids : Covers(mem'[w][u], disk[y].vars[u])
      BY <1>1, <1>9, <2>3, ReadCovers
    <3>2. stage[y] \notin {"partly", "partly last"}
      BY <1>9, <3>1 DEF ReadFile, HasTaken, Calm
    <3>3. stage[y] \notin {"writing", "writing last"}
      BY <1>1, <3>1, NoVarsIsMap DEF Engaged
    <3>4. ~Writing(y)
      BY <3>2, <3>3 DEF Writing
    <3> QED
      BY <1>2, <3>1, <3>4 DEF HasRead
  <2> QED
    BY <2>2, <2>3
<1>10. CASE Crash(w) \/ Start(w)
  <2>1. known'[w][y] = 0
    BY <1>1, <1>10 DEF Crash, Start, VarsTyped
  <2> QED
    BY <1>1, <2>1, ToldNothing
<1>11. CASE (\E c \in Clients : Get(c, w)) \/ Answer(w) \/ Started(w) \/ WritePart(w)
  <2>1. known'[w] = known[w] /\ mem'[w] = mem[w]
    BY <1>11 DEF Get, Answer, Started, WritePart
  <2> QED
    BY <1>4, <2>1
<1>12. \A f \in Workers : ~ReadMixed(w, f)
  BY DEF ReadMixed, Calm
<1> QED
  BY <1>6, <1>7, <1>8, <1>9, <1>10, <1>11, <1>12 DEF StepOf

(* To the worker that steps, of its own file.                              *)
LEMMA ToldOwnStep ==
  ASSUME Kept, Calm', [VarsNext]_allVars, NEW w \in Workers, StepOf(w)
  PROVE  HasRead(w, w)' /\ KnowsOwn(w)'
<1>1. VarsTyped /\ AllOwned /\ Engaged(w) /\ HasRead(w, w) /\ KnowsOwn(w) /\ VarsTyped' /\ Engaged(w)'
  BY TypedStep, BusyStep DEF Kept
<1>2. /\ known[w][w] \in Nat /\ disk[w].ver \in Nat
      /\ known'[w][w] \in Nat /\ disk'[w].ver \in Nat
  BY <1>1 DEF VarsTyped, Versions, Contents
<1>3. ASSUME Writing(w)'
      PROVE  HasRead(w, w)' /\ KnowsOwn(w)'
  <2>1. \A u \in Uids : Covers(mem'[w][u], disk'[w].vars[u])
    BY <1>1, <1>3 DEF Engaged, Covers
  <2> QED
    BY <1>3, <2>1 DEF HasRead, KnowsOwn, Writing
<1>4. ASSUME ~Writing(w), ~Writing(w)', known'[w][w] = known[w][w], disk'[w] = disk[w],
             \A u \in Uids : Covers(mem'[w][u], mem[w][u])
      PROVE  HasRead(w, w)'
  <2>1. ASSUME known[w][w] = disk[w].ver, NEW u \in Uids
        PROVE  Covers(mem'[w][u], disk[w].vars[u])
    <3>1. Covers(mem[w][u], disk[w].vars[u])
      BY <1>1, <2>1 DEF HasRead
    <3>2. mem'[w][u] \in Value
      BY <1>1 DEF VarsTyped, Values
    <3> QED
      BY <1>1, <1>4, <3>1, <3>2, AllAreValues, CoversTrans
  <2> QED
    BY <1>1, <1>2, <1>4, <2>1 DEF HasRead
<1>5. \A u \in Uids : Covers(mem[w][u], mem[w][u])
  BY <1>1, AllAreValues DEF Covers, Value
<1>6. ASSUME NEW c \in Clients, Set(c, w)
      PROVE  HasRead(w, w)' /\ KnowsOwn(w)'
  <2>1. PICK v \in Uids, m \in Values :
          /\ m[v] = [by |-> c, at |-> now]
          /\ \A x \in Uids : x # v => m[x] = mem[w][x]
          /\ uid'[c] = v /\ mem'[w] = m
          /\ OpenOwn(w, m, "idle")
    BY <1>1, <1>6, SetSets
  <2>2. Begun(w, m, "idle")
    BY <1>1, <2>1, SetIsFresh, OpenBegins DEF Unsaved
  <2>3. Writing(w)'
    BY <2>2 DEF Begun, Writing
  <2> QED
    BY <1>3, <2>3
<1>7. CASE Stop(w)
  <2>1. mem'[w] = mem[w] /\ OpenOwn(w, mem[w], "gone") /\ stage[w] = "idle"
    BY <1>7 DEF Stop
  <2>2. CASE Unsaved(w, mem[w], "gone")
    <3>1. ~Writing(w) /\ ~Writing(w)' /\ stage'[w] = "gone"
      BY <2>1, <2>2 DEF Unsaved, Writing
    <3> QED
      BY <1>4, <1>5, <2>1, <2>2, <3>1 DEF Unsaved, KnowsOwn
  <2>3. CASE Begun(w, mem[w], "gone")
    <3>1. Writing(w)'
      BY <2>3 DEF Begun, Writing
    <3> QED
      BY <1>3, <3>1
  <2> QED
    BY <1>1, <2>1, <2>2, <2>3, OpenBegins
<1>8. CASE WritePart(w)
  <2>1. Writing(w)'
    BY <1>1, <1>8 DEF WritePart, Writing, VarsTyped
  <2> QED
    BY <1>3, <2>1
<1>9. CASE WriteRest(w)
  <2>1. disk'[w].ver = known[w][w] /\ disk'[w].vars = saving[w] /\ Writing(w)
        /\ stage'[w] \in {"idle", "gone"}
    BY <1>1, <1>9 DEF WriteRest, VarsTyped
  <2>2. \/ known' = known /\ mem' = mem
        \/ known' = [known EXCEPT ![w] = [f \in Workers |-> 0]] /\ stage'[w] = "gone"
    BY <1>1, <1>9 DEF WriteRest, VarsTyped
  <2>3. CASE known' = known /\ mem' = mem
    <3>1. \A u \in Uids : Covers(mem'[w][u], disk'[w].vars[u])
      BY <1>1, <2>1, <2>3 DEF Engaged
    <3>2. known'[w][w] = disk'[w].ver /\ ~Writing(w)'
      BY <2>1, <2>3 DEF Writing
    <3> QED
      BY <1>2, <3>1, <3>2 DEF HasRead, KnowsOwn
  <2>4. CASE known' = [known EXCEPT ![w] = [f \in Workers |-> 0]] /\ stage'[w] = "gone"
    <3>1. known'[w][w] = 0
      BY <1>1, <2>4 DEF VarsTyped
    <3>2. ~Writing(w)'
      BY <2>4 DEF Writing
    <3> QED
      BY <1>1, <2>4, <3>1, <3>2, ToldNothing DEF KnowsOwn
  <2> QED
    BY <2>2, <2>3, <2>4
<1>10. ASSUME NEW f \in Workers, ReadFile(w, f)
       PROVE  HasRead(w, w)' /\ KnowsOwn(w)'
  <2>1. /\ stage' = stage /\ disk' = disk /\ toread[w] # {}
        /\ toread'[w] = toread[w] \ {f} /\ f \in toread[w]
    BY <1>1, <1>10, ZenonT(60) DEF ReadFile, HasTaken, VarsTyped
  <2>2. ~Writing(w) /\ ~Writing(w)'
    BY <1>1, <2>1 DEF Engaged, Writing
  <2>3. \A u \in Uids : Covers(mem'[w][u], mem[w][u])
    BY <1>1, <1>10, ReadCovers
  <2>4. known[w][w] <= disk[w].ver
    BY <1>1, <2>2 DEF HasRead
  <2>5. CASE f # w
    <3>1. known'[w][w] = known[w][w]
      BY <1>1, <1>10, <2>5, ReadCovers
    <3> QED
      BY <1>1, <1>4, <2>1, <2>2, <2>3, <2>5, <3>1 DEF KnowsOwn
  <2>6. CASE f = w
    <3>1. CASE disk[w].ver \in {0, known[w][w]}
      <4>1. known'[w][w] = known[w][w]
        BY <1>1, <1>10, <2>6, <3>1, ReadCovers
      <4>2. known[w][w] = disk[w].ver
        BY <1>2, <2>4, <3>1
      <4> QED
        BY <1>4, <2>1, <2>2, <2>3, <4>1, <4>2 DEF KnowsOwn
    <3>2. CASE disk[w].ver \notin {0, known[w][w]}
      <4>1. /\ known'[w][w] = disk[w].ver
            /\ \A u \in Uids : Covers(mem'[w][u], disk[w].vars[u])
        BY <1>1, <1>10, <2>6, <3>2, ReadCovers
      <4> QED
        BY <1>2, <2>1, <2>2, <4>1 DEF HasRead, KnowsOwn
    <3> QED
      BY <3>1, <3>2
  <2> QED
    BY <2>5, <2>6
<1>11. CASE Crash(w) \/ Start(w)
  <2>1. stage'[w] = "gone" \/ (stage'[w] = "loading" /\ toread'[w] = Workers)
    BY <1>1, <1>11 DEF Crash, Start, VarsTyped, ToLoad
  <2>2. known'[w][w] = 0 /\ ~Writing(w)'
    <3>1. known' = [known EXCEPT ![w] = [f \in Workers |-> 0]]
      BY <1>11, Zenon DEF Crash, Start
    <3>2. known'[w][w] = 0
      BY <1>1, <3>1 DEF VarsTyped
    <3> QED
      BY <2>1, <3>2 DEF Writing
  <2> QED
    BY <1>1, <2>1, <2>2, ToldNothing DEF KnowsOwn
<1>12. CASE (\E c \in Clients : Get(c, w)) \/ Answer(w) \/ Started(w)
  <2>1. known' = known /\ mem' = mem /\ disk' = disk
    BY <1>12 DEF Get, Answer, Started
  <2>2. /\ stage[w] \in {"idle", "reading"} \/ (stage[w] = "loading" /\ toread[w] = {})
        /\ stage'[w] \in {"idle", "reading"}
    BY <1>1, <1>12 DEF Get, Answer, Answering, Started, VarsTyped
  <2>3. ~Writing(w) /\ ~Writing(w)'
    BY <2>2 DEF Writing
  <2>4. known'[w][w] = disk'[w].ver
    BY <1>1, <2>1, <2>2 DEF KnowsOwn
  <2> QED
    BY <1>4, <1>5, <2>1, <2>3, <2>4 DEF KnowsOwn
<1>13. \A f \in Workers : ~ReadMixed(w, f)
  BY DEF ReadMixed, Calm
<1> QED
  BY <1>6, <1>7, <1>8, <1>9, <1>10, <1>11, <1>12, <1>13 DEF StepOf

(* What all workers know of all files.                                     *)
LEMMA KnownStep ==
  ASSUME Kept, Calm', [VarsNext]_allVars
  PROVE  /\ \A x, y \in Workers : HasRead(x, y)'
         /\ \A x \in Workers : KnowsOwn(x)'
<1>1. VarsTyped
  BY DEF Kept
<1>2. ASSUME NEW x \in Workers, Apart(x)
      PROVE  KnowsOwn(x)'
  BY <1>2 DEF Kept, KnowsOwn, Apart
<1>3. ASSUME NEW x \in Workers, NEW y \in Workers, Apart(x), Apart(y)
      PROVE  HasRead(x, y)'
  <2>1. HasRead(x, y)
    BY DEF Kept
  <2>2. Writing(y)' <=> Writing(y)
    BY <1>3 DEF Apart, Writing
  <2> QED
    BY <1>3, <2>1, <2>2 DEF HasRead, Apart
<1>4. CASE Rests
  <2>1. \A x \in Workers : Apart(x)
    BY <1>4 DEF Rests, Pass, AllElse, allVars, worker, Apart
  <2> QED
    BY <1>2, <1>3, <2>1
<1>5. ASSUME NEW w \in Workers, StepOf(w)
      PROVE  /\ \A x, y \in Workers : HasRead(x, y)'
             /\ \A x \in Workers : KnowsOwn(x)'
  <2>1. \A x \in Workers : x # w => Apart(x)
    BY <1>1, <1>5, OthersApart
  <2>2. \A x \in Workers : KnowsOwn(x)'
    BY <1>2, <1>5, <2>1, ToldOwnStep
  <2>3. ASSUME NEW x \in Workers, NEW y \in Workers
        PROVE  HasRead(x, y)'
    <3>1. CASE x # w /\ y # w
      BY <1>3, <2>1, <3>1
    <3>2. CASE x # w /\ y = w
      BY <1>5, <3>2, ToldOfStep
    <3>3. CASE x = w /\ y # w
      BY <1>5, <3>3, ToldToStep
    <3>4. CASE x = w /\ y = w
      BY <1>5, <3>4, ToldOwnStep
    <3> QED
      BY <3>1, <3>2, <3>3, <3>4
  <2> QED
    BY <2>2, <2>3
<1> QED
  BY <1>4, <1>5, Steps

-----------------------------------------------------------------------------
(* What is found.                                                          *)

(* What has expired stays so.                                              *)
LEMMA ExpiredStays ==
  ASSUME VarsTyped, [VarsNext]_allVars, NEW n \in Nat, Expired(n)
  PROVE  Expired(n)'
<1>1. \A a, b, l \in Nat : (a <= b /\ a - n > l) => b - n > l
  OBVIOUS
<1>2. now - n > Life /\ now <= now' /\ now \in Nat /\ now' \in Nat /\ Life \in Nat
  BY Onward, VarsAssumption DEF Expired
<1>3. now' - n > Life
  BY <1>1, <1>2
<1> QED
  BY <1>3 DEF Expired

(* A value that has expired stays so, and one that has not is still held.  *)
LEMMA HeldOn ==
  ASSUME Kept, Calm', [VarsNext]_allVars, NEW f \in Workers, NEW u \in Uids, NEW n \in Nat,
         Expired(n) \/ Holds(f, u, n)
  PROVE  Expired(n)' \/ Holds(f, u, n)'
<1>1. VarsTyped /\ now \in Nat /\ now' \in Nat /\ now <= now'
  BY Onward DEF Kept
<1>2. CASE Expired(n)
  BY <1>1, <1>2, ExpiredStays
<1>3. ASSUME Apart(f), Holds(f, u, n)
      PROVE  Holds(f, u, n)'
  BY <1>3 DEF Apart, Holds
<1>4. CASE ~Expired(n) /\ (Rests)
  <2>1. Apart(f)
    BY <1>4 DEF Rests, Pass, AllElse, allVars, worker, Apart
  <2> QED
    BY <1>3, <1>4, <2>1
<1>5. ASSUME NEW w \in Workers, StepOf(w), ~Expired(n)
      PROVE  Holds(f, u, n)'
  <2>1. CASE f = w
    BY <1>5, <2>1, HoldsStays
  <2>2. CASE f # w
    BY <1>1, <1>3, <1>5, <2>2, OthersApart
  <2> QED
    BY <2>1, <2>2
<1> QED
  BY <1>2, <1>4, <1>5, Steps

(* What has been saved, as StaysSaved says.                                *)
Saved(u) == last[u] > 0 => Expired(last[u] - 1) \/ \E f \in Workers : Holds(f, u, last[u] - 1)

LEMMA SavedAsStated ==
  ASSUME VarsTyped
  PROVE  StaysSaved <=> (Calm => \A u \in Uids : Saved(u))
<1>1. ASSUME NEW u \in Uids
      PROVE  /\ Saved(u) <=> ((last[u] > 0 /\ now - (last[u] - 1) <= Life) =>
                               \E f \in Workers : Holds(f, u, last[u] - 1))
             /\ \A n : (\E f \in Workers : Holds(f, u, n)) <=>
                       (\E w \in Workers : \E v \in {disk[w].vars[u], saving[w][u]} :
                          v # NoVar /\ v.at >= n)
  <2>1. now \in Nat /\ last[u] \in Nat
    BY VarsAssumption DEF VarsTyped
  <2>2. (now - (last[u] - 1) <= Life) <=> ~Expired(last[u] - 1)
    BY <2>1, VarsAssumption DEF Expired
  <2> QED
    BY <2>2 DEF Saved, Holds, Recent
<1> QED
  BY <1>1 DEF StaysSaved, Calm

LEMMA SavedStep ==
  ASSUME Kept, Calm', [VarsNext]_allVars, \A u \in Uids : Saved(u)
  PROVE  \A u \in Uids : Saved(u)'
<1>1. VarsTyped /\ VarsTyped' /\ \A w \in Workers : Engaged(w)
  BY TypedStep DEF Kept
<1>2. ASSUME NEW u \in Uids, last'[u] = last[u]
      PROVE  Saved(u)'
  <2> SUFFICES ASSUME last[u] > 0, NEW n \in Nat, n = last[u] - 1
               PROVE  Expired(n)' \/ \E f \in Workers : Holds(f, u, n)'
    <3>1. last[u] \in Nat
      BY <1>1 DEF VarsTyped
    <3>2. last[u] > 0 => last[u] - 1 \in Nat
      BY <3>1
    <3> QED
      BY <1>2, <3>2 DEF Saved, Expired, Holds
  <2>1. Expired(n) \/ \E f \in Workers : Holds(f, u, n)
    BY DEF Saved
  <2>2. CASE Expired(n)
    BY <1>1, <2>2, ExpiredStays
  <2>3. CASE \E f \in Workers : Holds(f, u, n)
    BY <2>3, HeldOn
  <2> QED
    BY <2>1, <2>2, <2>3
<1>3. CASE last' = last
  BY <1>2, <1>3
<1>4. ASSUME NEW w \in Workers, WriteRest(w), stage[w] \in {"writing", "partly"}
      PROVE  \A u \in Uids : Saved(u)'
  <2>1. PICK v \in Uids : v = uid[serves[w]] /\ saving[w][v] # NoVar
    <3>1. Engaged(w) /\ Writing(w)
      BY <1>1, <1>4 DEF Writing
    <3>2. uid[serves[w]] \in Uids /\ saving[w][uid[serves[w]]] # NoVar
      <4>1. serves[w] \in Clients /\ uid[serves[w]] # NoUid /\ saving[w][uid[serves[w]]] # NoVar
        BY <1>4, <3>1 DEF Engaged
      <4> QED
        BY <1>1, <4>1 DEF VarsTyped
    <3> QED
      BY <3>2
  <2>2. saving[w][v].at \in Nat
    BY <1>1, AllAreValues DEF Value
  <2>3. last' = [last EXCEPT ![v] = saving[w][v].at + 1] /\ disk'[w].vars = saving[w]
    BY <1>1, <1>4, <2>1 DEF WriteRest, VarsTyped
  <2>4. last'[v] = saving[w][v].at + 1 /\ \A u \in Uids : u # v => last'[u] = last[u]
    BY <1>1, <2>3 DEF VarsTyped
  <2>5. Recent(disk'[w].vars[v], last'[v] - 1)
    BY <2>1, <2>2, <2>3, <2>4 DEF Recent
  <2>6. Saved(v)'
    BY <2>5 DEF Saved, Holds
  <2> QED
    BY <1>2, <2>4, <2>6
<1>5. last' = last \/ \E w \in Workers : WriteRest(w) /\ stage[w] \in {"writing", "partly"}
  <2>1. ASSUME NEW w \in Workers,
               \/ \E c \in Clients : Set(c, w) \/ Get(c, w)
               \/ WritePart(w) \/ Answer(w) \/ Stop(w) \/ Crash(w) \/ Start(w) \/ Started(w)
               \/ \E f \in Workers : ReadFile(w, f) \/ ReadMixed(w, f)
        PROVE  last' = last
    BY <2>1, Zenon DEF Set, Get, WritePart, Answer, Stop, Crash, Start, Started, ReadFile, ReadMixed, HasTaken
  <2>2. ASSUME NEW w \in Workers, WriteRest(w)
        PROVE  last' = last \/ stage[w] \in {"writing", "partly"}
    BY <2>2, Zenon DEF WriteRest
  <2>3. CASE Rests
    BY <2>3 DEF Rests, Pass, AllElse
  <2> QED
    BY <2>1, <2>2, <2>3, Steps, Zenon DEF StepOf
<1> QED
  BY <1>3, <1>4, <1>5

(* A worker that reads finds what had been saved when the request came.    *)
FindsFor(w, u, n) ==
  \/ Expired(n)
  \/ Recent(mem[w][u], n)
  \/ \E f \in toread[w] : Holds(f, u, n)

LEMMA FindsStep ==
  ASSUME Kept, Calm', [VarsNext]_allVars, \A x \in Workers : Finds(x), \A u \in Uids : Saved(u)
  PROVE  \A x \in Workers : Finds(x)'
<1>1. VarsTyped /\ VarsTyped' /\ (\A x \in Workers : Engaged(x)) /\ \A x \in Workers : Engaged(x)'
  BY TypedStep, BusyStep DEF Kept
<1>2. ASSUME NEW x \in Workers, stage[x] = "reading", base[x] > 0,
             NEW u \in Uids, u = uid[serves[x]], NEW n \in Nat, n = base[x] - 1
      PROVE  FindsFor(x, u, n)
  BY <1>2 DEF Finds, FindsFor
<1>3. ASSUME NEW x \in Workers, Apart(x)
      PROVE  Finds(x)'
  <2> SUFFICES ASSUME stage[x] = "reading", base[x] > 0,
                      NEW u \in Uids, u = uid[serves[x]], u = uid'[serves'[x]],
                      NEW n \in Nat, n = base[x] - 1
               PROVE  FindsFor(x, u, n)'
    <3>1. base[x] > 0 => base[x] - 1 \in Nat
      BY <1>1 DEF VarsTyped
    <3>2. stage[x] = "reading" => serves[x] \in Clients /\ uid[serves[x]] # NoUid
      BY <1>1 DEF Engaged
    <3>3. stage[x] = "reading" =>
            uid[serves[x]] \in Uids /\ uid'[serves'[x]] = uid[serves[x]]
      BY <1>1, <1>3, <3>2, Onward DEF VarsTyped, Apart
    <3> QED
      BY <1>3, <3>1, <3>3 DEF Finds, FindsFor, Apart
  <2>1. FindsFor(x, u, n)
    BY <1>2
  <2>2. CASE Expired(n)
    BY <1>1, <2>2, ExpiredStays DEF FindsFor
  <2>3. CASE Recent(mem[x][u], n)
    BY <1>3, <2>3 DEF FindsFor, Apart
  <2>4. ASSUME NEW f \in toread[x], Holds(f, u, n)
        PROVE  FindsFor(x, u, n)'
    <3>1. f \in Workers /\ f \in toread'[x]
      BY <1>1, <1>3 DEF VarsTyped, Apart
    <3>2. Expired(n)' \/ Holds(f, u, n)'
      BY <2>4, <3>1, HeldOn
    <3> QED
      BY <3>1, <3>2 DEF FindsFor
  <2> QED
    BY <2>1, <2>2, <2>3, <2>4 DEF FindsFor
<1>4. CASE Rests
  <2>1. \A x \in Workers : Apart(x)
    BY <1>4 DEF Rests, Pass, AllElse, allVars, worker, Apart
  <2> QED
    BY <1>3, <2>1
<1>5. ASSUME NEW w \in Workers, StepOf(w)
      PROVE  \A x \in Workers : Finds(x)'
  <2>1. \A x \in Workers : x # w => Finds(x)'
    BY <1>1, <1>3, <1>5, OthersApart
  <2> SUFFICES ASSUME stage'[w] = "reading", base'[w] > 0
               PROVE  Finds(w)'
    BY <2>1 DEF Finds
  <2>2. ASSUME NEW c \in Clients, Get(c, w)
        PROVE  Finds(w)'
    <3>1. /\ serves'[w] = c /\ uid' = uid /\ uid[c] # NoUid /\ toread'[w] = Workers
          /\ base'[w] = last[uid[c]] /\ disk' = disk /\ saving' = saving /\ now' = now
      BY <1>1, <2>2 DEF Get, VarsTyped
    <3>2. PICK u \in Uids : u = uid[c]
      BY <1>1, <3>1 DEF VarsTyped
    <3>3. last[u] > 0 /\ Saved(u)
      BY <3>1, <3>2
    <3>4. PICK n : n = last[u] - 1
      OBVIOUS
    <3>5. Expired(n) \/ \E f \in Workers : Holds(f, u, n)
      BY <3>3, <3>4 DEF Saved
    <3>6. FindsFor(w, u, n)'
      BY <3>1, <3>5 DEF FindsFor, Expired, Holds
    <3>7. u = uid'[serves'[w]] /\ n = base'[w] - 1
      BY <3>1, <3>2, <3>4
    <3> QED
      BY <3>6, <3>7 DEF Finds, FindsFor
  <2>3. ASSUME NEW g \in Workers, ReadFile(w, g)
        PROVE  Finds(w)'
    <3>1. /\ serves' = serves /\ uid' = uid /\ toread'[w] = toread[w] \ {g} /\ g \in toread[w]
          /\ base'[w] = (IF stage[g] \in {"writing", "writing last"} THEN 0 ELSE base[w])
          /\ disk' = disk /\ saving' = saving /\ now' = now /\ stage' = stage
      BY <1>1, <2>3, ZenonT(60) DEF ReadFile, HasTaken, VarsTyped
    <3>2. stage[g] \notin {"writing", "writing last"} /\ base'[w] = base[w]
      <4>1. base'[w] # 0
        OBVIOUS
      <4> QED
        BY <3>1, <4>1, Zenon
    <3>3. stage[g] \notin {"partly", "partly last"}
      BY <2>3 DEF ReadFile, HasTaken, Calm
    <3>4. saving[g] = NoVars
      BY <1>1, <3>2, <3>3 DEF Engaged, Writing
    <3>5. serves[w] \in Clients /\ uid[serves[w]] # NoUid
      BY <1>1, <3>1 DEF Engaged
    <3>6. PICK u \in Uids : u = uid[serves[w]]
      BY <1>1, <3>5 DEF VarsTyped
    <3>7. PICK n \in Nat : n = base[w] - 1
      <4>1. base[w] \in Nat /\ base[w] > 0
        BY <1>1, <3>2 DEF VarsTyped
      <4>2. base[w] - 1 \in Nat
        BY <4>1
      <4> QED
        BY <4>2
    <3>8. FindsFor(w, u, n)
      BY <1>2, <3>1, <3>2, <3>6, <3>7
    <3>9. mem'[w][u] \in Value /\ Covers(mem'[w][u], mem[w][u])
      BY <1>1, <2>3, ReadCovers DEF VarsTyped, Values
    <3>10. FindsFor(w, u, n)'
      <4>1. CASE Expired(n)
        BY <3>1, <4>1 DEF FindsFor, Expired
      <4>2. CASE Recent(mem[w][u], n)
        BY <1>1, <3>9, <4>2, AllAreValues, RecentIsCovered DEF FindsFor
      <4>3. ASSUME NEW f \in toread[w], f # g, Holds(f, u, n)
            PROVE  FindsFor(w, u, n)'
        BY <3>1, <4>3 DEF FindsFor, Holds
      <4>4. CASE Holds(g, u, n)
        <5>1. Recent(disk[g].vars[u], n) /\ disk[g].vars[u] \in Value
          BY <1>1, <3>4, <4>4, NoVarsIsMap, AllAreValues DEF Holds, Recent
        <5>2. disk[g].ver # 0
          BY <1>1, <5>1, NoVarsIsMap, ZenonT(60) DEF Engaged, Recent
        <5>3. CASE known[w][g] = disk[g].ver
          <6>1. Covers(mem[w][u], disk[g].vars[u])
            BY <5>3 DEF Kept, HasRead
          <6>2. Recent(mem[w][u], n)
            BY <1>1, <5>1, <6>1, AllAreValues, RecentIsCovered
          <6> QED
            BY <1>1, <3>9, <6>2, AllAreValues, RecentIsCovered DEF FindsFor
        <5>4. CASE known[w][g] # disk[g].ver
          <6>1. Covers(mem'[w][u], disk[g].vars[u])
            BY <1>1, <2>3, <5>2, <5>4, ReadCovers
          <6> QED
            BY <3>9, <5>1, <6>1, RecentIsCovered DEF FindsFor
        <5> QED
          BY <5>3, <5>4
      <4> QED
        BY <3>8, <4>1, <4>2, <4>3, <4>4 DEF FindsFor
    <3>11. u = uid'[serves'[w]] /\ n = base'[w] - 1
      BY <3>1, <3>2, <3>6, <3>7
    <3> QED
      BY <3>10, <3>11 DEF Finds, FindsFor
  <2>4. CASE ~(\E c \in Clients : Get(c, w)) /\ ~(\E g \in Workers : ReadFile(w, g))
    <3>1. stage'[w] # "reading"
      <4>1. ASSUME NEW m, NEW next, OpenOwn(w, m, next), next \in {"idle", "gone"}
            PROVE  stage'[w] # "reading"
        BY <1>1, <4>1, OpenBegins DEF Unsaved, Begun
      <4>2. ASSUME NEW c \in Clients, Set(c, w)
            PROVE  stage'[w] # "reading"
        <5>1. \E m : OpenOwn(w, m, "idle")
          BY <4>2, Zenon DEF Set
        <5> QED
          BY <4>1, <5>1
      <4>3. CASE Stop(w)
        BY <4>1, <4>3 DEF Stop
      <4>4. CASE WritePart(w) \/ WriteRest(w) \/ Answer(w) \/ Crash(w) \/ Start(w) \/ Started(w)
        BY <1>1, <4>4 DEF WritePart, WriteRest, Answer, Crash, Start, Started, VarsTyped
      <4>5. \A g \in Workers : ~ReadMixed(w, g)
        BY DEF ReadMixed, Calm
      <4> QED
        BY <1>5, <2>4, <4>2, <4>3, <4>4, <4>5 DEF StepOf
    <3> QED
      BY <3>1
  <2> QED
    BY <2>2, <2>3, <2>4
<1> QED
  BY <1>4, <1>5, Steps

-----------------------------------------------------------------------------
(* The inductive invariant.                                                *)
LEMMA VarsInitially ==
  ASSUME VarsInit
  PROVE  VarsInv
<1> USE VarsAssumption
<1>1. VarsTyped
  <2>1. [f \in Workers |-> 0] \in Versions
    BY DEF Versions
  <2>2. now \in 0 .. LastTime /\ changes \in 0 .. Changes /\ stops \in 0 .. Stops
    BY DEF VarsInit
  <2>3. mem \in [Workers -> Values] /\ saving \in [Workers -> Values] /\ disk \in [Workers -> Contents]
    BY NoVarsIsMap DEF VarsInit
  <2>4. known \in [Workers -> Versions]
    BY <2>1 DEF VarsInit
  <2> QED
    BY <2>2, <2>3, <2>4, NotBegunIs DEF VarsInit, VarsTyped, BegunTyped, Stages
<1>2. Counted
  BY NoVarsIsMap DEF VarsInit, Counted, Within
<1>3. AllOwned
  BY NoVarsIsMap DEF VarsInit, AllOwned, Owned, OwnedBy
<1>4. \A w \in Workers : Engaged(w)
  BY NoVarsIsMap DEF VarsInit, Engaged, Writing
<1>5. \A w \in Workers : KnowsOwn(w) /\ Finds(w)
  BY NoVarsIsMap DEF VarsInit, KnowsOwn, Finds
<1>6. \A w, f \in Workers : HasRead(w, f)
  BY NoVarsIsMap DEF VarsInit, HasRead, Writing, Covers
<1>7. StaysSaved
  BY DEF VarsInit, StaysSaved
<1>8. BegunCounted /\ BegunOwned
  BY NoVarsIsMap DEF VarsInit, BegunCounted, BegunOwned, Owned, OwnedBy, NotBegun
<1> QED
  BY <1>1, <1>2, <1>3, <1>4, <1>5, <1>6, <1>7, <1>8 DEF VarsInv

LEMMA VarsStep ==
  ASSUME VarsInv, [VarsNext]_allVars
  PROVE  VarsInv'
<1>1. /\ VarsTyped' /\ Counted' /\ AllOwned' /\ BegunCounted' /\ BegunOwned'
      /\ \A w \in Workers : Engaged(w)'
  BY TypedStep, CountedStep, OwnedStep, BegunStep, BusyStep DEF VarsInv
<1>2. ASSUME Calm'
      PROVE  /\ \A w \in Workers : KnowsOwn(w)' /\ Finds(w)'
             /\ \A w, f \in Workers : HasRead(w, f)'
             /\ \A u \in Uids : Saved(u)'
  <2>1. Kept /\ (\A x \in Workers : Finds(x)) /\ \A u \in Uids : Saved(u)
    BY <1>2, Onward, SavedAsStated DEF VarsInv, Kept
  <2> QED
    BY <1>2, <2>1, KnownStep, FindsStep, SavedStep
<1>3. StaysSaved'
  <2> SUFFICES ASSUME Calm', NEW u \in Uids, last'[u] > 0, now' - (last'[u] - 1) <= Life
               PROVE  \E w \in Workers : \E v \in {disk'[w].vars[u], saving'[w][u]} :
                        v # NoVar /\ v.at >= last'[u] - 1
    BY DEF StaysSaved, Calm
  <2>1. Saved(u)'
    BY <1>2
  <2>2. now' \in Nat /\ last'[u] \in Nat
    BY <1>1, VarsAssumption DEF VarsTyped
  <2>3. ~(now' - (last'[u] - 1) > Life)
    BY <2>2, VarsAssumption
  <2> QED
    BY <2>1, <2>3 DEF Saved, Expired, Holds, Recent
<1> QED
  BY <1>1, <1>2, <1>3 DEF VarsInv

(* The worker that is about to answer has found what it should.            *)
LEMMA VarsFound ==
  ASSUME VarsInv
  PROVE  GetsLatest
<1>1. VarsTyped /\ Counted /\ AllOwned /\ \A w \in Workers : Engaged(w)
  BY DEF VarsInv
<1>2. VarsTypeOK
  <2>1. \A w, f \in Workers : known[w][f] \in Nat
    BY <1>1 DEF VarsTyped, Versions
  <2>2. \A w, f \in Workers : known[w][f] <= changes + stops
    BY <1>1 DEF Counted, Within
  <2>3. changes + stops \in Nat /\ changes + stops <= Changes + Stops /\ Changes + Stops \in Nat
    BY <1>1, VarsAssumption DEF VarsTyped
  <2>4. \A w, f \in Workers : known[w][f] \in 0 .. Changes + Stops
    BY <2>1, <2>2, <2>3
  <2> QED
    BY <1>1, <2>4 DEF VarsTypeOK, VarsTyped, Stages
<1>3. ASSUME NEW w \in Workers, Answering(w), base[w] > 0, ~torn, ~broken
      PROVE  LET c == serves[w]
                 answer == mem[w][uid[c]]
             IN \/ now - (base[w] - 1) > Life
                \/ answer # NoVar /\ answer.at >= base[w] - 1 /\ uid[answer.by] = uid[c]
  <2>1. serves[w] \in Clients /\ uid[serves[w]] \in Uids
    <3>1. serves[w] \in Clients /\ uid[serves[w]] # NoUid
      BY <1>1, <1>3 DEF Engaged, Answering
    <3> QED
      BY <1>1, <3>1 DEF VarsTyped
  <2>2. Expired(base[w] - 1) \/ Recent(mem[w][uid[serves[w]]], base[w] - 1)
    BY <1>3 DEF VarsInv, Calm, Finds, Answering
  <2>3. mem[w][uid[serves[w]]] # NoVar => uid[mem[w][uid[serves[w]]].by] = uid[serves[w]]
    BY <1>1, <2>1 DEF AllOwned, Owned, OwnedBy
  <2> QED
    BY <2>2, <2>3 DEF Expired, Recent
<1> QED
  BY <1>2, <1>3 DEF GetsLatest

(* What the workers know, and what the files hold, is as VarsInv says.     *)
THEOREM VarsInvariant == VarsSpec => []VarsInv
BY VarsInitially, VarsStep, PTL DEF VarsSpec

(* A request finds its session's last variable that had been saved, at     *)
(* whichever worker and after any restarts, unless it has expired.         *)
THEOREM AlwaysGetsLatest == VarsSpec => []GetsLatest
BY VarsInvariant, VarsFound, PTL

(* What has been saved is not lost before it expires.                      *)
THEOREM AlwaysStaysSaved == VarsSpec => []StaysSaved
<1>1. VarsInv => StaysSaved
  BY DEF VarsInv
<1> QED
  BY <1>1, VarsInvariant, PTL
=============================================================================
