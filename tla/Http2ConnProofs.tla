-------------------------- MODULE Http2ConnProofs --------------------------
(***************************************************************************)
(* Proofs about Http2Conn for any streams, frames, windows and bodies: no  *)
(* stream is sent more than its window, END_STREAM follows a whole body,   *)
(* and what the table says of the ends of a stream is so.                  *)
(***************************************************************************)
EXTENDS Http2Conn, SequenceTheorems, FiniteSetsExt, FiniteSetTheorems,
        WellFoundedInduction, TLAPS

(* A stream: it is never sent more than it was granted, it is not ended    *)
(* short, and one that was promised has left the idle state.               *)
Sound(r) ==
  /\ r.win + r.sent <= r.granted
  /\ r.ended # "short"
  /\ r.promise => r.state # "idle"
Sounds == {r \in StreamType : Sound(r)}

Refs == Objs \cup {None}

(* A table of streams, with what the steps of a frame make of it.          *)
Tables == [list : [Ids -> Refs], obj : [Objs -> Sounds], made : 0 .. MaxFrames + Pushes]
TableOK(t) ==
  /\ t \in Tables
  /\ \A i \in Ids : t.list[i] <= t.made
  /\ \A i, j \in Ids : t.list[i] = t.list[j] /\ t.list[i] # None => i = j

(* The ends of a stream, of which the client has seen c.                   *)
Ends(r, c, left) ==
  /\ r.state \in {"half_closed_local", "closed"} => r.ended # "no" \/ left
  /\ r.state \in {"half_closed_remote", "closed"} => c = "done"

EndsOK(t, c, left) ==
  \A i \in Ids : t.list[i] # None => Ends(t.obj[t.list[i]], c[i], left)

(* A response under way: its object exists, has left the idle state and is *)
(* at most one stream's, whose request the client has sent.                *)
Active(a, t, c, left) ==
  /\ a.o <= t.made /\ t.obj[a.o].state # "idle"
  /\ a.s \in Streams => c[a.s] # "idle"
  /\ a.pc = "end" => a.left = 0 \/ left
  /\ \A i \in Ids : t.list[i] = a.o => i = a.s /\ (a.fin => c[i] = "done")

ActiveOK(st, t, c, left) ==
  st \in Seq(Activation) /\ \A k \in DOMAIN st : Active(st[k], t, c, left)

(* A header block that is not complete is that of a stream in the table,   *)
(* to which nothing is answered yet.                                       *)
Half(h, t, st) ==
  h # None =>
    /\ h \in Streams /\ t.list[h] # None
    /\ \A k \in DOMAIN st : st[k].s # h

(* How many objects can have been made: one for each frame, and those of   *)
(* the promises.                                                           *)
Even == {i \in Ids : i % 2 = 0}
Spent(f, p) == f + IF p = "none" THEN 0 ELSE Pushes
Unpromised(t, c, p) ==
  p = "none" => \A i \in Even : t.list[i] = None /\ c[i] = "idle"

(* The other variables.                                                    *)
Settings == [window : InitWindows \cup {Window},
             limit : Limits \cup {Limit}, push : BOOLEAN]
Clients == [Ids -> {"idle", "open", "done", "reset"}]
Surroundings ==
  /\ setting \in Settings
  /\ now \in 0 .. MaxTime /\ gone \in BOOLEAN
  /\ upload \in [Ids -> 0 .. PostBody]
  /\ header \in Ids \cup {None}
  /\ frames \in 0 .. MaxFrames
Pushing == pushed \in {"none", "requested", "answered"}

Fits(t, c, left, st) == TableOK(t) /\ EndsOK(t, c, left) /\ ActiveOK(st, t, c, left)

ConnInv ==
  /\ conn \in {"open", "closed", "dangling", "stuck"}
  /\ Surroundings /\ Pushing /\ client \in Clients
  /\ Fits(Table, client, gone, stack)
  /\ Half(header, Table, stack)
  /\ Unpromised(Table, client, pushed) /\ made <= Spent(frames, pushed)

-----------------------------------------------------------------------------
(* Every set of natural numbers that is not empty has a least element.     *)
LEMMA LeastNatural ==
  ASSUME NEW S \in SUBSET Nat, S # {}
  PROVE  \E m \in S : \A n \in S : m <= n
<1>1. PICK m \in S : \A n \in S : ~ (<<n, m>> \in OpToRel(<, Nat))
  BY NatLessThanWellFounded, WFMin
<1>2. \A n \in S : ~(n < m)
  BY <1>1 DEF OpToRel
<1> QED  BY <1>2

(* What holds of a subset of a finite set whenever it holds of all smaller *)
(* ones, holds of the set.                                                 *)
LEMMA SubsetInduction ==
  ASSUME NEW S, IsFiniteSet(S), NEW T,
         \A U \in SUBSET S :
           (\A V \in SUBSET U : V # U => V \in T) => U \in T
  PROVE  S \in T
<1> DEFINE Bad == {U \in SUBSET S : U \notin T}
<1> SUFFICES ASSUME S \notin T  PROVE FALSE
  OBVIOUS
<1>1. Bad # {}
  OBVIOUS
<1>2. Bad \subseteq FiniteSubsetsOf(S)
  BY FS_Subset DEF FiniteSubsetsOf
<1>3. PICK U \in Bad : \A V \in Bad : ~ (<<V, U>> \in StrictSubsetOrdering(S))
  <2> HIDE DEF Bad
  <2> QED  BY <1>1, <1>2, FS_StrictSubsetOrderingWellFounded, WFMin
<1>4. \A V \in SUBSET U : V # U => V \in T
  BY <1>3 DEF StrictSubsetOrdering
<1> QED  BY <1>3, <1>4

(* Numbers.                                                                *)

(* A finite set of numbers that is not empty has a greatest one.           *)
LEMMA GreatestNatural ==
  ASSUME NEW S \in SUBSET Nat, IsFiniteSet(S), S # {}
  PROVE  \E n \in S : \A m \in S : m <= n
<1> DEFINE T == {U \in SUBSET S : U = {} \/ \E n \in U : \A m \in U : m <= n}
<1>1. ASSUME NEW U \in SUBSET S, \A V \in SUBSET U : V # U => V \in T
      PROVE  U \in T
  <2>1. CASE U = {}
    BY <2>1
  <2>2. CASE U # {}
    <3>1. PICK x \in U : TRUE
      BY <2>2
    <3>2. U \ {x} \in T
      BY <1>1, <3>1
    <3>3. CASE U \ {x} = {}
      <4>1. \A m \in U : m = x
        BY <3>3
      <4> QED
        BY <3>1, <4>1
    <3>4. CASE U \ {x} # {}
      <4>1. PICK n \in U \ {x} : \A m \in U \ {x} : m <= n
        BY <3>2, <3>4
      <4>2. n \in Nat /\ x \in Nat
        BY <3>1, <4>1
      <4>3. CASE x <= n
        BY <4>1, <4>3
      <4>4. CASE ~(x <= n)
        <5>1. \A m \in U : m <= x
          BY <4>1, <4>2, <4>4
        <5> QED
          BY <3>1, <5>1
      <4> QED
        BY <4>3, <4>4
    <3> QED
      BY <3>3, <3>4
  <2> QED
    BY <2>1, <2>2
<1>2. S \in T
  <2> HIDE DEF T
  <2> QED
    BY <1>1, SubsetInduction
<1> QED
  BY <1>2

(* There is room for all promises behind every stream of the client.       *)
LEMMA Identifiers ==
  /\ LastId \in Nat
  /\ Streams \subseteq Ids /\ Ids \subseteq Nat \ {0}
  /\ \A i \in Streams : i % 2 = 1 /\ i + 2 * Pushes <= LastId
<1>1. Streams \subseteq Nat /\ Streams # {} /\ IsFiniteSet(Streams) /\ Pushes \in Nat
      /\ \A i \in Streams : i % 2 = 1
  BY Http2Assumption
<1>2. \E n \in Streams : \A m \in Streams : m <= n
  BY <1>1, GreatestNatural
<1> DEFINE top == CHOOSE n \in Streams : \A m \in Streams : m <= n
<1>3. top \in Streams /\ \A m \in Streams : m <= top
  BY <1>2
<1>4. LastId = top + 2 * Pushes
  BY DEF LastId
<1> HIDE DEF top
<1>5. LastId \in Nat /\ \A i \in Streams : i <= LastId /\ i + 2 * Pushes <= LastId
  BY <1>1, <1>3, <1>4
<1>6. \A i \in Streams : i \in Nat /\ i # 0
  BY <1>1
<1> QED
  BY <1>1, <1>5, <1>6 DEF Ids

(* What holds of 0 and of the successor of each number holds up to N.      *)
LEMMA Upto ==
  ASSUME NEW N \in Nat, NEW T, 0 \in T, \A k \in 1 .. N : k - 1 \in T => k \in T
  PROVE  \A k \in 0 .. N : k \in T
<1> DEFINE Bad == {k \in 0 .. N : k \notin T}
<1> SUFFICES ASSUME Bad # {} PROVE FALSE
  OBVIOUS
<1>1. Bad \in SUBSET Nat
  OBVIOUS
<1>2. PICK n \in Bad : \A m \in Bad : n <= m
  BY <1>1, LeastNatural
<1>3. n # 0 /\ n \in 0 .. N
  BY <1>2
<1>4. n - 1 \in 0 .. N /\ ~(n <= n - 1) /\ n \in 1 .. N
  BY <1>3
<1>5. n - 1 \in T
  BY <1>2, <1>4
<1> QED
  BY <1>2, <1>4, <1>5

(* Functions whose values are made one from the other.                     *)
Steps(N, S) == [1 .. N -> [S -> S]]
Iterates(g, N, base, step) ==
  \A k \in 0 .. N : g[k] = IF k = 0 THEN base ELSE step[k][g[k - 1]]

(* There is one for any way of making them.                                *)
LEMMA Iterated ==
  ASSUME NEW N \in Nat, NEW S, NEW base \in S, NEW step \in Steps(N, S)
  PROVE  \E g \in [0 .. N -> S] : Iterates(g, N, base, step)
<1> USE DEF Steps
<1> DEFINE Is(g, n) == g = [k \in 0 .. n |-> IF k = 0 THEN base ELSE step[k][g[k - 1]]]
           T == {n \in 0 .. N : \E g \in [0 .. n -> S] : Is(g, n)}
<1>1. 0 \in T
  <2> DEFINE g == [k \in 0 .. 0 |-> base]
  <2>1. g \in [0 .. 0 -> S] /\ Is(g, 0)
    OBVIOUS
  <2>2. 0 \in 0 .. N
    OBVIOUS
  <2> HIDE DEF Is, g
  <2> QED
    BY <2>1, <2>2
<1>2. ASSUME NEW n \in 1 .. N, n - 1 \in T
      PROVE  n \in T
  <2>1. PICK h \in [0 .. n - 1 -> S] : Is(h, n - 1)
    BY <1>2
  <2> DEFINE g == [k \in 0 .. n |-> IF k = n THEN step[n][h[n - 1]] ELSE h[k]]
  <2>2. n - 1 \in 0 .. n - 1 /\ n \in 1 .. N
    OBVIOUS
  <2>3. step[n][h[n - 1]] \in S
    BY <2>1, <2>2
  <2>4. \A k \in 0 .. n : k # n => k \in 0 .. n - 1
    OBVIOUS
  <2>5. g \in [0 .. n -> S]
    BY <2>1, <2>3, <2>4
  <2>6. ASSUME NEW k \in 0 .. n
        PROVE  g[k] = IF k = 0 THEN base ELSE step[k][g[k - 1]]
    <3>1. CASE k = n
      <4>1. n - 1 \in 0 .. n /\ n - 1 # n /\ k # 0
        BY <3>1
      <4>2. g[n - 1] = h[n - 1]
        BY <4>1
      <4> QED
        BY <3>1, <4>1, <4>2
    <3>2. CASE k # n
      <4>1. k \in 0 .. n - 1 /\ g[k] = h[k]
        BY <2>4, <3>2
      <4>2. h[k] = IF k = 0 THEN base ELSE step[k][h[k - 1]]
        BY <2>1, <4>1
      <4>3. k # 0 => k - 1 \in 0 .. n /\ k - 1 # n
        BY <4>1
      <4> QED
        BY <4>1, <4>2, <4>3
    <3> QED
      BY <3>1, <3>2
  <2>7. Is(g, n)
    <3>1. g = [k \in 0 .. n |-> g[k]]
      OBVIOUS
    <3> HIDE DEF g
    <3> QED
      BY <2>6, <3>1
  <2> HIDE DEF Is, g
  <2> QED
    BY <2>5, <2>7
<1>4. N \in T
  <2>1. \A k \in 1 .. N : k - 1 \in T => k \in T
    <3> HIDE DEF T
    <3> QED
      BY <1>2
  <2>2. N \in 0 .. N
    OBVIOUS
  <2> HIDE DEF T
  <2>3. \A k \in 0 .. N : k \in T
    BY <1>1, <2>1, Upto
  <2> QED
    BY <2>2, <2>3
<1>5. PICK g \in [0 .. N -> S] : Is(g, N)
  <2> HIDE DEF Is
  <2> QED
    BY <1>4
<1>6. Iterates(g, N, base, step)
  BY <1>5 DEF Iterates
<1> QED
  BY <1>6

-----------------------------------------------------------------------------
(* Streams.                                                                *)

(* A stream in another state.                                              *)
LEMMA StateSet ==
  ASSUME NEW r \in Sounds, NEW s \in StreamStates, s # "idle"
  PROVE  /\ [r EXCEPT !.state = s] \in Sounds
         /\ [r EXCEPT !.state = s].state = s
         /\ [r EXCEPT !.state = s].ended = r.ended
BY DEF Sounds, Sound, StreamType

(* A stream that is made.                                                  *)
LEMMA NewSound ==
  ASSUME Surroundings
  PROVE  NewStream \in Sounds /\ NewStream.state = "idle" /\ NewStream.ended = "no"
<1>1. setting.window \in Nat
  BY Http2Assumption DEF Surroundings, Settings
<1>2. NewStream \in StreamType
  BY <1>1 DEF NewStream, StreamType, StreamStates, Methods, Surroundings
<1> QED
  BY <1>1, <1>2 DEF NewStream, Sounds, Sound

(* END_STREAM leads to states there are.                                   *)
LEMMA EndStates ==
  \A s \in StreamStates : /\ EndReceived(s) \in {"half_closed_remote", "closed"}
                          /\ EndSent(s) \in {"half_closed_local", "closed"}
                          /\ EndReceived(s) = "closed" => s = "half_closed_local"
                          /\ EndSent(s) = "closed" => s = "half_closed_remote"
BY DEF EndReceived, EndSent, StreamStates

-----------------------------------------------------------------------------
(* Tables.                                                                 *)

Replace(t, o, r) == [t EXCEPT !.obj[o] = r]

(* A table with another value for one of its objects.                      *)
LEMMA Replaced ==
  ASSUME NEW t \in Tables, NEW o \in Objs, NEW r \in Sounds
  PROVE  /\ Replace(t, o, r) \in Tables
         /\ Replace(t, o, r).list = t.list /\ Replace(t, o, r).made = t.made
         /\ Replace(t, o, r).obj = [t.obj EXCEPT ![o] = r]
<1>1. Replace(t, o, r) = [list |-> t.list, obj |-> [t.obj EXCEPT ![o] = r], made |-> t.made]
  BY DEF Replace, Tables
<1>2. [t.obj EXCEPT ![o] = r] \in [Objs -> Sounds]
  BY DEF Tables
<1> QED
  BY <1>1, <1>2 DEF Tables

(* A step of one object disturbs no other.                                 *)
LEMMA ReplacedFits ==
  ASSUME NEW t, NEW c, NEW left, NEW st, Fits(t, c, left, st),
         NEW o \in Objs, NEW r \in Sounds,
         r.state = "idle" => t.obj[o].state = "idle",
         \A i \in Ids : t.list[i] = o => Ends(r, c[i], left)
  PROVE  /\ Fits(Replace(t, o, r), c, left, st)
         /\ Replace(t, o, r).list = t.list /\ Replace(t, o, r).made = t.made
         /\ Replace(t, o, r).obj = [t.obj EXCEPT ![o] = r]
<1> DEFINE u == Replace(t, o, r)
<1>1. t \in Tables /\ TableOK(t) /\ EndsOK(t, c, left) /\ ActiveOK(st, t, c, left)
  BY DEF Fits, TableOK
<1>2. /\ u \in Tables /\ u.list = t.list /\ u.made = t.made
      /\ u.obj = [t.obj EXCEPT ![o] = r]
  BY <1>1, Replaced
<1>3. t.obj \in [Objs -> Sounds] /\ t.list \in [Ids -> Refs]
  BY <1>1 DEF Tables
<1>4. u.obj[o] = r /\ \A x \in Objs : x # o => u.obj[x] = t.obj[x]
  BY <1>2, <1>3
<1> HIDE DEF u
<1>5. TableOK(u)
  BY <1>1, <1>2 DEF TableOK
<1>6. EndsOK(u, c, left)
  <2> SUFFICES ASSUME NEW j \in Ids, t.list[j] # None
               PROVE  Ends(u.obj[t.list[j]], c[j], left)
    BY <1>2 DEF EndsOK
  <2>1. CASE t.list[j] = o
    BY <1>4, <2>1
  <2>2. CASE t.list[j] # o
    <3>1. t.list[j] \in Objs
      BY <1>3 DEF Refs
    <3> QED
      BY <1>1, <1>4, <2>2, <3>1 DEF EndsOK
  <2> QED
    BY <2>1, <2>2
<1>7. ActiveOK(st, u, c, left)
  <2> SUFFICES ASSUME NEW k \in DOMAIN st, st \in Seq(Activation)
               PROVE  Active(st[k], u, c, left)
    BY <1>1 DEF ActiveOK
  <2>1. Active(st[k], t, c, left)
    BY <1>1 DEF ActiveOK
  <2>2. st[k].o \in Objs
    <3>1. st[k] \in Activation
      BY ElementOfSeq
    <3> QED
      BY <3>1 DEF Activation
  <2>3. u.obj[st[k].o].state # "idle"
    BY <1>4, <2>1, <2>2 DEF Active
  <2> QED
    BY <1>2, <2>1, <2>3 DEF Active
<1> QED
  BY <1>2, <1>5, <1>6, <1>7 DEF Fits, u

(* A stream that is taken out of the table is not missed.                  *)
LEMMA DroppedFits ==
  ASSUME NEW t, NEW c, NEW left, NEW st, Fits(t, c, left, st),
         NEW i \in Ids, t.list[i] # None, NEW r \in Sounds, r.state # "idle",
         NEW u, u = [list |-> [t.list EXCEPT ![i] = None],
                     obj |-> [t.obj EXCEPT ![t.list[i]] = r], made |-> t.made]
  PROVE  Fits(u, c, left, st)
<1> DEFINE o == t.list[i]
<1>1. t \in Tables /\ TableOK(t) /\ EndsOK(t, c, left) /\ ActiveOK(st, t, c, left)
  BY DEF Fits, TableOK
<1>2. o \in Objs /\ t.obj \in [Objs -> Sounds] /\ t.list \in [Ids -> Refs]
  BY <1>1 DEF Tables, Refs
<1>5. [t.list EXCEPT ![i] = None] \in [Ids -> Refs] /\ [t.obj EXCEPT ![o] = r] \in [Objs -> Sounds]
  BY <1>2 DEF Refs
<1>6. /\ u \in Tables /\ u.list = [t.list EXCEPT ![i] = None] /\ u.made = t.made
      /\ u.obj[o] = r /\ \A x \in Objs : x # o => u.obj[x] = t.obj[x]
  BY <1>1, <1>2, <1>5 DEF Tables
<1> HIDE DEF o
<1>7. u.list[i] = None /\ \A j \in Ids : j # i => u.list[j] = t.list[j]
  BY <1>2, <1>6
<1>8. TableOK(u)
  <2>1. None <= u.made
    BY <1>6 DEF None, Tables
  <2> QED
    BY <1>1, <1>6, <1>7, <2>1 DEF TableOK
<1>9. EndsOK(u, c, left)
  <2> SUFFICES ASSUME NEW j \in Ids, u.list[j] # None
               PROVE  Ends(u.obj[u.list[j]], c[j], left)
    BY DEF EndsOK
  <2>1. j # i /\ u.list[j] = t.list[j]
    BY <1>7
  <2>2. t.list[j] # o /\ t.list[j] \in Objs
    BY <1>1, <1>2, <2>1 DEF TableOK, Refs, o
  <2> QED
    BY <1>1, <1>6, <2>1, <2>2 DEF EndsOK
<1>10. ActiveOK(st, u, c, left)
  <2> SUFFICES ASSUME NEW k \in DOMAIN st, st \in Seq(Activation)
               PROVE  Active(st[k], u, c, left)
    BY <1>1 DEF ActiveOK
  <2>1. Active(st[k], t, c, left)
    BY <1>1 DEF ActiveOK
  <2>2. st[k].o \in Objs
    <3>1. st[k] \in Activation
      BY ElementOfSeq
    <3> QED
      BY <3>1 DEF Activation
  <2>3. u.obj[st[k].o].state # "idle"
    BY <1>6, <2>1, <2>2 DEF Active
  <2>4. \A j \in Ids : u.list[j] = st[k].o => t.list[j] = st[k].o
    <3>1. st[k].o # None
      BY <2>2 DEF Objs, None
    <3> QED
      BY <1>7, <3>1
  <2> QED
    BY <1>6, <2>1, <2>3, <2>4 DEF Active
<1> QED
  BY <1>8, <1>9, <1>10 DEF Fits

(* RST_STREAM to the victim: no other stream is disturbed.                 *)
LEMMA EvictFits ==
  ASSUME NEW t, NEW c, NEW left, NEW st, Fits(t, c, left, st),
         NEW i \in Ids, t.list[i] # None
  PROVE  /\ Fits(Evict(t, i), c, left, st)
         /\ Evict(t, i).list = [t.list EXCEPT ![i] = None] /\ Evict(t, i).made = t.made
<1> DEFINE o == t.list[i]
           r == [t.obj[o] EXCEPT !.state = "closed", !.live = FALSE]
           closed == [t EXCEPT !.obj[o].state = "closed"]
           dead == [closed EXCEPT !.obj[o].live = FALSE]
           u == Evict(t, i)
<1>1. t \in Tables
  BY DEF Fits, TableOK
<1>2. o \in Objs /\ t.obj \in [Objs -> Sounds] /\ t.obj[o] \in Sounds
  BY <1>1 DEF Tables, Refs
<1>3. r \in Sounds /\ r.state = "closed"
  BY <1>2 DEF Sounds, Sound, StreamType, StreamStates
<1>4. closed = [list |-> t.list, obj |-> [t.obj EXCEPT ![o].state = "closed"], made |-> t.made]
  BY <1>1 DEF Tables
<1>5. closed.obj[o] = [t.obj[o] EXCEPT !.state = "closed"]
  BY <1>2, <1>4
<1> HIDE DEF closed
<1>6. dead = [list |-> t.list, obj |-> [closed.obj EXCEPT ![o].live = FALSE], made |-> t.made]
  BY <1>4
<1>7. [closed.obj EXCEPT ![o].live = FALSE] = [t.obj EXCEPT ![o] = r]
  BY <1>2, <1>4
<1>8. u = [dead EXCEPT !.list[i] = None]
  BY DEF Evict, closed
<1> HIDE DEF dead
<1>9. u = [list |-> [t.list EXCEPT ![i] = None], obj |-> [t.obj EXCEPT ![o] = r],
           made |-> t.made]
  BY <1>6, <1>7, <1>8
<1> HIDE DEF r, u
<1>10. Fits(u, c, left, st)
  BY <1>3, <1>9, DroppedFits
<1> QED
  BY <1>9, <1>10 DEF u

(* A new stream: its object is nobody else's.                              *)
LEMMA CreateFits ==
  ASSUME Surroundings, NEW t, NEW c, NEW left, NEW st, Fits(t, c, left, st),
         NEW i \in Ids, t.list[i] = None, t.made < MaxFrames + Pushes
  PROVE  /\ Fits(Create(t, i), c, left, st)
         /\ Create(t, i).list = [t.list EXCEPT ![i] = t.made + 1]
         /\ Create(t, i).made = t.made + 1
         /\ Create(t, i).obj = [t.obj EXCEPT ![t.made + 1] = NewStream]
<1> DEFINE o == t.made + 1
           u == Create(t, i)
<1>1. t \in Tables /\ TableOK(t) /\ EndsOK(t, c, left) /\ ActiveOK(st, t, c, left)
  BY DEF Fits, TableOK
<1>2. t.obj \in [Objs -> Sounds] /\ t.list \in [Ids -> Refs] /\ t.made \in Nat
      /\ o \in 0 .. MaxFrames + Pushes /\ o \in Objs
  BY <1>1, Http2Assumption DEF Tables, Objs
<1>3. NewStream \in Sounds /\ NewStream.state = "idle" /\ NewStream.ended = "no"
  BY NewSound
<1>4. /\ u.list = [t.list EXCEPT ![i] = o] /\ u.made = o
      /\ u.obj = [t.obj EXCEPT ![o] = NewStream]
      /\ u = [list |-> u.list, obj |-> u.obj, made |-> u.made]
  BY DEF Create
<1>5. u \in Tables
  <2>1. u.list \in [Ids -> Refs] /\ u.obj \in [Objs -> Sounds]
    BY <1>2, <1>3, <1>4 DEF Refs
  <2> HIDE DEF u, o
  <2> QED
    BY <1>2, <1>4, <2>1 DEF Tables
<1>6. /\ u.list[i] = o /\ \A j \in Ids : j # i => u.list[j] = t.list[j]
      /\ u.obj[o] = NewStream /\ \A x \in Objs : x # o => u.obj[x] = t.obj[x]
  BY <1>2, <1>4
<1> HIDE DEF u
<1>7. \A x \in Refs : x <= t.made => x # o /\ x <= o
  <2>1. Refs \subseteq Nat
    BY Http2Assumption DEF Refs, Objs, None
  <2> QED
    BY <1>2, <2>1
<1>8. \A j \in Ids : t.list[j] \in Refs /\ t.list[j] <= t.made
  BY <1>1, <1>2 DEF TableOK
<1> HIDE DEF o
<1>9. TableOK(u)
  <2>1. \A j \in Ids : u.list[j] <= u.made
    <3>1. o <= o
      BY <1>2
    <3> QED
      BY <1>4, <1>6, <1>7, <1>8, <3>1
  <2>2. ASSUME NEW j \in Ids, NEW m \in Ids, u.list[j] = u.list[m], u.list[j] # None
        PROVE  j = m
    BY <1>1, <1>6, <1>7, <1>8, <2>2 DEF TableOK
  <2> QED
    BY <1>5, <2>1, <2>2 DEF TableOK
<1>10. EndsOK(u, c, left)
  <2> SUFFICES ASSUME NEW j \in Ids, u.list[j] # None
               PROVE  Ends(u.obj[u.list[j]], c[j], left)
    BY DEF EndsOK
  <2>1. CASE j = i
    BY <1>3, <1>6, <2>1 DEF Ends
  <2>2. CASE j # i
    <3>1. u.list[j] = t.list[j] /\ t.list[j] \in Objs /\ t.list[j] # o
      BY <1>6, <1>7, <1>8, <2>2 DEF Refs
    <3> QED
      BY <1>1, <1>6, <3>1 DEF EndsOK
  <2> QED
    BY <2>1, <2>2
<1>11. ActiveOK(st, u, c, left)
  <2> SUFFICES ASSUME NEW k \in DOMAIN st, st \in Seq(Activation)
               PROVE  Active(st[k], u, c, left)
    BY <1>1 DEF ActiveOK
  <2>1. Active(st[k], t, c, left)
    BY <1>1 DEF ActiveOK
  <2>2. st[k].o \in Objs
    <3>1. st[k] \in Activation
      BY ElementOfSeq
    <3> QED
      BY <3>1 DEF Activation
  <2>3. st[k].o # o /\ st[k].o <= o
    BY <1>7, <2>1, <2>2 DEF Active, Refs
  <2>4. u.obj[st[k].o] = t.obj[st[k].o]
    BY <1>6, <2>2, <2>3
  <2>5. \A j \in Ids : u.list[j] = st[k].o => t.list[j] = st[k].o
    BY <1>6, <2>3
  <2> QED
    BY <1>4, <2>1, <2>3, <2>4, <2>5 DEF Active
<1> QED
  BY <1>2, <1>4, <1>9, <1>10, <1>11 DEF Fits, u, o

(* The walk over the table finds one of its entries.                       *)
LEMMA OldestIsEntry ==
  ASSUME NEW t, Entries(t) # {}
  PROVE  Oldest(t) \in Ids /\ t.list[Oldest(t)] # None
<1> DEFINE cond(i, v) == t.list[i] # None
                          /\ \/ v = None
                             \/ t.obj[t.list[i]].state = "closed"
                             \/ t.obj[t.list[v]].used > t.obj[t.list[i]].used
           F(h, i) == IF i = 0 THEN None ELSE IF cond(i, h[i - 1]) THEN i ELSE h[i - 1]
           f == CHOOSE h : h = [i \in 0 .. LastId |-> F(h, i)]
           step == [i \in 1 .. LastId |->
                      [v \in 0 .. LastId |-> IF cond(i, v) THEN i ELSE v]]
<1>1. Oldest(t) = f[LastId]
  BY DEF Oldest
<1>2. LastId \in Nat
  BY Identifiers
<1>3. f = [i \in 0 .. LastId |-> F(f, i)]
  <2>1. step \in [1 .. LastId -> [0 .. LastId -> 0 .. LastId]]
    BY <1>2
  <2>2. 0 \in 0 .. LastId
    BY <1>2
  <2>3. PICK g \in [0 .. LastId -> 0 .. LastId] :
          \A k \in 0 .. LastId : g[k] = IF k = 0 THEN 0 ELSE step[k][g[k - 1]]
    <3> DEFINE V == 0 .. LastId
    <3>1. step \in Steps(LastId, V)
      BY <2>1 DEF Steps
    <3>2. \E g \in [0 .. LastId -> V] : Iterates(g, LastId, 0, step)
      <4> HIDE DEF V, step
      <4> QED
        BY <1>2, <2>2, <3>1, Iterated DEF V
    <3> QED
      BY <3>2 DEF Iterates
  <2>4. ASSUME NEW k \in 0 .. LastId
        PROVE  g[k] = F(g, k)
    <3>1. CASE k = 0
      BY <2>3, <3>1 DEF None
    <3>2. CASE k # 0
      <4>1. k \in 1 .. LastId /\ k - 1 \in 0 .. LastId
        BY <1>2, <3>2
      <4>2. g[k - 1] \in 0 .. LastId
        BY <2>3, <4>1
      <4>3. g[k] = step[k][g[k - 1]]
        BY <2>3, <3>2
      <4>4. step[k][g[k - 1]] = IF cond(k, g[k - 1]) THEN k ELSE g[k - 1]
        <5> HIDE DEF cond
        <5> QED
          BY <4>1, <4>2
      <4> QED
        BY <3>2, <4>3, <4>4
    <3> QED
      BY <3>1, <3>2
  <2>5. g = [i \in 0 .. LastId |-> F(g, i)]
    <3>1. g = [i \in 0 .. LastId |-> g[i]]
      BY <2>3
    <3> HIDE DEF F
    <3> QED
      BY <2>4, <3>1
  <2> HIDE DEF F
  <2> QED
    BY <2>5
<1> HIDE DEF f
<1> DEFINE Good(k) == /\ f[k] \in 0 .. k
                      /\ f[k] # None => t.list[f[k]] # None
                      /\ f[k] = None => \A j \in 1 .. k : t.list[j] = None
           T == {k \in 0 .. LastId : Good(k)}
<1>4. Good(0)
  BY <1>2, <1>3 DEF None
<1>5. ASSUME NEW k \in 1 .. LastId, Good(k - 1)
      PROVE  Good(k)
  <2>1. f[k] = IF cond(k, f[k - 1]) THEN k ELSE f[k - 1]
    <3>1. k \in 0 .. LastId /\ k # 0
      BY <1>2
    <3> HIDE DEF cond
    <3> QED
      BY <1>3, <3>1
  <2>2. CASE cond(k, f[k - 1])
    <3>1. f[k] = k /\ k # None /\ k \in 0 .. k
      BY <2>1, <2>2 DEF None
    <3> QED
      BY <2>2, <3>1
  <2>3. CASE ~cond(k, f[k - 1])
    <3>1. f[k] = f[k - 1] /\ f[k] \in 0 .. k
      BY <1>5, <2>1, <2>3
    <3>2. f[k] # None => t.list[f[k]] # None
      BY <1>5, <3>1
    <3>3. ASSUME f[k] = None, NEW j \in 1 .. k
          PROVE  t.list[j] = None
      <4>1. CASE j = k
        BY <2>3, <3>1, <3>3, <4>1
      <4>2. CASE j # k
        <5>1. j \in 1 .. k - 1
          BY <4>2
        <5> QED
          BY <1>5, <3>1, <3>3, <5>1
      <4> QED
        BY <4>1, <4>2
    <3> QED
      BY <3>1, <3>2, <3>3
  <2> QED
    BY <2>2, <2>3
<1> HIDE DEF Good
<1>6. Good(LastId)
  <2>1. 0 \in T
    BY <1>2, <1>4
  <2>2. \A k \in 1 .. LastId : k - 1 \in T => k \in T
    BY <1>5
  <2> HIDE DEF T
  <2>3. LastId \in T
    BY <1>2, <2>1, <2>2, Upto
  <2> QED
    BY <2>3 DEF T
<1>7. f[LastId] # None
  <2>1. PICK i \in Ids : t.list[i] # None
    BY DEF Entries
  <2> QED
    BY <1>6, <2>1 DEF Good, Ids
<1> QED
  BY <1>1, <1>2, <1>6, <1>7 DEF Good, Ids, None

(* What a frame finds of its stream: one that was there, as it was, or a   *)
(* new one.                                                                *)
Admitted(a, i) ==
  /\ Fits(a, client, gone, stack) /\ a.list[i] # None
  /\ \A n \in Ids \ {i} : a.list[n] \in {list[n], None}
  /\ list[i] # None =>
       /\ a.list = list /\ a.made = made
       /\ a.obj[a.list[i]].state = obj[list[i]].state
  /\ list[i] = None =>
       /\ a.made = made + 1 /\ a.list[i] = made + 1
       /\ a.obj[a.list[i]].state = "idle"

(* Every frame finds its stream so.                                        *)
LEMMA AdmitFits ==
  ASSUME ConnInv, NEW i \in Ids, list[i] # None \/ made < MaxFrames + Pushes
  PROVE  Admitted(Admit(i), i)
<1> DEFINE room == IF Full(Table) THEN Evict(Table, Oldest(Table)) ELSE Table
           t == IF list[i] # None THEN Table ELSE Create(room, i)
           o == t.list[i]
           r == [t.obj[o] EXCEPT !.used = now]
<1>1. Surroundings /\ Fits(Table, client, gone, stack) /\ Table.list = list /\ Table.obj = obj
      /\ Table.made = made
  BY DEF ConnInv, Table
<1>2. /\ Fits(room, client, gone, stack) /\ room.made = made
      /\ \A n \in Ids : room.list[n] \in {list[n], None}
  <2>1. CASE Full(Table)
    <3>1. Entries(Table) # {}
      BY <2>1 DEF Full
    <3>2. Oldest(Table) \in Ids /\ Table.list[Oldest(Table)] # None
      BY <3>1, OldestIsEntry
    <3>3. /\ Fits(Evict(Table, Oldest(Table)), client, gone, stack)
          /\ Evict(Table, Oldest(Table)).list = [list EXCEPT ![Oldest(Table)] = None]
          /\ Evict(Table, Oldest(Table)).made = made
      BY <1>1, <3>2, EvictFits
    <3>4. list \in [Ids -> Refs]
      BY <1>1 DEF Fits, TableOK, Tables
    <3> QED
      BY <2>1, <3>3, <3>4
  <2>2. CASE ~Full(Table)
    BY <1>1, <2>2
  <2> QED
    BY <2>1, <2>2
<1> HIDE DEF room
<1>3. /\ Fits(t, client, gone, stack) /\ t.list[i] # None
      /\ \A n \in Ids \ {i} : t.list[n] \in {list[n], None}
      /\ list[i] # None => t = Table
      /\ list[i] = None => /\ t.made = made + 1 /\ t.list[i] = made + 1
                           /\ t.obj[t.list[i]] = NewStream
  <2>1. CASE list[i] # None
    BY <1>1, <2>1
  <2>2. CASE list[i] = None
    <3>1. room.list[i] = None /\ room.made < MaxFrames + Pushes
      BY <1>2, <2>2
    <3>2. /\ Fits(Create(room, i), client, gone, stack)
          /\ Create(room, i).list = [room.list EXCEPT ![i] = made + 1]
          /\ Create(room, i).made = made + 1
          /\ Create(room, i).obj = [room.obj EXCEPT ![made + 1] = NewStream]
      BY <1>1, <1>2, <3>1, CreateFits
    <3>3. room.list \in [Ids -> Refs] /\ room.obj \in [Objs -> Sounds]
      BY <1>2 DEF Fits, TableOK, Tables
    <3>4. made + 1 \in Objs /\ made + 1 # None
      <4>1. made \in 0 .. MaxFrames + Pushes
        BY <1>1 DEF Fits, TableOK, Tables
      <4> QED
        BY <2>2, <4>1, Http2Assumption DEF Objs, None
    <3>5. t = Create(room, i)
      BY <2>2
    <3> HIDE DEF t
    <3> QED
      BY <1>2, <2>2, <3>2, <3>3, <3>4, <3>5
  <2> QED
    BY <2>1, <2>2
<1>4. Admit(i) = [t EXCEPT !.obj[o].used = now]
  BY DEF Admit, room
<1> HIDE DEF t
<1>5. t \in Tables /\ o \in Objs /\ t.obj[o] \in Sounds
  BY <1>3 DEF Fits, TableOK, Tables, Refs
<1>6. r \in Sounds /\ r.state = t.obj[o].state /\ r.ended = t.obj[o].ended
  BY <1>1, <1>5 DEF Sounds, Sound, StreamType, Surroundings
<1>7. Admit(i) = Replace(t, o, r)
  BY <1>4, <1>5 DEF Replace, Tables
<1>8. Fits(Replace(t, o, r), client, gone, stack)
  <2>1. Ends(r, client[i], gone)
    BY <1>3, <1>6 DEF Fits, EndsOK, Ends
  <2>2. \A n \in Ids : t.list[n] = o => n = i
    BY <1>3 DEF Fits, TableOK
  <2> HIDE DEF r
  <2>3. \A n \in Ids : t.list[n] = o => Ends(r, client[n], gone)
    BY <2>1, <2>2
  <2>4. r.state = "idle" => t.obj[o].state = "idle"
    BY <1>6
  <2>5. o \in Objs /\ r \in Sounds /\ Fits(t, client, gone, stack)
    BY <1>3, <1>5, <1>6
  <2> HIDE DEF o
  <2> QED
    BY <2>3, <2>4, <2>5, ReplacedFits
<1> HIDE DEF r
<1>9. /\ Admit(i).list = t.list /\ Admit(i).made = t.made
      /\ Admit(i).obj[o] = r
  <2>1. t.obj \in [Objs -> Sounds]
    BY <1>5 DEF Tables
  <2>2. /\ Admit(i).list = t.list /\ Admit(i).made = t.made
        /\ Admit(i).obj = [t.obj EXCEPT ![o] = r]
    BY <1>5, <1>6, <1>7, Replaced
  <2> QED
    BY <1>5, <2>1, <2>2
<1> HIDE DEF o
<1> QED
  BY <1>1, <1>3, <1>6, <1>7, <1>8, <1>9, NewSound DEF Admitted, o

-----------------------------------------------------------------------------
(* Responses.                                                              *)

(* Another value for the innermost response, or none.                      *)
LEMMA TopReplaced ==
  ASSUME NEW t, NEW c, NEW left, NEW st, ActiveOK(st, t, c, left), st # <<>>,
         NEW a \in Activation, Active(a, t, c, left)
  PROVE  /\ ActiveOK([st EXCEPT ![Len(st)] = a], t, c, left)
         /\ DOMAIN [st EXCEPT ![Len(st)] = a] = DOMAIN st
         /\ Len(st) \in DOMAIN st /\ st[Len(st)] \in Activation
         /\ \A k \in DOMAIN st : [st EXCEPT ![Len(st)] = a][k]
                                   = IF k = Len(st) THEN a ELSE st[k]
<1>1. st \in Seq(Activation) /\ \A k \in DOMAIN st : Active(st[k], t, c, left)
  BY DEF ActiveOK
<1>2. Len(st) \in DOMAIN st /\ st[Len(st)] \in Activation
  BY <1>1
<1>3. [st EXCEPT ![Len(st)] = a] \in Seq(Activation)
  BY <1>1
<1>4. \A k \in DOMAIN st : [st EXCEPT ![Len(st)] = a][k] = IF k = Len(st) THEN a ELSE st[k]
  BY <1>1
<1>5. DOMAIN [st EXCEPT ![Len(st)] = a] = DOMAIN st
  OBVIOUS
<1> QED
  BY <1>1, <1>2, <1>3, <1>4, <1>5 DEF ActiveOK

(* The innermost response.                                                 *)
LEMMA TopActive ==
  ASSUME NEW t, NEW c, NEW left, ActiveOK(stack, t, c, left), Nested
  PROVE  /\ Len(stack) \in DOMAIN stack /\ Top = stack[Len(stack)]
         /\ Top \in Activation /\ Active(Top, t, c, left)
<1>1. stack \in Seq(Activation) /\ stack # <<>>
  BY DEF ActiveOK, Nested
<1>2. Len(stack) \in DOMAIN stack /\ stack[Len(stack)] \in Activation
  BY <1>1
<1> QED
  BY <1>2 DEF ActiveOK, Top

(* The innermost response goes on elsewhere.                               *)
LEMMA TopSet ==
  ASSUME NEW t, NEW c, NEW left, ActiveOK(stack, t, c, left), Nested,
         NEW pc \in PCs, pc = "end" => Top.left = 0 \/ left
  PROVE  /\ ActiveOK(SetTop(pc), t, c, left) /\ DOMAIN SetTop(pc) = DOMAIN stack
         /\ \A k \in DOMAIN stack : SetTop(pc)[k].s = stack[k].s
<1> DEFINE a == [Top EXCEPT !.pc = pc]
<1>1. Len(stack) \in DOMAIN stack /\ Top \in Activation /\ Active(Top, t, c, left)
      /\ Top = stack[Len(stack)]
  BY TopActive
<1>2. a \in Activation /\ a.s = Top.s
  BY <1>1 DEF Activation
<1>3. Active(a, t, c, left)
  BY <1>1 DEF Active, Activation
<1>4. SetTop(pc) = [stack EXCEPT ![Len(stack)] = a]
  BY <1>1 DEF SetTop
<1> HIDE DEF a
<1>5. stack # <<>>
  BY DEF Nested
<1>6. /\ ActiveOK([stack EXCEPT ![Len(stack)] = a], t, c, left)
      /\ DOMAIN [stack EXCEPT ![Len(stack)] = a] = DOMAIN stack
      /\ \A k \in DOMAIN stack : [stack EXCEPT ![Len(stack)] = a][k]
                                  = IF k = Len(stack) THEN a ELSE stack[k]
  BY <1>2, <1>3, <1>5, TopReplaced
<1> QED
  BY <1>1, <1>2, <1>4, <1>6

(* A response that was waiting for its window tries to send again.         *)
LEMMA ResumedFits ==
  ASSUME NEW t, NEW c, NEW left, ActiveOK(stack, t, c, left)
  PROVE  /\ ActiveOK(Resumed, t, c, left) /\ DOMAIN Resumed = DOMAIN stack
         /\ \A k \in DOMAIN stack : Resumed[k].s = stack[k].s
<1>1. CASE Nested
  <2>1. "data" \in PCs /\ "data" # "end"
    BY DEF PCs
  <2>2. Resumed = SetTop("data")
    BY <1>1 DEF Resumed
  <2> QED
    BY <1>1, <2>1, <2>2, TopSet
<1>2. CASE ~Nested
  BY <1>2 DEF Resumed
<1> QED
  BY <1>1, <1>2

(* A new response is under way.                                            *)
LEMMA Appended ==
  ASSUME NEW t, NEW c, NEW left, NEW st, ActiveOK(st, t, c, left),
         NEW a \in Activation, Active(a, t, c, left)
  PROVE  /\ ActiveOK(Append(st, a), t, c, left)
         /\ \A k \in DOMAIN Append(st, a) :
              Append(st, a)[k] = a \/ (k \in DOMAIN st /\ Append(st, a)[k] = st[k])
<1>1. st \in Seq(Activation)
  BY DEF ActiveOK
<1>2. Append(st, a) \in Seq(Activation) /\ Len(Append(st, a)) = Len(st) + 1
  BY <1>1
<1>3. \A k \in DOMAIN Append(st, a) :
        Append(st, a)[k] = a \/ (k \in DOMAIN st /\ Append(st, a)[k] = st[k])
  BY <1>1
<1>4. \A k \in DOMAIN Append(st, a) : Active(Append(st, a)[k], t, c, left)
  BY <1>3 DEF ActiveOK
<1> QED
  BY <1>2, <1>3, <1>4 DEF ActiveOK

(* The client has gone on: the ends of no stream are disturbed.            *)
LEMMA ToldFits ==
  ASSUME NEW t, NEW c, NEW d, NEW left, NEW st, Fits(t, c, left, st),
         \A n \in Ids : \/ d[n] = c[n]
                        \/ d[n] = "done"
                        \/ /\ d[n] # "idle"
                           /\ t.list[n] # None =>
                                /\ t.obj[t.list[n]].state \notin {"half_closed_remote", "closed"}
                                /\ \A k \in DOMAIN st : st[k].o # t.list[n]
  PROVE  Fits(t, d, left, st)
<1>1. TableOK(t) /\ EndsOK(t, c, left) /\ ActiveOK(st, t, c, left)
  BY DEF Fits
<1>2. EndsOK(t, d, left)
  BY <1>1 DEF EndsOK, Ends
<1>3. ActiveOK(st, t, d, left)
  <2> SUFFICES ASSUME NEW k \in DOMAIN st, st \in Seq(Activation)
               PROVE  Active(st[k], t, d, left)
    BY <1>1 DEF ActiveOK
  <2>1. Active(st[k], t, c, left)
    BY <1>1 DEF ActiveOK
  <2>2. st[k] \in Activation
    BY ElementOfSeq
  <2>3. st[k].o \in Objs /\ st[k].o # None /\ st[k].s \in Ids
    BY <2>2 DEF Activation, Objs, None
  <2>4. st[k].s \in Streams => d[st[k].s] # "idle"
    BY <2>1, <2>3 DEF Active
  <2>5. ASSUME NEW i \in Ids, t.list[i] = st[k].o
        PROVE  i = st[k].s /\ (st[k].fin => d[i] = "done")
    BY <2>1, <2>3, <2>5 DEF Active
  <2> QED
    BY <2>1, <2>4, <2>5 DEF Active
<1> QED
  BY <1>1, <1>2, <1>3 DEF Fits

-----------------------------------------------------------------------------
(* How the handling of a frame ends.                                       *)

(* A frame that is answered by no response.                                *)
LEMMA ProceedKeeps ==
  ASSUME ConnInv, NEW t, NEW len, Proceed(t, len),
         Fits(t, client', gone', stack), Half(header', t, stack),
         Unpromised(t, client', pushed'), t.made <= Spent(frames', pushed'),
         Surroundings', Pushing', client' \in Clients
  PROVE  ConnInv'
<1>1. Table' = t /\ made' = t.made
  <2>1. t \in Tables
    BY DEF Fits, TableOK
  <2> QED
    BY <2>1 DEF Proceed, Install, Table, Tables
<1>2. stack' = Resumed
  BY DEF Proceed
<1>3. conn' \in {"open", "closed", "dangling", "stuck"}
  BY DEF Proceed, ConnInv
<1>4. /\ ActiveOK(Resumed, t, client', gone') /\ DOMAIN Resumed = DOMAIN stack
      /\ \A k \in DOMAIN stack : Resumed[k].s = stack[k].s
  BY ResumedFits DEF Fits
<1>5. Fits(Table', client', gone', stack')
  BY <1>1, <1>2, <1>4 DEF Fits
<1>6. Half(header', Table', stack')
  BY <1>1, <1>2, <1>4 DEF Half
<1> QED
  BY <1>1, <1>3, <1>5, <1>6 DEF ConnInv

(* A frame that is answered by a response.                                 *)
LEMMA RespondKeeps ==
  ASSUME ConnInv, NEW t, NEW i \in Ids, NEW fin \in BOOLEAN, NEW len \in {0, 1},
         Respond(t, i, fin, len), header' = None,
         Fits(t, client', gone', stack), t.list[i] # None,
         t.obj[t.list[i]].state # "idle", client'[i] # "idle",
         fin => client'[i] = "done",
         Unpromised(t, client', pushed'), t.made <= Spent(frames', pushed'),
         Surroundings', Pushing', client' \in Clients
  PROVE  ConnInv'
<1> DEFINE o == t.list[i]
<1>1. t \in Tables /\ TableOK(t)
  BY DEF Fits, TableOK
<1>2. Table' = t /\ made' = t.made
  BY <1>1 DEF Respond, Install, Table, Tables
<1>3. conn \in {"open", "closed", "dangling", "stuck"}
  BY DEF ConnInv
<1>4. o \in Objs /\ o <= t.made /\ \A j \in Ids : t.list[j] = o => j = i
  BY <1>1 DEF TableOK, Tables, Refs
<1>5. Half(header', Table', stack')
  BY DEF Half
<1>6. CASE \E k \in DOMAIN stack : stack[k].o = o
  <2>1. conn' = "dangling" /\ stack' = stack
    BY <1>6 DEF Respond
  <2>2. Fits(Table', client', gone', stack')
    BY <1>2, <2>1
  <2> QED
    BY <1>2, <1>5, <2>1, <2>2 DEF ConnInv
<1>7. CASE ~(\E k \in DOMAIN stack : stack[k].o = o)
  <2>1. PICK body \in Bodies, kind \in {"doc", "error"} :
          stack' = Append(Resumed, [s |-> i, o |-> o, pc |-> "head", left |-> body,
                                    kind |-> kind, fin |-> fin, it |-> None, at |-> None,
                                    len |-> len])
    BY <1>7 DEF Respond
  <2> DEFINE a == [s |-> i, o |-> o, pc |-> "head", left |-> body, kind |-> kind,
                   fin |-> fin, it |-> None, at |-> None, len |-> len]
  <2>2. conn' = conn
    BY <1>7 DEF Respond
  <2>3. body \in Nat
    BY Http2Assumption
  <2>4. a \in Activation
    BY <1>4, <2>3 DEF Activation, PCs
  <2>5. Active(a, t, client', gone')
    BY <1>4 DEF Active
  <2>6. ActiveOK(Resumed, t, client', gone')
    BY ResumedFits DEF Fits
  <2> HIDE DEF a
  <2>7. ActiveOK(Append(Resumed, a), t, client', gone')
    BY <2>4, <2>5, <2>6, Appended
  <2>8. Fits(Table', client', gone', stack')
    BY <1>2, <2>1, <2>7 DEF Fits, a
  <2> QED
    BY <1>2, <1>3, <1>5, <2>2, <2>8 DEF ConnInv
<1> QED
  BY <1>6, <1>7

-----------------------------------------------------------------------------
(* Promises.                                                               *)

(* The table after k promises: the first k even numbers behind that of the *)
(* request are taken, and nothing else has changed.                        *)
Behind(i, k) == {n \in Even : i < n /\ n < i + 2 * k}
Reserved(u, t, i, k) ==
  /\ Fits(u, client, gone, stack)
  /\ u.made = t.made + k
  /\ \A n \in Ids \ Behind(i, k) : u.list[n] = t.list[n]
  /\ \A n \in Behind(i, k) : u.list[n] # None
  /\ \A x \in Objs : x <= t.made => u.obj[x] = t.obj[x]

Free(u, i) ==
  CHOOSE n \in (i + 1) .. LastId :
    /\ n % 2 = 0 /\ u.list[n] = None
    /\ \A m \in (i + 1) .. (n - 1) : m % 2 = 0 => u.list[m] # None
Reserve(u, n) ==
  [SetState(Create(u, n), n, "reserved_local") EXCEPT !.obj[u.made + 1].promise = TRUE]

(* The next number that is free.                                           *)
LEMMA NextFree ==
  ASSUME NEW t, NEW u, NEW i \in Streams, NEW k \in 1 .. Pushes,
         Reserved(u, t, i, k - 1), \A n \in Even : t.list[n] = None
  PROVE  /\ Free(u, i) = i + 2 * k - 1
         /\ Free(u, i) \in Even /\ Free(u, i) \notin Behind(i, k - 1)
<1> DEFINE n == i + 2 * k - 1
           Is(m) == /\ m % 2 = 0 /\ u.list[m] = None
                    /\ \A x \in (i + 1) .. (m - 1) : x % 2 = 0 => u.list[x] # None
<1>1. i \in Nat /\ i # 0 /\ i % 2 = 1 /\ i + 2 * Pushes <= LastId /\ LastId \in Nat
      /\ Pushes \in Nat /\ k \in Nat /\ 1 <= k /\ k <= Pushes
  BY Identifiers, Http2Assumption
<1>2. n \in Nat /\ n % 2 = 0 /\ n \in (i + 1) .. LastId /\ n \in 1 .. LastId
  BY <1>1
<1>3. n \in Even /\ n \notin Behind(i, k - 1)
  BY <1>1, <1>2 DEF Even, Behind, Ids
<1>4. u.list[n] = None
  BY <1>3 DEF Reserved, Even
<1>5. ASSUME NEW x \in (i + 1) .. (n - 1), x % 2 = 0
      PROVE  u.list[x] # None
  <2>1. x \in 1 .. LastId /\ i < x /\ x < i + 2 * (k - 1)
    BY <1>1, <1>5
  <2>2. x \in Behind(i, k - 1)
    BY <1>5, <2>1 DEF Behind, Even, Ids
  <2> QED
    BY <2>2 DEF Reserved
<1>6. Is(n)
  BY <1>2, <1>4, <1>5
<1>7. ASSUME NEW m \in (i + 1) .. LastId, Is(m)
      PROVE  m = n
  <2>1. CASE m < n
    <3>1. m \in (i + 1) .. (n - 1)
      BY <1>1, <1>2, <2>1
    <3> QED
      BY <1>5, <1>7, <3>1
  <2>2. CASE n < m
    <3>1. n \in (i + 1) .. (m - 1)
      BY <1>1, <1>2, <2>2
    <3> QED
      BY <1>2, <1>4, <1>7, <3>1
  <2> QED
    BY <1>1, <1>2, <2>1, <2>2
<1>8. Free(u, i) = CHOOSE m \in (i + 1) .. LastId : Is(m)
  BY DEF Free
<1>9. Free(u, i) = n
  <2> HIDE DEF Is, n
  <2> QED
    BY <1>2, <1>6, <1>7, <1>8
<1> QED
  BY <1>3, <1>9

(* A promise more.                                                         *)
LEMMA OneMore ==
  ASSUME Surroundings, NEW t, NEW u, NEW i \in Streams, NEW k \in 1 .. Pushes,
         Reserved(u, t, i, k - 1), t.made \in 0 .. MaxFrames,
         \A n \in Even : t.list[n] = None
  PROVE  Reserved(Reserve(u, Free(u, i)), t, i, k)
<1> DEFINE n == Free(u, i)
           o == u.made + 1
           v == Create(u, n)
           w == SetState(v, n, "reserved_local")
           r == [NewStream EXCEPT !.state = "reserved_local", !.promise = TRUE]
           z == Reserve(u, n)
<1>1. n = i + 2 * k - 1 /\ n \in Even /\ n \notin Behind(i, k - 1)
  BY NextFree
<1>2. n \in Ids /\ u.list[n] = None
  BY <1>1 DEF Reserved, Even
<1>3. Fits(u, client, gone, stack) /\ u.made = t.made + (k - 1)
      /\ u.made < MaxFrames + Pushes /\ u.made \in Nat /\ o \in Objs /\ t.made < o
  BY Http2Assumption DEF Reserved, Objs
<1> HIDE DEF n
<1>4. /\ Fits(v, client, gone, stack)
      /\ v.list = [u.list EXCEPT ![n] = o] /\ v.made = o
      /\ v.obj = [u.obj EXCEPT ![o] = NewStream]
  BY <1>2, <1>3, CreateFits
<1> HIDE DEF v
<1>5. NewStream \in Sounds
  BY NewSound
<1>6. r \in Sounds /\ r.state = "reserved_local"
  BY <1>5 DEF Sounds, Sound, StreamType, StreamStates
<1>7. u.list \in [Ids -> Refs] /\ u.obj \in [Objs -> Sounds] /\ v \in Tables
      /\ v.obj \in [Objs -> Sounds]
  BY <1>3, <1>4 DEF Fits, TableOK, Tables
<1>8. v.list[n] = o /\ v.obj[o] = NewStream
  BY <1>2, <1>3, <1>4, <1>7
<1>9. w = [list |-> v.list, obj |-> [v.obj EXCEPT ![o].state = "reserved_local"],
           made |-> v.made]
  BY <1>7, <1>8 DEF SetState, Tables
<1>10. z = [w EXCEPT !.obj[o].promise = TRUE]
  BY DEF Reserve, v
<1> HIDE DEF w
<1>11. z = [list |-> v.list, obj |-> [w.obj EXCEPT ![o].promise = TRUE], made |-> v.made]
  BY <1>9, <1>10
<1>12. [w.obj EXCEPT ![o].promise = TRUE] = [v.obj EXCEPT ![o] = r]
  <2>1. w.obj = [v.obj EXCEPT ![o].state = "reserved_local"]
    BY <1>9
  <2> QED
    BY <1>3, <1>5, <1>7, <1>8, <2>1
<1> HIDE DEF z, r
<1>13. z = Replace(v, o, r)
  <2>1. Replace(v, o, r) = [list |-> v.list, obj |-> [v.obj EXCEPT ![o] = r], made |-> v.made]
    BY <1>7 DEF Replace, Tables
  <2> QED
    BY <1>11, <1>12, <2>1
<1>14. r.ended = "no"
  BY <1>5, NewSound DEF r, Sounds, StreamType
<1>15. /\ Fits(z, client, gone, stack) /\ z.list = v.list /\ z.made = v.made
       /\ z.obj = [v.obj EXCEPT ![o] = r]
  <2>1. \A m \in Ids : v.list[m] = o => Ends(r, client[m], gone)
    BY <1>6 DEF Ends
  <2>2. r.state = "idle" => v.obj[o].state = "idle"
    BY <1>6
  <2>3. o \in Objs /\ r \in Sounds /\ Fits(v, client, gone, stack)
    BY <1>3, <1>4, <1>6
  <2> HIDE DEF o
  <2>4. /\ Fits(Replace(v, o, r), client, gone, stack)
        /\ Replace(v, o, r).list = v.list /\ Replace(v, o, r).made = v.made
        /\ Replace(v, o, r).obj = [v.obj EXCEPT ![o] = r]
    BY <2>1, <2>2, <2>3, ReplacedFits
  <2> QED
    BY <1>13, <2>4
<1>16. z.made = t.made + k
  BY <1>3, <1>4, <1>15
<1>17. \A m \in Ids : z.list[m] = IF m = n THEN o ELSE u.list[m]
  BY <1>2, <1>4, <1>7, <1>15
<1>18. \A m \in Ids : m \in Behind(i, k) <=> m = n \/ m \in Behind(i, k - 1)
  <2>1. i \in Nat /\ i % 2 = 1 /\ k \in Nat /\ Ids \subseteq Nat
    BY Identifiers, Http2Assumption
  <2>2. \A m \in Nat : (m % 2 = 0 /\ i < m /\ m < i + 2 * k)
                         <=> \/ m = i + 2 * k - 1
                             \/ (m % 2 = 0 /\ i < m /\ m < i + 2 * (k - 1))
    BY <2>1
  <2> QED
    BY <1>1, <1>2, <2>1, <2>2 DEF Behind, Even
<1>19. \A m \in Ids \ Behind(i, k) : z.list[m] = t.list[m]
  BY <1>17, <1>18 DEF Reserved
<1>20. \A m \in Behind(i, k) : z.list[m] # None
  <2>1. o # None
    BY <1>3 DEF None
  <2>2. \A m \in Behind(i, k) : m \in Ids
    BY DEF Behind, Even
  <2> QED
    BY <1>17, <1>18, <2>1, <2>2 DEF Reserved
<1>21. ASSUME NEW x \in Objs, x <= t.made
       PROVE  z.obj[x] = t.obj[x]
  <2>1. x # o
    <3>1. x \in Nat /\ t.made \in Nat
      BY Http2Assumption DEF Objs
    <3> QED
      BY <1>3, <1>21, <3>1
  <2>2. z.obj[x] = u.obj[x]
    BY <1>3, <1>4, <1>7, <1>15, <2>1
  <2> QED
    BY <1>21, <2>2 DEF Reserved
<1> QED
  BY <1>15, <1>16, <1>19, <1>20, <1>21 DEF Reserved, z, n

(* The promises together.                                                  *)
LEMMA PromisedFits ==
  ASSUME Surroundings, Promising, NEW t, Fits(t, client, gone, stack), NEW i \in Streams,
         \A n \in Even : t.list[n] = None, t.made \in 0 .. MaxFrames
  PROVE  Reserved(Promised(t, i), t, i, Pushes)
<1> DEFINE F(h, k) == IF k = 0 THEN t ELSE Reserve(h[k - 1], Free(h[k - 1], i))
           f == CHOOSE h : h = [k \in 0 .. Pushes |-> F(h, k)]
           step == [k \in 1 .. Pushes |->
                      [u \in Tables |-> IF Reserve(u, Free(u, i)) \in Tables
                                       THEN Reserve(u, Free(u, i)) ELSE t]]
<1>1. Promised(t, i) = f[Pushes]
  BY DEF Promised, Reserve, Free
<1>2. Pushes \in Nat /\ t \in Tables
  BY Http2Assumption DEF Fits, TableOK
<1>3. Reserved(t, t, i, 0)
  <2>1. Behind(i, 0) = {}
    <3>1. i \in Nat /\ Ids \subseteq Nat
      BY Identifiers
    <3>2. \A n \in Nat : ~(i < n /\ n < i + 2 * 0)
      BY <3>1
    <3> QED
      BY <3>1, <3>2 DEF Behind, Even
  <2>2. t.made = t.made + 0
    BY Http2Assumption
  <2> QED
    BY <2>1, <2>2 DEF Reserved
<1>4. ASSUME NEW u, NEW k \in 1 .. Pushes, Reserved(u, t, i, k - 1)
      PROVE  /\ Reserved(Reserve(u, Free(u, i)), t, i, k)
             /\ u \in Tables /\ Reserve(u, Free(u, i)) \in Tables
  <2>1. Reserved(Reserve(u, Free(u, i)), t, i, k)
    BY <1>4, OneMore
  <2> QED
    BY <1>4, <2>1 DEF Reserved, Fits, TableOK
<1>5. f = [k \in 0 .. Pushes |-> F(f, k)]
  <2>1. step \in Steps(Pushes, Tables)
    BY <1>2 DEF Steps
  <2>2. PICK g \in [0 .. Pushes -> Tables] : Iterates(g, Pushes, t, step)
    <3> HIDE DEF step
    <3> QED
      BY <1>2, <2>1, Iterated
  <2>3. g[0] = t
    <3>1. 0 \in 0 .. Pushes
      BY <1>2
    <3> HIDE DEF step
    <3> QED
      BY <2>2, <3>1 DEF Iterates
  <2>4. ASSUME NEW k \in 1 .. Pushes, Reserved(g[k - 1], t, i, k - 1)
        PROVE  g[k] = Reserve(g[k - 1], Free(g[k - 1], i)) /\ Reserved(g[k], t, i, k)
    <3>1. k \in 0 .. Pushes /\ k # 0
      BY <1>2
    <3>2. g[k] = step[k][g[k - 1]]
      BY <2>2, <3>1 DEF Iterates
    <3>3. /\ Reserved(Reserve(g[k - 1], Free(g[k - 1], i)), t, i, k)
          /\ g[k - 1] \in Tables /\ Reserve(g[k - 1], Free(g[k - 1], i)) \in Tables
      BY <1>4, <2>4
    <3>4. step[k][g[k - 1]] = Reserve(g[k - 1], Free(g[k - 1], i))
      BY <3>3
    <3> QED
      BY <3>2, <3>3, <3>4
  <2> DEFINE T == {k \in 0 .. Pushes : Reserved(g[k], t, i, k)}
  <2>5. 0 \in T
    BY <1>2, <1>3, <2>3
  <2>6. \A k \in 1 .. Pushes : k - 1 \in T => k \in T
    BY <2>4
  <2>7. \A k \in 0 .. Pushes : k \in T
    <3> HIDE DEF T
    <3> QED
      BY <1>2, <2>5, <2>6, Upto
  <2>8. \A k \in 0 .. Pushes : g[k] = F(g, k)
    <3> SUFFICES ASSUME NEW k \in 0 .. Pushes PROVE g[k] = F(g, k)
      OBVIOUS
    <3>1. CASE k = 0
      BY <2>3, <3>1
    <3>2. CASE k # 0
      <4>1. k \in 1 .. Pushes /\ k - 1 \in 0 .. Pushes
        BY <1>2, <3>2
      <4>2. Reserved(g[k - 1], t, i, k - 1)
        BY <2>7, <4>1
      <4>3. g[k] = Reserve(g[k - 1], Free(g[k - 1], i))
        BY <2>4, <4>1, <4>2
      <4> QED
        BY <3>2, <4>3
    <3> QED
      BY <3>1, <3>2
  <2>9. g = [k \in 0 .. Pushes |-> F(g, k)]
    <3>1. g = [k \in 0 .. Pushes |-> g[k]]
      BY <2>2
    <3> HIDE DEF F
    <3> QED
      BY <2>8, <3>1
  <2> HIDE DEF F
  <2> QED
    BY <2>9
<1> HIDE DEF f
<1> DEFINE T == {k \in 0 .. Pushes : Reserved(f[k], t, i, k)}
<1>6. 0 \in T
  <2>1. f[0] = t
    BY <1>2, <1>5
  <2> QED
    BY <1>2, <1>3, <2>1
<1>7. ASSUME NEW k \in 1 .. Pushes, k - 1 \in T
      PROVE  k \in T
  <2>1. k \in 0 .. Pushes /\ k # 0
    BY <1>2
  <2>2. f[k] = Reserve(f[k - 1], Free(f[k - 1], i))
    BY <1>5, <2>1
  <2> QED
    BY <1>4, <1>7, <2>1, <2>2
<1>8. Pushes \in T
  <2> HIDE DEF T
  <2> QED
    BY <1>2, <1>6, <1>7, Upto
<1> QED
  BY <1>1, <1>8

-----------------------------------------------------------------------------
(* Frames of a stream.                                                     *)

(* A stream in another state that is so.                                   *)
LEMMA SetStateFits ==
  ASSUME NEW t, NEW c, NEW left, NEW st, Fits(t, c, left, st),
         NEW i \in Ids, t.list[i] # None, NEW s \in StreamStates, s # "idle",
         s \in {"half_closed_local", "closed"} => t.obj[t.list[i]].ended # "no" \/ left,
         s \in {"half_closed_remote", "closed"} => c[i] = "done"
  PROVE  /\ Fits(SetState(t, i, s), c, left, st)
         /\ SetState(t, i, s).list = t.list /\ SetState(t, i, s).made = t.made
         /\ SetState(t, i, s).obj[t.list[i]].state = s
<1> DEFINE o == t.list[i]
           r == [t.obj[o] EXCEPT !.state = s]
<1>1. t \in Tables /\ TableOK(t)
  BY DEF Fits, TableOK
<1>2. o \in Objs /\ t.obj[o] \in Sounds /\ t.obj \in [Objs -> Sounds]
  BY <1>1 DEF Tables, Refs
<1>3. r \in Sounds /\ r.state = s /\ r.ended = t.obj[o].ended
  BY <1>2, StateSet
<1>4. SetState(t, i, s) = Replace(t, o, r)
  BY <1>1, <1>2 DEF SetState, Replace, Tables
<1>5. \A n \in Ids : t.list[n] = o => Ends(r, c[n], left)
  <2>1. \A n \in Ids : t.list[n] = o => n = i
    BY <1>1 DEF TableOK
  <2>2. Ends(r, c[i], left)
    BY <1>3 DEF Ends
  <2> QED
    BY <2>1, <2>2
<1>6. [t.obj EXCEPT ![o] = r][o] = r
  BY <1>2
<1> HIDE DEF r
<1>7. r.state = "idle" => t.obj[o].state = "idle"
  BY <1>3
<1> HIDE DEF o
<1>8. /\ Fits(Replace(t, o, r), c, left, st)
      /\ Replace(t, o, r).list = t.list /\ Replace(t, o, r).made = t.made
      /\ Replace(t, o, r).obj = [t.obj EXCEPT ![o] = r]
  BY <1>2, <1>3, <1>5, <1>7, ReplacedFits
<1> QED
  BY <1>3, <1>4, <1>6, <1>8 DEF o, r

(* END_STREAM of the client.                                               *)
LEMMA RemoteEndFits ==
  ASSUME NEW t, NEW c, NEW left, NEW st, Fits(t, c, left, st),
         NEW i \in Ids, t.list[i] # None, c[i] = "done"
  PROVE  /\ Fits(RemoteEnd(t, i), c, left, st)
         /\ RemoteEnd(t, i).list = t.list /\ RemoteEnd(t, i).made = t.made
         /\ RemoteEnd(t, i).obj[t.list[i]].state \in {"half_closed_remote", "closed"}
<1> DEFINE q == t.obj[t.list[i]].state
           s == EndReceived(q)
<1>1. t.obj[t.list[i]] \in Sounds
  BY DEF Fits, TableOK, Tables, Refs
<1>2. q \in StreamStates
  BY <1>1 DEF Sounds, StreamType
<1>3. s \in {"half_closed_remote", "closed"} /\ (s = "closed" => q = "half_closed_local")
  BY <1>2, EndStates
<1>4. s \in StreamStates /\ s # "idle"
  BY <1>3 DEF StreamStates
<1>5. s \in {"half_closed_local", "closed"} => t.obj[t.list[i]].ended # "no" \/ left
  BY <1>3 DEF Fits, EndsOK, Ends
<1>6. RemoteEnd(t, i) = SetState(t, i, s)
  BY DEF RemoteEnd
<1> HIDE DEF s
<1>7. /\ Fits(SetState(t, i, s), c, left, st)
      /\ SetState(t, i, s).list = t.list /\ SetState(t, i, s).made = t.made
      /\ SetState(t, i, s).obj[t.list[i]].state = s
  BY <1>4, <1>5, SetStateFits
<1> QED
  BY <1>3, <1>6, <1>7

(* What an object is made for: the promises, or a frame that is counted.   *)
LEMMA AdmitSpends ==
  ASSUME ConnInv, NEW i \in Ids, NEW a, Admitted(a, i), i \in Streams \/ Known(i),
         NEW f \in Nat, f = frames + 1 \/ (f = frames /\ list[i] # None)
  PROVE  /\ Unpromised(a, client, pushed)
         /\ a.made \in Nat /\ a.made <= Spent(f, pushed)
<1>1. Fits(Table, client, gone, stack) /\ Unpromised(Table, client, pushed)
      /\ made <= Spent(frames, pushed) /\ frames \in Nat /\ Pushes \in Nat
  BY Http2Assumption DEF ConnInv, Surroundings
<1>2. made \in Nat /\ MaxFrames + Pushes \in Nat
  BY <1>1, Http2Assumption DEF Fits, TableOK, Tables, Table
<1>3. a.made \in Nat /\ a.made <= Spent(f, pushed)
  BY <1>1, <1>2 DEF Admitted, Spent
<1>4. Unpromised(a, client, pushed)
  <2> SUFFICES ASSUME pushed = "none", NEW n \in Even
               PROVE  a.list[n] = None /\ client[n] = "idle"
    BY DEF Unpromised
  <2>1. list[n] = None /\ client[n] = "idle" /\ n \in Ids /\ n % 2 = 0
    BY <1>1 DEF Unpromised, Table, Even
  <2>2. n # i
    BY <2>1, Identifiers DEF Known
  <2> QED
    BY <2>1, <2>2 DEF Admitted
<1> QED
  BY <1>3, <1>4

(* A header block that is complete.                                        *)
LEMMA BlockKeeps ==
  ASSUME ConnInv, NEW t, NEW i \in Streams, NEW fin \in BOOLEAN, Block(t, i, fin),
         header' = None, gone' = gone, Surroundings',
         Fits(t, client, gone, stack), t.list[i] # None,
         t.obj[t.list[i]].state \notin {"idle", "half_closed_remote", "closed"},
         fin \/ \A k \in DOMAIN stack : stack[k].o # t.list[i],
         Unpromised(t, client, pushed), t.made \in Nat, t.made <= Spent(frames', pushed)
  PROVE  ConnInv'
<1> DEFINE u == Promised(t, i)
<1>1. i \in Ids /\ i \notin Even
  BY Identifiers DEF Even
<1>2. Surroundings /\ Pushing /\ client \in Clients /\ frames' \in 0 .. MaxFrames /\ Pushes \in Nat
  BY Http2Assumption DEF ConnInv, Surroundings
<1>3. pushed' = IF Promising THEN "requested" ELSE pushed
  BY DEF Block
<1>4. client' = [n \in Ids |->
                   IF n % 2 = 0 /\ u.list[n] # t.list[n] THEN "done"
                   ELSE IF n = i /\ fin THEN "done"
                   ELSE IF n = i THEN "open" ELSE client[n]]
  BY DEF Block
<1>5. IF u.obj[u.list[i]].method = "POST"
      THEN Proceed(IF fin THEN RemoteEnd(u, i) ELSE u, 1)
      ELSE Respond(u, i, fin, 1)
  BY DEF Block
<1> HIDE DEF u
<1>6. client' \in Clients /\ Pushing'
  BY <1>2, <1>3, <1>4 DEF Clients, Pushing
<1>7. /\ Fits(u, client, gone, stack)
      /\ u.list[i] = t.list[i] /\ u.obj[t.list[i]] = t.obj[t.list[i]]
      /\ Unpromised(u, client', pushed') /\ u.made <= Spent(frames', pushed')
  <2>1. CASE Promising
    <3>1. pushed = "none" /\ pushed' = "requested"
      BY <1>3, <2>1 DEF Promising
    <3>2. t.made \in 0 .. MaxFrames /\ t.made <= frames' /\ frames' \in Nat
      BY <1>2, <3>1, Http2Assumption DEF Spent
    <3>3. \A n \in Even : t.list[n] = None
      BY <3>1 DEF Unpromised
    <3>4. Reserved(u, t, i, Pushes)
      BY <1>2, <2>1, <3>2, <3>3, PromisedFits DEF u
    <3>5. u.list[i] = t.list[i]
      BY <1>1, <3>4 DEF Reserved, Behind
    <3>6. t.list[i] \in Objs /\ t.list[i] <= t.made
      BY <1>1 DEF Fits, TableOK, Tables, Refs
    <3>7. u.made <= Spent(frames', pushed')
      BY <1>2, <3>1, <3>2, <3>4 DEF Reserved, Spent
    <3>8. Unpromised(u, client', pushed')
      BY <3>1 DEF Unpromised
    <3> QED
      BY <3>4, <3>5, <3>6, <3>7, <3>8 DEF Reserved
  <2>2. CASE ~Promising
    <3>1. u = t /\ pushed' = pushed
      BY <1>3, <2>2 DEF u, Promised
    <3>2. \A n \in Even : n \in Ids /\ client'[n] = client[n]
      BY <1>1, <1>4, <3>1 DEF Even
    <3> QED
      BY <3>1, <3>2 DEF Unpromised
  <2> QED
    BY <2>1, <2>2
<1>8. client'[i] = IF fin THEN "done" ELSE "open"
  BY <1>1, <1>4 DEF Even
<1>9. Fits(u, client', gone', stack)
  <2>1. ASSUME NEW n \in Ids
        PROVE  \/ client'[n] = client[n]
               \/ client'[n] = "done"
               \/ /\ client'[n] # "idle"
                  /\ u.list[n] # None =>
                       /\ u.obj[u.list[n]].state \notin {"half_closed_remote", "closed"}
                       /\ \A k \in DOMAIN stack : stack[k].o # u.list[n]
    <3>1. CASE n = i
      BY <1>7, <1>8, <3>1
    <3>2. CASE n # i
      BY <1>4, <3>2
    <3> QED
      BY <3>1, <3>2
  <2>2. Fits(u, client', gone, stack)
    BY <1>7, <2>1, ToldFits
  <2> QED
    BY <2>2
<1>10. Half(header', u, stack) /\ u.list[i] # None
  BY <1>7 DEF Half
<1>11. CASE u.obj[u.list[i]].method = "POST" /\ fin
  <2> DEFINE v == RemoteEnd(u, i)
  <2>1. Proceed(v, 1)
    BY <1>5, <1>11
  <2>2. client'[i] = "done"
    BY <1>8, <1>11
  <2>3. Fits(v, client', gone', stack) /\ v.list = u.list /\ v.made = u.made
    BY <1>1, <1>9, <1>10, <2>2, RemoteEndFits
  <2> HIDE DEF v
  <2>4. Half(header', v, stack)
    BY DEF Half
  <2>5. Unpromised(v, client', pushed')
    BY <1>7, <2>3 DEF Unpromised
  <2>6. v.made <= Spent(frames', pushed')
    BY <1>7, <2>3
  <2> QED
    BY <1>6, <2>1, <2>3, <2>4, <2>5, <2>6, ProceedKeeps
<1>12. CASE u.obj[u.list[i]].method = "POST" /\ ~fin
  <2>1. Proceed(u, 1)
    BY <1>5, <1>12
  <2> QED
    BY <1>6, <1>7, <1>9, <1>10, <2>1, ProceedKeeps
<1>13. CASE u.obj[u.list[i]].method # "POST"
  <2>1. Respond(u, i, fin, 1)
    BY <1>5, <1>13
  <2>2. u.obj[u.list[i]].state # "idle" /\ client'[i] # "idle" /\ (fin => client'[i] = "done")
    BY <1>7, <1>8
  <2> QED
    BY <1>1, <1>6, <1>7, <1>9, <1>10, <2>1, <2>2, RespondKeeps
<1> QED
  BY <1>11, <1>12, <1>13

(* What a frame from the client finds.                                     *)
LEMMA ArrivalFits ==
  ASSUME ConnInv, Arrives, NEW i \in Ids, i \in Streams \/ Known(i)
  PROVE  /\ Admitted(Admit(i), i) /\ Unpromised(Admit(i), client, pushed)
         /\ Admit(i).made \in Nat /\ Admit(i).made <= Spent(frames', pushed)
         /\ frames' \in 0 .. MaxFrames /\ now' = now /\ gone' = gone /\ header = None
<1>1. /\ made <= Spent(frames, pushed) /\ frames \in 0 .. MaxFrames
      /\ frames' = frames + 1 /\ frames < MaxFrames
      /\ now' = now /\ gone' = gone /\ header = None
  BY DEF ConnInv, Surroundings, Arrives
<1>2. frames \in Nat /\ frames' \in Nat /\ frames' \in 0 .. MaxFrames /\ Pushes \in Nat
      /\ MaxFrames \in Nat
  BY <1>1, Http2Assumption
<1>3. made \in Nat
  BY Http2Assumption DEF ConnInv, Fits, TableOK, Tables, Table
<1>4. made < MaxFrames + Pushes
  BY <1>1, <1>2, <1>3 DEF Spent
<1>5. Admitted(Admit(i), i)
  BY <1>4, AdmitFits
<1> QED
  BY <1>1, <1>2, <1>5, AdmitSpends

(* A frame of a stream, with a step of that stream alone.                  *)
LEMMA StreamFrame ==
  ASSUME ConnInv, Arrives, NEW i \in Ids, i \in Streams \/ Known(i),
         NEW t, NEW len, Proceed(t, len), Fits(t, client', gone', stack),
         t.made = Admit(i).made,
         \A n \in Even : t.list[n] \in {Admit(i).list[n], None} /\ (client[n] = "idle" => client'[n] = client[n]),
         header' = None, pushed' = pushed, client' \in Clients, Surroundings'
  PROVE  ConnInv'
<1>1. /\ Unpromised(Admit(i), client, pushed)
      /\ Admit(i).made <= Spent(frames', pushed)
  BY ArrivalFits
<1>2. Unpromised(t, client', pushed') /\ t.made <= Spent(frames', pushed')
  BY <1>1 DEF Unpromised
<1>3. Half(header', t, stack)
  BY DEF Half
<1>4. Pushing'
  BY DEF ConnInv, Pushing
<1> QED
  BY <1>2, <1>3, <1>4, ProceedKeeps

(* A stream that the client has not used answers nothing.                  *)
LEMMA NoneUnderWay ==
  ASSUME NEW t, NEW c, NEW left, NEW st, ActiveOK(st, t, c, left), NEW i \in Streams,
         c[i] = "idle"
  PROVE  \A k \in DOMAIN st : st[k].s # i /\ (t.list[i] # st[k].o)
<1> SUFFICES ASSUME NEW k \in DOMAIN st
             PROVE  st[k].s # i /\ t.list[i] # st[k].o
  OBVIOUS
<1>1. Active(st[k], t, c, left)
  BY DEF ActiveOK
<1>2. st[k].s # i
  BY <1>1 DEF Active
<1> QED
  BY <1>1, <1>2, Identifiers DEF Active

(* The first HEADERS of a stream.                                          *)
LEMMA KeepsRequest ==
  ASSUME ConnInv, NEW i \in Streams, RecvRequest(i)
  PROVE  ConnInv'
<1> DEFINE a == Admit(i)
<1>1. i \in Ids /\ Arrives /\ client[i] = "idle" /\ setting' = setting
  BY Identifiers DEF RecvRequest
<1>2. PICK m \in Methods, need \in {0, PostBody}, whole \in BOOLEAN, fin \in BOOLEAN :
        /\ upload' = [upload EXCEPT ![i] = IF m = "POST" /\ ~fin THEN PostBody ELSE 0]
        /\ Headers([a EXCEPT !.obj[a.list[i]].state = "open",
                             !.obj[a.list[i]].method = m,
                             !.obj[a.list[i]].need = need], i, whole, fin)
  <2> DEFINE Is(m, need, whole, fin) ==
               /\ need > 0 => m = "POST" /\ ~fin
               /\ upload' = [upload EXCEPT ![i] = IF m = "POST" /\ ~fin THEN PostBody ELSE 0]
               /\ Headers([a EXCEPT !.obj[a.list[i]].state = "open",
                                    !.obj[a.list[i]].method = m,
                                    !.obj[a.list[i]].need = need], i, whole, fin)
  <2>1. \E m \in Methods, need \in {0, PostBody}, whole, fin \in BOOLEAN : Is(m, need, whole, fin)
    BY Zenon DEF RecvRequest
  <2> HIDE DEF Is
  <2>2. PICK m \in Methods, need \in {0, PostBody}, whole \in BOOLEAN, fin \in BOOLEAN :
          Is(m, need, whole, fin)
    BY <2>1, Zenon
  <2> QED
    BY <2>2, Zenon DEF Is
<1> DEFINE o == a.list[i]
           r == [a.obj[o] EXCEPT !.state = "open", !.method = m, !.need = need]
           t == [a EXCEPT !.obj[o].state = "open", !.obj[o].method = m, !.obj[o].need = need]
<1>3. /\ Admitted(a, i) /\ Unpromised(a, client, pushed)
      /\ a.made \in Nat /\ a.made <= Spent(frames', pushed)
      /\ frames' \in 0 .. MaxFrames /\ now' = now /\ gone' = gone /\ header = None
  BY <1>1, ArrivalFits
<1>4. Headers(t, i, whole, fin)
  BY <1>2
<1> HIDE DEF a
<1>5. /\ Fits(a, client, gone, stack) /\ a.list[i] # None
      /\ a \in Tables /\ o \in Objs /\ a.obj[o] \in Sounds
  BY <1>1, <1>3 DEF Admitted, Fits, TableOK, Tables, Refs
<1>6. r \in Sounds /\ r.state = "open" /\ r.ended = a.obj[o].ended
  BY <1>5, Http2Assumption DEF Sounds, Sound, StreamType, StreamStates
<1>7. t = Replace(a, o, r)
  <2> DEFINE t1 == [a EXCEPT !.obj[o].state = "open"]
             t2 == [t1 EXCEPT !.obj[o].method = m]
             t3 == [t2 EXCEPT !.obj[o].need = need]
  <2>1. t1 = [list |-> a.list, obj |-> [a.obj EXCEPT ![o].state = "open"], made |-> a.made]
    BY <1>5 DEF Tables
  <2>2. t = t3
    OBVIOUS
  <2> HIDE DEF t1
  <2>3. t2 = [list |-> a.list, obj |-> [t1.obj EXCEPT ![o].method = m], made |-> a.made]
    BY <2>1
  <2> HIDE DEF t2
  <2>4. t3 = [list |-> a.list, obj |-> [t2.obj EXCEPT ![o].need = need], made |-> a.made]
    BY <2>3
  <2> HIDE DEF t3
  <2>5. [t2.obj EXCEPT ![o].need = need] = [a.obj EXCEPT ![o] = r]
    <3>1. t2.obj = [t1.obj EXCEPT ![o].method = m] /\ t1.obj = [a.obj EXCEPT ![o].state = "open"]
      BY <2>1, <2>3
    <3>2. a.obj \in [Objs -> Sounds]
      BY <1>5 DEF Tables
    <3> QED
      BY <1>5, <3>1, <3>2
  <2>6. Replace(a, o, r) = [list |-> a.list, obj |-> [a.obj EXCEPT ![o] = r], made |-> a.made]
    BY <1>5 DEF Replace, Tables
  <2> HIDE DEF t, r
  <2> QED
    BY <2>2, <2>4, <2>5, <2>6
<1> HIDE DEF t
<1>8. \A k \in DOMAIN stack : stack[k].s # i /\ stack[k].o # o
  BY <1>1, <1>5, NoneUnderWay DEF Fits
<1>9. /\ Fits(t, client, gone, stack) /\ t.list = a.list /\ t.made = a.made
      /\ t.obj = [a.obj EXCEPT ![o] = r]
  <2>1. \A n \in Ids : a.list[n] = o => Ends(r, client[n], gone)
    BY <1>6 DEF Ends
  <2>2. r.state = "idle" => a.obj[o].state = "idle"
    BY <1>6
  <2> HIDE DEF r, o
  <2> QED
    BY <1>5, <1>6, <1>7, <2>1, <2>2, ReplacedFits
<1>10. t.list[i] = o /\ t.obj[o].state = "open"
  <2>1. a.obj \in [Objs -> Sounds]
    BY <1>5 DEF Tables
  <2> HIDE DEF r
  <2> QED
    BY <1>5, <1>6, <1>9, <2>1
<1> HIDE DEF o
<1>11. Unpromised(t, client, pushed)
  BY <1>3, <1>9 DEF Unpromised
<1>12. Surroundings /\ Pushing /\ client \in Clients
  BY DEF ConnInv
<1>13. upload' \in [Ids -> 0 .. PostBody]
  BY <1>1, <1>2, <1>12, Http2Assumption DEF Surroundings
<1>14. CASE whole
  <2>1. Block(t, i, fin) /\ header' = None
    BY <1>4, <1>14 DEF Headers
  <2>2. Surroundings'
    BY <1>1, <1>3, <1>12, <1>13, <2>1 DEF Surroundings
  <2>3. t.list[i] # None
        /\ t.obj[t.list[i]].state \notin {"idle", "half_closed_remote", "closed"}
    BY <1>5, <1>10 DEF o
  <2>4. \A k \in DOMAIN stack : stack[k].o # t.list[i]
    BY <1>8, <1>10
  <2> QED
    BY <1>3, <1>9, <1>11, <2>1, <2>2, <2>3, <2>4, BlockKeeps
<1>15. CASE ~whole
  <2> DEFINE v == IF fin THEN RemoteEnd(t, i) ELSE t
  <2>1. /\ Proceed(v, 1)
        /\ client' = [client EXCEPT ![i] = IF fin THEN "done" ELSE "open"]
        /\ header' = i /\ pushed' = pushed
    BY <1>4, <1>15 DEF Headers
  <2>2. Surroundings'
    BY <1>1, <1>3, <1>12, <1>13, <2>1 DEF Surroundings
  <2>3. client' \in Clients /\ Pushing' /\ client'[i] = IF fin THEN "done" ELSE "open"
    BY <1>1, <1>12, <2>1 DEF Clients, Pushing
  <2>4. Fits(t, client', gone', stack)
    <3>1. ASSUME NEW n \in Ids
          PROVE  \/ client'[n] = client[n]
                 \/ client'[n] = "done"
                 \/ /\ client'[n] # "idle"
                    /\ t.list[n] # None =>
                         /\ t.obj[t.list[n]].state \notin {"half_closed_remote", "closed"}
                         /\ \A k \in DOMAIN stack : stack[k].o # t.list[n]
      <4>1. CASE n = i
        BY <1>8, <1>10, <2>3, <4>1
      <4>2. CASE n # i
        BY <1>12, <2>1, <4>2 DEF Clients
      <4> QED
        BY <4>1, <4>2
    <3>2. Fits(t, client', gone, stack)
      BY <1>9, <3>1, ToldFits
    <3> QED
      BY <1>3, <3>2
  <2>5. t.list[i] # None
    BY <1>5, <1>9
  <2>6. Fits(v, client', gone', stack) /\ v.list = t.list /\ v.made = t.made
    <3>1. CASE fin
      BY <1>1, <2>3, <2>4, <2>5, <3>1, RemoteEndFits
    <3>2. CASE ~fin
      BY <2>4, <3>2
    <3> QED
      BY <3>1, <3>2
  <2> HIDE DEF v
  <2>7. Half(header', v, stack)
    BY <1>8, <2>1, <2>3, <2>5, <2>6 DEF Half
  <2>8. Unpromised(v, client', pushed')
    <3>1. \A n \in Even : n \in Ids /\ n # i
      BY Identifiers DEF Even
    <3>2. \A n \in Even : client'[n] = client[n]
      BY <1>12, <2>1, <3>1 DEF Clients
    <3> QED
      BY <1>11, <2>1, <2>6, <3>2 DEF Unpromised
  <2>9. v.made <= Spent(frames', pushed')
    BY <1>3, <1>9, <2>1, <2>6
  <2> QED
    BY <2>1, <2>2, <2>3, <2>6, <2>7, <2>8, <2>9, ProceedKeeps
<1> QED
  BY <1>14, <1>15

(* Trailers.                                                               *)
LEMMA KeepsTrailers ==
  ASSUME ConnInv, NEW i \in Streams, RecvTrailers(i)
  PROVE  ConnInv'
<1> DEFINE a == Admit(i)
<1>1. /\ i \in Ids /\ Arrives /\ client[i] = "open" /\ setting' = setting
      /\ upload' = upload
  BY Identifiers DEF RecvTrailers
<1>2. /\ Admitted(a, i) /\ Unpromised(a, client, pushed)
      /\ a.made \in Nat /\ a.made <= Spent(frames', pushed)
      /\ frames' \in 0 .. MaxFrames /\ now' = now /\ gone' = gone /\ header = None
  BY <1>1, ArrivalFits
<1>3. Surroundings /\ client \in Clients
  BY DEF ConnInv
<1>4. Fits(a, client, gone, stack) /\ a.list[i] # None
  BY <1>2 DEF Admitted
<1>5. CASE Refused(a.obj[a.list[i]].state, "HEADERS")
  <2>1. /\ Proceed(a, 0) /\ client' = [client EXCEPT ![i] = "done"]
        /\ header' = header /\ pushed' = pushed
    BY <1>5 DEF RecvTrailers, EndSession
  <2>2. /\ client' \in Clients /\ client'[i] = "done"
        /\ \A n \in Ids : n # i => client'[n] = client[n]
    BY <1>1, <1>3, <2>1 DEF Clients
  <2>3. Fits(a, client', gone, stack)
    <3>1. \A n \in Ids : client'[n] = client[n] \/ client'[n] = "done"
      BY <2>2
    <3> HIDE DEF a
    <3> QED
      BY <1>4, <3>1, ToldFits
  <2>4. Surroundings'
    BY <1>1, <1>2, <1>3, <2>1 DEF Surroundings
  <2>5. \A n \in Even : n \in Ids /\ (client[n] = "idle" => client'[n] = client[n])
    BY <1>1, <2>2 DEF Even
  <2> QED
    BY <1>1, <1>2, <2>1, <2>2, <2>3, <2>4, <2>5, StreamFrame
<1>6. CASE ~Refused(a.obj[a.list[i]].state, "HEADERS")
  <2> DEFINE t == SetState(a, i, "open")
  <2>1. Block(t, i, TRUE) /\ header' = None
    BY <1>6 DEF RecvTrailers, Headers
  <2>2. Surroundings'
    BY <1>1, <1>2, <1>3, <2>1 DEF Surroundings
  <2>3. /\ Fits(t, client, gone, stack) /\ t.list = a.list /\ t.made = a.made
        /\ t.obj[a.list[i]].state = "open"
    <3>1. "open" \in StreamStates
      BY DEF StreamStates
    <3> HIDE DEF a
    <3> QED
      BY <1>1, <1>4, <3>1, SetStateFits
  <2> HIDE DEF t, a
  <2>4. t.list[i] # None
        /\ t.obj[t.list[i]].state \notin {"idle", "half_closed_remote", "closed"}
    BY <1>4, <2>3
  <2>5. Unpromised(t, client, pushed)
    BY <1>2, <2>3 DEF Unpromised
  <2>6. t.made \in Nat /\ t.made <= Spent(frames', pushed)
    BY <1>2, <2>3
  <2> QED
    BY <1>2, <2>1, <2>2, <2>3, <2>4, <2>5, <2>6, BlockKeeps
<1> QED
  BY <1>5, <1>6

(* The rest of a header block.                                             *)
LEMMA KeepsContinuation ==
  ASSUME ConnInv, NEW i \in Streams, RecvContinuation(i)
  PROVE  ConnInv'
<1> DEFINE a == Admit(i)
<1>1. /\ i \in Ids /\ header = i /\ header' = None /\ setting' = setting /\ now' = now
      /\ gone' = gone /\ upload' = upload /\ frames' = frames
  BY Identifiers DEF RecvContinuation
<1>2. i # None
  BY <1>1 DEF Ids, None
<1>3. list[i] # None /\ \A k \in DOMAIN stack : stack[k].s # i
  BY <1>1, <1>2 DEF ConnInv, Half, Table
<1>4. Surroundings /\ Pushing /\ client \in Clients /\ Surroundings' /\ frames \in Nat
  BY <1>1, Http2Assumption DEF ConnInv, Surroundings
<1>5. Admitted(a, i)
  BY <1>1, <1>3, AdmitFits
<1> HIDE DEF a
<1>6. /\ Unpromised(a, client, pushed)
      /\ a.made \in Nat /\ a.made <= Spent(frames', pushed)
  BY <1>1, <1>3, <1>4, <1>5, AdmitSpends
<1>7. Fits(a, client, gone, stack) /\ a.list[i] # None
  BY <1>5 DEF Admitted
<1>8. CASE Refused(a.obj[a.list[i]].state, "CONTINUATION")
  <2>1. Proceed(a, 0) /\ client' = client /\ pushed' = pushed
    BY <1>8 DEF RecvContinuation, EndSession, a
  <2>2. Half(header', a, stack)
    BY <1>1 DEF Half
  <2>3. Pushing'
    BY <1>4, <2>1 DEF Pushing
  <2> QED
    BY <1>1, <1>4, <1>6, <1>7, <2>1, <2>2, <2>3, ProceedKeeps
<1>9. CASE ~Refused(a.obj[a.list[i]].state, "CONTINUATION")
  <2>1. Block(a, i, FALSE)
    BY <1>9 DEF RecvContinuation, a
  <2>2. a.obj[a.list[i]].state \notin {"idle", "half_closed_remote", "closed"}
    BY <1>9 DEF Refused
  <2>3. ASSUME NEW k \in DOMAIN stack
        PROVE  stack[k].o # a.list[i]
    <3>1. Active(stack[k], a, client, gone)
      BY <1>7 DEF Fits, ActiveOK
    <3> QED
      BY <1>1, <1>3, <3>1 DEF Active
  <2> QED
    BY <1>1, <1>4, <1>6, <1>7, <2>1, <2>2, <2>3, BlockKeeps
<1> QED
  BY <1>8, <1>9

(* Part of the body of a request.                                          *)
LEMMA KeepsData ==
  ASSUME ConnInv, NEW i \in Streams, NEW n \in {0, 1}, NEW fin \in BOOLEAN,
         RecvData(i, n, fin)
  PROVE  ConnInv'
<1> DEFINE a == Admit(i)
           o == a.list[i]
           r == [a.obj[o] EXCEPT !.got = @ + n]
           t == [a EXCEPT !.obj[o].got = @ + n]
<1>1. /\ i \in Ids /\ Arrives /\ client[i] = "open" /\ n <= upload[i]
      /\ upload' = [upload EXCEPT ![i] = @ - n]
      /\ client' = [client EXCEPT ![i] = IF fin THEN "done" ELSE @]
      /\ setting' = setting /\ pushed' = pushed /\ header' = header
  BY Identifiers DEF RecvData
<1>2. /\ Admitted(a, i) /\ Unpromised(a, client, pushed)
      /\ a.made \in Nat /\ a.made <= Spent(frames', pushed)
      /\ frames' \in 0 .. MaxFrames /\ now' = now /\ gone' = gone /\ header = None
  BY <1>1, ArrivalFits
<1>3. IF Refused(a.obj[o].state, "DATA") \/ a.obj[o].state # "open"
      THEN EndSession(a)
      ELSE IF t.obj[o].got >= t.obj[o].need
      THEN Respond(t, i, fin, n)
      ELSE Proceed(IF fin THEN RemoteEnd(t, i) ELSE t, n)
  BY DEF RecvData
<1>4. Surroundings /\ client \in Clients /\ Pushing
  BY DEF ConnInv
<1>5. /\ client' \in Clients /\ client'[i] = IF fin THEN "done" ELSE client[i]
      /\ \A m \in Ids : m # i => client'[m] = client[m]
  BY <1>1, <1>4 DEF Clients
<1>6. Surroundings'
  <2>1. \A x \in 0 .. PostBody : n <= x => x - n \in 0 .. PostBody
    BY Http2Assumption
  <2>2. upload' \in [Ids -> 0 .. PostBody]
    BY <1>1, <1>4, <2>1 DEF Surroundings
  <2> QED
    BY <1>1, <1>2, <1>4, <2>2 DEF Surroundings
<1> HIDE DEF a
<1>7. /\ Fits(a, client, gone, stack) /\ o # None /\ a \in Tables
      /\ o \in Objs /\ a.obj[o] \in Sounds /\ a.obj \in [Objs -> Sounds]
  BY <1>1, <1>2 DEF Admitted, Fits, TableOK, Tables, Refs
<1>8. Fits(a, client', gone', stack)
  <2>1. \A m \in Ids : client'[m] = client[m] \/ client'[m] = "done"
    BY <1>5
  <2> QED
    BY <1>2, <1>7, <2>1, ToldFits
<1>9. r \in Sounds /\ r.state = a.obj[o].state /\ r.ended = a.obj[o].ended
  BY <1>7 DEF Sounds, Sound, StreamType
<1>10. t = Replace(a, o, r)
  <2>1. t = [list |-> a.list, obj |-> [a.obj EXCEPT ![o] = r], made |-> a.made]
    BY <1>7 DEF Tables
  <2>2. Replace(a, o, r) = [list |-> a.list, obj |-> [a.obj EXCEPT ![o] = r], made |-> a.made]
    BY <1>7 DEF Replace, Tables
  <2> QED
    BY <2>1, <2>2
<1> HIDE DEF t
<1>11. /\ Fits(t, client', gone', stack) /\ t.list = a.list /\ t.made = a.made
       /\ t.obj = [a.obj EXCEPT ![o] = r]
  <2>1. \A m \in Ids : a.list[m] = o => Ends(r, client'[m], gone')
    BY <1>7, <1>8, <1>9 DEF Fits, EndsOK, Ends
  <2>2. r.state = "idle" => a.obj[o].state = "idle"
    BY <1>9
  <2> HIDE DEF r, o
  <2> QED
    BY <1>7, <1>8, <1>9, <1>10, <2>1, <2>2, ReplacedFits
<1>12. t.obj[o].state = a.obj[o].state
  <2> HIDE DEF r
  <2> QED
    BY <1>7, <1>9, <1>11
<1>13. \A m \in Even : m \in Ids /\ client'[m] = client[m]
  BY <1>5, Identifiers DEF Even
<1>14. CASE Refused(a.obj[o].state, "DATA") \/ a.obj[o].state # "open"
  <2>1. Proceed(a, 0)
    BY <1>3, <1>14 DEF EndSession
  <2> HIDE DEF o, r
  <2> QED
    BY <1>1, <1>2, <1>5, <1>6, <1>8, <1>13, <2>1, StreamFrame DEF a
<1>15. CASE /\ ~(Refused(a.obj[o].state, "DATA") \/ a.obj[o].state # "open")
            /\ t.obj[o].got >= t.obj[o].need
  <2>1. Respond(t, i, fin, n)
    BY <1>3, <1>15
  <2>2. t.list[i] # None /\ t.obj[t.list[i]].state # "idle" /\ client'[i] # "idle"
        /\ (fin => client'[i] = "done")
    BY <1>1, <1>5, <1>7, <1>11, <1>12, <1>15
  <2>3. Unpromised(t, client', pushed') /\ t.made <= Spent(frames', pushed')
    BY <1>1, <1>2, <1>11, <1>13 DEF Unpromised
  <2>4. Pushing'
    BY <1>1, <1>4 DEF Pushing
  <2>5. header' = None
    BY <1>1, <1>2
  <2> HIDE DEF o, r
  <2> QED
    BY <1>1, <1>5, <1>6, <1>11, <2>1, <2>2, <2>3, <2>4, <2>5, RespondKeeps
<1>16. CASE /\ ~(Refused(a.obj[o].state, "DATA") \/ a.obj[o].state # "open")
            /\ ~(t.obj[o].got >= t.obj[o].need)
  <2> DEFINE v == IF fin THEN RemoteEnd(t, i) ELSE t
  <2>1. Proceed(v, n)
    BY <1>3, <1>16
  <2>2. t.list[i] # None
    BY <1>7, <1>11
  <2>3. Fits(v, client', gone', stack) /\ v.list = t.list /\ v.made = t.made
    <3>1. CASE fin
      <4>1. v = RemoteEnd(t, i)
        BY <3>1
      <4>2. client'[i] = "done"
        BY <1>5, <3>1
      <4>3. i \in Ids /\ Fits(t, client', gone', stack)
        BY <1>1, <1>11
      <4> HIDE DEF v, o, r
      <4>4. /\ Fits(RemoteEnd(t, i), client', gone', stack)
            /\ RemoteEnd(t, i).list = t.list /\ RemoteEnd(t, i).made = t.made
        BY <2>2, <4>2, <4>3, RemoteEndFits
      <4> QED
        BY <4>1, <4>4
    <3>2. CASE ~fin
      BY <1>11, <3>2
    <3> QED
      BY <3>1, <3>2
  <2> HIDE DEF v, o, r
  <2>4. \A m \in Even : v.list[m] \in {a.list[m], None}
                        /\ (client[m] = "idle" => client'[m] = client[m])
    BY <1>11, <1>13, <2>3
  <2>5. v.made = a.made
    BY <1>11, <2>3
  <2> QED
    BY <1>1, <1>2, <1>5, <1>6, <2>1, <2>3, <2>4, <2>5, StreamFrame DEF a
<1> QED
  BY <1>14, <1>15, <1>16

(* What is counted of an increment is no more than was granted.            *)
LEMMA DecodedLess ==
  ASSUME NEW n \in Nat
  PROVE  Decoded(n) \in Nat /\ Decoded(n) <= n
<1>1. LostBit \in Nat /\ LostBit # 0 /\ 0 < LostBit
  BY Http2Assumption
<1>2. CASE n < LostBit
  <2>1. n \div LostBit = 0
    BY <1>1, <1>2
  <2>2. Decoded(n) = n
    BY <2>1 DEF Decoded
  <2> QED
    BY <2>2
<1>3. CASE ~(n < LostBit)
  BY <1>1, <1>3 DEF Decoded
<1> QED
  BY <1>2, <1>3

(* A grant: what may be sent grows by no more than what was granted.       *)
LEMMA GrantFits ==
  ASSUME NEW a, NEW c, NEW left, NEW st, Fits(a, c, left, st),
         NEW i \in Ids, a.list[i] # None, NEW n \in Nat
  PROVE  /\ Fits(GrantTo(a, i, n), c, left, st)
         /\ GrantTo(a, i, n).list = a.list /\ GrantTo(a, i, n).made = a.made
<1> DEFINE o == a.list[i]
           r == [a.obj[o] EXCEPT !.win = @ + Decoded(n), !.granted = @ + n]
           w == [a EXCEPT !.obj[o].win = @ + Decoded(n)]
           t == GrantTo(a, i, n)
<1>1. /\ a \in Tables /\ o \in Objs /\ a.obj[o] \in Sounds /\ a.obj \in [Objs -> Sounds]
      /\ \A m \in Ids : a.list[m] = o => m = i
  BY DEF Fits, TableOK, Tables, Refs
<1>2. Decoded(n) \in Nat /\ Decoded(n) <= n
  BY DecodedLess
<1>3. r \in Sounds /\ r.state = a.obj[o].state /\ r.ended = a.obj[o].ended
  <2> DEFINE q == a.obj[o]
             d == Decoded(n)
  <2>1. /\ q \in StreamType /\ q.win \in Nat /\ q.granted \in Nat /\ q.sent \in Nat
        /\ q.win + q.sent <= q.granted /\ q.ended # "short"
        /\ (q.promise => q.state # "idle")
    BY <1>1 DEF Sounds, Sound, StreamType
  <2>2. d \in Nat /\ d <= n
    BY <1>2
  <2>3. r = [q EXCEPT !.win = q.win + d, !.granted = q.granted + n]
    OBVIOUS
  <2> HIDE DEF q, d, r
  <2>4. r \in StreamType
    <3>1. q.win + d \in Nat /\ q.granted + n \in Nat
      BY <2>1, <2>2
    <3>2. \A x, y \in Nat : [q EXCEPT !.win = x, !.granted = y] \in StreamType
      BY <2>1 DEF StreamType
    <3> QED
      BY <2>3, <3>1, <3>2
  <2>5. /\ r.win = q.win + d /\ r.granted = q.granted + n /\ r.sent = q.sent
        /\ r.ended = q.ended /\ r.promise = q.promise /\ r.state = q.state
    BY <2>1, <2>3 DEF StreamType
  <2>6. Sound(r)
    BY <2>1, <2>2, <2>5 DEF Sound
  <2> QED
    BY <2>4, <2>5, <2>6 DEF Sounds, q
<1>4. w = [list |-> a.list, obj |-> [a.obj EXCEPT ![o].win = @ + Decoded(n)], made |-> a.made]
  BY <1>1 DEF Tables
<1>5. t = [w EXCEPT !.obj[o].granted = @ + n]
  BY DEF GrantTo
<1> HIDE DEF w
<1>6. t = [list |-> a.list, obj |-> [w.obj EXCEPT ![o].granted = @ + n], made |-> a.made]
  BY <1>4, <1>5
<1>7. [w.obj EXCEPT ![o].granted = @ + n] = [a.obj EXCEPT ![o] = r]
  BY <1>1, <1>4
<1>8. t = Replace(a, o, r)
  <2>1. Replace(a, o, r) = [list |-> a.list, obj |-> [a.obj EXCEPT ![o] = r], made |-> a.made]
    BY <1>1 DEF Replace, Tables
  <2> HIDE DEF t, r
  <2> QED
    BY <1>6, <1>7, <2>1
<1>9. \A m \in Ids : a.list[m] = o => Ends(r, c[m], left)
  BY <1>1, <1>3 DEF Fits, EndsOK, Ends
<1>10. r.state = "idle" => a.obj[o].state = "idle"
  BY <1>3
<1>12. o \in Objs /\ r \in Sounds
  BY <1>1, <1>3
<1> HIDE DEF t, r, o
<1>11. /\ Fits(Replace(a, o, r), c, left, st)
       /\ Replace(a, o, r).list = a.list /\ Replace(a, o, r).made = a.made
       /\ Replace(a, o, r).obj = [a.obj EXCEPT ![o] = r]
  BY <1>9, <1>10, <1>12, ReplacedFits
<1> QED
  BY <1>8, <1>11 DEF t

(* WINDOW_UPDATE of a stream.                                              *)
LEMMA KeepsWindowUpdate ==
  ASSUME ConnInv, NEW i \in Ids, NEW n \in Increments, RecvWindowUpdate(i, n)
  PROVE  ConnInv'
<1> DEFINE a == Admit(i)
<1>1. /\ Arrives /\ Known(i) /\ setting' = setting /\ pushed' = pushed
      /\ client' = client /\ upload' = upload /\ header' = header
  BY DEF RecvWindowUpdate
<1>2. /\ Admitted(a, i) /\ frames' \in 0 .. MaxFrames /\ now' = now /\ gone' = gone
      /\ header = None
  BY <1>1, ArrivalFits
<1>3. client' \in Clients /\ Surroundings'
  BY <1>1, <1>2 DEF ConnInv, Surroundings
<1>4. Fits(a, client', gone', stack) /\ a.list[i] # None
  BY <1>1, <1>2 DEF Admitted
<1>5. CASE Refused(a.obj[a.list[i]].state, "WINDOW_UPDATE")
  <2>1. Proceed(a, 0)
    BY <1>5 DEF RecvWindowUpdate, EndSession
  <2> QED
    BY <1>1, <1>2, <1>3, <1>4, <2>1, StreamFrame
<1>6. CASE ~Refused(a.obj[a.list[i]].state, "WINDOW_UPDATE")
  <2> DEFINE t == GrantTo(a, i, n)
  <2>1. Proceed(t, 4)
    BY <1>6 DEF RecvWindowUpdate
  <2>2. n \in Nat
    BY Http2Assumption
  <2> HIDE DEF a
  <2>3. Fits(t, client', gone', stack) /\ t.list = a.list /\ t.made = a.made
    BY <1>4, <2>2, GrantFits
  <2> HIDE DEF t
  <2> QED
    BY <1>1, <1>2, <1>3, <2>1, <2>3, StreamFrame DEF a
<1> QED
  BY <1>5, <1>6

(* A unit for the response that waits.                                     *)
LEMMA KeepsGrantOne ==
  ASSUME ConnInv, GrantOne
  PROVE  ConnInv'
<1> DEFINE i == Top.s
           a == Admit(i)
           t == GrantTo(a, i, 1)
<1>1. /\ Nested /\ list[i] = Top.o /\ Known(i) /\ header = None /\ Proceed(t, 4)
      /\ setting' = setting /\ pushed' = pushed /\ now' = now /\ gone' = gone
      /\ client' = client /\ upload' = upload /\ header' = header /\ frames' = frames
  BY DEF GrantOne
<1>2. Surroundings' /\ Pushing' /\ client' \in Clients /\ frames \in Nat
  BY <1>1, Http2Assumption DEF ConnInv, Surroundings, Pushing
<1>3. i \in Ids /\ list[i] # None
  <2>1. Top \in Activation
    BY <1>1, TopActive DEF ConnInv, Fits
  <2> QED
    BY <1>1, <2>1 DEF Activation, Objs, None
<1> HIDE DEF i
<1>4. Admitted(a, i)
  BY <1>3, AdmitFits
<1> HIDE DEF a
<1>5. /\ Unpromised(a, client, pushed)
      /\ a.made \in Nat /\ a.made <= Spent(frames, pushed)
  BY <1>1, <1>2, <1>3, <1>4, AdmitSpends
<1>6. Fits(a, client', gone', stack) /\ a.list[i] # None
  BY <1>1, <1>4 DEF Admitted
<1>7. Fits(t, client', gone', stack) /\ t.list = a.list /\ t.made = a.made
  BY <1>3, <1>6, GrantFits
<1> HIDE DEF t
<1>8. Unpromised(t, client', pushed') /\ t.made <= Spent(frames', pushed')
  BY <1>1, <1>5, <1>7 DEF Unpromised
<1>9. Half(header', t, stack)
  BY <1>1 DEF Half
<1> QED
  BY <1>1, <1>2, <1>7, <1>8, <1>9, ProceedKeeps

(* RST_STREAM.                                                             *)
LEMMA KeepsRst ==
  ASSUME ConnInv, NEW i \in Ids, RecvRst(i)
  PROVE  ConnInv'
<1> DEFINE a == Admit(i)
           o == a.list[i]
<1>1. /\ Arrives /\ Known(i) /\ setting' = setting /\ pushed' = pushed
      /\ client' = [client EXCEPT ![i] = "reset"] /\ upload' = upload /\ header' = header
  BY DEF RecvRst
<1>2. /\ Admitted(a, i) /\ frames' \in 0 .. MaxFrames /\ now' = now /\ gone' = gone
      /\ header = None
  BY <1>1, ArrivalFits
<1>3. client \in Clients /\ Surroundings'
  BY <1>1, <1>2 DEF ConnInv, Surroundings
<1>4. /\ client' \in Clients /\ client'[i] = "reset"
      /\ \A n \in Ids : n # i => client'[n] = client[n]
  BY <1>1, <1>3 DEF Clients
<1>5. \A n \in Even : n \in Ids /\ (client[n] = "idle" => client'[n] = client[n])
  BY <1>1, <1>4 DEF Even, Known
<1>6. Proceed(a, 0) \/ Proceed([SetState(a, i, "closed") EXCEPT !.list[i] = None], 4)
  BY DEF RecvRst, EndSession
<1>7. Refused(a.obj[o].state, "RST_STREAM") <=> a.obj[o].state = "idle"
  BY DEF Refused
<1>8. IF Refused(a.obj[o].state, "RST_STREAM") THEN Proceed(a, 0)
      ELSE Proceed([SetState(a, i, "closed") EXCEPT !.list[i] = None], 4)
  BY DEF RecvRst, EndSession
<1> HIDE DEF a
<1>9. /\ Fits(a, client, gone, stack) /\ o # None /\ a \in Tables
      /\ o \in Objs /\ a.obj[o] \in Sounds
      /\ a.obj \in [Objs -> Sounds] /\ a.list \in [Ids -> Refs]
  BY <1>2 DEF Admitted, Fits, TableOK, Tables, Refs
<1>10. CASE a.obj[o].state = "idle"
  <2>1. Proceed(a, 0)
    BY <1>7, <1>8, <1>10
  <2>2. \A k \in DOMAIN stack : stack[k].o # o
    BY <1>9, <1>10 DEF Fits, ActiveOK, Active
  <2>3. ASSUME NEW n \in Ids
        PROVE  \/ client'[n] = client[n]
               \/ client'[n] = "done"
               \/ /\ client'[n] # "idle"
                  /\ a.list[n] # None =>
                       /\ a.obj[a.list[n]].state \notin {"half_closed_remote", "closed"}
                       /\ \A k \in DOMAIN stack : stack[k].o # a.list[n]
    BY <1>4, <1>10, <2>2
  <2>4. Fits(a, client', gone', stack)
    BY <1>2, <1>9, <2>3, ToldFits
  <2> QED
    BY <1>1, <1>2, <1>3, <1>4, <1>5, <2>1, <2>4, StreamFrame DEF a
<1>11. CASE a.obj[o].state # "idle"
  <2> DEFINE r == [a.obj[o] EXCEPT !.state = "closed"]
             s == SetState(a, i, "closed")
             t == [s EXCEPT !.list[i] = None]
  <2>1. Proceed(t, 4)
    BY <1>7, <1>8, <1>11
  <2>2. r \in Sounds /\ r.state = "closed"
    BY <1>9 DEF Sounds, Sound, StreamType, StreamStates
  <2>3. s = [list |-> a.list, obj |-> [a.obj EXCEPT ![o].state = "closed"], made |-> a.made]
    BY <1>9 DEF SetState, Tables
  <2>4. [a.obj EXCEPT ![o].state = "closed"] = [a.obj EXCEPT ![o] = r]
    BY <1>9
  <2> HIDE DEF s
  <2>5. t = [list |-> [a.list EXCEPT ![i] = None], obj |-> [a.obj EXCEPT ![o] = r],
             made |-> a.made]
    BY <2>3, <2>4
  <2> HIDE DEF t, r
  <2>6. Fits(t, client, gone, stack)
    BY <1>9, <2>2, <2>5, DroppedFits
  <2>7. t.list[i] = None /\ t.made = a.made /\ \A n \in Ids : t.list[n] \in {a.list[n], None}
    BY <1>9, <2>5
  <2>8. \A n \in Ids : client'[n] = client[n] \/ (client'[n] # "idle" /\ t.list[n] = None)
    BY <1>4, <2>7
  <2>9. Fits(t, client', gone', stack)
    BY <1>2, <2>6, <2>8, ToldFits
  <2>10. \A n \in Even : t.list[n] \in {a.list[n], None}
                         /\ (client[n] = "idle" => client'[n] = client[n])
    BY <1>5, <2>7
  <2> QED
    BY <1>1, <1>2, <1>3, <1>4, <2>1, <2>7, <2>9, <2>10, StreamFrame DEF a
<1> QED
  BY <1>10, <1>11

(* PRIORITY.                                                               *)
LEMMA KeepsPriority ==
  ASSUME ConnInv, NEW i \in Ids, RecvPriority(i)
  PROVE  ConnInv'
<1>1. /\ Arrives /\ (i \in Streams \/ Known(i)) /\ Proceed(Admit(i), 5)
      /\ setting' = setting /\ pushed' = pushed
      /\ client' = client /\ upload' = upload /\ header' = header
  BY DEF RecvPriority
<1>2. /\ Admitted(Admit(i), i) /\ frames' \in 0 .. MaxFrames /\ now' = now /\ gone' = gone
      /\ header = None
  BY <1>1, ArrivalFits
<1>3. client' \in Clients /\ Surroundings'
  BY <1>1, <1>2 DEF ConnInv, Surroundings
<1>4. Fits(Admit(i), client', gone', stack)
  BY <1>1, <1>2 DEF Admitted
<1> QED
  BY <1>1, <1>2, <1>3, <1>4, StreamFrame

(* The client leaves, if it has not left.                                  *)
LEMMA LeftFits ==
  ASSUME NEW t, NEW c, NEW left, NEW st, Fits(t, c, left, st)
  PROVE  Fits(t, c, TRUE, st)
BY DEF Fits, EndsOK, Ends, ActiveOK, Active

(* A frame of no stream.                                                   *)
LEMMA TableFrame ==
  ASSUME ConnInv, NEW len, Proceed(Table, len), frames' \in {frames, frames + 1},
         gone' \in {gone, TRUE}, pushed' = pushed, client' = client, header' = header,
         Surroundings'
  PROVE  ConnInv'
<1>1. /\ Fits(Table, client, gone, stack) /\ Half(header, Table, stack) /\ Pushing
      /\ Unpromised(Table, client, pushed) /\ Table.made <= Spent(frames, pushed)
      /\ frames \in Nat /\ Table.made \in Nat /\ client \in Clients /\ Pushes \in Nat
  BY Http2Assumption DEF ConnInv, Surroundings, Table, Fits, TableOK, Tables
<1>2. Table.made <= Spent(frames', pushed)
  BY <1>1 DEF Spent
<1>3. Fits(Table, client', gone', stack)
  BY <1>1, LeftFits
<1>4. Pushing'
  BY <1>1 DEF Pushing
<1> QED
  BY <1>1, <1>2, <1>3, <1>4, ProceedKeeps

(* The frames of no stream, and no frame.                                  *)
LEMMA KeepsOthers ==
  ASSUME ConnInv, RecvSettings \/ RecvSettingsAck \/ RecvOther \/ RecvGoaway \/ RecvNothing
  PROVE  ConnInv'
<1>1. Surroundings /\ MaxFrames \in Nat
  BY Http2Assumption DEF ConnInv
<1>2. ASSUME Arrives
      PROVE  /\ frames' \in {frames, frames + 1} /\ frames' \in 0 .. MaxFrames
             /\ now' = now /\ gone' = gone
  BY <1>1, <1>2 DEF Arrives, Surroundings
<1>3. CASE RecvSettings
  <2>1. setting' \in Settings
    BY <1>1, <1>3 DEF RecvSettings, Surroundings, Settings
  <2>2. /\ Arrives /\ Proceed(Table, 6) /\ pushed' = pushed /\ client' = client
        /\ header' = header /\ upload' = upload
    BY <1>3 DEF RecvSettings
  <2>3. Surroundings'
    BY <1>1, <1>2, <2>1, <2>2 DEF Surroundings
  <2> QED
    BY <1>2, <2>2, <2>3, TableFrame
<1>4. CASE RecvSettingsAck \/ RecvOther \/ RecvGoaway
  <2>1. /\ Arrives /\ pushed' = pushed /\ client' = client
        /\ header' = header /\ upload' = upload /\ setting' = setting
    BY <1>4 DEF RecvSettingsAck, RecvOther, RecvGoaway
  <2>2. Proceed(Table, 0) \/ Proceed(Table, 4)
    BY <1>4 DEF RecvSettingsAck, RecvOther, RecvGoaway, EndSession
  <2>3. Surroundings'
    BY <1>1, <1>2, <2>1 DEF Surroundings
  <2> QED
    BY <1>2, <2>1, <2>2, <2>3, TableFrame
<1>5. CASE RecvNothing
  <2>1. /\ Proceed(Table, 0) /\ gone' = TRUE /\ pushed' = pushed /\ client' = client
        /\ header' = header /\ upload' = upload /\ setting' = setting /\ now' = now
        /\ frames' = frames
    BY <1>5 DEF RecvNothing, EndSession
  <2>2. Surroundings'
    BY <1>1, <2>1 DEF Surroundings
  <2> QED
    BY <2>1, <2>2, TableFrame
<1> QED
  BY <1>3, <1>4, <1>5

-----------------------------------------------------------------------------
(* The steps of a response.                                                *)

(* A step that leaves the client, the settings and the clock alone, and    *)
(* the table but for one object.                                           *)
LEMMA ReplyKeeps ==
  ASSUME ConnInv, UNCHANGED environment, list' = list, made' = made,
         conn' \in {"open", "closed", "dangling", "stuck"}, Pushing', pushed' = "none" => pushed = "none",
         NEW o \in Objs, NEW r \in Sounds, obj' = obj \/ obj' = [obj EXCEPT ![o] = r],
         r.state = "idle" => obj[o].state = "idle",
         \A i \in Ids : list[i] = o => Ends(r, client[i], gone),
         ActiveOK(stack', Table, client, gone),
         header # None => \A k \in DOMAIN stack' : stack'[k].s # header
  PROVE  ConnInv'
<1>1. /\ setting' = setting /\ now' = now /\ gone' = gone /\ client' = client
      /\ upload' = upload /\ header' = header /\ frames' = frames
  BY DEF environment
<1>2. /\ Surroundings /\ Pushing /\ client \in Clients /\ Fits(Table, client, gone, stack)
      /\ Half(header, Table, stack) /\ Unpromised(Table, client, pushed)
      /\ made <= Spent(frames, pushed)
      /\ Table.list = list /\ Table.obj = obj /\ Table.made = made
  BY DEF ConnInv, Table
<1>3. Surroundings'
  BY <1>1, <1>2 DEF Surroundings
<1>4. Fits(Table, client, gone, stack')
  BY <1>2 DEF Fits
<1>5. Fits(Table', client, gone, stack') /\ Table'.list = list
  <2>1. CASE obj' = obj
    <3>1. Table' = Table
      BY <2>1 DEF Table
    <3> QED
      BY <1>2, <1>4, <3>1
  <2>2. CASE obj' = [obj EXCEPT ![o] = r]
    <3>1. Table' = Replace(Table, o, r)
      BY <2>2 DEF Table, Replace
    <3>2. /\ Fits(Replace(Table, o, r), client, gone, stack')
          /\ Replace(Table, o, r).list = Table.list /\ Replace(Table, o, r).made = Table.made
          /\ Replace(Table, o, r).obj = [Table.obj EXCEPT ![o] = r]
      BY <1>2, <1>4, ReplacedFits
    <3> QED
      BY <1>2, <3>1, <3>2
  <2> QED
    BY <2>1, <2>2
<1>6. Half(header', Table', stack')
  BY <1>1, <1>2, <1>5 DEF Half
<1>7. Unpromised(Table', client, pushed')
  BY <1>2, <1>5 DEF Unpromised
<1>8. made' <= Spent(frames', pushed')
  <2>1. frames \in Nat /\ Pushes \in Nat /\ made \in Nat
    BY <1>2, Http2Assumption DEF Surroundings, Fits, TableOK, Tables
  <2> QED
    BY <1>1, <1>2, <2>1 DEF Spent
<1> QED
  BY <1>1, <1>2, <1>3, <1>5, <1>6, <1>7, <1>8 DEF ConnInv

(* What a response that runs finds.                                        *)
LEMMA RunningFinds ==
  ASSUME ConnInv, NEW pc, Running(pc)
  PROVE  /\ Nested /\ Top.pc = pc /\ conn = "open" /\ Pushing /\ stack \in Seq(Activation)
         /\ Top \in Activation /\ Top.o \in Objs /\ Top.s \in Ids
         /\ obj[Top.o] \in Sounds /\ obj[Top.o].state # "idle"
         /\ Active(Top, Table, client, gone) /\ ActiveOK(stack, Table, client, gone)
         /\ obj \in [Objs -> Sounds] /\ list \in [Ids -> Refs]
         /\ Len(stack) \in DOMAIN stack /\ Top = stack[Len(stack)]
         /\ header # None => \A k \in DOMAIN stack : stack[k].s # header
<1>1. /\ Nested /\ Top.pc = pc /\ conn = "open" /\ Pushing
      /\ Fits(Table, client, gone, stack) /\ Half(header, Table, stack)
  BY DEF ConnInv, Running
<1>2. ActiveOK(stack, Table, client, gone) /\ stack \in Seq(Activation)
  BY <1>1 DEF Fits, ActiveOK
<1>3. /\ Len(stack) \in DOMAIN stack /\ Top = stack[Len(stack)]
      /\ Top \in Activation /\ Active(Top, Table, client, gone)
  BY <1>1, <1>2, TopActive
<1>4. obj \in [Objs -> Sounds] /\ list \in [Ids -> Refs]
  BY <1>1 DEF Fits, TableOK, Tables, Table
<1>5. Top.o \in Objs /\ Top.s \in Ids
  BY <1>3 DEF Activation
<1>6. obj[Top.o].state # "idle"
  BY <1>3 DEF Active, Table
<1> QED
  BY <1>1, <1>2, <1>3, <1>4, <1>5, <1>6 DEF Half

(* A response goes on and touches no stream.                               *)
LEMMA ReplyMoves ==
  ASSUME ConnInv, NEW pc, Running(pc), UNCHANGED environment,
         obj' = obj, list' = list, made' = made,
         conn' \in {"open", "closed", "dangling", "stuck"}, Pushing', pushed' = "none" => pushed = "none",
         ActiveOK(stack', Table, client, gone),
         header # None => \A k \in DOMAIN stack' : stack'[k].s # header
  PROVE  ConnInv'
<1> DEFINE o == Top.o
           r == obj[o]
<1>1. o \in Objs /\ r \in Sounds
  BY RunningFinds
<1>2. \A i \in Ids : list[i] = o => Ends(r, client[i], gone)
  <2>1. EndsOK(Table, client, gone)
    BY DEF ConnInv, Fits
  <2> QED
    BY <1>1, <2>1 DEF EndsOK, Table, Objs, None
<1>3. r.state = "idle" => obj[o].state = "idle"
  OBVIOUS
<1> HIDE DEF o, r
<1> QED
  BY <1>1, <1>2, <1>3, ReplyKeeps

(* A response goes on with a step of the stream that has its identifier.   *)
LEMMA StreamMoves ==
  ASSUME ConnInv, NEW pc, Running(pc), UNCHANGED environment, list' = list, made' = made,
         conn' = conn, Pushing', pushed' = "none" => pushed = "none",
         NEW next \in PCs, stack' = SetTop(next), next # "end",
         NEW r, obj' = IF list[Top.s] = None THEN obj ELSE [obj EXCEPT ![list[Top.s]] = r],
         list[Top.s] # None =>
           r \in Sounds /\ r.state # "idle" /\ Ends(r, client[Top.s], gone)
  PROVE  ConnInv'
<1>1. /\ Nested /\ conn = "open" /\ Top.s \in Ids /\ ActiveOK(stack, Table, client, gone)
      /\ (header # None => \A k \in DOMAIN stack : stack[k].s # header)
      /\ list \in [Ids -> Refs]
  BY RunningFinds
<1>2. /\ ActiveOK(SetTop(next), Table, client, gone) /\ DOMAIN SetTop(next) = DOMAIN stack
      /\ \A k \in DOMAIN stack : SetTop(next)[k].s = stack[k].s
  BY <1>1, TopSet
<1>3. ActiveOK(stack', Table, client, gone)
      /\ (header # None => \A k \in DOMAIN stack' : stack'[k].s # header)
  BY <1>1, <1>2
<1>4. conn' \in {"open", "closed", "dangling", "stuck"}
  BY <1>1
<1>5. CASE list[Top.s] = None
  <2>1. obj' = obj
    BY <1>5
  <2> QED
    BY <1>3, <1>4, <2>1, ReplyMoves
<1>6. CASE list[Top.s] # None
  <2> DEFINE o == list[Top.s]
  <2>1. o \in Objs /\ r \in Sounds /\ obj' = [obj EXCEPT ![o] = r]
    BY <1>1, <1>6 DEF Refs
  <2>2. \A i \in Ids : list[i] = o => i = Top.s
    BY <1>1, <1>6 DEF ConnInv, Fits, TableOK, Table
  <2>3. \A i \in Ids : list[i] = o => Ends(r, client[i], gone)
    BY <1>6, <2>2
  <2>4. r.state = "idle" => obj[o].state = "idle"
    BY <1>6
  <2> HIDE DEF o
  <2> QED
    BY <1>3, <1>4, <2>1, <2>3, <2>4, ReplyKeeps
<1> QED
  BY <1>5, <1>6

(* TransHttp1SendHttp2Header.                                              *)
LEMMA KeepsSendHeader ==
  ASSUME ConnInv, SendHeader
  PROVE  ConnInv'
<1> DEFINE r == [obj[list[Top.s]] EXCEPT !.state = "open"]
<1>1. /\ Running("head") /\ stack' = SetTop("data") /\ UNCHANGED environment
      /\ list' = list /\ made' = made /\ conn' = conn /\ pushed' = pushed
  BY DEF SendHeader
<1>2. obj' = IF list[Top.s] = None THEN obj ELSE [obj EXCEPT ![list[Top.s]] = r]
  BY DEF SendHeader
<1>3. Top.s \in Ids /\ list \in [Ids -> Refs] /\ obj \in [Objs -> Sounds] /\ Pushing
  BY <1>1, RunningFinds
<1>4. ASSUME list[Top.s] # None
      PROVE  r \in Sounds /\ r.state # "idle" /\ Ends(r, client[Top.s], gone)
  <2>1. obj[list[Top.s]] \in Sounds /\ "open" \in StreamStates
    BY <1>3, <1>4 DEF Refs, StreamStates
  <2>2. r \in Sounds /\ r.state = "open"
    BY <2>1, StateSet
  <2> QED
    BY <2>2 DEF Ends
<1>5. "data" \in PCs /\ "data" # "end"
  BY DEF PCs
<1>6. Pushing'
  BY <1>1, <1>3 DEF Pushing
<1> HIDE DEF r
<1> QED
  BY <1>1, <1>2, <1>4, <1>5, <1>6, StreamMoves

(* The least of three numbers.                                             *)
LEMMA LeastIs ==
  ASSUME NEW l \in Nat, NEW m \in Nat, NEW n \in Nat
  PROVE  Least(l, m, n) \in Nat /\ Least(l, m, n) <= l /\ Least(l, m, n) <= n
<1>1. \E k \in {l, m, n} : k <= l /\ k <= m /\ k <= n
  <2>1. CASE l <= m /\ l <= n
    BY <2>1
  <2>2. CASE m <= l /\ m <= n
    BY <2>2
  <2>3. CASE n <= l /\ n <= m
    BY <2>3
  <2> QED
    BY <2>1, <2>2, <2>3
<1> QED
  BY <1>1 DEF Least

(* A turn of TransHttp1SendHttp2Content: what is sent is taken from the    *)
(* window.                                                                 *)
LEMMA KeepsSendData ==
  ASSUME ConnInv, SendData
  PROVE  ConnInv'
<1> DEFINE o == Top.o
           n == Least(Top.left, FrameMax, obj[o].win)
           r == [obj[o] EXCEPT !.win = @ - n, !.sent = @ + n]
           a == [Top EXCEPT !.pc = Onward(n), !.left = Top.left - n]
<1>1. /\ Running("data") /\ UNCHANGED environment
      /\ list' = list /\ made' = made /\ conn' = conn /\ pushed' = pushed
  BY DEF SendData
<1>2. IF gone
      THEN stack' = SetTop(AfterBody) /\ obj' = obj
      ELSE /\ obj' = [obj EXCEPT ![o].win = @ - n, ![o].sent = @ + n]
           /\ stack' = [SetTop(Onward(n)) EXCEPT ![Len(stack)].left = @ - n]
  BY DEF SendData
<1>3. /\ Nested /\ conn = "open" /\ Pushing /\ Top \in Activation /\ o \in Objs
      /\ stack \in Seq(Activation)
      /\ obj[o] \in Sounds /\ obj[o].state # "idle" /\ obj \in [Objs -> Sounds]
      /\ Active(Top, Table, client, gone) /\ ActiveOK(stack, Table, client, gone)
      /\ Len(stack) \in DOMAIN stack /\ Top = stack[Len(stack)]
      /\ (header # None => \A k \in DOMAIN stack : stack[k].s # header)
  BY <1>1, RunningFinds
<1>4. conn' \in {"open", "closed", "dangling", "stuck"} /\ Pushing'
  BY <1>1, <1>3 DEF Pushing
<1>5. AfterBody \in PCs
  BY DEF AfterBody, PCs
<1>6. CASE gone
  <2>1. stack' = SetTop(AfterBody) /\ obj' = obj
    BY <1>2, <1>6
  <2>2. /\ ActiveOK(SetTop(AfterBody), Table, client, gone)
        /\ DOMAIN SetTop(AfterBody) = DOMAIN stack
        /\ \A k \in DOMAIN stack : SetTop(AfterBody)[k].s = stack[k].s
    BY <1>3, <1>5, <1>6, TopSet
  <2>3. header # None => \A k \in DOMAIN stack' : stack'[k].s # header
    BY <1>3, <2>1, <2>2
  <2> HIDE DEF o, n
  <2> QED
    BY <1>1, <1>4, <2>1, <2>2, <2>3, ReplyMoves
<1>7. CASE ~gone
  <2>1. /\ obj' = [obj EXCEPT ![o].win = @ - n, ![o].sent = @ + n]
        /\ stack' = [SetTop(Onward(n)) EXCEPT ![Len(stack)].left = @ - n]
    BY <1>2, <1>7
  <2>2. Top.left \in Nat /\ obj[o].win \in Nat /\ FrameMax \in Nat
    BY <1>3, Http2Assumption DEF Activation, Sounds, StreamType
  <2>3. n \in Nat /\ n <= Top.left /\ n <= obj[o].win
    BY <2>2, LeastIs
  <2> HIDE DEF n
  <2>4. r \in Sounds /\ r.state = obj[o].state /\ r.ended = obj[o].ended
    <3> DEFINE q == obj[o]
    <3>1. /\ q \in StreamType /\ q.win \in Nat /\ q.granted \in Nat /\ q.sent \in Nat
          /\ q.win + q.sent <= q.granted /\ q.ended # "short"
          /\ (q.promise => q.state # "idle")
      BY <1>3 DEF Sounds, Sound, StreamType
    <3>2. q.win - n \in Nat /\ q.sent + n \in Nat
          /\ (q.win - n) + (q.sent + n) <= q.granted
      BY <2>3, <3>1
    <3>3. r = [q EXCEPT !.win = q.win - n, !.sent = q.sent + n]
      OBVIOUS
    <3> HIDE DEF q, r
    <3>4. r \in StreamType
      <4>1. \A x, y \in Nat : [q EXCEPT !.win = x, !.sent = y] \in StreamType
        BY <3>1 DEF StreamType
      <4> QED
        BY <3>2, <3>3, <4>1
    <3>5. /\ r.win = q.win - n /\ r.sent = q.sent + n /\ r.granted = q.granted
          /\ r.ended = q.ended /\ r.promise = q.promise /\ r.state = q.state
      BY <3>1, <3>3 DEF StreamType
    <3>6. Sound(r)
      BY <3>1, <3>2, <3>5 DEF Sound
    <3> QED
      BY <3>4, <3>5, <3>6 DEF Sounds, q
  <2>5. obj' = [obj EXCEPT ![o] = r]
    BY <1>3, <2>1
  <2>6. Onward(n) \in PCs /\ (Onward(n) = "end" => Top.left = n)
    BY <1>5 DEF Onward, PCs
  <2>7. a \in Activation /\ a.s = Top.s
    <3>1. Top.left - n \in Nat
      BY <2>2, <2>3
    <3> QED
      BY <1>3, <2>6, <3>1 DEF Activation
  <2>8. Active(a, Table, client, gone)
    <3>1. a.pc = Onward(n) /\ a.left = Top.left - n /\ a.o = Top.o /\ a.fin = Top.fin
      BY <1>3 DEF Activation
    <3>2. a.pc = "end" => a.left = 0
      BY <2>2, <2>3, <2>6, <3>1
    <3> QED
      BY <1>3, <2>7, <3>1, <3>2 DEF Active
  <2>9. stack' = [stack EXCEPT ![Len(stack)] = a]
    <3>1. SetTop(Onward(n)) = [stack EXCEPT ![Len(stack)].pc = Onward(n)]
      BY DEF SetTop
    <3> QED
      BY <1>3, <2>1, <3>1 DEF Activation
  <2> HIDE DEF a, r
  <2>10. /\ ActiveOK([stack EXCEPT ![Len(stack)] = a], Table, client, gone)
         /\ DOMAIN [stack EXCEPT ![Len(stack)] = a] = DOMAIN stack
         /\ \A k \in DOMAIN stack : [stack EXCEPT ![Len(stack)] = a][k]
                                     = IF k = Len(stack) THEN a ELSE stack[k]
    <3>1. stack # <<>>
      BY <1>3 DEF Nested
    <3> QED
      BY <1>3, <2>7, <2>8, <3>1, TopReplaced
  <2>11. header # None => \A k \in DOMAIN stack' : stack'[k].s # header
    BY <1>3, <2>7, <2>9, <2>10
  <2>12. \A i \in Ids : list[i] = o => Ends(r, client[i], gone)
    <3>1. o # None
      BY <1>3 DEF Objs, None
    <3> QED
      BY <2>4, <3>1 DEF ConnInv, Fits, EndsOK, Ends, Table
  <2>13. r.state = "idle" => obj[o].state = "idle"
    BY <2>4
  <2>14. ActiveOK(stack', Table, client, gone)
    BY <2>9, <2>10
  <2>15. o \in Objs /\ r \in Sounds
    BY <1>3, <2>4
  <2> HIDE DEF o
  <2> QED
    BY <1>1, <1>4, <2>5, <2>11, <2>12, <2>13, <2>14, <2>15, ReplyKeeps
<1> QED
  BY <1>6, <1>7

(* SendHttp2EmptyContent: END_STREAM is sent after the whole body, or to   *)
(* nobody.                                                                 *)
LEMMA KeepsSendEnd ==
  ASSUME ConnInv, SendEnd
  PROVE  ConnInv'
<1> DEFINE q == obj[list[Top.s]]
           r == Ended(q)
           next == IF setting.push /\ pushed = "requested" THEN "push" ELSE "fin"
<1>1. /\ Running("end") /\ stack' = SetTop(next) /\ UNCHANGED environment
      /\ list' = list /\ made' = made /\ conn' = conn /\ pushed' \in {pushed, "answered"}
  BY DEF SendEnd
<1>2. obj' = IF list[Top.s] = None THEN obj ELSE [obj EXCEPT ![list[Top.s]] = r]
  BY DEF SendEnd
<1>3. /\ Top.s \in Ids /\ list \in [Ids -> Refs] /\ obj \in [Objs -> Sounds] /\ Pushing
      /\ (Top.left = 0 \/ gone)
  BY <1>1, RunningFinds DEF Active
<1>4. ASSUME list[Top.s] # None
      PROVE  r \in Sounds /\ r.state # "idle" /\ Ends(r, client[Top.s], gone)
  <2>1. q \in Sounds /\ Ends(q, client[Top.s], gone)
    BY <1>3, <1>4 DEF Refs, ConnInv, Fits, EndsOK, Table
  <2> DEFINE s == EndSent(q.state)
             e == IF gone THEN q.ended ELSE IF Top.left = 0 THEN "whole" ELSE "short"
  <2> HIDE DEF q
  <2>2. q \in StreamType /\ q.state \in StreamStates /\ q.ended \in {"no", "whole"} /\ Sound(q)
    BY <2>1 DEF Sounds, Sound, StreamType
  <2>3. /\ s \in StreamStates /\ s \in {"half_closed_local", "closed"}
        /\ (s = "closed" => q.state = "half_closed_remote")
    BY <2>2, EndStates DEF StreamStates
  <2>4. e \in {"no", "whole"} /\ (e # "no" \/ gone)
    BY <1>3, <2>2
  <2>5. r = [q EXCEPT !.state = s, !.ended = e]
    BY DEF Ended
  <2> HIDE DEF s, e, r
  <2>6. /\ r \in StreamType /\ r.state = s /\ r.ended = e /\ r.win = q.win
        /\ r.sent = q.sent /\ r.granted = q.granted
    BY <2>2, <2>3, <2>4, <2>5 DEF StreamType
  <2>7. r \in Sounds
    BY <2>2, <2>3, <2>4, <2>6 DEF Sounds, Sound
  <2> QED
    BY <2>1, <2>3, <2>4, <2>6, <2>7 DEF Ends
<1>5. next \in PCs /\ next # "end"
  BY DEF PCs
<1>6. Pushing' /\ (pushed' = "none" => pushed = "none")
  BY <1>1, <1>3 DEF Pushing
<1> HIDE DEF r, next
<1> QED
  BY <1>1, <1>2, <1>4, <1>5, <1>6, StreamMoves

(* SendHttp2PushPromiseResponse: on to the next promise.                   *)
LEMMA KeepsPushNext ==
  ASSUME ConnInv, PushNext
  PROVE  ConnInv'
<1>1. /\ Running("push") /\ UNCHANGED environment /\ pushed' = pushed
      /\ list' = list /\ made' = made /\ obj' = obj
  BY DEF PushNext
<1>2. /\ Nested /\ conn = "open" /\ Pushing /\ Top \in Activation
      /\ stack \in Seq(Activation) /\ list \in [Ids -> Refs] /\ obj \in [Objs -> Sounds]
      /\ Active(Top, Table, client, gone) /\ ActiveOK(stack, Table, client, gone)
      /\ Len(stack) \in DOMAIN stack /\ Top = stack[Len(stack)]
      /\ (header # None => \A k \in DOMAIN stack : stack[k].s # header)
  BY <1>1, RunningFinds
<1>3. Pushing'
  BY <1>1, <1>2 DEF Pushing
<1>4. CASE Top.it # None /\ list[Top.it] # Top.at
  <2>1. conn' = "dangling" /\ stack' = stack
    BY <1>4 DEF PushNext
  <2> QED
    BY <1>1, <1>2, <1>3, <2>1, ReplyMoves
<1>5. CASE ~(Top.it # None /\ list[Top.it] # Top.at) /\ Promises = {}
  <2>1. conn' = conn /\ stack' = SetTop("fin")
    BY <1>5 DEF PushNext
  <2>2. "fin" \in PCs /\ "fin" # "end"
    BY DEF PCs
  <2>3. /\ ActiveOK(SetTop("fin"), Table, client, gone) /\ DOMAIN SetTop("fin") = DOMAIN stack
        /\ \A k \in DOMAIN stack : SetTop("fin")[k].s = stack[k].s
    BY <1>2, <2>2, TopSet
  <2>4. header # None => \A k \in DOMAIN stack' : stack'[k].s # header
    BY <1>2, <2>1, <2>3
  <2> QED
    BY <1>1, <1>2, <1>3, <2>1, <2>3, <2>4, ReplyMoves
<1>6. CASE ~(Top.it # None /\ list[Top.it] # Top.at) /\ Promises # {}
  <2> DEFINE i == CHOOSE n \in Promises : \A m \in Promises : n <= m
  <2>1. i \in Promises
    <3>1. Promises \in SUBSET Nat
      BY Identifiers DEF Promises
    <3>2. \E n \in Promises : \A m \in Promises : n <= m
      BY <1>6, <3>1, LeastNatural
    <3> QED
      BY <3>2
  <2>2. /\ conn' = conn
        /\ \E body \in Bodies, kind \in {"doc", "error"} :
             stack' = Append([stack EXCEPT ![Len(stack)].it = i, ![Len(stack)].at = list[i]],
                             [s |-> i, o |-> list[i], pc |-> "head",
                              left |-> body, kind |-> kind, fin |-> FALSE,
                              it |-> None, at |-> None, len |-> 1])
    BY <1>6 DEF PushNext
  <2> HIDE DEF i
  <2>3. PICK body \in Bodies, kind \in {"doc", "error"} :
          stack' = Append([stack EXCEPT ![Len(stack)].it = i, ![Len(stack)].at = list[i]],
                          [s |-> i, o |-> list[i], pc |-> "head",
                           left |-> body, kind |-> kind, fin |-> FALSE,
                           it |-> None, at |-> None, len |-> 1])
    BY <2>2
  <2> DEFINE a == [Top EXCEPT !.it = i, !.at = list[i]]
             b == [s |-> i, o |-> list[i], pc |-> "head", left |-> body, kind |-> kind,
                   fin |-> FALSE, it |-> None, at |-> None, len |-> 1]
             st == [stack EXCEPT ![Len(stack)] = a]
  <2>4. i \in Ids /\ i % 2 = 0 /\ list[i] \in Objs /\ obj[list[i]].promise
    BY <1>2, <2>1 DEF Promises, Refs
  <2>5. a \in Activation /\ a.s = Top.s
    BY <1>2, <2>4 DEF Activation
  <2>6. Active(a, Table, client, gone)
    <3>1. a.o = Top.o /\ a.s = Top.s /\ a.pc = Top.pc /\ a.left = Top.left /\ a.fin = Top.fin
      BY <1>2 DEF Activation
    <3> QED
      BY <1>2, <3>1 DEF Active
  <2>7. b \in Activation
    <3>1. body \in Nat
      BY Http2Assumption
    <3> QED
      BY <2>4, <3>1 DEF Activation, PCs
  <2>8. Active(b, Table, client, gone)
    <3>1. TableOK(Table) /\ Table.list = list /\ Table.obj = obj
      BY DEF ConnInv, Fits, Table
    <3>2. list[i] <= Table.made /\ list[i] # None
      BY <2>4, <3>1 DEF TableOK, Objs, None
    <3>3. \A n \in Ids : list[n] = list[i] => n = i
      BY <2>4, <3>1, <3>2 DEF TableOK
    <3>4. obj[list[i]].state # "idle"
      <4>1. obj[list[i]] \in Sounds
        BY <1>2, <2>4
      <4> QED
        BY <2>4, <4>1 DEF Sounds, Sound
    <3>5. i \notin Streams
      BY <2>4, Identifiers
    <3> QED
      BY <3>1, <3>2, <3>3, <3>4, <3>5 DEF Active
  <2>9. stack' = Append(st, b)
    BY <1>2, <2>3
  <2> HIDE DEF a
  <2>10. /\ ActiveOK(st, Table, client, gone) /\ DOMAIN st = DOMAIN stack
         /\ \A k \in DOMAIN stack : st[k] = IF k = Len(stack) THEN a ELSE stack[k]
    <3>1. stack # <<>>
      BY <1>2 DEF Nested
    <3> QED
      BY <1>2, <2>5, <2>6, <3>1, TopReplaced
  <2>11. \A k \in DOMAIN stack : st[k].s = stack[k].s
    BY <1>2, <2>5, <2>10
  <2>12. b.s = i
    OBVIOUS
  <2> HIDE DEF b, st
  <2>13. /\ ActiveOK(Append(st, b), Table, client, gone)
         /\ \A k \in DOMAIN Append(st, b) :
              Append(st, b)[k] = b \/ (k \in DOMAIN st /\ Append(st, b)[k] = st[k])
    BY <2>7, <2>8, <2>10, Appended
  <2>14. header # None => i # header
    BY <2>4, Identifiers DEF ConnInv, Half
  <2>15. ASSUME header # None, NEW k \in DOMAIN Append(st, b)
         PROVE  Append(st, b)[k].s # header
    BY <1>2, <2>10, <2>11, <2>12, <2>13, <2>14, <2>15
  <2>16. header # None => \A k \in DOMAIN stack' : stack'[k].s # header
    BY <2>9, <2>15
  <2>17. ActiveOK(stack', Table, client, gone)
    BY <2>9, <2>13
  <2> QED
    BY <1>1, <1>2, <1>3, <2>2, <2>16, <2>17, ReplyMoves
<1> QED
  BY <1>4, <1>5, <1>6

(* The end of the handling of a request.                                   *)
LEMMA KeepsFinish ==
  ASSUME ConnInv, Finish
  PROVE  ConnInv'
<1> DEFINE o == Top.o
           q == obj[o]
           r == IF Top.fin THEN [q EXCEPT !.state = EndReceived(q.state)] ELSE q
           st == SubSeq(stack, 1, Len(stack) - 1)
<1>1. /\ Running("fin") /\ UNCHANGED environment /\ pushed' = pushed
      /\ list' = list /\ made' = made /\ stack' = st
      /\ conn' \in {conn, "closed"}
  BY DEF Finish
<1>2. /\ Nested /\ conn = "open" /\ Pushing /\ Top \in Activation /\ o \in Objs
      /\ stack \in Seq(Activation) /\ obj \in [Objs -> Sounds] /\ q \in Sounds
      /\ q.state # "idle"
      /\ Active(Top, Table, client, gone) /\ ActiveOK(stack, Table, client, gone)
      /\ Len(stack) \in DOMAIN stack
      /\ (header # None => \A k \in DOMAIN stack : stack[k].s # header)
  BY <1>1, RunningFinds
<1>3. Pushing' /\ conn' \in {"open", "closed", "dangling", "stuck"}
  BY <1>1, <1>2 DEF Pushing
<1>4. obj' = [obj EXCEPT ![o] = r]
  <2>1. obj' = IF Top.fin THEN [obj EXCEPT ![o].state = EndReceived(@)] ELSE obj
    BY DEF Finish
  <2> QED
    BY <1>2, <2>1
<1>5. /\ q.state \in StreamStates /\ EndReceived(q.state) \in {"half_closed_remote", "closed"}
      /\ (EndReceived(q.state) = "closed" => q.state = "half_closed_local")
  <2>1. q.state \in StreamStates
    BY <1>2 DEF Sounds, StreamType
  <2> QED
    BY <2>1, EndStates
<1>6. EndReceived(q.state) \in StreamStates /\ EndReceived(q.state) # "idle"
  BY <1>5 DEF StreamStates
<1>7. r \in Sounds /\ r.state # "idle" /\ r.ended = q.ended
      /\ (Top.fin => r.state = EndReceived(q.state)) /\ (~Top.fin => r = q)
  <2>1. CASE Top.fin
    <3> HIDE DEF q
    <3>1. /\ [q EXCEPT !.state = EndReceived(q.state)] \in Sounds
          /\ [q EXCEPT !.state = EndReceived(q.state)].state = EndReceived(q.state)
          /\ [q EXCEPT !.state = EndReceived(q.state)].ended = q.ended
      BY <1>2, <1>6, StateSet
    <3> QED
      BY <1>6, <2>1, <3>1
  <2>2. CASE ~Top.fin
    BY <1>2, <2>2
  <2> QED
    BY <2>1, <2>2
<1> HIDE DEF r
<1>8. ASSUME NEW i \in Ids, list[i] = o
      PROVE  Ends(r, client[i], gone)
  <2>1. Ends(q, client[i], gone)
    BY <1>2, <1>8 DEF ConnInv, Fits, EndsOK, Table, Objs, None
  <2>2. Top.fin => client[i] = "done"
    BY <1>2, <1>8 DEF Active, Table
  <2> HIDE DEF q
  <2> QED
    BY <1>5, <1>7, <2>1, <2>2 DEF Ends
<1>9. st \in Seq(Activation) /\ \A k \in DOMAIN st : k \in DOMAIN stack /\ st[k] = stack[k]
  BY <1>2
<1> HIDE DEF st
<1>10. ActiveOK(stack', Table, client, gone)
  BY <1>1, <1>2, <1>9 DEF ActiveOK
<1>11. header # None => \A k \in DOMAIN stack' : stack'[k].s # header
  BY <1>1, <1>2, <1>9
<1>12. \A i \in Ids : list[i] = o => Ends(r, client[i], gone)
  BY <1>8
<1>13. r.state = "idle" => obj[o].state = "idle"
  BY <1>7
<1> HIDE DEF o, q
<1> QED
  BY <1>1, <1>2, <1>3, <1>4, <1>7, <1>10, <1>11, <1>12, <1>13, ReplyKeeps

-----------------------------------------------------------------------------
(* The invariant.                                                          *)

(* The steps that move nothing of the server but whether it is defined.    *)
LEMMA KeepsWorld ==
  ASSUME ConnInv, UseDangling \/ Tick \/ Leave \/ Stall \/ UNCHANGED vars
  PROVE  ConnInv'
<1>1. /\ list' = list /\ obj' = obj /\ made' = made /\ stack' = stack
      /\ conn' \in {conn, "dangling", "stuck"} /\ setting' = setting /\ pushed' = pushed
      /\ client' = client /\ upload' = upload /\ header' = header /\ frames' = frames
      /\ gone' \in {gone, TRUE} /\ now' \in 0 .. MaxTime
  <2>1. Surroundings
    BY DEF ConnInv
  <2>2. CASE UseDangling
    BY <2>1, <2>2 DEF UseDangling, environment, Surroundings
  <2>3. CASE Tick
    BY <2>1, <2>3, Http2Assumption DEF Tick, server, Surroundings
  <2>4. CASE Leave
    BY <2>1, <2>4 DEF Leave, server, Surroundings
  <2>5. CASE UNCHANGED vars
    BY <2>1, <2>5 DEF vars, Surroundings
  <2>6. CASE Stall
    BY <2>1, <2>6 DEF Stall, environment, Surroundings
  <2> QED
    BY <2>2, <2>3, <2>4, <2>5, <2>6
<1>2. Table' = Table /\ Table.made = made
  BY <1>1 DEF Table
<1>3. Fits(Table, client, gone', stack)
  BY <1>1, LeftFits DEF ConnInv
<1>4. Surroundings'
  BY <1>1 DEF ConnInv, Surroundings
<1>5. conn' \in {"open", "closed", "dangling", "stuck"} /\ Pushing' /\ client' \in Clients
  BY <1>1 DEF ConnInv, Pushing
<1>6. Fits(Table', client', gone', stack') /\ Half(header', Table', stack')
  BY <1>1, <1>2, <1>3 DEF ConnInv
<1>7. Unpromised(Table', client', pushed') /\ made' <= Spent(frames', pushed')
  BY <1>1, <1>2 DEF ConnInv
<1> QED
  BY <1>4, <1>5, <1>6, <1>7 DEF ConnInv

(* It holds at the start.                                                  *)
LEMMA Starts ==
  ASSUME Init
  PROVE  ConnInv
<1>1. Ids \subseteq Nat \ {0} /\ MaxFrames \in Nat /\ MaxTime \in Nat /\ Pushes \in Nat
      /\ PostBody \in Nat /\ PushAllowed \subseteq BOOLEAN
  BY Identifiers, Http2Assumption
<1>2. /\ conn = "open" /\ list = [i \in Ids |-> None] /\ now = 0
      /\ obj = [o \in Objs |-> NewStream] /\ made = 0 /\ stack = <<>> /\ pushed = "none"
      /\ gone = FALSE /\ client = [i \in Ids |-> "idle"] /\ upload = [i \in Ids |-> 0]
      /\ header = None /\ frames = 0
      /\ \E p \in PushAllowed : setting = [window |-> Window, limit |-> Limit, push |-> p]
  BY DEF Init
<1>3. setting \in Settings
  BY <1>1, <1>2 DEF Settings
<1>4. Surroundings
  <2>1. 0 \in 0 .. MaxTime /\ 0 \in 0 .. MaxFrames /\ 0 \in 0 .. PostBody
    BY <1>1
  <2> QED
    BY <1>2, <1>3, <2>1 DEF Surroundings
<1>5. NewStream \in Sounds
  BY <1>4, NewSound
<1> HIDE DEF NewStream
<1>6. TableOK(Table)
  <2>1. list \in [Ids -> Refs] /\ obj \in [Objs -> Sounds] /\ made \in 0 .. MaxFrames + Pushes
    BY <1>1, <1>2, <1>5 DEF Refs
  <2>2. Table \in Tables
    BY <2>1 DEF Table, Tables
  <2>3. \A i \in Ids : list[i] = None /\ list[i] <= made
    BY <1>2 DEF None
  <2> QED
    BY <2>2, <2>3 DEF TableOK, Table
<1>7. EndsOK(Table, client, gone)
  BY <1>2 DEF EndsOK, Table
<1>8. ActiveOK(stack, Table, client, gone)
  <2>1. stack \in Seq(Activation) /\ DOMAIN stack = {}
    BY <1>2
  <2> QED
    BY <2>1 DEF ActiveOK
<1>9. Half(header, Table, stack)
  BY <1>2 DEF Half
<1>10. Unpromised(Table, client, pushed)
  BY <1>2 DEF Unpromised, Table, Even
<1>11. made <= Spent(frames, pushed)
  BY <1>2 DEF Spent
<1>12. conn \in {"open", "closed", "dangling", "stuck"} /\ Pushing /\ client \in Clients
  BY <1>2 DEF Pushing, Clients
<1> QED
  BY <1>4, <1>6, <1>7, <1>8, <1>9, <1>10, <1>11, <1>12 DEF ConnInv, Fits

(* Every step keeps it.                                                    *)
LEMMA StepKeeps ==
  ASSUME ConnInv, [Next]_vars
  PROVE  ConnInv'
<1>1. CASE Receive
  <2>1. ASSUME NEW i \in Streams,
               \/ RecvRequest(i) \/ RecvTrailers(i) \/ RecvContinuation(i)
               \/ \E n \in {0, 1}, fin \in BOOLEAN : RecvData(i, n, fin)
        PROVE  ConnInv'
    BY <2>1, KeepsRequest, KeepsTrailers, KeepsContinuation, KeepsData
  <2>2. ASSUME NEW i \in Ids,
               \/ \E n \in Increments : RecvWindowUpdate(i, n)
               \/ RecvRst(i) \/ RecvPriority(i)
        PROVE  ConnInv'
    BY <2>2, KeepsWindowUpdate, KeepsRst, KeepsPriority
  <2> QED
    BY <1>1, <2>1, <2>2, KeepsOthers, KeepsGrantOne DEF Receive
<1>2. CASE Reply
  BY <1>2, KeepsSendHeader, KeepsSendData, KeepsSendEnd, KeepsPushNext, KeepsFinish,
     KeepsWorld DEF Reply
<1>3. CASE Tick \/ Leave \/ Stall \/ Stopped \/ UNCHANGED vars
  BY <1>3, KeepsWorld DEF Stopped
<1> QED
  BY <1>1, <1>2, <1>3 DEF Next

(* So it always holds.                                                     *)
LEMMA Kept == Spec => []ConnInv
<1>1. Init => ConnInv
  BY Starts
<1>2. ConnInv /\ [Next]_vars => ConnInv'
  BY StepKeeps
<1> QED
  BY <1>1, <1>2, PTL DEF Spec

-----------------------------------------------------------------------------
(* The theorems.                                                           *)

(* What is sent on a stream without its padding never exceeds its window,  *)
(* as the client counts it unless it lowers its sizes, however responses   *)
(* nest and whatever is reset, evicted or created anew in the middle of    *)
(* one; and the tables are of their type.                                  *)
THEOREM NeverBeyondWindow == Spec => []WindowAccounts
<1>1. ASSUME ConnInv
      PROVE  WindowAccounts
  <2>1. /\ conn \in {"open", "closed", "dangling", "stuck"} /\ Surroundings /\ Pushing
        /\ client \in Clients /\ Fits(Table, client, gone, stack)
    BY <1>1 DEF ConnInv
  <2>2. list \in [Ids -> Refs] /\ obj \in [Objs -> Sounds] /\ made \in 0 .. MaxFrames + Pushes
        /\ stack \in Seq(Activation)
    BY <2>1 DEF Fits, TableOK, Tables, Table, ActiveOK
  <2>3. obj \in [Objs -> StreamType]
    BY <2>2 DEF Sounds
  <2>4. ASSUME NEW o \in Objs
        PROVE  obj[o].sent <= Credit(obj[o]) \/ setting.window < obj[o].initial
    <3>1. obj[o] \in Sounds /\ setting.window \in Nat
      BY <2>1, <2>2, Http2Assumption DEF Surroundings, Settings
    <3>2. /\ obj[o].initial \in Nat /\ obj[o].granted \in Nat /\ obj[o].sent \in Nat
          /\ obj[o].sent <= obj[o].granted
      BY <3>1 DEF Sounds, Sound, StreamType
    <3> QED
      BY <3>1, <3>2 DEF Credit
  <2>5. TypeOK
    BY <2>1, <2>2, <2>3 DEF TypeOK, Surroundings, Pushing, Clients, Settings, Refs
  <2> QED
    BY <2>4, <2>5 DEF WindowAccounts, WindowKept
<1> QED
  BY <1>1, Kept, PTL

(* END_STREAM is sent after the whole body: no window that is used up and  *)
(* no frame in the middle of a response cuts it short.                     *)
THEOREM NeverCutShort == Spec => []EndMeansWhole
<1>1. ASSUME ConnInv
      PROVE  EndMeansWhole
  <2>1. obj \in [Objs -> Sounds]
    BY <1>1 DEF ConnInv, Fits, TableOK, Tables, Table
  <2> QED
    BY <2>1 DEF EndMeansWhole, Sounds, Sound
<1> QED
  BY <1>1, Kept, PTL

(* A stream that the table calls closed on our side has sent END_STREAM,   *)
(* unless the client had left, and the client is through with one that the *)
(* table calls closed on its side.                                         *)
THEOREM EndsAreReal == Spec => []HalfClosedIsReal
<1>1. ASSUME ConnInv
      PROVE  HalfClosedIsReal
  BY <1>1 DEF ConnInv, Fits, EndsOK, Ends, Table, HalfClosedIsReal
<1> QED
  BY <1>1, Kept, PTL
=============================================================================
