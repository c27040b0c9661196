----------------------------- MODULE CacheProofs -----------------------------
(***************************************************************************)
(* Proofs about the two caches of cache.cpp that the threads of a worker   *)
(* share: FileCache for every number of threads, files, requests and       *)
(* changes of the files, and Proxy for any number of sessions, URLs and    *)
(* backends.  Both rest on the same facts about the sums of sizes.         *)
(***************************************************************************)
EXTENDS FileCache, Proxy, SequenceTheorems, FiniteSetTheorems,
        WellFoundedInduction, TLAPS

-----------------------------------------------------------------------------
(* Sums, for every finite set.  Induction is over the subsets of a finite  *)
(* set, and is stated with a set of subsets in the place of a predicate.   *)

(* The element a sum takes first, as in MapThenSumSet.                     *)
Pick(s) == CHOOSE x \in s : TRUE

(* g is the table of the sums of w over the subsets of S.                  *)
IsSums(g, w, S) ==
  g = [s \in SUBSET S |->
         IF s = {} THEN 0 ELSE w[Pick(s)] + g[s \ {Pick(s)}]]

(* The sum of w over S.                                                    *)
Sum(w, S) == MapThenSumSet(LAMBDA x : w[x], S)

-----------------------------------------------------------------------------
(* Every set of natural numbers that is not empty has a least element.     *)
LEMMA LeastNatural ==
  ASSUME NEW S \in SUBSET Nat, S # {}
  PROVE  \E m \in S : \A n \in S : m <= n
<1>1. PICK m \in S : \A n \in S : ~ (<<n, m>> \in OpToRel(<, Nat))
  BY NatLessThanWellFounded, WFMin
<1>2. \A n \in S : ~(n < m)
  BY <1>1 DEF OpToRel
<1> QED  BY <1>2

(* What holds of a subset of a finite set whenever it holds of all smaller *)
(* ones, holds of the set.                                                 *)
LEMMA SubsetInduction ==
  ASSUME NEW S, IsFiniteSet(S), NEW T,
         \A U \in SUBSET S :
           (\A V \in SUBSET U : V # U => V \in T) => U \in T
  PROVE  S \in T
<1> DEFINE Bad == {U \in SUBSET S : U \notin T}
<1> SUFFICES ASSUME S \notin T  PROVE FALSE
  OBVIOUS
<1>1. Bad # {}
  OBVIOUS
<1>2. Bad \subseteq FiniteSubsetsOf(S)
  BY FS_Subset DEF FiniteSubsetsOf
<1>3. PICK U \in Bad : \A V \in Bad : ~ (<<V, U>> \in StrictSubsetOrdering(S))
  <2> HIDE DEF Bad
  <2> QED  BY <1>1, <1>2, FS_StrictSubsetOrderingWellFounded, WFMin
<1>4. \A V \in SUBSET U : V # U => V \in T
  BY <1>3 DEF StrictSubsetOrdering
<1> QED  BY <1>3, <1>4

(* A set that is not empty holds the element picked from it.               *)
LEMMA PickIsIn ==
  ASSUME NEW s, s # {}
  PROVE  /\ Pick(s) \in s
         /\ s \ {Pick(s)} \in SUBSET s
         /\ s \ {Pick(s)} # s
BY DEF Pick

(* Tables of sums agree where the numbers added do, whatever else they     *)
(* hold.                                                                   *)
LEMMA SumsAgree ==
  ASSUME NEW S, NEW R, NEW w, NEW v, NEW g, NEW h,
         IsSums(g, w, S), IsSums(h, v, R),
         NEW s, IsFiniteSet(s), s \subseteq S, s \subseteq R,
         \A x \in s : w[x] = v[x]
  PROVE  g[s] = h[s]
<1> DEFINE T == {U \in SUBSET s : g[U] = h[U]}
<1>1. ASSUME NEW U \in SUBSET s, \A V \in SUBSET U : V # U => V \in T
      PROVE  U \in T
  <2>1. CASE U = {}
    BY <2>1 DEF IsSums
  <2>2. CASE U # {}
    <3> DEFINE p == Pick(U)
    <3>1. p \in U /\ U \ {p} \in SUBSET U /\ U \ {p} # U
      BY <2>2, PickIsIn
    <3>2. g[U \ {p}] = h[U \ {p}]
      BY <1>1, <3>1
    <3>3. g[U] = w[p] + g[U \ {p}]
      BY <2>2 DEF IsSums
    <3>4. h[U] = v[p] + h[U \ {p}]
      BY <2>2 DEF IsSums
    <3> HIDE DEF p
    <3> QED  BY <3>1, <3>2, <3>3, <3>4
  <2> QED  BY <2>1, <2>2
<1>2. s \in T
  <2> HIDE DEF T
  <2> QED  BY <1>1, SubsetInduction
<1> QED  BY <1>2

(* There is a table of sums for every finite set.                          *)
LEMMA SumsExist ==
  ASSUME NEW S, IsFiniteSet(S), NEW w
  PROVE  \E g : IsSums(g, w, S)
<1> DEFINE Table(V) == CHOOSE g : IsSums(g, w, V)
           T == {U \in SUBSET S : \E g : IsSums(g, w, U)}
<1>1. ASSUME NEW U \in SUBSET S, \A V \in SUBSET U : V # U => V \in T
      PROVE  U \in T
  <2> DEFINE value(V) == Table(V)[V]
             g == [s \in SUBSET U |->
                     IF s = {} THEN 0
                     ELSE w[Pick(s)] + value(s \ {Pick(s)})]
  <2>1. \A V \in SUBSET U : V # U => IsSums(Table(V), w, V)
    BY <1>1
  <2>2. ASSUME NEW V \in SUBSET U, V # U
        PROVE  g[V] = value(V)
    <3>0. IsSums(Table(V), w, V)
      BY <2>1, <2>2
    <3> HIDE DEF Table
    <3>1. CASE V = {}
      BY <3>0, <3>1 DEF IsSums
    <3>2. CASE V # {}
      <4> DEFINE p == Pick(V)
      <4>1. p \in V /\ V \ {p} \in SUBSET V /\ V \ {p} # V
        BY <3>2, PickIsIn
      <4>2. g[V] = w[p] + value(V \ {p})
        BY <3>2
      <4>3. Table(V)[V] = w[p] + Table(V)[V \ {p}]
        BY <3>0, <3>2 DEF IsSums
      <4>4. V \ {p} \in SUBSET U /\ V \ {p} # U
        BY <4>1
      <4>5. IsSums(Table(V \ {p}), w, V \ {p})
        BY <2>1, <4>4
      <4>6. IsFiniteSet(V \ {p})
        BY FS_Subset, <4>4
      <4> HIDE DEF p
      <4>7. Table(V)[V \ {p}] = Table(V \ {p})[V \ {p}]
        BY <3>0, <4>1, <4>5, <4>6, SumsAgree
      <4> QED  BY <4>2, <4>3, <4>7
    <3> QED  BY <3>1, <3>2
  <2>3. ASSUME NEW s \in SUBSET U, s # {}
        PROVE  g[s \ {Pick(s)}] = value(s \ {Pick(s)})
    BY <2>2, <2>3, PickIsIn
  <2>4. g = [s \in SUBSET U |->
               IF s = {} THEN 0 ELSE w[Pick(s)] + g[s \ {Pick(s)}]]
    <3> HIDE DEF value
    <3> QED  BY <2>3
  <2> HIDE DEF g
  <2>5. IsSums(g, w, U)
    BY <2>4 DEF IsSums
  <2> QED  BY <2>5
<1>2. S \in T
  <2> HIDE DEF T
  <2> QED  BY <1>1, SubsetInduction
<1> QED  BY <1>2

(* Sums of natural numbers are natural numbers.                            *)
LEMMA SumsAreNatural ==
  ASSUME NEW S, NEW w, NEW g, IsSums(g, w, S),
         NEW s, IsFiniteSet(s), s \subseteq S,
         \A x \in s : w[x] \in Nat
  PROVE  g[s] \in Nat
<1> DEFINE T == {U \in SUBSET s : g[U] \in Nat}
<1>1. ASSUME NEW U \in SUBSET s, \A V \in SUBSET U : V # U => V \in T
      PROVE  U \in T
  <2>1. CASE U = {}
    BY <2>1 DEF IsSums
  <2>2. CASE U # {}
    <3> DEFINE p == Pick(U)
    <3>1. p \in U /\ U \ {p} \in SUBSET U /\ U \ {p} # U
      BY <2>2, PickIsIn
    <3>2. g[U \ {p}] \in Nat
      BY <1>1, <3>1
    <3>3. g[U] = w[p] + g[U \ {p}]
      BY <2>2 DEF IsSums
    <3> HIDE DEF p
    <3> QED  BY <3>1, <3>2, <3>3
  <2> QED  BY <2>1, <2>2
<1>2. s \in T
  <2> HIDE DEF T
  <2> QED  BY <1>1, SubsetInduction
<1> QED  BY <1>2

(* Which element a sum takes first makes no difference.                    *)
LEMMA SumsTakeAny ==
  ASSUME NEW S, NEW w, NEW g, IsSums(g, w, S),
         NEW s, IsFiniteSet(s), s \subseteq S,
         \A x \in s : w[x] \in Nat
  PROVE  \A x \in s : g[s] = w[x] + g[s \ {x}]
<1> DEFINE T == {U \in SUBSET s : \A x \in U : g[U] = w[x] + g[U \ {x}]}
<1>1. ASSUME NEW U \in SUBSET s, \A V \in SUBSET U : V # U => V \in T
      PROVE  U \in T
  <2> SUFFICES ASSUME NEW x \in U  PROVE g[U] = w[x] + g[U \ {x}]
    OBVIOUS
  <2> DEFINE p == Pick(U)
  <2>1. p \in U
    BY PickIsIn
  <2>2. g[U] = w[p] + g[U \ {p}]
    BY DEF IsSums
  <2> HIDE DEF p
  <2>3. CASE x = p
    BY <2>2, <2>3
  <2>4. CASE x # p
    <3>1. g[U \ {p}] = w[x] + g[(U \ {p}) \ {x}]
      <4>1. U \ {p} \in T
        BY <1>1, <2>1
      <4> QED  BY <4>1, <2>4
    <3>2. g[U \ {x}] = w[p] + g[(U \ {x}) \ {p}]
      <4>1. U \ {x} \in T
        BY <1>1
      <4> QED  BY <4>1, <2>1, <2>4
    <3>3. (U \ {x}) \ {p} = (U \ {p}) \ {x}
      OBVIOUS
    <3>4. g[(U \ {p}) \ {x}] \in Nat
      <4>1. (U \ {p}) \ {x} \in SUBSET s
        OBVIOUS
      <4>2. IsFiniteSet((U \ {p}) \ {x})
        BY <4>1, FS_Subset
      <4> QED  BY <4>1, <4>2, SumsAreNatural
    <3>5. w[p] \in Nat /\ w[x] \in Nat
      BY <2>1
    <3> DEFINE rest == g[(U \ {p}) \ {x}]
    <3>6. g[U] = w[p] + (w[x] + rest)
      BY <2>2, <3>1, Zenon
    <3>7. g[U \ {x}] = w[p] + rest
      BY <3>2, <3>3, Zenon
    <3> HIDE DEF rest
    <3>8. w[p] + (w[x] + rest) = w[x] + (w[p] + rest)
      BY <3>4, <3>5 DEF rest
    <3> QED  BY <3>6, <3>7, <3>8, Zenon
  <2> QED  BY <2>3, <2>4
<1>2. s \in T
  <2> HIDE DEF T
  <2> QED  BY <1>1, SubsetInduction
<1> QED  BY <1>2

-----------------------------------------------------------------------------
(* The sum over a finite set is the entry of a table of sums.              *)
LEMMA SumIsInTable ==
  ASSUME NEW S, IsFiniteSet(S), NEW w
  PROVE  \E g : IsSums(g, w, S) /\ Sum(w, S) = g[S]
<1> DEFINE g == CHOOSE g : IsSums(g, w, S)
<1>1. IsSums(g, w, S)
  BY SumsExist
<1>2. Sum(w, S) = g[S]
  BY DEF Sum, MapThenSumSet, MapThenFoldSet, IsSums, Pick
<1> QED  BY <1>1, <1>2

(* The sum over the empty set is nothing.                                  *)
LEMMA SumOfNone ==
  ASSUME NEW w
  PROVE  Sum(w, {}) = 0
BY SumIsInTable, FS_EmptySet DEF IsSums

(* A sum of natural numbers is a natural number.                           *)
LEMMA SumIsNatural ==
  ASSUME NEW S, IsFiniteSet(S), NEW w, \A x \in S : w[x] \in Nat
  PROVE  Sum(w, S) \in Nat
BY SumIsInTable, SumsAreNatural

(* Sums of the same numbers are the same.                                  *)
LEMMA SumOfSame ==
  ASSUME NEW S, IsFiniteSet(S), NEW w, NEW v, \A x \in S : w[x] = v[x]
  PROVE  Sum(w, S) = Sum(v, S)
BY SumIsInTable, SumsAgree

(* Any element can be taken out of a sum.                                  *)
LEMMA SumWithout ==
  ASSUME NEW S, IsFiniteSet(S), NEW w, \A x \in S : w[x] \in Nat,
         NEW x \in S
  PROVE  Sum(w, S) = w[x] + Sum(w, S \ {x})
<1>1. IsFiniteSet(S \ {x})
  BY FS_Subset
<1>2. PICK g : IsSums(g, w, S) /\ Sum(w, S) = g[S]
  BY SumIsInTable
<1>3. PICK h : IsSums(h, w, S \ {x}) /\ Sum(w, S \ {x}) = h[S \ {x}]
  BY <1>1, SumIsInTable
<1>4. g[S \ {x}] = h[S \ {x}]
  BY <1>1, <1>2, <1>3, SumsAgree
<1> QED  BY <1>2, <1>3, <1>4, SumsTakeAny

-----------------------------------------------------------------------------
(* FileCache.                                                              *)
(*                                                                         *)
(* The inductive invariant adds to CacheAccounts and SentFromLive what     *)
(* each thread knows at its place in web_doc::Response: which locks it     *)
(* holds, which objects can only be its own, what a push has chosen to     *)
(* delete, and how what it has read of its file compares with what is on   *)
(* the disk now.                                                           *)

(* Types of what the threads keep.                                         *)
Stats == [version : 0 .. MaxVersions, length : Lengths \cup {0}]
Held  == [file : Files \cup {0}, length : Lengths \cup {0},
          modify : 0 .. MaxVersions, content : 0 .. MaxVersions,
          age : New .. Expired]

LocalsOK ==
  /\ made \in 1 .. MaxVersions
  /\ heap \in [Objs -> Held]
  /\ req \in [Threads -> 0 .. MaxRequests]
  /\ file \in [Threads -> Files \cup {0}]
  /\ seen \in [Threads -> Stats]
  /\ data \in [Threads -> 0 .. MaxVersions]

(* Requests are numbered, and an object bears its request's number: until  *)
(* it is pushed, nothing that exists does.                                 *)
Asks(t) == pc[t] # "idle" => file[t] \in Files /\ req[t] \in 1 .. asked

Numbered ==
  /\ live \subseteq 1 .. asked
  /\ \A t \in Threads : Asks(t)
  /\ \A t \in Threads : pc[t] \in {"check", "stat", "read", "push", "insert"}
                          => req[t] \notin live
  /\ \A t, u \in Threads : pc[t] # "idle" /\ pc[u] # "idle" /\ t # u
                             => req[t] # req[u]

(* Who holds the lock of an object, and of the map.                        *)
Holds(t) == pc[t] \in {"check", "send"}

Locks ==
  /\ \A t \in Threads : pc[t] \in {"idle", "stat", "read", "push", "insert"}
                          => obj[t] = None
  /\ \A t \in Threads : pc[t] = "lock" => obj[t] = req[t]
  /\ \A o \in Objs : readers[o] = {t \in Threads : Holds(t) /\ obj[t] = o}
  /\ \A t \in Threads : Holds(t) /\ obj[t] # None => obj[t] \in live
  /\ \A t \in Threads : pc[t] = "check" =>
                          obj[t] # None /\ heap[obj[t]].file = file[t]
  /\ \A t \in Threads : pc[t] = "insert" => writer = t

(* What a push deletes: the object of its file, or if there is none, one   *)
(* of another file, or nothing.                                            *)
Chosen ==
  \A t \in Threads : pc[t] = "insert" =>
    IF victim = None THEN cache[file[t]] = None
    ELSE victim \in live /\ cache[file[t]] \in {None, victim}

(* What was read of a file is never newer than the file, and stat came     *)
(* before the reading of the content.                                      *)
NotNewer(v, f) == v <= made /\ (disk[f] # NoFile => v <= disk[f].version)

Dated ==
  /\ \A f \in Files : disk[f].version <= made
  /\ \A o \in live : /\ heap[o].modify <= heap[o].content
                     /\ NotNewer(heap[o].content, heap[o].file)
  /\ \A t \in Threads : pc[t] \in {"read", "push", "insert"} =>
                          NotNewer(seen[t].version, file[t])
  /\ \A t \in Threads : pc[t] \in {"push", "insert"} =>
                          /\ seen[t].version <= data[t]
                          /\ NotNewer(data[t], file[t])

(* The bytes the objects of a map occupy.                                  *)
Named(c)       == {f \in Files : c[f] # None}
Occupied(c, h) == Sum([f \in Named(c) |-> h[c[f]].length], Named(c))

CacheInv ==
  /\ TypeOK /\ LocalsOK /\ Numbered /\ Locks
  /\ MapIsLive /\ Chosen /\ Dated
  /\ size = Occupied(cache, heap)

Maps == [Files -> Objs \cup {None}]
Heaps == [Objs -> Held]

-----------------------------------------------------------------------------
(* Sizes.                                                                  *)

(* A map names finitely many files.                                        *)
LEMMA NamedIsFinite ==
  ASSUME NEW c
  PROVE  IsFiniteSet(Named(c))
<1>1. IsFiniteSet(Files)
  BY FS_Interval, FileCacheAssumption DEF Files
<1> QED  BY <1>1, FS_Subset DEF Named

(* m_file_cache_size as SizeAccounts states it is what the map occupies.   *)
LEMMA AccountsOccupied ==
  SizeAccounts <=> size = Occupied(cache, heap)
<1> DEFINE w == [f \in Named(cache) |-> heap[cache[f]].length]
           F(g, s) == IF s = {} THEN 0 ELSE w[Pick(s)] + g[s \ {Pick(s)}]
           G(g, s) == IF s = {} THEN 0
                      ELSE heap[cache[Pick(s)]].length + g[s \ {Pick(s)}]
           gF == CHOOSE g : g = [s \in SUBSET Cached |-> F(g, s)]
           gG == CHOOSE g : g = [s \in SUBSET Cached |-> G(g, s)]
<1>0. Cached = Named(cache) /\ IsFiniteSet(Cached)
  BY NamedIsFinite DEF Cached, Named
<1>1. \A g : [s \in SUBSET Cached |-> F(g, s)] = [s \in SUBSET Cached |-> G(g, s)]
  BY <1>0, PickIsIn
<1>2. gF = [s \in SUBSET Cached |-> F(gF, s)]
  <2>1. \E g : g = [s \in SUBSET Cached |-> F(g, s)]
    <3>1. \E g : IsSums(g, w, Cached)
      BY <1>0, SumsExist
    <3> QED  BY <3>1 DEF IsSums
  <2> HIDE DEF F
  <2> QED  BY <2>1
<1>3. gG = [s \in SUBSET Cached |-> G(gG, s)]
  <2>1. \E g : g = [s \in SUBSET Cached |-> G(g, s)]
    <3> HIDE DEF F, G, gF
    <3>1. gF = [s \in SUBSET Cached |-> G(gF, s)]
      BY <1>1, <1>2
    <3> QED  BY <3>1
  <2> HIDE DEF G
  <2> QED  BY <2>1
<1>4. IsSums(gF, w, Cached) /\ IsSums(gG, w, Cached)
  <2>1. gG = [s \in SUBSET Cached |-> F(gG, s)]
    <3> HIDE DEF F, G, gG
    <3> QED  BY <1>1, <1>3
  <2> HIDE DEF gF, gG
  <2> QED  BY <1>2, <2>1 DEF IsSums
<1>5. gF[Cached] = gG[Cached]
  <2> HIDE DEF gF, gG, w
  <2> QED  BY <1>0, <1>4, SumsAgree
<1>6. Occupied(cache, heap) = gF[Cached]
  BY <1>0 DEF Occupied, Sum, MapThenSumSet, MapThenFoldSet, Pick
<1>7. SizeAccounts <=> size = gG[Cached]
  BY DEF SizeAccounts, MapThenSumSet, MapThenFoldSet, Pick
<1> QED
  <2> HIDE DEF gF, gG
  <2> QED  BY <1>5, <1>6, <1>7

(* The length of an object is a natural number.                            *)
LEMMA HeldLength ==
  ASSUME NEW x \in Held
  PROVE  x.length \in Nat
<1>1. x.length \in Lengths \cup {0}
  BY DEF Held
<1>2. \A n \in Lengths \cup {0} : n \in Nat
  BY FileCacheAssumption
<1> QED  BY <1>1, <1>2

(* The lengths of the objects a map names are natural numbers.             *)
LEMMA LengthsAreNatural ==
  ASSUME NEW c \in Maps, NEW h \in Heaps
  PROVE  \A f \in Named(c) : h[c[f]].length \in Nat
<1>1. \A f \in Named(c) : c[f] \in Objs
  BY DEF Named, Maps
<1>2. \A o \in Objs : h[o] \in Held
  BY DEF Heaps
<1> QED  BY <1>1, <1>2, HeldLength

(* What a map occupies is a natural number.                                *)
LEMMA OccupiedIsNatural ==
  ASSUME NEW c \in Maps, NEW h \in Heaps
  PROVE  Occupied(c, h) \in Nat
BY LengthsAreNatural, NamedIsFinite, SumIsNatural DEF Occupied

(* It depends on the lengths of the objects the map names.                 *)
LEMMA OccupiedBySame ==
  ASSUME NEW c \in Maps, NEW h, NEW k,
         \A f \in Named(c) : h[c[f]].length = k[c[f]].length
  PROVE  Occupied(c, h) = Occupied(c, k)
BY NamedIsFinite, SumOfSame DEF Occupied

(* A file taken out of the map gives back what its object occupied.        *)
LEMMA OccupiedWithout ==
  ASSUME NEW c \in Maps, NEW h \in Heaps, NEW f \in Named(c)
  PROVE  Occupied(c, h) =
           h[c[f]].length + Occupied([c EXCEPT ![f] = None], h)
<1> DEFINE d == [c EXCEPT ![f] = None]
           w == [x \in Named(c) |-> h[c[x]].length]
           v == [x \in Named(d) |-> h[d[x]].length]
<1>1. Named(d) = Named(c) \ {f}
  BY DEF Named, Maps
<1>2. \A x \in Named(c) : w[x] \in Nat
  BY LengthsAreNatural
<1>3. Sum(w, Named(c)) = w[f] + Sum(w, Named(c) \ {f})
  BY <1>2, NamedIsFinite, SumWithout
<1>4. \A x \in Named(d) : v[x] = w[x]
  BY <1>1 DEF Named, Maps
<1>5. Sum(v, Named(d)) = Sum(w, Named(d))
  BY <1>4, NamedIsFinite, SumOfSame
<1>6. w[f] = h[c[f]].length
  OBVIOUS
<1> HIDE DEF w, v
<1> QED  BY <1>1, <1>3, <1>5, <1>6 DEF Occupied, w, v

(* A file put into the map, where it was not, adds what its object         *)
(* occupies.                                                               *)
LEMMA OccupiedWith ==
  ASSUME NEW c \in Maps, NEW h, NEW k \in Heaps,
         NEW f \in Files, c[f] = None, NEW o \in Objs,
         \A x \in Named(c) : h[c[x]].length = k[c[x]].length
  PROVE  Occupied([c EXCEPT ![f] = o], k) = k[o].length + Occupied(c, h)
<1> DEFINE d == [c EXCEPT ![f] = o]
<1>1. d \in Maps /\ d[f] = o /\ f \in Named(d)
  BY DEF Maps, Named, Objs, None
<1>2. [d EXCEPT ![f] = None] = c
  BY DEF Maps
<1>3. Occupied(d, k) = k[o].length + Occupied(c, k)
  <2> HIDE DEF d
  <2> QED  BY <1>1, <1>2, OccupiedWithout
<1>4. Occupied(c, h) = Occupied(c, k)
  BY OccupiedBySame
<1> QED  BY <1>3, <1>4

-----------------------------------------------------------------------------
(* The choice of a victim.                                                 *)

(* Of the files of a map that is not empty, one has the shortest object.   *)
LEMMA ShortestIsIn ==
  ASSUME TypeOK, LocalsOK, NEW S \in SUBSET Cached, S # {}
  PROVE  Shortest(S) \in S
<1> DEFINE w(f) == heap[cache[f]].length
           L == {w(f) : f \in S}
<1>1. \A f \in S : w(f) \in Nat /\ f \in Nat
  <2>1. cache \in Maps /\ heap \in Heaps /\ Cached = Named(cache)
    BY DEF TypeOK, LocalsOK, Maps, Heaps, Cached, Named
  <2>2. \A f \in Cached : w(f) \in Nat
    BY <2>1, LengthsAreNatural
  <2>3. \A f \in Cached : f \in Nat
    BY FileCacheAssumption DEF Cached, Files
  <2> HIDE DEF w
  <2> QED  BY <2>2, <2>3
<1> HIDE DEF w
<1>2. PICK a \in L : \A b \in L : a <= b
  <2>1. L \in SUBSET Nat /\ L # {}
    BY <1>1
  <2> HIDE DEF L
  <2> QED  BY <2>1, LeastNatural
<1>3. PICK m \in {f \in S : w(f) = a} :
             \A n \in {f \in S : w(f) = a} : m <= n
  <2> DEFINE A == {f \in S : w(f) = a}
  <2>1. A \in SUBSET Nat /\ A # {}
    BY <1>1, <1>2
  <2> HIDE DEF A
  <2>2. \E m \in A : \A n \in A : m <= n
    BY <2>1, LeastNatural
  <2> QED  BY <2>2 DEF A
<1>4. \A g \in S : w(m) < w(g) \/ (w(m) = w(g) /\ m <= g)
  BY <1>1, <1>2, <1>3
<1>5. \E f \in S : \A g \in S : w(f) < w(g) \/ (w(f) = w(g) /\ f <= g)
  BY <1>3, <1>4
<1> QED  BY <1>5 DEF Shortest, w

(* A push deletes the object of its own file; if the map has none of it,   *)
(* the object of another file, or nothing.                                 *)
LEMMA VictimIsMapped ==
  ASSUME TypeOK, LocalsOK, NEW f \in Files, NEW v \in Victims(f)
  PROVE  \/ v = None /\ cache[f] = None
         \/ \E g \in Cached : v = cache[g] /\ cache[f] \in {None, v}
<1>1. CASE cache[f] # None
  BY <1>1 DEF Victims, Cached
<1>2. CASE cache[f] = None /\ size < Total
  BY <1>2 DEF Victims
<1>3. CASE cache[f] = None /\ ~(size < Total)
  <2>1. PICK g \in Oldest : v = cache[g]
    BY <1>3 DEF Victims
  <2>2. PICK h \in Cached : g = Shortest({x \in Cached : x >= h})
    BY <2>1 DEF Oldest
  <2>3. h \in {x \in Cached : x >= h}
    BY <2>2, FileCacheAssumption DEF Cached, Files
  <2>4. g \in Cached
    BY <2>2, <2>3, ShortestIsIn
  <2> QED  BY <1>3, <2>1, <2>4
<1> QED  BY <1>1, <1>2, <1>3

-----------------------------------------------------------------------------
(* The steps.                                                              *)

(* At the start nothing is cached and nobody is served.                    *)
LEMMA CacheInvInit == Init => CacheInv
<1> SUFFICES ASSUME Init  PROVE CacheInv
  OBVIOUS
<1>1. TypeOK /\ LocalsOK
  BY FileCacheAssumption
     DEF Init, TypeOK, LocalsOK, NoFile, Nothing, Held, Stats, Places, None,
         New, Expired, Files, Objs
<1>2. Numbered /\ Locks /\ Chosen
  BY DEF Init, Numbered, Asks, Locks, Holds, Chosen
<1>3. MapIsLive
  BY DEF Init, MapIsLive, Cached
<1>4. Dated
  BY DEF Init, Dated, NotNewer
<1>5. size = Occupied(cache, heap)
  <2>1. Named(cache) = {}
    BY DEF Init, Named
  <2> QED  BY <2>1, SumOfNone DEF Init, Occupied
<1> QED  BY <1>1, <1>2, <1>3, <1>4, <1>5 DEF CacheInv

(* A file is changed.                                                      *)
LEMMA ModifyKeeps ==
  ASSUME CacheInv, NEW f \in Files, Modify(f)
  PROVE  CacheInv'
<1> USE DEF CacheInv, Modify, shared, local, world, Goes
<1>0. PICK n \in Lengths :
        disk' = [disk EXCEPT ![f] = [version |-> made', length |-> n]]
  OBVIOUS
<1>a. made \in Nat /\ made' \in Nat /\ made' \in 0 .. MaxVersions /\ made <= made'
  BY FileCacheAssumption DEF LocalsOK
<1>1. TypeOK'
  <2>1. [version |-> made', length |-> n] \in Stats
    BY <1>a DEF Stats
  <2>2. disk' \in [Files -> Stats]
    BY <1>0, <2>1 DEF TypeOK, Stats
  <2> QED  BY <2>2 DEF TypeOK, Stats
<1>2. LocalsOK'
  BY FileCacheAssumption, SMTT(80) DEF TypeOK, LocalsOK, Stats, Held, Objs, None
<1>3. Numbered'
  BY DEF Numbered, Asks, TypeOK, LocalsOK
<1>4. Locks'
  BY DEF Locks, Holds, TypeOK, LocalsOK
<1>5. MapIsLive'
  BY DEF MapIsLive, Cached
<1>6. Chosen'
  BY DEF Chosen, TypeOK, LocalsOK
<1>7. Dated'
  <2>1. \A g \in Files : disk'[g].version <= made'
    BY <1>0, <1>a DEF Dated, TypeOK
  <2>2. ASSUME NEW v \in Nat, NEW g \in Files, NotNewer(v, g)
        PROVE  NotNewer(v, g)'
    <3>1. v <= made'
      BY <1>a, <2>2 DEF NotNewer
    <3>2. CASE g = f
      BY <1>0, <3>1, <3>2 DEF NotNewer, TypeOK
    <3>3. CASE g # f
      BY <1>0, <2>2, <3>1, <3>3 DEF NotNewer, TypeOK
    <3> QED  BY <3>2, <3>3
  <2>3. /\ \A o \in live : heap[o].content \in Nat /\ heap[o].file \in Files
        /\ \A t \in Threads : seen[t].version \in Nat /\ data[t] \in Nat
    BY DEF TypeOK, LocalsOK, Held, Stats
  <2>4. \A t \in Threads : pc[t] # "idle" => file[t] \in Files
    BY DEF Numbered, Asks
  <2> QED  BY <2>1, <2>2, <2>3, <2>4 DEF Dated
<1>8. (size = Occupied(cache, heap))'
  BY DEF Occupied, Named
<1> QED  BY <1>1, <1>2, <1>3, <1>4, <1>5, <1>6, <1>7, <1>8

(* A file is removed.                                                      *)
LEMMA RemoveKeeps ==
  ASSUME CacheInv, NEW f \in Files, Remove(f)
  PROVE  CacheInv'
<1> USE DEF CacheInv, Remove, shared, local, world, Goes
<1>1. TypeOK'
  <2>1. NoFile \in Stats
    BY FileCacheAssumption DEF NoFile, Stats
  <2>2. disk' \in [Files -> Stats]
    BY <2>1 DEF TypeOK, Stats
  <2> QED  BY <2>2 DEF TypeOK, Stats
<1>2. LocalsOK'
  BY FileCacheAssumption, SMTT(80) DEF TypeOK, LocalsOK, Stats, Held, Objs, None
<1>3. Numbered'
  BY DEF Numbered, Asks, TypeOK, LocalsOK
<1>4. Locks'
  BY DEF Locks, Holds, TypeOK, LocalsOK
<1>5. MapIsLive'
  BY DEF MapIsLive, Cached
<1>6. Chosen'
  BY DEF Chosen, TypeOK, LocalsOK
<1>7. Dated'
  <2>1. \A g \in Files : disk'[g].version <= made'
    BY DEF Dated, TypeOK, NoFile, LocalsOK
  <2>2. \A v, g : NotNewer(v, g) /\ g \in Files => NotNewer(v, g)'
    BY DEF NotNewer, TypeOK
  <2>3. \A o \in live : heap[o].file \in Files
    BY DEF TypeOK
  <2>4. \A t \in Threads : pc[t] # "idle" => file[t] \in Files
    BY DEF Numbered, Asks
  <2> QED  BY <2>1, <2>2, <2>3, <2>4 DEF Dated
<1>8. (size = Occupied(cache, heap))'
  BY DEF Occupied, Named
<1> QED  BY <1>1, <1>2, <1>3, <1>4, <1>5, <1>6, <1>7, <1>8

(* An object grows old.                                                    *)
LEMMA TickKeeps ==
  ASSUME CacheInv, NEW o \in Objs, Tick(o)
  PROVE  CacheInv'
<1> USE DEF CacheInv, Tick, shared, local, world, Goes
<1>0. o \in Objs /\ heap[o] \in Held
  BY DEF TypeOK, LocalsOK
<1>a. heap[o].age + 1 \in New .. Expired
  BY <1>0 DEF Held, New, Expired
<1>b. /\ heap' = [heap EXCEPT ![o] = [heap[o] EXCEPT !.age = heap[o].age + 1]]
      /\ [heap[o] EXCEPT !.age = heap[o].age + 1] \in Held
  BY <1>0, <1>a DEF Held
<1>c. \A p \in Objs : /\ heap'[p].file = heap[p].file
                      /\ heap'[p].length = heap[p].length
                      /\ heap'[p].modify = heap[p].modify
                      /\ heap'[p].content = heap[p].content
  BY <1>0, <1>b DEF LocalsOK, Held
<1>1. TypeOK'
  <2>1. \A p \in live : heap'[p].age \in New .. Expired
    BY <1>0, <1>a, <1>b DEF TypeOK, LocalsOK, Held
  <2> QED  BY <1>c, <2>1 DEF TypeOK
<1>2. LocalsOK'
  BY <1>0, <1>b DEF LocalsOK
<1>3. Numbered'
  BY DEF Numbered, Asks, TypeOK, LocalsOK
<1>4. Locks'
  BY DEF Locks, Holds, TypeOK, LocalsOK
<1>5. MapIsLive'
  BY DEF MapIsLive, Cached
<1>6. Chosen'
  BY DEF Chosen, TypeOK, LocalsOK
<1>7. Dated'
  BY DEF Dated, NotNewer, TypeOK, LocalsOK
<1>8. (size = Occupied(cache, heap))'
  BY DEF Occupied, Named
<1> QED  BY <1>1, <1>2, <1>3, <1>4, <1>5, <1>6, <1>7, <1>8

(* A request comes and is looked up.                                       *)
LEMMA RequestKeeps ==
  ASSUME CacheInv, NEW t \in Threads, NEW f \in Files, NEW nocache \in BOOLEAN,
         Request(t, f, nocache)
  PROVE  CacheInv'
<1> USE DEF CacheInv, Request, Found, ReadLocked, shared, local, world, Goes
<1>0. asked \in Nat /\ asked' \in 1 .. MaxRequests
  BY FileCacheAssumption DEF TypeOK
<1>a. Found(f) => cache[f] \in Objs /\ cache[f] \in live
  BY DEF Found, TypeOK, MapIsLive, Cached
<1>1. TypeOK'
  <2>1. obj' \in [Threads -> Objs \cup {None}]
    BY <1>a DEF TypeOK
  <2>2. readers' \in [Objs -> SUBSET Threads]
    BY <1>a DEF TypeOK
  <2>3. pc' \in [Threads -> Places]
    BY DEF TypeOK, Places
  <2> QED  BY <1>0, <2>1, <2>2, <2>3 DEF TypeOK
<1>2. LocalsOK'
  BY <1>0 DEF LocalsOK
<1>3. Numbered'
  BY DEF Numbered, Asks, TypeOK, LocalsOK
<1>4. Locks'
  <2>1. CASE ~nocache /\ Found(f)
    <3>1. /\ obj' = [obj EXCEPT ![t] = cache[f]]
          /\ readers' = [readers EXCEPT ![cache[f]] = @ \cup {t}]
          /\ pc' = [pc EXCEPT ![t] = "check"]
      BY <2>1
    <3>2. cache[f] # None /\ heap[cache[f]].file = f
      BY <2>1 DEF MapIsLive, Cached
    <3>3. file'[t] = f /\ \A u \in Threads : u # t => file'[u] = file[u]
      BY DEF LocalsOK
    <3>4. \A u \in Threads : u # t =>
             pc'[u] = pc[u] /\ obj'[u] = obj[u] /\ req'[u] = req[u]
      BY <3>1 DEF TypeOK, LocalsOK
    <3>5. pc'[t] = "check" /\ obj'[t] = cache[f]
      BY <3>1 DEF TypeOK
    <3>6. \A o \in Objs :
             readers'[o] = {u \in Threads : Holds(u)' /\ obj'[u] = o}
      BY <1>a, <2>1, <3>1, <3>4, <3>5 DEF Locks, Holds, TypeOK
    <3> QED  BY <1>a, <2>1, <3>2, <3>3, <3>4, <3>5, <3>6 DEF Locks, Holds
  <2>2. CASE nocache \/ ~Found(f)
    <3>1. obj' = obj /\ readers' = readers /\ pc' = [pc EXCEPT ![t] = "stat"]
      BY <2>2
    <3> QED  BY <3>1 DEF Locks, Holds, TypeOK, LocalsOK
  <2> QED  BY <2>1, <2>2
<1>5. MapIsLive'
  BY DEF MapIsLive, Cached
<1>6. Chosen'
  BY DEF Chosen, TypeOK, LocalsOK
<1>7. Dated'
  BY DEF Dated, NotNewer, TypeOK, LocalsOK
<1>8. (size = Occupied(cache, heap))'
  BY DEF Occupied, Named
<1> QED  BY <1>1, <1>2, <1>3, <1>4, <1>5, <1>6, <1>7, <1>8

(* A hit: the answer will be sent from the object, still locked.           *)
LEMMA HitKeeps ==
  ASSUME CacheInv, NEW t \in Threads, Hit(t)
  PROVE  CacheInv'
<1> USE DEF CacheInv, Hit, shared, local, world, Goes
<1>1. TypeOK'
  BY FileCacheAssumption DEF TypeOK, LocalsOK, Stats, Held, Places, Objs, None
<1>2. LocalsOK'
  BY FileCacheAssumption, SMTT(80) DEF TypeOK, LocalsOK, Stats, Held, Objs, None
<1>3. Numbered'
  BY DEF Numbered, Asks, TypeOK, LocalsOK
<1>4. Locks'
  BY DEF Locks, Holds, TypeOK, LocalsOK
<1>5. MapIsLive'
  BY DEF MapIsLive, Cached
<1>6. Chosen'
  BY DEF Chosen, TypeOK, LocalsOK
<1>7. Dated'
  BY DEF Dated, NotNewer, TypeOK, LocalsOK
<1>8. (size = Occupied(cache, heap))'
  BY DEF Occupied, Named
<1> QED  BY <1>1, <1>2, <1>3, <1>4, <1>5, <1>6, <1>7, <1>8

(* A miss: the object is let go.                                           *)
LEMMA MissKeeps ==
  ASSUME CacheInv, NEW t \in Threads, Miss(t)
  PROVE  CacheInv'
<1> USE DEF CacheInv, Miss, LetGo, Unlocked, shared, local, world, Goes
<1>1. TypeOK'
  BY FileCacheAssumption DEF TypeOK, LocalsOK, Stats, Held, Places, Objs, None
<1>2. LocalsOK'
  BY FileCacheAssumption, SMTT(80) DEF TypeOK, LocalsOK, Stats, Held, Objs, None
<1>3. Numbered'
  BY DEF Numbered, Asks, TypeOK, LocalsOK
<1>4. Locks'
  BY DEF Locks, Holds, TypeOK, LocalsOK
<1>5. MapIsLive'
  BY DEF MapIsLive, Cached
<1>6. Chosen'
  BY DEF Chosen, TypeOK, LocalsOK
<1>7. Dated'
  BY DEF Dated, NotNewer, TypeOK, LocalsOK
<1>8. (size = Occupied(cache, heap))'
  BY DEF Occupied, Named
<1> QED  BY <1>1, <1>2, <1>3, <1>4, <1>5, <1>6, <1>7, <1>8

(* An answer without a content: nothing is locked for it.                  *)
LEMMA ShortKeeps ==
  ASSUME CacheInv, NEW t \in Threads, pc[t] \in {"stat", "read"}, Short(t)
  PROVE  CacheInv'
<1> USE DEF CacheInv, Short, shared, local, world, Goes
<1>1. TypeOK'
  BY FileCacheAssumption DEF TypeOK, LocalsOK, Stats, Held, Places, Objs, None
<1>2. LocalsOK'
  BY FileCacheAssumption, SMTT(80) DEF TypeOK, LocalsOK, Stats, Held, Objs, None
<1>3. Numbered'
  BY DEF Numbered, Asks, TypeOK, LocalsOK
<1>4. Locks'
  <2>1. obj[t] = None
    BY DEF Locks
  <2> QED  BY <2>1 DEF Locks, Holds, TypeOK, Objs, None
<1>5. MapIsLive'
  BY DEF MapIsLive, Cached
<1>6. Chosen'
  BY DEF Chosen, TypeOK, LocalsOK
<1>7. Dated'
  BY DEF Dated, NotNewer, TypeOK, LocalsOK
<1>8. (size = Occupied(cache, heap))'
  BY DEF Occupied, Named
<1> QED  BY <1>1, <1>2, <1>3, <1>4, <1>5, <1>6, <1>7, <1>8

(* An answer is complete, and what it had locked is let go.                *)
LEMMA FinishKeeps ==
  ASSUME CacheInv, NEW t \in Threads, pc[t] = "send", Finish(t)
  PROVE  CacheInv'
<1> USE DEF CacheInv, Finish, Unlocked, shared, local, world, Goes
<1>1. TypeOK'
  BY FileCacheAssumption DEF TypeOK, LocalsOK, Stats, Held, Places, Objs, None
<1>2. LocalsOK'
  <2>1. NoFile \in Stats
    BY FileCacheAssumption DEF NoFile, Stats
  <2> QED  BY <2>1, FileCacheAssumption DEF LocalsOK
<1>3. Numbered'
  BY DEF Numbered, Asks, TypeOK, LocalsOK
<1>4. Locks'
  <2>1. pc'[t] = "idle" /\ obj'[t] = None
    BY DEF TypeOK
  <2>2. \A u \in Threads : u # t =>
           /\ pc'[u] = pc[u] /\ obj'[u] = obj[u]
           /\ req'[u] = req[u] /\ file'[u] = file[u]
    BY DEF TypeOK, LocalsOK
  <2>3. \A o \in Objs : readers'[o] = readers[o] \ {t}
    <3>1. \A o \in Objs : t \in readers[o] => o = obj[t]
      BY DEF Locks
    <3>2. CASE obj[t] = None
      BY <3>1, <3>2 DEF Objs, None
    <3>3. CASE obj[t] # None
      BY <3>1, <3>3 DEF TypeOK
    <3> QED  BY <3>2, <3>3
  <2>4. \A o \in Objs :
           readers'[o] = {u \in Threads : Holds(u)' /\ obj'[u] = o}
    BY <2>1, <2>2, <2>3 DEF Locks, Holds
  <2> QED  BY <2>1, <2>2, <2>4 DEF Locks, Holds
<1>5. MapIsLive'
  BY DEF MapIsLive, Cached
<1>6. Chosen'
  BY DEF Chosen, TypeOK, LocalsOK
<1>7. Dated'
  BY DEF Dated, NotNewer, TypeOK, LocalsOK
<1>8. (size = Occupied(cache, heap))'
  BY DEF Occupied, Named
<1> QED  BY <1>1, <1>2, <1>3, <1>4, <1>5, <1>6, <1>7, <1>8

(* stat finds the file.                                                    *)
LEMMA StatKeeps ==
  ASSUME CacheInv, NEW t \in Threads, Stat(t)
  PROVE  CacheInv'
<1> USE DEF CacheInv, Stat, shared, local, world, Goes
<1>1. TypeOK'
  BY FileCacheAssumption DEF TypeOK, LocalsOK, Stats, Held, Places, Objs, None
<1>a. file[t] \in Files /\ disk[file[t]] \in Stats
  BY DEF Numbered, Asks, TypeOK, Stats
<1>2. LocalsOK'
  BY <1>a DEF LocalsOK
<1>3. Numbered'
  BY DEF Numbered, Asks, TypeOK, LocalsOK
<1>4. Locks'
  BY DEF Locks, Holds, TypeOK, LocalsOK
<1>5. MapIsLive'
  BY DEF MapIsLive, Cached
<1>6. Chosen'
  BY DEF Chosen, TypeOK, LocalsOK
<1>7. Dated'
  <2>1. NotNewer(disk[file[t]].version, file[t])
    BY <1>a DEF NotNewer, Dated, Stats
  <2>2. seen'[t] = disk[file[t]] /\ pc'[t] = "read"
    BY DEF TypeOK, LocalsOK
  <2>3. \A u \in Threads : u # t => seen'[u] = seen[u] /\ pc'[u] = pc[u]
    BY DEF TypeOK, LocalsOK
  <2> QED  BY <2>1, <2>2, <2>3 DEF Dated, NotNewer
<1>8. (size = Occupied(cache, heap))'
  BY DEF Occupied, Named
<1> QED  BY <1>1, <1>2, <1>3, <1>4, <1>5, <1>6, <1>7, <1>8

(* The content of the file is read.                                        *)
LEMMA ReadKeeps ==
  ASSUME CacheInv, NEW t \in Threads, Read(t)
  PROVE  CacheInv'
<1> USE DEF CacheInv, Read, Fits, shared, local, world, Goes
<1>1. TypeOK'
  BY FileCacheAssumption DEF TypeOK, LocalsOK, Stats, Held, Places, Objs, None
<1>a. /\ file[t] \in Files
      /\ disk[file[t]].version \in 0 .. MaxVersions
  BY DEF Numbered, Asks, TypeOK
<1>b. \E p \in {"send", "wild", "push"} : pc' = [pc EXCEPT ![t] = p]
  OBVIOUS
<1>2. LocalsOK'
  BY <1>a DEF LocalsOK
<1>3. Numbered'
  BY DEF Numbered, Asks, TypeOK, LocalsOK
<1>4. Locks'
  <2>1. obj[t] = None
    BY DEF Locks
  <2> QED  BY <1>b, <2>1 DEF Locks, Holds, TypeOK, Objs, None
<1>5. MapIsLive'
  BY DEF MapIsLive, Cached
<1>6. Chosen'
  BY DEF Chosen, TypeOK, LocalsOK
<1>7. Dated'
  <2>1. /\ NotNewer(disk[file[t]].version, file[t])
        /\ seen[t].version <= disk[file[t]].version
    BY <1>a DEF NotNewer, Dated
  <2>2. data'[t] = disk[file[t]].version /\ pc'[t] \in {"send", "wild", "push"}
    BY <1>b DEF TypeOK, LocalsOK
  <2>3. \A u \in Threads : u # t => data'[u] = data[u] /\ pc'[u] = pc[u]
    BY <1>b DEF TypeOK, LocalsOK
  <2> QED  BY <2>1, <2>2, <2>3 DEF Dated, NotNewer
<1>8. (size = Occupied(cache, heap))'
  BY DEF Occupied, Named
<1> QED  BY <1>1, <1>2, <1>3, <1>4, <1>5, <1>6, <1>7, <1>8

(* A push takes the lock of the map and chooses its victim.                *)
LEMMA PushLockKeeps ==
  ASSUME CacheInv, NEW t \in Threads, PushLock(t)
  PROVE  CacheInv'
<1> USE DEF CacheInv, PushLock, shared, local, world, Goes
<1>0. file[t] \in Files
  BY DEF Numbered, Asks
<1>a. \/ pc' = [pc EXCEPT ![t] = "wild"] /\ victim' = victim
      \/ pc' = [pc EXCEPT ![t] = "insert"] /\ victim' \in Victims(file[t])
  OBVIOUS
<1>b. victim' \in Victims(file[t]) =>
        \/ victim' = None /\ cache[file[t]] = None
        \/ victim' \in live /\ cache[file[t]] \in {None, victim'}
  BY <1>0, VictimIsMapped DEF MapIsLive
<1>1. TypeOK'
  BY <1>a, <1>b DEF TypeOK, Places
<1>2. LocalsOK'
  BY FileCacheAssumption, SMTT(80) DEF TypeOK, LocalsOK, Stats, Held, Objs, None
<1>3. Numbered'
  BY DEF Numbered, Asks, TypeOK, LocalsOK
<1>4. Locks'
  <2>1. obj[t] = None
    BY DEF Locks
  <2>2. ~Holds(t) /\ ~Holds(t)'
    BY <1>a DEF Holds, TypeOK
  <2>3. \A u \in Threads : u # t => pc'[u] = pc[u]
    BY <1>a DEF TypeOK
  <2>4. pc'[t] \in {"insert", "wild"}
    BY <1>a DEF TypeOK
  <2>5. \A u \in Threads : u # t => pc[u] # "insert"
    BY FileCacheAssumption DEF Locks, None
  <2>6. \A o \in Objs :
           readers'[o] = {u \in Threads : Holds(u)' /\ obj'[u] = o}
    BY <2>2, <2>3 DEF Locks, Holds
  <2> QED  BY <2>1, <2>2, <2>3, <2>4, <2>5, <2>6 DEF Locks, Holds
<1>5. MapIsLive'
  BY DEF MapIsLive, Cached
<1>6. Chosen'
  <2>1. \A u \in Threads : pc'[u] = "insert" => u = t
    BY <1>a, FileCacheAssumption DEF Locks, None, TypeOK
  <2>2. pc'[t] = "insert" => victim' \in Victims(file[t])
    BY <1>a DEF TypeOK
  <2> QED  BY <1>b, <2>1, <2>2, FileCacheAssumption DEF Chosen, TypeOK, Objs, None
<1>7. Dated'
  BY DEF Dated, NotNewer, TypeOK, LocalsOK
<1>8. (size = Occupied(cache, heap))'
  BY DEF Occupied, Named
<1> QED  BY <1>1, <1>2, <1>3, <1>4, <1>5, <1>6, <1>7, <1>8

(* The pushed object is locked, if it still exists.                        *)
LEMMA RelockKeeps ==
  ASSUME CacheInv, NEW t \in Threads, Relock(t)
  PROVE  CacheInv'
<1> USE DEF CacheInv, Relock, ReadLocked, shared, local, world, Goes
<1>1. TypeOK'
  <2>1. pc' \in [Threads -> Places] /\ readers' \in [Objs -> SUBSET Threads]
    BY DEF TypeOK, Places
  <2> QED  BY <2>1 DEF TypeOK
<1>2. LocalsOK'
  BY FileCacheAssumption, SMTT(80) DEF TypeOK, LocalsOK, Stats, Held, Objs, None
<1>3. Numbered'
  BY SMTT(40) DEF Numbered, Asks, TypeOK, LocalsOK
<1>4. Locks'
  BY DEF Locks, Holds, TypeOK, LocalsOK
<1>5. MapIsLive'
  BY DEF MapIsLive, Cached
<1>6. Chosen'
  BY DEF Chosen, TypeOK, LocalsOK
<1>7. Dated'
  BY DEF Dated, NotNewer, TypeOK, LocalsOK
<1>8. (size = Occupied(cache, heap))'
  BY DEF Occupied, Named
<1> QED  BY <1>1, <1>2, <1>3, <1>4, <1>5, <1>6, <1>7, <1>8

(* The push: the victim leaves the map and the new object enters it, its   *)
(* readers being gone.                                                     *)
LEMMA InsertKeeps ==
  ASSUME CacheInv, NEW t \in Threads, Insert(t)
  PROVE  CacheInv'
<1> USE DEF CacheInv, Goes
<1> DEFINE r == req[t]
           f == file[t]
<1>1. pc[t] = "insert" /\ writer = t /\ obj[t] = None
  BY DEF Insert, Locks
<1>2. f \in Files /\ r \in Objs /\ r # None /\ r \notin live /\ r \in 1 .. asked
  BY <1>1, FileCacheAssumption DEF Numbered, Asks, TypeOK, Objs, None
<1>3. victim # None => victim \in live /\ victim \in Objs /\ readers[victim] = {}
  BY <1>1 DEF Insert, NoReaders, Chosen, TypeOK
<1>4. Pushed(t) \in Held
  BY <1>2 DEF Pushed, Held, LocalsOK, Stats, New, Expired
<1>5. /\ heap'[r] = Pushed(t)
      /\ \A o \in live : o # victim => heap'[o] = heap[o]
  BY <1>2 DEF Insert, TypeOK
<1>6. live' = (live \ {victim}) \cup {r}
  BY DEF Insert
<1>7. /\ pc'[t] = "lock" /\ obj'[t] = r
      /\ \A u \in Threads : u # t => pc'[u] = pc[u] /\ obj'[u] = obj[u]
      /\ UNCHANGED <<req, file, seen, data, readers, disk, made, asked>>
      /\ victim' = None
  BY DEF Insert, TypeOK, world
<1>8. \A u \in Threads : u # t => pc[u] # "insert"
  BY <1>1 DEF Locks
<1> HIDE DEF r, f
<1>9. heap' \in [Objs -> Held]
  <2>1. Nothing \in Held
    BY FileCacheAssumption DEF Nothing, Held, New, Expired
  <2> QED  BY <1>4, <2>1 DEF Insert, LocalsOK
<1>10. LocalsOK'
  BY <1>7, <1>9 DEF LocalsOK
<1>11. Numbered'
  <2>1. live' \subseteq 1 .. asked'
    BY <1>2, <1>6, <1>7 DEF Numbered
  <2>2. \A u \in Threads : Asks(u)'
    BY <1>1, <1>7 DEF Numbered, Asks
  <2>3. \A u \in Threads :
          pc'[u] \in {"check", "stat", "read", "push", "insert"} =>
            req'[u] \notin live'
    BY <1>1, <1>6, <1>7 DEF Numbered, r
  <2> QED  BY <1>1, <1>7, <2>1, <2>2, <2>3 DEF Numbered
<1>12. Locks'
  <2>1. \A u \in Threads : Holds(u)' <=> Holds(u)
    BY <1>1, <1>7 DEF Holds
  <2>2. \A o \in Objs :
          readers'[o] = {u \in Threads : Holds(u)' /\ obj'[u] = o}
    BY <1>1, <1>7, <2>1 DEF Locks, Holds
  <2>3. ASSUME NEW u \in Threads, Holds(u)', obj'[u] # None
        PROVE  /\ obj'[u] \in live' /\ obj[u] \in live
               /\ obj'[u] = obj[u] /\ obj[u] # victim /\ u # t
    <3>1. u # t /\ obj'[u] = obj[u] /\ Holds(u)
      BY <1>1, <1>7, <2>1, <2>3 DEF Holds
    <3>2. obj[u] \in live /\ obj[u] \in Objs
      BY <2>3, <3>1 DEF Locks, TypeOK
    <3>3. u \in readers[obj[u]]
      BY <3>1, <3>2 DEF Locks
    <3>4. obj[u] # victim
      BY <1>3, <2>3, <3>1, <3>3
    <3> QED  BY <1>6, <3>1, <3>2, <3>4
  <2>4. \A u \in Threads : pc'[u] = "check" =>
          obj'[u] # None /\ heap'[obj'[u]].file = file'[u]
    <3> SUFFICES ASSUME NEW u \in Threads, pc'[u] = "check"
                 PROVE  obj'[u] # None /\ heap'[obj'[u]].file = file'[u]
      OBVIOUS
    <3>1. u # t /\ pc[u] = "check" /\ Holds(u)' /\ obj'[u] = obj[u]
      BY <1>1, <1>7 DEF Holds
    <3>2. obj[u] # None /\ heap[obj[u]].file = file[u]
      BY <3>1 DEF Locks
    <3> QED  BY <1>5, <1>7, <2>3, <3>1, <3>2
  <2> QED  BY <1>1, <1>7, <1>8, <2>2, <2>3, <2>4 DEF Locks, r
<1> DEFINE g == heap[victim].file
<1>13. victim # None => /\ g \in Files /\ cache[g] = victim
                        /\ \A x \in Cached : cache[x] = victim => x = g
  BY <1>3 DEF MapIsLive, Cached, TypeOK
<1>14. /\ Unmapped \in Maps
       /\ \A x \in Files : Unmapped[x] = IF victim # None /\ x = g THEN None
                                         ELSE cache[x]
       /\ Unmapped[f] = None
  <2>1. CASE victim = None
    BY <1>1, <2>1 DEF Unmapped, Chosen, TypeOK, Maps, f
  <2>2. CASE victim # None
    <3>1. cache[f] # None => f = g
      BY <1>1, <1>2, <1>13, <2>2 DEF Chosen, Cached, f
    <3>2. Unmapped = [cache EXCEPT ![g] = None]
      BY <2>2 DEF Unmapped
    <3> HIDE DEF g
    <3> QED  BY <1>2, <1>13, <2>2, <3>1, <3>2 DEF TypeOK, Maps
  <2> QED  BY <2>1, <2>2
<1>a. victim # None => Unmapped = [cache EXCEPT ![g] = None]
  BY DEF Unmapped
<1>15. /\ cache' = [Unmapped EXCEPT ![f] = r] /\ cache' \in Maps
       /\ cache'[f] = r
       /\ \A x \in Files : x # f => cache'[x] = Unmapped[x]
  BY <1>2, <1>14 DEF Insert, Maps, r, f
<1> HIDE DEF g
<1>16. \A x \in Named(Unmapped) :
          cache[x] \in live /\ cache[x] # victim /\ Unmapped[x] = cache[x]
  BY <1>13, <1>14 DEF Named, MapIsLive, Cached
<1>17. MapIsLive'
  <2>1. \A x \in Files : cache'[x] # None =>
           x = f \/ (x \in Named(Unmapped) /\ cache'[x] = cache[x])
    BY <1>14, <1>15, <1>16 DEF Named
  <2>2. \A x \in Files : cache'[x] # None =>
           cache'[x] \in live' /\ heap'[cache'[x]].file = x
    <3>1. heap'[r].file = f
      BY <1>5 DEF Pushed, f
    <3>2. \A x \in Named(Unmapped) : heap[cache[x]].file = x
      BY <1>16 DEF MapIsLive, Cached, Named, None, TypeOK, Objs
    <3> QED  BY <1>5, <1>6, <1>15, <1>16, <2>1, <3>1, <3>2
  <2>3. \A o \in live' : \E x \in Files : cache'[x] = o /\ cache'[x] # None
    <3> SUFFICES ASSUME NEW o \in live', o # r
                 PROVE  \E x \in Files : cache'[x] = o /\ cache'[x] # None
      BY <1>2, <1>15
    <3>1. o \in live /\ o # victim
      BY <1>6
    <3>2. PICK x \in Cached : cache[x] = o
      BY <3>1 DEF MapIsLive
    <3>3. x \in Files /\ o # None /\ Unmapped[x] = o
      BY <1>13, <1>14, <3>1, <3>2 DEF Cached
    <3> QED  BY <1>14, <1>15, <3>3
  <2> QED  BY <2>2, <2>3 DEF MapIsLive, Cached
<1>18. Chosen'
  BY <1>7, <1>8 DEF Chosen
<1>19. Dated'
  <2>1. \A o \in live' : (/\ heap[o].modify <= heap[o].content
                          /\ NotNewer(heap[o].content, heap[o].file))'
    <3>1. /\ Pushed(t).modify <= Pushed(t).content
          /\ NotNewer(Pushed(t).content, Pushed(t).file)
      <4>1. /\ Pushed(t).modify = seen[t].version
            /\ Pushed(t).content = data[t] /\ Pushed(t).file = file[t]
        BY DEF Pushed
      <4>2. seen[t].version <= data[t] /\ NotNewer(data[t], file[t])
        BY <1>1 DEF Dated
      <4> QED  BY <4>1, <4>2
    <3>2. \A o \in live : /\ heap[o].modify <= heap[o].content
                          /\ NotNewer(heap[o].content, heap[o].file)
      BY DEF Dated
    <3>3. \A o \in live' : o = r \/ (o \in live /\ o # victim)
      BY <1>6
    <3>4. ASSUME NEW o \in live'
          PROVE  /\ heap'[o].modify <= heap'[o].content
                 /\ NotNewer(heap'[o].content, heap'[o].file)
      <4>1. CASE o = r
        <5>1. heap'[o] = Pushed(t)
          BY <1>5, <4>1
        <5> QED  BY <3>1, <5>1, Zenon
      <4>2. CASE o \in live /\ o # victim
        <5>1. heap'[o] = heap[o]
          BY <1>5, <4>2
        <5> QED  BY <3>2, <4>2, <5>1, Zenon
      <4> QED  BY <3>3, <4>1, <4>2
    <3> QED  BY <1>7, <3>4 DEF NotNewer
  <2> QED  BY <1>1, <1>7, <2>1 DEF Dated, NotNewer
<1>20. (size = Occupied(cache, heap))'
  <2>1. heap \in Heaps /\ heap' \in Heaps /\ cache \in Maps
    BY <1>9 DEF LocalsOK, Heaps, TypeOK, Maps
  <2>2. Occupied(cache', heap') = heap'[r].length + Occupied(Unmapped, heap)
    <3>1. \A x \in Named(Unmapped) :
             heap[Unmapped[x]].length = heap'[Unmapped[x]].length
      BY <1>5, <1>16
    <3> QED  BY <1>2, <1>14, <1>15, <2>1, <3>1, OccupiedWith, ZenonT(30)
  <2>3. Occupied(cache, heap) = Freed + Occupied(Unmapped, heap)
    <3>1. Occupied(cache, heap) \in Nat
      BY <2>1, OccupiedIsNatural
    <3>2. CASE victim = None
      BY <3>1, <3>2 DEF Unmapped, Freed
    <3>3. CASE victim # None
      <4>1. g \in Named(cache)
        BY <1>13, <3>3 DEF Named
      <4> QED  BY <1>a, <1>13, <2>1, <3>3, <4>1, OccupiedWithout DEF Freed
    <3> QED  BY <3>2, <3>3
  <2>4. size' = size + heap'[r].length - Freed
    BY <1>5 DEF Insert, Pushed
  <2>5. heap'[r].length \in Nat /\ Occupied(Unmapped, heap) \in Nat
    <3>1. heap'[r].length \in Nat
      BY <1>4, <1>5, HeldLength
    <3> QED  BY <1>14, <2>1, <3>1, OccupiedIsNatural
  <2>6. Freed \in Nat
    <3>1. CASE victim = None
      BY <3>1 DEF Freed
    <3>2. CASE victim # None
      <4>1. heap[victim] \in Held
        BY <1>3, <2>1, <3>2 DEF Heaps
      <4> QED  BY <3>2, <4>1, HeldLength DEF Freed
    <3> QED  BY <3>1, <3>2
  <2> QED  BY <2>2, <2>3, <2>4, <2>5, <2>6
<1>21. TypeOK'
  <2>1. Occupied(cache', heap') \in Nat
    BY <1>9, <1>15, OccupiedIsNatural DEF Heaps
  <2>2. live' \subseteq Objs
    BY <1>2, <1>6 DEF TypeOK
  <2>3. \A o \in live' : heap'[o].file \in Files /\ heap'[o].age \in New .. Expired
    <3>1. Pushed(t).file \in Files /\ Pushed(t).age \in New .. Expired
      BY <1>2 DEF Pushed, New, Expired, f
    <3> QED  BY <1>5, <1>6, <3>1 DEF TypeOK
  <2>4. pc' \in [Threads -> Places] /\ obj' \in [Threads -> Objs \cup {None}]
    BY <1>2 DEF Insert, TypeOK, Places, r
  <2>5. writer' \in Threads \cup {None} /\ victim' \in Objs \cup {None}
    BY DEF Insert
  <2> QED  BY <1>7, <1>15, <1>20, <2>1, <2>2, <2>3, <2>4, <2>5
           DEF TypeOK, Maps
<1> QED  BY <1>10, <1>11, <1>12, <1>17, <1>18, <1>19, <1>20, <1>21

-----------------------------------------------------------------------------
(* Every step of the worker, and of the disk, keeps the invariant.         *)
LEMMA CacheInvNext == CacheInv /\ [Next]_vars => CacheInv'
<1> SUFFICES ASSUME CacheInv, [Next]_vars  PROVE CacheInv'
  OBVIOUS
<1>1. ASSUME UNCHANGED vars  PROVE CacheInv'
  BY <1>1 DEF vars, CacheInv, TypeOK, LocalsOK, Numbered, Asks, Locks, Holds,
              MapIsLive, Cached, Chosen, Dated, NotNewer, Occupied, Named
<1>2. ASSUME NEW t \in Threads, Serve(t)  PROVE CacheInv'
  <2>1. CASE NotFound(t)
    BY <2>1, ShortKeeps DEF NotFound
  <2> QED
    BY <1>2, <2>1, HitKeeps, MissKeeps, StatKeeps, ReadKeeps,
       PushLockKeeps, InsertKeeps, RelockKeeps DEF Serve
<1>3. ASSUME NEW t \in Threads, NotModified(t)  PROVE CacheInv'
  BY <1>3, ShortKeeps DEF NotModified
<1>5. ASSUME NEW t \in Threads, Send(t)  PROVE CacheInv'
  BY <1>5, FinishKeeps DEF Send
<1>4. ASSUME NEW o \in Objs, Tick(o)  PROVE CacheInv'
  BY <1>4, TickKeeps
<1> QED
  BY <1>1, <1>2, <1>3, <1>4, <1>5, RequestKeeps, ModifyKeeps, RemoveKeeps
     DEF Next, Rest

(* What the threads know of the map, the disk and each other stays true,   *)
(* in every interleaving of requests, pushes and changes of the files.     *)
THEOREM CacheInvariant == Spec => []CacheInv
BY CacheInvInit, CacheInvNext, PTL DEF Spec

(* memory_cache::_push_file_ and ~file_cache: the map, the objects that    *)
(* exist and m_file_cache_size agree, over all replacements and evictions, *)
(* for every number of threads and files and every size of the cache.      *)
THEOREM CacheAgrees == Spec => []CacheAccounts
<1>1. CacheInv => CacheAccounts
  BY AccountsOccupied DEF CacheInv, CacheAccounts
<1> QED  BY <1>1, CacheInvariant, PTL

(* web_doc::Response sends from an object only while it holds the object's *)
(* lock, and an object whose lock is held is not deleted.                  *)
THEOREM NeverSentFromDeleted == Spec => []SentFromLive
<1>1. CacheInv => SentFromLive
  <2> SUFFICES ASSUME CacheInv  PROVE SentFromLive
    OBVIOUS
  <2>1. \A o \in Objs : readers[o] # {} => o \in live
    BY DEF CacheInv, Locks, Objs, None
  <2>2. \A t \in Threads : pc[t] \in {"check", "send"} /\ obj[t] # None =>
                             t \in readers[obj[t]]
    BY DEF CacheInv, Locks, Holds, TypeOK
  <2> QED  BY <2>1, <2>2 DEF SentFromLive
<1> QED  BY <1>1, CacheInvariant, PTL

(* The check a hit makes after ten seconds, that the file's time is still  *)
(* the one stat gave before the content was read, is enough: what is sent  *)
(* is what is on the disk.                                                 *)
THEOREM HitIsCurrent == Spec => RevalidatedIsCurrent
<1>1. ASSUME CacheInv, [Next]_vars, NEW t \in Threads,
             pc[t] = "check", pc'[t] = "send", heap[obj[t]].age # Young
      PROVE  heap[obj[t]].content = disk[file[t]].version
  <2> DEFINE o == obj[t]
  <2>1. o \in live /\ heap[o].file = file[t] /\ file[t] \in Files
    BY <1>1 DEF CacheInv, Locks, Holds, Numbered, Asks
  <2>2. Available(file[t], o)
    <3>1. pc \in [Threads -> Places] /\ pc'[t] # pc[t]
      BY <1>1 DEF CacheInv, TypeOK
    <3>2. ASSUME NEW u \in Threads, Serve(u)
          PROVE  Hit(t)
      <4>1. \E to : Goes(u, to)
        BY <3>2 DEF Serve, Hit, Miss, NotFound, Stat, Read, PushLock, Insert,
                    Relock, Short
      <4>2. u = t
        BY <3>1, <4>1 DEF Goes
      <4>3. ~Miss(t)
        BY <1>1, <3>1 DEF Miss, Goes
      <4> QED
        BY <1>1, <3>2, <4>2, <4>3
           DEF Serve, NotFound, Stat, Read, PushLock, Insert, Relock
    <3>3. ASSUME NEW u \in Threads, NotModified(u) \/ Send(u)
          PROVE  FALSE
      BY <1>1, <3>1, <3>3 DEF NotModified, Short, Send, Finish, Goes
    <3>4. ASSUME NEW u \in Threads, NEW f \in Files, NEW nocache \in BOOLEAN,
                 Request(u, f, nocache)
          PROVE  FALSE
      BY <1>1, <3>1, <3>4 DEF Request, Goes
    <3>5. UNCHANGED pc => FALSE
      BY <3>1
    <3>6. Hit(t)
      BY <1>1, <3>2, <3>3, <3>4, <3>5
         DEF Next, Rest, vars, Modify, Remove, Tick
    <3> QED  BY <3>6 DEF Hit
  <2>3. disk[file[t]] # NoFile /\ disk[file[t]].version = heap[o].modify
    BY <1>1, <2>2 DEF Available, SameTime
  <2>4. /\ heap[o].modify <= heap[o].content
        /\ heap[o].content <= disk[file[t]].version
    BY <1>1, <2>1, <2>3 DEF CacheInv, Dated, NotNewer
  <2>5. heap[o].content \in Nat /\ heap[o].modify \in Nat
    BY <1>1, <2>1 DEF CacheInv, TypeOK, LocalsOK, Held
  <2> QED  BY <2>3, <2>4, <2>5
<1>2. CacheInv /\ [Next]_vars =>
        [\A t \in Threads :
           pc[t] = "check" /\ pc'[t] = "send" /\ heap[obj[t]].age # Young =>
             heap[obj[t]].content = disk[file[t]].version]_vars
  BY <1>1
<1> QED  BY <1>2, CacheInvariant, PTL DEF Spec, RevalidatedIsCurrent

-----------------------------------------------------------------------------
(* Proxy: the size of the cache is the sum of what it holds, and a relay   *)
(* that has not ended early sends its client the answer to its own request.*)

KindNames == {"cached", "chunked", "unsized"}
PCs       == {"idle", "find", "dial", "send", "relay", "push", "pushing", "cached",
              "answer", "flush", "done", "crashed",
              "asking", "stalled", "holding"}
Objects   == [of : (1 .. Len(Addrs)) \X Paths, len : Nat \ {0}] \cup {NoObject}
Pieced    == [no : Nat, kind : KindNames, is : {"head", "body", "chunk", "zero"}]
Tunnels   == [addr : 0 .. Len(Addrs), conn : BOOLEAN, url : Urls \cup {<<0, 0>>}]
Backends  == [is : {"open", "closed", "reset"}, todo : Seq(Pieced)]
Clients   == [state : {"none", "header", "content", "chunks", "endless"},
              need : Int, use : BOOLEAN]

(* Of the shared cache and of each session.                                *)
Typed ==
  /\ answers \in [Urls -> Objects]
  /\ storing \in Sessions \cup {"nobody"}
  /\ place \in [Sessions -> PCs]
  /\ nth \in [Sessions -> Nat]
  /\ tried \in [Sessions -> 1 .. Len(Addrs)]
  /\ tunnel \in [Sessions -> Tunnels]
  /\ backend \in [Sessions -> Backends]
  /\ client \in [Sessions -> Clients]
  /\ ongoing \in [Sessions -> BOOLEAN] /\ pending \in [Sessions -> BOOLEAN]
  /\ found \in [Sessions -> {"nothing", "live", "deleted"}]
  /\ DOMAIN out = Sessions /\ late \in [Sessions -> BOOLEAN]
  /\ fate \in [Sessions -> {"fine", "no client", "deleted object"}]

(* A thread that is not idle is at one of the session's requests.          *)
Asking(s) == nth[s] <= Len(Requests[s]) /\ (place[s] # "idle" => nth[s] # 0)

(* A session's connection is that of the URL it was made for, and in the   *)
(* relay that of the backend the session is at.                            *)
Connected(s) ==
  /\ tunnel[s].conn => tunnel[s].addr # 0
  /\ tunnel[s].addr # 0 => /\ tunnel[s].url \in Urls
                           /\ tunnel[s].url[1] = tunnel[s].addr
  /\ place[s] \in {"send", "relay", "push", "pushing"} =>
       tunnel[s].addr = tried[s]

(* What the objects of the cache amount to.                                *)
StoredObject(c) == {u \in Urls : c[u] # NoObject}
Sized(c) == Sum([u \in StoredObject(c) |-> c[u].len], StoredObject(c))

StoreInv ==
  /\ Typed
  /\ \A s \in Sessions : Asking(s) /\ Connected(s)
  /\ stored = Sized(answers)
  /\ \A s \in Sessions : place[s] \in {"answer", "holding"} => found[s] = "live"
  /\ \A u \in Urls : answers[u] # NoObject => answers[u].of[1] = u[1]

-----------------------------------------------------------------------------
(* The rest of an answer of which the client has been sent n pieces.       *)
IsRest(s, todo, kind, n) ==
  /\ Len(todo) + n = Len(Pieces(kind))
  /\ \A i \in 1 .. Len(todo) :
       todo[i] = [no |-> nth[s], kind |-> kind, is |-> Pieces(kind)[n + i]]

(* What http_client has made of the pieces so far.                         *)
InBody(kind) == IF kind = "cached" THEN "content"
                ELSE IF kind = "chunked" THEN "chunks" ELSE "endless"

Parsed(c, kind, n) ==
  /\ c.state = IF n = 0 THEN "header" ELSE InBody(kind)
  /\ n > 0 /\ kind # "unsized" => c.need = Len(Pieces(kind)) - n

(* Nothing is to come from the backend but the rest of the answer that is  *)
(* relayed.                                                                *)
Relaying(s, kind) ==
  /\ place[s] \in {"relay", "stalled"} /\ ongoing[s] /\ out[s] \in 0 .. 2
  /\ IsRest(s, backend[s].todo, kind, out[s])
  /\ Parsed(client[s], kind, out[s])

InStep(s) == backend[s].todo = <<>> \/ \E kind \in KindNames : Relaying(s, kind)

Owns(s) ==
  /\ place[s] \in {"idle", "find", "dial", "send"} => out[s] = 0
  /\ ~late[s] => out[s] # Mixed /\ InStep(s)
  /\ fate[s] = "no client" => place[s] = "crashed" /\ late[s]

OwnInv == StoreInv /\ \A s \in Sessions : Owns(s)

-----------------------------------------------------------------------------
(* Types.                                                                  *)

(* The answers' shapes.                                                    *)
LEMMA PiecesOf ==
  /\ Pieces("cached") = <<"head", "body">>
  /\ Pieces("chunked") = <<"head", "chunk", "zero">>
  /\ Pieces("unsized") = <<"head", "body">>
BY Zenon DEF Pieces

(* The path a session asks for is one of the cache's.                      *)
LEMMA PathOf ==
  ASSUME NEW s \in Sessions, Typed, Asking(s), place[s] # "idle"
  PROVE  Path(s) \in Paths /\ Url(s) \in Urls
<1>1. Requests[s] \in Seq(Paths) /\ nth[s] \in 1 .. Len(Requests[s])
  <2>1. Requests[s] \in Seq(Paths)
    BY ProxyAssumption
  <2>2. nth[s] \in Nat /\ nth[s] # 0 /\ nth[s] <= Len(Requests[s])
    BY DEF Typed, Asking
  <2> QED
    BY <2>1, <2>2
<1>2. Path(s) \in Paths
  BY <1>1, ElementOfSeq DEF Path
<1> QED
  BY <1>2 DEF Typed, Url, Urls

(* An answer to the request a session is at is two or three pieces, each   *)
(* marked with the request and the kind.                                   *)
LEMMA AnswerTyped ==
  ASSUME NEW s \in Sessions, Typed, NEW kind \in KindNames
  PROVE  /\ Answer(s, kind) \in Seq(Pieced) /\ Len(Answer(s, kind)) = Len(Pieces(kind))
         /\ Len(Pieces(kind)) \in {2, 3}
         /\ \A i \in 1 .. Len(Pieces(kind)) :
              Answer(s, kind)[i] = [no |-> nth[s], kind |-> kind, is |-> Pieces(kind)[i]]
<1> DEFINE p == Pieces(kind)
<1>1. p \in Seq({"head", "body", "chunk", "zero"}) /\ Len(p) \in {2, 3}
  <2>1. CASE kind = "cached"
    <3>1. p = <<"head", "body">>
      BY <2>1, PiecesOf, Zenon
    <3> HIDE DEF p
    <3> QED
      BY <3>1
  <2>2. CASE kind = "chunked"
    <3>1. p = <<"head", "chunk", "zero">>
      BY <2>2, PiecesOf, Zenon
    <3> HIDE DEF p
    <3> QED
      BY <3>1
  <2>3. CASE kind = "unsized"
    <3>1. p = <<"head", "body">>
      BY <2>3, PiecesOf, Zenon
    <3> HIDE DEF p
    <3> QED
      BY <3>1
  <2> QED
    BY <2>1, <2>2, <2>3 DEF KindNames
<1>2. nth[s] \in Nat
  BY DEF Typed
<1> HIDE DEF p
<1>3. Answer(s, kind) = [i \in 1 .. Len(p) |->
                           [no |-> nth[s], kind |-> kind, is |-> p[i]]]
  BY <1>1 DEF Answer, p
<1>4. \A i \in 1 .. Len(p) :
        [no |-> nth[s], kind |-> kind, is |-> p[i]] \in Pieced
  BY <1>1, <1>2, ElementOfSeq DEF Pieced
<1>5. Answer(s, kind) \in Seq(Pieced) /\ Len(Answer(s, kind)) = Len(p)
  BY <1>1, <1>3, <1>4, IsASeq
<1> QED
  BY <1>1, <1>3, <1>5 DEF p

(* A piece leaves http_client in one of its states.                        *)
LEMMA ProcessedTyped ==
  ASSUME NEW c \in Clients, NEW t \in Pieced
  PROVE  Processed(c, t) \in Clients
<1>1. t.kind \in KindNames /\ Needs(t.kind) \in Int
  BY PiecesOf DEF Pieced, Needs, KindNames
<1>2. Header(c, t) \in Clients
  <2>1. CASE t.is # "head"
    BY <2>1 DEF Header
  <2>2. CASE t.is = "head"
    <3> DEFINE st == CASE t.kind = "unsized" -> "endless" [] t.kind = "chunked" -> "chunks"
                       [] OTHER -> "content"
    <3>1. st \in {"none", "header", "content", "chunks", "endless"}
      BY Zenon
    <3>2. Header(c, t) = [state |-> st, need |-> Needs(t.kind), use |-> t.kind = "cached"]
      BY <2>2, Zenon DEF Header
    <3> HIDE DEF st
    <3> QED
      BY <1>1, <3>1, <3>2 DEF Clients
  <2> QED
    BY <2>1, <2>2
<1>3. Chunk(c, t) \in Clients
  BY DEF Chunk, Clients
<1>4. [c EXCEPT !.need = @ - 1] \in Clients
  BY DEF Clients
<1>5. Processed(c, t) \in {Header(c, t), Chunk(c, t), [c EXCEPT !.need = @ - 1], c}
  BY Zenon DEF Processed
<1> QED
  BY <1>2, <1>3, <1>4, <1>5

(* A function with another value at one place.                             *)
LEMMA Updated ==
  ASSUME NEW S, NEW T, NEW f \in [S -> T], NEW x \in S, NEW v \in T
  PROVE  [f EXCEPT ![x] = v] \in [S -> T]
OBVIOUS

(* A thread goes to one of its places.                                     *)
LEMMA GotoTyped ==
  ASSUME Typed, NEW s \in Sessions, NEW label \in PCs, Goto(s, label)
  PROVE  place' \in [Sessions -> PCs]
BY Updated DEF Typed, Goto

(* What a request is, and a backend's end, may do to the variables.        *)
LEMMA AskingTyped ==
  ASSUME Typed, NEW s \in Sessions, Asking(s),
         Ask(s) \/ BackendEnds(s) \/ Flush(s) \/ Find(s) \/ Reuse(s) \/ Dial(s)
           \/ DialFails(s) \/ SendRequest(s) \/ SendFails(s)
  PROVE  Typed'
<1>0. /\ {"find", "dial", "send", "relay", "done", "cached"} \subseteq PCs
      /\ tunnel[s] \in Tunnels /\ backend[s] \in Backends /\ client[s] \in Clients
  BY DEF PCs, Typed
<1>1. CASE Ask(s)
  <2>1. place' \in [Sessions -> PCs]
    BY <1>0, <1>1, GotoTyped DEF Ask
  <2>2. nth' \in [Sessions -> Nat]
    <3>1. nth \in [Sessions -> Nat] /\ nth[s] + 1 \in Nat
      <4>1. nth \in [Sessions -> Nat]
        BY DEF Typed
      <4>2. nth[s] \in Nat
        BY <4>1
      <4> QED
        BY <4>1, <4>2
    <3>2. nth' = [nth EXCEPT ![s] = nth[s] + 1]
      BY <1>1 DEF Ask
    <3> QED
      BY <3>1, <3>2, Updated
  <2>3. UNCHANGED <<store, relay, tried, tunnel, backend, fate>>
    BY <1>1 DEF Ask
  <2> QED
    BY <2>1, <2>2, <2>3 DEF Typed, store, relay
<1>2. CASE BackendEnds(s)
  <2>1. PICK end \in {<<"closed", backend[s].todo>>, <<"closed", <<>>>>, <<"reset", <<>>>>} :
          backend' = [backend EXCEPT ![s] = [is |-> end[1], todo |-> end[2]]]
    BY <1>2 DEF BackendEnds
  <2>2. backend[s].todo \in Seq(Pieced) /\ <<>> \in Seq(Pieced)
    BY <1>0 DEF Backends
  <2>3. end[1] \in {"closed", "reset"} /\ end[2] \in Seq(Pieced)
    <3>1. \A x \in {<<"closed", backend[s].todo>>, <<"closed", <<>>>>, <<"reset", <<>>>>} :
            x[1] \in {"closed", "reset"} /\ x[2] \in {backend[s].todo, <<>>}
      OBVIOUS
    <3> QED
      BY <2>2, <3>1
  <2>4. [is |-> end[1], todo |-> end[2]] \in Backends
    BY <2>3 DEF Backends
  <2>5. backend' \in [Sessions -> Backends]
    BY <2>1, <2>4, Updated DEF Typed
  <2> QED
    BY <1>2, <2>5 DEF Typed, BackendEnds, store, relay
<1>3. CASE Flush(s)
  BY <1>3 DEF Typed, Flush, store
<1>4. CASE Find(s)
  <2>1. place' \in [Sessions -> PCs]
    BY <1>0, <1>4, GotoTyped DEF Find
  <2>2. found' \in [Sessions -> {"nothing", "live", "deleted"}]
    BY <1>4 DEF Typed, Find
  <2> QED
    BY <1>4, <2>1, <2>2 DEF Typed, Find, store
<1>5. CASE Reuse(s) \/ SendFails(s)
  <2>1. place' \in [Sessions -> PCs]
    BY <1>0, <1>5, GotoTyped DEF Reuse, SendFails
  <2> QED
    BY <1>5, <2>1 DEF Typed, Reuse, SendFails, store, relay
<1>6. CASE Dial(s)
  <2>1. Url(s) \in Urls /\ tried[s] \in 0 .. Len(Addrs)
    <3>1. place[s] # "idle" /\ tried[s] \in 1 .. Len(Addrs) /\ Len(Addrs) \in Nat
      BY <1>6, ProxyAssumption DEF Dial, Typed
    <3> QED
      BY <3>1, PathOf
  <2>2. Dialled(s) \in Tunnels
    BY <1>0, <2>1 DEF Tunnels, Dialled
  <2>3. tunnel' \in [Sessions -> Tunnels]
    BY <1>6, <2>2, Updated DEF Typed, Dial
  <2>4. \A is \in {"open", "reset"} : [is |-> is, todo |-> <<>>] \in Backends
    BY DEF Backends
  <2>5. backend' \in [Sessions -> Backends]
    <3>1. PICK is \in {"open", "reset"} : backend' = [backend EXCEPT ![s] = [is |-> is, todo |-> <<>>]]
      BY <1>6 DEF Dial
    <3> QED
      BY <2>4, <3>1, Updated DEF Typed
  <2>6. place' \in [Sessions -> PCs]
    BY <1>0, <1>6, GotoTyped DEF Dial
  <2>7. late' \in [Sessions -> BOOLEAN]
    BY <1>6 DEF Typed, Dial
  <2> QED
    BY <1>6, <2>3, <2>5, <2>6, <2>7 DEF Typed, Dial, store
<1>7. CASE DialFails(s)
  <2>1. PICK resolved \in BOOLEAN : tunnel' = [tunnel EXCEPT ![s].conn = @ /\ ~resolved]
    BY <1>7 DEF DialFails
  <2>2. [tunnel[s] EXCEPT !.conn = @ /\ ~resolved] \in Tunnels
    BY <1>0 DEF Tunnels
  <2>3. tunnel' \in [Sessions -> Tunnels]
    BY <2>1, <2>2, Updated DEF Typed
  <2>4. tried' \in [Sessions -> 1 .. Len(Addrs)]
    <3>1. tried \in [Sessions -> 1 .. Len(Addrs)] /\ Len(Addrs) \in Nat
      BY ProxyAssumption DEF Typed
    <3>2. \/ tried[s] < Len(Addrs) /\ tried' = [tried EXCEPT ![s] = tried[s] + 1]
          \/ tried' = tried
      BY <1>7 DEF DialFails
    <3>3. tried[s] < Len(Addrs) => tried[s] + 1 \in 1 .. Len(Addrs)
      BY <3>1
    <3> QED
      BY <3>1, <3>2, <3>3, Updated
  <2>5. place' \in [Sessions -> PCs]
    BY <1>0, <1>7, GotoTyped DEF DialFails
  <2> QED
    BY <1>7, <2>3, <2>4, <2>5 DEF Typed, DialFails, store, relay
<1>8. CASE SendRequest(s)
  <2>1. PICK kind \in Kinds[Path(s)] :
          backend' = IF backend[s].is = "open"
                     THEN [backend EXCEPT ![s].todo = @ \o Answer(s, kind)] ELSE backend
    BY <1>8 DEF SendRequest
  <2>2. kind \in KindNames
    BY <1>8, PathOf, ProxyAssumption DEF KindNames, SendRequest
  <2>3. backend[s].todo \o Answer(s, kind) \in Seq(Pieced)
    BY <1>0, <2>2, AnswerTyped, ConcatProperties DEF Backends
  <2>4. [backend[s] EXCEPT !.todo = @ \o Answer(s, kind)] \in Backends
    BY <1>0, <2>3 DEF Backends
  <2>5. backend' \in [Sessions -> Backends]
    BY <2>1, <2>4, Updated DEF Typed
  <2>6. [NoClient EXCEPT !.state = "header"] \in Clients
    <3>1. NoClient \in Clients
      BY DEF Clients, NoClient
    <3> QED
      BY <3>1 DEF Clients
  <2>7. client' \in [Sessions -> Clients]
    BY <1>8, <2>6, Updated DEF Typed, SendRequest
  <2>8. place' \in [Sessions -> PCs]
    BY <1>0, <1>8, GotoTyped DEF SendRequest
  <2>9. ongoing' \in [Sessions -> BOOLEAN]
    BY <1>8 DEF Typed, SendRequest
  <2> QED
    BY <1>8, <2>5, <2>7, <2>8, <2>9 DEF Typed, SendRequest, store
<1> QED
  BY <1>1, <1>2, <1>3, <1>4, <1>5, <1>6, <1>7, <1>8

(* And what the relay and the cache may do to them.                        *)
LEMMA RelayingTyped ==
  ASSUME Typed, NEW s \in Sessions, Asking(s),
         Receive(s) \/ ReceiveWithoutClient(s) \/ ReceiveFails(s) \/ Relayed(s)
           \/ Timeout(s) \/ LockStore(s) \/ LockObject(s) \/ LockDeleted(s)
           \/ AnswerCached(s) \/ FlushCached(s) \/ Done(s)
           \/ AsksForEver(s) \/ Stalls(s)
  PROVE  Typed'
<1>0. /\ {"push", "pushing", "crashed", "relay", "answer", "flush", "done", "idle"} \subseteq PCs
      /\ backend[s] \in Backends /\ client[s] \in Clients
  BY DEF PCs, Typed
<1>9. NoClient \in Clients
  BY DEF Clients, NoClient
<1>1. CASE Receive(s)
  <2> DEFINE t == Head(backend[s].todo)
             c == Processed(client[s], t)
  <2>1. backend[s].todo \in Seq(Pieced) /\ backend[s].todo # <<>>
    BY <1>0, <1>1 DEF Receive, Backends
  <2>2. t \in Pieced /\ Tail(backend[s].todo) \in Seq(Pieced)
    BY <2>1, HeadTailProperties
  <2>3. c \in Clients
    BY <1>0, <2>2, ProcessedTyped
  <2>4. /\ backend' = [backend EXCEPT ![s].todo = Tail(@)]
        /\ client' \in {client, [client EXCEPT ![s] = NoClient], [client EXCEPT ![s] = c]}
        /\ place' = place \/ Goto(s, "push")
        /\ ongoing' = ongoing \/ ongoing' = [ongoing EXCEPT ![s] = FALSE]
        /\ late' = late \/ late' = [late EXCEPT ![s] = TRUE]
        /\ UNCHANGED <<store, nth, tried, tunnel, found, fate>>
    BY <1>1 DEF Receive
  <2>5. \E n : out' = [out EXCEPT ![s] = n]
    BY <1>1 DEF Receive
  <2>6. \E b \in BOOLEAN : pending' = [pending EXCEPT ![s] = b]
    <3>1. pending[s] \in BOOLEAN
      BY DEF Typed
    <3>2. PICK result :
            pending' = [pending EXCEPT ![s] = (result = "some") \/ (result = "none")
                                               \/ (c.state = "header" /\ @)]
      BY <1>1 DEF Receive
    <3> HIDE DEF c
    <3> QED
      BY <3>1, <3>2
  <2>7. [backend[s] EXCEPT !.todo = Tail(@)] \in Backends
    BY <1>0, <2>2 DEF Backends
  <2>8. backend' \in [Sessions -> Backends]
    BY <2>4, <2>7, Updated DEF Typed
  <2> HIDE DEF c
  <2>9. client' \in [Sessions -> Clients]
    <3>1. client \in [Sessions -> Clients]
      BY DEF Typed
    <3> QED
      BY <1>9, <2>3, <2>4, <3>1, Updated
  <2>10. place' \in [Sessions -> PCs]
    BY <1>0, <2>4, GotoTyped DEF Typed
  <2>11. /\ ongoing' \in [Sessions -> BOOLEAN] /\ late' \in [Sessions -> BOOLEAN]
         /\ pending' \in [Sessions -> BOOLEAN] /\ DOMAIN out' = Sessions
    <3>1. ongoing \in [Sessions -> BOOLEAN] /\ late \in [Sessions -> BOOLEAN]
      BY DEF Typed
    <3>2. ongoing' \in [Sessions -> BOOLEAN] /\ late' \in [Sessions -> BOOLEAN]
      BY <2>4, <3>1
    <3>3. pending' \in [Sessions -> BOOLEAN] /\ DOMAIN out' = Sessions
      BY <2>5, <2>6 DEF Typed
    <3> QED
      BY <3>2, <3>3
  <2> QED
    BY <2>4, <2>8, <2>9, <2>10, <2>11 DEF Typed, store
<1>2. CASE ReceiveWithoutClient(s) \/ LockDeleted(s)
  <2>1. place' \in [Sessions -> PCs]
    BY <1>0, <1>2, GotoTyped DEF ReceiveWithoutClient, LockDeleted
  <2>2. fate' \in [Sessions -> {"fine", "no client", "deleted object"}]
    BY <1>2 DEF Typed, ReceiveWithoutClient, LockDeleted
  <2> QED
    BY <1>2, <2>1, <2>2 DEF Typed, ReceiveWithoutClient, LockDeleted, store, relay
<1>3. CASE ReceiveFails(s)
  BY <1>3 DEF Typed, ReceiveFails, store
<1>4. CASE Relayed(s) \/ LockObject(s)
  <2>1. place' \in [Sessions -> PCs]
    BY <1>0, <1>4, GotoTyped DEF Relayed, LockObject
  <2> QED
    BY <1>4, <2>1 DEF Typed, Relayed, LockObject, store, relay
<1>5. CASE Timeout(s)
  <2>1. place' \in [Sessions -> PCs]
    BY <1>0, <1>5, GotoTyped DEF Timeout
  <2>2. late' \in [Sessions -> BOOLEAN]
    BY <1>5 DEF Typed, Timeout
  <2> QED
    BY <1>5, <2>1, <2>2 DEF Typed, Timeout, store
<1>6. CASE LockStore(s)
  <2>1. place' \in [Sessions -> PCs]
    BY <1>0, <1>6, GotoTyped DEF LockStore
  <2> QED
    BY <1>6, <2>1 DEF Typed, LockStore, relay
<1>7. CASE AnswerCached(s) \/ FlushCached(s)
  <2>1. place' \in [Sessions -> PCs]
    BY <1>0, <1>7, GotoTyped DEF AnswerCached, FlushCached
  <2>2. pending' \in [Sessions -> BOOLEAN]
    <3>1. pending \in [Sessions -> BOOLEAN]
      BY DEF Typed
    <3>2. pending' = pending \/ \E b \in BOOLEAN : pending' = [pending EXCEPT ![s] = b]
      <4>1. CASE AnswerCached(s)
        <5>1. PICK result \in Sent :
                pending' = [pending EXCEPT ![s] = result \in {"some", "none"}]
          BY <4>1 DEF AnswerCached
        <5>2. (result \in {"some", "none"}) \in BOOLEAN
          OBVIOUS
        <5> QED
          BY <5>1, <5>2, Zenon
      <4>2. CASE FlushCached(s)
        BY <4>2 DEF FlushCached
      <4> QED
        BY <1>7, <4>1, <4>2
    <3> QED
      BY <3>1, <3>2
  <2> QED
    BY <1>7, <2>1, <2>2 DEF Typed, AnswerCached, FlushCached, store
<1>8. CASE Done(s)
  <2>1. place' \in [Sessions -> PCs]
    BY <1>0, <1>8, GotoTyped DEF Done
  <2>2. client' \in [Sessions -> Clients]
    BY <1>9, <1>8, Updated DEF Typed, Done
  <2>3. /\ ongoing' \in [Sessions -> BOOLEAN] /\ tried' \in [Sessions -> 1 .. Len(Addrs)]
        /\ found' \in [Sessions -> {"nothing", "live", "deleted"}]
        /\ DOMAIN out' = Sessions
    <3>1. 1 \in 1 .. Len(Addrs)
      BY ProxyAssumption
    <3>2. tried' \in [Sessions -> 1 .. Len(Addrs)]
      BY <1>8, <3>1, Updated DEF Typed, Done
    <3>3. ongoing' \in [Sessions -> BOOLEAN] /\ DOMAIN out' = Sessions
      BY <1>8 DEF Typed, Done
    <3>4. found' \in [Sessions -> {"nothing", "live", "deleted"}]
      BY <1>8 DEF Typed, Done
    <3> QED
      BY <3>2, <3>3, <3>4
  <2> QED
    BY <1>8, <2>1, <2>2, <2>3 DEF Typed, Done, store
<1>10. CASE AsksForEver(s) \/ Stalls(s)
  <2>1. {"asking", "stalled", "holding"} \subseteq PCs
    BY DEF PCs
  <2>2. place' \in [Sessions -> PCs]
    BY <2>1, <1>10, GotoTyped DEF AsksForEver, Stalls
  <2> QED
    BY <1>10, <2>2 DEF Typed, AsksForEver, Stalls, store, relay
<1> QED
  BY <1>1, <1>2, <1>3, <1>4, <1>5, <1>6, <1>7, <1>8, <1>10

-----------------------------------------------------------------------------
(* Sizes.                                                                  *)

(* There are finitely many URLs, so finitely many objects.                 *)
LEMMA HeldIsFinite ==
  ASSUME NEW c
  PROVE  IsFiniteSet(StoredObject(c))
<1>1. IsFiniteSet(1 .. Len(Addrs)) /\ IsFiniteSet(Paths)
  BY ProxyAssumption, FS_Interval
<1>2. IsFiniteSet(Urls)
  BY <1>1, FS_Product DEF Urls
<1> QED
  BY <1>2, FS_Subset DEF StoredObject

(* What CacheIsTrue says of m_tunneling_cache_size.                        *)
LEMMA SizeAsStated ==
  stored = MapThenSumSet(LAMBDA u : answers[u].len, Mapped) <=> stored = Sized(answers)
<1> DEFINE w == [u \in StoredObject(answers) |-> answers[u].len]
           F(g, s) == IF s = {} THEN 0 ELSE w[Pick(s)] + g[s \ {Pick(s)}]
           G(g, s) == IF s = {} THEN 0 ELSE answers[Pick(s)].len + g[s \ {Pick(s)}]
           gF == CHOOSE g : g = [s \in SUBSET Mapped |-> F(g, s)]
           gG == CHOOSE g : g = [s \in SUBSET Mapped |-> G(g, s)]
<1>0. Mapped = StoredObject(answers) /\ IsFiniteSet(Mapped)
  BY HeldIsFinite DEF Mapped, StoredObject
<1>1. \A g : [s \in SUBSET Mapped |-> F(g, s)] = [s \in SUBSET Mapped |-> G(g, s)]
  BY <1>0, PickIsIn
<1>2. gF = [s \in SUBSET Mapped |-> F(gF, s)]
  <2>1. \E g : g = [s \in SUBSET Mapped |-> F(g, s)]
    <3>1. \E g : IsSums(g, w, Mapped)
      BY <1>0, SumsExist
    <3> QED  BY <3>1 DEF IsSums
  <2> HIDE DEF F
  <2> QED  BY <2>1
<1>3. gG = [s \in SUBSET Mapped |-> G(gG, s)]
  <2>1. \E g : g = [s \in SUBSET Mapped |-> G(g, s)]
    <3> HIDE DEF F, G, gF
    <3>1. gF = [s \in SUBSET Mapped |-> G(gF, s)]
      BY <1>1, <1>2
    <3> QED
      BY <3>1
  <2> HIDE DEF G
  <2> QED  BY <2>1
<1>4. IsSums(gF, w, Mapped) /\ IsSums(gG, w, Mapped)
  <2>1. gG = [s \in SUBSET Mapped |-> F(gG, s)]
    <3> HIDE DEF F, G, gG
    <3> QED  BY <1>1, <1>3
  <2> HIDE DEF gF, gG
  <2> QED  BY <1>2, <2>1 DEF IsSums
<1>5. gF[Mapped] = gG[Mapped]
  <2> HIDE DEF gF, gG, w
  <2> QED  BY <1>0, <1>4, SumsAgree
<1>6. Sized(answers) = gF[Mapped]
  BY <1>0 DEF Sized, Sum, MapThenSumSet, MapThenFoldSet, Pick
<1>7. MapThenSumSet(LAMBDA u : answers[u].len, Mapped) = gG[Mapped]
  BY DEF MapThenSumSet, MapThenFoldSet, Pick
<1> QED
  <2> HIDE DEF gF, gG
  <2> QED  BY <1>5, <1>6, <1>7

(* Only the object that is none has no length.                             *)
LEMMA LengthOf ==
  ASSUME NEW x \in Objects
  PROVE  x.len \in Nat /\ (x = NoObject <=> x.len = 0)
BY DEF Objects, NoObject

(* The sum of the lengths of the objects is a number.                      *)
LEMMA SizedIsNatural ==
  ASSUME NEW c \in [Urls -> Objects]
  PROVE  Sized(c) \in Nat
<1>1. \A u \in StoredObject(c) : c[u].len \in Nat
  BY LengthOf DEF StoredObject
<1> QED
  BY <1>1, HeldIsFinite, SumIsNatural DEF Sized

(* An object that is taken out of the cache gives its length back.         *)
LEMMA SizedWithout ==
  ASSUME NEW c \in [Urls -> Objects], NEW u \in StoredObject(c)
  PROVE  Sized(c) = c[u].len + Sized([c EXCEPT ![u] = NoObject])
<1> DEFINE d == [c EXCEPT ![u] = NoObject]
           w == [x \in StoredObject(c) |-> c[x].len]
           v == [x \in StoredObject(d) |-> d[x].len]
<1>1. StoredObject(d) = StoredObject(c) \ {u}
  BY DEF StoredObject
<1>2. \A x \in StoredObject(c) : w[x] \in Nat
  BY LengthOf DEF StoredObject
<1>3. Sum(w, StoredObject(c)) = w[u] + Sum(w, StoredObject(c) \ {u})
  BY <1>2, HeldIsFinite, SumWithout
<1>4. \A x \in StoredObject(d) : v[x] = w[x]
  BY <1>1 DEF StoredObject
<1>5. Sum(v, StoredObject(d)) = Sum(w, StoredObject(d))
  BY <1>4, HeldIsFinite, SumOfSame
<1>6. w[u] = c[u].len
  OBVIOUS
<1> HIDE DEF w, v
<1> QED  BY <1>1, <1>3, <1>5, <1>6 DEF Sized, w, v

(* The push of an object in the place of another or of none.               *)
PushedAnswer(c, old, u, new) == [c EXCEPT ![old] = NoObject, ![u] = new]

(* One object deleted, or replaced, and one that was made instead of it.   *)
LEMMA SizedPushed ==
  ASSUME NEW c \in [Urls -> Objects], NEW old \in Urls, NEW u \in Urls,
         old = u \/ c[u] = NoObject, NEW new \in Objects, new # NoObject
  PROVE  /\ PushedAnswer(c, old, u, new) \in [Urls -> Objects]
         /\ Sized(PushedAnswer(c, old, u, new)) = Sized(c) - c[old].len + new.len
<1> DEFINE b == [c EXCEPT ![old] = NoObject]
           d == PushedAnswer(c, old, u, new)
<1>1. NoObject \in Objects
  BY DEF Objects
<1>2. b \in [Urls -> Objects] /\ b[u] = NoObject /\ d \in [Urls -> Objects]
  BY <1>1 DEF PushedAnswer
<1>3. Sized(c) = c[old].len + Sized(b)
  <2>1. CASE c[old] = NoObject
    <3>1. b = c /\ c[old].len = 0
      BY <1>1, <2>1, LengthOf
    <3>2. Sized(c) \in Nat
      BY SizedIsNatural
    <3>3. Sized(b) = Sized(c) /\ Sized(b) \in Nat
      BY <3>1, <3>2
    <3> HIDE DEF b
    <3> QED
      BY <3>1, <3>3
  <2>2. CASE c[old] # NoObject
    BY <2>2, SizedWithout DEF StoredObject
  <2> QED
    BY <2>1, <2>2
<1>4. d[u] = new /\ b = [d EXCEPT ![u] = NoObject] /\ u \in StoredObject(d)
  BY <1>2 DEF StoredObject, PushedAnswer
<1> HIDE DEF b, d
<1>5. Sized(d) = new.len + Sized(b)
  <2>1. Sized(d) = d[u].len + Sized([d EXCEPT ![u] = NoObject])
    BY <1>2, <1>4, SizedWithout
  <2> QED
    BY <1>4, <2>1
<1>6. Sized(b) \in Nat /\ c[old].len \in Nat /\ new.len \in Nat
  BY <1>2, SizedIsNatural, LengthOf
<1>7. Sized(d) = Sized(c) - c[old].len + new.len
  BY <1>3, <1>5, <1>6
<1> QED
  BY <1>2, <1>7 DEF d

-----------------------------------------------------------------------------
(* The cache.                                                              *)

(* The cache starts empty, with its size zero.                             *)
LEMMA CacheInit == ProxyInit => StoreInv
<1> SUFFICES ASSUME ProxyInit PROVE StoreInv
  OBVIOUS
<1>1. Typed
  <2>1. NoObject \in Objects /\ NoClient \in Clients /\ 1 \in 1 .. Len(Addrs)
    BY ProxyAssumption DEF Objects, Clients, NoClient
  <2>2. [addr |-> 0, url |-> <<0, 0>>, conn |-> FALSE] \in Tunnels
    BY ProxyAssumption DEF Tunnels
  <2>3. [is |-> "open", todo |-> <<>>] \in Backends
    BY DEF Backends
  <2>4. "idle" \in PCs
    BY DEF PCs
  <2> QED
    BY <2>1, <2>2, <2>3, <2>4 DEF ProxyInit, Typed
<1>2. \A s \in Sessions : Asking(s) /\ Connected(s)
  <2> TAKE s \in Sessions
  <2>1. Len(Requests[s]) \in Nat
    BY ProxyAssumption
  <2> QED
    BY <2>1 DEF ProxyInit, Asking, Connected
<1>3. stored = Sized(answers)
  <2>1. StoredObject(answers) = {}
    BY DEF StoredObject, ProxyInit
  <2>2. Sized(answers) = 0
    BY <2>1, SumOfNone DEF Sized
  <2> QED
    BY <2>2 DEF ProxyInit
<1>4. /\ \A s \in Sessions : place[s] \in {"answer", "holding"} => found[s] = "live"
      /\ \A u \in Urls : answers[u] # NoObject => answers[u].of[1] = u[1]
  BY DEF ProxyInit
<1> QED
  BY <1>1, <1>2, <1>3, <1>4 DEF StoreInv

(* What a push does to the cache.                                          *)
LEMMA PushKeepsCache ==
  ASSUME StoreInv, NEW s \in Sessions, Push(s)
  PROVE  StoreInv'
<1> DEFINE u == tunnel[s].url
           new == [of |-> <<tried[s], Path(s)>>, len |-> Size[Path(s)]]
<1>1. PICK old \in Replaced(u) :
        /\ NoSenders(old)
        /\ answers' = [answers EXCEPT ![old] = NoObject, ![u] = new]
        /\ stored' = Less(old) + new.len
        /\ found' = [t \in Sessions |-> IF Reads(t, old) THEN "deleted" ELSE found[t]]
  BY DEF Push
<1>2. /\ place[s] = "pushing" /\ Goto(s, "relay") /\ storing' = "nobody"
      /\ client' = [client EXCEPT ![s] = NoClient]
      /\ ongoing' = [ongoing EXCEPT ![s] = FALSE]
      /\ UNCHANGED <<nth, tried, tunnel, backend, pending, out, late, fate>>
  BY DEF Push
<1>3. Typed /\ Asking(s) /\ Connected(s) /\ stored = Sized(answers)
  BY DEF StoreInv
<1>4. u \in Urls /\ u[1] = tried[s]
  <2>1. tried[s] \in 1 .. Len(Addrs) /\ tunnel[s].addr = tried[s]
    BY <1>2, <1>3 DEF Typed, Connected
  <2> QED
    BY <1>3, <2>1 DEF Connected
<1>5. new \in Objects /\ new # NoObject /\ new.of[1] = tried[s]
  <2>1. Path(s) \in Paths /\ tried[s] \in 1 .. Len(Addrs)
    BY <1>2, <1>3, PathOf DEF Typed
  <2>2. Size[Path(s)] \in Nat \ {0}
    BY <2>1, ProxyAssumption
  <2>3. new \in Objects
    BY <2>1, <2>2 DEF Objects
  <2> QED
    BY <2>2, <2>3 DEF NoObject
<1>6. old \in Urls /\ (old = u \/ answers[u] = NoObject)
  BY <1>4 DEF Replaced, OldestAnswer, Mapped
<1>7. answers \in [Urls -> Objects]
  BY <1>3 DEF Typed
<1> HIDE DEF u, new
<1>8. answers' \in [Urls -> Objects] /\ stored' = Sized(answers')
  <2>1. /\ answers' \in [Urls -> Objects]
        /\ Sized(answers') = Sized(answers) - answers[old].len + new.len
    <3>1. /\ PushedAnswer(answers, old, u, new) \in [Urls -> Objects]
          /\ Sized(PushedAnswer(answers, old, u, new)) = Sized(answers) - answers[old].len + new.len
      BY <1>4, <1>5, <1>6, <1>7, SizedPushed
    <3>2. answers' = PushedAnswer(answers, old, u, new)
      BY <1>1 DEF PushedAnswer
    <3> QED
      BY <3>1, <3>2
  <2> QED
    BY <1>1, <1>3, <2>1 DEF Less
<1>9. Typed'
  <2>1. place' \in [Sessions -> PCs]
    BY <1>2, <1>3, GotoTyped DEF PCs
  <2>2. found' \in [Sessions -> {"nothing", "live", "deleted"}]
    BY <1>1, <1>3 DEF Typed
  <2>3. client' \in [Sessions -> Clients] /\ ongoing' \in [Sessions -> BOOLEAN]
    <3>1. NoClient \in Clients
      BY DEF Clients, NoClient
    <3> QED
      BY <1>2, <1>3, <3>1 DEF Typed
  <2> QED
    BY <1>2, <1>3, <1>8, <2>1, <2>2, <2>3 DEF Typed
<1>10. \A t \in Sessions : Asking(t)' /\ Connected(t)'
  BY <1>2, <1>3 DEF StoreInv, Asking, Connected, Goto, Typed
<1>11. ASSUME NEW t \in Sessions, place'[t] \in {"answer", "holding"}
       PROVE  found'[t] = "live"
  <2>1. place[t] \in {"answer", "holding"} /\ found[t] = "live"
    BY <1>2, <1>3, <1>11 DEF StoreInv, Goto, Typed
  <2> QED
    BY <1>1, <2>1 DEF NoSenders
<1>12. ASSUME NEW v \in Urls, answers'[v] # NoObject
       PROVE  answers'[v].of[1] = v[1]
  <2>1. CASE v = u
    BY <1>1, <1>4, <1>5, <1>7, <2>1
  <2>2. CASE v # u
    <3>1. answers'[v] = answers[v]
      BY <1>1, <1>7, <1>12, <2>2
    <3> QED
      BY <1>12, <3>1 DEF StoreInv
  <2> QED
    BY <2>1, <2>2
<1> QED
  BY <1>8, <1>9, <1>10, <1>11, <1>12 DEF StoreInv

(* What a session is at, no other's step changes.                          *)
LEMMA OthersStay ==
  ASSUME Typed, NEW s \in Sessions, Ask(s) \/ BackendEnds(s) \/ Flush(s) \/ Thread(s),
         NEW t \in Sessions \ {s}
  PROVE  /\ UNCHANGED <<place[t], nth[t], tried[t], tunnel[t], backend[t], client[t],
                        ongoing[t], out[t], late[t], fate[t]>>
         /\ ~Push(s) => UNCHANGED found[t]
<1>1. CASE Ask(s) \/ BackendEnds(s) \/ Flush(s)
  BY <1>1 DEF Typed, Goto, Ask, BackendEnds, Flush, relay
<1>2. CASE Find(s) \/ Reuse(s)
  BY <1>2 DEF Typed, Goto, Find, Reuse, relay
<1>3. CASE Dial(s)
  BY <1>3 DEF Typed, Goto, Dial, relay
<1>4. CASE DialFails(s)
  <2>1. PICK resolved \in BOOLEAN : tunnel' = [tunnel EXCEPT ![s].conn = @ /\ ~resolved]
    BY <1>4 DEF DialFails
  <2>2. UNCHANGED tunnel[t]
    BY <2>1 DEF Typed
  <2>3. UNCHANGED <<place[t], tried[t]>>
    <3>1. /\ \E label \in {"find", "done"} : Goto(s, label)
          /\ UNCHANGED tried \/ tried' = [tried EXCEPT ![s] = @ + 1]
      BY <1>4 DEF DialFails
    <3> QED
      BY <3>1 DEF Typed, Goto
  <2> QED
    BY <1>4, <2>2, <2>3 DEF DialFails, relay
<1>5. CASE SendRequest(s)
  BY <1>5 DEF Typed, Goto, SendRequest, relay
<1>6. CASE SendFails(s) \/ LockObject(s) \/ LockDeleted(s) \/ LockStore(s)
  BY <1>6 DEF Typed, Goto, SendFails, LockObject, LockDeleted, LockStore, relay
<1>7. CASE Receive(s)
  BY <1>7, ZenonT(30) DEF Typed, Goto, Receive, relay
<1>8. CASE ReceiveWithoutClient(s) \/ ReceiveFails(s) \/ Relayed(s)
  BY <1>8 DEF Typed, Goto, ReceiveWithoutClient, ReceiveFails, Relayed, relay
<1>9. CASE Timeout(s)
  BY <1>9 DEF Typed, Goto, Timeout, relay
<1>10. CASE Push(s)
  BY <1>10 DEF Typed, Goto, Push, relay
<1>11. CASE AnswerCached(s) \/ FlushCached(s)
  BY <1>11 DEF Typed, Goto, AnswerCached, FlushCached, relay
<1>12. CASE Done(s)
  BY <1>12 DEF Typed, Goto, Done, relay
<1>13. CASE AsksForEver(s) \/ Stalls(s)
  BY <1>13 DEF Typed, Goto, AsksForEver, Stalls, relay
<1> QED
  BY <1>1, <1>2, <1>3, <1>4, <1>5, <1>6, <1>7, <1>8, <1>9, <1>10, <1>11, <1>12, <1>13
     DEF Thread, Alone

(* Every other step leaves the cache as it is.                             *)
LEMMA StepKeepsCache ==
  ASSUME StoreInv, NEW s \in Sessions, Ask(s) \/ BackendEnds(s) \/ Flush(s) \/ Thread(s), ~Push(s)
  PROVE  StoreInv'
<1>1. Typed /\ Asking(s) /\ Connected(s) /\ stored = Sized(answers)
  BY DEF StoreInv
<1>2. Typed'
  BY <1>1, AskingTyped, RelayingTyped DEF Thread, Alone
<1>3. UNCHANGED <<answers, stored>>
  BY DEF Thread, Alone, Ask, BackendEnds, Flush, Find, Reuse, Dial, DialFails, SendRequest,
         SendFails, Receive, ReceiveWithoutClient, ReceiveFails, Relayed, Timeout,
         LockStore, LockObject, LockDeleted, AnswerCached, FlushCached, Done, AsksForEver, Stalls, store
<1>4. ASSUME NEW t \in Sessions \ {s}
      PROVE  UNCHANGED <<place[t], nth[t], tried[t], tunnel[t], found[t]>>
  BY <1>1, <1>4, OthersStay
<1>5. Asking(s)'
  <2>1. nth[s] \in Nat /\ Len(Requests[s]) \in Nat
    <3>1. Requests[s] \in Seq(Paths)
      BY ProxyAssumption
    <3>2. nth[s] \in Nat
      BY <1>1 DEF Typed
    <3> QED
      BY <3>1, <3>2
  <2>2. CASE Ask(s)
    <3>1. nth'[s] = nth[s] + 1 /\ nth[s] < Len(Requests[s])
      BY <1>1, <2>2 DEF Typed, Ask
    <3> QED
      BY <2>1, <3>1 DEF Asking
  <2>3. CASE ~Ask(s)
    <3>1. nth' = nth /\ (place'[s] # "idle" => place[s] # "idle")
      BY <1>1, <2>3
         DEF Typed, Goto, Thread, Alone, BackendEnds, Flush, Find, Reuse, Dial, DialFails, SendRequest,
             SendFails, Receive, ReceiveWithoutClient, ReceiveFails, Relayed, Timeout,
             LockStore, LockObject, LockDeleted, AnswerCached, FlushCached, Done, AsksForEver, Stalls, relay
    <3> QED
      BY <1>1, <3>1 DEF Asking
  <2> QED
    BY <2>2, <2>3
<1>6. Connected(s)'
  <2>1. CASE Dial(s)
    <3>1. /\ tunnel'[s] = Dialled(s) /\ tunnel[s] \in Tunnels /\ tried' = tried
      BY <1>1, <2>1 DEF Typed, Dial
    <3>2. tunnel'[s].addr = tried[s] /\ tunnel'[s].url = Url(s) /\ Url(s)[1] = tried[s]
      BY <3>1 DEF Dialled, Tunnels, Url
    <3>3. Url(s) \in Urls /\ tried[s] # 0
      <4>1. place[s] # "idle"
        BY <2>1 DEF Dial
      <4>2. tried[s] \in 1 .. Len(Addrs)
        BY <1>1 DEF Typed
      <4> QED
        BY <1>1, <4>1, <4>2, PathOf
    <3> QED
      BY <3>1, <3>2, <3>3 DEF Connected
  <2>2. CASE DialFails(s)
    <3>1. PICK resolved \in BOOLEAN : tunnel' = [tunnel EXCEPT ![s].conn = @ /\ ~resolved]
      BY <2>2 DEF DialFails
    <3>2. /\ tunnel'[s].addr = tunnel[s].addr /\ tunnel'[s].url = tunnel[s].url
          /\ tunnel'[s].conn => tunnel[s].conn
      <4>1. tunnel[s] \in Tunnels /\ tunnel'[s] = [tunnel[s] EXCEPT !.conn = @ /\ ~resolved]
        BY <1>1, <3>1 DEF Typed
      <4>2. tunnel'[s].conn = (tunnel[s].conn /\ ~resolved)
        BY <4>1 DEF Tunnels
      <4> QED
        BY <4>1, <4>2 DEF Tunnels
    <3>3. place'[s] \in {"find", "done"}
      <4>1. Goto(s, "find") \/ Goto(s, "done")
        BY <2>2 DEF DialFails
      <4> QED
        BY <1>1, <4>1 DEF Typed, Goto
    <3> QED
      BY <1>1, <3>2, <3>3 DEF Connected
  <2>3. CASE Reuse(s)
    BY <1>1, <2>3 DEF Typed, Connected, Reuse, Same, Goto
  <2>4. CASE Ask(s) \/ Find(s) \/ Done(s) \/ LockObject(s) \/ LockDeleted(s)
               \/ AnswerCached(s) \/ FlushCached(s) \/ AsksForEver(s) \/ Stalls(s)
    <3>1. tunnel' = tunnel
          /\ place'[s] \notin {"send", "relay", "push", "pushing"}
      BY <1>1, <2>4 DEF Typed, Goto, Ask, Find, Done, LockObject, LockDeleted,
                        AnswerCached, FlushCached, AsksForEver, Stalls
    <3> QED
      BY <1>1, <3>1 DEF Connected
  <2>5. CASE BackendEnds(s) \/ Flush(s) \/ SendRequest(s) \/ SendFails(s) \/ Receive(s)
               \/ ReceiveWithoutClient(s) \/ ReceiveFails(s) \/ Relayed(s) \/ Timeout(s)
               \/ LockStore(s)
    <3>1. tunnel' = tunnel /\ tried' = tried
          /\ (place'[s] \in {"send", "relay", "push", "pushing"} =>
                place[s] \in {"send", "relay", "push", "pushing"})
      BY <1>1, <2>5 DEF Typed, Goto, BackendEnds, Flush, SendRequest, SendFails, Receive,
                        ReceiveWithoutClient, ReceiveFails, Relayed, Timeout, LockStore
    <3> QED
      BY <1>1, <3>1 DEF Connected
  <2> QED
    BY <2>1, <2>2, <2>3, <2>4, <2>5 DEF Thread, Alone
<1>7. \A t \in Sessions : Asking(t)' /\ Connected(t)'
  <2>1. \A t \in Sessions \ {s} : Asking(t) /\ Connected(t)
    BY DEF StoreInv
  <2> QED
    BY <1>4, <1>5, <1>6, <2>1 DEF Asking, Connected
<1>8. place'[s] \in {"answer", "holding"} => found'[s] = "live"
  <2>1. CASE LockObject(s)
    BY <1>1, <2>1 DEF LockObject, relay
  <2>2. CASE BackendEnds(s) \/ Flush(s)
    BY <2>2 DEF StoreInv, BackendEnds, Flush, relay
  <2>4. CASE Stalls(s)
    BY <1>1, <2>4 DEF StoreInv, Typed, Goto, Stalls, relay
  <2>3. CASE Ask(s) \/ (Thread(s) /\ ~LockObject(s) /\ ~Stalls(s))
    <3>1. \E label \in PCs \ {"answer", "holding"} : Goto(s, label) \/ (place[s] = "relay" /\ UNCHANGED place)
      BY <2>3
         DEF PCs, Thread, Alone, Ask, Find, Reuse, Dial, DialFails, SendRequest, SendFails, Receive,
             ReceiveWithoutClient, ReceiveFails, Relayed, Timeout, LockStore, LockDeleted,
             AnswerCached, FlushCached, Done, AsksForEver
    <3> QED
      BY <1>1, <3>1 DEF Typed, Goto
  <2> QED
    BY <2>1, <2>2, <2>3, <2>4
<1> QED
  BY <1>1, <1>2, <1>3, <1>4, <1>7, <1>8 DEF StoreInv

(* A step of nobody leaves the invariant as it is.                         *)
LEMMA QuietKeepsCache ==
  ASSUME StoreInv, UNCHANGED proxyVars
  PROVE  StoreInv'
<1>1. Typed'
  BY DEF proxyVars, StoreInv, Typed
<1>2. \A s \in Sessions : Asking(s)' /\ Connected(s)'
  BY DEF proxyVars, StoreInv, Asking, Connected
<1>3. (stored = Sized(answers))'
  BY DEF proxyVars, StoreInv
<1> QED
  BY <1>1, <1>2, <1>3 DEF proxyVars, StoreInv

(* The accounts of the cache of answers agree with what it holds.          *)
THEOREM CacheIsKept == ProxySpec => []CacheIsTrue
<1>1. StoreInv /\ [ProxyNext]_proxyVars => StoreInv'
  BY QuietKeepsCache, PushKeepsCache, StepKeepsCache DEF ProxyNext
<1>2. StoreInv => CacheIsTrue
  <2> SUFFICES ASSUME StoreInv PROVE CacheIsTrue
    OBVIOUS
  <2>1. ProxyTypeOK
    <3>1. stored \in Nat
      BY SizedIsNatural DEF StoreInv, Typed
    <3> QED
      BY <3>1 DEF StoreInv, Typed, ProxyTypeOK, PCs, Asking
  <2>2. stored = MapThenSumSet(LAMBDA u : answers[u].len, Mapped)
    BY SizeAsStated DEF StoreInv
  <2> QED
    BY <2>1, <2>2 DEF StoreInv, CacheIsTrue, Mapped
<1> QED
  BY CacheInit, <1>1, <1>2, PTL DEF ProxySpec

-----------------------------------------------------------------------------
(* Answers.                                                                *)

(* A piece more of an answer is parsed.                                    *)
LEMMA PieceParsed ==
  ASSUME NEW kind \in KindNames, NEW n \in 0 .. 2, n < Len(Pieces(kind)),
         NEW c \in Clients, Parsed(c, kind, n),
         NEW t \in Pieced, t.kind = kind, t.is = Pieces(kind)[n + 1]
  PROVE  /\ Parsed(Processed(c, t), kind, n + 1)
         /\ n + 1 < Len(Pieces(kind)) => ~Complete(Processed(c, t))
<1> DEFINE d == Processed(c, t)
           p == Pieces(kind)
<1>1. /\ kind = "cached" => p = <<"head", "body">>
      /\ kind = "chunked" => p = <<"head", "chunk", "zero">>
      /\ kind = "unsized" => p = <<"head", "body">>
  BY PiecesOf, Zenon
<1>2. /\ c.state = IF n = 0 THEN "header" ELSE InBody(kind)
      /\ n > 0 /\ kind # "unsized" => c.need = Len(p) - n
  BY DEF Parsed
<1>3. c.need \in Int
  BY DEF Clients
<1>4. CASE n = 0
  <2>1. t.is = "head" /\ c.state = "header"
    <3>1. p[1] = "head"
      <4> HIDE DEF p
      <4> QED
        BY <1>1 DEF KindNames
    <3> QED
      BY <1>2, <1>4, <3>1
  <2>2. d = Header(c, t)
    BY <2>1, Zenon DEF Processed
  <2>3. d.need = Len(p) - 1 /\ d.state = InBody(kind)
    <3>1. CASE kind = "cached"
      <4>1. d = [state |-> "content", need |-> Needs(kind), use |-> TRUE]
        BY <2>1, <2>2, <3>1, Zenon DEF Header
      <4> QED
        BY <3>1, <4>1 DEF InBody, Needs
    <3>2. CASE kind = "chunked"
      <4>1. d = [state |-> "chunks", need |-> Needs(kind), use |-> FALSE]
        BY <2>1, <2>2, <3>2, Zenon DEF Header
      <4> QED
        BY <3>2, <4>1 DEF InBody, Needs
    <3>3. CASE kind = "unsized"
      <4>1. d = [state |-> "endless", need |-> Needs(kind), use |-> FALSE]
        BY <2>1, <2>2, <3>3, Zenon DEF Header
      <4> QED
        BY <3>3, <4>1 DEF InBody, Needs
    <3> QED
      BY <3>1, <3>2, <3>3 DEF KindNames
  <2> HIDE DEF d, p
  <2>4. Len(p) \in {2, 3}
    BY <1>1 DEF KindNames
  <2>5. d.need # 0 /\ d.need = Len(p) - (n + 1) /\ n + 1 > 0
    <3>1. n + 1 = 1
      BY <1>4
    <3>2. d.need # 0
      <4>1. \A m \in {2, 3} : m - 1 # 0
        OBVIOUS
      <4> QED
        BY <2>3, <2>4, <4>1, Zenon
    <3> QED
      BY <2>3, <3>1, <3>2
  <2>6. ~Complete(d)
    BY <2>5 DEF Complete
  <2>7. Parsed(d, kind, n + 1)
    BY <2>3, <2>5 DEF Parsed, p
  <2> QED
    BY <2>6, <2>7 DEF d
<1>5. CASE n # 0
  <2>1. c.state = InBody(kind) /\ (kind # "unsized" => c.need = Len(p) - n)
    BY <1>2, <1>5
  <2>2. CASE kind = "cached"
    <3>1. d = [c EXCEPT !.need = @ - 1]
      BY <2>1, <2>2, Zenon DEF Processed, InBody
    <3>2. d.need = Len(p) - (n + 1) /\ d.state = "content"
      <4> HIDE DEF d, p
      <4>1. Len(p) = 2
        BY <1>1, <2>2
      <4> QED
        BY <2>1, <2>2, <3>1, <4>1 DEF Clients, InBody
    <3> HIDE DEF d
    <3> QED
      BY <2>2, <3>2, <1>1 DEF Parsed, Complete, InBody, d
  <2>3. CASE kind = "chunked"
    <3>1. t.is \in {"chunk", "zero"}
      <4>1. p = <<"head", "chunk", "zero">> /\ n \in {1, 2}
        BY <1>1, <1>5, <2>3
      <4> HIDE DEF p
      <4>2. p[n + 1] \in {"chunk", "zero"}
        BY <4>1
      <4> QED
        BY <4>2 DEF p
    <3>2. d = [c EXCEPT !.need = @ - 1]
      BY <2>1, <2>3, <3>1, Zenon DEF Processed, Chunk, InBody
    <3>3. d.need = Len(p) - (n + 1) /\ d.state = "chunks"
      <4> HIDE DEF d, p
      <4>1. Len(p) = 3
        BY <1>1, <2>3
      <4> QED
        BY <2>1, <2>3, <3>2, <4>1 DEF Clients, InBody
    <3> HIDE DEF d
    <3> QED
      BY <2>3, <3>3, <1>1 DEF Parsed, Complete, InBody, d
  <2>4. CASE kind = "unsized"
    <3>1. d = c
      BY <2>1, <2>4, Zenon DEF Processed, InBody
    <3> HIDE DEF d
    <3> QED
      BY <2>1, <2>4, <3>1 DEF Parsed, Complete, InBody, d
  <2> QED
    BY <2>2, <2>3, <2>4 DEF KindNames
<1> QED
  BY <1>4, <1>5

(* A piece more of it is relayed, and the next is the next.                *)
LEMMA ReceiveOwns ==
  ASSUME Typed, NEW s \in Sessions, Owns(s), Receive(s)
  PROVE  Owns(s)'
<1> DEFINE todo == backend[s].todo
           t == Head(todo)
           c == Processed(client[s], t)
<1>1. /\ place[s] = "relay" /\ todo # <<>> /\ backend' = [backend EXCEPT ![s].todo = Tail(@)]
      /\ out' = [out EXCEPT ![s] = IF IsNext(s, t) THEN @ + 1 ELSE Mixed]
      /\ UNCHANGED <<nth, fate>>
      /\ \/ late' = [late EXCEPT ![s] = TRUE] /\ UNCHANGED place
         \/ Complete(c) /\ UNCHANGED late /\ (Goto(s, "push") \/ UNCHANGED place)
         \/ ~Complete(c) /\ client' = [client EXCEPT ![s] = c] /\ UNCHANGED <<place, ongoing, late>>
  BY DEF Receive
<1>2. todo \in Seq(Pieced) /\ backend[s] \in Backends /\ client[s] \in Clients
  BY DEF Typed, Backends
<1>3. /\ t = todo[1] /\ t \in Pieced /\ Tail(todo) \in Seq(Pieced)
      /\ Len(todo) \in Nat \ {0} /\ Len(Tail(todo)) = Len(todo) - 1
      /\ \A i \in 1 .. Len(todo) - 1 : Tail(todo)[i] = todo[i + 1]
  BY <1>1, <1>2, HeadTailProperties, EmptySeq
<1>4. backend'[s].todo = Tail(todo)
  BY <1>1, <1>2 DEF Typed, Backends
<1>5. place'[s] \in {"relay", "push"} /\ fate[s] # "no client"
  BY <1>1 DEF Goto, Typed, Owns
<1>6. CASE late[s]
  <2>1. late'[s]
    BY <1>1, <1>6 DEF Typed
  <2> QED
    BY <1>1, <1>5, <2>1 DEF Owns
<1>7. CASE ~late[s] /\ late'[s]
  BY <1>1, <1>5, <1>7 DEF Owns
<1>8. CASE ~late[s] /\ ~late'[s]
  <2> DEFINE n == out[s]
  <2>1. PICK kind \in KindNames : Relaying(s, kind)
    BY <1>1, <1>8 DEF Owns, InStep
  <2>2. /\ n \in 0 .. 2 /\ Parsed(client[s], kind, n) /\ ongoing[s]
        /\ Len(todo) + n = Len(Pieces(kind))
        /\ \A i \in 1 .. Len(todo) :
             todo[i] = [no |-> nth[s], kind |-> kind, is |-> Pieces(kind)[n + i]]
    BY <2>1 DEF Relaying, IsRest
  <2>3. t = [no |-> nth[s], kind |-> kind, is |-> Pieces(kind)[n + 1]]
    <3> HIDE DEF todo, n, t
    <3>1. 1 \in 1 .. Len(todo)
      BY <1>3
    <3> QED
      BY <1>3, <2>2, <3>1
  <2>4. Len(Pieces(kind)) \in {2, 3} /\ n + 1 \in 1 .. Len(Pieces(kind))
    <3>1. Len(Pieces(kind)) \in {2, 3}
      BY AnswerTyped
    <3> HIDE DEF todo, n
    <3> QED
      BY <1>3, <2>2, <3>1
  <2>5. IsNext(s, t)
    <3>1. Answer(s, kind)[n + 1] = t /\ DOMAIN Pieces(kind) = 1 .. Len(Pieces(kind))
      <4>1. Answer(s, kind)[n + 1]
              = [no |-> nth[s], kind |-> kind, is |-> Pieces(kind)[n + 1]]
        BY <2>4, AnswerTyped
      <4>2. DOMAIN Answer(s, kind) = DOMAIN Pieces(kind)
        BY DEF Answer
      <4>3. DOMAIN Answer(s, kind) = 1 .. Len(Pieces(kind))
        BY AnswerTyped
      <4> QED
        BY <2>3, <4>1, <4>2, <4>3
    <3>2. t.kind = kind /\ n + 1 \in DOMAIN Pieces(kind)
      BY <2>3, <2>4, <3>1
    <3> HIDE DEF t, n
    <3> QED
      BY <3>1, <3>2 DEF IsNext, n
  <2>6. out'[s] = n + 1
    BY <1>1, <2>5 DEF Typed
  <2>7. Parsed(c, kind, n + 1) /\ (n + 1 < Len(Pieces(kind)) => ~Complete(c))
    <3>1. t.kind = kind /\ t.is = Pieces(kind)[n + 1] /\ n < Len(Pieces(kind))
      BY <2>3, <2>4, <2>2
    <3> HIDE DEF t, n
    <3> QED
      BY <1>2, <1>3, <2>2, <3>1, PieceParsed
  <2> HIDE DEF todo, t, c, n
  <2>8. InStep(s)'
    <3>1. CASE Len(todo) = 1
      <4>1. Tail(todo) = <<>>
        <5>1. Len(Tail(todo)) = 0
          BY <1>3, <3>1
        <5> QED
          BY <1>3, <5>1, EmptySeq
      <4> QED
        BY <1>4, <4>1 DEF InStep
    <3>2. CASE Len(todo) # 1
      <4>1. n + 1 < Len(Pieces(kind)) /\ n + 1 \in 0 .. 2
        <5>1. \A len \in Nat \ {0}, all \in {2, 3}, m \in 0 .. 2 :
                len # 1 /\ len + m = all => m + 1 < all /\ m + 1 \in 0 .. 2
          OBVIOUS
        <5> QED
          BY <1>3, <2>2, <2>4, <3>2, <5>1
      <4>2. client'[s] = c /\ place'[s] = "relay" /\ ongoing'[s]
        BY <1>1, <1>8, <2>2, <2>7, <4>1 DEF Typed
      <4>3. IsRest(s, Tail(todo), kind, n + 1)
        <5>1. Len(Tail(todo)) + (n + 1) = Len(Pieces(kind))
          BY <1>3, <2>2, <2>4
        <5>2. ASSUME NEW i \in 1 .. Len(Tail(todo))
              PROVE  Tail(todo)[i]
                       = [no |-> nth[s], kind |-> kind, is |-> Pieces(kind)[n + 1 + i]]
          <6>1. i + 1 \in 1 .. Len(todo) /\ i \in 1 .. Len(todo) - 1
                /\ n + (i + 1) = n + 1 + i
            BY <1>3, <2>2
          <6> QED
            BY <1>3, <2>2, <6>1
        <5> QED
          BY <5>1, <5>2 DEF IsRest
      <4>4. Relaying(s, kind)'
        <5>1. IsRest(s, backend[s].todo, kind, out[s])'
          BY <1>1, <1>4, <2>6, <4>3 DEF IsRest
        <5>2. Parsed(client'[s], kind, out'[s]) /\ out'[s] \in 0 .. 2
          BY <2>6, <2>7, <4>1, <4>2
        <5> QED
          BY <4>2, <5>1, <5>2 DEF Relaying
      <4> QED
        BY <4>4 DEF InStep
    <3> QED
      BY <3>1, <3>2
  <2>9. out'[s] # Mixed
    BY <2>2, <2>6 DEF Mixed
  <2> QED
    BY <1>1, <1>5, <2>8, <2>9 DEF Owns
<1> QED
  BY <1>6, <1>7, <1>8

(* SendRequest: the backend has nothing else to send.                      *)
LEMMA SendOwns ==
  ASSUME Typed, NEW s \in Sessions, Asking(s), Owns(s), SendRequest(s)
  PROVE  Owns(s)'
<1>1. /\ place[s] = "send" /\ Goto(s, "relay")
      /\ client' = [client EXCEPT ![s] = [NoClient EXCEPT !.state = "header"]]
      /\ ongoing' = [ongoing EXCEPT ![s] = TRUE]
      /\ UNCHANGED <<nth, out, late, fate>>
  BY DEF SendRequest
<1>2. place'[s] = "relay" /\ out[s] = 0 /\ fate[s] # "no client" /\ ongoing'[s]
  BY <1>1 DEF Typed, Goto, Owns
<1>3. client'[s].state = "header"
  BY <1>1 DEF Typed, NoClient
<1>4. PICK kind \in Kinds[Path(s)] :
        backend' = IF backend[s].is = "open"
                   THEN [backend EXCEPT ![s].todo = @ \o Answer(s, kind)] ELSE backend
  BY DEF SendRequest
<1>5. kind \in KindNames
  <2>1. Path(s) \in Paths
    BY <1>1, PathOf
  <2> QED
    BY <2>1, ProxyAssumption DEF KindNames
<1>6. ASSUME ~late[s]
      PROVE  InStep(s)'
  <2>1. backend[s].todo = <<>>
    BY <1>1, <1>6 DEF Owns, InStep, Relaying
  <2>2. CASE backend[s].is # "open"
    BY <1>4, <2>1, <2>2 DEF InStep
  <2>3. CASE backend[s].is = "open"
    <3> DEFINE a == Answer(s, kind)
    <3>1. a \in Seq(Pieced) /\ Len(a) = Len(Pieces(kind))
          /\ Len(Pieces(kind)) \in {2, 3}
          /\ \A i \in 1 .. Len(Pieces(kind)) :
               a[i] = [no |-> nth[s], kind |-> kind, is |-> Pieces(kind)[i]]
      BY <1>5, AnswerTyped
    <3>2. backend[s] \in Backends
      BY DEF Typed
    <3> HIDE DEF a
    <3>3. backend'[s].todo = <<>> \o a
      BY <1>4, <2>1, <2>3, <3>2 DEF Typed, Backends, a
    <3>4. backend'[s].todo = a
      BY <3>1, <3>3
    <3>5. IsRest(s, a, kind, 0)
      <4>1. Len(a) + 0 = Len(Pieces(kind))
        BY <3>1
      <4>2. \A i \in 1 .. Len(a) : 0 + i = i
        BY <3>1
      <4> QED
        BY <3>1, <4>1, <4>2 DEF IsRest
    <3>6. Relaying(s, kind)'
      <4>1. out'[s] = 0
        BY <1>1, <1>2
      <4>2. IsRest(s, backend[s].todo, kind, out[s])'
        BY <1>1, <3>4, <3>5, <4>1 DEF IsRest
      <4>3. Parsed(client'[s], kind, 0)
        BY <1>3 DEF Parsed
      <4>4. out'[s] \in 0 .. 2
        BY <4>1
      <4> QED
        BY <1>2, <4>1, <4>2, <4>3, <4>4, Zenon DEF Relaying
    <3> QED
      BY <1>5, <3>6 DEF InStep
  <2> QED
    BY <2>2, <2>3
<1> QED
  BY <1>1, <1>2, <1>6 DEF Owns, Mixed

(* The backend may end its connection anywhere in an answer.               *)
LEMMA EndOwns ==
  ASSUME Typed, NEW s \in Sessions, Owns(s), BackendEnds(s)
  PROVE  Owns(s)'
<1>1. UNCHANGED <<relay, place, nth, fate>>
  BY DEF BackendEnds
<1>2. backend'[s].todo \in {backend[s].todo, <<>>}
  <2>1. PICK end \in {<<"closed", backend[s].todo>>, <<"closed", <<>>>>, <<"reset", <<>>>>} :
          backend' = [backend EXCEPT ![s] = [is |-> end[1], todo |-> end[2]]]
    BY DEF BackendEnds
  <2>2. end[2] \in {backend[s].todo, <<>>}
    BY <2>1
  <2> QED
    BY <2>1, <2>2 DEF Typed
<1> QED
  BY <1>1, <1>2 DEF Owns, InStep, Relaying, IsRest, relay

(* The steps that neither take a piece nor ask for one.                    *)
LEMMA OtherOwns ==
  ASSUME Typed, NEW s \in Sessions, Owns(s),
         Ask(s) \/ Flush(s) \/ Thread(s), ~SendRequest(s), ~Receive(s)
  PROVE  Owns(s)'
<1>1. CASE Dial(s)
  <2>1. /\ place[s] = "dial" /\ place'[s] = "send" /\ UNCHANGED <<out, fate>>
    BY <1>1 DEF Typed, Goto, Dial
  <2>2. backend'[s].todo = <<>>
    <3>1. PICK is \in {"open", "reset"} :
            backend' = [backend EXCEPT ![s] = [is |-> is, todo |-> <<>>]]
      BY <1>1 DEF Dial
    <3> QED
      BY <3>1 DEF Typed
  <2>3. out[s] = 0 /\ fate[s] # "no client"
    BY <2>1, Zenon DEF Owns
  <2>4. 0 # Mixed
    BY DEF Mixed
  <2> QED
    BY <2>1, <2>2, <2>3, <2>4 DEF Owns, InStep
<1>2. CASE Ask(s) \/ Find(s) \/ Reuse(s) \/ DialFails(s) \/ SendFails(s) \/ LockObject(s)
             \/ LockDeleted(s) \/ AnswerCached(s) \/ FlushCached(s) \/ LockStore(s)
             \/ AsksForEver(s)
  <2>1. /\ place[s] \notin {"relay", "crashed", "stalled"} /\ UNCHANGED <<backend, out, late>>
        /\ place'[s] \in {"find", "dial", "send"} => place[s] \in {"idle", "find", "dial", "send"}
        /\ fate'[s] = "no client" => fate[s] = "no client"
        /\ place'[s] # "idle"
    BY <1>2 DEF Typed, Goto, Ask, Find, Reuse, DialFails, SendFails, LockObject, LockDeleted,
                AnswerCached, FlushCached, LockStore, AsksForEver, relay
  <2> QED
    BY <2>1 DEF Owns, InStep, Relaying
<1>3. CASE Done(s)
  <2>1. /\ place[s] = "done" /\ out'[s] = 0 /\ UNCHANGED <<backend, late, fate>>
    BY <1>3 DEF Typed, Done
  <2>2. ~late[s] => backend[s].todo = <<>>
    BY <2>1 DEF Owns, InStep, Relaying
  <2>3. 0 # Mixed
    BY DEF Mixed
  <2>4. fate[s] # "no client"
    BY <2>1, Zenon DEF Owns
  <2> QED
    BY <2>1, <2>2, <2>3, <2>4 DEF Owns, InStep
<1>4. CASE Push(s)
  <2>1. /\ place[s] = "pushing" /\ place'[s] = "relay" /\ UNCHANGED <<backend, out, late, fate>>
    BY <1>4 DEF Typed, Push, Goto
  <2> QED
    BY <2>1 DEF Owns, InStep, Relaying
<1>5. CASE Flush(s)
  BY <1>5 DEF Owns, InStep, Relaying, IsRest, Flush
<1>6. CASE ReceiveWithoutClient(s)
  <2>1. /\ place[s] = "relay" /\ place'[s] = "crashed" /\ client[s].state = "none"
        /\ backend[s].todo # <<>> /\ UNCHANGED <<backend, out, late>>
    BY <1>6 DEF Typed, Goto, ReceiveWithoutClient, relay
  <2>2. late[s]
    BY <2>1 DEF Owns, InStep, Relaying, Parsed, InBody
  <2> QED
    BY <2>1, <2>2 DEF Owns
<1>7. CASE ReceiveFails(s)
  BY <1>7 DEF Owns, InStep, ReceiveFails
<1>8. CASE Relayed(s) \/ Timeout(s)
  <2>1. /\ place[s] = "relay" /\ place'[s] = "done" /\ UNCHANGED <<backend, out, fate>>
        /\ late'[s] \/ (late'[s] = late[s] /\ ~ongoing[s])
    BY <1>8 DEF Typed, Goto, Relayed, Timeout, relay
  <2> QED
    BY <2>1 DEF Owns, InStep, Relaying
<1>9. CASE Stalls(s)
  <2>1. /\ \/ place[s] = "relay" /\ place'[s] = "stalled"
           \/ place[s] = "answer" /\ place'[s] = "holding"
        /\ UNCHANGED <<backend, out, late, fate, client, ongoing, nth>>
    BY <1>9 DEF Typed, Goto, Stalls, relay
  <2>2. ASSUME NEW kind \in KindNames, Relaying(s, kind)
        PROVE  Relaying(s, kind)'
    BY <2>1, <2>2 DEF Relaying, IsRest
  <2> QED
    BY <2>1, <2>2 DEF Owns, InStep
<1> QED
  BY <1>1, <1>2, <1>3, <1>4, <1>5, <1>6, <1>7, <1>8, <1>9 DEF Thread, Alone

(* What a session is at depends on no other's.                             *)
LEMMA Unmoved ==
  ASSUME NEW t \in Sessions, Owns(t),
         UNCHANGED <<place[t], nth[t], backend[t], client[t], ongoing[t], out[t], late[t], fate[t]>>
  PROVE  Owns(t)'
<1>1. ASSUME NEW kind \in KindNames, Relaying(t, kind)
      PROVE  Relaying(t, kind)'
  <2>1. IsRest(t, backend[t].todo, kind, out[t])'
    BY <1>1 DEF Relaying, IsRest
  <2>2. Parsed(client'[t], kind, out'[t])
    BY <1>1 DEF Relaying
  <2> QED
    BY <1>1, <2>1, <2>2 DEF Relaying
<1>2. InStep(t) => InStep(t)'
  BY <1>1 DEF InStep
<1> QED
  BY <1>2 DEF Owns

(* So what a session has sent is not disturbed by another's step.          *)
LEMMA OthersOwn ==
  ASSUME Typed, NEW s \in Sessions, Ask(s) \/ BackendEnds(s) \/ Flush(s) \/ Thread(s),
         NEW t \in Sessions \ {s}, Owns(t)
  PROVE  Owns(t)'
<1>1. UNCHANGED <<place[t], nth[t], backend[t], client[t], ongoing[t], out[t], late[t], fate[t]>>
  BY OthersStay
<1> QED
  BY <1>1, Unmoved

(* The pieces a client is sent are those of the answer to its own request, *)
(* and no piece is parsed without an http_client, unless a relay over the  *)
(* same connection had ended early.                                        *)
THEOREM OwnAnswers == ProxySpec => []OwnAnswer
<1>1. ProxyInit => OwnInv
  <2> SUFFICES ASSUME ProxyInit PROVE OwnInv
    OBVIOUS
  <2>1. ASSUME NEW s \in Sessions
        PROVE  Owns(s)
    BY DEF ProxyInit, Owns, InStep, Mixed
  <2> QED
    BY <2>1, CacheInit DEF OwnInv
<1>2. OwnInv /\ [ProxyNext]_proxyVars => OwnInv'
  <2> SUFFICES ASSUME OwnInv, [ProxyNext]_proxyVars PROVE OwnInv'
    OBVIOUS
  <2>1. CASE UNCHANGED proxyVars
    <3>1. StoreInv'
      BY <2>1, QuietKeepsCache DEF OwnInv
    <3>2. \A t \in Sessions : Owns(t)'
      BY <2>1, Unmoved DEF proxyVars, OwnInv
    <3> QED
      BY <3>1, <3>2 DEF OwnInv
  <2>2. CASE ProxyNext
    <3>1. PICK s \in Sessions : Ask(s) \/ BackendEnds(s) \/ Flush(s) \/ Thread(s)
      BY <2>2 DEF ProxyNext
    <3>2. StoreInv /\ Typed /\ Asking(s) /\ \A t \in Sessions : Owns(t)
      BY DEF OwnInv, StoreInv
    <3>3. StoreInv'
      BY <3>1, <3>2, PushKeepsCache, StepKeepsCache
    <3>4. Owns(s)'
      BY <3>1, <3>2, ReceiveOwns, SendOwns, EndOwns, OtherOwns
    <3>5. \A t \in Sessions \ {s} : Owns(t)'
      BY <3>1, <3>2, OthersOwn
    <3> QED
      BY <3>3, <3>4, <3>5 DEF OwnInv
  <2> QED
    BY <2>1, <2>2
<1>3. OwnInv => OwnAnswer
  BY DEF OwnInv, Owns, OwnAnswer
<1> QED
  BY <1>1, <1>2, <1>3, PTL DEF ProxySpec
=============================================================================
