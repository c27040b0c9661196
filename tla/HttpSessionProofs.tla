------------------------- MODULE HttpSessionProofs -------------------------
(***************************************************************************)
(* Proofs about HttpSession for any number and any kinds of requests.      *)
(* What a thread has read, and what waits to be read, is followed line by  *)
(* line through the client's last request; the descriptor is followed from *)
(* the moment it is given up.                                              *)
(***************************************************************************)
EXTENDS HttpSession, SequenceTheorems, FiniteSetsExt, FiniteSetTheorems,
        WellFoundedInduction, TLAPS

Words  == {"start", "length", "close", "auth", "end", "body"}
Tokens == [of : Nat \ {0}, is : Words]

(* What has arrived is of requests that were sent.                         *)
Known(ts) == \A i \in DOMAIN ts : ts[i].of <= Len(sent)

Objects ==
  [method : {"GET", "POST", "PUT", "HEAD"}, target : Kinds \cup {"here"},
   length : {"some", "big", "negative", "none"}, passed : BOOLEAN,
   enabled : BOOLEAN, keep : BOOLEAN, from : SUBSET Nat]

HeldOK ==
  /\ config \in [tls : BOOLEAN, auth : BOOLEAN, tunnel : BOOLEAN]
  /\ late \in BOOLEAN /\ (late => sent # <<>>)
  /\ buf \in Seq(Tokens) /\ Known(buf)
  /\ net \in Seq(Tokens) /\ Known(net)
  /\ http \in Objects
  /\ answers \in Seq(SUBSET Nat)

(* The descriptor is given up only where the connection was found broken,  *)
(* and harm is done only after; a thread that lost its line is on its way  *)
(* out.                                                                    *)
GivenUp ==
  /\ fd # "ours" => lost # "no" \/ pc = "closed"
  /\ lost = "line" => pc \in {"ended", "close", "closed"}

SessionInv == HarmAfterLoss /\ HeldOK /\ GivenUp

-----------------------------------------------------------------------------
(* The last request.                                                       *)
Last1    == Len(sent)
Kind     == sent[Len(sent)]
Lines(k) == Len(HeadLines(k))
Whole(k) == Lines(k) + Len(Body(k))

(* The i-th token of the last request.                                     *)
Tok(i) == [of |-> Len(sent),
           is |-> IF i <= Lines(Kind) THEN HeadLines(Kind)[i] ELSE "body"]

(* All that is left to read is the request from its token j + 1 on, as far *)
(* as the client has sent it.                                              *)
Rest(j) ==
  /\ Len(buf) + Len(net) + j = IF late THEN Lines(Kind) ELSE Whole(Kind)
  /\ \A i \in 1 .. Len(buf) : buf[i] = Tok(j + i)
  /\ \A i \in 1 .. Len(net) : net[i] = Tok(j + Len(buf) + i)

(* What the object knows after j lines.                                    *)
ReadSoFar(o, j) ==
  /\ o.from = IF j = 0 THEN {} ELSE {Len(sent)}
  /\ o.method = IF j = 0 THEN "GET" ELSE Method(Kind)
  /\ o.length = IF j < 2 \/ Kind = "head" THEN "none" ELSE Length(Kind)

(* Nothing has happened yet of what takes an answer from its request.      *)
Calm == ~pipelined /\ ~unread /\ ~reused /\ fd = "ours" /\ ~gone

AllAnswered ==
  /\ Len(answers) = Len(sent)
  /\ buf = <<>> /\ net = <<>> /\ ~late
  /\ pc \in {"handshake", "line", "kept", "ended", "close"}
  /\ pc \in {"handshake", "line"} =>
       http.from = {} /\ http.method = "GET" /\ http.length = "none"

OneToAnswer ==
  /\ Len(answers) + 1 = Len(sent)
  /\ late => Len(Body(Kind)) = 1
  /\ \/ /\ pc = "line"
        /\ \E j \in 0 .. Lines(Kind) - 1 : Rest(j) /\ ReadSoFar(http, j)
     \/ /\ pc = "data"
        /\ Rest(Lines(Kind)) /\ ReadSoFar(http, Lines(Kind))
     \/ /\ pc = "reply"
        /\ buf = <<>> /\ net = <<>> /\ ~late /\ http.from = {Len(sent)}
     \/ /\ pc \in {"kept", "ended", "close"}
        /\ Rest(0) /\ buf = <<>>

InStep == Calm => AllAnswered \/ OneToAnswer

OwnInv == SessionInv /\ AnswersOwnRequest /\ InStep
-----------------------------------------------------------------------------
(* Every set of natural numbers that is not empty has a least element.     *)
LEMMA LeastNatural ==
  ASSUME NEW S \in SUBSET Nat, S # {}
  PROVE  \E m \in S : \A n \in S : m <= n
<1>1. PICK m \in S : \A n \in S : ~ (<<n, m>> \in OpToRel(<, Nat))
  BY NatLessThanWellFounded, WFMin
<1>2. \A n \in S : ~(n < m)
  BY <1>1 DEF OpToRel
<1> QED  BY <1>2

(* Reading.                                                                *)

(* The shapes of the requests: two or three lines from the first line to   *)
(* the empty one, then a body or none.                                     *)
LEMMA KindsOfLines ==
  ASSUME NEW k
  PROVE  /\ HeadLines(k) \in Seq(Words) /\ Lines(k) \in {2, 3}
         /\ Body(k) \in Seq(Words) /\ Len(Body(k)) \in {0, 1}
         /\ Whole(k) \in Nat /\ Whole(k) = Lines(k) + Len(Body(k))
         /\ HeadLines(k)[1] = "start" /\ HeadLines(k)[Lines(k)] = "end"
         /\ \A i \in 1 .. Lines(k) : HeadLines(k)[i] # "body"
         /\ \A i \in 1 .. Lines(k) : HeadLines(k)[i] = "end" <=> i = Lines(k)
         /\ \A i \in 1 .. Lines(k) : HeadLines(k)[i] = "start" <=> i = 1
         /\ \A i \in 1 .. Len(Body(k)) : Body(k)[i] = "body"
<1>1. HeadLines(k) \in {<<"start", "length", "end">>, <<"start", "close", "end">>,
                        <<"start", "auth", "end">>, <<"start", "end">>}
  BY Zenon DEF HeadLines
<1>2. Body(k) \in {<<"body">>, <<>>}
  BY Zenon DEF Body
<1> DEFINE h == HeadLines(k)
           b == Body(k)
<1>3. Lines(k) = Len(h) /\ Whole(k) = Len(h) + Len(b)
  BY DEF Lines, Whole
<1> HIDE DEF h, b
<1>4. /\ h \in Seq(Words) /\ Len(h) \in {2, 3}
      /\ h[1] = "start" /\ h[Len(h)] = "end"
      /\ \A i \in 1 .. Len(h) : h[i] # "body"
      /\ \A i \in 1 .. Len(h) : h[i] = "end" <=> i = Len(h)
      /\ \A i \in 1 .. Len(h) : h[i] = "start" <=> i = 1
  <2>1. CASE h = <<"start", "length", "end">>
    BY <2>1 DEF Words
  <2>2. CASE h = <<"start", "close", "end">>
    BY <2>2 DEF Words
  <2>3. CASE h = <<"start", "auth", "end">>
    BY <2>3 DEF Words
  <2>4. CASE h = <<"start", "end">>
    BY <2>4 DEF Words
  <2> QED
    BY <1>1, <2>1, <2>2, <2>3, <2>4 DEF h
<1>5. b \in Seq(Words) /\ Len(b) \in {0, 1} /\ \A i \in 1 .. Len(b) : b[i] = "body"
  <2>1. CASE b = <<"body">>
    BY <2>1 DEF Words
  <2>2. CASE b = <<>>
    BY <2>2 DEF Words
  <2> QED
    BY <1>2, <2>1, <2>2 DEF b
<1>6. Whole(k) \in Nat
  BY <1>3, <1>4, <1>5
<1> QED
  BY <1>3, <1>4, <1>5, <1>6 DEF h, b

(* Of what CHttp learns of a request: the method and the length that is    *)
(* announced, each tied to the request's kind.                             *)
LEMMA KindsOfRequests ==
  ASSUME NEW k
  PROVE  /\ Method(k) \in {"GET", "POST", "PUT", "HEAD"}
         /\ Length(k) \in {"some", "big", "negative", "none"}
         /\ Method(k) = "HEAD" <=> k = "head"
         /\ Length(k) = "some" <=> k = "post"
         /\ Length(k) = "big" <=> k = "big"
         /\ Len(Body(k)) = 1 <=> Length(k) \in {"some", "big"}
         /\ Length(k) # "none" => Lines(k) = 3 /\ HeadLines(k)[2] = "length"
         /\ k = "head" => Lines(k) = 3 /\ HeadLines(k)[2] = "length"
<1>1. CASE k = "post"
  <2>1. Method(k) = "POST" /\ Length(k) = "some"
    BY <1>1, Zenon DEF Method, Length
  <2>2. HeadLines(k) = <<"start", "length", "end">>
    BY <1>1, Zenon DEF HeadLines
  <2> QED
    BY <1>1, <2>1, <2>2 DEF Body, Lines
<1>2. CASE k = "big"
  <2>1. Method(k) = "POST" /\ Length(k) = "big"
    BY <1>2, Zenon DEF Method, Length
  <2>2. HeadLines(k) = <<"start", "length", "end">>
    BY <1>2, Zenon DEF HeadLines
  <2> QED
    BY <1>2, <2>1, <2>2 DEF Body, Lines
<1>3. CASE k = "neg"
  <2>1. Method(k) = "POST" /\ Length(k) = "negative"
    BY <1>3, Zenon DEF Method, Length
  <2>2. HeadLines(k) = <<"start", "length", "end">>
    BY <1>3, Zenon DEF HeadLines
  <2> QED
    BY <1>3, <2>1, <2>2 DEF Body, Lines
<1>4. CASE k = "head"
  <2>1. Method(k) = "HEAD" /\ Length(k) = "none"
    BY <1>4, Zenon DEF Method, Length
  <2>2. HeadLines(k) = <<"start", "length", "end">>
    BY <1>4, Zenon DEF HeadLines
  <2> QED
    BY <1>4, <2>1, <2>2 DEF Body, Lines
<1>5. CASE k \notin {"post", "big", "neg", "head"}
  <2>1. Method(k) \in {"GET", "PUT"}
    BY <1>5, Zenon DEF Method
  <2>2. Length(k) = "none"
    BY <1>5, Zenon DEF Length
  <2> QED
    BY <1>5, <2>1, <2>2 DEF Body
<1> QED
  BY <1>1, <1>2, <1>3, <1>4, <1>5

(* The first line of a buffer ends in it, or there is none.                *)
LEMMA LineEnds ==
  ASSUME NEW ts \in Seq(Tokens)
  PROVE  /\ LineEnd(ts) \in 0 .. Len(ts)
         /\ LineEnd(ts) = 0 => \A i \in 1 .. Len(ts) : ~IsLine(ts[i])
         /\ LineEnd(ts) # 0 => /\ IsLine(ts[LineEnd(ts)])
                               /\ \A i \in 1 .. LineEnd(ts) - 1 : ~IsLine(ts[i])
<1> DEFINE I == {i \in 1 .. Len(ts) : IsLine(ts[i])}
<1>1. LineEnd(ts) = IF I # {} THEN Min(I) ELSE 0
  BY DEF LineEnd, SelectInSeq
<1>2. Len(ts) \in Nat
  BY LenProperties
<1>3. CASE I = {}
  BY <1>1, <1>2, <1>3
<1>4. CASE I # {}
  <2>1. \E x \in I : \A y \in I : x <= y
    <3>1. I \in SUBSET Nat /\ I # {}
      BY <1>4
    <3> HIDE DEF I
    <3> QED  BY <3>1, LeastNatural
  <2>2. Min(I) \in I /\ \A y \in I : Min(I) <= y
    BY <2>1 DEF Min
  <2> HIDE DEF I
  <2>3. LineEnd(ts) \in I /\ \A y \in I : LineEnd(ts) <= y
    BY <1>1, <1>4, <2>2
  <2>4. LineEnd(ts) \in 1 .. Len(ts) /\ IsLine(ts[LineEnd(ts)])
    BY <2>3 DEF I
  <2>5. ASSUME NEW i \in 1 .. LineEnd(ts) - 1, IsLine(ts[i])
        PROVE  FALSE
    <3>1. i \in I
      BY <1>2, <2>4, <2>5 DEF I
    <3> QED
      BY <1>2, <2>3, <2>4, <2>5, <3>1
  <2> QED
    BY <1>2, <2>4, <2>5
<1> QED
  BY <1>3, <1>4

(* The request a line is of, and the object that has seen the line.        *)
Whose(line)   == sent[Last(line).of]
Seen(o, line) == [o EXCEPT !.from = @ \cup {t.of : t \in Range(line)}]

(* What a line does to the object, case by case.                           *)
LEMMA Parsed ==
  ASSUME NEW o, NEW line
  PROVE  /\ Meant(line) = "start" =>
              Parse(o, line) =
                [Seen(o, line) EXCEPT !.method = Method(Whose(line)), !.target =
                   IF Here(Whose(line)) THEN @ ELSE Target(Whose(line))]
         /\ Meant(line) = "close" =>
              Parse(o, line) = [Seen(o, line) EXCEPT !.keep = FALSE]
         /\ Meant(line) = "length" =>
              Parse(o, line) =
                [Seen(o, line) EXCEPT !.length =
                   IF o.method = "HEAD" THEN "none" ELSE Length(Whose(line))]
         /\ Meant(line) = "auth" =>
              Parse(o, line) = [Seen(o, line) EXCEPT !.passed = TRUE]
         /\ Meant(line) \notin {"start", "close", "length", "auth"} =>
              Parse(o, line) = Seen(o, line)
<1>1. CASE Meant(line) = "start"
  BY <1>1, Zenon DEF Parse, Seen, Whose
<1>2. CASE Meant(line) = "close"
  BY <1>2, Zenon DEF Parse, Seen, Whose
<1>3. CASE Meant(line) = "length"
  BY <1>3, Zenon DEF Parse, Seen, Whose
<1>4. CASE Meant(line) = "auth"
  BY <1>4, Zenon DEF Parse, Seen, Whose
<1>5. CASE Meant(line) \notin {"start", "close", "length", "auth"}
  BY <1>5, Zenon DEF Parse, Seen, Whose
<1> QED
  BY <1>1, <1>2, <1>3, <1>4, <1>5

(* A line, a whole one or what a body has left before it, leaves an object *)
(* as good as it was.                                                      *)
LEMMA ParsedIsObject ==
  ASSUME TypeOK, NEW o \in Objects, o.from \subseteq 1 .. Len(sent),
         NEW line \in Seq(Tokens), line # <<>>, Known(line)
  PROVE  /\ Parse(o, line) \in Objects
         /\ Parse(o, line).from \subseteq 1 .. Len(sent)
         /\ Parse(o, line).from = o.from \cup {t.of : t \in Range(line)}
<1> DEFINE k == Whose(line)
           p == Seen(o, line)
           f == o.from \cup {t.of : t \in Range(line)}
<1>1. k \in Kinds
  <2>1. Len(line) \in 1 .. Len(line) /\ Last(line) = line[Len(line)]
    BY DEF Last
  <2>2. line[Len(line)] \in Tokens /\ line[Len(line)].of <= Len(sent)
    BY <2>1, ElementOfSeq DEF Known
  <2>3. line[Len(line)].of \in 1 .. Len(sent)
    BY <2>2 DEF Tokens
  <2> QED
    BY <2>1, <2>3, ElementOfSeq DEF TypeOK, Whose
<1>2. f \in SUBSET (1 .. Len(sent)) /\ f \in SUBSET Nat
  <2>1. \A i \in DOMAIN line : line[i] \in Tokens /\ line[i].of <= Len(sent)
    BY ElementOfSeq DEF Known
  <2>2. \A t \in Range(line) : t.of \in 1 .. Len(sent)
    BY <2>1 DEF Range, Tokens
  <2> QED
    BY <2>2
<1>3. p \in Objects /\ p.from = f
  BY <1>2 DEF Objects, Seen
<1>4. /\ Meant(line) = "start" =>
           Parse(o, line) = [p EXCEPT !.method = Method(k), !.target =
                               IF Here(k) THEN @ ELSE Target(k)]
      /\ Meant(line) = "close" => Parse(o, line) = [p EXCEPT !.keep = FALSE]
      /\ Meant(line) = "length" =>
           Parse(o, line) = [p EXCEPT !.length =
                               IF o.method = "HEAD" THEN "none" ELSE Length(k)]
      /\ Meant(line) = "auth" => Parse(o, line) = [p EXCEPT !.passed = TRUE]
      /\ Meant(line) \notin {"start", "close", "length", "auth"} =>
           Parse(o, line) = p
  BY Parsed
<1> HIDE DEF k, p, f
<1>5. Method(k) \in {"GET", "POST", "PUT", "HEAD"}
      /\ (IF o.method = "HEAD" THEN "none" ELSE Length(k))
           \in {"some", "big", "negative", "none"}
      /\ (IF Here(k) THEN p.target ELSE Target(k)) \in Kinds \cup {"here"}
  BY <1>1, <1>3, KindsOfRequests DEF Target, Objects
<1>6. Parse(o, line) \in Objects /\ Parse(o, line).from = f
  <2>1. CASE Meant(line) = "start"
    BY <1>3, <1>4, <1>5, <2>1 DEF Objects
  <2>2. CASE Meant(line) = "close"
    BY <1>3, <1>4, <2>2 DEF Objects
  <2>3. CASE Meant(line) = "length"
    BY <1>3, <1>4, <1>5, <2>3 DEF Objects
  <2>4. CASE Meant(line) = "auth"
    BY <1>3, <1>4, <2>4 DEF Objects
  <2>5. CASE Meant(line) \notin {"start", "close", "length", "auth"}
    BY <1>3, <1>4, <2>5
  <2> QED
    BY <2>1, <2>2, <2>3, <2>4, <2>5
<1> QED
  BY <1>2, <1>6 DEF f

(* What the invariant says of the types, where the later steps need it.    *)
LEMMA Basics ==
  ASSUME SessionInv
  PROVE  /\ sent \in Seq(Kinds) /\ Len(sent) \in Nat
         /\ buf \in Seq(Tokens) /\ Known(buf)
         /\ net \in Seq(Tokens) /\ Known(net)
         /\ http \in Objects /\ http.from \subseteq 1 .. Len(sent)
<1>1. sent \in Seq(Kinds)
  BY DEF SessionInv, HarmAfterLoss, TypeOK
<1>2. Len(sent) \in Nat
  BY <1>1, LenProperties
<1>3. /\ buf \in Seq(Tokens) /\ Known(buf) /\ net \in Seq(Tokens) /\ Known(net)
      /\ http \in Objects
  BY DEF SessionInv, HeldOK
<1>4. http.from \subseteq 1 .. Len(sent)
  BY DEF SessionInv, HarmAfterLoss, TypeOK
<1> QED
  BY <1>1, <1>2, <1>3, <1>4

(* Cutting and joining what has arrived.                                   *)
LEMMA KnownCut ==
  ASSUME NEW ts \in Seq(Tokens), Known(ts), Len(sent) \in Nat,
         NEW m \in 1 .. Len(ts) + 1, NEW n \in 0 .. Len(ts)
  PROVE  SubSeq(ts, m, n) \in Seq(Tokens) /\ Known(SubSeq(ts, m, n))
<1>1. SubSeq(ts, m, n) \in Seq(Tokens)
  BY SubSeqProperties
<1>2. \A i \in DOMAIN SubSeq(ts, m, n) : SubSeq(ts, m, n)[i] = ts[m + i - 1]
                                         /\ m + i - 1 \in DOMAIN ts
  BY SubSeqProperties
<1> QED
  BY <1>1, <1>2 DEF Known

(* What is taken from the front of known pieces leaves known pieces.       *)
LEMMA KnownTail ==
  ASSUME NEW ts \in Seq(Tokens), Known(ts), ts # <<>>, Len(sent) \in Nat
  PROVE  Tail(ts) \in Seq(Tokens) /\ Known(Tail(ts)) /\ ts[1].of \in 1 .. Len(sent)
<1>1. Tail(ts) \in Seq(Tokens) /\ Len(Tail(ts)) = Len(ts) - 1 /\ Len(ts) \in Nat \ {0}
  BY HeadTailProperties, EmptySeq
<1>2. \A i \in 1 .. Len(ts) - 1 : Tail(ts)[i] = ts[i + 1]
  BY HeadTailProperties, <1>1
<1>3. Known(Tail(ts))
  BY <1>1, <1>2 DEF Known
<1>4. ts[1] \in Tokens /\ ts[1].of <= Len(sent)
  BY <1>1, ElementOfSeq DEF Known
<1>5. ts[1].of \in 1 .. Len(sent)
  BY <1>4 DEF Tokens
<1> QED
  BY <1>1, <1>3, <1>5

(* Two runs of known pieces in a row are known pieces.                     *)
LEMMA KnownJoin ==
  ASSUME NEW ts \in Seq(Tokens), Known(ts), NEW us \in Seq(Tokens), Known(us)
  PROVE  ts \o us \in Seq(Tokens) /\ Known(ts \o us)
<1>1. ts \o us \in Seq(Tokens) /\ Len(ts \o us) = Len(ts) + Len(us)
  BY ConcatProperties
<1>2. ASSUME NEW i \in DOMAIN (ts \o us)
      PROVE  (ts \o us)[i].of <= Len(sent)
  <2>1. CASE i <= Len(ts)
    BY <1>1, <2>1, ConcatProperties DEF Known
  <2>2. CASE i > Len(ts)
    <3>1. (ts \o us)[i] = us[i - Len(ts)] /\ i - Len(ts) \in DOMAIN us
      BY <1>1, <2>2, ConcatProperties
    <3> QED
      BY <3>1 DEF Known
  <2> QED
    BY <1>1, <2>1, <2>2
<1> QED
  BY <1>1, <1>2 DEF Known

(* A line taken leaves buffer and object as they should be.                *)
LEMMA LineTaken ==
  ASSUME SessionInv, NEW ts \in Seq(Tokens), Known(ts), LineEnd(ts) > 0,
         TakeLine(ts), sent' = sent
  PROVE  /\ buf' \in Seq(Tokens) /\ Known(buf)'
         /\ http' \in Objects /\ http'.from \subseteq 1 .. Len(sent)
         /\ pc' \in {"data", "line"}
<1> DEFINE n == LineEnd(ts)
           line == SubSeq(ts, 1, n)
<1>1. n \in 1 .. Len(ts) /\ Len(sent) \in Nat
  <2>1. n \in 0 .. Len(ts)
    BY LineEnds
  <2>2. n > 0
    OBVIOUS
  <2>3. Len(sent) \in Nat
    BY Basics
  <2> HIDE DEF n
  <2> QED
    BY <2>1, <2>2, <2>3
<1>2. line \in Seq(Tokens) /\ Known(line) /\ line # <<>>
  <2>1. Len(line) = n
    BY <1>1, SubSeqProperties
  <2>2. line \in Seq(Tokens) /\ Known(line)
    <3> HIDE DEF n
    <3> QED  BY <1>1, KnownCut
  <2> QED
    BY <1>1, <2>1, <2>2, EmptySeq
<1>3. buf' \in Seq(Tokens) /\ \A i \in DOMAIN buf' : buf'[i].of <= Len(sent)
  BY <1>1, KnownCut DEF TakeLine, Known
<1>4. http' = Parse(http, line) /\ pc' \in {"data", "line"}
  BY DEF TakeLine
<1>5. Parse(http, line) \in Objects /\ Parse(http, line).from \subseteq 1 .. Len(sent)
  <2> HIDE DEF line
  <2> QED
    BY <1>2, ParsedIsObject DEF SessionInv, HarmAfterLoss, TypeOK, HeldOK
<1> QED
  BY <1>3, <1>4, <1>5 DEF Known

-----------------------------------------------------------------------------
(* Nothing has been read of a connection that has just been accepted.      *)
LEMMA SessionInit == Init => SessionInv
<1> SUFFICES ASSUME Init PROVE SessionInv
  OBVIOUS
<1> USE HttpSessionAssumption
<1>1. HarmAfterLoss
  BY DEF Init, HarmAfterLoss, TypeOK, Object
<1>2. HeldOK
  <2>1. /\ config \in [tls : BOOLEAN, auth : BOOLEAN, tunnel : BOOLEAN]
        /\ Enabled \in BOOLEAN
    BY DEF Init, Enabled
  <2>2. http \in Objects
    BY <2>1 DEF Init, Objects, Object
  <2>3. buf \in Seq(Tokens) /\ Known(buf) /\ net \in Seq(Tokens) /\ Known(net)
    BY DEF Init, Known
  <2>4. answers \in Seq(SUBSET Nat) /\ late = FALSE
    BY DEF Init
  <2> QED
    BY <2>1, <2>2, <2>3, <2>4 DEF HeldOK
<1>3. GivenUp
  BY DEF Init, GivenUp
<1> QED
  BY <1>1, <1>2, <1>3 DEF SessionInv

(* What is sent is of the request it is sent for.                          *)
LEMMA OfRequest ==
  ASSUME NEW i \in Nat \ {0}, NEW ts \in Seq(Words)
  PROVE  /\ Of(i, ts) \in Seq(Tokens) /\ Len(Of(i, ts)) = Len(ts)
         /\ \A j \in 1 .. Len(ts) : Of(i, ts)[j] = [of |-> i, is |-> ts[j]]
         /\ \A j \in DOMAIN Of(i, ts) : Of(i, ts)[j].of = i
<1>1. Of(i, ts) = [j \in 1 .. Len(ts) |-> [of |-> i, is |-> ts[j]]]
  BY DEF Of
<1>2. \A j \in 1 .. Len(ts) : [of |-> i, is |-> ts[j]] \in Tokens
  BY ElementOfSeq DEF Tokens
<1> QED
  BY <1>1, <1>2, IsASeq

(* A step that touches none of it.                                         *)
LEMMA HeldKept ==
  ASSUME HeldOK, UNCHANGED <<config, sent, late, buf, net, http, answers>>
  PROVE  HeldOK'
BY DEF HeldOK, Known

(* What the client, time and the other threads do.                         *)
LEMMA OthersKeepSession ==
  ASSUME SessionInv, (\E k \in Kinds : Request(k)) \/ SendBody \/ Leave \/ Pass \/ Reuse
  PROVE  SessionInv'
<1> USE HttpSessionAssumption
<1>1. ASSUME NEW k \in Kinds, Request(k)
      PROVE  SessionInv'
  <2>1. /\ Len(sent) \in Nat /\ sent' \in Seq(Kinds) /\ Len(sent') = Len(sent) + 1
        /\ sent' # <<>> /\ Len(sent') <= Requests
    <3>1. sent \in Seq(Kinds) /\ sent' = Append(sent, k) /\ Len(sent) < Requests
      BY <1>1 DEF SessionInv, HarmAfterLoss, TypeOK, Request
    <3>2. Len(sent) \in Nat /\ sent' \in Seq(Kinds) /\ Len(sent') = Len(sent) + 1
      BY <3>1, AppendProperties
    <3> QED
      BY <3>1, <3>2, EmptySeq
  <2>2. HarmAfterLoss'
    <3>1. http'.from \subseteq 1 .. Len(sent')
      <4>1. http.from \subseteq 1 .. Len(sent) /\ http' = http
        BY <1>1, Basics DEF Request
      <4> QED
        BY <2>1, <4>1
    <3> QED
      BY <1>1, <2>1, <3>1 DEF SessionInv, HarmAfterLoss, TypeOK, Request, world
  <2>3. GivenUp'
    BY <1>1 DEF SessionInv, GivenUp, Request, world
  <2>4. HeldOK'
    <3> DEFINE us == Of(Len(sent) + 1, HeadLines(k))
    <3>1. us \in Seq(Tokens) /\ \A i \in DOMAIN us : us[i].of <= Len(sent')
      <4>1. HeadLines(k) \in Seq(Words) /\ Len(sent) + 1 \in Nat \ {0}
        BY <2>1, KindsOfLines
      <4>2. /\ us \in Seq(Tokens) /\ Len(us) = Len(HeadLines(k))
            /\ \A j \in DOMAIN us : us[j].of = Len(sent) + 1
        BY <4>1, OfRequest
      <4> HIDE DEF us
      <4> QED
        BY <2>1, <4>2
    <3>2. Known(buf)' /\ \A i \in DOMAIN net : net[i].of <= Len(sent')
      <4>1. \A i \in DOMAIN buf : buf[i] \in Tokens /\ buf[i].of <= Len(sent)
        BY ElementOfSeq DEF SessionInv, HeldOK, Known
      <4>2. \A i \in DOMAIN net : net[i] \in Tokens /\ net[i].of <= Len(sent)
        BY ElementOfSeq DEF SessionInv, HeldOK, Known
      <4> QED
        BY <1>1, <2>1, <4>1, <4>2 DEF Known, Tokens, Request
    <3> HIDE DEF us
    <3>3. net' \in Seq(Tokens) /\ Known(net)'
      <4>1. net' = net \o us
        BY <1>1 DEF Request, us
      <4>2. net \in Seq(Tokens)
        BY DEF SessionInv, HeldOK
      <4> QED
        BY <3>1, <3>2, <4>1, <4>2, ConcatProperties DEF Known
    <3> QED
      BY <1>1, <2>1, <3>2, <3>3 DEF SessionInv, HeldOK, Request, world
  <2> QED
    BY <2>2, <2>3, <2>4 DEF SessionInv
<1>2. CASE SendBody
  <2>1. HarmAfterLoss' /\ GivenUp'
    BY <1>2 DEF SessionInv, HarmAfterLoss, TypeOK, GivenUp, SendBody, world
  <2>2. HeldOK'
    <3> DEFINE us == Of(Len(sent), Body(Last(sent)))
    <3>1. us \in Seq(Tokens) /\ Known(us)
      <4>1. Len(sent) \in Nat \ {0}
        BY <1>2, EmptySeq DEF SessionInv, HarmAfterLoss, TypeOK, HeldOK, SendBody
      <4>2. us \in Seq(Tokens) /\ Known(us)
        <5>1. Body(Last(sent)) \in Seq(Words)
          BY KindsOfLines
        <5>2. /\ us \in Seq(Tokens) /\ Len(us) = Len(Body(Last(sent)))
              /\ \A j \in DOMAIN us : us[j].of = Len(sent)
          BY <4>1, <5>1, OfRequest
        <5> HIDE DEF us
        <5> QED
          BY <4>1, <5>2 DEF Known
      <4> QED
        BY <4>2
    <3> HIDE DEF us
    <3>2. net' \in Seq(Tokens) /\ Known(net \o us) /\ net' = net \o us
      BY <1>2, <3>1, KnownJoin DEF SessionInv, HeldOK, SendBody, us
    <3> QED
      BY <1>2, <3>2 DEF SessionInv, HeldOK, Known, SendBody, world
  <2> QED
    BY <2>1, <2>2 DEF SessionInv
<1>3. CASE Leave \/ Pass \/ Reuse
  <2>1. HeldOK'
    BY <1>3, HeldKept DEF SessionInv, Leave, Pass, Reuse, client, world
  <2>2. HarmAfterLoss' /\ GivenUp'
    <3>1. CASE Leave
      BY <3>1 DEF SessionInv, HarmAfterLoss, TypeOK, GivenUp, Leave, world
    <3>2. CASE Pass
      <4>1. elapsed' \in {"under", "at", "over"}
        BY <3>2, Zenon DEF Pass
      <4> QED
        BY <3>2, <4>1 DEF SessionInv, HarmAfterLoss, TypeOK, GivenUp, Pass, client
    <3>3. CASE Reuse
      BY <3>3 DEF SessionInv, HarmAfterLoss, TypeOK, GivenUp, Reuse, client, world
    <3> QED
      BY <1>3, <3>1, <3>2, <3>3
  <2> QED
    BY <2>1, <2>2 DEF SessionInv
<1> QED
  BY <1>1, <1>2, <1>3

-----------------------------------------------------------------------------
(* What the thread does.  Where it has not been handed a descriptor that   *)
(* has been given up, it harms nobody.                                     *)
LEMMA ReadingKeepsSession ==
  ASSUME SessionInv, Accepted \/ Refused \/ LineBuffered \/ LineReceived \/ LineLost \/ LineStrange
  PROVE  SessionInv'
<1>1. CASE Accepted \/ Refused
  BY <1>1, HeldKept DEF SessionInv, HarmAfterLoss, TypeOK, GivenUp, Accepted, Refused, client, world
<1>2. CASE LineBuffered
  <2>1. /\ buf' \in Seq(Tokens) /\ Known(buf)'
        /\ http' \in Objects /\ http'.from \subseteq 1 .. Len(sent)
        /\ pc' \in {"data", "line"}
    BY <1>2, Basics, LineTaken DEF LineBuffered, client
  <2> QED
    BY <1>2, <2>1, ZenonT(30)
       DEF SessionInv, HarmAfterLoss, TypeOK, HeldOK, Known, GivenUp, LineBuffered, client, world
<1>3. CASE LineReceived
  <2>1. PICK n \in 1 .. Len(net) :
          /\ net' = SubSeq(net, n + 1, Len(net))
          /\ IF LineEnd(buf \o SubSeq(net, 1, n)) > 0
             THEN TakeLine(buf \o SubSeq(net, 1, n))
             ELSE buf' = buf \o SubSeq(net, 1, n) /\ UNCHANGED <<pc, http>>
    BY <1>3 DEF LineReceived
  <2> DEFINE ts == buf \o SubSeq(net, 1, n)
  <2>2. net' \in Seq(Tokens) /\ Known(net)'
    <3>1. sent' = sent /\ net' = SubSeq(net, n + 1, Len(net))
      BY <1>3, <2>1 DEF LineReceived, client
    <3>2. n + 1 \in 1 .. Len(net) + 1 /\ Len(net) \in 0 .. Len(net)
      BY Basics
    <3>3. SubSeq(net, n + 1, Len(net)) \in Seq(Tokens)
          /\ Known(SubSeq(net, n + 1, Len(net)))
      BY <3>2, Basics, KnownCut
    <3> QED
      BY <3>1, <3>3 DEF Known
  <2>3. ts \in Seq(Tokens) /\ Known(ts)
    <3>1. SubSeq(net, 1, n) \in Seq(Tokens) /\ Known(SubSeq(net, 1, n))
      BY Basics, KnownCut
    <3> QED
      BY <3>1, Basics, KnownJoin
  <2>4. /\ buf' \in Seq(Tokens) /\ Known(buf)'
        /\ http' \in Objects /\ http'.from \subseteq 1 .. Len(sent)
        /\ pc' \in {"data", "line"}
    <3> HIDE DEF ts
    <3>1. sent' = sent /\ pc = "line"
      BY <1>3 DEF LineReceived, client
    <3>2. CASE LineEnd(ts) > 0
      BY <2>1, <2>3, <3>1, <3>2, LineTaken DEF ts
    <3>3. CASE ~(LineEnd(ts) > 0)
      BY <2>1, <2>3, <3>1, <3>3, Basics DEF ts, Known
    <3> QED
      BY <3>2, <3>3
  <2> QED
    BY <1>3, <2>2, <2>4 DEF SessionInv, HarmAfterLoss, TypeOK, HeldOK, GivenUp,
                            LineReceived, client, world
<1>4. CASE LineLost
  <2>1. buf' \in Seq(Tokens) /\ Known(buf)'
    BY <1>4 DEF LineLost, Known
  <2> QED
    BY <1>4, <2>1 DEF SessionInv, HarmAfterLoss, TypeOK, HeldOK, Known, GivenUp,
                      LineLost, Harm, client, world
<1>5. CASE LineStrange
  <2>1. HeldOK'
    BY <1>5, HeldKept DEF SessionInv, LineStrange, client, world
  <2> QED
    BY <1>5, <2>1 DEF SessionInv, HarmAfterLoss, TypeOK, GivenUp,
                      LineStrange, Harm, client, world
<1> QED
  BY <1>1, <1>2, <1>3, <1>4, <1>5

(* A body.                                                                 *)
LEMMA BodyKeepsSession ==
  ASSUME SessionInv, NoBody \/ BodyReceived \/ BodyLost
  PROVE  SessionInv'
<1>1. CASE NoBody
  BY <1>1, HeldKept DEF SessionInv, HarmAfterLoss, TypeOK, GivenUp, NoBody, client, world
<1>2. CASE BodyReceived
  <2> DEFINE ts == buf \o net
  <2>1. /\ ts # <<>>
        /\ buf' = IF buf # <<>> THEN Tail(buf) ELSE <<>>
        /\ net' = IF buf # <<>> THEN net ELSE Tail(net)
        /\ http' = [http EXCEPT !.from = @ \cup {ts[1].of}]
        /\ sent' = sent
    BY <1>2 DEF BodyReceived, client
  <2>2. ts[1].of \in 1 .. Len(sent)
    <3>1. ts \in Seq(Tokens) /\ Known(ts)
      BY Basics, KnownJoin
    <3> HIDE DEF ts
    <3> QED
      BY <2>1, <3>1, Basics, KnownTail
  <2>3. http' \in Objects /\ http'.from \subseteq 1 .. Len(sent)
    <3> HIDE DEF ts
    <3> QED
      BY <2>1, <2>2, Basics DEF Objects
  <2>4. buf' \in Seq(Tokens) /\ Known(buf)'
    <3>1. CASE buf # <<>>
      <4>1. Tail(buf) \in Seq(Tokens) /\ Known(Tail(buf))
        BY <3>1, Basics, KnownTail
      <4> QED
        BY <2>1, <3>1, <4>1 DEF Known
    <3> QED
      BY <2>1, <3>1 DEF Known
  <2>5. net' \in Seq(Tokens) /\ Known(net)'
    <3>1. CASE buf = <<>>
      <4>1. net # <<>>
        BY <2>1, <3>1
      <4>2. Tail(net) \in Seq(Tokens) /\ Known(Tail(net))
        BY <4>1, Basics, KnownTail
      <4> QED
        BY <2>1, <3>1, <4>2 DEF Known
    <3> QED
      BY <2>1, <3>1, Basics DEF Known
  <2> QED
    BY <1>2, <2>3, <2>4, <2>5, ZenonT(40) DEF SessionInv, HarmAfterLoss, TypeOK, HeldOK, GivenUp,
                                  BodyReceived, client, world
<1>3. CASE BodyLost
  <2>1. HeldOK'
    BY <1>3, HeldKept DEF SessionInv, BodyLost, client, world
  <2> QED
    BY <1>3, <2>1 DEF SessionInv, HarmAfterLoss, TypeOK, GivenUp,
                      BodyLost, Harm, client, world
<1> QED
  BY <1>1, <1>2, <1>3

(* An answer, which goes to somebody else only after a loss.               *)
LEMMA SendKeepsSession ==
  ASSUME SessionInv, pc \in {"data", "reply"}, Send, http' \in Objects,
         http'.from = http.from, pc' \in {"line", "kept", "ended"},
         UNCHANGED <<config, elapsed, sent, late, gone, pipelined, net, tickets, buf>>
  PROVE  SessionInv'
<1>1. answers' \in Seq(SUBSET Nat)
  <2>1. http.from \in SUBSET Nat
    BY Basics DEF Objects
  <2>2. answers \in Seq(SUBSET Nat)
    BY DEF SessionInv, HeldOK
  <2>3. Append(answers, http.from) \in Seq(SUBSET Nat)
    BY <2>1, <2>2, AppendProperties
  <2>4. answers' = answers \/ answers' = Append(answers, http.from)
    BY DEF Send
  <2> QED
    BY <2>2, <2>3, <2>4
<1>2. HeldOK'
  BY <1>1 DEF SessionInv, HeldOK, Known
<1>3. HarmAfterLoss' /\ GivenUp'
  <2>1. CASE fd = "ours" /\ UNCHANGED <<fd, lost, harm>>
    BY <2>1 DEF SessionInv, HarmAfterLoss, TypeOK, GivenUp
  <2>2. CASE fd # "foreign" /\ Break("answer")
    BY <2>2 DEF SessionInv, HarmAfterLoss, TypeOK, GivenUp, Break, Harm
  <2>3. CASE fd = "foreign" /\ harm' = Harm("written") /\ UNCHANGED <<fd, lost>>
    BY <2>3 DEF SessionInv, HarmAfterLoss, TypeOK, GivenUp, Harm
  <2> QED
    BY <2>1, <2>2, <2>3 DEF Send
<1> QED
  BY <1>2, <1>3 DEF SessionInv

(* Answers, and the refusals that are sent as answers, keep the session.   *)
LEMMA AnsweringKeepsSession ==
  ASSUME SessionInv,
         TooShort \/ Challenge \/ NotAllowed \/ Document \/ NoTunnel \/ Tunnelled
  PROVE  SessionInv'
<1>1. CASE TooShort \/ NotAllowed \/ NoTunnel
  BY <1>1, SendKeepsSession, Basics DEF TooShort, NotAllowed, NoTunnel, Reply, client, world
<1>2. CASE Challenge
  BY <1>2, SendKeepsSession, Basics DEF Challenge, client, world
<1>3. CASE Document \/ Tunnelled
  <2>1. PICK sized \in BOOLEAN : Reply([http EXCEPT !.keep = @ /\ sized], FALSE)
    BY <1>3 DEF Document, Tunnelled
  <2>2. http' = [http EXCEPT !.keep = @ /\ sized]
    BY <2>1 DEF Reply
  <2>3. http' \in Objects /\ http'.from = http.from
    BY <2>2, Basics DEF Objects
  <2> QED
    BY <1>3, <2>1, <2>3, SendKeepsSession DEF Document, Tunnelled, Reply, client, world
<1> QED
  BY <1>1, <1>2, <1>3

(* The next object, and the end.                                           *)
LEMMA EndingKeepsSession ==
  ASSUME SessionInv, Again \/ Ended \/ Close
  PROVE  SessionInv'
<1>1. CASE Again
  <2>1. http' \in Objects /\ http'.from = {}
    BY <1>1 DEF Again, NewObject, Object, Objects, Enabled
  <2>2. buf' \in Seq(Tokens) /\ Known(buf)'
    BY <1>1 DEF Again, Known
  <2>3. tickets' \in Nat
    <3>1. tickets \in Nat
      BY DEF SessionInv, HarmAfterLoss, TypeOK
    <3>2. tickets # 0 /\ tickets' = tickets - 1
      BY <1>1 DEF Again, LastOne
    <3> QED
      BY <3>1, <3>2
  <2> QED
    BY <1>1, <2>1, <2>2, <2>3 DEF SessionInv, HarmAfterLoss, TypeOK, HeldOK, Known,
                                  GivenUp, Again, client, world
<1>2. CASE Ended
  <2>1. buf' \in Seq(Tokens) /\ Known(buf)'
    BY <1>2 DEF Ended, Known
  <2> QED
    BY <1>2, <2>1 DEF SessionInv, HarmAfterLoss, TypeOK, HeldOK, Known, GivenUp,
                      Ended, Gone, Harm, client, world
<1>3. CASE Close
  <2>1. HeldOK'
    BY <1>3, HeldKept DEF SessionInv, Close, client, world
  <2> QED
    BY <1>3, <2>1 DEF SessionInv, HarmAfterLoss, TypeOK, GivenUp, HeldOK,
                      Close, Harm, client, world
<1> QED
  BY <1>1, <1>2, <1>3

(* Every step keeps what is held and what has been given up.               *)
LEMMA SessionStep == SessionInv /\ [Next]_vars => SessionInv'
<1>1. ASSUME SessionInv, UNCHANGED vars
      PROVE  SessionInv'
  BY <1>1, HeldKept DEF SessionInv, HarmAfterLoss, TypeOK, GivenUp, vars
<1> QED
  BY <1>1, OthersKeepSession, ReadingKeepsSession, BodyKeepsSession,
     AnsweringKeepsSession, EndingKeepsSession DEF Next, Thread

(* The descriptor is given up only where the connection is found broken,   *)
(* and nobody else is harmed before.                                       *)
THEOREM HarmsAfterLoss == Spec => []HarmAfterLoss
<1>1. SessionInv => HarmAfterLoss
  BY DEF SessionInv
<1> QED
  BY SessionInit, SessionStep, <1>1, PTL DEF Spec

-----------------------------------------------------------------------------
(* The request that is being answered.                                     *)

(* What is left of a sequence without its beginning, and the beginning.    *)
LEMMA Dropped ==
  ASSUME NEW S, NEW ts \in Seq(S), NEW n \in 0 .. Len(ts)
  PROVE  /\ SubSeq(ts, n + 1, Len(ts)) \in Seq(S)
         /\ Len(SubSeq(ts, n + 1, Len(ts))) = Len(ts) - n
         /\ \A i \in 1 .. Len(ts) - n : SubSeq(ts, n + 1, Len(ts))[i] = ts[n + i]
         /\ SubSeq(ts, 1, n) \in Seq(S) /\ Len(SubSeq(ts, 1, n)) = n
         /\ \A i \in 1 .. n : SubSeq(ts, 1, n)[i] = ts[i]
<1>1. Len(ts) \in Nat
  BY LenProperties
<1>2. /\ SubSeq(ts, n + 1, Len(ts)) \in Seq(S)
      /\ Len(SubSeq(ts, n + 1, Len(ts))) = Len(ts) - n
      /\ \A i \in 1 .. Len(ts) - n : SubSeq(ts, n + 1, Len(ts))[i] = ts[n + i]
  BY <1>1, SubSeqProperties
<1>3. /\ SubSeq(ts, 1, n) \in Seq(S) /\ Len(SubSeq(ts, 1, n)) = n
      /\ \A i \in 1 .. n : SubSeq(ts, 1, n)[i] = ts[i]
  BY <1>1, SubSeqProperties
<1> QED
  BY <1>2, <1>3

(* A line that comes first is taken alone.                                 *)
LEMMA FirstLine ==
  ASSUME NEW ts \in Seq(Tokens), ts # <<>>, IsLine(ts[1])
  PROVE  /\ LineEnd(ts) = 1
         /\ Len(SubSeq(ts, 1, 1)) = 1 /\ SubSeq(ts, 1, 1)[1] = ts[1]
         /\ Last(SubSeq(ts, 1, 1)) = ts[1]
         /\ {t.of : t \in Range(SubSeq(ts, 1, 1))} = {ts[1].of}
<1>1. Len(ts) \in Nat \ {0}
  BY EmptySeq
<1>2. LineEnd(ts) = 1
  <2> DEFINE n == LineEnd(ts)
  <2>1. /\ n \in 0 .. Len(ts)
        /\ n = 0 => \A i \in 1 .. Len(ts) : ~IsLine(ts[i])
        /\ n # 0 => \A i \in 1 .. n - 1 : ~IsLine(ts[i])
    BY LineEnds
  <2> HIDE DEF n
  <2>2. n = 1
    BY <1>1, <2>1
  <2> QED
    BY <2>2 DEF n
<1>3. Len(SubSeq(ts, 1, 1)) = 1 /\ SubSeq(ts, 1, 1)[1] = ts[1]
  BY <1>1, SubSeqProperties
<1>4. DOMAIN SubSeq(ts, 1, 1) = {1}
  BY <1>1, <1>3, SubSeqProperties
<1> QED
  BY <1>2, <1>3, <1>4 DEF Last, Range

(* The next line of the request the object has read so far.                *)
LEMMA NextLine ==
  ASSUME SessionInv, NEW ts \in Seq(Tokens), ts # <<>>,
         NEW j \in 0 .. Lines(Kind) - 1, ts[1] = Tok(j + 1),
         ReadSoFar(http, j), TakeLine(ts)
  PROVE  /\ LineEnd(ts) = 1 /\ buf' = SubSeq(ts, 2, Len(ts))
         /\ ReadSoFar(http', j + 1)
         /\ pc' = IF j + 1 = Lines(Kind) THEN "data" ELSE "line"
<1> DEFINE line == SubSeq(ts, 1, 1)
           w == HeadLines(Kind)[j + 1]
           n == Lines(Kind)
           o == http
           p == Parse(http, line)
<1>1. n \in {2, 3} /\ j \in {0, 1, 2} /\ j < n
  <2>1. n \in {2, 3}
    BY KindsOfLines
  <2> QED
    BY <2>1
<1>2. w # "body" /\ (w = "end" <=> j + 1 = n) /\ (w = "start" <=> j = 0)
  <2>1. j + 1 \in 1 .. n
    BY <1>1
  <2>2. /\ \A i \in 1 .. n : HeadLines(Kind)[i] # "body"
        /\ \A i \in 1 .. n : HeadLines(Kind)[i] = "end" <=> i = n
        /\ \A i \in 1 .. n : HeadLines(Kind)[i] = "start" <=> i = 1
    BY KindsOfLines
  <2> QED
    BY <1>1, <2>1, <2>2
<1>3. ts[1] = [of |-> Len(sent), is |-> w]
  BY <1>1 DEF Tok
<1>4. LineEnd(ts) = 1 /\ Meant(line) = w /\ Whose(line) = Kind
      /\ {t.of : t \in Range(line)} = {Len(sent)}
  <2>1. IsLine(ts[1]) /\ ts[1].of = Len(sent) /\ ts[1].is = w
    BY <1>2, <1>3 DEF IsLine
  <2> HIDE DEF w
  <2> QED
    BY <2>1, FirstLine DEF Meant, Whose, Kind
<1>5. buf' = SubSeq(ts, 2, Len(ts)) /\ http' = p
      /\ pc' = IF w = "end" THEN "data" ELSE "line"
  <2>1. 1 + 1 = 2
    OBVIOUS
  <2> QED
    BY <1>4, <2>1, Zenon DEF TakeLine
<1>6. /\ Meant(line) = "start" =>
           p = [Seen(o, line) EXCEPT !.method = Method(Whose(line)), !.target =
                  IF Here(Whose(line)) THEN @ ELSE Target(Whose(line))]
      /\ Meant(line) = "close" => p = [Seen(o, line) EXCEPT !.keep = FALSE]
      /\ Meant(line) = "length" =>
           p = [Seen(o, line) EXCEPT !.length =
                  IF o.method = "HEAD" THEN "none" ELSE Length(Whose(line))]
      /\ Meant(line) = "auth" => p = [Seen(o, line) EXCEPT !.passed = TRUE]
      /\ Meant(line) \notin {"start", "close", "length", "auth"} =>
           p = Seen(o, line)
  BY Parsed
<1>7. o \in Objects /\ Seen(o, line) = [o EXCEPT !.from = @ \cup {Len(sent)}]
  BY <1>4, Basics DEF Seen
<1>8. /\ Length(Kind) # "none" => n = 3 /\ HeadLines(Kind)[2] = "length"
      /\ Method(Kind) = "HEAD" <=> Kind = "head"
  BY KindsOfRequests
<1>9. ReadSoFar(o, j)
  OBVIOUS
<1> HIDE DEF line, w, n, o, p
<1>10. /\ w = "start" => p.method = Method(Kind) /\ p.length = o.length
       /\ w = "length" => /\ p.method = o.method
                          /\ p.length = IF o.method = "HEAD" THEN "none" ELSE Length(Kind)
       /\ w \notin {"start", "length"} => p.method = o.method /\ p.length = o.length
       /\ p.from = o.from \cup {Len(sent)}
  BY <1>4, <1>6, <1>7 DEF Objects
<1>11. /\ o.from = IF j = 0 THEN {} ELSE {Len(sent)}
       /\ o.method = IF j = 0 THEN "GET" ELSE Method(Kind)
       /\ o.length = IF j < 2 \/ Kind = "head" THEN "none" ELSE Length(Kind)
  BY <1>9 DEF ReadSoFar
<1>12. /\ p.from = {Len(sent)} /\ p.method = Method(Kind)
       /\ p.length = IF j + 1 < 2 \/ Kind = "head" THEN "none" ELSE Length(Kind)
  <2>1. CASE j = 0
    BY <1>2, <1>10, <1>11, <2>1
  <2>2. CASE j = 1
    <3>1. w = HeadLines(Kind)[2]
      BY <2>2 DEF w
    <3>2. w # "start"
      BY <1>2, <2>2
    <3> QED
      BY <1>8, <1>10, <1>11, <2>2, <3>1, <3>2
  <2>3. CASE j = 2
    <3>1. w = "end"
      BY <1>1, <1>2, <2>3
    <3> QED
      BY <1>10, <1>11, <2>3, <3>1
  <2> QED
    BY <1>1, <2>1, <2>2, <2>3
<1>13. ReadSoFar(p, j + 1)
  BY <1>1, <1>12 DEF ReadSoFar
<1> QED
  BY <1>2, <1>4, <1>5, <1>13 DEF n

(* Where a step leaves the request, the answers and what is to be read.    *)
LEMMA ReadOn ==
  ASSUME SessionInv, OneToAnswer, NEW j \in 0 .. Lines(Kind) - 1,
         UNCHANGED <<sent, late, answers>>, Rest(j + 1)', ReadSoFar(http', j + 1),
         pc' = IF j + 1 = Lines(Kind) THEN "data" ELSE "line"
  PROVE  OneToAnswer'
<1>1. Lines(Kind) \in {2, 3}
  BY KindsOfLines
<1>2. Kind' = Kind /\ Lines(Kind)' = Lines(Kind)
  BY DEF Kind, Lines
<1>3. ReadSoFar(http, j + 1)'
  BY <1>2 DEF ReadSoFar
<1>4. Len(answers') + 1 = Len(sent') /\ (late' => Len(Body(Kind))' = 1)
  BY <1>2 DEF OneToAnswer
<1>5. CASE j + 1 = Lines(Kind)
  <2>1. pc' = "data" /\ Rest(Lines(Kind))' /\ ReadSoFar(http, Lines(Kind))'
    BY <1>2, <1>3, <1>5
  <2> QED
    BY <1>4, <2>1 DEF OneToAnswer
<1>6. CASE j + 1 # Lines(Kind)
  <2>1. pc' = "line" /\ j + 1 \in 0 .. Lines(Kind)' - 1
    BY <1>1, <1>2, <1>6
  <2> QED
    BY <1>3, <1>4, <2>1 DEF OneToAnswer
<1> QED
  BY <1>5, <1>6

(* A line that was in the buffer is followed in the request that is read.  *)
LEMMA BufferedInStep ==
  ASSUME OwnInv, LineBuffered, Calm
  PROVE  OneToAnswer'
<1>1. /\ sent \in Seq(Kinds) /\ Len(sent) \in Nat /\ buf \in Seq(Tokens)
      /\ net \in Seq(Tokens) /\ Len(buf) \in Nat /\ Len(net) \in Nat
  BY Basics, LenProperties DEF OwnInv
<1>2. buf # <<>>
  <2>1. CASE buf = <<>>
    <3>1. LineEnd(buf) \in 0 .. Len(buf) /\ Len(buf) = 0
      BY <1>1, <2>1, LineEnds
    <3> QED
      BY <3>1 DEF LineBuffered
  <2> QED
    BY <2>1
<1>3. OneToAnswer /\ pc = "line"
  BY <1>2 DEF OwnInv, InStep, AllAnswered, LineBuffered
<1>4. PICK j \in 0 .. Lines(Kind) - 1 : Rest(j) /\ ReadSoFar(http, j)
  BY <1>3 DEF OneToAnswer
<1>5. Len(buf) \in Nat \ {0} /\ j \in Nat
  <2>1. Lines(Kind) \in {2, 3}
    BY KindsOfLines
  <2> QED
    BY <1>1, <1>2, <2>1, EmptySeq
<1>6. buf[1] = Tok(j + 1)
  BY <1>4, <1>5 DEF Rest
<1>7. /\ buf' = SubSeq(buf, 2, Len(buf)) /\ ReadSoFar(http', j + 1)
      /\ pc' = IF j + 1 = Lines(Kind) THEN "data" ELSE "line"
  BY <1>1, <1>2, <1>4, <1>6, NextLine DEF OwnInv, LineBuffered
<1>8. UNCHANGED <<sent, late, answers, net>>
  BY DEF LineBuffered, client
<1>9. Rest(j + 1)'
  <2>1. Len(buf') = Len(buf) - 1 /\ \A i \in 1 .. Len(buf) - 1 : buf'[i] = buf[i + 1]
    <3>1. 1 \in 0 .. Len(buf) /\ 1 + 1 = 2
      BY <1>5
    <3>2. /\ Len(SubSeq(buf, 1 + 1, Len(buf))) = Len(buf) - 1
          /\ \A i \in 1 .. Len(buf) - 1 : SubSeq(buf, 1 + 1, Len(buf))[i] = buf[1 + i]
      BY <1>1, <3>1, Dropped, ZenonT(40)
    <3> QED
      BY <1>5, <1>7, <3>1, <3>2
  <2>2. Kind' = Kind /\ \A i : Tok(i)' = Tok(i)
    BY <1>8 DEF Kind, Tok, Lines
  <2>3. ASSUME NEW i \in 1 .. Len(buf')
        PROVE  buf'[i] = Tok(j + 1 + i)
    <3>1. buf'[i] = buf[i + 1] /\ i + 1 \in 1 .. Len(buf)
      BY <1>5, <2>1
    <3>2. buf[i + 1] = Tok(j + (i + 1)) /\ j + (i + 1) = j + 1 + i
      BY <1>4, <1>5, <3>1 DEF Rest
    <3> QED
      BY <3>1, <3>2
  <2>4. ASSUME NEW i \in 1 .. Len(net)
        PROVE  net[i] = Tok(j + 1 + Len(buf') + i)
    <3>1. net[i] = Tok(j + Len(buf) + i)
      BY <1>4 DEF Rest
    <3>2. j + Len(buf) + i = j + 1 + Len(buf') + i
      BY <1>1, <1>5, <2>1
    <3> QED
      BY <3>1, <3>2
  <2>5. Len(buf') + Len(net) + (j + 1)
          = IF late THEN Lines(Kind) ELSE Whole(Kind)
    BY <1>1, <1>4, <1>5, <2>1 DEF Rest
  <2> QED
    BY <1>8, <2>2, <2>3, <2>4, <2>5 DEF Rest, Lines, Whole
<1> QED
  BY <1>3, <1>7, <1>8, <1>9, ReadOn DEF OwnInv

(* And so is one whose end recv brings.                                    *)
LEMMA ReceivedInStep ==
  ASSUME OwnInv, LineReceived, Calm
  PROVE  OneToAnswer'
<1>1. /\ sent \in Seq(Kinds) /\ Len(sent) \in Nat /\ buf \in Seq(Tokens)
      /\ net \in Seq(Tokens) /\ Len(buf) \in Nat /\ Len(net) \in Nat
  BY Basics, LenProperties DEF OwnInv
<1>2. PICK n \in 1 .. Len(net) :
        /\ net' = SubSeq(net, n + 1, Len(net))
        /\ IF LineEnd(buf \o SubSeq(net, 1, n)) > 0
           THEN TakeLine(buf \o SubSeq(net, 1, n))
           ELSE buf' = buf \o SubSeq(net, 1, n) /\ UNCHANGED <<pc, http>>
  BY DEF LineReceived
<1>3. OneToAnswer /\ pc = "line"
  BY <1>1, <1>2 DEF OwnInv, InStep, AllAnswered, LineReceived
<1>4. PICK j \in 0 .. Lines(Kind) - 1 : Rest(j) /\ ReadSoFar(http, j)
  BY <1>3 DEF OneToAnswer
<1>5. j \in Nat /\ j + 1 \in 1 .. Lines(Kind) /\ n \in Nat \ {0} /\ n <= Len(net)
  <2>1. Lines(Kind) \in {2, 3}
    BY KindsOfLines
  <2> QED
    BY <1>1, <2>1
<1>6. IsLine(Tok(j + 1))
  <2>1. HeadLines(Kind)[j + 1] # "body"
    BY <1>5, KindsOfLines
  <2> QED
    BY <1>5, <2>1 DEF Tok, IsLine
<1>7. buf = <<>> /\ Len(buf) = 0
  <2>1. CASE buf # <<>>
    <3>1. Len(buf) \in Nat \ {0} /\ buf[1] = Tok(j + 1)
      BY <1>1, <1>4, <2>1, EmptySeq DEF Rest
    <3>2. LineEnd(buf) = 1
      BY <1>1, <1>6, <2>1, <3>1, FirstLine
    <3> QED
      BY <3>2 DEF LineReceived
  <2> QED
    BY <2>1
<1> DEFINE ts == SubSeq(net, 1, n)
<1>8. ts \in Seq(Tokens) /\ Len(ts) = n /\ \A i \in 1 .. n : ts[i] = net[i]
  BY <1>1, <1>5, Dropped
<1>9. net' = SubSeq(net, n + 1, Len(net))
      /\ Len(net') = Len(net) - n /\ \A i \in 1 .. Len(net) - n : net'[i] = net[n + i]
  BY <1>1, <1>2, <1>5, Dropped
<1>10. buf \o ts = ts
  BY <1>7, <1>8, ConcatEmptySeq
<1>11. \A i \in 1 .. Len(net) : net[i] = Tok(j + i)
  <2>1. \A i \in 1 .. Len(net) : net[i] = Tok(j + Len(buf) + i)
    BY <1>4 DEF Rest
  <2>2. \A i \in 1 .. Len(net) : j + Len(buf) + i = j + i
    BY <1>5, <1>7
  <2> QED
    BY <2>1, <2>2
<1>12. IF LineEnd(ts) > 0 THEN TakeLine(ts) ELSE buf' = ts /\ UNCHANGED <<pc, http>>
  BY <1>2, <1>10
<1> HIDE DEF ts
<1>13. ts # <<>> /\ ts[1] = Tok(j + 1)
  BY <1>5, <1>8, <1>11
<1>14. TakeLine(ts)
  <2>1. LineEnd(ts) = 1
    BY <1>6, <1>8, <1>13, FirstLine
  <2> QED
    BY <1>12, <2>1
<1>15. /\ buf' = SubSeq(ts, 2, Len(ts)) /\ ReadSoFar(http', j + 1)
       /\ pc' = IF j + 1 = Lines(Kind) THEN "data" ELSE "line"
  BY <1>4, <1>8, <1>13, <1>14, NextLine DEF OwnInv
<1>16. UNCHANGED <<sent, late, answers>>
  BY DEF LineReceived, client
<1>17. Rest(j + 1)'
  <2>1. Len(buf') = n - 1 /\ \A i \in 1 .. n - 1 : buf'[i] = ts[i + 1]
    <3>1. 1 \in 0 .. Len(ts) /\ 1 + 1 = 2
      BY <1>5, <1>8
    <3>2. /\ Len(SubSeq(ts, 1 + 1, Len(ts))) = Len(ts) - 1
          /\ \A i \in 1 .. Len(ts) - 1 : SubSeq(ts, 1 + 1, Len(ts))[i] = ts[1 + i]
      BY <1>8, <3>1, Dropped
    <3> QED
      BY <1>5, <1>8, <1>15, <3>1, <3>2
  <2>2. Kind' = Kind /\ \A i : Tok(i)' = Tok(i)
    BY <1>16 DEF Kind, Tok, Lines
  <2>3. ASSUME NEW i \in 1 .. Len(buf')
        PROVE  buf'[i] = Tok(j + 1 + i)
    <3>1. buf'[i] = ts[i + 1] /\ i + 1 \in 1 .. n /\ i + 1 \in 1 .. Len(net)
      BY <1>1, <1>5, <2>1
    <3>2. ts[i + 1] = Tok(j + (i + 1)) /\ j + (i + 1) = j + 1 + i
      BY <1>5, <1>8, <1>11, <3>1
    <3> QED
      BY <3>1, <3>2
  <2>4. ASSUME NEW i \in 1 .. Len(net')
        PROVE  net'[i] = Tok(j + 1 + Len(buf') + i)
    <3>1. net'[i] = net[n + i] /\ n + i \in 1 .. Len(net)
      BY <1>1, <1>5, <1>9
    <3>2. j + (n + i) = j + 1 + Len(buf') + i
      BY <1>1, <1>5, <1>9, <2>1
    <3> QED
      BY <1>11, <3>1, <3>2
  <2>5. Len(buf') + Len(net') + (j + 1)
          = IF late THEN Lines(Kind) ELSE Whole(Kind)
    <3>1. Len(buf) + Len(net) + j = IF late THEN Lines(Kind) ELSE Whole(Kind)
      BY <1>4 DEF Rest
    <3>2. Len(buf') + Len(net') + (j + 1) = Len(buf) + Len(net) + j
      <4>1. Len(buf') = n - 1 /\ Len(net') = Len(net) - n /\ Len(buf) = 0
        BY <1>7, <1>9, <2>1
      <4>2. n \in Int /\ j \in Int /\ Len(net) \in Int
        BY <1>1, <1>5
      <4> QED
        BY <4>1, <4>2
    <3> QED
      BY <3>1, <3>2
  <2> QED
    BY <1>16, <2>2, <2>3, <2>4, <2>5 DEF Rest, Lines, Whole
<1> QED
  BY <1>3, <1>15, <1>16, <1>17, ReadOn DEF OwnInv

(* The client's request and its body.                                      *)
LEMMA RequestInStep ==
  ASSUME OwnInv, NEW k \in Kinds, Request(k), Calm, AllAnswered
  PROVE  OneToAnswer'
<1>1. /\ sent \in Seq(Kinds) /\ Len(sent) \in Nat /\ sent' = Append(sent, k)
      /\ buf = <<>> /\ net = <<>> /\ Len(answers) = Len(sent)
      /\ UNCHANGED <<pc, buf, http, answers>>
  BY Basics DEF OwnInv, AllAnswered, Request
<1>2. Len(sent') = Len(sent) + 1 /\ Kind' = k
  BY <1>1, AppendProperties DEF Kind
<1>3. /\ HeadLines(k) \in Seq(Words) /\ Lines(k) \in {2, 3}
      /\ \A i \in 1 .. Lines(k) : HeadLines(k)[i] # "body"
      /\ Len(Body(k)) \in {0, 1} /\ Whole(k) = Lines(k) + Len(Body(k))
      /\ Body(k) = <<>> <=> Len(Body(k)) = 0
  BY KindsOfLines, EmptySeq
<1>4. /\ net' = Of(Len(sent) + 1, HeadLines(k))
      /\ late' = (Body(k) # <<>>)
  <2>1. Of(Len(sent) + 1, HeadLines(k)) \in Seq(Tokens)
    <3>1. Len(sent) + 1 \in Nat \ {0}
      BY <1>1
    <3> QED
      BY <1>3, <3>1, OfRequest
  <2> QED
    BY <1>1, <2>1, ConcatEmptySeq DEF Request
<1>5. /\ Len(net') = Lines(k)
      /\ \A i \in 1 .. Lines(k) : net'[i] = [of |-> Len(sent) + 1, is |-> HeadLines(k)[i]]
  BY <1>1, <1>3, <1>4, OfRequest DEF Lines
<1>6. Rest(0)'
  <2>1. \A i \in 1 .. Lines(k) : Tok(i)' = net'[i]
    BY <1>2, <1>5 DEF Tok, Lines
  <2>2. Len(buf') = 0 /\ \A i \in 1 .. Lines(k) : 0 + Len(buf') + i = i
    BY <1>1, <1>3
  <2>3. Len(buf') + Len(net') + 0 = IF late' THEN Lines(k) ELSE Whole(k)
    <3>1. Len(buf') = 0 /\ Len(net') = Lines(k) /\ Lines(k) \in Nat
      BY <1>3, <1>5, <2>2
    <3>2. ~late' => Whole(k) = Lines(k)
      <4>1. ~late' => Len(Body(k)) = 0
        BY <1>3, <1>4, Zenon
      <4>2. Whole(k) = Lines(k) + Len(Body(k))
        BY <1>3
      <4> QED
        BY <3>1, <4>1, <4>2
    <3> QED
      BY <3>1, <3>2
  <2> QED
    BY <1>2, <1>5, <2>1, <2>2, <2>3 DEF Rest, Lines, Whole
<1>7. Len(answers') + 1 = Len(sent') /\ (late' => Len(Body(Kind))' = 1)
  BY <1>1, <1>2, <1>3, <1>4
<1>8. CASE pc = "line"
  <2>1. ReadSoFar(http, 0)'
    BY <1>1, <1>8 DEF AllAnswered, ReadSoFar
  <2>2. 0 \in 0 .. Lines(Kind)' - 1
    BY <1>2, <1>3 DEF Lines
  <2> QED
    BY <1>1, <1>6, <1>7, <1>8, <2>1, <2>2 DEF OneToAnswer
<1>9. CASE pc \in {"kept", "ended", "close"}
  BY <1>1, <1>6, <1>7, <1>9 DEF OneToAnswer
<1> QED
  BY <1>8, <1>9 DEF AllAnswered, Request

(* The body that comes late is the rest of the request there is.           *)
LEMMA SendBodyInStep ==
  ASSUME OwnInv, SendBody, Calm
  PROVE  OneToAnswer'
<1>1. /\ sent \in Seq(Kinds) /\ Len(sent) \in Nat /\ buf \in Seq(Tokens)
      /\ net \in Seq(Tokens) /\ Len(buf) \in Nat /\ Len(net) \in Nat /\ sent # <<>>
      /\ UNCHANGED <<sent, pc, buf, http, answers>> /\ late /\ ~late'
  BY Basics, LenProperties DEF OwnInv, SessionInv, HeldOK, SendBody
<1>2. OneToAnswer
  BY <1>1 DEF OwnInv, InStep, AllAnswered
<1>3. /\ Len(Body(Kind)) = 1 /\ Body(Kind) \in Seq(Words) /\ Body(Kind)[1] = "body"
      /\ Lines(Kind) \in {2, 3} /\ Whole(Kind) = Lines(Kind) + 1
  <2>1. Len(Body(Kind)) = 1
    BY <1>1, <1>2 DEF OneToAnswer
  <2> QED
    BY <2>1, KindsOfLines
<1> DEFINE us == Of(Len(sent), Body(Kind))
<1>4. us \in Seq(Tokens) /\ Len(us) = 1 /\ us[1] = [of |-> Len(sent), is |-> "body"]
  <2>1. Len(sent) \in Nat \ {0}
    BY <1>1, EmptySeq
  <2> QED
    BY <1>3, <2>1, OfRequest
<1>5. net' = net \o us
  BY DEF SendBody, Last, Kind
<1> HIDE DEF us
<1>6. /\ Len(net') = Len(net) + 1 /\ net'[Len(net) + 1] = us[1]
      /\ \A i \in 1 .. Len(net) : net'[i] = net[i]
  <2>1. /\ Len(net \o us) = Len(net) + Len(us)
        /\ \A i \in 1 .. Len(net) + Len(us) :
             (net \o us)[i] = IF i <= Len(net) THEN net[i] ELSE us[i - Len(net)]
    BY <1>1, <1>4, ConcatProperties
  <2>2. Len(net) + 1 - Len(net) = 1 /\ Len(net) + 1 \in 1 .. Len(net) + 1
        /\ ~(Len(net) + 1 <= Len(net))
    BY <1>1
  <2> QED
    BY <1>1, <1>4, <1>5, <2>1, <2>2
<1>7. Kind' = Kind /\ \A i : Tok(i)' = Tok(i)
  BY <1>1 DEF Kind, Tok, Lines
<1>8. ASSUME NEW j \in Nat, Rest(j)
      PROVE  Rest(j)'
  <2>1. Len(buf) + Len(net) + j = Lines(Kind)
    BY <1>1, <1>8 DEF Rest
  <2>2. Len(buf') + Len(net') + j = Whole(Kind)
    BY <1>1, <1>3, <1>6, <2>1
  <2>3. ASSUME NEW i \in 1 .. Len(net')
        PROVE  net'[i] = Tok(j + Len(buf) + i)
    <3>1. CASE i \in 1 .. Len(net)
      BY <1>6, <1>8, <3>1 DEF Rest
    <3>2. CASE i = Len(net) + 1
      <4>1. j + Len(buf) + i = Lines(Kind) + 1 /\ ~(Lines(Kind) + 1 <= Lines(Kind))
        BY <1>1, <1>3, <2>1, <3>2
      <4> QED
        BY <1>4, <1>6, <3>2, <4>1 DEF Tok
    <3> QED
      BY <1>1, <1>6, <3>1, <3>2
  <2> QED
    BY <1>1, <1>7, <1>8, <2>2, <2>3 DEF Rest, Whole
<1>9. Lines(Kind) \in Nat /\ \A j \in 0 .. Lines(Kind) - 1 : j \in Nat
  BY <1>3
<1>10. /\ Lines(Kind)' = Lines(Kind) /\ Len(answers') + 1 = Len(sent') /\ ~late'
       /\ \A j : ReadSoFar(http, j)' <=> ReadSoFar(http, j)
  BY <1>1, <1>2, <1>7 DEF OneToAnswer, Lines, ReadSoFar
<1>11. CASE pc = "line"
  <2>1. PICK j \in 0 .. Lines(Kind) - 1 : Rest(j) /\ ReadSoFar(http, j)
    BY <1>2, <1>11 DEF OneToAnswer
  <2>2. Rest(j)' /\ ReadSoFar(http, j)' /\ j \in 0 .. Lines(Kind)' - 1
    BY <1>8, <1>9, <1>10, <2>1
  <2> QED
    BY <1>1, <1>10, <1>11, <2>2 DEF OneToAnswer
<1>12. CASE pc = "data"
  <2>1. Rest(Lines(Kind)) /\ ReadSoFar(http, Lines(Kind))
    BY <1>2, <1>12 DEF OneToAnswer
  <2>2. Rest(Lines(Kind))' /\ ReadSoFar(http, Lines(Kind))'
    BY <1>8, <1>9, <1>10, <2>1
  <2> QED
    BY <1>1, <1>10, <1>12, <2>2 DEF OneToAnswer
<1>13. CASE pc \in {"kept", "ended", "close"}
  <2>1. Rest(0)'
    BY <1>2, <1>8, <1>13 DEF OneToAnswer
  <2> QED
    BY <1>1, <1>2, <1>10, <1>13, <2>1 DEF OneToAnswer
<1> QED
  BY <1>1, <1>2, <1>11, <1>12, <1>13 DEF OneToAnswer

(* Its body is read, or there is none, and it is answered.                 *)
LEMMA NoBodyInStep ==
  ASSUME OwnInv, NoBody, Calm'
  PROVE  OneToAnswer'
<1>1. /\ sent \in Seq(Kinds) /\ Len(sent) \in Nat /\ buf \in Seq(Tokens)
      /\ net \in Seq(Tokens) /\ Len(buf) \in Nat /\ Len(net) \in Nat
      /\ http \in Objects
      /\ UNCHANGED <<sent, late, buf, net, http, answers>> /\ pc' = "reply"
  BY Basics, LenProperties DEF OwnInv, NoBody, client
<1>2. Calm /\ pc = "data" /\ http.length = "none"
  <2>1. Calm /\ http.length # "big"
    BY DEF NoBody, Calm, client
  <2> QED
    BY <1>1, <2>1 DEF NoBody, Wanted, Objects
<1>3. OneToAnswer /\ Rest(Lines(Kind)) /\ ReadSoFar(http, Lines(Kind))
  BY <1>2 DEF OwnInv, InStep, AllAnswered, OneToAnswer
<1>4. Lines(Kind) \in {2, 3} /\ Len(Body(Kind)) = 0 /\ Whole(Kind) = Lines(Kind)
  <2>1. Lines(Kind) \in {2, 3} /\ Len(Body(Kind)) \in {0, 1}
        /\ Whole(Kind) = Lines(Kind) + Len(Body(Kind))
    BY KindsOfLines
  <2>2. Kind = "head" \/ Length(Kind) = "none"
    BY <1>2, <1>3, <2>1 DEF ReadSoFar
  <2>3. /\ Len(Body(Kind)) = 1 <=> Length(Kind) \in {"some", "big"}
        /\ Length(Kind) = "some" <=> Kind = "post"
        /\ Length(Kind) = "big" <=> Kind = "big"
    BY KindsOfRequests
  <2> QED
    BY <2>1, <2>2, <2>3
<1>5. Len(buf) + Len(net) + Lines(Kind) = Lines(Kind)
  BY <1>3, <1>4 DEF Rest
<1>6. Len(buf) = 0 /\ Len(net) = 0
  BY <1>1, <1>4, <1>5
<1>7. buf = <<>> /\ net = <<>> /\ ~late /\ http.from = {Len(sent)}
  BY <1>1, <1>3, <1>4, <1>6, EmptySeq DEF OneToAnswer, ReadSoFar
<1> QED
  BY <1>1, <1>3, <1>7 DEF OneToAnswer, Kind

(* After the body nothing is left of the request.                          *)
LEMMA BodyInStep ==
  ASSUME OwnInv, BodyReceived, Calm
  PROVE  OneToAnswer'
<1>1. /\ sent \in Seq(Kinds) /\ Len(sent) \in Nat /\ buf \in Seq(Tokens)
      /\ net \in Seq(Tokens) /\ Len(buf) \in Nat /\ Len(net) \in Nat
      /\ http \in Objects
      /\ UNCHANGED <<sent, late, answers>> /\ pc' = "reply"
  BY Basics, LenProperties DEF OwnInv, BodyReceived, client
<1> DEFINE ts == buf \o net
<1>2. /\ pc = "data" /\ http.length = "some" /\ ts # <<>>
      /\ buf' = IF buf # <<>> THEN Tail(buf) ELSE <<>>
      /\ net' = IF buf # <<>> THEN net ELSE Tail(net)
      /\ http' = [http EXCEPT !.from = @ \cup {ts[1].of}]
  BY DEF BodyReceived, Wanted
<1>3. OneToAnswer /\ Rest(Lines(Kind)) /\ ReadSoFar(http, Lines(Kind))
  BY <1>2 DEF OwnInv, InStep, AllAnswered, OneToAnswer
<1>4. Lines(Kind) \in {2, 3} /\ Len(Body(Kind)) = 1 /\ Whole(Kind) = Lines(Kind) + 1
  <2>1. Lines(Kind) \in {2, 3} /\ Whole(Kind) = Lines(Kind) + Len(Body(Kind))
    BY KindsOfLines
  <2>2. Length(Kind) = "some"
    BY <1>2, <1>3, <2>1 DEF ReadSoFar
  <2>3. Len(Body(Kind)) = 1
    BY <2>2, KindsOfRequests
  <2> QED
    BY <2>1, <2>3
<1>5. Len(ts) = Len(buf) + Len(net) /\ Len(ts) \in Nat \ {0}
  <2>1. ts \in Seq(Tokens) /\ Len(ts) = Len(buf) + Len(net)
    BY <1>1, ConcatProperties
  <2> QED
    BY <1>2, <2>1, EmptySeq
<1>6. Len(buf) + Len(net) = 1 /\ ~late
  <2>1. Len(buf) + Len(net) + Lines(Kind)
          = IF late THEN Lines(Kind) ELSE Whole(Kind)
    BY <1>3 DEF Rest
  <2> HIDE DEF ts
  <2>2. Len(buf) + Len(net) \in Nat \ {0}
    BY <1>5
  <2> QED
    BY <1>4, <2>1, <2>2
<1>7. ts[1] = Tok(Lines(Kind) + 1) /\ buf' = <<>> /\ net' = <<>>
  <2>1. CASE buf = <<>>
    <3>1. Len(buf) = 0 /\ Len(net) = 1 /\ ts = net
      BY <1>1, <1>6, <2>1, ConcatEmptySeq
    <3>2. net[1] = Tok(Lines(Kind) + Len(buf) + 1)
      BY <1>3, <3>1 DEF Rest
    <3>3. net' = Tail(net) /\ Len(Tail(net)) = 0
      BY <1>1, <1>2, <2>1, <3>1, HeadTailProperties, EmptySeq
    <3>4. Tail(net) \in Seq(Tokens)
      <4>1. net # <<>>
        BY <1>1, <3>1, EmptySeq
      <4> QED
        BY <1>1, <4>1, HeadTailProperties
    <3> QED
      BY <1>2, <1>4, <2>1, <3>1, <3>2, <3>3, <3>4, EmptySeq
  <2>2. CASE buf # <<>>
    <3>1. Len(buf) = 1 /\ Len(net) = 0 /\ net = <<>>
      <4>1. Len(buf) # 0
        BY <1>1, <2>2, EmptySeq
      <4>2. Len(buf) = 1 /\ Len(net) = 0
        <5>1. /\ Len(buf) \in Nat /\ Len(net) \in Nat /\ Len(buf) + Len(net) = 1
              /\ Len(buf) # 0
          BY <1>1, <1>6, <4>1
        <5>2. \A a, b \in Nat : a + b = 1 /\ a # 0 => a = 1 /\ b = 0
          OBVIOUS
        <5> QED
          BY <5>1, <5>2, Zenon
      <4> QED
        BY <1>1, <4>2, EmptySeq
    <3>2. buf[1] = Tok(Lines(Kind) + 1) /\ ts = buf
      BY <1>1, <1>3, <3>1, ConcatEmptySeq DEF Rest
    <3>3. buf' = Tail(buf) /\ Len(Tail(buf)) = 0 /\ Tail(buf) \in Seq(Tokens)
      BY <1>1, <1>2, <2>2, <3>1, HeadTailProperties
    <3> QED
      BY <1>2, <2>2, <3>1, <3>2, <3>3, EmptySeq
  <2> QED
    BY <2>1, <2>2
<1>8. http'.from = {Len(sent)}
  <2>1. http.from = {Len(sent)} /\ ts[1].of = Len(sent)
    BY <1>3, <1>4, <1>7 DEF ReadSoFar, Tok
  <2> QED
    BY <1>1, <1>2, <2>1 DEF Objects
<1> QED
  BY <1>1, <1>3, <1>6, <1>7, <1>8 DEF OneToAnswer, Kind

(* It is answered with what was read of it, and of nothing else.           *)
LEMMA SendInStep ==
  ASSUME OwnInv, OneToAnswer, Calm, Calm', Send, http.from = {Len(sent)},
         buf = <<>>, net = <<>>, ~late, pc' \in {"kept", "ended"},
         UNCHANGED <<sent, late, net, buf>>
  PROVE  AllAnswered' /\ AnswersOwnRequest'
<1>1. /\ Len(sent) \in Nat /\ answers \in Seq(SUBSET Nat)
      /\ Len(answers) \in Nat /\ Len(answers) + 1 = Len(sent)
  BY Basics, LenProperties DEF OwnInv, SessionInv, HeldOK, OneToAnswer
<1>2. answers' = Append(answers, {Len(sent)})
  BY DEF Send, Break, Calm
<1>3. {Len(sent)} \in SUBSET Nat
  BY <1>1
<1>4. /\ Len(answers') = Len(answers) + 1 /\ answers'[Len(answers) + 1] = {Len(sent)}
      /\ \A i \in 1 .. Len(answers) : answers'[i] = answers[i]
      /\ DOMAIN answers' = 1 .. Len(answers) + 1
  BY <1>1, <1>2, <1>3, AppendProperties
<1>5. \A i \in 1 .. Len(answers) : answers[i] = {i}
  BY <1>1 DEF OwnInv, AnswersOwnRequest, Calm
<1>6. \A i \in DOMAIN answers' : answers'[i] = {i}
  BY <1>1, <1>4, <1>5
<1> QED
  BY <1>1, <1>4, <1>6 DEF AllAnswered, AnswersOwnRequest

(* Once something has happened that may take an answer from its request,   *)
(* nothing is said any more, or the client is not answered any more.       *)
LEMMA SendNotCalm ==
  ASSUME AnswersOwnRequest, ~Calm, Send,
         UNCHANGED <<pipelined, unread, reused>>
  PROVE  AnswersOwnRequest'
BY DEF AnswersOwnRequest, Calm, Send, Break

(* The answer that is sent is the one to the last request.                 *)
LEMMA AnswerInStep ==
  ASSUME OwnInv, TooShort \/ NotAllowed \/ Document \/ NoTunnel \/ Tunnelled
  PROVE  InStep' /\ AnswersOwnRequest'
<1>1. /\ Send /\ pc' \in {"kept", "ended"} /\ pc \in {"data", "reply"}
      /\ pc = "data" => http.length = "negative"
      /\ UNCHANGED <<config, elapsed, sent, late, gone, pipelined, net, tickets, buf,
                     unread, reused>>
  BY DEF TooShort, NotAllowed, Document, NoTunnel, Tunnelled, Reply, client, world
<1>2. CASE ~Calm
  <2>1. ~Calm'
    BY <1>1, <1>2 DEF Calm, Send, Break
  <2> QED
    BY <1>1, <1>2, <2>1, SendNotCalm DEF OwnInv, InStep
<1>3. CASE Calm /\ ~Calm'
  <2>1. answers' = answers
    BY <1>1, <1>3 DEF Calm, Send, Break
  <2> QED
    BY <1>1, <1>3, <2>1 DEF OwnInv, InStep, AnswersOwnRequest
<1>4. CASE Calm /\ Calm'
  <2>1. OneToAnswer
    BY <1>1, <1>4 DEF OwnInv, InStep, AllAnswered
  <2>2. CASE pc = "reply"
    BY <1>1, <1>4, <2>1, <2>2, SendInStep DEF OneToAnswer, InStep
  <2>3. CASE pc = "data"
    <3>1. Rest(Lines(Kind)) /\ ReadSoFar(http, Lines(Kind)) /\ http.length = "negative"
      BY <1>1, <2>1, <2>3 DEF OneToAnswer
    <3>2. Lines(Kind) \in {2, 3} /\ Len(Body(Kind)) = 0 /\ Whole(Kind) = Lines(Kind)
      <4>1. Lines(Kind) \in {2, 3} /\ Len(Body(Kind)) \in {0, 1}
            /\ Whole(Kind) = Lines(Kind) + Len(Body(Kind))
        BY KindsOfLines
      <4>2. Length(Kind) = "negative"
        BY <3>1, <4>1 DEF ReadSoFar
      <4>3. Len(Body(Kind)) # 1
        BY <4>2, KindsOfRequests
      <4> QED
        BY <4>1, <4>3
    <3>3. /\ Len(buf) \in Nat /\ Len(net) \in Nat
          /\ buf \in Seq(Tokens) /\ net \in Seq(Tokens)
      BY Basics, LenProperties DEF OwnInv
    <3>4. Len(buf) + Len(net) + Lines(Kind) = Lines(Kind)
      BY <3>1, <3>2 DEF Rest
    <3>5. Len(buf) = 0 /\ Len(net) = 0
      BY <3>2, <3>3, <3>4
    <3>6. buf = <<>> /\ net = <<>> /\ ~late /\ http.from = {Len(sent)}
      BY <2>1, <3>1, <3>2, <3>3, <3>5, EmptySeq DEF OneToAnswer, ReadSoFar
    <3> QED
      BY <1>1, <1>4, <2>1, <3>6, SendInStep DEF InStep
  <2> QED
    BY <1>1, <2>2, <2>3
<1> QED
  BY <1>2, <1>3, <1>4

(* A kept connection starts over with nothing to read.                     *)
LEMMA AgainInStep ==
  ASSUME OwnInv, Again \/ Ended, Calm
  PROVE  AllAnswered' \/ OneToAnswer'
<1>1. /\ buf' = <<>> /\ UNCHANGED <<sent, late, net, answers>>
      /\ pc \in {"kept", "ended"}
      /\ \/ pc' = "close"
         \/ pc' = "line" /\ http'.from = {} /\ http'.method = "GET" /\ http'.length = "none"
  BY DEF Again, Ended, NewObject, Object, client
<1>2. CASE AllAnswered
  BY <1>1, <1>2 DEF AllAnswered
<1>3. CASE OneToAnswer
  <2>1. Rest(0) /\ buf = <<>>
    BY <1>1, <1>3 DEF OneToAnswer
  <2>2. Kind' = Kind /\ Lines(Kind)' = Lines(Kind)
    BY <1>1 DEF Kind, Lines
  <2>3. Rest(0)'
    BY <1>1, <2>1, <2>2 DEF Rest, Tok, Whole
  <2>4. ReadSoFar(http', 0) <=> ReadSoFar(http, 0)'
    BY <1>1, <2>2 DEF ReadSoFar
  <2>5. 0 \in 0 .. Lines(Kind) - 1
    BY KindsOfLines
  <2>6. pc' = "line" => ReadSoFar(http, 0)'
    BY <1>1, <2>4 DEF ReadSoFar
  <2> QED
    BY <1>1, <1>3, <2>2, <2>3, <2>5, <2>6 DEF OneToAnswer
<1> QED
  BY <1>2, <1>3 DEF OwnInv, InStep

(* Every step keeps what is left to read in step with what the object has  *)
(* read.                                                                   *)
LEMMA OwnStep == OwnInv /\ SessionInv' /\ [Next]_vars => OwnInv'
<1> SUFFICES ASSUME OwnInv, [Next]_vars
             PROVE  AnswersOwnRequest' /\ InStep'
  BY DEF OwnInv
<1>1. ASSUME UNCHANGED <<answers, gone>>, pipelined => pipelined', unread => unread',
             reused => reused', fd' = "ours" => fd = "ours",
             Calm /\ Calm' => AllAnswered' \/ OneToAnswer'
      PROVE  AnswersOwnRequest' /\ InStep'
  BY <1>1 DEF OwnInv, AnswersOwnRequest, InStep, Calm
<1>2. ASSUME NEW k \in Kinds, Request(k)
      PROVE  AnswersOwnRequest' /\ InStep'
  <2>1. Calm /\ Calm' => AllAnswered
    <3>1. Len(sent) \in Nat /\ Len(answers) \in Nat
      BY Basics, LenProperties DEF OwnInv, SessionInv, HeldOK
    <3> QED
      <4>1. Len(answers) < Len(sent) => pipelined'
        BY <1>2, Zenon DEF Request
      <4>2. OneToAnswer => Len(answers) < Len(sent)
        BY <3>1 DEF OneToAnswer
      <4> QED
        BY <4>1, <4>2 DEF OwnInv, InStep, Calm
  <2> QED
    BY <1>1, <1>2, <2>1, RequestInStep DEF Request, world
<1>3. CASE SendBody
  BY <1>1, <1>3, SendBodyInStep DEF SendBody, world
<1>4. CASE Leave \/ Refused \/ Reuse \/ LineLost \/ LineStrange \/ BodyLost \/ Close
  <2>1. ~Calm'
    BY <1>4 DEF Calm, Leave, Refused, Reuse, LineLost, LineStrange, BodyLost, Close
  <2>2. UNCHANGED <<answers, pipelined, unread, reused>>
    BY <1>4 DEF Leave, Refused, Reuse, LineLost, LineStrange, BodyLost, Close, client
  <2> QED
    BY <2>1, <2>2 DEF OwnInv, AnswersOwnRequest, InStep
<1>5. CASE Pass \/ UNCHANGED vars
  <2>1. UNCHANGED <<sent, late, gone, pipelined, net, fd, pc, buf, http, unread, reused, answers>>
    BY <1>5 DEF Pass, client, vars
  <2>2. AllAnswered' <=> AllAnswered
    BY <2>1 DEF AllAnswered
  <2>3. OneToAnswer' <=> OneToAnswer
    BY <2>1 DEF OneToAnswer, Rest, ReadSoFar, Kind, Tok, Lines, Whole
  <2> QED
    BY <1>1, <2>1, <2>2, <2>3 DEF OwnInv, InStep
<1>6. CASE Accepted
  <2>1. Calm => AllAnswered'
    BY <1>6 DEF OwnInv, InStep, AllAnswered, OneToAnswer, Accepted, client
  <2> QED
    BY <1>1, <1>6, <2>1 DEF Accepted, client
<1>7. CASE LineBuffered
  BY <1>1, <1>7, BufferedInStep DEF LineBuffered, client
<1>8. CASE LineReceived
  BY <1>1, <1>8, ReceivedInStep DEF LineReceived, client
<1>9. CASE NoBody
  BY <1>1, <1>9, NoBodyInStep DEF NoBody, client
<1>10. CASE BodyReceived
  BY <1>1, <1>10, BodyInStep DEF BodyReceived, client
<1>11. CASE Challenge
  BY <1>11 DEF Challenge, AnswersOwnRequest, InStep, Calm
<1>12. CASE Again \/ Ended
  BY <1>1, <1>12, AgainInStep DEF Again, Ended, Gone, client
<1> QED
  BY <1>2, <1>3, <1>4, <1>5, <1>6, <1>7, <1>8, <1>9, <1>10, <1>11, <1>12, AnswerInStep
  DEF Next, Thread

(* An answer is made of the lines of its own request, unless the client    *)
(* sent ahead, a body was left unread or an object went on after a 401.    *)
THEOREM AnswersOwn == Spec => []AnswersOwnRequest
<1>1. Init => OwnInv
  <2> SUFFICES ASSUME Init PROVE OwnInv
    OBVIOUS
  <2>1. AllAnswered
    BY DEF Init, AllAnswered, Object
  <2>2. AnswersOwnRequest
    BY DEF Init, AnswersOwnRequest
  <2> QED
    BY <2>1, <2>2, SessionInit DEF OwnInv, InStep
<1>2. OwnInv /\ [Next]_vars => OwnInv'
  BY SessionStep, OwnStep DEF OwnInv
<1>3. OwnInv => AnswersOwnRequest
  BY DEF OwnInv
<1> QED
  BY <1>1, <1>2, <1>3, PTL DEF Spec

=============================================================================
