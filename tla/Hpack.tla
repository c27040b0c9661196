------------------------------- MODULE Hpack -------------------------------
(***************************************************************************)
(* The header compression of an HTTP/2 connection, as functions: what      *)
(* hpack::parse makes of a block of octets, how the connection's tables    *)
(* give the headers of a request from it, and the block hpack::build makes *)
(* of the headers of an answer.  The client's side is that of RFC 7541.    *)
(*                                                                         *)
(* Characters and octets are numbers, names and values sequences of them.  *)
(* A block is whole: the code reads on past the end of one that is not.    *)
(***************************************************************************)
EXTENDS Integers, Sequences, SequencesExt

CONSTANTS
  Static,        \* m_header_static_table: a sequence of names with values
  Code,          \* huffman_codes: of each character, its bits
  Lower,         \* of each character, its lower case
  TableMax,      \* how many entries the dynamic table holds: 4096
  Samples,       \* bound: headers that are sent
  Depth,         \* bound: headers sent one after another
  ClientEntries  \* how many of them the client's table holds

Entry(name, value) == [name |-> name, value |-> value]
Nothing == << >>
First(s, n) == SubSeq(s, 1, IF Len(s) < n THEN Len(s) ELSE n)
LowerCase(s) == [i \in DOMAIN s |-> Lower[s[i]]]

-----------------------------------------------------------------------------
(* Integers: what fits the n bits of the first octet, or groups of seven   *)
(* bits from the lowest on.  Fewer than five groups: the test of the width *)
(* is left out.                                                            *)
Groups[v \in Nat] == IF v < 128 THEN <<v>> ELSE <<(v % 128) + 128>> \o Groups[v \div 128]

encode_integer(v, n) ==
  IF v < 2^n - 1 THEN <<v>> ELSE <<2^n - 1>> \o Groups[v - (2^n - 1)]

decode_integer[b \in Seq(Nat), at \in Nat, n \in Nat] ==
  LET first == b[at] % 2^n
      last == CHOOSE q \in at + 1 .. Len(b) : b[q] < 128 /\ \A r \in at + 1 .. q - 1 : b[r] >= 128
  IN IF first < 2^n - 1 THEN [value |-> first, next |-> at + 1]
     ELSE [value |-> first + FoldRight(LAMBDA g, high : (g % 128) + 128 * high,
                                       SubSeq(b, at + 1, last), 0),
           next |-> last + 1]

(* The first octet has its highest bits free for a tag.                    *)
Tagged(tag, octets) == <<tag + Head(octets)>> \o Tail(octets)

-----------------------------------------------------------------------------
(* Strings: the codes one after another, filled up with ones.  To decode   *)
(* takes codes from the front as long as there is one: the trees of nodes, *)
(* by eight bits each, say no more than that, and what is left of the bits *)
(* is not looked at.                                                       *)
Bits(s) == FoldLeft(LAMBDA bits, c : bits \o Code[c], << >>, s)
Filled(bits) == bits \o [i \in 1 .. (8 - (Len(bits) % 8)) % 8 |-> 1]
Octet(bits) == FoldLeft(LAMBDA n, bit : 2 * n + bit, 0, bits)
BitsOf(octet) == [i \in 1..8 |-> (octet \div 2^(8 - i)) % 2]

hf_string_encode[s \in Seq(Nat)] ==
  LET bits == Filled(Bits(s))
  IN [k \in 1 .. Len(bits) \div 8 |-> Octet(SubSeq(bits, 8 * k - 7, 8 * k))]

Characters[bits \in Seq({0, 1})] ==
  LET next == {c \in DOMAIN Code : IsPrefix(Code[c], bits)}
  IN IF next = {} THEN << >>
     ELSE LET c == CHOOSE c \in next : TRUE
          IN <<c>> \o Characters[SubSeq(bits, Len(Code[c]) + 1, Len(bits))]

hf_string_decode[octets \in Seq(Nat)] ==
  Characters[FoldLeft(LAMBDA bits, o : bits \o BitsOf(o), << >>, octets)]

encode_string(s) ==
  LET octets == hf_string_encode[s]
  IN Tagged(128, encode_integer(Len(octets), 7)) \o octets

decode_string[b \in Seq(Nat), at \in Nat] ==
  LET length == decode_integer[b, at, 7]
      end == length.next + length.value
      octets == SubSeq(b, length.next, end - 1)
  IN [value |-> IF b[at] >= 128 THEN hf_string_decode[octets] ELSE octets, next |-> end]

-----------------------------------------------------------------------------
(* hpack::parse.  Only here the index of a field without indexing is the   *)
(* four bits of the tag, whatever follows them; and the tag of a change of *)
(* the table's size is an error.                                           *)
Header(type, index, name, value, next) ==
  [type |-> type, index |-> index, name |-> name, value |-> value, next |-> next]

Literal(type, index, b, at) ==
  LET first == decode_string[b, at]
      second == decode_string[b, first.next]
  IN IF index > 0 THEN Header(type, index, Nothing, first.value, first.next)
     ELSE Header(type, 0, first.value, second.value, second.next)

FieldAt[b \in Seq(Nat), at \in Nat] ==
  LET tag == b[at]
      index(n) == decode_integer[b, at, n]
  IN CASE tag >= 128 -> Header("indexed", index(7).value, Nothing, Nothing, index(7).next)
       [] tag \in 64..127 -> Literal("with indexing", index(6).value, b, index(6).next)
       [] tag < 16 -> Literal("without indexing", tag % 16, b, index(4).next)
       [] tag \in 16..31 -> Literal("never indexed", index(4).value, b, index(4).next)
       [] tag \in 32..63 -> Header("error", 0, Nothing, Nothing, Len(b) + 1)

Fields[b \in Seq(Nat), at \in Nat] ==
  IF at > Len(b) THEN << >>
  ELSE LET h == FieldAt[b, at]
       IN IF h.type = "error" THEN <<h>> ELSE <<h>> \o Fields[b, h.next]

parse(b) == Fields[b, 1]

-----------------------------------------------------------------------------
(* TransHttp2ParseHttp1Header: the header of an index, and the table.  An  *)
(* index that is not in it gives no name.                                  *)
Known(table, i) == i \in DOMAIN Static \/ i - Len(Static) \in DOMAIN table
At(table, i) == IF i \in DOMAIN Static THEN Static[i] ELSE table[i - Len(Static)]

Resolved(table, h) ==
  IF h.index > 0 /\ Known(table, h.index)
  THEN LET e == At(table, h.index)
       IN Entry(e.name, IF h.type = "indexed" THEN e.value ELSE h.value)
  ELSE Entry(h.name, h.value)

Given(table, h) ==
  LET e == Resolved(table, h)
  IN IF (h.index > 0 /\ Known(table, h.index)) \/ (e.name # Nothing /\ e.value # Nothing)
     THEN <<e>> ELSE << >>

SlipAtTheEnd(table, h) ==
  IF h.type = "with indexing" /\ Resolved(table, h).name # Nothing
  THEN Append(table, Resolved(table, h)) ELSE table

Insert(table, h) ==
  IF h.type = "with indexing" /\ Resolved(table, h).name # Nothing
  THEN First(<<Resolved(table, h)>> \o table, TableMax)
  ELSE table

TransHttp2ParseHttp1Header(table, headers) ==
  FoldLeft(LAMBDA sofar, h : [table |-> Insert(sofar.table, h),
                              given |-> sofar.given \o Given(sofar.table, h)],
           [table |-> table, given |-> << >>], headers)

-----------------------------------------------------------------------------
(* hpack::build: the first entry with name and value, or else the last one *)
(* with the name, or else both as strings, never to be indexed.            *)
build(h) ==
  LET named == {i \in DOMAIN Static : LowerCase(Static[i].name) = LowerCase(h.name)}
      exact == {i \in named : LowerCase(Static[i].value) = LowerCase(h.value)}
  IN IF exact # {}
     THEN Tagged(128, encode_integer(CHOOSE i \in exact : \A j \in exact : i <= j, 7))
     ELSE IF named # {}
     THEN Tagged(64, encode_integer(CHOOSE i \in named : \A j \in named : j <= i, 6))
          \o encode_string(h.value)
     ELSE Tagged(16, encode_integer(0, 4)) \o encode_string(LowerCase(h.name))
          \o encode_string(h.value)

-----------------------------------------------------------------------------
(* The client: every way of RFC 7541 to write a header, given its table,   *)
(* which it cuts to its size.  What the server is known to misread is left *)
(* out: an index from 15 on without indexing, and a new name with an empty *)
(* value, which is dropped.                                                *)
Kinds == {[type |-> "with indexing", tag |-> 64, bits |-> 6],
          [type |-> "without indexing", tag |-> 0, bits |-> 4],
          [type |-> "never indexed", tag |-> 16, bits |-> 4]}

Strings(s) == {encode_string(s), encode_integer(Len(s), 7) \o s}
Indices(table) == 1 .. Len(Static) + Len(table)

Ways(table, h) ==
  {[inserts |-> FALSE, octets |-> Tagged(128, encode_integer(i, 7))] :
     i \in {j \in Indices(table) : At(table, j) = h}}
  \cup
  UNION {{[inserts |-> k.type = "with indexing",
           octets |-> Tagged(k.tag, encode_integer(i, k.bits)) \o value] :
             i \in {j \in Indices(table) : /\ At(table, j).name = h.name
                                           /\ k.type = "without indexing" => j < 15},
             value \in Strings(h.value)} : k \in Kinds}
  \cup
  {[inserts |-> k.type = "with indexing", octets |-> <<k.tag>> \o name \o value] :
     k \in Kinds, name \in Strings(h.name), value \in IF h.value = Nothing THEN {} ELSE Strings(h.value)}

Kept(table, h, way) == IF way.inserts THEN First(<<h>> \o table, ClientEntries) ELSE table

Read(table, octets) == TransHttp2ParseHttp1Header(table, parse(octets))

(* The tables of the client and the server after up to n headers.          *)
Tables[n \in Nat] ==
  IF n = 0 THEN {<< << >>, << >> >>}
  ELSE Tables[n - 1] \cup
       UNION {{<<Kept(t[1], h, way), Read(t[2], way.octets).table>> : way \in Ways(t[1], h)} :
              t \in Tables[n - 1], h \in Samples}

(* However a client writes its headers, over whatever it has sent before,  *)
(* the server reads those; and two headers in a block as well.             *)
HeadersAgree ==
  /\ \A t \in Tables[Depth], h \in Samples :
       \A way \in Ways(t[1], h) : Read(t[2], way.octets).given = <<h>>
  /\ \A g, h \in Samples : \A w \in Ways(<< >>, g) : \A v \in Ways(Kept(<< >>, g, w), h) :
       Read(<< >>, w.octets \o v.octets).given = <<g, h>>

(* What build makes of an answer's header reads as this header, but for    *)
(* the case of the letters.                                                *)
AnswersAgree ==
  \A h \in Samples : h.value # Nothing =>
    LET read == Read(<< >>, build(h)).given
    IN Len(read) = 1 /\ LowerCase(read[1].name) = LowerCase(h.name)
                     /\ LowerCase(read[1].value) = LowerCase(h.value)

(* Integers come back, at the edges of the prefix and of the groups.       *)
IntegersAgree ==
  \A n \in {4, 6, 7} : \A v \in 0..300 \cup 16370..16530 \cup {2^21 - 1, 2^21, 2^21 + 200} :
    decode_integer[encode_integer(v, n), 1, n] = [value |-> v, next |-> Len(encode_integer(v, n)) + 1]
=============================================================================
