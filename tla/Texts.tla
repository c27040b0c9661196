------------------------------- MODULE Texts -------------------------------
(***************************************************************************)
(* What the program reads out of texts, as functions: the fields of a      *)
(* line, the patterns of permitted and rejected addresses, base64, the     *)
(* encoding of variables, the variables of a request, the lines in which   *)
(* variables are saved, and the parts of a form.                           *)
(*                                                                         *)
(* A text is a sequence of characters, and these are their codes.  Texts   *)
(* with a zero in them are left out, a percent sign without two digits,    *)
(* and what formdata compares behind the end of its buffer.                *)
(***************************************************************************)
EXTENDS Integers, Sequences, SequencesExt

CONSTANTS
  Longest, \* bound: characters of a text
  Octets,  \* bound: the octets that are coded
  Names,   \* bound: names of variables
  Values,  \* bound: what a variable is set to
  Most     \* bound: variables at a time

Char == [eq |-> 61, semi |-> 59, amp |-> 38, dot |-> 46, star |-> 42, any |-> 63, zero |-> 48,
         percent |-> 37, plus |-> 43, u |-> 117, quote |-> 34,
         space |-> 32, tab |-> 9, cr |-> 13, lf |-> 10]
Blank == {Char.space, Char.cr, Char.lf, Char.tab}
NULL == << >>

-----------------------------------------------------------------------------
(* The first place of d in t from a place on, or npos.                     *)
npos == 0
Least(places) == IF places = {} THEN npos ELSE CHOOSE i \in places : \A j \in places : i <= j
find(t, d, from) ==
  Least({i \in from .. Len(t) - Len(d) + 1 : SubSeq(t, i, i + Len(d) - 1) = d})

(* What begins at a place, up to another or, if that is npos, the end.     *)
Rest(t, n) == SubSeq(t, n + 1, Len(t))
substr(t, first, end) == SubSeq(t, first, IF end = npos THEN Len(t) ELSE end - 1)

(* What is between begstring and endstring; NULL stands for the ends of t. *)
strcut(t, begstring, endstring) ==
  LET ops1 == find(t, begstring, 1)
      first == IF ops1 = npos THEN Len(t) + 1 ELSE ops1 + Len(begstring)
  IN substr(t, first, IF endstring = NULL THEN npos ELSE find(t, endstring, first))

(* Behind begstring, what is neither of the one set nor behind the other.  *)
fnfy_strcut(t, begstring, notbegset, endset) ==
  LET ops0 == find(t, begstring, 1)
      ops1 == Least({i \in ops0 + Len(begstring) .. Len(t) : t[i] \notin notbegset})
  IN IF npos \in {ops0, ops1} THEN << >>
     ELSE substr(t, ops1, Least({i \in ops1 .. Len(t) : t[i] \in endset}))

Stripped(t, blank) ==
  LET first == Least({i \in DOMAIN t : t[i] \notin blank})
  IN IF first = npos THEN << >> ELSE SubSeq(t, first, Len(t))

strtrim(t) == Reverse(Stripped(Reverse(Stripped(t, Blank)), Blank))

(* The pieces between separators; empty ones are left out where asked.     *)
vSplitString(t, separators, emptyignore) ==
  LET Put(pieces, c) == IF c \in separators THEN Append(pieces, << >>)
                        ELSE [pieces EXCEPT ![Len(pieces)] = Append(@, c)]
  IN IF t = << >> THEN << >>
     ELSE SelectSeq(FoldLeft(Put, << << >> >>, t), LAMBDA p : ~emptyignore \/ p # << >>)

get_extend_name(t) ==
  LET pieces == vSplitString(t, {Char.dot}, FALSE)
  IN IF Len(pieces) > 1 THEN Last(pieces) ELSE << >>

(* The two sides of a separator; nothing where there is none.              *)
memsplit2str(t, sep) ==
  LET x == find(t, sep, 1)
  IN IF x = npos THEN << NULL, NULL >>
     ELSE << SubSeq(t, 1, x - 1), SubSeq(t, x + Len(sep), Len(t)) >>

-----------------------------------------------------------------------------
(* strmatch: what is left of the pattern and of the text is compared along *)
(* each other or, behind a star, the next character is sought.  While it   *)
(* seeks, back has the pattern behind the star; after that, the text from  *)
(* which the search may be taken up again, too.  A question mark behind    *)
(* the end reads what is there, and may match or not; where it compares,   *)
(* it does not stand for the character 0.                                  *)
Match[pattern \in Seq(Nat), t \in Seq(Nat), back \in Seq(Seq(Nat))] ==
  LET seeks == Len(back) = 1
      next == IF pattern = << >> THEN npos ELSE Head(pattern)
      i == find(t, <<next>>, 1)
      again == IF back = NULL THEN {FALSE} ELSE Match[back[1], back[2], <<back[1]>>]
  IN CASE pattern = << >> -> IF seeks \/ t = << >> THEN {TRUE} ELSE again
       [] next = Char.star -> Match[Tail(pattern), t, <<Tail(pattern)>>]
       [] next = Char.any ->
            CASE t = << >> -> IF seeks THEN {FALSE} ELSE BOOLEAN
              [] t # << >> /\ Head(t) = Char.zero /\ ~seeks -> {FALSE}
              [] OTHER -> Match[Tail(pattern), Tail(t), back]
       [] OTHER ->
            CASE seeks /\ i # npos -> Match[Tail(pattern), Rest(t, i), <<back[1], Rest(t, i)>>]
              [] ~seeks /\ i = 1   -> Match[Tail(pattern), Tail(t), back]
              [] ~seeks /\ i # 1 /\ t # << >> -> again
              [] OTHER -> {FALSE}

strmatch(pattern, t) == Match[pattern, t, NULL]

-----------------------------------------------------------------------------
(* CBase64.                                                                *)
Letter(v) == CASE v < 26 -> 65 + v [] v \in 26..51 -> 71 + v [] v \in 52..61 -> v - 4
               [] v = 62 -> 43 [] v = 63 -> 47 [] OTHER -> Char.eq
ENCODE_OUTPUT_MAX_LEN(n) == IF n < 4 THEN 5 ELSE (n \div 3) * 4 + (IF n % 3 = 0 THEN 0 ELSE 4) + 1
DECODE_OUTPUT_MAX_LEN(n) == IF n <= 4 THEN 5 ELSE (n \div 4) * 3 + 1

Encode(data) ==
  LET Val(i) == IF i <= Len(data) THEN data[i] ELSE 0
      Three(i) == 65536 * Val(i + 1) + 256 * Val(i + 2) + Val(i + 3)
  IN [k \in 1 .. 4 * ((Len(data) + 2) \div 3) |->
        LET i == 3 * ((k - 1) \div 4)
            j == (k - 1) % 4
        IN Letter(IF i + j > Len(data) THEN 64 ELSE (Three(i) \div 64^(3 - j)) % 64)]

(* Characters that are no letters are passed over; accum has the bits that *)
(* are not yet put out.  It ends where the output is full.                 *)
Decode(data, outlen) ==
  LET Put(d, c) ==
        LET value == {v \in 0..63 : Letter(v) = c}
            accum == 64 * d.accum + (CHOOSE v \in value : TRUE)
            shift == d.shift + 6
        IN CASE d.full \/ value = {} -> d
             [] shift < 8 -> [d EXCEPT !.accum = accum, !.shift = shift]
             [] OTHER -> [out |-> Append(d.out, accum \div 2^(shift - 8)),
                          accum |-> accum % 2^(shift - 8), shift |-> shift - 8,
                          full |-> Len(d.out) + 1 >= outlen]
  IN FoldLeft(Put, [out |-> << >>, accum |-> 0, shift |-> 0, full |-> FALSE], data)

-----------------------------------------------------------------------------
(* NIU_URLFORMAT_ENCODE, _DECODE on a machine with the low octet first:    *)
(* octets from 0x80 on are coded in twos, the last of them with a zero.    *)
Plain == 48..57 \cup 65..90 \cup 97..122 \cup {45, 95, 46, 33, 126, 42, 92, 40, 41}
Hex(n) == LET Digit(d) == IF d < 10 THEN 48 + d ELSE 55 + d
          IN << Digit(n \div 16), Digit(n % 16) >>
Unhex(digits) == CHOOSE n \in 0..255 : Hex(n) = digits

URLFORMAT_ENCODE[t \in Seq(1..255)] ==
  CASE t = << >> -> << >>
    [] t # << >> /\ Head(t) = Char.space -> <<Char.plus>> \o URLFORMAT_ENCODE[Tail(t)]
    [] t # << >> /\ Head(t) \in Plain -> <<Head(t)>> \o URLFORMAT_ENCODE[Tail(t)]
    [] t # << >> /\ Head(t) \in 128..255 ->
         <<Char.percent, Char.u>> \o Hex(IF Len(t) = 1 THEN 0 ELSE t[2]) \o Hex(Head(t))
                                  \o URLFORMAT_ENCODE[Rest(t, 2)]
    [] OTHER -> <<Char.percent>> \o Hex(Head(t)) \o URLFORMAT_ENCODE[Tail(t)]

URLFORMAT_DECODE[t \in Seq(1..255)] ==
  CASE t = << >> -> << >>
    [] t # << >> /\ Head(t) = Char.plus -> <<Char.space>> \o URLFORMAT_DECODE[Tail(t)]
    [] Len(t) > 1 /\ Head(t) = Char.percent /\ t[2] = Char.u ->
         <<Unhex(SubSeq(t, 5, 6)), Unhex(SubSeq(t, 3, 4))>> \o URLFORMAT_DECODE[Rest(t, 6)]
    [] Len(t) > 1 /\ Head(t) = Char.percent /\ t[2] # Char.u ->
         <<Unhex(SubSeq(t, 2, 3))>> \o URLFORMAT_DECODE[Rest(t, 3)]
    [] OTHER -> <<Head(t)>> \o URLFORMAT_DECODE[Tail(t)]

-----------------------------------------------------------------------------
(* _strtrim_: one kind of blanks after another, and again while there were *)
(* spaces (in front) or any of them (at the end).                          *)
Kinds == << {Char.space}, {Char.tab}, {Char.cr}, {Char.lf} >>
InFront[t \in Seq(1..255)] ==
  LET once == FoldLeft(Stripped, t, Kinds)
  IN IF Stripped(t, Kinds[1]) \in {t, << >>} THEN once ELSE InFront[once]
AtEnd[t \in Seq(1..255)] ==
  LET Strip(s, kind) == IF ToSet(s) \subseteq kind THEN s ELSE Reverse(Stripped(Reverse(s), kind))
      once == FoldLeft(Strip, t, Kinds)
  IN IF once = t THEN t ELSE AtEnd[once]
_strtrim_(t) == AtEnd[InFront[t]]

(* NIU_POST_GET_VARS and NIU_COOKIE_VARS: a variable ends with a separator *)
(* and with the text.  What value2 has stays there for one without a value.*)
Put(map, key, value) == [k \in DOMAIN map \cup {key} |-> IF k = key THEN value ELSE map[k]]
Variables(data, separator, decoded) ==
  LET Ended(v) ==
        LET key == _strtrim_(v.key)
            value2 == IF ~decoded THEN v.value
                      ELSE IF v.value = << >> THEN v.value2 ELSE URLFORMAT_DECODE[v.value]
        IN IF key = << >> THEN [v EXCEPT !.key = << >>, !.where = "key"]
           ELSE [key |-> << >>, value |-> << >>, value2 |-> value2, where |-> "key",
                 map |-> Put(v.map, key, value2)]
      Read(v, c) == CASE c = separator -> Ended(v)
                      [] c = Char.eq -> [v EXCEPT !.where = "value"]
                      [] OTHER -> [v EXCEPT ![v.where] = Append(@, c)]
      none == [key |-> << >>, value |-> << >>, value2 |-> << >>, where |-> "key",
               map |-> [k \in {} |-> << >>]]
  IN Ended(FoldLeft(Read, none, data)).map
POST_GET_VARS(data) == Variables(data, Char.amp, TRUE)
COOKIE_VARS(data) == Variables(data, Char.semi, FALSE)

(* The line of a saved variable: its fields, and the variable behind as    *)
(* many fields of a line as there are before.                              *)
SavedLine(fields, name, value) ==
  FoldLeft(LAMBDA line, f : line \o f \o <<Char.semi>>, << >>, fields) \o name \o <<Char.eq>> \o value

ReadLine(line, before) ==
  LET vVars == vSplitString(line, {Char.semi}, TRUE)
      strField == [i \in DOMAIN vVars |-> strtrim(vVars[i])]
  IN [fields |-> SubSeq(strField, 1, before),
      name   |-> strtrim(strcut(strField[before + 1], NULL, <<Char.eq>>)),
      value  |-> strtrim(strcut(strField[before + 1], <<Char.eq>>, NULL))]

-----------------------------------------------------------------------------
(* formdata: the parts between lines of the boundary.                      *)
Line == << Char.cr, Char.lf >>
Dashes == <<45, 45>>
Parts == [header : Nat \X Nat, data : Nat \X Int]

formdata(t, boundary) ==
  LET sboundary == Dashes \o boundary \o Line
      eboundary == Dashes \o boundary \o Dashes \o Line
      Here(d, x) == SubSeq(t, x, x + Len(d) - 1) = d
      From[x \in Nat, part \in Parts, isHeader \in BOOLEAN] ==
        LET ended == [part EXCEPT !.data[2] = x - 3]
            begun == [ended EXCEPT !.header[1] = x + Len(sboundary)]
            headed == [part EXCEPT !.header[2] = x - 1, !.data[1] = x + 4]
        IN CASE x > Len(t) -> << >>
             [] x = 1 /\ Here(sboundary, x) ->
                  From[1 + Len(sboundary), [part EXCEPT !.header[1] = 1 + Len(sboundary)], TRUE]
             [] x \in 2..Len(t) /\ Here(sboundary, x) -> <<ended>> \o From[x + Len(sboundary), begun, TRUE]
             [] x \in 1..Len(t) /\ Here(eboundary, x) -> <<ended>>
             [] x \in 1..Len(t) /\ isHeader /\ Here(Line \o Line, x) -> From[x + 4, headed, FALSE]
             [] OTHER -> From[x + 1, part, isHeader]
  IN From[1, [header |-> <<1, 1>>, data |-> <<1, 1>>], FALSE]

(* parse_multipart_formdata: the data of the first part that has the name. *)
NameIs == <<110, 97, 109, 101, Char.eq>>
PartName(lines) ==
  LET names == [i \in 1..4 |-> fnfy_strcut(lines, << <<Char.space>>, <<Char.tab>>, <<Char.semi>>, << >> >>[i] \o NameIs,
                                           Blank \cup {Char.quote}, {Char.cr, Char.lf, Char.quote, Char.semi})]
      found == Least({i \in 1..4 : names[i] # << >>})
  IN IF found = npos THEN << >> ELSE names[found]
parse_multipart_formdata(t, boundary, name) ==
  LET parts == formdata(t, boundary)
      Of(part, range) == SubSeq(t, part[range][1], part[range][2])
      x == Least({i \in DOMAIN parts : PartName(Of(parts[i], "header")) = name})
  IN IF x = npos THEN NULL ELSE Of(parts[x], "data")

-----------------------------------------------------------------------------
(* What the functions are for.                                             *)

Texts(chars) == BoundedSeq(chars, Longest)
Within(d, t) == find(t, d, 1) # npos

(* A cut is the text between the first begstring and the next endstring:   *)
(* nothing without the one, all the rest without the other; the two sides  *)
(* of a separator are the text.                                            *)
CutsAgree ==
  \A t \in Texts({1, 2}), b, e \in {<<1>>, <<2>>, <<1, 1>>, <<1, 2>>} :
    LET r == strcut(t, b, e)
        two == memsplit2str(t, b)
    IN /\ IF ~Within(b, t) THEN r = << >>
          ELSE \E k \in 0 .. Len(t) - Len(b) :
                 LET before == SubSeq(t, 1, k)
                     after == SubSeq(t, k + Len(b) + Len(r) + 1, Len(t))
                 IN /\ before \o b \o r \o after = t /\ ~Within(b, before \o Front(b))
                    /\ IF after = << >> THEN ~Within(e, r)
                       ELSE IsPrefix(e, after) /\ ~Within(e, r \o Front(e))
       /\ Within(b, t) => two[1] \o b \o two[2] = t /\ two[1] = strcut(t, NULL, b)
                          /\ two[2] = strcut(t, b, NULL)

(* The pieces, with separators between them, are the text.                 *)
SplitsAgree ==
  \A t \in Texts({Char.dot, Char.space, 97}) \ {<< >>} :
    LET pieces == vSplitString(t, {Char.dot}, FALSE)
        Joined(s, p) == s \o <<Char.dot>> \o p
    IN /\ FoldLeft(Joined, Head(pieces), Tail(pieces)) = t
       /\ \A i \in DOMAIN pieces : Char.dot \notin ToSet(pieces[i])
       /\ vSplitString(t, {Char.dot}, TRUE) = SelectSeq(pieces, LAMBDA p : p # << >>)
       /\ Char.dot \notin ToSet(get_extend_name(t)) /\ IsSuffix(get_extend_name(t), t)
       /\ Within(<<Char.dot>>, t) => IsSuffix(<<Char.dot>> \o get_extend_name(t), t)
       /\ \E i, j \in 0..Len(t) : /\ strtrim(t) = SubSeq(t, i + 1, j)
                                  /\ ToSet(SubSeq(t, 1, i) \o SubSeq(t, j + 1, Len(t))) \subseteq Blank
       /\ strtrim(t) # << >> => {Head(strtrim(t)), Last(strtrim(t))} \cap Blank = {}

(* A text matches a pattern if the stars can be replaced by texts, and the *)
(* question marks by characters, so that it is the text: as long as there  *)
(* is no question mark; one right behind a star may miss, as one for a 0.  *)
Matches[pattern \in Seq(Nat), t \in Seq(Nat)] ==
  IF pattern = << >> THEN t = << >>
  ELSE IF Head(pattern) = Char.star THEN \E k \in 0..Len(t) : Matches[Tail(pattern), Rest(t, k)]
  ELSE t # << >> /\ Head(pattern) \in {Char.any, Head(t)} /\ Matches[Tail(pattern), Tail(t)]

PatternsAgree ==
  \A pattern \in Texts({Char.star, Char.any, 49, 50}), t \in Texts({Char.zero, 49, 50}) :
    /\ strmatch(pattern, t) = {TRUE} => Matches[pattern, t]
    /\ strmatch(pattern, t) = {FALSE} /\ Matches[pattern, t] =>
         \/ Within(<<Char.star, Char.any>>, pattern)
         \/ Char.any \in ToSet(pattern) /\ Char.zero \in ToSet(t)
    /\ strmatch(pattern, t) = BOOLEAN => Char.any \in ToSet(pattern)

(* What is coded is read again: octets in base64, with the buffers their   *)
(* lengths are computed for, and texts, but for a zero behind an odd octet *)
(* at the end.                                                             *)
Same(value, text) ==
  value = text \/ (text # << >> /\ Last(text) > 127 /\ value = Append(text, 0))
CodesAgree ==
  \A t \in Texts(Octets) :
    LET code == Encode(t)
        read == Decode(code, DECODE_OUTPUT_MAX_LEN(Len(code)))
    IN /\ Len(code) < ENCODE_OUTPUT_MAX_LEN(Len(t))
       /\ read.out = t /\ ~read.full
       /\ 0 \notin ToSet(t) => Same(URLFORMAT_DECODE[URLFORMAT_ENCODE[t]], t)

(* A request's variables have the values the client wrote, the last where  *)
(* a name comes twice; one written without a value has that of the one     *)
(* before it.  Cookies come back as they were set, in code.  A variable is *)
(* read from its line as it was saved.                                     *)
Writings == UNION {[1..n -> Names \X Values] : n \in 1..Most}
Written(pairs, i) ==
  LET j == {k \in 1..i : pairs[k][2] # << >>}
  IN IF j = {} THEN << >> ELSE pairs[CHOOSE k \in j : \A m \in j : m <= k][2]
VariablesAgree ==
  /\ \A pairs \in Writings :
       LET Query(s, p) == s \o p[1] \o <<Char.eq>> \o URLFORMAT_ENCODE[p[2]] \o <<Char.amp>>
           Cookies(s, p) == s \o p[1] \o <<Char.eq>> \o URLFORMAT_ENCODE[p[2]] \o <<Char.semi, Char.space>>
           vars == POST_GET_VARS(FoldLeft(Query, << >>, pairs))
           cookies == COOKIE_VARS(FoldLeft(Cookies, << >>, pairs))
           named == {pairs[i][1] : i \in DOMAIN pairs}
       IN /\ DOMAIN vars = named /\ DOMAIN cookies = named
          /\ \A i \in DOMAIN pairs :
               (\A k \in i + 1 .. Len(pairs) : pairs[k][1] # pairs[i][1]) =>
                 /\ Same(vars[pairs[i][1]], Written(pairs, i))
                 /\ cookies[pairs[i][1]] = URLFORMAT_ENCODE[pairs[i][2]]
  /\ \A name \in Names, value \in Values, fields \in {<< <<49>>, <<50>> >>, << <<97>>, <<49>>, <<50>> >>} :
       LET read == ReadLine(SavedLine(fields, name, URLFORMAT_ENCODE[value]), Len(fields))
       IN /\ read.fields = fields /\ read.name = name
          /\ Same(URLFORMAT_DECODE[read.value], value)

(* A form gives each name the value the client sent with it, of whatever   *)
(* lines, whether the name comes before or after that of a file.           *)
FormsAgree ==
  LET file == <<102, 105, 108, 101>> \o NameIs \o <<Char.quote, 120, Char.quote>>
      Named(n) == NameIs \o <<Char.quote, n, Char.quote>>
      Headers(n) == {<<Char.semi, Char.space>> \o Named(n), <<Char.semi>> \o Named(n) \o <<Char.semi>> \o file,
                     <<Char.semi>> \o file \o <<Char.semi>> \o Named(n),
                     <<Char.space>> \o file \o <<Char.semi, Char.space>> \o Named(n)}
      boundary == <<98>>
      start == Dashes \o boundary \o Line
      Field(lines, data) == lines \o Line \o Line \o data \o Line
      Data == {<< >>, <<45>>, <<45, 45>>, Line, <<Char.lf, 45>>, Line \o Line}
  IN \A h1 \in Headers(49), h2 \in Headers(50), d1, d2 \in Data :
       LET t == start \o Field(h1, d1) \o start \o Field(h2, d2) \o Dashes \o boundary \o Dashes \o Line
       IN /\ parse_multipart_formdata(t, boundary, <<49>>) = d1
          /\ parse_multipart_formdata(t, boundary, <<50>>) = d2
          /\ parse_multipart_formdata(t, boundary, <<51>>) = NULL

TextsAgree ==
  CutsAgree /\ SplitsAgree /\ PatternsAgree /\ CodesAgree /\ VariablesAgree /\ FormsAgree
=============================================================================
