------------------------------ MODULE MCHttp2 ------------------------------
(* The connection with small instances of its codings: the static table    *)
(* has the length of the code's, two entries of one name, and one name     *)
(* beyond the indices of four bits; seven characters with codes of the      *)
(* code's table.                                                           *)
EXTENDS Http2Conn, TLC

MCCode == 33 :> <<1,1,1,1,1,1,1,0,0,0>> @@ 58 :> <<1,0,1,1,1,0,0>> @@ 65 :> <<1,0,0,0,0,1>>
          @@ 88 :> <<1,1,1,1,1,1,0,0>> @@ 97 :> <<0,0,0,1,1>> @@ 98 :> <<1,0,0,0,1,1>>
          @@ 120 :> <<1,1,1,1,0,0,1>>
MCLower == 33 :> 33 @@ 58 :> 58 @@ 65 :> 97 @@ 88 :> 120 @@ 97 :> 97 @@ 98 :> 98 @@ 120 :> 120
MCEntry(name, value) == [name |-> name, value |-> value]
MCStatic ==
  [i \in 1..61 |->
     CASE i \in {2, 3} -> MCEntry(<<58, 97>>, <<95 + i>>)
       [] i = 16 -> MCEntry(<<98, 97>>, << >>)
       [] OTHER -> MCEntry([k \in 1..i |-> 33], << >>)]
MCSamples == {MCEntry(<<58, 97>>, <<98>>), MCEntry(<<98, 97>>, <<65, 33>>),
              MCEntry(<<120>>, <<88>>), MCEntry(<<98, 97>>, << >>)}

HP == INSTANCE Hpack WITH Static <- MCStatic, Code <- MCCode, Lower <- MCLower, TableMax <- 4096,
                          Samples <- MCSamples, Depth <- 3, ClientEntries <- 2
WS == INSTANCE WebSocketFrame WITH Lengths <- 0..300 \cup 65500..65600, Octets <- {0, 1, 170, 255},
                                   Longest <- 3
IN2 == INSTANCE Http2Input WITH Preface <- <<80, 82>>, HeaderLen <- 9, Lengths <- {0, 1, 10},
                                Most <- 3, Initial <- 2147483647, Sizes <- {0, 1, 16384}, Data <- 4
TX == INSTANCE Texts WITH Longest <- 4, Octets <- {0, 32, 43, 255}, Names <- {<<97>>, <<98, 32, 98>>},
                          Values <- {<< >>, <<32, 61>>, <<37, 65>>, <<200>>, <<200, 201, 59>>}, Most <- 2

(* What one side writes the other reads: integers, strings and headers     *)
(* over the tables of both, the answers' headers, WebSocket's frames, and  *)
(* the texts that a request, once read, is made of.                        *)
(* Each frame that is received relies on it; it is of the constants, and   *)
(* TLC evaluates it once.                                                  *)
Codings == HP!IntegersAgree /\ HP!HeadersAgree /\ HP!AnswersAgree /\ WS!FramesAgree
           /\ IN2!PiecesAgree /\ IN2!WindowsAgree /\ TX!TextsAgree

CodingsAgree == [][frames' > frames => Codings]_vars
=============================================================================
