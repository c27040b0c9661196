------------------------------ MODULE MCProxy ------------------------------
(* Proxy for TLC: of two sessions the second sends one request. *)
EXTENDS Proxy, TLC

CONSTANTS s1, s2

MCRequests == s1 :> <<1, 2>> @@ s2 :> <<1>>
MCAddrs == <<"first", "backup">>
MCKinds == 1 :> {"cached"} @@ 2 :> {"cached", "chunked"}
MCSize == 1 :> 2 @@ 2 :> 1
=============================================================================
