-------------------------- MODULE MCSessionGroup --------------------------
(* SessionGroup for TLC: two clients, one of which may ask twice. *)
EXTENDS SessionGroup, TLC

CONSTANTS c1, c2

MCRequests == c1 :> 2 @@ c2 :> 1
=============================================================================
