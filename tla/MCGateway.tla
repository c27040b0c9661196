----------------------------- MODULE MCGateway -----------------------------
(* Gateway for TLC: what each of two sessions may ask for. *)
EXTENDS Gateway, TLC

CONSTANTS s1, s2

MCAsks == s1 :> {"fork", "fcgi"} @@ s2 :> {"fork", "scgi", "plain"}
=============================================================================
