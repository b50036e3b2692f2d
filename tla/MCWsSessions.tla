---------------------------- MODULE MCWsSessions ----------------------------
(* One socket, whose token may pass to another user. *)
EXTENDS WsSessions, TLC

CONSTANTS k1, s1, ann, bob

OneSession == k1 :> s1
Owner == s1 :> ann
=============================================================================
