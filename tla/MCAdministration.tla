-------------------------- MODULE MCAdministration --------------------------
(* Instances of Administration for TLC. *)
EXTENDS Administration, TLC

CONSTANTS p1, p2, su, op, w1

\* Two processes, one of them with another name and a password of its own.
Usernames == (p1 :> su) @@ (p2 :> op)
Passwords == (p1 :> None) @@ (p2 :> w1)
=============================================================================
