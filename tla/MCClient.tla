------------------------------ MODULE MCClient -------------------------------
(* Instances of Client for TLC. *)
EXTENDS Client, TLC

Unsigned(size) == [size |-> size, signatures |-> <<>>]

\* A document that is signed and verified as it is, but over the ceiling once it
\* is stamped and signed, and one that is signed already.
Documents == {Unsigned(2), SignPDF(Unsigned(1), <<Intermediate(1)>>)}
=============================================================================
