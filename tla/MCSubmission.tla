---------------------------- MODULE MCSubmission ----------------------------
(* Instances of Submission for TLC: an account with up to two devices, a     *)
(* second account, up to three certificates, and the documents below.        *)
EXTENDS Submission, TLC

CONSTANTS a1, a2, d1, d2, c1, c2, c3, p1

Owner == (d1 :> a1) @@ (d2 :> a1)
Owner1 == d1 :> a1
OneCert == c1 :> d1
NotBefore1 == c1 :> 1
\* Device d1 has two certificates of the same second, d2 has one.
ThreeCerts == (c1 :> d1) @@ (c2 :> d2) @@ (c3 :> d1)
NotBefore == (c1 :> 1) @@ (c2 :> 2) @@ (c3 :> 1)

Document(i, p, c, sound, size) ==
  [id |-> i, pid |-> p, cert |-> c, sound |-> sound, size |-> size]

\* Size limits: 1 unit = the verifier's ceiling, 2 = verified tier, 3 = upload.

\* Two sound documents for p1, by different certificates, and an unsound one.
CrossDocs == {Document(1, p1, c1, TRUE, 1), Document(2, p1, c2, TRUE, 1),
              Document(3, p1, c1, FALSE, 1)}
\* Two different signings of one reservation.
TwinDocs == {Document(1, p1, c1, TRUE, 1), Document(2, p1, c1, TRUE, 1)}
\* One document of each size class for p1, and one too large for anything.
SizeDocs == {Document(1, p1, c1, TRUE, 1), Document(2, p1, c1, TRUE, 2),
             Document(3, p1, c1, TRUE, 3), Document(4, p1, c1, TRUE, 4)}

RequestSymmetry == Permutations(Request)
=============================================================================
