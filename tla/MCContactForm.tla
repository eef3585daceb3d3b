--------------------------- MODULE MCContactForm ---------------------------
(* A small instance of ContactForm for TLC.                                *)
EXTENDS ContactForm, TLC

CONSTANTS a1, a2, v1, r1, r2

\* A visitor who sends twice, from one address or two.
OneSender == (r1 :> v1) @@ (r2 :> v1)

\* Addresses are alike, and so are the submissions.
Alike == Permutations({a1, a2}) \cup Permutations({r1, r2})
=============================================================================
