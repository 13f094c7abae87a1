------------------------------ MODULE MCClient ------------------------------
(* The client on small instances.                                          *)
EXTENDS Client, TLC

\* A WhoIs without a range: a cfg cannot write the negative NoLimit.
Unlimited == NoLimit

\* Handlers are interchangeable, and so are the reads.
Symmetry == Permutations(Handlers) \cup Permutations(Reads)
=============================================================================
