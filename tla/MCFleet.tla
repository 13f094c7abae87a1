------------------------------- MODULE MCFleet -------------------------------
(* Callers that share fewer IDs than they make calls, for TLC.             *)
EXTENDS Fleet

CONSTANTS r1, r2, r3, x1, x2

\* A WhoIs without a range: a cfg cannot write the negative NoLimit.
Unlimited == NoLimit

ThreeTicks == [w |-> << {r1}, {r2}, {r3} >>]
TwoWrites  == [d |-> {x1, x2}]

OneTick  == [w |-> << {r1} >>]
OneWrite == [d |-> {x1}]
=============================================================================
