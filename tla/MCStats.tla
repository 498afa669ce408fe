------------------------------ MODULE MCStats ------------------------------
\* Two applicants for RealTimeStats: one in a group of his own, one who took
\* the form's second option, which it sends as "Female".
EXTENDS RealTimeStats, TLC

CONSTANTS r1, r2

Symmetry == Permutations(Handlers)

MCGender == r1 :> "male" @@ r2 :> "Female"
MCAge == r1 :> 14 @@ r2 :> 45
=============================================================================
