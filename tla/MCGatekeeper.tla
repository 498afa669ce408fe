----------------------------- MODULE MCGatekeeper -----------------------------
(* Gatekeeper on small sets of model values, for TLC.  The sets are          *)
(* interchangeable, so every run of a safety property uses the symmetry.     *)
EXTENDS Gatekeeper, TLC

Symmetry == Permutations(ReqIds) \cup Permutations(Usernames)
            \cup Permutations(Ops) \cup Permutations(Handlers)
=============================================================================
