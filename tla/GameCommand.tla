---------------------------- MODULE GameCommand ----------------------------
(***************************************************************************)
(* What the worker may rely on when it sends a command to the game server: *)
(* one call at a time; the command is carried out while its call is under  *)
(* way or not at all, twice at most; success means that it was carried     *)
(* out; an error says nothing.                                             *)
(***************************************************************************)
EXTENDS Naturals

VARIABLES busy,     \* a call is under way
          number,   \* calls so far
          times,    \* how often the command of the last call was carried out
          result    \* of the last call that returned: "none", "ok", "error"

cvars == <<busy, number, times, result>>

Init == busy = FALSE /\ number = 0 /\ times = 0 /\ result = "none"

Begin == /\ ~busy
         /\ busy' = TRUE /\ number' = number + 1 /\ times' = 0
         /\ UNCHANGED result

CarryOut == /\ busy /\ times < 2
            /\ times' = times + 1
            /\ UNCHANGED <<busy, number, result>>

Succeed == /\ busy /\ times > 0
           /\ busy' = FALSE /\ result' = "ok"
           /\ UNCHANGED <<number, times>>

Fail == /\ busy
        /\ busy' = FALSE /\ result' = "error"
        /\ UNCHANGED <<number, times>>

Next == Begin \/ CarryOut \/ Succeed \/ Fail

Spec == Init /\ [][Next]_cvars
=============================================================================
