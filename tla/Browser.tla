------------------------------- MODULE Browser -------------------------------
(***************************************************************************)
(* A browser tab: the address it shows and the HTTP calls it has under     *)
(* way.  A call is sent; the server works on it, in several steps where it *)
(* reads and then writes; its answer arrives, or a network error; then the *)
(* callbacks of its promise run.  Each of these is a step, so that answers *)
(* come in any order.  A page that is left takes its callbacks along, but  *)
(* what it asked the server to write is written all the same.              *)
(***************************************************************************)
EXTENDS Integers, FiniteSets

CONSTANT MaxCalls      \* bound: calls under way at a time

ASSUME CallsAssumption == MaxCalls \in Nat \ {0}

VARIABLES page,        \* what App.js routes on: path, :id and ?adm=
          calls        \* by slot: the calls under way

Slots == 1 .. MaxCalls
Free == [at |-> "free"]
NoCalls == [n \in Slots |-> Free]

\* A call to write (POST, PATCH), and one to read.
Writes == {"create", "decide", "patch"}
Reads == {"skin", "qr", "recaptcha", "verify", "get", "list", "login"}

Call(kind, of) ==
    [at |-> "sent", kind |-> kind, of |-> of, res |-> "", waited |-> TRUE]

Room(c, n) == Cardinality({s \in Slots : c[s] = Free}) >= n

\* axios.get, axios.post, axios.patch; which slot is free does not matter.
With(c, call) == [c EXCEPT ![CHOOSE s \in Slots : c[s] = Free] = call]

\* The calls that are left when the document is unloaded.
Abandoned(c) ==
    [n \in Slots |->
       IF c[n].at \in {"free", "done"} THEN Free
       ELSE IF c[n].kind \in Writes THEN [c[n] EXCEPT !.waited = FALSE] ELSE Free]

Asked(n, kind) == calls[n].at = "sent" /\ calls[n].kind = kind
AtStage(n, stage) == calls[n].at = stage
Answered(n, kind) == calls[n].at = "done" /\ calls[n].kind = kind
UnderWay(kinds) == {n \in Slots : calls[n].at # "free" /\ calls[n].kind \in kinds}

\* A server step in the middle of a handler; the end of a handler.
Proceed(n, stage) == calls' = [calls EXCEPT ![n].at = stage]
Respond(n, res) ==
    calls' = [calls EXCEPT ![n] =
                IF @.waited THEN [@ EXCEPT !.at = "done", !.res = res] ELSE Free]

\* The request does not reach the server, or the answer does not come back.
NetworkError(n) ==
    /\ calls[n].at \in {"sent", "done"}
    /\ calls[n].res # "network"
    /\ Respond(n, "network")

\* handleVerifyRecaptcha; an error of Google's is a 500.
RespondCaptcha(n) ==
    /\ Asked(n, "recaptcha")
    /\ \E res \in {"success", "failure", "500"} : Respond(n, res)

\* A callback that makes no further call, and one that does.
Settle(n) == calls' = [calls EXCEPT ![n] = Free]
Then(n, call) == calls' = [calls EXCEPT ![n] = call]
=============================================================================
