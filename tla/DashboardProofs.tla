--------------------------- MODULE DashboardProofs ---------------------------
(***************************************************************************)
(* Proofs about Dashboard, for any number of requests, of calls under way   *)
(* and of steps elsewhere.                                                 *)
(***************************************************************************)
EXTENDS Dashboard, TLAPS, FiniteSetTheorems

-----------------------------------------------------------------------------
(* The inductive invariant                                                 *)

Results == {"", "200", "error", "success", "failure", "500"}
AnyTok == Tokens \ {NoTok}
Rows == [ReqIds -> Statuses]
Actions == {"Deactivated", "Banned"}

\* The calls there are: to sign in, for the list, and to decide.
ListOf == [live : BOOLEAN, auth : AnyTok, rows : RowsSets]
PatchOf == [live : BOOLEAN, auth : AnyTok, id : ReqIds, status : Statuses \ {"Pending"}]
SimpleCalls == [at : {"sent", "done"}, kind : {"recaptcha", "login"}, of : {<<>>},
                res : Results, waited : {TRUE}]
ListCalls == [at : {"sent", "done"}, kind : {"list"}, of : ListOf,
              res : Results, waited : {TRUE}]
PatchCalls == [at : {"sent", "update", "done"}, kind : {"patch"}, of : PatchOf,
               res : Results, waited : BOOLEAN]
AnyCall == {Free} \cup SimpleCalls \cup ListCalls
             \cup {x \in PatchCalls : x.of.live => x.waited}

CallTypes == calls \in [Slots -> AnyCall]

ServerTypes ==
    /\ requests \in [ReqIds -> Documents]
    /\ cached \in RowsSets
    /\ others \in 0 .. MaxOthers /\ been \subseteq ReqIds \X Statuses

TabTypes ==
    /\ page \in {SignIn, Board} /\ token \in Tokens
    /\ tab \in [view : {"login", "landing", "metrics"}, auth : Tokens, rows : RowsSets,
                dialog : {NoDialog} \cup (ReqIds \X Actions), captcha : BOOLEAN]
    /\ clicks \in 0 .. MaxDecisions /\ sources \in Nat

\* What is shown at which address, and to whom.
TabShape ==
    /\ page = SignIn <=> tab.view = "login"
    /\ tab.auth # NoTok <=> tab.view = "landing"
    /\ tab.rows # NoRows => tab.view = "landing"
    /\ tab.dialog # NoDialog => tab.rows # NoRows

\* A call whose callback finds its component mounted.
IsLive(x, kind) == x.at # "free" /\ x.kind = kind /\ x.of.live
LiveFor(x, id) == IsLive(x, "patch") /\ x.of.id = id
Loading == tab.view = "landing" /\ tab.rows = NoRows

LiveLists ==
    /\ \A n \in Slots : IsLive(calls[n], "list") => Loading
    /\ \A n, m \in Slots : IsLive(calls[n], "list") /\ IsLive(calls[m], "list") => n = m
    /\ Loading => \E n \in Slots : IsLive(calls[n], "list")

LivePatchCalls ==
    /\ \A n \in Slots : IsLive(calls[n], "patch") => tab.rows # NoRows
    /\ \A id \in ReqIds \ overlapping : \A n, m \in Slots :
          LiveFor(calls[n], id) /\ LiveFor(calls[m], id) => n = m

\* No list and no answer holds a status that was never stored.
Were(rows) == rows # NoRows => \A id \in ReqIds : <<id, rows[id]>> \in been
Truthful(x) ==
    x.at # "free" =>
       /\ x.kind = "list" => Were(x.of.rows) /\ (x.res = "200" => x.of.rows # NoRows)
       /\ x.kind = "patch" /\ x.res = "200" => <<x.of.id, x.of.status>> \in been
AllWere ==
    /\ \A id \in ReqIds : <<id, requests[id].status>> \in been
    /\ Were(cached) /\ Were(tab.rows)
    /\ \A n \in Slots : Truthful(calls[n])

\* What was stored last from here is in the row, or on its way to it.
Agrees(id) ==
    /\ tab.rows # NoRows
    /\ (\A n \in Slots : ~LiveFor(calls[n], id)) => tab.rows[id] = requests[id].status
    /\ \A n \in Slots : LiveFor(calls[n], id) =>
          \/ /\ calls[n].at = "done" /\ calls[n].res = "200"
             /\ calls[n].of.status = requests[id].status
          \/ calls[n].at # "done" /\ tab.rows[id] = requests[id].status
Agree == /\ lastWord \subseteq ReqIds
         /\ \A id \in lastWord \ overlapping : Agrees(id)

Inv == /\ CallTypes /\ ServerTypes /\ TabTypes
       /\ TabShape /\ SourcesMatch /\ LiveLists /\ LivePatchCalls /\ AllWere /\ Agree

-----------------------------------------------------------------------------
(* Lists of rows, and slots                                                *)

(* A list of rows is not null.                                             *)
LEMMA RowsAreSome == ASSUME NEW rows \in Rows PROVE rows # NoRows
<1>1. DOMAIN rows # {}
  BY SomeRequest DEF Rows
<1>. QED
  BY <1>1 DEF NoRows

(* A call is put into a slot that was free.                                *)
LEMMA FreeSlot ==
    ASSUME NEW c, NEW x, Room(c, 1)
    PROVE  \E s \in Slots : c[s] = Free /\ With(c, x) = [c EXCEPT ![s] = x]
<1>1. {s \in Slots : c[s] = Free} # {}
  BY FS_EmptySet DEF Room
<1>. QED
  BY <1>1 DEF With

(* A call is of one of three kinds, or the slot is free.                   *)
LEMMA Kinds ==
    ASSUME NEW x \in AnyCall
    PROVE  /\ x = Free <=> x.at = "free"
           /\ x # Free => /\ x.kind \in {"recaptcha", "login", "list", "patch"}
                          /\ x.kind \in {"recaptcha", "login"} => x \in SimpleCalls
                          /\ x.kind = "list" => x \in ListCalls
                          /\ x.kind = "patch" => x \in PatchCalls /\ (x.of.live => x.waited)
<1>1. CASE x = Free
  BY <1>1 DEF Free
<1>2. CASE x \in SimpleCalls
  <2>1. x.at # "free" /\ x # Free /\ x.kind \in {"recaptcha", "login"}
    BY <1>2 DEF SimpleCalls, Free
  <2>. QED
    BY <1>2, <2>1
<1>3. CASE x \in ListCalls
  <2>1. x.at # "free" /\ x # Free /\ x.kind = "list"
    BY <1>3 DEF ListCalls, Free
  <2>. QED
    BY <1>3, <2>1
<1>4. CASE x \in PatchCalls /\ (x.of.live => x.waited)
  <2>1. x.at # "free" /\ x # Free /\ x.kind = "patch"
    BY <1>4 DEF PatchCalls, Free
  <2>. QED
    BY <1>4, <2>1
<1>. QED
  BY <1>1, <1>2, <1>3, <1>4 DEF AnyCall

LEMMA NewCalls ==
    /\ \A tok \in AnyTok : ListCall(tok) \in AnyCall /\ ListCall(tok) \in ListCalls
    /\ Call("recaptcha", <<>>) \in AnyCall /\ Call("login", <<>>) \in AnyCall
  BY DEF ListCall, Call, AnyCall, SimpleCalls, ListCalls, ListOf, RowsSets, Results

(* A call that is unmounted is still a call, and not live; so is one that    *)
(* was made by a page that is left.                                        *)
LEMMA OrphanedCalls ==
    ASSUME NEW c \in [Slots -> AnyCall], \A n \in Slots : Truthful(c[n])
    PROVE  /\ Orphaned(c) \in [Slots -> AnyCall]
           /\ \A n \in Slots : /\ Truthful(Orphaned(c)[n])
                               /\ \A kind \in {"list", "patch"} : ~IsLive(Orphaned(c)[n], kind)
<1>. SUFFICES ASSUME NEW n \in Slots
              PROVE  /\ Orphaned(c)[n] \in AnyCall /\ Truthful(Orphaned(c)[n])
                     /\ \A kind \in {"list", "patch"} : ~IsLive(Orphaned(c)[n], kind)
  BY DEF Orphaned
<1>. DEFINE x == c[n]
            y == [x EXCEPT !.of.live = FALSE]
<1>1. x \in AnyCall /\ Truthful(x)
  OBVIOUS
<1>. HIDE DEF x
<1>2. CASE x.at # "free" /\ x.kind = "list"
  <2>1. x \in ListCalls
    BY <1>1, <1>2, Kinds, Zenon DEF Free
  <2>2. /\ y \in ListCalls /\ y.at = x.at /\ y.kind = x.kind /\ y.res = x.res
        /\ y.of.rows = x.of.rows /\ y.of.live = FALSE
    BY <2>1 DEF ListCalls, ListOf
  <2>3. Orphaned(c)[n] = y
    BY <1>2 DEF Orphaned, x
  <2>. HIDE DEF y
  <2>. QED
    BY <1>1, <1>2, <2>2, <2>3 DEF AnyCall, Truthful, IsLive
<1>3. CASE x.at # "free" /\ x.kind = "patch"
  <2>1. x \in PatchCalls
    BY <1>1, <1>3, Kinds, Zenon DEF Free
  <2>2. /\ y \in PatchCalls /\ y.at = x.at /\ y.kind = x.kind /\ y.res = x.res
        /\ y.of.id = x.of.id /\ y.of.status = x.of.status /\ y.of.live = FALSE
    BY <2>1 DEF PatchCalls, PatchOf
  <2>3. Orphaned(c)[n] = y
    BY <1>3 DEF Orphaned, x
  <2>. HIDE DEF y
  <2>. QED
    BY <1>1, <1>3, <2>2, <2>3 DEF AnyCall, Truthful, IsLive
<1>4. CASE ~(x.at # "free" /\ x.kind \in {"list", "patch"})
  <2>1. Orphaned(c)[n] = x
    BY <1>4 DEF Orphaned, x
  <2>. QED
    BY <1>1, <1>4, <2>1 DEF IsLive
<1>. QED
  BY <1>2, <1>3, <1>4

LEMMA AbandonedCalls ==
    ASSUME NEW c \in [Slots -> AnyCall],
           \A n \in Slots : /\ Truthful(c[n])
                            /\ \A kind \in {"list", "patch"} : ~IsLive(c[n], kind)
    PROVE  /\ Abandoned(c) \in [Slots -> AnyCall]
           /\ \A n \in Slots : /\ Truthful(Abandoned(c)[n])
                               /\ \A kind \in {"list", "patch"} : ~IsLive(Abandoned(c)[n], kind)
<1>. SUFFICES ASSUME NEW n \in Slots
              PROVE  /\ Abandoned(c)[n] \in AnyCall /\ Truthful(Abandoned(c)[n])
                     /\ \A kind \in {"list", "patch"} : ~IsLive(Abandoned(c)[n], kind)
  BY DEF Abandoned
<1>. DEFINE x == c[n]
            y == [x EXCEPT !.waited = FALSE]
<1>1. x \in AnyCall /\ Truthful(x) /\ ~IsLive(x, "list") /\ ~IsLive(x, "patch")
  OBVIOUS
<1>2. Abandoned(c)[n] = y \/ Abandoned(c)[n] = Free
  BY DEF Abandoned
<1>3. CASE Abandoned(c)[n] = Free
  BY <1>3 DEF AnyCall, Free, IsLive, Truthful
<1>4. CASE Abandoned(c)[n] # Free
  <2>1. x.at # "free" /\ x.kind \in Writes /\ Abandoned(c)[n] = y
    BY <1>4 DEF Abandoned
  <2>. HIDE DEF x
  <2>2. x \in PatchCalls /\ x.kind = "patch"
    BY <1>1, <2>1, Kinds DEF Free, Writes
  <2>3. /\ y \in PatchCalls /\ y.at = x.at /\ y.kind = x.kind /\ y.res = x.res
        /\ y.of = x.of
    BY <2>2 DEF PatchCalls
  <2>. HIDE DEF y
  <2>4. ~x.of.live
    BY <1>1, <2>1, <2>2 DEF IsLive
  <2>. QED
    BY <1>1, <2>1, <2>2, <2>3, <2>4 DEF AnyCall, Truthful, IsLive
<1>. QED
  BY <1>3, <1>4
-----------------------------------------------------------------------------
(* Initially, and where a view is shown anew                               *)

LEMMA InitInv == Init => Inv
<1>. SUFFICES ASSUME Init PROVE Inv
  OBVIOUS
<1>1. requests \in [ReqIds -> Documents]
  BY DEF Init, Documents, Statuses
<1>2. CallTypes /\ \A n \in Slots : calls[n] = Free
  BY DEF Init, NoCalls, CallTypes, AnyCall
<1>3. /\ tab.view = "login" /\ tab.auth = NoTok /\ tab.rows = NoRows
      /\ tab.dialog = NoDialog /\ tab.captcha = FALSE
  BY DEF Init, SignInTab
<1>4. ServerTypes
  <2>1. been \subseteq ReqIds \X Statuses
    BY DEF Init, Statuses
  <2>. QED
    BY <1>1, <2>1, BoundsAssumption DEF Init, ServerTypes, RowsSets
<1>5. TabTypes
  BY BoundsAssumption DEF Init, TabTypes, SignInTab, RowsSets, Tokens
<1>6. TabShape /\ SourcesMatch
  BY <1>3 DEF Init, TabShape, SourcesMatch
<1>7. LiveLists /\ LivePatchCalls
  BY <1>2, <1>3 DEF LiveLists, LivePatchCalls, Loading, IsLive, LiveFor, Free
<1>8. \A id \in ReqIds : requests[id].status = "Pending"
  BY DEF Init
<1>9. AllWere
  BY <1>2, <1>3, <1>8 DEF Init, AllWere, Were, Truthful, Free
<1>10. Agree
  BY DEF Init, Agree
<1>. QED
  BY <1>2, <1>4, <1>5, <1>6, <1>7, <1>9, <1>10 DEF Inv

(* A view that is shown anew: its only live call is the one for the list.   *)
LEMMA Arrived ==
    ASSUME Inv, NEW c \in [Slots -> AnyCall], NEW tok \in Tokens, Arrive(c, tok),
           \A n \in Slots : /\ Truthful(c[n])
                            /\ \A kind \in {"list", "patch"} : ~IsLive(c[n], kind),
           token' \in Tokens, sources' = 0,
           UNCHANGED <<clicks, requests, cached, been, others>>
    PROVE  Inv'
<1>1. ServerTypes'
  BY DEF Inv, ServerTypes
<1>2. Agree' /\ lastWord' = {} /\ overlapping' = {}
  BY DEF Arrive, Agree
<1>3. /\ Were(cached)' /\ \A id \in ReqIds : (<<id, requests[id].status>> \in been)'
      /\ \A x : Truthful(x) => Truthful(x)'
  BY DEF Inv, AllWere, Were, Truthful
<1>4. CASE tok = NoTok
  <2>1. page' = SignIn /\ tab' = SignInTab /\ calls' = c
    BY <1>4 DEF Arrive
  <2>2. /\ tab'.view = "login" /\ tab'.auth = NoTok /\ tab'.rows = NoRows
        /\ tab'.dialog = NoDialog
    BY <2>1 DEF SignInTab
  <2>3. TabTypes'
    BY <2>1 DEF Inv, TabTypes, SignInTab, RowsSets, Tokens
  <2>4. TabShape' /\ SourcesMatch'
    BY <2>1, <2>2 DEF TabShape, SourcesMatch
  <2>5. CallTypes' /\ LiveLists' /\ LivePatchCalls'
    BY <2>1, <2>2 DEF CallTypes, LiveLists, LivePatchCalls, Loading, LiveFor
  <2>6. AllWere'
    BY <1>3, <2>1, <2>2 DEF AllWere, Were
  <2>. QED
    BY <1>1, <1>2, <2>3, <2>4, <2>5, <2>6 DEF Inv
<1>5. CASE tok # NoTok
  <2>1. page' = Board /\ tab' = LandingTab(tok) /\ calls' = With(c, ListCall(tok)) /\ Room(c, 1)
    BY <1>5 DEF Arrive
  <2>2. PICK s \in Slots : c[s] = Free /\ calls' = [c EXCEPT ![s] = ListCall(tok)]
    BY <2>1, FreeSlot
  <2>3. /\ tab'.view = "landing" /\ tab'.auth = tok /\ tab'.rows = NoRows
        /\ tab'.dialog = NoDialog
    BY <2>1 DEF SignInTab, LandingTab
  <2>4. TabTypes'
    BY <2>1 DEF Inv, TabTypes, SignInTab, LandingTab, RowsSets, Tokens
  <2>5. TabShape' /\ SourcesMatch'
    BY <1>5, <2>1, <2>3 DEF TabShape, SourcesMatch, SignIn, Board
  <2>6. ListCall(tok) \in AnyCall
    BY <1>5, NewCalls DEF AnyTok
  <2>7. /\ IsLive(ListCall(tok), "list") /\ ~IsLive(ListCall(tok), "patch")
        /\ Truthful(ListCall(tok))
    BY DEF IsLive, ListCall, Call, Truthful, Were
  <2>8. \A n \in Slots : calls'[n] = IF n = s THEN ListCall(tok) ELSE c[n]
    BY <2>2
  <2>9. CallTypes'
    BY <2>2, <2>6 DEF CallTypes
  <2>10. LiveLists' /\ LivePatchCalls'
    BY <2>3, <2>7, <2>8, Zenon DEF LiveLists, LivePatchCalls, Loading, LiveFor
  <2>11. AllWere'
    BY <1>3, <2>3, <2>7, <2>8 DEF AllWere, Were
  <2>. QED
    BY <1>1, <1>2, <2>4, <2>5, <2>9, <2>10, <2>11 DEF Inv
<1>. QED
  BY <1>4, <1>5

-----------------------------------------------------------------------------
(* A step of one call                                                      *)

\* The table stays; what the server stored is remembered.
Stays == /\ tab'.rows = tab.rows /\ tab'.view = tab.view /\ cached' = cached
         /\ overlapping' = overlapping /\ been \subseteq been'
         /\ \A id \in ReqIds : <<id, requests'[id].status>> \in been'

(* A step of one call that keeps the list live or not, and makes no patch    *)
(* live, keeps all but the agreement.                                      *)
LEMMA OneCall ==
    ASSUME Inv, NEW n \in Slots, NEW y \in AnyCall, calls' = [calls EXCEPT ![n] = y],
           Truthful(y)', IsLive(y, "list") <=> IsLive(calls[n], "list"),
           IsLive(y, "patch") => IsLive(calls[n], "patch"),
           \A id \in ReqIds : LiveFor(y, id) => LiveFor(calls[n], id), Stays
    PROVE  CallTypes' /\ LiveLists' /\ LivePatchCalls' /\ AllWere'
<1>1. CallTypes' /\ \A m \in Slots : calls'[m] = IF m = n THEN y ELSE calls[m]
  BY DEF Inv, CallTypes
<1>2. LiveLists'
  <2>1. \A m \in Slots : IsLive(calls'[m], "list") <=> IsLive(calls[m], "list")
    BY <1>1
  <2>2. Loading' <=> Loading
    BY DEF Stays, Loading
  <2>. QED
    BY <2>1, <2>2 DEF LiveLists, Inv
<1>3. LivePatchCalls'
  <2>1. \A m \in Slots : /\ IsLive(calls'[m], "patch") => IsLive(calls[m], "patch")
                         /\ \A id \in ReqIds : LiveFor(calls'[m], id) => LiveFor(calls[m], id)
    BY <1>1
  <2>. QED
    BY <2>1 DEF LivePatchCalls, Inv, Stays
<1>4. AllWere'
  <2>1. Were(cached)' /\ Were(tab.rows)' /\ \A x : Truthful(x) => Truthful(x)'
    BY DEF Inv, AllWere, Were, Truthful, Stays
  <2>. QED
    BY <1>1, <2>1 DEF Inv, AllWere, Stays
<1>. QED
  BY <1>1, <1>2, <1>3, <1>4

(* It keeps the agreement on a request that it does not touch.              *)
LEMMA StillAgrees ==
    ASSUME Inv, NEW n \in Slots, NEW y, calls' = [calls EXCEPT ![n] = y],
           tab'.rows = tab.rows, NEW id \in lastWord \ overlapping,
           requests'[id].status = requests[id].status,
           LiveFor(y, id) <=> LiveFor(calls[n], id),
           LiveFor(y, id) => y.at # "done" /\ calls[n].at # "done"
    PROVE  Agrees(id)'
<1>1. Agrees(id)
  BY DEF Inv, Agree
<1>2. \A m \in Slots : calls'[m] = IF m = n THEN y ELSE calls[m]
  BY DEF Inv, CallTypes
<1>3. \A m \in Slots : LiveFor(calls'[m], id) <=> LiveFor(calls[m], id)
  BY <1>2
<1>4. tab'.rows # NoRows /\ tab'.rows[id] = tab.rows[id]
  BY <1>1 DEF Agrees
<1>5. ASSUME NEW m \in Slots, LiveFor(calls'[m], id)
      PROVE  \/ /\ calls'[m].at = "done" /\ calls'[m].res = "200"
                /\ calls'[m].of.status = requests'[id].status
             \/ calls'[m].at # "done" /\ tab'.rows[id] = requests'[id].status
  BY <1>1, <1>2, <1>3, <1>4, <1>5 DEF Agrees
<1>. QED
  BY <1>1, <1>3, <1>4, <1>5 DEF Agrees

LEMMA StillAgree ==
    ASSUME Inv, NEW n \in Slots, NEW y \in AnyCall, calls' = [calls EXCEPT ![n] = y],
           lastWord' \subseteq lastWord, Stays,
           \A id \in lastWord' \ overlapping :
              /\ requests'[id].status = requests[id].status
              /\ LiveFor(y, id) <=> LiveFor(calls[n], id)
              /\ LiveFor(y, id) => y.at # "done" /\ calls[n].at # "done"
    PROVE  Agree'
<1>1. lastWord' \subseteq ReqIds
  BY DEF Inv, Agree
<1>2. ASSUME NEW id \in lastWord' \ overlapping' PROVE Agrees(id)'
  BY StillAgrees DEF Stays
<1>. QED
  BY <1>1, <1>2 DEF Agree

\* So does the rest, but for a dialog or a captcha.
TabStays ==
    /\ tab' \in [view : {"login", "landing", "metrics"}, auth : Tokens, rows : RowsSets,
                 dialog : {NoDialog} \cup (ReqIds \X Actions), captcha : BOOLEAN]
    /\ tab'.rows = tab.rows /\ tab'.view = tab.view /\ tab'.auth = tab.auth
    /\ tab'.dialog # NoDialog => tab.rows # NoRows
AllStays == /\ UNCHANGED <<page, sources, clicks, requests, cached, been, others,
                            lastWord, overlapping>>
            /\ token' \in Tokens /\ TabStays

LEMMA TabSame == ASSUME Inv, tab' = tab PROVE TabStays
  BY DEF Inv, TabTypes, TabShape, TabStays

(* When no call takes a step, everything is kept.                           *)
LEMMA NoCall == ASSUME Inv, calls' = calls, AllStays PROVE Inv'
<1>1. ServerTypes' /\ TabTypes' /\ TabShape' /\ SourcesMatch' /\ CallTypes'
  BY DEF AllStays, TabStays, Inv, ServerTypes, TabTypes, TabShape, SourcesMatch, CallTypes
<1>2. LiveLists' /\ LivePatchCalls'
  BY DEF AllStays, TabStays, Inv, LiveLists, LivePatchCalls, Loading
<1>3. AllWere'
  BY DEF AllStays, TabStays, Inv, AllWere, Were, Truthful
<1>4. Agree'
  BY DEF AllStays, TabStays, Inv, Agree, Agrees
<1>. QED
  BY <1>1, <1>2, <1>3, <1>4 DEF Inv

(* So a step of a call that is not live, or stays live and is not answered, *)
(* keeps everything.                                                       *)
LEMMA QuietCall ==
    ASSUME Inv, NEW n \in Slots, NEW y \in AnyCall, calls' = [calls EXCEPT ![n] = y],
           Truthful(y), IsLive(y, "list") <=> IsLive(calls[n], "list"),
           IsLive(y, "patch") => IsLive(calls[n], "patch"),
           \A id \in ReqIds : LiveFor(y, id) => LiveFor(calls[n], id),
           \A id \in lastWord \ overlapping :
              /\ LiveFor(y, id) <=> LiveFor(calls[n], id)
              /\ LiveFor(y, id) => y.at # "done" /\ calls[n].at # "done",
           AllStays
    PROVE  Inv'
<1>1. Stays
  BY DEF Stays, AllStays, TabStays, Inv, AllWere
<1>2. ServerTypes' /\ TabTypes' /\ TabShape' /\ SourcesMatch'
  BY DEF AllStays, TabStays, Inv, ServerTypes, TabTypes, TabShape, SourcesMatch
<1>3. Truthful(y)'
  BY DEF AllStays, Truthful, Were
<1>4. CallTypes' /\ LiveLists' /\ LivePatchCalls' /\ AllWere'
  BY <1>1, <1>3, OneCall
<1>5. Agree'
  BY <1>1, StillAgree DEF AllStays
<1>. QED
  BY <1>2, <1>4, <1>5 DEF Inv

(* A slot that is freed, of a call that was not live.                       *)
LEMMA DeadCallOver ==
    ASSUME Inv, NEW n \in Slots, ~IsLive(calls[n], "list"), ~IsLive(calls[n], "patch"),
           calls' = [calls EXCEPT ![n] = Free], AllStays
    PROVE  Inv'
<1>1. Free \in AnyCall /\ Truthful(Free) /\ \A kind : ~IsLive(Free, kind)
  BY DEF Free, AnyCall, Truthful, IsLive
<1>2. \A id : ~LiveFor(Free, id) /\ ~LiveFor(calls[n], id)
  BY <1>1 DEF LiveFor
<1>. QED
  BY <1>1, <1>2, QuietCall

(* Another simple call in its place.                                       *)
LEMMA SimpleCall ==
    ASSUME Inv, NEW n \in Slots, calls[n] = Free \/ calls[n] \in SimpleCalls,
           NEW y \in SimpleCalls, calls' = [calls EXCEPT ![n] = y], AllStays
    PROVE  Inv'
<1>1. \A x \in SimpleCalls \cup {Free}, kind \in {"list", "patch"} : ~IsLive(x, kind)
  <2>1. ~IsLive(Free, "list") /\ ~IsLive(Free, "patch")
    BY DEF Free, IsLive
  <2>2. \A x \in SimpleCalls : x.kind # "list" /\ x.kind # "patch"
    BY DEF SimpleCalls
  <2>. QED
    BY <2>1, <2>2 DEF IsLive
<1>2. \A x \in SimpleCalls \cup {Free}, id \in ReqIds : ~LiveFor(x, id)
  BY <1>1 DEF LiveFor
<1>3. y \in AnyCall /\ Truthful(y)
  BY DEF AnyCall, SimpleCalls, Truthful
<1>4. /\ lastWord \subseteq ReqIds
      /\ \A id \in ReqIds : ~LiveFor(y, id) /\ ~LiveFor(calls[n], id)
      /\ \A kind \in {"list", "patch"} : ~IsLive(y, kind) /\ ~IsLive(calls[n], kind)
  BY <1>1, <1>2 DEF Inv, Agree
<1>. QED
  BY <1>3, <1>4, QuietCall

-----------------------------------------------------------------------------
(* The actions                                                             *)

(* A callback that pushes an address, after its own call is over.           *)
LEMMA Pushed ==
    ASSUME Inv, NEW n \in Slots,
           calls[n].at = "done", calls[n].kind \in {"login", "list"},
           NEW to \in {SignIn, Board}, NEW tok \in Tokens, token' = tok,
           tok # NoTok <=> to = Board,
           to = Board => calls[n].kind = "login",
           Push(to, Freed(n), tok),
           UNCHANGED <<clicks, requests, cached, been, others>>
    PROVE  Inv'
<1>1. /\ Freed(n) \in [Slots -> AnyCall] /\ \A m \in Slots : Truthful(Freed(n)[m])
  BY DEF Freed, Inv, CallTypes, AllWere, AnyCall, Truthful, Free
<1>2. CASE page = to
  <2>1. /\ calls' = Freed(n)
        /\ UNCHANGED <<page, tab, sources, lastWord, overlapping>>
    BY <1>2 DEF Push, historyVars, SignIn, Board
  <2>2. ~IsLive(calls[n], "list") /\ ~IsLive(calls[n], "patch")
    BY <1>2 DEF Inv, LiveLists, Loading, TabShape, IsLive, SignIn, Board
  <2>. QED
    BY <2>1, <2>2, DeadCallOver, TabSame DEF Freed, AllStays
<1>3. CASE page # to
  <2>1. Arrive(Orphaned(Freed(n)), tok) /\ sources' = SourcesAfterUnmount
    BY <1>3 DEF Push
  <2>2. sources' = 0
    BY <2>1 DEF SourcesAfterUnmount, Inv, SourcesMatch
  <2>. QED
    BY <1>1, <2>1, <2>2, OrphanedCalls, Arrived
<1>. QED
  BY <1>2, <1>3

LEMMA LoadStep == ASSUME Inv, Load PROVE Inv'
<1>1. Inv /\ calls \in [Slots -> AnyCall] /\ \A n \in Slots : Truthful(calls[n])
  BY DEF Inv, CallTypes, AllWere
<1>2. Arrive(Abandoned(Orphaned(calls)), token) /\ token \in Tokens /\ sources' = 0
  BY DEF Load, Inv, TabTypes
<1>3. token' \in Tokens /\ UNCHANGED <<clicks, requests, cached, been, others>>
  BY <1>2 DEF Load, serverVars
<1>. QED
  BY <1>1, <1>2, <1>3, OrphanedCalls, AbandonedCalls, Arrived

LEMMA OnChangeStep == ASSUME Inv, OnChange PROVE Inv'
<1>1. calls \in [Slots -> AnyCall] /\ \A n \in Slots : Truthful(calls[n])
  BY DEF Inv, CallTypes, AllWere
<1>2. Arrive(Orphaned(calls), token) /\ token \in Tokens /\ sources' = 0
  BY DEF OnChange, Push, SourcesAfterUnmount, Inv, TabTypes, SourcesMatch
<1>3. token' \in Tokens /\ UNCHANGED <<clicks, requests, cached, been, others>>
  BY <1>2 DEF OnChange, serverVars
<1>. QED
  BY <1>1, <1>2, <1>3, OrphanedCalls, Arrived

LEMMA ShowLandingStep == ASSUME Inv, ShowLanding PROVE Inv'
<1>1. calls \in [Slots -> AnyCall] /\ \A n \in Slots : Truthful(calls[n])
  BY DEF Inv, CallTypes, AllWere
<1>2. Arrive(calls, token) /\ token \in Tokens /\ sources' = 0
  BY DEF ShowLanding, SourcesAfterUnmount, Inv, TabTypes, SourcesMatch
<1>3. token' \in Tokens /\ UNCHANGED <<clicks, requests, cached, been, others>>
  BY <1>2 DEF ShowLanding, serverVars
<1>4. \A n \in Slots, kind \in {"list", "patch"} : ~IsLive(calls[n], kind)
  BY DEF ShowLanding, Inv, LiveLists, LivePatchCalls, Loading, TabShape
<1>. QED
  BY <1>1, <1>2, <1>3, <1>4, Arrived

LEMMA ShowMetricsStep == ASSUME Inv, ShowMetrics PROVE Inv'
<1>1. calls \in [Slots -> AnyCall] /\ \A n \in Slots : Truthful(calls[n])
  BY DEF Inv, CallTypes, AllWere
<1>2. /\ calls' \in [Slots -> AnyCall] /\ \A n \in Slots : Truthful(calls'[n])
      /\ \A n \in Slots, kind \in {"list", "patch"} : ~IsLive(calls'[n], kind)
  BY <1>1, OrphanedCalls DEF ShowMetrics
<1>3. /\ tab'.view = "metrics" /\ tab'.auth = NoTok /\ tab'.rows = NoRows
      /\ tab'.dialog = NoDialog
  BY DEF ShowMetrics, MetricsTab, SignInTab
<1>4. UNCHANGED <<page, token, clicks, requests, cached, been, others>>
  BY DEF ShowMetrics, serverVars
<1>5. sources = 0 /\ sources' = 1
  BY DEF ShowMetrics, Inv, SourcesMatch
<1>6. TabTypes'
  <2>1. MetricsTab \in [view : {"login", "landing", "metrics"}, auth : Tokens, rows : RowsSets,
                        dialog : {NoDialog} \cup (ReqIds \X Actions), captcha : BOOLEAN]
    BY DEF MetricsTab, SignInTab, RowsSets, Tokens
  <2>. QED
    BY <1>4, <1>5, <2>1 DEF ShowMetrics, Inv, TabTypes
<1>7. TabShape' /\ SourcesMatch'
  BY <1>3, <1>4, <1>5 DEF ShowMetrics, Inv, TabShape, SourcesMatch
<1>8. ServerTypes' /\ CallTypes'
  BY <1>2, <1>4 DEF Inv, ServerTypes, CallTypes
<1>9. LiveLists' /\ LivePatchCalls'
  BY <1>2, <1>3 DEF LiveLists, LivePatchCalls, Loading, LiveFor
<1>10. AllWere'
  <2>1. \A x : Truthful(x) => Truthful(x)'
    BY <1>4 DEF Truthful, Were
  <2>. QED
    BY <1>2, <1>3, <1>4, <2>1 DEF Inv, AllWere, Were
<1>11. Agree'
  BY DEF ShowMetrics, Agree
<1>. QED
  BY <1>6, <1>7, <1>8, <1>9, <1>10, <1>11 DEF Inv

LEMMA DialogStep ==
    ASSUME Inv,
           \/ SubmitLogin \/ HandleClose
           \/ \E id \in ReqIds, status \in Actions : OnAttemptAction(id, status)
    PROVE  Inv'
<1>1. calls' = calls /\ token' \in Tokens
  BY DEF SubmitLogin, HandleClose, OnAttemptAction, Inv, TabTypes
<1>2. UNCHANGED <<page, sources, clicks, requests, cached, been, others, lastWord, overlapping>>
  BY DEF SubmitLogin, HandleClose, OnAttemptAction, serverVars, historyVars
<1>3. TabStays
  <2>1. CASE SubmitLogin
    BY <2>1 DEF SubmitLogin, TabStays, Inv, TabTypes, TabShape
  <2>2. CASE HandleClose
    BY <2>2 DEF HandleClose, TabStays, Inv, TabTypes, TabShape
  <2>3. ASSUME NEW id \in ReqIds, NEW status \in Actions, OnAttemptAction(id, status)
        PROVE  TabStays
    BY <2>3 DEF OnAttemptAction, Row, TabStays, Inv, TabTypes, TabShape
  <2>. QED
    BY <2>1, <2>2, <2>3
<1>. QED
  BY <1>1, <1>2, <1>3, NoCall DEF AllStays

(* The callbacks and handlers of the calls to sign in                      *)

LEMMA OnResolvedStep == ASSUME Inv, OnResolved PROVE Inv'
<1>. DEFINE y == Call("recaptcha", <<>>)
<1>1. PICK n \in Slots : calls[n] = Free /\ calls' = [calls EXCEPT ![n] = y]
  BY FreeSlot DEF OnResolved
<1>2. y \in SimpleCalls
  BY DEF Call, SimpleCalls, Results
<1>3. TabStays
  BY DEF OnResolved, TabStays, Inv, TabTypes, TabShape
<1>4. AllStays
  BY <1>3 DEF OnResolved, AllStays, serverVars, historyVars, Inv, TabTypes
<1>. HIDE DEF y
<1>. QED
  BY <1>1, <1>2, <1>4, SimpleCall

\* A step of Callback or Serve that changes the calls alone.
CallsAlone == UNCHANGED <<page, tab, token, sources, clicks, requests, cached, been, others,
                          lastWord, overlapping>>

LEMMA AloneStays == ASSUME Inv, CallsAlone PROVE AllStays
  BY TabSame DEF CallsAlone, AllStays, Inv, TabTypes

LEMMA AnswerSimple ==
    ASSUME Inv, NEW n \in Slots, calls[n].at # "free", calls[n].kind \in {"recaptcha", "login"},
           NEW res \in Results, Respond(n, res), AllStays
    PROVE  Inv'
<1>. DEFINE y == [calls[n] EXCEPT !.at = "done", !.res = res]
<1>1. calls[n] \in AnyCall
  BY DEF Inv, CallTypes
<1>2. calls[n] \in SimpleCalls
  BY <1>1, Kinds DEF Free
<1>3. calls[n].waited /\ y \in SimpleCalls
  BY <1>2 DEF SimpleCalls
<1>4. calls' = [calls EXCEPT ![n] = y]
  BY <1>3 DEF Respond
<1>. HIDE DEF y
<1>. QED
  BY <1>2, <1>3, <1>4, SimpleCall

LEMMA SignInStep ==
    ASSUME Inv, NEW n \in Slots,
           \/ CaptchaAnswered(n) \/ NotSignedIn(n) \/ RespondLogin(n) \/ JudgeCaptcha(n)
    PROVE  Inv'
<1>1. AllStays
  <2>1. CallsAlone
    BY DEF CaptchaAnswered, NotSignedIn, RespondLogin, JudgeCaptcha, CallsAlone, Unchanged,
           serverVars, historyVars
  <2>. QED
    BY <2>1, AloneStays
<1>2. CASE RespondLogin(n) \/ JudgeCaptcha(n)
  <2>1. calls[n].at # "free" /\ calls[n].kind \in {"recaptcha", "login"}
    BY <1>2 DEF RespondLogin, JudgeCaptcha, RespondCaptcha, Asked
  <2>2. \E res \in Results : Respond(n, res)
    BY <1>2 DEF RespondLogin, JudgeCaptcha, RespondCaptcha, Results
  <2>. QED
    BY <1>1, <2>1, <2>2, AnswerSimple
<1>3. CASE CaptchaAnswered(n) \/ NotSignedIn(n)
  <2>1. calls[n].at # "free" /\ calls[n].kind \in {"recaptcha", "login"}
    BY <1>3 DEF CaptchaAnswered, NotSignedIn, Answered
  <2>2. \/ calls' = [calls EXCEPT ![n] = Free]
        \/ calls' = [calls EXCEPT ![n] = Call("login", <<>>)]
    BY <1>3 DEF CaptchaAnswered, NotSignedIn, Settle, Then
  <2>3. CASE calls' = [calls EXCEPT ![n] = Free]
    BY <1>1, <2>1, <2>3, DeadCallOver DEF IsLive
  <2>4. CASE calls' = [calls EXCEPT ![n] = Call("login", <<>>)]
    <3>1. Call("login", <<>>) \in SimpleCalls
      BY DEF Call, SimpleCalls, Results
    <3>2. calls[n] \in SimpleCalls
      BY <2>1, Kinds DEF Free, Inv, CallTypes
    <3>. QED
      BY <1>1, <2>4, <3>1, <3>2, SimpleCall
  <2>. QED
    BY <2>2, <2>3, <2>4
<1>. QED
  BY <1>2, <1>3

LEMMA SignedInStep == ASSUME Inv, NEW n \in Slots, SignedIn(n) PROVE Inv'
<1>1. Push(Board, Freed(n), "valid") /\ token' = "valid" /\ "valid" # NoTok /\ "valid" \in Tokens
  BY DEF SignedIn, NoTok, Tokens
<1>2. calls[n].at = "done" /\ calls[n].kind = "login"
  BY DEF SignedIn, Answered
<1>3. UNCHANGED <<clicks, requests, cached, been, others>>
  BY DEF SignedIn, serverVars
<1>. QED
  BY <1>1, <1>2, <1>3, Pushed

LEMMA NotListedStep == ASSUME Inv, NEW n \in Slots, NotListed(n) PROVE Inv'
<1>1. Push(SignIn, Freed(n), NoTok) /\ token' = NoTok /\ NoTok \in Tokens /\ SignIn # Board
  BY DEF NotListed, Tokens, SignIn, Board
<1>2. calls[n].at = "done" /\ calls[n].kind = "list"
  BY DEF NotListed, Answered
<1>3. UNCHANGED <<clicks, requests, cached, been, others>>
  BY DEF NotListed, serverVars
<1>. QED
  BY <1>1, <1>2, <1>3, Pushed

(* The list                                                                *)

LEMMA ListedStep == ASSUME Inv, NEW n \in Slots, Listed(n) PROVE Inv'
<1>. DEFINE x == calls[n]
<1>1. x.at = "done" /\ x.kind = "list" /\ x.res = "200" /\ x \in ListCalls
  BY Kinds DEF Listed, Answered, Inv, CallTypes, Free
<1>2. calls' = [calls EXCEPT ![n] = Free] /\ UNCHANGED <<page, token, sources, clicks>>
  BY DEF Listed, Settle
<1>3. UNCHANGED <<requests, cached, been, others, lastWord, overlapping>>
  BY DEF Listed, serverVars, historyVars
<1>4. CASE ~x.of.live
  <2>1. CallsAlone
    BY <1>2, <1>3, <1>4 DEF Listed, CallsAlone
  <2>. QED
    BY <1>1, <1>2, <1>4, <2>1, AloneStays, DeadCallOver DEF IsLive
<1>5. CASE x.of.live
  <2>1. tab' = [tab EXCEPT !.rows = x.of.rows]
    BY <1>5 DEF Listed
  <2>2. Loading /\ tab.dialog = NoDialog
    BY <1>1, <1>5 DEF Inv, LiveLists, IsLive, Loading, TabShape
  <2>3. x.of.rows \in RowsSets /\ x.of.rows # NoRows /\ Were(x.of.rows)
    BY <1>1 DEF ListCalls, ListOf, Inv, AllWere, Truthful
  <2>4. /\ tab'.rows = x.of.rows /\ tab'.view = tab.view /\ tab'.auth = tab.auth
        /\ tab'.dialog = tab.dialog
    BY <2>1 DEF Inv, TabTypes
  <2>5. \A m \in Slots : calls'[m] = IF m = n THEN Free ELSE calls[m]
    BY <1>2 DEF Inv, CallTypes
  <2>6. \A kind : ~IsLive(Free, kind)
    BY DEF IsLive, Free
  <2>7. TabTypes'
    BY <1>2, <2>1, <2>3 DEF Inv, TabTypes
  <2>8. TabShape' /\ SourcesMatch' /\ ServerTypes'
    BY <1>2, <1>3, <2>2, <2>3, <2>4
       DEF Inv, TabShape, SourcesMatch, Loading, ServerTypes
  <2>9. CallTypes'
    BY <1>2 DEF Inv, CallTypes, AnyCall
  <2>10. LiveLists'
    BY <1>1, <1>5, <2>3, <2>4, <2>5, <2>6 DEF Inv, LiveLists, Loading, IsLive
  <2>11. ~Loading'
    BY <2>3, <2>4 DEF Loading
  <2>12. \A m \in Slots : ~IsLive(calls'[m], "patch")
    BY <2>2, <2>5, <2>6 DEF Inv, LivePatchCalls, Loading
  <2>13. LivePatchCalls'
    BY <2>12 DEF LivePatchCalls, LiveFor
  <2>14. AllWere'
    <3>1. \A r : Were(r) => Were(r)'
      BY <1>3 DEF Were
    <3>2. \A y : Truthful(y) => Truthful(y)'
      BY <1>3 DEF Were, Truthful
    <3>3. Truthful(Free)'
      BY DEF Truthful, Free
    <3>. QED
      BY <1>3, <2>3, <2>4, <2>5, <3>1, <3>2, <3>3 DEF Inv, AllWere, Were
  <2>15. Agree'
    BY <1>3, <2>2 DEF Inv, Agree, Agrees, Loading
  <2>. QED
    BY <2>7, <2>8, <2>9, <2>10, <2>13, <2>14, <2>15 DEF Inv
<1>. QED
  BY <1>4, <1>5

LEMMA StatusesAreRows ==
    ASSUME Inv
    PROVE  AllStatuses \in Rows /\ AllStatuses # NoRows /\ Were(AllStatuses)
<1>1. AllStatuses = [id \in ReqIds |-> requests[id].status]
  BY DEF AllStatuses, Created, Inv, ServerTypes
<1>2. \A id \in ReqIds : requests[id].status \in Statuses
  BY DEF Inv, ServerTypes, Documents
<1>3. AllStatuses \in Rows
  BY <1>1, <1>2 DEF Rows
<1>. QED
  BY <1>1, <1>3, RowsAreSome DEF Were, Inv, AllWere

LEMMA RespondListStep == ASSUME Inv, NEW n \in Slots, RespondList(n) PROVE Inv'
<1>. DEFINE x == calls[n]
            rows == IF cached = NoRows THEN AllStatuses ELSE cached
            y == [x EXCEPT !.at = "done", !.res = "200", !.of.rows = rows]
<1>1. x.at # "free" /\ x.kind = "list" /\ x \in ListCalls
  BY Kinds DEF RespondList, Asked, Inv, CallTypes, Free
<1>2. rows \in RowsSets /\ rows # NoRows /\ Were(rows)
  BY StatusesAreRows DEF Rows, RowsSets, Inv, ServerTypes, AllWere
<1>. HIDE DEF rows
<1>3. /\ y \in ListCalls /\ y.kind = "list" /\ y.at # "free" /\ y.of.rows = rows
      /\ y.of.live = x.of.live
  BY <1>1, <1>2 DEF ListCalls, ListOf, Results
<1>4. calls' = [calls EXCEPT ![n] = y]
  BY DEF RespondList, rows
<1>5. AllStays
  <2>1. CallsAlone
    BY DEF RespondList, CallsAlone, Unchanged, serverVars, historyVars
  <2>. QED
    BY <2>1, AloneStays
<1>. HIDE DEF y
<1>6. y \in AnyCall /\ Truthful(y)
  BY <1>2, <1>3 DEF AnyCall, Truthful
<1>7. /\ IsLive(y, "list") <=> IsLive(x, "list")
      /\ ~IsLive(y, "patch") /\ ~IsLive(x, "patch")
  BY <1>1, <1>3 DEF IsLive
<1>8. \A id : ~LiveFor(y, id) /\ ~LiveFor(x, id)
  BY <1>7 DEF LiveFor
<1>. QED
  BY <1>4, <1>5, <1>6, <1>7, <1>8, QuietCall

(* The decisions                                                           *)

LEMMA NotPatchedStep == ASSUME Inv, NEW n \in Slots, NotPatched(n) PROVE Inv'
<1>1. /\ calls[n].at = "done" /\ calls[n].kind = "patch" /\ calls[n].res # "200"
      /\ calls' = [calls EXCEPT ![n] = Free]
  BY DEF NotPatched, Answered, Settle
<1>2. AllStays
  <2>1. CallsAlone
    BY DEF NotPatched, CallsAlone, serverVars, historyVars
  <2>. QED
    BY <2>1, AloneStays
<1>3. /\ Free \in AnyCall /\ Truthful(Free) /\ \A kind : ~IsLive(Free, kind)
      /\ \A id : ~LiveFor(Free, id)
  BY DEF Free, AnyCall, Truthful, IsLive, LiveFor
<1>4. ~IsLive(calls[n], "list")
  BY <1>1 DEF IsLive
<1>5. \A id \in lastWord \ overlapping : ~LiveFor(calls[n], id)
  BY <1>1 DEF Inv, Agree, Agrees
<1>. QED
  BY <1>1, <1>2, <1>3, <1>4, <1>5, QuietCall

LEMMA PatchedStep == ASSUME Inv, NEW n \in Slots, Patched(n) PROVE Inv'
<1>. DEFINE x == calls[n]
            p == calls[n].of
<1>1. x.at = "done" /\ x.kind = "patch" /\ x.res = "200" /\ x \in PatchCalls
  BY Kinds DEF Patched, Answered, Inv, CallTypes, Free
<1>2. calls' = [calls EXCEPT ![n] = Free] /\ UNCHANGED <<page, token, sources, clicks>>
  BY DEF Patched, Settle
<1>3. UNCHANGED <<requests, cached, been, others, lastWord, overlapping>>
  BY DEF Patched, serverVars, historyVars
<1>4. CASE ~p.live
  <2>1. CallsAlone
    BY <1>2, <1>3, <1>4 DEF Patched, CallsAlone
  <2>. QED
    BY <1>1, <1>2, <1>4, <2>1, AloneStays, DeadCallOver DEF IsLive
<1>5. CASE p.live
  <2>1. IsLive(x, "patch") /\ tab.rows # NoRows /\ tab.rows \in Rows
    BY <1>1, <1>5 DEF IsLive, Inv, LivePatchCalls, TabTypes, RowsSets, Rows
  <2>2. p.id \in ReqIds /\ p.status \in Statuses /\ <<p.id, p.status>> \in been
    BY <1>1 DEF PatchCalls, PatchOf, Inv, AllWere, Truthful
  <2>3. tab' = [tab EXCEPT !.rows[p.id] = p.status]
    BY <1>5 DEF Patched, WithRow
  <2>4. /\ tab'.rows = [tab.rows EXCEPT ![p.id] = p.status] /\ tab'.view = tab.view
        /\ tab'.auth = tab.auth /\ tab'.dialog = tab.dialog
    BY <2>3 DEF Inv, TabTypes
  <2>5. /\ tab'.rows \in Rows /\ tab'.rows # NoRows
        /\ \A id \in ReqIds : tab'.rows[id] = IF id = p.id THEN p.status ELSE tab.rows[id]
    BY <2>1, <2>2, <2>4, RowsAreSome DEF Rows
  <2>6. \A m \in Slots : calls'[m] = IF m = n THEN Free ELSE calls[m]
    BY <1>2 DEF Inv, CallTypes
  <2>7. /\ \A kind : ~IsLive(Free, kind)
        /\ \A id : ~LiveFor(Free, id)
    BY DEF IsLive, LiveFor, Free
  <2>8. TabTypes'
    BY <1>2, <2>3, <2>4, <2>5 DEF Inv, TabTypes, RowsSets, Rows
  <2>9. TabShape' /\ SourcesMatch' /\ ServerTypes'
    BY <1>2, <1>3, <2>1, <2>4, <2>5 DEF Inv, TabShape, SourcesMatch, ServerTypes
  <2>10. CallTypes'
    BY <1>2 DEF Inv, CallTypes, AnyCall
  <2>11. LiveLists'
    <3>1. ~Loading /\ ~Loading'
      BY <2>1, <2>5 DEF Loading
    <3>2. \A m \in Slots : ~IsLive(calls'[m], "list")
      BY <2>6, <2>7, <3>1 DEF Inv, LiveLists
    <3>. QED
      BY <3>1, <3>2 DEF LiveLists
  <2>12. LivePatchCalls'
    BY <1>3, <2>5, <2>6, <2>7 DEF Inv, LivePatchCalls
  <2>13. AllWere'
    <3>1. Were(cached)' /\ \A y : Truthful(y) => Truthful(y)'
      BY <1>3 DEF Were, Truthful, Inv, AllWere
    <3>2. Truthful(Free)'
      BY DEF Truthful, Free
    <3>3. Were(tab.rows)'
      BY <1>3, <2>1, <2>2, <2>5 DEF Were, Inv, AllWere
    <3>. QED
      BY <1>3, <2>6, <3>1, <3>2, <3>3 DEF Inv, AllWere
  <2>14. ASSUME NEW id \in lastWord \ overlapping PROVE Agrees(id)'
    <3>1. Agrees(id) /\ id \in ReqIds
      BY DEF Inv, Agree
    <3>2. CASE id = p.id
      <4>1. LiveFor(x, id) /\ p.status = requests[id].status
        BY <1>1, <2>1, <3>1, <3>2 DEF Agrees, LiveFor
      <4>2. \A m \in Slots : ~LiveFor(calls'[m], id)
        BY <2>6, <2>7, <3>1, <4>1 DEF Inv, LivePatchCalls
      <4>. QED
        BY <1>3, <2>5, <3>1, <3>2, <4>1, <4>2 DEF Agrees
    <3>3. CASE id # p.id
      <4>1. ~LiveFor(x, id)
        BY <3>3 DEF LiveFor
      <4>2. \A m \in Slots : LiveFor(calls'[m], id) <=> LiveFor(calls[m], id)
        BY <2>6, <2>7, <4>1
      <4>3. tab'.rows[id] = tab.rows[id]
        BY <2>5, <3>1, <3>3
      <4>4. \A m \in Slots : LiveFor(calls'[m], id) => calls'[m] = calls[m]
        BY <2>6, <2>7
      <4>. QED
        BY <1>3, <2>5, <3>1, <4>2, <4>3, <4>4 DEF Agrees
    <3>. QED
      BY <3>2, <3>3
  <2>15. Agree'
    BY <1>3, <2>14 DEF Inv, Agree
  <2>. QED
    BY <2>8, <2>9, <2>10, <2>11, <2>12, <2>13, <2>15 DEF Inv
<1>. QED
  BY <1>4, <1>5

LEMMA FindRequestStep == ASSUME Inv, NEW n \in Slots, FindRequest(n) PROVE Inv'
<1>. DEFINE x == calls[n]
            y == [x EXCEPT !.at = "update"]
<1>1. x.at = "sent" /\ x.kind = "patch" /\ x \in PatchCalls /\ (x.of.live => x.waited)
  BY Kinds DEF FindRequest, Asked, Inv, CallTypes, Free
<1>2. /\ y \in PatchCalls /\ y.at = "update" /\ y.kind = "patch" /\ y.of = x.of
      /\ y.res = x.res /\ y.waited = x.waited
  BY <1>1 DEF PatchCalls
<1>3. calls' = [calls EXCEPT ![n] = y]
  BY DEF FindRequest, Proceed
<1>4. AllStays
  <2>1. CallsAlone
    BY DEF FindRequest, CallsAlone, Unchanged, serverVars, historyVars
  <2>. QED
    BY <2>1, AloneStays
<1>5. Truthful(x)
  BY DEF Inv, AllWere
<1>. HIDE DEF y
<1>6. y \in AnyCall /\ Truthful(y)
  BY <1>1, <1>2, <1>5 DEF AnyCall, Truthful
<1>7. /\ ~IsLive(y, "list") /\ ~IsLive(x, "list")
      /\ IsLive(y, "patch") <=> IsLive(x, "patch")
      /\ \A id : LiveFor(y, id) <=> LiveFor(x, id)
  BY <1>1, <1>2 DEF IsLive, LiveFor
<1>. QED
  BY <1>1, <1>2, <1>3, <1>4, <1>6, <1>7, QuietCall

\* What the server keeps when it stores one status.
StoredOne(id, status) ==
    /\ requests' = [requests EXCEPT ![id].status = status, ![id].admin = Admin]
    /\ been' = been \cup {<<id, status>>}

LEMMA OneStored ==
    ASSUME Inv, NEW id \in ReqIds, NEW status \in Statuses, StoredOne(id, status),
           cached' = cached, others' \in 0 .. MaxOthers
    PROVE  /\ ServerTypes' /\ requests'[id].status = status
           /\ \A r \in ReqIds \ {id} : requests'[r] = requests[r]
           /\ \A r \in ReqIds : <<r, requests'[r].status>> \in been'
           /\ been \subseteq been'
<1>. DEFINE doc == [requests[id] EXCEPT !.status = status, !.admin = Admin]
<1>1. requests \in [ReqIds -> Documents] /\ requests[id] \in Documents
  BY DEF Inv, ServerTypes
<1>2. doc \in Documents /\ doc.status = status
  BY <1>1 DEF Documents
<1>3. requests' = [requests EXCEPT ![id] = doc]
  BY <1>1 DEF StoredOne
<1>. HIDE DEF doc
<1>4. /\ requests' \in [ReqIds -> Documents] /\ requests'[id].status = status
      /\ \A r \in ReqIds \ {id} : requests'[r] = requests[r]
  BY <1>1, <1>2, <1>3
<1>5. been' \subseteq ReqIds \X Statuses /\ been \subseteq been'
  BY DEF StoredOne, Inv, ServerTypes
<1>6. ServerTypes'
  BY <1>4, <1>5 DEF Inv, ServerTypes
<1>7. \A r \in ReqIds : <<r, requests'[r].status>> \in been'
  BY <1>4 DEF StoredOne, Inv, AllWere
<1>. QED
  BY <1>4, <1>5, <1>6, <1>7

(* Somebody else decides: what was stored last from here is no more so.     *)
LEMMA ElsewhereStep == ASSUME Inv, Elsewhere PROVE Inv'
<1>1. PICK id \in ReqIds, status \in {"Approved", "Denied"} :
         SetDecision(id, status, Admin) /\ lastWord' = lastWord \ {id}
           /\ been' = been \cup {<<id, status>>}
  BY DEF Elsewhere, Created, Inv, ServerTypes
<1>2. status \in Statuses /\ StoredOne(id, status)
  BY <1>1 DEF Statuses, StoredOne, SetDecision
<1>3. UNCHANGED <<page, calls, token, tab, sources, clicks, cached, overlapping>>
  BY DEF Elsewhere, browserVars
<1>4. others' \in 0 .. MaxOthers
  BY BoundsAssumption DEF Elsewhere, Inv, ServerTypes
<1>5. /\ ServerTypes' /\ \A r \in ReqIds \ {id} : requests'[r] = requests[r]
      /\ \A r \in ReqIds : <<r, requests'[r].status>> \in been'
      /\ been \subseteq been'
  BY <1>2, <1>3, <1>4, OneStored
<1>6. TabTypes' /\ CallTypes' /\ TabShape' /\ SourcesMatch' /\ LiveLists' /\ LivePatchCalls'
  BY <1>3 DEF Inv, TabTypes, CallTypes, TabShape, SourcesMatch, LiveLists, LivePatchCalls, Loading
<1>7. AllWere'
  BY <1>3, <1>5 DEF Inv, AllWere, Were, Truthful
<1>8. Agree'
  BY <1>1, <1>3, <1>5 DEF Inv, Agree, Agrees
<1>. QED
  BY <1>5, <1>6, <1>7, <1>8 DEF Inv

(* What is left of a patch when it is answered, and when nobody waits.      *)
LEMMA PatchAnswered ==
    ASSUME Inv, NEW n \in Slots, calls[n].at # "free", calls[n].kind = "patch",
           NEW res \in Results, Respond(n, res)
    PROVE  \E y \in AnyCall :
              /\ calls' = [calls EXCEPT ![n] = y]
              /\ ~IsLive(y, "list")
              /\ IsLive(y, "patch") <=> IsLive(calls[n], "patch")
              /\ \A id : LiveFor(y, id) <=> LiveFor(calls[n], id)
              /\ \/ y = Free
                 \/ /\ y.at = "done" /\ y.res = res
                    /\ y.kind = "patch" /\ y.of = calls[n].of
<1>. DEFINE x == calls[n]
            y == [x EXCEPT !.at = "done", !.res = res]
<1>1. x \in PatchCalls /\ (x.of.live => x.waited) /\ x.at # "free" /\ x.kind = "patch"
  BY Kinds DEF Inv, CallTypes, Free
<1>2. CASE x.waited
  <2>1. calls' = [calls EXCEPT ![n] = y]
    BY <1>2 DEF Respond
  <2>2. /\ y \in PatchCalls /\ y.waited = x.waited /\ y.at = "done" /\ y.res = res
        /\ y.kind = "patch" /\ y.of = x.of
    BY <1>1 DEF PatchCalls
  <2>. HIDE DEF y
  <2>3. y \in AnyCall
    BY <1>2, <2>2 DEF AnyCall
  <2>4. ~IsLive(y, "list") /\ \A id : LiveFor(y, id) <=> LiveFor(x, id)
    BY <1>1, <2>2 DEF IsLive, LiveFor
  <2>5. IsLive(y, "patch") <=> IsLive(x, "patch")
    BY <1>1, <2>2 DEF IsLive
  <2>. QED
    BY <2>1, <2>2, <2>3, <2>4, <2>5
<1>3. CASE ~x.waited
  <2>1. calls' = [calls EXCEPT ![n] = Free]
    BY <1>3 DEF Respond
  <2>2. Free \in AnyCall /\ (\A kind : ~IsLive(Free, kind)) /\ \A id : ~LiveFor(Free, id)
    BY DEF AnyCall, Free, IsLive, LiveFor
  <2>3. ~IsLive(x, "patch") /\ \A id : ~LiveFor(x, id)
    BY <1>1, <1>3 DEF IsLive, LiveFor
  <2>. QED
    BY <2>1, <2>2, <2>3
<1>. QED
  BY <1>2, <1>3

LEMMA UpdateRequestStep == ASSUME Inv, NEW n \in Slots, UpdateRequest(n) PROVE Inv'
<1>. DEFINE x == calls[n]
            p == calls[n].of
<1>1. /\ x.at = "update" /\ x.kind = "patch" /\ x \in PatchCalls
      /\ p.id \in ReqIds /\ p.status \in Statuses
  <2>1. x \in AnyCall /\ x.at = "update"
    BY DEF UpdateRequest, AtStage, Inv, CallTypes
  <2>2. x.kind = "patch" /\ x \in PatchCalls
    BY <2>1, Kinds DEF Free, SimpleCalls, ListCalls
  <2>. QED
    BY <2>1, <2>2 DEF PatchCalls, PatchOf
<1>2. PICK res \in {"200", "error"} :
         /\ Respond(n, res)
         /\ lastWord' = IF p.live /\ res = "200" THEN lastWord \cup {p.id}
                        ELSE lastWord \ {p.id}
  BY DEF UpdateRequest
<1>3. StoredOne(p.id, p.status)
  BY DEF UpdateRequest, SetDecision, StoredOne
<1>4. UNCHANGED <<page, tab, token, sources, clicks, cached, others, overlapping>>
  BY DEF UpdateRequest, Unchanged
<1>5. /\ ServerTypes' /\ requests'[p.id].status = p.status
      /\ \A r \in ReqIds \ {p.id} : requests'[r] = requests[r]
      /\ \A r \in ReqIds : <<r, requests'[r].status>> \in been'
      /\ been \subseteq been'
  <2>1. others' \in 0 .. MaxOthers
    BY <1>4 DEF Inv, ServerTypes
  <2>. QED
    BY <1>1, <1>3, <1>4, <2>1, OneStored
<1>6. Stays
  BY <1>4, <1>5 DEF Stays
<1>7. PICK y \in AnyCall :
         /\ calls' = [calls EXCEPT ![n] = y]
         /\ ~IsLive(y, "list")
         /\ IsLive(y, "patch") <=> IsLive(x, "patch")
         /\ \A id : LiveFor(y, id) <=> LiveFor(x, id)
         /\ \/ y = Free
            \/ /\ y.at = "done" /\ y.res = res
               /\ y.kind = "patch" /\ y.of = p
  <2>1. x.at # "free" /\ res \in Results
    BY <1>1 DEF Results
  <2>. QED
    BY <1>1, <1>2, <2>1, PatchAnswered
<1>8. Truthful(y)'
  <2>1. <<p.id, p.status>> \in been'
    BY <1>3 DEF StoredOne
  <2>. QED
    BY <1>7, <2>1 DEF Truthful, Free
<1>9. CallTypes' /\ LiveLists' /\ LivePatchCalls' /\ AllWere'
  <2>1. ~IsLive(x, "list")
    BY <1>1 DEF IsLive
  <2>. QED
    BY <1>6, <1>7, <1>8, <2>1, OneCall
<1>10. TabTypes' /\ TabShape' /\ SourcesMatch'
  BY <1>4 DEF Inv, TabTypes, TabShape, SourcesMatch
<1>11. ASSUME NEW id \in (lastWord' \ overlapping') \ {p.id} PROVE Agrees(id)'
  <2>1. id \in lastWord \ overlapping /\ id \in ReqIds
    BY <1>2, <1>4 DEF Inv, Agree
  <2>2. ~LiveFor(x, id) /\ ~LiveFor(y, id)
    BY <1>7 DEF LiveFor
  <2>. QED
    BY <1>4, <1>5, <1>7, <2>1, <2>2, StillAgrees
<1>12. ASSUME NEW id \in lastWord' \ overlapping', id = p.id PROVE Agrees(id)'
  <2>1. p.live /\ res = "200"
    BY <1>2, <1>12
  <2>2. IsLive(x, "patch") /\ LiveFor(x, id)
    BY <1>1, <1>12, <2>1 DEF IsLive, LiveFor
  <2>3. tab'.rows # NoRows
    BY <1>4, <2>2 DEF Inv, LivePatchCalls
  <2>4. LiveFor(y, id) /\ y.at = "done" /\ y.res = "200" /\ y.of.status = p.status
    BY <1>7, <2>1, <2>2 DEF LiveFor, IsLive, Free
  <2>5. \A m \in Slots : calls'[m] = IF m = n THEN y ELSE calls[m]
    BY <1>7 DEF Inv, CallTypes
  <2>6. \A m \in Slots : LiveFor(calls'[m], id) => m = n
    BY <1>1, <1>4, <1>12, <2>2, <2>5 DEF Inv, LivePatchCalls
  <2>. QED
    BY <1>5, <1>12, <2>3, <2>4, <2>5, <2>6 DEF Agrees
<1>13. lastWord' \subseteq ReqIds
  BY <1>1, <1>2 DEF Inv, Agree
<1>14. Agree'
  <2>1. ASSUME NEW id \in lastWord' \ overlapping' PROVE Agrees(id)'
    BY <1>11, <1>12
  <2>. QED
    BY <1>13, <2>1 DEF Agree
<1>. QED
  BY <1>5, <1>9, <1>10, <1>14 DEF Inv

(* Loss, time and the others                                               *)

LEMMA FailStep == ASSUME Inv, NEW n \in Slots, Fail(n) PROVE Inv'
<1>. DEFINE x == calls[n]
<1>1. /\ x.at # "free" /\ x \in AnyCall /\ Respond(n, "error") /\ "error" \in Results
      /\ UNCHANGED <<page, tab, token, sources, clicks, requests, cached, been, others, overlapping>>
  BY DEF Fail, Unchanged, serverVars, Inv, CallTypes, Results
<1>2. CASE x.kind \in {"recaptcha", "login"}
  <2>1. CallsAlone
    BY <1>1, <1>2 DEF Fail, CallsAlone
  <2>. QED
    BY <1>1, <1>2, <2>1, AloneStays, AnswerSimple
<1>3. CASE x.kind = "list"
  <2>. DEFINE y == [x EXCEPT !.at = "done", !.res = "error"]
  <2>1. CallsAlone
    BY <1>1, <1>3 DEF Fail, CallsAlone
  <2>2. x \in ListCalls
    BY <1>1, <1>3, Kinds DEF Free
  <2>3. /\ x.waited /\ y \in ListCalls /\ y.kind = "list" /\ y.res = "error" /\ y.of = x.of
        /\ y.at # "free"
    BY <1>1, <2>2 DEF ListCalls
  <2>4. calls' = [calls EXCEPT ![n] = y]
    BY <1>1, <2>3 DEF Respond
  <2>5. Truthful(x)
    BY DEF Inv, AllWere
  <2>. HIDE DEF y
  <2>6. y \in AnyCall /\ Truthful(y)
    BY <1>1, <1>3, <2>3, <2>5 DEF AnyCall, Truthful
  <2>7. /\ IsLive(y, "list") <=> IsLive(x, "list")
        /\ ~IsLive(y, "patch") /\ ~IsLive(x, "patch")
    BY <1>1, <1>3, <2>3 DEF IsLive
  <2>8. \A id : ~LiveFor(y, id) /\ ~LiveFor(x, id)
    BY <2>7 DEF LiveFor
  <2>. QED
    BY <2>1, <2>4, <2>6, <2>7, <2>8, AloneStays, QuietCall
<1>4. CASE x.kind = "patch"
  <2>1. lastWord' = lastWord \ {x.of.id}
    BY <1>4 DEF Fail
  <2>2. PICK y \in AnyCall :
           /\ calls' = [calls EXCEPT ![n] = y]
           /\ ~IsLive(y, "list")
           /\ IsLive(y, "patch") <=> IsLive(x, "patch")
           /\ \A id : LiveFor(y, id) <=> LiveFor(x, id)
           /\ \/ y = Free
              \/ /\ y.at = "done" /\ y.res = "error"
                 /\ y.kind = "patch" /\ y.of = x.of
    BY <1>1, <1>4, PatchAnswered
  <2>3. Stays
    BY <1>1 DEF Stays, Inv, AllWere
  <2>4. Truthful(y)'
    BY <2>2 DEF Truthful, Free
  <2>5. ~IsLive(x, "list")
    BY <1>4 DEF IsLive
  <2>6. CallTypes' /\ LiveLists' /\ LivePatchCalls' /\ AllWere'
    BY <2>2, <2>3, <2>4, <2>5, OneCall
  <2>7. \A id \in lastWord' \ overlapping : ~LiveFor(x, id)
    BY <2>1 DEF LiveFor
  <2>8. Agree'
    BY <1>1, <2>1, <2>2, <2>3, <2>7, StillAgree
  <2>9. ServerTypes' /\ TabTypes' /\ TabShape' /\ SourcesMatch'
    BY <1>1 DEF Inv, ServerTypes, TabTypes, TabShape, SourcesMatch
  <2>. QED
    BY <2>6, <2>8, <2>9 DEF Inv
<1>. QED
  BY <1>1, <1>2, <1>3, <1>4, Kinds DEF Free

Aged(tok) == IF tok = "valid" THEN "expired" ELSE tok
AgedCall(x) == IF x.at # "free" /\ x.kind \in {"list", "patch"}
               THEN [x EXCEPT !.of.auth = Aged(@)] ELSE x

LEMMA AgedCalls ==
    ASSUME NEW x \in AnyCall
    PROVE  /\ AgedCall(x) \in AnyCall
           /\ AgedCall(x).at = x.at
           /\ \A kind \in {"list", "patch"} : IsLive(AgedCall(x), kind) <=> IsLive(x, kind)
           /\ \A id : LiveFor(AgedCall(x), id) <=> LiveFor(x, id)
           /\ Truthful(x) => Truthful(AgedCall(x))
           /\ IsLive(x, "patch") => /\ AgedCall(x).res = x.res
                                    /\ AgedCall(x).of.status = x.of.status
<1>. DEFINE y == [x EXCEPT !.of.auth = Aged(@)]
<1>1. \A tok \in AnyTok : Aged(tok) \in AnyTok
  BY DEF AnyTok, Tokens, Aged, NoTok
<1>2. CASE x.at # "free" /\ x.kind = "list"
  <2>1. x \in ListCalls /\ AgedCall(x) = y
    BY <1>2, Kinds DEF Free, AgedCall
  <2>2. /\ y \in ListCalls /\ y.at = x.at /\ y.kind = "list" /\ y.res = x.res
        /\ y.of.rows = x.of.rows /\ y.of.live = x.of.live
    BY <1>1, <1>2, <2>1 DEF ListCalls, ListOf
  <2>. HIDE DEF y
  <2>3. y \in AnyCall
    BY <2>2 DEF AnyCall
  <2>4. \A kind \in {"list", "patch"} : IsLive(y, kind) <=> IsLive(x, kind)
    BY <1>2, <2>2 DEF IsLive
  <2>5. ~IsLive(y, "patch") /\ ~IsLive(x, "patch")
    BY <1>2, <2>2 DEF IsLive
  <2>6. Truthful(x) => Truthful(y)
    BY <1>2, <2>2 DEF Truthful
  <2>. QED
    BY <2>1, <2>2, <2>3, <2>4, <2>5, <2>6 DEF LiveFor
<1>3. CASE x.at # "free" /\ x.kind = "patch"
  <2>1. x \in PatchCalls /\ AgedCall(x) = y /\ (x.of.live => x.waited)
    BY <1>3, Kinds DEF Free, AgedCall
  <2>2. /\ y \in PatchCalls /\ y.at = x.at /\ y.kind = "patch" /\ y.res = x.res
        /\ y.of.id = x.of.id /\ y.of.status = x.of.status
        /\ y.of.live = x.of.live /\ y.waited = x.waited
    BY <1>1, <1>3, <2>1 DEF PatchCalls, PatchOf
  <2>. HIDE DEF y
  <2>3. y \in AnyCall
    BY <2>1, <2>2 DEF AnyCall
  <2>4. \A kind \in {"list", "patch"} : IsLive(y, kind) <=> IsLive(x, kind)
    BY <1>3, <2>2 DEF IsLive
  <2>5. \A id : LiveFor(y, id) <=> LiveFor(x, id)
    BY <2>2, <2>4 DEF LiveFor
  <2>6. Truthful(x) => Truthful(y)
    BY <1>3, <2>2 DEF Truthful
  <2>. QED
    BY <2>1, <2>2, <2>3, <2>4, <2>5, <2>6
<1>4. CASE ~(x.at # "free" /\ x.kind \in {"list", "patch"})
  BY <1>4 DEF AgedCall
<1>. QED
  BY <1>2, <1>3, <1>4

LEMMA ExpireStep == ASSUME Inv, Expire PROVE Inv'
<1>1. /\ UNCHANGED <<page, sources, clicks, requests, cached, been, others, lastWord, overlapping>>
      /\ token' = Aged(token) /\ tab' = [tab EXCEPT !.auth = Aged(@)]
  BY DEF Expire, Aged, serverVars, historyVars
<1>2. calls' = [m \in Slots |-> AgedCall(calls[m])]
  BY DEF Expire, Aged, AgedCall
<1>3. \A tok \in Tokens : Aged(tok) \in Tokens /\ (Aged(tok) = NoTok <=> tok = NoTok)
  BY DEF Tokens, Aged, NoTok
<1>4. /\ tab'.rows = tab.rows /\ tab'.view = tab.view /\ tab'.dialog = tab.dialog
      /\ tab'.auth = NoTok <=> tab.auth = NoTok
  BY <1>1, <1>3 DEF Inv, TabTypes
<1>5. TabTypes'
  BY <1>1, <1>3 DEF Inv, TabTypes
<1>6. TabShape' /\ SourcesMatch' /\ ServerTypes'
  BY <1>1, <1>4 DEF Inv, TabShape, SourcesMatch, ServerTypes
<1>7. \A m \in Slots :
         /\ calls'[m] \in AnyCall /\ calls'[m].at = calls[m].at
         /\ \A kind \in {"list", "patch"} : IsLive(calls'[m], kind) <=> IsLive(calls[m], kind)
         /\ \A id : LiveFor(calls'[m], id) <=> LiveFor(calls[m], id)
         /\ Truthful(calls[m]) => Truthful(calls'[m])
         /\ IsLive(calls[m], "patch") => /\ calls'[m].res = calls[m].res
                                         /\ calls'[m].of.status = calls[m].of.status
  BY <1>2, AgedCalls DEF Inv, CallTypes
<1>8. CallTypes'
  BY <1>2, <1>7 DEF CallTypes
<1>9. LiveLists' /\ LivePatchCalls'
  BY <1>1, <1>4, <1>7 DEF Inv, LiveLists, LivePatchCalls, Loading
<1>10. AllWere'
  <2>1. Were(tab.rows)' /\ Were(cached)' /\ \A x : Truthful(x) => Truthful(x)'
    BY <1>1, <1>4 DEF Inv, AllWere, Were, Truthful
  <2>. QED
    BY <1>1, <1>7, <2>1 DEF Inv, AllWere
<1>11. Agree'
  <2>1. ASSUME NEW id \in lastWord \ overlapping PROVE Agrees(id)'
    <3>1. Agrees(id)
      BY DEF Inv, Agree
    <3>2. \A m \in Slots : LiveFor(calls[m], id) => IsLive(calls[m], "patch")
      BY DEF LiveFor
    <3>. QED
      BY <1>1, <1>4, <1>7, <3>1, <3>2 DEF Agrees
  <2>. QED
    BY <1>1, <2>1 DEF Inv, Agree
<1>. QED
  BY <1>5, <1>6, <1>8, <1>9, <1>10, <1>11 DEF Inv

LEMMA OthersStep == ASSUME Inv, OtherTab \/ Refresh PROVE Inv'
<1>1. /\ UNCHANGED <<page, calls, tab, sources, clicks, requests, been, lastWord, overlapping>>
  BY DEF OtherTab, Refresh, browserVars, historyVars
<1>2. token' \in Tokens /\ others' \in 0 .. MaxOthers
  BY BoundsAssumption DEF OtherTab, Refresh, browserVars, Inv, TabTypes, ServerTypes, Tokens
<1>3. cached' \in RowsSets /\ Were(cached')
  BY StatusesAreRows DEF OtherTab, Refresh, Inv, ServerTypes, AllWere, Rows, RowsSets
<1>4. TabTypes' /\ CallTypes' /\ TabShape' /\ SourcesMatch' /\ LiveLists' /\ LivePatchCalls'
  BY <1>1, <1>2
     DEF Inv, TabTypes, CallTypes, TabShape, SourcesMatch, LiveLists, LivePatchCalls, Loading
<1>5. ServerTypes' /\ AllWere' /\ Agree'
  BY <1>1, <1>2, <1>3 DEF Inv, ServerTypes, AllWere, Were, Truthful, Agree, Agrees
<1>. QED
  BY <1>4, <1>5 DEF Inv

(* A click that decides: another call under way for its row.                *)
LEMMA DecisionStep ==
    ASSUME Inv, NEW id \in ReqIds, NEW status \in Statuses \ {"Pending"},
           OnStatusChange(id, status), tab.rows # NoRows, TabStays
    PROVE  Inv'
<1>0. PICK y : y = PatchCall(id, status)
  OBVIOUS
<1>1. PICK n \in Slots : calls[n] = Free /\ calls' = [calls EXCEPT ![n] = y]
  BY <1>0, FreeSlot DEF OnStatusChange
<1>2. UNCHANGED <<page, token, sources, requests, cached, been, others, lastWord>>
  BY DEF OnStatusChange, serverVars
<1>3. tab.auth \in AnyTok
  BY DEF Inv, TabTypes, TabShape, AnyTok
<1>4. /\ y \in PatchCalls /\ y.at = "sent" /\ y.kind = "patch" /\ y.res = ""
      /\ y.of.live = TRUE /\ y.of.id = id /\ y.waited = TRUE
  BY <1>0, <1>3 DEF PatchCall, Call, PatchCalls, PatchOf, Results
<1>5. y \in AnyCall /\ Truthful(y)' /\ ~IsLive(y, "list") /\ IsLive(y, "patch")
  BY <1>4 DEF AnyCall, Truthful, IsLive
<1>6. /\ LiveFor(y, id) /\ \A r : r # id => ~LiveFor(y, r)
      /\ \A kind : ~IsLive(Free, kind)
      /\ \A r : ~LiveFor(Free, r)
  BY <1>4, <1>5 DEF LiveFor, IsLive, Free
<1>7. \A m \in Slots : calls'[m] = IF m = n THEN y ELSE calls[m]
  BY <1>1 DEF Inv, CallTypes
<1>8. tab'.rows = tab.rows /\ tab'.view = tab.view /\ tab'.auth = tab.auth
  BY DEF TabStays
<1>9. /\ overlapping \subseteq overlapping'
      /\ id \notin overlapping' => \A m \in Slots : ~LiveFor(calls[m], id)
  BY DEF OnStatusChange, LivePatches, UnderWay, LiveFor, IsLive
<1>10. ServerTypes' /\ TabTypes' /\ TabShape' /\ SourcesMatch'
  <2>1. clicks' \in 0 .. MaxDecisions
    BY BoundsAssumption DEF OnStatusChange, Inv, TabTypes
  <2>. QED
    BY <1>2, <1>8, <2>1 DEF TabStays, Inv, ServerTypes, TabTypes, TabShape, SourcesMatch
<1>11. CallTypes'
  BY <1>1, <1>5 DEF Inv, CallTypes
<1>12. LiveLists'
  <2>1. \A m \in Slots : IsLive(calls'[m], "list") <=> IsLive(calls[m], "list")
    BY <1>1, <1>5, <1>6, <1>7
  <2>. QED
    BY <1>8, <2>1 DEF Inv, LiveLists, Loading
<1>13. LivePatchCalls'
  <2>1. ASSUME NEW r \in ReqIds \ overlapping', NEW k \in Slots, NEW m \in Slots,
               LiveFor(calls'[k], r), LiveFor(calls'[m], r)
        PROVE  k = m
    BY <1>6, <1>7, <1>9, <2>1 DEF Inv, LivePatchCalls
  <2>. QED
    BY <1>8, <2>1 DEF LivePatchCalls
<1>14. AllWere'
  <2>1. Were(tab.rows)' /\ Were(cached)' /\ \A x : Truthful(x) => Truthful(x)'
    BY <1>2, <1>8 DEF Inv, AllWere, Were, Truthful
  <2>. QED
    BY <1>2, <1>5, <1>7, <2>1 DEF Inv, AllWere
<1>15. ASSUME NEW r \in lastWord' \ overlapping' PROVE Agrees(r)'
  <2>1. Agrees(r)
    BY <1>2, <1>9 DEF Inv, Agree
  <2>2. CASE r # id
    <3>1. \A m \in Slots : /\ LiveFor(calls'[m], r) <=> LiveFor(calls[m], r)
                           /\ LiveFor(calls'[m], r) => calls'[m] = calls[m]
      BY <1>1, <1>6, <1>7, <2>2
    <3>. QED
      BY <1>2, <1>8, <2>1, <3>1 DEF Agrees
  <2>3. CASE r = id
    <3>1. tab.rows[r] = requests[r].status
      BY <1>9, <2>1, <2>3 DEF Agrees
    <3>2. \A m \in Slots : LiveFor(calls'[m], r) => m = n
      BY <1>7, <1>9, <2>3
    <3>3. calls'[n].at = "sent" /\ LiveFor(calls'[n], r)
      BY <1>4, <1>6, <1>7, <2>3
    <3>. QED
      BY <1>2, <1>8, <2>1, <3>1, <3>2, <3>3 DEF Agrees
  <2>. QED
    BY <2>2, <2>3
<1>16. Agree'
  BY <1>2, <1>15 DEF Inv, Agree
<1>. QED
  BY <1>10, <1>11, <1>12, <1>13, <1>14, <1>16 DEF Inv

LEMMA DecideStep ==
    ASSUME Inv, NEW id \in ReqIds, NEW status \in {"Approved", "Denied"}, Decide(id, status)
    PROVE  Inv'
<1>1. TabStays /\ tab.rows # NoRows /\ OnStatusChange(id, status)
  BY TabSame DEF Decide, Row
<1>2. status \in Statuses \ {"Pending"}
  BY DEF Statuses
<1>. QED
  BY <1>1, <1>2, DecisionStep

LEMMA OnConfirmActionStep == ASSUME Inv, OnConfirmAction PROVE Inv'
<1>1. tab.dialog \in ReqIds \X Actions /\ tab.rows # NoRows
  BY DEF OnConfirmAction, Inv, TabTypes, TabShape
<1>2. tab.dialog[1] \in ReqIds /\ tab.dialog[2] \in Statuses \ {"Pending"}
  BY <1>1 DEF Actions, Statuses
<1>3. TabStays /\ OnStatusChange(tab.dialog[1], tab.dialog[2])
  BY DEF OnConfirmAction, TabStays, Inv, TabTypes
<1>. QED
  BY <1>1, <1>2, <1>3, DecisionStep

-----------------------------------------------------------------------------
(* The theorems                                                            *)

LEMMA NextInv == Inv /\ [Next]_vars => Inv'
<1>. SUFFICES ASSUME Inv, [Next]_vars PROVE Inv'
  OBVIOUS
<1>1. CASE User
  BY <1>1, LoadStep, OnChangeStep, ShowLandingStep, ShowMetricsStep, DialogStep, DecideStep,
     OnConfirmActionStep DEF User, Actions
<1>2. ASSUME NEW n \in Slots, Callback(n) PROVE Inv'
  BY <1>2, SignInStep, SignedInStep, ListedStep, NotListedStep, PatchedStep, NotPatchedStep
     DEF Callback
<1>3. ASSUME NEW n \in Slots, Serve(n) PROVE Inv'
  BY <1>3, SignInStep, RespondListStep, FindRequestStep, UpdateRequestStep, FailStep DEF Serve
<1>4. CASE UNCHANGED vars
  <2>1. calls' = calls /\ CallsAlone
    BY <1>4 DEF vars, browserVars, serverVars, historyVars, CallsAlone
  <2>. QED
    BY <2>1, AloneStays, NoCall
<1>. QED
  BY <1>1, <1>2, <1>3, <1>4, OnResolvedStep, ExpireStep, OthersStep, ElsewhereStep DEF Next

(* The invariant holds whatever the user, the server and the others do.     *)
THEOREM Invariant == Spec => []Inv
  BY InitInv, NextInv, PTL DEF Spec

(* Every variable of the dashboard keeps its type: calls, the state of the   *)
(* mounted components, what is stored.                                     *)
THEOREM DashboardTypes == Spec => []TypeOK
<1>1. ASSUME CallTypes, NEW n \in Slots PROVE CallOK(calls[n])
  <2>. DEFINE x == calls[n]
  <2>1. x \in AnyCall
    BY <1>1 DEF CallTypes
  <2>. HIDE DEF x
  <2>2. CASE x = Free
    BY <2>2 DEF CallOK, x
  <2>3. CASE x \in SimpleCalls
    <3>1. x.at \in {"sent", "done"} /\ x.kind \in {"recaptcha", "login"} /\ x.of = <<>> /\ x.waited
      BY <2>3 DEF SimpleCalls
    <3>. QED
      BY <3>1 DEF CallOK, Subjects, x
  <2>4. CASE x \in ListCalls
    <3>1. x.at \in {"sent", "done"} /\ x.kind = "list" /\ x.of \in ListOf /\ x.waited
      BY <2>4 DEF ListCalls
    <3>. QED
      BY <3>1 DEF CallOK, Subjects, ListOf, AnyTok, x
  <2>5. CASE x \in PatchCalls /\ (x.of.live => x.waited)
    <3>1. /\ x.at \in {"sent", "update", "done"} /\ x.kind = "patch" /\ x.of \in PatchOf
          /\ ~x.waited => ~x.of.live
      BY <2>5 DEF PatchCalls
    <3>. QED
      BY <3>1 DEF CallOK, Subjects, PatchOf, AnyTok, x
  <2>. QED
    BY <2>1, <2>2, <2>3, <2>4, <2>5 DEF AnyCall
<1>2. Inv => TypeOK
  BY <1>1 DEF Inv, TypeOK, ServerTypes, TabTypes, RequestsTypeOK, Created, Actions
<1>. QED
  BY <1>2, Invariant, PTL

(* The table agrees with what was stored last from here, where no two calls  *)
(* were made for a row at a time.                                          *)
THEOREM TableAgrees == Spec => []RowsAgree
<1>1. ASSUME Agree, NEW id \in lastWord \ overlapping, LivePatches(id) = {}
      PROVE  tab.rows[id] = requests[id].status
  <2>1. \A n \in Slots : ~LiveFor(calls[n], id)
    BY <1>1 DEF LivePatches, UnderWay, LiveFor, IsLive
  <2>. QED
    BY <1>1, <2>1 DEF Agree, Agrees
<1>2. Inv => RowsAgree
  BY <1>1 DEF Inv, RowsAgree
<1>. QED
  BY <1>2, Invariant, PTL

(* No row shows a status the request has never had.                        *)
THEOREM TableWasStored == Spec => []RowsWereStored
<1>1. Inv => RowsWereStored
  BY DEF Inv, AllWere, Were, RowsWereStored
<1>. QED
  BY <1>1, Invariant, PTL

(* "Loading..." has a call under way that will end it.                      *)
THEOREM LoadingEnds == Spec => []LoadingHasCall
<1>1. LiveLists => LoadingHasCall
  BY DEF LiveLists, Loading, LoadingHasCall, UnderWay, IsLive
<1>2. Inv => LoadingHasCall
  BY <1>1 DEF Inv
<1>. QED
  BY <1>2, Invariant, PTL

(* The source of statistics is open exactly while the metrics are shown.    *)
THEOREM SourcesClosed == Spec => []SourcesMatch
<1>1. Inv => SourcesMatch
  BY DEF Inv
<1>. QED
  BY <1>1, Invariant, PTL
=============================================================================
