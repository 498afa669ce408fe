------------------------------ MODULE Dashboard ------------------------------
(***************************************************************************)
(* The dashboard in one browser tab: the sign-in page (Login.js), the two   *)
(* views behind it (Dashboard.js), the table of requests (landing.js,       *)
(* Table.js) and the source of statistics (metrics.js), with the handlers   *)
(* they call.  The token is in the browser's localStorage, which the other  *)
(* tabs share.                                                              *)
(***************************************************************************)
EXTENDS RequestStore, Browser

CONSTANTS MaxOthers,     \* bound: steps of other tabs, ops and dashboards
          MaxDecisions   \* bound: clicks that decide

ASSUME BoundsAssumption == MaxOthers \in Nat /\ MaxDecisions \in Nat

\* NoRows stands for null (landing.js: requests): no list of rows is taken for it.
ASSUME SomeRequest == ReqIds # {}

VARIABLES token,       \* localStorage
          tab,         \* the state of the mounted components
          clicks,      \* the clicks that decided
          others,      \* those steps
          sources,     \* the EventSources that are open
          cached,      \* the cached list of requests
          been,        \* history: <<request, status>> that were stored
          lastWord,    \* history: the requests whose status was stored last for
                       \* the mounted table, and not answered with an error
          overlapping  \* history: the requests for which the mounted table has
                       \* made two calls at a time

browserVars == <<page, calls, token, tab, sources, clicks>>
serverVars == <<requests, cached, been, others>>
historyVars == <<lastWord, overlapping>>
vars == <<browserVars, serverVars, historyVars>>

NoTok == "none"
Tokens == {NoTok, "valid", "expired"}
NoRows == <<>>
NoDialog == <<>>
SignIn == [path |-> "/login"]
Board == [path |-> "/dashboard"]

\* Login; Dashboard with Landing, before the list has come.
SignInTab == [view |-> "login", auth |-> NoTok, rows |-> NoRows,
              dialog |-> NoDialog, captcha |-> FALSE]
LandingTab(tok) == [SignInTab EXCEPT !.view = "landing", !.auth = tok]
MetricsTab == [SignInTab EXCEPT !.view = "metrics"]

ListCall(tok) == Call("list", [live |-> TRUE, auth |-> tok, rows |-> NoRows])
PatchCall(id, status) ==
    Call("patch", [live |-> TRUE, auth |-> tab.auth, id |-> id, status |-> status])

\* The components that made these calls are unmounted; their callbacks run
\* all the same.
Orphaned(c) == [n \in Slots |->
                  IF c[n].at # "free" /\ c[n].kind \in {"list", "patch"}
                  THEN [c[n] EXCEPT !.of.live = FALSE] ELSE c[n]]

\* Mutant: the source stays open.
SourcesLeft == sources

\* Metrics, componentWillUnmount
SourcesAfterUnmount == IF tab.view = "metrics" THEN sources - 1 ELSE sources

\* Mutant: Landing asks for the list without a token.
ArriveAnyway(c, tok) ==
    /\ Room(c, 1)
    /\ page' = Board /\ tab' = LandingTab(tok) /\ calls' = With(c, ListCall(tok))
    /\ lastWord' = {} /\ overlapping' = {}

\* Either address leads to Login without a token, and to Landing with one:
\* Login's renderRedirect, Landing's componentDidMount.
Arrive(c, tok) ==
    /\ IF tok = NoTok
         THEN page' = SignIn /\ tab' = SignInTab /\ calls' = c
         ELSE /\ Room(c, 1)
              /\ page' = Board /\ tab' = LandingTab(tok) /\ calls' = With(c, ListCall(tok))
    /\ lastWord' = {} /\ overlapping' = {}

\* history.push: a component that is shown already stays mounted, but Login is
\* rendered again and may redirect.
Push(to, c, tok) ==
    IF page = to /\ ~(to = SignIn /\ tok # NoTok)
      THEN calls' = c /\ UNCHANGED <<page, tab, sources, historyVars>>
      ELSE Arrive(Orphaned(c), tok) /\ sources' = SourcesAfterUnmount

Freed(n) == [calls EXCEPT ![n] = Free]

\* The address is typed in, or the page is reloaded.  Bound: not while a list
\* is awaited.
Load == /\ UnderWay({"list"}) = {}
        /\ Arrive(Abandoned(Orphaned(calls)), token)
        /\ sources' = 0
        /\ UNCHANGED <<token, clicks, serverVars>>

-----------------------------------------------------------------------------
(* Login.js                                                                *)

\* onChange renders Login again: another tab may have signed in.
OnChange == /\ page = SignIn /\ token # NoTok
            /\ Push(SignIn, calls, token)
            /\ UNCHANGED <<token, clicks, serverVars>>

\* login
SubmitLogin == /\ page = SignIn
               /\ tab' = [tab EXCEPT !.captcha = TRUE]
               /\ UNCHANGED <<page, calls, token, sources, clicks, serverVars, historyVars>>

\* onResolved, called by the widget.
OnResolved ==
    /\ tab.captcha /\ Room(calls, 1)
    /\ tab' = [tab EXCEPT !.captcha = FALSE]
    /\ calls' = With(calls, Call("recaptcha", <<>>))
    /\ UNCHANGED <<page, token, sources, clicks, serverVars, historyVars>>

CaptchaAnswered(n) ==
    /\ Answered(n, "recaptcha")
    /\ IF calls[n].res = "success" THEN Then(n, Call("login", <<>>)) ELSE Settle(n)
    /\ UNCHANGED <<page, tab, token, sources, clicks, serverVars, historyVars>>

SignedIn(n) ==
    /\ Answered(n, "login") /\ calls[n].res = "200"
    /\ token' = "valid"
    /\ Push(Board, Freed(n), "valid")
    /\ UNCHANGED <<clicks, serverVars>>

\* An alert for wrong credentials, nothing for another error.
NotSignedIn(n) ==
    /\ Answered(n, "login") /\ calls[n].res # "200"
    /\ Settle(n)
    /\ UNCHANGED <<page, tab, token, sources, clicks, serverVars, historyVars>>

-----------------------------------------------------------------------------
(* landing.js                                                              *)

Listed(n) ==
    /\ Answered(n, "list") /\ calls[n].res = "200"
    /\ tab' = IF calls[n].of.live THEN [tab EXCEPT !.rows = calls[n].of.rows] ELSE tab
    /\ Settle(n)
    /\ UNCHANGED <<page, token, sources, clicks, serverVars, historyVars>>

\* Mutant: the token stays.
NotListedKeepsToken(n) ==
    /\ Answered(n, "list") /\ calls[n].res # "200"
    /\ Push(SignIn, Freed(n), token)
    /\ UNCHANGED <<token, clicks, serverVars>>

\* Mutant: only the token is cleared.
NotListedStays(n) ==
    /\ Answered(n, "list") /\ calls[n].res # "200"
    /\ token' = NoTok /\ Settle(n)
    /\ UNCHANGED <<page, tab, sources, clicks, serverVars, historyVars>>

\* Any error, whichever token the call was made with, mounted or not.
NotListed(n) ==
    /\ Answered(n, "list") /\ calls[n].res # "200"
    /\ token' = NoTok
    /\ Push(SignIn, Freed(n), NoTok)
    /\ UNCHANGED <<clicks, serverVars>>

-----------------------------------------------------------------------------
(* Dashboard.js and metrics.js                                             *)

\* handleSwitchView("landing"): Metrics is unmounted, Landing mounted.
ShowLanding ==
    /\ tab.view = "metrics"
    /\ Arrive(calls, token) /\ sources' = SourcesAfterUnmount
    /\ UNCHANGED <<token, clicks, serverVars>>

\* handleSwitchView("metrics"): Landing and its table are unmounted; the
\* constructor of Metrics opens a source.
ShowMetrics ==
    /\ tab.view = "landing"
    /\ tab' = MetricsTab /\ calls' = Orphaned(calls) /\ sources' = sources + 1
    /\ lastWord' = {} /\ overlapping' = {}
    /\ UNCHANGED <<page, token, clicks, serverVars>>

-----------------------------------------------------------------------------
(* Table.js                                                                *)

LivePatches(id) == {n \in UnderWay({"patch"}) : calls[n].of.live /\ calls[n].of.id = id}

\* onStatusChange; the row and its buttons stay as they are.
OnStatusChange(id, status) ==
    /\ Room(calls, 1) /\ clicks < MaxDecisions
    /\ clicks' = clicks + 1
    /\ calls' = With(calls, PatchCall(id, status))
    /\ overlapping' = IF LivePatches(id) = {} THEN overlapping ELSE overlapping \cup {id}
    /\ UNCHANGED <<page, token, sources, serverVars, lastWord>>

Row(id, status) == tab.rows # NoRows /\ tab.rows[id] = status

\* Mutant: the row changes before the server has answered.
DecideAtOnce(id, status) ==
    /\ Row(id, "Pending") /\ tab.dialog = NoDialog
    /\ OnStatusChange(id, status)
    /\ tab' = [tab EXCEPT !.rows[id] = status]

\* render: the two actions on a pending request.
Decide(id, status) ==
    /\ Row(id, "Pending") /\ tab.dialog = NoDialog
    /\ OnStatusChange(id, status)
    /\ UNCHANGED tab

\* onAttemptAction: those on an approved one ask first.
OnAttemptAction(id, status) ==
    /\ Row(id, "Approved") /\ tab.dialog = NoDialog
    /\ tab' = [tab EXCEPT !.dialog = <<id, status>>]
    /\ UNCHANGED <<page, calls, token, sources, clicks, serverVars, historyVars>>

OnConfirmAction ==
    /\ tab.dialog # NoDialog
    /\ OnStatusChange(tab.dialog[1], tab.dialog[2])
    /\ tab' = [tab EXCEPT !.dialog = NoDialog]

HandleClose ==
    /\ tab.dialog # NoDialog
    /\ tab' = [tab EXCEPT !.dialog = NoDialog]
    /\ UNCHANGED <<page, calls, token, sources, clicks, serverVars, historyVars>>

\* Mutant: the row keeps its status.
PatchedForgets(n) ==
    /\ Answered(n, "patch") /\ calls[n].res = "200"
    /\ Settle(n)
    /\ UNCHANGED <<page, tab, token, sources, clicks, serverVars, historyVars>>

\* handleChangeRequestStatus
WithRow(id, status) == [tab EXCEPT !.rows[id] = status]

\* 200: the row as it was when the action was chosen, with the new status.
Patched(n) ==
    /\ Answered(n, "patch") /\ calls[n].res = "200"
    /\ tab' = IF calls[n].of.live THEN WithRow(calls[n].of.id, calls[n].of.status) ELSE tab
    /\ Settle(n)
    /\ UNCHANGED <<page, token, sources, clicks, serverVars, historyVars>>

\* An alert; the table has no history to push to, also after a 401.
NotPatched(n) ==
    /\ Answered(n, "patch") /\ calls[n].res # "200"
    /\ Settle(n)
    /\ UNCHANGED <<page, tab, token, sources, clicks, serverVars, historyVars>>

-----------------------------------------------------------------------------
(* The handlers behind the auth middleware (handler.internal.go), and the   *)
(* sign-in (handler.auth.go).                                              *)

Unchanged == UNCHANGED <<page, tab, token, sources, clicks>>
Valid(n) == calls[n].of.auth = "valid"

RespondLogin(n) ==
    /\ Asked(n, "login")
    /\ \E res \in {"200", "error"} : Respond(n, res)
    /\ Unchanged /\ UNCHANGED <<serverVars, historyVars>>

\* HandleGetRequests: the cached list, or the one in the database.
RespondList(n) ==
    /\ Asked(n, "list") /\ Valid(n)
    /\ calls' = [calls EXCEPT ![n].at = "done", ![n].res = "200",
                              ![n].of.rows = IF cached = NoRows THEN AllStatuses ELSE cached]
    /\ Unchanged /\ UNCHANGED <<serverVars, historyVars>>

\* HandleInternalPatchRequestByID finds the request, whatever its status, ...
FindRequest(n) ==
    /\ Asked(n, "patch") /\ Valid(n)
    /\ Proceed(n, "update")
    /\ Unchanged /\ UNCHANGED <<serverVars, historyVars>>

\* ... and writes; an error if the task is not published.
UpdateRequest(n) ==
    LET p == calls[n].of IN
    /\ AtStage(n, "update")
    /\ SetDecision(p.id, p.status, Admin)
    /\ been' = been \cup {<<p.id, p.status>>}
    /\ \E res \in {"200", "error"} :
          /\ Respond(n, res)
          /\ lastWord' = IF p.live /\ res = "200" THEN lastWord \cup {p.id}
                         ELSE lastWord \ {p.id}
    /\ Unchanged /\ UNCHANGED <<cached, others, overlapping>>

JudgeCaptcha(n) ==
    /\ RespondCaptcha(n)
    /\ Unchanged /\ UNCHANGED <<serverVars, historyVars>>

\* The token is refused (401), the database fails (500), or the call or its
\* answer is lost: the callbacks do not tell these apart.
Fail(n) ==
    /\ calls[n].at \in {"sent", "update", "done"} /\ calls[n].res # "error"
    /\ Respond(n, "error")
    /\ lastWord' = IF calls[n].kind = "patch" THEN lastWord \ {calls[n].of.id} ELSE lastWord
    /\ Unchanged /\ UNCHANGED <<serverVars, overlapping>>

\* An hour passes: every token there is has expired.
Expire ==
    LET aged(tok) == IF tok = "valid" THEN "expired" ELSE tok IN
    /\ "valid" \in {token, tab.auth}
    /\ token' = aged(token)
    /\ tab' = [tab EXCEPT !.auth = aged(@)]
    /\ calls' = [n \in Slots |->
                   IF calls[n].at # "free" /\ calls[n].kind \in {"list", "patch"}
                   THEN [calls[n] EXCEPT !.of.auth = aged(@)] ELSE calls[n]]
    /\ UNCHANGED <<page, sources, clicks, serverVars, historyVars>>

\* Another tab signs in, or clears the token.
OtherTab ==
    /\ others < MaxOthers /\ others' = others + 1
    /\ \E tok \in {NoTok, "valid"} : tok # token /\ token' = tok
    /\ UNCHANGED <<page, tab, calls, sources, clicks, requests, cached, been, historyVars>>

\* UpdateAllRequests in the worker.
Refresh ==
    /\ cached # AllStatuses /\ cached' = AllStatuses
    /\ UNCHANGED <<browserVars, requests, been, others, historyVars>>

\* An op, or somebody at another dashboard, decides on a pending request.
Elsewhere ==
    /\ others < MaxOthers
    /\ others' = others + 1
    /\ \E id \in Created, status \in {"Approved", "Denied"} :
          /\ requests[id].status = "Pending"
          /\ SetDecision(id, status, Admin)
          /\ lastWord' = lastWord \ {id}
          /\ been' = been \cup {<<id, status>>}
    /\ UNCHANGED <<browserVars, cached, overlapping>>

-----------------------------------------------------------------------------
Init ==
    /\ requests \in [ReqIds -> [username : Usernames, status : {"Pending"},
                                assignees : {{}}, admin : {Nobody}]]
    /\ been = ReqIds \X {"Pending"} /\ cached = NoRows
    /\ page = SignIn /\ tab = SignInTab /\ calls = NoCalls
    /\ token = NoTok /\ sources = 0 /\ clicks = 0 /\ others = 0
    /\ lastWord = {} /\ overlapping = {}

User == \/ Load \/ OnChange \/ SubmitLogin \/ ShowLanding \/ ShowMetrics
        \/ \E id \in ReqIds : \/ \E status \in {"Approved", "Denied"} : Decide(id, status)
                              \/ \E status \in {"Deactivated", "Banned"} :
                                    OnAttemptAction(id, status)
        \/ OnConfirmAction \/ HandleClose

Callback(n) == \/ CaptchaAnswered(n) \/ SignedIn(n) \/ NotSignedIn(n)
               \/ Listed(n) \/ NotListed(n) \/ Patched(n) \/ NotPatched(n)

Serve(n) == \/ RespondLogin(n) \/ RespondList(n)
            \/ FindRequest(n) \/ UpdateRequest(n) \/ JudgeCaptcha(n) \/ Fail(n)

Next == \/ User \/ OnResolved
        \/ \E n \in Slots : Callback(n) \/ Serve(n)
        \/ Expire \/ OtherTab \/ Refresh \/ Elsewhere

\* A handler goes on, an answer or an error arrives, and the browser runs the
\* callback.
Fairness == \A n \in Slots : WF_vars(Callback(n)) /\ WF_vars(Serve(n))

Spec == Init /\ [][Next]_vars /\ Fairness

-----------------------------------------------------------------------------
RowsSets == {NoRows} \cup [ReqIds -> Statuses]

Subjects(kind) ==
    CASE kind \in {"recaptcha", "login"} -> {<<>>}
      [] kind = "list"  -> [live : BOOLEAN, auth : Tokens \ {NoTok}, rows : RowsSets]
      [] kind = "patch" -> [live : BOOLEAN, auth : Tokens \ {NoTok}, id : ReqIds,
                            status : Statuses \ {"Pending"}]

CallOK(c) == c = Free \/ /\ c.at \in {"sent", "update", "done"}
                         /\ c.kind \in {"recaptcha", "login", "list", "patch"}
                         /\ c.of \in Subjects(c.kind)
                         /\ ~c.waited => c.kind = "patch" /\ ~c.of.live

TypeOK ==
    /\ RequestsTypeOK /\ Created = ReqIds
    /\ page \in {SignIn, Board}
    /\ token \in Tokens
    /\ tab \in [view : {"login", "landing", "metrics"}, auth : Tokens, rows : RowsSets,
                dialog : {NoDialog} \cup (ReqIds \X {"Deactivated", "Banned"}),
                captcha : BOOLEAN]
    /\ \A n \in Slots : CallOK(calls[n])
    /\ cached \in RowsSets
    /\ sources \in Nat /\ clicks \in 0 .. MaxDecisions
    /\ others \in 0 .. MaxOthers /\ been \subseteq ReqIds \X Statuses

(* The table does not contradict the one who uses it: when every call for a *)
(* request is over and the status that was stored last was asked for here   *)
(* and answered 200, the row shows it, whatever else was answered, lost,    *)
(* refreshed or unmounted meanwhile.  This fails only where two calls were  *)
(* made for the same row before the first was answered: their answers are   *)
(* taken as they come (Table.js:46-61), not as they were stored.            *)
RowsAgree ==
    \A id \in lastWord \ overlapping :
       LivePatches(id) = {} => tab.rows[id] = requests[id].status

(* A row shows a status the request has had: neither the cached list nor a  *)
(* decision that is refused, lost or still under way puts another there     *)
(* (landing.js:54-56, Table.js:46-47).                                      *)
RowsWereStored ==
    tab.rows # NoRows =>
       \A id \in ReqIds : <<id, tab.rows[id]>> \in been

(* The view that says "Loading..." has a call under way that will end it    *)
(* (landing.js:54-67, 82-84), also when the user has come here by a redirect*)
(* or by the answer to an earlier visit.                                    *)
LoadingHasCall ==
    tab.view = "landing" /\ tab.rows = NoRows =>
       \E n \in UnderWay({"list"}) : calls[n].of.live

(* One source of statistics is open while the metrics are shown and none    *)
(* otherwise, however the view is left: by the menu, by a reload, or by the *)
(* answer to a call of the other view (metrics.js:82, 95).                  *)
SourcesMatch == sources = IF tab.view = "metrics" THEN 1 ELSE 0

(* "If invalid, token will be deleted and login is enforced" (Login.js:30): *)
(* once a list is asked for with an expired token, the token does not stay, *)
(* and the redirects between the two pages come to an end.                  *)
ExpiredEnds ==
    (\E n \in Slots : Asked(n, "list") /\ calls[n].of.auth = "expired") ~> token # "expired"
=============================================================================
