----------------------------- MODULE AdminAction -----------------------------
(***************************************************************************)
(* The op's page behind the link in a mail (AdminAction.js), the           *)
(* applicant's status page (CheckStatus.js), and the handlers they call.   *)
(* An encrypted token is the request or the op it stands for.              *)
(***************************************************************************)
EXTENDS RequestStore, Browser

VARIABLES view,        \* the state of the mounted page
          exempt,      \* history: the usernames of whom two applications were
                       \* served at once, or a closed request reopened
          been,        \* history: <<request, status, admin>> that were stored
          assigned     \* history: <<request, op>> that were matching tokens

Decisions == {"Approved", "Denied"}
NoToken == ""
NoRequest == "none"

\* constructor of either page
NewView == [invalid |-> FALSE, request |-> NoRequest]

\* componentDidMount of AdminAction: both calls at once, or no call.
MountAction(id, adm, c) ==
    IF adm = NoToken
    THEN view' = [NewView EXCEPT !.invalid = TRUE] /\ calls' = c
    ELSE /\ Room(c, 2)
         /\ view' = NewView
         /\ calls' = With(With(c, Call("verify", [id |-> id, adm |-> adm])),
                          Call("get", [id |-> id]))

\* componentDidMount of CheckStatus
MountStatus(id, c) ==
    /\ Room(c, 1)
    /\ view' = NewView
    /\ calls' = With(c, Call("get", [id |-> id]))

\* The rejection of getRequestByEncodedID or of verifyAdminToken.
Invalid == view' = [view EXCEPT !.invalid = TRUE]

\* Mutant: the page is invalid only if the server says so.
VerifyAnsweredByServer(n) ==
    /\ Answered(n, "verify")
    /\ IF calls[n].res = "400" THEN Invalid ELSE UNCHANGED view
    /\ Settle(n)

VerifyAnswered(n) ==
    /\ Answered(n, "verify")
    /\ IF calls[n].res = "200" THEN UNCHANGED view ELSE Invalid
    /\ Settle(n)

GetAnswered(n) ==
    /\ Answered(n, "get")
    /\ IF calls[n].res \in Statuses
         THEN view' = [view EXCEPT !.request = calls[n].res]
         ELSE Invalid
    /\ Settle(n)

\* AdminAction, render
ActionShows ==
    CASE ~view.invalid /\ view.request = "Pending" -> "form"
      [] view.request \in Decisions                -> "fulfilled"
      [] view.invalid /\ view.request \notin Decisions -> "invalid route"
      [] OTHER                                     -> "nothing"

\* CheckStatus, render: an empty button for a banned or deactivated user.
StatusShows ==
    CASE view.invalid -> "invalid"
      [] ~view.invalid /\ view.request \in Decisions \cup {"Pending"} -> view.request
      [] OTHER -> "nothing"

\* Mutant: the page shows the decision before the server has answered.
OnDecisionShown(status) ==
    /\ page.path = "/action" /\ ActionShows = "form"
    /\ Room(calls, 1)
    /\ calls' = With(calls, Call("decide",
                  [id |-> page.id, adm |-> page.adm, status |-> status]))
    /\ view' = [view EXCEPT !.request = status]

\* onDecision; the buttons stay enabled while it is under way.
OnDecision(status) ==
    /\ page.path = "/action" /\ ActionShows = "form"
    /\ Room(calls, 1)
    /\ calls' = With(calls, Call("decide",
                  [id |-> page.id, adm |-> page.adm, status |-> status]))
    /\ UNCHANGED view

\* 200: the alert "completed", then window.location.reload().
Completed(n) ==
    /\ Answered(n, "decide") /\ calls[n].res = "200"
    /\ MountAction(page.id, page.adm, Abandoned(calls))

\* 400: the alert about the token; another error: about the server.
Refused(n) ==
    /\ Answered(n, "decide") /\ calls[n].res # "200"
    /\ Settle(n) /\ UNCHANGED view

-----------------------------------------------------------------------------
(* The handlers (handler.external.go, common.go).                          *)

\* verifyMatchingTokens
TokensMatch(id, op) == id \in Created /\ op \in requests[id].assignees

RespondVerify(n) ==
    /\ Asked(n, "verify")
    /\ \/ TokensMatch(calls[n].of.id, calls[n].of.adm) /\ Respond(n, "200")
       \/ Respond(n, "400")

\* HandleGetRequestByID: the document, or the error's status.  MongoDB can
\* fail here and above: every error of verifyMatchingTokens is a 400.
RespondGet(n) ==
    /\ Asked(n, "get")
    /\ \/ calls[n].of.id \in Created /\ Respond(n, requests[calls[n].of.id].status)
       \/ Respond(n, "error")

\* HandlePatchRequestByID: the tokens and the status are checked, ...
CheckDecision(n) ==
    LET d == calls[n].of IN
    /\ Asked(n, "decide")
    /\ \/ /\ TokensMatch(d.id, d.adm) /\ requests[d.id].status = "Pending"
          /\ Proceed(n, "update")
       \/ Respond(n, "400")

\* History: the decision reopens a request that was denied or deactivated.
Reopening(id, status) ==
    exempt' = IF requests[id].status \notin Blocking /\ status \in Blocking
              THEN exempt \cup {requests[id].username}
              ELSE exempt

\* ... then the document is written, whatever its status has become, and the
\* task published or not.
UpdateDecision(n) ==
    LET d == calls[n].of IN
    /\ AtStage(n, "update")
    /\ SetDecision(d.id, d.status, d.adm)
    /\ Reopening(d.id, d.status)
    /\ \E res \in {"200", "500"} : Respond(n, res)

\* Mutant: no return after an error of UpdateRequest.
DecisionFailsWell(n) ==
    /\ AtStage(n, "update")
    /\ Respond(n, "200")

\* MongoDB fails.
DecisionFails(n) ==
    /\ AtStage(n, "update")
    /\ Respond(n, "500")

\* emailToOps, possibly once more for a redelivered task.
Assign(id, ops) ==
    /\ id \in Created /\ ops # {} /\ ops # requests[id].assignees
    /\ SetAssignees(id, ops)
    /\ assigned' = assigned \cup {<<id, op>> : op \in ops}

-----------------------------------------------------------------------------
ActionTypeOK ==
    /\ view \in [invalid : BOOLEAN, request : Statuses \cup {NoRequest}]
    /\ exempt \subseteq Usernames
    /\ been \subseteq ReqIds \X Statuses \X (Ops \cup {Admin, Nobody})
    /\ assigned \subseteq ReqIds \X Ops

(* "verify first before rending information that is only supposed to be     *)
(* displayed to relevant admin" (handler.external.go:171): the page asks    *)
(* for the request and for the verification at the same time and shows what *)
(* comes first, but when the verification is over, however it ended, the    *)
(* form stays only for an op who was an assignee of the request.            *)
FormForAssignees ==
    page.path = "/action" /\ ActionShows = "form" /\ UnderWay({"verify"}) = {} =>
       <<page.id, page.adm>> \in assigned

(* An op who is told "completed" has decided: the decision was stored under *)
(* the op's name, whatever was clicked twice, reloaded or lost on the way   *)
(* (AdminAction.js:97-102).                                                 *)
CompletedWasStored ==
    \A n \in Slots : Answered(n, "decide") /\ calls[n].res = "200" =>
       <<calls[n].of.id, calls[n].of.status, calls[n].of.adm>> \in been

(* The status an applicant or an op sees is one the request had, also after *)
(* a decision that failed or was refused (CheckStatus.js:36-44,             *)
(* AdminAction.js:54-61).                                                   *)
ShownWasStored ==
    LET shown == IF page.path = "/status" THEN StatusShows ELSE view.request IN
    shown \in Statuses =>
       \E admin \in Ops \cup {Admin, Nobody} : <<page.id, shown, admin>> \in been
=============================================================================
