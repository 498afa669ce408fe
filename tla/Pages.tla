-------------------------------- MODULE Pages --------------------------------
(***************************************************************************)
(* One browser tab that visits the pages of players and ops (App.js): the  *)
(* application form, the status page and the action page, while others     *)
(* decide on requests elsewhere and the worker assigns ops.                *)
(***************************************************************************)
EXTENDS Application, AdminAction

CONSTANTS Linked,        \* bound: the requests whose mails are read
          MaxElsewhere   \* bound: statuses stored by the dashboard

ASSUME LinkedAssumption == Linked \subseteq ReqIds /\ MaxElsewhere \in Nat

historyVars == <<exempt, been, assigned>>
pagesVars == <<page, calls, form, captcha, view>>
vars == <<requests, pagesVars, worldVars, historyVars>>

NoId == ""
Form == [path |-> "/", id |-> NoId, adm |-> NoToken]
Addresses ==
    {Form}
    \cup [path : {"/status"}, id : Linked, adm : {NoToken}]
    \cup [path : {"/action"}, id : Linked, adm : Ops \cup {NoToken}]

Init == /\ requests = NoDocuments
        /\ page = Form /\ calls = NoCalls
        /\ form = NewForm /\ captcha = FALSE /\ view = NewView
        /\ skins = [name \in Usernames |-> "default"]
        /\ carried = {} /\ exempt = {} /\ been = {} /\ assigned = {}

\* A link is followed, an address is typed in, or the page is reloaded.
Visit(to) ==
    /\ page' = to
    /\ form' = NewForm /\ captcha' = FALSE
    /\ CASE to.path = "/"       -> view' = NewView /\ calls' = Abandoned(calls)
         [] to.path = "/status" -> MountStatus(to.id, Abandoned(calls))
         [] to.path = "/action" -> MountAction(to.id, to.adm, Abandoned(calls))
    /\ UNCHANGED <<requests, worldVars, historyVars>>

UseForm == /\ page.path = "/"
           /\ Typed \/ ClearMessage
           /\ UNCHANGED <<requests, page, view, worldVars, historyVars>>

Challenged == /\ OnResolved
              /\ UNCHANGED <<requests, page, view, worldVars, historyVars>>

FormCallback(n) ==
    /\ \/ SkinFound(n) \/ SkinMissing(n) \/ SkinRejected(n)
       \/ CodeRead(n) \/ CaptchaAnswered(n) \/ CreateAnswered(n)
    /\ UNCHANGED <<requests, page, view, worldVars, historyVars>>

UseAction == /\ \E status \in Decisions : OnDecision(status)
             /\ UNCHANGED <<requests, page, formVars, worldVars, historyVars>>

ActionCallback(n) ==
    /\ VerifyAnswered(n) \/ GetAnswered(n) \/ Completed(n) \/ Refused(n)
    /\ UNCHANGED <<requests, page, formVars, worldVars, historyVars>>

\* A step of the server or of the network that writes no document.
Read(n) ==
    /\ \/ RespondSkin(n) \/ RespondCode(n) \/ RespondCaptcha(n)
       \/ RespondVerify(n) \/ RespondGet(n)
       \/ ValidateCreateRequest(n) \/ CreateFails(n)
       \/ CheckDecision(n) \/ DecisionFails(n) \/ NetworkError(n)
    /\ UNCHANGED <<requests, page, formVars, view, worldVars, historyVars>>

Inserting(name) == {n \in Slots : AtStage(n, "insert") /\ calls[n].of.name = name}

Write(n) ==
    /\ \/ /\ \E id \in ReqIds : InsertRequest(n, id)
          /\ exempt' = IF Inserting(calls[n].of.name) = {n} THEN exempt
                       ELSE exempt \cup {calls[n].of.name}
       \/ UpdateDecision(n)
    /\ been' = been \cup Stored'
    /\ UNCHANGED <<page, formVars, view, worldVars, assigned>>

\* Buttons on a dashboard row that shows the first status.
Lifecycle == {<<"Pending", "Approved">>, <<"Pending", "Denied">>,
              <<"Approved", "Deactivated">>, <<"Approved", "Banned">>}

\* Somebody decides on the dashboard, on a row that shows a status the request
\* has or had (module Dashboard).  The handler only looks whether the request
\* exists before it writes, and no request is ever deleted.
Elsewhere == /\ Cardinality({b \in been : b[3] = Admin}) < MaxElsewhere
             /\ \E id \in Created, status \in Statuses :
                  /\ \E b \in been : b[1] = id /\ <<b[2], status>> \in Lifecycle
                  /\ SetDecision(id, status, Admin)
                  /\ Reopening(id, status)
             /\ been' = been \cup Stored'
             /\ UNCHANGED <<pagesVars, worldVars, assigned>>

\* The worker stores the assignees and sends the mails.
Worker == /\ \E id \in Linked, ops \in SUBSET Ops : Assign(id, ops)
          /\ UNCHANGED <<pagesVars, worldVars, exempt, been>>

Player == /\ \E name \in Usernames, skin \in Skins : SetSkin(name, skin)
          /\ UNCHANGED <<requests, pagesVars, historyVars>>

Next == \/ \E to \in Addresses : Visit(to)
        \/ UseForm \/ Challenged \/ UseAction
        \/ \E n \in Slots : \/ FormCallback(n) \/ ActionCallback(n)
                            \/ Read(n) \/ Write(n)
        \/ Elsewhere \/ Worker \/ Player

\* A handler goes on, an answer or a network error arrives, and the browser
\* runs the callback.
Fairness == \A n \in Slots : /\ WF_vars(FormCallback(n) \/ ActionCallback(n))
                             /\ WF_vars(Read(n))

Spec == Init /\ [][Next]_vars /\ Fairness

-----------------------------------------------------------------------------
Subjects(kind) ==
    CASE kind \in {"skin", "create"} -> [name : Names]
      [] kind = "qr"                 -> [skin : Skins]
      [] kind = "recaptcha"          -> {<<>>}
      [] kind = "verify"             -> [id : ReqIds, adm : Ops]
      [] kind = "get"                -> [id : ReqIds]
      [] kind = "decide"             -> [id : ReqIds, adm : Ops, status : Decisions]

CallOK(c) == c = Free \/ /\ c.at \in {"sent", "insert", "update", "done"}
                         /\ c.kind \in Reads \cup Writes
                         /\ c.of \in Subjects(c.kind)
                         /\ ~c.waited => c.kind \in Writes /\ c.at # "done"

TypeOK == /\ RequestsTypeOK /\ ApplicationTypeOK /\ ActionTypeOK
          /\ page \in Addresses
          /\ \A n \in Slots : CallOK(calls[n])

\* Some request of the name was stored with the status.
HasBeen(name, status) ==
    \E b \in been : requests[b[1]].username = name /\ b[2] = status

(* "Disallow repeat/duplicate application from the same user" (README.md:77)*)
(* holds unless the server looks too early or not at all: somebody has two  *)
(* open requests only if two applications were both validated before either *)
(* was stored (handler.external.go:61), or if one that was denied or        *)
(* deactivated was decided on once more, by an op who had passed the check  *)
(* of the status before (116) or from a dashboard row that was out of date, *)
(* where there is no check (handler.internal.go:61).                        *)
OneOpenRequest ==
    \A user \in Usernames :
       Cardinality(Matching(user, Blocking)) > 1 => user \in exempt

(* What the form tells an applicant is true (Application.js:82-115): after  *)
(* "success" there is an application of the name in the form, also when     *)
(* something else was submitted meanwhile, and a refusal names a status     *)
(* that a request of this name had.                                         *)
AnswersAreTrue ==
    /\ form.success \/ form.errorMsg = "repeat" => HasBeen(form.username, "Pending")
    /\ form.errorMsg = "already approved" => HasBeen(form.username, "Approved")
    /\ form.errorMsg = "banned" => HasBeen(form.username, "Banned")
=============================================================================
