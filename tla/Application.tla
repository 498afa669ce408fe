----------------------------- MODULE Application -----------------------------
(***************************************************************************)
(* The application form (Application.js) and the server side of what it    *)
(* asks: the skin of a username, reCAPTCHA, a new request.  A username is   *)
(* verified when the player's skin is a QR code saying "verified".         *)
(***************************************************************************)
EXTENDS RequestStore, Browser

VARIABLES form,        \* the component's state
          captcha,     \* reCAPTCHA has been asked for a challenge
          skins,       \* Mojang: each player's skin
          carried      \* history: the players whose skin has been the code

formVars == <<form, captcha>>
worldVars == <<skins, carried>>

Blank == ""
Unknown == "unknown"     \* a name no player has
Names == Usernames \cup {Unknown}
Skins == {"default", "picture", "code"}   \* no URL, a picture, the QR code

\* constructor
NewForm == [username |-> Blank, verified |-> FALSE, loading |-> FALSE,
            errorMsg |-> "", success |-> FALSE]

\* Mutant: the input can be edited while the verification runs.
UsernameInputUntilVerified == ~form.verified

\* render: which parts of the form can be used.
UsernameInput == ~form.verified /\ ~form.loading
VerifyButton == ~form.verified /\ ~form.loading
SubmitButton == form.verified /\ form.username # Blank

\* handleInputChange; the other fields do not matter here.
EditUsername(name) ==
    /\ UsernameInput
    /\ form' = [form EXCEPT !.username = name]
    /\ UNCHANGED <<captcha, calls>>

\* render starts a timer with every rendering of a message, and each clears
\* whatever message is there when it fires, a new one at any time.
ClearMessage ==
    /\ form.errorMsg # ""
    /\ form' = [form EXCEPT !.errorMsg = ""]
    /\ UNCHANGED <<captcha, calls>>

\* One of five messages, by what is missing, the answer's status or the skin.
Unverified == "not verified"

\* onVerifyUsername without a name: the spinner is on and stays on.
VerifyBlank ==
    /\ VerifyButton /\ form.username = Blank
    /\ form' = [form EXCEPT !.loading = TRUE, !.errorMsg = Unverified]
    /\ UNCHANGED <<captcha, calls>>

VerifyUsername ==
    /\ VerifyButton /\ form.username # Blank
    /\ Room(calls, 1)
    /\ form' = [form EXCEPT !.loading = TRUE]
    /\ calls' = With(calls, Call("skin", [name |-> form.username]))
    /\ UNCHANGED captcha

\* getSkinImage resolved with a URL, ...
SkinFound(n) ==
    /\ Answered(n, "skin") /\ calls[n].res \in {"picture", "code"}
    /\ Then(n, Call("qr", [skin |-> calls[n].res]))
    /\ UNCHANGED formVars

\* ... without one: a message, and no setState({loading: false}), ...
SkinMissing(n) ==
    /\ Answered(n, "skin") /\ calls[n].res = "default"
    /\ form' = [form EXCEPT !.errorMsg = "skin not found"]
    /\ Settle(n) /\ UNCHANGED captcha

\* Mutant: the message is the bare status.
SkinRejectedRaw(n) ==
    /\ Answered(n, "skin") /\ calls[n].res \in {"error", "network"}
    /\ form' = [form EXCEPT !.errorMsg = calls[n].res, !.loading = FALSE]
    /\ Settle(n) /\ UNCHANGED captcha

\* ... or was rejected: with no message if there was no answer.
SkinRejected(n) ==
    /\ Answered(n, "skin") /\ calls[n].res \in {"error", "network"}
    /\ form' = [form EXCEPT !.errorMsg = IF calls[n].res = "error" THEN Unverified ELSE @,
                            !.loading = FALSE]
    /\ Settle(n) /\ UNCHANGED captcha

\* Mutant: the spinner goes on when the QR reader cannot be called.
CodeReadSpins(n) ==
    /\ Answered(n, "qr")
    /\ form' = IF calls[n].res = "code"
                 THEN [form EXCEPT !.verified = TRUE, !.loading = FALSE]
                 ELSE [form EXCEPT !.errorMsg = Unverified,
                                   !.loading = calls[n].res = "network"]
    /\ Settle(n) /\ UNCHANGED captcha

\* getQRCodeContent was resolved, with the word or another content or none,
\* or rejected.
CodeRead(n) ==
    /\ Answered(n, "qr")
    /\ form' = IF calls[n].res = "code"
                 THEN [form EXCEPT !.verified = TRUE, !.loading = FALSE]
                 ELSE [form EXCEPT !.errorMsg = Unverified, !.loading = FALSE]
    /\ Settle(n) /\ UNCHANGED captcha

\* onSubmit: reset() takes back the challenge before.
Submit ==
    /\ SubmitButton
    /\ captcha' = TRUE
    /\ UNCHANGED <<form, calls>>

\* onResolved, called by the widget.
OnResolved ==
    /\ captcha /\ Room(calls, 1)
    /\ captcha' = FALSE
    /\ calls' = With(calls, Call("recaptcha", <<>>))
    /\ UNCHANGED form

\* The request is made from the state of now.
CaptchaAnswered(n) ==
    /\ Answered(n, "recaptcha")
    /\ IF calls[n].res = "success" THEN Then(n, Call("create", [name |-> form.username]))
                                   ELSE Settle(n)
    /\ UNCHANGED formVars

CreateMessage(res) == CASE res = "422" -> "repeat"
                        [] res = "409" -> "already approved"
                        [] res = "403" -> "banned"
                        [] res = "500" -> "internal"
                        [] res = "network" -> form.errorMsg

\* Mutant: every answer is taken for success.
CreateAnsweredWell(n) ==
    /\ Answered(n, "create")
    /\ form' = [form EXCEPT !.success = TRUE]
    /\ Settle(n) /\ UNCHANGED captcha

CreateAnswered(n) ==
    /\ Answered(n, "create")
    /\ form' = IF calls[n].res = "201"
                 THEN [form EXCEPT !.success = TRUE]
                 ELSE [form EXCEPT !.errorMsg = CreateMessage(calls[n].res)]
    /\ Settle(n) /\ UNCHANGED captcha

Typed == \/ \E name \in Names \cup {Blank} : EditUsername(name)
         \/ VerifyBlank \/ VerifyUsername \/ Submit

-----------------------------------------------------------------------------
(* The server, Mojang and the QR reader.                                   *)

\* handleGetSkinURLByUsername: no UUID; no profile; a profile and its skin.
RespondSkin(n) ==
    /\ Asked(n, "skin")
    /\ \/ Respond(n, "error")
       \/ calls[n].of.name # Unknown /\ Respond(n, skins[calls[n].of.name])

\* api.qrserver.com reads the picture at the URL; or it fails.
RespondCode(n) ==
    /\ Asked(n, "qr")
    /\ \E res \in {"error", calls[n].of.skin} : Respond(n, res)

Refusal == [Approved |-> "409", Pending |-> "422", Banned |-> "403"]

\* Mutant: an approved request does not stop another.
ValidateForgetsApproved(n) ==
    LET found == Matching(calls[n].of.name, Blocking \ {"Approved"}) IN
    /\ Asked(n, "create")
    /\ \/ found = {} /\ Proceed(n, "insert")
       \/ \E id \in found : Respond(n, Refusal[requests[id].status])

\* HandleCreateRequest, validateCreateRequest: the newest request that is found
\* gives the reason; here, where requests have no dates, any of them.
ValidateCreateRequest(n) ==
    LET found == Matching(calls[n].of.name, Blocking) IN
    /\ Asked(n, "create")
    /\ \/ found = {} /\ Proceed(n, "insert")
       \/ \E id \in found : Respond(n, Refusal[requests[id].status])

\* HandleCreateRequest, dbService.CreateRequest: a document whether or not
\* the task is published then.
InsertRequest(n, id) ==
    /\ AtStage(n, "insert") /\ id \notin Created
    /\ CreateRequest(id, calls[n].of.name)
    /\ \E res \in {"201", "500"} : Respond(n, res)

\* MongoDB fails.
CreateFails(n) ==
    /\ AtStage(n, "insert") \/ Asked(n, "create")
    /\ Respond(n, "500")

\* A player uploads a skin.  Bound: one for each player.
SetSkin(name, skin) ==
    /\ skins[name] = "default" /\ skin # "default"
    /\ skins' = [skins EXCEPT ![name] = skin]
    /\ carried' = IF skin = "code" THEN carried \cup {name} ELSE carried

-----------------------------------------------------------------------------
FormMessages == {"", Unverified, "skin not found", "repeat", "already approved",
                 "banned", "internal"}

ApplicationTypeOK ==
    /\ form \in [username : Names \cup {Blank}, verified : BOOLEAN,
                 loading : BOOLEAN, errorMsg : FormMessages, success : BOOLEAN]
    /\ captcha \in BOOLEAN
    /\ skins \in [Usernames -> Skins]
    /\ carried \subseteq Usernames

(* "Process in place to verify the player's Minecraft username to prevent   *)
(* identity misuse" (README.md:76): the server never gets an application    *)
(* from the form for a player whose skin has not been the code.  The name   *)
(* in the form is read again by each callback (Application.js:73), so this  *)
(* rests on what can be edited when.                                        *)
OnlyVerifiedSubmitted ==
    \A n \in UnderWay({"create"}) : calls[n].of.name \in carried

(* A verification that has begun ends, whatever Mojang and the QR reader    *)
(* answer: the spinner stops and the form can be used again, except for a   *)
(* player without a skin of their own, where it never does (Application.js: *)
(* 178-183); that is the same for an empty name (167-171).                  *)
VerificationEnds ==
    UnderWay({"skin", "qr"}) # {} ~>
       ~form.loading \/ form.errorMsg = "skin not found"
=============================================================================
