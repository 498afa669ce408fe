----------------------------- MODULE PagesProofs -----------------------------
(***************************************************************************)
(* Proofs about Pages, for any number of players, ops, requests, calls      *)
(* under way and visits.                                                   *)
(***************************************************************************)
EXTENDS Pages, TLAPS, FiniteSetTheorems

-----------------------------------------------------------------------------
(* The inductive invariant                                                 *)

Subject == [name : Names] \cup [skin : Skins] \cup {<<>>} \cup [id : ReqIds, adm : Ops]
           \cup [id : ReqIds] \cup [id : ReqIds, adm : Ops, status : Decisions]
Results == {"", "error", "network", "success", "failure",
            "200", "201", "400", "403", "409", "422", "500"} \cup Skins \cup Statuses
Kinds == {"skin", "qr", "recaptcha", "verify", "get", "create", "decide"}
Made == [at : {"sent", "insert", "update", "done"}, kind : Kinds, of : Subject,
         res : Results, waited : BOOLEAN]

CallTypes == calls \in [Slots -> Made \cup {Free}]

StateTypes == /\ RequestsTypeOK /\ ApplicationTypeOK /\ ActionTypeOK
              /\ page \in Addresses

\* A status that a request has had, whoever stored it.
Shown(id, status) == \E admin \in Ops \cup {Admin, Nobody} : <<id, status, admin>> \in been

\* What a call under way says about the page that made it and about the store.
StageFits(x) ==
    /\ ~x.waited => x.kind \in {"create", "decide"} /\ x.at # "done"
    /\ x.at = "insert" => x.kind = "create"
    /\ x.at = "update" => x.kind = "decide"
Verifying == form.loading /\ ~form.verified
SkinFits(x) ==
    /\ x.of \in [name : Names] /\ Verifying /\ x.of.name = form.username
    /\ x.res \in Skins \cup {"", "error", "network"}
    /\ x.res = "code" => x.of.name \in carried
CodeFits(x) ==
    /\ x.of \in [skin : Skins] /\ Verifying
    /\ x.of.skin = "code" => form.username \in carried
    /\ x.res = "code" => x.of.skin = "code"
CreateFits(x) ==
    /\ x.of \in [name : carried]
    /\ x.waited => form.verified /\ form.username = x.of.name
    /\ x.res \in {"", "201", "403", "409", "422", "500", "network"}
    /\ x.at = "done" => x.res # ""
    /\ x.res \in {"201", "422"} => HasBeen(x.of.name, "Pending")
    /\ x.res = "409" => HasBeen(x.of.name, "Approved")
    /\ x.res = "403" => HasBeen(x.of.name, "Banned")
VerifyFits(x) ==
    /\ x.of = [id |-> page.id, adm |-> page.adm]
    /\ page.path = "/action" /\ page.id \in ReqIds /\ page.adm \in Ops
    /\ x.res = "200" => <<page.id, page.adm>> \in assigned
GetFits(x) ==
    /\ x.of = [id |-> page.id] /\ page.id \in ReqIds /\ page.path # "/"
    /\ x.res \in Statuses => Shown(page.id, x.res)
DecideFits(x) ==
    /\ x.of \in [id : ReqIds, adm : Ops, status : Decisions]
    /\ x.waited => page.path = "/action" /\ x.of.id = page.id /\ x.of.adm = page.adm
    /\ x.at = "update" => x.of.id \in Created
    /\ x.res = "200" => <<x.of.id, x.of.status, x.of.adm>> \in been
Fits(x) ==
    /\ StageFits(x)
    /\ x.kind = "skin" => SkinFits(x)
    /\ x.kind = "qr" => CodeFits(x)
    /\ x.kind = "recaptcha" => x.of = <<>> /\ form.verified
    /\ x.kind = "create" => CreateFits(x)
    /\ x.kind = "verify" => VerifyFits(x)
    /\ x.kind = "get" => GetFits(x)
    /\ x.kind = "decide" => DecideFits(x)
AllFit == \A n \in Slots : calls[n].at # "free" => Fits(calls[n])

\* One verification at a time.
Verifies(x) == x.at # "free" /\ x.kind \in {"skin", "qr"}
OneVerification == \A n, m \in Slots : Verifies(calls[n]) /\ Verifies(calls[m]) => n = m

\* Only a verified name is submitted, and only a submitted one is answered.
Told == form.success \/ form.errorMsg \in {"repeat", "already approved", "banned"}
FormKept ==
    /\ form.verified => form.username \in carried
    /\ captcha => form.verified
    /\ Told => form.verified
    /\ AnswersAreTrue
    /\ \A name \in Usernames : skins[name] = "code" => name \in carried

StoreKept ==
    /\ Stored \subseteq been
    /\ \A b \in been : b[1] \in Created
    /\ \A id \in Created : \A op \in requests[id].assignees : <<id, op>> \in assigned

\* The op's page is verified, or a verification is under way.
Asks(x) == x.at # "free" /\ x.kind = "verify"
ViewKept ==
    /\ page.path = "/action" /\ ~view.invalid =>
          /\ page.adm \in Ops
          /\ (\E n \in Slots : Asks(calls[n])) \/ <<page.id, page.adm>> \in assigned
    /\ view.request \in Statuses => Shown(page.id, view.request)
    /\ page.path = "/" => view.request = NoRequest

\* What a user has that stands against another application.
Inserts(x, name) == x.at = "insert" /\ x.of.name = name
Open(user) == Matching(user, Blocking)
OneOpen ==
    \A user \in Usernames \ exempt :
       /\ \A i, j \in Open(user) : i = j
       /\ (\E n \in Slots : Inserts(calls[n], user)) => Open(user) = {}

Inv == /\ StateTypes /\ CallTypes /\ AllFit /\ OneVerification
       /\ FormKept /\ StoreKept /\ ViewKept /\ OneOpen

-----------------------------------------------------------------------------
(* Slots and calls                                                         *)

(* A call is put into a slot that was free.                                *)
LEMMA FreeSlot ==
    ASSUME NEW c, NEW x, Room(c, 1)
    PROVE  \E s \in Slots : c[s] = Free /\ With(c, x) = [c EXCEPT ![s] = x]
<1>1. {s \in Slots : c[s] = Free} # {}
  BY FS_EmptySet DEF Room
<1>. QED
  BY <1>1 DEF With

\* The calls of c, and two more.
Placed(c, x, y, d) ==
    \E s, t \in Slots :
       /\ s # t /\ c[s] = Free /\ c[t] = Free
       /\ \A m \in Slots : d[m] = IF m = t THEN y ELSE IF m = s THEN x ELSE c[m]

(* Where there is room for two calls, the second finds another slot.        *)
LEMMA TwoSlots ==
    ASSUME NEW V, NEW c \in [Slots -> V], NEW x, x # Free, NEW y, Room(c, 2)
    PROVE  /\ With(With(c, x), y) \in [Slots -> V \cup {x, y}]
           /\ Placed(c, x, y, With(With(c, x), y))
<1>. DEFINE F == {s \in Slots : c[s] = Free}
<1>1. IsFiniteSet(Slots)
  BY FS_Interval, CallsAssumption DEF Slots
<1>2. IsFiniteSet(F) /\ Cardinality(F) \in Nat /\ Cardinality(F) >= 2
  BY <1>1, FS_Subset, FS_CardinalityType DEF Room
<1>3. F # {}
  BY <1>2, FS_EmptySet
<1>4. PICK s \in Slots : c[s] = Free /\ With(c, x) = [c EXCEPT ![s] = x]
  BY <1>3 DEF With
<1>. DEFINE d == [c EXCEPT ![s] = x]
            G == {t \in Slots : d[t] = Free}
<1>5. d = [n \in Slots |-> IF n = s THEN x ELSE c[n]]
  OBVIOUS
<1>6. G = F \ {s}
  BY <1>5
<1>7. Cardinality(F \ {s}) = Cardinality(F) - 1 /\ IsFiniteSet(F \ {s})
  BY <1>2, <1>4, FS_RemoveElement
<1>8. Cardinality(F \ {s}) # 0
  BY <1>2, <1>7
<1>9. G # {}
  BY <1>6, <1>8, FS_EmptySet
<1>10. PICK t \in G : With(d, y) = [d EXCEPT ![t] = y]
  BY <1>9 DEF With
<1>11. t \in Slots /\ s # t /\ c[t] = Free
  BY <1>6, <1>10
<1>12. /\ With(With(c, x), y) \in [Slots -> V \cup {x, y}]
       /\ \A m \in Slots : With(With(c, x), y)[m] =
             IF m = t THEN y ELSE IF m = s THEN x ELSE c[m]
  BY <1>4, <1>10
<1>. QED
  BY <1>4, <1>11, <1>12 DEF Placed

(* A slot is free, or holds a call of one kind.                            *)
LEMMA CallsAreMade ==
    /\ \A x \in Made : x.at # "free" /\ x # Free
    /\ Free.at = "free" /\ ~Verifies(Free) /\ ~Asks(Free) /\ \A name : ~Inserts(Free, name)
    /\ CallTypes => \A n \in Slots : calls[n] = Free \/ calls[n] \in Made
  BY DEF Made, Free, Verifies, Asks, Inserts, CallTypes

\* What an answer makes of a call that is waited for, and of one that is not.
Answer(x, res, y) == /\ x.waited /\ y \in Made /\ y.at = "done" /\ y.res = res
                     /\ y.kind = x.kind /\ y.of = x.of /\ y.waited = TRUE
AnsweredBy(x, res, y) == Answer(x, res, y) \/ (~x.waited /\ y = Free)

LEMMA Responded ==
    ASSUME CallTypes, NEW n \in Slots, calls[n].at # "free", NEW res \in Results, Respond(n, res)
    PROVE  \E y \in Made \cup {Free} :
              calls' = [calls EXCEPT ![n] = y] /\ AnsweredBy(calls[n], res, y)
<1>. DEFINE x == calls[n]
            y == [x EXCEPT !.at = "done", !.res = res]
<1>1. x \in Made
  BY CallsAreMade
<1>2. CASE x.waited
  <2>1. calls' = [calls EXCEPT ![n] = y]
    BY <1>2 DEF Respond
  <2>2. /\ y \in Made /\ y.at = "done" /\ y.res = res /\ y.kind = x.kind /\ y.of = x.of
        /\ y.waited = x.waited
    BY <1>1 DEF Made
  <2>3. x.waited = TRUE
    BY <1>1, <1>2 DEF Made
  <2>. HIDE DEF y
  <2>. QED
    BY <1>2, <2>1, <2>2, <2>3 DEF AnsweredBy, Answer
<1>3. CASE ~x.waited
  BY <1>3 DEF Respond, AnsweredBy
<1>. QED
  BY <1>2, <1>3

(* A handler that goes on.                                                 *)
LEMMA Proceeded ==
    ASSUME CallTypes, NEW n \in Slots, calls[n].at # "free",
           NEW stage \in {"insert", "update"}, Proceed(n, stage)
    PROVE  \E y \in Made :
              /\ calls' = [calls EXCEPT ![n] = y]
              /\ y.at = stage /\ y.res = calls[n].res /\ y.kind = calls[n].kind
              /\ y.of = calls[n].of /\ y.waited = calls[n].waited
<1>. DEFINE x == calls[n]
            y == [x EXCEPT !.at = stage]
<1>1. x \in Made
  BY CallsAreMade
<1>2. calls' = [calls EXCEPT ![n] = y]
  BY DEF Proceed
<1>3. /\ y \in Made /\ y.at = stage /\ y.res = x.res /\ y.kind = x.kind /\ y.of = x.of
      /\ y.waited = x.waited
  BY <1>1 DEF Made
<1>. HIDE DEF y
<1>. QED
  BY <1>2, <1>3

-----------------------------------------------------------------------------
(* What others do keeps what a call says                                   *)

\* What was stored, verified and assigned stays so.
Grown == /\ carried \subseteq carried' /\ assigned \subseteq assigned' /\ been \subseteq been'
         /\ Created \subseteq Created'
         /\ \A id \in Created : requests'[id].username = requests[id].username

\* The form leaves a call what it rests on.
Keeps(x) ==
    /\ form.verified => form'.verified /\ form'.username = form.username
    /\ Verifies(x) => form'.loading /\ ~form'.verified /\ form'.username = form.username

LEMMA HasBeenGrows ==
    ASSUME StoreKept, Grown, NEW name, NEW status, HasBeen(name, status)
    PROVE  HasBeen(name, status)'
<1>1. PICK b \in been : requests[b[1]].username = name /\ b[2] = status
  BY DEF HasBeen
<1>2. b \in been' /\ requests'[b[1]].username = name
  BY <1>1 DEF StoreKept, Grown
<1>. QED
  BY <1>1, <1>2 DEF HasBeen

LEMMA ShownGrows ==
    ASSUME Grown, NEW id, NEW status, Shown(id, status)
    PROVE  Shown(id, status)'
  BY DEF Grown, Shown

LEMMA FitsGrows ==
    ASSUME StoreKept, Grown, page' = page, NEW x, x.at # "free", Fits(x), Keeps(x)
    PROVE  Fits(x)'
<1>1. StageFits(x)'
  BY DEF Fits, StageFits
<1>2. ASSUME x.kind = "skin" PROVE SkinFits(x)'
  BY <1>2 DEF Fits, SkinFits, Keeps, Verifies, Verifying, Grown
<1>3. ASSUME x.kind = "qr" PROVE CodeFits(x)'
  BY <1>3 DEF Fits, CodeFits, Keeps, Verifies, Verifying, Grown
<1>4. ASSUME x.kind = "recaptcha" PROVE x.of = <<>> /\ form'.verified
  BY <1>4 DEF Fits, Keeps
<1>5. ASSUME x.kind = "create" PROVE CreateFits(x)'
  <2>1. CreateFits(x)
    BY <1>5 DEF Fits
  <2>2. x.of \in [name : carried']
    BY <2>1 DEF CreateFits, Grown
  <2>3. x.waited => form'.verified /\ form'.username = x.of.name
    BY <2>1 DEF CreateFits, Keeps
  <2>4. /\ x.res \in {"201", "422"} => HasBeen(x.of.name, "Pending")'
        /\ x.res = "409" => HasBeen(x.of.name, "Approved")'
        /\ x.res = "403" => HasBeen(x.of.name, "Banned")'
    BY <2>1, HasBeenGrows DEF CreateFits
  <2>. QED
    BY <2>1, <2>2, <2>3, <2>4 DEF CreateFits
<1>6. ASSUME x.kind = "verify" PROVE VerifyFits(x)'
  BY <1>6 DEF Fits, VerifyFits, Grown
<1>7. ASSUME x.kind = "get" PROVE GetFits(x)'
  BY <1>7, ShownGrows DEF Fits, GetFits
<1>8. ASSUME x.kind = "decide" PROVE DecideFits(x)'
  BY <1>8 DEF Fits, DecideFits, Grown
<1>. QED
  BY <1>1, <1>2, <1>3, <1>4, <1>5, <1>6, <1>7, <1>8 DEF Fits

(* A step of one call, beside which the form moves as little as the other   *)
(* calls need.                                                             *)
LEMMA OneCall ==
    ASSUME Inv, Grown, page' = page, NEW n \in Slots, NEW y \in Made \cup {Free},
           calls' = [calls EXCEPT ![n] = y],
           y # Free => Fits(y)',
           \A m \in Slots \ {n} : Keeps(calls[m]),
           Verifies(y) => Verifies(calls[n]) \/ \A m \in Slots : ~Verifies(calls[m])
    PROVE  CallTypes' /\ AllFit' /\ OneVerification'
<1>1. \A m \in Slots : calls'[m] = IF m = n THEN y ELSE calls[m]
  BY DEF Inv, CallTypes
<1>2. CallTypes'
  BY DEF Inv, CallTypes
<1>4. AllFit'
  <2>1. ASSUME NEW m \in Slots, NEW x, x = calls'[m], x.at # "free" PROVE Fits(x)'
    <3>1. CASE m = n
      BY <1>1, <2>1, <3>1, CallsAreMade
    <3>2. CASE m # n
      <4>1. x = calls[m] /\ Fits(x) /\ Keeps(x)
        BY <1>1, <2>1, <3>2 DEF Inv, AllFit
      <4>. QED
        BY <2>1, <4>1, FitsGrows DEF Inv
    <3>. QED
      BY <3>1, <3>2
  <2>. QED
    BY <2>1 DEF AllFit
<1>5. OneVerification'
  BY <1>1 DEF Inv, OneVerification
<1>. QED
  BY <1>2, <1>4, <1>5

(* Where no document is written, an application that is validated finds none.*)
LEMMA SameStore ==
    ASSUME Inv, UNCHANGED <<requests, exempt>>, NEW n \in Slots, NEW y \in Made \cup {Free},
           calls' = [calls EXCEPT ![n] = y],
           \A name \in Usernames : Inserts(y, name) => Inserts(calls[n], name) \/ Open(name) = {}
    PROVE  OneOpen'
<1>1. \A m \in Slots : calls'[m] = IF m = n THEN y ELSE calls[m]
  BY DEF Inv, CallTypes
<1>2. \A user : Open(user)' = Open(user)
  BY DEF Open, Matching, Created
<1>3. ASSUME NEW user \in Usernames, NEW m \in Slots, Inserts(calls'[m], user)
      PROVE  Inserts(calls[m], user) \/ Open(user) = {}
  BY <1>1, <1>3
<1>. QED
  BY <1>2, <1>3 DEF Inv, OneOpen

(* The page shows the same, and no verification of its op has ended.        *)
LEMMA SameView ==
    ASSUME Inv, Grown, UNCHANGED <<page, view>>, NEW n \in Slots, NEW y \in Made \cup {Free},
           calls' = [calls EXCEPT ![n] = y], Asks(calls[n]) => Asks(y)
    PROVE  ViewKept'
<1>1. \A m \in Slots : calls'[m] = IF m = n THEN y ELSE calls[m]
  BY DEF Inv, CallTypes
<1>2. \A m \in Slots : Asks(calls[m]) => Asks(calls'[m])
  BY <1>1
<1>3. view.request \in Statuses => Shown(page.id, view.request)'
  BY ShownGrows DEF Inv, ViewKept
<1>. QED
  BY <1>2, <1>3 DEF Inv, ViewKept, Grown

\* Nothing happens on the server, and the address stays.
ServerRests == UNCHANGED <<requests, page, skins, carried, exempt, been, assigned>>

LEMMA RestGrows == ServerRests => Grown /\ StoreKept' = StoreKept
  BY DEF ServerRests, Grown, Created, StoreKept, Stored

LEMMA CallStep ==
    ASSUME Inv, ServerRests, NEW n \in Slots, NEW y \in Made \cup {Free},
           calls' = [calls EXCEPT ![n] = y],
           y # Free => Fits(y)',
           \A m \in Slots \ {n} : Keeps(calls[m]),
           Verifies(y) => Verifies(calls[n]) \/ \A m \in Slots : ~Verifies(calls[m]),
           \A name \in Usernames : Inserts(y, name) => Inserts(calls[n], name) \/ Open(name) = {},
           ApplicationTypeOK', FormKept', ActionTypeOK', ViewKept'
    PROVE  Inv'
<1>1. Grown /\ StoreKept' /\ page' = page
  BY RestGrows DEF Inv, ServerRests
<1>2. CallTypes' /\ AllFit' /\ OneVerification'
  BY <1>1, OneCall
<1>3. OneOpen'
  BY SameStore DEF ServerRests
<1>4. StateTypes'
  BY DEF Inv, StateTypes, ServerRests, RequestsTypeOK, Created
<1>. QED
  BY <1>1, <1>2, <1>3, <1>4 DEF Inv

(* What the form keeps when it stays, or only moves its message.            *)
LEMMA SameForm ==
    ASSUME Inv, ServerRests, UNCHANGED <<form, captcha>>
    PROVE  /\ ApplicationTypeOK' /\ FormKept'
           /\ \A m \in Slots : Keeps(calls[m])
<1>1. ApplicationTypeOK' /\ FormKept'
  BY DEF Inv, StateTypes, ServerRests, ApplicationTypeOK, FormKept, Told, AnswersAreTrue, HasBeen
<1>2. \A m \in Slots : Verifies(calls[m]) => Verifying
  BY DEF Inv, AllFit, Fits, SkinFits, CodeFits, Verifies
<1>. QED
  BY <1>1, <1>2 DEF Keeps, Verifying

LEMMA SameAction == Inv /\ ServerRests /\ view' = view => ActionTypeOK'
  BY DEF Inv, StateTypes, ServerRests, ActionTypeOK

-----------------------------------------------------------------------------
(* The server and the network                                              *)

\* What a handler leaves of the call it works on.
LEMMA ReadStep == ASSUME Inv, NEW n \in Slots, Read(n) PROVE Inv'
<1>. DEFINE x == calls[n]
<1>1. ServerRests /\ UNCHANGED <<form, captcha, view>>
  BY DEF Read, ServerRests, formVars, worldVars, historyVars
<1>2. /\ ApplicationTypeOK' /\ FormKept' /\ ActionTypeOK' /\ Grown
      /\ \A m \in Slots : Keeps(calls[m])
  BY <1>1, SameForm, SameAction, RestGrows
<1>3. x.at # "free"
  BY DEF Read, RespondSkin, RespondCode, RespondCaptcha, RespondVerify, RespondGet,
         ValidateCreateRequest, CreateFails, CheckDecision, DecisionFails, NetworkError,
         Asked, AtStage
<1>4. x \in Made /\ Fits(x) /\ CallTypes
  BY <1>3, CallsAreMade DEF Inv, AllFit
<1>5. ASSUME NEW z, Fits(z), z.at # "free", Keeps(z) PROVE Fits(z)'
  BY <1>1, <1>2, <1>5, FitsGrows DEF Inv, ServerRests
<1>6. ASSUME NEW res \in Results, Respond(n, res),
             \A y \in Made : Answer(x, res, y) => Fits(y)
      PROVE  Inv'
  <2>1. PICK y \in Made \cup {Free} :
              calls' = [calls EXCEPT ![n] = y] /\ AnsweredBy(calls[n], res, y)
    <3>1. Respond(n, res) /\ CallTypes /\ calls[n].at # "free" /\ res \in Results
      BY <1>3, <1>4, <1>6
    <3>. QED
      BY <3>1, Responded
  <2>2. y # Free => y.at = "done" /\ y.kind = x.kind /\ Fits(y)
    BY <1>6, <2>1 DEF AnsweredBy, Answer
  <2>3. y # Free => Keeps(y)
    BY <1>2, <1>3, <2>2 DEF Keeps, Verifies
  <2>4. y # Free => Fits(y)'
    BY <1>5, <2>2, <2>3
  <2>5. /\ Verifies(y) => Verifies(x)
        /\ \A name : ~Inserts(y, name)
    BY <1>3, <2>2, CallsAreMade DEF Verifies, Inserts
  <2>6. Asks(x) => Asks(y)
    <3>1. x.kind = "verify" => x.waited
      BY <1>4 DEF Fits, StageFits
    <3>. QED
      BY <2>1, <2>2, <3>1 DEF Asks, AnsweredBy, Answer
  <2>7. ViewKept'
    BY <1>1, <1>2, <2>1, <2>6, SameView DEF ServerRests
  <2>. QED
    BY <1>1, <1>2, <2>1, <2>4, <2>5, <2>7, CallStep
\* The answer to a call fits, whatever its kind, if it says something true.
<1>7. ASSUME NEW y, NEW res, Answer(x, res, y) PROVE StageFits(y)
  BY <1>7 DEF StageFits, Answer
<1>8. CASE NetworkError(n)
  <2>1. Respond(n, "network") /\ "network" \in Results
    BY <1>8 DEF NetworkError, Results
  <2>2. ASSUME NEW y \in Made, Answer(x, "network", y) PROVE Fits(y)
    <3>1. StageFits(y)
      BY <1>7, <2>2
    <3>. QED
      BY <1>4, <2>2, <3>1
         DEF Fits, Answer, SkinFits, CodeFits, CreateFits, VerifyFits, GetFits, DecideFits, Statuses
  <2>. QED
    BY <1>6, <2>1, <2>2
<1>9. CASE RespondSkin(n)
  <2>1. x.kind = "skin" /\ SkinFits(x)
    BY <1>4, <1>9 DEF RespondSkin, Asked, Fits
  <2>2. PICK res : /\ Respond(n, res)
                   /\ \/ res = "error"
                      \/ x.of.name # Unknown /\ res = skins[x.of.name]
    BY <1>9 DEF RespondSkin
  <2>3. res \in Skins \cup {"error"} /\ (res = "code" => x.of.name \in carried)
    BY <2>1, <2>2 DEF SkinFits, Names, Inv, StateTypes, ApplicationTypeOK, FormKept
  <2>4. ASSUME NEW y \in Made, Answer(x, res, y) PROVE Fits(y)
    <3>1. StageFits(y)
      BY <1>7, <2>4
    <3>. QED
      BY <2>1, <2>3, <2>4, <3>1 DEF Answer, Fits, SkinFits
  <2>. QED
    BY <1>6, <2>2, <2>3, <2>4 DEF Results
<1>10. CASE RespondCode(n)
  <2>1. x.kind = "qr" /\ CodeFits(x)
    BY <1>4, <1>10 DEF RespondCode, Asked, Fits
  <2>2. PICK res \in {"error", x.of.skin} : Respond(n, res)
    BY <1>10 DEF RespondCode
  <2>3. res \in Results /\ (res = "code" => x.of.skin = "code")
    BY <2>1, <2>2 DEF CodeFits, Results, Skins
  <2>4. ASSUME NEW y \in Made, Answer(x, res, y) PROVE Fits(y)
    <3>1. StageFits(y)
      BY <1>7, <2>4
    <3>. QED
      BY <2>1, <2>3, <2>4, <3>1 DEF Answer, Fits, CodeFits
  <2>. QED
    BY <1>6, <2>2, <2>3, <2>4
<1>11. CASE RespondCaptcha(n)
  <2>1. x.kind = "recaptcha"
    BY <1>11 DEF RespondCaptcha, Asked
  <2>2. PICK res \in {"success", "failure", "500"} : Respond(n, res)
    BY <1>11 DEF RespondCaptcha
  <2>3. ASSUME NEW y \in Made, Answer(x, res, y) PROVE Fits(y)
    <3>1. StageFits(y)
      BY <1>7, <2>3
    <3>. QED
      BY <1>4, <2>1, <2>3, <3>1 DEF Answer, Fits
  <2>4. res \in Results
    BY DEF Results
  <2>. QED
    BY <1>6, <2>2, <2>3, <2>4
<1>12. CASE RespondVerify(n)
  <2>1. x.kind = "verify" /\ VerifyFits(x)
    BY <1>4, <1>12 DEF RespondVerify, Asked, Fits
  <2>2. PICK res \in {"200", "400"} :
           Respond(n, res) /\ (res = "200" => TokensMatch(x.of.id, x.of.adm))
    BY <1>12 DEF RespondVerify
  <2>3. x.of.id = page.id /\ x.of.adm = page.adm
    BY <2>1 DEF VerifyFits
  <2>4. res = "200" => <<page.id, page.adm>> \in assigned
    BY <2>2, <2>3 DEF TokensMatch, Inv, StoreKept
  <2>5. ASSUME NEW y \in Made, Answer(x, res, y) PROVE Fits(y)
    <3>1. StageFits(y)
      BY <1>7, <2>5
    <3>. QED
      BY <2>1, <2>4, <2>5, <3>1 DEF Answer, Fits, VerifyFits
  <2>6. res \in Results
    BY DEF Results
  <2>. QED
    BY <1>6, <2>2, <2>5, <2>6
<1>13. CASE RespondGet(n)
  <2>1. x.kind = "get" /\ GetFits(x)
    BY <1>4, <1>13 DEF RespondGet, Asked, Fits
  <2>2. PICK res :
           /\ Respond(n, res)
           /\ \/ x.of.id \in Created /\ res = requests[x.of.id].status
              \/ res = "error"
    BY <1>13 DEF RespondGet
  <2>3. x.of.id = page.id
    BY <2>1 DEF GetFits
  <2>4. res \in Results /\ (res \in Statuses => Shown(page.id, res))
    <3>1. CASE res = "error"
      BY <3>1 DEF Results, Statuses
    <3>2. CASE page.id \in Created /\ res = requests[page.id].status
      <4>1. requests[page.id] \in Documents
        BY <3>2 DEF Inv, StateTypes, RequestsTypeOK
      <4>2. requests[page.id].status \in Statuses /\ requests[page.id].admin \in Ops \cup {Admin, Nobody}
        BY <4>1 DEF Documents
      <4>3. <<page.id, requests[page.id].status, requests[page.id].admin>> \in been
        BY <3>2 DEF Inv, StoreKept, Stored
      <4>. QED
        BY <3>2, <4>2, <4>3 DEF Shown, Results
    <3>. QED
      BY <2>2, <2>3, <3>1, <3>2
  <2>5. ASSUME NEW y \in Made, Answer(x, res, y) PROVE Fits(y)
    <3>1. StageFits(y)
      BY <1>7, <2>5
    <3>. QED
      BY <2>1, <2>4, <2>5, <3>1 DEF Answer, Fits, GetFits
  <2>. QED
    BY <1>6, <2>2, <2>4, <2>5
<1>14. ASSUME NEW stage \in {"insert", "update"}, Proceed(n, stage), x.at = "sent",
              x.kind = IF stage = "insert" THEN "create" ELSE "decide",
              stage = "insert" => \A name \in Usernames : x.of.name = name => Open(name) = {},
              stage = "update" => x.of.id \in Created
       PROVE  Inv'
  <2>1. Proceed(n, stage) /\ CallTypes /\ calls[n].at # "free"
    BY <1>3, <1>4, <1>14
  <2>2. PICK y \in Made :
              /\ calls' = [calls EXCEPT ![n] = y]
              /\ y.at = stage /\ y.res = calls[n].res /\ y.kind = calls[n].kind
              /\ y.of = calls[n].of /\ y.waited = calls[n].waited
    BY <2>1, Proceeded
  <2>3. StageFits(y)
    BY <1>4, <1>14, <2>2 DEF Fits, StageFits
  <2>4. Fits(y) /\ ~Verifies(y) /\ Keeps(y)
    BY <1>2, <1>4, <1>14, <2>2, <2>3 DEF Fits, CreateFits, DecideFits, Verifies, Keeps
  <2>5. Fits(y)' /\ y \in Made \cup {Free}
    BY <1>5, <2>4, CallsAreMade
  <2>6. \A name \in Usernames : Inserts(y, name) => Open(name) = {}
    BY <1>14, <2>2 DEF Inserts
  <2>7. ViewKept'
    <3>1. ~Asks(x)
      BY <1>14 DEF Asks
    <3>. QED
      BY <1>1, <1>2, <2>2, <2>5, <3>1, SameView DEF ServerRests
  <2>. QED
    BY <1>1, <1>2, <2>2, <2>4, <2>5, <2>6, <2>7, CallStep
<1>15. CASE ValidateCreateRequest(n)
  <2>1. x.kind = "create" /\ x.at = "sent" /\ CreateFits(x)
    BY <1>4, <1>15 DEF ValidateCreateRequest, Asked, Fits
  <2>2. CASE Matching(x.of.name, Blocking) = {} /\ Proceed(n, "insert")
    BY <1>14, <2>1, <2>2 DEF Open
  <2>3. ASSUME NEW id \in Matching(x.of.name, Blocking), Respond(n, Refusal[requests[id].status])
        PROVE  Inv'
    <3>. DEFINE status == requests[id].status
                res == Refusal[status]
    <3>1. id \in Created /\ requests[id].username = x.of.name /\ status \in Blocking
      BY <2>3 DEF Matching
    <3>2. HasBeen(x.of.name, status)
      <4>1. <<id, status, requests[id].admin>> \in been
        BY <3>1 DEF Inv, StoreKept, Stored
      <4>. QED
        BY <3>1, <4>1 DEF HasBeen
    <3>3. \/ status = "Approved" /\ res = "409"
          \/ status = "Pending" /\ res = "422"
          \/ status = "Banned" /\ res = "403"
      BY <3>1 DEF Blocking, Refusal
    <3>4. Respond(n, res) /\ res \in Results
      BY <2>3, <3>3 DEF Results
    <3>. HIDE DEF res, status
    <3>5. ASSUME NEW y \in Made, Answer(x, res, y) PROVE Fits(y)
      <4>1. StageFits(y)
        BY <1>7, <3>5
      <4>2. y.kind = "create" /\ y.of = x.of /\ y.res = res
        BY <2>1, <3>5 DEF Answer
      <4>3. y.waited => x.waited
        BY <3>5 DEF Answer
      <4>4. CreateFits(y)
        BY <2>1, <3>2, <3>3, <4>2, <4>3 DEF CreateFits
      <4>. QED
        BY <4>1, <4>2, <4>4 DEF Fits
    <3>. QED
      BY <1>6, <3>4, <3>5
  <2>. QED
    BY <1>15, <2>2, <2>3 DEF ValidateCreateRequest
<1>16. CASE CreateFails(n)
  <2>1. x.kind = "create" /\ CreateFits(x)
    BY <1>4, <1>16 DEF CreateFails, Asked, AtStage, Fits, StageFits
  <2>2. Respond(n, "500") /\ "500" \in Results
    BY <1>16 DEF CreateFails, Results
  <2>3. ASSUME NEW y \in Made, Answer(x, "500", y) PROVE Fits(y)
    <3>1. StageFits(y)
      BY <1>7, <2>3
    <3>. QED
      BY <2>1, <2>3, <3>1 DEF Answer, Fits, CreateFits
  <2>. QED
    BY <1>6, <2>2, <2>3
<1>17. ASSUME x.kind = "decide", NEW res \in {"400", "500"}, Respond(n, res) PROVE Inv'
  <2>1. DecideFits(x)
    BY <1>4, <1>17 DEF Fits
  <2>2. Respond(n, res) /\ res \in Results
    BY <1>17 DEF Results
  <2>3. ASSUME NEW y \in Made, Answer(x, res, y) PROVE Fits(y)
    <3>1. StageFits(y)
      BY <1>7, <2>3
    <3>. QED
      BY <1>17, <2>1, <2>3, <3>1 DEF Answer, Fits, DecideFits
  <2>. QED
    BY <1>6, <2>2, <2>3
<1>18. CASE CheckDecision(n)
  <2>1. x.kind = "decide" /\ x.at = "sent"
    BY <1>18 DEF CheckDecision, Asked
  <2>2. CASE TokensMatch(x.of.id, x.of.adm) /\ Proceed(n, "update")
    BY <1>14, <2>1, <2>2 DEF TokensMatch
  <2>3. CASE Respond(n, "400")
    BY <1>17, <2>1, <2>3
  <2>. QED
    BY <1>18, <2>2, <2>3 DEF CheckDecision
<1>19. CASE DecisionFails(n)
  <2>1. x.kind = "decide" /\ Respond(n, "500")
    BY <1>4, <1>19 DEF DecisionFails, AtStage, Fits, StageFits
  <2>. QED
    BY <1>17, <2>1
<1>. QED
  BY <1>8, <1>9, <1>10, <1>11, <1>12, <1>13, <1>15, <1>16, <1>18, <1>19 DEF Read

-----------------------------------------------------------------------------
(* The form                                                                *)

FormType == [username : Names \cup {Blank}, verified : BOOLEAN,
             loading : BOOLEAN, errorMsg : FormMessages, success : BOOLEAN]

(* A call that is over.                                                    *)
LEMMA Settled ==
    ASSUME Inv, ServerRests, NEW n \in Slots, calls' = [calls EXCEPT ![n] = Free],
           \A m \in Slots \ {n} : Keeps(calls[m]),
           ApplicationTypeOK', FormKept', ActionTypeOK', ViewKept'
    PROVE  Inv'
  BY CallStep, CallsAreMade

(* The form's spinner and the messages that say nothing of a request.       *)
LEMMA MovedForm ==
    ASSUME Inv, ServerRests, captcha' = captcha, form' \in FormType,
           form'.username = form.username, form'.verified = form.verified,
           form'.success = form.success,
           form'.errorMsg \in {form.errorMsg, "", Unverified, "skin not found"}
    PROVE  /\ ApplicationTypeOK' /\ FormKept'
           /\ \A m \in Slots : (Verifies(calls[m]) => form'.loading) => Keeps(calls[m])
<1>1. ApplicationTypeOK'
  BY DEF Inv, StateTypes, ServerRests, ApplicationTypeOK, FormType
<1>2. /\ Told' => Told
      /\ form'.errorMsg \in {"repeat", "already approved", "banned"} => form'.errorMsg = form.errorMsg
  BY DEF Told, Unverified
<1>3. \A name, status : HasBeen(name, status)' <=> HasBeen(name, status)
  BY DEF HasBeen, ServerRests
<1>4. AnswersAreTrue'
  BY <1>2, <1>3 DEF Inv, FormKept, AnswersAreTrue
<1>5. FormKept'
  BY <1>2, <1>4 DEF Inv, FormKept, ServerRests
<1>6. \A m \in Slots : Verifies(calls[m]) => Verifying
  BY DEF Inv, AllFit, Fits, SkinFits, CodeFits, Verifies
<1>. QED
  BY <1>1, <1>5, <1>6 DEF Keeps, Verifying

LEMMA FormCallbackStep == ASSUME Inv, NEW n \in Slots, FormCallback(n) PROVE Inv'
<1>. DEFINE x == calls[n]
<1>1. ServerRests /\ view' = view
  BY DEF FormCallback, ServerRests, worldVars, historyVars
<1>2. /\ x.at = "done" /\ x.waited /\ Fits(x) /\ x.kind \in {"skin", "qr", "recaptcha", "create"}
  <2>1. x.at = "done" /\ x.kind \in {"skin", "qr", "recaptcha", "create"}
    BY DEF FormCallback, SkinFound, SkinMissing, SkinRejected, CodeRead, CaptchaAnswered,
           CreateAnswered, Answered
  <2>2. Fits(x)
    BY <2>1 DEF Inv, AllFit
  <2>. QED
    BY <2>1, <2>2 DEF Fits, StageFits
<1>3. ActionTypeOK' /\ Grown
  BY <1>1, SameAction, RestGrows
<1>4. ASSUME NEW y \in Made \cup {Free}, calls' = [calls EXCEPT ![n] = y] PROVE ViewKept'
  <2>1. ~Asks(x)
    BY <1>2 DEF Asks
  <2>. QED
    BY <1>1, <1>3, <1>4, <2>1, SameView DEF ServerRests
<1>5. x.kind \in {"skin", "qr"} => \A m \in Slots \ {n} : ~Verifies(calls[m])
  BY <1>2 DEF Inv, OneVerification, Verifies
<1>6. form \in FormType /\ x \in Made
  BY <1>2, CallsAreMade DEF Inv, StateTypes, ApplicationTypeOK, FormType, Free
<1>7. Free \in Made \cup {Free}
  OBVIOUS
<1>8. CASE SkinFound(n)
  <2>1. x.kind = "skin" /\ x.res \in {"picture", "code"} /\ UNCHANGED <<form, captcha>>
    BY <1>8 DEF SkinFound, Answered, formVars
  <2>2. PICK of : of = [skin |-> x.res]
    OBVIOUS
  <2>3. of \in [skin : Skins] /\ of \in Subject /\ of.skin = x.res
    BY <2>1, <2>2 DEF Subject, Skins
  <2>4. PICK y : y = Call("qr", of)
    OBVIOUS
  <2>5. /\ y \in Made /\ y.kind = "qr" /\ y.of = of /\ y.at = "sent" /\ y.res = "" /\ y.waited = TRUE
    BY <2>3, <2>4 DEF Call, Made, Results, Kinds
  <2>6. calls' = [calls EXCEPT ![n] = y]
    BY <1>8, <2>2, <2>4 DEF SkinFound, Then
  <2>7. /\ Fits(y)
    <3>1. SkinFits(x)
      BY <1>2, <2>1 DEF Fits
    <3>2. CodeFits(y)
      BY <2>1, <2>3, <2>5, <3>1 DEF SkinFits, CodeFits
    <3>. QED
      BY <2>5, <3>2 DEF Fits, StageFits
  <2>8. /\ ApplicationTypeOK' /\ FormKept' /\ \A m \in Slots : Keeps(calls[m])
    BY <1>1, <2>1, SameForm
  <2>9. Fits(y)'
    <3>1. Keeps(y)
      BY <1>2, <2>1, <2>8 DEF Keeps, Verifies
    <3>. QED
      BY <1>1, <1>3, <2>5, <2>7, <3>1, FitsGrows DEF Inv, ServerRests
  <2>10. Verifies(x) /\ \A name : ~Inserts(y, name)
    BY <1>2, <2>1, <2>5 DEF Verifies, Inserts
  <2>. QED
    BY <1>1, <1>3, <1>4, <2>5, <2>6, <2>8, <2>9, <2>10, CallStep
<1>9. CASE SkinMissing(n) \/ SkinRejected(n)
  <2>1. x.kind = "skin" /\ calls' = [calls EXCEPT ![n] = Free] /\ captcha' = captcha
    BY <1>9 DEF SkinMissing, SkinRejected, Answered, Settle
  <2>2. /\ form' \in FormType /\ form'.username = form.username /\ form'.verified = form.verified
        /\ form'.success = form.success
        /\ form'.errorMsg \in {form.errorMsg, "", Unverified, "skin not found"}
    BY <1>6, <1>9 DEF SkinMissing, SkinRejected, FormType, FormMessages
  <2>3. /\ ApplicationTypeOK' /\ FormKept'
        /\ \A m \in Slots : (Verifies(calls[m]) => form'.loading) => Keeps(calls[m])
    BY <1>1, <2>1, <2>2, MovedForm
  <2>. QED
    BY <1>1, <1>3, <1>4, <1>5, <1>7, <2>1, <2>3, Settled
<1>10. CASE CodeRead(n) /\ x.res # "code"
  <2>1. x.kind = "qr" /\ calls' = [calls EXCEPT ![n] = Free] /\ captcha' = captcha
    BY <1>10 DEF CodeRead, Answered, Settle
  <2>2. /\ form' \in FormType /\ form'.username = form.username /\ form'.verified = form.verified
        /\ form'.success = form.success
        /\ form'.errorMsg \in {form.errorMsg, "", Unverified, "skin not found"}
    BY <1>6, <1>10 DEF CodeRead, FormType, FormMessages
  <2>3. /\ ApplicationTypeOK' /\ FormKept'
        /\ \A m \in Slots : (Verifies(calls[m]) => form'.loading) => Keeps(calls[m])
    BY <1>1, <2>1, <2>2, MovedForm
  <2>. QED
    BY <1>1, <1>3, <1>4, <1>5, <1>7, <2>1, <2>3, Settled
<1>11. CASE CodeRead(n) /\ x.res = "code"
  <2>1. x.kind = "qr" /\ calls' = [calls EXCEPT ![n] = Free] /\ captcha' = captcha
    BY <1>11 DEF CodeRead, Answered, Settle
  <2>2. /\ form' \in FormType /\ form'.username = form.username /\ form'.verified = TRUE
        /\ form'.success = form.success /\ form'.errorMsg = form.errorMsg
    BY <1>6, <1>11 DEF CodeRead, FormType
  <2>3. form.username \in carried /\ ~form.verified
    BY <1>2, <1>11, <2>1 DEF Fits, CodeFits, Verifying
  <2>4. ApplicationTypeOK'
    BY <1>1, <2>1, <2>2 DEF Inv, StateTypes, ApplicationTypeOK, FormType, ServerRests
  <2>5. ~Told
    BY <2>3 DEF Inv, FormKept
  <2>6. FormKept'
    BY <1>1, <2>1, <2>2, <2>3, <2>5 DEF Inv, FormKept, Told, AnswersAreTrue, ServerRests
  <2>7. \A m \in Slots \ {n} : Keeps(calls[m])
    BY <1>5, <2>1, <2>3 DEF Keeps
  <2>. QED
    BY <1>1, <1>3, <1>4, <1>7, <2>1, <2>4, <2>6, <2>7, Settled
<1>12. CASE CaptchaAnswered(n)
  <2>1. x.kind = "recaptcha" /\ UNCHANGED <<form, captcha>>
    BY <1>12 DEF CaptchaAnswered, Answered, formVars
  <2>2. /\ ApplicationTypeOK' /\ FormKept' /\ \A m \in Slots : Keeps(calls[m])
    BY <1>1, <2>1, SameForm
  <2>3. CASE calls' = [calls EXCEPT ![n] = Free]
    BY <1>1, <1>3, <1>4, <1>7, <2>2, <2>3, Settled
  <2>4. CASE calls' = [calls EXCEPT ![n] = Call("create", [name |-> form.username])]
    <3>1. form.verified /\ form.username \in carried
      BY <1>2, <2>1 DEF Fits, Inv, FormKept
    <3>2. PICK of : of = [name |-> form.username]
      OBVIOUS
    <3>3. of \in [name : carried] /\ of.name = form.username /\ of \in Subject
      BY <3>1, <3>2 DEF Subject, Names, Inv, StateTypes, ApplicationTypeOK
    <3>4. PICK y : y = Call("create", of)
      OBVIOUS
    <3>5. /\ y \in Made /\ y.kind = "create" /\ y.of = of /\ y.at = "sent" /\ y.res = ""
          /\ y.waited = TRUE
      BY <3>3, <3>4 DEF Call, Made, Results, Kinds
    <3>6. Fits(y)
      BY <3>1, <3>3, <3>5 DEF Fits, StageFits, CreateFits
    <3>7. ~Verifies(y) /\ \A name : ~Inserts(y, name)
      BY <3>5 DEF Verifies, Inserts
    <3>8. Fits(y)'
      <4>1. Keeps(y)
        BY <2>1, <3>7 DEF Keeps
      <4>. QED
        BY <1>1, <1>3, <3>5, <3>6, <4>1, FitsGrows DEF Inv, ServerRests
    <3>9. calls' = [calls EXCEPT ![n] = y]
      BY <2>4, <3>2, <3>4
    <3>. QED
      BY <1>1, <1>3, <1>4, <2>2, <3>5, <3>7, <3>8, <3>9, CallStep
  <2>. QED
    BY <1>12, <2>3, <2>4 DEF CaptchaAnswered, Then, Settle
<1>13. CASE CreateAnswered(n)
  <2>1. x.kind = "create" /\ calls' = [calls EXCEPT ![n] = Free] /\ captcha' = captcha
    BY <1>13 DEF CreateAnswered, Answered, Settle
  <2>2. CreateFits(x) /\ form.verified /\ form.username = x.of.name
    BY <1>2, <2>1 DEF Fits, CreateFits
  <2>3. form'.username = form.username /\ form'.verified = form.verified /\ form'.loading = form.loading
    BY <1>6, <1>13 DEF CreateAnswered, FormType
  <2>4. /\ x.res \in {"201", "403", "409", "422", "500", "network"}
        /\ form' = IF x.res = "201" THEN [form EXCEPT !.success = TRUE]
                    ELSE [form EXCEPT !.errorMsg = CreateMessage(x.res)]
    BY <1>2, <1>13, <2>2 DEF CreateAnswered, CreateFits
  <2>5. \A name, status : HasBeen(name, status)' <=> HasBeen(name, status)
    BY <1>1 DEF HasBeen, ServerRests
  <2>6. /\ form' \in FormType
        /\ form'.success => form.success \/ x.res = "201"
        /\ form'.errorMsg = "repeat" => form.errorMsg = "repeat" \/ x.res = "422"
        /\ form'.errorMsg = "already approved" => form.errorMsg = "already approved" \/ x.res = "409"
        /\ form'.errorMsg = "banned" => form.errorMsg = "banned" \/ x.res = "403"
    <3>1. CASE x.res = "201"
      BY <1>6, <2>4, <3>1 DEF FormType
    <3>2. CASE x.res # "201"
      <4>1. /\ CreateMessage(x.res) \in FormMessages
            /\ CreateMessage(x.res) = "repeat" => form.errorMsg = "repeat" \/ x.res = "422"
            /\ CreateMessage(x.res) = "already approved"
                 => form.errorMsg = "already approved" \/ x.res = "409"
            /\ CreateMessage(x.res) = "banned" => form.errorMsg = "banned" \/ x.res = "403"
        BY <1>6, <2>4, <3>2 DEF CreateMessage, FormType, FormMessages
      <4>2. form' = [form EXCEPT !.errorMsg = CreateMessage(x.res)]
        BY <2>4, <3>2
      <4>. QED
        BY <1>6, <4>1, <4>2 DEF FormType
    <3>. QED
      BY <3>1, <3>2
  <2>7. AnswersAreTrue'
    <3>1. AnswersAreTrue
      BY DEF Inv, FormKept
    <3>. QED
      BY <2>2, <2>3, <2>5, <2>6, <3>1 DEF AnswersAreTrue, CreateFits
  <2>8. FormKept'
    BY <1>1, <2>1, <2>2, <2>3, <2>7 DEF Inv, FormKept, ServerRests
  <2>9. ApplicationTypeOK'
    BY <1>1, <2>1, <2>6 DEF Inv, StateTypes, ApplicationTypeOK, FormType, ServerRests
  <2>10. \A m \in Slots \ {n} : Keeps(calls[m])
    <3>1. \A m \in Slots : ~Verifies(calls[m])
      BY <2>2 DEF Inv, AllFit, Fits, SkinFits, CodeFits, Verifies, Verifying
    <3>. QED
      BY <2>3, <3>1 DEF Keeps
  <2>. QED
    BY <1>1, <1>3, <1>4, <1>7, <2>1, <2>8, <2>9, <2>10, Settled
<1>. QED
  BY <1>8, <1>9, <1>10, <1>11, <1>12, <1>13 DEF FormCallback

(* A step of the form without a call.                                      *)
LEMMA FormStep ==
    ASSUME Inv, ServerRests, calls' = calls, view' = view,
           \A m \in Slots : Keeps(calls[m]), ApplicationTypeOK', FormKept'
    PROVE  Inv'
<1>1. Grown /\ StoreKept' /\ ActionTypeOK'
  BY RestGrows, SameAction DEF Inv
<1>2. StateTypes' /\ CallTypes' /\ OneVerification'
  BY <1>1 DEF Inv, StateTypes, ServerRests, RequestsTypeOK, Created, CallTypes, OneVerification
<1>3. AllFit'
  <2>1. ASSUME NEW m \in Slots, NEW x, x = calls[m], x.at # "free" PROVE Fits(x)'
    BY <1>1, <2>1, FitsGrows DEF Inv, AllFit, ServerRests
  <2>. QED
    BY <2>1 DEF AllFit
<1>4. \A user : Open(user)' = Open(user)
  BY DEF Open, Matching, Created, ServerRests
<1>5. OneOpen'
  BY <1>4 DEF Inv, OneOpen, ServerRests
<1>6. ViewKept'
  BY DEF Inv, ViewKept, Shown, ServerRests
<1>. QED
  BY <1>1, <1>2, <1>3, <1>5, <1>6 DEF Inv

LEMMA UseFormStep == ASSUME Inv, UseForm PROVE Inv'
<1>1. ServerRests /\ view' = view
  BY DEF UseForm, ServerRests, worldVars, historyVars
<1>2. form \in FormType
  BY DEF Inv, StateTypes, ApplicationTypeOK, FormType
<1>3. \A m \in Slots : Verifies(calls[m]) => Verifying
  BY DEF Inv, AllFit, Fits, SkinFits, CodeFits, Verifies
<1>4. CASE \E name \in Names \cup {Blank} : EditUsername(name)
  <2>1. PICK name \in Names \cup {Blank} : EditUsername(name)
    BY <1>4
  <2>2. /\ ~form.verified /\ ~form.loading /\ form' = [form EXCEPT !.username = name]
        /\ UNCHANGED <<captcha, calls>>
    BY <2>1 DEF EditUsername, UsernameInput
  <2>3. /\ form' \in FormType /\ form'.verified = form.verified /\ form'.errorMsg = form.errorMsg
        /\ form'.success = form.success
    BY <1>2, <2>2 DEF FormType
  <2>4. \A m \in Slots : Keeps(calls[m])
    BY <1>3, <2>2 DEF Keeps, Verifying
  <2>5. ApplicationTypeOK'
    BY <1>1, <2>2, <2>3 DEF Inv, StateTypes, ApplicationTypeOK, FormType, ServerRests
  <2>6. ~Told /\ ~Told'
    BY <2>2, <2>3 DEF Inv, FormKept, Told
  <2>7. FormKept'
    BY <1>1, <2>2, <2>3, <2>6 DEF Inv, FormKept, Told, AnswersAreTrue, ServerRests
  <2>. QED
    BY <1>1, <2>2, <2>4, <2>5, <2>7, FormStep
<1>5. CASE VerifyBlank \/ ClearMessage
  <2>1. UNCHANGED <<captcha, calls>>
    BY <1>5 DEF VerifyBlank, ClearMessage
  <2>2. /\ form' \in FormType /\ form'.username = form.username /\ form'.verified = form.verified
        /\ form'.success = form.success
        /\ form'.errorMsg \in {form.errorMsg, "", Unverified, "skin not found"}
        /\ form.loading => form'.loading
    BY <1>2, <1>5 DEF VerifyBlank, ClearMessage, FormType, FormMessages
  <2>3. /\ ApplicationTypeOK' /\ FormKept'
        /\ \A m \in Slots : (Verifies(calls[m]) => form'.loading) => Keeps(calls[m])
    BY <1>1, <2>1, <2>2, MovedForm
  <2>4. \A m \in Slots : Keeps(calls[m])
    BY <1>3, <2>2, <2>3 DEF Verifying
  <2>. QED
    BY <1>1, <2>1, <2>3, <2>4, FormStep
<1>6. CASE Submit
  <2>1. form' = form /\ calls' = calls /\ captcha' = TRUE /\ form.verified
    BY <1>6 DEF Submit, SubmitButton
  <2>2. ApplicationTypeOK' /\ FormKept'
    BY <1>1, <2>1 DEF Inv, StateTypes, ServerRests, ApplicationTypeOK, FormKept, Told,
                      AnswersAreTrue, HasBeen
  <2>3. \A m \in Slots : Keeps(calls[m])
    BY <1>3, <2>1 DEF Keeps, Verifying
  <2>. QED
    BY <1>1, <2>1, <2>2, <2>3, FormStep
<1>7. CASE VerifyUsername
  <2>1. /\ ~form.verified /\ ~form.loading /\ form.username # Blank
        /\ form' = [form EXCEPT !.loading = TRUE] /\ captcha' = captcha
    BY <1>7 DEF VerifyUsername, VerifyButton
  <2>2. PICK of : of = [name |-> form.username]
    OBVIOUS
  <2>3. of \in [name : Names] /\ of.name = form.username /\ of \in Subject
    BY <1>2, <2>1, <2>2 DEF Subject, FormType
  <2>4. PICK y : y = Call("skin", of)
    OBVIOUS
  <2>5. /\ y \in Made /\ y.kind = "skin" /\ y.of = of /\ y.at = "sent" /\ y.res = ""
        /\ y.waited = TRUE
    BY <2>3, <2>4 DEF Call, Made, Results, Kinds
  <2>6. PICK n \in Slots : calls[n] = Free /\ calls' = [calls EXCEPT ![n] = y]
    BY <1>7, <2>2, <2>4, FreeSlot DEF VerifyUsername
  <2>7. /\ form' \in FormType /\ form'.username = form.username /\ form'.verified = form.verified
        /\ form'.success = form.success /\ form'.loading = TRUE
        /\ form'.errorMsg \in {form.errorMsg, "", Unverified, "skin not found"}
    BY <1>2, <2>1 DEF FormType
  <2>8. /\ ApplicationTypeOK' /\ FormKept'
        /\ \A m \in Slots : Keeps(calls[m])
    BY <1>1, <2>1, <2>7, MovedForm
  <2>9. Fits(y)'
    <3>1. SkinFits(y)'
      BY <2>1, <2>3, <2>5, <2>7 DEF SkinFits, Verifying
    <3>. QED
      BY <2>5, <3>1 DEF Fits, StageFits
  <2>10. \A m \in Slots : ~Verifies(calls[m])
    BY <1>3, <2>1 DEF Verifying
  <2>11. /\ \A name : ~Inserts(y, name)
         /\ ~Asks(calls[n])
    BY <2>5, <2>6, CallsAreMade DEF Inserts
  <2>12. ActionTypeOK' /\ ViewKept'
    BY <1>1, <2>5, <2>6, <2>11, SameAction, SameView, RestGrows DEF ServerRests
  <2>. QED
    BY <1>1, <2>5, <2>6, <2>8, <2>9, <2>10, <2>11, <2>12, CallStep
<1>. QED
  BY <1>4, <1>5, <1>6, <1>7 DEF UseForm, Typed

LEMMA ChallengedStep == ASSUME Inv, Challenged PROVE Inv'
<1>1. ServerRests /\ view' = view
  BY DEF Challenged, ServerRests, worldVars, historyVars
<1>2. form' = form /\ captcha = TRUE /\ captcha' = FALSE
  BY DEF Challenged, OnResolved, Inv, StateTypes, ApplicationTypeOK
<1>3. PICK y : y = Call("recaptcha", <<>>)
  OBVIOUS
<1>4. /\ y \in Made /\ y.kind = "recaptcha" /\ y.of = <<>> /\ y.at = "sent" /\ y.res = ""
      /\ y.waited = TRUE
  BY <1>3 DEF Call, Made, Results, Kinds, Subject
<1>5. PICK n \in Slots : calls[n] = Free /\ calls' = [calls EXCEPT ![n] = y]
  BY <1>3, FreeSlot DEF Challenged, OnResolved
<1>6. form.verified
  BY <1>2 DEF Inv, FormKept
<1>7. ApplicationTypeOK' /\ FormKept'
  BY <1>1, <1>2 DEF Inv, StateTypes, ServerRests, ApplicationTypeOK, FormKept, Told,
                    AnswersAreTrue, HasBeen
<1>8. \A m \in Slots : Keeps(calls[m])
  BY <1>2 DEF Keeps, Inv, AllFit, Fits, SkinFits, CodeFits, Verifies, Verifying
<1>9. Fits(y)'
  BY <1>2, <1>4, <1>6 DEF Fits, StageFits
<1>10. ~Verifies(y) /\ (\A name : ~Inserts(y, name)) /\ ~Asks(calls[n])
  BY <1>4, <1>5, CallsAreMade DEF Inserts, Verifies
<1>11. ActionTypeOK' /\ ViewKept'
  BY <1>1, <1>4, <1>5, <1>10, SameAction, SameView, RestGrows DEF ServerRests
<1>. QED
  BY <1>1, <1>4, <1>5, <1>7, <1>8, <1>9, <1>10, <1>11, CallStep

-----------------------------------------------------------------------------
(* The op's page and the status page                                       *)

(* What an address says.                                                   *)
LEMMA AddressFacts ==
    ASSUME NEW to \in Addresses
    PROVE  /\ to.path \in {"/", "/status", "/action"}
           /\ to.path # "/" => to.id \in ReqIds
           /\ to.path = "/action" /\ to.adm # NoToken => to.adm \in Ops
  BY LinkedAssumption DEF Addresses, Form

LEMMA UseActionStep == ASSUME Inv, UseAction PROVE Inv'
<1>1. ServerRests /\ UNCHANGED <<form, captcha, view>>
  BY DEF UseAction, OnDecision, ServerRests, formVars, worldVars, historyVars
<1>2. /\ ApplicationTypeOK' /\ FormKept' /\ ActionTypeOK' /\ Grown
      /\ \A m \in Slots : Keeps(calls[m])
  BY <1>1, SameForm, SameAction, RestGrows
<1>3. PICK status \in Decisions : OnDecision(status)
  BY DEF UseAction
<1>4. page.path = "/action" /\ ~view.invalid
  BY <1>3 DEF OnDecision, ActionShows
<1>5. page.id \in ReqIds /\ page.adm \in Ops
  BY <1>4, AddressFacts DEF Inv, StateTypes, ViewKept
<1>6. PICK of : of = [id |-> page.id, adm |-> page.adm, status |-> status]
  OBVIOUS
<1>7. /\ of \in [id : ReqIds, adm : Ops, status : Decisions] /\ of \in Subject
      /\ of.id = page.id /\ of.adm = page.adm
  BY <1>5, <1>6 DEF Subject
<1>8. PICK y : y = Call("decide", of)
  OBVIOUS
<1>9. /\ y \in Made /\ y.kind = "decide" /\ y.of = of /\ y.at = "sent" /\ y.res = ""
      /\ y.waited = TRUE
  BY <1>7, <1>8 DEF Call, Made, Results, Kinds
<1>10. PICK n \in Slots : calls[n] = Free /\ calls' = [calls EXCEPT ![n] = y]
  BY <1>3, <1>6, <1>8, FreeSlot DEF OnDecision
<1>11. Fits(y)
  BY <1>4, <1>7, <1>9 DEF Fits, StageFits, DecideFits
<1>12. ~Verifies(y) /\ (\A name : ~Inserts(y, name)) /\ ~Asks(calls[n])
  BY <1>9, <1>10, CallsAreMade DEF Inserts, Verifies
<1>13. Fits(y)'
  <2>1. Keeps(y)
    BY <1>1, <1>12 DEF Keeps
  <2>. QED
    BY <1>1, <1>2, <1>9, <1>11, <2>1, FitsGrows DEF Inv, ServerRests
<1>14. ViewKept'
  BY <1>1, <1>2, <1>9, <1>10, <1>12, SameView DEF ServerRests
<1>. QED
  BY <1>1, <1>2, <1>9, <1>10, <1>12, <1>13, <1>14, CallStep

(* What is left of a page that is unloaded: the writes under way, which     *)
(* nobody waits for.                                                       *)
LEMMA AbandonedCalls ==
    ASSUME Inv, NEW a, a = Abandoned(calls)
    PROVE  /\ a = [m \in Slots |-> a[m]]
           /\ \A m \in Slots :
                 \/ a[m] = Free
                 \/ /\ a[m] \in Made /\ a[m].waited = FALSE
                    /\ a[m].kind \in {"create", "decide"}
                    /\ calls[m].at \notin {"free", "done"}
                    /\ a[m].at = calls[m].at /\ a[m].kind = calls[m].kind
                    /\ a[m].of = calls[m].of /\ a[m].res = calls[m].res
<1>1. a = [m \in Slots |-> a[m]]
  BY DEF Abandoned
<1>2. ASSUME NEW m \in Slots, a[m] # Free
      PROVE  /\ a[m] \in Made /\ a[m].waited = FALSE
             /\ a[m].kind \in {"create", "decide"}
             /\ calls[m].at \notin {"free", "done"}
             /\ a[m].at = calls[m].at /\ a[m].kind = calls[m].kind
             /\ a[m].of = calls[m].of /\ a[m].res = calls[m].res
  <2>1. /\ calls[m].at \notin {"free", "done"} /\ calls[m].kind \in Writes
        /\ a[m] = [calls[m] EXCEPT !.waited = FALSE]
    BY <1>2 DEF Abandoned
  <2>2. calls[m] \in Made
    BY <2>1, CallsAreMade DEF Inv
  <2>3. calls[m].kind \in {"create", "decide"}
    BY <2>1, <2>2 DEF Made, Kinds, Writes
  <2>. QED
    BY <2>1, <2>2, <2>3 DEF Made
<1>. QED
  BY <1>1, <1>2

(* A page is left, and another one makes its first calls.                   *)
LEMMA UnloadStep ==
    ASSUME Inv, UNCHANGED <<requests, skins, carried, exempt, been, assigned>>,
           page' \in Addresses, calls' \in [Slots -> Made \cup {Free}],
           \A m \in Slots :
              \/ calls'[m] = Abandoned(calls)[m]
              \/ /\ calls'[m].at = "sent" /\ calls'[m].kind \in {"verify", "get"}
                 /\ \A x : x = calls'[m] => Fits(x)',
           ApplicationTypeOK', FormKept', ActionTypeOK', ViewKept'
    PROVE  Inv'
<1>1. StateTypes'
  BY DEF Inv, StateTypes, RequestsTypeOK, Created
<1>2. CallTypes'
  BY DEF CallTypes
<1>3. PICK a : a = Abandoned(calls)
  OBVIOUS
<1>4. \A m \in Slots :
         \/ a[m] = Free
         \/ /\ a[m] \in Made /\ a[m].waited = FALSE
            /\ a[m].kind \in {"create", "decide"}
            /\ calls[m].at \notin {"free", "done"}
            /\ a[m].at = calls[m].at /\ a[m].kind = calls[m].kind
            /\ a[m].of = calls[m].of /\ a[m].res = calls[m].res
  BY <1>3, AbandonedCalls
<1>5. \A name, status : HasBeen(name, status)' <=> HasBeen(name, status)
  BY DEF HasBeen
<1>6. AllFit'
  <2>1. ASSUME NEW m \in Slots, NEW x, x = calls'[m], x.at # "free", x = a[m] PROVE Fits(x)'
    <3>1. /\ x.waited = FALSE /\ x.kind \in {"create", "decide"}
          /\ calls[m].at \notin {"free", "done"}
          /\ x.at = calls[m].at /\ x.kind = calls[m].kind
          /\ x.of = calls[m].of /\ x.res = calls[m].res
      BY <1>4, <2>1 DEF Free
    <3>2. Fits(calls[m])
      BY <3>1 DEF Inv, AllFit
    <3>3. StageFits(x)'
      BY <3>1, <3>2 DEF Fits, StageFits
    <3>4. ASSUME x.kind = "create" PROVE CreateFits(x)'
      BY <1>5, <3>1, <3>2, <3>4 DEF Fits, CreateFits
    <3>5. ASSUME x.kind = "decide" PROVE DecideFits(x)'
      BY <3>1, <3>2, <3>5 DEF Fits, DecideFits, Created
    <3>. QED
      BY <3>1, <3>3, <3>4, <3>5 DEF Fits
  <2>. QED
    BY <1>3, <2>1 DEF AllFit
<1>7. \A m \in Slots : ~Verifies(calls'[m]) /\ \A name : Inserts(calls'[m], name) => Inserts(calls[m], name)
  BY <1>3, <1>4 DEF Verifies, Inserts, Free
<1>8. OneVerification'
  BY <1>7 DEF OneVerification
<1>9. OneOpen'
  <2>1. \A user : Open(user)' = Open(user)
    BY DEF Open, Matching, Created
  <2>. QED
    BY <1>7, <2>1 DEF Inv, OneOpen
<1>10. StoreKept'
  BY DEF Inv, StoreKept, Stored, Created
<1>. QED
  BY <1>1, <1>2, <1>6, <1>8, <1>9, <1>10 DEF Inv

\* What a page that is mounted has made of the calls and of its state.
Mounted == /\ calls' \in [Slots -> Made \cup {Free}]
           /\ \A m \in Slots :
                 \/ calls'[m] = Abandoned(calls)[m]
                 \/ /\ calls'[m].at = "sent" /\ calls'[m].kind \in {"verify", "get"}
                    /\ \A x : x = calls'[m] => Fits(x)'
           /\ view' \in [invalid : BOOLEAN, request : Statuses \cup {NoRequest}]
           /\ ViewKept'

LEMMA ActionMounted ==
    ASSUME Inv, NEW to \in Addresses, to.path = "/action", page' = to,
           MountAction(to.id, to.adm, Abandoned(calls))
    PROVE  Mounted
<1>1. PICK a : a = Abandoned(calls)
  OBVIOUS
<1>2. a = [m \in Slots |-> a[m]] /\ \A m \in Slots : a[m] \in Made \cup {Free}
  BY <1>1, AbandonedCalls
<1>3. NewView \in [invalid : BOOLEAN, request : Statuses \cup {NoRequest}]
  BY DEF NewView
<1>4. NoRequest \notin Statuses
  BY DEF NoRequest, Statuses
<1>5. CASE to.adm = NoToken
  <2>1. /\ calls' = a /\ view' = [NewView EXCEPT !.invalid = TRUE]
    BY <1>1, <1>5 DEF MountAction
  <2>2. view'.invalid = TRUE /\ view'.request = NoRequest
    BY <2>1 DEF NewView
  <2>3. view' \in [invalid : BOOLEAN, request : Statuses \cup {NoRequest}]
    BY <1>3, <2>1
  <2>4. ViewKept'
    BY <1>4, <2>2 DEF ViewKept
  <2>5. calls' \in [Slots -> Made \cup {Free}]
    BY <1>2, <2>1
  <2>. QED
    BY <1>1, <2>1, <2>3, <2>4, <2>5 DEF Mounted
<1>6. CASE to.adm # NoToken
  <2>1. to.id \in ReqIds /\ to.adm \in Ops
    BY <1>6, AddressFacts
  <2>2. PICK of : of = [id |-> to.id, adm |-> to.adm]
    OBVIOUS
  <2>3. PICK ofGet : ofGet = [id |-> to.id]
    OBVIOUS
  <2>4. of \in Subject /\ ofGet \in Subject
    BY <2>1, <2>2, <2>3 DEF Subject
  <2>5. PICK x : x = Call("verify", of)
    OBVIOUS
  <2>6. PICK y : y = Call("get", ofGet)
    OBVIOUS
  <2>7. /\ x \in Made /\ x.kind = "verify" /\ x.of = of /\ x.at = "sent" /\ x.res = ""
        /\ x.waited = TRUE
    BY <2>4, <2>5 DEF Call, Made, Results, Kinds
  <2>8. /\ y \in Made /\ y.kind = "get" /\ y.of = ofGet /\ y.at = "sent" /\ y.res = ""
        /\ y.waited = TRUE
    BY <2>4, <2>6 DEF Call, Made, Results, Kinds
  <2>9. /\ Room(a, 2) /\ view' = NewView /\ calls' = With(With(a, x), y)
    BY <1>1, <1>6, <2>2, <2>3, <2>5, <2>6 DEF MountAction
  <2>10. a \in [Slots -> Made \cup {Free}] /\ x # Free
    BY <1>2, <2>7, CallsAreMade
  <2>11. calls' \in [Slots -> Made \cup {Free} \cup {x, y}] /\ Placed(a, x, y, calls')
    BY <2>9, <2>10, TwoSlots
  <2>12. calls' \in [Slots -> Made \cup {Free}]
    <3>1. Made \cup {Free} \cup {x, y} = Made \cup {Free}
      BY <2>7, <2>8
    <3>. QED
      BY <2>11, <3>1
  <2>13. PICK s, t \in Slots :
            /\ s # t /\ a[s] = Free /\ a[t] = Free
            /\ \A m \in Slots : calls'[m] = IF m = t THEN y ELSE IF m = s THEN x ELSE a[m]
    BY <2>11 DEF Placed
  <2>14. Fits(x)'
    <3>1. VerifyFits(x)'
      BY <2>1, <2>2, <2>7 DEF VerifyFits
    <3>. QED
      BY <2>7, <3>1 DEF Fits, StageFits
  <2>15. Fits(y)'
    <3>1. GetFits(y)'
      BY <2>1, <2>3, <2>8 DEF GetFits, Statuses
    <3>. QED
      BY <2>8, <3>1 DEF Fits, StageFits
  <2>16. ViewKept'
    <3>1. view'.request = NoRequest
      BY <2>9 DEF NewView
    <3>2. Asks(calls'[s])
      BY <2>7, <2>13 DEF Asks
    <3>. QED
      BY <1>4, <2>1, <2>13, <3>1, <3>2 DEF ViewKept
  <2>17. \A m \in Slots : \/ calls'[m] = a[m]
                         \/ calls'[m] = x
                         \/ calls'[m] = y
    BY <2>13
  <2>18. \A m \in Slots :
            \/ calls'[m] = a[m]
            \/ /\ calls'[m].at = "sent" /\ calls'[m].kind \in {"verify", "get"}
               /\ \A z : z = calls'[m] => Fits(z)'
    BY <2>7, <2>8, <2>14, <2>15, <2>17
  <2>. QED
    BY <1>1, <1>3, <2>9, <2>12, <2>16, <2>18 DEF Mounted
<1>. QED
  BY <1>5, <1>6

LEMMA StatusMounted ==
    ASSUME Inv, NEW to \in Addresses, to.path = "/status", page' = to,
           MountStatus(to.id, Abandoned(calls))
    PROVE  Mounted
<1>1. PICK a : a = Abandoned(calls)
  OBVIOUS
<1>2. a = [m \in Slots |-> a[m]] /\ \A m \in Slots : a[m] \in Made \cup {Free}
  BY <1>1, AbandonedCalls
<1>3. to.id \in ReqIds
  BY AddressFacts
<1>4. PICK of : of = [id |-> to.id]
  OBVIOUS
<1>5. of \in Subject
  BY <1>3, <1>4 DEF Subject
<1>6. PICK y : y = Call("get", of)
  OBVIOUS
<1>7. /\ y \in Made /\ y.kind = "get" /\ y.of = of /\ y.at = "sent" /\ y.res = ""
      /\ y.waited = TRUE
  BY <1>5, <1>6 DEF Call, Made, Results, Kinds
<1>8. Room(a, 1) /\ view' = NewView /\ calls' = With(a, y)
  BY <1>1, <1>4, <1>6 DEF MountStatus
<1>9. PICK s \in Slots : a[s] = Free /\ calls' = [a EXCEPT ![s] = y]
  BY <1>8, FreeSlot
<1>10. calls' \in [Slots -> Made \cup {Free}]
  BY <1>2, <1>7, <1>9
<1>11. Fits(y)'
  <2>1. GetFits(y)'
    BY <1>3, <1>4, <1>7 DEF GetFits, Statuses
  <2>. QED
    BY <1>7, <2>1 DEF Fits, StageFits
<1>12. \A m \in Slots : calls'[m] = a[m] \/ calls'[m] = y
  BY <1>2, <1>9
<1>13. \A m \in Slots :
          \/ calls'[m] = a[m]
          \/ /\ calls'[m].at = "sent" /\ calls'[m].kind \in {"verify", "get"}
             /\ \A z : z = calls'[m] => Fits(z)'
  BY <1>7, <1>11, <1>12
<1>14. /\ view' \in [invalid : BOOLEAN, request : Statuses \cup {NoRequest}]
       /\ view'.request \notin Statuses
  BY <1>8 DEF NewView, NoRequest, Statuses
<1>15. ViewKept'
  BY <1>14 DEF ViewKept
<1>. QED
  BY <1>1, <1>10, <1>13, <1>14, <1>15 DEF Mounted

LEMMA ActionCallbackStep == ASSUME Inv, NEW n \in Slots, ActionCallback(n) PROVE Inv'
<1>. DEFINE x == calls[n]
<1>1. ServerRests /\ UNCHANGED <<form, captcha>>
  BY DEF ActionCallback, ServerRests, formVars, worldVars, historyVars
<1>2. /\ ApplicationTypeOK' /\ FormKept' /\ Grown /\ \A m \in Slots : Keeps(calls[m])
  BY <1>1, SameForm, RestGrows
<1>3. /\ x.at = "done" /\ x.waited /\ Fits(x) /\ x \in Made
      /\ x.kind \in {"verify", "get", "decide"}
  <2>1. x.at = "done" /\ x.kind \in {"verify", "get", "decide"}
    BY DEF ActionCallback, VerifyAnswered, GetAnswered, Completed, Refused, Answered
  <2>2. Fits(x) /\ x \in Made
    BY <2>1, CallsAreMade DEF Inv, AllFit
  <2>. QED
    BY <2>1, <2>2 DEF Fits, StageFits
<1>4. CallTypes /\ ViewKept /\ view \in [invalid : BOOLEAN, request : Statuses \cup {NoRequest}]
  BY DEF Inv, StateTypes, ActionTypeOK
<1>5. CASE VerifyAnswered(n)
  <2>1. /\ x.kind = "verify" /\ calls' = [calls EXCEPT ![n] = Free]
        /\ view' = IF x.res = "200" THEN view ELSE [view EXCEPT !.invalid = TRUE]
    BY <1>5 DEF VerifyAnswered, Answered, Invalid, Settle
  <2>2. VerifyFits(x)
    BY <1>3, <2>1 DEF Fits
  <2>3. /\ view'.request = view.request
        /\ ~view'.invalid => ~view.invalid /\ x.res = "200"
    BY <1>4, <2>1
  <2>4. ViewKept'
    BY <1>1, <1>4, <2>2, <2>3 DEF ViewKept, VerifyFits, ServerRests, Shown
  <2>5. ActionTypeOK'
    BY <1>1, <1>4, <2>1 DEF Inv, StateTypes, ActionTypeOK, ServerRests
  <2>. QED
    BY <1>1, <1>2, <2>1, <2>4, <2>5, Settled
<1>6. CASE GetAnswered(n)
  <2>1. /\ x.kind = "get" /\ calls' = [calls EXCEPT ![n] = Free]
        /\ view' = IF x.res \in Statuses THEN [view EXCEPT !.request = x.res]
                   ELSE [view EXCEPT !.invalid = TRUE]
    BY <1>6 DEF GetAnswered, Answered, Invalid, Settle
  <2>2. GetFits(x)
    BY <1>3, <2>1 DEF Fits
  <2>3. /\ view'.request # view.request => view'.request = x.res
        /\ ~view'.invalid => ~view.invalid
        /\ view' \in [invalid : BOOLEAN, request : Statuses \cup {NoRequest}]
    BY <1>4, <2>1
  <2>4. \A m \in Slots : Asks(calls[m]) => Asks(calls'[m])
    <3>1. ~Asks(x)
      BY <2>1 DEF Asks
    <3>. QED
      BY <1>4, <2>1, <3>1 DEF CallTypes
  <2>5. /\ page.path = "/action" /\ ~view'.invalid =>
              /\ page.adm \in Ops
              /\ (\E m \in Slots : Asks(calls'[m])) \/ <<page.id, page.adm>> \in assigned
    BY <1>4, <2>3, <2>4 DEF ViewKept
  <2>6. view'.request \in Statuses => Shown(page.id, view'.request)
    BY <1>4, <2>2, <2>3 DEF ViewKept, GetFits
  <2>7. page.path # "/"
    BY <2>2 DEF GetFits
  <2>8. ViewKept'
    BY <1>1, <2>5, <2>6, <2>7 DEF ViewKept, ServerRests, Shown
  <2>9. ActionTypeOK'
    BY <1>1, <2>3 DEF Inv, StateTypes, ActionTypeOK, ServerRests
  <2>. QED
    BY <1>1, <1>2, <2>1, <2>8, <2>9, Settled
<1>7. CASE Refused(n)
  <2>1. x.kind = "decide" /\ calls' = [calls EXCEPT ![n] = Free] /\ view' = view
    BY <1>7 DEF Refused, Answered, Settle
  <2>2. ActionTypeOK' /\ ViewKept'
    BY <1>1, <1>2, <2>1, SameAction, SameView DEF ServerRests, Asks
  <2>. QED
    BY <1>1, <1>2, <2>1, <2>2, Settled
<1>8. CASE Completed(n)
  <2>1. x.kind = "decide" /\ MountAction(page.id, page.adm, Abandoned(calls))
    BY <1>8 DEF Completed, Answered
  <2>2. page.path = "/action" /\ page' = page /\ page \in Addresses
    BY <1>1, <1>3, <2>1 DEF Fits, DecideFits, ServerRests, Inv, StateTypes
  <2>3. PICK to \in Addresses : to = page
    BY <2>2
  <2>4. Mounted
    BY <2>1, <2>2, <2>3, ActionMounted
  <2>5. ActionTypeOK'
    BY <1>1, <2>4 DEF Mounted, Inv, StateTypes, ActionTypeOK, ServerRests
  <2>. QED
    BY <1>1, <1>2, <2>2, <2>4, <2>5, UnloadStep DEF Mounted, ServerRests
<1>. QED
  BY <1>5, <1>6, <1>7, <1>8 DEF ActionCallback

LEMMA VisitStep == ASSUME Inv, NEW to \in Addresses, Visit(to) PROVE Inv'
<1>1. /\ UNCHANGED <<requests, skins, carried, exempt, been, assigned>>
      /\ page' = to /\ form' = NewForm /\ captcha' = FALSE
  BY DEF Visit, worldVars, historyVars
<1>2. ApplicationTypeOK'
  BY <1>1 DEF Inv, StateTypes, ApplicationTypeOK, NewForm, FormMessages
<1>3. FormKept'
  BY <1>1 DEF Inv, FormKept, Told, AnswersAreTrue, NewForm
<1>4. Mounted
  <2>1. CASE to.path = "/"
    <3>1. PICK a : a = Abandoned(calls)
      OBVIOUS
    <3>2. a = [m \in Slots |-> a[m]] /\ \A m \in Slots : a[m] \in Made \cup {Free}
      BY <3>1, AbandonedCalls
    <3>3. view' = NewView /\ calls' = a
      BY <2>1, <3>1 DEF Visit
    <3>4. /\ view' \in [invalid : BOOLEAN, request : Statuses \cup {NoRequest}]
          /\ view'.request \notin Statuses /\ view'.request = NoRequest
      BY <3>3 DEF NewView, NoRequest, Statuses
    <3>5. ViewKept'
      BY <1>1, <2>1, <3>4 DEF ViewKept
    <3>6. calls' \in [Slots -> Made \cup {Free}]
      BY <3>2, <3>3
    <3>. QED
      BY <3>1, <3>3, <3>4, <3>5, <3>6 DEF Mounted
  <2>2. CASE to.path = "/status"
    BY <1>1, <2>2, StatusMounted DEF Visit
  <2>3. CASE to.path = "/action"
    BY <1>1, <2>3, ActionMounted DEF Visit
  <2>. QED
    BY <2>1, <2>2, <2>3, AddressFacts
<1>5. ActionTypeOK'
  BY <1>1, <1>4 DEF Mounted, Inv, StateTypes, ActionTypeOK
<1>. QED
  BY <1>1, <1>2, <1>3, <1>4, <1>5, UnloadStep DEF Mounted

-----------------------------------------------------------------------------
(* The database, the worker and the players                                *)

(* A step outside the page, one call apart.                                *)
LEMMA OutsideStep ==
    ASSUME Inv, Grown, UNCHANGED <<page, form, captcha, view>>,
           NEW n \in Slots, NEW y \in Made \cup {Free}, calls' = [calls EXCEPT ![n] = y],
           y # Free => Fits(y)',
           Verifies(y) => Verifies(calls[n]), Asks(calls[n]) => Asks(y),
           RequestsTypeOK', ApplicationTypeOK', ActionTypeOK', StoreKept', OneOpen',
           \A name \in Usernames : skins'[name] = "code" => name \in carried'
    PROVE  Inv'
<1>1. StateTypes'
  BY DEF Inv, StateTypes
<1>2. \A m \in Slots : Keeps(calls[m])
  BY DEF Keeps, Inv, AllFit, Fits, SkinFits, CodeFits, Verifies, Verifying
<1>3. CallTypes' /\ AllFit' /\ OneVerification'
  BY <1>2, OneCall
<1>4. ViewKept'
  BY SameView
<1>5. AnswersAreTrue'
  <2>1. \A name, status : HasBeen(name, status) => HasBeen(name, status)'
    BY HasBeenGrows DEF Inv
  <2>. QED
    BY <2>1 DEF Inv, FormKept, AnswersAreTrue
<1>6. FormKept'
  BY <1>5 DEF Inv, FormKept, Told, Grown
<1>. QED
  BY <1>1, <1>3, <1>4, <1>6 DEF Inv

(* A step outside the page, without a call of it.                          *)
LEMMA ElsewhereGrows ==
    ASSUME Inv, Grown, UNCHANGED <<page, form, captcha, view, calls>>,
           RequestsTypeOK', ApplicationTypeOK', ActionTypeOK', StoreKept', OneOpen',
           \A name \in Usernames : skins'[name] = "code" => name \in carried'
    PROVE  Inv'
<1>1. 1 \in Slots
  BY CallsAssumption DEF Slots
<1>2. PICK y : y = calls[1]
  OBVIOUS
<1>3. y \in Made \cup {Free} /\ calls' = [calls EXCEPT ![1] = y]
  BY <1>1, <1>2 DEF Inv, CallTypes
<1>4. y # Free => Fits(y)'
  <2>1. y # Free => Fits(y) /\ y.at # "free"
    BY <1>1, <1>2, <1>3, CallsAreMade DEF Inv, AllFit
  <2>2. y # Free => Keeps(y)
    BY <1>1, <1>2 DEF Keeps, Inv, AllFit, Fits, SkinFits, CodeFits, Verifies, Verifying
  <2>. QED
    BY <2>1, <2>2, FitsGrows DEF Inv
<1>. QED
  BY <1>1, <1>2, <1>3, <1>4, OutsideStep

(* A decision is stored, by whomever: what is open of a user does not grow,  *)
(* unless it reopens a request of theirs.                                  *)
LEMMA DecisionStored ==
    ASSUME Inv, NEW id \in Created, NEW status \in Statuses, NEW admin \in Ops \cup {Admin},
           SetDecision(id, status, admin), been' = been \cup Stored',
           UNCHANGED <<carried, assigned>>
    PROVE  /\ Grown /\ RequestsTypeOK' /\ StoreKept'
           /\ been' \subseteq ReqIds \X Statuses \X (Ops \cup {Admin, Nobody})
           /\ <<id, status, admin>> \in been'
           /\ \A user : \/ requests[id].username # user
                        \/ requests[id].status \in Blocking
                        \/ status \notin Blocking
                        => Open(user)' \subseteq Open(user)
<1>1. /\ Created \subseteq ReqIds /\ requests \in [Created -> Documents]
      /\ been \subseteq ReqIds \X Statuses \X (Ops \cup {Admin, Nobody})
  BY DEF Inv, StateTypes, RequestsTypeOK, ActionTypeOK
<1>2. requests' = [requests EXCEPT ![id].status = status, ![id].admin = admin]
  BY DEF SetDecision
<1>3. Created' = Created
  BY <1>2 DEF Created
<1>4. \A i \in Created :
         /\ requests'[i].username = requests[i].username
         /\ requests'[i].assignees = requests[i].assignees
         /\ requests'[i].status = IF i = id THEN status ELSE requests[i].status
         /\ requests'[i].admin = IF i = id THEN admin ELSE requests[i].admin
  BY <1>1, <1>2 DEF Documents
<1>5. requests' \in [Created -> Documents]
  BY <1>1, <1>2 DEF Documents
<1>6. RequestsTypeOK'
  BY <1>1, <1>3, <1>5 DEF RequestsTypeOK
<1>7. Stored' \subseteq ReqIds \X Statuses \X (Ops \cup {Admin, Nobody})
  <2>1. \A i \in Created : /\ requests'[i].status \in Statuses
                           /\ requests'[i].admin \in Ops \cup {Admin, Nobody}
    BY <1>5 DEF Documents
  <2>. QED
    BY <1>1, <1>3, <2>1 DEF Stored
<1>8. <<id, status, admin>> \in Stored'
  BY <1>3, <1>4 DEF Stored
<1>9. Grown
  BY <1>3, <1>4 DEF Grown
<1>10. StoreKept'
  <2>1. \A b \in been' : b[1] \in Created'
    <3>1. \A b \in Stored' : b[1] \in Created'
      BY DEF Stored
    <3>. QED
      BY <1>3, <3>1 DEF Inv, StoreKept
  <2>. QED
    BY <1>3, <1>4, <2>1 DEF Inv, StoreKept
<1>11. \A user : \/ requests[id].username # user
                  \/ requests[id].status \in Blocking
                  \/ status \notin Blocking
                  => Open(user)' \subseteq Open(user)
  BY <1>3, <1>4 DEF Open, Matching
<1>. QED
  BY <1>1, <1>6, <1>7, <1>8, <1>9, <1>10, <1>11

LEMMA InsertStep ==
    ASSUME Inv, NEW n \in Slots, Write(n), NEW id \in ReqIds, InsertRequest(n, id),
           exempt' = IF Inserting(calls[n].of.name) = {n} THEN exempt
                     ELSE exempt \cup {calls[n].of.name}
    PROVE  Inv'
<1>. DEFINE x == calls[n]
<1>1. UNCHANGED <<page, form, captcha, view, skins, carried, assigned>> /\ been' = been \cup Stored'
  BY DEF Write, formVars, worldVars
<1>2. x.at = "insert" /\ id \notin Created /\ CreateRequest(id, x.of.name)
  BY DEF InsertRequest, AtStage
<1>3. x \in Made /\ Fits(x) /\ CallTypes
  BY <1>2, CallsAreMade DEF Inv, AllFit
<1>4. x.kind = "create" /\ CreateFits(x)
  BY <1>2, <1>3 DEF Fits, StageFits
<1>5. PICK name : name = x.of.name
  OBVIOUS
<1>6. name \in carried /\ name \in Usernames
  BY <1>4, <1>5 DEF CreateFits, Inv, StateTypes, ApplicationTypeOK
<1>7. PICK doc : doc = [username |-> name, status |-> "Pending", assignees |-> {}, admin |-> Nobody]
  OBVIOUS
<1>8. /\ doc \in Documents /\ doc.username = name /\ doc.status = "Pending"
      /\ doc.assignees = {} /\ doc.admin = Nobody
  BY <1>6, <1>7 DEF Documents, Statuses
<1>9. requests' = [i \in Created \cup {id} |-> IF i = id THEN doc ELSE requests[i]]
  BY <1>2, <1>5, <1>7 DEF CreateRequest
<1>10. /\ Created' = Created \cup {id} /\ requests'[id] = doc
       /\ \A i \in Created : requests'[i] = requests[i]
  BY <1>2, <1>9 DEF Created
<1>11. /\ Created \subseteq ReqIds /\ requests \in [Created -> Documents]
       /\ been \subseteq ReqIds \X Statuses \X (Ops \cup {Admin, Nobody})
  BY DEF Inv, StateTypes, RequestsTypeOK, ActionTypeOK
<1>12. RequestsTypeOK'
  BY <1>8, <1>9, <1>10, <1>11 DEF RequestsTypeOK
<1>13. Grown
  BY <1>1, <1>10 DEF Grown
<1>14. StoreKept'
  <2>1. \A b \in been' : b[1] \in Created'
    <3>1. \A b \in Stored' : b[1] \in Created'
      BY DEF Stored
    <3>. QED
      BY <1>1, <1>10, <3>1 DEF Inv, StoreKept
  <2>2. \A i \in Created' : \A op \in requests'[i].assignees : <<i, op>> \in assigned'
    BY <1>1, <1>8, <1>10 DEF Inv, StoreKept
  <2>. QED
    BY <1>1, <2>1, <2>2 DEF StoreKept
<1>15. ActionTypeOK'
  <2>1. \A i \in Created' : /\ requests'[i].status \in Statuses
                            /\ requests'[i].admin \in Ops \cup {Admin, Nobody}
    BY <1>12 DEF RequestsTypeOK, Documents
  <2>2. Stored' \subseteq ReqIds \X Statuses \X (Ops \cup {Admin, Nobody})
    BY <1>12, <2>1 DEF Stored, RequestsTypeOK
  <2>3. exempt' \subseteq Usernames
    BY <1>5, <1>6 DEF Inv, StateTypes, ActionTypeOK
  <2>. QED
    BY <1>1, <1>11, <2>2, <2>3 DEF Inv, StateTypes, ActionTypeOK
<1>16. HasBeen(name, "Pending")'
  <2>1. <<id, "Pending", Nobody>> \in been'
    BY <1>1, <1>8, <1>10 DEF Stored
  <2>2. requests'[id].username = name
    BY <1>8, <1>10
  <2>. QED
    BY <2>1, <2>2 DEF HasBeen
<1>17. PICK res \in {"201", "500"} : Respond(n, res)
  BY DEF InsertRequest
<1>18. Respond(n, res) /\ res \in Results /\ calls[n].at # "free"
  BY <1>2, <1>17 DEF Results
<1>19. PICK y \in Made \cup {Free} :
          calls' = [calls EXCEPT ![n] = y] /\ AnsweredBy(calls[n], res, y)
  BY <1>3, <1>18, Responded
<1>20. y # Free => /\ y.at = "done" /\ y.kind = "create" /\ y.of = x.of /\ y.res = res
                   /\ y.waited = TRUE /\ x.waited
  BY <1>4, <1>19 DEF AnsweredBy, Answer
<1>21. y # Free => Fits(y)'
  <2>1. y # Free => StageFits(y)'
    BY <1>20 DEF StageFits
  <2>2. y # Free => CreateFits(y)'
    BY <1>1, <1>4, <1>5, <1>16, <1>17, <1>20 DEF CreateFits
  <2>. QED
    BY <1>20, <2>1, <2>2 DEF Fits
<1>22. ~Verifies(y) /\ ~Asks(x) /\ \A user : ~Inserts(y, user)
  BY <1>4, <1>20, CallsAreMade DEF Verifies, Asks, Inserts
<1>23. OneOpen'
  <2>1. \A m \in Slots : calls'[m] = IF m = n THEN y ELSE calls[m]
    BY <1>3, <1>19 DEF CallTypes
  <2>2. \A user : Open(user)' = Open(user) \cup (IF user = name THEN {id} ELSE {})
    BY <1>8, <1>10 DEF Open, Matching, Blocking
  <2>3. exempt \subseteq exempt'
    OBVIOUS
  <2>4. ASSUME NEW user \in Usernames \ exempt', user # name
        PROVE  /\ \A i, j \in Open(user)' : i = j
               /\ (\E m \in Slots : Inserts(calls'[m], user)) => Open(user)' = {}
    BY <1>22, <2>1, <2>2, <2>3, <2>4 DEF Inv, OneOpen
  <2>5. ASSUME name \notin exempt'
        PROVE  /\ \A i, j \in Open(name)' : i = j
               /\ ~\E m \in Slots : Inserts(calls'[m], name)
    <3>1. Inserting(name) = {n} /\ name \notin exempt
      BY <1>5, <2>5
    <3>2. Inserts(x, name)
      BY <1>2, <1>5 DEF Inserts
    <3>3. Open(name) = {}
      BY <1>6, <3>1, <3>2 DEF Inv, OneOpen
    <3>4. \A m \in Slots \ {n} : ~Inserts(calls[m], name)
      BY <3>1 DEF Inserting, Inserts, AtStage
    <3>. QED
      BY <1>22, <2>1, <2>2, <3>3, <3>4
  <2>. QED
    BY <2>4, <2>5 DEF OneOpen
<1>24. ApplicationTypeOK' /\ \A user \in Usernames : skins'[user] = "code" => user \in carried'
  BY <1>1 DEF Inv, StateTypes, ApplicationTypeOK, FormKept
<1>. QED
  BY <1>1, <1>12, <1>13, <1>14, <1>15, <1>19, <1>21, <1>22, <1>23, <1>24, OutsideStep

(* A decision that is stored leaves at most one request of a user open, or   *)
(* the user is exempt.                                                     *)
LEMMA DecisionLeavesOne ==
    ASSUME Inv, NEW id \in Created, NEW status \in Statuses, NEW admin \in Ops \cup {Admin},
           SetDecision(id, status, admin), Reopening(id, status), been' = been \cup Stored',
           UNCHANGED <<carried, assigned>>
    PROVE  /\ exempt' \subseteq Usernames
           /\ \A user \in Usernames \ exempt' :
                 user \notin exempt /\ Open(user)' \subseteq Open(user)
<1>1. requests[id].username \in Usernames
  BY DEF Inv, StateTypes, RequestsTypeOK, Documents
<1>2. exempt' \subseteq Usernames
  BY <1>1 DEF Reopening, Inv, StateTypes, ActionTypeOK
<1>3. ASSUME NEW user \in Usernames \ exempt'
      PROVE  user \notin exempt /\ Open(user)' \subseteq Open(user)
  <2>1. user \notin exempt
    BY <1>3 DEF Reopening
  <2>2. \/ requests[id].username # user
        \/ requests[id].status \in Blocking
        \/ status \notin Blocking
    BY <1>3 DEF Reopening
  <2>. QED
    BY <2>1, <2>2, DecisionStored
<1>. QED
  BY <1>2, <1>3

LEMMA UpdateStep ==
    ASSUME Inv, NEW n \in Slots, Write(n), UpdateDecision(n)
    PROVE  Inv'
<1>. DEFINE x == calls[n]
<1>1. UNCHANGED <<page, form, captcha, view, skins, carried, assigned>> /\ been' = been \cup Stored'
  BY DEF Write, formVars, worldVars
<1>2. x.at = "update"
  BY DEF UpdateDecision, AtStage
<1>3. x \in Made /\ Fits(x) /\ CallTypes
  BY <1>2, CallsAreMade DEF Inv, AllFit
<1>4. x.kind = "decide" /\ DecideFits(x)
  BY <1>2, <1>3 DEF Fits, StageFits
<1>5. PICK id, status, adm : id = x.of.id /\ status = x.of.status /\ adm = x.of.adm
  OBVIOUS
<1>6. id \in Created /\ status \in Statuses /\ adm \in Ops \cup {Admin}
  BY <1>2, <1>4, <1>5 DEF DecideFits, Decisions, Statuses
<1>7. SetDecision(id, status, adm) /\ Reopening(id, status)
  BY <1>5 DEF UpdateDecision
<1>8. /\ Grown /\ RequestsTypeOK' /\ StoreKept'
      /\ been' \subseteq ReqIds \X Statuses \X (Ops \cup {Admin, Nobody})
      /\ <<id, status, adm>> \in been'
      /\ exempt' \subseteq Usernames
      /\ \A user \in Usernames \ exempt' :
            user \notin exempt /\ Open(user)' \subseteq Open(user)
  BY <1>1, <1>6, <1>7, DecisionStored, DecisionLeavesOne
<1>9. ActionTypeOK'
  BY <1>1, <1>8 DEF Inv, StateTypes, ActionTypeOK
<1>10. PICK res \in {"200", "500"} : Respond(n, res)
  BY DEF UpdateDecision
<1>11. Respond(n, res) /\ res \in Results /\ calls[n].at # "free"
  BY <1>2, <1>10 DEF Results
<1>12. PICK y \in Made \cup {Free} :
          calls' = [calls EXCEPT ![n] = y] /\ AnsweredBy(calls[n], res, y)
  BY <1>3, <1>11, Responded
<1>13. y # Free => /\ y.at = "done" /\ y.kind = "decide" /\ y.of = x.of /\ y.res = res
                   /\ y.waited = TRUE /\ x.waited
  BY <1>4, <1>12 DEF AnsweredBy, Answer
<1>14. y # Free => Fits(y)'
  <2>1. y # Free => StageFits(y)'
    BY <1>13 DEF StageFits
  <2>2. y # Free => DecideFits(y)'
    BY <1>1, <1>4, <1>5, <1>8, <1>13 DEF DecideFits
  <2>. QED
    BY <1>13, <2>1, <2>2 DEF Fits
<1>15. ~Verifies(y) /\ ~Asks(x) /\ \A user : ~Inserts(y, user)
  BY <1>4, <1>13, CallsAreMade DEF Verifies, Asks, Inserts
<1>16. OneOpen'
  <2>1. \A m \in Slots : calls'[m] = IF m = n THEN y ELSE calls[m]
    BY <1>3, <1>12 DEF CallTypes
  <2>. QED
    BY <1>8, <1>15, <2>1 DEF Inv, OneOpen
<1>17. ApplicationTypeOK' /\ \A user \in Usernames : skins'[user] = "code" => user \in carried'
  BY <1>1 DEF Inv, StateTypes, ApplicationTypeOK, FormKept
<1>. QED
  BY <1>1, <1>8, <1>9, <1>12, <1>14, <1>15, <1>16, <1>17, OutsideStep

LEMMA WriteStep == ASSUME Inv, NEW n \in Slots, Write(n) PROVE Inv'
  BY InsertStep, UpdateStep DEF Write

LEMMA ElsewhereStep == ASSUME Inv, Elsewhere PROVE Inv'
<1>1. /\ UNCHANGED <<page, form, captcha, view, calls, skins, carried, assigned>>
      /\ been' = been \cup Stored'
  BY DEF Elsewhere, pagesVars, worldVars
<1>2. PICK id \in Created, status \in Statuses :
         SetDecision(id, status, Admin) /\ Reopening(id, status)
  BY DEF Elsewhere
<1>3. /\ Grown /\ RequestsTypeOK' /\ StoreKept'
      /\ been' \subseteq ReqIds \X Statuses \X (Ops \cup {Admin, Nobody})
      /\ exempt' \subseteq Usernames
      /\ \A user \in Usernames \ exempt' :
            user \notin exempt /\ Open(user)' \subseteq Open(user)
  BY <1>1, <1>2, DecisionStored, DecisionLeavesOne
<1>4. ActionTypeOK' /\ ApplicationTypeOK'
  BY <1>1, <1>3 DEF Inv, StateTypes, ActionTypeOK, ApplicationTypeOK
<1>5. OneOpen'
  BY <1>1, <1>3 DEF Inv, OneOpen
<1>6. \A user \in Usernames : skins'[user] = "code" => user \in carried'
  BY <1>1 DEF Inv, FormKept
<1>. QED
  BY <1>1, <1>3, <1>4, <1>5, <1>6, ElsewhereGrows

LEMMA WorkerStep == ASSUME Inv, Worker PROVE Inv'
<1>1. UNCHANGED <<page, form, captcha, view, calls, skins, carried, exempt, been>>
  BY DEF Worker, pagesVars, worldVars
<1>2. PICK id \in Linked, ops \in SUBSET Ops : Assign(id, ops)
  BY DEF Worker
<1>3. /\ id \in Created /\ requests' = [requests EXCEPT ![id].assignees = ops]
      /\ assigned' = assigned \cup {<<id, op>> : op \in ops}
  BY <1>2 DEF Assign, SetAssignees
<1>4. Created \subseteq ReqIds /\ requests \in [Created -> Documents]
  BY DEF Inv, StateTypes, RequestsTypeOK
<1>5. Created' = Created
  BY <1>3 DEF Created
<1>6. \A i \in Created :
         /\ requests'[i].username = requests[i].username
         /\ requests'[i].status = requests[i].status
         /\ requests'[i].admin = requests[i].admin
         /\ requests'[i].assignees = IF i = id THEN ops ELSE requests[i].assignees
  BY <1>3, <1>4 DEF Documents
<1>7. RequestsTypeOK'
  <2>1. requests' \in [Created -> Documents]
    BY <1>2, <1>3, <1>4 DEF Documents
  <2>. QED
    BY <1>4, <1>5, <2>1 DEF RequestsTypeOK
<1>8. Grown
  BY <1>1, <1>3, <1>5, <1>6 DEF Grown
<1>9. Stored' = Stored
  BY <1>5, <1>6 DEF Stored
<1>10. StoreKept'
  BY <1>1, <1>3, <1>5, <1>6, <1>9 DEF Inv, StoreKept
<1>11. ActionTypeOK' /\ ApplicationTypeOK'
  BY <1>1, <1>2, <1>3, <1>4 DEF Inv, StateTypes, ActionTypeOK, ApplicationTypeOK
<1>12. OneOpen'
  <2>1. \A user : Open(user)' = Open(user)
    BY <1>5, <1>6 DEF Open, Matching
  <2>. QED
    BY <1>1, <2>1 DEF Inv, OneOpen
<1>13. \A user \in Usernames : skins'[user] = "code" => user \in carried'
  BY <1>1 DEF Inv, FormKept
<1>. QED
  BY <1>1, <1>7, <1>8, <1>10, <1>11, <1>12, <1>13, ElsewhereGrows

LEMMA PlayerStep == ASSUME Inv, Player PROVE Inv'
<1>1. UNCHANGED <<requests, page, form, captcha, view, calls, exempt, been, assigned>>
  BY DEF Player, pagesVars, historyVars
<1>2. PICK name \in Usernames, skin \in Skins : SetSkin(name, skin)
  BY DEF Player
<1>3. /\ skins' = [skins EXCEPT ![name] = skin]
      /\ carried' = IF skin = "code" THEN carried \cup {name} ELSE carried
      /\ skins \in [Usernames -> Skins]
  BY <1>2 DEF SetSkin, Inv, StateTypes, ApplicationTypeOK
<1>4. Grown
  BY <1>1, <1>3 DEF Grown, Created
<1>5. StoreKept' /\ RequestsTypeOK' /\ ActionTypeOK'
  BY <1>1 DEF Inv, StateTypes, StoreKept, Stored, Created, RequestsTypeOK, ActionTypeOK
<1>6. ApplicationTypeOK'
  BY <1>1, <1>2, <1>3 DEF Inv, StateTypes, ApplicationTypeOK
<1>7. OneOpen'
  <2>1. \A user : Open(user)' = Open(user)
    BY <1>1 DEF Open, Matching, Created
  <2>. QED
    BY <1>1, <2>1 DEF Inv, OneOpen
<1>8. \A user \in Usernames : skins'[user] = "code" => user \in carried'
  BY <1>3 DEF Inv, FormKept
<1>. QED
  BY <1>1, <1>4, <1>5, <1>6, <1>7, <1>8, ElsewhereGrows

-----------------------------------------------------------------------------
(* The specification                                                       *)

LEMMA InitInv == ASSUME Init PROVE Inv
<1>1. /\ Created = {} /\ been = {} /\ assigned = {} /\ exempt = {} /\ carried = {}
      /\ page = Form /\ form = NewForm /\ captcha = FALSE /\ view = NewView
      /\ skins = [name \in Usernames |-> "default"]
  BY DEF Init, NoDocuments, Created
<1>2. calls \in [Slots -> Made \cup {Free}] /\ \A n \in Slots : calls[n] = Free
  BY DEF Init, NoCalls
<1>3. requests \in [Created -> Documents]
  BY DEF Init, NoDocuments, Created
<1>4. StateTypes
  <2>1. RequestsTypeOK
    BY <1>1, <1>3 DEF RequestsTypeOK
  <2>2. ApplicationTypeOK
    BY <1>1 DEF ApplicationTypeOK, NewForm, FormMessages, Skins
  <2>3. ActionTypeOK
    BY <1>1 DEF ActionTypeOK, NewView
  <2>. QED
    BY <1>1, <2>1, <2>2, <2>3 DEF StateTypes, Addresses
<1>5. CallTypes /\ AllFit /\ OneVerification
  BY <1>2, CallsAreMade DEF CallTypes, AllFit, OneVerification
<1>6. FormKept
  BY <1>1 DEF FormKept, Told, AnswersAreTrue, NewForm
<1>7. StoreKept
  BY <1>1 DEF StoreKept, Stored
<1>8. ViewKept
  BY <1>1 DEF ViewKept, Form, NewView, NoRequest, Statuses
<1>9. OneOpen
  BY <1>1, <1>2, CallsAreMade DEF OneOpen, Open, Matching
<1>. QED
  BY <1>4, <1>5, <1>6, <1>7, <1>8, <1>9 DEF Inv

LEMMA NextInv == ASSUME Inv, Next PROVE Inv'
  BY VisitStep, UseFormStep, ChallengedStep, UseActionStep, FormCallbackStep,
     ActionCallbackStep, ReadStep, WriteStep, ElsewhereStep, WorkerStep, PlayerStep DEF Next

LEMMA Stutter == ASSUME Inv, UNCHANGED vars PROVE Inv'
<1>1. ServerRests /\ UNCHANGED <<form, captcha, view, calls>>
  BY DEF vars, pagesVars, worldVars, historyVars, ServerRests
<1>2. ApplicationTypeOK' /\ FormKept' /\ \A m \in Slots : Keeps(calls[m])
  BY <1>1, SameForm
<1>. QED
  BY <1>1, <1>2, FormStep

(* Every call under way says something true of the page that made it, of    *)
(* the requests that were stored and of the players that were verified.     *)
THEOREM Invariant == Spec => []Inv
<1>1. Init => Inv
  BY InitInv
<1>2. Inv /\ [Next]_vars => Inv'
  BY NextInv, Stutter
<1>. QED
  BY <1>1, <1>2, PTL DEF Spec

(* The form, the pages, the calls and the documents keep their types, and a *)
(* call nobody waits for is one that writes.                               *)
THEOREM PagesTypes == Spec => []TypeOK
<1>1. Inv => TypeOK
  <2>. SUFFICES ASSUME Inv, NEW n \in Slots, calls[n] # Free PROVE CallOK(calls[n])
    BY DEF Inv, StateTypes, TypeOK, CallOK
  <2>. DEFINE x == calls[n]
  <2>1. x \in Made /\ x.at # "free"
    BY CallsAreMade DEF Inv
  <2>2. Fits(x)
    BY <2>1 DEF Inv, AllFit
  <2>3. /\ x.at \in {"sent", "insert", "update", "done"} /\ x.kind \in Kinds
        /\ x.kind \in Reads \cup Writes
    BY <2>1 DEF Made, Kinds, Reads, Writes
  <2>4. ~x.waited => x.kind \in Writes /\ x.at # "done"
    BY <2>2 DEF Fits, StageFits, Writes
  <2>5. x.of \in Subjects(x.kind)
    <3>1. CASE x.kind \in {"skin", "create"}
      BY <2>2, <3>1 DEF Fits, SkinFits, CreateFits, Subjects, Inv, StateTypes, ApplicationTypeOK, Names
    <3>2. CASE x.kind \in {"qr", "recaptcha"}
      BY <2>2, <3>2 DEF Fits, CodeFits, Subjects
    <3>3. CASE x.kind = "verify"
      BY <2>2, <3>3 DEF Fits, VerifyFits, Subjects
    <3>4. CASE x.kind = "get"
      BY <2>2, <3>4 DEF Fits, GetFits, Subjects
    <3>5. CASE x.kind = "decide"
      BY <2>2, <3>5 DEF Fits, DecideFits, Subjects
    <3>. QED
      BY <2>3, <3>1, <3>2, <3>3, <3>4, <3>5 DEF Kinds
  <2>. QED
    BY <2>3, <2>4, <2>5 DEF CallOK
<1>. QED
  BY <1>1, Invariant, PTL

(* "Process in place to verify the player's Minecraft username"            *)
(* (README.md:76): whatever is typed, clicked or answered meanwhile, the    *)
(* form submits only names of players whose skin has been the code.         *)
THEOREM VerifiedSubmitted == Spec => []OnlyVerifiedSubmitted
<1>1. Inv => OnlyVerifiedSubmitted
  BY DEF Inv, AllFit, Fits, CreateFits, OnlyVerifiedSubmitted, UnderWay
<1>. QED
  BY <1>1, Invariant, PTL

(* What the form tells an applicant is true of a request that was stored.   *)
THEOREM AnswersTrue == Spec => []AnswersAreTrue
<1>1. Inv => AnswersAreTrue
  BY DEF Inv, FormKept
<1>. QED
  BY <1>1, Invariant, PTL

(* Nobody has two open requests (README.md:77), except where applications   *)
(* of one name were served at once, or a decision, of an op who had passed  *)
(* the check or on a dashboard row that was out of date, reopened one that  *)
(* was closed.                                                             *)
THEOREM OneOpenAtATime == Spec => []OneOpenRequest
<1>1. Inv => OneOpenRequest
  <2>. SUFFICES ASSUME Inv, NEW user \in Usernames, user \notin exempt
                PROVE  ~(Cardinality(Open(user)) > 1)
    BY DEF OneOpenRequest, Open
  <2>1. \A i, j \in Open(user) : i = j
    BY DEF Inv, OneOpen
  <2>2. CASE Open(user) = {}
    BY <2>2, FS_EmptySet
  <2>3. CASE Open(user) # {}
    <3>1. PICK i \in Open(user) : TRUE
      BY <2>3
    <3>2. Open(user) = {i}
      BY <2>1, <3>1
    <3>. QED
      BY <3>2, FS_Singleton
  <2>. QED
    BY <2>2, <2>3
<1>. QED
  BY <1>1, Invariant, PTL

(* Once the verification of its op has ended, the action page shows its     *)
(* form only to an op who was an assignee of the request                   *)
(* (handler.external.go:171).                                              *)
THEOREM FormIsForAssignees == Spec => []FormForAssignees
<1>1. Inv => FormForAssignees
  <2>. SUFFICES ASSUME Inv, page.path = "/action", ActionShows = "form", UnderWay({"verify"}) = {}
                PROVE  <<page.id, page.adm>> \in assigned
    BY DEF FormForAssignees
  <2>1. ~view.invalid
    BY DEF ActionShows
  <2>2. \A n \in Slots : ~Asks(calls[n])
    BY DEF UnderWay, Asks
  <2>. QED
    BY <2>1, <2>2 DEF Inv, ViewKept
<1>. QED
  BY <1>1, Invariant, PTL

(* An op who is told that the decision is completed has stored it.          *)
THEOREM CompletedStored == Spec => []CompletedWasStored
<1>1. Inv => CompletedWasStored
  BY DEF Inv, AllFit, Fits, DecideFits, CompletedWasStored, Answered
<1>. QED
  BY <1>1, Invariant, PTL

(* A status that an applicant or an op sees is one the request has had.     *)
THEOREM ShownStored == Spec => []ShownWasStored
<1>1. Inv => ShownWasStored
  <2>. SUFFICES ASSUME Inv,
                       NEW shown, shown = IF page.path = "/status" THEN StatusShows ELSE view.request,
                       shown \in Statuses
                PROVE  Shown(page.id, shown)
    BY DEF ShownWasStored, Shown
  <2>1. shown = view.request
    <3>1. StatusShows \in {"invalid", "nothing", view.request}
      BY DEF StatusShows
    <3>. QED
      BY <3>1 DEF Statuses
  <2>. QED
    BY <2>1 DEF Inv, ViewKept
<1>. QED
  BY <1>1, Invariant, PTL
=============================================================================
