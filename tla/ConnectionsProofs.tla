-------------------------- MODULE ConnectionsProofs --------------------------
(***************************************************************************)
(* Proofs about Connections, for any number of tasks and failures.         *)
(***************************************************************************)
EXTENDS Connections, TaskQueueProofs

-----------------------------------------------------------------------------
(* The connections around it use the queue only through its operations.    *)

(* Every step of the two clients is a step of the queue or leaves it alone. *)
LEMMA UsesQueue == [Next]_vars => [QNext]_qvars
<1>. SUFFICES ASSUME [Next]_vars PROVE [QNext]_qvars
  OBVIOUS
<1>1. ASSUME NEW c \in Clients, Open(c) \/ Lose(c) \/ LossReceived(c) PROVE [QNext]_qvars
  BY <1>1 DEF Open, Dial, DialFails, Setup, SetupFails, NotifyClose, Lose, LossReceived, Fatal,
              QNext
<1>2. CASE Publish \/ Push \/ RunLoop \/ Settle \/ TimeToLive \/ Crash
  BY <1>2 DEF Publish, Push, RunLoop, Settle, TimeToLive, Crash, Fatal, QNext
<1>3. CASE UNCHANGED vars
  BY <1>3 DEF vars
<1>. QED
  BY <1>1, <1>2, <1>3 DEF Next

(* The queue between the two connections behaves as TaskQueue says.         *)
THEOREM QueueBetween == Spec => QSpec
<1>1. Init => QInit
  BY DEF Init
<1>. QED
  BY <1>1, UsesQueue, PTL DEF Spec, QSpec

(* So whenever either connection is lost, and at whatever step of opening   *)
(* it again, no accepted task is lost, doubled or overtaken.                *)
THEOREM TasksSurvive == Spec => [](InPublishOrder /\ OneHome) /\ ImplementsLog
  BY QueueBetween, PublishOrder, Homes, Refinement, PTL

-----------------------------------------------------------------------------
(* Where a client can be on its way into its loop.                         *)

SetupFirst == <<"dial", "setup", "notify">>
NotifyFirst == <<"dial", "notify", "setup">>
SetupNotify == <<"setup", "notify">>
NotifySetup == <<"notify", "setup">>
OnlySetup == <<"setup">>
OnlyNotify == <<"notify">>
OnlyMain == <<"main">>
InLoop == <<>>

ToDial == {SetupFirst, NotifyFirst}
Dialled == {SetupNotify, NotifySetup}
Plans == ToDial \cup Dialled \cup {OnlyMain, OnlySetup, OnlyNotify, InLoop}

(* What is left of a list of three, two or one steps after the first.       *)
LEMMA ThreeSteps ==
    ASSUME NEW a \in Steps, NEW b \in Steps, NEW c \in Steps
    PROVE  /\ <<a, b, c>> \in Seq(Steps) /\ Len(<<a, b, c>>) = 3 /\ <<a, b, c>> # <<>>
           /\ Head(<<a, b, c>>) = a /\ Tail(<<a, b, c>>) = <<b, c>>
           /\ Range(<<a, b, c>>) = {a, b, c}
  BY DEF Range

LEMMA TwoSteps ==
    ASSUME NEW a \in Steps, NEW b \in Steps
    PROVE  /\ <<a, b>> \in Seq(Steps) /\ Len(<<a, b>>) = 2 /\ <<a, b>> # <<>>
           /\ Head(<<a, b>>) = a /\ Tail(<<a, b>>) = <<b>>
           /\ Range(<<a, b>>) = {a, b}
  BY DEF Range

LEMMA OneStep ==
    ASSUME NEW a \in Steps
    PROVE  /\ <<a>> \in Seq(Steps) /\ Len(<<a>>) = 1 /\ <<a>> # <<>>
           /\ Head(<<a>>) = a /\ Tail(<<a>>) = <<>>
           /\ Range(<<a>>) = {a}
  BY DEF Range

LEMMA NoSteps ==
    /\ <<>> \in Seq(Steps) /\ Len(<<>>) = 0 /\ Range(<<>>) = {}
  BY DEF Range

(* What each plan begins with, leaves and contains.                         *)
LEMMA PlanTable ==
    /\ Head(SetupFirst) = "dial" /\ Tail(SetupFirst) = SetupNotify
    /\ Head(NotifyFirst) = "dial" /\ Tail(NotifyFirst) = NotifySetup
    /\ Head(SetupNotify) = "setup" /\ Tail(SetupNotify) = OnlyNotify
    /\ Head(NotifySetup) = "notify" /\ Tail(NotifySetup) = OnlySetup
    /\ Head(OnlySetup) = "setup" /\ Tail(OnlySetup) = InLoop
    /\ Head(OnlyNotify) = "notify" /\ Tail(OnlyNotify) = InLoop
    /\ Head(OnlyMain) = "main" /\ Tail(OnlyMain) = InLoop
    /\ Len(SetupFirst) = 3 /\ Len(NotifyFirst) = 3 /\ Len(SetupNotify) = 2 /\ Len(NotifySetup) = 2
    /\ Len(OnlySetup) = 1 /\ Len(OnlyNotify) = 1 /\ Len(OnlyMain) = 1 /\ Len(InLoop) = 0
    /\ Range(SetupFirst) = {"dial", "setup", "notify"} /\ Range(SetupNotify) = {"setup", "notify"}
    /\ Range(NotifyFirst) = {"dial", "setup", "notify"} /\ Range(NotifySetup) = {"setup", "notify"}
    /\ Range(OnlySetup) = {"setup"} /\ Range(OnlyNotify) = {"notify"} /\ Range(OnlyMain) = {"main"}
    /\ Range(InLoop) = {}
    /\ \A p \in Plans : p \in Seq(Steps)
<1>. "dial" \in Steps /\ "setup" \in Steps /\ "notify" \in Steps /\ "main" \in Steps
  BY DEF Steps
<1>1. /\ Head(SetupFirst) = "dial" /\ Tail(SetupFirst) = SetupNotify /\ Len(SetupFirst) = 3
      /\ Range(SetupFirst) = {"dial", "setup", "notify"} /\ SetupFirst \in Seq(Steps)
  BY ThreeSteps DEF SetupFirst, SetupNotify
<1>2. /\ Head(NotifyFirst) = "dial" /\ Tail(NotifyFirst) = NotifySetup /\ Len(NotifyFirst) = 3
      /\ Range(NotifyFirst) = {"dial", "setup", "notify"} /\ NotifyFirst \in Seq(Steps)
  BY ThreeSteps DEF NotifyFirst, NotifySetup
<1>3. /\ Head(SetupNotify) = "setup" /\ Tail(SetupNotify) = OnlyNotify /\ Len(SetupNotify) = 2
      /\ Range(SetupNotify) = {"setup", "notify"} /\ SetupNotify \in Seq(Steps)
  BY TwoSteps DEF SetupNotify, OnlyNotify
<1>4. /\ Head(NotifySetup) = "notify" /\ Tail(NotifySetup) = OnlySetup /\ Len(NotifySetup) = 2
      /\ Range(NotifySetup) = {"setup", "notify"} /\ NotifySetup \in Seq(Steps)
  BY TwoSteps DEF NotifySetup, OnlySetup
<1>5. /\ Head(OnlySetup) = "setup" /\ Tail(OnlySetup) = InLoop /\ Len(OnlySetup) = 1
      /\ Range(OnlySetup) = {"setup"} /\ OnlySetup \in Seq(Steps)
  BY OneStep DEF OnlySetup, InLoop
<1>6. /\ Head(OnlyNotify) = "notify" /\ Tail(OnlyNotify) = InLoop /\ Len(OnlyNotify) = 1
      /\ Range(OnlyNotify) = {"notify"} /\ OnlyNotify \in Seq(Steps)
  BY OneStep DEF OnlyNotify, InLoop
<1>7. /\ Head(OnlyMain) = "main" /\ Tail(OnlyMain) = InLoop /\ Len(OnlyMain) = 1
      /\ Range(OnlyMain) = {"main"} /\ OnlyMain \in Seq(Steps)
  BY OneStep DEF OnlyMain, InLoop
<1>8. Len(InLoop) = 0 /\ Range(InLoop) = {} /\ InLoop \in Seq(Steps)
  BY NoSteps DEF InLoop
<1>. QED
  BY <1>1, <1>2, <1>3, <1>4, <1>5, <1>6, <1>7, <1>8 DEF Plans, ToDial, Dialled

(* No two plans are the same.                                               *)
LEMMA PlansDiffer ==
    /\ SetupNotify # NotifySetup /\ SetupFirst # NotifyFirst
    /\ OnlySetup # OnlyNotify /\ OnlySetup # OnlyMain /\ OnlyNotify # OnlyMain
    /\ \A p \in ToDial : p \notin Dialled \cup {OnlySetup, OnlyNotify, OnlyMain, InLoop}
    /\ \A p \in Dialled : p \notin {OnlySetup, OnlyNotify, OnlyMain, InLoop}
    /\ OnlySetup # InLoop /\ OnlyNotify # InLoop /\ OnlyMain # InLoop
<1>1. /\ SetupNotify # NotifySetup
      /\ OnlySetup # OnlyNotify /\ OnlySetup # OnlyMain /\ OnlyNotify # OnlyMain
  BY PlanTable
<1>2. SetupFirst # NotifyFirst
  BY PlanTable, <1>1
<1>3. /\ \A p \in ToDial : Len(p) = 3
      /\ \A p \in Dialled : Len(p) = 2
  BY PlanTable DEF ToDial, Dialled
<1>4. \A p \in {OnlySetup, OnlyNotify, OnlyMain} : Len(p) = 1
  BY PlanTable
<1>. QED
  BY <1>1, <1>2, <1>3, <1>4, PlanTable

(* The steps that are left are never more than three, and taking one leaves *)
(* the rest of a plan: what Advanced relies on.                             *)
LEMMA PlanFacts ==
    ASSUME NEW p \in Plans
    PROVE  /\ p \in Seq(Steps) /\ Len(p) <= 3
           /\ p # InLoop => (Len(p) = 1 <=> Tail(p) = InLoop)
           /\ p # InLoop => (Head(p) = "dial" <=> p \in ToDial)
           /\ p # InLoop => (Head(p) = "main" <=> p = OnlyMain)
           /\ p # InLoop => (Head(p) = "setup" <=> p \in {SetupNotify, OnlySetup})
           /\ p # InLoop => (Head(p) = "notify" <=> p \in {NotifySetup, OnlyNotify})
           /\ "setup" \in Range(p) <=> p \in ToDial \cup Dialled \cup {OnlySetup}
           /\ "notify" \in Range(p) <=> p \in ToDial \cup Dialled \cup {OnlyNotify}
           /\ "main" \in Range(p) <=> p = OnlyMain
<1>. DEFINE Facts(q) == 
       /\ q \in Seq(Steps) /\ Len(q) <= 3
       /\ q # InLoop => (Len(q) = 1 <=> Tail(q) = InLoop)
       /\ q # InLoop => (Head(q) = "dial" <=> q \in ToDial)
       /\ q # InLoop => (Head(q) = "main" <=> q = OnlyMain)
       /\ q # InLoop => (Head(q) = "setup" <=> q \in {SetupNotify, OnlySetup})
       /\ q # InLoop => (Head(q) = "notify" <=> q \in {NotifySetup, OnlyNotify})
       /\ "setup" \in Range(q) <=> q \in ToDial \cup Dialled \cup {OnlySetup}
       /\ "notify" \in Range(q) <=> q \in ToDial \cup Dialled \cup {OnlyNotify}
       /\ "main" \in Range(q) <=> q = OnlyMain
<1>. SUFFICES Facts(p)
  OBVIOUS
<1>1. Facts(SetupFirst) /\ Facts(NotifyFirst)
  BY PlanTable, PlansDiffer DEF Plans, ToDial, Dialled
<1>2. Facts(SetupNotify) /\ Facts(NotifySetup)
  BY PlanTable, PlansDiffer DEF Plans, ToDial, Dialled
<1>3. Facts(OnlySetup) /\ Facts(OnlyNotify)
  BY PlanTable, PlansDiffer DEF Plans, ToDial, Dialled
<1>4. Facts(OnlyMain) /\ Facts(InLoop)
  BY PlanTable, PlansDiffer DEF Plans, ToDial, Dialled
<1>. HIDE DEF Facts
<1>. QED
  BY <1>1, <1>2, <1>3, <1>4 DEF Plans, ToDial, Dialled

-----------------------------------------------------------------------------
(* The inductive invariant.  What is true of a client in its loop depends   *)
(* on every state it can be in on the way there, so it says for each plan   *)
(* what the connection is, what its channel has been told, and whether the  *)
(* loss fell into the gap.                                                 *)

\* main has not come to the client yet.
NotStarted(c) == conn[c] = "none" /\ told[c] = "no" /\ c \notin missed

\* No connection yet, or the one it has lost.
BeforeDial(c) == conn[c] \in {"none", "lost"} /\ told[c] = "no" /\ c \notin missed

\* A new connection that nobody watches; a loss now ends the process.
Unwatched(c) == conn[c] \in {"up", "lost"} /\ told[c] = "no" /\ c \notin missed

\* Set up, not registered: a loss now is one in the gap.
BeforeNotify(c) == told[c] = "no" /\ \/ conn[c] = "up" /\ c \notin missed
                                     \/ conn[c] = "lost" /\ c \in missed

\* Registered, not set up: a loss now is one in the gap, too.
BeforeSetup(c) == \/ conn[c] = "up" /\ told[c] = "yes" /\ c \notin missed
                  \/ conn[c] = "lost" /\ told[c] = "sending" /\ c \in missed
                  \/ conn[c] = "lost" /\ told[c] = "closed" /\ c \notin missed

\* In WatchForReconnect or runLoop.
Watching(c) == \/ conn[c] = "up" /\ told[c] = "yes" /\ c \notin missed
               \/ conn[c] = "lost" /\ told[c] = "sending" /\ c \notin missed
               \/ conn[c] = "lost" /\ told[c] = "closed" /\ c \in missed

Stage(c) == \/ todo[c] = OnlyMain /\ NotStarted(c)
            \/ todo[c] \in ToDial /\ BeforeDial(c)
            \/ todo[c] \in Dialled /\ Unwatched(c)
            \/ todo[c] = OnlyNotify /\ BeforeNotify(c)
            \/ todo[c] = OnlySetup /\ BeforeSetup(c)
            \/ todo[c] = InLoop /\ Watching(c)

\* The worker's connection is the one its deliveries come from.
LinkIsConnection == Consuming => (link = "up" <=> conn["worker"] = "up")

ClientTypes == /\ conn \in [Clients -> {"none", "up", "lost"}]
               /\ told \in [Clients -> {"no", "yes", "sending", "closed"}]
               /\ todo \in [Clients -> Plans]
               /\ missed \subseteq Clients
               /\ faults \in 0 .. MaxFaults

CInv == /\ ClientTypes
        /\ \A c \in Clients : Stage(c)
        /\ LinkIsConnection

(* The plans the code starts a client with.                                 *)
LEMMA PlansOfCode ==
    /\ \A c \in Clients : FirstSteps[c] \in ToDial /\ NextSteps[c] \in ToDial
    /\ Started \in [Clients -> Plans]
    /\ Started["producer"] \in ToDial /\ Started["worker"] = OnlyMain
<1>1. /\ FirstSteps = [producer |-> SetupFirst, worker |-> NotifyFirst]
      /\ NextSteps = [producer |-> NotifyFirst, worker |-> SetupFirst]
      /\ Started = [producer |-> SetupFirst, worker |-> OnlyMain]
  BY DEF FirstSteps, NextSteps, Started, SetupFirst, NotifyFirst, OnlyMain
<1>. QED
  BY <1>1 DEF Clients, ToDial, Plans

(* A step of a client leaves the rest of its plan; when it was the last one *)
(* of the producer's, main goes on to the worker.                           *)
LEMMA AdvancedPlans ==
    ASSUME ClientTypes, NEW c \in Clients, todo[c] # InLoop
    PROVE  /\ Advanced(c) \in [Clients -> Plans]
           /\ Advanced(c)[c] = Tail(todo[c])
           /\ \A d \in Clients \ {c} : \/ Advanced(c)[d] = todo[d]
                                       \/ todo[d] = OnlyMain /\ Advanced(c)[d] \in ToDial
<1>1. \A p \in Plans : p # InLoop => Tail(p) \in Plans
  BY PlanTable DEF Plans, ToDial, Dialled
<1>2. \A d \in Clients : At(d, "main") <=> todo[d] = OnlyMain
  BY PlanFacts, PlansDiffer DEF ClientTypes, At, InLoop
<1>3. \A d \in Clients : FirstSteps[d] \in ToDial /\ FirstSteps[d] \in Plans
  BY PlansOfCode DEF Plans
<1>. QED
  BY <1>1, <1>2, <1>3 DEF Advanced, ClientTypes

(* The worker consumes while main, setup and so the first step are behind   *)
(* it: it is in its loop or about to register.                             *)
LEMMA WhenConsuming == ClientTypes => (Consuming <=> todo["worker"] \in {OnlyNotify, InLoop})
<1>. SUFFICES ASSUME ClientTypes PROVE Consuming <=> todo["worker"] \in {OnlyNotify, InLoop}
  OBVIOUS
<1>1. todo["worker"] \in Plans
  BY DEF ClientTypes, Clients
<1>. QED
  BY <1>1, PlanFacts, PlansDiffer DEF Consuming, Left, Plans

(* The program starts with the invariant, and starts again with it.         *)
LEMMA StartedStages ==
    ASSUME todo = Started, conn = [c \in Clients |-> "none"], told = [c \in Clients |-> "no"],
           missed = {}, faults \in 0 .. MaxFaults
    PROVE  CInv
<1>1. ClientTypes
  BY PlansOfCode DEF ClientTypes
<1>2. \A c \in Clients : Stage(c)
  BY PlansOfCode DEF Stage, NotStarted, BeforeDial, Clients
<1>3. ~Consuming
  BY <1>1, WhenConsuming, PlansOfCode, PlansDiffer
<1>. QED
  BY <1>1, <1>2, <1>3 DEF CInv, LinkIsConnection

LEMMA CInvInit == Init => CInv
  BY StartedStages, LimitsAssumption DEF Init

LEMMA FatalStep ==
    ASSUME CInv, Fatal, faults' \in 0 .. MaxFaults
    PROVE  CInv'
<1>1. ClientTypes'
  BY PlansOfCode DEF ClientTypes, Fatal
<1>2. (\A c \in Clients : Stage(c))'
  BY PlansOfCode DEF Fatal, Stage, NotStarted, BeforeDial, Clients
<1>3. todo'["worker"] = OnlyMain
  BY PlansOfCode DEF Fatal
<1>4. ~Consuming'
  <2>1. todo'["worker"] \in Plans
    BY <1>3 DEF Plans
  <2>. QED
    BY <1>3, <2>1, PlanFacts DEF Consuming, Left
<1>. QED
  BY <1>1, <1>2, <1>4 DEF CInv, LinkIsConnection

(* A client's step leaves the other one where it is, or on its first plan.  *)
LEMMA OtherClient ==
    ASSUME CInv, NEW c \in Clients, todo[c] # InLoop, todo' = Advanced(c),
           NEW d \in Clients \ {c}, UNCHANGED <<conn[d], told[d]>>, missed' = missed
    PROVE  Stage(d)'
<1>1. \/ todo'[d] = todo[d]
      \/ todo[d] = OnlyMain /\ todo'[d] \in ToDial
  BY AdvancedPlans DEF CInv
<1>2. Stage(d)
  BY DEF CInv
<1>3. CASE todo'[d] = todo[d]
  BY <1>2, <1>3 DEF Stage, NotStarted, BeforeDial, Unwatched, BeforeNotify, BeforeSetup, Watching
<1>4. CASE todo[d] = OnlyMain /\ todo'[d] \in ToDial
  <2>1. NotStarted(d)
    BY <1>2, <1>4, PlansDiffer DEF Stage, ToDial, Dialled
  <2>. QED
    BY <1>4, <2>1 DEF Stage, NotStarted, BeforeDial
<1>. QED
  BY <1>1, <1>3, <1>4

(* A connection is opened in the order of the plan, so a client comes into  *)
(* its loop with its connection watched, closed in the gap, or not at all.  *)
LEMMA OpenStep ==
    ASSUME CInv, QTypeOK, NEW c \in Clients, Dial(c) \/ Setup(c) \/ NotifyClose(c)
    PROVE  CInv'
<1>. DEFINE p == todo[c]
<1>1. ClientTypes /\ Stage(c) /\ p \in Plans /\ p # InLoop
  BY DEF CInv, ClientTypes, Dial, Setup, NotifyClose, At, InLoop
<1>2. /\ todo' = Advanced(c) /\ missed' = missed /\ faults' = faults
      /\ \A d \in Clients \ {c} : UNCHANGED <<conn[d], told[d]>>
  BY <1>1 DEF Dial, Setup, NotifyClose, ClientTypes
<1>3. todo' \in [Clients -> Plans] /\ todo'[c] = Tail(p)
  BY <1>1, <1>2, AdvancedPlans
<1>4. ClientTypes'
  BY <1>1, <1>2, <1>3 DEF ClientTypes, Dial, Setup, NotifyClose
<1>5. Stage(c)'
  <2>1. CASE Dial(c)
    <3>1. p \in ToDial /\ todo'[c] \in Dialled
      BY <1>1, <1>3, <2>1, PlanFacts, PlanTable DEF Dial, At, ToDial, Dialled
    <3>2. BeforeDial(c)
      BY <1>1, <3>1, PlansDiffer DEF Stage
    <3>. QED
      BY <1>1, <1>2, <2>1, <3>1, <3>2 DEF Dial, Stage, BeforeDial, Unwatched, ClientTypes
  <2>2. CASE Setup(c)
    <3>1. \/ p = SetupNotify /\ todo'[c] = OnlyNotify
          \/ p = OnlySetup /\ todo'[c] = InLoop
      BY <1>1, <1>3, <2>2, PlanFacts, PlanTable DEF Setup, At
    <3>2. CASE p = SetupNotify /\ todo'[c] = OnlyNotify
      <4>1. Unwatched(c)
        BY <1>1, <3>2, PlansDiffer DEF Stage, ToDial, Dialled
      <4>. QED
        BY <1>2, <2>2, <3>2, <4>1 DEF Setup, Stage, Unwatched, BeforeNotify
    <3>3. CASE p = OnlySetup /\ todo'[c] = InLoop
      <4>1. BeforeSetup(c)
        BY <1>1, <3>3, PlansDiffer DEF Stage, ToDial, Dialled
      <4>. QED
        BY <1>2, <2>2, <3>3, <4>1 DEF Setup, Stage, BeforeSetup, Watching
    <3>. QED
      BY <3>1, <3>2, <3>3
  <2>3. CASE NotifyClose(c)
    <3>1. \/ p = NotifySetup /\ todo'[c] = OnlySetup
          \/ p = OnlyNotify /\ todo'[c] = InLoop
      BY <1>1, <1>3, <2>3, PlanFacts, PlanTable DEF NotifyClose, At
    <3>2. told'[c] = IF conn[c] = "up" THEN "yes" ELSE "closed"
      BY <1>1, <2>3 DEF NotifyClose, ClientTypes
    <3>3. CASE p = NotifySetup /\ todo'[c] = OnlySetup
      <4>1. Unwatched(c)
        BY <1>1, <3>3, PlansDiffer DEF Stage, ToDial, Dialled
      <4>. QED
        BY <1>2, <2>3, <3>2, <3>3, <4>1 DEF NotifyClose, Stage, Unwatched, BeforeSetup
    <3>4. CASE p = OnlyNotify /\ todo'[c] = InLoop
      <4>1. BeforeNotify(c)
        BY <1>1, <3>4, PlansDiffer DEF Stage, ToDial, Dialled
      <4>. QED
        BY <1>2, <2>3, <3>2, <3>4, <4>1 DEF NotifyClose, Stage, BeforeNotify, Watching
    <3>. QED
      BY <3>1, <3>3, <3>4
  <2>. QED
    BY <2>1, <2>2, <2>3
<1>6. \A d \in Clients : Stage(d)'
  BY <1>1, <1>2, <1>5, OtherClient
<1>7. LinkIsConnection'
  <2>1. (Consuming <=> todo["worker"] \in {OnlyNotify, InLoop})
        /\ (Consuming' <=> todo'["worker"] \in {OnlyNotify, InLoop})
    <3>1. "worker" \in Clients
      BY DEF Clients
    <3>. QED
      BY <1>1, <1>3, <3>1, PlanFacts, PlansDiffer DEF Consuming, Left, Plans, ClientTypes
  <2>2. CASE c = "worker" /\ Setup(c)
    <3>1. conn'["worker"] = "up" /\ link' = "up"
      BY <2>2 DEF Setup, Reopen, qvars, QTypeOK
    <3>. QED
      BY <3>1 DEF LinkIsConnection
  <2>3. CASE c = "worker" /\ Dial(c)
    <3>1. todo'["worker"] \in Dialled
      BY <1>1, <1>3, <2>3, PlanFacts, PlanTable DEF Dial, At, ToDial, Dialled
    <3>. QED
      BY <2>1, <3>1, PlansDiffer DEF LinkIsConnection
  <2>4. CASE c = "worker" /\ NotifyClose(c)
    <3>1. p = OnlyNotify \/ todo'["worker"] = OnlySetup
      BY <1>1, <1>3, <2>4, PlanFacts, PlanTable DEF NotifyClose, At
    <3>2. link' = link /\ conn' = conn
      BY <2>4 DEF NotifyClose, qvars
    <3>. QED
      BY <2>1, <2>4, <3>1, <3>2, PlansDiffer DEF CInv, LinkIsConnection
  <2>5. CASE c # "worker"
    <3>1. link' = link /\ conn'["worker"] = conn["worker"]
      BY <1>2, <2>5 DEF Dial, Setup, NotifyClose, qvars, Clients
    <3>2. todo'["worker"] = todo["worker"] \/ todo'["worker"] \in ToDial
      BY <1>1, <1>2, <2>5, AdvancedPlans DEF Clients
    <3>. QED
      BY <2>1, <3>1, <3>2, PlansDiffer DEF CInv, LinkIsConnection
  <2>. QED
    BY <2>2, <2>3, <2>4, <2>5
<1>. QED
  BY <1>4, <1>6, <1>7 DEF CInv

(* A connection is lost with the client told of it, or in the gap.          *)
LEMMA LoseStep ==
    ASSUME CInv, QTypeOK, NEW c \in Clients, Lose(c)
    PROVE  CInv'
<1>1. ClientTypes /\ Stage(c) /\ todo[c] \in Plans
  BY DEF CInv, ClientTypes
<1>2. ClientTypes'
  BY <1>1, LimitsAssumption DEF ClientTypes, Lose, Fault
<1>3. InGap(c) <=> todo[c] \in {OnlySetup, OnlyNotify}
  BY <1>1, PlanFacts, PlansDiffer DEF InGap, Left, Plans
<1>4. /\ conn'[c] = "lost" /\ conn[c] = "up" /\ todo' = todo
      /\ told'[c] = IF told[c] = "yes" THEN "sending" ELSE told[c]
      /\ c \in missed' <=> c \in missed \/ todo[c] \in {OnlySetup, OnlyNotify}
      /\ \A d \in Clients \ {c} : conn'[d] = conn[d] /\ told'[d] = told[d]
                                  /\ (d \in missed' <=> d \in missed)
  BY <1>1, <1>3 DEF Lose, ClientTypes
<1>5. Stage(c)'
  BY <1>1, <1>4, PlansDiffer DEF Stage, NotStarted, BeforeDial, Unwatched, BeforeNotify,
                                 BeforeSetup, Watching
<1>6. ASSUME NEW d \in Clients \ {c} PROVE Stage(d)'
  BY <1>4 DEF CInv, Stage, NotStarted, BeforeDial, Unwatched, BeforeNotify, BeforeSetup, Watching
<1>7. LinkIsConnection'
  <2>1. Consuming' = Consuming
    BY <1>4 DEF Consuming, Left
  <2>2. CASE c = "worker"
    BY <1>4, <2>2 DEF Lose, LoseConnection, qvars, QTypeOK, LinkIsConnection
  <2>3. CASE c # "worker"
    BY <1>4, <2>1, <2>3 DEF CInv, Lose, qvars, LinkIsConnection, Clients
  <2>. QED
    BY <2>2, <2>3
<1>. QED
  BY <1>2, <1>5, <1>6, <1>7 DEF CInv

(* A client that hears of the loss begins with nothing left of the lost     *)
(* connection.                                                              *)
LEMMA ReceivedStep ==
    ASSUME CInv, NEW c \in Clients, LossReceived(c)
    PROVE  CInv'
<1>1. ClientTypes /\ Stage(c) /\ todo[c] = InLoop /\ told[c] = "sending"
  BY DEF CInv, LossReceived, InLoop
<1>2. Watching(c) /\ conn[c] = "lost" /\ c \notin missed
  BY <1>1, PlansDiffer DEF Stage, Watching, ToDial, Dialled
<1>3. /\ todo'[c] \in ToDial /\ told'[c] = "no" /\ conn' = conn /\ missed' = missed /\ link' = link
      /\ \A d \in Clients \ {c} : todo'[d] = todo[d] /\ told'[d] = told[d]
  BY <1>1, PlansOfCode DEF LossReceived, ClientTypes, qvars
<1>4. ClientTypes'
  BY <1>1, PlansOfCode DEF LossReceived, ClientTypes, Plans
<1>5. Stage(c)'
  BY <1>2, <1>3 DEF Stage, BeforeDial
<1>6. ASSUME NEW d \in Clients \ {c} PROVE Stage(d)'
  BY <1>3 DEF CInv, Stage, NotStarted, BeforeDial, Unwatched, BeforeNotify, BeforeSetup, Watching
<1>7. LinkIsConnection'
  <2>1. todo'["worker"] = todo["worker"] \/ todo'["worker"] \in ToDial
    BY <1>3 DEF Clients
  <2>2. todo'["worker"] \in ToDial => ~Consuming'
    BY PlanFacts DEF Consuming, Left, Plans
  <2>3. todo'["worker"] = todo["worker"] => Consuming' = Consuming
    BY DEF Consuming, Left
  <2>. QED
    BY <1>3, <2>1, <2>2, <2>3 DEF CInv, LinkIsConnection
<1>. QED
  BY <1>4, <1>5, <1>6, <1>7 DEF CInv

(* The queue's own steps touch no connection.                               *)
LEMMA QueueStep ==
    ASSUME CInv, Publish \/ Push \/ RunLoop \/ Settle \/ TimeToLive \/ UNCHANGED vars
    PROVE  CInv'
<1>1. UNCHANGED cvars /\ link' = link
  BY DEF Publish, Push, RunLoop, Settle, TimeToLive, vars, qvars, Enqueue, Deliver, Take, Ack,
         Nack, Expire
<1>. QED
  BY <1>1 DEF cvars, CInv, ClientTypes, LinkIsConnection, Consuming, Left, Stage, NotStarted,
              BeforeDial, Unwatched, BeforeNotify, BeforeSetup, Watching

(* Every step of the two clients keeps the invariant.                       *)
LEMMA CInvStep == CInv /\ QTypeOK /\ [Next]_vars => CInv'
<1>. SUFFICES ASSUME CInv, QTypeOK, [Next]_vars PROVE CInv'
  OBVIOUS
<1>1. ASSUME NEW c \in Clients, DialFails(c) \/ SetupFails(c) \/ Crash PROVE CInv'
  <2>1. Fatal /\ faults' \in 0 .. MaxFaults
    BY <1>1, LimitsAssumption DEF DialFails, SetupFails, Crash, Fault, CInv, ClientTypes
  <2>. QED
    BY <2>1, FatalStep
<1>2. ASSUME NEW c \in Clients, Open(c) \/ Lose(c) \/ LossReceived(c) PROVE CInv'
  BY <1>1, <1>2, OpenStep, LoseStep, ReceivedStep DEF Open
<1>3. CASE Crash
  BY <1>1, <1>3 DEF Clients
<1>. QED
  BY <1>2, <1>3, QueueStep DEF Next

(* The connections stay within the invariant.                               *)
THEOREM ConnectionInvariant == Spec => [](QInv /\ CInv)
<1>1. Init => QInit
  BY DEF Init
<1>2. QInv => QTypeOK
  BY DEF QInv
<1>3. QInv /\ CInv /\ [Next]_vars => (QInv /\ CInv)'
  BY <1>2, UsesQueue, QInvStep, CInvStep
<1>. QED
  BY <1>1, <1>3, QInvInit, CInvInit, PTL DEF Spec

(* Types; and tasks are delivered over the worker's own connection only.    *)
THEOREM ConnectionTypes == Spec => []CTypeOK
<1>1. CInv => \A c \in Clients : todo[c] \in Seq(Steps) /\ Len(todo[c]) <= 3
  <2>1. \A p \in Plans : p \in Seq(Steps) /\ Len(p) <= 3
    BY PlanFacts
  <2>. QED
    BY <2>1 DEF CInv, ClientTypes
<1>2. QInv /\ CInv => CTypeOK
  BY <1>1 DEF QInv, CInv, ClientTypes, LinkIsConnection, CTypeOK
<1>. QED
  BY <1>2, ConnectionInvariant, PTL

(* Whoever is in its loop without a connection is going to hear of the      *)
(* loss, unless it fell between setup and NotifyClose.                      *)
THEOREM LossIsHeard == Spec => []LossWillBeHeard
<1>1. CInv => LossWillBeHeard
  BY PlansDiffer DEF CInv, LossWillBeHeard, Stage, Watching, ToDial, Dialled, InLoop
<1>. QED
  BY <1>1, ConnectionInvariant, PTL

-----------------------------------------------------------------------------
(* The gap, the other way round: it is the only reason for which a loss is   *)
(* never repaired, and it always is one.                                    *)

\* A client that lost its connection in the gap is about to register too late,
\* spins on a closed channel, or hangs in setup.
MissedIsStuck ==
    \A c \in missed : /\ conn[c] = "lost"
                      /\ \/ todo[c] = InLoop /\ told[c] = "closed"
                         \/ todo[c] = OnlyNotify /\ told[c] = "no"
                         \/ todo[c] = OnlySetup /\ told[c] = "sending"

\* It gets a new connection only with a new process.
MissedForGood ==
    [][\A c \in missed : (conn'[c] = "lost" /\ c \in missed') \/ Fatal]_vars

(* A client whose connection is lost between setup and NotifyClose is stuck, *)
(* at any time and for whatever number of faults.                           *)
THEOREM GapIsStuck == Spec => []MissedIsStuck
<1>1. CInv => MissedIsStuck
  BY DEF CInv, ClientTypes, Stage, NotStarted, BeforeDial, Unwatched, BeforeNotify,
         BeforeSetup, Watching, MissedIsStuck
<1>. QED
  BY <1>1, ConnectionInvariant, PTL

(* Nothing but the end of the process gets such a client out of there: the  *)
(* re-establishing that broker.go promises never comes.                     *)
THEOREM GapIsForGood == Spec => MissedForGood
<1>1. ASSUME CInv, QTypeOK, [Next]_vars, NEW c \in missed
      PROVE  (conn'[c] = "lost" /\ c \in missed') \/ Fatal
  <2>1. /\ c \in Clients /\ conn[c] = "lost" /\ ClientTypes
        /\ \/ todo[c] = InLoop /\ told[c] = "closed"
           \/ todo[c] \in {OnlyNotify, OnlySetup}
    BY <1>1 DEF CInv, ClientTypes, Stage, NotStarted, BeforeDial, Unwatched, BeforeNotify,
                BeforeSetup, Watching
  <2>2. ~Dial(c)
    BY <2>1, PlanFacts, PlansDiffer DEF Dial, At, Plans, InLoop
  <2>3. ASSUME NEW d \in Clients, Dial(d) \/ Setup(d) \/ NotifyClose(d) \/ Lose(d) \/ LossReceived(d)
        PROVE  conn'[c] = "lost" /\ c \in missed'
    BY <2>1, <2>2, <2>3 DEF Dial, Setup, NotifyClose, Lose, LossReceived, ClientTypes
  <2>4. ASSUME NEW d \in Clients, DialFails(d) \/ SetupFails(d) \/ Crash
        PROVE  Fatal
    BY <2>4 DEF DialFails, SetupFails, Crash
  <2>5. CASE Publish \/ Push \/ RunLoop \/ Settle \/ TimeToLive \/ UNCHANGED vars
    BY <2>1, <2>5 DEF Publish, Push, RunLoop, Settle, TimeToLive, vars, cvars
  <2>. QED
    BY <1>1, <2>3, <2>4, <2>5 DEF Next, Open, Clients
<1>2. CInv /\ QInv /\ [Next]_vars
      => [\A c \in missed : (conn'[c] = "lost" /\ c \in missed') \/ Fatal]_vars
  BY <1>1 DEF QInv
<1>. QED
  BY <1>2, ConnectionInvariant, PTL DEF Spec, MissedForGood
=============================================================================
