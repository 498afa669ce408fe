--------------------------- MODULE GatekeeperProofs ---------------------------
(***************************************************************************)
(* Proofs about Gatekeeper, for any number of players, ops, handlers,      *)
(* changes and failures.                                                   *)
(***************************************************************************)
EXTENDS Gatekeeper, TaskQueueProofs, FiniteSetTheorems

-----------------------------------------------------------------------------
(* The server uses the queue only through its operations, so all that is   *)
(* proved about TaskQueue holds of it here.                                *)

(* Every step of the server is a step of the queue or leaves it alone.     *)
LEMMA UsesQueue == [Next]_vars => [QNext]_qvars
<1>. SUFFICES ASSUME [Next]_vars PROVE [QNext]_qvars
  OBVIOUS
<1>1. ASSUME NEW h \in Handlers, Receive(h) \/ Serve(h) PROVE [QNext]_qvars
  BY <1>1 DEF Receive, Serve, BeginCreate, BeginPatch, BeginAdminPatch, Insert, Update,
              Publish, QNext
<1>2. CASE LoadDashboard \/ Push \/ Reconnect
  BY <1>2 DEF LoadDashboard, Push, Reconnect, QNext
<1>3. CASE Work
  BY <1>3 DEF Work, WorkerTake, QueryAll, StoreAll, UpdateStats, IssueRCON, Answered,
              EmailDecision, EmailToOps, Assign, WorkerAck, WorkerNack, NotifyClose, QNext
<1>4. CASE Environment
  BY <1>4 DEF Environment, StoreError, PublishLost, PublishError, CacheError, RefusedRCON,
              Answered, RCONError, Hang, EmailDecisionError, AssignError, Drop, TTL, Crash,
              QNext
<1>5. CASE UNCHANGED vars
  BY <1>5 DEF vars, qvars
<1>. QED
  BY <1>1, <1>2, <1>3, <1>4, <1>5 DEF Next

(* The queue inside the server behaves as TaskQueue says.                  *)
THEOREM QueueInside == Spec => QSpec
<1>1. Init => QInit
  BY DEF Init
<1>. QED
  BY <1>1, UsesQueue, PTL DEF Spec, QSpec

(* So no accepted task is lost, doubled or overtaken on its way through the *)
(* server, except by its time limit.                                       *)
THEOREM QueueKept == Spec => [](InPublishOrder /\ OneHome) /\ ImplementsLog
  BY QueueInside, PublishOrder, Homes, Refinement, PTL

-----------------------------------------------------------------------------
(* Who writes what.                                                        *)

HandlerFailure == \E h \in Handlers : StoreError(h) \/ PublishLost(h) \/ PublishError(h)

WorkerFailure == \/ CacheError \/ RefusedRCON \/ RCONError \/ Hang
                 \/ EmailDecisionError \/ AssignError

QueueEvent == Push \/ Reconnect \/ Drop \/ TTL

(* The kinds of steps there are.                                           *)
LEMMA Kinds ==
    ASSUME [Next]_vars
    PROVE  \/ \E h \in Handlers : Receive(h) \/ Serve(h)
           \/ HandlerFailure
           \/ LoadDashboard
           \/ Work
           \/ WorkerFailure
           \/ QueueEvent
           \/ Crash
           \/ UNCHANGED vars
  BY DEF Next, Environment, HandlerFailure, WorkerFailure, QueueEvent

(* Documents are written by handlers and, their assignees, by the worker;   *)
(* decisions are committed where handlers write.                            *)
LEMMA RequestsWritten ==
    ASSUME [Next]_vars
    PROVE  \/ UNCHANGED <<requests, commits>>
           \/ \E h \in Handlers, id \in ReqIds : Insert(h, id)
           \/ \E h \in Handlers : Update(h)
           \/ Assign
<1>1. ASSUME NEW h \in Handlers, Receive(h) \/ Serve(h)
      PROVE  \/ UNCHANGED <<requests, commits>>
             \/ \E id \in ReqIds : Insert(h, id)
             \/ Update(h)
  BY <1>1 DEF Receive, Serve, BeginCreate, BeginPatch, BeginAdminPatch, Publish
<1>2. HandlerFailure \/ LoadDashboard \/ WorkerFailure \/ QueueEvent \/ Crash \/ UNCHANGED vars
      => UNCHANGED <<requests, commits>>
  BY DEF HandlerFailure, LoadDashboard, WorkerFailure, QueueEvent, Crash, vars, svars,
         StoreError, PublishLost, PublishError, CacheError, RefusedRCON, Answered,
         RCONError, Hang, EmailDecisionError, AssignError, Push, Reconnect, Drop, TTL
<1>3. Work => UNCHANGED <<requests, commits>> \/ Assign
  BY DEF Work, WorkerTake, QueryAll, StoreAll, UpdateStats, IssueRCON, Answered,
         EmailDecision, EmailToOps, WorkerAck, WorkerNack, NotifyClose, svars
<1>. QED
  BY <1>1, <1>2, <1>3, Kinds

(* A task gets its body when it is published.                               *)
LEMMA BodiesWritten ==
    ASSUME [Next]_vars
    PROVE  \/ UNCHANGED <<bodies, published>>
           \/ \E h \in Handlers : Publish(h)
<1>1. ASSUME NEW h \in Handlers, Receive(h) \/ Serve(h)
      PROVE  UNCHANGED <<bodies, published>> \/ Publish(h)
  BY <1>1 DEF Receive, Serve, BeginCreate, BeginPatch, BeginAdminPatch, Insert, Update, qvars
<1>2. HandlerFailure \/ LoadDashboard \/ WorkerFailure \/ UNCHANGED vars
      => UNCHANGED <<bodies, published>>
  BY DEF HandlerFailure, LoadDashboard, WorkerFailure, vars, qvars, StoreError, PublishLost,
         PublishError, CacheError, RefusedRCON, Answered, RCONError, Hang,
         EmailDecisionError, AssignError
<1>3. QueueEvent \/ Crash => UNCHANGED <<bodies, published>>
  BY DEF QueueEvent, Crash, Push, Reconnect, Drop, TTL, Deliver, Reopen, LoseConnection,
         Expire, Restart
<1>4. Work => UNCHANGED <<bodies, published>>
  BY DEF Work, WorkerTake, QueryAll, StoreAll, UpdateStats, IssueRCON, Answered,
         EmailDecision, EmailToOps, Assign, WorkerAck, WorkerNack, NotifyClose, qvars, Take,
         Ack, Nack
<1>. QED
  BY <1>1, <1>2, <1>3, <1>4, Kinds

\* Where the worker is, and what it has done.
wdone == <<step, taken, received, acked, whitelist, bans, mailed, notified, executed, refused>>

(* Only the worker changes them; a crash sends it back to the start.        *)
LEMMA WorkerWritten ==
    ASSUME [Next]_vars
    PROVE  UNCHANGED wdone \/ Work \/ WorkerFailure \/ Crash
<1>1. ASSUME NEW h \in Handlers, Receive(h) \/ Serve(h)
      PROVE  UNCHANGED wdone
  BY <1>1 DEF wdone, wvars, Receive, Serve, BeginCreate, BeginPatch, BeginAdminPatch,
              Insert, Update, Publish, Enqueue, qvars
<1>2. HandlerFailure \/ LoadDashboard => UNCHANGED wdone
  BY DEF wdone, wvars, HandlerFailure, LoadDashboard, qvars, StoreError, PublishLost,
         PublishError
<1>3. QueueEvent \/ UNCHANGED vars => UNCHANGED wdone
  BY DEF wdone, wvars, QueueEvent, Push, Reconnect, Drop, TTL, Deliver, Reopen,
         LoseConnection, Expire, vars, qvars
<1>. QED
  BY <1>1, <1>2, <1>3, Kinds

-----------------------------------------------------------------------------
(* Types.                                                                  *)

(* What a handler is about to do is in order: a decision is for a request   *)
(* that exists, is one, and if an op's, of an op who has its link; what     *)
(* will be published was committed.                                         *)
HandlersReady ==
    \A h \in Handlers :
       /\ handler[h].pc = "update" =>
             /\ handler[h].id \in Created
             /\ handler[h].status # "Pending"
             /\ handler[h].admin \in Ops => <<handler[h].id, handler[h].admin>> \in mailed
       /\ handler[h].pc = "publish" => handler[h].body \in Committed

(* The facts the types of the next state rest on.                           *)
TypeInv == TypeOK /\ QInv /\ HeldAreTasks /\ HandlersReady

(* The types of what a handler has in hand.                                *)
LEMMA HandlerFacts ==
    ASSUME TypeInv, NEW h \in Handlers
    PROVE  /\ handler[h].pc = "insert" => handler[h].username \in Usernames
           /\ handler[h].pc = "update" => /\ handler[h].id \in ReqIds
                                          /\ handler[h].id \in Created
                                          /\ handler[h].status \in Statuses
                                          /\ handler[h].admin \in Ops \cup {Admin}
           /\ handler[h].pc = "publish" => handler[h].body \in Body
<1>1. handler[h] \in HandlerStates
  BY DEF TypeInv, TypeOK
<1>2. handler[h].pc = "update" => handler[h].id \in Created
  BY DEF TypeInv, HandlersReady
<1>. QED
  BY <1>1, <1>2 DEF HandlerStates, Idle

(* The types of a stored document.                                         *)
LEMMA DocumentFacts ==
    ASSUME TypeInv, NEW id \in Created
    PROVE  /\ id \in ReqIds
           /\ requests[id] \in Documents
           /\ requests[id].username \in Usernames
           /\ requests[id].status \in Statuses
           /\ requests[id].assignees \subseteq Ops
  BY DEF TypeInv, TypeOK, RequestsTypeOK, Documents

(* The task in hand has a message of the right type.                       *)
LEMMA TaskFacts ==
    ASSUME TypeInv, taken # NoTask
    PROVE  /\ taken \in Tasks
           /\ Task \in Body
           /\ Task.id \in ReqIds /\ Task.username \in Usernames /\ Task.status \in Statuses
<1>1. taken \in Tasks
  BY DEF TypeInv, HeldAreTasks
<1>2. bodies \in Seq(Body) /\ Tasks = 1..Len(bodies)
  BY DEF TypeInv, TypeOK, Tasks
<1>3. Task \in Body
  BY <1>1, <1>2 DEF Task
<1>. QED
  BY <1>1, <1>3 DEF Body

(* Documents keep their shape, and none disappears.                         *)
LEMMA RequestsStep ==
    TypeInv /\ [Next]_vars => /\ RequestsTypeOK'
                              /\ Created \subseteq Created'
                              /\ commits' \in Seq(Body)
                              /\ Committed \subseteq Committed'
<1>. SUFFICES ASSUME TypeInv, [Next]_vars
              PROVE  /\ RequestsTypeOK' /\ Created \subseteq Created'
                     /\ commits' \in Seq(Body) /\ Committed \subseteq Committed'
  OBVIOUS
<1>1. /\ commits \in Seq(Body) /\ RequestsTypeOK
      /\ Created \subseteq ReqIds /\ requests \in [Created -> Documents]
  BY DEF TypeInv, TypeOK, RequestsTypeOK
<1>2. ASSUME NEW body \in Body, commits' = Append(commits, body)
      PROVE  commits' \in Seq(Body) /\ Committed \subseteq Committed'
  BY <1>1, <1>2 DEF Committed, Range
<1>3. CASE UNCHANGED <<requests, commits>>
  BY <1>1, <1>3 DEF RequestsTypeOK, Created, Committed
<1>4. ASSUME NEW h \in Handlers, NEW id \in ReqIds, Insert(h, id)
      PROVE  /\ RequestsTypeOK' /\ Created \subseteq Created'
             /\ commits' \in Seq(Body) /\ Committed \subseteq Committed'
  <2>1. handler[h].username \in Usernames
    BY <1>4, HandlerFacts DEF Insert
  <2>2. BodyOf(id, handler[h].username, "Pending", Nobody) \in Body
    BY <2>1 DEF BodyOf, Body, Statuses
  <2>3. CreateRequest(id, handler[h].username)
        /\ commits' = Append(commits, BodyOf(id, handler[h].username, "Pending", Nobody))
    BY <1>4 DEF Insert, BodyOf
  <2>4. [username |-> handler[h].username, status |-> "Pending",
         assignees |-> {}, admin |-> Nobody] \in Documents
    BY <2>1 DEF Documents, Statuses
  <2>5. RequestsTypeOK' /\ Created \subseteq Created'
    BY <1>1, <2>3, <2>4 DEF CreateRequest, RequestsTypeOK, Created
  <2>. QED
    BY <1>2, <2>2, <2>3, <2>5
<1>5. ASSUME NEW h \in Handlers, Update(h)
      PROVE  /\ RequestsTypeOK' /\ Created \subseteq Created'
             /\ commits' \in Seq(Body) /\ Committed \subseteq Committed'
  <2>. DEFINE job == handler[h]
              body == BodyOf(job.id, requests[job.id].username, job.status, job.admin)
  <2>1. /\ job.id \in Created /\ job.id \in ReqIds /\ job.status \in Statuses
        /\ job.admin \in Ops \cup {Admin}
    BY <1>5, HandlerFacts DEF Update
  <2>2. body \in Body
    BY <2>1, DocumentFacts DEF BodyOf, Body
  <2>3. SetDecision(job.id, job.status, job.admin) /\ commits' = Append(commits, body)
    BY <1>5 DEF Update
  <2>4. RequestsTypeOK' /\ Created \subseteq Created'
    BY <1>1, <2>1, <2>3 DEF SetDecision, RequestsTypeOK, Created, Documents
  <2>. QED
    BY <1>2, <2>2, <2>3, <2>4
<1>6. CASE Assign
  <2>1. commits' = commits /\ received \subseteq Ops
    BY <1>6 DEF Assign, svars, TypeInv, TypeOK
  <2>2. RequestsTypeOK' /\ Created \subseteq Created'
    BY <1>1, <1>6, <2>1 DEF Assign, SetAssignees, RequestsTypeOK, Created, Documents
  <2>. QED
    BY <1>1, <2>1, <2>2 DEF Committed
<1>. QED
  BY <1>3, <1>4, <1>5, <1>6, RequestsWritten

(* A handler's next piece of work is one of those it can have.              *)
LEMMA HandlerStep == TypeInv /\ [Next]_vars => handler' \in [Handlers -> HandlerStates]
<1>. SUFFICES ASSUME TypeInv, [Next]_vars PROVE handler' \in [Handlers -> HandlerStates]
  OBVIOUS
<1>1. handler \in [Handlers -> HandlerStates]
  BY DEF TypeInv, TypeOK
<1>2. ASSUME NEW h \in Handlers, NEW next \in HandlerStates, Proceed(h, next)
      PROVE  handler' \in [Handlers -> HandlerStates]
  BY <1>1, <1>2 DEF Proceed
<1>3. Idle \in HandlerStates
  BY DEF HandlerStates
<1>4. ASSUME NEW h \in Handlers, Receive(h)
      PROVE  handler' \in [Handlers -> HandlerStates]
  <2>1. ASSUME NEW user \in Usernames, BeginCreate(h, user)
        PROVE  handler' \in [Handlers -> HandlerStates]
    BY <2>1, <1>2 DEF BeginCreate, HandlerStates
  <2>2. ASSUME NEW op \in Ops, NEW id \in ReqIds, NEW status \in Decisions,
               BeginPatch(h, op, id, status)
        PROVE  handler' \in [Handlers -> HandlerStates]
    BY <2>2, <1>2 DEF BeginPatch, HandlerStates, Decisions, Statuses
  <2>3. ASSUME NEW id \in ReqIds, NEW status \in Statuses, BeginAdminPatch(h, id, status)
        PROVE  handler' \in [Handlers -> HandlerStates]
    BY <2>3, <1>2 DEF BeginAdminPatch, HandlerStates
  <2>. QED
    BY <1>4, <2>1, <2>2, <2>3 DEF Receive
<1>5. ASSUME NEW h \in Handlers, Serve(h)
      PROVE  handler' \in [Handlers -> HandlerStates]
  <2>1. ASSUME NEW body \in Body PROVE [pc |-> "publish", body |-> body] \in HandlerStates
    BY DEF HandlerStates
  <2>2. ASSUME NEW id \in ReqIds, Insert(h, id)
        PROVE  handler' \in [Handlers -> HandlerStates]
    <3>. DEFINE body == BodyOf(id, handler[h].username, "Pending", Nobody)
    <3>1. body \in Body
      BY <2>2, HandlerFacts DEF Insert, BodyOf, Body, Statuses
    <3>2. Proceed(h, [pc |-> "publish", body |-> body])
      BY <2>2 DEF Insert
    <3>. QED
      BY <1>2, <2>1, <3>1, <3>2
  <2>3. CASE Update(h)
    <3>. DEFINE job == handler[h]
                body == BodyOf(job.id, requests[job.id].username, job.status, job.admin)
    <3>1. body \in Body
      BY <2>3, HandlerFacts, DocumentFacts DEF Update, BodyOf, Body
    <3>2. Proceed(h, [pc |-> "publish", body |-> body])
      BY <2>3 DEF Update
    <3>. QED
      BY <1>2, <2>1, <3>1, <3>2
  <2>4. CASE Publish(h)
    BY <2>4, <1>2, <1>3 DEF Publish
  <2>. QED
    BY <1>5, <2>2, <2>3, <2>4 DEF Serve
<1>6. CASE HandlerFailure
  BY <1>2, <1>3, <1>6 DEF HandlerFailure, StoreError, PublishLost, PublishError
<1>7. CASE Crash
  BY <1>3, <1>7 DEF Crash
<1>8. CASE LoadDashboard \/ WorkerFailure \/ QueueEvent \/ UNCHANGED vars
  BY <1>1, <1>8 DEF LoadDashboard, WorkerFailure, QueueEvent, vars, svars, CacheError,
                    RefusedRCON, Answered, RCONError, Hang, EmailDecisionError, AssignError,
                    Push, Reconnect, Drop, TTL
<1>9. CASE Work
  BY <1>1, <1>9 DEF Work, WorkerTake, QueryAll, StoreAll, UpdateStats, IssueRCON, Answered,
                    EmailDecision, EmailToOps, Assign, WorkerAck, WorkerNack, NotifyClose,
                    svars
<1>. QED
  BY <1>4, <1>5, <1>6, <1>7, <1>8, <1>9, Kinds

(* Each task has its message.                                               *)
LEMMA BodiesStep ==
    TypeInv /\ [Next]_vars => /\ bodies' \in Seq(Body)
                              /\ Len(bodies)' = published'
                              /\ Tasks \subseteq Tasks'
                              /\ \A t \in Tasks : bodies'[t] = bodies[t]
<1>. SUFFICES ASSUME TypeInv, [Next]_vars
              PROVE  /\ bodies' \in Seq(Body) /\ Len(bodies') = published'
                     /\ Tasks \subseteq Tasks' /\ \A t \in Tasks : bodies'[t] = bodies[t]
  OBVIOUS
<1>1. bodies \in Seq(Body) /\ Len(bodies) = published /\ published \in Nat
  BY DEF TypeInv, TypeOK, QTypeOK
<1>2. ASSUME NEW h \in Handlers, Publish(h)
      PROVE  /\ bodies' \in Seq(Body) /\ Len(bodies') = published'
             /\ Tasks \subseteq Tasks' /\ \A t \in Tasks : bodies'[t] = bodies[t]
  <2>1. handler[h].body \in Body
    BY <1>2, HandlerFacts DEF Publish
  <2>2. bodies' = Append(bodies, handler[h].body) /\ published' = published + 1
    BY <1>2 DEF Publish, Enqueue
  <2>. QED
    BY <1>1, <2>1, <2>2 DEF Tasks
<1>. QED
  BY <1>1, <1>2, BodiesWritten DEF Tasks

(* The cached list, the list on its way to the cache, and the rows of a     *)
(* dashboard show requests that exist.                                      *)
LEMMA ViewStep ==
    TypeInv /\ [Next]_vars => View(snapshot)' /\ View(cache)' /\ View(seen)'
<1>. SUFFICES ASSUME TypeInv, [Next]_vars PROVE View(snapshot)' /\ View(cache)' /\ View(seen)'
  OBVIOUS
<1>. DEFINE V(v) == DOMAIN v \subseteq Created' /\ v \in [DOMAIN v -> Statuses]
<1>1. /\ V(snapshot) /\ V(cache) /\ V(seen) /\ Created \subseteq Created'
  BY RequestsStep DEF TypeInv, TypeOK, View
<1>2. V(AllStatuses) /\ V(NoView)
  <2>1. \A id \in Created : requests[id].status \in Statuses
    BY DocumentFacts
  <2>. QED
    BY <1>1, <2>1 DEF AllStatuses, NoView, Created
<1>3. snapshot' \in {snapshot, AllStatuses, NoView} /\ cache' \in {cache, snapshot, AllStatuses}
  <2>1. ASSUME NEW h \in Handlers, Receive(h) \/ Serve(h) PROVE UNCHANGED <<snapshot, cache>>
    BY <2>1 DEF Receive, Serve, BeginCreate, BeginPatch, BeginAdminPatch, Insert, Update,
                Publish, wvars
  <2>2. HandlerFailure \/ LoadDashboard \/ QueueEvent \/ UNCHANGED vars => UNCHANGED <<snapshot, cache>>
    BY DEF HandlerFailure, LoadDashboard, QueueEvent, vars, wvars, StoreError, PublishLost,
           PublishError, Push, Reconnect, Drop, TTL
  <2>3. Work \/ WorkerFailure \/ Crash
        => /\ snapshot' \in {snapshot, AllStatuses, NoView}
           /\ cache' \in {cache, snapshot, AllStatuses}
    BY DEF Work, WorkerTake, QueryAll, StoreAll, UpdateStats, IssueRCON, Answered,
           EmailDecision, EmailToOps, Assign, WorkerAck, WorkerNack, NotifyClose,
           WorkerFailure, CacheError, RefusedRCON, RCONError, Hang, EmailDecisionError,
           AssignError, Crash
  <2>. QED
    BY <2>1, <2>2, <2>3, Kinds
<1>4. \/ seen' \in {seen, cache, AllStatuses}
      \/ \E h \in Handlers : handler[h].pc = "publish" /\ RowChanged(handler[h].body)
  <2>1. ASSUME NEW h \in Handlers, Receive(h) \/ Serve(h)
        PROVE  seen' = seen \/ (handler[h].pc = "publish" /\ RowChanged(handler[h].body))
    BY <2>1 DEF Receive, Serve, BeginCreate, BeginPatch, BeginAdminPatch, Insert, Update,
                Publish
  <2>2. HandlerFailure =>
           \/ seen' = seen
           \/ \E h \in Handlers : handler[h].pc = "publish" /\ RowChanged(handler[h].body)
    BY DEF HandlerFailure, StoreError, PublishLost, PublishError
  <2>3. QueueEvent \/ WorkerFailure \/ Work \/ Crash \/ UNCHANGED vars => seen' = seen
    BY DEF QueueEvent, Push, Reconnect, Drop, TTL, Crash, vars, svars, Work, WorkerTake,
           QueryAll, StoreAll, UpdateStats, IssueRCON, Answered, EmailDecision, EmailToOps,
           Assign, WorkerAck, WorkerNack, NotifyClose, WorkerFailure, CacheError,
           RefusedRCON, RCONError, Hang, EmailDecisionError, AssignError
  <2>. QED
    BY <2>1, <2>2, <2>3, Kinds DEF LoadDashboard
<1>5. V(seen')
  <2>1. ASSUME NEW h \in Handlers, handler[h].pc = "publish", RowChanged(handler[h].body)
        PROVE  V(seen')
    <3>1. handler[h].body.status \in Statuses
      BY <2>1, HandlerFacts DEF Body
    <3>. QED
      BY <1>1, <2>1, <3>1 DEF RowChanged
  <2>. QED
    BY <1>1, <1>2, <1>4, <2>1
<1>. QED
  BY <1>1, <1>2, <1>3, <1>5 DEF View

(* Each status has a first step.                                           *)
LEMMA FirstStepType == \A status \in Statuses : FirstStep(status) \in {"dispatch", "mail", "rcon"}
  BY DEF FirstStep, Statuses

\* The worker's variables have their types.
WorkerTypes == /\ step \in Steps /\ (step = "idle" <=> taken = NoTask)
               /\ received \subseteq Ops
               /\ whitelist \subseteq Usernames
               /\ bans \subseteq Usernames
               /\ mailed \subseteq ReqIds \X Ops
               /\ notified \subseteq Tasks
               /\ executed \subseteq Tasks
               /\ refused \subseteq executed

(* A command names a player.                                               *)
LEMMA CommandType ==
    ASSUME NEW body \in Body, whitelist \subseteq Usernames, bans \subseteq Usernames, Command(body)
    PROVE  (whitelist \subseteq Usernames)' /\ (bans \subseteq Usernames)'
  BY DEF Command, Body

(* The worker goes from step to step, and back to "idle" exactly when it    *)
(* lets go of its delivery.                                                 *)
LEMMA WorkerTypesStep == TypeInv /\ [Next]_vars => WorkerTypes'
<1>. SUFFICES ASSUME TypeInv, [Next]_vars PROVE WorkerTypes'
  OBVIOUS
<1>1. WorkerTypes
  BY DEF TypeInv, TypeOK, WorkerTypes
<1>2. Tasks \subseteq Tasks'
  BY BodiesStep
<1>3. taken # NoTask => /\ taken \in Tasks /\ Task \in Body
                        /\ Task.id \in ReqIds /\ Task.status \in Statuses
                        /\ FirstStep(Task.status) \in {"dispatch", "mail", "rcon"}
  BY TaskFacts, FirstStepType
<1>4. CASE UNCHANGED wdone
  BY <1>1, <1>2, <1>4 DEF WorkerTypes, wdone
<1>5. CASE WorkerTake
  <2>1. /\ taken = NoTask /\ taken' # NoTask /\ step' = "query"
        /\ UNCHANGED <<received, whitelist, bans, mailed, notified, executed, refused>>
    <3>1. inbox \in Seq(Nat) /\ inbox # <<>> /\ Head(inbox) # NoTask
      BY <1>5, LineParts DEF WorkerTake, Take, TypeInv, QInv, RealDeliveries
    <3>. QED
      BY <1>5, <3>1 DEF WorkerTake, Take
  <2>. QED
    BY <1>1, <1>2, <2>1 DEF WorkerTypes, Steps
<1>6. CASE QueryAll \/ StoreAll \/ CacheError \/ UpdateStats
  <2>1. /\ step \in {"query", "store", "stats"} /\ taken' = taken
        /\ step' \in {"store", "stats", FirstStep(Task.status)}
        /\ UNCHANGED <<received, whitelist, bans, mailed, notified, executed, refused>>
    BY <1>6 DEF QueryAll, StoreAll, CacheError, UpdateStats, qvars
  <2>2. step' \in {"store", "stats", "dispatch", "mail", "rcon"}
    BY <1>1, <1>3, <2>1 DEF WorkerTypes
  <2>. QED
    BY <1>1, <1>2, <2>1, <2>2 DEF WorkerTypes, Steps
<1>7. CASE IssueRCON \/ RefusedRCON \/ RCONError
  <2>1. /\ step = "rcon" /\ taken' = taken /\ step' \in {"mail", "ack", "nack"}
        /\ Command(Task) \/ UNCHANGED <<whitelist, bans>>
        /\ \/ executed' = executed \cup {taken} /\ refused' \in {refused, refused \cup {taken}}
           \/ UNCHANGED <<executed, refused>>
        /\ UNCHANGED <<received, mailed, notified>>
    BY <1>7 DEF IssueRCON, RefusedRCON, Answered, RCONError, qvars
  <2>2. (whitelist \subseteq Usernames)' /\ (bans \subseteq Usernames)'
    BY <1>1, <1>3, <2>1, CommandType DEF WorkerTypes
  <2>. QED
    BY <1>1, <1>2, <1>3, <2>1, <2>2 DEF WorkerTypes, Steps
<1>8. CASE Hang
  <2>1. /\ UNCHANGED <<step, taken, received, mailed, notified, executed, refused>>
        /\ (step = "rcon" /\ Command(Task)) \/ UNCHANGED <<whitelist, bans>>
    BY <1>8 DEF Hang, qvars
  <2>2. (whitelist \subseteq Usernames)' /\ (bans \subseteq Usernames)'
    BY <1>1, <1>3, <2>1, CommandType DEF WorkerTypes
  <2>. QED
    BY <1>1, <1>2, <2>1, <2>2 DEF WorkerTypes
<1>9. CASE EmailDecision \/ EmailDecisionError
  <2>1. /\ step = "mail" /\ taken' = taken /\ step' = "ack"
        /\ notified' \in {notified, notified \cup {taken}}
        /\ UNCHANGED <<received, whitelist, bans, mailed, executed, refused>>
    BY <1>9 DEF EmailDecision, EmailDecisionError, qvars
  <2>. QED
    BY <1>1, <1>2, <1>3, <2>1 DEF WorkerTypes, Steps
<1>10. CASE EmailToOps
  <2>1. PICK reached \in SUBSET Ops :
              /\ received' = reached
              /\ mailed' = mailed \cup {<<Task.id, op>> : op \in reached}
    BY <1>10 DEF EmailToOps, TargetOps
  <2>2. /\ step = "dispatch" /\ taken' = taken /\ step' = "assign"
        /\ UNCHANGED <<whitelist, bans, notified, executed, refused>>
    BY <1>10 DEF EmailToOps, qvars
  <2>. QED
    BY <1>1, <1>2, <1>3, <2>1, <2>2 DEF WorkerTypes, Steps
<1>11. CASE Assign \/ AssignError
  <2>1. /\ step = "assign" /\ taken' = taken /\ step' \in {"ack", "nack"} /\ received' = {}
        /\ UNCHANGED <<whitelist, bans, mailed, notified, executed, refused>>
    BY <1>11 DEF Assign, AssignError, Verdict, qvars
  <2>. QED
    BY <1>1, <1>2, <2>1 DEF WorkerTypes, Steps
<1>12. CASE WorkerAck \/ WorkerNack \/ Crash
  <2>1. /\ taken' = NoTask /\ step' = "idle" /\ received' \in {received, {}}
        /\ UNCHANGED <<whitelist, bans, mailed, notified, executed, refused>>
    BY <1>12 DEF WorkerAck, WorkerNack, Crash, Ack, Nack, Restart
  <2>. QED
    BY <1>1, <1>2, <2>1 DEF WorkerTypes, Steps
<1>13. NotifyClose => UNCHANGED wdone
  BY DEF NotifyClose, wdone, qvars
<1>. QED
  BY <1>4, <1>5, <1>6, <1>7, <1>8, <1>9, <1>10, <1>11, <1>12, <1>13, WorkerWritten
     DEF Work, WorkerFailure

(* Whether the worker hangs, and whether it would hear of a lost connection *)
(* is yes or no.                                                            *)
LEMMA WaitsStep == TypeInv /\ [Next]_vars => (stuck \in BOOLEAN)' /\ (heard \in BOOLEAN)'
<1>. SUFFICES ASSUME TypeInv, [Next]_vars
              PROVE  (stuck' = stuck \/ stuck' \in BOOLEAN) /\ (heard' = heard \/ heard' \in BOOLEAN)
  BY DEF TypeInv, TypeOK
<1>1. ASSUME NEW h \in Handlers, Receive(h) \/ Serve(h) PROVE UNCHANGED waits
  BY <1>1 DEF Receive, Serve, BeginCreate, BeginPatch, BeginAdminPatch, Insert, Update,
              Publish, wvars
<1>2. HandlerFailure \/ LoadDashboard \/ Push \/ Drop \/ TTL \/ UNCHANGED vars => UNCHANGED waits
  BY DEF HandlerFailure, LoadDashboard, Push, Drop, TTL, StoreError, PublishLost,
         PublishError, vars, wvars
<1>3. NotifyClose \/ Reconnect => UNCHANGED stuck /\ heard' \in BOOLEAN
  BY DEF NotifyClose, Reconnect
<1>4. Hang \/ Crash => stuck' \in BOOLEAN /\ (UNCHANGED heard \/ heard' \in BOOLEAN)
  BY DEF Hang, Crash
<1>5. (Work \/ WorkerFailure) /\ ~NotifyClose /\ ~Hang => UNCHANGED waits
  BY DEF Work, WorkerTake, QueryAll, StoreAll, UpdateStats, IssueRCON, Answered,
         EmailDecision, EmailToOps, Assign, WorkerAck, WorkerNack, WorkerFailure,
         CacheError, RefusedRCON, RCONError, EmailDecisionError, AssignError
<1>. QED
  BY <1>1, <1>2, <1>3, <1>4, <1>5, Kinds DEF waits, QueueEvent

(* What is never published is a committed change, and failures are counted. *)
LEMMA FaultsStep ==
    TypeInv /\ [Next]_vars => (unpublished \subseteq Body)' /\ faults' \in 0..MaxFaults
<1>. SUFFICES ASSUME TypeInv, [Next]_vars
              PROVE  (unpublished \subseteq Body)' /\ faults' \in 0..MaxFaults
  OBVIOUS
<1>1. unpublished \subseteq Body /\ faults \in 0..MaxFaults /\ MaxFaults \in Nat
  BY GatekeeperAssumption DEF TypeInv, TypeOK
<1>2. Fault => faults' \in 0..MaxFaults
  BY <1>1 DEF Fault
<1>3. \A h \in Handlers : handler[h].pc = "publish" => handler[h].body \in Body
  BY HandlerFacts
<1>4. ASSUME NEW h \in Handlers, Receive(h) \/ Serve(h)
      PROVE  (unpublished \subseteq Body)' /\ faults' \in 0..MaxFaults
  <2>1. UNCHANGED <<unpublished, faults>>
    BY <1>4 DEF Receive, Serve, BeginCreate, BeginPatch, BeginAdminPatch, Insert, Update,
                Publish
  <2>. QED
    BY <1>1, <2>1
<1>5. CASE HandlerFailure
  <2>1. Fault
    BY <1>5 DEF HandlerFailure, StoreError, PublishLost, PublishError
  <2>2. (unpublished \subseteq Body)'
    BY <1>1, <1>3, <1>5 DEF HandlerFailure, StoreError, PublishLost, PublishError
  <2>. QED
    BY <1>2, <2>1, <2>2
<1>6. CASE Crash
  BY <1>1, <1>2, <1>3, <1>6 DEF Crash
<1>7. CASE LoadDashboard \/ QueueEvent \/ UNCHANGED vars
  BY <1>1, <1>2, <1>7 DEF LoadDashboard, QueueEvent, Push, Reconnect, Drop, TTL, vars, svars
<1>8. CASE Work \/ WorkerFailure
  <2>1. unpublished' = unpublished
    BY <1>8 DEF svars, Work, WorkerTake, QueryAll, StoreAll, UpdateStats, IssueRCON,
                Answered, EmailDecision, EmailToOps, Assign, WorkerAck, WorkerNack,
                NotifyClose, WorkerFailure, CacheError, RefusedRCON, RCONError, Hang,
                EmailDecisionError, AssignError
  <2>2. Fault \/ UNCHANGED faults
    BY <1>8 DEF Work, WorkerTake, QueryAll, StoreAll, UpdateStats, IssueRCON, Answered,
                EmailDecision, EmailToOps, Assign, WorkerAck, WorkerNack, NotifyClose,
                WorkerFailure, CacheError, RefusedRCON, RCONError, Hang, EmailDecisionError,
                AssignError
  <2>. QED
    BY <1>1, <1>2, <2>1, <2>2
<1>. QED
  BY <1>4, <1>5, <1>6, <1>7, <1>8, Kinds

(* No step of the server leaves the types.                                 *)
LEMMA TypeOKStep == TypeInv /\ [Next]_vars => TypeOK' /\ QInv' /\ HeldAreTasks'
<1>. SUFFICES ASSUME TypeInv, [Next]_vars PROVE TypeOK' /\ QInv' /\ HeldAreTasks'
  OBVIOUS
<1>1. QInv' /\ HeldAreTasks'
  BY UsesQueue, QInvStep, HeldStep DEF TypeInv
<1>2. QTypeOK'
  BY <1>1 DEF QInv
<1>3. RequestsTypeOK' /\ commits' \in Seq(Body)
  BY RequestsStep
<1>4. WorkerTypes'
  BY WorkerTypesStep
<1>5. bodies' \in Seq(Body) /\ Len(bodies)' = published'
  BY BodiesStep
<1>6. handler' \in [Handlers -> HandlerStates]
  BY HandlerStep
<1>7. View(snapshot)' /\ View(cache)' /\ View(seen)'
  BY ViewStep
<1>8. (unpublished \subseteq Body)' /\ faults' \in 0..MaxFaults
  BY FaultsStep
<1>9. (stuck \in BOOLEAN)' /\ (heard \in BOOLEAN)'
  BY WaitsStep
<1>10. TypeOK'
  BY <1>2, <1>3, <1>4, <1>5, <1>6, <1>7, <1>8, <1>9 DEF TypeOK, WorkerTypes
<1>. QED
  BY <1>1, <1>10

-----------------------------------------------------------------------------
(* The inductive invariant.  The properties need to know what the messages *)
(* on the way and the worker in the middle of a task stand for: a message  *)
(* carries a committed change, an assignee has been mailed, and at each    *)
(* step the worker has done what comes before it.                          *)

BodiesStored == \A t \in Tasks : bodies[t] \in Committed

AssigneesMailed == \A id \in Created : requests[id].assignees \subseteq MailedOps(id)

Progress ==
    /\ step = "rcon" => Task.status \in {"Approved", "Banned", "Deactivated"}
    /\ step = "mail" => Task.status = "Denied" \/ (Task.status = "Approved" /\ taken \in executed)
    /\ step \in {"dispatch", "assign"} => Task.status = "Pending"
    /\ step = "assign" => received \subseteq MailedOps(Task.id)
    /\ step = "ack" => Done(taken)

Inv == /\ TypeInv
       /\ BodiesStored
       /\ AssigneesMailed
       /\ Progress
       /\ WhitelistJustified
       /\ DecidersWereMailed
       /\ AckedWasDone
       /\ NotifiedWhenDone

(* Mails cannot be unsent, and an answered command stays answered, or       *)
(* refused.                                                                 *)
LEMMA HistoryGrows ==
    [Next]_vars => /\ mailed \subseteq mailed'
                   /\ executed \subseteq executed'
                   /\ refused \subseteq refused'
  BY WorkerWritten DEF wdone, Work, WorkerTake, QueryAll, StoreAll, UpdateStats, IssueRCON,
                       Answered, EmailDecision, EmailToOps, Assign, WorkerAck, WorkerNack,
                       NotifyClose, WorkerFailure, CacheError, RefusedRCON, RCONError, Hang,
                       EmailDecisionError, AssignError, Crash

(* An op who was mailed a link has been mailed it for good.                *)
LEMMA MailedGrows == [Next]_vars => \A id : MailedOps(id) \subseteq MailedOps(id)'
  BY HistoryGrows DEF MailedOps

(* What has been done about a task stays done.                              *)
LEMMA DoneStays ==
    ASSUME TypeInv, [Next]_vars, NEW t \in Tasks, Done(t)
    PROVE  Done(t)'
<1>1. bodies'[t] = bodies[t] /\ executed \subseteq executed'
  BY BodiesStep, HistoryGrows
<1>2. Quorum \in Nat /\ IsFiniteSet(Ops)
  BY GatekeeperAssumption
<1>. DEFINE id == bodies[t].id
            old == MailedOps(id)
            new == {op \in Ops : <<id, op>> \in mailed'}
<1>3. old \subseteq new /\ new \subseteq Ops
  BY HistoryGrows DEF MailedOps
<1>4. ASSUME bodies[t].status = "Pending" PROVE Cardinality(new) >= Quorum
  <2>1. Cardinality(old) >= Quorum
    BY <1>4 DEF Done
  <2>. HIDE DEF old, new
  <2>2. IsFiniteSet(new)
    BY <1>2, <1>3, FS_Subset
  <2>3. /\ Cardinality(old) <= Cardinality(new)
        /\ Cardinality(old) \in Nat /\ Cardinality(new) \in Nat
    BY <1>3, <2>2, FS_Subset, FS_CardinalityType
  <2>. QED
    BY <1>2, <2>1, <2>3
<1>5. MailedOps(bodies[t].id)' = new
  BY <1>1 DEF MailedOps
<1>. QED
  BY <1>1, <1>4, <1>5 DEF Done

(* A decision is only begun by an op with a link, or by an administrator,   *)
(* and only what was committed is published.                                *)
LEMMA HandlersReadyStep == Inv /\ [Next]_vars => HandlersReady'
<1>. SUFFICES ASSUME Inv, [Next]_vars, NEW h \in Handlers
              PROVE  /\ handler'[h].pc = "update" =>
                           /\ handler'[h].id \in Created'
                           /\ handler'[h].status # "Pending"
                           /\ handler'[h].admin \in Ops =>
                                 <<handler'[h].id, handler'[h].admin>> \in mailed'
                     /\ handler'[h].pc = "publish" => handler'[h].body \in Committed'
  BY DEF HandlersReady
<1>. DEFINE Ready(job) ==
              /\ job.pc = "update" => /\ job.id \in Created
                                      /\ job.status # "Pending"
                                      /\ job.admin \in Ops => <<job.id, job.admin>> \in mailed
              /\ job.pc = "publish" => job.body \in Committed'
<1>1. /\ Created \subseteq Created' /\ mailed \subseteq mailed'
      /\ Committed \subseteq Committed' /\ commits \in Seq(Body)
      /\ handler \in [Handlers -> HandlerStates]
  BY RequestsStep, HistoryGrows DEF Inv, TypeInv, TypeOK
<1>2. SUFFICES Ready(handler'[h])
  BY <1>1
<1>3. Ready(handler[h]) /\ Ready(Idle)
  BY <1>1 DEF Inv, TypeInv, HandlersReady, Idle
<1>4. ASSUME NEW g \in Handlers, NEW next, Ready(next), Proceed(g, next)
      PROVE  Ready(handler'[h])
  BY <1>1, <1>3, <1>4 DEF Proceed
<1>. HIDE DEF Ready
<1>5. ASSUME NEW g \in Handlers, NEW user \in Usernames, BeginCreate(g, user)
      PROVE  Ready(handler'[h])
  <2>1. Ready([pc |-> "insert", username |-> user])
    BY DEF Ready
  <2>. QED
    BY <1>4, <1>5, <2>1 DEF BeginCreate
<1>6. ASSUME NEW g \in Handlers, NEW op \in Ops, NEW id \in ReqIds, NEW status \in Decisions,
             BeginPatch(g, op, id, status)
      PROVE  Ready(handler'[h])
  <2>1. id \in Created /\ <<id, op>> \in mailed /\ status # "Pending"
    BY <1>6 DEF BeginPatch, TokensMatch, Inv, AssigneesMailed, MailedOps, Decisions
  <2>2. Ready([pc |-> "update", id |-> id, status |-> status, admin |-> op])
    BY <2>1 DEF Ready
  <2>. QED
    BY <1>4, <1>6, <2>2 DEF BeginPatch
<1>7. ASSUME NEW g \in Handlers, NEW id \in ReqIds, NEW status \in Statuses,
             BeginAdminPatch(g, id, status)
      PROVE  Ready(handler'[h])
  <2>1. id \in Created /\ status # "Pending" /\ Admin \notin Ops
    BY <1>7, AdminAssumption DEF BeginAdminPatch, Offered, Decisions
  <2>2. Ready([pc |-> "update", id |-> id, status |-> status, admin |-> Admin])
    BY <2>1 DEF Ready
  <2>. QED
    BY <1>4, <1>7, <2>2 DEF BeginAdminPatch
<1>8. ASSUME NEW body \in Body, commits' = Append(commits, body)
      PROVE  Ready([pc |-> "publish", body |-> body])
  <2>1. body \in Committed'
    BY <1>1, <1>8 DEF Committed, Range
  <2>. QED
    BY <2>1 DEF Ready
<1>9. ASSUME NEW g \in Handlers, NEW id \in ReqIds, Insert(g, id)
      PROVE  Ready(handler'[h])
  <2>. DEFINE body == BodyOf(id, handler[g].username, "Pending", Nobody)
  <2>1. body \in Body
    BY <1>9, HandlerFacts DEF Insert, BodyOf, Body, Statuses, Inv
  <2>2. commits' = Append(commits, body) /\ Proceed(g, [pc |-> "publish", body |-> body])
    BY <1>9 DEF Insert
  <2>. QED
    BY <1>4, <1>8, <2>1, <2>2
<1>10. ASSUME NEW g \in Handlers, Update(g)
       PROVE  Ready(handler'[h])
  <2>. DEFINE job == handler[g]
              body == BodyOf(job.id, requests[job.id].username, job.status, job.admin)
  <2>1. body \in Body
    BY <1>10, HandlerFacts, DocumentFacts DEF Update, BodyOf, Body, Inv
  <2>2. commits' = Append(commits, body) /\ Proceed(g, [pc |-> "publish", body |-> body])
    BY <1>10 DEF Update
  <2>. QED
    BY <1>4, <1>8, <2>1, <2>2
<1>11. ASSUME NEW g \in Handlers, Publish(g) \/ StoreError(g) \/ PublishLost(g) \/ PublishError(g)
       PROVE  Ready(handler'[h])
  BY <1>3, <1>4, <1>11 DEF Publish, StoreError, PublishLost, PublishError
<1>12. CASE Crash
  BY <1>3, <1>12 DEF Crash
<1>13. CASE LoadDashboard \/ WorkerFailure \/ QueueEvent \/ UNCHANGED vars \/ Work
  <2>1. handler' = handler
    BY <1>13 DEF LoadDashboard, WorkerFailure, QueueEvent, vars, svars, CacheError,
                 RefusedRCON, RCONError, Hang, EmailDecisionError, AssignError, Push,
                 Reconnect, Drop, TTL, Work, WorkerTake, QueryAll, StoreAll, UpdateStats,
                 IssueRCON, Answered, EmailDecision, EmailToOps, Assign, WorkerAck,
                 WorkerNack, NotifyClose
  <2>. QED
    BY <1>3, <2>1
<1>. QED
  BY <1>5, <1>6, <1>7, <1>9, <1>10, <1>11, <1>12, <1>13, Kinds
  DEF Receive, Serve, HandlerFailure

(* A message is published only after its change was committed.              *)
LEMMA BodiesStoredStep == Inv /\ [Next]_vars => BodiesStored'
<1>. SUFFICES ASSUME Inv, [Next]_vars PROVE BodiesStored'
  OBVIOUS
<1>1. TypeInv /\ BodiesStored /\ Committed \subseteq Committed'
  BY RequestsStep DEF Inv
<1>2. ASSUME NEW h \in Handlers, Publish(h) PROVE BodiesStored'
  <2>1. handler[h].body \in Committed
    BY <1>1, <1>2 DEF Publish, TypeInv, HandlersReady
  <2>2. /\ bodies' = Append(bodies, handler[h].body) /\ published' = published + 1
        /\ bodies \in Seq(Body) /\ Len(bodies) = published /\ published \in Nat
    BY <1>1, <1>2 DEF Publish, Enqueue, TypeInv, TypeOK, QTypeOK
  <2>. QED
    BY <1>1, <2>1, <2>2 DEF BodiesStored, Tasks
<1>3. CASE UNCHANGED <<bodies, published>>
  BY <1>1, <1>3 DEF BodiesStored, Tasks
<1>. QED
  BY <1>2, <1>3, BodiesWritten

(* Only ops whose mail was sent become assignees.                           *)
LEMMA AssigneesMailedStep == Inv /\ [Next]_vars => AssigneesMailed'
<1>. SUFFICES ASSUME Inv, [Next]_vars PROVE AssigneesMailed'
  OBVIOUS
<1>1. /\ TypeInv /\ \A id \in Created : requests[id].assignees \subseteq MailedOps(id)
      /\ requests \in [Created -> Documents]
  BY DEF Inv, AssigneesMailed, TypeInv, TypeOK, RequestsTypeOK
<1>2. \A id : MailedOps(id) \subseteq MailedOps(id)'
  BY MailedGrows
<1>3. SUFFICES ASSUME NEW id \in Created'
               PROVE  requests'[id].assignees \subseteq MailedOps(id)
  BY <1>2 DEF AssigneesMailed
<1>4. CASE UNCHANGED <<requests, commits>>
  BY <1>1, <1>4 DEF Created
<1>5. ASSUME NEW h \in Handlers, NEW new \in ReqIds, Insert(h, new)
      PROVE  requests'[id].assignees \subseteq MailedOps(id)
  BY <1>1, <1>5 DEF Insert, CreateRequest, BodyOf, Created
<1>6. ASSUME NEW h \in Handlers, Update(h)
      PROVE  requests'[id].assignees \subseteq MailedOps(id)
  <2>1. id \in Created /\ requests'[id].assignees = requests[id].assignees
    BY <1>1, <1>6 DEF Update, SetDecision, Created, Documents
  <2>. QED
    BY <1>1, <2>1
<1>7. CASE Assign
  <2>1. received \subseteq MailedOps(Task.id)
    BY <1>7 DEF Assign, Inv, Progress
  <2>2. /\ id \in Created
        /\ \/ requests'[id].assignees = requests[id].assignees
           \/ id = Task.id /\ requests'[id].assignees = received
    BY <1>1, <1>7 DEF Assign, SetAssignees, Created, Documents
  <2>. QED
    BY <1>1, <2>1, <2>2
<1>. QED
  BY <1>4, <1>5, <1>6, <1>7, RequestsWritten

(* The worker does the parts of a task in order, and comes to its Ack only  *)
(* when all of them are done.                                               *)
LEMMA ProgressStep == Inv /\ [Next]_vars => Progress'
<1>. SUFFICES ASSUME Inv, [Next]_vars PROVE Progress'
  OBVIOUS
<1>1. /\ TypeInv /\ Progress
      /\ step \in Steps /\ (step = "idle" <=> taken = NoTask)
      /\ executed \subseteq executed' /\ mailed \subseteq mailed'
  BY HistoryGrows DEF Inv, TypeInv, TypeOK
<1>2. ASSUME taken # NoTask, taken' = taken
      PROVE  /\ taken \in Tasks /\ Task' = Task
             /\ Task.id \in ReqIds /\ Task.status \in Statuses
             /\ MailedOps(Task.id) \subseteq MailedOps(Task.id)'
             /\ Done(taken) => Done(taken)'
  <2>1. taken \in Tasks /\ Task.id \in ReqIds /\ Task.status \in Statuses
    BY <1>1, <1>2, TaskFacts
  <2>2. Task' = Task
    BY <1>1, <1>2, <2>1, BodiesStep DEF Task
  <2>3. MailedOps(Task.id) \subseteq MailedOps(Task.id)'
    BY <1>1, <2>2 DEF MailedOps
  <2>4. Done(taken) => Done(taken)'
    <3>1. ASSUME NEW t \in Tasks, Done(t), taken' = t PROVE Done(taken)'
      <4>1. Done(t)'
        BY <1>1, <3>1, DoneStays
      <4>. QED
        BY <3>1, <4>1 DEF Done, MailedOps
    <3>. QED
      BY <1>2, <2>1, <3>1
  <2>. QED
    BY <2>1, <2>2, <2>3, <2>4
<1>3. CASE UNCHANGED wdone
  <2>1. CASE taken = NoTask
    BY <1>1, <1>3, <2>1 DEF Progress, wdone
  <2>2. CASE taken # NoTask
    BY <1>1, <1>2, <1>3, <2>2 DEF Progress, wdone
  <2>. QED
    BY <2>1, <2>2
<1>4. CASE WorkerTake \/ WorkerAck \/ WorkerNack \/ Crash
  BY <1>4 DEF WorkerTake, WorkerAck, WorkerNack, Crash, Progress
<1>5. CASE QueryAll \/ StoreAll \/ CacheError \/ UpdateStats
  <2>1. /\ step \in {"query", "store", "stats"} /\ taken' = taken /\ taken # NoTask
        /\ step' \in {"store", "stats", FirstStep(Task.status)}
    BY <1>1, <1>5 DEF QueryAll, StoreAll, CacheError, UpdateStats, qvars
  <2>2. CASE step' \in {"store", "stats"}
    BY <2>2 DEF Progress
  <2>3. CASE step' = FirstStep(Task.status)
    <3>1. /\ step' = "rcon" => Task.status \in {"Approved", "Banned", "Deactivated"}
          /\ step' = "mail" => Task.status = "Denied"
          /\ step' = "dispatch" => Task.status = "Pending"
          /\ step' \in {"dispatch", "mail", "rcon"}
      BY <1>2, <2>1, <2>3 DEF FirstStep, Statuses
    <3>. QED
      BY <1>2, <2>1, <3>1 DEF Progress
  <2>. QED
    BY <2>1, <2>2, <2>3
<1>6. CASE IssueRCON \/ RefusedRCON
  <2>1. /\ step = "rcon" /\ taken' = taken /\ taken # NoTask
        /\ executed' = executed \cup {taken}
        /\ step' = IF Task.status = "Approved" THEN "mail" ELSE "ack"
    BY <1>1, <1>6 DEF IssueRCON, RefusedRCON, Answered, qvars
  <2>2. Task.status \in {"Approved", "Banned", "Deactivated"}
    BY <1>1, <2>1 DEF Progress
  <2>3. CASE Task.status = "Approved"
    BY <1>2, <2>1, <2>3 DEF Progress
  <2>4. CASE Task.status # "Approved"
    <3>1. Task'.status # "Pending" /\ taken' \in executed' /\ step' = "ack"
      BY <1>2, <2>1, <2>2, <2>4
    <3>2. Done(taken)'
      BY <3>1 DEF Done, Task
    <3>. QED
      BY <3>1, <3>2 DEF Progress
  <2>. QED
    BY <2>3, <2>4
<1>7. CASE RCONError
  BY <1>7 DEF RCONError, Progress
<1>8. CASE Hang
  <2>1. /\ step \in {"stats", "rcon"} /\ step' = step /\ taken' = taken /\ taken # NoTask
    BY <1>1, <1>8 DEF Hang, qvars
  <2>. QED
    BY <1>1, <1>2, <2>1 DEF Progress
<1>9. NotifyClose => UNCHANGED wdone
  BY DEF NotifyClose, wdone, qvars
<1>10. CASE EmailDecision \/ EmailDecisionError
  <2>1. /\ step = "mail" /\ taken' = taken /\ taken # NoTask /\ step' = "ack"
    BY <1>1, <1>10 DEF EmailDecision, EmailDecisionError, qvars
  <2>2. Task.status = "Denied" \/ (Task.status = "Approved" /\ taken \in executed)
    BY <1>1, <2>1 DEF Progress
  <2>3. Done(taken)
    BY <2>2 DEF Done, Task
  <2>4. Done(taken)'
    BY <1>2, <2>1, <2>3
  <2>. QED
    BY <2>1, <2>4 DEF Progress
<1>11. CASE EmailToOps
  <2>1. /\ step = "dispatch" /\ taken' = taken /\ taken # NoTask /\ step' = "assign"
        /\ \E reached \in SUBSET Ops :
              received' = reached /\ mailed' = mailed \cup {<<Task.id, op>> : op \in reached}
    BY <1>1, <1>11 DEF EmailToOps, TargetOps, qvars
  <2>2. Task.status = "Pending" /\ Task' = Task
    BY <1>1, <1>2, <2>1 DEF Progress
  <2>3. received' \subseteq MailedOps(Task.id)'
    BY <2>1, <2>2 DEF MailedOps
  <2>. QED
    BY <2>1, <2>2, <2>3 DEF Progress
<1>12. CASE Assign \/ AssignError
  <2>1. /\ step = "assign" /\ taken' = taken /\ taken # NoTask /\ step' = Verdict
    BY <1>1, <1>12 DEF Assign, AssignError, qvars
  <2>2. Task.status = "Pending" /\ received \subseteq MailedOps(Task.id)
    BY <1>1, <2>1 DEF Progress
  <2>3. CASE step' = "nack"
    BY <2>3 DEF Progress
  <2>4. CASE step' = "ack"
    <3>1. Cardinality(received) >= Quorum
      BY <2>1, <2>4 DEF Verdict
    <3>2. MailedOps(Task.id) \subseteq Ops /\ IsFiniteSet(Ops) /\ Quorum \in Nat
      BY GatekeeperAssumption DEF MailedOps
    <3>3. IsFiniteSet(MailedOps(Task.id))
      BY <3>2, FS_Subset
    <3>4. /\ Cardinality(received) <= Cardinality(MailedOps(Task.id))
          /\ Cardinality(received) \in Nat /\ Cardinality(MailedOps(Task.id)) \in Nat
      BY <2>2, <3>3, FS_Subset, FS_CardinalityType
    <3>5. Done(taken)
      BY <2>2, <3>1, <3>2, <3>4 DEF Done, Task
    <3>6. Done(taken)'
      BY <1>2, <2>1, <3>5
    <3>. QED
      BY <2>4, <3>6 DEF Progress
  <2>. QED
    BY <2>1, <2>3, <2>4 DEF Verdict
<1>. QED
  BY <1>3, <1>4, <1>5, <1>6, <1>7, <1>8, <1>9, <1>10, <1>11, <1>12, WorkerWritten
     DEF Work, WorkerFailure

(* The game server gets a command only for a message, and the message       *)
(* carries a committed decision of that kind.                               *)
LEMMA WhitelistStep == Inv /\ [Next]_vars => WhitelistJustified'
<1>. SUFFICES ASSUME Inv, [Next]_vars PROVE WhitelistJustified'
  OBVIOUS
<1>1. /\ WhitelistJustified /\ TypeInv /\ BodiesStored /\ Committed \subseteq Committed'
      /\ step = "idle" <=> taken = NoTask
  BY RequestsStep DEF Inv, TypeInv, TypeOK
<1>2. CASE UNCHANGED <<whitelist, bans>>
  BY <1>1, <1>2 DEF WhitelistJustified
<1>3. CASE step = "rcon" /\ Command(Task)
  <2>1. Task \in Committed
    BY <1>1, <1>3, TaskFacts DEF BodiesStored, Task
  <2>2. \A user \in whitelist' :
           user \in whitelist \/ (user = Task.username /\ Task.status = "Approved")
    BY <1>3 DEF Command
  <2>3. \A user \in bans' :
           user \in bans \/ (user = Task.username /\ Task.status = "Banned")
    BY <1>3 DEF Command
  <2>. QED
    BY <1>1, <2>1, <2>2, <2>3 DEF WhitelistJustified
<1>4. UNCHANGED <<whitelist, bans>> \/ (step = "rcon" /\ Command(Task))
  BY WorkerWritten DEF wdone, Work, WorkerTake, QueryAll, StoreAll, UpdateStats, IssueRCON,
                       Answered, EmailDecision, EmailToOps, Assign, WorkerAck, WorkerNack,
                       NotifyClose, WorkerFailure, CacheError, RefusedRCON, RCONError, Hang,
                       EmailDecisionError, AssignError, Crash
<1>. QED
  BY <1>2, <1>3, <1>4

(* A handler that is about to commit an op's decision holds a matching      *)
(* link, and links come by mail.                                            *)
LEMMA DecidersStep == Inv /\ [Next]_vars => DecidersWereMailed'
<1>. SUFFICES ASSUME Inv, [Next]_vars PROVE DecidersWereMailed'
  OBVIOUS
<1>1. /\ DecidersWereMailed /\ TypeInv /\ mailed \subseteq mailed' /\ commits \in Seq(Body)
  BY HistoryGrows DEF Inv, TypeInv, TypeOK
<1>2. ASSUME NEW body \in Body, commits' = Append(commits, body),
             body.admin \in Ops => <<body.id, body.admin>> \in mailed
      PROVE  DecidersWereMailed'
  <2>1. \A b \in Committed' : b \in Committed \/ b = body
    BY <1>1, <1>2 DEF Committed, Range
  <2>. QED
    BY <1>1, <1>2, <2>1 DEF DecidersWereMailed
<1>3. CASE commits' = commits
  BY <1>1, <1>3 DEF DecidersWereMailed, Committed
<1>4. ASSUME NEW h \in Handlers, NEW id \in ReqIds, Insert(h, id)
      PROVE  DecidersWereMailed'
  <2>. DEFINE body == BodyOf(id, handler[h].username, "Pending", Nobody)
  <2>1. body \in Body /\ body.admin \notin Ops
    BY <1>1, <1>4, HandlerFacts, AdminAssumption DEF Insert, BodyOf, Body, Statuses
  <2>2. commits' = Append(commits, body)
    BY <1>4 DEF Insert
  <2>. HIDE DEF body
  <2>. QED
    BY <1>2, <2>1, <2>2
<1>5. ASSUME NEW h \in Handlers, Update(h)
      PROVE  DecidersWereMailed'
  <2>. DEFINE job == handler[h]
              body == BodyOf(job.id, requests[job.id].username, job.status, job.admin)
  <2>1. body \in Body
    BY <1>1, <1>5, HandlerFacts, DocumentFacts DEF Update, BodyOf, Body
  <2>2. body.admin \in Ops => <<body.id, body.admin>> \in mailed
    BY <1>1, <1>5 DEF Update, TypeInv, HandlersReady, BodyOf
  <2>3. commits' = Append(commits, body)
    BY <1>5 DEF Update
  <2>. HIDE DEF body
  <2>. QED
    BY <1>2, <2>1, <2>2, <2>3
<1>6. Assign => commits' = commits
  BY DEF Assign, svars
<1>. QED
  BY <1>3, <1>4, <1>5, <1>6, RequestsWritten

(* The only Ack is that of WorkerAck, where the task is done.               *)
LEMMA AckedStep == Inv /\ [Next]_vars => AckedWasDone'
<1>. SUFFICES ASSUME Inv, [Next]_vars, NEW t \in acked' PROVE Done(t)'
  BY DEF AckedWasDone
<1>1. /\ AckedWasDone /\ TypeInv /\ Progress /\ acked \subseteq Tasks
      /\ step = "idle" <=> taken = NoTask
  BY DEF Inv, TypeInv, TypeOK, QTypeOK
<1>2. acked' = acked \/ (step = "ack" /\ acked' \subseteq acked \cup {taken})
  BY WorkerWritten DEF wdone, Work, WorkerTake, QueryAll, StoreAll, UpdateStats, IssueRCON,
                       Answered, EmailDecision, EmailToOps, Assign, WorkerAck, WorkerNack,
                       NotifyClose, WorkerFailure, CacheError, RefusedRCON, RCONError, Hang,
                       EmailDecisionError, AssignError, Crash, qvars, Take, Ack, Nack,
                       Restart
<1>3. t \in Tasks /\ Done(t)
  BY <1>1, <1>2, TaskFacts DEF AckedWasDone, Progress
<1>. QED
  BY <1>1, <1>3, DoneStays

(* The mail about an approval follows the answered command.                 *)
LEMMA NotifiedStep == Inv /\ [Next]_vars => NotifiedWhenDone'
<1>. SUFFICES ASSUME Inv, [Next]_vars, NEW t \in notified'
              PROVE  bodies'[t].status = "Approved" => t \in executed'
  BY DEF NotifiedWhenDone
<1>1. /\ NotifiedWhenDone /\ TypeInv /\ Progress /\ notified \subseteq Tasks
      /\ step = "idle" <=> taken = NoTask
      /\ executed \subseteq executed'
  BY HistoryGrows DEF Inv, TypeInv, TypeOK
<1>2. notified' = notified \/ (step = "mail" /\ notified' = notified \cup {taken})
  BY WorkerWritten DEF wdone, Work, WorkerTake, QueryAll, StoreAll, UpdateStats, IssueRCON,
                       Answered, EmailDecision, EmailToOps, Assign, WorkerAck, WorkerNack,
                       NotifyClose, WorkerFailure, CacheError, RefusedRCON, RCONError, Hang,
                       EmailDecisionError, AssignError, Crash
<1>3. t \in Tasks /\ (bodies[t].status = "Approved" => t \in executed)
  BY <1>1, <1>2, TaskFacts DEF NotifiedWhenDone, Progress, Task
<1>4. bodies'[t] = bodies[t]
  BY <1>1, <1>3, BodiesStep
<1>. QED
  BY <1>1, <1>3, <1>4

-----------------------------------------------------------------------------
(* The theorems.                                                           *)

(* The inductive invariant holds of a server that starts with an empty     *)
(* database.                                                               *)
LEMMA InvInit == Init => Inv
<1>. SUFFICES ASSUME Init PROVE Inv
  OBVIOUS
<1>. USE DEF Init
<1>1. QInv /\ QTypeOK
  BY QInvInit DEF QInv
<1>2. Tasks = {} /\ inbox = <<>> /\ taken = NoTask /\ acked = {}
  BY DEF QInit, Tasks
<1>3. Created = {}
  BY DEF NoDocuments, Created
<1>4. RequestsTypeOK
  BY <1>3 DEF RequestsTypeOK, NoDocuments, Created
<1>5. View(NoView)
  BY <1>3 DEF View, NoView
<1>6. faults \in 0..MaxFaults
  BY GatekeeperAssumption
<1>7. TypeOK
  <2>1. handler \in [Handlers -> HandlerStates]
    BY DEF HandlerStates
  <2>2. bodies \in Seq(Body) /\ Len(bodies) = published /\ commits \in Seq(Body)
    BY DEF QInit
  <2>3. step \in Steps /\ (step = "idle" <=> taken = NoTask)
    BY <1>2 DEF Steps
  <2>. QED
    BY <1>1, <1>4, <1>5, <1>6, <2>1, <2>2, <2>3 DEF TypeOK
<1>8. HeldAreTasks
  BY <1>2 DEF HeldAreTasks
<1>9. HandlersReady
  BY DEF HandlersReady, Idle
<1>10. BodiesStored /\ AssigneesMailed /\ Progress
  BY <1>2, <1>3 DEF BodiesStored, AssigneesMailed, Progress
<1>11. Committed = {}
  BY DEF Committed, Range
<1>12. WhitelistJustified /\ DecidersWereMailed /\ AckedWasDone /\ NotifiedWhenDone
  BY <1>2, <1>11 DEF WhitelistJustified, DecidersWereMailed, AckedWasDone, NotifiedWhenDone
<1>. QED
  BY <1>1, <1>7, <1>8, <1>9, <1>10, <1>12 DEF Inv, TypeInv

(* Every step keeps the inductive invariant.                               *)
LEMMA InvStep == Inv /\ [Next]_vars => Inv'
<1>1. Inv => TypeInv
  BY DEF Inv
<1>2. Inv /\ [Next]_vars => TypeInv'
  BY <1>1, TypeOKStep, HandlersReadyStep DEF TypeInv
<1>. QED
  BY <1>2, BodiesStoredStep, AssigneesMailedStep, ProgressStep, WhitelistStep, DecidersStep,
     AckedStep, NotifiedStep DEF Inv

(* The inductive invariant holds of every reachable state of the server.    *)
THEOREM ServerInvariant == Spec => []Inv
  BY InvInit, InvStep, PTL DEF Spec

(* Types; every task has its message and the worker holds a delivery        *)
(* exactly when it is in the middle of one.                                 *)
THEOREM ServerTypeCorrect == Spec => []TypeOK
<1>1. Inv => TypeOK
  BY DEF Inv, TypeInv
<1>. QED
  BY <1>1, ServerInvariant, PTL

(* Nobody is whitelisted or banned without a stored decision of that kind,  *)
(* through any redelivery, crash or error after a command.                  *)
THEOREM Justified == Spec => []WhitelistJustified
<1>1. Inv => WhitelistJustified
  BY DEF Inv
<1>. QED
  BY <1>1, ServerInvariant, PTL

(* A decision made through a link was made by an op who was mailed it.      *)
THEOREM Deciders == Spec => []DecidersWereMailed
<1>1. Inv => DecidersWereMailed
  BY DEF Inv
<1>. QED
  BY <1>1, ServerInvariant, PTL

(* What the worker acknowledged had been done.                              *)
THEOREM Acknowledged == Spec => []AckedWasDone
<1>1. Inv => AckedWasDone
  BY DEF Inv
<1>. QED
  BY <1>1, ServerInvariant, PTL

(* An approval is announced only after the game server confirmed it.        *)
THEOREM Announced == Spec => []NotifiedWhenDone
<1>1. Inv => NotifiedWhenDone
  BY DEF Inv
<1>. QED
  BY <1>1, ServerInvariant, PTL

\* The step property of DecisionsAreKept.
KeepsDecisions ==
    \A id \in Created :
       requests'[id].status # requests[id].status =>
          /\ requests'[id].status # "Pending"
          /\ \E body \in Body : /\ commits' = Append(commits, body)
                               /\ body.id = id
                               /\ body.status = requests'[id].status

(* Only a handler that stores a decision changes the status of a request.   *)
LEMMA KeepsDecisionsStep == Inv /\ [Next]_vars => KeepsDecisions
<1>. SUFFICES ASSUME Inv, [Next]_vars, NEW id \in Created,
                     requests'[id].status # requests[id].status
              PROVE  /\ requests'[id].status # "Pending"
                     /\ \E body \in Body : /\ commits' = Append(commits, body)
                                          /\ body.id = id
                                          /\ body.status = requests'[id].status
  BY DEF KeepsDecisions
<1>1. TypeInv /\ requests \in [Created -> Documents]
  BY DEF Inv, TypeInv, TypeOK, RequestsTypeOK
<1>2. PICK h \in Handlers : Update(h)
  <2>1. ASSUME NEW h \in Handlers, NEW new \in ReqIds, Insert(h, new) PROVE FALSE
    BY <2>1 DEF Insert, CreateRequest, Created
  <2>2. ASSUME Assign PROVE FALSE
    BY <1>1, <2>2 DEF Assign, SetAssignees, Documents
  <2>. QED
    BY <2>1, <2>2, RequestsWritten
<1>. DEFINE job == handler[h]
            body == BodyOf(job.id, requests[job.id].username, job.status, job.admin)
<1>3. job.status # "Pending"
  BY <1>1, <1>2 DEF Update, TypeInv, HandlersReady
<1>4. id = job.id /\ requests'[id].status = job.status
  BY <1>1, <1>2 DEF Update, SetDecision, Documents
<1>5. body \in Body /\ commits' = Append(commits, body)
  BY <1>1, <1>2, HandlerFacts, DocumentFacts DEF Update, BodyOf, Body
<1>6. body.id = id /\ body.status = requests'[id].status
  BY <1>4 DEF BodyOf
<1>. QED
  BY <1>3, <1>4, <1>5, <1>6

(* No write of the worker takes a decision away: the status of a request    *)
(* changes only together with a new commit, and never to "Pending".         *)
THEOREM Kept == Spec => DecisionsAreKept
<1>1. Inv /\ [Next]_vars => [KeepsDecisions]_vars
  BY KeepsDecisionsStep
<1>. QED
  BY <1>1, ServerInvariant, PTL DEF Spec, DecisionsAreKept, KeepsDecisions

-----------------------------------------------------------------------------
(* The game server agrees with MongoDB.  Between the two lie the queue, the *)
(* worker and the handlers, and the invariant follows a change through all  *)
(* of them: what the documents say of a player is what the commits leave;   *)
(* every commit is on its way, and in the end a message; the tasks that     *)
(* were acknowledged are older than those that are not settled; and the     *)
(* whitelist is as some task left it that is as late as every acknowledged  *)
(* one.                                                                    *)

\* What a history of changes leaves: is the player whitelisted, or banned?
Admitted(user, changes) ==
    \E i \in DOMAIN changes :
       /\ changes[i].username = user /\ changes[i].status = "Approved"
       /\ \A j \in DOMAIN changes :
             i < j /\ changes[j].username = user => changes[j].status # "Deactivated"
Banished(user, changes) ==
    \E i \in DOMAIN changes : changes[i].username = user /\ changes[i].status = "Banned"

\* Change i of a history is its last one on a request, or about a player.
LastOn(s, id, i) ==
    i \in DOMAIN s /\ s[i].id = id /\ \A j \in DOMAIN s : i < j => s[j].id # id
LastAbout(s, user, i) ==
    i \in DOMAIN s /\ s[i].username = user /\ \A j \in DOMAIN s : i < j => s[j].username # user

\* A document says what its last commit says.
StoredLast ==
    /\ \A i \in DOMAIN commits : /\ commits[i].id \in Created
                                /\ commits[i].username = requests[commits[i].id].username
                                /\ \E n \in DOMAIN commits : LastAbout(commits, commits[i].username, n)
    /\ \A id \in Created : \E i \in DOMAIN commits :
          LastOn(commits, id, i) /\ commits[i].status = requests[id].status

\* What the documents of a player say is what a history of changes leaves, and
\* only the request of the last change stands in the way of another.
Tells(user, changes) ==
    /\ Admitted(user, changes) <=> Matching(user, {"Approved", "Banned"}) # {}
    /\ Banished(user, changes) <=> Matching(user, {"Banned"}) # {}
    /\ \A i \in DOMAIN changes :
          LastAbout(changes, user, i) => Matching(user, Blocking) \subseteq {changes[i].id}

\* So it is with the commits about a player whose changes were lawful.
ChainTells == \A user \in Usernames : Lawful(user) => Tells(user, commits)

(* A history and one more change.                                          *)
LEMMA OneMore ==
    ASSUME NEW s \in Seq(Body), NEW b \in Body, NEW t, t = Append(s, b)
    PROVE  /\ Len(s) \in Nat /\ DOMAIN s = 1..Len(s) /\ DOMAIN t = 1..(Len(s) + 1)
           /\ \A i \in DOMAIN s : t[i] = s[i] /\ i \in DOMAIN t /\ i < Len(s) + 1
           /\ t[Len(s) + 1] = b /\ Len(s) + 1 \in DOMAIN t
           /\ \A i \in DOMAIN t : i \in DOMAIN s \/ i = Len(s) + 1
           /\ t \in Seq(Body)
  OBVIOUS

(* What one more change does to the whitelist and to the bans.              *)
LEMMA OneMoreAdmits ==
    ASSUME NEW s \in Seq(Body), NEW b \in Body, NEW user
    PROVE  /\ b.username # user => (Admitted(user, Append(s, b)) <=> Admitted(user, s))
           /\ b.username = user /\ b.status = "Approved" => Admitted(user, Append(s, b))
           /\ b.username = user /\ b.status = "Deactivated" => ~Admitted(user, Append(s, b))
           /\ b.username = user /\ b.status \notin {"Approved", "Deactivated"}
              => (Admitted(user, Append(s, b)) <=> Admitted(user, s))
<1>1. PICK t : t = Append(s, b)
  OBVIOUS
<1>. DEFINE n == Len(s) + 1
<1>2. /\ Len(s) \in Nat /\ DOMAIN s = 1..Len(s) /\ DOMAIN t = 1..n
      /\ \A i \in DOMAIN s : t[i] = s[i] /\ i \in DOMAIN t /\ i < n
      /\ t[n] = b /\ n \in DOMAIN t
      /\ \A i \in DOMAIN t : i \in DOMAIN s \/ i = n
  BY <1>1, OneMore
<1>3. ~(n < n) /\ \A i \in DOMAIN s : ~(n < i)
  BY <1>2
<1>. HIDE DEF n
<1>4. ASSUME b.username # user \/ b.status # "Deactivated", Admitted(user, s)
      PROVE  Admitted(user, t)
  <2>1. PICK i \in DOMAIN s :
          /\ s[i].username = user /\ s[i].status = "Approved"
          /\ \A j \in DOMAIN s : i < j /\ s[j].username = user => s[j].status # "Deactivated"
    BY <1>4 DEF Admitted
  <2>2. /\ i \in DOMAIN t /\ t[i].username = user /\ t[i].status = "Approved"
        /\ \A j \in DOMAIN t : i < j /\ t[j].username = user => t[j].status # "Deactivated"
    BY <1>2, <1>4, <2>1
  <2>. QED
    BY <2>2 DEF Admitted
<1>5. ASSUME b.username # user \/ b.status # "Approved", Admitted(user, t)
      PROVE  Admitted(user, s)
  <2>1. PICK i \in DOMAIN t :
          /\ t[i].username = user /\ t[i].status = "Approved"
          /\ \A j \in DOMAIN t : i < j /\ t[j].username = user => t[j].status # "Deactivated"
    BY <1>5 DEF Admitted
  <2>2. i \in DOMAIN s
    BY <1>2, <1>5, <2>1
  <2>3. /\ s[i].username = user /\ s[i].status = "Approved"
        /\ \A j \in DOMAIN s : i < j /\ s[j].username = user => s[j].status # "Deactivated"
    BY <1>2, <2>1, <2>2
  <2>. QED
    BY <2>2, <2>3 DEF Admitted
<1>6. b.username = user /\ b.status = "Approved" => Admitted(user, t)
  <2>1. \A j \in DOMAIN t : ~(n < j)
    BY <1>2, <1>3
  <2>. QED
    BY <1>2, <2>1 DEF Admitted
<1>7. b.username = user /\ b.status = "Deactivated" => ~Admitted(user, t)
  BY <1>2 DEF Admitted
<1>. QED
  BY <1>1, <1>4, <1>5, <1>6, <1>7

(* The bans only grow.                                                     *)
LEMMA OneMoreBans ==
    ASSUME NEW s \in Seq(Body), NEW b \in Body, NEW user
    PROVE  Banished(user, Append(s, b))
           <=> Banished(user, s) \/ (b.username = user /\ b.status = "Banned")
<1>1. PICK t : t = Append(s, b)
  OBVIOUS
<1>2. /\ \A i \in DOMAIN s : t[i] = s[i] /\ i \in DOMAIN t
      /\ t[Len(s) + 1] = b /\ Len(s) + 1 \in DOMAIN t
      /\ \A i \in DOMAIN t : i \in DOMAIN s \/ i = Len(s) + 1
  BY <1>1, OneMore
<1>. QED
  BY <1>1, <1>2 DEF Banished

-----------------------------------------------------------------------------
\* What a stored change does.
Commits(body) ==
    /\ commits' = Append(commits, body)
    /\ Created' = Created \cup {body.id}
    /\ requests'[body.id].username = body.username /\ requests'[body.id].status = body.status
    /\ \A id \in Created \ {body.id} : /\ requests'[id].username = requests[id].username
                                      /\ requests'[id].status = requests[id].status
    /\ IF body.id \in Created
       THEN body.status # "Pending" /\ body.username = requests[body.id].username
       ELSE body.status = "Pending"
CommitsNothing ==
    /\ commits' = commits /\ Created' = Created
    /\ \A id \in Created : /\ requests'[id].username = requests[id].username
                          /\ requests'[id].status = requests[id].status

(* Nothing else happens to a user name or a status.                         *)
LEMMA CommitKinds ==
    ASSUME Inv, [Next]_vars
    PROVE  CommitsNothing \/ \E body \in Body : Commits(body)
<1>1. TypeInv /\ requests \in [Created -> Documents]
  BY DEF Inv, TypeInv, TypeOK, RequestsTypeOK
<1>2. CASE UNCHANGED <<requests, commits>>
  BY <1>2 DEF CommitsNothing, Created
<1>3. CASE Assign
  <2>1. commits' = commits
    BY <1>3 DEF Assign, svars
  <2>2. CommitsNothing
    BY <1>1, <1>3, <2>1 DEF Assign, SetAssignees, CommitsNothing, Created, Documents
  <2>. QED
    BY <2>2
<1>4. ASSUME NEW h \in Handlers, NEW id \in ReqIds, Insert(h, id)
      PROVE  \E body \in Body : Commits(body)
  <2>1. PICK body : body = BodyOf(id, handler[h].username, "Pending", Nobody)
    OBVIOUS
  <2>2. /\ body \in Body /\ body.id = id /\ body.username = handler[h].username
        /\ body.status = "Pending"
    BY <1>1, <1>4, <2>1, HandlerFacts DEF Insert, BodyOf, Body, Statuses
  <2>3. /\ commits' = Append(commits, body) /\ id \notin Created
        /\ CreateRequest(id, body.username)
    BY <1>4, <2>1 DEF Insert
  <2>4. Commits(body)
    BY <2>2, <2>3 DEF Commits, CreateRequest, Created
  <2>. QED
    BY <2>2, <2>4
<1>5. ASSUME NEW h \in Handlers, Update(h)
      PROVE  \E body \in Body : Commits(body)
  <2>. DEFINE job == handler[h]
  <2>1. PICK body : body = BodyOf(job.id, requests[job.id].username, job.status, job.admin)
    OBVIOUS
  <2>2. job.id \in Created /\ job.status # "Pending"
    BY <1>1, <1>5 DEF Update, TypeInv, HandlersReady
  <2>3. /\ body \in Body /\ body.id = job.id /\ body.username = requests[job.id].username
        /\ body.status = job.status
    BY <1>1, <1>5, <2>1, HandlerFacts, DocumentFacts DEF Update, BodyOf, Body
  <2>4. /\ commits' = Append(commits, body)
        /\ SetDecision(job.id, job.status, job.admin)
    BY <1>5, <2>1 DEF Update
  <2>5. Commits(body)
    BY <1>1, <2>2, <2>3, <2>4 DEF Commits, SetDecision, Created, Documents
  <2>. QED
    BY <2>3, <2>5
<1>. QED
  BY <1>2, <1>3, <1>4, <1>5, RequestsWritten

(* A stored change in terms of what a query finds.                          *)
LEMMA MatchingAfter ==
    ASSUME NEW body \in Body, Commits(body), NEW user, NEW S
    PROVE  Matching(user, S)' = (Matching(user, S) \ {body.id})
              \cup (IF body.username = user /\ body.status \in S THEN {body.id} ELSE {})
  BY DEF Commits, Matching, Created

\* t is s and, n-th, the change b.
Longer(s, b, t, n) == s \in Seq(Body) /\ b \in Body /\ t = Append(s, b) /\ n = Len(s) + 1

(* The last change on a request and about a player, after one more.        *)
LEMMA OneMoreLast ==
    ASSUME NEW s, NEW b, NEW t, NEW n, Longer(s, b, t, n)
    PROVE  /\ LastOn(t, b.id, n) /\ LastAbout(t, b.username, n)
           /\ \A id, i : id # b.id => (LastOn(t, id, i) <=> LastOn(s, id, i))
           /\ \A user, i : user # b.username => (LastAbout(t, user, i) <=> LastAbout(s, user, i))
           /\ \A i : LastAbout(t, b.username, i) => i = n
<1>1. /\ \A i \in DOMAIN s : t[i] = s[i] /\ i \in DOMAIN t /\ i < n
      /\ t[n] = b /\ n \in DOMAIN t
      /\ \A i \in DOMAIN t : i \in DOMAIN s \/ i = n
      /\ DOMAIN s = 1..Len(s) /\ Len(s) \in Nat /\ n = Len(s) + 1
  BY OneMore DEF Longer
<1>2. ~(n < n) /\ \A i \in DOMAIN s : ~(n < i)
  BY <1>1
<1>. QED
  BY <1>1, <1>2 DEF LastOn, LastAbout

(* Each of these is one change.                                            *)
LEMMA OneLast ==
    ASSUME NEW s \in Seq(Body), NEW id, NEW i, NEW j, LastOn(s, id, i), LastOn(s, id, j)
    PROVE  i = j
<1>1. i \in 1..Len(s) /\ j \in 1..Len(s) /\ ~(i < j) /\ ~(j < i) /\ Len(s) \in Nat
  BY DEF LastOn
<1>. QED
  BY <1>1

(* The last commits keep telling what the documents say.                    *)
LEMMA StoredLastStep == Inv /\ StoredLast /\ [Next]_vars => StoredLast'
<1>. SUFFICES ASSUME Inv, StoredLast, [Next]_vars PROVE StoredLast'
  OBVIOUS
<1>1. commits \in Seq(Body)
  BY DEF Inv, TypeInv, TypeOK
<1>2. CASE CommitsNothing
  BY <1>2 DEF CommitsNothing, StoredLast
<1>3. ASSUME NEW body \in Body, Commits(body) PROVE StoredLast'
  <2>0. PICK s, t, n : s = commits /\ t = commits' /\ n = Len(s) + 1
    OBVIOUS
  <2>1. /\ s \in Seq(Body) /\ t = Append(s, body)
        /\ \A i \in DOMAIN s : t[i] = s[i] /\ i \in DOMAIN t
        /\ t[n] = body /\ n \in DOMAIN t
        /\ \A i \in DOMAIN t : i \in DOMAIN s \/ i = n
    BY <1>1, <1>3, <2>0, OneMore DEF Commits
  <2>2. /\ LastOn(t, body.id, n) /\ LastAbout(t, body.username, n)
        /\ \A id, i : id # body.id => (LastOn(t, id, i) <=> LastOn(s, id, i))
        /\ \A user, i : user # body.username => (LastAbout(t, user, i) <=> LastAbout(s, user, i))
    <3>1. Longer(s, body, t, n)
      BY <2>0, <2>1 DEF Longer
    <3>. QED
      BY <3>1, OneMoreLast
  <2>3. /\ \A i \in DOMAIN s : /\ s[i].id \in Created
                               /\ s[i].username = requests[s[i].id].username
                               /\ \E m \in DOMAIN s : LastAbout(s, s[i].username, m)
        /\ \A id \in Created : \E i \in DOMAIN s : LastOn(s, id, i) /\ s[i].status = requests[id].status
    BY <2>0 DEF StoredLast
  <2>4. ASSUME NEW i \in DOMAIN t
        PROVE  /\ t[i].id \in Created' /\ t[i].username = requests'[t[i].id].username
               /\ \E m \in DOMAIN t : LastAbout(t, t[i].username, m)
    <3>1. CASE i = n
      BY <1>3, <2>1, <2>2, <3>1 DEF Commits
    <3>2. CASE i \in DOMAIN s
      <4>1. t[i] = s[i] /\ t[i].id \in Created /\ t[i].username = requests[t[i].id].username
        BY <2>1, <2>3, <3>2
      <4>2. t[i].id \in Created' /\ t[i].username = requests'[t[i].id].username
        BY <1>3, <4>1 DEF Commits
      <4>3. \E m \in DOMAIN t : LastAbout(t, t[i].username, m)
        BY <2>1, <2>2, <2>3, <3>2
      <4>. QED
        BY <4>2, <4>3
    <3>. QED
      BY <2>1, <3>1, <3>2
  <2>5. ASSUME NEW id \in Created'
        PROVE  \E i \in DOMAIN t : LastOn(t, id, i) /\ t[i].status = requests'[id].status
    <3>1. CASE id = body.id
      BY <1>3, <2>1, <2>2, <3>1 DEF Commits
    <3>2. CASE id # body.id
      <4>1. id \in Created /\ requests'[id].status = requests[id].status
        BY <1>3, <3>2 DEF Commits
      <4>. QED
        BY <2>1, <2>2, <2>3, <3>2, <4>1
    <3>. QED
      BY <3>1, <3>2
  <2>. QED
    BY <2>0, <2>4, <2>5 DEF StoredLast
<1>. QED
  BY <1>2, <1>3, CommitKinds

\* Lawful, of any history.
LawfulIn(s, user) ==
    \A i, j \in DOMAIN s :
       /\ i < j /\ s[i].username = user /\ s[j].username = user
       /\ \A k \in (i + 1)..(j - 1) : s[k].username # user
       => Follows(s[i], s[j])

(* The commits are one history.                                            *)
LEMMA LawfulIsLawfulIn == \A user : Lawful(user) <=> LawfulIn(commits, user)
  BY DEF Lawful, LawfulIn

(* A lawful history was lawful before its last change, and that one         *)
(* follows the one before.                                                  *)
LEMMA LawfulBefore ==
    ASSUME NEW s, NEW b, NEW t, NEW n, Longer(s, b, t, n), NEW user, LawfulIn(t, user)
    PROVE  /\ LawfulIn(s, user)
           /\ \A m : LastAbout(s, user, m) /\ b.username = user => Follows(s[m], b)
<1>1. /\ \A i \in DOMAIN s : t[i] = s[i] /\ i \in DOMAIN t /\ i < n
      /\ t[n] = b /\ n \in DOMAIN t
      /\ DOMAIN s = 1..Len(s) /\ Len(s) \in Nat /\ n = Len(s) + 1
  BY OneMore DEF Longer
<1>2. LawfulIn(s, user)
  <2>1. SUFFICES ASSUME NEW i \in DOMAIN s, NEW j \in DOMAIN s,
                        i < j, s[i].username = user, s[j].username = user,
                        \A k \in (i + 1)..(j - 1) : s[k].username # user
                 PROVE  Follows(s[i], s[j])
    BY DEF LawfulIn
  <2>2. \A k \in (i + 1)..(j - 1) : k \in DOMAIN s
    BY <1>1
  <2>3. \A k \in (i + 1)..(j - 1) : t[k].username # user
    BY <1>1, <2>1, <2>2
  <2>4. /\ i \in DOMAIN t /\ j \in DOMAIN t /\ t[i] = s[i] /\ t[j] = s[j]
    BY <1>1
  <2>. QED
    BY <2>1, <2>3, <2>4 DEF LawfulIn
<1>3. ASSUME NEW m, LastAbout(s, user, m), b.username = user PROVE Follows(s[m], b)
  <2>1. /\ m \in DOMAIN s /\ m \in DOMAIN t /\ m < n /\ t[m] = s[m]
        /\ t[m].username = user /\ t[n].username = user
    BY <1>1, <1>3 DEF LastAbout
  <2>2. \A k \in (m + 1)..(n - 1) : k \in DOMAIN s /\ m < k
    BY <1>1, <2>1
  <2>3. \A k \in (m + 1)..(n - 1) : t[k].username # user
    BY <1>1, <1>3, <2>2 DEF LastAbout
  <2>. QED
    BY <1>1, <2>1, <2>3 DEF LawfulIn
<1>. QED
  BY <1>2, <1>3

(* The request of a player's last change has the status of that change.     *)
LEMMA LastTells ==
    ASSUME Inv, StoredLast, NEW user, NEW m, LastAbout(commits, user, m)
    PROVE  /\ commits[m].id \in Created
           /\ requests[commits[m].id].username = user
           /\ requests[commits[m].id].status = commits[m].status
<1>1. m \in DOMAIN commits /\ commits[m].username = user /\ commits \in Seq(Body)
  BY DEF LastAbout, Inv, TypeInv, TypeOK
<1>2. PICK c : c = commits[m]
  OBVIOUS
<1>3. c.id \in Created /\ c.username = requests[c.id].username /\ c.username = user
  BY <1>1, <1>2 DEF StoredLast
<1>4. PICK i \in DOMAIN commits :
        LastOn(commits, c.id, i) /\ commits[i].status = requests[c.id].status
  BY <1>3 DEF StoredLast
<1>5. LastOn(commits, c.id, m)
  <2>1. ASSUME NEW j \in DOMAIN commits, m < j PROVE commits[j].id # c.id
    <3>1. commits[j].username # user /\ commits[j].username = requests[commits[j].id].username
      BY <2>1 DEF LastAbout, StoredLast
    <3>. QED
      BY <1>3, <3>1
  <2>. QED
    BY <1>1, <1>2, <2>1 DEF LastOn
<1>6. i = m
  BY <1>1, <1>4, <1>5, OneLast
<1>. QED
  BY <1>2, <1>3, <1>4, <1>6

(* Of whom there is no change, there is no document.                        *)
LEMMA NoChange ==
    ASSUME Inv, StoredLast, NEW user, \A m : ~LastAbout(commits, user, m)
    PROVE  /\ \A i \in DOMAIN commits : commits[i].username # user
           /\ \A id \in Created : requests[id].username # user
           /\ ~Admitted(user, commits) /\ ~Banished(user, commits)
<1>1. \A i \in DOMAIN commits : commits[i].username # user
  BY DEF StoredLast
<1>2. \A id \in Created : requests[id].username # user
  <2>1. SUFFICES ASSUME NEW id \in Created PROVE requests[id].username # user
    OBVIOUS
  <2>2. PICK i \in DOMAIN commits : LastOn(commits, id, i)
    BY DEF StoredLast
  <2>3. commits[i].id = id /\ commits[i].username = requests[commits[i].id].username
    BY <2>2 DEF LastOn, StoredLast
  <2>. QED
    BY <1>1, <2>3
<1>. QED
  BY <1>1, <1>2 DEF Admitted, Banished

(* A stored change about somebody else.                                    *)
LEMMA OthersKeep ==
    ASSUME Inv, StoredLast, NEW body \in Body, Commits(body),
           NEW user, body.username # user, Tells(user, commits)
    PROVE  Tells(user, commits)'
<1>0. PICK s, t, n : s = commits /\ t = commits' /\ n = Len(s) + 1
  OBVIOUS
<1>1. Longer(s, body, t, n) /\ t = Append(s, body)
  BY <1>0 DEF Longer, Commits, Inv, TypeInv, TypeOK
<1>2. \A i \in DOMAIN s : t[i] = s[i]
  BY <1>1, OneMore DEF Longer
<1>3. Admitted(user, t) <=> Admitted(user, s)
  BY <1>1, OneMoreAdmits DEF Longer
<1>4. Banished(user, t) <=> Banished(user, s)
  BY <1>1, OneMoreBans DEF Longer
<1>5. \A i : LastAbout(t, user, i) <=> LastAbout(s, user, i)
  BY <1>1, OneMoreLast
<1>6. \A S : Matching(user, S)' = Matching(user, S)
  <2>1. body.id \in Created => requests[body.id].username # user
    BY DEF Commits
  <2>2. \A S : body.id \notin Matching(user, S)
    BY <2>1 DEF Matching
  <2>. QED
    BY <2>2, MatchingAfter
<1>7. \A i : LastAbout(s, user, i) => i \in DOMAIN s
  BY DEF LastAbout
<1>8. /\ Admitted(user, s) <=> Matching(user, {"Approved", "Banned"}) # {}
      /\ Banished(user, s) <=> Matching(user, {"Banned"}) # {}
      /\ \A i \in DOMAIN s : LastAbout(s, user, i) => Matching(user, Blocking) \subseteq {s[i].id}
  BY <1>0 DEF Tells
<1>. QED
  BY <1>0, <1>2, <1>3, <1>4, <1>5, <1>6, <1>7, <1>8 DEF Tells, Blocking

(* The player's change, when no request of theirs stands in its way, is a   *)
(* new request; otherwise it is a decision on the one request that does.    *)
LEMMA NextChange ==
    ASSUME Inv, StoredLast, NEW body \in Body, Commits(body),
           NEW user, body.username = user, Tells(user, commits),
           \A m : LastAbout(commits, user, m) => Follows(commits[m], body)
    PROVE  \/ body.status = "Pending" /\ Matching(user, Blocking) = {}
           \/ /\ Matching(user, Blocking) \subseteq {body.id}
              /\ body.id \in Created /\ requests[body.id].username = user
              /\ <<requests[body.id].status, body.status>> \in Lifecycle
<1>1. ASSUME NEW m, LastAbout(commits, user, m), commits[m].id = body.id
      PROVE  /\ Matching(user, Blocking) \subseteq {body.id}
             /\ body.id \in Created /\ requests[body.id].username = user
             /\ <<requests[body.id].status, body.status>> \in Lifecycle
  BY <1>1, LastTells DEF Tells, Follows, LastAbout
<1>2. ASSUME NEW m, LastAbout(commits, user, m), commits[m].id # body.id
      PROVE  body.status = "Pending" /\ Matching(user, Blocking) = {}
  <2>1. commits[m].status \notin Blocking /\ body.status = "Pending"
    BY <1>2 DEF Follows
  <2>2. Matching(user, Blocking) \subseteq {commits[m].id}
    BY <1>2 DEF Tells, LastAbout
  <2>3. commits[m].id \notin Matching(user, Blocking)
    BY <1>2, <2>1, LastTells DEF Matching
  <2>. QED
    BY <2>1, <2>2, <2>3
<1>3. ASSUME \A m : ~LastAbout(commits, user, m)
      PROVE  body.status = "Pending" /\ Matching(user, Blocking) = {}
  BY <1>3, NoChange DEF Commits, Matching
<1>. QED
  BY <1>1, <1>2, <1>3

(* A stored change about the player.                                       *)
LEMMA OwnChange ==
    ASSUME Inv, StoredLast, NEW body \in Body, Commits(body),
           NEW user, body.username = user, Tells(user, commits),
           \A m : LastAbout(commits, user, m) => Follows(commits[m], body)
    PROVE  Tells(user, commits)'
<1>0. PICK s, t, n : s = commits /\ t = commits' /\ n = Len(s) + 1
  OBVIOUS
<1>1. Longer(s, body, t, n) /\ t = Append(s, body)
  BY <1>0 DEF Longer, Commits, Inv, TypeInv, TypeOK
<1>2. t[n] = body
  BY <1>1, OneMore DEF Longer
<1>3. /\ body.status = "Approved" => Admitted(user, t)
      /\ body.status = "Deactivated" => ~Admitted(user, t)
      /\ body.status \notin {"Approved", "Deactivated"} => (Admitted(user, t) <=> Admitted(user, s))
  BY <1>1, OneMoreAdmits DEF Longer
<1>4. Banished(user, t) <=> Banished(user, s) \/ body.status = "Banned"
  BY <1>1, OneMoreBans DEF Longer
<1>5. \A i : LastAbout(t, user, i) => i = n
  BY <1>1, OneMoreLast
<1>6. \A S : Matching(user, S)' = (Matching(user, S) \ {body.id})
                                  \cup (IF body.status \in S THEN {body.id} ELSE {})
  BY MatchingAfter
<1>7. /\ Admitted(user, s) <=> Matching(user, {"Approved", "Banned"}) # {}
      /\ Banished(user, s) <=> Matching(user, {"Banned"}) # {}
  BY <1>0 DEF Tells
<1>8. /\ Matching(user, {"Approved", "Banned"}) \subseteq Matching(user, Blocking)
      /\ Matching(user, {"Banned"}) \subseteq Matching(user, Blocking)
  BY DEF Matching, Blocking
<1>9. CASE body.status = "Pending" /\ Matching(user, Blocking) = {}
  <2>1. Matching(user, {"Approved", "Banned"})' = {} /\ Matching(user, {"Banned"})' = {}
    BY <1>6, <1>8, <1>9
  <2>2. Matching(user, Blocking)' \subseteq {body.id}
    BY <1>6, <1>9
  <2>3. ~Admitted(user, t) /\ ~Banished(user, t)
    BY <1>3, <1>4, <1>7, <1>8, <1>9
  <2>. QED
    BY <1>0, <1>2, <1>5, <2>1, <2>2, <2>3 DEF Tells, Blocking
<1>10. CASE /\ Matching(user, Blocking) \subseteq {body.id}
            /\ body.id \in Created /\ requests[body.id].username = user
            /\ <<requests[body.id].status, body.status>> \in Lifecycle
  <2>1. Matching(user, Blocking)' \subseteq {body.id}
    BY <1>6, <1>10
  <2>2. /\ Matching(user, {"Approved", "Banned"})'
             = IF body.status \in {"Approved", "Banned"} THEN {body.id} ELSE {}
        /\ Matching(user, {"Banned"})' = IF body.status = "Banned" THEN {body.id} ELSE {}
    BY <1>6, <1>8, <1>10
  <2>3. /\ Matching(user, {"Approved", "Banned"}) # {} <=> requests[body.id].status \in {"Approved", "Banned"}
        /\ Matching(user, {"Banned"}) # {} <=> requests[body.id].status = "Banned"
    <3>1. \A S : body.id \in Matching(user, S) <=> requests[body.id].status \in S
      BY <1>10 DEF Matching
    <3>. QED
      BY <1>8, <1>10, <3>1
  <2>4. /\ Admitted(user, t) <=> body.status \in {"Approved", "Banned"}
        /\ Banished(user, t) <=> body.status = "Banned"
    BY <1>3, <1>4, <1>7, <1>10, <2>3 DEF Lifecycle
  <2>. QED
    BY <1>0, <1>2, <1>5, <2>1, <2>2, <2>4 DEF Tells, Blocking
<1>. QED
  BY <1>9, <1>10, NextChange

(* The documents of lawful players keep telling what the commits tell.      *)
LEMMA ChainTellsStep == Inv /\ StoredLast /\ ChainTells /\ [Next]_vars => ChainTells'
<1>. SUFFICES ASSUME Inv, StoredLast, ChainTells, [Next]_vars,
                     NEW user \in Usernames, Lawful(user)'
              PROVE  Tells(user, commits)'
  BY DEF ChainTells, Tells
<1>1. CASE CommitsNothing
  <2>1. Lawful(user) /\ \A S : Matching(user, S)' = Matching(user, S)
    BY <1>1 DEF CommitsNothing, Lawful, Matching, Created
  <2>2. Tells(user, commits)
    BY <2>1 DEF ChainTells, Tells
  <2>. QED
    BY <1>1, <2>1, <2>2 DEF CommitsNothing, Tells, Blocking
<1>2. ASSUME NEW body \in Body, Commits(body) PROVE Tells(user, commits)'
  <2>0. PICK s, t, n : s = commits /\ t = commits' /\ n = Len(s) + 1
    OBVIOUS
  <2>1. Longer(s, body, t, n)
    BY <1>2, <2>0 DEF Longer, Commits, Inv, TypeInv, TypeOK
  <2>2. LawfulIn(t, user)
    BY <2>0 DEF Lawful, LawfulIn
  <2>3. /\ LawfulIn(s, user)
        /\ \A m : LastAbout(s, user, m) /\ body.username = user => Follows(s[m], body)
    BY <2>1, <2>2, LawfulBefore
  <2>4. Tells(user, commits)
    BY <2>0, <2>3, LawfulIsLawfulIn DEF ChainTells, Tells
  <2>. QED
    BY <1>2, <2>0, <2>3, <2>4, OthersKeep, OwnChange
<1>. QED
  BY <1>1, <1>2, CommitKinds

-----------------------------------------------------------------------------
\* Every commit is in a message, in a handler's hands, or known to be lost.
InHand(c) == \E h \in Handlers : handler[h].pc = "publish" /\ handler[h].body = c
Accounted == \A c \in Committed : c \in Range(bodies) \cup unpublished \/ InHand(c)

(* What a handler had to publish was published, lost, or is still there.    *)
LEMMA BodyGoesOn ==
    ASSUME Inv, [Next]_vars, NEW c, InHand(c)
    PROVE  c \in Range(bodies') \cup unpublished' \/ InHand(c)'
<1>1. PICK h \in Handlers : handler[h].pc = "publish" /\ handler[h].body = c
  BY DEF InHand
<1>2. handler \in [Handlers -> HandlerStates] /\ bodies \in Seq(Body) /\ c \in Body
  BY <1>1, HandlerFacts DEF Inv, TypeInv, TypeOK
<1>3. CASE handler'[h] = handler[h]
  BY <1>1, <1>3 DEF InHand
<1>4. CASE Publish(h)
  <2>1. bodies' = Append(bodies, c)
    BY <1>1, <1>4 DEF Publish
  <2>2. Len(bodies) + 1 \in DOMAIN bodies' /\ bodies'[Len(bodies) + 1] = c
    BY <1>2, <2>1
  <2>. QED
    BY <2>2 DEF Range
<1>5. CASE PublishLost(h) \/ PublishError(h) \/ Crash
  BY <1>1, <1>5 DEF PublishLost, PublishError, Crash
<1>6. ASSUME NEW g \in Handlers, Receive(g) \/ Serve(g), handler'[h] # handler[h]
      PROVE  Publish(h)
  BY <1>1, <1>2, <1>6 DEF Receive, Serve, BeginCreate, BeginPatch, BeginAdminPatch, Arrives,
     Insert, Update, Publish, Proceed, Idle
<1>7. HandlerFailure /\ handler'[h] # handler[h] => PublishLost(h) \/ PublishError(h)
  BY <1>1, <1>2 DEF HandlerFailure, StoreError, PublishLost, PublishError, Proceed
<1>8. LoadDashboard \/ Work \/ WorkerFailure \/ QueueEvent \/ UNCHANGED vars => handler' = handler
  BY DEF LoadDashboard, Work, WorkerTake, QueryAll, StoreAll, UpdateStats, IssueRCON,
         Answered, EmailDecision, EmailToOps, Assign, WorkerAck, WorkerNack, NotifyClose,
         WorkerFailure, CacheError, RefusedRCON, RCONError, Hang, EmailDecisionError,
         AssignError, QueueEvent, Push, Reconnect, Drop, TTL, vars, svars
<1>. QED
  BY <1>3, <1>4, <1>5, <1>6, <1>7, <1>8, Kinds

(* Messages and losses are for good.                                       *)
LEMMA MessagesStay ==
    ASSUME Inv, [Next]_vars
    PROVE  Range(bodies) \subseteq Range(bodies') /\ unpublished \subseteq unpublished'
<1>1. bodies \in Seq(Body) /\ DOMAIN bodies = Tasks /\ DOMAIN bodies' = Tasks'
      /\ Tasks \subseteq Tasks' /\ \A t \in Tasks : bodies'[t] = bodies[t]
  BY BodiesStep DEF Inv, TypeInv, TypeOK, Tasks
<1>2. Range(bodies) \subseteq Range(bodies')
  BY <1>1 DEF Range
<1>3. \A h \in Handlers : Receive(h) \/ Serve(h) => unpublished' = unpublished
  BY DEF Receive, Serve, BeginCreate, BeginPatch, BeginAdminPatch, Insert, Update, Publish
<1>4. HandlerFailure \/ Crash => unpublished \subseteq unpublished'
  BY DEF HandlerFailure, StoreError, PublishLost, PublishError, Crash
<1>5. LoadDashboard \/ Work \/ WorkerFailure \/ QueueEvent \/ UNCHANGED vars
      => unpublished' = unpublished
  BY DEF LoadDashboard, Work, WorkerTake, QueryAll, StoreAll, UpdateStats, IssueRCON,
         Answered, EmailDecision, EmailToOps, Assign, WorkerAck, WorkerNack, NotifyClose,
         WorkerFailure, CacheError, RefusedRCON, RCONError, Hang, EmailDecisionError,
         AssignError, QueueEvent, Push, Reconnect, Drop, TTL, vars, svars
<1>. QED
  BY <1>2, <1>3, <1>4, <1>5, Kinds

(* A stored change is put into the hands of a handler, and from there it    *)
(* goes on.                                                                *)
LEMMA AccountedStep == Inv /\ Accounted /\ [Next]_vars => Accounted'
<1>. SUFFICES ASSUME Inv, Accounted, [Next]_vars, NEW c \in Committed'
              PROVE  c \in Range(bodies') \cup unpublished' \/ InHand(c)'
  BY DEF Accounted
<1>1. commits \in Seq(Body) /\ handler \in [Handlers -> HandlerStates]
  BY DEF Inv, TypeInv, TypeOK
<1>2. CASE c \in Committed
  BY <1>2, MessagesStay, BodyGoesOn DEF Accounted
<1>3. ASSUME NEW b, commits' = Append(commits, b), c \notin Committed
      PROVE  c = b
  BY <1>1, <1>3 DEF Committed, Range
<1>4. ASSUME NEW h \in Handlers, NEW id \in ReqIds, Insert(h, id), c \notin Committed
      PROVE  InHand(c)'
  <2>. DEFINE b == BodyOf(id, handler[h].username, "Pending", Nobody)
  <2>1. commits' = Append(commits, b) /\ Proceed(h, [pc |-> "publish", body |-> b])
    BY <1>4 DEF Insert
  <2>. HIDE DEF b
  <2>2. handler'[h] = [pc |-> "publish", body |-> c]
    BY <1>1, <1>3, <1>4, <2>1 DEF Proceed
  <2>. QED
    BY <2>2 DEF InHand
<1>5. ASSUME NEW h \in Handlers, Update(h), c \notin Committed
      PROVE  InHand(c)'
  <2>. DEFINE job == handler[h]
              b == BodyOf(job.id, requests[job.id].username, job.status, job.admin)
  <2>1. commits' = Append(commits, b) /\ Proceed(h, [pc |-> "publish", body |-> b])
    BY <1>5 DEF Update
  <2>. HIDE DEF b
  <2>2. handler'[h] = [pc |-> "publish", body |-> c]
    BY <1>1, <1>3, <1>5, <2>1 DEF Proceed
  <2>. QED
    BY <2>2 DEF InHand
<1>6. commits' = commits => c \in Committed
  BY DEF Committed
<1>7. Assign => commits' = commits
  BY DEF Assign, svars
<1>. QED
  BY <1>2, <1>4, <1>5, <1>6, <1>7, RequestsWritten

-----------------------------------------------------------------------------
\* The tasks that switch the whitelist entry of a player, and what one leaves.
Switching == {"Approved", "Deactivated"}
Switches(user) == {t \in Tasks : bodies[t].username = user /\ bodies[t].status \in Switching}
LeftBy(t) == bodies[t].username \in whitelist <=> bodies[t].status = "Approved"

\* No task of the player was dead-lettered.
NoneDead(user) == \A t \in dead : bodies[t].username # user

\* No command about the player was refused.
NoneRefused(user) == \A t \in refused : bodies[t].username # user

\* The whitelist entry of a player with neither is as a task left it that is as
\* late as every acknowledged one.
WhitelistFollows ==
    \A user \in Usernames : NoneDead(user) /\ NoneRefused(user) =>
       \/ user \notin whitelist /\ acked \cap Switches(user) = {}
       \/ \E t \in Switches(user) : LeftBy(t) /\ \A k \in acked \cap Switches(user) : k <= t

\* After its command, unless that was refused, the worker goes on with the
\* whitelist as its task left it.
JustSwitched ==
    step \in {"mail", "ack"} /\ Task.status \in Switching /\ taken \notin refused => LeftBy(taken)

\* Bans come from tasks, and those that were carried out stay.
BansFollow ==
    /\ \A user \in bans : Banished(user, bodies)
    /\ \A t \in executed \ refused : bodies[t].status = "Banned" => bodies[t].username \in bans

\* What the worker did on the way from tasks to the game server.
Carried == HeldNotAcked /\ AckedFirst /\ WhitelistFollows /\ JustSwitched /\ BansFollow

(* What is known of tasks that exist when a step is taken.                  *)
LEMMA TasksStay ==
    ASSUME Inv, [Next]_vars
    PROVE  /\ published \in Nat /\ Tasks = 1..published /\ Tasks \subseteq Tasks'
           /\ bodies \in Seq(Body) /\ DOMAIN bodies = Tasks
           /\ \A t \in Tasks : bodies'[t] = bodies[t]
           /\ acked \subseteq Tasks /\ dead \subseteq Tasks /\ executed \subseteq Tasks
           /\ dead \subseteq dead' /\ refused \subseteq Tasks /\ refused \subseteq refused'
           /\ taken # NoTask => taken \in Tasks
           /\ step # "idle" => taken # NoTask
<1>1. /\ TypeOK /\ QTypeOK /\ HeldAreTasks
  BY DEF Inv, TypeInv, TypeOK
<1>2. Tasks \subseteq Tasks' /\ \A t \in Tasks : bodies'[t] = bodies[t]
  BY BodiesStep DEF Inv
<1>3. dead \subseteq dead'
  BY UsesQueue DEF QNext, Enqueue, Deliver, Take, Ack, Nack, LoseConnection, Reopen, Expire,
     Restart, qvars
<1>. QED
  BY <1>1, <1>2, <1>3, HistoryGrows DEF TypeOK, QTypeOK, HeldAreTasks, Tasks

(* The only steps that touch the whitelist, acknowledge, or are refused.    *)
LEMMA WhitelistWritten ==
    ASSUME [Next]_vars
    PROVE  \/ UNCHANGED <<whitelist, bans, acked, executed, refused>>
           \/ /\ step = "rcon" /\ Command(Task) /\ UNCHANGED <<acked, refused>>
              /\ executed' = executed \/ executed' = executed \cup {taken}
           \/ /\ step = "rcon" /\ UNCHANGED <<whitelist, bans, acked>>
              /\ executed' = executed \cup {taken} /\ refused' = refused \cup {taken}
           \/ /\ step = "ack" /\ UNCHANGED <<whitelist, bans, executed, refused>>
              /\ acked' \subseteq acked \cup {taken}
<1>1. Work => \/ UNCHANGED <<whitelist, bans, acked, executed, refused>>
              \/ /\ step = "rcon" /\ Command(Task) /\ UNCHANGED <<acked, refused>>
                 /\ executed' = executed \cup {taken}
              \/ /\ step = "ack" /\ UNCHANGED <<whitelist, bans, executed, refused>>
                 /\ acked' \subseteq acked \cup {taken}
  BY DEF Work, WorkerTake, QueryAll, StoreAll, UpdateStats, IssueRCON, Answered,
         EmailDecision, EmailToOps, Assign, WorkerAck, WorkerNack, NotifyClose, qvars, Take,
         Ack, Nack
<1>2. WorkerFailure =>
         \/ UNCHANGED <<whitelist, bans, acked, executed, refused>>
         \/ step = "rcon" /\ Command(Task) /\ UNCHANGED <<acked, executed, refused>>
         \/ /\ step = "rcon" /\ UNCHANGED <<whitelist, bans, acked>>
            /\ executed' = executed \cup {taken} /\ refused' = refused \cup {taken}
  BY DEF WorkerFailure, CacheError, RefusedRCON, Answered, RCONError, Hang,
         EmailDecisionError, AssignError, qvars
<1>3. Crash => UNCHANGED <<whitelist, bans, acked, executed, refused>>
  BY DEF Crash, Restart
<1>. QED
  BY <1>1, <1>2, <1>3, WorkerWritten DEF wdone

(* A player's task in the worker's hands is later than all that were        *)
(* acknowledged.                                                           *)
LEMMA TakenIsLatest ==
    ASSUME Inv, HeldNotAcked, AckedFirst, taken # NoTask, NoneDead(Task.username)
    PROVE  \A k \in acked : k < taken
<1>1. taken \in Tasks /\ taken \notin acked
  BY TaskFacts DEF Inv, HeldNotAcked
<1>2. taken \notin dead
  BY DEF NoneDead, Task
<1>. QED
  BY <1>1, <1>2 DEF AckedFirst, Settled

(* The whitelist keeps following the tasks: a command makes its task the    *)
(* one to follow, an Ack comes only for that one, and no task that comes    *)
(* again is older than one that was acknowledged.                           *)
LEMMA WhitelistFollowsStep == Inv /\ Carried /\ [Next]_vars => WhitelistFollows'
<1>. SUFFICES ASSUME Inv, Carried, [Next]_vars, NEW user \in Usernames,
                     NoneDead(user)', NoneRefused(user)'
              PROVE  \/ user \notin whitelist' /\ acked' \cap Switches(user)' = {}
                     \/ \E t \in Switches(user)' :
                           LeftBy(t)' /\ \A k \in acked' \cap Switches(user)' : k <= t
  BY DEF WhitelistFollows
<1>1. /\ published \in Nat /\ Tasks = 1..published /\ Tasks \subseteq Tasks'
      /\ \A t \in Tasks : bodies'[t] = bodies[t]
      /\ acked \subseteq Tasks /\ dead \subseteq Tasks /\ dead \subseteq dead'
      /\ refused \subseteq Tasks /\ refused \subseteq refused'
      /\ taken # NoTask => taken \in Tasks
      /\ step # "idle" => taken # NoTask
  BY TasksStay
<1>2. NoneDead(user) /\ NoneRefused(user)
  BY <1>1 DEF NoneDead, NoneRefused
<1>3. \A t \in Tasks : t \in Switches(user)' <=> t \in Switches(user)
  BY <1>1 DEF Switches
<1>4. Switches(user) \subseteq Tasks
  BY DEF Switches
<1>5. \A t \in Switches(user) : LeftBy(t)' <=> (user \in whitelist' <=> bodies[t].status = "Approved")
  BY <1>1 DEF Switches, LeftBy
<1>6. ASSUME user \in whitelist' <=> user \in whitelist,
             acked' \cap Switches(user)' = acked \cap Switches(user)
      PROVE  \/ user \notin whitelist' /\ acked' \cap Switches(user)' = {}
             \/ \E t \in Switches(user)' :
                   LeftBy(t)' /\ \A k \in acked' \cap Switches(user)' : k <= t
  <2>1. CASE user \notin whitelist /\ acked \cap Switches(user) = {}
    BY <1>6, <2>1
  <2>2. ASSUME NEW t \in Switches(user), LeftBy(t), \A k \in acked \cap Switches(user) : k <= t
        PROVE  t \in Switches(user)' /\ LeftBy(t)' /\ \A k \in acked' \cap Switches(user)' : k <= t
    <3>1. user \in whitelist <=> bodies[t].status = "Approved"
      BY <2>2 DEF LeftBy, Switches
    <3>. QED
      BY <1>3, <1>4, <1>5, <1>6, <2>2, <3>1
  <2>. QED
    BY <1>2, <2>1, <2>2 DEF Carried, WhitelistFollows
<1>7. ASSUME taken \in Switches(user), taken # NoTask, acked' \subseteq acked \cup {taken},
             user \in whitelist' <=> bodies[taken].status = "Approved"
      PROVE  \E t \in Switches(user)' :
                LeftBy(t)' /\ \A k \in acked' \cap Switches(user)' : k <= t
  <2>1. PICK t : t = taken
    OBVIOUS
  <2>2. \A k \in acked : k < t
    BY <1>2, <1>7, <2>1, TakenIsLatest DEF Carried, Switches, Task
  <2>3. t \in Switches(user)' /\ LeftBy(t)'
    BY <1>3, <1>4, <1>5, <1>7, <2>1
  <2>4. \A k \in acked' : k <= t
    BY <1>1, <1>4, <1>7, <2>1, <2>2
  <2>. QED
    BY <2>3, <2>4
<1>8. CASE UNCHANGED <<whitelist, bans, acked>>
  BY <1>1, <1>3, <1>4, <1>6, <1>8
<1>9. CASE step = "rcon" /\ Command(Task) /\ acked' = acked
  <2>1. taken \in Tasks
    BY <1>1, <1>9
  <2>2. CASE taken \in Switches(user)
    <3>1. Task.username = user /\ Task.status \in Switching
      BY <2>2 DEF Switches, Task
    <3>2. user \in whitelist' <=> Task.status = "Approved"
      BY <1>9, <3>1 DEF Command, Switching
    <3>. QED
      BY <1>1, <1>7, <1>9, <2>2, <3>2 DEF Task
  <2>3. CASE taken \notin Switches(user)
    <3>1. Task.username # user \/ Task.status \notin Switching
      BY <2>1, <2>3 DEF Switches, Task
    <3>2. user \in whitelist' <=> user \in whitelist
      BY <1>9, <3>1 DEF Command, Switching
    <3>. QED
      BY <1>1, <1>3, <1>4, <1>6, <1>9, <3>2
  <2>. QED
    BY <2>2, <2>3
<1>10. CASE /\ step = "ack" /\ UNCHANGED <<whitelist, bans, executed, refused>>
            /\ acked' \subseteq acked \cup {taken}
  <2>0. acked \subseteq acked'
    BY UsesQueue DEF QNext, Enqueue, Deliver, Take, Ack, Nack, LoseConnection, Reopen, Expire,
       Restart, qvars
  <2>1. taken \in Tasks
    BY <1>1, <1>10
  <2>2. CASE taken \in Switches(user)
    <3>1. Task.username = user /\ Task.status \in Switching /\ taken \notin refused
      BY <1>2, <2>2 DEF Switches, Task, NoneRefused
    <3>2. user \in whitelist' <=> Task.status = "Approved"
      BY <1>10, <3>1 DEF Carried, JustSwitched, LeftBy, Task
    <3>. QED
      BY <1>1, <1>7, <1>10, <2>2, <3>2 DEF Task
  <2>3. CASE taken \notin Switches(user)
    BY <1>1, <1>3, <1>4, <1>6, <1>10, <2>0, <2>1, <2>3
  <2>. QED
    BY <2>2, <2>3
<1>. QED
  BY <1>8, <1>9, <1>10, WhitelistWritten

(* Only an answered command leads on to the mail and the Ack of a task that *)
(* has one.                                                                *)
LEMMA JustSwitchedStep == Inv /\ JustSwitched /\ [Next]_vars => JustSwitched'
<1>. SUFFICES ASSUME Inv, JustSwitched, [Next]_vars,
                     step' \in {"mail", "ack"}, Task'.status \in Switching, taken' \notin refused'
              PROVE  LeftBy(taken)'
  BY DEF JustSwitched
<1>1. /\ \A t \in Tasks : bodies'[t] = bodies[t]
      /\ taken # NoTask => taken \in Tasks
      /\ step # "idle" => taken # NoTask
      /\ refused \subseteq refused'
      /\ Progress /\ TypeInv
  BY TasksStay DEF Inv
<1>2. taken # NoTask /\ taken' = taken => Task' = Task /\ Task.status \in Statuses
  BY <1>1, TaskFacts DEF Task
<1>3. CASE UNCHANGED wdone
  BY <1>1, <1>2, <1>3 DEF JustSwitched, LeftBy, Task, wdone
<1>4. CASE UpdateStats
  <2>1. step = "stats" /\ taken' = taken /\ step' = FirstStep(Task.status)
    BY <1>4 DEF UpdateStats, qvars
  <2>. QED
    BY <1>1, <1>2, <2>1 DEF FirstStep, Switching, Statuses
<1>5. CASE IssueRCON
  <2>1. step = "rcon" /\ taken' = taken /\ Command(Task)
    BY <1>5 DEF IssueRCON, Answered, qvars
  <2>2. Task.username \in whitelist' <=> Task.status = "Approved"
    BY <1>1, <1>2, <2>1 DEF Command, Switching
  <2>. QED
    BY <1>1, <1>2, <2>1, <2>2 DEF LeftBy, Task
<1>6. CASE step = "mail" /\ taken' = taken /\ whitelist' = whitelist
  BY <1>1, <1>2, <1>6 DEF JustSwitched, LeftBy, Task
<1>7. CASE step = "assign" /\ taken' = taken
  BY <1>1, <1>2, <1>7 DEF Progress, Switching
<1>8. Work => \/ UpdateStats
              \/ IssueRCON
              \/ step = "mail" /\ taken' = taken /\ whitelist' = whitelist
              \/ step = "assign" /\ taken' = taken
              \/ UNCHANGED wdone
  BY DEF Work, WorkerTake, QueryAll, StoreAll, EmailDecision,
     EmailToOps, Assign, WorkerAck, WorkerNack, NotifyClose, wdone, qvars
<1>9. WorkerFailure => \/ step = "mail" /\ taken' = taken /\ whitelist' = whitelist
                       \/ step = "assign" /\ taken' = taken
  BY DEF WorkerFailure, CacheError, RefusedRCON, Answered, RCONError, Hang,
         EmailDecisionError, AssignError, qvars
<1>10. ~Crash
  BY DEF Crash
<1>. QED
  BY <1>3, <1>4, <1>5, <1>6, <1>7, <1>8, <1>9, <1>10, WorkerWritten

(* A ban command is for a task that says so, and nothing lifts a ban.       *)
LEMMA BansFollowStep == Inv /\ BansFollow /\ [Next]_vars => BansFollow'
<1>. SUFFICES ASSUME Inv, BansFollow, [Next]_vars PROVE BansFollow'
  OBVIOUS
<1>1. /\ \A t \in Tasks : bodies'[t] = bodies[t]
      /\ DOMAIN bodies = Tasks /\ Tasks \subseteq Tasks' /\ DOMAIN bodies' = Tasks'
      /\ executed \subseteq Tasks
      /\ taken # NoTask => taken \in Tasks
      /\ step # "idle" => taken # NoTask
  BY TasksStay, BodiesStep DEF Inv, Tasks
<1>2. \A user : Banished(user, bodies) => Banished(user, bodies')
  BY <1>1 DEF Banished
<1>3. CASE /\ UNCHANGED bans
           /\ \/ UNCHANGED <<executed, refused>>
              \/ executed' = executed \cup {taken} /\ refused' = refused \cup {taken}
  <2>1. \A user \in bans' : Banished(user, bodies')
    BY <1>2, <1>3 DEF BansFollow
  <2>2. executed' \ refused' \subseteq executed \ refused
    BY <1>3
  <2>3. \A t \in executed' \ refused' : bodies'[t].status = "Banned" => bodies'[t].username \in bans'
    BY <1>1, <1>3, <2>2 DEF BansFollow
  <2>. QED
    BY <2>1, <2>3 DEF BansFollow
<1>4. CASE /\ step = "rcon" /\ Command(Task) /\ UNCHANGED refused
           /\ executed' = executed \/ executed' = executed \cup {taken}
  <2>1. taken \in Tasks /\ bodies[taken] = Task
    BY <1>1, <1>4 DEF Task
  <2>2. bans' = IF Task.status = "Banned" THEN bans \cup {Task.username} ELSE bans
    BY <1>4 DEF Command
  <2>3. Task.status = "Banned" => Banished(Task.username, bodies)
    BY <1>1, <2>1 DEF Banished
  <2>4. \A user \in bans' : Banished(user, bodies')
    BY <1>2, <2>2, <2>3 DEF BansFollow
  <2>5. \A t \in executed' \ refused' : bodies'[t].status = "Banned" => bodies'[t].username \in bans'
    BY <1>1, <1>4, <2>1, <2>2 DEF BansFollow
  <2>. QED
    BY <2>4, <2>5 DEF BansFollow
<1>. QED
  BY <1>3, <1>4, WhitelistWritten

\* The invariant that carries a change from MongoDB to the game server.
Agreement == Inv /\ StoredLast /\ ChainTells /\ Accounted /\ Carried

(* It holds where nothing was stored yet ...                                *)
LEMMA AgreementInit == Init => Agreement
<1>. SUFFICES ASSUME Init PROVE Agreement
  OBVIOUS
<1>1. Inv
  BY InvInit
<1>2. /\ commits = <<>> /\ DOMAIN commits = {} /\ Committed = {} /\ Created = {}
      /\ bodies = <<>> /\ Tasks = {} /\ inbox = <<>> /\ taken = NoTask
      /\ acked = {} /\ dead = {} /\ whitelist = {} /\ bans = {} /\ executed = {} /\ refused = {}
      /\ step = "idle"
  BY DEF Init, QInit, Tasks, Committed, Range, Created, NoDocuments
<1>3. StoredLast /\ Accounted
  BY <1>2 DEF StoredLast, Accounted
<1>4. ChainTells
  BY <1>2 DEF ChainTells, Tells, Admitted, Banished, Matching
<1>5. HeldNotAcked /\ AckedFirst
  BY <1>2 DEF HeldNotAcked, AckedFirst
<1>6. WhitelistFollows /\ JustSwitched /\ BansFollow
  BY <1>2 DEF WhitelistFollows, JustSwitched, BansFollow
<1>. QED
  BY <1>1, <1>3, <1>4, <1>5, <1>6 DEF Agreement, Carried

(* ... and every step keeps it.                                            *)
LEMMA AgreementStep == Agreement /\ [Next]_vars => Agreement'
<1>1. Inv => QInv
  BY DEF Inv, TypeInv
<1>2. Inv /\ Carried /\ [Next]_vars => HeldNotAcked' /\ AckedFirst'
  BY <1>1, UsesQueue, HeldNotAckedStep, AckedFirstStep DEF Carried
<1>3. Inv /\ Carried /\ [Next]_vars => JustSwitched' /\ BansFollow'
  BY JustSwitchedStep, BansFollowStep DEF Carried
<1>4. Inv /\ Carried /\ [Next]_vars => Carried'
  BY <1>2, <1>3, WhitelistFollowsStep DEF Carried
<1>. QED
  BY <1>4, InvStep, StoredLastStep, ChainTellsStep, AccountedStep DEF Agreement

(* What the messages of a player leave is what the player's commits leave,  *)
(* when none is missing and all are in order.                               *)
LEMMA MessagesTell ==
    ASSUME Agreement, NEW user, Undisturbed(user), \A h \in Handlers : handler[h] = Idle
    PROVE  /\ Admitted(user, bodies) <=> Admitted(user, commits)
           /\ Banished(user, bodies) <=> Banished(user, commits)
<1>1. \A i \in DOMAIN bodies : \E k \in DOMAIN commits : bodies[i] = commits[k]
  <2>1. DOMAIN bodies = Tasks /\ BodiesStored
    BY DEF Agreement, Inv, TypeInv, TypeOK, Tasks
  <2>. QED
    BY <2>1 DEF BodiesStored, Committed, Range
<1>2. \A k \in DOMAIN commits : commits[k].username = user => \E i \in DOMAIN bodies : bodies[i] = commits[k]
  <2>1. \A c \in Committed : ~InHand(c)
    BY DEF InHand, Idle
  <2>2. \A c \in Committed : c.username = user => c \in Range(bodies)
    BY <2>1 DEF Agreement, Accounted, Undisturbed
  <2>. QED
    BY <2>2 DEF Committed, Range
<1>3. /\ bodies \in Seq(Body) /\ commits \in Seq(Body)
      /\ DOMAIN bodies = 1..Len(bodies) /\ Len(bodies) \in Nat
      /\ DOMAIN commits = 1..Len(commits) /\ Len(commits) \in Nat
  BY DEF Agreement, Inv, TypeInv, TypeOK
<1>4. /\ \A i, j \in DOMAIN bodies : ~(i < j /\ j < i)
      /\ \A k, l \in DOMAIN commits : k < l \/ l < k \/ k = l
  BY <1>3
<1>5. \A k, l \in DOMAIN commits : \A i, j \in DOMAIN bodies :
         k < l /\ commits[k].username = user /\ bodies[i] = commits[k] /\ bodies[j] = commits[l]
         => i < j
  BY DEF Undisturbed, InOrder
<1>6. ASSUME Admitted(user, commits) PROVE Admitted(user, bodies)
  <2>1. PICK k \in DOMAIN commits :
          /\ commits[k].username = user /\ commits[k].status = "Approved"
          /\ \A l \in DOMAIN commits :
                k < l /\ commits[l].username = user => commits[l].status # "Deactivated"
    BY <1>6 DEF Admitted
  <2>2. PICK i \in DOMAIN bodies : bodies[i] = commits[k]
    BY <1>2, <2>1
  <2>3. ASSUME NEW j \in DOMAIN bodies, i < j, bodies[j].username = user,
               bodies[j].status = "Deactivated"
        PROVE  FALSE
    <3>1. PICK l \in DOMAIN commits : bodies[j] = commits[l]
      BY <1>1
    <3>2. l < k
      BY <1>4, <2>1, <2>3, <3>1
    <3>3. j < i
      BY <1>5, <2>2, <2>3, <3>1, <3>2
    <3>. QED
      BY <1>4, <2>3, <3>3
  <2>. QED
    BY <2>1, <2>2, <2>3 DEF Admitted
<1>7. ASSUME Admitted(user, bodies) PROVE Admitted(user, commits)
  <2>1. PICK i \in DOMAIN bodies :
          /\ bodies[i].username = user /\ bodies[i].status = "Approved"
          /\ \A j \in DOMAIN bodies :
                i < j /\ bodies[j].username = user => bodies[j].status # "Deactivated"
    BY <1>7 DEF Admitted
  <2>2. PICK k \in DOMAIN commits : bodies[i] = commits[k]
    BY <1>1
  <2>3. ASSUME NEW l \in DOMAIN commits, k < l, commits[l].username = user,
               commits[l].status = "Deactivated"
        PROVE  FALSE
    <3>1. PICK j \in DOMAIN bodies : bodies[j] = commits[l]
      BY <1>2, <2>3
    <3>2. i < j
      BY <1>5, <2>1, <2>2, <2>3, <3>1
    <3>. QED
      BY <2>1, <2>3, <3>1, <3>2
  <2>. QED
    BY <2>1, <2>2, <2>3 DEF Admitted
<1>8. Banished(user, bodies) <=> Banished(user, commits)
  BY <1>1, <1>2 DEF Banished
<1>. QED
  BY <1>6, <1>7, <1>8

(* When every task is settled, and none of the player's was dead-lettered   *)
(* or refused, the game server is as the messages leave it.                 *)
LEMMA ServerTells ==
    ASSUME Agreement, NEW user \in Usernames, NoneDead(user), NoneRefused(user), Settled = Tasks
    PROVE  /\ user \in whitelist <=> Admitted(user, bodies)
           /\ user \in bans <=> Banished(user, bodies)
<1>1. /\ DOMAIN bodies = Tasks /\ Tasks = 1..published /\ published \in Nat
      /\ executed \subseteq Tasks
  BY DEF Agreement, Inv, TypeInv, TypeOK, QTypeOK, Tasks
<1>2. \A t \in Tasks : bodies[t].username = user => t \in acked
  BY DEF Settled, NoneDead
<1>3. Switches(user) \subseteq acked
  BY <1>2 DEF Switches
<1>4. user \in whitelist <=> Admitted(user, bodies)
  <2>1. CASE user \notin whitelist /\ acked \cap Switches(user) = {}
    <3>1. Switches(user) = {}
      BY <1>3, <2>1
    <3>. QED
      BY <1>1, <2>1, <3>1 DEF Admitted, Switches, Switching
  <2>2. ASSUME NEW t \in Switches(user), LeftBy(t), \A k \in acked \cap Switches(user) : k <= t
        PROVE  user \in whitelist <=> Admitted(user, bodies)
    <3>1. /\ t \in Tasks /\ bodies[t].username = user
          /\ bodies[t].status = "Approved" \/ bodies[t].status = "Deactivated"
          /\ user \in whitelist <=> bodies[t].status = "Approved"
      BY <2>2 DEF Switches, Switching, LeftBy
    <3>2. \A k \in Tasks : bodies[k].username = user /\ bodies[k].status \in Switching => ~(t < k)
      BY <1>1, <1>3, <2>2, <3>1 DEF Switches
    <3>3. CASE bodies[t].status = "Approved"
      BY <1>1, <3>1, <3>2, <3>3 DEF Admitted, Switching
    <3>4. CASE bodies[t].status = "Deactivated"
      <4>1. ASSUME NEW i \in Tasks, bodies[i].username = user, bodies[i].status = "Approved"
            PROVE  i < t
        <5>1. ~(t < i) /\ i # t
          BY <3>2, <3>4, <4>1 DEF Switching
        <5>. QED
          BY <1>1, <3>1, <5>1
      <4>2. ~Admitted(user, bodies)
        BY <1>1, <3>1, <3>4, <4>1 DEF Admitted
      <4>. QED
        BY <3>1, <3>4, <4>2
    <3>. QED
      BY <3>1, <3>3, <3>4
  <2>. QED
    BY <2>1, <2>2 DEF Agreement, Carried, WhitelistFollows
<1>5. user \in bans <=> Banished(user, bodies)
  <2>1. \A t \in acked : bodies[t].status = "Banned" => t \in executed
    BY DEF Agreement, Inv, AckedWasDone, Done
  <2>2. Banished(user, bodies) => user \in bans
    BY <1>1, <1>2, <2>1 DEF Banished, NoneRefused, Agreement, Carried, BansFollow
  <2>. QED
    BY <2>2 DEF Agreement, Carried, BansFollow
<1>. QED
  BY <1>4, <1>5

(* At rest the game server agrees with MongoDB about every player who was   *)
(* not disturbed: none of whose tasks was lost or dead-lettered and none of *)
(* whose commands refused, and whose changes were lawful and published in   *)
(* order.  It does however often the connection was lost, a command         *)
(* repeated or the server restarted on the way.                             *)
THEOREM Agrees == Spec => []GameServerAgrees
<1>1. Spec => []Agreement
  BY AgreementInit, AgreementStep, PTL DEF Spec
<1>2. Agreement => GameServerAgrees
  <2>1. SUFFICES ASSUME Agreement, AtRest, NEW user \in Usernames, Undisturbed(user)
                 PROVE  /\ user \in whitelist <=> Matching(user, {"Approved", "Banned"}) # {}
                        /\ user \in bans <=> Matching(user, {"Banned"}) # {}
    BY DEF GameServerAgrees
  <2>2. /\ Admitted(user, bodies) <=> Admitted(user, commits)
        /\ Banished(user, bodies) <=> Banished(user, commits)
    BY <2>1, MessagesTell DEF AtRest
  <2>3. /\ user \in whitelist <=> Admitted(user, bodies)
        /\ user \in bans <=> Banished(user, bodies)
    BY <2>1, ServerTells DEF AtRest, Undisturbed, NoneDead, NoneRefused
  <2>4. Tells(user, commits)
    BY <2>1 DEF Agreement, ChainTells, Undisturbed
  <2>. QED
    BY <2>2, <2>3, <2>4 DEF Tells
<1>. QED
  BY <1>1, <1>2, PTL
=============================================================================
