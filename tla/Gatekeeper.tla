----------------------------- MODULE Gatekeeper -----------------------------
(***************************************************************************)
(* The server of mc-gatekeeper: HTTP handlers that check and change the    *)
(* request documents and publish a task per change, and one worker that    *)
(* turns tasks into game-server commands, mails and assignees.             *)
(*                                                                         *)
(*   players, ops, dashboard --> handlers --> MongoDB (RequestStore)       *)
(*                                   |                    ^                *)
(*                                   v                    |                *)
(*                          RabbitMQ (TaskQueue) -----> worker --> RCON,   *)
(*                                                        |        SMTP    *)
(*                                                        v                *)
(*                                                 Redis AllRequests       *)
(***************************************************************************)
EXTENDS RequestStore, TaskQueue, FiniteSets

CONSTANTS Handlers,     \* HTTP requests the server may be serving at a time
          Targets,      \* ops mailed per application: all (Broadcast) or
                        \*   randomDispatchingThreshold of them (Random)
          Quorum,       \* minRequiredReceiver
          MaxCommits,   \* bound: no HTTP request arrives after so many changes
          MaxFaults     \* bound on failures of the environment

ASSUME GatekeeperAssumption ==
    /\ IsFiniteSet(Ops)
    /\ Targets \in 0..Cardinality(Ops)        \* validateConfig
    /\ Quorum \in Nat
    /\ MaxCommits \in Nat
    /\ MaxFaults \in Nat

VARIABLES handler,      \* what each handler has yet to do
          bodies,       \* the message body of each task
          step,         \* where the worker is in process*
          snapshot,     \* what UpdateAllRequests read from MongoDB
          received,     \* emailToOps: ops whose mail was sent
          cache,        \* Redis "AllRequests"
          seen,         \* the rows the dashboard shows
          whitelist,    \* game server: whitelisted usernames
          bans,         \* game server: banned usernames
          mailed,       \* <<request, op>>: action mails delivered
          notified,     \* tasks whose decision mail was sent
          executed,     \* tasks whose game-server command was answered
          refused,      \* history: those of them the game server did not carry out
          stuck,        \* the worker waits for something that never comes
          heard,        \* NotifyClose is registered on the worker's connection
          commits,      \* every insert and decision, in MongoDB's order
          unpublished,  \* changes whose task never reached RabbitMQ
          faults        \* failures so far

svars == <<handler, seen, commits, unpublished>>
waits == <<stuck, heard>>
wvars == <<step, snapshot, received, cache, whitelist, bans, mailed, notified, executed,
           refused, waits>>
vars == <<requests, qvars, bodies, svars, wvars, faults>>

Idle == [pc |-> "idle"]

Body == [id : ReqIds, username : Usernames, status : Statuses,
         admin : Ops \cup {Admin, Nobody}]

\* The document as UpdateRequest returns it and Publish serializes it.
BodyOf(id, username, status, admin) ==
    [id |-> id, username |-> username, status |-> status, admin |-> admin]

Decisions == {"Approved", "Denied"}

\* Buttons on a dashboard row (Table.js) that shows the given status.
Offered(status) == CASE status = "Pending"  -> Decisions
                     [] status = "Approved" -> {"Deactivated", "Banned"}
                     [] OTHER               -> {}

NoView == [id \in {} |-> "Pending"]

Init == /\ requests = NoDocuments
        /\ QInit
        /\ handler = [h \in Handlers |-> Idle]
        /\ bodies = <<>>
        /\ step = "idle"
        /\ snapshot = NoView
        /\ received = {}
        /\ cache = NoView
        /\ seen = NoView
        /\ whitelist = {}
        /\ bans = {}
        /\ mailed = {}
        /\ notified = {}
        /\ executed = {}
        /\ refused = {}
        /\ stuck = FALSE
        /\ heard = TRUE
        /\ commits = <<>>
        /\ unpublished = {}
        /\ faults = 0

Fault == /\ faults < MaxFaults
         /\ faults' = faults + 1

-----------------------------------------------------------------------------
(* HTTP handlers.  Each one checks, writes and publishes in three steps    *)
(* that interleave with those of the other handlers and of the worker.     *)

Arrives(h) == handler[h] = Idle /\ Len(commits) < MaxCommits

Proceed(h, next) == handler' = [handler EXCEPT ![h] = next]

\* Bound: an ObjectID is left for every handler that is about to insert.
IdsLeft == Cardinality(Created) + Cardinality({h \in Handlers : handler[h].pc = "insert"})
             < Cardinality(ReqIds)

\* HandleCreateRequest up to validateCreateRequest; a refusal changes nothing.
BeginCreate(h, user) ==
    /\ Arrives(h)
    /\ IdsLeft
    /\ Matching(user, Blocking) = {}
    /\ Proceed(h, [pc |-> "insert", username |-> user])
    /\ UNCHANGED <<requests, qvars, bodies, seen, commits, unpublished, wvars, faults>>

Insert(h, id) ==
    /\ handler[h].pc = "insert"
    /\ id \notin Created
    /\ LET body == BodyOf(id, handler[h].username, "Pending", Nobody)
       IN /\ CreateRequest(id, body.username)
          /\ commits' = Append(commits, body)
          /\ Proceed(h, [pc |-> "publish", body |-> body])
    /\ UNCHANGED <<qvars, bodies, seen, unpublished, wvars, faults>>

\* verifyMatchingTokens: the request exists and was assigned to the op.
TokensMatch(id, op) == id \in Created /\ op \in requests[id].assignees

\* Mutant: any op's token opens any request.
BeginPatchAnyOp(h, op, id, status) ==
    /\ Arrives(h)
    /\ id \in Created
    /\ requests[id].status = "Pending"
    /\ Proceed(h, [pc |-> "update", id |-> id, status |-> status, admin |-> op])
    /\ UNCHANGED <<requests, qvars, bodies, seen, commits, unpublished, wvars, faults>>

\* HandlePatchRequestByID: matching tokens, then the status check.
BeginPatch(h, op, id, status) ==
    /\ Arrives(h)
    /\ TokensMatch(id, op)
    /\ requests[id].status = "Pending"
    /\ Proceed(h, [pc |-> "update", id |-> id, status |-> status, admin |-> op])
    /\ UNCHANGED <<requests, qvars, bodies, seen, commits, unpublished, wvars, faults>>

\* HandleInternalPatchRequestByID: the request only has to exist.
BeginAdminPatch(h, id, status) ==
    /\ Arrives(h)
    /\ id \in DOMAIN seen
    /\ status \in Offered(seen[id])
    /\ id \in Created
    /\ Proceed(h, [pc |-> "update", id |-> id, status |-> status, admin |-> Admin])
    /\ UNCHANGED <<requests, qvars, bodies, seen, commits, unpublished, wvars, faults>>

\* updateRequestByID, as far as UpdateRequest.
Update(h) ==
    /\ handler[h].pc = "update"
    /\ LET job  == handler[h]
           body == BodyOf(job.id, requests[job.id].username, job.status, job.admin)
       IN /\ SetDecision(job.id, job.status, job.admin)
          /\ commits' = Append(commits, body)
          /\ Proceed(h, [pc |-> "publish", body |-> body])
    /\ UNCHANGED <<qvars, bodies, seen, unpublished, wvars, faults>>

\* Mutant: no return after a failed UpdateRequest.
StoreErrorGoesOn(h) ==
    /\ handler[h].pc = "update"
    /\ Fault
    /\ LET job == handler[h]
       IN Proceed(h, [pc |-> "publish",
                      body |-> BodyOf(job.id, requests[job.id].username, job.status, job.admin)])
    /\ UNCHANGED <<requests, qvars, bodies, seen, commits, unpublished, wvars>>

\* InsertOne or FindOneAndUpdate fails: 500.
StoreError(h) ==
    /\ handler[h].pc \in {"insert", "update"}
    /\ Fault
    /\ Proceed(h, Idle)
    /\ UNCHANGED <<requests, qvars, bodies, seen, commits, unpublished, wvars>>

\* The success response of the dashboard's own PATCH updates its row
\* (onStatusChange of Table.js); other responses change no view.
RowChanged(body) ==
    seen' = IF body.admin = Admin /\ body.id \in DOMAIN seen
            THEN [seen EXCEPT ![body.id] = body.status]
            ELSE seen

\* broker.Publish returns nil and RabbitMQ has the message.
Publish(h) ==
    /\ handler[h].pc = "publish"
    /\ Enqueue
    /\ bodies' = Append(bodies, handler[h].body)
    /\ RowChanged(handler[h].body)
    /\ Proceed(h, Idle)
    /\ UNCHANGED <<requests, commits, unpublished, wvars, faults>>

\* broker.Publish returns nil for a message that never arrives: the channel
\* is not in confirm mode.
PublishLost(h) ==
    /\ handler[h].pc = "publish"
    /\ Fault
    /\ unpublished' = unpublished \cup {handler[h].body}
    /\ RowChanged(handler[h].body)
    /\ Proceed(h, Idle)
    /\ UNCHANGED <<requests, qvars, bodies, commits, wvars>>

\* All three attempts of broker.Publish fail: 500, and MongoDB keeps the change.
PublishError(h) ==
    /\ handler[h].pc = "publish"
    /\ Fault
    /\ unpublished' = unpublished \cup {handler[h].body}
    /\ Proceed(h, Idle)
    /\ UNCHANGED <<requests, qvars, bodies, seen, commits, wvars>>

\* HandleGetRequests: the cached list, or MongoDB's when Redis does not answer
\* (which is not counted as a fault).
LoadDashboard ==
    /\ seen' \in {cache, AllStatuses}
    /\ UNCHANGED <<requests, qvars, bodies, handler, commits, unpublished, wvars, faults>>

-----------------------------------------------------------------------------
(* The worker: one goroutine, one delivery at a time.                      *)

Task == bodies[taken]

\* Mutant: an approval is announced before anything is done about it.
FirstStepMail(status) == CASE status = "Pending" -> "dispatch"
                           [] status \in Decisions -> "mail"
                           [] OTHER -> "rcon"

\* The first step of process* after updateCache.  The confirmation mail that
\* precedes the dispatch is sent or not, and nothing depends on it.
FirstStep(status) == CASE status = "Pending" -> "dispatch"
                       [] status = "Denied"  -> "mail"
                       [] OTHER              -> "rcon"

WorkerTake ==
    /\ heard \/ link = "lost"
    /\ Take
    /\ step' = "query"
    /\ UNCHANGED <<requests, bodies, svars, waits, snapshot, received, cache,
                   whitelist, bans, refused, mailed, notified, executed, faults>>

\* UpdateAllRequests reads MongoDB ...
QueryAll ==
    /\ step = "query"
    /\ snapshot' = AllStatuses
    /\ step' = "store"
    /\ UNCHANGED <<requests, qvars, bodies, svars, waits, received, cache,
                   whitelist, bans, refused, mailed, notified, executed, faults>>

\* ... and overwrites the cached list with what it read.
StoreAll ==
    /\ step = "store"
    /\ cache' = snapshot
    /\ snapshot' = NoView
    /\ step' = "stats"
    /\ UNCHANGED <<requests, qvars, bodies, svars, waits, received,
                   whitelist, bans, refused, mailed, notified, executed, faults>>

\* MongoDB or Redis fails; updateCache is best effort.
CacheError ==
    /\ step \in {"query", "store"}
    /\ Fault
    /\ snapshot' = NoView
    /\ step' = "stats"
    /\ UNCHANGED <<requests, qvars, bodies, svars, waits, received, cache,
                   whitelist, bans, refused, mailed, notified, executed>>

\* UpdateRealTimeStats (module RealTimeStats), which succeeds or not and ends
\* with the broadcast, once Listen receives it.
UpdateStats ==
    /\ step = "stats" /\ ~stuck
    /\ step' = FirstStep(Task.status)
    /\ UNCHANGED <<requests, qvars, bodies, svars, waits, snapshot, received, cache,
                   whitelist, bans, refused, mailed, notified, executed, faults>>

\* What a command does to the game server: "whitelist add", "whitelist
\* remove" or "ban".  A ban leaves the whitelist alone.
Command(body) ==
    /\ whitelist' = CASE body.status = "Approved"    -> whitelist \cup {body.username}
                      [] body.status = "Deactivated" -> whitelist \ {body.username}
                      [] OTHER                       -> whitelist
    /\ bans' = IF body.status = "Banned" THEN bans \cup {body.username} ELSE bans

\* processApproval, processBan, processDeactivate: issueRCON returns nil.
Answered ==
    /\ step = "rcon" /\ ~stuck
    /\ executed' = executed \cup {taken}
    /\ step' = IF Task.status = "Approved" THEN "mail" ELSE "ack"
    /\ UNCHANGED <<requests, qvars, bodies, svars, waits, snapshot, received, cache,
                   mailed, notified>>

IssueRCON == Answered /\ Command(Task) /\ UNCHANGED <<refused, faults>>

\* The game server answers that it did not do it ("Could not ..."): nobody
\* reads the text, so issueRCON returns nil as well.
RefusedRCON ==
    /\ Answered
    /\ Fault
    /\ refused' = refused \cup {taken}
    /\ UNCHANGED <<whitelist, bans>>

\* Mutants: processApproval goes on after the error; it returns without Nack.
RCONErrorAcks ==
    /\ step = "rcon" /\ ~stuck
    /\ Fault
    /\ Command(Task) \/ UNCHANGED <<whitelist, bans>>
    /\ step' = "ack"
    /\ UNCHANGED <<requests, qvars, bodies, svars, waits, snapshot, received, cache,
                   refused, mailed, notified, executed>>


\* issueRCON returns an error, whether or not a command got through.
RCONError ==
    /\ step = "rcon" /\ ~stuck
    /\ Fault
    /\ Command(Task) \/ UNCHANGED <<whitelist, bans>>
    /\ step' = "nack"
    /\ UNCHANGED <<requests, qvars, bodies, svars, waits, snapshot, received, cache,
                   refused, mailed, notified, executed>>

\* The worker waits without end: in the broadcast, because Listen waits for
\* itself (module SseBroker); in SendCommand, because the game server is
\* silent and the read has no deadline, whether or not it got the command.
Hang ==
    /\ step \in {"stats", "rcon"} /\ ~stuck
    /\ Fault
    /\ stuck' = TRUE
    /\ \/ step = "rcon" /\ Command(Task)
       \/ UNCHANGED <<whitelist, bans>>
    /\ UNCHANGED <<requests, qvars, bodies, svars, heard, step, snapshot, received, cache,
                   refused, mailed, notified, executed>>

\* emailDecision; processApproval and processDenial ignore its result.
EmailDecision ==
    /\ step = "mail"
    /\ notified' = notified \cup {taken}
    /\ step' = "ack"
    /\ UNCHANGED <<requests, qvars, bodies, svars, waits, snapshot, received, cache,
                   whitelist, bans, refused, mailed, executed, faults>>

EmailDecisionError ==
    /\ step = "mail"
    /\ Fault
    /\ step' = "ack"
    /\ UNCHANGED <<requests, qvars, bodies, svars, waits, snapshot, received, cache,
                   whitelist, bans, refused, mailed, notified, executed>>

\* getTargetOps
TargetOps == {S \in SUBSET Ops : Cardinality(S) = Targets}

\* emailToOps, the mails: each target that could be reached has its link.
EmailToOps ==
    /\ step = "dispatch"
    /\ \E targets \in TargetOps : \E reached \in SUBSET targets :
         /\ received' = reached
         /\ mailed' = mailed \cup {<<Task.id, op>> : op \in reached}
         /\ IF reached = targets THEN UNCHANGED faults ELSE Fault
    /\ step' = "assign"
    /\ UNCHANGED <<requests, qvars, bodies, svars, waits, snapshot, cache,
                   whitelist, bans, refused, notified, executed>>

Verdict == IF Cardinality(received) >= Quorum THEN "ack" ELSE "nack"

\* Mutant: the worker stores its whole copy of the document.
AssignWholeDocument ==
    /\ step = "assign"
    /\ IF received = {}
       THEN UNCHANGED requests
       ELSE requests' = [requests EXCEPT ![Task.id].assignees = received,
                                         ![Task.id].status = Task.status,
                                         ![Task.id].admin = Task.admin]
    /\ step' = Verdict
    /\ received' = {}
    /\ UNCHANGED <<qvars, bodies, svars, waits, snapshot, cache,
                   whitelist, bans, refused, mailed, notified, executed, faults>>

\* emailToOps, the document: the reached ops become the assignees.
Assign ==
    /\ step = "assign"
    /\ IF received = {} THEN UNCHANGED requests
                        ELSE SetAssignees(Task.id, received)
    /\ step' = Verdict
    /\ received' = {}
    /\ UNCHANGED <<qvars, bodies, svars, waits, snapshot, cache,
                   whitelist, bans, refused, mailed, notified, executed, faults>>

\* MongoDB refuses the assignees; emailToOps only logs it.
AssignError ==
    /\ step = "assign"
    /\ received # {}
    /\ Fault
    /\ step' = Verdict
    /\ received' = {}
    /\ UNCHANGED <<requests, qvars, bodies, svars, waits, snapshot, cache,
                   whitelist, bans, refused, mailed, notified, executed>>

WorkerAck ==
    /\ step = "ack"
    /\ Ack
    /\ step' = "idle"
    /\ UNCHANGED <<requests, bodies, svars, waits, snapshot, received, cache,
                   whitelist, bans, refused, mailed, notified, executed, faults>>

WorkerNack ==
    /\ step = "nack"
    /\ Nack
    /\ step' = "idle"
    /\ UNCHANGED <<requests, bodies, svars, waits, snapshot, received, cache,
                   whitelist, bans, refused, mailed, notified, executed, faults>>

-----------------------------------------------------------------------------
(* RabbitMQ and its connections.                                           *)

Push == Deliver /\ UNCHANGED <<requests, bodies, svars, wvars, faults>>

Drop == LoseConnection /\ Fault /\ UNCHANGED <<requests, bodies, svars, wvars>>

\* reconnect, as far as updateDeliveryChannel ...
Reconnect ==
    /\ heard
    /\ Reopen
    /\ heard' = FALSE
    /\ UNCHANGED <<requests, bodies, svars, stuck, step, snapshot, received, cache,
                   whitelist, bans, refused, mailed, notified, executed, faults>>

\* ... and its last line.  On a connection that was lost in between it comes
\* too late: the loss is never reported.
NotifyClose ==
    /\ ~heard
    /\ link = "up"
    /\ heard' = TRUE
    /\ UNCHANGED <<requests, qvars, bodies, svars, stuck, step, snapshot, received, cache,
                   whitelist, bans, refused, mailed, notified, executed, faults>>

TTL == Expire /\ Fault /\ UNCHANGED <<requests, bodies, svars, wvars>>

\* Mutant: the worker starts where it was.
CrashKeepsStep ==
    /\ Fault
    /\ Restart
    /\ unpublished' = unpublished \cup
         {handler[h].body : h \in {g \in Handlers : handler[g].pc = "publish"}}
    /\ handler' = [h \in Handlers |-> Idle]
    /\ received' = {}
    /\ snapshot' = NoView
    /\ cache' = AllStatuses
    /\ stuck' = FALSE
    /\ heard' = TRUE
    /\ UNCHANGED <<step, requests, bodies, seen, commits,
                   whitelist, bans, refused, mailed, notified, executed>>

\* The process ends and main runs again: the handlers are gone with what they
\* had yet to publish, and SyncStats fills the cache from MongoDB before the
\* new worker starts.
Crash ==
    /\ Fault
    /\ Restart
    /\ unpublished' = unpublished \cup
         {handler[h].body : h \in {g \in Handlers : handler[g].pc = "publish"}}
    /\ handler' = [h \in Handlers |-> Idle]
    /\ step' = "idle"
    /\ received' = {}
    /\ snapshot' = NoView
    /\ cache' = AllStatuses
    /\ stuck' = FALSE
    /\ heard' = TRUE
    /\ UNCHANGED <<requests, bodies, seen, commits,
                   whitelist, bans, refused, mailed, notified, executed>>

-----------------------------------------------------------------------------
Serve(h) == \/ \E id \in ReqIds : Insert(h, id)
            \/ Update(h)
            \/ Publish(h)

Receive(h) == \/ \E user \in Usernames : BeginCreate(h, user)
              \/ \E op \in Ops, id \in ReqIds, status \in Decisions :
                    BeginPatch(h, op, id, status)
              \/ \E id \in ReqIds, status \in Statuses : BeginAdminPatch(h, id, status)

Work == \/ WorkerTake \/ QueryAll \/ StoreAll \/ UpdateStats \/ IssueRCON \/ EmailDecision
        \/ EmailToOps \/ Assign \/ WorkerAck \/ WorkerNack \/ NotifyClose

Environment == \/ \E h \in Handlers : StoreError(h) \/ PublishLost(h) \/ PublishError(h)
               \/ CacheError \/ RefusedRCON \/ RCONError \/ Hang
               \/ EmailDecisionError \/ AssignError
               \/ Drop \/ TTL \/ Crash

Next == \/ \E h \in Handlers : Receive(h) \/ Serve(h)
        \/ LoadDashboard
        \/ Work
        \/ Push
        \/ Reconnect
        \/ Environment

Spec == Init /\ [][Next]_vars

\* Goroutines run, RabbitMQ delivers, and a lost connection that is heard of is
\* reopened (or the process is Fatal and restarted, which is a Crash).  A
\* worker that hangs hangs.  Nobody has to apply, decide or look at the
\* dashboard.
Fairness == /\ \A h \in Handlers : WF_vars(Serve(h))
            /\ WF_vars(Work)
            /\ WF_vars(Push)
            /\ WF_vars(Reconnect)

FairSpec == Spec /\ Fairness

-----------------------------------------------------------------------------
(* Properties.                                                             *)

HandlerStates ==
    {Idle}
    \cup [pc : {"insert"}, username : Usernames]
    \cup [pc : {"update"}, id : ReqIds, status : Statuses, admin : Ops \cup {Admin}]
    \cup [pc : {"publish"}, body : Body]

Steps == {"idle", "query", "store", "stats", "rcon", "mail", "dispatch", "assign", "ack", "nack"}

View(v) == DOMAIN v \subseteq Created /\ v \in [DOMAIN v -> Statuses]

(* Types, and the two facts that tie the queue to the worker: every task   *)
(* has a body, and the worker is between deliveries exactly when it holds  *)
(* none.                                                                   *)
TypeOK == /\ RequestsTypeOK
          /\ QTypeOK
          /\ bodies \in Seq(Body) /\ Len(bodies) = published
          /\ handler \in [Handlers -> HandlerStates]
          /\ step \in Steps /\ (step = "idle" <=> taken = NoTask)
          /\ View(snapshot) /\ View(cache) /\ View(seen)
          /\ received \subseteq Ops
          /\ whitelist \subseteq Usernames
          /\ bans \subseteq Usernames
          /\ mailed \subseteq ReqIds \X Ops
          /\ notified \subseteq Tasks
          /\ executed \subseteq Tasks
          /\ refused \subseteq executed
          /\ stuck \in BOOLEAN
          /\ heard \in BOOLEAN
          /\ commits \in Seq(Body)
          /\ unpublished \subseteq Body
          /\ faults \in 0..MaxFaults

Committed == Range(commits)

(* Nobody gets onto the whitelist, or onto the ban list, without a decision *)
(* of that kind having been stored for a request of theirs, whatever is     *)
(* redelivered, half done when the server crashes, or sent by the game      *)
(* server twice.                                                            *)
WhitelistJustified ==
    /\ \A user \in whitelist : \E body \in Committed :
          body.username = user /\ body.status = "Approved"
    /\ \A user \in bans : \E body \in Committed :
          body.username = user /\ body.status = "Banned"

(* A decision that came through an action link was made by an op to whom    *)
(* the worker had really mailed that request's link.                        *)
DecidersWereMailed ==
    \A body \in Committed : body.admin \in Ops => <<body.id, body.admin>> \in mailed

MailedOps(id) == {op \in Ops : <<id, op>> \in mailed}

\* What a task asks for has been done, by this attempt or an earlier one.
Done(t) ==
    /\ bodies[t].status \in {"Approved", "Banned", "Deactivated"} => t \in executed
    /\ bodies[t].status = "Pending" => Cardinality(MailedOps(bodies[t].id)) >= Quorum

(* Tasks are acknowledged only when done: the game-server command answered  *)
(* for an approval, a ban or a deactivation (with what, nobody looks), the  *)
(* action mail sent to a quorum of ops for a new application.  Redelivery   *)
(* after the loss of a half-done attempt is what makes this hold.           *)
AckedWasDone == \A t \in acked : Done(t)

(* An applicant is told of an approval only after the whitelist command was *)
(* answered, whichever attempt at the task sends the mail.                  *)
NotifiedWhenDone == \A t \in notified : bodies[t].status = "Approved" => t \in executed

(* No write of the worker, which holds an old copy of the document, takes a *)
(* decision away: the status of a request changes only with a new decision, *)
(* and never back to "Pending".                                             *)
DecisionsAreKept ==
    [][\A id \in Created :
         requests'[id].status # requests[id].status =>
            /\ requests'[id].status # "Pending"
            /\ \E body \in Body : /\ commits' = Append(commits, body)
                                 /\ body.id = id
                                 /\ body.status = requests'[id].status]_vars

AtRest == /\ \A h \in Handlers : handler[h] = Idle
          /\ Settled = Tasks
          /\ taken = NoTask

Lifecycle == {<<"Pending", "Approved">>, <<"Pending", "Denied">>,
              <<"Approved", "Deactivated">>, <<"Approved", "Banned">>}

\* A change of a user follows the one before as the code intends: a request is
\* decided along its life cycle (Table.js, the action page), and there is a new
\* one only after the last was denied or deactivated (validateCreateRequest).
Follows(last, next) ==
    IF last.id = next.id
    THEN <<last.status, next.status>> \in Lifecycle
    ELSE last.status \notin Blocking /\ next.status = "Pending"

Lawful(user) ==
    \A i, j \in DOMAIN commits :
       /\ i < j /\ commits[i].username = user /\ commits[j].username = user
       /\ \A k \in (i + 1)..(j - 1) : commits[k].username # user
       => Follows(commits[i], commits[j])

\* The user's changes were published in the order in which they were stored.
InOrder(user) ==
    \A k, l \in DOMAIN commits : \A i, j \in DOMAIN bodies :
       k < l /\ commits[k].username = user /\ bodies[i] = commits[k] /\ bodies[j] = commits[l]
       => i < j

\* What the code lets go wrong did not happen to this user.
Undisturbed(user) ==
    /\ \A body \in unpublished : body.username # user
    /\ \A t \in dead : bodies[t].username # user
    /\ \A t \in refused : bodies[t].username # user
    /\ Lawful(user)
    /\ InOrder(user)

(* When everything has been processed, the game server agrees with MongoDB  *)
(* about every user of whom no task was dead-lettered or lost, of whom it   *)
(* refused no command, who had one request at a time, decided along the     *)
(* life cycle, and whose changes were published in the order in which they  *)
(* were stored: whitelisted are those with an approved (or later banned)    *)
(* request, banned those with a banned one.  It survives lost connections,  *)
(* redelivered and repeated commands, and crashes.                          *)
GameServerAgrees ==
    AtRest => \A user \in Usernames : Undisturbed(user) =>
       /\ user \in whitelist <=> Matching(user, {"Approved", "Banned"}) # {}
       /\ user \in bans <=> Matching(user, {"Banned"}) # {}

(* "Whoever make decision first will resolve the application"              *)
(* (config_sample.yaml:28): an op's decision is final for the other ops.   *)
FirstDecisionResolves ==
    \A i, j \in DOMAIN commits :
       i < j /\ commits[i].id = commits[j].id /\ commits[i].admin \in Ops
       => commits[j].admin \notin Ops

\* What the code can wait for without end: see Hang, and NotifyClose.
Blocked == stuck \/ (link = "lost" /\ ~heard)

=============================================================================
