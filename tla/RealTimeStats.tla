---------------------------- MODULE RealTimeStats ----------------------------
(***************************************************************************)
(* The counters on the dashboard: Redis hash "Stats", written by the       *)
(* worker's UpdateRealTimeStats once per task, by the aggregator every     *)
(* minute, and recounted from MongoDB by SyncStats when the server starts. *)
(* Handlers store a change and publish it afterwards, or fail to; the      *)
(* tasks come through TaskQueue, redeliveries included.  The cards and     *)
(* graphs of the metrics page are functions of the hash.                   *)
(***************************************************************************)
EXTENDS TaskQueue, Integers, FiniteSets

CONSTANTS ReqIds,      \* whitelist requests
          Gender, Age, \* of each request's applicant
          Handlers,    \* HTTP requests that may change something at a time
          MaxTasks,    \* bound on changes
          MaxFaults    \* bound on failures of the environment

ASSUME StatsAssumption == /\ IsFiniteSet(Handlers)
                          /\ MaxTasks \in Nat
                          /\ MaxFaults \in Nat

VARIABLES status,      \* MongoDB: status of each request, or "None"
          handler,     \* the change that each handler has yet to store or to publish
          news,        \* each task's message: the request and its status
          hash,        \* Redis: the counters, and the response-time total
          step,        \* the worker: "idle", "get", "watch", "exec", "ack"
          read,        \* the counters getStats returned
          attempt,     \* n of the retry loop
          infinite,    \* Redis: averageResponseTimeInMinutes is +Inf
          touched,     \* someone wrote the hash since the worker's WATCH
          faults,      \* failures so far
          skipped,     \* history: a change was not counted since the last SyncStats
          twice,       \* history: a change may have been counted twice
          astray       \* history: a status was stored that does not follow the one
                       \*   before, since the last SyncStats

hvars == <<status, handler, astray>>
stvars == <<hvars, news, hash, infinite, step, read, attempt, touched,
            faults, skipped, twice>>
vars == <<qvars, stvars>>

maxRetry == 5

ageGroupStep == 15

Counters == {"pending", "approved", "denied", "banned", "deactivated"}
Genders == {"maleCount", "femaleCount", "otherGenderCount"}
AgeGroups == {"ageGroup1Count", "ageGroup2Count", "ageGroup3Count", "ageGroup4Count"}
Fields == Counters \cup Genders \cup AgeGroups \cup {"total"}

\* Redis reads a missing field as 0; every decided request took one time unit.
Empty == [c \in Fields |-> 0]

Idle == [pc |-> "idle"]

Init == /\ QInit
        /\ status = [r \in ReqIds |-> "None"]
        /\ handler = [h \in Handlers |-> Idle]
        /\ astray = FALSE
        /\ news = <<>>
        /\ hash = Empty
        /\ step = "idle"
        /\ read = Empty
        /\ attempt = 0
        /\ infinite = FALSE
        /\ touched = FALSE
        /\ faults = 0
        /\ skipped = FALSE
        /\ twice = FALSE

Fault == faults < MaxFaults /\ faults' = faults + 1

Successors == [None        |-> {"Pending"},
               Pending     |-> {"Approved", "Denied"},
               Approved    |-> {"Deactivated", "Banned"},
               Denied      |-> {},
               Deactivated |-> {},
               Banned      |-> {}]

Counter == [Pending |-> "pending", Approved |-> "approved", Denied |-> "denied",
            Banned |-> "banned", Deactivated |-> "deactivated"]

-----------------------------------------------------------------------------
(* The handlers, and the dashboards that call them.                        *)

Arrives(h) == /\ handler[h] = Idle
              /\ published + Cardinality({g \in Handlers : handler[g] # Idle}) < MaxTasks

Proceed(h, next) == handler' = [handler EXCEPT ![h] = next]

\* HandleCreateRequest inserts a document, with a new _id.
Create(h, r) ==
    /\ Arrives(h)
    /\ status[r] = "None"
    /\ status' = [status EXCEPT ![r] = "Pending"]
    /\ Proceed(h, [pc |-> "publish", id |-> r, status |-> "Pending"])
    /\ UNCHANGED <<qvars, news, hash, infinite, step, read, attempt, touched,
                   faults, skipped, twice, astray>>

\* HandlePatchRequestByID has checked the status, or a dashboard has loaded
\* the row with whose buttons the request will be decided: its handler looks
\* at no status.
Decide(h, r, new) ==
    /\ Arrives(h)
    /\ status[r] # "None" /\ new \in Successors[status[r]]
    /\ Proceed(h, [pc |-> "update", id |-> r, status |-> new])
    /\ UNCHANGED <<qvars, status, news, hash, infinite, step, read, attempt, touched,
                   faults, skipped, twice, astray>>

\* updateRequestByID stores the status, whatever has been stored meanwhile.
Store(h) ==
    /\ handler[h].pc = "update"
    /\ status' = [status EXCEPT ![handler[h].id] = handler[h].status]
    /\ astray' = (astray \/ handler[h].status \notin Successors[status[handler[h].id]])
    /\ Proceed(h, [handler[h] EXCEPT !.pc = "publish"])
    /\ UNCHANGED <<qvars, news, hash, infinite, step, read, attempt, touched,
                   faults, skipped, twice>>

\* FindOneAndUpdate fails.
StoreError(h) ==
    /\ handler[h].pc = "update"
    /\ Fault
    /\ Proceed(h, Idle)
    /\ UNCHANGED <<qvars, status, news, hash, infinite, step, read, attempt, touched,
                   skipped, twice, astray>>

Publish(h) ==
    /\ handler[h].pc = "publish"
    /\ Enqueue
    /\ news' = Append(news, [id |-> handler[h].id, status |-> handler[h].status])
    /\ Proceed(h, Idle)
    /\ UNCHANGED <<status, hash, infinite, step, read, attempt, touched,
                   faults, skipped, twice, astray>>

\* broker.Publish gives up, or returns nil for a message that never arrives;
\* the change stays in MongoDB and is never counted.
Unpublished(h) ==
    /\ handler[h].pc = "publish"
    /\ Fault
    /\ skipped' = TRUE
    /\ Proceed(h, Idle)
    /\ UNCHANGED <<qvars, status, news, hash, infinite, step, read, attempt, touched,
                   twice, astray>>

Serve(h) == \/ \E r \in ReqIds : Create(h, r)
            \/ \E r \in ReqIds, new \in DOMAIN Counter : Decide(h, r, new)
            \/ Store(h) \/ StoreError(h) \/ Publish(h) \/ Unpublished(h)

-----------------------------------------------------------------------------
(* The worker: updateCache, then the rest of the task.                     *)
Begin == /\ Take
         /\ step' = "get"
         /\ attempt' = 1
         /\ UNCHANGED <<hvars, news, hash, infinite, read, touched, faults, skipped, twice>>

GetStats == /\ step = "get"
            /\ read' = hash
            /\ step' = "watch"
            /\ UNCHANGED <<qvars, hvars, news, hash, infinite, attempt, touched, faults, skipped, twice>>

\* WATCH comes after the read and on another connection.
Watch == /\ step = "watch"
         /\ step' = "exec"
         /\ UNCHANGED <<qvars, hvars, news, hash, infinite, read, attempt, touched, faults,
                        skipped, twice>>

\* The gender and the age group a request is counted under.
GenderCount(r) == CASE Gender[r] = "male" -> "maleCount"
                    [] Gender[r] = "female" -> "femaleCount"
                    [] OTHER -> "otherGenderCount"

AgeGroupCount(r) ==
    CASE Age[r] \in 0 .. ageGroupStep - 1 -> "ageGroup1Count"
      [] Age[r] \in ageGroupStep .. 2 * ageGroupStep - 1 -> "ageGroup2Count"
      [] Age[r] \in 2 * ageGroupStep .. 3 * ageGroupStep - 1 -> "ageGroup3Count"
      [] OTHER -> "ageGroup4Count"

\* The counters of the players who are whitelisted.
Whitelisted(r) == {"approved", GenderCount(r), AgeGroupCount(r)}

\* Mutant: a ban leaves the gender and the age group alone.
RaisedLoweredByBan(task) ==
    CASE task.status = "Approved" -> [by |-> Whitelisted(task.id) \cup {"total"}, less |-> {"pending"}]
      [] task.status = "Denied" -> [by |-> {"denied", "total"}, less |-> {"pending"}]
      [] task.status = "Pending" -> [by |-> {"pending"}, less |-> {}]
      [] task.status = "Banned" -> [by |-> {"banned"}, less |-> {"approved"}]
      [] OTHER -> [by |-> {"deactivated"}, less |-> Whitelisted(task.id)]

\* The fields HMSET writes for a task: one more, one less than was read.
RaisedLowered(task) ==
    CASE task.status = "Approved" -> [by |-> Whitelisted(task.id) \cup {"total"}, less |-> {"pending"}]
      [] task.status = "Denied" -> [by |-> {"denied", "total"}, less |-> {"pending"}]
      [] task.status = "Pending" -> [by |-> {"pending"}, less |-> {}]
      [] task.status = "Banned" -> [by |-> {"banned"}, less |-> Whitelisted(task.id)]
      [] OTHER -> [by |-> {"deactivated"}, less |-> Whitelisted(task.id)]

Counted(old, task) ==
    LET change == RaisedLowered(task) IN
    [c \in Fields |-> CASE c \in change.by -> old[c] + 1
                        [] c \in change.less -> old[c] - 1
                        [] OTHER -> old[c]]

\* What the total is divided by.
Decided(h) == h["approved"] + h["denied"] + h["banned"] + h["deactivated"]

\* MULTI, HMSET, EXEC with the hash untouched since WATCH
HMSet == /\ hash' = Counted(read, news[taken])
         /\ infinite' = IF hash'["total"] = 0 THEN infinite ELSE Decided(hash') = 0

\* UpdateRealTimeStats returns to updateCache, which goes on in any case.
Return == /\ step' = "ack"
          /\ read' = Empty
          /\ attempt' = 0
          /\ touched' = FALSE

\* The next turn of the retry loop.
Again == /\ step' = "get"
         /\ read' = Empty
         /\ attempt' = attempt + 1
         /\ touched' = FALSE

Exec == /\ step = "exec"
        /\ ~touched
        /\ HMSet
        /\ Return
        /\ UNCHANGED <<qvars, hvars, news, faults, skipped, twice>>

\* Mutant: the retry loop runs once too often.
ExecNilOnceMore == /\ step = "exec"
                   /\ touched
                   /\ IF attempt <= maxRetry THEN Again ELSE Return
                   /\ skipped' = (skipped \/ attempt > maxRetry)
                   /\ UNCHANGED <<qvars, hvars, news, hash, infinite, faults, twice>>

\* Mutant: the nil reply of EXEC is taken for success.
ExecNilAccepted == /\ step = "exec"
                   /\ touched
                   /\ Return
                   /\ UNCHANGED <<qvars, hvars, news, hash, infinite, faults, skipped, twice>>

\* EXEC answers nil: sleep and start over, at most maxRetry times.
ExecNil == /\ step = "exec"
           /\ touched
           /\ IF attempt < maxRetry THEN Again ELSE Return
           /\ skipped' = (skipped \/ attempt = maxRetry)
           /\ UNCHANGED <<qvars, hvars, news, hash, infinite, faults, twice>>

\* A Redis command fails, the EXEC perhaps after it was carried out;
\* updateCache logs it and goes on.
RedisError == /\ step \in {"get", "watch", "exec"}
              /\ Fault
              /\ \/ step = "exec" /\ ~touched /\ HMSet
                 \/ UNCHANGED <<hash, infinite>>
              /\ Return
              /\ skipped' = TRUE
              /\ UNCHANGED <<qvars, hvars, news, twice>>

\* process* ends, whichever way; here only the counting matters.
Finish == /\ step = "ack"
          /\ Ack \/ Nack
          /\ step' = "idle"
          /\ twice' = (twice \/ link = "lost")
          /\ UNCHANGED <<hvars, news, hash, infinite, read, attempt, touched, faults, skipped>>

-----------------------------------------------------------------------------
\* UpdateAggregateStats: HMSET of the one field "AggregateStats", which only
\* somebody who watches the hash can notice.
Tick == /\ touched' = (step = "exec")
        /\ UNCHANGED <<qvars, hvars, news, hash, infinite, step, read, attempt, faults, skipped, twice>>

Push == Deliver /\ UNCHANGED stvars

Drop == /\ LoseConnection
        /\ Fault
        /\ UNCHANGED <<hvars, news, hash, infinite, step, read, attempt, touched, skipped, twice>>

Reconnect == Reopen /\ UNCHANGED stvars

\* A task that expires is never counted.
TTL == /\ Expire
       /\ Fault
       /\ skipped' = TRUE
       /\ UNCHANGED <<hvars, news, hash, infinite, step, read, attempt, touched, twice>>

\* SyncStats counts the requests by their status, and the approved ones by
\* gender and age, and writes the counters, except that of the deactivated
\* ones: it goes to a field "Deactivated" that ScanStruct does not know.
Number(new) == Cardinality({r \in ReqIds : status[r] = new})

SyncStats(old) ==
    [c \in Fields |->
       CASE c = "deactivated" -> old[c]
         [] c = "total" -> Cardinality({r \in ReqIds : status[r] \notin {"None", "Pending"}})
         [] c \in Genders \cup AgeGroups ->
              Cardinality({r \in ReqIds : status[r] = "Approved" /\ c \in Whitelisted(r)})
         [] OTHER -> Number(CHOOSE s \in DOMAIN Counter : Counter[s] = c)]

\* The server restarts, with its Redis or with an empty one.  The handlers are
\* gone with what they had yet to publish; the dashboards keep their rows.
Boot == /\ Fault
        /\ Restart
        /\ handler' = [h \in Handlers |-> IF handler[h].pc = "publish" THEN Idle ELSE handler[h]]
        /\ astray' = FALSE
        /\ \E old \in {hash, Empty} : hash' = SyncStats(old)
        /\ infinite' = FALSE
        /\ step' = "idle"
        /\ read' = Empty
        /\ attempt' = 0
        /\ touched' = FALSE
        /\ skipped' = FALSE
        /\ twice' = (Settled # Tasks)
        /\ UNCHANGED <<status, news>>

Next == \/ \E h \in Handlers : Serve(h)
        \/ Begin \/ GetStats \/ Watch \/ Exec \/ ExecNil \/ RedisError \/ Finish
        \/ Tick \/ Push \/ Drop \/ Reconnect \/ TTL \/ Boot

Spec == Init /\ [][Next]_vars

-----------------------------------------------------------------------------
(* The metrics page, as a function of the stats it was sent last.          *)

\* getStatsCards
Cards(stats) == [Pending |-> stats["pending"], Approved |-> stats["approved"],
                 Banned |-> stats["banned"]]

\* getGraphs: "Insufficient data" without a whitelisted player
GraphsShown(stats) == stats["approved"] # 0

StatusGraph(stats) == [Pending |-> stats["pending"], Approved |-> stats["approved"],
                       Denied |-> stats["denied"], Deactivated |-> stats["deactivated"],
                       Banned |-> stats["banned"]]

GenderGraph(stats) ==
    <<stats["maleCount"], stats["femaleCount"], stats["otherGenderCount"]>>

AgeGraph(stats) == <<stats["ageGroup1Count"], stats["ageGroup2Count"],
                     stats["ageGroup3Count"], stats["ageGroup4Count"]>>

-----------------------------------------------------------------------------
TypeOK == /\ QTypeOK
          /\ status \in [ReqIds -> DOMAIN Successors]
          /\ handler \in [Handlers -> {Idle} \cup [pc : {"update", "publish"}, id : ReqIds,
                                                 status : DOMAIN Counter]]
          /\ news \in Seq([id : ReqIds, status : DOMAIN Counter]) /\ Len(news) = published
          /\ hash \in [Fields -> Int]
          /\ read \in [Fields -> Int]
          /\ step \in {"idle", "get", "watch", "exec", "ack"}
          /\ attempt \in 0..maxRetry
          /\ infinite \in BOOLEAN
          /\ touched \in BOOLEAN
          /\ skipped \in BOOLEAN
          /\ twice \in BOOLEAN
          /\ astray \in BOOLEAN
          /\ faults \in 0..MaxFaults

Sending == {h \in Handlers : handler[h].pc = "publish"}

Quiet == Sending = {} /\ Settled = Tasks /\ taken = NoTask

InStep(c) == \A s \in DOMAIN Counter : Counter[s] = c => hash[c] = Number(s)

(* The aggregator writes the hash in the middle of the worker's             *)
(* transaction, which then starts over; no change is counted twice or       *)
(* dropped on the way, and it does not matter in which order changes were   *)
(* published.  The counters of an idle server are the numbers of requests   *)
(* in MongoDB if, since the last start, each change was published, each     *)
(* task was carried out once, and no decision was stored over another that  *)
(* it did not know of; a restart of an idle server repairs them if not.     *)
CountersAgree ==
    Quiet /\ ~skipped /\ ~twice /\ ~astray =>
       \A c \in {"pending", "approved", "denied", "banned"} : InStep(c)

(* The graphs of the metrics page tell one story: the slices of the gender  *)
(* ring and of the age ring each add up to the whitelisted players on the   *)
(* card and the bar, also when a task was counted twice or not at all, when *)
(* the worker lost the race for the hash, or when SyncStats counted anew.   *)
GraphsAddUp ==
    GraphsShown(hash) =>
       LET g == GenderGraph(hash) a == AgeGraph(hash) IN
       /\ g[1] + g[2] + g[3] = Cards(hash).Approved
       /\ a[1] + a[2] + a[3] + a[4] = StatusGraph(hash).Approved

(* "After a successful update, broadcast the new stats to clients"          *)
(* (cache.go:313): the stats can be broadcast, that is, the average is a    *)
(* number json.Marshal accepts.                                             *)
StatsCanBeSent == ~infinite
=============================================================================
