------------------------- MODULE RealTimeStatsProofs -------------------------
(***************************************************************************)
(* Proofs about RealTimeStats, for any requests and applicants and any     *)
(* number of changes, lost connections and restarts.                       *)
(***************************************************************************)
EXTENDS RealTimeStats, TaskQueueProofs, FiniteSetTheorems

-----------------------------------------------------------------------------
(* The counting uses the queue only through its operations.                *)

(* Every step of handlers, worker, aggregator and Redis is a step of the    *)
(* queue or leaves it alone.                                                *)
LEMMA UsesQueue == [Next]_vars => [QNext]_qvars
<1>. SUFFICES ASSUME [Next]_vars PROVE [QNext]_qvars
  OBVIOUS
<1>1. ASSUME NEW h \in Handlers, Serve(h) PROVE [QNext]_qvars
  BY <1>1 DEF Serve, Create, Decide, Store, StoreError, Publish, Unpublished, QNext
<1>2. CASE Begin \/ GetStats \/ Watch \/ Exec \/ ExecNil \/ RedisError \/ Finish
  BY <1>2 DEF Begin, GetStats, Watch, Exec, ExecNil, RedisError, Finish, QNext
<1>3. CASE Tick \/ Push \/ Drop \/ Reconnect \/ TTL \/ Boot
  BY <1>3 DEF Tick, Push, Drop, Reconnect, TTL, Boot, QNext
<1>4. CASE UNCHANGED vars
  BY <1>4 DEF vars
<1>. QED
  BY <1>1, <1>2, <1>3, <1>4 DEF Next

-----------------------------------------------------------------------------
(* Types.                                                                  *)

\* The requests in MongoDB.
Stored == {r \in ReqIds : status[r] # "None"}

\* The worker is between two tasks, or has one.
Busy == step = "idle" <=> taken = NoTask

TypeInv == TypeOK /\ QInv /\ HeldAreTasks /\ Busy /\ IsFiniteSet(Stored)

(* A restart writes numbers: the requests there are to count are finitely   *)
(* many, at any time.                                                       *)
LEMMA SyncStatsType ==
    ASSUME IsFiniteSet(Stored), NEW old \in [Fields -> Int]
    PROVE  SyncStats(old) \in [Fields -> Int]
<1>1. ASSUME NEW S \in SUBSET Stored PROVE Cardinality(S) \in Int
  BY FS_Subset, FS_CardinalityType, <1>1
<1>2. Cardinality({r \in ReqIds : status[r] \notin {"None", "Pending"}}) \in Int
  BY <1>1 DEF Stored
<1>3. ASSUME NEW c PROVE Cardinality({r \in ReqIds : status[r] = "Approved" /\ c \in Whitelisted(r)}) \in Int
  BY <1>1 DEF Stored
<1>4. ASSUME NEW s \in DOMAIN Counter PROVE Number(s) \in Int
  BY <1>1 DEF Stored, Number, Counter
<1>5. ASSUME NEW c \in Counters PROVE (CHOOSE s \in DOMAIN Counter : Counter[s] = c) \in DOMAIN Counter
  BY DEF Counters, Counter
<1>. QED
  BY <1>2, <1>3, <1>4, <1>5 DEF SyncStats, Fields, Genders, AgeGroups

(* HMSET writes numbers, too.                                               *)
LEMMA CountedType ==
    ASSUME NEW old \in [Fields -> Int], NEW task
    PROVE  Counted(old, task) \in [Fields -> Int]
<1>. DEFINE change == RaisedLowered(task)
<1>. HIDE DEF change
<1>. QED
  BY DEF Counted, change

LEMMA HMSetType ==
    ASSUME TypeOK, HMSet
    PROVE  hash' \in [Fields -> Int] /\ infinite' \in BOOLEAN
<1>1. hash' \in [Fields -> Int]
  BY CountedType DEF HMSet, TypeOK
<1>2. infinite' \in BOOLEAN
  BY DEF HMSet, TypeOK
<1>. QED
  BY <1>1, <1>2

(* A document is stored or changed, and a message is published with the     *)
(* task it belongs to, so there is one per task.                            *)
LEMMA ServeType ==
    ASSUME TypeInv, QTypeOK', NEW h \in Handlers, Serve(h)
    PROVE  TypeOK' /\ Busy' /\ IsFiniteSet(Stored')
<1>. USE StatsAssumption
<1>. DEFINE Change == [pc : {"update", "publish"}, id : ReqIds, status : DOMAIN Counter]
            Becomes(next) == handler' = [handler EXCEPT ![h] = next]
<1>1. /\ handler \in [Handlers -> {Idle} \cup Change] /\ status \in [ReqIds -> DOMAIN Successors]
      /\ IsFiniteSet(Stored) /\ DOMAIN Counter \subseteq DOMAIN Successors
  BY DEF TypeInv, TypeOK, Counter, Successors
<1>2. handler[h].pc # "idle" => handler[h] \in Change
  BY <1>1 DEF Idle
<1>3. ASSUME NEW next \in {Idle} \cup Change, Becomes(next)
      PROVE  handler' \in [Handlers -> {Idle} \cup Change]
  BY <1>1, <1>3
<1>4. ASSUME NEW r \in ReqIds, NEW new \in DOMAIN Successors, status' = [status EXCEPT ![r] = new]
      PROVE  status' \in [ReqIds -> DOMAIN Successors] /\ IsFiniteSet(Stored')
  <2>1. Stored' \in SUBSET (Stored \cup {r})
    BY <1>1, <1>4 DEF Stored
  <2>2. IsFiniteSet(Stored \cup {r})
    BY <1>1, FS_AddElement
  <2>. QED
    BY <1>1, <1>4, <2>1, <2>2, FS_Subset
<1>5. UNCHANGED status => IsFiniteSet(Stored')
  BY <1>1 DEF Stored
<1>. HIDE DEF Change, Becomes
<1>6. CASE \E r \in ReqIds : Create(h, r)
  <2>1. PICK r \in ReqIds : Create(h, r)
    BY <1>6
  <2>2. "Pending" \in DOMAIN Successors /\ [pc |-> "publish", id |-> r, status |-> "Pending"] \in Change
    BY DEF Successors, Counter, Change
  <2>3. handler' \in [Handlers -> {Idle} \cup Change]
    BY <1>3, <2>1, <2>2 DEF Create, Proceed, Becomes
  <2>. QED
    BY <1>4, <2>1, <2>2, <2>3 DEF Create, TypeInv, TypeOK, Busy, qvars, Change
<1>7. CASE \E r \in ReqIds, new \in DOMAIN Counter : Decide(h, r, new)
  <2>1. PICK r \in ReqIds, new \in DOMAIN Counter : Decide(h, r, new)
    BY <1>7
  <2>2. [pc |-> "update", id |-> r, status |-> new] \in Change
    BY DEF Change
  <2>3. handler' \in [Handlers -> {Idle} \cup Change]
    BY <1>3, <2>1, <2>2 DEF Decide, Proceed, Becomes
  <2>. QED
    BY <1>5, <2>1, <2>3 DEF Decide, TypeInv, TypeOK, Busy, qvars, Change
<1>8. CASE Store(h)
  <2>1. handler[h] \in Change /\ [handler[h] EXCEPT !.pc = "publish"] \in Change
    BY <1>2, <1>8 DEF Store, Change
  <2>2. handler' \in [Handlers -> {Idle} \cup Change]
    BY <1>3, <1>8, <2>1 DEF Store, Proceed, Becomes
  <2>3. handler[h].id \in ReqIds /\ handler[h].status \in DOMAIN Successors
    BY <1>1, <2>1 DEF Change
  <2>. QED
    BY <1>4, <1>8, <2>2, <2>3 DEF Store, TypeInv, TypeOK, Busy, qvars, Change
<1>9. CASE Publish(h)
  <2>1. handler' \in [Handlers -> {Idle} \cup Change]
    BY <1>3, <1>9 DEF Publish, Proceed, Becomes
  <2>2. handler[h].id \in ReqIds /\ handler[h].status \in DOMAIN Counter
    BY <1>2, <1>9 DEF Publish, Change
  <2>3. /\ news' \in Seq([id : ReqIds, status : DOMAIN Counter])
        /\ Len(news') = published'
    <3>1. [id |-> handler[h].id, status |-> handler[h].status] \in [id : ReqIds, status : DOMAIN Counter]
      BY <2>2
    <3>2. published' = published + 1
      BY <1>9 DEF Publish, Enqueue
    <3>. QED
      BY <1>9, <3>1, <3>2 DEF Publish, TypeInv, TypeOK
  <2>4. taken' = taken
    BY <1>9 DEF Publish, Enqueue
  <2>. QED
    BY <1>5, <1>9, <2>1, <2>3, <2>4 DEF Publish, TypeInv, TypeOK, Busy, Change
<1>10. CASE StoreError(h) \/ Unpublished(h)
  <2>1. handler' \in [Handlers -> {Idle} \cup Change]
    BY <1>3, <1>10 DEF StoreError, Unpublished, Proceed, Becomes
  <2>2. faults' \in 0..MaxFaults
    BY <1>10 DEF StoreError, Unpublished, Fault, TypeInv, TypeOK
  <2>. QED
    BY <1>5, <1>10, <2>1, <2>2 DEF StoreError, Unpublished, TypeInv, TypeOK, Busy, qvars, Change
<1>. QED
  BY <1>6, <1>7, <1>8, <1>9, <1>10 DEF Serve

(* The worker's counting writes numbers into the hash and comes to the end  *)
(* of its task whatever Redis answers.                                      *)
LEMMA WorkerType ==
    ASSUME TypeInv, QTypeOK', Begin \/ GetStats \/ Watch \/ Exec \/ ExecNil \/ RedisError \/ Finish
    PROVE  TypeOK' /\ Busy' /\ UNCHANGED status
<1>. USE StatsAssumption
<1>1. 0 \in 0..maxRetry
  BY DEF maxRetry
<1>3. CASE Begin
  BY <1>3 DEF Begin, hvars, TypeInv, TypeOK, Busy, Take, maxRetry, HeldAreTasks, Tasks, NoTask
<1>4. CASE GetStats \/ Watch
  BY <1>4 DEF GetStats, Watch, hvars, TypeInv, TypeOK, Busy, qvars
<1>2. Empty \in [Fields -> Int]
  BY DEF Empty
<1>5. CASE ExecNil
  <2>1. attempt' \in 0..maxRetry /\ step' \in {"get", "ack"} /\ read' = Empty /\ touched' = FALSE
    BY <1>5 DEF ExecNil, Again, Return, TypeInv, TypeOK, maxRetry
  <2>2. skipped' \in BOOLEAN
    BY <1>5 DEF ExecNil, TypeInv, TypeOK
  <2>. QED
    BY <1>2, <1>5, <2>1, <2>2 DEF ExecNil, hvars, TypeInv, TypeOK, Busy, qvars
<1>6. CASE Exec
  <2>1. hash' \in [Fields -> Int] /\ infinite' \in BOOLEAN
    BY <1>6, HMSetType DEF Exec, TypeInv
  <2>. QED
    BY <1>1, <1>2, <1>6, <2>1 DEF Exec, Return, hvars, TypeInv, TypeOK, Busy, qvars
<1>7. CASE RedisError
  <2>1. hash' \in [Fields -> Int] /\ infinite' \in BOOLEAN
    BY <1>7, HMSetType DEF RedisError, TypeInv, TypeOK
  <2>2. faults' \in 0..MaxFaults
    BY <1>7 DEF RedisError, Fault, TypeInv, TypeOK
  <2>3. /\ step' = "ack" /\ read' \in [Fields -> Int] /\ attempt' \in 0..maxRetry
        /\ touched' \in BOOLEAN /\ skipped' \in BOOLEAN
    BY <1>1, <1>7, <1>2 DEF RedisError, Return
  <2>4. step # "idle" /\ UNCHANGED <<qvars, hvars, news, twice>>
    BY <1>7 DEF RedisError
  <2>. QED
    BY <2>1, <2>2, <2>3, <2>4 DEF hvars, TypeInv, TypeOK, Busy, qvars
<1>8. CASE Finish
  BY <1>8 DEF Finish, hvars, TypeInv, TypeOK, Busy, Ack, Nack
<1>. QED
  BY <1>3, <1>4, <1>5, <1>6, <1>7, <1>8

(* The aggregator, RabbitMQ, and a restart, which recounts.                 *)
LEMMA AroundType ==
    ASSUME TypeInv, QTypeOK', Tick \/ Push \/ Drop \/ Reconnect \/ TTL \/ Boot \/ UNCHANGED vars
    PROVE  TypeOK' /\ Busy' /\ UNCHANGED status
<1>. USE StatsAssumption
<1>1. 0 \in 0..maxRetry
  BY DEF maxRetry
<1>2. CASE Tick \/ UNCHANGED vars
  BY <1>2 DEF Tick, vars, stvars, hvars, qvars, TypeInv, TypeOK, Busy
<1>3. CASE Push \/ Reconnect
  BY <1>3 DEF Push, Reconnect, Deliver, Reopen, stvars, hvars, TypeInv, TypeOK, Busy
<1>4. CASE Drop \/ TTL
  <2>1. faults' \in 0..MaxFaults
    BY <1>4 DEF Drop, TTL, Fault, TypeInv, TypeOK
  <2>2. UNCHANGED <<published, taken>>
    BY <1>4 DEF Drop, TTL, LoseConnection, Expire
  <2>. QED
    BY <1>4, <2>1, <2>2 DEF Drop, TTL, hvars, TypeInv, TypeOK, Busy
<1>5. CASE Boot
  <2>1. Empty \in [Fields -> Int] /\ hash \in [Fields -> Int]
    BY DEF Empty, TypeInv, TypeOK
  <2>2. hash' \in [Fields -> Int]
    BY <1>5, <2>1, SyncStatsType DEF Boot, TypeInv
  <2>3. twice' \in BOOLEAN
    BY <1>5 DEF Boot
  <2>4. faults' \in 0..MaxFaults
    BY <1>5 DEF Boot, Fault, TypeInv, TypeOK
  <2>5. handler' \in [Handlers -> {Idle} \cup [pc : {"update", "publish"}, id : ReqIds,
                                             status : DOMAIN Counter]]
    BY <1>5 DEF Boot, TypeInv, TypeOK
  <2>. QED
    BY <1>1, <1>5, <2>1, <2>2, <2>3, <2>4, <2>5 DEF Boot, Restart, TypeInv, TypeOK, Busy
<1>. QED
  BY <1>2, <1>3, <1>4, <1>5

LEMMA TypeInvInit == Init => TypeInv
<1>. SUFFICES ASSUME Init PROVE TypeInv
  OBVIOUS
<1>1. QInv
  BY QInvInit DEF Init
<1>2. Stored = {}
  BY DEF Init, Stored
<1>3. IsFiniteSet(Stored)
  BY <1>2, FS_EmptySet
<1>4. TypeOK
  <2>1. Empty \in [Fields -> Int]
    BY DEF Empty
  <2>2. 0 \in 0..MaxFaults /\ 0 \in 0..maxRetry
    BY StatsAssumption DEF maxRetry
  <2>3. "None" \in DOMAIN Successors
    BY DEF Successors
  <2>4. <<>> \in Seq([id : ReqIds, status : DOMAIN Counter]) /\ Len(<<>>) = 0
    OBVIOUS
  <2>. QED
    BY <1>1, <2>1, <2>2, <2>3, <2>4 DEF Init, QInit, QInv, TypeOK
<1>5. HeldAreTasks /\ Busy
  BY DEF Init, QInit, HeldAreTasks, Busy
<1>. QED
  BY <1>1, <1>3, <1>4, <1>5 DEF TypeInv

LEMMA TypeInvStep == TypeInv /\ [Next]_vars => TypeInv'
<1>. SUFFICES ASSUME TypeInv, [Next]_vars PROVE TypeInv'
  OBVIOUS
<1>1. QInv' /\ HeldAreTasks' /\ QTypeOK'
  BY UsesQueue, QInvStep, HeldStep DEF TypeInv, QInv
<1>2. TypeOK' /\ Busy' /\ (UNCHANGED status \/ IsFiniteSet(Stored'))
  BY <1>1, ServeType, WorkerType, AroundType DEF Next
<1>3. UNCHANGED status => IsFiniteSet(Stored')
  BY DEF TypeInv, Stored
<1>. QED
  BY <1>1, <1>2, <1>3 DEF TypeInv

LEMMA TypeInvariant == Spec => []TypeInv
  BY TypeInvInit, TypeInvStep, PTL DEF Spec

(* The counters are numbers, every task has its message, and the worker is  *)
(* at one of the steps of a task, for any number of changes and failures.   *)
THEOREM StatsTypes == Spec => []TypeOK
<1>1. TypeInv => TypeOK
  BY DEF TypeInv
<1>. QED
  BY <1>1, TypeInvariant, PTL

-----------------------------------------------------------------------------
(* The rings of the metrics page.  GraphsAddUp is not inductive: it says    *)
(* nothing of a hash without approved players, and the worker writes what   *)
(* it has read, so the sums have to hold of the hash and of that.           *)

Rings(h) == /\ h["maleCount"] + h["femaleCount"] + h["otherGenderCount"] = h["approved"]
            /\ h["ageGroup1Count"] + h["ageGroup2Count"] + h["ageGroup3Count"] + h["ageGroup4Count"]
                 = h["approved"]

RingsInv == Rings(hash) /\ Rings(read)

(* Every applicant is in one slice of each ring.                            *)
LEMMA OneSlice ==
    ASSUME NEW r
    PROVE  GenderCount(r) \in Genders /\ AgeGroupCount(r) \in AgeGroups
  BY DEF GenderCount, AgeGroupCount, Genders, AgeGroups

(* Counting a task moves a slice of each ring and the card the same way.    *)
LEMMA CountedRings ==
    ASSUME NEW old \in [Fields -> Int], Rings(old), NEW task
    PROVE  Rings(Counted(old, task))
<1>. DEFINE g == GenderCount(task.id)
            a == AgeGroupCount(task.id)
            new == Counted(old, task)
            Moved(d) == \A c \in Genders \cup AgeGroups \cup {"approved"} :
                           new[c] = old[c] + (IF c \in {"approved", g, a} THEN d ELSE 0)
<1>1. g \in Genders /\ a \in AgeGroups
  BY OneSlice
<1>. HIDE DEF g, a
<1>2. Moved(1) \/ Moved(0) \/ Moved(-1)
  <2>1. CASE task.status = "Approved"
    BY <1>1, <2>1 DEF Counted, RaisedLowered, Whitelisted, Fields, Genders, AgeGroups, Counters, g, a
  <2>2. CASE task.status \in {"Denied", "Pending"}
    BY <1>1, <2>2 DEF Counted, RaisedLowered, Whitelisted, Fields, Genders, AgeGroups, Counters, g, a
  <2>3. CASE task.status = "Banned"
    BY <1>1, <2>3 DEF Counted, RaisedLowered, Whitelisted, Fields, Genders, AgeGroups, Counters, g, a
  <2>4. CASE task.status \notin {"Approved", "Denied", "Pending", "Banned"}
    BY <1>1, <2>4 DEF Counted, RaisedLowered, Whitelisted, Fields, Genders, AgeGroups, Counters, g, a
  <2>. QED
    BY <2>1, <2>2, <2>3, <2>4
<1>. HIDE DEF new
<1>3. ASSUME NEW d \in Int, Moved(d) PROVE Rings(new)
  <2>1. \A c \in Genders \cup AgeGroups \cup {"approved"} : old[c] \in Int
    BY DEF Fields, Counters
  <2>2. /\ new["maleCount"] + new["femaleCount"] + new["otherGenderCount"]
             = old["maleCount"] + old["femaleCount"] + old["otherGenderCount"] + d
    BY <1>1, <1>3, <2>1 DEF Genders, AgeGroups
  <2>3. /\ new["ageGroup1Count"] + new["ageGroup2Count"] + new["ageGroup3Count"] + new["ageGroup4Count"]
             = old["ageGroup1Count"] + old["ageGroup2Count"] + old["ageGroup3Count"]
               + old["ageGroup4Count"] + d
    BY <1>1, <1>3, <2>1 DEF Genders, AgeGroups
  <2>4. new["approved"] = old["approved"] + d
    BY <1>3
  <2>. QED
    BY <2>2, <2>3, <2>4 DEF Rings
<1>. QED
  BY <1>2, <1>3 DEF new

(* A set that is split is as large as its parts.                            *)
LEMMA TwoParts ==
    ASSUME NEW A, NEW B, IsFiniteSet(A), IsFiniteSet(B), A \cap B = {}
    PROVE  /\ IsFiniteSet(A \cup B) /\ Cardinality(A \cup B) = Cardinality(A) + Cardinality(B)
           /\ Cardinality(A) \in Nat /\ Cardinality(B) \in Nat
<1>1. Cardinality(A) \in Nat /\ Cardinality(B) \in Nat /\ Cardinality({}) = 0
  BY FS_CardinalityType, FS_EmptySet
<1>2. /\ IsFiniteSet(A \cup B)
      /\ Cardinality(A \cup B) = Cardinality(A) + Cardinality(B) - Cardinality(A \cap B)
  BY FS_Union
<1>3. Cardinality(A \cap B) = 0
  BY <1>1, Zenon
<1>. QED
  BY <1>1, <1>2, <1>3

LEMMA ThreeParts ==
    ASSUME NEW S, IsFiniteSet(S), NEW A, NEW B, NEW C, S = A \cup B \cup C,
           A \cap B = {}, A \cap C = {}, B \cap C = {}
    PROVE  Cardinality(S) = Cardinality(A) + Cardinality(B) + Cardinality(C)
<1>1. IsFiniteSet(A) /\ IsFiniteSet(B) /\ IsFiniteSet(C)
  BY FS_Subset
<1>2. IsFiniteSet(A \cup B) /\ (A \cup B) \cap C = {}
  BY <1>1, TwoParts
<1>. QED
  BY <1>1, <1>2, TwoParts

LEMMA FourParts ==
    ASSUME NEW S, IsFiniteSet(S), NEW A, NEW B, NEW C, NEW D, S = A \cup B \cup C \cup D,
           A \cap B = {}, A \cap C = {}, A \cap D = {}, B \cap C = {}, B \cap D = {}, C \cap D = {}
    PROVE  Cardinality(S) = Cardinality(A) + Cardinality(B) + Cardinality(C) + Cardinality(D)
<1>1. IsFiniteSet(A \cup B) /\ IsFiniteSet(C \cup D) /\ (A \cup B) \cap (C \cup D) = {}
  BY FS_Subset
<1>2. IsFiniteSet(A) /\ IsFiniteSet(B) /\ IsFiniteSet(C) /\ IsFiniteSet(D)
  BY FS_Subset
<1>3. S = (A \cup B) \cup (C \cup D)
  OBVIOUS
<1>4. /\ Cardinality(A \cup B) = Cardinality(A) + Cardinality(B)
      /\ Cardinality(C \cup D) = Cardinality(C) + Cardinality(D)
  BY <1>2, TwoParts
<1>5. Cardinality(S) = Cardinality(A \cup B) + Cardinality(C \cup D)
  BY <1>1, <1>3, TwoParts
<1>6. /\ Cardinality(A) \in Nat /\ Cardinality(B) \in Nat
      /\ Cardinality(C) \in Nat /\ Cardinality(D) \in Nat
  BY <1>2, FS_CardinalityType
<1>. QED
  BY <1>4, <1>5, <1>6

(* SyncStats puts each whitelisted player into one slice of each ring.      *)
LEMMA SyncStatsRings ==
    ASSUME IsFiniteSet(Stored), NEW old
    PROVE  Rings(SyncStats(old))
<1>. DEFINE All == {r \in ReqIds : status[r] = "Approved"}
            Slice(c) == {r \in ReqIds : status[r] = "Approved" /\ c \in Whitelisted(r)}
            new == SyncStats(old)
<1>1. IsFiniteSet(All)
  <2>1. All \in SUBSET Stored
    BY DEF Stored
  <2>. QED
    BY <2>1, FS_Subset
<1>2. new["approved"] = Cardinality(All)
  <2>1. (CHOOSE s \in DOMAIN Counter : Counter[s] = "approved") = "Approved"
    BY DEF Counter
  <2>. QED
    BY <2>1 DEF SyncStats, Fields, Counters, Genders, AgeGroups, Number
<1>3. \A c \in Genders \cup AgeGroups : new[c] = Cardinality(Slice(c))
  BY DEF SyncStats, Fields, Genders, AgeGroups
<1>4. \A r : /\ Whitelisted(r) \cap Genders = {GenderCount(r)}
             /\ Whitelisted(r) \cap AgeGroups = {AgeGroupCount(r)}
  BY DEF Whitelisted, GenderCount, AgeGroupCount, Genders, AgeGroups
<1>5. /\ \A r \in All : \E c \in Genders : r \in Slice(c)
      /\ \A r \in All : \E c \in AgeGroups : r \in Slice(c)
      /\ \A c : Slice(c) \subseteq All
      /\ \A c, d \in Genders : c # d => Slice(c) \cap Slice(d) = {}
      /\ \A c, d \in AgeGroups : c # d => Slice(c) \cap Slice(d) = {}
  BY <1>4
<1>. HIDE DEF All, Slice, new
<1>6. Cardinality(All) = Cardinality(Slice("maleCount")) + Cardinality(Slice("femaleCount"))
                         + Cardinality(Slice("otherGenderCount"))
  <2>1. All = Slice("maleCount") \cup Slice("femaleCount") \cup Slice("otherGenderCount")
    BY <1>5 DEF Genders
  <2>2. /\ Slice("maleCount") \cap Slice("femaleCount") = {}
        /\ Slice("maleCount") \cap Slice("otherGenderCount") = {}
        /\ Slice("femaleCount") \cap Slice("otherGenderCount") = {}
    BY <1>5 DEF Genders
  <2>. QED
    BY <1>1, <2>1, <2>2, ThreeParts
<1>7. Cardinality(All) = Cardinality(Slice("ageGroup1Count")) + Cardinality(Slice("ageGroup2Count"))
                         + Cardinality(Slice("ageGroup3Count")) + Cardinality(Slice("ageGroup4Count"))
  <2>1. All = Slice("ageGroup1Count") \cup Slice("ageGroup2Count") \cup Slice("ageGroup3Count")
              \cup Slice("ageGroup4Count")
    BY <1>5 DEF AgeGroups
  <2>2. /\ Slice("ageGroup1Count") \cap Slice("ageGroup2Count") = {}
        /\ Slice("ageGroup1Count") \cap Slice("ageGroup3Count") = {}
        /\ Slice("ageGroup1Count") \cap Slice("ageGroup4Count") = {}
        /\ Slice("ageGroup2Count") \cap Slice("ageGroup3Count") = {}
        /\ Slice("ageGroup2Count") \cap Slice("ageGroup4Count") = {}
        /\ Slice("ageGroup3Count") \cap Slice("ageGroup4Count") = {}
    BY <1>5 DEF AgeGroups
  <2>. QED
    BY <1>1, <2>1, <2>2, FourParts
<1>. QED
  BY <1>2, <1>3, <1>6, <1>7 DEF Rings, Genders, AgeGroups, new

(* The rings stay whole through every step: the worker writes what it read  *)
(* plus its task, and a restart counts the same documents for all of them.  *)
LEMMA RingsStep == TypeInv /\ RingsInv /\ [Next]_vars => RingsInv'
<1>. SUFFICES ASSUME TypeInv, RingsInv, [Next]_vars PROVE RingsInv'
  OBVIOUS
<1>1. ASSUME HMSet PROVE Rings(hash')
  BY <1>1, CountedRings DEF HMSet, TypeInv, TypeOK, RingsInv
<1>2. Rings(Empty)
  BY DEF Empty, Fields, Counters, Genders, AgeGroups, Rings
<1>3. CASE Exec \/ RedisError
  <2>1. Rings(hash') /\ read' = Empty
    BY <1>1, <1>3 DEF Exec, RedisError, Return, RingsInv
  <2>. QED
    BY <1>2, <2>1 DEF RingsInv
<1>4. CASE GetStats
  BY <1>4 DEF GetStats, RingsInv
<1>5. CASE Boot
  <2>1. Rings(hash') /\ read' = Empty
    BY <1>5, SyncStatsRings DEF Boot, TypeInv
  <2>. QED
    BY <1>2, <2>1 DEF RingsInv
<1>6. CASE (\E h \in Handlers : Serve(h)) \/ Begin \/ Watch \/ ExecNil \/ Finish \/ Tick \/ Push
           \/ Drop \/ Reconnect \/ TTL \/ UNCHANGED vars
  <2>1. hash' = hash /\ (read' = read \/ read' = Empty)
    BY <1>6 DEF Serve, Create, Decide, Store, StoreError, Publish, Unpublished, Begin, Watch, ExecNil,
                Again, Return, Finish, Tick, Push, Drop, Reconnect, TTL, vars, stvars
  <2>. QED
    BY <1>2, <2>1 DEF RingsInv
<1>. QED
  BY <1>3, <1>4, <1>5, <1>6 DEF Next

LEMMA RingsInvariant == Spec => [](TypeInv /\ RingsInv)
<1>1. Init => RingsInv
  BY DEF Init, Empty, Fields, Counters, Genders, AgeGroups, RingsInv, Rings
<1>. QED
  BY <1>1, TypeInvInit, TypeInvStep, RingsStep, PTL DEF Spec

(* The gender ring and the age ring each add up to the whitelisted players, *)
(* whatever was counted twice, skipped, raced for or recounted.             *)
THEOREM GraphsConsistent == Spec => []GraphsAddUp
<1>1. RingsInv => GraphsAddUp
  BY DEF RingsInv, Rings, GraphsAddUp, GenderGraph, AgeGraph, Cards, StatusGraph
<1>. QED
  BY <1>1, RingsInvariant, PTL

-----------------------------------------------------------------------------
(* The counters.  CountersAgree says nothing of a server at work.  At any    *)
(* time without a miscount, a counter differs from the number of requests   *)
(* in MongoDB by the changes that are on their way: those a handler has     *)
(* stored and not published yet, and those in tasks the worker has not      *)
(* counted.  The order in which they were stored or published is no part of *)
(* it.                                                                      *)

\* A delivery whose EXEC is over is counted before it is settled.
Uncounted == (Tasks \ Settled) \ (IF step = "ack" THEN {taken} ELSE {})

\* The changes on their way that lead to a status in S.
Unsent(S) == {h \in Sending : handler[h].status \in S}
Unread(S) == {t \in Uncounted : news[t].status \in S}
Carried(S) == Cardinality(Unsent(S)) + Cardinality(Unread(S))

Shown == DOMAIN Counter \ {"Deactivated"}

\* What comes to s raises its counter, what leaves it lowers it.
Follows(s) == hash[Counter[s]] + Carried({s}) - Carried(Successors[s]) = Number(s)

\* What was processed over a lost connection is known to be a miscount only
\* when it is settled.
Clean == ~skipped /\ ~twice /\ ~astray /\ (link = "up" \/ taken = NoTask)

Counting == Clean => \A s \in Shown : Follows(s)

\* Nobody else writes the counters between the worker's read and its EXEC.
ReadIsHash == step \in {"watch", "exec"} => read = hash

CountInv == TypeInv /\ ReadIsHash /\ Counting

(* What is on its way is finite, and so are the requests it is about.       *)
LEMMA CarriedType ==
    ASSUME TypeInv
    PROVE  /\ IsFiniteSet(Sending) /\ IsFiniteSet(Uncounted)
           /\ \A S : /\ IsFiniteSet(Unsent(S)) /\ IsFiniteSet(Unread(S))
                     /\ Cardinality(Unsent(S)) \in Nat /\ Cardinality(Unread(S)) \in Nat
                     /\ Carried(S) \in Nat
           /\ \A s \in Shown : /\ IsFiniteSet({r \in ReqIds : status[r] = s})
                               /\ Number(s) \in Nat /\ hash[Counter[s]] \in Int
<1>1. IsFiniteSet(Sending)
  <2>1. Sending \in SUBSET Handlers
    BY DEF Sending
  <2>. QED
    BY <2>1, StatsAssumption, FS_Subset
<1>2. IsFiniteSet(Uncounted)
  <2>1. Uncounted \in SUBSET (1..published) /\ 1 \in Int /\ published \in Int
    BY DEF Uncounted, Tasks, TypeInv, TypeOK, QTypeOK
  <2>. QED
    BY <2>1, FS_Subset, FS_Interval
<1>3. ASSUME NEW S PROVE /\ IsFiniteSet(Unsent(S)) /\ IsFiniteSet(Unread(S))
                         /\ Cardinality(Unsent(S)) \in Nat /\ Cardinality(Unread(S)) \in Nat
                         /\ Carried(S) \in Nat
  <2>1. Unsent(S) \in SUBSET Sending /\ Unread(S) \in SUBSET Uncounted
    BY DEF Unsent, Unread
  <2>2. IsFiniteSet(Unsent(S)) /\ IsFiniteSet(Unread(S))
    BY <1>1, <1>2, <2>1, FS_Subset
  <2>3. Cardinality(Unsent(S)) \in Nat /\ Cardinality(Unread(S)) \in Nat
    BY <2>2, FS_CardinalityType
  <2>. QED
    BY <2>2, <2>3 DEF Carried
<1>4. ASSUME NEW s \in Shown PROVE /\ IsFiniteSet({r \in ReqIds : status[r] = s})
                                   /\ Number(s) \in Nat /\ hash[Counter[s]] \in Int
  <2>1. {r \in ReqIds : status[r] = s} \in SUBSET Stored
    BY DEF Stored, Shown, Counter
  <2>2. IsFiniteSet({r \in ReqIds : status[r] = s})
    BY <2>1, FS_Subset DEF TypeInv
  <2>3. hash[Counter[s]] \in Int
    BY DEF TypeInv, TypeOK, Shown, Counter, Fields, Counters
  <2>. QED
    BY <2>2, <2>3, FS_CardinalityType DEF Number
<1>. QED
  BY <1>1, <1>2, <1>3, <1>4

(* A set that gains a member, or loses one, and the part of it that is      *)
(* counted.                                                                 *)
LEMMA OneMore ==
    ASSUME NEW A, IsFiniteSet(A), NEW x, x \notin A, NEW B, NEW P \in BOOLEAN,
           B = IF P THEN A \cup {x} ELSE A
    PROVE  /\ Cardinality(A) \in Nat
           /\ Cardinality(B) = Cardinality(A) + (IF P THEN 1 ELSE 0)
<1>1. Cardinality(A) \in Nat /\ Cardinality(A \cup {x}) = Cardinality(A) + 1
  BY FS_AddElement, FS_CardinalityType
<1>. QED
  BY <1>1

(* How a message moves the counters the dashboard reads: the status the     *)
(* request leaves loses it, the status it gets gains it.                    *)
LEMMA CountedMoves ==
    ASSUME NEW old \in [Fields -> Int], NEW task, task.status \in DOMAIN Counter, NEW s \in Shown
    PROVE  Counted(old, task)[Counter[s]]
             = old[Counter[s]] + (IF task.status = s THEN 1 ELSE 0)
                               - (IF task.status \in Successors[s] THEN 1 ELSE 0)
<1>. DEFINE c == Counter[s]
<1>1. /\ c \in Counters /\ c \in Fields /\ old[c] \in Int
      /\ s \in {"Pending", "Approved", "Denied", "Banned"}
  BY DEF Shown, Counter, Counters, Fields
<1>2. c # GenderCount(task.id) /\ c # AgeGroupCount(task.id)
  BY <1>1, OneSlice DEF Counters, Genders, AgeGroups
<1>3. CASE task.status = "Pending"
  BY <1>1, <1>2, <1>3 DEF Successors, Counted, RaisedLowered, Counter, Fields
<1>4. CASE task.status \in {"Approved", "Denied"}
  BY <1>1, <1>2, <1>4 DEF Successors, Counted, RaisedLowered, Counter, Fields, Whitelisted
<1>5. CASE task.status \in {"Deactivated", "Banned"}
  BY <1>1, <1>2, <1>5 DEF Successors, Counted, RaisedLowered, Counter, Fields, Whitelisted
<1>. QED
  BY <1>3, <1>4, <1>5 DEF Counter

(* The numbers of requests move the same way when a status is stored that   *)
(* follows the one before.                                                  *)
LEMMA NumberMoves ==
    ASSUME TypeInv, NEW x \in ReqIds, NEW new \in Successors[status[x]],
           status' = [status EXCEPT ![x] = new], NEW s \in Shown
    PROVE  Number(s)' = Number(s) + (IF new = s THEN 1 ELSE 0)
                                  - (IF new \in Successors[s] THEN 1 ELSE 0)
<1>. DEFINE Before == {r \in ReqIds : status[r] = s}
            After == {r \in ReqIds : status'[r] = s}
<1>1. /\ status \in [ReqIds -> DOMAIN Successors] /\ IsFiniteSet(Before) /\ Cardinality(Before) \in Nat
      /\ s \in DOMAIN Successors
  BY CarriedType DEF TypeInv, TypeOK, Number, Shown, Counter, Successors
<1>2. new # status[x] /\ (new \in Successors[s] <=> s = status[x])
  BY <1>1 DEF Successors
<1>3. CASE new = s
  <2>1. After = Before \cup {x} /\ x \notin Before
    BY <1>1, <1>2, <1>3
  <2>. QED
    BY <1>1, <1>2, <1>3, <2>1, FS_AddElement DEF Number
<1>4. CASE s = status[x]
  <2>1. After = Before \ {x} /\ x \in Before
    BY <1>1, <1>2, <1>4
  <2>2. Cardinality(After) = Cardinality(Before) - 1
    BY <1>1, <2>1, FS_RemoveElement
  <2>. QED
    BY <1>1, <1>2, <1>4, <2>2 DEF Number
<1>5. CASE new # s /\ s # status[x]
  <2>1. After = Before
    BY <1>1, <1>2, <1>5
  <2>. QED
    BY <1>1, <1>2, <1>5, <2>1 DEF Number
<1>. QED
  BY <1>2, <1>3, <1>4, <1>5

(* What is stored is on its way: a handler creates a request or stores a    *)
(* decision and has to publish it.                                          *)
LEMMA StoreCounts ==
    ASSUME CountInv, NEW h \in Handlers, Store(h) \/ \E r \in ReqIds : Create(h, r)
    PROVE  Counting'
<1>. SUFFICES ASSUME Clean', NEW s \in Shown PROVE Follows(s)'
  BY DEF Counting, Shown
<1>1. PICK x \in ReqIds, new \in DOMAIN Counter :
           /\ status' = [status EXCEPT ![x] = new] /\ new \in Successors[status[x]]
           /\ handler' = [handler EXCEPT ![h] = [pc |-> "publish", id |-> x, status |-> new]]
           /\ h \notin Sending
           /\ Clean
           /\ UNCHANGED <<qvars, news, hash, step>>
  <2>1. CASE Store(h)
    <3>1. handler[h] \in [pc : {"update", "publish"}, id : ReqIds, status : DOMAIN Counter]
      BY <2>1 DEF Store, CountInv, TypeInv, TypeOK, Idle
    <3>2. [handler[h] EXCEPT !.pc = "publish"]
             = [pc |-> "publish", id |-> handler[h].id, status |-> handler[h].status]
      BY <3>1
    <3>. QED
      BY <2>1, <3>1, <3>2 DEF Store, Proceed, Clean, Sending, qvars
  <2>2. CASE \E r \in ReqIds : Create(h, r)
    <3>1. PICK r \in ReqIds : Create(h, r)
      BY <2>2
    <3>2. "Pending" \in DOMAIN Counter /\ "Pending" \in Successors["None"]
      BY DEF Counter, Successors
    <3>3. h \notin Sending
      BY <3>1 DEF Create, Arrives, Sending, Idle
    <3>4. Clean /\ UNCHANGED <<qvars, news, hash, step>>
      BY <3>1 DEF Create, Clean, qvars
    <3>5. /\ status' = [status EXCEPT ![r] = "Pending"] /\ "Pending" \in Successors[status[r]]
          /\ handler' = [handler EXCEPT ![h] = [pc |-> "publish", id |-> r, status |-> "Pending"]]
      BY <3>1, <3>2 DEF Create, Proceed
    <3>. QED
      BY <3>2, <3>3, <3>4, <3>5
  <2>. QED
    BY <2>1, <2>2
<1>2. TypeInv /\ Follows(s)
  BY <1>1 DEF CountInv, Counting
<1>3. ASSUME NEW S PROVE Carried(S)' = Carried(S) + (IF new \in S THEN 1 ELSE 0)
  <2>1. Sending' = Sending \cup {h} /\ \A g \in Sending : handler'[g] = handler[g]
    BY <1>1, <1>2 DEF Sending, TypeInv, TypeOK
  <2>2. handler'[h].status = new
    BY <1>1, <1>2 DEF TypeInv, TypeOK
  <2>3. Unsent(S)' = IF new \in S THEN Unsent(S) \cup {h} ELSE Unsent(S)
    BY <2>1, <2>2 DEF Unsent
  <2>4. Unread(S)' = Unread(S)
    BY <1>1 DEF Unread, Uncounted, Tasks, Settled, qvars
  <2>5. h \notin Unsent(S)
    BY <1>1 DEF Unsent
  <2>6. Cardinality(Unsent(S)') = Cardinality(Unsent(S)) + (IF new \in S THEN 1 ELSE 0)
    <3>. DEFINE P == new \in S
    <3>1. Cardinality(Unsent(S)') = Cardinality(Unsent(S)) + (IF P THEN 1 ELSE 0)
      <4>1. P \in BOOLEAN /\ Unsent(S)' = (IF P THEN Unsent(S) \cup {h} ELSE Unsent(S))
        BY <2>3
      <4>. HIDE DEF P
      <4>. QED
        BY <1>2, <2>5, <4>1, CarriedType, OneMore
    <3>. QED
      BY <3>1
  <2>7. Cardinality(Unsent(S)) \in Nat /\ Cardinality(Unread(S)) \in Nat
    BY <1>2, CarriedType
  <2>. QED
    BY <2>4, <2>6, <2>7 DEF Carried
<1>4. Number(s)' = Number(s) + (IF new = s THEN 1 ELSE 0) - (IF new \in Successors[s] THEN 1 ELSE 0)
  BY <1>1, <1>2, NumberMoves
<1>5. /\ Carried({s})' = Carried({s}) + (IF new = s THEN 1 ELSE 0)
      /\ Carried(Successors[s])' = Carried(Successors[s]) + (IF new \in Successors[s] THEN 1 ELSE 0)
  BY <1>3
<1>6. Carried({s}) \in Nat /\ Carried(Successors[s]) \in Nat /\ Number(s) \in Nat /\ hash[Counter[s]] \in Int
  BY <1>2, CarriedType
<1>. QED
  BY <1>1, <1>2, <1>4, <1>5, <1>6 DEF Follows

(* What is published is on its way still, in a task.                        *)
LEMMA PublishCounts ==
    ASSUME CountInv, NEW h \in Handlers, Publish(h)
    PROVE  Counting'
<1>. SUFFICES ASSUME Clean', NEW s \in Shown PROVE Follows(s)'
  BY DEF Counting, Shown
<1>. DEFINE new == handler[h].status
<1>1. /\ Clean /\ TypeInv /\ Follows(s) /\ hash' = hash /\ status' = status /\ step' = step
      /\ taken' = taken /\ Settled' = Settled
      /\ published' = published + 1 /\ published \in Nat /\ Len(news) = published
      /\ news \in Seq([id : ReqIds, status : DOMAIN Counter])
      /\ news' = Append(news, [id |-> handler[h].id, status |-> new])
      /\ h \in Sending /\ handler' = [handler EXCEPT ![h] = Idle]
  BY DEF Publish, Enqueue, Proceed, Clean, Sending, Settled, CountInv, Counting, TypeInv, TypeOK, QTypeOK
<1>2. Uncounted' = Uncounted \cup {published + 1} /\ published + 1 \notin Uncounted
  <2>1. Settled \subseteq 1..published /\ (step = "ack" => taken \in 1..published)
    BY <1>1 DEF Settled, TypeInv, TypeOK, QTypeOK, HeldAreTasks, Busy, Tasks
  <2>. QED
    BY <1>1, <2>1 DEF Uncounted, Tasks
<1>3. \A t \in Uncounted : news'[t] = news[t]
  BY <1>1 DEF Uncounted, Tasks
<1>4. news'[published + 1].status = new
  BY <1>1
<1>5. Sending' = Sending \ {h} /\ \A g \in Sending' : handler'[g] = handler[g]
  BY <1>1 DEF Sending, TypeInv, TypeOK, Idle
<1>6. ASSUME NEW S PROVE Carried(S)' = Carried(S)
  <2>1. Unread(S)' = IF new \in S THEN Unread(S) \cup {published + 1} ELSE Unread(S)
    BY <1>2, <1>3, <1>4 DEF Unread
  <2>2. Unsent(S)' = Unsent(S) \ {h}
    BY <1>5 DEF Unsent
  <2>3. h \in Unsent(S) <=> new \in S
    BY <1>1 DEF Unsent
  <2>4. published + 1 \notin Unread(S)
    BY <1>2 DEF Unread
  <2>5. /\ IsFiniteSet(Unsent(S)) /\ IsFiniteSet(Unread(S))
        /\ Cardinality(Unsent(S)) \in Nat /\ Cardinality(Unread(S)) \in Nat
    BY <1>1, CarriedType
  <2>6. CASE new \in S
    <3>1. Cardinality(Unread(S)') = Cardinality(Unread(S)) + 1
      BY <2>1, <2>4, <2>5, <2>6, FS_AddElement
    <3>2. Cardinality(Unsent(S)') = Cardinality(Unsent(S)) - 1
      BY <2>2, <2>3, <2>5, <2>6, FS_RemoveElement
    <3>. QED
      BY <2>5, <3>1, <3>2 DEF Carried
  <2>7. CASE new \notin S
    <3>1. Unread(S)' = Unread(S) /\ Unsent(S)' = Unsent(S)
      BY <2>1, <2>2, <2>3, <2>7
    <3>. QED
      BY <3>1 DEF Carried
  <2>. QED
    BY <2>6, <2>7
<1>. QED
  BY <1>1, <1>6 DEF Follows, Number

(* An EXEC that goes through counts the task, whichever it is.              *)
LEMMA ExecCounts ==
    ASSUME CountInv, Exec
    PROVE  Counting'
<1>. SUFFICES ASSUME Clean', NEW s \in Shown PROVE Follows(s)'
  BY DEF Counting, Shown
<1>. DEFINE new == news[taken].status
<1>1. /\ step = "exec" /\ step' = "ack" /\ taken # NoTask /\ link = "up" /\ Clean
      /\ hash' = Counted(hash, news[taken]) /\ hash \in [Fields -> Int]
      /\ TypeInv /\ Follows(s)
      /\ UNCHANGED <<qvars, status, handler, news>>
  BY DEF CountInv, Counting, TypeInv, TypeOK, Busy, ReadIsHash, Exec, HMSet, Return, Clean, qvars, hvars
<1>2. taken \in Tasks \ Settled
  BY <1>1, TakenIsOldest DEF TypeInv, Log!Oldest, Log!Unsettled, Tasks, Settled
<1>3. new \in DOMAIN Counter
  <2>. DEFINE R == [id : ReqIds, status : DOMAIN Counter]
  <2>1. news \in Seq(R) /\ taken \in 1..Len(news)
    BY <1>1, <1>2 DEF TypeInv, TypeOK, Tasks
  <2>. HIDE DEF R
  <2>2. news[taken] \in R
    BY <2>1, ElementOfSeq
  <2>. QED
    BY <2>2 DEF R
<1>4. Uncounted' = Uncounted \ {taken} /\ taken \in Uncounted
  BY <1>1, <1>2 DEF Uncounted, Tasks, Settled, qvars
<1>5. ASSUME NEW S PROVE Carried(S)' = Carried(S) - (IF new \in S THEN 1 ELSE 0)
  <2>1. Unsent(S)' = Unsent(S)
    BY <1>1 DEF Unsent, Sending
  <2>2. Unread(S)' = Unread(S) \ {taken} /\ (taken \in Unread(S) <=> new \in S)
    BY <1>1, <1>4 DEF Unread
  <2>3. /\ IsFiniteSet(Unread(S)) /\ Cardinality(Unread(S)) \in Nat /\ Cardinality(Unsent(S)) \in Nat
    BY <1>1, CarriedType
  <2>4. CASE new \in S
    <3>1. Cardinality(Unread(S)') = Cardinality(Unread(S)) - 1
      BY <2>2, <2>3, <2>4, FS_RemoveElement
    <3>. QED
      BY <2>1, <2>3, <2>4, <3>1 DEF Carried
  <2>5. CASE new \notin S
    <3>1. Unread(S)' = Unread(S)
      BY <2>2, <2>5
    <3>. QED
      BY <2>1, <2>3, <2>5, <3>1 DEF Carried
  <2>. QED
    BY <2>4, <2>5
<1>6. hash'[Counter[s]] = hash[Counter[s]] + (IF new = s THEN 1 ELSE 0)
                                           - (IF new \in Successors[s] THEN 1 ELSE 0)
  BY <1>1, <1>3, CountedMoves
<1>7. /\ Carried({s})' = Carried({s}) - (IF new = s THEN 1 ELSE 0)
      /\ Carried(Successors[s])' = Carried(Successors[s]) - (IF new \in Successors[s] THEN 1 ELSE 0)
  BY <1>5
<1>8. Carried({s}) \in Nat /\ Carried(Successors[s]) \in Nat /\ Number(s) \in Nat /\ hash[Counter[s]] \in Int
  BY <1>1, CarriedType
<1>9. Number(s)' = Number(s)
  BY <1>1 DEF Number
<1>. QED
  BY <1>1, <1>6, <1>7, <1>8, <1>9 DEF Follows

(* A restart with every task settled counts all that was stored, also what  *)
(* will never be published.                                                 *)
LEMMA BootCounts ==
    ASSUME CountInv, Boot
    PROVE  Counting'
<1>. SUFFICES ASSUME Clean', NEW s \in Shown PROVE Follows(s)'
  BY DEF Counting, Shown
<1>1. /\ Settled = Tasks /\ Tasks' = Tasks /\ Settled' = Settled /\ status' = status /\ TypeInv
      /\ handler' = [h \in Handlers |-> IF handler[h].pc = "publish" THEN Idle ELSE handler[h]]
  BY DEF Boot, Restart, Settled, Tasks, CountInv, Clean
<1>2. ASSUME NEW S PROVE Carried(S)' = 0
  <2>1. Sending' = {}
    BY <1>1 DEF Sending, Idle
  <2>2. Unsent(S)' = {} /\ Unread(S)' = {}
    BY <1>1, <2>1 DEF Unsent, Unread, Uncounted
  <2>. QED
    BY <2>2, FS_EmptySet DEF Carried
<1>3. hash'[Counter[s]] = Number(s)
  <2>1. PICK old \in {hash, Empty} : hash' = SyncStats(old)
    BY DEF Boot
  <2>2. (CHOOSE q \in DOMAIN Counter : Counter[q] = Counter[s]) = s
    BY DEF Counter, Shown
  <2>. QED
    BY <2>1, <2>2 DEF SyncStats, Shown, Counter, Fields, Counters, Genders, AgeGroups
<1>4. Number(s)' = Number(s) /\ Number(s) \in Nat
  BY <1>1, CarriedType DEF Number
<1>5. Carried({s})' = 0 /\ Carried(Successors[s])' = 0
  BY <1>2
<1>. QED
  BY <1>3, <1>4, <1>5 DEF Follows

(* The other steps count nothing and put nothing on its way, or leave a     *)
(* mark that something will not be counted.                                 *)
LEMMA OthersCount ==
    ASSUME CountInv, TypeInv',
           \/ \E h \in Handlers : \/ \E r \in ReqIds, new \in DOMAIN Counter : Decide(h, r, new)
                                  \/ StoreError(h) \/ Unpublished(h)
           \/ Begin \/ GetStats \/ Watch \/ ExecNil \/ RedisError \/ Finish
           \/ Tick \/ Push \/ Drop \/ Reconnect \/ TTL \/ UNCHANGED vars
    PROVE  Counting'
<1>. SUFFICES ASSUME Clean' PROVE \A s \in Shown : Follows(s)'
  BY DEF Counting, Shown
<1>1. ~RedisError /\ ~TTL /\ \A h \in Handlers : ~Unpublished(h)
  BY DEF RedisError, TTL, Unpublished, Clean
<1>2. /\ Clean /\ UNCHANGED <<hash, news, status>> /\ Uncounted' = Uncounted
      /\ Sending' = Sending /\ \A g \in Sending : handler'[g] = handler[g]
  <2>. USE DEF CountInv, TypeInv, TypeOK, Busy, Clean
  <2>0. UNCHANGED handler => Sending' = Sending /\ \A g \in Sending : handler'[g] = handler[g]
    BY DEF Sending
  <2>1. CASE Begin
    BY <2>0, <2>1 DEF Begin, Take, hvars, Uncounted, Tasks, Settled
  <2>2. CASE GetStats \/ Watch \/ Tick \/ UNCHANGED vars
    BY <2>0, <2>2 DEF GetStats, Watch, Tick, vars, stvars, hvars, qvars, Uncounted, Tasks, Settled
  <2>3. CASE ExecNil
    <3>1. attempt # maxRetry
      BY <2>3, Zenon DEF ExecNil
    <3>2. attempt < maxRetry
      BY <3>1 DEF maxRetry
    <3>3. step = "exec" /\ step' = "get" /\ ~skipped
      BY <2>3, <3>2 DEF ExecNil, Again
    <3>. QED
      BY <2>0, <2>3, <3>3 DEF ExecNil, hvars, qvars, Uncounted, Tasks, Settled
  <2>4. CASE Finish
    <3>1. step = "ack" /\ step' = "idle" /\ link = "up" /\ Settled' = Settled \cup {taken}
      BY <2>4 DEF Finish, Ack, Nack, Settled, QTypeOK
    <3>. QED
      BY <2>0, <2>4, <3>1 DEF Finish, Ack, Nack, hvars, Uncounted, Tasks
  <2>5. CASE Push
    BY <2>0, <2>5 DEF Push, Deliver, stvars, hvars, Uncounted, Tasks, Settled
  <2>6. CASE Drop \/ Reconnect
    BY <2>0, <2>6 DEF Drop, Reconnect, LoseConnection, Reopen, stvars, hvars, Uncounted, Tasks, Settled
  <2>7. ASSUME NEW h \in Handlers,
               StoreError(h) \/ \E r \in ReqIds, new \in DOMAIN Counter : Decide(h, r, new)
        PROVE  /\ Clean /\ UNCHANGED <<hash, news, status>> /\ Uncounted' = Uncounted
               /\ Sending' = Sending /\ \A g \in Sending : handler'[g] = handler[g]
    <3>1. h \notin Sending /\ handler'[h].pc # "publish" /\ \A g \in Handlers : g # h => handler'[g] = handler[g]
      <4>1. CASE StoreError(h)
        BY <4>1 DEF StoreError, Proceed, Sending, Idle
      <4>2. CASE \E r \in ReqIds, new \in DOMAIN Counter : Decide(h, r, new)
        <5>1. PICK r \in ReqIds, new \in DOMAIN Counter : Decide(h, r, new)
          BY <4>2
        <5>2. handler' = [handler EXCEPT ![h] = [pc |-> "update", id |-> r, status |-> new]]
          BY <5>1 DEF Decide, Proceed
        <5>3. handler[h] = Idle
          BY <5>1 DEF Decide, Arrives
        <5>. QED
          BY <5>2, <5>3 DEF Sending, Idle
      <4>. QED
        BY <2>7, <4>1, <4>2
    <3>2. Clean /\ UNCHANGED <<qvars, hash, news, status, step>>
      BY <2>7 DEF StoreError, Decide, qvars
    <3>3. Sending' = Sending /\ \A g \in Sending : handler'[g] = handler[g]
      BY <3>1 DEF Sending
    <3>. QED
      BY <3>2, <3>3 DEF qvars, Uncounted, Tasks, Settled
  <2>. QED
    BY <1>1, <2>1, <2>2, <2>3, <2>4, <2>5, <2>6, <2>7
<1>3. ASSUME NEW S PROVE Carried(S)' = Carried(S)
  <2>1. Unsent(S)' = Unsent(S) /\ Unread(S)' = Unread(S)
    BY <1>2 DEF Unsent, Unread
  <2>. QED
    BY <2>1 DEF Carried
<1>. QED
  BY <1>2, <1>3 DEF CountInv, Counting, Follows, Number

(* What the worker has read is what is there.                               *)
LEMMA ReadStep == CountInv /\ TypeInv' /\ [Next]_vars => ReadIsHash'
<1>. SUFFICES ASSUME CountInv, [Next]_vars PROVE ReadIsHash'
  OBVIOUS
<1>1. ASSUME NEW h \in Handlers, Serve(h) PROVE ReadIsHash'
  BY <1>1 DEF CountInv, ReadIsHash, Serve, Create, Decide, Store, StoreError, Publish, Unpublished
<1>2. CASE \/ Begin \/ GetStats \/ Watch \/ Exec \/ ExecNil \/ RedisError \/ Finish
           \/ Tick \/ Push \/ Drop \/ Reconnect \/ TTL \/ Boot \/ UNCHANGED vars
  BY <1>2 DEF CountInv, ReadIsHash, Begin, GetStats, Watch, Exec, ExecNil, RedisError, Again, Return,
              Finish, Tick, Push, Drop, Reconnect, TTL, Boot, vars, stvars
<1>. QED
  BY <1>1, <1>2 DEF Next

LEMMA CountInvInit == Init => CountInv
<1>. SUFFICES ASSUME Init PROVE CountInv
  OBVIOUS
<1>1. /\ published = 0 /\ status = [r \in ReqIds |-> "None"] /\ hash = Empty /\ step = "idle"
      /\ handler = [h \in Handlers |-> Idle] /\ taken = NoTask /\ acked = {} /\ dead = {}
  BY DEF Init, QInit
<1>2. ReadIsHash /\ TypeInv
  BY <1>1, TypeInvInit DEF ReadIsHash
<1>3. ASSUME NEW s \in Shown PROVE Follows(s)
  <2>1. ASSUME NEW S PROVE Carried(S) = 0
    <3>1. Unsent(S) = {} /\ Unread(S) = {}
      BY <1>1 DEF Unsent, Unread, Sending, Idle, Uncounted, Tasks, Settled
    <3>. QED
      BY <3>1, FS_EmptySet DEF Carried
  <2>2. {r \in ReqIds : status[r] = s} = {}
    BY <1>1 DEF Shown, Counter
  <2>3. Number(s) = 0
    BY <2>2, FS_EmptySet DEF Number
  <2>4. hash[Counter[s]] = 0
    BY <1>1 DEF Shown, Counter, Empty, Fields, Counters
  <2>5. Carried({s}) = 0 /\ Carried(Successors[s]) = 0
    BY <2>1
  <2>. QED
    BY <2>3, <2>4, <2>5 DEF Follows
<1>. QED
  BY <1>2, <1>3 DEF CountInv, Counting

(* Through every step, also when the changes are published in another order *)
(* than they were stored, each counter is off by exactly the changes on     *)
(* their way, as long as none was lost, counted twice or stored over        *)
(* another.                                                                 *)
THEOREM CountersFollow == Spec => []CountInv
<1>1. CountInv /\ [Next]_vars => CountInv'
  <2>. SUFFICES ASSUME CountInv, [Next]_vars PROVE CountInv'
    OBVIOUS
  <2>1. TypeInv'
    BY TypeInvStep DEF CountInv
  <2>2. Counting'
    BY <2>1, StoreCounts, PublishCounts, ExecCounts, BootCounts, OthersCount DEF Next, Serve
  <2>. QED
    BY <2>1, <2>2, ReadStep DEF CountInv
<1>. QED
  BY CountInvInit, <1>1, PTL DEF Spec

(* When nothing is on its way, an idle server's counters are the numbers of *)
(* requests in MongoDB, however often the aggregator broke the worker's     *)
(* transaction or the connection was lost between two tasks.                *)
THEOREM CountersCorrect == Spec => []CountersAgree
<1>1. CountInv => CountersAgree
  <2>. SUFFICES ASSUME CountInv, Quiet, ~skipped, ~twice, ~astray,
                       NEW c \in {"pending", "approved", "denied", "banned"}
                PROVE  InStep(c)
    BY DEF CountersAgree
  <2>1. TypeInv /\ \A s \in Shown : Follows(s)
    BY DEF CountInv, Counting, Clean, Quiet
  <2>2. ASSUME NEW S PROVE Carried(S) = 0
    <3>1. Unsent(S) = {} /\ Unread(S) = {}
      BY DEF Quiet, Unsent, Unread, Uncounted
    <3>. QED
      BY <3>1, FS_EmptySet DEF Carried
  <2>3. ASSUME NEW s \in DOMAIN Counter, Counter[s] = c PROVE hash[c] = Number(s)
    <3>1. s \in Shown
      BY <2>3 DEF Counter, Shown
    <3>2. Carried({s}) = 0 /\ Carried(Successors[s]) = 0
      BY <2>2
    <3>3. hash[Counter[s]] \in Int
      BY <2>1, <3>1, CarriedType
    <3>. QED
      BY <2>1, <2>3, <3>1, <3>2, <3>3 DEF Follows
  <2>. QED
    BY <2>3 DEF InStep
<1>. QED
  BY <1>1, CountersFollow, PTL
=============================================================================
