---------------------------- MODULE RequestStore ----------------------------
(***************************************************************************)
(* The MongoDB collection of whitelist requests behind db.Service.  Each   *)
(* operation is one atomic MongoDB command on one document; nothing spans  *)
(* two of them.                                                            *)
(***************************************************************************)
CONSTANTS ReqIds,      \* ObjectIDs
          Usernames,   \* Minecraft usernames
          Ops,         \* the configured ops
          Admin,       \* updateRequestByID(..., "admin"), the dashboard
          Nobody       \* admin field of a request nobody decided

ASSUME AdminAssumption == Admin \notin Ops /\ Nobody \notin Ops /\ Admin # Nobody

VARIABLE requests      \* the documents, by _id

Statuses == {"Pending", "Approved", "Denied", "Banned", "Deactivated"}

Documents == [username  : Usernames,
              status    : Statuses,
              assignees : SUBSET Ops,
              admin     : Ops \cup {Admin, Nobody}]

Created == DOMAIN requests

RequestsTypeOK == /\ Created \subseteq ReqIds
                  /\ requests \in [Created -> Documents]

NoDocuments == [id \in {} |-> {}]

\* What GetRequests with the empty filter shows of the status field.
AllStatuses == [id \in Created |-> requests[id].status]

\* Who stored which status last.
Stored == {<<id, requests[id].status, requests[id].admin>> : id \in Created}

\* What a request must be for validateCreateRequest to refuse another one.
Blocking == {"Pending", "Approved", "Banned"}

\* GetRequests with {username, status $in [...]}
Matching(user, statuses) ==
    {id \in Created : requests[id].username = user /\ requests[id].status \in statuses}

\* InsertOne with a fresh ObjectID; the status is always "Pending".
CreateRequest(id, user) ==
    requests' = [i \in Created \cup {id} |->
                   IF i = id
                   THEN [username |-> user, status |-> "Pending",
                         assignees |-> {}, admin |-> Nobody]
                   ELSE requests[i]]

\* FindOneAndUpdate by _id alone with $set {status, admin}: the filter does
\* not mention the status the caller saw.
SetDecision(id, status, admin) ==
    requests' = [requests EXCEPT ![id].status = status, ![id].admin = admin]

\* FindOneAndUpdate by _id alone with $set {assignees}
SetAssignees(id, ops) ==
    requests' = [requests EXCEPT ![id].assignees = ops]
=============================================================================
