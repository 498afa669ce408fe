----------------------------- MODULE RconProofs -----------------------------
(***************************************************************************)
(* Proofs about RconClient, for any number of commands and of connections,  *)
(* and whatever packets are too long.                                      *)
(***************************************************************************)
EXTENDS RconClient, SequenceTheorems, FiniteSetTheorems, TLAPS

-----------------------------------------------------------------------------
(* The inductive invariant                                                 *)

Questions == {<<>>} \cup {<<p>> : p \in 0 .. MaxCalls}
Replies == {<<>>} \cup {<<a>> : a \in -1 .. MaxCalls}
Ends == [open : BOOLEAN, trusted : BOOLEAN, asked : Questions, answers : Replies]

Types == /\ at \in Places /\ calls \in 0 .. MaxCalls /\ attempt \in 0 .. Attempts
         /\ at # "idle" => calls \in 1 .. MaxCalls
         /\ conns \in Seq(Ends) /\ connection \in DOMAIN conns
         /\ server \in [up : BOOLEAN, password : BOOLEAN]
         /\ outcome \in [result : {"none", "ok", "error"}, answer : 0 .. MaxCalls]
         /\ disturbed \in BOOLEAN
         /\ executed \in Seq(Nat) /\ \A i \in DOMAIN executed : executed[i] \in 1 .. calls

\* SendCommand waits for an answer on the connection.
Exchanging == at \in {"read", "reread"}
Waits(c) == \/ Exchanging /\ c = connection
            \/ at = "welcome" /\ c = New
Packet == IF at = "welcome" THEN Auth ELSE calls
Expected(k, a) == IF at = "welcome" THEN a = BadAuth \/ (a = Auth /\ k.trusted)
                                    ELSE a = calls

\* What is under way on a connection: one packet or its answer while somebody
\* waits for it, and nothing at any other time.
Quiet(k) == k.asked = <<>> /\ k.answers = <<>>
Asked(k) == k.open /\ k.asked = <<Packet>> /\ k.answers = <<>>
Replied(k) == k.asked = <<>> /\ \E a : k.answers = <<a>> /\ Expected(k, a)
Lane(c) == \/ Quiet(conns[c]) /\ (Waits(c) => ~conns[c].open)
           \/ Waits(c) /\ (Asked(conns[c]) \/ Replied(conns[c]))
Lanes == \A c \in DOMAIN conns : Lane(c)

\* The client talks only to a server that took its password.
Trust == /\ conns[connection].trusted
         /\ at \in {"login", "welcome"} => connection # New

\* How often the current command can have been carried out by now.
Most == IF at = "write" THEN 0
        ELSE IF at \in {"read", "dial", "login", "welcome", "rewrite"} THEN 1 ELSE 2
Counts == /\ Times(calls) <= Most
          /\ Exchanging =>
                /\ conns[connection].asked # <<>> => Times(calls) < Most
                /\ conns[connection].answers # <<>> => Times(calls) > 0

\* A connection that was dialled in this call is gone only if something broke.
Causes == /\ at \in {"login", "welcome"} => disturbed \/ conns[New].open
          /\ at \in {"rewrite", "reread"} => disturbed \/ conns[connection].open

Inv == Types /\ Lanes /\ Trust /\ Counts /\ Causes /\ AnswerMatches /\ ErrorHasCause

-----------------------------------------------------------------------------
(* Sequences of one element, of connections, and of what was carried out     *)

LEMMA OneElement ==
    ASSUME NEW p \in Int
    PROVE  /\ <<p>> # <<>> /\ Head(<<p>>) = p /\ Tail(<<p>>) = <<>>
           /\ Append(<<>>, p) = <<p>>
           /\ \A q : <<p>> = <<q>> => p = q
  OBVIOUS

(* One end of the connections changes.                                     *)
LEMMA OneEnd ==
    ASSUME conns \in Seq(Ends), NEW c \in DOMAIN conns, NEW k \in Ends,
           conns' = [conns EXCEPT ![c] = k]
    PROVE  /\ conns' \in Seq(Ends) /\ DOMAIN conns' = DOMAIN conns /\ New' = New
           /\ conns'[c] = k /\ \A d \in DOMAIN conns \ {c} : conns'[d] = conns[d]
<1>1. conns' \in Seq(Ends) /\ Len(conns') = Len(conns)
  BY ExceptSeq
<1>. QED
  BY <1>1 DEF New

(* The newest connection is one.                                           *)
LEMMA NewIsOne ==
    ASSUME Types
    PROVE  /\ New \in DOMAIN conns /\ New \in Nat
           /\ \A c \in DOMAIN conns : conns[c] \in Ends
  BY DEF Types, New

LEMMA Occurrences ==
    ASSUME NEW s \in Seq(Nat), NEW call
    PROVE  LET S == {i \in DOMAIN s : s[i] = call}
           IN  Cardinality(S) \in Nat /\ (Cardinality(S) = 0 <=> S = {})
<1>. DEFINE S == {i \in DOMAIN s : s[i] = call}
<1>1. IsFiniteSet(1 .. Len(s)) /\ DOMAIN s = 1 .. Len(s)
  BY FS_Interval
<1>2. IsFiniteSet(S)
  BY <1>1, FS_Subset
<1>. QED
  BY <1>2, FS_CardinalityType, FS_EmptySet

LEMMA TimesIsNat ==
    ASSUME executed \in Seq(Nat), NEW call
    PROVE  Times(call) \in Nat /\ (Times(call) = 0 <=> \A i \in DOMAIN executed : executed[i] # call)
  BY Occurrences DEF Times

LEMMA OnceMore ==
    ASSUME executed \in Seq(Nat), NEW p \in Nat, executed' = Append(executed, p)
    PROVE  Times(p)' = Times(p) + 1
<1>. DEFINE S == {i \in DOMAIN executed : executed[i] = p}
            T == {i \in DOMAIN executed' : executed'[i] = p}
            n == Len(executed)
<1>1. n \in Nat /\ IsFiniteSet(1 .. n) /\ DOMAIN executed = 1 .. n
  BY FS_Interval
<1>2. /\ DOMAIN executed' = 1 .. (n + 1) /\ executed'[n + 1] = p
      /\ \A i \in 1 .. n : executed'[i] = executed[i]
  OBVIOUS
<1>3. T = S \cup {n + 1} /\ (n + 1) \notin S
  BY <1>1, <1>2
<1>4. IsFiniteSet(S)
  BY <1>1, FS_Subset
<1>5. Cardinality(T) = Cardinality(S) + 1
  BY <1>3, <1>4, FS_AddElement
<1>. QED
  BY <1>5 DEF Times

(* No command is carried out and none is sent.                             *)
LEMMA TimesStay ==
    ASSUME Inv, UNCHANGED <<calls, executed>>
    PROVE  /\ Times(calls)' = Times(calls) /\ Times(calls) \in Nat
           /\ Times(calls) <= Most /\ Most \in 0 .. 2
<1>1. Times(calls)' = Times(calls)
  BY DEF Times
<1>2. Times(calls) \in Nat
  BY TimesIsNat DEF Inv, Types
<1>3. Times(calls) <= Most
  BY DEF Inv, Counts
<1>. QED
  BY <1>1, <1>2, <1>3 DEF Most

(* What an end is.                                                         *)
LEMMA EndFacts ==
    ASSUME NEW k \in Ends
    PROVE  /\ k.open \in BOOLEAN /\ k.trusted \in BOOLEAN
           /\ k.asked \in Questions /\ k.answers \in Replies
           /\ k = [open |-> k.open, trusted |-> k.trusted, asked |-> k.asked, answers |-> k.answers]
  BY DEF Ends

(* Unless SendCommand waits, nothing is under way.                         *)
LEMMA NothingWaits ==
    ASSUME Lanes, ~Exchanging, at # "welcome"
    PROVE  \A c \in DOMAIN conns : Quiet(conns[c])
  BY DEF Lanes, Lane, Waits

(* When the answer is taken, nothing is left.                              *)
LEMMA Taken ==
    ASSUME Types, Lanes, NEW c \in DOMAIN conns, Waits(c), NEW a, Read(c, a)
    PROVE  /\ Expected(conns[c], a) /\ conns[c].answers # <<>>
           /\ conns' \in Seq(Ends) /\ DOMAIN conns' = DOMAIN conns /\ New' = New
           /\ \A d \in DOMAIN conns : /\ Quiet(conns'[d])
                                      /\ conns'[d].open = conns[d].open
                                      /\ conns'[d].trusted = conns[d].trusted
<1>1. conns[c] \in Ends /\ conns[c].answers # <<>> /\ a = Head(conns[c].answers)
  BY NewIsOne DEF Read
<1>2. Replied(conns[c])
  BY <1>1 DEF Lanes, Lane, Quiet, Asked
<1>3. PICK b : conns[c].answers = <<b>> /\ Expected(conns[c], b) /\ conns[c].asked = <<>>
  BY <1>2 DEF Replied
<1>4. b \in Int
  BY <1>3 DEF Expected, BadAuth, Auth, Types
<1>5. a = b /\ Tail(conns[c].answers) = <<>>
  BY <1>1, <1>3, <1>4, OneElement
<1>6. PICK k : k = [conns[c] EXCEPT !.answers = Tail(@)]
  OBVIOUS
<1>7. /\ k \in Ends /\ Quiet(k) /\ k.open = conns[c].open /\ k.trusted = conns[c].trusted
  BY <1>1, <1>3, <1>5, <1>6 DEF Ends, Quiet, Replies
<1>8. conns' = [conns EXCEPT ![c] = k]
  BY <1>6 DEF Read
<1>9. /\ conns' \in Seq(Ends) /\ DOMAIN conns' = DOMAIN conns /\ New' = New
      /\ conns'[c] = k /\ \A d \in DOMAIN conns \ {c} : conns'[d] = conns[d]
  BY <1>7, <1>8, OneEnd DEF Types
<1>10. \A d \in DOMAIN conns \ {c} : Quiet(conns[d])
  BY DEF Lanes, Lane, Waits, Exchanging
<1>. QED
  BY <1>1, <1>3, <1>5, <1>7, <1>9, <1>10

(* A packet is written on a quiet connection.                              *)
LEMMA Written ==
    ASSUME Types, NEW c \in DOMAIN conns, Quiet(conns[c]), NEW p \in 0 .. MaxCalls, Write(c, p)
    PROVE  /\ conns' \in Seq(Ends) /\ DOMAIN conns' = DOMAIN conns /\ New' = New
           /\ \A d \in DOMAIN conns \ {c} : conns'[d] = conns[d]
           /\ conns'[c].open = conns[c].open /\ conns'[c].trusted = conns[c].trusted
           /\ conns'[c].answers = <<>>
           /\ conns'[c].asked = IF conns[c].open THEN <<p>> ELSE <<>>
<1>1. conns[c] \in Ends /\ conns[c].asked = <<>> /\ conns[c].answers = <<>>
  BY NewIsOne DEF Quiet
<1>2. CASE ~conns[c].open
  BY <1>1, <1>2 DEF Write, Types, New
<1>3. CASE conns[c].open
  <2>1. PICK k : k = [conns[c] EXCEPT !.asked = Append(@, p)]
    OBVIOUS
  <2>2. Append(<<>>, p) = <<p>>
    BY OneElement
  <2>3. /\ k \in Ends /\ k.open = conns[c].open /\ k.trusted = conns[c].trusted
        /\ k.answers = <<>> /\ k.asked = <<p>>
    BY <1>1, <2>1, <2>2 DEF Ends, Questions
  <2>4. conns' = [conns EXCEPT ![c] = k]
    BY <1>3, <2>1 DEF Write
  <2>5. /\ conns' \in Seq(Ends) /\ DOMAIN conns' = DOMAIN conns /\ New' = New
        /\ conns'[c] = k /\ \A d \in DOMAIN conns \ {c} : conns'[d] = conns[d]
    BY <2>3, <2>4, OneEnd DEF Types
  <2>. QED
    BY <1>3, <2>3, <2>5
<1>. QED
  BY <1>2, <1>3

-----------------------------------------------------------------------------
(* The client                                                              *)

(* Nobody waits and nothing is under way.                                  *)
LEMMA NowQuiet ==
    ASSUME \A c \in DOMAIN conns' : Quiet(conns'[c]), at' \notin {"read", "reread", "welcome"}
    PROVE  Lanes'
  BY DEF Lanes, Lane, Waits, Exchanging, Quiet

LEMMA SendStep == ASSUME Inv, SendCommand PROVE Inv'
<1>1. /\ at = "idle" /\ at' = "write" /\ calls' = calls + 1 /\ calls < MaxCalls
      /\ attempt' = 0 /\ disturbed' = FALSE
      /\ UNCHANGED <<connection, conns, server, outcome, executed>>
  BY DEF SendCommand
<1>2. Types'
  <2>1. /\ calls \in 0 .. MaxCalls /\ calls' \in 1 .. MaxCalls /\ attempt' \in 0 .. Attempts
        /\ at' \in Places
    BY <1>1, RconAssumption DEF Inv, Types, Places, Attempts
  <2>2. \A i \in DOMAIN executed : executed[i] \in 1 .. calls'
    BY <1>1, <2>1 DEF Inv, Types
  <2>3. calls' \in 0 .. MaxCalls
    BY <2>1
  <2>4. /\ conns \in Seq(Ends) /\ connection \in DOMAIN conns
        /\ server \in [up : BOOLEAN, password : BOOLEAN]
        /\ outcome \in [result : {"none", "ok", "error"}, answer : 0 .. MaxCalls]
        /\ executed \in Seq(Nat)
    BY DEF Inv, Types
  <2>. QED
    BY <1>1, <2>1, <2>2, <2>3, <2>4 DEF Types
<1>3. Lanes'
  BY <1>1, NothingWaits, NowQuiet DEF Inv, Exchanging
<1>4. Trust'
  BY <1>1 DEF Inv, Trust
<1>5. Counts'
  <2>1. \A i \in DOMAIN executed : executed[i] # calls + 1
    BY DEF Inv, Types
  <2>2. PICK n : n = calls + 1
    OBVIOUS
  <2>3. Times(n) = 0
    BY <2>1, <2>2, TimesIsNat DEF Inv, Types
  <2>4. Times(calls)' = Times(n)
    BY <1>1, <2>2 DEF Times
  <2>. QED
    BY <1>1, <2>3, <2>4 DEF Counts, Most, Exchanging
<1>. QED
  BY <1>1, <1>2, <1>3, <1>4, <1>5 DEF Inv, Causes, AnswerMatches, ErrorHasCause, Returned

LEMMA WriteStep ==
    ASSUME Inv, NEW from, NEW to,
           (from = "write" /\ to = "read") \/ (from = "rewrite" /\ to = "reread"),
           WriteCommand(from, to)
    PROVE  Inv'
<1>1. /\ at = from /\ at' = to /\ Write(connection, calls)
      /\ UNCHANGED <<calls, attempt, connection, server, outcome, executed, disturbed>>
  BY DEF WriteCommand
<1>2. \/ at = "write" /\ at' = "read"
      \/ at = "rewrite" /\ at' = "reread"
  BY <1>1
<1>3. Types /\ connection \in DOMAIN conns /\ calls \in 1 .. MaxCalls /\ calls \in 0 .. MaxCalls
  BY <1>2 DEF Inv, Types
<1>4. \A c \in DOMAIN conns : Quiet(conns[c])
  BY <1>2, NothingWaits DEF Inv, Exchanging
<1>5. /\ conns' \in Seq(Ends) /\ DOMAIN conns' = DOMAIN conns /\ New' = New
      /\ \A d \in DOMAIN conns \ {connection} : conns'[d] = conns[d]
      /\ conns'[connection].open = conns[connection].open
      /\ conns'[connection].trusted = conns[connection].trusted
      /\ conns'[connection].answers = <<>>
      /\ conns'[connection].asked = IF conns[connection].open THEN <<calls>> ELSE <<>>
  BY <1>1, <1>3, <1>4, Written
<1>6. Types'
  BY <1>1, <1>2, <1>3, <1>5 DEF Types, Places
<1>7. Lanes'
  <2>1. Packet' = calls
    BY <1>1, <1>2 DEF Packet
  <2>2. conns[connection].open \in BOOLEAN
    BY <1>3, NewIsOne, EndFacts
  <2>3. ASSUME NEW c \in DOMAIN conns PROVE Lane(c)'
    <3>1. CASE c = connection
      <4>1. CASE conns[connection].open
        BY <1>1, <1>2, <1>5, <2>1, <3>1, <4>1 DEF Lane, Asked, Waits, Exchanging
      <4>2. CASE ~conns[connection].open
        BY <1>5, <3>1, <4>2 DEF Lane, Quiet
      <4>. QED
        BY <4>1, <4>2
    <3>2. CASE c # connection
      BY <1>1, <1>2, <1>4, <1>5, <3>2 DEF Lane, Quiet, Waits, Exchanging
    <3>. QED
      BY <3>1, <3>2
  <2>. QED
    BY <1>5, <2>3 DEF Lanes
<1>8. Trust'
  BY <1>1, <1>2, <1>5 DEF Inv, Trust
<1>9. Counts'
  <2>1. /\ Times(calls)' = Times(calls) /\ Times(calls) \in Nat
        /\ Times(calls) <= Most /\ Most \in 0 .. 2
    BY <1>1, TimesStay
  <2>2. Most' = Most + 1
    BY <1>2 DEF Most
  <2>. QED
    BY <1>1, <1>5, <2>1, <2>2 DEF Counts
<1>10. Causes'
  BY <1>1, <1>2, <1>5 DEF Inv, Causes
<1>. QED
  BY <1>2, <1>6, <1>7, <1>8, <1>9, <1>10 DEF Inv, AnswerMatches, ErrorHasCause, Returned

LEMMA AnswerStep == ASSUME Inv, GetAnswer PROVE Inv'
<1>1. /\ at \in {"read", "reread"} /\ at' = "idle"
      /\ UNCHANGED <<calls, attempt, connection, server, executed, disturbed>>
  BY DEF GetAnswer, Answered, Return
<1>2. PICK a \in -1 .. MaxCalls : Read(connection, a) /\ Accepts(a) /\ Answered(a)
  BY DEF GetAnswer
<1>3. Types /\ Lanes /\ connection \in DOMAIN conns /\ Waits(connection)
  <2>1. Waits(connection)
    BY <1>1 DEF Waits, Exchanging
  <2>. QED
    BY <2>1 DEF Inv, Types
<1>4. /\ Expected(conns[connection], a) /\ conns[connection].answers # <<>>
      /\ conns' \in Seq(Ends) /\ DOMAIN conns' = DOMAIN conns
      /\ \A d \in DOMAIN conns : /\ Quiet(conns'[d])
                                 /\ conns'[d].trusted = conns[d].trusted
  BY <1>2, <1>3, Taken
<1>5. a = calls /\ outcome' = [result |-> "ok", answer |-> a]
  BY <1>1, <1>2, <1>4 DEF Expected, Answered, Return
<1>6. Types'
  BY <1>1, <1>3, <1>4, <1>5 DEF Types, Places
<1>7. Lanes'
  BY <1>1, <1>4, NowQuiet
<1>8. Trust'
  BY <1>1, <1>3, <1>4 DEF Inv, Trust
<1>9. Times(calls)' = Times(calls) /\ Times(calls) \in Nat /\ Times(calls) > 0 /\ Times(calls) <= 2
  <2>1. Times(calls) > 0
    BY <1>1, <1>4 DEF Inv, Counts, Exchanging
  <2>. QED
    BY <1>1, <2>1, TimesStay
<1>10. Counts'
  BY <1>1, <1>9 DEF Counts, Most, Exchanging
<1>11. AnswerMatches' /\ ErrorHasCause'
  BY <1>1, <1>5, <1>9 DEF AnswerMatches, ErrorHasCause, Returned
<1>. QED
  BY <1>1, <1>6, <1>7, <1>8, <1>10, <1>11 DEF Inv, Causes

(* An exchange fails on a connection that is gone, or because the packet is *)
(* too long; the server never takes the client for a stranger.             *)
LEMMA FailedExchange ==
    ASSUME Inv, NEW from, NEW to,
           (from = "write" /\ to = "read") \/ (from = "rewrite" /\ to = "reread"),
           ExchangeFails(from, to)
    PROVE  /\ at \in {from, to} /\ conns' = conns
           /\ calls \in TooLong \/ ~conns[connection].open
           /\ \A c \in DOMAIN conns : Quiet(conns[c])
<1>1. from \in {"write", "rewrite"} /\ to \in {"read", "reread"}
  OBVIOUS
<1>2. CASE at = from /\ (calls \in TooLong \/ ~conns[connection].open) /\ UNCHANGED conns
  BY <1>1, <1>2, NothingWaits DEF Inv, Exchanging
<1>3. CASE at = to /\ Broken(connection) /\ UNCHANGED conns
  <2>1. ~conns[connection].open /\ conns[connection].answers = <<>>
    BY <1>3 DEF Broken
  <2>2. ~Asked(conns[connection]) /\ ~Replied(conns[connection])
    BY <2>1 DEF Asked, Replied
  <2>3. Quiet(conns[connection])
    BY <2>2 DEF Inv, Types, Lanes, Lane
  <2>4. \A c \in DOMAIN conns \ {connection} : Quiet(conns[c])
    BY <1>1, <1>3 DEF Inv, Lanes, Lane, Waits, Exchanging
  <2>. QED
    BY <1>3, <2>1, <2>3, <2>4
<1>4. ASSUME at = to, NEW a, Read(connection, a), ~Accepts(a) PROVE FALSE
  <2>1. Types /\ Lanes /\ connection \in DOMAIN conns /\ Waits(connection)
    <3>1. Waits(connection)
      BY <1>1, <1>4 DEF Waits, Exchanging
    <3>. QED
      BY <3>1 DEF Inv, Types
  <2>2. Expected(conns[connection], a)
    BY <1>4, <2>1, Taken
  <2>3. a = calls /\ calls \in 0 .. MaxCalls
    BY <1>1, <1>4, <2>2 DEF Expected, Inv, Types
  <2>. QED
    BY <1>4, <2>3, RconAssumption DEF Accepts, BadAuth
<1>. QED
  BY <1>2, <1>3, <1>4 DEF ExchangeFails

LEMMA FirstFailsStep == ASSUME Inv, FirstFails PROVE Inv'
<1>1. /\ at' = "dial" /\ attempt' = 1 /\ ExchangeFails("write", "read")
      /\ UNCHANGED <<calls, connection, server, outcome, executed, disturbed>>
  BY DEF FirstFails
<1>2. /\ at \in {"write", "read"} /\ conns' = conns
      /\ \A c \in DOMAIN conns : Quiet(conns[c])
  BY <1>1, FailedExchange
<1>3. Types'
  BY <1>1, <1>2 DEF Inv, Types, Places, Attempts
<1>4. Lanes'
  BY <1>1, <1>2, NowQuiet
<1>5. Trust'
  BY <1>1, <1>2 DEF Inv, Trust
<1>6. Counts'
  <2>1. Times(calls)' = Times(calls) /\ Times(calls) \in Nat /\ Times(calls) <= 1
    BY <1>1, <1>2, TimesStay DEF Most
  <2>. QED
    BY <1>1, <2>1 DEF Counts, Most, Exchanging
<1>. QED
  BY <1>1, <1>3, <1>4, <1>5, <1>6 DEF Inv, Causes, AnswerMatches, ErrorHasCause, Returned

LEMMA ResendFailsStep == ASSUME Inv, ResendFails PROVE Inv'
<1>1. /\ at' = "idle" /\ outcome' = [result |-> "error", answer |-> Auth]
      /\ ExchangeFails("rewrite", "reread")
      /\ UNCHANGED <<calls, attempt, connection, server, executed, disturbed>>
  BY DEF ResendFails, Failed, Return
<1>2. /\ at \in {"rewrite", "reread"} /\ conns' = conns
      /\ calls \in TooLong \/ ~conns[connection].open
      /\ \A c \in DOMAIN conns : Quiet(conns[c])
  BY <1>1, FailedExchange
<1>3. Types'
  BY <1>1, <1>2, RconAssumption DEF Inv, Types, Places, Auth
<1>4. Lanes'
  BY <1>1, <1>2, NowQuiet
<1>5. Trust'
  BY <1>1, <1>2 DEF Inv, Trust
<1>6. Counts'
  <2>1. Times(calls)' = Times(calls) /\ Times(calls) \in Nat /\ Times(calls) <= 2
    BY <1>1, <1>2, TimesStay DEF Most
  <2>. QED
    BY <1>1, <2>1 DEF Counts, Most, Exchanging
<1>7. disturbed \/ calls \in TooLong
  BY <1>2 DEF Inv, Causes
<1>. QED
  BY <1>1, <1>3, <1>4, <1>5, <1>6, <1>7 DEF Inv, Causes, AnswerMatches, ErrorHasCause, Returned

LEMMA DialStep == ASSUME Inv, Dial PROVE Inv'
<1>1. /\ at = "dial" /\ at' = "login" /\ conns' = Append(conns, Fresh)
      /\ UNCHANGED <<calls, attempt, connection, server, outcome, executed, disturbed>>
  BY DEF Dial
<1>2. Fresh \in Ends /\ Quiet(Fresh) /\ Fresh.open = TRUE
  BY DEF Fresh, Ends, Questions, Replies, Quiet
<1>3. Types /\ New \in Nat /\ connection \in DOMAIN conns /\ conns \in Seq(Ends)
  BY NewIsOne DEF Inv, Types
<1>4. /\ conns' \in Seq(Ends) /\ New' = New + 1 /\ DOMAIN conns' = DOMAIN conns \cup {New + 1}
      /\ conns'[New + 1] = Fresh /\ connection # New + 1
      /\ \A c \in DOMAIN conns : conns'[c] = conns[c]
  BY <1>1, <1>2, <1>3 DEF New
<1>5. Types'
  BY <1>1, <1>3, <1>4 DEF Types, Places
<1>6. Lanes'
  <2>1. \A c \in DOMAIN conns : Quiet(conns[c])
    BY <1>1, NothingWaits DEF Inv, Exchanging
  <2>2. \A c \in DOMAIN conns' : Quiet(conns'[c])
    BY <1>2, <1>4, <2>1
  <2>. QED
    BY <1>1, <2>2, NowQuiet
<1>7. Trust'
  BY <1>1, <1>3, <1>4 DEF Inv, Trust
<1>8. Counts'
  <2>1. Times(calls)' = Times(calls)
    BY <1>1 DEF Times
  <2>. QED
    BY <1>1, <2>1 DEF Inv, Counts, Most, Exchanging
<1>9. Causes'
  BY <1>1, <1>2, <1>4 DEF Causes
<1>. QED
  BY <1>1, <1>5, <1>6, <1>7, <1>8, <1>9 DEF Inv, AnswerMatches, ErrorHasCause, Returned

LEMMA LoginStep == ASSUME Inv, Login PROVE Inv'
<1>1. /\ at = "login" /\ at' = "welcome" /\ Write(New, Auth)
      /\ UNCHANGED <<calls, attempt, connection, server, outcome, executed, disturbed>>
  BY DEF Login
<1>2. Types /\ New \in DOMAIN conns /\ Auth \in 0 .. MaxCalls
  BY RconAssumption, NewIsOne DEF Inv, Auth
<1>3. \A c \in DOMAIN conns : Quiet(conns[c])
  BY <1>1, NothingWaits DEF Inv, Exchanging
<1>4. /\ conns' \in Seq(Ends) /\ DOMAIN conns' = DOMAIN conns /\ New' = New
      /\ \A d \in DOMAIN conns \ {New} : conns'[d] = conns[d]
      /\ conns'[New].open = conns[New].open
      /\ conns'[New].answers = <<>>
      /\ conns'[New].asked = IF conns[New].open THEN <<Auth>> ELSE <<>>
  BY <1>1, <1>2, <1>3, Written
<1>5. Types'
  BY <1>1, <1>2, <1>4 DEF Types, Places
<1>6. Lanes'
  <2>1. Packet' = Auth
    BY <1>1 DEF Packet
  <2>2. conns[New].open \in BOOLEAN
    BY <1>2, NewIsOne, EndFacts
  <2>3. ASSUME NEW c \in DOMAIN conns PROVE Lane(c)'
    <3>1. CASE c = New
      BY <1>1, <1>4, <2>1, <2>2, <3>1 DEF Lane, Quiet, Asked, Waits, Exchanging
    <3>2. CASE c # New
      BY <1>1, <1>3, <1>4, <3>2 DEF Lane, Quiet, Waits, Exchanging
    <3>. QED
      BY <3>1, <3>2
  <2>. QED
    BY <1>4, <2>3 DEF Lanes
<1>7. Trust'
  <2>1. connection # New /\ connection \in DOMAIN conns /\ conns[connection].trusted
    BY <1>1 DEF Inv, Types, Trust
  <2>. QED
    BY <1>1, <1>4, <2>1 DEF Trust
<1>8. Counts'
  <2>1. Times(calls)' = Times(calls)
    BY <1>1 DEF Times
  <2>. QED
    BY <1>1, <2>1 DEF Inv, Counts, Most, Exchanging
<1>9. Causes'
  BY <1>1, <1>4 DEF Inv, Causes
<1>. QED
  BY <1>1, <1>5, <1>6, <1>7, <1>8, <1>9 DEF Inv, AnswerMatches, ErrorHasCause, Returned

(* The new connection is stored only if the server took the password.       *)
LEMMA ReconnectedStep == ASSUME Inv, Reconnected PROVE Inv'
<1>1. /\ at = "welcome" /\ at' = "rewrite" /\ connection' = New
      /\ UNCHANGED <<calls, attempt, server, outcome, executed, disturbed>>
  BY DEF Reconnected
<1>2. PICK a \in -1 .. MaxCalls : Read(New, a) /\ Accepts(a)
  BY DEF Reconnected
<1>3. Types /\ Lanes /\ New \in DOMAIN conns /\ Waits(New)
  BY <1>1, NewIsOne DEF Inv, Waits
<1>4. /\ Expected(conns[New], a)
      /\ conns' \in Seq(Ends) /\ DOMAIN conns' = DOMAIN conns /\ New' = New
      /\ \A d \in DOMAIN conns : /\ Quiet(conns'[d])
                                 /\ conns'[d].open = conns[d].open
                                 /\ conns'[d].trusted = conns[d].trusted
  BY <1>2, <1>3, Taken
<1>5. conns[New].trusted
  BY <1>1, <1>2, <1>4 DEF Expected, Accepts
<1>6. Types'
  BY <1>1, <1>3, <1>4 DEF Types, Places
<1>7. Lanes'
  BY <1>1, <1>4, NowQuiet
<1>8. Trust'
  BY <1>1, <1>3, <1>4, <1>5 DEF Trust
<1>9. Counts'
  <2>1. Times(calls)' = Times(calls)
    BY <1>1 DEF Times
  <2>. QED
    BY <1>1, <2>1 DEF Inv, Counts, Most, Exchanging
<1>10. Causes'
  BY <1>1, <1>3, <1>4 DEF Inv, Causes
<1>. QED
  BY <1>1, <1>6, <1>7, <1>8, <1>9, <1>10 DEF Inv, AnswerMatches, ErrorHasCause, Returned

(* An attempt that fails leaves nothing on the connection it gives up.      *)
LEMMA NextAttemptStep == ASSUME Inv, NextAttempt PROVE Inv'
<1>1. /\ at \in {"dial", "login", "welcome"} /\ disturbed' = TRUE
      /\ UNCHANGED <<calls, connection, server, executed>>
      /\ \/ at' = "dial" /\ attempt < Attempts /\ attempt' = attempt + 1 /\ outcome' = outcome
         \/ /\ at' = "idle" /\ attempt' = attempt
            /\ outcome' = [result |-> "error", answer |-> Auth]
  BY DEF NextAttempt, ConnectFails, Failed, Return
<1>2. Types /\ Lanes /\ New \in DOMAIN conns
  BY NewIsOne DEF Inv
<1>3. /\ conns' \in Seq(Ends) /\ DOMAIN conns' = DOMAIN conns
      /\ \A d \in DOMAIN conns : Quiet(conns'[d]) /\ conns'[d].trusted = conns[d].trusted
  <2>1. CASE at \in {"dial", "login"} /\ conns' = conns
    BY <1>2, <2>1, NothingWaits DEF Exchanging, Types
  <2>2. CASE at = "welcome" /\ Broken(New) /\ conns' = conns
    <3>1. ~Asked(conns[New]) /\ ~Replied(conns[New])
      BY <2>2 DEF Asked, Replied, Broken
    <3>2. Quiet(conns[New])
      BY <1>2, <3>1 DEF Lanes, Lane
    <3>3. \A c \in DOMAIN conns \ {New} : Quiet(conns[c])
      BY <1>2, <2>2 DEF Lanes, Lane, Waits, Exchanging
    <3>. QED
      BY <1>2, <2>2, <3>2, <3>3 DEF Types
  <2>3. ASSUME at = "welcome", NEW a, Read(New, a)
        PROVE  /\ conns' \in Seq(Ends) /\ DOMAIN conns' = DOMAIN conns
               /\ \A d \in DOMAIN conns : Quiet(conns'[d]) /\ conns'[d].trusted = conns[d].trusted
    <3>1. Waits(New)
      BY <2>3 DEF Waits
    <3>. QED
      BY <1>2, <2>3, <3>1, Taken
  <2>. QED
    BY <2>1, <2>2, <2>3 DEF NextAttempt, ConnectFails
<1>4. Types'
  BY <1>1, <1>2, <1>3, RconAssumption DEF Types, Places, Attempts, Auth
<1>5. Lanes'
  BY <1>1, <1>3, NowQuiet
<1>6. Trust'
  BY <1>1, <1>2, <1>3 DEF Inv, Types, Trust
<1>7. Counts'
  <2>1. Times(calls)' = Times(calls) /\ Times(calls) \in Nat /\ Times(calls) <= 1
    BY <1>1, <1>2, TimesStay DEF Most
  <2>. QED
    BY <1>1, <2>1 DEF Counts, Most, Exchanging
<1>. QED
  BY <1>1, <1>4, <1>5, <1>6, <1>7 DEF Inv, Causes, AnswerMatches, ErrorHasCause, Returned

-----------------------------------------------------------------------------
(* The game server and the network                                         *)

(* The server's answer to the packet that is under way.                     *)
LEMMA ServeStep == ASSUME Inv, NEW c \in DOMAIN conns, Serve(c) PROVE Inv'
<1>. DEFINE k == conns[c]
<1>1. /\ k.open /\ k.asked # <<>>
      /\ UNCHANGED <<at, calls, attempt, connection, server, outcome, disturbed>>
  BY DEF Serve
<1>2. Types /\ k \in Ends
  BY NewIsOne DEF Inv
<1>3. Waits(c) /\ k.asked = <<Packet>> /\ k.answers = <<>>
  BY <1>1 DEF Inv, Lanes, Lane, Quiet, Asked, Replied
<1>4. Packet \in 0 .. MaxCalls
  BY <1>2, RconAssumption DEF Packet, Types, Auth
<1>5. PICK p : p = Packet
  OBVIOUS
<1>6. p \in Int /\ p \in 0 .. MaxCalls /\ Head(k.asked) = p /\ Tail(k.asked) = <<>>
  BY <1>3, <1>4, <1>5, OneElement
<1>7. \A d \in DOMAIN conns \ {c} : Quiet(conns[d]) /\ ~Waits(d)
  BY <1>3 DEF Inv, Lanes, Lane, Waits, Exchanging
<1>8. ASSUME NEW j \in Ends, NEW a \in -1 .. MaxCalls, conns' = [conns EXCEPT ![c] = j],
             j.open = k.open, j.asked = <<>>, j.answers = <<a>>,
             Expected(j, a), c = connection => j.trusted,
             executed' \in Seq(Nat), \A i \in DOMAIN executed' : executed'[i] \in 1 .. calls,
             Times(calls)' <= Most, Exchanging => Times(calls)' > 0
      PROVE  Inv'
  <2>1. /\ conns' \in Seq(Ends) /\ DOMAIN conns' = DOMAIN conns /\ New' = New
        /\ conns'[c] = j /\ \A d \in DOMAIN conns \ {c} : conns'[d] = conns[d]
    BY <1>2, <1>8, OneEnd DEF Types
  <2>2. Types'
    BY <1>1, <1>2, <1>8, <2>1 DEF Types
  <2>3. \A d \in DOMAIN conns : Waits(d)' <=> Waits(d)
    BY <1>1, <2>1 DEF Waits, Exchanging
  <2>4. Lane(c)'
    <3>1. Replied(j)'
      BY <1>1, <1>8 DEF Replied, Expected
    <3>. QED
      BY <1>3, <2>1, <2>3, <3>1 DEF Lane
  <2>5. \A d \in DOMAIN conns \ {c} : Lane(d)'
    BY <1>7, <2>1, <2>3 DEF Lane, Quiet
  <2>6. Lanes'
    BY <2>1, <2>4, <2>5 DEF Lanes
  <2>7. connection \in DOMAIN conns
    BY <1>2 DEF Types
  <2>8. Trust'
    BY <1>1, <1>8, <2>1, <2>7 DEF Inv, Trust
  <2>9. Counts'
    <3>1. c = connection => conns'[connection].asked = <<>>
      BY <1>8, <2>1
    <3>2. Exchanging => c = connection
      BY <1>3 DEF Waits, Exchanging
    <3>3. Most' = Most /\ Exchanging' = Exchanging
      BY <1>1 DEF Most, Exchanging
    <3>. QED
      BY <1>1, <1>8, <3>1, <3>2, <3>3 DEF Counts
  <2>10. Causes'
    <3>1. \A d \in DOMAIN conns : conns'[d].open = conns[d].open
      BY <1>8, <2>1
    <3>2. conns'[New'].open = conns[New].open /\ conns'[connection].open = conns[connection].open
      BY <2>1, <2>7, <3>1, NewIsOne DEF Inv
    <3>. QED
      BY <1>1, <3>2 DEF Inv, Causes
  <2>11. at # "idle"
    BY <1>3 DEF Waits, Exchanging
  <2>. QED
    BY <1>1, <2>2, <2>6, <2>8, <2>9, <2>10, <2>11 DEF Inv, AnswerMatches, ErrorHasCause, Returned
<1>9. CASE /\ p = Auth
           /\ conns' = [conns EXCEPT ![c] =
                [k EXCEPT !.asked = Tail(@), !.trusted = server.password,
                          !.answers = Append(@, IF server.password THEN Auth ELSE BadAuth)]]
           /\ executed' = executed
  <2>1. PICK a : a = IF server.password THEN Auth ELSE BadAuth
    OBVIOUS
  <2>2. a \in -1 .. MaxCalls /\ a \in Int /\ server.password \in BOOLEAN
    BY <1>2, <2>1, RconAssumption DEF Auth, BadAuth, Types
  <2>3. Append(<<>>, a) = <<a>>
    BY <2>2, OneElement
  <2>4. PICK j : j = [k EXCEPT !.asked = Tail(@), !.trusted = server.password,
                               !.answers = Append(@, a)]
    OBVIOUS
  <2>5. /\ j \in Ends /\ j.open = k.open /\ j.asked = <<>> /\ j.answers = <<a>>
        /\ j.trusted = server.password
    BY <1>2, <1>3, <1>6, <2>2, <2>3, <2>4 DEF Ends, Questions, Replies
  <2>6. conns' = [conns EXCEPT ![c] = j]
    BY <1>9, <2>1, <2>4
  <2>7. at = "welcome" /\ c = New
    <3>1. Exchanging => calls # Auth /\ at # "welcome"
      BY <1>2 DEF Exchanging, Types, Auth
    <3>. QED
      BY <1>3, <1>5, <1>9, <3>1 DEF Packet, Waits
  <2>8. Expected(j, a) /\ c # connection
    BY <2>1, <2>5, <2>7 DEF Expected, Inv, Trust
  <2>9. Times(calls)' <= Most /\ ~Exchanging
    BY <1>1, <1>9, <2>7, TimesStay DEF Exchanging
  <2>10. executed' \in Seq(Nat) /\ \A i \in DOMAIN executed' : executed'[i] \in 1 .. calls
    BY <1>2, <1>9 DEF Types
  <2>. QED
    BY <1>8, <2>2, <2>5, <2>6, <2>8, <2>9, <2>10
<1>10. CASE /\ p # Auth /\ k.trusted
            /\ conns' = [conns EXCEPT ![c] = [k EXCEPT !.asked = Tail(@), !.answers = Append(@, p)]]
            /\ executed' = Append(executed, p)
  <2>1. Append(<<>>, p) = <<p>>
    BY <1>6, OneElement
  <2>2. PICK j : j = [k EXCEPT !.asked = Tail(@), !.answers = Append(@, p)]
    OBVIOUS
  <2>3. /\ j \in Ends /\ j.open = k.open /\ j.asked = <<>> /\ j.answers = <<p>>
        /\ j.trusted = k.trusted
    <3>1. <<p>> \in Replies /\ <<>> \in Questions
      <4>1. p \in -1 .. MaxCalls
        BY <1>6, RconAssumption
      <4>. QED
        BY <4>1 DEF Replies, Questions
    <3>2. /\ k.open \in BOOLEAN /\ k.trusted \in BOOLEAN
          /\ k = [open |-> k.open, trusted |-> k.trusted, asked |-> k.asked, answers |-> k.answers]
      BY <1>2, EndFacts
    <3>3. j = [k EXCEPT !.asked = <<>>, !.answers = <<p>>]
      BY <1>3, <1>6, <2>1, <2>2
    <3>4. j = [open |-> k.open, trusted |-> k.trusted, asked |-> <<>>, answers |-> <<p>>]
      BY <3>2, <3>3
    <3>. QED
      BY <3>1, <3>2, <3>4 DEF Ends
  <2>4. Exchanging /\ c = connection /\ p = calls
    BY <1>3, <1>5, <1>10 DEF Packet, Waits, Exchanging
  <2>5. Expected(j, p) /\ p \in -1 .. MaxCalls
    BY <1>6, <2>4 DEF Expected, Exchanging
  <2>6. p \in 1 .. calls /\ p \in Nat /\ executed \in Seq(Nat)
    BY <1>2, <2>4 DEF Types, Exchanging
  <2>7. executed' \in Seq(Nat) /\ \A i \in DOMAIN executed' : executed'[i] \in 1 .. calls
    BY <1>2, <1>10, <2>6 DEF Types
  <2>8. Times(p)' = Times(p) + 1
    BY <1>10, <2>6, OnceMore
  <2>9. Times(p) \in Nat /\ Times(p) < Most
    BY <1>1, <1>2, <2>4, <2>6, TimesIsNat DEF Inv, Counts
  <2>10. Times(calls)' = Times(p)'
    BY <1>1, <2>4 DEF Times
  <2>11. Times(calls)' <= Most /\ Times(calls)' > 0
    BY <2>8, <2>9, <2>10 DEF Most
  <2>12. conns' = [conns EXCEPT ![c] = j]
    BY <1>10, <2>2
  <2>. QED
    BY <1>8, <1>10, <2>3, <2>5, <2>7, <2>11, <2>12
<1>11. p # Auth => k.trusted
  BY <1>3, <1>5 DEF Packet, Waits, Inv, Trust
<1>. QED
  BY <1>6, <1>9, <1>10, <1>11 DEF Serve

(* Connections break: what was asked is lost, and perhaps the answer.       *)
LEMMA CutStep ==
    ASSUME Inv, UNCHANGED <<at, calls, attempt, connection, outcome, executed>>,
           server' \in [up : BOOLEAN, password : BOOLEAN],
           disturbed' = (disturbed \/ at # "idle"),
           conns' \in Seq(Ends), DOMAIN conns' = DOMAIN conns, New' = New,
           \A c \in DOMAIN conns :
              \/ conns'[c] = conns[c]
              \/ /\ conns'[c].open = FALSE /\ conns'[c].trusted = conns[c].trusted
                 /\ conns'[c].asked = <<>> /\ conns'[c].answers \in {conns[c].answers, <<>>}
    PROVE  Inv'
<1>1. Types'
  BY DEF Inv, Types
<1>2. ASSUME NEW c \in DOMAIN conns PROVE Lane(c)'
  <2>1. Lane(c) /\ (Waits(c)' <=> Waits(c)) /\ Packet' = Packet
    BY DEF Inv, Lanes, Waits, Exchanging, Packet
  <2>2. CASE conns'[c] = conns[c]
    BY <2>1, <2>2 DEF Lane, Quiet, Asked, Replied, Expected
  <2>3. CASE /\ conns'[c].open = FALSE /\ conns'[c].trusted = conns[c].trusted
             /\ conns'[c].asked = <<>> /\ conns'[c].answers = <<>>
    BY <2>3 DEF Lane, Quiet
  <2>4. CASE /\ conns'[c].open = FALSE /\ conns'[c].trusted = conns[c].trusted
             /\ conns'[c].asked = <<>> /\ conns'[c].answers = conns[c].answers
    <3>1. CASE conns[c].answers = <<>>
      BY <2>4, <3>1 DEF Lane, Quiet
    <3>2. CASE conns[c].answers # <<>>
      <4>1. Waits(c) /\ Replied(conns[c])
        BY <2>1, <3>2 DEF Lane, Quiet, Asked
      <4>2. PICK a : conns[c].answers = <<a>> /\ Expected(conns[c], a)
        BY <4>1 DEF Replied
      <4>3. PICK k : k = conns'[c]
        OBVIOUS
      <4>4. Replied(k)'
        BY <2>4, <4>2, <4>3 DEF Replied, Expected
      <4>. QED
        BY <2>1, <2>4, <4>1, <4>3, <4>4 DEF Lane
    <3>. QED
      BY <3>1, <3>2
  <2>. QED
    BY <2>2, <2>3, <2>4
<1>3. Lanes'
  BY <1>2 DEF Lanes
<1>4. connection \in DOMAIN conns /\ New \in DOMAIN conns
  BY NewIsOne DEF Inv, Types
<1>5. Trust'
  BY <1>4 DEF Inv, Trust
<1>6. Counts'
  <2>1. Times(calls)' = Times(calls) /\ Most' = Most /\ Exchanging' = Exchanging
    BY DEF Times, Most, Exchanging
  <2>2. /\ conns'[connection].asked # <<>> => conns[connection].asked # <<>>
        /\ conns'[connection].answers # <<>> => conns[connection].answers # <<>>
    BY <1>4
  <2>. QED
    BY <2>1, <2>2 DEF Inv, Counts
<1>7. Causes'
  BY DEF Causes
<1>8. AnswerMatches' /\ ErrorHasCause'
  BY DEF Inv, AnswerMatches, ErrorHasCause, Returned, Times
<1>. QED
  BY <1>1, <1>3, <1>5, <1>6, <1>7, <1>8 DEF Inv

(* What a connection is after it broke.                                    *)
LEMMA CutEnd ==
    ASSUME NEW k \in Ends, NEW arrives \in BOOLEAN
    PROVE  /\ Cut(k, arrives) \in Ends /\ Cut(k, arrives).open = FALSE
           /\ Cut(k, arrives).trusted = k.trusted /\ Cut(k, arrives).asked = <<>>
           /\ Cut(k, arrives).answers \in {k.answers, <<>>}
  BY DEF Cut, Ends, Questions, Replies

LEMMA ResetStep == ASSUME Inv, NEW c \in DOMAIN conns, Reset(c) PROVE Inv'
<1>1. /\ UNCHANGED <<at, calls, attempt, connection, server, outcome, executed>>
      /\ disturbed' = (disturbed \/ at # "idle")
  BY DEF Reset
<1>2. PICK arrives \in BOOLEAN : conns' = [conns EXCEPT ![c] = Cut(@, arrives)]
  BY DEF Reset
<1>3. PICK k : k = Cut(conns[c], arrives)
  OBVIOUS
<1>4. /\ k \in Ends /\ k.open = FALSE /\ k.trusted = conns[c].trusted /\ k.asked = <<>>
      /\ k.answers \in {conns[c].answers, <<>>}
  <2>1. conns[c] \in Ends
    BY NewIsOne DEF Inv
  <2>. QED
    BY <1>3, <2>1, CutEnd
<1>5. conns' = [conns EXCEPT ![c] = k]
  BY <1>2, <1>3
<1>6. /\ conns' \in Seq(Ends) /\ DOMAIN conns' = DOMAIN conns /\ New' = New
      /\ conns'[c] = k /\ \A d \in DOMAIN conns \ {c} : conns'[d] = conns[d]
  BY <1>4, <1>5, OneEnd DEF Inv, Types
<1>7. server' \in [up : BOOLEAN, password : BOOLEAN]
  BY <1>1 DEF Inv, Types
<1>. QED
  BY <1>1, <1>4, <1>6, <1>7, CutStep

LEMMA StopsStep == ASSUME Inv, ServerStops PROVE Inv'
<1>1. /\ UNCHANGED <<at, calls, attempt, connection, outcome, executed>>
      /\ disturbed' = (disturbed \/ at # "idle") /\ server' = [server EXCEPT !.up = FALSE]
  BY DEF ServerStops
<1>2. PICK arrives \in BOOLEAN : conns' = [c \in DOMAIN conns |-> Cut(conns[c], arrives)]
  BY DEF ServerStops
<1>3. conns \in Seq(Ends) /\ \A c \in DOMAIN conns : conns[c] \in Ends
  BY NewIsOne DEF Inv, Types
<1>4. \A c \in DOMAIN conns :
         /\ conns'[c] \in Ends
         /\ conns'[c].open = FALSE /\ conns'[c].trusted = conns[c].trusted
         /\ conns'[c].asked = <<>> /\ conns'[c].answers \in {conns[c].answers, <<>>}
  BY <1>2, <1>3, CutEnd
<1>5. conns' \in Seq(Ends) /\ DOMAIN conns' = DOMAIN conns /\ New' = New
  <2>1. DOMAIN conns = 1 .. Len(conns) /\ Len(conns) \in Nat
    BY <1>3
  <2>2. conns' \in [1 .. Len(conns) -> Ends]
    BY <1>2, <1>4, <2>1
  <2>. QED
    BY <2>1, <2>2 DEF New
<1>6. server' \in [up : BOOLEAN, password : BOOLEAN]
  BY <1>1 DEF Inv, Types
<1>. QED
  BY <1>1, <1>4, <1>5, <1>6, CutStep

(* What the server's password is, and nothing at all, changes nothing else.  *)
LEMMA ElseStep ==
    ASSUME Inv, UNCHANGED <<at, calls, attempt, connection, conns, outcome, executed, disturbed>>,
           server' \in [up : BOOLEAN, password : BOOLEAN]
    PROVE  Inv'
<1>1. Types' /\ Lanes' /\ Trust' /\ Causes'
  BY DEF Inv, Types, Lanes, Lane, Quiet, Asked, Replied, Expected, Packet, Waits, Exchanging,
         New, Trust, Causes
<1>2. Counts' /\ AnswerMatches' /\ ErrorHasCause'
  BY DEF Inv, Counts, Most, Exchanging, Times, AnswerMatches, ErrorHasCause, Returned
<1>. QED
  BY <1>1, <1>2 DEF Inv

-----------------------------------------------------------------------------
(* The specification                                                       *)

LEMMA InitInv == ASSUME RInit PROVE Inv
<1>1. PICK k : k = [Fresh EXCEPT !.trusted = TRUE]
  OBVIOUS
<1>2. k \in Ends /\ k.trusted = TRUE /\ Quiet(k)
  BY <1>1 DEF Fresh, Ends, Questions, Replies, Quiet
<1>3. /\ conns = <<k>> /\ at = "idle" /\ calls = 0 /\ attempt = 0 /\ connection = 1
      /\ outcome = [result |-> "none", answer |-> 0] /\ executed = <<>> /\ disturbed = FALSE
      /\ server = [up |-> TRUE, password |-> TRUE]
  BY <1>1 DEF RInit, NoOutcome, Auth
<1>4. conns \in Seq(Ends) /\ DOMAIN conns = {1} /\ conns[1] = k
  BY <1>2, <1>3
<1>5. Types
  <2>1. outcome \in [result : {"none", "ok", "error"}, answer : 0 .. MaxCalls]
    BY <1>3, RconAssumption
  <2>2. /\ executed \in Seq(Nat) /\ \A i \in DOMAIN executed : executed[i] \in 1 .. calls
        /\ server \in [up : BOOLEAN, password : BOOLEAN]
    BY <1>3
  <2>3. at \in Places /\ calls \in 0 .. MaxCalls /\ attempt \in 0 .. Attempts
    BY <1>3, RconAssumption DEF Places, Attempts
  <2>. QED
    BY <1>3, <1>4, <2>1, <2>2, <2>3 DEF Types
<1>6. Lanes
  BY <1>2, <1>3, <1>4 DEF Lanes, Lane, Waits, Exchanging
<1>7. Trust /\ Causes
  BY <1>2, <1>3, <1>4 DEF Trust, Causes
<1>8. Counts
  <2>1. Times(calls) = 0
    BY <1>3, <1>5, TimesIsNat DEF Types
  <2>. QED
    BY <1>3, <2>1 DEF Counts, Most, Exchanging
<1>. QED
  BY <1>3, <1>5, <1>6, <1>7, <1>8 DEF Inv, AnswerMatches, ErrorHasCause, Returned

LEMMA NextInv == Inv /\ [RNext]_vars => Inv'
<1>. SUFFICES ASSUME Inv, [RNext]_vars PROVE Inv'
  OBVIOUS
<1>1. CASE Exchange
  <2>1. ASSUME WriteCommand("write", "read") PROVE Inv'
    BY <2>1, WriteStep
  <2>2. ASSUME WriteCommand("rewrite", "reread") PROVE Inv'
    BY <2>2, WriteStep
  <2>. QED
    BY <1>1, <2>1, <2>2 DEF Exchange
<1>2. CASE Client
  BY <1>1, <1>2, AnswerStep, FirstFailsStep, ResendFailsStep, DialStep, LoginStep,
     ReconnectedStep, NextAttemptStep DEF Client
<1>3. CASE ServerStarts \/ UNCHANGED vars
  <2>1. UNCHANGED <<at, calls, attempt, connection, conns, outcome, executed, disturbed>>
    BY <1>3 DEF ServerStarts, vars
  <2>2. server \in [up : BOOLEAN, password : BOOLEAN]
    BY DEF Inv, Types
  <2>3. server' \in [up : BOOLEAN, password : BOOLEAN]
    <3>1. CASE UNCHANGED vars
      BY <2>2, <3>1 DEF vars
    <3>2. CASE ServerStarts
      <4>1. PICK right \in BOOLEAN : server' = [up |-> TRUE, password |-> right]
        BY <3>2 DEF ServerStarts
      <4>. QED
        BY <4>1
    <3>. QED
      BY <1>3, <3>1, <3>2
  <2>. QED
    BY <2>1, <2>3, ElseStep
<1>. QED
  BY <1>2, <1>3, SendStep, ServeStep, ResetStep, StopsStep DEF RNext

(* At most one packet is under way, on the connection that is waited on.    *)
THEOREM Invariant == RSpec => []Inv
<1>. QED
  BY InitInv, NextInv, PTL DEF RSpec

(* The client's state is what the declarations say.                         *)
THEOREM RconTypes == RSpec => []RTypeOK
<1>1. ASSUME Inv PROVE RTypeOK
  <2>1. Range(executed) \subseteq 1 .. MaxCalls
    <3>1. calls \in 0 .. MaxCalls /\ \A i \in DOMAIN executed : executed[i] \in 1 .. calls
      BY <1>1 DEF Inv, Types
    <3>. QED
      BY <3>1, RconAssumption DEF Range
  <2>2. ASSUME NEW c \in DOMAIN conns
        PROVE  /\ conns[c].open \in BOOLEAN /\ conns[c].trusted \in BOOLEAN
               /\ Range(conns[c].asked) \subseteq 0 .. MaxCalls
               /\ Range(conns[c].answers) \subseteq -1 .. MaxCalls
    <3>1. /\ conns[c].open \in BOOLEAN /\ conns[c].trusted \in BOOLEAN
          /\ conns[c].asked \in Questions /\ conns[c].answers \in Replies
      BY <1>1, NewIsOne, EndFacts DEF Inv
    <3>2. \A q \in Questions : Range(q) \subseteq 0 .. MaxCalls
      BY DEF Questions, Range
    <3>3. \A q \in Replies : Range(q) \subseteq -1 .. MaxCalls
      BY DEF Replies, Range
    <3>. QED
      BY <3>1, <3>2, <3>3
  <2>. QED
    BY <1>1, <2>1, <2>2 DEF RTypeOK, Inv, Types
<1>. QED
  BY <1>1, Invariant, PTL

(* SendCommand returns without error only with the answer to its own        *)
(* command, which was carried out, although it compares no id.              *)
THEOREM AnswersMatch == RSpec => []AnswerMatches
<1>1. Inv => AnswerMatches
  BY DEF Inv
<1>. QED
  BY <1>1, Invariant, PTL

(* A connection that was lost between two calls costs no command.           *)
THEOREM ErrorsHaveCauses == RSpec => []ErrorHasCause
<1>1. Inv => ErrorHasCause
  BY DEF Inv
<1>. QED
  BY <1>1, Invariant, PTL

-----------------------------------------------------------------------------
(* The client implements GameCommand                                       *)

LEMMA InitCommand == RInit => Command!Init
<1>. SUFFICES ASSUME RInit PROVE Command!Init
  OBVIOUS
<1>1. executed = <<>> /\ executed \in Seq(Nat)
  BY DEF RInit
<1>2. Times(calls) = 0
  BY <1>1, TimesIsNat
<1>. QED
  BY <1>2 DEF RInit, NoOutcome, Command!Init

(* Every step begins a call, carries its command out, ends it, or is        *)
(* nothing to the worker.                                                  *)
LEMMA StepCommand == Inv /\ Inv' /\ [RNext]_vars => [Command!Next]_Command!cvars
<1>. SUFFICES ASSUME Inv, Inv', [RNext]_vars PROVE [Command!Next]_Command!cvars
  OBVIOUS
<1>1. Times(calls) \in Nat /\ Times(calls)' \in Nat
  <2>1. executed' \in Seq(Nat)
    BY DEF Inv, Types
  <2>2. Times(calls)' \in Nat
    BY <2>1, Occurrences DEF Times
  <2>. QED
    BY <2>2, TimesIsNat DEF Inv, Types
<1>2. ASSUME UNCHANGED <<calls, executed, outcome>>, at # "idle", at' # "idle"
      PROVE  UNCHANGED Command!cvars
  BY <1>2 DEF Times, Command!cvars
<1>3. CASE SendCommand
  <2>1. at = "idle" /\ at' = "write" /\ calls' = calls + 1 /\ outcome' = outcome
    BY <1>3 DEF SendCommand
  <2>2. Times(calls)' = 0
    BY <1>1, <2>1 DEF Inv, Counts, Most
  <2>. QED
    BY <2>1, <2>2 DEF Command!Next, Command!Begin
<1>4. CASE GetAnswer
  <2>1. at # "idle" /\ at' = "idle" /\ UNCHANGED <<calls, executed>> /\ outcome'.result = "ok"
    BY <1>4 DEF GetAnswer, Answered, Return
  <2>2. Times(calls)' = Times(calls)
    BY <2>1 DEF Times
  <2>3. Times(calls) > 0
    BY <2>1, <2>2 DEF Inv, AnswerMatches, Returned
  <2>. QED
    BY <2>1, <2>2, <2>3 DEF Command!Next, Command!Succeed
<1>5. ASSUME at # "idle", Failed, UNCHANGED <<calls, executed>> PROVE Command!Fail
  BY <1>5 DEF Failed, Return, Times, Command!Fail
<1>6. CASE Exchange \/ FirstFails \/ Dial \/ Login \/ Reconnected
  <2>1. UNCHANGED <<calls, executed, outcome>> /\ at # "idle" /\ at' # "idle"
    BY <1>6 DEF Exchange, WriteCommand, FirstFails, ExchangeFails, Dial, Login, Reconnected
  <2>. QED
    BY <1>2, <2>1
<1>7. CASE ResendFails \/ NextAttempt
  <2>1. /\ at # "idle" /\ UNCHANGED <<calls, executed>>
        /\ Failed \/ (at' = "dial" /\ outcome' = outcome)
    BY <1>7 DEF ResendFails, ExchangeFails, NextAttempt, ConnectFails
  <2>. QED
    BY <1>2, <1>5, <2>1 DEF Command!Next
<1>8. ASSUME NEW c \in DOMAIN conns, Serve(c) PROVE [Command!Next]_Command!cvars
  <2>1. UNCHANGED <<at, calls, outcome>>
    BY <1>8 DEF Serve
  <2>2. at # "idle"
    <3>1. conns[c].asked # <<>>
      BY <1>8 DEF Serve
    <3>. QED
      BY <3>1 DEF Inv, Lanes, Lane, Quiet, Waits, Exchanging
  <2>3. CASE executed' = executed
    BY <1>2, <2>1, <2>2, <2>3
  <2>4. CASE executed' = Append(executed, Head(conns[c].asked)) /\ Head(conns[c].asked) # Auth
    <3>1. PICK p : p = Head(conns[c].asked)
      OBVIOUS
    <3>2. conns[c].asked = <<Packet>> /\ Waits(c)
      BY <1>8 DEF Serve, Inv, Lanes, Lane, Quiet, Asked, Replied
    <3>3. p = Packet
      BY <3>1, <3>2
    <3>4. Exchanging /\ p = calls
      BY <2>4, <3>1, <3>2, <3>3 DEF Packet, Waits, Exchanging
    <3>5. executed \in Seq(Nat) /\ p \in Nat
      BY <3>4 DEF Inv, Types
    <3>6. Times(p)' = Times(p) + 1
      BY <2>4, <3>1, <3>5, OnceMore
    <3>7. Times(calls)' = Times(calls) + 1
      BY <2>1, <3>4, <3>6 DEF Times
    <3>8. Times(calls)' <= 2
      BY <1>1 DEF Inv, Counts, Most
    <3>. QED
      BY <1>1, <2>1, <2>2, <3>7, <3>8 DEF Command!Next, Command!CarryOut
  <2>. QED
    BY <1>8, <2>3, <2>4 DEF Serve
<1>9. CASE ServerStops \/ ServerStarts \/ UNCHANGED vars \/ \E c \in DOMAIN conns : Reset(c)
  BY <1>9 DEF ServerStops, ServerStarts, vars, Reset, Times, Command!cvars
<1>. QED
  BY <1>3, <1>4, <1>6, <1>7, <1>8, <1>9 DEF RNext, Client

(* One call at a time; a command is carried out within its call or not at   *)
(* all, twice at most; success means that it was carried out.              *)
THEOREM Implements == RSpec => ImplementsCommand
<1>. QED
  BY Invariant, InitCommand, StepCommand, PTL DEF RSpec, ImplementsCommand, Command!Spec
=============================================================================
