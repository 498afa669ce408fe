--------------------------- MODULE TaskQueueProofs ---------------------------
(***************************************************************************)
(* Proofs about TaskQueue, for any number of tasks, lost connections and   *)
(* restarts: the queue keeps its tasks, in order, and implements TaskLog.  *)
(***************************************************************************)
EXTENDS TaskQueue, SequenceTheorems, TLAPS

-----------------------------------------------------------------------------
(* Lemmas about increasing sequences.                                      *)

(* Appending something larger than all elements keeps a sequence            *)
(* increasing and adds that one element (Publish adds the next number).     *)
LEMMA AppendIncreasing ==
    ASSUME NEW s \in Seq(Nat), NEW x \in Nat, Increasing(s),
           \A y \in Range(s) : y < x
    PROVE  Increasing(Append(s, x)) /\ Range(Append(s, x)) = Range(s) \cup {x}
<1>1. /\ Append(s, x) \in Seq(Nat)
      /\ Len(Append(s, x)) = Len(s) + 1
      /\ \A i \in 1..Len(s) : Append(s, x)[i] = s[i]
      /\ Append(s, x)[Len(s) + 1] = x
      /\ Len(s) \in Nat
  OBVIOUS
<1>2. \A i \in 1..Len(s) : s[i] \in Range(s)
  BY DEF Range
<1>3. Increasing(Append(s, x))
  BY <1>1, <1>2 DEF Increasing
<1>4. Range(Append(s, x)) = Range(s) \cup {x}
  <2>1. DOMAIN Append(s, x) = 1..(Len(s) + 1) /\ DOMAIN s = 1..Len(s)
    BY <1>1
  <2>. QED
    BY <1>1, <2>1 DEF Range
<1>. QED
  BY <1>3, <1>4

\* b is a without its k-th element.
Without(a, k, b) == /\ Len(b) = Len(a) - 1
                    /\ \A i \in 1..(k - 1) : b[i] = a[i]
                    /\ \A i \in k..Len(b) : b[i] = a[i + 1]

(* Removing the k-th element of an increasing sequence.                     *)
LEMMA RemoveAt ==
    ASSUME NEW a \in Seq(Nat), NEW b \in Seq(Nat), NEW k \in 1..Len(a),
           Increasing(a), Without(a, k, b)
    PROVE  Increasing(b) /\ Range(b) = Range(a) \ {a[k]}
<1>1. /\ Len(a) \in Nat /\ Len(b) \in Nat
      /\ DOMAIN a = 1..Len(a) /\ DOMAIN b = 1..Len(b)
      /\ \A i \in 1..Len(a) : a[i] \in Nat
      /\ Len(b) = Len(a) - 1
      /\ \A i \in 1..(k - 1) : b[i] = a[i]
      /\ \A i \in k..Len(b) : b[i] = a[i + 1]
  BY DEF Without
<1>2. \A i \in 1..Len(b) : i < k => b[i] = a[i] /\ i \in 1..Len(a)
  <2>. TAKE i \in 1..Len(b)
  <2>1. i < k => i \in 1..(k - 1) /\ i \in 1..Len(a)
    BY <1>1
  <2>. QED
    BY <1>1, <2>1
<1>2b. \A i \in 1..Len(b) : i >= k => b[i] = a[i + 1] /\ i + 1 \in 1..Len(a)
  <2>. TAKE i \in 1..Len(b)
  <2>1. i >= k => i \in k..Len(b) /\ i + 1 \in 1..Len(a)
    BY <1>1
  <2>. QED
    BY <1>1, <2>1
<1>3. Increasing(b)
  <2>. SUFFICES ASSUME NEW i \in 1..Len(b), NEW j \in 1..Len(b), i < j
                PROVE  b[i] < b[j]
    BY DEF Increasing
  <2>0. i \in Nat /\ j \in Nat /\ k \in Nat
    BY <1>1
  <2>1. CASE j < k
    <3>1. i < k
      BY <2>0, <2>1
    <3>2. b[j] = a[j] /\ j \in 1..Len(a)
      BY <2>1, <1>2
    <3>3. b[i] = a[i] /\ i \in 1..Len(a)
      BY <3>1, <1>2
    <3>. QED
      BY <3>2, <3>3 DEF Increasing
  <2>2. CASE j >= k /\ i < k
    <3>1. b[j] = a[j + 1] /\ j + 1 \in 1..Len(a)
      BY <2>2, <1>2b
    <3>2. b[i] = a[i] /\ i \in 1..Len(a)
      BY <2>2, <1>2
    <3>. QED
      BY <2>0, <3>1, <3>2 DEF Increasing
  <2>3. CASE i >= k
    <3>1. j >= k
      BY <2>0, <2>3
    <3>2. b[j] = a[j + 1] /\ j + 1 \in 1..Len(a)
      BY <3>1, <1>2b
    <3>3. b[i] = a[i + 1] /\ i + 1 \in 1..Len(a)
      BY <2>3, <1>2b
    <3>. QED
      BY <2>0, <3>2, <3>3 DEF Increasing
  <2>. QED
    BY <2>0, <2>1, <2>2, <2>3
<1>4. \A i \in 1..Len(a) : i # k => a[i] # a[k]
  BY <1>1 DEF Increasing
<1>5. \A i \in 1..Len(b) : \E j \in 1..Len(a) : j # k /\ b[i] = a[j]
  <2>. TAKE i \in 1..Len(b)
  <2>1. CASE i < k
    BY <2>1, <1>2, <1>1
  <2>2. CASE i >= k
    <3>1. i + 1 # k
      BY <2>2, <1>1
    <3>. QED
      BY <2>2, <3>1, <1>2b
  <2>. QED
    BY <2>1, <2>2, <1>1
<1>6. \A j \in 1..Len(a) : j # k => \E i \in 1..Len(b) : b[i] = a[j]
  <2>. SUFFICES ASSUME NEW j \in 1..Len(a), j # k
                PROVE  \E i \in 1..Len(b) : b[i] = a[j]
    OBVIOUS
  <2>1. CASE j < k
    <3>1. j \in 1..Len(b) /\ j \in 1..(k - 1)
      BY <2>1, <1>1
    <3>. QED
      BY <3>1, <1>1
  <2>2. CASE j > k
    <3>1. j - 1 \in 1..Len(b) /\ j - 1 \in k..Len(b) /\ (j - 1) + 1 = j
      BY <2>2, <1>1
    <3>2. b[j - 1] = a[j]
      BY <3>1, <1>1
    <3>. QED
      BY <3>1, <3>2
  <2>. QED
    BY <2>1, <2>2, <1>1
<1>7. Range(a) = {a[i] : i \in 1..Len(a)} /\ Range(b) = {b[i] : i \in 1..Len(b)}
  BY <1>1 DEF Range
<1>8. ASSUME NEW x PROVE x \in Range(b) <=> x \in Range(a) /\ x # a[k]
  <2>1. ASSUME NEW i \in 1..Len(b), x = b[i] PROVE x \in Range(a) /\ x # a[k]
    BY <2>1, <1>4, <1>5, <1>7
  <2>2. ASSUME NEW j \in 1..Len(a), x = a[j], x # a[k] PROVE x \in Range(b)
    BY <2>2, <1>6, <1>7
  <2>. QED
    BY <2>1, <2>2, <1>7
<1>. QED
  BY <1>3, <1>8

(* Removing the head of the second part of an increasing sequence: the      *)
(* expiry of the oldest ready task behind those on loan.                    *)
LEMMA RemoveIncreasing ==
    ASSUME NEW s \in Seq(Nat), NEW t \in Seq(Nat), t # <<>>, Increasing(s \o t)
    PROVE  /\ Increasing(s \o Tail(t))
           /\ Range(s \o Tail(t)) = Range(s \o t) \ {Head(t)}
           /\ Head(t) \in Range(s \o t)
<1>1. /\ s \o t \in Seq(Nat) /\ Tail(t) \in Seq(Nat) /\ s \o Tail(t) \in Seq(Nat)
      /\ Len(t) \in Nat /\ Len(t) # 0 /\ Len(s) \in Nat
      /\ Len(s \o t) = Len(s) + Len(t)
      /\ Len(s \o Tail(t)) = Len(s) + Len(t) - 1
  OBVIOUS
<1>2. (s \o t)[Len(s) + 1] = Head(t)
  BY <1>1
<1>3. \A i \in 1..Len(s) : (s \o Tail(t))[i] = (s \o t)[i]
  OBVIOUS
<1>4. \A i \in (Len(s) + 1)..(Len(s) + Len(t) - 1) : (s \o Tail(t))[i] = (s \o t)[i + 1]
  <2>. TAKE i \in (Len(s) + 1)..(Len(s) + Len(t) - 1)
  <2>1. (s \o t)[i + 1] = t[i + 1 - Len(s)]
    BY <1>1
  <2>2. (s \o Tail(t))[i] = Tail(t)[i - Len(s)]
    BY <1>1
  <2>3. Tail(t)[i - Len(s)] = t[i - Len(s) + 1]
    BY <1>1
  <2>. QED
    BY <2>1, <2>2, <2>3, <1>1
<1>. DEFINE a == s \o t
            b == s \o Tail(t)
            k == Len(s) + 1
<1>5. a \in Seq(Nat) /\ b \in Seq(Nat) /\ Increasing(a)
  BY <1>1
<1>6. k \in 1..Len(a) /\ Len(b) = Len(a) - 1
  BY <1>1
<1>7. \A i \in 1..(k - 1) : b[i] = a[i]
  BY <1>1, <1>3
<1>8. \A i \in k..Len(b) : b[i] = a[i + 1]
  BY <1>1, <1>4
<1>9. a[k] = Head(t) /\ a[k] \in Range(a)
  <2>1. DOMAIN a = 1..Len(a)
    BY <1>5
  <2>. QED
    BY <2>1, <1>2, <1>6 DEF Range
<1>10. Increasing(b) /\ Range(b) = Range(a) \ {a[k]}
  <2>1. Without(a, k, b)
    BY <1>6, <1>7, <1>8 DEF Without
  <2>. HIDE DEF a, b, k
  <2>. QED
    BY <1>5, <1>6, <2>1, RemoveAt
<1>. QED
  BY <1>9, <1>10

(* Nothing on loan: the line is the queue.                                 *)
LEMMA EmptyLeft == \A s \in Seq(Nat) : <<>> \o s = s
  BY ConcatEmptySeq, Zenon

(* Removing the head of an increasing sequence, as an Ack does.             *)
LEMMA RemoveHead ==
    ASSUME NEW t \in Seq(Nat), t # <<>>, Increasing(t)
    PROVE  /\ Increasing(Tail(t))
           /\ Range(Tail(t)) = Range(t) \ {Head(t)}
           /\ Head(t) \in Range(t)
<1>1. <<>> \in Seq(Nat) /\ Tail(t) \in Seq(Nat)
  OBVIOUS
<1>2. <<>> \o t = t /\ <<>> \o Tail(t) = Tail(t)
  BY <1>1, EmptyLeft
<1>3. Increasing(<<>> \o t)
  BY <1>2
<1>4. /\ Increasing(<<>> \o Tail(t))
      /\ Range(<<>> \o Tail(t)) = Range(<<>> \o t) \ {Head(t)}
      /\ Head(t) \in Range(<<>> \o t)
  BY <1>1, <1>3, RemoveIncreasing
<1>. QED
  BY <1>2, <1>4

(* The head of an increasing sequence is its smallest element: the delivery *)
(* the worker holds is the oldest unsettled task.                           *)
LEMMA HeadIsOldest ==
    ASSUME NEW s \in Seq(Nat), s # <<>>, Increasing(s)
    PROVE  \A x \in Range(s) : Head(s) <= x
<1>1. Len(s) \in Nat \ {0} /\ Head(s) = s[1] /\ DOMAIN s = 1..Len(s)
  OBVIOUS
<1>2. \A i \in 1..Len(s) : s[i] \in Nat /\ s[1] <= s[i]
  BY <1>1 DEF Increasing
<1>. QED
  BY <1>1, <1>2 DEF Range

-----------------------------------------------------------------------------
(* The line of unsettled tasks: those on loan, then those that are ready.  *)
(* Only Publish, Ack, Nack and expiry change it; the connection does not.  *)

Line == OnLoan \o queue

(* The library fact for sequences of task numbers.                         *)
LEMMA Associative ==
    ASSUME NEW r \in Seq(Nat), NEW s \in Seq(Nat), NEW t \in Seq(Nat)
    PROVE  (r \o s) \o t = r \o (s \o t)
  BY ConcatAssociative, SMTT(30)

(* Moving the head of the queue to the end of the deliveries, and the       *)
(* delivery at the head of the inbox to runLoop, leaves the line as it is.  *)
LEMMA ShiftHead ==
    ASSUME NEW s \in Seq(Nat), NEW t \in Seq(Nat), t # <<>>
    PROVE  Append(s, Head(t)) \o Tail(t) = s \o t
<1>1. /\ Head(t) \in Nat /\ Tail(t) \in Seq(Nat)
      /\ <<Head(t)>> \in Seq(Nat)
      /\ Append(s, Head(t)) = s \o <<Head(t)>>
      /\ <<Head(t)>> \o Tail(t) = t
  <2>1. /\ Head(t) \in Nat /\ Tail(t) \in Seq(Nat) /\ <<Head(t)>> \in Seq(Nat)
        /\ Len(t) \in Nat /\ Len(t) # 0
    OBVIOUS
  <2>2. Append(s, Head(t)) = s \o <<Head(t)>>
    BY <2>1, AppendIsConcat, Zenon
  <2>3. <<Head(t)>> \o Tail(t) = t
    <3>1. <<Head(t)>> \o Tail(t) \in Seq(Nat) /\ Len(<<Head(t)>> \o Tail(t)) = Len(t)
      BY <2>1
    <3>2. \A i \in 1..Len(t) : (<<Head(t)>> \o Tail(t))[i] = t[i]
      BY <2>1
    <3>. QED
      BY <3>1, <3>2, SeqEqual, Zenon
  <2>. QED
    BY <2>1, <2>2, <2>3
<1>2. (s \o <<Head(t)>>) \o Tail(t) = s \o (<<Head(t)>> \o Tail(t))
  BY <1>1, Associative
<1>. QED
  BY <1>1, <1>2

(* Appending to the queue appends to the line.                             *)
LEMMA AppendRight ==
    ASSUME NEW s \in Seq(Nat), NEW t \in Seq(Nat), NEW x \in Nat
    PROVE  s \o Append(t, x) = Append(s \o t, x)
<1>1. /\ <<x>> \in Seq(Nat) /\ s \o t \in Seq(Nat)
  OBVIOUS
<1>2. Append(t, x) = t \o <<x>> /\ Append(s \o t, x) = (s \o t) \o <<x>>
  BY <1>1, AppendIsConcat, Zenon
<1>3. (s \o t) \o <<x>> = s \o (t \o <<x>>)
  BY <1>1, Associative
<1>. QED
  BY <1>2, <1>3, Zenon

(* OnLoan as a function of the variables it depends on, so that its facts   *)
(* hold before and after a step.                                            *)
Loan(l, t, i) == IF l = "up" THEN (IF t = NoTask THEN <<>> ELSE <<t>>) \o i ELSE <<>>

(* The three forms of what is on loan.                                     *)
LEMMA LoanFacts ==
    ASSUME NEW l, NEW t \in Nat, NEW i \in Seq(Nat)
    PROVE  /\ Loan(l, t, i) \in Seq(Nat)
           /\ l # "up" => Loan(l, t, i) = <<>>
           /\ l = "up" /\ t = NoTask => Loan(l, t, i) = i
           /\ l = "up" /\ t # NoTask => Loan(l, t, i) = <<t>> \o i
<1>1. <<>> \o i = i
  BY EmptyLeft, Zenon
<1>2. <<t>> \o i \in Seq(Nat) /\ <<>> \in Seq(Nat)
  OBVIOUS
<1>. QED
  BY <1>1, <1>2 DEF Loan

(* OnLoan in terms of Loan.                                                *)
LEMMA OnLoanIsLoan == OnLoan = Loan(link, taken, inbox)
  BY DEF OnLoan, Loan

(* The types of the parts of the line, under the names the steps use.       *)
LEMMA LineParts ==
    ASSUME QTypeOK
    PROVE  /\ published \in Nat /\ taken \in Nat /\ inbox \in Seq(Nat) /\ queue \in Seq(Nat)
           /\ OnLoan \in Seq(Nat) /\ Line \in Seq(Nat)
           /\ link # "up" => OnLoan = <<>>
           /\ link = "up" /\ taken = NoTask => OnLoan = inbox
           /\ link = "up" /\ taken # NoTask => OnLoan = <<taken>> \o inbox
<1>1. published \in Nat /\ taken \in Nat /\ inbox \in Seq(Nat) /\ queue \in Seq(Nat)
  BY DEF QTypeOK
<1>2. OnLoan \in Seq(Nat)
  BY <1>1, LoanFacts, OnLoanIsLoan
<1>3. Line \in Seq(Nat)
  BY <1>1, <1>2 DEF Line
<1>. QED
  BY <1>1, <1>2, <1>3, LoanFacts, OnLoanIsLoan

(* Every delivery is a real task: a task 0 would read as no task at all.    *)
RealDeliveries == \A i \in 1..Len(inbox) : inbox[i] # NoTask

(* Publish puts the new task at the end of the line.                        *)
LEMMA EnqueueLine ==
    ASSUME QTypeOK, Enqueue
    PROVE  Line' = Append(Line, published + 1)
<1>1. OnLoan' = OnLoan
  BY DEF Enqueue, OnLoan
<1>2. published + 1 \in Nat
  BY DEF QTypeOK
<1>3. OnLoan \o Append(queue, published + 1) = Append(OnLoan \o queue, published + 1)
  BY <1>2, LineParts, AppendRight
<1>. QED
  BY <1>1, <1>3 DEF Line, Enqueue

(* Delivering, receiving, losing the connection, reconnecting and           *)
(* restarting leave the line as it is.                                      *)
Transport == Deliver \/ Take \/ LoseConnection \/ Reopen \/ Restart

(* Delivery moves the head of the queue to the end of what is on loan.     *)
LEMMA DeliverLine ==
    ASSUME QTypeOK, Deliver
    PROVE  Line' = Line
<1>1. /\ Head(queue) \in Nat /\ Tail(queue) \in Seq(Nat) /\ queue # <<>>
      /\ Append(inbox, Head(queue)) \in Seq(Nat) /\ link = "up"
      /\ link' = "up" /\ taken' = taken /\ inbox' = Append(inbox, Head(queue))
      /\ queue' = Tail(queue) /\ taken \in Nat /\ inbox \in Seq(Nat) /\ queue \in Seq(Nat)
      /\ OnLoan \in Seq(Nat)
  BY LineParts, SMTT(30) DEF Deliver
<1>2. OnLoan' = Loan("up", taken, Append(inbox, Head(queue)))
  BY <1>1 DEF OnLoan, Loan
<1>3. OnLoan' = Append(OnLoan, Head(queue))
  <2>1. CASE taken = NoTask
    <3>1. OnLoan = inbox
      BY <1>1, <2>1, LineParts
    <3>2. OnLoan' = Append(inbox, Head(queue))
      BY <1>1, <1>2, <2>1, LoanFacts
    <3>. QED
      BY <3>1, <3>2
  <2>2. CASE taken # NoTask
    <3>1. OnLoan = <<taken>> \o inbox
      BY <1>1, <2>2, LineParts
    <3>2. OnLoan' = <<taken>> \o Append(inbox, Head(queue))
      BY <1>1, <1>2, <2>2, LoanFacts
    <3>3. <<taken>> \in Seq(Nat)
      BY <1>1
    <3>4. <<taken>> \o Append(inbox, Head(queue)) = Append(<<taken>> \o inbox, Head(queue))
      BY <1>1, <3>3, AppendRight
    <3>. QED
      BY <3>1, <3>2, <3>4
  <2>. QED
    BY <2>1, <2>2
<1>4. Append(OnLoan, Head(queue)) \o Tail(queue) = OnLoan \o queue
  BY <1>1, ShiftHead
<1>. QED
  BY <1>1, <1>3, <1>4 DEF Line

(* runLoop takes the head of the inbox in hand.                            *)
LEMMA TakeLine ==
    ASSUME QTypeOK, RealDeliveries, Take
    PROVE  Line' = Line
<1>1. /\ Head(inbox) \in Nat /\ Tail(inbox) \in Seq(Nat) /\ inbox # <<>> /\ Head(inbox) # NoTask
      /\ link' = link /\ taken = NoTask /\ taken' = Head(inbox) /\ inbox' = Tail(inbox)
      /\ queue' = queue /\ inbox \in Seq(Nat)
  BY LineParts, SMTT(30) DEF Take, RealDeliveries
<1>2. OnLoan' = Loan(link, Head(inbox), Tail(inbox))
  BY <1>1 DEF OnLoan, Loan
<1>3. OnLoan' = OnLoan
  <2>1. CASE link = "up"
    <3>1. OnLoan = inbox
      BY <1>1, <2>1, LineParts
    <3>2. OnLoan' = <<Head(inbox)>> \o Tail(inbox)
      BY <1>1, <1>2, <2>1, LoanFacts
    <3>3. <<>> \in Seq(Nat) /\ Append(<<>>, Head(inbox)) = <<Head(inbox)>>
      BY <1>1
    <3>4. Append(<<>>, Head(inbox)) \o Tail(inbox) = <<>> \o inbox
      BY <1>1, <3>3, ShiftHead
    <3>5. <<>> \o inbox = inbox
      BY <1>1, EmptyLeft
    <3>. QED
      BY <3>1, <3>2, <3>3, <3>4, <3>5
  <2>2. CASE link # "up"
    <3>1. OnLoan = <<>>
      BY <2>2, LineParts
    <3>2. OnLoan' = <<>>
      BY <1>1, <1>2, <2>2, LoanFacts
    <3>. QED
      BY <3>1, <3>2
  <2>. QED
    BY <2>1, <2>2
<1>. QED
  BY <1>1, <1>3 DEF Line

(* What was on loan goes back in front of the queue, and nothing is on loan.*)
LEMMA ReturnedLine ==
    ASSUME QTypeOK, LoseConnection \/ Restart
    PROVE  Line' = Line
<1>1. queue' = Line
  BY DEF LoseConnection, Restart, Line
<1>2. OnLoan' = <<>>
  <2>1. CASE LoseConnection
    BY <2>1 DEF LoseConnection, OnLoan
  <2>2. CASE Restart
    <3>1. OnLoan' = Loan("up", NoTask, <<>>)
      BY <2>2 DEF Restart, OnLoan, Loan
    <3>2. NoTask \in Nat /\ <<>> \in Seq(Nat)
      BY DEF NoTask
    <3>. QED
      BY <3>1, <3>2, LoanFacts
  <2>. QED
    BY <2>1, <2>2
<1>3. <<>> \o Line = Line
  BY LineParts, EmptyLeft
<1>4. Line' = OnLoan' \o queue'
  BY DEF Line
<1>. QED
  BY <1>1, <1>2, <1>3, <1>4

(* Nothing was on loan over the lost connection.                           *)
LEMMA ReopenLine ==
    ASSUME QTypeOK, Reopen
    PROVE  Line' = Line
<1>1. OnLoan = <<>>
  BY LineParts DEF Reopen
<1>2. OnLoan' = Loan("up", NoTask, <<>>)
  BY DEF Reopen, OnLoan, Loan
<1>3. NoTask \in Nat /\ <<>> \in Seq(Nat)
  BY DEF NoTask
<1>4. OnLoan' = <<>>
  BY <1>2, <1>3, LoanFacts
<1>. QED
  BY <1>1, <1>4 DEF Line, Reopen

(* A sequence with an element before it.                                    *)
LEMMA FirstAndRest ==
    ASSUME NEW x \in Nat, NEW r \in Seq(Nat)
    PROVE  <<x>> \o r # <<>> /\ Head(<<x>> \o r) = x /\ Tail(<<x>> \o r) = r
<1>. DEFINE w == <<x>> \o r
<1>1. w \in Seq(Nat) /\ Len(w) = Len(r) + 1 /\ w[1] = x /\ Len(r) \in Nat
  OBVIOUS
<1>2. \A i \in 1..Len(r) : w[i + 1] = r[i]
  BY <1>1
<1>. HIDE DEF w
<1>3. w # <<>> /\ Head(w) = x
  BY <1>1
<1>4. Tail(w) = r
  <2>1. Tail(w) \in Seq(Nat) /\ Len(Tail(w)) = Len(r)
    BY <1>1, <1>3
  <2>2. \A i \in 1..Len(Tail(w)) : Tail(w)[i] = r[i]
    BY <1>1, <1>2, <1>3, <2>1
  <2>. QED
    BY <2>1, <2>2, SeqEqual, Zenon
<1>. QED
  BY <1>3, <1>4 DEF w

(* While the connection it came over lives, the delivery being processed is *)
(* the first of the line.                                                   *)
LEMMA TakenFirst ==
    ASSUME QTypeOK, link = "up", taken # NoTask
    PROVE  /\ inbox \o queue \in Seq(Nat) /\ Line = <<taken>> \o (inbox \o queue)
           /\ Line # <<>> /\ Head(Line) = taken
<1>1. taken \in Nat /\ inbox \in Seq(Nat) /\ queue \in Seq(Nat) /\ OnLoan = <<taken>> \o inbox
  BY LineParts
<1>2. <<taken>> \in Seq(Nat) /\ inbox \o queue \in Seq(Nat)
  BY <1>1
<1>3. Line = <<taken>> \o (inbox \o queue)
  BY <1>1, <1>2, Associative DEF Line
<1>. QED
  BY <1>1, <1>2, <1>3, FirstAndRest

(* Finishing a delivery removes the head of the line, unless the connection *)
(* it came over is gone; then nothing happens to the line.                  *)
LEMMA FinishLine ==
    ASSUME QTypeOK, Ack \/ Nack
    PROVE  /\ link # "up" => Line' = Line
           /\ link = "up" => Line # <<>> /\ Head(Line) = taken /\ Line' = Tail(Line)
<1>1. /\ taken # NoTask /\ taken' = NoTask /\ inbox' = inbox /\ link' = link
      /\ queue' = queue /\ taken \in Nat /\ inbox \in Seq(Nat) /\ queue \in Seq(Nat)
      /\ NoTask \in Nat
  BY LineParts DEF Ack, Nack, NoTask
<1>2. OnLoan' = Loan(link, NoTask, inbox)
  BY <1>1 DEF OnLoan, Loan
<1>3. ASSUME link # "up" PROVE Line' = Line
  <2>1. OnLoan = <<>>
    BY <1>3, LineParts
  <2>2. OnLoan' = <<>>
    BY <1>1, <1>2, <1>3, LoanFacts
  <2>. QED
    BY <1>1, <2>1, <2>2 DEF Line
<1>4. ASSUME link = "up" PROVE Line # <<>> /\ Head(Line) = taken /\ Line' = Tail(Line)
  <2>1. Line = <<taken>> \o (inbox \o queue) /\ Line # <<>> /\ Head(Line) = taken
    BY <1>1, <1>4, TakenFirst
  <2>2. OnLoan' = inbox
    BY <1>1, <1>2, <1>4, LoanFacts
  <2>3. Line' = inbox \o queue
    BY <1>1, <2>2 DEF Line
  <2>4. inbox \o queue \in Seq(Nat)
    BY <1>1
  <2>. QED
    BY <1>1, <2>1, <2>3, <2>4, FirstAndRest
<1>. QED
  BY <1>3, <1>4

-----------------------------------------------------------------------------
(* The inductive invariant.  InPublishOrder and OneHome need each other:   *)
(* a published number is larger than all of the line because the line      *)
(* holds published tasks only, and removing the head of the line removes   *)
(* it from the set of unsettled tasks because no task is in it twice.      *)

QInv == /\ QTypeOK
        /\ RealDeliveries
        /\ InPublishOrder
        /\ OneHome

(* The two properties in terms of the line.                                *)
LEMMA LineOrder == (InPublishOrder <=> Increasing(Line))
                   /\ (OneHome <=> Range(Line) = Tasks \ Settled /\ acked \cap dead = {})
  BY DEF InPublishOrder, OneHome, Line

(* The inductive invariant holds of the empty queue.                       *)
LEMMA QInvInit == QInit => QInv
<1>. SUFFICES ASSUME QInit PROVE QInv
  OBVIOUS
<1>1. /\ published = 0 /\ queue = <<>> /\ inbox = <<>> /\ taken = 0 /\ link = "up"
      /\ prefetch = TRUE /\ acked = {} /\ dead = {}
  BY DEF QInit, NoTask
<1>2. QTypeOK
  BY <1>1 DEF QTypeOK, Tasks
<1>3. RealDeliveries
  BY <1>1 DEF RealDeliveries
<1>4. Line = <<>>
  <2>1. OnLoan = <<>>
    BY <1>1, <1>2, LineParts DEF NoTask
  <2>. QED
    BY <1>1, <2>1 DEF Line
<1>5. Increasing(<<>>)
  BY DEF Increasing
<1>6. Range(<<>>) = {}
  BY DEF Range
<1>7. Tasks \ Settled = {}
  BY <1>1 DEF Tasks
<1>. QED
  BY <1>1, <1>2, <1>3, <1>4, <1>5, <1>6, <1>7, LineOrder DEF QInv

(* No step, crash or lost connection leaves the types.                      *)
LEMMA TypeStep == QInv /\ QNext => QTypeOK'
<1>. SUFFICES ASSUME QInv, QNext PROVE QTypeOK'
  OBVIOUS
<1>1. /\ published \in Nat /\ taken \in Nat /\ inbox \in Seq(Nat) /\ queue \in Seq(Nat)
      /\ OnLoan \in Seq(Nat) /\ OnLoan \o queue \in Seq(Nat)
      /\ link \in {"up", "lost"} /\ prefetch \in BOOLEAN
      /\ acked \subseteq 1..published /\ dead \subseteq 1..published
  BY LineParts DEF QInv, QTypeOK, Tasks, Line
<1>2. link = "up" /\ taken # NoTask => taken \in 1..published
  <2>. SUFFICES ASSUME link = "up", taken # NoTask PROVE taken \in 1..published
    OBVIOUS
  <2>1. OnLoan = <<taken>> \o inbox
    BY LineParts DEF QInv
  <2>2. Line = (<<taken>> \o inbox) \o queue
    BY <2>1 DEF Line
  <2>3. Len(Line) \in Nat \ {0} /\ Line[1] = taken
    BY <1>1, <2>2
  <2>4. taken \in Range(Line)
    <3>1. Line \in Seq(Nat)
      BY LineParts DEF QInv
    <3>. QED
      BY <3>1, <2>3 DEF Range
  <2>. QED
    BY <2>4, LineOrder DEF QInv, Tasks
<1>3. queue # <<>> => Head(queue) \in 1..published
  <2>1. InPublishOrder
    BY DEF QInv
  <2>2. queue # <<>> => Head(queue) \in Range(OnLoan \o queue)
    BY <1>1, <2>1, RemoveIncreasing DEF InPublishOrder
  <2>. QED
    BY <2>2 DEF QInv, OneHome, Tasks
<1>4. CASE Enqueue
  BY <1>1, <1>4 DEF Enqueue, QTypeOK, Tasks
<1>5. CASE Deliver
  BY <1>1, <1>5 DEF Deliver, QTypeOK, Tasks
<1>6. CASE Take
  BY <1>1, <1>6 DEF Take, QTypeOK, Tasks
<1>7. CASE Ack
  BY <1>1, <1>2, <1>7 DEF Ack, QTypeOK, Tasks, NoTask
<1>8. CASE Nack
  BY <1>1, <1>2, <1>8 DEF Nack, QTypeOK, Tasks, NoTask
<1>9. CASE LoseConnection
  BY <1>1, <1>9 DEF LoseConnection, QTypeOK, Tasks
<1>10. CASE Reopen
  <2>1. /\ published' = published /\ queue' = queue /\ inbox' = <<>> /\ taken' = taken
        /\ link' = "up" /\ prefetch' = FALSE /\ acked' = acked /\ dead' = dead
    BY <1>10 DEF Reopen
  <2>2. inbox' \in Seq(Nat)
    BY <2>1
  <2>. QED
    BY <1>1, <2>1, <2>2 DEF QTypeOK, Tasks
<1>11. CASE Expire
  <2>1. /\ published' = published /\ queue' = Tail(queue) /\ inbox' = inbox
        /\ taken' = taken /\ link' = link /\ prefetch' = prefetch /\ acked' = acked
        /\ queue # <<>> /\ dead' = dead \cup {Head(queue)}
    BY <1>11 DEF Expire
  <2>2. queue' \in Seq(Nat)
    BY <1>1, <2>1
  <2>3. dead' \subseteq 1..published
    BY <1>1, <1>3, <2>1
  <2>. QED
    BY <1>1, <2>1, <2>2, <2>3 DEF QTypeOK, Tasks
<1>12. CASE Restart
  BY <1>1, <1>12 DEF Restart, QTypeOK, Tasks, NoTask
<1>. QED
  BY <1>4, <1>5, <1>6, <1>7, <1>8, <1>9, <1>10, <1>11, <1>12 DEF QNext

(* What is delivered comes from the line, so it is a published task.        *)
LEMMA RealStep == QInv /\ QNext => RealDeliveries'
<1>. SUFFICES ASSUME QInv, QNext PROVE RealDeliveries'
  OBVIOUS
<1>1. inbox \in Seq(Nat) /\ queue \in Seq(Nat) /\ OnLoan \in Seq(Nat)
      /\ \A i \in 1..Len(inbox) : inbox[i] # 0
  BY LineParts DEF QInv, RealDeliveries, NoTask
<1>2. CASE Deliver
  <2>1. Head(queue) \in Range(OnLoan \o queue)
    BY <1>1, <1>2, RemoveIncreasing DEF Deliver, QInv, InPublishOrder
  <2>2. Head(queue) # 0 /\ Head(queue) \in Nat
    BY <2>1 DEF QInv, OneHome, Tasks, QTypeOK
  <2>. QED
    BY <1>1, <1>2, <2>2 DEF Deliver, RealDeliveries, NoTask
<1>3. CASE inbox' = Tail(inbox) /\ inbox # <<>>
  BY <1>1, <1>3 DEF RealDeliveries, NoTask
<1>4. CASE inbox' = inbox \/ inbox' = <<>>
  BY <1>1, <1>4 DEF RealDeliveries, NoTask
<1>. QED
  BY <1>2, <1>3, <1>4
  DEF QNext, Enqueue, Take, Ack, Nack, LoseConnection, Reopen, Expire, Restart

(* Each kind of step keeps the line in order and the homes disjoint.        *)
LEMMA LineStep == QInv /\ QNext => InPublishOrder' /\ OneHome'
<1>. SUFFICES ASSUME QInv, QNext PROVE InPublishOrder' /\ OneHome'
  OBVIOUS
<1>1. /\ QTypeOK /\ Line \in Seq(Nat) /\ Increasing(Line)
      /\ Range(Line) = Tasks \ Settled /\ acked \cap dead = {}
      /\ published \in Nat
      /\ acked \subseteq 1..published /\ dead \subseteq 1..published
      /\ RealDeliveries
  BY LineParts, LineOrder DEF QInv, QTypeOK, Tasks
<1>2. SUFFICES Increasing(Line)' /\ Range(Line)' = (Tasks \ Settled)' /\ (acked \cap dead)' = {}
  BY DEF InPublishOrder, OneHome, Line
<1>3. CASE Enqueue
  <2>1. \A y \in Range(Line) : y < published + 1
    BY <1>1 DEF Tasks
  <2>2. Increasing(Append(Line, published + 1))
        /\ Range(Append(Line, published + 1)) = Range(Line) \cup {published + 1}
    BY <1>1, <2>1, AppendIncreasing
  <2>3. Line' = Append(Line, published + 1)
    BY <1>1, <1>3, EnqueueLine
  <2>4. (Tasks \ Settled)' = (Tasks \ Settled) \cup {published + 1}
    BY <1>1, <1>3 DEF Enqueue, Tasks, Settled
  <2>5. (acked \cap dead)' = {}
    BY <1>1, <1>3 DEF Enqueue
  <2>6. Increasing(Line') /\ Range(Line') = (Tasks \ Settled)'
    BY <1>1, <2>2, <2>3, <2>4
  <2>. QED
    BY <2>5, <2>6 DEF Increasing
<1>4. CASE Transport
  <2>1. Line' = Line
    BY <1>1, <1>4, DeliverLine, TakeLine, ReturnedLine, ReopenLine DEF Transport
  <2>2. published' = published /\ acked' = acked /\ dead' = dead
    BY <1>4 DEF Transport, Deliver, Take, LoseConnection, Reopen, Restart
  <2>. QED
    BY <1>1, <2>1, <2>2 DEF Increasing, Tasks, Settled
<1>5. CASE (Ack \/ Nack) /\ link # "up"
  <2>1. Line' = Line
    BY <1>1, <1>5, FinishLine
  <2>2. published' = published /\ acked' = acked /\ dead' = dead
    BY <1>5 DEF Ack, Nack
  <2>. QED
    BY <1>1, <2>1, <2>2 DEF Increasing, Tasks, Settled
<1>6. CASE (Ack \/ Nack) /\ link = "up"
  <2>1. Line # <<>> /\ Head(Line) = taken /\ Line' = Tail(Line)
    BY <1>1, <1>6, FinishLine
  <2>2. Increasing(Tail(Line)) /\ Range(Tail(Line)) = Range(Line) \ {taken} /\ taken \in Range(Line)
    BY <1>1, <2>1, RemoveHead
  <2>3. /\ published' = published
        /\ \/ acked' = acked \cup {taken} /\ dead' = dead
           \/ acked' = acked /\ dead' = dead \cup {taken}
    BY <1>6 DEF Ack, Nack
  <2>4. taken \notin acked /\ taken \notin dead
    BY <1>1, <2>2 DEF Settled
  <2>5. (acked \cap dead)' = {}
    BY <1>1, <2>3, <2>4
  <2>6. (Tasks \ Settled)' = (Tasks \ Settled) \ {taken}
    BY <2>3 DEF Tasks, Settled
  <2>7. Increasing(Line') /\ Range(Line') = (Tasks \ Settled)'
    BY <1>1, <2>1, <2>2, <2>6
  <2>. QED
    BY <2>5, <2>7 DEF Increasing
<1>7. CASE Expire
  <2>. DEFINE h == Head(queue)
  <2>1. OnLoan \in Seq(Nat) /\ queue \in Seq(Nat) /\ queue # <<>> /\ Increasing(OnLoan \o queue)
    BY <1>1, <1>7, LineParts DEF Expire, Line
  <2>2. /\ Increasing(OnLoan \o Tail(queue))
        /\ Range(OnLoan \o Tail(queue)) = Range(Line) \ {h}
        /\ h \in Range(Line)
    BY <2>1, RemoveIncreasing DEF Line
  <2>3. Line' = OnLoan \o Tail(queue)
    BY <1>7 DEF Expire, Line, OnLoan
  <2>4. published' = published /\ acked' = acked /\ dead' = dead \cup {h}
    BY <1>7 DEF Expire
  <2>. HIDE DEF h
  <2>5. (acked \cap dead)' = {}
    BY <1>1, <2>2, <2>4 DEF Settled
  <2>6. (Tasks \ Settled)' = (Tasks \ Settled) \ {h}
    BY <2>4 DEF Tasks, Settled
  <2>7. Increasing(Line') /\ Range(Line') = (Tasks \ Settled)'
    BY <1>1, <2>2, <2>3, <2>6
  <2>. QED
    BY <2>5, <2>7 DEF Increasing
<1>. QED
  BY <1>3, <1>4, <1>5, <1>6, <1>7 DEF QNext, Transport

(* Every step keeps the inductive invariant.                               *)
LEMMA QInvStep == QInv /\ [QNext]_qvars => QInv'
<1>1. ASSUME QInv, UNCHANGED qvars PROVE QInv'
  BY <1>1 DEF QInv, qvars, QTypeOK, RealDeliveries, InPublishOrder, OneHome, Tasks,
              Settled, OnLoan, Increasing
<1>. QED
  BY <1>1, TypeStep, RealStep, LineStep DEF QInv

(* The strengthened invariant holds of every reachable state of the queue.  *)
THEOREM Invariant == QSpec => []QInv
  BY QInvInit, QInvStep, PTL DEF QSpec

(* Types, for any number of tasks.                                          *)
THEOREM TypeCorrect == QSpec => []QTypeOK
<1>1. QInv => QTypeOK
  BY DEF QInv
<1>. QED
  BY <1>1, Invariant, PTL

(* What the worker holds followed by what is ready is always in publishing  *)
(* order, through lost connections, reconnections, expiry and restarts.     *)
THEOREM PublishOrder == QSpec => []InPublishOrder
<1>1. QInv => InPublishOrder
  BY DEF QInv
<1>. QED
  BY <1>1, Invariant, PTL

(* No task is lost inside the queue, and none is settled twice.             *)
THEOREM Homes == QSpec => []OneHome
<1>1. QInv => OneHome
  BY DEF QInv
<1>. QED
  BY <1>1, Invariant, PTL

-----------------------------------------------------------------------------
(* What the modules around the queue need of its deliveries.               *)

(* Every delivery on the Go side, also one whose connection is gone, is a   *)
(* published task and so has a body.                                        *)
HeldAreTasks == /\ taken # NoTask => taken \in Tasks
                /\ \A i \in 1..Len(inbox) : inbox[i] \in Tasks

(* Deliveries come out of the line of tasks, so they are tasks.            *)
LEMMA HeldStep == QInv /\ HeldAreTasks /\ [QNext]_qvars => HeldAreTasks'
<1>. SUFFICES ASSUME QInv, HeldAreTasks, [QNext]_qvars PROVE HeldAreTasks'
  OBVIOUS
<1>1. /\ inbox \in Seq(Nat) /\ queue \in Seq(Nat) /\ OnLoan \in Seq(Nat)
      /\ published \in Nat /\ Tasks = 1..published
      /\ \A i \in 1..Len(inbox) : inbox[i] \in 1..published
      /\ taken # 0 => taken \in 1..published
  BY LineParts DEF QInv, HeldAreTasks, NoTask, Tasks
<1>2. CASE Deliver
  <2>1. Head(queue) \in Range(OnLoan \o queue)
    BY <1>1, <1>2, RemoveIncreasing DEF Deliver, QInv, InPublishOrder
  <2>2. Head(queue) \in 1..published
    BY <2>1 DEF QInv, OneHome, Tasks
  <2>. QED
    BY <1>1, <1>2, <2>2 DEF Deliver, HeldAreTasks, Tasks, NoTask
<1>3. CASE Take
  BY <1>1, <1>3 DEF Take, HeldAreTasks, Tasks, NoTask
<1>4. CASE Enqueue
  BY <1>1, <1>4 DEF Enqueue, HeldAreTasks, Tasks, NoTask
<1>5. CASE Reopen \/ Restart
  <2>1. inbox' = <<>> /\ taken' = 0
    BY <1>5 DEF Reopen, Restart, NoTask
  <2>. QED
    BY <2>1 DEF HeldAreTasks, NoTask
<1>6. CASE Ack \/ Nack \/ LoseConnection \/ Expire \/ UNCHANGED qvars
  <2>1. inbox' = inbox /\ published' = published /\ (taken' = taken \/ taken' = 0)
    BY <1>6 DEF Ack, Nack, LoseConnection, Expire, qvars, NoTask
  <2>. QED
    BY <1>1, <2>1 DEF HeldAreTasks, Tasks, NoTask
<1>. QED
  BY <1>2, <1>3, <1>4, <1>5, <1>6 DEF QNext

-----------------------------------------------------------------------------
(* Refinement of TaskLog.                                                  *)

(* The unsettled tasks of the log are those in the line.                   *)
LEMMA UnsettledIsLine == QInv => Log!Unsettled = Range(Line)
  BY LineOrder DEF QInv, Log!Unsettled, Tasks, Settled

(* While its connection lives, the delivery being processed is the oldest   *)
(* task that is not settled.                                                *)
LEMMA TakenIsOldest == QInv /\ taken # NoTask /\ link = "up" => Log!Oldest(taken)
<1>. SUFFICES ASSUME QInv, taken # NoTask, link = "up" PROVE Log!Oldest(taken)
  OBVIOUS
<1>1. Line \in Seq(Nat) /\ Line # <<>> /\ Head(Line) = taken /\ Increasing(Line)
  BY LineParts, TakenFirst, LineOrder DEF QInv
<1>2. \A x \in Range(Line) : taken <= x
  BY <1>1, HeadIsOldest
<1>3. taken \in Range(Line)
  BY <1>1, RemoveHead
<1>. QED
  BY <1>2, <1>3, UnsettledIsLine DEF Log!Oldest

(* Every step of the queue is a step of the log, or changes nothing of it.  *)
LEMMA LogStep == QInv /\ [QNext]_qvars => [Log!LNext]_(Log!lvars)
<1>. SUFFICES ASSUME QInv, [QNext]_qvars PROVE [Log!LNext]_(Log!lvars)
  OBVIOUS
<1>. USE DEF Log!lvars
<1>1. CASE Enqueue
  BY <1>1 DEF Enqueue, Log!LNext, Log!Accept
<1>2. CASE Transport \/ UNCHANGED qvars
  BY <1>2 DEF Transport, Deliver, Take, LoseConnection, Reopen, Restart, qvars
<1>3. CASE (Ack \/ Nack) /\ link # "up"
  BY <1>3 DEF Ack, Nack
<1>4. CASE (Ack \/ Nack) /\ link = "up"
  <2>1. Log!Oldest(taken) /\ taken \in Log!Unsettled
    BY <1>4, TakenIsOldest DEF Ack, Nack, Log!Oldest
  <2>2. Log!Acknowledge(taken) \/ Log!Reject(taken)
    BY <1>4, <2>1 DEF Ack, Nack, Log!Acknowledge, Log!Reject
  <2>. QED
    BY <2>1, <2>2 DEF Log!LNext
<1>5. CASE Expire
  <2>1. OnLoan \in Seq(Nat) /\ queue \in Seq(Nat) /\ queue # <<>> /\ Increasing(OnLoan \o queue)
    BY <1>5, LineParts DEF Expire, QInv, InPublishOrder
  <2>2. Head(queue) \in Log!Unsettled
    BY <2>1, RemoveIncreasing, UnsettledIsLine DEF Line
  <2>3. Log!Overdue(Head(queue))
    BY <1>5, <2>2 DEF Expire, Log!Overdue
  <2>. QED
    BY <2>2, <2>3 DEF Log!LNext
<1>. QED
  BY <1>1, <1>2, <1>3, <1>4, <1>5 DEF QNext, Transport

(* The queue implements its abstract specification: each task is settled    *)
(* at most once and, expiry aside, oldest first.                            *)
THEOREM Refinement == QSpec => ImplementsLog
<1>1. QInit => Log!LInit
  BY DEF QInit, Log!LInit
<1>. QED
  BY <1>1, LogStep, Invariant, PTL DEF QSpec, ImplementsLog, Log!LSpec

-----------------------------------------------------------------------------
(* What the worker's task and the acknowledged ones have to do with each    *)
(* other.                                                                  *)

(* What is in one sequence after another.                                  *)
LEMMA ConcatRange ==
    ASSUME NEW a \in Seq(Nat), NEW b \in Seq(Nat)
    PROVE  Range(a \o b) = Range(a) \cup Range(b)
<1>1. /\ a \o b \in Seq(Nat) /\ Len(a \o b) = Len(a) + Len(b) /\ Len(a) \in Nat /\ Len(b) \in Nat
      /\ \A i \in 1..Len(a) : (a \o b)[i] = a[i]
      /\ \A i \in 1..Len(b) : (a \o b)[Len(a) + i] = b[i]
  OBVIOUS
<1>2. /\ DOMAIN (a \o b) = 1..(Len(a) + Len(b)) /\ DOMAIN a = 1..Len(a) /\ DOMAIN b = 1..Len(b)
  BY <1>1
<1>3. \A i \in 1..(Len(a) + Len(b)) : i \in 1..Len(a) \/ (i - Len(a) \in 1..Len(b) /\ Len(a) + (i - Len(a)) = i)
  BY <1>1
<1>4. \A i \in 1..Len(b) : Len(a) + i \in 1..(Len(a) + Len(b))
  BY <1>1
<1>5. \A i \in 1..Len(a) : i \in 1..(Len(a) + Len(b))
  BY <1>1
<1>6. Range(a \o b) \subseteq Range(a) \cup Range(b)
  BY <1>1, <1>2, <1>3 DEF Range
<1>7. Range(a) \subseteq Range(a \o b) /\ Range(b) \subseteq Range(a \o b)
  BY <1>1, <1>2, <1>4, <1>5 DEF Range
<1>. QED
  BY <1>6, <1>7

\* No delivery that is held was acknowledged, not even a stale one.
HeldNotAcked == /\ taken # NoTask => taken \notin acked
                /\ \A i \in 1..Len(inbox) : inbox[i] \notin acked

(* While the connection lives, what is held is in the line, and so is not   *)
(* settled.                                                                *)
LEMMA HeldIsUnsettled == QInv /\ link = "up" => HeldNotAcked
<1>. SUFFICES ASSUME QInv, link = "up" PROVE HeldNotAcked
  OBVIOUS
<1>1. /\ taken \in Nat /\ inbox \in Seq(Nat) /\ queue \in Seq(Nat) /\ OnLoan \in Seq(Nat)
      /\ link = "up" /\ taken = NoTask => OnLoan = inbox
      /\ link = "up" /\ taken # NoTask => OnLoan = <<taken>> \o inbox
      /\ <<taken>> \in Seq(Nat)
  BY LineParts DEF QInv
<1>2. Range(OnLoan) \subseteq Tasks \ Settled
  BY <1>1, ConcatRange DEF QInv, OneHome
<1>3. Range(inbox) \subseteq Range(OnLoan) /\ (taken # NoTask => taken \in Range(OnLoan))
  <2>1. Range(<<taken>>) = {taken}
    BY DEF Range
  <2>. QED
    BY <1>1, <2>1, ConcatRange
<1>4. \A i \in 1..Len(inbox) : inbox[i] \in Range(inbox)
  BY <1>1 DEF Range
<1>. QED
  BY <1>2, <1>3, <1>4 DEF HeldNotAcked, Settled

(* Over a lost connection nothing is acknowledged, and no delivery comes.   *)
LEMMA HeldNotAckedStep == QInv /\ HeldNotAcked /\ [QNext]_qvars => HeldNotAcked'
<1>1. (QInv /\ link = "up" => HeldNotAcked)'
  BY HeldIsUnsettled, PTL
<1>. SUFFICES ASSUME QInv, HeldNotAcked, [QNext]_qvars PROVE HeldNotAcked'
  OBVIOUS
<1>2. QInv' /\ inbox \in Seq(Nat)
  BY QInvStep, LineParts DEF QInv
<1>3. CASE Enqueue \/ LoseConnection \/ Expire \/ UNCHANGED qvars
  BY <1>3 DEF Enqueue, LoseConnection, Expire, qvars, HeldNotAcked
<1>4. CASE Take
  BY <1>2, <1>4 DEF Take, HeldNotAcked
<1>5. CASE Deliver \/ Reopen \/ Restart
  BY <1>1, <1>2, <1>5 DEF Deliver, Reopen, Restart
<1>6. CASE (Ack \/ Nack) /\ link # "up"
  BY <1>6 DEF Ack, Nack, HeldNotAcked
<1>7. CASE (Ack \/ Nack) /\ link = "up"
  BY <1>1, <1>2, <1>7 DEF Ack, Nack
<1>. QED
  BY <1>3, <1>4, <1>5, <1>6, <1>7 DEF QNext

\* What is acknowledged is older than what is not settled.
AckedFirst == \A s \in acked : \A t \in Tasks \ Settled : s < t

(* An Ack takes the oldest, and what is published is the newest.            *)
LEMMA AckedFirstStep == QInv /\ AckedFirst /\ [QNext]_qvars => AckedFirst'
<1>. SUFFICES ASSUME QInv, AckedFirst, [QNext]_qvars PROVE AckedFirst'
  OBVIOUS
<1>1. /\ AckedFirst /\ published \in Nat /\ acked \subseteq 1..published
      /\ \A s \in acked, t \in Log!Unsettled : s < t
  BY DEF QInv, QTypeOK, Tasks, AckedFirst, Log!Unsettled, Settled
<1>2. SUFFICES \A s \in acked', t \in Log!Unsettled' : s < t
  BY DEF AckedFirst, Log!Unsettled, Settled, Tasks
<1>3. CASE UNCHANGED Log!lvars
  BY <1>1, <1>3 DEF Log!lvars, Log!Unsettled
<1>4. CASE Log!Accept
  BY <1>1, <1>4 DEF Log!Accept, Log!Unsettled
<1>5. ASSUME NEW t \in Log!Unsettled, Log!Reject(t) \/ Log!Overdue(t)
      PROVE  \A s \in acked', u \in Log!Unsettled' : s < u
  BY <1>1, <1>5 DEF Log!Reject, Log!Overdue, Log!Unsettled
<1>6. ASSUME NEW t \in Log!Unsettled, Log!Acknowledge(t)
      PROVE  \A s \in acked', u \in Log!Unsettled' : s < u
  <2>1. \A u \in Log!Unsettled : t <= u
    BY <1>6 DEF Log!Acknowledge, Log!Oldest
  <2>2. Log!Unsettled' = Log!Unsettled \ {t} /\ Log!Unsettled \subseteq 1..published /\ acked' = acked \cup {t}
    BY <1>6 DEF Log!Acknowledge, Log!Unsettled
  <2>. QED
    BY <1>1, <2>1, <2>2
<1>. QED
  BY <1>3, <1>4, <1>5, <1>6, LogStep DEF Log!LNext
=============================================================================
