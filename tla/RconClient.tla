----------------------------- MODULE RconClient -----------------------------
(***************************************************************************)
(* rcon/client.go: how one command of the worker reaches the game server.  *)
(* Client.SendCommand writes a packet and waits for the answer; if either  *)
(* fails it dials again, authenticates and sends the same packet again.    *)
(* There is no deadline on the read, and the id of an answer is compared   *)
(* with -1 only, never with the id of the question.                        *)
(*                                                                         *)
(* A packet is the number of the call it belongs to, or Auth.  Gatekeeper  *)
(* uses the outcome of a call only (IssueRCON, RCONError).                 *)
(***************************************************************************)
EXTENDS Integers, Sequences, FiniteSets, Functions

CONSTANTS MaxCalls,   \* bound: how many commands the worker sends
          TooLong     \* the calls whose packet is over payloadMaxSize

ASSUME RconAssumption == MaxCalls \in Nat /\ TooLong \subseteq 1 .. MaxCalls

Auth == 0
BadAuth == -1         \* packetIDBadAuth
Attempts == 3         \* of SendCommand's loop

VARIABLES
  at,          \* where SendCommand is; "idle" between two calls
  calls,       \* the number of calls so far; the last is the current one
  attempt,     \* i of the loop; 0 before it
  connection,  \* Client.connection, a position in conns
  conns,       \* every connection ever dialled, seen from both ends
  server,      \* the game server: does it run, does it take our password
  outcome,     \* what the last call returned, and the answer it was given
  executed,    \* history: the calls whose command was carried out, in order
  disturbed    \* history: did anything fail since the current call began

vars == <<at, calls, attempt, connection, conns, server, outcome, executed,
          disturbed>>

Places == {"idle", "write", "read", "dial", "login", "welcome", "rewrite",
           "reread"}
NoOutcome == [result |-> "none", answer |-> Auth]

Fresh == [open |-> TRUE, trusted |-> FALSE, asked |-> <<>>, answers |-> <<>>]

\* The newest connection is the one connectRCON is working on.
New == Len(conns)

\* NewWorker calls NewClient once and gives up if that fails.
RInit ==
  /\ at = "idle" /\ calls = 0 /\ attempt = 0 /\ connection = 1
  /\ conns = <<[Fresh EXCEPT !.trusted = TRUE]>>
  /\ server = [up |-> TRUE, password |-> TRUE]
  /\ outcome = NoOutcome /\ executed = <<>> /\ disturbed = FALSE

Return(o) == at' = "idle" /\ outcome' = o
Answered(a) == Return([result |-> "ok", answer |-> a])
Failed == Return([result |-> "error", answer |-> Auth])

\* sendPayload's Write: the kernel takes the bytes; a peer that is gone never
\* sees them.
Write(c, packet) ==
  conns' = IF conns[c].open
             THEN [conns EXCEPT ![c].asked = Append(@, packet)] ELSE conns

\* createPayloadFromPacket: takes the next answer from the stream.
Read(c, packet) ==
  /\ conns[c].answers # <<>> /\ packet = Head(conns[c].answers)
  /\ conns' = [conns EXCEPT ![c].answers = Tail(@)]

Broken(c) == ~conns[c].open /\ conns[c].answers = <<>>

(***************************************************************************)
(* The client.                                                             *)
(***************************************************************************)
\* The worker's next command.
SendCommand ==
  /\ at = "idle" /\ calls < MaxCalls
  /\ calls' = calls + 1 /\ attempt' = 0 /\ at' = "write" /\ disturbed' = FALSE
  /\ UNCHANGED <<connection, conns, server, outcome, executed>>

\* Mutant: the answer's id is not looked at.
AcceptsAll(a) == TRUE

\* sendPayload's check of the answer.
Accepts(a) == a # BadAuth

\* sendPayload with the packet of this call, on c.connection.
WriteCommand(from, to) ==
  /\ at = from /\ calls \notin TooLong
  /\ at' = to /\ Write(connection, calls)
  /\ UNCHANGED <<calls, attempt, connection, server, outcome, executed,
                 disturbed>>

Exchange ==
  \/ WriteCommand("write", "read")
  \/ WriteCommand("rewrite", "reread")

\* A first or second exchange that worked ends the call.
GetAnswer ==
  /\ at \in {"read", "reread"}
  /\ \E a \in -1 .. MaxCalls :
       Read(connection, a) /\ Accepts(a) /\ Answered(a)
  /\ UNCHANGED <<calls, attempt, connection, server, executed, disturbed>>

\* Mutant: a read that takes long is given up, and the connection left open.
ExchangeTimesOut(from, to) ==
  \/ at = from /\ (calls \in TooLong \/ ~conns[connection].open)
       /\ UNCHANGED conns
  \/ at = to /\ conns[connection].answers = <<>> /\ UNCHANGED conns
  \/ at = to /\ \E a \in -1 .. MaxCalls : Read(connection, a) /\ ~Accepts(a)

\* sendPayload returns an error: the packet was too long, the connection
\* is gone, or the answer says that we are not authenticated.
ExchangeFails(from, to) ==
  \/ at = from /\ (calls \in TooLong \/ ~conns[connection].open)
       /\ UNCHANGED conns
  \/ at = to /\ Broken(connection) /\ UNCHANGED conns
  \/ at = to /\ \E a \in -1 .. MaxCalls : Read(connection, a) /\ ~Accepts(a)

\* The first error starts the loop, ...
FirstFails ==
  /\ ExchangeFails("write", "read")
  /\ at' = "dial" /\ attempt' = 1
  /\ UNCHANGED <<calls, connection, server, outcome, executed, disturbed>>

\* ... one after the packet was sent again ends the call.
ResendFails ==
  /\ ExchangeFails("rewrite", "reread") /\ Failed
  /\ UNCHANGED <<calls, attempt, connection, server, executed, disturbed>>

\* connectRCON: net.DialTimeout succeeds.
Dial ==
  /\ at = "dial" /\ server.up
  /\ conns' = Append(conns, Fresh) /\ at' = "login"
  /\ UNCHANGED <<calls, attempt, connection, server, outcome, executed,
                 disturbed>>

\* sendAuthentication
Login ==
  /\ at = "login"
  /\ at' = "welcome" /\ Write(New, Auth)
  /\ UNCHANGED <<calls, attempt, connection, server, outcome, executed,
                 disturbed>>

\* Mutant: the new connection is not stored in the client.
ReconnectedForgotten ==
  /\ at = "welcome"
  /\ \E a \in -1 .. MaxCalls : Read(New, a) /\ Accepts(a)
  /\ at' = "rewrite"
  /\ UNCHANGED <<calls, attempt, connection, server, outcome, executed,
                 disturbed>>

\* connectRCON returned a client: c.connection = newClient.connection.
Reconnected ==
  /\ at = "welcome"
  /\ \E a \in -1 .. MaxCalls : Read(New, a) /\ Accepts(a)
  /\ connection' = New /\ at' = "rewrite"
  /\ UNCHANGED <<calls, attempt, server, outcome, executed, disturbed>>

\* connectRCON returns an error: no connection within five seconds, the
\* connection is lost again, or the password is wrong.
ConnectFails ==
  \/ at = "dial" /\ UNCHANGED conns
  \/ at = "login" /\ ~conns[New].open /\ UNCHANGED conns
  \/ at = "welcome" /\ Broken(New) /\ UNCHANGED conns
  \/ at = "welcome" /\ \E a \in -1 .. MaxCalls : Read(New, a) /\ ~Accepts(a)

\* Mutant: the loop does not count.
NextAttemptUncounted ==
  /\ ConnectFails
  /\ disturbed' = TRUE /\ at' = "dial"
  /\ UNCHANGED <<attempt, calls, connection, server, outcome, executed>>

\* Mutant: the loop runs once more than it should.
NextAttemptOnceMore ==
  /\ ConnectFails
  /\ disturbed' = TRUE
  /\ IF attempt <= Attempts
       THEN attempt' = attempt + 1 /\ at' = "dial" /\ UNCHANGED outcome
       ELSE Failed /\ UNCHANGED attempt
  /\ UNCHANGED <<calls, connection, server, executed>>

\* time.Sleep and continue, or the end of the loop: "Unable to reconnect".
NextAttempt ==
  /\ ConnectFails
  /\ disturbed' = TRUE
  /\ IF attempt < Attempts
       THEN attempt' = attempt + 1 /\ at' = "dial" /\ UNCHANGED outcome
       ELSE Failed /\ UNCHANGED attempt
  /\ UNCHANGED <<calls, connection, server, executed>>

Client == \/ Exchange \/ GetAnswer \/ FirstFails \/ ResendFails
          \/ Dial \/ Login \/ Reconnected \/ NextAttempt

(***************************************************************************)
(* The game server and the network, as the client can notice them.         *)
(***************************************************************************)
\* The server takes one packet, acts on it and answers.
Serve(c) ==
  LET k == conns[c] p == Head(k.asked) IN
  /\ k.open /\ k.asked # <<>>
  /\ \/ /\ p = Auth
        /\ conns' = [conns EXCEPT ![c] =
             [k EXCEPT !.asked = Tail(@), !.trusted = server.password,
                       !.answers = Append(@, IF server.password THEN Auth
                                                                ELSE BadAuth)]]
        /\ UNCHANGED executed
     \/ /\ p # Auth /\ k.trusted
        /\ conns' = [conns EXCEPT ![c] =
             [k EXCEPT !.asked = Tail(@), !.answers = Append(@, p)]]
        /\ executed' = Append(executed, p)
     \/ /\ p # Auth /\ ~k.trusted
        /\ conns' = [conns EXCEPT ![c] =
             [k EXCEPT !.asked = Tail(@), !.answers = Append(@, BadAuth)]]
        /\ UNCHANGED executed
  /\ UNCHANGED <<at, calls, attempt, connection, server, outcome, disturbed>>

\* A connection that breaks loses what the server has not read, and perhaps
\* the answer that is on its way.
Cut(k, arrives) == [k EXCEPT !.open = FALSE, !.asked = <<>>,
                             !.answers = IF arrives THEN @ ELSE <<>>]

\* One connection breaks.
Reset(c) ==
  /\ conns[c].open
  /\ \E arrives \in BOOLEAN : conns' = [conns EXCEPT ![c] = Cut(@, arrives)]
  /\ disturbed' = (disturbed \/ at # "idle")
  /\ UNCHANGED <<at, calls, attempt, connection, server, outcome, executed>>

\* The game server stops, ...
ServerStops ==
  /\ server.up
  /\ server' = [server EXCEPT !.up = FALSE]
  /\ \E arrives \in BOOLEAN : conns' = [c \in DOMAIN conns |-> Cut(conns[c], arrives)]
  /\ disturbed' = (disturbed \/ at # "idle")
  /\ UNCHANGED <<at, calls, attempt, connection, outcome, executed>>

\* ... and starts again, with the password of the configuration or another.
ServerStarts ==
  /\ ~server.up
  /\ \E right \in BOOLEAN : server' = [up |-> TRUE, password |-> right]
  /\ UNCHANGED <<at, calls, attempt, connection, conns, outcome, executed,
                 disturbed>>

RNext == \/ SendCommand \/ Client
         \/ \E c \in DOMAIN conns : Serve(c) \/ Reset(c)
         \/ ServerStops \/ ServerStarts

\* The client's goroutine runs; a server that runs answers what it was asked.
RFairness == WF_vars(Client) /\ WF_vars(\E c \in DOMAIN conns : Serve(c))

RSpec == RInit /\ [][RNext]_vars /\ RFairness

(***************************************************************************)
(* Properties                                                              *)
(***************************************************************************)
\* The state is what the declarations say.
RTypeOK ==
  /\ at \in Places /\ calls \in 0 .. MaxCalls /\ attempt \in 0 .. Attempts
  /\ connection \in DOMAIN conns
  /\ \A c \in DOMAIN conns :
       /\ conns[c].open \in BOOLEAN /\ conns[c].trusted \in BOOLEAN
       /\ Range(conns[c].asked) \subseteq 0 .. MaxCalls
       /\ Range(conns[c].answers) \subseteq -1 .. MaxCalls
  /\ server \in [up : BOOLEAN, password : BOOLEAN]
  /\ outcome \in [result : {"none", "ok", "error"}, answer : 0 .. MaxCalls]
  /\ Range(executed) \subseteq 1 .. MaxCalls /\ disturbed \in BOOLEAN

Times(call) == Cardinality({i \in DOMAIN executed : executed[i] = call})

Returned(result) == at = "idle" /\ outcome.result = result

\* SendCommand returns without error only when the game server carried the
\* command out, and what it returns is the answer to this command and no other,
\* although no id is compared: whatever breaks, an answer that was not waited
\* for is never left in a connection that is used again.
AnswerMatches ==
  Returned("ok") => /\ outcome.answer = calls
                    /\ Times(calls) > 0

\* The reason for the loop in SendCommand: a connection that was lost between
\* two calls costs no command.  A call fails only if something failed during
\* the call, or if its packet can never be sent.
ErrorHasCause == Returned("error") => disturbed \/ calls \in TooLong

Command == INSTANCE GameCommand
             WITH busy <- at # "idle", number <- calls,
                  times <- Times(calls), result <- outcome.result

\* What the worker relies on: SendCommand, with its connections, its second
\* packet and its loop, implements one call of GameCommand at a time.  However
\* the connections break, a packet is carried out twice at most, and never after
\* its call returned (the approval after the ban), although SendCommand closes
\* no connection that it gives up: it gives up none that could still deliver.
ImplementsCommand == Command!Spec

\* Every call returns whatever the game server does, provided that a running
\* server answers or its connection breaks: the worker settles its task.
CallReturns == at # "idle" ~> at = "idle"
=============================================================================
