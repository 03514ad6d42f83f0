---------------------------- MODULE Registration ----------------------------
(***************************************************************************)
(* How a node enters the network: a thread asks the signal server every    *)
(* few seconds until AwaitingRegistration is cleared, and the network      *)
(* thread waits for the answer and for the data of a round. Packets are    *)
(* lost and overtake each other.                                           *)
(*                                                                         *)
(* The signal server is not in the repository. It is taken to answer every *)
(* request, and to start the first round once, after the node registered;  *)
(* whoever registers with a running network is given its round at once.    *)
(***************************************************************************)
EXTENDS Naturals

CONSTANTS
  VersionAccepted,  \* the server knows the node's CURRENT_VERSION
  MaxInits          \* bound: calls of getInitRing that are counted

ASSUME RegistrationAssumption == VersionAccepted \in BOOLEAN /\ MaxInits \in Nat \ {0, 1}

VARIABLES
  AwaitingRegistration,
  asker,     \* the thread of RegistrationToServer: none, at its test, sending, gone
  handler,   \* what the network thread waits for: nothing, registration, messages
  requests,  \* whether requests are under way
  answers,   \* packets under way to the node
  server,    \* the server: idle, has the node registered, has started a round
  inits,     \* calls of getInitRing
  startLost  \* the packet that starts the first round was lost

registrationVars == <<AwaitingRegistration, asker, handler, requests, answers, server, inits, startLost>>

(* [command, subcommand] of the server's packets. *)
Accepted == <<"Registration", "Empty">>
Running == <<"Registration", "RegistrationLevelNode">>
Refused == <<"RegistrationConnectionRefused", "Empty">>
RoundStarted == <<"Redirect", "RegistrationLevelNode">>
ServerPackets == {Accepted, Running, Refused, RoundStarted}

RegistrationInit ==
  /\ AwaitingRegistration = TRUE /\ asker = "none" /\ handler = "none"
  /\ requests = FALSE /\ answers = {} /\ server = "idle" /\ inits = 0 /\ startLost = FALSE

InitConnection ==
  /\ handler = "none"
  /\ handler' = "registration" /\ asker' = "test"
  /\ UNCHANGED <<AwaitingRegistration, requests, answers, server, inits, startLost>>

(* RegistrationToServer: while (AwaitingRegistration) ... *)
AskerTest ==
  /\ asker = "test"
  /\ asker' = IF AwaitingRegistration THEN "send" ELSE "gone"
  /\ UNCHANGED <<AwaitingRegistration, handler, requests, answers, server, inits, startLost>>

(* Mutant: one request only. *)
AskerSendOnce ==
  /\ asker = "send"
  /\ asker' = "gone" /\ requests' = TRUE
  /\ UNCHANGED <<AwaitingRegistration, handler, answers, server, inits, startLost>>

AskerSend ==
  /\ asker = "send"
  /\ asker' = "test" /\ requests' = TRUE
  /\ UNCHANGED <<AwaitingRegistration, handler, answers, server, inits, startLost>>

(* External: the server answers, and starts the round. *)
Answer ==
  /\ requests
  /\ requests' = FALSE
  /\ answers' = answers \cup {IF ~VersionAccepted THEN Refused
                              ELSE IF server = "started" THEN Running ELSE Accepted}
  /\ server' = IF VersionAccepted /\ server = "idle" THEN "registered" ELSE server
  /\ UNCHANGED <<AwaitingRegistration, asker, handler, inits, startLost>>

StartFirstRound ==
  /\ server = "registered"
  /\ server' = "started" /\ answers' = answers \cup {RoundStarted}
  /\ UNCHANGED <<AwaitingRegistration, asker, handler, requests, inits, startLost>>

Counted(n) == IF n < MaxInits THEN n + 1 ELSE n

(* Mutant: after the data of the first round the node waits on for one. *)
ReceiveRegistrationOn(p) ==
  /\ handler = "registration"
  /\ AwaitingRegistration' = (AwaitingRegistration /\ p[1] # "Registration")
  /\ inits' = IF p[2] = "RegistrationLevelNode" THEN Counted(inits) ELSE inits
  /\ handler' = IF p = Running THEN "messages" ELSE handler

(* The callback of ReceiveRegistration. Only an answer to the request      *)
(* clears the flag; with the data of a round the node begins to receive. A *)
(* refusal makes it sleep for some hours and wait again.                   *)
ReceiveRegistration(p) ==
  /\ handler = "registration"
  /\ AwaitingRegistration' = (AwaitingRegistration /\ p[1] # "Registration")
  /\ inits' = IF p[2] = "RegistrationLevelNode" THEN Counted(inits) ELSE inits
  /\ handler' = IF p[2] = "RegistrationLevelNode" THEN "messages" ELSE handler

(* InputServiceHandleReceive has no use for these packets. *)
Ignore == handler = "messages" /\ UNCHANGED <<AwaitingRegistration, inits, handler>>

Receive(p) ==
  /\ p \in answers
  /\ answers' = answers \ {p}
  /\ ReceiveRegistration(p) \/ Ignore
  /\ UNCHANGED <<asker, requests, server, startLost>>

LoseRequest ==
  /\ requests /\ requests' = FALSE
  /\ UNCHANGED <<AwaitingRegistration, asker, handler, answers, server, inits, startLost>>

LoseAnswer(p) ==
  /\ p \in answers
  /\ answers' = answers \ {p}
  /\ startLost' = (startLost \/ p = RoundStarted)
  /\ UNCHANGED <<AwaitingRegistration, asker, handler, requests, server, inits>>

RegistrationNext ==
  \/ InitConnection \/ AskerTest \/ AskerSend \/ Answer \/ StartFirstRound \/ LoseRequest
  \/ \E p \in ServerPackets : Receive(p) \/ LoseAnswer(p)

(* The threads run; what is sent again and again arrives in the end.       *)
RegistrationFairness ==
  /\ WF_registrationVars(AskerTest \/ AskerSend)
  /\ WF_registrationVars(StartFirstRound)
  /\ SF_registrationVars(Answer)
  /\ SF_registrationVars(\E p \in ServerPackets : Receive(p))

RegistrationSpec == RegistrationInit /\ [][RegistrationNext]_registrationVars /\ RegistrationFairness

-----------------------------------------------------------------------------
(* The data of a round is taken once, though the answer and the start of   *)
(* the first round both bring it and answers come several times: a second  *)
(* getInitRing would begin a round from stale data.                        *)
InitOnce == inits <= 1 /\ (inits = 1 <=> handler = "messages")

(* A node of a known version enters the network whatever requests and      *)
(* answers are lost; the one packet nobody repeats is the start of the     *)
(* first round.                                                            *)
EntersUnlessStartLost ==
  handler = "registration" ~> (~VersionAccepted \/ handler = "messages" \/ startLost)

(* The node always enters. Fails: when the start of the first round is     *)
(* lost after the answer was received, nobody asks again.                  *)
Enters == handler = "registration" ~> handler = "messages"

(* The thread that asks ends once the node has entered. Fails: when the    *)
(* start of the round overtakes the answer, nobody looks at the answer any *)
(* more and the flag is never cleared.                                     *)
AskerEnds == handler = "messages" ~> asker = "gone"
=============================================================================
