---------------------------- MODULE MCTransport ----------------------------
(***************************************************************************)
(* Instances for TLC of the parts of the transport that do not share       *)
(* state: registration, the resend list, the packet pool, the splitting of *)
(* messages, the spreading of a round, and receiving with room for all. A  *)
(* behaviour is one of the part chosen at its start; the other parts stay  *)
(* in their initial states.                                                *)
(***************************************************************************)
EXTENDS TaskManager, PacketPool, PackStream, Flood, Registration, TLC

CONSTANTS
  Messages, Redirects, countHeader, Senders, RingCapacity, BackCapacity,
  PartCapacity, MAX_REDIRECT, MaxCounter

VARIABLES
  part,
  nodes, endpoints, back, backQueue, collected, partQueue, handled, forwarded

R == INSTANCE Receive WITH parts <- collected

receiveVars == <<nodes, endpoints, back, backQueue, collected, partQueue, handled, forwarded>>

transportVars == <<vars, packetVars, packVars, floodVars, receiveVars, registrationVars, part>>

TransportInit ==
  /\ Init /\ PacketInit /\ PackInit /\ FloodInit /\ R!Init /\ RegistrationInit
  /\ part \in {"tasks", "pool", "stream", "flood", "receive", "registration"}

TransportNext ==
  \/ part = "tasks" /\ Next /\ UNCHANGED <<packetVars, packVars, floodVars, receiveVars, registrationVars, part>>
  \/ part = "pool" /\ PacketNext /\ UNCHANGED <<vars, packVars, floodVars, receiveVars, registrationVars, part>>
  \/ part = "stream" /\ PackNext /\ UNCHANGED <<vars, packetVars, floodVars, receiveVars, registrationVars, part>>
  \/ part = "flood" /\ FloodNext /\ UNCHANGED <<vars, packetVars, packVars, receiveVars, registrationVars, part>>
  \/ part = "receive" /\ R!Next /\ UNCHANGED <<vars, packetVars, packVars, floodVars, registrationVars, part>>
  \/ part = "registration" /\ RegistrationNext /\ UNCHANGED <<vars, packetVars, packVars, floodVars, receiveVars, part>>

(* Nothing is obliged to happen in the initial states of the other parts.  *)
TransportSpec ==
  /\ TransportInit /\ [][TransportNext]_transportVars
  /\ WF_vars(Run)
  /\ FloodFairness /\ RegistrationFairness
  /\ \A m \in Messages : \A h \in R!Headers(m) :
       WF_receiveVars(part = "receive" /\ \E ep \in Senders : R!HandleReceive(m, h, ep))

-----------------------------------------------------------------------------
CONSTANTS n1, n2, n3, n4, r2, d1, d2

(* n3 is known to the writer n1 only, n4 to n2 only. *)
MCRing == (n1 :> {n2, n3}) @@ (n2 :> {n1, n4}) @@ (n3 :> {n1}) @@ (n4 :> {n2})

(* d1: one packet; r2, d2: two packets. *)
MCCount == (r2 :> 2) @@ (d1 :> 0) @@ (d2 :> 2)

(* With room for all of them every message is handled in the end, in       *)
(* whatever order its parts and copies come: HandleReceive of SessionIO.   *)
EveryMessageHandled == part = "receive" => R!EveryMessageHandled
=============================================================================
