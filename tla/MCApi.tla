------------------------------- MODULE MCApi -------------------------------
(***************************************************************************)
(* Instances for TLC of the parts below the API that do not share state:   *)
(* balances, the smart contract caches and requests, and the statistics.   *)
(* A behaviour is one of the part chosen at its start; the other parts     *)
(* stay in their initial states, where nothing is obliged to happen.       *)
(***************************************************************************)
EXTENDS Balance, SmartCache, Stats, ContractFlow, TLC

VARIABLE part

apiVars == <<vars, smartVars, statsVars, flowVars, part>>

ApiInit ==
  /\ Init /\ SmartInit /\ StatsInit /\ FlowInit
  /\ part \in {"balance", "smart", "stats", "flow"}

ApiNext ==
  \/ part = "balance" /\ Next /\ UNCHANGED <<smartVars, statsVars, flowVars, part>>
  \/ part = "smart" /\ SmartNext /\ UNCHANGED <<vars, statsVars, flowVars, part>>
  \/ part = "stats" /\ StatsNext /\ UNCHANGED <<vars, smartVars, flowVars, part>>
  \/ part = "flow" /\ FlowNext /\ UNCHANGED <<vars, smartVars, statsVars, part>>

ApiSpec ==
  /\ ApiInit /\ [][ApiNext]_apiVars
  /\ \A t \in Threads : WF_vars(Step(t))
  /\ SmartFairness /\ StatsFairness

-----------------------------------------------------------------------------
(* An unrelated block, a payment to the address, and a block in which the  *)
(* address is a source (with a payment to it as well).                     *)
MCEffects == {[role |-> "other", bal |-> 0, recv |-> 0],
              [role |-> "other", bal |-> 0, recv |-> 2],
              [role |-> "source", bal |-> 5, recv |-> 1]}

(* Blocks with deployments, of a contract also twice, with calls, with     *)
(* both in either order, and with a bad transaction among deployments.     *)
S(k, c, s) == [kind |-> k, contract |-> c, source |-> s]
MCSmartBlocks == {<<>>, <<S("deploy", "c1", "d1"), S("other", "c1", "d1")>>, <<S("state", "c1", "d1")>>,
                  <<S("state", "c1", "d1"), S("deploy", "c2", "d1"), S("state", "c2", "d1"), S("state", "c1", "d1")>>,
                  <<S("deploy", "c2", "d1"), S("deploy", "c3", "d1"), S("deploy", "c4", "d2")>>,
                  <<S("deploy", "c3", "d1"), S("bad", "c3", "d1"), S("deploy", "c3", "d1")>>}

(* Times of blocks that are old, now in a period, and ahead of the clock by *)
(* less than a second, a second and more.                                  *)
MCStamps == {-3, 0, 1, 4}
=============================================================================
