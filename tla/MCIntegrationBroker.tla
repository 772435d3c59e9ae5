------------------------- MODULE MCIntegrationBroker -------------------------
(***************************************************************************)
(* Small instances of IntegrationBroker.  Every session delivers to one    *)
(* remote; OnePool puts all of them in one pool, so that brokers compete   *)
(* for its lane, and PoolEach gives each its own, so that two brokers race *)
(* for the remote.                                                         *)
(***************************************************************************)
EXTENDS IntegrationBroker, TLC

CONSTANTS s1, s2, p1, p2, r1

OnePool == [s \in Sessions |-> p1]
PoolEach == [s \in Sessions |-> IF s = s1 THEN p1 ELSE p2]
OneRemote == [s \in Sessions |-> r1]
Symmetric == Permutations(Brokers)
==============================================================================
