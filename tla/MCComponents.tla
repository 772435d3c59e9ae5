---------------------------- MODULE MCComponents ----------------------------
(***************************************************************************)
(* The small instances of Components: the commands each process may run.   *)
(***************************************************************************)
EXTENDS Components

CONSTANTS c1, d1, g1, i1, i2, k3

Sources == d1 :> c1
LifecycleCommands == k1 :> {"action"} @@ k2 :> {"action", "status"} @@ k3 :> {"status", "cancel"}
RequestCommands ==
  k1 :> {<<"request", i1>>} @@ k2 :> {<<"request", i2>>, <<"status", i1>>, <<"cancel", i1>>}
    @@ k3 :> {<<"cancel", i1>>}
ForkCalls == {<<"a", 1>>, <<"a", 2>>, <<"b", 1>>}
=============================================================================
