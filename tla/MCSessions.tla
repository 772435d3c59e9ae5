------------------------------ MODULE MCSessions ------------------------------
(***************************************************************************)
(* Sessions without the queue: small instances of SessionCreation and of   *)
(* IntegrationBroker, explored side by side.  `part` says which instance a *)
(* behaviour belongs to and never changes.                                 *)
(***************************************************************************)
EXTENDS IntegrationBroker, SessionCreation, TLC

CONSTANTS s1, s2, p1, p2, r1, c1

VARIABLE part

PoolEach == [s \in Sessions |-> IF s = s1 THEN p1 ELSE p2]
OneRemote == [s \in Sessions |-> r1]
Symmetric == Permutations(Brokers) \cup Permutations(Reconcilers)

SessionsInit ==
  /\ part \in {"creation", "race", "resubmission"}
  /\ Init
  /\ CreationInit
  /\ part # "creation" => mode = [c \in Creations |-> "standalone"]

SessionsNext ==
  \/ part = "creation" /\ CreationNext /\ UNCHANGED <<allVars, part>>
  \/ part # "creation" /\ Next /\ UNCHANGED <<creationVars, part>>

SessionsSpec == SessionsInit /\ [][SessionsNext]_<<allVars, creationVars, part>>

\* Two sessions with a pool each deliver one content each to one main, while
\* another host pushes or a broker dies.
RaceBounds ==
  /\ \A s \in Sessions : round[s] <= 1 /\ Identity(s) \in {c1, NoIdentity}
  /\ nextSha <= 4 + faults.other
  /\ faults.crash + faults.other <= 1 /\ faults.lost = 0 /\ faults.rename = 0

\* One session, two submissions, every fault: the other session is at rest.
ResubmissionBounds ==
  journal[s2] = [state |-> "OPEN", identity |-> NoIdentity] /\ s2 \in leased

Bounds ==
  /\ part = "race" => RaceBounds
  /\ part = "resubmission" => ResubmissionBounds
==============================================================================
