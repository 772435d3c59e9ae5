-------------------------- MODULE MCIntegrationQueue -------------------------
(***************************************************************************)
(* Small instances of IntegrationQueue: one remote, with the sessions in   *)
(* one pool (OnePool) or in a pool each (PoolEach).  A run explores two    *)
(* instances side by side: each is the part of the common state space that *)
(* one disjunct of the run's constraint leaves open.                       *)
(***************************************************************************)
EXTENDS IntegrationQueue, TLC

CONSTANTS s1, s2, p1, p2, r1

OnePool == [s \in Sessions |-> p1]
PoolEach == [s \in Sessions |-> IF s = s1 THEN p1 ELSE p2]
OneRemote == [s \in Sessions |-> r1]
Symmetric == Permutations(Brokers) \cup Permutations(Workers)

Kinds == {jobs[i].op : i \in Rows}
Spent(shas, crashes) == nextSha <= shas + 1 /\ faults.crash <= crashes

\* Run Queue, first part.  One session and one worker, two submissions, recover
\* and discard, a coordinator and two workers that die; the other is at rest.
Crashes ==
  /\ journal[s2].state = "OPEN" /\ Identity(s2) = NoIdentity
  /\ s2 \in leased /\ p2 \notin enrolled
  /\ Cardinality(Used) <= 1 /\ Len(jobs) <= 2 /\ "gc" \notin Kinds
  /\ Spent(3, 2) /\ faults.crash + outages.coord <= 2

\* Second part.  Two pools, a worker for each, one content and gc in the way.
Lanes ==
  /\ \A s \in Sessions : round[s] <= 1 /\ Identity(s) \in {CHOOSE c \in Contents : TRUE, NoIdentity}
  /\ Kinds \subseteq {"integrate", "gc"}
  /\ outages.coord = 0
  /\ Spent(2, 0)

CrashesOrLanes == Crashes \/ Lanes

\* Run QueueTakeover, first part.  A direct broker that has waited since before
\* the enrolment, beside one worker and no control operation.
DirectBeside ==
  /\ Kinds \subseteq {"integrate"}
  /\ outages.coord <= 1 /\ faults.crash + faults.other <= 1

\* Second part.  The queue alone, with control operations, a coordinator that
\* dies twice and a worker that dies once.  (What the constraint cuts off carries
\* no fairness, but for a start that fails where a claim is possible as well.)
QueueAlone ==
  /\ \A b \in Brokers : ~Busy(b) /\ waiting[b] = None
  /\ faults.other = 0 /\ outages.start = 0

DirectOrAlone == DirectBeside \/ QueueAlone
==============================================================================
