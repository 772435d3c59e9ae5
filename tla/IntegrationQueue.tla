-------------------------- MODULE IntegrationQueue ---------------------------
(***************************************************************************)
(* The integration queue of bin/harness_integration_queue.py in front of   *)
(* the broker: a durable ledger of jobs, one coordinator that holds the    *)
(* integration.lock of every enrolled pool and starts workers, and the     *)
(* workers (_queue-execute), which run the broker's steps while the gates  *)
(* are held for them.  Command-line brokers that chose the direct route    *)
(* before a pool was enrolled may still be waiting for its lock.  The      *)
(* coordinator may be killed and leave its workers running; it is started  *)
(* again only when the last of them has let go of coordinator.lock.        *)
(***************************************************************************)
EXTENDS IntegrationBroker, FiniteSets

CONSTANTS Jobs,          \* worker budget of config.json
          Controls,      \* control operations that are used
          MaxJobs,       \* bound: accepted jobs
          MaxOutages,    \* bound: coordinator kills and stop signals
          MaxStartFaults \* bound: jobs whose worker cannot be started

ASSUME QueueAssumption ==
  /\ Jobs \in Nat \ {0}
  /\ Controls \subseteq {"recover", "discard", "gc"}

VARIABLES
  jobs,      \* the ledger: rows in acceptance order
  slot,      \* per worker process: its job (0: none) and its exit status
  coord,     \* coordinator process: down, serving or stopping
  enrolled,  \* pools that carry the queue's marker
  waiting,   \* sessions whose direct command waits for the lane, per broker
  outages    \* how much of each fault bound is spent

queueVars == <<jobs, slot, coord, enrolled, waiting, outages>>
systemVars == <<allVars, queueVars>>

Operations == {"integrate", "recover", "discard", "gc"}
ActiveStates == {"queued", "running", "needs_reconcile"}
JobStates == ActiveStates \cup {"delivered", "failed", "completed"}
PolicyRefused == 17

Rows == DOMAIN jobs
Active(i) == jobs[i].state \in ActiveStates
Owner(i) == jobs[i].owner
IsGc(i) == jobs[i].op = "gc"

\* Integrations queue per repository, the other operations per session or pool.
Destination(i) ==
  IF jobs[i].op = "integrate" THEN <<"remote", RemoteOf[Owner(i)]>>
  ELSE IF IsGc(i) THEN <<"pool", jobs[i].pool>> ELSE <<"session", Owner(i)>>

NewRow(op, owner, pool, identity) ==
  [op |-> op, owner |-> owner, pool |-> pool, identity |-> identity,
   state |-> "queued", attempt |-> 0, rc |-> 0, intent |-> FALSE]

FreeSlot == [job |-> 0, rc |-> 0]
Job(w) == slot[w].job
Used == {w \in Workers : Job(w) # 0}
CoordinatorLockFree == coord = "down" /\ Used = {}

\* broker.lock of a session: held for a claimed job until its worker is gone.
Leased(s) == \E w \in Used : Owner(Job(w)) = s

ActiveFor(s) == \E i \in Rows : Active(i) /\ Owner(i) = s

QueueInit ==
  /\ jobs = <<>>
  /\ slot = [w \in Workers |-> FreeSlot]
  /\ coord = "down"
  /\ enrolled = {}
  /\ waiting = [b \in Brokers |-> None]
  /\ outages = [coord |-> 0, start |-> 0]

-----------------------------------------------------------------------------
(* Commands *)

\* The receipt of an earlier acceptance of this session with this identity.
Receipts(s) ==
  {i \in Rows : /\ Owner(i) = s /\ jobs[i].op = "integrate"
                /\ jobs[i].identity = Identity(s)}

\* Only a policy refusal gives its dedup slot back.
Retriable(i) == jobs[i].state = "failed" /\ jobs[i].rc = PolicyRefused

\* enqueue: a known submission gets its receipt (nothing changes); a new one,
\* or one refused by policy, is snapshotted and accepted.
Enqueue(s) ==
  /\ PoolOf[s] \in enrolled
  /\ State(s) = "SUBMITTED"
  /\ ~Leased(s)
  /\ s \notin renamed
  /\ \A i \in Receipts(s) : Retriable(i)
  /\ Receipts(s) # {} => ~ActiveFor(s)
  /\ Len(jobs) < MaxJobs
  /\ jobs' = Append([i \in Rows |-> IF i \in Receipts(s)
                                      THEN [jobs[i] EXCEPT !.identity = NoIdentity]
                                      ELSE jobs[i]],
                    NewRow("integrate", s, PoolOf[s], Identity(s)))
  /\ UNCHANGED <<allVars, slot, coord, enrolled, waiting, outages>>

\* control recover|discard <s>.
Control(op, s) ==
  /\ op \in Controls \ {"gc"}
  /\ PoolOf[s] \in enrolled
  /\ ~Leased(s)
  /\ ~ActiveFor(s)
  /\ Len(jobs) < MaxJobs
  /\ jobs' = Append(jobs, NewRow(op, s, PoolOf[s], NoIdentity))
  /\ UNCHANGED <<allVars, slot, coord, enrolled, waiting, outages>>

\* control gc of a pool; broker-maintenance.lock must be free.
ControlGc(p) ==
  /\ "gc" \in Controls
  /\ p \in enrolled
  /\ \A w \in Used : ~(IsGc(Job(w)) /\ jobs[Job(w)].pool = p)
  /\ Len(jobs) < MaxJobs
  /\ jobs' = Append(jobs, NewRow("gc", None, p, NoIdentity))
  /\ UNCHANGED <<allVars, slot, coord, enrolled, waiting, outages>>

\* Only an integration that waits to be reconciled is accepted.
Reconcilable(i) == jobs[i].op = "integrate" /\ jobs[i].state = "needs_reconcile"

\* reconcile <job>: allow two more attempts.
ReconcileJob(i) ==
  /\ Reconcilable(i)
  /\ jobs[i].attempt > 0
  /\ ~Leased(Owner(i))
  /\ jobs' = [jobs EXCEPT ![i].attempt = 0]
  /\ UNCHANGED <<allVars, slot, coord, enrolled, waiting, outages>>

\* enable: needs coordinator.lock, and the lane of a pool that is new.
Enable(p) ==
  /\ CoordinatorLockFree
  /\ p \notin enrolled
  /\ lock[p] = Free
  /\ enrolled' = enrolled \cup {p}
  /\ UNCHANGED <<allVars, jobs, slot, coord, waiting, outages>>

\* disable: no accepted job may be open and no direct broker at work.
Disable ==
  /\ CoordinatorLockFree
  /\ enrolled # {}
  /\ \A i \in Rows : ~Active(i)
  /\ \A p \in enrolled : lock[p] = Free
  /\ enrolled' = {}
  /\ UNCHANGED <<allVars, jobs, slot, coord, waiting, outages>>

\* integrate, recover and discard look for the marker, then wait for the lane.
ChooseDirect(b, s) ==
  /\ PoolOf[s] \notin enrolled
  /\ ~Busy(b) /\ waiting[b] = None
  /\ waiting' = [waiting EXCEPT ![b] = s]
  /\ UNCHANGED <<allVars, jobs, slot, coord, enrolled, outages>>

\* The wait ends with the lane, whatever has become of the pool's enrolment,
\* or with a timeout.
Direct(b) ==
  LET s == waiting[b] IN
  /\ s # None
  /\ \/ Integrate(b, s) \/ Recover(b, s) \/ LaneStep(s)
     \/ UNCHANGED allVars
  /\ waiting' = [waiting EXCEPT ![b] = None]
  /\ UNCHANGED <<jobs, slot, coord, enrolled, outages>>

-----------------------------------------------------------------------------
(* Coordinator *)

\* serve takes coordinator.lock, which the workers of a killed coordinator keep.
Serve ==
  /\ CoordinatorLockFree
  /\ enrolled # {}
  /\ coord' = "serving"
  /\ UNCHANGED <<allVars, jobs, slot, enrolled, waiting, outages>>

TakeGate(p) ==
  /\ coord # "down"
  /\ p \in enrolled
  /\ lock[p] = Free
  /\ lock' = [lock EXCEPT ![p] = Gate]
  /\ UNCHANGED <<recordVars, remoteVars, br, faults, queueVars>>

AllGates == \A p \in enrolled : lock[p] = Gate

\* A gc row is a barrier to the later rows of its pool.
Barred(i) ==
  ~IsGc(i) /\ \E j \in Rows : j < i /\ Active(j) /\ IsGc(j) /\ jobs[j].pool = jobs[i].pool

Running(i) == \E w \in Used : Job(w) = i

\* Mutant of DestinationBusy: only a running job keeps a destination busy.
OnlyRunningBusy(i) == \E j \in Rows : Destination(j) = Destination(i) /\ Running(j)

\* A destination is busy for row i while one of its jobs runs, or an earlier
\* active row that no barrier holds back has been considered for it.
DestinationBusy(i) ==
  \E j \in Rows :
    /\ Destination(j) = Destination(i)
    /\ Running(j) \/ (j < i /\ Active(j) /\ ~Barred(j))

Considers(i) ==
  /\ coord = "serving" /\ AllGates
  /\ Active(i) /\ ~Running(i) /\ ~Barred(i)
  /\ Cardinality(Used) < Jobs
  /\ ~DestinationBusy(i)

\* Mutant of LeasesFree: the leases are not probed.
LeasesIgnored(i) == TRUE

\* queue-operations.lock of the pool, exclusive for gc, and the broker.lock.
LeasesFree(i) ==
  \A w \in Used :
    /\ jobs[Job(w)].pool = jobs[i].pool => ~IsGc(i) /\ ~IsGc(Job(w))
    /\ Owner(Job(w)) = Owner(i) => IsGc(i)

\* Mutant of AttemptsLeft: one attempt too many.
OneMoreAttempt(i) == jobs[i].attempt <= 2

\* Two attempts are automatic.
AttemptsLeft(i) == jobs[i].attempt < 2

\* A job that used them waits for the operator, and blocks its destination.
Exhaust(i) ==
  /\ Considers(i)
  /\ ~AttemptsLeft(i) /\ jobs[i].state # "needs_reconcile"
  /\ jobs' = [jobs EXCEPT ![i].state = "needs_reconcile"]
  /\ UNCHANGED <<allVars, slot, coord, enrolled, waiting, outages>>

\* Mutant of InputsBound: only the snapshot is verified, not the journal.
InputsUnbound(i) == TRUE

\* verify_inputs: the journal still names what was accepted.
InputsBound(i) == jobs[i].op = "integrate" => Identity(Owner(i)) = jobs[i].identity

Claim(i, w) ==
  /\ Considers(i) /\ LeasesFree(i)
  /\ AttemptsLeft(i)
  /\ InputsBound(i)
  /\ Job(w) = 0
  /\ jobs' = [jobs EXCEPT ![i].state = "running", ![i].attempt = @ + 1]
  /\ slot' = [slot EXCEPT ![w] = [job |-> i, rc |-> 0]]
  /\ br' = [br EXCEPT ![w] = Fresh("start", Owner(i))]
  /\ UNCHANGED <<recordVars, remoteVars, lock, faults, coord, enrolled, waiting, outages>>

\* The worker cannot be started: its inputs are no longer the session's, or the
\* runtime cannot be had, or, once the attempt is counted, the log or the
\* process.
FailStart(i) ==
  /\ Considers(i) /\ LeasesFree(i)
  /\ AttemptsLeft(i)
  /\ \E counted \in 0..1 :
       /\ counted = 1 => InputsBound(i)
       /\ jobs' = [jobs EXCEPT ![i].state = "failed", ![i].rc = 2, ![i].attempt = @ + counted]
  /\ \/ ~InputsBound(i) /\ UNCHANGED outages
     \/ /\ outages.start < MaxStartFaults
        /\ outages' = [outages EXCEPT !.start = @ + 1]
  /\ UNCHANGED <<allVars, slot, coord, enrolled, waiting>>

\* Mutant of Outcome: a recorded candidate is taken for a delivery.
OutcomeByPending(i, rc) ==
  IF jobs[i].op # "integrate" THEN IF rc = 0 THEN "completed" ELSE "failed"
  ELSE IF files[Owner(i)].pending # 0 THEN "delivered" ELSE "failed"

\* Mutant of Outcome: the exit status alone decides.
OutcomeByStatus(i, rc) ==
  IF rc # 0 THEN "failed"
  ELSE IF jobs[i].op = "integrate" THEN "delivered" ELSE "completed"

\* The answer of a finished integration is read from the journal.
Outcome(i, rc) ==
  IF jobs[i].op # "integrate" THEN IF rc = 0 THEN "completed" ELSE "failed"
  ELSE IF State(Owner(i)) = "DELIVERED" THEN "delivered"
  ELSE IF State(Owner(i)) = "INTEGRATING" THEN "needs_reconcile" ELSE "failed"

\* Mutant of Reaps: a stopping coordinator no longer looks after its workers.
ReapsUntilStopped == coord = "serving"

Reaps == coord # "down"

\* Mutant of Vacated: a finished job keeps its budget slot.
SlotLeaked(w) == slot[w]

Vacated(w) == FreeSlot

\* finish, once the worker, its group and its guardian are gone.
Finish(w) ==
  /\ Reaps
  /\ Job(w) # 0 /\ ~Busy(w)
  /\ jobs' = [jobs EXCEPT ![Job(w)].state = Outcome(Job(w), slot[w].rc),
                          ![Job(w)].rc = slot[w].rc]
  /\ slot' = [slot EXCEPT ![w] = Vacated(w)]
  /\ UNCHANGED <<allVars, coord, enrolled, waiting, outages>>

DropGates == [p \in Pools |-> IF lock[p] = Gate THEN Free ELSE lock[p]]

\* Mutant of GatesLeft: workers do not inherit the gates.
GatesNotInherited(gone) == DropGates

\* The locks when nobody but the workers outside `gone` holds gates.
GatesLeft(gone) == IF Used \subseteq gone THEN DropGates ELSE lock

\* SIGTERM: no further claims; the coordinator ends when its workers have.
StopSignal ==
  /\ coord = "serving"
  /\ outages.coord < MaxOutages
  /\ outages' = [outages EXCEPT !.coord = @ + 1]
  /\ coord' = "stopping"
  /\ UNCHANGED <<allVars, jobs, slot, enrolled, waiting>>

Shutdown ==
  /\ coord = "stopping" /\ Used = {}
  /\ coord' = "down"
  /\ lock' = DropGates
  /\ UNCHANGED <<recordVars, remoteVars, br, faults, jobs, slot, enrolled, waiting, outages>>

\* SIGKILL: its workers keep every lease they inherited.
Kill ==
  /\ coord # "down"
  /\ outages.coord < MaxOutages
  /\ outages' = [outages EXCEPT !.coord = @ + 1]
  /\ coord' = "down"
  /\ lock' = GatesLeft({})
  /\ UNCHANGED <<recordVars, remoteVars, br, faults, jobs, slot, enrolled, waiting>>

\* The guardian of an orphan sees its group gone and lets the leases go.
OrphanGone(w) ==
  /\ coord = "down"
  /\ Job(w) # 0 /\ ~Busy(w)
  /\ slot' = [slot EXCEPT ![w] = FreeSlot]
  /\ lock' = GatesLeft({w})
  /\ UNCHANGED <<recordVars, remoteVars, br, faults, jobs, coord, enrolled, waiting, outages>>

-----------------------------------------------------------------------------
(* Workers *)

Exits(w, rc) ==
  /\ Ends(w)
  /\ slot' = [slot EXCEPT ![w].rc = rc]

\* A publishing intent without its evidence must not be retried.
EvidenceMissing(i) ==
  jobs[i].intent /\ (files[Owner(i)].pending = 0 \/ files[Owner(i)].manifest = 0)

\* authorize, recovery-check and the state of the journal let the worker go on.
Executable(i) ==
  /\ InputsBound(i)
  /\ State(Owner(i)) \in {"SUBMITTED", "INTEGRATING", "DELIVERED"}
  /\ State(Owner(i)) = "INTEGRATING" => ~EvidenceMissing(i)

\* _queue-execute integrate: authorize, then by the state of the journal.
StartIntegrate(w) ==
  LET i == Job(w)
      s == Owner(i) IN
  /\ jobs[i].op = "integrate"
  /\ \/ /\ Executable(i) /\ State(s) = "SUBMITTED"
        /\ Enter(w, s)
        /\ UNCHANGED <<files, lock, slot>>
     \/ /\ Executable(i) /\ State(s) = "INTEGRATING"
        /\ Reconcile(w, s, br[w])
        /\ UNCHANGED lock
        /\ slot' = [slot EXCEPT ![w].rc = IF br'[w] = Idle THEN 4 ELSE 0]
     \/ /\ Executable(i) /\ State(s) = "DELIVERED"
        /\ Exits(w, 0)
        /\ UNCHANGED <<journal, files>>
     \/ /\ ~Executable(i)
        /\ Exits(w, 2)
        /\ UNCHANGED <<journal, files>>
  /\ UNCHANGED leased

\* _queue-execute recover, discard and gc.  gc retires work trees of finished
\* sessions and writes no journal.
StartControl(w) ==
  LET i == Job(w)
      s == Owner(i) IN
  \/ /\ jobs[i].op = "recover" /\ State(s) = "INTEGRATING"
     /\ Reconcile(w, s, Idle)
     /\ slot' = [slot EXCEPT ![w].rc = IF RecoveryVerdict(s) = "CONFLICT" THEN 4 ELSE 0]
     /\ UNCHANGED <<leased, lock>>
  \/ /\ jobs[i].op = "recover" /\ RecoverReopen(s)
     /\ Exits(w, 0)
  \/ /\ jobs[i].op = "discard" /\ Discard(s)
     /\ Exits(w, 0)
  \/ /\ \/ jobs[i].op = "recover" /\ State(s) \notin {"INTEGRATING", "ABANDONED", "CONFLICT"}
        \/ jobs[i].op = "discard" /\ ~(State(s) \in {"ABANDONED", "CONFLICT"} /\ s \notin leased)
     /\ Exits(w, 2)
     /\ UNCHANGED <<journal, files, leased>>
  \/ /\ IsGc(i)
     /\ Exits(w, 0)
     /\ UNCHANGED <<journal, files, leased>>

Start(w) ==
  /\ At(w, "start")
  /\ StartIntegrate(w) \/ StartControl(w)
  /\ UNCHANGED <<renamed, round, remoteVars, faults, jobs, coord, enrolled, waiting, outages>>

\* The broker's own steps, and what the ledger learns of them: the publishing
\* intent, and the exit status (17 for a verifier that policy refuses).
Work(w) ==
  /\ BrokerStep(w)
  /\ jobs' = [jobs EXCEPT ![Job(w)].intent = @ \/ br'[w].pc = "push"]
  /\ slot' = [slot EXCEPT ![w].rc =
       IF br'[w] # Idle \/ journal'[Subject(w)].state = "DELIVERED" THEN 0
       ELSE IF journal'[Subject(w)].state = "SUBMITTED" THEN PolicyRefused ELSE 3]
  /\ UNCHANGED <<coord, enrolled, waiting, outages>>

\* The worker is killed, or ends on an error, with the journal as it is.
Dies(w) ==
  /\ Stop(w)
  /\ slot' = [slot EXCEPT ![w].rc = 2]
  /\ UNCHANGED <<jobs, coord, enrolled, waiting, outages>>

-----------------------------------------------------------------------------
QInit == Init /\ QueueInit

Command ==
  \/ \E s \in Sessions : Enqueue(s) \/ \E op \in {"recover", "discard"} : Control(op, s)
  \/ \E p \in Pools : ControlGc(p) \/ Enable(p)
  \/ \E i \in Rows : ReconcileJob(i)
  \/ Disable

Coordinate ==
  \/ Serve
  \/ \E p \in Pools : TakeGate(p)
  \/ \E i \in Rows : Exhaust(i) \/ FailStart(i) \/ \E w \in Workers : Claim(i, w)
  \/ \E w \in Workers : Finish(w) \/ OrphanGone(w)
  \/ Shutdown

Outage ==
  \/ StopSignal \/ Kill
  \/ \E w \in Workers : Dies(w)
  \/ (\E b \in Brokers : Stop(b)) /\ UNCHANGED queueVars

QNext ==
  \/ OwnerStep /\ UNCHANGED <<brokerVars, queueVars>>
  \/ Environment /\ UNCHANGED queueVars
  \/ Command
  \/ \E b \in Brokers : (\E s \in Sessions : ChooseDirect(b, s)) \/ Direct(b)
  \/ \E b \in Brokers : BrokerStep(b) /\ UNCHANGED queueVars
  \/ Coordinate
  \/ \E w \in Workers : Start(w) \/ Work(w)
  \/ Outage

QSpec == QInit /\ [][QNext]_systemVars

\* launchd keeps the coordinator running; it polls its ledger, gates and
\* children; processes run, and a wait for a lock ends.
Fairness ==
  /\ WF_systemVars(Serve) /\ WF_systemVars(Shutdown)
  /\ \A p \in Pools : WF_systemVars(TakeGate(p))
  /\ WF_systemVars(\E i \in Rows : Exhaust(i) \/ FailStart(i) \/ \E w \in Workers : Claim(i, w))
  /\ \A w \in Workers :
       WF_systemVars(Finish(w) \/ OrphanGone(w)) /\ WF_systemVars(Start(w) \/ Work(w))
  /\ \A b \in Brokers :
       WF_systemVars(Direct(b)) /\ WF_systemVars(BrokerStep(b) /\ UNCHANGED queueVars)

QFairSpec == QSpec /\ Fairness

QueueTypeOK ==
  /\ BrokerTypeOK
  /\ jobs \in Seq([op: Operations, owner: Sessions \cup {None}, pool: Pools,
                   identity: Contents \cup {NoIdentity}, state: JobStates,
                   attempt: 0..2, rc: Nat, intent: BOOLEAN])
  /\ slot \in [Workers -> [job: Nat, rc: Nat]]
  /\ coord \in {"down", "serving", "stopping"}
  /\ enrolled \subseteq Pools
  /\ waiting \in [Brokers -> Sessions \cup {None}]
  /\ outages \in [coord: Nat, start: Nat]

-----------------------------------------------------------------------------
(* Properties *)

\* "The coordinator acquires every enrolled pool's original integration.lock
\* before claiming any work" and its workers keep them: no direct broker works
\* in an enrolled pool beside a worker, the coordinator alive or killed.
DirectExcluded ==
  \A w \in Workers, b \in Brokers :
    Busy(w) /\ Busy(b) => PoolOf[Subject(b)] \notin enrolled

\* No two processes, direct or queued, ever work on one session.
SessionExclusive ==
  \A a, b \in Processes :
    Busy(a) /\ Busy(b) /\ a # b => Subject(a) # Subject(b) \/ Subject(a) = None

\* gc never retires a work tree of a pool in which another job executes.
GcAlone ==
  \A v, w \in Used :
    v # w /\ IsGc(Job(v)) => jobs[Job(w)].pool # jobs[Job(v)].pool

\* A worker integrates what its job accepted: while it works, the journal names
\* the identity of the job's snapshot, whatever its owner did since.
AcceptedInputs ==
  \A w \in Used :
    Busy(w) /\ ~At(w, "start") /\ jobs[Job(w)].op = "integrate"
    => Identity(Subject(w)) = jobs[Job(w)].identity

\* A delivered job has its content on main, and its session is DELIVERED.
DeliveredHonest ==
  \A i \in Rows : jobs[i].state = "delivered" =>
    State(Owner(i)) = "DELIVERED" /\ Landed(Owner(i), jobs[i].identity)

\* A job is answered failed only when the outcome is known and negative: the
\* session is not in the middle of this integration, its content not on main.
FailureHonest ==
  [][\A i \in Rows :
       /\ jobs[i].op = "integrate"
       /\ jobs[i].state # "failed" /\ jobs'[i].state = "failed"
       => /\ <<State(Owner(i)), Identity(Owner(i))>> # <<"INTEGRATING", jobs[i].identity>>
          /\ ~Landed(Owner(i), jobs[i].identity)]_systemVars

Shas(history) == {history[i].sha : i \in DOMAIN history}

\* Deliveries land in the order of their acceptance, over all pools, budget
\* slots, coordinators and new attempts: when a worker's commit reaches main,
\* an earlier job for this main that is still open was never started, for it
\* was accepted behind a gc of its own pool, which is not the worker's.
LandsInOrder ==
  [][\A w \in Workers :
       /\ At(w, "push")
       /\ br[w].sha \in Shas(main'[Remote(w)]) \ Shas(main[Remote(w)])
       =>
         \A i \in Rows :
           i < Job(w) /\ Active(i) /\ Destination(i) = Destination(Job(w)) =>
             /\ jobs[i].state = "queued"
             /\ jobs[i].pool # jobs[Job(w)].pool
             /\ \E g \in Rows : g < i /\ IsGc(g) /\ jobs[g].pool = jobs[i].pool]_systemVars

\* "FIFO applies to start order per destination, across all enrolled pools."
FifoStart ==
  [][\A i \in Rows :
       jobs[i].state = "queued" /\ jobs'[i].state = "running" =>
         \A j \in Rows : j < i /\ jobs[j].state = "queued"
                           => Destination(j) # Destination(i)]_systemVars

\* "cannot resume SUBMITTED session; run harness-session integrate or recover":
\* a submission that no accepted job works on can be accepted by the queue.
SubmissionAcceptable ==
  \A s \in Sessions :
    /\ PoolOf[s] \in enrolled /\ State(s) = "SUBMITTED" /\ ~ActiveFor(s)
    => \A i \in Receipts(s) : Retriable(i)

\* A row that used up its automatic attempts and waits for `queue reconcile`.
Exhausted(i) == jobs[i].state = "needs_reconcile" /\ jobs[i].attempt >= 2

\* Row j is in the way of row i: as itself, in its destination, or as a barrier.
InTheWay(j, i) ==
  \/ j <= i /\ Destination(j) = Destination(i)
  \/ j < i /\ IsGc(j) /\ jobs[j].pool = jobs[i].pool

\* An operator can settle row i with `queue reconcile` of the one in its way.
AwaitsReconcile(i) == \E j \in Rows : InTheWay(j, i) /\ Exhausted(j) /\ Reconcilable(j)

\* The row in the way is an exhausted control operation, which `queue
\* reconcile` refuses: row i waits for ever.
Stuck(i) == \E j \in Rows : InTheWay(j, i) /\ Exhausted(j) /\ ~Reconcilable(j)

Open(i) == i \in Rows /\ Active(i) /\ ~AwaitsReconcile(i) /\ ~Stuck(i)

\* Every accepted job is answered, or waits for an operator on purpose, or is
\* behind a control operation that was interrupted twice (NoStuckControl), though
\* coordinators and workers are killed on the way.
EveryJobSettles == \A i \in 1..MaxJobs : Open(i) ~> ~Open(i)

\* "unresolved jobs stay `needs_reconcile`. Inspect status/logs, then use `queue
\* reconcile <job-uuid>`": what is left to the operator is accepted from him.
NoStuckControl == \A i \in Rows : ~Stuck(i)
==============================================================================
