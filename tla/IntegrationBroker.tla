-------------------------- MODULE IntegrationBroker --------------------------
(***************************************************************************)
(* Delivery of submitted sessions to refs/heads/main of their remote by    *)
(* integrate_unlocked and recover_unlocked of bin/session-isolation.sh,    *)
(* run by broker processes under the pool's integration.lock.  A broker    *)
(* may die, or stop on a git error, between any two of its durable         *)
(* effects; other hosts push to the same remote; the answer to a push may  *)
(* be lost; the canonical checkout may spell its origin anew.              *)
(*                                                                         *)
(* Between two durable effects only the remote and the session commands    *)
(* can move, so clone, apply and the checks on the private candidate are   *)
(* one action.                                                             *)
(***************************************************************************)
EXTENDS SessionRecord, Sequences

CONSTANTS Pools,       \* state roots, each with its integration.lock
          PoolOf,      \* [Sessions -> Pools]
          Remotes,     \* repositories whose main is the destination
          RemoteOf,    \* [Sessions -> Remotes]
          Brokers,     \* command-line broker processes
          Workers,     \* broker processes started by the queue coordinator
          Free,        \* an integration.lock nobody holds
          Gate,        \* an integration.lock held as the queue's gate
          Other,       \* author of commits made elsewhere
          None,        \* no session
          MaxCrashes,  \* bound: brokers that die or stop on a git error
          MaxShas,     \* bound: commits the brokers make
          MaxOthers,   \* bound: commits pushed from elsewhere
          MaxLost,     \* bound: accepted pushes whose answer is lost
          MaxRenames   \* bound: times an origin is spelled anew

Processes == Brokers \cup Workers

ASSUME BrokerAssumption ==
  /\ PoolOf \in [Sessions -> Pools]
  /\ RemoteOf \in [Sessions -> Remotes]
  /\ Other \notin Sessions /\ None \notin Sessions
  /\ Brokers \cap Workers = {}
  /\ Free \notin Processes /\ Gate \notin Processes /\ Free # Gate

VARIABLES
  main,      \* history of main of each remote, oldest commit first
  nextSha,   \* commits get fresh names
  lock,      \* holder of each pool's integration.lock
  br,        \* program counter and locals of each broker process
  faults     \* how much of each fault bound is spent

remoteVars == <<main, nextSha>>
brokerVars == <<main, nextSha, lock, br, faults>>
allVars == <<recordVars, brokerVars>>

Commits == [sha: Nat, session: Sessions \cup {Other},
            content: Contents \cup {NoIdentity}, round: Nat]
Steps == {"idle", "start", "origin", "prepare", "verify", "commit", "pending", "fetch",
          "phase", "push", "ack", "readback", "deliver"}
Locals == [pc: Steps, session: Sessions \cup {None}, try: 1..2, base: Nat, sha: Nat]
Fresh(pc, s) == [pc |-> pc, session |-> s, try |-> 1, base |-> 0, sha |-> 0]
Idle == Fresh("idle", None)

Busy(b) == br[b].pc # "idle"
At(b, pc) == br[b].pc = pc
Subject(b) == br[b].session
Remote(b) == RemoteOf[Subject(b)]

\* main holds the contribution of content c of session s.
Landed(s, c) ==
  \E i \in DOMAIN main[RemoteOf[s]] :
    main[RemoteOf[s]][i].session = s /\ main[RemoteOf[s]][i].content = c
\* Commit sha is an ancestor of main of the session's remote.
Ancestor(s, sha) ==
  \E i \in DOMAIN main[RemoteOf[s]] : main[RemoteOf[s]][i].sha = sha

BrokerInit ==
  /\ main = [r \in Remotes |-> <<>>]
  /\ nextSha = 1
  /\ lock = [p \in Pools |-> Free]
  /\ br = [b \in Processes |-> Idle]
  /\ faults = [crash |-> 0, other |-> 0, lost |-> 0, rename |-> 0]

Goes(b, pc) ==
  /\ br' = [br EXCEPT ![b].pc = pc]
  /\ UNCHANGED lock

\* The process ends; the kernel releases the lock it took (a worker took none:
\* its gate belongs to the coordinator).
Ends(b) ==
  /\ br' = [br EXCEPT ![b] = Idle]
  /\ lock' = [p \in Pools |-> IF lock[p] = b THEN Free ELSE lock[p]]

\* Mutant of Concludes: the identity argument is forgotten.
ConcludesBlank(b, state) == Transition(Subject(b), state, NoIdentity) /\ Ends(b)

\* transition <s> <state> with the identity of the journal, then return.
Concludes(b, state) ==
  /\ Transition(Subject(b), state, Identity(Subject(b)))
  /\ Ends(b)

\* Mutant of LaneOpen: the lock is not taken.
LaneIgnored(s) == TRUE

\* with_lock: a command-line broker enters the lane of the session's pool.
LaneOpen(s) == lock[PoolOf[s]] = Free

TakesLane(b, s) ==
  /\ b \in Brokers
  /\ ~Busy(b)
  /\ LaneOpen(s)

\* First transition of integrate_unlocked.  SUBMITTED becomes INTEGRATING; for
\* a session already INTEGRATING under its identity the transition is a no-op
\* and integration starts over.
Enter(b, s) ==
  /\ State(s) \in {"SUBMITTED", "INTEGRATING"}
  /\ Transition(s, "INTEGRATING", Identity(s))
  /\ br' = [br EXCEPT ![b] = Fresh(IF s \in renamed THEN "origin" ELSE "prepare", s)]

\* integrate / close in a pool without the queue.
Integrate(b, s) ==
  /\ TakesLane(b, s)
  /\ Enter(b, s)
  /\ lock' = [lock EXCEPT ![PoolOf[s]] = b]
  /\ UNCHANGED <<files, leased, renamed, round, remoteVars, faults>>

\* The origin is no longer the submitted remote: refuse.
OriginConflict(b) ==
  /\ At(b, "origin")
  /\ Concludes(b, "CONFLICT")
  /\ UNCHANGED <<files, leased, renamed, round, remoteVars, faults>>

\* Mutant of PathsetDiffers: the two pathsets are not compared.
PathsetUnchecked(b) == FALSE

\* A candidate whose pathset differs from the manifest is refused; the
\* contribution that main already holds applies as an empty change.
PathsetDiffers(b) == Landed(Subject(b), Identity(Subject(b)))

\* Clone the current main and apply the submission three-way on it.  A failed
\* apply is the one refusal that drops the identity.
Prepare(b) ==
  /\ At(b, "prepare")
  /\ \/ /\ ~PathsetDiffers(b)
        /\ br' = [br EXCEPT ![b] = [@ EXCEPT !.pc = "verify", !.base = Len(main[Remote(b)])]]
        /\ UNCHANGED <<journal, lock>>
     \/ /\ Transition(Subject(b), "CONFLICT", NoIdentity)
        /\ Ends(b)
     \/ Concludes(b, "CONFLICT")
  /\ UNCHANGED <<files, leased, renamed, round, remoteVars, faults>>

\* The repository-owned verifier passes, rejects the candidate, or cannot be
\* run under policy (exit 17).
Verify(b) ==
  /\ At(b, "verify")
  /\ \/ Goes(b, "commit") /\ UNCHANGED journal
     \/ Concludes(b, "CONFLICT")
     \/ Concludes(b, "SUBMITTED")
  /\ UNCHANGED <<files, leased, renamed, round, remoteVars, faults>>

\* Commit the candidate and write its manifest, the first half of the
\* write-ahead evidence (CONFLICT when it cannot be written) ...
Commit(b) ==
  /\ At(b, "commit")
  /\ \/ /\ nextSha <= MaxShas + faults.other
        /\ br' = [br EXCEPT ![b] = [@ EXCEPT !.pc = "pending", !.sha = nextSha]]
        /\ nextSha' = nextSha + 1
        /\ files' = [files EXCEPT ![Subject(b)].manifest = nextSha]
        /\ UNCHANGED <<journal, lock>>
     \/ Concludes(b, "CONFLICT") /\ UNCHANGED <<files, nextSha>>
  /\ UNCHANGED <<leased, renamed, round, main, faults>>

\* ... and pending-sha, the second; both are flushed before anything else.
WritePending(b) ==
  /\ At(b, "pending")
  /\ files' = [files EXCEPT ![Subject(b)].pending = br[b].sha]
  /\ Goes(b, "fetch")
  /\ UNCHANGED <<journal, leased, renamed, round, remoteVars, faults>>

\* Mutant of Retries: the attempts are not bounded.
RetriesAgain(b) ==
  /\ br' = [br EXCEPT ![b] = [Fresh("prepare", Subject(b)) EXCEPT !.try = br[b].try + 1]]
  /\ UNCHANGED <<journal, lock>>

\* The second attempt is the last one.
Retries(b) ==
  \/ /\ br[b].try = 1
     /\ br' = [br EXCEPT ![b] = [Fresh("prepare", Subject(b)) EXCEPT !.try = 2]]
     /\ UNCHANGED <<journal, lock>>
  \/ br[b].try = 2 /\ Concludes(b, "CONFLICT")

\* main still names the commit the candidate was built on.
Unmoved(b) == Len(main[Remote(b)]) = br[b].base

Fetch(b) ==
  /\ At(b, "fetch")
  /\ \/ Unmoved(b) /\ Goes(b, "phase") /\ UNCHANGED journal
     \/ ~Unmoved(b) /\ Retries(b)
  /\ UNCHANGED <<files, leased, renamed, round, remoteVars, faults>>

\* integration_phase publishing, then the last check of the candidate's
\* identity, parent, tree and index.
EnterPublishing(b) ==
  /\ At(b, "phase")
  /\ \/ Goes(b, "push") /\ UNCHANGED journal
     \/ Concludes(b, "CONFLICT")
  /\ UNCHANGED <<files, leased, renamed, round, remoteVars, faults>>

\* Mutant of FastForward: the push is forced.
ForcedPush(b) == TRUE

\* The remote accepts only a fast-forward.
FastForward(b) == Len(main[Remote(b)]) = br[b].base

Contribution(b) == [sha |-> br[b].sha, session |-> Subject(b),
                    content |-> Identity(Subject(b)), round |-> round[Subject(b)]]

\* main becomes the candidate on top of the history it was built on.
Accepts(b) ==
  /\ FastForward(b)
  /\ main' = [main EXCEPT ![Remote(b)] =
       Append(SubSeq(@, 1, br[b].base), Contribution(b))]

\* push: accepted; refused or never sent; or accepted with the answer lost, so
\* that git push fails although main has moved.
Push(b) ==
  /\ At(b, "push")
  /\ \/ Accepts(b) /\ Goes(b, "ack") /\ UNCHANGED <<journal, faults>>
     \/ Retries(b) /\ UNCHANGED <<main, faults>>
     \/ /\ faults.lost < MaxLost
        /\ Accepts(b)
        /\ faults' = [faults EXCEPT !.lost = @ + 1]
        /\ UNCHANGED <<journal, lock, br>>
  /\ UNCHANGED <<files, leased, renamed, round, nextSha>>

\* push-ack: the remote's answer, recorded.
Acknowledge(b) ==
  /\ At(b, "ack")
  /\ files' = [files EXCEPT ![Subject(b)].ack = br[b].sha]
  /\ Goes(b, "readback")
  /\ UNCHANGED <<journal, leased, renamed, round, remoteVars, faults>>

\* Fresh clone: the delivered commit must be an ancestor of main and carry the
\* candidate's manifest before the delivery evidence is written.
Readback(b) ==
  LET s == Subject(b) IN
  /\ At(b, "readback")
  /\ IF Ancestor(s, br[b].sha) /\ files[s].manifest = br[b].sha
       THEN /\ files' = [files EXCEPT ![s].delivered = br[b].sha]
            /\ Goes(b, "deliver")
            /\ UNCHANGED journal
       ELSE Concludes(b, "CONFLICT") /\ UNCHANGED files
  /\ UNCHANGED <<leased, renamed, round, remoteVars, faults>>

\* The flushed delivery evidence precedes DELIVERED.
Deliver(b) ==
  /\ At(b, "deliver")
  /\ Concludes(b, "DELIVERED")
  /\ UNCHANGED <<files, leased, renamed, round, remoteVars, faults>>

\* Mutant of ProofUsable: a missing acknowledgement counts as no proof.
ProofNeedsAck(s) ==
  /\ s \notin renamed
  /\ files[s].pending # 0 /\ files[s].manifest # 0
  /\ files[s].ack = files[s].pending

\* recover_unlocked can judge the remote history only with both halves of the
\* evidence, the submitted origin, and an acknowledgement that agrees.
ProofUsable(s) ==
  /\ s \notin renamed
  /\ files[s].pending # 0 /\ files[s].manifest # 0
  /\ files[s].ack \in {0, files[s].pending}

\* Mutant of RecoveryVerdict: pending-sha is taken for proof of delivery.
VerdictTrustsPending(s) == IF ProofUsable(s) THEN "DELIVERED" ELSE "SUBMITTED"

RecoveryVerdict(s) ==
  IF ~ProofUsable(s) \/ ~Ancestor(s, files[s].pending) THEN "SUBMITTED"
  ELSE IF files[s].manifest # files[s].pending THEN "CONFLICT" ELSE "DELIVERED"

\* recover_unlocked of an INTEGRATING session: a proven commit is delivered
\* from its evidence, anything else goes back with its identity, and then b is
\* left with the locals `rest`.
Reconcile(b, s, rest) ==
  /\ State(s) = "INTEGRATING"
  /\ IF RecoveryVerdict(s) = "DELIVERED"
       THEN /\ files' = [files EXCEPT ![s].delivered = files[s].pending]
            /\ br' = [br EXCEPT ![b] = [Fresh("deliver", s) EXCEPT !.sha = files[s].pending]]
            /\ UNCHANGED journal
       ELSE /\ Transition(s, RecoveryVerdict(s), Identity(s))
            /\ br' = [br EXCEPT ![b] = IF RecoveryVerdict(s) = "SUBMITTED" THEN rest ELSE Idle]
            /\ UNCHANGED files

\* recover in a pool without the queue.
Recover(b, s) ==
  /\ TakesLane(b, s)
  /\ Reconcile(b, s, Idle)
  /\ lock' = [lock EXCEPT ![PoolOf[s]] = IF br'[b] = Idle THEN Free ELSE b]
  /\ UNCHANGED <<leased, renamed, round, remoteVars, faults>>

\* recover of a refused or abandoned session, and discard, take the lane for
\* one step.
LaneStep(s) ==
  /\ LaneOpen(s)
  /\ RecoverReopen(s) \/ Discard(s)
  /\ UNCHANGED brokerVars

\* A broker dies, or stops on a git or flush error, with the journal as it is.
Stop(b) ==
  /\ Busy(b)
  /\ faults.crash < MaxCrashes
  /\ faults' = [faults EXCEPT !.crash = @ + 1]
  /\ Ends(b)
  /\ UNCHANGED <<recordVars, remoteVars>>

\* Another host, or another tool, advances main of r.
OtherPush(r) ==
  /\ faults.other < MaxOthers
  /\ faults' = [faults EXCEPT !.other = @ + 1]
  /\ main' = [main EXCEPT ![r] = Append(@,
       [sha |-> nextSha, session |-> Other, content |-> NoIdentity, round |-> 0])]
  /\ nextSha' = nextSha + 1
  /\ UNCHANGED <<recordVars, lock, br>>

\* git remote set-url in the canonical checkout, to another spelling of the
\* same repository; the submission keeps the URL it froze.
RenameOrigin(s) ==
  /\ State(s) \in {"SUBMITTED", "INTEGRATING"}
  /\ s \notin renamed
  /\ faults.rename < MaxRenames
  /\ faults' = [faults EXCEPT !.rename = @ + 1]
  /\ renamed' = renamed \cup {s}
  /\ UNCHANGED <<journal, files, leased, round, remoteVars, lock, br>>

\* The steps of a broker that has a session in hand.
BrokerStep(b) ==
  \/ OriginConflict(b) \/ Prepare(b) \/ Verify(b) \/ Commit(b) \/ WritePending(b)
  \/ Fetch(b) \/ EnterPublishing(b) \/ Push(b) \/ Acknowledge(b) \/ Readback(b)
  \/ Deliver(b)

Environment ==
  \/ \E r \in Remotes : OtherPush(r)
  \/ \E s \in Sessions : RenameOrigin(s)

Init == RecordInit /\ BrokerInit

Next ==
  \/ OwnerStep /\ UNCHANGED brokerVars
  \/ \E b \in Brokers, s \in Sessions : Integrate(b, s) \/ Recover(b, s)
  \/ \E s \in Sessions : LaneStep(s)
  \/ \E b \in Brokers : BrokerStep(b) \/ Stop(b)
  \/ Environment

Spec == Init /\ [][Next]_allVars
BrokerTypeOK ==
  /\ RecordTypeOK
  /\ main \in [Remotes -> Seq(Commits)]
  /\ nextSha \in Nat \ {0}
  /\ lock \in [Pools -> Processes \cup {Free, Gate}]
  /\ br \in [Processes -> Locals]
  /\ faults \in [crash: Nat, other: Nat, lost: Nat, rename: Nat]

-----------------------------------------------------------------------------
(* Properties *)

Owns(b, s) == Busy(b) /\ Subject(b) = s

\* The commit the current submission of s put on main, if it did.
RoundCommit(s, x) == x.session = s /\ x.round = round[s]
RoundLanded(s) ==
  \E i \in DOMAIN main[RemoteOf[s]] : RoundCommit(s, main[RemoteOf[s]][i])

\* with_lock: two brokers never work in one pool, so no journal, evidence file
\* or candidate is shared by two of them.
LaneExclusive ==
  \A a, b \in Brokers :
    Busy(a) /\ Busy(b) /\ PoolOf[Subject(a)] = PoolOf[Subject(b)] => a = b

\* A submitted content reaches main at most once, over all crashes, retries,
\* recoveries, lost answers and resubmissions of the same work.
AtMostOnce ==
  \A r \in Remotes : \A i, j \in DOMAIN main[r] :
    /\ main[r][i].session # Other
    /\ main[r][i].session = main[r][j].session
    /\ main[r][i].content = main[r][j].content
    => i = j

\* DELIVERED is never a guess: delivered-sha names a commit of main that is
\* this session's, for this submission, with the identity of the journal.
DeliveredLanded ==
  \A s \in Sessions : State(s) = "DELIVERED" =>
    \E i \in DOMAIN main[RemoteOf[s]] :
      LET x == main[RemoteOf[s]][i] IN
      /\ x.sha = files[s].delivered
      /\ RoundCommit(s, x)
      /\ x.content = Identity(s)

\* "Durable write-ahead proof must precede any remote side effect": as long as
\* the outcome of a push is open, pending-sha and the candidate manifest name
\* the commit that was pushed, and no acknowledgement contradicts them.
WriteAhead ==
  \A s \in Sessions : State(s) = "INTEGRATING" =>
    \A i \in DOMAIN main[RemoteOf[s]] :
      LET x == main[RemoteOf[s]][i] IN
      RoundCommit(s, x) =>
        /\ files[s].pending = x.sha
        /\ files[s].manifest = x.sha
        /\ files[s].ack \in {0, x.sha}

\* When its broker is gone, recover of an INTEGRATING session says DELIVERED
\* exactly when this submission is on main, wherever the broker stopped.
RecoveryExact ==
  \A s \in Sessions :
    /\ State(s) = "INTEGRATING"
    /\ s \notin renamed
    /\ \A b \in Processes : ~Owns(b, s)
    => (RecoveryVerdict(s) = "DELIVERED" <=> RoundLanded(s))

\* Brokers only ever add to main: no commit, theirs or another host's, leaves
\* the history of the destination.
MainOnlyGrows ==
  [][\A r \in Remotes :
       /\ Len(main[r]) <= Len(main'[r])
       /\ \A i \in DOMAIN main[r] : main'[r][i] = main[r][i]]_allVars

\* The broker with all its failures implements the delivery contract.
Contract == INSTANCE Delivery WITH
  landed <- { x \in UNION {{main[r][i] : i \in DOMAIN main[r]} : r \in Remotes} :
                x.session # Other }
ImplementsDelivery == Contract!Spec

\* "A transport/readback outage after a successful push is indeterminate, not a
\* content conflict": a submission that is on main is not refused.
NoFalseConflict ==
  \A s \in Sessions : State(s) = "CONFLICT" => ~RoundLanded(s)
==============================================================================
