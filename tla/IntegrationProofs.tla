-------------------------- MODULE IntegrationProofs --------------------------
(***************************************************************************)
(* Theorems about the integration: IntegrationBroker, the brokers that run *)
(* a lane each, and IntegrationQueue, the workers of its queue.  They hold *)
(* for any sets of sessions, contents, pools, remotes, brokers and workers,*)
(* any worker budget and any bounds.                                       *)
(*                                                                         *)
(* Part 1 is the type invariant of the broker; part 2 the evidence it      *)
(* leaves beside the journal; part 3 the protocol of gates and leases and, *)
(* with the lemmas of part 2, the same evidence for a queued broker.       *)
(***************************************************************************)
EXTENDS IntegrationQueue, SequenceTheorems, TLAPS

\* A process in the steps of integrate_unlocked and recover_unlocked.
Working(b) == br[b].pc \notin {"idle", "start"}

\* A process at work has a session in hand; only a worker has to start first.
SubjectsOK ==
  /\ \A b \in Processes : Working(b) => Subject(b) \in Sessions
  /\ \A b \in Brokers : Busy(b) => Working(b)

\* The part of the type invariant a broker's own control moves.
HandOK ==
  /\ lock \in [Pools -> Processes \cup {Free, Gate}]
  /\ br \in [Processes -> Locals]
  /\ SubjectsOK

TypeInv == BrokerTypeOK /\ SubjectsOK

Identities == Contents \cup {NoIdentity}

-----------------------------------------------------------------------------
(* Types *)

\* `transition` keeps every journal a pair of a known state and an identity line.
LEMMA TransitionType ==
  ASSUME journal \in [Sessions -> Journals],
         NEW s, NEW next \in JournalStates, NEW identity \in Identities,
         Transition(s, next, identity)
  PROVE  journal' \in [Sessions -> Journals]
BY DEF Transition, Journals, Identities

\* The identity line of a journal is a digest or empty.
LEMMA IdentityType ==
  ASSUME journal \in [Sessions -> Journals], NEW s \in Sessions
  PROVE  Identity(s) \in Identities
BY DEF Identity, Journals, Identities

\* reopen_session leaves well-formed journals and evidence files.
LEMMA ReopenType ==
  ASSUME RecordTypeOK, NEW s \in Sessions, Reopen(s)
  PROVE  journal' \in [Sessions -> Journals] /\ files' \in [Sessions -> EvidenceFiles]
<1>1. files' \in [Sessions -> EvidenceFiles]
  BY DEF Reopen, RecordTypeOK, NoEvidence, EvidenceFiles
<1>2. journal' \in [Sessions -> Journals]
  BY TransitionType DEF Reopen, RecordTypeOK, JournalStates, Identities
<1> QED BY <1>1, <1>2

\* The commands of the owner (submit, close, exit, list, resume) keep the
\* session records well formed.
LEMMA OwnerStepType ==
  ASSUME RecordTypeOK, OwnerStep
  PROVE  RecordTypeOK'
<1> USE DEF RecordTypeOK
<1>1. ASSUME NEW s \in Sessions, NEW c \in Contents, Submit(s, c)
      PROVE  RecordTypeOK'
  <2>1. journal' \in [Sessions -> Journals]
    BY <1>1, TransitionType DEF Submit, JournalStates, Identities
  <2>2. round' \in [Sessions -> Nat] /\ renamed' \subseteq Sessions
    BY <1>1 DEF Submit
  <2> QED BY <1>1, <2>1, <2>2 DEF Submit
<1>2. ASSUME NEW s \in Sessions, CloseClean(s) \/ Exit(s) \/ LauncherDies(s) \/ List(s)
      PROVE  RecordTypeOK'
  <2>1. journal' \in [Sessions -> Journals]
    BY <1>2, TransitionType
       DEF CloseClean, Exit, LauncherDies, List, JournalStates, Identities
  <2> QED BY <1>2, <2>1 DEF CloseClean, Exit, LauncherDies, List
<1>3. ASSUME NEW s \in Sessions, Resume(s)
      PROVE  RecordTypeOK'
  <2>1. journal' \in [Sessions -> Journals] /\ files' \in [Sessions -> EvidenceFiles]
    BY <1>3, ReopenType DEF Resume
  <2> QED BY <1>3, <2>1 DEF Resume
<1> QED BY <1>1, <1>2, <1>3 DEF OwnerStep

\* A broker that goes on keeps its session and the holders of the locks.
LEMMA GoesHand ==
  ASSUME HandOK, NEW b \in Processes, Working(b),
         NEW pc \in Steps \ {"start"}, Goes(b, pc)
  PROVE  HandOK'
BY DEF HandOK, SubjectsOK, Goes, Working, Busy, Subject, Locals

\* A broker that ends leaves well-formed locals and locks.
LEMMA EndsHand ==
  ASSUME HandOK, NEW b \in Processes, Ends(b)
  PROVE  HandOK'
<1>1. Idle \in Locals
  BY DEF Idle, Fresh, Locals, Steps
<1>2. br' \in [Processes -> Locals] /\ lock' \in [Pools -> Processes \cup {Free, Gate}]
  BY <1>1 DEF HandOK, Ends
<1>3. SubjectsOK'
  BY DEF HandOK, SubjectsOK, Ends, Working, Busy, Subject, Idle, Fresh
<1> QED BY <1>2, <1>3 DEF HandOK

\* `transition` followed by the end of the broker keeps journals, locals and
\* locks well formed.
LEMMA ConcludesType ==
  ASSUME RecordTypeOK, HandOK, NEW b \in Processes, Working(b),
         NEW state \in JournalStates, Concludes(b, state)
  PROVE  HandOK' /\ journal' \in [Sessions -> Journals]
<1>1. Subject(b) \in Sessions
  BY DEF HandOK, SubjectsOK
<1>2. HandOK'
  BY EndsHand DEF Concludes
<1>3. journal' \in [Sessions -> Journals]
  BY <1>1, TransitionType, IdentityType DEF Concludes, RecordTypeOK
<1> QED BY <1>2, <1>3

\* A moved main or a refused push leads to a well-formed second attempt or
\* refusal.
LEMMA RetriesType ==
  ASSUME RecordTypeOK, HandOK, NEW b \in Processes, Working(b), Retries(b)
  PROVE  HandOK' /\ journal' \in [Sessions -> Journals]
<1>1. CASE Concludes(b, "CONFLICT")
  BY <1>1, ConcludesType DEF JournalStates
<1>2. CASE /\ br' = [br EXCEPT ![b] = [Fresh("prepare", Subject(b)) EXCEPT !.try = 2]]
           /\ UNCHANGED <<journal, lock>>
  <2>1. [Fresh("prepare", Subject(b)) EXCEPT !.try = 2] \in Locals
    BY DEF HandOK, SubjectsOK, Fresh, Locals, Steps
  <2>2. br' \in [Processes -> Locals]
    BY <1>2, <2>1 DEF HandOK
  <2>3. SubjectsOK'
    BY <1>2 DEF HandOK, SubjectsOK, Working, Busy, Subject, Fresh
  <2> QED BY <1>2, <2>2, <2>3 DEF HandOK, RecordTypeOK
<1> QED BY <1>1, <1>2 DEF Retries

\* The inductive type invariant by its parts: records, brokers, remotes, faults.
LEMMA TypeParts ==
  TypeInv <=> /\ RecordTypeOK /\ HandOK
              /\ main \in [Remotes -> Seq(Commits)]
              /\ nextSha \in Nat \ {0}
              /\ faults \in [crash: Nat, other: Nat, lost: Nat, rename: Nat]
BY DEF TypeInv, BrokerTypeOK, HandOK

\* A process at a step of integrate_unlocked or recover_unlocked is at work.
LEMMA AtIsWorking ==
  ASSUME NEW b, NEW pc \in Steps \ {"idle", "start"}, At(b, pc)
  PROVE  Working(b) /\ Busy(b)
BY DEF At, Busy, Working

\* The first transition of integrate_unlocked gives the broker a session.
LEMMA EnterType ==
  ASSUME RecordTypeOK, HandOK, NEW b \in Processes, NEW s \in Sessions, Enter(b, s)
  PROVE  /\ journal' \in [Sessions -> Journals]
         /\ br' \in [Processes -> Locals]
         /\ SubjectsOK'
<1>1. journal' \in [Sessions -> Journals]
  BY TransitionType, IdentityType DEF Enter, RecordTypeOK, JournalStates
<1>2. br' \in [Processes -> Locals]
  BY DEF Enter, HandOK, Fresh, Locals, Steps
<1>3. SubjectsOK'
  BY DEF Enter, HandOK, SubjectsOK, Working, Busy, Subject, Fresh
<1> QED BY <1>1, <1>2, <1>3

\* recover_unlocked leaves well-formed records and a broker that either has
\* the session in hand or is done with it.
LEMMA ReconcileType ==
  ASSUME RecordTypeOK, HandOK, NEW b \in Processes, NEW s \in Sessions,
         NEW rest \in Locals, rest.pc = "idle" \/ (b \in Workers /\ rest.pc = "start"),
         Reconcile(b, s, rest)
  PROVE  /\ journal' \in [Sessions -> Journals]
         /\ files' \in [Sessions -> EvidenceFiles]
         /\ br' \in [Processes -> Locals]
         /\ SubjectsOK'
<1> USE DEF Reconcile
<1>1. RecoveryVerdict(s) \in JournalStates
  BY DEF RecoveryVerdict, JournalStates
<1>2. journal' \in [Sessions -> Journals]
  BY <1>1, TransitionType, IdentityType DEF RecordTypeOK
<1>3. files' \in [Sessions -> EvidenceFiles]
  BY DEF RecordTypeOK, EvidenceFiles
<1>4. br' \in [Processes -> Locals]
  <2>1. files[s].pending \in Nat
    BY DEF RecordTypeOK, EvidenceFiles
  <2>2. [Fresh("deliver", s) EXCEPT !.sha = files[s].pending] \in Locals
    BY <2>1 DEF Fresh, Locals, Steps
  <2>3. Idle \in Locals
    BY DEF Idle, Fresh, Locals, Steps
  <2> QED BY <2>2, <2>3 DEF HandOK
<1>5. SubjectsOK'
  <2>1. PICK l \in Locals :
          /\ br' = [br EXCEPT ![b] = l]
          /\ (l.pc = "deliver" /\ l.session = s) \/ l.pc = "idle" \/ l = rest
    <3>1. \A a \in Processes : br'[a] \in Locals
      BY <1>4
    <3>2. /\ [Fresh("deliver", s) EXCEPT !.sha = files[s].pending].session = s
          /\ [Fresh("deliver", s) EXCEPT !.sha = files[s].pending].pc = "deliver"
          /\ Idle.pc = "idle"
      BY DEF Fresh, Idle
    <3> QED BY <3>1, <3>2 DEF HandOK
  <2>2. Brokers \cap Workers = {} /\ Brokers \subseteq Processes
    BY BrokerAssumption DEF Processes
  <2> QED BY <2>1, <2>2 DEF HandOK, SubjectsOK, Working, Busy, Subject
<1> QED BY <1>2, <1>3, <1>4, <1>5

\* A main that accepted a candidate is a sequence of commits.
LEMMA PushType ==
  ASSUME TypeInv, NEW b \in Processes, Working(b), Accepts(b)
  PROVE  main' \in [Remotes -> Seq(Commits)]
<1>1. Subject(b) \in Sessions
  BY DEF TypeInv, SubjectsOK
<1>2. Remote(b) \in Remotes
  BY <1>1, BrokerAssumption DEF Remote
<1>3. Contribution(b) \in Commits
  BY <1>1, IdentityType
     DEF Contribution, Commits, TypeInv, BrokerTypeOK, RecordTypeOK, Locals, Identities
<1>4. SubSeq(main[Remote(b)], 1, br[b].base) \in Seq(Commits)
  BY <1>2 DEF TypeInv, BrokerTypeOK, Locals, Accepts, FastForward
<1>5. Append(SubSeq(main[Remote(b)], 1, br[b].base), Contribution(b)) \in Seq(Commits)
  BY <1>3, <1>4
<1> QED BY <1>2, <1>5 DEF Accepts, TypeInv, BrokerTypeOK

\* Each step of integrate_unlocked keeps the inductive type invariant.
LEMMA BrokerStepType ==
  ASSUME TypeInv, NEW b \in Processes, BrokerStep(b)
  PROVE  TypeInv'
<1>1. RecordTypeOK /\ HandOK
  BY TypeParts
<1>2. Working(b)
  BY DEF BrokerStep, OriginConflict, Prepare, Verify, Commit, WritePending, Fetch,
         EnterPublishing, Push, Acknowledge, Readback, Deliver, At, Working
<1>3. br[b] \in Locals /\ Subject(b) \in Sessions
  BY <1>1, <1>2 DEF HandOK, SubjectsOK
<1>4. ASSUME NEW st \in JournalStates, Concludes(b, st)
      PROVE  HandOK' /\ journal' \in [Sessions -> Journals]
  BY <1>1, <1>2, <1>4, ConcludesType
<1>5. ASSUME NEW pc \in Steps \ {"start"}, Goes(b, pc)
      PROVE  HandOK'
  BY <1>1, <1>2, <1>5, GoesHand
<1>6. ASSUME Retries(b)
      PROVE  HandOK' /\ journal' \in [Sessions -> Journals]
  BY <1>1, <1>2, <1>6, RetriesType
<1>7. ASSUME HandOK', journal' \in [Sessions -> Journals],
             files' \in [Sessions -> EvidenceFiles],
             main' \in [Remotes -> Seq(Commits)],
             nextSha' \in Nat \ {0},
             faults' \in [crash: Nat, other: Nat, lost: Nat, rename: Nat],
             UNCHANGED <<leased, renamed, round>>
      PROVE  TypeInv'
  <2>1. RecordTypeOK'
    BY <1>1, <1>7 DEF RecordTypeOK
  <2> QED BY <1>7, <2>1 DEF TypeInv, BrokerTypeOK, HandOK
<1> USE DEF JournalStates, Steps, remoteVars
<1>8. /\ files \in [Sessions -> EvidenceFiles] /\ journal \in [Sessions -> Journals]
      /\ main \in [Remotes -> Seq(Commits)] /\ nextSha \in Nat \ {0}
      /\ faults \in [crash: Nat, other: Nat, lost: Nat, rename: Nat]
  BY <1>1 DEF TypeInv, BrokerTypeOK, RecordTypeOK
<1>9. CASE OriginConflict(b) \/ Deliver(b)
  BY <1>4, <1>7, <1>8, <1>9 DEF OriginConflict, Deliver
<1>10. CASE Prepare(b)
  <2>1. CASE /\ br' = [br EXCEPT ![b] =
                       [@ EXCEPT !.pc = "verify", !.base = Len(main[Remote(b)])]]
             /\ UNCHANGED <<journal, lock>>
    <3>1. Len(main[Remote(b)]) \in Nat
      BY <1>3, <1>8, BrokerAssumption DEF Remote
    <3>2. [br[b] EXCEPT !.pc = "verify", !.base = Len(main[Remote(b)])] \in Locals
      BY <1>3, <3>1 DEF Locals
    <3>3. br' \in [Processes -> Locals]
      BY <1>1, <2>1, <3>2 DEF HandOK
    <3>4. SubjectsOK'
      BY <1>1, <1>2, <2>1, <1>3 DEF HandOK, SubjectsOK, Working, Busy, Subject, Locals
    <3>5. HandOK'
      BY <1>1, <2>1, <3>3, <3>4 DEF HandOK
    <3> QED BY <1>7, <1>8, <1>10, <2>1, <3>5 DEF Prepare
  <2>2. CASE Transition(Subject(b), "CONFLICT", NoIdentity) /\ Ends(b)
    <3>1. HandOK' /\ journal' \in [Sessions -> Journals]
      BY <1>1, <1>3, <1>8, <2>2, EndsHand, TransitionType DEF Identities
    <3> QED BY <1>7, <1>8, <1>10, <3>1 DEF Prepare
  <2>3. CASE Concludes(b, "CONFLICT")
    BY <1>4, <1>7, <1>8, <1>10, <2>3 DEF Prepare
  <2> QED BY <1>10, <2>1, <2>2, <2>3 DEF Prepare
<1>11. CASE Verify(b) \/ EnterPublishing(b)
  BY <1>4, <1>5, <1>7, <1>8, <1>11 DEF Verify, EnterPublishing
<1>12. CASE Commit(b)
  <2>1. CASE Concludes(b, "CONFLICT") /\ UNCHANGED <<files, nextSha>>
    BY <1>4, <1>7, <1>8, <1>12, <2>1 DEF Commit
  <2>2. CASE /\ br' = [br EXCEPT ![b] = [@ EXCEPT !.pc = "pending", !.sha = nextSha]]
             /\ nextSha' = nextSha + 1
             /\ files' = [files EXCEPT ![Subject(b)].manifest = nextSha]
             /\ UNCHANGED <<journal, lock>>
    <3>1. [br[b] EXCEPT !.pc = "pending", !.sha = nextSha] \in Locals
      BY <1>3, <1>8 DEF Locals
    <3>2. br' \in [Processes -> Locals]
      BY <1>1, <2>2, <3>1 DEF HandOK
    <3>3. SubjectsOK'
      BY <1>1, <1>2, <2>2, <1>3 DEF HandOK, SubjectsOK, Working, Busy, Subject, Locals
    <3>4. HandOK'
      BY <1>1, <2>2, <3>2, <3>3 DEF HandOK
    <3>5. files' \in [Sessions -> EvidenceFiles]
      BY <1>8, <2>2 DEF EvidenceFiles
    <3> QED BY <1>7, <1>8, <1>12, <2>2, <3>4, <3>5 DEF Commit
  <2> QED BY <1>12, <2>1, <2>2 DEF Commit
<1>13. CASE WritePending(b) \/ Acknowledge(b)
  <2>1. br[b].sha \in Nat
    BY <1>3 DEF Locals
  <2>2. files' \in [Sessions -> EvidenceFiles]
    <3>1. CASE files' = [files EXCEPT ![Subject(b)].pending = br[b].sha]
      BY <1>8, <2>1, <3>1 DEF EvidenceFiles
    <3>2. CASE files' = [files EXCEPT ![Subject(b)].ack = br[b].sha]
      BY <1>8, <2>1, <3>2 DEF EvidenceFiles
    <3> QED BY <1>13, <3>1, <3>2 DEF WritePending, Acknowledge
  <2>3. HandOK'
    BY <1>5, <1>13 DEF WritePending, Acknowledge
  <2> QED BY <1>7, <1>8, <1>13, <2>2, <2>3 DEF WritePending, Acknowledge
<1>14. CASE Fetch(b)
  BY <1>5, <1>6, <1>7, <1>8, <1>14 DEF Fetch
<1>15. CASE Push(b)
  <2>1. HandOK' /\ journal' \in [Sessions -> Journals]
    <3>1. CASE Goes(b, "ack") /\ UNCHANGED journal
      BY <1>5, <1>8, <3>1
    <3>2. CASE Retries(b)
      BY <1>6, <3>2
    <3>3. CASE UNCHANGED <<journal, lock, br>>
      BY <1>1, <1>8, <3>3 DEF HandOK, SubjectsOK, Working, Busy, Subject
    <3> QED BY <1>15, <3>1, <3>2, <3>3 DEF Push
  <2>2. main' \in [Remotes -> Seq(Commits)]
    BY <1>2, <1>8, <1>15, PushType DEF Push
  <2>3. faults' \in [crash: Nat, other: Nat, lost: Nat, rename: Nat]
    BY <1>8, <1>15 DEF Push
  <2> QED BY <1>7, <1>8, <1>15, <2>1, <2>2, <2>3 DEF Push
<1>16. CASE Readback(b)
  <2>1. CASE Concludes(b, "CONFLICT") /\ UNCHANGED files
    BY <1>4, <1>7, <1>8, <1>16, <2>1 DEF Readback
  <2>2. CASE /\ files' = [files EXCEPT ![Subject(b)].delivered = br[b].sha]
             /\ Goes(b, "deliver") /\ UNCHANGED journal
    <3>1. br[b].sha \in Nat
      BY <1>3 DEF Locals
    <3>2. files' \in [Sessions -> EvidenceFiles]
      BY <1>8, <2>2, <3>1 DEF EvidenceFiles
    <3> QED BY <1>5, <1>7, <1>8, <1>16, <2>2, <3>2 DEF Readback
  <2> QED BY <1>16, <2>1, <2>2 DEF Readback
<1> QED BY <1>9, <1>10, <1>11, <1>12, <1>13, <1>14, <1>15, <1>16 DEF BrokerStep

\* Taking the lane of a session's pool, or handing it back, keeps the locks
\* well formed.
LEMMA LaneHand ==
  ASSUME NEW b \in Processes, NEW s \in Sessions,
         br' \in [Processes -> Locals], SubjectsOK',
         lock \in [Pools -> Processes \cup {Free, Gate}],
         NEW holder \in {b, Free}, lock' = [lock EXCEPT ![PoolOf[s]] = holder]
  PROVE  HandOK'
BY DEF HandOK

\* Every step keeps the types, and every busy broker has a session in hand.
LEMMA NextType ==
  ASSUME TypeInv, [Next]_allVars
  PROVE  TypeInv'
<1>1. /\ RecordTypeOK /\ HandOK
      /\ main \in [Remotes -> Seq(Commits)] /\ nextSha \in Nat \ {0}
      /\ faults \in [crash: Nat, other: Nat, lost: Nat, rename: Nat]
  BY TypeParts
<1>2. ASSUME RecordTypeOK', HandOK',
             main' \in [Remotes -> Seq(Commits)],
             nextSha' \in Nat \ {0},
             faults' \in [crash: Nat, other: Nat, lost: Nat, rename: Nat]
      PROVE  TypeInv'
  BY <1>2 DEF TypeInv, BrokerTypeOK, HandOK
<1>3. ASSUME UNCHANGED <<lock, br>>
      PROVE  HandOK'
  BY <1>1, <1>3 DEF HandOK, SubjectsOK, Working, Busy, Subject
<1>4. ASSUME OwnerStep, UNCHANGED brokerVars
      PROVE  TypeInv'
  <2>1. RecordTypeOK'
    BY <1>1, <1>4, OwnerStepType
  <2> QED BY <1>1, <1>2, <1>3, <1>4, <2>1 DEF brokerVars
<1>5. ASSUME NEW b \in Brokers, NEW s \in Sessions, Integrate(b, s)
      PROVE  TypeInv'
  <2>1. b \in Processes
    BY DEF Processes
  <2>2. journal' \in [Sessions -> Journals] /\ br' \in [Processes -> Locals] /\ SubjectsOK'
    BY <1>1, <1>5, <2>1, EnterType DEF Integrate
  <2>3. HandOK'
    BY <1>1, <1>5, <2>1, <2>2, LaneHand DEF Integrate, HandOK
  <2>4. RecordTypeOK'
    BY <1>1, <1>5, <2>2 DEF Integrate, RecordTypeOK
  <2> QED BY <1>1, <1>2, <1>5, <2>3, <2>4 DEF Integrate, remoteVars
<1>6. ASSUME NEW b \in Brokers, NEW s \in Sessions, Recover(b, s)
      PROVE  TypeInv'
  <2>1. b \in Processes
    BY DEF Processes
  <2>2. /\ journal' \in [Sessions -> Journals] /\ files' \in [Sessions -> EvidenceFiles]
        /\ br' \in [Processes -> Locals] /\ SubjectsOK'
    <3>1. Idle \in Locals /\ Idle.pc = "idle"
      BY DEF Idle, Fresh, Locals, Steps
    <3> QED BY <1>1, <1>6, <2>1, <3>1, ReconcileType DEF Recover
  <2>3. PICK holder \in {b, Free} : lock' = [lock EXCEPT ![PoolOf[s]] = holder]
    BY <1>6 DEF Recover
  <2>4. HandOK'
    BY <1>1, <2>1, <2>2, <2>3, LaneHand DEF HandOK
  <2>5. RecordTypeOK'
    BY <1>1, <1>6, <2>2 DEF Recover, RecordTypeOK
  <2> QED BY <1>1, <1>2, <1>6, <2>4, <2>5 DEF Recover, remoteVars
<1>7. ASSUME NEW s \in Sessions, LaneStep(s)
      PROVE  TypeInv'
  <2>1. CASE RecoverReopen(s)
    <3>1. RecordTypeOK'
      BY <1>1, <2>1, ReopenType DEF RecoverReopen, RecordTypeOK
    <3> QED BY <1>1, <1>2, <1>3, <1>7, <3>1 DEF LaneStep, brokerVars
  <2>2. CASE Discard(s)
    <3>1. journal' \in [Sessions -> Journals]
      BY <1>1, <2>2, TransitionType, IdentityType
         DEF Discard, RecordTypeOK, JournalStates
    <3>2. RecordTypeOK'
      BY <1>1, <2>2, <3>1 DEF Discard, RecordTypeOK
    <3> QED BY <1>1, <1>2, <1>3, <1>7, <3>2 DEF LaneStep, brokerVars
  <2> QED BY <1>7, <2>1, <2>2 DEF LaneStep
<1>8. ASSUME NEW b \in Brokers, BrokerStep(b)
      PROVE  TypeInv'
  BY <1>8, BrokerStepType DEF Processes
<1>9. ASSUME NEW b \in Brokers, Stop(b)
      PROVE  TypeInv'
  <2>1. HandOK'
    BY <1>1, <1>9, EndsHand DEF Stop, Processes
  <2>2. RecordTypeOK'
    BY <1>1, <1>9 DEF Stop, RecordTypeOK, recordVars
  <2>3. faults' \in [crash: Nat, other: Nat, lost: Nat, rename: Nat]
    BY <1>1, <1>9 DEF Stop
  <2> QED BY <1>1, <1>2, <1>9, <2>1, <2>2, <2>3 DEF Stop, remoteVars
<1>10. ASSUME NEW r \in Remotes, OtherPush(r)
       PROVE  TypeInv'
  <2>1. RecordTypeOK' /\ HandOK'
    <3>1. UNCHANGED recordVars /\ UNCHANGED <<lock, br>>
      BY <1>10 DEF OtherPush
    <3>2. RecordTypeOK'
      BY <1>1, <3>1 DEF RecordTypeOK, recordVars
    <3> QED BY <1>3, <3>1, <3>2
  <2>2. [sha |-> nextSha, session |-> Other, content |-> NoIdentity, round |-> 0] \in Commits
    BY <1>1 DEF Commits
  <2>3. Append(main[r],
          [sha |-> nextSha, session |-> Other, content |-> NoIdentity, round |-> 0])
          \in Seq(Commits)
    BY <1>1, <2>2
  <2>4. main' \in [Remotes -> Seq(Commits)]
    <3>1. main' = [main EXCEPT ![r] = Append(main[r],
            [sha |-> nextSha, session |-> Other, content |-> NoIdentity, round |-> 0])]
      BY <1>10 DEF OtherPush
    <3> QED BY <1>1, <2>3, <3>1
  <2>5. faults' \in [crash: Nat, other: Nat, lost: Nat, rename: Nat]
    <3>1. faults' = [faults EXCEPT !.other = faults.other + 1]
      BY <1>10 DEF OtherPush
    <3> QED BY <1>1, <3>1
  <2>6. nextSha' \in Nat \ {0}
    BY <1>1, <1>10 DEF OtherPush
  <2> QED BY <1>2, <2>1, <2>4, <2>5, <2>6
<1>11. ASSUME NEW s \in Sessions, RenameOrigin(s)
       PROVE  TypeInv'
  <2>1. RecordTypeOK'
    BY <1>1, <1>11 DEF RenameOrigin, RecordTypeOK
  <2>2. faults' \in [crash: Nat, other: Nat, lost: Nat, rename: Nat]
    BY <1>1, <1>11 DEF RenameOrigin
  <2> QED BY <1>1, <1>2, <1>3, <1>11, <2>1, <2>2 DEF RenameOrigin, remoteVars
<1>12. CASE UNCHANGED allVars
  BY <1>1, <1>2, <1>3, <1>12 DEF allVars, recordVars, brokerVars, RecordTypeOK
<1> QED BY <1>4, <1>5, <1>6, <1>7, <1>8, <1>9, <1>10, <1>11, <1>12
        DEF Next, Environment

\* The first state of a state root is well formed.
LEMMA InitType ==
  ASSUME Init
  PROVE  TypeInv
<1> USE DEF Init, RecordInit, BrokerInit
<1>1. RecordTypeOK
  BY DEF RecordTypeOK, NoEvidence, EvidenceFiles, Journals, JournalStates
<1>2. br \in [Processes -> Locals]
  BY DEF Idle, Fresh, Locals, Steps
<1>3. SubjectsOK
  BY DEF SubjectsOK, Working, Busy, Idle, Fresh, Processes
<1> QED BY <1>1, <1>2, <1>3 DEF TypeInv, BrokerTypeOK

\* Whatever brokers, owners, other hosts and crashes do, in any number: the
\* record, the evidence, the locks and the brokers keep their types.  The
\* invariant adds that a busy broker has a session in hand.
THEOREM Typing == Spec => []BrokerTypeOK
<1>1. TypeInv => BrokerTypeOK
  BY DEF TypeInv
<1> QED BY <1>1, InitType, NextType, PTL DEF Spec

\* The strengthened form the other theorems rest on.
THEOREM StrongTyping == Spec => []TypeInv
BY InitType, NextType, PTL DEF Spec

-----------------------------------------------------------------------------
(* The lane *)

\* A busy broker holds the lane of its session's pool.
LaneHeld == \A b \in Brokers : Busy(b) => lock[PoolOf[Subject(b)]] = b

\* A broker that goes on with the session it has in hand touches neither the
\* lane nor the journal.
GoesOn(b) ==
  /\ lock' = lock /\ journal' = journal
  /\ br'[b].pc # "idle" /\ br'[b].session = Subject(b)
  /\ \A a \in Processes \ {b} : br'[a] = br[a]

\* The journal of a session another broker has in hand is left alone.
LeavesOthers(s) == \A x \in Sessions \ {s} : journal'[x] = journal[x]

\* `transition` writes the journal of one session only.
LEMMA TransitionLocal ==
  ASSUME NEW s \in Sessions, NEW next, NEW identity, Transition(s, next, identity)
  PROVE  LeavesOthers(s)
BY DEF Transition, LeavesOthers

\* Every step of a broker with a session in hand either goes on with the same
\* session and the same lane, or ends the broker; it touches no other journal.
LEMMA StepShape ==
  ASSUME TypeInv, NEW b \in Processes, BrokerStep(b)
  PROVE  /\ Busy(b) /\ Working(b)
         /\ GoesOn(b) \/ (Ends(b) /\ LeavesOthers(Subject(b)))
<1>1. Busy(b) /\ Working(b)
  BY DEF BrokerStep, OriginConflict, Prepare, Verify, Commit, WritePending, Fetch,
         EnterPublishing, Push, Acknowledge, Readback, Deliver, At, Busy, Working
<1>2. /\ br \in [Processes -> Locals] /\ journal \in [Sessions -> Journals]
      /\ br[b] \in Locals /\ Subject(b) \in Sessions
  BY <1>1 DEF TypeInv, BrokerTypeOK, RecordTypeOK, SubjectsOK
<1>3. ASSUME NEW st, Concludes(b, st)
      PROVE  Ends(b) /\ LeavesOthers(Subject(b))
  BY <1>2, <1>3, TransitionLocal DEF Concludes
<1>4. ASSUME NEW pc \in Steps \ {"idle"}, Goes(b, pc), UNCHANGED journal
      PROVE  GoesOn(b)
  BY <1>2, <1>4 DEF Goes, GoesOn, Subject, Locals
<1>5. ASSUME Retries(b)
      PROVE  GoesOn(b) \/ (Ends(b) /\ LeavesOthers(Subject(b)))
  <2>1. CASE Concludes(b, "CONFLICT")
    BY <1>3, <2>1
  <2>2. CASE /\ br' = [br EXCEPT ![b] = [Fresh("prepare", Subject(b)) EXCEPT !.try = 2]]
             /\ UNCHANGED <<journal, lock>>
    BY <1>2, <2>2 DEF GoesOn, Fresh
  <2> QED BY <1>5, <2>1, <2>2 DEF Retries
<1> USE DEF Steps
<1>6. CASE OriginConflict(b) \/ Deliver(b)
  BY <1>1, <1>3, <1>6 DEF OriginConflict, Deliver
<1>7. CASE Prepare(b)
  <2>1. CASE /\ br' = [br EXCEPT ![b] =
                       [@ EXCEPT !.pc = "verify", !.base = Len(main[Remote(b)])]]
             /\ UNCHANGED <<journal, lock>>
    BY <1>1, <1>2, <2>1 DEF GoesOn, Locals, Subject
  <2>2. CASE Transition(Subject(b), "CONFLICT", NoIdentity) /\ Ends(b)
    BY <1>1, <1>2, <2>2, TransitionLocal
  <2> QED BY <1>1, <1>3, <1>7, <2>1, <2>2 DEF Prepare
<1>8. CASE Verify(b) \/ EnterPublishing(b)
  BY <1>1, <1>3, <1>4, <1>8 DEF Verify, EnterPublishing
<1>9. CASE Commit(b)
  <2>1. CASE /\ br' = [br EXCEPT ![b] = [@ EXCEPT !.pc = "pending", !.sha = nextSha]]
             /\ UNCHANGED <<journal, lock>>
    BY <1>1, <1>2, <2>1 DEF GoesOn, Locals, Subject
  <2> QED BY <1>1, <1>3, <1>9, <2>1 DEF Commit
<1>10. CASE WritePending(b) \/ Acknowledge(b)
  BY <1>1, <1>4, <1>10 DEF WritePending, Acknowledge
<1>11. CASE Fetch(b)
  BY <1>1, <1>4, <1>5, <1>11 DEF Fetch
<1>12. CASE Push(b)
  <2>1. CASE UNCHANGED <<journal, lock, br>>
    BY <1>1, <2>1 DEF GoesOn, Busy, Subject
  <2> QED BY <1>1, <1>4, <1>5, <1>12, <2>1 DEF Push
<1>13. CASE Readback(b)
  BY <1>1, <1>3, <1>4, <1>13 DEF Readback
<1> QED BY <1>6, <1>7, <1>8, <1>9, <1>10, <1>11, <1>12, <1>13 DEF BrokerStep

\* A broker that ends releases its own lane and no other broker's.
LEMMA EndsLane ==
  ASSUME TypeInv, LaneHeld, NEW b \in Brokers, Ends(b)
  PROVE  LaneHeld'
<1> SUFFICES ASSUME NEW a \in Brokers, br'[a].pc # "idle"
             PROVE  lock'[PoolOf[br'[a].session]] = a
  BY DEF LaneHeld, Busy, Subject
<1>1. a # b /\ br'[a] = br[a]
  BY DEF Ends, Idle, Fresh, TypeInv, BrokerTypeOK, Processes
<1>2. lock[PoolOf[Subject(a)]] = a /\ PoolOf[Subject(a)] \in Pools
  BY <1>1, BrokerAssumption
     DEF LaneHeld, Busy, Subject, TypeInv, SubjectsOK, Processes
<1> QED BY <1>1, <1>2 DEF Ends, Subject

\* No step lets a busy broker be without the lane of its session's pool.
LEMMA LaneStepInductive ==
  ASSUME TypeInv, LaneHeld, [Next]_allVars
  PROVE  LaneHeld'
<1>1. ASSUME UNCHANGED <<lock, br>>
      PROVE  LaneHeld'
  BY <1>1 DEF LaneHeld, Busy, Subject
<1>2. ASSUME NEW b \in Brokers, NEW s \in Sessions, LaneOpen(s), NEW l,
             br' = [br EXCEPT ![b] = l], l = Idle \/ l.session = s,
             lock' = [lock EXCEPT ![PoolOf[s]] = IF l = Idle THEN Free ELSE b]
      PROVE  LaneHeld'
  <2> SUFFICES ASSUME NEW a \in Brokers, br'[a].pc # "idle"
               PROVE  lock'[PoolOf[br'[a].session]] = a
    BY DEF LaneHeld, Busy, Subject
  <2>1. PoolOf[s] \in Pools /\ lock \in [Pools -> Processes \cup {Free, Gate}]
        /\ br \in [Processes -> Locals] /\ b \in Processes /\ a \in Processes
    BY BrokerAssumption DEF TypeInv, BrokerTypeOK, Processes
  <2>2. CASE a = b
    BY <1>2, <2>1, <2>2 DEF Idle, Fresh
  <2>3. CASE a # b
    <3>1. br'[a] = br[a]
      BY <1>2, <2>1, <2>3
    <3>2. lock[PoolOf[Subject(a)]] = a /\ PoolOf[Subject(a)] \in Pools
      BY <2>1, <3>1, BrokerAssumption DEF LaneHeld, Busy, Subject, TypeInv, SubjectsOK
    <3>3. PoolOf[Subject(a)] # PoolOf[s]
      BY <1>2, <2>1, <3>2, BrokerAssumption DEF LaneOpen
    <3> QED BY <1>2, <2>1, <3>1, <3>2, <3>3 DEF Subject
  <2> QED BY <2>2, <2>3
<1>3. ASSUME NEW b \in Brokers, NEW s \in Sessions, Integrate(b, s)
      PROVE  LaneHeld'
  <2>1. PICK pc \in {"origin", "prepare"} : br' = [br EXCEPT ![b] = Fresh(pc, s)]
    BY <1>3 DEF Integrate, Enter
  <2>2. Fresh(pc, s) # Idle /\ Fresh(pc, s).session = s
    BY <2>1 DEF Fresh, Idle
  <2>3. lock' = [lock EXCEPT ![PoolOf[s]] = b] /\ LaneOpen(s)
    BY <1>3 DEF Integrate, TakesLane
  <2> QED BY <1>2, <2>1, <2>2, <2>3
<1>4. ASSUME NEW b \in Brokers, NEW s \in Sessions, Recover(b, s)
      PROVE  LaneHeld'
  <2>1. PICK l : br' = [br EXCEPT ![b] = l] /\ (l = Idle \/ l.session = s)
    <3>1. [Fresh("deliver", s) EXCEPT !.sha = files[s].pending].session = s
      BY DEF Fresh
    <3> QED BY <1>4, <3>1 DEF Recover, Reconcile
  <2>2. br'[b] = l
    BY <2>1 DEF TypeInv, BrokerTypeOK, Processes
  <2> QED BY <1>2, <1>4, <2>1, <2>2 DEF Recover, TakesLane
<1>5. ASSUME NEW b \in Brokers, BrokerStep(b)
      PROVE  LaneHeld'
  <2>1. b \in Processes
    BY DEF Processes
  <2>2. CASE Ends(b)
    BY <2>2, EndsLane
  <2>3. CASE GoesOn(b)
    BY <1>5, <2>1, <2>3, StepShape DEF GoesOn, LaneHeld, Busy, Subject, Processes
  <2> QED BY <1>5, <2>1, <2>2, <2>3, StepShape
<1>6. ASSUME NEW b \in Brokers, Stop(b)
      PROVE  LaneHeld'
  BY <1>6, EndsLane DEF Stop
<1>7. CASE \/ OwnerStep /\ UNCHANGED brokerVars
           \/ \E s \in Sessions : LaneStep(s)
           \/ Environment
           \/ UNCHANGED allVars
  BY <1>1, <1>7 DEF brokerVars, allVars, LaneStep, Environment, OtherPush, RenameOrigin
<1> QED BY <1>3, <1>4, <1>5, <1>6, <1>7 DEF Next

\* No broker is busy at first.
LEMMA LaneInit ==
  ASSUME Init
  PROVE  LaneHeld
BY DEF Init, BrokerInit, LaneHeld, Busy, Idle, Fresh, Processes

\* A lane has one holder, so brokers that hold their lanes are in different
\* pools.
LEMMA LaneHeldExclusive ==
  ASSUME LaneHeld
  PROVE  LaneExclusive
BY DEF LaneHeld, LaneExclusive

\* with_lock keeps two brokers out of one pool, for any number of brokers,
\* pools and crashes: the invariant is that a busy broker holds the lane of
\* its session's pool, and a lane is one variable.
THEOREM LaneIsExclusive == Spec => []LaneExclusive
BY InitType, NextType, LaneInit, LaneStepInductive, LaneHeldExclusive, PTL DEF Spec

-----------------------------------------------------------------------------
(* main *)

\* A fast-forward push appends exactly the candidate to main.
LEMMA AcceptsGrows ==
  ASSUME TypeInv, NEW b \in Processes, Working(b), Accepts(b)
  PROVE  /\ Remote(b) \in Remotes
         /\ Len(main[Remote(b)]) = br[b].base
         /\ main' = [main EXCEPT ![Remote(b)] = Append(@, Contribution(b))]
<1>1. Remote(b) \in Remotes
  BY BrokerAssumption DEF Remote, TypeInv, SubjectsOK
<1>2. main[Remote(b)] \in Seq(Commits)
  BY <1>1 DEF TypeInv, BrokerTypeOK
<1>3. Len(main[Remote(b)]) = br[b].base
  BY DEF Accepts, FastForward
<1>4. SubSeq(main[Remote(b)], 1, br[b].base) = main[Remote(b)]
  BY <1>2, <1>3
<1> QED BY <1>1, <1>3, <1>4 DEF Accepts

\* The step of a broker moves main by one accepted push, or not at all.
LEMMA BrokerStepMain ==
  ASSUME TypeInv, NEW b \in Processes, BrokerStep(b)
  PROVE  main' = main \/ (At(b, "push") /\ Accepts(b))
BY DEF BrokerStep, OriginConflict, Prepare, Verify, Commit, WritePending, Fetch,
       EnterPublishing, Push, Acknowledge, Readback, Deliver, remoteVars

\* A step leaves main of every remote alone, or adds one commit to it.
LEMMA MainStep ==
  ASSUME TypeInv, [Next]_allVars
  PROVE  \/ main' = main
         \/ \E r \in Remotes, x \in Commits :
              /\ main' = [main EXCEPT ![r] = Append(@, x)]
              /\ \/ x.session = Other
                 \/ \E b \in Brokers : /\ BrokerStep(b) /\ At(b, "push") /\ Accepts(b)
                                       /\ r = Remote(b) /\ x = Contribution(b)
<1>1. ASSUME NEW b \in Brokers, BrokerStep(b), main' # main
      PROVE  \E r \in Remotes, x \in Commits :
               /\ main' = [main EXCEPT ![r] = Append(@, x)]
               /\ /\ BrokerStep(b) /\ At(b, "push") /\ Accepts(b)
                  /\ r = Remote(b) /\ x = Contribution(b)
  <2>1. b \in Processes /\ At(b, "push") /\ Accepts(b) /\ Working(b)
    BY <1>1, BrokerStepMain DEF Processes, At, Working
  <2>2. Contribution(b) \in Commits
    BY <2>1, IdentityType DEF Contribution, Commits, TypeInv, BrokerTypeOK, RecordTypeOK,
                              Locals, Identities, SubjectsOK
  <2> QED BY <1>1, <2>1, <2>2, AcceptsGrows
<1>2. ASSUME NEW r \in Remotes, OtherPush(r)
      PROVE  \E x \in Commits : x.session = Other /\ main' = [main EXCEPT ![r] = Append(@, x)]
  <2> DEFINE x == [sha |-> nextSha, session |-> Other, content |-> NoIdentity, round |-> 0]
  <2>1. x \in Commits /\ x.session = Other
    BY DEF Commits, TypeInv, BrokerTypeOK
  <2>2. main' = [main EXCEPT ![r] = Append(@, x)]
    BY <1>2 DEF OtherPush
  <2> QED BY <2>1, <2>2
<1>3. CASE \/ OwnerStep /\ UNCHANGED brokerVars
           \/ \E b \in Brokers, s \in Sessions : Integrate(b, s) \/ Recover(b, s)
           \/ \E s \in Sessions : LaneStep(s) \/ RenameOrigin(s)
           \/ \E b \in Brokers : Stop(b)
           \/ UNCHANGED allVars
  BY <1>3 DEF brokerVars, allVars, remoteVars, LaneStep, RenameOrigin, Integrate, Recover, Stop
<1> QED BY <1>1, <1>2, <1>3 DEF Next, Environment

\* No step shortens main of a remote or rewrites a commit of it.
LEMMA MainGrowsStep ==
  ASSUME TypeInv, [Next]_allVars, NEW r \in Remotes
  PROVE  /\ Len(main[r]) <= Len(main'[r])
         /\ \A i \in DOMAIN main[r] : main'[r][i] = main[r][i]
<1>1. main[r] \in Seq(Commits) /\ main \in [Remotes -> Seq(Commits)]
  BY DEF TypeInv, BrokerTypeOK
<1>2. CASE main' = main
  BY <1>1, <1>2
<1>3. ASSUME NEW q \in Remotes, NEW x \in Commits, main' = [main EXCEPT ![q] = Append(@, x)]
      PROVE  /\ Len(main[r]) <= Len(main'[r])
             /\ \A i \in DOMAIN main[r] : main'[r][i] = main[r][i]
  BY <1>1, <1>3
<1> QED BY <1>2, <1>3, MainStep

\* No step, of a broker or of another host, takes a commit off main or changes
\* one: the only write is the fast-forward push.
THEOREM MainIsAppendOnly == Spec => MainOnlyGrows
<1>1. ASSUME TypeInv, [Next]_allVars
      PROVE  [\A r \in Remotes :
               /\ Len(main[r]) <= Len(main'[r])
               /\ \A i \in DOMAIN main[r] : main'[r][i] = main[r][i]]_allVars
  BY <1>1, MainGrowsStep
<1> QED BY <1>1, InitType, NextType, PTL DEF Spec, MainOnlyGrows

-----------------------------------------------------------------------------
(* The session in hand *)

\* The session a broker has in hand stays INTEGRATING until the broker says so.
BusyIntegrating == \A b \in Brokers : Busy(b) => State(Subject(b)) = "INTEGRATING"

\* While a broker has a session in hand, the only steps that touch the broker
\* or the journal of the session are the broker's own.
LEMMA HandsOff ==
  ASSUME TypeInv, LaneHeld, BusyIntegrating, [Next]_allVars, NEW a \in Brokers, Busy(a)
  PROVE  \/ BrokerStep(a)
         \/ Ends(a) /\ recordVars' = recordVars
         \/ br'[a] = br[a] /\ journal'[Subject(a)] = journal[Subject(a)]
<1>1. /\ a \in Processes /\ Subject(a) \in Sessions /\ PoolOf[Subject(a)] \in Pools
      /\ State(Subject(a)) = "INTEGRATING" /\ lock[PoolOf[Subject(a)]] = a
      /\ br \in [Processes -> Locals]
  BY BrokerAssumption
     DEF TypeInv, BrokerTypeOK, SubjectsOK, BusyIntegrating, LaneHeld, Processes
<1>2. ASSUME NEW s \in Sessions, s # Subject(a), LeavesOthers(s)
      PROVE  journal'[Subject(a)] = journal[Subject(a)]
  BY <1>1, <1>2 DEF LeavesOthers
<1>3. ASSUME NEW s \in Sessions, Reopen(s)
      PROVE  journal'[Subject(a)] = journal[Subject(a)]
  <2>1. s # Subject(a)
    BY <1>1, <1>3 DEF Reopen
  <2> QED BY <1>2, <1>3, <2>1, TransitionLocal DEF Reopen
<1>4. CASE OwnerStep /\ UNCHANGED brokerVars
  <2>1. PICK s \in Sessions :
          \/ \E c \in Contents : Submit(s, c)
          \/ CloseClean(s) \/ Exit(s) \/ LauncherDies(s) \/ List(s) \/ Resume(s)
    BY <1>4 DEF OwnerStep
  <2>2. \/ journal' = journal
        \/ State(s) = "OPEN" /\ LeavesOthers(s)
        \/ Reopen(s)
    BY <2>1, TransitionLocal
       DEF Submit, CloseClean, Exit, LauncherDies, List, Resume
  <2>3. journal'[Subject(a)] = journal[Subject(a)]
    BY <1>1, <1>2, <1>3, <2>2
  <2> QED BY <1>4, <2>3 DEF brokerVars
<1>5. ASSUME NEW b \in Brokers, NEW s \in Sessions, Integrate(b, s) \/ Recover(b, s)
      PROVE  br'[a] = br[a] /\ journal'[Subject(a)] = journal[Subject(a)]
  <2>1. a # b /\ LaneOpen(s)
    BY <1>5 DEF Integrate, Recover, TakesLane, Busy
  <2>2. s # Subject(a)
    BY <1>1, <2>1, BrokerAssumption DEF LaneOpen
  <2>3. LeavesOthers(s)
    BY <1>5, TransitionLocal DEF Integrate, Enter, Recover, Reconcile, LeavesOthers
  <2>4. br'[a] = br[a]
    BY <1>1, <1>5, <2>1 DEF Integrate, Enter, Recover, Reconcile
  <2> QED BY <1>2, <2>2, <2>3, <2>4
<1>6. ASSUME NEW s \in Sessions, LaneStep(s)
      PROVE  br'[a] = br[a] /\ journal'[Subject(a)] = journal[Subject(a)]
  <2>1. CASE RecoverReopen(s)
    BY <1>3, <1>6, <2>1 DEF LaneStep, RecoverReopen, brokerVars
  <2>2. CASE Discard(s)
    <3>1. s # Subject(a) /\ LeavesOthers(s)
      BY <1>1, <2>2, TransitionLocal DEF Discard
    <3> QED BY <1>2, <1>6, <3>1 DEF LaneStep, brokerVars
  <2> QED BY <1>6, <2>1, <2>2 DEF LaneStep
<1>7. ASSUME NEW b \in Brokers, b # a, BrokerStep(b)
      PROVE  br'[a] = br[a] /\ journal'[Subject(a)] = journal[Subject(a)]
  <2>1. b \in Processes /\ Busy(b)
    BY <1>7, StepShape DEF Processes
  <2>2. Subject(b) \in Sessions /\ Subject(b) # Subject(a)
    BY <1>1, <1>7, <2>1 DEF LaneHeld, TypeInv, SubjectsOK
  <2>3. GoesOn(b) \/ (Ends(b) /\ LeavesOthers(Subject(b)))
    BY <1>7, <2>1, StepShape
  <2> QED BY <1>1, <1>2, <1>7, <2>1, <2>2, <2>3 DEF GoesOn, Ends
<1>8. ASSUME NEW b \in Brokers, Stop(b)
      PROVE  \/ Ends(a) /\ recordVars' = recordVars
             \/ br'[a] = br[a] /\ journal'[Subject(a)] = journal[Subject(a)]
  BY <1>1, <1>8 DEF Stop, Ends, recordVars
<1>9. CASE Environment \/ UNCHANGED allVars
  BY <1>9 DEF Environment, OtherPush, RenameOrigin, allVars, recordVars, brokerVars
<1> QED BY <1>4, <1>5, <1>6, <1>7, <1>8, <1>9 DEF Next

\* As long as a broker works on a session its journal says INTEGRATING: with
\* the lane held, no other command takes the session out of that state.
LEMMA BusyIntegratingStep ==
  ASSUME TypeInv, LaneHeld, BusyIntegrating, [Next]_allVars
  PROVE  BusyIntegrating'
<1> SUFFICES ASSUME NEW a \in Brokers, br'[a].pc # "idle"
             PROVE  journal'[br'[a].session].state = "INTEGRATING"
  BY DEF BusyIntegrating, Busy, Subject, State
<1>1. /\ a \in Processes /\ br \in [Processes -> Locals]
      /\ journal \in [Sessions -> Journals]
  BY DEF TypeInv, BrokerTypeOK, RecordTypeOK, Processes
<1>2. CASE Busy(a)
  <2>1. ~Ends(a)
    BY <1>1 DEF Ends, Idle, Fresh
  <2>2. State(Subject(a)) = "INTEGRATING"
    BY <1>2 DEF BusyIntegrating
  <2>3. CASE BrokerStep(a)
    BY <1>1, <2>1, <2>2, <2>3, StepShape DEF GoesOn, State, Subject
  <2>4. CASE br'[a] = br[a] /\ journal'[Subject(a)] = journal[Subject(a)]
    BY <2>2, <2>4 DEF State, Subject
  <2> QED BY <1>2, <2>1, <2>3, <2>4, HandsOff
<1>3. CASE ~Busy(a)
  <2>1. br'[a] # br[a]
    BY <1>3 DEF Busy
  <2>2. ~BrokerStep(a)
    BY <1>1, <1>3, StepShape
  <2>3. ASSUME NEW b \in Brokers, BrokerStep(b) \/ Stop(b)
        PROVE  FALSE
    <3>1. b \in Processes
      BY DEF Processes
    <3>2. CASE a = b
      BY <1>3, <2>2, <2>3, <3>2 DEF Stop
    <3>3. CASE a # b
      BY <1>1, <2>1, <2>3, <3>1, <3>3, StepShape DEF Stop, GoesOn, Ends
    <3> QED BY <3>2, <3>3
  <2>4. PICK b \in Brokers, s \in Sessions : Integrate(b, s) \/ Recover(b, s)
    BY <2>1, <2>3 DEF Next, LaneStep, Environment, OtherPush, RenameOrigin,
                      allVars, brokerVars
  <2>5. a = b
    BY <1>1, <2>1, <2>4 DEF Integrate, Enter, Recover, Reconcile
  <2>6. CASE Integrate(b, s)
    <3>1. br'[a].session = s
      BY <1>1, <2>5, <2>6 DEF Integrate, Enter, Fresh
    <3> QED BY <1>1, <2>6, <3>1 DEF Integrate, Enter, Transition
  <2>7. CASE Recover(b, s)
    <3>1. br'[a] # Idle
      BY DEF Idle, Fresh
    <3>2. /\ br' = [br EXCEPT ![b] = [Fresh("deliver", s) EXCEPT !.sha = files[s].pending]]
          /\ UNCHANGED journal /\ State(s) = "INTEGRATING"
      BY <1>1, <2>5, <2>7, <3>1 DEF Recover, Reconcile
    <3>3. br'[a].session = s
      BY <1>1, <2>5, <3>2 DEF Fresh
    <3> QED BY <3>2, <3>3 DEF State
  <2> QED BY <2>4, <2>6, <2>7
<1> QED BY <1>2, <1>3

\* Without a queue no worker is ever started.
WorkersIdle == \A w \in Workers : br[w].pc = "idle"

\* What the lane gives a command-line broker: its session to itself.
HandedInv == TypeInv /\ LaneHeld /\ BusyIntegrating /\ WorkersIdle

\* The command-line brokers leave the workers alone.
LEMMA WorkersStill ==
  ASSUME TypeInv, [Next]_allVars, NEW w \in Workers
  PROVE  br'[w] = br[w]
<1>1. w \in Processes /\ w \notin Brokers /\ br \in [Processes -> Locals]
  BY BrokerAssumption DEF Processes, TypeInv, BrokerTypeOK
<1>2. ASSUME NEW b \in Brokers, BrokerStep(b) \/ Stop(b)
      PROVE  br'[w] = br[w]
  <2>1. b \in Processes
    BY DEF Processes
  <2> QED BY <1>1, <1>2, <2>1, StepShape DEF Stop, GoesOn, Ends
<1>3. ASSUME NEW b \in Brokers, NEW s \in Sessions, Integrate(b, s) \/ Recover(b, s)
      PROVE  br'[w] = br[w]
  BY <1>1, <1>3 DEF Integrate, Enter, Recover, Reconcile
<1> QED BY <1>2, <1>3 DEF Next, LaneStep, Environment, OtherPush, RenameOrigin,
                          allVars, brokerVars

LEMMA WorkersIdleStep ==
  ASSUME TypeInv, WorkersIdle, [Next]_allVars
  PROVE  WorkersIdle'
BY WorkersStill DEF WorkersIdle

LEMMA HandedInit == Init => HandedInv
<1> SUFFICES ASSUME Init PROVE HandedInv
  OBVIOUS
<1>1. BusyIntegrating /\ WorkersIdle
  BY DEF Init, BrokerInit, BusyIntegrating, WorkersIdle, Busy, Idle, Fresh, Processes
<1> QED BY <1>1, InitType, LaneInit DEF HandedInv

LEMMA HandedStep == HandedInv /\ [Next]_allVars => HandedInv'
BY NextType, LaneStepInductive, BusyIntegratingStep, WorkersIdleStep DEF HandedInv

-----------------------------------------------------------------------------
(***************************************************************************)
(* Part 2.  The evidence a broker leaves beside the journal: what is on    *)
(* main and what the files name agree at every point at which a broker may *)
(* die, recovery judges by them without error, DELIVERED is never a guess, *)
(* no content lands twice, and the broker with all its failures implements *)
(* the contract of Delivery.                                               *)
(*                                                                         *)
(* The invariant has two sides.  SessionInv(s) relates journal, files and  *)
(* the commits of s on main, whether or not a broker is at work;           *)
(* HandInv(b) says what a broker at a given step knows of its session.     *)
(* The names of commits tie them together: a sha in hand, or in            *)
(* pending-sha, is on main only as the contribution of this submission.    *)
(*                                                                         *)
(* The lemmas about steps are stated of Processes, and WorkInv is all they *)
(* need of whoever hands out sessions: the lanes here, gates and leases in *)
(* part 3.                                                                 *)
(***************************************************************************)
\* The commits on main of r.
OnMain(r) == {main[r][i] : i \in DOMAIN main[r]}
Here(s) == OnMain(RemoteOf[s])

\* The states in which the journal's identity is that of the last submission.
Live == {"SUBMITTED", "INTEGRATING", "DELIVERED"}

\* The contribution of the current submission of s, as the journal names it.
Proof(s, x) == RoundCommit(s, x) /\ x.content = Identity(s)

RoundsOK(s) == \A x \in Here(s) : x.session = s => x.round <= round[s]
Clean(s) ==
  State(s) = "OPEN" => files[s].pending = 0 /\ files[s].manifest = 0 /\ files[s].ack = 0
\* The files name what this submission put on main ...
Named(s) ==
  State(s) \in Live => \A x \in Here(s) : RoundCommit(s, x) =>
    /\ x.content = Identity(s)
    /\ files[s].pending = x.sha /\ files[s].manifest = x.sha /\ files[s].ack \in {0, x.sha}
\* ... and what they name on main is the contribution of this submission.
Mine(s) ==
  State(s) \in Live /\ files[s].pending # 0 =>
    \A x \in Here(s) : x.sha = files[s].pending => RoundCommit(s, x)
Acked(s) ==
  State(s) \in Live /\ files[s].ack # 0 => \E x \in Here(s) : RoundCommit(s, x)
Proven(s) ==
  State(s) = "DELIVERED" => \E x \in Here(s) : x.sha = files[s].delivered /\ Proof(s, x)

SessionInv(s) ==
  /\ RoundsOK(s) /\ Clean(s) /\ Named(s) /\ Mine(s) /\ Acked(s) /\ Proven(s)
  /\ files[s].pending < nextSha

OnCandidate == {"verify", "commit", "pending", "fetch", "phase", "push"}
WithSha == {"pending", "fetch", "phase", "push"}

\* Until the push, main does not hold the content of the candidate; when it does,
\* it has moved on from the commit the candidate is built on.
Unlanded(b) ==
  br[b].pc \in OnCandidate =>
    \A x \in OnMain(Remote(b)) :
      x.session = Subject(b) /\ x.content = Identity(Subject(b)) =>
        br[b].pc = "push" /\ br[b].base < Len(main[Remote(b)])
\* The candidate's sha is in the files, and on main only when its push has landed.
ShaNamed(b) ==
  br[b].pc \in WithSha =>
    /\ 0 < br[b].sha /\ br[b].sha < nextSha
    /\ files[Subject(b)].manifest = br[b].sha
    /\ br[b].pc # "pending" => files[Subject(b)].pending = br[b].sha
    /\ \A x \in OnMain(Remote(b)) :
         x.sha = br[b].sha => RoundCommit(Subject(b), x) /\ br[b].pc = "push"
Pushed(b) ==
  br[b].pc \in {"ack", "readback"} =>
    \E x \in OnMain(Remote(b)) : x.sha = br[b].sha /\ Proof(Subject(b), x)
ReadBack(b) ==
  br[b].pc = "deliver" =>
    \E x \in OnMain(Remote(b)) : x.sha = files[Subject(b)].delivered /\ Proof(Subject(b), x)

\* Nobody else's sha.
Apart(b) ==
  br[b].pc \in WithSha =>
    /\ \A t \in Sessions \ {Subject(b)} : files[t].pending # br[b].sha
    /\ \A c \in Processes \ {b} : br[c].pc \in WithSha => br[c].sha # br[b].sha

HandInv(b) == Unlanded(b) /\ ShaNamed(b) /\ Pushed(b) /\ ReadBack(b)

\* The session a process has in hand stays INTEGRATING until the process says so.
Integrating == \A b \in Processes : Working(b) => State(Subject(b)) = "INTEGRATING"
\* ... and is in no other hands.
OneEach ==
  \A a, b \in Processes : Working(a) /\ Working(b) /\ a # b => Subject(a) # Subject(b)

WorkInv == TypeInv /\ Integrating /\ OneEach

\* Every commit on main has a sha of its own time, and sessions stay on their remote.
MainInv ==
  \A r \in Remotes : \A x \in OnMain(r) :
    /\ 0 < x.sha /\ x.sha < nextSha
    /\ x.session # Other => RemoteOf[x.session] = r

EvidenceInv ==
  /\ WorkInv /\ MainInv
  /\ \A s \in Sessions : SessionInv(s)
  /\ \A b \in Processes : HandInv(b) /\ Apart(b)

-----------------------------------------------------------------------------
(* Main as a set of commits *)

LEMMA MainKept ==
  ASSUME main' = main, NEW r
  PROVE  OnMain(r)' = OnMain(r) /\ (Len(main[r]) \in Nat => Len(main[r]) <= Len(main'[r]))
BY DEF OnMain

LEMMA MainAppend ==
  ASSUME main \in [Remotes -> Seq(Commits)], NEW q \in Remotes, NEW x \in Commits,
         main' = [main EXCEPT ![q] = Append(@, x)], NEW r \in Remotes
  PROVE  /\ OnMain(r)' = OnMain(r) \cup (IF r = q THEN {x} ELSE {})
         /\ Len(main'[r]) = IF r = q THEN Len(main[r]) + 1 ELSE Len(main[r])
         /\ Len(main[r]) \in Nat /\ Len(main[r]) <= Len(main'[r])
<1>1. CASE r # q
  BY <1>1 DEF OnMain
<1>2. CASE r = q
  <2>1. main[r] \in Seq(Commits) /\ main'[r] = Append(main[r], x)
    BY <1>2
  <2>2. /\ Len(main[r]) \in Nat /\ DOMAIN main[r] = 1..Len(main[r])
        /\ DOMAIN main'[r] = 1..(Len(main[r]) + 1) /\ Len(main'[r]) = Len(main[r]) + 1
        /\ main'[r][Len(main[r]) + 1] = x
        /\ \A i \in DOMAIN main[r] : main'[r][i] = main[r][i]
    BY <2>1
  <2>3. DOMAIN main'[r] = DOMAIN main[r] \cup {Len(main[r]) + 1}
    BY <2>2
  <2> QED BY <1>2, <2>2, <2>3 DEF OnMain
<1> QED BY <1>1, <1>2

\* What the types say of a session, its files and its remote.
LEMMA SessionFacts ==
  ASSUME TypeInv, NEW s \in Sessions
  PROVE  /\ RemoteOf[s] \in Remotes /\ Here(s) \subseteq Commits
         /\ Len(main[RemoteOf[s]]) \in Nat
         /\ journal[s] \in Journals /\ files[s] \in EvidenceFiles /\ round[s] \in Nat
         /\ nextSha \in Nat \ {0} /\ s # Other
<1>1. RemoteOf[s] \in Remotes /\ s # Other
  BY BrokerAssumption
<1>2. main[RemoteOf[s]] \in Seq(Commits)
  BY <1>1 DEF TypeInv, BrokerTypeOK
<1>3. Here(s) \subseteq Commits
  BY <1>2 DEF Here, OnMain
<1> QED BY <1>1, <1>2, <1>3 DEF TypeInv, BrokerTypeOK, RecordTypeOK

\* What the types and the lane say of a process at work.
LEMMA BrokerFacts ==
  ASSUME WorkInv, NEW b \in Processes, Working(b)
  PROVE  /\ b \in Processes /\ br \in [Processes -> Locals] /\ br[b] \in Locals
         /\ Subject(b) \in Sessions /\ Remote(b) = RemoteOf[Subject(b)]
         /\ State(Subject(b)) = "INTEGRATING"
         /\ \A a \in Processes \ {b} : Working(a) => Subject(a) # Subject(b)
<1>1. /\ b \in Processes /\ br \in [Processes -> Locals] /\ br[b] \in Locals
      /\ Subject(b) \in Sessions /\ Remote(b) = RemoteOf[Subject(b)]
  BY DEF WorkInv, TypeInv, BrokerTypeOK, SubjectsOK, Processes, Remote
<1>2. State(Subject(b)) = "INTEGRATING"
  BY DEF WorkInv, Integrating
<1>3. \A a \in Processes \ {b} : Working(a) => Subject(a) # Subject(b)
  BY DEF WorkInv, OneEach
<1> QED BY <1>1, <1>2, <1>3

-----------------------------------------------------------------------------
(* What a step leaves alone keeps its invariant *)

\* The record of s is as it was.
SameRecord(s) ==
  journal'[s] = journal[s] /\ files'[s] = files[s] /\ round'[s] = round[s]
\* Only the record of s moves.
Only(s) == \A t \in Sessions \ {s} : SameRecord(t)
\* A process that has no session in hand, before and after.
Rests(a) == br[a].pc \in {"idle", "start"} /\ br'[a].pc \in {"idle", "start"}
\* Only process b moves.
OnlyBroker(b) == \A a \in Processes \ {b} : br'[a] = br[a]

\* Main of r gains at most commits of other sessions under other shas.
GainsNo(r, s, shas) ==
  /\ OnMain(r) \subseteq OnMain(r)' /\ Len(main[r]) <= Len(main'[r])
  /\ \A x \in OnMain(r)' : x \in OnMain(r) \/ (x.session # s /\ x.sha \notin shas)
InHand(a) == IF br[a].pc \in WithSha THEN {br[a].sha} ELSE {}

LEMMA SessionKept ==
  ASSUME TypeInv, NEW s \in Sessions, SessionInv(s), SameRecord(s),
         GainsNo(RemoteOf[s], s, {files[s].pending}),
         nextSha' \in Nat, nextSha <= nextSha'
  PROVE  SessionInv(s)'
<1>1. files[s].pending \in Nat /\ nextSha \in Nat
  BY SessionFacts DEF EvidenceFiles
<1>2. State(s)' = State(s) /\ Identity(s)' = Identity(s)
  BY DEF SameRecord, State, Identity
<1>3. \A x : RoundCommit(s, x)' <=> RoundCommit(s, x)
  BY DEF SameRecord, RoundCommit
<1>4. /\ Here(s) \subseteq Here(s)'
      /\ \A x \in Here(s)' : x \in Here(s) \/ (x.session # s /\ x.sha # files[s].pending)
  BY DEF GainsNo, Here
<1>5. RoundsOK(s)' /\ Clean(s)' /\ Named(s)' /\ Mine(s)'
  BY <1>2, <1>3, <1>4 DEF SessionInv, SameRecord, RoundsOK, Clean, Named, Mine, RoundCommit
<1>6. Acked(s)' /\ Proven(s)'
  BY <1>2, <1>3, <1>4 DEF SessionInv, SameRecord, Acked, Proven, Proof
<1>7. files'[s].pending < nextSha'
  BY <1>1 DEF SessionInv, SameRecord
<1> QED BY <1>5, <1>6, <1>7 DEF SessionInv

\* A process without a session knows nothing of one.
LEMMA AtRest ==
  ASSUME NEW a, br'[a].pc \in {"idle", "start"}
  PROVE  HandInv(a)' /\ Apart(a)' /\ br'[a].pc \notin WithSha
BY DEF HandInv, Apart, Unlanded, ShaNamed, Pushed, ReadBack, OnCandidate, WithSha

LEMMA HandKept ==
  ASSUME WorkInv, TypeInv', NEW a \in Processes, HandInv(a), br'[a] = br[a] \/ Rests(a),
         Working(a) => SameRecord(Subject(a)),
         \A r \in Remotes : Working(a) /\ r = Remote(a) => GainsNo(r, Subject(a), InHand(a)),
         nextSha' \in Nat, nextSha <= nextSha'
  PROVE  HandInv(a)'
<1>1. CASE ~Working(a)
  BY <1>1, AtRest DEF Working, Rests
<1>2. CASE Working(a)
  <2> br'[a] = br[a]
    BY <1>2 DEF Working, Rests
  <2> PICK s \in Sessions : s = Subject(a)
    BY <1>2, BrokerFacts
  <2>1. br[a].sha \in Nat /\ nextSha \in Nat
    BY <1>2, BrokerFacts DEF Locals, WorkInv, TypeInv, BrokerTypeOK
  <2>2. /\ Subject(a)' = s /\ Remote(a)' = Remote(a) /\ Identity(s)' = Identity(s)
        /\ files'[s] = files[s]
    BY <1>2 DEF Subject, Remote, SameRecord, Identity
  <2>8. /\ OnMain(Remote(a)) \subseteq OnMain(Remote(a))'
        /\ \A x \in OnMain(Remote(a))' :
             x \in OnMain(Remote(a)) \/ (x.session # s /\ x.sha \notin InHand(a))
        /\ Len(main[Remote(a)]) <= Len(main'[Remote(a)])
        /\ Len(main[Remote(a)]) \in Nat /\ Len(main'[Remote(a)]) \in Nat /\ br[a].base \in Nat
    <3>1. PICK r \in Remotes : r = Remote(a)
      BY <1>2, BrokerFacts, SessionFacts DEF WorkInv
    <3>2. GainsNo(r, s, InHand(a)) /\ OnMain(Remote(a))' = OnMain(r)'
      BY <1>2, <2>2, <3>1
    <3>3. main[r] \in Seq(Commits) /\ main'[r] \in Seq(Commits)
      BY <3>1 DEF WorkInv, TypeInv, BrokerTypeOK
    <3>4. Len(main[r]) \in Nat /\ Len(main'[r]) \in Nat /\ br[a].base \in Nat
      BY <1>2, <3>3, BrokerFacts DEF Locals
    <3> QED BY <3>1, <3>2, <3>4 DEF GainsNo
  <2>3. \A x : RoundCommit(s, x)' <=> RoundCommit(s, x)
    BY <1>2 DEF SameRecord, RoundCommit
  <2>4. Unlanded(a)'
    BY <2>2, <2>8 DEF HandInv, Unlanded, OnCandidate
  <2>5. ShaNamed(a)'
    BY <2>1, <2>2, <2>3, <2>8 DEF HandInv, ShaNamed, InHand
  <2>6. Pushed(a)'
    BY <2>2, <2>3, <2>8 DEF HandInv, Pushed, Proof
  <2>7. ReadBack(a)'
    BY <2>2, <2>3, <2>8 DEF HandInv, ReadBack, Proof
  <2> QED BY <2>4, <2>5, <2>6, <2>7 DEF HandInv
<1> QED BY <1>1, <1>2

\* A broker that drops or keeps its candidate leaves the shas apart.
LEMMA ApartKept ==
  ASSUME EvidenceInv,
         \A b \in Processes : br'[b].pc \in WithSha =>
           br[b].pc \in WithSha /\ br'[b].sha = br[b].sha /\ br'[b].session = br[b].session,
         \A t \in Sessions : files'[t].pending \in {0, files[t].pending}
  PROVE  \A b \in Processes : Apart(b)'
<1> SUFFICES ASSUME NEW b \in Processes, br'[b].pc \in WithSha
             PROVE  /\ \A t \in Sessions \ {br'[b].session} : files'[t].pending # br'[b].sha
                    /\ \A c \in Processes \ {b} : br'[c].pc \in WithSha => br'[c].sha # br'[b].sha
  BY DEF Apart, Subject
<1>1. br[b].pc \in WithSha /\ br'[b].sha = br[b].sha /\ br'[b].session = Subject(b)
  BY DEF Subject
<1>2. 0 < br[b].sha /\ br[b].sha # 0
  BY <1>1 DEF EvidenceInv, HandInv, ShaNamed
<1> QED BY <1>1, <1>2 DEF EvidenceInv, Apart

-----------------------------------------------------------------------------
(* The three shapes of a step *)

\* The record of one session moves, and no broker has it in hand.
LEMMA RecordStep ==
  ASSUME EvidenceInv, WorkInv', UNCHANGED <<main, nextSha>>, NEW s \in Sessions,
         \A a \in Processes : br'[a] = br[a] \/ Rests(a),
         Only(s), SameRecord(s) \/ State(s) # "INTEGRATING", SessionInv(s)',
         files'[s].pending \in {0, files[s].pending}
  PROVE  EvidenceInv'
<1> USE DEF EvidenceInv
<1>1. /\ TypeInv /\ TypeInv' /\ nextSha \in Nat /\ nextSha' = nextSha
      /\ \A r \in Remotes : Len(main[r]) \in Nat
  BY DEF WorkInv, TypeInv, BrokerTypeOK
<1>2. \A r : OnMain(r)' = OnMain(r)
  BY MainKept
<1>3. MainInv'
  BY <1>1, <1>2 DEF MainInv
<1>4. ASSUME NEW t \in Sessions PROVE SessionInv(t)'
  <2>1. CASE t = s
    BY <2>1
  <2>2. CASE t # s
    BY <1>1, <1>2, <2>2, SessionKept DEF Only, GainsNo, Here
  <2> QED BY <2>1, <2>2
<1>5. ASSUME NEW b \in Processes PROVE HandInv(b)'
  <2>1. Working(b) => Subject(b) \in Sessions /\ SameRecord(Subject(b))
    BY BrokerFacts DEF Only
  <2> QED BY <1>1, <1>2, <2>1, HandKept, MainKept DEF GainsNo
<1>6. ASSUME NEW b \in Processes PROVE Apart(b)'
  <2>1. \A t \in Sessions : files'[t].pending \in {0, files[t].pending}
    BY DEF Only, SameRecord
  <2>2. \A a \in Processes : br'[a].pc \in WithSha => br'[a] = br[a]
    BY AtRest DEF Rests
  <2> QED BY <2>1, <2>2, ApartKept
<1> QED BY <1>3, <1>4, <1>5, <1>6

\* Broker b moves, with at most the record of session s, which nobody else has
\* in hand, and at most the push of its candidate.
LEMMA WorkStep ==
  ASSUME EvidenceInv, WorkInv', NEW b \in Processes, NEW s \in Sessions, Only(s), OnlyBroker(b),
         \A a \in Processes \ {b} : Working(a) => Subject(a) # s,
         nextSha' \in Nat, nextSha <= nextSha',
         \/ main' = main
         \/ /\ br[b].pc = "push" /\ Subject(b) = s
            /\ \E x \in Commits : /\ main' = [main EXCEPT ![RemoteOf[s]] = Append(@, x)]
                                  /\ x.session = s /\ x.sha = br[b].sha,
         SessionInv(s)', HandInv(b)', \A a \in Processes : Apart(a)'
  PROVE  EvidenceInv'
<1> USE DEF EvidenceInv
<1>1. TypeInv /\ TypeInv' /\ nextSha \in Nat /\ s # Other /\ RemoteOf[s] \in Remotes
      /\ main \in [Remotes -> Seq(Commits)]
  BY SessionFacts DEF WorkInv, TypeInv, BrokerTypeOK
<1>2. ASSUME NEW r \in Remotes
      PROVE  /\ OnMain(r) \subseteq OnMain(r)' /\ Len(main[r]) <= Len(main'[r])
             /\ \A x \in OnMain(r)' : \/ x \in OnMain(r)
                                      \/ /\ r = RemoteOf[s] /\ x.session = s
                                         /\ br[b].pc = "push" /\ Subject(b) = s
                                         /\ x.sha = br[b].sha
  <2>1. CASE main' = main
    <3>1. main[r] \in Seq(Commits)
      BY <1>1
    <3> QED BY <2>1, <3>1, MainKept
  <2>2. CASE main' # main
    <3>1. PICK x \in Commits : /\ main' = [main EXCEPT ![RemoteOf[s]] = Append(@, x)]
                               /\ x.session = s /\ x.sha = br[b].sha
      BY <2>2
    <3>2. /\ OnMain(r)' = OnMain(r) \cup (IF r = RemoteOf[s] THEN {x} ELSE {})
          /\ Len(main[r]) <= Len(main'[r])
      BY <1>1, <3>1, MainAppend
    <3> QED BY <2>2, <3>1, <3>2
  <2> QED BY <2>1, <2>2
<1>3. br[b].pc = "push" => 0 < br[b].sha /\ br[b].sha < nextSha /\ br[b].sha \in Nat
  <2>1. br[b].pc = "push" => br[b].pc \in WithSha /\ Working(b)
    BY DEF WithSha, Working
  <2> QED BY <2>1, BrokerFacts DEF HandInv, ShaNamed, Locals
<1>4. MainInv'
  <2> SUFFICES ASSUME NEW r \in Remotes, NEW x \in OnMain(r)'
               PROVE  /\ 0 < x.sha /\ x.sha < nextSha'
                      /\ x.session # Other => RemoteOf[x.session] = r
    BY DEF MainInv
  <2>1. CASE x \in OnMain(r)
    <3>1. x \in Commits
      BY <1>1, <2>1 DEF OnMain
    <3>2. 0 < x.sha /\ x.sha < nextSha /\ (x.session # Other => RemoteOf[x.session] = r)
      BY <2>1 DEF MainInv
    <3>3. x.sha \in Nat /\ nextSha \in Nat /\ nextSha' \in Nat /\ nextSha <= nextSha'
      BY <1>1, <3>1 DEF Commits
    <3> QED BY ONLY <3>2, <3>3
  <2>2. CASE x \notin OnMain(r)
    BY <1>1, <1>2, <1>3, <2>2
  <2> QED BY <2>1, <2>2
<1>5. ASSUME NEW t \in Sessions PROVE SessionInv(t)'
  <2>1. CASE t = s
    BY <2>1
  <2>2. CASE t # s
    <3>1. RemoteOf[t] \in Remotes
      BY <1>1, SessionFacts
    <3>2. br[b].pc = "push" /\ Subject(b) = s => files[t].pending # br[b].sha
      BY <2>2 DEF Apart, WithSha
    <3>3. GainsNo(RemoteOf[t], t, {files[t].pending})
      BY <1>2, <2>2, <3>1, <3>2 DEF GainsNo
    <3> QED BY <1>1, <1>2, <2>2, <3>1, <3>3, SessionKept DEF Only, Here
  <2> QED BY <2>1, <2>2
<1>6. ASSUME NEW a \in Processes PROVE HandInv(a)'
  <2>1. CASE a = b
    BY <2>1
  <2>2. CASE a # b
    <3>1. br'[a] = br[a]
      BY <2>2 DEF OnlyBroker
    <3>2. ASSUME Working(a)
          PROVE  /\ SameRecord(Subject(a))
                 /\ \A r \in Remotes : r = Remote(a) => GainsNo(r, Subject(a), InHand(a))
      <4>1. Subject(a) \in Sessions \ {s}
        BY <2>2, <3>2, BrokerFacts
      <4>2. SameRecord(Subject(a))
        BY <4>1 DEF Only
      <4>3. ASSUME NEW r \in Remotes, NEW x \in OnMain(r)', x \notin OnMain(r)
            PROVE  x.session # Subject(a) /\ x.sha \notin InHand(a)
        <5>1. x.session = s /\ br[b].pc = "push" /\ x.sha = br[b].sha
          BY <1>2, <4>3
        <5>2. br[a].pc \in WithSha => br[a].sha # br[b].sha
          BY <2>2, <5>1 DEF Apart, WithSha
        <5> QED BY <4>1, <5>1, <5>2 DEF InHand
      <4> QED BY <1>2, <4>2, <4>3 DEF GainsNo
    <3> QED BY <1>1, <3>1, <3>2, HandKept
  <2> QED BY <2>1, <2>2
<1> QED BY <1>4, <1>5, <1>6

\* Another host's commit has a sha of its own.
LEMMA ForeignStep ==
  ASSUME EvidenceInv, WorkInv', NEW r \in Remotes, OtherPush(r)
  PROVE  EvidenceInv'
<1> USE DEF EvidenceInv
<1> DEFINE x == [sha |-> nextSha, session |-> Other, content |-> NoIdentity, round |-> 0]
<1>1. /\ TypeInv /\ TypeInv' /\ nextSha \in Nat \ {0} /\ nextSha' = nextSha + 1
      /\ x \in Commits
      /\ UNCHANGED <<journal, files, round, br>>
      /\ main \in [Remotes -> Seq(Commits)] /\ main' = [main EXCEPT ![r] = Append(@, x)]
  BY DEF OtherPush, WorkInv, TypeInv, BrokerTypeOK, Commits, recordVars
<1>2. ASSUME NEW q \in Remotes
      PROVE  /\ OnMain(q)' = OnMain(q) \cup (IF q = r THEN {x} ELSE {})
             /\ Len(main[q]) <= Len(main'[q])
  <2> HIDE DEF x
  <2> QED BY <1>1, MainAppend
<1>3. MainInv'
  <2> SUFFICES ASSUME NEW q \in Remotes, NEW y \in OnMain(q)'
               PROVE  /\ 0 < y.sha /\ y.sha < nextSha'
                      /\ y.session # Other => RemoteOf[y.session] = q
    BY DEF MainInv
  <2>1. CASE y \in OnMain(q)
    <3>1. y \in Commits
      BY <1>1, <2>1 DEF OnMain
    <3>2. 0 < y.sha /\ y.sha < nextSha /\ (y.session # Other => RemoteOf[y.session] = q)
      BY <2>1 DEF MainInv
    <3>3. y.sha \in Nat /\ nextSha \in Nat /\ nextSha' \in Nat /\ nextSha <= nextSha'
      BY <1>1, <3>1 DEF Commits
    <3> QED BY ONLY <3>2, <3>3
  <2>2. CASE y = x
    BY <1>1, <2>2
  <2> QED BY <1>2, <2>1, <2>2
<1>4. ASSUME NEW q \in Remotes, NEW s \in Sessions, NEW shas, \A n \in shas : n < nextSha
      PROVE  GainsNo(q, s, shas)
  <2>1. x.session # s /\ x.sha \notin shas
    BY <1>1, <1>4, SessionFacts
  <2> QED BY <1>2, <2>1 DEF GainsNo
<1>5. ASSUME NEW s \in Sessions PROVE SessionInv(s)'
  <2>1. GainsNo(RemoteOf[s], s, {files[s].pending})
    BY <1>1, <1>4, SessionFacts DEF SessionInv
  <2>2. SameRecord(s) /\ nextSha' \in Nat /\ nextSha <= nextSha'
    BY <1>1 DEF SameRecord
  <2> QED BY <1>1, <2>1, <2>2, SessionKept
<1>6. ASSUME NEW b \in Processes PROVE HandInv(b)'
  <2>1. ASSUME Working(b), NEW q \in Remotes PROVE GainsNo(q, Subject(b), InHand(b))
    BY <1>1, <1>4, <2>1, BrokerFacts DEF InHand, HandInv, ShaNamed
  <2> QED BY SMTT(40), <1>1, <2>1, HandKept DEF SameRecord
<1>7. \A b \in Processes : Apart(b)'
  <2>1. \A t \in Sessions : files'[t].pending \in {0, files[t].pending}
    BY <1>1
  <2> QED BY <1>1, <2>1, ApartKept
<1> QED BY <1>3, <1>5, <1>6, <1>7

-----------------------------------------------------------------------------
(* What a command leaves of its own session *)

\* The session is no longer the broker's.
LEMMA SessionGone ==
  ASSUME TypeInv, NEW s \in Sessions, SessionInv(s), files'[s] = files[s], round'[s] = round[s],
         UNCHANGED <<main, nextSha>>,
         journal'[s].state \in {"CLOSED", "ABANDONED", "CONFLICT", "DISCARDED"}
  PROVE  SessionInv(s)'
<1>1. Here(s)' = Here(s)
  BY MainKept DEF Here
<1> QED BY <1>1 DEF SessionInv, RoundsOK, Clean, Named, Mine, Acked, Proven, State, Live

\* The session is open, and its evidence of delivery is gone.
LEMMA SessionOpened ==
  ASSUME TypeInv, NEW s \in Sessions, SessionInv(s), round'[s] = round[s],
         UNCHANGED <<main, nextSha>>,
         journal'[s].state = "OPEN", NEW delivered, files'[s] = NoEvidence(delivered)
  PROVE  SessionInv(s)'
<1>1. Here(s)' = Here(s) /\ nextSha \in Nat \ {0}
  BY MainKept, SessionFacts DEF Here
<1>2. files'[s].pending = 0 /\ files'[s].manifest = 0 /\ files'[s].ack = 0
  BY DEF NoEvidence
<1> QED BY <1>1, <1>2 DEF SessionInv, RoundsOK, Clean, Named, Mine, Acked, Proven, State, Live

\* A new submission is on no main yet, and has no evidence.
LEMMA SessionSubmitted ==
  ASSUME TypeInv, NEW s \in Sessions, SessionInv(s), files'[s] = files[s],
         round'[s] = round[s] + 1, UNCHANGED <<main, nextSha>>,
         State(s) = "OPEN", journal'[s].state = "SUBMITTED"
  PROVE  SessionInv(s)'
<1>1. /\ Here(s)' = Here(s) /\ Here(s) \subseteq Commits /\ round[s] \in Nat
  BY MainKept, SessionFacts DEF Here
<1>2. \A x \in Here(s) : x.session = s => x.round < round'[s]
  BY <1>1 DEF SessionInv, RoundsOK, Commits
<1>3. \A x \in Here(s)' : ~RoundCommit(s, x)'
  BY <1>1, <1>2 DEF RoundCommit, Commits
<1>4. RoundsOK(s)'
  BY <1>1, <1>2 DEF RoundsOK, Commits
<1> QED BY <1>1, <1>3, <1>4
        DEF SessionInv, Clean, Named, Mine, Acked, Proven, State

\* The session stays with the broker, under its identity.
LEMMA SessionStays ==
  ASSUME TypeInv, NEW s \in Sessions, SessionInv(s), files'[s] = files[s], round'[s] = round[s],
         UNCHANGED <<main, nextSha>>, State(s) \in {"SUBMITTED", "INTEGRATING"},
         journal'[s].state \in {"SUBMITTED", "INTEGRATING"}, journal'[s].identity = Identity(s)
  PROVE  SessionInv(s)'
<1>1. Here(s)' = Here(s) /\ Identity(s)' = Identity(s)
  BY MainKept DEF Here, Identity
<1>2. \A x : RoundCommit(s, x)' <=> RoundCommit(s, x)
  BY DEF RoundCommit
<1> QED BY <1>1, <1>2 DEF SessionInv, RoundsOK, Clean, Named, Mine, Acked, Proven, State, Live

\* The files change, and the candidate is not on main yet.
LEMMA SessionNamed ==
  ASSUME TypeInv, NEW s \in Sessions, SessionInv(s), journal'[s] = journal[s], round'[s] = round[s],
         main' = main, nextSha' \in Nat, nextSha <= nextSha', State(s) = "INTEGRATING",
         \A x \in Here(s) : ~(x.session = s /\ x.content = Identity(s)),
         files'[s].pending \in Nat, files'[s].pending < nextSha', files'[s].ack = files[s].ack,
         files'[s].pending = files[s].pending \/ \A x \in Here(s) : x.sha # files'[s].pending
  PROVE  SessionInv(s)'
<1>1. Here(s)' = Here(s)
  BY MainKept DEF Here
<1>2. \A x : RoundCommit(s, x)' <=> RoundCommit(s, x)
  BY DEF RoundCommit
<1>3. \A x \in Here(s) : ~RoundCommit(s, x)
  BY DEF SessionInv, Named, RoundCommit, Live
<1> QED BY <1>1, <1>2, <1>3 DEF SessionInv, RoundsOK, Clean, Named, Mine, Acked, Proven, State, Live

-----------------------------------------------------------------------------
(* The commands of the owner *)

LEMMA OwnerInv ==
  ASSUME EvidenceInv, WorkInv', OwnerStep, UNCHANGED brokerVars
  PROVE  EvidenceInv'
<1>1. PICK s \in Sessions :
        \/ \E c \in Contents : Submit(s, c)
        \/ CloseClean(s) \/ Exit(s) \/ LauncherDies(s) \/ List(s) \/ Resume(s)
  BY DEF OwnerStep
<1>2. /\ TypeInv /\ SessionInv(s) /\ UNCHANGED <<main, nextSha, br>>
      /\ journal \in [Sessions -> Journals] /\ files \in [Sessions -> EvidenceFiles]
      /\ round \in [Sessions -> Nat]
  BY DEF EvidenceInv, WorkInv, TypeInv, BrokerTypeOK, RecordTypeOK, brokerVars
<1>3. ASSUME NEW next, NEW identity, Transition(s, next, identity)
      PROVE  journal'[s].state = next /\ \A t \in Sessions \ {s} : journal'[t] = journal[t]
  BY <1>2, <1>3 DEF Transition
<1>4. CASE \E c \in Contents : Submit(s, c)
  <2>1. /\ State(s) = "OPEN" /\ files' = files /\ round' = [round EXCEPT ![s] = @ + 1]
        /\ journal'[s].state = "SUBMITTED" /\ \A t \in Sessions \ {s} : journal'[t] = journal[t]
    BY <1>3, <1>4 DEF Submit
  <2>2. SessionInv(s)'
    BY <1>2, <2>1, SessionSubmitted
  <2>3. Only(s) /\ files'[s].pending = files[s].pending
    BY <1>2, <2>1 DEF Only, SameRecord
  <2> QED BY <1>2, <2>1, <2>2, <2>3, RecordStep
<1>5. CASE \/ CloseClean(s) \/ List(s)
           \/ Exit(s) /\ ~UNCHANGED journal
  <2>1. /\ State(s) = "OPEN" /\ UNCHANGED <<files, round>>
        /\ journal'[s].state \in {"CLOSED", "ABANDONED"}
        /\ \A t \in Sessions \ {s} : journal'[t] = journal[t]
    BY <1>3, <1>5 DEF CloseClean, List, Exit
  <2>2. SessionInv(s)'
    BY <1>2, <2>1, SessionGone
  <2>3. Only(s)
    BY <2>1 DEF Only, SameRecord
  <2> QED BY <1>2, <2>1, <2>2, <2>3, RecordStep
<1>6. CASE Reopen(s) /\ Resume(s)
  <2>1. /\ State(s) # "INTEGRATING" /\ journal'[s].state = "OPEN" /\ round' = round
        /\ \A t \in Sessions \ {s} : journal'[t] = journal[t]
        /\ files' = [files EXCEPT ![s] = NoEvidence(files[s].delivered)]
    BY <1>3, <1>6 DEF Reopen, Resume
  <2>2. SessionInv(s)'
    BY <1>2, <2>1, SessionOpened
  <2>3. Only(s) /\ files'[s].pending = 0
    BY <1>2, <2>1 DEF Only, SameRecord, NoEvidence
  <2> QED BY <1>2, <2>1, <2>2, <2>3, RecordStep
<1>7. CASE UNCHANGED <<journal, files, round>>
  <2>1. SameRecord(s) /\ Only(s)
    BY <1>7 DEF SameRecord, Only
  <2>2. GainsNo(RemoteOf[s], s, {files[s].pending}) /\ nextSha' \in Nat /\ nextSha <= nextSha'
    BY <1>2, MainKept, SessionFacts DEF GainsNo
  <2>3. SessionInv(s)'
    BY <1>2, <2>1, <2>2, SessionKept
  <2> QED BY <1>2, <1>7, <2>1, <2>3, RecordStep
<1> QED BY <1>1, <1>4, <1>5, <1>6, <1>7 DEF Exit, LauncherDies, Resume

\* recover of a refused or abandoned session, and discard.
LEMMA LaneInv ==
  ASSUME EvidenceInv, WorkInv', NEW s \in Sessions, RecoverReopen(s) \/ Discard(s),
         UNCHANGED <<main, nextSha>>, \A a \in Processes : br'[a] = br[a] \/ Rests(a)
  PROVE  EvidenceInv'
<1>1. /\ TypeInv /\ SessionInv(s) /\ UNCHANGED <<main, nextSha, round>>
      /\ State(s) # "INTEGRATING"
      /\ journal \in [Sessions -> Journals] /\ files \in [Sessions -> EvidenceFiles]
  BY DEF EvidenceInv, WorkInv, TypeInv, BrokerTypeOK, RecordTypeOK, RecoverReopen, Discard
<1>2. CASE RecoverReopen(s)
  <2>1. /\ journal'[s].state = "OPEN" /\ \A t \in Sessions \ {s} : journal'[t] = journal[t]
        /\ files' = [files EXCEPT ![s] = NoEvidence(files[s].delivered)]
    BY <1>1, <1>2 DEF RecoverReopen, Reopen, Transition
  <2>2. SessionInv(s)'
    BY <1>1, <2>1, SessionOpened
  <2>3. Only(s) /\ files'[s].pending = 0
    BY <1>1, <2>1 DEF Only, SameRecord, NoEvidence
  <2> QED BY <1>1, <2>2, <2>3, RecordStep
<1>3. CASE Discard(s)
  <2>1. /\ journal'[s].state = "DISCARDED" /\ \A t \in Sessions \ {s} : journal'[t] = journal[t]
        /\ files' = files
    BY <1>1, <1>3 DEF Discard, Transition
  <2>2. SessionInv(s)'
    BY <1>1, <2>1, SessionGone
  <2>3. Only(s)
    BY <1>1, <2>1 DEF Only, SameRecord
  <2> QED BY <1>1, <2>1, <2>2, <2>3, RecordStep
<1> QED BY <1>2, <1>3

\* Nothing the evidence is about moves.
LEMMA IdleInv ==
  ASSUME EvidenceInv, WorkInv', UNCHANGED <<journal, files, round, main, nextSha>>,
         \A a \in Processes : br'[a] = br[a] \/ Rests(a)
  PROVE  EvidenceInv'
<1>1. \A r : OnMain(r)' = OnMain(r)
  BY MainKept
<1>2. \A s \in Sessions : SessionInv(s)'
  <2> SUFFICES ASSUME NEW s \in Sessions PROVE SessionInv(s)'
    OBVIOUS
  <2>1. TypeInv /\ SessionInv(s) /\ SameRecord(s) /\ nextSha' \in Nat /\ nextSha <= nextSha'
    BY SessionFacts DEF EvidenceInv, WorkInv, SameRecord
  <2> QED BY <1>1, <2>1, SessionKept DEF GainsNo
<1>3. \A b \in Processes : HandInv(b)' /\ Apart(b)'
  <2> SUFFICES ASSUME NEW b \in Processes PROVE HandInv(b)' /\ Apart(b)'
    OBVIOUS
  <2>1. WorkInv /\ TypeInv' /\ HandInv(b) /\ nextSha' \in Nat /\ nextSha <= nextSha'
    BY DEF EvidenceInv, WorkInv, TypeInv, BrokerTypeOK
  <2>2. HandInv(b)'
    <3>1. \A r \in Remotes : Len(main[r]) \in Nat
      BY DEF EvidenceInv, WorkInv, TypeInv, BrokerTypeOK
    <3> QED BY <1>1, <2>1, <3>1, HandKept, MainKept DEF GainsNo, SameRecord
  <2>3. \A a \in Processes : br'[a].pc \in WithSha => br'[a] = br[a]
    BY AtRest DEF Rests
  <2> QED BY <2>2, <2>3, ApartKept
<1> QED BY <1>1, <1>2, <1>3 DEF EvidenceInv, MainInv

-----------------------------------------------------------------------------
(* The end of a broker *)

\* A broker that ends leaves at most its own session in another state.
LEMMA FinishInv ==
  ASSUME EvidenceInv, WorkInv', NEW b \in Processes, Working(b), Ends(b),
         NEW s \in Sessions, s = Subject(b), LeavesOthers(s),
         UNCHANGED <<files, round, main, nextSha>>, SessionInv(s)'
  PROVE  EvidenceInv'
<1>1. WorkInv /\ nextSha \in Nat
  BY DEF EvidenceInv, WorkInv, TypeInv, BrokerTypeOK
<1>2. \A a \in Processes : br'[a] = IF a = b THEN Idle ELSE br[a]
  BY <1>1, BrokerFacts DEF Ends
<1>3. b \in Processes /\ br'[b].pc = "idle"
  BY <1>1, <1>2, BrokerFacts DEF Idle, Fresh
<1>4. HandInv(b)'
  BY <1>3 DEF HandInv, Unlanded, ShaNamed, Pushed, ReadBack, OnCandidate, WithSha
<1>5. \A a \in Processes : Apart(a)'
  <2>1. \A a \in Processes : br'[a].pc \in WithSha => br'[a] = br[a]
    BY <1>2, <1>3 DEF WithSha, Processes
  <2> QED BY <2>1, ApartKept
<1>6. Only(s) /\ OnlyBroker(b)
  BY <1>2 DEF Only, SameRecord, LeavesOthers, OnlyBroker, Processes
<1>7. \A a \in Processes \ {b} : Working(a) => Subject(a) # s
  BY <1>1, BrokerFacts
<1> QED BY <1>1, <1>4, <1>5, <1>6, <1>7, WorkStep

\* A refused or handed-back session.
LEMMA ConcludeInv ==
  ASSUME EvidenceInv, WorkInv', NEW b \in Processes, Working(b), Ends(b),
         NEW identity, NEW state \in {"CONFLICT", "SUBMITTED"},
         Transition(Subject(b), state, identity),
         state = "SUBMITTED" => identity = Identity(Subject(b)),
         UNCHANGED <<files, round, main, nextSha>>
  PROVE  EvidenceInv'
<1>1. WorkInv /\ TypeInv
  BY DEF EvidenceInv, WorkInv
<1>2. PICK s \in Sessions : s = Subject(b)
  BY <1>1, BrokerFacts
<1>3. SessionInv(s) /\ State(s) = "INTEGRATING"
  BY <1>1, <1>2, BrokerFacts DEF EvidenceInv
<1>4. journal'[s].state = state /\ journal'[s].identity = identity /\ LeavesOthers(s)
  BY <1>1, <1>2, TransitionLocal DEF Transition, TypeInv, BrokerTypeOK, RecordTypeOK
<1>5. SessionInv(s)'
  <2>1. CASE state = "CONFLICT"
    BY <1>1, <1>3, <1>4, <2>1, SessionGone
  <2>2. CASE state = "SUBMITTED"
    BY <1>1, <1>2, <1>3, <1>4, <2>2, SessionStays
  <2> QED BY <2>1, <2>2
<1> QED BY <1>2, <1>4, <1>5, FinishInv

LEMMA ConcludesInv ==
  ASSUME EvidenceInv, WorkInv', NEW b \in Processes, Working(b),
         NEW state \in {"CONFLICT", "SUBMITTED"}, Concludes(b, state),
         UNCHANGED <<files, round, main, nextSha>>
  PROVE  EvidenceInv'
BY ConcludeInv DEF Concludes

LEMMA StopInv ==
  ASSUME EvidenceInv, WorkInv', NEW b \in Processes, Working(b), Stop(b)
  PROVE  EvidenceInv'
<1>1. Working(b) /\ Ends(b) /\ UNCHANGED <<journal, files, round, main, nextSha>>
  BY DEF Stop, recordVars, remoteVars
<1>2. WorkInv /\ TypeInv /\ nextSha \in Nat
  BY DEF EvidenceInv, WorkInv, TypeInv, BrokerTypeOK
<1>3. PICK s \in Sessions : s = Subject(b)
  BY <1>1, <1>2, BrokerFacts
<1>4. SessionInv(s) /\ SameRecord(s) /\ GainsNo(RemoteOf[s], s, {files[s].pending})
  BY <1>1, MainKept DEF EvidenceInv, SameRecord, GainsNo
<1>5. SessionInv(s)'
  BY <1>1, <1>2, <1>4, SessionKept
<1> QED BY <1>1, <1>3, <1>5, FinishInv DEF LeavesOthers

\* The flushed evidence is the proof of the delivery.
LEMMA DeliverInv ==
  ASSUME EvidenceInv, WorkInv', NEW b \in Processes, Deliver(b)
  PROVE  EvidenceInv'
<1>1. /\ Working(b) /\ br[b].pc = "deliver" /\ Ends(b) /\ UNCHANGED <<files, round, main, nextSha>>
      /\ Transition(Subject(b), "DELIVERED", Identity(Subject(b)))
  BY DEF Deliver, Concludes, At, Working, remoteVars
<1>2. WorkInv /\ TypeInv
  BY DEF EvidenceInv, WorkInv
<1>3. PICK s \in Sessions : s = Subject(b)
  BY <1>1, <1>2, BrokerFacts
<1>4. /\ SessionInv(s) /\ State(s) = "INTEGRATING" /\ Remote(b) = RemoteOf[s]
      /\ \E x \in Here(s) : x.sha = files[s].delivered /\ Proof(s, x)
  BY <1>1, <1>2, <1>3, BrokerFacts DEF EvidenceInv, HandInv, ReadBack, Here
<1>5. journal'[s].state = "DELIVERED" /\ journal'[s].identity = Identity(s) /\ LeavesOthers(s)
  BY <1>1, <1>2, <1>3, TransitionLocal DEF Transition, TypeInv, BrokerTypeOK, RecordTypeOK
<1>6. SessionInv(s)'
  <2>1. Here(s)' = Here(s) /\ Identity(s)' = Identity(s)
    BY <1>1, <1>5, MainKept DEF Here, Identity
  <2>2. \A x : (RoundCommit(s, x)' <=> RoundCommit(s, x)) /\ (Proof(s, x)' <=> Proof(s, x))
    BY <1>1, <2>1 DEF RoundCommit, Proof
  <2> QED BY <1>1, <1>4, <1>5, <2>1, <2>2
          DEF SessionInv, RoundsOK, Clean, Named, Mine, Acked, Proven, State, Live
<1> QED BY <1>1, <1>3, <1>5, <1>6, FinishInv

-----------------------------------------------------------------------------
(* A broker takes a session in hand *)

\* A broker that moves without a record or a main: what is left to show is what it knows.
LEMMA MoveInv ==
  ASSUME EvidenceInv, WorkInv', NEW b \in Processes, NEW s \in Sessions, NEW l \in Locals,
         br' = [br EXCEPT ![b] = l], l.session = s, LeavesOthers(s),
         l.pc \in WithSha => br[b].pc \in WithSha /\ l.sha = br[b].sha /\ Subject(b) = s,
         \A a \in Processes \ {b} : Working(a) => Subject(a) # s,
         UNCHANGED <<files, round, main, nextSha>>, SessionInv(s)', HandInv(b)'
  PROVE  EvidenceInv'
<1>1. WorkInv /\ nextSha \in Nat /\ b \in Processes /\ br \in [Processes -> Locals]
  BY DEF EvidenceInv, WorkInv, TypeInv, BrokerTypeOK, Processes
<1>2. \A a \in Processes : br'[a] = IF a = b THEN l ELSE br[a]
  BY <1>1
<1>3. \A a \in Processes : Apart(a)'
  <2>1. \A a \in Processes : br'[a].pc \in WithSha =>
          br[a].pc \in WithSha /\ br'[a].sha = br[a].sha /\ br'[a].session = br[a].session
    BY <1>2 DEF Processes, Subject
  <2> QED BY <2>1, ApartKept
<1>4. Only(s) /\ OnlyBroker(b)
  BY <1>2 DEF Only, SameRecord, LeavesOthers, OnlyBroker, Processes
<1> QED BY <1>1, <1>3, <1>4, WorkStep

\* integrate_unlocked takes a session that is in no other hands.
LEMMA EnterInv ==
  ASSUME EvidenceInv, WorkInv', NEW b \in Processes, NEW s \in Sessions, Enter(b, s),
         \A a \in Processes \ {b} : Working(a) => Subject(a) # s,
         UNCHANGED <<files, round, main, nextSha>>
  PROVE  EvidenceInv'
<1>1. State(s) \in {"SUBMITTED", "INTEGRATING"} /\ Transition(s, "INTEGRATING", Identity(s))
  BY DEF Enter
<1>2. WorkInv /\ TypeInv /\ SessionInv(s) /\ b \in Processes /\ br \in [Processes -> Locals]
  BY DEF EvidenceInv, WorkInv, TypeInv, BrokerTypeOK, Processes
<1>3. /\ journal'[s].state = "INTEGRATING" /\ journal'[s].identity = Identity(s)
      /\ LeavesOthers(s)
  BY <1>1, <1>2, TransitionLocal DEF Transition, TypeInv, BrokerTypeOK, RecordTypeOK
<1>4. SessionInv(s)'
  BY <1>1, <1>2, <1>3, SessionStays
<1>5. PICK pc \in {"origin", "prepare"} : br' = [br EXCEPT ![b] = Fresh(pc, s)]
  BY DEF Enter
<1>6. Fresh(pc, s) \in Locals /\ Fresh(pc, s).session = s /\ Fresh(pc, s).pc = pc
  BY DEF Fresh, Locals, Steps
<1>7. HandInv(b)'
  <2>1. br'[b].pc = pc
    BY <1>2, <1>5, <1>6
  <2> QED BY <2>1 DEF HandInv, Unlanded, ShaNamed, Pushed, ReadBack, OnCandidate, WithSha
<1>8. Fresh(pc, s).pc \notin WithSha
  BY <1>6 DEF WithSha
<1> QED BY <1>1, <1>2, <1>3, <1>4, <1>5, <1>6, <1>7, <1>8, MoveInv

\* recover_unlocked delivers a session only on a commit of main that is its own.
LEMMA ReconcileInv ==
  ASSUME EvidenceInv, WorkInv', NEW b \in Processes, NEW s \in Sessions, NEW rest,
         Reconcile(b, s, rest), rest.pc \in {"idle", "start"}, ~Working(b),
         \A a \in Processes \ {b} : Working(a) => Subject(a) # s,
         UNCHANGED <<round, main, nextSha>>
  PROVE  EvidenceInv'
<1>1. State(s) = "INTEGRATING"
  BY DEF Reconcile
<1>2. /\ WorkInv /\ TypeInv /\ SessionInv(s) /\ b \in Processes /\ br \in [Processes -> Locals]
      /\ files \in [Sessions -> EvidenceFiles] /\ journal \in [Sessions -> Journals]
  BY DEF EvidenceInv, WorkInv, TypeInv, BrokerTypeOK, RecordTypeOK, Processes
<1>3. CASE RecoveryVerdict(s) = "DELIVERED"
  <2>1. /\ files' = [files EXCEPT ![s].delivered = files[s].pending]
        /\ br' = [br EXCEPT ![b] = [Fresh("deliver", s) EXCEPT !.sha = files[s].pending]]
        /\ UNCHANGED journal
    BY <1>1, <1>3 DEF Reconcile
  <2> DEFINE l == [Fresh("deliver", s) EXCEPT !.sha = files[s].pending]
  <2>2. /\ l \in Locals /\ l.pc = "deliver" /\ l.session = s
    BY <1>2 DEF Fresh, Locals, Steps, EvidenceFiles
  <2>3. /\ files'[s].delivered = files[s].pending
        /\ files'[s].pending = files[s].pending /\ files'[s].manifest = files[s].manifest
        /\ files'[s].ack = files[s].ack
        /\ \A t \in Sessions \ {s} : files'[t] = files[t]
    BY <1>2, <2>1 DEF EvidenceFiles
  <2>4. SessionInv(s)'
    <3>1. Here(s)' = Here(s) /\ Identity(s)' = Identity(s) /\ State(s)' = State(s)
      BY <1>1, <2>1, MainKept DEF Here, Identity, State
    <3>2. \A x : RoundCommit(s, x)' <=> RoundCommit(s, x)
      BY <1>1 DEF RoundCommit
    <3> QED BY <1>1, <1>2, <2>3, <3>1, <3>2
            DEF SessionInv, RoundsOK, Clean, Named, Mine, Acked, Proven
  <2>5. \E x \in Here(s) : x.sha = files[s].pending /\ Proof(s, x)
    <3>1. files[s].pending # 0 /\ Ancestor(s, files[s].pending)
      BY <1>3 DEF RecoveryVerdict, ProofUsable
    <3>2. PICK x \in Here(s) : x.sha = files[s].pending
      BY <3>1 DEF Ancestor, Here, OnMain
    <3> QED BY <1>1, <1>2, <3>1, <3>2 DEF SessionInv, Mine, Named, Proof, Live
  <2>6. HandInv(b)'
    <3>1. br'[b].pc = "deliver" /\ br'[b].session = s
      BY <1>2, <2>1, <2>2
    <3>2. OnMain(Remote(b))' = Here(s)
      BY <1>1, <3>1, MainKept DEF Remote, Subject, Here, OnMain
    <3>3. \A x : RoundCommit(s, x)' <=> RoundCommit(s, x)
      BY <1>1 DEF RoundCommit
    <3>4. \A x : Proof(Subject(b), x)' <=> Proof(s, x)
      BY <1>1, <2>1, <3>1 DEF Proof, Subject, RoundCommit, Identity
    <3>5. ReadBack(b)'
      BY <2>3, <2>5, <3>1, <3>2, <3>4 DEF ReadBack, Subject
    <3> QED BY <3>1, <3>5 DEF HandInv, Unlanded, ShaNamed, Pushed, OnCandidate, WithSha
  <2>7. \A a \in Processes : br'[a] = IF a = b THEN l ELSE br[a]
    BY <1>2, <2>1
  <2>8. Only(s) /\ OnlyBroker(b)
    BY <1>1, <2>1, <2>3, <2>7 DEF Only, SameRecord, OnlyBroker, Processes
  <2>9. \A a \in Processes : Apart(a)'
    <3>1. \A a \in Processes : br'[a].pc \in WithSha => br'[a] = br[a]
      BY <2>2, <2>7 DEF WithSha, Processes
    <3>2. \A t \in Sessions : files'[t].pending = files[t].pending
      BY <2>3
    <3> QED BY <3>1, <3>2, ApartKept
  <2>10. nextSha' \in Nat /\ nextSha <= nextSha'
    BY <1>1, <1>2 DEF TypeInv, BrokerTypeOK
  <2> QED BY <1>1, <1>2, <2>4, <2>6, <2>8, <2>9, <2>10, WorkStep
<1>4. CASE RecoveryVerdict(s) # "DELIVERED"
  <2>1. /\ RecoveryVerdict(s) \in {"SUBMITTED", "CONFLICT"}
        /\ Transition(s, RecoveryVerdict(s), Identity(s)) /\ UNCHANGED files
        /\ \E l \in {rest, Idle} : br' = [br EXCEPT ![b] = l]
    BY <1>1, <1>4 DEF Reconcile, RecoveryVerdict
  <2>2. /\ journal'[s].state = RecoveryVerdict(s) /\ journal'[s].identity = Identity(s)
        /\ LeavesOthers(s)
    BY <1>2, <2>1, TransitionLocal DEF Transition
  <2>3. SessionInv(s)'
    BY <1>1, <1>2, <2>1, <2>2, SessionGone, SessionStays
  <2>4. \A a \in Processes \ {b} : br'[a] = br[a]
    BY <1>2, <2>1
  <2>5. br'[b].pc \in {"idle", "start"}
    BY <1>2, <2>1 DEF Idle, Fresh
  <2>6. HandInv(b)'
    BY <2>5, AtRest
  <2>7. \A a \in Processes : Apart(a)'
    <3>1. \A a \in Processes : br'[a].pc \in WithSha => br'[a] = br[a]
      BY <2>4, <2>5 DEF WithSha, Processes
    <3> QED BY <2>1, <3>1, ApartKept
  <2>8. Only(s) /\ OnlyBroker(b) /\ nextSha' \in Nat /\ nextSha <= nextSha'
    BY <1>1, <1>2, <2>1, <2>2, <2>4
       DEF Only, SameRecord, LeavesOthers, OnlyBroker, Processes, TypeInv, BrokerTypeOK
  <2> QED BY <1>1, <1>2, <2>3, <2>6, <2>7, <2>8, WorkStep
<1> QED BY <1>3, <1>4

-----------------------------------------------------------------------------
(* A broker at work *)

\* What is known of a broker at a step.
LEMMA AtFacts ==
  ASSUME EvidenceInv, NEW b \in Processes, Working(b)
  PROVE  /\ WorkInv /\ TypeInv /\ HandInv(b) /\ Apart(b)
         /\ b \in Processes /\ br \in [Processes -> Locals] /\ br[b] \in Locals
         /\ journal \in [Sessions -> Journals] /\ files \in [Sessions -> EvidenceFiles]
         /\ nextSha \in Nat /\ br[b].sha \in Nat
         /\ \E s \in Sessions :
              /\ s = Subject(b) /\ RemoteOf[s] = Remote(b) /\ SessionInv(s)
              /\ State(s) = "INTEGRATING"
              /\ \A a \in Processes \ {b} : Working(a) => Subject(a) # s
<1>1. WorkInv /\ TypeInv /\ HandInv(b) /\ Apart(b) /\ b \in Processes
  BY DEF EvidenceInv, WorkInv, Processes
<1>2. Subject(b) \in Sessions /\ SessionInv(Subject(b))
  BY <1>1, BrokerFacts DEF EvidenceInv
<1> QED BY <1>1, <1>2, BrokerFacts DEF TypeInv, BrokerTypeOK, RecordTypeOK, Locals

\* The session of a broker that writes nothing.
LEMMA RestInv ==
  ASSUME TypeInv, NEW s \in Sessions, SessionInv(s),
         UNCHANGED <<journal, files, round, main, nextSha>>
  PROVE  SessionInv(s)'
<1>1. SameRecord(s) /\ GainsNo(RemoteOf[s], s, {files[s].pending})
  BY MainKept DEF SameRecord, GainsNo
<1>2. nextSha \in Nat
  BY DEF TypeInv, BrokerTypeOK
<1> QED BY <1>1, <1>2, SessionKept

\* A step from one check of the candidate to the next.
LEMMA AdvanceInv ==
  ASSUME EvidenceInv, WorkInv', NEW b \in Processes, NEW from, NEW to, At(b, from), Goes(b, to),
         <<from, to>> \in {<<"verify", "commit">>, <<"fetch", "phase">>, <<"phase", "push">>},
         UNCHANGED <<journal, files, round, main, nextSha>>
  PROVE  EvidenceInv'
<1>1. Working(b) /\ from \in OnCandidate /\ to \in Steps
  BY DEF At, Working, OnCandidate, Steps
<1>2. PICK s \in Sessions :
        /\ s = Subject(b) /\ RemoteOf[s] = Remote(b) /\ SessionInv(s)
        /\ \A a \in Processes \ {b} : Working(a) => Subject(a) # s
  BY <1>1, AtFacts
<1> DEFINE l == [br[b] EXCEPT !.pc = to]
<1>3. /\ l \in Locals /\ l.pc = to /\ l.session = s /\ l.sha = br[b].sha
      /\ l.base = br[b].base
  BY <1>1, <1>2, AtFacts DEF Locals, Subject
<1>4. br' = [br EXCEPT ![b] = l] /\ br'[b] = l
  BY <1>1, AtFacts DEF Goes
<1> HIDE DEF l
<1>5. SessionInv(s)'
  BY <1>1, <1>2, AtFacts, RestInv
<1>6. HandInv(b)'
  <2>1. /\ Subject(b)' = s /\ OnMain(Remote(b))' = OnMain(Remote(b)) /\ Identity(s)' = Identity(s)
        /\ files' = files /\ br'[b].pc = to /\ br'[b].sha = br[b].sha /\ nextSha' = nextSha
        /\ Remote(b)' = Remote(b) /\ br'[b].base = br[b].base
    BY <1>2, <1>3, <1>4, MainKept DEF Subject, Remote, Identity, OnMain
  <2>2. \A x : RoundCommit(s, x)' <=> RoundCommit(s, x)
    BY DEF RoundCommit
  <2>3. br[b].pc = from /\ HandInv(b)
    BY <1>1, AtFacts DEF At
  <2>4. Unlanded(b)' /\ Pushed(b)' /\ ReadBack(b)'
    BY <1>2, <2>1, <2>3 DEF HandInv, Unlanded, Pushed, ReadBack, OnCandidate
  <2>5. ShaNamed(b)'
    BY <1>2, <2>1, <2>2, <2>3 DEF HandInv, ShaNamed, WithSha
  <2> QED BY <2>4, <2>5 DEF HandInv
<1>7. l.pc \in WithSha => br[b].pc \in WithSha
  BY <1>3 DEF At, WithSha
<1> QED BY <1>1, <1>2, <1>3, <1>4, <1>5, <1>6, <1>7, MoveInv DEF LeavesOthers

LEMMA RetriesInv ==
  ASSUME EvidenceInv, WorkInv', NEW b \in Processes, Working(b), Retries(b),
         UNCHANGED <<files, round, main, nextSha>>
  PROVE  EvidenceInv'
<1>1. CASE Concludes(b, "CONFLICT")
  BY <1>1, ConcludesInv
<1>2. CASE ~Concludes(b, "CONFLICT")
  <2> DEFINE l == [Fresh("prepare", Subject(b)) EXCEPT !.try = 2]
  <2>1. br' = [br EXCEPT ![b] = l] /\ UNCHANGED journal
    BY <1>2 DEF Retries
  <2>2. PICK s \in Sessions :
          /\ s = Subject(b) /\ RemoteOf[s] = Remote(b) /\ SessionInv(s)
          /\ \A a \in Processes \ {b} : Working(a) => Subject(a) # s
    BY AtFacts
  <2>3. l \in Locals /\ l.pc = "prepare" /\ l.session = s
    BY <2>2 DEF Fresh, Locals, Steps
  <2> HIDE DEF l
  <2>4. SessionInv(s)'
    BY <2>1, <2>2, AtFacts, RestInv
  <2>5. br'[b].pc = "prepare"
    BY <2>1, <2>3, AtFacts
  <2>6. HandInv(b)' /\ l.pc \notin WithSha
    BY <2>3, <2>5 DEF HandInv, Unlanded, ShaNamed, Pushed, ReadBack, OnCandidate, WithSha
  <2> QED BY <2>1, <2>2, <2>3, <2>4, <2>6, MoveInv DEF LeavesOthers
<1> QED BY <1>1, <1>2

LEMMA PrepareInv ==
  ASSUME EvidenceInv, WorkInv', NEW b \in Processes, Prepare(b)
  PROVE  EvidenceInv'
<1>1. Working(b) /\ At(b, "prepare") /\ UNCHANGED <<files, round, main, nextSha>>
  BY DEF Prepare, At, Working, remoteVars
<1>2. CASE Concludes(b, "CONFLICT") \/ (Transition(Subject(b), "CONFLICT", NoIdentity) /\ Ends(b))
  BY <1>1, <1>2, ConcludesInv, ConcludeInv
<1>3. CASE /\ ~PathsetDiffers(b)
           /\ br' = [br EXCEPT ![b] = [@ EXCEPT !.pc = "verify", !.base = Len(main[Remote(b)])]]
           /\ UNCHANGED <<journal, lock>>
  <2> DEFINE l == [br[b] EXCEPT !.pc = "verify", !.base = Len(main[Remote(b)])]
  <2>1. PICK s \in Sessions :
          /\ s = Subject(b) /\ RemoteOf[s] = Remote(b) /\ SessionInv(s)
          /\ \A a \in Processes \ {b} : Working(a) => Subject(a) # s
    BY <1>1, AtFacts
  <2>2. br'[b] = l /\ br'[b] \in Locals
    BY <1>1, <1>3, AtFacts DEF WorkInv, TypeInv, BrokerTypeOK
  <2>3. l.pc = "verify" /\ l.session = s
    BY <1>1, <2>1, AtFacts DEF Subject, Locals
  <2>4. br' = [br EXCEPT ![b] = l]
    BY <1>3
  <2> HIDE DEF l
  <2>5. SessionInv(s)'
    BY <1>1, <1>3, <2>1, AtFacts, RestInv
  <2>6. HandInv(b)'
    <3>1. /\ Subject(b)' = s /\ OnMain(Remote(b))' = Here(s) /\ Identity(s)' = Identity(s)
          /\ br'[b].pc = "verify"
      BY <1>1, <1>3, <2>1, <2>2, <2>3, MainKept DEF Subject, Remote, Identity, OnMain, Here
    <3>2. \A x \in Here(s) : ~(x.session = s /\ x.content = Identity(s))
      BY <1>3, <2>1 DEF PathsetDiffers, Landed, Here, OnMain
    <3> QED BY <3>1, <3>2 DEF HandInv, Unlanded, ShaNamed, Pushed, ReadBack, WithSha
  <2>7. l.pc \notin WithSha
    BY <2>3 DEF WithSha
  <2> QED BY <1>1, <1>3, <2>1, <2>2, <2>3, <2>4, <2>5, <2>6, <2>7, MoveInv DEF LeavesOthers
<1> QED BY <1>2, <1>3 DEF Prepare

\* The manifest of a new candidate, under a sha nobody has.
LEMMA CommitInv ==
  ASSUME EvidenceInv, WorkInv', NEW b \in Processes, Commit(b)
  PROVE  EvidenceInv'
<1>1. Working(b) /\ br[b].pc = "commit" /\ UNCHANGED <<round, main>>
  BY DEF Commit, At, Working
<1>2. CASE Concludes(b, "CONFLICT") /\ UNCHANGED <<files, nextSha>>
  BY <1>1, <1>2, ConcludesInv
<1>3. CASE /\ br' = [br EXCEPT ![b] = [@ EXCEPT !.pc = "pending", !.sha = nextSha]]
           /\ nextSha' = nextSha + 1
           /\ files' = [files EXCEPT ![Subject(b)].manifest = nextSha]
           /\ UNCHANGED <<journal, lock>>
  <2>1. PICK s \in Sessions :
          /\ s = Subject(b) /\ RemoteOf[s] = Remote(b) /\ SessionInv(s) /\ State(s) = "INTEGRATING"
          /\ \A a \in Processes \ {b} : Working(a) => Subject(a) # s
    BY <1>1, AtFacts
  <2>2. /\ br'[b].pc = "pending" /\ br'[b].sha = nextSha /\ br'[b].session = s
        /\ \A a \in Processes \ {b} : br'[a] = br[a]
    BY <1>1, <1>3, <2>1, AtFacts DEF Subject, Processes, Locals
  <2>3. /\ files'[s].manifest = nextSha /\ files'[s].pending = files[s].pending
        /\ files'[s].ack = files[s].ack /\ files'[s].delivered = files[s].delivered
        /\ \A t \in Sessions \ {s} : files'[t] = files[t]
    BY <1>1, <1>3, <2>1, AtFacts DEF EvidenceFiles
  <2>4. /\ files[s].pending \in Nat /\ files[s].pending < nextSha /\ nextSha \in Nat /\ 0 < nextSha
        /\ TypeInv /\ RemoteOf[s] \in Remotes
    BY <1>1, <2>1, AtFacts, SessionFacts DEF SessionInv, EvidenceFiles
  <2>5. \A x \in Here(s) : ~(x.session = s /\ x.content = Identity(s)) /\ x.sha # nextSha
    <3>1. \A x \in Here(s) : ~(x.session = s /\ x.content = Identity(s))
      BY <1>1, <2>1, AtFacts DEF HandInv, Unlanded, OnCandidate, Here
    <3>2. \A x \in Here(s) : x.sha < nextSha /\ x.sha \in Nat
      BY <2>4, SessionFacts DEF EvidenceInv, MainInv, Here, Commits
    <3> QED BY <2>4, <3>1, <3>2
  <2>6. SessionInv(s)'
    BY <1>1, <1>3, <2>1, <2>3, <2>4, <2>5, SessionNamed
  <2>7. HandInv(b)'
    <3>1. /\ Subject(b)' = s /\ OnMain(Remote(b))' = Here(s) /\ Identity(s)' = Identity(s)
      BY <1>1, <1>3, <2>1, <2>2, MainKept DEF Subject, Remote, Identity, OnMain, Here
    <3> QED BY <1>3, <2>2, <2>3, <2>4, <2>5, <3>1
            DEF HandInv, Unlanded, ShaNamed, Pushed, ReadBack
  <2>8. ASSUME NEW a \in Processes PROVE Apart(a)'
    <3> SUFFICES ASSUME br'[a].pc \in WithSha
                 PROVE  /\ \A t \in Sessions \ {br'[a].session} : files'[t].pending # br'[a].sha
                        /\ \A c \in Processes \ {a} :
                             br'[c].pc \in WithSha => br'[c].sha # br'[a].sha
      BY DEF Apart, Subject
    <3>1. \A t \in Sessions : files'[t].pending = files[t].pending
      BY <2>3
    <3>2. \A t \in Sessions : files[t].pending # nextSha
      <4>1. \A t \in Sessions : files[t].pending \in Nat /\ files[t].pending < nextSha
        BY <2>4, SessionFacts DEF EvidenceInv, SessionInv, EvidenceFiles
      <4> QED BY <2>4, <4>1
    <3>3. \A c \in Processes \ {b} : br'[c].pc \in WithSha => br'[c].sha # nextSha
      <4>1. \A c \in Processes : br[c].pc \in WithSha => br[c].sha \in Nat /\ br[c].sha < nextSha
        <5>1. \A c \in Processes : br[c].pc \in WithSha => Working(c)
          BY DEF WithSha, Working
        <5> QED BY <5>1, AtFacts DEF HandInv, ShaNamed
      <4> QED BY <2>2, <2>4, <4>1
    <3>4. CASE a = b
      BY <2>2, <3>1, <3>2, <3>3, <3>4
    <3>5. CASE a # b
      BY <2>2, <3>1, <3>3, <3>5 DEF EvidenceInv, Apart, Subject
    <3> QED BY <3>4, <3>5
  <2>9. Only(s) /\ OnlyBroker(b)
    BY <1>1, <1>3, <2>2, <2>3 DEF Only, SameRecord, OnlyBroker
  <2>10. nextSha' \in Nat /\ nextSha <= nextSha'
    BY <1>3, <2>4
  <2> QED BY <1>1, <2>1, <2>6, <2>7, <2>8, <2>9, <2>10, WorkStep
<1> QED BY <1>2, <1>3 DEF Commit

\* The write-ahead: pending-sha before anything can reach the remote.
LEMMA WritePendingInv ==
  ASSUME EvidenceInv, WorkInv', NEW b \in Processes, WritePending(b)
  PROVE  EvidenceInv'
<1>1. /\ Working(b) /\ br[b].pc = "pending" /\ UNCHANGED <<journal, round, main, nextSha>>
      /\ files' = [files EXCEPT ![Subject(b)].pending = br[b].sha] /\ Goes(b, "fetch")
  BY DEF WritePending, At, Working, remoteVars
<1>2. PICK s \in Sessions :
        /\ s = Subject(b) /\ RemoteOf[s] = Remote(b) /\ SessionInv(s) /\ State(s) = "INTEGRATING"
        /\ \A a \in Processes \ {b} : Working(a) => Subject(a) # s
  BY <1>1, AtFacts
<1>3. /\ br'[b].pc = "fetch" /\ br'[b].sha = br[b].sha /\ br'[b].session = s
      /\ \A a \in Processes \ {b} : br'[a] = br[a]
  BY <1>1, <1>2, AtFacts DEF Goes, Subject, Processes, Locals
<1>4. /\ files'[s].manifest = files[s].manifest /\ files'[s].pending = br[b].sha
      /\ files'[s].ack = files[s].ack /\ files'[s].delivered = files[s].delivered
      /\ \A t \in Sessions \ {s} : files'[t] = files[t]
  BY <1>1, <1>2, AtFacts DEF EvidenceFiles
<1>5. /\ br[b].sha \in Nat /\ nextSha \in Nat /\ 0 < br[b].sha /\ br[b].sha < nextSha
      /\ files[s].manifest = br[b].sha /\ TypeInv
      /\ \A x \in Here(s) : ~(x.session = s /\ x.content = Identity(s)) /\ x.sha # br[b].sha
  BY <1>1, <1>2, AtFacts DEF HandInv, Unlanded, ShaNamed, OnCandidate, WithSha, Here
<1>6. SessionInv(s)'
  BY <1>1, <1>2, <1>4, <1>5, SessionNamed
<1>7. HandInv(b)'
  <2>1. /\ Subject(b)' = s /\ OnMain(Remote(b))' = Here(s) /\ Identity(s)' = Identity(s)
    BY <1>1, <1>2, <1>3, MainKept DEF Subject, Remote, Identity, OnMain, Here
  <2> QED BY <1>1, <1>3, <1>4, <1>5, <2>1 DEF HandInv, Unlanded, ShaNamed, Pushed, ReadBack
<1>8. ASSUME NEW a \in Processes PROVE Apart(a)'
  <2> SUFFICES ASSUME br'[a].pc \in WithSha
               PROVE  /\ \A t \in Sessions \ {br'[a].session} : files'[t].pending # br'[a].sha
                      /\ \A c \in Processes \ {a} : br'[c].pc \in WithSha => br'[c].sha # br'[a].sha
    BY DEF Apart, Subject
  <2>1. /\ br[a].pc \in WithSha /\ br'[a].sha = br[a].sha /\ br'[a].session = Subject(a)
        /\ \A c \in Processes :
             br'[c].pc \in WithSha => br[c].pc \in WithSha /\ br'[c].sha = br[c].sha
    BY <1>1, <1>2, <1>3 DEF WithSha, Subject
  <2>2. Apart(a)
    BY DEF EvidenceInv
  <2>3. \A c \in Processes \ {a} : br'[c].pc \in WithSha => br'[c].sha # br'[a].sha
    BY <2>1, <2>2 DEF Apart
  <2>4. ASSUME NEW t \in Sessions, t # Subject(a) PROVE files'[t].pending # br[a].sha
    <3>1. CASE t # s
      BY <1>4, <2>1, <2>2, <2>4, <3>1 DEF Apart
    <3>2. CASE t = s
      <4>1. a # b
        BY <1>2, <2>4, <3>2
      <4> QED BY <1>1, <1>4, <2>1, <2>2, <3>2, <4>1 DEF Apart, WithSha
    <3> QED BY <3>1, <3>2
  <2> QED BY <2>1, <2>3, <2>4
<1>9. Only(s) /\ OnlyBroker(b)
  BY <1>1, <1>3, <1>4 DEF Only, SameRecord, OnlyBroker
<1>10. nextSha' \in Nat /\ nextSha <= nextSha'
  BY <1>1, <1>5
<1> QED BY <1>1, <1>2, <1>6, <1>7, <1>8, <1>9, <1>10, WorkStep

\* What an accepted push puts on main: a commit under the sha the files name, of a
\* submission that main does not hold.
LEMMA LandFacts ==
  ASSUME EvidenceInv, NEW b \in Processes, At(b, "push"), Accepts(b), NEW s \in Sessions,
         s = Subject(b), UNCHANGED <<journal, files, round, nextSha>>
  PROVE  \E x \in Commits :
           /\ main' = [main EXCEPT ![RemoteOf[s]] = Append(@, x)]
           /\ x.session = s /\ x.sha = br[b].sha /\ Proof(s, x)
           /\ Here(s)' = Here(s) \cup {x}
           /\ \A y \in Here(s) : ~(y.session = s /\ y.content = x.content)
           /\ SessionInv(s)'
           /\ br[b].base < Len(main'[RemoteOf[s]])
<1>1. Working(b) /\ br[b].pc = "push"
  BY DEF At, Working
<1>2. /\ WorkInv /\ TypeInv /\ HandInv(b) /\ SessionInv(s) /\ RemoteOf[s] = Remote(b)
      /\ State(s) = "INTEGRATING" /\ b \in Processes /\ br[b] \in Locals
  BY <1>1, AtFacts
<1> DEFINE x == Contribution(b)
<1>3. /\ Remote(b) \in Remotes /\ Len(main[Remote(b)]) = br[b].base
      /\ main' = [main EXCEPT ![RemoteOf[s]] = Append(@, x)]
  BY <1>1, <1>2, AcceptsGrows
<1>4. x.session = s /\ x.sha = br[b].sha /\ x.content = Identity(s) /\ x.round = round[s]
  BY DEF Contribution
<1>5. x \in Commits
  BY <1>1, <1>2, IdentityType
     DEF Contribution, Commits, TypeInv, BrokerTypeOK, RecordTypeOK, Locals, Identities
<1> HIDE DEF x
<1>6. Here(s)' = Here(s) \cup {x}
  <2>1. main \in [Remotes -> Seq(Commits)] /\ RemoteOf[s] \in Remotes
    BY <1>2, <1>3 DEF TypeInv, BrokerTypeOK
  <2> QED BY <1>3, <1>5, <2>1, MainAppend DEF Here
<1>7. \A y \in Here(s) : ~(y.session = s /\ y.content = Identity(s))
  <2>1. br[b].base \in Nat
    BY <1>2 DEF Locals
  <2> QED BY <1>1, <1>2, <1>3, <2>1 DEF HandInv, Unlanded, OnCandidate, Here
<1>8. \A y \in Here(s) : ~RoundCommit(s, y)
  BY <1>2, <1>7 DEF SessionInv, Named, RoundCommit, Live
<1>9. /\ files[s].pending = br[b].sha /\ files[s].manifest = br[b].sha /\ br[b].sha # 0
  BY <1>1, <1>2 DEF HandInv, ShaNamed, WithSha
<1>10. files[s].ack = 0
  BY <1>2, <1>8 DEF SessionInv, Acked, Live
<1>11. Proof(s, x) /\ RoundCommit(s, x)
  BY <1>4 DEF Proof, RoundCommit
<1>12. SessionInv(s)'
  <2>1. State(s)' = State(s) /\ Identity(s)' = Identity(s)
    BY DEF State, Identity
  <2>2. \A y : RoundCommit(s, y)' <=> RoundCommit(s, y)
    BY DEF RoundCommit
  <2>3. round[s] \in Nat
    BY <1>2 DEF TypeInv, BrokerTypeOK, RecordTypeOK
  <2>4. RoundsOK(s)'
    BY <1>2, <1>4, <1>6, <2>3 DEF SessionInv, RoundsOK
  <2> QED BY <1>2, <1>4, <1>6, <1>8, <1>9, <1>10, <1>11, <2>1, <2>2, <2>4
          DEF SessionInv, Clean, Named, Mine, Acked, Proven
<1>13. br[b].base < Len(main'[RemoteOf[s]])
  <2>1. main \in [Remotes -> Seq(Commits)] /\ RemoteOf[s] \in Remotes
    BY <1>2, <1>3 DEF TypeInv, BrokerTypeOK
  <2>2. Len(main'[RemoteOf[s]]) = Len(main[RemoteOf[s]]) + 1 /\ Len(main[RemoteOf[s]]) \in Nat
    BY <1>3, <1>5, <2>1, MainAppend
  <2> QED BY <1>2, <1>3, <2>2
<1> QED BY <1>3, <1>4, <1>5, <1>6, <1>7, <1>11, <1>12, <1>13

\* The push, with its answer or without.
LEMMA PushInv ==
  ASSUME EvidenceInv, WorkInv', NEW b \in Processes, Push(b)
  PROVE  EvidenceInv'
<1>1. Working(b) /\ At(b, "push") /\ br[b].pc = "push" /\ UNCHANGED <<files, round, nextSha>>
  BY DEF Push, At, Working
<1>2. CASE Retries(b) /\ UNCHANGED <<main, faults>>
  BY <1>1, <1>2, RetriesInv
<1>3. CASE /\ Accepts(b) /\ UNCHANGED journal
           /\ Goes(b, "ack") \/ UNCHANGED br
  <2>1. PICK s \in Sessions :
          /\ s = Subject(b) /\ RemoteOf[s] = Remote(b)
          /\ \A a \in Processes \ {b} : Working(a) => Subject(a) # s
    BY <1>1, AtFacts
  <2>2. PICK x \in Commits :
          /\ main' = [main EXCEPT ![RemoteOf[s]] = Append(@, x)]
          /\ x.session = s /\ x.sha = br[b].sha /\ Proof(s, x)
          /\ Here(s)' = Here(s) \cup {x}
          /\ SessionInv(s)' /\ br[b].base < Len(main'[RemoteOf[s]])
    BY <1>1, <1>3, <2>1, LandFacts
  <2>3. /\ br'[b].pc \in {"ack", "push"} /\ br'[b].sha = br[b].sha /\ br'[b].session = s
        /\ \A a \in Processes \ {b} : br'[a] = br[a]
    BY <1>1, <1>3, <2>1, AtFacts DEF Goes, Subject, Processes, Locals
  <2>4. HandInv(b)'
    <3>1. /\ Subject(b)' = s /\ OnMain(Remote(b))' = Here(s) \cup {x}
          /\ Identity(s)' = Identity(s) /\ files' = files /\ nextSha' = nextSha
      <4>1. Subject(b)' = s /\ Remote(b)' = RemoteOf[s]
        BY <2>3 DEF Subject, Remote
      <4>2. OnMain(Remote(b))' = Here(s)'
        BY <4>1 DEF OnMain, Here
      <4> QED BY <1>1, <1>3, <2>2, <4>1, <4>2 DEF Identity
    <3>2. \A y : (RoundCommit(s, y)' <=> RoundCommit(s, y)) /\ (Proof(s, y)' <=> Proof(s, y))
      BY <1>1, <3>1 DEF RoundCommit, Proof
    <3>3. Pushed(b)'
      BY <2>2, <2>3, <3>1, <3>2 DEF Pushed
    <3>4. ShaNamed(b)'
      BY <1>1, <2>1, <2>2, <2>3, <3>1, <3>2, AtFacts DEF HandInv, ShaNamed, WithSha, Proof, Here
    <3>5. Unlanded(b)'
      <4>1. br'[b].pc = "push" => br'[b].base = br[b].base
        BY <1>3, <1>1, AtFacts DEF Goes, Locals
      <4>2. Remote(b)' = RemoteOf[s]
        BY <2>3 DEF Remote, Subject
      <4> QED BY <2>2, <2>3, <4>1, <4>2 DEF Unlanded, OnCandidate
    <3> QED BY <2>3, <3>3, <3>4, <3>5 DEF HandInv, ReadBack
  <2>5. \A a \in Processes : Apart(a)'
    <3>1. \A a \in Processes : br'[a].pc \in WithSha =>
            br[a].pc \in WithSha /\ br'[a].sha = br[a].sha /\ br'[a].session = br[a].session
      BY <1>1, <2>1, <2>3 DEF WithSha, Subject
    <3> QED BY <1>1, <3>1, ApartKept
  <2>6. Only(s) /\ OnlyBroker(b) /\ nextSha' \in Nat /\ nextSha <= nextSha'
    BY <1>1, <1>3, <2>3, AtFacts DEF Only, SameRecord, OnlyBroker
  <2> QED BY <1>1, <2>1, <2>2, <2>4, <2>5, <2>6, WorkStep
<1> QED BY <1>2, <1>3 DEF Push

\* The answer, once it is there, names the commit on main.
LEMMA AcknowledgeInv ==
  ASSUME EvidenceInv, WorkInv', NEW b \in Processes, Acknowledge(b)
  PROVE  EvidenceInv'
<1>1. /\ Working(b) /\ br[b].pc = "ack" /\ UNCHANGED <<journal, round, main, nextSha>>
      /\ files' = [files EXCEPT ![Subject(b)].ack = br[b].sha] /\ Goes(b, "readback")
  BY DEF Acknowledge, At, Working, remoteVars
<1>2. PICK s \in Sessions :
        /\ s = Subject(b) /\ RemoteOf[s] = Remote(b) /\ SessionInv(s) /\ State(s) = "INTEGRATING"
        /\ \A a \in Processes \ {b} : Working(a) => Subject(a) # s
  BY <1>1, AtFacts
<1>3. /\ br'[b].pc = "readback" /\ br'[b].sha = br[b].sha /\ br'[b].session = s
      /\ \A a \in Processes \ {b} : br'[a] = br[a]
  BY <1>1, <1>2, AtFacts DEF Goes, Subject, Processes, Locals
<1>4. /\ files'[s].manifest = files[s].manifest /\ files'[s].pending = files[s].pending
      /\ files'[s].ack = br[b].sha /\ files'[s].delivered = files[s].delivered
      /\ \A t \in Sessions \ {s} : files'[t] = files[t]
  BY <1>1, <1>2, AtFacts DEF EvidenceFiles
<1>5. PICK y \in Here(s) : y.sha = br[b].sha /\ Proof(s, y)
  BY <1>1, <1>2, AtFacts DEF HandInv, Pushed, Here
<1>6. Here(s)' = Here(s) /\ State(s)' = State(s) /\ Identity(s)' = Identity(s)
      /\ \A x : (RoundCommit(s, x)' <=> RoundCommit(s, x)) /\ (Proof(s, x)' <=> Proof(s, x))
  BY <1>1, MainKept DEF Here, State, Identity, RoundCommit, Proof
<1>7. SessionInv(s)'
  BY <1>1, <1>2, <1>4, <1>5, <1>6
     DEF SessionInv, RoundsOK, Clean, Named, Mine, Acked, Proven, Proof, Live
<1>8. HandInv(b)'
  <2>1. Subject(b)' = s /\ OnMain(Remote(b))' = Here(s)
    BY <1>1, <1>2, <1>3, MainKept DEF Subject, Remote, Here, OnMain
  <2> QED BY <1>3, <1>5, <1>6, <2>1
          DEF HandInv, Unlanded, ShaNamed, Pushed, ReadBack, OnCandidate, WithSha
<1>9. \A a \in Processes : Apart(a)'
  <2>1. \A a \in Processes : br'[a].pc \in WithSha => br'[a] = br[a]
    BY <1>3 DEF WithSha
  <2>2. \A t \in Sessions : files'[t].pending = files[t].pending
    BY <1>4
  <2> QED BY <2>1, <2>2, ApartKept
<1>10. Only(s) /\ OnlyBroker(b) /\ nextSha' \in Nat /\ nextSha <= nextSha'
  BY <1>1, <1>3, <1>4, AtFacts DEF Only, SameRecord, OnlyBroker
<1> QED BY <1>1, <1>2, <1>7, <1>8, <1>9, <1>10, WorkStep

\* The evidence of delivery names the commit that was read back.
LEMMA ReadbackInv ==
  ASSUME EvidenceInv, WorkInv', NEW b \in Processes, Readback(b)
  PROVE  EvidenceInv'
<1>1. Working(b) /\ br[b].pc = "readback" /\ UNCHANGED <<round, main, nextSha>>
  BY DEF Readback, At, Working, remoteVars
<1>2. CASE Concludes(b, "CONFLICT") /\ UNCHANGED files
  BY <1>1, <1>2, ConcludesInv
<1>3. CASE /\ files' = [files EXCEPT ![Subject(b)].delivered = br[b].sha]
           /\ Goes(b, "deliver") /\ UNCHANGED journal
  <2>1. PICK s \in Sessions :
          /\ s = Subject(b) /\ RemoteOf[s] = Remote(b) /\ SessionInv(s) /\ State(s) = "INTEGRATING"
          /\ \A a \in Processes \ {b} : Working(a) => Subject(a) # s
    BY <1>1, AtFacts
  <2>2. /\ br'[b].pc = "deliver" /\ br'[b].session = s
        /\ \A a \in Processes \ {b} : br'[a] = br[a]
    BY <1>1, <1>3, <2>1, AtFacts DEF Goes, Subject, Processes, Locals
  <2>3. /\ files'[s].manifest = files[s].manifest /\ files'[s].pending = files[s].pending
        /\ files'[s].ack = files[s].ack /\ files'[s].delivered = br[b].sha
        /\ \A t \in Sessions \ {s} : files'[t] = files[t]
    BY <1>1, <1>3, <2>1, AtFacts DEF EvidenceFiles
  <2>4. PICK y \in Here(s) : y.sha = br[b].sha /\ Proof(s, y)
    BY <1>1, <2>1, AtFacts DEF HandInv, Pushed, Here
  <2>5. Here(s)' = Here(s) /\ State(s)' = State(s) /\ Identity(s)' = Identity(s)
        /\ \A x : (RoundCommit(s, x)' <=> RoundCommit(s, x)) /\ (Proof(s, x)' <=> Proof(s, x))
    BY <1>1, <1>3, MainKept DEF Here, State, Identity, RoundCommit, Proof
  <2>6. SessionInv(s)'
    BY <1>1, <2>1, <2>3, <2>5 DEF SessionInv, RoundsOK, Clean, Named, Mine, Acked, Proven
  <2>7. HandInv(b)'
    <3>1. Subject(b)' = s /\ OnMain(Remote(b))' = Here(s)
      BY <1>1, <2>1, <2>2, MainKept DEF Subject, Remote, Here, OnMain
    <3> QED BY <2>2, <2>3, <2>4, <2>5, <3>1
            DEF HandInv, Unlanded, ShaNamed, Pushed, ReadBack, OnCandidate, WithSha
  <2>8. \A a \in Processes : Apart(a)'
    <3>1. \A a \in Processes : br'[a].pc \in WithSha => br'[a] = br[a]
      BY <2>2 DEF WithSha
    <3>2. \A t \in Sessions : files'[t].pending = files[t].pending
      BY <2>3
    <3> QED BY <3>1, <3>2, ApartKept
  <2>9. Only(s) /\ OnlyBroker(b) /\ nextSha' \in Nat /\ nextSha <= nextSha'
    BY <1>1, <1>3, <2>2, <2>3, AtFacts DEF Only, SameRecord, OnlyBroker
  <2> QED BY <1>1, <2>1, <2>6, <2>7, <2>8, <2>9, WorkStep
<1> QED BY <1>2, <1>3 DEF Readback

-----------------------------------------------------------------------------
(* Every step *)

LEMMA BrokerStepInv ==
  ASSUME EvidenceInv, WorkInv', NEW b \in Processes, BrokerStep(b)
  PROVE  EvidenceInv'
<1>1. CASE OriginConflict(b)
  BY <1>1, ConcludesInv DEF OriginConflict, At, Working, remoteVars
<1>2. CASE Prepare(b)
  BY <1>2, PrepareInv
<1>3. CASE Verify(b)
  <2>1. /\ Working(b) /\ At(b, "verify") /\ UNCHANGED <<files, round, main, nextSha>>
        /\ \/ Goes(b, "commit") /\ UNCHANGED journal
           \/ Concludes(b, "CONFLICT") \/ Concludes(b, "SUBMITTED")
    BY <1>3 DEF Verify, At, Working, remoteVars
  <2> QED BY <2>1, AdvanceInv, ConcludesInv
<1>4. CASE Commit(b)
  BY <1>4, CommitInv
<1>5. CASE WritePending(b)
  BY <1>5, WritePendingInv
<1>6. CASE Fetch(b)
  <2>1. /\ Working(b) /\ At(b, "fetch") /\ UNCHANGED <<files, round, main, nextSha>>
        /\ (Goes(b, "phase") /\ UNCHANGED journal) \/ Retries(b)
    BY <1>6 DEF Fetch, At, Working, remoteVars
  <2> QED BY <2>1, AdvanceInv, RetriesInv
<1>7. CASE EnterPublishing(b)
  <2>1. /\ Working(b) /\ At(b, "phase") /\ UNCHANGED <<files, round, main, nextSha>>
        /\ (Goes(b, "push") /\ UNCHANGED journal) \/ Concludes(b, "CONFLICT")
    BY <1>7 DEF EnterPublishing, At, Working, remoteVars
  <2> QED BY <2>1, AdvanceInv, ConcludesInv
<1>8. CASE Push(b)
  BY <1>8, PushInv
<1>9. CASE Acknowledge(b)
  BY <1>9, AcknowledgeInv
<1>10. CASE Readback(b)
  BY <1>10, ReadbackInv
<1>11. CASE Deliver(b)
  BY <1>11, DeliverInv
<1> QED BY <1>1, <1>2, <1>3, <1>4, <1>5, <1>6, <1>7, <1>8, <1>9, <1>10, <1>11 DEF BrokerStep

\* A session whose lane is free is in nobody's hands.
LanesApart ==
  \A s \in Sessions : LaneOpen(s) => \A a \in Processes : Working(a) => Subject(a) # s

LEMMA LaneFacts == HandedInv => LanesApart
<1> SUFFICES ASSUME HandedInv, NEW s \in Sessions, LaneOpen(s),
                    NEW a \in Processes, Working(a), Subject(a) = s
             PROVE  FALSE
  BY DEF LanesApart
<1>1. a \in Brokers /\ Busy(a)
  BY DEF HandedInv, WorkersIdle, Working, Busy, Processes
<1> QED BY <1>1, BrokerAssumption DEF HandedInv, LaneHeld, LaneOpen, Processes

\* Without a queue, the lane gives every process its session to itself.
LEMMA HandedWork == HandedInv => WorkInv
<1> SUFFICES ASSUME HandedInv PROVE WorkInv
  OBVIOUS
<1>1. \A b \in Processes : Working(b) => b \in Brokers /\ Busy(b)
  BY DEF HandedInv, WorkersIdle, Working, Busy, Processes
<1>2. Integrating
  BY <1>1 DEF HandedInv, BusyIntegrating, Integrating
<1>3. OneEach
  BY <1>1 DEF HandedInv, LaneHeld, OneEach
<1> QED BY <1>2, <1>3 DEF WorkInv, HandedInv

LEMMA EvidenceInit == ASSUME Init PROVE EvidenceInv
<1>1. WorkInv
  BY HandedInit, HandedWork
<1>2. \A r \in Remotes : OnMain(r) = {}
  BY DEF Init, BrokerInit, OnMain
<1>3. \A s \in Sessions : RemoteOf[s] \in Remotes
  BY BrokerAssumption
<1>4. \A s \in Sessions : Here(s) = {}
  BY <1>2, <1>3 DEF Here
<1>5. /\ nextSha = 1
      /\ \A s \in Sessions : State(s) = "OPEN" /\ files[s] = NoEvidence(0)
  BY DEF Init, RecordInit, BrokerInit, State
<1>6. ASSUME NEW s \in Sessions PROVE SessionInv(s)
  <2>1. files[s] = NoEvidence(0) /\ State(s) = "OPEN" /\ Here(s) = {} /\ nextSha = 1
    BY <1>4, <1>5
  <2>2. files[s].pending = 0 /\ files[s].manifest = 0 /\ files[s].ack = 0
    BY <2>1 DEF NoEvidence
  <2>3. RoundsOK(s) /\ Clean(s) /\ Named(s) /\ Proven(s)
    BY <2>1, <2>2 DEF RoundsOK, Clean, Named, Proven
  <2>4. Mine(s) /\ Acked(s)
    BY <2>2 DEF Mine, Acked
  <2> QED BY <2>1, <2>2, <2>3, <2>4 DEF SessionInv
<1>7. \A b \in Processes : br[b].pc = "idle"
  BY DEF Init, BrokerInit, Idle, Fresh, Processes
<1>8. \A b \in Processes : HandInv(b) /\ Apart(b)
  BY <1>7 DEF HandInv, Apart, Unlanded, ShaNamed, Pushed, ReadBack, OnCandidate, WithSha
<1> QED BY <1>1, <1>2, <1>6, <1>8 DEF EvidenceInv, MainInv

\* Every step of a system in which free lanes keep sessions apart keeps the evidence.
LEMMA EvidenceStep ==
  ASSUME EvidenceInv, LanesApart, WorkInv', [Next]_allVars
  PROVE  EvidenceInv'
<1>1. TypeInv
  BY DEF EvidenceInv, WorkInv
<1>2. CASE OwnerStep /\ UNCHANGED brokerVars
  BY <1>2, OwnerInv DEF brokerVars
<1>3. ASSUME NEW b \in Brokers, NEW s \in Sessions, Integrate(b, s) \/ Recover(b, s)
      PROVE  EvidenceInv'
  <2>1. b \in Processes /\ ~Working(b) /\ LaneOpen(s) /\ UNCHANGED <<round, main, nextSha>>
    BY <1>3 DEF Integrate, Recover, TakesLane, Processes, Busy, Working, remoteVars
  <2>2. \A a \in Processes : Working(a) => Subject(a) # s
    BY <2>1 DEF LanesApart
  <2>3. Idle.pc = "idle"
    BY DEF Idle, Fresh
  <2>4. CASE Integrate(b, s)
    BY <2>1, <2>2, <2>4, EnterInv DEF Integrate
  <2>5. CASE Recover(b, s)
    BY <2>1, <2>2, <2>3, <2>5, ReconcileInv DEF Recover
  <2> QED BY <1>3, <2>4, <2>5
<1>4. CASE \E s \in Sessions : LaneStep(s)
  BY <1>4, LaneInv DEF LaneStep, brokerVars
<1>5. ASSUME NEW b \in Brokers, BrokerStep(b) \/ Stop(b)
      PROVE  EvidenceInv'
  <2>1. b \in Processes /\ (Stop(b) => Working(b))
    BY <1>1, <1>5 DEF Processes, Stop, TypeInv, SubjectsOK
  <2> QED BY <1>5, <2>1, BrokerStepInv, StopInv
<1>6. CASE \E r \in Remotes : OtherPush(r)
  BY <1>6, ForeignStep
<1>7. CASE UNCHANGED allVars \/ \E s \in Sessions : RenameOrigin(s)
  <2>1. UNCHANGED <<journal, files, round, br, main, nextSha>>
    BY <1>7 DEF RenameOrigin, allVars, recordVars, brokerVars, remoteVars
  <2> QED BY <2>1, IdleInv
<1> QED BY <1>2, <1>3, <1>4, <1>5, <1>6, <1>7 DEF Next, Environment

LEMMA EvidenceAlways == Spec => [](HandedInv /\ EvidenceInv)
<1>1. Init => HandedInv /\ EvidenceInv
  BY HandedInit, EvidenceInit
<1>2. ASSUME HandedInv, EvidenceInv, [Next]_allVars
      PROVE  HandedInv' /\ EvidenceInv'
  <2>1. HandedInv'
    BY <1>2, HandedStep
  <2>2. WorkInv'
    BY <2>1, HandedWork, PTL
  <2> QED BY <1>2, <2>1, <2>2, LaneFacts, EvidenceStep
<1> QED BY <1>1, <1>2, PTL DEF Spec

-----------------------------------------------------------------------------
(* Theorems *)

\* As long as the outcome of a push is open, pending-sha and the manifest name what
\* was pushed and no acknowledgement contradicts them: both are written before the
\* push, and no later attempt gets past the pathset check.
THEOREM EvidenceIsAhead == Spec => []WriteAhead
<1>1. EvidenceInv => WriteAhead
  BY DEF EvidenceInv, SessionInv, Named, WriteAhead, Here, OnMain, Live
<1> QED BY <1>1, EvidenceAlways, PTL

\* What recovery judges by says neither more nor less than main.
LEMMA RecoveryFacts == EvidenceInv => RecoveryExact
<1> SUFFICES ASSUME EvidenceInv, NEW s \in Sessions, State(s) = "INTEGRATING", s \notin renamed
             PROVE  RecoveryVerdict(s) = "DELIVERED" <=> RoundLanded(s)
  BY DEF RecoveryExact
<1>1. SessionInv(s) /\ TypeInv /\ RemoteOf[s] \in Remotes
  BY SessionFacts DEF EvidenceInv, WorkInv
<1>2. RoundLanded(s) <=> \E x \in Here(s) : RoundCommit(s, x)
  BY DEF RoundLanded, Here, OnMain
<1>3. \A n : Ancestor(s, n) <=> \E x \in Here(s) : x.sha = n
  BY DEF Ancestor, Here, OnMain
<1>4. ASSUME RecoveryVerdict(s) = "DELIVERED" PROVE RoundLanded(s)
  <2>1. files[s].pending # 0 /\ Ancestor(s, files[s].pending)
    BY <1>4 DEF RecoveryVerdict, ProofUsable
  <2> QED BY <1>1, <1>2, <1>3, <2>1 DEF SessionInv, Mine, Live
<1>5. ASSUME RoundLanded(s) PROVE RecoveryVerdict(s) = "DELIVERED"
  <2>1. PICK x \in Here(s) : RoundCommit(s, x)
    BY <1>2, <1>5
  <2>2. files[s].pending = x.sha /\ files[s].manifest = x.sha /\ files[s].ack \in {0, x.sha}
    BY <1>1, <2>1 DEF SessionInv, Named, Live
  <2>3. x.sha # 0
    <3>1. 0 < x.sha
      BY <1>1 DEF EvidenceInv, MainInv, Here
    <3> QED BY <3>1
  <2>4. ProofUsable(s) /\ Ancestor(s, files[s].pending)
    BY <1>3, <2>2, <2>3 DEF ProofUsable
  <2> QED BY <2>2, <2>4 DEF RecoveryVerdict
<1> QED BY <1>4, <1>5

\* recover_unlocked says DELIVERED exactly when the submission is on main, wherever
\* the broker stopped and whoever else pushed.
THEOREM RecoveryIsExact == Spec => []RecoveryExact
BY RecoveryFacts, EvidenceAlways, PTL

\* DELIVERED is never a guess: delivered-sha names this submission's commit on main.
THEOREM DeliveredIsLanded == Spec => []DeliveredLanded
<1>1. EvidenceInv => DeliveredLanded
  BY DEF EvidenceInv, SessionInv, Proven, Proof, DeliveredLanded, Here, OnMain
<1> QED BY <1>1, EvidenceAlways, PTL

-----------------------------------------------------------------------------
(* At most once *)

\* A commit that adds no content of a session twice.
LEMMA OnceAppend ==
  ASSUME TypeInv, AtMostOnce, NEW q \in Remotes, NEW x \in Commits,
         main' = [main EXCEPT ![q] = Append(@, x)],
         \A y \in OnMain(q) :
           x.session # Other => ~(y.session = x.session /\ y.content = x.content)
  PROVE  AtMostOnce'
<1> SUFFICES ASSUME NEW r \in Remotes, NEW i \in DOMAIN main'[r], NEW j \in DOMAIN main'[r],
                    main'[r][i].session # Other,
                    main'[r][i].session = main'[r][j].session,
                    main'[r][i].content = main'[r][j].content
             PROVE  i = j
  BY DEF AtMostOnce
<1>1. main[q] \in Seq(Commits) /\ main \in [Remotes -> Seq(Commits)]
  BY DEF TypeInv, BrokerTypeOK
<1>2. CASE r # q
  BY <1>1, <1>2 DEF AtMostOnce
<1>3. CASE r = q
  <2>1. main'[r] = Append(main[q], x)
    BY <1>1, <1>3
  <2>2. /\ DOMAIN main'[r] = 1..(Len(main[q]) + 1)
        /\ DOMAIN main[q] = 1..Len(main[q])
        /\ main'[r][Len(main[q]) + 1] = x
        /\ \A k \in DOMAIN main[q] : main'[r][k] = main[q][k]
    BY <1>1, <2>1
  <2>3. \A k \in DOMAIN main[q] : main[q][k] \in OnMain(q)
    BY DEF OnMain
  <2>4. CASE i \in DOMAIN main[q] /\ j \in DOMAIN main[q]
    BY <2>2, <2>4 DEF AtMostOnce
  <2>5. CASE i \in DOMAIN main[q] /\ j = Len(main[q]) + 1
    BY <2>2, <2>3, <2>5
  <2>6. CASE i = Len(main[q]) + 1 /\ j \in DOMAIN main[q]
    BY <2>2, <2>3, <2>6
  <2>7. (i \in DOMAIN main[q] \/ i = Len(main[q]) + 1)
        /\ (j \in DOMAIN main[q] \/ j = Len(main[q]) + 1)
    BY <1>1, <2>2
  <2> QED BY <2>4, <2>5, <2>6, <2>7
<1> QED BY <1>2, <1>3

\* The push, the only step that lands a session's content, lands content that
\* main does not hold.
LEMMA OnceBroker ==
  ASSUME EvidenceInv, AtMostOnce, NEW b \in Processes, BrokerStep(b)
  PROVE  AtMostOnce'
<1>1. TypeInv
  BY DEF EvidenceInv, WorkInv
<1>2. CASE main' = main
  BY <1>2 DEF AtMostOnce
<1>3. CASE main' # main
  <2>1. Working(b) /\ At(b, "push") /\ Accepts(b) /\ UNCHANGED <<journal, files, round, nextSha>>
    BY <1>3 DEF BrokerStep, OriginConflict, Prepare, Verify, Commit, WritePending, Fetch,
                EnterPublishing, Push, Acknowledge, Readback, Deliver, remoteVars, At, Working
  <2>2. PICK s \in Sessions : s = Subject(b)
    BY <2>1, AtFacts
  <2>3. PICK x \in Commits :
          /\ main' = [main EXCEPT ![RemoteOf[s]] = Append(@, x)]
          /\ x.session = s
          /\ \A y \in Here(s) : ~(y.session = s /\ y.content = x.content)
    BY <2>1, <2>2, LandFacts
  <2> QED BY <1>1, <2>3, OnceAppend, SessionFacts DEF Here
<1> QED BY <1>2, <1>3

LEMMA OnceForeign ==
  ASSUME TypeInv, AtMostOnce, NEW r \in Remotes, OtherPush(r)
  PROVE  AtMostOnce'
<1>1. [sha |-> nextSha, session |-> Other, content |-> NoIdentity, round |-> 0] \in Commits
  BY DEF TypeInv, BrokerTypeOK, Commits
<1> QED BY <1>1, OnceAppend DEF OtherPush

LEMMA OnceStep ==
  ASSUME EvidenceInv, AtMostOnce, [Next]_allVars
  PROVE  AtMostOnce'
<1>1. TypeInv /\ Brokers \subseteq Processes
  BY DEF EvidenceInv, WorkInv, Processes
<1>2. CASE main' = main
  BY <1>2 DEF AtMostOnce
<1>3. CASE main' # main
  <2>1. \/ \E b \in Brokers : BrokerStep(b)
        \/ \E r \in Remotes : OtherPush(r)
    BY <1>3 DEF Next, Environment, RenameOrigin, LaneStep, Integrate, Recover, Stop,
                allVars, brokerVars, remoteVars
  <2> QED BY <1>1, <2>1, OnceBroker, OnceForeign
<1> QED BY <1>2, <1>3

\* No content of a session is on main twice, whatever crashes, lost answers,
\* retries, recoveries, resubmissions and foreign pushes came in between.  The
\* lane keeps the journal of a broker's session as it is, the pathset check
\* keeps a landed content out of a new candidate, and the fast-forward push
\* keeps main as the candidate saw it.
THEOREM DeliveredAtMostOnce == Spec => []AtMostOnce
<1>1. Init => AtMostOnce
  BY DEF Init, BrokerInit, AtMostOnce
<1>2. EvidenceInv /\ AtMostOnce /\ [Next]_allVars => AtMostOnce'
  BY OnceStep
<1> QED BY <1>1, <1>2, EvidenceAlways, PTL DEF Spec

-----------------------------------------------------------------------------
(* The contract *)

\* What Delivery calls landed.
Contributions ==
  { x \in UNION {{main[r][i] : i \in DOMAIN main[r]} : r \in Remotes} : x.session # Other }

LEMMA ContributionsAre ==
  \A x : x \in Contributions <=> \E r \in Remotes : x \in OnMain(r) /\ x.session # Other
  BY DEF Contributions, OnMain

\* A step that neither moves a journal nor main is no step of the contract.
LEMMA ContractIdle == ASSUME UNCHANGED <<journal, main>> PROVE UNCHANGED Contract!vars
  BY DEF Contract!vars

\* `transition` of a session is its step of the contract, or no step.
LEMMA ContractMove ==
  ASSUME TypeInv, NEW s \in Sessions, NEW to, NEW identity, Transition(s, to, identity),
         main' = main
  PROVE  \/ UNCHANGED Contract!vars
         \/ /\ <<State(s), to>> \in Edges
            /\ Contract!Moves(s, State(s), to, identity)
<1>1. journal' = [journal EXCEPT ![s] = [state |-> to, identity |-> identity]]
  BY DEF Transition
<1>2. journal[s] = [state |-> State(s), identity |-> Identity(s)]
  BY DEF TypeInv, BrokerTypeOK, RecordTypeOK, Journals, State, Identity
<1>3. CASE State(s) = to /\ Identity(s) = identity
  <2>1. journal' = journal
    BY <1>1, <1>2, <1>3 DEF TypeInv, BrokerTypeOK, RecordTypeOK
  <2> QED BY <2>1, ContractIdle
<1>4. CASE <<State(s), to>> \in Edges
  BY <1>1, <1>4 DEF Contract!Moves, State
<1> QED BY <1>3, <1>4 DEF Transition

LEMMA ContractOwner ==
  ASSUME TypeInv, OwnerStep, UNCHANGED brokerVars
  PROVE  [Contract!Next]_(Contract!vars)
<1>1. main' = main
  BY DEF brokerVars
<1>2. PICK s \in Sessions :
        \/ \E c \in Contents : Submit(s, c)
        \/ CloseClean(s) \/ Exit(s) \/ LauncherDies(s) \/ List(s) \/ Resume(s)
  BY DEF OwnerStep
<1>3. CASE \E c \in Contents : Submit(s, c)
  <2>1. PICK c \in Contents : State(s) = "OPEN" /\ Transition(s, "SUBMITTED", c)
    BY <1>3 DEF Submit
  <2> QED BY <1>1, <2>1, ContractMove DEF Contract!Next, Contract!Submit
<1>4. CASE \/ CloseClean(s) \/ List(s)
           \/ Exit(s) /\ ~UNCHANGED journal
  <2>1. PICK to \in {"CLOSED", "ABANDONED"} : State(s) = "OPEN" /\ Transition(s, to, NoIdentity)
    BY <1>4 DEF CloseClean, List, Exit
  <2> QED BY <1>1, <2>1, ContractMove DEF Contract!Next, Contract!Leave
<1>5. CASE Reopen(s)
  <2>1. State(s) \in {"CLOSED", "ABANDONED", "CONFLICT"} /\ Transition(s, "OPEN", NoIdentity)
    BY <1>5 DEF Reopen
  <2> QED BY <1>1, <2>1, ContractMove DEF Contract!Next, Contract!Reopen
<1>6. CASE UNCHANGED journal
  BY <1>1, <1>6, ContractIdle
<1> QED BY <1>2, <1>3, <1>4, <1>5, <1>6 DEF Exit, LauncherDies, Resume

LEMMA ContractLane ==
  ASSUME TypeInv, NEW s \in Sessions, RecoverReopen(s) \/ Discard(s), main' = main
  PROVE  [Contract!Next]_(Contract!vars)
<1>2. CASE RecoverReopen(s)
  <2>1. State(s) \in {"ABANDONED", "CONFLICT"} /\ Transition(s, "OPEN", NoIdentity)
    BY <1>2 DEF RecoverReopen, Reopen
  <2> QED BY <2>1, ContractMove DEF Contract!Next, Contract!Reopen
<1>3. CASE Discard(s)
  <2>1. /\ State(s) \in {"ABANDONED", "CONFLICT"}
        /\ Transition(s, "DISCARDED", journal[s].identity)
    BY <1>3 DEF Discard, Identity
  <2> QED BY <2>1, ContractMove DEF Contract!Next, Contract!Discard, Contract!Keeps
<1> QED BY <1>2, <1>3

\* A broker hands its session back, refuses it, or confirms what is on main.
LEMMA ContractConclude ==
  ASSUME TypeInv, NEW s \in Sessions, State(s) = "INTEGRATING", main' = main,
         NEW to \in {"SUBMITTED", "CONFLICT"}, NEW identity, Transition(s, to, identity),
         \/ identity = Identity(s)
         \/ to = "CONFLICT" /\ identity = NoIdentity
  PROVE  [Contract!Next]_(Contract!vars)
<1>1. \/ UNCHANGED Contract!vars
      \/ Contract!Moves(s, "INTEGRATING", to, identity)
  BY ContractMove
<1> QED BY <1>1 DEF Contract!Next, Contract!GiveBack, Contract!Refuse, Contract!Keeps, Identity

LEMMA ContractEnter ==
  ASSUME TypeInv, NEW b, NEW s \in Sessions, NEW rest, main' = main,
         Enter(b, s) \/ Reconcile(b, s, rest)
  PROVE  [Contract!Next]_(Contract!vars)
<1>2. CASE Enter(b, s)
  <2>1. /\ State(s) \in {"SUBMITTED", "INTEGRATING"}
        /\ Transition(s, "INTEGRATING", journal[s].identity)
    BY <1>2 DEF Enter, Identity
  <2>2. <<"INTEGRATING", "INTEGRATING">> \notin Edges
    BY DEF Edges
  <2> QED BY <2>1, <2>2, ContractMove DEF Contract!Next, Contract!Begin, Contract!Keeps
<1>3. CASE Reconcile(b, s, rest)
  <2>1. CASE RecoveryVerdict(s) = "DELIVERED"
    BY <1>3, <2>1, ContractIdle DEF Reconcile
  <2>2. CASE RecoveryVerdict(s) # "DELIVERED"
    <3>1. /\ State(s) = "INTEGRATING" /\ RecoveryVerdict(s) \in {"SUBMITTED", "CONFLICT"}
          /\ Transition(s, RecoveryVerdict(s), Identity(s))
      BY <1>3, <2>2 DEF Reconcile, RecoveryVerdict
    <3> QED BY <3>1, ContractConclude
  <2> QED BY <2>1, <2>2
<1> QED BY <1>2, <1>3

\* The accepted push is the one step that lands a contribution.
LEMMA ContractPush ==
  ASSUME EvidenceInv, NEW b \in Processes, At(b, "push"), Accepts(b),
         UNCHANGED <<journal, files, round, nextSha>>
  PROVE  [Contract!Next]_(Contract!vars)
<1>1. Working(b) /\ br[b].pc = "push"
  BY DEF At, Working
<1>2. PICK s \in Sessions : /\ s = Subject(b) /\ RemoteOf[s] = Remote(b) /\ SessionInv(s)
                            /\ State(s) = "INTEGRATING"
  BY <1>1, AtFacts
<1>3. WorkInv /\ TypeInv /\ RemoteOf[s] \in Remotes /\ s # Other
      /\ main \in [Remotes -> Seq(Commits)]
  BY <1>1, AtFacts, SessionFacts DEF TypeInv, BrokerTypeOK
<1>4. PICK x \in Commits :
        /\ main' = [main EXCEPT ![RemoteOf[s]] = Append(@, x)]
        /\ x.session = s /\ Proof(s, x)
        /\ \A y \in Here(s) : ~(y.session = s /\ y.content = x.content)
  BY <1>2, LandFacts
<1>5. ASSUME NEW r \in Remotes
      PROVE  OnMain(r)' = OnMain(r) \cup (IF r = RemoteOf[s] THEN {x} ELSE {})
  BY <1>3, <1>4, MainAppend
<1>6. Contributions' = Contributions \cup {x}
  <2>1. \A y : y \in Contributions' <=> \E r \in Remotes : y \in OnMain(r)' /\ y.session # Other
    BY DEF Contributions, OnMain
  <2> QED BY <1>3, <1>4, <1>5, <2>1, ContributionsAre
<1>7. \A y \in Contributions : ~(y.session = s /\ y.content = Identity(s))
  <2> SUFFICES ASSUME NEW y \in Contributions, y.session = s, y.content = Identity(s)
               PROVE  FALSE
    OBVIOUS
  <2>1. y \in Here(s)
    BY ContributionsAre DEF EvidenceInv, MainInv, Here
  <2> QED BY <1>4, <2>1 DEF Proof
<1>8. Contract!Land(s)
  BY <1>2, <1>4, <1>6, <1>7
     DEF Contract!Land, Contract!HasLanded, Contributions, State, Identity, Proof
<1> QED BY <1>8 DEF Contract!Next

LEMMA ContractBroker ==
  ASSUME EvidenceInv, NEW b \in Processes, BrokerStep(b)
  PROVE  [Contract!Next]_(Contract!vars)
<1>1. Working(b)
  BY DEF BrokerStep, OriginConflict, Prepare, Verify, Commit, WritePending, Fetch,
         EnterPublishing, Push, Acknowledge, Readback, Deliver, At, Working
<1>2. PICK s \in Sessions : /\ s = Subject(b) /\ RemoteOf[s] = Remote(b)
                            /\ State(s) = "INTEGRATING"
  BY <1>1, AtFacts
<1>3. TypeInv /\ HandInv(b) /\ RemoteOf[s] \in Remotes /\ s # Other
  BY <1>1, AtFacts, SessionFacts
<1>4. CASE \E to \in {"SUBMITTED", "CONFLICT"} : \E identity :
             /\ Transition(s, to, identity) /\ main' = main
             /\ identity = Identity(s) \/ (to = "CONFLICT" /\ identity = NoIdentity)
  BY <1>2, <1>3, <1>4, ContractConclude
<1>5. CASE UNCHANGED <<journal, main>>
  BY <1>5, ContractIdle
<1>6. CASE At(b, "push") /\ Accepts(b) /\ UNCHANGED <<journal, files, round, nextSha>>
  BY <1>6, ContractPush
<1>7. CASE Deliver(b)
  <2>1. /\ Transition(s, "DELIVERED", Identity(s)) /\ main' = main
        /\ \E x \in Here(s) : Proof(s, x)
    BY <1>2, <1>3, <1>7 DEF Deliver, Concludes, At, remoteVars, HandInv, ReadBack, Here
  <2>2. \E x \in Contributions : x.session = s /\ x.content = Identity(s)
    BY <1>3, <2>1, ContributionsAre DEF Here, Proof, RoundCommit
  <2>3. Contract!HasLanded(s, journal[s].identity)
    BY <2>2 DEF Contract!HasLanded, Contributions, Identity
  <2>4. UNCHANGED Contract!vars \/ Contract!Moves(s, "INTEGRATING", "DELIVERED", Identity(s))
    BY <1>2, <1>3, <2>1, ContractMove
  <2> QED BY <2>3, <2>4 DEF Contract!Next, Contract!Confirm, Contract!Keeps, Identity
<1> QED BY <1>2, <1>4, <1>5, <1>6, <1>7
        DEF BrokerStep, OriginConflict, Prepare, Verify, Commit, WritePending, Fetch,
            EnterPublishing, Push, Acknowledge, Readback, Retries, Concludes, remoteVars

\* Another host's commit is nobody's contribution.
LEMMA ContractForeign ==
  ASSUME TypeInv, NEW r \in Remotes, OtherPush(r)
  PROVE  [Contract!Next]_(Contract!vars)
<1>1. PICK x \in Commits : x.session = Other /\ main' = [main EXCEPT ![r] = Append(@, x)]
  <2>1. [sha |-> nextSha, session |-> Other, content |-> NoIdentity, round |-> 0] \in Commits
    BY DEF TypeInv, BrokerTypeOK, Commits
  <2> QED BY <2>1 DEF OtherPush
<1>2. ASSUME NEW q \in Remotes
      PROVE  OnMain(q)' = OnMain(q) \cup (IF q = r THEN {x} ELSE {})
  BY <1>1, MainAppend DEF TypeInv, BrokerTypeOK
<1>3. Contributions' = Contributions
  <2>1. \A y : y \in Contributions' <=> \E q \in Remotes : y \in OnMain(q)' /\ y.session # Other
    BY DEF Contributions, OnMain
  <2> QED BY <1>1, <1>2, <2>1, ContributionsAre
<1>4. journal' = journal
  BY DEF OtherPush, recordVars
<1> QED BY <1>3, <1>4 DEF Contract!vars, Contributions

LEMMA ContractInit == Init => Contract!Init
<1> SUFFICES ASSUME Init PROVE Contract!Init
  OBVIOUS
<1>1. Contributions = {}
  BY DEF Init, BrokerInit, Contributions
<1> QED BY <1>1 DEF Init, RecordInit, Contract!Init, Contributions

LEMMA ContractStep ==
  ASSUME EvidenceInv, [Next]_allVars
  PROVE  [Contract!Next]_(Contract!vars)
<1>1. TypeInv /\ Brokers \subseteq Processes
  BY DEF EvidenceInv, WorkInv, Processes
<1>2. CASE \/ \E b \in Brokers : Stop(b)
           \/ \E s \in Sessions : RenameOrigin(s)
           \/ UNCHANGED allVars
  BY <1>2, ContractIdle DEF Stop, RenameOrigin, allVars, recordVars, brokerVars, remoteVars
<1>3. CASE OwnerStep /\ UNCHANGED brokerVars
  BY <1>1, <1>3, ContractOwner
<1>4. CASE \E b \in Brokers, s \in Sessions : Integrate(b, s) \/ Recover(b, s)
  BY <1>1, <1>4, ContractEnter DEF Integrate, Recover, remoteVars
<1>5. CASE \E s \in Sessions : LaneStep(s)
  BY <1>1, <1>5, ContractLane DEF LaneStep, brokerVars
<1>6. CASE \E b \in Brokers : BrokerStep(b)
  BY <1>1, <1>6, ContractBroker
<1>7. CASE \E r \in Remotes : OtherPush(r)
  BY <1>1, <1>7, ContractForeign
<1> QED BY <1>2, <1>3, <1>4, <1>5, <1>6, <1>7 DEF Next, Environment

\* The broker with all its failures implements the delivery contract: a content is
\* landed by the accepted push alone, confirmed only when it is there, and every other
\* step of a broker or a recovery is one the contract grants, or none.
THEOREM BrokerImplementsDelivery == Spec => ImplementsDelivery
<1>1. EvidenceInv /\ [Next]_allVars => [Contract!Next]_(Contract!vars)
  BY ContractStep
<1> QED BY <1>1, ContractInit, EvidenceAlways, PTL DEF Spec, ImplementsDelivery, Contract!Spec

-----------------------------------------------------------------------------
(***************************************************************************)
(* Part 3.  The queue: direct brokers are kept out, a session is in one    *)
(* process's hands, jobs start in order, answers are honest, and what      *)
(* holds of the evidence of a direct broker holds of a queued one.         *)
(*                                                                         *)
(* JobInv is the protocol of leases: a worker that is out has a running    *)
(* row and its session (SlotsOK), no two of them share a row, a session or *)
(* a gc's pool (SlotsApart), and while one is out every enrolled lane is   *)
(* held as a gate (GatesHeld).  From it follows what part 2 asks of        *)
(* whoever hands out sessions (WorkInv), and its lemmas about the steps of *)
(* a process at work are used as they stand.                               *)
(***************************************************************************)
Row == [op: Operations, owner: Sessions \cup {None}, pool: Pools,
        identity: Contents \cup {NoIdentity}, state: JobStates,
        attempt: 0..2, rc: Nat, intent: BOOLEAN]

\* What an accepted row says of its session and its pool.
RowsOK ==
  \A i \in Rows :
    /\ IsGc(i) <=> Owner(i) = None
    /\ ~IsGc(i) => jobs[i].pool = PoolOf[Owner(i)]
    /\ Active(i) => jobs[i].pool \in enrolled
    /\ jobs[i].state = "delivered" => jobs[i].op = "integrate"

\* While a worker is out, every enrolled lane is held as a gate.
GatesHeld == Used # {} => AllGates

\* A worker that is out has a running row, and works on its session.
SlotsOK ==
  /\ \A w \in Used : Job(w) \in Rows /\ jobs[Job(w)].state = "running"
  /\ \A w \in Workers : Busy(w) => w \in Used /\ Subject(w) = Owner(Job(w))

\* The leases of one worker exclude the others from its row, its session and,
\* for gc, its pool.
SlotsApart ==
  \A v, w \in Used : v # w =>
    /\ Job(v) # Job(w)
    /\ Owner(Job(v)) = Owner(Job(w)) => IsGc(Job(v))
    /\ IsGc(Job(v)) => jobs[Job(v)].pool # jobs[Job(w)].pool

LeaseInv ==
  /\ QueueTypeOK /\ SubjectsOK
  /\ RowsOK /\ GatesHeld /\ SlotsOK /\ SlotsApart /\ LaneHeld

\* A worker at work on an integration has the snapshot of its row in hand, and
\* a session that is DELIVERED under its worker is so with that snapshot.
WorkBound ==
  \A w \in Used :
    /\ jobs[Job(w)].op = "integrate"
    /\ Working(w) \/ State(Owner(Job(w))) = "DELIVERED"
    => Identity(Owner(Job(w))) = jobs[Job(w)].identity

DeliveredBound ==
  \A i \in Rows : jobs[i].state = "delivered" =>
    State(Owner(i)) = "DELIVERED" /\ Identity(Owner(i)) = jobs[i].identity

JobInv == LeaseInv /\ Integrating /\ WorkBound /\ DeliveredBound

-----------------------------------------------------------------------------
(* The steps of the queue, by what they touch *)

\* The commands and decisions that only write the ledger.
LedgerStep ==
  \/ \E s \in Sessions : Enqueue(s) \/ \E op \in {"recover", "discard"} : Control(op, s)
  \/ \E p \in Pools : ControlGc(p)
  \/ \E i \in Rows : ReconcileJob(i) \/ Exhaust(i) \/ FailStart(i)

\* The coordinator's coming and going, enrolment, and the gates.
GateStep ==
  \/ \E p \in Pools : Enable(p) \/ TakeGate(p)
  \/ Disable \/ Serve \/ Shutdown \/ StopSignal \/ Kill

\* What goes on in the pools beside the queue: the steps of IntegrationBroker.
PoolStep ==
  /\ [Next]_allVars
  /\ UNCHANGED <<jobs, slot, coord, enrolled, outages>>
  /\ waiting' \in [Brokers -> Sessions \cup {None}]

\* Every step of the queue is one of these, or a worker's.
LEMMA QueueSteps ==
  ASSUME QueueTypeOK, [QNext]_systemVars
  PROVE  \/ LedgerStep \/ GateStep \/ PoolStep
         \/ \E i \in Rows, w \in Workers : Claim(i, w)
         \/ \E w \in Workers : Finish(w) \/ OrphanGone(w)
         \/ \E w \in Workers : Start(w) \/ Work(w) \/ Dies(w)
<1>1. waiting \in [Brokers -> Sessions \cup {None}]
  BY DEF QueueTypeOK
<1>2. ASSUME NEW b \in Brokers, NEW s \in Sessions, ChooseDirect(b, s)
      PROVE  PoolStep
  BY <1>1, <1>2 DEF ChooseDirect, PoolStep
<1>3. ASSUME NEW b \in Brokers, Direct(b)
      PROVE  PoolStep
  <2>1. waiting[b] \in Sessions
    BY <1>1, <1>3 DEF Direct
  <2>2. [Next]_allVars
    BY <1>3, <2>1 DEF Direct, Next
  <2> QED BY <1>1, <1>3, <2>2 DEF Direct, PoolStep
<1>4. ASSUME NEW b \in Brokers, BrokerStep(b) \/ Stop(b), UNCHANGED queueVars
      PROVE  PoolStep
  BY <1>1, <1>4 DEF PoolStep, Next, queueVars
<1>5. CASE \/ OwnerStep /\ UNCHANGED <<brokerVars, queueVars>>
           \/ Environment /\ UNCHANGED queueVars
           \/ UNCHANGED systemVars
  <2>1. [Next]_allVars
    BY <1>5 DEF Next, systemVars
  <2> QED BY <1>1, <1>5, <2>1 DEF PoolStep, queueVars, systemVars
<1>6. CASE Command
  BY <1>6 DEF Command, LedgerStep, GateStep
<1>7. CASE Coordinate
  BY <1>7 DEF Coordinate, LedgerStep, GateStep
<1>8. CASE Outage
  <2>1. CASE \E b \in Brokers : Stop(b) /\ UNCHANGED queueVars
    BY <1>4, <2>1
  <2> QED BY <1>8, <2>1 DEF Outage, GateStep
<1> QED BY <1>2, <1>3, <1>4, <1>5, <1>6, <1>7, <1>8 DEF QNext

-----------------------------------------------------------------------------
(* The ledger *)

LEMMA RowsAre ==
  ASSUME jobs \in Seq(Row)
  PROVE  /\ Len(jobs) \in Nat /\ Rows = 1..Len(jobs)
         /\ \A i \in Rows : jobs[i] \in Row
BY LenProperties DEF Rows

\* Rewriting one row.
LEMMA RowWritten ==
  ASSUME jobs \in Seq(Row), NEW i \in Rows, NEW r \in Row, jobs' = [jobs EXCEPT ![i] = r]
  PROVE  /\ jobs' \in Seq(Row) /\ Rows' = Rows
         /\ \A j \in Rows : jobs'[j] = IF j = i THEN r ELSE jobs[j]
<1>1. i \in 1..Len(jobs) /\ Rows = 1..Len(jobs)
  BY RowsAre
<1>2. /\ jobs' \in Seq(Row) /\ Len(jobs') = Len(jobs)
      /\ \A j \in 1..Len(jobs) : jobs'[j] = IF j = i THEN r ELSE jobs[j]
  BY <1>1, ExceptSeq
<1>3. DOMAIN jobs' = 1..Len(jobs)
  BY <1>2, LenProperties
<1> QED BY <1>1, <1>2, <1>3 DEF Rows

\* Accepting a row.
LEMMA RowAppended ==
  ASSUME NEW q \in Seq(Row), NEW r \in Row, jobs' = Append(q, r)
  PROVE  /\ jobs' \in Seq(Row) /\ Rows' = DOMAIN q \cup {Len(q) + 1} /\ Len(q) + 1 \notin DOMAIN q
         /\ \A j \in DOMAIN q : jobs'[j] = q[j]
         /\ jobs'[Len(q) + 1] = r
<1>1. /\ Len(q) \in Nat /\ DOMAIN q = 1..Len(q)
      /\ jobs' \in Seq(Row) /\ Len(jobs') = Len(q) + 1
      /\ jobs'[Len(q) + 1] = r /\ \A j \in 1..Len(q) : jobs'[j] = q[j]
  BY LenProperties, AppendProperties
<1>2. DOMAIN jobs' = 1..(Len(q) + 1)
  BY <1>1, LenProperties
<1> QED BY <1>1, <1>2 DEF Rows

\* The session and the pool of a row are for ever, its snapshot as long as it
\* has not failed.
RowsKept ==
  /\ jobs' \in Seq(Row) /\ Rows \subseteq Rows'
  /\ \A i \in Rows :
       /\ jobs'[i].op = jobs[i].op /\ jobs'[i].owner = jobs[i].owner
       /\ jobs'[i].pool = jobs[i].pool
       /\ jobs[i].state # "failed" => jobs'[i].identity = jobs[i].identity
       /\ jobs'[i].state \in ActiveStates => Active(i)

\* A row that is not of one session but of a pool, or the other way round.
WellFiled(r) ==
  /\ r.op = "gc" <=> r.owner = None
  /\ r.op # "gc" => r.pool = PoolOf[r.owner]

\* What a command or decision may write: a new row, or the state of one that
\* does not run: closed, or left to the operator when it is considered.
Filed ==
  /\ RowsKept
  /\ \A i \in Rows :
       \/ jobs'[i].state = jobs[i].state
       \/ ~Running(i) /\ jobs'[i].state = "failed"
       \/ ~Running(i) /\ jobs'[i].state = "needs_reconcile" /\ Considers(i)
  /\ \A i \in Rows' \ Rows :
       jobs'[i].state = "queued" /\ jobs'[i].pool \in enrolled /\ WellFiled(jobs'[i])

LEMMA RowFiled ==
  ASSUME jobs \in Seq(Row), NEW i \in Rows, NEW r \in Row, jobs' = [jobs EXCEPT ![i] = r],
         r.op = jobs[i].op, r.owner = jobs[i].owner, r.pool = jobs[i].pool,
         r.identity = jobs[i].identity,
         \/ r.state = jobs[i].state
         \/ Active(i) /\ ~Running(i) /\ r.state = "failed"
         \/ Active(i) /\ ~Running(i) /\ r.state = "needs_reconcile" /\ Considers(i)
  PROVE  Filed
<1>1. /\ jobs' \in Seq(Row) /\ Rows' = Rows
      /\ \A j \in Rows : jobs'[j] = IF j = i THEN r ELSE jobs[j]
  BY RowWritten
<1> QED BY <1>1 DEF Filed, RowsKept, Active, ActiveStates

LEMMA RowAccepted ==
  ASSUME jobs \in Seq(Row), NEW q \in Seq(Row), NEW r \in Row, jobs' = Append(q, r),
         DOMAIN q = Rows,
         \A i \in Rows : \/ q[i] = jobs[i]
                         \/ /\ jobs[i].state = "failed" /\ q[i].state = "failed"
                            /\ q[i].op = jobs[i].op /\ q[i].owner = jobs[i].owner
                            /\ q[i].pool = jobs[i].pool,
         r.state = "queued", r.pool \in enrolled, WellFiled(r)
  PROVE  Filed
<1>1. /\ jobs' \in Seq(Row) /\ Rows' = Rows \cup {Len(q) + 1} /\ Len(q) + 1 \notin Rows
      /\ \A j \in Rows : jobs'[j] = q[j]
      /\ jobs'[Len(q) + 1] = r
  BY RowAppended
<1>2. RowsKept
  BY <1>1 DEF RowsKept, Active, ActiveStates
<1>3. \A i \in Rows : jobs'[i].state = jobs[i].state
  BY <1>1
<1> QED BY <1>1, <1>2, <1>3 DEF Filed

\* Every command and decision on the ledger files.
LEMMA LedgerFiles ==
  ASSUME QueueTypeOK, LedgerStep
  PROVE  /\ Filed /\ UNCHANGED <<allVars, slot, coord, enrolled, waiting>>
         /\ outages' \in [coord: Nat, start: Nat]
<1>1. /\ jobs \in Seq(Row) /\ Len(jobs) \in Nat /\ Rows = 1..Len(jobs)
      /\ \A i \in Rows : jobs[i] \in Row
      /\ enrolled \subseteq Pools /\ outages \in [coord: Nat, start: Nat]
  BY RowsAre DEF QueueTypeOK, Row
<1>2. ASSUME NEW s \in Sessions, Enqueue(s)
      PROVE  Filed
  <2> DEFINE q == [i \in Rows |-> IF i \in Receipts(s)
                                    THEN [jobs[i] EXCEPT !.identity = NoIdentity] ELSE jobs[i]]
             r == NewRow("integrate", s, PoolOf[s], Identity(s))
  <2>1. jobs' = Append(q, r)
    BY <1>2 DEF Enqueue
  <2>2. \A i \in Rows : q[i] \in Row
    BY SMTT(40), <1>1 DEF Row
  <2>3. q \in Seq(Row) /\ DOMAIN q = Rows
    BY <1>1, <2>2, SeqDef
  <2>4. r \in Row /\ r.state = "queued" /\ r.pool \in enrolled /\ WellFiled(r)
    <3>1. PoolOf[s] \in Pools /\ Identity(s) \in Contents \cup {NoIdentity} /\ s # None
          /\ PoolOf[s] \in enrolled
      BY <1>1, <1>2, IdentityType, BrokerAssumption
         DEF Enqueue, QueueTypeOK, BrokerTypeOK, RecordTypeOK, Identities
    <3> QED BY <3>1 DEF NewRow, Row, WellFiled, Operations, JobStates, ActiveStates
  <2>5. \A i \in Rows : \/ q[i] = jobs[i]
                        \/ /\ jobs[i].state = "failed" /\ q[i].state = "failed"
                           /\ q[i].op = jobs[i].op /\ q[i].owner = jobs[i].owner
                           /\ q[i].pool = jobs[i].pool
    BY <1>1, <1>2 DEF Enqueue, Retriable, Row
  <2> HIDE DEF q, r
  <2> QED BY <1>1, <2>1, <2>3, <2>4, <2>5, RowAccepted
<1>3. ASSUME NEW op \in Operations \ {"integrate"}, NEW owner \in Sessions \cup {None},
             NEW p \in enrolled, WellFiled(NewRow(op, owner, p, NoIdentity)),
             jobs' = Append(jobs, NewRow(op, owner, p, NoIdentity))
      PROVE  Filed
  <2> DEFINE r == NewRow(op, owner, p, NoIdentity)
  <2>1. r \in Row /\ r.state = "queued" /\ r.pool = p
    BY <1>1, <1>3 DEF NewRow, Row, JobStates, ActiveStates
  <2> HIDE DEF r
  <2> QED BY <1>1, <1>3, <2>1, RowAccepted DEF r, Rows
<1>4. ASSUME NEW s \in Sessions, NEW op \in {"recover", "discard"}, Control(op, s)
      PROVE  Filed
  <2>1. op \in Operations \ {"integrate"} /\ PoolOf[s] \in enrolled /\ s # None
    BY <1>4, BrokerAssumption DEF Control, Operations
  <2>2. WellFiled(NewRow(op, s, PoolOf[s], NoIdentity))
    BY <2>1, <1>4 DEF WellFiled, NewRow
  <2> QED BY <1>3, <1>4, <2>1, <2>2 DEF Control
<1>5. ASSUME NEW p \in Pools, ControlGc(p)
      PROVE  Filed
  <2>1. "gc" \in Operations \ {"integrate"} /\ p \in enrolled
        /\ WellFiled(NewRow("gc", None, p, NoIdentity))
    BY <1>5 DEF ControlGc, Operations, WellFiled, NewRow
  <2> QED BY <1>3, <1>5, <2>1 DEF ControlGc
<1>6. ASSUME NEW i \in Rows, ReconcileJob(i) \/ Exhaust(i) \/ FailStart(i)
      PROVE  Filed
  <2>1. CASE ReconcileJob(i)
    <3>1. jobs' = [jobs EXCEPT ![i] = [@ EXCEPT !.attempt = 0]]
      BY <2>1 DEF ReconcileJob
    <3>2. [jobs[i] EXCEPT !.attempt = 0] \in Row
      BY <1>1, 0 \in 0..2 DEF Row
    <3> QED BY <1>1, <3>1, <3>2, RowFiled DEF Row
  <2>2. CASE Exhaust(i)
    <3>1. /\ jobs' = [jobs EXCEPT ![i] = [@ EXCEPT !.state = "needs_reconcile"]]
          /\ Considers(i) /\ Active(i) /\ ~Running(i)
      BY <2>2 DEF Exhaust, Considers
    <3>2. [jobs[i] EXCEPT !.state = "needs_reconcile"] \in Row
      BY ZenonT(40), <1>1 DEF Row, JobStates, ActiveStates
    <3> QED BY <1>1, <3>1, <3>2, RowFiled DEF Row
  <2>3. CASE FailStart(i)
    <3>1. PICK n \in 0..1 :
            jobs' = [jobs EXCEPT ![i].state = "failed", ![i].rc = 2, ![i].attempt = @ + n]
      BY <2>3 DEF FailStart
    <3>2. Active(i) /\ ~Running(i) /\ jobs[i].attempt < 2
      BY <2>3 DEF FailStart, Considers, AttemptsLeft
    <3>3. jobs[i].attempt + n \in 0..2
      BY <1>1, <3>2 DEF Row
    <3> DEFINE r == [jobs[i] EXCEPT !.state = "failed", !.rc = 2, !.attempt = @ + n]
    <3>4. /\ r \in Row /\ r.op = jobs[i].op /\ r.owner = jobs[i].owner
          /\ r.pool = jobs[i].pool /\ r.identity = jobs[i].identity /\ r.state = "failed"
      BY <1>1, <3>3 DEF Row, JobStates
    <3>5. jobs' = [jobs EXCEPT ![i] = r]
      BY <1>1, <3>1 DEF Rows, Row
    <3> HIDE DEF r
    <3> QED BY <1>1, <3>2, <3>4, <3>5, RowFiled
  <2> QED BY <1>6, <2>1, <2>2, <2>3
<1>7. UNCHANGED <<allVars, slot, coord, enrolled, waiting>>
  BY DEF LedgerStep, Enqueue, Control, ControlGc, ReconcileJob, Exhaust, FailStart
<1>8. outages' \in [coord: Nat, start: Nat]
  <2>1. outages' = outages \/ outages' = [outages EXCEPT !.start = @ + 1]
    BY DEF LedgerStep, Enqueue, Control, ControlGc, ReconcileJob, Exhaust, FailStart
  <2> QED BY <1>1, <2>1
<1> QED BY <1>2, <1>4, <1>5, <1>6, <1>7, <1>8 DEF LedgerStep

-----------------------------------------------------------------------------
(* What keeps the parts of the invariant *)

LEMMA RowsStay ==
  ASSUME QueueTypeOK, RowsOK, RowsKept,
         \A i \in Rows' \ Rows :
           jobs'[i].state = "queued" /\ jobs'[i].pool \in enrolled' /\ WellFiled(jobs'[i]),
         \A i \in Rows : jobs'[i].state = "delivered" => jobs[i].op = "integrate",
         \A i \in Rows : Active(i) => jobs[i].pool \in enrolled'
  PROVE  RowsOK'
<1> SUFFICES ASSUME NEW i \in Rows'
             PROVE  /\ jobs'[i].op = "gc" <=> jobs'[i].owner = None
                    /\ jobs'[i].op # "gc" => jobs'[i].pool = PoolOf[jobs'[i].owner]
                    /\ jobs'[i].state \in ActiveStates => jobs'[i].pool \in enrolled'
                    /\ jobs'[i].state = "delivered" => jobs'[i].op = "integrate"
  BY DEF RowsOK, IsGc, Owner, Active
<1>1. CASE i \in Rows
  BY <1>1 DEF RowsKept, RowsOK, IsGc, Owner
<1>2. CASE i \notin Rows
  BY <1>2 DEF WellFiled
<1> QED BY <1>1, <1>2

LEMMA SlotsStay ==
  ASSUME QueueTypeOK, SlotsOK, SlotsApart, RowsKept,
         \A w \in Workers : slot'[w].job = slot[w].job,
         \A w \in Used : jobs'[Job(w)].state = "running",
         \A w \in Workers : br'[w].pc # "idle" =>
           br[w].pc # "idle" /\ br'[w].session = br[w].session
  PROVE  Used' = Used /\ SlotsOK' /\ SlotsApart'
<1>1. Used' = Used /\ \A w \in Workers : Job(w)' = Job(w)
  BY DEF Used, Job
<1>2. \A w \in Used : Job(w) \in Rows /\ Job(w) \in Rows' /\ Owner(Job(w))' = Owner(Job(w))
                      /\ jobs'[Job(w)].op = jobs[Job(w)].op
                      /\ jobs'[Job(w)].pool = jobs[Job(w)].pool
  BY <1>1 DEF SlotsOK, RowsKept, Owner, Used
<1>3. SlotsOK'
  BY <1>1, <1>2 DEF SlotsOK, Busy, Subject, Used
<1>4. SlotsApart'
  <2> SUFFICES ASSUME NEW v \in Used, NEW w \in Used, v # w
               PROVE  /\ Job(v)' # Job(w)'
                      /\ Owner(Job(v))' = Owner(Job(w))' => IsGc(Job(v))'
                      /\ IsGc(Job(v))' => jobs'[Job(v)'].pool # jobs'[Job(w)'].pool
    BY <1>1 DEF SlotsApart
  <2>1. /\ Job(v) # Job(w) /\ Job(v)' = Job(v) /\ Job(w)' = Job(w)
        /\ Owner(Job(v)) = Owner(Job(w)) => jobs[Job(v)].op = "gc"
        /\ jobs[Job(v)].op = "gc" => jobs[Job(v)].pool # jobs[Job(w)].pool
    BY <1>1 DEF SlotsApart, IsGc, Used
  <2> QED BY <1>2, <2>1 DEF IsGc, Owner
<1> QED BY <1>1, <1>3, <1>4

\* The lock of every lane a worker is out for stays a gate.
GatesStay == Used # {} => \A p \in enrolled : lock[p] = Gate => lock'[p] = Gate

LEMMA GatesHeldStay ==
  ASSUME GatesHeld, GatesStay, Used' \subseteq Used, enrolled' = enrolled
  PROVE  GatesHeld'
BY DEF GatesHeld, GatesStay, AllGates

LEMMA SystemKept ==
  ASSUME JobInv, UNCHANGED <<recordVars, remoteVars, br, faults>>,
         lock' \in [Pools -> Processes \cup {Free, Gate}]
  PROVE  BrokerTypeOK' /\ SubjectsOK' /\ Integrating'
<1>1. BrokerTypeOK'
  BY DEF JobInv, LeaseInv, QueueTypeOK, BrokerTypeOK, RecordTypeOK, recordVars, remoteVars
<1>2. SubjectsOK' /\ Integrating'
  BY DEF JobInv, LeaseInv, SubjectsOK, Integrating, Working, Subject, Busy, State, recordVars
<1> QED BY <1>1, <1>2

\* A worker's bond to its snapshot and the delivered rows outlive a step that
\* leaves the journal of the session of every worker that is out as it was ...
LEMMA BoundsStay ==
  ASSUME QueueTypeOK, SlotsOK, WorkBound, DeliveredBound, RowsKept,
         \A w \in Workers : slot'[w].job \in {0, slot[w].job},
         \A i \in Rows' : jobs'[i].state = "delivered" =>
           i \in Rows /\ jobs[i].state = "delivered" /\ journal'[Owner(i)] = journal[Owner(i)],
         \A w \in Used : jobs[Job(w)].op = "integrate" =>
           \/ /\ journal'[Owner(Job(w))] = journal[Owner(Job(w))]
              /\ br'[w].pc \notin {"idle", "start"} => Working(w)
           \/ journal'[Owner(Job(w))].identity = jobs[Job(w)].identity
           \/ /\ br'[w].pc \in {"idle", "start"}
              /\ journal'[Owner(Job(w))].state # "DELIVERED"
  PROVE  WorkBound' /\ DeliveredBound'
<1>1. WorkBound'
  <2> SUFFICES ASSUME NEW w \in Workers, slot'[w].job # 0,
                      jobs'[slot'[w].job].op = "integrate",
                      \/ br'[w].pc \notin {"idle", "start"}
                      \/ journal'[jobs'[slot'[w].job].owner].state = "DELIVERED"
               PROVE  journal'[jobs'[slot'[w].job].owner].identity = jobs'[slot'[w].job].identity
    BY DEF WorkBound, Used, Job, Working, State, Identity, Owner
  <2>1. w \in Used /\ slot'[w].job = Job(w) /\ Job(w) \in Rows /\ jobs[Job(w)].state = "running"
    BY DEF SlotsOK, Used, Job
  <2>2. /\ jobs'[Job(w)].op = jobs[Job(w)].op /\ jobs'[Job(w)].owner = Owner(Job(w))
        /\ jobs'[Job(w)].identity = jobs[Job(w)].identity
    BY <2>1 DEF RowsKept, Owner
  <2>3. Working(w) \/ State(Owner(Job(w))) = "DELIVERED" =>
          Identity(Owner(Job(w))) = jobs[Job(w)].identity
    BY <2>1, <2>2 DEF WorkBound
  <2> QED BY SMTT(40), <2>1, <2>2, <2>3 DEF State, Identity
<1>2. DeliveredBound'
  BY DEF DeliveredBound, RowsKept, Owner, State, Identity
<1> QED BY <1>1, <1>2

LEMMA LedgerInv ==
  ASSUME JobInv, LedgerStep
  PROVE  JobInv'
<1>1. /\ QueueTypeOK /\ SubjectsOK /\ RowsOK /\ GatesHeld /\ SlotsOK /\ SlotsApart /\ LaneHeld
      /\ Integrating /\ WorkBound /\ DeliveredBound
  BY DEF JobInv, LeaseInv
<1>2. /\ Filed /\ RowsKept /\ outages' \in [coord: Nat, start: Nat]
      /\ UNCHANGED <<allVars, slot, coord, enrolled, waiting>>
  BY <1>1, LedgerFiles DEF Filed
<1>3. UNCHANGED <<recordVars, remoteVars, lock, br, faults>>
  BY <1>2 DEF allVars, brokerVars, remoteVars
<1>4. BrokerTypeOK' /\ SubjectsOK' /\ Integrating'
  BY <1>1, <1>3, SystemKept DEF QueueTypeOK, BrokerTypeOK
<1>5. QueueTypeOK'
  BY <1>1, <1>2, <1>4 DEF QueueTypeOK, RowsKept, Row
<1>6. RowsOK'
  <2>1. \A i \in Rows : jobs'[i].state = "delivered" => jobs[i].op = "integrate"
    BY <1>1, <1>2 DEF Filed, RowsOK
  <2>2. \A i \in Rows : Active(i) => jobs[i].pool \in enrolled'
    BY <1>1, <1>2 DEF RowsOK
  <2> QED BY <1>1, <1>2, <2>1, <2>2, RowsStay DEF Filed
<1>7. Used' = Used /\ SlotsOK' /\ SlotsApart'
  <2>1. \A w \in Used : jobs'[Job(w)].state = "running"
    BY <1>1, <1>2 DEF Filed, Running, SlotsOK
  <2> QED BY <1>1, <1>2, <1>3, <2>1, SlotsStay
<1>8. GatesHeld' /\ LaneHeld'
  BY <1>1, <1>2, <1>3, <1>7 DEF GatesHeld, AllGates, LaneHeld, Busy, Subject
<1>9. WorkBound' /\ DeliveredBound'
  <2>1. \A i \in Rows' : jobs'[i].state = "delivered" =>
           i \in Rows /\ jobs[i].state = "delivered" /\ journal'[Owner(i)] = journal[Owner(i)]
    BY <1>2, <1>3 DEF Filed, recordVars
  <2> QED BY <1>1, <1>2, <1>3, <2>1, BoundsStay DEF Working, recordVars
<1> QED BY <1>1, <1>4, <1>5, <1>6, <1>7, <1>8, <1>9 DEF JobInv, LeaseInv

-----------------------------------------------------------------------------
(* Gates *)

LEMMA GatesDropped ==
  ASSUME lock \in [Pools -> Processes \cup {Free, Gate}]
  PROVE  /\ DropGates \in [Pools -> Processes \cup {Free, Gate}]
         /\ \A p \in Pools : DropGates[p] = lock[p] \/ lock[p] = Gate
BY DEF DropGates

\* A lane in a broker's hands is neither free nor a gate.
LEMMA LaneHeldStays ==
  ASSUME LaneHeld, SubjectsOK, br' = br,
         \A p \in Pools : lock'[p] = lock[p] \/ lock[p] \in {Free, Gate}
  PROVE  LaneHeld'
<1> SUFFICES ASSUME NEW b \in Brokers, Busy(b)
             PROVE  lock'[PoolOf[Subject(b)]] = b
  BY DEF LaneHeld, Busy, Subject
<1>1. Subject(b) \in Sessions /\ b \in Processes
  BY DEF SubjectsOK, Processes
<1>2. PoolOf[Subject(b)] \in Pools /\ b \notin {Free, Gate}
  BY <1>1, BrokerAssumption
<1> QED BY <1>2 DEF LaneHeld

LEMMA GateInv ==
  ASSUME JobInv, GateStep
  PROVE  JobInv'
<1>1. /\ QueueTypeOK /\ SubjectsOK /\ RowsOK /\ GatesHeld /\ SlotsOK /\ SlotsApart /\ LaneHeld
      /\ Integrating /\ WorkBound /\ DeliveredBound /\ jobs \in Seq(Row)
      /\ lock \in [Pools -> Processes \cup {Free, Gate}]
      /\ enrolled \subseteq Pools /\ outages \in [coord: Nat, start: Nat]
      /\ coord \in {"down", "serving", "stopping"}
  BY DEF JobInv, LeaseInv, QueueTypeOK, BrokerTypeOK, Row
<1>2. UNCHANGED <<recordVars, remoteVars, br, faults, jobs, slot, waiting>>
  BY DEF GateStep, Enable, TakeGate, Disable, Serve, Shutdown, StopSignal, Kill, allVars,
         brokerVars, remoteVars, queueVars
<1>3. /\ lock' \in [Pools -> Processes \cup {Free, Gate}]
      /\ \A p \in Pools : lock'[p] = lock[p] \/ lock[p] \in {Free, Gate}
      /\ Used # {} => enrolled' = enrolled
      /\ Used # {} => \A p \in enrolled : lock[p] = Gate => lock'[p] = Gate
  <2>1. CASE \E p \in Pools : TakeGate(p)
    BY <1>1, <2>1 DEF TakeGate, queueVars
  <2>2. CASE (\E p \in Pools : Enable(p)) \/ Disable \/ Serve \/ StopSignal
    BY <1>1, <2>2 DEF Enable, Disable, Serve, StopSignal, allVars, brokerVars, CoordinatorLockFree
  <2>3. CASE Shutdown \/ Kill
    <3>1. lock' = DropGates \/ lock' = lock
      BY <2>3 DEF Shutdown, Kill, GatesLeft
    <3>2. Used # {} => lock' = lock
      BY <2>3 DEF Shutdown, Kill, GatesLeft
    <3>3. enrolled' = enrolled
      BY <2>3 DEF Shutdown, Kill
    <3> QED BY <1>1, <3>1, <3>2, <3>3, GatesDropped
  <2> QED BY <2>1, <2>2, <2>3 DEF GateStep
<1>4. /\ coord' \in {"down", "serving", "stopping"} /\ enrolled' \subseteq Pools
      /\ outages' \in [coord: Nat, start: Nat]
      /\ \A i \in Rows : Active(i) => jobs[i].pool \in enrolled'
  <2>1. CASE Disable
    BY <1>1, <2>1 DEF Disable
  <2>2. CASE StopSignal \/ Kill
    <3>1. outages' = [outages EXCEPT !.coord = @ + 1] /\ enrolled' = enrolled
          /\ coord' \in {"down", "stopping"}
      BY <2>2 DEF StopSignal, Kill
    <3> QED BY <1>1, <3>1 DEF RowsOK
  <2>3. CASE \E p \in Pools : Enable(p) \/ TakeGate(p)
    BY <1>1, <2>3 DEF Enable, TakeGate, queueVars, RowsOK
  <2>4. CASE Serve \/ Shutdown
    BY <1>1, <2>4 DEF Serve, Shutdown, RowsOK
  <2> QED BY <2>1, <2>2, <2>3, <2>4 DEF GateStep
<1>5. BrokerTypeOK' /\ SubjectsOK' /\ Integrating'
  BY <1>2, <1>3, SystemKept
<1>6. QueueTypeOK'
  BY <1>1, <1>2, <1>4, <1>5 DEF QueueTypeOK
<1>7. RowsKept /\ Rows' = Rows
  BY <1>1, <1>2 DEF RowsKept, Rows, Active
<1>8. RowsOK'
  <2>1. \A i \in Rows : jobs'[i].state = "delivered" => jobs[i].op = "integrate"
    BY <1>1, <1>2 DEF RowsOK
  <2> QED BY <1>1, <1>4, <1>7, <2>1, RowsStay
<1>9. Used' = Used /\ SlotsOK' /\ SlotsApart'
  <2>1. \A w \in Used : jobs'[Job(w)].state = "running"
    BY <1>1, <1>2 DEF SlotsOK
  <2> QED BY <1>1, <1>2, <1>7, <2>1, SlotsStay
<1>10. GatesHeld'
  BY <1>1, <1>3, <1>9 DEF GatesHeld, AllGates
<1>11. LaneHeld'
  BY <1>1, <1>2, <1>3, LaneHeldStays
<1>12. WorkBound' /\ DeliveredBound'
  <2>1. \A i \in Rows' : jobs'[i].state = "delivered" =>
           i \in Rows /\ jobs[i].state = "delivered" /\ journal'[Owner(i)] = journal[Owner(i)]
    BY <1>2, <1>7 DEF recordVars
  <2> QED BY <1>1, <1>2, <1>7, <2>1, BoundsStay DEF Working, recordVars
<1> QED BY <1>1, <1>5, <1>6, <1>8, <1>9, <1>10, <1>11, <1>12 DEF JobInv, LeaseInv

-----------------------------------------------------------------------------
(* Who has what in hand *)

\* A worker with a session in hand has the row of that session, and the lane of
\* its pool is a gate.
LEMMA WorkerHolds ==
  ASSUME LeaseInv, NEW w \in Workers, Busy(w), Subject(w) # None
  PROVE  /\ w \in Used /\ Job(w) \in Rows /\ jobs[Job(w)].state = "running"
         /\ Subject(w) = Owner(Job(w)) /\ ~IsGc(Job(w)) /\ Subject(w) \in Sessions
         /\ PoolOf[Subject(w)] \in enrolled /\ lock[PoolOf[Subject(w)]] = Gate
<1>1. /\ w \in Used /\ Job(w) \in Rows /\ jobs[Job(w)].state = "running"
      /\ Subject(w) = Owner(Job(w))
  BY DEF LeaseInv, SlotsOK
<1>2. ~IsGc(Job(w)) /\ jobs[Job(w)].pool = PoolOf[Subject(w)] /\ jobs[Job(w)].pool \in enrolled
  BY <1>1 DEF LeaseInv, RowsOK, Active, ActiveStates
<1>3. Subject(w) \in Sessions
  BY <1>1, RowsAre DEF LeaseInv, QueueTypeOK, Owner, Row
<1> QED BY <1>1, <1>2, <1>3 DEF LeaseInv, GatesHeld, AllGates

\* No two processes, direct or queued, have one session in hand.
LEMMA HandsApart == LeaseInv => SessionExclusive
<1> SUFFICES ASSUME LeaseInv, NEW a \in Processes, NEW b \in Processes, Busy(a), Busy(b), a # b,
                    Subject(a) = Subject(b), Subject(a) # None
             PROVE  FALSE
  BY DEF SessionExclusive
<1>1. \A w \in Workers : Busy(w) /\ Subject(w) = Subject(a) =>
        /\ w \in Used /\ Subject(w) = Owner(Job(w)) /\ ~IsGc(Job(w))
        /\ lock[PoolOf[Subject(a)]] = Gate
  BY WorkerHolds
<1>2. \A x \in Brokers : Busy(x) => lock[PoolOf[Subject(x)]] = x /\ x # Gate
  BY BrokerAssumption DEF LeaseInv, LaneHeld, Processes
<1>3. CASE a \in Workers /\ b \in Workers
  BY <1>1, <1>3 DEF LeaseInv, SlotsApart
<1>4. CASE a \in Brokers \/ b \in Brokers
  BY <1>1, <1>2, <1>4 DEF Processes
<1> QED BY <1>3, <1>4 DEF Processes

LEMMA JobWork ==
  ASSUME JobInv
  PROVE  WorkInv /\ TypeInv /\ OneEach
<1>1. LeaseInv /\ Integrating /\ TypeInv
  BY DEF JobInv, LeaseInv, QueueTypeOK, TypeInv
<1>2. OneEach
  <2> SUFFICES ASSUME NEW a \in Processes, NEW b \in Processes, Working(a), Working(b), a # b
               PROVE  Subject(a) # Subject(b)
    BY DEF OneEach
  <2>1. Busy(a) /\ Busy(b) /\ Subject(a) \in Sessions
    BY <1>1 DEF Working, Busy, TypeInv, SubjectsOK
  <2> QED BY <1>1, <2>1, HandsApart, BrokerAssumption DEF SessionExclusive
<1> QED BY <1>1, <1>2 DEF WorkInv

-----------------------------------------------------------------------------
(* The pools beside the queue *)

\* The owner of a session moves it between these states only.
OwnerStates == {"OPEN", "ABANDONED", "CONFLICT", "CLOSED"}
OwnerMoves(s) ==
  State(s) \in OwnerStates /\ journal'[s].state \in {"OPEN", "CLOSED", "ABANDONED", "SUBMITTED"}

LEMMA OwnerJournal ==
  ASSUME TypeInv, OwnerStep, NEW s \in Sessions
  PROVE  journal'[s] = journal[s] \/ OwnerMoves(s)
<1>1. journal \in [Sessions -> Journals]
  BY DEF TypeInv, BrokerTypeOK, RecordTypeOK
<1>2. PICK t \in Sessions :
        \/ \E c \in Contents : Submit(t, c)
        \/ CloseClean(t) \/ Exit(t) \/ LauncherDies(t) \/ List(t) \/ Resume(t)
  BY DEF OwnerStep
<1>3. \/ journal' = journal
      \/ /\ State(t) \in OwnerStates
         /\ \E to \in {"OPEN", "CLOSED", "ABANDONED", "SUBMITTED"}, c \in Identities :
              Transition(t, to, c)
  BY <1>2 DEF Submit, CloseClean, Exit, LauncherDies, List, Resume, Reopen, OwnerStates, Identities
<1> QED BY <1>1, <1>3 DEF Transition, OwnerMoves

\* A broker without a gate changes the journal of no session whose lane is one,
\* and nobody changes a delivered one.
LEMMA PoolJournal ==
  ASSUME JobInv, [Next]_allVars, NEW s \in Sessions
  PROVE  \/ journal'[s] = journal[s]
         \/ OwnerMoves(s)
         \/ State(s) # "DELIVERED" /\ lock[PoolOf[s]] # Gate
<1>1. TypeInv /\ LaneHeld /\ Integrating
  BY JobWork DEF JobInv, LeaseInv
<1>2. ASSUME NEW b \in Brokers, BrokerStep(b)
      PROVE  journal'[s] = journal[s] \/ (State(s) # "DELIVERED" /\ lock[PoolOf[s]] # Gate)
  <2>1. b \in Processes /\ b # Gate
    BY BrokerAssumption DEF Processes
  <2>2. Busy(b) /\ Working(b) /\ (GoesOn(b) \/ (Ends(b) /\ LeavesOthers(Subject(b))))
    BY <1>1, <1>2, <2>1, StepShape
  <2>3. State(Subject(b)) = "INTEGRATING" /\ lock[PoolOf[Subject(b)]] = b
    BY <1>1, <2>1, <2>2 DEF Integrating, LaneHeld
  <2> QED BY <2>1, <2>2, <2>3 DEF GoesOn, LeavesOthers
<1>3. ASSUME NEW b \in Brokers, NEW t \in Sessions, Integrate(b, t) \/ Recover(b, t)
      PROVE  journal'[s] = journal[s] \/ (State(s) # "DELIVERED" /\ lock[PoolOf[s]] # Gate)
  <2>1. lock[PoolOf[t]] # Gate /\ State(t) # "DELIVERED"
    BY <1>3, BrokerAssumption DEF Integrate, Recover, TakesLane, LaneOpen, Enter, Reconcile
  <2>2. LeavesOthers(t)
    BY <1>3, TransitionLocal DEF Integrate, Enter, Recover, Reconcile, LeavesOthers
  <2> QED BY <2>1, <2>2 DEF LeavesOthers
<1>4. ASSUME NEW t \in Sessions, LaneStep(t)
      PROVE  journal'[s] = journal[s] \/ (State(s) # "DELIVERED" /\ lock[PoolOf[s]] # Gate)
  <2>1. lock[PoolOf[t]] # Gate /\ State(t) # "DELIVERED"
    BY <1>4, BrokerAssumption DEF LaneStep, LaneOpen, RecoverReopen, Discard
  <2>2. LeavesOthers(t)
    BY <1>4, TransitionLocal DEF LaneStep, RecoverReopen, Reopen, Discard
  <2> QED BY <2>1, <2>2 DEF LeavesOthers
<1>5. CASE OwnerStep /\ UNCHANGED brokerVars
  BY <1>1, <1>5, OwnerJournal
<1>6. CASE Environment \/ UNCHANGED allVars \/ \E b \in Brokers : Stop(b)
  BY <1>6 DEF Environment, OtherPush, RenameOrigin, Stop, allVars, recordVars
<1> QED BY <1>2, <1>3, <1>4, <1>5, <1>6 DEF Next

\* A gate stays one, whatever the brokers do.
LEMMA PoolGates ==
  ASSUME TypeInv, [Next]_allVars, NEW p \in Pools, lock[p] = Gate
  PROVE  lock'[p] = Gate
<1>1. lock \in [Pools -> Processes \cup {Free, Gate}]
  BY DEF TypeInv, BrokerTypeOK
<1>2. ASSUME NEW b \in Brokers, BrokerStep(b) \/ Stop(b)
      PROVE  lock'[p] = Gate
  <2>1. b \in Processes /\ b # Gate
    BY BrokerAssumption DEF Processes
  <2>2. lock' = lock \/ Ends(b)
    BY <1>2, <2>1, StepShape DEF Stop, GoesOn
  <2> QED BY <2>1, <2>2 DEF Ends
<1>3. ASSUME NEW b \in Brokers, NEW s \in Sessions, Integrate(b, s) \/ Recover(b, s)
      PROVE  lock'[p] = Gate
  <2>1. lock[PoolOf[s]] = Free /\ Free # Gate
    BY <1>3, BrokerAssumption DEF Integrate, Recover, TakesLane, LaneOpen
  <2>2. \A q \in Pools : q # PoolOf[s] => lock'[q] = lock[q]
    BY <1>1, <1>3 DEF Integrate, Recover
  <2> QED BY <2>1, <2>2
<1> QED BY <1>2, <1>3 DEF Next, LaneStep, Environment, OtherPush, RenameOrigin,
                          allVars, brokerVars

LEMMA PoolInv ==
  ASSUME JobInv, PoolStep
  PROVE  JobInv'
<1>1. /\ QueueTypeOK /\ SubjectsOK /\ RowsOK /\ GatesHeld /\ SlotsOK /\ SlotsApart /\ LaneHeld
      /\ Integrating /\ WorkBound /\ DeliveredBound /\ jobs \in Seq(Row)
      /\ enrolled \subseteq Pools /\ TypeInv
  BY JobWork DEF JobInv, LeaseInv, QueueTypeOK, Row
<1>2. /\ [Next]_allVars /\ UNCHANGED <<jobs, slot, coord, enrolled, outages>>
      /\ waiting' \in [Brokers -> Sessions \cup {None}]
  BY DEF PoolStep
<1>3. TypeInv' /\ LaneHeld'
  BY <1>1, <1>2, NextType, LaneStepInductive
<1>4. QueueTypeOK' /\ SubjectsOK'
  BY <1>1, <1>2, <1>3 DEF QueueTypeOK, TypeInv
<1>5. RowsKept /\ Rows' = Rows
  BY <1>1, <1>2 DEF RowsKept, Rows, Active
<1>6. RowsOK'
  <2>1. \A i \in Rows : jobs'[i].state = "delivered" => jobs[i].op = "integrate"
    BY <1>1, <1>2 DEF RowsOK
  <2>2. \A i \in Rows : Active(i) => jobs[i].pool \in enrolled'
    BY <1>1, <1>2 DEF RowsOK
  <2> QED BY <1>1, <1>5, <2>1, <2>2, RowsStay
<1>7. \A w \in Workers : br'[w] = br[w]
  BY <1>1, <1>2, WorkersStill
<1>8. Used' = Used /\ SlotsOK' /\ SlotsApart'
  <2>1. \A w \in Used : jobs'[Job(w)].state = "running"
    BY <1>1, <1>2 DEF SlotsOK
  <2> QED BY <1>1, <1>2, <1>5, <1>7, <2>1, SlotsStay
<1>9. GatesHeld'
  <2>1. GatesStay
    BY <1>1, <1>2, PoolGates DEF GatesStay
  <2> QED BY <1>1, <1>2, <1>8, <2>1, GatesHeldStay
<1>10. \A w \in Used : Owner(Job(w)) \in Sessions =>
         journal'[Owner(Job(w))] = journal[Owner(Job(w))] \/ OwnerMoves(Owner(Job(w)))
  <2> SUFFICES ASSUME NEW w \in Used, Owner(Job(w)) \in Sessions
               PROVE  lock[PoolOf[Owner(Job(w))]] = Gate
    BY <1>2, PoolJournal
  <2>1. Job(w) \in Rows /\ Active(Job(w)) /\ ~IsGc(Job(w))
    BY <1>1, BrokerAssumption DEF SlotsOK, Active, ActiveStates, RowsOK
  <2> QED BY <1>1, <2>1 DEF GatesHeld, AllGates, RowsOK
<1>11. Integrating'
  <2>1. BusyIntegrating'
    <3>1. BusyIntegrating
      BY <1>1 DEF BusyIntegrating, Integrating, SubjectsOK, Processes
    <3> QED BY <1>1, <1>2, <3>1, BusyIntegratingStep
  <2>2. ASSUME NEW b \in Brokers, br'[b].pc \notin {"idle", "start"}
        PROVE  journal'[br'[b].session].state = "INTEGRATING"
    BY <2>1, <2>2 DEF BusyIntegrating, Busy, Subject, State
  <2>3. ASSUME NEW w \in Workers, Working(w)
        PROVE  journal'[Subject(w)].state = "INTEGRATING"
    <3>1. Busy(w) /\ Subject(w) \in Sessions /\ State(Subject(w)) = "INTEGRATING"
      BY <1>1, <2>3 DEF Working, Busy, Integrating, SubjectsOK, Processes
    <3>2. w \in Used /\ Subject(w) = Owner(Job(w))
      BY <1>1, <3>1 DEF SlotsOK
    <3> QED BY <1>10, <3>1, <3>2 DEF OwnerMoves, OwnerStates, State
  <2> QED BY <1>7, <2>2, <2>3 DEF Integrating, Working, Subject, State, Processes
<1>12. WorkBound' /\ DeliveredBound'
  <2>1. ASSUME NEW i \in Rows', jobs'[i].state = "delivered"
        PROVE  i \in Rows /\ jobs[i].state = "delivered" /\ journal'[Owner(i)] = journal[Owner(i)]
    <3>1. i \in Rows /\ jobs[i].state = "delivered" /\ State(Owner(i)) = "DELIVERED"
      BY <1>1, <1>2, <1>5, <2>1 DEF DeliveredBound
    <3>2. Owner(i) \in Sessions
      BY <1>1, <3>1, RowsAre DEF RowsOK, IsGc, Owner, Row
    <3> QED BY <1>2, <3>1, <3>2, PoolJournal DEF OwnerMoves, OwnerStates
  <2>2. ASSUME NEW w \in Used, jobs[Job(w)].op = "integrate"
        PROVE  \/ /\ journal'[Owner(Job(w))] = journal[Owner(Job(w))]
                  /\ br'[w].pc \notin {"idle", "start"} => Working(w)
               \/ /\ br'[w].pc \in {"idle", "start"}
                  /\ journal'[Owner(Job(w))].state # "DELIVERED"
    <3>1. Job(w) \in Rows /\ Owner(Job(w)) \in Sessions /\ w \in Workers
      BY <1>1, <2>2, RowsAre DEF SlotsOK, RowsOK, IsGc, Owner, Row, Used
    <3>2. Working(w) => State(Owner(Job(w))) = "INTEGRATING"
      BY <1>1, <3>1 DEF Working, Busy, Integrating, SlotsOK, Processes
    <3> QED BY <1>7, <1>10, <2>2, <3>1, <3>2 DEF OwnerMoves, OwnerStates, Working, State
  <2> QED BY <1>1, <1>2, <1>5, <2>1, <2>2, BoundsStay
<1> QED BY <1>1, <1>3, <1>4, <1>6, <1>8, <1>9, <1>11, <1>12 DEF JobInv, LeaseInv

-----------------------------------------------------------------------------
(* Workers come and go *)

LEMMA ClaimInv ==
  ASSUME JobInv, NEW i \in Rows, NEW w \in Workers, Claim(i, w)
  PROVE  JobInv'
<1>1. /\ QueueTypeOK /\ SubjectsOK /\ RowsOK /\ GatesHeld /\ SlotsOK /\ SlotsApart /\ LaneHeld
      /\ Integrating /\ WorkBound /\ DeliveredBound /\ jobs \in Seq(Row) /\ jobs[i] \in Row
      /\ slot \in [Workers -> [job: Nat, rc: Nat]] /\ br \in [Processes -> Locals]
      /\ w \in Processes /\ w \notin Brokers /\ i \in Nat
  BY SMTT(40), RowsAre, BrokerAssumption DEF JobInv, LeaseInv, QueueTypeOK, BrokerTypeOK, Row, Processes
<1>2. /\ AllGates /\ Active(i) /\ ~Running(i) /\ LeasesFree(i) /\ jobs[i].attempt < 2
      /\ InputsBound(i) /\ Job(w) = 0
      /\ jobs' = [jobs EXCEPT ![i].state = "running", ![i].attempt = @ + 1]
      /\ slot' = [slot EXCEPT ![w] = [job |-> i, rc |-> 0]]
      /\ br' = [br EXCEPT ![w] = Fresh("start", Owner(i))]
      /\ UNCHANGED <<recordVars, remoteVars, lock, faults, coord, enrolled, waiting, outages>>
  BY DEF Claim, Considers, AttemptsLeft
<1> DEFINE r == [jobs[i] EXCEPT !.state = "running", !.attempt = @ + 1]
<1>3. /\ r \in Row /\ r.state = "running" /\ r.op = jobs[i].op /\ r.owner = Owner(i)
      /\ r.pool = jobs[i].pool /\ r.identity = jobs[i].identity
      /\ jobs' = [jobs EXCEPT ![i] = r]
  <2>1. \A x \in Row : x.attempt < 2 =>
          [x EXCEPT !.state = "running", !.attempt = @ + 1] \in Row
    <3>1. \A n \in 0..2 : n < 2 => n + 1 \in 0..2
      OBVIOUS
    <3>2. "running" \in JobStates
      BY DEF JobStates, ActiveStates
    <3> QED BY <3>1, <3>2 DEF Row
  <2> QED BY ZenonT(40), <1>1, <1>2, <2>1 DEF Row, Owner
<1> HIDE DEF r
<1>4. /\ jobs' \in Seq(Row) /\ Rows' = Rows
      /\ \A j \in Rows : jobs'[j] = IF j = i THEN r ELSE jobs[j]
  BY <1>1, <1>3, RowWritten
<1>5. RowsKept
  BY <1>2, <1>3, <1>4 DEF RowsKept, Active, Owner
<1>6. Owner(i) \in Sessions \cup {None} /\ Fresh("start", Owner(i)) \in Locals
  BY <1>1 DEF Owner, Row, Fresh, Locals, Steps
<1>7. /\ \A a \in Processes \ {w} : br'[a] = br[a]
      /\ br'[w].pc = "start" /\ br'[w].session = Owner(i)
      /\ br' \in [Processes -> Locals]
  BY <1>1, <1>2, <1>6 DEF Fresh
<1>8. SubjectsOK' /\ Integrating' /\ LaneHeld'
  BY <1>1, <1>2, <1>7
     DEF SubjectsOK, Integrating, LaneHeld, Working, Busy, Subject, State, Processes, recordVars
<1>9. QueueTypeOK'
  <2>1. BrokerTypeOK'
    BY <1>1, <1>2, <1>7 DEF QueueTypeOK, BrokerTypeOK, RecordTypeOK, recordVars, remoteVars
  <2>2. slot' \in [Workers -> [job: Nat, rc: Nat]]
    BY <1>1, <1>2
  <2> QED BY <1>1, <1>2, <1>4, <2>1, <2>2 DEF QueueTypeOK, Row
<1>10. RowsOK'
  <2>1. \A j \in Rows : jobs'[j].state = "delivered" => jobs[j].op = "integrate"
    BY <1>1, <1>3, <1>4 DEF RowsOK
  <2>2. \A j \in Rows : Active(j) => jobs[j].pool \in enrolled'
    BY <1>1, <1>2 DEF RowsOK
  <2> QED BY <1>1, <1>4, <1>5, <2>1, <2>2, RowsStay
<1>11. GatesHeld'
  BY <1>2 DEF GatesHeld, AllGates
<1>12. /\ Used' = Used \cup {w} /\ w \notin Used /\ slot'[w].job = i
       /\ \A v \in Used : slot'[v].job = Job(v) /\ Job(v) \in Rows /\ Job(v) # i
                          /\ jobs'[Job(v)] = jobs[Job(v)]
  <2>1. \A v \in Workers : slot'[v].job = IF v = w THEN i ELSE Job(v)
    BY <1>1, <1>2 DEF Job
  <2>2. i # 0
    BY <1>1, RowsAre
  <2>3. \A v \in Used : v \in Workers /\ Job(v) # i /\ Job(v) \in Rows
    BY <1>1, <1>2 DEF Running, SlotsOK, Used
  <2>4. Used' = Used \cup {w} /\ w \notin Used
    BY <1>2, <2>1, <2>2 DEF Used, Job
  <2> QED BY <1>4, <2>1, <2>3, <2>4
<1>13. SlotsOK'
  <2>1. \A v \in Used' : slot'[v].job \in Rows' /\ jobs'[slot'[v].job].state = "running"
    BY <1>1, <1>3, <1>4, <1>12 DEF SlotsOK
  <2>2. \A v \in Workers : br'[v].pc # "idle" =>
          v \in Used' /\ br'[v].session = jobs'[slot'[v].job].owner
    <3> SUFFICES ASSUME NEW v \in Workers, br'[v].pc # "idle"
                 PROVE  v \in Used' /\ br'[v].session = jobs'[slot'[v].job].owner
      OBVIOUS
    <3>1. CASE v = w
      BY <1>3, <1>4, <1>7, <1>12, <3>1
    <3>2. CASE v # w
      BY <1>1, <1>7, <1>12, <3>2 DEF SlotsOK, Busy, Subject, Owner, Processes
    <3> QED BY <3>1, <3>2
  <2> QED BY <2>1, <2>2 DEF SlotsOK, Job, Busy, Subject, Owner
<1>14. SlotsApart'
  <2>1. \A v \in Used :
          /\ Owner(Job(v)) = Owner(i) => IsGc(i) /\ IsGc(Job(v))
          /\ IsGc(i) \/ IsGc(Job(v)) => jobs[Job(v)].pool # jobs[i].pool
    BY <1>1, <1>2 DEF LeasesFree, RowsOK, SlotsOK
  <2> SUFFICES ASSUME NEW u \in Used', NEW v \in Used', u # v
               PROVE  /\ slot'[u].job # slot'[v].job
                      /\ jobs'[slot'[u].job].owner = jobs'[slot'[v].job].owner
                           => jobs'[slot'[u].job].op = "gc"
                      /\ jobs'[slot'[u].job].op = "gc"
                           => jobs'[slot'[u].job].pool # jobs'[slot'[v].job].pool
    BY DEF SlotsApart, Job, Owner, IsGc
  <2>2. CASE u = w
    BY <1>3, <1>4, <1>12, <2>1, <2>2 DEF Owner, IsGc
  <2>3. CASE v = w
    BY <1>3, <1>4, <1>12, <2>1, <2>3 DEF Owner, IsGc
  <2>4. CASE u # w /\ v # w
    BY SMTT(40), <1>1, <1>12, <2>4 DEF SlotsApart, Owner, IsGc
  <2> QED BY <2>2, <2>3, <2>4
<1>15. WorkBound'
  <2> SUFFICES ASSUME NEW v \in Used', jobs'[slot'[v].job].op = "integrate",
                      br'[v].pc \notin {"idle", "start"}
                        \/ journal[jobs'[slot'[v].job].owner].state = "DELIVERED"
               PROVE  journal[jobs'[slot'[v].job].owner].identity = jobs'[slot'[v].job].identity
    BY ZenonT(40), <1>2 DEF WorkBound, Job, Working, State, Identity, Owner, recordVars
  <2>1. CASE v = w
    BY <1>2, <1>3, <1>4, <1>7, <1>12, <2>1 DEF InputsBound, Identity, Owner
  <2>2. CASE v # w
    <3>1. v \in Used /\ br'[v] = br[v]
      BY <1>7, <1>12, <2>2 DEF Used, Processes
    <3> QED BY <1>1, <1>12, <3>1 DEF WorkBound, Working, State, Identity, Owner
  <2> QED BY SMTT(40), <2>1, <2>2
<1>16. DeliveredBound'
  <2> SUFFICES ASSUME NEW j \in Rows, jobs'[j].state = "delivered"
               PROVE  /\ journal[jobs'[j].owner].state = "DELIVERED"
                      /\ journal[jobs'[j].owner].identity = jobs'[j].identity
    BY <1>2, <1>4 DEF DeliveredBound, State, Identity, Owner, recordVars
  <2>1. j # i /\ jobs'[j] = jobs[j]
    BY <1>3, <1>4
  <2> QED BY <1>1, <2>1 DEF DeliveredBound, State, Identity, Owner
<1> QED BY <1>1, <1>8, <1>9, <1>10, <1>11, <1>13, <1>14, <1>15, <1>16 DEF JobInv, LeaseInv

\* A worker that has let go of everything gives its row back.
LEMMA VacateInv ==
  ASSUME JobInv, NEW w \in Workers, Finish(w) \/ OrphanGone(w)
  PROVE  JobInv'
<1>1. /\ QueueTypeOK /\ SubjectsOK /\ RowsOK /\ GatesHeld /\ SlotsOK /\ SlotsApart /\ LaneHeld
      /\ Integrating /\ WorkBound /\ DeliveredBound /\ jobs \in Seq(Row)
      /\ slot \in [Workers -> [job: Nat, rc: Nat]]
      /\ lock \in [Pools -> Processes \cup {Free, Gate}]
  BY DEF JobInv, LeaseInv, QueueTypeOK, BrokerTypeOK, Row
<1>2. /\ Job(w) # 0 /\ ~Busy(w) /\ w \in Used
      /\ slot' = [slot EXCEPT ![w] = FreeSlot]
      /\ UNCHANGED <<recordVars, remoteVars, br, faults, coord, enrolled, waiting, outages>>
  BY DEF Finish, OrphanGone, Vacated, Used, allVars, brokerVars, remoteVars
<1>3. Job(w) \in Rows /\ jobs[Job(w)] \in Row /\ jobs[Job(w)].state = "running"
  BY <1>1, <1>2, RowsAre DEF SlotsOK
<1>4. \/ jobs' = jobs
      \/ \E r \in Row :
           /\ jobs' = [jobs EXCEPT ![Job(w)] = r]
           /\ r.op = jobs[Job(w)].op /\ r.owner = Owner(Job(w)) /\ r.pool = jobs[Job(w)].pool
           /\ r.identity = jobs[Job(w)].identity
           /\ r.state = "delivered" =>
                r.op = "integrate" /\ State(Owner(Job(w))) = "DELIVERED"
  <2>1. CASE OrphanGone(w)
    BY <2>1 DEF OrphanGone
  <2>2. CASE Finish(w)
    <3> DEFINE o == Outcome(Job(w), slot[w].rc)
               c == slot[w].rc
               r == [jobs[Job(w)] EXCEPT !.state = o, !.rc = c]
    <3>1. o \in JobStates /\ c \in Nat
      BY <1>1, <1>2 DEF Outcome, JobStates, ActiveStates, Used
    <3>2. o = "delivered" => jobs[Job(w)].op = "integrate" /\ State(Owner(Job(w))) = "DELIVERED"
      BY DEF Outcome
    <3>3. jobs' = [jobs EXCEPT ![Job(w)].state = o, ![Job(w)].rc = c]
      BY <2>2 DEF Finish
    <3> HIDE DEF o, c
    <3>4. /\ r \in Row /\ r.op = jobs[Job(w)].op /\ r.owner = Owner(Job(w))
          /\ r.pool = jobs[Job(w)].pool /\ r.identity = jobs[Job(w)].identity /\ r.state = o
          /\ jobs' = [jobs EXCEPT ![Job(w)] = r]
      BY <1>1, <1>3, <3>1, <3>3 DEF Row, Owner
    <3> QED BY <3>2, <3>4
  <2> QED BY <2>1, <2>2
<1>5. /\ jobs' \in Seq(Row) /\ Rows' = Rows /\ RowsKept
      /\ \A j \in Rows : j # Job(w) => jobs'[j] = jobs[j]
      /\ jobs'[Job(w)].owner = Owner(Job(w))
      /\ jobs'[Job(w)].identity = jobs[Job(w)].identity
      /\ jobs'[Job(w)].state = "delivered" =>
           jobs[Job(w)].op = "integrate" /\ State(Owner(Job(w))) = "DELIVERED"
  <2>1. CASE jobs' = jobs
    BY <1>1, <1>3, <2>1 DEF RowsKept, Rows, Active, Owner
  <2>2. CASE jobs' # jobs
    <3>1. PICK r \in Row :
           /\ jobs' = [jobs EXCEPT ![Job(w)] = r]
           /\ r.op = jobs[Job(w)].op /\ r.owner = Owner(Job(w)) /\ r.pool = jobs[Job(w)].pool
           /\ r.identity = jobs[Job(w)].identity
           /\ r.state = "delivered" =>
                r.op = "integrate" /\ State(Owner(Job(w))) = "DELIVERED"
      BY <1>4, <2>2
    <3>2. /\ jobs' \in Seq(Row) /\ Rows' = Rows
          /\ \A j \in Rows : jobs'[j] = IF j = Job(w) THEN r ELSE jobs[j]
      BY <1>1, <1>3, <3>1, RowWritten
    <3>3. RowsKept
      BY <1>3, <3>1, <3>2 DEF RowsKept, Active, ActiveStates, Owner
    <3> QED BY <1>3, <3>1, <3>2, <3>3
  <2> QED BY <2>1, <2>2
<1>6. /\ Used' = Used \ {w} /\ \A v \in Used \ {w} : slot'[v].job = Job(v)
      /\ \A v \in Used \ {w} : Job(v) \in Rows /\ Job(v) # Job(w) /\ jobs'[Job(v)] = jobs[Job(v)]
  <2>1. \A v \in Workers : slot'[v].job = IF v = w THEN 0 ELSE Job(v)
    BY <1>1, <1>2 DEF Job, FreeSlot
  <2>2. Used' = Used \ {w}
    BY <2>1 DEF Used, Job
  <2>3. \A v \in Used \ {w} : v \in Workers /\ Job(v) \in Rows /\ Job(v) # Job(w)
    BY <1>1, <1>2 DEF SlotsOK, SlotsApart, Used
  <2> QED BY <1>5, <2>1, <2>2, <2>3
<1>7. /\ lock' \in [Pools -> Processes \cup {Free, Gate}]
      /\ \A p \in Pools : lock'[p] = lock[p] \/ lock[p] \in {Free, Gate}
      /\ Used' # {} => lock' = lock
  <2>1. lock' = lock \/ (lock' = DropGates /\ Used \subseteq {w})
    BY DEF Finish, OrphanGone, GatesLeft, allVars, brokerVars
  <2> QED BY <1>1, <1>6, <2>1, GatesDropped
<1>8. BrokerTypeOK' /\ SubjectsOK' /\ Integrating'
  BY <1>2, <1>7, SystemKept
<1>9. QueueTypeOK'
  <2>1. slot' \in [Workers -> [job: Nat, rc: Nat]]
    BY <1>1, <1>2 DEF FreeSlot
  <2> QED BY <1>1, <1>2, <1>5, <1>8, <2>1 DEF QueueTypeOK, Row
<1>10. RowsOK'
  <2>1. \A j \in Rows : jobs'[j].state = "delivered" => jobs[j].op = "integrate"
    BY <1>1, <1>5 DEF RowsOK
  <2>2. \A j \in Rows : Active(j) => jobs[j].pool \in enrolled'
    BY <1>1, <1>2 DEF RowsOK
  <2> QED BY <1>1, <1>5, <2>1, <2>2, RowsStay
<1>11. GatesHeld'
  BY <1>1, <1>2, <1>6, <1>7 DEF GatesHeld, AllGates
<1>12. LaneHeld'
  BY <1>1, <1>2, <1>7, LaneHeldStays
<1>13. SlotsOK'
  <2>1. \A v \in Used' : slot'[v].job \in Rows' /\ jobs'[slot'[v].job].state = "running"
    BY <1>1, <1>5, <1>6 DEF SlotsOK
  <2>2. \A v \in Workers : br'[v].pc # "idle" =>
          v \in Used' /\ br'[v].session = jobs'[slot'[v].job].owner
    BY <1>1, <1>2, <1>6 DEF SlotsOK, Busy, Subject, Owner
  <2> QED BY <2>1, <2>2 DEF SlotsOK, Job, Busy, Subject, Owner
<1>14. SlotsApart'
  <2> SUFFICES ASSUME NEW u \in Used', NEW v \in Used', u # v
               PROVE  /\ slot'[u].job # slot'[v].job
                      /\ jobs'[slot'[u].job].owner = jobs'[slot'[v].job].owner
                           => jobs'[slot'[u].job].op = "gc"
                      /\ jobs'[slot'[u].job].op = "gc"
                           => jobs'[slot'[u].job].pool # jobs'[slot'[v].job].pool
    BY DEF SlotsApart, Job, Owner, IsGc
  <2> QED BY <1>1, <1>6 DEF SlotsApart, Owner, IsGc
<1>15. WorkBound'
  BY <1>1, <1>2, <1>6 DEF WorkBound, Working, Job, State, Identity, Owner, recordVars
<1>16. DeliveredBound'
  <2> SUFFICES ASSUME NEW j \in Rows, jobs'[j].state = "delivered"
               PROVE  /\ journal[jobs'[j].owner].state = "DELIVERED"
                      /\ journal[jobs'[j].owner].identity = jobs'[j].identity
    BY <1>2, <1>5 DEF DeliveredBound, State, Identity, Owner, recordVars
  <2>1. CASE j = Job(w)
    BY <1>1, <1>2, <1>5, <2>1 DEF WorkBound, State, Identity
  <2>2. CASE j # Job(w)
    BY <1>1, <1>5, <2>2 DEF DeliveredBound, State, Identity, Owner
  <2> QED BY <2>1, <2>2
<1> QED BY <1>1, <1>8, <1>9, <1>10, <1>11, <1>12, <1>13, <1>14, <1>15, <1>16
        DEF JobInv, LeaseInv

-----------------------------------------------------------------------------
(* Workers at work *)

\* What a step of worker w may do to the journal of its session s.
SessionMoves(w, s) ==
  \/ /\ journal'[s] = journal[s]
     /\ br'[w].pc \notin {"idle", "start"} => Working(w)
  \/ /\ State(s) # "DELIVERED" /\ journal'[s].identity = Identity(s)
     /\ jobs[Job(w)].op = "integrate" => Identity(s) = jobs[Job(w)].identity
     /\ br'[w].pc \notin {"idle", "start"} => journal'[s].state = "INTEGRATING"
  \/ /\ State(s) # "DELIVERED" /\ journal'[s].state # "DELIVERED"
     /\ br'[w].pc \in {"idle", "start"}

\* ... and to everything else.
WorkerMoves(w) ==
  /\ \A a \in Processes \ {w} : br'[a] = br[a]
  /\ br'[w].pc # "idle" => br'[w].session = Subject(w)
  /\ \A p \in Pools : lock'[p] = lock[p] \/ lock[p] = w
  /\ \A s \in Sessions \ {Subject(w)} : journal'[s] = journal[s]
  /\ Subject(w) \in Sessions => SessionMoves(w, Subject(w))

\* What the end of a process leaves.
LEMMA EndsMoves ==
  ASSUME TypeInv, NEW w \in Processes, Ends(w)
  PROVE  /\ \A a \in Processes \ {w} : br'[a] = br[a]
         /\ br'[w] = Idle /\ br'[w].pc = "idle"
         /\ \A p \in Pools : lock'[p] = lock[p] \/ lock[p] = w
BY DEF TypeInv, BrokerTypeOK, Ends, Idle, Fresh

\* A step of the broker that is not the last one leaves the journal alone; the
\* last one says DELIVERED only of the identity in the journal.
LEMMA StepEnds ==
  ASSUME TypeInv, NEW b \in Processes, BrokerStep(b)
  PROVE  \/ GoesOn(b)
         \/ /\ Ends(b)
            /\ \E to \in {"CONFLICT", "SUBMITTED", "DELIVERED"}, c \in Identities :
                 Transition(Subject(b), to, c) /\ (to = "DELIVERED" => c = Identity(Subject(b)))
<1>1. Working(b) /\ (GoesOn(b) \/ Ends(b))
  BY StepShape
<1>2. Subject(b) \in Sessions /\ Identity(Subject(b)) \in Identities /\ NoIdentity \in Identities
  BY <1>1, IdentityType DEF TypeInv, BrokerTypeOK, RecordTypeOK, SubjectsOK, Identities
<1>3. br'[b].pc # "idle" \/ Ends(b)
  BY <1>1 DEF GoesOn
<1>4. br \in [Processes -> Locals]
  BY DEF TypeInv, BrokerTypeOK
<1>5. ASSUME NEW to \in {"CONFLICT", "SUBMITTED", "DELIVERED"}, Concludes(b, to)
      PROVE  /\ Ends(b)
             /\ \E t \in {"CONFLICT", "SUBMITTED", "DELIVERED"}, c \in Identities :
                  Transition(Subject(b), t, c) /\ (t = "DELIVERED" => c = Identity(Subject(b)))
  BY <1>2, <1>5 DEF Concludes
<1>6. ASSUME Transition(Subject(b), "CONFLICT", NoIdentity), Ends(b)
      PROVE  \E t \in {"CONFLICT", "SUBMITTED", "DELIVERED"}, c \in Identities :
               Transition(Subject(b), t, c) /\ (t = "DELIVERED" => c = Identity(Subject(b)))
  BY <1>2, <1>6
<1>7. ASSUME NEW pc \in Steps \ {"idle"}, Goes(b, pc)
      PROVE  br'[b].pc # "idle"
  BY <1>4, <1>7 DEF Goes, Locals
<1>8. ASSUME Retries(b)
      PROVE  br'[b].pc # "idle" \/ Concludes(b, "CONFLICT")
  BY <1>4, <1>8 DEF Retries, Fresh
<1>9. ASSUME ~(\E to \in {"CONFLICT", "SUBMITTED", "DELIVERED"} : Concludes(b, to)),
             ~(Transition(Subject(b), "CONFLICT", NoIdentity) /\ Ends(b))
      PROVE  br'[b].pc # "idle"
  <2>1. CASE OriginConflict(b) \/ Verify(b) \/ EnterPublishing(b) \/ Readback(b) \/ Deliver(b)
    BY <1>7, <1>9, <2>1 DEF OriginConflict, Verify, EnterPublishing, Readback, Deliver, Steps
  <2>2. CASE Prepare(b)
    BY <1>4, <1>9, <2>2 DEF Prepare, Locals
  <2>3. CASE Commit(b)
    BY ZenonT(40), <1>4, <1>9, <2>3 DEF Commit, Locals
  <2>4. CASE WritePending(b) \/ Acknowledge(b)
    BY <1>7, <2>4 DEF WritePending, Acknowledge, Steps
  <2>5. CASE Fetch(b) \/ Push(b)
    BY <1>1, <1>7, <1>8, <1>9, <2>5 DEF Fetch, Push, Steps, Working
  <2> QED BY <2>1, <2>2, <2>3, <2>4, <2>5 DEF BrokerStep
<1>10. Ends(b) => br'[b].pc = "idle"
  BY EndsMoves
<1> QED BY <1>1, <1>5, <1>6, <1>9, <1>10

LEMMA WorkMoves ==
  ASSUME JobInv, NEW w \in Workers, BrokerStep(w) \/ Stop(w)
  PROVE  Busy(w) /\ TypeInv' /\ WorkerMoves(w)
<1>1. TypeInv /\ Integrating /\ WorkBound /\ SlotsOK /\ w \in Processes
  BY JobWork DEF JobInv, LeaseInv, Processes
<1>2. CASE Stop(w)
  <2>1. /\ Busy(w) /\ Ends(w) /\ UNCHANGED <<recordVars, remoteVars>>
        /\ faults' = [faults EXCEPT !.crash = @ + 1]
    BY <1>2 DEF Stop
  <2>2. TypeInv'
    <3>1. HandOK'
      BY <1>1, <2>1, EndsHand, TypeParts
    <3>2. faults' \in [crash: Nat, other: Nat, lost: Nat, rename: Nat]
      BY <1>1, <2>1 DEF TypeInv, BrokerTypeOK
    <3> QED BY <1>1, <2>1, <3>1, <3>2
            DEF TypeInv, BrokerTypeOK, HandOK, RecordTypeOK, recordVars, remoteVars
  <2>3. WorkerMoves(w)
    BY <1>1, <2>1, EndsMoves DEF WorkerMoves, SessionMoves, recordVars
  <2> QED BY <2>1, <2>2, <2>3
<1>3. CASE BrokerStep(w)
  <2>1. Busy(w) /\ Working(w) /\ TypeInv'
    BY <1>1, <1>3, StepShape, BrokerStepType
  <2>2. /\ Subject(w) \in Sessions /\ State(Subject(w)) = "INTEGRATING"
        /\ journal \in [Sessions -> Journals]
    BY <1>1, <2>1 DEF Integrating, TypeInv, SubjectsOK, BrokerTypeOK, RecordTypeOK
  <2>3. CASE GoesOn(w)
    BY <2>1, <2>2, <2>3 DEF GoesOn, WorkerMoves, SessionMoves
  <2>4. CASE /\ Ends(w)
             /\ \E to \in {"CONFLICT", "SUBMITTED", "DELIVERED"}, c \in Identities :
                  Transition(Subject(w), to, c) /\ (to = "DELIVERED" => c = Identity(Subject(w)))
    <3>1. PICK to \in {"CONFLICT", "SUBMITTED", "DELIVERED"}, c \in Identities :
            Transition(Subject(w), to, c) /\ (to = "DELIVERED" => c = Identity(Subject(w)))
      BY <2>4
    <3>2. /\ journal'[Subject(w)].state = to /\ journal'[Subject(w)].identity = c
          /\ \A s \in Sessions \ {Subject(w)} : journal'[s] = journal[s]
      BY <2>2, <3>1 DEF Transition
    <3>3. /\ \A a \in Processes \ {w} : br'[a] = br[a]
          /\ br'[w].pc = "idle"
          /\ \A p \in Pools : lock'[p] = lock[p] \/ lock[p] = w
      BY <1>1, <2>4, EndsMoves
    <3>4. jobs[Job(w)].op = "integrate" => Identity(Subject(w)) = jobs[Job(w)].identity
      BY <1>1, <2>1 DEF SlotsOK, WorkBound
    <3>5. SessionMoves(w, Subject(w))
      BY <2>2, <3>1, <3>2, <3>3, <3>4 DEF SessionMoves
    <3> QED BY <2>1, <3>2, <3>3, <3>5 DEF WorkerMoves
  <2> QED BY <1>1, <1>3, <2>1, <2>3, <2>4, StepEnds
<1> QED BY <1>2, <1>3

LEMMA StartMoves ==
  ASSUME JobInv, NEW w \in Workers, Start(w)
  PROVE  /\ Busy(w) /\ TypeInv' /\ WorkerMoves(w)
         /\ slot' \in [Workers -> [job: Nat, rc: Nat]]
         /\ \A v \in Workers : slot'[v].job = slot[v].job
<1>1. /\ TypeInv /\ RecordTypeOK /\ HandOK /\ RowsOK /\ SlotsOK
      /\ w \in Processes /\ w \in Workers
      /\ br \in [Processes -> Locals] /\ journal \in [Sessions -> Journals]
      /\ slot \in [Workers -> [job: Nat, rc: Nat]] /\ jobs \in Seq(Row)
  BY JobWork, TypeParts DEF JobInv, LeaseInv, Processes, QueueTypeOK, BrokerTypeOK, HandOK,
     RecordTypeOK, Row
<1> DEFINE i == Job(w)
           s == Owner(Job(w))
<1>2. /\ At(w, "start") /\ Busy(w)
      /\ StartIntegrate(w) \/ StartControl(w)
      /\ UNCHANGED <<renamed, round, remoteVars, faults>>
  BY DEF Start, At, Busy
<1>3. Subject(w) = s /\ i \in Rows /\ jobs[i] \in Row
  BY <1>1, <1>2, RowsAre DEF SlotsOK
<1>4. jobs[i].op # "gc" => s \in Sessions
  BY <1>1, <1>3 DEF RowsOK, IsGc, Owner, Row
<1>5. br[w].pc = "start" /\ br[w] \in Locals
  BY <1>1, <1>2 DEF At
<1>6. s \in Sessions => Identity(s) \in Identities
  BY <1>1, IdentityType
<1> HIDE DEF i, s
<1>7. ASSUME RecordTypeOK', HandOK'
      PROVE  TypeInv'
  BY <1>1, <1>2, <1>7, TypeParts DEF remoteVars, TypeInv, BrokerTypeOK, HandOK
<1>8. \A n \in Nat : slot' = [slot EXCEPT ![w].rc = n] =>
        /\ slot' \in [Workers -> [job: Nat, rc: Nat]]
        /\ \A v \in Workers : slot'[v].job = slot[v].job
  BY <1>1
<1>9. ASSUME NEW n \in Nat, Exits(w, n), journal' \in [Sessions -> Journals],
             files' \in [Sessions -> EvidenceFiles], leased' \subseteq Sessions,
             \A t \in Sessions \ {s} : journal'[t] = journal[t],
             s \in Sessions => journal'[s] = journal[s]
               \/ (State(s) # "DELIVERED" /\ journal'[s].state # "DELIVERED")
      PROVE  /\ TypeInv' /\ WorkerMoves(w)
             /\ slot' \in [Workers -> [job: Nat, rc: Nat]]
             /\ \A v \in Workers : slot'[v].job = slot[v].job
  <2>1. HandOK' /\ RecordTypeOK'
    BY <1>1, <1>2, <1>9, EndsHand DEF Exits, RecordTypeOK
  <2>2. /\ \A a \in Processes \ {w} : br'[a] = br[a]
        /\ br'[w].pc = "idle"
        /\ \A p \in Pools : lock'[p] = lock[p] \/ lock[p] = w
    BY <1>1, <1>9, EndsMoves DEF Exits
  <2>3. WorkerMoves(w)
    BY <1>3, <1>9, <2>2 DEF WorkerMoves, SessionMoves
  <2> QED BY <1>7, <1>8, <1>9, <2>1, <2>3 DEF Exits
<1>10. ASSUME NEW rest \in Locals, rest \in {br[w], Idle}, s \in Sessions,
              Reconcile(w, s, rest), UNCHANGED <<leased, lock>>,
              \E n \in Nat : slot' = [slot EXCEPT ![w].rc = n],
              jobs[i].op = "integrate" => Identity(s) = jobs[i].identity
       PROVE  /\ TypeInv' /\ WorkerMoves(w)
              /\ slot' \in [Workers -> [job: Nat, rc: Nat]]
              /\ \A v \in Workers : slot'[v].job = slot[v].job
  <2>1. rest.pc \in {"idle", "start"} /\ (rest.pc # "idle" => rest.session = s)
    BY <1>3, <1>5, <1>10 DEF Idle, Fresh, Subject
  <2>2. HandOK' /\ RecordTypeOK'
    <3>1. /\ journal' \in [Sessions -> Journals] /\ files' \in [Sessions -> EvidenceFiles]
          /\ br' \in [Processes -> Locals] /\ SubjectsOK'
      BY <1>1, <1>10, <2>1, ReconcileType
    <3> QED BY <1>1, <1>2, <1>10, <3>1 DEF HandOK, RecordTypeOK
  <2>3. CASE RecoveryVerdict(s) = "DELIVERED"
    <3>1. /\ journal' = journal /\ State(s) = "INTEGRATING"
          /\ br' = [br EXCEPT ![w] = [Fresh("deliver", s) EXCEPT !.sha = files[s].pending]]
      BY <1>10, <2>3 DEF Reconcile
    <3>2. /\ \A a \in Processes \ {w} : br'[a] = br[a]
          /\ br'[w].pc = "deliver" /\ br'[w].session = s
      BY <1>1, <3>1 DEF Fresh
    <3>3. WorkerMoves(w)
      BY <1>3, <1>10, <3>1, <3>2 DEF WorkerMoves, SessionMoves, State, Identity, i
    <3> QED BY <1>7, <1>8, <1>10, <2>2, <3>3
  <2>4. CASE RecoveryVerdict(s) # "DELIVERED"
    <3>1. /\ Transition(s, RecoveryVerdict(s), Identity(s)) /\ State(s) = "INTEGRATING"
          /\ \E l \in {rest, Idle} : br' = [br EXCEPT ![w] = l]
      BY <1>10, <2>4 DEF Reconcile
    <3>2. /\ \A a \in Processes \ {w} : br'[a] = br[a]
          /\ br'[w].pc \in {"idle", "start"}
          /\ br'[w].pc # "idle" => br'[w].session = s
      BY <1>1, <2>1, <3>1 DEF Idle, Fresh
    <3>3. /\ journal'[s].state # "DELIVERED"
          /\ \A t \in Sessions \ {s} : journal'[t] = journal[t]
      BY <1>1, <1>10, <2>4, <3>1 DEF Transition
    <3>4. WorkerMoves(w)
      BY <1>3, <1>10, <3>1, <3>2, <3>3 DEF WorkerMoves, SessionMoves
    <3> QED BY <1>7, <1>8, <1>10, <2>2, <3>4
  <2> QED BY <2>3, <2>4
<1>11. CASE StartIntegrate(w)
  <2>1. jobs[i].op = "integrate" /\ s \in Sessions /\ UNCHANGED leased
    BY <1>4, <1>11 DEF StartIntegrate, i
  <2>2. Executable(i) => Identity(s) = jobs[i].identity
    BY <2>1 DEF Executable, InputsBound, s, i
  <2>3. CASE /\ Executable(i) /\ State(s) = "SUBMITTED" /\ Enter(w, s)
             /\ UNCHANGED <<files, lock, slot>>
    <3>1. /\ journal' \in [Sessions -> Journals] /\ br' \in [Processes -> Locals] /\ SubjectsOK'
      BY <1>1, <2>1, <2>3, EnterType
    <3>2. HandOK' /\ RecordTypeOK'
      BY <1>1, <1>2, <2>1, <2>3, <3>1 DEF HandOK, RecordTypeOK
    <3>3. /\ journal'[s] = [state |-> "INTEGRATING", identity |-> Identity(s)]
          /\ \A t \in Sessions \ {s} : journal'[t] = journal[t]
          /\ \A a \in Processes \ {w} : br'[a] = br[a]
          /\ br'[w].session = s
      BY <1>1, <2>1, <2>3 DEF Enter, Transition, Fresh
    <3>4. WorkerMoves(w)
      BY <1>3, <2>1, <2>2, <2>3, <3>3 DEF WorkerMoves, SessionMoves, State, Identity, i
    <3> QED BY <1>1, <1>2, <1>7, <2>3, <3>2, <3>4
  <2>4. CASE /\ Executable(i) /\ State(s) = "INTEGRATING" /\ Reconcile(w, s, br[w])
             /\ UNCHANGED lock
             /\ slot' = [slot EXCEPT ![w].rc = IF br'[w] = Idle THEN 4 ELSE 0]
    BY <1>2, <1>5, <1>10, <2>1, <2>2, <2>4
  <2>5. CASE \E n \in {0, 2} : Exits(w, n) /\ UNCHANGED <<journal, files>>
    BY <1>1, <1>2, <1>9, <2>1, <2>5 DEF RecordTypeOK
  <2> QED BY <1>11, <2>3, <2>4, <2>5 DEF StartIntegrate, i, s
<1>12. CASE StartControl(w)
  <2>1. CASE /\ jobs[i].op = "recover" /\ State(s) = "INTEGRATING" /\ Reconcile(w, s, Idle)
             /\ slot' = [slot EXCEPT ![w].rc = IF RecoveryVerdict(s) = "CONFLICT" THEN 4 ELSE 0]
             /\ UNCHANGED <<leased, lock>>
    <3>1. Idle \in Locals
      BY DEF Idle, Fresh, Locals, Steps
    <3> QED BY <1>2, <1>4, <1>10, <2>1, <3>1
  <2>2. CASE jobs[i].op # "gc" /\ (RecoverReopen(s) \/ Discard(s)) /\ Exits(w, 0)
    <3>1. s \in Sessions
      BY <1>4, <2>2
    <3>2. /\ journal' \in [Sessions -> Journals] /\ files' \in [Sessions -> EvidenceFiles]
          /\ leased' \subseteq Sessions
      <4>1. CASE RecoverReopen(s)
        BY <1>1, <3>1, <4>1, ReopenType DEF RecoverReopen, RecordTypeOK
      <4>2. CASE Discard(s)
        BY <1>1, <1>6, <3>1, <4>2, TransitionType DEF Discard, RecordTypeOK, JournalStates
      <4> QED BY <2>2, <4>1, <4>2
    <3>3. /\ \A t \in Sessions \ {s} : journal'[t] = journal[t]
          /\ State(s) # "DELIVERED" /\ journal'[s].state # "DELIVERED"
      BY <1>1, <2>2, <3>1 DEF RecoverReopen, Reopen, Discard, Transition
    <3> QED BY <1>2, <1>9, <2>2, <3>2, <3>3
  <2>3. CASE \E n \in {0, 2} : Exits(w, n) /\ UNCHANGED <<journal, files, leased>>
    BY <1>1, <1>2, <1>9, <2>3 DEF RecordTypeOK
  <2> QED BY <1>12, <2>1, <2>2, <2>3 DEF StartControl, IsGc, i, s
<1> QED BY <1>2, <1>11, <1>12

LEMMA WorkerInv ==
  ASSUME JobInv, NEW w \in Workers, Start(w) \/ Work(w) \/ Dies(w)
  PROVE  JobInv'
<1>1. /\ QueueTypeOK /\ SubjectsOK /\ RowsOK /\ GatesHeld /\ SlotsOK /\ SlotsApart /\ LaneHeld
      /\ Integrating /\ WorkBound /\ DeliveredBound /\ jobs \in Seq(Row) /\ TypeInv
      /\ slot \in [Workers -> [job: Nat, rc: Nat]] /\ enrolled \subseteq Pools
      /\ w \in Processes /\ w \notin Brokers /\ w # Gate
  BY JobWork, BrokerAssumption DEF JobInv, LeaseInv, QueueTypeOK, Row, Processes
<1>2. /\ Busy(w) /\ TypeInv' /\ WorkerMoves(w)
      /\ slot' \in [Workers -> [job: Nat, rc: Nat]]
      /\ \A v \in Workers : slot'[v].job = slot[v].job
  <2>1. CASE Start(w)
    BY <2>1, StartMoves
  <2>2. CASE Work(w) \/ Dies(w)
    <3>1. BrokerStep(w) \/ Stop(w)
      BY <2>2 DEF Work, Dies
    <3>2. \E n \in Nat : slot' = [slot EXCEPT ![w].rc = n]
      BY <2>2 DEF Work, Dies, PolicyRefused
    <3> QED BY <1>1, <3>1, <3>2, WorkMoves
  <2> QED BY <2>1, <2>2
<1>3. w \in Used /\ Job(w) \in Rows /\ jobs[Job(w)] \in Row /\ Subject(w) = Owner(Job(w))
  BY <1>1, <1>2, RowsAre DEF SlotsOK
<1>4. UNCHANGED <<coord, enrolled, waiting, outages>>
  BY DEF Start, Work, Dies
<1>5. /\ jobs' \in Seq(Row) /\ Rows' = Rows /\ RowsKept
      /\ \A j \in Rows : jobs'[j].state = jobs[j].state
  <2>1. CASE jobs' = jobs
    BY <1>1, <2>1 DEF RowsKept, Rows, Active
  <2>2. CASE jobs' # jobs
    <3> DEFINE r == [jobs[Job(w)] EXCEPT !.intent = @ \/ br'[w].pc = "push"]
    <3>1. jobs' = [jobs EXCEPT ![Job(w)].intent = @ \/ br'[w].pc = "push"]
      BY <2>2 DEF Start, Work, Dies
    <3>2. /\ r \in Row /\ r.state = jobs[Job(w)].state /\ r.op = jobs[Job(w)].op
          /\ r.owner = jobs[Job(w)].owner /\ r.pool = jobs[Job(w)].pool
          /\ r.identity = jobs[Job(w)].identity
          /\ jobs' = [jobs EXCEPT ![Job(w)] = r]
      BY <1>3, <3>1 DEF Row
    <3> HIDE DEF r
    <3>3. /\ jobs' \in Seq(Row) /\ Rows' = Rows
          /\ \A j \in Rows : jobs'[j] = IF j = Job(w) THEN r ELSE jobs[j]
      BY <1>1, <1>3, <3>2, RowWritten
    <3> QED BY <3>2, <3>3 DEF RowsKept, Active
  <2> QED BY <2>1, <2>2
<1>6. QueueTypeOK' /\ SubjectsOK'
  BY <1>1, <1>2, <1>4, <1>5 DEF QueueTypeOK, TypeInv, Row
<1>7. RowsOK'
  <2>1. \A j \in Rows : jobs'[j].state = "delivered" => jobs[j].op = "integrate"
    BY <1>1, <1>5 DEF RowsOK
  <2>2. \A j \in Rows : Active(j) => jobs[j].pool \in enrolled'
    BY <1>1, <1>4 DEF RowsOK
  <2> QED BY <1>1, <1>5, <2>1, <2>2, RowsStay
<1>8. Used' = Used /\ SlotsOK' /\ SlotsApart'
  <2>1. \A v \in Used : jobs'[Job(v)].state = "running"
    BY <1>1, <1>5 DEF SlotsOK
  <2>2. \A v \in Workers : br'[v].pc # "idle" =>
          br[v].pc # "idle" /\ br'[v].session = br[v].session
    BY <1>1, <1>2 DEF WorkerMoves, Busy, Subject, Processes
  <2> QED BY <1>1, <1>2, <1>5, <2>1, <2>2, SlotsStay
<1>9. GatesHeld'
  <2>1. GatesStay
    BY <1>1, <1>2 DEF GatesStay, WorkerMoves
  <2> QED BY <1>1, <1>4, <1>8, <2>1, GatesHeldStay
<1>10. LaneHeld'
  <2> SUFFICES ASSUME NEW b \in Brokers, br'[b].pc # "idle"
               PROVE  lock'[PoolOf[br'[b].session]] = b
    BY DEF LaneHeld, Busy, Subject
  <2>1. b \in Processes \ {w} /\ br'[b] = br[b]
    BY <1>1, <1>2 DEF WorkerMoves, Processes
  <2>2. Subject(b) \in Sessions /\ lock[PoolOf[Subject(b)]] = b
    BY <1>1, <2>1 DEF SubjectsOK, LaneHeld, Busy, Working
  <2>3. PoolOf[Subject(b)] \in Pools
    BY <2>2, BrokerAssumption
  <2> QED BY <1>2, <2>1, <2>2, <2>3 DEF WorkerMoves, Subject
<1>11. \A s \in Sessions : s # Subject(w) => journal'[s] = journal[s]
  BY <1>2 DEF WorkerMoves
<1>12. Integrating'
  <2> SUFFICES ASSUME NEW a \in Processes, br'[a].pc \notin {"idle", "start"}
               PROVE  journal'[br'[a].session].state = "INTEGRATING"
    BY DEF Integrating, Working, Subject, State
  <2>1. CASE a = w
    <3>1. br'[w].session = Subject(w) /\ Subject(w) \in Sessions
      BY <1>2, <2>1 DEF WorkerMoves, TypeInv, SubjectsOK, Working, Subject
    <3>2. SessionMoves(w, Subject(w))
      BY <1>2, <3>1 DEF WorkerMoves
    <3> QED BY <1>1, <2>1, <3>1, <3>2 DEF SessionMoves, Integrating, State
  <2>2. CASE a # w
    <3>1. br'[a] = br[a] /\ Working(a)
      BY <1>2, <2>2 DEF WorkerMoves, Working
    <3>2. /\ Busy(a) /\ Subject(a) \in Sessions /\ Subject(a) # None
          /\ State(Subject(a)) = "INTEGRATING"
      BY <1>1, <3>1, BrokerAssumption DEF Working, Busy, SubjectsOK, Integrating
    <3>3. Subject(a) # Subject(w)
      BY <1>1, <1>2, <2>2, <3>2, HandsApart DEF SessionExclusive, JobInv
    <3> QED BY <1>11, <3>1, <3>2, <3>3 DEF Subject, State
  <2> QED BY <2>1, <2>2
<1>13. WorkBound' /\ DeliveredBound'
  <2>1. ASSUME NEW i \in Rows', jobs'[i].state = "delivered"
        PROVE  i \in Rows /\ jobs[i].state = "delivered" /\ journal'[Owner(i)] = journal[Owner(i)]
    <3>1. i \in Rows /\ jobs[i].state = "delivered" /\ State(Owner(i)) = "DELIVERED"
      BY <1>1, <1>5, <2>1 DEF DeliveredBound
    <3>2. Owner(i) \in Sessions
      BY <1>1, <3>1, RowsAre DEF RowsOK, IsGc, Owner, Row
    <3>3. CASE Owner(i) = Subject(w)
      BY <1>2, <3>1, <3>2, <3>3 DEF WorkerMoves, SessionMoves
    <3> QED BY <1>11, <3>1, <3>2, <3>3
  <2>2. ASSUME NEW v \in Used, jobs[Job(v)].op = "integrate"
        PROVE  \/ /\ journal'[Owner(Job(v))] = journal[Owner(Job(v))]
                  /\ br'[v].pc \notin {"idle", "start"} => Working(v)
               \/ journal'[Owner(Job(v))].identity = jobs[Job(v)].identity
               \/ /\ br'[v].pc \in {"idle", "start"}
                  /\ journal'[Owner(Job(v))].state # "DELIVERED"
    <3>1. Job(v) \in Rows /\ Owner(Job(v)) \in Sessions /\ v \in Workers /\ ~IsGc(Job(v))
      BY <1>1, <2>2, RowsAre DEF SlotsOK, RowsOK, IsGc, Owner, Row, Used
    <3>2. CASE v = w
      BY <1>2, <1>3, <2>2, <3>1, <3>2 DEF WorkerMoves, SessionMoves
    <3>3. CASE v # w
      <4>1. Owner(Job(v)) # Subject(w) /\ br'[v] = br[v]
        BY <1>1, <1>2, <1>3, <3>1, <3>3 DEF SlotsApart, WorkerMoves, Processes
      <4> QED BY <1>11, <3>1, <4>1 DEF Working
    <3> QED BY <3>2, <3>3
  <2> QED BY <1>1, <1>2, <1>5, <2>1, <2>2, BoundsStay
<1> QED BY <1>1, <1>6, <1>7, <1>8, <1>9, <1>10, <1>12, <1>13 DEF JobInv, LeaseInv

-----------------------------------------------------------------------------
(* The leases, and what a row is bound to *)

LEMMA JobInit == QInit => JobInv
<1> SUFFICES ASSUME QInit PROVE JobInv
  OBVIOUS
<1>1. TypeInv /\ LaneHeld /\ \A b \in Processes : br[b].pc = "idle"
  BY InitType, LaneInit DEF QInit, Init, BrokerInit, Idle, Fresh
<1>2. /\ jobs = <<>> /\ Rows = {} /\ Used = {} /\ enrolled = {} /\ coord = "down"
      /\ slot = [w \in Workers |-> FreeSlot] /\ waiting = [b \in Brokers |-> None]
      /\ outages = [coord |-> 0, start |-> 0]
  BY DEF QInit, QueueInit, Rows, Used, Job, FreeSlot
<1>3. QueueTypeOK
  BY <1>1, <1>2 DEF QueueTypeOK, TypeInv, FreeSlot
<1>4. SlotsOK /\ Integrating
  BY <1>1, <1>2 DEF SlotsOK, Integrating, Working, Busy, Processes
<1> QED BY <1>1, <1>2, <1>3, <1>4
        DEF JobInv, LeaseInv, RowsOK, GatesHeld, SlotsApart, WorkBound, DeliveredBound, TypeInv

LEMMA JobStep ==
  ASSUME JobInv, [QNext]_systemVars
  PROVE  JobInv'
<1>1. QueueTypeOK
  BY DEF JobInv, LeaseInv
<1> QED BY <1>1, QueueSteps, LedgerInv, GateInv, PoolInv, ClaimInv, VacateInv, WorkerInv

LEMMA JobAlways == QSpec => []JobInv
<1>1. JobInv /\ [QNext]_systemVars => JobInv'
  BY JobStep
<1> QED BY <1>1, JobInit, PTL DEF QSpec

\* The variables of the queue keep their types.
THEOREM QueueTyping == QSpec => []QueueTypeOK
<1>1. JobInv => QueueTypeOK
  BY DEF JobInv, LeaseInv
<1> QED BY <1>1, JobAlways, PTL

\* While a worker is out, no direct broker works in an enrolled pool, whether
\* the coordinator is alive or was killed (serve, _queue-execute and
\* take_integration_gates of bin/harness_integration_queue.py).
THEOREM DirectIsExcluded == QSpec => []DirectExcluded
<1>1. ASSUME JobInv PROVE DirectExcluded
  <2> SUFFICES ASSUME NEW w \in Workers, NEW b \in Brokers, Busy(w), Busy(b),
                      PoolOf[Subject(b)] \in enrolled
               PROVE  FALSE
    BY DEF DirectExcluded
  <2>1. lock[PoolOf[Subject(b)]] = Gate
    BY <1>1 DEF JobInv, LeaseInv, SlotsOK, GatesHeld, AllGates
  <2> QED BY <1>1, <2>1, BrokerAssumption DEF JobInv, LeaseInv, LaneHeld, Processes
<1> QED BY <1>1, JobAlways, PTL

\* One session is in the hands of one process, direct or queued.
THEOREM SessionIsExclusive == QSpec => []SessionExclusive
<1>1. JobInv => SessionExclusive
  BY HandsApart DEF JobInv
<1> QED BY <1>1, JobAlways, PTL

\* gc never runs beside another job of its pool.
THEOREM GcIsAlone == QSpec => []GcAlone
<1>1. JobInv => GcAlone
  BY DEF JobInv, LeaseInv, SlotsApart, GcAlone
<1> QED BY <1>1, JobAlways, PTL

\* What a worker integrates is what its job accepted.
THEOREM InputsAreAccepted == QSpec => []AcceptedInputs
<1>1. ASSUME JobInv PROVE AcceptedInputs
  <2> SUFFICES ASSUME NEW w \in Used, Busy(w), ~At(w, "start"), jobs[Job(w)].op = "integrate"
               PROVE  Identity(Subject(w)) = jobs[Job(w)].identity
    BY DEF AcceptedInputs
  <2>1. Working(w) /\ Subject(w) = Owner(Job(w))
    BY <1>1 DEF Working, Busy, At, JobInv, LeaseInv, SlotsOK, Used
  <2> QED BY <1>1, <2>1 DEF JobInv, WorkBound
<1> QED BY <1>1, JobAlways, PTL

-----------------------------------------------------------------------------
(* The evidence under the queue *)

\* A session whose lane is free is in nobody's hands, a worker's included.
LEMMA QueueLanesApart ==
  ASSUME JobInv
  PROVE  LanesApart
<1> SUFFICES ASSUME NEW s \in Sessions, LaneOpen(s),
                    NEW a \in Processes, Working(a), Subject(a) = s
             PROVE  FALSE
  BY DEF LanesApart
<1>1. LeaseInv /\ Busy(a) /\ s # None
  BY BrokerAssumption DEF JobInv, Working, Busy
<1>2. CASE a \in Brokers
  BY <1>1, <1>2, BrokerAssumption DEF LeaseInv, LaneHeld, LaneOpen, Processes
<1>3. CASE a \in Workers
  BY <1>1, <1>3, WorkerHolds, BrokerAssumption DEF LaneOpen
<1> QED BY <1>2, <1>3 DEF Processes

\* The first step of a worker, by what it does to the record of its session.
LEMMA StartCases ==
  ASSUME JobInv, NEW w \in Workers, Start(w)
  PROVE  /\ ~Working(w) /\ w \in Processes /\ UNCHANGED <<round, main, nextSha>>
         /\ \A a \in Processes \ {w} : br'[a] = br[a]
         /\ \/ Ends(w) /\ UNCHANGED <<journal, files>>
            \/ \E s \in Sessions :
                 /\ \A a \in Processes \ {w} : Working(a) => Subject(a) # s
                 /\ \/ State(s) = "SUBMITTED" /\ Enter(w, s) /\ UNCHANGED files
                    \/ \E rest : Reconcile(w, s, rest) /\ rest.pc \in {"idle", "start"}
                    \/ Ends(w) /\ (RecoverReopen(s) \/ Discard(s))
<1>1. /\ w \in Processes /\ At(w, "start") /\ Busy(w) /\ ~Working(w)
      /\ UNCHANGED <<round, main, nextSha>>
  BY DEF Start, At, Busy, Working, Processes, remoteVars
<1>2. WorkerMoves(w)
  BY StartMoves
<1> DEFINE s == Owner(Job(w))
<1>3. Subject(w) = s /\ Job(w) \in Rows /\ jobs[Job(w)] \in Row
  BY <1>1, RowsAre DEF JobInv, LeaseInv, SlotsOK, QueueTypeOK, Row
<1>4. ~IsGc(Job(w)) => s \in Sessions
  BY <1>3 DEF JobInv, LeaseInv, RowsOK, Row, Owner
<1>5. s \in Sessions => \A a \in Processes \ {w} : Working(a) => Subject(a) # s
  BY <1>1, <1>3, HandsApart, BrokerAssumption
     DEF JobInv, SessionExclusive, Working, Busy
<1>6. Idle.pc = "idle" /\ br[w].pc = "start"
  BY <1>1 DEF Idle, Fresh, At
<1> HIDE DEF s
<1>7. CASE StartIntegrate(w)
  <2>1. s \in Sessions
    BY <1>4, <1>7 DEF StartIntegrate, IsGc, s
  <2> QED BY <1>1, <1>2, <1>5, <1>6, <1>7, <2>1 DEF StartIntegrate, Exits, WorkerMoves, s
<1>8. CASE StartControl(w)
  <2>1. \/ Ends(w) /\ UNCHANGED <<journal, files>>
        \/ ~IsGc(Job(w)) /\ \/ Reconcile(w, s, Idle)
                            \/ Ends(w) /\ (RecoverReopen(s) \/ Discard(s))
    BY <1>8 DEF StartControl, Exits, IsGc, s
  <2> QED BY <1>1, <1>2, <1>4, <1>5, <1>6, <2>1 DEF WorkerMoves
<1> QED BY <1>1, <1>7, <1>8 DEF Start

\* What the steps that are not the pools' or the workers' leave alone.
LEMMA QueueIdle ==
  ASSUME JobInv, \/ LedgerStep \/ GateStep
                 \/ \E i \in Rows, w \in Workers : Claim(i, w)
                 \/ \E w \in Workers : Finish(w) \/ OrphanGone(w)
  PROVE  /\ UNCHANGED <<recordVars, remoteVars>>
         /\ \A a \in Processes : br'[a] = br[a] \/ Rests(a)
<1>1. CASE LedgerStep
  <2>1. QueueTypeOK
    BY DEF JobInv, LeaseInv
  <2> QED BY <1>1, <2>1, LedgerFiles DEF allVars, brokerVars, remoteVars
<1>2. CASE GateStep
  BY <1>2 DEF GateStep, Enable, TakeGate, Disable, Serve, Shutdown, StopSignal, Kill, allVars,
              brokerVars, remoteVars
<1>3. ASSUME NEW i \in Rows, NEW w \in Workers, Claim(i, w)
      PROVE  /\ UNCHANGED <<recordVars, remoteVars>>
             /\ \A a \in Processes : br'[a] = br[a] \/ Rests(a)
  <2>1. br[w].pc = "idle" /\ br \in [Processes -> Locals] /\ w \in Processes
    BY <1>3 DEF Claim, JobInv, LeaseInv, SlotsOK, Used, Busy, QueueTypeOK, BrokerTypeOK, Processes
  <2>2. UNCHANGED <<recordVars, remoteVars>> /\ br' = [br EXCEPT ![w] = Fresh("start", Owner(i))]
    BY <1>3 DEF Claim
  <2> QED BY <2>1, <2>2 DEF Rests, Fresh
<1>4. CASE \E w \in Workers : Finish(w) \/ OrphanGone(w)
  BY <1>4 DEF Finish, OrphanGone, allVars, brokerVars, remoteVars
<1> QED BY <1>1, <1>2, <1>3, <1>4

LEMMA QueueEvidenceStep ==
  ASSUME JobInv, EvidenceInv, JobInv', [QNext]_systemVars
  PROVE  EvidenceInv'
<1>1. WorkInv' /\ LanesApart /\ QueueTypeOK /\ TypeInv
  <2>1. WorkInv'
    BY JobWork, PTL
  <2> QED BY <2>1, QueueLanesApart, JobWork DEF JobInv, LeaseInv
<1>2. CASE \/ LedgerStep \/ GateStep
           \/ \E i \in Rows, w \in Workers : Claim(i, w)
           \/ \E w \in Workers : Finish(w) \/ OrphanGone(w)
  BY <1>1, <1>2, QueueIdle, IdleInv DEF recordVars, remoteVars
<1>3. CASE PoolStep
  BY <1>1, <1>3, EvidenceStep DEF PoolStep
<1>4. ASSUME NEW w \in Workers, Start(w)
      PROVE  EvidenceInv'
  <2>1. /\ ~Working(w) /\ w \in Processes /\ UNCHANGED <<round, main, nextSha>>
        /\ \A a \in Processes \ {w} : br'[a] = br[a]
    BY <1>4, StartCases
  <2>2. Ends(w) => \A a \in Processes : br'[a] = br[a] \/ Rests(a)
    BY <1>1, <2>1, EndsMoves DEF Rests, Working
  <2>3. CASE Ends(w) /\ UNCHANGED <<journal, files>>
    BY <1>1, <2>1, <2>2, <2>3, IdleInv
  <2>4. ASSUME NEW s \in Sessions, \A a \in Processes \ {w} : Working(a) => Subject(a) # s,
               \/ Enter(w, s) /\ UNCHANGED files
               \/ \E rest : Reconcile(w, s, rest) /\ rest.pc \in {"idle", "start"}
               \/ Ends(w) /\ (RecoverReopen(s) \/ Discard(s))
        PROVE  EvidenceInv'
    <3>1. CASE Enter(w, s) /\ UNCHANGED files
      BY <1>1, <2>1, <2>4, <3>1, EnterInv
    <3>2. CASE \E rest : Reconcile(w, s, rest) /\ rest.pc \in {"idle", "start"}
      BY <1>1, <2>1, <2>4, <3>2, ReconcileInv
    <3>3. CASE Ends(w) /\ (RecoverReopen(s) \/ Discard(s))
      BY <1>1, <2>1, <2>2, <3>3, LaneInv
    <3> QED BY <2>4, <3>1, <3>2, <3>3
  <2> QED BY <1>4, <2>3, <2>4, StartCases
<1>5. ASSUME NEW w \in Workers, BrokerStep(w) \/ Stop(w)
      PROVE  EvidenceInv'
  <2>1. w \in Processes
    BY DEF Processes
  <2>2. CASE BrokerStep(w)
    BY <1>1, <2>1, <2>2, BrokerStepInv
  <2>3. CASE Stop(w) /\ Working(w)
    BY <1>1, <2>1, <2>3, StopInv
  <2>4. CASE Stop(w) /\ ~Working(w)
    <3>1. \A a \in Processes : br'[a] = br[a] \/ Rests(a)
      BY <1>1, <2>1, <2>4, EndsMoves DEF Stop, Rests, Working
    <3> QED BY <1>1, <2>4, <3>1, IdleInv DEF Stop, recordVars, remoteVars
  <2> QED BY <1>5, <2>2, <2>3, <2>4
<1> QED BY <1>1, <1>2, <1>3, <1>4, <1>5, QueueSteps DEF Work, Dies

QueueInv == JobInv /\ EvidenceInv

LEMMA QueueAlways == QSpec => []QueueInv
<1>1. QInit => QueueInv
  BY JobInit, EvidenceInit DEF QInit, QueueInv
<1>2. QueueInv /\ [QNext]_systemVars => QueueInv'
  <2> SUFFICES ASSUME JobInv, EvidenceInv, [QNext]_systemVars PROVE JobInv' /\ EvidenceInv'
    BY DEF QueueInv
  <2>1. JobInv'
    BY JobStep
  <2> QED BY <2>1, QueueEvidenceStep
<1> QED BY <1>1, <1>2, PTL DEF QSpec

\* A delivered job has its content on main.
THEOREM DeliveredIsHonest == QSpec => []DeliveredHonest
<1>1. ASSUME QueueInv PROVE DeliveredHonest
  <2> SUFFICES ASSUME NEW i \in Rows, jobs[i].state = "delivered"
               PROVE  State(Owner(i)) = "DELIVERED" /\ Landed(Owner(i), jobs[i].identity)
    BY DEF DeliveredHonest
  <2>1. State(Owner(i)) = "DELIVERED" /\ Identity(Owner(i)) = jobs[i].identity
    BY <1>1 DEF QueueInv, JobInv, DeliveredBound
  <2>2. Owner(i) \in Sessions
    BY <1>1, RowsAre DEF QueueInv, JobInv, LeaseInv, QueueTypeOK, RowsOK, IsGc, Owner, Row
  <2>3. \E x \in Here(Owner(i)) : Proof(Owner(i), x)
    BY <1>1, <2>1, <2>2 DEF QueueInv, EvidenceInv, SessionInv, Proven
  <2> QED BY <2>1, <2>3 DEF Proof, RoundCommit, Here, OnMain, Landed
<1> QED BY <1>1, QueueAlways, PTL

\* The evidence rules that hold for a direct broker hold for a queued one, killed
\* with or without its coordinator: recovery is exact ...
THEOREM QueueRecoveryIsExact == QSpec => []RecoveryExact
<1>1. QueueInv => RecoveryExact
  BY RecoveryFacts DEF QueueInv
<1> QED BY <1>1, QueueAlways, PTL

\* ... and a content reaches main at most once.
THEOREM QueueDeliversAtMostOnce == QSpec => []AtMostOnce
<1>1. QInit => AtMostOnce
  BY DEF QInit, Init, BrokerInit, AtMostOnce
<1>2. ASSUME QueueInv, AtMostOnce, [QNext]_systemVars
      PROVE  AtMostOnce'
  <2>1. JobInv /\ EvidenceInv /\ TypeInv /\ QueueTypeOK
    BY <1>2 DEF QueueInv, EvidenceInv, WorkInv, JobInv, LeaseInv
  <2>2. CASE main' = main
    BY <1>2, <2>2 DEF AtMostOnce
  <2>3. CASE PoolStep
    BY <1>2, <2>1, <2>3, OnceStep DEF PoolStep
  <2>4. CASE \E w \in Workers : Start(w) \/ Work(w) \/ Dies(w)
    <3>1. PICK w \in Workers : Start(w) \/ Work(w) \/ Dies(w)
      BY <2>4
    <3>2. w \in Processes
      BY DEF Processes
    <3>3. CASE BrokerStep(w)
      BY <1>2, <2>1, <3>2, <3>3, OnceBroker
    <3>4. CASE Start(w) \/ Stop(w)
      BY <2>2, <3>4 DEF Start, Stop, remoteVars
    <3> QED BY <3>1, <3>3, <3>4 DEF Work, Dies
  <2>5. CASE \/ LedgerStep \/ GateStep
             \/ \E i \in Rows, w \in Workers : Claim(i, w)
             \/ \E w \in Workers : Finish(w) \/ OrphanGone(w)
    BY <2>1, <2>2, <2>5, QueueIdle DEF remoteVars
  <2> QED BY <1>2, <2>1, <2>3, <2>4, <2>5, QueueSteps
<1> QED BY <1>1, <1>2, QueueAlways, PTL DEF QSpec

\* The queue in front of the broker implements the same contract.
THEOREM QueueImplementsDelivery == QSpec => ImplementsDelivery
<1>1. QInit => Contract!Init
  BY ContractInit DEF QInit
<1>2. ASSUME QueueInv, [QNext]_systemVars PROVE [Contract!Next]_(Contract!vars)
  <2>1. JobInv /\ EvidenceInv /\ TypeInv /\ QueueTypeOK
    BY <1>2 DEF QueueInv, EvidenceInv, WorkInv, JobInv, LeaseInv
  <2>2. CASE UNCHANGED <<journal, main>>
    BY <2>2, ContractIdle
  <2>3. CASE PoolStep
    BY <2>1, <2>3, ContractStep DEF PoolStep
  <2>4. ASSUME NEW w \in Workers, Start(w)
        PROVE  [Contract!Next]_(Contract!vars)
    <3>1. main' = main
      BY <2>1, <2>4, StartCases
    <3>2. \/ UNCHANGED <<journal, main>>
          \/ \E s \in Sessions : \/ Enter(w, s)
                                 \/ \E rest : Reconcile(w, s, rest)
                                 \/ RecoverReopen(s) \/ Discard(s)
      BY <2>1, <2>4, <3>1, StartCases
    <3> QED BY <2>1, <2>2, <3>1, <3>2, ContractEnter, ContractLane
  <2>5. ASSUME NEW w \in Workers, BrokerStep(w) \/ Stop(w)
        PROVE  [Contract!Next]_(Contract!vars)
    <3>1. w \in Processes
      BY DEF Processes
    <3>2. CASE BrokerStep(w)
      BY <2>1, <3>1, <3>2, ContractBroker
    <3>3. CASE Stop(w)
      BY <2>2, <3>3 DEF Stop, recordVars, remoteVars
    <3> QED BY <2>5, <3>2, <3>3
  <2>6. CASE \/ LedgerStep \/ GateStep
             \/ \E i \in Rows, w \in Workers : Claim(i, w)
             \/ \E w \in Workers : Finish(w) \/ OrphanGone(w)
    BY <2>1, <2>2, <2>6, QueueIdle DEF recordVars, remoteVars
  <2> QED BY <1>2, <2>1, <2>3, <2>4, <2>5, <2>6, QueueSteps DEF Work, Dies
<1> QED BY <1>1, <1>2, QueueAlways, PTL DEF QSpec, ImplementsDelivery, Contract!Spec

-----------------------------------------------------------------------------
(* Order *)

\* A row that was ever taken up is behind no barrier, and what is still open of
\* the rows accepted for a destination before the one that runs was never taken
\* up: it is behind a gc of its own pool, and that is not the running row's.
InOrder ==
  /\ \A i \in Rows : Active(i) /\ jobs[i].state # "queued" => ~Barred(i)
  /\ \A w \in Used, i \in Rows :
       i < Job(w) /\ Active(i) /\ Destination(i) = Destination(Job(w)) =>
         /\ jobs[i].state = "queued"
         /\ jobs[i].pool # jobs[Job(w)].pool
         /\ \E g \in Rows : g < i /\ IsGc(g) /\ jobs[g].pool = jobs[i].pool

\* What every step keeps: a row changes its state as it is closed, considered or
\* run, and a worker goes out only for a row that is considered.
TakenUp ==
  /\ RowsKept
  /\ \A i \in Rows :
       \/ jobs'[i].state = jobs[i].state \/ jobs'[i].state \notin ActiveStates
       \/ Considers(i) \/ Running(i)
  /\ \A i \in Rows' \ Rows : jobs'[i].state = "queued"
  /\ \A w \in Workers : slot'[w].job # 0 =>
       \/ slot'[w].job = Job(w)
       \/ slot'[w].job \in Rows /\ Considers(slot'[w].job)

LEMMA LedgerTakesUp ==
  ASSUME JobInv, LedgerStep
  PROVE  TakenUp
<1>1. Filed /\ slot' = slot
  BY LedgerFiles DEF JobInv, LeaseInv
<1> QED BY <1>1 DEF TakenUp, Filed, Job, ActiveStates

LEMMA ClaimTakesUp ==
  ASSUME JobInv, NEW i \in Rows, NEW w \in Workers, Claim(i, w)
  PROVE  TakenUp
<1>1. /\ jobs \in Seq(Row) /\ jobs[i] \in Row /\ Considers(i) /\ Active(i)
      /\ slot \in [Workers -> [job: Nat, rc: Nat]]
  BY RowsAre DEF JobInv, LeaseInv, QueueTypeOK, Row, Claim, Considers
<1> DEFINE r == [jobs[i] EXCEPT !.state = "running", !.attempt = @ + 1]
<1>2. /\ r.op = jobs[i].op /\ r.owner = jobs[i].owner
      /\ r.pool = jobs[i].pool /\ r.identity = jobs[i].identity
      /\ jobs' = [jobs EXCEPT ![i] = r]
      /\ slot' = [slot EXCEPT ![w] = [job |-> i, rc |-> 0]]
  BY <1>1 DEF Claim, Row, Rows
<1> HIDE DEF r
<1>3. jobs' \in Seq(Row)
  BY ClaimInv, RowsAre DEF JobInv, LeaseInv, QueueTypeOK, Row
<1>4. Rows' = Rows /\ \A k \in Rows : jobs'[k] = IF k = i THEN r ELSE jobs[k]
  BY <1>2 DEF Rows
<1>5. RowsKept
  BY <1>1, <1>2, <1>3, <1>4 DEF RowsKept, Active
<1>6. \A v \in Workers : slot'[v].job # 0 => slot'[v].job \in {Job(v), i}
  BY <1>1, <1>2 DEF Job
<1> QED BY <1>1, <1>4, <1>5, <1>6 DEF TakenUp

LEMMA WorkerTakesUp ==
  ASSUME JobInv, NEW w \in Workers,
         \/ Finish(w) \/ OrphanGone(w) \/ Start(w) \/ Work(w) \/ Dies(w)
  PROVE  TakenUp
<1>1. /\ jobs \in Seq(Row) /\ \A i \in Rows : jobs[i] \in Row
      /\ slot \in [Workers -> [job: Nat, rc: Nat]]
      /\ SlotsOK
  BY RowsAre DEF JobInv, LeaseInv, QueueTypeOK, Row
<1>2. w \in Used
  <2>1. Start(w) => Busy(w)
    BY DEF Start, At, Busy
  <2>2. Work(w) => Busy(w)
    BY DEF Work, BrokerStep, OriginConflict, Prepare, Verify, Commit, WritePending, Fetch,
           EnterPublishing, Push, Acknowledge, Readback, Deliver, At, Busy
  <2>3. Dies(w) => Busy(w)
    BY DEF Dies, Stop
  <2> QED BY <1>1, <2>1, <2>2, <2>3 DEF SlotsOK, Finish, OrphanGone, Used
<1>3. /\ Rows' = Rows
      /\ \A i \in Rows : /\ jobs'[i].op = jobs[i].op /\ jobs'[i].owner = jobs[i].owner
                         /\ jobs'[i].pool = jobs[i].pool /\ jobs'[i].identity = jobs[i].identity
                         /\ i # Job(w) => jobs'[i] = jobs[i]
  <2>1. \/ jobs' = jobs
        \/ \E o, n : jobs' = [jobs EXCEPT ![Job(w)].state = o, ![Job(w)].rc = n]
        \/ \E e : jobs' = [jobs EXCEPT ![Job(w)].intent = e]
    BY DEF Finish, OrphanGone, Start, Work, Dies
  <2>2. ASSUME NEW o, NEW n, jobs' = [jobs EXCEPT ![Job(w)].state = o, ![Job(w)].rc = n]
        PROVE  /\ Rows' = Rows
               /\ \A i \in Rows : /\ jobs'[i].op = jobs[i].op /\ jobs'[i].owner = jobs[i].owner
                                  /\ jobs'[i].pool = jobs[i].pool
                                  /\ jobs'[i].identity = jobs[i].identity
                                  /\ i # Job(w) => jobs'[i] = jobs[i]
    BY <1>1, <2>2 DEF Row, Rows
  <2>3. ASSUME NEW e, jobs' = [jobs EXCEPT ![Job(w)].intent = e]
        PROVE  /\ Rows' = Rows
               /\ \A i \in Rows : /\ jobs'[i].op = jobs[i].op /\ jobs'[i].owner = jobs[i].owner
                                  /\ jobs'[i].pool = jobs[i].pool
                                  /\ jobs'[i].identity = jobs[i].identity
                                  /\ i # Job(w) => jobs'[i] = jobs[i]
    BY <1>1, <2>3 DEF Row, Rows
  <2>4. CASE jobs' = jobs
    BY <2>4 DEF Rows
  <2> QED BY <2>1, <2>2, <2>3, <2>4
<1>4. jobs' \in Seq(Row)
  <2>1. JobInv'
    BY WorkerInv, VacateInv
  <2> QED BY <2>1 DEF JobInv, LeaseInv, QueueTypeOK, Row
<1>5. \A v \in Workers : slot'[v].job \in {0, Job(v)}
  <2>1. CASE Finish(w) \/ OrphanGone(w)
    <3>1. slot' = [slot EXCEPT ![w] = FreeSlot]
      BY <2>1 DEF Finish, OrphanGone, Vacated
    <3> QED BY <1>1, <3>1 DEF FreeSlot, Job
  <2>2. CASE Start(w)
    BY <2>2, StartMoves DEF Job
  <2>3. CASE Work(w) \/ Dies(w)
    <3>1. \E n : slot' = [slot EXCEPT ![w].rc = n]
      BY <2>3 DEF Work, Dies
    <3> QED BY <1>1, <3>1 DEF Job
  <2> QED BY <2>1, <2>2, <2>3
<1> QED BY <1>1, <1>2, <1>3, <1>4, <1>5 DEF TakenUp, RowsKept, Running, SlotsOK, Active, ActiveStates

LEMMA OrderStep ==
  ASSUME JobInv, InOrder, TakenUp
  PROVE  InOrder'
<1>1. /\ jobs \in Seq(Row) /\ jobs' \in Seq(Row) /\ SlotsOK /\ RowsKept
      /\ Rows = 1..Len(jobs) /\ Rows' = 1..Len(jobs)' /\ Len(jobs) \in Nat /\ Len(jobs)' \in Nat
  BY LenProperties DEF JobInv, LeaseInv, QueueTypeOK, Row, TakenUp, RowsKept, Rows
<1>2. \A i \in Rows : /\ Active(i)' => Active(i)
                      /\ IsGc(i)' <=> IsGc(i)
                      /\ Destination(i)' = Destination(i)
  BY <1>1 DEF RowsKept, Active, IsGc, Destination, Owner
<1>3. \A i \in Rows, j \in Rows' : j < i => j \in Rows
  BY <1>1
<1>4. ASSUME NEW i \in Rows, ~Barred(i)
      PROVE  ~Barred(i)'
  <2>1. \A j \in Rows' : j < i => j \in Rows /\ (Active(j)' => Active(j)) /\ (IsGc(j)' <=> IsGc(j))
                                 /\ jobs'[j].pool = jobs[j].pool
    BY <1>1, <1>2, <1>3 DEF RowsKept
  <2>2. jobs'[i].pool = jobs[i].pool /\ (IsGc(i)' <=> IsGc(i))
    BY <1>1, <1>2 DEF RowsKept
  <2> QED BY <1>4, <2>1, <2>2 DEF Barred
<1>5. \A i \in Rows : Running(i) => Active(i) /\ jobs[i].state = "running"
  BY <1>1 DEF SlotsOK, Running, Active, ActiveStates
<1>6. ASSUME NEW i \in Rows', Active(i)', jobs'[i].state # "queued"
      PROVE  ~Barred(i)'
  <2>1. i \in Rows
    BY <1>6 DEF TakenUp
  <2>2. \/ jobs[i].state = jobs'[i].state \/ Considers(i) \/ Running(i)
    BY <1>6, <2>1 DEF TakenUp, Active
  <2>3. ~Barred(i)
    BY <1>2, <1>5, <1>6, <2>1, <2>2 DEF InOrder, Considers
  <2> QED BY <1>4, <2>1, <2>3
<1>7. ASSUME NEW w \in Workers, slot'[w].job # 0, NEW i \in Rows', i < slot'[w].job, Active(i)',
             (Destination(i) = Destination(Job(w)))'
      PROVE  /\ jobs'[i].state = "queued"
             /\ jobs'[i].pool # jobs'[slot'[w].job].pool
             /\ \E g \in Rows' : g < i /\ IsGc(g)' /\ jobs'[g].pool = jobs'[i].pool
  <2> DEFINE k == slot'[w].job
  <2>1. k \in Rows /\ ((w \in Used /\ k = Job(w)) \/ Considers(k))
    BY <1>1, <1>7 DEF TakenUp, SlotsOK, Used
  <2> HIDE DEF k
  <2>2. i \in Rows /\ Active(i) /\ i < k /\ jobs'[i].pool = jobs[i].pool /\ jobs'[k].pool = jobs[k].pool
    BY <1>1, <1>2, <1>3, <1>7, <2>1 DEF RowsKept, k
  <2>3. Destination(i) = Destination(k)
    BY <1>1, <1>7, <2>1, <2>2 DEF RowsKept, Destination, IsGc, Owner, Job, k
  <2>4. /\ jobs[i].state = "queued" /\ jobs[i].pool # jobs[k].pool /\ ~Considers(i)
        /\ \E g \in Rows : g < i /\ IsGc(g) /\ jobs[g].pool = jobs[i].pool
    <3>1. CASE w \in Used /\ k = Job(w)
      <4>1. Running(k)
        BY <3>1 DEF Running
      <4> QED BY <2>1, <2>2, <2>3, <3>1, <4>1 DEF InOrder, Considers, DestinationBusy
    <3>2. CASE Considers(k)
      <4>1. Barred(i) /\ ~Barred(k)
        BY <2>1, <2>2, <2>3, <3>2 DEF Considers, DestinationBusy
      <4>2. jobs[i].state = "queued" /\ ~Considers(i)
        BY <2>2, <4>1 DEF InOrder, Considers
      <4>3. PICK g \in Rows : g < i /\ Active(g) /\ IsGc(g) /\ jobs[g].pool = jobs[i].pool
        BY <4>1 DEF Barred
      <4>4. ~IsGc(i) /\ ~IsGc(k)
        BY <2>3, <4>1 DEF Barred, Destination, IsGc
      <4>5. g < k
        BY <1>1, <2>1, <2>2, <4>3
      <4>6. jobs[i].pool # jobs[k].pool
        BY <4>1, <4>3, <4>4, <4>5 DEF Barred
      <4> QED BY <4>2, <4>3, <4>6
    <3> QED BY <2>1, <3>1, <3>2
  <2>5. jobs'[i].state = "queued"
    BY <1>5, <1>7, <2>2, <2>4 DEF TakenUp, Active
  <2> QED BY <1>1, <1>2, <2>2, <2>4, <2>5 DEF RowsKept, k
<1> QED BY <1>6, <1>7 DEF InOrder, Used, Job

LEMMA OrderAlways == QSpec => [](JobInv /\ InOrder)
<1>1. QInit => InOrder
  BY DEF QInit, QueueInit, InOrder, Rows, Used, Job, FreeSlot
<1>2. ASSUME JobInv, InOrder, [QNext]_systemVars
      PROVE  InOrder'
  <2>1. ASSUME LedgerStep \/ (\E i \in Rows, w \in Workers : Claim(i, w))
               \/ (\E w \in Workers : Finish(w) \/ OrphanGone(w) \/ Start(w) \/ Work(w) \/ Dies(w))
        PROVE  InOrder'
    BY <1>2, <2>1, LedgerTakesUp, ClaimTakesUp, WorkerTakesUp, OrderStep
  <2>2. CASE GateStep \/ PoolStep
    <3>1. jobs' = jobs /\ slot' = slot
      BY <2>2 DEF PoolStep, GateStep, Enable, TakeGate, Disable, Serve, Shutdown, StopSignal, Kill,
                  queueVars
    <3> QED BY <1>2, <3>1 DEF InOrder, Rows, Active, Barred, Used, Job, Destination, Owner, IsGc
  <2>3. QueueTypeOK
    BY <1>2 DEF JobInv, LeaseInv
  <2> QED BY <1>2, <2>1, <2>2, <2>3, QueueSteps
<1> QED BY <1>1, <1>2, JobAlways, PTL DEF QSpec

\* Deliveries of one destination reach main in the order of their acceptance,
\* whatever pools, coordinators and attempts they go through, but for the jobs
\* that were accepted behind a gc of another pool than the worker's.
THEOREM LandingsAreInOrder == QSpec => LandsInOrder
<1>1. ASSUME JobInv, InOrder
      PROVE  \A w \in Workers : At(w, "push") =>
               \A i \in Rows :
                 i < Job(w) /\ Active(i) /\ Destination(i) = Destination(Job(w)) =>
                   /\ jobs[i].state = "queued"
                   /\ jobs[i].pool # jobs[Job(w)].pool
                   /\ \E g \in Rows : g < i /\ IsGc(g) /\ jobs[g].pool = jobs[i].pool
  <2>1. \A w \in Workers : At(w, "push") => w \in Used
    BY <1>1 DEF JobInv, LeaseInv, SlotsOK, At, Busy
  <2> QED BY <1>1, <2>1 DEF InOrder
<1>2. ASSUME JobInv, InOrder, [QNext]_systemVars
      PROVE  \A w \in Workers :
               /\ At(w, "push")
               /\ br[w].sha \in Shas(main'[Remote(w)]) \ Shas(main[Remote(w)])
               =>
                 \A i \in Rows :
                   i < Job(w) /\ Active(i) /\ Destination(i) = Destination(Job(w)) =>
                     /\ jobs[i].state = "queued"
                     /\ jobs[i].pool # jobs[Job(w)].pool
                     /\ \E g \in Rows : g < i /\ IsGc(g) /\ jobs[g].pool = jobs[i].pool
  BY <1>1, <1>2
<1> QED BY <1>2, OrderAlways, PTL DEF QSpec, LandsInOrder

-----------------------------------------------------------------------------
(* Failures *)

\* An instance in which every integration goes through the queue, a worker's
\* process can always be had, and neither answers nor origins are lost on it.
Undisturbed == Brokers = {} /\ MaxStartFaults = 0 /\ MaxLost = 0 /\ MaxRenames = 0

NothingOf(s) == \A x \in Here(s) : x.session # s

\* What is on main of a session is there by its current submission, whose
\* outcome is open or positive: with a negative one nothing of it has landed.
Kept(s) ==
  \/ NothingOf(s)
  \/ /\ State(s) \in {"INTEGRATING", "DELIVERED"}
     /\ \A x \in Here(s) : x.session = s => x.round = round[s]

\* Before its push, a worker's session has nothing on main.
AheadOfPush == {"origin", "prepare"} \cup OnCandidate
Unpushed(b) == br[b].pc \in AheadOfPush => NothingOf(Subject(b))

KeptInv ==
  /\ renamed = {}
  /\ \A s \in Sessions : Kept(s)
  /\ \A b \in Processes : Unpushed(b)

LEMMA KeptStays ==
  ASSUME KeptInv, UNCHANGED <<main, renamed>>,
         \A s \in Sessions :
           \/ NothingOf(s)
           \/ /\ round'[s] = round[s]
              /\ \/ journal'[s].state = State(s)
                 \/ journal'[s].state \in {"INTEGRATING", "DELIVERED"},
         \A a \in Processes : br'[a].pc \in AheadOfPush => NothingOf(br'[a].session)
  PROVE  KeptInv'
<1>1. \A s : Here(s)' = Here(s)
  BY DEF Here, OnMain
<1>2. \A s : NothingOf(s)' <=> NothingOf(s)
  BY <1>1 DEF NothingOf
<1>3. ASSUME NEW s \in Sessions
      PROVE  Kept(s)'
  <2>1. CASE NothingOf(s)
    BY <1>2, <2>1 DEF Kept
  <2>2. CASE ~NothingOf(s)
    <3>1. /\ State(s) \in {"INTEGRATING", "DELIVERED"}
          /\ \A x \in Here(s) : x.session = s => x.round = round[s]
      BY <2>2 DEF KeptInv, Kept
    <3>2. State(s)' \in {"INTEGRATING", "DELIVERED"} /\ round'[s] = round[s]
      BY <2>2, <3>1 DEF State
    <3> QED BY <1>1, <3>1, <3>2 DEF Kept
  <2> QED BY <2>1, <2>2
<1>4. \A a \in Processes : Unpushed(a)'
  BY <1>2 DEF Unpushed, Subject
<1> QED BY <1>3, <1>4 DEF KeptInv

\* The owner, and whoever takes a refused session back, move only sessions that
\* have nothing on main.
LEMMA OwnerKept ==
  ASSUME TypeInv, KeptInv, OwnerStep
  PROVE  /\ renamed' = renamed
         /\ \A s \in Sessions :
              NothingOf(s) \/ (journal'[s] = journal[s] /\ round'[s] = round[s])
<1>1. /\ journal \in [Sessions -> Journals] /\ round \in [Sessions -> Nat] /\ renamed = {}
      /\ \A s \in Sessions : State(s) \notin {"INTEGRATING", "DELIVERED"} => NothingOf(s)
  BY DEF TypeInv, BrokerTypeOK, RecordTypeOK, KeptInv, Kept
<1>2. PICK t \in Sessions :
        \/ \E c \in Contents : Submit(t, c)
        \/ CloseClean(t) \/ Exit(t) \/ LauncherDies(t) \/ List(t) \/ Resume(t)
  BY DEF OwnerStep
<1>3. \/ journal' = journal /\ round' = round
      \/ /\ State(t) \in {"OPEN", "ABANDONED", "CONFLICT", "CLOSED"}
         /\ \A s \in Sessions \ {t} : journal'[s] = journal[s] /\ round'[s] = round[s]
  BY <1>1, <1>2 DEF Submit, CloseClean, Exit, LauncherDies, List, Resume, Reopen, Transition
<1>4. renamed' = renamed
  BY <1>1, <1>2 DEF Submit, CloseClean, Exit, LauncherDies, List, Resume
<1> QED BY <1>1, <1>3, <1>4

LEMMA LaneKept ==
  ASSUME TypeInv, KeptInv, NEW s \in Sessions, RecoverReopen(s) \/ Discard(s)
  PROVE  /\ UNCHANGED <<renamed, round>>
         /\ NothingOf(s) /\ \A t \in Sessions \ {s} : journal'[t] = journal[t]
<1>1. journal \in [Sessions -> Journals] /\ State(s) \in {"ABANDONED", "CONFLICT"}
  BY DEF TypeInv, BrokerTypeOK, RecordTypeOK, RecoverReopen, Discard
<1> QED BY <1>1 DEF KeptInv, Kept, RecoverReopen, Reopen, Discard, Transition

LEMMA PoolKept ==
  ASSUME Undisturbed, TypeInv, KeptInv, [Next]_allVars
  PROVE  KeptInv'
<1>1. Brokers = {} /\ MaxRenames = 0
  BY DEF Undisturbed
<1>2. \A a \in Processes : br[a].pc \in AheadOfPush => NothingOf(br[a].session)
  BY DEF KeptInv, Unpushed, Subject
<1>3. CASE OwnerStep /\ UNCHANGED brokerVars
  BY <1>2, <1>3, OwnerKept, KeptStays DEF brokerVars, State
<1>4. ASSUME NEW s \in Sessions, LaneStep(s)
      PROVE  KeptInv'
  <2>1. (RecoverReopen(s) \/ Discard(s)) /\ UNCHANGED brokerVars
    BY <1>4 DEF LaneStep
  <2> QED BY <1>2, <2>1, LaneKept, KeptStays DEF brokerVars, State
<1>5. ASSUME NEW r \in Remotes, OtherPush(r)
      PROVE  KeptInv'
  <2> DEFINE y == [sha |-> nextSha, session |-> Other, content |-> NoIdentity, round |-> 0]
  <2>1. /\ main \in [Remotes -> Seq(Commits)] /\ y \in Commits /\ y.session = Other
        /\ main' = [main EXCEPT ![r] = Append(@, y)]
        /\ UNCHANGED <<recordVars, br>>
    BY <1>5 DEF OtherPush, TypeInv, BrokerTypeOK, Commits
  <2> HIDE DEF y
  <2>2. \A s \in Sessions : RemoteOf[s] \in Remotes /\ s # Other
    BY BrokerAssumption
  <2>3. \A s \in Sessions : \A x \in Here(s)' : x.session = s => x \in Here(s)
    <3> SUFFICES ASSUME NEW s \in Sessions
                 PROVE  \A x \in Here(s)' : x.session = s => x \in Here(s)
      OBVIOUS
    <3>1. OnMain(RemoteOf[s])' \subseteq OnMain(RemoteOf[s]) \cup {y}
      BY <2>1, <2>2, MainAppend
    <3> QED BY <2>1, <2>2, <3>1 DEF Here
  <2>4. \A s \in Sessions : NothingOf(s) => NothingOf(s)'
    BY <2>3 DEF NothingOf
  <2>5. \A s \in Sessions : Kept(s)'
    BY <2>1, <2>3, <2>4 DEF KeptInv, Kept, State, recordVars
  <2>6. \A a \in Processes : Unpushed(a)'
    <3>1. \A a \in Processes : br[a].pc \in AheadOfPush => Subject(a) \in Sessions
      BY DEF TypeInv, SubjectsOK, Working, AheadOfPush, OnCandidate
    <3> QED BY <2>1, <2>4, <3>1 DEF KeptInv, Unpushed, Subject
  <2> QED BY <2>1, <2>5, <2>6 DEF KeptInv, recordVars
<1>6. ASSUME NEW s \in Sessions, RenameOrigin(s)
      PROVE  FALSE
  BY <1>1, <1>6 DEF RenameOrigin, TypeInv, BrokerTypeOK
<1>7. CASE UNCHANGED allVars
  BY <1>2, <1>7, KeptStays DEF allVars, brokerVars, recordVars, State
<1> QED BY <1>1, <1>3, <1>4, <1>5, <1>6, <1>7 DEF Next, Environment

\* A worker's step: until the push nothing is there, the push puts the current
\* contribution there, and the readback finds it.
LEMMA StepKept ==
  ASSUME Undisturbed, EvidenceInv, KeptInv, NEW w \in Processes, BrokerStep(w)
  PROVE  KeptInv'
<1>1. TypeInv /\ Working(w) /\ (GoesOn(w) \/ (Ends(w) /\ LeavesOthers(Subject(w))))
  BY StepShape DEF EvidenceInv, WorkInv
<1>2. PICK s \in Sessions :
      /\ s = Subject(w) /\ RemoteOf[s] = Remote(w) /\ SessionInv(s) /\ HandInv(w)
      /\ State(s) = "INTEGRATING"
      /\ \A a \in Processes \ {w} : Working(a) => Subject(a) # s
      /\ br \in [Processes -> Locals]
  BY <1>1, AtFacts
<1>3. /\ \A a \in Processes \ {w} : br'[a] = br[a]
      /\ br'[w].pc # "idle" => br'[w].session = s
      /\ \A t \in Sessions \ {s} : journal'[t] = journal[t]
  BY <1>1, <1>2, EndsMoves DEF GoesOn, LeavesOthers
<1>4. renamed' = renamed /\ round' = round
  BY DEF BrokerStep, OriginConflict, Prepare, Verify, Commit, WritePending, Fetch,
         EnterPublishing, Push, Acknowledge, Readback, Deliver
<1>5. \A a \in Processes \ {w} : br'[a].pc \in AheadOfPush => NothingOf(br'[a].session)
  BY <1>3 DEF KeptInv, Unpushed, Subject
<1>6. ASSUME main' = main, NothingOf(s)
      PROVE  KeptInv'
  <2>1. br'[w].pc \in AheadOfPush => br'[w].session = s
    BY <1>3 DEF AheadOfPush, OnCandidate
  <2> QED BY <1>3, <1>4, <1>5, <1>6, <2>1, KeptStays DEF State
<1>7. ASSUME main' = main, br'[w].pc \notin AheadOfPush,
             journal'[s].state \in {"INTEGRATING", "DELIVERED"}
      PROVE  KeptInv'
  BY <1>3, <1>4, <1>5, <1>7, KeptStays DEF State
<1>8. CASE \/ OriginConflict(w) \/ Prepare(w) \/ Verify(w) \/ Commit(w) \/ WritePending(w)
           \/ Fetch(w) \/ EnterPublishing(w) \/ (Push(w) /\ main' = main)
  <2>1. main' = main
    BY <1>8 DEF OriginConflict, Prepare, Verify, Commit, WritePending, Fetch, EnterPublishing,
                remoteVars
  <2>2. br[w].pc \in AheadOfPush
    BY <1>8 DEF OriginConflict, Prepare, Verify, Commit, WritePending, Fetch, EnterPublishing,
                Push, At, AheadOfPush, OnCandidate
  <2> QED BY <1>2, <1>6, <2>1, <2>2 DEF KeptInv, Unpushed
<1>9. CASE Push(w) /\ main' # main
  <2>1. /\ At(w, "push") /\ Accepts(w) /\ Goes(w, "ack") /\ UNCHANGED journal
        /\ UNCHANGED <<files, nextSha>>
    BY <1>1, <1>9 DEF Push, Undisturbed, TypeInv, BrokerTypeOK
  <2>2. NothingOf(s)
    BY <1>2, <2>1 DEF At, KeptInv, Unpushed, AheadOfPush, OnCandidate
  <2>3. PICK x \in Commits :
          /\ main' = [main EXCEPT ![RemoteOf[s]] = Append(@, x)]
          /\ x.session = s /\ Proof(s, x) /\ Here(s)' = Here(s) \cup {x}
    BY <1>2, <1>4, <2>1, LandFacts
  <2>0. main \in [Remotes -> Seq(Commits)] /\ \A t \in Sessions : RemoteOf[t] \in Remotes
    BY <1>1, BrokerAssumption DEF TypeInv, BrokerTypeOK
  <2>8. \A r \in Remotes : OnMain(r)' \subseteq OnMain(r) \cup {x}
    <3> SUFFICES ASSUME NEW r \in Remotes
                 PROVE  OnMain(r)' \subseteq OnMain(r) \cup {x}
      OBVIOUS
    <3>1. PICK q \in Remotes : q = RemoteOf[s]
      BY <1>2, <2>0
    <3>2. main' = [main EXCEPT ![q] = Append(@, x)] /\ x \in Commits
      BY <2>3, <3>1
    <3>3. OnMain(r)' = OnMain(r) \cup (IF r = q THEN {x} ELSE {})
      BY <2>0, <3>2, MainAppend
    <3> QED BY <3>3
  <2>4. \A t \in Sessions \ {s} : NothingOf(t) => NothingOf(t)'
    <3> SUFFICES ASSUME NEW t \in Sessions \ {s}
                 PROVE  \A y \in Here(t)' : y.session = t => y \in Here(t)
      BY DEF NothingOf
    <3>1. OnMain(RemoteOf[t])' \subseteq OnMain(RemoteOf[t]) \cup {x}
      BY <2>0, <2>8
    <3> QED BY <2>3, <3>1 DEF Here
  <2>5. ASSUME NEW t \in Sessions \ {s}, ~NothingOf(t)
        PROVE  Kept(t)'
    <3>1. /\ State(t) \in {"INTEGRATING", "DELIVERED"}
          /\ \A y \in Here(t) : y.session = t => y.round = round[t]
      BY <2>5 DEF KeptInv, Kept
    <3>2. OnMain(RemoteOf[t])' \subseteq OnMain(RemoteOf[t]) \cup {x}
      BY <2>0, <2>8
    <3> QED BY <1>4, <2>1, <2>3, <3>1, <3>2 DEF Kept, Here, State
  <2>6. Kept(s)'
    <3>1. State(s)' = "INTEGRATING"
      BY <1>2, <2>1 DEF State
    <3>2. x.round = round[s]
      BY <2>3 DEF Proof, RoundCommit
    <3> QED BY <1>4, <2>2, <2>3, <3>1, <3>2 DEF Kept, NothingOf
  <2>7. \A a \in Processes : Unpushed(a)'
    <3>1. br'[w].pc = "ack"
      BY <1>2, <2>1 DEF Goes
    <3>2. \A a \in Processes \ {w} : br[a].pc \in AheadOfPush => Subject(a) \in Sessions \ {s}
      BY <1>1, <1>2 DEF TypeInv, SubjectsOK, Working, AheadOfPush, OnCandidate
    <3> QED BY <1>3, <2>4, <3>1, <3>2
            DEF KeptInv, Unpushed, Subject, AheadOfPush, OnCandidate
  <2> QED BY <1>4, <2>4, <2>5, <2>6, <2>7 DEF KeptInv, Kept
<1>10. CASE Acknowledge(w) \/ Deliver(w)
  <2>1. main' = main /\ journal'[s].state \in {"INTEGRATING", "DELIVERED"}
    BY <1>1, <1>2, <1>10
       DEF Acknowledge, Deliver, remoteVars, Concludes, Transition, State, TypeInv, BrokerTypeOK,
           RecordTypeOK
  <2>2. br'[w].pc \in {"readback", "idle"}
    <3>1. Ends(w) => br'[w].pc = "idle"
      BY <1>1, EndsMoves
    <3>2. CASE Acknowledge(w)
      BY <1>2, <3>2 DEF Acknowledge, Goes
    <3> QED BY <1>10, <3>1, <3>2 DEF Deliver, Concludes
  <2> QED BY <1>7, <2>1, <2>2 DEF AheadOfPush, OnCandidate
<1>11. CASE Readback(w)
  <2>1. PICK x \in Here(s) : x.sha = br[w].sha /\ Proof(s, x)
    BY <1>2, <1>11 DEF Readback, At, HandInv, Pushed, Here
  <2>2. Ancestor(s, br[w].sha)
    BY <2>1 DEF Ancestor, Here, OnMain
  <2>3. files[s].manifest = br[w].sha
    BY <1>2, <2>1 DEF SessionInv, Named, Live, Proof
  <2>4. /\ Goes(w, "deliver") /\ UNCHANGED journal /\ main' = main
    BY <1>2, <1>11, <2>2, <2>3 DEF Readback, remoteVars
  <2>5. br'[w].pc = "deliver"
    BY <1>2, <2>4 DEF Goes
  <2> QED BY <1>2, <1>7, <2>4, <2>5 DEF AheadOfPush, OnCandidate, State
<1> QED BY <1>8, <1>9, <1>10, <1>11 DEF BrokerStep

\* A worker enters a session that has nothing on main, or judges by its evidence
\* what an earlier one has landed.
LEMMA StartKept ==
  ASSUME JobInv, EvidenceInv, KeptInv, NEW w \in Workers, Start(w)
  PROVE  KeptInv'
<1>1. /\ TypeInv /\ w \in Processes /\ UNCHANGED <<round, main, nextSha, renamed>>
      /\ ~Working(w) /\ br \in [Processes -> Locals]
      /\ \A a \in Processes \ {w} : br'[a] = br[a]
  BY StartCases DEF EvidenceInv, WorkInv, Start, TypeInv, BrokerTypeOK
<1>2. \A a \in Processes \ {w} : br'[a].pc \in AheadOfPush => NothingOf(br'[a].session)
  BY <1>1 DEF KeptInv, Unpushed, Subject
<1>3. "idle" \notin AheadOfPush /\ "start" \notin AheadOfPush /\ "deliver" \notin AheadOfPush
  BY DEF AheadOfPush, OnCandidate
<1>4. CASE Ends(w) /\ UNCHANGED <<journal, files>>
  <2>1. br'[w].pc = "idle"
    BY <1>1, <1>4, EndsMoves
  <2> QED BY <1>1, <1>2, <1>3, <1>4, <2>1, KeptStays DEF State
<1>5. ASSUME NEW s \in Sessions, State(s) = "SUBMITTED", Enter(w, s)
      PROVE  KeptInv'
  <2>1. NothingOf(s)
    BY <1>5 DEF KeptInv, Kept
  <2>2. br'[w].session = s
    BY <1>1, <1>5 DEF Enter, Fresh
  <2>3. \A t \in Sessions \ {s} : journal'[t] = journal[t]
    BY <1>1, <1>5 DEF Enter, Transition, TypeInv, BrokerTypeOK, RecordTypeOK
  <2> QED BY <1>1, <1>2, <2>1, <2>2, <2>3, KeptStays DEF State
<1>6. ASSUME NEW s \in Sessions, NEW rest, Reconcile(w, s, rest), rest.pc \in {"idle", "start"}
      PROVE  KeptInv'
  <2>1. State(s) = "INTEGRATING" /\ SessionInv(s) /\ renamed = {}
    BY <1>6 DEF Reconcile, EvidenceInv, KeptInv
  <2>2. ASSUME NEW x \in Here(s), x.session = s
        PROVE  RecoveryVerdict(s) = "DELIVERED"
    <3>1. x.round = round[s]
      BY <2>1, <2>2 DEF KeptInv, Kept, NothingOf
    <3>2. files[s].pending = x.sha /\ files[s].manifest = x.sha /\ files[s].ack \in {0, x.sha}
      BY <2>1, <2>2, <3>1 DEF SessionInv, Named, RoundCommit, Live
    <3>3. 0 < x.sha /\ x.sha # 0
      <4>1. RemoteOf[s] \in Remotes
        BY BrokerAssumption
      <4>2. 0 < x.sha
        BY <4>1 DEF EvidenceInv, MainInv, Here
      <4> QED BY <4>2
    <3>4. Ancestor(s, x.sha)
      BY DEF Ancestor, Here, OnMain
    <3> QED BY <2>1, <3>2, <3>3, <3>4 DEF RecoveryVerdict, ProofUsable
  <2>3. CASE RecoveryVerdict(s) = "DELIVERED"
    <3>1. br'[w].pc = "deliver" /\ journal' = journal
      BY <1>1, <1>6, <2>3 DEF Reconcile, Fresh
    <3> QED BY <1>1, <1>2, <1>3, <3>1, KeptStays DEF State
  <2>4. CASE RecoveryVerdict(s) # "DELIVERED"
    <3>1. NothingOf(s)
      BY <2>2, <2>4 DEF NothingOf
    <3>2. \A t \in Sessions \ {s} : journal'[t] = journal[t]
      BY <1>1, <1>6, <2>4 DEF Reconcile, Transition, TypeInv, BrokerTypeOK, RecordTypeOK
    <3>3. br'[w].pc \in {"idle", "start"}
      BY <1>1, <1>6, <2>4 DEF Reconcile, Idle, Fresh
    <3> QED BY <1>1, <1>2, <1>3, <3>1, <3>2, <3>3, KeptStays DEF State
  <2> QED BY <2>3, <2>4
<1>7. ASSUME NEW s \in Sessions, Ends(w), RecoverReopen(s) \/ Discard(s)
      PROVE  KeptInv'
  <2>1. NothingOf(s) /\ \A t \in Sessions \ {s} : journal'[t] = journal[t]
    BY <1>1, <1>7, LaneKept
  <2>2. br'[w].pc = "idle"
    BY <1>1, <1>7, EndsMoves
  <2> QED BY <1>1, <1>2, <1>3, <2>1, <2>2, KeptStays DEF State
<1> QED BY <1>4, <1>5, <1>6, <1>7, StartCases

LEMMA KeptStep ==
  ASSUME Undisturbed, QueueInv, KeptInv, [QNext]_systemVars
  PROVE  KeptInv'
<1>1. JobInv /\ EvidenceInv /\ TypeInv /\ QueueTypeOK
  BY DEF QueueInv, EvidenceInv, WorkInv, JobInv, LeaseInv
<1>2. ASSUME UNCHANGED <<recordVars, remoteVars>>,
             \A a \in Processes : br'[a] = br[a] \/ br'[a].pc \in {"idle", "start"}
      PROVE  KeptInv'
  <2>1. \A a \in Processes : br'[a].pc \in AheadOfPush => NothingOf(br'[a].session)
    BY <1>2 DEF KeptInv, Unpushed, Subject, AheadOfPush, OnCandidate
  <2> QED BY <1>2, <2>1, KeptStays DEF recordVars, remoteVars, State
<1>3. CASE \/ LedgerStep \/ GateStep
           \/ \E i \in Rows, w \in Workers : Claim(i, w)
           \/ \E w \in Workers : Finish(w) \/ OrphanGone(w)
  BY <1>1, <1>2, <1>3, QueueIdle DEF Rests
<1>4. CASE PoolStep
  BY <1>1, <1>4, PoolKept DEF PoolStep
<1>5. ASSUME NEW w \in Workers, Start(w) \/ Work(w) \/ Dies(w)
      PROVE  KeptInv'
  <2>1. w \in Processes
    BY DEF Processes
  <2>2. CASE BrokerStep(w)
    BY <1>1, <2>1, <2>2, StepKept
  <2>3. CASE Stop(w)
    <3>1. \A a \in Processes : br'[a] = br[a] \/ br'[a].pc \in {"idle", "start"}
      BY <1>1, <2>1, <2>3, EndsMoves DEF Stop
    <3> QED BY <1>2, <2>3, <3>1 DEF Stop
  <2> QED BY <1>1, <1>5, <2>2, <2>3, StartKept DEF Work, Dies
<1> QED BY <1>1, <1>3, <1>4, <1>5, QueueSteps

\* What a row that turns failed says is so.
LEMMA FailedSays ==
  ASSUME Undisturbed, QueueInv, KeptInv, [QNext]_systemVars, NEW i \in Rows,
         jobs[i].op = "integrate", jobs[i].state # "failed", jobs'[i].state = "failed"
  PROVE  \/ Identity(Owner(i)) # jobs[i].identity
         \/ State(Owner(i)) \notin {"INTEGRATING", "DELIVERED"}
<1>1. /\ JobInv /\ QueueTypeOK /\ SlotsOK /\ jobs \in Seq(Row) /\ jobs[i] \in Row
      /\ \A w \in Workers : Job(w) # 0 => Job(w) \in Rows
  BY RowsAre DEF QueueInv, JobInv, LeaseInv, QueueTypeOK, Row, SlotsOK, Used
<1>2. \A k \in Rows : FailStart(k) => ~InputsBound(k)
  BY <1>1 DEF Undisturbed, FailStart, QueueTypeOK
<1>3. ASSUME NEW k \in Rows, FailStart(k)
      PROVE  Identity(Owner(i)) # jobs[i].identity
  <2>1. k = i
    BY <1>1, <1>3 DEF FailStart, Rows
  <2> QED BY <1>2, <1>3, <2>1 DEF InputsBound
<1>4. ASSUME NEW w \in Workers, Finish(w)
      PROVE  State(Owner(i)) \notin {"INTEGRATING", "DELIVERED"}
  <2>1. Job(w) = i /\ jobs'[i].state = Outcome(i, slot[w].rc)
    BY <1>1, <1>4 DEF Finish, Rows
  <2> QED BY <2>1 DEF Outcome
<1>5. ASSUME jobs'[i].state \in {jobs[i].state, "running", "needs_reconcile"}
      PROVE  FALSE
  BY <1>5
<1>6. ASSUME NEW k \in Rows, \/ ReconcileJob(k) \/ Exhaust(k)
                              \/ \E w \in Workers : Claim(k, w)
      PROVE  jobs'[i].state \in {jobs[i].state, "running", "needs_reconcile"}
  <2>1. CASE ReconcileJob(k)
    BY <1>1, <2>1 DEF ReconcileJob, Row, Rows
  <2>2. CASE Exhaust(k)
    BY <1>1, <2>2 DEF Exhaust, Row, Rows
  <2>3. CASE \E w \in Workers : Claim(k, w)
    BY <1>1, <2>3 DEF Claim, Row, Rows
  <2> QED BY <1>6, <2>1, <2>2, <2>3
<1>7. ASSUME NEW w \in Workers, Start(w) \/ Work(w) \/ Dies(w) \/ OrphanGone(w)
      PROVE  jobs'[i].state = jobs[i].state
  <2>1. jobs' = jobs \/ jobs' = [jobs EXCEPT ![Job(w)].intent = @ \/ br'[w].pc = "push"]
    BY <1>7 DEF Start, Work, Dies, OrphanGone
  <2>2. \A e : jobs' = [jobs EXCEPT ![Job(w)].intent = e] => jobs'[i].state = jobs[i].state
    BY <1>1 DEF Row, Rows
  <2> QED BY <2>1, <2>2
<1>8. ASSUME NEW s \in Sessions, Enqueue(s)
      PROVE  jobs'[i].state = jobs[i].state
  BY <1>1, <1>8 DEF Enqueue, Row, Rows
<1>9. ASSUME NEW r, jobs' = Append(jobs, r)
      PROVE  jobs'[i].state = jobs[i].state
  BY <1>1, <1>9, RowsAre, AppendProperties DEF Rows
<1>10. CASE \/ \E s \in Sessions : \E op \in {"recover", "discard"} : Control(op, s)
            \/ \E p \in Pools : ControlGc(p)
  BY <1>9, <1>10 DEF Control, ControlGc
<1>11. CASE GateStep \/ PoolStep
  BY <1>5, <1>11 DEF PoolStep, GateStep, Enable, TakeGate, Disable, Serve, Shutdown, StopSignal,
                     Kill, queueVars
<1>12. CASE LedgerStep
  BY <1>3, <1>5, <1>6, <1>8, <1>10, <1>12 DEF LedgerStep
<1> QED BY <1>1, <1>4, <1>5, <1>6, <1>7, <1>11, <1>12, QueueSteps

\* In an undisturbed instance, whatever is killed, a job is answered failed only
\* when its outcome is known and negative (finish and the claim of
\* bin/harness_integration_queue.py; recover_unlocked of bin/harness-session).
THEOREM FailuresAreHonest ==
  ASSUME Undisturbed
  PROVE  QSpec => FailureHonest
<1>1. QInit => KeptInv
  <2> SUFFICES ASSUME QInit PROVE KeptInv
    OBVIOUS
  <2>1. renamed = {} /\ main = [r \in Remotes |-> <<>>] /\ \A a \in Processes : br[a].pc = "idle"
    BY DEF QInit, Init, RecordInit, BrokerInit, Idle, Fresh
  <2>2. \A s \in Sessions : Here(s) = {}
    <3>1. \A s \in Sessions : main[RemoteOf[s]] = << >>
      BY <2>1, BrokerAssumption
    <3>2. DOMAIN << >> = {}
      OBVIOUS
    <3> QED BY <3>1, <3>2 DEF Here, OnMain
  <2> QED BY <2>1, <2>2 DEF KeptInv, Kept, NothingOf, Unpushed, AheadOfPush, OnCandidate
<1>2. QueueInv /\ KeptInv /\ [QNext]_systemVars => KeptInv'
  BY KeptStep
<1>3. ASSUME QueueInv, KeptInv, [QNext]_systemVars
      PROVE  \A i \in Rows :
               /\ jobs[i].op = "integrate"
               /\ jobs[i].state # "failed" /\ jobs'[i].state = "failed"
               => /\ <<State(Owner(i)), Identity(Owner(i))>> # <<"INTEGRATING", jobs[i].identity>>
                  /\ ~Landed(Owner(i), jobs[i].identity)
  <2> SUFFICES ASSUME NEW i \in Rows, jobs[i].op = "integrate", jobs[i].state # "failed",
                      jobs'[i].state = "failed"
               PROVE  /\ State(Owner(i)) # "INTEGRATING" \/ Identity(Owner(i)) # jobs[i].identity
                      /\ ~Landed(Owner(i), jobs[i].identity)
    OBVIOUS
  <2>1. \/ Identity(Owner(i)) # jobs[i].identity
        \/ State(Owner(i)) \notin {"INTEGRATING", "DELIVERED"}
    BY <1>3, FailedSays
  <2>2. PICK s \in Sessions : s = Owner(i)
    BY <1>3, RowsAre DEF QueueInv, JobInv, LeaseInv, QueueTypeOK, RowsOK, IsGc, Owner, Row
  <2>3. ASSUME Landed(s, jobs[i].identity)
        PROVE  FALSE
    <3>1. PICK x \in Here(s) : x.session = s /\ x.content = jobs[i].identity
      BY <2>3 DEF Landed, Here, OnMain
    <3>2. State(s) \in {"INTEGRATING", "DELIVERED"} /\ RoundCommit(s, x)
      BY <1>3, <3>1 DEF KeptInv, Kept, NothingOf, RoundCommit
    <3>3. x.content = Identity(s)
      BY <1>3, <3>2 DEF QueueInv, EvidenceInv, SessionInv, Named, Live
    <3> QED BY <2>1, <2>2, <3>1, <3>2, <3>3
  <2> QED BY <2>1, <2>2, <2>3
<1> QED BY <1>1, <1>2, <1>3, QueueAlways, PTL DEF QSpec, FailureHonest
=============================================================================
