---------------------------- MODULE HeadlessProofs ----------------------------
(***************************************************************************)
(* Theorems about TargetDelivery, for any number of runs of a branch and   *)
(* of host records: one commit reaches the branch at most, it has passed   *)
(* every check, and who answers "pr_opened" is right and under the record  *)
(* the delivery was started with.                                          *)
(*                                                                         *)
(* The argument: only the holder of the lock works (Alone), and the        *)
(* journal, once there, keeps its commit, so that whatever is under way    *)
(* from a run that died is a push of that very commit (Pushes).  What a    *)
(* run at work knows of the files is in Knows.                             *)
(* And about HeadlessRun and CanonicalBootstrap, one after the other.      *)
(***************************************************************************)
EXTENDS TargetDelivery, FiniteSetTheorems, SequenceTheorems, TLAPS

\* The steps of a run: before its journal, along deliver_target, and once its
\* commit was on the branch.
Preparing == {"preflight", "session", "freeze", "commit", "save", "pend"}
Opening == {"readback", "list", "create", "relist", "url", "deliver"}
Delivering == {"look", "push", "pushed", "push-journal"} \cup Opening
Steps == {"start", "journal", "done"} \cup Preparing \cup Delivering
Locals == [at : Steps, digest : Digests \cup {None}, sha : Runs \cup {None}, seen : {None},
           agent : BOOLEAN, status : Statuses \cup {"none"}]
Works(r) == run[r].at \notin {"start", "done"}

TypesOK ==
  /\ journal \in [phase : {"none", "PENDING", "PUSHED", "DELIVERED"}, sha : Runs \cup {None}]
  /\ record \in [sha : Runs \cup {None}, digest : Digests \cup {None}, url : BOOLEAN]
  /\ holder \in Runs \cup {Nobody} /\ run \in [Runs -> Locals]
  /\ wire \subseteq [op : {"push", "create", "landed"}, sha : Runs, by : Runs]
  /\ branch \in Commits \cup {None} /\ prs \in {0, 1}
  /\ change \in [Runs -> Changes] /\ pushed \subseteq Runs

\* Only the holder of the lock is at work.
Alone == \A r \in Runs : Works(r) => holder = r

\* A delivery on record is that of a screened commit.
Recorded ==
  journal.phase # "none" =>
    /\ journal.sha \in Runs /\ change[journal.sha] = "plain"
    /\ record.sha = journal.sha /\ record.digest \in Digests

\* What is under way to the branch, or ever reached it, is the journal's commit.
Pushes ==
  /\ \A m \in wire : m.op = "push" => journal.phase # "none" /\ m.sha = journal.sha
  /\ \A m \in wire : m.op = "landed" => m.sha \in pushed
  /\ \A x \in pushed : journal.phase # "none" /\ x = journal.sha
  /\ branch \in Runs => branch \in pushed

\* What the phase of the journal promises.
Phased ==
  /\ journal.phase \in {"PUSHED", "DELIVERED"} => journal.sha \in pushed
  /\ journal.phase = "DELIVERED" => record.url /\ prs > 0

\* What a run knows of the files by its step, and how it ended.
Knows(r) ==
  /\ Works(r) => run[r].digest \in Digests
  /\ run[r].at # "done" => run[r].status = "none"
  /\ run[r].at \in Preparing => journal.phase = "none"
  /\ run[r].at = "commit" => change[r] \in {"plain", "secret", "dependency", "failing-tests"}
  /\ run[r].at \in {"save", "pend"} => run[r].sha = r /\ change[r] = "plain"
  /\ run[r].at = "pend" => record.sha = r /\ record.digest = run[r].digest
  /\ run[r].at \in Delivering =>
       /\ journal.phase \in {"PENDING", "PUSHED"}
       /\ run[r].sha = journal.sha /\ record.digest = run[r].digest
  /\ run[r].at \in Opening \cup {"push-journal"} => run[r].sha \in pushed
  /\ run[r].at \in {"url", "deliver"} => prs > 0
  /\ run[r].at = "deliver" => record.url
  /\ run[r].status = "pr_opened" => journal.phase = "DELIVERED" /\ run[r].digest = record.digest

TargetInv ==
  TypesOK /\ Alone /\ Recorded /\ Pushes /\ Phased /\ \A r \in Runs : Knows(r)

\* The steps of a run that leave the files, the wire, the remote and the agents' changes
\* alone.
Quiet(r) ==
  \/ Lock(r) \/ TakeUp(r) \/ Fails(r) \/ Freeze(r) \/ Screen(r) \/ Look(r) \/ PushExits(r)
  \/ Readback(r) \/ List(r) \/ Relist(r) \/ Dies(r)

-----------------------------------------------------------------------------
(* Types and the lock *)

LEMMA InitTarget == ASSUME TargetAssumption, Init PROVE TargetInv
<1> USE DEF Init, NoJournal, NoRecord, Idle, TargetAssumption
<1>1. TypesOK
  BY DEF TypesOK, Locals, Steps, Changes, Commits
<1>2. \A r \in Runs : run[r] = Idle
  OBVIOUS
<1>3. Alone /\ Recorded /\ Pushes /\ Phased
  BY <1>2 DEF Alone, Recorded, Pushes, Phased, Works
<1>4. \A r \in Runs : Knows(r)
  BY <1>2 DEF Knows, Works, Preparing, Delivering, Opening
<1> QED BY <1>1, <1>3, <1>4 DEF TargetInv

\* A quiet step leaves everything but run[r] and the lock alone.
LEMMA QuietFrame ==
  ASSUME NEW r \in Runs, Quiet(r)
  PROVE  UNCHANGED <<local, wire, remote, change>>
BY DEF Quiet, Lock, TakeUp, Fails, Freeze, Screen, Look, PushExits, Readback, List, Relist,
       Dies, Unlisted, GiveUp

\* No step of a run touches the locals of another.
LEMMA OthersStay ==
  ASSUME TypesOK, NEW r \in Runs, Step(r), NEW s \in Runs, s # r
  PROVE  run'[s] = run[s]
<1> USE DEF TypesOK, Goes, Ends
<1>1. CASE Lock(r)
  BY <1>1 DEF Lock
<1>2. CASE TakeUp(r) \/ Fresh(r) \/ Agent(r) \/ Fails(r)
  BY <1>2 DEF TakeUp, Fresh, Agent, Fails
<1>3. CASE Freeze(r) \/ Screen(r) \/ Save(r) \/ Pend(r)
  BY <1>3 DEF Freeze, Screen, Save, Pend
<1>4. CASE Look(r) \/ Push(r) \/ PushExits(r) \/ PushJournal(r) \/ Readback(r)
  BY <1>4 DEF Look, Push, PushExits, PushJournal, Readback
<1>5. CASE List(r) \/ CreatePR(r) \/ Relist(r) \/ SaveUrl(r) \/ Deliver(r) \/ Dies(r)
  BY <1>5 DEF List, CreatePR, Relist, SaveUrl, Deliver, Dies, Unlisted, GiveUp
<1> QED BY <1>1, <1>2, <1>3, <1>4, <1>5 DEF Step

\* A step that goes on, keeping the run's digest and status; one that ends.
Going(r) ==
  /\ Works(r) /\ UNCHANGED holder
  /\ run'[r].at \in Steps \ {"start", "done"}
  /\ run'[r].digest = run[r].digest /\ run'[r].status = run[r].status
Ending(r) ==
  /\ Works(r) /\ holder' \in {holder, Nobody}
  /\ run'[r].at = "done" /\ run'[r].digest = run[r].digest
  /\ run'[r].status = "pr_opened" =>
       (TakeUp(r) /\ journal.phase = "DELIVERED" /\ record.digest = run[r].digest) \/ Deliver(r)

\* A step that replaces the locals of r by x, and one that only moves on.
LEMMA GoesTo ==
  ASSUME TargetInv, NEW r \in Runs, Works(r), UNCHANGED holder,
         NEW x \in Locals, x.at \notin {"start", "done"}, x.digest = run[r].digest,
         x.status = run[r].status, run' = [run EXCEPT ![r] = x]
  PROVE  run' \in [Runs -> Locals] /\ Going(r)
<1>1. run \in [Runs -> Locals]
  BY DEF TargetInv, TypesOK
<1>2. run'[r] = x /\ x.at \in Steps
  BY <1>1 DEF Locals
<1> QED BY <1>1, <1>2 DEF Going

LEMMA Moves ==
  ASSUME TargetInv, NEW r \in Runs, Works(r), UNCHANGED holder,
         NEW step \in Steps \ {"start", "done"}, Goes(r, step)
  PROVE  run' \in [Runs -> Locals] /\ Going(r)
<1>1. run \in [Runs -> Locals] /\ run[r] \in Locals
  BY DEF TargetInv, TypesOK
<1> DEFINE x == [run[r] EXCEPT !.at = step]
<1>2. x \in Locals /\ x.at = step /\ x.digest = run[r].digest /\ x.status = run[r].status
  BY <1>1 DEF Locals
<1>3. run' = [run EXCEPT ![r] = x]
  BY <1>1 DEF Goes
<1> HIDE DEF x
<1> QED BY <1>2, <1>3, GoesTo

LEMMA EndsSo ==
  ASSUME TargetInv, NEW r \in Runs, Works(r), NEW status \in Statuses \cup {"none"}, Ends(r, status)
  PROVE  /\ run' \in [Runs -> Locals] /\ holder' \in {holder, Nobody}
         /\ run'[r].at = "done" /\ run'[r].digest = run[r].digest /\ run'[r].status = status
<1>1. run \in [Runs -> Locals] /\ run[r] \in Locals
  BY DEF TargetInv, TypesOK
<1>2. PICK a \in BOOLEAN : a = run[r].agent
  BY <1>1 DEF Locals
<1>3. PICK d \in Digests \cup {None} : d = run[r].digest
  BY <1>1 DEF Locals
<1>4. \A v \in Statuses \cup {"none"}, b \in BOOLEAN, e \in Digests \cup {None} :
        [at |-> "done", digest |-> e, sha |-> None, seen |-> None, agent |-> b, status |-> v] \in Locals
  BY DEF Locals, Steps
<1>5. run'[r] = [at |-> "done", digest |-> d, sha |-> None, seen |-> None, agent |-> a, status |-> status]
  BY <1>1, <1>2, <1>3 DEF Ends, Idle
<1>6. run'[r] \in Locals
  BY <1>4, <1>5
<1> QED BY <1>1, <1>3, <1>5, <1>6 DEF Ends, Leaves

LEMMA RunTyped ==
  ASSUME TargetAssumption, TargetInv, NEW r \in Runs, Step(r)
  PROVE  /\ run' \in [Runs -> Locals]
         /\ Lock(r) \/ Going(r) \/ Ending(r)
<1>1. run \in [Runs -> Locals] /\ run[r] \in Locals /\ journal.sha \in Runs \cup {None}
  BY DEF TargetInv, TypesOK
<1>2. CASE Lock(r)
  <2>1. PICK d \in Digests :
           \/ run' = [run EXCEPT ![r].at = "journal", ![r].digest = d]
           \/ run' = [run EXCEPT ![r] = [Idle EXCEPT !.at = "done", !.status = "refused"]]
    BY <1>2 DEF Lock
  <2>2. [run[r] EXCEPT !.at = "journal", !.digest = d] \in Locals
    BY <1>1 DEF Locals, Steps
  <2>3. [Idle EXCEPT !.at = "done", !.status = "refused"] \in Locals
    BY DEF Idle, Locals, Steps, Statuses
  <2> QED BY <1>1, <1>2, <2>1, <2>2, <2>3
<1>3. ASSUME NEW status \in Statuses \cup {"none"}, Works(r), Ends(r, status),
             status = "pr_opened" => Deliver(r) \/ (TakeUp(r) /\ journal.phase = "DELIVERED" /\ Resumable(r))
      PROVE  run' \in [Runs -> Locals] /\ Ending(r)
  BY <1>3, EndsSo DEF Ending, Resumable
<1>4. ASSUME NEW step \in Preparing \cup Delivering, Works(r), Goes(r, step), UNCHANGED holder
      PROVE  run' \in [Runs -> Locals] /\ Going(r)
  BY <1>4, Moves DEF Steps, Preparing, Delivering, Opening
<1>5. CASE TakeUp(r)
  <2>1. CASE run' = [run EXCEPT ![r].at = "look", ![r].sha = journal.sha] /\ UNCHANGED holder
    <3> DEFINE x == [run[r] EXCEPT !.at = "look", !.sha = journal.sha]
    <3>1. x \in Locals /\ x.at = "look" /\ x.digest = run[r].digest /\ x.status = run[r].status
      BY <1>1 DEF Locals, Steps, Delivering
    <3>2. run' = [run EXCEPT ![r] = x] /\ Works(r)
      BY <1>1, <1>5, <2>1 DEF TakeUp, At, Works
    <3> HIDE DEF x
    <3> QED BY <2>1, <3>1, <3>2, GoesTo
  <2>2. Works(r)
    BY <1>5 DEF TakeUp, At, Works
  <2> QED BY <1>3, <1>4, <1>5, <2>1, <2>2 DEF TakeUp, Statuses, Preparing
<1>6. CASE Agent(r)
  <2> DEFINE x == [run[r] EXCEPT !.at = "freeze", !.agent = TRUE]
  <2>1. x \in Locals /\ x.at = "freeze" /\ x.digest = run[r].digest /\ x.status = run[r].status
    BY <1>1 DEF Locals, Steps, Preparing
  <2>2. run' = [run EXCEPT ![r] = x] /\ UNCHANGED holder /\ Works(r)
    BY <1>1, <1>6 DEF Agent, At, Works
  <2> HIDE DEF x
  <2> QED BY <2>1, <2>2, GoesTo
<1>7. CASE Fresh(r) \/ Save(r) \/ Pend(r) \/ Push(r) \/ PushJournal(r) \/ Readback(r) \/ CreatePR(r)
           \/ SaveUrl(r)
  BY <1>4, <1>7 DEF Fresh, Save, Pend, Push, PushJournal, Readback, CreatePR, SaveUrl, At, Works,
     Preparing, Delivering, Opening
<1>8. CASE List(r)
  BY <1>4, <1>8 DEF List, At, Works, Delivering, Opening
<1>9. CASE Fails(r) \/ Dies(r) \/ Deliver(r)
  BY <1>3, <1>9 DEF Fails, FailingSteps, Dies, Deliver, At, Works, Statuses
<1>10. CASE Freeze(r)
  BY <1>3, <1>4, <1>10 DEF Freeze, At, Works, Statuses, Preparing
<1>11. CASE Screen(r)
  <2>1. CASE run' = [run EXCEPT ![r].at = "save", ![r].sha = r] /\ UNCHANGED holder
    <3> DEFINE x == [run[r] EXCEPT !.at = "save", !.sha = r]
    <3>1. x \in Locals /\ x.at = "save" /\ x.digest = run[r].digest /\ x.status = run[r].status
      BY <1>1 DEF Locals, Steps, Preparing
    <3>2. run' = [run EXCEPT ![r] = x] /\ Works(r)
      BY <1>1, <1>11, <2>1 DEF Screen, At, Works
    <3> HIDE DEF x
    <3> QED BY <2>1, <3>1, <3>2, GoesTo
  <2> QED BY <1>3, <1>11, <2>1 DEF Screen, At, Works, Statuses
<1>12. CASE Look(r)
  BY <1>3, <1>4, <1>12 DEF Look, At, Works, Statuses, Delivering, Opening
<1>13. CASE PushExits(r)
  BY <1>3, <1>4, <1>13 DEF PushExits, At, Works, Statuses, Delivering
<1>14. CASE Relist(r)
  BY <1>3, <1>4, <1>14 DEF Relist, Unlisted, GiveUp, At, Works, Statuses, Delivering, Opening
<1> QED BY <1>2, <1>5, <1>6, <1>7, <1>8, <1>9, <1>10, <1>11, <1>12, <1>13, <1>14 DEF Step

LEMMA AloneKept ==
  ASSUME TargetAssumption, TargetInv, NEW r \in Runs, Step(r)
  PROVE  Alone'
<1> SUFFICES ASSUME NEW s \in Runs, Works(s)' PROVE holder' = s
  BY DEF Alone
<1>1. s # r => run'[s] = run[s]
  BY OthersStay DEF TargetInv
<1>2. Works(s) => holder = s
  BY DEF TargetInv, Alone
<1>3. Works(r) => holder = r
  BY DEF TargetInv, Alone
<1>4. CASE Lock(r)
  <2>1. CASE holder = Nobody
    <3>1. holder' = r
      BY <1>4, <2>1 DEF Lock
    <3> QED BY <1>1, <1>2, <2>1, <3>1 DEF Works, TargetAssumption
  <2>2. CASE holder # Nobody
    <3>1. holder' = holder /\ run'[r].at = "done"
      BY ZenonT(40), <1>4, <2>2 DEF Lock, TargetInv, TypesOK, Idle
    <3> QED BY <1>1, <1>2, <3>1 DEF Works
  <2> QED BY <2>1, <2>2
<1>5. CASE Going(r) \/ Ending(r)
  BY <1>1, <1>2, <1>3, <1>5 DEF Going, Ending, Works
<1> QED BY <1>4, <1>5, RunTyped

-----------------------------------------------------------------------------
(* The files: what a step may do to a delivery on record *)

\* Once there, a journal keeps its commit, and the record its digest and its address.
LEMMA FilesGrow ==
  ASSUME TargetAssumption, TargetInv, NEW r \in Runs, Step(r)
  PROVE  /\ journal' \in [phase : {"none", "PENDING", "PUSHED", "DELIVERED"}, sha : Runs \cup {None}]
         /\ record' \in [sha : Runs \cup {None}, digest : Digests \cup {None}, url : BOOLEAN]
         /\ journal.phase # "none" =>
              /\ journal'.phase # "none" /\ journal'.sha = journal.sha
              /\ record'.sha = record.sha /\ record'.digest = record.digest
              /\ record.url => record'.url
              /\ journal.phase = "DELIVERED" => journal'.phase = "DELIVERED"
         /\ journal.phase = "none" => journal'.phase = "none" \/ Pend(r)
         /\ Lock(r) => UNCHANGED local
<1> USE DEF local
<1>1. TypesOK /\ Knows(r) /\ run[r] \in Locals
  BY DEF TargetInv, TypesOK
<1>2. CASE Quiet(r) \/ Agent(r) \/ Push(r) \/ CreatePR(r)
  <2>1. UNCHANGED local
    BY <1>2, QuietFrame DEF Agent, Push, CreatePR
  <2> QED BY <1>1, <2>1 DEF TypesOK
<1>3. CASE Fresh(r)
  BY <1>1, <1>3 DEF Fresh, At, Knows, Preparing, NoJournal, NoRecord, TypesOK, Lock
<1>4. CASE Save(r) \/ Pend(r)
  <2>1. run[r].sha \in Runs \cup {None} /\ run[r].digest \in Digests \cup {None}
    BY <1>1 DEF Locals
  <2>2. journal.phase = "none" /\ ~Lock(r)
    BY <1>1, <1>4 DEF Save, Pend, Lock, At, Knows, Preparing
  <2>3. CASE Save(r)
    BY <1>1, <2>1, <2>2, <2>3 DEF Save, TypesOK
  <2>4. CASE Pend(r)
    BY <1>1, <2>1, <2>2, <2>4 DEF Pend, Journaled, TypesOK
  <2> QED BY <1>4, <2>3, <2>4
<1>5. CASE PushJournal(r) \/ SaveUrl(r) \/ Deliver(r)
  <2>1. journal.phase \in {"PENDING", "PUSHED"} /\ ~Lock(r)
    BY <1>1, <1>5 DEF PushJournal, SaveUrl, Deliver, Lock, At, Knows, Delivering, Opening
  <2>2. CASE PushJournal(r)
    BY <1>1, <2>1, <2>2 DEF PushJournal, TypesOK
  <2>3. CASE SaveUrl(r)
    BY <1>1, <2>1, <2>3 DEF SaveUrl, TypesOK
  <2>4. CASE Deliver(r)
    BY <1>1, <2>1, <2>4 DEF Deliver, TypesOK
  <2> QED BY <1>5, <2>2, <2>3, <2>4
<1> QED BY <1>2, <1>3, <1>4, <1>5 DEF Step, Quiet

\* What a run knows, another does not change.
LEMMA OthersKnow ==
  ASSUME TargetAssumption, TargetInv, NEW r \in Runs, Step(r), NEW s \in Runs, s # r
  PROVE  Knows(s)'
<1>1. run'[s] = run[s] /\ Knows(s)
  BY OthersStay DEF TargetInv
<1>2. CASE Works(s)
  <2>1. ~Works(r)
    BY <1>2 DEF TargetInv, Alone
  <2>2. Lock(r)
    BY <2>1, RunTyped DEF Going, Ending
  <2>3. UNCHANGED <<local, wire, remote, change>>
    BY <2>2, QuietFrame DEF Quiet
  <2> QED BY <1>1, <2>3 DEF Knows, Works, local, remote
<1>3. CASE ~Works(s)
  <2>1. run[s].at \notin Preparing \cup Delivering
    BY <1>3 DEF Works, Preparing, Delivering, Opening
  <2>2. run[s].status = "pr_opened" => journal.phase = "DELIVERED" /\ run[s].digest = record.digest
    BY <1>1 DEF Knows
  <2>3. run[s].status = "pr_opened" => journal'.phase = "DELIVERED" /\ run[s].digest = record'.digest
    BY <2>2, FilesGrow
  <2> QED BY <1>1, <1>3, <2>1, <2>3 DEF Knows, Works, Preparing, Delivering, Opening
<1> QED BY <1>2, <1>3
-----------------------------------------------------------------------------
(* The steps of a run *)

LEMMA StepTypes ==
  ASSUME TargetAssumption, TargetInv, NEW r \in Runs, Step(r)
  PROVE  TypesOK'
<1>1. TypesOK /\ run[r] \in Locals /\ Knows(r)
  BY DEF TargetInv, TypesOK
<1>2. holder' \in Runs \cup {Nobody}
  BY <1>1, RunTyped DEF Lock, Going, Ending, TypesOK
<1>3. wire' \subseteq [op : {"push", "create", "landed"}, sha : Runs, by : Runs]
  <2>1. CASE Quiet(r) \/ Fresh(r) \/ Agent(r) \/ Save(r) \/ Pend(r) \/ PushJournal(r)
             \/ SaveUrl(r) \/ Deliver(r)
    BY <1>1, <2>1, QuietFrame DEF Fresh, Agent, Save, Pend, PushJournal, SaveUrl, Deliver, TypesOK
  <2>2. CASE Push(r)
    <3>1. run[r].sha \in Runs
      BY <1>1, <2>2 DEF Push, At, Knows, Delivering, TargetInv, Recorded
    <3>2. wire' = wire \cup {[op |-> "push", sha |-> run[r].sha, by |-> r]}
      BY <2>2 DEF Push
    <3>3. wire \subseteq [op : {"push", "create", "landed"}, sha : Runs, by : Runs]
      BY <1>1 DEF TypesOK
    <3> QED BY ONLY <3>1, <3>2, <3>3
  <2>3. CASE CreatePR(r)
    <3>1. wire' = wire \cup {[op |-> "create", sha |-> run[r].sha, by |-> r]}
      BY <2>3 DEF CreatePR
    <3>2. wire \subseteq [op : {"push", "create", "landed"}, sha : Runs, by : Runs]
      BY <1>1 DEF TypesOK
    <3>3. run[r].sha \in Runs
      BY <1>1, <2>3 DEF CreatePR, At, Knows, Delivering, Opening, TargetInv, Recorded
    <3> QED BY ONLY <3>1, <3>2, <3>3
  <2> QED BY <2>1, <2>2, <2>3 DEF Step, Quiet
<1>4. UNCHANGED remote /\ change' \in [Runs -> Changes]
  <2>1. CASE Agent(r)
    BY <1>1, <2>1 DEF Agent, TypesOK
  <2>2. CASE ~Agent(r)
    BY <1>1, <2>2, QuietFrame DEF Step, Quiet, Fresh, Save, Pend, Push, PushJournal, CreatePR, SaveUrl,
       Deliver, TypesOK
  <2> QED BY <2>1, <2>2
<1> QED BY <1>1, <1>2, <1>3, <1>4, RunTyped, FilesGrow DEF TypesOK, remote

LEMMA StepFiles ==
  ASSUME TargetAssumption, TargetInv, NEW r \in Runs, Step(r)
  PROVE  Recorded' /\ Pushes' /\ Phased'
<1>1. TypesOK /\ Recorded /\ Pushes /\ Phased /\ Knows(r)
  BY DEF TargetInv
<1>2. UNCHANGED remote /\ (change' = change \/ (Agent(r) /\ journal.phase = "none" /\ UNCHANGED local))
  <2>1. CASE Agent(r)
    BY <1>1, <2>1 DEF Agent, At, Knows, Preparing
  <2>2. CASE ~Agent(r)
    BY <2>2, QuietFrame DEF Step, Quiet, Fresh, Save, Pend, Push, PushJournal, CreatePR, SaveUrl, Deliver
  <2> QED BY <2>1, <2>2
<1>3. Pend(r) => /\ journal' = [phase |-> "PENDING", sha |-> r] /\ change[r] = "plain"
                 /\ record' = record /\ record.sha = r /\ record.digest \in Digests
  BY <1>1 DEF Pend, Journaled, At, Knows, Works, Preparing
<1>4. Recorded'
  <2>1. CASE journal.phase # "none"
    BY <1>1, <1>2, <2>1, FilesGrow DEF Recorded
  <2>2. CASE Pend(r)
    <3>1. change' = change
      BY <2>2 DEF Pend
    <3>2. journal'.phase # "none" /\ journal'.sha = r /\ record'.sha = r /\ record'.digest \in Digests
      BY <1>3, <2>2
    <3> QED BY <1>3, <2>2, <3>1, <3>2 DEF Recorded
  <2>3. CASE journal'.phase = "none"
    BY <2>3 DEF Recorded
  <2> QED BY <2>1, <2>2, <2>3, FilesGrow
<1>5. Pushes'
  <2>1. \A m \in wire' : m \in wire \/ m.op = "create"
                         \/ (m.op = "push" /\ m.sha = journal.sha /\ journal.phase # "none")
    <3>1. CASE Push(r)
      <4>1. wire' = wire \cup {[op |-> "push", sha |-> run[r].sha, by |-> r]}
        BY <3>1 DEF Push
      <4>2. run[r].sha = journal.sha /\ journal.phase # "none"
        BY <1>1, <3>1 DEF Push, At, Knows, Delivering
      <4> QED BY <4>1, <4>2
    <3>2. CASE CreatePR(r)
      <4>1. wire' = wire \cup {[op |-> "create", sha |-> run[r].sha, by |-> r]}
        BY <3>2 DEF CreatePR
      <4> QED BY <4>1
    <3>3. CASE ~Push(r) /\ ~CreatePR(r)
      BY <3>3, QuietFrame DEF Step, Quiet, Fresh, Agent, Save, Pend, PushJournal, SaveUrl, Deliver
    <3> QED BY <3>1, <3>2, <3>3
  <2> QED BY <1>1, <1>2, <2>1, FilesGrow DEF Pushes, remote
<1>6. Phased'
  <2>1. CASE UNCHANGED local
    BY <1>1, <1>2, <2>1 DEF Phased, local, remote
  <2>2. CASE Fresh(r) \/ Save(r) \/ Pend(r)
    <3>1. journal'.phase \in {"none", "PENDING"}
      <4>1. CASE Fresh(r)
        BY <4>1 DEF Fresh, NoJournal
      <4>2. CASE Save(r)
        BY <1>1, <4>2 DEF Save, At, Knows, Preparing
      <4> QED BY <1>3, <2>2, <4>1, <4>2
    <3> QED BY <3>1 DEF Phased
  <2>3. CASE PushJournal(r)
    BY <1>1, <1>2, <2>3 DEF PushJournal, At, Knows, Delivering, Phased, remote, TypesOK
  <2>4. CASE SaveUrl(r)
    BY <1>1, <1>2, <2>4 DEF SaveUrl, Phased, remote, TypesOK
  <2>5. CASE Deliver(r)
    BY <1>1, <1>2, <2>5 DEF Deliver, At, Knows, Delivering, Opening, Phased, remote, TypesOK
  <2> QED BY <2>1, <2>2, <2>3, <2>4, <2>5, QuietFrame DEF Step, Quiet, Agent, Push, CreatePR
<1> QED BY <1>4, <1>5, <1>6

\* What a run that goes on knows then.
LEMMA GoesKnowing ==
  ASSUME TargetAssumption, TargetInv, NEW r \in Runs, Step(r), Going(r)
  PROVE  Knows(r)'
<1>1. TypesOK /\ Recorded /\ Pushes /\ Knows(r) /\ run[r] \in Locals /\ Works(r) /\ change[r] \in Changes
  BY DEF TargetInv, TypesOK, Going
<1>2. run'[r].digest \in Digests /\ run'[r].digest = run[r].digest /\ run'[r].status = "none"
  BY <1>1 DEF Going, Knows, Works
<1>3. /\ run'[r].at \notin {"start", "done"} /\ run[r].at \notin {"start", "done"}
      /\ r \in DOMAIN run
  BY <1>1 DEF Going, Works, TypesOK
<1> USE <1>1, <1>2, <1>3 DEF At, Goes, TypesOK, Locals
<1>4. ASSUME UNCHANGED <<local, remote, change>>, NEW step, run'[r].at = step, run'[r].sha = run[r].sha,
             \/ run[r].at = "journal" /\ step = "preflight" /\ journal.phase = "none"
             \/ /\ run[r].at = "freeze" /\ step = "commit"
                /\ change[r] \in {"plain", "secret", "dependency", "failing-tests"}
             \/ run[r].at = "look" /\ step = "push"
             \/ run[r].at \in {"look", "pushed"} /\ step \in {"push-journal", "readback"} /\ run[r].sha \in pushed
             \/ run[r].at = "push" /\ step = "pushed"
             \/ run[r].at \in {"readback", "list", "create"} /\ step \in {"list", "create", "relist"}
             \/ run[r].at \in {"list", "relist"} /\ step = "url" /\ prs > 0
      PROVE  Knows(r)'
  BY <1>4 DEF Knows, Works, Preparing, Delivering, Opening, local, remote
<1>e. \A v : ~Ends(r, v)
  <2> SUFFICES ASSUME NEW v, Ends(r, v) PROVE FALSE
    OBVIOUS
  <2>1. run'[r] = [at |-> "done", digest |-> run[r].digest, sha |-> None, seen |-> None,
                   agent |-> run[r].agent, status |-> v]
    BY ONLY Ends(r, v), run \in [Runs -> Locals], r \in Runs DEF Ends, Idle
  <2>2. run'[r].at = "done"
    BY ONLY <2>1
  <2> QED BY <2>2
<1>5. CASE TakeUp(r)
  <2>1. CASE run' = [run EXCEPT ![r].at = "look", ![r].sha = journal.sha]
    <3>1. run'[r].at = "look" /\ run'[r].sha = journal.sha
      BY <2>1
    <3>2. record.digest = run[r].digest /\ journal.phase \in {"PENDING", "PUSHED"} /\ UNCHANGED local
      BY <1>5, <1>e, <3>1 DEF TakeUp, Resumable
    <3> QED BY <3>1, <3>2 DEF Knows, Works, Preparing, Delivering, Opening, local
  <2>2. CASE journal.phase = "none" /\ Goes(r, "preflight")
    BY <1>4, <1>5, <2>2 DEF TakeUp
  <2> QED BY <1>5, <1>e, <2>1, <2>2 DEF TakeUp
<1>6. CASE Fresh(r)
  BY <1>6 DEF Fresh, NoJournal, Knows, Works, Preparing, Delivering, Opening
<1>7. CASE Agent(r)
  BY <1>7 DEF Agent, Knows, Works, Preparing, Delivering, Opening, local
<1>8. CASE Freeze(r)
  BY <1>4, <1>8, <1>e DEF Freeze, Changes, Refusable
<1>9. CASE Screen(r)
  <2>1. run'[r].at = "save" /\ run'[r].sha = r /\ Passes(change[r]) /\ UNCHANGED <<local, change>>
    <3>1. Passes(change[r]) /\ run' = [run EXCEPT ![r].at = "save", ![r].sha = r]
      BY ONLY <1>9, <1>e DEF Screen
    <3>2. run'[r].at = "save" /\ run'[r].sha = r
      BY <3>1
    <3> QED BY <1>9, <3>1, <3>2 DEF Screen
  <2>2. change[r] = "plain"
    BY <1>9, <2>1 DEF Passes, Knows, Screen
  <2> QED BY <2>1, <2>2, <1>9 DEF Screen, Knows, Works, Preparing, Delivering, Opening, local
<1>10. CASE Save(r) \/ Pend(r)
  BY <1>10 DEF Save, Pend, Journaled, Knows, Works, Preparing, Delivering, Opening
<1>11. CASE Look(r)
  BY <1>4, <1>11, <1>e DEF Look, Pushes, Knows, Delivering, Recorded
<1>12. CASE Push(r)
  BY <1>4, <1>12 DEF Push
<1>13. CASE PushExits(r)
  BY <1>4, <1>13, <1>e DEF PushExits, Pushes, Knows, Delivering, Recorded
<1>14. CASE PushJournal(r)
  BY <1>14 DEF PushJournal, Knows, Works, Preparing, Delivering, Opening, remote
<1>15. CASE Readback(r) \/ List(r)
  BY <1>4, <1>15 DEF Readback, List
<1>16. CASE CreatePR(r)
  BY <1>4, <1>16 DEF CreatePR
<1>17. CASE Relist(r)
  BY <1>4, <1>17, <1>e DEF Relist, Unlisted, GiveUp
<1>18. CASE SaveUrl(r)
  BY <1>18 DEF SaveUrl, Knows, Works, Preparing, Delivering, Opening, remote
<1>19. CASE Lock(r) \/ Fails(r) \/ Deliver(r) \/ Dies(r)
  BY <1>19, <1>e DEF Lock, Fails, Deliver, Dies
<1> QED BY <1>5, <1>6, <1>7, <1>8, <1>9, <1>10, <1>11, <1>12, <1>13, <1>14, <1>15, <1>16, <1>17,
          <1>18, <1>19 DEF Step
\* What a run that ends leaves of its knowledge: how it ended.
LEMMA EndsKnowing ==
  ASSUME TargetAssumption, TargetInv, NEW r \in Runs, Step(r), run'[r].at = "done",
         run'[r].status = "pr_opened" => journal'.phase = "DELIVERED" /\ run'[r].digest = record'.digest
  PROVE  Knows(r)'
BY DEF Knows, Works, Preparing, Delivering, Opening

LEMMA StepKnows ==
  ASSUME TargetAssumption, TargetInv, NEW r \in Runs, Step(r)
  PROVE  Knows(r)'
<1>1. run \in [Runs -> Locals] /\ Knows(r) /\ run[r] \in Locals
  BY DEF TargetInv, TypesOK
<1>2. CASE Lock(r)
  <2>1. UNCHANGED <<local, remote, change>>
    BY <1>2 DEF Lock
  <2>2. PICK d \in Digests :
           \/ run' = [run EXCEPT ![r].at = "journal", ![r].digest = d]
           \/ run' = [run EXCEPT ![r] = [Idle EXCEPT !.at = "done", !.status = "refused"]]
    BY <1>2 DEF Lock
  <2>3. CASE run' = [run EXCEPT ![r].at = "journal", ![r].digest = d]
    <3>1. run'[r].at = "journal" /\ run'[r].digest = d /\ run'[r].status = run[r].status
      BY <1>1, <2>3 DEF Locals
    <3>2. run[r].status = "none"
      BY <1>1, <1>2 DEF Lock, At, Knows
    <3> QED BY <3>1, <3>2 DEF Knows, Works, Preparing, Delivering, Opening
  <2>4. CASE run' = [run EXCEPT ![r] = [Idle EXCEPT !.at = "done", !.status = "refused"]]
    <3>1. run'[r].at = "done" /\ run'[r].status = "refused"
      BY <1>1, <2>4 DEF Idle
    <3> QED BY <3>1, EndsKnowing
  <2> QED BY <2>2, <2>3, <2>4
<1>3. CASE Going(r)
  BY <1>3, GoesKnowing
<1>4. CASE Ending(r)
  <2>1. CASE Deliver(r)
    <3>1. journal'.phase = "DELIVERED" /\ record' = record /\ record.digest = run[r].digest
      BY <1>1, <2>1 DEF Deliver, At, Knows, Delivering, Opening, TargetInv, TypesOK
    <3> QED BY <1>4, <3>1, EndsKnowing DEF Ending
  <2>2. CASE TakeUp(r)
    BY <1>4, <2>2, EndsKnowing DEF Ending, TakeUp, local, Deliver, At
  <2> QED BY <1>4, <2>1, <2>2, EndsKnowing DEF Ending
<1> QED BY <1>2, <1>3, <1>4, RunTyped

LEMMA StepInv ==
  ASSUME TargetAssumption, TargetInv, NEW r \in Runs, Step(r)
  PROVE  TargetInv'
BY StepTypes, AloneKept, StepFiles, StepKnows, OthersKnow DEF TargetInv

-----------------------------------------------------------------------------
(* The world *)

LEMMA WorldInv ==
  ASSUME TargetAssumption, TargetInv, (\E m \in wire : Serve(m)) \/ Others
  PROVE  TargetInv'
<1> USE DEF TargetInv
<1>1. UNCHANGED <<local, holder, run, change>>
  BY DEF Serve, Others
<1>2. CASE \E m \in wire : Serve(m)
  <2>1. PICK m \in wire : Serve(m)
    BY <1>2
  <2>2. m \in [op : {"push", "create", "landed"}, sha : Runs, by : Runs]
    BY <2>1 DEF Serve, TypesOK
  <2>3. CASE m.op = "push" /\ Lands(m)
    <3> DEFINE n == [m EXCEPT !.op = "landed"]
    <3>1. /\ branch' = m.sha /\ pushed' = pushed \cup {m.sha} /\ prs' = prs
          /\ wire' = (wire \ {m}) \cup {n}
      BY <2>1, <2>3 DEF Serve
    <3>2. n \in [op : {"push", "create", "landed"}, sha : Runs, by : Runs] /\ n.op = "landed" /\ n.sha = m.sha
      BY <2>2
    <3> HIDE DEF n
    <3>3. m.sha = journal.sha /\ journal.phase # "none" /\ m.sha \in Runs
      BY <2>1, <2>2, <2>3 DEF Pushes, Serve
    <3>4. TypesOK' /\ Alone' /\ Recorded'
      BY <1>1, <3>1, <3>2, <3>3 DEF TypesOK, Alone, Recorded, Works, local, Commits
    <3>5. Pushes' /\ Phased'
      BY <1>1, <3>1, <3>2, <3>3 DEF Pushes, Phased, local
    <3>6. \A r \in Runs : Knows(r)'
      BY <1>1, <3>1 DEF Knows, Works, local
    <3> QED BY <3>4, <3>5, <3>6
  <2>4. CASE ~(m.op = "push" /\ Lands(m))
    <3>1. /\ branch' = branch /\ pushed' = pushed /\ prs' \in {0, 1} /\ (prs > 0 => prs' > 0)
          /\ wire' \subseteq wire
      BY <2>1, <2>4 DEF Serve, TypesOK, remote
    <3>2. TypesOK' /\ Alone' /\ Recorded'
      BY <1>1, <3>1 DEF TypesOK, Alone, Recorded, Works, local, Commits
    <3>3. Pushes' /\ Phased'
      BY <1>1, <3>1 DEF Pushes, Phased, local
    <3>4. \A r \in Runs : Knows(r)'
      BY <1>1, <3>1 DEF Knows, Works, local
    <3> QED BY <3>2, <3>3, <3>4
  <2> QED BY <2>3, <2>4
<1>3. CASE Others
  <2>1. branch' \in {"other", None} /\ UNCHANGED <<wire, prs, pushed>>
    BY <1>3 DEF Others
  <2>2. TypesOK' /\ Alone' /\ Recorded'
    BY <1>1, <2>1 DEF TypesOK, Alone, Recorded, Works, local, Commits
  <2>3. Pushes' /\ Phased' /\ \A r \in Runs : Knows(r)'
    BY <1>1, <2>1 DEF Pushes, Phased, Knows, Works, local, TargetAssumption
  <2> QED BY <2>2, <2>3
<1> QED BY <1>2, <1>3

LEMMA TargetAlways == ASSUME TargetAssumption PROVE Spec => []TargetInv
<1>1. TargetInv /\ UNCHANGED vars => TargetInv'
  BY DEF TargetInv, TypesOK, Alone, Recorded, Pushes, Phased, Knows, Works, vars, local, remote
<1>2. TargetInv /\ [Next]_vars => TargetInv'
  BY <1>1, StepInv, WorldInv DEF Next
<1> QED BY <1>2, InitTarget, PTL DEF Spec

-----------------------------------------------------------------------------
(* Theorems *)

\* A journal has the record it is read with, and only the holder of the branch's lock is
\* at work (Delivery.lock, Delivery.write of bin/harness_headless.py).
THEOREM TargetTyping == ASSUME TargetAssumption PROVE Spec => []TargetTypeOK
<1>1. TargetInv => TargetTypeOK
  BY DEF TargetInv, TypesOK, Alone, Recorded, Works, Commits, TargetTypeOK
<1> QED BY <1>1, TargetAlways, PTL

\* One approval puts one commit on its branch, the journaled one, however many of its
\* runs die and whenever their pushes arrive (run_target, deliver_target).
THEOREM OneCommitIsPushed == ASSUME TargetAssumption PROVE Spec => []OneCommit
<1>1. TargetInv => OneCommit
  <2> SUFFICES ASSUME TargetInv PROVE OneCommit
    OBVIOUS
  <2>1. pushed \subseteq {journal.sha}
    BY DEF TargetInv, Pushes
  <2>2. Cardinality({journal.sha}) = 1 /\ IsFiniteSet({journal.sha})
    BY FS_Singleton
  <2>3. Cardinality(pushed) <= 1
    BY <2>1, <2>2, FS_Subset
  <2> QED BY <2>1, <2>3 DEF OneCommit
<1> QED BY <1>1, TargetAlways, PTL

\* What leaves for the remote has passed every check (commit_candidate).
THEOREM OnlyScreenedLeaves == ASSUME TargetAssumption PROVE Spec => []ScreenedOnly
<1>1. TargetInv => ScreenedOnly
  BY DEF TargetInv, Pushes, Recorded, ScreenedOnly
<1> QED BY <1>1, TargetAlways, PTL

\* All that a delivery promises: one screened commit, an answer "pr_opened" that is true
\* and will be found, under the host record it was started with (deliver_target,
\* Delivery.resume).
THEOREM TargetIsSafe == ASSUME TargetAssumption PROVE Spec => []TargetSafe
<1>1. TargetInv => OpenedHonest /\ OneDigest
  BY DEF TargetInv, Knows, Phased, OpenedHonest, OneDigest
<1> QED BY <1>1, TargetAlways, OneCommitIsPushed, OnlyScreenedLeaves, PTL DEF TargetSafe

-----------------------------------------------------------------------------
(***************************************************************************)
(* HeadlessRun, with any number of runs, model requests and signals: the   *)
(* broker works when nothing of the agent lives, the result is that of the *)
(* session, and what the run holds is given back.                          *)
(*                                                                         *)
(* The argument: for all that a run must not leave behind, the invariant   *)
(* says at which steps it may have it, or that undoing it is among the     *)
(* chores of its `todo` (Owes); only a signal that cut the undoing short   *)
(* (cut) breaks that.  OneMoves reduces a step to the run that takes it.   *)
(***************************************************************************)
CONSTANTS Tasks, Elsewhere, MaxRequests, MaxSignals
VARIABLES lock, results, task, alive, session, leased, forwarder, message, temp, signals
Headless == INSTANCE HeadlessRun WITH Runs <- Tasks, run <- task

Places == Headless!Guarded \cup {"start", "unwind", "settled", "write", "unlock", "exit", "dead"}
Results == {"delivered", "no_changes", "conflict", "failed", "timeout", "budget", "refused"}
Codes == {"", "ok", "bad", "timeout", "budget", "0", "conflict", "overlay", "refusal", "verifier", "other"}
Chores == {"group", "forwarder", "kill", "finish", "message"}
Journals == {"none", "OPEN", "ABANDONED", "CLOSED", "DELIVERED", "CONFLICT", "INTEGRATING"}
RunLocals == [at : Places, agent : Headless!Agents \cup {""}, status : Results \cup {""}, rc : Codes,
           todo : Seq(Chores), cut : BOOLEAN]
Forwarders == [up : BOOLEAN, requests : 0..MaxRequests, exhausted : BOOLEAN]

HeadlessTypes ==
  /\ task \in [Tasks -> RunLocals] /\ results \in [Tasks -> Results \cup {""}]
  /\ alive \in [Tasks -> SUBSET {"group", "stray"}] /\ session \in [Tasks -> Journals]
  /\ forwarder \in [Tasks -> Forwarders] /\ leased \cup message \cup temp \subseteq Tasks

\* A chore that is still to be done.
Due(todo, chore) == \E n \in 1..Len(todo) : todo[n] = chore
Owes(r, chore) == Headless!At(r, "unwind") /\ Due(task[r].todo, chore)

\* Where a run may have what it must not leave behind, unless a signal cut it short.
Agented(r) ==
  /\ alive[r] # {} =>
       task[r].at \in {"wait", "collect", "unwind", "settled", "write", "unlock", "exit", "dead"}
  /\ "group" \in alive[r] /\ ~task[r].cut =>
       task[r].at \in {"wait", "dead"} \/ Owes(r, "group") \/ Owes(r, "kill")
  /\ alive[r] # {} /\ Headless!Codex(r) /\ ~task[r].cut =>
       task[r].at \in {"wait", "collect", "dead"} \/ Owes(r, "kill")
Serves(r) ==
  forwarder[r].up =>
    /\ Headless!Codex(r)
    /\ ~task[r].cut =>
         \/ task[r].at \in {"session", "check", "agent", "wait", "collect", "finish",
                           "close-forwarder", "dead"}
         \/ Owes(r, "forwarder")
Leases(r) ==
  r \in leased =>
    /\ Headless!Codex(r)
    /\ ~task[r].cut =>
         task[r].at \in {"check", "agent", "wait", "collect", "finish"} \/ Owes(r, "finish")
Stored(r) ==
  /\ r \in temp => task[r].at \notin {"start", "write", "unlock", "exit"}
  /\ r \in message /\ ~task[r].cut =>
       \/ task[r].at \in {"closing", "closed", "dead"} \/ Owes(r, "message")
       \/ task[r].at \in {"settled", "write", "unlock", "exit"} /\ task[r].status = "delivered"

\* What a run says of its session, before and in its result.
Told(r) ==
  /\ task[r].at \in {"deliver", "record", "closing", "closed"} => ~forwarder[r].exhausted
  /\ task[r].status \in {"delivered", "no_changes"} =>
       task[r].at \in {"settled", "write", "unlock", "exit", "dead"}
  /\ task[r].status = "delivered" => session[r] = "DELIVERED" /\ ~forwarder[r].exhausted
  /\ task[r].status = "no_changes" => session[r] = "CLOSED"
  /\ results[r] # "" => task[r].at \in {"unlock", "exit"} /\ results[r] = task[r].status

Carrying == {"forwarder", "session", "check", "finish", "close-forwarder"}
RunOK(r) ==
  /\ task[r].at \notin {"start", "exit", "dead"} => lock = r
  /\ task[r].at \in Carrying => Headless!Codex(r)
  /\ Headless!At(r, "start") => task[r].agent = ""
  /\ Agented(r) /\ Serves(r) /\ Leases(r) /\ Stored(r) /\ Told(r)

HeadlessInv == HeadlessTypes /\ \A r \in Tasks : RunOK(r)
-----------------------------------------------------------------------------
(* What a step of one run leaves alone *)

\* The other runs keep all they have.
Aside(r) ==
  \A s \in Tasks \ {r} :
    /\ task'[s] = task[s] /\ results'[s] = results[s] /\ alive'[s] = alive[s]
    /\ session'[s] = session[s]
    /\ forwarder'[s] = forwarder[s] /\ (s \in leased' <=> s \in leased)
    /\ (s \in message' <=> s \in message) /\ (s \in temp' <=> s \in temp)

LEMMA OneMoves ==
  ASSUME Headless!HeadlessAssumption, HeadlessInv, NEW r \in Tasks, HeadlessTypes', Aside(r), RunOK(r)',
         lock' \in {lock, r, Nobody}, lock = r \/ lock = Nobody \/ lock' = lock
  PROVE  HeadlessInv'
<1> SUFFICES ASSUME NEW s \in Tasks, s # r PROVE RunOK(s)'
  BY DEF HeadlessInv
<1>1. RunOK(s)
  BY DEF HeadlessInv
<1>2. /\ task'[s] = task[s] /\ results'[s] = results[s] /\ alive'[s] = alive[s]
      /\ session'[s] = session[s]
      /\ forwarder'[s] = forwarder[s] /\ (s \in leased' <=> s \in leased)
      /\ (s \in message' <=> s \in message) /\ (s \in temp' <=> s \in temp)
  BY DEF Aside
<1>3. task'[s].at \notin {"start", "exit", "dead"} => lock' = s
  BY <1>1, <1>2 DEF RunOK, Headless!HeadlessAssumption
<1>4. task'[s].at \in Carrying => task'[s].agent = "codex"
  BY <1>1, <1>2 DEF RunOK, Headless!Codex
<1>5. task'[s].at = "start" => task'[s].agent = ""
  BY <1>1, <1>2 DEF RunOK, Headless!At
<1>6. Agented(s)'
  BY <1>1, <1>2 DEF RunOK, Agented, Owes, Headless!At, Headless!Codex
<1>7. Serves(s)' /\ Leases(s)'
  BY <1>1, <1>2 DEF RunOK, Serves, Leases, Owes, Headless!At, Headless!Codex
<1>8. Stored(s)' /\ Told(s)'
  BY <1>1, <1>2 DEF RunOK, Stored, Told, Owes, Headless!At
<1> QED BY <1>3, <1>4, <1>5, <1>6, <1>7, <1>8 DEF RunOK, Headless!Codex, Headless!At

\* One run goes on, with a change of its own locals.
LEMMA RunIs ==
  ASSUME HeadlessTypes, NEW r \in Tasks, NEW l \in RunLocals, task' = [task EXCEPT ![r] = l]
  PROVE  /\ task' \in [Tasks -> RunLocals] /\ task'[r] = l
         /\ \A s \in Tasks \ {r} : task'[s] = task[s]
BY DEF HeadlessTypes

LEMMA LocalsAre ==
  ASSUME HeadlessTypes, NEW r \in Tasks
  PROVE  /\ task[r] \in RunLocals /\ task[r].at \in Places
         /\ task[r].agent \in Headless!Agents \cup {""}
         /\ task[r].status \in Results \cup {""} /\ task[r].rc \in Codes
         /\ task[r].todo \in Seq(Chores) /\ task[r].cut \in BOOLEAN
         /\ results[r] \in Results \cup {""} /\ alive[r] \in SUBSET {"group", "stray"}
         /\ session[r] \in Journals /\ forwarder[r] \in Forwarders
BY DEF HeadlessTypes, RunLocals

LEMMA GoesIs ==
  ASSUME HeadlessTypes, NEW r \in Tasks, NEW step \in Places, Headless!Goes(r, step)
  PROVE  /\ task' \in [Tasks -> RunLocals] /\ \A s \in Tasks \ {r} : task'[s] = task[s]
         /\ task'[r].at = step /\ task'[r].agent = task[r].agent /\ task'[r].status = task[r].status
         /\ task'[r].rc = task[r].rc /\ task'[r].todo = task[r].todo /\ task'[r].cut = task[r].cut
BY DEF HeadlessTypes, Headless!Goes, RunLocals

LEMMA SettlesIs ==
  ASSUME HeadlessTypes, NEW r \in Tasks, NEW status \in Results, Headless!Settles(r, status)
  PROVE  /\ task' \in [Tasks -> RunLocals] /\ \A s \in Tasks \ {r} : task'[s] = task[s]
         /\ task'[r].at = "settled" /\ task'[r].agent = task[r].agent /\ task'[r].status = status
         /\ task'[r].cut = task[r].cut
<1> DEFINE l == [task[r] EXCEPT !.at = "settled", !.status = status]
<1>1. /\ l \in RunLocals /\ l.at = "settled" /\ l.agent = task[r].agent /\ l.status = status
      /\ l.cut = task[r].cut
  <2>1. task[r] \in RunLocals /\ "settled" \in Places
    BY DEF HeadlessTypes, Places
  <2> QED BY <2>1 DEF RunLocals
<1>2. task' = [task EXCEPT ![r] = l]
  BY DEF HeadlessTypes, Headless!Settles
<1> HIDE DEF l
<1> QED BY <1>1, <1>2, RunIs

LEMMA UnwindsIs ==
  ASSUME HeadlessTypes, NEW r \in Tasks, NEW status \in Results, NEW todo \in Seq(Chores),
         Headless!Unwinds(r, status, todo)
  PROVE  /\ task' \in [Tasks -> RunLocals] /\ \A s \in Tasks \ {r} : task'[s] = task[s]
         /\ task'[r].at = "unwind" /\ task'[r].agent = task[r].agent /\ task'[r].status = status
         /\ task'[r].todo = todo /\ task'[r].cut = task[r].cut
<1> DEFINE l == [task[r] EXCEPT !.at = "unwind", !.status = status, !.todo = todo]
<1>1. /\ l \in RunLocals /\ l.at = "unwind" /\ l.agent = task[r].agent /\ l.status = status
      /\ l.todo = todo /\ l.cut = task[r].cut
  <2>1. task[r] \in RunLocals /\ "unwind" \in Places
    BY DEF HeadlessTypes, Places
  <2> QED BY <2>1 DEF RunLocals
<1>2. task' = [task EXCEPT ![r] = l]
  BY DEF HeadlessTypes, Headless!Unwinds
<1> HIDE DEF l
<1> QED BY <1>1, <1>2, RunIs

LEMMA Joined ==
  ASSUME NEW g \in Seq(Chores), NEW c \in Seq(Chores), Len(g) = 1, Len(c) = 3
  PROVE  /\ Len(g \o c) = 4 /\ (g \o c)[1] = g[1]
         /\ (g \o c)[2] = c[1] /\ (g \o c)[3] = c[2] /\ (g \o c)[4] = c[3]
<1>1. /\ Len(g \o c) = Len(g) + Len(c)
      /\ \A i \in 1..(Len(g) + Len(c)) : (g \o c)[i] = IF i <= Len(g) THEN g[i] ELSE c[i - Len(g)]
  BY ConcatProperties, Zenon
<1> DEFINE t == g \o c
<1> HIDE DEF t
<1>2. /\ Len(t) = 1 + 3
      /\ \A i \in 1..(1 + 3) : t[i] = IF i <= 1 THEN g[i] ELSE c[i - 1]
  BY <1>1 DEF t
<1>3. /\ Len(t) = 4 /\ t[1] = g[1] /\ t[2] = c[1] /\ t[3] = c[2] /\ t[4] = c[3]
  BY <1>2
<1> QED BY <1>3 DEF t

LEMMA DueIs ==
  /\ \A c \in Chores : ~Due(<<>>, c)
  /\ <<>> \in Seq(Chores) /\ <<"forwarder">> \in Seq(Chores) /\ Headless!CodexCleanup \in Seq(Chores)
  /\ <<"message">> \in Seq(Chores) /\ <<"group">> \o Headless!CodexCleanup \in Seq(Chores)
  /\ <<"group">> \o <<"kill">> \in Seq(Chores)
  /\ Due(<<"forwarder">>, "forwarder") /\ Due(<<"message">>, "message")
  /\ \A c \in {"forwarder", "kill", "finish"} : Due(Headless!CodexCleanup, c)
  /\ \A c \in {"group", "forwarder", "kill", "finish"} : Due(<<"group">> \o Headless!CodexCleanup, c)
  /\ Due(<<"group">> \o <<"kill">>, "kill")
<1>1. \A c \in Chores : ~Due(<<>>, c)
  BY DEF Due
<1>2. /\ <<>> \in Seq(Chores) /\ <<"forwarder">> \in Seq(Chores) /\ <<"message">> \in Seq(Chores)
      /\ <<"group">> \in Seq(Chores) /\ <<"kill">> \in Seq(Chores)
      /\ Headless!CodexCleanup \in Seq(Chores)
  BY DEF Chores, Headless!CodexCleanup
<1>3. <<"group">> \o Headless!CodexCleanup \in Seq(Chores) /\ <<"group">> \o <<"kill">> \in Seq(Chores)
  BY <1>2
<1>4. Due(<<"forwarder">>, "forwarder") /\ Due(<<"message">>, "message")
  <2>1. /\ Len(<<"forwarder">>) = 1 /\ <<"forwarder">>[1] = "forwarder"
        /\ Len(<<"message">>) = 1 /\ <<"message">>[1] = "message"
    OBVIOUS
  <2>2. 1 \in 1..1
    OBVIOUS
  <2> QED BY <2>1, <2>2 DEF Due
<1>5. /\ Len(Headless!CodexCleanup) = 3 /\ Headless!CodexCleanup[1] = "forwarder"
      /\ Headless!CodexCleanup[2] = "kill"
      /\ Headless!CodexCleanup[3] = "finish"
  BY DEF Headless!CodexCleanup
<1>6. \A c \in {"forwarder", "kill", "finish"} : Due(Headless!CodexCleanup, c)
  <2>1. 1 \in 1..3 /\ 2 \in 1..3 /\ 3 \in 1..3
    OBVIOUS
  <2> QED BY <1>5, <2>1 DEF Due
<1>7. \A c \in {"group", "forwarder", "kill", "finish"} : Due(<<"group">> \o Headless!CodexCleanup, c)
  <2> DEFINE t == <<"group">> \o Headless!CodexCleanup
  <2>1. /\ Len(t) = 4 /\ t[1] = "group" /\ t[2] = "forwarder" /\ t[3] = "kill" /\ t[4] = "finish"
    <3> DEFINE g == <<"group">>
               c == Headless!CodexCleanup
    <3>1. g \in Seq(Chores) /\ Len(g) = 1 /\ g[1] = "group" /\ c \in Seq(Chores)
      BY <1>2
    <3>2. /\ Len(c) = 3 /\ c[1] = "forwarder" /\ c[2] = "kill" /\ c[3] = "finish" /\ t = g \o c
      BY <1>5
    <3> HIDE DEF g, c, t
    <3> QED BY <3>1, <3>2, Joined
  <2>2. 1 \in 1..4 /\ 2 \in 1..4 /\ 3 \in 1..4 /\ 4 \in 1..4
    OBVIOUS
  <2> HIDE DEF t
  <2>3. \A c \in {"group", "forwarder", "kill", "finish"} : Due(t, c)
    BY <2>1, <2>2 DEF Due
  <2> QED BY <2>3 DEF t
<1>8. Due(<<"group">> \o <<"kill">>, "kill")
  <2> DEFINE t == <<"group">> \o <<"kill">>
  <2>1. Len(t) = 2 /\ t[2] = "kill" /\ 2 \in 1..2
    BY <1>2
  <2> HIDE DEF t
  <2>2. Due(t, "kill")
    BY <2>1 DEF Due
  <2> QED BY <2>2 DEF t
<1> QED BY <1>1, <1>2, <1>3, <1>4, <1>6, <1>7, <1>8

LEMMA DueTail ==
  ASSUME NEW todo \in Seq(Chores), todo # <<>>
  PROVE  /\ Head(todo) \in Chores /\ Tail(todo) \in Seq(Chores)
         /\ \A c \in Chores : Due(todo, c) => Head(todo) = c \/ Due(Tail(todo), c)
<1>1. /\ Len(todo) \in Nat /\ Len(todo) > 0 /\ Len(Tail(todo)) = Len(todo) - 1 /\ Head(todo) = todo[1]
      /\ \A n \in 1..Len(Tail(todo)) : Tail(todo)[n] = todo[n + 1]
      /\ Head(todo) \in Chores /\ Tail(todo) \in Seq(Chores)
  OBVIOUS
<1>2. ASSUME NEW c \in Chores, Due(todo, c) PROVE Head(todo) = c \/ Due(Tail(todo), c)
  <2>1. PICK n \in 1..Len(todo) : todo[n] = c
    BY <1>2 DEF Due
  <2>2. CASE n = 1
    BY <1>1, <2>1, <2>2
  <2>3. CASE n # 1
    <3>1. n - 1 \in 1..Len(Tail(todo)) /\ todo[(n - 1) + 1] = c
      BY <1>1, <2>1, <2>3
    <3>2. Tail(todo)[n - 1] = c
      BY <1>1, <3>1
    <3> QED BY <3>1, <3>2 DEF Due
  <2> QED BY <2>2, <2>3
<1> QED BY <1>1, <1>2
-----------------------------------------------------------------------------
(* The steps of a run  *)

LEMMA ForwarderIs ==
  ASSUME HeadlessTypes, NEW r \in Tasks, NEW f \in Forwarders, forwarder' = [forwarder EXCEPT ![r] = f]
  PROVE  /\ forwarder' \in [Tasks -> Forwarders] /\ forwarder'[r] = f
         /\ \A s \in Tasks \ {r} : forwarder'[s] = forwarder[s]
BY DEF HeadlessTypes

LEMMA ClosesIs ==
  ASSUME HeadlessTypes, NEW r \in Tasks, forwarder' = [forwarder EXCEPT ![r].up = FALSE]
  PROVE  /\ forwarder' \in [Tasks -> Forwarders] /\ ~forwarder'[r].up
         /\ forwarder'[r].exhausted = forwarder[r].exhausted
         /\ \A s \in Tasks \ {r} : forwarder'[s] = forwarder[s]
<1> DEFINE f == [forwarder[r] EXCEPT !.up = FALSE]
<1>1. f \in Forwarders /\ ~f.up /\ f.exhausted = forwarder[r].exhausted
  BY LocalsAre DEF Forwarders
<1>2. forwarder' = [forwarder EXCEPT ![r] = f]
  BY DEF HeadlessTypes
<1> HIDE DEF f
<1> QED BY <1>1, <1>2, ForwarderIs

LEMMA FinishesIs ==
  ASSUME HeadlessTypes, NEW r \in Tasks, Headless!Finishes(r)
  PROVE  /\ session' \in [Tasks -> Journals] /\ session'[r] \in Headless!Left(session[r])
         /\ \A s \in Tasks \ {r} : session'[s] = session[s]
         /\ leased' \subseteq Tasks /\ r \notin leased'
         /\ \A s \in Tasks \ {r} : s \in leased' <=> s \in leased
BY DEF HeadlessTypes, Headless!Finishes, Headless!Left, Journals

LEMMA LaunchInv ==
  ASSUME Headless!HeadlessAssumption, HeadlessInv, NEW r \in Tasks, Headless!Launch(r)
  PROVE  HeadlessInv'
<1>1. HeadlessTypes /\ RunOK(r)
  BY DEF HeadlessInv
<1>2. /\ task' \in [Tasks -> RunLocals] /\ \A s \in Tasks \ {r} : task'[s] = task[s]
      /\ task'[r].at = "wait"
      /\ task'[r].agent = task[r].agent /\ task'[r].cut = task[r].cut
      /\ task'[r].status = task[r].status
  BY <1>1, GoesIs DEF Headless!Launch, Places, Headless!Guarded
<1>3. HeadlessTypes' /\ Aside(r)
  <2>1. HeadlessTypes'
    BY <1>1, <1>2, LocalsAre DEF Headless!Launch, HeadlessTypes, Headless!workspace, Forwarders,
       Journals, Headless!HeadlessAssumption
  <2>2. Aside(r)
    BY <1>1, <1>2 DEF Headless!Launch, Aside, HeadlessTypes, Headless!workspace
  <2> QED BY <2>1, <2>2
<1>4. RunOK(r)'
  <2>1. Agented(r)'
    BY <1>1, <1>2 DEF Headless!Launch, RunOK, Agented, Owes, Headless!At, Headless!Codex,
       HeadlessTypes, Headless!workspace
  <2>2. Serves(r)' /\ Leases(r)'
    BY <1>1, <1>2 DEF Headless!Launch, RunOK, Serves, Leases, Owes, Headless!At, Headless!Codex,
       Carrying, HeadlessTypes, Headless!workspace
  <2>3. Stored(r)' /\ Told(r)'
    BY <1>1, <1>2 DEF Headless!Launch, RunOK, Stored, Told, Owes, Headless!At, HeadlessTypes,
       Headless!workspace
  <2> QED BY <1>1, <1>2, <2>1, <2>2, <2>3 DEF Headless!Launch, RunOK, Headless!Codex, Headless!At,
             Carrying, Headless!workspace
<1> QED BY <1>1, <1>3, <1>4, OneMoves DEF Headless!Launch, RunOK, Headless!At, HeadlessInv,
           Headless!workspace

LEMMA FinishInv ==
  ASSUME Headless!HeadlessAssumption, HeadlessInv, NEW r \in Tasks, Headless!Finish(r)
  PROVE  HeadlessInv'
<1>1. HeadlessTypes /\ RunOK(r)
  BY DEF HeadlessInv
<1>2. /\ task' \in [Tasks -> RunLocals] /\ \A s \in Tasks \ {r} : task'[s] = task[s]
      /\ task'[r].at = "close-forwarder"
      /\ task'[r].agent = task[r].agent /\ task'[r].cut = task[r].cut
      /\ task'[r].status = task[r].status
      /\ session' \in [Tasks -> Journals] /\ leased' \subseteq Tasks /\ r \notin leased'
      /\ \A s \in Tasks \ {r} : session'[s] = session[s] /\ (s \in leased' <=> s \in leased)
  BY <1>1, GoesIs, FinishesIs DEF Headless!Finish, Places, Headless!Guarded
<1>3. HeadlessTypes' /\ Aside(r)
  <2>1. HeadlessTypes'
    BY <1>1, <1>2, LocalsAre DEF Headless!Finish, HeadlessTypes, Headless!workspace, Forwarders,
       Journals, Headless!HeadlessAssumption
  <2>2. Aside(r)
    BY <1>1, <1>2 DEF Headless!Finish, Aside, HeadlessTypes, Headless!workspace
  <2> QED BY <2>1, <2>2
<1>4. RunOK(r)'
  <2>1. Agented(r)'
    BY <1>1, <1>2 DEF Headless!Finish, RunOK, Agented, Owes, Headless!At, Headless!Codex,
       HeadlessTypes, Headless!workspace
  <2>2. Serves(r)' /\ Leases(r)'
    BY <1>1, <1>2 DEF Headless!Finish, RunOK, Serves, Leases, Owes, Headless!At, Headless!Codex,
       Carrying, HeadlessTypes, Headless!workspace
  <2>3. Stored(r)' /\ Told(r)'
    BY <1>1, <1>2 DEF Headless!Finish, RunOK, Stored, Told, Owes, Headless!At, HeadlessTypes,
       Headless!workspace
  <2> QED BY <1>1, <1>2, <2>1, <2>2, <2>3 DEF Headless!Finish, RunOK, Headless!Codex, Headless!At,
             Carrying, Headless!workspace
<1> QED BY <1>1, <1>3, <1>4, OneMoves DEF Headless!Finish, RunOK, Headless!At, HeadlessInv,
           Headless!workspace

LEMMA CloseForwarderInv ==
  ASSUME Headless!HeadlessAssumption, HeadlessInv, NEW r \in Tasks, Headless!CloseForwarder(r)
  PROVE  HeadlessInv'
<1>1. HeadlessTypes /\ RunOK(r)
  BY DEF HeadlessInv
<1>2. /\ task' \in [Tasks -> RunLocals] /\ \A s \in Tasks \ {r} : task'[s] = task[s]
      /\ task'[r].at = "judge"
      /\ task'[r].agent = task[r].agent /\ task'[r].cut = task[r].cut
      /\ task'[r].status = task[r].status
      /\ forwarder' \in [Tasks -> Forwarders] /\ ~forwarder'[r].up
      /\ forwarder'[r].exhausted = forwarder[r].exhausted
      /\ \A s \in Tasks \ {r} : forwarder'[s] = forwarder[s]
  BY <1>1, GoesIs, ClosesIs DEF Headless!CloseForwarder, Places, Headless!Guarded
<1>3. HeadlessTypes' /\ Aside(r)
  <2>1. HeadlessTypes'
    BY <1>1, <1>2, LocalsAre DEF Headless!CloseForwarder, HeadlessTypes, Headless!workspace,
       Forwarders, Journals, Headless!HeadlessAssumption
  <2>2. Aside(r)
    BY <1>1, <1>2 DEF Headless!CloseForwarder, Aside, HeadlessTypes, Headless!workspace
  <2> QED BY <2>1, <2>2
<1>4. RunOK(r)'
  <2>1. Agented(r)'
    BY <1>1, <1>2 DEF Headless!CloseForwarder, RunOK, Agented, Owes, Headless!At, Headless!Codex,
       HeadlessTypes, Headless!workspace
  <2>2. Serves(r)' /\ Leases(r)'
    BY <1>1, <1>2 DEF Headless!CloseForwarder, RunOK, Serves, Leases, Owes, Headless!At,
       Headless!Codex, Carrying, HeadlessTypes, Headless!workspace
  <2>3. Stored(r)' /\ Told(r)'
    BY <1>1, <1>2 DEF Headless!CloseForwarder, RunOK, Stored, Told, Owes, Headless!At, HeadlessTypes,
       Headless!workspace
  <2> QED BY <1>1, <1>2, <2>1, <2>2, <2>3 DEF Headless!CloseForwarder, RunOK, Headless!Codex,
             Headless!At, Carrying, Headless!workspace
<1> QED BY <1>1, <1>3, <1>4, OneMoves DEF Headless!CloseForwarder, RunOK, Headless!At, HeadlessInv,
           Headless!workspace

LEMMA RecordMessageInv ==
  ASSUME Headless!HeadlessAssumption, HeadlessInv, NEW r \in Tasks, Headless!RecordMessage(r)
  PROVE  HeadlessInv'
<1>1. HeadlessTypes /\ RunOK(r)
  BY DEF HeadlessInv
<1>2. /\ task' \in [Tasks -> RunLocals] /\ \A s \in Tasks \ {r} : task'[s] = task[s]
      /\ task'[r].at = "closing"
      /\ task'[r].agent = task[r].agent /\ task'[r].cut = task[r].cut
      /\ task'[r].status = task[r].status
  BY <1>1, GoesIs DEF Headless!RecordMessage, Places, Headless!Guarded
<1>3. HeadlessTypes' /\ Aside(r)
  <2>1. HeadlessTypes'
    BY <1>1, <1>2, LocalsAre DEF Headless!RecordMessage, HeadlessTypes, Headless!workspace,
       Forwarders, Journals, Headless!HeadlessAssumption
  <2>2. Aside(r)
    BY <1>1, <1>2 DEF Headless!RecordMessage, Aside, HeadlessTypes, Headless!workspace
  <2> QED BY <2>1, <2>2
<1>4. RunOK(r)'
  <2>1. Agented(r)'
    BY <1>1, <1>2 DEF Headless!RecordMessage, RunOK, Agented, Owes, Headless!At, Headless!Codex,
       HeadlessTypes, Headless!workspace
  <2>2. Serves(r)' /\ Leases(r)'
    BY <1>1, <1>2 DEF Headless!RecordMessage, RunOK, Serves, Leases, Owes, Headless!At,
       Headless!Codex, Carrying, HeadlessTypes, Headless!workspace
  <2>3. Stored(r)' /\ Told(r)'
    BY <1>1, <1>2 DEF Headless!RecordMessage, RunOK, Stored, Told, Owes, Headless!At, HeadlessTypes,
       Headless!workspace
  <2> QED BY <1>1, <1>2, <2>1, <2>2, <2>3 DEF Headless!RecordMessage, RunOK, Headless!Codex,
             Headless!At, Carrying, Headless!workspace
<1> QED BY <1>1, <1>3, <1>4, OneMoves DEF Headless!RecordMessage, RunOK, Headless!At, HeadlessInv,
           Headless!workspace

LEMMA SettleInv ==
  ASSUME Headless!HeadlessAssumption, HeadlessInv, NEW r \in Tasks, Headless!Settle(r)
  PROVE  HeadlessInv'
<1>1. HeadlessTypes /\ RunOK(r)
  BY DEF HeadlessInv
<1>2. /\ task' \in [Tasks -> RunLocals] /\ \A s \in Tasks \ {r} : task'[s] = task[s]
      /\ task'[r].at = "write"
      /\ task'[r].agent = task[r].agent /\ task'[r].cut = task[r].cut
      /\ task'[r].status = task[r].status
  BY <1>1, GoesIs DEF Headless!Settle, Places, Headless!Guarded
<1>3. HeadlessTypes' /\ Aside(r)
  <2>1. HeadlessTypes'
    BY <1>1, <1>2, LocalsAre DEF Headless!Settle, HeadlessTypes, Headless!workspace, Forwarders,
       Journals, Headless!HeadlessAssumption
  <2>2. Aside(r)
    BY <1>1, <1>2 DEF Headless!Settle, Aside, HeadlessTypes, Headless!workspace
  <2> QED BY <2>1, <2>2
<1>4. RunOK(r)'
  <2>1. Agented(r)'
    BY <1>1, <1>2 DEF Headless!Settle, RunOK, Agented, Owes, Headless!At, Headless!Codex,
       HeadlessTypes, Headless!workspace
  <2>2. Serves(r)' /\ Leases(r)'
    BY <1>1, <1>2 DEF Headless!Settle, RunOK, Serves, Leases, Owes, Headless!At, Headless!Codex,
       Carrying, HeadlessTypes, Headless!workspace
  <2>3. Stored(r)' /\ Told(r)'
    BY <1>1, <1>2 DEF Headless!Settle, RunOK, Stored, Told, Owes, Headless!At, HeadlessTypes,
       Headless!workspace
  <2> QED BY <1>1, <1>2, <2>1, <2>2, <2>3 DEF Headless!Settle, RunOK, Headless!Codex, Headless!At,
             Carrying, Headless!workspace
<1> QED BY <1>1, <1>3, <1>4, OneMoves DEF Headless!Settle, RunOK, Headless!At, HeadlessInv,
           Headless!workspace

LEMMA UnlockInv ==
  ASSUME Headless!HeadlessAssumption, HeadlessInv, NEW r \in Tasks, Headless!Unlock(r)
  PROVE  HeadlessInv'
<1>1. HeadlessTypes /\ RunOK(r)
  BY DEF HeadlessInv
<1>2. /\ task' \in [Tasks -> RunLocals] /\ \A s \in Tasks \ {r} : task'[s] = task[s]
      /\ task'[r].at = "exit"
      /\ task'[r].agent = task[r].agent /\ task'[r].cut = task[r].cut
      /\ task'[r].status = task[r].status
  BY <1>1, GoesIs DEF Headless!Unlock, Places, Headless!Guarded
<1>3. HeadlessTypes' /\ Aside(r)
  <2>1. HeadlessTypes'
    BY <1>1, <1>2, LocalsAre DEF Headless!Unlock, HeadlessTypes, Headless!workspace, Forwarders,
       Journals, Headless!HeadlessAssumption
  <2>2. Aside(r)
    BY <1>1, <1>2 DEF Headless!Unlock, Aside, HeadlessTypes, Headless!workspace
  <2> QED BY <2>1, <2>2
<1>4. RunOK(r)'
  <2>1. Agented(r)'
    BY <1>1, <1>2 DEF Headless!Unlock, RunOK, Agented, Owes, Headless!At, Headless!Codex,
       HeadlessTypes, Headless!workspace
  <2>2. Serves(r)' /\ Leases(r)'
    BY <1>1, <1>2 DEF Headless!Unlock, RunOK, Serves, Leases, Owes, Headless!At, Headless!Codex,
       Carrying, HeadlessTypes, Headless!workspace
  <2>3. Stored(r)' /\ Told(r)'
    BY <1>1, <1>2 DEF Headless!Unlock, RunOK, Stored, Told, Owes, Headless!At, HeadlessTypes,
       Headless!workspace
  <2> QED BY <1>1, <1>2, <2>1, <2>2, <2>3 DEF Headless!Unlock, RunOK, Headless!Codex, Headless!At,
             Carrying, Headless!workspace
<1> QED BY <1>1, <1>3, <1>4, OneMoves DEF Headless!Unlock, RunOK, Headless!At, HeadlessInv,
           Headless!workspace

LEMMA WriteInv ==
  ASSUME Headless!HeadlessAssumption, HeadlessInv, NEW r \in Tasks, Headless!Write(r)
  PROVE  HeadlessInv'
<1>1. HeadlessTypes /\ RunOK(r)
  BY DEF HeadlessInv
<1>2. /\ task' \in [Tasks -> RunLocals] /\ \A s \in Tasks \ {r} : task'[s] = task[s]
      /\ task'[r].at = "unlock"
      /\ task'[r].agent = task[r].agent /\ task'[r].cut = task[r].cut
      /\ task'[r].status = task[r].status
  BY <1>1, GoesIs DEF Headless!Write, Places, Headless!Guarded
<1>3. HeadlessTypes' /\ Aside(r)
  <2>1. HeadlessTypes'
    BY <1>1, <1>2, LocalsAre DEF Headless!Write, HeadlessTypes, Headless!workspace,
       Headless!WriteLocked, Forwarders, Journals, Headless!HeadlessAssumption
  <2>2. Aside(r)
    BY <1>1, <1>2 DEF Headless!Write, Aside, HeadlessTypes, Headless!workspace, Headless!WriteLocked
  <2> QED BY <2>1, <2>2
<1>4. RunOK(r)'
  <2>1. Agented(r)'
    BY <1>1, <1>2 DEF Headless!Write, RunOK, Agented, Owes, Headless!At, Headless!Codex,
       HeadlessTypes, Headless!workspace, Headless!WriteLocked
  <2>2. Serves(r)' /\ Leases(r)'
    BY <1>1, <1>2 DEF Headless!Write, RunOK, Serves, Leases, Owes, Headless!At, Headless!Codex,
       Carrying, HeadlessTypes, Headless!workspace, Headless!WriteLocked
  <2>3. Stored(r)' /\ Told(r)'
    BY <1>1, <1>2 DEF Headless!Write, RunOK, Stored, Told, Owes, Headless!At, HeadlessTypes,
       Headless!workspace, Headless!WriteLocked
  <2> QED BY <1>1, <1>2, <2>1, <2>2, <2>3 DEF Headless!Write, RunOK, Headless!Codex, Headless!At,
             Carrying, Headless!workspace, Headless!WriteLocked
<1> QED BY <1>1, <1>3, <1>4, OneMoves DEF Headless!Write, RunOK, Headless!At, HeadlessInv,
           Headless!workspace, Headless!WriteLocked

LEMMA AnnounceInv ==
  ASSUME Headless!HeadlessAssumption, HeadlessInv, NEW r \in Tasks, Headless!Announce(r)
  PROVE  HeadlessInv'
<1>1. HeadlessTypes /\ RunOK(r)
  BY DEF HeadlessInv
<1>2. /\ task' \in [Tasks -> RunLocals] /\ \A s \in Tasks \ {r} : task'[s] = task[s]
      /\ task'[r] = task[r]
  BY <1>1 DEF Headless!Announce, HeadlessTypes
<1>3. HeadlessTypes' /\ Aside(r)
  <2>1. HeadlessTypes'
    BY <1>1, <1>2, LocalsAre DEF Headless!Announce, HeadlessTypes, Headless!workspace, Forwarders,
       Journals, Headless!HeadlessAssumption
  <2>2. Aside(r)
    BY <1>1, <1>2 DEF Headless!Announce, Aside, HeadlessTypes, Headless!workspace
  <2> QED BY <2>1, <2>2
<1>4. RunOK(r)'
  <2>1. Agented(r)'
    BY <1>1, <1>2 DEF Headless!Announce, RunOK, Agented, Owes, Headless!At, Headless!Codex,
       HeadlessTypes, Headless!workspace
  <2>2. Serves(r)' /\ Leases(r)'
    BY <1>1, <1>2 DEF Headless!Announce, RunOK, Serves, Leases, Owes, Headless!At, Headless!Codex,
       Carrying, HeadlessTypes, Headless!workspace
  <2>3. Stored(r)' /\ Told(r)'
    BY <1>1, <1>2 DEF Headless!Announce, RunOK, Stored, Told, Owes, Headless!At, HeadlessTypes,
       Headless!workspace
  <2> QED BY <1>1, <1>2, <2>1, <2>2, <2>3 DEF Headless!Announce, RunOK, Headless!Codex, Headless!At,
             Carrying, Headless!workspace
<1> QED BY <1>1, <1>3, <1>4, OneMoves DEF Headless!Announce, RunOK, Headless!At, HeadlessInv,
           Headless!workspace

LEMMA StrayInv ==
  ASSUME Headless!HeadlessAssumption, HeadlessInv, NEW r \in Tasks, Headless!Stray(r)
  PROVE  HeadlessInv'
<1>1. HeadlessTypes /\ RunOK(r)
  BY DEF HeadlessInv
<1>2. /\ task' \in [Tasks -> RunLocals] /\ \A s \in Tasks \ {r} : task'[s] = task[s]
      /\ task'[r] = task[r]
  BY <1>1 DEF Headless!Stray, HeadlessTypes
<1>3. HeadlessTypes' /\ Aside(r)
  <2>1. HeadlessTypes'
    BY <1>1, <1>2, LocalsAre DEF Headless!Stray, HeadlessTypes, Headless!workspace, Forwarders,
       Journals, Headless!HeadlessAssumption
  <2>2. Aside(r)
    BY <1>1, <1>2 DEF Headless!Stray, Aside, HeadlessTypes, Headless!workspace
  <2> QED BY <2>1, <2>2
<1>4. RunOK(r)'
  <2>1. Agented(r)'
    BY <1>1, <1>2 DEF Headless!Stray, RunOK, Agented, Owes, Headless!At, Headless!Codex,
       HeadlessTypes, Headless!workspace
  <2>2. Serves(r)' /\ Leases(r)'
    BY <1>1, <1>2 DEF Headless!Stray, RunOK, Serves, Leases, Owes, Headless!At, Headless!Codex,
       Carrying, HeadlessTypes, Headless!workspace
  <2>3. Stored(r)' /\ Told(r)'
    BY <1>1, <1>2 DEF Headless!Stray, RunOK, Stored, Told, Owes, Headless!At, HeadlessTypes,
       Headless!workspace
  <2> QED BY <1>1, <1>2, <2>1, <2>2, <2>3 DEF Headless!Stray, RunOK, Headless!Codex, Headless!At,
             Carrying, Headless!workspace
<1> QED BY <1>1, <1>3, <1>4, OneMoves DEF Headless!Stray, RunOK, Headless!At, HeadlessInv,
           Headless!workspace

LEMMA RequestInv ==
  ASSUME Headless!HeadlessAssumption, HeadlessInv, NEW r \in Tasks, Headless!Request(r)
  PROVE  HeadlessInv'
<1>1. HeadlessTypes /\ RunOK(r)
  BY DEF HeadlessInv
<1>2. /\ task' \in [Tasks -> RunLocals] /\ \A s \in Tasks \ {r} : task'[s] = task[s]
      /\ task'[r] = task[r]
      /\ forwarder' \in [Tasks -> Forwarders] /\ (forwarder'[r].up <=> forwarder[r].up)
      /\ \A s \in Tasks \ {r} : forwarder'[s] = forwarder[s]
  <2>1. /\ task' = task /\ task \in [Tasks -> RunLocals]
        /\ forwarder[r] \in Forwarders /\ MaxRequests \in Nat
    BY <1>1, LocalsAre DEF Headless!Request, HeadlessTypes, Headless!HeadlessAssumption
  <2> DEFINE f == IF forwarder[r].requests >= MaxRequests
                  THEN [forwarder[r] EXCEPT !.exhausted = TRUE]
                  ELSE [forwarder[r] EXCEPT !.requests = forwarder[r].requests + 1]
  <2>2. f \in Forwarders /\ (f.up <=> forwarder[r].up)
    <3>1. CASE forwarder[r].requests >= MaxRequests
      BY <2>1, <3>1 DEF Forwarders
    <3>2. CASE ~(forwarder[r].requests >= MaxRequests)
      BY <2>1, <3>2 DEF Forwarders
    <3> QED BY <3>1, <3>2
  <2>3. forwarder' = [forwarder EXCEPT ![r] = f]
    BY <1>1 DEF Headless!Request, HeadlessTypes
  <2> HIDE DEF f
  <2> QED BY <1>1, <2>1, <2>2, <2>3, ForwarderIs
<1>3. HeadlessTypes' /\ Aside(r)
  <2>1. HeadlessTypes'
    BY <1>1, <1>2, LocalsAre DEF Headless!Request, HeadlessTypes, Headless!workspace, Forwarders,
       Journals, Headless!HeadlessAssumption
  <2>2. Aside(r)
    BY <1>1, <1>2 DEF Headless!Request, Aside, HeadlessTypes, Headless!workspace
  <2> QED BY <2>1, <2>2
<1>4. RunOK(r)'
  <2>1. Agented(r)'
    BY <1>1, <1>2 DEF Headless!Request, RunOK, Agented, Owes, Headless!At, Headless!Codex,
       HeadlessTypes, Headless!workspace
  <2>2. Serves(r)' /\ Leases(r)'
    BY <1>1, <1>2 DEF Headless!Request, RunOK, Serves, Leases, Owes, Headless!At, Headless!Codex,
       Carrying, HeadlessTypes, Headless!workspace
  <2>3. Stored(r)' /\ Told(r)'
    BY <1>1, <1>2 DEF Headless!Request, RunOK, Stored, Told, Owes, Headless!At, HeadlessTypes,
       Headless!workspace
  <2> QED BY <1>1, <1>2, <2>1, <2>2, <2>3 DEF Headless!Request, RunOK, Headless!Codex, Headless!At,
             Carrying, Headless!workspace
<1> QED BY <1>1, <1>3, <1>4, OneMoves DEF Headless!Request, RunOK, Headless!At, HeadlessInv,
           Headless!workspace

LEMMA CollectInv ==
  ASSUME Headless!HeadlessAssumption, HeadlessInv, NEW r \in Tasks, Headless!Collect(r)
  PROVE  HeadlessInv'
<1>1. HeadlessTypes /\ RunOK(r)
  BY DEF HeadlessInv
<1>2. /\ task' \in [Tasks -> RunLocals] /\ \A s \in Tasks \ {r} : task'[s] = task[s]
      /\ task'[r].at = IF Headless!Codex(r) THEN "finish" ELSE "judge"
      /\ task'[r].agent = task[r].agent /\ task'[r].cut = task[r].cut
      /\ task'[r].status = task[r].status
  BY <1>1, GoesIs DEF Headless!Collect, Places, Headless!Guarded
<1>3. HeadlessTypes' /\ Aside(r)
  <2>1. HeadlessTypes'
    BY <1>1, <1>2, LocalsAre DEF Headless!Collect, HeadlessTypes, Headless!workspace,
       Headless!KillLingering, Forwarders, Journals, Headless!HeadlessAssumption
  <2>2. Aside(r)
    BY <1>1, <1>2 DEF Headless!Collect, Aside, HeadlessTypes, Headless!workspace, Headless!KillLingering
  <2> QED BY <2>1, <2>2
<1>4. RunOK(r)'
  <2>1. Agented(r)'
    BY <1>1, <1>2 DEF Headless!Collect, RunOK, Agented, Owes, Headless!At, Headless!Codex,
       HeadlessTypes, Headless!workspace, Headless!KillLingering
  <2>2. Serves(r)' /\ Leases(r)'
    BY <1>1, <1>2 DEF Headless!Collect, RunOK, Serves, Leases, Owes, Headless!At, Headless!Codex,
       Carrying, HeadlessTypes, Headless!workspace, Headless!KillLingering
  <2>3. Stored(r)' /\ Told(r)'
    BY <1>1, <1>2 DEF Headless!Collect, RunOK, Stored, Told, Owes, Headless!At, HeadlessTypes,
       Headless!workspace, Headless!KillLingering
  <2> QED BY <1>1, <1>2, <2>1, <2>2, <2>3 DEF Headless!Collect, RunOK, Headless!Codex, Headless!At,
             Carrying, Headless!workspace, Headless!KillLingering
<1> QED BY <1>1, <1>3, <1>4, OneMoves DEF Headless!Collect, RunOK, Headless!At, HeadlessInv,
           Headless!workspace, Headless!KillLingering

-----------------------------------------------------------------------------
(* The steps that may refuse, fail or be cut short  *)

LEMMA PreflightInv ==
  ASSUME Headless!HeadlessAssumption, HeadlessInv, NEW r \in Tasks, Headless!Preflight(r)
  PROVE  HeadlessInv'
<1>1. HeadlessTypes /\ RunOK(r)
  BY DEF HeadlessInv
<1>2. /\ task' \in [Tasks -> RunLocals] /\ \A s \in Tasks \ {r} : task'[s] = task[s]
      /\ task'[r].agent = task[r].agent /\ task'[r].cut = task[r].cut
      /\ \/ task'[r].at = "settled" /\ task'[r].status = "refused"
         \/ /\ task'[r].status = task[r].status
            /\ task'[r].at = IF Headless!Codex(r) THEN "forwarder" ELSE "agent"
  <2>1. CASE Headless!Settles(r, "refused")
    BY <1>1, <2>1, SettlesIs DEF Results
  <2>2. CASE Headless!Goes(r, IF Headless!Codex(r) THEN "forwarder" ELSE "agent")
    BY <1>1, <2>2, GoesIs DEF Places, Headless!Guarded
  <2> QED BY <2>1, <2>2 DEF Headless!Preflight
<1>3. HeadlessTypes' /\ Aside(r)
  <2>1. HeadlessTypes'
    BY <1>1, <1>2, LocalsAre DEF Headless!Preflight, HeadlessTypes, Headless!workspace, Forwarders,
       Journals, Headless!HeadlessAssumption
  <2>2. Aside(r)
    BY <1>1, <1>2 DEF Headless!Preflight, Aside, HeadlessTypes, Headless!workspace
  <2> QED BY <2>1, <2>2
<1>4. RunOK(r)'
  <2>1. Agented(r)'
    BY <1>1, <1>2 DEF Headless!Preflight, RunOK, Agented, Owes, Headless!At, Headless!Codex,
       HeadlessTypes, Headless!workspace
  <2>2. Serves(r)' /\ Leases(r)'
    BY <1>1, <1>2 DEF Headless!Preflight, RunOK, Serves, Leases, Owes, Headless!At, Headless!Codex,
       Carrying, HeadlessTypes, Headless!workspace
  <2>3. Stored(r)' /\ Told(r)'
    BY <1>1, <1>2 DEF Headless!Preflight, RunOK, Stored, Told, Owes, Headless!At, HeadlessTypes,
       Headless!workspace
  <2> QED BY <1>1, <1>2, <2>1, <2>2, <2>3 DEF Headless!Preflight, RunOK, Headless!Codex, Headless!At,
             Carrying, Headless!workspace
<1> QED BY <1>1, <1>3, <1>4, OneMoves DEF Headless!Preflight, RunOK, Headless!At, HeadlessInv,
           Headless!workspace

LEMMA StartForwarderInv ==
  ASSUME Headless!HeadlessAssumption, HeadlessInv, NEW r \in Tasks, Headless!StartForwarder(r)
  PROVE  HeadlessInv'
<1>1. HeadlessTypes /\ RunOK(r)
  BY DEF HeadlessInv
<1>2. /\ task' \in [Tasks -> RunLocals] /\ \A s \in Tasks \ {r} : task'[s] = task[s]
      /\ task'[r].agent = task[r].agent /\ task'[r].cut = task[r].cut
      /\ \/ task'[r].at = "unwind" /\ task'[r].status = "refused" /\ Due(task'[r].todo, "forwarder")
         \/ task'[r].status = task[r].status /\ task'[r].at = "session"
      /\ Headless!Codex(r) /\ forwarder' \in [Tasks -> Forwarders]
      /\ \A s \in Tasks \ {r} : forwarder'[s] = forwarder[s]
  <2>1. Headless!Serving(r) \in Forwarders
    <3>1. 0 \in 0..MaxRequests
      BY DEF Headless!HeadlessAssumption
    <3>2. Headless!NoForwarder \in Forwarders
      BY <3>1 DEF Headless!NoForwarder, Forwarders
    <3> QED BY <3>2 DEF Headless!Serving, Forwarders
  <2>2. /\ forwarder' \in [Tasks -> Forwarders] /\ \A s \in Tasks \ {r} : forwarder'[s] = forwarder[s]
    BY <1>1, <2>1, ForwarderIs DEF Headless!StartForwarder
  <2>3. CASE Headless!Unwinds(r, "refused", <<"forwarder">>)
    BY <1>1, <2>3, <2>2, UnwindsIs, DueIs DEF Results, Headless!StartForwarder, RunOK, Carrying,
       Headless!At
  <2>4. CASE Headless!Goes(r, "session")
    BY <1>1, <2>4, <2>2, GoesIs DEF Places, Headless!Guarded, Headless!StartForwarder, RunOK,
       Carrying, Headless!At
  <2> QED BY <2>3, <2>4, <2>2 DEF Headless!StartForwarder
<1>3. HeadlessTypes' /\ Aside(r)
  <2>1. HeadlessTypes'
    BY <1>1, <1>2, LocalsAre DEF Headless!StartForwarder, HeadlessTypes, Headless!workspace,
       Headless!Serving, Headless!NoForwarder, Forwarders, Journals, Headless!HeadlessAssumption
  <2>2. Aside(r)
    BY <1>1, <1>2 DEF Headless!StartForwarder, Aside, HeadlessTypes, Headless!workspace,
       Headless!Serving, Headless!NoForwarder
  <2> QED BY <2>1, <2>2
<1>4. RunOK(r)'
  <2>1. Agented(r)'
    BY <1>1, <1>2 DEF Headless!StartForwarder, RunOK, Agented, Owes, Headless!At, Headless!Codex,
       HeadlessTypes, Headless!workspace, Headless!Serving, Headless!NoForwarder
  <2>2. Serves(r)' /\ Leases(r)'
    BY <1>1, <1>2 DEF Headless!StartForwarder, RunOK, Serves, Leases, Owes, Headless!At,
       Headless!Codex, Carrying, HeadlessTypes, Headless!workspace, Headless!Serving,
       Headless!NoForwarder
  <2>3. Stored(r)' /\ Told(r)'
    BY <1>1, <1>2 DEF Headless!StartForwarder, RunOK, Stored, Told, Owes, Headless!At, HeadlessTypes,
       Headless!workspace, Headless!Serving, Headless!NoForwarder
  <2> QED BY <1>1, <1>2, <2>1, <2>2, <2>3 DEF Headless!StartForwarder, RunOK, Headless!Codex,
             Headless!At, Carrying, Headless!workspace, Headless!Serving, Headless!NoForwarder
<1> QED BY <1>1, <1>3, <1>4, OneMoves DEF Headless!StartForwarder, RunOK, Headless!At, HeadlessInv,
           Headless!workspace, Headless!Serving, Headless!NoForwarder

LEMMA OpenSessionInv ==
  ASSUME Headless!HeadlessAssumption, HeadlessInv, NEW r \in Tasks, Headless!OpenSession(r)
  PROVE  HeadlessInv'
<1>1. HeadlessTypes /\ RunOK(r)
  BY DEF HeadlessInv
<1>2. /\ task' \in [Tasks -> RunLocals] /\ \A s \in Tasks \ {r} : task'[s] = task[s]
      /\ task'[r].agent = task[r].agent /\ task'[r].cut = task[r].cut
      /\ \/ task'[r].at = "unwind" /\ task'[r].status = "failed" /\ Due(task'[r].todo, "forwarder")
            /\ UNCHANGED <<session, leased>>
         \/ task'[r].status = task[r].status /\ task'[r].at = "check"
            /\ session' = [session EXCEPT ![r] = "OPEN"] /\ leased' = leased \cup {r}
      /\ Headless!Codex(r)
  <2>1. CASE Headless!Unwinds(r, "failed", <<"forwarder">>) /\ UNCHANGED <<session, leased>>
    BY <1>1, <2>1, UnwindsIs, DueIs DEF Results, Headless!OpenSession, RunOK, Carrying, Headless!At
  <2>2. CASE /\ session' = [session EXCEPT ![r] = "OPEN"] /\ leased' = leased \cup {r}
             /\ Headless!Goes(r, "check")
    BY <1>1, <2>2, GoesIs DEF Places, Headless!Guarded, Headless!OpenSession, RunOK, Carrying,
       Headless!At
  <2> QED BY <2>1, <2>2 DEF Headless!OpenSession
<1>3. HeadlessTypes' /\ Aside(r)
  <2>1. HeadlessTypes'
    BY <1>1, <1>2, LocalsAre DEF Headless!OpenSession, HeadlessTypes, Headless!workspace, Forwarders,
       Journals, Headless!HeadlessAssumption
  <2>2. Aside(r)
    BY <1>1, <1>2 DEF Headless!OpenSession, Aside, HeadlessTypes, Headless!workspace
  <2> QED BY <2>1, <2>2
<1>4. RunOK(r)'
  <2>1. Agented(r)'
    BY <1>1, <1>2 DEF Headless!OpenSession, RunOK, Agented, Owes, Headless!At, Headless!Codex,
       HeadlessTypes, Headless!workspace
  <2>2. Serves(r)' /\ Leases(r)'
    BY <1>1, <1>2 DEF Headless!OpenSession, RunOK, Serves, Leases, Owes, Headless!At, Headless!Codex,
       Carrying, HeadlessTypes, Headless!workspace
  <2>3. Stored(r)' /\ Told(r)'
    BY <1>1, <1>2 DEF Headless!OpenSession, RunOK, Stored, Told, Owes, Headless!At, HeadlessTypes,
       Headless!workspace
  <2> QED BY <1>1, <1>2, <2>1, <2>2, <2>3 DEF Headless!OpenSession, RunOK, Headless!Codex,
             Headless!At, Carrying, Headless!workspace
<1> QED BY <1>1, <1>3, <1>4, OneMoves DEF Headless!OpenSession, RunOK, Headless!At, HeadlessInv,
           Headless!workspace

LEMMA CodexPreflightInv ==
  ASSUME Headless!HeadlessAssumption, HeadlessInv, NEW r \in Tasks, Headless!CodexPreflight(r)
  PROVE  HeadlessInv'
<1>1. HeadlessTypes /\ RunOK(r)
  BY DEF HeadlessInv
<1>2. /\ task' \in [Tasks -> RunLocals] /\ \A s \in Tasks \ {r} : task'[s] = task[s]
      /\ task'[r].agent = task[r].agent /\ task'[r].cut = task[r].cut
      /\ \/ task'[r].at = "unwind" /\ task'[r].status = "refused"
            /\ \A c \in {"forwarder", "kill", "finish"} : Due(task'[r].todo, c)
         \/ task'[r].status = task[r].status /\ task'[r].at = "agent"
      /\ Headless!Codex(r)
  <2>1. CASE Headless!Unwinds(r, "refused", Headless!CodexCleanup)
    BY <1>1, <2>1, UnwindsIs, DueIs DEF Results, Headless!CodexPreflight, RunOK, Carrying, Headless!At
  <2>2. CASE Headless!Goes(r, "agent")
    BY <1>1, <2>2, GoesIs DEF Places, Headless!Guarded, Headless!CodexPreflight, RunOK, Carrying,
       Headless!At
  <2> QED BY <2>1, <2>2 DEF Headless!CodexPreflight
<1>3. HeadlessTypes' /\ Aside(r)
  <2>1. HeadlessTypes'
    BY <1>1, <1>2, LocalsAre DEF Headless!CodexPreflight, HeadlessTypes, Headless!workspace,
       Forwarders, Journals, Headless!HeadlessAssumption
  <2>2. Aside(r)
    BY <1>1, <1>2 DEF Headless!CodexPreflight, Aside, HeadlessTypes, Headless!workspace
  <2> QED BY <2>1, <2>2
<1>4. RunOK(r)'
  <2>1. Agented(r)'
    BY <1>1, <1>2 DEF Headless!CodexPreflight, RunOK, Agented, Owes, Headless!At, Headless!Codex,
       HeadlessTypes, Headless!workspace
  <2>2. Serves(r)' /\ Leases(r)'
    BY <1>1, <1>2 DEF Headless!CodexPreflight, RunOK, Serves, Leases, Owes, Headless!At,
       Headless!Codex, Carrying, HeadlessTypes, Headless!workspace
  <2>3. Stored(r)' /\ Told(r)'
    BY <1>1, <1>2 DEF Headless!CodexPreflight, RunOK, Stored, Told, Owes, Headless!At, HeadlessTypes,
       Headless!workspace
  <2> QED BY <1>1, <1>2, <2>1, <2>2, <2>3 DEF Headless!CodexPreflight, RunOK, Headless!Codex,
             Headless!At, Carrying, Headless!workspace
<1> QED BY <1>1, <1>3, <1>4, OneMoves DEF Headless!CodexPreflight, RunOK, Headless!At, HeadlessInv,
           Headless!workspace

LEMMA JudgeInv ==
  ASSUME Headless!HeadlessAssumption, HeadlessInv, NEW r \in Tasks, Headless!Judge(r)
  PROVE  HeadlessInv'
<1>1. HeadlessTypes /\ RunOK(r)
  BY DEF HeadlessInv
<1>2. /\ task' \in [Tasks -> RunLocals] /\ \A s \in Tasks \ {r} : task'[s] = task[s]
      /\ task'[r].agent = task[r].agent /\ task'[r].cut = task[r].cut
      /\ \/ task'[r].at = "deliver" /\ task'[r].status = task[r].status /\ ~forwarder[r].exhausted
         \/ task'[r].at = "settled" /\ task'[r].status \in {"timeout", "budget", "failed"}
  <2>1. /\ Headless!Verdict(r) \in {"", "timeout", "budget", "failed"}
        /\ (Headless!Verdict(r) = "" => ~forwarder[r].exhausted)
    BY DEF Headless!Verdict
  <2>2. CASE Headless!Verdict(r) = ""
    BY <1>1, <2>1, <2>2, GoesIs DEF Headless!Judge, Places, Headless!Guarded
  <2>3. CASE Headless!Verdict(r) # ""
    BY <1>1, <2>1, <2>3, SettlesIs DEF Headless!Judge, Results
  <2> QED BY <2>2, <2>3
<1>3. HeadlessTypes' /\ Aside(r)
  <2>1. HeadlessTypes'
    BY <1>1, <1>2, LocalsAre DEF Headless!Judge, HeadlessTypes, Headless!workspace, Forwarders,
       Journals, Headless!HeadlessAssumption
  <2>2. Aside(r)
    BY <1>1, <1>2 DEF Headless!Judge, Aside, HeadlessTypes, Headless!workspace
  <2> QED BY <2>1, <2>2
<1>4. RunOK(r)'
  <2>1. Agented(r)'
    BY <1>1, <1>2 DEF Headless!Judge, RunOK, Agented, Owes, Headless!At, Headless!Codex,
       HeadlessTypes, Headless!workspace
  <2>2. Serves(r)' /\ Leases(r)'
    BY <1>1, <1>2 DEF Headless!Judge, RunOK, Serves, Leases, Owes, Headless!At, Headless!Codex,
       Carrying, HeadlessTypes, Headless!workspace
  <2>3. Stored(r)' /\ Told(r)'
    BY <1>1, <1>2 DEF Headless!Judge, RunOK, Stored, Told, Owes, Headless!At, HeadlessTypes,
       Headless!workspace
  <2> QED BY <1>1, <1>2, <2>1, <2>2, <2>3 DEF Headless!Judge, RunOK, Headless!Codex, Headless!At,
             Carrying, Headless!workspace
<1> QED BY <1>1, <1>3, <1>4, OneMoves DEF Headless!Judge, RunOK, Headless!At, HeadlessInv,
           Headless!workspace

LEMMA DeliverInv ==
  ASSUME Headless!HeadlessAssumption, HeadlessInv, NEW r \in Tasks, Headless!Deliver(r)
  PROVE  HeadlessInv'
<1>1. HeadlessTypes /\ RunOK(r)
  BY DEF HeadlessInv
<1>2. /\ task' \in [Tasks -> RunLocals] /\ \A s \in Tasks \ {r} : task'[s] = task[s]
      /\ task'[r].agent = task[r].agent /\ task'[r].cut = task[r].cut
      /\ \/ task'[r].at = "record" /\ task'[r].status = task[r].status
         \/ task'[r].at = "settled" /\ task'[r].status \in {"no_changes", "failed"}
            /\ (task'[r].status = "no_changes" => session[r] = "CLOSED")
  <2>1. CASE session[r] = "CLOSED" /\ Headless!Settles(r, "no_changes")
    BY <1>1, <2>1, SettlesIs DEF Results
  <2>2. CASE Headless!Goes(r, "record")
    BY <1>1, <2>2, GoesIs DEF Places, Headless!Guarded
  <2>3. CASE Headless!Settles(r, "failed")
    BY <1>1, <2>3, SettlesIs DEF Results
  <2> QED BY <2>1, <2>2, <2>3 DEF Headless!Deliver
<1>3. HeadlessTypes' /\ Aside(r)
  <2>1. HeadlessTypes'
    BY <1>1, <1>2, LocalsAre DEF Headless!Deliver, HeadlessTypes, Headless!workspace, Forwarders,
       Journals, Headless!HeadlessAssumption
  <2>2. Aside(r)
    BY <1>1, <1>2 DEF Headless!Deliver, Aside, HeadlessTypes, Headless!workspace
  <2> QED BY <2>1, <2>2
<1>4. RunOK(r)'
  <2>1. Agented(r)'
    BY <1>1, <1>2 DEF Headless!Deliver, RunOK, Agented, Owes, Headless!At, Headless!Codex,
       HeadlessTypes, Headless!workspace
  <2>2. Serves(r)' /\ Leases(r)'
    BY <1>1, <1>2 DEF Headless!Deliver, RunOK, Serves, Leases, Owes, Headless!At, Headless!Codex,
       Carrying, HeadlessTypes, Headless!workspace
  <2>3. Stored(r)' /\ Told(r)'
    BY <1>1, <1>2 DEF Headless!Deliver, RunOK, Stored, Told, Owes, Headless!At, HeadlessTypes,
       Headless!workspace
  <2> QED BY <1>1, <1>2, <2>1, <2>2, <2>3 DEF Headless!Deliver, RunOK, Headless!Codex, Headless!At,
             Carrying, Headless!workspace
<1> QED BY <1>1, <1>3, <1>4, OneMoves DEF Headless!Deliver, RunOK, Headless!At, HeadlessInv,
           Headless!workspace

LEMMA DiesInv ==
  ASSUME Headless!HeadlessAssumption, HeadlessInv, NEW r \in Tasks, Headless!Dies(r)
  PROVE  HeadlessInv'
<1>1. HeadlessTypes /\ RunOK(r)
  BY DEF HeadlessInv
<1>2. /\ task' \in [Tasks -> RunLocals] /\ \A s \in Tasks \ {r} : task'[s] = task[s]
      /\ task'[r].at = "dead"
      /\ task'[r].agent = task[r].agent /\ task'[r].cut = task[r].cut
      /\ task'[r].status = task[r].status
  BY <1>1, GoesIs DEF Headless!Dies, Headless!Goes, Places
<1>3. HeadlessTypes' /\ Aside(r)
  <2>1. HeadlessTypes'
    BY <1>1, <1>2, LocalsAre DEF Headless!Dies, HeadlessTypes, Headless!workspace, Headless!Guarded,
       Forwarders, Journals, Headless!HeadlessAssumption
  <2>2. Aside(r)
    BY <1>1, <1>2 DEF Headless!Dies, Aside, HeadlessTypes, Headless!workspace, Headless!Guarded
  <2> QED BY <2>1, <2>2
<1>4. RunOK(r)'
  <2>1. Agented(r)'
    BY <1>1, <1>2 DEF Headless!Dies, RunOK, Agented, Owes, Headless!At, Headless!Codex, HeadlessTypes,
       Headless!workspace, Headless!Guarded
  <2>2. Serves(r)' /\ Leases(r)'
    BY <1>1, <1>2 DEF Headless!Dies, RunOK, Serves, Leases, Owes, Headless!At, Headless!Codex,
       Carrying, HeadlessTypes, Headless!workspace, Headless!Guarded
  <2>3. Stored(r)' /\ Told(r)'
    BY <1>1, <1>2 DEF Headless!Dies, RunOK, Stored, Told, Owes, Headless!At, HeadlessTypes,
       Headless!workspace, Headless!Guarded
  <2> QED BY <1>1, <1>2, <2>1, <2>2, <2>3 DEF Headless!Dies, RunOK, Headless!Codex, Headless!At,
             Carrying, Headless!workspace, Headless!Guarded
<1> QED BY <1>1, <1>3, <1>4, OneMoves DEF Headless!Dies, RunOK, Headless!At, HeadlessInv,
           Headless!workspace, Headless!Guarded

-----------------------------------------------------------------------------
(* The steps that change several of the locals  *)

LEMMA LockInv ==
  ASSUME Headless!HeadlessAssumption, HeadlessInv, NEW r \in Tasks, Headless!Lock(r)
  PROVE  HeadlessInv'
<1>1. HeadlessTypes /\ RunOK(r)
  BY DEF HeadlessInv
<1>2. /\ task' \in [Tasks -> RunLocals] /\ \A s \in Tasks \ {r} : task'[s] = task[s]
      /\ task'[r].cut = task[r].cut /\ task'[r].status = task[r].status
      /\ \/ task'[r].at = "preflight" /\ lock = Nobody /\ lock' = r /\ temp' = temp \cup {r}
         \/ task'[r].at = "exit" /\ task'[r].agent = task[r].agent /\ UNCHANGED <<lock, temp>>
  <2>1. CASE lock # Nobody /\ Headless!Goes(r, "exit") /\ UNCHANGED <<lock, temp>>
    BY <1>1, <2>1, GoesIs DEF Places
  <2>2. ASSUME NEW a \in Headless!Agents, task' = [task EXCEPT ![r].at = "preflight", ![r].agent = a],
               lock = Nobody, lock' = r, temp' = temp \cup {r}
        PROVE  /\ task' \in [Tasks -> RunLocals] /\ \A s \in Tasks \ {r} : task'[s] = task[s]
               /\ task'[r].cut = task[r].cut /\ task'[r].status = task[r].status
               /\ task'[r].at = "preflight"
    <3> DEFINE l == [task[r] EXCEPT !.at = "preflight", !.agent = a]
    <3>1. task[r] \in RunLocals /\ "preflight" \in Places
      BY <1>1, LocalsAre DEF Places, Headless!Guarded
    <3>2. l \in RunLocals /\ l.at = "preflight" /\ l.cut = task[r].cut /\ l.status = task[r].status
      BY <3>1 DEF RunLocals
    <3>3. task' = [task EXCEPT ![r] = l]
      BY <1>1, <2>2 DEF HeadlessTypes
    <3> HIDE DEF l
    <3> QED BY <1>1, <3>2, <3>3, RunIs
  <2> QED BY <2>1, <2>2 DEF Headless!Lock
<1>3. HeadlessTypes' /\ Aside(r)
  <2>1. HeadlessTypes'
    BY <1>1, <1>2, LocalsAre DEF Headless!Lock, HeadlessTypes, Headless!workspace, Forwarders,
       Journals, Headless!HeadlessAssumption
  <2>2. Aside(r)
    BY <1>1, <1>2 DEF Headless!Lock, Aside, HeadlessTypes, Headless!workspace
  <2> QED BY <2>1, <2>2
<1>4. RunOK(r)'
  <2>1. Agented(r)'
    BY <1>1, <1>2 DEF Headless!Lock, RunOK, Agented, Owes, Headless!At, Headless!Codex, HeadlessTypes,
       Headless!workspace
  <2>2. Serves(r)' /\ Leases(r)'
    BY <1>1, <1>2 DEF Headless!Lock, RunOK, Serves, Leases, Owes, Headless!At, Headless!Codex,
       Carrying, HeadlessTypes, Headless!workspace
  <2>3. Stored(r)' /\ Told(r)'
    BY <1>1, <1>2 DEF Headless!Lock, RunOK, Stored, Told, Owes, Headless!At, HeadlessTypes,
       Headless!workspace
  <2> QED BY <1>1, <1>2, <2>1, <2>2, <2>3 DEF Headless!Lock, RunOK, Headless!Codex, Headless!At,
             Carrying, Headless!workspace
<1> QED BY <1>1, <1>3, <1>4, OneMoves DEF Headless!Lock, RunOK, Headless!At, HeadlessInv,
           Headless!workspace

LEMMA AgentEndsInv ==
  ASSUME Headless!HeadlessAssumption, HeadlessInv, NEW r \in Tasks, Headless!AgentEnds(r)
  PROVE  HeadlessInv'
<1>1. HeadlessTypes /\ RunOK(r)
  BY DEF HeadlessInv
<1>2. /\ task' \in [Tasks -> RunLocals] /\ \A s \in Tasks \ {r} : task'[s] = task[s]
      /\ task'[r].agent = task[r].agent /\ task'[r].cut = task[r].cut
      /\ task'[r].status = task[r].status
      /\ task'[r].at = "collect"
      /\ session' \in [Tasks -> Journals]
      /\ \A s \in Tasks \ {r} : session'[s] = session[s]
  <2>1. PICK rc \in {"ok", "bad", "timeout", "budget"} :
          task' = [task EXCEPT ![r].at = "collect", ![r].rc = rc]
    BY DEF Headless!AgentEnds
  <2>2. PICK t \in Headless!Left(session[r]) \cup {session[r]} : session' = [session EXCEPT ![r] = t]
    BY DEF Headless!AgentEnds
  <2>3. /\ session' \in [Tasks -> Journals] /\ \A s \in Tasks \ {r} : session'[s] = session[s]
    BY <1>1, <2>2 DEF Headless!Left, Journals, HeadlessTypes
  <2> DEFINE l == [task[r] EXCEPT !.at = "collect", !.rc = rc]
  <2>4. task[r] \in RunLocals /\ "collect" \in Places /\ rc \in Codes
    BY <1>1, LocalsAre DEF Places, Headless!Guarded, Codes
  <2>5. /\ l \in RunLocals /\ l.at = "collect" /\ l.cut = task[r].cut
        /\ l.status = task[r].status /\ l.agent = task[r].agent
    BY <2>4 DEF RunLocals
  <2>6. task' = [task EXCEPT ![r] = l]
    BY <1>1, <2>1 DEF HeadlessTypes
  <2> HIDE DEF l
  <2> QED BY <1>1, <2>3, <2>5, <2>6, RunIs
<1>3. HeadlessTypes' /\ Aside(r)
  <2>1. HeadlessTypes'
    BY <1>1, <1>2, LocalsAre DEF Headless!AgentEnds, HeadlessTypes, Headless!workspace, Forwarders,
       Journals, Headless!HeadlessAssumption
  <2>2. Aside(r)
    BY <1>1, <1>2 DEF Headless!AgentEnds, Aside, HeadlessTypes, Headless!workspace
  <2> QED BY <2>1, <2>2
<1>4. RunOK(r)'
  <2>1. Agented(r)'
    BY <1>1, <1>2 DEF Headless!AgentEnds, RunOK, Agented, Owes, Headless!At, Headless!Codex,
       HeadlessTypes, Headless!workspace
  <2>2. Serves(r)' /\ Leases(r)'
    BY <1>1, <1>2 DEF Headless!AgentEnds, RunOK, Serves, Leases, Owes, Headless!At, Headless!Codex,
       Carrying, HeadlessTypes, Headless!workspace
  <2>3. Stored(r)' /\ Told(r)'
    BY <1>1, <1>2 DEF Headless!AgentEnds, RunOK, Stored, Told, Owes, Headless!At, HeadlessTypes,
       Headless!workspace
  <2> QED BY <1>1, <1>2, <2>1, <2>2, <2>3 DEF Headless!AgentEnds, RunOK, Headless!Codex, Headless!At,
             Carrying, Headless!workspace
<1> QED BY <1>1, <1>3, <1>4, OneMoves DEF Headless!AgentEnds, RunOK, Headless!At, HeadlessInv,
           Headless!workspace

LEMMA CloseInv ==
  ASSUME Headless!HeadlessAssumption, HeadlessInv, NEW r \in Tasks, Headless!Close(r)
  PROVE  HeadlessInv'
<1>1. HeadlessTypes /\ RunOK(r)
  BY DEF HeadlessInv
<1>2. /\ task' \in [Tasks -> RunLocals] /\ \A s \in Tasks \ {r} : task'[s] = task[s]
      /\ task'[r].agent = task[r].agent /\ task'[r].cut = task[r].cut
      /\ task'[r].status = task[r].status
      /\ task'[r].at = "closed"
      /\ session' \in [Tasks -> Journals]
      /\ \A s \in Tasks \ {r} : session'[s] = session[s]
  <2>1. PICK c \in Headless!Closings :
          /\ session' = [session EXCEPT ![r] = c.state]
          /\ task' = [task EXCEPT ![r].at = "closed", ![r].rc = c.rc]
    BY DEF Headless!Close
  <2>2. c.state \in Journals /\ c.rc \in Codes
    <3>1. CASE c \in {[state |-> "ABANDONED", rc |-> x] : x \in {"overlay", "refusal", "verifier", "other"}}
      <4>1. c.state = "ABANDONED" /\ c.rc \in {"overlay", "refusal", "verifier", "other"}
        BY <3>1
      <4> QED BY <4>1 DEF Journals, Codes
    <3>2. CASE c \notin {[state |-> "ABANDONED", rc |-> x] : x \in {"overlay", "refusal", "verifier", "other"}}
      <4>1. c \in {[state |-> "DELIVERED", rc |-> "0"], [state |-> "CLOSED", rc |-> "0"],
                   [state |-> "CONFLICT", rc |-> "conflict"], [state |-> "INTEGRATING", rc |-> "other"]}
        BY <3>2 DEF Headless!Closings
      <4>2. /\ c.state \in {"DELIVERED", "CLOSED", "CONFLICT", "INTEGRATING"}
            /\ c.rc \in {"0", "conflict", "other"}
        BY <4>1
      <4> QED BY <4>2 DEF Journals, Codes
    <3> QED BY <3>1, <3>2
  <2>3. /\ session' \in [Tasks -> Journals] /\ \A s \in Tasks \ {r} : session'[s] = session[s]
    BY <1>1, <2>1, <2>2 DEF HeadlessTypes
  <2> DEFINE l == [task[r] EXCEPT !.at = "closed", !.rc = c.rc]
  <2>4. task[r] \in RunLocals /\ "closed" \in Places
    BY <1>1, LocalsAre DEF Places, Headless!Guarded
  <2>5. /\ l \in RunLocals /\ l.at = "closed" /\ l.cut = task[r].cut
        /\ l.status = task[r].status /\ l.agent = task[r].agent
    BY <2>2, <2>4 DEF RunLocals
  <2>6. task' = [task EXCEPT ![r] = l]
    BY <1>1, <2>1 DEF HeadlessTypes
  <2> HIDE DEF l
  <2> QED BY <1>1, <2>3, <2>5, <2>6, RunIs
<1>3. HeadlessTypes' /\ Aside(r)
  <2>1. HeadlessTypes'
    BY <1>1, <1>2, LocalsAre DEF Headless!Close, HeadlessTypes, Headless!workspace, Forwarders,
       Journals, Headless!HeadlessAssumption
  <2>2. Aside(r)
    BY <1>1, <1>2 DEF Headless!Close, Aside, HeadlessTypes, Headless!workspace
  <2> QED BY <2>1, <2>2
<1>4. RunOK(r)'
  <2>1. Agented(r)'
    BY <1>1, <1>2 DEF Headless!Close, RunOK, Agented, Owes, Headless!At, Headless!Codex,
       HeadlessTypes, Headless!workspace
  <2>2. Serves(r)' /\ Leases(r)'
    BY <1>1, <1>2 DEF Headless!Close, RunOK, Serves, Leases, Owes, Headless!At, Headless!Codex,
       Carrying, HeadlessTypes, Headless!workspace
  <2>3. Stored(r)' /\ Told(r)'
    BY <1>1, <1>2 DEF Headless!Close, RunOK, Stored, Told, Owes, Headless!At, HeadlessTypes,
       Headless!workspace
  <2> QED BY <1>1, <1>2, <2>1, <2>2, <2>3 DEF Headless!Close, RunOK, Headless!Codex, Headless!At,
             Carrying, Headless!workspace
<1> QED BY <1>1, <1>3, <1>4, OneMoves DEF Headless!Close, RunOK, Headless!At, HeadlessInv,
           Headless!workspace

LEMMA ConcludeInv ==
  ASSUME Headless!HeadlessAssumption, HeadlessInv, NEW r \in Tasks, Headless!Conclude(r)
  PROVE  HeadlessInv'
<1>1. HeadlessTypes /\ RunOK(r)
  BY DEF HeadlessInv
<1>2. /\ task' \in [Tasks -> RunLocals] /\ \A s \in Tasks \ {r} : task'[s] = task[s]
      /\ task'[r].agent = task[r].agent /\ task'[r].cut = task[r].cut
      /\ task'[r].at = "settled" /\ task'[r].status \in Results
      /\ session' \in [Tasks -> Journals]
      /\ \A s \in Tasks \ {r} : session'[s] = session[s]
      /\ task'[r].status = "delivered" => session'[r] = "DELIVERED"
      /\ task'[r].status = "no_changes" => session'[r] = "CLOSED"
      /\ message' = IF task'[r].status = "delivered" THEN message ELSE message \ {r}
  <2> DEFINE o(t) == Headless!Outcome(t, task[r].rc)
  <2>1. PICK t \in Headless!After(session[r]) :
          /\ session' = [session EXCEPT ![r] = t] /\ Headless!Settles(r, o(t))
          /\ message' = IF o(t) = "delivered" THEN message ELSE message \ {r}
    BY DEF Headless!Conclude
  <2>2. t \in Journals
    BY <1>1, LocalsAre DEF Headless!After, Journals
  <2>3. /\ session' \in [Tasks -> Journals] /\ \A s \in Tasks \ {r} : session'[s] = session[s]
        /\ session'[r] = t
    BY <1>1, <2>1, <2>2 DEF HeadlessTypes
  <2>4. /\ o(t) \in Results /\ (o(t) = "delivered" => t = "DELIVERED")
        /\ (o(t) = "no_changes" => t = "CLOSED")
    BY DEF Headless!Outcome, Results
  <2> HIDE DEF o
  <2> QED BY <1>1, <2>1, <2>3, <2>4, SettlesIs
<1>3. HeadlessTypes' /\ Aside(r)
  <2>1. HeadlessTypes'
    BY <1>1, <1>2, LocalsAre DEF Headless!Conclude, HeadlessTypes, Headless!workspace, Forwarders,
       Journals, Headless!HeadlessAssumption
  <2>2. Aside(r)
    BY <1>1, <1>2 DEF Headless!Conclude, Aside, HeadlessTypes, Headless!workspace
  <2> QED BY <2>1, <2>2
<1>4. RunOK(r)'
  <2>1. Agented(r)'
    BY <1>1, <1>2 DEF Headless!Conclude, RunOK, Agented, Owes, Headless!At, Headless!Codex,
       HeadlessTypes, Headless!workspace
  <2>2. Serves(r)' /\ Leases(r)'
    BY <1>1, <1>2 DEF Headless!Conclude, RunOK, Serves, Leases, Owes, Headless!At, Headless!Codex,
       Carrying, HeadlessTypes, Headless!workspace
  <2>3. Stored(r)' /\ Told(r)'
    BY <1>1, <1>2 DEF Headless!Conclude, RunOK, Stored, Told, Owes, Headless!At, HeadlessTypes,
       Headless!workspace
  <2> QED BY <1>1, <1>2, <2>1, <2>2, <2>3 DEF Headless!Conclude, RunOK, Headless!Codex, Headless!At,
             Carrying, Headless!workspace
<1> QED BY <1>1, <1>3, <1>4, OneMoves DEF Headless!Conclude, RunOK, Headless!At, HeadlessInv,
           Headless!workspace

-----------------------------------------------------------------------------
(* Signals, and what is undone for them  *)

LEMMA TodoIs ==
  ASSUME NEW r \in Tasks
  PROVE  /\ Headless!Todo(r) \in Seq(Chores)
         /\ task[r].at \in {"forwarder", "session", "close-forwarder"} => Due(Headless!Todo(r), "forwarder")
         /\ Headless!At(r, "wait") => Due(Headless!Todo(r), "group") \/ Due(Headless!Todo(r), "kill")
         /\ task[r].at \in {"check", "agent", "wait", "collect", "finish"} /\ Headless!Codex(r) =>
              \A c \in {"forwarder", "kill", "finish"} : Due(Headless!Todo(r), c)
         /\ task[r].at \in {"record", "closing", "closed"} => Due(Headless!Todo(r), "message")
<1>1. CASE task[r].at \in {"forwarder", "session"}
  <2>1. Headless!Todo(r) = <<"forwarder">>
    BY <1>1 DEF Headless!Todo, Headless!At
  <2> QED BY <1>1, <2>1, DueIs DEF Headless!At
<1>2. CASE Headless!At(r, "wait")
  <2>1. CASE Headless!Codex(r)
    <3>1. Headless!Todo(r) = <<"group">> \o Headless!CodexCleanup
      BY <1>2, <2>1 DEF Headless!Todo, Headless!At
    <3> QED BY <1>2, <3>1, DueIs DEF Headless!At
  <2>2. CASE ~Headless!Codex(r)
    <3>1. Headless!Todo(r) = <<"group">> \o <<"kill">>
      BY <1>2, <2>2 DEF Headless!Todo, Headless!At
    <3> QED BY <1>2, <2>2, <3>1, DueIs DEF Headless!At
  <2> QED BY <2>1, <2>2
<1>3. CASE task[r].at \in {"check", "agent", "collect", "finish"}
  <2>1. CASE Headless!Codex(r)
    <3>1. Headless!Todo(r) = Headless!CodexCleanup
      BY <1>3, <2>1 DEF Headless!Todo, Headless!At
    <3> QED BY <1>3, <3>1, DueIs DEF Headless!At
  <2>2. CASE ~Headless!Codex(r)
    <3>1. Headless!Todo(r) = <<>>
      BY <1>3, <2>2 DEF Headless!Todo, Headless!At
    <3> QED BY <1>3, <2>2, <3>1, DueIs DEF Headless!At
  <2> QED BY <2>1, <2>2
<1>4. CASE task[r].at = "close-forwarder"
  <2>1. Headless!Todo(r) = <<"forwarder">>
    BY <1>4 DEF Headless!Todo, Headless!At
  <2> QED BY <1>4, <2>1, DueIs DEF Headless!At
<1>5. CASE task[r].at \in {"record", "closing", "closed"}
  <2>1. Headless!Todo(r) = <<"message">>
    BY <1>5 DEF Headless!Todo, Headless!At
  <2> QED BY <1>5, <2>1, DueIs DEF Headless!At
<1>6. CASE task[r].at \notin {"forwarder", "session", "wait", "check", "agent", "collect", "finish",
                             "close-forwarder", "record", "closing", "closed"}
  <2>1. Headless!Todo(r) = <<>>
    BY <1>6 DEF Headless!Todo, Headless!At
  <2> QED BY <1>6, <2>1, DueIs DEF Headless!At
<1> QED BY <1>1, <1>2, <1>3, <1>4, <1>5, <1>6 DEF Headless!At

LEMMA SignalInv ==
  ASSUME Headless!HeadlessAssumption, HeadlessInv, NEW r \in Tasks, Headless!Signal(r)
  PROVE  HeadlessInv'
<1>1. HeadlessTypes /\ RunOK(r)
  BY DEF HeadlessInv
<1>2. /\ task' \in [Tasks -> RunLocals] /\ \A s \in Tasks \ {r} : task'[s] = task[s]
      /\ task'[r].agent = task[r].agent /\ task'[r].at = "unwind" /\ task'[r].status = "failed"
      /\ \/ task'[r].cut
         \/ task'[r].cut = task[r].cut /\ task'[r].todo = Headless!Todo(r)
  <2>1. CASE Headless!Unwinds(r, "failed", Headless!Todo(r))
    BY <1>1, <2>1, UnwindsIs, TodoIs DEF Results
  <2>2. CASE task' = [task EXCEPT ![r].at = "unwind", ![r].status = "failed", ![r].cut = TRUE]
    <3> DEFINE l == [task[r] EXCEPT !.at = "unwind", !.status = "failed", !.cut = TRUE]
    <3>1. task[r] \in RunLocals /\ "unwind" \in Places /\ "failed" \in Results
      BY <1>1, LocalsAre DEF Places, Results
    <3>2. l \in RunLocals /\ l.at = "unwind" /\ l.cut /\ l.status = "failed" /\ l.agent = task[r].agent
      BY <3>1 DEF RunLocals
    <3>3. task' = [task EXCEPT ![r] = l]
      BY <1>1, <2>2 DEF HeadlessTypes
    <3> HIDE DEF l
    <3> QED BY <1>1, <3>2, <3>3, RunIs
  <2> QED BY <2>1, <2>2 DEF Headless!Signal
<1>3. session' \in [Tasks -> Journals] /\ \A s \in Tasks \ {r} : session'[s] = session[s]
  <2>1. CASE session' = session
    BY <1>1, <2>1 DEF HeadlessTypes
  <2>2. CASE \E s \in {"ABANDONED", "INTEGRATING", "DELIVERED"} : session' = [session EXCEPT ![r] = s]
    BY <1>1, <2>2 DEF HeadlessTypes, Journals
  <2> QED BY <2>1, <2>2 DEF Headless!Signal
<1>4. HeadlessTypes' /\ Aside(r)
  BY <1>1, <1>2, <1>3 DEF Headless!Signal, HeadlessTypes, Aside
<1>5. /\ UNCHANGED <<lock, results, alive, leased, forwarder, message, temp>>
      /\ task[r].at \in Headless!Guarded
  BY DEF Headless!Signal
<1>6. RunOK(r)'
  <2>1. Agented(r)' /\ Serves(r)' /\ Leases(r)' /\ Stored(r)'
    <3>1. CASE task'[r].cut
      <4>1. Agented(r)'
        BY <1>1, <1>2, <1>5, <3>1 DEF Agented
      <4>2. Serves(r)' /\ Leases(r)' /\ Stored(r)'
        BY <1>1, <1>2, <1>5, <3>1 DEF RunOK, Serves, Leases, Stored, Headless!Codex
      <4> QED BY <4>1, <4>2
    <3>2. CASE task'[r].cut = task[r].cut /\ task'[r].todo = Headless!Todo(r)
      <4>1. \A c \in Chores : Owes(r, c)' <=> Due(Headless!Todo(r), c)
        BY <1>2, <3>2 DEF Owes, Headless!At
      <4>2. ~Headless!At(r, "unwind") /\ \A c \in Chores : ~Owes(r, c)
        BY <1>5 DEF Headless!Guarded, Owes, Headless!At
      <4>3. Agented(r)'
        <5>1. "group" \in alive[r] /\ ~task[r].cut => Headless!At(r, "wait")
          BY <1>1, <1>5, <4>2 DEF RunOK, Agented, Headless!At, Chores, Headless!Guarded
        <5>2. alive[r] # {} /\ Headless!Codex(r) /\ ~task[r].cut => task[r].at \in {"wait", "collect"}
          BY <1>1, <1>5, <4>2 DEF RunOK, Agented, Headless!At, Chores, Headless!Guarded
        <5>3. "group" \in alive'[r] /\ ~task'[r].cut => Owes(r, "group")' \/ Owes(r, "kill")'
          BY <1>5, <3>2, <4>1, <5>1, TodoIs DEF Chores
        <5>4. alive'[r] # {} /\ Headless!Codex(r)' /\ ~task'[r].cut => Owes(r, "kill")'
          BY <1>2, <1>5, <3>2, <4>1, <5>2, TodoIs DEF Chores, Headless!Codex, Headless!At
        <5> QED BY <1>2, <5>3, <5>4 DEF Agented
      <4>4. Serves(r)' /\ Leases(r)'
        BY <1>1, <1>2, <1>5, <3>2, <4>1, <4>2, TodoIs DEF RunOK, Serves, Leases, Headless!Codex,
           Chores, Headless!At, Headless!Guarded
      <4>5. Stored(r)'
        BY <1>1, <1>2, <1>5, <3>2, <4>1, <4>2, TodoIs DEF RunOK, Stored, Chores, Headless!Guarded
      <4> QED BY <4>3, <4>4, <4>5
    <3> QED BY <1>2, <3>1, <3>2
  <2>2. Told(r)'
    BY <1>1, <1>2 DEF Headless!Signal, RunOK, Told, Headless!Guarded
  <2> QED BY <1>1, <1>2, <1>5, <2>1, <2>2 DEF RunOK, Carrying, Headless!Guarded, Headless!At
<1> QED BY <1>1, <1>4, <1>6, OneMoves DEF Headless!Signal, RunOK, Headless!Guarded

LEMMA SignalAgainInv ==
  ASSUME Headless!HeadlessAssumption, HeadlessInv, NEW r \in Tasks, Headless!SignalAgain(r)
  PROVE  HeadlessInv'
<1>1. HeadlessTypes /\ RunOK(r)
  BY DEF HeadlessInv
<1>2. /\ task' \in [Tasks -> RunLocals] /\ \A s \in Tasks \ {r} : task'[s] = task[s]
      /\ task'[r].agent = task[r].agent /\ task'[r].at = "unwind" /\ task'[r].status = "failed"
      /\ task'[r].cut
  <2> DEFINE l == [task[r] EXCEPT !.todo = <<>>, !.cut = TRUE, !.status = "failed"]
  <2>1. task[r] \in RunLocals /\ task[r].at = "unwind" /\ "failed" \in Results /\ <<>> \in Seq(Chores)
    BY <1>1, LocalsAre, DueIs DEF Results, Headless!SignalAgain, Headless!At
  <2>2. l \in RunLocals /\ l.at = "unwind" /\ l.cut /\ l.status = "failed" /\ l.agent = task[r].agent
    BY <2>1 DEF RunLocals
  <2>3. task' = [task EXCEPT ![r] = l]
    BY <1>1 DEF HeadlessTypes, Headless!SignalAgain
  <2> HIDE DEF l
  <2> QED BY <1>1, <2>2, <2>3, RunIs
<1>3. HeadlessTypes' /\ Aside(r)
  BY <1>1, <1>2 DEF Headless!SignalAgain, HeadlessTypes, Aside, Headless!workspace
<1>4. RunOK(r)'
  BY <1>1, <1>2 DEF Headless!SignalAgain, RunOK, Agented, Serves, Leases, Stored, Told,
     Headless!Codex, Headless!At, Carrying, Headless!workspace
<1> QED BY <1>1, <1>3, <1>4, OneMoves DEF Headless!SignalAgain

LEMMA UnwindInv ==
  ASSUME Headless!HeadlessAssumption, HeadlessInv, NEW r \in Tasks, Headless!Unwind(r)
  PROVE  HeadlessInv'
<1>1. HeadlessTypes /\ RunOK(r) /\ Headless!At(r, "unwind")
  BY DEF HeadlessInv, Headless!Unwind
<1>2. CASE task[r].todo = <<>>
  <2>1. Headless!Settles(r, task[r].status) /\ UNCHANGED <<alive, session, leased, forwarder, message>>
    BY <1>2 DEF Headless!Unwind
  <2>2. /\ task' \in [Tasks -> RunLocals] /\ \A s \in Tasks \ {r} : task'[s] = task[s]
        /\ task'[r].agent = task[r].agent /\ task'[r].at = "settled" /\ task'[r].status = task[r].status
        /\ task'[r].cut = task[r].cut
    <3> DEFINE l == [task[r] EXCEPT !.at = "settled", !.status = task[r].status]
    <3>1. task[r] \in RunLocals /\ "settled" \in Places
      BY <1>1, LocalsAre DEF Places
    <3>2. /\ l \in RunLocals /\ l.at = "settled" /\ l.status = task[r].status
          /\ l.cut = task[r].cut /\ l.agent = task[r].agent
      BY <3>1 DEF RunLocals
    <3>3. task' = [task EXCEPT ![r] = l]
      BY <1>1, <2>1 DEF HeadlessTypes, Headless!Settles
    <3> HIDE DEF l
    <3> QED BY <1>1, <3>2, <3>3, RunIs
  <2>3. \A c \in Chores : ~Owes(r, c)
    BY <1>2, DueIs DEF Owes
  <2>4. HeadlessTypes' /\ Aside(r)
    BY <1>1, <2>1, <2>2 DEF Headless!Unwind, HeadlessTypes, Aside
  <2>5. Agented(r)' /\ Serves(r)' /\ Leases(r)'
    BY <1>1, <2>1, <2>2, <2>3 DEF RunOK, Agented, Serves, Leases, Headless!Codex, Headless!At, Chores
  <2>6. Stored(r)' /\ Told(r)'
    BY <1>1, <2>1, <2>2, <2>3 DEF RunOK, Stored, Told, Headless!At, Chores, Headless!Unwind
  <2>7. RunOK(r)'
    BY <1>1, <2>2, <2>5, <2>6 DEF RunOK, Headless!Unwind, Headless!Codex, Carrying, Headless!At
  <2> QED BY <1>1, <2>4, <2>7, OneMoves DEF Headless!Unwind
<1>3. CASE task[r].todo # <<>>
  <2> DEFINE chore == Head(task[r].todo)
  <2>1. /\ task' = [task EXCEPT ![r].todo = Tail(task[r].todo)]
        /\ alive' = CASE chore = "group" -> [alive EXCEPT ![r] = alive[r] \ {"group"}]
                      [] chore = "kill" -> Headless!KillLingering(r)
                      [] OTHER -> alive
        /\ forwarder' = IF chore = "forwarder" THEN [forwarder EXCEPT ![r].up = FALSE] ELSE forwarder
        /\ message' = IF chore = "message" THEN message \ {r} ELSE message
        /\ IF chore = "finish" THEN Headless!Finishes(r) ELSE UNCHANGED <<session, leased>>
    BY <1>1, <1>3 DEF Headless!Unwind, HeadlessTypes
  <2>2. /\ chore \in Chores /\ Tail(task[r].todo) \in Seq(Chores)
        /\ \A c \in Chores : Due(task[r].todo, c) => chore = c \/ Due(Tail(task[r].todo), c)
    BY <1>1, <1>3, LocalsAre, DueTail
  <2> HIDE DEF chore
  <2>3. /\ task' \in [Tasks -> RunLocals] /\ \A s \in Tasks \ {r} : task'[s] = task[s]
        /\ task'[r].agent = task[r].agent /\ task'[r].at = "unwind" /\ task'[r].status = task[r].status
        /\ task'[r].cut = task[r].cut /\ task'[r].todo = Tail(task[r].todo)
    <3> DEFINE l == [task[r] EXCEPT !.todo = Tail(task[r].todo)]
    <3>1. task[r] \in RunLocals /\ task[r].at = "unwind"
      BY <1>1, LocalsAre DEF Headless!At
    <3>2. /\ l \in RunLocals /\ l.at = "unwind" /\ l.cut = task[r].cut /\ l.status = task[r].status
          /\ l.agent = task[r].agent /\ l.todo = Tail(task[r].todo)
      BY <2>2, <3>1 DEF RunLocals
    <3>3. task' = [task EXCEPT ![r] = l]
      BY <1>1, <2>1 DEF HeadlessTypes
    <3> HIDE DEF l
    <3> QED BY <1>1, <3>2, <3>3, RunIs
  <2>4. \A c \in Chores : Owes(r, c) => chore = c \/ Owes(r, c)'
    BY <1>1, <2>2, <2>3 DEF Owes, Headless!At
  <2>5. /\ alive' \in [Tasks -> SUBSET {"group", "stray"}]
        /\ \A s \in Tasks \ {r} : alive'[s] = alive[s]
        /\ alive'[r] \subseteq alive[r] /\ (chore = "kill" => alive'[r] = {})
        /\ (chore = "group" => "group" \notin alive'[r])
    BY <1>1, <2>1 DEF HeadlessTypes, Headless!KillLingering
  <2>6. /\ forwarder' \in [Tasks -> Forwarders] /\ \A s \in Tasks \ {r} : forwarder'[s] = forwarder[s]
        /\ (forwarder'[r].up => forwarder[r].up /\ chore # "forwarder")
        /\ forwarder'[r].exhausted = forwarder[r].exhausted
    <3>1. CASE chore = "forwarder"
      BY <1>1, <2>1, <3>1, ClosesIs
    <3>2. CASE chore # "forwarder"
      BY <1>1, <2>1, <3>2 DEF HeadlessTypes
    <3> QED BY <3>1, <3>2
  <2>7. /\ session' \in [Tasks -> Journals] /\ \A s \in Tasks \ {r} : session'[s] = session[s]
        /\ leased' \subseteq Tasks /\ (r \in leased' => r \in leased /\ chore # "finish")
        /\ \A s \in Tasks \ {r} : s \in leased' <=> s \in leased
    <3>1. CASE chore = "finish"
      BY <1>1, <2>1, <3>1, FinishesIs
    <3>2. CASE chore # "finish"
      BY <1>1, <2>1, <3>2 DEF HeadlessTypes
    <3> QED BY <3>1, <3>2
  <2>8. /\ message' \subseteq Tasks /\ (r \in message' => r \in message /\ chore # "message")
        /\ \A s \in Tasks \ {r} : s \in message' <=> s \in message
    BY <1>1, <2>1 DEF HeadlessTypes
  <2>9. HeadlessTypes' /\ Aside(r)
    <3>1. results' = results /\ temp' = temp
      BY DEF Headless!Unwind
    <3>2. HeadlessTypes'
      BY <1>1, <2>3, <2>5, <2>6, <2>7, <2>8, <3>1 DEF HeadlessTypes
    <3>3. Aside(r)
      BY <2>3, <2>5, <2>6, <2>7, <2>8, <3>1 DEF Aside
    <3> QED BY <3>2, <3>3
  <2>10. Agented(r)'
    BY <1>1, <2>3, <2>4, <2>5 DEF RunOK, Agented, Headless!Codex, Headless!At, Chores
  <2>11. Serves(r)' /\ Leases(r)'
    BY <1>1, <2>3, <2>4, <2>6, <2>7 DEF RunOK, Serves, Leases, Headless!Codex, Headless!At, Chores
  <2>12. Stored(r)' /\ Told(r)'
    BY <1>1, <2>3, <2>4, <2>8 DEF RunOK, Stored, Told, Headless!At, Chores, Headless!Unwind
  <2>13. RunOK(r)'
    BY <1>1, <2>3, <2>10, <2>11, <2>12 DEF RunOK, Headless!Unwind, Headless!Codex, Carrying, Headless!At
  <2> QED BY <1>1, <2>9, <2>13, OneMoves DEF Headless!Unwind
<1> QED BY <1>2, <1>3

LEMMA OtherRunInv == ASSUME Headless!HeadlessAssumption, HeadlessInv, Headless!OtherRun PROVE HeadlessInv'
<1>1. HeadlessTypes'
  BY DEF HeadlessInv, HeadlessTypes, Headless!OtherRun, Headless!workspace
<1>2. ASSUME NEW r \in Tasks PROVE RunOK(r)'
  <2>1. RunOK(r)
    BY DEF HeadlessInv
  <2>2. task[r].at \in {"start", "exit", "dead"}
    BY <2>1 DEF RunOK, Headless!OtherRun, Headless!HeadlessAssumption
  <2> QED BY <2>1, <2>2 DEF RunOK, Agented, Serves, Leases, Stored, Told, Owes, Headless!At,
             Headless!Codex, Headless!OtherRun, Headless!workspace
<1> QED BY <1>1, <1>2 DEF HeadlessInv

-----------------------------------------------------------------------------
(* Theorems *)

LEMMA InitHeadless == ASSUME Headless!HeadlessAssumption, Headless!Init PROVE HeadlessInv
<1>1. Headless!Idle \in RunLocals
  <2>1. "start" \in Places /\ "" \in Codes /\ <<>> \in Seq(Chores)
    BY DEF Places, Codes
  <2> QED BY <2>1 DEF Headless!Idle, RunLocals
<1>2. Headless!NoForwarder \in Forwarders
  <2>1. 0 \in 0..MaxRequests
    BY DEF Headless!HeadlessAssumption
  <2> QED BY <2>1 DEF Headless!NoForwarder, Forwarders
<1>3. HeadlessTypes
  BY <1>1, <1>2 DEF Headless!Init, HeadlessTypes, Journals
<1>4. ASSUME NEW r \in Tasks PROVE RunOK(r)
  <2>1. /\ task[r].at = "start" /\ task[r].agent = "" /\ task[r].status = "" /\ ~forwarder[r].up
        /\ results[r] = "" /\ alive[r] = {} /\ leased = {} /\ message = {} /\ temp = {}
    BY DEF Headless!Init, Headless!Idle, Headless!NoForwarder
  <2> QED BY <2>1 DEF RunOK, Agented, Serves, Leases, Stored, Told, Carrying, Headless!At
<1> QED BY <1>3, <1>4 DEF HeadlessInv

LEMMA StepOfARun ==
  ASSUME Headless!HeadlessAssumption, HeadlessInv, NEW r \in Tasks, Headless!Step(r)
  PROVE  HeadlessInv'
BY LockInv, PreflightInv, StartForwarderInv, OpenSessionInv, CodexPreflightInv, LaunchInv, AnnounceInv,
   StrayInv, RequestInv, AgentEndsInv, CollectInv, FinishInv, CloseForwarderInv, JudgeInv, DeliverInv,
   RecordMessageInv, CloseInv, ConcludeInv, SignalInv, SignalAgainInv, UnwindInv, SettleInv, WriteInv,
   UnlockInv, DiesInv DEF Headless!Step

LEMMA HeadlessAlways == ASSUME Headless!HeadlessAssumption PROVE Headless!Spec => []HeadlessInv
<1>1. HeadlessInv /\ UNCHANGED Headless!vars => HeadlessInv'
  <2> SUFFICES ASSUME HeadlessInv, UNCHANGED Headless!vars PROVE HeadlessInv'
    OBVIOUS
  <2>1. HeadlessTypes'
    BY DEF HeadlessInv, HeadlessTypes, Headless!vars, Headless!workspace
  <2>2. ASSUME NEW r \in Tasks PROVE RunOK(r)'
    BY DEF HeadlessInv, RunOK, Agented, Serves, Leases, Stored, Told, Owes, Headless!At,
       Headless!Codex, Headless!vars, Headless!workspace
  <2> QED BY <2>1, <2>2 DEF HeadlessInv
<1>2. HeadlessInv /\ [Headless!Next]_(Headless!vars) => HeadlessInv'
  BY <1>1, StepOfARun, OtherRunInv DEF Headless!Next
<1> QED BY <1>2, InitHeadless, PTL DEF Headless!Spec

\* Only the run that holds the lock is at work, no more model requests are let through than
\* asked for, and a result file holds a status of the contract (main, admit).
THEOREM HeadlessTyping ==
  ASSUME Headless!HeadlessAssumption
  PROVE Headless!Spec => []Headless!HeadlessTypeOK
<1>1. HeadlessInv => Headless!HeadlessTypeOK
  <2> SUFFICES ASSUME HeadlessInv PROVE Headless!HeadlessTypeOK
    OBVIOUS
  <2>1. ASSUME NEW r \in Tasks
        PROVE  /\ task[r].at \notin {"start", "exit", "dead"} => lock = r
               /\ results[r] \in {"", "delivered", "no_changes", "conflict", "failed", "timeout", "budget",
                                "refused"}
               /\ forwarder[r].requests <= MaxRequests
    <3>1. HeadlessTypes /\ RunOK(r)
      BY DEF HeadlessInv
    <3>2. forwarder[r].requests \in 0..MaxRequests /\ results[r] \in Results \cup {""}
      BY <3>1, LocalsAre DEF Forwarders
    <3>3. forwarder[r].requests <= MaxRequests
      <4>1. ASSUME NEW n \in 0..MaxRequests PROVE n <= MaxRequests
        BY DEF Headless!HeadlessAssumption
      <4>2. forwarder[r].requests \in 0..MaxRequests
        BY <3>2
      <4> QED BY <4>1, <4>2, Zenon
    <3>4. task[r].at \notin {"start", "exit", "dead"} => lock = r
      BY <3>1 DEF RunOK
    <3> QED BY <3>2, <3>3, <3>4 DEF Results
  <2> QED BY <2>1 DEF HeadlessInv, HeadlessTypes, Headless!HeadlessTypeOK
<1> QED BY <1>1, HeadlessAlways, PTL

\* The broker of a run's session works with nothing of the agent alive, however often
\* signals cut the run short (wait_agent, collect, deliver).
THEOREM DeliveryIsQuiet ==
  ASSUME Headless!HeadlessAssumption
  PROVE Headless!Spec => []Headless!QuietDelivery
<1>1. HeadlessInv => Headless!QuietDelivery
  BY DEF HeadlessInv, RunOK, Agented, Headless!QuietDelivery
<1> QED BY <1>1, HeadlessAlways, PTL

\* All that a run promises: a quiet delivery, a result that speaks of the session as it is,
\* and nothing left behind by a run that no signal cut short (main, deliver).
THEOREM HeadlessIsSafe ==
  ASSUME Headless!HeadlessAssumption
  PROVE Headless!Spec => []Headless!HeadlessSafe
<1>1. HeadlessInv => Headless!HonestResult
  BY DEF HeadlessInv, RunOK, Stored, Told, Headless!HonestResult, Owes, Headless!At
<1>2. HeadlessInv => Headless!CleanResult
  BY DEF HeadlessInv, HeadlessTypes, RunOK, Told, Agented, Serves, Leases, Stored,
     Headless!CleanResult, Owes, Headless!At, Headless!Codex
<1> QED BY <1>1, <1>2, HeadlessAlways, DeliveryIsQuiet, PTL DEF Headless!HeadlessSafe

-----------------------------------------------------------------------------
(***************************************************************************)
(* CanonicalBootstrap, with any number of replaced authorities: the engine *)
(* works on an answer given for the "once" while nothing stood against it, *)
(* the receipt is true, a transaction is not cut short, and the lease      *)
(* covers the native.                                                      *)
(*                                                                         *)
(* The argument: the answers on their way were given for questions that    *)
(* were asked, and one that lets the engine work was counted when the      *)
(* parent took the question (Earned); what is held of the code is what was *)
(* admitted from the first question on (Matched), so that the parent need  *)
(* not compare with what it admitted; and from the question that tells the *)
(* outcome on (Spoken) nothing of it changes.  The parent and the machine  *)
(* leave alone what this rests on (BesideKeeps), and a step of the         *)
(* extension either asks (AskKeeps) or not (MoveKeeps).                    *)
(***************************************************************************)
CONSTANT MaxReplaced
VARIABLES
  parent, native, asked, up, down, sequence, judging, bound, held, pinned, version, replaced,
  changed, cancelled, expired, lifeline, term, aborted, decision, effect, result, clean, final, lease,
  receipt, exit, granted, cut
Bootstrap == INSTANCE CanonicalBootstrap WITH alive <- lifeline

Early == {"start", "dispatched", "sourced", "admitted"}
Parents == Early \cup {"loop", "answer", "settle", "draining", "report", "raised", "ending", "last",
                       "done", "dead"}
Afters == {"bound", "import", "prepare", "approve", "apply", "dispose", "closing"}
Natives == Bootstrap!Awaits \cup {"none", "gone", "bound", "asking", "result", "closing", "killed"}
Ended == {"gone", "killed"}
Decisions == {None, "once", "deny", "cancelled"}
PublicResults == Bootstrap!Statuses \cup {None}
Endings == [decision : Decisions, clean : BOOLEAN, result : PublicResults]
Messages == [type : {"BIND", "CHECK", "RESULT"}, seq : Nat, extra : Endings \cup {None}]
Replies == [seq : Nat, ok : BOOLEAN]

\* What the actions only compare.
BootTypes ==
  /\ parent \in Parents /\ native \in Natives
  /\ asked \in [after : Afters \cup {None}, seq : Nat]
  /\ sequence \in Nat /\ sequence <= asked.seq /\ granted \subseteq 1..asked.seq
  /\ held \in [Bootstrap!Authorities -> Nat] /\ pinned \in [Bootstrap!Authorities -> Nat]
  /\ version \in [Bootstrap!Authorities -> Nat]
  /\ bound \in BOOLEAN /\ clean \in BOOLEAN /\ decision \in Decisions /\ effect \in {"none", "applied"}
  /\ result \in PublicResults /\ receipt \in PublicResults \cup {"unknown"}
  /\ exit \in {None, "stopped", "done", "failed", "unknown", "interrupted"}

\* What a RESULT tells.
Outcome == [decision |-> decision, clean |-> clean, result |-> result]

\* The engine's question is asked and not answered; and what a RESULT tells cannot
\* change any more.
Pending == native = "asking" /\ asked.after = "apply"
Spoken == native \in {"closing", "gone", "killed"} \/ (native = "asking" /\ asked.after = "closing")

\* A question on its way, or with the parent.
Fits(m) ==
  /\ m.seq <= asked.seq
  /\ (m.seq = asked.seq /\ Pending) => m.type = "CHECK"
  /\ m.type = "RESULT" => (Spoken /\ m.extra = Outcome)

\* An answer on its way that lets the engine work was given for the "once".
Earned(r) ==
  /\ r.seq <= sequence
  /\ (r.ok /\ r.seq = asked.seq /\ Pending) => asked.seq \in granted

Questions == {m \in Messages : Fits(m)}
Answers == {r \in Replies : Earned(r)}

Mail ==
  /\ up \in Seq(Questions) /\ down \in Seq(Answers)
  /\ parent = "answer" =>
       /\ judging \in [message : Questions, ok : BOOLEAN]
       /\ [seq |-> sequence, ok |-> judging.ok] \in Answers
  /\ final # None => (Spoken /\ final = Outcome)

\* Of the code, what is held is what was admitted, from the first question on.
Matched ==
  \A x \in {"trees", "current"} :
    /\ pinned[x] <= version[x] /\ held[x] <= version[x]
    /\ native # "none" => pinned[x] <= held[x]
    /\ native \notin {"none", "boot", "gone", "killed"} => held[x] = pinned[x]

\* Where the extension is, and what has become of the repository.
Written ==
  /\ native = "asking" => asked.after # None
  /\ (Pending \/ native = "apply") => decision = "once"
  /\ native = "apply" => asked.seq \in granted
  /\ effect = "applied" => decision = "once"
  /\ effect = "applied" =>
       ((native \in {"apply", "dispose", "result"} /\ asked.seq \in granted) \/ Spoken)
  /\ result # None => (native \in {"dispose", "result"} \/ Spoken)
  /\ result = "updated" => effect = "applied"
  /\ result = "not_applied" => effect = "none"
  /\ granted # {} => bound

\* Where the parent is, and what it has said.
Carries ==
  /\ parent \in Early => (native = "none" /\ ~lifeline)
  /\ native = "none" => parent \in Early \cup {"done"}
  /\ receipt \notin {None, "unknown"} => Spoken
  /\ exit = "done" => Spoken
  /\ exit = "stopped" => (parent = "done" /\ native = "none")

BootInv ==
  /\ BootTypes /\ Mail /\ Matched /\ Written /\ Carries
  /\ Bootstrap!OnlyGranted /\ Bootstrap!Honest /\ Bootstrap!NotCut /\ Bootstrap!LeaseCovers

-----------------------------------------------------------------------------
LEMMA Markers ==
  ASSUME Bootstrap!BootstrapAssumption
  PROVE  /\ None \notin Bootstrap!Statuses
         /\ None # "once" /\ None # "deny" /\ None # "cancelled" /\ None # "unknown"
         /\ None # "stopped" /\ None # "done" /\ None # "failed" /\ None # "interrupted"
         /\ \A a \in Afters : None # a
  BY DEF Bootstrap!BootstrapAssumption, Bootstrap!Awaits, Afters

LEMMA TypeFacts ==
  ASSUME BootTypes
  PROVE  /\ asked.seq \in Nat /\ asked.after \in Afters \cup {None}
         /\ \A x \in Bootstrap!Authorities : held[x] \in Nat /\ pinned[x] \in Nat /\ version[x] \in Nat
         /\ asked = [after |-> asked.after, seq |-> asked.seq]
  BY DEF BootTypes

\* What the extension asked, and what was answered, outlasts a step of another.
LEMMA OthersKeep ==
  ASSUME BootInv,
         asked' = asked, decision' = decision, effect' = effect, result' = result, clean' = clean,
         native' = native \/ native' \in Ended \/ (native = "none" /\ native' = "boot"),
         granted \subseteq granted', sequence' \in Nat, sequence <= sequence'
  PROVE  /\ Spoken => Spoken'
         /\ Pending' => Pending
         /\ \A m \in Messages : Fits(m) => Fits(m)'
         /\ \A r \in Replies : Earned(r) => Earned(r)'
         /\ Questions \subseteq Questions' /\ Answers \subseteq Answers'
         /\ Outcome' = Outcome
<1>1. (Spoken => Spoken') /\ (Pending' => Pending) /\ Outcome' = Outcome
  BY DEF Spoken, Pending, Outcome, Ended
<1>2. \A m \in Messages : Fits(m) => Fits(m)'
  BY <1>1 DEF Fits
<1>3. sequence \in Nat
  BY DEF BootInv, BootTypes
<1>4. \A r \in Replies : Earned(r) => Earned(r)'
  BY <1>1, <1>3 DEF Earned, Replies
<1> QED
  BY <1>1, <1>2, <1>4 DEF Questions, Answers

LEMMA OthersLeaveWorks ==
  ASSUME BootInv,
         asked' = asked, decision' = decision, effect' = effect, result' = result, clean' = clean,
         native' = native \/ native' \in Ended \/ (native = "none" /\ native' = "boot"),
         granted \subseteq granted', granted' # {} => bound'
  PROVE  Written' /\ Bootstrap!OnlyGranted'
<1>1. CASE native' = native
  <2>1. Written'
    BY <1>1 DEF BootInv, Written, Spoken, Pending
  <2>2. Bootstrap!OnlyGranted'
    BY <1>1 DEF BootInv, Bootstrap!OnlyGranted
  <2> QED
    BY <2>1, <2>2
<1>2. CASE native' \in Ended
  <2>1. Written'
    BY <1>2 DEF BootInv, Written, Spoken, Pending, Ended
  <2>2. Bootstrap!OnlyGranted'
    BY <1>2 DEF BootInv, Bootstrap!OnlyGranted, Ended
  <2> QED
    BY <2>1, <2>2
<1>3. CASE native = "none" /\ native' = "boot"
  <2>1. Written'
    BY <1>3 DEF BootInv, Written, Spoken, Pending
  <2>2. Bootstrap!OnlyGranted'
    BY <1>3 DEF BootInv, Bootstrap!OnlyGranted
  <2> QED
    BY <2>1, <2>2
<1> QED
  BY <1>1, <1>2, <1>3

\* The mail of a step that neither takes nor sends.
LEMMA MailStays ==
  ASSUME BootInv,
         asked' = asked, decision' = decision, effect' = effect, result' = result, clean' = clean,
         native' = native \/ native' \in Ended \/ (native = "none" /\ native' = "boot"),
         granted' = granted, sequence' = sequence, judging' = judging,
         up' = up, down' = down, final' = final, parent' = "answer" => parent = "answer"
  PROVE  Mail'
<1>1. sequence \in Nat
  BY DEF BootInv, BootTypes
<1>2. /\ Questions \subseteq Questions' /\ Answers \subseteq Answers' /\ Outcome' = Outcome
      /\ (Spoken => Spoken')
  BY <1>1, OthersKeep
<1>3. up' \in Seq(Questions') /\ down' \in Seq(Answers')
  BY <1>2, SeqMonotonic DEF BootInv, Mail
<1>4. parent' = "answer" =>
        /\ judging' \in [message : Questions', ok : BOOLEAN]
        /\ [seq |-> sequence', ok |-> judging'.ok] \in Answers'
  <2> SUFFICES ASSUME parent' = "answer"
               PROVE  judging' \in [message : Questions', ok : BOOLEAN]
                      /\ [seq |-> sequence', ok |-> judging'.ok] \in Answers'
    OBVIOUS
  <2>1. /\ judging \in [message : Questions, ok : BOOLEAN]
        /\ [seq |-> sequence, ok |-> judging.ok] \in Answers
    BY DEF BootInv, Mail
  <2>2. judging \in [message : Questions', ok : BOOLEAN]
    BY <2>1, <1>2
  <2> QED
    BY <2>1, <2>2, <1>2
<1>5. final' # None => (Spoken' /\ final' = Outcome')
  BY <1>2 DEF BootInv, Mail
<1> QED
  BY <1>3, <1>4, <1>5 DEF Mail

\* What is held of the code, for a step that holds nothing.
LEMMA MatchedStays ==
  ASSUME BootInv, held' = held, pinned' = pinned, version' = version,
         native' = native \/ (native # "none" /\ native' \in Ended)
  PROVE  Matched'
<1>1. CASE native' = native
  BY <1>1 DEF BootInv, Matched
<1>2. CASE native # "none" /\ native' \in Ended
  BY <1>2 DEF BootInv, Matched, Ended
<1> QED
  BY <1>1, <1>2

\* An engine at work has its session bound, and nothing was told.
LEMMA AtWork ==
  ASSUME BootInv, native = "apply"
  PROVE  bound /\ final = None
<1>1. asked.seq \in granted /\ bound
  BY DEF BootInv, Written
<1>2. final = None
  BY DEF BootInv, Mail, Spoken
<1> QED
  BY <1>1, <1>2

\* What a step beside the two that talk leaves alone.
Beside == UNCHANGED <<asked, decision, effect, result, clean, granted, sequence, judging, up, down,
                      final, bound>>

LEMMA BesideKeeps ==
  ASSUME BootInv, Beside, parent' = "answer" => parent = "answer",
         native' = native \/ native' \in Ended \/ (native = "none" /\ native' = "boot")
  PROVE  Mail' /\ Written' /\ Bootstrap!OnlyGranted' /\ (Spoken => Spoken')
<1>1. /\ asked' = asked /\ decision' = decision /\ effect' = effect /\ result' = result
      /\ clean' = clean
      /\ granted' = granted /\ sequence' = sequence /\ judging' = judging /\ up' = up /\ down' = down
      /\ final' = final /\ bound' = bound
  BY DEF Beside
<1>2. granted # {} => bound
  BY DEF BootInv, Written
<1>3. Mail'
  BY <1>1, MailStays
<1>4. Written' /\ Bootstrap!OnlyGranted'
  BY <1>1, <1>2, OthersLeaveWorks
<1>5. Spoken => Spoken'
  BY <1>1 DEF Spoken, Ended
<1> QED
  BY <1>3, <1>4, <1>5

LEMMA CancelKeeps ==
  ASSUME Bootstrap!BootstrapAssumption, BootInv, Bootstrap!Cancel
  PROVE  BootInv'
<1>1. Beside /\ held' = held /\ pinned' = pinned /\ version' = version
  BY DEF Beside, Bootstrap!Cancel, Bootstrap!extension, Bootstrap!carrier, Bootstrap!world,
     Bootstrap!Cancels,
     Bootstrap!Signals, Bootstrap!Same, Ended
<1>2. native' = native
  BY DEF Bootstrap!Cancel, Bootstrap!extension, Bootstrap!carrier, Bootstrap!world, Bootstrap!Cancels,
     BootInv, Carries, Bootstrap!Running, Early, Parents, BootTypes,
     Bootstrap!Signals, Bootstrap!Same, Ended
<1>3. Mail' /\ Written' /\ Bootstrap!OnlyGranted' /\ (Spoken => Spoken')
  BY <1>1, <1>2, BesideKeeps DEF Bootstrap!Cancel, Early,
     Bootstrap!Signals, Bootstrap!Same, Ended
<1>4. Matched'
  BY <1>1, <1>2, MatchedStays
<1>5. BootTypes'
  BY <1>1, <1>2, Markers DEF BootInv, BootTypes, Beside, Bootstrap!Cancel, Bootstrap!extension,
     Bootstrap!carrier, Bootstrap!world, Bootstrap!Cancels, Parents, Natives, Bootstrap!Awaits,
     PublicResults,
     Bootstrap!Signals, Bootstrap!Same, Ended
<1>6. Carries'
  BY <1>1, <1>2, <1>3, Markers DEF BootInv, Carries, Bootstrap!Cancel, Bootstrap!extension,
     Bootstrap!carrier, Bootstrap!world, Bootstrap!Cancels, Early, Parents,
     Bootstrap!Signals, Bootstrap!Same, Ended
<1>7. Bootstrap!NotCut'
  BY AtWork DEF BootInv, Bootstrap!NotCut, Bootstrap!Signals, Bootstrap!Cancel, Bootstrap!extension,
     Bootstrap!carrier, Bootstrap!world, Bootstrap!Cancels,
     Bootstrap!Signals, Bootstrap!Same, Ended
<1>8. Bootstrap!LeaseCovers'
  BY <1>1, <1>2 DEF BootInv, Bootstrap!LeaseCovers, Bootstrap!Running, Carries, Early,
     Bootstrap!Cancel, Bootstrap!extension, Bootstrap!carrier, Bootstrap!world, Bootstrap!Cancels,
     Bootstrap!Signals, Bootstrap!Same, Ended
<1>9. Bootstrap!Honest'
  BY <1>1, <1>2, <1>3, Markers DEF BootInv, Bootstrap!Honest, Carries, Spoken, Beside,
     Bootstrap!Cancel, Bootstrap!extension, Bootstrap!carrier, Bootstrap!world, Bootstrap!Cancels,
     Bootstrap!Signals, Bootstrap!Same, Ended
<1> QED
  BY <1>3, <1>4, <1>5, <1>6, <1>7, <1>8, <1>9 DEF BootInv

LEMMA LoopEndsKeeps ==
  ASSUME Bootstrap!BootstrapAssumption, BootInv, Bootstrap!LoopEnds
  PROVE  BootInv'
<1>1. Beside /\ held' = held /\ pinned' = pinned /\ version' = version
  BY DEF Beside, Bootstrap!LoopEnds, Bootstrap!extension, Bootstrap!carrier, Bootstrap!world,
     Bootstrap!Running,
     Bootstrap!Same, Ended
<1>2. native' = native
  BY DEF Bootstrap!LoopEnds, Bootstrap!extension, Bootstrap!carrier, Bootstrap!world,
     Bootstrap!Running, BootInv, Carries, Bootstrap!Running, Early, Parents, BootTypes,
     Bootstrap!Same, Ended
<1>3. Mail' /\ Written' /\ Bootstrap!OnlyGranted' /\ (Spoken => Spoken')
  BY <1>1, <1>2, BesideKeeps DEF Bootstrap!LoopEnds, Early,
     Bootstrap!Same, Ended
<1>4. Matched'
  BY <1>1, <1>2, MatchedStays
<1>5. BootTypes'
  BY <1>1, <1>2, Markers DEF BootInv, BootTypes, Beside, Bootstrap!LoopEnds, Bootstrap!extension,
     Bootstrap!carrier, Bootstrap!world, Bootstrap!Running, Parents, Natives, Bootstrap!Awaits,
     PublicResults,
     Bootstrap!Same, Ended
<1>6. Carries'
  BY <1>1, <1>2, <1>3, Markers DEF BootInv, Carries, Bootstrap!LoopEnds, Bootstrap!extension,
     Bootstrap!carrier, Bootstrap!world, Bootstrap!Running, Early, Parents,
     Bootstrap!Same, Ended
<1>7. Bootstrap!NotCut'
  BY AtWork DEF BootInv, Bootstrap!NotCut, Bootstrap!Signals, Bootstrap!LoopEnds, Bootstrap!extension,
     Bootstrap!carrier, Bootstrap!world, Bootstrap!Running,
     Bootstrap!Same, Ended
<1>8. Bootstrap!LeaseCovers'
  BY <1>1, <1>2 DEF BootInv, Bootstrap!LeaseCovers, Bootstrap!Running, Carries, Early,
     Bootstrap!LoopEnds, Bootstrap!extension, Bootstrap!carrier, Bootstrap!world, Bootstrap!Running,
     Bootstrap!Same, Ended
<1>9. Bootstrap!Honest'
  BY <1>1, <1>2, <1>3, Markers DEF BootInv, Bootstrap!Honest, Carries, Spoken, Beside,
     Bootstrap!LoopEnds, Bootstrap!extension, Bootstrap!carrier, Bootstrap!world, Bootstrap!Running,
     Bootstrap!Same, Ended
<1> QED
  BY <1>3, <1>4, <1>5, <1>6, <1>7, <1>8, <1>9 DEF BootInv

LEMMA SettleKeeps ==
  ASSUME Bootstrap!BootstrapAssumption, BootInv, Bootstrap!Settle
  PROVE  BootInv'
<1>1. Beside /\ held' = held /\ pinned' = pinned /\ version' = version
  BY DEF Beside, Bootstrap!Settle, Bootstrap!extension, Bootstrap!carrier, Bootstrap!world,
     Bootstrap!Running,
     Bootstrap!Signals, Bootstrap!Same, Ended
<1>2. native' = native
  BY DEF Bootstrap!Settle, Bootstrap!extension, Bootstrap!carrier, Bootstrap!world, Bootstrap!Running,
     BootInv, Carries, Bootstrap!Running, Early, Parents, BootTypes,
     Bootstrap!Signals, Bootstrap!Same, Ended
<1>3. Mail' /\ Written' /\ Bootstrap!OnlyGranted' /\ (Spoken => Spoken')
  BY <1>1, <1>2, BesideKeeps DEF Bootstrap!Settle, Early,
     Bootstrap!Signals, Bootstrap!Same, Ended
<1>4. Matched'
  BY <1>1, <1>2, MatchedStays
<1>5. BootTypes'
  BY <1>1, <1>2, Markers DEF BootInv, BootTypes, Beside, Bootstrap!Settle, Bootstrap!extension,
     Bootstrap!carrier, Bootstrap!world, Bootstrap!Running, Parents, Natives, Bootstrap!Awaits,
     PublicResults,
     Bootstrap!Signals, Bootstrap!Same, Ended
<1>6. Carries'
  BY <1>1, <1>2, <1>3, Markers DEF BootInv, Carries, Bootstrap!Settle, Bootstrap!extension,
     Bootstrap!carrier, Bootstrap!world, Bootstrap!Running, Early, Parents,
     Bootstrap!Signals, Bootstrap!Same, Ended
<1>7. Bootstrap!NotCut'
  BY AtWork DEF BootInv, Bootstrap!NotCut, Bootstrap!Signals, Bootstrap!Settle, Bootstrap!extension,
     Bootstrap!carrier, Bootstrap!world, Bootstrap!Running,
     Bootstrap!Signals, Bootstrap!Same, Ended
<1>8. Bootstrap!LeaseCovers'
  BY <1>1, <1>2 DEF BootInv, Bootstrap!LeaseCovers, Bootstrap!Running, Carries, Early,
     Bootstrap!Settle, Bootstrap!extension, Bootstrap!carrier, Bootstrap!world, Bootstrap!Running,
     Bootstrap!Signals, Bootstrap!Same, Ended
<1>9. Bootstrap!Honest'
  BY <1>1, <1>2, <1>3, Markers DEF BootInv, Bootstrap!Honest, Carries, Spoken, Beside,
     Bootstrap!Settle, Bootstrap!extension, Bootstrap!carrier, Bootstrap!world, Bootstrap!Running,
     Bootstrap!Signals, Bootstrap!Same, Ended
<1> QED
  BY <1>3, <1>4, <1>5, <1>6, <1>7, <1>8, <1>9 DEF BootInv

LEMMA DrainKeeps ==
  ASSUME Bootstrap!BootstrapAssumption, BootInv, Bootstrap!Drain
  PROVE  BootInv'
<1>1. Beside /\ held' = held /\ pinned' = pinned /\ version' = version
  BY DEF Beside, Bootstrap!Drain, Bootstrap!extension, Bootstrap!carrier, Bootstrap!world,
     Bootstrap!Running,
     Bootstrap!Same, Bootstrap!Kills, Ended
<1>2. native' = native \/ (native # "none" /\ native' \in Ended)
  BY DEF Bootstrap!Drain, Bootstrap!extension, Bootstrap!carrier, Bootstrap!world, Bootstrap!Running,
     BootInv, Carries, Bootstrap!Running, Early, Parents, BootTypes,
     Bootstrap!Same, Bootstrap!Kills, Ended
<1>3. Mail' /\ Written' /\ Bootstrap!OnlyGranted' /\ (Spoken => Spoken')
  BY <1>1, <1>2, BesideKeeps DEF Bootstrap!Drain, Early,
     Bootstrap!Same, Bootstrap!Kills, Ended
<1>4. Matched'
  BY <1>1, <1>2, MatchedStays
<1>5. BootTypes'
  BY <1>1, <1>2, Markers DEF BootInv, BootTypes, Beside, Bootstrap!Drain, Bootstrap!extension,
     Bootstrap!carrier, Bootstrap!world, Bootstrap!Running, Parents, Natives, Bootstrap!Awaits,
     PublicResults,
     Bootstrap!Same, Bootstrap!Kills, Ended
<1>6. Carries'
  BY <1>1, <1>2, <1>3, Markers DEF BootInv, Carries, Bootstrap!Drain, Bootstrap!extension,
     Bootstrap!carrier, Bootstrap!world, Bootstrap!Running, Early, Parents,
     Bootstrap!Same, Bootstrap!Kills, Ended
<1>7. Bootstrap!NotCut'
  BY AtWork DEF BootInv, Bootstrap!NotCut, Bootstrap!Signals, Bootstrap!Drain, Bootstrap!extension,
     Bootstrap!carrier, Bootstrap!world, Bootstrap!Running,
     Bootstrap!Same, Bootstrap!Kills, Ended
<1>8. Bootstrap!LeaseCovers'
  BY <1>1, <1>2 DEF BootInv, Bootstrap!LeaseCovers, Bootstrap!Running, Carries, Early,
     Bootstrap!Drain, Bootstrap!extension, Bootstrap!carrier, Bootstrap!world, Bootstrap!Running,
     Bootstrap!Same, Bootstrap!Kills, Ended
<1>9. Bootstrap!Honest'
  BY <1>1, <1>2, <1>3, Markers DEF BootInv, Bootstrap!Honest, Carries, Spoken, Beside,
     Bootstrap!Drain, Bootstrap!extension, Bootstrap!carrier, Bootstrap!world, Bootstrap!Running,
     Bootstrap!Same, Bootstrap!Kills, Ended
<1> QED
  BY <1>3, <1>4, <1>5, <1>6, <1>7, <1>8, <1>9 DEF BootInv

LEMMA InterruptKeeps ==
  ASSUME Bootstrap!BootstrapAssumption, BootInv, Bootstrap!Interrupt
  PROVE  BootInv'
<1>1. Beside /\ held' = held /\ pinned' = pinned /\ version' = version
  BY DEF Beside, Bootstrap!Interrupt, Bootstrap!extension, Bootstrap!carrier, Bootstrap!world
<1>2. native' = native
  BY DEF Bootstrap!Interrupt, Bootstrap!extension, Bootstrap!carrier, Bootstrap!world, BootInv,
     Carries, Bootstrap!Running, Early, Parents, BootTypes
<1>3. Mail' /\ Written' /\ Bootstrap!OnlyGranted' /\ (Spoken => Spoken')
  BY <1>1, <1>2, BesideKeeps DEF Bootstrap!Interrupt, Early
<1>4. Matched'
  BY <1>1, <1>2, MatchedStays
<1>5. BootTypes'
  BY <1>1, <1>2, Markers DEF BootInv, BootTypes, Beside, Bootstrap!Interrupt, Bootstrap!extension,
     Bootstrap!carrier, Bootstrap!world, Parents, Natives, Bootstrap!Awaits, PublicResults
<1>6. Carries'
  BY <1>1, <1>2, <1>3, Markers DEF BootInv, Carries, Bootstrap!Interrupt, Bootstrap!extension,
     Bootstrap!carrier, Bootstrap!world, Early, Parents
<1>7. Bootstrap!NotCut'
  BY AtWork DEF BootInv, Bootstrap!NotCut, Bootstrap!Signals, Bootstrap!Interrupt,
     Bootstrap!extension, Bootstrap!carrier, Bootstrap!world
<1>8. Bootstrap!LeaseCovers'
  BY <1>1, <1>2 DEF BootInv, Bootstrap!LeaseCovers, Bootstrap!Running, Carries, Early,
     Bootstrap!Interrupt, Bootstrap!extension, Bootstrap!carrier, Bootstrap!world
<1>9. Bootstrap!Honest'
  BY <1>1, <1>2, <1>3, Markers DEF BootInv, Bootstrap!Honest, Carries, Spoken, Beside,
     Bootstrap!Interrupt, Bootstrap!extension, Bootstrap!carrier, Bootstrap!world
<1> QED
  BY <1>3, <1>4, <1>5, <1>6, <1>7, <1>8, <1>9 DEF BootInv

LEMMA FinallyKeeps ==
  ASSUME Bootstrap!BootstrapAssumption, BootInv, Bootstrap!Finally
  PROVE  BootInv'
<1>1. Beside /\ held' = held /\ pinned' = pinned /\ version' = version
  BY DEF Beside, Bootstrap!Finally, Bootstrap!extension, Bootstrap!carrier, Bootstrap!world,
     Bootstrap!Ending, Bootstrap!Running,
     Bootstrap!Same, Ended
<1>2. native' = native
  BY DEF Bootstrap!Finally, Bootstrap!extension, Bootstrap!carrier, Bootstrap!world, Bootstrap!Ending,
     Bootstrap!Running, BootInv, Carries, Bootstrap!Running, Early, Parents, BootTypes,
     Bootstrap!Same, Ended
<1>3. Mail' /\ Written' /\ Bootstrap!OnlyGranted' /\ (Spoken => Spoken')
  BY <1>1, <1>2, BesideKeeps DEF Bootstrap!Finally, Early,
     Bootstrap!Same, Ended
<1>4. Matched'
  BY <1>1, <1>2, MatchedStays
<1>5. BootTypes'
  BY <1>1, <1>2, Markers DEF BootInv, BootTypes, Beside, Bootstrap!Finally, Bootstrap!extension,
     Bootstrap!carrier, Bootstrap!world, Bootstrap!Ending, Bootstrap!Running, Parents, Natives,
     Bootstrap!Awaits, PublicResults,
     Bootstrap!Same, Ended
<1>6. Carries'
  BY <1>1, <1>2, <1>3, Markers DEF BootInv, Carries, Bootstrap!Finally, Bootstrap!extension,
     Bootstrap!carrier, Bootstrap!world, Bootstrap!Ending, Bootstrap!Running, Early, Parents,
     Bootstrap!Same, Ended
<1>7. Bootstrap!NotCut'
  BY AtWork DEF BootInv, Bootstrap!NotCut, Bootstrap!Signals, Bootstrap!Finally, Bootstrap!extension,
     Bootstrap!carrier, Bootstrap!world, Bootstrap!Ending, Bootstrap!Running,
     Bootstrap!Same, Ended
<1>8. Bootstrap!LeaseCovers'
  BY <1>1, <1>2 DEF BootInv, Bootstrap!LeaseCovers, Bootstrap!Running, Carries, Early,
     Bootstrap!Finally, Bootstrap!extension, Bootstrap!carrier, Bootstrap!world, Bootstrap!Ending,
     Bootstrap!Running,
     Bootstrap!Same, Ended
<1>9. Bootstrap!Honest'
  BY <1>1, <1>2, <1>3, Markers DEF BootInv, Bootstrap!Honest, Carries, Spoken, Beside,
     Bootstrap!Finally, Bootstrap!extension, Bootstrap!carrier, Bootstrap!world, Bootstrap!Ending,
     Bootstrap!Running,
     Bootstrap!Same, Ended
<1> QED
  BY <1>3, <1>4, <1>5, <1>6, <1>7, <1>8, <1>9 DEF BootInv

LEMMA ReleaseKeeps ==
  ASSUME Bootstrap!BootstrapAssumption, BootInv, Bootstrap!Release
  PROVE  BootInv'
<1>1. Beside /\ held' = held /\ pinned' = pinned /\ version' = version
  BY DEF Beside, Bootstrap!Release, Bootstrap!extension, Bootstrap!carrier, Bootstrap!world,
     Bootstrap!Ending, Bootstrap!Running,
     Bootstrap!Same, Bootstrap!Kills, Ended
<1>2. native' = native \/ (native # "none" /\ native' \in Ended)
  BY DEF Bootstrap!Release, Bootstrap!extension, Bootstrap!carrier, Bootstrap!world, Bootstrap!Ending,
     Bootstrap!Running, BootInv, Carries, Bootstrap!Running, Early, Parents, BootTypes,
     Bootstrap!Same, Bootstrap!Kills, Ended
<1>3. Mail' /\ Written' /\ Bootstrap!OnlyGranted' /\ (Spoken => Spoken')
  BY <1>1, <1>2, BesideKeeps DEF Bootstrap!Release, Early,
     Bootstrap!Same, Bootstrap!Kills, Ended
<1>4. Matched'
  BY <1>1, <1>2, MatchedStays
<1>5. BootTypes'
  BY <1>1, <1>2, Markers DEF BootInv, BootTypes, Beside, Bootstrap!Release, Bootstrap!extension,
     Bootstrap!carrier, Bootstrap!world, Bootstrap!Ending, Bootstrap!Running, Parents, Natives,
     Bootstrap!Awaits, PublicResults,
     Bootstrap!Same, Bootstrap!Kills, Ended
<1>6. Carries'
  BY <1>1, <1>2, <1>3, Markers DEF BootInv, Carries, Bootstrap!Release, Bootstrap!extension,
     Bootstrap!carrier, Bootstrap!world, Bootstrap!Ending, Bootstrap!Running, Early, Parents,
     Bootstrap!Same, Bootstrap!Kills, Ended
<1>7. Bootstrap!NotCut'
  BY AtWork DEF BootInv, Bootstrap!NotCut, Bootstrap!Signals, Bootstrap!Release, Bootstrap!extension,
     Bootstrap!carrier, Bootstrap!world, Bootstrap!Ending, Bootstrap!Running,
     Bootstrap!Same, Bootstrap!Kills, Ended
<1>8. Bootstrap!LeaseCovers'
  BY <1>1, <1>2 DEF BootInv, Bootstrap!LeaseCovers, Bootstrap!Running, Carries, Early,
     Bootstrap!Release, Bootstrap!extension, Bootstrap!carrier, Bootstrap!world, Bootstrap!Ending,
     Bootstrap!Running,
     Bootstrap!Same, Bootstrap!Kills, Ended
<1>9. Bootstrap!Honest'
  BY <1>1, <1>2, <1>3, Markers DEF BootInv, Bootstrap!Honest, Carries, Spoken, Beside,
     Bootstrap!Release, Bootstrap!extension, Bootstrap!carrier, Bootstrap!world, Bootstrap!Ending,
     Bootstrap!Running,
     Bootstrap!Same, Bootstrap!Kills, Ended
<1> QED
  BY <1>3, <1>4, <1>5, <1>6, <1>7, <1>8, <1>9 DEF BootInv

LEMMA CarrierDiesKeeps ==
  ASSUME Bootstrap!BootstrapAssumption, BootInv, Bootstrap!CarrierDies
  PROVE  BootInv'
<1>1. Beside /\ held' = held /\ pinned' = pinned /\ version' = version
  BY DEF Beside, Bootstrap!CarrierDies, Bootstrap!extension, Bootstrap!carrier, Bootstrap!world
<1>2. native' = native
  BY DEF Bootstrap!CarrierDies, Bootstrap!extension, Bootstrap!carrier, Bootstrap!world, BootInv,
     Carries, Bootstrap!Running, Early, Parents, BootTypes
<1>3. Mail' /\ Written' /\ Bootstrap!OnlyGranted' /\ (Spoken => Spoken')
  BY <1>1, <1>2, BesideKeeps DEF Bootstrap!CarrierDies, Early
<1>4. Matched'
  BY <1>1, <1>2, MatchedStays
<1>5. BootTypes'
  BY <1>1, <1>2, Markers DEF BootInv, BootTypes, Beside, Bootstrap!CarrierDies, Bootstrap!extension,
     Bootstrap!carrier, Bootstrap!world, Parents, Natives, Bootstrap!Awaits, PublicResults
<1>6. Carries'
  BY <1>1, <1>2, <1>3, Markers DEF BootInv, Carries, Bootstrap!CarrierDies, Bootstrap!extension,
     Bootstrap!carrier, Bootstrap!world, Early, Parents
<1>7. Bootstrap!NotCut'
  BY AtWork DEF BootInv, Bootstrap!NotCut, Bootstrap!Signals, Bootstrap!CarrierDies,
     Bootstrap!extension, Bootstrap!carrier, Bootstrap!world
<1>8. Bootstrap!LeaseCovers'
  BY <1>1, <1>2 DEF BootInv, Bootstrap!LeaseCovers, Bootstrap!Running, Carries, Early,
     Bootstrap!CarrierDies, Bootstrap!extension, Bootstrap!carrier, Bootstrap!world
<1>9. Bootstrap!Honest'
  BY <1>1, <1>2, <1>3, Markers DEF BootInv, Bootstrap!Honest, Carries, Spoken, Beside,
     Bootstrap!CarrierDies, Bootstrap!extension, Bootstrap!carrier, Bootstrap!world
<1> QED
  BY <1>3, <1>4, <1>5, <1>6, <1>7, <1>8, <1>9 DEF BootInv

LEMMA NativeEndsKeeps ==
  ASSUME Bootstrap!BootstrapAssumption, BootInv, Bootstrap!NativeEnds
  PROVE  BootInv'
<1>1. Beside /\ held' = held /\ pinned' = pinned /\ version' = version
  BY DEF Beside, Bootstrap!NativeEnds, Bootstrap!extension, Bootstrap!carrier, Bootstrap!world,
     Bootstrap!Running
<1>2. native' = native \/ (native # "none" /\ native' \in Ended)
  BY DEF Bootstrap!NativeEnds, Bootstrap!extension, Bootstrap!carrier, Bootstrap!world,
     Bootstrap!Running, BootInv, Carries, Bootstrap!Running, Early, Parents, BootTypes, Ended
<1>3. Mail' /\ Written' /\ Bootstrap!OnlyGranted' /\ (Spoken => Spoken')
  BY <1>1, <1>2, BesideKeeps DEF Bootstrap!NativeEnds, Early
<1>4. Matched'
  BY <1>1, <1>2, MatchedStays
<1>5. BootTypes'
  BY <1>1, <1>2, Markers DEF BootInv, BootTypes, Beside, Bootstrap!NativeEnds, Bootstrap!extension,
     Bootstrap!carrier, Bootstrap!world, Bootstrap!Running, Parents, Natives, Bootstrap!Awaits,
     PublicResults
<1>6. Carries'
  BY <1>1, <1>2, <1>3, Markers DEF BootInv, Carries, Bootstrap!NativeEnds, Bootstrap!extension,
     Bootstrap!carrier, Bootstrap!world, Bootstrap!Running, Early, Parents
<1>7. Bootstrap!NotCut'
  BY AtWork DEF BootInv, Bootstrap!NotCut, Bootstrap!Signals, Bootstrap!NativeEnds,
     Bootstrap!extension, Bootstrap!carrier, Bootstrap!world, Bootstrap!Running
<1>8. Bootstrap!LeaseCovers'
  BY <1>1, <1>2 DEF BootInv, Bootstrap!LeaseCovers, Bootstrap!Running, Carries, Early,
     Bootstrap!NativeEnds, Bootstrap!extension, Bootstrap!carrier, Bootstrap!world, Bootstrap!Running
<1>9. Bootstrap!Honest'
  BY <1>1, <1>2, <1>3, Markers DEF BootInv, Bootstrap!Honest, Carries, Spoken, Beside,
     Bootstrap!NativeEnds, Bootstrap!extension, Bootstrap!carrier, Bootstrap!world, Bootstrap!Running
<1> QED
  BY <1>3, <1>4, <1>5, <1>6, <1>7, <1>8, <1>9 DEF BootInv

LEMMA ExpireKeeps ==
  ASSUME Bootstrap!BootstrapAssumption, BootInv, Bootstrap!Expire
  PROVE  BootInv'
<1>1. Beside /\ held' = held /\ pinned' = pinned /\ version' = version
  BY DEF Beside, Bootstrap!Expire, Bootstrap!extension, Bootstrap!carrier, Bootstrap!world
<1>2. native' = native
  BY DEF Bootstrap!Expire, Bootstrap!extension, Bootstrap!carrier, Bootstrap!world, BootInv, Carries,
     Bootstrap!Running, Early, Parents, BootTypes
<1>3. Mail' /\ Written' /\ Bootstrap!OnlyGranted' /\ (Spoken => Spoken')
  BY <1>1, <1>2, BesideKeeps DEF Bootstrap!Expire, Early
<1>4. Matched'
  BY <1>1, <1>2, MatchedStays
<1>5. BootTypes'
  BY <1>1, <1>2, Markers DEF BootInv, BootTypes, Beside, Bootstrap!Expire, Bootstrap!extension,
     Bootstrap!carrier, Bootstrap!world, Parents, Natives, Bootstrap!Awaits, PublicResults
<1>6. Carries'
  BY <1>1, <1>2, <1>3, Markers DEF BootInv, Carries, Bootstrap!Expire, Bootstrap!extension,
     Bootstrap!carrier, Bootstrap!world, Early, Parents
<1>7. Bootstrap!NotCut'
  BY AtWork DEF BootInv, Bootstrap!NotCut, Bootstrap!Signals, Bootstrap!Expire, Bootstrap!extension,
     Bootstrap!carrier, Bootstrap!world
<1>8. Bootstrap!LeaseCovers'
  BY <1>1, <1>2 DEF BootInv, Bootstrap!LeaseCovers, Bootstrap!Running, Carries, Early,
     Bootstrap!Expire, Bootstrap!extension, Bootstrap!carrier, Bootstrap!world
<1>9. Bootstrap!Honest'
  BY <1>1, <1>2, <1>3, Markers DEF BootInv, Bootstrap!Honest, Carries, Spoken, Beside,
     Bootstrap!Expire, Bootstrap!extension, Bootstrap!carrier, Bootstrap!world
<1> QED
  BY <1>3, <1>4, <1>5, <1>6, <1>7, <1>8, <1>9 DEF BootInv

LEMMA ChangesKeeps ==
  ASSUME Bootstrap!BootstrapAssumption, BootInv, Bootstrap!Changes
  PROVE  BootInv'
<1>1. Beside /\ held' = held /\ pinned' = pinned /\ version' = version
  BY DEF Beside, Bootstrap!Changes, Bootstrap!extension, Bootstrap!carrier, Bootstrap!world
<1>2. native' = native
  BY DEF Bootstrap!Changes, Bootstrap!extension, Bootstrap!carrier, Bootstrap!world, BootInv, Carries,
     Bootstrap!Running, Early, Parents, BootTypes
<1>3. Mail' /\ Written' /\ Bootstrap!OnlyGranted' /\ (Spoken => Spoken')
  BY <1>1, <1>2, BesideKeeps DEF Bootstrap!Changes, Early
<1>4. Matched'
  BY <1>1, <1>2, MatchedStays
<1>5. BootTypes'
  BY <1>1, <1>2, Markers DEF BootInv, BootTypes, Beside, Bootstrap!Changes, Bootstrap!extension,
     Bootstrap!carrier, Bootstrap!world, Parents, Natives, Bootstrap!Awaits, PublicResults
<1>6. Carries'
  BY <1>1, <1>2, <1>3, Markers DEF BootInv, Carries, Bootstrap!Changes, Bootstrap!extension,
     Bootstrap!carrier, Bootstrap!world, Early, Parents
<1>7. Bootstrap!NotCut'
  BY AtWork DEF BootInv, Bootstrap!NotCut, Bootstrap!Signals, Bootstrap!Changes, Bootstrap!extension,
     Bootstrap!carrier, Bootstrap!world
<1>8. Bootstrap!LeaseCovers'
  BY <1>1, <1>2 DEF BootInv, Bootstrap!LeaseCovers, Bootstrap!Running, Carries, Early,
     Bootstrap!Changes, Bootstrap!extension, Bootstrap!carrier, Bootstrap!world
<1>9. Bootstrap!Honest'
  BY <1>1, <1>2, <1>3, Markers DEF BootInv, Bootstrap!Honest, Carries, Spoken, Beside,
     Bootstrap!Changes, Bootstrap!extension, Bootstrap!carrier, Bootstrap!world
<1> QED
  BY <1>3, <1>4, <1>5, <1>6, <1>7, <1>8, <1>9 DEF BootInv

LEMMA EmergencyKeeps ==
  ASSUME Bootstrap!BootstrapAssumption, BootInv, Bootstrap!Emergency
  PROVE  BootInv'
<1>1. Beside /\ held' = held /\ pinned' = pinned /\ version' = version
  BY DEF Beside, Bootstrap!Emergency, Bootstrap!extension, Bootstrap!carrier, Bootstrap!world
<1>2. native' = native
  BY DEF Bootstrap!Emergency, Bootstrap!extension, Bootstrap!carrier, Bootstrap!world, BootInv,
     Carries, Bootstrap!Running, Early, Parents, BootTypes
<1>3. Mail' /\ Written' /\ Bootstrap!OnlyGranted' /\ (Spoken => Spoken')
  BY <1>1, <1>2, BesideKeeps DEF Bootstrap!Emergency, Early
<1>4. Matched'
  BY <1>1, <1>2, MatchedStays
<1>5. BootTypes'
  BY <1>1, <1>2, Markers DEF BootInv, BootTypes, Beside, Bootstrap!Emergency, Bootstrap!extension,
     Bootstrap!carrier, Bootstrap!world, Parents, Natives, Bootstrap!Awaits, PublicResults
<1>6. Carries'
  BY <1>1, <1>2, <1>3, Markers DEF BootInv, Carries, Bootstrap!Emergency, Bootstrap!extension,
     Bootstrap!carrier, Bootstrap!world, Early, Parents
<1>7. Bootstrap!NotCut'
  BY AtWork DEF BootInv, Bootstrap!NotCut, Bootstrap!Signals, Bootstrap!Emergency,
     Bootstrap!extension, Bootstrap!carrier, Bootstrap!world
<1>8. Bootstrap!LeaseCovers'
  BY <1>1, <1>2 DEF BootInv, Bootstrap!LeaseCovers, Bootstrap!Running, Carries, Early,
     Bootstrap!Emergency, Bootstrap!extension, Bootstrap!carrier, Bootstrap!world
<1>9. Bootstrap!Honest'
  BY <1>1, <1>2, <1>3, Markers DEF BootInv, Bootstrap!Honest, Carries, Spoken, Beside,
     Bootstrap!Emergency, Bootstrap!extension, Bootstrap!carrier, Bootstrap!world
<1> QED
  BY <1>3, <1>4, <1>5, <1>6, <1>7, <1>8, <1>9 DEF BootInv

\* What the receipt says, of the result the parent took.
LEMMA StatusSays ==
  ASSUME Bootstrap!BootstrapAssumption, BootInv
  PROVE  /\ Bootstrap!Status \in Bootstrap!Statuses \cup {"unknown"}
         /\ final = None => Bootstrap!Status = "unknown"
         /\ final # None => (Spoken /\ Outcome = final)
         /\ Bootstrap!Status \in {"updated", "already_current", "applied_unverified", "not_applied"} =>
              clean
         /\ Bootstrap!Status = "not_applied" => effect = "none"
         /\ Bootstrap!Status = "updated" => effect = "applied"
         /\ Bootstrap!Succeeded =>
              (final # None /\ decision = "once" /\ clean /\ result \in {"updated", "already_current"})
<1>1. final # None => (final = Outcome /\ Spoken)
  BY DEF BootInv, Mail
<1>2. final # None => (final.decision = decision /\ final.clean = clean /\ final.result = result)
  BY <1>1 DEF Outcome
<1>3. /\ result \in PublicResults /\ effect \in {"none", "applied"}
      /\ effect = "applied" => decision = "once"
      /\ result = "updated" => effect = "applied"
      /\ result = "not_applied" => effect = "none"
  BY DEF BootInv, BootTypes, Written
<1>4. Bootstrap!Status = IF final = None THEN "unknown"
               ELSE IF result # None THEN (IF clean THEN result ELSE "uncertain")
               ELSE IF decision # "once" /\ clean THEN "not_applied" ELSE "unknown"
  BY <1>2 DEF Bootstrap!Status
<1>5. Bootstrap!Status \in Bootstrap!Statuses \cup {"unknown"}
  BY <1>3, <1>4 DEF PublicResults, Bootstrap!Statuses
<1>6. Bootstrap!Status \in {"updated", "already_current", "applied_unverified", "not_applied"} => clean
  BY <1>4
<1>7. Bootstrap!Status = "not_applied" => effect = "none"
  BY <1>3, <1>4
<1>8. Bootstrap!Status = "updated" => effect = "applied"
  BY <1>3, <1>4
<1>9. Bootstrap!Succeeded =>
        (final # None /\ decision = "once" /\ clean /\ result \in {"updated", "already_current"})
  <2>1. Bootstrap!Succeeded => final # None
    BY <1>4 DEF Bootstrap!Succeeded
  <2> QED
    BY <2>1, <1>2, <1>4 DEF Bootstrap!Succeeded
<1> QED
  BY <1>1, <1>4, <1>5, <1>6, <1>7, <1>8, <1>9

LEMMA ReportKeeps ==
  ASSUME Bootstrap!BootstrapAssumption, BootInv, Bootstrap!Report
  PROVE  BootInv'
<1>1. Beside /\ held' = held /\ pinned' = pinned /\ version' = version
  BY DEF Beside, Bootstrap!Report, Bootstrap!extension, Bootstrap!carrier, Bootstrap!world
<1>2. native' = native
  BY DEF Bootstrap!Report, Bootstrap!extension, Bootstrap!carrier, Bootstrap!world, BootInv, Carries,
     Bootstrap!Running, Early, Parents, BootTypes
<1>3. Mail' /\ Written' /\ Bootstrap!OnlyGranted' /\ (Spoken => Spoken')
  BY <1>1, <1>2, BesideKeeps DEF Bootstrap!Report, Early
<1>4. Matched'
  BY <1>1, <1>2, MatchedStays
<1>5. BootTypes'
  BY <1>1, <1>2, Markers, StatusSays DEF BootInv, BootTypes, Beside, Bootstrap!Report,
     Bootstrap!extension, Bootstrap!carrier, Bootstrap!world, Parents, Natives, Bootstrap!Awaits,
     PublicResults, Bootstrap!Statuses
<1>6. Carries'
  BY <1>1, <1>2, <1>3, Markers, StatusSays DEF BootInv, Carries, Bootstrap!Report,
     Bootstrap!extension, Bootstrap!carrier, Bootstrap!world, Early, Parents, Bootstrap!Statuses
<1>7. Bootstrap!NotCut'
  BY AtWork DEF BootInv, Bootstrap!NotCut, Bootstrap!Signals, Bootstrap!Report, Bootstrap!extension,
     Bootstrap!carrier, Bootstrap!world
<1>8. Bootstrap!LeaseCovers'
  BY <1>1, <1>2 DEF BootInv, Bootstrap!LeaseCovers, Bootstrap!Running, Carries, Early,
     Bootstrap!Report, Bootstrap!extension, Bootstrap!carrier, Bootstrap!world
<1>9. Bootstrap!Honest'
  BY <1>1, <1>2, <1>3, Markers, StatusSays DEF BootInv, Bootstrap!Honest, Carries, Spoken, Beside,
     Bootstrap!Report, Bootstrap!extension, Bootstrap!carrier, Bootstrap!world, Bootstrap!Statuses
<1> QED
  BY <1>3, <1>4, <1>5, <1>6, <1>7, <1>8, <1>9 DEF BootInv

LEMMA InvalidateKeeps ==
  ASSUME Bootstrap!BootstrapAssumption, BootInv, Bootstrap!Invalidate
  PROVE  BootInv'
<1>1. Beside
  BY DEF Beside, Bootstrap!Invalidate, Bootstrap!extension, Bootstrap!carrier, Bootstrap!world
<1>2. native' = native
  BY DEF Bootstrap!Invalidate, Bootstrap!extension, Bootstrap!carrier, Bootstrap!world, BootInv,
     Carries, Bootstrap!Running, Early, Parents, BootTypes
<1>3. Mail' /\ Written' /\ Bootstrap!OnlyGranted' /\ (Spoken => Spoken')
  BY <1>1, <1>2, BesideKeeps DEF Bootstrap!Invalidate, Early
<1>4. Matched'
  <2>1. \A x \in {"trees", "current"} : version'[x] = version[x]
    BY DEF BootInv, BootTypes, Bootstrap!Invalidate, Bootstrap!Authorities
  <2>2. held' = held /\ pinned' = pinned
    BY DEF Bootstrap!Invalidate, Bootstrap!carrier
  <2> QED
    BY <1>2, <2>1, <2>2 DEF BootInv, Matched
<1>5. BootTypes'
  BY <1>1, <1>2, Markers DEF BootInv, BootTypes, Beside, Bootstrap!Invalidate, Bootstrap!extension,
     Bootstrap!carrier, Bootstrap!world, Parents, Natives, Bootstrap!Awaits, PublicResults,
     Bootstrap!Authorities
<1>6. Carries'
  BY <1>1, <1>2, <1>3, Markers DEF BootInv, Carries, Bootstrap!Invalidate, Bootstrap!extension,
     Bootstrap!carrier, Bootstrap!world, Early, Parents
<1>7. Bootstrap!NotCut'
  BY AtWork DEF BootInv, Bootstrap!NotCut, Bootstrap!Signals, Bootstrap!Invalidate,
     Bootstrap!extension, Bootstrap!carrier, Bootstrap!world
<1>8. Bootstrap!LeaseCovers'
  BY <1>1, <1>2 DEF BootInv, Bootstrap!LeaseCovers, Bootstrap!Running, Carries, Early,
     Bootstrap!Invalidate, Bootstrap!extension, Bootstrap!carrier, Bootstrap!world
<1>9. Bootstrap!Honest'
  BY <1>1, <1>2, <1>3, Markers DEF BootInv, Bootstrap!Honest, Carries, Spoken, Beside,
     Bootstrap!Invalidate, Bootstrap!extension, Bootstrap!carrier, Bootstrap!world
<1> QED
  BY <1>3, <1>4, <1>5, <1>6, <1>7, <1>8, <1>9 DEF BootInv

LEMMA ReplacesKeeps ==
  ASSUME Bootstrap!BootstrapAssumption, BootInv, Bootstrap!Replaces
  PROVE  BootInv'
<1>1. Beside
  BY DEF Beside, Bootstrap!Replaces, Bootstrap!extension, Bootstrap!carrier, Bootstrap!world
<1>2. native' = native
  BY DEF Bootstrap!Replaces, Bootstrap!extension, Bootstrap!carrier, Bootstrap!world, BootInv,
     Carries, Bootstrap!Running, Early, Parents, BootTypes
<1>3. Mail' /\ Written' /\ Bootstrap!OnlyGranted' /\ (Spoken => Spoken')
  BY <1>1, <1>2, BesideKeeps DEF Bootstrap!Replaces, Early
<1>4. Matched'
  <2>1. \A x \in {"trees", "current"} :
          /\ held[x] \in Nat /\ pinned[x] \in Nat /\ version[x] \in Nat
          /\ version'[x] \in Nat /\ version'[x] >= version[x]
    BY DEF BootInv, BootTypes, Bootstrap!Replaces, Bootstrap!Authorities
  <2>2. held' = held /\ pinned' = pinned
    BY DEF Bootstrap!Replaces, Bootstrap!carrier
  <2> QED
    BY <1>2, <2>1, <2>2 DEF BootInv, Matched
<1>5. BootTypes'
  BY <1>1, <1>2, Markers DEF BootInv, BootTypes, Beside, Bootstrap!Replaces, Bootstrap!extension,
     Bootstrap!carrier, Bootstrap!world, Parents, Natives, Bootstrap!Awaits, PublicResults,
     Bootstrap!Authorities
<1>6. Carries'
  BY <1>1, <1>2, <1>3, Markers DEF BootInv, Carries, Bootstrap!Replaces, Bootstrap!extension,
     Bootstrap!carrier, Bootstrap!world, Early, Parents
<1>7. Bootstrap!NotCut'
  BY AtWork DEF BootInv, Bootstrap!NotCut, Bootstrap!Signals, Bootstrap!Replaces, Bootstrap!extension,
     Bootstrap!carrier, Bootstrap!world
<1>8. Bootstrap!LeaseCovers'
  BY <1>1, <1>2 DEF BootInv, Bootstrap!LeaseCovers, Bootstrap!Running, Carries, Early,
     Bootstrap!Replaces, Bootstrap!extension, Bootstrap!carrier, Bootstrap!world
<1>9. Bootstrap!Honest'
  BY <1>1, <1>2, <1>3, Markers DEF BootInv, Bootstrap!Honest, Carries, Spoken, Beside,
     Bootstrap!Replaces, Bootstrap!extension, Bootstrap!carrier, Bootstrap!world
<1> QED
  BY <1>3, <1>4, <1>5, <1>6, <1>7, <1>8, <1>9 DEF BootInv

LEMMA AdmitOneKeeps ==
  ASSUME Bootstrap!BootstrapAssumption, BootInv, NEW from \in Early, NEW to \in Early,
         NEW y \in Bootstrap!Authorities,
         Bootstrap!AdmitOne(from, to, y)
  PROVE  BootInv'
<1>1. Beside
  BY DEF Beside, Bootstrap!AdmitOne, Bootstrap!extension, Bootstrap!carrier, Bootstrap!world
<1>2. native' = native
  BY DEF Bootstrap!AdmitOne, Bootstrap!extension, Bootstrap!carrier, Bootstrap!world, BootInv,
     Carries, Bootstrap!Running, Early, Parents, BootTypes
<1>3. Mail' /\ Written' /\ Bootstrap!OnlyGranted' /\ (Spoken => Spoken')
  BY <1>1, <1>2, BesideKeeps DEF Bootstrap!AdmitOne, Early
<1>4. Matched'
  <2>1. \A x \in {"trees", "current"} :
          /\ held[x] \in Nat /\ pinned[x] \in Nat /\ version[x] \in Nat
          /\ pinned'[x] \in {pinned[x], version[x]}
    BY DEF BootInv, BootTypes, Bootstrap!AdmitOne, Bootstrap!Authorities
  <2>2. held' = held /\ version' = version /\ native = "none"
    BY DEF BootInv, Carries, Bootstrap!AdmitOne, Bootstrap!carrier
  <2> QED
    BY <1>2, <2>1, <2>2 DEF BootInv, Matched
<1>5. BootTypes'
  BY <1>1, <1>2, Markers DEF BootInv, BootTypes, Beside, Bootstrap!AdmitOne, Bootstrap!extension,
     Bootstrap!carrier, Bootstrap!world, Parents, Natives, Bootstrap!Awaits, PublicResults,
     Bootstrap!Authorities, Early
<1>6. Carries'
  BY <1>1, <1>2, <1>3, Markers DEF BootInv, Carries, Bootstrap!AdmitOne, Bootstrap!extension,
     Bootstrap!carrier, Bootstrap!world, Early, Parents
<1>7. Bootstrap!NotCut'
  BY AtWork DEF BootInv, Bootstrap!NotCut, Bootstrap!Signals, Bootstrap!AdmitOne, Bootstrap!extension,
     Bootstrap!carrier, Bootstrap!world
<1>8. Bootstrap!LeaseCovers'
  BY <1>1, <1>2 DEF BootInv, Bootstrap!LeaseCovers, Bootstrap!Running, Carries, Early,
     Bootstrap!AdmitOne, Bootstrap!extension, Bootstrap!carrier, Bootstrap!world
<1>9. Bootstrap!Honest'
  BY <1>1, <1>2, <1>3, Markers DEF BootInv, Bootstrap!Honest, Carries, Spoken, Beside,
     Bootstrap!AdmitOne, Bootstrap!extension, Bootstrap!carrier, Bootstrap!world, Early
<1> QED
  BY <1>3, <1>4, <1>5, <1>6, <1>7, <1>8, <1>9 DEF BootInv

LEMMA AdmissionKeeps ==
  ASSUME Bootstrap!BootstrapAssumption, BootInv,
         Bootstrap!Dispatch \/ Bootstrap!AdmitSource \/ Bootstrap!AdmitProfile
  PROVE  BootInv'
<1>1. CASE Bootstrap!Dispatch
  BY <1>1, AdmitOneKeeps DEF Bootstrap!Dispatch, Early, Bootstrap!Authorities
<1>2. CASE Bootstrap!AdmitSource
  BY <1>2, AdmitOneKeeps DEF Bootstrap!AdmitSource, Early, Bootstrap!Authorities
<1>3. CASE Bootstrap!AdmitProfile
  BY <1>3, AdmitOneKeeps DEF Bootstrap!AdmitProfile, Early, Bootstrap!Authorities
<1> QED
  BY <1>1, <1>2, <1>3

LEMMA StartKeeps ==
  ASSUME Bootstrap!BootstrapAssumption, BootInv, Bootstrap!Start
  PROVE  BootInv'
<1>1. Beside
  BY DEF Beside, Bootstrap!Start, Bootstrap!extension, Bootstrap!carrier, Bootstrap!world,
     Bootstrap!Hold
<1>2. native' = native \/ (native = "none" /\ native' = "boot")
  BY DEF Bootstrap!Start, Bootstrap!extension, Bootstrap!carrier, Bootstrap!world, Bootstrap!Hold,
     BootInv, Carries, Bootstrap!Running, Early, Parents, BootTypes
<1>3. Mail' /\ Written' /\ Bootstrap!OnlyGranted' /\ (Spoken => Spoken')
  BY <1>1, <1>2, BesideKeeps DEF Bootstrap!Start, Early
<1>4. Matched'
  <2>1. \A x \in {"trees", "current"} : pinned[x] \in Nat /\ version[x] \in Nat /\ pinned[x] <= version[x]
    BY DEF BootInv, BootTypes, Matched, Bootstrap!Authorities
  <2>2. held' = version /\ version' = version /\ pinned' = pinned /\ native' \in {"none", "boot"}
    BY DEF BootInv, Carries, Bootstrap!Start, Bootstrap!Hold, Bootstrap!world, Early
  <2> QED
    BY <2>1, <2>2 DEF Matched
<1>5. BootTypes'
  BY <1>1, <1>2, Markers DEF BootInv, BootTypes, Beside, Bootstrap!Start, Bootstrap!extension,
     Bootstrap!carrier, Bootstrap!world, Bootstrap!Hold, Parents, Natives, Bootstrap!Awaits,
     PublicResults, Bootstrap!Authorities, Early
<1>6. Carries'
  BY <1>1, <1>2, <1>3, Markers DEF BootInv, Carries, Bootstrap!Start, Bootstrap!extension,
     Bootstrap!carrier, Bootstrap!world, Bootstrap!Hold, Early, Parents
<1>7. Bootstrap!NotCut'
  BY AtWork DEF BootInv, Bootstrap!NotCut, Bootstrap!Signals, Bootstrap!Start, Bootstrap!extension,
     Bootstrap!carrier, Bootstrap!world, Bootstrap!Hold
<1>8. Bootstrap!LeaseCovers'
  BY <1>1, <1>2 DEF BootInv, Bootstrap!LeaseCovers, Bootstrap!Running, Carries, Early,
     Bootstrap!Start, Bootstrap!extension, Bootstrap!carrier, Bootstrap!world, Bootstrap!Hold
<1>9. Bootstrap!Honest'
  <2>1. parent = "admitted" /\ native = "none" /\ effect = "none"
    BY DEF BootInv, BootTypes, Carries, Written, Spoken, Bootstrap!Start, Early
  <2> QED
    BY <2>1, <1>1, <1>2, <1>3, Markers DEF BootInv, Bootstrap!Honest, Carries, Spoken, Beside,
       Bootstrap!Start, Bootstrap!extension, Bootstrap!carrier, Bootstrap!world, Bootstrap!Hold, Early
<1> QED
  BY <1>3, <1>4, <1>5, <1>6, <1>7, <1>8, <1>9 DEF BootInv

\* The parent takes a question.  When the engine's own is the one it lets pass,
\* nothing stands against it: what it holds it admitted, and nothing is replaced.
LEMMA ReceiveKeeps ==
  ASSUME Bootstrap!BootstrapAssumption, BootInv, Bootstrap!Receive
  PROVE  BootInv'
<1> DEFINE m == Head(up)
<1>1. /\ asked' = asked /\ decision' = decision /\ effect' = effect /\ result' = result
      /\ clean' = clean
      /\ native' = native /\ down' = down /\ bound' = bound /\ held' = held /\ pinned' = pinned
      /\ version' = version /\ cancelled' = cancelled /\ final' = final /\ receipt' = receipt
      /\ exit' = exit
      /\ lifeline' = lifeline /\ cut' = cut /\ up' = Tail(up) /\ parent = "loop"
  BY DEF Bootstrap!Receive, Bootstrap!extension, Bootstrap!world
<1>2. up \in Seq(Questions) /\ up # <<>>
  BY DEF BootInv, Mail, Bootstrap!Receive
<1>3. m \in Questions /\ Tail(up) \in Seq(Questions)
  BY <1>2, HeadTailProperties, Zenon
<1>4. m \in Messages /\ Fits(m) /\ m.seq \in Nat
  BY <1>3 DEF Questions, Messages
<1>5. sequence \in Nat /\ asked.seq \in Nat /\ granted \subseteq 1..asked.seq
  BY DEF BootInv, BootTypes
<1>6. (m.type = "CHECK" /\ Bootstrap!Accepts(m)) => bound
  BY DEF Bootstrap!Accepts
<1>7. granted \subseteq granted' /\ (granted' # {} => bound') /\ granted' \subseteq 1..asked.seq
  <2>1. granted # {} => bound
    BY DEF BootInv, Written
  <2>2. m.seq # sequence + 1 => granted' = granted
    BY DEF Bootstrap!Receive
  <2>3. m.seq = sequence + 1 =>
          \/ granted' = granted
          \/ granted' = granted \cup {m.seq} /\ m.type = "CHECK" /\ Bootstrap!Accepts(m)
    BY DEF Bootstrap!Receive
  <2>4. m.seq = sequence + 1 => m.seq \in 1..asked.seq
    BY <1>4, <1>5 DEF Fits
  <2> QED
    BY <1>1, <1>5, <1>6, <2>1, <2>2, <2>3, <2>4
<1>8. sequence' \in Nat /\ sequence <= sequence' /\ sequence' <= asked.seq
  BY <1>4, <1>5 DEF Bootstrap!Receive, Fits, BootInv, BootTypes
<1>9. /\ Questions \subseteq Questions' /\ Answers \subseteq Answers' /\ Outcome' = Outcome
      /\ (Spoken => Spoken')
      /\ (Pending' => Pending)
  <2> HIDE DEF m
  <2> QED
    BY <1>1, <1>7, <1>8, OthersKeep
<1>10. Written' /\ Bootstrap!OnlyGranted'
  <2> HIDE DEF m
  <2> QED
    BY <1>1, <1>7, OthersLeaveWorks
<1>11. parent' = "answer" =>
         /\ judging' \in [message : Questions', ok : BOOLEAN]
         /\ [seq |-> sequence', ok |-> judging'.ok] \in Answers'
  <2> SUFFICES ASSUME parent' = "answer"
               PROVE  /\ judging' \in [message : Questions', ok : BOOLEAN]
                      /\ [seq |-> sequence', ok |-> judging'.ok] \in Answers'
    OBVIOUS
  <2>1. /\ m.seq = sequence + 1 /\ sequence' = m.seq
        /\ judging' = [message |-> m, ok |-> Bootstrap!Accepts(m)]
        /\ granted' = IF m.type = "CHECK" /\ Bootstrap!Accepts(m) /\ Bootstrap!Sound
                        THEN granted \cup {m.seq} ELSE granted
    BY DEF Bootstrap!Receive
  <2>2. Bootstrap!Accepts(m) \in BOOLEAN
    BY <1>4 DEF Bootstrap!Accepts, Messages, Bootstrap!MayGoOn, Bootstrap!MayGoOnUncancelled,
       Bootstrap!RetainedHolds, Bootstrap!Running, Bootstrap!Same, BootInv, BootTypes
  <2>3. judging' \in [message : Questions', ok : BOOLEAN] /\ judging'.ok = Bootstrap!Accepts(m)
    BY <2>1, <2>2, <1>3, <1>9
  <2>4. (Bootstrap!Accepts(m) /\ m.seq = asked.seq /\ Pending) => m.seq \in granted'
    <3> SUFFICES ASSUME Bootstrap!Accepts(m), m.seq = asked.seq, Pending
                 PROVE  m.seq \in granted'
      OBVIOUS
    <3>1. m.type = "CHECK"
      BY <1>4 DEF Fits
    <3>2. Bootstrap!MayGoOn /\ bound
      BY <3>1 DEF Bootstrap!Accepts
    <3>3. decision = "once" /\ native = "asking"
      BY DEF BootInv, Written, Pending
    <3>4. held["trees"] = pinned["trees"] /\ held["current"] = pinned["current"]
      BY <3>3 DEF BootInv, Matched
    <3>5. Bootstrap!Sound
      BY <3>2, <3>3, <3>4 DEF Bootstrap!Sound, Bootstrap!MayGoOn, Bootstrap!MayGoOnUncancelled,
         Bootstrap!RetainedHolds, Bootstrap!Authorities
    <3> QED
      BY <3>1, <3>5, <2>1
  <2>5. ASSUME NEW r \in Replies, r.seq = sequence', r.ok = Bootstrap!Accepts(m)
        PROVE  Earned(r)'
    BY <2>1, <2>4, <2>5, <1>1, <1>8, <1>9 DEF Earned
  <2>6. [seq |-> sequence', ok |-> judging'.ok] \in Replies
    BY <2>2, <2>3, <1>8 DEF Replies
  <2> QED
    BY <2>3, <2>5, <2>6 DEF Answers
<1>12. Mail'
  <2>a. Questions \subseteq Questions' /\ Answers \subseteq Answers' /\ down' = down /\ up' = Tail(up)
    BY <1>1, <1>9
  <2>b. Tail(up) \in Seq(Questions) /\ down \in Seq(Answers)
    BY <1>3 DEF BootInv, Mail
  <2>1. up' \in Seq(Questions')
    BY <2>a, <2>b, SeqMonotonic, Zenon
  <2>2. down' \in Seq(Answers')
    BY <2>a, <2>b, SeqMonotonic, Zenon
  <2>3. final' # None => (Spoken' /\ final' = Outcome')
    BY <1>1, <1>9 DEF BootInv, Mail
  <2> QED
    BY <1>11, <2>1, <2>2, <2>3 DEF Mail
<1>13. Matched'
  BY <1>1, MatchedStays
<1>14. BootTypes'
  <2>1. parent' \in Parents
    BY DEF Bootstrap!Receive, Parents
  <2> QED
    BY <1>1, <1>7, <1>8, <2>1 DEF BootInv, BootTypes
<1>15. Carries'
  BY <1>1, <1>9, Markers DEF BootInv, Carries, Bootstrap!Receive, Early
<1>16. Bootstrap!NotCut' /\ Bootstrap!Honest'
  BY <1>1, <1>9 DEF BootInv, Bootstrap!NotCut, Bootstrap!Honest
<1>17. Bootstrap!LeaseCovers'
  BY <1>1 DEF Bootstrap!LeaseCovers, Bootstrap!Receive
<1> QED
  BY <1>10, <1>12, <1>13, <1>14, <1>15, <1>16, <1>17 DEF BootInv

\* The verdict takes effect.
LEMMA AnswerKeeps ==
  ASSUME Bootstrap!BootstrapAssumption, BootInv, Bootstrap!Answer
  PROVE  BootInv'
<1> DEFINE m == judging.message
<1>1. /\ asked' = asked /\ decision' = decision /\ effect' = effect /\ result' = result
      /\ clean' = clean
      /\ native' = native /\ up' = up /\ pinned' = pinned /\ version' = version /\ receipt' = receipt
      /\ exit' = exit /\ granted' = granted /\ sequence' = sequence /\ parent = "answer"
  BY DEF Bootstrap!Answer, Bootstrap!extension, Bootstrap!world
<1>2. /\ parent' \in {"loop", "raised"} /\ bound' = (bound \/ (judging.ok /\ m.type = "BIND"))
      /\ held' = held \/ held' = [held EXCEPT !["session"] = version["session"]]
      /\ final' = IF judging.ok /\ m.type = "RESULT" THEN m.extra ELSE final
      /\ down' = down \/ down' = Append(down, [seq |-> sequence, ok |-> judging.ok])
  BY DEF Bootstrap!Answer
<1>3. lifeline' => lifeline
  BY DEF Bootstrap!Answer, Bootstrap!Cancels, BootInv, BootTypes
<1>4. /\ judging \in [message : Questions, ok : BOOLEAN]
      /\ [seq |-> sequence, ok |-> judging.ok] \in Answers
  BY <1>1 DEF BootInv, Mail
<1>5. m \in Messages /\ Fits(m)
  BY <1>4 DEF Questions
<1>6. sequence \in Nat /\ sequence <= sequence /\ (granted # {} => bound) /\ bound \in BOOLEAN
  BY DEF BootInv, BootTypes, Written
<1>7. /\ Questions \subseteq Questions' /\ Answers \subseteq Answers' /\ Outcome' = Outcome
      /\ (Spoken => Spoken')
  <2> HIDE DEF m
  <2> QED
    BY <1>1, <1>6, OthersKeep
<1>8. Written' /\ Bootstrap!OnlyGranted'
  <2>1. granted \subseteq granted' /\ (granted' # {} => bound')
    BY <1>1, <1>2, <1>6
  <2> HIDE DEF m
  <2> QED
    BY <1>1, <2>1, OthersLeaveWorks
<1>9. Mail'
  <2>1. up' \in Seq(Questions')
    BY <1>1, <1>7, SeqMonotonic DEF BootInv, Mail
  <2>a. down \in Seq(Answers)
    BY DEF BootInv, Mail
  <2>2. down' \in Seq(Answers)
    <3>1. Append(down, [seq |-> sequence, ok |-> judging.ok]) \in Seq(Answers)
      BY <1>4, <2>a, AppendProperties, Zenon
    <3> QED
      BY <1>2, <2>a, <3>1
  <2>3. down' \in Seq(Answers')
    BY <2>2, <1>7, SeqMonotonic
  <2>4. final' # None => (Spoken' /\ final' = Outcome')
    BY <1>2, <1>5, <1>7 DEF BootInv, Mail, Fits
  <2> QED
    BY <1>2, <2>1, <2>3, <2>4 DEF Mail
<1>10. Matched'
  <2>1. held'["trees"] = held["trees"] /\ held'["current"] = held["current"]
    BY <1>2 DEF BootInv, BootTypes, Bootstrap!Authorities
  <2> QED
    BY <1>1, <2>1 DEF BootInv, Matched
<1>11. BootTypes'
  <2>1. held' \in [Bootstrap!Authorities -> Nat]
    BY <1>2 DEF BootInv, BootTypes, Bootstrap!Authorities
  <2>2. parent' \in Parents /\ bound' \in BOOLEAN
    BY <1>2, <1>6 DEF Parents
  <2> QED
    BY <1>1, <2>1, <2>2 DEF BootInv, BootTypes
<1>12. Carries'
  BY <1>1, <1>2, <1>7, Markers DEF BootInv, Carries, Early
<1>13. Bootstrap!NotCut'
  BY AtWork DEF BootInv, Bootstrap!NotCut, Bootstrap!Answer, Bootstrap!Cancels, Bootstrap!Signals
<1>14. Bootstrap!Honest'
  BY <1>1 DEF BootInv, Bootstrap!Honest
<1>15. Bootstrap!LeaseCovers'
  BY <1>2 DEF Bootstrap!LeaseCovers
<1> QED
  BY <1>8, <1>9, <1>10, <1>11, <1>12, <1>13, <1>14, <1>15 DEF BootInv

\* What a step of the extension leaves alone.
Apart == UNCHANGED <<parent, sequence, judging, bound, held, final, receipt, exit, pinned, version,
                     lifeline, granted, cut, changed>>

\* A native that can take a step.
Working == native \notin {"none", "gone", "killed"}

\* A step that asks nothing: it never takes back what a RESULT told.
LEMMA MoveKeeps ==
  ASSUME Bootstrap!BootstrapAssumption, BootInv, Apart, Working,
         asked' = asked, up' = up, down' \in Seq(Answers),
         native' \in Natives \ {"none", "boot", "asking"}, native = "boot" => native' = "gone",
         decision' \in Decisions, clean' \in BOOLEAN, effect' \in {"none", "applied"},
         result' \in PublicResults,
         Spoken =>
           /\ Spoken' /\ decision' = decision /\ clean' = clean
           /\ effect' = effect /\ result' = result,
         Written', Bootstrap!OnlyGranted'
  PROVE  BootInv'
<1>1. /\ parent' = parent /\ sequence' = sequence /\ judging' = judging /\ bound' = bound
      /\ held' = held
      /\ final' = final /\ receipt' = receipt /\ exit' = exit /\ pinned' = pinned /\ version' = version
      /\ lifeline' = lifeline /\ granted' = granted /\ cut' = cut
      /\ changed' = changed
  BY DEF Apart
<1>2. Spoken => (Spoken' /\ Outcome' = Outcome)
  BY DEF Outcome
<1>3. ~Pending'
  BY DEF Pending
<1>4. Questions \subseteq Questions' /\ Answers \subseteq Answers'
  <2>1. \A m \in Messages : Fits(m) => Fits(m)'
    BY <1>2, <1>3 DEF Fits
  <2>2. \A r \in Replies : Earned(r) => Earned(r)'
    BY <1>1, <1>3 DEF Earned
  <2> QED
    BY <2>1, <2>2 DEF Questions, Answers
<1>5. Mail'
  <2>1. up \in Seq(Questions) /\ (final # None => (Spoken /\ final = Outcome))
    BY DEF BootInv, Mail
  <2>2. up' \in Seq(Questions')
    BY <2>1, <1>4, SeqMonotonic
  <2>3. down' \in Seq(Answers')
    BY <1>4, SeqMonotonic
  <2>4. parent = "answer" => /\ judging \in [message : Questions', ok : BOOLEAN]
                             /\ [seq |-> sequence, ok |-> judging.ok] \in Answers'
    <3> SUFFICES ASSUME parent = "answer"
                 PROVE  /\ judging \in [message : Questions', ok : BOOLEAN]
                        /\ [seq |-> sequence, ok |-> judging.ok] \in Answers'
      OBVIOUS
    <3>1. /\ judging \in [message : Questions, ok : BOOLEAN]
          /\ [seq |-> sequence, ok |-> judging.ok] \in Answers
      BY DEF BootInv, Mail
    <3> QED
      BY <3>1, <1>4
  <2>5. final' # None => (Spoken' /\ final' = Outcome')
    BY <2>1, <1>1, <1>2
  <2> QED
    BY <2>2, <2>3, <2>4, <2>5, <1>1 DEF Mail
<1>6. Matched'
  BY <1>1 DEF BootInv, Matched, Bootstrap!Running, Working
<1>7. BootTypes'
  BY <1>1 DEF BootInv, BootTypes
<1>8. Carries' /\ Bootstrap!NotCut' /\ Bootstrap!LeaseCovers'
  BY <1>1, <1>2 DEF BootInv, Carries, Bootstrap!NotCut, Bootstrap!LeaseCovers, Bootstrap!Running, Working
<1>9. Bootstrap!Honest'
  <2>1. CASE Spoken
    BY <2>1, <1>1, <1>2 DEF BootInv, Bootstrap!Honest, Spoken, Carries, Bootstrap!Running, Working
  <2>2. CASE ~Spoken
    BY <2>2, <1>1, Markers DEF BootInv, Bootstrap!Honest, Carries, Bootstrap!Running, Working,
     Bootstrap!Statuses
  <2> QED
    BY <2>1, <2>2
<1> QED
  BY <1>5, <1>6, <1>7, <1>8, <1>9 DEF BootInv

\* A question: those before it can have no more effect.
LEMMA AskKeeps ==
  ASSUME Bootstrap!BootstrapAssumption, BootInv, Apart,
         NEW type \in {"BIND", "CHECK", "RESULT"}, NEW after \in Afters,
         NEW extra \in Endings \cup {None},
         native \in {"boot", "bound", "import", "prepare", "approve", "result"},
         Bootstrap!Ask(type, after, extra), native = "boot" => Bootstrap!Current,
         native # "approve" => decision' = decision, decision' \in Decisions,
         after = "apply" => (type = "CHECK" /\ decision' = "once"),
         after = "closing" <=> native = "result",
         type = "RESULT" => (native = "result" /\ extra = Outcome),
         down' = down, clean' = clean, effect' = effect, result' = result
  PROVE  BootInv'
<1>1. /\ parent' = parent /\ sequence' = sequence /\ judging' = judging /\ bound' = bound
      /\ held' = held
      /\ final' = final /\ receipt' = receipt /\ exit' = exit /\ pinned' = pinned /\ version' = version
      /\ lifeline' = lifeline /\ granted' = granted /\ cut' = cut
      /\ changed' = changed
  BY DEF Apart
<1>2. /\ native' = "asking" /\ asked' = [after |-> after, seq |-> asked.seq + 1]
      /\ up' = Append(up, [type |-> type, seq |-> asked.seq + 1, extra |-> extra])
  BY DEF Bootstrap!Ask
<1>3. /\ sequence \in Nat /\ asked.seq \in Nat /\ sequence <= asked.seq
      /\ asked'.seq = asked.seq + 1 /\ asked'.after = after
  BY <1>2 DEF BootInv, BootTypes
<1>4. ~Spoken
  BY DEF Spoken
<1>5. (Pending' <=> after = "apply") /\ (Spoken' <=> native = "result")
  BY <1>2, <1>3 DEF Pending, Spoken
<1>6. Questions \subseteq Questions'
  <2>1. \A m \in Messages : Fits(m) => Fits(m)'
    BY <1>3, <1>4 DEF Fits, Messages
  <2> QED
    BY <2>1 DEF Questions
<1>7. Answers \subseteq Answers'
  <2>1. \A r \in Replies : Earned(r) => Earned(r)'
    BY <1>1, <1>3 DEF Earned, Replies
  <2> QED
    BY <2>1 DEF Answers
<1>8. [type |-> type, seq |-> asked.seq + 1, extra |-> extra] \in Questions'
  <2>1. ASSUME NEW m \in Messages, m.type = type, m.seq = asked.seq + 1, m.extra = extra
        PROVE  Fits(m)'
    <3>1. type = "RESULT" => Outcome' = Outcome
      BY DEF Outcome
    <3> QED
      BY <2>1, <3>1, <1>3, <1>5 DEF Fits
  <2>2. [type |-> type, seq |-> asked.seq + 1, extra |-> extra] \in Messages
    BY <1>3 DEF Messages
  <2> QED
    BY <2>1, <2>2 DEF Questions
<1>9. Mail'
  <2>1. up \in Seq(Questions) /\ down \in Seq(Answers) /\ final = None
    BY <1>4 DEF BootInv, Mail
  <2>2. up \in Seq(Questions')
    BY <2>1, <1>6, SeqMonotonic, Zenon
  <2>3. up' \in Seq(Questions')
    BY <2>2, <1>2, <1>8, AppendProperties, Zenon
  <2>4. down' \in Seq(Answers')
    BY <2>1, <1>7, SeqMonotonic, Zenon
  <2>5. parent = "answer" => /\ judging \in [message : Questions', ok : BOOLEAN]
                             /\ [seq |-> sequence, ok |-> judging.ok] \in Answers'
    <3> SUFFICES ASSUME parent = "answer"
                 PROVE  /\ judging \in [message : Questions', ok : BOOLEAN]
                        /\ [seq |-> sequence, ok |-> judging.ok] \in Answers'
      OBVIOUS
    <3>1. /\ judging \in [message : Questions, ok : BOOLEAN]
          /\ [seq |-> sequence, ok |-> judging.ok] \in Answers
      BY DEF BootInv, Mail
    <3> QED
      BY <3>1, <1>6, <1>7
  <2> QED
    BY <2>1, <2>3, <2>4, <2>5, <1>1 DEF Mail
<1>10. Matched'
  <2>1. \A x \in {"trees", "current"} : pinned[x] \in Nat /\ held[x] \in Nat /\ version[x] \in Nat
    BY DEF BootInv, BootTypes, Bootstrap!Authorities
  <2>2. Bootstrap!Current =>
          (version["trees"] = pinned["trees"] /\ version["current"] = pinned["current"])
    BY DEF Bootstrap!Current, Bootstrap!Observed
  <2>3. \A x \in {"trees", "current"} : held[x] = pinned[x] /\ held[x] <= version[x]
    BY <2>1, <2>2 DEF BootInv, Matched
  <2> QED
    BY <2>1, <2>3, <1>1 DEF Matched
<1>11. BootTypes'
  <2>1. native' \in Natives /\ asked' \in [after : Afters \cup {None}, seq : Nat]
    BY <1>2, <1>3 DEF Natives
  <2>2. sequence' <= asked'.seq /\ granted' \subseteq 1..asked'.seq
    BY <1>1, <1>3 DEF BootInv, BootTypes
  <2> QED
    BY <2>1, <2>2, <1>1 DEF BootInv, BootTypes
<1>12. Written'
  <2>1. effect = "applied" => native = "result"
    BY <1>4 DEF BootInv, Written
  <2>2. result # None => native = "result"
    BY <1>4 DEF BootInv, Written
  <2> QED
    BY <2>1, <2>2, <1>1, <1>2, <1>3, <1>5, Markers DEF BootInv, Written
<1>13. Bootstrap!OnlyGranted'
  <2>1. effect = "applied" => asked.seq \in granted
    BY <1>4 DEF BootInv, Written
  <2> QED
    BY <2>1, <1>1, <1>2, <1>3 DEF Bootstrap!OnlyGranted
<1>14. Carries' /\ Bootstrap!NotCut' /\ Bootstrap!LeaseCovers'
  BY <1>1, <1>2, <1>4 DEF BootInv, Carries, Bootstrap!NotCut, Bootstrap!LeaseCovers, Bootstrap!Running
<1>15. Bootstrap!Honest'
  BY <1>1, <1>4, Markers DEF BootInv, Bootstrap!Honest, Carries
<1> QED
  BY <1>9, <1>10, <1>11, <1>12, <1>13, <1>14, <1>15 DEF BootInv

\* Before the user is asked nothing was written and nothing has a result.
LEMMA Untouched ==
  ASSUME Bootstrap!BootstrapAssumption, BootInv,
         native \in {"boot", "bound", "import", "prepare", "approve"}
         \/ (native = "asking" /\ asked.after # "closing")
  PROVE  effect = "none" /\ result = None /\ ~Spoken
<1>1. ~Spoken
  BY Markers DEF Spoken
<1> QED
  BY <1>1 DEF BootInv, BootTypes, Written

LEMMA FailsTo ==
  ASSUME NEW after \in Afters, Bootstrap!Fails(after)
  PROVE  /\ after = "bound" => (native' = "gone" /\ decision' = decision /\ clean' = clean)
         /\ after \in {"import", "prepare"} =>
              (native' = "result" /\ clean' = TRUE /\ decision' \in {"cancelled", None})
         /\ after \in {"approve", "apply", "dispose"} =>
              (native' = "dispose" /\ clean' = clean /\ decision' \in {decision, "cancelled"})
         /\ after = "closing" => (native' = "closing" /\ decision' = decision /\ clean' = clean)
  BY DEF Bootstrap!Fails, Afters

\* The mail when the extension takes none.
LEMMA NoReply ==
  ASSUME BootInv, down' = down
  PROVE  down' \in Seq(Answers)
  BY DEF BootInv, Mail

LEMMA ChecksKeep ==
  ASSUME Bootstrap!BootstrapAssumption, BootInv, Apart, NEW type \in {"BIND", "CHECK"},
         NEW after \in {"bound", "import", "prepare", "approve"}, Bootstrap!Checks(type, after),
         native \in {"boot", "bound", "import", "prepare"}, native = "boot" => after = "bound",
         down' = down, effect' = effect, result' = result
  PROVE  BootInv'
<1>1. effect = "none" /\ result = None /\ ~Spoken
  BY Untouched
<1>2. /\ clean \in BOOLEAN /\ decision \in Decisions /\ effect \in {"none", "applied"}
      /\ result \in PublicResults
      /\ (granted # {} => bound)
  BY DEF BootInv, BootTypes, Written
<1>3. CASE Bootstrap!Current
  <2>1. Bootstrap!Ask(type, after, None) /\ decision' = decision /\ clean' = clean
    BY <1>3 DEF Bootstrap!Checks
  <2> QED
    BY <2>1, <1>2, <1>3, AskKeeps DEF Afters
<1>4. CASE ~Bootstrap!Current
  <2>1. Bootstrap!Fails(after) /\ asked' = asked /\ up' = up
    BY <1>4 DEF Bootstrap!Checks
  <2>2. /\ native' \in {"gone", "result", "dispose"} /\ decision' \in Decisions /\ clean' \in BOOLEAN
        /\ native = "boot" => native' = "gone"
    BY <2>1, <1>2, FailsTo DEF Afters, Decisions
  <2>3. native' \in Natives \ {"none", "boot", "asking"}
    BY <2>2 DEF Natives, Bootstrap!Awaits
  <2>4. Written' /\ Bootstrap!OnlyGranted'
    BY <2>1, <2>2, <1>1, <1>2, Markers DEF Written, Spoken, Pending, Bootstrap!OnlyGranted, Apart,
       Bootstrap!Statuses
  <2>5. down' \in Seq(Answers) /\ Working
    BY NoReply DEF Working
  <2> QED
    BY <2>1, <2>2, <2>3, <2>4, <2>5, <1>1, <1>2, MoveKeeps
<1> QED
  BY <1>3, <1>4

LEMMA PreludeKeeps ==
  ASSUME Bootstrap!BootstrapAssumption, BootInv, Apart, down' = down,
         Bootstrap!Bind \/ Bootstrap!Bound \/ Bootstrap!Import
  PROVE  BootInv'
<1>1. CASE Bootstrap!Bind
  BY <1>1, ChecksKeep DEF Bootstrap!Bind
<1>2. CASE Bootstrap!Bound
  BY <1>2, ChecksKeep DEF Bootstrap!Bound
<1>3. CASE Bootstrap!Import
  BY <1>3, ChecksKeep DEF Bootstrap!Import
<1> QED
  BY <1>1, <1>2, <1>3

LEMMA PrepareKeeps ==
  ASSUME Bootstrap!BootstrapAssumption, BootInv, Apart, down' = down, Bootstrap!Prepare
  PROVE  BootInv'
<1>1. native = "prepare" /\ effect' = effect /\ result' = result
  BY DEF Bootstrap!Prepare
<1>2. CASE Bootstrap!Checks("CHECK", "approve")
  BY <1>1, <1>2, ChecksKeep
<1>3. CASE ~Bootstrap!Checks("CHECK", "approve")
  <2>1. /\ native' = "result" /\ clean' = FALSE /\ decision' \in {"cancelled", None} /\ asked' = asked
        /\ up' = up
    BY <1>3 DEF Bootstrap!Prepare
  <2>2. effect = "none" /\ result = None /\ ~Spoken
    BY <1>1, Untouched
  <2>3. (granted # {} => bound) /\ effect \in {"none", "applied"} /\ result \in PublicResults
    BY DEF BootInv, BootTypes, Written
  <2>4. Written' /\ Bootstrap!OnlyGranted'
    BY <2>1, <2>2, <2>3, <1>1, Markers DEF Written, Spoken, Pending, Bootstrap!OnlyGranted, Apart,
       Bootstrap!Statuses
  <2>5. down' \in Seq(Answers) /\ Working
    BY <1>1, NoReply DEF Working
  <2> QED
    BY <2>1, <2>2, <2>3, <2>4, <2>5, <1>1, MoveKeeps DEF Natives, Decisions
<1> QED
  BY <1>2, <1>3

LEMMA ApproveKeeps ==
  ASSUME Bootstrap!BootstrapAssumption, BootInv, Apart, down' = down, Bootstrap!Approve
  PROVE  BootInv'
<1>1. native = "approve" /\ effect' = effect /\ result' = result /\ clean' = clean
  BY DEF Bootstrap!Approve
<1>2. PICK once \in BOOLEAN :
        LET said == IF once THEN "once" ELSE IF aborted THEN "cancelled" ELSE "deny" IN
          IF Bootstrap!Current
            THEN /\ Bootstrap!Ask("CHECK", IF once THEN "apply" ELSE "dispose", None)
                 /\ decision' = said
            ELSE /\ native' = "dispose" /\ decision' = IF aborted THEN "cancelled" ELSE said
                 /\ UNCHANGED <<asked, up>>
  BY DEF Bootstrap!Approve
<1>3. effect = "none" /\ result = None /\ ~Spoken
  BY <1>1, Untouched
<1>4. /\ (granted # {} => bound) /\ effect \in {"none", "applied"}
      /\ result \in PublicResults /\ clean \in BOOLEAN
  BY DEF BootInv, BootTypes, Written
<1>5. decision' \in Decisions /\ (once => (decision' = "once" \/ ~Bootstrap!Current))
  BY <1>2 DEF Decisions
<1>6. CASE Bootstrap!Current /\ once
  <2>1. Bootstrap!Ask("CHECK", "apply", None)
    BY <1>2, <1>6
  <2> QED
    BY <2>1, <1>1, <1>5, <1>6, AskKeeps DEF Afters
<1>7. CASE Bootstrap!Current /\ ~once
  <2>1. Bootstrap!Ask("CHECK", "dispose", None)
    BY <1>2, <1>7
  <2> QED
    BY <2>1, <1>1, <1>5, <1>7, AskKeeps DEF Afters
<1>8. CASE ~Bootstrap!Current
  <2>1. native' = "dispose" /\ asked' = asked /\ up' = up
    BY <1>2, <1>8
  <2>2. Written' /\ Bootstrap!OnlyGranted'
    BY <2>1, <1>1, <1>3, <1>4, Markers DEF Written, Spoken, Pending, Bootstrap!OnlyGranted, Apart,
       Bootstrap!Statuses
  <2>3. down' \in Seq(Answers) /\ Working
    BY <1>1, NoReply DEF Working
  <2> QED
    BY <2>1, <2>2, <2>3, <1>1, <1>3, <1>4, <1>5, MoveKeeps DEF Natives, Bootstrap!Awaits
<1> QED
  BY <1>6, <1>7, <1>8

\* The engine works, and answers.
LEMMA EngineKeeps ==
  ASSUME Bootstrap!BootstrapAssumption, BootInv, Apart, down' = down,
         Bootstrap!Apply \/ Bootstrap!Applied
  PROVE  BootInv'
<1>1. /\ native = "apply" /\ native' \in {"apply", "dispose"} /\ asked' = asked /\ up' = up
      /\ decision' = decision /\ clean' = clean /\ effect' \in {effect, "applied"}
  BY DEF Bootstrap!Apply, Bootstrap!Applied
<1>2. /\ ~Spoken /\ asked.seq \in granted /\ decision = "once" /\ result = None
      /\ (granted # {} => bound)
      /\ decision \in Decisions /\ clean \in BOOLEAN /\ effect \in {"none", "applied"}
  BY <1>1 DEF BootInv, BootTypes, Written, Spoken
<1>3. CASE Bootstrap!Apply
  <2>1. native' = "apply" /\ effect' = "applied" /\ result' = result
    BY <1>3 DEF Bootstrap!Apply
  <2>2. Written'
    BY <2>1, <1>1, <1>2, Markers DEF Written, Spoken, Pending, Apart, Bootstrap!Statuses
  <2>3. Bootstrap!OnlyGranted'
    BY <1>1, <1>2 DEF Bootstrap!OnlyGranted, Apart
  <2>4. down' \in Seq(Answers) /\ Working
    BY <1>1, NoReply DEF Working
  <2> QED
    BY <2>1, <2>2, <2>3, <2>4, <1>1, <1>2, MoveKeeps DEF Natives, Bootstrap!Awaits, PublicResults
<1>4. CASE Bootstrap!Applied
  <2>1. /\ native' = "dispose" /\ effect' = effect
        /\ result' \in {"updated", "applied_unverified", "uncertain", "already_current",
                        "not_applied", None}
        /\ result' = "updated" => effect = "applied"
        /\ result' = "not_applied" => effect # "applied"
    BY <1>4, Markers DEF Bootstrap!Applied, Bootstrap!Statuses
  <2>2. Written'
    BY <2>1, <1>1, <1>2, Markers DEF Written, Spoken, Pending, Apart
  <2>3. Bootstrap!OnlyGranted'
    BY <1>1, <1>2 DEF Bootstrap!OnlyGranted, Apart
  <2>4. down' \in Seq(Answers) /\ Working
    BY <1>1, NoReply DEF Working
  <2> QED
    BY <2>1, <2>2, <2>3, <2>4, <1>1, <1>2, MoveKeeps DEF Natives, Bootstrap!Awaits, PublicResults,
       Bootstrap!Statuses
<1> QED
  BY <1>3, <1>4

LEMMA DisposeKeeps ==
  ASSUME Bootstrap!BootstrapAssumption, BootInv, Apart, down' = down, Bootstrap!Dispose
  PROVE  BootInv'
<1>1. /\ native = "dispose" /\ native' = "result" /\ clean' \in BOOLEAN /\ asked' = asked /\ up' = up
      /\ decision' = decision /\ effect' = effect /\ result' = result
  BY DEF Bootstrap!Dispose
<1>2. /\ ~Spoken /\ decision \in Decisions /\ effect \in {"none", "applied"} /\ result \in PublicResults
  BY <1>1 DEF BootInv, BootTypes, Spoken
<1>3. Written'
  BY <1>1 DEF BootInv, Written, Spoken, Pending, Apart
<1>4. Bootstrap!OnlyGranted'
  BY <1>1 DEF BootInv, Bootstrap!OnlyGranted, Apart
<1>5. down' \in Seq(Answers) /\ Working
  BY <1>1, NoReply DEF Working
<1> QED
  BY <1>1, <1>2, <1>3, <1>4, <1>5, MoveKeeps DEF Natives

LEMMA ResultKeeps ==
  ASSUME Bootstrap!BootstrapAssumption, BootInv, Apart, down' = down, Bootstrap!Result
  PROVE  BootInv'
<1>1. native = "result" /\ decision' = decision /\ effect' = effect /\ result' = result /\ clean' = clean
  BY DEF Bootstrap!Result
<1>2. /\ ~Spoken /\ decision \in Decisions /\ effect \in {"none", "applied"} /\ result \in PublicResults
      /\ clean \in BOOLEAN
  BY <1>1 DEF BootInv, BootTypes, Spoken
<1>3. CASE parent \in {"dead", "done"}
  <2>1. native' = "closing" /\ asked' = asked /\ up' = up
    BY <1>3 DEF Bootstrap!Result
  <2>2. Written'
    BY <2>1, <1>1 DEF BootInv, Written, Spoken, Pending, Apart
  <2>3. Bootstrap!OnlyGranted'
    BY <2>1, <1>1 DEF BootInv, Bootstrap!OnlyGranted, Apart
  <2>4. down' \in Seq(Answers) /\ Working
    BY <1>1, NoReply DEF Working
  <2> QED
    BY <2>1, <2>2, <2>3, <2>4, <1>1, <1>2, MoveKeeps DEF Natives
<1>4. CASE parent \notin {"dead", "done"}
  <2>1. Bootstrap!Ask("RESULT", "closing", Outcome)
    BY <1>4 DEF Bootstrap!Result, Outcome
  <2>2. Outcome \in Endings
    BY <1>2 DEF Outcome, Endings
  <2> QED
    BY <2>1, <2>2, <1>1, <1>2, AskKeeps DEF Afters
<1> QED
  BY <1>3, <1>4

\* An answer lets the engine work only when it was given for the "once".
LEMMA RepliedKeeps ==
  ASSUME Bootstrap!BootstrapAssumption, BootInv, Apart, Bootstrap!Replied
  PROVE  BootInv'
<1>1. native = "asking" /\ asked' = asked /\ up' = up /\ effect' = effect /\ result' = result
  BY DEF Bootstrap!Replied
<1>2. /\ asked.after \in Afters /\ decision \in Decisions /\ clean \in BOOLEAN
      /\ effect \in {"none", "applied"} /\ result \in PublicResults /\ (granted # {} => bound)
  BY <1>1 DEF BootInv, BootTypes, Written
<1>3. down \in Seq(Answers)
  BY DEF BootInv, Mail
<1>4. down # <<>> => (Head(down) \in Answers /\ Tail(down) \in Seq(Answers))
  BY <1>3, HeadTailProperties, Zenon
<1>5. down' \in Seq(Answers) /\ Working
  BY <1>1, <1>3, <1>4 DEF Bootstrap!Replied, Working
<1>6. \/ Bootstrap!Fails(asked.after)
      \/ /\ native' = asked.after /\ decision' = decision /\ clean' = clean
         /\ Pending => asked.seq \in granted
  <2>1. CASE down # <<>> /\ Head(down) = [seq |-> asked.seq, ok |-> TRUE]
    <3>1. native' = asked.after /\ decision' = decision /\ clean' = clean
      BY <2>1 DEF Bootstrap!Replied
    <3>2. Earned(Head(down)) /\ Head(down).seq = asked.seq /\ Head(down).ok
      BY <2>1, <1>4 DEF Answers
    <3> QED
      BY <3>1, <3>2 DEF Earned
  <2>2. CASE ~(down # <<>> /\ Head(down) = [seq |-> asked.seq, ok |-> TRUE])
    BY <2>2 DEF Bootstrap!Replied
  <2> QED
    BY <2>1, <2>2
<1>7. CASE asked.after = "closing"
  <2>1. native' = "closing" /\ decision' = decision /\ clean' = clean /\ Spoken /\ Spoken'
    BY <1>1, <1>2, <1>6, <1>7, FailsTo DEF Spoken
  <2>2. Written'
    BY <2>1, <1>1, <1>7 DEF BootInv, Written, Spoken, Pending, Apart
  <2>3. Bootstrap!OnlyGranted'
    BY <2>1, <1>1 DEF BootInv, Bootstrap!OnlyGranted, Apart
  <2> QED
    BY <2>1, <2>2, <2>3, <1>1, <1>2, <1>5, MoveKeeps DEF Natives
<1>8. CASE asked.after # "closing"
  <2>1. effect = "none" /\ result = None /\ ~Spoken
    BY <1>1, <1>8, Untouched
  <2>2. /\ native' \in Afters \cup {"gone", "result", "dispose"}
        /\ native' \notin {"asking", "boot", "none"}
        /\ decision' \in Decisions /\ clean' \in BOOLEAN
    BY <1>2, <1>6, FailsTo DEF Afters, Decisions
  <2>3. native' = "apply" => (decision' = "once" /\ asked.seq \in granted)
    <3> SUFFICES ASSUME native' = "apply"
                 PROVE  decision' = "once" /\ asked.seq \in granted
      OBVIOUS
    <3>1. ~Bootstrap!Fails(asked.after)
      BY <1>2, FailsTo DEF Afters
    <3>2. Pending /\ decision' = decision
      BY <3>1, <1>1, <1>6 DEF Pending
    <3> QED
      BY <3>1, <3>2, <1>6 DEF BootInv, Written
  <2>4. Written' /\ Bootstrap!OnlyGranted'
    BY <2>1, <2>2, <2>3, <1>1, <1>2, Markers DEF Written, Spoken, Pending, Bootstrap!OnlyGranted,
       Apart, Bootstrap!Statuses
  <2>5. native' \in Natives \ {"none", "boot", "asking"}
    BY <2>2 DEF Natives, Afters, Bootstrap!Awaits
  <2> QED
    BY <2>1, <2>2, <2>4, <2>5, <1>1, <1>2, <1>5, MoveKeeps
<1> QED
  BY <1>7, <1>8

LEMMA ExtensionKeeps ==
  ASSUME Bootstrap!BootstrapAssumption, BootInv, Bootstrap!Extension
  PROVE  BootInv'
<1>1. Apart
  BY DEF Bootstrap!Extension, Apart, Bootstrap!carrier, Bootstrap!world
<1>2. CASE Bootstrap!Replied
  BY <1>1, <1>2, RepliedKeeps
<1>3. CASE ~Bootstrap!Replied
  <2>1. /\ down' = down
        /\ Bootstrap!Bind \/ Bootstrap!Bound \/ Bootstrap!Import \/ Bootstrap!Prepare
           \/ Bootstrap!Approve \/ Bootstrap!Apply \/ Bootstrap!Applied
           \/ Bootstrap!Dispose \/ Bootstrap!Result
    BY <1>3 DEF Bootstrap!Extension
  <2> QED
    BY <2>1, <1>1, PreludeKeeps, PrepareKeeps, ApproveKeeps, EngineKeeps, DisposeKeeps, ResultKeeps
<1> QED
  BY <1>2, <1>3

-----------------------------------------------------------------------------
LEMMA BootInit ==
  ASSUME Bootstrap!BootstrapAssumption, Bootstrap!Init
  PROVE  BootInv
<1>1. /\ parent = "start" /\ native = "none" /\ asked = [after |-> None, seq |-> 0] /\ up = <<>>
      /\ down = <<>>
      /\ sequence = 0 /\ bound = FALSE /\ lifeline = FALSE /\ decision = None /\ effect = "none"
      /\ result = None
      /\ clean = FALSE /\ final = None /\ receipt = None /\ exit = None /\ granted = {} /\ cut = FALSE
      /\ version = [x \in Bootstrap!Authorities |-> 0] /\ held = version /\ pinned = version
  BY DEF Bootstrap!Init
<1>2. BootTypes
  <2>1. /\ held \in [Bootstrap!Authorities -> Nat] /\ pinned \in [Bootstrap!Authorities -> Nat]
        /\ version \in [Bootstrap!Authorities -> Nat]
    BY <1>1
  <2>2. asked \in [after : Afters \cup {None}, seq : Nat] /\ asked.seq = 0
    BY <1>1
  <2>3. sequence \in Nat /\ sequence <= asked.seq /\ granted \subseteq 1..asked.seq
    BY <1>1, <2>2
  <2>4. parent \in Parents /\ native \in Natives
    BY <1>1 DEF Parents, Early, Natives
  <2>5. decision \in Decisions /\ result \in PublicResults /\ receipt \in PublicResults \cup {"unknown"}
    BY <1>1 DEF PublicResults, Decisions
  <2> QED
    BY <1>1, <2>1, <2>2, <2>3, <2>4, <2>5 DEF BootTypes
<1>3. Mail
  <2>1. up \in Seq(Questions) /\ down \in Seq(Answers)
    BY <1>1, EmptySeq
  <2> QED
    BY <1>1, <2>1 DEF Mail
<1>4. Matched /\ Written /\ Carries
  BY <1>1, Markers DEF Matched, Written, Carries, Pending, Spoken, Early, Bootstrap!Authorities,
     Bootstrap!Statuses
<1>5. Bootstrap!OnlyGranted /\ Bootstrap!NotCut /\ Bootstrap!LeaseCovers
  BY <1>1 DEF Bootstrap!OnlyGranted, Bootstrap!NotCut, Bootstrap!LeaseCovers
<1>6. Bootstrap!Honest
  BY <1>1, Markers DEF Bootstrap!Honest, Bootstrap!Statuses
<1> QED
  BY <1>2, <1>3, <1>4, <1>5, <1>6 DEF BootInv

LEMMA BootNext ==
  ASSUME Bootstrap!BootstrapAssumption, BootInv, [Bootstrap!Next]_(Bootstrap!vars)
  PROVE  BootInv'
<1>1. CASE UNCHANGED Bootstrap!vars
  BY <1>1 DEF Bootstrap!vars, BootInv, BootTypes, Mail, Matched, Written, Carries,
     Bootstrap!OnlyGranted, Bootstrap!Honest, Bootstrap!NotCut, Bootstrap!LeaseCovers,
              Questions, Answers, Fits, Earned, Pending, Spoken, Outcome, Bootstrap!Running
<1>2. CASE Bootstrap!Next
  BY <1>2, AdmissionKeeps, StartKeeps, ReceiveKeeps, AnswerKeeps, CancelKeeps, LoopEndsKeeps,
     SettleKeeps, DrainKeeps, ReportKeeps, EmergencyKeeps, InterruptKeeps, FinallyKeeps,
     ReleaseKeeps, CarrierDiesKeeps, ExtensionKeeps, InvalidateKeeps, NativeEndsKeeps, ExpireKeeps,
     ChangesKeeps, ReplacesKeeps DEF Bootstrap!Next
<1> QED
  BY <1>1, <1>2

\* A canonical update: what run_retained and the extension promise of the user's "once", of the
\* receipt, of a native in its transaction and of the lease.
THEOREM BootstrapKeepsItsPromises ==
  ASSUME Bootstrap!BootstrapAssumption
  PROVE  Bootstrap!Spec => []Bootstrap!BootstrapHolds
<1>1. Bootstrap!Init => BootInv
  BY BootInit
<1>2. BootInv /\ [Bootstrap!Next]_(Bootstrap!vars) => BootInv'
  BY BootNext
<1>3. BootInv => Bootstrap!BootstrapHolds
  BY DEF BootInv, Bootstrap!BootstrapHolds
<1> QED
  BY <1>1, <1>2, <1>3, PTL DEF Bootstrap!Spec
=============================================================================
