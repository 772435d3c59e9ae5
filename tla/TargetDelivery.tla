---------------------------- MODULE TargetDelivery ----------------------------
(***************************************************************************)
(* The delivery of a headless run to a code repository                     *)
(* (bin/harness_headless.py, run_target): one branch, named by its task    *)
(* and approval.                                                           *)
(*                                                                         *)
(* Runs of the branch exclude each other by a lock that dies with its      *)
(* holder; a git or gh command they have started does not.  A run without  *)
(* a journal prepares a session, lets the agent work, screens what it      *)
(* changed and records the commit; a run that finds a journal starts no    *)
(* agent and takes the delivery up where it stands.                        *)
(***************************************************************************)
EXTENDS Naturals, FiniteSets

CONSTANTS Runs,      \* runs of the branch
          Digests,   \* digests of the target's host record
          Nobody, None

VARIABLES
  journal,   \* the journal of the delivery record: a phase and a commit
  record,    \* the files beside it: commit, record digest, PR address
  holder,    \* holder of the branch's lock
  run,       \* program counter and locals of each run
  wire,      \* git push and gh pr create commands under way, and answers that a push has landed
  branch,    \* the branch at the remote
  prs,       \* pull requests of the branch
  change,    \* what each run's agent changed
  pushed     \* commits that reached the branch (history only)

local == <<journal, record>>
remote == <<branch, prs, pushed>>
vars == <<local, holder, run, wire, remote, change>>

\* What an agent can have done to its work tree, as the checks tell it apart.
Refusable == {"github", "submodule", "secret"}
Changes == {"nothing", "plain", "swapped-root", "dependency", "failing-tests"} \cup Refusable
Statuses == {"pr_opened", "no_changes", "refused", "failed", "conflict"}
Commits == Runs \cup {"other"}
NoJournal == [phase |-> "none", sha |-> None]
NoRecord == [sha |-> None, digest |-> None, url |-> FALSE]
Idle == [at |-> "start", digest |-> None, sha |-> None, seen |-> None, agent |-> FALSE, status |-> "none"]

Init ==
  /\ journal = NoJournal /\ record = NoRecord /\ holder = Nobody
  /\ run = [r \in Runs |-> Idle] /\ wire = {} /\ branch = None /\ prs = 0
  /\ change = [r \in Runs |-> "nothing"] /\ pushed = {}

At(r, step) == run[r].at = step
Goes(r, step) == run' = [run EXCEPT ![r].at = step]
Leaves(r) == holder' = IF holder = r THEN Nobody ELSE holder
Ends(r, status) ==
  /\ run' = [run EXCEPT ![r] = [Idle EXCEPT !.at = "done", !.status = status, !.digest = run[r].digest,
                                            !.agent = run[r].agent]]
  /\ Leaves(r)

-----------------------------------------------------------------------------
(* run_target up to the agent  *)

\* Delivery.lock: not waited for.
Lock(r) ==
  /\ At(r, "start")
  /\ \E d \in Digests :
       IF holder = Nobody
       THEN /\ holder' = r
            /\ run' = [run EXCEPT ![r].at = "journal", ![r].digest = d]
       ELSE run' = [run EXCEPT ![r] = [Idle EXCEPT !.at = "done", !.status = "refused"]] /\ UNCHANGED holder
  /\ UNCHANGED <<local, wire, remote, change>>

\* A journal of this digest is resumed, one of another digest is left alone.
ResumableAny(r) == journal.phase # "none"
Resumable(r) == journal.phase # "none" /\ record.digest = run[r].digest
TakeUp(r) ==
  /\ At(r, "journal")
  /\ \/ journal.phase # "none" /\ ~Resumable(r) /\ Ends(r, "failed")
     \/ journal.phase = "DELIVERED" /\ Resumable(r) /\ Ends(r, "pr_opened")
     \/ /\ journal.phase \in {"PENDING", "PUSHED"} /\ Resumable(r)
        /\ run' = [run EXCEPT ![r].at = "look", ![r].sha = journal.sha] /\ UNCHANGED holder
     \/ journal.phase = "none" /\ Goes(r, "preflight") /\ UNCHANGED holder
  /\ UNCHANGED <<local, wire, remote, change>>

\* The remote answers; an earlier record that never reached PENDING is moved aside.
Fresh(r) ==
  /\ At(r, "preflight") /\ Goes(r, "session")
  /\ record' = NoRecord /\ journal' = NoJournal
  /\ UNCHANGED <<holder, wire, remote, change>>

\* TargetSession: clone, trusted.git and test environment, all before the agent starts;
\* then the agent works, and every process of it is gone.
Agent(r) ==
  /\ At(r, "session")
  /\ \E c \in Changes : change' = [change EXCEPT ![r] = c]
  /\ run' = [run EXCEPT ![r].at = "freeze", ![r].agent = TRUE]
  /\ UNCHANGED <<local, holder, wire, remote>>

\* Preflight, session setup, agent, or a git or gh command fails: the run ends.
FailingSteps == {"preflight", "session", "freeze", "commit", "save", "look", "pushed", "readback", "list", "relist"}
Fails(r) ==
  /\ run[r].at \in FailingSteps
  /\ \E status \in {"failed", "refused"} : Ends(r, status)
  /\ UNCHANGED <<local, wire, remote, change>>

-----------------------------------------------------------------------------
(* From the work tree to the journal  *)

\* freeze: nothing is staged from a root that is not the directory made for the agent.
\* build_candidate and check_paths: no change ends the run, .github and submodules too.
Freeze(r) ==
  /\ At(r, "freeze")
  /\ CASE change[r] = "swapped-root" -> Ends(r, "failed")
       [] change[r] = "nothing" -> Ends(r, "no_changes")
       [] change[r] \in {"github", "submodule"} -> Ends(r, "refused")
       [] OTHER -> Goes(r, "commit") /\ UNCHANGED holder
  /\ UNCHANGED <<local, wire, remote, change>>

\* commit_candidate: secrets, dependencies, the verifier (which may reject anything),
\* and only then the commit in trusted.git.
PassesUnverified(c) == c \notin {"secret", "dependency"}
Passes(c) == c \notin {"secret", "dependency", "failing-tests"}
Screen(r) ==
  /\ At(r, "commit")
  /\ \/ change[r] = "secret" /\ Ends(r, "refused")
     \/ change[r] # "secret" /\ Ends(r, "failed")
     \/ /\ Passes(change[r])
        /\ run' = [run EXCEPT ![r].at = "save", ![r].sha = r] /\ UNCHANGED holder
  /\ UNCHANGED <<local, wire, remote, change>>

\* The files of the record come before the journal, which makes the delivery resumable.
Save(r) ==
  /\ At(r, "save") /\ Goes(r, "pend")
  /\ record' = [sha |-> run[r].sha, digest |-> run[r].digest, url |-> FALSE]
  /\ UNCHANGED <<journal, holder, wire, remote, change>>
Unjournaled(r) == UNCHANGED journal
Journaled(r) == journal' = [phase |-> "PENDING", sha |-> run[r].sha]
Pend(r) ==
  /\ At(r, "pend") /\ Goes(r, "look")
  /\ Journaled(r)
  /\ UNCHANGED <<record, holder, wire, remote, change>>

-----------------------------------------------------------------------------
(* deliver_target  *)

\* ls-remote: the branch is ours, and the journal stays as it is, or someone else's, or
\* to be pushed.
MayPush(r) == branch = None /\ journal.phase # "PUSHED"
Look(r) ==
  /\ At(r, "look")
  /\ \/ branch = run[r].sha /\ Goes(r, "readback") /\ UNCHANGED holder
     \/ branch \notin {None, run[r].sha} /\ Ends(r, "conflict")
     \/ MayPush(r) /\ Goes(r, "push") /\ UNCHANGED holder
     \/ branch = None /\ ~MayPush(r) /\ Ends(r, "failed")
  /\ UNCHANGED <<local, wire, remote, change>>

\* git push without force: exit 0 tells that it landed; after any other, or none in time,
\* the remote is asked.
Push(r) ==
  /\ At(r, "push") /\ Goes(r, "pushed")
  /\ wire' = wire \cup {[op |-> "push", sha |-> run[r].sha, by |-> r]}
  /\ UNCHANGED <<local, holder, remote, change>>
PushExits(r) ==
  /\ At(r, "pushed")
  /\ \/ /\ [op |-> "landed", sha |-> run[r].sha, by |-> r] \in wire
        /\ Goes(r, "push-journal") /\ UNCHANGED holder
     \/ branch = run[r].sha /\ Goes(r, "push-journal") /\ UNCHANGED holder
     \/ branch \notin {None, run[r].sha} /\ Ends(r, "conflict")
     \/ branch = None /\ Ends(r, "failed")
  /\ UNCHANGED <<local, wire, remote, change>>
PushJournal(r) ==
  /\ At(r, "push-journal") /\ Goes(r, "readback")
  /\ journal' = [journal EXCEPT !.phase = "PUSHED"]
  /\ UNCHANGED <<record, holder, wire, remote, change>>

\* readback: the branch in a new clone, against the commit and its manifest.
Readback(r) ==
  /\ At(r, "readback") /\ branch = run[r].sha /\ Goes(r, "list")
  /\ UNCHANGED <<local, holder, wire, remote, change>>

\* find_pr before create_pr, and again after a creation that did not answer.
List(r) ==
  /\ At(r, "list") /\ UNCHANGED holder
  /\ Goes(r, IF prs > 0 THEN "url" ELSE "create")
  /\ UNCHANGED <<local, wire, remote, change>>
CreatePR(r) ==
  /\ At(r, "create") /\ Goes(r, "relist")
  /\ wire' = wire \cup {[op |-> "create", sha |-> run[r].sha, by |-> r]}
  /\ UNCHANGED <<local, holder, remote, change>>
GiveUp(r) == Ends(r, "failed")
Assume(r) == Goes(r, "url") /\ UNCHANGED holder
Unlisted(r) == GiveUp(r)
Relist(r) ==
  /\ At(r, "relist")
  /\ \/ prs > 0 /\ Goes(r, "url") /\ UNCHANGED holder
     \/ prs = 0 /\ Unlisted(r)
  /\ UNCHANGED <<local, wire, remote, change>>
SaveUrl(r) ==
  /\ At(r, "url") /\ Goes(r, "deliver")
  /\ record' = [record EXCEPT !.url = TRUE]
  /\ UNCHANGED <<journal, holder, wire, remote, change>>
Deliver(r) ==
  /\ At(r, "deliver") /\ Ends(r, "pr_opened")
  /\ journal' = [journal EXCEPT !.phase = "DELIVERED"]
  /\ UNCHANGED <<record, wire, remote, change>>

-----------------------------------------------------------------------------
(* The world: runs die, GitHub serves what is under way, others use the branch.  *)

Dies(r) ==
  /\ run[r].at \notin {"start", "done"} /\ Ends(r, "none")
  /\ UNCHANGED <<local, wire, remote, change>>
\* A branch takes a push without force if it is new, or there already; it has one open
\* pull request at most.
Lands(m) == branch \in {None, m.sha}
Serve(m) ==
  /\ m \in wire
  /\ \/ /\ m.op = "push" /\ Lands(m)
        /\ wire' = (wire \ {m}) \cup {[m EXCEPT !.op = "landed"]}
        /\ branch' = m.sha /\ pushed' = pushed \cup {m.sha} /\ UNCHANGED prs
     \/ m.op = "push" /\ ~Lands(m) /\ wire' = wire \ {m} /\ UNCHANGED remote
     \/ /\ m.op = "create" /\ wire' = wire \ {m}
        /\ prs' = (IF branch # None /\ prs = 0 THEN 1 ELSE prs) /\ UNCHANGED <<branch, pushed>>
  /\ UNCHANGED <<local, holder, run, change>>
Others ==
  /\ \/ branch = None /\ branch' = "other"
     \/ branch # None /\ branch' = None
  /\ UNCHANGED <<local, holder, run, wire, prs, pushed, change>>

Step(r) ==
  \/ Lock(r) \/ TakeUp(r) \/ Fresh(r) \/ Agent(r) \/ Fails(r) \/ Freeze(r) \/ Screen(r)
  \/ Save(r) \/ Pend(r) \/ Look(r) \/ Push(r) \/ PushExits(r) \/ PushJournal(r) \/ Readback(r)
  \/ List(r) \/ CreatePR(r) \/ Relist(r) \/ SaveUrl(r) \/ Deliver(r) \/ Dies(r)
Next == (\E r \in Runs : Step(r)) \/ (\E m \in wire : Serve(m)) \/ Others

Spec == Init /\ [][Next]_vars

-----------------------------------------------------------------------------
(* Properties *)

\* What the theorems assume: runs are no markers, and "other" is nobody's commit.
TargetAssumption ==
  Nobody \notin Runs /\ None \notin Runs /\ "other" \notin Runs /\ None # "other"

\* A journal has the record it is read with; only the holder of the lock is at work.
TargetTypeOK ==
  /\ journal.phase \in {"none", "PENDING", "PUSHED", "DELIVERED"}
  /\ journal.phase # "none" => record.sha = journal.sha /\ record.digest \in Digests
  /\ branch \in Commits \cup {None} /\ pushed \subseteq Commits
  /\ \A r \in Runs : run[r].at \notin {"start", "done"} => holder = r

\* run_target: whatever dies or is lost, one approval puts one commit on its branch, the
\* journaled one, although a push of a dead run may arrive at any time later.
OneCommit ==
  /\ Cardinality(pushed) <= 1
  /\ pushed # {} => journal.sha \in pushed

\* commit_candidate: what leaves for the remote has passed every check.
ScreenedOnly == \A m \in wire : m.op = "push" => change[m.sha] = "plain"

\* deliver_target: a run answers "pr_opened" when the commit was on the branch, its pull
\* request exists and the next run will find both.
OpenedHonest ==
  \A r \in Runs : run[r].status = "pr_opened" =>
    journal.phase = "DELIVERED" /\ record.url /\ prs > 0 /\ journal.sha \in pushed

\* Delivery.resume: a delivery is finished under the host record it was started with; a
\* record of another digest never opens, or claims, its pull request.
OneDigest ==
  \A r, s \in Runs : run[r].status = "pr_opened" /\ run[s].status = "pr_opened" => run[r].digest = run[s].digest

TargetSafe == OneCommit /\ ScreenedOnly /\ OpenedHonest /\ OneDigest
=============================================================================
