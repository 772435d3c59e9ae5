----------------------------- MODULE UsageManifests -----------------------------
(***************************************************************************)
(* The collection manifests (bin/harness_agent_usage.py): what a usage     *)
(* collector outside this program may read of a session or a profile.      *)
(* Every launch reconciles all of them, creation and retirement of a       *)
(* session the one.  A run evaluates the policy of the source roots it     *)
(* knows of, waits for the lock of the manifests, and gives up when it     *)
(* does not get it; several state homes share one directory.               *)
(***************************************************************************)
EXTENDS FiniteSets, Naturals

CONSTANTS Sessions, StateHome, Source,   \* StateHome[s], Source[s]: where a session is kept, what it is of
          Old,                           \* the sessions that ran before
          Profiles,                      \* the source roots
          Launching,                     \* the state home of the launches
          Runs,                          \* slots for processes of this module
          Policies,                      \* what the policies may be at first
          MaxLaunches, MaxChanges, MaxFaults

VARIABLES
  policy,        \* policy[h]: whether h may be collected
  record,        \* "none", "new" (creation not over), "made", "gone"
  worktree,      \* sessions with a worktree
  archive,       \* sessions with archived Codex files
  transcripts,   \* sessions with Claude transcripts
  manifest,      \* manifest[s]: "none", "worktree", "archive" (included), "exclude"
  excluded,      \* profiles with an exclusion of their own
  run,           \* the processes
  lock,          \* the runs that hold the lock
  launches, changes, faults,
  \* ghosts
  due,           \* what changed since a run last looked
  hidden         \* sessions excluded since their policy was last changed

vars == <<policy, record, worktree, archive, transcripts, manifest, excluded, run, lock, launches, changes, faults,
          due, hidden>>
sessionVars == <<record, worktree, archive, transcripts>>

\* policyOf is a function on the profiles evaluated.  same: what kept its policy since then;
\* still: the sessions that did not change since the run got the lock.
Idle == [at |-> "idle", home |-> "", policyOf |-> [h \in {} |-> TRUE], known |-> {}, names |-> {}, todo |-> {},
         read |-> {}, same |-> {}, still |-> {}]

Init ==
  /\ policy \in Policies
  /\ record = [s \in Sessions |-> IF s \in Old THEN "made" ELSE "none"]
  /\ worktree = Old /\ archive = {} /\ transcripts = Old
  /\ manifest = [s \in Sessions |-> IF s \notin Old THEN "none" ELSE IF policy[Source[s]] THEN "worktree" ELSE "exclude"]
  /\ excluded = {h \in Profiles : ~policy[h] /\ \E s \in Old : Source[s] = h}
  /\ run = [p \in Runs |-> Idle] /\ lock = {}
  /\ launches = 0 /\ changes = 0 /\ faults = 0
  /\ due = (Sessions \ Old) \cup (Profiles \ {Source[s] : s \in Old}) /\ hidden = {s \in Old : manifest[s] = "exclude"}

(***************************************************************************)
(* The starts of a run.                                                    *)
(***************************************************************************)
KeptIn(home) == {s \in Sessions : StateHome[s] = home}
HasRecord(s) == record[s] \in {"new", "made"}
Recorded(home) == {s \in KeptIn(home) : HasRecord(s)}

Started(home, profiles, todo) ==
  [Idle EXCEPT !.at = "waits", !.home = home, !.policyOf = [h \in profiles |-> policy[h]], !.todo = todo,
               !.same = IF todo # {} THEN todo ELSE KeptIn(home) \cup profiles]

\* Which slot a process has makes no difference.
Starts(p) == run[p] = Idle /\ p = CHOOSE q \in Runs : run[q] = Idle

\* harness_agent_usage_reconcile: the harness launched and every source root of the state home.
Launch(p, h) ==
  /\ Starts(p) /\ launches < MaxLaunches
  /\ launches' = launches + 1
  /\ run' = [run EXCEPT ![p] = Started(Launching, {h} \cup {Source[s] : s \in Recorded(Launching)}, {})]
  /\ UNCHANGED <<sessionVars, policy, manifest, excluded, lock, changes, faults, due, hidden>>

SyncStarts(p, s) == Starts(p) /\ run' = [run EXCEPT ![p] = Started(StateHome[s], {Source[s]}, {s})]

(***************************************************************************)
(* The sessions.                                                           *)
(***************************************************************************)
Changed(s) == [p \in Runs |-> [run[p] EXCEPT !.still = @ \ {s}]]

Create(s) ==
  /\ record[s] = "none"
  /\ record' = [record EXCEPT ![s] = "new"] /\ worktree' = worktree \cup {s}
  /\ run' = Changed(s) /\ due' = due \cup {s}
  /\ UNCHANGED <<policy, archive, transcripts, manifest, excluded, lock, launches, changes, faults, hidden>>

\* Creation ends with the session's manifest, or takes everything away again.
Created(p, s) ==
  /\ record[s] = "new" /\ SyncStarts(p, s)
  /\ record' = [record EXCEPT ![s] = "made"]
  /\ UNCHANGED <<policy, worktree, archive, transcripts, manifest, excluded, lock, launches, changes, faults, due,
                 hidden>>
CreationFails(s) ==
  /\ record[s] = "new"
  /\ record' = [record EXCEPT ![s] = "gone"] /\ worktree' = worktree \ {s}
  /\ run' = Changed(s) /\ due' = due \cup {s}
  /\ UNCHANGED <<policy, archive, transcripts, manifest, excluded, lock, launches, changes, faults, hidden>>

ClaudeWrites(s) ==
  /\ record[s] = "made" /\ s \in worktree \ transcripts
  /\ transcripts' = transcripts \cup {s}
  /\ UNCHANGED <<policy, record, worktree, archive, manifest, excluded, run, lock, launches, changes, faults, due,
                 hidden>>

\* gc, a retention after the session's end: no run is still there that saw it before its transcripts.
Retire(p, s, kept) ==
  /\ record[s] = "made" /\ s \in worktree
  /\ \A q \in Runs : s \in transcripts /\ q \in lock => s \in run[q].names
  /\ Starts(p)
  /\ run' = [Changed(s) EXCEPT ![p] = Started(StateHome[s], {Source[s]}, {s})]
  /\ worktree' = worktree \ {s} /\ archive' = archive \cup kept /\ due' = due \cup {s}
  /\ UNCHANGED <<policy, record, transcripts, manifest, excluded, lock, launches, changes, faults, hidden>>

\* The user removes the transcripts of a retired session, or its record.
TranscriptsGo(s) ==
  /\ changes < MaxChanges /\ s \in transcripts \ worktree
  /\ changes' = changes + 1 /\ transcripts' = transcripts \ {s}
  /\ run' = Changed(s) /\ due' = due \cup {s}
  /\ UNCHANGED <<policy, record, worktree, archive, manifest, excluded, lock, launches, faults, hidden>>
RecordGoes(s) ==
  /\ changes < MaxChanges /\ record[s] = "made" /\ s \notin worktree
  /\ changes' = changes + 1 /\ record' = [record EXCEPT ![s] = "gone"]
  /\ run' = Changed(s) /\ due' = due \cup {s}
  /\ UNCHANGED <<policy, worktree, archive, transcripts, manifest, excluded, lock, launches, faults, hidden>>

OfProfile(h) == {h} \cup {s \in Sessions : Source[s] = h}
PolicyChanges(h) ==
  /\ changes < MaxChanges
  /\ changes' = changes + 1 /\ policy' = [policy EXCEPT ![h] = ~@]
  /\ run' = [p \in Runs |-> [run[p] EXCEPT !.same = @ \ OfProfile(h)]]
  /\ due' = due \cup OfProfile(h) /\ hidden' = hidden \ OfProfile(h)
  /\ UNCHANGED <<sessionVars, manifest, excluded, lock, launches, faults>>

(***************************************************************************)
(* launcher_lock: without an answer for two seconds the run ends.          *)
(***************************************************************************)
FreeAny == TRUE
Free == lock = {}

Locks(p) ==
  /\ run[p].at = "waits" /\ Free
  /\ lock' = lock \cup {p}
  /\ LET sync == run[p].todo # {}
         known == IF sync THEN run[p].todo ELSE Recorded(run[p].home)
     IN  run' = [run EXCEPT ![p].at = IF sync THEN "sync" ELSE "reconcile", ![p].known = known, ![p].todo = known,
                            ![p].names = transcripts, ![p].still = run[p].same \cap Sessions]
  /\ UNCHANGED <<sessionVars, policy, manifest, excluded, launches, changes, faults, due, hidden>>

\* The lock goes with the process, also with one that is killed.
Released(p) == run' = [run EXCEPT ![p] = Idle] /\ lock' = lock \ {p}

GivesUp(p) ==
  /\ run[p].at = "waits" /\ lock # {}
  /\ run' = [run EXCEPT ![p] = Idle]
  /\ UNCHANGED <<sessionVars, policy, manifest, excluded, lock, launches, changes, faults, due, hidden>>

(***************************************************************************)
(* sync_one.                                                               *)
(***************************************************************************)
\* session_manifest.
ManifestForgets(s, active, names) ==
  IF active THEN (IF s \in worktree THEN "worktree" ELSE IF s \in archive THEN "archive" ELSE "none")
  ELSE IF s \in worktree THEN "exclude" ELSE "none"
ManifestOf(s, active, names) ==
  IF active THEN (IF s \in worktree THEN "worktree" ELSE IF s \in archive THEN "archive" ELSE "none")
  ELSE IF s \in worktree \cup names THEN "exclude" ELSE "none"

PolicyDefault(p, s) == IF Source[s] \in DOMAIN run[p].policyOf THEN {run[p].policyOf[Source[s]]} ELSE {FALSE}
PolicyOf(p, s) == IF Source[s] \in DOMAIN run[p].policyOf THEN {run[p].policyOf[Source[s]]} ELSE {}

\* A session of an unevaluated source, or whose source is gone, is left as it is; so is one that fails.
Passes(p, s) ==
  /\ run[p].at \in {"sync", "reconcile"} /\ run[p].read = {} /\ s \in run[p].todo
  /\ \/ (PolicyOf(p, s) = {} \/ ~HasRecord(s)) /\ UNCHANGED faults
     \/ faults < MaxFaults /\ faults' = faults + 1
  /\ run' = [run EXCEPT ![p].todo = @ \ {s}]
  /\ UNCHANGED <<sessionVars, policy, manifest, excluded, lock, launches, changes, due, hidden>>

Reads(p, s) ==
  /\ run[p].at \in {"sync", "reconcile"} /\ run[p].read = {} /\ s \in run[p].todo
  /\ HasRecord(s) \/ run[p].at = "sync"
  /\ \E active \in PolicyOf(p, s) : run' = [run EXCEPT ![p].read = {<<s, ManifestOf(s, active, run[p].names)>>}]
  /\ UNCHANGED <<sessionVars, policy, manifest, excluded, lock, launches, changes, faults, due, hidden>>

\* A run that came with an earlier policy leaves what it found then, and one that was to write the
\* manifest of a record that has gone since writes it: the next has to look again.
Settled(p, s) ==
  IF s \notin run[p].same \/ ~HasRecord(s) THEN due \cup {s} ELSE IF s \in run[p].still THEN due \ {s} ELSE due

Writes(p) ==
  \E r \in run[p].read :
    LET s == r[1] IN
    /\ manifest' = [manifest EXCEPT ![s] = r[2]]
    /\ run' = [run EXCEPT ![p].read = {}, ![p].todo = @ \ {s}]
    /\ due' = Settled(p, s)
    /\ hidden' = IF s \notin run[p].same THEN hidden \ {s}
                 ELSE IF r[2] = "exclude" THEN hidden \cup {s} ELSE hidden
    /\ UNCHANGED <<sessionVars, policy, excluded, lock, launches, changes, faults>>

(***************************************************************************)
(* reconcile_locked: after its sessions, the manifests of no session, and  *)
(* the profiles.                                                           *)
(***************************************************************************)
\* owned_by_state: the paths a manifest names lie under the state home.
OwnedAny(p, s) == TRUE
Owned(p, s) == StateHome[s] = run[p].home

\* sweep_one.
Sweeps(p) ==
  /\ run[p].at = "reconcile" /\ run[p].read = {} /\ run[p].todo = {}
  /\ LET orphans == {s \in Sessions \ run[p].known : manifest[s] # "none" /\ Owned(p, s) /\ s \notin Recorded(run[p].home)}
         gone == {s \in orphans : manifest[s] # "exclude" \/ s \notin run[p].names}
     IN  /\ manifest' = [s \in Sessions |-> IF s \in gone THEN "none" ELSE manifest[s]]
         /\ due' = due \ (orphans \cap run[p].still)
         /\ hidden' = hidden \ {s \in gone : s \notin transcripts}
  /\ run' = [run EXCEPT ![p].at = "profiles", ![p].todo = DOMAIN run[p].policyOf, ![p].known = {}, ![p].names = {},
                         ![p].still = {}]
  /\ UNCHANGED <<sessionVars, policy, excluded, lock, launches, changes, faults>>

\* write_profile, for each harness, and the end of the run.
WritesProfiles(p) ==
  /\ run[p].at = "profiles"
  /\ \E failed \in SUBSET run[p].todo :
       LET done == run[p].todo \ failed IN
       /\ faults + Cardinality(failed) <= MaxFaults /\ faults' = faults + Cardinality(failed)
       /\ excluded' = (excluded \ done) \cup {h \in done : ~run[p].policyOf[h]}
       /\ due' = (due \ done) \cup (done \ run[p].same)
  /\ Released(p)
  /\ UNCHANGED <<sessionVars, policy, manifest, launches, changes, hidden>>

SyncEnds(p) ==
  /\ run[p].at = "sync" /\ run[p].todo = {} /\ Released(p)
  /\ UNCHANGED <<sessionVars, policy, manifest, excluded, launches, changes, faults, due, hidden>>
Killed(p) ==
  /\ run[p] # Idle /\ faults < MaxFaults
  /\ faults' = faults + 1 /\ Released(p)
  /\ UNCHANGED <<sessionVars, policy, manifest, excluded, launches, changes, due, hidden>>

Session(s) ==
  \/ Create(s) \/ CreationFails(s) \/ ClaudeWrites(s) \/ TranscriptsGo(s) \/ RecordGoes(s)
  \/ \E p \in Runs : Created(p, s) \/ (\E kept \in {{}, {s}} : Retire(p, s, kept))
Run(p) ==
  \/ \E h \in Profiles : Launch(p, h)
  \/ Locks(p) \/ GivesUp(p) \/ Writes(p) \/ Sweeps(p) \/ WritesProfiles(p) \/ SyncEnds(p) \/ Killed(p)
  \/ \E s \in Sessions : Passes(p, s) \/ Reads(p, s)

Next ==
  \/ \E s \in Sessions : Session(s)
  \/ \E p \in Runs : Run(p)
  \/ \E h \in Profiles : PolicyChanges(h)

Spec == Init /\ [][Next]_vars

(***************************************************************************)
(* Properties                                                              *)
(***************************************************************************)
\* The type invariant.
UsageTypeOK ==
  /\ policy \in [Profiles -> BOOLEAN] /\ excluded \subseteq Profiles
  /\ record \in [Sessions -> {"none", "new", "made", "gone"}]
  /\ worktree \cup archive \cup transcripts \cup hidden \subseteq Sessions
  /\ manifest \in [Sessions -> {"none", "worktree", "archive", "exclude"}]
  /\ \A p \in Runs : /\ run[p].at \in {"idle", "waits", "sync", "reconcile", "profiles"}
                     /\ DOMAIN run[p].policyOf \subseteq Profiles /\ run[p].names \subseteq Sessions
  /\ lock \subseteq Runs /\ due \subseteq Sessions \cup Profiles

\* What a run looked at after its last change has the manifest its policy asks for, and keeps it,
\* whatever runs of other state homes, of other profiles or of shells that know neither do.
Current ==
  /\ \A s \in Sessions \ due :
       IF HasRecord(s) THEN manifest[s] = ManifestOf(s, policy[Source[s]], transcripts)
       ELSE manifest[s] = "none" \/ (manifest[s] = "exclude" /\ s \in transcripts)
  /\ \A h \in Profiles \ due : h \in excluded <=> ~policy[h]

\* A session once excluded stays so while there are transcripts of it and its policy is the same,
\* through its retirement, the removal of its record, killed runs and runs that fail.
StaysHidden == \A s \in hidden : s \in transcripts => manifest[s] = "exclude"

UsageHolds == Current /\ StaysHidden
================================================================================
