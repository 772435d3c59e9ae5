--------------------------- MODULE SessionCreation ---------------------------
(***************************************************************************)
(* Creation of an isolated session by bin/harness_session_creation.py: a   *)
(* creator reserves a UUID under creation.lock, has an engine build the    *)
(* work tree, declares its intent to publish and publishes the journal;    *)
(* reconcilers later finish or remove what dead creators left behind.      *)
(*                                                                         *)
(* The creator's descriptor of creation.lock is inherited by its engine    *)
(* and whatever the engine leaves running, so the lock is free only when   *)
(* all of them are gone.  Reconcilers, and the creator that cleans up,     *)
(* lock through a descriptor of their own.                                 *)
(***************************************************************************)
EXTENDS Naturals

CONSTANTS Creations,    \* reserved UUIDs
          Reconcilers,  \* processes that run reconcile
          Creator,      \* holds a lock as the creator
          Runtime,      \* holds a lock as a launcher or its agent
          Nobody,       \* a lock that is free
          MaxDeaths    \* bound: creators and reconcilers that are killed

ASSUME CreationAssumption ==
  /\ Creator \notin Reconcilers /\ Runtime \notin Reconcilers
  /\ Nobody \notin Reconcilers \cup {Creator, Runtime} /\ Creator # Runtime

VARIABLES
  disk,     \* what the file system holds of each creation
  binding,  \* runtime binding the caller published elsewhere
  mode,     \* standalone, or bound to a runtime pin
  pc,       \* program counter of each creator
  preserve, \* creations whose creator gave up its right to clean up
  engine,   \* the reserved engine of each creation
  stray,    \* what an engine left running, with or without the lease
  fresh,    \* holder of creation.lock through a descriptor of its own
  runtime,  \* holder of runtime.lock
  rec,      \* program counter and locals of each reconciler
  opened,   \* how often each journal was published (history only)
  crashes

creatorVars == <<pc, preserve>>
engineVars == <<engine, stray>>
creationVars == <<disk, binding, mode, creatorVars, engineVars, fresh, runtime, rec, opened, crashes>>

Phases == {"none", "reserved", "preparing", "prepared", "publication_started", "committed"}
Trees == {"none", "empty", "partial", "ready", "used"}
Disks == [phase: Phases, pending: BOOLEAN, index: BOOLEAN, tree: Trees,
          journal: {"none", "OPEN", "later"}]
Reservation(indexed) == [phase |-> "reserved", pending |-> TRUE, index |-> indexed,
                         tree |-> "empty", journal |-> "none"]
NoTrace == [phase |-> "none", pending |-> FALSE, index |-> FALSE,
            tree |-> "none", journal |-> "none"]

CreatorSteps ==
  {"start", "reserved", "launch", "wait", "prepared", "publishing", "open", "record",
   "pending", "index", "exit", "relock", "clean", "record_gone", "index_gone", "gone"}
ReconcilerSteps ==
  {"lock", "decide", "open", "record", "pending", "index", "clean", "record_gone", "index_gone"}
Scans == [at: ReconcilerSteps, of: Creations, seen: Phases \ {"none"}]
NoScan == [at |-> "idle", of |-> Nobody, seen |-> "none"]

Phase(c) == disk[c].phase
Journal(c) == disk[c].journal
Standalone(c) == mode[c] = "standalone"
InContext(c) == pc[c] \notin {"start", "relock", "clean", "record_gone", "index_gone", "gone"}

\* Somebody still has the descriptor that the creator locked.
OriginalHeld(c) == InContext(c) \/ engine[c] = "running" \/ stray[c] = "leased"

\* flock of creation.lock through a new descriptor succeeds.
LeaseFree(c) == ~OriginalHeld(c) /\ fresh[c] = Nobody

\* _anchors_intact: record and work tree are the reserved ones.
AnchorsIntact(c) == Phase(c) # "none" /\ disk[c].tree # "none"

\* _preparation_evidence: the evidence files are complete and HEAD is the base.
EvidenceMatches(c) == disk[c].tree = "ready"

\* _runtime_inactive: runtime.lock can be taken, and is kept for the cleanup.
RuntimeInactive(c) == runtime[c] = Nobody

CreationInit ==
  /\ disk = [c \in Creations |-> NoTrace]
  /\ binding = [c \in Creations |-> "ABSENT"]
  /\ mode \in [Creations -> {"standalone", "bound"}]
  /\ pc = [c \in Creations |-> "start"]
  /\ preserve = {}
  /\ engine = [c \in Creations |-> "none"]
  /\ stray = [c \in Creations |-> "none"]
  /\ fresh = [c \in Creations |-> Nobody]
  /\ runtime = [c \in Creations |-> Nobody]
  /\ rec = [r \in Reconcilers |-> NoScan]
  /\ opened = [c \in Creations |-> 0]
  /\ crashes = 0

-----------------------------------------------------------------------------
(* Creator *)

CreatorGoes(c, from, to) == pc[c] = from /\ pc' = [pc EXCEPT ![c] = to]

\* __enter__: the index entry is the last thing written; until then no other
\* process knows of the record, and a failure leaves it unindexed for good.
Reserve(c) ==
  /\ \/ CreatorGoes(c, "start", "reserved") /\ disk' = [disk EXCEPT ![c] = Reservation(TRUE)]
     \/ CreatorGoes(c, "start", "gone") /\ disk' = [disk EXCEPT ![c] = Reservation(FALSE)]
  /\ UNCHANGED <<binding, mode, preserve, engineVars, fresh, runtime, rec, opened, crashes>>

\* prepare: record the engine, then start it.
BeginPrepare(c) ==
  /\ CreatorGoes(c, "reserved", "launch")
  /\ disk' = [disk EXCEPT ![c].phase = "preparing"]
  /\ UNCHANGED <<binding, mode, preserve, engineVars, fresh, runtime, rec, opened, crashes>>

Launch(c) ==
  /\ CreatorGoes(c, "launch", "wait")
  /\ engine' = [engine EXCEPT ![c] = "running"]
  /\ UNCHANGED <<disk, binding, mode, preserve, stray, fresh, runtime, rec, opened, crashes>>

\* The engine succeeded, and what it says is what the reservation asked for.
EndPrepare(c) ==
  /\ engine[c] = "done"
  /\ AnchorsIntact(c) /\ EvidenceMatches(c) /\ Journal(c) = "none"
  /\ CreatorGoes(c, "wait", "prepared")
  /\ disk' = [disk EXCEPT ![c].phase = "prepared"]
  /\ UNCHANGED <<binding, mode, preserve, engineVars, fresh, runtime, rec, opened, crashes>>

\* Timeout or interrupt: stop the engine's group.  Confirmed, nothing of the
\* group is left, but a process that left the group may be, with the lease.
\* Unconfirmed, anything may be left, and the artifacts are preserved.
Interrupt(c) ==
  /\ CreatorGoes(c, "wait", "exit")
  /\ \/ /\ \E left \in {"none", "leased"} : stray' = [stray EXCEPT ![c] = left]
        /\ engine' = [engine EXCEPT ![c] = "failed"]
        /\ UNCHANGED preserve
     \/ /\ \E left \in {"none", "leased", "unleased"} : stray' = [stray EXCEPT ![c] = left]
        /\ UNCHANGED engine \/ engine' = [engine EXCEPT ![c] = "failed"]
        /\ preserve' = preserve \cup {c}
  /\ UNCHANGED <<disk, binding, mode, fresh, runtime, rec, opened, crashes>>

\* publication_started: from here on the creator does not clean up.
PublicationStarted(c) ==
  /\ CreatorGoes(c, "prepared", "publishing")
  /\ AnchorsIntact(c)
  /\ disk' = [disk EXCEPT ![c].phase = "publication_started"]
  /\ UNCHANGED <<binding, mode, preserve, engineVars, fresh, runtime, rec, opened, crashes>>

\* The caller of a bound creation publishes the binding, or loses to another.
Bind(c) ==
  /\ ~Standalone(c)
  /\ pc[c] = "publishing" /\ binding[c] = "ABSENT"
  /\ \E b \in {"MATCH", "CONFLICT"} : binding' = [binding EXCEPT ![c] = b]
  /\ UNCHANGED <<disk, mode, creatorVars, engineVars, fresh, runtime, rec, opened, crashes>>

\* commit: every check precedes the journal.
BeginCommit(c) ==
  /\ CreatorGoes(c, "publishing", "open")
  /\ AnchorsIntact(c) /\ EvidenceMatches(c)
  /\ Standalone(c) \/ binding[c] = "MATCH"
  /\ Journal(c) = "none"
  /\ UNCHANGED <<disk, binding, mode, preserve, engineVars, fresh, runtime, rec, opened, crashes>>

\* _open_journal, once its check for an existing journal has passed.
OpensJournal(c) ==
  /\ disk' = [disk EXCEPT ![c].journal = "OPEN"]
  /\ opened' = [opened EXCEPT ![c] = @ + 1]

CommitJournal(c) ==
  /\ CreatorGoes(c, "open", "record")
  /\ OpensJournal(c)
  /\ UNCHANGED <<binding, mode, preserve, engineVars, fresh, runtime, rec, crashes>>

\* Mutant of CommitRecord: the marks go before the commit is recorded.
CommitUnrecorded(c) == CreatorGoes(c, "record", "pending")
  /\ UNCHANGED <<disk, binding, mode, preserve, engineVars, fresh, runtime, rec, opened, crashes>>

CommitRecord(c) ==
  /\ CreatorGoes(c, "record", "pending")
  /\ disk' = [disk EXCEPT ![c].phase = "committed"]
  /\ UNCHANGED <<binding, mode, preserve, engineVars, fresh, runtime, rec, opened, crashes>>

CommitMarks(c) ==
  /\ \/ /\ CreatorGoes(c, "pending", "index")
        /\ disk' = [disk EXCEPT ![c].pending = FALSE]
     \/ /\ CreatorGoes(c, "index", "exit")
        /\ disk' = [disk EXCEPT ![c].index = FALSE]
  /\ UNCHANGED <<binding, mode, preserve, engineVars, fresh, runtime, rec, opened, crashes>>

\* Any check or write of the context fails; the engine must have ended by
\* itself for prepare to fail without stopping it.  After a failed write the
\* metadata in memory is ahead of the disk, and cleanup refuses the difference.
Fail(c) ==
  /\ InContext(c) /\ pc[c] # "exit"
  /\ pc[c] = "wait" => engine[c] # "running"
  /\ pc' = [pc EXCEPT ![c] = "exit"]
  /\ preserve' \in {preserve, preserve \cup {c}}
  /\ UNCHANGED <<disk, binding, mode, engineVars, fresh, runtime, rec, opened, crashes>>

\* No intent to publish was declared.
Unpublished(c) == Phase(c) \in {"reserved", "preparing", "prepared"}

\* __exit__: give the lease back, and clean up what was never to be published.
LeaveContext(c) ==
  /\ CreatorGoes(c, "exit", IF c \notin preserve /\ Unpublished(c) THEN "relock" ELSE "gone")
  /\ UNCHANGED <<disk, binding, mode, preserve, engineVars, fresh, runtime, rec, opened, crashes>>

\* Mutant of ProvesAlone: the lease is taken for granted.
ProvesNothing(c) == TRUE

\* Only a new descriptor proves that nobody inherited the old one.
ProvesAlone(c) == LeaseFree(c)

\* _cleanup_unpublished up to the first removal.
Relock(c) ==
  /\ IF ProvesAlone(c) /\ AnchorsIntact(c) /\ Journal(c) = "none" /\ RuntimeInactive(c)
       THEN /\ CreatorGoes(c, "relock", "clean")
            /\ fresh' = [fresh EXCEPT ![c] = Creator]
            /\ runtime' = [runtime EXCEPT ![c] = Creator]
       ELSE CreatorGoes(c, "relock", "gone") /\ UNCHANGED <<fresh, runtime>>
  /\ UNCHANGED <<disk, binding, mode, preserve, engineVars, rec, opened, crashes>>

Releases(c, who) ==
  /\ fresh' = [fresh EXCEPT ![c] = IF @ = who THEN Nobody ELSE @]
  /\ runtime' = [runtime EXCEPT ![c] = IF @ = who THEN Nobody ELSE @]

\* The work tree goes first, then the record, then the index entry.
RemovesTree(c) == disk' = [disk EXCEPT ![c].tree = "none"]
RemovesRecord(c) ==
  disk' = [disk EXCEPT ![c].phase = "none", ![c].pending = FALSE, ![c].journal = "none"]
RemovesIndex(c) == disk' = [disk EXCEPT ![c].index = FALSE]

Clean(c) ==
  /\ \/ CreatorGoes(c, "clean", "record_gone") /\ RemovesTree(c) /\ UNCHANGED <<fresh, runtime>>
     \/ CreatorGoes(c, "record_gone", "index_gone") /\ RemovesRecord(c)
        /\ UNCHANGED <<fresh, runtime>>
     \/ CreatorGoes(c, "index_gone", "gone") /\ RemovesIndex(c) /\ Releases(c, Creator)
  /\ UNCHANGED <<binding, mode, preserve, engineVars, rec, opened, crashes>>

CreatorKilled(c) ==
  /\ pc[c] \notin {"start", "gone"}
  /\ crashes < MaxDeaths
  /\ crashes' = crashes + 1
  /\ pc' = [pc EXCEPT ![c] = "gone"]
  /\ Releases(c, Creator)
  /\ UNCHANGED <<disk, binding, mode, preserve, engineVars, rec, opened>>

-----------------------------------------------------------------------------
(* Engine *)

\* create --reserved: the descriptor and the empty reservation are verified,
\* the clone fills the work tree, and the evidence files complete it.
EngineWorks(c) ==
  /\ engine[c] = "running"
  /\ \/ disk[c].tree = "empty" /\ Journal(c) = "none" /\ disk' = [disk EXCEPT ![c].tree = "partial"]
     \/ disk[c].tree = "partial" /\ disk' = [disk EXCEPT ![c].tree = "ready"]
  /\ UNCHANGED <<binding, mode, creatorVars, engineVars, fresh, runtime, rec, opened, crashes>>

\* It ends with success only when it is complete, and may leave descendants
\* behind that keep the inherited lease.
EngineEnds(c) ==
  /\ engine[c] = "running"
  /\ \/ disk[c].tree = "ready" /\ engine' = [engine EXCEPT ![c] = "done"]
     \/ engine' = [engine EXCEPT ![c] = "failed"]
  /\ UNCHANGED stray \/ stray' = [stray EXCEPT ![c] = "leased"]
  /\ UNCHANGED <<disk, binding, mode, creatorVars, fresh, runtime, rec, opened, crashes>>

StrayEnds(c) ==
  /\ stray[c] # "none"
  /\ stray' = [stray EXCEPT ![c] = "none"]
  /\ UNCHANGED <<disk, binding, mode, creatorVars, engine, fresh, runtime, rec, opened, crashes>>

-----------------------------------------------------------------------------
(* Launchers and agents *)

\* A launcher takes runtime.lock of a published session, or of one its caller
\* has prepared and is about to publish.
RuntimeStarts(c) ==
  /\ disk[c].tree \in {"ready", "used"}
  /\ Journal(c) # "none" \/ pc[c] \in {"prepared", "publishing"}
  /\ runtime[c] = Nobody
  /\ runtime' = [runtime EXCEPT ![c] = Runtime]
  /\ UNCHANGED <<disk, binding, mode, creatorVars, engineVars, fresh, rec, opened, crashes>>

\* The agent commits in the work tree of a published session; the journal of
\* the session moves on and may come back to OPEN.
RuntimeWorks(c) ==
  /\ runtime[c] = Runtime /\ Journal(c) # "none"
  /\ \/ disk' = [disk EXCEPT ![c].tree = "used"]
     \/ \E j \in {"OPEN", "later"} : disk' = [disk EXCEPT ![c].journal = j]
  /\ UNCHANGED <<binding, mode, creatorVars, engineVars, fresh, runtime, rec, opened, crashes>>

RuntimeEnds(c) ==
  /\ runtime[c] = Runtime
  /\ runtime' = [runtime EXCEPT ![c] = Nobody]
  /\ UNCHANGED <<disk, binding, mode, creatorVars, engineVars, fresh, rec, opened, crashes>>

-----------------------------------------------------------------------------
(* Reconcilers *)

RecAt(r, at) == rec[r].at = at
RecGoes(r, at) == rec' = [rec EXCEPT ![r].at = at]
Target(r) == rec[r].of

\* reconcile takes up an indexed creation and reads its metadata, before it
\* has the lease.
Scan(r, c) ==
  /\ RecAt(r, "idle")
  /\ disk[c].index /\ Phase(c) # "none"
  /\ rec' = [rec EXCEPT ![r] = [at |-> "lock", of |-> c, seen |-> Phase(c)]]
  /\ UNCHANGED <<disk, binding, mode, creatorVars, engineVars, fresh, runtime, opened, crashes>>

\* Mutant of Drops: the scan is not over.
DropsLeaseOnly(r) ==
  /\ rec' = [rec EXCEPT ![r].of = Nobody]
  /\ Releases(Target(r), r)

\* Give the lease back and go on to the next entry.
Drops(r) ==
  /\ rec' = [rec EXCEPT ![r] = NoScan]
  /\ Releases(Target(r), r)

\* Mutant of TryLease: the lease is not needed to inspect.
LeaseNotNeeded(c) == Phase(c) # "none"

TryLease(c) == Phase(c) # "none" /\ LeaseFree(c)

\* A live lease, or a record that is gone by now, is reported and left alone.
Lock(r) ==
  /\ RecAt(r, "lock")
  /\ IF TryLease(Target(r))
       THEN RecGoes(r, "decide") /\ fresh' = [fresh EXCEPT ![Target(r)] = r]
       ELSE rec' = [rec EXCEPT ![r] = NoScan] /\ UNCHANGED fresh
  /\ UNCHANGED <<disk, binding, mode, creatorVars, engineVars, runtime, opened, crashes>>

\* A failed read of the binding is UNKNOWN, never ABSENT.
BindingReadback(c) == IF Standalone(c) THEN {"UNKNOWN"} ELSE {binding[c], "UNKNOWN"}

\* Mutant of MayPublish: what was prepared is published.
PublishesPrepared(c, seen, readback) ==
  /\ seen \in {"prepared", "publication_started"} /\ EvidenceMatches(c)
  /\ Standalone(c) \/ readback = "MATCH"

MayPublish(c, seen, readback) ==
  /\ seen = "publication_started" /\ EvidenceMatches(c)
  /\ Standalone(c) \/ readback = "MATCH"

MayFinish(c, seen, readback) ==
  /\ seen = "committed" \/ (seen = "publication_started" /\ EvidenceMatches(c))
  /\ Standalone(c) \/ readback = "MATCH"

MayRemove(c, seen, readback) ==
  /\ ~Standalone(c) /\ readback = "ABSENT"
  /\ seen \in {"prepared", "publication_started"} /\ EvidenceMatches(c)

\* Under the lease: finish a published creation, publish or remove an
\* unpublished one, or preserve it; with metadata as old as the scan.
Decide(r) ==
  LET c == Target(r)
      seen == rec[r].seen IN
  /\ RecAt(r, "decide")
  /\ \E readback \in BindingReadback(c) :
       \/ /\ AnchorsIntact(c) /\ Journal(c) # "none" /\ MayFinish(c, seen, readback)
          /\ RecGoes(r, "record")
          /\ UNCHANGED <<fresh, runtime>>
       \/ /\ AnchorsIntact(c) /\ Journal(c) = "none" /\ disk[c].pending
          /\ MayPublish(c, seen, readback)
          /\ RecGoes(r, "open")
          /\ UNCHANGED <<fresh, runtime>>
       \/ /\ AnchorsIntact(c) /\ Journal(c) = "none" /\ disk[c].pending
          /\ MayRemove(c, seen, readback) /\ RuntimeInactive(c)
          /\ RecGoes(r, "clean")
          /\ runtime' = [runtime EXCEPT ![c] = r]
          /\ UNCHANGED fresh
       \/ /\ ~ /\ AnchorsIntact(c)
             /\ \/ Journal(c) # "none" /\ MayFinish(c, seen, readback)
                \/ /\ Journal(c) = "none" /\ disk[c].pending
                   /\ \/ MayPublish(c, seen, readback)
                      \/ MayRemove(c, seen, readback) /\ RuntimeInactive(c)
          /\ Drops(r)
  /\ UNCHANGED <<disk, binding, mode, creatorVars, engineVars, opened, crashes>>

\* _open_journal and _finish_recovery.  An index entry that is gone already
\* ends the scan of this creation with an error.
FinishRecovery(r) ==
  LET c == Target(r) IN
  /\ \/ /\ RecAt(r, "open") /\ RecGoes(r, "record")
        /\ OpensJournal(c)
        /\ UNCHANGED <<fresh, runtime>>
     \/ /\ RecAt(r, "record") /\ RecGoes(r, "pending")
        /\ disk' = [disk EXCEPT ![c].phase = "committed"]
        /\ UNCHANGED <<fresh, runtime, opened>>
     \/ /\ RecAt(r, "pending") /\ RecGoes(r, "index")
        /\ disk' = [disk EXCEPT ![c].pending = FALSE]
        /\ UNCHANGED <<fresh, runtime, opened>>
     \/ /\ RecAt(r, "index") /\ Drops(r)
        /\ disk' = [disk EXCEPT ![c].index = FALSE]
        /\ UNCHANGED opened
  /\ UNCHANGED <<binding, mode, creatorVars, engineVars, crashes>>

\* _cleanup_abandoned, with runtime.lock held throughout.
Remove(r) ==
  LET c == Target(r) IN
  /\ \/ RecAt(r, "clean") /\ RecGoes(r, "record_gone") /\ RemovesTree(c)
        /\ UNCHANGED <<fresh, runtime>>
     \/ RecAt(r, "record_gone") /\ RecGoes(r, "index_gone") /\ RemovesRecord(c)
        /\ UNCHANGED <<fresh, runtime>>
     \/ RecAt(r, "index_gone") /\ RemovesIndex(c) /\ Drops(r)
  /\ UNCHANGED <<binding, mode, creatorVars, engineVars, opened, crashes>>

ReconcilerKilled(r) ==
  /\ ~RecAt(r, "idle")
  /\ crashes < MaxDeaths
  /\ crashes' = crashes + 1
  /\ Drops(r)
  /\ UNCHANGED <<disk, binding, mode, creatorVars, engineVars, opened>>

-----------------------------------------------------------------------------
CreatorStep(c) ==
  \/ Reserve(c) \/ BeginPrepare(c) \/ Launch(c) \/ EndPrepare(c) \/ Interrupt(c)
  \/ PublicationStarted(c) \/ Bind(c) \/ BeginCommit(c) \/ CommitJournal(c)
  \/ CommitRecord(c) \/ CommitMarks(c) \/ Fail(c) \/ LeaveContext(c) \/ Relock(c) \/ Clean(c)

CreationNext ==
  \/ \E c \in Creations :
       \/ CreatorStep(c) \/ CreatorKilled(c)
       \/ EngineWorks(c) \/ EngineEnds(c) \/ StrayEnds(c)
       \/ RuntimeStarts(c) \/ RuntimeWorks(c) \/ RuntimeEnds(c)
  \/ \E r \in Reconcilers :
       \/ \E c \in Creations : Scan(r, c)
       \/ Lock(r) \/ Decide(r) \/ FinishRecovery(r) \/ Remove(r) \/ ReconcilerKilled(r)

CreationSpec == CreationInit /\ [][CreationNext]_creationVars

CreationTypeOK ==
  /\ disk \in [Creations -> Disks]
  /\ binding \in [Creations -> {"ABSENT", "MATCH", "CONFLICT"}]
  /\ mode \in [Creations -> {"standalone", "bound"}]
  /\ pc \in [Creations -> CreatorSteps]
  /\ preserve \subseteq Creations
  /\ engine \in [Creations -> {"none", "running", "done", "failed"}]
  /\ stray \in [Creations -> {"none", "leased", "unleased"}]
  /\ fresh \in [Creations -> Reconcilers \cup {Creator, Nobody}]
  /\ runtime \in [Creations -> Reconcilers \cup {Creator, Runtime, Nobody}]
  /\ rec \in [Reconcilers -> {NoScan} \cup Scans]
  /\ opened \in [Creations -> Nat]
  /\ crashes \in Nat

-----------------------------------------------------------------------------
(* Properties *)

\* "A valid published journal, changed identity, live lease or unknown binding
\* prevents destructive cleanup": nothing is removed from under an engine or
\* what it left running, a runtime, a published journal or a bound runtime.
NothingLiveRemoved ==
  [][\A c \in Creations :
       \/ disk[c].tree # "none" /\ disk'[c].tree = "none"
       \/ Phase(c) # "none" /\ disk'[c].phase = "none"
       => /\ engine[c] # "running" /\ stray[c] = "none"
          /\ runtime[c] # Runtime /\ Journal(c) = "none"
          /\ binding[c] # "MATCH"]_creationVars

\* A session that can be resumed is whole: its work tree was completed, the
\* intent to publish it is on disk, and a bound one has its binding.
PublishedWhole ==
  \A c \in Creations : Journal(c) # "none" =>
    /\ disk[c].tree \in {"ready", "used"}
    /\ Phase(c) \in {"publication_started", "committed"}
    /\ Standalone(c) \/ binding[c] = "MATCH"

\* A creation is published once, by its creator or by a reconciler: no journal
\* is put back to OPEN under a session that is already in use.
PublishedOnce == \A c \in Creations : opened[c] <= 1

\* Whatever dies, an intent to publish stays findable: as long as it is not
\* recorded as committed, the index leads a reconciler to it.
IntentFindable ==
  \A c \in Creations :
    Phase(c) = "publication_started" =>
      disk[c].index /\ (Journal(c) = "none" => disk[c].pending)

\* "A completion response lost after publication is resolved by checking
\* durable state": reconcile can finish every published creation.
LostResponseResolved ==
  \A c \in Creations :
    Journal(c) # "none" /\ Phase(c) = "publication_started" /\ LeaseFree(c) =>
      MayFinish(c, Phase(c), binding[c])
=============================================================================
