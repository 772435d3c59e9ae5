----------------------- MODULE SessionCreationProofs -------------------------
(***************************************************************************)
(* Theorems about SessionCreation for every number of creations and        *)
(* reconcilers and every number of crashes: it is well typed, a published  *)
(* session is whole, it is published once, a declared intent stays         *)
(* findable, and nothing live is removed.                                  *)
(*                                                                         *)
(* The argument is the one of the lease: the creator's descriptor, its     *)
(* heirs' and a fresh one exclude each other (OneHolder), so whoever acts  *)
(* on a reservation acts alone (CreatorKnows, ReconcilerKnows), and what a *)
(* reconciler read before it had the lease can only have moved forward.    *)
(* The last section adds what a remover relies on (RemovalInv): nothing is *)
(* bound before the intent is declared, runtime.lock is held while files   *)
(* go, and what may run without the lease keeps its artifacts preserved.   *)
(***************************************************************************)
EXTENDS SessionCreation, TLAPS

Cleaning == {"clean", "record_gone", "index_gone"}
Finishing == {"record", "pending", "index"}

\* A fresh descriptor is locked only when the inherited one is gone, and by
\* the process that is about to act.
OneHolder ==
  /\ \A c \in Creations : fresh[c] # Nobody => ~OriginalHeld(c)
  /\ \A r \in Reconcilers : rec[r].at \notin {"idle", "lock"} => fresh[rec[r].of] = r
  /\ \A c \in Creations : pc[c] \in Cleaning => fresh[c] = Creator

\* What publishing a journal takes.
Whole(c) ==
  /\ disk[c].tree = "ready"
  /\ Phase(c) = "publication_started"
  /\ Standalone(c) \/ binding[c] = "MATCH"

\* What the place of its creator says about a creation.
Knows(c) ==
  /\ pc[c] = "start" =>
       disk[c] = NoTrace /\ opened[c] = 0 /\ engine[c] = "none" /\ fresh[c] = Nobody
  /\ pc[c] = "reserved" => Phase(c) = "reserved"
  /\ pc[c] \in {"launch", "wait"} => Phase(c) = "preparing"
  /\ pc[c] = "prepared" => Phase(c) = "prepared"
  /\ pc[c] = "publishing" => Phase(c) = "publication_started"
  /\ pc[c] \in {"reserved", "launch", "wait", "prepared", "publishing", "open"} \cup Cleaning
       => Journal(c) = "none"
  /\ pc[c] = "open" => Whole(c)
  /\ pc[c] \in Finishing => Journal(c) # "none"

CreatorKnows == \A c \in Creations : Knows(c)

\* What a reconciler that has taken up a creation knows of it, with or without
\* the lease.
Declared == {"publication_started", "committed", "none"}

Remembers(r, c) ==
  /\ pc[c] # "start"
  /\ rec[r].seen \in {"publication_started", "committed"} => Phase(c) \in Declared
  /\ rec[r].at = "open" => Journal(c) = "none" /\ Whole(c)
  /\ rec[r].at \in Finishing => Journal(c) # "none"
  /\ rec[r].at \in Cleaning => Journal(c) = "none"

ReconcilerKnows ==
  \A r \in Reconcilers : rec[r].at # "idle" => Remembers(r, rec[r].of)

\* A record without a journal was never published, and is not committed.
Unopened ==
  \A c \in Creations :
    Journal(c) = "none" /\ Phase(c) # "none" => opened[c] = 0 /\ Phase(c) # "committed"

CreationInv ==
  /\ CreationTypeOK /\ OneHolder /\ CreatorKnows /\ ReconcilerKnows
  /\ Unopened /\ PublishedWhole /\ PublishedOnce

-----------------------------------------------------------------------------
(* Types *)

\* The initial state, with nothing reserved, satisfies the invariant.
LEMMA InitInv == ASSUME CreationInit PROVE CreationInv
  <1> USE DEF CreationInit
  <1>1. CreationTypeOK
    BY DEF CreationTypeOK, NoTrace, Disks, Phases, Trees, CreatorSteps, NoScan
  <1>2. OneHolder /\ CreatorKnows
    BY CreationAssumption
       DEF OneHolder, CreatorKnows, Knows, OriginalHeld, InContext, NoScan, Cleaning, Finishing,
           Whole
  <1>3. ReconcilerKnows
    BY DEF ReconcilerKnows, NoScan
  <1>4. Unopened /\ PublishedWhole /\ PublishedOnce
    BY DEF Unopened, PublishedWhole, PublishedOnce, Journal, Phase, NoTrace
  <1> QED BY <1>1, <1>2, <1>3, <1>4 DEF CreationInv

\* What any step writes to the locals of a reconciler is of their type.
LEMMA LocalWrites ==
  ASSUME rec \in [Reconcilers -> {NoScan} \cup Scans], NEW r \in Reconcilers
  PROVE  /\ [rec EXCEPT ![r] = NoScan] \in [Reconcilers -> {NoScan} \cup Scans]
         /\ rec[r].at # "idle" => rec[r].of \in Creations
         /\ \A at \in ReconcilerSteps : rec[r].at # "idle" =>
              [rec EXCEPT ![r].at = at] \in [Reconcilers -> {NoScan} \cup Scans]
         /\ \A c \in Creations, seen \in Phases \ {"none"} :
              [rec EXCEPT ![r] = [at |-> "lock", of |-> c, seen |-> seen]]
                \in [Reconcilers -> {NoScan} \cup Scans]
  <1>1. "lock" \in ReconcilerSteps
    BY DEF ReconcilerSteps
  <1>2. rec[r] \in {NoScan} \cup Scans
    OBVIOUS
  <1>3. rec[r].at # "idle" => rec[r] \in Scans
    BY <1>2 DEF NoScan
  <1> QED BY <1>1, <1>2, <1>3 DEF Scans

\* Releasing the locks of a process leaves holders that are processes.
LEMMA LockWrites ==
  ASSUME CreationTypeOK, NEW c \in Creations, NEW who, Releases(c, who)
  PROVE  /\ fresh' \in [Creations -> Reconcilers \cup {Creator, Nobody}]
         /\ runtime' \in [Creations -> Reconcilers \cup {Creator, Runtime, Nobody}]
  BY DEF CreationTypeOK, Releases

DiskTyped == disk \in [Creations -> Disks]
RecTyped == rec \in [Reconcilers -> {NoScan} \cup Scans]
LocksTyped ==
  /\ fresh \in [Creations -> Reconcilers \cup {Creator, Nobody}]
  /\ runtime \in [Creations -> Reconcilers \cup {Creator, Runtime, Nobody}]
OthersTyped ==
  /\ binding \in [Creations -> {"ABSENT", "MATCH", "CONFLICT"}]
  /\ mode \in [Creations -> {"standalone", "bound"}]
  /\ pc \in [Creations -> CreatorSteps]
  /\ preserve \subseteq Creations
  /\ engine \in [Creations -> {"none", "running", "done", "failed"}]
  /\ stray \in [Creations -> {"none", "leased", "unleased"}]
  /\ opened \in [Creations -> Nat]
  /\ crashes \in Nat

\* What a step may do to the disk of creation c.
DiskWrite(c) ==
  \/ UNCHANGED disk
  \/ \E p \in Phases : disk' = [disk EXCEPT ![c].phase = p]
  \/ \E b \in BOOLEAN : disk' = [disk EXCEPT ![c] = Reservation(b)]
  \/ \E t \in Trees : disk' = [disk EXCEPT ![c].tree = t]
  \/ \E j \in {"OPEN", "later"} : disk' = [disk EXCEPT ![c].journal = j]
  \/ disk' = [disk EXCEPT ![c].pending = FALSE]
  \/ RemovesIndex(c) \/ RemovesRecord(c)

\* The disk keeps its type under what a step may do to it.
LEMMA DiskWrites ==
  ASSUME DiskTyped, NEW c \in Creations, DiskWrite(c)
  PROVE  DiskTyped'
  <1> USE DEF DiskTyped
  <1>1. disk[c] \in Disks /\ "none" \in Phases
    BY DEF Phases
  <1>2. "reserved" \in Phases /\ "empty" \in Trees
    BY DEF Phases, Trees
  <1>3. CASE UNCHANGED disk
    BY <1>3
  <1>4. ASSUME NEW p \in Phases, disk' = [disk EXCEPT ![c].phase = p]  PROVE  DiskTyped'
    BY <1>1, <1>4 DEF Disks
  <1>5. ASSUME NEW b \in BOOLEAN, disk' = [disk EXCEPT ![c] = Reservation(b)]  PROVE  DiskTyped'
    BY <1>2, <1>5 DEF Disks, Reservation
  <1>6. ASSUME NEW t \in Trees, disk' = [disk EXCEPT ![c].tree = t]  PROVE  DiskTyped'
    BY <1>1, <1>6 DEF Disks
  <1>7. ASSUME NEW j \in {"OPEN", "later"}, disk' = [disk EXCEPT ![c].journal = j]
        PROVE  DiskTyped'
    BY <1>1, <1>7 DEF Disks
  <1>8. CASE disk' = [disk EXCEPT ![c].pending = FALSE]
    BY <1>1, <1>8 DEF Disks
  <1>9. CASE RemovesIndex(c)
    BY <1>1, <1>9 DEF Disks, RemovesIndex
  <1>10. CASE RemovesRecord(c)
    BY <1>1, <1>10 DEF Disks, RemovesRecord
  <1> QED BY <1>3, <1>4, <1>5, <1>6, <1>7, <1>8, <1>9, <1>10 DEF DiskWrite

\* The locals of reconcilers keep their type when one goes on or gives up.
LEMMA RecWrites ==
  ASSUME RecTyped, NEW r \in Reconcilers, rec[r].at # "idle",
         \/ \E at \in ReconcilerSteps : RecGoes(r, at)
         \/ rec' = [rec EXCEPT ![r] = NoScan]
  PROVE  RecTyped' /\ rec[r].of \in Creations
  BY LocalWrites DEF RecTyped, RecGoes

\* The values the actions write.
LEMMA Values ==
  /\ {"none", "reserved", "preparing", "prepared", "publication_started",
      "committed"} \subseteq Phases
  /\ {"none", "empty", "partial", "ready", "used"} \subseteq Trees
  /\ {"decide", "open", "record", "pending", "index", "clean", "record_gone", "index_gone"}
       \subseteq ReconcilerSteps
  BY DEF Phases, Trees, ReconcilerSteps

\* Every step keeps the types.
LEMMA TypeStep ==
  ASSUME CreationInv, [CreationNext]_creationVars
  PROVE  CreationTypeOK'
  <1> USE CreationAssumption
     DEF CreationInv, CreationTypeOK, creatorVars, engineVars, CreatorGoes
  <1>1. ASSUME NEW c \in Creations, Reserve(c)  PROVE  CreationTypeOK'
    <2>1. DiskWrite(c)
      BY Values, <1>1 DEF Reserve, DiskWrite
    <2>2. DiskTyped'
      BY <2>1, DiskWrites DEF DiskTyped
    <2>3. OthersTyped'
      BY <1>1 DEF Reserve, OthersTyped, CreatorSteps
    <2>4. LocksTyped' /\ RecTyped'
      BY <1>1 DEF Reserve, LocksTyped, RecTyped
    <2> QED BY <2>2, <2>3, <2>4 DEF DiskTyped, OthersTyped, LocksTyped, RecTyped
  <1>2. ASSUME NEW c \in Creations, BeginPrepare(c)  PROVE  CreationTypeOK'
    <2>1. DiskWrite(c)
      BY Values, <1>2 DEF BeginPrepare, DiskWrite
    <2>2. DiskTyped'
      BY <2>1, DiskWrites DEF DiskTyped
    <2>3. OthersTyped'
      BY <1>2 DEF BeginPrepare, OthersTyped, CreatorSteps
    <2>4. LocksTyped' /\ RecTyped'
      BY <1>2 DEF BeginPrepare, LocksTyped, RecTyped
    <2> QED BY <2>2, <2>3, <2>4 DEF DiskTyped, OthersTyped, LocksTyped, RecTyped
  <1>3. ASSUME NEW c \in Creations, Launch(c)  PROVE  CreationTypeOK'
    BY <1>3 DEF Launch, CreatorSteps
  <1>4. ASSUME NEW c \in Creations, EndPrepare(c)  PROVE  CreationTypeOK'
    <2>1. DiskWrite(c)
      BY Values, <1>4 DEF EndPrepare, DiskWrite
    <2>2. DiskTyped'
      BY <2>1, DiskWrites DEF DiskTyped
    <2>3. OthersTyped'
      BY <1>4 DEF EndPrepare, AnchorsIntact, EvidenceMatches, OthersTyped, CreatorSteps
    <2>4. LocksTyped' /\ RecTyped'
      BY <1>4 DEF EndPrepare, LocksTyped, RecTyped
    <2> QED BY <2>2, <2>3, <2>4 DEF DiskTyped, OthersTyped, LocksTyped, RecTyped
  <1>5. ASSUME NEW c \in Creations, Interrupt(c)  PROVE  CreationTypeOK'
    BY <1>5 DEF Interrupt, CreatorSteps
  <1>6. ASSUME NEW c \in Creations, PublicationStarted(c)  PROVE  CreationTypeOK'
    <2>1. DiskWrite(c)
      BY Values, <1>6 DEF PublicationStarted, DiskWrite
    <2>2. DiskTyped'
      BY <2>1, DiskWrites DEF DiskTyped
    <2>3. OthersTyped'
      BY <1>6 DEF PublicationStarted, OthersTyped, CreatorSteps
    <2>4. LocksTyped' /\ RecTyped'
      BY <1>6 DEF PublicationStarted, LocksTyped, RecTyped
    <2> QED BY <2>2, <2>3, <2>4 DEF DiskTyped, OthersTyped, LocksTyped, RecTyped
  <1>7. ASSUME NEW c \in Creations, Bind(c)  PROVE  CreationTypeOK'
    BY <1>7 DEF Bind, CreatorSteps
  <1>8. ASSUME NEW c \in Creations, BeginCommit(c)  PROVE  CreationTypeOK'
    BY <1>8 DEF BeginCommit, AnchorsIntact, EvidenceMatches, CreatorSteps
  <1>9. ASSUME NEW c \in Creations, CommitJournal(c)  PROVE  CreationTypeOK'
    <2>1. DiskWrite(c)
      BY Values, <1>9 DEF CommitJournal, DiskWrite, OpensJournal
    <2>2. DiskTyped'
      BY <2>1, DiskWrites DEF DiskTyped
    <2>3. OthersTyped'
      BY <1>9 DEF CommitJournal, OpensJournal, OthersTyped, CreatorSteps
    <2>4. LocksTyped' /\ RecTyped'
      BY <1>9 DEF CommitJournal, LocksTyped, RecTyped
    <2> QED BY <2>2, <2>3, <2>4 DEF DiskTyped, OthersTyped, LocksTyped, RecTyped
  <1>10. ASSUME NEW c \in Creations, CommitRecord(c)  PROVE  CreationTypeOK'
    <2>1. DiskWrite(c)
      BY Values, <1>10 DEF CommitRecord, DiskWrite
    <2>2. DiskTyped'
      BY <2>1, DiskWrites DEF DiskTyped
    <2>3. OthersTyped'
      BY <1>10 DEF CommitRecord, OthersTyped, CreatorSteps
    <2>4. LocksTyped' /\ RecTyped'
      BY <1>10 DEF CommitRecord, LocksTyped, RecTyped
    <2> QED BY <2>2, <2>3, <2>4 DEF DiskTyped, OthersTyped, LocksTyped, RecTyped
  <1>11. ASSUME NEW c \in Creations, CommitMarks(c)  PROVE  CreationTypeOK'
    <2>1. DiskWrite(c)
      BY Values, <1>11 DEF CommitMarks, DiskWrite, RemovesIndex
    <2>2. DiskTyped'
      BY <2>1, DiskWrites DEF DiskTyped
    <2>3. OthersTyped'
      BY <1>11 DEF CommitMarks, OthersTyped, CreatorSteps
    <2>4. LocksTyped' /\ RecTyped'
      BY <1>11 DEF CommitMarks, LocksTyped, RecTyped
    <2> QED BY <2>2, <2>3, <2>4 DEF DiskTyped, OthersTyped, LocksTyped, RecTyped
  <1>12. ASSUME NEW c \in Creations, Fail(c)  PROVE  CreationTypeOK'
    BY <1>12 DEF Fail, CreatorSteps
  <1>13. ASSUME NEW c \in Creations, LeaveContext(c)  PROVE  CreationTypeOK'
    BY <1>13 DEF LeaveContext, CreatorSteps
  <1>14. ASSUME NEW c \in Creations, Relock(c)  PROVE  CreationTypeOK'
    BY <1>14 DEF Relock, ProvesAlone, LeaseFree, CreatorSteps
  <1>15. ASSUME NEW c \in Creations, Clean(c)  PROVE  CreationTypeOK'
    <2>1. DiskWrite(c)
      BY Values, <1>15 DEF Clean, DiskWrite, RemovesTree
    <2>2. DiskTyped'
      BY <2>1, DiskWrites DEF DiskTyped
    <2>3. OthersTyped'
      BY <1>15
         DEF Clean, RemovesTree, RemovesRecord, RemovesIndex, Releases, OthersTyped,
             CreatorSteps
    <2>4. LocksTyped' /\ RecTyped'
      BY <1>15, LockWrites DEF Clean, LocksTyped, RecTyped
    <2> QED BY <2>2, <2>3, <2>4 DEF DiskTyped, OthersTyped, LocksTyped, RecTyped
  <1>16. ASSUME NEW c \in Creations, CreatorKilled(c)  PROVE  CreationTypeOK'
    BY <1>16, LockWrites DEF CreatorKilled, CreatorSteps
  <1>17. ASSUME NEW c \in Creations, EngineWorks(c)  PROVE  CreationTypeOK'
    <2>1. DiskWrite(c)
      BY Values, <1>17 DEF EngineWorks, DiskWrite
    <2>2. DiskTyped'
      BY <2>1, DiskWrites DEF DiskTyped
    <2>3. OthersTyped'
      BY <1>17 DEF EngineWorks, OthersTyped, CreatorSteps
    <2>4. LocksTyped' /\ RecTyped'
      BY <1>17 DEF EngineWorks, LocksTyped, RecTyped
    <2> QED BY <2>2, <2>3, <2>4 DEF DiskTyped, OthersTyped, LocksTyped, RecTyped
  <1>18. ASSUME NEW c \in Creations, EngineEnds(c)  PROVE  CreationTypeOK'
    BY <1>18 DEF EngineEnds, CreatorSteps
  <1>19. ASSUME NEW c \in Creations, StrayEnds(c)  PROVE  CreationTypeOK'
    BY <1>19 DEF StrayEnds, CreatorSteps
  <1>20. ASSUME NEW c \in Creations, RuntimeStarts(c)  PROVE  CreationTypeOK'
    BY <1>20 DEF RuntimeStarts, CreatorSteps
  <1>21. ASSUME NEW c \in Creations, RuntimeWorks(c)  PROVE  CreationTypeOK'
    <2>1. DiskWrite(c)
      BY Values, <1>21 DEF RuntimeWorks, DiskWrite
    <2>2. DiskTyped'
      BY <2>1, DiskWrites DEF DiskTyped
    <2>3. OthersTyped'
      BY <1>21 DEF RuntimeWorks, OthersTyped, CreatorSteps
    <2>4. LocksTyped' /\ RecTyped'
      BY <1>21 DEF RuntimeWorks, LocksTyped, RecTyped
    <2> QED BY <2>2, <2>3, <2>4 DEF DiskTyped, OthersTyped, LocksTyped, RecTyped
  <1>22. ASSUME NEW c \in Creations, RuntimeEnds(c)  PROVE  CreationTypeOK'
    BY <1>22 DEF RuntimeEnds, CreatorSteps
  <1>23. ASSUME NEW r \in Reconcilers, NEW c \in Creations, Scan(r, c)  PROVE  CreationTypeOK'
    <2>1. Phase(c) \in Phases \ {"none"}
      BY <1>23 DEF Scan, Phase, Disks
    <2> QED BY <2>1, <1>23, LocalWrites DEF Scan
  <1>24. ASSUME NEW r \in Reconcilers, Lock(r)  PROVE  CreationTypeOK'
    <2> DEFINE c == rec[r].of
    <2>1. /\ rec[r].at # "idle"
          /\ \/ \E at \in ReconcilerSteps : RecGoes(r, at)
             \/ rec' = [rec EXCEPT ![r] = NoScan]
      BY Values, <1>24 DEF Lock, RecAt, Drops
    <2>2. RecTyped' /\ c \in Creations
      BY <2>1, RecWrites DEF RecTyped
    <2>3. DiskWrite(c)
      BY Values, <1>24 DEF Lock, DiskWrite, Target
    <2>4. DiskTyped'
      BY <2>2, <2>3, DiskWrites DEF DiskTyped
    <2>5. OthersTyped'
      BY <1>24, <2>2 DEF Lock, OthersTyped, OpensJournal, Target
    <2>6. LocksTyped'
      BY <1>24, <2>2, LockWrites DEF Lock, LocksTyped, Drops, Target
    <2> QED BY <2>2, <2>4, <2>5, <2>6 DEF DiskTyped, OthersTyped, LocksTyped, RecTyped
  <1>25. ASSUME NEW r \in Reconcilers, Decide(r)  PROVE  CreationTypeOK'
    <2> DEFINE c == rec[r].of
    <2>1. /\ rec[r].at # "idle"
          /\ \/ \E at \in ReconcilerSteps : RecGoes(r, at)
             \/ rec' = [rec EXCEPT ![r] = NoScan]
      BY Values, <1>25 DEF Decide, RecAt, Drops
    <2>2. RecTyped' /\ c \in Creations
      BY <2>1, RecWrites DEF RecTyped
    <2>3. DiskWrite(c)
      BY Values, <1>25 DEF Decide, DiskWrite, Target
    <2>4. DiskTyped'
      BY <2>2, <2>3, DiskWrites DEF DiskTyped
    <2>5. OthersTyped'
      BY <1>25, <2>2 DEF Decide, OthersTyped, OpensJournal, Target
    <2>6. LocksTyped'
      BY <1>25, <2>2, LockWrites DEF Decide, LocksTyped, Drops, Target
    <2> QED BY <2>2, <2>4, <2>5, <2>6 DEF DiskTyped, OthersTyped, LocksTyped, RecTyped
  <1>26. ASSUME NEW r \in Reconcilers, FinishRecovery(r)  PROVE  CreationTypeOK'
    <2> DEFINE c == rec[r].of
    <2>1. /\ rec[r].at # "idle"
          /\ \/ \E at \in ReconcilerSteps : RecGoes(r, at)
             \/ rec' = [rec EXCEPT ![r] = NoScan]
      BY Values, <1>26 DEF FinishRecovery, RecAt, Drops
    <2>2. RecTyped' /\ c \in Creations
      BY <2>1, RecWrites DEF RecTyped
    <2>3. DiskWrite(c)
      BY Values, <1>26 DEF FinishRecovery, DiskWrite, Target, OpensJournal, RemovesIndex
    <2>4. DiskTyped'
      BY <2>2, <2>3, DiskWrites DEF DiskTyped
    <2>5. OthersTyped'
      BY <1>26, <2>2 DEF FinishRecovery, OthersTyped, OpensJournal, Target
    <2>6. LocksTyped'
      BY <1>26, <2>2, LockWrites DEF FinishRecovery, LocksTyped, Drops, Target
    <2> QED BY <2>2, <2>4, <2>5, <2>6 DEF DiskTyped, OthersTyped, LocksTyped, RecTyped
  <1>27. ASSUME NEW r \in Reconcilers, Remove(r)  PROVE  CreationTypeOK'
    <2> DEFINE c == rec[r].of
    <2>1. /\ rec[r].at # "idle"
          /\ \/ \E at \in ReconcilerSteps : RecGoes(r, at)
             \/ rec' = [rec EXCEPT ![r] = NoScan]
      BY Values, <1>27 DEF Remove, RecAt, Drops
    <2>2. RecTyped' /\ c \in Creations
      BY <2>1, RecWrites DEF RecTyped
    <2>3. DiskWrite(c)
      BY Values, <1>27 DEF Remove, DiskWrite, Target, RemovesTree
    <2>4. DiskTyped'
      BY <2>2, <2>3, DiskWrites DEF DiskTyped
    <2>5. OthersTyped'
      BY <1>27, <2>2 DEF Remove, OthersTyped, OpensJournal, Target
    <2>6. LocksTyped'
      BY <1>27, <2>2, LockWrites DEF Remove, LocksTyped, Drops, Target
    <2> QED BY <2>2, <2>4, <2>5, <2>6 DEF DiskTyped, OthersTyped, LocksTyped, RecTyped
  <1>28. ASSUME NEW r \in Reconcilers, ReconcilerKilled(r)  PROVE  CreationTypeOK'
    <2> DEFINE c == rec[r].of
    <2>1. /\ rec[r].at # "idle"
          /\ \/ \E at \in ReconcilerSteps : RecGoes(r, at)
             \/ rec' = [rec EXCEPT ![r] = NoScan]
      BY Values, <1>28 DEF ReconcilerKilled, RecAt, Drops
    <2>2. RecTyped' /\ c \in Creations
      BY <2>1, RecWrites DEF RecTyped
    <2>3. DiskWrite(c)
      BY Values, <1>28 DEF ReconcilerKilled, DiskWrite, Target
    <2>4. DiskTyped'
      BY <2>2, <2>3, DiskWrites DEF DiskTyped
    <2>5. OthersTyped'
      BY <1>28, <2>2 DEF ReconcilerKilled, OthersTyped, OpensJournal, Target
    <2>6. LocksTyped'
      BY <1>28, <2>2, LockWrites DEF ReconcilerKilled, LocksTyped, Drops, Target
    <2> QED BY <2>2, <2>4, <2>5, <2>6 DEF DiskTyped, OthersTyped, LocksTyped, RecTyped
  <1>29. CASE UNCHANGED creationVars
    BY <1>29 DEF creationVars
  <1> QED
    BY <1>1, <1>2, <1>3, <1>4, <1>5, <1>6, <1>7, <1>8, <1>9, <1>10, <1>11, <1>12, <1>13, <1>14,
       <1>15, <1>16, <1>17, <1>18, <1>19, <1>20, <1>21, <1>22, <1>23, <1>24, <1>25, <1>26, <1>27,
       <1>28, <1>29
       DEF CreationNext, CreatorStep

\* A reconciler that is not idle has a creation in hand.
LEMMA Targets ==
  ASSUME CreationTypeOK
  PROVE  \A q \in Reconcilers : rec[q].at # "idle" => rec[q] \in Scans /\ rec[q].of \in Creations
  <1> SUFFICES ASSUME NEW q \in Reconcilers, rec[q].at # "idle"
               PROVE  rec[q] \in Scans /\ rec[q].of \in Creations
    OBVIOUS
  <1>1. rec[q] \in {NoScan} \cup Scans
    BY DEF CreationTypeOK
  <1>2. rec[q] \in Scans
    BY <1>1 DEF NoScan
  <1> QED BY <1>2 DEF Scans

\* A reconciler that has the lease goes on: the locks stay where they are.
LEMMA HolderGoes ==
  ASSUME CreationInv, NEW r \in Reconcilers, rec[r].at \notin {"idle", "lock"},
         NEW at \in ReconcilerSteps, RecGoes(r, at), UNCHANGED <<fresh, pc, engine, stray>>
  PROVE  OneHolder'
  BY DEF CreationInv, CreationTypeOK, OneHolder, OriginalHeld, InContext, RecGoes

\* A reconciler that gives up only gives back what it holds itself.
LEMMA HolderDrops ==
  ASSUME CreationInv, NEW r \in Reconcilers, rec[r].at # "idle",
         Drops(r), UNCHANGED <<pc, engine, stray>>
  PROVE  OneHolder'
  <1> USE CreationAssumption
      DEF CreationInv, CreationTypeOK, OneHolder, OriginalHeld, InContext, Drops, Releases, Target
  <1>1. \A d \in Creations : fresh'[d] # Nobody => ~OriginalHeld(d)'
    OBVIOUS
  <1>2. \A q \in Reconcilers : rec'[q].at \notin {"idle", "lock"} => fresh'[rec'[q].of] = q
    BY Targets DEF NoScan
  <1>3. \A d \in Creations : pc'[d] \in Cleaning => fresh'[d] = Creator
    BY Targets
  <1> QED BY <1>1, <1>2, <1>3

\* Every step keeps the locks of a creation exclusive.
LEMMA HolderStep ==
  ASSUME CreationInv, [CreationNext]_creationVars
  PROVE  OneHolder'
  <1> USE CreationAssumption
     DEF CreationInv, CreationTypeOK, OneHolder, OriginalHeld, InContext, Cleaning, creatorVars,
         engineVars, CreatorGoes
  <1>1. ASSUME NEW c \in Creations, Reserve(c)  PROVE  OneHolder'
    <2>1. fresh[c] = Nobody /\ pc[c] = "start" /\ UNCHANGED <<fresh, rec, engine, stray>>
      BY <1>1 DEF Reserve, CreatorKnows, Knows
    <2>2. \A d \in Creations \ {c} : pc'[d] = pc[d]
      BY ZenonT(40), <1>1 DEF Reserve
    <2>3. pc'[c] \notin Cleaning
      BY ZenonT(40), <1>1 DEF Reserve
    <2> QED BY <2>1, <2>2, <2>3
  <1>2. ASSUME NEW c \in Creations, BeginPrepare(c)  PROVE  OneHolder'
    BY <1>2 DEF BeginPrepare
  <1>3. ASSUME NEW c \in Creations, Launch(c)  PROVE  OneHolder'
    BY <1>3 DEF Launch
  <1>4. ASSUME NEW c \in Creations, EndPrepare(c)  PROVE  OneHolder'
    BY <1>4 DEF EndPrepare, AnchorsIntact, EvidenceMatches
  <1>5. ASSUME NEW c \in Creations, Interrupt(c)  PROVE  OneHolder'
    BY <1>5 DEF Interrupt
  <1>6. ASSUME NEW c \in Creations, PublicationStarted(c)  PROVE  OneHolder'
    BY <1>6 DEF PublicationStarted
  <1>7. ASSUME NEW c \in Creations, Bind(c)  PROVE  OneHolder'
    BY <1>7 DEF Bind
  <1>8. ASSUME NEW c \in Creations, BeginCommit(c)  PROVE  OneHolder'
    BY <1>8 DEF BeginCommit, AnchorsIntact, EvidenceMatches
  <1>9. ASSUME NEW c \in Creations, CommitJournal(c)  PROVE  OneHolder'
    BY <1>9 DEF CommitJournal, OpensJournal
  <1>10. ASSUME NEW c \in Creations, CommitRecord(c)  PROVE  OneHolder'
    BY <1>10 DEF CommitRecord
  <1>11. ASSUME NEW c \in Creations, CommitMarks(c)  PROVE  OneHolder'
    BY <1>11 DEF CommitMarks
  <1>12. ASSUME NEW c \in Creations, Fail(c)  PROVE  OneHolder'
    BY <1>12 DEF Fail
  <1>13. ASSUME NEW c \in Creations, LeaveContext(c)  PROVE  OneHolder'
    BY <1>13 DEF LeaveContext
  <1>14. ASSUME NEW c \in Creations, Relock(c)  PROVE  OneHolder'
    <2>1. \A d \in Creations : fresh'[d] # Nobody => ~OriginalHeld(d)'
      BY <1>14 DEF Relock, ProvesAlone, LeaseFree
    <2>2. \A q \in Reconcilers : rec'[q].at \notin {"idle", "lock"} => fresh'[rec'[q].of] = q
      BY <1>14, Targets DEF Relock, ProvesAlone, LeaseFree
    <2>3. \A d \in Creations : pc'[d] \in Cleaning => fresh'[d] = Creator
      BY <1>14 DEF Relock, ProvesAlone, LeaseFree
    <2> QED BY <2>1, <2>2, <2>3
  <1>15. ASSUME NEW c \in Creations, Clean(c)  PROVE  OneHolder'
    <2>1. \A d \in Creations : fresh'[d] # Nobody => ~OriginalHeld(d)'
      BY <1>15 DEF Clean, Releases
    <2>2. \A q \in Reconcilers : rec'[q].at \notin {"idle", "lock"} => fresh'[rec'[q].of] = q
      BY <1>15, Targets DEF Clean, Releases
    <2>3. \A d \in Creations : pc'[d] \in Cleaning => fresh'[d] = Creator
      BY <1>15 DEF Clean, Releases
    <2> QED BY <2>1, <2>2, <2>3
  <1>16. ASSUME NEW c \in Creations, CreatorKilled(c)  PROVE  OneHolder'
    BY <1>16 DEF CreatorKilled, Releases
  <1>17. ASSUME NEW c \in Creations, EngineWorks(c)  PROVE  OneHolder'
    BY <1>17 DEF EngineWorks
  <1>18. ASSUME NEW c \in Creations, EngineEnds(c)  PROVE  OneHolder'
    BY <1>18 DEF EngineEnds
  <1>19. ASSUME NEW c \in Creations, StrayEnds(c)  PROVE  OneHolder'
    BY <1>19 DEF StrayEnds
  <1>20. ASSUME NEW c \in Creations, RuntimeStarts(c)  PROVE  OneHolder'
    BY <1>20 DEF RuntimeStarts
  <1>21. ASSUME NEW c \in Creations, RuntimeWorks(c)  PROVE  OneHolder'
    BY <1>21 DEF RuntimeWorks
  <1>22. ASSUME NEW c \in Creations, RuntimeEnds(c)  PROVE  OneHolder'
    BY <1>22 DEF RuntimeEnds
  <1>23. ASSUME NEW r \in Reconcilers, NEW c \in Creations, Scan(r, c)  PROVE  OneHolder'
    BY <1>23 DEF Scan, RecAt
  <1>24. ASSUME NEW r \in Reconcilers, Lock(r)  PROVE  OneHolder'
    <2>0. rec[r].of \in Creations
      BY <1>24, Targets DEF Lock, RecAt
    <2>1. \A d \in Creations : fresh'[d] # Nobody => ~OriginalHeld(d)'
      BY <1>24, <2>0 DEF Lock, RecAt, RecGoes, Target, TryLease, LeaseFree, NoScan
    <2>2. \A q \in Reconcilers : rec'[q].at \notin {"idle", "lock"} => fresh'[rec'[q].of] = q
      <3>1. CASE TryLease(rec[r].of)
        <4>1. rec[r] \in Scans /\ rec' = [rec EXCEPT ![r].at = "decide"]
          BY <1>24, <3>1, Targets DEF Lock, RecAt, RecGoes, Target
        <4>2. rec'[r].of = rec[r].of /\ \A q \in Reconcilers \ {r} : rec'[q] = rec[q]
          BY <4>1 DEF Scans
        <4>3. fresh[rec[r].of] = Nobody /\ fresh' = [fresh EXCEPT ![rec[r].of] = r]
          BY <1>24, <3>1 DEF Lock, Target, TryLease, LeaseFree
        <4> QED BY <2>0, <4>2, <4>3, Targets
      <3>2. CASE ~TryLease(rec[r].of)
        BY <1>24, <3>2 DEF Lock, Target, NoScan
      <3> QED BY <3>1, <3>2
    <2>3. \A d \in Creations : pc'[d] \in Cleaning => fresh'[d] = Creator
      BY <1>24, <2>0 DEF Lock, RecAt, RecGoes, Target, TryLease, LeaseFree, NoScan
    <2> QED BY <2>1, <2>2, <2>3
  <1>25. ASSUME NEW r \in Reconcilers, Decide(r)  PROVE  OneHolder'
    <2>1. CASE Drops(r)
      BY <1>25, <2>1, HolderDrops DEF Decide, RecAt
    <2>2. CASE ~Drops(r)
      BY <1>25, <2>2, HolderGoes DEF Decide, RecAt, ReconcilerSteps
    <2> QED BY <2>1, <2>2
  <1>26. ASSUME NEW r \in Reconcilers, FinishRecovery(r)  PROVE  OneHolder'
    <2>1. CASE Drops(r)
      BY <1>26, <2>1, HolderDrops DEF FinishRecovery, RecAt
    <2>2. CASE ~Drops(r)
      BY <1>26, <2>2, HolderGoes DEF FinishRecovery, RecAt, ReconcilerSteps
    <2> QED BY <2>1, <2>2
  <1>27. ASSUME NEW r \in Reconcilers, Remove(r)  PROVE  OneHolder'
    <2>1. CASE Drops(r)
      BY <1>27, <2>1, HolderDrops DEF Remove, RecAt
    <2>2. CASE ~Drops(r)
      BY <1>27, <2>2, HolderGoes DEF Remove, RecAt, ReconcilerSteps
    <2> QED BY <2>1, <2>2
  <1>28. ASSUME NEW r \in Reconcilers, ReconcilerKilled(r)  PROVE  OneHolder'
    BY <1>28, HolderDrops DEF ReconcilerKilled, RecAt
  <1>29. CASE UNCHANGED creationVars
    BY <1>29 DEF creationVars
  <1> QED
    BY <1>1, <1>2, <1>3, <1>4, <1>5, <1>6, <1>7, <1>8, <1>9, <1>10, <1>11, <1>12, <1>13, <1>14,
       <1>15, <1>16, <1>17, <1>18, <1>19, <1>20, <1>21, <1>22, <1>23, <1>24, <1>25, <1>26, <1>27,
       <1>28, <1>29
       DEF CreationNext, CreatorStep

\* A reconciler with the lease is alone: the creator has left its context and
\* does not clean up, no heir of its descriptor lives, and no other reconciler
\* is at work on the creation.
LEMMA Alone ==
  ASSUME CreationInv, NEW r \in Reconcilers, rec[r].at \notin {"idle", "lock"}
  PROVE  LET c == rec[r].of IN
         /\ c \in Creations /\ fresh[c] = r
         /\ pc[c] \in {"relock", "gone"} /\ engine[c] # "running"
         /\ \A q \in Reconcilers : rec[q].of = c /\ rec[q].at \notin {"idle", "lock"} => q = r
  <1>1. rec[r].of \in Creations
    BY Targets DEF CreationInv
  <1>2. fresh[rec[r].of] = r
    BY DEF CreationInv, OneHolder
  <1>3. ~OriginalHeld(rec[r].of) /\ pc[rec[r].of] \notin Cleaning
    BY <1>1, <1>2, CreationAssumption DEF CreationInv, OneHolder
  <1>4. pc[rec[r].of] # "start" /\ pc[rec[r].of] \in CreatorSteps
    BY <1>1 DEF CreationInv, CreationTypeOK, ReconcilerKnows, Remembers
  <1>5. pc[rec[r].of] \in {"relock", "gone"} /\ engine[rec[r].of] # "running"
    BY <1>3, <1>4 DEF OriginalHeld, InContext, Cleaning
  <1>6. \A q \in Reconcilers :
          rec[q].of = rec[r].of /\ rec[q].at \notin {"idle", "lock"} => q = r
    BY <1>2 DEF CreationInv, OneHolder
  <1> QED BY <1>1, <1>2, <1>5, <1>6

\* What is known of a creation stays known when nothing of it changed.
LEMMA KnowsFrame ==
  ASSUME NEW d \in Creations, Knows(d), disk'[d] = disk[d], pc'[d] = pc[d],
         opened'[d] = opened[d], engine'[d] = engine[d], UNCHANGED <<binding, mode>>,
         fresh'[d] = fresh[d] \/ pc[d] # "start"
  PROVE  Knows(d)'
  BY DEF Knows, Phase, Journal, Whole, Standalone, Cleaning

\* Nothing is claimed of a creation whose creator has left its context.
LEMMA KnowsNothing ==
  ASSUME NEW c \in Creations, pc'[c] \in {"relock", "gone"}
  PROVE  Knows(c)'
  BY DEF Knows, Cleaning, Finishing

\* Every step keeps what the creators know.
LEMMA CreatorStepKnows ==
  ASSUME CreationInv, [CreationNext]_creationVars
  PROVE  CreatorKnows'
  <1> USE CreationAssumption DEF CreationInv, CreatorKnows, creatorVars, engineVars, CreatorGoes
  <1>1. ASSUME NEW c \in Creations, Reserve(c)  PROVE  CreatorKnows'
    <2>1. \A d \in Creations \ {c} : Knows(d)'
      BY <1>1, KnowsFrame DEF Reserve, CreationTypeOK
    <2>2. Knows(c)'
      BY <1>1
         DEF Reserve, Reservation, NoTrace, CreationTypeOK, Knows, Disks, Standalone, Phase,
             Journal, Cleaning, Finishing, Whole
    <2> QED BY <2>1, <2>2
  <1>2. ASSUME NEW c \in Creations, BeginPrepare(c)  PROVE  CreatorKnows'
    BY <1>2
       DEF BeginPrepare, CreationTypeOK, Knows, Disks, Standalone, Phase, Journal, Cleaning,
           Finishing, Whole
  <1>3. ASSUME NEW c \in Creations, Launch(c)  PROVE  CreatorKnows'
    BY <1>3
       DEF Launch, CreationTypeOK, Knows, Disks, Standalone, Phase, Journal, Cleaning, Finishing,
           Whole
  <1>4. ASSUME NEW c \in Creations, EndPrepare(c)  PROVE  CreatorKnows'
    BY <1>4
       DEF EndPrepare, AnchorsIntact, EvidenceMatches, CreationTypeOK, Knows, Disks, Standalone,
           Phase, Journal, Cleaning, Finishing, Whole
  <1>5. ASSUME NEW c \in Creations, Interrupt(c)  PROVE  CreatorKnows'
    BY <1>5
       DEF Interrupt, CreationTypeOK, Knows, Disks, Standalone, Phase, Journal, Cleaning,
           Finishing, Whole
  <1>6. ASSUME NEW c \in Creations, PublicationStarted(c)  PROVE  CreatorKnows'
    BY <1>6
       DEF PublicationStarted, CreationTypeOK, Knows, Disks, Standalone, Phase, Journal,
           Cleaning, Finishing, Whole
  <1>7. ASSUME NEW c \in Creations, Bind(c)  PROVE  CreatorKnows'
    BY <1>7
       DEF Bind, CreationTypeOK, Knows, Disks, Standalone, Phase, Journal, Cleaning, Finishing,
           Whole
  <1>8. ASSUME NEW c \in Creations, BeginCommit(c)  PROVE  CreatorKnows'
    BY <1>8
       DEF BeginCommit, AnchorsIntact, EvidenceMatches, CreationTypeOK, Knows, Disks, Standalone,
           Phase, Journal, Cleaning, Finishing, Whole
  <1>9. ASSUME NEW c \in Creations, CommitJournal(c)  PROVE  CreatorKnows'
    BY <1>9
       DEF CommitJournal, OpensJournal, CreationTypeOK, Knows, Disks, Standalone, Phase, Journal,
           Cleaning, Finishing, Whole
  <1>10. ASSUME NEW c \in Creations, CommitRecord(c)  PROVE  CreatorKnows'
    BY <1>10
       DEF CommitRecord, CreationTypeOK, Knows, Disks, Standalone, Phase, Journal, Cleaning,
           Finishing, Whole
  <1>11. ASSUME NEW c \in Creations, CommitMarks(c)  PROVE  CreatorKnows'
    <2>1. \A d \in Creations \ {c} : Knows(d)'
      BY <1>11, KnowsFrame DEF CommitMarks, CreationTypeOK
    <2>2. Knows(c)'
      BY <1>11
         DEF CommitMarks, NoTrace, CreationTypeOK, Knows, Disks, Standalone, Phase, Journal,
             Cleaning, Finishing, Whole
    <2> QED BY <2>1, <2>2
  <1>12. ASSUME NEW c \in Creations, Fail(c)  PROVE  CreatorKnows'
    BY <1>12
       DEF Fail, CreationTypeOK, Knows, Disks, Standalone, Phase, Journal, Cleaning, Finishing,
           Whole
  <1>13. ASSUME NEW c \in Creations, LeaveContext(c)  PROVE  CreatorKnows'
    BY <1>13
       DEF LeaveContext, CreationTypeOK, Knows, Disks, Standalone, Phase, Journal, Cleaning, Finishing,
           Whole
  <1>14. ASSUME NEW c \in Creations, Relock(c)  PROVE  CreatorKnows'
    BY <1>14
       DEF Relock, ProvesAlone, LeaseFree, CreationTypeOK, Knows, Disks, Standalone, Phase,
           Journal, Cleaning, Finishing, Whole
  <1>15. ASSUME NEW c \in Creations, Clean(c)  PROVE  CreatorKnows'
    BY <1>15
       DEF Clean, RemovesTree, RemovesRecord, RemovesIndex, Releases, CreationTypeOK, Knows,
           Disks, Standalone, Phase, Journal, Cleaning, Finishing, Whole
  <1>16. ASSUME NEW c \in Creations, CreatorKilled(c)  PROVE  CreatorKnows'
    BY <1>16
       DEF CreatorKilled, Releases, CreationTypeOK, Knows, Disks, Standalone, Phase, Journal,
           Cleaning, Finishing, Whole
  <1>17. ASSUME NEW c \in Creations, EngineWorks(c)  PROVE  CreatorKnows'
    <2>1. \A d \in Creations \ {c} : Knows(d)'
      BY <1>17, KnowsFrame DEF EngineWorks, CreationTypeOK
    <2>2. Knows(c)'
      BY <1>17
         DEF EngineWorks, NoTrace, CreationTypeOK, Knows, Disks, Standalone, Phase, Journal,
             Cleaning, Finishing, Whole
    <2> QED BY <2>1, <2>2
  <1>18. ASSUME NEW c \in Creations, EngineEnds(c)  PROVE  CreatorKnows'
    BY <1>18
       DEF EngineEnds, CreationTypeOK, Knows, Disks, Standalone, Phase, Journal, Cleaning,
           Finishing, Whole
  <1>19. ASSUME NEW c \in Creations, StrayEnds(c)  PROVE  CreatorKnows'
    BY <1>19
       DEF StrayEnds, CreationTypeOK, Knows, Disks, Standalone, Phase, Journal, Cleaning,
           Finishing, Whole
  <1>20. ASSUME NEW c \in Creations, RuntimeStarts(c)  PROVE  CreatorKnows'
    BY <1>20
       DEF RuntimeStarts, CreationTypeOK, Knows, Disks, Standalone, Phase, Journal, Cleaning,
           Finishing, Whole
  <1>21. ASSUME NEW c \in Creations, RuntimeWorks(c)  PROVE  CreatorKnows'
    <2>1. \A d \in Creations \ {c} : Knows(d)'
      BY <1>21, KnowsFrame DEF RuntimeWorks, CreationTypeOK
    <2>2. Knows(c)'
      BY <1>21
         DEF RuntimeWorks, NoTrace, CreationTypeOK, Knows, Disks, Standalone, Phase, Journal,
             Cleaning, Finishing, Whole
    <2> QED BY <2>1, <2>2
  <1>22. ASSUME NEW c \in Creations, RuntimeEnds(c)  PROVE  CreatorKnows'
    BY <1>22
       DEF RuntimeEnds, CreationTypeOK, Knows, Disks, Standalone, Phase, Journal, Cleaning,
           Finishing, Whole
  <1>23. ASSUME NEW r \in Reconcilers, NEW c \in Creations, Scan(r, c)  PROVE  CreatorKnows'
    BY <1>23
       DEF Scan, RecAt, CreationTypeOK, Knows, Disks, Standalone, Phase, Journal, Cleaning,
           Finishing, Whole
  <1>24. ASSUME NEW r \in Reconcilers, Lock(r)  PROVE  CreatorKnows'
    <2>1. pc[rec[r].of] # "start"
      BY <1>24 DEF Lock, RecAt, ReconcilerKnows, Remembers
    <2>2. UNCHANGED <<disk, pc, opened, engine, binding, mode>>
      BY <1>24 DEF Lock
    <2>3. \A d \in Creations : fresh'[d] = fresh[d] \/ pc[d] # "start"
      BY <1>24, <2>1 DEF Lock, Target, CreationTypeOK
    <2> QED BY <2>2, <2>3, KnowsFrame
  <1>25. ASSUME NEW r \in Reconcilers, Decide(r)  PROVE  CreatorKnows'
    BY <1>25
       DEF Decide, RecAt, RecGoes, Target, Drops, Releases, CreationTypeOK, Knows, Disks,
           Standalone, Phase, Journal, Cleaning, Finishing, Whole
  <1>26. ASSUME NEW r \in Reconcilers, FinishRecovery(r)  PROVE  CreatorKnows'
    <2>0. PICK c \in Creations : c = rec[r].of
      BY <1>26, Alone DEF FinishRecovery, RecAt
    <2>1. pc[c] \in {"relock", "gone"}
      BY <1>26, <2>0, Alone DEF FinishRecovery, RecAt
    <2>2. UNCHANGED <<pc, binding, mode, engine>>
      BY <1>26 DEF FinishRecovery
    <2>3. \A d \in Creations \ {c} :
            disk'[d] = disk[d] /\ opened'[d] = opened[d] /\ fresh'[d] = fresh[d]
      BY <1>26, <2>0
         DEF FinishRecovery, OpensJournal, Drops, Releases, RecAt, RecGoes, Target, CreationTypeOK
    <2>4. \A d \in Creations \ {c} : Knows(d)'
      BY <2>2, <2>3, KnowsFrame
    <2>5. Knows(c)'
      BY <2>1, <2>2, KnowsNothing
    <2> QED BY <2>4, <2>5
  <1>27. ASSUME NEW r \in Reconcilers, Remove(r)  PROVE  CreatorKnows'
    <2>0. PICK c \in Creations : c = rec[r].of
      BY <1>27, Alone DEF Remove, RecAt
    <2>1. pc[c] \in {"relock", "gone"}
      BY <1>27, <2>0, Alone DEF Remove, RecAt
    <2>2. UNCHANGED <<pc, binding, mode, engine>>
      BY <1>27 DEF Remove
    <2>3. \A d \in Creations \ {c} :
            disk'[d] = disk[d] /\ opened'[d] = opened[d] /\ fresh'[d] = fresh[d]
      BY <1>27, <2>0
         DEF Remove, RecAt, RecGoes, Target, Drops, Releases, RemovesTree, RemovesRecord,
             RemovesIndex, CreationTypeOK
    <2>4. \A d \in Creations \ {c} : Knows(d)'
      BY <2>2, <2>3, KnowsFrame
    <2>5. Knows(c)'
      BY <2>1, <2>2, KnowsNothing
    <2> QED BY <2>4, <2>5
  <1>28. ASSUME NEW r \in Reconcilers, ReconcilerKilled(r)  PROVE  CreatorKnows'
    BY <1>28
       DEF ReconcilerKilled, RecAt, Target, Drops, Releases, CreationTypeOK, Knows, Disks,
           Standalone, Phase, Journal, Cleaning, Finishing, Whole
  <1>29. CASE UNCHANGED creationVars
    BY <1>29
       DEF creationVars, CreationTypeOK, Knows, Disks, Standalone, Phase, Journal, Cleaning, Finishing,
           Whole
  <1> QED
    BY <1>1, <1>2, <1>3, <1>4, <1>5, <1>6, <1>7, <1>8, <1>9, <1>10, <1>11, <1>12, <1>13, <1>14,
       <1>15, <1>16, <1>17, <1>18, <1>19, <1>20, <1>21, <1>22, <1>23, <1>24, <1>25, <1>26, <1>27,
       <1>28, <1>29
       DEF CreationNext, CreatorStep

\* The steps that are not a reconciler's.
CreatorSide(c) ==
  \/ CreatorStep(c) \/ CreatorKilled(c) \/ EngineWorks(c) \/ EngineEnds(c) \/ StrayEnds(c)
  \/ RuntimeStarts(c) \/ RuntimeWorks(c) \/ RuntimeEnds(c)

\* What a step of a creator, its engine or a runtime may do to creation c
\* beside reconcilers: declared intents stay, and a creation whose creator and
\* engine have ended is not published, changed before publication, or undone.
Respects(c) ==
  /\ \A d \in Creations \ {c} :
       disk'[d] = disk[d] /\ pc'[d] = pc[d] /\ binding'[d] = binding[d]
  /\ UNCHANGED <<mode, rec>>
  /\ pc[c] # "start" => pc'[c] # "start" /\ (Phase(c) \in Declared => Phase(c)' \in Declared)
  /\ pc[c] \in {"relock", "gone"} /\ engine[c] # "running" =>
       /\ Journal(c) = "none" => disk'[c] = disk[c] /\ binding'[c] = binding[c]
       /\ Journal(c) # "none" => Journal(c)' # "none"

\* What a reconciler remembers of a creation survives such a step.
LEMMA RemembersFrame ==
  ASSUME NEW q \in Reconcilers, NEW c \in Creations, Remembers(q, c),
         rec'[q] = rec[q], mode' = mode, pc'[c] # "start",
         Phase(c) \in Declared => Phase(c)' \in Declared,
         rec[q].at \in {"open"} \cup Finishing \cup Cleaning =>
           /\ Journal(c) = "none" => disk'[c] = disk[c] /\ binding'[c] = binding[c]
           /\ Journal(c) # "none" => Journal(c)' # "none"
  PROVE  Remembers(q, c)'
  BY DEF Remembers, Declared, Finishing, Cleaning, Phase, Journal, Whole, Standalone

\* Steps that respect the creation keep what every reconciler remembers.
LEMMA RespectsKnown ==
  ASSUME CreationInv, NEW c \in Creations, Respects(c)
  PROVE  ReconcilerKnows'
  <1> SUFFICES ASSUME NEW q \in Reconcilers, rec'[q].at # "idle"
               PROVE  Remembers(q, rec[q].of)'
    BY DEF ReconcilerKnows, Respects
  <1>0. rec' = rec /\ mode' = mode
    BY DEF Respects
  <1>1. PICK d \in Creations : d = rec[q].of
    BY <1>0, Targets DEF CreationInv
  <1>2. Remembers(q, d)
    BY <1>0, <1>1 DEF CreationInv, ReconcilerKnows
  <1>3. pc[d] # "start"
    BY <1>2 DEF Remembers
  <1>4. pc'[d] # "start" /\ (Phase(d) \in Declared => Phase(d)' \in Declared)
    BY <1>3 DEF Respects, Phase
  <1>5. ASSUME rec[q].at \in {"open"} \cup Finishing \cup Cleaning
        PROVE  /\ Journal(d) = "none" => disk'[d] = disk[d] /\ binding'[d] = binding[d]
               /\ Journal(d) # "none" => Journal(d)' # "none"
    <2>1. pc[d] \in {"relock", "gone"} /\ engine[d] # "running"
      BY <1>1, <1>5, Alone DEF Finishing, Cleaning
    <2> QED BY <2>1 DEF Respects, Journal
  <1>6. Remembers(q, d)'
    BY <1>0, <1>2, <1>4, <1>5, RemembersFrame
  <1> QED BY <1>0, <1>1, <1>6

\* What a step of reconciler r may do to its creation beside the others.
LEMMA OthersRemember ==
  ASSUME CreationInv, NEW r \in Reconcilers, NEW c \in Creations, c = rec[r].of,
         NEW q \in Reconcilers \ {r}, rec[q].at # "idle",
         rec'[q] = rec[q], UNCHANGED <<mode, pc, binding>>,
         \A d \in Creations \ {c} : disk'[d] = disk[d],
         \/ UNCHANGED disk
         \/ rec[r].at \notin {"idle", "lock"} /\ (Phase(c) \in Declared => Phase(c)' \in Declared)
  PROVE  Remembers(q, rec[q].of)'
  <1>1. PICK d \in Creations : d = rec[q].of
    BY Targets DEF CreationInv
  <1>2. Remembers(q, d)
    BY <1>1 DEF CreationInv, ReconcilerKnows
  <1>3. pc'[d] # "start"
    BY <1>2 DEF Remembers
  <1>4. CASE disk'[d] = disk[d]
    BY <1>2, <1>3, <1>4, RemembersFrame, <1>1 DEF Phase, Journal
  <1>5. CASE disk'[d] # disk[d]
    <2>1. /\ d = c /\ rec[r].at \notin {"idle", "lock"}
          /\ Phase(d) \in Declared => Phase(d)' \in Declared
      BY <1>5
    <2>2. rec[q].at \in {"idle", "lock"}
      <3>1. rec[q].of = rec[r].of /\ q # r
        BY <1>1, <2>1
      <3> QED BY <2>1, <3>1, Alone
    <2>3. rec[q].at \notin {"open"} \cup Finishing \cup Cleaning
      BY <2>2 DEF Finishing, Cleaning
    <2> QED BY <1>1, <1>2, <1>3, <2>1, <2>3, RemembersFrame
  <1> QED BY <1>4, <1>5

\* A reconciler that goes on keeps its creation and what it has seen of it; one
\* that gives up has none.
LEMMA GoesOn ==
  ASSUME CreationTypeOK, NEW r \in Reconcilers, rec[r].at # "idle"
  PROVE  /\ \A at \in ReconcilerSteps : RecGoes(r, at) =>
              rec'[r].at = at /\ rec'[r].of = rec[r].of /\ rec'[r].seen = rec[r].seen
         /\ Drops(r) \/ rec' = [rec EXCEPT ![r] = NoScan] => rec'[r].at = "idle"
  <1>1. rec[r] \in Scans /\ rec \in [Reconcilers -> {NoScan} \cup Scans]
    BY Targets DEF CreationTypeOK
  <1> QED BY <1>1 DEF Scans, RecGoes, Drops, NoScan

\* Creators, engines and runtimes respect the creation they act on.
LEMMA SideRespects ==
  ASSUME CreationInv, NEW c \in Creations, CreatorSide(c)
  PROVE  Respects(c)
  <1> USE CreationAssumption
     DEF CreationInv, CreationTypeOK, CreatorKnows, Knows, Phase, Journal, Cleaning, Finishing,
         Whole, Standalone, Declared, Respects, NoTrace, creatorVars, engineVars, CreatorGoes
  <1>1. CASE Reserve(c)
    <2> HIDE DEF CreatorKnows, Knows
    <2>1. /\ \A d \in Creations \ {c} :
               disk'[d] = disk[d] /\ pc'[d] = pc[d] /\ binding'[d] = binding[d]
          /\ UNCHANGED <<mode, rec>>
      BY <1>1 DEF Reserve
    <2>2. ASSUME pc[c] # "start"
          PROVE  pc'[c] # "start" /\ (Phase(c) \in Declared => Phase(c)' \in Declared)
      BY <1>1, <2>2 DEF Reserve, Disks
    <2>3. ASSUME pc[c] \in {"relock", "gone"}, engine[c] # "running"
          PROVE  /\ Journal(c) = "none" => disk'[c] = disk[c] /\ binding'[c] = binding[c]
                 /\ Journal(c) # "none" => Journal(c)' # "none"
      BY <1>1, <2>3 DEF Reserve, Disks
    <2> QED BY <2>1, <2>2, <2>3
  <1>2. CASE BeginPrepare(c)
    BY <1>2 DEF BeginPrepare
  <1>3. CASE Launch(c)
    BY <1>3 DEF Launch
  <1>4. CASE EndPrepare(c)
    BY <1>4 DEF EndPrepare, AnchorsIntact, EvidenceMatches
  <1>5. CASE Interrupt(c)
    BY <1>5 DEF Interrupt
  <1>6. CASE PublicationStarted(c)
    BY <1>6 DEF PublicationStarted
  <1>7. CASE Bind(c)
    BY <1>7 DEF Bind
  <1>8. CASE BeginCommit(c)
    BY <1>8 DEF BeginCommit, AnchorsIntact, EvidenceMatches
  <1>9. CASE CommitJournal(c)
    BY <1>9 DEF CommitJournal, OpensJournal
  <1>10. CASE CommitRecord(c)
    BY <1>10 DEF CommitRecord
  <1>11. CASE CommitMarks(c)
    <2>1. /\ \A d \in Creations \ {c} :
               disk'[d] = disk[d] /\ pc'[d] = pc[d] /\ binding'[d] = binding[d]
          /\ UNCHANGED <<mode, rec>>
      BY <1>11 DEF CommitMarks
    <2>2. ASSUME pc[c] # "start"
          PROVE  pc'[c] # "start" /\ (Phase(c) \in Declared => Phase(c)' \in Declared)
      BY <1>11, <2>2 DEF CommitMarks, Disks
    <2>3. ASSUME pc[c] \in {"relock", "gone"}, engine[c] # "running"
          PROVE  /\ Journal(c) = "none" => disk'[c] = disk[c] /\ binding'[c] = binding[c]
                 /\ Journal(c) # "none" => Journal(c)' # "none"
      BY <1>11, <2>3 DEF CommitMarks, Disks
    <2> QED BY <2>1, <2>2, <2>3
  <1>12. CASE Fail(c)
    BY <1>12 DEF Fail
  <1>13. CASE LeaveContext(c)
    BY <1>13 DEF LeaveContext
  <1>14. CASE Relock(c)
    BY <1>14 DEF Relock, ProvesAlone, LeaseFree
  <1>15. CASE Clean(c)
    <2>1. /\ \A d \in Creations \ {c} :
               disk'[d] = disk[d] /\ pc'[d] = pc[d] /\ binding'[d] = binding[d]
          /\ UNCHANGED <<mode, rec>>
      BY <1>15 DEF Clean, RemovesTree, RemovesRecord, RemovesIndex, Releases
    <2>2. ASSUME pc[c] # "start"
          PROVE  pc'[c] # "start" /\ (Phase(c) \in Declared => Phase(c)' \in Declared)
      BY <1>15, <2>2 DEF Clean, RemovesTree, RemovesRecord, RemovesIndex, Releases, Disks
    <2>3. ASSUME pc[c] \in {"relock", "gone"}, engine[c] # "running"
          PROVE  /\ Journal(c) = "none" => disk'[c] = disk[c] /\ binding'[c] = binding[c]
                 /\ Journal(c) # "none" => Journal(c)' # "none"
      BY <1>15, <2>3 DEF Clean, Disks
    <2> QED BY <2>1, <2>2, <2>3
  <1>16. CASE CreatorKilled(c)
    BY <1>16 DEF CreatorKilled, Releases
  <1>17. CASE EngineWorks(c)
    <2>1. /\ \A d \in Creations \ {c} :
               disk'[d] = disk[d] /\ pc'[d] = pc[d] /\ binding'[d] = binding[d]
          /\ UNCHANGED <<mode, rec>>
      BY <1>17 DEF EngineWorks
    <2>2. ASSUME pc[c] # "start"
          PROVE  pc'[c] # "start" /\ (Phase(c) \in Declared => Phase(c)' \in Declared)
      BY <1>17, <2>2 DEF EngineWorks, Disks
    <2>3. ASSUME pc[c] \in {"relock", "gone"}, engine[c] # "running"
          PROVE  /\ Journal(c) = "none" => disk'[c] = disk[c] /\ binding'[c] = binding[c]
                 /\ Journal(c) # "none" => Journal(c)' # "none"
      BY <1>17, <2>3 DEF EngineWorks, Disks
    <2> QED BY <2>1, <2>2, <2>3
  <1>18. CASE EngineEnds(c)
    BY <1>18 DEF EngineEnds
  <1>19. CASE StrayEnds(c)
    BY <1>19 DEF StrayEnds
  <1>20. CASE RuntimeStarts(c)
    BY <1>20 DEF RuntimeStarts
  <1>21. CASE RuntimeWorks(c)
    <2>1. /\ \A d \in Creations \ {c} :
               disk'[d] = disk[d] /\ pc'[d] = pc[d] /\ binding'[d] = binding[d]
          /\ UNCHANGED <<mode, rec>>
      BY <1>21 DEF RuntimeWorks
    <2>2. ASSUME pc[c] # "start"
          PROVE  pc'[c] # "start" /\ (Phase(c) \in Declared => Phase(c)' \in Declared)
      BY <1>21, <2>2 DEF RuntimeWorks, Disks
    <2>3. ASSUME pc[c] \in {"relock", "gone"}, engine[c] # "running"
          PROVE  /\ Journal(c) = "none" => disk'[c] = disk[c] /\ binding'[c] = binding[c]
                 /\ Journal(c) # "none" => Journal(c)' # "none"
      BY <1>21, <2>3 DEF RuntimeWorks, Disks
    <2> QED BY <2>1, <2>2, <2>3
  <1>22. CASE RuntimeEnds(c)
    BY <1>22 DEF RuntimeEnds
  <1> QED
    BY <1>1, <1>2, <1>3, <1>4, <1>5, <1>6, <1>7, <1>8, <1>9, <1>10, <1>11, <1>12, <1>13, <1>14,
       <1>15, <1>16, <1>17, <1>18, <1>19, <1>20, <1>21, <1>22
       DEF CreatorSide, CreatorStep

\* Every step keeps what the reconcilers know.
LEMMA ReconcilerStepKnows ==
  ASSUME CreationInv, [CreationNext]_creationVars
  PROVE  ReconcilerKnows'
  <1> USE CreationAssumption DEF CreationInv, creatorVars, engineVars, CreatorGoes
  <1>1. ASSUME NEW c \in Creations, CreatorSide(c)  PROVE  ReconcilerKnows'
    BY <1>1, SideRespects, RespectsKnown
  <1>2. ASSUME NEW r \in Reconcilers, NEW c \in Creations, Scan(r, c)  PROVE  ReconcilerKnows'
    <2>1. pc[c] # "start" /\ UNCHANGED <<disk, pc, binding, mode>>
      BY <1>2 DEF Scan, CreatorKnows, Knows, NoTrace, Phase
    <2>2. Remembers(r, c)'
      BY <1>2, <2>1 DEF Scan, Remembers, Finishing, Cleaning, Declared, Phase, CreationTypeOK
    <2>3. rec[r].at = "idle" /\ rec'[r].of = c /\ \A q \in Reconcilers \ {r} : rec'[q] = rec[q]
      BY <1>2 DEF Scan, RecAt, CreationTypeOK
    <2>4. \A q \in Reconcilers \ {r} : rec[q].at # "idle" => Remembers(q, rec[q].of)'
      BY <2>1, <2>3, RemembersFrame, Targets DEF ReconcilerKnows, Remembers, Phase, Journal
    <2> QED BY <2>2, <2>3, <2>4 DEF ReconcilerKnows
  <1>3. ASSUME NEW r \in Reconcilers, Lock(r)  PROVE  ReconcilerKnows'
    <2>1. PICK c \in Creations : c = rec[r].of
      BY <1>3, Targets DEF Lock, RecAt
    <2>2. /\ rec[r].at # "idle" /\ UNCHANGED <<mode, pc, binding>>
          /\ \A q \in Reconcilers \ {r} : rec'[q] = rec[q]
          /\ \A d \in Creations \ {c} : disk'[d] = disk[d]
      BY <1>3, <2>1 DEF Lock, RecAt, RecGoes, Target, TryLease, LeaseFree, CreationTypeOK
    <2>3. \/ UNCHANGED disk
          \/ rec[r].at \notin {"idle", "lock"} /\ (Phase(c) \in Declared => Phase(c)' \in Declared)
      BY <1>3 DEF Lock
    <2>4. \A q \in Reconcilers \ {r} : rec'[q].at # "idle" => Remembers(q, rec[q].of)'
      BY <2>1, <2>2, <2>3, OthersRemember
    <2>5. rec'[r].at # "idle" => rec'[r].of = c
      BY <1>3, <2>1, Targets
         DEF Lock, RecAt, RecGoes, Target, TryLease, LeaseFree, NoScan, Scans, CreationTypeOK
    <2>6. rec'[r].at # "idle" => Remembers(r, c)'
      <3>1. Remembers(r, c) /\ "decide" \in ReconcilerSteps
        BY <2>1, <2>2 DEF ReconcilerKnows, ReconcilerSteps
      <3>2. rec'[r].at = "idle" \/ (rec'[r].at = "decide" /\ rec'[r].seen = rec[r].seen)
        BY <1>3, <2>2, <3>1, GoesOn DEF Lock
      <3> QED BY <1>3, <2>2, <3>1, <3>2 DEF Lock, Remembers, Finishing, Cleaning, Phase
    <2> QED BY <2>2, <2>4, <2>5, <2>6 DEF ReconcilerKnows
  <1>4. ASSUME NEW r \in Reconcilers, Decide(r)  PROVE  ReconcilerKnows'
    <2>1. PICK c \in Creations : c = rec[r].of
      BY <1>4, Targets DEF Decide, RecAt
    <2>2. /\ rec[r].at # "idle" /\ UNCHANGED <<mode, pc, binding>>
          /\ \A q \in Reconcilers \ {r} : rec'[q] = rec[q]
          /\ \A d \in Creations \ {c} : disk'[d] = disk[d]
      BY <1>4, <2>1 DEF Decide, RecAt, RecGoes, Target, Drops, Releases, CreationTypeOK
    <2>3. \/ UNCHANGED disk
          \/ rec[r].at \notin {"idle", "lock"} /\ (Phase(c) \in Declared => Phase(c)' \in Declared)
      BY <1>4 DEF Decide
    <2>4. \A q \in Reconcilers \ {r} : rec'[q].at # "idle" => Remembers(q, rec[q].of)'
      BY <2>1, <2>2, <2>3, OthersRemember
    <2>5. rec'[r].at # "idle" => rec'[r].of = c
      BY <1>4, <2>1, Targets
         DEF Decide, RecAt, RecGoes, Target, Drops, Releases, NoScan, Scans, CreationTypeOK
    <2>6. rec'[r].at # "idle" => Remembers(r, c)'
      <3> DEFINE seen == rec[r].seen
      <3>1. Remembers(r, c) /\ {"record", "open", "clean"} \subseteq ReconcilerSteps
        BY <2>1, <2>2 DEF ReconcilerKnows, ReconcilerSteps
      <3>2. CASE Drops(r)
        BY <3>2, <2>2, GoesOn
      <3>3. CASE Journal(c) # "none" /\ RecGoes(r, "record")
        <4>1. rec'[r].at = "record" /\ rec'[r].seen = rec[r].seen
          BY <3>1, <3>3, <2>2, GoesOn
        <4> QED BY <1>4, <2>2, <3>1, <3>3, <4>1
                   DEF Decide, Remembers, Finishing, Cleaning, Phase, Journal
      <3>4. CASE Journal(c) = "none" /\ RecGoes(r, "clean")
        <4>1. rec'[r].at = "clean" /\ rec'[r].seen = rec[r].seen
          BY <3>1, <3>4, <2>2, GoesOn
        <4> QED BY <1>4, <2>2, <3>1, <3>4, <4>1
                   DEF Decide, Remembers, Finishing, Cleaning, Phase, Journal
      <3>5. ASSUME NEW readback \in BindingReadback(c), Journal(c) = "none", AnchorsIntact(c),
                   MayPublish(c, rec[r].seen, readback), RecGoes(r, "open")
            PROVE  Remembers(r, c)'
        <4>1. rec'[r].at = "open" /\ rec'[r].seen = rec[r].seen
          BY <3>1, <3>5, <2>2, GoesOn
        <4>2. Phase(c) = "publication_started"
          BY <3>1, <3>5 DEF Remembers, Declared, MayPublish, AnchorsIntact, Unopened
        <4>3. Standalone(c) \/ binding[c] = "MATCH"
          BY <3>5 DEF MayPublish, BindingReadback
        <4>4. Whole(c)
          BY <3>5, <4>2, <4>3 DEF Whole, MayPublish, EvidenceMatches
        <4> QED BY <1>4, <2>2, <3>1, <3>5, <4>1, <4>4
                DEF Decide, Remembers, Finishing, Cleaning, Phase, Journal, Whole, Standalone
      <3> QED BY <1>4, <2>1, <3>2, <3>3, <3>4, <3>5 DEF Decide, Target
    <2> QED BY <2>2, <2>4, <2>5, <2>6 DEF ReconcilerKnows
  <1>5. ASSUME NEW r \in Reconcilers, FinishRecovery(r)  PROVE  ReconcilerKnows'
    <2>1. PICK c \in Creations : c = rec[r].of
      BY <1>5, Targets DEF FinishRecovery, RecAt
    <2>2. /\ rec[r].at # "idle" /\ UNCHANGED <<mode, pc, binding>>
          /\ \A q \in Reconcilers \ {r} : rec'[q] = rec[q]
          /\ \A d \in Creations \ {c} : disk'[d] = disk[d]
      BY <1>5, <2>1
         DEF FinishRecovery, OpensJournal, Drops, Releases, RecAt, RecGoes, Target, CreationTypeOK
    <2>3. \/ UNCHANGED disk
          \/ rec[r].at \notin {"idle", "lock"} /\ (Phase(c) \in Declared => Phase(c)' \in Declared)
      <3>1. rec[r].at \notin {"idle", "lock"}
        BY <1>5 DEF FinishRecovery, RecAt
      <3>2. Phase(c)' \in {Phase(c), "committed"}
        BY <1>5, <2>1 DEF FinishRecovery, Target, OpensJournal, Phase, CreationTypeOK, Disks
      <3> QED BY <3>1, <3>2 DEF Declared
    <2>4. \A q \in Reconcilers \ {r} : rec'[q].at # "idle" => Remembers(q, rec[q].of)'
      BY <2>1, <2>2, <2>3, OthersRemember
    <2>5. rec'[r].at # "idle" => rec'[r].of = c
      BY <1>5, <2>1, Targets
         DEF FinishRecovery, OpensJournal, Drops, Releases, RecAt, RecGoes, Target, NoScan, Scans,
             CreationTypeOK
    <2>6. rec'[r].at # "idle" => Remembers(r, c)'
      <3>1. Remembers(r, c) /\ {"record", "pending", "index"} \subseteq ReconcilerSteps
        BY <2>1, <2>2 DEF ReconcilerKnows, ReconcilerSteps
      <3>2. CASE Drops(r)
        BY <3>2, <2>2, GoesOn
      <3>3. ASSUME NEW at \in {"record", "pending", "index"}, RecGoes(r, at)
            PROVE  Remembers(r, c)'
        <4>1. rec'[r].at = at /\ rec'[r].seen = rec[r].seen
          BY <3>1, <3>3, <2>2, GoesOn
        <4>2. Journal(c)' # "none"
          BY <1>5, <2>1, <3>1, <3>3
             DEF FinishRecovery, RecAt, Target, OpensJournal, Remembers, Finishing, Journal, Drops,
                 CreationTypeOK, Disks
        <4> QED BY <2>2, <2>3, <3>1, <3>3, <4>1, <4>2 DEF Remembers, Finishing, Cleaning, Phase
      <3> QED BY <1>5, <3>2, <3>3 DEF FinishRecovery
    <2> QED BY <2>2, <2>4, <2>5, <2>6 DEF ReconcilerKnows
  <1>6. ASSUME NEW r \in Reconcilers, Remove(r)  PROVE  ReconcilerKnows'
    <2>1. PICK c \in Creations : c = rec[r].of
      BY <1>6, Targets DEF Remove, RecAt
    <2>2. /\ rec[r].at # "idle" /\ UNCHANGED <<mode, pc, binding>>
          /\ \A q \in Reconcilers \ {r} : rec'[q] = rec[q]
          /\ \A d \in Creations \ {c} : disk'[d] = disk[d]
      BY <1>6, <2>1
         DEF Remove, RecAt, RecGoes, Target, Drops, Releases, RemovesTree, RemovesRecord,
             RemovesIndex, CreationTypeOK
    <2>3. \/ UNCHANGED disk
          \/ rec[r].at \notin {"idle", "lock"} /\ (Phase(c) \in Declared => Phase(c)' \in Declared)
      <3>1. rec[r].at \notin {"idle", "lock"}
        BY <1>6 DEF Remove, RecAt
      <3>2. Phase(c)' \in {Phase(c), "none"}
        BY <1>6, <2>1
           DEF Remove, Target, RemovesTree, RemovesRecord, RemovesIndex, Phase, CreationTypeOK,
               Disks
      <3> QED BY <3>1, <3>2 DEF Declared
    <2>4. \A q \in Reconcilers \ {r} : rec'[q].at # "idle" => Remembers(q, rec[q].of)'
      BY <2>1, <2>2, <2>3, OthersRemember
    <2>5. rec'[r].at # "idle" => rec'[r].of = c
      BY <1>6, <2>1, Targets
         DEF Remove, RecAt, RecGoes, Target, Drops, Releases, RemovesTree, RemovesRecord,
             RemovesIndex, NoScan, Scans, CreationTypeOK
    <2>6. rec'[r].at # "idle" => Remembers(r, c)'
      <3>1. Remembers(r, c) /\ {"record_gone", "index_gone"} \subseteq ReconcilerSteps
        BY <2>1, <2>2 DEF ReconcilerKnows, ReconcilerSteps
      <3>2. CASE Drops(r)
        BY <3>2, <2>2, GoesOn
      <3>3. ASSUME NEW at \in {"record_gone", "index_gone"}, RecGoes(r, at)
            PROVE  Remembers(r, c)'
        <4>1. rec'[r].at = at /\ rec'[r].seen = rec[r].seen
          BY <3>1, <3>3, <2>2, GoesOn
        <4>2. Journal(c)' = "none"
          BY <1>6, <2>1, <3>1
             DEF Remove, RecAt, Target, RemovesTree, RemovesRecord, RemovesIndex, Remembers,
                 Cleaning, Journal, CreationTypeOK, Disks
        <4> QED BY <2>2, <2>3, <3>1, <3>3, <4>1, <4>2 DEF Remembers, Finishing, Cleaning, Phase
      <3> QED BY <1>6, <3>2, <3>3 DEF Remove
    <2> QED BY <2>2, <2>4, <2>5, <2>6 DEF ReconcilerKnows
  <1>7. ASSUME NEW r \in Reconcilers, ReconcilerKilled(r)  PROVE  ReconcilerKnows'
    <2>1. PICK c \in Creations : c = rec[r].of
      BY <1>7, Targets DEF ReconcilerKilled, RecAt
    <2>2. /\ rec[r].at # "idle" /\ UNCHANGED <<mode, pc, binding>>
          /\ \A q \in Reconcilers \ {r} : rec'[q] = rec[q]
          /\ \A d \in Creations \ {c} : disk'[d] = disk[d]
      BY <1>7, <2>1 DEF ReconcilerKilled, RecAt, Target, Drops, Releases, CreationTypeOK
    <2>3. \/ UNCHANGED disk
          \/ rec[r].at \notin {"idle", "lock"} /\ (Phase(c) \in Declared => Phase(c)' \in Declared)
      BY <1>7 DEF ReconcilerKilled
    <2>4. \A q \in Reconcilers \ {r} : rec'[q].at # "idle" => Remembers(q, rec[q].of)'
      BY <2>1, <2>2, <2>3, OthersRemember
    <2>5. rec'[r].at # "idle" => rec'[r].of = c
      BY <1>7, <2>1, Targets
         DEF ReconcilerKilled, RecAt, Target, Drops, Releases, NoScan, Scans, CreationTypeOK
    <2>6. rec'[r].at # "idle" => Remembers(r, c)'
      BY <1>7, <2>2, GoesOn DEF ReconcilerKilled
    <2> QED BY <2>2, <2>4, <2>5, <2>6 DEF ReconcilerKnows
  <1>8. CASE UNCHANGED creationVars
    BY <1>8 DEF creationVars, ReconcilerKnows, Remembers, Phase, Journal, Whole, Standalone
  <1> QED
    BY <1>1, <1>2, <1>3, <1>4, <1>5, <1>6, <1>7, <1>8 DEF CreationNext, CreatorSide

\* What PublishedWhole, PublishedOnce and Unopened say of one creation.
Published(c) ==
  /\ Journal(c) # "none" =>
       /\ disk[c].tree \in {"ready", "used"}
       /\ Phase(c) \in {"publication_started", "committed"}
       /\ Standalone(c) \/ binding[c] = "MATCH"
  /\ opened[c] <= 1
  /\ Journal(c) = "none" /\ Phase(c) # "none" => opened[c] = 0 /\ Phase(c) # "committed"

AllPublished == \A c \in Creations : Published(c)

\* It holds on as long as nothing changes of the creation.
LEMMA PublishedFrame ==
  ASSUME CreationInv, NEW d \in Creations, disk'[d] = disk[d], opened'[d] = opened[d],
         binding'[d] = binding[d], mode'[d] = mode[d]
  PROVE  Published(d)'
  BY
     DEF CreationInv, PublishedWhole, PublishedOnce, Unopened, Published, Phase, Journal,
         Standalone

\* Every step keeps published creations whole and published once.
LEMMA PublishedStep ==
  ASSUME CreationInv, [CreationNext]_creationVars
  PROVE  AllPublished'
  <1> USE CreationAssumption DEF CreationInv, creatorVars, engineVars, CreatorGoes
  <1>1. ASSUME NEW c \in Creations, Reserve(c)  PROVE  AllPublished'
    <2>1. \A d \in Creations \ {c} : Published(d)'
      BY <1>1, PublishedFrame DEF Reserve, CreationTypeOK
    <2>2. opened'[c] = 0
      BY <1>1 DEF Reserve, CreatorKnows, Knows
    <2>3. disk'[c] = Reservation(TRUE) \/ disk'[c] = Reservation(FALSE)
      BY <1>1 DEF Reserve, CreationTypeOK
    <2>4. Published(c)'
      BY <2>2, <2>3 DEF Published, Reservation, Journal, Phase
    <2> QED BY <2>1, <2>4 DEF AllPublished
  <1>2. ASSUME NEW c \in Creations, BeginPrepare(c)  PROVE  AllPublished'
    <2>1. \A d \in Creations \ {c} : Published(d)'
      BY <1>2, PublishedFrame DEF BeginPrepare, CreationTypeOK
    <2>2. Published(c)'
      BY <1>2
         DEF BeginPrepare, CreationTypeOK, Cleaning, CreatorKnows, Knows, Phase, Journal,
             Finishing, Whole, Standalone, Disks, PublishedWhole, PublishedOnce, Unopened,
             Published, NoTrace
    <2> QED BY <2>1, <2>2 DEF AllPublished
  <1>3. ASSUME NEW c \in Creations, Launch(c)  PROVE  AllPublished'
    BY <1>3, PublishedFrame DEF Launch, AllPublished
  <1>4. ASSUME NEW c \in Creations, EndPrepare(c)  PROVE  AllPublished'
    <2>1. \A d \in Creations \ {c} : Published(d)'
      BY <1>4, PublishedFrame DEF EndPrepare, AnchorsIntact, EvidenceMatches, CreationTypeOK
    <2>2. Published(c)'
      BY <1>4
         DEF EndPrepare, AnchorsIntact, EvidenceMatches, CreationTypeOK, Cleaning, CreatorKnows,
             Knows, Phase, Journal, Finishing, Whole, Standalone, Disks, PublishedWhole,
             PublishedOnce, Unopened, Published, NoTrace
    <2> QED BY <2>1, <2>2 DEF AllPublished
  <1>5. ASSUME NEW c \in Creations, Interrupt(c)  PROVE  AllPublished'
    BY <1>5, PublishedFrame DEF Interrupt, AllPublished
  <1>6. ASSUME NEW c \in Creations, PublicationStarted(c)  PROVE  AllPublished'
    <2>1. \A d \in Creations \ {c} : Published(d)'
      BY <1>6, PublishedFrame DEF PublicationStarted, CreationTypeOK
    <2>2. Published(c)'
      BY <1>6
         DEF PublicationStarted, CreationTypeOK, Cleaning, CreatorKnows, Knows, Phase, Journal,
             Finishing, Whole, Standalone, Disks, PublishedWhole, PublishedOnce, Unopened,
             Published, NoTrace
    <2> QED BY <2>1, <2>2 DEF AllPublished
  <1>7. ASSUME NEW c \in Creations, Bind(c)  PROVE  AllPublished'
    <2>1. \A d \in Creations \ {c} : Published(d)'
      BY <1>7, PublishedFrame DEF Bind, CreationTypeOK
    <2>2. Published(c)'
      BY <1>7
         DEF Bind, CreationTypeOK, Cleaning, CreatorKnows, Knows, Phase, Journal, Finishing,
             Whole, Standalone, Disks, PublishedWhole, PublishedOnce, Unopened, Published,
             NoTrace
    <2> QED BY <2>1, <2>2 DEF AllPublished
  <1>8. ASSUME NEW c \in Creations, BeginCommit(c)  PROVE  AllPublished'
    BY <1>8, PublishedFrame DEF BeginCommit, AllPublished
  <1>9. ASSUME NEW c \in Creations, CommitJournal(c)  PROVE  AllPublished'
    <2>1. \A d \in Creations \ {c} : Published(d)'
      BY <1>9, PublishedFrame DEF CommitJournal, OpensJournal, CreationTypeOK
    <2>2. Published(c)'
      BY <1>9
         DEF CommitJournal, OpensJournal, CreationTypeOK, Cleaning, CreatorKnows, Knows, Phase,
             Journal, Finishing, Whole, Standalone, Disks, PublishedWhole, PublishedOnce,
             Unopened, Published, NoTrace
    <2> QED BY <2>1, <2>2 DEF AllPublished
  <1>10. ASSUME NEW c \in Creations, CommitRecord(c)  PROVE  AllPublished'
    <2>1. \A d \in Creations \ {c} : Published(d)'
      BY <1>10, PublishedFrame DEF CommitRecord, CreationTypeOK
    <2>2. Published(c)'
      BY <1>10
         DEF CommitRecord, CreationTypeOK, Cleaning, CreatorKnows, Knows, Phase, Journal,
             Finishing, Whole, Standalone, Disks, PublishedWhole, PublishedOnce, Unopened,
             Published, NoTrace
    <2> QED BY <2>1, <2>2 DEF AllPublished
  <1>11. ASSUME NEW c \in Creations, CommitMarks(c)  PROVE  AllPublished'
    <2>1. \A d \in Creations \ {c} : Published(d)'
      BY <1>11, PublishedFrame DEF CommitMarks, CreationTypeOK
    <2>2. Published(c)'
      BY SMTT(40), <1>11
         DEF CommitMarks, CreationTypeOK, Cleaning, CreatorKnows, Knows, Phase, Journal,
             Finishing, Whole, Standalone, Disks, PublishedWhole, PublishedOnce, Unopened,
             Published, NoTrace
    <2> QED BY <2>1, <2>2 DEF AllPublished
  <1>12. ASSUME NEW c \in Creations, Fail(c)  PROVE  AllPublished'
    BY <1>12, PublishedFrame DEF Fail, AllPublished
  <1>13. ASSUME NEW c \in Creations, LeaveContext(c)  PROVE  AllPublished'
    BY <1>13, PublishedFrame DEF LeaveContext, AllPublished
  <1>14. ASSUME NEW c \in Creations, Relock(c)  PROVE  AllPublished'
    BY <1>14, PublishedFrame DEF Relock, AllPublished
  <1>15. ASSUME NEW c \in Creations, Clean(c)  PROVE  AllPublished'
    <2>1. \A d \in Creations \ {c} : Published(d)'
      BY <1>15, PublishedFrame
         DEF Clean, RemovesTree, RemovesRecord, RemovesIndex, Releases, CreationTypeOK
    <2>2. Published(c)'
      BY <1>15
         DEF Clean, RemovesTree, RemovesRecord, RemovesIndex, Releases, CreationTypeOK, Cleaning,
             CreatorKnows, Knows, Phase, Journal, Finishing, Whole, Standalone, Disks,
             PublishedWhole, PublishedOnce, Unopened, Published, NoTrace
    <2> QED BY <2>1, <2>2 DEF AllPublished
  <1>16. ASSUME NEW c \in Creations, CreatorKilled(c)  PROVE  AllPublished'
    BY <1>16, PublishedFrame DEF CreatorKilled, AllPublished
  <1>17. ASSUME NEW c \in Creations, EngineWorks(c)  PROVE  AllPublished'
    <2>1. \A d \in Creations \ {c} : Published(d)'
      BY <1>17, PublishedFrame DEF EngineWorks, CreationTypeOK
    <2>2. Published(c)'
      BY <1>17
         DEF EngineWorks, CreationTypeOK, Cleaning, CreatorKnows, Knows, Phase, Journal,
             Finishing, Whole, Standalone, Disks, PublishedWhole, PublishedOnce, Unopened,
             Published, NoTrace
    <2> QED BY <2>1, <2>2 DEF AllPublished
  <1>18. ASSUME NEW c \in Creations, EngineEnds(c)  PROVE  AllPublished'
    BY <1>18, PublishedFrame DEF EngineEnds, AllPublished
  <1>19. ASSUME NEW c \in Creations, StrayEnds(c)  PROVE  AllPublished'
    BY <1>19, PublishedFrame DEF StrayEnds, AllPublished
  <1>20. ASSUME NEW c \in Creations, RuntimeStarts(c)  PROVE  AllPublished'
    BY <1>20, PublishedFrame DEF RuntimeStarts, AllPublished
  <1>21. ASSUME NEW c \in Creations, RuntimeWorks(c)  PROVE  AllPublished'
    <2>1. \A d \in Creations \ {c} : Published(d)'
      BY <1>21, PublishedFrame DEF RuntimeWorks, CreationTypeOK
    <2>2. Published(c)'
      BY <1>21
         DEF RuntimeWorks, CreationTypeOK, Cleaning, CreatorKnows, Knows, Phase, Journal,
             Finishing, Whole, Standalone, Disks, PublishedWhole, PublishedOnce, Unopened,
             Published, NoTrace
    <2> QED BY <2>1, <2>2 DEF AllPublished
  <1>22. ASSUME NEW c \in Creations, RuntimeEnds(c)  PROVE  AllPublished'
    BY <1>22, PublishedFrame DEF RuntimeEnds, AllPublished
  <1>23. ASSUME NEW r \in Reconcilers, NEW c \in Creations, Scan(r, c)  PROVE  AllPublished'
    BY <1>23, PublishedFrame DEF Scan, AllPublished
  <1>24. ASSUME NEW r \in Reconcilers, Lock(r)  PROVE  AllPublished'
    BY <1>24, PublishedFrame DEF Lock, AllPublished
  <1>25. ASSUME NEW r \in Reconcilers, Decide(r)  PROVE  AllPublished'
    BY <1>25, PublishedFrame DEF Decide, AllPublished
  <1>26. ASSUME NEW r \in Reconcilers, FinishRecovery(r)  PROVE  AllPublished'
    <2>1. PICK c \in Creations : c = rec[r].of
      BY <1>26, Targets DEF FinishRecovery, RecAt
    <2>2. \A d \in Creations \ {c} : Published(d)'
      BY <1>26, <2>1, PublishedFrame
         DEF FinishRecovery, OpensJournal, Drops, Releases, RecAt, RecGoes, Target, CreationTypeOK
    <2>3. Remembers(r, c)
      BY <1>26, <2>1 DEF FinishRecovery, RecAt, ReconcilerKnows
    <2>4. Published(c)'
      BY <1>26, <2>1, <2>3
         DEF FinishRecovery, OpensJournal, Drops, Releases, RecAt, RecGoes, Target, CreationTypeOK,
             Cleaning, CreatorKnows, Knows, Phase, Journal, Finishing, Whole, Standalone, Disks,
             PublishedWhole, PublishedOnce, Unopened, Published, NoTrace, Remembers
    <2> QED BY <2>2, <2>4 DEF AllPublished
  <1>27. ASSUME NEW r \in Reconcilers, Remove(r)  PROVE  AllPublished'
    <2>1. PICK c \in Creations : c = rec[r].of
      BY <1>27, Targets DEF Remove, RecAt
    <2>2. \A d \in Creations \ {c} : Published(d)'
      BY <1>27, <2>1, PublishedFrame
         DEF Remove, RecAt, RecGoes, Target, Drops, Releases, RemovesTree, RemovesRecord,
             RemovesIndex, CreationTypeOK
    <2>3. Remembers(r, c)
      BY <1>27, <2>1 DEF Remove, RecAt, ReconcilerKnows
    <2>4. Published(c)'
      BY <1>27, <2>1, <2>3
         DEF Remove, RecAt, RecGoes, Target, Drops, Releases, RemovesTree, RemovesRecord,
             RemovesIndex, CreationTypeOK, Cleaning, CreatorKnows, Knows, Phase, Journal,
             Finishing, Whole, Standalone, Disks, PublishedWhole, PublishedOnce, Unopened,
             Published, NoTrace, Remembers
    <2> QED BY <2>2, <2>4 DEF AllPublished
  <1>28. ASSUME NEW r \in Reconcilers, ReconcilerKilled(r)  PROVE  AllPublished'
    BY <1>28, PublishedFrame DEF ReconcilerKilled, AllPublished
  <1>29. CASE UNCHANGED creationVars
    BY <1>29, PublishedFrame DEF creationVars, AllPublished
  <1> QED
    BY <1>1, <1>2, <1>3, <1>4, <1>5, <1>6, <1>7, <1>8, <1>9, <1>10, <1>11, <1>12, <1>13, <1>14,
       <1>15, <1>16, <1>17, <1>18, <1>19, <1>20, <1>21, <1>22, <1>23, <1>24, <1>25, <1>26, <1>27,
       <1>28, <1>29
       DEF CreationNext, CreatorStep

-----------------------------------------------------------------------------
(* Theorems *)

\* The invariant is inductive.
LEMMA CreationInvStep == CreationInv /\ [CreationNext]_creationVars => CreationInv'
  <1> SUFFICES ASSUME CreationInv, [CreationNext]_creationVars  PROVE CreationInv'
    OBVIOUS
  <1>1. Unopened' /\ PublishedWhole' /\ PublishedOnce'
    BY PublishedStep DEF AllPublished, Published, Unopened, PublishedWhole, PublishedOnce
  <1> QED
    BY <1>1, TypeStep, HolderStep, CreatorStepKnows, ReconcilerStepKnows DEF CreationInv

\* The invariant holds of every behaviour.
LEMMA CreationIsInvariant == CreationSpec => []CreationInv
  BY InitInv, CreationInvStep, PTL DEF CreationSpec

\* The files, processes, locks and scans keep their types, whoever dies.
THEOREM CreationTyping == CreationSpec => []CreationTypeOK
  BY CreationIsInvariant, PTL DEF CreationInv

\* A journal is published only over a completed work tree, a declared intent
\* and, for a bound session, its binding; by the creator or by a reconciler
\* whose knowledge is older than its lease.
THEOREM PublishedIsWhole == CreationSpec => []PublishedWhole
  BY CreationIsInvariant, PTL DEF CreationInv

\* Creator and reconcilers together publish the journal of a creation once.
THEOREM PublishedAtMostOnce == CreationSpec => []PublishedOnce
  BY CreationIsInvariant, PTL DEF CreationInv
-----------------------------------------------------------------------------
(* What is left to find, and what is removed *)

\* What record, index entry and marks still say at each place of a creator.
FilesKept(c) ==
  /\ Phase(c) = "publication_started" =>
       disk[c].index /\ (Journal(c) = "none" => disk[c].pending)
  /\ pc[c] \in {"reserved", "launch", "wait", "prepared"} => disk[c].index /\ disk[c].pending
  /\ pc[c] \in {"pending", "index"} => Phase(c) = "committed"
  /\ pc[c] = "index_gone" => Phase(c) = "none"

\* Nothing is bound before the intent to publish is declared.
Unbound(c) ==
  \/ Phase(c) \in {"reserved", "preparing", "prepared"}
  \/ pc[c] \in {"start", "relock"} \cup Cleaning
  => binding[c] = "ABSENT"

\* A creator cleans up with the runtime lock in hand, and never after a stop of
\* its engine that it could not confirm.
CleansAlone(c) ==
  /\ pc[c] \in Cleaning => runtime[c] = Creator
  /\ pc[c] \in {"relock"} \cup Cleaning => c \notin preserve
  /\ stray[c] = "unleased" => Phase(c) = "preparing" /\ c \in preserve /\ pc[c] \in {"exit", "gone"}

Placed(c) == FilesKept(c) /\ Unbound(c) /\ CleansAlone(c)

\* A reconciler removes what it saw prepared or declared, and nothing bound, with
\* the runtime lock in hand.
ScanKept(r, c) ==
  /\ rec[r].at \in {"pending", "index"} => Phase(c) = "committed"
  /\ rec[r].at = "index_gone" => Phase(c) = "none"
  /\ rec[r].seen = "prepared" => Phase(c) \in {"prepared"} \cup Declared
  /\ rec[r].at \in Cleaning =>
       /\ rec[r].seen \in {"prepared", "publication_started"}
       /\ runtime[c] = r /\ binding[c] = "ABSENT"

AllPlaced == \A c \in Creations : Placed(c)
AllScansKept == \A r \in Reconcilers : rec[r].at # "idle" => ScanKept(r, rec[r].of)
RemovalInv == AllPlaced /\ AllScansKept

\* What each write leaves of the creation it is about, and of the others.
Rest(c, fields) ==
  /\ \A d \in Creations \ {c} : disk'[d] = disk[d]
  /\ "phase" \in fields => disk'[c].phase = disk[c].phase
  /\ "pending" \in fields => disk'[c].pending = disk[c].pending
  /\ "index" \in fields => disk'[c].index = disk[c].index
  /\ "journal" \in fields => disk'[c].journal = disk[c].journal

LEMMA DiskFields ==
  ASSUME CreationTypeOK, NEW c \in Creations
  PROVE  /\ disk' = [disk EXCEPT ![c].phase = "committed"] =>
              disk'[c].phase = "committed" /\ Rest(c, {"pending", "index", "journal"})
         /\ disk' = [disk EXCEPT ![c].pending = FALSE] => Rest(c, {"phase", "index", "journal"})
         /\ disk' = [disk EXCEPT ![c].index = FALSE] => Rest(c, {"phase", "pending", "journal"})
         /\ \A t : disk' = [disk EXCEPT ![c].tree = t] =>
              Rest(c, {"phase", "pending", "index", "journal"})
         /\ \A j : disk' = [disk EXCEPT ![c].journal = j] =>
              disk'[c].journal = j /\ Rest(c, {"phase", "pending", "index"})
         /\ RemovesRecord(c) => disk'[c].phase = "none" /\ Rest(c, {"index"})
  <1>1. disk \in [Creations -> Disks] /\ disk[c] \in Disks
    BY DEF CreationTypeOK
  <1>2. disk[c] = [phase |-> disk[c].phase, pending |-> disk[c].pending, index |-> disk[c].index,
                   tree |-> disk[c].tree, journal |-> disk[c].journal]
    BY <1>1 DEF Disks
  <1>3. disk' = [disk EXCEPT ![c].phase = "committed"] =>
          disk'[c].phase = "committed" /\ Rest(c, {"pending", "index", "journal"})
    BY <1>1, <1>2 DEF Rest
  <1>4. disk' = [disk EXCEPT ![c].pending = FALSE] => Rest(c, {"phase", "index", "journal"})
    BY <1>1, <1>2 DEF Rest
  <1>5. disk' = [disk EXCEPT ![c].index = FALSE] => Rest(c, {"phase", "pending", "journal"})
    BY <1>1, <1>2 DEF Rest
  <1>6. \A t : disk' = [disk EXCEPT ![c].tree = t] =>
          Rest(c, {"phase", "pending", "index", "journal"})
    BY <1>1, <1>2 DEF Rest
  <1>7. \A j : disk' = [disk EXCEPT ![c].journal = j] =>
          disk'[c].journal = j /\ Rest(c, {"phase", "pending", "index"})
    BY <1>1, <1>2 DEF Rest
  <1>8. RemovesRecord(c) => disk'[c].phase = "none" /\ Rest(c, {"index"})
    BY <1>1, <1>2 DEF Rest, RemovesRecord
  <1> QED BY <1>3, <1>4, <1>5, <1>6, <1>7, <1>8

\* It holds of a creation as long as nothing of it changes.
LEMMA PlacedFrame ==
  ASSUME NEW d \in Creations, Placed(d), disk'[d] = disk[d], pc'[d] = pc[d],
         binding'[d] = binding[d], stray'[d] = stray[d],
         runtime'[d] = runtime[d] \/ pc[d] \notin Cleaning, d \in preserve' <=> d \in preserve
  PROVE  Placed(d)'
  BY DEF Placed, FilesKept, Unbound, CleansAlone, Phase, Journal, Cleaning

\* A step of a creator, its engine or a runtime changes its own creation only.
Untouched(d) ==
  /\ disk'[d] = disk[d] /\ pc'[d] = pc[d] /\ binding'[d] = binding[d] /\ stray'[d] = stray[d]
  /\ runtime'[d] = runtime[d] /\ (d \in preserve' <=> d \in preserve)

\* ... so every other one is untouched.
LEMMA SideUntouched ==
  ASSUME CreationInv, NEW c \in Creations, CreatorSide(c), NEW d \in Creations \ {c}
  PROVE  Untouched(d)
  <1> USE DEF CreationInv, CreationTypeOK, creatorVars, engineVars, CreatorGoes, Untouched
  <1>1. CASE Reserve(c)
    BY <1>1 DEF Reserve, Reservation
  <1>2. CASE BeginPrepare(c)
    BY <1>2 DEF BeginPrepare
  <1>3. CASE Launch(c)
    BY <1>3 DEF Launch
  <1>4. CASE EndPrepare(c)
    BY <1>4 DEF EndPrepare, AnchorsIntact, EvidenceMatches
  <1>5. CASE Interrupt(c)
    BY <1>5 DEF Interrupt
  <1>6. CASE PublicationStarted(c)
    BY <1>6 DEF PublicationStarted
  <1>7. CASE Bind(c)
    BY <1>7 DEF Bind
  <1>8. CASE BeginCommit(c)
    BY <1>8 DEF BeginCommit, AnchorsIntact, EvidenceMatches
  <1>9. CASE CommitJournal(c)
    BY <1>9 DEF CommitJournal, OpensJournal
  <1>10. CASE CommitRecord(c)
    BY <1>10 DEF CommitRecord
  <1>11. CASE CommitMarks(c)
    BY <1>11 DEF CommitMarks
  <1>12. CASE Fail(c)
    BY <1>12 DEF Fail
  <1>13. CASE LeaveContext(c)
    BY <1>13 DEF LeaveContext, Unpublished
  <1>14. CASE Relock(c)
    BY <1>14 DEF Relock, ProvesAlone, LeaseFree, RuntimeInactive
  <1>15. CASE Clean(c)
    BY <1>15 DEF Clean, RemovesTree, RemovesRecord, RemovesIndex, Releases
  <1>16. CASE CreatorKilled(c)
    BY <1>16 DEF CreatorKilled, Releases
  <1>17. CASE EngineWorks(c)
    BY <1>17 DEF EngineWorks
  <1>18. CASE EngineEnds(c)
    BY <1>18 DEF EngineEnds
  <1>19. CASE StrayEnds(c)
    BY <1>19 DEF StrayEnds
  <1>20. CASE RuntimeStarts(c)
    BY <1>20 DEF RuntimeStarts
  <1>21. CASE RuntimeWorks(c)
    BY <1>21 DEF RuntimeWorks
  <1>22. CASE RuntimeEnds(c)
    BY <1>22 DEF RuntimeEnds
  <1> QED
    BY <1>1, <1>2, <1>3, <1>4, <1>5, <1>6, <1>7, <1>8, <1>9, <1>10, <1>11, <1>12, <1>13, <1>14,
       <1>15, <1>16, <1>17, <1>18, <1>19, <1>20, <1>21, <1>22
       DEF CreatorSide, CreatorStep

\* Creators, engines and runtimes keep what the files say of their creation.
LEMMA SideFiles ==
  ASSUME CreationInv, NEW c \in Creations, Placed(c), CreatorSide(c)
  PROVE  FilesKept(c)'
  <1> USE DEF CreationInv, CreationTypeOK, Disks, creatorVars, engineVars, CreatorGoes,
              CreatorKnows, Knows, Placed, FilesKept, Phase, Journal, Cleaning
  <1>1. CASE Reserve(c)
    BY <1>1 DEF Reserve, Reservation
  <1>2. CASE BeginPrepare(c)
    BY <1>2 DEF BeginPrepare
  <1>3. CASE Launch(c)
    BY <1>3 DEF Launch
  <1>4. CASE EndPrepare(c)
    BY <1>4 DEF EndPrepare, AnchorsIntact, EvidenceMatches
  <1>5. CASE Interrupt(c)
    BY <1>5 DEF Interrupt
  <1>6. CASE PublicationStarted(c)
    BY <1>6 DEF PublicationStarted
  <1>7. CASE Bind(c)
    BY <1>7 DEF Bind
  <1>8. CASE BeginCommit(c)
    BY <1>8 DEF BeginCommit, AnchorsIntact, EvidenceMatches
  <1>9. CASE CommitJournal(c)
    BY <1>9 DEF CommitJournal, OpensJournal
  <1>10. CASE CommitRecord(c)
    BY <1>10 DEF CommitRecord
  <1>11. CASE CommitMarks(c)
    BY <1>11 DEF CommitMarks
  <1>12. CASE Fail(c)
    BY <1>12 DEF Fail
  <1>13. CASE LeaveContext(c)
    BY <1>13 DEF LeaveContext, Unpublished
  <1>14. CASE Relock(c)
    BY <1>14 DEF Relock, ProvesAlone, LeaseFree, RuntimeInactive
  <1>15. CASE Clean(c)
    BY SMTT(40), <1>15 DEF Clean, RemovesTree, RemovesRecord, RemovesIndex, Releases
  <1>16. CASE CreatorKilled(c)
    BY <1>16 DEF CreatorKilled, Releases
  <1>17. CASE EngineWorks(c)
    BY SMTT(40), <1>17 DEF EngineWorks
  <1>18. CASE EngineEnds(c)
    BY <1>18 DEF EngineEnds
  <1>19. CASE StrayEnds(c)
    BY <1>19 DEF StrayEnds
  <1>20. CASE RuntimeStarts(c)
    BY <1>20 DEF RuntimeStarts
  <1>21. CASE RuntimeWorks(c)
    <2>1. /\ Phase(c)' = Phase(c) /\ pc'[c] = pc[c] /\ Journal(c) # "none" /\ Journal(c)' # "none"
          /\ disk'[c].index = disk[c].index /\ disk'[c].pending = disk[c].pending
      <3> HIDE DEF CreationInv, CreationTypeOK, Disks, CreatorKnows, Knows, Placed, FilesKept
      <3>1. CreationTypeOK
        BY DEF CreationInv
      <3>2. CASE disk' = [disk EXCEPT ![c].tree = "used"]
        BY <1>21, <3>1, <3>2, DiskFields DEF RuntimeWorks, Rest
      <3>3. ASSUME NEW n \in {"OPEN", "later"}, disk' = [disk EXCEPT ![c].journal = n]
            PROVE  /\ Phase(c)' = Phase(c) /\ pc'[c] = pc[c]
                   /\ Journal(c) # "none" /\ Journal(c)' # "none"
                   /\ disk'[c].index = disk[c].index /\ disk'[c].pending = disk[c].pending
        BY <1>21, <3>1, <3>3, DiskFields DEF RuntimeWorks, Rest
      <3> QED BY <1>21, <3>2, <3>3 DEF RuntimeWorks
    <2> HIDE DEF CreationInv, CreationTypeOK, Disks, CreatorKnows, Knows
    <2> QED BY <2>1
  <1>22. CASE RuntimeEnds(c)
    BY <1>22 DEF RuntimeEnds
  <1> QED
    BY <1>1, <1>2, <1>3, <1>4, <1>5, <1>6, <1>7, <1>8, <1>9, <1>10, <1>11, <1>12, <1>13, <1>14,
       <1>15, <1>16, <1>17, <1>18, <1>19, <1>20, <1>21, <1>22
       DEF CreatorSide, CreatorStep

\* ... that it is not bound ...
LEMMA SideUnbound ==
  ASSUME CreationInv, NEW c \in Creations, Placed(c), CreatorSide(c)
  PROVE  Unbound(c)'
  <1> USE DEF CreationInv, CreationTypeOK, Disks, creatorVars, engineVars, CreatorGoes,
              CreatorKnows, Knows, Placed, Unbound, Phase, Cleaning
  <1>1. CASE Reserve(c)
    BY <1>1 DEF Reserve, Reservation
  <1>2. CASE BeginPrepare(c)
    BY <1>2 DEF BeginPrepare
  <1>3. CASE Launch(c)
    BY <1>3 DEF Launch
  <1>4. CASE EndPrepare(c)
    BY <1>4 DEF EndPrepare, AnchorsIntact, EvidenceMatches
  <1>5. CASE Interrupt(c)
    BY <1>5 DEF Interrupt
  <1>6. CASE PublicationStarted(c)
    BY <1>6 DEF PublicationStarted
  <1>7. CASE Bind(c)
    BY <1>7 DEF Bind
  <1>8. CASE BeginCommit(c)
    BY <1>8 DEF BeginCommit, AnchorsIntact, EvidenceMatches
  <1>9. CASE CommitJournal(c)
    BY <1>9 DEF CommitJournal, OpensJournal
  <1>10. CASE CommitRecord(c)
    BY <1>10 DEF CommitRecord
  <1>11. CASE CommitMarks(c)
    BY <1>11 DEF CommitMarks
  <1>12. CASE Fail(c)
    BY <1>12 DEF Fail
  <1>13. CASE LeaveContext(c)
    BY <1>13 DEF LeaveContext, Unpublished
  <1>14. CASE Relock(c)
    BY <1>14 DEF Relock, ProvesAlone, LeaseFree, RuntimeInactive
  <1>15. CASE Clean(c)
    BY <1>15 DEF Clean, RemovesTree, RemovesRecord, RemovesIndex, Releases
  <1>16. CASE CreatorKilled(c)
    BY <1>16 DEF CreatorKilled, Releases
  <1>17. CASE EngineWorks(c)
    BY <1>17 DEF EngineWorks
  <1>18. CASE EngineEnds(c)
    BY <1>18 DEF EngineEnds
  <1>19. CASE StrayEnds(c)
    BY <1>19 DEF StrayEnds
  <1>20. CASE RuntimeStarts(c)
    BY <1>20 DEF RuntimeStarts
  <1>21. CASE RuntimeWorks(c)
    BY <1>21 DEF RuntimeWorks
  <1>22. CASE RuntimeEnds(c)
    BY <1>22 DEF RuntimeEnds
  <1> QED
    BY <1>1, <1>2, <1>3, <1>4, <1>5, <1>6, <1>7, <1>8, <1>9, <1>10, <1>11, <1>12, <1>13, <1>14,
       <1>15, <1>16, <1>17, <1>18, <1>19, <1>20, <1>21, <1>22
       DEF CreatorSide, CreatorStep

\* ... and that a creator cleans up alone.
LEMMA SideAlone ==
  ASSUME CreationInv, NEW c \in Creations, Placed(c), CreatorSide(c)
  PROVE  CleansAlone(c)'
  <1> USE CreationAssumption
      DEF CreationInv, CreationTypeOK, Disks, creatorVars, engineVars, CreatorGoes, CreatorKnows,
          Knows, Placed, CleansAlone, Phase, Cleaning
  <1>1. CASE Reserve(c)
    BY <1>1 DEF Reserve, Reservation
  <1>2. CASE BeginPrepare(c)
    BY <1>2 DEF BeginPrepare
  <1>3. CASE Launch(c)
    BY <1>3 DEF Launch
  <1>4. CASE EndPrepare(c)
    BY <1>4 DEF EndPrepare, AnchorsIntact, EvidenceMatches
  <1>5. CASE Interrupt(c)
    BY <1>5 DEF Interrupt
  <1>6. CASE PublicationStarted(c)
    BY <1>6 DEF PublicationStarted
  <1>7. CASE Bind(c)
    BY <1>7 DEF Bind
  <1>8. CASE BeginCommit(c)
    BY <1>8 DEF BeginCommit, AnchorsIntact, EvidenceMatches
  <1>9. CASE CommitJournal(c)
    BY <1>9 DEF CommitJournal, OpensJournal
  <1>10. CASE CommitRecord(c)
    BY <1>10 DEF CommitRecord
  <1>11. CASE CommitMarks(c)
    BY <1>11 DEF CommitMarks
  <1>12. CASE Fail(c)
    BY <1>12 DEF Fail
  <1>13. CASE LeaveContext(c)
    BY <1>13 DEF LeaveContext, Unpublished
  <1>14. CASE Relock(c)
    BY <1>14 DEF Relock, ProvesAlone, LeaseFree, RuntimeInactive
  <1>15. CASE Clean(c)
    BY <1>15 DEF Clean, RemovesTree, RemovesRecord, RemovesIndex, Releases
  <1>16. CASE CreatorKilled(c)
    BY <1>16 DEF CreatorKilled, Releases
  <1>17. CASE EngineWorks(c)
    BY <1>17 DEF EngineWorks
  <1>18. CASE EngineEnds(c)
    BY <1>18 DEF EngineEnds
  <1>19. CASE StrayEnds(c)
    BY <1>19 DEF StrayEnds
  <1>20. CASE RuntimeStarts(c)
    BY <1>20 DEF RuntimeStarts
  <1>21. CASE RuntimeWorks(c)
    BY <1>21 DEF RuntimeWorks
  <1>22. CASE RuntimeEnds(c)
    BY <1>22 DEF RuntimeEnds
  <1> QED
    BY <1>1, <1>2, <1>3, <1>4, <1>5, <1>6, <1>7, <1>8, <1>9, <1>10, <1>11, <1>12, <1>13, <1>14,
       <1>15, <1>16, <1>17, <1>18, <1>19, <1>20, <1>21, <1>22
       DEF CreatorSide, CreatorStep
\* Beside a reconciler at work, they leave the phase and the binding of its
\* creation, and its hold on the runtime lock; a prepared creation they leave,
\* declare or remove.
LEMMA SideLeaves ==
  ASSUME CreationInv, NEW c \in Creations, CreatorSide(c)
  PROVE  /\ pc[c] \in {"relock", "gone"} /\ engine[c] # "running" =>
              /\ Phase(c)' = Phase(c) /\ binding'[c] = binding[c]
              /\ runtime[c] \in Reconcilers => runtime'[c] = runtime[c]
         /\ pc[c] # "start" /\ Phase(c) = "prepared" => Phase(c)' \in {"prepared"} \cup Declared
  <1> USE CreationAssumption
      DEF CreationInv, CreationTypeOK, Disks, creatorVars, engineVars, CreatorGoes, CreatorKnows,
          Knows, Phase, Declared
  <1>1. CASE Reserve(c)
    BY <1>1 DEF Reserve, Reservation
  <1>2. CASE BeginPrepare(c)
    BY <1>2 DEF BeginPrepare
  <1>3. CASE Launch(c)
    BY <1>3 DEF Launch
  <1>4. CASE EndPrepare(c)
    BY <1>4 DEF EndPrepare, AnchorsIntact, EvidenceMatches
  <1>5. CASE Interrupt(c)
    BY <1>5 DEF Interrupt
  <1>6. CASE PublicationStarted(c)
    BY <1>6 DEF PublicationStarted
  <1>7. CASE Bind(c)
    BY <1>7 DEF Bind
  <1>8. CASE BeginCommit(c)
    BY <1>8 DEF BeginCommit, AnchorsIntact, EvidenceMatches
  <1>9. CASE CommitJournal(c)
    BY <1>9 DEF CommitJournal, OpensJournal
  <1>10. CASE CommitRecord(c)
    BY <1>10 DEF CommitRecord
  <1>11. CASE CommitMarks(c)
    BY <1>11 DEF CommitMarks
  <1>12. CASE Fail(c)
    BY <1>12 DEF Fail
  <1>13. CASE LeaveContext(c)
    BY <1>13 DEF LeaveContext, Unpublished
  <1>14. CASE Relock(c)
    BY <1>14 DEF Relock, ProvesAlone, LeaseFree, RuntimeInactive
  <1>15. CASE Clean(c)
    BY <1>15 DEF Clean, RemovesTree, RemovesRecord, RemovesIndex, Releases
  <1>16. CASE CreatorKilled(c)
    BY <1>16 DEF CreatorKilled, Releases
  <1>17. CASE EngineWorks(c)
    BY <1>17 DEF EngineWorks
  <1>18. CASE EngineEnds(c)
    BY <1>18 DEF EngineEnds
  <1>19. CASE StrayEnds(c)
    BY <1>19 DEF StrayEnds
  <1>20. CASE RuntimeStarts(c)
    BY <1>20 DEF RuntimeStarts
  <1>21. CASE RuntimeWorks(c)
    BY <1>21 DEF RuntimeWorks
  <1>22. CASE RuntimeEnds(c)
    BY <1>22 DEF RuntimeEnds
  <1> QED
    BY <1>1, <1>2, <1>3, <1>4, <1>5, <1>6, <1>7, <1>8, <1>9, <1>10, <1>11, <1>12, <1>13, <1>14,
       <1>15, <1>16, <1>17, <1>18, <1>19, <1>20, <1>21, <1>22
       DEF CreatorSide, CreatorStep

\* So what a reconciler knows of the creation it may remove stays true.
LEMMA SideScans ==
  ASSUME CreationInv, RemovalInv, NEW c \in Creations, CreatorSide(c)
  PROVE  AllScansKept'
  <1> SUFFICES ASSUME NEW q \in Reconcilers, rec'[q].at # "idle"
               PROVE  ScanKept(q, rec[q].of)'
    BY DEF AllScansKept
  <1>1. rec' = rec
    BY SideRespects DEF Respects
  <1>2. PICK d \in Creations : d = rec[q].of
    BY <1>1, Targets DEF CreationInv
  <1>3. ScanKept(q, d) /\ Remembers(q, d)
    BY <1>1, <1>2 DEF RemovalInv, AllScansKept, CreationInv, ReconcilerKnows
  <1>4. CASE d # c
    <2>1. Untouched(d)
      BY <1>4, SideUntouched
    <2> QED BY <1>1, <1>2, <1>3, <2>1 DEF ScanKept, Untouched, Phase
  <1>5. CASE d = c
    <2>1. pc[c] # "start"
      BY <1>3, <1>5 DEF Remembers
    <2>2. Phase(c) \in Declared => Phase(c)' \in Declared
      BY <2>1, SideRespects DEF Respects
    <2>3. Phase(c) = "prepared" => Phase(c)' \in {"prepared"} \cup Declared
      BY <2>1, SideLeaves
    <2>4. ASSUME rec[q].at \notin {"idle", "lock"}
          PROVE  /\ Phase(c)' = Phase(c) /\ binding'[c] = binding[c]
                 /\ runtime[c] \in Reconcilers => runtime'[c] = runtime[c]
      <3>1. pc[c] \in {"relock", "gone"} /\ engine[c] # "running"
        BY ZenonT(40), <1>2, <1>5, <2>4, Alone
      <3> QED BY <3>1, SideLeaves
    <2>5. rec[q].seen = "prepared" => Phase(c)' \in {"prepared"} \cup Declared
      BY <1>3, <1>5, <2>2, <2>3 DEF ScanKept
    <2>6. rec[q].at = "lock" => ScanKept(q, c)'
      BY <1>1, <2>5 DEF ScanKept, Cleaning
    <2>7. rec[q].at \notin {"idle", "lock"} => ScanKept(q, c)'
      BY <1>1, <1>3, <1>5, <2>4, <2>5 DEF ScanKept
    <2> QED BY <1>1, <1>2, <1>5, <2>6, <2>7
  <1> QED BY <1>4, <1>5

\* Creators, engines and runtimes keep the invariant.
LEMMA SideRemoval ==
  ASSUME CreationInv, RemovalInv, NEW c \in Creations, CreatorSide(c)
  PROVE  RemovalInv'
  <1>1. ASSUME NEW d \in Creations  PROVE  Placed(d)'
    <2>1. Placed(d)
      BY DEF RemovalInv, AllPlaced
    <2>2. CASE d = c
      BY <2>1, <2>2, SideFiles, SideUnbound, SideAlone DEF Placed
    <2>3. CASE d # c
      <3>1. Untouched(d)
        BY <2>3, SideUntouched
      <3> QED BY <2>1, <3>1, PlacedFrame DEF Untouched
    <2> QED BY <2>2, <2>3
  <1> QED BY <1>1, SideScans DEF RemovalInv, AllPlaced

\* What a step of reconciler r that has taken up creation c leaves alone: the
\* creators, what other creations hold, and the runtime locks of others.
Beside(r, c) ==
  /\ UNCHANGED <<binding, mode, pc, preserve, engine, stray>>
  /\ \A d \in Creations \ {c} : disk'[d] = disk[d]
  /\ \A d \in Creations : runtime'[d] = runtime[d] \/ (d = c /\ runtime[d] \in {r, Nobody})
  /\ \A q \in Reconcilers \ {r} : rec'[q] = rec[q]

\* A reconciler that takes the lease, gives up or goes on acts beside the others.
LEMMA BesideLock ==
  ASSUME CreationInv, NEW r \in Reconcilers, Lock(r)
  PROVE  Beside(r, rec[r].of) /\ UNCHANGED disk /\ rec'[r].at \in {"idle", "decide"}
         /\ (rec'[r].at = "decide" => rec'[r].of = rec[r].of /\ rec'[r].seen = rec[r].seen)
  <1>1. rec[r].at = "lock" /\ rec[r] \in Scans /\ rec \in [Reconcilers -> {NoScan} \cup Scans]
    BY Targets DEF Lock, RecAt, CreationInv, CreationTypeOK
  <1> QED BY <1>1 DEF Lock, Beside, RecAt, RecGoes, creatorVars, engineVars, NoScan, Scans

LEMMA BesideDrops ==
  ASSUME CreationInv, NEW r \in Reconcilers, rec[r].at # "idle", Drops(r),
         UNCHANGED <<binding, mode, creatorVars, engineVars>>,
         \A d \in Creations \ {rec[r].of} : disk'[d] = disk[d]
  PROVE  Beside(r, rec[r].of) /\ rec'[r].at = "idle"
  <1>1. rec \in [Reconcilers -> {NoScan} \cup Scans] /\ rec[r].of \in Creations
    BY Targets DEF CreationInv, CreationTypeOK
  <1> QED
    BY <1>1 DEF CreationInv, CreationTypeOK, Beside, Drops, Releases, Target, NoScan, creatorVars,
                engineVars

LEMMA BesideGoes ==
  ASSUME CreationInv, NEW r \in Reconcilers, rec[r].at # "idle",
         NEW at \in ReconcilerSteps, RecGoes(r, at),
         UNCHANGED <<binding, mode, creatorVars, engineVars>>,
         \A d \in Creations \ {rec[r].of} : disk'[d] = disk[d],
         \/ UNCHANGED runtime
         \/ runtime[rec[r].of] = Nobody /\ runtime' = [runtime EXCEPT ![rec[r].of] = r]
  PROVE  /\ Beside(r, rec[r].of)
         /\ rec'[r].at = at /\ rec'[r].of = rec[r].of /\ rec'[r].seen = rec[r].seen
  <1>1. rec \in [Reconcilers -> {NoScan} \cup Scans] /\ rec[r].of \in Creations
    BY Targets DEF CreationInv, CreationTypeOK
  <1>2. rec'[r].at = at /\ rec'[r].of = rec[r].of /\ rec'[r].seen = rec[r].seen
    BY <1>1, GoesOn DEF CreationInv
  <1>3. \A q \in Reconcilers \ {r} : rec'[q] = rec[q]
    BY <1>1 DEF RecGoes
  <1>4. \A d \in Creations :
          runtime'[d] = runtime[d] \/ (d = rec[r].of /\ runtime[d] \in {r, Nobody})
    BY <1>1 DEF CreationInv, CreationTypeOK
  <1> QED BY <1>2, <1>3, <1>4 DEF Beside, creatorVars, engineVars

\* A reconciler beside which nobody else works keeps the invariant when it keeps
\* it of its own creation.
LEMMA BesideRemoval ==
  ASSUME CreationInv, RemovalInv, NEW r \in Reconcilers, NEW c \in Creations, c = rec[r].of,
         rec[r].at # "idle", Beside(r, c),
         \/ UNCHANGED disk
         \/ /\ rec[r].at \notin {"idle", "lock"}
            /\ Phase(c)' \in {Phase(c), "committed", "none"} /\ FilesKept(c)'
            /\ Phase(c) # "preparing",
         rec'[r].at # "idle" => rec'[r].of = c /\ ScanKept(r, c)'
  PROVE  RemovalInv'
  <1> USE CreationAssumption
  <1>1. ASSUME NEW d \in Creations  PROVE  Placed(d)'
    <2>1. Placed(d)
      BY DEF RemovalInv, AllPlaced
    <2>2. runtime'[d] = runtime[d] \/ pc[d] \notin Cleaning
      BY <2>1 DEF Beside, Placed, CleansAlone
    <2>3. CASE disk'[d] = disk[d]
      BY <2>1, <2>2, <2>3, PlacedFrame DEF Beside
    <2>4. CASE disk'[d] # disk[d]
      <3>1. /\ d = c /\ rec[r].at \notin {"idle", "lock"} /\ FilesKept(d)'
            /\ Phase(d)' \in {Phase(d), "committed", "none"} /\ Phase(d) # "preparing"
        BY <2>4 DEF Beside
      <3>2. pc'[d] = pc[d] /\ pc[d] \in {"relock", "gone"} /\ binding'[d] = binding[d]
        BY <3>1, Alone DEF Beside
      <3>3. Unbound(d)'
        BY <2>1, <3>1, <3>2 DEF Placed, Unbound, Cleaning
      <3>4. CleansAlone(d)'
        BY <2>1, <3>1, <3>2 DEF Beside, Placed, CleansAlone, Cleaning
      <3> QED BY <3>1, <3>3, <3>4 DEF Placed
    <2> QED BY <2>3, <2>4
  <1>2. ASSUME NEW q \in Reconcilers, rec'[q].at # "idle"  PROVE  ScanKept(q, rec[q].of)'
    <2>1. CASE q = r
      BY <1>2, <2>1
    <2>2. CASE q # r
      <3>1. rec'[q] = rec[q]
        BY <2>2 DEF Beside
      <3>2. PICK d \in Creations : d = rec[q].of
        BY <1>2, <3>1, Targets DEF CreationInv
      <3>3. ScanKept(q, d)
        BY <1>2, <3>1, <3>2 DEF RemovalInv, AllScansKept
      <3>4. binding'[d] = binding[d] /\ (rec[q].at \in Cleaning => runtime'[d] = runtime[d])
        BY <2>2, <3>3 DEF Beside, ScanKept
      <3>5. CASE disk'[d] = disk[d]
        BY <3>1, <3>2, <3>3, <3>4, <3>5 DEF ScanKept, Phase
      <3>6. CASE disk'[d] # disk[d]
        <4>1. /\ d = c /\ rec[r].at \notin {"idle", "lock"}
              /\ Phase(d)' \in {Phase(d), "committed", "none"}
          BY <3>6 DEF Beside
        <4>2. rec[q].at \in {"idle", "lock"}
          <5>1. rec[q].of = rec[r].of /\ q # r
            BY <2>2, <3>2, <4>1
          <5> QED BY <4>1, <5>1, Alone
        <4> QED BY <3>1, <3>2, <3>3, <4>1, <4>2 DEF ScanKept, Declared, Cleaning
      <3> QED BY <3>5, <3>6
    <2> QED BY <2>1, <2>2
  <1> QED BY <1>1, <1>2 DEF RemovalInv, AllPlaced, AllScansKept

\* A reconciler with the lease removes only what was prepared or declared, and
\* finishes only what was declared.
LEMMA AtWork ==
  ASSUME CreationInv, RemovalInv, NEW r \in Reconcilers,
         rec[r].at \in {"open"} \cup Finishing \cup Cleaning
  PROVE  LET c == rec[r].of IN
         /\ c \in Creations /\ Remembers(r, c) /\ ScanKept(r, c) /\ Placed(c)
         /\ Phase(c) \in {"prepared"} \cup Declared
  <1>1. rec[r].at \notin {"idle", "lock"}
    BY DEF Finishing, Cleaning
  <1>2. PICK c \in Creations : c = rec[r].of
    BY <1>1, Alone
  <1>3. Remembers(r, c) /\ ScanKept(r, c) /\ Placed(c)
    BY <1>1, <1>2 DEF CreationInv, ReconcilerKnows, RemovalInv, AllScansKept, AllPlaced
  <1>4. rec[r].at \in Finishing => Phase(c) \in Declared
    BY <1>3 DEF CreationInv, Remembers, PublishedWhole, Declared
  <1>5. rec[r].at = "open" => Phase(c) \in Declared
    BY <1>3 DEF Remembers, Whole, Declared
  <1>6. rec[r].at \in Cleaning => Phase(c) \in {"prepared"} \cup Declared
    BY <1>3 DEF Remembers, ScanKept
  <1> QED BY <1>2, <1>3, <1>4, <1>5, <1>6

\* Reconcilers keep the invariant.
LEMMA ScanRemoval ==
  ASSUME CreationInv, RemovalInv, NEW r \in Reconcilers, NEW c \in Creations, Scan(r, c)
  PROVE  RemovalInv'
  <1>1. /\ UNCHANGED <<disk, binding, pc, preserve, stray, runtime>>
        /\ rec' = [rec EXCEPT ![r] = [at |-> "lock", of |-> c, seen |-> Phase(c)]]
    BY DEF Scan, creatorVars, engineVars
  <1>2. AllPlaced'
    BY <1>1, PlacedFrame DEF RemovalInv, AllPlaced
  <1>3. ASSUME NEW q \in Reconcilers, rec'[q].at # "idle"  PROVE  ScanKept(q, rec[q].of)'
    <2>1. rec \in [Reconcilers -> {NoScan} \cup Scans]
      BY DEF CreationInv, CreationTypeOK
    <2>2. CASE q = r
      BY <1>1, <2>1, <2>2 DEF ScanKept, Cleaning, Phase
    <2>3. CASE q # r
      BY <1>1, <1>3, <2>1, <2>3 DEF RemovalInv, AllScansKept, ScanKept, Phase
    <2> QED BY <2>2, <2>3
  <1> QED BY <1>2, <1>3 DEF RemovalInv, AllScansKept

LEMMA LockRemoval ==
  ASSUME CreationInv, RemovalInv, NEW r \in Reconcilers, Lock(r)
  PROVE  RemovalInv'
  <1>1. PICK c \in Creations : c = rec[r].of
    BY Targets DEF Lock, RecAt, CreationInv
  <1>2. rec[r].at # "idle" /\ ScanKept(r, c)
    BY <1>1 DEF Lock, RecAt, RemovalInv, AllScansKept
  <1>3. Beside(r, c) /\ UNCHANGED <<disk, runtime>>
    BY <1>1, BesideLock DEF Lock
  <1>4. rec'[r].at # "idle" => rec'[r].of = c /\ ScanKept(r, c)'
    BY <1>1, <1>2, <1>3, BesideLock DEF ScanKept, Cleaning, Phase
  <1> QED BY <1>1, <1>2, <1>3, <1>4, BesideRemoval

LEMMA DecideRemoval ==
  ASSUME CreationInv, RemovalInv, NEW r \in Reconcilers, Decide(r)
  PROVE  RemovalInv'
  <1>1. PICK c \in Creations : c = rec[r].of
    BY Targets DEF Decide, RecAt, CreationInv
  <1>2. rec[r].at = "decide" /\ ScanKept(r, c)
    BY <1>1 DEF Decide, RecAt, RemovalInv, AllScansKept
  <1>3. UNCHANGED <<disk, binding, mode, creatorVars, engineVars>>
    BY DEF Decide
  <1>4. CASE Drops(r)
    <2>1. Beside(r, c) /\ rec'[r].at = "idle"
      BY <1>1, <1>2, <1>3, <1>4, BesideDrops
    <2> QED BY <1>1, <1>2, <1>3, <2>1, BesideRemoval
  <1>5. ASSUME NEW at \in {"record", "open"}, RecGoes(r, at), UNCHANGED runtime
        PROVE  RemovalInv'
    <2>1. /\ Beside(r, c)
          /\ rec'[r].at = at /\ rec'[r].of = c /\ rec'[r].seen = rec[r].seen
      BY <1>1, <1>2, <1>3, <1>5, BesideGoes DEF ReconcilerSteps
    <2>2. ScanKept(r, c)'
      BY <1>2, <1>3, <2>1 DEF ScanKept, Cleaning, Phase
    <2> QED BY <1>1, <1>2, <1>3, <2>1, <2>2, BesideRemoval
  <1>6. ASSUME RecGoes(r, "clean"), runtime' = [runtime EXCEPT ![c] = r],
               NEW readback \in BindingReadback(c), MayRemove(c, rec[r].seen, readback), RuntimeInactive(c)
        PROVE  RemovalInv'
    <2>1. /\ Beside(r, c)
          /\ rec'[r].at = "clean" /\ rec'[r].of = c /\ rec'[r].seen = rec[r].seen
      BY <1>1, <1>2, <1>3, <1>6, BesideGoes DEF ReconcilerSteps, RuntimeInactive
    <2>2. rec[r].seen \in {"prepared", "publication_started"} /\ binding[c] = "ABSENT"
      BY <1>6 DEF MayRemove, BindingReadback
    <2>3. runtime'[c] = r
      BY <1>6 DEF CreationInv, CreationTypeOK
    <2>4. ScanKept(r, c)'
      BY <1>2, <1>3, <2>1, <2>2, <2>3 DEF ScanKept, Cleaning, Phase
    <2> QED BY <1>1, <1>2, <1>3, <2>1, <2>4, BesideRemoval
  <1> QED BY <1>1, <1>4, <1>5, <1>6 DEF Decide, Target

LEMMA FinishRemoval ==
  ASSUME CreationInv, RemovalInv, NEW r \in Reconcilers, FinishRecovery(r)
  PROVE  RemovalInv'
  <1>1. rec[r].at \in {"open"} \cup Finishing
    BY DEF FinishRecovery, RecAt, Finishing
  <1>2. PICK c \in Creations : c = rec[r].of
    BY <1>1, AtWork
  <1>3. /\ Remembers(r, c) /\ ScanKept(r, c) /\ Placed(c)
        /\ Phase(c) \in {"prepared"} \cup Declared
    BY <1>1, <1>2, AtWork
  <1>4. rec[r].at \notin {"idle", "lock"} /\ pc[c] \in {"relock", "gone"} /\ Phase(c) # "preparing"
    BY <1>1, <1>2, <1>3, Alone DEF Finishing, Declared
  <1>5. UNCHANGED <<binding, mode, creatorVars, engineVars>>
    BY DEF FinishRecovery
  <1>6. /\ \A d \in Creations \ {c} : disk'[d] = disk[d]
        /\ Phase(c)' \in {Phase(c), "committed", "none"} /\ FilesKept(c)'
    <2>1. CreationTypeOK /\ pc'[c] = pc[c] /\ FilesKept(c)
      BY <1>3, <1>5 DEF CreationInv, Placed, creatorVars
    <2>2. CASE disk' = [disk EXCEPT ![c].journal = "OPEN"]
      BY <1>4, <2>1, <2>2, DiskFields DEF Rest, Phase, Journal, FilesKept
    <2>3. CASE disk' = [disk EXCEPT ![c].phase = "committed"]
      BY <1>4, <2>1, <2>3, DiskFields DEF Rest, Phase, Journal, FilesKept
    <2>4. CASE Phase(c) = "committed" /\ disk' = [disk EXCEPT ![c].pending = FALSE]
      BY <1>4, <2>1, <2>4, DiskFields DEF Rest, Phase, Journal, FilesKept
    <2>5. CASE Phase(c) = "committed" /\ disk' = [disk EXCEPT ![c].index = FALSE]
      BY <1>4, <2>1, <2>5, DiskFields DEF Rest, Phase, Journal, FilesKept
    <2> QED
      BY <1>2, <1>3, <2>2, <2>3, <2>4, <2>5
         DEF FinishRecovery, Target, RecAt, OpensJournal, ScanKept
  <1>7. CASE Drops(r)
    <2>1. Beside(r, c) /\ rec'[r].at = "idle"
      BY <1>2, <1>4, <1>5, <1>6, <1>7, BesideDrops
    <2> QED BY <1>2, <1>4, <1>6, <2>1, BesideRemoval
  <1>8. ASSUME NEW at \in {"record", "pending", "index"}, RecGoes(r, at), UNCHANGED runtime,
               at \in {"pending", "index"} => Phase(c)' = "committed"
        PROVE  RemovalInv'
    <2>1. /\ Beside(r, c)
          /\ rec'[r].at = at /\ rec'[r].of = c /\ rec'[r].seen = rec[r].seen
      BY <1>2, <1>4, <1>5, <1>6, <1>8, BesideGoes DEF ReconcilerSteps
    <2>2. ScanKept(r, c)'
      BY <1>3, <1>6, <1>8, <2>1 DEF ScanKept, Cleaning, Declared
    <2> QED BY <1>2, <1>4, <1>6, <2>1, <2>2, BesideRemoval
  <1>9. /\ RecAt(r, "record") => Phase(c)' = "committed" \/ ~RecGoes(r, "pending")
        /\ RecAt(r, "pending") => Phase(c)' = "committed" \/ ~RecGoes(r, "index")
    BY <1>2, <1>3
       DEF FinishRecovery, Target, RecAt, CreationInv, CreationTypeOK, Disks, Phase, ScanKept
  <1> QED BY <1>7, <1>8, <1>9 DEF FinishRecovery, Target

LEMMA RemoveRemoval ==
  ASSUME CreationInv, RemovalInv, NEW r \in Reconcilers, Remove(r)
  PROVE  RemovalInv'
  <1>1. rec[r].at \in Cleaning
    BY DEF Remove, RecAt, Cleaning
  <1>2. PICK c \in Creations : c = rec[r].of
    BY <1>1, AtWork
  <1>3. /\ Remembers(r, c) /\ ScanKept(r, c) /\ Placed(c)
        /\ Phase(c) \in {"prepared"} \cup Declared
    BY <1>1, <1>2, AtWork
  <1>4. rec[r].at \notin {"idle", "lock"} /\ pc[c] \in {"relock", "gone"} /\ Phase(c) # "preparing"
    BY <1>1, <1>2, <1>3, Alone DEF Cleaning, Declared
  <1>5. UNCHANGED <<binding, mode, creatorVars, engineVars>>
    BY DEF Remove
  <1>6. /\ \A d \in Creations \ {c} : disk'[d] = disk[d]
        /\ Phase(c)' \in {Phase(c), "committed", "none"} /\ FilesKept(c)'
        /\ RecAt(r, "record_gone") => Phase(c)' = "none"
    <2>1. CreationTypeOK /\ pc'[c] = pc[c] /\ FilesKept(c)
      BY <1>3, <1>5 DEF CreationInv, Placed, creatorVars
    <2>2. CASE RecAt(r, "clean") /\ disk' = [disk EXCEPT ![c].tree = "none"]
      BY <1>4, <2>1, <2>2, DiskFields DEF Rest, Phase, Journal, FilesKept, RecAt
    <2>3. CASE RemovesRecord(c)
      BY <1>4, <2>1, <2>3, DiskFields DEF Rest, Phase, Journal, FilesKept
    <2>4. CASE /\ Phase(c) = "none" /\ RecAt(r, "index_gone")
               /\ disk' = [disk EXCEPT ![c].index = FALSE]
      BY <1>4, <2>1, <2>4, DiskFields DEF Rest, Phase, Journal, FilesKept, RecAt
    <2> QED
      BY <1>2, <1>3, <2>2, <2>3, <2>4
         DEF Remove, Target, RecAt, RemovesTree, RemovesIndex, ScanKept
  <1>7. CASE Drops(r)
    <2>1. Beside(r, c) /\ rec'[r].at = "idle"
      BY <1>2, <1>4, <1>5, <1>6, <1>7, BesideDrops
    <2> QED BY <1>2, <1>4, <1>6, <2>1, BesideRemoval
  <1>8. ASSUME NEW at \in {"record_gone", "index_gone"}, RecGoes(r, at), UNCHANGED runtime,
               at = "index_gone" => Phase(c)' = "none"
        PROVE  RemovalInv'
    <2>1. /\ Beside(r, c)
          /\ rec'[r].at = at /\ rec'[r].of = c /\ rec'[r].seen = rec[r].seen
      BY <1>2, <1>4, <1>5, <1>6, <1>8, BesideGoes DEF ReconcilerSteps
    <2>2. ScanKept(r, c)'
      BY <1>1, <1>3, <1>5, <1>6, <1>8, <2>1 DEF ScanKept, Cleaning, Declared
    <2> QED BY <1>2, <1>4, <1>6, <2>1, <2>2, BesideRemoval
  <1> QED BY <1>6, <1>7, <1>8 DEF Remove, Target

LEMMA KilledRemoval ==
  ASSUME CreationInv, RemovalInv, NEW r \in Reconcilers, ReconcilerKilled(r)
  PROVE  RemovalInv'
  <1>1. PICK c \in Creations : c = rec[r].of
    BY Targets DEF ReconcilerKilled, RecAt, CreationInv
  <1>2. rec[r].at # "idle" /\ UNCHANGED disk /\ Drops(r)
    BY DEF ReconcilerKilled, RecAt
  <1>3. Beside(r, c) /\ rec'[r].at = "idle"
    BY <1>1, <1>2, BesideDrops DEF ReconcilerKilled
  <1> QED BY <1>1, <1>2, <1>3, BesideRemoval

\* Every step keeps the invariant.
LEMMA RemovalStep ==
  ASSUME CreationInv, RemovalInv, [CreationNext]_creationVars
  PROVE  RemovalInv'
  <1>1. ASSUME NEW c \in Creations, CreatorSide(c)  PROVE  RemovalInv'
    BY <1>1, SideRemoval
  <1>2. ASSUME NEW r \in Reconcilers,
               \/ \E c \in Creations : Scan(r, c)
               \/ Lock(r) \/ Decide(r) \/ FinishRecovery(r) \/ Remove(r) \/ ReconcilerKilled(r)
        PROVE  RemovalInv'
    BY <1>2, ScanRemoval, LockRemoval, DecideRemoval, FinishRemoval, RemoveRemoval, KilledRemoval
  <1>3. CASE UNCHANGED creationVars
    BY <1>3
       DEF creationVars, creatorVars, engineVars, RemovalInv, AllPlaced, AllScansKept, Placed, FilesKept,
           Unbound, CleansAlone, ScanKept, Phase, Journal
  <1> QED BY <1>1, <1>2, <1>3 DEF CreationNext, CreatorSide

\* ... which the initial state satisfies.
LEMMA RemovalInit == ASSUME CreationInit PROVE RemovalInv
  BY DEF CreationInit, RemovalInv, AllPlaced, AllScansKept, Placed, FilesKept, Unbound, CleansAlone, Phase,
         Journal, NoTrace, NoScan, Cleaning

\* It holds of every behaviour.
LEMMA RemovalAlways == CreationSpec => [](CreationInv /\ RemovalInv)
  BY InitInv, CreationInvStep, RemovalInit, RemovalStep, PTL DEF CreationSpec

\* Nobody lives in the work tree of a creation whose lease a remover holds.
LEMMA NobodyLives ==
  ASSUME CreationInv, RemovalInv, NEW c \in Creations, fresh[c] # Nobody,
         Phase(c) # "preparing" \/ pc[c] \in Cleaning
  PROVE  engine[c] # "running" /\ stray[c] = "none"
  <1>1. engine[c] # "running" /\ stray[c] # "leased"
    BY DEF CreationInv, OneHolder, OriginalHeld
  <1>2. stray[c] # "unleased"
    BY DEF RemovalInv, AllPlaced, Placed, CleansAlone, Cleaning
  <1> QED BY <1>1, <1>2 DEF CreationInv, CreationTypeOK

\* A step of a creator, its engine or a runtime removes nothing, but for a creator
\* that cleans up.
LEMMA SideRemoves ==
  ASSUME CreationInv, NEW c \in Creations, CreatorSide(c),
         \/ disk[c].tree # "none" /\ disk'[c].tree = "none"
         \/ Phase(c) # "none" /\ disk'[c].phase = "none"
  PROVE  pc[c] \in Cleaning
  <1> USE DEF CreationInv, CreationTypeOK, Disks, creatorVars, engineVars, CreatorGoes,
              CreatorKnows, Knows, Phase, Cleaning
  <1>1. CASE Reserve(c)
    BY <1>1 DEF Reserve, Reservation
  <1>2. CASE BeginPrepare(c)
    BY <1>2 DEF BeginPrepare
  <1>3. CASE Launch(c)
    BY <1>3 DEF Launch
  <1>4. CASE EndPrepare(c)
    BY <1>4 DEF EndPrepare, AnchorsIntact, EvidenceMatches
  <1>5. CASE Interrupt(c)
    BY <1>5 DEF Interrupt
  <1>6. CASE PublicationStarted(c)
    BY <1>6 DEF PublicationStarted
  <1>7. CASE Bind(c)
    BY <1>7 DEF Bind
  <1>8. CASE BeginCommit(c)
    BY <1>8 DEF BeginCommit, AnchorsIntact, EvidenceMatches
  <1>9. CASE CommitJournal(c)
    BY <1>9 DEF CommitJournal, OpensJournal
  <1>10. CASE CommitRecord(c)
    BY <1>10 DEF CommitRecord
  <1>11. CASE CommitMarks(c)
    BY <1>11 DEF CommitMarks
  <1>12. CASE Fail(c)
    BY <1>12 DEF Fail
  <1>13. CASE LeaveContext(c)
    BY <1>13 DEF LeaveContext, Unpublished
  <1>14. CASE Relock(c)
    BY <1>14 DEF Relock, ProvesAlone, LeaseFree, RuntimeInactive
  <1>15. CASE Clean(c)
    BY <1>15 DEF Clean, RemovesTree, RemovesRecord, RemovesIndex, Releases
  <1>16. CASE CreatorKilled(c)
    BY <1>16 DEF CreatorKilled, Releases
  <1>17. CASE EngineWorks(c)
    BY <1>17 DEF EngineWorks
  <1>18. CASE EngineEnds(c)
    BY <1>18 DEF EngineEnds
  <1>19. CASE StrayEnds(c)
    BY <1>19 DEF StrayEnds
  <1>20. CASE RuntimeStarts(c)
    BY <1>20 DEF RuntimeStarts
  <1>21. CASE RuntimeWorks(c)
    BY <1>21 DEF RuntimeWorks
  <1>22. CASE RuntimeEnds(c)
    BY <1>22 DEF RuntimeEnds
  <1> QED
    BY <1>1, <1>2, <1>3, <1>4, <1>5, <1>6, <1>7, <1>8, <1>9, <1>10, <1>11, <1>12, <1>13, <1>14,
       <1>15, <1>16, <1>17, <1>18, <1>19, <1>20, <1>21, <1>22
       DEF CreatorSide, CreatorStep

\* What a remover removes is nobody's.
LEMMA RemovesNothingLive ==
  ASSUME CreationInv, RemovalInv, [CreationNext]_creationVars, NEW c \in Creations,
         \/ disk[c].tree # "none" /\ disk'[c].tree = "none"
         \/ Phase(c) # "none" /\ disk'[c].phase = "none"
  PROVE  /\ engine[c] # "running" /\ stray[c] = "none"
         /\ runtime[c] # Runtime /\ Journal(c) = "none" /\ binding[c] # "MATCH"
  <1> USE CreationAssumption
  <1>1. ASSUME NEW d \in Creations, CreatorSide(d)
        PROVE  /\ engine[c] # "running" /\ stray[c] = "none"
               /\ runtime[c] # Runtime /\ Journal(c) = "none" /\ binding[c] # "MATCH"
    <2>1. d = c
      BY <1>1, SideUntouched DEF Untouched, Phase
    <2>2. pc[c] \in Cleaning
      BY <1>1, <2>1, SideRemoves
    <2>3. fresh[c] = Creator /\ Journal(c) = "none"
      BY <2>2 DEF CreationInv, OneHolder, CreatorKnows, Knows
    <2>4. runtime[c] = Creator /\ binding[c] = "ABSENT"
      BY <2>2 DEF RemovalInv, AllPlaced, Placed, CleansAlone, Unbound
    <2> QED BY <2>2, <2>3, <2>4, NobodyLives
  <1>2. ASSUME NEW r \in Reconcilers, Remove(r)
        PROVE  /\ engine[c] # "running" /\ stray[c] = "none"
               /\ runtime[c] # Runtime /\ Journal(c) = "none" /\ binding[c] # "MATCH"
    <2>1. rec[r].at \in Cleaning
      BY <1>2 DEF Remove, RecAt, Cleaning
    <2>2. PICK d \in Creations : d = rec[r].of
      BY <2>1, AtWork
    <2>3. d = c
      BY <1>2, <2>2
         DEF Remove, Target, RemovesTree, RemovesRecord, RemovesIndex, CreationInv, CreationTypeOK,
             Phase
    <2>4. /\ Remembers(r, c) /\ ScanKept(r, c)
          /\ Phase(c) \in {"prepared"} \cup Declared
      BY <2>1, <2>2, <2>3, AtWork
    <2>5. fresh[c] = r
      <3>1. rec[r].at \notin {"idle", "lock"}
        BY <2>1 DEF Cleaning
      <3> QED BY <2>2, <2>3, <3>1 DEF CreationInv, OneHolder
    <2>6. runtime[c] = r /\ binding[c] = "ABSENT" /\ Journal(c) = "none"
      BY <2>1, <2>4 DEF Remembers, ScanKept
    <2> QED BY <2>4, <2>5, <2>6, NobodyLives DEF Declared
  <1>3. ASSUME NEW r \in Reconcilers, FinishRecovery(r)  PROVE  FALSE
    <2>1. PICK d \in Creations : d = rec[r].of
      BY <1>3, Targets DEF FinishRecovery, RecAt, CreationInv
    <2>2. \/ disk' = [disk EXCEPT ![d].journal = "OPEN"]
          \/ disk' = [disk EXCEPT ![d].phase = "committed"]
          \/ disk' = [disk EXCEPT ![d].pending = FALSE]
          \/ disk' = [disk EXCEPT ![d].index = FALSE]
      BY <1>3, <2>1 DEF FinishRecovery, Target, OpensJournal
    <2>3. disk'[c].tree = disk[c].tree /\ disk'[c].phase \in {disk[c].phase, "committed"}
      <3>1. disk \in [Creations -> Disks] /\ disk[c] \in Disks
        BY DEF CreationInv, CreationTypeOK
      <3>2. CASE c = d
        BY <2>2, <3>1, <3>2 DEF Disks
      <3>3. CASE c # d
        BY <2>2, <3>1, <3>3
      <3> QED BY <3>2, <3>3
    <2> QED BY <2>3 DEF Phase
  <1>4. ASSUME UNCHANGED disk  PROVE  FALSE
    BY <1>4 DEF Phase
  <1>5. ASSUME NEW r \in Reconcilers,
               (\E d \in Creations : Scan(r, d)) \/ Lock(r) \/ Decide(r) \/ ReconcilerKilled(r)
        PROVE  FALSE
    BY <1>4, <1>5 DEF Scan, Lock, Decide, ReconcilerKilled
  <1> QED BY <1>1, <1>2, <1>3, <1>4, <1>5 DEF CreationNext, CreatorSide, creationVars

\* As long as a declared intent is not recorded as committed, the index leads a
\* reconciler to it, and without a journal it is still marked as pending, whoever
\* was killed (commit and reconcile of bin/harness_session_creation.py).
THEOREM IntentIsFindable == CreationSpec => []IntentFindable
  <1>1. RemovalInv => IntentFindable
    BY DEF RemovalInv, AllPlaced, Placed, FilesKept, IntentFindable
  <1> QED BY <1>1, RemovalAlways, PTL

\* Nothing is removed from under an engine or what it left running, a runtime, a
\* published journal or a bound runtime (_cleanup_unpublished, _cleanup_abandoned).
THEOREM NothingLiveIsRemoved == CreationSpec => NothingLiveRemoved
  <1>1. ASSUME CreationInv, RemovalInv, [CreationNext]_creationVars
        PROVE  \A c \in Creations :
                 \/ disk[c].tree # "none" /\ disk'[c].tree = "none"
                 \/ Phase(c) # "none" /\ disk'[c].phase = "none"
                 => /\ engine[c] # "running" /\ stray[c] = "none"
                    /\ runtime[c] # Runtime /\ Journal(c) = "none"
                    /\ binding[c] # "MATCH"
    BY <1>1, RemovesNothingLive
  <1> QED BY <1>1, RemovalAlways, PTL DEF CreationSpec, NothingLiveRemoved
=============================================================================
