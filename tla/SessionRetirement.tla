-------------------------- MODULE SessionRetirement --------------------------
(***************************************************************************)
(* The retirement of one ended session (gc in bin/session-isolation.sh     *)
(* with harness_session_archive.py, harness_session_work_proof.py and      *)
(* harness_session_work_recovery.py): gc removes the session's directory   *)
(* when its history is archived and its work is accounted for, while an    *)
(* operator preserves work, a launcher resumes, and processes that hold no *)
(* lease write to the directory by its name or through what they opened.   *)
(*                                                                         *)
(* The history is two files, at 0 when absent and else at the number of    *)
(* their writes.  The work is HEAD, the index, the files and a bytecode    *)
(* cache, each as the proof tells them apart.  Retention has run out.      *)
(* Limits, metadata that is malformed, and imports and restore receipts in *)
(* the archive's manifest are left out.                                    *)
(***************************************************************************)
EXTENDS Naturals, FiniteSets

CONSTANTS Kinds,      \* how the session ended: <<journal state, whether it was headless>>
          None,
          Custodian,  \* whether an operator preserves work
          MaxWrites,  \* writes to the directory, resumes and holds
          Written,    \* parts of the work that are written to
  MaxDeaths   \* processes that are killed or fail

VARIABLES
  dir,    \* where the directory is, its history and work; squat: another directory took its name
  owner,  \* the session's record: journal state, headless, resume hold
  kept,   \* what outlives the directory: archive, Native snapshots, preserved cache and work
  lease,  \* the holder of runtime.lock
  ar,     \* the run of archive(): at most one, its caller holds the lease
  gc, cust, \* gc and the operator
  left,   \* of the bounds
  ghost   \* past: every state of the history; lost: removed with nothing that accounts for it;
          \* late: written after the last look; held: see HeldStays; early: see Durable

vars == <<dir, owner, kept, lease, ar, gc, cust, left, ghost>>

File == {"index", "rollout"}
FileAt == <<"index", "rollout">>
Inventory(home) == {f \in File : home[f] > 0}
Tombs == {"archiving", "retired"}

Home == [File -> Nat]
Part == {"head", "index", "files", "cache"}
Work == [Part -> {"base", "result", "other", "same", "odd", "none"}]

\* What the theorems assume: None is a value of its own.
RetirementAssumption ==
  /\ Kinds \subseteq {"CLOSED", "DELIVERED", "DISCARDED"} \X BOOLEAN /\ Written \subseteq Part
  /\ None \notin {"gc", "cust", "launch", "restore"} /\ None \notin Home
  /\ None \notin [files : Home, synced : BOOLEAN]
  /\ None \notin [work : Work, pending : BOOLEAN, synced : BOOLEAN]

NoArchiving == [by |-> None, n |-> 0, new |-> FALSE, inv |-> {}, ref |-> [f \in File |-> 0]]
GcIdle == [at |-> "idle", native |-> FALSE, snap |-> None, caching |-> FALSE]
CustIdle == [at |-> "idle", expected |-> None]

Ended(kind) ==
  LET tree == IF kind[1] = "CLOSED" THEN "base" ELSE "result"
  IN  {[head |-> "base", index |-> i, files |-> tree, cache |-> "none"] :
         i \in IF kind[1] = "DISCARDED" \/ kind[2] THEN {"base", tree} ELSE {tree}}

Init ==
  /\ \E kind \in Kinds, n \in {0, 1} : \E work \in Ended(kind) :
       /\ dir = [place |-> "root", squat |-> FALSE, home |-> [f \in File |-> n], work |-> work]
       /\ owner = [state |-> kind[1], headless |-> kind[2], hold |-> "none"]
  /\ kept = [arc |-> None, snaps |-> {}, cache |-> "none", rec |-> None]
  /\ lease = None /\ ar = NoArchiving /\ gc = GcIdle /\ cust = CustIdle
  /\ left = [writes |-> MaxWrites, deaths |-> MaxDeaths]
  /\ ghost = [past |-> {dir.home}, lost |-> {}, late |-> {}, held |-> FALSE, early |-> FALSE]

Terminal == owner.state \in {"CLOSED", "DELIVERED", "DISCARDED"}

-----------------------------------------------------------------------------
(* archive(): copies or finds the history in the archive, then reads it all again *)

ArBegin(p) ==
  ar' = [by |-> p, n |-> IF kept.arc = None THEN 1 ELSE 3, new |-> kept.arc = None,
         inv |-> Inventory(dir.home),
         ref |-> IF kept.arc = None THEN [f \in File |-> 0] ELSE kept.arc.files]

ArCopy ==
  /\ ar.n \in {1, 2}
  /\ LET f == FileAt[ar.n]
     IN  /\ f \in ar.inv => dir.home[f] > 0
         /\ ar' = [ar EXCEPT !.n = @ + 1, !.ref[f] = IF f \in ar.inv THEN dir.home[f] ELSE 0]
  /\ UNCHANGED <<kept, ghost>>

StillListed(f) == ar.inv = Inventory(dir.home)

\* _assert_current_source: the same files, each as it was copied or as the archive has it.
StillThere(f) == ar.inv = Inventory(dir.home) /\ dir.home[f] = ar.ref[f]

ArCheck ==
  /\ ar.n \in {3, 4} /\ StillThere(FileAt[ar.n - 2])
  /\ ar' = [ar EXCEPT !.n = @ + 1] /\ UNCHANGED <<kept, ghost>>

\* The staging directory takes the archive's name whole; only then is that name on disk for good.
ArPublish ==
  /\ ar.n = 5 /\ ar.new /\ ar.inv = Inventory(dir.home)
  /\ kept' = [kept EXCEPT !.arc = [files |-> ar.ref, synced |-> FALSE]]
  /\ ar' = [ar EXCEPT !.n = 6] /\ UNCHANGED ghost

ArStep == ArCopy \/ ArCheck \/ ArPublish

ArDone ==
  \/ ar.n = 6 /\ kept' = [kept EXCEPT !.arc.synced = TRUE]
  \/ ar.n = 5 /\ ~ar.new /\ ar.inv = Inventory(dir.home) /\ UNCHANGED kept

ArFails ==
  \/ ar.n \in {1, 2} /\ FileAt[ar.n] \in ar.inv /\ dir.home[FileAt[ar.n]] = 0
  \/ ar.n \in {3, 4} /\ ~StillThere(FileAt[ar.n - 2])
  \/ ar.n = 5 /\ ar.inv # Inventory(dir.home)

-----------------------------------------------------------------------------
(* The work proof *)

Expected == IF owner.state = "CLOSED" THEN "base" ELSE "result"

Loadable(rec) == ~rec.pending

\* Work an operator preserved counts as long as it is what is there.
Recovered == Loadable(kept.rec) /\ kept.rec.work = dir.work

IndexAccounted ==
  \/ dir.work.index = Expected
  \/ dir.work.index = "base" /\ (owner.state = "DISCARDED" \/ owner.headless)

Proven ==
  /\ owner.state # "DISCARDED" => dir.work.head = "base"
  /\ IF kept.rec # None THEN Recovered
     ELSE IndexAccounted /\ dir.work.files = Expected

\* A cache that cannot be reproduced is copied to the record first; a copy that is not whole refuses.
NeedsCopy == kept.rec = None /\ dir.work.cache = "odd"

CopyFits == NeedsCopy => kept.cache = "whole" \/ kept.cache = "none"

-----------------------------------------------------------------------------
(* gc *)

Rest == UNCHANGED <<owner, cust, left, ar>>

GcEnds == gc' = GcIdle /\ lease' = None

\* After the move a failure gives the directory its name back, unless the name is taken.
PutBack ==
  dir' = IF dir.place \in Tombs /\ ~dir.squat THEN [dir EXCEPT !.place = "root"] ELSE dir

GcGivesUp == GcEnds /\ PutBack

GcTake ==
  /\ gc.at = "idle" /\ lease = None /\ Terminal /\ dir.place = "root"
  /\ lease' = "gc" /\ gc' = [gc EXCEPT !.at = "held"]
  /\ UNCHANGED <<dir, kept, ghost>> /\ Rest

NeverHolds == FALSE

\* A hold of a process that is gone is removed.
Holds == owner.hold = "live"

GcHeld ==
  /\ gc.at = "held"
  /\ IF Holds THEN GcEnds /\ UNCHANGED owner
     ELSE /\ gc' = [gc EXCEPT !.at = "work"] /\ UNCHANGED lease
          /\ owner' = [owner EXCEPT !.hold = IF @ = "dead" THEN "none" ELSE @]
  /\ UNCHANGED <<dir, kept, cust, left, ar, ghost>>

\* What follows each proof: the home's kind, the restore of the snapshot, the removal.
AfterProof == [work |-> "kind", work2 |-> IF gc.native THEN "verify" ELSE "rm", work3 |-> "rm"]

Proving == gc.at \in DOMAIN AfterProof /\ ~gc.caching

GcProve ==
  /\ Proving
  /\ \/ ~(Proven /\ CopyFits) /\ GcGivesUp
     \/ Proven /\ (NeedsCopy => kept.cache = "whole") /\ gc' = [gc EXCEPT !.at = AfterProof[gc.at]]
        /\ UNCHANGED <<dir, lease>>
  /\ UNCHANGED <<kept, ghost>> /\ Rest

GcCopyCache ==
  /\ \/ /\ Proving /\ Proven /\ NeedsCopy /\ kept.cache = "none"
        /\ kept' = [kept EXCEPT !.cache = "partial"] /\ gc' = [gc EXCEPT !.caching = TRUE]
     \/ gc.caching /\ kept' = [kept EXCEPT !.cache = "whole"] /\ gc' = [gc EXCEPT !.caching = FALSE]
  /\ UNCHANGED <<dir, lease, ghost>> /\ Rest

\* content-kind; a home with history is first taken into a Native snapshot.
GcKind ==
  /\ gc.at = "kind"
  /\ LET native == Inventory(dir.home) # {}
     IN  /\ gc' = [gc EXCEPT !.at = "archive", !.native = native, !.snap = IF native THEN dir.home ELSE None]
         /\ kept' = [kept EXCEPT !.snaps = IF native THEN @ \union {dir.home} ELSE @]
  /\ ArBegin("gc") /\ UNCHANGED <<dir, lease, owner, cust, left, ghost>>

GcArchive ==
  /\ gc.at = "archive"
  /\ \/ ArStep /\ UNCHANGED <<gc, lease>>
     \/ ArDone /\ ar' = NoArchiving /\ gc' = [gc EXCEPT !.at = "move"] /\ UNCHANGED <<lease, ghost>>
     \/ ArFails /\ ar' = NoArchiving /\ GcEnds /\ UNCHANGED <<kept, ghost>>
  /\ UNCHANGED <<dir, owner, cust, left>>

GcMove ==
  /\ gc.at = "move" /\ dir' = [dir EXCEPT !.place = IF gc.native THEN "archiving" ELSE "retired"]
  /\ gc' = [gc EXCEPT !.at = "work2"] /\ UNCHANGED <<lease, kept, ghost>> /\ Rest

SnapshotThere == gc.snap \in kept.snaps

\* The home under its new name against the snapshot, which Codex has restored and read.
SameHistory == gc.snap = dir.home

GcVerify ==
  /\ gc.at = "verify"
  /\ IF SameHistory THEN gc' = [gc EXCEPT !.at = "work3"] /\ UNCHANGED <<dir, lease>> ELSE GcGivesUp
  /\ UNCHANGED <<kept, ghost>> /\ Rest

\* What accounts for the history and for the work that goes.
HistoryKept(f) ==
  /\ kept.arc # None /\ kept.arc.files[f] = dir.home[f]
  /\ dir.home[f] > 0 => \E s \in kept.snaps : s[f] = dir.home[f]

WorkKept ==
  \/ kept.rec # None /\ kept.rec.work = dir.work
  \/ /\ dir.work.head = "base" \/ owner.state = "DISCARDED"
     /\ IndexAccounted /\ dir.work.files = Expected /\ (dir.work.cache = "odd" => kept.cache = "whole")

\* rm -rf takes one entry after the other.
GcRemove ==
  /\ gc.at = "rm"
  /\ \/ \E f \in Inventory(dir.home) :
          /\ dir' = [dir EXCEPT !.home[f] = 0]
          /\ ghost' = [ghost EXCEPT !.lost = @ \union IF HistoryKept(f) THEN {} ELSE {<<f, dir.home[f]>>}]
          /\ UNCHANGED <<gc, lease>>
     \/ /\ dir.work.files # "none" /\ dir' = [dir EXCEPT !.work.files = "none"]
        /\ ghost' = [ghost EXCEPT !.lost = @ \union IF WorkKept THEN {} ELSE {<<"work", 1>>}]
        /\ UNCHANGED <<gc, lease>>
     \/ /\ Inventory(dir.home) = {} /\ dir.work.files = "none"
        /\ dir' = [dir EXCEPT !.place = "gone"] /\ GcEnds /\ UNCHANGED ghost
  /\ UNCHANGED kept /\ Rest

\* The next run gives a directory that a killed one had moved its name back; one of ".retired-" stays.
GcReturn ==
  /\ gc.at = "idle" /\ lease = None /\ Terminal /\ dir.place = "archiving" /\ ~dir.squat
  /\ dir' = [dir EXCEPT !.place = "root"] /\ UNCHANGED <<kept, lease, gc, ghost>> /\ Rest

Gc ==
  \/ GcTake \/ GcHeld \/ GcProve \/ GcCopyCache \/ GcKind \/ GcArchive \/ GcMove
  \/ GcVerify \/ GcRemove \/ GcReturn

-----------------------------------------------------------------------------
(* The operator's preservation *)

Inventories == dir.place = "root" /\ dir.work.head = "base" /\ ~owner.headless /\ Terminal

\* The inventory that is approved is taken without the lease.
CustInventory ==
  /\ Custodian /\ cust.at = "idle" /\ Inventories
  /\ cust' = [at |-> "approved", expected |-> dir.work] /\ UNCHANGED <<kept, lease>>

CustTake ==
  /\ cust.at = "approved" /\ lease = None
  /\ IF Inventories /\ dir.work = cust.expected /\ kept.rec = None
     THEN lease' = "cust" /\ cust' = [cust EXCEPT !.at = "staged"]
     ELSE cust' = CustIdle /\ UNCHANGED lease
  /\ UNCHANGED kept

\* The copy has been restored elsewhere and compared; the source is read once more.
CustPublish ==
  /\ cust.at = "staged"
  /\ IF Inventories /\ dir.work = cust.expected
     THEN /\ kept' = [kept EXCEPT !.rec = [work |-> cust.expected, pending |-> TRUE, synced |-> FALSE]]
          /\ cust' = [cust EXCEPT !.at = "published"] /\ UNCHANGED lease
     ELSE cust' = CustIdle /\ lease' = None /\ UNCHANGED kept

CustSyncLast ==
  \/ /\ cust.at = "published" /\ kept' = [kept EXCEPT !.rec.pending = FALSE]
     /\ cust' = [cust EXCEPT !.at = "synced"] /\ UNCHANGED lease
  \/ /\ cust.at = "synced" /\ kept' = [kept EXCEPT !.rec.synced = TRUE]
     /\ cust' = CustIdle /\ lease' = None

\* Without the sync of the record's directory the marker stays, for good.
CustSync ==
  \/ /\ cust.at = "published" /\ kept' = [kept EXCEPT !.rec.synced = TRUE]
     /\ cust' = [cust EXCEPT !.at = "synced"] /\ UNCHANGED lease
  \/ /\ cust.at = "synced" /\ kept' = [kept EXCEPT !.rec.pending = FALSE]
     /\ cust' = CustIdle /\ lease' = None

Preserve ==
  /\ CustInventory \/ CustTake \/ CustPublish \/ CustSync
  /\ UNCHANGED <<dir, owner, gc, ar, left, ghost>>

-----------------------------------------------------------------------------
(* Launchers and writers *)

Costs == left.writes > 0 /\ left' = [left EXCEPT !.writes = @ - 1]

\* A resume takes the lease; the session it opens ends again with nothing to deliver.
Launch ==
  \/ /\ lease = None /\ owner.state = "CLOSED" /\ dir.place = "root"
     /\ lease' = "launch" /\ owner' = [owner EXCEPT !.state = "OPEN"] /\ Costs
  \/ /\ lease = "launch" /\ dir.work.files = "base" /\ dir.work.head = "base"
     /\ lease' = None /\ owner' = [owner EXCEPT !.state = "CLOSED"] /\ UNCHANGED left

\* A hold names a live process of a resume to come; it takes no lease.
Hold ==
  \/ /\ owner.hold = "none" /\ owner' = [owner EXCEPT !.hold = "live"] /\ Costs
     /\ ghost' = [ghost EXCEPT !.held = gc.at \in {"idle", "held"} /\ dir.place = "root"]
  \/ /\ owner.hold # "none" /\ owner' = [owner EXCEPT !.hold = "none"]
     /\ ghost' = [ghost EXCEPT !.held = FALSE] /\ UNCHANGED left
  \/ /\ owner.hold = "live" /\ owner' = [owner EXCEPT !.hold = "dead"]
     /\ ghost' = [ghost EXCEPT !.held = FALSE] /\ UNCHANGED left

\* gc has looked at this for the last time: at the history when Codex has read it, or, of a home
\* that had none, in the archive's check; at the work in the proof before the removal.
Looked(f) ==
  IF gc.native THEN gc.at \in {"work3", "rm"}
  ELSE gc.at \in {"move", "work2", "rm"} \/ (ar.by = "gc" /\ ar.n > 2)

Write ==
  /\ Costs
  /\ \/ /\ dir.place # "gone"
        /\ \/ \E f \in File :
                LET home == [dir.home EXCEPT ![f] = @ + 1]
                IN  /\ dir' = [dir EXCEPT !.home = home]
                    /\ ghost' = [ghost EXCEPT !.past = @ \union {home},
                                   !.late = @ \union IF Looked(f) THEN {<<f, home[f]>>} ELSE {}]
           \/ \E part \in Written, x \in {"other", "same", "odd"} :
                /\ (part = "cache") = (x # "other") /\ dir' = [dir EXCEPT !.work[part] = x]
                /\ ghost' = [ghost EXCEPT !.late = @ \union IF gc.at = "rm" THEN {<<"work", 1>>} ELSE {}]
     \/ /\ dir.place # "root" /\ ~dir.squat /\ dir' = [dir EXCEPT !.squat = TRUE] /\ UNCHANGED ghost

Mishap == left.deaths > 0 /\ left' = [left EXCEPT !.deaths = @ - 1]

\* A killed process releases the lease; what it has moved or written stays.
Dies ==
  /\ Mishap
  /\ \/ gc.at # "idle" /\ gc' = GcIdle /\ lease' = None /\ UNCHANGED <<owner, cust>>
     \/ cust.at \notin {"idle", "approved"} /\ cust' = CustIdle /\ lease' = None /\ UNCHANGED <<owner, gc>>
  /\ ar' = NoArchiving
  /\ ghost' = [ghost EXCEPT !.early = @ \/ ar.n = 6]

Next ==
  \/ Gc \/ Preserve
  \/ Launch /\ UNCHANGED <<dir, kept, ar, gc, cust, ghost>>
  \/ Hold /\ UNCHANGED <<dir, kept, lease, ar, gc, cust>>
  \/ Write /\ UNCHANGED <<owner, kept, lease, ar, gc, cust>>
  \/ Dies /\ UNCHANGED <<dir, kept>>

Spec == Init /\ [][Next]_vars

-----------------------------------------------------------------------------
Removing == gc.at = "rm" \/ dir.place = "gone"

\* What the variables may hold.
RetirementTypeOK ==
  /\ dir.place \in {"root", "gone"} \union Tombs /\ dir.home \in [File -> 0..MaxWrites + 1]
  /\ lease \in {None, "gc", "cust", "launch", "restore"} /\ ar.n \in 0..6
  /\ kept.cache \in {"none", "partial", "whole"} /\ owner.hold \in {"none", "live", "dead"}

\* gc removes no history that the archive and a snapshot do not hold and no work that neither base,
\* delivery, discard patch nor a preserved copy holds, whatever is written meanwhile, except what
\* is written after its last look.
NothingLost == ghost.lost \subseteq ghost.late

\* A published archive is the history of one moment, not one file of one moment and one of another.
ArchiveTrue == kept.arc # None => kept.arc.files \in ghost.past

\* Custody is on disk for good when the original goes: the parent entry of the preserved work and of
\* the archive, except when archive() died between the rename and its sync.
Durable ==
  Removing => /\ kept.rec # None => kept.rec.synced
              /\ kept.arc.synced \/ ghost.early

\* A hold on record when gc looked, and the session still there, keeps the directory at its name.
HeldStays == ghost.held => dir.place = "root"

\* What a retirement keeps to, and the archive it leaves.
RetirementHolds == NothingLost /\ ArchiveTrue /\ Durable /\ HeldStays
=============================================================================
