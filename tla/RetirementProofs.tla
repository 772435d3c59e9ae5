--------------------------- MODULE RetirementProofs ---------------------------
(***************************************************************************)
(* Theorems about SessionRetirement and SessionRestore, for any number of  *)
(* writes, deaths and restores and whatever the session's state: gc loses  *)
(* no history and no work, the archive it leaves is of one moment and on   *)
(* disk for good, a hold keeps the directory, and a restored conversation  *)
(* is true and marked as another session's.                                *)
(*                                                                         *)
(* The argument: whoever works has the lease, so archive() has its files   *)
(* from one moment unless it fails (Owned, Archiving); what gc's snapshot  *)
(* has is in the archive and that in the directory, which only grows, so   *)
(* when Codex finds the snapshot and the directory equal all three are     *)
(* (Seen); what changes afterwards is known to be late (Covered); and the  *)
(* record of preserved work is loaded only after its sync (Custody).       *)
(***************************************************************************)
EXTENDS SessionRestore, TLAPS

Archives == [files : Home, synced : BOOLEAN]
Records == [work : Work, pending : BOOLEAN, synced : BOOLEAN]
GcPlaces == {"idle", "held", "work", "kind", "archive", "move", "work2", "verify", "work3", "rm"}

Dirs == [place : {"root", "gone", "archiving", "retired"}, squat : BOOLEAN, home : Home, work : Work]
Owners == [state : {"OPEN", "CLOSED", "DELIVERED", "DISCARDED"}, headless : BOOLEAN,
           hold : {"none", "live", "dead"}]
Custodies == [arc : Archives \cup {None}, snaps : SUBSET Home, cache : {"none", "partial", "whole"},
              rec : Records \cup {None}]
Archivings == [by : {None, "gc"} \cup Restorers, n : 0..6, new : BOOLEAN, inv : SUBSET File, ref : Home]
Gcs == [at : GcPlaces, native : BOOLEAN, snap : Home \cup {None}, caching : BOOLEAN]
Preservations == [at : {"idle", "approved", "staged", "published", "synced"}, expected : Work \cup {None}]
Moments == (File \cup {"work"}) \X Nat
Ghosts == [past : SUBSET Home, lost : SUBSET Moments, late : SUBSET Moments, held : BOOLEAN,
           early : BOOLEAN]

RetirementTypes ==
  /\ dir \in Dirs /\ owner \in Owners /\ kept \in Custodies
  /\ lease \in {None, "gc", "cust", "launch", "restore"}
  /\ ar \in Archivings /\ gc \in Gcs /\ cust \in Preservations /\ ghost \in Ghosts

\* Whoever works holds the lease.
Owned ==
  /\ gc.at # "idle" <=> lease = "gc"
  /\ cust.at \in {"staged", "published", "synced"} <=> lease = "cust"
  /\ ar.by = "gc" <=> gc.at = "archive"
  /\ ar.by \in Restorers <=> lease = "restore"
  /\ ar.by = None <=> ar.n = 0
  /\ (gc.at # "idle" \/ cust.at \in {"staged", "published", "synced"} \/ ar.n # 0) => dir.place # "gone"

\* What the archive() at work has found: the copy of the second file is of a moment at which
\* the first had not changed, or the files are not those that are copied.
Archiving ==
  /\ kept.arc = None => dir.home \in ghost.past
  /\ kept.arc # None => kept.arc.files \in ghost.past
  /\ ar.n \in 1..5 => (ar.new <=> kept.arc = None)
  /\ ar.n = 6 => kept.arc # None
  /\ (ar.n # 0 /\ kept.arc # None) => ar.ref = kept.arc.files
  /\ ar.n \in {1, 2} => ar.new
  /\ (ar.new /\ ar.n \in 2..5) => ar.ref["index"] <= dir.home["index"]
  /\ (ar.new /\ ar.n = 3) =>
       \/ \E h \in ghost.past : /\ h["rollout"] = ar.ref["rollout"]
                                /\ ar.ref["index"] <= h["index"] /\ h["index"] <= dir.home["index"]
       \/ "rollout" \notin ar.inv /\ dir.home["rollout"] > 0
  /\ (ar.new /\ ar.n \in {4, 5}) => ar.ref \in ghost.past

\* gc's snapshot is not younger than what the archive has, and that not than the home.
Between(f, files) == gc.snap[f] <= files[f] /\ files[f] <= dir.home[f]
Seen ==
  /\ gc.at \in {"move", "work2", "verify", "work3", "rm"} => kept.arc # None
  /\ (gc.native /\ gc.at \in {"archive", "move", "work2", "verify", "work3", "rm"}) =>
       gc.snap \in kept.snaps /\ gc.snap \in Home
  /\ (gc.native /\ gc.at = "archive") => \A f \in File : gc.snap[f] <= dir.home[f]
  /\ (gc.native /\ gc.at = "archive" /\ ar.n >= 4) => Between("index", ar.ref)
  /\ (gc.native /\ gc.at = "archive" /\ ar.n >= 5) => Between("rollout", ar.ref)
  /\ (gc.native /\ gc.at \in {"move", "work2", "verify"}) => \A f \in File : Between(f, kept.arc.files)
  /\ (~gc.native /\ gc.at = "archive") => ar.inv = {}
  /\ gc.at \in {"verify", "work3"} => gc.native

\* What goes is kept, or was written when gc had looked.
Spared(f) == <<f, dir.home[f]>> \in ghost.late
Covered ==
  /\ (~gc.native /\ ((gc.at = "archive" /\ ar.n >= 4) \/ gc.at \in {"move", "work2", "rm"})) =>
       \A f \in File : dir.home[f] > 0 => Spared(f)
  /\ (gc.native /\ gc.at \in {"work3", "rm"}) => \A f \in File : dir.home[f] > 0 => (HistoryKept(f) \/ Spared(f))
  /\ gc.at = "rm" => (dir.work.files = "none" \/ WorkKept \/ <<"work", 1>> \in ghost.late)

\* Custody on disk.
Custody ==
  /\ cust.at \in {"published", "synced"} => kept.rec # None
  /\ cust.at = "synced" => kept.rec.synced
  /\ cust.at = "staged" => kept.rec = None
  /\ kept.rec # None => (kept.rec.pending \/ kept.rec.synced)
  /\ Removing => (kept.rec # None => kept.rec.synced)
  /\ dir.place = "gone" => kept.arc # None
  /\ kept.arc # None => (kept.arc.synced \/ ghost.early \/ ar.n = 6)

Holding == ghost.held => (owner.hold = "live" /\ dir.place = "root" /\ gc.at \in {"idle", "held"})

\* The inductive invariant of SessionRetirement, and with RestoreInv that of SessionRestore.
RetInv ==
  /\ RetirementTypes /\ Owned /\ Archiving /\ Seen /\ Covered /\ Custody /\ Holding
  /\ NothingLost

\* The restores: where they are, and what they have made.
ResPlaces == {"idle", "verify", "lease", "archive", "ledger", "publish", "published", "done", "undo",
              "undo ledger"}
Targets == [home : [by : Restorers \cup {"owner"}, rollout : Nat] \cup {None},
            ledger : Restorers \cup {None}, lost : BOOLEAN]
Restores == [at : ResPlaces, staged : Nat \cup {None}]

StageOK(r) ==
  /\ res[r].at = "archive" <=> ar.by = r
  /\ res[r].at \in {"ledger", "publish"} =>
       res[r].staged \in Nat /\ \E h \in ghost.past : h["rollout"] = res[r].staged
  /\ res[r].at = "publish" => target.ledger = r
  /\ res[r].at = "undo ledger" => ~(target.home # None /\ target.home.by = r)

RestoreInv ==
  /\ target \in Targets /\ res \in [Restorers -> Restores]
  /\ \A r \in Restorers : StageOK(r)
  /\ Ledgered /\ Faithful

Inv == RetInv /\ RestoreInv

LEMMA Values ==
  GcIdle \in Gcs /\ CustIdle \in Preservations /\ NoArchiving \in Archivings
BY DEF GcIdle, CustIdle, NoArchiving, Gcs, GcPlaces, Preservations, Archivings, Home, File

\* While gc works and does not archive, no archive() is under way.
LEMMA GcWorksAlone ==
  ASSUME RetInv, gc.at \notin {"idle", "archive"}
  PROVE  ar.n = 0 /\ lease = "gc" /\ dir.place # "gone" /\ cust.at \in {"idle", "approved"}
BY DEF RetInv, RetirementTypes, Archivings, Preservations, Owned

LEMMA RetirementStays ==
  ASSUME RetInv, UNCHANGED <<dir, owner, kept, lease, ar, gc, cust, ghost>>
  PROVE  RetInv'
<1>1. RetirementTypes' /\ Owned' /\ Archiving' /\ Custody' /\ Holding' /\ NothingLost'
  BY DEF RetInv, RetirementTypes, Owned, Archiving, Custody, Removing, Holding, NothingLost
<1>2. Seen'
  BY DEF RetInv, Seen, Between
<1>3. Covered'
  BY DEF RetInv, Covered, Spared, HistoryKept, WorkKept, IndexAccounted, Expected
<1> QED BY <1>1, <1>2, <1>3 DEF RetInv

-----------------------------------------------------------------------------
(* archive() *)

LEMMA ArchiveCopies ==
  ASSUME RetirementAssumption, RestoreAssumption, RetInv, ArCopy, UNCHANGED <<dir, owner, lease,
         gc, cust>>
  PROVE  RetInv'
<1> DEFINE f == FileAt[ar.n]
           c == IF f \in ar.inv THEN dir.home[f] ELSE 0
           ref == [ar.ref EXCEPT ![f] = c]
<1>1. /\ ar.n \in {1, 2} /\ f \in File
      /\ ar.n = 1 => f = "index"
      /\ ar.n = 2 => f = "rollout"
      /\ f \in ar.inv => dir.home[f] > 0
  BY DEF ArCopy, FileAt, File
<1>2. ar.ref \in Home /\ dir.home \in Home
  BY DEF RetInv, RetirementTypes, Archivings, Dirs
<1>3. c \in Nat /\ c <= dir.home[f] /\ (c # dir.home[f] => f \notin ar.inv /\ dir.home[f] > 0)
  BY <1>1, <1>2 DEF Home
<1>4. ref \in Home /\ ref[f] = c /\ \A g \in File \ {f} : ref[g] = ar.ref[g]
  BY <1>1, <1>2, <1>3 DEF Home
<1>5. /\ ar' = [ar EXCEPT !.n = @ + 1, !.ref = ref]
      /\ UNCHANGED <<kept, ghost, dir, owner, lease, gc, cust>>
  BY <1>1 DEF ArCopy
<1> HIDE DEF c, ref
<1>6. /\ ar'.by = ar.by /\ ar'.n = ar.n + 1 /\ ar'.new = ar.new /\ ar'.inv = ar.inv /\ ar'.ref = ref
      /\ ar'.n \in {2, 3}
  BY <1>1, <1>5 DEF RetInv, RetirementTypes, Archivings
<1>7. RetirementTypes'
  <2>1. ar \in Archivings /\ ar.n + 1 \in 0..6
    BY <1>1 DEF RetInv, RetirementTypes
  <2>2. ar' \in Archivings
    BY <1>4, <1>5, <2>1 DEF Archivings
  <2> QED BY <1>5, <2>2 DEF RetInv, RetirementTypes
<1>8. Owned'
  BY <1>1, <1>5, <1>6 DEF RetInv, Owned
<1>9. Archiving'
  BY <1>1, <1>2, <1>3, <1>4, <1>5, <1>6 DEF RetInv, Archiving, Home, File
<1>10. Seen'
  BY <1>1, <1>5, <1>6 DEF RetInv, Seen, Between
<1>11. Covered' /\ Holding' /\ NothingLost'
  BY <1>1, <1>5, <1>6 DEF RetInv, Covered, Spared, HistoryKept, WorkKept, IndexAccounted, Expected,
     Holding, NothingLost
<1>12. Custody'
  BY <1>1, <1>5, <1>6 DEF RetInv, Custody, Removing
<1> QED BY <1>7, <1>8, <1>9, <1>10, <1>11, <1>12 DEF RetInv

LEMMA ArchiveChecks ==
  ASSUME RetirementAssumption, RestoreAssumption, RetInv, ArCheck, UNCHANGED <<dir, owner, lease,
         gc, cust>>
  PROVE  RetInv'
<1> DEFINE f == FileAt[ar.n - 2]
<1>1. /\ ar.n \in {3, 4} /\ ar.inv = {g \in File : dir.home[g] > 0}
      /\ ar.n = 3 => dir.home["index"] = ar.ref["index"]
      /\ ar.n = 4 => dir.home["rollout"] = ar.ref["rollout"]
  BY DEF ArCheck, StillThere, Inventory, FileAt
<1>2. ar.ref \in Home /\ dir.home \in Home /\ ghost.past \subseteq Home
  BY DEF RetInv, RetirementTypes, Archivings, Dirs, Ghosts
<1>3. /\ ar' = [ar EXCEPT !.n = @ + 1]
      /\ UNCHANGED <<kept, ghost, dir, owner, lease, gc, cust>>
  BY DEF ArCheck
<1>4. /\ ar'.by = ar.by /\ ar'.n = ar.n + 1 /\ ar'.new = ar.new /\ ar'.inv = ar.inv /\ ar'.ref = ar.ref
      /\ ar'.n \in {4, 5}
  BY <1>1, <1>3 DEF RetInv, RetirementTypes, Archivings
<1>5. RetirementTypes'
  <2>1. ar' \in Archivings
    BY <1>1, <1>3 DEF RetInv, RetirementTypes, Archivings
  <2> QED BY <1>3, <2>1 DEF RetInv, RetirementTypes
<1>6. Owned'
  BY <1>1, <1>3, <1>4 DEF RetInv, Owned
<1>7. Archiving'
  <2>1. CASE ar.new /\ ar.n = 3
    <3>1. PICK h \in ghost.past : /\ h["rollout"] = ar.ref["rollout"]
                                  /\ ar.ref["index"] <= h["index"] /\ h["index"] <= dir.home["index"]
      BY <1>1, <2>1 DEF RetInv, Archiving, File
    <3>2. h = ar.ref
      BY <1>1, <1>2, <2>1, <3>1 DEF Home, File
    <3> QED BY <1>1, <1>3, <1>4, <2>1, <3>1, <3>2 DEF RetInv, Archiving
  <2> QED BY <1>1, <1>3, <1>4, <2>1 DEF RetInv, Archiving
<1>8. Seen'
  BY <1>1, <1>2, <1>3, <1>4 DEF RetInv, Seen, Between, Home, File
<1>9. Covered' /\ Holding' /\ NothingLost'
  BY <1>1, <1>2, <1>3, <1>4 DEF RetInv, Seen, Covered, Spared, HistoryKept, WorkKept,
     IndexAccounted, Expected,
     Holding, NothingLost, Home
<1>10. Custody'
  BY <1>1, <1>3, <1>4 DEF RetInv, Custody, Removing
<1> QED BY <1>5, <1>6, <1>7, <1>8, <1>9, <1>10 DEF RetInv

LEMMA ArchivePublishes ==
  ASSUME RetirementAssumption, RestoreAssumption, RetInv, ArPublish, UNCHANGED <<dir, owner, lease,
         gc, cust>>
  PROVE  RetInv'
<1> DEFINE arc == [files |-> ar.ref, synced |-> FALSE]
<1>1. /\ ar.n = 5 /\ ar.new /\ kept.arc = None
  BY DEF ArPublish, RetInv, Archiving
<1>2. ar.ref \in Home /\ ar.ref \in ghost.past
  BY <1>1 DEF RetInv, RetirementTypes, Archivings, Archiving
<1>3. arc \in Archives /\ arc # None /\ arc.files = ar.ref /\ ~arc.synced
  <2>1. arc \in Archives /\ arc.files = ar.ref /\ ~arc.synced
    BY <1>2 DEF Archives
  <2> QED BY <2>1, RetirementAssumption DEF RetirementAssumption, Archives
<1>4. /\ ar' = [ar EXCEPT !.n = 6] /\ kept' = [kept EXCEPT !.arc = arc]
      /\ UNCHANGED <<ghost, dir, owner, lease, gc, cust>>
  BY DEF ArPublish
<1> HIDE DEF arc
<1>5. /\ ar'.by = ar.by /\ ar'.n = 6 /\ ar'.new = ar.new /\ ar'.inv = ar.inv /\ ar'.ref = ar.ref
      /\ kept'.arc = arc /\ kept'.snaps = kept.snaps /\ kept'.cache = kept.cache /\ kept'.rec = kept.rec
  BY <1>4 DEF RetInv, RetirementTypes, Archivings, Custodies
<1>6. RetirementTypes'
  <2>1. ar' \in Archivings
    BY <1>4 DEF RetInv, RetirementTypes, Archivings
  <2>2. kept' \in Custodies
    BY <1>3, <1>4 DEF RetInv, RetirementTypes, Custodies
  <2> QED BY <1>4, <2>1, <2>2 DEF RetInv, RetirementTypes
<1>7. Owned'
  BY <1>1, <1>4, <1>5 DEF RetInv, Owned
<1>8. Archiving'
  BY <1>1, <1>2, <1>3, <1>4, <1>5 DEF RetInv, Archiving
<1>9. Seen'
  BY <1>1, <1>3, <1>4, <1>5 DEF RetInv, Owned, Seen, Between
<1>10. Covered'
  BY <1>1, <1>4, <1>5 DEF RetInv, Seen, Covered, Spared, HistoryKept, WorkKept, IndexAccounted,
     Expected
<1>11. Holding' /\ NothingLost'
  BY <1>4 DEF RetInv, Holding, NothingLost
<1>12. Custody'
  BY <1>1, <1>3, <1>4, <1>5 DEF RetInv, Owned, Custody, Removing
<1> QED BY <1>6, <1>7, <1>8, <1>9, <1>10, <1>11, <1>12 DEF RetInv

LEMMA ArchiveSteps ==
  ASSUME RetirementAssumption, RestoreAssumption, RetInv, ArStep, UNCHANGED <<dir, owner, lease,
         gc, cust>>
  PROVE  RetInv'
BY ArchiveCopies, ArchiveChecks, ArchivePublishes DEF ArStep

LEMMA ArchiveBegins ==
  ASSUME RetInv, NEW p \in {"gc"} \cup Restorers, ArBegin(p)
  PROVE  /\ ar' \in Archivings /\ ar'.by = p /\ ar'.n \in {1, 3} /\ (ar'.n = 1 <=> kept.arc = None)
         /\ ar'.new <=> kept.arc = None
         /\ ar'.inv = {f \in File : dir.home[f] > 0} /\ (kept.arc # None => ar'.ref = kept.arc.files)
<1> DEFINE inv == {f \in File : dir.home[f] > 0}
           ref == IF kept.arc = None THEN [f \in File |-> 0] ELSE kept.arc.files
           n == IF kept.arc = None THEN 1 ELSE 3
           new == kept.arc = None
<1>1. ref \in Home /\ (kept.arc # None => ref = kept.arc.files)
  <2>1. kept.arc # None => kept.arc.files \in Home
    BY DEF RetInv, RetirementTypes, Custodies, Archives
  <2> QED BY <2>1 DEF Home
<1>2. inv \subseteq File /\ n \in {1, 3} /\ (n = 1 <=> kept.arc = None) /\ new \in BOOLEAN
      /\ (new <=> kept.arc = None)
  OBVIOUS
<1>3. ar' = [by |-> p, n |-> n, new |-> new, inv |-> inv, ref |-> ref]
  BY DEF ArBegin, Inventory
<1> HIDE DEF inv, ref, n, new
<1>4. ar' \in Archivings
  BY <1>1, <1>2, <1>3 DEF Archivings
<1> QED BY <1>1, <1>2, <1>3, <1>4 DEF inv

LEMMA ArchiveIsDone ==
  ASSUME RetirementAssumption, RetInv, ArDone
  PROVE  /\ kept' \in Custodies /\ kept'.arc # None /\ kept'.arc.files = ar.ref /\ ar.ref \in ghost.past
         /\ kept'.snaps = kept.snaps /\ kept'.cache = kept.cache /\ kept'.rec = kept.rec
         /\ kept'.arc.synced \/ ghost.early
         /\ ar.n \in {5, 6} /\ kept.arc # None /\ kept.arc.files = ar.ref
<1>1. kept \in Custodies
  BY DEF RetInv, RetirementTypes
<1>2. /\ ar.n \in {5, 6} /\ kept.arc # None /\ kept.arc.files = ar.ref /\ ar.ref \in ghost.past
      /\ ar.n = 5 => (kept.arc.synced \/ ghost.early)
  BY DEF ArDone, RetInv, Archiving, Custody
<1>3. CASE UNCHANGED kept /\ ar.n = 5
  BY <1>1, <1>2, <1>3
<1>4. CASE kept' = [kept EXCEPT !.arc.synced = TRUE]
  <2> DEFINE arc == [kept.arc EXCEPT !.synced = TRUE]
  <2>1. kept.arc \in Archives
    BY <1>1, <1>2 DEF Custodies
  <2>2. arc \in Archives /\ arc.files = kept.arc.files /\ arc.synced
    BY <2>1 DEF Archives
  <2>3. arc # None
    BY <2>2, RetirementAssumption DEF RetirementAssumption, Archives
  <2>4. kept' = [kept EXCEPT !.arc = arc]
    BY <1>4
  <2> HIDE DEF arc
  <2> QED BY <1>1, <1>2, <2>2, <2>3, <2>4 DEF Custodies
<1> QED BY <1>3, <1>4 DEF ArDone

-----------------------------------------------------------------------------
(* gc *)

LEMMA GcTakes ==
  ASSUME RetirementAssumption, RetInv, GcTake
  PROVE  RetInv'
<1>1. /\ gc' \in Gcs /\ gc'.at = "held" /\ gc.at = "idle" /\ lease = None /\ lease' = "gc"
      /\ dir.place = "root" /\ UNCHANGED <<dir, kept, ghost, owner, cust, ar>>
  BY DEF GcTake, Rest, RetInv, RetirementTypes, Gcs, GcPlaces
<1>2. RetirementTypes' /\ Archiving' /\ NothingLost'
  BY <1>1 DEF RetInv, RetirementTypes, Archiving, NothingLost
<1>3. Owned'
  BY <1>1, RetirementAssumption DEF RetInv, Owned, RetirementAssumption
<1>4. Seen' /\ Covered'
  BY <1>1 DEF Seen, Covered
<1>5. Custody' /\ Holding'
  BY <1>1 DEF RetInv, Custody, Removing, Holding
<1> QED BY <1>2, <1>3, <1>4, <1>5 DEF RetInv

\* gc has given up, and the directory has the name it had or its own again.
LEMMA GcIsThrough ==
  ASSUME RetirementAssumption, RetInv, gc.at \notin {"idle", "archive"}, GcEnds,
         dir' \in Dirs, dir'.home = dir.home, dir'.place \in {dir.place, "root"},
         UNCHANGED <<kept, ghost, owner, cust, ar>>
  PROVE  RetInv'
<1>1. gc' \in Gcs /\ gc'.at = "idle" /\ lease' = None
  BY Values DEF GcEnds, GcIdle
<1>2. ar.n = 0 /\ lease = "gc" /\ dir.place # "gone" /\ dir'.place # "gone"
  BY GcWorksAlone
<1>3. RetirementTypes' /\ Archiving' /\ NothingLost'
  BY <1>1 DEF RetInv, RetirementTypes, Archiving, NothingLost
<1>4. Owned'
  BY <1>1, <1>2, RetirementAssumption DEF RetInv, Owned, RetirementAssumption
<1>5. Seen' /\ Covered'
  BY <1>1 DEF Seen, Covered
<1>6. Custody' /\ Holding'
  BY <1>1, <1>2 DEF RetInv, Custody, Removing, Holding
<1> QED BY <1>3, <1>4, <1>5, <1>6 DEF RetInv

LEMMA GcPutsBack ==
  ASSUME RetirementAssumption, RetInv, gc.at \notin {"idle", "archive"}, GcGivesUp,
         UNCHANGED <<kept, ghost, owner, cust, ar>>
  PROVE  RetInv'
<1>1. dir' \in Dirs /\ dir'.home = dir.home /\ dir'.place \in {dir.place, "root"}
  BY DEF GcGivesUp, PutBack, RetInv, RetirementTypes, Dirs
<1> QED BY <1>1, GcIsThrough DEF GcGivesUp

LEMMA GcLooksAtHolds ==
  ASSUME RetirementAssumption, RetInv, GcHeld
  PROVE  RetInv'
<1>1. gc \in Gcs /\ owner \in Owners /\ dir \in Dirs /\ gc.at = "held"
  BY DEF GcHeld, RetInv, RetirementTypes
<1>2. CASE Holds /\ GcEnds /\ UNCHANGED owner
  BY <1>1, <1>2, GcIsThrough DEF GcHeld
<1>3. CASE /\ owner.hold # "live" /\ gc' = [gc EXCEPT !.at = "work"] /\ UNCHANGED lease
           /\ owner' = [owner EXCEPT !.hold = IF @ = "dead" THEN "none" ELSE @]
  <2>1. /\ gc' \in Gcs /\ gc'.at = "work" /\ owner' \in Owners
        /\ UNCHANGED <<dir, kept, cust, ar, ghost, lease>>
    BY <1>1, <1>3 DEF GcHeld, Gcs, GcPlaces, Owners
  <2>2. RetirementTypes' /\ Archiving' /\ NothingLost'
    BY <2>1 DEF RetInv, RetirementTypes, Archiving, NothingLost
  <2>3. Owned'
    BY <1>1, <2>1 DEF RetInv, Owned
  <2>4. Seen' /\ Covered'
    BY <2>1 DEF Seen, Covered
  <2>5. Custody' /\ Holding'
    BY <1>1, <1>3, <2>1 DEF RetInv, Custody, Removing, Holding
  <2> QED BY <2>2, <2>3, <2>4, <2>5 DEF RetInv
<1> QED BY <1>2, <1>3 DEF GcHeld, Holds

\* A proof that holds accounts for the work, and for good.
LEMMA ProofAccounts ==
  ASSUME RetInv, Proven, NeedsCopy => kept.cache = "whole"
  PROVE  WorkKept /\ (kept.rec # None => kept.rec.synced)
BY DEF RetInv, Custody, Proven, Recovered, Loadable, NeedsCopy, WorkKept

LEMMA GcProves ==
  ASSUME RetirementAssumption, RetInv, GcProve
  PROVE  RetInv'
<1>1. gc \in Gcs /\ gc.at \in {"work", "work2", "work3"} /\ UNCHANGED <<kept, ghost, owner, cust, ar>>
  BY DEF GcProve, Proving, AfterProof, Rest, RetInv, RetirementTypes
<1>2. CASE GcGivesUp
  BY <1>1, <1>2, GcPutsBack
<1>3. CASE /\ Proven /\ (NeedsCopy => kept.cache = "whole") /\ gc' = [gc EXCEPT !.at = AfterProof[gc.at]]
           /\ UNCHANGED <<dir, lease>>
  <2>1. /\ gc' \in Gcs /\ gc'.native = gc.native /\ gc'.snap = gc.snap
        /\ gc.at = "work" => gc'.at = "kind"
        /\ gc.at = "work2" => gc'.at = IF gc.native THEN "verify" ELSE "rm"
        /\ gc.at = "work3" => gc'.at = "rm"
    BY <1>1, <1>3 DEF AfterProof, Gcs, GcPlaces
  <2>2. RetirementTypes' /\ Archiving' /\ NothingLost'
    BY <1>1, <1>3, <2>1 DEF RetInv, RetirementTypes, Archiving, NothingLost
  <2>3. Owned'
    BY <1>1, <1>3, <2>1 DEF RetInv, Owned
  <2>4. Seen'
    BY <1>1, <1>3, <2>1 DEF RetInv, Seen, Between
  <2>5. Covered'
    <3>1. UNCHANGED WorkKept /\ \A f \in File : UNCHANGED <<HistoryKept(f), Spared(f)>>
      BY <1>1, <1>3 DEF WorkKept, IndexAccounted, Expected, HistoryKept, Spared
    <3> QED BY <1>1, <1>3, <2>1, <3>1, ProofAccounts DEF RetInv, Seen, Covered
  <2>6. Custody' /\ Holding'
    BY <1>1, <1>3, <2>1, ProofAccounts DEF RetInv, Custody, Removing, Holding
  <2> QED BY <2>2, <2>3, <2>4, <2>5, <2>6 DEF RetInv
<1> QED BY <1>2, <1>3 DEF GcProve

LEMMA GcCopiesCache ==
  ASSUME RetInv, GcCopyCache
  PROVE  RetInv'
<1>1. /\ gc' \in Gcs /\ gc'.at = gc.at /\ gc'.native = gc.native /\ gc'.snap = gc.snap
      /\ kept' \in Custodies /\ kept'.arc = kept.arc /\ kept'.rec = kept.rec /\ kept'.snaps = kept.snaps
      /\ gc.at # "rm" \/ kept'.cache = "whole"
      /\ UNCHANGED <<dir, lease, ghost, owner, cust, ar>>
  BY DEF GcCopyCache, Proving, AfterProof, Rest, RetInv, RetirementTypes, Gcs, Custodies
<1>2. RetirementTypes' /\ Owned' /\ Archiving' /\ Custody' /\ Holding' /\ NothingLost'
  BY <1>1 DEF RetInv, RetirementTypes, Owned, Archiving, Custody, Removing, Holding, NothingLost
<1>3. Seen'
  BY <1>1 DEF RetInv, Seen, Between
<1>4. Covered'
  <2>1. \A f \in File : (HistoryKept(f) => HistoryKept(f)') /\ (Spared(f) => Spared(f)')
    BY <1>1 DEF HistoryKept, Spared
  <2>2. gc.at = "rm" => (WorkKept => WorkKept')
    BY <1>1 DEF WorkKept, IndexAccounted, Expected
  <2> QED BY <1>1, <2>1, <2>2 DEF RetInv, Covered
<1> QED BY <1>2, <1>3, <1>4 DEF RetInv

LEMMA GcMoves ==
  ASSUME RetInv, GcMove
  PROVE  RetInv'
<1>1. /\ gc.at = "move" /\ gc' \in Gcs /\ gc'.at = "work2" /\ gc'.native = gc.native /\ gc'.snap = gc.snap
      /\ dir' \in Dirs /\ dir'.home = dir.home /\ dir'.place \in Tombs
      /\ UNCHANGED <<lease, kept, ghost, owner, cust, ar>>
  BY DEF GcMove, Rest, RetInv, RetirementTypes, Gcs, GcPlaces, Dirs, Tombs
<1>2. RetirementTypes' /\ Archiving' /\ NothingLost'
  BY <1>1 DEF RetInv, RetirementTypes, Archiving, NothingLost
<1>3. Owned'
  BY <1>1 DEF RetInv, Owned, Tombs
<1>4. Seen'
  BY <1>1 DEF RetInv, Seen, Between
<1>5. Covered'
  BY <1>1 DEF RetInv, Covered, Spared
<1>6. Custody' /\ Holding'
  BY <1>1 DEF RetInv, Custody, Removing, Holding, Tombs
<1> QED BY <1>2, <1>3, <1>4, <1>5, <1>6 DEF RetInv

LEMMA GcReturns ==
  ASSUME RetInv, GcReturn
  PROVE  RetInv'
<1>1. /\ gc.at = "idle" /\ dir' \in Dirs /\ dir'.home = dir.home /\ dir'.place = "root"
      /\ UNCHANGED <<kept, lease, gc, ghost, owner, cust, ar>>
  BY DEF GcReturn, Rest, RetInv, RetirementTypes, Dirs
<1>2. RetirementTypes' /\ Owned' /\ Archiving' /\ NothingLost'
  BY <1>1 DEF RetInv, RetirementTypes, Owned, Archiving, NothingLost
<1>3. Seen' /\ Covered'
  BY <1>1 DEF Seen, Covered
<1>4. Custody' /\ Holding'
  BY <1>1 DEF RetInv, Custody, Removing, Holding
<1> QED BY <1>2, <1>3, <1>4 DEF RetInv

LEMMA GcLooksAtHistory ==
  ASSUME RetirementAssumption, RestoreAssumption, RetInv, GcKind
  PROVE  RetInv'
<1> DEFINE native == \E f \in File : dir.home[f] > 0
           snap == IF native THEN dir.home ELSE None
           snaps == IF native THEN kept.snaps \cup {dir.home} ELSE kept.snaps
<1>1. /\ dir.home \in Home /\ kept \in Custodies /\ gc \in Gcs
      /\ gc.at = "kind" /\ lease = "gc" /\ ar.n = 0 /\ dir.place # "gone"
  BY GcWorksAlone DEF GcKind, RetInv, RetirementTypes, Dirs
<1>2. (Inventory(dir.home) # {}) <=> native
  BY DEF Inventory
<1>3. /\ gc' = [gc EXCEPT !.at = "archive", !.native = native, !.snap = snap]
      /\ kept' = [kept EXCEPT !.snaps = snaps]
      /\ UNCHANGED <<dir, lease, owner, cust, ghost>>
  BY <1>2 DEF GcKind
<1>4. /\ ar' \in Archivings /\ ar'.by = "gc" /\ ar'.n \in {1, 3} /\ (ar'.n = 1 <=> kept.arc = None)
      /\ ar'.new <=> kept.arc = None
      /\ ar'.inv = {f \in File : dir.home[f] > 0} /\ (kept.arc # None => ar'.ref = kept.arc.files)
  BY ArchiveBegins DEF GcKind
<1>5. /\ snap \in Home \cup {None} /\ snaps \subseteq Home
      /\ native => snap = dir.home /\ snap \in snaps
  BY <1>1 DEF Custodies
<1>6. native => \A f \in File : dir.home[f] <= dir.home[f]
  BY <1>1 DEF Home
<1>7. ~native => ar'.inv = {}
  BY <1>4
<1>8. native \in BOOLEAN
  OBVIOUS
<1> HIDE DEF native, snap, snaps
<1>9. /\ gc' \in Gcs /\ gc'.at = "archive" /\ (gc'.native <=> native) /\ gc'.snap = snap
      /\ kept' \in Custodies /\ kept'.arc = kept.arc /\ kept'.rec = kept.rec /\ kept'.snaps = snaps
  BY <1>1, <1>3, <1>5, <1>8 DEF Gcs, GcPlaces, Custodies
<1>10. RetirementTypes'
  BY <1>3, <1>4, <1>9 DEF RetInv, RetirementTypes
<1>11. Owned'
  BY <1>1, <1>3, <1>4, <1>9, RestoreAssumption, RetirementAssumption
  DEF RetInv, Owned, RestoreAssumption, RetirementAssumption
<1>12. Archiving'
  BY <1>1, <1>3, <1>4, <1>9 DEF RetInv, Archiving
<1>13. Seen'
  BY <1>1, <1>3, <1>4, <1>5, <1>6, <1>7, <1>9 DEF Seen
<1>14. Covered'
  BY <1>4, <1>9 DEF Covered
<1>15. Custody'
  BY <1>1, <1>3, <1>4, <1>9 DEF RetInv, Custody, Removing
<1>16. Holding' /\ NothingLost'
  BY <1>1, <1>3, <1>9 DEF RetInv, Holding, NothingLost
<1> QED BY <1>10, <1>11, <1>12, <1>13, <1>14, <1>15, <1>16 DEF RetInv

LEMMA GcArchived ==
  ASSUME RetirementAssumption, RestoreAssumption, RetInv, gc.at = "archive", ArDone,
         ar' = NoArchiving,
         gc' = [gc EXCEPT !.at = "move"], UNCHANGED <<lease, ghost, dir, owner, cust>>
  PROVE  RetInv'
<1>1. /\ kept' \in Custodies /\ kept'.arc # None /\ kept'.arc.files = ar.ref /\ ar.ref \in ghost.past
      /\ kept'.snaps = kept.snaps /\ kept'.cache = kept.cache /\ kept'.rec = kept.rec
      /\ kept'.arc.synced \/ ghost.early
      /\ ar.n \in {5, 6} /\ kept.arc # None /\ kept.arc.files = ar.ref
  BY ArchiveIsDone
<1>2. /\ gc' \in Gcs /\ gc'.at = "move" /\ gc'.native = gc.native /\ gc'.snap = gc.snap
  BY DEF RetInv, RetirementTypes, Gcs, GcPlaces
<1>3. ar' \in Archivings /\ ar'.by = None /\ ar'.n = 0
  BY Values DEF NoArchiving
<1>4. RetirementTypes'
  BY <1>1, <1>2, <1>3 DEF RetInv, RetirementTypes
<1>5. Owned'
  BY <1>2, <1>3, RestoreAssumption, RetirementAssumption
  DEF RetInv, Owned, RestoreAssumption, RetirementAssumption
<1>6. Archiving'
  BY <1>1, <1>3 DEF RetInv, Archiving
<1>7. Seen'
  <2>1. File = {"index", "rollout"}
    BY DEF File
  <2> QED BY <1>1, <1>2, <1>3, <2>1 DEF RetInv, Seen, Between
<1>8. Covered'
  BY <1>1, <1>2, <1>3 DEF RetInv, Covered, Spared
<1>9. Custody'
  BY <1>1, <1>2, <1>3 DEF RetInv, Owned, Custody, Removing
<1>10. Holding' /\ NothingLost'
  BY <1>1, <1>2 DEF RetInv, Holding, NothingLost
<1> QED BY <1>4, <1>5, <1>6, <1>7, <1>8, <1>9, <1>10 DEF RetInv

LEMMA GcArchiveFailed ==
  ASSUME RetirementAssumption, RestoreAssumption, RetInv, gc.at = "archive", ArFails,
         ar' = NoArchiving,
         GcEnds, UNCHANGED <<kept, ghost, dir, owner, cust>>
  PROVE  RetInv'
<1>1. /\ gc' \in Gcs /\ gc'.at = "idle" /\ lease' = None
  BY Values DEF GcEnds, GcIdle
<1>2. ar' \in Archivings /\ ar'.by = None /\ ar'.n = 0 /\ ar.n # 6
  BY Values DEF NoArchiving, ArFails
<1>3. RetirementTypes'
  BY <1>1, <1>2 DEF RetInv, RetirementTypes
<1>4. Owned'
  BY <1>1, <1>2, RestoreAssumption, RetirementAssumption
  DEF RetInv, Owned, RestoreAssumption, RetirementAssumption
<1>5. Archiving'
  BY <1>2 DEF RetInv, Archiving
<1>6. Seen' /\ Covered'
  BY <1>1 DEF Seen, Covered
<1>7. Custody'
  BY <1>1, <1>2 DEF RetInv, Custody, Removing
<1>8. Holding' /\ NothingLost'
  BY <1>1 DEF RetInv, Holding, NothingLost
<1> QED BY <1>3, <1>4, <1>5, <1>6, <1>7, <1>8 DEF RetInv

LEMMA GcVerifies ==
  ASSUME RetirementAssumption, RestoreAssumption, RetInv, GcVerify
  PROVE  RetInv'
<1>1. gc.at = "verify" /\ gc.native /\ gc \in Gcs /\ dir \in Dirs /\ ar.n = 0 /\ dir.place # "gone"
  BY GcWorksAlone DEF GcVerify, RetInv, Seen, RetirementTypes
<1>2. UNCHANGED <<kept, ghost, owner, cust, left, ar>>
  BY DEF GcVerify, Rest
<1>3. CASE SameHistory /\ gc' = [gc EXCEPT !.at = "work3"] /\ UNCHANGED <<dir, lease>>
  <2>1. gc' \in Gcs /\ gc'.at = "work3" /\ gc'.native = gc.native /\ gc'.snap = gc.snap
    BY <1>1, <1>3 DEF Gcs, GcPlaces
  <2>2. \A f \in File : HistoryKept(f)
    <3> SUFFICES ASSUME NEW f \in File
                 PROVE  HistoryKept(f)
      OBVIOUS
    <3>1. gc.snap = dir.home /\ gc.snap \in kept.snaps /\ kept.arc # None /\ kept.arc.files \in Home
          /\ dir.home \in Home /\ gc.snap[f] <= kept.arc.files[f] /\ kept.arc.files[f] <= dir.home[f]
      BY <1>1, <1>3 DEF SameHistory, RetInv, Seen, Between, RetirementTypes, Custodies,
         Archives, Dirs
    <3>2. kept.arc.files[f] = dir.home[f]
      BY <3>1 DEF Home
    <3> QED BY <3>1, <3>2 DEF HistoryKept
  <2>3. RetirementTypes' /\ Archiving' /\ NothingLost'
    BY <1>2, <1>3, <2>1 DEF RetInv, RetirementTypes, Archiving, NothingLost
  <2>4. Owned'
    BY <1>1, <1>2, <1>3, <2>1 DEF RetInv, Owned
  <2>5. Seen'
    BY <1>1, <1>2, <1>3, <2>1 DEF RetInv, Seen
  <2>6. Covered'
    BY <1>1, <1>2, <1>3, <2>1, <2>2 DEF RetInv, Covered, HistoryKept
  <2>7. Custody' /\ Holding'
    BY <1>1, <1>2, <1>3, <2>1 DEF RetInv, Custody, Removing, Holding
  <2> QED BY <2>3, <2>4, <2>5, <2>6, <2>7 DEF RetInv
<1>4. CASE GcGivesUp
  BY <1>1, <1>2, <1>4, GcPutsBack
<1> QED BY <1>3, <1>4 DEF GcVerify

\* What rm -rf takes, of what it may take.
LEMMA HistoryIsRemoved ==
  ASSUME RetirementAssumption, RestoreAssumption, RetInv, gc.at = "rm", NEW f \in File,
         dir.home[f] > 0,
         dir' = [dir EXCEPT !.home[f] = 0],
         ghost' = [ghost EXCEPT !.lost = @ \cup IF HistoryKept(f) THEN {} ELSE {<<f,
         dir.home[f]>>}],
         UNCHANGED <<kept, gc, lease, owner, cust, ar>>
  PROVE  RetInv'
<1> DEFINE home == [dir.home EXCEPT ![f] = 0]
           lost == ghost.lost \cup IF HistoryKept(f) THEN {} ELSE {<<f, dir.home[f]>>}
<1>1. dir.home \in Home /\ dir \in Dirs /\ ghost \in Ghosts /\ ar.n = 0 /\ kept.arc # None
  BY GcWorksAlone DEF RetInv, Seen, RetirementTypes, Dirs
<1>2. home \in Home /\ home[f] = 0 /\ \A g \in File \ {f} : home[g] = dir.home[g]
  BY <1>1 DEF Home
<1>3. <<f, dir.home[f]>> \in Moments
  BY <1>1 DEF Moments, Home
<1>4. HistoryKept(f) \/ Spared(f)
  BY DEF RetInv, Covered
<1>5. lost \subseteq Moments /\ lost \subseteq ghost.late
  BY <1>1, <1>3, <1>4 DEF Ghosts, Spared, RetInv, NothingLost
<1>6. dir' = [dir EXCEPT !.home = home] /\ ghost' = [ghost EXCEPT !.lost = lost]
  OBVIOUS
<1> HIDE DEF home, lost
<1>7. /\ dir' \in Dirs /\ dir'.home = home /\ dir'.place = dir.place /\ dir'.work = dir.work
      /\ ghost' \in Ghosts /\ ghost'.past = ghost.past /\ ghost'.late = ghost.late /\ ghost'.lost = lost
      /\ ghost'.held = ghost.held /\ ghost'.early = ghost.early
  BY <1>1, <1>2, <1>5, <1>6 DEF Dirs, Ghosts
<1>8. RetirementTypes'
  BY <1>7 DEF RetInv, RetirementTypes
<1>9. Owned' /\ Archiving'
  BY <1>1, <1>7 DEF RetInv, Owned, Archiving
<1>10. Seen'
  BY <1>1, <1>7 DEF RetInv, Seen
<1>11. Covered'
  <2>1. \A g \in File : dir'.home[g] > 0 => dir'.home[g] = dir.home[g]
    <3> SUFFICES ASSUME NEW g \in File, dir'.home[g] > 0
                 PROVE  dir'.home[g] = dir.home[g]
      OBVIOUS
    <3>1. CASE g = f
      BY <1>2, <1>7, <3>1
    <3> QED BY <1>2, <1>7, <3>1
  <2>2. gc.native => \A g \in File : dir'.home[g] > 0 => HistoryKept(g)' \/ Spared(g)'
    BY <1>7, <2>1 DEF RetInv, Covered, HistoryKept, Spared
  <2>3. ~gc.native => \A g \in File : dir'.home[g] > 0 => Spared(g)'
    BY <1>7, <2>1 DEF RetInv, Covered, Spared
  <2>4. dir'.work.files = "none" \/ WorkKept' \/ <<"work", 1>> \in ghost'.late
    BY <1>7 DEF RetInv, Covered, WorkKept, IndexAccounted, Expected
  <2> QED BY <2>2, <2>3, <2>4 DEF Covered
<1>12. Custody' /\ Holding'
  BY <1>1, <1>7 DEF RetInv, Custody, Removing, Holding
<1>13. NothingLost'
  BY <1>5, <1>7 DEF NothingLost
<1> QED BY <1>8, <1>9, <1>10, <1>11, <1>12, <1>13 DEF RetInv

LEMMA WorkIsRemoved ==
  ASSUME RetirementAssumption, RestoreAssumption, RetInv, gc.at = "rm", dir.work.files # "none",
         dir' = [dir EXCEPT !.work.files = "none"],
         ghost' = [ghost EXCEPT !.lost = @ \cup IF WorkKept THEN {} ELSE {<<"work", 1>>}],
         UNCHANGED <<kept, gc, lease, owner, cust, ar>>
  PROVE  RetInv'
<1> DEFINE work == [dir.work EXCEPT !.files = "none"]
           lost == ghost.lost \cup IF WorkKept THEN {} ELSE {<<"work", 1>>}
<1>1. dir.work \in Work /\ dir \in Dirs /\ ghost \in Ghosts /\ ar.n = 0 /\ kept.arc # None
  BY GcWorksAlone DEF RetInv, Seen, RetirementTypes, Dirs
<1>2. work \in Work /\ work.files = "none"
  BY <1>1 DEF Work, Part
<1>3. <<"work", 1>> \in Moments
  BY DEF Moments
<1>4. WorkKept \/ <<"work", 1>> \in ghost.late
  BY DEF RetInv, Covered
<1>5. lost \subseteq Moments /\ lost \subseteq ghost.late
  BY <1>1, <1>3, <1>4 DEF Ghosts, RetInv, NothingLost
<1>6. dir' = [dir EXCEPT !.work = work] /\ ghost' = [ghost EXCEPT !.lost = lost]
  OBVIOUS
<1> HIDE DEF work, lost
<1>7. /\ dir' \in Dirs /\ dir'.home = dir.home /\ dir'.place = dir.place /\ dir'.work = work
      /\ ghost' \in Ghosts /\ ghost'.past = ghost.past /\ ghost'.late = ghost.late /\ ghost'.lost = lost
      /\ ghost'.held = ghost.held /\ ghost'.early = ghost.early
  BY <1>1, <1>2, <1>5, <1>6 DEF Dirs, Ghosts
<1>8. RetirementTypes'
  BY <1>7 DEF RetInv, RetirementTypes
<1>9. Owned' /\ Archiving'
  BY <1>1, <1>7 DEF RetInv, Owned, Archiving
<1>10. Seen'
  BY <1>1, <1>7 DEF RetInv, Seen
<1>11. Covered'
  BY <1>2, <1>7 DEF RetInv, Covered, HistoryKept, Spared
<1>12. Custody' /\ Holding'
  BY <1>1, <1>7 DEF RetInv, Custody, Removing, Holding
<1>13. NothingLost'
  BY <1>5, <1>7 DEF NothingLost
<1> QED BY <1>8, <1>9, <1>10, <1>11, <1>12, <1>13 DEF RetInv

LEMMA DirectoryIsRemoved ==
  ASSUME RetirementAssumption, RestoreAssumption, RetInv, gc.at = "rm",
         dir' = [dir EXCEPT !.place = "gone"], GcEnds, UNCHANGED <<kept, ghost, owner, cust, ar>>
  PROVE  RetInv'
<1>1. dir \in Dirs /\ ar.n = 0 /\ kept.arc # None /\ lease = "gc" /\ ~ghost.held
  BY GcWorksAlone DEF RetInv, Seen, RetirementTypes, Holding
<1>2. gc' \in Gcs /\ gc'.at = "idle" /\ lease' = None
  BY Values DEF GcEnds, GcIdle
<1>3. dir' \in Dirs /\ dir'.home = dir.home /\ dir'.place = "gone"
  BY <1>1 DEF Dirs
<1>4. RetirementTypes' /\ Archiving' /\ NothingLost'
  BY <1>2, <1>3 DEF RetInv, RetirementTypes, Archiving, NothingLost
<1>5. Owned'
  BY <1>1, <1>2, RetirementAssumption DEF RetInv, Owned, RetirementAssumption
<1>6. Seen' /\ Covered'
  BY <1>2 DEF Seen, Covered
<1>7. Custody' /\ Holding'
  BY <1>1, <1>2, <1>3 DEF RetInv, Custody, Removing, Holding
<1> QED BY <1>4, <1>5, <1>6, <1>7 DEF RetInv

LEMMA GcRemoves ==
  ASSUME RetirementAssumption, RestoreAssumption, RetInv, GcRemove
  PROVE  RetInv'
BY HistoryIsRemoved, WorkIsRemoved, DirectoryIsRemoved DEF GcRemove, Rest, Inventory

-----------------------------------------------------------------------------
(* The operator's preservation *)

LEMMA WorkIsApproved ==
  ASSUME RetInv, CustInventory, UNCHANGED <<dir, owner, gc, ar, ghost>>
  PROVE  RetInv'
<1>1. /\ cust' \in Preservations /\ cust'.at = "approved" /\ cust.at = "idle"
      /\ UNCHANGED <<kept, lease>>
  BY DEF CustInventory, Preservations, RetInv, RetirementTypes, Dirs
<1>2. RetirementTypes' /\ Archiving' /\ Seen' /\ Holding' /\ NothingLost'
  BY <1>1 DEF RetInv, RetirementTypes, Archiving, Seen, Between, Holding, NothingLost
<1>3. Owned'
  BY <1>1 DEF RetInv, Owned
<1>4. Covered'
  BY <1>1 DEF RetInv, Covered, Spared, HistoryKept, WorkKept, IndexAccounted, Expected
<1>5. Custody'
  BY <1>1 DEF RetInv, Custody, Removing
<1> QED BY <1>2, <1>3, <1>4, <1>5 DEF RetInv

\* A step of the operator who has the lease or takes it, gives it back or keeps it.
LEMMA CustodyMoves ==
  ASSUME RetirementAssumption, RetInv, cust' \in Preservations, kept' \in Custodies,
         kept'.arc = kept.arc, kept'.snaps = kept.snaps, kept'.cache = kept.cache,
         lease \in {None, "cust"}, lease' \in {None, "cust"},
         cust'.at \in {"staged", "published", "synced"} <=> lease' = "cust",
         lease' = "cust" => dir.place # "gone",
         UNCHANGED <<dir, owner, gc, ar, ghost>>,
         kept'.rec # kept.rec => dir.place # "gone",
         kept'.rec # None => kept'.rec.pending \/ kept'.rec.synced,
         cust'.at \in {"published", "synced"} => kept'.rec # None,
         cust'.at = "synced" => kept'.rec.synced,
         cust'.at = "staged" => kept'.rec = None
  PROVE  RetInv'
<1>1. gc.at = "idle" /\ gc.at # "archive"
  BY RetirementAssumption DEF RetInv, Owned, RetirementAssumption
<1>2. RetirementTypes' /\ Archiving' /\ Holding' /\ NothingLost'
  BY RetirementAssumption DEF RetInv, RetirementTypes, Archiving, Holding, NothingLost
<1>3. Owned'
  <2>1. lease # "restore" /\ lease' # "restore" /\ lease' # "gc"
    BY RetirementAssumption DEF RetirementAssumption
  <2> QED BY <1>1, <2>1 DEF RetInv, Owned
<1>4. Seen' /\ Covered'
  BY <1>1 DEF Seen, Covered
<1>5. Custody'
  <2>1. Removing' <=> dir.place = "gone"
    BY <1>1 DEF Removing
  <2> QED BY <2>1 DEF RetInv, Custody, Removing
<1> QED BY <1>2, <1>3, <1>4, <1>5 DEF RetInv

LEMMA PreservationBegins ==
  ASSUME RetirementAssumption, RetInv, CustTake, UNCHANGED <<dir, owner, gc, ar, ghost>>
  PROVE  RetInv'
<1>1. cust \in Preservations /\ kept \in Custodies /\ cust.at = "approved" /\ lease = None
  BY DEF RetInv, RetirementTypes, CustTake
<1>2. UNCHANGED kept
  BY DEF CustTake
<1>3. /\ cust' \in Preservations
      /\ \/ cust'.at = "staged" /\ lease' = "cust" /\ kept.rec = None /\ dir.place = "root"
         \/ cust'.at = "idle" /\ lease' = None
  <2>1. CASE Inventories /\ dir.work = cust.expected /\ kept.rec = None
    BY <1>1, <2>1 DEF CustTake, Preservations, Inventories
  <2>2. CASE ~(Inventories /\ dir.work = cust.expected /\ kept.rec = None)
    BY <1>1, <2>2, Values DEF CustTake, CustIdle
  <2> QED BY <2>1, <2>2
<1> QED BY <1>1, <1>2, <1>3, CustodyMoves, RetirementAssumption DEF RetInv, Custody,
           RetirementAssumption

LEMMA PreservationPublishes ==
  ASSUME RetirementAssumption, RetInv, CustPublish, UNCHANGED <<dir, owner, gc, ar, ghost>>
  PROVE  RetInv'
<1> DEFINE rec == [work |-> cust.expected, pending |-> TRUE, synced |-> FALSE]
<1>1. cust \in Preservations /\ kept \in Custodies /\ cust.at = "staged" /\ lease = "cust" /\ dir.work \in Work
  BY DEF RetInv, RetirementTypes, Owned, CustPublish, Dirs
<1>2. CASE Inventories /\ dir.work = cust.expected
  <2>1. rec \in Records /\ rec.pending
    BY <1>1, <1>2 DEF Records
  <2>2. rec # None
    BY <2>1, RetirementAssumption DEF RetirementAssumption, Records
  <2>3. kept' = [kept EXCEPT !.rec = rec] /\ cust' = [cust EXCEPT !.at = "published"] /\ UNCHANGED lease
        /\ dir.place = "root"
    BY <1>2 DEF CustPublish, Inventories
  <2> HIDE DEF rec
  <2>4. /\ kept' \in Custodies /\ kept'.rec = rec
        /\ kept'.arc = kept.arc /\ kept'.snaps = kept.snaps /\ kept'.cache = kept.cache
        /\ cust' \in Preservations /\ cust'.at = "published"
    BY <1>1, <2>1, <2>3 DEF Custodies, Preservations
  <2> QED BY <1>1, <2>1, <2>2, <2>3, <2>4, CustodyMoves
<1>3. CASE ~(Inventories /\ dir.work = cust.expected)
  <2>1. UNCHANGED kept /\ lease' = None /\ cust' \in Preservations /\ cust'.at = "idle"
    BY <1>3, Values DEF CustPublish, CustIdle
  <2> QED BY <1>1, <2>1, CustodyMoves, RetirementAssumption DEF RetInv, Custody,
             RetirementAssumption
<1> QED BY <1>2, <1>3

LEMMA PreservationSyncs ==
  ASSUME RetirementAssumption, RetInv, CustSync, UNCHANGED <<dir, owner, gc, ar, ghost>>
  PROVE  RetInv'
<1>1. /\ cust \in Preservations /\ kept \in Custodies /\ cust.at \in {"published", "synced"} /\ lease = "cust"
      /\ kept.rec # None /\ kept.rec \in Records /\ dir.place # "gone"
      /\ cust.at = "synced" => kept.rec.synced
  BY DEF RetInv, RetirementTypes, Owned, CustSync, Custody, Custodies
<1>2. CASE cust.at = "published" /\ kept' = [kept EXCEPT !.rec.synced = TRUE]
           /\ cust' = [cust EXCEPT !.at = "synced"] /\ UNCHANGED lease
  <2> DEFINE rec == [kept.rec EXCEPT !.synced = TRUE]
  <2>1. rec \in Records /\ rec.synced
    BY <1>1 DEF Records
  <2>2. rec # None
    BY <2>1, RetirementAssumption DEF RetirementAssumption, Records
  <2>3. kept' = [kept EXCEPT !.rec = rec]
    BY <1>2
  <2> HIDE DEF rec
  <2>4. /\ kept' \in Custodies /\ kept'.rec = rec
        /\ kept'.arc = kept.arc /\ kept'.snaps = kept.snaps /\ kept'.cache = kept.cache
        /\ cust' \in Preservations /\ cust'.at = "synced"
    BY <1>1, <1>2, <2>1, <2>3 DEF Custodies, Preservations
  <2> QED BY <1>1, <1>2, <2>1, <2>2, <2>4, CustodyMoves
<1>3. CASE cust.at = "synced" /\ kept' = [kept EXCEPT !.rec.pending = FALSE]
           /\ cust' = CustIdle /\ lease' = None
  <2> DEFINE rec == [kept.rec EXCEPT !.pending = FALSE]
  <2>1. rec \in Records /\ rec.synced
    BY <1>1, <1>3 DEF Records
  <2>2. rec # None
    BY <2>1, RetirementAssumption DEF RetirementAssumption, Records
  <2>3. kept' = [kept EXCEPT !.rec = rec]
    BY <1>3
  <2> HIDE DEF rec
  <2>4. /\ kept' \in Custodies /\ kept'.rec = rec
        /\ kept'.arc = kept.arc /\ kept'.snaps = kept.snaps /\ kept'.cache = kept.cache
        /\ cust' \in Preservations /\ cust'.at = "idle"
    BY <1>1, <1>3, <2>1, <2>3, Values DEF Custodies, CustIdle
  <2> QED BY <1>1, <1>3, <2>1, <2>4, CustodyMoves, RetirementAssumption DEF RetirementAssumption
<1> QED BY <1>2, <1>3 DEF CustSync

LEMMA Preserves ==
  ASSUME RetirementAssumption, RetInv, Preserve
  PROVE  RetInv'
BY WorkIsApproved, PreservationBegins, PreservationPublishes, PreservationSyncs DEF Preserve

-----------------------------------------------------------------------------
(* Launchers, writers and deaths *)

LEMMA Launches ==
  ASSUME RetirementAssumption, RetInv, Launch, UNCHANGED <<dir, kept, ar, gc, cust, ghost>>
  PROVE  RetInv'
<1>1. /\ lease \in {None, "launch"} /\ lease' \in {None, "launch"}
      /\ owner' \in Owners /\ owner'.hold = owner.hold
  BY DEF Launch, RetInv, RetirementTypes, Owners
<1>2. gc.at = "idle"
  BY <1>1, RetirementAssumption DEF RetInv, Owned, RetirementAssumption
<1>3. RetirementTypes' /\ Archiving' /\ NothingLost'
  BY <1>1 DEF RetInv, RetirementTypes, Archiving, NothingLost
<1>4. Owned'
  BY <1>1, RetirementAssumption DEF RetInv, Owned, RetirementAssumption
<1>5. Seen' /\ Covered'
  BY <1>2 DEF Seen, Covered
<1>6. Custody' /\ Holding'
  BY <1>1 DEF RetInv, Custody, Removing, Holding
<1> QED BY <1>3, <1>4, <1>5, <1>6 DEF RetInv

LEMMA HoldChanges ==
  ASSUME RetInv, Hold, UNCHANGED <<dir, kept, lease, ar, gc, cust>>
  PROVE  RetInv'
<1>1. owner \in Owners /\ ghost \in Ghosts
  BY DEF RetInv, RetirementTypes
<1>2. /\ owner' \in Owners /\ owner'.state = owner.state /\ owner'.headless = owner.headless
      /\ ghost' \in Ghosts /\ ghost'.past = ghost.past /\ ghost'.lost = ghost.lost
      /\ ghost'.late = ghost.late /\ ghost'.early = ghost.early
      /\ ghost'.held => owner'.hold = "live" /\ gc.at \in {"idle", "held"} /\ dir.place = "root"
  <2>1. CASE /\ owner' = [owner EXCEPT !.hold = "live"]
             /\ ghost' = [ghost EXCEPT !.held = gc.at \in {"idle", "held"} /\ dir.place = "root"]
    <3> DEFINE held == gc.at \in {"idle", "held"} /\ dir.place = "root"
    <3>1. held \in BOOLEAN /\ ghost' = [ghost EXCEPT !.held = held]
      BY <2>1
    <3>2. ghost' \in Ghosts /\ (ghost'.held <=> held)
      BY <1>1, <3>1 DEF Ghosts
    <3> QED BY <1>1, <2>1, <3>1, <3>2 DEF Owners, Ghosts
  <2>2. CASE /\ \E hold \in {"none", "dead"} : owner' = [owner EXCEPT !.hold = hold]
             /\ ghost' = [ghost EXCEPT !.held = FALSE]
    BY <1>1, <2>2 DEF Owners, Ghosts
  <2> QED BY <2>1, <2>2 DEF Hold
<1>3. RetirementTypes' /\ Owned' /\ Archiving' /\ Custody' /\ Holding' /\ NothingLost'
  BY <1>2 DEF RetInv, RetirementTypes, Owned, Archiving, Custody, Removing, Holding, NothingLost
<1>4. Seen'
  BY DEF RetInv, Seen, Between
<1>5. Covered'
  BY <1>2 DEF RetInv, Covered, Spared, HistoryKept, WorkKept, IndexAccounted, Expected
<1> QED BY <1>3, <1>4, <1>5 DEF RetInv

LEMMA HistoryIsWritten ==
  ASSUME RetInv, UNCHANGED <<owner, kept, lease, ar, gc, cust>>, dir.place # "gone", NEW f \in File,
         NEW home, home = [dir.home EXCEPT ![f] = @ + 1], dir' = [dir EXCEPT !.home = home],
         ghost' = [ghost EXCEPT !.past = @ \cup {home},
                                !.late = @ \cup IF Looked(f) THEN {<<f, home[f]>>} ELSE {}]
  PROVE  RetInv'
<1> DEFINE late == ghost.late \cup IF Looked(f) THEN {<<f, home[f]>>} ELSE {}
           past == ghost.past \cup {home}
<1>1. dir.home \in Home /\ dir \in Dirs /\ ghost \in Ghosts /\ ar \in Archivings
  BY DEF RetInv, RetirementTypes, Dirs
<1>2. /\ home \in Home /\ home[f] = dir.home[f] + 1 /\ (\A g \in File \ {f} : home[g] = dir.home[g])
      /\ (\A g \in File : dir.home[g] \in Nat /\ home[g] \in Nat /\ dir.home[g] <= home[g])
  BY <1>1 DEF Home
<1>3. late \subseteq Moments /\ ghost.late \subseteq late /\ (Looked(f) => <<f, home[f]>> \in late)
  BY <1>1, <1>2 DEF Moments, Ghosts, Home
<1>4. /\ ghost' = [ghost EXCEPT !.past = past, !.late = late]
      /\ past \subseteq Home /\ home \in past /\ ghost.past \subseteq past
  BY <1>1, <1>2 DEF Ghosts
<1> HIDE DEF late, past
<1>5. /\ dir' \in Dirs /\ dir'.home = home /\ dir'.place = dir.place /\ dir'.work = dir.work
      /\ ghost' \in Ghosts /\ ghost'.past = past /\ ghost'.late = late
      /\ ghost'.lost = ghost.lost /\ ghost'.held = ghost.held /\ ghost'.early = ghost.early
  BY <1>1, <1>2, <1>3, <1>4 DEF Dirs, Ghosts
<1>6. RetirementTypes' /\ Owned' /\ Custody' /\ Holding'
  BY <1>5 DEF RetInv, RetirementTypes, Owned, Custody, Removing, Holding
<1>7. Archiving'
  <2>1. ar.ref \in Home /\ ghost.past \subseteq Home
    BY <1>1 DEF Archivings, Ghosts
  <2>2. ar.new /\ ar.n \in 2..5 => ar.ref["index"] <= home["index"]
    BY <1>2, <2>1 DEF RetInv, Archiving, Home, File
  <2>3. ar.new /\ ar.n = 3 =>
          \/ \E h \in ghost'.past : /\ h["rollout"] = ar.ref["rollout"]
                                    /\ ar.ref["index"] <= h["index"] /\ h["index"] <= home["index"]
          \/ "rollout" \notin ar.inv /\ home["rollout"] > 0
    <3> SUFFICES ASSUME ar.new /\ ar.n = 3
                 PROVE  \/ \E h \in ghost'.past :
                             /\ h["rollout"] = ar.ref["rollout"]
                             /\ ar.ref["index"] <= h["index"] /\ h["index"] <= home["index"]
                        \/ "rollout" \notin ar.inv /\ home["rollout"] > 0
      OBVIOUS
    <3>1. CASE "rollout" \notin ar.inv /\ dir.home["rollout"] > 0
      BY <1>2, <3>1 DEF File
    <3>2. CASE \E h \in ghost.past : /\ h["rollout"] = ar.ref["rollout"]
                                     /\ ar.ref["index"] <= h["index"] /\ h["index"] <= dir.home["index"]
      <4>1. PICK h \in ghost.past : /\ h["rollout"] = ar.ref["rollout"]
                                    /\ ar.ref["index"] <= h["index"] /\ h["index"] <= dir.home["index"]
        BY <3>2
      <4>2. h["index"] <= home["index"]
        BY <1>2, <2>1, <4>1 DEF Home, File
      <4> QED BY <1>4, <1>5, <4>1, <4>2
    <3> QED BY <3>1, <3>2 DEF RetInv, Archiving
  <2> QED BY <1>4, <1>5, <2>2, <2>3 DEF RetInv, Archiving
<1>8. Seen'
  <2>1. \A g \in File, s \in Home : s[g] <= dir.home[g] => s[g] <= home[g]
    BY <1>2 DEF Home
  <2>2. /\ gc.snap \in Home \cup {None} /\ ar.ref \in Home
        /\ kept.arc # None => kept.arc.files \in Home
    BY DEF RetInv, RetirementTypes, Gcs, Archivings, Custodies, Archives
  <2>3. "index" \in File /\ "rollout" \in File
    BY DEF File
  <2>4. \A s \in Home, g \in File : Between(g, s) => Between(g, s)'
    BY <1>5, <2>1 DEF Between
  <2> QED BY <1>5, <2>1, <2>2, <2>3, <2>4 DEF RetInv, Seen
<1>9. Covered'
  <2>1. \A g \in File : home[g] > 0 => g = f \/ (home[g] = dir.home[g] /\ dir.home[g] > 0)
    BY <1>2
  <2>2. \A g \in File : home[g] = dir.home[g] => (Spared(g) => Spared(g)') /\ (HistoryKept(g) => HistoryKept(g)')
    BY <1>3, <1>5 DEF Spared, HistoryKept
  <2>3. Looked(f) => Spared(f)'
    BY <1>3, <1>5 DEF Spared
  <2>4. /\ ~gc.native /\ ((gc.at = "archive" /\ ar.n >= 4) \/ gc.at \in {"move", "work2", "rm"}) => Looked(f)
        /\ gc.native /\ gc.at \in {"work3", "rm"} => Looked(f)
    BY <1>1 DEF Looked, RetInv, Owned, Archivings
  <2>5. WorkKept' <=> WorkKept
    BY <1>5 DEF WorkKept, IndexAccounted, Expected
  <2> QED BY <1>3, <1>5, <2>1, <2>2, <2>3, <2>4, <2>5 DEF RetInv, Covered
<1>10. NothingLost'
  BY <1>3, <1>5 DEF RetInv, NothingLost
<1> QED BY <1>6, <1>7, <1>8, <1>9, <1>10 DEF RetInv

LEMMA WorkIsWritten ==
  ASSUME RetirementAssumption, RetInv, UNCHANGED <<owner, kept, lease, ar, gc, cust>>,
         NEW part \in Written, NEW x \in {"other", "same", "odd"},
         dir' = [dir EXCEPT !.work[part] = x],
         ghost' = [ghost EXCEPT !.late = @ \cup IF gc.at = "rm" THEN {<<"work", 1>>} ELSE {}]
  PROVE  RetInv'
<1> DEFINE work == [dir.work EXCEPT ![part] = x]
           late == ghost.late \cup IF gc.at = "rm" THEN {<<"work", 1>>} ELSE {}
<1>1. dir.work \in Work /\ dir \in Dirs /\ ghost \in Ghosts
  BY DEF RetInv, RetirementTypes, Dirs
<1>2. work \in Work
  BY <1>1, RetirementAssumption DEF Work, Part, RetirementAssumption
<1>3. late \subseteq Moments /\ ghost.late \subseteq late /\ (gc.at = "rm" => <<"work", 1>> \in late)
  BY <1>1 DEF Moments, Ghosts
<1>4. dir' = [dir EXCEPT !.work = work] /\ ghost' = [ghost EXCEPT !.late = late]
  OBVIOUS
<1> HIDE DEF work, late
<1>5. /\ dir' \in Dirs /\ dir'.home = dir.home /\ dir'.place = dir.place
      /\ ghost' \in Ghosts /\ ghost'.past = ghost.past /\ ghost'.late = late
      /\ ghost'.lost = ghost.lost /\ ghost'.held = ghost.held /\ ghost'.early = ghost.early
  BY <1>1, <1>2, <1>3, <1>4 DEF Dirs, Ghosts
<1>6. RetirementTypes' /\ Owned' /\ Archiving' /\ Custody' /\ Holding'
  BY <1>5 DEF RetInv, RetirementTypes, Owned, Archiving, Custody, Removing, Holding
<1>7. Seen'
  BY <1>5 DEF RetInv, Seen, Between
<1>8. Covered'
  BY <1>3, <1>5 DEF RetInv, Covered, Spared, HistoryKept
<1>9. NothingLost'
  BY <1>3, <1>5 DEF RetInv, NothingLost
<1> QED BY <1>6, <1>7, <1>8, <1>9 DEF RetInv

LEMMA NameIsTaken ==
  ASSUME RetInv, UNCHANGED <<owner, kept, lease, ar, gc, cust, ghost>>,
         dir' = [dir EXCEPT !.squat = TRUE]
  PROVE  RetInv'
<1>1. dir' \in Dirs /\ dir'.home = dir.home /\ dir'.place = dir.place /\ dir'.work = dir.work
  BY DEF RetInv, RetirementTypes, Dirs
<1>2. RetirementTypes' /\ Owned' /\ Archiving' /\ Custody' /\ Holding' /\ NothingLost'
  BY <1>1 DEF RetInv, RetirementTypes, Owned, Archiving, Custody, Removing, Holding, NothingLost
<1>3. Seen'
  BY <1>1 DEF RetInv, Seen, Between
<1>4. Covered'
  BY <1>1 DEF RetInv, Covered, Spared, HistoryKept, WorkKept, IndexAccounted, Expected
<1> QED BY <1>2, <1>3, <1>4 DEF RetInv

LEMMA Writes ==
  ASSUME RetirementAssumption, RetInv, Write, UNCHANGED <<owner, kept, lease, ar, gc, cust>>
  PROVE  RetInv'
BY HistoryIsWritten, WorkIsWritten, NameIsTaken DEF Write

LEMMA ProcessDies ==
  ASSUME RetirementAssumption, RestoreAssumption, RetInv, Dies, UNCHANGED <<dir, kept>>
  PROVE  RetInv'
<1>1. /\ gc' \in Gcs /\ (gc' = gc \/ gc'.at = "idle")
      /\ cust' \in Preservations /\ (cust' = cust \/ cust'.at = "idle")
      /\ owner' = owner
  <2>1. gc \in Gcs /\ cust \in Preservations
    BY DEF RetInv, RetirementTypes
  <2>2. GcIdle \in Gcs /\ GcIdle.at = "idle" /\ CustIdle \in Preservations /\ CustIdle.at = "idle"
    BY Values DEF GcIdle, CustIdle
  <2> QED BY <2>1, <2>2 DEF Dies
<1>2. /\ lease' = None /\ lease \in {"gc", "cust"}
      /\ (lease = "gc" => gc'.at = "idle") /\ (lease = "cust" => cust'.at = "idle")
  <2>1. CASE gc.at # "idle" /\ gc' = GcIdle /\ lease' = None
    BY <2>1 DEF RetInv, Owned, GcIdle
  <2>2. CASE cust.at \notin {"idle", "approved"} /\ cust' = CustIdle /\ lease' = None
    BY <2>2 DEF RetInv, Owned, CustIdle, RetirementTypes, Preservations
  <2> QED BY <2>1, <2>2 DEF Dies
<1>3. ar' \in Archivings /\ ar'.by = None /\ ar'.n = 0
  BY Values DEF Dies, NoArchiving
<1>4. /\ ghost' \in Ghosts /\ ghost'.past = ghost.past /\ ghost'.lost = ghost.lost /\ ghost'.late = ghost.late
      /\ ghost'.held = ghost.held /\ (ghost.early \/ ar.n = 6 => ghost'.early)
  <2> DEFINE early == ghost.early \/ ar.n = 6
  <2>1. ghost' = [ghost EXCEPT !.early = early] /\ ghost \in Ghosts /\ early \in BOOLEAN
    BY DEF Dies, RetInv, RetirementTypes, Ghosts
  <2> QED BY <2>1 DEF Ghosts
<1>5. RetirementTypes'
  BY <1>1, <1>2, <1>3, <1>4 DEF RetInv, RetirementTypes
<1>6. gc'.at = "idle" /\ cust'.at \notin {"staged", "published", "synced"}
  BY <1>1, <1>2 DEF RetInv, Owned
<1>7. Owned'
  BY <1>2, <1>3, <1>6, RestoreAssumption, RetirementAssumption
  DEF Owned, RestoreAssumption, RetirementAssumption
<1>8. Archiving'
  BY <1>3, <1>4 DEF RetInv, Archiving
<1>9. Seen' /\ Covered'
  BY <1>6 DEF Seen, Covered
<1>10. Custody'
  BY <1>3, <1>4, <1>6 DEF RetInv, Custody, Removing
<1>11. Holding' /\ NothingLost'
  BY <1>1, <1>4, <1>6 DEF RetInv, Holding, NothingLost
<1> QED BY <1>5, <1>7, <1>8, <1>9, <1>10, <1>11 DEF RetInv

-----------------------------------------------------------------------------
(* Restores *)

\* A step of gc, of the operator, of a launcher or of a writer leaves every restore where it is.
LEMMA NextLeavesRestores ==
  ASSUME RetirementAssumption, RestoreAssumption, RetInv, Next
  PROVE  /\ \A r \in Restorers : ar'.by = r <=> ar.by = r
         /\ ghost.past \subseteq ghost'.past
<1>1. CASE GcKind
  <2>1. ar'.by = "gc" /\ ar.by \notin Restorers /\ UNCHANGED ghost
    BY <1>1 DEF GcKind, ArBegin, RetInv, Owned
  <2> QED BY <2>1, RestoreAssumption DEF RestoreAssumption
<1>2. CASE GcArchive
  <2>1. ar.by = "gc"
    BY <1>2 DEF GcArchive, RetInv, Owned
  <2>2. ar'.by = ar.by \/ ar'.by = None
    <3>1. ar \in Archivings
      BY DEF RetInv, RetirementTypes
    <3>2. CASE ArCopy
      BY <3>1, <3>2 DEF ArCopy, Archivings
    <3>3. CASE ArCheck \/ ArPublish
      BY <3>1, <3>3 DEF ArCheck, ArPublish, Archivings
    <3>4. CASE ar' = NoArchiving
      BY <3>4 DEF NoArchiving
    <3> QED BY <1>2, <3>2, <3>3, <3>4 DEF GcArchive, ArStep
  <2>3. UNCHANGED ghost
    BY <1>2 DEF GcArchive, ArStep, ArCopy, ArCheck, ArPublish
  <2> QED BY <2>1, <2>2, <2>3, RestoreAssumption DEF RestoreAssumption
<1>3. CASE Dies
  <2>1. lease \in {"gc", "cust"} /\ ar'.by = None
    BY <1>3 DEF Dies, NoArchiving, RetInv, Owned, RetirementTypes, Preservations
  <2>2. ghost'.past = ghost.past
    BY <1>3 DEF Dies, RetInv, RetirementTypes, Ghosts
  <2> QED BY <2>1, <2>2, RestoreAssumption DEF RestoreAssumption, RetInv, Owned
<1>4. CASE UNCHANGED ar /\ (UNCHANGED ghost \/ GcRemove \/ Hold \/ Write)
  <2>1. ghost.past \subseteq ghost'.past
    <3>1. ghost \in Ghosts
      BY DEF RetInv, RetirementTypes
    <3>2. CASE GcRemove
      BY <3>1, <3>2 DEF GcRemove, Ghosts
    <3>3. CASE Hold
      BY <3>1, <3>3 DEF Hold, Ghosts
    <3>4. CASE Write
      BY <3>1, <3>4 DEF Write, Ghosts
    <3> QED BY <1>4, <3>2, <3>3, <3>4
  <2> QED BY <1>4, <2>1
<1> QED BY <1>1, <1>2, <1>3, <1>4
        DEF Next, Gc, GcTake, GcHeld, GcProve, GcCopyCache, GcMove, GcVerify, GcRemove,
            GcReturn, Rest,
            Preserve

LEMMA RestoresStay ==
  ASSUME RestoreInv, UNCHANGED <<target, res>>, \A r \in Restorers : ar'.by = r <=> ar.by = r,
         ghost.past \subseteq ghost'.past
  PROVE  RestoreInv'
<1>1. \A r \in Restorers : StageOK(r)'
  BY DEF RestoreInv, StageOK
<1> QED BY <1>1 DEF RestoreInv, Ledgered, Faithful, Restored

\* A restore that moves, from its own place to another.
LEMMA RestoreMoves ==
  ASSUME RestoreAssumption, RestoreInv, NEW r \in Restorers, NEW at \in ResPlaces, Goes(r,
         at) \/ (at = "idle" /\ Refuses(r))
  PROVE  /\ res' \in [Restorers -> Restores] /\ res'[r].at = at
         /\ at # "idle" => res'[r].staged = res[r].staged
         /\ \A s \in Restorers \ {r} : res'[s] = res[s]
<1> DEFINE x == IF Refuses(r) THEN ResIdle ELSE [res[r] EXCEPT !.at = at]
<1>1. res \in [Restorers -> Restores]
  BY DEF RestoreInv
<1>2. ResIdle \in Restores /\ ResIdle.at = "idle"
  BY DEF ResIdle, Restores, ResPlaces
<1>3. CASE at = "idle" /\ Refuses(r)
  BY <1>1, <1>2, <1>3 DEF Refuses
<1>4. CASE Goes(r, at)
  <2>1. [res[r] EXCEPT !.at = at] \in Restores
    BY <1>1 DEF Restores
  <2> QED BY <1>1, <1>4, <2>1 DEF Goes, Restores
<1> QED BY <1>3, <1>4

\* What the others need of the step of one.
LEMMA OthersStay ==
  ASSUME RestoreInv, NEW r \in Restorers, target' \in Targets, res' \in [Restorers -> Restores],
         \A s \in Restorers \ {r} : /\ res'[s] = res[s] /\ (ar'.by = s <=> ar.by = s)
                                    /\ target.ledger = s => target'.ledger = s,
         ghost.past \subseteq ghost'.past,
         target'.home = target.home \/ target'.home = None \/ target'.home.by = r,
         StageOK(r)', Ledgered', Faithful'
  PROVE  RestoreInv'
<1>1. ASSUME NEW s \in Restorers \ {r} PROVE StageOK(s)'
  <2>1. StageOK(s)
    BY DEF RestoreInv
  <2>2. res'[s].at = "undo ledger" => ~(target'.home # None /\ target'.home.by = s)
    BY <2>1 DEF StageOK
  <2>3. res'[s].at \in {"ledger", "publish"} =>
          res'[s].staged \in Nat /\ \E h \in ghost'.past : h["rollout"] = res'[s].staged
    BY <2>1 DEF StageOK
  <2> QED BY <2>1, <2>2, <2>3 DEF StageOK
<1> QED BY <1>1 DEF RestoreInv

\* The restore that has the lease gives it back, its archive() done, failed or killed.
LEMMA RestoreReturnsLease ==
  ASSUME RetirementAssumption, RestoreAssumption, RetInv, ar.by \in Restorers, ar' = NoArchiving,
         lease' = None,
         UNCHANGED <<dir, owner, gc, cust>>, kept' \in Custodies, ghost' \in Ghosts,
         kept'.snaps = kept.snaps, kept'.cache = kept.cache, kept'.rec = kept.rec,
         \/ kept'.arc # None /\ kept'.arc.files \in ghost.past /\ (kept'.arc.synced \/ ghost'.early)
         \/ kept' = kept /\ (ar.n = 6 => ghost'.early),
         ghost'.past = ghost.past, ghost'.lost = ghost.lost, ghost'.late = ghost.late,
         ghost'.held = ghost.held,
         ghost.early => ghost'.early
  PROVE  RetInv'
<1>1. /\ lease = "restore" /\ gc.at = "idle" /\ cust.at \notin {"staged", "published", "synced"}
      /\ dir.place # "gone"
  BY RestoreAssumption DEF RetInv, Owned, RestoreAssumption
<1>2. ar' \in Archivings /\ ar'.by = None /\ ar'.n = 0
  BY Values DEF NoArchiving
<1>3. RetirementTypes' /\ Holding' /\ NothingLost'
  BY <1>2 DEF RetInv, RetirementTypes, Holding, NothingLost
<1>4. Owned'
  BY <1>1, <1>2, RestoreAssumption, RetirementAssumption
  DEF Owned, RestoreAssumption, RetirementAssumption
<1>5. Archiving'
  BY <1>2 DEF RetInv, Archiving
<1>6. Seen' /\ Covered'
  BY <1>1 DEF Seen, Covered
<1>7. Custody'
  BY <1>1, <1>2 DEF RetInv, Custody, Removing
<1> QED BY <1>3, <1>4, <1>5, <1>6, <1>7 DEF RetInv

LEMMA RestoreTakesLease ==
  ASSUME RetirementAssumption, RestoreAssumption, RetInv, NEW r \in Restorers, lease = None,
         dir.place = "root",
         lease' = "restore", ArBegin(r), UNCHANGED <<dir, owner, kept, gc, cust, ghost>>
  PROVE  RetInv' /\ ar'.by = r /\ ar.by = None
<1>1. /\ gc.at = "idle" /\ cust.at \notin {"staged", "published", "synced"} /\ ar.by = None /\ ar.n = 0
  BY RetirementAssumption DEF RetInv, Owned, RetirementTypes, Archivings, RetirementAssumption
<1>2. /\ ar' \in Archivings /\ ar'.by = r /\ ar'.n \in {1, 3} /\ (ar'.n = 1 <=> kept.arc = None)
      /\ ar'.new <=> kept.arc = None
      /\ ar'.inv = {f \in File : dir.home[f] > 0} /\ (kept.arc # None => ar'.ref = kept.arc.files)
  BY ArchiveBegins
<1>3. RetirementTypes' /\ Holding' /\ NothingLost'
  BY <1>2 DEF RetInv, RetirementTypes, Holding, NothingLost
<1>4. Owned'
  BY <1>1, <1>2, RestoreAssumption, RetirementAssumption
  DEF Owned, RestoreAssumption, RetirementAssumption
<1>5. Archiving'
  BY <1>2 DEF RetInv, Archiving
<1>6. Seen' /\ Covered'
  BY <1>1 DEF Seen, Covered
<1>7. Custody'
  BY <1>1, <1>2 DEF RetInv, Custody, Removing
<1> QED BY <1>1, <1>2, <1>3, <1>4, <1>5, <1>6, <1>7 DEF RetInv

\* A restore that moves and leaves what it has not made as it is.
LEMMA RestoreGoesOn ==
  ASSUME RestoreAssumption, RestoreInv, NEW r \in Restorers, NEW at \in ResPlaces,
         at \notin {"ledger", "publish", "undo ledger"}, Goes(r, at) \/ (at = "idle" /\ Refuses(r)),
         \A s \in Restorers \ {r} : ar'.by = s <=> ar.by = s, at = "archive" <=> ar'.by = r,
         UNCHANGED target, ghost.past \subseteq ghost'.past
  PROVE  RestoreInv'
<1>1. /\ res' \in [Restorers -> Restores] /\ res'[r].at = at
      /\ \A s \in Restorers \ {r} : res'[s] = res[s]
  BY RestoreMoves
<1>2. StageOK(r)'
  BY <1>1 DEF StageOK
<1>3. Ledgered' /\ Faithful' /\ target' \in Targets
  BY DEF RestoreInv, Ledgered, Faithful, Restored
<1> QED BY <1>1, <1>2, <1>3, OthersStay

LEMMA RestoreBegins ==
  ASSUME RestoreAssumption, Inv, NEW r \in Restorers, Begin(r) \/ Finish(r) \/ Fails(r),
         UNCHANGED <<dir, owner, gc, cust>>
  PROVE  Inv'
<1>1. RetInv'
  BY RetirementStays DEF Inv, Begin, Finish, Fails
<1>2. UNCHANGED <<target, ar, ghost>> /\ ar.by # r
  BY DEF Inv, RestoreInv, StageOK, Begin, Finish, Fails
<1>3. \E at \in {"verify", "lease", "done", "undo"} : Goes(r, at)
  BY DEF Begin, Finish, Fails, Undoes
<1> QED BY <1>1, <1>2, <1>3, RestoreGoesOn DEF Inv, ResPlaces

LEMMA RestoreLeases ==
  ASSUME RetirementAssumption, RestoreAssumption, Inv, NEW r \in Restorers, Lease(r),
         UNCHANGED <<dir, owner, gc, cust>>
  PROVE  Inv'
<1>1. CASE lease = None /\ dir.place = "root" /\ lease' = "restore" /\ ArBegin(r) /\ Goes(r, "archive")
  <2>1. RetInv' /\ ar'.by = r /\ ar.by = None
    BY <1>1, RestoreTakesLease DEF Inv, Lease
  <2> QED BY <1>1, <2>1, RestoreGoesOn, RestoreAssumption DEF Inv, ResPlaces, Lease,
             RestoreAssumption
<1>2. CASE Refuses(r) /\ UNCHANGED <<lease, ar>>
  <2>1. RetInv'
    BY <1>2, RetirementStays DEF Inv, Lease
  <2>2. ar.by # r
    BY DEF Inv, RestoreInv, StageOK, Lease
  <2> QED BY <1>2, <2>1, <2>2, RestoreGoesOn DEF Inv, ResPlaces, Lease
<1> QED BY <1>1, <1>2 DEF Lease

LEMMA RestoreArchives ==
  ASSUME RetirementAssumption, RestoreAssumption, Inv, NEW r \in Restorers, Archive(r),
         UNCHANGED <<dir, owner, gc, cust>>
  PROVE  Inv'
<1>1. ar \in Archivings /\ kept \in Custodies /\ ghost \in Ghosts /\ ar.by = r /\ UNCHANGED target
  BY DEF Inv, RetInv, RetirementTypes, Archive
<1>2. None \notin Restorers /\ NoArchiving.by = None
  BY RestoreAssumption DEF RestoreAssumption, NoArchiving
<1>3. CASE ArStep /\ UNCHANGED <<res, lease>>
  <2>1. RetInv'
    BY <1>3, ArchiveSteps DEF Inv
  <2>2. ar'.by = ar.by /\ UNCHANGED ghost
    <3>1. CASE ArCopy
      BY <1>1, <3>1 DEF ArCopy, Archivings
    <3>2. CASE ArCheck \/ ArPublish
      BY <1>1, <3>2 DEF ArCheck, ArPublish, Archivings
    <3> QED BY <1>3, <3>1, <3>2 DEF ArStep
  <2> QED BY <1>1, <1>3, <2>1, <2>2, RestoresStay DEF Inv
<1>4. CASE ArDone /\ ar' = NoArchiving /\ lease' = None /\ Goes(r, "verify") /\ UNCHANGED ghost
  <2>1. RetInv'
    BY <1>1, <1>4, ArchiveIsDone, RestoreReturnsLease DEF Inv
  <2> QED BY <1>1, <1>2, <1>4, <2>1, RestoreGoesOn DEF Inv, ResPlaces
<1>5. CASE ArFails /\ ar' = NoArchiving /\ lease' = None /\ Refuses(r) /\ UNCHANGED <<kept, ghost>>
  <2>1. ar.n # 6
    BY <1>5 DEF ArFails
  <2>2. RetInv'
    BY <1>1, <1>5, <2>1, RestoreReturnsLease DEF Inv
  <2> QED BY <1>1, <1>2, <1>5, <2>2, RestoreGoesOn DEF Inv, ResPlaces
<1> QED BY <1>3, <1>4, <1>5 DEF Archive

LEMMA RestoreDies ==
  ASSUME RetirementAssumption, RestoreAssumption, Inv, NEW r \in Restorers, Killed(r),
         UNCHANGED <<dir, owner, gc, cust>>
  PROVE  Inv'
<1>1. ar \in Archivings /\ kept \in Custodies /\ ghost \in Ghosts /\ Goes(r, "done") /\ UNCHANGED <<target, kept>>
  BY DEF Inv, RetInv, RetirementTypes, Killed
<1>2. None \notin Restorers /\ NoArchiving.by = None
  BY RestoreAssumption DEF RestoreAssumption, NoArchiving
<1>3. CASE res[r].at = "archive"
  <2> DEFINE early == ghost.early \/ ar.n = 6
  <2>1. ar.by = r
    BY <1>3 DEF Inv, RestoreInv, StageOK
  <2>2. ghost' = [ghost EXCEPT !.early = early] /\ early \in BOOLEAN /\ ar' = NoArchiving /\ lease' = None
    BY <1>1, <1>3 DEF Killed, Ghosts
  <2>3. /\ ghost' \in Ghosts /\ ghost'.past = ghost.past /\ ghost'.lost = ghost.lost
        /\ ghost'.late = ghost.late /\ ghost'.held = ghost.held
        /\ (ghost'.early <=> early)
    BY <1>1, <2>2 DEF Ghosts
  <2>4. RetInv'
    BY <1>1, <2>1, <2>2, <2>3, RestoreReturnsLease DEF Inv
  <2> QED BY <1>1, <1>2, <2>1, <2>2, <2>3, <2>4, RestoreGoesOn DEF Inv, ResPlaces
<1>4. CASE res[r].at # "archive"
  <2>1. UNCHANGED <<lease, ar, ghost>> /\ ar.by # r
    BY <1>4 DEF Killed, Inv, RestoreInv, StageOK
  <2>2. RetInv'
    BY <1>1, <2>1, RetirementStays DEF Inv
  <2> QED BY <1>1, <2>1, <2>2, RestoreGoesOn DEF Inv, ResPlaces
<1> QED BY <1>3, <1>4

LEMMA RestoreCopies ==
  ASSUME RetirementAssumption, RestoreAssumption, Inv, NEW r \in Restorers, Copy(r),
         UNCHANGED <<dir, owner, gc, cust>>
  PROVE  Inv'
<1>1. UNCHANGED <<target, lease, ar, kept, ghost>> /\ ar.by # r
  BY DEF Copy, Inv, RestoreInv, StageOK
<1>2. RetInv'
  BY <1>1, RetirementStays DEF Inv
<1>3. CASE Refuses(r)
  BY <1>1, <1>2, <1>3, RestoreGoesOn DEF Inv, ResPlaces
<1>4. CASE /\ kept.arc # None
           /\ res' = [res EXCEPT ![r].staged = kept.arc.files["rollout"], ![r].at = "ledger"]
  <2> DEFINE n == kept.arc.files["rollout"]
             x == [res[r] EXCEPT !.staged = n, !.at = "ledger"]
  <2>1. n \in Nat /\ kept.arc.files \in ghost.past
    BY <1>4 DEF Inv, RetInv, RetirementTypes, Custodies, Archives, Archiving, Home, File
  <2>2. res \in [Restorers -> Restores] /\ res[r] \in Restores
    BY DEF Inv, RestoreInv
  <2>3. x \in Restores /\ x.at = "ledger" /\ x.staged = n
    BY <2>1, <2>2 DEF Restores, ResPlaces
  <2>4. res' = [res EXCEPT ![r] = x]
    BY <1>4, <2>2
  <2>5. \E h \in ghost.past : h["rollout"] = n
    BY <2>1
  <2> HIDE DEF n, x
  <2>6. /\ res' \in [Restorers -> Restores] /\ res'[r] = x
        /\ \A s \in Restorers \ {r} : res'[s] = res[s]
    BY <2>2, <2>3, <2>4
  <2>7. StageOK(r)'
    BY <1>1, <2>1, <2>3, <2>5, <2>6 DEF StageOK
  <2>8. Ledgered' /\ Faithful' /\ target' \in Targets
    BY <1>1 DEF Inv, RestoreInv, Ledgered, Faithful, Restored
  <2> QED BY <1>1, <1>2, <2>6, <2>7, <2>8, OthersStay DEF Inv
<1> QED BY <1>3, <1>4 DEF Copy

LEMMA RestoreWritesLedger ==
  ASSUME RetirementAssumption, RestoreAssumption, Inv, NEW r \in Restorers, Ledger(r),
         UNCHANGED <<dir, owner, gc, cust>>
  PROVE  Inv'
<1>1. /\ UNCHANGED <<lease, ar, kept, ghost>> /\ ar.by # r /\ target \in Targets /\ StageOK(r)
      /\ res[r].at = "ledger"
  BY DEF Ledger, Inv, RestoreInv, StageOK
<1>2. RetInv'
  BY <1>1, RetirementStays DEF Inv
<1>3. CASE Undoes(r) /\ UNCHANGED target
  BY <1>1, <1>2, <1>3, RestoreGoesOn DEF Inv, ResPlaces, Undoes
<1>4. CASE /\ target.home = None /\ target.ledger = None
           /\ target' = [target EXCEPT !.ledger = r] /\ Goes(r, "publish")
  <2>1. target' \in Targets /\ target'.home = None /\ target'.ledger = r /\ target'.lost = target.lost
    BY <1>1, <1>4 DEF Targets
  <2>2. /\ res' \in [Restorers -> Restores] /\ res'[r].at = "publish" /\ res'[r].staged = res[r].staged
        /\ \A s \in Restorers \ {r} : res'[s] = res[s]
    BY <1>4, RestoreMoves DEF Inv, ResPlaces
  <2>3. StageOK(r)'
    BY <1>1, <2>1, <2>2 DEF StageOK
  <2>4. Ledgered' /\ Faithful'
    BY <1>1, <2>1 DEF Inv, RestoreInv, Ledgered, Faithful, Restored
  <2>5. \A s \in Restorers : target.ledger # s
    BY <1>4, RestoreAssumption DEF RestoreAssumption
  <2> QED BY <1>1, <1>2, <2>1, <2>2, <2>3, <2>4, <2>5, OthersStay DEF Inv
<1> QED BY <1>3, <1>4 DEF Ledger

LEMMA RestorePublishes ==
  ASSUME RetirementAssumption, RestoreAssumption, Inv, NEW r \in Restorers, Publish(r),
         UNCHANGED <<dir, owner, gc, cust>>
  PROVE  Inv'
<1>1. /\ UNCHANGED <<lease, ar, kept, ghost>> /\ ar.by # r /\ target \in Targets
      /\ res[r].staged \in Nat /\ (\E h \in ghost.past : h["rollout"] = res[r].staged)
      /\ target.ledger = r /\ ~target.lost
  BY DEF Publish, Inv, RestoreInv, StageOK, Faithful
<1>2. RetInv'
  BY <1>1, RetirementStays DEF Inv
<1>3. CASE Undoes(r) /\ UNCHANGED target
  BY <1>1, <1>2, <1>3, RestoreGoesOn DEF Inv, ResPlaces, Undoes
<1>4. CASE target.home = None /\ Goes(r, "published")
           /\ target' = [target EXCEPT !.home = [by |-> r, rollout |-> res[r].staged],
                                       !.lost = @ \/ target.home # None]
  <2> DEFINE home == [by |-> r, rollout |-> res[r].staged]
             lost == target.lost \/ target.home # None
  <2>1. home \in [by : Restorers \cup {"owner"}, rollout : Nat] /\ home.by = r /\ home.rollout = res[r].staged
        /\ lost \in BOOLEAN /\ ~lost
    BY <1>1, <1>4 DEF Targets
  <2>2. target' = [target EXCEPT !.home = home, !.lost = lost]
    BY <1>4
  <2> HIDE DEF home, lost
  <2>3. target' \in Targets /\ target'.home = home /\ target'.ledger = r /\ ~target'.lost
    BY <1>1, <2>1, <2>2 DEF Targets
  <2>4. /\ res' \in [Restorers -> Restores] /\ res'[r].at = "published"
        /\ \A s \in Restorers \ {r} : res'[s] = res[s]
    BY <1>4, RestoreMoves DEF Inv, ResPlaces
  <2>5. StageOK(r)'
    BY <1>1, <2>4 DEF StageOK
  <2>6. Ledgered' /\ Faithful'
    BY <1>1, <2>1, <2>3 DEF Ledgered, Faithful, Restored
  <2> QED BY <1>1, <1>2, <2>1, <2>3, <2>4, <2>5, <2>6, OthersStay DEF Inv
<1> QED BY <1>3, <1>4 DEF Publish, Free

LEMMA RestoreTakesBackHome ==
  ASSUME RetirementAssumption, RestoreAssumption, Inv, NEW r \in Restorers, UndoHome(r),
         UNCHANGED <<dir, owner, gc, cust>>
  PROVE  Inv'
<1>1. UNCHANGED <<lease, ar, kept, ghost>> /\ ar.by # r /\ target \in Targets /\ ~target.lost
  BY DEF UndoHome, Inv, RestoreInv, StageOK, Faithful
<1>2. RetInv'
  BY <1>1, RetirementStays DEF Inv
<1>3. /\ target' \in Targets /\ target'.ledger = target.ledger /\ target'.lost = target.lost
      /\ \/ target'.home = None
         \/ target'.home = target.home /\ ~(target.home # None /\ target.home.by = r)
  BY <1>1 DEF UndoHome, Targets
<1>4. /\ res' \in [Restorers -> Restores] /\ res'[r].at = "undo ledger"
      /\ \A s \in Restorers \ {r} : res'[s] = res[s]
  BY RestoreMoves DEF UndoHome, Inv, ResPlaces
<1>5. StageOK(r)'
  BY <1>1, <1>3, <1>4 DEF StageOK
<1>6. Ledgered' /\ Faithful'
  BY <1>1, <1>3 DEF Inv, RestoreInv, Ledgered, Faithful, Restored
<1> QED BY <1>1, <1>2, <1>3, <1>4, <1>5, <1>6, OthersStay DEF Inv

LEMMA RestoreTakesBackLedger ==
  ASSUME RetirementAssumption, RestoreAssumption, Inv, NEW r \in Restorers, UndoLedger(r),
         UNCHANGED <<dir, owner, gc, cust>>
  PROVE  Inv'
<1>1. /\ UNCHANGED <<lease, ar, kept, ghost>> /\ ar.by # r /\ target \in Targets /\ ~target.lost
      /\ ~(target.home # None /\ target.home.by = r)
  BY DEF UndoLedger, Inv, RestoreInv, StageOK, Faithful
<1>2. RetInv'
  BY <1>1, RetirementStays DEF Inv
<1>3. /\ target' \in Targets /\ target'.home = target.home /\ target'.lost = target.lost
      /\ target'.ledger = target.ledger \/ target.ledger = r
  BY <1>1 DEF UndoLedger, TakesBack, Targets
<1>4. /\ res' \in [Restorers -> Restores] /\ res'[r].at = "idle"
      /\ \A s \in Restorers \ {r} : res'[s] = res[s]
  BY RestoreMoves DEF UndoLedger, Refuses, Inv, ResPlaces
<1>5. StageOK(r)'
  BY <1>1, <1>4 DEF StageOK
<1>6. Ledgered' /\ Faithful'
  BY <1>1, <1>3 DEF Inv, RestoreInv, Ledgered, Faithful, Restored
<1> QED BY <1>1, <1>2, <1>3, <1>4, <1>5, <1>6, OthersStay DEF Inv

LEMMA OwnerMakesHome ==
  ASSUME RetirementAssumption, RestoreAssumption, Inv, OwnHome, UNCHANGED <<vars, res>>
  PROVE  Inv'
<1>1. RetInv'
  BY RetirementStays DEF Inv, vars
<1> DEFINE home == [by |-> "owner", rollout |-> 0]
<1>2. home \in [by : Restorers \cup {"owner"}, rollout : Nat] /\ home.by = "owner" /\ "owner" \notin Restorers
  BY RestoreAssumption DEF RestoreAssumption
<1>3. target \in Targets /\ ~target.lost /\ target' = [target EXCEPT !.home = home]
  BY DEF Inv, RestoreInv, Faithful, OwnHome
<1> HIDE DEF home
<1>4. target' \in Targets /\ target'.home = home /\ target'.ledger = target.ledger /\ ~target'.lost
  BY <1>2, <1>3 DEF Targets
<1>5. Ledgered' /\ Faithful'
  BY <1>2, <1>4 DEF Ledgered, Faithful, Restored
<1>6. ASSUME NEW r \in Restorers
      PROVE  StageOK(r)'
  <2>1. StageOK(r) /\ UNCHANGED <<ar, ghost, res>> /\ home.by # r
    BY <1>2 DEF Inv, RestoreInv, vars
  <2> QED BY <1>4, <2>1 DEF StageOK
<1> QED BY <1>1, <1>4, <1>5, <1>6 DEF Inv, RestoreInv

-----------------------------------------------------------------------------
(* Every step, and what holds of every behaviour *)

LEMMA RetirementStarts == ASSUME RetirementAssumption, RestoreAssumption, Init PROVE RetInv
<1>1. PICK kind \in Kinds, n \in {0, 1} : \E work \in Ended(kind) :
        /\ dir = [place |-> "root", squat |-> FALSE, home |-> [f \in File |-> n], work |-> work]
        /\ owner = [state |-> kind[1], headless |-> kind[2], hold |-> "none"]
  BY DEF Init
<1>2. PICK work \in Ended(kind) :
        /\ dir = [place |-> "root", squat |-> FALSE, home |-> [f \in File |-> n], work |-> work]
        /\ owner = [state |-> kind[1], headless |-> kind[2], hold |-> "none"]
  BY <1>1
<1>3. /\ kept = [arc |-> None, snaps |-> {}, cache |-> "none", rec |-> None]
      /\ lease = None /\ ar = NoArchiving /\ gc = GcIdle /\ cust = CustIdle
      /\ ghost = [past |-> {dir.home}, lost |-> {}, late |-> {}, held |-> FALSE, early |-> FALSE]
  BY DEF Init
<1>4. kind[1] \in {"CLOSED", "DELIVERED", "DISCARDED"} /\ kind[2] \in BOOLEAN
  BY RetirementAssumption DEF RetirementAssumption
<1>5. work \in Work
  BY DEF Ended, Work, Part
<1>6. [f \in File |-> n] \in Home
  BY DEF Home
<1>7. dir \in Dirs /\ dir.home \in Home /\ dir.place = "root"
  BY <1>2, <1>5, <1>6 DEF Dirs
<1>8. owner \in Owners
  BY <1>2, <1>4 DEF Owners
<1>9. kept \in Custodies /\ kept.arc = None /\ kept.rec = None
  BY <1>3 DEF Custodies
<1>10. ghost \in Ghosts /\ dir.home \in ghost.past /\ ghost.lost = {} /\ ~ghost.held
  BY <1>3, <1>7 DEF Ghosts
<1>11. /\ ar \in Archivings /\ ar.by = None /\ ar.n = 0
       /\ gc \in Gcs /\ gc.at = "idle" /\ cust \in Preservations /\ cust.at = "idle"
  BY <1>3, Values DEF NoArchiving, GcIdle, CustIdle
<1>12. RetirementTypes
  BY <1>3, <1>7, <1>8, <1>9, <1>10, <1>11 DEF RetirementTypes
<1>13. Owned
  BY <1>3, <1>11, RetirementAssumption, RestoreAssumption DEF Owned, RetirementAssumption,
     RestoreAssumption
<1>14. Archiving /\ Holding /\ NothingLost
  BY <1>9, <1>10, <1>11 DEF Archiving, Holding, NothingLost
<1>15. Seen /\ Covered
  BY <1>11 DEF Seen, Covered
<1>16. Custody
  BY <1>7, <1>9, <1>11 DEF Custody, Removing
<1> QED BY <1>12, <1>13, <1>14, <1>15, <1>16 DEF RetInv

LEMMA RestoreStarts == ASSUME RestoreAssumption, RetInv, RestoreInit PROVE RestoreInv
<1>1. target \in Targets /\ target.home = None /\ ~target.lost
  BY DEF RestoreInit, Targets
<1>2. res \in [Restorers -> Restores] /\ \A r \in Restorers : res[r].at = "idle"
  BY DEF RestoreInit, ResIdle, Restores, ResPlaces
<1>3. \A r \in Restorers : ar.by # r
  BY RestoreAssumption DEF RestoreInit, Init, NoArchiving, RestoreAssumption
<1> QED BY <1>1, <1>2, <1>3 DEF RestoreInv, StageOK, Ledgered, Faithful, Restored

LEMMA RetirementSteps ==
  ASSUME RetirementAssumption, RestoreAssumption, RetInv, [Next]_vars PROVE RetInv'
<1>1. CASE GcArchive
  BY <1>1, ArchiveSteps, GcArchived, GcArchiveFailed DEF GcArchive
<1>2. CASE Gc /\ ~GcArchive
  BY <1>2, GcTakes, GcLooksAtHolds, GcProves, GcCopiesCache, GcLooksAtHistory, GcMoves, GcVerifies,
     GcRemoves, GcReturns DEF Gc
<1>3. CASE Preserve
  BY <1>3, Preserves
<1>4. CASE Launch /\ UNCHANGED <<dir, kept, ar, gc, cust, ghost>>
  BY <1>4, Launches
<1>5. CASE Hold /\ UNCHANGED <<dir, kept, lease, ar, gc, cust>>
  BY <1>5, HoldChanges
<1>6. CASE Write /\ UNCHANGED <<owner, kept, lease, ar, gc, cust>>
  BY <1>6, Writes
<1>7. CASE Dies /\ UNCHANGED <<dir, kept>>
  BY <1>7, ProcessDies
<1>8. CASE UNCHANGED vars
  BY <1>8, RetirementStays DEF vars
<1> QED BY <1>1, <1>2, <1>3, <1>4, <1>5, <1>6, <1>7, <1>8 DEF Next

LEMMA RestoreSteps ==
  ASSUME RetirementAssumption, RestoreAssumption, Inv, [RestoreNext]_rvars PROVE Inv'
<1>1. CASE Next /\ UNCHANGED <<target, res>>
  BY <1>1, RetirementSteps, NextLeavesRestores, RestoresStay DEF Inv
<1>2. ASSUME NEW r \in Restorers, Restore(r), UNCHANGED <<dir, owner, gc, cust, left>>
      PROVE  Inv'
  BY <1>2, RestoreBegins, RestoreLeases, RestoreArchives, RestoreCopies, RestoreWritesLedger,
     RestorePublishes,
     RestoreTakesBackHome, RestoreTakesBackLedger DEF Restore
<1>3. ASSUME NEW r \in Restorers, Fails(r) \/ Killed(r), UNCHANGED <<dir, owner, gc, cust>>
      PROVE  Inv'
  BY <1>3, RestoreBegins, RestoreDies
<1>4. CASE OwnHome /\ UNCHANGED <<vars, res>>
  BY <1>4, OwnerMakesHome
<1>5. CASE UNCHANGED rvars
  <2>1. UNCHANGED vars /\ UNCHANGED <<target, res>>
    BY <1>5 DEF rvars
  <2>2. UNCHANGED <<dir, owner, kept, lease, ar, gc, cust, ghost>>
    BY <2>1 DEF vars
  <2> QED BY <2>1, <2>2, RetirementStays, RestoresStay DEF Inv
<1> QED BY <1>1, <1>2, <1>3, <1>4, <1>5 DEF RestoreNext

LEMMA RetirementPromises == ASSUME RetInv PROVE RetirementHolds
<1>1. ArchiveTrue
  BY DEF RetInv, Archiving, ArchiveTrue
<1>2. Durable
  <2>1. gc.at = "rm" => ar.n = 0 /\ kept.arc # None
    BY GcWorksAlone DEF RetInv, Seen
  <2>2. dir.place = "gone" => ar.n = 0 /\ kept.arc # None
    BY DEF RetInv, RetirementTypes, Archivings, Owned, Custody
  <2> QED BY <2>1, <2>2 DEF RetInv, Custody, Durable, Removing
<1>3. NothingLost /\ HeldStays
  BY DEF RetInv, Holding, HeldStays
<1> QED BY <1>1, <1>2, <1>3 DEF RetirementHolds

\* gc and the operator, whoever writes, launches or is killed: nothing is lost, the archive is of one
\* moment, custody is on disk before the original goes, and a hold keeps the directory.
THEOREM RetirementKeepsItsPromises ==
  ASSUME RetirementAssumption, RestoreAssumption PROVE Spec => []RetirementHolds
<1>1. Init => RetInv
  BY RetirementStarts
<1>2. RetInv /\ [Next]_vars => RetInv'
  BY RetirementSteps
<1>3. RetInv => RetirementHolds
  BY RetirementPromises
<1> QED BY <1>1, <1>2, <1>3, PTL DEF Spec

\* The same with any number of restores, and every home they publish has their ledger and a transcript
\* of some moment, however they fail, are killed or meet.
THEOREM RestoreKeepsItsPromises ==
  ASSUME RetirementAssumption, RestoreAssumption PROVE RestoreSpec => []RestoreHolds
<1>1. RestoreInit => Inv
  BY RetirementStarts, RestoreStarts DEF RestoreInit, Inv
<1>2. Inv /\ [RestoreNext]_rvars => Inv'
  BY RestoreSteps
<1>3. Inv => RestoreHolds
  BY RetirementPromises DEF Inv, RestoreInv, RestoreHolds
<1> QED BY <1>1, <1>2, <1>3, PTL DEF RestoreSpec
=============================================================================
