---------------------------- MODULE SessionRestore ----------------------------
(***************************************************************************)
(* A conversation of an ended session goes into the home of a new one      *)
(* (rehydrate in bin/harness_session_restore.py), from the archive that gc *)
(* left or from one made of the session where it stands, while gc retires  *)
(* that session, another restore has the same target, the target's owner   *)
(* makes a home of his own, and a call fails or a process is killed.       *)
(*                                                                         *)
(* Directories are held open by descriptor and compared by inode: what     *)
(* replaces one of them makes the restore fail at its next check, which is *)
(* one of the failures here.                                               *)
(***************************************************************************)
EXTENDS SessionRetirement

CONSTANTS Restorers

\* What the theorems assume: restores have names of their own.
RestoreAssumption ==
  Restorers \cap {None, "gc", "owner"} = {} /\ None \notin [by : Restorers \cup {"owner"}, rollout : Nat]

VARIABLES
  target,  \* the new session: home and import ledger
  res      \* the restores

rvars == <<vars, target, res>>

ResIdle == [at |-> "idle", staged |-> None]

RestoreInit ==
  /\ Init
  /\ target = [home |-> None, ledger |-> None, lost |-> FALSE]
  /\ res = [r \in Restorers |-> ResIdle]

Goes(r, at) == res' = [res EXCEPT ![r].at = at]

\* A failure, of a check or of a call: the home it published goes, then its ledger, then the staged copy.
Undoes(r) == Goes(r, "undo")

Refuses(r) == res' = [res EXCEPT ![r] = ResIdle]

\* The catalog lists an archive, or a session that is still there.
Begin(r) ==
  /\ res[r].at = "idle" /\ target.home = None
  /\ \/ kept.arc # None /\ Goes(r, "verify")
     \/ dir.place = "root" /\ Goes(r, "lease")
  /\ UNCHANGED <<target, lease, ar, kept, ghost>>

\* A session that still stands is archived under its lease, when it has ended and no hold is on record.
Lease(r) ==
  /\ res[r].at = "lease"
  /\ IF lease = None /\ Terminal /\ dir.place = "root" /\ owner.hold = "none"
     THEN lease' = "restore" /\ ArBegin(r) /\ Goes(r, "archive")
     ELSE Refuses(r) /\ UNCHANGED <<lease, ar>>
  /\ UNCHANGED <<target, kept, ghost>>

Archive(r) ==
  /\ res[r].at = "archive" /\ ar.by = r
  /\ \/ ArStep /\ UNCHANGED <<res, lease>>
     \/ ArDone /\ ar' = NoArchiving /\ lease' = None /\ Goes(r, "verify") /\ UNCHANGED ghost
     \/ ArFails /\ ar' = NoArchiving /\ lease' = None /\ Refuses(r) /\ UNCHANGED <<kept, ghost>>
  /\ UNCHANGED target

Copy(r) ==
  /\ res[r].at = "verify"
  /\ IF kept.arc # None /\ kept.arc.files["rollout"] > 0
     THEN res' = [res EXCEPT ![r].staged = kept.arc.files["rollout"], ![r].at = "ledger"]
     ELSE Refuses(r)
  /\ UNCHANGED <<target, lease, ar, kept, ghost>>

\* The ledger that says whose conversation this is takes its name only when that is free.
Ledger(r) ==
  /\ res[r].at = "ledger"
  /\ IF target.home = None /\ target.ledger = None
     THEN target' = [target EXCEPT !.ledger = r] /\ Goes(r, "publish")
     ELSE Undoes(r) /\ UNCHANGED target
  /\ UNCHANGED <<lease, ar, kept, ghost>>

OrReplaces(home) == TRUE

\* The rename is exclusive: a home that is there by now stays.
Free(home) == home = None

Publish(r) ==
  /\ res[r].at = "publish"
  /\ IF Free(target.home)
     THEN /\ target' = [target EXCEPT !.home = [by |-> r, rollout |-> res[r].staged],
                                      !.lost = @ \/ target.home # None]
          /\ Goes(r, "published")
     ELSE Undoes(r) /\ UNCHANGED target
  /\ UNCHANGED <<lease, ar, kept, ghost>>

Finish(r) ==
  /\ res[r].at = "published" /\ Goes(r, "done")
  /\ UNCHANGED <<target, lease, ar, kept, ghost>>

Fails(r) ==
  /\ res[r].at \in {"publish", "published"}
  /\ Undoes(r) /\ UNCHANGED <<target, lease, ar, kept, ghost>>

\* A restore takes back what it made, and nothing another one made.
UndoHome(r) ==
  /\ res[r].at = "undo" /\ Goes(r, "undo ledger")
  /\ target' = IF target.home # None /\ target.home.by = r THEN [target EXCEPT !.home = None] ELSE target
  /\ UNCHANGED <<lease, ar, kept, ghost>>

TakesBackAny(r) == target.ledger # None

TakesBack(r) == target.ledger = r

UndoLedger(r) ==
  /\ res[r].at = "undo ledger" /\ res' = [res EXCEPT ![r] = ResIdle]
  /\ target' = IF TakesBack(r) THEN [target EXCEPT !.ledger = None] ELSE target
  /\ UNCHANGED <<lease, ar, kept, ghost>>

Killed(r) ==
  /\ res[r].at \notin {"idle", "done"} /\ Goes(r, "done")
  /\ IF res[r].at = "archive"
     THEN lease' = None /\ ar' = NoArchiving /\ ghost' = [ghost EXCEPT !.early = @ \/ ar.n = 6]
     ELSE UNCHANGED <<lease, ar, ghost>>
  /\ UNCHANGED <<target, kept>>

Restore(r) ==
  \/ Begin(r) \/ Lease(r) \/ Archive(r) \/ Copy(r) \/ Ledger(r) \/ Publish(r) \/ Finish(r)
  \/ UndoHome(r) \/ UndoLedger(r)

\* The target's owner starts Codex in it, in a home of its own.
OwnHome ==
  /\ target.home = None /\ target' = [target EXCEPT !.home = [by |-> "owner", rollout |-> 0]]

RestoreNext ==
  \/ Next /\ UNCHANGED <<target, res>>
  \/ \E r \in Restorers : Restore(r) /\ UNCHANGED <<dir, owner, gc, cust, left>>
  \/ \E r \in Restorers : (Fails(r) \/ Killed(r)) /\ Mishap /\ UNCHANGED <<dir, owner, gc, cust>>
  \/ OwnHome /\ UNCHANGED <<vars, res>>

RestoreSpec == RestoreInit /\ [][RestoreNext]_rvars

-----------------------------------------------------------------------------
\* What the variables may hold.
RestoreTypeOK ==
  /\ RetirementTypeOK /\ target.ledger \in Restorers \union {None}
  /\ target.home # None => target.home.by \in Restorers \union {"owner"}

Restored == target.home # None /\ target.home.by \in Restorers

\* A restored conversation is never in a home without the ledger that says it is another session's:
\* no catalog lists it as the new session's own, whoever failed, was killed or came second.
Ledgered == Restored => target.ledger = target.home.by

\* What is restored is the transcript as it was at some moment, and no home was there before it.
Faithful ==
  /\ Restored => \E home \in ghost.past : home["rollout"] = target.home.rollout
  /\ ~target.lost

\* The old session loses nothing by being archived for a restore.
RestoreHolds == Ledgered /\ Faithful /\ RetirementHolds
=============================================================================
