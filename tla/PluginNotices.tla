---------------------------- MODULE PluginNotices ----------------------------
(***************************************************************************)
(* The notifications and the decision token of one agent pane              *)
(* (herdr-plugin/harness_herdr_plugin.py).  herdr runs the plugin anew for *)
(* every change of the pane's status; the runs go on side by side, take    *)
(* the lock of state.json one at a time and in any order, and look at the  *)
(* pane itself without it.  A background watcher reconciles beside them.   *)
(*                                                                         *)
(* herdr, the agent and its user are external.  Whether the visible tab    *)
(* stays silent, and the wording, are left out.                            *)
(***************************************************************************)
EXTENDS Naturals, Sequences

CONSTANTS Procs,    \* the runs that go on side by side
          Watcher,  \* the watcher, one of them or none
          None,
          MaxEvents  \* status changes of the pane

VARIABLES
  live,    \* the pane in herdr: status, owner, background activity, whether its last answer leaves a choice
  token,   \* $decision is shown on the pane
  rec,     \* the pane's record in state.json
  events,  \* status changes whose run has not recorded them
  run,     \* per run: where it is and what it knows
  shown,   \* the notifications, in order
  count,
  missed   \* a finish was recorded right after a block while another run had not settled

vars == <<live, token, rec, events, run, shown, count, missed>>

Finished == {"idle", "done"}

Unresolved == {"waiting", "stalled", "unknown"}

Free == [at |-> "free", status |-> None, pending |-> None, snap |-> None, task |-> None, wanted |-> FALSE]

\* The first turn of the agent is under way, and recorded.
Init ==
  /\ live = [status |-> "working", owner |-> 1, phase |-> None, id |-> 0, choice |-> FALSE]
  /\ token = FALSE
  /\ rec = [status |-> "working", seq |-> 1, decision |-> FALSE, owner |-> 1, phase |-> None, id |-> 0, deferred |-> None]
  /\ events = {} /\ run = [p \in Procs |-> Free] /\ shown = <<>> /\ count = 0 /\ missed = FALSE

-----------------------------------------------------------------------------
(* herdr *)

Becomes(status) ==
  /\ count < MaxEvents /\ count' = count + 1
  /\ events' = events \union {[n |-> count, status |-> status]}

\* A turn may leave work in the background, which the activity token of the
\* pane names; a finished turn is "done" until the user has seen it.
Turn ==
  \/ live.status # "working" /\ Becomes("working") /\ live' = [live EXCEPT !.status = "working", !.choice = FALSE]
  \/ live.status = "working" /\ Becomes("blocked") /\ live' = [live EXCEPT !.status = "blocked"]
  \/ /\ live.status \in {"working", "blocked"} /\ Becomes("done")
     /\ \E choice \in {FALSE, live.owner = 1}, background \in BOOLEAN :
          live' = [live EXCEPT !.status = "done", !.choice = choice,
                               !.phase = IF background THEN "waiting" ELSE @, !.id = IF background THEN @ + 1 ELSE @]
  \/ live.status = "done" /\ Becomes("idle") /\ live' = [live EXCEPT !.status = "idle"]

Settles == live.phase = "waiting" /\ live' = [live EXCEPT !.phase = "settled"] /\ UNCHANGED <<token, events, count>>

\* Claude, owner 1, leaves the pane to another agent: herdr drops what was
\* reported of it.
Replaced ==
  /\ live.owner = 1
  /\ live' = [status |-> "idle", owner |-> 2, phase |-> None, id |-> 0, choice |-> FALSE]
  /\ token' = FALSE /\ UNCHANGED <<events, count>>

Herdr == ((Turn /\ UNCHANGED token) \/ Settles \/ Replaced) /\ UNCHANGED <<rec, run, shown, missed>>

-----------------------------------------------------------------------------
(* A run of the plugin *)

At(p, place) == run[p].at = place

SameStatus(a, b) == a = b \/ {a, b} \subseteq Finished

\* record_status, whatever was recorded before.
KindUnlessSame(previous, status) ==
  IF status = "blocked" /\ previous # "blocked" THEN "attention"
  ELSE IF status \in Finished /\ previous # status THEN "finished"
  ELSE None

Kind(previous, status) ==
  IF status = "blocked" /\ previous # "blocked" THEN "attention"
  ELSE IF status \in Finished /\ previous = "working" THEN "finished"
  ELSE None

\* The runs are alike: which of the free ones begins makes no difference.
NextFree == CHOOSE p \in Procs \ {Watcher} : At(p, "free") \/ \A q \in Procs \ {Watcher} : ~At(q, "free")

RecordStatus(p) ==
  \E e \in events :
    /\ At(p, "free") /\ p = NextFree /\ events' = events \ {e}
    /\ LET seq == rec.seq + (IF SameStatus(rec.status, e.status) THEN 0 ELSE 1)
           kind == Kind(rec.status, e.status) IN
         /\ rec' = [rec EXCEPT !.status = e.status, !.seq = seq]
         /\ run' = [run EXCEPT ![p].at = "sync", ![p].status = e.status,
                               ![p].pending = IF kind = None THEN None ELSE [kind |-> kind, seq |-> seq, decision |-> FALSE]]
         /\ missed' = (missed \/ (rec.status = "blocked" /\ e.status \in Finished))
    /\ UNCHANGED <<live, token, shown, count>>

\* sync_tabs returns the panes as they were under its lock.
Sync(p) ==
  /\ At(p, IF p = Watcher THEN "free" ELSE "sync")
  /\ run' = [run EXCEPT ![p].at = "reconcile", ![p].snap = live]
  /\ UNCHANGED <<live, token, rec, events, shown, count, missed>>

After(p) == IF p = Watcher THEN "free" ELSE "settle"

\* The record of the owner the pane has now.
Owned(r, snap) ==
  IF r.owner = snap.owner THEN r
  ELSE [r EXCEPT !.owner = snap.owner, !.deferred = None, !.id = 0, !.phase = None]

\* A turn under way, or another activity, drops what was deferred.
Kept(r, snap) ==
  IF \/ snap.status \in {"working", "blocked"}
     \/ snap.phase \in {"waiting", "stalled"} /\ r.id \notin {0, snap.id}
  THEN [r EXCEPT !.deferred = None] ELSE r

Releases(r, snap) ==
  snap.phase = "settled" /\ r.deferred # None /\ r.id = snap.id /\ r.seq = r.deferred.seq

\* reconcile_activity.
Reconcile(p) ==
  /\ At(p, "reconcile")
  /\ LET snap == run[p].snap
         r == Kept(Owned(rec, snap), snap) IN
       /\ rec' = CASE snap.phase \in {"waiting", "stalled"} -> [r EXCEPT !.id = snap.id, !.phase = snap.phase]
                   [] snap.phase = "settled" -> [r EXCEPT !.id = snap.id, !.phase = "settled", !.deferred = None]
                   [] OTHER -> [r EXCEPT !.phase = IF @ \in Unresolved THEN "unknown" ELSE @]
       /\ run' = [run EXCEPT ![p].at = IF Releases(r, snap) THEN "release" ELSE After(p),
                             ![p].task = IF Releases(r, snap) THEN r.deferred ELSE None, ![p].snap = None]
  /\ UNCHANGED <<live, token, events, shown, count, missed>>

\* What is left of a run after its decision: the notification, if it has one.
Notifies(r) == IF r.pending = None THEN Free ELSE [r EXCEPT !.at = "notify", !.task = r.pending, !.snap = None]

\* settle_decision up to the lock: a finished turn looks at the pane, and at its
\* last answer if herdr says the turn is over; any other status clears.
Decide(p) ==
  /\ At(p, "settle")
  /\ LET finished == run[p].pending # None /\ run[p].pending.kind = "finished" IN
       run' = IF run[p].status \in Finished /\ ~finished
              THEN [run EXCEPT ![p] = Notifies(run[p])]
              ELSE [run EXCEPT ![p].at = IF finished /\ live.status \in Finished THEN "choose" ELSE "mark",
                               ![p].wanted = FALSE]
  /\ UNCHANGED <<live, token, rec, events, shown, count, missed>>

\* ends_on_choice: the last record of the transcript is an answer that leaves
\* one; a user's record after it does not count.
EndsOnChoice(p) ==
  /\ At(p, "choose") /\ run' = [run EXCEPT ![p].at = "mark", ![p].wanted = live.choice]
  /\ UNCHANGED <<live, token, rec, events, shown, count, missed>>

\* A newer status settles it instead.
StillSettlesByStatus(p) == SameStatus(rec.status, run[p].status)

StillSettles(p) ==
  /\ SameStatus(rec.status, run[p].status)
  /\ (run[p].pending # None /\ run[p].pending.kind = "finished") => rec.seq = run[p].pending.seq

\* settle_decision under the lock.  herdr drops a set when the agent has gone.
Mark(p) ==
  /\ At(p, "mark")
  /\ LET settles == StillSettles(p)
         changes == settles /\ rec.decision # run[p].wanted IN
       /\ rec' = IF changes THEN [rec EXCEPT !.decision = run[p].wanted] ELSE rec
       /\ token' = IF changes THEN run[p].wanted /\ live.owner = 1 ELSE token
       /\ run' = [run EXCEPT ![p] = Notifies(IF settles /\ @.wanted THEN [@ EXCEPT !.pending.decision = TRUE] ELSE @)]
  /\ UNCHANGED <<live, events, shown, count, missed>>

\* Where a run goes on when it has announced, or not.
Announced(p) ==
  IF run[p].at \in {"notify", "look", "defer"} \/ p = Watcher THEN Free
  ELSE [run[p] EXCEPT !.at = "settle", !.task = None, !.snap = None]

\* At the end of the notify delay, or at once for what was released.
StillCurrent(p) ==
  /\ run[p].at \in {"release", "notify"}
  /\ run' = [run EXCEPT ![p] = IF rec.seq = run[p].task.seq
                               THEN [@ EXCEPT !.at = IF @ = "notify" THEN "look" ELSE "relook"]
                               ELSE Announced(p)]
  /\ UNCHANGED <<live, token, rec, events, shown, count, missed>>

\* announce, before the lock: only what herdr still reports for the pane.
Look(p) ==
  /\ run[p].at \in {"look", "relook"}
  /\ LET valid == IF run[p].task.kind = "finished" THEN Finished ELSE {"blocked"} IN
       run' = [run EXCEPT ![p] = IF live.status \in valid
                                 THEN [@ EXCEPT !.at = IF @ = "look" THEN "defer" ELSE "redefer", !.snap = live]
                                 ELSE Announced(p)]
  /\ UNCHANGED <<live, token, rec, events, shown, count, missed>>

\* defer_finished, for a finished turn whose pane was seen as snap.
Seen(r, snap) == IF snap.phase \in {"waiting", "stalled"} THEN [r EXCEPT !.phase = snap.phase, !.id = snap.id] ELSE r

UnsettledIfStalled(r, snap) == r.phase \in {"stalled", "unknown"} /\ snap.phase # "settled"

Unsettled(r, snap) == r.phase \in Unresolved /\ ~(snap.phase = "settled" /\ snap.id = r.id)

Defer(p) ==
  /\ run[p].at \in {"defer", "redefer"}
  /\ LET task == run[p].task
         snap == run[p].snap
         stale == task.kind = "finished" /\ rec.seq # task.seq
         r == IF task.kind = "finished" /\ ~stale /\ ~task.decision THEN Seen(rec, snap) ELSE rec
         defers == task.kind = "finished" /\ ~task.decision /\ ~stale /\ Unsettled(r, snap) IN
       /\ rec' = IF defers THEN [r EXCEPT !.deferred = task] ELSE r
       /\ shown' = IF stale \/ defers THEN shown
                   ELSE Append(shown, [seq |-> task.seq, kind |-> task.kind,
                                       early |-> ~task.decision /\ snap.phase = "waiting"])
  /\ run' = [run EXCEPT ![p] = Announced(p)]
  /\ UNCHANGED <<live, token, events, count, missed>>

Plugin(p) ==
  \/ p # Watcher /\ (RecordStatus(p) \/ Decide(p) \/ EndsOnChoice(p) \/ Mark(p))
  \/ Sync(p) \/ Reconcile(p) \/ StillCurrent(p) \/ Look(p) \/ Defer(p)

Next == Herdr \/ \E p \in Procs : Plugin(p)

Spec == Init /\ [][Next]_vars

-----------------------------------------------------------------------------
(* Properties *)

NoticesTypeOK ==
  /\ live.status \in {"idle", "working", "blocked", "done"} /\ rec.status \in {"idle", "working", "blocked", "done"}
  /\ rec.seq <= count + 1 /\ rec.phase \in Unresolved \union {None, "settled"} /\ token \in BOOLEAN
  /\ \A p \in Procs : run[p].at \in {"free", "sync", "reconcile", "release", "settle", "choose", "mark", "notify", "look", "relook",
                                     "defer", "redefer"}

\* One change of the status is announced once: by the run that recorded it, or
\* by whoever releases what that run deferred.
AnnouncedOnce ==
  \A i, j \in DOMAIN shown : i # j => shown[i].seq # shown[j].seq

\* A completion is not announced while the work it left in the background goes on.
NotEarly == \A i \in DOMAIN shown : shown[i].kind = "finished" => ~shown[i].early

Quiet == events = {} /\ \A p \in Procs : At(p, "free")

\* When every run has ended, $decision is there only for a turn that has ended
\* on a choice, whatever order the runs had.
DecisionTrue == Quiet /\ token => live.status \in Finished /\ live.choice

NoticesHold == AnnouncedOnce /\ NotEarly /\ (missed \/ DecisionTrue)
=============================================================================
