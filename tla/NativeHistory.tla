----------------------------- MODULE NativeHistory -----------------------------
(***************************************************************************)
(* The history of one Native (Codex) conversation: where it lives, how its *)
(* homes are retired and how it is resumed (bin/codex-history.py and       *)
(* codex_history_native.py, with their callers in session-isolation.sh and *)
(* aliases.zsh).                                                           *)
(*                                                                         *)
(* A home holds what was written to the conversation, as a set of writes.  *)
(* Snapshots are immutable.  A resume restores a snapshot into the home of *)
(* a new session and leaves a receipt that names it (the new home's        *)
(* lineage); the catalog decides from homes, snapshots and lineages which  *)
(* one continues the conversation.                                         *)
(***************************************************************************)
EXTENDS FiniteSets, Naturals

CONSTANTS Sessions,   \* isolated sessions, in the order they are created
          Launchers,  \* launcher processes that resume the conversation
          Keepers,    \* gc and protect-pool processes
          Canonical,  \* the home of the source repository itself
          App, Outsider,  \* writes of the Native app, of a process without a lease
          Nobody, None,
          MaxMishaps  \* bound: processes that die, writes of the app and the outsider

VARIABLES
  place,     \* where each home is: "none", "root", "tomb" or "gone"
  content,   \* what was written to each home
  terminal,  \* sessions whose journal is terminal
  lineage,   \* the snapshot each home was restored from
  snaps,     \* the snapshots of the store
  latest,    \* the last snapshot of each home, by the age of its content, then of its own
  lease,     \* holder of each session's runtime lease
  idLease,   \* holder of the conversation's lease
  run,       \* program counter and locals of each process
  written,   \* every write there was (history only)
  torn,      \* homes whose restore died before its receipt (history only)
  shorn,     \* homes whose removal died after something of the conversation was gone
  mishaps

homes == <<place, content, terminal, lineage>>
leases == <<lease, idLease>>
vars == <<homes, snaps, latest, leases, run, written, torn, shorn, mishaps>>

Homes == Sessions \cup {Canonical}
Procs == Launchers \cup Keepers
Idle == [at |-> "idle", home |-> None, before |-> {}, snap |-> None]
Snapshot(h, k, from) ==
  [source |-> h, content |-> k,
   from |-> IF from = None THEN None ELSE [source |-> from.source, content |-> from.content]]

\* The conversation began in the repository's own home or in a session that has ended.
Init ==
  /\ \E h \in {Canonical, 1} :
       /\ place = [x \in Homes |-> IF x \in {h, Canonical} THEN "root" ELSE "none"]
       /\ content = [x \in Homes |-> IF x = h THEN {h} ELSE {}]
       /\ terminal = {h} \ {Canonical} /\ written = {h}
  /\ lineage = [h \in Homes |-> None] /\ snaps = {} /\ latest = lineage
  /\ lease = [h \in Homes |-> Nobody] /\ idLease = Nobody
  /\ run = [p \in Procs |-> Idle] /\ torn = {} /\ shorn = {} /\ mishaps = 0

At(p, step) == run[p].at = step
Goes(p, step) == run' = [run EXCEPT ![p].at = step]
\* A process that ends or fails gives back whatever it holds.
Ends(p) ==
  /\ run' = [run EXCEPT ![p] = Idle]
  /\ lease' = [h \in Homes |-> IF lease[h] = p THEN Nobody ELSE lease[h]]
  /\ idLease' = IF idLease = p THEN Nobody ELSE idLease

-----------------------------------------------------------------------------
(* catalog: decide_entries for the one conversation  *)

Live == {h \in Homes : place[h] = "root" /\ content[h] # {}}
\* Every row with a lineage: the home it stands for and the snapshot that was restored there.
Lineages ==
  {[owner |-> h, parent |-> lineage[h]] : h \in {x \in Live : lineage[x] # None}}
  \cup {[owner |-> s.source, parent |-> s.from] : s \in {x \in snaps : x.from # None}}
\* An origin that still exists must be what was restored from it.
Faithful(l) ==
  /\ l.parent.source # l.owner
  /\ place[l.parent.source] = "root" => content[l.parent.source] = l.parent.content
LineageValid == \A l \in Lineages : Faithful(l)
Superseded == IF LineageValid THEN {l.parent.source : l \in Lineages} ELSE {}
Ambiguous == [status |-> "ambiguous", home |-> None, snap |-> None]
SnapshotOf(h) ==
  LET same == {s \in snaps : s.source = h /\ s.content = content[h]} IN
  IF same = {} THEN None ELSE CHOOSE s \in same : TRUE
\* Of snapshots of one home.
Latest(S) == latest[(CHOOSE s \in S : TRUE).source]
DecideHasty ==
  LET live == Live \ Superseded IN
  IF live # {} THEN LET h == CHOOSE x \in live : TRUE IN [status |-> "live", home |-> h, snap |-> SnapshotOf(h)]
  ELSE IF snaps = {} THEN Ambiguous
  ELSE [status |-> "snapshot", home |-> Latest(snaps).source, snap |-> Latest(snaps)]
Decide ==
  LET live0 == Live \ Superseded
      origins == {lineage[h].source : h \in {x \in live0 : lineage[x] # None}}
      live == IF Cardinality(live0 \ origins) = 1 THEN live0 \ origins ELSE live0
      archives == {s \in snaps : s.source \notin Superseded}
  IN
  IF ~LineageValid \/ Cardinality(live) > 1 THEN Ambiguous
  ELSE IF live # {} THEN
    LET h == CHOOSE x \in live : TRUE IN [status |-> "live", home |-> h, snap |-> SnapshotOf(h)]
  ELSE IF Cardinality({s.source : s \in archives}) = 1 THEN
    [status |-> "snapshot", home |-> Latest(archives).source, snap |-> Latest(archives)]
  ELSE Ambiguous
Resolved == Decide.status # "ambiguous"

-----------------------------------------------------------------------------
(* snapshot: inventory, copy, inventory again, publish by rename  *)

Inventoried(p, h) == [run EXCEPT ![p].at = "publish", ![p].home = h, ![p].before = content[h]]
\* A home that changed meanwhile, an active writer or a form nobody has characterized
\* refuses; publishing what is there already changes nothing.
Unchanged(p) == content[run[p].home] = run[p].before
\* A new snapshot is the latest of its home, but what is left of a home may be
\* older than what was archived of it.
Succeeds(s) ==
  IF s \in snaps THEN {latest[s.source]}
  ELSE {s} \cup (IF s.source \in shorn THEN {latest[s.source]} ELSE {})
Publish(p) ==
  /\ At(p, "publish") /\ UNCHANGED <<homes, written, torn, shorn, mishaps>>
  /\ LET h == run[p].home
         s == Snapshot(h, run[p].before, lineage[h])
     IN \/ Ends(p) /\ UNCHANGED <<snaps, latest>>
        \/ /\ Unchanged(p)
           /\ snaps' = snaps \cup {s}
           /\ \E t \in Succeeds(s) : latest' = [latest EXCEPT ![h] = t]
           /\ run' = [run EXCEPT ![p].at = IF p \in Keepers THEN "rename" ELSE "create",
                                     ![p].before = {}, ![p].snap = IF p \in Keepers THEN s ELSE None]
           /\ lease' = IF p \in Launchers /\ h # Canonical THEN [lease EXCEPT ![h] = Nobody] ELSE lease
           /\ UNCHANGED idLease

-----------------------------------------------------------------------------
(* gc's retire_native_root and protect_pool  *)

\* Terminal, and nobody holds the runtime lease.
Keep(p, h) ==
  /\ At(p, "idle") /\ place[h] = "root" /\ h \in terminal /\ lease[h] = Nobody
  /\ content[h] # {}
  /\ lease' = [lease EXCEPT ![h] = p]
  /\ run' = Inventoried(p, h)
  /\ UNCHANGED <<homes, snaps, latest, idLease, written, torn, shorn, mishaps>>
\* verify must see the original path disappear.
Rename(p) ==
  /\ At(p, "rename") /\ Goes(p, "verify")
  /\ place' = [place EXCEPT ![run[p].home] = "tomb"]
  /\ UNCHANGED <<content, terminal, lineage, snaps, latest, leases, written, torn, shorn, mishaps>>
\* verify: the retained source against the snapshot, before and after Native has read the
\* whole history from a restored copy.  Whatever fails puts the root back, and so does
\* protect-pool in any case.
Retained(p) == content[run[p].home] = run[p].snap.content
RetainedUnread(p) == TRUE
Proven(p) == Retained(p)
Verify(p) ==
  /\ At(p, "verify") /\ UNCHANGED <<content, terminal, lineage, snaps, latest, written, torn, shorn, mishaps>>
  /\ \/ Proven(p) /\ Goes(p, "remove") /\ UNCHANGED <<place, leases>>
     \/ place' = [place EXCEPT ![run[p].home] = "root"] /\ Ends(p)
Remove(p) ==
  /\ At(p, "remove") /\ Ends(p)
  /\ place' = [place EXCEPT ![run[p].home] = "gone"]
  /\ content' = [content EXCEPT ![run[p].home] = {}]
  /\ UNCHANGED <<terminal, lineage, snaps, latest, written, torn, shorn, mishaps>>
\* A tomb whose keeper died goes back, under its lease, before anything is retired.
RecoverTomb(h) ==
  /\ place[h] = "tomb" /\ lease[h] = Nobody /\ h \in terminal
  /\ place' = [place EXCEPT ![h] = "root"]
  /\ UNCHANGED <<content, terminal, lineage, snaps, latest, leases, run, written, torn, shorn, mishaps>>

-----------------------------------------------------------------------------
(* A resume: select, lease, prepare, create, select again, restore  *)

Select(p) ==
  /\ At(p, "idle") /\ Resolved
  /\ run' = [run EXCEPT ![p] = [Idle EXCEPT !.at = "lease", !.snap = Decide.snap]]
  /\ UNCHANGED <<homes, snaps, latest, leases, written, torn, shorn, mishaps>>
TakeIdLease(p) ==
  /\ At(p, "lease") /\ UNCHANGED <<homes, snaps, latest, lease, written, torn, shorn, mishaps>>
  /\ IF idLease = Nobody
     THEN /\ idLease' = p
          /\ run' = [run EXCEPT ![p].at = IF run[p].snap = None THEN "prepare" ELSE "create"]
     ELSE run' = [run EXCEPT ![p] = Idle] /\ UNCHANGED idLease
\* prepare decides anew; a live session must be terminal and its lease free.
Prepare(p) ==
  /\ At(p, "prepare") /\ UNCHANGED <<homes, snaps, latest, written, torn, shorn, mishaps>>
  /\ LET row == Decide IN
     IF ~Resolved THEN Ends(p)
     ELSE IF row.status = "snapshot" THEN Goes(p, "create") /\ UNCHANGED leases
     ELSE IF row.home = Canonical THEN run' = Inventoried(p, Canonical) /\ UNCHANGED leases
     ELSE IF row.home \in terminal /\ lease[row.home] = Nobody
     THEN /\ run' = Inventoried(p, row.home)
          /\ lease' = [lease EXCEPT ![row.home] = p] /\ UNCHANGED idLease
     ELSE Ends(p)
\* What was prepared is selected, then a fresh session is made for it.
Create(p) ==
  /\ At(p, "create")
  /\ LET snap == IF run[p].snap # None THEN run[p].snap ELSE Decide.snap IN
     IF snap = None THEN Ends(p) /\ UNCHANGED place
     ELSE \E s \in Sessions :
       /\ place[s] = "none" /\ (\A r \in Sessions : r < s => place[r] # "none")
       /\ place' = [place EXCEPT ![s] = "root"]
       /\ lease' = [lease EXCEPT ![s] = p] /\ UNCHANGED idLease
       /\ run' = [run EXCEPT ![p].at = "restore", ![p].home = s, ![p].snap = snap]
  /\ UNCHANGED <<content, terminal, lineage, snaps, latest, written, torn, shorn, mishaps>>
\* The catalog is consulted again: what was selected must still be the answer.
Current(p) == Resolved /\ Decide.snap = run[p].snap
CurrentUnread(p) == TRUE
Selected(p) == Current(p)
\* restore copies file by file into the home, then writes the receipt; it refuses a form
\* whose active rollout cannot be told for certain.
Restore(p) ==
  /\ At(p, "restore") /\ UNCHANGED <<place, terminal, lineage, snaps, latest, written, torn, shorn, mishaps>>
  /\ \/ /\ Selected(p) /\ Goes(p, "receipt") /\ UNCHANGED leases
        /\ content' = [content EXCEPT ![run[p].home] = run[p].snap.content]
     \/ Ends(p) /\ UNCHANGED content
Receipt(p) ==
  /\ At(p, "receipt") /\ run' = [run EXCEPT ![p].at = "run", ![p].snap = None]
  /\ lineage' = [lineage EXCEPT ![run[p].home] = run[p].snap]
  /\ UNCHANGED <<place, content, terminal, snaps, latest, leases, written, torn, shorn, mishaps>>

-----------------------------------------------------------------------------
(* Writers, and mishaps  *)

Mishap == mishaps < MaxMishaps /\ mishaps' = mishaps + 1
Adds(h, w) == content' = [content EXCEPT ![h] = @ \cup {w}] /\ written' = written \cup {w}
Work(p) ==
  /\ At(p, "run") /\ Adds(run[p].home, run[p].home)
  /\ UNCHANGED <<place, terminal, lineage, snaps, latest, leases, run, torn, shorn, mishaps>>
Finish(p) ==
  /\ At(p, "run") /\ Ends(p) /\ terminal' = terminal \cup {run[p].home}
  /\ UNCHANGED <<place, content, lineage, snaps, latest, written, torn, shorn, mishaps>>
\* The app continues the conversation in the repository's own home.
AppWrites ==
  /\ content[Canonical] # {} /\ Mishap /\ Adds(Canonical, App)
  /\ UNCHANGED <<place, terminal, lineage, snaps, latest, leases, run, torn, shorn>>
\* Something that has no lease finds a session's home by its path.
OutsiderWrites(h) ==
  /\ h # Canonical /\ place[h] = "root" /\ content[h] # {}
  /\ Mishap /\ Adds(h, Outsider)
  /\ UNCHANGED <<place, terminal, lineage, snaps, latest, leases, run, torn, shorn>>
\* A death in the middle of a restore or of rm -rf leaves the files that are there.
Dies(p) ==
  /\ ~At(p, "idle") /\ Mishap /\ Ends(p)
  /\ LET h == run[p].home IN
     \/ /\ At(p, "receipt") /\ torn' = torn \cup {h} /\ UNCHANGED shorn
        /\ \E k \in SUBSET run[p].snap.content :
             content' = [content EXCEPT ![h] = k \cup (@ \ run[p].snap.content)]
     \/ /\ At(p, "remove") /\ UNCHANGED torn
        /\ \E k \in SUBSET content[h] :
             /\ content' = [content EXCEPT ![h] = k]
             /\ shorn' = IF k = content[h] THEN shorn ELSE shorn \cup {h}
     \/ run[p].at \notin {"receipt", "remove"} /\ UNCHANGED <<content, torn, shorn>>
  /\ UNCHANGED <<place, terminal, lineage, snaps, latest, written>>
\* The record of a dead session is settled by its recovery.
Settle(s) ==
  /\ place[s] = "root" /\ lease[s] = Nobody /\ s \notin terminal
  /\ terminal' = terminal \cup {s}
  /\ UNCHANGED <<place, content, lineage, snaps, latest, leases, run, written, torn, shorn, mishaps>>

Step(p) ==
  \/ Publish(p)
  \/ p \in Keepers /\ (Rename(p) \/ Verify(p) \/ Remove(p) \/ \E h \in Sessions : Keep(p, h))
  \/ p \in Launchers /\ (\/ Select(p) \/ TakeIdLease(p) \/ Prepare(p) \/ Create(p) \/ Restore(p)
                         \/ Receipt(p) \/ Work(p) \/ Finish(p))
  \/ Dies(p)
Next ==
  \/ \E p \in Procs : Step(p)
  \/ \E s \in Sessions : RecoverTomb(s) \/ OutsiderWrites(s) \/ Settle(s)
  \/ AppWrites

Spec == Init /\ [][Next]_vars

\* What can be written, and the snapshots of it.
Writes == Homes \cup {App, Outsider}
Origins == [source : Homes, content : SUBSET Writes]
Snapshots == [source : Homes, content : SUBSET Writes, from : Origins \cup {None}]
\* What the theorems assume: finitely many sessions, the first of which is 1, and distinct names.
HistoryAssumption ==
  /\ IsFiniteSet(Sessions) /\ Sessions \subseteq Nat \ {0} /\ 1 \in Sessions
  /\ Canonical \notin Sessions /\ {App, Outsider} \cap (Sessions \cup {Canonical}) = {} /\ App # Outsider
  /\ Launchers \cap Keepers = {} /\ Nobody \notin Launchers \cup Keepers
  /\ None \notin Homes /\ None \notin Snapshots /\ None \notin Origins

-----------------------------------------------------------------------------
(* Properties *)

HistoryTypeOK ==
  /\ \A h \in Homes : content[h] \subseteq written /\ (place[h] \in {"none", "gone"} => content[h] = {})
  /\ \A h \in Homes : place[h] = "tomb" => h \in terminal
  /\ \A s \in snaps : s.content # {} /\ s.source \in Homes
  /\ \A s \in Sessions : lineage[s] # None => lineage[s] \in snaps

\* retire_native_root and verify: nothing that was written to the conversation is lost with
\* a home, whoever wrote it, whenever the keeper dies.
NoHistoryLost ==
  written = UNION ({content[h] : h \in Homes} \cup {s.content : s \in snaps})

\* docs/codex-history.md, "A Native UUID lease spans preparation, fresh creation and Native
\* exit": sessions continue the conversation one after the other, they do not fork it.
\* (What is left of a home that rm -rf had begun with is given back as if it were all.)
ForkFree ==
  torn = {} /\ shorn = {} =>
    \A k, m \in {content[h] : h \in Homes} \cup {s.content : s \in snaps} :
      k \cap Sessions \subseteq m \/ m \cap Sessions \subseteq k

\* "No shortened resume [...] is permitted": what the catalog answers while nobody resumes
\* has everything that sessions and the app have written.  (A restore that died between its
\* first file and its receipt is a known limit.)
ResumeWhole ==
  idLease = Nobody /\ torn = {} /\ Resolved =>
    written \ {Outsider} \subseteq
      IF Decide.status = "live" THEN content[Decide.home] ELSE Decide.snap.content

\* It is so as long as no keeper was killed in the middle of removing a home.
CatalogComplete == shorn = {} => ResumeWhole

HistorySafe == NoHistoryLost /\ ForkFree /\ CatalogComplete
=============================================================================
