---------------------------- MODULE OmpEnrollment ----------------------------
(***************************************************************************)
(* The OMP enrollment of bin/harness_omp_projection.py: the index names    *)
(* the enrolled profiles, the state file holds their rows, and each entry  *)
(* of the index joins the digest and the generation of its row.  Publisher *)
(* replaces the two files one after the other under writer.lock; a         *)
(* selector takes no lock and reads the index twice.                       *)
(*                                                                         *)
(* A digest is the value digested.  A device number changes at a reboot,   *)
(* the binary and the launcher release when they are replaced.             *)
(***************************************************************************)
EXTENDS Naturals, Sequences, FiniteSets, OmpDevices

CONSTANTS Profiles, Controllers, None,
          Watched, \* the profiles the selector asks for
          Publishers, \* the controllers that publish; all of them block
          MaxOps   \* publications and blocks begun

VARIABLES
  root,     \* how far prepare has come
  index,    \* enrollment.json
  state,    \* state.json
  writer,   \* the holder of writer.lock and the writes it has still to do
  ctl,      \* per controller: the token, the row it captured, the operation to answer, and
            \* what had landed when it read the token (history only)
  sel,      \* one selector; was and clean, history only: the last operation told of,
            \* and whether the two files joined and stayed
  live,     \* what the machine is now: binary, launcher release, device
  acked,    \* per profile: the last operation a controller was told of (history only)
  torn,     \* state.json is ahead of its index (history only)
  landed,   \* the rows whose publication reached its last write (history only)
  ops       \* operations begun

vars == <<root, index, state, writer, ctl, sel, live, acked, torn, landed, ops>>

Idle == [token |-> None, bin |-> 0, rev |-> 0, known |-> None, answer |-> None]
Resting == [at |-> "idle", name |-> None, index |-> None, state |-> None, row |-> None, was |-> None, clean |-> FALSE]
Never == [eg |-> 0, lane |-> None]
Empty == [gen |-> 0, rows |-> [n \in Profiles |-> None]]
Active == {"BOOTSTRAP_ACTIVE", "SSOT_ACTIVE"}

Init ==
  /\ root = "absent" /\ index = None /\ state = Empty /\ writer = None
  /\ ctl = [c \in Controllers |-> Idle] /\ sel = Resting
  /\ live = [bin |-> 1, rev |-> 1, dev |-> 1]
  /\ acked = [n \in Profiles |-> Never] /\ torn = FALSE /\ landed = {} /\ ops = 0

\* First rollout, once: a directory that exists is never adopted, so a prepare
\* that died stays where it stopped.
Prepare ==
  /\ root # "ready"
  /\ root' = [absent |-> "made", made |-> "locked", locked |-> "ready"][root]
  /\ index' = IF root = "locked" THEN [gen |-> 1, dev |-> live.dev, entries |-> [n \in Profiles |-> None]] ELSE index
  /\ UNCHANGED <<state, writer, ctl, sel, live, acked, torn, landed, ops>>

-----------------------------------------------------------------------------
(* Rows and the join of the two files *)

Enrolled(i) == {n \in Profiles : i.entries[n] # None}

\* The part of the join a selector of one profile asks for.
Joins(i, s, n) ==
  LET e == i.entries[n] row == s.rows[n] IN
    /\ row # None /\ e.row = row /\ e.pg = s.gen /\ e.eg = row.eg

\* records: a pair that failed half way is no base for a publication.
Joined(i, s) ==
  /\ {n \in Profiles : s.rows[n] # None} = Enrolled(i)
  /\ \A n \in Enrolled(i) : Joins(i, s, n)

Records == root = "ready" /\ Joined(index, state)

\* The identities on record against those of now: of the host in the index, of the
\* profile's root and registry entry and of the namespace in the row.
Host(i) == <<i.dev, live.dev>>
Profile(row) == <<row.dev, live.dev>>
Namespace(row) == <<row.dev, live.dev>>
Chained == {live.dev}   \* all of it is on the volume of the home directory

BinaryBinding(row) == row.bin = live.bin
LauncherBinding(row) == row.rev = live.rev

\* validate_selected.  One mapping of devices serves all of a selection; the release
\* in the row is of the publication, and readers do not compare it.
Valid(row, i) ==
  /\ row.lane \in Active /\ BinaryBinding(row)
  /\ Matches(<<Host(i), Profile(row), Namespace(row)>>, Chained)

\* A row as a controller captured it: a retired bootstrap goes with the shared lane.
CaptureRow(c, n, lane, eg) ==
  [name |-> n, lane |-> lane, eg |-> eg, retired |-> lane = "SSOT_ACTIVE",
   bin |-> ctl[c].bin, rev |-> ctl[c].rev, dev |-> live.dev]

CommitAlone(i, s) ==
  LET st == [s EXCEPT !.gen = @ + 1]
      entry(n) == [i.entries[n] EXCEPT !.pg = IF i.entries[n].row = st.rows[n] THEN @ ELSE st.gen, !.row = st.rows[n]]
  IN [state |-> st,
      index |-> [i EXCEPT !.gen = @ + 1,
                          !.entries = [n \in Profiles |-> IF n \in Enrolled(i) THEN entry(n) ELSE None]]]

\* What commit_pair writes: every join moves with the shared generation.
Commit(i, s) ==
  LET st == [s EXCEPT !.gen = @ + 1]
      entry(n) == [i.entries[n] EXCEPT !.pg = st.gen, !.row = st.rows[n]]
  IN [state |-> st,
      index |-> [i EXCEPT !.gen = @ + 1,
                          !.entries = [n \in Profiles |-> IF n \in Enrolled(i) THEN entry(n) ELSE None]]]

-----------------------------------------------------------------------------
(* Controllers *)

\* token and capture_row.
Plan(c) ==
  /\ Records /\ ctl[c].answer = None /\ ops < MaxOps
  /\ ctl' = [ctl EXCEPT ![c] = [token |-> <<index, state>>, bin |-> live.bin, rev |-> live.rev,
                                known |-> landed, answer |-> None]]
  /\ ctl' # ctl
  /\ UNCHANGED <<root, index, state, writer, sel, live, acked, torn, landed, ops>>

CurrentJoined(c) == Records

\* The lock is free and the pair is still the one the token names.
Current(c) == Records /\ ctl[c].token = <<index, state>>

Admitted(c) ==
  /\ ops < MaxOps /\ writer = None /\ ctl[c].answer = None /\ ctl[c].token # None /\ Current(c)

Begin(c, row, writes) ==
  /\ writer' = [by |-> c, row |-> row, writes |-> writes]
  /\ ops' = ops + 1
  /\ UNCHANGED <<root, index, state, ctl, sel, live, acked, torn, landed>>

MayFollowRevoked(e, prior, lane, legacy) ==
  /\ prior.retired => lane = "SSOT_ACTIVE"
  /\ lane = "SSOT_ACTIVE" => e.disposition = "BLOCKED"
  /\ e.legacy => legacy

\* What may follow the row on record: nothing revoked comes back, a retired lane
\* stays retired, the shared lane is reached from a block only.
MayFollow(e, prior, lane, legacy) ==
  /\ e.disposition # "REVOKED"
  /\ prior.retired => lane = "SSOT_ACTIVE"
  /\ lane = "SSOT_ACTIVE" => e.disposition = "BLOCKED"
  /\ e.legacy => legacy

Publish(c, n, lane, legacy) ==
  LET e == index.entries[n]
      row == CaptureRow(c, n, lane, IF e = None THEN 1 ELSE e.eg + 1)
      entry == [disposition |-> "ACTIVE", eg |-> row.eg, row |-> row, pg |-> 0, legacy |-> legacy]
      pair == Commit([index EXCEPT !.entries[n] = entry], [state EXCEPT !.rows[n] = row])
  IN /\ c \in Publishers /\ Admitted(c)
     /\ Valid(row, index) /\ LauncherBinding(row)
     /\ IF e = None THEN lane = "BOOTSTRAP_ACTIVE" ELSE MayFollow(e, state.rows[n], lane, legacy)
     /\ legacy => lane = "SSOT_ACTIVE"
     /\ Begin(c, row, <<<<"state", pair.state>>, <<"index", pair.index>>>>)

\* The index is closed to selectors before the row is touched.
Block(c, n, disposition) ==
  LET e == index.entries[n]
      prior == state.rows[n]
      row == [name |-> n, lane |-> IF disposition = "REVOKED" THEN "REVOKED" ELSE "TRANSITION_BLOCKED", eg |-> e.eg + 1,
              retired |-> prior.retired, bin |-> 0, rev |-> 0, dev |-> prior.dev]
      closed == [index EXCEPT !.entries[n] = [@ EXCEPT !.disposition = disposition, !.eg = @ + 1], !.gen = @ + 1]
      pair == Commit(closed, [state EXCEPT !.rows[n] = row])
  IN /\ Admitted(c) /\ e # None /\ e.disposition # "REVOKED"
     /\ Begin(c, row, <<<<"index", closed>>, <<"state", pair.state>>, <<"index", pair.index>>>>)

\* atomic_json: one file replaced.  With the last one the lock goes; the token of
\* the answer is read after that.
Write ==
  /\ writer # None
  /\ LET w == Head(writer.writes) last == Len(writer.writes) = 1 IN
       /\ index' = IF w[1] = "index" THEN w[2] ELSE index
       /\ state' = IF w[1] = "state" THEN w[2] ELSE state
       /\ writer' = IF last THEN None ELSE [writer EXCEPT !.writes = Tail(@)]
       /\ ctl' = IF last THEN [ctl EXCEPT ![writer.by] = [Idle EXCEPT !.answer = writer.row]] ELSE ctl
       /\ torn' = (w[1] = "state")
       /\ landed' = IF last THEN landed \cup {writer.row} ELSE landed
  /\ UNCHANGED <<root, sel, live, acked, ops>>

\* publish and block answer the token of now; it raises while another writes.
Answer(c) ==
  LET row == ctl[c].answer IN
    /\ row # None
    /\ IF Records
       THEN /\ acked' = IF row.eg > acked[row.name].eg THEN [acked EXCEPT ![row.name] = [eg |-> row.eg, lane |-> row.lane]] ELSE acked
            /\ ctl' = [ctl EXCEPT ![c] = [Idle EXCEPT !.token = <<index, state>>, !.bin = live.bin, !.rev = live.rev, !.known = landed]]
       ELSE ctl' = [ctl EXCEPT ![c] = Idle] /\ UNCHANGED acked
    /\ UNCHANGED <<root, index, state, writer, sel, live, torn, landed, ops>>

Crash ==
  /\ writer # None
  /\ ctl' = [ctl EXCEPT ![writer.by] = Idle] /\ writer' = None
  /\ UNCHANGED <<root, index, state, sel, live, acked, torn, landed, ops>>
-----------------------------------------------------------------------------
(* A selector *)

Ends == {"answered", "stopped"}

SelectIndex(n) ==
  /\ sel.at = "idle" /\ root = "ready"
  /\ sel' = [at |-> IF index.entries[n] = None THEN "again"
                    ELSE IF index.entries[n].disposition = "ACTIVE" THEN "row" ELSE "stopped",
             name |-> n, index |-> index, state |-> state, row |-> None, was |-> acked[n], clean |-> ~torn]
  /\ UNCHANGED <<root, index, state, writer, ctl, live, acked, torn, landed, ops>>

SelectableActive(i, s, n) == s.rows[n] # None /\ Valid(s.rows[n], i)

\* The join of select: the row of this profile, by its digest and generations.
Selectable(i, s, n) == Joins(i, s, n) /\ Valid(s.rows[n], i)

SelectRow ==
  /\ sel.at = "row"
  /\ sel' = IF Selectable(sel.index, state, sel.name)
            THEN [sel EXCEPT !.at = "again", !.row = state.rows[sel.name]]
            ELSE [sel EXCEPT !.at = "stopped", !.clean = @ /\ index = sel.index /\ state = sel.state]
  /\ UNCHANGED <<root, index, state, writer, ctl, live, acked, torn, landed, ops>>

UnchangedNever == TRUE

Unchanged == index = sel.index

SelectAgain ==
  /\ sel.at = "again"
  /\ sel' = [sel EXCEPT !.at = IF Unchanged THEN "answered" ELSE "stopped",
                          !.was = acked[sel.name], !.clean = FALSE]
  /\ UNCHANGED <<root, index, state, writer, ctl, live, acked, torn, landed, ops>>

-----------------------------------------------------------------------------
(* The machine *)

\* Once: a reviewed activation of another release, another binary, or a reboot.
Same == live = [bin |-> 1, rev |-> 1, dev |-> 1]

Replace ==
  /\ Same /\ live' \in {[live EXCEPT !.rev = 2], [live EXCEPT !.bin = 2]}
  /\ UNCHANGED <<root, index, state, writer, ctl, sel, acked, torn, landed, ops>>

Reboot ==
  /\ Same /\ live' = [live EXCEPT !.dev = 2]
  /\ writer' = None /\ ctl' = [c \in Controllers |-> Idle] /\ sel' = Resting
  /\ UNCHANGED <<root, index, state, acked, torn, landed, ops>>

Step ==
  \/ Prepare \/ Write \/ Crash \/ SelectRow \/ SelectAgain \/ Replace \/ Reboot
  \/ \E n \in Watched : SelectIndex(n)
  \/ \E c \in Controllers :
       \/ Plan(c) \/ Answer(c)
       \/ \E n \in Profiles :
            \/ \E lane \in Active, legacy \in BOOLEAN : Publish(c, n, lane, legacy)
            \/ \E d \in {"BLOCKED", "REVOKED"} : Block(c, n, d)

\* A selector changes no file: every behaviour is looked at up to the end of one.
Next == sel.at \notin Ends /\ Step

-----------------------------------------------------------------------------
(* Properties *)

EnrollmentTypeOK ==
  /\ root \in {"absent", "made", "locked", "ready"} /\ (index = None) = (root # "ready")
  /\ state.gen \in 0..MaxOps /\ (index # None => index.gen \in 1..(2 * MaxOps + 1))
  /\ writer # None => writer.by \in Controllers /\ Len(writer.writes) \in 1..3
  /\ sel.at \in {"idle", "row", "again"} \cup Ends /\ ops \in 0..MaxOps

\* What select answers was in force when it read the index for the last time: the
\* row's publication was complete and no operation a controller was told of came
\* after it; the answer "never enrolled" is given of no profile that was.
SelectedInForce ==
  sel.at = "answered" =>
    IF sel.row = None THEN sel.was = Never
    ELSE /\ sel.row \in landed /\ sel.row.eg >= sel.was.eg
         /\ sel.row.eg = sel.was.eg => sel.was.lane = sel.row.lane

\* A stop has a cause of its own profile: unless the state file is ahead of its
\* index or one of the two was replaced meanwhile, select refuses a blocked or
\* revoked profile and a binary that is another, whatever became of other profiles.
StopsForCause ==
  sel.at = "stopped" /\ sel.clean =>
    \/ sel.index.entries[sel.name].disposition # "ACTIVE"
    \/ sel.state.rows[sel.name].bin # live.bin

\* A controller that writes had read every operation completed before: none is
\* undone by one that did not know it.
BuiltOnAll == writer # None => ctl[writer.by].known = landed

\* No sequence of operations, by any controllers, brings a revoked profile or a
\* retired lane back, and the shared lane follows a block at once.
Irreversible ==
  \A r, q \in landed : r.name = q.name /\ r.eg < q.eg =>
    /\ r.lane # "REVOKED"
    /\ r.retired => q.retired
    /\ q.lane = "SSOT_ACTIVE" /\ q.eg = r.eg + 1 => r.lane = "TRANSITION_BLOCKED"

\* DevMap accepts what one mapping of devices explains, in whatever order the
\* identities are compared (a fact of the operator: looked at before the rollout).
OrderOfDevices ==
  root = "absent" =>
    \A chained \in SUBSET (1..3) : \A n \in 1..3 : \A pairs \in [1..n -> (1..3) \X (1..3)] :
      Matches(pairs, chained) = OneMapping(pairs, chained)

EnrollmentHolds == SelectedInForce /\ StopsForCause /\ BuiltOnAll /\ Irreversible /\ OrderOfDevices
=============================================================================
