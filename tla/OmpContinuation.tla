--------------------------- MODULE OmpContinuation ---------------------------
(***************************************************************************)
(* One OMP continuation (bin/harness_omp_continuation.py, driven by        *)
(* _harness_launcher_omp_continuation of bin/aliases.zsh): a workspace     *)
(* whose native session file a later launch resumes by its handle.         *)
(*                                                                         *)
(* A run is one launch: the launcher, the metadata helper it starts and    *)
(* the native program.  Killing the launcher frees its workspace lease and *)
(* leaves the other two, so a helper may act for a launcher that is gone,  *)
(* and a native may start or go on working.                                *)
(***************************************************************************)
EXTENDS Naturals, Sequences, FiniteSets, OmpDevices

CONSTANTS Runs, None, Failed,
          MaxKills  \* launchers killed

VARIABLES
  record,    \* omp-continuation.json; its nonce is the run of the admission, 0 of the creation
  prepared,  \* the sessions directory of the handle is made
  files,     \* the session files in it, by the run whose native made them
  lease,     \* the workspace lease, of the launcher
  lock,      \* native.lock, of the native itself
  run,       \* per run: its launcher and what that knows
  helper,    \* per run: the metadata operation under way
  native,    \* per run: its native
  exit,      \* per run: how its native ended
  runtime,   \* the release selected now, and the one the session is bound to
  dev,       \* the device number of workspace, lock, namespace and session file
  kills

vars == <<record, prepared, files, lease, lock, run, helper, native, exit, runtime, dev, kills>>

Idle == [at |-> "idle", mode |-> None, release |-> 0, own |-> None, answer |-> None]

\* initial_record, after the ordinary begin of the workspace.
InitialRecord == [status |-> "PENDING", nonce |-> 0, native |-> None, origin |-> 1]

Init ==
  /\ record = InitialRecord /\ prepared = FALSE /\ files = {} /\ lease = None /\ lock = None
  /\ run = [r \in Runs |-> Idle] /\ helper = [r \in Runs |-> None]
  /\ native = [r \in Runs |-> "none"] /\ exit = [r \in Runs |-> None]
  /\ runtime = [current |-> 1, bound |-> 1] /\ dev = 1 /\ kills = 0

-----------------------------------------------------------------------------
(* What the record and the directory must show *)

\* binding: the identities of now of workspace, lock and namespace.
Binding == [k \in 1..3 |-> dev]

OriginEqual(row) == row.origin = dev

\* origin_matches: workspace, lock and namespace under one mapping of devices.
OriginMatches(row) == Matches([k \in DOMAIN Binding |-> <<row.origin, Binding[k]>>], {dev})

\* current_context: the projection answers the release selected now and no other.
CurrentContext(r) == run[r].release = runtime.current

\* load_record.
Loads(r, row) == CurrentContext(r) /\ OriginMatches(row)

\* inspect_native: exactly one session file.
Inspected == Cardinality(files) = 1
Observed == [id |-> CHOOSE f \in files : TRUE, dev |-> dev]

\* same_native, when an identity is on record.
SameNative(row) ==
  row.native # None => row.native.id = Observed.id /\ Matches(<<<<row.native.dev, dev>>>>, {dev})

AdmitsFinished(row) == row.status \in {"READY", "BLOCKED"} /\ Inspected /\ SameNative(row)

\* RESUME_ADMIT takes any state with one eligible session file.
Admits(row) == Inspected /\ SameNative(row)

Admission(r, row) ==
  [row EXCEPT !.status = "IN_FLIGHT", !.nonce = r, !.native = Observed]

\* FINALIZE of a native that ended with `rc`; an identity that does not fit is not bound.
Finalized(row, rc) ==
  LET fits == Inspected /\ SameNative(row) IN
    [row EXCEPT !.status = IF rc = 0 /\ fits THEN "READY" ELSE "BLOCKED",
                !.native = IF fits THEN Observed ELSE @]

-----------------------------------------------------------------------------
(* The launcher *)

Goes(r, at) == run' = [run EXCEPT ![r].at = at]
Frees(r) == lease' = IF lease = r THEN None ELSE lease
Over(r) == run' = [run EXCEPT ![r] = [run[r] EXCEPT !.at = "over", !.own = None, !.answer = None]]
Ends(r) == Over(r) /\ Frees(r)
Spawns(r, op, own) ==
  helper' = [helper EXCEPT ![r] = [op |-> op, at |-> "spawned", own |-> own, base |-> None, row |-> None]]

\* The handle is new in one launch, and a later one resumes it by the handle.
Launch(r) ==
  /\ run[r].at = "idle"
  /\ run' = [run EXCEPT ![r] = [Idle EXCEPT !.at = "starts", !.release = runtime.current,
                                            !.mode = IF \A q \in Runs : run[q].mode # "new" THEN "new" ELSE "resume"]]
  /\ UNCHANGED <<record, prepared, files, lease, lock, helper, native, exit, runtime, dev, kills>>

\* rebind_stale: under the workspace lock and the native lock, both free.
Rebind(r) ==
  /\ run[r].at = "starts" /\ run[r].mode = "resume" /\ runtime.bound # runtime.current
  /\ IF Loads(r, record) /\ lease = None /\ lock = None
     THEN runtime' = [runtime EXCEPT !.bound = runtime.current] /\ UNCHANGED run
     ELSE Over(r) /\ UNCHANGED runtime
  /\ UNCHANGED <<record, prepared, files, lease, lock, helper, native, exit, dev, kills>>

Lease(r) ==
  /\ run[r].at = "starts" /\ (run[r].mode = "new" \/ runtime.bound = runtime.current)
  /\ IF lease = None THEN lease' = r /\ Goes(r, "leased") ELSE Over(r) /\ UNCHANGED lease
  /\ UNCHANGED <<record, prepared, files, lock, helper, native, exit, runtime, dev, kills>>

\* A native whose launcher died holds the lock: refused before any transition.
Probe(r) ==
  /\ run[r].at = "leased"
  /\ IF lock = None
     THEN /\ Spawns(r, IF run[r].mode = "new" THEN "NEW_PREPARE" ELSE "RESUME_ADMIT", None)
          /\ Goes(r, "admitting") /\ UNCHANGED lease
     ELSE Ends(r) /\ UNCHANGED helper
  /\ UNCHANGED <<record, prepared, files, lock, native, exit, runtime, dev, kills>>

\* The answer of a helper to the launcher that waits for it.
Takes(r) ==
  /\ run[r].answer # None
  /\ CASE run[r].answer = Failed -> Ends(r) /\ UNCHANGED <<helper, native>>
       [] run[r].at = "admitting" ->
            /\ run' = [run EXCEPT ![r].at = "resolving", ![r].own = run[r].answer, ![r].answer = None]
            /\ Spawns(r, "RESOLVE", run[r].answer) /\ UNCHANGED <<lease, native>>
       [] run[r].at = "resolving" ->
            \* the argv may still be refused: finalized as a native that ended with 2
            \/ /\ run' = [run EXCEPT ![r].at = "running", ![r].answer = None]
               /\ native' = [native EXCEPT ![r] = "starting"] /\ UNCHANGED <<lease, helper>>
            \/ /\ run' = [run EXCEPT ![r].at = "finalizing", ![r].answer = None]
               /\ Spawns(r, "FINALIZE", run[r].own) /\ UNCHANGED <<lease, native>>
       [] run[r].at = "finalizing" -> Ends(r) /\ UNCHANGED <<helper, native>>
  /\ UNCHANGED <<record, prepared, files, lock, exit, runtime, dev, kills>>

Waits(r) ==
  /\ run[r].at = "running" /\ native[r] = "gone"
  /\ Spawns(r, "FINALIZE", run[r].own) /\ Goes(r, "finalizing")
  /\ UNCHANGED <<record, prepared, files, lease, lock, native, exit, runtime, dev, kills>>

\* Its file locks die with a process: the launcher's is the lease alone.
FreedLock(r) == IF lock = r THEN None ELSE lock
Freed(r) == lock

Kill(r) ==
  /\ kills < MaxKills /\ run[r].at \notin {"idle", "over"}
  /\ Ends(r) /\ lock' = Freed(r) /\ kills' = kills + 1
  /\ UNCHANGED <<record, prepared, files, helper, native, exit, runtime, dev>>

-----------------------------------------------------------------------------
(* The metadata helper: operate *)

Finishes(r, answer) ==
  /\ helper' = [helper EXCEPT ![r] = None]
  /\ run' = IF run[r].at = "over" THEN run ELSE [run EXCEPT ![r].answer = answer]

FreshAny(r) == TRUE

\* The record must be the one its launcher knows, by digest and nonce; an
\* admission starts from the record the helper finds.
Fresh(r) == helper[r].own \in {None, record}

Reads(r, row) ==
  /\ helper' = [helper EXCEPT ![r].at = "read", ![r].base = record, ![r].row = row]
  /\ UNCHANGED <<run, prepared>>

Operate(r) ==
  LET h == helper[r]
      rc == IF exit[r] = None THEN 2 ELSE exit[r] IN
    /\ h # None /\ h.at = "spawned"
    /\ IF ~(Loads(r, record) /\ Fresh(r)) THEN Finishes(r, Failed) /\ UNCHANGED prepared
       ELSE CASE h.op = "NEW_PREPARE" ->
                   IF record.status = "PENDING" /\ record.native = None /\ ~prepared
                   THEN prepared' = TRUE /\ Finishes(r, record)
                   ELSE Finishes(r, Failed) /\ UNCHANGED prepared
              [] h.op = "RESUME_ADMIT" ->
                   IF Admits(record) THEN Reads(r, Admission(r, record))
                   ELSE Finishes(r, Failed) /\ UNCHANGED prepared
              [] h.op = "RESOLVE" ->
                   /\ IF \/ record.status = "PENDING" /\ prepared
                         \/ record.status = "IN_FLIGHT" /\ Admits(record)
                      THEN Finishes(r, record) ELSE Finishes(r, Failed)
                   /\ UNCHANGED prepared
              [] h.op = "FINALIZE" ->
                   IF record.status \in {"PENDING", "IN_FLIGHT"} THEN Reads(r, Finalized(record, rc))
                   ELSE Finishes(r, Failed) /\ UNCHANGED prepared
    /\ UNCHANGED <<record, files, lease, lock, native, exit, runtime, dev, kills>>

\* replace_record reads the record once more when the new one is written ...
Compared(r) == record = helper[r].base

Recheck(r) ==
  /\ helper[r] # None /\ helper[r].at = "read"
  /\ IF Compared(r) THEN helper' = [helper EXCEPT ![r].at = "checked"] /\ UNCHANGED run
                    ELSE Finishes(r, Failed)
  /\ UNCHANGED <<record, prepared, files, lease, lock, native, exit, runtime, dev, kills>>

\* ... and puts it in place.  FINALIZE then fails if the file did not fit.
Replace(r) ==
  /\ helper[r] # None /\ helper[r].at = "checked"
  /\ record' = helper[r].row
  /\ Finishes(r, IF helper[r].op = "FINALIZE" /\ helper[r].row.status # "READY" THEN Failed ELSE helper[r].row)
  /\ UNCHANGED <<prepared, files, lease, lock, native, exit, runtime, dev, kills>>

-----------------------------------------------------------------------------
(* The native *)

\* It takes native.lock before it becomes the program, and keeps it to its end.
NativeLock(r) ==
  /\ native[r] = "starting"
  /\ IF lock = None THEN lock' = r /\ native' = [native EXCEPT ![r] = "working"] /\ UNCHANGED exit
     ELSE native' = [native EXCEPT ![r] = "gone"] /\ exit' = [exit EXCEPT ![r] = 2] /\ UNCHANGED lock
  /\ UNCHANGED <<record, prepared, files, lease, run, helper, runtime, dev, kills>>

\* A new session's file, or one more: the native program may fork its session.
NativeWrites(r) ==
  /\ native[r] = "working" /\ r \notin files /\ files' = files \cup {r}
  /\ UNCHANGED <<record, prepared, lease, lock, run, helper, native, exit, runtime, dev, kills>>

NativeExits(r) ==
  /\ native[r] = "working" /\ native' = [native EXCEPT ![r] = "gone"] /\ lock' = None
  /\ \E rc \in {0, 1} : exit' = [exit EXCEPT ![r] = rc]
  /\ UNCHANGED <<record, prepared, files, lease, run, helper, runtime, dev, kills>>

-----------------------------------------------------------------------------
(* The machine: another release is activated, or the system starts anew *)

Activate ==
  /\ runtime.current = 1 /\ dev = 1 /\ runtime' = [runtime EXCEPT !.current = 2]
  /\ UNCHANGED <<record, prepared, files, lease, lock, run, helper, native, exit, dev, kills>>

Reboot ==
  /\ dev = 1 /\ runtime.current = 1 /\ dev' = 2 /\ lease' = None /\ lock' = None
  /\ run' = [r \in Runs |-> IF run[r].at = "idle" THEN run[r] ELSE [run[r] EXCEPT !.at = "over", !.own = None, !.answer = None]]
  /\ helper' = [r \in Runs |-> None]
  /\ native' = [r \in Runs |-> IF native[r] = "none" THEN "none" ELSE "gone"]
  /\ UNCHANGED <<record, prepared, files, exit, runtime, kills>>

Next ==
  \/ Activate \/ Reboot
  \/ \E r \in Runs :
       \/ Launch(r) \/ Rebind(r) \/ Lease(r) \/ Probe(r) \/ Takes(r) \/ Waits(r) \/ Kill(r)
       \/ Operate(r) \/ Recheck(r) \/ Replace(r)
       \/ NativeLock(r) \/ NativeWrites(r) \/ NativeExits(r)

-----------------------------------------------------------------------------
(* Properties *)

ContinuationTypeOK ==
  /\ record.status \in {"PENDING", "READY", "IN_FLIGHT", "BLOCKED"} /\ record.nonce \in {0} \cup Runs
  /\ record.status \in {"READY", "IN_FLIGHT"} => record.native # None
  /\ files \subseteq Runs /\ lease \in Runs \cup {None} /\ lock \in Runs \cup {None}
  /\ native \in [Runs -> {"none", "starting", "working", "gone"}] /\ kills \in 0..MaxKills

\* Two natives never work on the session file of one handle, whichever launchers
\* and helpers were killed between them.
OneNative == Cardinality({r \in Runs : native[r] = "working"}) <= 1

AdmittedBy(row) == {r \in Runs : r = row.nonce \/ (row.nonce = 0 /\ run[r].mode = "new")}

\* READY is of a run whose native ended well, and names a session file that is there.
ReadyTrue ==
  record.status = "READY" =>
    record.native.id \in files /\ \A r \in AdmittedBy(record) : native[r] = "gone" /\ exit[r] = 0

\* With nothing left at work, one session file is enough to resume: no kill, crash,
\* upgrade or reboot leaves a record that refuses it.
Resumable ==
  /\ \A r \in Runs : helper[r] = None /\ native[r] \in {"none", "gone"}
  /\ Inspected
  => OriginMatches(record) /\ Admits(record)

ContinuationHolds == OneNative /\ ReadyTrue /\ Resumable
=============================================================================
