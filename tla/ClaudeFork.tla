------------------------------- MODULE ClaudeFork -------------------------------
(***************************************************************************)
(* The origin of a Claude fork, kept while the fork runs (PreparedFork and *)
(* prepare of bin/harness_claude_fork.py, over the catalog of              *)
(* bin/harness_session_catalog.py).                                        *)
(*                                                                         *)
(* A forking process takes two leases, one of the native session and one   *)
(* of the parent's runtime.  They are POSIX record locks: they belong to   *)
(* the process, survive exec, and go when the process closes any           *)
(* descriptor of the file, which the catalog does with every runtime.lock  *)
(* it looks at.  Under the leases the process reads the parent's record,   *)
(* digests its transcript, takes launch settings from it, and looks at     *)
(* everything once more before it becomes the native process.              *)
(*                                                                         *)
(* A process may call prepare more than once: each call is a slot.  The    *)
(* transcript and the launch record are known by versions; their writers   *)
(* are the parent's launcher, which holds the runtime lease, and programs  *)
(* that hold nothing.                                                      *)
(***************************************************************************)
EXTENDS Naturals, FiniteSets

CONSTANTS None,
          Forks,        \* calls of prepare: pairs <<process, slot>>
          MaxWrites,    \* bound: versions of the transcript and of the launch record
          MaxResumes    \* bound: launches of the parent

VARIABLES journal,     \* the parent's state
          hold,        \* a resume-hold- file is there
          written,     \* versions of the transcript and of the launch record
          lock,        \* who holds each file's record lock
          process,     \* the forking processes: running, native (exec'd) or ended
          fork,        \* the prepared forks
          parent,      \* the parent's launcher
          raw          \* a program without the lease wrote since the fork's last look

vars == <<journal, hold, written, lock, process, fork, parent, raw>>

Files == {"native", "runtime"}
Processes == {f[1] : f \in Forks}
Terminal == {"CLOSED", "DELIVERED", "DISCARDED"}
Parts == {"transcript", "record"}

Idle == [at |-> "none", fds |-> {}, state |-> None, receipt |-> None, settings |-> None]

Init ==
  /\ journal \in Terminal \cup {"ABANDONED"} /\ hold = FALSE /\ written = [x \in Parts |-> 0]
  /\ lock = [x \in Files |-> None] /\ process = [p \in Processes |-> "running"] /\ fork = [f \in Forks |-> Idle]
  /\ parent = [at |-> "away", resumes |-> 0] /\ raw = FALSE

(***************************************************************************)
(* Record locks.                                                           *)
(***************************************************************************)
Free(file, p) == lock[file] \in {None, p}
\* Closing one descriptor of a file drops the process's lock on it, whichever took it.
Dropped(p, files) == [x \in Files |-> IF x \in files /\ lock[x] = p THEN None ELSE lock[x]]

\* _lease: a second descriptor first, so that the one closed is closed before the lock is taken.
LeasedThenClosed(p, file) == Dropped(p, {file})
Leased(p, file) == [lock EXCEPT ![file] = p]

\* close, and the way out of prepare: every descriptor goes.
RefusedHolding(f) == fork' = [fork EXCEPT ![f] = [Idle EXCEPT !.at = "closed"]] /\ UNCHANGED lock
Refused(f) ==
  /\ fork' = [fork EXCEPT ![f] = [Idle EXCEPT !.at = "closed"]]
  /\ lock' = Dropped(f[1], fork[f].fds)

(***************************************************************************)
(* prepare.                                                                *)
(***************************************************************************)
Busy == {"list", "lease", "look", "digest", "inherit"}        \* inside a call
Of(p) == {f \in Forks : f[1] = p}
Active(p) == \E f \in Of(p) : fork[f].at \in {"prepared", "checked", "redigest"}

PrepareAgain(p) == \A f \in Of(p) : fork[f].at \notin Busy
MayPrepare(p) == ~Active(p) /\ \A f \in Of(p) : fork[f].at \notin Busy

\* The native lease, then what the catalog says: its look at runtime.lock opens and closes the file.
Listed == journal \in Terminal \cup {"ABANDONED"} /\ ~hold
Takes(f, file, next) ==
  /\ fork' = [fork EXCEPT ![f].at = next, ![f].fds = @ \cup {file}] /\ lock' = Leased(f[1], file)
Native(f) ==
  /\ fork[f].at = "none" /\ MayPrepare(f[1])
  /\ IF Free("native", f[1]) THEN Takes(f, "native", "list") ELSE Refused(f)

CatalogLate(f) ==      \* the runtime lease taken before the catalog is read
  \/ /\ fork[f].at = "list"
     /\ IF Free("runtime", f[1]) THEN Takes(f, "runtime", "lease") ELSE Refused(f)
  \/ /\ fork[f].at = "lease"
     /\ IF Listed THEN fork' = [fork EXCEPT ![f].at = "look"] /\ lock' = Dropped(f[1], {"runtime"}) ELSE Refused(f)
Catalog(f) ==
  \/ /\ fork[f].at = "list"
     /\ IF Listed /\ Free("runtime", f[1])
        THEN fork' = [fork EXCEPT ![f].at = "lease"] /\ lock' = Dropped(f[1], {"runtime"})
        ELSE fork' = [fork EXCEPT ![f] = [Idle EXCEPT !.at = "closed"]]
             /\ lock' = Dropped(f[1], fork[f].fds \cup {"runtime"})
  \/ /\ fork[f].at = "lease"
     /\ IF Free("runtime", f[1]) THEN Takes(f, "runtime", "look") ELSE Refused(f)

\* _verify: the record, the holds, then the transcript and the launch record.
Look(f) ==
  /\ fork[f].at = "look"
  /\ IF journal \in Terminal /\ ~hold
     THEN fork' = [fork EXCEPT ![f].at = "digest", ![f].state = journal] /\ UNCHANGED lock
     ELSE Refused(f)
Digest(f) ==
  /\ fork[f].at = "digest" /\ fork' = [fork EXCEPT ![f].at = "inherit", ![f].receipt = written] /\ UNCHANGED lock
\* _inherit: the permission of the record that was read, the model of the transcript as it is now.
Inherit(f) ==
  /\ fork[f].at = "inherit" /\ UNCHANGED lock
  /\ fork' = [fork EXCEPT ![f].at = "prepared",
              ![f].settings = [transcript |-> written["transcript"], record |-> fork[f].receipt["record"]]]

(***************************************************************************)
(* recheck and close.                                                      *)
(***************************************************************************)
Recheck(f) ==
  /\ fork[f].at \in {"prepared", "checked"}
  /\ IF journal = fork[f].state /\ ~hold
     THEN fork' = [fork EXCEPT ![f].at = "redigest"] /\ UNCHANGED lock ELSE Refused(f)
SameNot(f) == TRUE
Same(f) == written = fork[f].receipt
Redigest(f) ==
  /\ fork[f].at = "redigest"
  /\ IF Same(f) THEN fork' = [fork EXCEPT ![f].at = "checked"] /\ UNCHANGED lock ELSE Refused(f)
Close(f) == fork[f].at \in {"prepared", "checked"} /\ Refused(f)

Step(f) ==
  /\ process[f[1]] = "running"
  /\ Native(f) \/ Catalog(f) \/ Look(f) \/ Digest(f) \/ Inherit(f) \/ Recheck(f) \/ Redigest(f) \/ Close(f)
  /\ raw' = (raw /\ fork'[f].at # "checked") /\ UNCHANGED <<journal, hold, written, process, parent>>

(***************************************************************************)
(* The caller: it becomes the native process at once after a recheck, or   *)
(* ends.                                                                   *)
(***************************************************************************)
Exec(f) ==
  /\ process[f[1]] = "running" /\ fork[f].at = "checked"
  /\ process' = [process EXCEPT ![f[1]] = "native"]
  /\ UNCHANGED <<journal, hold, written, lock, fork, parent, raw>>
Ends(p) ==
  /\ process[p] # "ended" /\ process' = [process EXCEPT ![p] = "ended"] /\ lock' = Dropped(p, Files)
  /\ fork' = [f \in Forks |-> IF f[1] = p THEN [Idle EXCEPT !.at = "closed"] ELSE fork[f]]
  /\ UNCHANGED <<journal, hold, written, parent, raw>>

(***************************************************************************)
(* The parent: resumed under the runtime lease, and a death of its         *)
(* launcher leaves the session OPEN until a scan abandons it.              *)
(***************************************************************************)
ResumeUnleased == TRUE
MayResume == lock["runtime"] = None
Resume ==
  /\ parent.at = "away" /\ parent.resumes < MaxResumes /\ MayResume
  /\ lock' = [lock EXCEPT !["runtime"] = "launcher"]
  /\ parent' = [at |-> "leased", resumes |-> parent.resumes + 1] /\ UNCHANGED <<journal, written>>
Reopen ==      \* resume_session
  /\ parent.at = "leased" /\ UNCHANGED written
  /\ IF journal \in {"CLOSED", "ABANDONED"}
     THEN journal' = "OPEN" /\ parent' = [parent EXCEPT !.at = "runs"] /\ UNCHANGED lock
     ELSE parent' = [parent EXCEPT !.at = "away"] /\ lock' = Dropped("launcher", {"runtime"}) /\ UNCHANGED journal
Writes ==
  /\ parent.at = "runs" /\ UNCHANGED <<journal, lock, parent>>
  /\ \E part \in Parts : written[part] < MaxWrites /\ written' = [written EXCEPT ![part] = @ + 1]
Exits ==       \* session-isolation.sh exit, or a delivery, and then the lease goes
  /\ parent.at = "runs" /\ journal' \in {"CLOSED", "DELIVERED"} /\ UNCHANGED written
  /\ parent' = [parent EXCEPT !.at = "away"] /\ lock' = Dropped("launcher", {"runtime"})
Dies ==
  /\ parent.at \in {"leased", "runs"} /\ UNCHANGED <<journal, written>>
  /\ parent' = [parent EXCEPT !.at = "away"] /\ lock' = Dropped("launcher", {"runtime"})
Scan ==        \* stale_without_lease
  /\ journal = "OPEN" /\ lock["runtime"] = None /\ journal' = "ABANDONED" /\ UNCHANGED <<written, lock, parent>>
Discard ==     \* discard_unlocked: the state is read again under the lease
  /\ journal = "ABANDONED" /\ lock["runtime"] = None /\ journal' = "DISCARDED" /\ UNCHANGED <<written, lock, parent>>
Parent ==
  /\ Resume \/ Reopen \/ Writes \/ Exits \/ Dies \/ Scan \/ Discard
  /\ UNCHANGED <<hold, process, fork, raw>>

\* A restore places its hold, and other programs write, without any lease.
Holds == hold' = ~hold /\ UNCHANGED <<written, raw>>
RawWrites ==
  /\ \E part \in Parts : written[part] < MaxWrites /\ written' = [written EXCEPT ![part] = @ + 1]
  /\ raw' = TRUE /\ UNCHANGED hold
Others == (Holds \/ RawWrites) /\ UNCHANGED <<journal, lock, process, fork, parent>>

Next == (\E f \in Forks : Step(f) \/ Exec(f)) \/ (\E p \in Processes : Ends(p)) \/ Parent \/ Others
Spec == Init /\ [][Next]_vars

-----------------------------------------------------------------------------
\* What the theorems assume: holders of a lock are distinct.
ForkAssumption == None \notin Processes /\ "launcher" \notin Processes /\ None # "launcher"

\* What the variables may hold.
Versions == [Parts -> Nat]
Stages == {"none", "list", "lease", "look", "digest", "inherit", "prepared", "redigest", "checked", "closed"}
Calls ==
  [at : Stages, fds : SUBSET Files, state : Terminal \cup {None},
   receipt : Versions \cup {None}, settings : Versions \cup {None}]
ForkTypeOK ==
  /\ journal \in Terminal \cup {"OPEN", "ABANDONED"} /\ hold \in BOOLEAN /\ written \in Versions
  /\ lock \in [Files -> Processes \cup {None, "launcher"}]
  /\ process \in [Processes -> {"running", "native", "ended"}]
  /\ fork \in [Forks -> Calls]
  /\ parent \in [at : {"away", "leased", "runs"}, resumes : Nat] /\ raw \in BOOLEAN

Kept(f) == fork[f].at \in {"prepared", "redigest", "checked"}

\* "Keep both leases for the whole derived run" (docs/terminal-runtimes.md): from the moment prepare
\* answers until the process ends or gives up, across recheck and exec and whatever else the process
\* does, no other process has a lease of the parent, which therefore stays as it was found.
LeasesKept ==
  \A f \in Forks : Kept(f) => (\A x \in Files : lock[x] = f[1]) /\ journal = fork[f].state

\* A native process runs on the transcript its receipt names, with settings read from that very
\* transcript and launch record, unless a program without the lease wrote after the last look.
ForkHonest ==
  \A f \in Forks :
    fork[f].at = "checked" =>
      fork[f].settings = fork[f].receipt /\ (~raw => written = fork[f].receipt)

\* A process that has no fork left keeps nobody else from the parent.
NothingHeld ==
  \A p \in Processes :
    (\A f \in Of(p) : fork[f].at \in {"none", "closed"}) => \A x \in Files : lock[x] # p

ForkHolds == LeasesKept /\ ForkHonest /\ NothingHeld
=============================================================================
