------------------------- MODULE CanonicalBootstrap -------------------------
(***************************************************************************)
(* One canonical update (bin/harness_canonical_bootstrap.py): the parent   *)
(* admits the code, holds a lease and carries one native session, whose    *)
(* trusted extension (bin/omp_canonical_bootstrap.mjs) asks the user and   *)
(* runs the private engine.  The two talk over a socket pair, the native   *)
(* asking and the parent answering; the parent revokes by closing a pipe.  *)
(*                                                                         *)
(* An authority is named by its version, which grows when the file is      *)
(* replaced: an identity holds the change time, so none comes back.  The   *)
(* engine that writes to the repository is not in this tree: its five      *)
(* public statuses are taken to be true of what it did.                    *)
(*                                                                         *)
(* same_process compares the native with the record of its start: once its *)
(* image or its record has changed, or cannot be read, every comparison    *)
(* fails, and what the carrier would have done with the native it does not *)
(* do.                                                                     *)
(***************************************************************************)
EXTENDS Naturals, Sequences

CONSTANTS None,
          MaxReplaced  \* replacements of an authority or of the native's image

VARIABLES
  parent,    \* where the carrier is
  native,    \* where the extension in its native is; "gone": no process; "killed": not gone after SIGKILL
  asked,     \* what the extension does after an ok: the place and the number of its question
  up, down,  \* the two directions of the socket
  sequence,  \* the messages the parent took
  judging,   \* the message the parent is at and whether it passed
  bound,     \* bound_session is set
  held,      \* the versions the parent holds, per authority
  pinned,    \* the versions it admitted
  version,   \* the versions now
  replaced,
  changed,   \* the native is no longer as it was recorded
  cancelled, expired,
  alive,     \* the parent's end of the liveness pipe is open
  term,      \* SIGTERM sent to the native and not yet taken
  aborted,   \* the controller of the extension is aborted
  decision,  \* of the user
  effect,    \* of the engine on the repository
  result,    \* the public result of the extension, None without one
  clean,     \* cleanup_verified of the extension
  final,     \* what the RESULT told that the parent took
  lease,
  receipt,   \* the status in receipt.json
  exit,      \* what the command reported
  granted,   \* the questions answered after "once" while nothing stood against it
  cut        \* the native was signalled in its transaction without the wait for its drain

\* What the actions of one side leave alone.
world == <<version, pinned, replaced, expired, changed>>
extension == <<asked, aborted, decision, effect, result, clean>>
carrier == <<sequence, judging, bound, held, cancelled, final, lease, receipt, exit>>

vars == <<parent, native, asked, up, down, sequence, judging, bound, held, pinned, version, replaced,
          changed, cancelled, expired, alive, term, aborted, decision, effect, result, clean, final, lease,
          receipt, exit, granted, cut>>

Authorities == {"trees", "current", "profile", "session"}

Statuses == {"updated", "already_current", "applied_unverified", "not_applied", "uncertain"}

Init ==
  /\ parent = "start" /\ native = "none" /\ asked = [after |-> None, seq |-> 0]
  /\ up = <<>> /\ down = <<>> /\ sequence = 0 /\ judging = None /\ bound = FALSE
  /\ version = [x \in Authorities |-> 0] /\ held = version /\ pinned = version /\ replaced = 0 /\ changed = FALSE
  /\ cancelled = FALSE /\ expired = FALSE /\ alive = FALSE /\ term = FALSE /\ aborted = FALSE
  /\ decision = None /\ effect = "none" /\ result = None /\ clean = FALSE /\ final = None
  /\ lease = FALSE /\ receipt = None /\ exit = None /\ granted = {} /\ cut = FALSE

Running == native \notin {"none", "gone"}

\* same_process of the native; one that has ended is not the same.
Same == Running /\ ~changed

\* The places where the extension awaits: between them its thread takes no event.
Awaits == {"boot", "import", "prepare", "approve", "apply", "dispose"}

-----------------------------------------------------------------------------
(* The parent *)

\* dispatch, admit_source and profile_context, one after the other: what each
\* authority is when it is read.
AdmitOne(from, to, x) ==
  /\ parent = from /\ parent' = to /\ pinned' = [pinned EXCEPT ![x] = version[x]]
  /\ UNCHANGED <<native, extension, up, down, carrier, version, replaced, expired, changed, alive, term, granted, cut>>

Dispatch == AdmitOne("start", "dispatched", "current")

AdmitSource == AdmitOne("dispatched", "sourced", "trees")

AdmitProfile == AdmitOne("sourced", "admitted", "profile")

\* Retained.hold and tree: what is held is what is there by then.
Hold == held' = version

\* run_retained up to the frame.  A failure before there is a child is raised
\* as it is.
Start ==
  /\ parent = "admitted" /\ Hold
  /\ \/ /\ parent' \in {"loop", "raised"} /\ exit' = exit
        /\ native' = "boot" /\ alive' = TRUE /\ lease' = TRUE
     \/ /\ parent' = "done" /\ exit' = "stopped" /\ UNCHANGED <<native, alive, lease>>
  /\ UNCHANGED <<extension, up, down, sequence, judging, bound, cancelled, final, receipt, world, term, granted, cut>>

\* Retained.check; the session is compared once it is bound.
RetainedHolds == \A x \in Authorities \ {"session"} : version[x] = held[x]

\* check() of run_retained.
MayGoOnUncancelled ==
  /\ ~expired /\ RetainedHolds /\ Same
  /\ bound => version["session"] = held["session"]

MayGoOn == ~cancelled /\ MayGoOnUncancelled

Accepts(m) ==
  CASE m.type = "BIND"   -> MayGoOn /\ ~bound
    [] m.type = "CHECK"  -> MayGoOn /\ bound
    [] m.type = "RESULT" -> bound /\ final = None /\ RetainedHolds /\ Same

\* What an answer that lets the engine write must rest on: the user's "once",
\* and that nothing was withdrawn, or replaced since it was admitted.
Sound ==
  /\ decision = "once" /\ ~cancelled /\ ~expired
  /\ \A x \in {"trees", "current"} : version[x] = pinned[x]
  /\ \A x \in {"profile", "session"} : version[x] = held[x]

\* A message whose number is not the next is a protocol error, outside the
\* handler that answers.
Receive ==
  /\ parent = "loop" /\ final = None /\ up # <<>>
  /\ up' = Tail(up)
  /\ LET m == Head(up) IN
       IF m.seq # sequence + 1
         THEN parent' = "raised" /\ UNCHANGED <<sequence, judging, granted>>
         ELSE /\ parent' = "answer" /\ sequence' = m.seq
              /\ judging' = [message |-> m, ok |-> Accepts(m)]
              /\ granted' = IF m.type = "CHECK" /\ Accepts(m) /\ Sound THEN granted \union {m.seq} ELSE granted
  /\ UNCHANGED <<native, extension, down, bound, held, cancelled, final, lease, receipt, exit, world, alive, term, cut>>

\* cancel: it revokes, and ends only a native that has not bound its session.
SignalsAnyway == Same

Signals == Same /\ ~bound

Cancels ==
  /\ cancelled' = TRUE /\ alive' = FALSE /\ term' = (term \/ Signals)
  /\ cut' = (cut \/ (Signals /\ native = "apply"))

\* The verdict takes effect and is sent; a native that is gone breaks the
\* socket, and the refusal that is then sent breaks with it.
Answer ==
  /\ parent = "answer" /\ judging' = None
  /\ LET m == judging.message
         takes(type) == judging.ok /\ m.type = type IN
       /\ final' = IF takes("RESULT") THEN m.extra ELSE final
       /\ bound' = (bound \/ takes("BIND"))
       /\ held' = IF takes("BIND") THEN [held EXCEPT !["session"] = version["session"]] ELSE held
       /\ parent' = IF Running THEN "loop" ELSE "raised"
       /\ down' = IF Running THEN Append(down, [seq |-> sequence, ok |-> judging.ok]) ELSE down
       /\ IF Running /\ ~judging.ok THEN Cancels
            ELSE alive' = (alive /\ ~takes("RESULT")) /\ UNCHANGED <<cancelled, term, cut>>
  /\ UNCHANGED <<native, extension, up, sequence, lease, receipt, exit, world, granted>>

\* SIGINT or SIGTERM to the carrier, or the end of its 300 seconds.
Cancel ==
  /\ parent \in {"loop", "answer"} /\ ~cancelled /\ Cancels
  /\ UNCHANGED <<parent, native, extension, up, down, sequence, judging, bound, held, final, lease, receipt, exit,
                 world, granted>>

\* The loop ends with the native, whatever the socket still holds, 65 seconds
\* after a cancel, or with a result: then the native is ended after 2 seconds.
LoopEnds ==
  /\ parent = "loop"
  /\ \/ /\ ~Running \/ (cancelled /\ final = None)
        /\ parent' = "settle" /\ UNCHANGED <<term, cut>>
     \/ /\ final # None /\ Same
        /\ parent' = "settle" /\ term' = TRUE /\ cut' = (cut \/ native = "apply")
     \/ /\ final # None /\ ~Same
        /\ parent' = "raised" /\ UNCHANGED <<term, cut>>
  /\ UNCHANGED <<native, extension, up, down, carrier, world, alive, granted>>

\* The first half of what follows the loop: without a result the native is
\* revoked, and ended when its session is not bound.
Settle ==
  /\ parent = "settle"
  /\ \/ ~Running /\ parent' = "report" /\ UNCHANGED <<alive, term, cut>>
     \/ /\ Running /\ (final # None \/ bound) /\ parent' = "draining"
        /\ alive' = (alive /\ final # None) /\ UNCHANGED <<term, cut>>
     \/ /\ final = None /\ Signals /\ parent' = "draining"
        /\ alive' = FALSE /\ term' = TRUE /\ cut' = (cut \/ native = "apply")
     \/ /\ final = None /\ ~bound /\ ~Same /\ parent' = "raised"
        /\ alive' = FALSE /\ UNCHANGED <<term, cut>>
  /\ UNCHANGED <<native, extension, up, down, carrier, world, granted>>

\* child.kill and the seconds in which the native has to be gone.
Kills(waited) ==
  /\ native' \in {"gone", "killed"}
  /\ cut' = (cut \/ (~waited /\ native = "apply"))

\* child.wait and, when it timed out, child.kill: after 65 seconds without a
\* result, after 3 with one.  A native that ended just before it is compared,
\* or is another by then, or outlives its kill, is an error.
Drain ==
  /\ parent = "draining"
  /\ \/ ~Running /\ parent' = "report" /\ UNCHANGED <<native, cut>>
     \/ ~Same /\ parent' = "raised" /\ UNCHANGED <<native, cut>>
     \/ /\ Same /\ Kills(final = None)
        /\ parent' = IF native' = "gone" THEN "report" ELSE "raised"
  /\ UNCHANGED <<extension, up, down, carrier, world, alive, term, granted>>

StatusByCleanup ==
  IF final = None THEN "unknown"
  ELSE IF final.result # None THEN (IF final.clean THEN final.result ELSE "uncertain")
  ELSE IF final.clean THEN "not_applied" ELSE "unknown"

Status ==
  IF final = None THEN "unknown"
  ELSE IF final.result # None THEN (IF final.clean THEN final.result ELSE "uncertain")
  ELSE IF final.decision # "once" /\ final.clean THEN "not_applied" ELSE "unknown"

\* validate_public_result.
ValidResult == final # None /\ final.result # None => final.decision = "once"

\* receipt_exit_code.
Succeeded == Status \in {"updated", "already_current"} /\ final.decision = "once" /\ final.clean

\* The receipt and its exit code; printing it may fail.
Report ==
  /\ parent = "report"
  /\ IF ~ValidResult
       THEN parent' = "raised" /\ UNCHANGED <<receipt, exit>>
       ELSE /\ receipt' = Status
            /\ \/ /\ parent' = "ending"
                  /\ exit' = IF Succeeded THEN "done" ELSE "failed"
               \/ parent' = "raised" /\ exit' = exit
  /\ UNCHANGED <<native, extension, up, down, sequence, judging, bound, held, cancelled, final, lease,
                 world, alive, term, granted, cut>>

\* The handler of errors once there is a child: a receipt that exists stays.
Emergency ==
  /\ parent = "raised" /\ parent' = "ending" /\ exit' = "unknown"
  /\ receipt' = IF receipt = None THEN "unknown" ELSE receipt
  /\ UNCHANGED <<native, extension, up, down, sequence, judging, bound, held, cancelled, final, lease,
                 world, alive, term, granted, cut>>

\* A SIGINT after the loop has its default effect: no receipt, but finally runs.
Interrupt ==
  /\ parent \in {"settle", "draining"} /\ parent' = "ending" /\ exit' = "interrupted"
  /\ UNCHANGED <<native, extension, up, down, sequence, judging, bound, held, cancelled, final, lease, receipt,
                 world, alive, term, granted, cut>>

\* finally: a native that is still there is revoked when it may be in its
\* transaction and ended when not.
EndingUnwaited == Running /\ bound

Ending == Running

Finally ==
  /\ parent = "ending" /\ Ending /\ ~changed /\ parent' = "last"
  /\ LET drains == bound /\ final = None IN
       /\ alive' = (alive /\ ~drains) /\ term' = (term \/ ~drains)
       /\ cut' = (cut \/ (~drains /\ native = "apply"))
  /\ UNCHANGED <<native, extension, up, down, carrier, world, granted>>

\* The wait of 65, or of 5, seconds and the kill; then everything is let go.  A
\* native that cannot be compared, before or after the wait, or outlives its
\* kill, is left as it is (BOOTSTRAP_NATIVE_DRAIN_UNCONFIRMED).
Release ==
  /\ \/ parent = "ending" /\ (Ending => changed) /\ UNCHANGED <<native, cut>>
     \/ parent = "last" /\ ~Same /\ UNCHANGED <<native, cut>>
     \/ parent = "last" /\ Same /\ Kills(bound /\ final = None)
  /\ parent' = "done" /\ lease' = FALSE /\ alive' = FALSE
  /\ UNCHANGED <<extension, up, down, sequence, judging, bound, held, cancelled, final, receipt, exit, world, term, granted>>

\* The carrier is killed: the kernel lets go what it held.
CarrierDies ==
  /\ native # "none" /\ parent \notin {"done", "dead"}
  /\ parent' = "dead" /\ lease' = FALSE /\ alive' = FALSE
  /\ UNCHANGED <<native, extension, up, down, sequence, judging, bound, held, cancelled, final, receipt, exit,
                 world, term, granted, cut>>

-----------------------------------------------------------------------------
(* The extension *)

\* _observe: a process of the native's own that looks at the record, at
\* current.json, at the parent, the native and the owner of the lease.
ObservedOwner == parent \notin {"dead", "done"} /\ lease /\ ~expired

\* observer_directory: current.json still names the runtime it runs of.
Observed == ObservedOwner /\ ~changed /\ version["current"] = pinned["current"]

\* current(), up to its question.
Current == ~aborted /\ ~expired /\ version["trees"] = pinned["trees"] /\ Observed

\* rpc: the question, with what a RESULT has to tell; it blocks the one thread of
\* the extension.
Ask(type, after, extra) ==
  /\ native' = "asking" /\ asked' = [after |-> after, seq |-> asked.seq + 1]
  /\ up' = Append(up, [type |-> type, seq |-> asked.seq + 1, extra |-> extra])

\* Where a refused or unanswered question leads: before the session is bound
\* to the end, before the engine to a result of its own, then to the disposal.
Fails(after) ==
  CASE after = "bound" -> native' = "gone" /\ UNCHANGED <<decision, clean>>
    [] after \in {"import", "prepare"} ->
         native' = "result" /\ clean' = TRUE
         /\ decision' = (IF aborted /\ after = "prepare" THEN "cancelled" ELSE None)
    [] after \in {"approve", "apply", "dispose"} ->
         native' = "dispose" /\ UNCHANGED clean /\ decision' = (IF aborted THEN "cancelled" ELSE decision)
    [] OTHER -> native' = "closing" /\ UNCHANGED <<decision, clean>>

\* current() or BIND from the place the extension is at.
Checks(type, after) ==
  IF Current THEN Ask(type, after, None) /\ UNCHANGED <<decision, clean>>
  ELSE Fails(after) /\ UNCHANGED <<asked, up>>

Bind == native = "boot" /\ Checks("BIND", "bound") /\ UNCHANGED <<effect, result>>

Bound == native = "bound" /\ Checks("CHECK", "import") /\ UNCHANGED <<effect, result>>

Import == native = "import" /\ Checks("CHECK", "prepare") /\ UNCHANGED <<effect, result>>

\* prepareCanonicalUpdate of the engine; when it throws nobody knows what is left of it.
Prepare ==
  /\ native = "prepare"
  /\ \/ Checks("CHECK", "approve")
     \/ /\ native' = "result" /\ clean' = FALSE /\ decision' = IF aborted THEN "cancelled" ELSE None
        /\ UNCHANGED <<asked, up>>
  /\ UNCHANGED <<effect, result>>

\* The user answers; the checks before apply are asked with nothing awaited
\* in between and count as one.
Approve ==
  /\ native = "approve"
  /\ \E once \in BOOLEAN :
       LET said == IF once THEN "once" ELSE IF aborted THEN "cancelled" ELSE "deny" IN
         IF Current
           THEN /\ Ask("CHECK", IF once THEN "apply" ELSE "dispose", None)
                /\ decision' = said
           ELSE /\ native' = "dispose" /\ decision' = IF aborted THEN "cancelled" ELSE said
                /\ UNCHANGED <<asked, up>>
  /\ UNCHANGED <<effect, result, clean>>

\* The engine writes to the repository, answers, or throws, at its own pace.
Apply ==
  /\ native = "apply" /\ effect = "none" /\ effect' = "applied"
  /\ UNCHANGED <<native, asked, up, decision, result, clean>>

Applied ==
  /\ native = "apply" /\ native' = "dispose"
  /\ result' \in IF effect = "applied" THEN {"updated", "applied_unverified", "uncertain", None}
                 ELSE {"already_current", "not_applied", "uncertain", None}
  /\ UNCHANGED <<asked, up, decision, effect, clean>>

Dispose ==
  /\ native = "dispose" /\ native' = "result" /\ clean' \in BOOLEAN
  /\ UNCHANGED <<asked, up, decision, effect, result>>

Result ==
  /\ native = "result"
  /\ IF parent \in {"dead", "done"} THEN native' = "closing" /\ UNCHANGED <<asked, up>>
     ELSE Ask("RESULT", "closing", [decision |-> decision, clean |-> clean, result |-> result])
  /\ UNCHANGED <<decision, effect, result, clean>>

\* The reply, or none within 5 seconds, or the end of the socket; a late
\* reply stays in it and is met by the next question.
Replied ==
  /\ native = "asking"
  /\ \/ /\ down # <<>> /\ down' = Tail(down)
        /\ IF Head(down) = [seq |-> asked.seq, ok |-> TRUE]
             THEN native' = asked.after /\ UNCHANGED <<decision, clean>>
             ELSE Fails(asked.after)
     \/ down = <<>> /\ Fails(asked.after) /\ UNCHANGED down
  /\ UNCHANGED <<asked, up, effect, result>>

Extension ==
  /\ \/ (Bind \/ Bound \/ Import \/ Prepare \/ Approve \/ Apply \/ Applied \/ Dispose \/ Result) /\ UNCHANGED down
     \/ Replied
  /\ UNCHANGED <<parent, carrier, world, alive, term, aborted, granted, cut>>

\* invalidate: the end of the pipe, the deadline, a SIGTERM, typing or another
\* session reach the extension where it awaits.  With another session the
\* journal is another one.
Invalidate ==
  /\ native \in Awaits /\ ~aborted /\ aborted' = TRUE
  /\ \/ UNCHANGED <<version, replaced>>
     \/ replaced < MaxReplaced /\ replaced' = replaced + 1 /\ version' = [version EXCEPT !["session"] = @ + 1]
  /\ UNCHANGED <<parent, native, asked, up, down, carrier, pinned, expired, changed, alive, term, decision, effect, result,
                 clean, granted, cut>>

\* The native ends: closed, terminated before it owns an operation, or dead.
NativeEnds ==
  /\ Running /\ native' = "gone"
  /\ UNCHANGED <<parent, extension, up, down, carrier, world, alive, term, granted, cut>>

-----------------------------------------------------------------------------
(* The machine, while it can still matter to the native *)

Expire ==
  /\ ~expired /\ Running /\ expired' = TRUE
  /\ UNCHANGED <<parent, native, extension, up, down, carrier, version, pinned, replaced, changed, alive, term, granted, cut>>

\* The binary of the native is renamed or replaced, or its record is not read.
Changes ==
  /\ replaced < MaxReplaced /\ replaced' = replaced + 1
  /\ Running /\ changed' = TRUE
  /\ UNCHANGED <<parent, native, extension, up, down, carrier, version, pinned, expired, alive, term, granted, cut>>

Replaces ==
  /\ replaced < MaxReplaced /\ replaced' = replaced + 1
  /\ parent # "start" /\ native # "gone"
  /\ \E x \in Authorities \ {"session"} : version' = [version EXCEPT ![x] = @ + 1]
  /\ UNCHANGED <<parent, native, extension, up, down, carrier, pinned, expired, changed, alive, term, granted, cut>>

Next ==
  \/ Dispatch \/ AdmitSource \/ AdmitProfile \/ Start \/ Receive \/ Answer \/ Cancel \/ LoopEnds \/ Settle \/ Drain \/ Report \/ Emergency
  \/ Interrupt \/ Finally \/ Release \/ CarrierDies
  \/ Extension \/ Invalidate \/ NativeEnds \/ Expire \/ Changes \/ Replaces

Spec == Init /\ [][Next]_vars

-----------------------------------------------------------------------------
(* Properties *)

BootstrapTypeOK ==
  /\ parent \in {"start", "dispatched", "sourced", "admitted", "loop", "answer", "settle", "draining", "report", "raised", "ending", "last",
                 "done", "dead"}
  /\ native \in Awaits \union {"none", "gone", "bound", "asking", "result", "closing", "killed"}
  /\ receipt \in Statuses \union {None, "unknown"}
  /\ exit \in {None, "stopped", "done", "failed", "unknown", "interrupted"}
  /\ decision \in {None, "once", "deny", "cancelled"} /\ result \in Statuses \union {None}
  /\ effect \in {"none", "applied"} /\ sequence <= asked.seq /\ granted \subseteq 1..asked.seq

\* The engine is let to work after the user's "once" only, on a question the
\* parent answered while it was not cancelled, in time, and with every
\* authority as admitted: an answer from before the "once", a late one or one
\* of a carrier that is gone does not count.
OnlyGranted == native = "apply" \/ effect = "applied" => asked.seq \in granted \union {s + 1 : s \in granted}

\* The receipt is true for good: success after a verified and cleaned up
\* operation of a "once"; "not applied" only when nothing was written and
\* nothing can be; "stopped" only without a native.
Honest ==
  /\ exit = "done" => decision = "once" /\ clean /\ result \in {"updated", "already_current"}
  /\ receipt \in {"updated", "already_current", "applied_unverified", "not_applied"} => clean
  /\ receipt = "not_applied" => effect = "none" /\ native \in {"asking", "closing", "gone", "killed"}
  /\ receipt = "updated" => effect = "applied"
  /\ exit = "stopped" => native = "none" /\ effect = "none"

\* The carrier does not signal a native in its transaction before it has
\* waited 65 seconds for its drain.
NotCut == ~cut

\* A carrier that lives holds the lease until its native is gone; the one it
\* lets go of before that it has revoked, and could not compare with its record
\* or not end with SIGKILL.
LeaseCovers == parent = "done" => ~alive /\ (Running => changed \/ native = "killed")

BootstrapHolds == OnlyGranted /\ Honest /\ NotCut /\ LeaseCovers

\* What the theorems assume: no answer, status or place is None.
BootstrapAssumption ==
  None \notin Statuses \union Awaits \union
    {"bound", "closing", "once", "deny", "cancelled", "unknown", "stopped", "done", "failed", "interrupted"}
=============================================================================
