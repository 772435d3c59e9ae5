--------------------------- MODULE HerdrLifecycle ---------------------------
(***************************************************************************)
(* Owned lifecycle operations of the Herdr command line                    *)
(* (bin/harness_herdr_lifecycle.py, bin/harness_herdr_lifecycle_store.py). *)
(*                                                                         *)
(* An intent is one operation: the creation of a resource, or an interrupt *)
(* or close that depends on the receipt of a creation.  Its receipt is     *)
(* replaced under a lock that is not waited for, if it is still the one    *)
(* the process has seen.  Two marker files fence it: "get-only" bans every *)
(* further POST, "recovery" withholds the authority over what was created  *)
(* until its result is on disk.  A process runs one command.               *)
(***************************************************************************)
EXTENDS Naturals, FiniteSets

CONSTANTS Creates,     \* intents that create a resource
          Dependents,  \* intents that interrupt or close one
          SourceOf,    \* the creation whose receipt a dependent intent needs
          Procs,       \* processes, one command each
          Runs,        \* bound: which commands each of them may run
          Nobody,      \* a lock that is free
          None,        \* no receipt
          MaxStops     \* bound: processes that die or meet an I/O error

Intents == Creates \cup Dependents

VARIABLES
  receipt,   \* the receipt file of each intent
  getOnly,   \* its get-only marker
  recovery,  \* its recovery marker
  lock,      \* holder of its lock file
  proc,      \* program counter and locals of each process
  wire,      \* requests that may still reach the service
  answer,    \* what the service answered each process
  server,    \* the operation as the service has it
  open,      \* effects asked for whose outcome is not on record (history only)
  sent,      \* POSTs with an effect (history only)
  stops

files == <<receipt, getOnly, recovery>>
net == <<wire, answer, server>>
history == <<open, sent>>
vars == <<files, lock, proc, net, history, stops>>

\* validate: which fields a receipt has in which phase.
Phases == {"created", "prepare_started", "prepare_unknown", "prepared", "dispatch_started",
           "terminal_observed"}
Receipts == [rev: Nat, phase: Phases, op: BOOLEAN, proof: BOOLEAN]
ReceiptOK(i, r) ==
  /\ r \in Receipts
  /\ r.op <=> r.phase \in {"prepared", "dispatch_started", "terminal_observed"}
  /\ r.proof => i \in Dependents \/ r.phase = "terminal_observed"
  /\ i \in Dependents => r.proof

\* A marker names the revision it was reserved for; a torn one holds nothing.
Absent == [there |-> FALSE, rev |-> 0]
Torn == [there |-> TRUE, rev |-> 0]
Written(rev) == [there |-> TRUE, rev |-> rev]
Readable(m, r) == m.rev > 0 /\ m.rev <= r.rev

\* operation: the states of an operation, those of a creation that has spawned included.
Terminal == {"completed", "cancelled", "rejected"}
Results == {"prepared", "queued", "spawned"} \cup Terminal

Idle == [at |-> "start", cmd |-> "none", of |-> None, seen |-> None, token |-> FALSE, fence |-> FALSE]

Init ==
  /\ receipt = [i \in Intents |-> None]
  /\ getOnly = [i \in Intents |-> Absent] /\ recovery = [i \in Intents |-> Absent]
  /\ lock = [i \in Intents |-> Nobody]
  /\ proc = [k \in Procs |-> Idle]
  /\ wire = {} /\ answer = [k \in Procs |-> "none"] /\ server = [i \in Intents |-> "none"]
  /\ open = [i \in Intents |-> {}] /\ sent = [i \in Intents |-> 0]
  /\ stops = 0

At(k, step) == proc[k].at = step
Goes(k, step) == proc' = [proc EXCEPT ![k].at = step]
GoesWith(k, step, r) == proc' = [proc EXCEPT ![k].at = step, ![k].seen = r]

-----------------------------------------------------------------------------
(* The store.  Every call takes the intent's lock or fails at once.  *)

Unlocked(i) == lock[i] = Nobody
CurrentUnread(k) == Unlocked(proc[k].of)
Current(k) == Unlocked(proc[k].of) /\ receipt[proc[k].of] = proc[k].seen
Replace(i, r) == receipt' = [receipt EXCEPT ![i] = r]
Bumped(r, phase) == [r EXCEPT !.rev = @ + 1, !.phase = phase]

\* authorize_create: the receipt of a finished creation, fenced by no marker.
Authorized(c) ==
  /\ Unlocked(c) /\ receipt[c] # None
  /\ receipt[c].phase = "terminal_observed" /\ receipt[c].proof
  /\ ~recovery[c].there
  /\ getOnly[c].there => Readable(getOnly[c], receipt[c])

\* transition: compare with what was seen, then replace.
Transition(k, from, phase, to) ==
  /\ At(k, from) /\ Current(k)
  /\ LET r == [Bumped(proc[k].seen, phase) EXCEPT !.op = (phase = "prepared")]
     IN Replace(proc[k].of, r) /\ GoesWith(k, to, r)
  /\ UNCHANGED <<getOnly, recovery, lock, net, history, stops>>

\* The checks of reserve, made before anything is written.
MayReserve(k) ==
  LET i == proc[k].of IN
  /\ Current(k)
  /\ proc[k].cmd = "action" => proc[k].seen.phase = "prepared"
  /\ proc[k].cmd # "status" => ~getOnly[i].there

\* reserve, first write: the get-only marker, unless a status finds one.
ReserveGetOnly(k) ==
  /\ At(k, "reserve") /\ MayReserve(k)
  /\ LET i == proc[k].of
         mine == ~getOnly[i].there
     IN /\ getOnly' = [getOnly EXCEPT ![i] = IF mine THEN Written(proc[k].seen.rev + 1) ELSE @]
        /\ lock' = [lock EXCEPT ![i] = k]
        /\ proc' = [proc EXCEPT ![k].at = "fence", ![k].token = mine]
  /\ UNCHANGED <<receipt, recovery, net, history, stops>>

\* reserve, second write: the recovery marker of a creation about to be dispatched.
Fences(k) == proc[k].cmd = "action" /\ proc[k].of \in Creates
MayFence(k) ==
  LET m == recovery[proc[k].of] IN
  IF Fences(k) THEN ~m.there ELSE m.there => Readable(m, proc[k].seen)
ReserveRecovery(k) ==
  /\ At(k, "fence") /\ MayFence(k)
  /\ LET i == proc[k].of IN
     /\ recovery' = [recovery EXCEPT ![i] = IF Fences(k) THEN Written(proc[k].seen.rev + 1) ELSE @]
     /\ proc' = [proc EXCEPT ![k].at = "commit", ![k].fence = Fences(k) \/ recovery[i].there]
  /\ UNCHANGED <<receipt, getOnly, lock, net, history, stops>>

\* reserve, last write: the receipt, before anything is sent.
ReserveReceipt(k) ==
  /\ At(k, "commit")
  /\ LET r == Bumped(proc[k].seen, IF proc[k].cmd = "action" THEN "dispatch_started"
                                                            ELSE proc[k].seen.phase)
     IN Replace(proc[k].of, r) /\ GoesWith(k, "post", r)
  /\ lock' = [lock EXCEPT ![proc[k].of] = Nobody]
  /\ UNCHANGED <<getOnly, recovery, net, history, stops>>

\* observe: the markers are still those of the reservation (or were none), and a
\* creation's first result needs its fence.
Completes(k) == answer[k] = "completed" /\ proc[k].of \in Creates
MayObserve(k) ==
  LET i == proc[k].of IN
  /\ Current(k)
  /\ proc[k].fence = recovery[i].there
  /\ proc[k].fence => Readable(recovery[i], proc[k].seen)
  /\ Completes(k) => proc[k].seen.proof \/ proc[k].fence
  /\ proc[k].token => getOnly[i] = Written(proc[k].seen.rev)
ObservedEarly(k) == [Bumped(proc[k].seen, proc[k].seen.phase) EXCEPT !.proof = @ \/ proc[k].fence]
ObservedAlways(k) == [Bumped(proc[k].seen, "terminal_observed") EXCEPT !.proof = @ \/ Completes(k)]
Observed(k) ==
  LET r == Bumped(proc[k].seen, IF answer[k] \in Terminal THEN "terminal_observed"
                                                         ELSE proc[k].seen.phase)
  IN [r EXCEPT !.proof = @ \/ Completes(k)]
Observe(k) ==
  /\ At(k, "observe") /\ MayObserve(k)
  /\ Replace(proc[k].of, Observed(k)) /\ GoesWith(k, "unban", Observed(k))
  /\ lock' = [lock EXCEPT ![proc[k].of] = k]
  /\ UNCHANGED <<getOnly, recovery, net, history, stops>>

\* observe, second part: the unlink is the commit; only the own marker goes.
AnyBan(k) == TRUE
OwnBan(k) == proc[k].token
RemoveGetOnly(k) ==
  /\ At(k, "unban") /\ Goes(k, "unfence")
  /\ LET i == proc[k].of IN
     /\ getOnly' = [getOnly EXCEPT ![i] = IF OwnBan(k) THEN Absent ELSE @]
     /\ open' = [open EXCEPT ![i] = @ \ {k}]
  /\ UNCHANGED <<receipt, recovery, lock, net, sent, stops>>

LiftsFenceAlways(k) == proc[k].fence
LiftsFence(k) == Completes(k) /\ proc[k].fence
RemoveRecovery(k) ==
  /\ At(k, "unfence") /\ Goes(k, "done")
  /\ LET i == proc[k].of IN
     /\ recovery' = [recovery EXCEPT ![i] = IF LiftsFence(k) THEN Absent ELSE @]
     /\ lock' = [lock EXCEPT ![i] = Nobody]
  /\ UNCHANGED <<receipt, getOnly, net, history, stops>>

-----------------------------------------------------------------------------
(* The commands.  *)

\* owned-interrupt and owned-close need authority over a finished creation.
StartAction(k, i) ==
  /\ At(k, "start") /\ "action" \in Runs[k]
  /\ \A j \in Procs : proc[j].of = i => proc[j].cmd # "action"
  /\ i \in Dependents => Authorized(SourceOf[i])
  /\ proc' = [proc EXCEPT ![k] = [Idle EXCEPT !.at = "create", !.cmd = "action", !.of = i]]
  /\ UNCHANGED <<files, lock, net, history, stops>>

\* create: a fresh receipt; a dependent one carries the proof of its source.
CreateReceipt(k) ==
  /\ At(k, "create")
  /\ LET i == proc[k].of
         r == [rev |-> 0, phase |-> "created", op |-> FALSE, proof |-> i \in Dependents]
     IN /\ Unlocked(i) /\ receipt[i] = None
        /\ Replace(i, r) /\ GoesWith(k, "begin", r)
  /\ UNCHANGED <<getOnly, recovery, lock, net, history, stops>>

BeginPrepare(k) == Transition(k, "begin", "prepare_started", "ask")
Bind(k) == Transition(k, "bind", "prepared", "reserve")

\* prepare failed or its answer is unusable: on record if that still works.
PrepareUnknown(k) ==
  \/ Transition(k, "unknown", "prepare_unknown", "gone")
  \/ /\ At(k, "unknown") /\ Goes(k, "gone")
     /\ UNCHANGED <<files, lock, net, history, stops>>

\* lifecycle-status and lifecycle-cancel read the receipt and need an operation in it.
StartRecovery(k, i, cmd) ==
  /\ At(k, "start") /\ cmd \in Runs[k] /\ receipt[i] # None /\ Unlocked(i) /\ receipt[i].op
  /\ proc' = [proc EXCEPT ![k] = [Idle EXCEPT !.cmd = cmd, !.of = i, !.seen = receipt[i],
                                              !.at = IF cmd = "cancel" THEN "allowed" ELSE "reserve"]]
  /\ UNCHANGED <<files, lock, net, history, stops>>

\* cancel_allowed: a first look, before the reservation looks again.
CancelAllowed(k) ==
  /\ At(k, "allowed") /\ Current(k) /\ ~getOnly[proc[k].of].there
  /\ Goes(k, "reserve")
  /\ UNCHANGED <<files, lock, net, history, stops>>

\* The one POST of a command; a prepare has no effect on the resource.
Mutates(k) == At(k, "post") /\ proc[k].cmd \in {"action", "cancel"}
Post(k) ==
  /\ At(k, "ask") \/ At(k, "post")
  /\ wire' = wire \cup {[from |-> k, what |-> IF At(k, "ask") THEN "prepare" ELSE proc[k].cmd]}
  /\ Goes(k, IF At(k, "ask") THEN "prepared" ELSE "wait")
  /\ open' = [open EXCEPT ![proc[k].of] = IF Mutates(k) THEN @ \cup {k} ELSE @]
  /\ sent' = [sent EXCEPT ![proc[k].of] = IF Mutates(k) THEN @ + 1 ELSE @]
  /\ answer' = [answer EXCEPT ![k] = "none"]
  /\ UNCHANGED <<files, lock, server, stops>>

\* A checked answer: checked_prepare, checked_operation, checked_cancel.
Receive(k) ==
  /\ answer[k] # "none"
  /\ \/ At(k, "prepared") /\ Goes(k, "bind")
     \/ At(k, "wait") /\ Goes(k, "observe")
  /\ UNCHANGED <<files, lock, net, history, stops>>

\* Timeout, transport error, or an answer that fails its check.
Lost(k) ==
  /\ \/ At(k, "prepared") /\ Goes(k, "unknown")
     \/ At(k, "wait") /\ Goes(k, "gone")
  /\ UNCHANGED <<files, lock, net, history, stops>>

\* A store call refuses: the lock is busy, the receipt changed, a marker is in the way.
Refused(k) ==
  LET i == proc[k].of IN
  /\ \/ At(k, "create") /\ ~(Unlocked(i) /\ receipt[i] = None)
     \/ proc[k].at \in {"begin", "bind"} /\ ~Current(k)
     \/ At(k, "allowed") /\ ~(Current(k) /\ ~getOnly[i].there)
     \/ At(k, "reserve") /\ ~MayReserve(k)
     \/ At(k, "fence") /\ ~MayFence(k)
     \/ At(k, "observe") /\ ~MayObserve(k)
  /\ Goes(k, "gone")
  /\ lock' = [lock EXCEPT ![i] = IF @ = k THEN Nobody ELSE @]
  /\ UNCHANGED <<files, net, history, stops>>

\* Death or an I/O error, at any step; a marker being written may be left torn.
Stop(k) ==
  LET i == proc[k].of
      tearsGetOnly == At(k, "reserve") /\ MayReserve(k) /\ ~getOnly[i].there
      tearsRecovery == At(k, "fence") /\ Fences(k) /\ MayFence(k)
  IN
  /\ ~At(k, "start") /\ ~At(k, "done") /\ ~At(k, "gone") /\ stops < MaxStops
  /\ \E g \in {getOnly[i]} \cup (IF tearsGetOnly THEN {Torn} ELSE {}),
        f \in {recovery[i]} \cup (IF tearsRecovery THEN {Torn} ELSE {}) :
       /\ getOnly' = [getOnly EXCEPT ![i] = g]
       /\ recovery' = [recovery EXCEPT ![i] = f]
  /\ Goes(k, "gone")
  /\ lock' = [lock EXCEPT ![i] = IF @ = k THEN Nobody ELSE @]
  /\ stops' = stops + 1
  /\ UNCHANGED <<receipt, net, history>>

-----------------------------------------------------------------------------
(* The web service, as the client may rely on it: a ticket admits one        *)
(* dispatch, a cancellation comes before the effect or too late.             *)

Effect(what, state) ==
  CASE what = "prepare" /\ state = "none" -> {"prepared"}
    [] what = "action" /\ state = "prepared" -> {"queued", "spawned", "completed", "rejected"}
    [] what = "cancel" /\ state \in {"prepared", "queued"} -> {"cancelled"}
    [] OTHER -> {state}
Serve(m) ==
  /\ m \in wire /\ wire' = wire \ {m}
  /\ LET i == proc[m.from].of IN
     \E state \in Effect(m.what, server[i]) :
       /\ server' = [server EXCEPT ![i] = state]
       /\ answer' = [answer EXCEPT ![m.from] = state]
  /\ UNCHANGED <<files, lock, proc, history, stops>>

\* The operation proceeds by itself, and a request may never arrive.
Progress(i) ==
  /\ \/ server[i] = "prepared" /\ server' = [server EXCEPT ![i] = "rejected"]
     \/ server[i] = "queued" /\ \E s \in {"spawned", "completed", "rejected"} :
                                  server' = [server EXCEPT ![i] = s]
     \/ server[i] = "spawned" /\ server' = [server EXCEPT ![i] = "completed"]
  /\ UNCHANGED <<files, lock, proc, wire, answer, history, stops>>

Command(k) ==
  \/ \E i \in Intents : StartAction(k, i)
  \/ \E i \in Intents, cmd \in {"status", "cancel"} : StartRecovery(k, i, cmd)
  \/ CreateReceipt(k) \/ BeginPrepare(k) \/ Bind(k) \/ PrepareUnknown(k) \/ CancelAllowed(k)
  \/ Post(k) \/ Receive(k) \/ Lost(k)
StoreStep(k) ==
  \/ ReserveGetOnly(k) \/ ReserveRecovery(k) \/ ReserveReceipt(k)
  \/ Observe(k) \/ RemoveGetOnly(k) \/ RemoveRecovery(k) \/ Refused(k) \/ Stop(k)

Next ==
  \/ \E k \in Procs : Command(k) \/ StoreStep(k)
  \/ \E m \in wire : Serve(m)
  \/ \E i \in Intents : Progress(i)

Spec == Init /\ [][Next]_vars

-----------------------------------------------------------------------------
(* Properties *)

\* What the theorems assume: an intent creates or depends, and what a variable may hold
\* instead of a process, an intent or a receipt is none.
LifecycleAssumption ==
  /\ Creates \cap Dependents = {}
  /\ Nobody \notin Procs /\ None \notin Intents /\ None \notin Receipts
  /\ MaxStops \in Nat

\* Receipts satisfy what validate demands, and whoever is between two writes has the lock.
LifecycleTypeOK ==
  /\ \A i \in Intents :
       /\ receipt[i] # None => ReceiptOK(i, receipt[i])
       /\ lock[i] \in Procs => proc[lock[i]].of = i /\ proc[lock[i]].at \in {"fence", "commit", "unban", "unfence"}
  /\ wire \subseteq [from: Procs, what: {"prepare", "action", "status", "cancel"}]
  /\ \A k \in Procs : answer[k] \in {"none"} \cup Results
  /\ stops \in 0..MaxStops

\* A terminal receipt is the service's own outcome, and the proof of a creation
\* is there only if the resource is: observe never records a guess.
ReceiptHonest ==
  \A i \in Intents : receipt[i] # None =>
    /\ receipt[i].phase = "terminal_observed" => server[i] \in Terminal
    /\ i \in Creates /\ receipt[i].proof => server[i] = "completed"

\* A creation that was dispatched can be asked about until its result is on disk:
\* the fence that observe demands is whole and readable (reserve writes it first,
\* observe removes it last).
ResultRecoverable ==
  \A c \in Creates : receipt[c] # None /\ receipt[c].phase = "dispatch_started"
                      => Readable(recovery[c], receipt[c])

\* reserve and cancel_allowed: a POST with an effect leaves only when every earlier
\* one of its intent is accounted for, also one that is still under way.
Contract == INSTANCE NoReplay WITH open <- [i \in Intents |-> Cardinality(open[i])]
NoReplay == Contract!Spec

\* What a dependent process relies on is never withdrawn: a receipt's result, once
\* on disk, is not replaced by another (observe, transition compare before they write).
KeepsResult ==
  \A i \in Intents : receipt[i] # None /\ receipt[i].phase = "terminal_observed" =>
       receipt'[i].phase = "terminal_observed" /\ receipt'[i].proof = receipt[i].proof

LifecycleSafe == ReceiptHonest /\ ResultRecoverable
=============================================================================
