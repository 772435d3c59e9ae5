---------------------------- MODULE HerdrUIAnswer ----------------------------
(***************************************************************************)
(* Answering a prompt of the user interface step by step                   *)
(* (bin/harness_herdr_ui_answer.py, bin/harness_herdr_ui_receipt.py).      *)
(*                                                                         *)
(* One intent: a prepared workflow of several steps.  Every command is a   *)
(* process of its own that reads the receipt, asks the service, and        *)
(* replaces the receipt if it is still the one it has read.  A step first  *)
(* records its attempt and then reserves the step-ban marker; only the     *)
(* ready answer to that attempt gives both back.                           *)
(***************************************************************************)
EXTENDS Naturals, FiniteSets

CONSTANTS Procs,      \* processes, one command each
          Nobody,     \* a lock that is free
          None,       \* no receipt, attempt or result
          Torn,       \* a marker whose writing was interrupted
          StepCount,  \* steps of the workflow
          MaxStops    \* bound: processes that die or meet an I/O error

VARIABLES
  receipt,   \* the receipt file
  ban,       \* the step-ban marker: the generation it was reserved for
  lock,      \* holder of the intent's lock file
  proc,      \* program counter and locals of each process
  wire,      \* requests that may still reach the service
  answer,    \* what the service answered each process
  workflow,  \* the workflow as the service has it
  open,      \* steps sent whose outcome is not on record (history only)
  sent,      \* steps sent (history only)
  cancels,   \* cancellations sent (history only)
  stops

net == <<wire, answer, workflow>>
history == <<open, sent, cancels>>
vars == <<receipt, ban, lock, proc, net, history, stops>>

\* A workflow the service answers with; Mismatched is an answer about another one.
States == {"ready", "awaiting_operation", "stopped", "completed_ui_sequence", "cancelled"}
Workflows == [state: States, next: 0..StepCount, rev: Nat]
Mismatched == [state |-> "mismatch", next |-> 0, rev |-> 0]
WorkflowOK(w) == w \in Workflows /\ (w.state = "ready" => w.next < StepCount)

\* validate: a known workflow has no attempt, a started step has one.
Phases == {"prepare_started", "known", "step_started", "uncertain", "cancel_started"}
ReceiptOK(r) ==
  /\ r.gen \in Nat /\ r.phase \in Phases
  /\ r.result # None => r.learned /\ WorkflowOK(r.result)
  /\ r.phase = "known" => r.learned /\ r.attempt = None
  /\ r.phase = "step_started" => r.attempt # None

Idle == [at |-> "start", cmd |-> "none", seen |-> None]
Absent == 0  \* generations of a reserved marker start at 1

Init ==
  /\ receipt = None /\ ban = Absent /\ lock = Nobody
  /\ proc = [k \in Procs |-> Idle]
  /\ wire = {} /\ answer = [k \in Procs |-> None] /\ workflow = None
  /\ open = {} /\ sent = 0 /\ cancels = 0 /\ stops = 0

At(k, step) == proc[k].at = step
Goes(k, step) == proc' = [proc EXCEPT ![k].at = step]
GoesWith(k, step, r) == proc' = [proc EXCEPT ![k].at = step, ![k].seen = r]

-----------------------------------------------------------------------------
(* The receipt store.  *)

CurrentUnread(k) == lock = Nobody
Current(k) == lock = Nobody /\ receipt = proc[k].seen

\* transition: the next generation, its attempt replaced, its result kept or replaced.
LaterKeepsAttempt(r, phase, attempt, result) ==
  [r EXCEPT !.gen = @ + 1, !.phase = phase, !.attempt = IF attempt = None THEN @ ELSE attempt,
            !.learned = @ \/ result # None, !.result = IF result = None THEN @ ELSE result]
Later(r, phase, attempt, result) ==
  [r EXCEPT !.gen = @ + 1, !.phase = phase, !.attempt = attempt,
            !.learned = @ \/ result # None, !.result = IF result = None THEN @ ELSE result]
Publish(k, to, r) == receipt' = r /\ GoesWith(k, to, r)

\* create: the receipt of a new workflow, before its prepare is sent.
Prepare(k) ==
  /\ At(k, "start") /\ receipt = None /\ lock = Nobody
  /\ LET r == [gen |-> 0, phase |-> "prepare_started", learned |-> FALSE,
               attempt |-> None, result |-> None]
     IN receipt' = r /\ proc' = [proc EXCEPT ![k] = [at |-> "post", cmd |-> "prepare", seen |-> r]]
  /\ UNCHANGED <<ban, lock, net, history, stops>>

\* What a command demands of the receipt it reads; a step names the recorded result.
MayStep(r) == r.phase = "known" /\ r.attempt = None /\ r.result # None /\ r.result.state = "ready"
MayCancelTwice(r) == r.phase # "prepare_started"
MayCancel(r) == r.phase \notin {"prepare_started", "cancel_started"}
Begin(k, cmd) ==
  /\ At(k, "start") /\ receipt # None /\ lock = Nobody /\ receipt.learned
  /\ cmd = "step" => MayStep(receipt)
  /\ cmd = "cancel" => MayCancel(receipt)
  /\ proc' = [proc EXCEPT ![k] = [at |-> IF cmd = "status" THEN "post" ELSE "reserve",
                                  cmd |-> cmd, seen |-> receipt]]
  /\ UNCHANGED <<receipt, ban, lock, net, history, stops>>

\* The reservation of a step: its attempt on record, then the marker.
Attempt(r) == [step |-> r.result.next, rev |-> r.result.rev]
MayReserve(k) == Current(k) /\ (proc[k].cmd = "step" => ban = Absent)
Reserve(k) ==
  /\ At(k, "reserve") /\ MayReserve(k)
  /\ LET r == proc[k].seen IN
     IF proc[k].cmd = "step"
     THEN Publish(k, "ban", Later(r, "step_started", Attempt(r), None)) /\ lock' = k
     ELSE Publish(k, "post", Later(r, "cancel_started", r.attempt, None)) /\ UNCHANGED lock
  /\ UNCHANGED <<ban, net, history, stops>>
ReserveMarker(k) ==
  /\ At(k, "ban") /\ Goes(k, "post")
  /\ ban' = proc[k].seen.gen /\ lock' = Nobody
  /\ UNCHANGED <<receipt, net, history, stops>>

\* dispatch: the one request of the command.
Post(k) ==
  /\ At(k, "post") /\ Goes(k, "wait")
  /\ wire' = wire \cup {[from |-> k, what |-> proc[k].cmd, attempt |-> proc[k].seen.attempt]}
  /\ open' = IF proc[k].cmd = "step" THEN open \cup {k} ELSE open
  /\ sent' = IF proc[k].cmd = "step" THEN sent + 1 ELSE sent
  /\ cancels' = IF proc[k].cmd = "cancel" THEN cancels + 1 ELSE cancels
  /\ UNCHANGED <<receipt, ban, lock, answer, workflow, stops>>

\* A step is answered by a later revision, and by the next step if it is ready.
Answered(k) == At(k, "wait") /\ answer[k] # None
Mismatch(k) == Answered(k) /\ answer[k] = Mismatched
Accepted(k) ==
  /\ Answered(k) /\ answer[k] # Mismatched
  /\ proc[k].cmd = "step" =>
       /\ answer[k].rev > proc[k].seen.attempt.rev
       /\ answer[k].state = "ready" => answer[k].next = proc[k].seen.attempt.step + 1

\* The phase an accepted answer leaves: a status never gives admission back.
StatusRestores(k) == IF answer[k].state = "ready" THEN "known" ELSE proc[k].seen.phase
StatusPhase(k) == proc[k].seen.phase
PhaseAfter(k) ==
  CASE proc[k].cmd = "cancel" -> "cancel_started"
    [] proc[k].cmd = "status" -> StatusPhase(k)
    [] OTHER -> IF answer[k].state = "ready" THEN "known" ELSE "uncertain"

\* Releasing takes the marker that this very generation has reserved.
Releases(k) == proc[k].seen.phase = "step_started" /\ PhaseAfter(k) = "known"
MayRecord(k) == Current(k) /\ (Releases(k) => ban = proc[k].seen.gen)
Record(k) ==
  /\ Accepted(k) /\ MayRecord(k)
  /\ LET kept == IF proc[k].cmd = "status" /\ PhaseAfter(k) # "known" THEN proc[k].seen.attempt ELSE None
     IN Publish(k, IF Releases(k) THEN "unban" ELSE "done",
                Later(proc[k].seen, PhaseAfter(k), kept, answer[k]))
  /\ lock' = IF Releases(k) THEN k ELSE Nobody
  /\ UNCHANGED <<ban, net, history, stops>>
ReleaseMarker(k) ==
  /\ At(k, "unban") /\ Goes(k, "done")
  /\ ban' = Absent /\ lock' = Nobody
  /\ open' = open \ {k}
  /\ UNCHANGED <<receipt, net, sent, cancels, stops>>

\* The answer is lost, refused, or cannot be recorded.
Fails(k) ==
  /\ Answered(k) /\ ~(Accepted(k) /\ MayRecord(k))
  /\ proc' = [proc EXCEPT ![k].at = IF proc[k].cmd = "status" /\ ~Mismatch(k) THEN "gone" ELSE "doubt"]
  /\ UNCHANGED <<receipt, ban, lock, net, history, stops>>
TimesOut(k) ==
  /\ At(k, "wait")
  /\ answer' = [answer EXCEPT ![k] = None]
  /\ proc' = [proc EXCEPT ![k].at = IF proc[k].cmd = "status" THEN "gone" ELSE "doubt"]
  /\ UNCHANGED <<receipt, ban, lock, wire, workflow, history, stops>>

\* Best effort: the doubt goes on record, as a ban of every POST if the tuple differs.
Doubt(k) ==
  /\ At(k, "doubt")
  /\ \/ /\ Current(k)
        /\ LET phase == IF proc[k].cmd = "cancel" \/ answer[k] = Mismatched
                        THEN "cancel_started" ELSE "uncertain"
           IN Publish(k, "gone", Later(proc[k].seen, phase, proc[k].seen.attempt, None))
     \/ Goes(k, "gone") /\ UNCHANGED receipt
  /\ UNCHANGED <<ban, lock, net, history, stops>>

Refused(k) ==
  /\ At(k, "reserve") /\ ~MayReserve(k) /\ Goes(k, "gone")
  /\ UNCHANGED <<receipt, ban, lock, net, history, stops>>

\* Death, at any step; the marker being reserved may be left torn.
Stop(k) ==
  /\ proc[k].at \notin {"start", "done", "gone"} /\ stops < MaxStops
  /\ ban' \in {ban} \cup (IF At(k, "ban") THEN {Torn} ELSE {})
  /\ Goes(k, "gone") /\ stops' = stops + 1
  /\ lock' = IF lock = k THEN Nobody ELSE lock
  /\ UNCHANGED <<receipt, net, history>>

-----------------------------------------------------------------------------
(* The web service: a step is taken if it is the expected one.  *)

After(w) ==
  {[w EXCEPT !.next = @ + 1, !.rev = @ + 1,
             !.state = IF w.next + 1 = StepCount THEN "completed_ui_sequence" ELSE "ready"],
   [w EXCEPT !.rev = @ + 1, !.state = "stopped"]}
Taken(m) ==
  CASE m.what = "prepare" -> {[state |-> "ready", next |-> 0, rev |-> 0],
                              [state |-> "stopped", next |-> 0, rev |-> 0]}
    [] m.what = "step" /\ workflow.state = "ready"
         /\ m.attempt = [step |-> workflow.next, rev |-> workflow.rev] ->
         After(workflow) \cup {[workflow EXCEPT !.state = "awaiting_operation", !.rev = @ + 1]}
    [] m.what = "cancel" /\ workflow.state \in {"ready", "awaiting_operation"} ->
         {[workflow EXCEPT !.state = "cancelled", !.rev = @ + 1]}
    [] OTHER -> {workflow}
Serve(m) ==
  /\ m \in wire /\ wire' = wire \ {m}
  /\ workflow' \in Taken(m)
  /\ \E a \in {workflow', Mismatched} : answer' = [answer EXCEPT ![m.from] = a]
  /\ UNCHANGED <<receipt, ban, lock, proc, history, stops>>
Progress ==
  /\ workflow # None /\ workflow.state = "awaiting_operation"
  /\ workflow' \in After(workflow)
  /\ UNCHANGED <<receipt, ban, lock, proc, wire, answer, history, stops>>

Command(k) ==
  \/ Prepare(k) \/ \E cmd \in {"step", "status", "cancel"} : Begin(k, cmd)
  \/ Reserve(k) \/ ReserveMarker(k) \/ Post(k) \/ Record(k) \/ ReleaseMarker(k)
  \/ Fails(k) \/ TimesOut(k) \/ Doubt(k) \/ Refused(k) \/ Stop(k)
Next == (\E k \in Procs : Command(k)) \/ (\E m \in wire : Serve(m)) \/ Progress

Spec == Init /\ [][Next]_vars

-----------------------------------------------------------------------------
(* Properties *)

\* What the variables may hold.
Attempts == [step : Nat, rev : Nat]
Receipts ==
  [gen : Nat, phase : Phases, learned : BOOLEAN,
   attempt : Attempts \cup {None}, result : Workflows \cup {None}]
Places == {"start", "reserve", "ban", "post", "wait", "doubt", "unban", "done", "gone"}
Commands == {"none", "prepare", "step", "status", "cancel"}
Messages == [from : Procs, what : Commands \ {"none"}, attempt : Attempts \cup {None}]

\* What the theorems assume: a workflow has a step, and what a variable may hold
\* instead of a process or a record is neither.
UIAnswerAssumption ==
  /\ StepCount \in Nat \ {0}
  /\ Nobody \notin Procs
  /\ None \notin Attempts /\ None \notin Workflows /\ None \notin Receipts /\ None # Mismatched

\* Every receipt on disk passes validate, and the lock is held only between two writes.
UIAnswerTypeOK ==
  /\ receipt \in Receipts \cup {None} /\ ban \in Nat \cup {Torn} /\ lock \in Procs \cup {Nobody}
  /\ proc \in [Procs -> [at : Places, cmd : Commands, seen : Receipts \cup {None}]]
  /\ wire \subseteq Messages
  /\ answer \in [Procs -> Workflows \cup {Mismatched, None}]
  /\ workflow \in Workflows \cup {None}
  /\ open \subseteq Procs /\ sent \in Nat /\ cancels \in Nat
  /\ receipt # None => ReceiptOK(receipt)
  /\ \A k \in Procs : lock = k <=> proc[k].at \in {"ban", "unban"}
  /\ workflow # None => WorkflowOK(workflow)

\* reserve_marker and MayStep: no step leaves while the outcome of an earlier one is
\* not on record, whatever was lost and whatever a status has learned since.
Contract == INSTANCE NoReplay WITH Intents <- {"i"}, open <- [i \in {"i"} |-> Cardinality(open)],
                                   sent <- [i \in {"i"} |-> sent]
NoReplay == Contract!Spec

\* A receipt that admits a step names the step the service is at: no earlier step can
\* still take effect behind it.  ("A later GET does not restore step admission.")
AdmitsFreshStep ==
  receipt # None /\ MayStep(receipt) /\ ban = Absent /\ lock = Nobody =>
    workflow.next = receipt.result.next /\ \A m \in wire : m.what # "step"

\* docs/herdr-ui-answer-cli.md:54: "Cancel is sent once after its durable marker".
CancelOnce == cancels <= 1

\* transition compares before it writes: a late status never replaces a newer result.
KeepsResult ==
  receipt # None /\ receipt.result # None => receipt'.result.rev >= receipt.result.rev

AnswerSafe == AdmitsFreshStep /\ CancelOnce
=============================================================================
