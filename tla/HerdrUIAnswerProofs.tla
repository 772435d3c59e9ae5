------------------------- MODULE HerdrUIAnswerProofs -------------------------
(***************************************************************************)
(* Theorems about HerdrUIAnswer, for every number of processes, steps and  *)
(* deaths: no step is sent while an earlier one is unaccounted for, a      *)
(* receipt that admits a step names the step the service is at, and a      *)
(* cancel is sent once.  And about HerdrLifecycle, at the end.             *)
(*                                                                         *)
(* The argument: generations only grow, so whoever still sees the receipt  *)
(* on disk has missed nothing (Seen); the process whose step is under way  *)
(* owns the marker, and there is one such process (Banned); a cancellation *)
(* is for ever (Cancelling); and while the phase is "known" nothing that   *)
(* could move the service is on its way to it (Settled).                   *)
(***************************************************************************)
EXTENDS HerdrUIAnswer, FiniteSetTheorems, TLAPS

\* A workflow that can go on has a step left.
Fits(w) == w.state \in {"ready", "awaiting_operation"} => w.next < StepCount

TypesOK ==
  /\ receipt \in Receipts \cup {None} /\ ban \in Nat \cup {Torn} /\ lock \in Procs \cup {Nobody}
  /\ proc \in [Procs -> [at : Places, cmd : Commands, seen : Receipts \cup {None}]]
  /\ wire \subseteq Messages
  /\ answer \in [Procs -> Workflows \cup {Mismatched, None}]
  /\ workflow \in Workflows \cup {None}
  /\ open \subseteq Procs /\ sent \in Nat /\ cancels \in Nat
FitsOK ==
  /\ workflow # None => Fits(workflow)
  /\ \A k \in Procs : answer[k] \in Workflows => Fits(answer[k])
  /\ receipt # None => ReceiptOK(receipt)
  /\ \A k \in Procs : ~At(k, "start") => ReceiptOK(proc[k].seen)

\* What a process knows by its place.
SeenBy(k) ==
  /\ proc[k].cmd = "none" <=> At(k, "start")
  /\ ~At(k, "start") => receipt # None /\ proc[k].seen # None /\ proc[k].seen.gen <= receipt.gen
  /\ At(k, "reserve") =>
       /\ proc[k].cmd \in {"step", "cancel"}
       /\ proc[k].cmd = "step" => MayStep(proc[k].seen)
       /\ proc[k].cmd = "cancel" => MayCancel(proc[k].seen)
  /\ proc[k].cmd = "step" /\ proc[k].at \in {"ban", "post", "wait", "doubt"} =>
       proc[k].seen.phase = "step_started" /\ proc[k].seen.gen > 0
  /\ proc[k].cmd = "prepare" /\ proc[k].at \in {"post", "wait", "doubt"} =>
       proc[k].seen.phase = "prepare_started" /\ ~proc[k].seen.learned
  /\ proc[k].at \in {"ban", "unban"} => proc[k].cmd = "step"
  /\ proc[k].cmd = "status" /\ At(k, "doubt") => answer[k] = Mismatched
  /\ At(k, "unban") => answer[k] # None
  /\ At(k, "ban") => receipt = proc[k].seen
Seen == \A k \in Procs : SeenBy(k)

\* A process sends one message, and has its answer only when it was taken.
Mail ==
  /\ \A m \in wire : proc[m.from].at \notin {"start", "reserve", "ban", "post"}
                     /\ m.what = proc[m.from].cmd /\ answer[m.from] = None
  /\ \A m, n \in wire : m.from = n.from => m = n
  /\ \A k \in Procs : proc[k].at \in {"start", "reserve", "ban", "post"} => answer[k] = None

\* Nothing but one prepare happens before its answer is on record.
Prepared ==
  /\ receipt = None => workflow = None /\ \A k \in Procs : At(k, "start")
  /\ \A j, k \in Procs : proc[j].cmd = "prepare" /\ proc[k].cmd = "prepare" => j = k
  /\ \A k \in Procs : proc[k].cmd \in {"step", "status", "cancel"} => receipt.learned
  /\ receipt # None /\ receipt.learned => workflow # None /\ \A m \in wire : m.what # "prepare"
  /\ workflow # None => \A m \in wire : m.what # "prepare"
  /\ \A k \in Procs : proc[k].cmd = "prepare" /\ At(k, "post") => workflow = None /\ ~receipt.learned
  /\ \A k \in Procs : answer[k] # None => workflow # None

\* The one process whose step is under way owns the marker.
Stepping(k) == proc[k].cmd = "step" /\ proc[k].at \in {"post", "wait", "unban"}
Banned ==
  /\ \A k \in Procs : lock = k <=> proc[k].at \in {"ban", "unban"}
  /\ \A k \in Procs : At(k, "ban") => ban = Absent /\ open = {}
  /\ \A k \in Procs : Stepping(k) => ban # Absent /\ (~At(k, "unban") => ban = proc[k].seen.gen)
  /\ \A j, k \in Procs : Stepping(j) /\ Stepping(k) => j = k
  /\ \A k \in Procs : Stepping(k) => open = IF At(k, "post") THEN {} ELSE {k}
  /\ open # {} => ban # Absent
  /\ \A m \in wire : m.what = "step" => m.from \in open
  /\ open = {} \/ \E k \in Procs : open = {k}

\* A cancellation is for ever, and one.
Cancelling ==
  /\ \A k \in Procs : proc[k].cmd = "cancel" /\ proc[k].at \in {"post", "wait", "doubt", "done"} =>
       receipt.phase = "cancel_started"
  /\ \A k \in Procs : proc[k].cmd = "cancel" /\ At(k, "post") => cancels = 0
  /\ \A j, k \in Procs :
       proc[j].cmd = "cancel" /\ At(j, "post") /\ proc[k].cmd = "cancel" /\ At(k, "post") => j = k
  /\ cancels > 0 => receipt # None /\ receipt.phase = "cancel_started"
  /\ \A m \in wire : m.what = "cancel" => cancels > 0
  /\ CancelOnce

\* While the phase is "known", the result is the workflow, and nothing moves it.
Settled ==
  receipt # None /\ receipt.phase = "known" =>
    /\ receipt.result = workflow /\ workflow.state = "ready"
    /\ \A m \in wire : m.what = "status"
    /\ \A k \in Procs : Stepping(k) => At(k, "unban")
\* An answer that would bring that about is the workflow as it is.
TimelyBy(k) ==
  At(k, "wait") /\ answer[k] \in Workflows /\ proc[k].seen = receipt /\ PhaseAfter(k) = "known" =>
    answer[k] = workflow
Timely == \A k \in Procs : TimelyBy(k)

\* Revisions only grow.
Ordered ==
  /\ receipt # None /\ receipt.result # None => receipt.result.rev <= workflow.rev
  /\ \A k \in Procs : ~At(k, "start") /\ proc[k].seen.result # None =>
       workflow # None /\ proc[k].seen.result.rev <= workflow.rev
  /\ \A k \in Procs : At(k, "wait") /\ answer[k] \in Workflows =>
       /\ answer[k].rev <= workflow.rev
       /\ proc[k].seen.result # None => proc[k].seen.result.rev <= answer[k].rev

UIAnswerInv ==
  /\ TypesOK /\ FitsOK /\ Seen /\ Mail /\ Prepared
  /\ Banned /\ Cancelling /\ Settled /\ Timely /\ Ordered

\* A process that ends without a trace, and one whose doubt goes on record.
GivesUp(k) ==
  /\ proc[k].at \in {"reserve", "doubt"} /\ Goes(k, "gone")
  /\ UNCHANGED <<receipt, ban, lock, net, history>>
RecordsDoubt(k) ==
  /\ At(k, "doubt") /\ Current(k)
  /\ \E phase \in {"cancel_started", "uncertain"} :
       /\ proc[k].cmd = "cancel" \/ answer[k] = Mismatched => phase = "cancel_started"
       /\ Publish(k, "gone", Later(proc[k].seen, phase, proc[k].seen.attempt, None))
  /\ UNCHANGED <<ban, lock, net, history>>

-----------------------------------------------------------------------------
(* What the helpers of the actions do.  *)

ProcType == [Procs -> [at : Places, cmd : Commands, seen : Receipts \cup {None}]]

LEMMA LaterReceipt ==
  ASSUME NEW r \in Receipts, NEW phase \in Phases,
         NEW attempt \in Attempts \cup {None}, NEW result \in Workflows \cup {None},
         NEW n, n = Later(r, phase, attempt, result)
  PROVE  /\ n \in Receipts
         /\ n.gen = r.gen + 1 /\ n.gen > r.gen /\ n.phase = phase /\ n.attempt = attempt
         /\ n.learned <=> r.learned \/ result # None
         /\ n.result = IF result = None THEN r.result ELSE result
  <1>1. r = [gen |-> r.gen, phase |-> r.phase, learned |-> r.learned, attempt |-> r.attempt,
             result |-> r.result] /\ r.gen \in Nat /\ r.learned \in BOOLEAN
        /\ r.result \in Workflows \cup {None}
    BY DEF Receipts
  <1> DEFINE learned == r.learned \/ result # None
             kept == IF result = None THEN r.result ELSE result
  <1>2. learned \in BOOLEAN /\ kept \in Workflows \cup {None}
    BY <1>1
  <1>3. n = [r EXCEPT !.gen = r.gen + 1, !.phase = phase, !.attempt = attempt,
                      !.learned = learned, !.result = kept]
    BY DEF Later
  <1> HIDE DEF learned, kept
  <1>4. n = [gen |-> r.gen + 1, phase |-> phase, learned |-> learned, attempt |-> attempt, result |-> kept]
    BY <1>1, <1>3
  <1>5. n \in Receipts /\ n.gen = r.gen + 1 /\ n.gen > r.gen /\ n.phase = phase /\ n.attempt = attempt
        /\ n.learned = learned /\ n.result = kept
    BY <1>1, <1>2, <1>4 DEF Receipts
  <1> QED BY <1>1, <1>5 DEF learned, kept

LEMMA ReceiptFields ==
  ASSUME NEW r \in Receipts
  PROVE  /\ r.gen \in Nat /\ r.phase \in Phases /\ r.learned \in BOOLEAN
         /\ r.attempt \in Attempts \cup {None} /\ r.result \in Workflows \cup {None}
  BY DEF Receipts

LEMMA WorkflowFields ==
  ASSUME NEW w \in Workflows
  PROVE  /\ w.state \in States /\ w.next \in 0..StepCount /\ w.rev \in Nat /\ w # Mismatched
  BY DEF Workflows, Mismatched, States

LEMMA Moved ==
  ASSUME NEW k \in Procs, NEW step \in Places, proc \in ProcType, Goes(k, step)
  PROVE  /\ proc' \in ProcType
         /\ proc'[k].at = step /\ proc'[k].cmd = proc[k].cmd /\ proc'[k].seen = proc[k].seen
         /\ \A j \in Procs : j # k => proc'[j] = proc[j]
  BY DEF Goes, ProcType

LEMMA MovedWith ==
  ASSUME NEW k \in Procs, NEW step \in Places, NEW r \in Receipts, proc \in ProcType,
         GoesWith(k, step, r)
  PROVE  /\ proc' \in ProcType
         /\ proc'[k].at = step /\ proc'[k].cmd = proc[k].cmd /\ proc'[k].seen = r
         /\ \A j \in Procs : j # k => proc'[j] = proc[j]
  BY DEF GoesWith, ProcType

LEMMA InitInv == ASSUME UIAnswerAssumption, Init PROVE UIAnswerInv
  BY DEF UIAnswerAssumption, Init, Idle, Absent, UIAnswerInv, TypesOK, FitsOK, Seen, SeenBy, Mail,
         Prepared, Banned, Cancelling, Settled, Timely, TimelyBy, Ordered, Places, Commands, At, Stepping, CancelOnce

LEMMA AfterWorkflow ==
  ASSUME UIAnswerAssumption, NEW v \in Workflows, v.next < StepCount, NEW w \in After(v)
  PROVE  w \in Workflows /\ Fits(w) /\ w.rev >= v.rev
  <1>1. v.next \in Nat /\ v.rev \in Nat /\ StepCount \in Nat /\ v.next + 1 \in 0..StepCount /\ v.next \in 0..StepCount
    BY DEF UIAnswerAssumption, Workflows
  <1>2. v.next + 1 # StepCount => v.next + 1 < StepCount
    BY <1>1 DEF UIAnswerAssumption
  <1>3. CASE w = [v EXCEPT !.next = v.next + 1, !.rev = v.rev + 1,
                           !.state = IF v.next + 1 = StepCount THEN "completed_ui_sequence" ELSE "ready"]
    <2> DEFINE state == IF v.next + 1 = StepCount THEN "completed_ui_sequence" ELSE "ready"
    <2>1. w = [state |-> state, next |-> v.next + 1, rev |-> v.rev + 1]
      BY <1>3 DEF Workflows
    <2> HIDE DEF state
    <2>2. w.state = state /\ w.next = v.next + 1 /\ w.rev = v.rev + 1 /\ state \in {"completed_ui_sequence", "ready"}
      BY <2>1 DEF state
    <2>3. w \in Workflows
      BY <1>1, <2>1, <2>2 DEF Workflows, States
    <2> QED BY <1>1, <1>2, <2>2, <2>3 DEF Fits, state
  <1>4. CASE w = [v EXCEPT !.rev = v.rev + 1, !.state = "stopped"]
    <2>1. w = [state |-> "stopped", next |-> v.next, rev |-> v.rev + 1]
      BY <1>4 DEF Workflows
    <2> QED BY <1>1, <2>1 DEF Workflows, States, Fits
  <1> QED BY <1>3, <1>4 DEF After

LEMMA TakenWorkflow ==
  ASSUME UIAnswerAssumption, NEW m \in Messages, m.what # "prepare",
         workflow \in Workflows, Fits(workflow), NEW w \in Taken(m)
  PROVE  /\ w \in Workflows /\ Fits(w) /\ w.rev >= workflow.rev
         /\ m.what = "status" => w = workflow
  <1>1. m.what \in {"step", "status", "cancel"}
    BY DEF Messages, Commands
  <1>2. workflow.rev \in Nat
    BY DEF Workflows
  <1>3. CASE w = workflow
    BY <1>2, <1>3
  <1>4. CASE m.what = "step" /\ w # workflow
    <2>1. /\ workflow.state = "ready"
          /\ w \in After(workflow) \cup {[workflow EXCEPT !.state = "awaiting_operation", !.rev = workflow.rev + 1]}
      BY <1>4 DEF Taken
    <2>2. workflow.next < StepCount
      BY <2>1 DEF Fits
    <2>3. CASE w \in After(workflow)
      BY <1>4, <2>2, <2>3, AfterWorkflow
    <2>4. CASE w = [workflow EXCEPT !.state = "awaiting_operation", !.rev = workflow.rev + 1]
      <3>1. w = [state |-> "awaiting_operation", next |-> workflow.next, rev |-> workflow.rev + 1]
        BY <2>4 DEF Workflows
      <3>2. workflow.next \in 0..StepCount
        BY DEF Workflows
      <3> QED BY <1>2, <1>4, <2>2, <3>1, <3>2 DEF Workflows, States, Fits
    <2> QED BY <2>1, <2>3, <2>4
  <1>5. CASE m.what = "cancel" /\ w # workflow
    <2>1. w = [workflow EXCEPT !.state = "cancelled", !.rev = workflow.rev + 1]
      BY <1>5 DEF Taken
    <2>2. w = [state |-> "cancelled", next |-> workflow.next, rev |-> workflow.rev + 1]
      BY <2>1 DEF Workflows
    <2>3. workflow.next \in 0..StepCount
      BY DEF Workflows
    <2> QED BY <1>2, <1>5, <2>2, <2>3 DEF Workflows, States, Fits
  <1>6. CASE m.what = "status" /\ w # workflow
    BY <1>6 DEF Taken
  <1> QED BY <1>1, <1>3, <1>4, <1>5, <1>6

LEMMA ReserveMarkerInv ==
  ASSUME UIAnswerAssumption, UIAnswerInv, NEW k \in Procs, ReserveMarker(k)
  PROVE  UIAnswerInv'
  <1>1. /\ proc' \in ProcType
        /\ proc'[k].at = "post" /\ proc'[k].cmd = proc[k].cmd /\ proc'[k].seen = proc[k].seen
        /\ \A j \in Procs : j # k => proc'[j] = proc[j]
    <2>1. proc \in ProcType /\ "post" \in Places /\ Goes(k, "post")
      BY DEF UIAnswerInv, TypesOK, ProcType, Places, ReserveMarker
    <2> QED BY <2>1, Moved
  <1>2. /\ At(k, "ban") /\ ban' = proc[k].seen.gen /\ lock' = Nobody
        /\ UNCHANGED <<receipt, wire, answer, workflow, open, sent, cancels>>
        /\ proc[k].seen # None /\ receipt.phase = "step_started"
    BY DEF ReserveMarker, net, history, UIAnswerInv, Seen, SeenBy, At
  <1>3. TypesOK'
    BY <1>1, <1>2 DEF UIAnswerInv, UIAnswerAssumption, TypesOK, ProcType, Receipts
  <1>4. FitsOK'
    BY <1>1, <1>2 DEF UIAnswerInv, UIAnswerAssumption, TypesOK, FitsOK, ProcType, At, Seen, SeenBy
  <1>5. Seen'
    BY <1>1, <1>2 DEF UIAnswerInv, UIAnswerAssumption, TypesOK, Seen, SeenBy, At, ProcType
  <1>6. Mail'
    BY <1>1, <1>2 DEF UIAnswerInv, UIAnswerAssumption, TypesOK, Mail, At, ProcType, Messages
  <1>7. Prepared'
    <2>1. (receipt = None => workflow = None /\ \A q \in Procs : At(q, "start"))'
      BY <1>1, <1>2 DEF UIAnswerInv, UIAnswerAssumption, TypesOK, Prepared, Seen, SeenBy, Mail,
         At, ProcType, Messages
    <2>2. (\A j, q \in Procs : proc[j].cmd = "prepare" /\ proc[q].cmd = "prepare" => j = q)'
      BY <1>1, <1>2 DEF UIAnswerInv, UIAnswerAssumption, TypesOK, Prepared, Seen, SeenBy, Mail,
         At, ProcType, Messages
    <2>3. (\A q \in Procs : proc[q].cmd \in {"step", "status", "cancel"} => receipt.learned)'
      BY <1>1, <1>2 DEF UIAnswerInv, UIAnswerAssumption, TypesOK, Prepared, Seen, SeenBy, Mail,
         At, ProcType, Messages
    <2>4. (receipt # None /\ receipt.learned => workflow # None /\ \A m \in wire : m.what # "prepare")'
      BY <1>1, <1>2 DEF UIAnswerInv, UIAnswerAssumption, TypesOK, Prepared, Seen, SeenBy, Mail,
         At, ProcType, Messages
    <2>5. (workflow # None => \A m \in wire : m.what # "prepare")'
      BY <1>1, <1>2 DEF UIAnswerInv, UIAnswerAssumption, TypesOK, Prepared, Seen, SeenBy, Mail,
         At, ProcType, Messages
    <2>6. (\A q \in Procs : proc[q].cmd = "prepare" /\ At(q, "post") => workflow = None /\ ~receipt.learned)'
      BY <1>1, <1>2 DEF UIAnswerInv, UIAnswerAssumption, TypesOK, Prepared, Seen, SeenBy, Mail,
         At, ProcType, Messages
    <2>7. (\A q \in Procs : answer[q] # None => workflow # None)'
      BY <1>1, <1>2 DEF UIAnswerInv, UIAnswerAssumption, TypesOK, Prepared, Seen, SeenBy, Mail,
         At, ProcType, Messages
    <2> QED BY <2>1, <2>2, <2>3, <2>4, <2>5, <2>6, <2>7 DEF Prepared
  <1>8. Banned'
    BY <1>1, <1>2 DEF UIAnswerInv, UIAnswerAssumption, TypesOK, Banned, Seen, SeenBy, Mail, At,
       ProcType, Stepping, Absent
  <1>9. Cancelling'
    BY <1>1, <1>2 DEF UIAnswerInv, UIAnswerAssumption, TypesOK, Cancelling, Seen, SeenBy, Mail,
       At, CancelOnce, Messages
  <1>10. Settled'
    <2>1. SUFFICES ASSUME receipt' # None, receipt'.phase = "known"
                   PROVE  /\ receipt'.result = workflow' /\ workflow'.state = "ready"
                          /\ \A m \in wire' : m.what = "status"
                          /\ \A j \in Procs : Stepping(j)' => At(j, "unban")'
      BY DEF Settled
    <2>2. receipt'.result = workflow' /\ workflow'.state = "ready"
      BY <1>1, <1>2, <2>1 DEF UIAnswerInv, TypesOK, Settled, Seen, SeenBy, Mail, Prepared,
         Banned, Cancelling, At, Stepping, Messages, ProcType
    <2>3. \A m \in wire' : m.what = "status"
      BY <1>1, <1>2, <2>1 DEF UIAnswerInv, TypesOK, Settled, Seen, SeenBy, Mail, Prepared,
         Banned, Cancelling, At, Stepping, Messages, ProcType
    <2>4. ASSUME NEW j \in Procs, Stepping(j)' PROVE At(j, "unban")'
      BY <1>1, <1>2, <2>1, <2>4 DEF UIAnswerInv, Settled, Stepping, At
    <2> QED BY <2>2, <2>3, <2>4
  <1>11. Timely'
    BY <1>1, <1>2 DEF UIAnswerInv, UIAnswerAssumption, TypesOK, Timely, TimelyBy, Seen, SeenBy,
       Mail, At, PhaseAfter, StatusPhase
  <1>12. Ordered'
    BY <1>1, <1>2 DEF UIAnswerInv, UIAnswerAssumption, TypesOK, Ordered, Prepared, Seen, SeenBy,
       Mail, At, FitsOK
  <1> QED BY <1>3, <1>4, <1>5, <1>6, <1>7, <1>8, <1>9, <1>10, <1>11, <1>12 DEF UIAnswerInv

LEMMA PostInv ==
  ASSUME UIAnswerAssumption, UIAnswerInv, NEW k \in Procs, Post(k)
  PROVE  UIAnswerInv'
  <1>1. /\ proc' \in ProcType
        /\ proc'[k].at = "wait" /\ proc'[k].cmd = proc[k].cmd /\ proc'[k].seen = proc[k].seen
        /\ \A j \in Procs : j # k => proc'[j] = proc[j]
    <2>1. proc \in ProcType /\ "wait" \in Places /\ Goes(k, "wait")
      BY DEF UIAnswerInv, TypesOK, ProcType, Places, Post
    <2> QED BY <2>1, Moved
  <1>2. /\ At(k, "post") /\ proc[k].at = "post" /\ proc[k].cmd \in Commands /\ proc[k].seen # None
        /\ proc[k].cmd # "none" /\ receipt # None
        /\ open' = IF proc[k].cmd = "step" THEN open \cup {k} ELSE open
        /\ sent' = IF proc[k].cmd = "step" THEN sent + 1 ELSE sent
        /\ cancels' = IF proc[k].cmd = "cancel" THEN cancels + 1 ELSE cancels
        /\ UNCHANGED <<receipt, ban, lock, answer, workflow>>
    BY DEF Post, UIAnswerInv, TypesOK, Seen, SeenBy, At
  <1>3. PICK m \in Messages : m.from = k /\ m.what = proc[k].cmd /\ wire' = wire \cup {m}
    BY <1>2 DEF Post, UIAnswerInv, TypesOK, Receipts, Messages
  <1>4. receipt.phase = "known" => proc[k].cmd = "status"
    <2>1. HAVE receipt.phase = "known"
    <2>2. proc[k].cmd # "step"
      BY <1>2, <2>1 DEF UIAnswerInv, Settled, Stepping, At
    <2>3. proc[k].cmd # "cancel"
      BY <1>2, <2>1 DEF UIAnswerInv, Cancelling
    <2>4. proc[k].cmd # "prepare"
      BY <1>2, <2>1 DEF UIAnswerInv, Prepared, FitsOK, ReceiptOK
    <2> QED BY <1>2, <2>2, <2>3, <2>4 DEF Commands
  <1>5. TypesOK'
    BY <1>1, <1>2, <1>3, <1>4 DEF UIAnswerInv, UIAnswerAssumption, TypesOK, ProcType
  <1>6. FitsOK'
    BY <1>1, <1>2, <1>3, <1>4 DEF UIAnswerInv, UIAnswerAssumption, TypesOK, FitsOK, ProcType,
       At, Seen, SeenBy
  <1>7. Seen'
    BY <1>1, <1>2, <1>3, <1>4 DEF UIAnswerInv, UIAnswerAssumption, TypesOK, Seen, SeenBy, At,
       ProcType
  <1>8. Mail'
    <2>1. (\A x \in wire : proc[x.from].at \notin {"start", "reserve", "ban", "post"}
                           /\ x.what = proc[x.from].cmd /\ answer[x.from] = None)'
      BY <1>1, <1>2, <1>3 DEF UIAnswerInv, UIAnswerAssumption, TypesOK, Mail, At, ProcType,
         Messages, Messages
    <2>2. (\A x, n \in wire : x.from = n.from => x = n)'
      BY <1>1, <1>2, <1>3 DEF UIAnswerInv, UIAnswerAssumption, TypesOK, Mail, At, ProcType,
         Messages, Messages
    <2>3. (\A q \in Procs : proc[q].at \in {"start", "reserve", "ban", "post"} => answer[q] = None)'
      BY <1>1, <1>2, <1>3 DEF UIAnswerInv, UIAnswerAssumption, TypesOK, Mail, At, ProcType,
         Messages, Messages
    <2> QED BY <2>1, <2>2, <2>3 DEF Mail
  <1>9. Prepared'
    <2>1. (receipt = None => workflow = None /\ \A q \in Procs : At(q, "start"))'
      BY <1>1, <1>2, <1>3 DEF UIAnswerInv, UIAnswerAssumption, TypesOK, Prepared, Seen, SeenBy,
         Mail, At, ProcType, Messages, Messages
    <2>2. (\A j, q \in Procs : proc[j].cmd = "prepare" /\ proc[q].cmd = "prepare" => j = q)'
      BY <1>1, <1>2, <1>3 DEF UIAnswerInv, UIAnswerAssumption, TypesOK, Prepared, Seen, SeenBy,
         Mail, At, ProcType, Messages, Messages
    <2>3. (\A q \in Procs : proc[q].cmd \in {"step", "status", "cancel"} => receipt.learned)'
      BY <1>1, <1>2, <1>3 DEF UIAnswerInv, UIAnswerAssumption, TypesOK, Prepared, Seen, SeenBy,
         Mail, At, ProcType, Messages, Messages
    <2>4. (receipt # None /\ receipt.learned => workflow # None /\ \A x \in wire : x.what # "prepare")'
      BY <1>1, <1>2, <1>3 DEF UIAnswerInv, UIAnswerAssumption, TypesOK, Prepared, Seen, SeenBy,
         Mail, At, ProcType, Messages, Messages
    <2>5. (workflow # None => \A x \in wire : x.what # "prepare")'
      BY <1>1, <1>2, <1>3 DEF UIAnswerInv, UIAnswerAssumption, TypesOK, Prepared, Seen, SeenBy,
         Mail, At, ProcType, Messages, Messages
    <2>6. (\A q \in Procs : proc[q].cmd = "prepare" /\ At(q, "post") => workflow = None /\ ~receipt.learned)'
      BY <1>1, <1>2, <1>3 DEF UIAnswerInv, UIAnswerAssumption, TypesOK, Prepared, Seen, SeenBy,
         Mail, At, ProcType, Messages, Messages
    <2>7. (\A q \in Procs : answer[q] # None => workflow # None)'
      BY <1>1, <1>2, <1>3 DEF UIAnswerInv, UIAnswerAssumption, TypesOK, Prepared, Seen, SeenBy,
         Mail, At, ProcType, Messages, Messages
    <2> QED BY <2>1, <2>2, <2>3, <2>4, <2>5, <2>6, <2>7 DEF Prepared
  <1>10. Banned'
    <2>1. (\A q \in Procs : lock = q <=> proc[q].at \in {"ban", "unban"})'
      BY <1>1, <1>2, <1>3 DEF UIAnswerInv, UIAnswerAssumption, TypesOK, Banned, Seen, SeenBy,
         Mail, At, ProcType, Stepping, Absent, Messages
    <2>2. (\A q \in Procs : At(q, "ban") => ban = Absent /\ open = {})'
      BY <1>1, <1>2, <1>3 DEF UIAnswerInv, UIAnswerAssumption, TypesOK, Banned, Seen, SeenBy,
         Mail, At, ProcType, Stepping, Absent, Messages
    <2>3. (\A q \in Procs : Stepping(q) => ban # Absent /\ (~At(q, "unban") => ban = proc[q].seen.gen))'
      BY <1>1, <1>2, <1>3 DEF UIAnswerInv, UIAnswerAssumption, TypesOK, Banned, Seen, SeenBy,
         Mail, At, ProcType, Stepping, Absent, Messages
    <2>4. (\A j, q \in Procs : Stepping(j) /\ Stepping(q) => j = q)'
      BY <1>1, <1>2, <1>3 DEF UIAnswerInv, UIAnswerAssumption, TypesOK, Banned, Seen, SeenBy,
         Mail, At, ProcType, Stepping, Absent, Messages
    <2>5. (\A q \in Procs : Stepping(q) => open = IF At(q, "post") THEN {} ELSE {q})'
      <3>1. SUFFICES ASSUME NEW j \in Procs, Stepping(j)' PROVE open' = IF At(j, "post")' THEN {} ELSE {j}
        OBVIOUS
      <3>2. CASE j = k
        BY <1>1, <1>2, <3>1, <3>2 DEF UIAnswerInv, Banned, Stepping, At
      <3>3. CASE j # k
        BY <1>1, <1>2, <3>1, <3>3 DEF UIAnswerInv, Banned, Stepping, At
      <3> QED BY <3>2, <3>3
    <2>6. (open # {} => ban # Absent)'
      BY <1>1, <1>2, <1>3 DEF UIAnswerInv, UIAnswerAssumption, TypesOK, Banned, Seen, SeenBy,
         Mail, At, ProcType, Stepping, Absent, Messages
    <2>7. (\A x \in wire : x.what = "step" => x.from \in open)'
      BY <1>1, <1>2, <1>3 DEF UIAnswerInv, UIAnswerAssumption, TypesOK, Banned, Seen, SeenBy,
         Mail, At, ProcType, Stepping, Absent, Messages
    <2>8. (open = {} \/ \E q \in Procs : open = {q})'
      BY <1>1, <1>2, <1>3 DEF UIAnswerInv, UIAnswerAssumption, TypesOK, Banned, Seen, SeenBy,
         Mail, At, ProcType, Stepping, Absent, Messages
    <2> QED BY <2>1, <2>2, <2>3, <2>4, <2>5, <2>6, <2>7, <2>8 DEF Banned
  <1>11. Cancelling'
    BY <1>1, <1>2, <1>3, <1>4 DEF UIAnswerInv, UIAnswerAssumption, TypesOK, Cancelling, Seen,
       SeenBy, Mail, At, CancelOnce, Messages
  <1>12. Settled'
    <2>1. SUFFICES ASSUME receipt' # None, receipt'.phase = "known"
                   PROVE  /\ receipt'.result = workflow' /\ workflow'.state = "ready"
                          /\ \A x \in wire' : x.what = "status"
                          /\ \A j \in Procs : Stepping(j)' => At(j, "unban")'
      BY DEF Settled
    <2>2. receipt'.result = workflow' /\ workflow'.state = "ready"
      BY <1>1, <1>2, <1>3, <1>4, <2>1 DEF UIAnswerInv, TypesOK, Settled, Seen, SeenBy, Mail,
         Prepared, Banned, Cancelling, At, Stepping, Messages, ProcType
    <2>3. \A x \in wire' : x.what = "status"
      BY <1>1, <1>2, <1>3, <1>4, <2>1 DEF UIAnswerInv, TypesOK, Settled, Seen, SeenBy, Mail,
         Prepared, Banned, Cancelling, At, Stepping, Messages, ProcType
    <2>4. ASSUME NEW j \in Procs, Stepping(j)' PROVE At(j, "unban")'
      BY <1>1, <1>2, <1>3, <1>4, <2>1, <2>4 DEF UIAnswerInv, Settled, Stepping, At
    <2> QED BY <2>2, <2>3, <2>4
  <1>13. Timely'
    BY <1>1, <1>2, <1>3, <1>4 DEF UIAnswerInv, UIAnswerAssumption, TypesOK, Timely, TimelyBy,
       Seen, SeenBy, Mail, At, PhaseAfter, StatusPhase
  <1>14. Ordered'
    BY <1>1, <1>2, <1>3, <1>4 DEF UIAnswerInv, UIAnswerAssumption, TypesOK, Ordered, Prepared,
       Seen, SeenBy, Mail, At, FitsOK
  <1> QED BY <1>5, <1>6, <1>7, <1>8, <1>9, <1>10, <1>11, <1>12, <1>13, <1>14 DEF UIAnswerInv

LEMMA ReleaseMarkerInv ==
  ASSUME UIAnswerAssumption, UIAnswerInv, NEW k \in Procs, ReleaseMarker(k)
  PROVE  UIAnswerInv'
  <1>1. /\ proc' \in ProcType
        /\ proc'[k].at = "done" /\ proc'[k].cmd = proc[k].cmd /\ proc'[k].seen = proc[k].seen
        /\ \A j \in Procs : j # k => proc'[j] = proc[j]
    <2>1. proc \in ProcType /\ "done" \in Places /\ Goes(k, "done")
      BY DEF UIAnswerInv, TypesOK, ProcType, Places, ReleaseMarker
    <2> QED BY <2>1, Moved
  <1>2. /\ At(k, "unban") /\ ban' = Absent /\ lock' = Nobody /\ open' = open \ {k}
        /\ UNCHANGED <<receipt, wire, answer, workflow, sent, cancels>>
    BY DEF ReleaseMarker, net
  <1>3. TypesOK'
    BY <1>1, <1>2 DEF UIAnswerInv, UIAnswerAssumption, TypesOK, ProcType, Absent
  <1>4. FitsOK'
    BY <1>1, <1>2 DEF UIAnswerInv, UIAnswerAssumption, TypesOK, FitsOK, ProcType, At, Seen, SeenBy
  <1>5. Seen'
    BY <1>1, <1>2 DEF UIAnswerInv, UIAnswerAssumption, TypesOK, Seen, SeenBy, At, ProcType
  <1>6. Mail'
    BY SMTT(40), <1>1, <1>2 DEF UIAnswerInv, UIAnswerAssumption, TypesOK, Mail, At, ProcType, Messages
  <1>7. Prepared'
    <2>1. (receipt = None => workflow = None /\ \A q \in Procs : At(q, "start"))'
      BY <1>1, <1>2 DEF UIAnswerInv, UIAnswerAssumption, TypesOK, Prepared, Seen, SeenBy, Mail,
         At, ProcType, Messages
    <2>2. (\A j, q \in Procs : proc[j].cmd = "prepare" /\ proc[q].cmd = "prepare" => j = q)'
      BY <1>1, <1>2 DEF UIAnswerInv, UIAnswerAssumption, TypesOK, Prepared, Seen, SeenBy, Mail,
         At, ProcType, Messages
    <2>3. (\A q \in Procs : proc[q].cmd \in {"step", "status", "cancel"} => receipt.learned)'
      BY <1>1, <1>2 DEF UIAnswerInv, UIAnswerAssumption, TypesOK, Prepared, Seen, SeenBy, Mail,
         At, ProcType, Messages
    <2>4. (receipt # None /\ receipt.learned => workflow # None /\ \A m \in wire : m.what # "prepare")'
      BY <1>1, <1>2 DEF UIAnswerInv, UIAnswerAssumption, TypesOK, Prepared, Seen, SeenBy, Mail,
         At, ProcType, Messages
    <2>5. (workflow # None => \A m \in wire : m.what # "prepare")'
      BY <1>1, <1>2 DEF UIAnswerInv, UIAnswerAssumption, TypesOK, Prepared, Seen, SeenBy, Mail,
         At, ProcType, Messages
    <2>6. (\A q \in Procs : proc[q].cmd = "prepare" /\ At(q, "post") => workflow = None /\ ~receipt.learned)'
      BY <1>1, <1>2 DEF UIAnswerInv, UIAnswerAssumption, TypesOK, Prepared, Seen, SeenBy, Mail,
         At, ProcType, Messages
    <2>7. (\A q \in Procs : answer[q] # None => workflow # None)'
      BY <1>1, <1>2 DEF UIAnswerInv, UIAnswerAssumption, TypesOK, Prepared, Seen, SeenBy, Mail,
         At, ProcType, Messages
    <2> QED BY <2>1, <2>2, <2>3, <2>4, <2>5, <2>6, <2>7 DEF Prepared
  <1>8. Banned'
    BY SMTT(40), <1>1, <1>2 DEF UIAnswerInv, UIAnswerAssumption, TypesOK, Banned, Seen, SeenBy, Mail, At,
       ProcType, Stepping, Absent
  <1>9. Cancelling'
    BY <1>1, <1>2 DEF UIAnswerInv, UIAnswerAssumption, TypesOK, Cancelling, Seen, SeenBy, Mail,
       At, CancelOnce, Messages
  <1>10. Settled'
    BY <1>1, <1>2 DEF UIAnswerInv, UIAnswerAssumption, TypesOK, Settled, Seen, SeenBy, Mail,
       Prepared, Banned, Cancelling, At, Stepping
  <1>11. Timely'
    BY <1>1, <1>2 DEF UIAnswerInv, UIAnswerAssumption, TypesOK, Timely, TimelyBy, Seen, SeenBy,
       Mail, At, PhaseAfter, StatusPhase
  <1>12. Ordered'
    BY <1>1, <1>2 DEF UIAnswerInv, UIAnswerAssumption, TypesOK, Ordered, Prepared, Seen, SeenBy,
       Mail, At, FitsOK
  <1> QED BY <1>3, <1>4, <1>5, <1>6, <1>7, <1>8, <1>9, <1>10, <1>11, <1>12 DEF UIAnswerInv

LEMMA FailsInv ==
  ASSUME UIAnswerAssumption, UIAnswerInv, NEW k \in Procs, Fails(k)
  PROVE  UIAnswerInv'
  <1>1. PICK step \in {"gone", "doubt"} :
          /\ Goes(k, step) /\ At(k, "wait") /\ answer[k] # None
          /\ step = "doubt" /\ proc[k].cmd = "status" => answer[k] = Mismatched
    BY DEF Fails, Answered, Mismatch, Goes
  <1>2. /\ proc' \in ProcType
        /\ proc'[k].at = step /\ proc'[k].cmd = proc[k].cmd /\ proc'[k].seen = proc[k].seen
        /\ \A j \in Procs : j # k => proc'[j] = proc[j]
    <2>1. proc \in ProcType /\ step \in Places
      BY DEF UIAnswerInv, TypesOK, ProcType, Places
    <2> QED BY <1>1, <2>1, Moved
  <1>3. UNCHANGED <<receipt, ban, lock, wire, answer, workflow, open, sent, cancels>>
    BY DEF Fails, net, history
  <1>4. TypesOK'
    BY <1>1, <1>2, <1>3 DEF UIAnswerInv, UIAnswerAssumption, TypesOK, ProcType
  <1>5. FitsOK'
    BY <1>1, <1>2, <1>3 DEF UIAnswerInv, UIAnswerAssumption, TypesOK, FitsOK, ProcType, At,
       Seen, SeenBy
  <1>6. Seen'
    BY <1>1, <1>2, <1>3 DEF UIAnswerInv, UIAnswerAssumption, TypesOK, Seen, SeenBy, At, ProcType
  <1>7. Mail'
    BY <1>1, <1>2, <1>3 DEF UIAnswerInv, UIAnswerAssumption, TypesOK, Mail, At, ProcType, Messages
  <1>8. Prepared'
    <2>1. (receipt = None => workflow = None /\ \A q \in Procs : At(q, "start"))'
      BY <1>1, <1>2, <1>3 DEF UIAnswerInv, UIAnswerAssumption, TypesOK, Prepared, Seen, SeenBy,
         Mail, At, ProcType, Messages
    <2>2. (\A j, q \in Procs : proc[j].cmd = "prepare" /\ proc[q].cmd = "prepare" => j = q)'
      BY <1>1, <1>2, <1>3 DEF UIAnswerInv, UIAnswerAssumption, TypesOK, Prepared, Seen, SeenBy,
         Mail, At, ProcType, Messages
    <2>3. (\A q \in Procs : proc[q].cmd \in {"step", "status", "cancel"} => receipt.learned)'
      BY <1>1, <1>2, <1>3 DEF UIAnswerInv, UIAnswerAssumption, TypesOK, Prepared, Seen, SeenBy,
         Mail, At, ProcType, Messages
    <2>4. (receipt # None /\ receipt.learned => workflow # None /\ \A m \in wire : m.what # "prepare")'
      BY <1>1, <1>2, <1>3 DEF UIAnswerInv, UIAnswerAssumption, TypesOK, Prepared, Seen, SeenBy,
         Mail, At, ProcType, Messages
    <2>5. (workflow # None => \A m \in wire : m.what # "prepare")'
      BY <1>1, <1>2, <1>3 DEF UIAnswerInv, UIAnswerAssumption, TypesOK, Prepared, Seen, SeenBy,
         Mail, At, ProcType, Messages
    <2>6. (\A q \in Procs : proc[q].cmd = "prepare" /\ At(q, "post") => workflow = None /\ ~receipt.learned)'
      BY <1>1, <1>2, <1>3 DEF UIAnswerInv, UIAnswerAssumption, TypesOK, Prepared, Seen, SeenBy,
         Mail, At, ProcType, Messages
    <2>7. (\A q \in Procs : answer[q] # None => workflow # None)'
      BY <1>1, <1>2, <1>3 DEF UIAnswerInv, UIAnswerAssumption, TypesOK, Prepared, Seen, SeenBy,
         Mail, At, ProcType, Messages
    <2> QED BY <2>1, <2>2, <2>3, <2>4, <2>5, <2>6, <2>7 DEF Prepared
  <1>9. Banned'
    <2>1. (\A q \in Procs : lock = q <=> proc[q].at \in {"ban", "unban"})'
      BY <1>1, <1>2, <1>3 DEF UIAnswerInv, UIAnswerAssumption, TypesOK, Banned, Seen, SeenBy,
         Mail, At, ProcType, Stepping, Absent
    <2>2. (\A q \in Procs : At(q, "ban") => ban = Absent /\ open = {})'
      BY <1>1, <1>2, <1>3 DEF UIAnswerInv, UIAnswerAssumption, TypesOK, Banned, Seen, SeenBy,
         Mail, At, ProcType, Stepping, Absent
    <2>3. (\A q \in Procs : Stepping(q) => ban # Absent /\ (~At(q, "unban") => ban = proc[q].seen.gen))'
      BY <1>1, <1>2, <1>3 DEF UIAnswerInv, UIAnswerAssumption, TypesOK, Banned, Seen, SeenBy,
         Mail, At, ProcType, Stepping, Absent
    <2>4. (\A j, q \in Procs : Stepping(j) /\ Stepping(q) => j = q)'
      BY <1>1, <1>2, <1>3 DEF UIAnswerInv, UIAnswerAssumption, TypesOK, Banned, Seen, SeenBy,
         Mail, At, ProcType, Stepping, Absent
    <2>5. (\A q \in Procs : Stepping(q) => open = IF At(q, "post") THEN {} ELSE {q})'
      BY <1>1, <1>2, <1>3 DEF UIAnswerInv, UIAnswerAssumption, TypesOK, Banned, Seen, SeenBy,
         Mail, At, ProcType, Stepping, Absent
    <2>6. (open # {} => ban # Absent)'
      BY <1>1, <1>2, <1>3 DEF UIAnswerInv, UIAnswerAssumption, TypesOK, Banned, Seen, SeenBy,
         Mail, At, ProcType, Stepping, Absent
    <2>7. (\A m \in wire : m.what = "step" => m.from \in open)'
      BY <1>1, <1>2, <1>3 DEF UIAnswerInv, UIAnswerAssumption, TypesOK, Banned, Seen, SeenBy,
         Mail, At, ProcType, Stepping, Absent
    <2>8. (open = {} \/ \E q \in Procs : open = {q})'
      BY <1>1, <1>2, <1>3 DEF UIAnswerInv, UIAnswerAssumption, TypesOK, Banned, Seen, SeenBy,
         Mail, At, ProcType, Stepping, Absent
    <2> QED BY <2>1, <2>2, <2>3, <2>4, <2>5, <2>6, <2>7, <2>8 DEF Banned
  <1>10. Cancelling'
    BY <1>1, <1>2, <1>3 DEF UIAnswerInv, UIAnswerAssumption, TypesOK, Cancelling, Seen, SeenBy,
       Mail, At, CancelOnce, Messages
  <1>11. Settled'
    <2>1. SUFFICES ASSUME receipt' # None, receipt'.phase = "known"
                   PROVE  /\ receipt'.result = workflow' /\ workflow'.state = "ready"
                          /\ \A m \in wire' : m.what = "status"
                          /\ \A j \in Procs : Stepping(j)' => At(j, "unban")'
      BY DEF Settled
    <2>2. receipt'.result = workflow' /\ workflow'.state = "ready"
      BY <1>1, <1>2, <1>3, <2>1 DEF UIAnswerInv, TypesOK, Settled, Seen, SeenBy, Mail, Prepared,
         Banned, Cancelling, At, Stepping, Messages, ProcType
    <2>3. \A m \in wire' : m.what = "status"
      BY <1>1, <1>2, <1>3, <2>1 DEF UIAnswerInv, TypesOK, Settled, Seen, SeenBy, Mail, Prepared,
         Banned, Cancelling, At, Stepping, Messages, ProcType
    <2>4. ASSUME NEW j \in Procs, Stepping(j)' PROVE At(j, "unban")'
      BY <1>1, <1>2, <1>3, <2>1, <2>4 DEF UIAnswerInv, Settled, Stepping, At
    <2> QED BY <2>2, <2>3, <2>4
  <1>12. Timely'
    BY <1>1, <1>2, <1>3 DEF UIAnswerInv, UIAnswerAssumption, TypesOK, Timely, TimelyBy, Seen,
       SeenBy, Mail, At, PhaseAfter, StatusPhase
  <1>13. Ordered'
    BY <1>1, <1>2, <1>3 DEF UIAnswerInv, UIAnswerAssumption, TypesOK, Ordered, Prepared, Seen,
       SeenBy, Mail, At, FitsOK
  <1> QED BY <1>4, <1>5, <1>6, <1>7, <1>8, <1>9, <1>10, <1>11, <1>12, <1>13 DEF UIAnswerInv

LEMMA TimesOutInv ==
  ASSUME UIAnswerAssumption, UIAnswerInv, NEW k \in Procs, TimesOut(k)
  PROVE  UIAnswerInv'
  <1>1. PICK step \in {"gone", "doubt"} :
          /\ Goes(k, step) /\ At(k, "wait")
          /\ step = "doubt" => proc[k].cmd # "status"
    BY DEF TimesOut, Goes
  <1>2. /\ proc' \in ProcType
        /\ proc'[k].at = step /\ proc'[k].cmd = proc[k].cmd /\ proc'[k].seen = proc[k].seen
        /\ \A j \in Procs : j # k => proc'[j] = proc[j]
    <2>1. proc \in ProcType /\ step \in Places
      BY DEF UIAnswerInv, TypesOK, ProcType, Places
    <2> QED BY <1>1, <2>1, Moved
  <1>3. /\ UNCHANGED <<receipt, ban, lock, wire, workflow, open, sent, cancels>>
        /\ answer' \in [Procs -> Workflows \cup {Mismatched, None}] /\ answer'[k] = None
        /\ \A j \in Procs : j # k => answer'[j] = answer[j]
    BY DEF TimesOut, history, UIAnswerInv, TypesOK
  <1>4. TypesOK'
    BY <1>1, <1>2, <1>3 DEF UIAnswerInv, UIAnswerAssumption, TypesOK, ProcType
  <1>5. FitsOK'
    BY <1>1, <1>2, <1>3 DEF UIAnswerInv, UIAnswerAssumption, TypesOK, FitsOK, ProcType, At,
       Seen, SeenBy
  <1>6. Seen'
    BY <1>1, <1>2, <1>3 DEF UIAnswerInv, UIAnswerAssumption, TypesOK, Seen, SeenBy, At, ProcType
  <1>7. Mail'
    BY <1>1, <1>2, <1>3 DEF UIAnswerInv, UIAnswerAssumption, TypesOK, Mail, At, ProcType, Messages
  <1>8. Prepared'
    <2>1. (receipt = None => workflow = None /\ \A q \in Procs : At(q, "start"))'
      BY <1>1, <1>2, <1>3 DEF UIAnswerInv, UIAnswerAssumption, TypesOK, Prepared, Seen, SeenBy,
         Mail, At, ProcType, Messages
    <2>2. (\A j, q \in Procs : proc[j].cmd = "prepare" /\ proc[q].cmd = "prepare" => j = q)'
      BY <1>1, <1>2, <1>3 DEF UIAnswerInv, UIAnswerAssumption, TypesOK, Prepared, Seen, SeenBy,
         Mail, At, ProcType, Messages
    <2>3. (\A q \in Procs : proc[q].cmd \in {"step", "status", "cancel"} => receipt.learned)'
      BY <1>1, <1>2, <1>3 DEF UIAnswerInv, UIAnswerAssumption, TypesOK, Prepared, Seen, SeenBy,
         Mail, At, ProcType, Messages
    <2>4. (receipt # None /\ receipt.learned => workflow # None /\ \A m \in wire : m.what # "prepare")'
      BY <1>1, <1>2, <1>3 DEF UIAnswerInv, UIAnswerAssumption, TypesOK, Prepared, Seen, SeenBy,
         Mail, At, ProcType, Messages
    <2>5. (workflow # None => \A m \in wire : m.what # "prepare")'
      BY <1>1, <1>2, <1>3 DEF UIAnswerInv, UIAnswerAssumption, TypesOK, Prepared, Seen, SeenBy,
         Mail, At, ProcType, Messages
    <2>6. (\A q \in Procs : proc[q].cmd = "prepare" /\ At(q, "post") => workflow = None /\ ~receipt.learned)'
      BY <1>1, <1>2, <1>3 DEF UIAnswerInv, UIAnswerAssumption, TypesOK, Prepared, Seen, SeenBy,
         Mail, At, ProcType, Messages
    <2>7. (\A q \in Procs : answer[q] # None => workflow # None)'
      BY <1>1, <1>2, <1>3 DEF UIAnswerInv, UIAnswerAssumption, TypesOK, Prepared, Seen, SeenBy,
         Mail, At, ProcType, Messages
    <2> QED BY <2>1, <2>2, <2>3, <2>4, <2>5, <2>6, <2>7 DEF Prepared
  <1>9. Banned'
    <2>1. (\A q \in Procs : lock = q <=> proc[q].at \in {"ban", "unban"})'
      BY <1>1, <1>2, <1>3 DEF UIAnswerInv, UIAnswerAssumption, TypesOK, Banned, Seen, SeenBy,
         Mail, At, ProcType, Stepping, Absent
    <2>2. (\A q \in Procs : At(q, "ban") => ban = Absent /\ open = {})'
      BY <1>1, <1>2, <1>3 DEF UIAnswerInv, UIAnswerAssumption, TypesOK, Banned, Seen, SeenBy,
         Mail, At, ProcType, Stepping, Absent
    <2>3. (\A q \in Procs : Stepping(q) => ban # Absent /\ (~At(q, "unban") => ban = proc[q].seen.gen))'
      BY <1>1, <1>2, <1>3 DEF UIAnswerInv, UIAnswerAssumption, TypesOK, Banned, Seen, SeenBy,
         Mail, At, ProcType, Stepping, Absent
    <2>4. (\A j, q \in Procs : Stepping(j) /\ Stepping(q) => j = q)'
      BY <1>1, <1>2, <1>3 DEF UIAnswerInv, UIAnswerAssumption, TypesOK, Banned, Seen, SeenBy,
         Mail, At, ProcType, Stepping, Absent
    <2>5. (\A q \in Procs : Stepping(q) => open = IF At(q, "post") THEN {} ELSE {q})'
      BY <1>1, <1>2, <1>3 DEF UIAnswerInv, UIAnswerAssumption, TypesOK, Banned, Seen, SeenBy,
         Mail, At, ProcType, Stepping, Absent
    <2>6. (open # {} => ban # Absent)'
      BY <1>1, <1>2, <1>3 DEF UIAnswerInv, UIAnswerAssumption, TypesOK, Banned, Seen, SeenBy,
         Mail, At, ProcType, Stepping, Absent
    <2>7. (\A m \in wire : m.what = "step" => m.from \in open)'
      BY <1>1, <1>2, <1>3 DEF UIAnswerInv, UIAnswerAssumption, TypesOK, Banned, Seen, SeenBy,
         Mail, At, ProcType, Stepping, Absent
    <2>8. (open = {} \/ \E q \in Procs : open = {q})'
      BY <1>1, <1>2, <1>3 DEF UIAnswerInv, UIAnswerAssumption, TypesOK, Banned, Seen, SeenBy,
         Mail, At, ProcType, Stepping, Absent
    <2> QED BY <2>1, <2>2, <2>3, <2>4, <2>5, <2>6, <2>7, <2>8 DEF Banned
  <1>10. Cancelling'
    BY SMTT(40), <1>1, <1>2, <1>3 DEF UIAnswerInv, UIAnswerAssumption, TypesOK, Cancelling, Seen, SeenBy,
       Mail, At, CancelOnce, Messages
  <1>11. Settled'
    <2>1. SUFFICES ASSUME receipt' # None, receipt'.phase = "known"
                   PROVE  /\ receipt'.result = workflow' /\ workflow'.state = "ready"
                          /\ \A m \in wire' : m.what = "status"
                          /\ \A j \in Procs : Stepping(j)' => At(j, "unban")'
      BY DEF Settled
    <2>2. receipt'.result = workflow' /\ workflow'.state = "ready"
      BY <1>1, <1>2, <1>3, <2>1 DEF UIAnswerInv, TypesOK, Settled, Seen, SeenBy, Mail, Prepared,
         Banned, Cancelling, At, Stepping, Messages, ProcType
    <2>3. \A m \in wire' : m.what = "status"
      BY <1>1, <1>2, <1>3, <2>1 DEF UIAnswerInv, TypesOK, Settled, Seen, SeenBy, Mail, Prepared,
         Banned, Cancelling, At, Stepping, Messages, ProcType
    <2>4. ASSUME NEW j \in Procs, Stepping(j)' PROVE At(j, "unban")'
      BY <1>1, <1>2, <1>3, <2>1, <2>4 DEF UIAnswerInv, Settled, Stepping, At
    <2> QED BY <2>2, <2>3, <2>4
  <1>12. Timely'
    BY <1>1, <1>2, <1>3 DEF UIAnswerInv, UIAnswerAssumption, TypesOK, Timely, TimelyBy, Seen,
       SeenBy, Mail, At, PhaseAfter, StatusPhase
  <1>13. Ordered'
    BY SMTT(40), <1>1, <1>2, <1>3 DEF UIAnswerInv, UIAnswerAssumption, TypesOK, Ordered, Prepared, Seen,
       SeenBy, Mail, At, FitsOK
  <1> QED BY <1>4, <1>5, <1>6, <1>7, <1>8, <1>9, <1>10, <1>11, <1>12, <1>13 DEF UIAnswerInv

LEMMA GivesUpInv ==
  ASSUME UIAnswerAssumption, UIAnswerInv, NEW k \in Procs, GivesUp(k)
  PROVE  UIAnswerInv'
  <1>1. /\ proc' \in ProcType
        /\ proc'[k].at = "gone" /\ proc'[k].cmd = proc[k].cmd /\ proc'[k].seen = proc[k].seen
        /\ \A j \in Procs : j # k => proc'[j] = proc[j]
    <2>1. proc \in ProcType /\ "gone" \in Places /\ Goes(k, "gone")
      BY DEF UIAnswerInv, TypesOK, ProcType, Places, GivesUp
    <2> QED BY <2>1, Moved
  <1>2. /\ proc[k].at \in {"reserve", "doubt"} /\ UNCHANGED <<receipt, ban, lock, wire, answer, workflow, open, sent, cancels>>
    BY DEF GivesUp, net, history
  <1>3. TypesOK'
    BY <1>1, <1>2 DEF UIAnswerInv, UIAnswerAssumption, TypesOK, ProcType
  <1>4. FitsOK'
    BY <1>1, <1>2 DEF UIAnswerInv, UIAnswerAssumption, TypesOK, FitsOK, ProcType, At, Seen, SeenBy
  <1>5. Seen'
    BY <1>1, <1>2 DEF UIAnswerInv, UIAnswerAssumption, TypesOK, Seen, SeenBy, At, ProcType
  <1>6. Mail'
    BY ZenonT(40), <1>1, <1>2 DEF UIAnswerInv, UIAnswerAssumption, TypesOK, Mail, At, ProcType, Messages
  <1>7. Prepared'
    <2>1. (receipt = None => workflow = None /\ \A q \in Procs : At(q, "start"))'
      BY <1>1, <1>2 DEF UIAnswerInv, UIAnswerAssumption, TypesOK, Prepared, Seen, SeenBy, Mail,
         At, ProcType, Messages
    <2>2. (\A j, q \in Procs : proc[j].cmd = "prepare" /\ proc[q].cmd = "prepare" => j = q)'
      BY <1>1, <1>2 DEF UIAnswerInv, UIAnswerAssumption, TypesOK, Prepared, Seen, SeenBy, Mail,
         At, ProcType, Messages
    <2>3. (\A q \in Procs : proc[q].cmd \in {"step", "status", "cancel"} => receipt.learned)'
      BY <1>1, <1>2 DEF UIAnswerInv, UIAnswerAssumption, TypesOK, Prepared, Seen, SeenBy, Mail,
         At, ProcType, Messages
    <2>4. (receipt # None /\ receipt.learned => workflow # None /\ \A m \in wire : m.what # "prepare")'
      BY <1>1, <1>2 DEF UIAnswerInv, UIAnswerAssumption, TypesOK, Prepared, Seen, SeenBy, Mail,
         At, ProcType, Messages
    <2>5. (workflow # None => \A m \in wire : m.what # "prepare")'
      BY <1>1, <1>2 DEF UIAnswerInv, UIAnswerAssumption, TypesOK, Prepared, Seen, SeenBy, Mail,
         At, ProcType, Messages
    <2>6. (\A q \in Procs : proc[q].cmd = "prepare" /\ At(q, "post") => workflow = None /\ ~receipt.learned)'
      BY <1>1, <1>2 DEF UIAnswerInv, UIAnswerAssumption, TypesOK, Prepared, Seen, SeenBy, Mail,
         At, ProcType, Messages
    <2>7. (\A q \in Procs : answer[q] # None => workflow # None)'
      BY <1>1, <1>2 DEF UIAnswerInv, UIAnswerAssumption, TypesOK, Prepared, Seen, SeenBy, Mail,
         At, ProcType, Messages
    <2> QED BY <2>1, <2>2, <2>3, <2>4, <2>5, <2>6, <2>7 DEF Prepared
  <1>8. Banned'
    <2>1. (\A q \in Procs : lock = q <=> proc[q].at \in {"ban", "unban"})'
      BY <1>1, <1>2 DEF UIAnswerInv, UIAnswerAssumption, TypesOK, Banned, Seen, SeenBy, Mail,
         At, ProcType, Stepping, Absent
    <2>2. (\A q \in Procs : At(q, "ban") => ban = Absent /\ open = {})'
      BY <1>1, <1>2 DEF UIAnswerInv, UIAnswerAssumption, TypesOK, Banned, Seen, SeenBy, Mail,
         At, ProcType, Stepping, Absent
    <2>3. (\A q \in Procs : Stepping(q) => ban # Absent /\ (~At(q, "unban") => ban = proc[q].seen.gen))'
      BY <1>1, <1>2 DEF UIAnswerInv, UIAnswerAssumption, TypesOK, Banned, Seen, SeenBy, Mail,
         At, ProcType, Stepping, Absent
    <2>4. (\A j, q \in Procs : Stepping(j) /\ Stepping(q) => j = q)'
      BY <1>1, <1>2 DEF UIAnswerInv, UIAnswerAssumption, TypesOK, Banned, Seen, SeenBy, Mail,
         At, ProcType, Stepping, Absent
    <2>5. (\A q \in Procs : Stepping(q) => open = IF At(q, "post") THEN {} ELSE {q})'
      BY <1>1, <1>2 DEF UIAnswerInv, UIAnswerAssumption, TypesOK, Banned, Seen, SeenBy, Mail,
         At, ProcType, Stepping, Absent
    <2>6. (open # {} => ban # Absent)'
      BY <1>1, <1>2 DEF UIAnswerInv, UIAnswerAssumption, TypesOK, Banned, Seen, SeenBy, Mail,
         At, ProcType, Stepping, Absent
    <2>7. (\A m \in wire : m.what = "step" => m.from \in open)'
      BY <1>1, <1>2 DEF UIAnswerInv, UIAnswerAssumption, TypesOK, Banned, Seen, SeenBy, Mail,
         At, ProcType, Stepping, Absent
    <2>8. (open = {} \/ \E q \in Procs : open = {q})'
      BY <1>1, <1>2 DEF UIAnswerInv, UIAnswerAssumption, TypesOK, Banned, Seen, SeenBy, Mail,
         At, ProcType, Stepping, Absent
    <2> QED BY <2>1, <2>2, <2>3, <2>4, <2>5, <2>6, <2>7, <2>8 DEF Banned
  <1>9. Cancelling'
    BY <1>1, <1>2 DEF UIAnswerInv, UIAnswerAssumption, TypesOK, Cancelling, Seen, SeenBy, Mail,
       At, CancelOnce, Messages
  <1>10. Settled'
    <2>1. SUFFICES ASSUME receipt' # None, receipt'.phase = "known"
                   PROVE  /\ receipt'.result = workflow' /\ workflow'.state = "ready"
                          /\ \A m \in wire' : m.what = "status"
                          /\ \A j \in Procs : Stepping(j)' => At(j, "unban")'
      BY DEF Settled
    <2>2. receipt'.result = workflow' /\ workflow'.state = "ready"
      BY <1>1, <1>2, <2>1 DEF UIAnswerInv, TypesOK, Settled, Seen, SeenBy, Mail, Prepared,
         Banned, Cancelling, At, Stepping, Messages, ProcType
    <2>3. \A m \in wire' : m.what = "status"
      BY <1>1, <1>2, <2>1 DEF UIAnswerInv, TypesOK, Settled, Seen, SeenBy, Mail, Prepared,
         Banned, Cancelling, At, Stepping, Messages, ProcType
    <2>4. ASSUME NEW j \in Procs, Stepping(j)' PROVE At(j, "unban")'
      BY <1>1, <1>2, <2>1, <2>4 DEF UIAnswerInv, Settled, Stepping, At
    <2> QED BY <2>2, <2>3, <2>4
  <1>11. Timely'
    BY <1>1, <1>2 DEF UIAnswerInv, UIAnswerAssumption, TypesOK, Timely, TimelyBy, Seen, SeenBy,
       Mail, At, PhaseAfter, StatusPhase
  <1>12. Ordered'
    BY <1>1, <1>2 DEF UIAnswerInv, UIAnswerAssumption, TypesOK, Ordered, Prepared, Seen, SeenBy,
       Mail, At, FitsOK
  <1> QED BY <1>3, <1>4, <1>5, <1>6, <1>7, <1>8, <1>9, <1>10, <1>11, <1>12 DEF UIAnswerInv

LEMMA StopInv ==
  ASSUME UIAnswerAssumption, UIAnswerInv, NEW k \in Procs, Stop(k)
  PROVE  UIAnswerInv'
  <1>1. /\ proc' \in ProcType
        /\ proc'[k].at = "gone" /\ proc'[k].cmd = proc[k].cmd /\ proc'[k].seen = proc[k].seen
        /\ \A j \in Procs : j # k => proc'[j] = proc[j]
    <2>1. proc \in ProcType /\ "gone" \in Places /\ Goes(k, "gone")
      BY DEF UIAnswerInv, TypesOK, ProcType, Places, Stop
    <2> QED BY <2>1, Moved
  <1>2. /\ proc[k].at \notin {"start", "done", "gone"}
        /\ ban' \in {ban, Torn} /\ (ban' # ban => At(k, "ban"))
        /\ lock' = IF lock = k THEN Nobody ELSE lock
        /\ UNCHANGED <<receipt, wire, answer, workflow, open, sent, cancels>>
    BY DEF Stop, net, history
  <1>3. TypesOK'
    BY <1>1, <1>2 DEF UIAnswerInv, UIAnswerAssumption, TypesOK, ProcType
  <1>4. FitsOK'
    BY <1>1, <1>2 DEF UIAnswerInv, UIAnswerAssumption, TypesOK, FitsOK, ProcType, At, Seen, SeenBy
  <1>5. Seen'
    BY <1>1, <1>2 DEF UIAnswerInv, UIAnswerAssumption, TypesOK, Seen, SeenBy, At, ProcType
  <1>6. Mail'
    BY ZenonT(40), <1>1, <1>2 DEF UIAnswerInv, UIAnswerAssumption, TypesOK, Mail, At, ProcType, Messages
  <1>7. Prepared'
    <2>1. (receipt = None => workflow = None /\ \A q \in Procs : At(q, "start"))'
      BY <1>1, <1>2 DEF UIAnswerInv, UIAnswerAssumption, TypesOK, Prepared, Seen, SeenBy, Mail,
         At, ProcType, Messages
    <2>2. (\A j, q \in Procs : proc[j].cmd = "prepare" /\ proc[q].cmd = "prepare" => j = q)'
      BY <1>1, <1>2 DEF UIAnswerInv, UIAnswerAssumption, TypesOK, Prepared, Seen, SeenBy, Mail,
         At, ProcType, Messages
    <2>3. (\A q \in Procs : proc[q].cmd \in {"step", "status", "cancel"} => receipt.learned)'
      BY <1>1, <1>2 DEF UIAnswerInv, UIAnswerAssumption, TypesOK, Prepared, Seen, SeenBy, Mail,
         At, ProcType, Messages
    <2>4. (receipt # None /\ receipt.learned => workflow # None /\ \A m \in wire : m.what # "prepare")'
      BY <1>1, <1>2 DEF UIAnswerInv, UIAnswerAssumption, TypesOK, Prepared, Seen, SeenBy, Mail,
         At, ProcType, Messages
    <2>5. (workflow # None => \A m \in wire : m.what # "prepare")'
      BY <1>1, <1>2 DEF UIAnswerInv, UIAnswerAssumption, TypesOK, Prepared, Seen, SeenBy, Mail,
         At, ProcType, Messages
    <2>6. (\A q \in Procs : proc[q].cmd = "prepare" /\ At(q, "post") => workflow = None /\ ~receipt.learned)'
      BY <1>1, <1>2 DEF UIAnswerInv, UIAnswerAssumption, TypesOK, Prepared, Seen, SeenBy, Mail,
         At, ProcType, Messages
    <2>7. (\A q \in Procs : answer[q] # None => workflow # None)'
      BY <1>1, <1>2 DEF UIAnswerInv, UIAnswerAssumption, TypesOK, Prepared, Seen, SeenBy, Mail,
         At, ProcType, Messages
    <2> QED BY <2>1, <2>2, <2>3, <2>4, <2>5, <2>6, <2>7 DEF Prepared
  <1>8. Banned'
    <2>1. (\A q \in Procs : lock = q <=> proc[q].at \in {"ban", "unban"})'
      BY <1>1, <1>2 DEF UIAnswerInv, UIAnswerAssumption, TypesOK, Banned, Seen, SeenBy, Mail,
         At, ProcType, Stepping, Absent
    <2>2. (\A q \in Procs : At(q, "ban") => ban = Absent /\ open = {})'
      BY <1>1, <1>2 DEF UIAnswerInv, UIAnswerAssumption, TypesOK, Banned, Seen, SeenBy, Mail,
         At, ProcType, Stepping, Absent
    <2>3. (\A q \in Procs : Stepping(q) => ban # Absent /\ (~At(q, "unban") => ban = proc[q].seen.gen))'
      BY <1>1, <1>2 DEF UIAnswerInv, UIAnswerAssumption, TypesOK, Banned, Seen, SeenBy, Mail,
         At, ProcType, Stepping, Absent
    <2>4. (\A j, q \in Procs : Stepping(j) /\ Stepping(q) => j = q)'
      BY <1>1, <1>2 DEF UIAnswerInv, UIAnswerAssumption, TypesOK, Banned, Seen, SeenBy, Mail,
         At, ProcType, Stepping, Absent
    <2>5. (\A q \in Procs : Stepping(q) => open = IF At(q, "post") THEN {} ELSE {q})'
      BY <1>1, <1>2 DEF UIAnswerInv, UIAnswerAssumption, TypesOK, Banned, Seen, SeenBy, Mail,
         At, ProcType, Stepping, Absent
    <2>6. (open # {} => ban # Absent)'
      BY <1>1, <1>2 DEF UIAnswerInv, UIAnswerAssumption, TypesOK, Banned, Seen, SeenBy, Mail,
         At, ProcType, Stepping, Absent
    <2>7. (\A m \in wire : m.what = "step" => m.from \in open)'
      BY <1>1, <1>2 DEF UIAnswerInv, UIAnswerAssumption, TypesOK, Banned, Seen, SeenBy, Mail,
         At, ProcType, Stepping, Absent
    <2>8. (open = {} \/ \E q \in Procs : open = {q})'
      BY <1>1, <1>2 DEF UIAnswerInv, UIAnswerAssumption, TypesOK, Banned, Seen, SeenBy, Mail,
         At, ProcType, Stepping, Absent
    <2> QED BY <2>1, <2>2, <2>3, <2>4, <2>5, <2>6, <2>7, <2>8 DEF Banned
  <1>9. Cancelling'
    BY <1>1, <1>2 DEF UIAnswerInv, UIAnswerAssumption, TypesOK, Cancelling, Seen, SeenBy, Mail,
       At, CancelOnce, Messages
  <1>10. Settled'
    <2>1. SUFFICES ASSUME receipt' # None, receipt'.phase = "known"
                   PROVE  /\ receipt'.result = workflow' /\ workflow'.state = "ready"
                          /\ \A m \in wire' : m.what = "status"
                          /\ \A j \in Procs : Stepping(j)' => At(j, "unban")'
      BY DEF Settled
    <2>2. receipt'.result = workflow' /\ workflow'.state = "ready"
      BY <1>1, <1>2, <2>1 DEF UIAnswerInv, TypesOK, Settled, Seen, SeenBy, Mail, Prepared,
         Banned, Cancelling, At, Stepping, Messages, ProcType
    <2>3. \A m \in wire' : m.what = "status"
      BY <1>1, <1>2, <2>1 DEF UIAnswerInv, TypesOK, Settled, Seen, SeenBy, Mail, Prepared,
         Banned, Cancelling, At, Stepping, Messages, ProcType
    <2>4. ASSUME NEW j \in Procs, Stepping(j)' PROVE At(j, "unban")'
      BY <1>1, <1>2, <2>1, <2>4 DEF UIAnswerInv, Settled, Stepping, At
    <2> QED BY <2>2, <2>3, <2>4
  <1>11. Timely'
    BY <1>1, <1>2 DEF UIAnswerInv, UIAnswerAssumption, TypesOK, Timely, TimelyBy, Seen, SeenBy,
       Mail, At, PhaseAfter, StatusPhase
  <1>12. Ordered'
    BY <1>1, <1>2 DEF UIAnswerInv, UIAnswerAssumption, TypesOK, Ordered, Prepared, Seen, SeenBy,
       Mail, At, FitsOK
  <1> QED BY <1>3, <1>4, <1>5, <1>6, <1>7, <1>8, <1>9, <1>10, <1>11, <1>12 DEF UIAnswerInv

LEMMA BeginInv ==
  ASSUME UIAnswerAssumption, UIAnswerInv, NEW k \in Procs, NEW cmd \in {"step", "status", "cancel"}, Begin(k, cmd)
  PROVE  UIAnswerInv'
  <1>1. /\ At(k, "start") /\ receipt # None /\ receipt \in Receipts /\ lock = Nobody /\ receipt.learned
        /\ cmd = "step" => MayStep(receipt)
        /\ cmd = "cancel" => MayCancel(receipt)
        /\ UNCHANGED <<receipt, ban, lock, wire, answer, workflow, open, sent, cancels>>
    BY DEF Begin, net, history, UIAnswerInv, TypesOK
  <1>2. /\ proc' \in ProcType
        /\ proc'[k].at = IF cmd = "status" THEN "post" ELSE "reserve"
        /\ proc'[k].cmd = cmd /\ proc'[k].seen = receipt
        /\ \A j \in Procs : j # k => proc'[j] = proc[j]
    <2>1. proc \in ProcType
      BY DEF UIAnswerInv, TypesOK, ProcType
    <2> DEFINE at == IF cmd = "status" THEN "post" ELSE "reserve"
    <2>2. at \in Places /\ proc' = [proc EXCEPT ![k] = [at |-> at, cmd |-> cmd, seen |-> receipt]]
      BY DEF Begin, Places
    <2> HIDE DEF at
    <2>3. /\ proc' \in ProcType /\ proc'[k].at = at /\ proc'[k].cmd = cmd /\ proc'[k].seen = receipt
          /\ \A j \in Procs : j # k => proc'[j] = proc[j]
      BY <1>1, <2>1, <2>2 DEF ProcType, Commands
    <2> QED BY <2>3 DEF at
  <1>3. TypesOK'
    BY <1>1, <1>2 DEF UIAnswerInv, UIAnswerAssumption, TypesOK, ProcType
  <1>4. FitsOK'
    BY <1>1, <1>2 DEF UIAnswerInv, UIAnswerAssumption, TypesOK, FitsOK, ProcType, At, Seen, SeenBy
  <1>5. Seen'
    <2>1. SeenBy(k)'
      BY <1>1, <1>2 DEF UIAnswerInv, UIAnswerAssumption, TypesOK, Seen, SeenBy, At, ProcType,
         Receipts
    <2>2. ASSUME NEW j \in Procs, j # k PROVE SeenBy(j)'
      BY <1>1, <1>2, <2>2 DEF UIAnswerInv, UIAnswerAssumption, TypesOK, Seen, SeenBy, At,
         ProcType, Receipts
    <2> QED BY <2>1, <2>2 DEF Seen
  <1>6. Mail'
    BY <1>1, <1>2 DEF UIAnswerInv, UIAnswerAssumption, TypesOK, Mail, At, ProcType, Messages
  <1>7. Prepared'
    <2>1. (receipt = None => workflow = None /\ \A q \in Procs : At(q, "start"))'
      BY <1>1, <1>2 DEF UIAnswerInv, UIAnswerAssumption, TypesOK, Prepared, Seen, SeenBy, Mail,
         At, ProcType, Messages
    <2>2. (\A j, q \in Procs : proc[j].cmd = "prepare" /\ proc[q].cmd = "prepare" => j = q)'
      BY <1>1, <1>2 DEF UIAnswerInv, UIAnswerAssumption, TypesOK, Prepared, Seen, SeenBy, Mail,
         At, ProcType, Messages
    <2>3. (\A q \in Procs : proc[q].cmd \in {"step", "status", "cancel"} => receipt.learned)'
      BY <1>1, <1>2 DEF UIAnswerInv, UIAnswerAssumption, TypesOK, Prepared, Seen, SeenBy, Mail,
         At, ProcType, Messages
    <2>4. (receipt # None /\ receipt.learned => workflow # None /\ \A m \in wire : m.what # "prepare")'
      BY <1>1, <1>2 DEF UIAnswerInv, UIAnswerAssumption, TypesOK, Prepared, Seen, SeenBy, Mail,
         At, ProcType, Messages
    <2>5. (workflow # None => \A m \in wire : m.what # "prepare")'
      BY <1>1, <1>2 DEF UIAnswerInv, UIAnswerAssumption, TypesOK, Prepared, Seen, SeenBy, Mail,
         At, ProcType, Messages
    <2>6. (\A q \in Procs : proc[q].cmd = "prepare" /\ At(q, "post") => workflow = None /\ ~receipt.learned)'
      BY <1>1, <1>2 DEF UIAnswerInv, UIAnswerAssumption, TypesOK, Prepared, Seen, SeenBy, Mail,
         At, ProcType, Messages
    <2>7. (\A q \in Procs : answer[q] # None => workflow # None)'
      BY <1>1, <1>2 DEF UIAnswerInv, UIAnswerAssumption, TypesOK, Prepared, Seen, SeenBy, Mail,
         At, ProcType, Messages
    <2> QED BY <2>1, <2>2, <2>3, <2>4, <2>5, <2>6, <2>7 DEF Prepared
  <1>8. Banned'
    <2>1. (\A q \in Procs : lock = q <=> proc[q].at \in {"ban", "unban"})'
      BY <1>1, <1>2 DEF UIAnswerInv, UIAnswerAssumption, TypesOK, Banned, Seen, SeenBy, Mail,
         At, ProcType, Stepping, Absent
    <2>2. (\A q \in Procs : At(q, "ban") => ban = Absent /\ open = {})'
      BY <1>1, <1>2 DEF UIAnswerInv, UIAnswerAssumption, TypesOK, Banned, Seen, SeenBy, Mail,
         At, ProcType, Stepping, Absent
    <2>3. (\A q \in Procs : Stepping(q) => ban # Absent /\ (~At(q, "unban") => ban = proc[q].seen.gen))'
      BY <1>1, <1>2 DEF UIAnswerInv, UIAnswerAssumption, TypesOK, Banned, Seen, SeenBy, Mail,
         At, ProcType, Stepping, Absent
    <2>4. (\A j, q \in Procs : Stepping(j) /\ Stepping(q) => j = q)'
      BY <1>1, <1>2 DEF UIAnswerInv, UIAnswerAssumption, TypesOK, Banned, Seen, SeenBy, Mail,
         At, ProcType, Stepping, Absent
    <2>5. (\A q \in Procs : Stepping(q) => open = IF At(q, "post") THEN {} ELSE {q})'
      BY <1>1, <1>2 DEF UIAnswerInv, UIAnswerAssumption, TypesOK, Banned, Seen, SeenBy, Mail,
         At, ProcType, Stepping, Absent
    <2>6. (open # {} => ban # Absent)'
      BY <1>1, <1>2 DEF UIAnswerInv, UIAnswerAssumption, TypesOK, Banned, Seen, SeenBy, Mail,
         At, ProcType, Stepping, Absent
    <2>7. (\A m \in wire : m.what = "step" => m.from \in open)'
      BY <1>1, <1>2 DEF UIAnswerInv, UIAnswerAssumption, TypesOK, Banned, Seen, SeenBy, Mail,
         At, ProcType, Stepping, Absent
    <2>8. (open = {} \/ \E q \in Procs : open = {q})'
      BY <1>1, <1>2 DEF UIAnswerInv, UIAnswerAssumption, TypesOK, Banned, Seen, SeenBy, Mail,
         At, ProcType, Stepping, Absent
    <2> QED BY <2>1, <2>2, <2>3, <2>4, <2>5, <2>6, <2>7, <2>8 DEF Banned
  <1>9. Cancelling'
    BY <1>1, <1>2 DEF UIAnswerInv, UIAnswerAssumption, TypesOK, Cancelling, Seen, SeenBy, Mail,
       At, CancelOnce, Messages
  <1>10. Settled'
    <2>1. SUFFICES ASSUME receipt' # None, receipt'.phase = "known"
                   PROVE  /\ receipt'.result = workflow' /\ workflow'.state = "ready"
                          /\ \A m \in wire' : m.what = "status"
                          /\ \A j \in Procs : Stepping(j)' => At(j, "unban")'
      BY DEF Settled
    <2>2. receipt'.result = workflow' /\ workflow'.state = "ready"
      BY <1>1, <1>2, <2>1 DEF UIAnswerInv, TypesOK, Settled, Seen, SeenBy, Mail, Prepared,
         Banned, Cancelling, At, Stepping, Messages, ProcType
    <2>3. \A m \in wire' : m.what = "status"
      BY <1>1, <1>2, <2>1 DEF UIAnswerInv, TypesOK, Settled, Seen, SeenBy, Mail, Prepared,
         Banned, Cancelling, At, Stepping, Messages, ProcType
    <2>4. ASSUME NEW j \in Procs, Stepping(j)' PROVE At(j, "unban")'
      BY <1>1, <1>2, <2>1, <2>4 DEF UIAnswerInv, Settled, Stepping, At
    <2> QED BY <2>2, <2>3, <2>4
  <1>11. Timely'
    BY <1>1, <1>2 DEF UIAnswerInv, UIAnswerAssumption, TypesOK, Timely, TimelyBy, Seen, SeenBy,
       Mail, At, PhaseAfter, StatusPhase
  <1>12. Ordered'
    <2>1. (receipt # None /\ receipt.result # None => receipt.result.rev <= workflow.rev)'
      BY <1>1, <1>2 DEF UIAnswerInv, UIAnswerAssumption, TypesOK, Ordered, Prepared, Seen,
         SeenBy, Mail, At, FitsOK
    <2>2. (\A q \in Procs : ~At(q, "start") /\ proc[q].seen.result # None =>
             workflow # None /\ proc[q].seen.result.rev <= workflow.rev)'
      BY <1>1, <1>2 DEF UIAnswerInv, UIAnswerAssumption, TypesOK, Ordered, Prepared, Seen,
         SeenBy, Mail, At, FitsOK
    <2>3. (\A q \in Procs : At(q, "wait") /\ answer[q] \in Workflows =>
             /\ answer[q].rev <= workflow.rev
             /\ proc[q].seen.result # None => proc[q].seen.result.rev <= answer[q].rev)'
      BY <1>1, <1>2 DEF UIAnswerInv, UIAnswerAssumption, TypesOK, Ordered, Prepared, Seen,
         SeenBy, Mail, At, FitsOK
    <2> QED BY <2>1, <2>2, <2>3 DEF Ordered
  <1> QED BY <1>3, <1>4, <1>5, <1>6, <1>7, <1>8, <1>9, <1>10, <1>11, <1>12 DEF UIAnswerInv

LEMMA PrepareInv ==
  ASSUME UIAnswerAssumption, UIAnswerInv, NEW k \in Procs, Prepare(k)
  PROVE  UIAnswerInv'
  <1>1. PICK r \in Receipts :
          /\ r.gen = 0 /\ r.phase = "prepare_started" /\ ~r.learned /\ r.attempt = None /\ r.result = None
          /\ receipt' = r /\ proc' = [proc EXCEPT ![k] = [at |-> "post", cmd |-> "prepare", seen |-> r]]
    <2> DEFINE r == [gen |-> 0, phase |-> "prepare_started", learned |-> FALSE, attempt |-> None, result |-> None]
    <2>1. r \in Receipts
      BY DEF Receipts, Phases
    <2>2. receipt' = r /\ proc' = [proc EXCEPT ![k] = [at |-> "post", cmd |-> "prepare", seen |-> r]]
      BY DEF Prepare
    <2> QED BY <2>1, <2>2
  <1>2. /\ proc' \in ProcType
        /\ proc'[k].at = "post" /\ proc'[k].cmd = "prepare" /\ proc'[k].seen = r
        /\ \A j \in Procs : j # k => proc'[j] = proc[j]
    <2>1. proc \in ProcType
      BY DEF UIAnswerInv, TypesOK, ProcType
    <2> QED BY <1>1, <2>1 DEF ProcType, Places, Commands
  <1>3. /\ At(k, "start") /\ receipt = None /\ receipt' # None /\ lock = Nobody
        /\ workflow = None /\ (\A j \in Procs : At(j, "start"))
        /\ wire = {} /\ cancels = 0
        /\ \A j \in Procs : answer[j] = None
        /\ UNCHANGED <<ban, lock, wire, answer, workflow, open, sent, cancels>>
    <2>1. /\ At(k, "start") /\ receipt = None /\ lock = Nobody
          /\ UNCHANGED <<ban, lock, wire, answer, workflow, open, sent, cancels>>
      BY DEF Prepare, net, history
    <2>2. receipt' # None
      BY <1>1 DEF UIAnswerAssumption
    <2>3. workflow = None /\ \A j \in Procs : At(j, "start")
      BY <2>1 DEF UIAnswerInv, Prepared
    <2>4. wire = {} /\ \A j \in Procs : answer[j] = None
      BY <2>3 DEF UIAnswerInv, Mail, TypesOK, Messages, At
    <2>5. cancels = 0
      BY <2>1 DEF UIAnswerInv, Cancelling, TypesOK
    <2> QED BY <2>1, <2>2, <2>3, <2>4, <2>5
  <1>4. TypesOK'
    BY <1>1, <1>2, <1>3 DEF UIAnswerInv, UIAnswerAssumption, TypesOK, ProcType
  <1>5. FitsOK'
    BY <1>1, <1>2, <1>3 DEF UIAnswerInv, UIAnswerAssumption, TypesOK, FitsOK, ProcType, At,
       Seen, SeenBy, ReceiptOK, Phases
  <1>6. Seen'
    BY <1>1, <1>2, <1>3 DEF UIAnswerInv, UIAnswerAssumption, TypesOK, Seen, SeenBy, At, ProcType
  <1>7. Mail'
    BY <1>1, <1>2, <1>3 DEF UIAnswerInv, UIAnswerAssumption, TypesOK, Mail, At, ProcType, Messages
  <1>8. Prepared'
    <2>1. (receipt = None => workflow = None /\ \A q \in Procs : At(q, "start"))'
      BY <1>1, <1>2, <1>3 DEF UIAnswerInv, UIAnswerAssumption, TypesOK, Prepared, Seen, SeenBy,
         Mail, At, ProcType, Messages
    <2>2. (\A j, q \in Procs : proc[j].cmd = "prepare" /\ proc[q].cmd = "prepare" => j = q)'
      BY <1>1, <1>2, <1>3 DEF UIAnswerInv, UIAnswerAssumption, TypesOK, Prepared, Seen, SeenBy,
         Mail, At, ProcType, Messages
    <2>3. (\A q \in Procs : proc[q].cmd \in {"step", "status", "cancel"} => receipt.learned)'
      BY <1>1, <1>2, <1>3 DEF UIAnswerInv, UIAnswerAssumption, TypesOK, Prepared, Seen, SeenBy,
         Mail, At, ProcType, Messages
    <2>4. (receipt # None /\ receipt.learned => workflow # None /\ \A m \in wire : m.what # "prepare")'
      BY <1>1, <1>2, <1>3 DEF UIAnswerInv, UIAnswerAssumption, TypesOK, Prepared, Seen, SeenBy,
         Mail, At, ProcType, Messages
    <2>5. (workflow # None => \A m \in wire : m.what # "prepare")'
      BY <1>1, <1>2, <1>3 DEF UIAnswerInv, UIAnswerAssumption, TypesOK, Prepared, Seen, SeenBy,
         Mail, At, ProcType, Messages
    <2>6. (\A q \in Procs : proc[q].cmd = "prepare" /\ At(q, "post") => workflow = None /\ ~receipt.learned)'
      BY <1>1, <1>2, <1>3 DEF UIAnswerInv, UIAnswerAssumption, TypesOK, Prepared, Seen, SeenBy,
         Mail, At, ProcType, Messages
    <2>7. (\A q \in Procs : answer[q] # None => workflow # None)'
      BY <1>1, <1>2, <1>3 DEF UIAnswerInv, UIAnswerAssumption, TypesOK, Prepared, Seen, SeenBy,
         Mail, At, ProcType, Messages
    <2> QED BY <2>1, <2>2, <2>3, <2>4, <2>5, <2>6, <2>7 DEF Prepared
  <1>9. Banned'
    <2>1. (\A q \in Procs : lock = q <=> proc[q].at \in {"ban", "unban"})'
      BY <1>1, <1>2, <1>3 DEF UIAnswerInv, UIAnswerAssumption, TypesOK, Banned, Seen, SeenBy,
         Mail, At, ProcType, Stepping, Absent
    <2>2. (\A q \in Procs : At(q, "ban") => ban = Absent /\ open = {})'
      BY <1>1, <1>2, <1>3 DEF UIAnswerInv, UIAnswerAssumption, TypesOK, Banned, Seen, SeenBy,
         Mail, At, ProcType, Stepping, Absent
    <2>3. (\A q \in Procs : Stepping(q) => ban # Absent /\ (~At(q, "unban") => ban = proc[q].seen.gen))'
      BY <1>1, <1>2, <1>3 DEF UIAnswerInv, UIAnswerAssumption, TypesOK, Banned, Seen, SeenBy,
         Mail, At, ProcType, Stepping, Absent
    <2>4. (\A j, q \in Procs : Stepping(j) /\ Stepping(q) => j = q)'
      BY <1>1, <1>2, <1>3 DEF UIAnswerInv, UIAnswerAssumption, TypesOK, Banned, Seen, SeenBy,
         Mail, At, ProcType, Stepping, Absent
    <2>5. (\A q \in Procs : Stepping(q) => open = IF At(q, "post") THEN {} ELSE {q})'
      BY <1>1, <1>2, <1>3 DEF UIAnswerInv, UIAnswerAssumption, TypesOK, Banned, Seen, SeenBy,
         Mail, At, ProcType, Stepping, Absent
    <2>6. (open # {} => ban # Absent)'
      BY <1>1, <1>2, <1>3 DEF UIAnswerInv, UIAnswerAssumption, TypesOK, Banned, Seen, SeenBy,
         Mail, At, ProcType, Stepping, Absent
    <2>7. (\A m \in wire : m.what = "step" => m.from \in open)'
      BY <1>1, <1>2, <1>3 DEF UIAnswerInv, UIAnswerAssumption, TypesOK, Banned, Seen, SeenBy,
         Mail, At, ProcType, Stepping, Absent
    <2>8. (open = {} \/ \E q \in Procs : open = {q})'
      BY <1>1, <1>2, <1>3 DEF UIAnswerInv, UIAnswerAssumption, TypesOK, Banned, Seen, SeenBy,
         Mail, At, ProcType, Stepping, Absent
    <2> QED BY <2>1, <2>2, <2>3, <2>4, <2>5, <2>6, <2>7, <2>8 DEF Banned
  <1>10. Cancelling'
    BY <1>1, <1>2, <1>3 DEF UIAnswerInv, UIAnswerAssumption, TypesOK, Cancelling, Seen, SeenBy,
       Mail, At, CancelOnce, Messages
  <1>11. Settled'
    <2>1. SUFFICES ASSUME receipt' # None, receipt'.phase = "known"
                   PROVE  /\ receipt'.result = workflow' /\ workflow'.state = "ready"
                          /\ \A m \in wire' : m.what = "status"
                          /\ \A j \in Procs : Stepping(j)' => At(j, "unban")'
      BY DEF Settled
    <2>2. receipt'.result = workflow' /\ workflow'.state = "ready"
      BY <1>1, <1>2, <1>3, <2>1 DEF UIAnswerInv, TypesOK, Settled, Seen, SeenBy, Mail, Prepared,
         Banned, Cancelling, At, Stepping, Messages, ProcType
    <2>3. \A m \in wire' : m.what = "status"
      BY <1>1, <1>2, <1>3, <2>1 DEF UIAnswerInv, TypesOK, Settled, Seen, SeenBy, Mail, Prepared,
         Banned, Cancelling, At, Stepping, Messages, ProcType
    <2>4. ASSUME NEW j \in Procs, Stepping(j)' PROVE At(j, "unban")'
      BY <1>1, <1>2, <1>3, <2>1, <2>4 DEF UIAnswerInv, Settled, Stepping, At
    <2> QED BY <2>2, <2>3, <2>4
  <1>12. Timely'
    BY <1>1, <1>2, <1>3 DEF UIAnswerInv, UIAnswerAssumption, TypesOK, Timely, TimelyBy, Seen,
       SeenBy, Mail, At, PhaseAfter, StatusPhase
  <1>13. Ordered'
    <2>1. (receipt # None /\ receipt.result # None => receipt.result.rev <= workflow.rev)'
      BY <1>1, <1>2, <1>3 DEF UIAnswerInv, UIAnswerAssumption, TypesOK, Ordered, Prepared, Seen,
         SeenBy, Mail, At, FitsOK
    <2>2. (\A q \in Procs : ~At(q, "start") /\ proc[q].seen.result # None =>
             workflow # None /\ proc[q].seen.result.rev <= workflow.rev)'
      BY <1>1, <1>2, <1>3 DEF UIAnswerInv, UIAnswerAssumption, TypesOK, Ordered, Prepared, Seen,
         SeenBy, Mail, At, FitsOK
    <2>3. (\A q \in Procs : At(q, "wait") /\ answer[q] \in Workflows =>
             /\ answer[q].rev <= workflow.rev
             /\ proc[q].seen.result # None => proc[q].seen.result.rev <= answer[q].rev)'
      BY <1>1, <1>2, <1>3 DEF UIAnswerInv, UIAnswerAssumption, TypesOK, Ordered, Prepared, Seen,
         SeenBy, Mail, At, FitsOK
    <2> QED BY <2>1, <2>2, <2>3 DEF Ordered
  <1> QED BY <1>4, <1>5, <1>6, <1>7, <1>8, <1>9, <1>10, <1>11, <1>12, <1>13 DEF UIAnswerInv

LEMMA ReserveInv ==
  ASSUME UIAnswerAssumption, UIAnswerInv, NEW k \in Procs, Reserve(k)
  PROVE  UIAnswerInv'
  <1>1. /\ At(k, "reserve") /\ lock = Nobody /\ receipt = proc[k].seen
        /\ receipt \in Receipts /\ receipt # None /\ ReceiptOK(receipt) /\ receipt.learned
        /\ proc[k].cmd = "step" => ban = Absent /\ MayStep(receipt)
        /\ proc[k].cmd # "step" => proc[k].cmd = "cancel" /\ MayCancel(receipt)
        /\ UNCHANGED <<ban, wire, answer, workflow, open, sent, cancels>>
    <2>1. /\ At(k, "reserve") /\ lock = Nobody /\ receipt = proc[k].seen
          /\ proc[k].cmd = "step" => ban = Absent
          /\ UNCHANGED <<ban, wire, answer, workflow, open, sent, cancels>>
      BY DEF Reserve, MayReserve, Current, net, history
    <2>2. SeenBy(k) /\ receipt # None
      BY <2>1 DEF UIAnswerInv, Seen, SeenBy, At
    <2>3. receipt \in Receipts /\ ReceiptOK(receipt)
      BY <2>2 DEF UIAnswerInv, TypesOK, FitsOK
    <2>4. receipt.learned
      BY <2>1, <2>2 DEF UIAnswerInv, Prepared, SeenBy
    <2> QED BY <2>1, <2>2, <2>3, <2>4 DEF SeenBy
  <1>2. PICK r \in Receipts :
          /\ receipt' = r /\ r.gen = receipt.gen + 1 /\ r.gen > receipt.gen /\ r.result = receipt.result /\ r.learned
          /\ proc[k].cmd = "step" =>
               r.phase = "step_started" /\ r.attempt # None /\ lock' = k /\ GoesWith(k, "ban", r)
          /\ proc[k].cmd = "cancel" =>
               r.phase = "cancel_started" /\ lock' = Nobody /\ GoesWith(k, "post", r)
    <2>1. CASE proc[k].cmd = "step"
      <3> DEFINE r == Later(receipt, "step_started", Attempt(receipt), None)
      <3>1. Attempt(receipt) \in Attempts /\ Attempt(receipt) # None
        BY <1>1, <2>1 DEF Attempt, Attempts, MayStep, Receipts, Workflows, UIAnswerAssumption
      <3>2. /\ r \in Receipts /\ r.gen = receipt.gen + 1 /\ r.gen > receipt.gen /\ r.phase = "step_started"
            /\ r.attempt = Attempt(receipt) /\ r.learned /\ r.result = receipt.result
        BY <1>1, <3>1, LaterReceipt DEF Phases
      <3>3. receipt' = r /\ lock' = k /\ GoesWith(k, "ban", r)
        BY <1>1, <2>1 DEF Reserve, Publish
      <3> HIDE DEF r
      <3> QED BY <2>1, <3>1, <3>2, <3>3
    <2>2. CASE proc[k].cmd # "step"
      <3> DEFINE r == Later(receipt, "cancel_started", receipt.attempt, None)
      <3>1. /\ r \in Receipts /\ r.gen = receipt.gen + 1 /\ r.gen > receipt.gen /\ r.phase = "cancel_started"
            /\ r.learned /\ r.result = receipt.result
        BY <1>1, LaterReceipt DEF Phases, Receipts
      <3>2. receipt' = r /\ lock' = Nobody /\ GoesWith(k, "post", r)
        BY <1>1, <2>2 DEF Reserve, Publish
      <3> HIDE DEF r
      <3> QED BY <2>2, <3>1, <3>2
    <2> QED BY <2>1, <2>2
  <1>3. /\ proc' \in ProcType
        /\ proc[k].cmd = "step" => proc'[k].at = "ban"
        /\ proc[k].cmd = "cancel" => proc'[k].at = "post"
        /\ proc'[k].cmd = proc[k].cmd /\ proc'[k].seen = r /\ r # None /\ ReceiptOK(r)
        /\ \A j \in Procs : j # k => proc'[j] = proc[j]
    <2>1. proc \in ProcType /\ {"ban", "post"} \subseteq Places
      BY DEF UIAnswerInv, TypesOK, ProcType, Places
    <2>2. r # None
      BY DEF UIAnswerAssumption
    <2>3. ReceiptOK(r)
      BY <1>1, <1>2 DEF ReceiptOK, Receipts, MayStep, MayCancel
    <2>4. CASE proc[k].cmd = "step"
      BY <1>2, <2>1, <2>2, <2>3, <2>4, MovedWith
    <2>5. CASE proc[k].cmd = "cancel"
      BY <1>2, <2>1, <2>2, <2>3, <2>5, MovedWith
    <2> QED BY <1>1, <2>4, <2>5
  <1>4. TypesOK'
    BY <1>1, <1>2, <1>3 DEF UIAnswerInv, UIAnswerAssumption, TypesOK, ProcType
  <1>5. FitsOK'
    BY <1>1, <1>2, <1>3 DEF UIAnswerInv, UIAnswerAssumption, TypesOK, FitsOK, ProcType, At,
       Seen, SeenBy
  <1>6. Seen'
    <2>1. SeenBy(k)'
      BY <1>1, <1>2, <1>3 DEF UIAnswerInv, UIAnswerAssumption, TypesOK, Seen, SeenBy, At,
         ProcType, Receipts, Phases
    <2>2. ASSUME NEW j \in Procs, j # k PROVE SeenBy(j)'
      BY <1>1, <1>2, <1>3, <2>2 DEF UIAnswerInv, UIAnswerAssumption, TypesOK, Seen, SeenBy, At,
         ProcType, Receipts, Banned
    <2> QED BY <2>1, <2>2 DEF Seen
  <1>7. Mail'
    BY <1>1, <1>2, <1>3 DEF UIAnswerInv, UIAnswerAssumption, TypesOK, Mail, At, ProcType, Messages
  <1>8. Prepared'
    <2>1. (receipt = None => workflow = None /\ \A q \in Procs : At(q, "start"))'
      BY <1>1, <1>2, <1>3 DEF UIAnswerInv, UIAnswerAssumption, TypesOK, Prepared, Seen, SeenBy,
         Mail, At, ProcType, Messages
    <2>2. (\A j, q \in Procs : proc[j].cmd = "prepare" /\ proc[q].cmd = "prepare" => j = q)'
      BY <1>1, <1>2, <1>3 DEF UIAnswerInv, UIAnswerAssumption, TypesOK, Prepared, Seen, SeenBy,
         Mail, At, ProcType, Messages
    <2>3. (\A q \in Procs : proc[q].cmd \in {"step", "status", "cancel"} => receipt.learned)'
      BY <1>1, <1>2, <1>3 DEF UIAnswerInv, UIAnswerAssumption, TypesOK, Prepared, Seen, SeenBy,
         Mail, At, ProcType, Messages
    <2>4. (receipt # None /\ receipt.learned => workflow # None /\ \A m \in wire : m.what # "prepare")'
      BY <1>1, <1>2, <1>3 DEF UIAnswerInv, UIAnswerAssumption, TypesOK, Prepared, Seen, SeenBy,
         Mail, At, ProcType, Messages
    <2>5. (workflow # None => \A m \in wire : m.what # "prepare")'
      BY <1>1, <1>2, <1>3 DEF UIAnswerInv, UIAnswerAssumption, TypesOK, Prepared, Seen, SeenBy,
         Mail, At, ProcType, Messages
    <2>6. (\A q \in Procs : proc[q].cmd = "prepare" /\ At(q, "post") => workflow = None /\ ~receipt.learned)'
      BY <1>1, <1>2, <1>3 DEF UIAnswerInv, UIAnswerAssumption, TypesOK, Prepared, Seen, SeenBy,
         Mail, At, ProcType, Messages
    <2>7. (\A q \in Procs : answer[q] # None => workflow # None)'
      BY <1>1, <1>2, <1>3 DEF UIAnswerInv, UIAnswerAssumption, TypesOK, Prepared, Seen, SeenBy,
         Mail, At, ProcType, Messages
    <2> QED BY <2>1, <2>2, <2>3, <2>4, <2>5, <2>6, <2>7 DEF Prepared
  <1>9. Banned'
    <2>1. (\A q \in Procs : lock = q <=> proc[q].at \in {"ban", "unban"})'
      BY <1>1, <1>2, <1>3 DEF UIAnswerInv, UIAnswerAssumption, TypesOK, Banned, Seen, SeenBy,
         Mail, At, ProcType, Stepping, Absent
    <2>2. (\A q \in Procs : At(q, "ban") => ban = Absent /\ open = {})'
      BY <1>1, <1>2, <1>3 DEF UIAnswerInv, UIAnswerAssumption, TypesOK, Banned, Seen, SeenBy,
         Mail, At, ProcType, Stepping, Absent
    <2>3. (\A q \in Procs : Stepping(q) => ban # Absent /\ (~At(q, "unban") => ban = proc[q].seen.gen))'
      BY <1>1, <1>2, <1>3 DEF UIAnswerInv, UIAnswerAssumption, TypesOK, Banned, Seen, SeenBy,
         Mail, At, ProcType, Stepping, Absent
    <2>4. (\A j, q \in Procs : Stepping(j) /\ Stepping(q) => j = q)'
      BY <1>1, <1>2, <1>3 DEF UIAnswerInv, UIAnswerAssumption, TypesOK, Banned, Seen, SeenBy,
         Mail, At, ProcType, Stepping, Absent
    <2>5. (\A q \in Procs : Stepping(q) => open = IF At(q, "post") THEN {} ELSE {q})'
      BY <1>1, <1>2, <1>3 DEF UIAnswerInv, UIAnswerAssumption, TypesOK, Banned, Seen, SeenBy,
         Mail, At, ProcType, Stepping, Absent
    <2>6. (open # {} => ban # Absent)'
      BY <1>1, <1>2, <1>3 DEF UIAnswerInv, UIAnswerAssumption, TypesOK, Banned, Seen, SeenBy,
         Mail, At, ProcType, Stepping, Absent
    <2>7. (\A m \in wire : m.what = "step" => m.from \in open)'
      BY <1>1, <1>2, <1>3 DEF UIAnswerInv, UIAnswerAssumption, TypesOK, Banned, Seen, SeenBy,
         Mail, At, ProcType, Stepping, Absent
    <2>8. (open = {} \/ \E q \in Procs : open = {q})'
      BY <1>1, <1>2, <1>3 DEF UIAnswerInv, UIAnswerAssumption, TypesOK, Banned, Seen, SeenBy,
         Mail, At, ProcType, Stepping, Absent
    <2> QED BY <2>1, <2>2, <2>3, <2>4, <2>5, <2>6, <2>7, <2>8 DEF Banned
  <1>10. Cancelling'
    <2>1. (\A q \in Procs : proc[q].cmd = "cancel" /\ proc[q].at \in {"post", "wait", "doubt", "done"} =>
             receipt.phase = "cancel_started")'
      BY <1>1, <1>2, <1>3 DEF UIAnswerInv, UIAnswerAssumption, TypesOK, Cancelling, Seen,
         SeenBy, Mail, At, CancelOnce, Messages, MayCancel, MayStep
    <2>2. (\A q \in Procs : proc[q].cmd = "cancel" /\ At(q, "post") => cancels = 0)'
      BY <1>1, <1>2, <1>3 DEF UIAnswerInv, UIAnswerAssumption, TypesOK, Cancelling, Seen,
         SeenBy, Mail, At, CancelOnce, Messages, MayCancel, MayStep
    <2>3. (\A j, q \in Procs :
             proc[j].cmd = "cancel" /\ At(j, "post") /\ proc[q].cmd = "cancel" /\ At(q, "post") => j = q)'
      BY <1>1, <1>2, <1>3 DEF UIAnswerInv, UIAnswerAssumption, TypesOK, Cancelling, Seen,
         SeenBy, Mail, At, CancelOnce, Messages, MayCancel, MayStep
    <2>4. (cancels > 0 => receipt # None /\ receipt.phase = "cancel_started")'
      BY <1>1, <1>2, <1>3 DEF UIAnswerInv, UIAnswerAssumption, TypesOK, Cancelling, Seen,
         SeenBy, Mail, At, CancelOnce, Messages, MayCancel, MayStep
    <2>5. (\A m \in wire : m.what = "cancel" => cancels > 0)'
      BY <1>1, <1>2, <1>3 DEF UIAnswerInv, UIAnswerAssumption, TypesOK, Cancelling, Seen,
         SeenBy, Mail, At, CancelOnce, Messages, MayCancel, MayStep
    <2>6. (CancelOnce)'
      BY <1>1, <1>2, <1>3 DEF UIAnswerInv, UIAnswerAssumption, TypesOK, Cancelling, Seen,
         SeenBy, Mail, At, CancelOnce, Messages, MayCancel, MayStep
    <2> QED BY <2>1, <2>2, <2>3, <2>4, <2>5, <2>6 DEF Cancelling
  <1>11. Settled'
    <2>1. SUFFICES ASSUME receipt' # None, receipt'.phase = "known"
                   PROVE  /\ receipt'.result = workflow' /\ workflow'.state = "ready"
                          /\ \A m \in wire' : m.what = "status"
                          /\ \A j \in Procs : Stepping(j)' => At(j, "unban")'
      BY DEF Settled
    <2>2. receipt'.result = workflow' /\ workflow'.state = "ready"
      BY <1>1, <1>2, <1>3, <2>1 DEF UIAnswerInv, TypesOK, Settled, Seen, SeenBy, Mail, Prepared,
         Banned, Cancelling, At, Stepping, Messages, ProcType
    <2>3. \A m \in wire' : m.what = "status"
      BY <1>1, <1>2, <1>3, <2>1 DEF UIAnswerInv, TypesOK, Settled, Seen, SeenBy, Mail, Prepared,
         Banned, Cancelling, At, Stepping, Messages, ProcType
    <2>4. ASSUME NEW j \in Procs, Stepping(j)' PROVE At(j, "unban")'
      BY <1>1, <1>2, <1>3, <2>1, <2>4 DEF UIAnswerInv, Settled, Stepping, At
    <2> QED BY <2>2, <2>3, <2>4
  <1>12. Timely'
    <2>1. TimelyBy(k)'
      BY <1>1, <1>2, <1>3 DEF UIAnswerInv, UIAnswerAssumption, TypesOK, Timely, TimelyBy, At,
         ProcType, Receipts, Seen, SeenBy
    <2>2. ASSUME NEW j \in Procs, j # k PROVE TimelyBy(j)'
      BY <1>1, <1>2, <1>3, <2>2 DEF UIAnswerInv, UIAnswerAssumption, TypesOK, Timely, TimelyBy,
         At, ProcType, Receipts, Seen, SeenBy
    <2> QED BY <2>1, <2>2 DEF Timely
  <1>13. Ordered'
    <2>1. (receipt # None /\ receipt.result # None => receipt.result.rev <= workflow.rev)'
      BY <1>1, <1>2, <1>3 DEF UIAnswerInv, UIAnswerAssumption, TypesOK, Ordered, Prepared, Seen,
         SeenBy, Mail, At, FitsOK
    <2>2. (\A q \in Procs : ~At(q, "start") /\ proc[q].seen.result # None =>
             workflow # None /\ proc[q].seen.result.rev <= workflow.rev)'
      BY <1>1, <1>2, <1>3 DEF UIAnswerInv, UIAnswerAssumption, TypesOK, Ordered, Prepared, Seen,
         SeenBy, Mail, At, FitsOK
    <2>3. (\A q \in Procs : At(q, "wait") /\ answer[q] \in Workflows =>
             /\ answer[q].rev <= workflow.rev
             /\ proc[q].seen.result # None => proc[q].seen.result.rev <= answer[q].rev)'
      BY <1>1, <1>2, <1>3 DEF UIAnswerInv, UIAnswerAssumption, TypesOK, Ordered, Prepared, Seen,
         SeenBy, Mail, At, FitsOK
    <2> QED BY <2>1, <2>2, <2>3 DEF Ordered
  <1> QED BY <1>4, <1>5, <1>6, <1>7, <1>8, <1>9, <1>10, <1>11, <1>12, <1>13 DEF UIAnswerInv

LEMMA RecordsDoubtInv ==
  ASSUME UIAnswerAssumption, UIAnswerInv, NEW k \in Procs, RecordsDoubt(k)
  PROVE  UIAnswerInv'
  <1>1. /\ At(k, "doubt") /\ lock = Nobody /\ receipt = proc[k].seen
        /\ receipt \in Receipts /\ receipt # None /\ ReceiptOK(receipt)
        /\ UNCHANGED <<ban, lock, wire, answer, workflow, open, sent, cancels>>
    <2>1. /\ At(k, "doubt") /\ lock = Nobody /\ receipt = proc[k].seen
          /\ UNCHANGED <<ban, lock, wire, answer, workflow, open, sent, cancels>>
      BY DEF RecordsDoubt, Current, net, history
    <2>2. receipt # None
      BY <2>1 DEF UIAnswerInv, Seen, SeenBy, At
    <2> QED BY <2>1, <2>2 DEF UIAnswerInv, TypesOK, FitsOK
  <1>2. PICK r \in Receipts :
          /\ receipt' = r /\ r.gen = receipt.gen + 1 /\ r.gen > receipt.gen /\ r.result = receipt.result
          /\ r.learned <=> receipt.learned
          /\ r.phase \in {"cancel_started", "uncertain"}
          /\ proc[k].cmd = "cancel" \/ answer[k] = Mismatched => r.phase = "cancel_started"
          /\ GoesWith(k, "gone", r)
    <2>1. PICK phase \in {"cancel_started", "uncertain"} :
            /\ proc[k].cmd = "cancel" \/ answer[k] = Mismatched => phase = "cancel_started"
            /\ Publish(k, "gone", Later(receipt, phase, receipt.attempt, None))
      BY <1>1 DEF RecordsDoubt
    <2> DEFINE r == Later(receipt, phase, receipt.attempt, None)
    <2>2. /\ r \in Receipts /\ r.gen = receipt.gen + 1 /\ r.gen > receipt.gen /\ r.phase = phase
          /\ r.learned <=> receipt.learned
          /\ r.result = receipt.result
      BY <1>1, LaterReceipt DEF Phases, Receipts
    <2>3. receipt' = r /\ GoesWith(k, "gone", r)
      BY <2>1 DEF Publish
    <2> HIDE DEF r
    <2> QED BY <2>1, <2>2, <2>3
  <1>3. /\ proc' \in ProcType /\ proc'[k].at = "gone"
        /\ proc'[k].cmd = proc[k].cmd /\ proc'[k].seen = r /\ r # None /\ ReceiptOK(r)
        /\ \A j \in Procs : j # k => proc'[j] = proc[j]
    <2>1. proc \in ProcType /\ "gone" \in Places
      BY DEF UIAnswerInv, TypesOK, ProcType, Places
    <2>2. r # None /\ ReceiptOK(r)
      BY <1>1, <1>2 DEF UIAnswerAssumption, ReceiptOK, Receipts
    <2> QED BY <1>2, <2>1, <2>2, MovedWith
  <1>4. /\ receipt.phase = "cancel_started" => r.phase = "cancel_started"
        /\ r.phase # "known"
    <2>1. SeenBy(k)
      BY DEF UIAnswerInv, Seen
    <2>2. proc[k].cmd \in Commands
      BY DEF UIAnswerInv, TypesOK
    <2> QED BY <1>1, <1>2, <2>1, <2>2 DEF SeenBy, At, Commands
  <1>5. TypesOK'
    BY <1>1, <1>2, <1>3, <1>4 DEF UIAnswerInv, UIAnswerAssumption, TypesOK, ProcType
  <1>6. FitsOK'
    BY <1>1, <1>2, <1>3, <1>4 DEF UIAnswerInv, UIAnswerAssumption, TypesOK, FitsOK, ProcType,
       At, Seen, SeenBy
  <1>7. Seen'
    <2>1. SeenBy(k)'
      BY <1>1, <1>2, <1>3 DEF UIAnswerInv, UIAnswerAssumption, TypesOK, Seen, SeenBy, At,
         ProcType, Receipts, Phases
    <2>2. ASSUME NEW j \in Procs, j # k PROVE SeenBy(j)'
      BY <1>1, <1>2, <1>3, <2>2 DEF UIAnswerInv, UIAnswerAssumption, TypesOK, Seen, SeenBy, At,
         ProcType, Receipts, Banned
    <2> QED BY <2>1, <2>2 DEF Seen
  <1>8. Mail'
    BY <1>1, <1>2, <1>3, <1>4 DEF UIAnswerInv, UIAnswerAssumption, TypesOK, Mail, At, ProcType,
       Messages
  <1>9. Prepared'
    <2>1. (receipt = None => workflow = None /\ \A q \in Procs : At(q, "start"))'
      BY <1>1, <1>2, <1>3 DEF UIAnswerInv, UIAnswerAssumption, TypesOK, Prepared, Seen, SeenBy,
         Mail, At, ProcType, Messages
    <2>2. (\A j, q \in Procs : proc[j].cmd = "prepare" /\ proc[q].cmd = "prepare" => j = q)'
      BY <1>1, <1>2, <1>3 DEF UIAnswerInv, UIAnswerAssumption, TypesOK, Prepared, Seen, SeenBy,
         Mail, At, ProcType, Messages
    <2>3. (\A q \in Procs : proc[q].cmd \in {"step", "status", "cancel"} => receipt.learned)'
      BY <1>1, <1>2, <1>3 DEF UIAnswerInv, UIAnswerAssumption, TypesOK, Prepared, Seen, SeenBy,
         Mail, At, ProcType, Messages
    <2>4. (receipt # None /\ receipt.learned => workflow # None /\ \A m \in wire : m.what # "prepare")'
      BY <1>1, <1>2, <1>3 DEF UIAnswerInv, UIAnswerAssumption, TypesOK, Prepared, Seen, SeenBy,
         Mail, At, ProcType, Messages
    <2>5. (workflow # None => \A m \in wire : m.what # "prepare")'
      BY <1>1, <1>2, <1>3 DEF UIAnswerInv, UIAnswerAssumption, TypesOK, Prepared, Seen, SeenBy,
         Mail, At, ProcType, Messages
    <2>6. (\A q \in Procs : proc[q].cmd = "prepare" /\ At(q, "post") => workflow = None /\ ~receipt.learned)'
      BY <1>1, <1>2, <1>3 DEF UIAnswerInv, UIAnswerAssumption, TypesOK, Prepared, Seen, SeenBy,
         Mail, At, ProcType, Messages
    <2>7. (\A q \in Procs : answer[q] # None => workflow # None)'
      BY <1>1, <1>2, <1>3 DEF UIAnswerInv, UIAnswerAssumption, TypesOK, Prepared, Seen, SeenBy,
         Mail, At, ProcType, Messages
    <2> QED BY <2>1, <2>2, <2>3, <2>4, <2>5, <2>6, <2>7 DEF Prepared
  <1>10. Banned'
    <2>1. (\A q \in Procs : lock = q <=> proc[q].at \in {"ban", "unban"})'
      BY <1>1, <1>2, <1>3 DEF UIAnswerInv, UIAnswerAssumption, TypesOK, Banned, Seen, SeenBy,
         Mail, At, ProcType, Stepping, Absent
    <2>2. (\A q \in Procs : At(q, "ban") => ban = Absent /\ open = {})'
      BY <1>1, <1>2, <1>3 DEF UIAnswerInv, UIAnswerAssumption, TypesOK, Banned, Seen, SeenBy,
         Mail, At, ProcType, Stepping, Absent
    <2>3. (\A q \in Procs : Stepping(q) => ban # Absent /\ (~At(q, "unban") => ban = proc[q].seen.gen))'
      BY <1>1, <1>2, <1>3 DEF UIAnswerInv, UIAnswerAssumption, TypesOK, Banned, Seen, SeenBy,
         Mail, At, ProcType, Stepping, Absent
    <2>4. (\A j, q \in Procs : Stepping(j) /\ Stepping(q) => j = q)'
      BY <1>1, <1>2, <1>3 DEF UIAnswerInv, UIAnswerAssumption, TypesOK, Banned, Seen, SeenBy,
         Mail, At, ProcType, Stepping, Absent
    <2>5. (\A q \in Procs : Stepping(q) => open = IF At(q, "post") THEN {} ELSE {q})'
      BY <1>1, <1>2, <1>3 DEF UIAnswerInv, UIAnswerAssumption, TypesOK, Banned, Seen, SeenBy,
         Mail, At, ProcType, Stepping, Absent
    <2>6. (open # {} => ban # Absent)'
      BY <1>1, <1>2, <1>3 DEF UIAnswerInv, UIAnswerAssumption, TypesOK, Banned, Seen, SeenBy,
         Mail, At, ProcType, Stepping, Absent
    <2>7. (\A m \in wire : m.what = "step" => m.from \in open)'
      BY <1>1, <1>2, <1>3 DEF UIAnswerInv, UIAnswerAssumption, TypesOK, Banned, Seen, SeenBy,
         Mail, At, ProcType, Stepping, Absent
    <2>8. (open = {} \/ \E q \in Procs : open = {q})'
      BY <1>1, <1>2, <1>3 DEF UIAnswerInv, UIAnswerAssumption, TypesOK, Banned, Seen, SeenBy,
         Mail, At, ProcType, Stepping, Absent
    <2> QED BY <2>1, <2>2, <2>3, <2>4, <2>5, <2>6, <2>7, <2>8 DEF Banned
  <1>11. Cancelling'
    <2>1. (\A q \in Procs : proc[q].cmd = "cancel" /\ proc[q].at \in {"post", "wait", "doubt", "done"} =>
             receipt.phase = "cancel_started")'
      BY <1>1, <1>2, <1>3, <1>4 DEF UIAnswerInv, UIAnswerAssumption, TypesOK, Cancelling, Seen,
         SeenBy, Mail, At, CancelOnce, Messages
    <2>2. (\A q \in Procs : proc[q].cmd = "cancel" /\ At(q, "post") => cancels = 0)'
      BY <1>1, <1>2, <1>3, <1>4 DEF UIAnswerInv, UIAnswerAssumption, TypesOK, Cancelling, Seen,
         SeenBy, Mail, At, CancelOnce, Messages
    <2>3. (\A j, q \in Procs :
             proc[j].cmd = "cancel" /\ At(j, "post") /\ proc[q].cmd = "cancel" /\ At(q, "post") => j = q)'
      BY <1>1, <1>2, <1>3, <1>4 DEF UIAnswerInv, UIAnswerAssumption, TypesOK, Cancelling, Seen,
         SeenBy, Mail, At, CancelOnce, Messages
    <2>4. (cancels > 0 => receipt # None /\ receipt.phase = "cancel_started")'
      BY <1>1, <1>2, <1>3, <1>4 DEF UIAnswerInv, UIAnswerAssumption, TypesOK, Cancelling, Seen,
         SeenBy, Mail, At, CancelOnce, Messages
    <2>5. (\A m \in wire : m.what = "cancel" => cancels > 0)'
      BY <1>1, <1>2, <1>3, <1>4 DEF UIAnswerInv, UIAnswerAssumption, TypesOK, Cancelling, Seen,
         SeenBy, Mail, At, CancelOnce, Messages
    <2>6. (CancelOnce)'
      BY <1>1, <1>2, <1>3, <1>4 DEF UIAnswerInv, UIAnswerAssumption, TypesOK, Cancelling, Seen,
         SeenBy, Mail, At, CancelOnce, Messages
    <2> QED BY <2>1, <2>2, <2>3, <2>4, <2>5, <2>6 DEF Cancelling
  <1>12. Settled'
    <2>1. SUFFICES ASSUME receipt' # None, receipt'.phase = "known"
                   PROVE  /\ receipt'.result = workflow' /\ workflow'.state = "ready"
                          /\ \A m \in wire' : m.what = "status"
                          /\ \A j \in Procs : Stepping(j)' => At(j, "unban")'
      BY DEF Settled
    <2>2. receipt'.result = workflow' /\ workflow'.state = "ready"
      BY <1>1, <1>2, <1>3, <1>4, <2>1 DEF UIAnswerInv, TypesOK, Settled, Seen, SeenBy, Mail,
         Prepared, Banned, Cancelling, At, Stepping, Messages, ProcType
    <2>3. \A m \in wire' : m.what = "status"
      BY <1>1, <1>2, <1>3, <1>4, <2>1 DEF UIAnswerInv, TypesOK, Settled, Seen, SeenBy, Mail,
         Prepared, Banned, Cancelling, At, Stepping, Messages, ProcType
    <2>4. ASSUME NEW j \in Procs, Stepping(j)' PROVE At(j, "unban")'
      BY <1>1, <1>2, <1>3, <1>4, <2>1, <2>4 DEF UIAnswerInv, Settled, Stepping, At
    <2> QED BY <2>2, <2>3, <2>4
  <1>13. Timely'
    <2>1. TimelyBy(k)'
      BY <1>1, <1>2, <1>3 DEF UIAnswerInv, UIAnswerAssumption, TypesOK, Timely, TimelyBy, At,
         ProcType, Receipts, Seen, SeenBy
    <2>2. ASSUME NEW j \in Procs, j # k PROVE TimelyBy(j)'
      BY <1>1, <1>2, <1>3, <2>2 DEF UIAnswerInv, UIAnswerAssumption, TypesOK, Timely, TimelyBy,
         At, ProcType, Receipts, Seen, SeenBy
    <2> QED BY <2>1, <2>2 DEF Timely
  <1>14. Ordered'
    <2>1. (receipt # None /\ receipt.result # None => receipt.result.rev <= workflow.rev)'
      BY <1>1, <1>2, <1>3 DEF UIAnswerInv, UIAnswerAssumption, TypesOK, Ordered, Prepared, Seen,
         SeenBy, Mail, At, FitsOK
    <2>2. (\A q \in Procs : ~At(q, "start") /\ proc[q].seen.result # None =>
             workflow # None /\ proc[q].seen.result.rev <= workflow.rev)'
      BY <1>1, <1>2, <1>3 DEF UIAnswerInv, UIAnswerAssumption, TypesOK, Ordered, Prepared, Seen,
         SeenBy, Mail, At, FitsOK
    <2>3. (\A q \in Procs : At(q, "wait") /\ answer[q] \in Workflows =>
             /\ answer[q].rev <= workflow.rev
             /\ proc[q].seen.result # None => proc[q].seen.result.rev <= answer[q].rev)'
      BY <1>1, <1>2, <1>3 DEF UIAnswerInv, UIAnswerAssumption, TypesOK, Ordered, Prepared, Seen,
         SeenBy, Mail, At, FitsOK
    <2> QED BY <2>1, <2>2, <2>3 DEF Ordered
  <1> QED BY <1>5, <1>6, <1>7, <1>8, <1>9, <1>10, <1>11, <1>12, <1>13, <1>14 DEF UIAnswerInv

LEMMA ProgressInv ==
  ASSUME UIAnswerAssumption, UIAnswerInv, Progress
  PROVE  UIAnswerInv'
  <1>1. /\ workflow \in Workflows /\ workflow # None /\ workflow.state = "awaiting_operation"
        /\ workflow' \in Workflows /\ workflow' # None /\ Fits(workflow')
        /\ workflow'.rev >= workflow.rev /\ workflow.rev \in Nat /\ workflow'.rev \in Nat
        /\ UNCHANGED <<receipt, ban, lock, proc, wire, answer, open, sent, cancels>>
    <2>1. workflow \in Workflows /\ workflow # None /\ workflow.state = "awaiting_operation"
      BY DEF Progress, UIAnswerInv, TypesOK
    <2>2. workflow.next < StepCount
      BY <2>1 DEF UIAnswerInv, FitsOK, Fits
    <2>3. workflow' \in Workflows /\ Fits(workflow') /\ workflow'.rev >= workflow.rev
      BY <2>1, <2>2, AfterWorkflow DEF Progress
    <2> QED BY <2>1, <2>3, WorkflowFields DEF Progress, history, UIAnswerAssumption
  <1>2. \A j \in Procs : ~(/\ At(j, "wait") /\ answer[j] \in Workflows
                            /\ proc[j].seen = receipt /\ PhaseAfter(j) = "known")
    <2>1. SUFFICES ASSUME NEW j \in Procs, At(j, "wait"), answer[j] \in Workflows,
                          proc[j].seen = receipt, PhaseAfter(j) = "known"
                   PROVE  FALSE
      OBVIOUS
    <2>2. answer[j] = workflow
      BY <2>1 DEF UIAnswerInv, Timely, TimelyBy
    <2>3. proc[j].cmd = "status" /\ receipt.phase = "known"
      BY <1>1, <2>1, <2>2 DEF PhaseAfter, StatusPhase
    <2>4. receipt # None
      BY <2>1 DEF UIAnswerInv, Seen, SeenBy, At
    <2> QED BY <1>1, <2>3, <2>4 DEF UIAnswerInv, Settled
  <1>3. TypesOK'
    BY <1>1, <1>2 DEF UIAnswerInv, UIAnswerAssumption, TypesOK, ProcType
  <1>4. FitsOK'
    BY <1>1, <1>2 DEF UIAnswerInv, UIAnswerAssumption, TypesOK, FitsOK, ProcType, At, Seen, SeenBy
  <1>5. Seen'
    BY <1>1, <1>2 DEF UIAnswerInv, UIAnswerAssumption, TypesOK, Seen, SeenBy, At, ProcType
  <1>6. Mail'
    BY <1>1, <1>2 DEF UIAnswerInv, UIAnswerAssumption, TypesOK, Mail, At, ProcType, Messages
  <1>7. Prepared'
    BY <1>1, <1>2 DEF UIAnswerInv, UIAnswerAssumption, TypesOK, Prepared, Seen, SeenBy, Mail,
       At, ProcType, Messages
  <1>8. Banned'
    BY <1>1, <1>2 DEF UIAnswerInv, UIAnswerAssumption, TypesOK, Banned, Seen, SeenBy, Mail, At,
       ProcType, Stepping, Absent
  <1>9. Cancelling'
    BY <1>1, <1>2 DEF UIAnswerInv, UIAnswerAssumption, TypesOK, Cancelling, Seen, SeenBy, Mail,
       At, CancelOnce, Messages
  <1>10. Settled'
    BY <1>1 DEF UIAnswerInv, Settled
  <1>11. Timely'
    BY <1>1, <1>2 DEF Timely, TimelyBy, At, PhaseAfter, StatusPhase
  <1>12. Ordered'
    <2>1. (receipt # None /\ receipt.result # None => receipt.result.rev <= workflow.rev)'
      BY <1>1, <1>2 DEF UIAnswerInv, UIAnswerAssumption, TypesOK, Ordered, Prepared, Seen,
         SeenBy, Mail, At, FitsOK, Receipts, Workflows
    <2>2. (\A k \in Procs : ~At(k, "start") /\ proc[k].seen.result # None =>
             workflow # None /\ proc[k].seen.result.rev <= workflow.rev)'
      BY <1>1, <1>2 DEF UIAnswerInv, UIAnswerAssumption, TypesOK, Ordered, Prepared, Seen,
         SeenBy, Mail, At, FitsOK, Receipts, Workflows
    <2>3. (\A k \in Procs : At(k, "wait") /\ answer[k] \in Workflows =>
             /\ answer[k].rev <= workflow.rev
             /\ proc[k].seen.result # None => proc[k].seen.result.rev <= answer[k].rev)'
      BY <1>1, <1>2 DEF UIAnswerInv, UIAnswerAssumption, TypesOK, Ordered, Prepared, Seen,
         SeenBy, Mail, At, FitsOK, Receipts, Workflows
    <2> QED BY <2>1, <2>2, <2>3 DEF Ordered
  <1> QED BY <1>3, <1>4, <1>5, <1>6, <1>7, <1>8, <1>9, <1>10, <1>11, <1>12 DEF UIAnswerInv

LEMMA ServeInv ==
  ASSUME UIAnswerAssumption, UIAnswerInv, NEW m \in wire, Serve(m)
  PROVE  UIAnswerInv'
  <1>1. /\ m \in Messages /\ m.from \in Procs /\ wire' = wire \ {m}
        /\ proc[m.from].at \notin {"start", "reserve", "ban", "post"}
        /\ m.what = proc[m.from].cmd /\ answer[m.from] = None
        /\ \A n \in wire' : n.from # m.from
        /\ UNCHANGED <<receipt, ban, lock, proc, open, sent, cancels>>
    <2>1. m \in Messages /\ m.from \in Procs
      BY DEF UIAnswerInv, TypesOK, Messages
    <2>2. wire' = wire \ {m} /\ UNCHANGED <<receipt, ban, lock, proc, open, sent, cancels>>
      BY DEF Serve, history
    <2> QED BY <2>1, <2>2 DEF UIAnswerInv, Mail
  <1>2. workflow' \in Taken(m)
    BY DEF Serve
  <1>3. /\ workflow' \in Workflows /\ workflow' # None /\ workflow' # Mismatched /\ Fits(workflow')
        /\ workflow'.rev \in Nat
        /\ workflow # None => workflow.rev \in Nat /\ workflow'.rev >= workflow.rev
        /\ m.what = "prepare" => workflow = None
        /\ m.what # "prepare" => workflow # None
        /\ m.what = "status" => workflow' = workflow
        /\ Mismatched \notin Workflows
    <2>0. Mismatched \notin Workflows
      BY WorkflowFields
    <2>1. CASE m.what = "prepare"
      <3>1. workflow = None
        BY <2>1 DEF UIAnswerInv, Prepared
      <3>2. /\ workflow' = [state |-> "ready", next |-> 0, rev |-> 0]
               \/ workflow' = [state |-> "stopped", next |-> 0, rev |-> 0]
        BY <1>2, <2>1 DEF Taken
      <3>3. 0 \in 0..StepCount /\ 0 < StepCount
        BY DEF UIAnswerAssumption
      <3>4. workflow' \in Workflows /\ Fits(workflow')
        BY <3>2, <3>3 DEF Workflows, States, Fits
      <3> QED BY <2>1, <3>1, <3>4, WorkflowFields DEF UIAnswerAssumption
    <2>2. CASE m.what # "prepare"
      <3>1. m.what \in {"step", "status", "cancel"}
        BY <1>1, <2>2 DEF Messages, Commands
      <3>2. receipt.learned /\ receipt # None
        BY <1>1, <3>1 DEF UIAnswerInv, Prepared, Seen, SeenBy, At
      <3>3. workflow \in Workflows /\ workflow # None /\ Fits(workflow)
        BY <3>2 DEF UIAnswerInv, Prepared, TypesOK, FitsOK
      <3>4. /\ workflow' \in Workflows /\ Fits(workflow') /\ workflow'.rev >= workflow.rev
            /\ m.what = "status" => workflow' = workflow
        BY <1>1, <1>2, <2>2, <3>3, TakenWorkflow
      <3> QED BY <2>2, <3>3, <3>4, WorkflowFields DEF UIAnswerAssumption
    <2> QED BY <2>0, <2>1, <2>2
  <1>4. /\ answer' \in [Procs -> Workflows \cup {Mismatched, None}]
        /\ answer'[m.from] \in {workflow', Mismatched} /\ answer'[m.from] # None
        /\ \A j \in Procs : j # m.from => answer'[j] = answer[j]
    <2>1. PICK a \in {workflow', Mismatched} : answer' = [answer EXCEPT ![m.from] = a]
      BY DEF Serve
    <2> QED BY <1>1, <1>3, <2>1 DEF UIAnswerInv, TypesOK, UIAnswerAssumption
  <1>5. ASSUME NEW j \in Procs, j # m.from, At(j, "wait"), answer[j] \in Workflows,
               proc[j].seen = receipt, PhaseAfter(j) = "known"
        PROVE  workflow' = workflow
    <2>1. SeenBy(j) /\ proc[j].cmd \in Commands
      BY DEF UIAnswerInv, Seen, TypesOK
    <2>2. workflow # None
      BY <1>5 DEF UIAnswerInv, Prepared, UIAnswerAssumption
    <2>3. m.what \in {"step", "status", "cancel"}
      BY <1>1, <1>3, <2>2 DEF Messages, Commands
    <2>4. receipt # None /\ receipt.learned
      BY <1>1, <1>5, <2>1, <2>3 DEF UIAnswerInv, Prepared, SeenBy, At
    <2>5. CASE proc[j].cmd = "prepare"
      BY <1>5, <2>1, <2>4, <2>5 DEF SeenBy, At
    <2>6. CASE proc[j].cmd = "step"
      <3>1. receipt.phase = "step_started"
        BY <1>5, <2>1, <2>6 DEF SeenBy, At
      <3>2. m.what # "cancel"
        BY <3>1 DEF UIAnswerInv, Cancelling
      <3>3. Stepping(j) /\ ~At(j, "post")
        BY <1>5, <2>6 DEF Stepping, At
      <3>4. open = {j}
        BY <3>3 DEF UIAnswerInv, Banned
      <3>5. m.what # "step"
        BY <1>5, <3>4 DEF UIAnswerInv, Banned
      <3> QED BY <1>3, <2>3, <3>2, <3>5
    <2>7. CASE proc[j].cmd = "status"
      <3>1. receipt.phase = "known"
        BY <1>5, <2>7 DEF PhaseAfter, StatusPhase
      <3> QED BY <1>3, <2>4, <3>1 DEF UIAnswerInv, Settled
    <2>8. CASE proc[j].cmd = "cancel"
      BY <1>5, <2>8 DEF PhaseAfter
    <2> QED BY <1>5, <2>1, <2>5, <2>6, <2>7, <2>8 DEF SeenBy, At, Commands
  <1>6. TypesOK'
    BY <1>1, <1>3, <1>4 DEF UIAnswerInv, TypesOK
  <1>7. FitsOK'
    <2>1. (workflow # None => Fits(workflow))'
      BY <1>1, <1>3, <1>4 DEF UIAnswerInv, UIAnswerAssumption, FitsOK, At
    <2>2. (\A k \in Procs : answer[k] \in Workflows => Fits(answer[k]))'
      BY <1>1, <1>3, <1>4 DEF UIAnswerInv, UIAnswerAssumption, FitsOK, At
    <2>3. (receipt # None => ReceiptOK(receipt))'
      BY <1>1, <1>3, <1>4 DEF UIAnswerInv, UIAnswerAssumption, FitsOK, At
    <2>4. (\A k \in Procs : ~At(k, "start") => ReceiptOK(proc[k].seen))'
      BY <1>1, <1>3, <1>4 DEF UIAnswerInv, UIAnswerAssumption, FitsOK, At
    <2> QED BY <2>1, <2>2, <2>3, <2>4 DEF FitsOK
  <1>8. Seen'
    <2>1. SeenBy(m.from)'
      BY <1>1, <1>4 DEF UIAnswerInv, UIAnswerAssumption, Seen, SeenBy, At
    <2>2. ASSUME NEW j \in Procs, j # m.from PROVE SeenBy(j)'
      BY <1>1, <1>4, <2>2 DEF UIAnswerInv, Seen, SeenBy, At
    <2> QED BY <2>1, <2>2 DEF Seen
  <1>9. Mail'
    BY <1>1, <1>3, <1>4 DEF UIAnswerInv, Mail, TypesOK, Messages
  <1>10. Prepared'
    <2>1. (receipt = None => workflow = None /\ \A k \in Procs : At(k, "start"))'
      BY <1>1, <1>3, <1>4 DEF UIAnswerInv, UIAnswerAssumption, TypesOK, Prepared, Seen, SeenBy,
         Mail, At, ProcType, Messages
    <2>2. (\A j, k \in Procs : proc[j].cmd = "prepare" /\ proc[k].cmd = "prepare" => j = k)'
      BY <1>1, <1>3, <1>4 DEF UIAnswerInv, UIAnswerAssumption, TypesOK, Prepared, Seen, SeenBy,
         Mail, At, ProcType, Messages
    <2>3. (\A k \in Procs : proc[k].cmd \in {"step", "status", "cancel"} => receipt.learned)'
      BY <1>1, <1>3, <1>4 DEF UIAnswerInv, UIAnswerAssumption, TypesOK, Prepared, Seen, SeenBy,
         Mail, At, ProcType, Messages
    <2>4. (receipt # None /\ receipt.learned => workflow # None /\ \A x \in wire : x.what # "prepare")'
      BY <1>1, <1>3, <1>4 DEF UIAnswerInv, UIAnswerAssumption, TypesOK, Prepared, Seen, SeenBy,
         Mail, At, ProcType, Messages
    <2>5. (workflow # None => \A x \in wire : x.what # "prepare")'
      BY <1>1, <1>3, <1>4 DEF UIAnswerInv, UIAnswerAssumption, TypesOK, Prepared, Seen, SeenBy,
         Mail, At, ProcType, Messages
    <2>6. (\A k \in Procs : proc[k].cmd = "prepare" /\ At(k, "post") => workflow = None /\ ~receipt.learned)'
      BY <1>1, <1>3, <1>4 DEF UIAnswerInv, UIAnswerAssumption, TypesOK, Prepared, Seen, SeenBy,
         Mail, At, ProcType, Messages
    <2>7. (\A k \in Procs : answer[k] # None => workflow # None)'
      BY <1>1, <1>3, <1>4 DEF UIAnswerInv, UIAnswerAssumption, TypesOK, Prepared, Seen, SeenBy,
         Mail, At, ProcType, Messages
    <2> QED BY <2>1, <2>2, <2>3, <2>4, <2>5, <2>6, <2>7 DEF Prepared
  <1>11. Banned'
    BY <1>1 DEF UIAnswerInv, Banned, Stepping, At
  <1>12. Cancelling'
    BY <1>1 DEF UIAnswerInv, Cancelling, CancelOnce, At
  <1>13. Settled'
    <2>1. SUFFICES ASSUME receipt' # None, receipt'.phase = "known"
                   PROVE  /\ receipt'.result = workflow' /\ workflow'.state = "ready"
                          /\ \A x \in wire' : x.what = "status"
                          /\ \A j \in Procs : Stepping(j)' => At(j, "unban")'
      BY DEF Settled
    <2>2. receipt'.result = workflow' /\ workflow'.state = "ready"
      BY <1>1, <1>3, <1>4, <2>1 DEF UIAnswerInv, TypesOK, Settled, Seen, SeenBy, Mail, Prepared,
         Banned, Cancelling, At, Stepping, Messages, ProcType
    <2>3. \A x \in wire' : x.what = "status"
      BY <1>1, <1>3, <1>4, <2>1 DEF UIAnswerInv, TypesOK, Settled, Seen, SeenBy, Mail, Prepared,
         Banned, Cancelling, At, Stepping, Messages, ProcType
    <2>4. ASSUME NEW j \in Procs, Stepping(j)' PROVE At(j, "unban")'
      BY <1>1, <1>3, <1>4, <2>1, <2>4 DEF UIAnswerInv, Settled, Stepping, At
    <2> QED BY <2>2, <2>3, <2>4
  <1>14. Timely'
    <2>1. ASSUME NEW j \in Procs, j # m.from PROVE TimelyBy(j)'
      BY <1>1, <1>4, <1>5, <2>1 DEF UIAnswerInv, Timely, TimelyBy, At, PhaseAfter, StatusPhase
    <2>2. TimelyBy(m.from)'
      BY <1>1, <1>3, <1>4 DEF TimelyBy, UIAnswerAssumption
    <2> QED BY <2>1, <2>2 DEF Timely
  <1>15. Ordered'
    <2>1. (receipt # None /\ receipt.result # None => receipt.result.rev <= workflow.rev)'
      BY <1>1, <1>3, <1>4 DEF UIAnswerInv, UIAnswerAssumption, TypesOK, Ordered, Prepared, Seen,
         SeenBy, Mail, At, FitsOK, Receipts, Workflows, ReceiptOK
    <2>2. (\A k \in Procs : ~At(k, "start") /\ proc[k].seen.result # None =>
             workflow # None /\ proc[k].seen.result.rev <= workflow.rev)'
      BY <1>1, <1>3, <1>4 DEF UIAnswerInv, UIAnswerAssumption, TypesOK, Ordered, Prepared, Seen,
         SeenBy, Mail, At, FitsOK, Receipts, Workflows, ReceiptOK
    <2>3. (\A k \in Procs : At(k, "wait") /\ answer[k] \in Workflows =>
             /\ answer[k].rev <= workflow.rev
             /\ proc[k].seen.result # None => proc[k].seen.result.rev <= answer[k].rev)'
      <3>1. SUFFICES ASSUME NEW j \in Procs, At(j, "wait")', (answer[j] \in Workflows)'
                     PROVE  /\ answer'[j].rev <= workflow'.rev
                            /\ proc[j].seen.result # None => proc[j].seen.result.rev <= answer'[j].rev
        BY <1>1
      <3>2. ~At(j, "start") /\ At(j, "wait") /\ answer'[j] \in Workflows /\ answer'[j].rev \in Nat
        BY <1>1, <3>1, WorkflowFields DEF At
      <3>3. CASE j = m.from
        <4>1. answer'[j] = workflow'
          BY <1>3, <1>4, <3>2, <3>3
        <4>2. proc[j].seen.result # None => proc[j].seen.result.rev <= workflow'.rev
          BY <1>3, <1>1, <2>2, <3>2 DEF At
        <4> QED BY <1>3, <4>1, <4>2
      <3>4. CASE j # m.from
        <4>1. answer[j] \in Workflows /\ answer'[j] = answer[j]
          BY <1>4, <3>2, <3>4
        <4>2. /\ answer[j].rev <= workflow.rev /\ workflow # None
              /\ proc[j].seen.result # None => proc[j].seen.result.rev <= answer[j].rev
          BY <3>2, <4>1 DEF UIAnswerInv, UIAnswerAssumption, Ordered, Prepared
        <4> QED BY <1>3, <3>2, <4>1, <4>2
      <3> QED BY <3>3, <3>4
    <2> QED BY <2>1, <2>2, <2>3 DEF Ordered
  <1> QED BY <1>6, <1>7, <1>8, <1>9, <1>10, <1>11, <1>12, <1>13, <1>14, <1>15 DEF UIAnswerInv

LEMMA RecordInv ==
  ASSUME UIAnswerAssumption, UIAnswerInv, NEW k \in Procs, Record(k)
  PROVE  UIAnswerInv'
  <1>1. /\ At(k, "wait") /\ answer[k] \in Workflows /\ answer[k] # None /\ answer[k] # Mismatched
        /\ lock = Nobody /\ receipt = proc[k].seen /\ receipt \in Receipts /\ receipt # None
        /\ ReceiptOK(receipt) /\ SeenBy(k) /\ proc[k].cmd \in Commands \ {"none"}
        /\ workflow \in Workflows /\ workflow # None /\ workflow.rev \in Nat /\ answer[k].rev \in Nat
        /\ WorkflowOK(answer[k])
        /\ UNCHANGED <<ban, wire, answer, workflow, open, sent, cancels>>
    <2>1. /\ At(k, "wait") /\ answer[k] # None /\ answer[k] # Mismatched
          /\ lock = Nobody /\ receipt = proc[k].seen
          /\ UNCHANGED <<ban, wire, answer, workflow, open, sent, cancels>>
      BY DEF Record, Accepted, Answered, MayRecord, Current, net, history
    <2>2. SeenBy(k) /\ receipt # None /\ proc[k].cmd \in Commands \ {"none"}
      BY <2>1 DEF UIAnswerInv, Seen, SeenBy, At, TypesOK
    <2>3. receipt \in Receipts /\ ReceiptOK(receipt)
      BY <2>2 DEF UIAnswerInv, TypesOK, FitsOK
    <2>4. answer[k] \in Workflows /\ Fits(answer[k])
      BY <2>1 DEF UIAnswerInv, TypesOK, FitsOK
    <2>5. workflow \in Workflows /\ workflow # None
      BY <2>1 DEF UIAnswerInv, TypesOK, Prepared
    <2> QED BY <2>1, <2>2, <2>3, <2>4, <2>5, WorkflowFields DEF WorkflowOK, Fits
  <1>2. /\ PhaseAfter(k) \in Phases
        /\ proc[k].cmd = "cancel" => PhaseAfter(k) = "cancel_started"
        /\ proc[k].cmd = "status" => PhaseAfter(k) = receipt.phase
        /\ proc[k].cmd \in {"prepare", "step"} =>
             PhaseAfter(k) = IF answer[k].state = "ready" THEN "known" ELSE "uncertain"
        /\ Releases(k) <=> proc[k].cmd = "step" /\ PhaseAfter(k) = "known"
    <2>1. /\ PhaseAfter(k) \in Phases
          /\ proc[k].cmd = "cancel" => PhaseAfter(k) = "cancel_started"
          /\ proc[k].cmd = "status" => PhaseAfter(k) = receipt.phase
          /\ proc[k].cmd \in {"prepare", "step"} =>
               PhaseAfter(k) = IF answer[k].state = "ready" THEN "known" ELSE "uncertain"
      BY <1>1 DEF PhaseAfter, StatusPhase, Phases, Receipts
    <2> QED BY <1>1, <2>1 DEF Releases, SeenBy, At, Commands
  <1>3. PICK r \in Receipts :
          /\ receipt' = r /\ r.gen = receipt.gen + 1 /\ r.gen > receipt.gen /\ r.phase = PhaseAfter(k)
          /\ r.learned /\ r.result = answer[k]
          /\ r.phase = "known" => r.attempt = None
          /\ r.phase = "step_started" => r.attempt # None
          /\ GoesWith(k, IF Releases(k) THEN "unban" ELSE "done", r)
          /\ lock' = IF Releases(k) THEN k ELSE Nobody
    <2> DEFINE kept == IF proc[k].cmd = "status" /\ PhaseAfter(k) # "known" THEN receipt.attempt ELSE None
               r == Later(receipt, PhaseAfter(k), kept, answer[k])
    <2>1. kept \in Attempts \cup {None}
      BY <1>1 DEF Receipts
    <2>2. PhaseAfter(k) = "step_started" => kept # None
      BY <1>1, <1>2 DEF ReceiptOK, Commands
    <2>3. PhaseAfter(k) = "known" => kept = None
      OBVIOUS
    <2>4. /\ receipt' = r /\ GoesWith(k, IF Releases(k) THEN "unban" ELSE "done", r)
          /\ lock' = IF Releases(k) THEN k ELSE Nobody
      BY <1>1 DEF Record, Publish
    <2> HIDE DEF kept
    <2>5. /\ r \in Receipts /\ r.gen = receipt.gen + 1 /\ r.gen > receipt.gen /\ r.phase = PhaseAfter(k)
          /\ r.learned /\ r.result = answer[k] /\ r.attempt = kept
      <3> DEFINE phase == PhaseAfter(k)
                 result == answer[k]
      <3>1. phase \in Phases /\ result \in Workflows \cup {None} /\ result # None /\ receipt \in Receipts
        BY <1>1, <1>2
      <3>2. r = Later(receipt, phase, kept, result)
        OBVIOUS
      <3> HIDE DEF phase, result, r
      <3>3. /\ r \in Receipts /\ r.gen = receipt.gen + 1 /\ r.gen > receipt.gen /\ r.phase = phase
            /\ r.attempt = kept /\ (r.learned <=> receipt.learned \/ result # None)
            /\ r.result = IF result = None THEN receipt.result ELSE result
        BY <2>1, <3>1, <3>2, LaterReceipt
      <3> QED BY <3>1, <3>3 DEF phase, result
    <2> HIDE DEF r
    <2> QED BY <2>2, <2>3, <2>4, <2>5
  <1>4. /\ proc' \in ProcType /\ proc'[k].at = IF Releases(k) THEN "unban" ELSE "done"
        /\ proc'[k].cmd = proc[k].cmd /\ proc'[k].seen = r /\ r # None /\ ReceiptOK(r)
        /\ \A j \in Procs : j # k => proc'[j] = proc[j]
    <2> DEFINE at == IF Releases(k) THEN "unban" ELSE "done"
    <2>1. proc \in ProcType /\ at \in Places
      BY DEF UIAnswerInv, TypesOK, ProcType, Places
    <2>2. r # None /\ ReceiptOK(r)
      BY <1>1, <1>3 DEF UIAnswerAssumption, ReceiptOK, Receipts
    <2>3. GoesWith(k, at, r)
      BY <1>3
    <2> HIDE DEF at
    <2>4. /\ proc' \in ProcType /\ proc'[k].at = at /\ proc'[k].cmd = proc[k].cmd /\ proc'[k].seen = r
          /\ \A j \in Procs : j # k => proc'[j] = proc[j]
      BY <2>1, <2>3, MovedWith
    <2> QED BY <2>2, <2>4 DEF at
  <1>5. receipt.phase = "cancel_started" => r.phase = "cancel_started"
    BY <1>1, <1>2, <1>3 DEF SeenBy, At, Commands
  <1>6. ASSUME r.phase = "known"
        PROVE  /\ answer[k] = workflow /\ workflow.state = "ready"
               /\ \A m \in wire : m.what = "status"
               /\ \A j \in Procs : Stepping(j) => j = k \/ At(j, "unban")
    <2>1. answer[k] = workflow
      BY <1>1, <1>3, <1>6 DEF UIAnswerInv, Timely, TimelyBy
    <2>2. CASE receipt.phase = "known"
      BY <1>1, <2>1, <2>2 DEF UIAnswerInv, Settled
    <2>3. CASE proc[k].cmd = "step"
      <3>1. Stepping(k) /\ ~At(k, "post") /\ receipt.phase = "step_started"
        BY <1>1, <2>3 DEF Stepping, At, SeenBy
      <3>2. open = {k} /\ \A j \in Procs : Stepping(j) => j = k
        BY <3>1 DEF UIAnswerInv, Banned
      <3>3. \A m \in wire : m.what # "step"
        BY <1>1, <3>2 DEF UIAnswerInv, Banned, Mail
      <3>4. \A m \in wire : m.what # "cancel" /\ m.what # "prepare"
        BY <1>1, <3>1 DEF UIAnswerInv, Cancelling, Prepared
      <3>5. \A m \in wire : m.what = "status"
        BY <3>3, <3>4 DEF UIAnswerInv, TypesOK, Messages, Commands
      <3> QED BY <1>2, <1>3, <1>6, <2>1, <2>3, <3>2, <3>5
    <2>4. CASE proc[k].cmd = "prepare"
      <3>1. ~receipt.learned
        BY <1>1, <2>4 DEF SeenBy, At
      <3>2. \A j \in Procs : proc[j].cmd \notin {"step", "status", "cancel"}
        BY <3>1 DEF UIAnswerInv, Prepared
      <3>3. \A m \in wire : m.what \notin {"step", "status", "cancel"}
        BY <3>2 DEF UIAnswerInv, Mail, TypesOK, Messages
      <3>4. \A m \in wire : m.what # "prepare"
        BY <1>1 DEF UIAnswerInv, Prepared
      <3>5. \A m \in wire : m.what = "status"
        BY <3>3, <3>4 DEF UIAnswerInv, TypesOK, Messages, Commands
      <3> QED BY <1>2, <1>3, <1>6, <2>1, <2>4, <3>2, <3>5 DEF Stepping
    <2> QED BY <1>1, <1>2, <1>3, <1>6, <2>2, <2>3, <2>4 DEF Commands
  <1>7. TypesOK'
    BY <1>1, <1>2, <1>3, <1>4, <1>5, <1>6 DEF UIAnswerInv, UIAnswerAssumption, TypesOK, ProcType
  <1>8. FitsOK'
    BY <1>1, <1>2, <1>3, <1>4, <1>5, <1>6 DEF UIAnswerInv, UIAnswerAssumption, TypesOK, FitsOK,
       ProcType, At, Seen, SeenBy
  <1>9. Seen'
    <2>1. SeenBy(k)'
      BY <1>1, <1>2, <1>3, <1>4 DEF UIAnswerInv, UIAnswerAssumption, TypesOK, Seen, SeenBy, At,
         ProcType, Receipts, Phases
    <2>2. ASSUME NEW j \in Procs, j # k PROVE SeenBy(j)'
      BY <1>1, <1>2, <1>3, <1>4, <2>2 DEF UIAnswerInv, UIAnswerAssumption, TypesOK, Seen,
         SeenBy, At, ProcType, Receipts, Banned
    <2> QED BY <2>1, <2>2 DEF Seen
  <1>10. Mail'
    BY <1>1, <1>2, <1>3, <1>4, <1>5, <1>6 DEF UIAnswerInv, UIAnswerAssumption, TypesOK, Mail,
       At, ProcType, Messages
  <1>11. Prepared'
    <2>1. (receipt = None => workflow = None /\ \A q \in Procs : At(q, "start"))'
      BY <1>1, <1>3, <1>4 DEF UIAnswerInv, UIAnswerAssumption, TypesOK, Prepared, Seen, SeenBy,
         Mail, At, ProcType, Messages
    <2>2. (\A j, q \in Procs : proc[j].cmd = "prepare" /\ proc[q].cmd = "prepare" => j = q)'
      BY <1>1, <1>3, <1>4 DEF UIAnswerInv, UIAnswerAssumption, TypesOK, Prepared, Seen, SeenBy,
         Mail, At, ProcType, Messages
    <2>3. (\A q \in Procs : proc[q].cmd \in {"step", "status", "cancel"} => receipt.learned)'
      BY <1>1, <1>3, <1>4 DEF UIAnswerInv, UIAnswerAssumption, TypesOK, Prepared, Seen, SeenBy,
         Mail, At, ProcType, Messages
    <2>4. (receipt # None /\ receipt.learned => workflow # None /\ \A m \in wire : m.what # "prepare")'
      BY <1>1, <1>3, <1>4 DEF UIAnswerInv, UIAnswerAssumption, TypesOK, Prepared, Seen, SeenBy,
         Mail, At, ProcType, Messages
    <2>5. (workflow # None => \A m \in wire : m.what # "prepare")'
      BY <1>1, <1>3, <1>4 DEF UIAnswerInv, UIAnswerAssumption, TypesOK, Prepared, Seen, SeenBy,
         Mail, At, ProcType, Messages
    <2>6. (\A q \in Procs : proc[q].cmd = "prepare" /\ At(q, "post") => workflow = None /\ ~receipt.learned)'
      BY <1>1, <1>3, <1>4 DEF UIAnswerInv, UIAnswerAssumption, TypesOK, Prepared, Seen, SeenBy,
         Mail, At, ProcType, Messages
    <2>7. (\A q \in Procs : answer[q] # None => workflow # None)'
      BY <1>1, <1>3, <1>4 DEF UIAnswerInv, UIAnswerAssumption, TypesOK, Prepared, Seen, SeenBy,
         Mail, At, ProcType, Messages
    <2> QED BY <2>1, <2>2, <2>3, <2>4, <2>5, <2>6, <2>7 DEF Prepared
  <1>12. Banned'
    <2>1. (\A q \in Procs : lock = q <=> proc[q].at \in {"ban", "unban"})'
      BY <1>1, <1>2, <1>3, <1>4 DEF UIAnswerInv, UIAnswerAssumption, TypesOK, Banned, Seen,
         SeenBy, Mail, At, ProcType, Stepping, Absent
    <2>2. (\A q \in Procs : At(q, "ban") => ban = Absent /\ open = {})'
      BY <1>1, <1>2, <1>3, <1>4 DEF UIAnswerInv, UIAnswerAssumption, TypesOK, Banned, Seen,
         SeenBy, Mail, At, ProcType, Stepping, Absent
    <2>3. (\A q \in Procs : Stepping(q) => ban # Absent /\ (~At(q, "unban") => ban = proc[q].seen.gen))'
      BY <1>1, <1>2, <1>3, <1>4 DEF UIAnswerInv, UIAnswerAssumption, TypesOK, Banned, Seen,
         SeenBy, Mail, At, ProcType, Stepping, Absent
    <2>4. (\A j, q \in Procs : Stepping(j) /\ Stepping(q) => j = q)'
      BY <1>1, <1>2, <1>3, <1>4 DEF UIAnswerInv, UIAnswerAssumption, TypesOK, Banned, Seen,
         SeenBy, Mail, At, ProcType, Stepping, Absent
    <2>5. (\A q \in Procs : Stepping(q) => open = IF At(q, "post") THEN {} ELSE {q})'
      BY <1>1, <1>2, <1>3, <1>4 DEF UIAnswerInv, UIAnswerAssumption, TypesOK, Banned, Seen,
         SeenBy, Mail, At, ProcType, Stepping, Absent
    <2>6. (open # {} => ban # Absent)'
      BY <1>1, <1>2, <1>3, <1>4 DEF UIAnswerInv, UIAnswerAssumption, TypesOK, Banned, Seen,
         SeenBy, Mail, At, ProcType, Stepping, Absent
    <2>7. (\A m \in wire : m.what = "step" => m.from \in open)'
      BY <1>1, <1>2, <1>3, <1>4 DEF UIAnswerInv, UIAnswerAssumption, TypesOK, Banned, Seen,
         SeenBy, Mail, At, ProcType, Stepping, Absent
    <2>8. (open = {} \/ \E q \in Procs : open = {q})'
      BY <1>1, <1>2, <1>3, <1>4 DEF UIAnswerInv, UIAnswerAssumption, TypesOK, Banned, Seen,
         SeenBy, Mail, At, ProcType, Stepping, Absent
    <2> QED BY <2>1, <2>2, <2>3, <2>4, <2>5, <2>6, <2>7, <2>8 DEF Banned
  <1>13. Cancelling'
    <2>1. (\A q \in Procs : proc[q].cmd = "cancel" /\ proc[q].at \in {"post", "wait", "doubt", "done"} =>
             receipt.phase = "cancel_started")'
      BY <1>1, <1>2, <1>3, <1>4, <1>5 DEF UIAnswerInv, UIAnswerAssumption, TypesOK, Cancelling,
         Seen, SeenBy, Mail, At, CancelOnce, Messages
    <2>2. (\A q \in Procs : proc[q].cmd = "cancel" /\ At(q, "post") => cancels = 0)'
      BY <1>1, <1>2, <1>3, <1>4, <1>5 DEF UIAnswerInv, UIAnswerAssumption, TypesOK, Cancelling,
         Seen, SeenBy, Mail, At, CancelOnce, Messages
    <2>3. (\A j, q \in Procs :
             proc[j].cmd = "cancel" /\ At(j, "post") /\ proc[q].cmd = "cancel" /\ At(q, "post") => j = q)'
      BY <1>1, <1>2, <1>3, <1>4, <1>5 DEF UIAnswerInv, UIAnswerAssumption, TypesOK, Cancelling,
         Seen, SeenBy, Mail, At, CancelOnce, Messages
    <2>4. (cancels > 0 => receipt # None /\ receipt.phase = "cancel_started")'
      BY <1>1, <1>2, <1>3, <1>4, <1>5 DEF UIAnswerInv, UIAnswerAssumption, TypesOK, Cancelling,
         Seen, SeenBy, Mail, At, CancelOnce, Messages
    <2>5. (\A m \in wire : m.what = "cancel" => cancels > 0)'
      BY <1>1, <1>2, <1>3, <1>4, <1>5 DEF UIAnswerInv, UIAnswerAssumption, TypesOK, Cancelling,
         Seen, SeenBy, Mail, At, CancelOnce, Messages
    <2>6. (CancelOnce)'
      BY <1>1, <1>2, <1>3, <1>4, <1>5 DEF UIAnswerInv, UIAnswerAssumption, TypesOK, Cancelling,
         Seen, SeenBy, Mail, At, CancelOnce, Messages
    <2> QED BY <2>1, <2>2, <2>3, <2>4, <2>5, <2>6 DEF Cancelling
  <1>14. Settled'
    BY <1>1, <1>2, <1>3, <1>4, <1>6 DEF Settled, Stepping, At
  <1>15. Timely'
    <2>1. TimelyBy(k)'
      BY <1>1, <1>3, <1>4 DEF UIAnswerInv, UIAnswerAssumption, TypesOK, Timely, TimelyBy, At,
         ProcType, Receipts, Seen, SeenBy
    <2>2. ASSUME NEW j \in Procs, j # k PROVE TimelyBy(j)'
      BY <1>1, <1>3, <1>4, <2>2 DEF UIAnswerInv, UIAnswerAssumption, TypesOK, Timely, TimelyBy,
         At, ProcType, Receipts, Seen, SeenBy
    <2> QED BY <2>1, <2>2 DEF Timely
  <1>16. Ordered'
    <2>1. (receipt # None /\ receipt.result # None => receipt.result.rev <= workflow.rev)'
      BY <1>1, <1>3, <1>4 DEF UIAnswerInv, UIAnswerAssumption, TypesOK, Ordered, Prepared, Seen,
         SeenBy, Mail, At, FitsOK
    <2>2. (\A q \in Procs : ~At(q, "start") /\ proc[q].seen.result # None =>
             workflow # None /\ proc[q].seen.result.rev <= workflow.rev)'
      BY <1>1, <1>3, <1>4 DEF UIAnswerInv, UIAnswerAssumption, TypesOK, Ordered, Prepared, Seen,
         SeenBy, Mail, At, FitsOK
    <2>3. (\A q \in Procs : At(q, "wait") /\ answer[q] \in Workflows =>
             /\ answer[q].rev <= workflow.rev
             /\ proc[q].seen.result # None => proc[q].seen.result.rev <= answer[q].rev)'
      BY <1>1, <1>3, <1>4 DEF UIAnswerInv, UIAnswerAssumption, TypesOK, Ordered, Prepared, Seen,
         SeenBy, Mail, At, FitsOK
    <2> QED BY <2>1, <2>2, <2>3 DEF Ordered
  <1> QED BY <1>7, <1>8, <1>9, <1>10, <1>11, <1>12, <1>13, <1>14, <1>15, <1>16 DEF UIAnswerInv


-----------------------------------------------------------------------------
(* Every step.  *)

LEMMA DoubtSplits == ASSUME NEW k \in Procs, Doubt(k) PROVE RecordsDoubt(k) \/ GivesUp(k)
  <1> DEFINE phase == IF proc[k].cmd = "cancel" \/ answer[k] = Mismatched
                      THEN "cancel_started" ELSE "uncertain"
  <1>1. /\ At(k, "doubt") /\ UNCHANGED <<ban, lock, net, history>>
        /\ \/ Current(k) /\ Publish(k, "gone", Later(proc[k].seen, phase, proc[k].seen.attempt, None))
           \/ Goes(k, "gone") /\ UNCHANGED receipt
    BY DEF Doubt
  <1>2. /\ phase \in {"cancel_started", "uncertain"}
        /\ proc[k].cmd = "cancel" \/ answer[k] = Mismatched => phase = "cancel_started"
    OBVIOUS
  <1> HIDE DEF phase
  <1> QED BY <1>1, <1>2 DEF RecordsDoubt, GivesUp, At

LEMMA StutterInv == ASSUME UIAnswerInv, UNCHANGED vars PROVE UIAnswerInv'
  <1>1. UNCHANGED <<receipt, ban, lock, proc, wire, answer, workflow, open, sent, cancels>>
    BY DEF vars, net, history
  <1> QED BY <1>1 DEF UIAnswerInv, TypesOK, FitsOK, Seen, SeenBy, Mail, Prepared, Banned,
             Cancelling,
          Settled, Timely, TimelyBy, Ordered, At, Stepping, CancelOnce, PhaseAfter, StatusPhase

LEMMA CommandInv == ASSUME UIAnswerAssumption, UIAnswerInv, NEW k \in Procs, Command(k) PROVE UIAnswerInv'
  <1>1. CASE Prepare(k)
    BY <1>1, PrepareInv
  <1>2. CASE \E cmd \in {"step", "status", "cancel"} : Begin(k, cmd)
    BY <1>2, BeginInv
  <1>3. CASE Reserve(k)
    BY <1>3, ReserveInv
  <1>4. CASE ReserveMarker(k)
    BY <1>4, ReserveMarkerInv
  <1>5. CASE Post(k)
    BY <1>5, PostInv
  <1>6. CASE Record(k)
    BY <1>6, RecordInv
  <1>7. CASE ReleaseMarker(k)
    BY <1>7, ReleaseMarkerInv
  <1>8. CASE Fails(k)
    BY <1>8, FailsInv
  <1>9. CASE TimesOut(k)
    BY <1>9, TimesOutInv
  <1>10. CASE Doubt(k)
    BY <1>10, DoubtSplits, RecordsDoubtInv, GivesUpInv
  <1>11. CASE Refused(k)
    <2>1. GivesUp(k)
      BY <1>11 DEF Refused, GivesUp, At
    <2> QED BY <2>1, GivesUpInv
  <1>12. CASE Stop(k)
    BY <1>12, StopInv
  <1> QED BY <1>1, <1>2, <1>3, <1>4, <1>5, <1>6, <1>7, <1>8, <1>9, <1>10, <1>11, <1>12 DEF Command

LEMMA NextInv == ASSUME UIAnswerAssumption, UIAnswerInv, [Next]_vars PROVE UIAnswerInv'
  <1>1. CASE \E k \in Procs : Command(k)
    BY <1>1, CommandInv
  <1>2. CASE \E m \in wire : Serve(m)
    BY <1>2, ServeInv
  <1>3. CASE Progress
    BY <1>3, ProgressInv
  <1>4. CASE UNCHANGED vars
    BY <1>4, StutterInv
  <1> QED BY <1>1, <1>2, <1>3, <1>4 DEF Next

LEMMA UIAnswerAlways == ASSUME UIAnswerAssumption PROVE Spec => []UIAnswerInv
  BY InitInv, NextInv, PTL DEF Spec

\* Every receipt on disk and in hand passes validate, and the lock is held exactly
\* between the two writes of a reservation or a release.
THEOREM UIAnswerTyping == ASSUME UIAnswerAssumption PROVE Spec => []UIAnswerTypeOK
  <1>1. UIAnswerInv => UIAnswerTypeOK
    BY DEF UIAnswerInv, TypesOK, FitsOK, Banned, UIAnswerTypeOK, Fits, WorkflowOK,
       UIAnswerAssumption
  <1> QED BY <1>1, UIAnswerAlways, PTL

\* A receipt that admits a step names the step the service is at, with no step of an
\* earlier command still on its way (require_step_admission, reserve_marker).
THEOREM StepsAreFresh == ASSUME UIAnswerAssumption PROVE Spec => []AdmitsFreshStep
  <1>1. UIAnswerInv => AdmitsFreshStep
    BY DEF UIAnswerInv, Settled, AdmitsFreshStep, MayStep
  <1> QED BY <1>1, UIAnswerAlways, PTL

\* A cancel is sent once, however many commands, deaths and lost answers there are.
THEOREM CancelledOnce == ASSUME UIAnswerAssumption PROVE Spec => []CancelOnce
  <1>1. UIAnswerInv => CancelOnce
    BY DEF UIAnswerInv, Cancelling
  <1> QED BY <1>1, UIAnswerAlways, PTL

\* Both together: what the Components run checks of this receipt.
THEOREM AnswersAreSafe == ASSUME UIAnswerAssumption PROVE Spec => []AnswerSafe
  BY StepsAreFresh, CancelledOnce, PTL DEF AnswerSafe

\* No step replaces the result on record by an older one (transition, replace_receipt).
THEOREM ResultIsKept == ASSUME UIAnswerAssumption PROVE Spec => [][KeepsResult]_vars
  <1>1. ASSUME UIAnswerInv, [Next]_vars PROVE [KeepsResult]_vars
    <2>1. SUFFICES ASSUME Next, receipt # None, receipt.result # None
                   PROVE  receipt'.result.rev >= receipt.result.rev
      BY <1>1 DEF KeepsResult
    <2>2. receipt \in Receipts /\ receipt.result \in Workflows /\ receipt.result.rev \in Nat
      BY <1>1, <2>1 DEF UIAnswerInv, TypesOK, Receipts, Workflows
    <2>3. CASE UNCHANGED receipt
      BY <2>2, <2>3
    <2>4. ASSUME NEW k \in Procs, Reserve(k) PROVE receipt'.result = receipt.result
      <3>1. \E phase, attempt : receipt' = Later(receipt, phase, attempt, None)
        BY <2>4 DEF Reserve, Publish, MayReserve, Current
      <3> QED BY <2>2, <3>1 DEF Later, Receipts
    <2>5. ASSUME NEW k \in Procs, Record(k) PROVE receipt'.result.rev >= receipt.result.rev
      <3>1. /\ At(k, "wait") /\ answer[k] # None /\ answer[k] # Mismatched /\ receipt = proc[k].seen
            /\ \E phase, kept : receipt' = Later(receipt, phase, kept, answer[k])
        BY <2>5 DEF Record, Accepted, Answered, MayRecord, Current, Publish
      <3>2. receipt'.result = answer[k]
        BY <2>2, <3>1 DEF Later, Receipts
      <3>3. answer[k] \in Workflows
        BY <1>1, <3>1 DEF UIAnswerInv, TypesOK
      <3> QED BY <1>1, <2>1, <2>2, <3>1, <3>2, <3>3, WorkflowFields DEF UIAnswerInv, Ordered
    <2>6. ASSUME NEW k \in Procs, Doubt(k) PROVE receipt'.result = receipt.result
      BY ZenonT(40), <2>2, <2>6 DEF Doubt, Publish, Current, Later, Receipts
    <2> QED BY <2>1, <2>2, <2>3, <2>4, <2>5, <2>6
            DEF Next, Command, Prepare, Begin, ReserveMarker, Post, ReleaseMarker, Fails, TimesOut,
                Refused, Stop, Serve, Progress
  <1> QED BY <1>1, UIAnswerAlways, PTL DEF Spec

\* What the service sees keeps the contract of every client: a step is sent only while
\* no step sent before is unaccounted for.
THEOREM StepsAreNeverReplayed == ASSUME UIAnswerAssumption PROVE Spec => NoReplay
  <1>1. Init => Contract!Init
    <2>1. Cardinality({}) = 0
      BY FS_EmptySet
    <2> QED BY <2>1 DEF Init, Contract!Init
  <1>2. ASSUME UIAnswerAssumption, UIAnswerInv, [Next]_vars PROVE [Contract!Next]_(Contract!vars)
    <2>1. Cardinality({}) = 0 /\ \A k : Cardinality({k}) = 1
      BY FS_EmptySet, FS_Singleton
    <2>2. ASSUME NEW k \in Procs, Post(k), proc[k].cmd = "step" PROVE Contract!Send("i")
      <3>1. open = {} /\ open' = {k} /\ sent' = sent + 1
        BY <1>2, <2>2 DEF Post, UIAnswerInv, Banned, Stepping, At
      <3> QED BY <2>1, <3>1 DEF Contract!Send
    <2>3. ASSUME NEW k \in Procs, ReleaseMarker(k) PROVE Contract!Account("i")
      <3>1. Stepping(k) /\ ~At(k, "post")
        BY <1>2, <2>3 DEF ReleaseMarker, UIAnswerInv, Seen, SeenBy, Stepping, At
      <3>2. open = {k} /\ open' = {} /\ UNCHANGED sent
        BY <1>2, <2>3, <3>1 DEF ReleaseMarker, UIAnswerInv, Banned
      <3> QED BY <2>1, <3>2 DEF Contract!Account
    <2>4. CASE UNCHANGED <<open, sent>>
      BY <2>4 DEF Contract!vars
    <2> QED BY <1>2, <2>2, <2>3, <2>4
            DEF Contract!Next, Next, Command, Prepare, Begin, Reserve, ReserveMarker, Post, Record,
                Fails, TimesOut, Doubt, Refused, Stop, Serve, Progress, history, vars
  <1> QED BY <1>1, <1>2, UIAnswerAlways, PTL DEF Spec, NoReplay, Contract!Spec

-----------------------------------------------------------------------------
(***************************************************************************)
(* HerdrLifecycle, for any number of intents, processes and deaths: a      *)
(* receipt never records a guess and never takes a result back, a creation *)
(* that was dispatched can be asked about until its result is on disk, and *)
(* no POST with an effect is sent while an earlier one is unaccounted for. *)
(* It has the variables of HerdrUIAnswer of the same names.                *)
(*                                                                         *)
(* The argument: whoever is between two writes of the store has the lock   *)
(* and has seen the receipt on disk (Held); of the processes that reserved *)
(* an intent one at most holds its get-only marker, and a POST whose       *)
(* outcome is not on record has that marker behind it (LifecycleBanned,    *)
(* OneBan, OpenBanned); an answer that says how an operation ended is what *)
(* the service has for ever (Mailed).                                      *)
(***************************************************************************)
CONSTANTS Creates, Dependents, SourceOf, LifecycleRuns
VARIABLES getOnly, recovery, server
Lifecycle == INSTANCE HerdrLifecycle WITH Runs <- LifecycleRuns

\* The instance has the library's Cardinality under a name of its own.
LEMMA SameCardinality == \A S : Lifecycle!Cardinality(S) = Cardinality(S)
BY DEF Lifecycle!Cardinality, Cardinality

LifecyclePlaces == {"start", "create", "begin", "ask", "prepared", "bind", "unknown", "allowed", "reserve",
           "fence", "commit", "post", "wait", "observe", "unban", "unfence", "done", "gone"}
LifecycleCommands == {"none", "action", "status", "cancel"}
Locals == [at : LifecyclePlaces, cmd : LifecycleCommands, of : Lifecycle!Intents \cup {None}, seen : Lifecycle!Receipts \cup {None},
           token : BOOLEAN, fence : BOOLEAN]
Markers == [there : BOOLEAN, rev : Nat]
LifecycleMessages == [from : Procs, what : {"prepare", "action", "status", "cancel"}]
OperationStates == {"none"} \cup Lifecycle!Results

LifecycleTypes ==
  /\ receipt \in [Lifecycle!Intents -> Lifecycle!Receipts \cup {None}]
  /\ getOnly \in [Lifecycle!Intents -> Markers] /\ recovery \in [Lifecycle!Intents -> Markers]
  /\ lock \in [Lifecycle!Intents -> Procs \cup {Nobody}]
  /\ proc \in [Procs -> Locals]
  /\ wire \subseteq LifecycleMessages /\ answer \in [Procs -> OperationStates]
  /\ server \in [Lifecycle!Intents -> OperationStates]
  /\ open \in [Lifecycle!Intents -> SUBSET Procs] /\ sent \in [Lifecycle!Intents -> Nat]
  /\ stops \in 0..MaxStops

\* Where a process has an operation in its receipt, and where it is between two writes.
Operating == {"allowed", "reserve", "fence", "commit", "post", "wait", "observe", "unban", "unfence"}
Preparing == {"ask", "prepared", "bind", "unknown"}
Reserving == {"fence", "commit"}
Recording == {"unban", "unfence"}
Locked == Reserving \cup Recording

\* What the place of a process says of its command and of the receipt it has seen.
StageOK(k) ==
  LET p == proc[k] IN
  /\ p.at = "start" <=> p.cmd = "none"
  /\ p.at # "start" => p.of \in Lifecycle!Intents
  /\ p.at \in {"create", "begin"} \cup Preparing => p.cmd = "action"
  /\ p.at \in {"begin"} \cup Preparing \cup Operating => p.seen \in Lifecycle!Receipts
  /\ p.at = "begin" => p.seen.phase = "created"
  /\ p.at \in Preparing => p.seen.phase = "prepare_started"
  /\ p.at \in Operating => p.seen.op
  /\ p.at \in Reserving /\ p.cmd = "action" => p.seen.phase = "prepared"
  /\ p.at \in Recording /\ Lifecycle!Completes(k) => p.seen.phase = "terminal_observed"

\* Whoever is between two writes has the lock and saw the receipt that is there; before the
\* receipt of a dispatched creation comes its fence.
HeldBy(k) ==
  LET i == proc[k].of IN
  proc[k].at \in Locked =>
    /\ lock[i] = k /\ receipt[i] = proc[k].seen
    /\ Lifecycle!At(k, "commit") /\ Lifecycle!Fences(k) => recovery[i] = Lifecycle!Written(proc[k].seen.rev + 1)
Held ==
  /\ \A k \in Procs : HeldBy(k)
  /\ \A i \in Lifecycle!Intents : lock[i] # Nobody => proc[lock[i]].of = i /\ proc[lock[i]].at \in Locked

\* A process has one request under way at most, and none when it goes on; its answer says
\* what the service has, if that is final.
MailedTo(k) ==
  /\ proc[k].at \notin {"prepared", "unknown", "wait", "gone"} \/ answer[k] # "none" =>
       \A m \in wire : m.from # k
  /\ \A m, n \in wire : m.from = k /\ n.from = k => m = n
  /\ Lifecycle!At(k, "start") => answer[k] = "none"
  /\ answer[k] \in Lifecycle!Terminal => server[proc[k].of] = answer[k]
Mailed == \A k \in Procs : MailedTo(k)

\* A receipt passes validate, tells how the operation ended when it ended, and has the
\* proof of a creation exactly when that completed.
TrueOf(i) ==
  receipt[i] # None =>
    /\ Lifecycle!ReceiptOK(i, receipt[i])
    /\ receipt[i].phase = "terminal_observed" => server[i] \in Lifecycle!Terminal
    /\ i \in Creates => /\ receipt[i].proof => server[i] = "completed"
                        /\ receipt[i].phase = "terminal_observed" /\ ~receipt[i].proof
                             => server[i] # "completed"
FencedFor(c) ==
  c \in Creates /\ receipt[c] # None /\ receipt[c].phase = "dispatch_started"
    => Lifecycle!Readable(recovery[c], receipt[c])
OnDisk == \A i \in Lifecycle!Intents : TrueOf(i) /\ FencedFor(i)

\* Who made the get-only marker and has not removed it yet.
Bans(k) == proc[k].token /\ proc[k].at \in {"fence", "commit", "post", "wait", "observe", "unban"}
BannedBy(k) ==
  LET i == proc[k].of IN
  /\ Bans(k) => getOnly[i].there /\ open[i] \subseteq {k}
  /\ Bans(k) /\ proc[k].at \in {"fence", "commit", "post"} => open[i] = {}
  /\ proc[k].at \in {"fence", "commit", "post", "wait", "observe", "unban"} /\ proc[k].cmd # "status"
       => proc[k].token
LifecycleBanned == \A k \in Procs : BannedBy(k)
OneBan == \A j, k \in Procs : Bans(j) /\ Bans(k) /\ proc[j].of = proc[k].of => j = k
OpenBanned ==
  \A i \in Lifecycle!Intents :
    /\ \A k \in open[i] : getOnly[i].there /\ proc[k].of = i /\ proc[k].cmd \in {"action", "cancel"}
    /\ \A j, k \in open[i] : j = k

LifecycleInv ==
  /\ LifecycleTypes /\ \A k \in Procs : StageOK(k)
  /\ Held /\ Mailed /\ OnDisk /\ LifecycleBanned /\ OneBan /\ OpenBanned
-----------------------------------------------------------------------------
(* Receipts and locals *)

LEMMA BumpedFields ==
  ASSUME NEW r \in Lifecycle!Receipts, NEW phase \in Lifecycle!Phases
  PROVE  LET x == Lifecycle!Bumped(r, phase) IN
         /\ x \in Lifecycle!Receipts /\ x.rev = r.rev + 1 /\ x.phase = phase
         /\ x.op = r.op /\ x.proof = r.proof
<1>1. r.rev + 1 \in Nat
  BY DEF Lifecycle!Receipts
<1> QED BY <1>1 DEF Lifecycle!Bumped, Lifecycle!Receipts

LEMMA OpSet ==
  ASSUME NEW r \in Lifecycle!Receipts, NEW b \in BOOLEAN
  PROVE  LET x == [r EXCEPT !.op = b] IN
         /\ x \in Lifecycle!Receipts /\ x.rev = r.rev /\ x.phase = r.phase /\ x.op = b
         /\ x.proof = r.proof
BY DEF Lifecycle!Receipts

LEMMA ProofSet ==
  ASSUME NEW r \in Lifecycle!Receipts, NEW b \in BOOLEAN
  PROVE  LET x == [r EXCEPT !.proof = b] IN
         /\ x \in Lifecycle!Receipts /\ x.rev = r.rev /\ x.phase = r.phase /\ x.op = r.op /\ x.proof = b
BY DEF Lifecycle!Receipts

\* The locals of a process that goes on, and of one that has a new receipt.
Stays(k) ==
  /\ proc'[k].cmd = proc[k].cmd /\ proc'[k].of = proc[k].of
  /\ proc'[k].token = proc[k].token /\ proc'[k].fence = proc[k].fence
OnlyProc(k) == \A j \in Procs : j # k => proc'[j] = proc[j]

LEMMA GoesTo ==
  ASSUME LifecycleTypes, NEW k \in Procs, NEW step \in LifecyclePlaces, Lifecycle!Goes(k, step)
  PROVE  /\ proc' \in [Procs -> Locals] /\ OnlyProc(k) /\ Stays(k)
         /\ proc'[k].at = step /\ proc'[k].seen = proc[k].seen
<1>1. proc \in [Procs -> Locals] /\ proc[k] \in Locals
  BY DEF LifecycleTypes
<1>2. proc' = [proc EXCEPT ![k] = [proc[k] EXCEPT !.at = step]]
  BY <1>1 DEF Lifecycle!Goes
<1>3. [proc[k] EXCEPT !.at = step] \in Locals
  BY <1>1 DEF Locals
<1> QED BY <1>1, <1>2, <1>3 DEF OnlyProc, Stays, Locals

LEMMA GoesToWith ==
  ASSUME LifecycleTypes, NEW k \in Procs, NEW step \in LifecyclePlaces,
         NEW r \in Lifecycle!Receipts, Lifecycle!GoesWith(k, step, r)
  PROVE  /\ proc' \in [Procs -> Locals] /\ OnlyProc(k) /\ Stays(k)
         /\ proc'[k].at = step /\ proc'[k].seen = r
<1>1. proc \in [Procs -> Locals] /\ proc[k] \in Locals
  BY DEF LifecycleTypes
<1>2. proc' = [proc EXCEPT ![k] = [proc[k] EXCEPT !.at = step, !.seen = r]]
  BY <1>1 DEF Lifecycle!GoesWith
<1>3. [proc[k] EXCEPT !.at = step, !.seen = r] \in Locals
  BY <1>1 DEF Locals
<1> QED BY <1>1, <1>2, <1>3 DEF OnlyProc, Stays, Locals

\* What LifecycleTypes says of one process.
LEMMA ProcFields ==
  ASSUME LifecycleTypes, NEW k \in Procs
  PROVE  /\ proc[k].at \in LifecyclePlaces /\ proc[k].cmd \in LifecycleCommands
         /\ proc[k].of \in Lifecycle!Intents \cup {None}
         /\ proc[k].seen \in Lifecycle!Receipts \cup {None}
         /\ proc[k].token \in BOOLEAN /\ proc[k].fence \in BOOLEAN
         /\ proc[k] \in Locals /\ proc \in [Procs -> Locals]
BY DEF LifecycleTypes, Locals

LEMMA InitLifecycle == ASSUME Lifecycle!LifecycleAssumption, Lifecycle!Init PROVE LifecycleInv
<1> USE DEF Lifecycle!Init, Lifecycle!LifecycleAssumption
<1>1. \A k \in Procs : proc[k] = Lifecycle!Idle /\ answer[k] = "none"
  OBVIOUS
<1>2. LifecycleTypes
  <2>1. Lifecycle!Idle \in Locals
    BY DEF Lifecycle!Idle, Locals, LifecyclePlaces, LifecycleCommands
  <2>2. Lifecycle!Absent \in Markers
    BY DEF Lifecycle!Absent, Markers
  <2> QED BY <2>1, <2>2 DEF LifecycleTypes, OperationStates
<1>3. \A k \in Procs : StageOK(k)
  BY <1>1 DEF StageOK, Lifecycle!Idle, Operating, Preparing, Reserving, Recording
<1>4. Held /\ Mailed
  BY <1>1 DEF Held, HeldBy, Mailed, MailedTo, Lifecycle!Idle, Locked, Reserving, Recording,
     Lifecycle!At, Lifecycle!Terminal
<1>5. OnDisk
  BY DEF OnDisk, TrueOf, FencedFor
<1>6. LifecycleBanned /\ OneBan /\ OpenBanned
  BY <1>1 DEF LifecycleBanned, BannedBy, OneBan, OpenBanned, Bans, Lifecycle!Idle
<1> QED BY <1>2, <1>3, <1>4, <1>5, <1>6 DEF LifecycleInv
-----------------------------------------------------------------------------
(* What a step of a process leaves to the others  *)

\* Only the locals, the answer and the requests of k; nothing of an intent that another has
\* locked; and a marker or an effect of the own intent only with the own ban.
Frame(k) ==
  /\ OnlyProc(k) /\ server' = server
  /\ \A j \in Procs : j # k => answer'[j] = answer[j]
  /\ \A m \in wire' : m \in wire \/ m.from = k
  /\ \A i \in Lifecycle!Intents : lock[i] \notin {Nobody, k} =>
       receipt'[i] = receipt[i] /\ recovery'[i] = recovery[i] /\ lock'[i] = lock[i]
  /\ \A i \in Lifecycle!Intents : getOnly[i].there => getOnly'[i].there \/ (i = proc[k].of /\ Bans(k))
  /\ \A i \in Lifecycle!Intents : open'[i] \subseteq open[i] \/ (i = proc[k].of /\ Bans(k))

\* What it has to show of itself.
OwnLock(k) ==
  \A i \in Lifecycle!Intents :
    /\ lock'[i] = k => proc'[k].of = i /\ proc'[k].at \in Locked
    /\ lock'[i] \in {lock[i], k, Nobody}
OwnMarker(k) ==
  Bans(k)' => /\ proc'[k].of = proc[k].of
              /\ Bans(k) \/ ~getOnly[proc[k].of].there
OwnOpen(k) ==
  /\ proc[k].cmd # "none" => proc'[k].of = proc[k].of /\ proc'[k].cmd = proc[k].cmd
  /\ \A i \in Lifecycle!Intents :
       \/ open'[i] = {}
       \/ open'[i] \subseteq open[i] /\ (getOnly[i].there => getOnly'[i].there)
       \/ /\ open'[i] = {k} /\ getOnly'[i].there /\ i = proc[k].of /\ proc[k].cmd \in {"action", "cancel"}
Kept(k) ==
  /\ Frame(k) /\ LifecycleTypes' /\ StageOK(k)' /\ HeldBy(k)' /\ MailedTo(k)' /\ BannedBy(k)'
  /\ OwnLock(k) /\ OwnMarker(k) /\ OwnOpen(k) /\ OnDisk'

LEMMA OthersKept ==
  ASSUME Lifecycle!LifecycleAssumption, LifecycleInv, NEW k \in Procs, Frame(k), NEW j \in Procs, j # k
  PROVE  StageOK(j)' /\ HeldBy(j)' /\ MailedTo(j)' /\ BannedBy(j)'
<1>1. proc'[j] = proc[j] /\ answer'[j] = answer[j] /\ server' = server
  BY DEF Frame, OnlyProc
<1>2. /\ StageOK(j) /\ HeldBy(j) /\ MailedTo(j) /\ BannedBy(j)
      /\ Bans(j) /\ Bans(k) => proc[j].of # proc[k].of
      /\ proc[j].at # "start" => proc[j].of \in Lifecycle!Intents
  BY DEF LifecycleInv, Held, Mailed, LifecycleBanned, OneBan, StageOK
<1>3. StageOK(j)'
  BY <1>1, <1>2 DEF StageOK, Lifecycle!Completes
<1>4. HeldBy(j)'
  <2> SUFFICES ASSUME proc[j].at \in Locked
               PROVE  LET i == proc[j].of IN
                      /\ lock'[i] = j /\ receipt'[i] = proc[j].seen
                      /\ Lifecycle!At(j, "commit") /\ Lifecycle!Fences(j) => recovery'[i] = Lifecycle!Written(proc[j].seen.rev + 1)
    BY <1>1 DEF HeldBy, Lifecycle!At, Lifecycle!Fences
  <2>1. proc[j].of \in Lifecycle!Intents /\ lock[proc[j].of] = j
    BY <1>2 DEF HeldBy, Locked, Reserving, Recording
  <2>2. lock[proc[j].of] \notin {Nobody, k}
    BY <2>1 DEF Lifecycle!LifecycleAssumption
  <2> QED BY <1>2, <2>1, <2>2 DEF HeldBy, Frame
<1>5. MailedTo(j)'
  BY <1>1, <1>2 DEF MailedTo, Frame, Lifecycle!At
<1>6. BannedBy(j)'
  <2>1. proc[j].at \in {"fence", "commit", "post", "wait", "observe", "unban"} => proc[j].of \in Lifecycle!Intents
    BY <1>2
  <2>2. Bans(j) => /\ getOnly[proc[j].of].there => getOnly'[proc[j].of].there
                   /\ open'[proc[j].of] \subseteq open[proc[j].of]
    BY <1>2, <2>1 DEF Frame, Bans
  <2>3. Bans(j)' = Bans(j)
    BY <1>1 DEF Bans
  <2> QED BY <1>1, <1>2, <2>2, <2>3 DEF BannedBy
<1> QED BY <1>3, <1>4, <1>5, <1>6

LEMMA FromKept ==
  ASSUME Lifecycle!LifecycleAssumption, LifecycleInv, NEW k \in Procs, Kept(k)
  PROVE  LifecycleInv'
<1> USE DEF Kept
<1>1. \A j \in Procs : StageOK(j)' /\ HeldBy(j)' /\ MailedTo(j)' /\ BannedBy(j)'
  BY OthersKept
<1>2. \A j \in Procs : j # k => proc'[j] = proc[j]
  BY DEF Frame, OnlyProc
<1>3. ASSUME NEW i \in Lifecycle!Intents, lock'[i] # Nobody
      PROVE  proc'[lock'[i]].of = i /\ proc'[lock'[i]].at \in Locked
  <2>1. CASE lock'[i] = k
    BY <2>1 DEF OwnLock
  <2>2. CASE lock'[i] # k
    <3>1. lock'[i] = lock[i]
      BY <1>3, <2>2 DEF OwnLock
    <3>2. lock[i] \in Procs
      BY <1>3, <3>1 DEF LifecycleInv, LifecycleTypes
    <3> QED BY <1>2, <1>3, <2>2, <3>1, <3>2 DEF LifecycleInv, Held
  <2> QED BY <2>1, <2>2
<1>4. OneBan'
  <2> SUFFICES ASSUME NEW x \in Procs, NEW y \in Procs, Bans(x)', Bans(y)',
                      proc'[x].of = proc'[y].of, x # y
               PROVE  FALSE
    BY DEF OneBan
  <2>1. \A j \in Procs : j # k => (Bans(j)' <=> Bans(j))
    BY <1>2 DEF Bans
  <2>2. ASSUME NEW j \in Procs, j # k, Bans(j)', Bans(k)', proc'[j].of = proc'[k].of
        PROVE  FALSE
    <3>1. Bans(j) /\ proc[j].of = proc[k].of
      BY <1>2, <2>1, <2>2 DEF OwnMarker
    <3>2. getOnly[proc[j].of].there
      BY <3>1 DEF LifecycleInv, LifecycleBanned, BannedBy
    <3>3. Bans(k)
      BY <2>2, <3>1, <3>2 DEF OwnMarker
    <3> QED BY <2>2, <3>1, <3>3 DEF LifecycleInv, OneBan
  <2>3. x # k /\ y # k
    BY <2>2
  <2> QED BY <1>2, <2>1, <2>3 DEF LifecycleInv, OneBan
<1>5. OpenBanned'
  <2> SUFFICES ASSUME NEW i \in Lifecycle!Intents
               PROVE  /\ \A x \in open'[i] : getOnly'[i].there /\ proc'[x].of = i
                                             /\ proc'[x].cmd \in {"action", "cancel"}
                      /\ \A x, y \in open'[i] : x = y
    BY DEF OpenBanned
  <2>1. CASE open'[i] = {}
    BY <2>1
  <2>2. CASE open'[i] \subseteq open[i] /\ (getOnly[i].there => getOnly'[i].there)
    <3>1. \A x \in open[i] : x \in Procs
      BY DEF LifecycleInv, LifecycleTypes
    <3>2. \A x \in open[i] : proc'[x].of = proc[x].of /\ proc'[x].cmd = proc[x].cmd
      BY <1>2, <3>1 DEF OwnOpen, LifecycleInv, OpenBanned
    <3> QED BY <2>2, <3>2 DEF LifecycleInv, OpenBanned
  <2>3. CASE open'[i] = {k} /\ getOnly'[i].there /\ i = proc[k].of /\ proc[k].cmd \in {"action", "cancel"}
    BY <2>3 DEF OwnOpen
  <2> QED BY <2>1, <2>2, <2>3 DEF OwnOpen
<1> QED BY <1>1, <1>3, <1>4, <1>5 DEF LifecycleInv, Held, Mailed, LifecycleBanned
-----------------------------------------------------------------------------
(* The steps of a process  *)

\* A step that changes nothing but the locals of a process that has no lock.
LEMMA QuietKept ==
  ASSUME Lifecycle!LifecycleAssumption, LifecycleInv, NEW k \in Procs,
         UNCHANGED <<Lifecycle!files, lock, Lifecycle!net, Lifecycle!history, stops>>,
         proc' \in [Procs -> Locals], OnlyProc(k),
         proc[k].at \notin Locked, proc'[k].at \notin Locked,
         proc[k].cmd # "none" => proc'[k].of = proc[k].of /\ proc'[k].cmd = proc[k].cmd,
         Bans(k)' => Bans(k) /\ proc'[k].of = proc[k].of,
         StageOK(k)', MailedTo(k)', BannedBy(k)'
  PROVE  Kept(k)
<1> USE DEF Lifecycle!files, Lifecycle!net, Lifecycle!history
<1>1. Frame(k)
  BY DEF Frame
<1>2. LifecycleTypes'
  BY DEF LifecycleInv, LifecycleTypes
<1>3. HeldBy(k)'
  BY DEF HeldBy
<1>4. OwnLock(k)
  <2>1. \A i \in Lifecycle!Intents : lock[i] # k
    BY DEF LifecycleInv, Held, Lifecycle!LifecycleAssumption
  <2> QED BY <2>1 DEF OwnLock
<1>5. OwnMarker(k) /\ OwnOpen(k)
  BY DEF OwnMarker, OwnOpen
<1>6. OnDisk'
  BY DEF LifecycleInv, OnDisk, TrueOf, FencedFor
<1> QED BY <1>1, <1>2, <1>3, <1>4, <1>5, <1>6 DEF Kept

\* The one that only moves on: it has its operation still, and waits for nothing new.
LEMMA MovesKept ==
  ASSUME Lifecycle!LifecycleAssumption, LifecycleInv, NEW k \in Procs, NEW step \in LifecyclePlaces,
         Lifecycle!Goes(k, step),
         UNCHANGED <<Lifecycle!files, lock, Lifecycle!net, Lifecycle!history, stops>>,
         \/ Lifecycle!At(k, "unknown") /\ step = "gone"
         \/ Lifecycle!At(k, "allowed") /\ step = "reserve"
         \/ Lifecycle!At(k, "prepared") /\ step \in {"bind", "unknown"} /\ (step = "bind" => answer[k] # "none")
         \/ Lifecycle!At(k, "wait") /\ step \in {"observe", "gone"} /\ (step = "observe" => answer[k] # "none")
  PROVE  Kept(k)
<1> USE DEF Lifecycle!At
<1>1. /\ proc' \in [Procs -> Locals] /\ OnlyProc(k) /\ Stays(k)
      /\ proc'[k].at = step /\ proc'[k].seen = proc[k].seen
  BY GoesTo DEF LifecycleInv
<1>2. StageOK(k) /\ MailedTo(k) /\ BannedBy(k)
  BY DEF LifecycleInv, Mailed, LifecycleBanned
<1>3. proc[k].at \notin Locked /\ proc'[k].at \notin Locked
  BY <1>1 DEF Locked, Reserving, Recording
<1>4. StageOK(k)'
  BY <1>1, <1>2 DEF StageOK, Stays, Operating, Preparing, Reserving, Recording
<1>5. MailedTo(k)'
  BY <1>1, <1>2 DEF MailedTo, Stays, Lifecycle!net
<1>6. Bans(k)' => Bans(k) /\ proc'[k].of = proc[k].of
  BY <1>1 DEF Bans, Stays
<1>7. BannedBy(k)'
  BY <1>1, <1>2, <1>6 DEF BannedBy, Bans, Stays, Lifecycle!files, Lifecycle!history
<1> QED BY <1>1, <1>3, <1>4, <1>5, <1>6, <1>7, QuietKept DEF Stays

LEMMA CancelAllowedKept ==
  ASSUME Lifecycle!LifecycleAssumption, LifecycleInv, NEW k \in Procs, Lifecycle!CancelAllowed(k)
  PROVE  Kept(k)
BY MovesKept DEF Lifecycle!CancelAllowed, LifecyclePlaces

LEMMA ReceiveKept ==
  ASSUME Lifecycle!LifecycleAssumption, LifecycleInv, NEW k \in Procs, Lifecycle!Receive(k)
  PROVE  Kept(k)
BY MovesKept DEF Lifecycle!Receive, LifecyclePlaces

LEMMA LostKept ==
  ASSUME Lifecycle!LifecycleAssumption, LifecycleInv, NEW k \in Procs, Lifecycle!Lost(k)
  PROVE  Kept(k)
BY MovesKept DEF Lifecycle!Lost, LifecyclePlaces

LEMMA StartActionKept ==
  ASSUME Lifecycle!LifecycleAssumption, LifecycleInv, NEW k \in Procs, NEW i \in Lifecycle!Intents,
         Lifecycle!StartAction(k, i)
  PROVE  Kept(k)
<1>1. proc \in [Procs -> Locals] /\ StageOK(k) /\ MailedTo(k)
  BY DEF LifecycleInv, LifecycleTypes, Mailed
<1> DEFINE new == [Lifecycle!Idle EXCEPT !.at = "create", !.cmd = "action", !.of = i]
<1>2. new \in Locals /\ new.at = "create" /\ new.cmd = "action" /\ new.of = i /\ ~new.token
  BY DEF Lifecycle!Idle, Locals, LifecyclePlaces, LifecycleCommands
<1>3. proc' = [proc EXCEPT ![k] = new] /\ Lifecycle!At(k, "start")
      /\ UNCHANGED <<Lifecycle!files, lock, Lifecycle!net, Lifecycle!history, stops>>
  BY DEF Lifecycle!StartAction
<1> HIDE DEF new
<1>4. proc' \in [Procs -> Locals] /\ OnlyProc(k) /\ proc'[k] = new
  BY <1>1, <1>2, <1>3 DEF OnlyProc
<1>5. proc[k].cmd = "none" /\ proc[k].at \notin Locked /\ proc'[k].at \notin Locked
  BY <1>1, <1>2, <1>3, <1>4 DEF StageOK, Lifecycle!At, Locked, Reserving, Recording
<1>6. StageOK(k)'
  BY <1>2, <1>4 DEF StageOK, Operating, Preparing, Reserving, Recording
<1>7. MailedTo(k)'
  BY <1>1, <1>2, <1>3, <1>4 DEF MailedTo, Lifecycle!At, Lifecycle!net, Lifecycle!Terminal
<1>8. BannedBy(k)' /\ ~Bans(k)'
  BY <1>2, <1>4 DEF BannedBy, Bans
<1> QED BY <1>3, <1>4, <1>5, <1>6, <1>7, <1>8, QuietKept

LEMMA StartRecoveryKept ==
  ASSUME Lifecycle!LifecycleAssumption, LifecycleInv, NEW k \in Procs, NEW i \in Lifecycle!Intents,
         NEW cmd \in {"status", "cancel"}, Lifecycle!StartRecovery(k, i, cmd)
  PROVE  Kept(k)
<1>1. proc \in [Procs -> Locals] /\ StageOK(k) /\ MailedTo(k) /\ receipt[i] \in Lifecycle!Receipts /\ receipt[i].op
  BY DEF LifecycleInv, LifecycleTypes, Mailed, Lifecycle!StartRecovery
<1> DEFINE new == [Lifecycle!Idle EXCEPT !.cmd = cmd, !.of = i, !.seen = receipt[i],
                               !.at = IF cmd = "cancel" THEN "allowed" ELSE "reserve"]
<1>2. /\ new \in Locals /\ new.at \in {"allowed", "reserve"} /\ new.cmd = cmd /\ new.of = i
      /\ ~new.token
      /\ new.seen = receipt[i]
  BY <1>1 DEF Lifecycle!Idle, Locals, LifecyclePlaces, LifecycleCommands
<1>3. proc' = [proc EXCEPT ![k] = new] /\ Lifecycle!At(k, "start")
      /\ UNCHANGED <<Lifecycle!files, lock, Lifecycle!net, Lifecycle!history, stops>>
  BY DEF Lifecycle!StartRecovery
<1> HIDE DEF new
<1>4. proc' \in [Procs -> Locals] /\ OnlyProc(k) /\ proc'[k] = new
  BY <1>1, <1>2, <1>3 DEF OnlyProc
<1>5. proc[k].cmd = "none" /\ proc[k].at \notin Locked /\ proc'[k].at \notin Locked
  BY <1>1, <1>2, <1>3, <1>4 DEF StageOK, Lifecycle!At, Locked, Reserving, Recording
<1>6. StageOK(k)'
  BY <1>1, <1>2, <1>4 DEF StageOK, Operating, Preparing, Reserving, Recording
<1>7. MailedTo(k)'
  BY <1>1, <1>2, <1>3, <1>4 DEF MailedTo, Lifecycle!At, Lifecycle!net, Lifecycle!Terminal
<1>8. BannedBy(k)' /\ ~Bans(k)'
  BY <1>2, <1>4 DEF BannedBy, Bans
<1> QED BY <1>3, <1>4, <1>5, <1>6, <1>7, <1>8, QuietKept

\* A step that replaces the receipt of an intent that nobody has locked.
LEMMA ReplacedKept ==
  ASSUME Lifecycle!LifecycleAssumption, LifecycleInv, NEW k \in Procs, NEW step \in LifecyclePlaces,
         NEW r \in Lifecycle!Receipts,
         Lifecycle!Unlocked(proc[k].of), Lifecycle!Replace(proc[k].of, r),
         Lifecycle!GoesWith(k, step, r),
         UNCHANGED <<getOnly, recovery, lock, Lifecycle!net, Lifecycle!history, stops>>,
         proc[k].at \in {"create", "begin", "bind", "unknown"},
         step \in {"begin", "ask", "reserve", "gone"},
         Lifecycle!At(k, "unknown") => step = "gone",
         step = "begin" => r.phase = "created", step = "ask" => r.phase = "prepare_started",
         step = "reserve" => r.op,
         Lifecycle!ReceiptOK(proc[k].of, r), r.phase \notin {"terminal_observed", "dispatch_started"}
  PROVE  Kept(k)
<1> USE DEF Lifecycle!net, Lifecycle!history, Lifecycle!Replace, Lifecycle!Unlocked, Lifecycle!At
<1> DEFINE i == proc[k].of
<1>1. StageOK(k) /\ MailedTo(k) /\ LifecycleTypes
  BY DEF LifecycleInv, Mailed
<1>2. i \in Lifecycle!Intents /\ proc[k].cmd = "action"
  BY <1>1 DEF StageOK, Preparing
<1>3. /\ proc' \in [Procs -> Locals] /\ OnlyProc(k) /\ Stays(k)
      /\ proc'[k].at = step /\ proc'[k].seen = r
  BY <1>1, GoesToWith
<1>4. /\ receipt' \in [Lifecycle!Intents -> Lifecycle!Receipts \cup {None}] /\ receipt'[i] = r
      /\ \A j \in Lifecycle!Intents : j # i => receipt'[j] = receipt[j]
  BY <1>1, <1>2 DEF LifecycleTypes
<1>5. Frame(k)
  BY <1>2, <1>3, <1>4 DEF Frame
<1>6. LifecycleTypes'
  BY <1>1, <1>3, <1>4 DEF LifecycleTypes
<1>7. StageOK(k)'
  BY <1>1, <1>2, <1>3 DEF StageOK, Stays, Operating, Preparing, Reserving, Recording
<1>8. HeldBy(k)' /\ BannedBy(k)' /\ OwnMarker(k)
  BY <1>3 DEF HeldBy, BannedBy, OwnMarker, Bans, Locked, Reserving, Recording
<1>9. MailedTo(k)'
  BY <1>1, <1>3 DEF MailedTo, Stays, StageOK
<1>10. OwnLock(k)
  <2>1. \A j \in Lifecycle!Intents : lock[j] # k
    BY DEF LifecycleInv, Held, Lifecycle!LifecycleAssumption, Locked, Reserving, Recording
  <2> QED BY <2>1 DEF OwnLock
<1>11. OwnOpen(k)
  BY <1>3 DEF OwnOpen, Stays
<1>12. OnDisk'
  <2>1. ASSUME NEW j \in Lifecycle!Intents, j = i PROVE TrueOf(j)' /\ FencedFor(j)'
    BY <1>4, <2>1 DEF TrueOf, FencedFor, Lifecycle!ReceiptOK, Lifecycle!LifecycleAssumption
  <2>2. ASSUME NEW j \in Lifecycle!Intents, j # i PROVE TrueOf(j)' /\ FencedFor(j)'
    BY <1>4, <2>2 DEF LifecycleInv, OnDisk, TrueOf, FencedFor
  <2> QED BY <2>1, <2>2 DEF OnDisk
<1> QED BY <1>5, <1>6, <1>7, <1>8, <1>9, <1>10, <1>11, <1>12 DEF Kept

LEMMA CreateReceiptKept ==
  ASSUME Lifecycle!LifecycleAssumption, LifecycleInv, NEW k \in Procs, Lifecycle!CreateReceipt(k)
  PROVE  Kept(k)
<1> DEFINE i == proc[k].of
           r == [rev |-> 0, phase |-> "created", op |-> FALSE, proof |-> i \in Dependents]
<1>1. /\ r \in Lifecycle!Receipts /\ r.phase = "created" /\ r.op = FALSE /\ r.proof = (i \in Dependents)
  <2>1. (i \in Dependents) \in BOOLEAN /\ "created" \in Lifecycle!Phases
    BY DEF Lifecycle!Phases
  <2> QED BY <2>1 DEF Lifecycle!Receipts
<1>2. /\ Lifecycle!At(k, "create") /\ Lifecycle!Unlocked(i) /\ Lifecycle!Replace(i, r)
      /\ Lifecycle!GoesWith(k, "begin", r)
      /\ UNCHANGED <<getOnly, recovery, lock, Lifecycle!net, Lifecycle!history, stops>>
  BY DEF Lifecycle!CreateReceipt
<1> HIDE DEF r
<1>3. Lifecycle!ReceiptOK(i, r)
  BY <1>1 DEF Lifecycle!ReceiptOK
<1> QED BY <1>1, <1>2, <1>3, ReplacedKept DEF Lifecycle!At, LifecyclePlaces

LEMMA TransitionKept ==
  ASSUME Lifecycle!LifecycleAssumption, LifecycleInv, NEW k \in Procs,
         NEW from \in {"begin", "bind", "unknown"}, NEW phase, NEW to,
         Lifecycle!Transition(k, from, phase, to),
         \/ from = "begin" /\ phase = "prepare_started" /\ to = "ask"
         \/ from = "bind" /\ phase = "prepared" /\ to = "reserve"
         \/ from = "unknown" /\ phase = "prepare_unknown" /\ to = "gone"
  PROVE  Kept(k)
<1> DEFINE i == proc[k].of
           b == Lifecycle!Bumped(proc[k].seen, phase)
           r == [b EXCEPT !.op = (phase = "prepared")]
<1>1. /\ StageOK(k) /\ proc[k].at = from /\ receipt[i] = proc[k].seen /\ Lifecycle!Unlocked(i)
      /\ proc[k].seen \in Lifecycle!Receipts /\ i \in Lifecycle!Intents
  BY DEF LifecycleInv, Lifecycle!Transition, Lifecycle!Current, Lifecycle!At, StageOK, Preparing
<1>2. phase \in Lifecycle!Phases /\ to \in LifecyclePlaces
  BY DEF Lifecycle!Phases, LifecyclePlaces
<1>3. b \in Lifecycle!Receipts /\ b.proof = proc[k].seen.proof
  BY <1>1, <1>2, BumpedFields
<1>4. r \in Lifecycle!Receipts /\ r.phase = phase /\ r.op = (phase = "prepared") /\ r.proof = proc[k].seen.proof
  <2>1. b.phase = phase
    BY <1>1, <1>2, BumpedFields
  <2> HIDE DEF b
  <2> QED BY ZenonT(40), <1>3, <2>1, OpSet
<1>5. Lifecycle!ReceiptOK(i, r)
  <2>1. Lifecycle!ReceiptOK(i, proc[k].seen)
    BY <1>1 DEF LifecycleInv, OnDisk, TrueOf, Lifecycle!LifecycleAssumption
  <2>2. proc[k].seen.phase \in {"created", "prepare_started"}
    BY <1>1 DEF StageOK, Preparing
  <2> HIDE DEF r
  <2> QED BY <1>4, <2>1, <2>2 DEF Lifecycle!ReceiptOK
<1>6. Lifecycle!Replace(i, r) /\ Lifecycle!GoesWith(k, to, r)
      /\ UNCHANGED <<getOnly, recovery, lock, Lifecycle!net, Lifecycle!history, stops>>
  BY DEF Lifecycle!Transition
<1> HIDE DEF r
<1> QED BY <1>1, <1>2, <1>4, <1>5, <1>6, ReplacedKept DEF Lifecycle!At

LEMMA BeginPrepareKept ==
  ASSUME Lifecycle!LifecycleAssumption, LifecycleInv, NEW k \in Procs, Lifecycle!BeginPrepare(k)
  PROVE  Kept(k)
BY TransitionKept DEF Lifecycle!BeginPrepare

LEMMA BindKept ==
  ASSUME Lifecycle!LifecycleAssumption, LifecycleInv, NEW k \in Procs, Lifecycle!Bind(k)
  PROVE  Kept(k)
BY TransitionKept DEF Lifecycle!Bind

LEMMA PrepareUnknownKept ==
  ASSUME Lifecycle!LifecycleAssumption, LifecycleInv, NEW k \in Procs, Lifecycle!PrepareUnknown(k)
  PROVE  Kept(k)
BY TransitionKept, MovesKept DEF Lifecycle!PrepareUnknown, LifecyclePlaces

LEMMA PostKept ==
  ASSUME Lifecycle!LifecycleAssumption, LifecycleInv, NEW k \in Procs, Lifecycle!Post(k)
  PROVE  Kept(k)
<1> USE DEF Lifecycle!At, Lifecycle!files
<1> DEFINE i == proc[k].of
           step == IF Lifecycle!At(k, "ask") THEN "prepared" ELSE "wait"
           m == [from |-> k, what |-> IF Lifecycle!At(k, "ask") THEN "prepare" ELSE proc[k].cmd]
<1>1. /\ StageOK(k) /\ MailedTo(k) /\ BannedBy(k) /\ LifecycleTypes /\ Lifecycle!Goes(k, step)
      /\ step \in LifecyclePlaces
      /\ Lifecycle!At(k, "ask") \/ Lifecycle!At(k, "post")
      /\ wire' = wire \cup {m} /\ answer' = [answer EXCEPT ![k] = "none"]
      /\ UNCHANGED <<Lifecycle!files, lock, server, stops>>
  BY DEF LifecycleInv, Mailed, LifecycleBanned, Lifecycle!Post, LifecyclePlaces
<1>2. i \in Lifecycle!Intents /\ proc[k].cmd # "none"
  BY <1>1 DEF StageOK
<1>3. /\ proc' \in [Procs -> Locals] /\ OnlyProc(k) /\ Stays(k)
      /\ proc'[k].at = step /\ proc'[k].seen = proc[k].seen
  BY <1>1, GoesTo
<1>4. m \in LifecycleMessages /\ m.from = k
  BY <1>1, <1>2, ProcFields DEF LifecycleMessages, LifecycleCommands
<1>5. /\ answer' \in [Procs -> OperationStates] /\ answer'[k] = "none"
      /\ \A j \in Procs : j # k => answer'[j] = answer[j]
  BY <1>1 DEF LifecycleTypes, OperationStates
<1>6. /\ open' \in [Lifecycle!Intents -> SUBSET Procs] /\ sent' \in [Lifecycle!Intents -> Nat]
      /\ \A j \in Lifecycle!Intents : j # i \/ ~Lifecycle!Mutates(k) => open'[j] = open[j]
      /\ Lifecycle!Mutates(k) => open'[i] = open[i] \cup {k}
  BY <1>1, <1>2 DEF LifecycleTypes, Lifecycle!Post
<1>7. Lifecycle!Mutates(k) => Bans(k) /\ open[i] = {} /\ getOnly[i].there
  BY <1>1 DEF Lifecycle!Mutates, BannedBy, Bans
<1> HIDE DEF step, m
<1>8. step \in {"prepared", "wait"} /\ (step = "wait" <=> Lifecycle!At(k, "post"))
  BY <1>1 DEF step
<1>9. Frame(k)
  BY <1>1, <1>3, <1>4, <1>5, <1>6, <1>7 DEF Frame
<1>10. LifecycleTypes'
  BY <1>1, <1>3, <1>4, <1>5, <1>6 DEF LifecycleTypes
<1>11. StageOK(k)'
  BY <1>1, <1>3, <1>8 DEF StageOK, Stays, Operating, Preparing, Reserving, Recording
<1>12. HeldBy(k)' /\ OwnMarker(k)
  BY <1>3, <1>8 DEF HeldBy, OwnMarker, Bans, Stays, Locked, Reserving, Recording
<1>13. MailedTo(k)'
  <2>1. proc[k].at \notin {"prepared", "unknown", "wait", "gone"}
    BY <1>1
  <2>2. \A n \in wire : n.from # k
    BY <1>1, <2>1 DEF MailedTo
  <2>3. \A x, y \in wire' : x.from = k /\ y.from = k => x = y
    BY <1>1, <2>2
  <2> QED BY <1>3, <1>5, <1>8, <2>3 DEF MailedTo, Lifecycle!Terminal
<1>14. BannedBy(k)'
  <2>1. /\ Bans(k)' => Bans(k)
        /\ proc'[k].at \in {"fence", "commit", "post", "wait", "observe", "unban"} => Lifecycle!At(k, "post")
    BY <1>3, <1>8 DEF Bans, Stays
  <2>2. Bans(k) /\ Lifecycle!At(k, "post") => getOnly[i].there /\ open[i] = {}
    BY <1>1 DEF BannedBy
  <2>3. open'[i] = open[i] \/ open'[i] = open[i] \cup {k}
    BY <1>2, <1>6
  <2> QED BY <1>1, <1>3, <1>8, <2>1, <2>2, <2>3 DEF BannedBy, Bans, Stays
<1>15. OwnLock(k)
  <2>1. \A j \in Lifecycle!Intents : lock[j] # k
    BY <1>1 DEF LifecycleInv, Held, Lifecycle!LifecycleAssumption, Locked, Reserving, Recording
  <2> QED BY <1>1, <2>1 DEF OwnLock
<1>16. OwnOpen(k)
  <2>1. Lifecycle!Mutates(k) => open'[i] = {k} /\ proc[k].cmd \in {"action", "cancel"}
    BY <1>6, <1>7 DEF Lifecycle!Mutates
  <2>2. \A j \in Lifecycle!Intents : \/ open'[j] = open[j]
                                     \/ j = i /\ Lifecycle!Mutates(k)
    BY <1>6
  <2> QED BY <1>1, <1>3, <1>7, <2>1, <2>2 DEF OwnOpen, Stays
<1>17. OnDisk'
  BY <1>1 DEF LifecycleInv, OnDisk, TrueOf, FencedFor
<1> QED BY <1>9, <1>10, <1>11, <1>12, <1>13, <1>14, <1>15, <1>16, <1>17 DEF Kept

LEMMA ReserveGetOnlyKept ==
  ASSUME Lifecycle!LifecycleAssumption, LifecycleInv, NEW k \in Procs, Lifecycle!ReserveGetOnly(k)
  PROVE  Kept(k)
<1> USE DEF Lifecycle!At, Lifecycle!net, Lifecycle!history
<1> DEFINE i == proc[k].of
           mine == ~getOnly[i].there
           mark == IF mine THEN Lifecycle!Written(proc[k].seen.rev + 1) ELSE getOnly[i]
           new == [proc[k] EXCEPT !.at = "fence", !.token = mine]
<1>1. /\ StageOK(k) /\ MailedTo(k) /\ BannedBy(k) /\ LifecycleTypes /\ proc[k].at = "reserve"
      /\ UNCHANGED <<receipt, recovery, Lifecycle!net, Lifecycle!history, stops>>
      /\ lock[i] = Nobody /\ receipt[i] = proc[k].seen
      /\ proc[k].cmd = "action" => proc[k].seen.phase = "prepared"
      /\ proc[k].cmd # "status" => mine
  BY DEF LifecycleInv, Mailed, LifecycleBanned, Lifecycle!ReserveGetOnly, Lifecycle!MayReserve,
     Lifecycle!Current, Lifecycle!Unlocked
<1>2. i \in Lifecycle!Intents /\ proc[k].seen \in Lifecycle!Receipts /\ proc[k].seen.op /\ proc[k].cmd # "none"
  BY <1>1 DEF StageOK, Operating
<1>3. getOnly[i] \in Markers /\ mine \in BOOLEAN
  BY <1>1, <1>2 DEF LifecycleTypes
<1>4. mark \in Markers /\ mark.there
  <2>1. proc[k].seen.rev + 1 \in Nat
    BY <1>2 DEF Lifecycle!Receipts
  <2> QED BY <1>3, <2>1 DEF Markers, Lifecycle!Written
<1>5. getOnly' = [getOnly EXCEPT ![i] = mark] /\ lock' = [lock EXCEPT ![i] = k]
  BY DEF Lifecycle!ReserveGetOnly
<1>6. proc' = [proc EXCEPT ![k] = new]
  BY DEF Lifecycle!ReserveGetOnly
<1>7. /\ new \in Locals /\ new.at = "fence" /\ new.token = mine /\ new.cmd = proc[k].cmd
      /\ new.of = i /\ new.seen = proc[k].seen /\ new.fence = proc[k].fence
  BY ZenonT(40), <1>1, <1>3, ProcFields DEF Locals, LifecyclePlaces
<1> HIDE DEF mark, new
<1>8. /\ proc' \in [Procs -> Locals] /\ OnlyProc(k) /\ proc'[k] = new
  BY <1>1, <1>6, <1>7 DEF OnlyProc, LifecycleTypes
<1>9. /\ getOnly' \in [Lifecycle!Intents -> Markers] /\ getOnly'[i] = mark
      /\ \A j \in Lifecycle!Intents : j # i => getOnly'[j] = getOnly[j]
      /\ lock' \in [Lifecycle!Intents -> Procs \cup {Nobody}] /\ lock'[i] = k
      /\ \A j \in Lifecycle!Intents : j # i => lock'[j] = lock[j]
  BY <1>1, <1>2, <1>4, <1>5 DEF LifecycleTypes
<1>10. \A j \in Lifecycle!Intents : getOnly[j].there => getOnly'[j].there
  BY <1>4, <1>9
<1>11. \A j \in Lifecycle!Intents : lock[j] # k
  BY <1>1 DEF LifecycleInv, Held, Lifecycle!LifecycleAssumption, Locked, Reserving, Recording
<1>12. mine => open[i] = {}
  BY <1>2 DEF LifecycleInv, OpenBanned
<1>13. Frame(k)
  BY <1>1, <1>8, <1>9, <1>10 DEF Frame
<1>14. LifecycleTypes'
  BY <1>1, <1>8, <1>9 DEF LifecycleTypes
<1>15. StageOK(k)'
  BY <1>1, <1>2, <1>7, <1>8 DEF StageOK, Operating, Preparing, Reserving, Recording
<1>16. HeldBy(k)'
  BY <1>1, <1>7, <1>8, <1>9 DEF HeldBy
<1>17. MailedTo(k)'
  BY <1>1, <1>7, <1>8 DEF MailedTo
<1>18. BannedBy(k)'
  BY <1>1, <1>4, <1>7, <1>8, <1>9, <1>12 DEF BannedBy, Bans
<1>19. OwnLock(k)
  BY <1>7, <1>8, <1>9, <1>11 DEF OwnLock, Locked, Reserving
<1>20. OwnMarker(k) /\ OwnOpen(k)
  BY <1>1, <1>7, <1>8, <1>10 DEF OwnMarker, OwnOpen, Bans
<1>21. OnDisk'
  BY <1>1 DEF LifecycleInv, OnDisk, TrueOf, FencedFor
<1> QED BY <1>13, <1>14, <1>15, <1>16, <1>17, <1>18, <1>19, <1>20, <1>21 DEF Kept

LEMMA ReserveRecoveryKept ==
  ASSUME Lifecycle!LifecycleAssumption, LifecycleInv, NEW k \in Procs, Lifecycle!ReserveRecovery(k)
  PROVE  Kept(k)
<1> USE DEF Lifecycle!At, Lifecycle!net, Lifecycle!history
<1> DEFINE i == proc[k].of
           mark == IF Lifecycle!Fences(k) THEN Lifecycle!Written(proc[k].seen.rev + 1) ELSE recovery[i]
           new == [proc[k] EXCEPT !.at = "commit", !.fence = Lifecycle!Fences(k) \/ recovery[i].there]
<1>1. /\ StageOK(k) /\ HeldBy(k) /\ MailedTo(k) /\ BannedBy(k) /\ LifecycleTypes /\ proc[k].at = "fence"
      /\ UNCHANGED <<receipt, getOnly, lock, Lifecycle!net, Lifecycle!history, stops>>
  BY DEF LifecycleInv, Held, Mailed, LifecycleBanned, Lifecycle!ReserveRecovery
<1>2. /\ i \in Lifecycle!Intents /\ proc[k].seen \in Lifecycle!Receipts /\ proc[k].seen.op
      /\ proc[k].cmd # "none"
      /\ lock[i] = k /\ receipt[i] = proc[k].seen
      /\ proc[k].cmd = "action" => proc[k].seen.phase = "prepared"
  BY <1>1 DEF StageOK, HeldBy, Operating, Locked, Reserving
<1>3. recovery[i] \in Markers /\ (Lifecycle!Fences(k) \/ recovery[i].there) \in BOOLEAN
  BY <1>1, <1>2 DEF LifecycleTypes, Markers, Lifecycle!Fences
<1>4. mark \in Markers /\ (Lifecycle!Fences(k) => mark = Lifecycle!Written(proc[k].seen.rev + 1))
                       /\ (~Lifecycle!Fences(k) => mark = recovery[i])
  <2>1. proc[k].seen.rev + 1 \in Nat
    BY <1>2 DEF Lifecycle!Receipts
  <2> QED BY <1>3, <2>1 DEF Markers, Lifecycle!Written
<1>5. recovery' = [recovery EXCEPT ![i] = mark] /\ proc' = [proc EXCEPT ![k] = new]
  BY DEF Lifecycle!ReserveRecovery
<1>6. /\ new \in Locals /\ new.at = "commit" /\ new.token = proc[k].token /\ new.cmd = proc[k].cmd
      /\ new.of = i /\ new.seen = proc[k].seen
  BY ZenonT(40), <1>1, <1>3, ProcFields DEF Locals, LifecyclePlaces
<1> HIDE DEF mark, new
<1>7. /\ proc' \in [Procs -> Locals] /\ OnlyProc(k) /\ proc'[k] = new
  BY <1>1, <1>5, <1>6 DEF OnlyProc, LifecycleTypes
<1>8. /\ recovery' \in [Lifecycle!Intents -> Markers] /\ recovery'[i] = mark
      /\ \A j \in Lifecycle!Intents : j # i => recovery'[j] = recovery[j]
  BY <1>1, <1>2, <1>4, <1>5 DEF LifecycleTypes
<1>9. Frame(k)
  BY <1>1, <1>2, <1>7, <1>8 DEF Frame
<1>10. LifecycleTypes'
  BY <1>1, <1>7, <1>8 DEF LifecycleTypes
<1>11. StageOK(k)'
  BY <1>1, <1>2, <1>6, <1>7 DEF StageOK, Operating, Preparing, Reserving, Recording
<1>12. HeldBy(k)'
  BY <1>1, <1>2, <1>4, <1>6, <1>7, <1>8 DEF HeldBy, Lifecycle!Fences
<1>13. MailedTo(k)'
  BY <1>1, <1>6, <1>7 DEF MailedTo
<1>14. BannedBy(k)' /\ OwnMarker(k) /\ OwnOpen(k)
  BY <1>1, <1>6, <1>7 DEF BannedBy, Bans, OwnMarker, OwnOpen
<1>15. OwnLock(k)
  <2>1. \A j \in Lifecycle!Intents : lock[j] = k => j = i
    BY DEF LifecycleInv, Held, Lifecycle!LifecycleAssumption
  <2> QED BY <1>1, <1>6, <1>7, <2>1 DEF OwnLock, Locked, Reserving
<1>16. OnDisk'
  <2>1. ASSUME NEW j \in Lifecycle!Intents PROVE TrueOf(j)'
    BY <1>1 DEF LifecycleInv, OnDisk, TrueOf
  <2>2. ASSUME NEW j \in Lifecycle!Intents, j = i PROVE FencedFor(j)'
    BY <1>1, <1>2, <1>4, <1>8, <2>2 DEF LifecycleInv, OnDisk, FencedFor, Lifecycle!Fences
  <2>3. ASSUME NEW j \in Lifecycle!Intents, j # i PROVE FencedFor(j)'
    BY <1>1, <1>8, <2>3 DEF LifecycleInv, OnDisk, FencedFor
  <2> QED BY <2>1, <2>2, <2>3 DEF OnDisk
<1> QED BY <1>9, <1>10, <1>11, <1>12, <1>13, <1>14, <1>15, <1>16 DEF Kept

LEMMA ReserveReceiptKept ==
  ASSUME Lifecycle!LifecycleAssumption, LifecycleInv, NEW k \in Procs, Lifecycle!ReserveReceipt(k)
  PROVE  Kept(k)
<1> USE DEF Lifecycle!At, Lifecycle!net, Lifecycle!history
<1> DEFINE i == proc[k].of
           phase == IF proc[k].cmd = "action" THEN "dispatch_started" ELSE proc[k].seen.phase
           r == Lifecycle!Bumped(proc[k].seen, phase)
<1>1. /\ StageOK(k) /\ HeldBy(k) /\ MailedTo(k) /\ BannedBy(k) /\ LifecycleTypes
      /\ proc[k].at = "commit"
      /\ UNCHANGED <<getOnly, recovery, Lifecycle!net, Lifecycle!history, stops>>
      /\ receipt' = [receipt EXCEPT ![i] = r] /\ Lifecycle!GoesWith(k, "post", r)
      /\ lock' = [lock EXCEPT ![i] = Nobody]
  BY DEF LifecycleInv, Held, Mailed, LifecycleBanned, Lifecycle!ReserveReceipt, Lifecycle!Replace
<1>2. /\ i \in Lifecycle!Intents /\ proc[k].seen \in Lifecycle!Receipts /\ proc[k].seen.op
      /\ proc[k].cmd # "none"
      /\ lock[i] = k /\ receipt[i] = proc[k].seen
      /\ proc[k].cmd = "action" => proc[k].seen.phase = "prepared"
      /\ Lifecycle!Fences(k) => recovery[i] = Lifecycle!Written(proc[k].seen.rev + 1)
  BY <1>1 DEF StageOK, HeldBy, Operating, Locked, Reserving
<1>3. phase \in Lifecycle!Phases
  BY <1>2 DEF Lifecycle!Phases, Lifecycle!Receipts
<1> HIDE DEF phase
<1>4. /\ r \in Lifecycle!Receipts /\ r.rev = proc[k].seen.rev + 1 /\ r.phase = phase
      /\ r.op = proc[k].seen.op /\ r.proof = proc[k].seen.proof
  BY <1>2, <1>3, BumpedFields
<1> HIDE DEF r
<1>5. /\ proc' \in [Procs -> Locals] /\ OnlyProc(k) /\ Stays(k)
      /\ proc'[k].at = "post" /\ proc'[k].seen = r
  BY <1>1, <1>4, GoesToWith DEF LifecyclePlaces
<1>6. /\ receipt' \in [Lifecycle!Intents -> Lifecycle!Receipts \cup {None}] /\ receipt'[i] = r
      /\ \A j \in Lifecycle!Intents : j # i => receipt'[j] = receipt[j]
      /\ lock' \in [Lifecycle!Intents -> Procs \cup {Nobody}] /\ lock'[i] = Nobody
      /\ \A j \in Lifecycle!Intents : j # i => lock'[j] = lock[j]
  BY <1>1, <1>2, <1>4 DEF LifecycleTypes
<1>7. Frame(k)
  BY <1>1, <1>2, <1>5, <1>6 DEF Frame
<1>8. LifecycleTypes'
  BY <1>1, <1>5, <1>6 DEF LifecycleTypes
<1>9. StageOK(k)'
  BY <1>1, <1>2, <1>4, <1>5 DEF StageOK, Stays, Operating, Preparing, Reserving, Recording
<1>10. HeldBy(k)'
  BY <1>5 DEF HeldBy, Locked, Reserving, Recording
<1>11. MailedTo(k)'
  BY <1>1, <1>5 DEF MailedTo, Stays
<1>12. BannedBy(k)' /\ OwnMarker(k) /\ OwnOpen(k)
  BY <1>1, <1>5 DEF BannedBy, Bans, OwnMarker, OwnOpen, Stays
<1>13. OwnLock(k)
  <2>1. \A j \in Lifecycle!Intents : lock[j] = k => j = i
    BY DEF LifecycleInv, Held, Lifecycle!LifecycleAssumption
  <2> QED BY <1>6, <2>1, Lifecycle!LifecycleAssumption DEF OwnLock, Lifecycle!LifecycleAssumption
<1>14. OnDisk'
  <2>1. TrueOf(i) /\ FencedFor(i) /\ receipt[i] # None
    BY <1>2 DEF LifecycleInv, OnDisk, Lifecycle!LifecycleAssumption
  <2>2. Lifecycle!ReceiptOK(i, r) /\ (r.phase = "terminal_observed" <=> receipt[i].phase = "terminal_observed")
    BY <1>2, <1>4, <2>1 DEF TrueOf, Lifecycle!ReceiptOK, phase
  <2>3. i \in Creates /\ r.phase = "dispatch_started" => Lifecycle!Readable(recovery[i], r)
    <3>1. CASE proc[k].cmd = "action"
      BY <1>2, <1>4, <3>1 DEF Lifecycle!Fences, Lifecycle!Readable, Lifecycle!Written,
         Lifecycle!Receipts
    <3>2. CASE proc[k].cmd # "action"
      <4>1. r.phase = receipt[i].phase /\ receipt[i].rev \in Nat /\ r.rev = receipt[i].rev + 1
        BY <1>2, <1>4, <3>2 DEF phase, Lifecycle!Receipts
      <4>2. recovery[i].rev \in Nat
        BY <1>1, <1>2 DEF LifecycleTypes, Markers
      <4> QED BY <2>1, <4>1, <4>2 DEF FencedFor, Lifecycle!Readable
    <3> QED BY <3>1, <3>2
  <2>4. ASSUME NEW j \in Lifecycle!Intents, j = i PROVE TrueOf(j)' /\ FencedFor(j)'
    BY <1>1, <1>2, <1>4, <1>6, <2>1, <2>2, <2>3, <2>4 DEF TrueOf, FencedFor
  <2>5. ASSUME NEW j \in Lifecycle!Intents, j # i PROVE TrueOf(j)' /\ FencedFor(j)'
    BY <1>1, <1>6, <2>5 DEF LifecycleInv, OnDisk, TrueOf, FencedFor
  <2> QED BY <2>4, <2>5 DEF OnDisk
<1> QED BY <1>7, <1>8, <1>9, <1>10, <1>11, <1>12, <1>13, <1>14 DEF Kept

\* What observe writes: how the operation ended if the answer says so, and the proof of a
\* creation that completed.
LEMMA ObservedFields ==
  ASSUME NEW k \in Procs, proc[k].seen \in Lifecycle!Receipts
  PROVE  /\ Lifecycle!Observed(k) \in Lifecycle!Receipts
         /\ Lifecycle!Observed(k).rev = proc[k].seen.rev + 1
         /\ Lifecycle!Observed(k).op = proc[k].seen.op
         /\ Lifecycle!Observed(k).proof = (proc[k].seen.proof \/ Lifecycle!Completes(k))
         /\ Lifecycle!Observed(k).phase = IF answer[k] \in Lifecycle!Terminal THEN "terminal_observed"
                                                          ELSE proc[k].seen.phase
<1> DEFINE phase == IF answer[k] \in Lifecycle!Terminal THEN "terminal_observed" ELSE proc[k].seen.phase
           r == Lifecycle!Bumped(proc[k].seen, phase)
           b == r.proof \/ Lifecycle!Completes(k)
<1>1. phase \in Lifecycle!Phases
  BY DEF Lifecycle!Phases, Lifecycle!Receipts
<1>2. Lifecycle!Observed(k) = [r EXCEPT !.proof = b]
  BY DEF Lifecycle!Observed
<1> HIDE DEF phase
<1>3. /\ r \in Lifecycle!Receipts /\ r.rev = proc[k].seen.rev + 1 /\ r.phase = phase
      /\ r.op = proc[k].seen.op /\ r.proof = proc[k].seen.proof
  BY <1>1, BumpedFields
<1>4. b \in BOOLEAN /\ b = (proc[k].seen.proof \/ Lifecycle!Completes(k))
  BY <1>3
<1> HIDE DEF r, b
<1> QED BY ZenonT(40), <1>2, <1>3, <1>4, ProofSet DEF phase

LEMMA ObserveKept ==
  ASSUME Lifecycle!LifecycleAssumption, LifecycleInv, NEW k \in Procs, Lifecycle!Observe(k)
  PROVE  Kept(k)
<1> USE DEF Lifecycle!At, Lifecycle!net, Lifecycle!history
<1> DEFINE i == proc[k].of
           r == Lifecycle!Observed(k)
<1>1. /\ StageOK(k) /\ MailedTo(k) /\ BannedBy(k) /\ LifecycleTypes /\ proc[k].at = "observe"
      /\ UNCHANGED <<getOnly, recovery, Lifecycle!net, Lifecycle!history, stops>>
      /\ receipt' = [receipt EXCEPT ![i] = r] /\ Lifecycle!GoesWith(k, "unban", r)
      /\ lock' = [lock EXCEPT ![i] = k]
      /\ lock[i] = Nobody /\ receipt[i] = proc[k].seen
  BY DEF LifecycleInv, Mailed, LifecycleBanned, Lifecycle!Observe, Lifecycle!MayObserve,
     Lifecycle!Current, Lifecycle!Unlocked, Lifecycle!Replace
<1>2. i \in Lifecycle!Intents /\ proc[k].seen \in Lifecycle!Receipts /\ proc[k].seen.op /\ proc[k].cmd # "none"
  BY <1>1 DEF StageOK, Operating
<1>3. /\ r \in Lifecycle!Receipts /\ r.rev = proc[k].seen.rev + 1 /\ r.op = proc[k].seen.op
      /\ r.proof = (proc[k].seen.proof \/ Lifecycle!Completes(k))
      /\ answer[k] \in Lifecycle!Terminal => r.phase = "terminal_observed"
      /\ answer[k] \notin Lifecycle!Terminal => r.phase = proc[k].seen.phase
  BY <1>2, ObservedFields
<1> HIDE DEF r
<1>4. /\ proc' \in [Procs -> Locals] /\ OnlyProc(k) /\ Stays(k)
      /\ proc'[k].at = "unban" /\ proc'[k].seen = r
  BY <1>1, <1>3, GoesToWith DEF LifecyclePlaces
<1>5. /\ receipt' \in [Lifecycle!Intents -> Lifecycle!Receipts \cup {None}] /\ receipt'[i] = r
      /\ \A j \in Lifecycle!Intents : j # i => receipt'[j] = receipt[j]
      /\ lock' \in [Lifecycle!Intents -> Procs \cup {Nobody}] /\ lock'[i] = k
      /\ \A j \in Lifecycle!Intents : j # i => lock'[j] = lock[j]
  BY <1>1, <1>2, <1>3 DEF LifecycleTypes
<1>6. Frame(k)
  BY <1>1, <1>4, <1>5 DEF Frame
<1>7. LifecycleTypes'
  BY <1>1, <1>4, <1>5 DEF LifecycleTypes
<1>8. Lifecycle!Completes(k)' = Lifecycle!Completes(k) /\ (Lifecycle!Completes(k) => answer[k] \in Lifecycle!Terminal /\ i \in Creates)
  BY <1>1, <1>4 DEF Lifecycle!Completes, Stays, Lifecycle!Terminal
<1>9. StageOK(k)'
  BY <1>1, <1>2, <1>3, <1>4, <1>8 DEF StageOK, Stays, Operating, Preparing, Reserving, Recording
<1>10. HeldBy(k)'
  BY <1>4, <1>5 DEF HeldBy, Stays
<1>11. MailedTo(k)'
  BY <1>1, <1>4 DEF MailedTo, Stays
<1>12. BannedBy(k)' /\ OwnMarker(k) /\ OwnOpen(k)
  BY <1>1, <1>4 DEF BannedBy, Bans, OwnMarker, OwnOpen, Stays
<1>13. OwnLock(k)
  <2>1. \A j \in Lifecycle!Intents : lock[j] # k
    BY <1>1 DEF LifecycleInv, Held, Lifecycle!LifecycleAssumption, Locked, Reserving, Recording
  <2> QED BY <1>4, <1>5, <2>1 DEF OwnLock, Stays, Locked, Recording
<1>14. OnDisk'
  <2>1. TrueOf(i) /\ FencedFor(i) /\ receipt[i] # None /\ r # None
    BY <1>1, <1>2, <1>3 DEF LifecycleInv, OnDisk, Lifecycle!LifecycleAssumption
  <2>2. answer[k] \in Lifecycle!Terminal => server[i] = answer[k]
    BY <1>1 DEF MailedTo
  <2>3. Lifecycle!ReceiptOK(i, r)
    <3>1. Lifecycle!ReceiptOK(i, proc[k].seen)
      BY <1>1, <2>1 DEF TrueOf
    <3>2. r.op <=> r.phase \in {"prepared", "dispatch_started", "terminal_observed"}
      BY <1>2, <1>3, <3>1 DEF Lifecycle!ReceiptOK
    <3>3. r.proof => i \in Dependents \/ r.phase = "terminal_observed"
      BY <1>3, <1>8, <3>1 DEF Lifecycle!ReceiptOK
    <3>4. i \in Dependents => r.proof
      BY <1>3, <3>1 DEF Lifecycle!ReceiptOK
    <3> QED BY <1>3, <3>2, <3>3, <3>4 DEF Lifecycle!ReceiptOK
  <2>4. r.phase = "terminal_observed" => server[i] \in Lifecycle!Terminal
    BY <1>1, <1>3, <2>1, <2>2 DEF TrueOf
  <2>5. i \in Creates => /\ r.proof => server[i] = "completed"
                         /\ r.phase = "terminal_observed" /\ ~r.proof => server[i] # "completed"
    BY <1>1, <1>3, <2>1, <2>2 DEF TrueOf, Lifecycle!Completes, Lifecycle!Terminal
  <2>6. i \in Creates /\ r.phase = "dispatch_started" => Lifecycle!Readable(recovery[i], r)
    <3>1. recovery[i].rev \in Nat /\ receipt[i].rev \in Nat
      BY <1>1, <1>2 DEF LifecycleTypes, Markers, Lifecycle!Receipts
    <3>2. r.phase = "dispatch_started" => receipt[i].phase = "dispatch_started"
      BY <1>1, <1>3
    <3> QED BY <1>1, <1>3, <2>1, <3>1, <3>2 DEF FencedFor, Lifecycle!Readable
  <2>7. ASSUME NEW j \in Lifecycle!Intents, j = i PROVE TrueOf(j)' /\ FencedFor(j)'
    BY <1>1, <1>5, <2>3, <2>4, <2>5, <2>6, <2>7 DEF TrueOf, FencedFor
  <2>8. ASSUME NEW j \in Lifecycle!Intents, j # i PROVE TrueOf(j)' /\ FencedFor(j)'
    BY <1>1, <1>5, <2>8 DEF LifecycleInv, OnDisk, TrueOf, FencedFor
  <2> QED BY <2>7, <2>8 DEF OnDisk
<1> QED BY <1>6, <1>7, <1>9, <1>10, <1>11, <1>12, <1>13, <1>14 DEF Kept

LEMMA RemoveGetOnlyKept ==
  ASSUME Lifecycle!LifecycleAssumption, LifecycleInv, NEW k \in Procs, Lifecycle!RemoveGetOnly(k)
  PROVE  Kept(k)
<1> USE DEF Lifecycle!At, Lifecycle!net
<1> DEFINE i == proc[k].of
           mark == IF proc[k].token THEN Lifecycle!Absent ELSE getOnly[i]
<1>1. /\ StageOK(k) /\ HeldBy(k) /\ MailedTo(k) /\ BannedBy(k) /\ LifecycleTypes /\ proc[k].at = "unban"
      /\ UNCHANGED <<receipt, recovery, lock, Lifecycle!net, sent, stops>>
      /\ Lifecycle!Goes(k, "unfence") /\ getOnly' = [getOnly EXCEPT ![i] = mark]
      /\ open' = [open EXCEPT ![i] = @ \ {k}]
  BY DEF LifecycleInv, Held, Mailed, LifecycleBanned, Lifecycle!RemoveGetOnly, Lifecycle!OwnBan
<1>2. i \in Lifecycle!Intents /\ proc[k].seen \in Lifecycle!Receipts /\ lock[i] = k /\ receipt[i] = proc[k].seen
  BY <1>1 DEF StageOK, HeldBy, Operating, Locked, Recording
<1>3. mark \in Markers
  BY <1>1, <1>2 DEF LifecycleTypes, Lifecycle!Absent, Markers
<1>4. /\ proc' \in [Procs -> Locals] /\ OnlyProc(k) /\ Stays(k)
      /\ proc'[k].at = "unfence" /\ proc'[k].seen = proc[k].seen
  BY <1>1, GoesTo DEF LifecyclePlaces
<1>5. /\ getOnly' \in [Lifecycle!Intents -> Markers] /\ getOnly'[i] = mark
      /\ \A j \in Lifecycle!Intents : j # i => getOnly'[j] = getOnly[j]
      /\ open' \in [Lifecycle!Intents -> SUBSET Procs] /\ open'[i] = open[i] \ {k}
      /\ \A j \in Lifecycle!Intents : j # i => open'[j] = open[j]
  BY <1>1, <1>2, <1>3 DEF LifecycleTypes
<1>6. /\ Bans(k) <=> proc[k].token
      /\ proc[k].token => open[i] \subseteq {k}
  BY <1>1 DEF BannedBy, Bans
<1>7. Frame(k)
  <2>1. \A j \in Lifecycle!Intents : getOnly[j].there => getOnly'[j].there \/ (j = i /\ Bans(k))
    BY <1>5, <1>6
  <2>2. \A j \in Lifecycle!Intents : open'[j] \subseteq open[j]
    BY <1>5
  <2> QED BY <1>1, <1>4, <2>1, <2>2 DEF Frame
<1>8. LifecycleTypes'
  BY <1>1, <1>4, <1>5 DEF LifecycleTypes
<1>9. StageOK(k)'
  BY <1>1, <1>2, <1>4 DEF StageOK, Stays, Lifecycle!Completes, Operating, Preparing, Reserving,
     Recording
<1>10. HeldBy(k)'
  BY <1>1, <1>2, <1>4 DEF HeldBy, Stays
<1>11. MailedTo(k)'
  BY <1>1, <1>4 DEF MailedTo, Stays
<1>12. BannedBy(k)' /\ OwnMarker(k)
  BY <1>4 DEF BannedBy, Bans, OwnMarker
<1>13. OwnOpen(k)
  <2>1. ASSUME NEW j \in Lifecycle!Intents
        PROVE  \/ open'[j] = {}
               \/ open'[j] \subseteq open[j] /\ (getOnly[j].there => getOnly'[j].there)
    BY <1>5, <1>6
  <2> QED BY <1>4, <2>1 DEF OwnOpen, Stays
<1>14. OwnLock(k)
  <2>1. \A j \in Lifecycle!Intents : lock[j] = k => j = i
    BY DEF LifecycleInv, Held, Lifecycle!LifecycleAssumption
  <2> QED BY <1>1, <1>4, <2>1 DEF OwnLock, Stays, Locked, Recording
<1>15. OnDisk'
  BY <1>1 DEF LifecycleInv, OnDisk, TrueOf, FencedFor
<1> QED BY <1>7, <1>8, <1>9, <1>10, <1>11, <1>12, <1>13, <1>14, <1>15 DEF Kept

LEMMA RemoveRecoveryKept ==
  ASSUME Lifecycle!LifecycleAssumption, LifecycleInv, NEW k \in Procs, Lifecycle!RemoveRecovery(k)
  PROVE  Kept(k)
<1> USE DEF Lifecycle!At, Lifecycle!net, Lifecycle!history
<1> DEFINE i == proc[k].of
           mark == IF Lifecycle!LiftsFence(k) THEN Lifecycle!Absent ELSE recovery[i]
<1>1. /\ StageOK(k) /\ HeldBy(k) /\ MailedTo(k) /\ BannedBy(k) /\ LifecycleTypes
      /\ proc[k].at = "unfence"
      /\ UNCHANGED <<receipt, getOnly, Lifecycle!net, Lifecycle!history, stops>>
      /\ Lifecycle!Goes(k, "done") /\ recovery' = [recovery EXCEPT ![i] = mark]
      /\ lock' = [lock EXCEPT ![i] = Nobody]
  BY DEF LifecycleInv, Held, Mailed, LifecycleBanned, Lifecycle!RemoveRecovery
<1>2. i \in Lifecycle!Intents /\ proc[k].seen \in Lifecycle!Receipts /\ lock[i] = k /\ receipt[i] = proc[k].seen
  BY <1>1 DEF StageOK, HeldBy, Operating, Locked, Recording
<1>3. mark \in Markers
  BY <1>1, <1>2 DEF LifecycleTypes, Lifecycle!Absent, Markers
<1>4. /\ proc' \in [Procs -> Locals] /\ OnlyProc(k) /\ Stays(k)
      /\ proc'[k].at = "done" /\ proc'[k].seen = proc[k].seen
  BY <1>1, GoesTo DEF LifecyclePlaces
<1>5. /\ recovery' \in [Lifecycle!Intents -> Markers] /\ recovery'[i] = mark
      /\ \A j \in Lifecycle!Intents : j # i => recovery'[j] = recovery[j]
      /\ lock' \in [Lifecycle!Intents -> Procs \cup {Nobody}] /\ lock'[i] = Nobody
      /\ \A j \in Lifecycle!Intents : j # i => lock'[j] = lock[j]
  BY <1>1, <1>2, <1>3 DEF LifecycleTypes
<1>6. Lifecycle!LiftsFence(k) => receipt[i].phase = "terminal_observed"
  BY <1>1, <1>2 DEF Lifecycle!LiftsFence, StageOK, Recording
<1>7. Frame(k)
  BY <1>1, <1>2, <1>4, <1>5 DEF Frame
<1>8. LifecycleTypes'
  BY <1>1, <1>4, <1>5 DEF LifecycleTypes
<1>9. StageOK(k)' /\ HeldBy(k)'
  BY <1>1, <1>4 DEF StageOK, HeldBy, Stays, Operating, Preparing, Locked, Reserving, Recording
<1>10. MailedTo(k)'
  BY <1>1, <1>4 DEF MailedTo, Stays
<1>11. BannedBy(k)' /\ OwnMarker(k) /\ OwnOpen(k)
  BY <1>1, <1>4 DEF BannedBy, Bans, OwnMarker, OwnOpen, Stays
<1>12. OwnLock(k)
  <2>1. \A j \in Lifecycle!Intents : lock[j] = k => j = i
    BY DEF LifecycleInv, Held, Lifecycle!LifecycleAssumption
  <2> QED BY <1>5, <2>1 DEF OwnLock, Lifecycle!LifecycleAssumption
<1>13. OnDisk'
  <2>1. ASSUME NEW j \in Lifecycle!Intents PROVE TrueOf(j)'
    BY <1>1 DEF LifecycleInv, OnDisk, TrueOf
  <2>2. ASSUME NEW j \in Lifecycle!Intents PROVE FencedFor(j)'
    BY <1>1, <1>5, <1>6 DEF LifecycleInv, OnDisk, FencedFor
  <2> QED BY <2>1, <2>2 DEF OnDisk
<1> QED BY <1>7, <1>8, <1>9, <1>10, <1>11, <1>12, <1>13 DEF Kept

\* A process that gives up or dies: it lets its lock go, and may leave a marker torn.
LEMMA GoneKept ==
  ASSUME Lifecycle!LifecycleAssumption, LifecycleInv, NEW k \in Procs, NEW g \in Markers,
         NEW f \in Markers,
         Lifecycle!Goes(k, "gone"), ~Lifecycle!At(k, "start"),
         UNCHANGED <<receipt, Lifecycle!net, Lifecycle!history>>, stops' \in 0..MaxStops,
         getOnly' = [getOnly EXCEPT ![proc[k].of] = g], recovery' = [recovery EXCEPT ![proc[k].of] = f],
         lock' = [lock EXCEPT ![proc[k].of] = IF @ = k THEN Nobody ELSE @],
         getOnly[proc[k].of].there => g.there,
         \/ f = recovery[proc[k].of]
         \/ lock[proc[k].of] = k /\ receipt[proc[k].of].phase # "dispatch_started"
  PROVE  Kept(k)
<1> USE DEF Lifecycle!At, Lifecycle!net, Lifecycle!history
<1> DEFINE i == proc[k].of
<1>1. /\ StageOK(k) /\ MailedTo(k) /\ LifecycleTypes /\ i \in Lifecycle!Intents /\ proc[k].cmd # "none"
  BY DEF LifecycleInv, Mailed, StageOK
<1>2. /\ proc' \in [Procs -> Locals] /\ OnlyProc(k) /\ Stays(k)
      /\ proc'[k].at = "gone" /\ proc'[k].seen = proc[k].seen
  BY <1>1, GoesTo DEF LifecyclePlaces
<1>3. /\ getOnly' \in [Lifecycle!Intents -> Markers] /\ getOnly'[i] = g
      /\ \A j \in Lifecycle!Intents : j # i => getOnly'[j] = getOnly[j]
      /\ recovery' \in [Lifecycle!Intents -> Markers] /\ recovery'[i] = f
      /\ \A j \in Lifecycle!Intents : j # i => recovery'[j] = recovery[j]
  BY <1>1 DEF LifecycleTypes
<1>4. /\ lock' \in [Lifecycle!Intents -> Procs \cup {Nobody}]
      /\ \A j \in Lifecycle!Intents : lock'[j] = lock[j] \/ (lock[j] = k /\ lock'[j] = Nobody)
      /\ lock[i] = k => lock'[i] = Nobody
  BY <1>1 DEF LifecycleTypes
<1>5. Frame(k)
  <2>1. \A j \in Lifecycle!Intents : lock[j] \notin {Nobody, k} => recovery'[j] = recovery[j] /\ lock'[j] = lock[j]
    BY <1>3, <1>4
  <2>2. \A j \in Lifecycle!Intents : getOnly[j].there => getOnly'[j].there
    BY <1>3
  <2> QED BY <1>2, <2>1, <2>2 DEF Frame
<1>6. LifecycleTypes'
  BY <1>1, <1>2, <1>3, <1>4 DEF LifecycleTypes
<1>7. StageOK(k)' /\ HeldBy(k)'
  BY <1>1, <1>2 DEF StageOK, HeldBy, Stays, Operating, Preparing, Locked, Reserving, Recording
<1>8. MailedTo(k)'
  BY <1>1, <1>2 DEF MailedTo, Stays
<1>9. BannedBy(k)' /\ OwnMarker(k)
  BY <1>2 DEF BannedBy, Bans, OwnMarker
<1>10. OwnOpen(k)
  <2>1. \A j \in Lifecycle!Intents : getOnly[j].there => getOnly'[j].there
    BY <1>3
  <2> QED BY <1>2, <2>1 DEF OwnOpen, Stays
<1>11. OwnLock(k)
  <2>1. \A j \in Lifecycle!Intents : lock[j] = k => j = i
    BY DEF LifecycleInv, Held, Lifecycle!LifecycleAssumption
  <2>2. \A j \in Lifecycle!Intents : lock'[j] # k
    BY <1>4, <2>1, Lifecycle!LifecycleAssumption DEF Lifecycle!LifecycleAssumption
  <2> QED BY <1>4, <2>2 DEF OwnLock
<1>12. OnDisk'
  <2>1. ASSUME NEW j \in Lifecycle!Intents PROVE TrueOf(j)'
    BY DEF LifecycleInv, OnDisk, TrueOf
  <2>2. ASSUME NEW j \in Lifecycle!Intents PROVE FencedFor(j)'
    BY <1>3 DEF LifecycleInv, OnDisk, FencedFor
  <2> QED BY <2>1, <2>2 DEF OnDisk
<1> QED BY <1>5, <1>6, <1>7, <1>8, <1>9, <1>10, <1>11, <1>12 DEF Kept

LEMMA RefusedKept ==
  ASSUME Lifecycle!LifecycleAssumption, LifecycleInv, NEW k \in Procs, Lifecycle!Refused(k)
  PROVE  Kept(k)
<1> DEFINE i == proc[k].of
<1>1. ~Lifecycle!At(k, "start") /\ Lifecycle!Goes(k, "gone")
      /\ UNCHANGED <<Lifecycle!files, Lifecycle!net, Lifecycle!history, stops>>
      /\ lock' = [lock EXCEPT ![i] = IF @ = k THEN Nobody ELSE @]
  BY DEF Lifecycle!Refused, Lifecycle!At
<1>2. i \in Lifecycle!Intents /\ LifecycleTypes
  BY <1>1 DEF LifecycleInv, StageOK, Lifecycle!At
<1>3. /\ getOnly[i] \in Markers /\ getOnly' = [getOnly EXCEPT ![i] = getOnly[i]]
      /\ recovery[i] \in Markers /\ recovery' = [recovery EXCEPT ![i] = recovery[i]]
      /\ stops' \in 0..MaxStops
  BY <1>1, <1>2 DEF LifecycleTypes, Lifecycle!files
<1> QED BY <1>1, <1>3, GoneKept DEF Lifecycle!files

LEMMA StopKept ==
  ASSUME Lifecycle!LifecycleAssumption, LifecycleInv, NEW k \in Procs, Lifecycle!Stop(k)
  PROVE  Kept(k)
<1> DEFINE i == proc[k].of
           tearsGetOnly == Lifecycle!At(k, "reserve") /\ Lifecycle!MayReserve(k) /\ ~getOnly[i].there
           tearsRecovery == Lifecycle!At(k, "fence") /\ Lifecycle!Fences(k) /\ Lifecycle!MayFence(k)
<1>1. /\ ~Lifecycle!At(k, "start") /\ Lifecycle!Goes(k, "gone")
      /\ UNCHANGED <<receipt, Lifecycle!net, Lifecycle!history>>
      /\ lock' = [lock EXCEPT ![i] = IF @ = k THEN Nobody ELSE @]
      /\ stops < MaxStops /\ stops' = stops + 1
  BY DEF Lifecycle!Stop
<1>2. PICK g \in {getOnly[i]} \cup (IF tearsGetOnly THEN {Lifecycle!Torn} ELSE {}),
           f \in {recovery[i]} \cup (IF tearsRecovery THEN {Lifecycle!Torn} ELSE {}) :
        getOnly' = [getOnly EXCEPT ![i] = g] /\ recovery' = [recovery EXCEPT ![i] = f]
  BY DEF Lifecycle!Stop
<1>3. i \in Lifecycle!Intents /\ LifecycleTypes /\ HeldBy(k) /\ StageOK(k)
  BY <1>1 DEF LifecycleInv, StageOK, Held, Lifecycle!At
<1>4. /\ g \in Markers /\ (getOnly[i].there => g.there)
  <2>1. Lifecycle!Torn \in Markers /\ Lifecycle!Torn.there
    BY DEF Lifecycle!Torn, Markers
  <2> QED BY <1>2, <1>3, <2>1 DEF LifecycleTypes
<1>5. /\ f \in Markers
      /\ f = recovery[i] \/ (lock[i] = k /\ receipt[i].phase # "dispatch_started")
  <2>1. Lifecycle!Torn \in Markers
    BY DEF Lifecycle!Torn, Markers
  <2>2. tearsRecovery => lock[i] = k /\ receipt[i].phase = "prepared"
    BY <1>3 DEF HeldBy, StageOK, Lifecycle!Fences, Lifecycle!At, Locked, Reserving
  <2> QED BY <1>2, <1>3, <2>1, <2>2 DEF LifecycleTypes
<1>6. stops' \in 0..MaxStops
  BY <1>1, <1>3, Lifecycle!LifecycleAssumption DEF LifecycleTypes, Lifecycle!LifecycleAssumption
<1> QED BY <1>1, <1>2, <1>4, <1>5, <1>6, GoneKept
-----------------------------------------------------------------------------
(* The steps of the service  *)

\* How an operation ended, it stays.
LEMMA EffectStays ==
  ASSUME NEW what \in {"prepare", "action", "status", "cancel"}, NEW state \in OperationStates
  PROVE  /\ Lifecycle!Effect(what, state) \subseteq OperationStates
         /\ state \in Lifecycle!Terminal => Lifecycle!Effect(what, state) = {state}
<1>1. CASE what = "prepare" /\ state = "none"
  BY <1>1 DEF Lifecycle!Effect, OperationStates, Lifecycle!Results, Lifecycle!Terminal
<1>2. CASE what = "action" /\ state = "prepared"
  BY <1>2 DEF Lifecycle!Effect, OperationStates, Lifecycle!Results, Lifecycle!Terminal
<1>3. CASE what = "cancel" /\ state \in {"prepared", "queued"}
  BY <1>3 DEF Lifecycle!Effect, OperationStates, Lifecycle!Results, Lifecycle!Terminal
<1>4. CASE /\ ~(what = "prepare" /\ state = "none") /\ ~(what = "action" /\ state = "prepared")
           /\ ~(what = "cancel" /\ state \in {"prepared", "queued"})
  BY <1>4 DEF Lifecycle!Effect
<1> QED BY <1>1, <1>2, <1>3, <1>4

\* A new state of one operation, which had none that is final, or the same.
LEMMA ServerSteps ==
  ASSUME Lifecycle!LifecycleAssumption, LifecycleInv, NEW i \in Lifecycle!Intents,
         NEW state \in OperationStates,
         server' = [server EXCEPT ![i] = state], server[i] \in Lifecycle!Terminal => state = server[i],
         UNCHANGED <<Lifecycle!files, lock, proc, Lifecycle!history, stops>>,
         answer' \in [Procs -> OperationStates], wire' \subseteq wire,
         \A k \in Procs : \/ answer'[k] = answer[k]
                          \/ /\ answer'[k] = state /\ proc[k].of = i /\ proc[k].at \notin Recording
                             /\ proc[k].at # "start" /\ \A m \in wire' : m.from # k
  PROVE  LifecycleInv'
<1> USE DEF Lifecycle!files, Lifecycle!history
<1>1. LifecycleTypes /\ server' \in [Lifecycle!Intents -> OperationStates] /\ server'[i] = state
      /\ \A j \in Lifecycle!Intents : j # i => server'[j] = server[j]
  BY DEF LifecycleInv, LifecycleTypes
<1>2. \A j \in Lifecycle!Intents : server[j] \in Lifecycle!Terminal => server'[j] = server[j]
  BY <1>1
<1>3. LifecycleTypes'
  BY <1>1 DEF LifecycleTypes
<1>4. ASSUME NEW k \in Procs PROVE StageOK(k)'
  <2>1. StageOK(k)
    BY DEF LifecycleInv
  <2>2. proc[k].at \in Recording => answer'[k] = answer[k]
    OBVIOUS
  <2>3. proc[k].at \in Recording => (Lifecycle!Completes(k)' <=> Lifecycle!Completes(k))
    BY <2>2 DEF Lifecycle!Completes
  <2> QED BY <2>1, <2>3 DEF StageOK
<1>5. Held'
  BY DEF LifecycleInv, Held, HeldBy, Lifecycle!At, Lifecycle!Fences
<1>6. ASSUME NEW k \in Procs PROVE MailedTo(k)'
  <2>1. MailedTo(k) /\ StageOK(k)
    BY DEF LifecycleInv, Mailed
  <2>2. CASE answer'[k] = answer[k]
    <3>1. answer[k] \in Lifecycle!Terminal => server'[proc[k].of] = answer[k]
      <4>1. answer[k] \in Lifecycle!Terminal => proc[k].of \in Lifecycle!Intents
        BY <2>1 DEF MailedTo, StageOK, Lifecycle!At, Lifecycle!Terminal
      <4> QED BY <1>2, <2>1, <4>1 DEF MailedTo
    <3> QED BY <2>1, <2>2, <3>1 DEF MailedTo, Lifecycle!At
  <2>3. CASE /\ answer'[k] = state /\ proc[k].of = i /\ proc[k].at \notin Recording
             /\ proc[k].at # "start" /\ \A m \in wire' : m.from # k
    BY <1>1, <2>1, <2>3 DEF MailedTo, Lifecycle!At
  <2> QED BY <2>2, <2>3
<1>7. OnDisk'
  <2> SUFFICES ASSUME NEW j \in Lifecycle!Intents PROVE TrueOf(j)' /\ FencedFor(j)'
    BY DEF OnDisk
  <2>1. TrueOf(j) /\ FencedFor(j)
    BY DEF LifecycleInv, OnDisk
  <2>2. "completed" \in Lifecycle!Terminal
    BY DEF Lifecycle!Terminal
  <2> QED BY <1>2, <2>1, <2>2 DEF TrueOf, FencedFor
<1>8. LifecycleBanned'
  BY DEF LifecycleInv, LifecycleBanned, BannedBy, Bans
<1>9. OneBan'
  BY DEF LifecycleInv, OneBan, Bans
<1>10. OpenBanned'
  BY DEF LifecycleInv, OpenBanned
<1> QED BY <1>3, <1>4, <1>5, <1>6, <1>7, <1>8, <1>9, <1>10 DEF LifecycleInv, Mailed

LEMMA ServeKeeps ==
  ASSUME Lifecycle!LifecycleAssumption, LifecycleInv, NEW m \in wire, Lifecycle!Serve(m)
  PROVE  LifecycleInv'
<1> DEFINE k == m.from
           i == proc[k].of
<1>1. /\ LifecycleTypes /\ m \in LifecycleMessages /\ k \in Procs
      /\ m.what \in {"prepare", "action", "status", "cancel"}
  BY DEF LifecycleInv, LifecycleTypes, LifecycleMessages
<1>2. StageOK(k) /\ MailedTo(k)
  BY <1>1 DEF LifecycleInv, Mailed
<1>3. proc[k].at \in {"prepared", "unknown", "wait", "gone"} /\ i \in Lifecycle!Intents
  BY <1>2 DEF MailedTo, StageOK
<1>4. PICK state \in Lifecycle!Effect(m.what, server[i]) :
        server' = [server EXCEPT ![i] = state] /\ answer' = [answer EXCEPT ![k] = state]
  BY DEF Lifecycle!Serve
<1>5. wire' = wire \ {m} /\ UNCHANGED <<Lifecycle!files, lock, proc, Lifecycle!history, stops>>
  BY DEF Lifecycle!Serve
<1>6. server[i] \in OperationStates
  BY <1>1, <1>3 DEF LifecycleTypes
<1>7. state \in OperationStates /\ (server[i] \in Lifecycle!Terminal => state = server[i])
  BY <1>1, <1>4, <1>6, EffectStays
<1>8. answer' \in [Procs -> OperationStates] /\ answer'[k] = state
      /\ \A j \in Procs : j # k => answer'[j] = answer[j]
  BY <1>1, <1>4, <1>7 DEF LifecycleTypes
<1>9. \A n \in wire' : n.from # k
  BY <1>2, <1>5 DEF MailedTo
<1>10. \A j \in Procs : \/ answer'[j] = answer[j]
                        \/ /\ answer'[j] = state /\ proc[j].of = i /\ proc[j].at \notin Recording
                           /\ proc[j].at # "start" /\ \A n \in wire' : n.from # j
  BY <1>3, <1>8, <1>9 DEF Recording
<1> QED BY <1>3, <1>4, <1>5, <1>7, <1>8, <1>10, ServerSteps

LEMMA ProgressKeeps ==
  ASSUME Lifecycle!LifecycleAssumption, LifecycleInv, NEW i \in Lifecycle!Intents, Lifecycle!Progress(i)
  PROVE  LifecycleInv'
<1>1. PICK state \in {"rejected", "spawned", "completed"} : server' = [server EXCEPT ![i] = state]
  BY DEF Lifecycle!Progress
<1>2. state \in OperationStates /\ server[i] \notin Lifecycle!Terminal
  BY DEF Lifecycle!Progress, OperationStates, Lifecycle!Results, Lifecycle!Terminal
<1>3. UNCHANGED <<Lifecycle!files, lock, proc, wire, answer, Lifecycle!history, stops>> /\ answer \in [Procs -> OperationStates]
  BY DEF Lifecycle!Progress, LifecycleInv, LifecycleTypes
<1> QED BY <1>1, <1>2, <1>3, ServerSteps
-----------------------------------------------------------------------------
(* The invariant and what it says  *)

LEMMA ProcessKeeps ==
  ASSUME Lifecycle!LifecycleAssumption, LifecycleInv, NEW k \in Procs,
         Lifecycle!Command(k) \/ Lifecycle!StoreStep(k)
  PROVE  Kept(k)
<1>1. CASE \E i \in Lifecycle!Intents : Lifecycle!StartAction(k, i)
  BY <1>1, StartActionKept
<1>2. CASE \E i \in Lifecycle!Intents, cmd \in {"status", "cancel"} : Lifecycle!StartRecovery(k, i, cmd)
  BY <1>2, StartRecoveryKept
<1>3. CASE Lifecycle!CreateReceipt(k)
  BY <1>3, CreateReceiptKept
<1>4. CASE Lifecycle!BeginPrepare(k)
  BY <1>4, BeginPrepareKept
<1>5. CASE Lifecycle!Bind(k)
  BY <1>5, BindKept
<1>6. CASE Lifecycle!PrepareUnknown(k)
  BY <1>6, PrepareUnknownKept
<1>7. CASE Lifecycle!CancelAllowed(k)
  BY <1>7, CancelAllowedKept
<1>8. CASE Lifecycle!Post(k)
  BY <1>8, PostKept
<1>9. CASE Lifecycle!Receive(k)
  BY <1>9, ReceiveKept
<1>10. CASE Lifecycle!Lost(k)
  BY <1>10, LostKept
<1>11. CASE Lifecycle!ReserveGetOnly(k)
  BY <1>11, ReserveGetOnlyKept
<1>12. CASE Lifecycle!ReserveRecovery(k)
  BY <1>12, ReserveRecoveryKept
<1>13. CASE Lifecycle!ReserveReceipt(k)
  BY <1>13, ReserveReceiptKept
<1>14. CASE Lifecycle!Observe(k)
  BY <1>14, ObserveKept
<1>15. CASE Lifecycle!RemoveGetOnly(k)
  BY <1>15, RemoveGetOnlyKept
<1>16. CASE Lifecycle!RemoveRecovery(k)
  BY <1>16, RemoveRecoveryKept
<1>17. CASE Lifecycle!Refused(k)
  BY <1>17, RefusedKept
<1>18. CASE Lifecycle!Stop(k)
  BY <1>18, StopKept
<1> QED BY <1>1, <1>2, <1>3, <1>4, <1>5, <1>6, <1>7, <1>8, <1>9, <1>10, <1>11, <1>12, <1>13,
           <1>14, <1>15, <1>16, <1>17, <1>18 DEF Lifecycle!Command, Lifecycle!StoreStep

LEMMA LifecycleStep ==
  ASSUME Lifecycle!LifecycleAssumption, LifecycleInv, [Lifecycle!Next]_(Lifecycle!vars)
  PROVE  LifecycleInv'
<1>1. CASE \E k \in Procs : Lifecycle!Command(k) \/ Lifecycle!StoreStep(k)
  BY <1>1, ProcessKeeps, FromKept
<1>2. CASE \E m \in wire : Lifecycle!Serve(m)
  BY <1>2, ServeKeeps
<1>3. CASE \E i \in Lifecycle!Intents : Lifecycle!Progress(i)
  BY <1>3, ProgressKeeps
<1>4. CASE UNCHANGED Lifecycle!vars
  <2> USE <1>4 DEF Lifecycle!vars, Lifecycle!files, Lifecycle!net, Lifecycle!history
  <2>1. LifecycleTypes' /\ \A k \in Procs : StageOK(k)'
    BY DEF LifecycleInv, LifecycleTypes, StageOK, Lifecycle!Completes
  <2>2. Held' /\ Mailed'
    BY DEF LifecycleInv, Held, HeldBy, Mailed, MailedTo, Lifecycle!At, Lifecycle!Fences
  <2>3. OnDisk'
    BY DEF LifecycleInv, OnDisk, TrueOf, FencedFor
  <2>4. LifecycleBanned'
    BY DEF LifecycleInv, LifecycleBanned, BannedBy, Bans
  <2>5. OneBan' /\ OpenBanned'
    BY DEF LifecycleInv, OneBan, OpenBanned, Bans
  <2> QED BY <2>1, <2>2, <2>3, <2>4, <2>5 DEF LifecycleInv
<1> QED BY <1>1, <1>2, <1>3, <1>4 DEF Lifecycle!Next

LEMMA LifecycleAlways == ASSUME Lifecycle!LifecycleAssumption PROVE Lifecycle!Spec => []LifecycleInv
<1>1. Lifecycle!Init => LifecycleInv
  BY InitLifecycle
<1>2. LifecycleInv /\ [Lifecycle!Next]_(Lifecycle!vars) => LifecycleInv'
  BY LifecycleStep
<1> QED BY <1>1, <1>2, PTL DEF Lifecycle!Spec

\* Receipts satisfy what validate demands, and whoever is between two writes has the lock of
\* the intent it works on: between the markers of reserve, or between the parts of observe.
THEOREM LifecycleTyping ==
  ASSUME Lifecycle!LifecycleAssumption
  PROVE Lifecycle!Spec => []Lifecycle!LifecycleTypeOK
<1>1. LifecycleInv => Lifecycle!LifecycleTypeOK
  <2> SUFFICES ASSUME LifecycleInv PROVE Lifecycle!LifecycleTypeOK
    OBVIOUS
  <2>1. \A i \in Lifecycle!Intents : receipt[i] # None => Lifecycle!ReceiptOK(i, receipt[i])
    BY DEF LifecycleInv, OnDisk, TrueOf
  <2>2. \A i \in Lifecycle!Intents : lock[i] \in Procs =>
          proc[lock[i]].of = i /\ proc[lock[i]].at \in {"fence", "commit", "unban", "unfence"}
    BY DEF LifecycleInv, Held, Locked, Reserving, Recording, Lifecycle!LifecycleAssumption
  <2>3. wire \subseteq LifecycleMessages /\ (\A k \in Procs : answer[k] \in OperationStates) /\ stops \in 0..MaxStops
    BY DEF LifecycleInv, LifecycleTypes
  <2> QED BY <2>1, <2>2, <2>3 DEF Lifecycle!LifecycleTypeOK, LifecycleMessages, OperationStates
<1> QED BY <1>1, LifecycleAlways, PTL

\* observe never records a guess: a terminal receipt is the service's own outcome, and the
\* proof of a creation is there only if the resource is; a creation that was dispatched can
\* be asked about until its result is on disk, in whatever step a process dies.
THEOREM LifecycleIsSafe ==
  ASSUME Lifecycle!LifecycleAssumption
  PROVE Lifecycle!Spec => []Lifecycle!LifecycleSafe
<1>1. LifecycleInv => Lifecycle!LifecycleSafe
  BY DEF LifecycleInv, OnDisk, TrueOf, FencedFor, Lifecycle!LifecycleSafe, Lifecycle!ReceiptHonest,
     Lifecycle!ResultRecoverable, Lifecycle!Intents
<1> QED BY <1>1, LifecycleAlways, PTL
-----------------------------------------------------------------------------
(* What a step may never do  *)

LEMMA ResultKept ==
  ASSUME Lifecycle!LifecycleAssumption, LifecycleInv, [Lifecycle!Next]_(Lifecycle!vars)
  PROVE  Lifecycle!KeepsResult
<1> SUFFICES ASSUME NEW i \in Lifecycle!Intents, receipt[i] # None, receipt[i].phase = "terminal_observed"
             PROVE  receipt'[i].phase = "terminal_observed" /\ receipt'[i].proof = receipt[i].proof
  BY DEF Lifecycle!KeepsResult
<1>1. receipt \in [Lifecycle!Intents -> Lifecycle!Receipts \cup {None}] /\ TrueOf(i) /\ receipt[i] \in Lifecycle!Receipts
  BY DEF LifecycleInv, LifecycleTypes, OnDisk
<1>2. CASE receipt' = receipt
  BY <1>2
<1>3. ASSUME NEW k \in Procs, Lifecycle!CreateReceipt(k)
      PROVE  receipt'[i] = receipt[i]
  BY <1>1, <1>3 DEF Lifecycle!CreateReceipt, Lifecycle!Replace
<1>4. ASSUME NEW k \in Procs, NEW from \in {"begin", "bind", "unknown"}, NEW phase, NEW to,
             Lifecycle!Transition(k, from, phase, to)
      PROVE  receipt'[i] = receipt[i]
  <2>1. receipt[proc[k].of] = proc[k].seen /\ proc[k].at = from /\ StageOK(k)
    BY <1>4 DEF Lifecycle!Transition, Lifecycle!Current, Lifecycle!At, LifecycleInv
  <2>2. proc[k].of # i
    BY <2>1 DEF StageOK, Preparing
  <2> QED BY <1>1, <1>4, <2>2 DEF Lifecycle!Transition, Lifecycle!Replace
<1>5. ASSUME NEW k \in Procs, Lifecycle!ReserveReceipt(k), proc[k].of = i
      PROVE  receipt'[i].phase = "terminal_observed" /\ receipt'[i].proof = receipt[i].proof
  <2>1. StageOK(k) /\ HeldBy(k) /\ proc[k].at = "commit"
    BY <1>5 DEF LifecycleInv, Held, Lifecycle!ReserveReceipt, Lifecycle!At
  <2>2. receipt[i] = proc[k].seen /\ proc[k].cmd # "action"
    BY <1>5, <2>1 DEF StageOK, HeldBy, Locked, Reserving
  <2>3. receipt'[i] = Lifecycle!Bumped(proc[k].seen, proc[k].seen.phase) /\ proc[k].seen.phase \in Lifecycle!Phases
    BY <1>1, <1>5, <2>2 DEF Lifecycle!ReserveReceipt, Lifecycle!Replace, Lifecycle!Receipts
  <2> QED BY <1>1, <2>2, <2>3, BumpedFields
<1>6. ASSUME NEW k \in Procs, Lifecycle!Observe(k), proc[k].of = i
      PROVE  receipt'[i].phase = "terminal_observed" /\ receipt'[i].proof = receipt[i].proof
  <2>1. receipt[i] = proc[k].seen /\ receipt'[i] = Lifecycle!Observed(k) /\ MailedTo(k)
    BY <1>1, <1>6 DEF Lifecycle!Observe, Lifecycle!MayObserve, Lifecycle!Current, Lifecycle!Replace,
       LifecycleInv, Mailed
  <2>2. Lifecycle!Completes(k) => i \in Creates /\ server[i] = "completed"
    BY <1>6, <2>1 DEF Lifecycle!Completes, MailedTo, Lifecycle!Terminal
  <2>3. Lifecycle!Completes(k) => receipt[i].proof
    BY SMTT(40), <1>1, <2>2 DEF TrueOf
  <2> QED BY <1>1, <2>1, <2>3, ObservedFields DEF Lifecycle!Receipts
<1>7. ASSUME NEW k \in Procs, Lifecycle!ReserveReceipt(k) \/ Lifecycle!Observe(k), proc[k].of # i
      PROVE  receipt'[i] = receipt[i]
  BY SMTT(40), <1>1, <1>7 DEF Lifecycle!ReserveReceipt, Lifecycle!Observe, Lifecycle!Replace
<1>8. CASE \E k \in Procs : Lifecycle!Command(k)
  BY ZenonT(40), <1>3, <1>4, <1>8
     DEF Lifecycle!Command, Lifecycle!StartAction, Lifecycle!StartRecovery, Lifecycle!BeginPrepare,
         Lifecycle!Bind, Lifecycle!PrepareUnknown, Lifecycle!CancelAllowed,
         Lifecycle!Post, Lifecycle!Receive, Lifecycle!Lost, Lifecycle!files
<1>9. CASE \E k \in Procs : Lifecycle!StoreStep(k)
  BY <1>5, <1>6, <1>7, <1>9
     DEF Lifecycle!StoreStep, Lifecycle!ReserveGetOnly, Lifecycle!ReserveRecovery,
         Lifecycle!RemoveGetOnly, Lifecycle!RemoveRecovery, Lifecycle!Refused, Lifecycle!Stop,
         Lifecycle!files
<1>10. CASE \/ \E m \in wire : Lifecycle!Serve(m)
            \/ \E j \in Lifecycle!Intents : Lifecycle!Progress(j)
            \/ UNCHANGED Lifecycle!vars
  BY <1>10 DEF Lifecycle!Serve, Lifecycle!Progress, Lifecycle!vars, Lifecycle!files
<1> QED BY <1>8, <1>9, <1>10 DEF Lifecycle!Next

\* transition and observe compare before they write: a result, once on disk, is never
\* replaced by another, so the authority a dependent process took from it stands.
THEOREM LifecycleResultIsKept ==
  ASSUME Lifecycle!LifecycleAssumption
  PROVE Lifecycle!Spec => [][Lifecycle!KeepsResult]_(Lifecycle!vars)
<1>1. LifecycleInv /\ [Lifecycle!Next]_(Lifecycle!vars) => [Lifecycle!KeepsResult]_(Lifecycle!vars)
  BY ResultKept
<1> QED BY <1>1, LifecycleAlways, PTL DEF Lifecycle!Spec

\* A step sends a request with an effect only when none is unaccounted for, and accounts
\* for one at a time.
LEMMA ContractStep ==
  ASSUME Lifecycle!LifecycleAssumption, LifecycleInv, [Lifecycle!Next]_(Lifecycle!vars)
  PROVE  [Lifecycle!Contract!Next]_(Lifecycle!Contract!vars)
<1>1. Lifecycle!Cardinality({}) = 0 /\ \A k : Lifecycle!Cardinality({k}) = 1
  BY FS_EmptySet, FS_Singleton, SameCardinality
<1>2. open \in [Lifecycle!Intents -> SUBSET Procs]
  BY DEF LifecycleInv, LifecycleTypes
<1>3. ASSUME NEW k \in Procs, Lifecycle!Post(k), Lifecycle!Mutates(k)
      PROVE  \E i \in Lifecycle!Intents : Lifecycle!Contract!Send(i)
  <2>1. proc[k].of \in Lifecycle!Intents /\ open[proc[k].of] = {}
    BY <1>3 DEF Lifecycle!Mutates, Lifecycle!At, LifecycleInv, LifecycleBanned, BannedBy, Bans, StageOK
  <2>2. /\ open' = [open EXCEPT ![proc[k].of] = {k}]
        /\ sent' = [sent EXCEPT ![proc[k].of] = @ + 1]
    BY <1>3, <2>1 DEF Lifecycle!Post
  <2>3. Lifecycle!Contract!Send(proc[k].of)
    BY <1>1, <1>2, <2>1, <2>2 DEF Lifecycle!Contract!Send
  <2> QED BY <2>1, <2>3
<1>4. ASSUME NEW k \in Procs, Lifecycle!Post(k), ~Lifecycle!Mutates(k)
      PROVE  UNCHANGED <<open, sent>>
  <2>1. proc[k].of \in Lifecycle!Intents
    BY <1>4 DEF Lifecycle!Post, Lifecycle!At, LifecycleInv, StageOK
  <2> QED BY <1>2, <1>4, <2>1 DEF Lifecycle!Post, LifecycleInv, LifecycleTypes
<1>5. ASSUME NEW k \in Procs, Lifecycle!RemoveGetOnly(k), k \in open[proc[k].of]
      PROVE  \E i \in Lifecycle!Intents : Lifecycle!Contract!Account(i)
  <2>1. proc[k].of \in Lifecycle!Intents
    BY <1>5 DEF Lifecycle!RemoveGetOnly, Lifecycle!At, LifecycleInv, StageOK
  <2>2. open[proc[k].of] = {k}
    BY <1>2, <1>5, <2>1 DEF LifecycleInv, OpenBanned
  <2>3. open' = [open EXCEPT ![proc[k].of] = {}] /\ sent' = sent
    BY ZenonT(40), <1>5, <2>2 DEF Lifecycle!RemoveGetOnly
  <2>4. Lifecycle!Contract!Account(proc[k].of)
    BY ZenonT(40), <1>1, <1>2, <2>1, <2>2, <2>3 DEF Lifecycle!Contract!Account
  <2> QED BY <2>1, <2>4
<1>6. ASSUME NEW k \in Procs, Lifecycle!RemoveGetOnly(k), k \notin open[proc[k].of]
      PROVE  UNCHANGED <<open, sent>>
  <2>1. open' = [open EXCEPT ![proc[k].of] = @ \ {k}] /\ sent' = sent
    BY <1>6 DEF Lifecycle!RemoveGetOnly
  <2>2. open[proc[k].of] \ {k} = open[proc[k].of]
    BY <1>6
  <2> QED BY <1>2, <2>1, <2>2
<1>7. UNCHANGED <<open, sent>> => UNCHANGED Lifecycle!Contract!vars
  BY DEF Lifecycle!Contract!vars
<1>8. CASE \E k \in Procs : Lifecycle!Command(k)
  BY ZenonT(40), <1>3, <1>4, <1>7, <1>8
     DEF Lifecycle!Command, Lifecycle!StartAction, Lifecycle!StartRecovery, Lifecycle!CreateReceipt,
         Lifecycle!BeginPrepare, Lifecycle!Bind, Lifecycle!PrepareUnknown,
         Lifecycle!Transition, Lifecycle!CancelAllowed, Lifecycle!Receive, Lifecycle!Lost,
         Lifecycle!history, Lifecycle!Contract!Next
<1>9. CASE \E k \in Procs : Lifecycle!StoreStep(k)
  BY <1>5, <1>6, <1>7, <1>9
     DEF Lifecycle!StoreStep, Lifecycle!ReserveGetOnly, Lifecycle!ReserveRecovery,
         Lifecycle!ReserveReceipt, Lifecycle!Observe, Lifecycle!RemoveRecovery, Lifecycle!Refused,
         Lifecycle!Stop, Lifecycle!history, Lifecycle!Contract!Next
<1>10. CASE \/ \E m \in wire : Lifecycle!Serve(m)
            \/ \E j \in Lifecycle!Intents : Lifecycle!Progress(j)
            \/ UNCHANGED Lifecycle!vars
  BY <1>7, <1>10 DEF Lifecycle!Serve, Lifecycle!Progress, Lifecycle!vars, Lifecycle!history
<1> QED BY <1>8, <1>9, <1>10 DEF Lifecycle!Next

\* "A lost action is never replayed": a POST with an effect leaves only when every earlier
\* one of its intent is accounted for, whoever died or gave up in between.
THEOREM LifecycleIsNeverReplayed ==
  ASSUME Lifecycle!LifecycleAssumption
  PROVE Lifecycle!Spec => Lifecycle!NoReplay
<1>1. Lifecycle!Init => Lifecycle!Contract!Init
  <2>1. Lifecycle!Cardinality({}) = 0
    BY FS_EmptySet, SameCardinality
  <2> QED BY <2>1 DEF Lifecycle!Init, Lifecycle!Contract!Init
<1>2. LifecycleInv /\ [Lifecycle!Next]_(Lifecycle!vars) => [Lifecycle!Contract!Next]_(Lifecycle!Contract!vars)
  BY ContractStep
<1> QED BY <1>1, <1>2, LifecycleAlways, PTL DEF Lifecycle!Spec, Lifecycle!NoReplay,
   Lifecycle!Contract!Spec
=============================================================================
