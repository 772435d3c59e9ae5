-------------------------- MODULE HerdrAgentRequest --------------------------
(***************************************************************************)
(* One-key requests to an agent's user interface                           *)
(* (bin/harness_herdr_agent_ui_request.py,                                 *)
(* bin/harness_herdr_agent_ui_receipt.py).                                 *)
(*                                                                         *)
(* A request creates its receipt, prepares a workflow and dispatches it;   *)
(* status and cancel are processes of their own.  Creating a receipt first *)
(* removes the expired ones of all intents, under a capacity lock but not  *)
(* under the locks of those intents.                                       *)
(***************************************************************************)
EXTENDS Naturals, FiniteSets

CONSTANTS Intents, Procs,
          Runs,        \* bound: which commands on which intents each process may run
          Nobody,      \* a lock that is free
          None,        \* no receipt, no answer
          MaxRecords,  \* MAX_RECORDS
          MaxMishaps   \* bound: receipts that grow older than RETAIN_MS and processes that die

VARIABLES
  receipt,   \* the receipt file of each intent
  old,       \* receipts whose stamp is older than RETAIN_MS
  lock,      \* holder of each intent's lock file
  capacity,  \* holder of the capacity lock
  proc,      \* program counter and locals of each process
  wire,      \* requests that may still reach the service
  answer,    \* what the service answered each process
  server,    \* the workflow as the service has it
  open,      \* requests with an effect whose answer is not on record (history only)
  sent,      \* requests with an effect (history only)
  aged,      \* intents that were ever old (history only)
  stops

store == <<receipt, old>>
locks == <<lock, capacity>>
net == <<wire, answer, server>>
history == <<open, sent>>
vars == <<store, locks, proc, net, history, aged, stops>>

Ended == {"completed", "cancelled", "stopped"}
Stamped == Ended \cup {"unknown"}
Phases == Stamped \cup {"intent_durable", "prepare_started", "prepared", "dispatch_started",
                        "awaiting_operation", "cancel_started"}
Idle == [at |-> "start", cmd |-> "none", of |-> None, seen |-> None, expired |-> {}]
FreshUnnamed == [rev |-> 0, phase |-> "created", learned |-> FALSE]
Fresh == [rev |-> 0, phase |-> "intent_durable", learned |-> FALSE]

Init ==
  /\ receipt = [i \in Intents |-> None] /\ old = {} /\ aged = {} /\ stops = 0
  /\ lock = [i \in Intents |-> Nobody] /\ capacity = Nobody
  /\ proc = [k \in Procs |-> Idle]
  /\ wire = {} /\ answer = [k \in Procs |-> None] /\ server = [i \in Intents |-> "none"]
  /\ open = [c \in Intents \X {"dispatch", "cancel"} |-> {}]
  /\ sent = [c \in Intents \X {"dispatch", "cancel"} |-> 0]

At(k, step) == proc[k].at = step
Goes(k, step) == proc' = [proc EXCEPT ![k].at = step]
\* The locals of a process that has ended are forgotten.
Gone(k) == [Idle EXCEPT !.at = "gone", !.cmd = proc[k].cmd, !.of = proc[k].of]
Ends(k) == proc' = [proc EXCEPT ![k] = Gone(k)]
Present == {i \in Intents : receipt[i] # None}
Mishaps == Cardinality(aged) + stops

\* Time passes: the stamp of a receipt grows old.
Age(i) ==
  /\ receipt[i] # None /\ i \notin old /\ (i \in aged \/ Mishaps < MaxMishaps)
  /\ old' = old \cup {i} /\ aged' = aged \cup {i}
  /\ UNCHANGED <<receipt, locks, proc, net, history, stops>>

-----------------------------------------------------------------------------
(* create and _prune, under the new intent's own lock and the capacity lock.  *)

Begin(k, i) ==
  /\ At(k, "start") /\ <<"request", i>> \in Runs[k] /\ lock[i] = Nobody
  /\ \A j \in Procs : proc[j].of = i => proc[j].cmd # "request"
  /\ lock' = [lock EXCEPT ![i] = k]
  /\ proc' = [proc EXCEPT ![k] = [Idle EXCEPT !.at = "survey", !.cmd = "request", !.of = i]]
  /\ UNCHANGED <<store, capacity, net, history, aged, stops>>

\* _prune reads every receipt and refuses when too many are to be kept.
ExpiredTerminal == {i \in Present : i \in old \/ receipt[i].phase \in Stamped \cup {"awaiting_operation"}}
Expired == Present \cap old
Survey(k) ==
  /\ At(k, "survey") /\ capacity = Nobody
  /\ IF Cardinality(Present \ Expired) >= MaxRecords
     THEN /\ Ends(k) /\ UNCHANGED capacity
          /\ lock' = [lock EXCEPT ![proc[k].of] = Nobody]
     ELSE /\ proc' = [proc EXCEPT ![k].at = "prune", ![k].expired = Expired]
          /\ capacity' = k /\ UNCHANGED lock
  /\ UNCHANGED <<store, net, history, aged, stops>>

\* Then it unlinks what it found expired, and create writes the new receipt.
Prune(k) ==
  /\ At(k, "prune")
  /\ LET i == proc[k].of IN
     /\ receipt' = [j \in Intents |-> IF j = i THEN Fresh
                                      ELSE IF j \in proc[k].expired THEN None ELSE receipt[j]]
     /\ lock' = [lock EXCEPT ![i] = Nobody]
     /\ proc' = [proc EXCEPT ![k].at = "begin", ![k].seen = Fresh]
  /\ old' = old \ proc[k].expired /\ capacity' = Nobody
  /\ UNCHANGED <<net, history, aged, stops>>

-----------------------------------------------------------------------------
(* transition: the comparison and the replacement, under the intent's lock.  *)

\* The phase a transition is about to record, and the step that follows it.
Outcome(k) == IF answer[k] \in Ended THEN answer[k] ELSE "awaiting_operation"
AfterStatus(k) == IF proc[k].seen.phase = "cancel_started" THEN "cancel_started" ELSE Outcome(k)
Target(k) ==
  CASE At(k, "begin") -> "prepare_started"
    [] At(k, "prepared") -> "prepared"
    [] At(k, "failed") -> "unknown"
    [] At(k, "reserve") -> "dispatch_started"
    [] At(k, "lost") -> "dispatch_started"
    [] At(k, "mark") -> "cancel_started"
    [] At(k, "done") /\ proc[k].cmd = "request" -> Outcome(k)
    [] At(k, "done") /\ proc[k].cmd = "status" -> AfterStatus(k)
    [] OTHER -> IF answer[k] \in Ended THEN answer[k] ELSE "cancel_started"
Then(k) ==
  CASE At(k, "begin") -> "prepare"
    [] At(k, "prepared") -> "reserve"
    [] At(k, "reserve") \/ At(k, "mark") -> "post"
    [] OTHER -> "gone"
Transits == {"begin", "prepared", "failed", "reserve", "lost", "mark", "done"}

SameUnread(k) == receipt[proc[k].of] # None
Same(k) == receipt[proc[k].of] = proc[k].seen
Compare(k) ==
  /\ proc[k].at \in Transits /\ lock[proc[k].of] = Nobody /\ Same(k)
  /\ lock' = [lock EXCEPT ![proc[k].of] = k]
  /\ UNCHANGED <<store, capacity, proc, net, history, aged, stops>>
Replace(k) ==
  LET i == proc[k].of
      r == [proc[k].seen EXCEPT !.rev = @ + 1, !.phase = Target(k),
                                !.learned = @ \/ At(k, "prepared")]
      renewed == r.phase \in Stamped /\ proc[k].seen.phase \notin Stamped
  IN
  /\ proc[k].at \in Transits /\ lock[i] = k
  /\ receipt' = [receipt EXCEPT ![i] = r]
  /\ old' = IF renewed THEN old \ {i} ELSE IF i \in aged THEN old \cup {i} ELSE old
  /\ proc' = [proc EXCEPT ![k] = IF Then(k) = "gone" THEN Gone(k)
                                 ELSE [@ EXCEPT !.at = Then(k), !.seen = r]]
  /\ answer' = [answer EXCEPT ![k] = None]
  /\ lock' = [lock EXCEPT ![i] = Nobody]
  /\ open' = IF At(k, "done") /\ proc[k].cmd # "status"
             THEN [open EXCEPT ![<<i, IF proc[k].cmd = "cancel" THEN "cancel" ELSE "dispatch">>] = @ \ {k}]
             ELSE open
  /\ UNCHANGED <<capacity, wire, server, sent, aged, stops>>
Conflict(k) ==
  /\ proc[k].at \in Transits /\ lock[proc[k].of] # k
  /\ lock[proc[k].of] # Nobody \/ ~Same(k)
  /\ Ends(k)
  /\ UNCHANGED <<store, locks, net, history, aged, stops>>

-----------------------------------------------------------------------------
(* The commands.  *)

\* status and cancel need a workflow; a cancel is refused where one may be under way.
MayCancelAgain(r) == r.phase \notin {"prepare_started", "unknown"}
MayCancel(r) == r.phase \notin {"prepare_started", "unknown", "cancel_started"}
StartFollow(k, i, cmd) ==
  /\ At(k, "start") /\ <<cmd, i>> \in Runs[k]
  /\ receipt[i] # None /\ lock[i] = Nobody /\ receipt[i].learned
  /\ cmd = "cancel" => MayCancel(receipt[i])
  /\ proc' = [proc EXCEPT ![k] = [Idle EXCEPT !.cmd = cmd, !.of = i, !.seen = receipt[i],
                                              !.at = IF cmd = "cancel" THEN "mark" ELSE "post"]]
  /\ UNCHANGED <<store, locks, net, history, aged, stops>>

What(k) == IF At(k, "prepare") THEN "prepare"
           ELSE IF proc[k].cmd = "request" THEN "dispatch" ELSE proc[k].cmd
Post(k) ==
  /\ At(k, "prepare") \/ At(k, "post")
  /\ wire' = wire \cup {[from |-> k, what |-> What(k)]}
  /\ answer' = [answer EXCEPT ![k] = None]
  /\ Goes(k, IF At(k, "prepare") THEN "await" ELSE "wait")
  /\ LET c == <<proc[k].of, What(k)>> IN
     IF What(k) \in {"dispatch", "cancel"}
     THEN open' = [open EXCEPT ![c] = @ \cup {k}] /\ sent' = [sent EXCEPT ![c] = @ + 1]
     ELSE UNCHANGED history
  /\ UNCHANGED <<store, locks, server, aged, stops>>
Receive(k) ==
  /\ answer[k] # None
  /\ \/ At(k, "await") /\ Goes(k, "prepared")
     \/ At(k, "wait") /\ Goes(k, "done")
  /\ UNCHANGED <<store, locks, net, history, aged, stops>>
Lost(k) ==
  /\ \/ At(k, "await") /\ Goes(k, "failed")
     \/ At(k, "wait") /\ proc[k].cmd = "request" /\ Goes(k, "lost")
     \/ At(k, "wait") /\ proc[k].cmd # "request" /\ Ends(k)
  /\ UNCHANGED <<store, locks, net, history, aged, stops>>

\* Death at any step gives the locks back.
Stop(k) ==
  /\ proc[k].at \notin {"start", "gone"} /\ Mishaps < MaxMishaps /\ Ends(k) /\ stops' = stops + 1
  /\ lock' = [i \in Intents |-> IF lock[i] = k THEN Nobody ELSE lock[i]]
  /\ capacity' = IF capacity = k THEN Nobody ELSE capacity
  /\ UNCHANGED <<store, net, history, aged>>

-----------------------------------------------------------------------------
(* The web service: a workflow takes one dispatch; a cancellation may be too late.  *)

Effect(what, state) ==
  CASE what = "prepare" -> {"prepared"}
    [] what = "dispatch" /\ state = "prepared" -> {"awaiting_operation", "completed"}
    [] what = "cancel" /\ state \in {"prepared", "awaiting_operation"} -> {"cancelled", state}
    [] OTHER -> {state}
Serve(m) ==
  /\ m \in wire /\ wire' = wire \ {m}
  /\ LET i == proc[m.from].of IN
     \E state \in Effect(m.what, server[i]) :
       /\ server' = [server EXCEPT ![i] = state]
       /\ answer' = [answer EXCEPT ![m.from] = IF At(m.from, "gone") THEN None ELSE state]
  /\ UNCHANGED <<store, locks, proc, history, aged, stops>>

Command(k) ==
  \/ \E i \in Intents : Begin(k, i) \/ \E cmd \in {"status", "cancel"} : StartFollow(k, i, cmd)
  \/ Survey(k) \/ Prune(k) \/ Compare(k) \/ Replace(k) \/ Conflict(k)
  \/ Post(k) \/ Receive(k) \/ Lost(k) \/ Stop(k)
Next ==
  \/ \E k \in Procs : Command(k)
  \/ \E m \in wire : Serve(m)
  \/ \E i \in Intents : Age(i)

Spec == Init /\ [][Next]_vars

-----------------------------------------------------------------------------
(* Properties *)

Receipts == [rev : Nat, phase : Phases, learned : BOOLEAN]
States == {"none", "prepared", "awaiting_operation"} \cup Ended

\* What the theorems assume: what a variable may hold instead of a process, an intent, a
\* receipt or an answer is none.
RequestAssumption ==
  Nobody \notin Procs /\ None \notin Intents /\ None \notin Receipts /\ None \notin States

\* Receipts have a phase of PHASES; the locks are held by processes that are between
\* the steps they protect.
AgentRequestTypeOK ==
  /\ \A i \in Present : receipt[i].phase \in Phases /\ receipt[i].rev \in Nat
  /\ \A i \in Intents : lock[i] \in Procs =>
       proc[lock[i]].of = i /\ proc[lock[i]].at \in Transits \cup {"survey", "prune"}
  /\ capacity \in Procs => At(capacity, "prune")
  /\ old \subseteq Intents /\ aged \subseteq Intents

\* docs/herdr-agent-ui-request-cli.md:29-30: a lost dispatch or cancel is never replayed,
\* also when another process has asked for the status meanwhile.
Contract == INSTANCE NoReplay WITH Intents <- Intents \X {"dispatch", "cancel"},
              open <- [c \in Intents \X {"dispatch", "cancel"} |-> Cardinality(open[c])]
NoReplay == Contract!Spec

\* transition compares under the lock: a result that ended the request is not replaced
\* by an older phase, only by the cancellation of a process that has read it.
KeepsResult ==
  \A i \in Intents :
       receipt[i] # None /\ receipt'[i] # None /\ receipt[i].phase \in Ended =>
         receipt'[i].phase \in Ended \cup {"cancel_started"} /\ receipt'[i].rev >= receipt[i].rev

\* _prune: what was dispatched and has not outlived its retention can still be asked
\* about, whatever other intents are created.
LocatorKept ==
  \A i \in Intents \ aged :
    sent[<<i, "dispatch">>] > 0 => receipt[i] # None /\ receipt[i].learned
=============================================================================
