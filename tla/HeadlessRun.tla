------------------------------ MODULE HeadlessRun ------------------------------
(***************************************************************************)
(* A headless run (bin/harness_headless.py): the lock, the agent with its  *)
(* process group, what it leaves behind, the model forwarder, the session  *)
(* and its delivery, and the result file that answers the caller.          *)
(*                                                                         *)
(* Runs may share a lock and result file.  A terminating signal raises an *)
(* exception wherever the run is, and what still has to be undone there is *)
(* its `todo`; a second signal raises again and cuts that short.           *)
(***************************************************************************)
EXTENDS Sequences, Naturals

CONSTANTS Runs, Nobody,
          Elsewhere,    \* runs of the same lock that are not looked into
          MaxRequests,  \* --max-model-requests
          MaxSignals    \* bound: terminating signals

VARIABLES
  lock,       \* holder of the lock file
  results,    \* the result each run has put in place
  run,        \* program counter and locals of each run
  alive,      \* what lives of each run's agent: its process group, strays outside it
  session,    \* state of each run's session
  leased,     \* runs that hold their session's lease
  forwarder,  \* forwarder of each run: is it up, the requests it let through, a refusal
  message,    \* runs whose commit message is in the session record
  temp,       \* runs whose temporary directory exists
  signals

workspace == <<alive, session, leased, forwarder, message, temp>>
vars == <<lock, results, run, workspace, signals>>

Agents == {"claude", "codex"}
Idle == [at |-> "start", agent |-> "", status |-> "", rc |-> "", todo |-> <<>>, cut |-> FALSE]
NoForwarder == [up |-> FALSE, requests |-> 0, exhausted |-> FALSE]

Init ==
  /\ lock = Nobody /\ results = [r \in Runs |-> ""] /\ run = [r \in Runs |-> Idle]
  /\ alive = [r \in Runs |-> {}] /\ session = [r \in Runs |-> "none"] /\ leased = {}
  /\ forwarder = [r \in Runs |-> NoForwarder] /\ message = {} /\ temp = {} /\ signals = 0

At(r, step) == run[r].at = step
Codex(r) == run[r].agent = "codex"
Goes(r, step) == run' = [run EXCEPT ![r].at = step]
Settles(r, status) == run' = [run EXCEPT ![r].at = "settled", ![r].status = status]
Unwinds(r, status, todo) ==
  run' = [run EXCEPT ![r].at = "unwind", ![r].status = status, ![r].todo = todo]
Serving(r) == [NoForwarder EXCEPT !.up = TRUE]
\* finish: OPEN goes to ABANDONED or CLOSED, or the exit fails; the lease goes anyway.
Left(s) == IF s = "OPEN" THEN {"ABANDONED", "CLOSED", "OPEN"} ELSE {s}
Finishes(r) ==
  /\ \E s \in Left(session[r]) : session' = [session EXCEPT ![r] = s]
  /\ leased' = leased \ {r}

-----------------------------------------------------------------------------
(* From the lock to the agent  *)

\* main: a held lock ends the run with 75 and touches nothing.
Lock(r) ==
  /\ At(r, "start")
  /\ \/ /\ lock = Nobody /\ lock' = r /\ temp' = temp \cup {r}
        /\ \E a \in Agents : run' = [run EXCEPT ![r].at = "preflight", ![r].agent = a]
     \/ lock # Nobody /\ Goes(r, "exit") /\ UNCHANGED <<lock, temp>>
  /\ UNCHANGED <<results, alive, session, leased, forwarder, message, signals>>

\* run: the refusals before anything is started; the Kanban callback cannot fail.
Preflight(r) ==
  /\ At(r, "preflight")
  /\ Settles(r, "refused") \/ Goes(r, IF Codex(r) THEN "forwarder" ELSE "agent")
  /\ UNCHANGED <<lock, results, workspace, signals>>

\* Forwarder.start and models_ok, then CodexSession: create, lease, announce.
StartForwarder(r) ==
  /\ At(r, "forwarder")
  /\ forwarder' = [forwarder EXCEPT ![r] = Serving(r)]
  /\ Unwinds(r, "refused", <<"forwarder">>) \/ Goes(r, "session")
  /\ UNCHANGED <<lock, results, alive, session, leased, message, temp, signals>>
OpenSession(r) ==
  /\ At(r, "session")
  /\ \/ /\ session' = [session EXCEPT ![r] = "OPEN"] /\ leased' = leased \cup {r}
        /\ Goes(r, "check")
     \/ Unwinds(r, "failed", <<"forwarder">>) /\ UNCHANGED <<session, leased>>
  /\ UNCHANGED <<lock, results, alive, forwarder, message, temp, signals>>

\* codex_sandbox_profile and codex_preflight, before the first model request.
CodexCleanup == <<"forwarder", "kill", "finish">>
CodexPreflight(r) ==
  /\ At(r, "check")
  /\ Unwinds(r, "refused", CodexCleanup) \/ Goes(r, "agent")
  /\ UNCHANGED <<lock, results, workspace, signals>>

\* wait_agent: the agent in its own process group; Claude's launcher makes its session.
Launch(r) ==
  /\ At(r, "agent") /\ Goes(r, "wait")
  /\ alive' = [alive EXCEPT ![r] = {"group"}]
  /\ UNCHANGED <<lock, results, session, leased, forwarder, message, temp, signals>>
Announce(r) ==
  /\ At(r, "wait") /\ ~Codex(r) /\ session[r] = "none"
  /\ session' = [session EXCEPT ![r] = "OPEN"]
  /\ UNCHANGED <<lock, results, run, alive, leased, forwarder, message, temp, signals>>
Stray(r) ==
  /\ At(r, "wait") /\ alive' = [alive EXCEPT ![r] = @ \cup {"stray"}]
  /\ UNCHANGED <<lock, results, run, session, leased, forwarder, message, temp, signals>>
\* admit: the cap under the lock.
Request(r) ==
  /\ At(r, "wait") /\ forwarder[r].up
  /\ forwarder' = [forwarder EXCEPT ![r] =
       IF @.requests >= MaxRequests THEN [@ EXCEPT !.exhausted = TRUE]
                                    ELSE [@ EXCEPT !.requests = forwarder[r].requests + 1]]
  /\ UNCHANGED <<lock, results, run, alive, session, leased, message, temp, signals>>

-----------------------------------------------------------------------------
(* From the agent's end to the broker  *)

\* The agent exits or times out; the whole group goes, and Claude's launcher may have
\* finished its session.
AgentEnds(r) ==
  /\ At(r, "wait")
  /\ alive' = [alive EXCEPT ![r] = @ \ {"group"}]
  /\ \E rc \in {"ok", "bad", "timeout"} \cup (IF Codex(r) THEN {} ELSE {"budget"}) :
       run' = [run EXCEPT ![r].at = "collect", ![r].rc = rc]
  /\ \E s \in IF Codex(r) THEN {session[r]} ELSE Left(session[r]) :
       session' = [session EXCEPT ![r] = s]
  /\ UNCHANGED <<lock, results, leased, forwarder, message, temp, signals>>

\* collect: kill what lingers under the session root and the temp base (one snapshot).
KillNothing(r) == alive
KillLingering(r) == [alive EXCEPT ![r] = {}]
Collect(r) ==
  /\ At(r, "collect") /\ Goes(r, IF Codex(r) THEN "finish" ELSE "judge")
  /\ alive' = KillLingering(r) /\ temp' = temp \ {r}
  /\ UNCHANGED <<lock, results, session, leased, forwarder, message, signals>>
Finish(r) ==
  /\ At(r, "finish") /\ Goes(r, "close-forwarder") /\ Finishes(r)
  /\ UNCHANGED <<lock, results, alive, forwarder, message, temp, signals>>
CloseForwarder(r) ==
  /\ At(r, "close-forwarder") /\ Goes(r, "judge")
  /\ forwarder' = [forwarder EXCEPT ![r].up = FALSE]
  /\ UNCHANGED <<lock, results, alive, session, leased, message, temp, signals>>

\* The end of run_claude or run_codex: a final status, or a session to deliver.
Verdict(r) ==
  IF run[r].rc = "timeout" THEN "timeout"
  ELSE IF run[r].rc = "budget" \/ forwarder[r].exhausted THEN "budget"
  ELSE IF run[r].rc = "bad" \/ session[r] = "none" THEN "failed" ELSE ""
Judge(r) ==
  /\ At(r, "judge")
  /\ IF Verdict(r) = "" THEN Goes(r, "deliver") ELSE Settles(r, Verdict(r))
  /\ UNCHANGED <<lock, results, workspace, signals>>

-----------------------------------------------------------------------------
(* deliver, through the broker of the session  *)

Deliver(r) ==
  /\ At(r, "deliver")
  /\ CASE session[r] = "CLOSED" -> Settles(r, "no_changes")
       [] session[r] = "ABANDONED" -> Goes(r, "record") \/ Settles(r, "failed")
       [] OTHER -> Settles(r, "failed")
  /\ UNCHANGED <<lock, results, workspace, signals>>
RecordMessage(r) ==
  /\ At(r, "record") /\ Goes(r, "closing")
  /\ message' \in {message, message \cup {r}}
  /\ UNCHANGED <<lock, results, alive, session, leased, forwarder, temp, signals>>

\* What `close` leaves of an abandoned session, with its exit status.
Closings ==
  {[state |-> "DELIVERED", rc |-> "0"], [state |-> "CLOSED", rc |-> "0"],
   [state |-> "CONFLICT", rc |-> "conflict"], [state |-> "INTEGRATING", rc |-> "other"]}
  \cup {[state |-> "ABANDONED", rc |-> c] : c \in {"overlay", "refusal", "verifier", "other"}}
Close(r) ==
  /\ At(r, "closing")
  /\ \E c \in Closings :
       /\ session' = [session EXCEPT ![r] = c.state]
       /\ run' = [run EXCEPT ![r].at = "closed", ![r].rc = c.rc]
  /\ UNCHANGED <<lock, results, alive, leased, forwarder, message, temp, signals>>

\* An indeterminate integration is recovered once; the exit status decides the rest, and
\* every outcome but DELIVERED takes the message away again.
After(s) == IF s = "INTEGRATING" THEN {"INTEGRATING", "DELIVERED", "CONFLICT"} ELSE {s}
OutcomeByExit(s, rc) ==
  IF rc \in {"0", "other"} THEN "delivered" ELSE IF rc = "conflict" THEN "conflict" ELSE "failed"
Outcome(s, rc) ==
  CASE rc \in {"overlay", "verifier"} -> "failed"
    [] s = "DELIVERED" -> "delivered"
    [] s = "CLOSED" /\ rc = "0" -> "no_changes"
    [] rc = "refusal" -> "refused"
    [] rc = "conflict" -> "conflict"
    [] OTHER -> "failed"
Conclude(r) ==
  /\ At(r, "closed")
  /\ \E s \in After(session[r]) :
       LET o == Outcome(s, run[r].rc) IN
       /\ session' = [session EXCEPT ![r] = s]
       /\ Settles(r, o)
       /\ message' = IF o = "delivered" THEN message ELSE message \ {r}
  /\ UNCHANGED <<lock, results, alive, leased, forwarder, temp, signals>>

-----------------------------------------------------------------------------
(* Signals, what is undone for them, and the result  *)

\* The finally and except clauses a signal runs through, by where it finds the run.  One
\* that finds it inside a finally clause cuts that short, like a second signal.
TodoHasty(r) == IF At(r, "wait") THEN <<"group">> ELSE <<>>
Todo(r) ==
  CASE run[r].at \in {"forwarder", "session"} -> <<"forwarder">>
    [] At(r, "wait") -> <<"group">> \o IF Codex(r) THEN CodexCleanup ELSE <<"kill">>
    [] run[r].at \in {"check", "agent", "collect", "finish"} /\ Codex(r) -> CodexCleanup
    [] At(r, "close-forwarder") -> <<"forwarder">>
    [] run[r].at \in {"record", "closing", "closed"} -> <<"message">>
    [] OTHER -> <<>>
Guarded == {"preflight", "forwarder", "session", "check", "agent", "wait", "collect", "finish",
            "close-forwarder", "judge", "deliver", "record", "closing", "closed"}
Signal(r) ==
  /\ run[r].at \in Guarded /\ signals < MaxSignals /\ signals' = signals + 1
  /\ \/ Unwinds(r, "failed", Todo(r))
     \/ /\ At(r, "close-forwarder")
        /\ run' = [run EXCEPT ![r].at = "unwind", ![r].status = "failed", ![r].cut = TRUE]
  /\ session' \in IF At(r, "closing")
                  THEN {[session EXCEPT ![r] = s] : s \in {"ABANDONED", "INTEGRATING", "DELIVERED"}}
                  ELSE {session}
  /\ UNCHANGED <<lock, results, alive, leased, forwarder, message, temp>>
SignalAgain(r) ==
  /\ At(r, "unwind") /\ run[r].todo # <<>> /\ signals < MaxSignals /\ signals' = signals + 1
  /\ run' = [run EXCEPT ![r].todo = <<>>, ![r].cut = TRUE, ![r].status = "failed"]
  /\ UNCHANGED <<lock, results, workspace>>
Unwind(r) ==
  /\ At(r, "unwind") /\ UNCHANGED <<lock, results, temp, signals>>
  /\ IF run[r].todo = <<>>
     THEN Settles(r, run[r].status) /\ UNCHANGED <<alive, session, leased, forwarder, message>>
     ELSE LET step == Head(run[r].todo) IN
          /\ run' = [run EXCEPT ![r].todo = Tail(@)]
          /\ alive' = CASE step = "group" -> [alive EXCEPT ![r] = @ \ {"group"}]
                        [] step = "kill" -> KillLingering(r)
                        [] OTHER -> alive
          /\ forwarder' = IF step = "forwarder" THEN [forwarder EXCEPT ![r].up = FALSE] ELSE forwarder
          /\ message' = IF step = "message" THEN message \ {r} ELSE message
          /\ IF step = "finish" THEN Finishes(r) ELSE UNCHANGED <<session, leased>>

\* main: ignore signals, remove the temp base, put the result in place, release the lock.
Settle(r) ==
  /\ At(r, "settled") /\ Goes(r, "write") /\ temp' = temp \ {r}
  /\ UNCHANGED <<lock, results, alive, session, leased, forwarder, message, signals>>
WriteUnlocked(r) == lock' = Nobody
WriteLocked(r) == UNCHANGED lock
Write(r) ==
  /\ At(r, "write") /\ Goes(r, "unlock") /\ WriteLocked(r)
  /\ results' = [results EXCEPT ![r] = run[r].status]
  /\ UNCHANGED <<workspace, signals>>
Unlock(r) ==
  /\ At(r, "unlock") /\ Goes(r, "exit") /\ lock' = IF lock = r THEN Nobody ELSE lock
  /\ UNCHANGED <<results, workspace, signals>>

\* The kernel ends it, or a signal meets main between its handlers and the ignoring.
Dies(r) ==
  /\ run[r].at \in Guarded \cup {"unwind", "settled"} /\ signals < MaxSignals /\ signals' = signals + 1
  /\ run' = [run EXCEPT ![r].at = "dead"] /\ lock' = Nobody /\ leased' = leased \ {r}
  /\ UNCHANGED <<results, alive, session, forwarder, message, temp>>

\* Another run takes the lock, or is done with it.
OtherRun ==
  /\ \/ lock = Nobody /\ lock' = Elsewhere
     \/ lock = Elsewhere /\ lock' = Nobody
  /\ UNCHANGED <<results, run, workspace, signals>>

Step(r) ==
  \/ Lock(r) \/ Preflight(r) \/ StartForwarder(r) \/ OpenSession(r) \/ CodexPreflight(r)
  \/ Launch(r) \/ Announce(r) \/ Stray(r) \/ Request(r) \/ AgentEnds(r) \/ Collect(r)
  \/ Finish(r) \/ CloseForwarder(r) \/ Judge(r) \/ Deliver(r) \/ RecordMessage(r) \/ Close(r)
  \/ Conclude(r) \/ Signal(r) \/ SignalAgain(r) \/ Unwind(r) \/ Settle(r) \/ Write(r) \/ Unlock(r)
  \/ Dies(r)
Next == (\E r \in Runs : Step(r)) \/ OtherRun

Spec == Init /\ [][Next]_vars

-----------------------------------------------------------------------------
(* Properties *)

\* Only the lock's holder is at work; statuses are those of the result file.
HeadlessTypeOK ==
  /\ \A r \in Runs :
       /\ run[r].at \notin {"start", "exit", "dead"} => lock = r
       /\ results[r] \in {"", "delivered", "no_changes", "conflict", "failed", "timeout", "budget", "refused"}
       /\ forwarder[r].requests <= MaxRequests
  /\ leased \cup message \cup temp \subseteq Runs

\* docs/architecture.md: "Only then does the broker run": nothing of the agent that
\* existed when it ended can touch what the broker reads.
QuietDelivery == \A r \in Runs : run[r].at \in {"record", "closing", "closed"} => alive[r] = {}

\* deliver: the result speaks of the session as it is, a refused model request is told,
\* and a message outlives its `close` only with what was delivered under it.
HonestResult ==
  \A r \in Runs :
    /\ results[r] = "delivered" => session[r] = "DELIVERED" /\ ~forwarder[r].exhausted
    /\ results[r] = "no_changes" => session[r] = "CLOSED"
    /\ results[r] # "" /\ r \in message /\ ~run[r].cut => results[r] = "delivered"

\* docs/architecture.md, Signals: before a result is in place the agent is gone, the
\* forwarder is closed and the lease is released - unless a signal cut that short.
\* (Claude: not for a signal after the agent has ended and before collect.)
CleanResult ==
  \A r \in Runs :
    results[r] # "" /\ ~run[r].cut =>
      r \notin leased /\ r \notin temp /\ ~forwarder[r].up /\ "group" \notin alive[r]
        /\ (Codex(r) => alive[r] = {})

HeadlessSafe == QuietDelivery /\ HonestResult /\ CleanResult

\* What the theorems assume: who is none of the runs is none.
HeadlessAssumption == {Nobody, Elsewhere} \cap Runs = {} /\ MaxRequests \in Nat
=============================================================================
