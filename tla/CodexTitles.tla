------------------------------ MODULE CodexTitles ------------------------------
(***************************************************************************)
(* src/bin/codex-cmux-title-sync.py, the part for Codex: the SessionStart  *)
(* hook hands its session to the launcher's broker, or starts a watcher of *)
(* its own when there is no broker; whoever watches a session carries the  *)
(* latest name Codex recorded for it to the tab.                           *)
(*                                                                         *)
(* The names of a session are numbered in the order Codex records them.    *)
(***************************************************************************)
EXTENDS Naturals

CONSTANTS Sessions, Watchers, None,
          MaxNames,      \* bound on the names a session gets
          MaxStarts,     \* bound on the SessionStart hooks that run
          MaxFaults      \* bound on failing commands, kills and names given by the user

VARIABLES mode,      \* "broker" when the launcher started one, else "hook"
          tab,       \* the title of the tab: <<session, number>>, or what the user gave
          index,     \* session_index.jsonl: the number of the latest name of each session
          request,   \* the request file: gone, torn, or the session in it
          hook,      \* the session a hook is writing to the request
          lock,      \* who holds the lock of each session
          status,    \* the status file of each session
          p,         \* the watchers; the broker is "broker"
          codex,     \* Codex lives
          put,       \* remembered: the last number given for each session, and whether one went back
          left       \* what the bounds leave

vars == <<mode, tab, index, request, hook, lock, status, p, codex, put, left>>

Procs == Watchers \cup {"broker"}
Asleep == [pc |-> "none", session |-> None, last |-> 0, name |-> 0, try |-> 0]

Init ==
  /\ mode \in {"broker", "hook"}
  /\ tab = None
  /\ index = [s \in Sessions |-> 0]
  /\ request = IF mode = "broker" THEN "empty" ELSE "gone"
  /\ hook = None
  /\ lock = [s \in Sessions |-> None]
  /\ status = [s \in Sessions |-> None]
  /\ p = [w \in Procs |-> IF w = "broker" /\ mode = "broker" THEN [Asleep EXCEPT !.pc = "wait"] ELSE Asleep]
  /\ codex = TRUE
  /\ put = [by |-> None, last |-> [s \in Sessions |-> 0], back |-> FALSE]
  /\ left = [starts |-> MaxStarts, faults |-> MaxFaults]

Fault == left.faults > 0 /\ left' = [left EXCEPT !.faults = @ - 1]
In(w, r) == p' = [p EXCEPT ![w] = r]

(***************************************************************************)
(* Codex, its hook and the user.                                           *)
(***************************************************************************)
Named(s) ==
  /\ codex /\ index[s] < MaxNames
  /\ index' = [index EXCEPT ![s] = @ + 1]
  /\ UNCHANGED <<mode, tab, request, hook, lock, status, p, codex, put, left>>

\* write_broker_request opens an existing file, empties it and then writes it.
OpensAny == TRUE
Opens == request # "gone"
Start(s) ==
  /\ codex /\ left.starts > 0 /\ hook = None
  /\ left' = [left EXCEPT !.starts = @ - 1]
  /\ \/ mode = "broker" /\ Opens /\ hook' = s /\ request' = "torn" /\ UNCHANGED p
     \/ /\ mode = "hook"
        /\ \E w \in Watchers : p[w].pc = "none" /\ In(w, [Asleep EXCEPT !.pc = "lock", !.session = s])
        /\ UNCHANGED <<hook, request>>
  /\ UNCHANGED <<mode, tab, index, lock, status, codex, put>>

HookWrites ==
  /\ hook # None
  /\ request' = IF request = "gone" THEN "gone" ELSE hook
  /\ hook' = None
  /\ UNCHANGED <<mode, tab, index, lock, status, p, codex, put, left>>

UserNames ==
  /\ Fault
  /\ tab' = None /\ put' = [put EXCEPT !.by = None]
  /\ UNCHANGED <<mode, index, request, hook, lock, status, p, codex>>

CodexEnds ==
  /\ codex /\ codex' = FALSE
  /\ UNCHANGED <<mode, tab, index, request, hook, lock, status, p, put, left>>

(***************************************************************************)
(* The broker waits for one request; broker and watchers watch its session.*)
(***************************************************************************)
\* The launcher's end and the time limit end the wait; finish unlinks the request.
Finish(w) == request' = IF w = "broker" THEN "gone" ELSE request
Ends(w) == In(w, [Asleep EXCEPT !.pc = "done"]) /\ Finish(w)

Whole == request \in Sessions
Waits ==
  /\ p["broker"].pc = "wait"
  /\ \/ Whole /\ In("broker", [Asleep EXCEPT !.pc = "lock", !.session = request]) /\ UNCHANGED request
     \/ ~Whole /\ Ends("broker")
  /\ UNCHANGED <<mode, tab, index, hook, lock, status, codex, put, left>>

FreeAny(w) == TRUE
Free(w) == lock[p[w].session] = None
Locks(w) ==
  /\ p[w].pc = "lock"
  /\ \/ Free(w) /\ In(w, [p[w] EXCEPT !.pc = "loop"]) /\ lock' = [lock EXCEPT ![p[w].session] = w]
                /\ UNCHANGED request
     \/ ~Free(w) /\ Ends(w) /\ UNCHANGED lock
  /\ UNCHANGED <<mode, tab, index, hook, status, codex, put, left>>

Releases(w) == lock' = [lock EXCEPT ![p[w].session] = None]
Looks(w) ==
  /\ p[w].pc = "loop"
  /\ \/ ~codex /\ Ends(w) /\ Releases(w)
     \/ /\ codex /\ index[p[w].session] # p[w].last
        /\ In(w, [p[w] EXCEPT !.pc = "rename", !.name = index[p[w].session], !.try = 1])
        /\ UNCHANGED <<lock, request>>
  /\ UNCHANGED <<mode, tab, index, hook, status, codex, put, left>>

Puts(w) ==
  LET s == p[w].session IN
  /\ tab' = <<s, p[w].name>>
  /\ put' = [by |-> s, last |-> [put.last EXCEPT ![s] = p[w].name], back |-> put.back \/ p[w].name < put.last[s]]

\* The first attempt's success takes an older status away.
StatusOfKept(w) == IF p[w].try = 1 THEN status[p[w].session] ELSE "recovered"
StatusOf(w) == IF p[w].try = 1 THEN None ELSE "recovered"
Renames(w) ==
  /\ p[w].pc = "rename" /\ Puts(w)
  /\ In(w, [p[w] EXCEPT !.pc = "loop", !.last = p[w].name, !.name = 0, !.try = 0])
  /\ status' = [status EXCEPT ![p[w].session] = StatusOf(w)]
  /\ UNCHANGED <<mode, index, request, hook, lock, codex, left>>

\* Three attempts while Codex lives; a command that timed out may have done its work.
FailsPast(w) == [p[w] EXCEPT !.pc = "loop", !.last = p[w].name, !.name = 0, !.try = 0]
Again(w) == [p[w] EXCEPT !.try = @ + 1]
Fails(w) ==
  /\ p[w].pc = "rename" /\ Fault
  /\ Puts(w) \/ UNCHANGED <<tab, put>>
  /\ \/ /\ p[w].try < 3 /\ codex
        /\ In(w, Again(w)) /\ UNCHANGED <<lock, request, status>>
     \/ /\ p[w].try = 3 \/ ~codex
        /\ Ends(w) /\ Releases(w)
        /\ status' = IF p[w].try = 3 THEN [status EXCEPT ![p[w].session] = "exhausted"] ELSE status
  /\ UNCHANGED <<mode, index, hook, codex>>

\* A kill frees the lock; harness_codex_cmux_broker_stop kills the broker and removes the request.
Killed(w) ==
  /\ p[w].pc \notin {"none", "done"} /\ Fault
  /\ Ends(w)
  /\ lock' = [s \in Sessions |-> IF lock[s] = w THEN None ELSE lock[s]]
  /\ UNCHANGED <<mode, tab, index, hook, status, codex, put>>

Watch(w) == Locks(w) \/ Looks(w) \/ Renames(w) \/ Fails(w) \/ Killed(w)

Next ==
  \/ \E s \in Sessions : Named(s) \/ Start(s)
  \/ HookWrites \/ UserNames \/ CodexEnds \/ Waits
  \/ \E w \in Procs : Watch(w)

Spec == Init /\ [][Next]_vars

(***************************************************************************)
(* Properties                                                              *)
(***************************************************************************)
Watching(s) == {w \in Procs : p[w].session = s /\ p[w].pc \in {"loop", "rename"}}

\* The type invariant.
CodexTitlesTypeOK ==
  /\ mode \in {"broker", "hook"} /\ codex \in BOOLEAN
  /\ tab \in {None} \cup Sessions \X (1..MaxNames)
  /\ index \in [Sessions -> 0..MaxNames]
  /\ request \in {"gone", "empty", "torn"} \cup Sessions
  /\ hook \in Sessions \cup {None}
  /\ lock \in [Sessions -> Procs \cup {None}]
  /\ status \in [Sessions -> {None, "recovered", "exhausted"}]
  /\ \A w \in Procs : p[w].last \in 0..MaxNames /\ p[w].name \in 0..MaxNames /\ p[w].try \in 0..3

\* The tab never goes back from a later name of a session to an earlier one, whoever watches it
\* and however often Codex starts the same session.
NeverBack == ~put.back

\* While the last name given to the tab is of a watched session, it is the one its watcher holds for given.
Shows ==
  \A s \in Sessions, w \in Procs :
    w \in Watching(s) /\ p[w].pc = "loop" /\ p[w].last # 0 /\ put.by = s => tab = <<s, p[w].last>>

\* A status says exhausted only while nobody carries the session's names.
StatusTrue ==
  \A s \in Sessions : status[s] = "exhausted" => \A w \in Watching(s) : p[w].last = 0

\* A broker that has ended leaves no request, not even one a hook was writing.
NoStray == mode = "broker" /\ p["broker"].pc = "done" => request = "gone"

CodexTitlesHold == NeverBack /\ Shows /\ StatusTrue /\ NoStray
================================================================================
