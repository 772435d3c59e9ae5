------------------------------ MODULE ClaudeTitles ------------------------------
(***************************************************************************)
(* src/bin/codex-cmux-title-sync.py, the part for Claude: one broker per   *)
(* launch carries the title Claude writes to the transcript of its present *)
(* session to the cmux tab the launch started in, and leaves alone a tab   *)
(* the user has named.                                                     *)
(*                                                                         *)
(* A tab shows the name it was given (by rename-tab or by the user), or    *)
(* else the title its program sets.  A title is <<"native", n>> when       *)
(* Claude sets it (with a spinner or without), <<"rendered", n>> when the  *)
(* broker gives it; clock stands for size and mtime of the transcripts,    *)
(* which every write changes.                                              *)
(***************************************************************************)
EXTENDS Naturals

CONSTANTS Sessions, Names, None,
          MaxWrites,     \* bound on the titles written to transcripts
          MaxHandoffs,   \* bound on the SessionStart hooks that run
          MaxChanges,    \* bound on what the user does to the tab
          MaxFaults      \* bound on failing commands and stalls

VARIABLES tab,      \* the name given to the tab and the title of its program
          trans,    \* the titles in each transcript and when it was last written
          clock,
          dir,      \* the launch's directory: request.json, active.json
          b,        \* the broker's variables
          alive,    \* the launcher and Claude
          told,     \* what the properties remember
          left      \* what the bounds leave

vars == <<tab, trans, clock, dir, b, alive, told, left>>

Native(n) == <<"native", n>>
Rendered(n) == <<"rendered", n>>
User == <<"user">>
Idle == <<"idle">>
ShellTitle == <<"shell">>
Shown == IF tab.name = None THEN tab.program ELSE tab.name
There(s) == trans[s].written > 0

Start == [pc |-> "top", request |-> None, last |-> None, prior |-> None, frozen |-> FALSE,
          signature |-> 0, observed |-> None, try |-> 0, beat |-> None]
Gone == [Start EXCEPT !.pc = "gone"]

Init ==
  /\ tab \in [name : {None, User}, program : {ShellTitle, Idle}]
  /\ trans = [s \in Sessions |-> [ai |-> None, custom |-> None, written |-> 0]]
  /\ clock = 0
  /\ dir = [there |-> TRUE, request |-> None, ack |-> None]
  /\ b = Start
  /\ alive = [launcher |-> TRUE, claude |-> TRUE]
  /\ told = [since |-> FALSE, touched |-> FALSE, over |-> FALSE, handed |-> 0, why |-> None,
             late |-> FALSE, raced |-> FALSE]
  /\ left = [writes |-> MaxWrites, handoffs |-> MaxHandoffs, changes |-> MaxChanges, faults |-> MaxFaults]

Fault == left.faults > 0 /\ left' = [left EXCEPT !.faults = @ - 1]

(***************************************************************************)
(* Claude, its hooks and the user.                                         *)
(***************************************************************************)
\* claude_title: a title the user gave stands before any that Claude made up.
TitleOf(s) == IF trans[s].custom # None THEN trans[s].custom ELSE trans[s].ai

\* What happens after the broker has ended is left out.
Running == alive.claude /\ b.pc # "gone"

\* Claude writes to the transcript of the session it has handed over.
Writes(s, n) ==
  /\ Running /\ s = dir.request /\ left.writes > 0
  /\ clock = 0 => n = CHOOSE first \in Names : TRUE
  /\ \E kind \in {"ai", "custom"} :
       trans' = [trans EXCEPT ![s] = [[@ EXCEPT !.written = clock + 1] EXCEPT ![kind] = n]]
  /\ clock' = clock + 1
  /\ left' = [left EXCEPT !.writes = @ - 1]
  /\ UNCHANGED <<tab, dir, b, alive, told>>

\* Claude shows the title of its session.
Osc ==
  /\ Running /\ dir.request # None /\ TitleOf(dir.request) # None
  /\ tab.program # Native(TitleOf(dir.request))
  /\ tab' = [tab EXCEPT !.program = Native(TitleOf(dir.request))]
  /\ UNCHANGED <<trans, clock, dir, b, alive, told, left>>

\* claude_session_start: the request is put in place whole.
HookWrites(s) ==
  /\ Running /\ dir.there /\ left.handoffs > 0 /\ s # dir.request
  /\ left.handoffs = MaxHandoffs => s = CHOOSE first \in Sessions : TRUE
  /\ dir' = [dir EXCEPT !.request = s]
  /\ left' = [left EXCEPT !.handoffs = @ - 1]
  /\ UNCHANGED <<tab, trans, clock, b, alive, told>>

UserNames ==
  /\ left.changes > 0 /\ Running
  /\ \E t \in {None, User} \ {tab.name} : tab' = [tab EXCEPT !.name = t]
  /\ told' = [told EXCEPT !.since = TRUE, !.touched = TRUE]
  /\ left' = [left EXCEPT !.changes = @ - 1]
  /\ UNCHANGED <<trans, clock, dir, b, alive>>

\* The launcher has become Claude (exec), or waits for it.
Ends(both) ==
  /\ b.pc # "gone" /\ alive.launcher /\ (alive.claude \/ both)
  /\ alive' = [claude |-> FALSE, launcher |-> ~both]
  /\ UNCHANGED <<tab, trans, clock, dir, b, told, left>>

(***************************************************************************)
(* The broker.                                                             *)
(***************************************************************************)
Goes(pc) == b' = [b EXCEPT !.pc = pc]

\* A new request starts anew; the title given last stays known as the broker's own.
AssignedNoPrior(s) ==
  IF s = b.request THEN b
  ELSE [b EXCEPT !.prior = None, !.request = s, !.last = None,
                 !.signature = 0, !.observed = None, !.frozen = FALSE]
Assigned(s) ==
  IF s = b.request THEN b
  ELSE [b EXCEPT !.prior = b.last, !.request = s, !.last = None,
                 !.signature = 0, !.observed = None, !.frozen = FALSE]

Top ==
  /\ b.pc = "top"
  /\ IF ~alive.launcher THEN Goes("finally") /\ UNCHANGED told
     ELSE /\ dir.request # None
          /\ b' = [Assigned(dir.request) EXCEPT !.pc = IF alive.claude THEN "sign" ELSE "top"]
          /\ told' = IF dir.request = b.request THEN told ELSE [told EXCEPT !.handed = @ + 1, !.why = None]
  /\ UNCHANGED <<tab, trans, clock, dir, alive, left>>

\* transcript_signature is taken before the titles are read.
Signs ==
  /\ b.pc = "sign"
  /\ b' = [b EXCEPT !.pc = IF There(b.request)
                           THEN (IF trans[b.request].written = b.signature THEN "ack" ELSE "read")
                           ELSE "top",
                    !.signature = IF There(b.request) THEN trans[b.request].written ELSE @]
  /\ UNCHANGED <<tab, trans, clock, dir, alive, told, left>>

ObservedLatest == [b EXCEPT !.observed = IF trans[b.request].ai # None THEN trans[b.request].ai ELSE trans[b.request].custom,
                            !.pc = "ack"]
Observed == [b EXCEPT !.observed = TitleOf(b.request), !.pc = "ack"]
Reads ==
  /\ b.pc = "read"
  /\ b' = Observed
  /\ UNCHANGED <<tab, trans, clock, dir, alive, told, left>>

Due == b.observed # None /\ Rendered(b.observed) # b.last /\ ~b.frozen
LooksOnce == IF ~Due THEN "top" ELSE IF b.last # None THEN "rename" ELSE "look"
LooksFirst == IF Due THEN "look" ELSE "top"
Acks ==
  /\ b.pc = "ack"
  /\ dir' = [dir EXCEPT !.ack = b.request]
  /\ Goes(LooksFirst)
  /\ told' = [told EXCEPT !.since = FALSE]
  /\ UNCHANGED <<tab, trans, clock, alive, left>>

\* What the tab may show for the broker to give it a name.
Allowed ==
  {Idle, Rendered(b.observed), Native(b.observed)} \cup ({b.last, b.prior} \ {None})

\* Why a tab is left alone: the user named it, its program shows another title, it bears a name of the broker.
Why == IF tab.name = User THEN "user" ELSE IF tab.name = None THEN "native"
       ELSE IF told.handed > 1 THEN "orphan" ELSE "own"

Look ==
  /\ b.pc = "look"
  /\ \/ /\ Shown # ShellTitle
        /\ b' = IF Shown \in Allowed THEN [b EXCEPT !.pc = "rename", !.try = 1]
                ELSE [b EXCEPT !.pc = "top", !.frozen = TRUE]
        /\ told' = [told EXCEPT !.since = FALSE, !.why = IF Shown \in Allowed THEN @ ELSE Why]
        /\ UNCHANGED left
     \/ Shown = ShellTitle /\ Goes("top") /\ UNCHANGED <<told, left>>
     \/ Fault /\ Goes("top") /\ UNCHANGED told
  /\ UNCHANGED <<tab, trans, clock, dir, alive>>

Given == [tab EXCEPT !.name = Rendered(b.observed)]
Puts == told' = [told EXCEPT !.over = @ \/ (tab.name = User /\ ~told.since), !.touched = FALSE, !.handed = 0]

\* A rename that succeeds is on record (a write of its heartbeat may stall past the second it is waited for); one that fails is tried again while Claude lives, three times at most.
Succeeds == [b EXCEPT !.pc = "top", !.last = Rendered(b.observed), !.try = 0]
Renames ==
  /\ b.pc = "rename" /\ tab' = Given /\ Puts
  /\ \E beat \in {None, b.request} :
       /\ beat # None => b.beat = None /\ left.faults > 0
       /\ b' = [Succeeds EXCEPT !.beat = IF beat = None THEN @ ELSE beat]
       /\ left' = IF beat = None THEN left ELSE [left EXCEPT !.faults = @ - 1]
  /\ UNCHANGED <<trans, clock, dir, alive>>

FailsRecorded == [b EXCEPT !.pc = "top", !.last = Rendered(b.observed), !.try = 0]
Tried == IF b.try < 3 /\ alive.claude THEN [b EXCEPT !.try = @ + 1] ELSE [b EXCEPT !.pc = "finally", !.try = 0]
FailsOnce ==
  /\ b.pc = "rename" /\ Fault
  /\ \/ tab' = Given /\ Puts          \* a command that timed out may have done its work
     \/ UNCHANGED <<tab, told>>
  /\ b' = Tried
  /\ UNCHANGED <<trans, clock, dir, alive>>

\* The heartbeat renews the acknowledgement while a rename runs, or late.
Beats ==
  /\ b.pc \notin {"gone"}
  /\ \/ b.pc = "rename" /\ dir' = [dir EXCEPT !.ack = b.request] /\ UNCHANGED <<b, told>>
     \/ /\ b.beat # None
        /\ dir' = [dir EXCEPT !.ack = b.beat]
        /\ b' = [b EXCEPT !.beat = None]
        /\ told' = [told EXCEPT !.late = TRUE]
  /\ UNCHANGED <<tab, trans, clock, alive, left>>

\* remove_claude_ack, then cleanup_claude_launch_state, which rmdir ends when no temporary file is left.
RemovedNot == dir
Removed == [dir EXCEPT !.ack = None]
RemovesAck ==
  /\ b.pc = "finally"
  /\ dir' = Removed
  /\ Goes("cleanup")
  /\ UNCHANGED <<tab, trans, clock, alive, told, left>>

Cleaned == [there |-> b.beat # None, request |-> None, ack |-> None]
CleansUp ==
  /\ b.pc = "cleanup"
  /\ b' = Gone
  /\ \/ dir' = Cleaned /\ told' = [told EXCEPT !.raced = @ \/ b.beat # None]
     \/ dir' = dir /\ told' = [told EXCEPT !.raced = TRUE]      \* the launcher did not get to write the owner seed
  /\ UNCHANGED <<tab, trans, clock, alive, left>>

\* harness_claude_cmux_broker_stop: a launcher that waited for Claude kills its broker, which runs
\* nothing more, and cleans up.
Stop ==
  /\ alive.launcher /\ ~alive.claude /\ b.pc # "gone"
  /\ b' = Gone
  /\ dir' = Cleaned
  /\ told' = [told EXCEPT !.raced = @ \/ b.beat # None]
  /\ UNCHANGED <<tab, trans, clock, alive, left>>

Broker == Top \/ Signs \/ Reads \/ Acks \/ Look \/ Renames \/ FailsOnce \/ Beats \/ RemovesAck \/ CleansUp \/ Stop

Next ==
  \/ \E s \in Sessions : HookWrites(s) \/ \E n \in Names : Writes(s, n)
  \/ Osc \/ UserNames
  \/ \E both \in BOOLEAN : Ends(both)
  \/ Broker

Spec == Init /\ [][Next]_vars

(***************************************************************************)
(* Properties                                                              *)
(***************************************************************************)
Titles == {Idle, ShellTitle, User} \cup {Native(n) : n \in Names} \cup {Rendered(n) : n \in Names}

\* The type invariant.
ClaudeTitlesTypeOK ==
  /\ tab \in [name : {None, User} \cup {Rendered(n) : n \in Names}, program : Titles]
  /\ trans \in [Sessions -> [ai : Names \cup {None}, custom : Names \cup {None}, written : 0..MaxWrites]]
  /\ clock \in 0..MaxWrites
  /\ dir \in [there : BOOLEAN, request : Sessions \cup {None}, ack : Sessions \cup {None}]
  /\ b.pc \in {"top", "sign", "read", "ack", "look", "rename", "finally", "cleanup", "gone"}
  /\ b.request \in Sessions \cup {None} /\ b.last \in Titles \cup {None} /\ b.prior \in Titles \cup {None}
  /\ b.frozen \in BOOLEAN /\ b.signature \in 0..MaxWrites /\ b.try \in 0..3 /\ b.beat \in Sessions \cup {None}
  /\ b.observed \in Names \cup {None}
  /\ alive \in [launcher : BOOLEAN, claude : BOOLEAN]
  /\ told.why \in {None, "user", "native", "orphan", "own"}

\* A name the user has given before the broker last looked at the tab is never replaced.
UserKept == ~told.over

\* A tab the broker leaves alone bears the user's name or a title of its program that is not the
\* session's.  Or a name of the broker's own that is two handoffs old: it knows the one it gave
\* last and the one before the last handoff, though session-titles.md has repeated handoffs.
FrozenFor == told.why # "own"

\* When the transcript has not changed since it was signed, what the broker goes by is its
\* title, and the title the user chose before any Claude made up.
Faithful ==
  b.signature > 0 /\ trans[b.request].written = b.signature /\ b.pc \notin {"read", "gone"}
    => b.observed = TitleOf(b.request)

\* What the broker holds for given is on the tab, unless the user changed it since.
OnTheTab == b.last # None /\ ~told.touched /\ b.pc \in {"top", "sign", "read", "ack", "look"}
    => tab.name = b.last

\* The acknowledgement names a session handed to the broker that has a transcript; a broker that
\* ended itself or was stopped leaves none, and no directory, unless a write was under way.
AckTrue ==
  /\ dir.ack # None => There(dir.ack)
  /\ b.pc = "gone" /\ ~told.raced => ~dir.there /\ dir.ack = None
  /\ b.pc \in {"cleanup", "gone"} /\ dir.ack # None => told.late
  /\ (b.pc \in {"look", "rename"} /\ ~told.late) => dir.ack = b.request

ClaudeTitlesHold == UserKept /\ FrozenFor /\ Faithful /\ OnTheTab /\ AckTrue
================================================================================
