----------------------------- MODULE PluginTabs -----------------------------
(***************************************************************************)
(* The label and the metadata of one tab with one agent pane               *)
(* (herdr-plugin/harness_herdr_plugin.py): hooks and the watcher sync them *)
(* under the lock of state.json, from the records the agent writes, while  *)
(* the agent, the user and herdr go on.                                    *)
(*                                                                         *)
(* A record of the agent is a title or no title; widths, the suffix for    *)
(* further agents and $model are left out.  A run is not killed within its *)
(* lock, which is a matter of milliseconds and of ten seconds at most for  *)
(* a herdr that hangs.                                                     *)
(***************************************************************************)
EXTENDS Naturals, Sequences, SequencesExt

CONSTANTS Agent,       \* "codex" or "claude": where titles are, and how they are read
          None,
          MaxChanges,  \* what agent, user and herdr do
          MaxFaults    \* herdr calls that fail

VARIABLES
  herdr,   \* the pane's agent and terminal title, its metadata title; the tab's label, position, panes
  file,    \* the agent's record file: inode, 0 for none, complete lines, one being written
  st,      \* state.json: label the plugin gave, title it reported, transcript scan, missing transcript
  sync,    \* the run that holds the lock
  w,       \* the watcher
  events,  \* plugin events whose run has not taken the lock
  left,    \* changes and faults left
  ghost    \* lost: a rename failed over a label of the plugin; taken: see UserKept; due: something is left for the next refresh

vars == <<herdr, file, st, sync, w, events, left, ghost>>

Position(n) == IF n = 1 THEN "1" ELSE "2"

Unscanned == [ino |-> 0, off |-> 0, title |-> ""]

NoSync == [at |-> "none", by |-> None, tab |-> None, pane |-> None, title |-> "", watched |-> None]

Watch == [at |-> "top", files |-> None, key |-> None, dirty |-> FALSE, forget |-> FALSE,
          sock |-> "none", buffer |-> <<>>, first |-> TRUE]

Init ==
  /\ herdr = [agent |-> TRUE, term |-> "T", meta |-> None, label |-> None, pos |-> 2, panes |-> 1]
  /\ file = [ino |-> IF Agent = "codex" THEN 0 ELSE 1, lines |-> <<>>, part |-> None]
  /\ st = [owned |-> None, reported |-> None, scan |-> Unscanned, miss |-> FALSE]
  /\ sync = NoSync /\ w = Watch /\ events = {} /\ left = [changes |-> MaxChanges, faults |-> MaxFaults]
  /\ ghost = [lost |-> FALSE, taken |-> FALSE, due |-> TRUE]

-----------------------------------------------------------------------------
(* The agent, the user and herdr *)

Key(h) == <<h.agent, IF h.agent THEN h.term ELSE "">>

\* A change of the pane reaches the watcher, if it is subscribed.
Updates(h) ==
  /\ herdr' = h
  /\ w' = IF w.sock = "open" THEN [w EXCEPT !.buffer = Append(@, Key(h))] ELSE w

Change ==
  \/ /\ ~herdr.agent /\ Updates([herdr EXCEPT !.agent = TRUE]) /\ events' = events \union {"detected"}
     /\ UNCHANGED file
  \/ herdr.agent /\ Updates([herdr EXCEPT !.agent = FALSE, !.meta = None]) /\ UNCHANGED <<file, events>>
  \/ herdr.agent /\ herdr.term = "T" /\ Updates([herdr EXCEPT !.term = ""]) /\ UNCHANGED <<file, events>>
  \/ /\ herdr.agent /\ file.part = None
     /\ \E line \in {"A", "B"} :
          file' = [file EXCEPT !.ino = IF @ = 0 THEN 1 ELSE @, !.part = line]
     /\ UNCHANGED <<herdr, w, events>>
  \/ file.ino = 1 /\ file' = [ino |-> 2, lines |-> <<"B">>, part |-> None] /\ UNCHANGED <<herdr, w, events>>
  \/ herdr' = [herdr EXCEPT !.label = "U"] /\ events' = events \union {"U"} /\ UNCHANGED <<file, w>>
  \/ /\ herdr.pos = 2 /\ herdr' = [herdr EXCEPT !.pos = 1] /\ events' = events \union {"other"}
     /\ UNCHANGED <<file, w>>
  \/ /\ herdr.panes = 1 /\ herdr' = [herdr EXCEPT !.panes = 2] /\ events' = events \union {"other"}
     /\ UNCHANGED <<file, w>>
  \* A restart of the server drops the metadata and every connection.
  \/ /\ herdr' = [herdr EXCEPT !.meta = None] /\ events' = events \union {"startup"}
     /\ w' = IF w.sock = "open" THEN [w EXCEPT !.sock = "closed"] ELSE w
     /\ UNCHANGED file
  \* The watcher ends, by an upgrade or otherwise.
  \/ w.at \notin {"off", "sync"} /\ w' = [Watch EXCEPT !.at = "off"] /\ UNCHANGED <<herdr, file, events>>

External ==
  \/ /\ left.changes > 0 /\ left' = [left EXCEPT !.changes = @ - 1] /\ Change
     /\ UNCHANGED <<st, sync, ghost>>
  \/ /\ file.part # None /\ file' = [file EXCEPT !.lines = Append(@, file.part), !.part = None]
     /\ UNCHANGED <<herdr, st, sync, w, events, left, ghost>>

-----------------------------------------------------------------------------
(* Titles *)

TitleOf(lines) == IF lines = <<>> THEN "" ELSE Last(lines)

\* scan_titles: only what was appended since the last scan.
ScanTitlesOver(entry) ==
  LET from == IF entry.off > Len(file.lines) THEN [Unscanned EXCEPT !.ino = file.ino] ELSE entry
      fresh == SubSeq(file.lines, from.off + 1, Len(file.lines)) IN
    [from EXCEPT !.ino = file.ino, !.off = Len(file.lines), !.title = IF fresh = <<>> THEN @ ELSE Last(fresh)]

ScanTitles(entry) ==
  LET from == IF entry.ino # file.ino \/ entry.off > Len(file.lines) THEN [Unscanned EXCEPT !.ino = file.ino] ELSE entry
      fresh == SubSeq(file.lines, from.off + 1, Len(file.lines)) IN
    [from EXCEPT !.off = Len(file.lines), !.title = IF fresh = <<>> THEN @ ELSE Last(fresh)]

Or(name, term) == IF name # "" THEN name ELSE term

Position0 == [ino |-> 0, off |-> 0]

AtEnd == [ino |-> file.ino, off |-> Len(file.lines)]

\* codex and claude: the title of the pane as it was listed, the state and what
\* the file is watched from.  thread_names keeps its first answer for the run.
CodexReads(s) ==
  /\ s.title = Or(TitleOf(file.lines), sync.pane.term)
  /\ s.watched = (IF file.ino = 0 THEN Position0 ELSE AtEnd)
  /\ st' = st

\* A transcript that was not found is not looked for again for a while.
ClaudeReads(s) ==
  \E found \in {file.ino # 0, file.ino # 0 /\ ~st.miss} :
    LET scan == IF found THEN ScanTitles(st.scan) ELSE st.scan IN
      /\ s.title = Or(IF found THEN scan.title ELSE "", sync.pane.term)
      /\ s.watched = (IF found THEN [ino |-> scan.ino, off |-> scan.off] ELSE sync.watched)
      /\ st' = [st EXCEPT !.scan = scan, !.miss = ~found]

-----------------------------------------------------------------------------
(* sync_tabs *)

At(place) == sync.at = place

\* herdr has no metadata of what it has just started or detected.
ForgetsAtStartup(e) == e = "startup"

Forgets(e) == e \in {"startup", "detected"}

\* own_rename lets an event of a rename of the plugin pass.
Hook(e) ==
  /\ At("none") /\ events' = events \ {e}
  /\ IF e = st.owned THEN UNCHANGED <<st, sync>>
     ELSE /\ st' = IF Forgets(e) THEN [st EXCEPT !.reported = None] ELSE st
          /\ sync' = [NoSync EXCEPT !.at = "tabs", !.by = "hook"]
  /\ UNCHANGED <<herdr, file, w, left, ghost>>

\* What a file is watched from: where the watcher stopped, or else where its
\* first sync stopped.
WatchedRead(s) == s.watched

Watched(s) == IF s.watched = None \/ w.files = None THEN s.watched ELSE w.files

\* The run ends with the lock, and ensure_watcher starts one if there is none.
Ends(s, ok) ==
  /\ sync' = NoSync
  /\ w' = CASE s.by = "hook" -> IF w.at = "off" THEN Watch ELSE w
            [] OTHER -> IF ~ok THEN [w EXCEPT !.at = "connect"]
                        ELSE [w EXCEPT !.at = "connect", !.forget = FALSE, !.key = Key(s.pane),
                                       !.files = Watched(s)]

Fails ==
  /\ left.faults > 0 /\ left' = [left EXCEPT !.faults = @ - 1]
  /\ At("tabs") \/ At("panes")
  /\ Ends(sync, FALSE) /\ ghost' = [ghost EXCEPT !.due = TRUE]
  /\ UNCHANGED <<herdr, file, st, events>>

ListTabs ==
  /\ At("tabs")
  /\ sync' = [sync EXCEPT !.at = "panes", !.tab = [label |-> herdr.label, pos |-> Position(herdr.pos), panes |-> herdr.panes]]
  /\ UNCHANGED <<herdr, file, st, w, events, left, ghost>>

ListPanes ==
  /\ At("panes")
  /\ sync' = [sync EXCEPT !.at = "read", !.pane = [agent |-> herdr.agent, term |-> herdr.term, panes |-> herdr.panes]]
  /\ ghost' = [ghost EXCEPT !.due = @ /\ sync.by = "hook"]
  /\ UNCHANGED <<herdr, file, st, w, events, left>>

Titled(s) == IF Agent = "codex" THEN CodexReads(s) ELSE ClaudeReads(s)

\* The first reading, for the metadata.  A transcript the watcher has not found
\* yet is left for the next refresh.
Read ==
  /\ At("read")
  /\ IF ~sync.pane.agent
     THEN sync' = [sync EXCEPT !.at = "report"] /\ UNCHANGED <<st, ghost>>
     ELSE \E title \in {"", "A", "B", "T"}, watched \in {sync.watched, Position0, AtEnd} :
            LET s == [sync EXCEPT !.at = "report", !.title = title, !.watched = watched] IN
              /\ Titled(s) /\ sync' = s
              /\ ghost' = [ghost EXCEPT !.due = @ \/ (sync.by = "watcher" /\ watched = None)]
  /\ UNCHANGED <<herdr, file, w, events, left>>

\* report_metadata: a report for an agent is dropped when the agent has exited.
Reports == IF sync.pane.agent THEN st.reported # sync.title ELSE st.reported # None

Report ==
  /\ At("report") /\ sync' = [sync EXCEPT !.at = "second"]
  /\ IF ~Reports THEN UNCHANGED <<herdr, st, left, ghost>>
     ELSE \/ /\ st' = [st EXCEPT !.reported = IF sync.pane.agent THEN sync.title ELSE None]
             /\ herdr' = [herdr EXCEPT !.meta = IF ~sync.pane.agent THEN None ELSE IF herdr.agent THEN sync.title ELSE @]
             /\ UNCHANGED <<left, ghost>>
          \/ /\ left.faults > 0 /\ left' = [left EXCEPT !.faults = @ - 1]
             /\ ghost' = [ghost EXCEPT !.due = TRUE] /\ UNCHANGED <<herdr, st>>
  /\ UNCHANGED <<file, w, events>>

\* The second reading, for the label.  A transcript is scanned again, so it can
\* be watched from after a title the metadata do not have; that is left for the
\* next refresh, too.
Second ==
  /\ At("second")
  /\ IF ~sync.pane.agent \/ sync.tab.panes # sync.pane.panes
     THEN sync' = [sync EXCEPT !.at = "rename", !.title = ""] /\ UNCHANGED <<st, ghost>>
     ELSE IF Agent = "codex"
     THEN sync' = [sync EXCEPT !.at = "rename"] /\ UNCHANGED <<st, ghost>>
     ELSE \E title \in {"", "A", "B", "T"}, watched \in {sync.watched, AtEnd} :
            LET s == [sync EXCEPT !.at = "rename", !.title = title, !.watched = watched] IN
              /\ Titled(s) /\ sync' = s
              /\ ghost' = [ghost EXCEPT !.due = @ \/ (sync.by = "watcher" /\ w.files = None /\ title # sync.title)]
  /\ UNCHANGED <<herdr, file, w, events, left>>

Shown(label, pos) == IF label = None THEN pos ELSE label

\* The label is neither the position nor what the plugin set last.
NamedFirst(current) == current # sync.tab.pos /\ st.owned = None

Named(current) == current \notin {sync.tab.pos, st.owned}

Rename ==
  /\ At("rename")
  /\ LET current == Shown(sync.tab.label, sync.tab.pos)
         wanted == Or(sync.title, sync.tab.pos) IN
       IF Named(current) \/ wanted = current
       THEN UNCHANGED <<herdr, st, events, left, ghost>>
       ELSE /\ st' = [st EXCEPT !.owned = wanted]
            /\ \/ /\ herdr' = [herdr EXCEPT !.label = wanted] /\ events' = events \union {wanted}
                  /\ ghost' = [ghost EXCEPT !.taken = @ \/ {herdr.label, sync.tab.label} = {"U"}] /\ UNCHANGED left
               \/ /\ left.faults > 0 /\ left' = [left EXCEPT !.faults = @ - 1]
                  /\ ghost' = [ghost EXCEPT !.due = TRUE, !.lost = @ \/ sync.tab.label # None]
                  /\ UNCHANGED <<herdr, events>>
  /\ Ends(sync, TRUE) /\ UNCHANGED file

Sync == Fails \/ ListTabs \/ ListPanes \/ Read \/ Report \/ Second \/ Rename

-----------------------------------------------------------------------------
(* The watcher's loop *)

WAt(place) == w.at = place

\* A sync when something changed, or at the refresh.
Top(refresh) ==
  /\ WAt("top")
  /\ IF ~(w.dirty \/ w.first \/ refresh) THEN w' = [w EXCEPT !.at = "connect"] /\ UNCHANGED <<st, sync>>
     ELSE /\ At("none") /\ sync' = [NoSync EXCEPT !.at = "tabs", !.by = "watcher"]
          /\ w' = [w EXCEPT !.at = "sync", !.dirty = FALSE, !.first = FALSE]
          /\ st' = IF w.forget THEN [st EXCEPT !.reported = None] ELSE st
  /\ UNCHANGED <<herdr, file, events, left, ghost>>

\* What changed before the subscription is for the next sync.
Connect ==
  /\ WAt("connect")
  /\ w' = IF w.sock = "none" THEN [w EXCEPT !.at = "wait", !.sock = "open", !.buffer = <<>>, !.dirty = TRUE]
          ELSE [w EXCEPT !.at = "wait"]
  /\ UNCHANGED <<herdr, file, st, sync, events, left, ghost>>

\* handle, for all that arrived.
Handled == [w EXCEPT !.at = "scan", !.buffer = <<>>, !.key = Last(w.buffer),
                     !.dirty = @ \/ \E i \in DOMAIN w.buffer : w.buffer[i] # (IF i = 1 THEN w.key ELSE w.buffer[i - 1])]

\* After a restart of herdr, all that was reported is reported again.
Wait ==
  /\ WAt("wait")
  /\ w' = CASE w.buffer # <<>> -> Handled
            [] w.buffer = <<>> /\ w.sock = "closed" -> [w EXCEPT !.at = "scan", !.sock = "none", !.forget = TRUE, !.dirty = TRUE]
            [] OTHER -> [w EXCEPT !.at = "scan"]
  /\ UNCHANGED <<herdr, file, st, sync, events, left, ghost>>

\* appended_title: a line without its end is left for later.
Scan ==
  /\ WAt("scan")
  /\ w' = [w EXCEPT !.at = "top", !.files = IF @ = None THEN @ ELSE AtEnd,
                    !.dirty = @ \/ (w.files # None /\ w.files # AtEnd)]
  /\ UNCHANGED <<herdr, file, st, sync, events, left, ghost>>

Watcher == (\E refresh \in BOOLEAN : Top(refresh)) \/ Connect \/ Wait \/ Scan

Next == External \/ (\E e \in events : Hook(e)) \/ Sync \/ Watcher

Spec == Init /\ [][Next]_vars

-----------------------------------------------------------------------------
(* Properties *)

TabsTypeOK ==
  /\ herdr.label \in {None, "1", "2", "A", "B", "T", "U"} /\ herdr.meta \in {None, "", "A", "B", "T"}
  /\ st.owned \in {None, "1", "2", "A", "B", "T"} /\ st.reported \in {None, "", "A", "B", "T"}
  /\ sync.at \in {"none", "tabs", "panes", "read", "report", "second", "rename"}
  /\ w.at \in {"top", "sync", "connect", "wait", "scan", "off"} /\ w.sock \in {"none", "open", "closed"}

\* Nothing is under way, on its way, or left for the next refresh.
Quiet ==
  /\ At("none") /\ events = {} /\ file.part = None /\ ~ghost.due /\ ~st.miss
  /\ w.at # "off" /\ ~w.first /\ ~w.dirty /\ w.sock = "open" /\ w.buffer = <<>> /\ w.files \in {None, AtEnd}

Title == IF herdr.agent THEN Or(TitleOf(file.lines), herdr.term) ELSE ""

\* "Record first: if the rename fails the old label is still the plugin's or the position, so
\* the next run retries" (harness_herdr_plugin.py): with nothing left to do, the tab shows what
\* the agent last called its session, or its position, unless the user named it.
RenameRetried == Quiet => Shown(herdr.label, Position(herdr.pos)) \in {Or(Title, Position(herdr.pos)), "U"}

\* So it does whatever order events, syncs and records had, and without waiting for a refresh, as
\* long as no rename has failed over a label the plugin had given: that label is on record no more.
LabelTrue == ~ghost.lost => RenameRetried

\* So is the metadata title, also after a restart of herdr.
MetadataTrue == Quiet => (IF herdr.meta = None THEN "" ELSE herdr.meta) = Title

\* A name the user gave is replaced only by a sync that listed the tab before.
UserKept == ~ghost.taken

TabsHold == LabelTrue /\ MetadataTrue /\ UserKept
=============================================================================
