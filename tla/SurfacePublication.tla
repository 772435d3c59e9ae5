-------------------------- MODULE SurfacePublication --------------------------
(***************************************************************************)
(* How a generated Codex home is prepared and published                    *)
(* (bin/codex-surface.py, bin/codex-surface-warm.py and the publisher in   *)
(* bin/codex-home-prepare.sh).                                             *)
(*                                                                         *)
(* Under the lock of the home a preparation first probes whether the home  *)
(* is still what its sources compile to.  If not, it compiles a candidate  *)
(* beside the home, probes that, and exchanges the launcher-owned outputs  *)
(* one by one; a failure or a signal undoes the exchanges, a death does    *)
(* not.  Codex itself saves to config.toml whenever it likes, and people   *)
(* edit the sources meanwhile.                                             *)
(***************************************************************************)
EXTENDS Naturals, Sequences, TLC

CONSTANTS Preparers,
          Saves,       \* runtime state Codex saves to its configuration
          Tries,       \* how often the configuration is merged anew (the code: 5)
          MaxEdits,    \* bound: edits of the sources
          MaxMishaps,  \* bound: signals, deaths and edits of the outputs by others
          Nobody, None

VARIABLES
  source,   \* version of the sources; an edit gives every watched file a new identity
  live,     \* the published home
  stage,    \* the candidate of each preparer
  lock,     \* holder of the home's lock
  prep,     \* program counter and locals of each preparer
  saved,    \* what Codex has saved (history only)
  crossed,  \* an exchange of a configuration Codex had saved to was undone or cut off (history only)
  broken,   \* a publication died or somebody edited an output (history only)
  mishaps

files == <<source, live, stage>>
history == <<saved, crossed, broken>>
vars == <<files, lock, prep, history, mishaps>>

\* Two outputs (one that only some versions have), the configuration with what Codex
\* has saved to it, the fingerprint cache and the stamp.
Outputs == {"agents_md", "skill"}
Paths == Outputs \cup {"config", "cache", "stamp"}
Config(v, runtime) == [gen |-> v, runtime |-> runtime]
\* What a version compiles to.
Compiled(v) == [o \in Outputs |-> IF o = "skill" /\ v % 2 = 1 THEN None ELSE v]
\* output_signatures and config_projection_sha256: runtime state does not count.
Signatures(home) == [outputs |-> [o \in Outputs |-> home[o]], config |-> home.config.gen]
Stamp(digest, home) == [digest |-> digest, signed |-> Signatures(home)]
Faithful(home, v) == Signatures(home) = [outputs |-> Compiled(v), config |-> v]

Blank == [p \in Paths |-> IF p = "config" THEN Config(None, {}) ELSE None]
Made(v) == [o \in Outputs |-> Compiled(v)[o]] @@ [config |-> Config(v, {}), cache |-> v]
Idle == [at |-> "idle", expected |-> {}, tries |-> 0, todo |-> <<>>, journal |-> <<>>]

Init ==
  /\ source = 0 /\ live = Made(0) @@ [stamp |-> Stamp(0, Made(0))]
  /\ stage = [k \in Preparers |-> Blank]
  /\ lock = Nobody /\ prep = [k \in Preparers |-> Idle]
  /\ saved = {} /\ crossed = FALSE /\ broken = FALSE /\ mishaps = 0

At(k, step) == prep[k].at = step
Goes(k, step) == prep' = [prep EXCEPT ![k].at = step]
\* The candidate is removed and the lock released.
Ends(k) ==
  /\ prep' = [prep EXCEPT ![k] = Idle]
  /\ stage' = [stage EXCEPT ![k] = Blank]
  /\ lock' = Nobody

-----------------------------------------------------------------------------
(* The warm probe  *)

\* The watched identities are those of the sources now, stamp and cache agree, and the
\* outputs are those that were signed.
WarmUnsigned(home) == home.cache = source /\ home.stamp # None /\ home.stamp.digest = home.cache
Warm(home) ==
  /\ home.cache = source
  /\ home.stamp # None /\ home.stamp.digest = home.cache
  /\ home.stamp.signed = Signatures(home)
IsWarm(home) == Warm(home)

Start(k) ==
  /\ At(k, "idle") /\ lock = Nobody
  /\ lock' = k /\ Goes(k, "probe")
  /\ UNCHANGED <<files, history, mishaps>>
Probe(k) ==
  /\ At(k, "probe")
  /\ IF IsWarm(live) THEN Ends(k) ELSE Goes(k, "fingerprint") /\ UNCHANGED <<stage, lock>>
  /\ UNCHANGED <<source, live, history, mishaps>>

-----------------------------------------------------------------------------
(* The candidate  *)

\* fingerprint: the digest of the sources and the identity of every file it read.
Fingerprint(k) ==
  /\ At(k, "fingerprint") /\ Goes(k, "resolve")
  /\ stage' = [stage EXCEPT ![k].cache = source]
  /\ UNCHANGED <<source, live, lock, history, mishaps>>
\* resolve writes the skills (and the rest) from the sources.
Resolve(k) ==
  /\ At(k, "resolve") /\ Goes(k, "compile")
  /\ stage' = [stage EXCEPT ![k] = Compiled(source) @@ @]
  /\ UNCHANGED <<source, live, lock, history, mishaps>>
\* The configuration is compiled, and the whole candidate signed for the fingerprint.
Compile(k) ==
  /\ At(k, "compile") /\ Goes(k, "validate")
  /\ stage' = [stage EXCEPT ![k].config = Config(source, {}),
                            ![k].stamp = Stamp(stage[k].cache, [stage[k] EXCEPT !.config.gen = source])]
  /\ UNCHANGED <<source, live, lock, history, mishaps>>
\* The probe is asked about the candidate: what was read must be unchanged.
AcceptsAny(k) == TRUE
Accepts(k) == Warm(stage[k])
Validate(k) ==
  /\ At(k, "validate")
  /\ IF Accepts(k)
     THEN /\ prep' = [prep EXCEPT ![k].at = "publish",
                                  ![k].todo = <<"cache", "agents_md", "config", "skill", "stamp">>]
          /\ UNCHANGED <<stage, lock>>
     ELSE Ends(k)
  /\ UNCHANGED <<source, live, history, mishaps>>

-----------------------------------------------------------------------------
(* The publisher: the stamp comes last  *)

Turn(k) == Head(prep[k].todo)
Swaps(k, p) ==
  /\ live' = [live EXCEPT ![p] = stage[k][p]]
  /\ stage' = [stage EXCEPT ![k][p] = live[p]]
Journaled(k, p) == [prep EXCEPT ![k].at = "publish", ![k].tries = 0, ![k].todo = Tail(@),
                                ![k].journal = <<p>> \o @]
\* publish_pair: exchange, create or delete, noted with signals blocked.
PublishPair(k) ==
  /\ At(k, "publish") /\ prep[k].todo # <<>> /\ Turn(k) # "config"
  /\ Swaps(k, Turn(k)) /\ prep' = Journaled(k, Turn(k))
  /\ UNCHANGED <<source, lock, history, mishaps>>
PublishEnds(k) ==
  /\ At(k, "publish") /\ prep[k].todo = <<>> /\ Ends(k)
  /\ UNCHANGED <<source, live, history, mishaps>>

\* merge_runtime_config: what the launcher manages is the candidate's, the rest the home's.
MergedBlank(k) == {}
Merged(k) == live.config.runtime
Merge(k) ==
  /\ At(k, "publish") /\ prep[k].todo # <<>> /\ Turn(k) = "config"
  /\ prep' = [prep EXCEPT ![k].at = "swap", ![k].expected = live.config.runtime]
  /\ stage' = [stage EXCEPT ![k].config.runtime = Merged(k)]
  /\ UNCHANGED <<source, live, lock, history, mishaps>>
Swap(k) ==
  /\ At(k, "swap") /\ Goes(k, "check") /\ Swaps(k, "config")
  /\ UNCHANGED <<source, lock, history, mishaps>>
\* Codex has saved to the file that is about to leave the home.
Crosses(k) == ~(live.config.runtime \subseteq stage[k].config.runtime)
\* What came out must be what was merged; otherwise it goes back, to be merged again.
NeverOvertaken(k) == FALSE
Overtaken(k) == stage[k].config.runtime # prep[k].expected
Check(k) ==
  /\ At(k, "check")
  /\ IF Overtaken(k)
     THEN /\ Swaps(k, "config") /\ crossed' = (crossed \/ Crosses(k))
          /\ prep' = [prep EXCEPT ![k].tries = @ + 1,
                                  ![k].at = IF prep[k].tries + 1 = Tries THEN "undo" ELSE "publish"]
     ELSE prep' = Journaled(k, "config") /\ UNCHANGED <<live, stage, crossed>>
  /\ UNCHANGED <<source, lock, saved, broken, mishaps>>

\* A failure or a signal: every exchange of the journal is undone, the latest first.
UndoesNothing(k) == TRUE
Undone(k) == prep[k].journal = <<>>
Undo(k) ==
  /\ At(k, "undo") /\ UNCHANGED <<source, saved, broken, mishaps>>
  /\ IF Undone(k) THEN Ends(k) /\ UNCHANGED <<live, crossed>>
     ELSE LET p == Head(prep[k].journal) IN
          /\ Swaps(k, p) /\ prep' = [prep EXCEPT ![k].journal = Tail(@)]
          /\ crossed' = (crossed \/ (p = "config" /\ Crosses(k)))
          /\ UNCHANGED lock

-----------------------------------------------------------------------------
(* Everybody else  *)

Mishap == mishaps < MaxMishaps /\ mishaps' = mishaps + 1
\* Before the publication a signal just ends the preparation; a check is not interrupted.
Signal(k) ==
  /\ ~At(k, "idle") /\ ~At(k, "check") /\ ~At(k, "undo") /\ Mishap
  /\ IF At(k, "publish") \/ At(k, "swap") THEN Goes(k, "undo") /\ UNCHANGED <<stage, lock>> ELSE Ends(k)
  /\ UNCHANGED <<source, live, history>>
Dies(k) ==
  /\ ~At(k, "idle") /\ Mishap /\ Ends(k)
  /\ crossed' = (crossed \/ (At(k, "check") /\ ~(stage[k].config.runtime \subseteq live.config.runtime)))
  /\ broken' = (broken \/ At(k, "publish") \/ At(k, "swap") \/ At(k, "check") \/ At(k, "undo"))
  /\ UNCHANGED <<source, live, saved>>
EditsOutput(o) ==
  /\ Mishap /\ broken' = TRUE
  /\ live' = [live EXCEPT ![o] = None]
  /\ UNCHANGED <<source, stage, lock, prep, saved, crossed>>
EditsSource ==
  /\ source < MaxEdits /\ source' = source + 1
  /\ UNCHANGED <<live, stage, lock, prep, history, mishaps>>
\* Codex rewrites the configuration it finds, with one more setting of its own.
CodexSaves(s) ==
  /\ s \notin saved /\ saved' = saved \cup {s}
  /\ live' = [live EXCEPT !.config.runtime = @ \cup {s}]
  /\ UNCHANGED <<source, stage, lock, prep, crossed, broken, mishaps>>

Step(k) ==
  \/ Start(k) \/ Probe(k) \/ Fingerprint(k) \/ Resolve(k) \/ Compile(k) \/ Validate(k)
  \/ PublishPair(k) \/ PublishEnds(k) \/ Merge(k) \/ Swap(k) \/ Check(k) \/ Undo(k)
  \/ Signal(k) \/ Dies(k)
Next ==
  \/ \E k \in Preparers : Step(k)
  \/ \E o \in Outputs : EditsOutput(o)
  \/ EditsSource
  \/ \E s \in Saves : CodexSaves(s)

Spec == Init /\ [][Next]_vars

-----------------------------------------------------------------------------
(* Properties *)

PublicationTypeOK ==
  /\ lock # Nobody => ~At(lock, "idle")
  /\ \A k \in Preparers : lock # k => At(k, "idle") /\ stage[k] = Blank
  /\ \A k \in Preparers : prep[k].tries <= Tries /\ prep[k].expected \subseteq saved
  /\ live.config.runtime \subseteq saved /\ source \in 0..MaxEdits

\* The warm probe is right, after deaths and edits too: a home it accepts is what the
\* sources compile to now.
WarmIsTrue == IsWarm(live) => Faithful(live, source)

Publishing == \E k \in Preparers : prep[k].at \in {"publish", "swap", "check", "undo"}
\* While nobody publishes, a home is of one version: failures and signals leave the previous
\* publication, sources edited during a compilation do not get through.
HomeWhole == (~Publishing /\ ~broken) => Faithful(live, live.stamp.digest) /\ live.cache = live.stamp.digest

\* What Codex saves while a home is published is not lost, unless its file is exchanged
\* back or its preparer dies right then.
RuntimeKept ==
  ~crossed => saved \subseteq live.config.runtime \cup
                UNION {stage[k].config.runtime : k \in {x \in Preparers : At(x, "check")}}

SurfaceHolds == WarmIsTrue /\ HomeWhole /\ RuntimeKept
=============================================================================
