------------------------------ MODULE ForkRequest ------------------------------
(***************************************************************************)
(* The command line of an explicit Claude fork (_request and rewrite of    *)
(* bin/harness_claude_fork.py): which arguments ask for the fork of one    *)
(* session, and the line that is run instead, with the transcript in place *)
(* of the session's identifier and the launch settings of the origin where *)
(* the caller gave none.                                                   *)
(*                                                                         *)
(* A line is read from the left: an option takes its value before anything *)
(* else looks at it, --passthrough ends the launcher's keywords, and --    *)
(* ends everything.  One token stands for each class the code tells apart; *)
(* options written with = are left out.                                    *)
(***************************************************************************)
EXTENDS Naturals, Sequences, SequencesExt

CONSTANTS None,
          MaxBlocks,    \* bound on what a line is put together from
          Origins       \* what launches inherit: records of settings, or None

\* The line so far, the number of blocks in it, and how it reads.
VARIABLES args, blocks, reading

Uuid == "uuid"
Locator == "locator"
PermissionWords == {"bypass"}
ModelWords == {"plan"}      \* each chooses an effort too
LauncherWords == PermissionWords \cup ModelWords
ValueOptions == {"--permission-mode", "--model"}
Permissions == {"plan", "default"}
Blocks == {<<"--resume", Uuid>>, <<"resume", Uuid>>, <<"--fork-session">>, <<"--passthrough">>, <<"--">>,
           <<"bypass">>, <<"plan">>, <<"--permission-mode">>, <<"--model">>, <<"codex">>, <<"--unknown">>}

(***************************************************************************)
(* _request: the reading of a line.                                        *)
(***************************************************************************)
Unread == [open |-> None, native |-> FALSE, ended |-> FALSE, unknown |-> FALSE, forks |-> 0, resumes |-> <<>>,
           words |-> <<>>, permission |-> <<>>, model |-> <<>>, effort |-> <<>>, roles |-> <<>>]

IsWord(r, a) == ~r.native /\ a \in LauncherWords
IsResume(r, a) == a = "--resume" \/ (a = "resume" /\ ~r.native)

\* What a launcher's keyword chooses.
Word(r, a) ==
  LET chosen == IF a \in ModelWords THEN <<a>> ELSE <<>>
  IN  [r EXCEPT !.words = Append(@, a), !.model = @ \o chosen, !.effort = @ \o chosen,
                !.permission = IF a \in PermissionWords THEN Append(@, a) ELSE @]

\* The value of the option before it, whatever it looks like.
Value(r, a) ==
  CASE r.open = "--resume" -> [r EXCEPT !.open = None, !.resumes = Append(@, a)]
    [] r.open = "--permission-mode" ->
         [r EXCEPT !.open = None, !.permission = Append(@, a), !.unknown = @ \/ a \notin Permissions]
    [] r.open = "--model" -> [r EXCEPT !.open = None, !.model = Append(@, a)]
    [] r.open = "--effort" -> [r EXCEPT !.open = None, !.effort = Append(@, a)]

\* A token that is no value.
Control(r, a) ==
  CASE a = "--" -> [r EXCEPT !.ended = TRUE]
    [] a = "--passthrough" -> [r EXCEPT !.native = TRUE, !.unknown = @ \/ r.native]
    [] IsWord(r, a) -> Word(r, a)
    [] a = "--fork-session" -> [r EXCEPT !.forks = @ + 1]
    [] IsResume(r, a) -> [r EXCEPT !.open = "--resume"]
    [] a \in ValueOptions \cup {"--effort"} -> [r EXCEPT !.open = a]
    [] a = "--unknown" -> [r EXCEPT !.unknown = TRUE]
    [] OTHER -> r

Role(r, a) ==
  CASE r.ended -> "prompt"
    [] ~r.ended /\ r.open = "--resume" -> "id"
    [] ~r.ended /\ r.open \in ValueOptions \cup {"--effort"} -> "value"
    [] OTHER -> IF IsWord(r, a) THEN "word" ELSE IF IsResume(r, a) THEN "resume"
                ELSE IF a \in {"--", "--passthrough"} THEN a ELSE "native"

ReadsEagerly(r, a) ==
  LET n == IF r.ended THEN r
           ELSE IF r.open # None /\ a # "--passthrough" THEN Value(r, a)
           ELSE Control([r EXCEPT !.open = None], a)
  IN  [n EXCEPT !.roles = Append(@, Role(r, a))]
Reads(r, a) ==
  LET n == IF r.ended THEN r ELSE IF r.open # None THEN Value(r, a) ELSE Control(r, a)
  IN  [n EXCEPT !.roles = Append(@, Role(r, a))]

Read(line) == FoldLeft(Reads, Unread, line)

\* "fork", "resume", "other" (not an exact resume), or "refused".
Request(line, r) ==
  LET resumes == IF r.open = "--resume" THEN Append(r.resumes, "") ELSE r.resumes
  IN  IF line # <<>> /\ line[1] = "codex" THEN "other"
      ELSE IF "--fork-session" \in Range(resumes) \/ r.forks > 1 \/ Len(resumes) > 1 THEN "refused"
      ELSE IF resumes # <<Uuid>> THEN (IF r.forks > 0 THEN "refused" ELSE "other")
      ELSE IF r.unknown \/ r.open # None THEN "refused"
      ELSE IF r.forks = 1 THEN "fork" ELSE "resume"

(***************************************************************************)
(* rewrite: keywords first, then --passthrough, then what Claude gets.     *)
(***************************************************************************)
Setting(origin, name) == IF origin = None THEN None ELSE origin[name]
Permission(origin) == IF Setting(origin, "permission") = None THEN "default" ELSE Setting(origin, "permission")
Given(option, value) == IF value = None THEN <<>> ELSE <<option, value>>

\* What the caller left open.
FilledAlways(r, origin) ==
  <<"--permission-mode", Permission(origin)>> \o Given("--model", Setting(origin, "model"))
    \o Given("--effort", Setting(origin, "effort"))
FilledIn(r, origin) ==
  (IF r.permission # <<>> THEN <<>> ELSE <<"--permission-mode", Permission(origin)>>)
    \o (IF r.model # <<>> THEN <<>> ELSE Given("--model", Setting(origin, "model")))
    \o (IF r.effort # <<>> THEN <<>> ELSE Given("--effort", Setting(origin, "effort")))

Kept(line, r, i) ==
  CASE r.roles[i] \in {"word", "--passthrough"} -> <<>>
    [] r.roles[i] = "resume" -> <<"--resume">>
    [] r.roles[i] = "id" -> <<Locator>>
    [] OTHER -> <<line[i]>>

\* The end of the options: the first -- that is no value, or the end of the line.
End(r) == IF r.ended THEN CHOOSE i \in DOMAIN r.roles : r.roles[i] = "--" ELSE Len(r.roles) + 1
Part(line, r, from, to) == FlattenSeq([i \in 1..(to - from + 1) |-> Kept(line, r, from + i - 1)])

RewriteLast(line, r, origin) ==
  r.words \o <<"--passthrough">> \o Part(line, r, 1, Len(line)) \o FilledIn(r, origin)
RewriteBare(line, r, origin) ==
  r.words \o Part(line, r, 1, End(r) - 1) \o FilledIn(r, origin) \o Part(line, r, End(r), Len(line))
Rewrite(line, r, origin) ==
  r.words \o <<"--passthrough">> \o Part(line, r, 1, End(r) - 1) \o FilledIn(r, origin)
        \o Part(line, r, End(r), Len(line))

(***************************************************************************)
(* The callers' lines.                                                     *)
(***************************************************************************)
Init == args = <<>> /\ blocks = 0 /\ reading = Unread
Longer(block) ==
  /\ blocks < MaxBlocks /\ blocks' = blocks + 1
  /\ args' = args \o block /\ reading' = FoldLeft(Reads, reading, block)
Next == \E block \in Blocks : Longer(block)
Spec == Init /\ [][Next]_<<args, blocks, reading>>

(***************************************************************************)
(* Properties                                                              *)
(***************************************************************************)
\* The type invariant.
ForkRequestTypeOK == blocks \in 0..MaxBlocks /\ \A i \in DOMAIN args : \E block \in Blocks : args[i] \in Range(block)

OrElse(choices, other) == IF choices # <<>> THEN Range(choices) ELSE {other} \ {None}
Prompt(line, r) == SubSeq(line, End(r), Len(line))

\* rewrite, read back, is what the caller asked for: one resume, of the transcript, and one fork;
\* the same keywords, none of them from a value or a prompt; the caller's settings, and only where
\* he gave none the origin's, or the default permission; and the same prompt behind --.  (Keywords
\* come to stand before options, so choices are compared without their order.)
ReadsBack ==
  Request(args, reading) = "fork" =>
    \A origin \in Origins :
      LET was == reading
          line == Rewrite(args, was, origin)
          is == Read(line)
      IN  /\ is.resumes = <<Locator>> /\ is.forks = 1 /\ ~is.unknown /\ is.open = None
          /\ is.words = was.words
          /\ Range(is.permission) = OrElse(was.permission, Permission(origin))
          /\ Range(is.model) = OrElse(was.model, Setting(origin, "model"))
          /\ Range(is.effort) = OrElse(was.effort, Setting(origin, "effort"))
          /\ Prompt(line, is) = Prompt(args, was)

\* The flag counts only where it is an option: a line whose every --fork-session is the
\* value of an option, or stands behind the end of the options, does not ask for a fork.
ForksByOption ==
  Request(args, reading) = "fork" =>
    \E i \in DOMAIN args :
      /\ args[i] = "--fork-session" /\ i < End(reading)
      /\ \/ i = 1
         \/ args[i - 1] \notin ValueOptions
         \/ i > 2 /\ args[i - 2] \in ValueOptions

ForkRequestHolds == ReadsBack /\ ForksByOption
================================================================================
