--------------------------- MODULE SurfaceSelection ---------------------------
(***************************************************************************)
(* Which skills a generated Codex home exposes (scan, choose_skills and    *)
(* materialize of bin/codex-surface.py).                                   *)
(*                                                                         *)
(* A skill may be found on several routes: the project's store, the        *)
(* user's, an installed plugin, the agents directory of the repository.    *)
(* The manifest lists what is exposed; whatever Codex would find besides   *)
(* is disabled by its path.  The inputs, every inventory of a small        *)
(* universe under every valid manifest, are chosen at first.               *)
(***************************************************************************)
EXTENDS Naturals, FiniteSets

CONSTANTS Plain, Qualified,   \* two names, the second with the namespace of a plugin
          None

VARIABLES
  inventory,   \* the routes that exist
  manifest,    \* listed: the lists each store's skill is on; choice: one duplicate_choices entry
  skills,      \* the skills directory of the home
  marker,      \* the names .harness-managed lists
  quarantine,  \* directories moved out of the way
  disabled,    \* disabled_skill_paths
  exposed,     \* the catalog
  outcome,
  own          \* the directories that were the user's (history only)

result == <<quarantine, disabled, exposed, outcome>>
vars == <<inventory, manifest, skills, marker, result, own>>

Names == {Plain, Qualified}
Invocations == {"implicit", "explicit_only"}
\* In the order of choose_skills; source_precedence puts plugins before the user's store.
Stores == {"repo-claude", "global-agents", "claude-plugin"}
Listing == [s \in Stores |-> CASE s = "repo-claude" -> 1 [] s = "global-agents" -> 2 [] OTHER -> 3]
Precedence == [s \in Stores |-> CASE s = "repo-claude" -> 1 [] s = "claude-plugin" -> 2 [] OTHER -> 3]

Route(s, n, d, p) == [source |-> s, name |-> n, digest |-> d, path |-> p]
\* What the stores may hold; an entry may be a symbolic link to the project's skill.
ScanProject == {{}, {Route("repo-claude", Plain, 1, "project")}}
ScanGlobal == {{}, {Route("global-agents", Plain, 1, "project")},
               {Route("global-agents", Plain, 1, "global"), Route("global-agents", Plain, 2, "other")}}
              \cup {{Route("global-agents", n, d, "global")} : n \in Names, d \in 1..2}
ScanPlugin == {{}} \cup {{Route("claude-plugin", Qualified, d, "plugin")} : d \in 1..2}
ScanAgents == {{}} \cup {{Route("repo-agents", Plain, d, IF d = 1 THEN "project" ELSE "agents")} : d \in 1..2}

\* A store is asked for its one skill by the name of its directory.
Manifests ==
  [listed : [Stores -> {{}} \cup {{i} : i \in Invocations}],
   choice : {None, <<"project:*", "repo-claude">>} \cup ({Plain} \X {"repo-claude", "global-agents"})
              \cup ({Qualified} \X {"claude-plugin", "global-agents"})]

\* The entry of a directory: what it is and the skill it shows; a user's own is a directory.
Free == [kind |-> "free", path |-> None]
Own == [kind |-> "user", path |-> None]
Stale == [kind |-> "managed", path |-> None]

Init ==
  /\ inventory = {} /\ manifest = None /\ skills = [d \in Names |-> Free] /\ marker = {} /\ own = {}
  /\ quarantine = {} /\ disabled = {} /\ exposed = {} /\ outcome = None

\* What is there when the resolver is called.
CollectCandidates ==
  /\ manifest = None /\ manifest' \in Manifests
  /\ \E p \in ScanProject, g \in ScanGlobal, c \in ScanPlugin, a \in ScanAgents :
       inventory' = p \cup g \cup c \cup a
  /\ \/ skills' = [skills EXCEPT ![Plain] = Stale] /\ own' = {} /\ marker' = {Plain}
     \/ skills' = [skills EXCEPT ![Plain] = Own] /\ own' = {Plain} /\ marker' \in {{}, {Plain}}
  /\ UNCHANGED result

-----------------------------------------------------------------------------
(* choose_skills *)

Found(s) == {r \in inventory : r.source = s}
Missing == \E s \in Stores : manifest.listed[s] # {} /\ Cardinality(Found(s)) # 1
Items == {[route |-> r, how |-> i] : r \in inventory, i \in Invocations}
Listed == {i \in Items : i.route.source \in Stores /\ i.how \in manifest.listed[i.route.source]}
Divergent(routes) == Cardinality({r.digest : r \in routes}) > 1
\* duplicate_choice
Choice(n, r) ==
  IF manifest.choice # None /\ \/ manifest.choice[1] = n
                               \/ manifest.choice[1] = "project:*" /\ r.source = "repo-claude"
  THEN manifest.choice[2] ELSE None

\* The same file, invoked the same way, counts once: the route listed last stands for it.
Unique(n) ==
  {i \in Listed : /\ i.route.name = n
                  /\ \A j \in Listed :
                       (j.route.name = n /\ j.how = i.how /\ j.route.path = i.route.path)
                       => Listing[j.route.source] <= Listing[i.route.source]}
Provisional(n) ==
  CHOOSE i \in Unique(n) : \A j \in Unique(n) : Precedence[i.route.source] <= Precedence[j.route.source]
DuplicateChoice(n) == Choice(n, Provisional(n).route)
Matching(n) == {i \in Unique(n) : i.route.source = DuplicateChoice(n)}
Undecided(n) ==
  /\ Cardinality(Unique(n)) > 1
  /\ IF DuplicateChoice(n) = None THEN Divergent({i.route : i \in Unique(n)}) ELSE Cardinality(Matching(n)) # 1
ByName(n) ==
  IF Cardinality(Unique(n)) = 1 \/ DuplicateChoice(n) = None THEN Provisional(n)
  ELSE CHOOSE i \in Matching(n) : TRUE

\* Routes that are not on the manifest count too.
Routes(n) == {r \in inventory : r.name = n}
ContestedListed(n) == FALSE
Contested(n) ==
  /\ Divergent(Routes(n))
  /\ LET choice == Choice(n, ByName(n).route) IN choice = None \/ choice # ByName(n).route.source
Asked == {n \in Names : Unique(n) # {}}
Selected == {ByName(n) : n \in Asked}
Rejected == Missing \/ \E n \in Asked : Undecided(n) \/ Contested(n)

-----------------------------------------------------------------------------
(* materialize *)

\* managed_destination: a plugin keeps the directory's own name.
Destination(r) == IF r.source = "claude-plugin" THEN Plain ELSE r.name
Planned == {Destination(i.route) : i \in Selected}
CollidesNever == FALSE
Collides == Cardinality(Planned) # Cardinality(Selected)
\* remove_managed_entry spares what the launcher did not make.
RemovesAny(entry) == Free
RemoveManagedEntry(entry) == IF entry.kind = "user" THEN entry ELSE Free
Pruned == [d \in Names |-> IF d \in marker THEN RemoveManagedEntry(skills[d]) ELSE skills[d]]
Unplanned == {d \in Names \ Planned : Pruned[d].kind # "free"}
Refused == {d \in Planned : RemoveManagedEntry(Pruned[d]).kind = "user"}
\* A command or an explicit skill, and a plugin's, is copied; others are linked.
Entry(i) ==
  [kind |-> IF i.how = "explicit_only" \/ i.route.source = "claude-plugin" THEN "wrapper" ELSE "link",
   path |-> i.route.path]

\* The exact paths of everything that is not exposed, and of what is only shown as a copy.
SparesExplicit(r) == \E i \in Selected : i.route.name = r.name /\ i.route.path = r.path
Spared(r) ==
  \E i \in Selected :
    /\ i.route.name = r.name /\ i.route.path = r.path /\ r.source # "repo-agents"
    /\ r.source # "claude-plugin" /\ ~(r.source = "global-agents" /\ i.how = "explicit_only")
DisabledPaths == {r.path : r \in {x \in inventory : ~Spared(x)}}

Fails == outcome' = "failed" /\ UNCHANGED <<skills, marker, quarantine, disabled, exposed>>
\* It stops at the first directory it must not replace: those before it are in place.
Stops ==
  /\ outcome' = "failed" /\ UNCHANGED <<marker, disabled, exposed>>
  /\ \E placed \in SUBSET {i \in Selected : Destination(i.route) \notin Refused} :
       skills' = [d \in Names |->
         IF d \in Unplanned THEN Free
         ELSE IF \E i \in placed : Destination(i.route) = d THEN Entry(CHOOSE i \in placed : Destination(i.route) = d)
         ELSE Pruned[d]]
Materialize ==
  /\ outcome' = "ok" /\ exposed' = Selected /\ disabled' = DisabledPaths /\ marker' = Planned
  /\ skills' = [d \in Names |->
       IF d \in Planned THEN Entry(CHOOSE i \in Selected : Destination(i.route) = d) ELSE Free]

Resolve ==
  /\ manifest # None /\ outcome = None /\ UNCHANGED <<inventory, manifest, own>>
  /\ IF Rejected \/ Collides THEN Fails
     ELSE /\ quarantine' = quarantine \cup {d \in Unplanned : Pruned[d].kind = "user"}
          /\ IF Refused # {} THEN Stops ELSE Materialize

Next == CollectCandidates \/ Resolve
Spec == Init /\ [][Next]_vars

-----------------------------------------------------------------------------
(* Properties *)

SelectionTypeOK ==
  /\ outcome \in {None, "ok", "failed"} /\ marker \subseteq Names /\ quarantine \subseteq Names
  /\ disabled \subseteq {r.path : r \in inventory} /\ exposed \subseteq Items

\* No skill is exposed while another text of the same name exists on any route, listed or
\* not, unless the manifest says which of them it wants.
NothingShadowed ==
  \A i \in exposed : Divergent(Routes(i.route.name)) => Choice(i.route.name, i.route) = i.route.source

\* Codex finds each exposed skill in its directory and by no other way: every other route of
\* that name is disabled, a link to a disabled file is not a skill (unless the repository's
\* agents directory is itself a link to it), and an explicit skill has no implicit route.
FoundOnce ==
  \A i \in exposed :
    /\ skills[Destination(i.route)] = Entry(i)
    /\ \A r \in Routes(i.route.name) : r.path # i.route.path => r.path \in disabled
    /\ (Entry(i).kind = "link" /\ i.route.path \in disabled)
       => \E r \in inventory : r.source = "repo-agents" /\ r.path = i.route.path
    /\ i.how = "explicit_only"
       => \A r \in Routes(i.route.name) : r.source = "global-agents" => r.path \in disabled

\* A directory of the user's is neither removed nor written over, whatever the marker says.
UsersKept ==
  \A d \in Names : (outcome # None /\ skills[d].kind # "user" /\ d \notin quarantine) => d \notin own

SelectionHolds == NothingShadowed /\ FoundOnce /\ UsersKept
=============================================================================
