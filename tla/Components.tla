----------------------------- MODULE Components -----------------------------
(***************************************************************************)
(* The components that share no file, lock or service with one another.    *)
(* A behaviour exercises one of them, chosen at the start: steps of two of *)
(* them commute, so interleaving them would show nothing more.             *)
(*                                                                         *)
(* Those that the theorems of ComponentsProofs are about come first, for   *)
(* any value of their constants; the others are small instances.           *)
(***************************************************************************)
EXTENDS Naturals, Sequences, FiniteSets, TLC

CONSTANTS
  Nobody, None, ClientProcs, MaxStops,
  Creates, Dependents, SourceOf, LifecycleRuns,    \* HerdrLifecycle
  StepCount, TornBan,                              \* HerdrUIAnswer
  RequestIntents, RequestRuns, MaxRecords, MaxMishaps,    \* HerdrAgentRequest
  Launchers, Launcher,                             \* HerdrLaunch
  TargetRuns, Digests,                             \* TargetDelivery
  HeadlessRuns, Elsewhere, MaxRequests, MaxSignals,    \* HeadlessRun
  Forks, MaxWrites, MaxResumes,                    \* ClaudeFork
  MaxMessages,                                     \* AppServerGuard
  Sessions, Resumers, Keepers, Canonical, App, Outsider,    \* NativeHistory
  \* the other modules' values, and names for processes and sessions
  Failed, Plain, Qualified,
  h1, h2, k1, k2, r1, r2, s1, s2, watch

VARIABLES
  component,  \* the component this behaviour exercises
  \* its variables, in the order its module declares them; those it does not need stay 0
  v1, v2, v3, v4, v5, v6, v7, v8, v9, v10, v11, v12, v13, v14, v15, v16,
  v17, v18, v19, v20, v21, v22, v23, v24, v25, v26, v27, v28

vars ==
  <<component,
    v1, v2, v3, v4, v5, v6, v7, v8, v9, v10, v11, v12, v13, v14, v15, v16,
    v17, v18, v19, v20, v21, v22, v23, v24, v25, v26, v27, v28>>

\* HerdrUIAnswerProofs has the instance Lifecycle, of HerdrLifecycle, beside HerdrUIAnswer.
UIAnswer == INSTANCE HerdrUIAnswerProofs WITH
  Procs <- ClientProcs, Torn <- TornBan,
  receipt <- v1, ban <- v2, lock <- v3, proc <- v4, wire <- v5, answer <- v6,
  workflow <- v7, open <- v8, sent <- v9, cancels <- v10, stops <- v11,
  getOnly <- v2, recovery <- v7, server <- v10

\* HerdrRequestProofs has the instance Launch, of HerdrLaunch, beside HerdrAgentRequest.
AgentRequest == INSTANCE HerdrRequestProofs WITH
  Procs <- ClientProcs, Intents <- RequestIntents, Runs <- RequestRuns,
  receipt <- v1, old <- v2, lock <- v3, capacity <- v4, proc <- v5, wire <- v6,
  answer <- v7, server <- v8, open <- v9, sent <- v10, aged <- v11, stops <- v12,
  content <- v1, name <- v2, temp <- v3, launch <- v4, posted <- v5, job <- v6,
  posts <- v7, faults <- v8

\* HeadlessProofs has the instances Headless, of HeadlessRun, and Bootstrap, of
\* CanonicalBootstrap, beside TargetDelivery.
Target == INSTANCE HeadlessProofs WITH
  Runs <- TargetRuns, journal <- v1, record <- v2, holder <- v3, run <- v4,
  wire <- v5, branch <- v6, prs <- v7, change <- v8, pushed <- v9,
  Tasks <- HeadlessRuns, lock <- v1, results <- v2, task <- v3, alive <- v4,
  session <- v5, leased <- v6, forwarder <- v7, message <- v8, temp <- v9,
  signals <- v10,
  MaxReplaced <- 1, parent <- v1, native <- v2, asked <- v3, up <- v4, down <- v5,
  sequence <- v6, judging <- v7, bound <- v8, held <- v9, pinned <- v10, version <- v11,
  replaced <- v12, changed <- v13, cancelled <- v14, expired <- v15, lifeline <- v16, term <- v17,
  aborted <- v18, decision <- v19, effect <- v20, result <- v21, clean <- v22, final <- v23,
  lease <- v24, receipt <- v25, exit <- v26, granted <- v27, cut <- v28

Surface == INSTANCE SurfacePublication WITH
  Preparers <- {k1, k2}, Saves <- {s1, s2}, Tries <- 2, MaxEdits <- 2,
  MaxMishaps <- 1, source <- v1, live <- v2, stage <- v3, lock <- v4, prep
  <- v5, saved <- v6, crossed <- v7, broken <- v8, mishaps <- v9

Selection == INSTANCE SurfaceSelection WITH
  inventory <- v1, manifest <- v2, skills <- v3, marker <- v4, quarantine <-
  v5, disabled <- v6, exposed <- v7, outcome <- v8, own <- v9

Enrollment == INSTANCE OmpEnrollment WITH
  Profiles <- {"p", "q"}, Controllers <- {"a", "b"}, Watched <- {"p"},
  Publishers <- {"a"}, MaxOps <- 2, root <- v1, index <- v2, state <- v3,
  writer <- v4, ctl <- v5, sel <- v6, live <- v7, acked <- v8, torn <- v9,
  landed <- v10, ops <- v11

EnrollmentDeep == INSTANCE OmpEnrollment WITH
  Profiles <- {"p"}, Controllers <- {"a", "b"}, Watched <- {"p"}, Publishers
  <- {"a"}, MaxOps <- 3, root <- v1, index <- v2, state <- v3, writer <- v4,
  ctl <- v5, sel <- v6, live <- v7, acked <- v8, torn <- v9, landed <- v10,
  ops <- v11

Continuation == INSTANCE OmpContinuation WITH
  Runs <- 1..3, MaxKills <- 1, record <- v1, prepared <- v2, files <- v3,
  lease <- v4, lock <- v5, run <- v6, helper <- v7, native <- v8, exit <-
  v9, runtime <- v10, dev <- v11, kills <- v12

Notices == INSTANCE PluginNotices WITH
  Procs <- {h1, h2}, Watcher <- watch, MaxEvents <- 3, live <- v1, token <-
  v2, rec <- v3, events <- v4, run <- v5, shown <- v6, count <- v7, missed
  <- v8

NoticesWatched == INSTANCE PluginNotices WITH
  Procs <- {h1, watch}, Watcher <- watch, MaxEvents <- 2, live <- v1, token
  <- v2, rec <- v3, events <- v4, run <- v5, shown <- v6, count <- v7,
  missed <- v8

TabsClaude == INSTANCE PluginTabs WITH
  Agent <- "claude", MaxChanges <- 2, MaxFaults <- 0, herdr <- v1, file <-
  v2, st <- v3, sync <- v4, w <- v5, events <- v6, left <- v7, ghost <- v8

TabsCodex == INSTANCE PluginTabs WITH
  Agent <- "codex", MaxChanges <- 2, MaxFaults <- 0, herdr <- v1, file <-
  v2, st <- v3, sync <- v4, w <- v5, events <- v6, left <- v7, ghost <- v8

TabsFaults == INSTANCE PluginTabs WITH
  Agent <- "codex", MaxChanges <- 1, MaxFaults <- 1, herdr <- v1, file <-
  v2, st <- v3, sync <- v4, w <- v5, events <- v6, left <- v7, ghost <- v8

\* RetirementProofs has SessionRetirement and, with Restorers, SessionRestore.
Retirement == INSTANCE RetirementProofs WITH
  Kinds <- {<<"CLOSED", FALSE>>},
  Custodian <- TRUE, Written <- {"head", "index", "files", "cache"},
  MaxWrites <- 1, MaxDeaths <- 1, Restorers <- {}, dir <- v1, owner <- v2, kept <- v3,
  lease <- v4, ar <- v5, gc <- v6, cust <- v7, left <- v8, ghost <- v9,
  target <- v10, res <- v11

RetirementDelivered == INSTANCE RetirementProofs WITH
  Kinds <- {<<"DISCARDED", FALSE>>, <<"DELIVERED", FALSE>>, <<"DELIVERED", TRUE>>},
  Custodian <- FALSE, Written <- {"head", "index", "files", "cache"},
  MaxWrites <- 1, MaxDeaths <- 1, Restorers <- {}, dir <- v1, owner <- v2, kept <- v3,
  lease <- v4, ar <- v5, gc <- v6, cust <- v7, left <- v8, ghost <- v9,
  target <- v10, res <- v11

RetirementWritten == INSTANCE RetirementProofs WITH
  Kinds <- {<<"CLOSED", FALSE>>},
  Custodian <- TRUE, Written <- {"head", "index", "files", "cache"},
  MaxWrites <- 2, MaxDeaths <- 0, Restorers <- {}, dir <- v1, owner <- v2, kept <- v3,
  lease <- v4, ar <- v5, gc <- v6, cust <- v7, left <- v8, ghost <- v9,
  target <- v10, res <- v11

Restore == INSTANCE RetirementProofs WITH
  Kinds <- {<<"CLOSED", FALSE>>},
  Custodian <- FALSE, Written <- {},
  MaxWrites <- 0, MaxDeaths <- 1, Restorers <- {r1, r2}, dir <- v1, owner <- v2, kept <- v3,
  lease <- v4, ar <- v5, gc <- v6, cust <- v7, left <- v8, ghost <- v9,
  target <- v10, res <- v11

RestoreWritten == INSTANCE RetirementProofs WITH
  Kinds <- {<<"CLOSED", FALSE>>},
  Custodian <- FALSE, Written <- {},
  MaxWrites <- 1, MaxDeaths <- 1, Restorers <- {r1}, dir <- v1, owner <- v2, kept <- v3,
  lease <- v4, ar <- v5, gc <- v6, cust <- v7, left <- v8, ghost <- v9,
  target <- v10, res <- v11

TitlesClaude == INSTANCE ClaudeTitles WITH
  Sessions <- {"s1", "s2"}, Names <- {"n1", "n2"}, MaxWrites <- 2,
  MaxHandoffs <- 2, MaxChanges <- 1, MaxFaults <- 0, tab <- v1, trans <- v2,
  clock <- v3, dir <- v4, b <- v5, alive <- v6, told <- v7, left <- v8

TitlesHandoffs == INSTANCE ClaudeTitles WITH
  Sessions <- {"s1", "s2"}, Names <- {"n1", "n2"}, MaxWrites <- 2,
  MaxHandoffs <- 3, MaxChanges <- 0, MaxFaults <- 0, tab <- v1, trans <- v2,
  clock <- v3, dir <- v4, b <- v5, alive <- v6, told <- v7, left <- v8

TitlesFaults == INSTANCE ClaudeTitles WITH
  Sessions <- {"s1", "s2"}, Names <- {"n1", "n2"}, MaxWrites <- 2,
  MaxHandoffs <- 1, MaxChanges <- 1, MaxFaults <- 1, tab <- v1, trans <- v2,
  clock <- v3, dir <- v4, b <- v5, alive <- v6, told <- v7, left <- v8

TitlesCodex == INSTANCE CodexTitles WITH
  Sessions <- {"s1", "s2"}, Watchers <- {"w1", "w2"}, MaxNames <- 2,
  MaxStarts <- 2, MaxFaults <- 4, mode <- v1, tab <- v2, index <- v3,
  request <- v4, hook <- v5, lock <- v6, status <- v7, p <- v8, codex <- v9,
  put <- v10, left <- v11

ForkLine == INSTANCE ForkRequest WITH
  MaxBlocks <- 4, Origins <- {None, [permission |-> "plan", model |->
  "opus", effort |-> "high"], [permission |-> None, model |-> None, effort
  |-> "low"]}, args <- v1, blocks <- v2, reading <- v3

Usage == INSTANCE UsageManifests WITH
  Sessions <- {"s1", "s2"}, StateHome <- [s \in {"s1", "s2"} |-> IF s = "s1"
  THEN "a" ELSE "b"], Source <- [s \in {"s1", "s2"} |-> IF s = "s1" THEN "h"
  ELSE "k"], Old <- {"s2"}, Launching <- "a", Profiles <- {"h", "k"}, Runs
  <- 1..2, Policies <- {[h |-> FALSE, k |-> TRUE]}, MaxLaunches <- 1,
  MaxChanges <- 1, MaxFaults <- 0, policy <- v1, record <- v2, worktree <-
  v3, archive <- v4, transcripts <- v5, manifest <- v6, excluded <- v7, run
  <- v8, lock <- v9, launches <- v10, changes <- v11, faults <- v12, due <-
  v13, hidden <- v14

UsageFaults == INSTANCE UsageManifests WITH
  Sessions <- {"s1", "s2"}, StateHome <- [s \in {"s1", "s2"} |-> IF s = "s1"
  THEN "a" ELSE "b"], Source <- [s \in {"s1", "s2"} |-> IF s = "s1" THEN "h"
  ELSE "k"], Old <- {"s2"}, Launching <- "a", Profiles <- {"h", "k"}, Runs
  <- 1..2, Policies <- {[h |-> FALSE, k |-> TRUE]}, MaxLaunches <- 2,
  MaxChanges <- 0, MaxFaults <- 1, policy <- v1, record <- v2, worktree <-
  v3, archive <- v4, transcripts <- v5, manifest <- v6, excluded <- v7, run
  <- v8, lock <- v9, launches <- v10, changes <- v11, faults <- v12, due <-
  v13, hidden <- v14

\* GuardProofs has the instances Guard, of AppServerGuard, and History, of
\* NativeHistory, beside ClaudeFork.
Fork == INSTANCE GuardProofs WITH
  journal <- v1, hold <- v2, written <- v3, lock <- v4, process <- v5, fork
  <- v6, parent <- v7, raw <- v8, line <- v1, inbound <- v2, outbound <- v3,
  relayIn <- v4, relayOut <- v5, outLock <- v6, part <- v7, mixed <- v8,
  main <- v9, server <- v10, client <- v11,
  Launchers <- Resumers, place <- v1, content <- v2, terminal <- v3,
  lineage <- v4, snaps <- v5, latest <- v6, lease <- v7, idLease <- v8, run <- v9,
  wrote <- v10, torn <- v11, shorn <- v12, mishaps <- v13

\* The variables after those of the component: they stay 0.
Idle15 ==
  /\ v15 = 0 /\ v16 = 0 /\ v17 = 0 /\ v18 = 0 /\ v19 = 0 /\ v20 = 0 /\ v21 = 0
  /\ v22 = 0 /\ v23 = 0 /\ v24 = 0 /\ v25 = 0 /\ v26 = 0 /\ v27 = 0 /\ v28 = 0
Idle14 == v14 = 0 /\ Idle15
Idle13 == v13 = 0 /\ Idle14
Idle12 == v12 = 0 /\ Idle13
Idle11 == v11 = 0 /\ Idle12
Idle10 == v10 = 0 /\ Idle11
Idle9 == v9 = 0 /\ Idle10
Idle4 == v4 = 0 /\ v5 = 0 /\ v6 = 0 /\ v7 = 0 /\ v8 = 0 /\ Idle9
rest15 == <<v15, v16, v17, v18, v19, v20, v21, v22, v23, v24, v25, v26, v27, v28>>
rest14 == <<v14, rest15>>
rest13 == <<v13, rest14>>
rest12 == <<v12, rest13>>
rest11 == <<v11, rest12>>
rest10 == <<v10, rest11>>
rest9 == <<v9, rest10>>
rest4 == <<v4, v5, v6, v7, v8, rest9>>

\* What the theorems assume of the constants.
ASSUME ComponentsAssumption ==
  /\ UIAnswer!Lifecycle!LifecycleAssumption /\ UIAnswer!UIAnswerAssumption
  /\ AgentRequest!RequestAssumption /\ AgentRequest!Launch!LaunchAssumption /\ AgentRequest!Pair
  /\ Target!TargetAssumption /\ Target!Headless!HeadlessAssumption
  /\ Target!Bootstrap!BootstrapAssumption
  /\ Fork!ForkAssumption /\ Fork!Guard!GuardAssumption /\ Fork!History!HistoryAssumption
  /\ Retirement!RetirementAssumption /\ Retirement!RestoreAssumption
  /\ RetirementDelivered!RetirementAssumption /\ RetirementDelivered!RestoreAssumption
  /\ RetirementWritten!RetirementAssumption /\ RetirementWritten!RestoreAssumption
  /\ Restore!RetirementAssumption /\ Restore!RestoreAssumption
  /\ RestoreWritten!RetirementAssumption /\ RestoreWritten!RestoreAssumption

Init ==
  \/ /\ component = "lifecycle" /\ UIAnswer!Lifecycle!Init /\ Idle12
  \/ /\ component = "ui-answer" /\ UIAnswer!Init /\ Idle12
  \/ /\ component = "agent-request" /\ AgentRequest!Init /\ Idle13
  \/ /\ component = "launch" /\ AgentRequest!Launch!Init /\ Idle9
  \/ /\ component = "target" /\ Target!Init /\ Idle10
  \/ /\ component = "headless" /\ Target!Headless!Init /\ Idle11
  \/ /\ component = "history" /\ Fork!History!Init /\ Idle14
  \/ /\ component = "surface" /\ Surface!Init /\ Idle10
  \/ /\ component = "selection" /\ Selection!Init /\ Idle10
  \/ /\ component = "enrollment" /\ Enrollment!Init /\ Idle12
  \/ /\ component = "enrollment-deep" /\ EnrollmentDeep!Init /\ Idle12
  \/ /\ component = "continuation" /\ Continuation!Init /\ Idle13
  \/ /\ component = "bootstrap" /\ Target!Bootstrap!Init
  \/ /\ component = "notices" /\ Notices!Init /\ Idle9
  \/ /\ component = "notices-watched" /\ NoticesWatched!Init /\ Idle9
  \/ /\ component = "tabs-claude" /\ TabsClaude!Init /\ Idle9
  \/ /\ component = "tabs-codex" /\ TabsCodex!Init /\ Idle9
  \/ /\ component = "tabs-faults" /\ TabsFaults!Init /\ Idle9
  \/ /\ component = "retirement" /\ Retirement!Init /\ Idle10
  \/ /\ component = "retirement-delivered" /\ RetirementDelivered!Init /\ Idle10
  \/ /\ component = "retirement-written" /\ RetirementWritten!Init /\ Idle10
  \/ /\ component = "restore" /\ Restore!RestoreInit /\ Idle12
  \/ /\ component = "restore-written" /\ RestoreWritten!RestoreInit /\ Idle12
  \/ /\ component = "titles-claude" /\ TitlesClaude!Init /\ Idle9
  \/ /\ component = "titles-handoffs" /\ TitlesHandoffs!Init /\ Idle9
  \/ /\ component = "titles-faults" /\ TitlesFaults!Init /\ Idle9
  \/ /\ component = "titles-codex" /\ TitlesCodex!Init /\ Idle12
  \/ /\ component = "fork-request" /\ ForkLine!Init /\ Idle4
  \/ /\ component = "usage" /\ Usage!Init /\ Idle15
  \/ /\ component = "usage-faults" /\ UsageFaults!Init /\ Idle15
  \/ /\ component = "guard" /\ Fork!Guard!Init /\ Idle12
  \/ /\ component = "fork" /\ Fork!Init /\ Idle9

Next ==
  \/ /\ component = "lifecycle" /\ UIAnswer!Lifecycle!Next /\ UNCHANGED <<component, rest12>>
  \/ /\ component = "ui-answer" /\ UIAnswer!Next /\ UNCHANGED <<component, rest12>>
  \/ /\ component = "agent-request" /\ AgentRequest!Next /\ UNCHANGED <<component, rest13>>
  \/ /\ component = "launch" /\ AgentRequest!Launch!Next /\ UNCHANGED <<component, rest9>>
  \/ /\ component = "target" /\ Target!Next /\ UNCHANGED <<component, rest10>>
  \/ /\ component = "headless" /\ Target!Headless!Next /\ UNCHANGED <<component, rest11>>
  \/ /\ component = "history" /\ Fork!History!Next /\ UNCHANGED <<component, rest14>>
  \/ /\ component = "surface" /\ Surface!Next /\ UNCHANGED <<component, rest10>>
  \/ /\ component = "selection" /\ Selection!Next /\ UNCHANGED <<component, rest10>>
  \/ /\ component = "enrollment" /\ Enrollment!Next /\ UNCHANGED <<component, rest12>>
  \/ /\ component = "enrollment-deep" /\ EnrollmentDeep!Next /\ UNCHANGED <<component, rest12>>
  \/ /\ component = "continuation" /\ Continuation!Next /\ UNCHANGED <<component, rest13>>
  \/ /\ component = "bootstrap" /\ Target!Bootstrap!Next /\ UNCHANGED <<component>>
  \/ /\ component = "notices" /\ Notices!Next /\ UNCHANGED <<component, rest9>>
  \/ /\ component = "notices-watched" /\ NoticesWatched!Next /\ UNCHANGED <<component, rest9>>
  \/ /\ component = "tabs-claude" /\ TabsClaude!Next /\ UNCHANGED <<component, rest9>>
  \/ /\ component = "tabs-codex" /\ TabsCodex!Next /\ UNCHANGED <<component, rest9>>
  \/ /\ component = "tabs-faults" /\ TabsFaults!Next /\ UNCHANGED <<component, rest9>>
  \/ /\ component = "retirement" /\ Retirement!Next /\ UNCHANGED <<component, rest10>>
  \/ /\ component = "retirement-delivered" /\ RetirementDelivered!Next /\ UNCHANGED <<component, rest10>>
  \/ /\ component = "retirement-written" /\ RetirementWritten!Next /\ UNCHANGED <<component, rest10>>
  \/ /\ component = "restore" /\ Restore!RestoreNext /\ UNCHANGED <<component, rest12>>
  \/ /\ component = "restore-written" /\ RestoreWritten!RestoreNext /\ UNCHANGED <<component, rest12>>
  \/ /\ component = "titles-claude" /\ TitlesClaude!Next /\ UNCHANGED <<component, rest9>>
  \/ /\ component = "titles-handoffs" /\ TitlesHandoffs!Next /\ UNCHANGED <<component, rest9>>
  \/ /\ component = "titles-faults" /\ TitlesFaults!Next /\ UNCHANGED <<component, rest9>>
  \/ /\ component = "titles-codex" /\ TitlesCodex!Next /\ UNCHANGED <<component, rest12>>
  \/ /\ component = "fork-request" /\ ForkLine!Next /\ UNCHANGED <<component, rest4>>
  \/ /\ component = "usage" /\ Usage!Next /\ UNCHANGED <<component, rest15>>
  \/ /\ component = "usage-faults" /\ UsageFaults!Next /\ UNCHANGED <<component, rest15>>
  \/ /\ component = "guard" /\ Fork!Guard!Next /\ UNCHANGED <<component, rest12>>
  \/ /\ component = "fork" /\ Fork!Next /\ UNCHANGED <<component, rest9>>

Spec == Init /\ [][Next]_vars

-----------------------------------------------------------------------------
(* Properties, stated with their components *)

\* The type invariant of every component.
TypeOK ==
  /\ component = "lifecycle" => UIAnswer!Lifecycle!LifecycleTypeOK
  /\ component = "ui-answer" => UIAnswer!UIAnswerTypeOK
  /\ component = "agent-request" => AgentRequest!AgentRequestTypeOK
  /\ component = "launch" => AgentRequest!Launch!LaunchTypeOK
  /\ component = "target" => Target!TargetTypeOK
  /\ component = "headless" => Target!Headless!HeadlessTypeOK
  /\ component = "history" => Fork!History!HistoryTypeOK
  /\ component = "surface" => Surface!PublicationTypeOK
  /\ component = "selection" => Selection!SelectionTypeOK
  /\ component = "enrollment" => Enrollment!EnrollmentTypeOK
  /\ component = "enrollment-deep" => EnrollmentDeep!EnrollmentTypeOK
  /\ component = "continuation" => Continuation!ContinuationTypeOK
  /\ component = "bootstrap" => Target!Bootstrap!BootstrapTypeOK
  /\ component = "notices" => Notices!NoticesTypeOK
  /\ component = "notices-watched" => NoticesWatched!NoticesTypeOK
  /\ component = "tabs-claude" => TabsClaude!TabsTypeOK
  /\ component = "tabs-codex" => TabsCodex!TabsTypeOK
  /\ component = "titles-claude" => TitlesClaude!ClaudeTitlesTypeOK
  /\ component = "titles-handoffs" => TitlesHandoffs!ClaudeTitlesTypeOK
  /\ component = "titles-codex" => TitlesCodex!CodexTitlesTypeOK
  /\ component = "retirement" => Retirement!RetirementTypeOK
  /\ component = "retirement-delivered" => RetirementDelivered!RetirementTypeOK
  /\ component = "retirement-written" => RetirementWritten!RetirementTypeOK
  /\ component = "restore" => Restore!RestoreTypeOK
  /\ component = "fork-request" => ForkLine!ForkRequestTypeOK
  /\ component = "usage" => Usage!UsageTypeOK
  /\ component = "usage-faults" => UsageFaults!UsageTypeOK
  /\ component = "restore-written" => RestoreWritten!RestoreTypeOK
  /\ component = "tabs-faults" => TabsFaults!TabsTypeOK
  /\ component = "titles-faults" => TitlesFaults!ClaudeTitlesTypeOK
  /\ component = "guard" => Fork!Guard!GuardTypeOK
  /\ component = "fork" => Fork!ForkTypeOK

\* Every client of the Herdr service keeps the contract of NoReplay: no
\* request with an effect is sent while the outcome of an earlier one is not
\* on record.
NoReplay ==
  /\ component = "lifecycle" => UIAnswer!Lifecycle!Contract!Init
  /\ component = "ui-answer" => UIAnswer!Contract!Init
  /\ component = "agent-request" => AgentRequest!Contract!Init
  /\ [][/\ component = "lifecycle" => [UIAnswer!Lifecycle!Contract!Next]_(UIAnswer!Lifecycle!Contract!vars)
        /\ component = "ui-answer" => [UIAnswer!Contract!Next]_(UIAnswer!Contract!vars)
        /\ component = "agent-request" => [AgentRequest!Contract!Next]_(AgentRequest!Contract!vars)]_vars

\* transition and observe compare before they write: a result on record is
\* not replaced by an older or a slower answer.
ResultKept ==
  [][/\ component = "lifecycle" => UIAnswer!Lifecycle!KeepsResult
     /\ component = "ui-answer" => UIAnswer!KeepsResult
     /\ component = "agent-request" => AgentRequest!KeepsResult]_vars

\* HerdrLifecycle: authority is given only for a result that happened and is
\* on record, and a result that is not on record can still be asked for.
LifecycleSafe == component = "lifecycle" => UIAnswer!Lifecycle!LifecycleSafe

\* HerdrUIAnswer: a receipt that admits a step names the step the service is
\* at, and a cancel is sent once.
AnswerSafe == component = "ui-answer" => UIAnswer!AnswerSafe

\* HerdrAgentRequest: what was dispatched can be asked about until its
\* retention ends, whatever other intents are created.
LocatorKept == component = "agent-request" => AgentRequest!LocatorKept

\* HerdrLaunch: what was sent was saved first, a final phase on disk is the
\* job's own, and a reader finds a whole receipt.
LaunchSafe == component = "launch" => AgentRequest!Launch!LaunchSafe

\* TargetDelivery: one approval puts one screened commit on its branch, and
\* an opened pull request is there and on record.
TargetSafe == component = "target" => Target!TargetSafe

\* HeadlessRun: the broker works when nothing of the agent is left, and the
\* result in place is true of a run that has cleaned up after itself.
HeadlessSafe == component = "headless" => Target!Headless!HeadlessSafe

\* NativeHistory: nothing written to a conversation is lost with a home,
\* sessions do not fork it, and the catalog never answers a shortened one.
HistorySafe == component = "history" => Fork!History!HistorySafe

\* SurfacePublication: the warm probe is right, a home is of one version, and
\* what Codex saves is not lost. SurfaceSelection: no skill shadows another
\* text of its name, each is found once, and nothing of the user's goes.
SurfaceSafe ==
  /\ component = "surface" => Surface!SurfaceHolds
  /\ component = "selection" => Selection!SelectionHolds

\* OmpEnrollment: what a selector answers was in force, it stops for cause
\* only, and no operation undoes one its controller did not know.
\* OmpContinuation: natives do not meet on a session file, READY is true, and
\* what can be resumed is.
OmpSafe ==
  /\ component = "enrollment" => Enrollment!EnrollmentHolds
  /\ component = "enrollment-deep" => EnrollmentDeep!EnrollmentHolds
  /\ component = "continuation" => Continuation!ContinuationHolds

\* CanonicalBootstrap: the engine works on an answer that stands, what is
\* reported stays true, the native is not cut in its transaction, and the lease
\* outlasts it but for a native that is another by then or outlives its kill.
BootstrapSafe == component = "bootstrap" => Target!Bootstrap!BootstrapHolds

\* PluginNotices: a change of a pane's status is announced once and a
\* completion not before its work has settled; $decision stands for the turn
\* it was set for. PluginTabs: a tab and its agent bear the title the agent
\* last gave its session, and so the cmux tabs of ClaudeTitles and
\* CodexTitles. ForkRequest: the line that is run asks for what the caller's
\* asked. UsageManifests: the exclusion manifests are those of the sessions
\* and the policy.
ViewSafe ==
  /\ component = "notices" => Notices!NoticesHold
  /\ component = "notices-watched" => NoticesWatched!NoticesHold
  /\ component = "tabs-claude" => TabsClaude!TabsHold
  /\ component = "tabs-codex" => TabsCodex!TabsHold
  /\ component = "titles-claude" => TitlesClaude!ClaudeTitlesHold
  /\ component = "titles-handoffs" => TitlesHandoffs!ClaudeTitlesHold
  /\ component = "titles-codex" => TitlesCodex!CodexTitlesHold
  /\ component = "fork-request" => ForkLine!ForkRequestHolds
  /\ component = "usage" => Usage!UsageHolds
  /\ component = "usage-faults" => UsageFaults!UsageHolds
  /\ component = "tabs-faults" => TabsFaults!TabsHold
  /\ component = "titles-faults" => TitlesFaults!ClaudeTitlesHold

\* SessionRetirement: gc removes nothing that is not held elsewhere for good,
\* an archive is the history of one moment, and a resume hold keeps the
\* directory.
RetirementSafe ==
  /\ component = "retirement" => Retirement!RetirementHolds
  /\ component = "retirement-written" => RetirementWritten!RetirementHolds
  /\ component = "retirement-delivered" => RetirementDelivered!RetirementHolds
  /\ component = "restore" => Restore!RestoreHolds
  /\ component = "restore-written" => RestoreWritten!RestoreHolds

\* AppServerGuard: no thread is given a root outside the harness, every
\* request is answered once, the two threads do not mix their lines, and the
\* relay ends after its server's last line. ClaudeFork: both leases of the
\* origin are kept from prepare to the end of the fork, which runs on what
\* its receipt says.
GuardSafe ==
  /\ component = "guard" => Fork!Guard!GuardHolds
  /\ component = "fork" => Fork!ForkHolds
=============================================================================
