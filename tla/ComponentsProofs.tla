-------------------------- MODULE ComponentsProofs --------------------------
(***************************************************************************)
(* Theorems about Components: what the theorems about each component say   *)
(* of it holds of the behaviours that exercise it.                         *)
(*                                                                         *)
(* The argument: a behaviour never changes the component it exercises, so  *)
(* it is one of that component's own specification (the lemmas ...Alone);  *)
(* a step that leaves the component's variables as they are leaves all.    *)
(***************************************************************************)
EXTENDS Components, TLAPS

LEMMA LifecycleAlone ==
  Spec => \/ UIAnswer!Lifecycle!Spec /\ [](component = "lifecycle")
          \/ [](~(component = "lifecycle"))
<1>1. Init /\ component = "lifecycle" => UIAnswer!Lifecycle!Init
  BY DEF Init
<1>2. component = "lifecycle" /\ [Next]_vars =>
        [UIAnswer!Lifecycle!Next]_(UIAnswer!Lifecycle!vars) /\ (component = "lifecycle")'
  BY DEF Next, vars, UIAnswer!Lifecycle!vars, UIAnswer!Lifecycle!files, UIAnswer!Lifecycle!net,
     UIAnswer!Lifecycle!history
<1>3. ~(component = "lifecycle") /\ [Next]_vars => ~(component = "lifecycle")'
  BY DEF Next, vars
<1> QED BY <1>1, <1>2, <1>3, PTL DEF Spec, UIAnswer!Lifecycle!Spec

LEMMA LifecycleStutters ==
  component = "lifecycle" /\ [Next]_vars /\ UNCHANGED UIAnswer!Lifecycle!vars => UNCHANGED vars
BY DEF Next, vars, rest12, rest13, rest14, rest15, UIAnswer!Lifecycle!vars, UIAnswer!Lifecycle!files,
   UIAnswer!Lifecycle!net, UIAnswer!Lifecycle!history

LEMMA UIAnswerAlone ==
  Spec => \/ UIAnswer!Spec /\ [](component = "ui-answer")
          \/ [](~(component = "ui-answer"))
<1>1. Init /\ component = "ui-answer" => UIAnswer!Init
  BY DEF Init
<1>2. component = "ui-answer" /\ [Next]_vars =>
        [UIAnswer!Next]_(UIAnswer!vars) /\ (component = "ui-answer")'
  BY DEF Next, vars, UIAnswer!vars, UIAnswer!net, UIAnswer!history
<1>3. ~(component = "ui-answer") /\ [Next]_vars => ~(component = "ui-answer")'
  BY DEF Next, vars
<1> QED BY <1>1, <1>2, <1>3, PTL DEF Spec, UIAnswer!Spec

LEMMA UIAnswerStutters ==
  component = "ui-answer" /\ [Next]_vars /\ UNCHANGED UIAnswer!vars => UNCHANGED vars
BY DEF Next, vars, rest12, rest13, rest14, rest15, UIAnswer!vars, UIAnswer!net, UIAnswer!history

LEMMA AgentRequestAlone ==
  Spec => \/ AgentRequest!Spec /\ [](component = "agent-request")
          \/ [](~(component = "agent-request"))
<1>1. Init /\ component = "agent-request" => AgentRequest!Init
  BY DEF Init
<1>2. component = "agent-request" /\ [Next]_vars =>
        [AgentRequest!Next]_(AgentRequest!vars) /\ (component = "agent-request")'
  BY DEF Next, vars, AgentRequest!vars, AgentRequest!store, AgentRequest!locks,
         AgentRequest!net, AgentRequest!history
<1>3. ~(component = "agent-request") /\ [Next]_vars => ~(component = "agent-request")'
  BY DEF Next, vars
<1> QED BY <1>1, <1>2, <1>3, PTL DEF Spec, AgentRequest!Spec

LEMMA AgentRequestStutters ==
  component = "agent-request" /\ [Next]_vars /\ UNCHANGED AgentRequest!vars => UNCHANGED vars
BY DEF Next, vars, rest13, rest14, rest15, AgentRequest!vars, AgentRequest!store, AgentRequest!locks,
         AgentRequest!net, AgentRequest!history

LEMMA LaunchAlone ==
  Spec => \/ AgentRequest!Launch!Spec /\ [](component = "launch")
          \/ [](~(component = "launch"))
<1>1. Init /\ component = "launch" => AgentRequest!Launch!Init
  BY DEF Init
<1>2. component = "launch" /\ [Next]_vars =>
        [AgentRequest!Launch!Next]_(AgentRequest!Launch!vars) /\ (component = "launch")'
  BY DEF Next, vars, AgentRequest!Launch!vars, AgentRequest!Launch!files
<1>3. ~(component = "launch") /\ [Next]_vars => ~(component = "launch")'
  BY DEF Next, vars
<1> QED BY <1>1, <1>2, <1>3, PTL DEF Spec, AgentRequest!Launch!Spec

LEMMA TargetAlone ==
  Spec => \/ Target!Spec /\ [](component = "target")
          \/ [](~(component = "target"))
<1>1. Init /\ component = "target" => Target!Init
  BY DEF Init
<1>2. component = "target" /\ [Next]_vars =>
        [Target!Next]_(Target!vars) /\ (component = "target")'
  BY DEF Next, vars, Target!vars, Target!local, Target!remote
<1>3. ~(component = "target") /\ [Next]_vars => ~(component = "target")'
  BY DEF Next, vars
<1> QED BY <1>1, <1>2, <1>3, PTL DEF Spec, Target!Spec

LEMMA HeadlessAlone ==
  Spec => \/ Target!Headless!Spec /\ [](component = "headless")
          \/ [](~(component = "headless"))
<1>1. Init /\ component = "headless" => Target!Headless!Init
  BY DEF Init
<1>2. component = "headless" /\ [Next]_vars =>
        [Target!Headless!Next]_(Target!Headless!vars) /\ (component = "headless")'
  BY DEF Next, vars, Target!Headless!vars, Target!Headless!workspace
<1>3. ~(component = "headless") /\ [Next]_vars => ~(component = "headless")'
  BY DEF Next, vars
<1> QED BY <1>1, <1>2, <1>3, PTL DEF Spec, Target!Headless!Spec

LEMMA BootstrapAlone ==
  Spec => \/ Target!Bootstrap!Spec /\ [](component = "bootstrap")
          \/ [](~(component = "bootstrap"))
<1>1. Init /\ component = "bootstrap" => Target!Bootstrap!Init
  BY DEF Init
<1>2. component = "bootstrap" /\ [Next]_vars =>
        [Target!Bootstrap!Next]_(Target!Bootstrap!vars) /\ (component = "bootstrap")'
  BY DEF Next, vars, Target!Bootstrap!vars
<1>3. ~(component = "bootstrap") /\ [Next]_vars => ~(component = "bootstrap")'
  BY DEF Next, vars
<1> QED BY <1>1, <1>2, <1>3, PTL DEF Spec, Target!Bootstrap!Spec

LEMMA RetirementAlone ==
  Spec => \/ Retirement!Spec /\ [](component = "retirement")
          \/ [](~(component = "retirement"))
<1>1. Init /\ component = "retirement" => Retirement!Init
  BY DEF Init
<1>2. component = "retirement" /\ [Next]_vars =>
        [Retirement!Next]_(Retirement!vars) /\ (component = "retirement")'
  BY DEF Next, vars, Retirement!vars
<1>3. ~(component = "retirement") /\ [Next]_vars => ~(component = "retirement")'
  BY DEF Next, vars
<1> QED BY <1>1, <1>2, <1>3, PTL DEF Spec, Retirement!Spec

LEMMA RetirementDeliveredAlone ==
  Spec => \/ RetirementDelivered!Spec /\ [](component = "retirement-delivered")
          \/ [](~(component = "retirement-delivered"))
<1>1. Init /\ component = "retirement-delivered" => RetirementDelivered!Init
  BY DEF Init
<1>2. component = "retirement-delivered" /\ [Next]_vars =>
        [RetirementDelivered!Next]_(RetirementDelivered!vars) /\ (component = "retirement-delivered")'
  BY DEF Next, vars, RetirementDelivered!vars
<1>3. ~(component = "retirement-delivered") /\ [Next]_vars => ~(component = "retirement-delivered")'
  BY DEF Next, vars
<1> QED BY <1>1, <1>2, <1>3, PTL DEF Spec, RetirementDelivered!Spec

LEMMA RetirementWrittenAlone ==
  Spec => \/ RetirementWritten!Spec /\ [](component = "retirement-written")
          \/ [](~(component = "retirement-written"))
<1>1. Init /\ component = "retirement-written" => RetirementWritten!Init
  BY DEF Init
<1>2. component = "retirement-written" /\ [Next]_vars =>
        [RetirementWritten!Next]_(RetirementWritten!vars) /\ (component = "retirement-written")'
  BY DEF Next, vars, RetirementWritten!vars
<1>3. ~(component = "retirement-written") /\ [Next]_vars => ~(component = "retirement-written")'
  BY DEF Next, vars
<1> QED BY <1>1, <1>2, <1>3, PTL DEF Spec, RetirementWritten!Spec

LEMMA RestoreAlone ==
  Spec => \/ Restore!RestoreSpec /\ [](component = "restore")
          \/ [](~(component = "restore"))
<1>1. Init /\ component = "restore" => Restore!RestoreInit
  BY DEF Init
<1>2. component = "restore" /\ [Next]_vars =>
        [Restore!RestoreNext]_(Restore!rvars) /\ (component = "restore")'
  BY DEF Next, vars, Restore!rvars, Restore!vars
<1>3. ~(component = "restore") /\ [Next]_vars => ~(component = "restore")'
  BY DEF Next, vars
<1> QED BY <1>1, <1>2, <1>3, PTL DEF Spec, Restore!RestoreSpec

LEMMA RestoreWrittenAlone ==
  Spec => \/ RestoreWritten!RestoreSpec /\ [](component = "restore-written")
          \/ [](~(component = "restore-written"))
<1>1. Init /\ component = "restore-written" => RestoreWritten!RestoreInit
  BY DEF Init
<1>2. component = "restore-written" /\ [Next]_vars =>
        [RestoreWritten!RestoreNext]_(RestoreWritten!rvars) /\ (component = "restore-written")'
  BY DEF Next, vars, RestoreWritten!rvars, RestoreWritten!vars
<1>3. ~(component = "restore-written") /\ [Next]_vars => ~(component = "restore-written")'
  BY DEF Next, vars
<1> QED BY <1>1, <1>2, <1>3, PTL DEF Spec, RestoreWritten!RestoreSpec

LEMMA ForkAlone ==
  Spec => \/ Fork!Spec /\ [](component = "fork")
          \/ [](~(component = "fork"))
<1>1. Init /\ component = "fork" => Fork!Init
  BY DEF Init
<1>2. component = "fork" /\ [Next]_vars =>
        [Fork!Next]_(Fork!vars) /\ (component = "fork")'
  BY DEF Next, vars, Fork!vars
<1>3. ~(component = "fork") /\ [Next]_vars => ~(component = "fork")'
  BY DEF Next, vars
<1> QED BY <1>1, <1>2, <1>3, PTL DEF Spec, Fork!Spec

LEMMA GuardAlone ==
  Spec => \/ Fork!Guard!Spec /\ [](component = "guard")
          \/ [](~(component = "guard"))
<1>1. Init /\ component = "guard" => Fork!Guard!Init
  BY DEF Init
<1>2. component = "guard" /\ [Next]_vars =>
        [Fork!Guard!Next]_(Fork!Guard!vars) /\ (component = "guard")'
  BY DEF Next, vars, Fork!Guard!vars
<1>3. ~(component = "guard") /\ [Next]_vars => ~(component = "guard")'
  BY DEF Next, vars
<1> QED BY <1>1, <1>2, <1>3, PTL DEF Spec, Fork!Guard!Spec

LEMMA HistoryAlone ==
  Spec => \/ Fork!History!Spec /\ [](component = "history")
          \/ [](~(component = "history"))
<1>1. Init /\ component = "history" => Fork!History!Init
  BY DEF Init
<1>2. component = "history" /\ [Next]_vars =>
        [Fork!History!Next]_(Fork!History!vars) /\ (component = "history")'
  BY DEF Next, vars, Fork!History!vars, Fork!History!homes, Fork!History!leases
<1>3. ~(component = "history") /\ [Next]_vars => ~(component = "history")'
  BY DEF Next, vars
<1> QED BY <1>1, <1>2, <1>3, PTL DEF Spec, Fork!History!Spec

-----------------------------------------------------------------------------
\* Creations and interrupts of harness_herdr_lifecycle.py: authority is given only for a result
\* that happened and is on record, and a result that is not on record can still be asked for.
THEOREM LifecycleIsSafe == Spec => []LifecycleSafe
<1>1. UIAnswer!Lifecycle!Spec => []UIAnswer!Lifecycle!LifecycleSafe
  BY UIAnswer!LifecycleIsSafe, ComponentsAssumption DEF ComponentsAssumption
<1>2. UIAnswer!Lifecycle!LifecycleSafe \/ ~(component = "lifecycle") => LifecycleSafe
  BY DEF LifecycleSafe
<1> QED BY <1>1, <1>2, LifecycleAlone, PTL

\* harness_herdr_agent_ui_answer.py: a receipt that admits a step names the step the service is
\* at, and a cancel is sent once.
THEOREM AnswersAreSafe == Spec => []AnswerSafe
<1>1. UIAnswer!Spec => []UIAnswer!AnswerSafe
  BY UIAnswer!AnswersAreSafe, ComponentsAssumption DEF ComponentsAssumption
<1>2. UIAnswer!AnswerSafe \/ ~(component = "ui-answer") => AnswerSafe
  BY DEF AnswerSafe
<1> QED BY <1>1, <1>2, UIAnswerAlone, PTL

\* _prune of harness_herdr_agent_ui_request.py: what was dispatched can be asked about until its
\* retention ends, whatever other intents are created.
THEOREM LocatorIsKept == Spec => []LocatorKept
<1>1. AgentRequest!Spec => []AgentRequest!LocatorKept
  BY AgentRequest!LocatorIsKept, ComponentsAssumption DEF ComponentsAssumption
<1>2. AgentRequest!LocatorKept \/ ~(component = "agent-request") => LocatorKept
  BY DEF LocatorKept
<1> QED BY <1>1, <1>2, AgentRequestAlone, PTL

\* harness_herdr_launch_receipt.py: what was sent was saved first, a final phase on disk is the
\* job's own, and beside one launch-status a reader finds a whole receipt.
THEOREM LaunchIsSafe == Spec => []LaunchSafe
<1>1. AgentRequest!Launch!Spec => []AgentRequest!Launch!LaunchSafe
  BY AgentRequest!LaunchIsSafe, ComponentsAssumption DEF ComponentsAssumption
<1>2. AgentRequest!Launch!LaunchSafe \/ ~(component = "launch") => LaunchSafe
  BY DEF LaunchSafe
<1> QED BY <1>1, <1>2, LaunchAlone, PTL

\* deliver_target: one approval puts one screened commit on its branch, and an opened pull
\* request is there and on record.
THEOREM TargetIsSafe == Spec => []TargetSafe
<1>1. Target!Spec => []Target!TargetSafe
  BY Target!TargetIsSafe, ComponentsAssumption DEF ComponentsAssumption
<1>2. Target!TargetSafe \/ ~(component = "target") => TargetSafe
  BY DEF TargetSafe
<1> QED BY <1>1, <1>2, TargetAlone, PTL

\* A run of harness_headless.py: its broker works with nothing of the agent alive, its result is
\* that of its session, and what it holds is given back unless a signal cut the undoing short.
THEOREM HeadlessIsSafe == Spec => []HeadlessSafe
<1>1. Target!Headless!Spec => []Target!Headless!HeadlessSafe
  BY Target!HeadlessIsSafe, ComponentsAssumption DEF ComponentsAssumption
<1>2. Target!Headless!HeadlessSafe \/ ~(component = "headless") => HeadlessSafe
  BY DEF HeadlessSafe
<1> QED BY <1>1, <1>2, HeadlessAlone, PTL

\* BootstrapSafe: an update reaches the repository on an answer that stands only,
\* and what is reported stays true.
THEOREM BootstrapIsSafe == Spec => []BootstrapSafe
<1>1. Target!Bootstrap!Spec => []Target!Bootstrap!BootstrapHolds
  BY Target!BootstrapKeepsItsPromises, ComponentsAssumption DEF ComponentsAssumption
<1>2. Target!Bootstrap!BootstrapHolds \/ ~(component = "bootstrap") => BootstrapSafe
  BY DEF BootstrapSafe
<1> QED BY <1>1, <1>2, BootstrapAlone, PTL

\* The catalog, the keepers and the resumes of one Native conversation (codex-history.py): nothing
\* written to it is lost with a home; and until a restore dies half-way, sessions do not fork it and no
\* answer is a shortened one.
THEOREM HistoryIsSafe == Spec => []HistorySafe
<1>1. Fork!History!Spec => [](Fork!History!HistoryTypeOK /\ Fork!History!HistorySafe)
  BY Fork!HistoryKeepsItsPromises, ComponentsAssumption DEF ComponentsAssumption
<1>2. (Fork!History!HistoryTypeOK /\ Fork!History!HistorySafe) \/ ~(component = "history") => HistorySafe
  BY DEF HistorySafe
<1> QED BY <1>1, <1>2, HistoryAlone, PTL

\* Retirement and restore: gc removes no history and no work that is not held elsewhere, an archive
\* is of one moment, a resume hold keeps the directory, and a restored conversation is a true one.
THEOREM RetirementIsSafe == Spec => []RetirementSafe
<1>1. Spec => [](component = "retirement" => Retirement!RetirementHolds)
  <2>1. Retirement!Spec => []Retirement!RetirementHolds
    BY Retirement!RetirementKeepsItsPromises, ComponentsAssumption DEF ComponentsAssumption
  <2> QED BY <2>1, RetirementAlone, PTL
<1>2. Spec => [](component = "retirement-delivered" => RetirementDelivered!RetirementHolds)
  <2>1. RetirementDelivered!Spec => []RetirementDelivered!RetirementHolds
    BY RetirementDelivered!RetirementKeepsItsPromises, ComponentsAssumption DEF ComponentsAssumption
  <2> QED BY <2>1, RetirementDeliveredAlone, PTL
<1>3. Spec => [](component = "retirement-written" => RetirementWritten!RetirementHolds)
  <2>1. RetirementWritten!Spec => []RetirementWritten!RetirementHolds
    BY RetirementWritten!RetirementKeepsItsPromises, ComponentsAssumption DEF ComponentsAssumption
  <2> QED BY <2>1, RetirementWrittenAlone, PTL
<1>4. Spec => [](component = "restore" => Restore!RestoreHolds)
  <2>1. Restore!RestoreSpec => []Restore!RestoreHolds
    BY Restore!RestoreKeepsItsPromises, ComponentsAssumption DEF ComponentsAssumption
  <2> QED BY <2>1, RestoreAlone, PTL
<1>5. Spec => [](component = "restore-written" => RestoreWritten!RestoreHolds)
  <2>1. RestoreWritten!RestoreSpec => []RestoreWritten!RestoreHolds
    BY RestoreWritten!RestoreKeepsItsPromises, ComponentsAssumption DEF ComponentsAssumption
  <2> QED BY <2>1, RestoreWrittenAlone, PTL
<1>6. /\ component = "retirement" => Retirement!RetirementHolds
      /\ component = "retirement-delivered" => RetirementDelivered!RetirementHolds
      /\ component = "retirement-written" => RetirementWritten!RetirementHolds
      /\ component = "restore" => Restore!RestoreHolds
      /\ component = "restore-written" => RestoreWritten!RestoreHolds
      => RetirementSafe
  BY DEF RetirementSafe
<1> QED BY <1>1, <1>2, <1>3, <1>4, <1>5, <1>6, PTL

\* The relay of codex-app-server-guard.py gives no thread a root outside the harness, answers every
\* request once, writes whole lines and ends after its server's last; and a prepared fork of
\* harness_claude_fork.py keeps its leases and runs on what its receipt says.
THEOREM GuardIsSafe == Spec => []GuardSafe
<1>1. Spec => [](component = "guard" => Fork!Guard!GuardHolds)
  <2>1. Fork!Guard!Spec => []Fork!Guard!GuardHolds
    BY Fork!GuardKeepsItsPromises, ComponentsAssumption DEF ComponentsAssumption
  <2>2. ~(component = "guard") => (component = "guard" => Fork!Guard!GuardHolds)
    OBVIOUS
  <2> QED BY <2>1, <2>2, GuardAlone, PTL
<1>2. Spec => [](component = "fork" => Fork!ForkHolds)
  <2>1. Fork!Spec => [](Fork!LeasesKept /\ Fork!ForkHonest /\ Fork!NothingHeld)
    BY Fork!LeasesAreKept, Fork!ForkIsHonest, Fork!NothingIsHeld, ComponentsAssumption, PTL
       DEF ComponentsAssumption
  <2>2. Fork!LeasesKept /\ Fork!ForkHonest /\ Fork!NothingHeld => Fork!ForkHolds
    BY DEF Fork!ForkHolds
  <2>3. ~(component = "fork") => (component = "fork" => Fork!ForkHolds)
    OBVIOUS
  <2> QED BY <2>1, <2>2, <2>3, ForkAlone, PTL
<1>3. (component = "guard" => Fork!Guard!GuardHolds) /\ (component = "fork" => Fork!ForkHolds) => GuardSafe
  BY DEF GuardSafe
<1> QED BY <1>1, <1>2, <1>3, PTL

\* transition and observe compare before they write: in none of the three receipts is a result on
\* record replaced by an older or a slower answer.
THEOREM ResultIsKept == Spec => ResultKept
<1>1. Spec => [][component = "lifecycle" => UIAnswer!Lifecycle!KeepsResult]_vars
  <2>1. UIAnswer!Lifecycle!Spec => [][UIAnswer!Lifecycle!KeepsResult]_(UIAnswer!Lifecycle!vars)
    BY UIAnswer!LifecycleResultIsKept, ComponentsAssumption DEF ComponentsAssumption
  <2>2. component = "lifecycle" /\ [Next]_vars /\ [UIAnswer!Lifecycle!KeepsResult]_(UIAnswer!Lifecycle!vars) =>
          [component = "lifecycle" => UIAnswer!Lifecycle!KeepsResult]_vars
    BY LifecycleStutters
  <2>3. ~(component = "lifecycle") => [component = "lifecycle" => UIAnswer!Lifecycle!KeepsResult]_vars
    OBVIOUS
  <2> QED BY <2>1, <2>2, <2>3, LifecycleAlone, PTL DEF Spec
<1>2. Spec => [][component = "ui-answer" => UIAnswer!KeepsResult]_vars
  <2>1. UIAnswer!Spec => [][UIAnswer!KeepsResult]_(UIAnswer!vars)
    BY UIAnswer!ResultIsKept, ComponentsAssumption DEF ComponentsAssumption
  <2>2. component = "ui-answer" /\ [Next]_vars /\ [UIAnswer!KeepsResult]_(UIAnswer!vars) =>
          [component = "ui-answer" => UIAnswer!KeepsResult]_vars
    BY UIAnswerStutters
  <2>3. ~(component = "ui-answer") => [component = "ui-answer" => UIAnswer!KeepsResult]_vars
    OBVIOUS
  <2> QED BY <2>1, <2>2, <2>3, UIAnswerAlone, PTL DEF Spec
<1>3. Spec => [][component = "agent-request" => AgentRequest!KeepsResult]_vars
  <2>1. AgentRequest!Spec => [][AgentRequest!KeepsResult]_(AgentRequest!vars)
    BY AgentRequest!RequestResultIsKept, ComponentsAssumption DEF ComponentsAssumption
  <2>2. component = "agent-request" /\ [Next]_vars /\ [AgentRequest!KeepsResult]_(AgentRequest!vars) =>
          [component = "agent-request" => AgentRequest!KeepsResult]_vars
    BY AgentRequestStutters
  <2>3. ~(component = "agent-request") => [component = "agent-request" => AgentRequest!KeepsResult]_vars
    OBVIOUS
  <2> QED BY <2>1, <2>2, <2>3, AgentRequestAlone, PTL DEF Spec
<1> QED BY <1>1, <1>2, <1>3, PTL DEF ResultKept

\* The contract of NoReplay: none of the three clients of the Herdr service sends a request with an
\* effect while the outcome of an earlier one is not on record.
THEOREM NothingIsReplayed == Spec => NoReplay
<1>1. Spec => /\ component = "lifecycle" => UIAnswer!Lifecycle!Contract!Init
              /\ [][component = "lifecycle" => [UIAnswer!Lifecycle!Contract!Next]_(UIAnswer!Lifecycle!Contract!vars)]_vars
  <2>1. UIAnswer!Lifecycle!Spec =>
        UIAnswer!Lifecycle!Contract!Init /\ [][UIAnswer!Lifecycle!Contract!Next]_(UIAnswer!Lifecycle!Contract!vars)
    BY UIAnswer!LifecycleIsNeverReplayed, ComponentsAssumption, PTL DEF ComponentsAssumption,
       UIAnswer!Lifecycle!NoReplay, UIAnswer!Lifecycle!Contract!Spec
  <2>2. [UIAnswer!Lifecycle!Contract!Next]_(UIAnswer!Lifecycle!Contract!vars) =>
          [component = "lifecycle" =>
                [UIAnswer!Lifecycle!Contract!Next]_(UIAnswer!Lifecycle!Contract!vars)]_vars
    OBVIOUS
  <2>3. ~(component = "lifecycle") =>
          /\ component = "lifecycle" => UIAnswer!Lifecycle!Contract!Init
          /\ [component = "lifecycle" =>
                [UIAnswer!Lifecycle!Contract!Next]_(UIAnswer!Lifecycle!Contract!vars)]_vars
    OBVIOUS
  <2> QED BY <2>1, <2>2, <2>3, LifecycleAlone, PTL DEF Spec
<1>2. Spec => /\ component = "ui-answer" => UIAnswer!Contract!Init
              /\ [][component = "ui-answer" => [UIAnswer!Contract!Next]_(UIAnswer!Contract!vars)]_vars
  <2>1. UIAnswer!Spec => UIAnswer!Contract!Init /\ [][UIAnswer!Contract!Next]_(UIAnswer!Contract!vars)
    BY UIAnswer!StepsAreNeverReplayed, ComponentsAssumption, PTL DEF ComponentsAssumption,
       UIAnswer!NoReplay, UIAnswer!Contract!Spec
  <2>2. [UIAnswer!Contract!Next]_(UIAnswer!Contract!vars) =>
          [component = "ui-answer" => [UIAnswer!Contract!Next]_(UIAnswer!Contract!vars)]_vars
    OBVIOUS
  <2>3. ~(component = "ui-answer") =>
          /\ component = "ui-answer" => UIAnswer!Contract!Init
          /\ [component = "ui-answer" => [UIAnswer!Contract!Next]_(UIAnswer!Contract!vars)]_vars
    OBVIOUS
  <2> QED BY <2>1, <2>2, <2>3, UIAnswerAlone, PTL DEF Spec
<1>3. Spec => /\ component = "agent-request" => AgentRequest!Contract!Init
              /\ [][component = "agent-request" => [AgentRequest!Contract!Next]_(AgentRequest!Contract!vars)]_vars
  <2>1. AgentRequest!Spec =>
        AgentRequest!Contract!Init /\ [][AgentRequest!Contract!Next]_(AgentRequest!Contract!vars)
    BY AgentRequest!RequestIsNeverReplayed, ComponentsAssumption, PTL DEF ComponentsAssumption,
       AgentRequest!NoReplay, AgentRequest!Contract!Spec
  <2>2. [AgentRequest!Contract!Next]_(AgentRequest!Contract!vars) =>
          [component = "agent-request" => [AgentRequest!Contract!Next]_(AgentRequest!Contract!vars)]_vars
    OBVIOUS
  <2>3. ~(component = "agent-request") =>
          /\ component = "agent-request" => AgentRequest!Contract!Init
          /\ [component = "agent-request" => [AgentRequest!Contract!Next]_(AgentRequest!Contract!vars)]_vars
    OBVIOUS
  <2> QED BY <2>1, <2>2, <2>3, AgentRequestAlone, PTL DEF Spec
<1> QED BY <1>1, <1>2, <1>3, PTL DEF NoReplay
=============================================================================
