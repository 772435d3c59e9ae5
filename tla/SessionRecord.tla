---------------------------- MODULE SessionRecord ----------------------------
(***************************************************************************)
(* The durable record of an isolated session (<state>/sessions/<uuid>/):   *)
(* its journal, the evidence files the broker and the discard leave beside *)
(* it, and the runtime lease its launcher holds.  The actions are the      *)
(* commands of bin/session-isolation.sh that move a session without        *)
(* publishing anything.                                                    *)
(***************************************************************************)
EXTENDS Naturals

CONSTANTS Sessions,     \* session UUIDs
          Contents,     \* distinguishable contents of a session work tree
          NoIdentity,   \* an empty identity line in the journal
          MaxRounds     \* bound: submissions of one session

ASSUME RecordAssumption == NoIdentity \notin Contents

VARIABLES
  journal,   \* [state, identity]: the first two lines of <record>/journal
  files,     \* evidence files; 0 is a missing file, else the commit they name
  leased,    \* sessions whose launcher holds <record>/runtime.lock
  renamed,   \* sessions whose checkout spells its origin unlike remote-url
  round      \* how many submissions each session has made (history only)

recordVars == <<journal, files, leased, renamed, round>>

JournalStates == {"OPEN", "ABANDONED", "CONFLICT", "CLOSED", "SUBMITTED",
                  "INTEGRATING", "DELIVERED", "DISCARDED"}
Journals == [state: JournalStates, identity: Contents \cup {NoIdentity}]
EvidenceFiles == [pending: Nat, manifest: Nat, ack: Nat, delivered: Nat]

\* The transition table of `transition`.
Edges == { <<"OPEN", "SUBMITTED">>, <<"OPEN", "CLOSED">>, <<"OPEN", "ABANDONED">>,
           <<"SUBMITTED", "INTEGRATING">>, <<"INTEGRATING", "SUBMITTED">>,
           <<"INTEGRATING", "DELIVERED">>, <<"INTEGRATING", "CONFLICT">>,
           <<"ABANDONED", "OPEN">>, <<"CONFLICT", "OPEN">>, <<"CLOSED", "OPEN">>,
           <<"ABANDONED", "DISCARDED">>, <<"CONFLICT", "DISCARDED">> }

State(s) == journal[s].state
Identity(s) == journal[s].identity

\* transition <s> <next> <identity>: the same line again is accepted and
\* writes nothing; any pair outside the table is refused.
Transition(s, next, identity) ==
  /\ \/ State(s) = next /\ Identity(s) = identity
     \/ <<State(s), next>> \in Edges
  /\ journal' = [journal EXCEPT ![s] = [state |-> next, identity |-> identity]]

NoEvidence(delivered) ==
  [pending |-> 0, manifest |-> 0, ack |-> 0, delivered |-> delivered]

\* Mutant of Reopen: the acknowledgement of the refused round survives.
ReopenKeepsAck(s) ==
  /\ State(s) \in {"ABANDONED", "CONFLICT", "CLOSED"}
  /\ files' = [files EXCEPT ![s].pending = 0, ![s].manifest = 0]
  /\ Transition(s, "OPEN", NoIdentity)

\* reopen_session: stale delivery evidence must not outlive the reopen.
Reopen(s) ==
  /\ State(s) \in {"ABANDONED", "CONFLICT", "CLOSED"}
  /\ files' = [files EXCEPT ![s] = NoEvidence(files[s].delivered)]
  /\ Transition(s, "OPEN", NoIdentity)

RecordInit ==
  /\ journal = [s \in Sessions |-> [state |-> "OPEN", identity |-> NoIdentity]]
  /\ files = [s \in Sessions |-> NoEvidence(0)]
  /\ leased = Sessions
  /\ renamed = {}
  /\ round = [s \in Sessions |-> 0]

\* submit / close of a changed OPEN session: freeze the work tree content and
\* the origin's URL.  The identity is the digest of the frozen inputs, so equal
\* contents give equal identities in every round.
Submit(s, c) ==
  /\ State(s) = "OPEN"
  /\ round[s] < MaxRounds
  /\ Transition(s, "SUBMITTED", c)
  /\ round' = [round EXCEPT ![s] = @ + 1]
  /\ renamed' = renamed \ {s}
  /\ UNCHANGED <<files, leased>>

\* close of a clean OPEN session.
CloseClean(s) ==
  /\ State(s) = "OPEN"
  /\ Transition(s, "CLOSED", NoIdentity)
  /\ UNCHANGED <<files, leased, renamed, round>>

\* exit, run by the launcher as its runtime ends: clean work closes, changes
\* or an unreadable tree are kept as ABANDONED; a session that has left OPEN
\* is not touched.  The kernel then drops the lease.
Exit(s) ==
  /\ s \in leased
  /\ \/ State(s) = "OPEN" /\ Transition(s, "CLOSED", NoIdentity)
     \/ State(s) = "OPEN" /\ Transition(s, "ABANDONED", NoIdentity)
     \/ State(s) # "OPEN" /\ UNCHANGED journal
  /\ leased' = leased \ {s}
  /\ UNCHANGED <<files, renamed, round>>

\* The launcher is killed: the kernel drops the lease, nothing is written.
LauncherDies(s) ==
  /\ s \in leased
  /\ leased' = leased \ {s}
  /\ UNCHANGED <<journal, files, renamed, round>>

\* list: a stale OPEN session whose lease is free is observed as ABANDONED.
List(s) ==
  /\ State(s) = "OPEN"
  /\ s \notin leased
  /\ Transition(s, "ABANDONED", NoIdentity)
  /\ UNCHANGED <<files, leased, renamed, round>>

\* resume: the launcher takes the lease first; OPEN continues as it is.
Resume(s) ==
  /\ s \notin leased
  /\ \/ State(s) = "OPEN" /\ UNCHANGED <<journal, files>>
     \/ Reopen(s)
  /\ leased' = leased \cup {s}
  /\ UNCHANGED <<renamed, round>>

\* recover of a session that never reached the broker, or was refused by it.
RecoverReopen(s) ==
  /\ State(s) \in {"ABANDONED", "CONFLICT"}
  /\ Reopen(s)
  /\ UNCHANGED <<leased, renamed, round>>

\* discard: under the runtime lease; the journal keeps the refused identity.
Discard(s) ==
  /\ State(s) \in {"ABANDONED", "CONFLICT"}
  /\ s \notin leased
  /\ Transition(s, "DISCARDED", Identity(s))
  /\ UNCHANGED <<files, leased, renamed, round>>

\* What the launcher, its user and `list` may do at any time, under no lock
\* of the integration lane.
OwnerStep ==
  \E s \in Sessions :
    \/ \E c \in Contents : Submit(s, c)
    \/ CloseClean(s)
    \/ Exit(s)
    \/ LauncherDies(s)
    \/ List(s)
    \/ Resume(s)

RecordTypeOK ==
  /\ journal \in [Sessions -> Journals]
  /\ files \in [Sessions -> EvidenceFiles]
  /\ leased \subseteq Sessions
  /\ renamed \subseteq Sessions
  /\ round \in [Sessions -> Nat]
==============================================================================
