------------------------------ MODULE Delivery -------------------------------
(***************************************************************************)
(* What an isolated session may rely on, whoever runs its integration and  *)
(* whatever fails on the way: a submitted content reaches main at most     *)
(* once, only while its journal says INTEGRATING and names it; a session   *)
(* is reported DELIVERED only when its content is on main; and DELIVERED   *)
(* and DISCARDED are final.  Brokers, locks, evidence files, retries and   *)
(* recoveries do not appear here.                                          *)
(***************************************************************************)
CONSTANTS Sessions, Contents, NoIdentity

VARIABLES
  journal,  \* [state, identity] of each session
  landed    \* contributions on main: records with a session and a content

vars == <<journal, landed>>

HasLanded(s, c) == \E x \in landed : x.session = s /\ x.content = c

Moves(s, from, to, identity) ==
  /\ journal[s].state = from
  /\ journal' = [journal EXCEPT ![s] = [state |-> to, identity |-> identity]]
  /\ UNCHANGED landed

Keeps(s, from, to) == Moves(s, from, to, journal[s].identity)

\* The owner freezes its work.
Submit(s) == \E c \in Contents : Moves(s, "OPEN", "SUBMITTED", c)

Begin(s) == Keeps(s, "SUBMITTED", "INTEGRATING")

\* The one externally visible effect.
Land(s) ==
  /\ journal[s].state = "INTEGRATING"
  /\ ~HasLanded(s, journal[s].identity)
  /\ \E x \in landed' :
       /\ x.session = s /\ x.content = journal[s].identity
       /\ landed' = landed \cup {x}
  /\ UNCHANGED journal

Confirm(s) ==
  /\ HasLanded(s, journal[s].identity)
  /\ Keeps(s, "INTEGRATING", "DELIVERED")

GiveBack(s) == Keeps(s, "INTEGRATING", "SUBMITTED")

Refuse(s) ==
  \/ Keeps(s, "INTEGRATING", "CONFLICT")
  \/ Moves(s, "INTEGRATING", "CONFLICT", NoIdentity)

\* The owner leaves, comes back, or gives the work up.
Leave(s) == \E to \in {"CLOSED", "ABANDONED"} : Moves(s, "OPEN", to, NoIdentity)

Reopen(s) ==
  \E from \in {"CLOSED", "ABANDONED", "CONFLICT"} : Moves(s, from, "OPEN", NoIdentity)

Discard(s) == \E from \in {"ABANDONED", "CONFLICT"} : Keeps(s, from, "DISCARDED")

Init ==
  /\ journal = [s \in Sessions |-> [state |-> "OPEN", identity |-> NoIdentity]]
  /\ landed = {}

Next ==
  \E s \in Sessions :
    \/ Submit(s) \/ Begin(s) \/ Land(s) \/ Confirm(s) \/ GiveBack(s) \/ Refuse(s)
    \/ Leave(s) \/ Reopen(s) \/ Discard(s)

Spec == Init /\ [][Next]_vars
==============================================================================
