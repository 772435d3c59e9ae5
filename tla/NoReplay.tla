------------------------------ MODULE NoReplay ------------------------------
(***************************************************************************)
(* What every client of the Herdr web service promises about an intent: a  *)
(* request that has an effect is sent only while no such request sent      *)
(* before it for the same intent is unaccounted for; to be accounted for,  *)
(* its outcome must be on record.  docs/herdr-lifecycle-cli.md: "A lost    *)
(* action is never replayed".  Questions have no effect and do not count.  *)
(***************************************************************************)
EXTENDS Naturals

CONSTANT Intents

VARIABLES
  open,  \* requests of each intent whose outcome is not on record
  sent   \* requests with an effect sent so far for each intent

vars == <<open, sent>>

Init ==
  /\ open = [i \in Intents |-> 0]
  /\ sent = [i \in Intents |-> 0]

Send(i) ==
  /\ open[i] = 0
  /\ open' = [open EXCEPT ![i] = 1]
  /\ sent' = [sent EXCEPT ![i] = @ + 1]

Account(i) ==
  /\ open[i] = 1
  /\ open' = [open EXCEPT ![i] = 0]
  /\ UNCHANGED sent

Next == \E i \in Intents : Send(i) \/ Account(i)

Spec == Init /\ [][Next]_vars
=============================================================================
