----------------------------- MODULE OmpDevices -----------------------------
(***************************************************************************)
(* DevMap of bin/harness_omp_projection.py: which recorded device numbers  *)
(* still name the devices of now.  The system numbers its devices anew at  *)
(* a reboot; an object moved to another volume changes its number too, and *)
(* must not be taken for the one on record.                                *)
(***************************************************************************)
EXTENDS Naturals, Sequences, SequencesExt

DevMap == [ok |-> TRUE, moved |-> {}, same |-> {}]

MatchMerged(map, old, new, chained) ==
  LET accepted == IF old = new THEN \A m \in map.moved : m[1] # old
                  ELSE old \notin map.same /\ new \in chained /\ \A m \in map.moved : m[1] = old => m[2] = new
  IN [ok |-> map.ok /\ accepted,
      moved |-> IF old # new THEN map.moved \cup {<<old, new>>} ELSE map.moved,
      same |-> IF old = new THEN map.same \cup {old} ELSE map.same]

\* One recorded number against the number of now; `chained` are the devices whose
\* directories lead to the trusted anchor without a mount between (remap_chain).
Match(map, old, new, chained) ==
  LET accepted ==
        IF old = new THEN \A m \in map.moved : m[1] # old
        ELSE /\ old \notin map.same /\ new \in chained
             /\ \A m \in map.moved : (m[1] = old) <=> (m[2] = new)
  IN [ok |-> map.ok /\ accepted,
      moved |-> IF accepted /\ old # new THEN map.moved \cup {<<old, new>>} ELSE map.moved,
      same |-> IF accepted /\ old = new THEN map.same \cup {old} ELSE map.same]

\* The pairs of one selection, in the order the code compares them.
Matches(pairs, chained) ==
  FoldLeft(LAMBDA map, p : Match(map, p[1], p[2], chained), DevMap, pairs).ok

\* The same without an order: one number is one device, and devices that moved
\* stay apart.
OneMapping(pairs, chained) ==
  /\ \A p, q \in Range(pairs) : p[1] = q[1] => p[2] = q[2]
  /\ \A p, q \in Range(pairs) : p[1] # p[2] /\ q[1] # q[2] /\ p[2] = q[2] => p[1] = q[1]
  /\ \A p \in Range(pairs) : p[1] # p[2] => p[2] \in chained
=============================================================================
