-------------------------- MODULE MCSessionCreation --------------------------
(***************************************************************************)
(* Small instances of SessionCreation: creations do not interact, so one   *)
(* of them, in either mode, meets several reconcilers.                     *)
(***************************************************************************)
EXTENDS SessionCreation, TLC

Symmetric == Permutations(Reconcilers)
==============================================================================
