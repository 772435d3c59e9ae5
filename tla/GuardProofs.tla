----------------------------- MODULE GuardProofs -----------------------------
(***************************************************************************)
(* Theorems about ClaudeFork, for every number of processes and of calls   *)
(* of prepare, and for every bound: it is well typed, the leases of the    *)
(* parent are kept from prepare to the end, a fork runs on what its        *)
(* receipt says, and a process without a fork holds nothing.               *)
(*                                                                         *)
(* The argument: of the calls of a process one at most is alive            *)
(* (OneAlive), so the descriptors it closes are its own; a live call holds *)
(* the native lease and, from its look on, the runtime lease (Holding),    *)
(* which keeps the parent's launcher and every other call from working.    *)
(* And about AppServerGuard and NativeHistory, at the end.                 *)
(***************************************************************************)
EXTENDS ClaudeFork, Sequences, FiniteSetTheorems, TLAPS

Alive(f) == fork[f].at \notin {"none", "closed"}
Leasing == {"look", "digest", "inherit", "prepared", "redigest", "checked"}
Judged == {"digest", "inherit", "prepared", "redigest", "checked"}
Read == {"inherit", "prepared", "redigest", "checked"}

\* A process has one live call at most.
OneAlive == \A f, g \in Forks : f[1] = g[1] /\ Alive(f) /\ Alive(g) => f = g

\* What the stage of a call says of the leases and of its descriptors.
Holding ==
  \A f \in Forks :
    /\ fork[f].at = "none" => fork[f].fds = {}
    /\ fork[f].at \in {"list", "lease"} => fork[f].fds = {"native"}
    /\ fork[f].at \in Leasing => fork[f].fds = Files /\ lock["runtime"] = f[1]
    /\ Alive(f) => lock["native"] = f[1]

\* No process holds the runtime lease except by a call that is past it.
RuntimeOwed ==
  \A p \in Processes : lock["runtime"] = p => \E f \in Of(p) : fork[f].at \in Leasing
NativeOwed ==
  \A p \in Processes : lock["native"] = p => \E f \in Of(p) : Alive(f)

\* The parent's launcher works under the runtime lease.
LauncherHolds == parent.at # "away" <=> lock["runtime"] = "launcher"

\* A judged parent stays as it was found.
StateKept == \A f \in Forks : fork[f].at \in Judged => journal = fork[f].state

\* Past its digest, a call has a receipt.
Digested == \A f \in Forks : fork[f].at \in Read => fork[f].receipt \in Versions

\* What a call has read lies between its digest and the present.
ReadInOrder ==
  \A f \in Forks :
    /\ fork[f].at \in Read => \A x \in Parts : fork[f].receipt[x] <= written[x]
    /\ Kept(f) =>
         /\ fork[f].settings \in Versions
         /\ fork[f].settings["record"] = fork[f].receipt["record"]
         /\ fork[f].receipt["transcript"] <= fork[f].settings["transcript"]
         /\ fork[f].settings["transcript"] <= written["transcript"]

LeaseInv ==
  /\ ForkTypeOK /\ OneAlive /\ Holding /\ RuntimeOwed /\ NativeOwed
  /\ LauncherHolds /\ StateKept /\ Digested
ForkInv == LeaseInv /\ ReadInOrder /\ ForkHonest

-----------------------------------------------------------------------------
(* Calls *)

\* A call whose process has no other alive.
Sole(f) == \A g \in Forks : g # f /\ g[1] = f[1] => ~Alive(g)

\* What a step leaves alone when it concerns the call only.
Aside == UNCHANGED <<journal, hold, written, process, parent>> /\ raw' \in BOOLEAN

\* Of every stage a step of a call starts from, the call is its process's only one.
LEMMA StepIsSole ==
  ASSUME ForkTypeOK, OneAlive, NEW f \in Forks,
         Alive(f) \/ (fork[f].at = "none" /\ MayPrepare(f[1]))
  PROVE  Sole(f)
  <1>1. CASE Alive(f)
    BY <1>1 DEF OneAlive, Sole
  <1>2. CASE MayPrepare(f[1])
    <2>1. \A g \in Forks : fork[g].at \in Stages
      BY DEF ForkTypeOK, Calls
    <2> QED BY <1>2, <2>1 DEF Sole, MayPrepare, Active, Busy, Of, Alive, Stages
  <1> QED BY <1>1, <1>2

\* A call that gives up, and closes every file its process has locked.
LEMMA GivesUp ==
  ASSUME ForkAssumption, LeaseInv, NEW f \in Forks, Sole(f), Aside, NEW S,
         \A x \in Files : lock[x] = f[1] => x \in S,
         fork' = [fork EXCEPT ![f] = [Idle EXCEPT !.at = "closed"]],
         lock' = Dropped(f[1], S)
  PROVE  LeaseInv'
  <1> USE DEF LeaseInv
  <1>0. f[1] \in Processes
    BY DEF Processes
  <1>1. ForkTypeOK'
    BY DEF ForkTypeOK, Aside, Dropped, Idle, Calls, Stages
  <1>2. \A g \in Forks : fork[g].at \in Stages /\ fork'[g].at \in Stages
    BY <1>1 DEF ForkTypeOK, Calls
  <1>3. /\ fork'[f].at = "closed"
        /\ \A g \in Forks : g # f => fork'[g] = fork[g]
    BY DEF ForkTypeOK, Idle
  <1>4. \A x \in Files : /\ lock'[x] # f[1]
                        /\ (lock[x] # f[1] => lock'[x] = lock[x])
                        /\ lock'[x] \in {None, lock[x]}
    BY <1>0 DEF Dropped, ForkAssumption
  <1>5. OneAlive'
    BY <1>3 DEF OneAlive, Alive
  <1>6. Holding'
    <2> SUFFICES ASSUME NEW g \in Forks
        PROVE /\ fork'[g].at = "none" => fork'[g].fds = {}
              /\ fork'[g].at \in {"list", "lease"} => fork'[g].fds = {"native"}
              /\ fork'[g].at \in Leasing => fork'[g].fds = Files /\ lock'["runtime"] = g[1]
              /\ Alive(g)' => lock'["native"] = g[1]
      BY DEF Holding
    <2>1. CASE g = f
      BY <2>1, <1>3 DEF Leasing, Alive
    <2>2. CASE g # f /\ g[1] = f[1]
      BY <2>2, <1>2, <1>3 DEF Sole, Alive, Leasing, Holding
    <2>3. CASE g[1] # f[1]
      BY <2>3, <1>3, <1>4 DEF Holding, Alive, Files
    <2> QED BY <2>1, <2>2, <2>3
  <1>7. RuntimeOwed'
    BY <1>3, <1>4 DEF RuntimeOwed, Of, Files, ForkAssumption
  <1>8. NativeOwed'
    BY <1>3, <1>4 DEF NativeOwed, Of, Files, Alive, ForkAssumption
  <1>9. LauncherHolds'
    BY <1>0, <1>4 DEF LauncherHolds, Aside, ForkAssumption, Files, Dropped
  <1>10. StateKept' /\ Digested'
    BY <1>3 DEF StateKept, Digested, Aside, Judged, Read
  <1> QED BY <1>1, <1>5, <1>6, <1>7, <1>8, <1>9, <1>10

\* A call goes on under both leases.
LEMMA GoesOn ==
  ASSUME ForkAssumption, LeaseInv, NEW f \in Forks, Aside, NEW c \in Calls,
         fork[f].at \in Leasing, c.at \in Leasing, c.fds = fork[f].fds,
         c.at \in Judged => journal = c.state, c.at \in Read => c.receipt \in Versions,
         fork' = [fork EXCEPT ![f] = c], lock' = lock
  PROVE  LeaseInv'
  <1> USE DEF LeaseInv
  <1>1. ForkTypeOK'
    BY DEF ForkTypeOK, Aside
  <1>2. fork'[f] = c /\ \A g \in Forks : g # f => fork'[g] = fork[g]
    BY DEF ForkTypeOK
  <1>3. \A g \in Forks : Alive(g)' <=> Alive(g)
    BY <1>2 DEF Alive, Leasing
  <1>4. \A g \in Forks : fork'[g].at \in Leasing <=> fork[g].at \in Leasing
    BY <1>2
  <1>5. OneAlive'
    BY <1>3 DEF OneAlive
  <1>6. Holding'
    BY <1>2, <1>3, <1>4 DEF Holding, Leasing
  <1>7. RuntimeOwed' /\ NativeOwed'
    BY <1>3, <1>4 DEF RuntimeOwed, NativeOwed, Of
  <1>8. LauncherHolds'
    BY DEF LauncherHolds, Aside
  <1>9. StateKept' /\ Digested'
    BY <1>2 DEF StateKept, Digested, Aside
  <1> QED BY <1>1, <1>5, <1>6, <1>7, <1>8, <1>9

\* A call takes a free lease: the native one at first, the runtime lease after the list.
LEMMA TakesLease ==
  ASSUME ForkAssumption, LeaseInv, NEW f \in Forks, Sole(f), Aside,
         NEW file \in Files, NEW next, Free(file, f[1]), Takes(f, file, next),
         \/ fork[f].at = "none" /\ file = "native" /\ next = "list"
         \/ fork[f].at = "lease" /\ file = "runtime" /\ next = "look"
  PROVE  LeaseInv'
  <1> USE DEF LeaseInv
  <1>0. f[1] \in Processes
    BY DEF Processes
  <1>1. ForkTypeOK'
    <2>1. lock' \in [Files -> Processes \cup {None, "launcher"}]
      BY <1>0 DEF ForkTypeOK, Takes, Leased
    <2>2. fork' \in [Forks -> Calls]
      <3>1. [fork[f] EXCEPT !.at = next, !.fds = fork[f].fds \cup {file}] \in Calls
        <4>1. fork[f] \in Calls /\ next \in Stages
          BY DEF ForkTypeOK, Stages
        <4>2. fork[f].fds \cup {file} \in SUBSET Files
          BY <4>1 DEF Calls
        <4> QED BY <4>1, <4>2 DEF Calls
      <3>2. fork' = [fork EXCEPT ![f] = [fork[f] EXCEPT !.at = next, !.fds = fork[f].fds \cup {file}]]
        BY DEF Takes, ForkTypeOK
      <3> QED BY <3>1, <3>2 DEF ForkTypeOK
    <2> QED BY <2>1, <2>2 DEF ForkTypeOK, Aside
  <1>2. /\ fork'[f].at = next /\ fork'[f].fds = fork[f].fds \cup {file}
        /\ \A g \in Forks : g # f => fork'[g] = fork[g]
    BY DEF ForkTypeOK, Takes, Calls
  <1>3. lock'[file] = f[1] /\ \A x \in Files : x # file => lock'[x] = lock[x]
    BY DEF ForkTypeOK, Takes, Leased
  <1>4. lock[file] \in {None, f[1]}
    BY DEF Free
  <1>5. OneAlive'
    BY <1>2 DEF OneAlive, Alive, Sole
  <1>6. Holding'
    <2> SUFFICES ASSUME NEW g \in Forks
        PROVE /\ fork'[g].at = "none" => fork'[g].fds = {}
              /\ fork'[g].at \in {"list", "lease"} => fork'[g].fds = {"native"}
              /\ fork'[g].at \in Leasing => fork'[g].fds = Files /\ lock'["runtime"] = g[1]
              /\ Alive(g)' => lock'["native"] = g[1]
      BY DEF Holding
    <2>1. CASE g = f
      BY <2>1, <1>2, <1>3 DEF Leasing, Alive, Files, Holding
    <2>2. CASE g # f /\ g[1] = f[1]
      BY <2>2, <1>2 DEF Sole, Alive, Leasing, Holding
    <2>3. CASE g[1] # f[1]
      <3>0. g[1] \in Processes
        BY DEF Processes
      <3>1. fork[g].at \in Leasing => lock'["runtime"] = g[1]
        BY <2>3, <3>0, <1>3, <1>4 DEF Holding, ForkAssumption, Files
      <3>2. Alive(g) => lock'["native"] = g[1]
        BY <2>3, <3>0, <1>3, <1>4 DEF Holding, ForkAssumption, Files
      <3> QED BY <2>3, <1>2, <3>1, <3>2 DEF Holding, Alive
    <2> QED BY <2>1, <2>2, <2>3
  <1>7. RuntimeOwed'
    BY <1>0, <1>2, <1>3 DEF RuntimeOwed, Of, Files, Leasing
  <1>8. NativeOwed'
    BY <1>0, <1>2, <1>3 DEF NativeOwed, Of, Files, Alive
  <1>9. LauncherHolds'
    BY <1>0, <1>3, <1>4 DEF LauncherHolds, Aside, ForkAssumption, Files
  <1>10. StateKept' /\ Digested'
    BY <1>2 DEF StateKept, Digested, Aside, Judged, Read
  <1> QED BY <1>1, <1>5, <1>6, <1>7, <1>8, <1>9, <1>10

-----------------------------------------------------------------------------
(* Steps *)

\* A call that refuses closes what it has locked.
LEMMA RefusalGivesUp ==
  ASSUME ForkAssumption, LeaseInv, NEW f \in Forks, Sole(f), Aside, Refused(f), Alive(f) \/ ~Free("native", f[1])
  PROVE  LeaseInv'
  <1>1. \A x \in Files : lock[x] = f[1] => x \in fork[f].fds
    <2> SUFFICES ASSUME NEW x \in Files, lock[x] = f[1] PROVE x \in fork[f].fds
      OBVIOUS
    <2>0. f[1] \in Processes
      BY DEF Processes
    <2>1. CASE x = "runtime"
      <3>1. PICK g \in Of(f[1]) : fork[g].at \in Leasing
        BY <2>0, <2>1 DEF LeaseInv, RuntimeOwed
      <3>2. g = f
        BY <3>1 DEF Sole, Of, Alive, Leasing
      <3> QED BY <2>1, <3>1, <3>2 DEF LeaseInv, Holding, Files
    <2>2. CASE x = "native"
      <3>1. PICK g \in Of(f[1]) : Alive(g)
        BY <2>0, <2>2 DEF LeaseInv, NativeOwed
      <3>2. g = f
        BY <3>1 DEF Sole, Of
      <3>3. fork[f].at \in {"list", "lease"} \cup Leasing
        BY <3>1, <3>2 DEF LeaseInv, ForkTypeOK, Calls, Stages, Leasing, Alive
      <3> QED BY <2>2, <3>3 DEF LeaseInv, Holding, Files
    <2> QED BY <2>1, <2>2 DEF Files
  <1> QED BY <1>1, GivesUp DEF Refused

\* prepare and recheck, stage by stage.
LEMMA StepKeepsLeases ==
  ASSUME ForkAssumption, LeaseInv, NEW f \in Forks, Step(f)
  PROVE  LeaseInv'
  <1>0. Aside
    BY DEF Step, Aside, LeaseInv, ForkTypeOK
  <1>1. fork[f] \in Calls /\ f[1] \in Processes /\ ForkTypeOK /\ OneAlive
    BY DEF LeaseInv, ForkTypeOK, Processes
  <1>2. Sole(f)
    <2>1. Alive(f) \/ (fork[f].at = "none" /\ MayPrepare(f[1]))
      BY DEF Step, Native, Catalog, Look, Digest, Inherit, Recheck, Redigest, Close, Alive
    <2> QED BY <1>1, <2>1, StepIsSole
  <1>3. CASE Native(f)
    <2>1. CASE Free("native", f[1])
      <3>1. Takes(f, "native", "list") /\ fork[f].at = "none"
        BY <1>3, <2>1 DEF Native
      <3> QED BY <1>0, <1>2, <2>1, <3>1, TakesLease DEF Files
    <2>2. CASE ~Free("native", f[1])
      <3>1. Refused(f)
        BY <1>3, <2>2 DEF Native
      <3> QED BY <1>0, <1>2, <2>2, <3>1, RefusalGivesUp
    <2> QED BY <2>1, <2>2
  <1>4. CASE Catalog(f)
    <2>1. CASE fork[f].at = "list" /\ Listed /\ Free("runtime", f[1])
      <3>1. fork' = [fork EXCEPT ![f].at = "lease"] /\ lock' = Dropped(f[1], {"runtime"})
        BY <1>4, <2>1 DEF Catalog
      <3>2. lock["runtime"] # f[1]
        <4>1. \A g \in Of(f[1]) : fork[g].at \notin Leasing
          BY <1>2, <2>1 DEF Sole, Of, Leasing, Alive
        <4> QED BY <1>1, <4>1 DEF LeaseInv, RuntimeOwed
      <3>3. lock' = lock
        BY <1>1, <3>1, <3>2 DEF Dropped, ForkTypeOK
      <3>4. /\ fork'[f].at = "lease" /\ fork'[f].fds = fork[f].fds
            /\ \A g \in Forks : g # f => fork'[g] = fork[g]
        BY <1>1, <3>1 DEF Calls, ForkTypeOK
      <3>5. ForkTypeOK'
        <4>1. [fork[f] EXCEPT !.at = "lease"] \in Calls
          BY <1>1 DEF Calls, Stages
        <4>2. fork' = [fork EXCEPT ![f] = [fork[f] EXCEPT !.at = "lease"]]
          BY <1>1, <3>1 DEF ForkTypeOK
        <4> QED BY <1>0, <1>1, <3>3, <4>1, <4>2 DEF ForkTypeOK, Aside
      <3>6. \A g \in Forks : (Alive(g)' <=> Alive(g)) /\ (fork'[g].at \in Leasing <=> fork[g].at \in Leasing)
        BY <2>1, <3>4 DEF Alive, Leasing
      <3>7. OneAlive' /\ RuntimeOwed' /\ NativeOwed'
        BY <3>3, <3>6 DEF LeaseInv, OneAlive, RuntimeOwed, NativeOwed, Of
      <3>8. Holding'
        BY <2>1, <3>3, <3>4, <3>6 DEF LeaseInv, Holding, Leasing
      <3>9. LauncherHolds' /\ StateKept' /\ Digested'
        BY <1>0, <3>3, <3>4 DEF LeaseInv, LauncherHolds, StateKept, Digested, Aside, Judged, Read
      <3> QED BY <3>5, <3>7, <3>8, <3>9 DEF LeaseInv
    <2>2. CASE fork[f].at = "list" /\ ~(Listed /\ Free("runtime", f[1]))
      <3>1. /\ fork' = [fork EXCEPT ![f] = [Idle EXCEPT !.at = "closed"]]
            /\ lock' = Dropped(f[1], fork[f].fds \cup {"runtime"})
        BY <1>4, <2>2 DEF Catalog
      <3>2. \A x \in Files : lock[x] = f[1] => x \in fork[f].fds \cup {"runtime"}
        BY <2>2 DEF LeaseInv, Holding, Files
      <3> QED BY <1>0, <1>2, <3>1, <3>2, GivesUp
    <2>3. CASE fork[f].at = "lease" /\ Free("runtime", f[1])
      <3>1. Takes(f, "runtime", "look")
        BY <1>4, <2>3 DEF Catalog
      <3> QED BY <1>0, <1>2, <2>3, <3>1, TakesLease DEF Files
    <2>4. CASE fork[f].at = "lease" /\ ~Free("runtime", f[1])
      <3>1. Refused(f) /\ Alive(f)
        BY <1>4, <2>4 DEF Catalog, Alive
      <3> QED BY <1>0, <1>2, <3>1, RefusalGivesUp
    <2> QED BY <1>4, <2>1, <2>2, <2>3, <2>4 DEF Catalog
  <1>5. CASE Look(f) /\ lock' = lock /\ ~Refused(f)
    <2> DEFINE c == [fork[f] EXCEPT !.at = "digest", !.state = journal]
    <2>1. fork' = [fork EXCEPT ![f] = c] /\ journal \in Terminal /\ fork[f].at = "look"
      BY <1>1, <1>5 DEF Look, ForkTypeOK
    <2>2. c \in Calls /\ c.at = "digest" /\ c.fds = fork[f].fds /\ c.state = journal
      BY <1>1, <2>1 DEF Calls, Stages
    <2> HIDE DEF c
    <2> QED BY <1>0, <1>5, <2>1, <2>2, GoesOn DEF Leasing, Read
  <1>6. CASE Digest(f)
    <2> DEFINE c == [fork[f] EXCEPT !.at = "inherit", !.receipt = written]
    <2>1. fork' = [fork EXCEPT ![f] = c] /\ fork[f].at = "digest" /\ lock' = lock
      BY <1>1, <1>6 DEF Digest, ForkTypeOK
    <2>2. /\ c \in Calls /\ c.at = "inherit" /\ c.fds = fork[f].fds
          /\ c.state = fork[f].state /\ c.receipt \in Versions
      BY <1>1 DEF Calls, Stages, ForkTypeOK
    <2>3. journal = fork[f].state
      BY <2>1 DEF LeaseInv, StateKept, Judged
    <2> HIDE DEF c
    <2> QED BY <1>0, <2>1, <2>2, <2>3, GoesOn DEF Leasing
  <1>7. CASE Inherit(f)
    <2> DEFINE s == [transcript |-> written["transcript"], record |-> fork[f].receipt["record"]]
               c == [fork[f] EXCEPT !.at = "prepared", !.settings = s]
    <2>1. fork' = [fork EXCEPT ![f] = c] /\ fork[f].at = "inherit" /\ lock' = lock
      BY <1>1, <1>7 DEF Inherit, ForkTypeOK
    <2>2. journal = fork[f].state /\ fork[f].receipt \in Versions
      BY <2>1 DEF LeaseInv, StateKept, Judged, Digested, Read
    <2>3. s \in Versions
      BY <1>1, <2>2 DEF Versions, Parts, ForkTypeOK
    <2>4. /\ c \in Calls /\ c.at = "prepared" /\ c.fds = fork[f].fds
          /\ c.state = fork[f].state /\ c.receipt = fork[f].receipt
      BY <1>1, <2>3 DEF Calls, Stages
    <2> HIDE DEF c
    <2> QED BY <1>0, <2>1, <2>2, <2>4, GoesOn DEF Leasing
  <1>8. CASE Recheck(f) /\ journal = fork[f].state /\ ~hold
    <2> DEFINE c == [fork[f] EXCEPT !.at = "redigest"]
    <2>1. fork' = [fork EXCEPT ![f] = c] /\ fork[f].at \in {"prepared", "checked"} /\ lock' = lock
      BY <1>1, <1>8 DEF Recheck, ForkTypeOK
    <2>2. /\ c \in Calls /\ c.at = "redigest" /\ c.fds = fork[f].fds
          /\ c.state = fork[f].state /\ c.receipt = fork[f].receipt
      BY <1>1 DEF Calls, Stages
    <2>3. fork[f].receipt \in Versions
      BY <2>1 DEF LeaseInv, Digested, Read
    <2> HIDE DEF c
    <2> QED BY <1>0, <1>8, <2>1, <2>2, <2>3, GoesOn DEF Leasing
  <1>9. CASE Redigest(f) /\ Same(f)
    <2> DEFINE c == [fork[f] EXCEPT !.at = "checked"]
    <2>1. fork' = [fork EXCEPT ![f] = c] /\ fork[f].at = "redigest" /\ lock' = lock
      BY <1>1, <1>9 DEF Redigest, ForkTypeOK
    <2>2. /\ c \in Calls /\ c.at = "checked" /\ c.fds = fork[f].fds
          /\ c.state = fork[f].state /\ c.receipt = fork[f].receipt
      BY <1>1 DEF Calls, Stages
    <2>3. journal = fork[f].state /\ fork[f].receipt \in Versions
      BY <2>1 DEF LeaseInv, StateKept, Judged, Digested, Read
    <2> HIDE DEF c
    <2> QED BY <1>0, <2>1, <2>2, <2>3, GoesOn DEF Leasing
  <1>10. CASE Refused(f) /\ (Look(f) \/ Recheck(f) \/ Redigest(f) \/ Close(f))
    <2>1. Alive(f)
      BY <1>10 DEF Look, Recheck, Redigest, Close, Alive
    <2> QED BY <1>0, <1>2, <1>10, <2>1, RefusalGivesUp
  <1>11. CASE Look(f) /\ ~Refused(f)
    <2>1. lock' = lock
      BY <1>11 DEF Look
    <2> QED BY <1>5, <1>11, <2>1
  <1> QED
    BY <1>3, <1>4, <1>6, <1>7, <1>8, <1>9, <1>10, <1>11 DEF Step, Look, Recheck, Redigest, Close

\* A process that ends drops its locks and its calls.
LEMMA EndKeepsLeases ==
  ASSUME ForkAssumption, LeaseInv, NEW p \in Processes, Ends(p)
  PROVE  LeaseInv'
  <1>1. \A f \in Forks : /\ f[1] = p => fork'[f] = [Idle EXCEPT !.at = "closed"]
                         /\ f[1] # p => fork'[f] = fork[f]
    BY DEF Ends
  <1>2. /\ \A x \in Files : lock'[x] # p /\ lock'[x] \in {None, lock[x]} /\ (lock[x] # p => lock'[x] = lock[x])
        /\ lock' = [x \in Files |-> lock'[x]]
    BY DEF Ends, Dropped, ForkAssumption
  <1>3. ForkTypeOK'
    <2>1. [Idle EXCEPT !.at = "closed"] \in Calls
      BY DEF Idle, Calls, Stages
    <2>2. fork' \in [Forks -> Calls]
      BY <2>1 DEF Ends, LeaseInv, ForkTypeOK
    <2>3. lock' \in [Files -> Processes \cup {None, "launcher"}]
      BY <1>2 DEF LeaseInv, ForkTypeOK
    <2> QED BY <2>2, <2>3 DEF LeaseInv, ForkTypeOK, Ends
  <1>4. \A f \in Forks : f[1] = p => fork'[f].at = "closed"
    BY <1>1 DEF Idle
  <1>5. OneAlive'
    BY <1>1, <1>4 DEF LeaseInv, OneAlive, Alive
  <1>6. Holding'
    <2> SUFFICES ASSUME NEW g \in Forks
        PROVE /\ fork'[g].at = "none" => fork'[g].fds = {}
              /\ fork'[g].at \in {"list", "lease"} => fork'[g].fds = {"native"}
              /\ fork'[g].at \in Leasing => fork'[g].fds = Files /\ lock'["runtime"] = g[1]
              /\ Alive(g)' => lock'["native"] = g[1]
      BY DEF Holding
    <2>1. CASE g[1] = p
      BY <2>1, <1>4 DEF Leasing, Alive
    <2>2. CASE g[1] # p
      BY <2>2, <1>1, <1>2 DEF LeaseInv, Holding, Alive, Files
    <2> QED BY <2>1, <2>2
  <1>7. RuntimeOwed' /\ NativeOwed'
    BY <1>1, <1>2 DEF LeaseInv, RuntimeOwed, NativeOwed, Of, Files, Alive, ForkAssumption
  <1>8. LauncherHolds'
    BY <1>2 DEF LeaseInv, LauncherHolds, Ends, ForkAssumption, Files
  <1>9. StateKept' /\ Digested'
    BY <1>1, <1>4 DEF LeaseInv, StateKept, Digested, Ends, Judged, Read
  <1> QED BY <1>3, <1>5, <1>6, <1>7, <1>8, <1>9 DEF LeaseInv

\* The parent's launcher needs the runtime lease, which no live call leaves it.
LEMMA ParentKeepsLeases ==
  ASSUME ForkAssumption, LeaseInv, Parent
  PROVE  LeaseInv'
  <1>1. ForkTypeOK /\ UNCHANGED <<hold, process, fork, raw>>
    BY DEF Parent, LeaseInv
  <1>2. \A f \in Forks : f[1] \in Processes
    BY DEF Processes
  <1>3. ForkTypeOK'
    <2>1. journal' \in Terminal \cup {"OPEN", "ABANDONED"}
      BY <1>1 DEF Parent, Resume, Reopen, Writes, Exits, Dies, Scan, Discard, ForkTypeOK, Terminal
    <2>2. lock' \in [Files -> Processes \cup {None, "launcher"}]
      BY <1>1 DEF Parent, Resume, Reopen, Writes, Exits, Dies, Scan, Discard, ForkTypeOK, Dropped
    <2>3. parent' \in [at : {"away", "leased", "runs"}, resumes : Nat]
      BY <1>1 DEF Parent, Resume, Reopen, Writes, Exits, Dies, Scan, Discard, ForkTypeOK
    <2>4. written' \in Versions
      BY <1>1 DEF Parent, Resume, Reopen, Writes, Exits, Dies, Scan, Discard, ForkTypeOK, Versions
    <2> QED BY <1>1, <2>1, <2>2, <2>3, <2>4 DEF ForkTypeOK
  <1>4. /\ lock'["native"] = lock["native"]
        /\ \A p \in Processes : lock'["runtime"] = p <=> lock["runtime"] = p
    BY <1>1 DEF Parent, Resume, Reopen, Writes, Exits, Dies, Scan, Discard, MayResume, ForkTypeOK,
       Dropped, Files,
                ForkAssumption, LeaseInv, LauncherHolds
  <1>5. LauncherHolds'
    BY <1>1 DEF Parent, Resume, Reopen, Writes, Exits, Dies, Scan, Discard, ForkTypeOK, Dropped, Files,
                ForkAssumption, LeaseInv, LauncherHolds
  <1>6. OneAlive' /\ Digested'
    BY <1>1 DEF LeaseInv, OneAlive, Digested, Alive
  <1>7. Holding'
    BY <1>1, <1>2, <1>4 DEF LeaseInv, Holding, Alive
  <1>8. RuntimeOwed' /\ NativeOwed'
    BY <1>1, <1>4 DEF LeaseInv, RuntimeOwed, NativeOwed, Of, Alive
  <1>9. StateKept'
    <2> SUFFICES ASSUME NEW f \in Forks, fork[f].at \in Judged PROVE journal' = fork[f].state
      BY <1>1 DEF StateKept
    <2>1. lock["runtime"] = f[1]
      BY DEF LeaseInv, Holding, Judged, Leasing
    <2>2. lock["runtime"] # None /\ parent.at = "away"
      BY <1>2, <2>1 DEF LeaseInv, LauncherHolds, ForkAssumption, ForkTypeOK
    <2>3. journal' = journal
      BY <2>2 DEF Parent, Resume, Reopen, Writes, Exits, Dies, Scan, Discard
    <2> QED BY <2>3 DEF LeaseInv, StateKept
  <1> QED BY <1>3, <1>5, <1>6, <1>7, <1>8, <1>9 DEF LeaseInv

\* Everybody keeps the leases.
LEMMA NextKeepsLeases ==
  ASSUME ForkAssumption, LeaseInv, [Next]_vars
  PROVE  LeaseInv'
  <1>1. CASE \E f \in Forks : Step(f)
    BY <1>1, StepKeepsLeases
  <1>2. CASE \E p \in Processes : Ends(p)
    BY <1>2, EndKeepsLeases
  <1>3. CASE Parent
    BY <1>3, ParentKeepsLeases
  <1>4. CASE (\E f \in Forks : Exec(f)) \/ Others \/ UNCHANGED vars
    <2>1. UNCHANGED <<journal, lock, fork, parent>>
      BY <1>4 DEF Exec, Others, Holds, RawWrites, vars
    <2>2. ForkTypeOK'
      <3>1. process' \in [Processes -> {"running", "native", "ended"}]
        BY <1>4 DEF Exec, Others, vars, LeaseInv, ForkTypeOK
      <3>2. written' \in Versions
        BY <1>4 DEF Exec, Others, Holds, RawWrites, vars, LeaseInv, ForkTypeOK, Versions
      <3>3. hold' \in BOOLEAN /\ raw' \in BOOLEAN
        BY <1>4 DEF Exec, Others, Holds, RawWrites, vars, LeaseInv, ForkTypeOK
      <3> QED BY <2>1, <3>1, <3>2, <3>3 DEF LeaseInv, ForkTypeOK
    <2>3. OneAlive' /\ Holding' /\ RuntimeOwed' /\ NativeOwed'
      BY <2>1 DEF LeaseInv, OneAlive, Holding, RuntimeOwed, NativeOwed, Of, Alive
    <2> QED BY <2>1, <2>2, <2>3 DEF LeaseInv, LauncherHolds, StateKept, Digested
  <1> QED BY <1>1, <1>2, <1>3, <1>4 DEF Next

-----------------------------------------------------------------------------
(* What a call has read *)

\* What a step does to what its call has read.
ReadsOn(f) ==
  \/ fork'[f].at \notin Read
  \/ fork'[f].at = "inherit" /\ fork'[f].receipt = written
  \/ /\ fork[f].at = "inherit" /\ fork'[f].at = "prepared" /\ fork'[f].receipt = fork[f].receipt
     /\ fork'[f].settings = [transcript |-> written["transcript"], record |-> fork[f].receipt["record"]]
  \/ /\ Kept(f) /\ fork'[f].at = "redigest"
     /\ fork'[f].receipt = fork[f].receipt /\ fork'[f].settings = fork[f].settings
  \/ /\ fork[f].at = "redigest" /\ fork'[f].at = "checked" /\ written = fork[f].receipt
     /\ fork'[f].receipt = fork[f].receipt /\ fork'[f].settings = fork[f].settings

LEMMA StepReadsOn ==
  ASSUME ForkTypeOK, NEW f \in Forks, Step(f)
  PROVE  ReadsOn(f) /\ \A g \in Forks : g # f => fork'[g] = fork[g]
  <1>1. fork[f] \in Calls
    BY DEF ForkTypeOK
  <1>2. CASE Refused(f) \/ Native(f) \/ Catalog(f) \/ Look(f)
    BY <1>1, <1>2 DEF ForkTypeOK, Refused, Native, Catalog, Look, Takes, Idle, Calls, ReadsOn, Read
  <1>3. CASE ~Refused(f) /\ (Digest(f) \/ Inherit(f) \/ Recheck(f) \/ Redigest(f) \/ Close(f))
    BY <1>1, <1>3 DEF ForkTypeOK, Digest, Inherit, Recheck, Redigest, Close, Same, Calls,
       ReadsOn, Kept
  <1> QED BY <1>2, <1>3 DEF Step

\* Versions only grow.
LEMMA VersionsGrow ==
  ASSUME ForkTypeOK, [Next]_vars
  PROVE  \A x \in Parts : written[x] \in Nat /\ written'[x] \in Nat /\ written[x] <= written'[x]
  <1>1. \A x \in Parts : written[x] \in Nat
    BY DEF ForkTypeOK, Versions
  <1>2. CASE written' = written
    BY <1>1, <1>2
  <1>3. CASE \E part \in Parts : written' = [written EXCEPT ![part] = @ + 1]
    BY <1>1, <1>3 DEF ForkTypeOK, Versions
  <1>4. written' = written \/ \E part \in Parts : written' = [written EXCEPT ![part] = @ + 1]
    BY DEF Next, Step, Exec, Ends, Parent, Resume, Reopen, Writes, Exits, Dies, Scan, Discard, Others, Holds,
           RawWrites, vars
  <1> QED BY <1>2, <1>3, <1>4

LEMMA NextReadsInOrder ==
  ASSUME LeaseInv, ReadInOrder, [Next]_vars, ForkTypeOK'
  PROVE  ReadInOrder'
  <1>0. ForkTypeOK
    BY DEF LeaseInv
  <1>1. \A x \in Parts : written[x] \in Nat /\ written'[x] \in Nat /\ written[x] <= written'[x]
    BY <1>0, VersionsGrow
  <1>2. ASSUME NEW g \in Forks, fork'[g] = fork[g]
        PROVE  /\ fork'[g].at \in Read => \A x \in Parts : fork'[g].receipt[x] <= written'[x]
               /\ Kept(g)' =>
                    /\ fork'[g].settings \in Versions
                    /\ fork'[g].settings["record"] = fork'[g].receipt["record"]
                    /\ fork'[g].receipt["transcript"] <= fork'[g].settings["transcript"]
                    /\ fork'[g].settings["transcript"] <= written'["transcript"]
    <2>1. CASE fork[g].at \notin Read
      BY <1>2, <2>1 DEF Read, Kept
    <2>2. CASE fork[g].at \in Read
      <3>1. \A x \in Parts : fork[g].receipt[x] \in Nat
        BY <2>2 DEF LeaseInv, Digested, Versions
      <3>2. Kept(g) => \A x \in Parts : fork[g].settings[x] \in Nat
        BY DEF ReadInOrder, Versions
      <3> QED BY <1>1, <1>2, <2>2, <3>1, <3>2 DEF ReadInOrder, Kept, Parts
    <2> QED BY <2>1, <2>2
  <1>3. CASE \E f \in Forks : Step(f)
    <2>1. PICK f \in Forks : Step(f)
      BY <1>3
    <2>2. ReadsOn(f) /\ (\A g \in Forks : g # f => fork'[g] = fork[g]) /\ written' = written
      BY <1>0, <2>1, StepReadsOn DEF Step
    <2>3. /\ fork'[f].at \in Read => \A x \in Parts : fork'[f].receipt[x] <= written'[x]
          /\ Kept(f)' =>
               /\ fork'[f].settings \in Versions
               /\ fork'[f].settings["record"] = fork'[f].receipt["record"]
               /\ fork'[f].receipt["transcript"] <= fork'[f].settings["transcript"]
               /\ fork'[f].settings["transcript"] <= written'["transcript"]
      <3>1. CASE fork'[f].at \notin Read
        BY <3>1 DEF Read, Kept
      <3>2. CASE fork'[f].at = "inherit" /\ fork'[f].receipt = written
        BY <1>1, <2>2, <3>2 DEF Kept
      <3>3. CASE /\ fork[f].at = "inherit" /\ fork'[f].at = "prepared" /\ fork'[f].receipt = fork[f].receipt
                 /\ fork'[f].settings = [transcript |-> written["transcript"], record |-> fork[f].receipt["record"]]
        <4>1. fork[f].receipt \in Versions /\ \A x \in Parts : fork[f].receipt[x] <= written[x]
          BY <3>3 DEF LeaseInv, Digested, ReadInOrder, Read
        <4>2. fork'[f].settings \in Versions
          BY <1>1, <3>3, <4>1 DEF Versions, Parts
        <4> QED BY <1>1, <2>2, <3>3, <4>1, <4>2 DEF Parts
      <3>4. CASE Kept(f) /\ fork'[f].receipt = fork[f].receipt /\ fork'[f].settings = fork[f].settings
        BY <2>2, <3>4 DEF ReadInOrder, Kept, Read
      <3> QED BY <2>2, <3>1, <3>2, <3>3, <3>4 DEF ReadsOn, Kept
    <2> QED BY <1>2, <2>2, <2>3 DEF ReadInOrder
  <1>4. CASE \E p \in Processes : Ends(p)
    <2>1. \A g \in Forks : fork'[g] = fork[g] \/ fork'[g].at = "closed"
      BY <1>4 DEF Ends, Idle
    <2> QED BY <1>2, <2>1 DEF ReadInOrder, Read, Kept
  <1>5. CASE UNCHANGED fork
    BY <1>2, <1>5 DEF ReadInOrder
  <1> QED BY <1>3, <1>4, <1>5 DEF Next, Exec, Parent, Others, vars

\* A call is judged honest by what it has read, and what it has read is not written
\* to by those that respect the lease.
LEMMA NextKeepsHonest ==
  ASSUME ForkAssumption, LeaseInv, ReadInOrder, ForkHonest, [Next]_vars
  PROVE  ForkHonest'
  <1>0. ForkTypeOK
    BY DEF LeaseInv
  <1>1. CASE \E f \in Forks : Step(f)
    <2>1. PICK f \in Forks : Step(f)
      BY <1>1
    <2>2. /\ ReadsOn(f) /\ (\A g \in Forks : g # f => fork'[g] = fork[g])
          /\ written' = written /\ raw' = (raw /\ fork'[f].at # "checked")
      BY <1>0, <2>1, StepReadsOn DEF Step
    <2> SUFFICES ASSUME NEW g \in Forks, fork'[g].at = "checked"
        PROVE fork'[g].settings = fork'[g].receipt /\ (~raw' => written' = fork'[g].receipt)
      BY DEF ForkHonest
    <2>3. CASE g = f
      <3>1. /\ fork[f].at = "redigest" /\ written = fork[f].receipt
            /\ fork'[f].receipt = fork[f].receipt /\ fork'[f].settings = fork[f].settings
        BY <2>2, <2>3 DEF ReadsOn, Read
      <3>2. /\ fork[f].receipt \in Versions /\ fork[f].settings \in Versions
            /\ fork[f].settings["record"] = fork[f].receipt["record"]
            /\ fork[f].receipt["transcript"] <= fork[f].settings["transcript"]
            /\ fork[f].settings["transcript"] <= fork[f].receipt["transcript"]
        BY <3>1 DEF LeaseInv, Digested, ReadInOrder, Read, Kept
      <3>3. fork[f].settings["transcript"] = fork[f].receipt["transcript"]
        BY <3>2 DEF Versions, Parts
      <3>4. fork[f].settings = fork[f].receipt
        BY <3>2, <3>3 DEF Versions, Parts
      <3> QED BY <2>2, <2>3, <3>1, <3>4
    <2>4. CASE g # f
      <3>1. fork[g].at = "checked" /\ fork'[g] = fork[g]
        BY <2>2, <2>4
      <3>2. fork'[f].at # "checked"
        <4> SUFFICES ASSUME fork'[f].at = "checked" PROVE FALSE
          OBVIOUS
        <4>1. fork[f].at = "redigest"
          BY <2>2 DEF ReadsOn, Read
        <4>2. f[1] = g[1]
          BY <3>1, <4>1 DEF LeaseInv, Holding, Alive
        <4> QED BY <2>4, <3>1, <4>1, <4>2 DEF LeaseInv, OneAlive, Alive
      <3> QED BY <2>2, <3>1, <3>2 DEF ForkHonest
    <2> QED BY <2>3, <2>4
  <1>2. CASE \E p \in Processes : Ends(p)
    <2>1. \A g \in Forks : fork'[g] = fork[g] \/ fork'[g].at = "closed"
      BY <1>2 DEF Ends, Idle
    <2> QED BY <1>2, <2>1 DEF ForkHonest, Ends
  <1>3. CASE Parent
    <2> SUFFICES ASSUME NEW g \in Forks, fork[g].at = "checked" PROVE written' = written
      BY <1>3 DEF ForkHonest, Parent
    <2>1. lock["runtime"] = g[1] /\ g[1] \in Processes
      BY DEF LeaseInv, Holding, Leasing, Processes
    <2>2. parent.at = "away"
      BY <2>1 DEF LeaseInv, LauncherHolds, ForkAssumption
    <2> QED BY <1>3, <2>2 DEF Parent, Resume, Reopen, Writes, Exits, Dies, Scan, Discard
  <1>4. CASE (\E f \in Forks : Exec(f)) \/ Others \/ UNCHANGED vars
    <2>1. fork' = fork /\ (raw' = TRUE \/ (raw' = raw /\ written' = written))
      BY <1>4 DEF Exec, Others, Holds, RawWrites, vars
    <2> QED BY <2>1 DEF ForkHonest
  <1> QED BY <1>1, <1>2, <1>3, <1>4 DEF Next

-----------------------------------------------------------------------------
(* Theorems *)

LEMMA InitFork == ASSUME ForkAssumption, Init PROVE ForkInv
  <1> USE DEF Init
  <1>1. ForkTypeOK
    BY DEF ForkTypeOK, Idle, Calls, Stages, Versions, Terminal
  <1>2. \A f \in Forks : fork[f] = Idle
    OBVIOUS
  <1>3. OneAlive /\ Holding /\ StateKept /\ Digested
    BY <1>2 DEF OneAlive, Holding, StateKept, Digested, Alive, Idle, Leasing, Judged, Read
  <1>4. RuntimeOwed /\ NativeOwed /\ LauncherHolds
    BY DEF RuntimeOwed, NativeOwed, LauncherHolds, ForkAssumption, Files
  <1>5. ReadInOrder /\ ForkHonest
    BY <1>2 DEF ReadInOrder, ForkHonest, Idle, Read, Kept
  <1> QED BY <1>1, <1>3, <1>4, <1>5 DEF ForkInv, LeaseInv

LEMMA NextFork == ASSUME ForkAssumption, ForkInv, [Next]_vars PROVE ForkInv'
  <1>1. LeaseInv'
    BY NextKeepsLeases DEF ForkInv
  <1>2. ReadInOrder'
    BY <1>1, NextReadsInOrder DEF ForkInv, LeaseInv
  <1>3. ForkHonest'
    BY NextKeepsHonest DEF ForkInv
  <1> QED BY <1>1, <1>2, <1>3 DEF ForkInv

LEMMA ForkAlways == ASSUME ForkAssumption PROVE Spec => []ForkInv
  BY InitFork, NextFork, PTL DEF Spec

\* The variables of a fork, of its leases and of the parent have their types.
THEOREM ForkTyping == ASSUME ForkAssumption PROVE Spec => []ForkTypeOK
  <1>1. ForkInv => ForkTypeOK
    BY DEF ForkInv, LeaseInv
  <1> QED BY <1>1, ForkAlways, PTL

\* From the answer of prepare to the end of its process, nobody else has a lease of
\* the parent, whose state stays as it was found (PreparedFork; docs/terminal-runtimes.md).
THEOREM LeasesAreKept == ASSUME ForkAssumption PROVE Spec => []LeasesKept
  <1>1. ForkInv => LeasesKept
    BY DEF ForkInv, LeaseInv, LeasesKept, Kept, Holding, StateKept, Leasing, Judged, Alive, Files
  <1> QED BY <1>1, ForkAlways, PTL

\* A fork that passes recheck runs on what its receipt says, unless a program without
\* the lease wrote after the last look.
THEOREM ForkIsHonest == ASSUME ForkAssumption PROVE Spec => []ForkHonest
  <1>1. ForkInv => ForkHonest
    BY DEF ForkInv
  <1> QED BY <1>1, ForkAlways, PTL

\* A process whose calls have all been refused or closed keeps nobody from the parent.
THEOREM NothingIsHeld == ASSUME ForkAssumption PROVE Spec => []NothingHeld
  <1>1. ForkInv => NothingHeld
    BY DEF ForkInv, LeaseInv, NothingHeld, RuntimeOwed, NativeOwed, Of, Alive, Leasing, Files
  <1> QED BY <1>1, ForkAlways, PTL
-----------------------------------------------------------------------------
(***************************************************************************)
(* AppServerGuard, with any number of lines: no thread of the server is    *)
(* given a root outside the harness, every request is answered once, the   *)
(* two threads do not mix their lines, and the relay ends after the last   *)
(* line of its server.                                                     *)
(*                                                                         *)
(* The argument: a number is in one place at most, on its way to the       *)
(* server, with it, on its way back or received, and in one exactly while  *)
(* both sides live (Total, Counts); the lock, the half line and the thread *)
(* that wrote it agree as long as the client lives (Shares); the thread    *)
(* that carries the server's lines ends after the last of them, and the    *)
(* main thread flushes after that (Leaves).                                *)
(***************************************************************************)
CONSTANTS MaxMessages
VARIABLES line, inbound, outbound, relayIn, relayOut, outLock, part, mixed, main, server, client
Guard == INSTANCE AppServerGuard WITH lock <- outLock

\* What the two sides send, and what the relay lets through.
Sends ==
  {m \in Guard!AllMessages :
     /\ m.kind \in {"request", "notification", "response", "torn", "ragged"}
     /\ m.kind = "request" <=> m.id \in Guard!Ids
     /\ m.kind = "response" <=> m.id = Guard!Ask
     /\ m.resume => m.kind = "request"}
Passed ==
  {m \in Guard!AllMessages :
     /\ m.root \in {"in", "none"} /\ (m.resume => m.root = "in")
     /\ m.kind = "request" <=> m.id \in Guard!Ids}
Refusals == {m \in Guard!AllMessages : m.kind = "error" /\ m.id # Guard!Ask}
Comes == {m \in Guard!AllMessages : m.kind = "ask" <=> m.id = Guard!Ask}

Servers == [alive : BOOLEAN, stdin : BOOLEAN, held : BOOLEAN, pending : SUBSET Guard!Ids,
            roots : SUBSET {"in"}, asked : BOOLEAN, answered : BOOLEAN]
Clients ==
  {c \in [alive : BOOLEAN, open : BOOLEAN, reads : BOOLEAN, sent : 0..MaxMessages, asked : BOOLEAN,
          responded : BOOLEAN, wants : SUBSET Guard!Ids, got : [Guard!Ids -> Nat]] :
     c.open => c.alive}

\* Where the messages are: a relay between two lines has none in hand.
GuardTypes ==
  /\ line \in Seq(Sends) /\ inbound \in Seq(Passed) /\ outbound \in Seq(Comes)
  /\ relayIn \in [at : {"read", "emit", "rest", "write", "gone"}, forward : Passed \cup {None},
                  back : Refusals \cup {None}]
  /\ relayOut \in [at : {"read", "emit", "rest", "gone"}, carry : Comes \cup {None}]
  /\ relayIn.at \in {"read", "gone"} => relayIn.forward = None /\ relayIn.back = None
  /\ relayIn.at \in {"emit", "rest"} => relayIn.back # None
  /\ relayIn.at = "write" => relayIn.forward # None /\ relayIn.back = None
  /\ relayOut.at \in {"emit", "rest"} <=> relayOut.carry # None
  /\ outLock \in {None, "in", "out"} /\ part \in {None, "in", "out"}
  /\ main \in {"wait", "join", "flush", "leave", "exited"}
  /\ server \in Servers /\ client \in Clients

\* While the client lives, the lock, the half line and the thread that wrote it agree.
Shares ==
  /\ ~mixed
  /\ client.alive =>
       /\ outLock = part
       /\ part = "in" <=> relayIn.at = "rest"
       /\ part = "out" <=> relayOut.at = "rest"

\* The carrier ends after the last line; who leaves has waited for that.
Leaves ==
  /\ main # "wait" => ~server.alive
  /\ client.alive /\ relayOut.at = "gone" => outbound = <<>> /\ ~server.alive
  /\ main \in {"flush", "leave", "exited"} /\ client.alive /\ client.reads =>
       outbound = <<>> /\ relayOut.at \in {"read", "gone"}

\* How often a number is under way, of which nothing is lost while both sides live.
Has(s, i) == IF \E n \in 1..Len(s) : s[n].id = i THEN 1 ELSE 0
Among(S, i) == IF i \in S THEN 1 ELSE 0
One(m, i) == IF m # None /\ m.id = i THEN 1 ELSE 0
Once(s, numbers) == \A n, o \in 1..Len(s) : s[n].id = s[o].id /\ s[n].id \in numbers => n = o
Up(i) == Has(line, i) + One(relayIn.forward, i) + Has(inbound, i)
Down(i) ==
  One(relayIn.back, i) + Among(server.pending, i) + Has(outbound, i) + One(relayOut.carry, i)
    + client.got[i]
Total(i) == Up(i) + Down(i)
Told == Up(Guard!Ask) + (IF server.answered THEN 1 ELSE 0)
Numbers == Guard!Ids \cup {Guard!Ask}
Onces == Once(line, Numbers) /\ Once(inbound, Numbers) /\ Once(outbound, Guard!Ids)
Lives == server.alive /\ client.alive
Counts ==
  /\ Onces
  /\ \A i \in client.wants : i <= client.sent
  /\ \A i \in Guard!Ids :
       /\ Total(i) <= 1 /\ (i > client.sent => Total(i) = 0)
       /\ Lives /\ i \in client.wants => Total(i) = 1
  /\ Told <= IF client.responded THEN 1 ELSE 0
  /\ Lives /\ client.responded => Told = 1

GuardInv == GuardTypes /\ Shares /\ Leaves /\ Counts
-----------------------------------------------------------------------------
(* Lines and what is counted in them *)

LEMMA NumbersAre ==
  ASSUME Guard!GuardAssumption
  PROVE  /\ Guard!Ids \subseteq Nat /\ Guard!Ask \in Nat /\ Guard!Ask \notin Guard!Ids
         /\ None \notin Numbers /\ Numbers \subseteq Nat
BY DEF Guard!GuardAssumption, Guard!Ids, Guard!Ask, Numbers

LEMMA CountIs ==
  ASSUME NEW s, NEW m, NEW i
  PROVE  /\ Has(s, i) \in {0, 1} /\ One(m, i) \in {0, 1} /\ Among(s, i) \in {0, 1}
         /\ One(None, i) = 0 /\ Has(<<>>, i) = 0
BY DEF Has, One, Among

LEMMA HasAppend ==
  ASSUME NEW T, NEW s \in Seq(T), NEW m \in T, m # None, NEW i, Has(s, i) + One(m, i) <= 1
  PROVE  Has(Append(s, m), i) = Has(s, i) + One(m, i)
<1> DEFINE t == Append(s, m)
<1>1. /\ Len(s) \in Nat /\ Len(t) = Len(s) + 1 /\ t[Len(s) + 1] = m
      /\ \A n \in 1..Len(s) : t[n] = s[n]
  OBVIOUS
<1> HIDE DEF t
<1>2. CASE m.id = i
  <2>1. \E n \in 1..Len(t) : t[n].id = i
    BY <1>1, <1>2
  <2>2. Has(t, i) = 1 /\ One(m, i) = 1 /\ Has(s, i) = 0
    BY <1>2, <2>1, CountIs DEF Has, One
  <2> QED BY <2>2 DEF t
<1>3. CASE m.id # i
  <2>1. (\E n \in 1..Len(t) : t[n].id = i) <=> \E n \in 1..Len(s) : s[n].id = i
    BY <1>1, <1>3
  <2>2. Has(t, i) = Has(s, i) /\ One(m, i) = 0
    BY <1>3, <2>1 DEF Has, One
  <2> QED BY <2>2, CountIs DEF t
<1> QED BY <1>2, <1>3

LEMMA OnceAppend ==
  ASSUME NEW T, NEW s \in Seq(T), NEW m \in T, m # None, NEW N, Once(s, N),
         \A i \in N : Has(s, i) + One(m, i) <= 1
  PROVE  Once(Append(s, m), N)
<1> DEFINE t == Append(s, m)
<1>1. /\ Len(s) \in Nat /\ Len(t) = Len(s) + 1 /\ t[Len(s) + 1] = m
      /\ \A n \in 1..Len(s) : t[n] = s[n]
  OBVIOUS
<1> HIDE DEF t
<1>2. m.id \in N => \A n \in 1..Len(s) : s[n].id # m.id
  <2> SUFFICES ASSUME m.id \in N, NEW n \in 1..Len(s), s[n].id = m.id PROVE FALSE
    OBVIOUS
  <2>1. Has(s, m.id) = 1 /\ One(m, m.id) = 1
    BY DEF Has, One
  <2> QED BY <2>1
<1>3. Once(t, N)
  BY <1>1, <1>2 DEF Once
<1> QED BY <1>3 DEF t

LEMMA HasTail ==
  ASSUME NEW T, NEW s \in Seq(T), s # <<>>, None \notin T, NEW N, Once(s, N)
  PROVE  /\ Once(Tail(s), N) /\ Tail(s) \in Seq(T) /\ Head(s) \in T
         /\ \A i \in N : Has(s, i) = Has(Tail(s), i) + One(Head(s), i)
<1> DEFINE t == Tail(s)
<1>1. /\ Len(s) \in Nat /\ Len(s) > 0 /\ Len(t) = Len(s) - 1 /\ Head(s) = s[1]
      /\ \A n \in 1..Len(t) : t[n] = s[n + 1]
      /\ t \in Seq(T) /\ Head(s) \in T
  OBVIOUS
<1> HIDE DEF t
<1>2. Once(t, N)
  BY <1>1 DEF Once
<1>3. ASSUME NEW i \in N
      PROVE  Has(s, i) = Has(t, i) + One(Head(s), i)
  <2>1. CASE s[1].id = i
    <3>1. \A n \in 1..Len(t) : t[n].id # i
      BY <1>1, <2>1 DEF Once
    <3>2. Has(t, i) = 0 /\ Has(s, i) = 1 /\ One(Head(s), i) = 1
      BY <1>1, <2>1, <3>1 DEF Has, One
    <3> QED BY <3>2
  <2>2. CASE s[1].id # i
    <3>1. (\E n \in 1..Len(s) : s[n].id = i) <=> \E n \in 1..Len(t) : t[n].id = i
      <4>1. ASSUME NEW n \in 1..Len(s), s[n].id = i
            PROVE  \E o \in 1..Len(t) : t[o].id = i
        <5>1. n # 1 /\ n - 1 \in 1..Len(t) /\ (n - 1) + 1 = n
          BY <1>1, <2>2, <4>1
        <5>2. t[n - 1].id = i
          BY <1>1, <4>1, <5>1
        <5> QED BY <5>1, <5>2
      <4>2. ASSUME NEW o \in 1..Len(t), t[o].id = i
            PROVE  \E n \in 1..Len(s) : s[n].id = i
        <5>1. o + 1 \in 1..Len(s) /\ s[o + 1].id = i
          BY <1>1, <4>2
        <5> QED BY <5>1
      <4> QED BY <4>1, <4>2
    <3>2. Has(s, i) = Has(t, i) /\ One(Head(s), i) = 0
      BY <1>1, <2>2, <3>1 DEF Has, One
    <3> QED BY <3>2, CountIs
  <2> QED BY <2>1, <2>2
<1> QED BY <1>1, <1>2, <1>3 DEF t

\* Before and after a step, in the same terms.

LEMMA Sums ==
  /\ \A i : Total(i) = Has(line, i) + One(relayIn.forward, i) + Has(inbound, i)
                       + (One(relayIn.back, i) + Among(server.pending, i) + Has(outbound, i) + One(relayOut.carry, i)
                          + client.got[i])
  /\ \A i : Total(i)' = Has(line', i) + One(relayIn'.forward, i) + Has(inbound', i)
                       + (One(relayIn'.back, i) + Among(server'.pending, i) + Has(outbound', i)
                          + One(relayOut'.carry, i) + client'.got[i])
  /\ Told = Has(line, Guard!Ask) + One(relayIn.forward, Guard!Ask) + Has(inbound, Guard!Ask)
              + (IF server.answered THEN 1 ELSE 0)
  /\ Told' = Has(line', Guard!Ask) + One(relayIn'.forward, Guard!Ask) + Has(inbound', Guard!Ask)
               + (IF server'.answered THEN 1 ELSE 0)
BY DEF Total, Up, Down, Told, Has, One, Among, Guard!Ask

LEMMA Units ==
  /\ \A i : /\ Has(line, i) \in {0, 1} /\ One(relayIn.forward, i) \in {0, 1} /\ Has(inbound, i) \in {0, 1}
            /\ One(relayIn.back, i) \in {0, 1} /\ Among(server.pending, i) \in {0, 1}
            /\ Has(outbound, i) \in {0, 1} /\ One(relayOut.carry, i) \in {0, 1}
  /\ \A i : /\ Has(line', i) \in {0, 1} /\ One(relayIn'.forward, i) \in {0, 1} /\ Has(inbound', i) \in {0, 1}
            /\ One(relayIn'.back, i) \in {0, 1} /\ Among(server'.pending, i) \in {0, 1}
            /\ Has(outbound', i) \in {0, 1} /\ One(relayOut'.carry, i) \in {0, 1}
BY CountIs

LEMMA Summands ==
  ASSUME client \in Clients, NEW i \in Guard!Ids
  PROVE  client.got[i] \in Nat /\ Total(i) \in Nat
<1>1. client.got[i] \in Nat
  BY DEF Clients
<1>2. Total(i) = Has(line, i) + One(relayIn.forward, i) + Has(inbound, i)
                   + (One(relayIn.back, i) + Among(server.pending, i) + Has(outbound, i) + One(relayOut.carry, i)
                      + client.got[i])
  BY Sums
<1> QED BY <1>1, <1>2, Units

LEMMA NextSummands ==
  ASSUME client' \in Clients, NEW i \in Guard!Ids
  PROVE  client'.got[i] \in Nat /\ Total(i)' \in Nat
<1>1. client'.got[i] \in Nat
  BY DEF Clients
<1>2. Total(i)' = Has(line', i) + One(relayIn'.forward, i) + Has(inbound', i)
                    + (One(relayIn'.back, i) + Among(server'.pending, i) + Has(outbound', i)
                       + One(relayOut'.carry, i) + client'.got[i])
  BY Sums
<1> QED BY <1>1, <1>2, Units

\* Where nothing new is said, the counts go on if nothing is lost but with one of the sides.

LEMMA CountsStay ==
  ASSUME Guard!GuardAssumption, Counts, client \in Clients, client' \in Clients, Onces', Lives' => Lives,
         client'.sent = client.sent, client'.wants = client.wants, client'.responded = client.responded,
         \A i \in Guard!Ids : Total(i)' <= Total(i) /\ (Lives' => Total(i)' = Total(i)),
         Told' <= Told, Lives' => Told' = Told
  PROVE  Counts'
<1>1. /\ \A i \in Guard!Ids : Total(i) \in Nat /\ Total(i)' \in Nat /\ i \in Nat
      /\ client.wants \subseteq Guard!Ids
  BY Summands, NextSummands, NumbersAre DEF Clients
<1>2. \A i \in client'.wants : i <= client'.sent
  BY DEF Counts
<1>3. ASSUME NEW i \in Guard!Ids
      PROVE  /\ Total(i)' <= 1 /\ (i > client'.sent => Total(i)' = 0)
             /\ Lives' /\ i \in client'.wants => Total(i)' = 1
  BY <1>1 DEF Counts
<1>4. Told \in Nat /\ Told' \in Nat
  BY Sums, CountIs
<1>5. /\ Told' <= IF client'.responded THEN 1 ELSE 0
      /\ Lives' /\ client'.responded => Told' = 1
  BY <1>4 DEF Counts
<1> QED BY <1>2, <1>3, <1>5 DEF Counts
-----------------------------------------------------------------------------
(* What filter_line makes of a line *)

LEMMA MessageKinds ==
  ASSUME Guard!GuardAssumption
  PROVE  /\ None \notin Sends /\ None \notin Passed /\ None \notin Refusals /\ None \notin Comes
         /\ Sends \subseteq Guard!AllMessages /\ Passed \subseteq Guard!AllMessages
         /\ Refusals \subseteq Comes /\ Comes \subseteq Guard!AllMessages
BY DEF Guard!GuardAssumption, Sends, Passed, Refusals, Comes

LEMMA ErrorIs ==
  ASSUME NEW m \in Guard!AllMessages
  PROVE  /\ Guard!Error(m) \in Guard!AllMessages
         /\ Guard!Error(m).kind = "error" /\ Guard!Error(m).root = "none"
         /\ Guard!Error(m).id = m.id /\ Guard!Error(m).resume = m.resume
BY DEF Guard!Error, Guard!AllMessages, Guard!Kinds

LEMMA RootedIs ==
  ASSUME NEW m \in Guard!AllMessages
  PROVE  /\ Guard!Rooted(m) \in Guard!AllMessages /\ Guard!Rooted(m).kind = m.kind /\ Guard!Rooted(m).id = m.id
         /\ Guard!Rooted(m).resume = m.resume
         /\ Guard!Rooted(m).root = IF m.kind = "request" /\ m.resume /\ m.root = "none" THEN "in" ELSE m.root
BY DEF Guard!Rooted, Guard!AllMessages

\* One message comes out for each number, on one of the two sides.

LEMMA FilteredOne ==
  ASSUME Guard!GuardAssumption, NEW m \in Sends, ~Guard!Raises(m)
  PROVE  LET r == Guard!Filtered(m) IN
         /\ r = [forward |-> r.forward, back |-> r.back]
         /\ r.forward \in Passed \cup {None} /\ r.back \in Refusals \cup {None}
         /\ r.forward = None \/ r.back = None
         /\ \A i \in Guard!Ids : One(r.forward, i) + One(r.back, i) = One(m, i)
         /\ One(r.forward, Guard!Ask) = One(m, Guard!Ask)
<1> DEFINE r == Guard!Filtered(m)
           e == Guard!Error(m)
           o == Guard!Rooted(m)
<1>1. /\ m \in Guard!AllMessages /\ m.kind \in {"request", "notification", "response", "torn"}
      /\ m.kind = "request" <=> m.id \in Guard!Ids
      /\ m.kind = "response" <=> m.id = Guard!Ask
      /\ m.resume => m.kind = "request"
      /\ m.root \in {"in", "out", "odd", "none"} /\ m.resume \in BOOLEAN
  BY DEF Sends, Guard!AllMessages, Guard!Raises
<1>2. /\ e \in Guard!AllMessages /\ e.kind = "error" /\ e.root = "none" /\ e.id = m.id /\ e.resume = m.resume
      /\ o \in Guard!AllMessages /\ o.kind = m.kind /\ o.id = m.id /\ o.resume = m.resume
      /\ o.root = IF m.kind = "request" /\ m.resume /\ m.root = "none" THEN "in" ELSE m.root
  BY <1>1, ErrorIs, RootedIs
<1>3. e # None /\ o # None /\ m # None
  BY <1>1, <1>2 DEF Guard!GuardAssumption
<1>4. \/ r = [forward |-> None, back |-> e] /\ m.kind # "response"
      \/ r = [forward |-> e, back |-> None] /\ m.kind = "response"
      \/ r = [forward |-> None, back |-> None] /\ m.kind \notin {"request", "response"}
      \/ r = [forward |-> o, back |-> None] /\ m.kind # "torn" /\ m.root # "odd" /\ o.root # "out"
  BY <1>1 DEF Guard!Filtered, Guard!Reject, Guard!Violates
<1> HIDE DEF r, e, o
<1>5. Guard!Ask \notin Guard!Ids
  BY NumbersAre
<1>6. CASE r = [forward |-> None, back |-> e] /\ m.kind # "response"
  <2>1. e \in Refusals
    BY <1>1, <1>2, <1>6 DEF Refusals
  <2>2. \A i \in Guard!Ids \cup {Guard!Ask} : One(None, i) = 0 /\ One(e, i) = One(m, i)
    BY <1>2, <1>3 DEF One
  <2>3. One(m, Guard!Ask) = 0
    BY <1>1, <1>6 DEF One
  <2>4. \A i \in Guard!Ids : 0 + One(e, i) = One(e, i)
    BY CountIs
  <2> QED BY <1>6, <2>1, <2>2, <2>3, <2>4 DEF r
<1>7. CASE r = [forward |-> e, back |-> None] /\ m.kind = "response"
  <2>1. e \in Passed
    BY <1>1, <1>2, <1>5, <1>7 DEF Passed
  <2>2. \A i \in Guard!Ids \cup {Guard!Ask} : One(None, i) = 0 /\ One(e, i) = One(m, i)
    BY <1>2, <1>3 DEF One
  <2>3. \A i \in Guard!Ids : One(e, i) + 0 = One(e, i)
    BY CountIs
  <2> QED BY <1>7, <2>1, <2>2, <2>3 DEF r
<1>8. CASE r = [forward |-> None, back |-> None] /\ m.kind \notin {"request", "response"}
  <2>1. \A i \in Guard!Ids \cup {Guard!Ask} : One(None, i) = 0 /\ One(m, i) = 0
    BY <1>1, <1>8 DEF One
  <2> QED BY <1>8, <2>1 DEF r
<1>9. CASE r = [forward |-> o, back |-> None] /\ m.kind # "torn" /\ m.root # "odd" /\ o.root # "out"
  <2>1. o \in Passed
    BY <1>1, <1>2, <1>9 DEF Passed
  <2>2. \A i \in Guard!Ids \cup {Guard!Ask} : One(None, i) = 0 /\ One(o, i) = One(m, i)
    BY <1>2, <1>3 DEF One
  <2>3. \A i \in Guard!Ids : One(o, i) + 0 = One(o, i)
    BY CountIs
  <2> QED BY <1>9, <2>1, <2>2, <2>3 DEF r
<1> QED BY <1>4, <1>6, <1>7, <1>8, <1>9
-----------------------------------------------------------------------------
(* The relay of the client's lines *)

LEMMA ServerSame ==
  ASSUME server \in Servers, server' = [server EXCEPT !.stdin = FALSE]
  PROVE  /\ server' \in Servers /\ server'.alive = server.alive /\ server'.pending = server.pending
         /\ server'.roots = server.roots /\ server'.answered = server.answered
BY DEF Servers

LEMMA ServerStops ==
  ASSUME server \in Servers, server' = [server EXCEPT !.alive = FALSE]
  PROVE  /\ server' \in Servers /\ ~server'.alive /\ server'.pending = server.pending
         /\ server'.roots = server.roots /\ server'.answered = server.answered
BY DEF Servers

LEMMA InEndsKeeps ==
  ASSUME Guard!GuardAssumption, GuardInv, Guard!InEnds,
         UNCHANGED <<Guard!wires, relayOut, part, mixed, main, client>>,
         outLock' = outLock \/ (outLock' = None /\ ~client.alive), relayIn.at # "rest" \/ ~client.alive,
         Lives => relayIn.forward = None /\ relayIn.back = None
  PROVE  GuardInv'
<1>1. /\ GuardTypes /\ Shares /\ Leaves /\ Counts
      /\ relayIn' = [at |-> "gone", forward |-> None, back |-> None]
      /\ server' = [server EXCEPT !.stdin = FALSE]
      /\ UNCHANGED <<line, inbound, outbound, relayOut, part, mixed, main, client>>
  BY DEF GuardInv, Guard!InEnds, Guard!wires
<1>2. /\ server' \in Servers /\ server'.alive = server.alive /\ server'.pending = server.pending
      /\ server'.roots = server.roots /\ server'.answered = server.answered
  BY <1>1, ServerSame DEF GuardTypes
<1>3. relayIn'.at = "gone" /\ relayIn'.forward = None /\ relayIn'.back = None
  BY <1>1
<1>4. GuardTypes'
  BY <1>1, <1>2, <1>3 DEF GuardTypes
<1>5. Shares'
  BY <1>1, <1>3 DEF Shares
<1>6. Leaves'
  BY <1>1, <1>2 DEF Leaves
<1>7. Counts'
  <2>1. Onces' /\ (Lives' <=> Lives)
    BY <1>1, <1>2 DEF Counts, Onces, Once, Lives
  <2>2. ASSUME NEW i
        PROVE  One(relayIn'.forward, i) = 0 /\ One(relayIn'.back, i) = 0
    BY <1>3, CountIs
  <2>3. Lives => \A i : One(relayIn.forward, i) = 0 /\ One(relayIn.back, i) = 0
    BY CountIs
  <2>4. ASSUME NEW i \in Guard!Ids
        PROVE  Total(i)' <= Total(i) /\ (Lives => Total(i)' = Total(i))
    <3>1. client.got[i] \in Nat
      BY <1>1, Summands DEF GuardTypes
    <3> QED BY <1>1, <1>2, <2>2, <2>3, <3>1, Sums, Units
  <2>5. Told' <= Told /\ (Lives => Told' = Told)
    BY <1>1, <1>2, <2>2, <2>3, Sums, Units
  <2> QED BY <1>1, <2>1, <2>4, <2>5, CountsStay DEF GuardTypes
<1> QED BY <1>4, <1>5, <1>6, <1>7 DEF GuardInv

LEMMA InReadsKeeps ==
  ASSUME Guard!GuardAssumption, GuardInv, Guard!InReads
  PROVE  GuardInv'
<1>1. /\ GuardTypes /\ Shares /\ Leaves /\ Counts /\ relayIn.at = "read"
      /\ relayIn.forward = None /\ relayIn.back = None
      /\ UNCHANGED <<inbound, outbound, relayOut, outLock, part, mixed, main, client>>
  BY DEF GuardInv, Guard!InReads, GuardTypes
<1>2. CASE line = <<>>
  <2>1. Guard!InEnds /\ UNCHANGED line
    BY <1>2 DEF Guard!InReads
  <2> QED BY <1>1, <2>1, InEndsKeeps DEF Guard!wires
<1>4. CASE line # <<>> /\ Guard!Raises(Head(line))
  <2> DEFINE m == Head(line)
  <2>1. /\ relayIn' = [at |-> "gone", forward |-> None, back |-> None] /\ line' = Tail(line)
        /\ server' = [server EXCEPT !.stdin = FALSE]
    BY <1>4 DEF Guard!InReads, Guard!InEnds
  <2>2. /\ server' \in Servers /\ server'.alive = server.alive /\ server'.pending = server.pending
        /\ server'.roots = server.roots /\ server'.answered = server.answered
    BY <1>1, <2>1, ServerSame DEF GuardTypes
  <2>3. relayIn'.at = "gone" /\ relayIn'.forward = None /\ relayIn'.back = None
    BY <2>1
  <2>4. /\ Once(Tail(line), Numbers) /\ Tail(line) \in Seq(Sends) /\ m \in Sends
        /\ \A i \in Numbers : Has(line, i) = Has(Tail(line), i) + One(m, i)
    BY <1>1, <1>4, HasTail, MessageKinds DEF GuardTypes, Counts, Onces
  <2>5. m.id \notin Guard!Ids /\ m.id # Guard!Ask
    BY <1>4, <2>4 DEF Sends, Guard!Raises
  <2> HIDE DEF m
  <2>6. \A i \in Numbers : One(m, i) = 0
    BY <2>5 DEF One, Numbers
  <2>7. \A i \in Numbers : Has(line', i) = Has(line, i)
    BY <2>1, <2>4, <2>6, CountIs
  <2>8. /\ \A i : One(relayIn.forward, i) = 0 /\ One(relayIn.back, i) = 0
        /\ \A i : One(relayIn'.forward, i) = 0 /\ One(relayIn'.back, i) = 0
    BY <1>1, <2>3, CountIs
  <2>9. GuardTypes'
    BY <1>1, <2>1, <2>2, <2>3, <2>4 DEF GuardTypes
  <2>10. Shares' /\ Leaves'
    BY <1>1, <2>2, <2>3 DEF Shares, Leaves
  <2>11. Counts'
    <3>1. Onces' /\ (Lives' <=> Lives)
      BY <1>1, <2>1, <2>2, <2>4 DEF Counts, Onces, Once, Lives
    <3>2. ASSUME NEW i \in Guard!Ids PROVE Total(i)' = Total(i) /\ Total(i) \in Nat
      <4>1. client.got[i] \in Nat /\ Total(i) \in Nat
        BY <1>1, Summands DEF GuardTypes
      <4>2. Has(line', i) = Has(line, i)
        BY <2>7 DEF Numbers
      <4> QED BY <1>1, <2>2, <2>8, <4>1, <4>2, Sums, Units
    <3>3. Told' = Told /\ Told \in Nat
      <4>1. Has(line', Guard!Ask) = Has(line, Guard!Ask)
        BY <2>7 DEF Numbers
      <4> QED BY <1>1, <2>2, <2>8, <4>1, Sums, Units
    <3> QED BY <1>1, <3>1, <3>2, <3>3, CountsStay DEF GuardTypes
  <2> QED BY <2>9, <2>10, <2>11 DEF GuardInv
<1>3. CASE line # <<>> /\ ~Guard!Raises(Head(line))
  <2> DEFINE m == Head(line)
             r == Guard!Filtered(m)
  <2>1. /\ relayIn' = [at |-> IF r.back # None THEN "emit" ELSE Guard!AfterReply(r), forward |-> r.forward,
                       back |-> r.back]
        /\ line' = Tail(line) /\ server' = server
    BY <1>3 DEF Guard!InReads
  <2>2. /\ Once(Tail(line), Numbers) /\ Tail(line) \in Seq(Sends) /\ m \in Sends
        /\ \A i \in Numbers : Has(line, i) = Has(Tail(line), i) + One(m, i)
    BY <1>1, <1>3, HasTail, MessageKinds DEF GuardTypes, Counts, Onces
  <2>3. /\ r.forward \in Passed \cup {None} /\ r.back \in Refusals \cup {None}
        /\ r.forward = None \/ r.back = None
        /\ \A i \in Guard!Ids : One(r.forward, i) + One(r.back, i) = One(m, i)
        /\ One(r.forward, Guard!Ask) = One(m, Guard!Ask)
    BY <1>3, <2>2, FilteredOne
  <2> HIDE DEF m, r
  <2>4. /\ relayIn'.forward = r.forward /\ relayIn'.back = r.back
        /\ relayIn' \in [at : {"read", "emit", "rest", "write", "gone"}, forward : Passed \cup {None},
                         back : Refusals \cup {None}]
        /\ \/ relayIn'.at = "emit" /\ r.back # None
           \/ relayIn'.at = "write" /\ r.forward # None /\ r.back = None
           \/ relayIn'.at = "read" /\ r.forward = None /\ r.back = None
    BY <2>1, <2>3 DEF Guard!AfterReply
  <2>5. GuardTypes'
    BY <1>1, <2>1, <2>2, <2>4 DEF GuardTypes
  <2>6. Shares' /\ Leaves'
    BY <1>1, <2>1, <2>4 DEF Shares, Leaves
  <2>7. Counts'
    <3>1. Onces' /\ (Lives' <=> Lives)
      BY <1>1, <2>1, <2>2 DEF Counts, Onces, Once, Lives
    <3>2. ASSUME NEW i \in Guard!Ids PROVE Total(i)' = Total(i) /\ Total(i) \in Nat
      <4>1. client.got[i] \in Nat /\ Total(i) \in Nat
        BY <1>1, Summands DEF GuardTypes
      <4>2. Has(line, i) = Has(line', i) + One(m, i)
        BY <2>1, <2>2 DEF Numbers
      <4>3. One(relayIn'.forward, i) + One(relayIn'.back, i) = One(m, i)
        BY <2>3, <2>4
      <4>4. One(relayIn.forward, i) = 0 /\ One(relayIn.back, i) = 0
        BY <1>1, CountIs
      <4> QED BY <1>1, <2>1, <4>1, <4>2, <4>3, <4>4, Sums, Units
    <3>3. Told' = Told /\ Told \in Nat
      <4>1. Has(line, Guard!Ask) = Has(line', Guard!Ask) + One(relayIn'.forward, Guard!Ask)
        BY <2>1, <2>2, <2>3, <2>4 DEF Numbers
      <4>2. One(relayIn.forward, Guard!Ask) = 0
        BY <1>1, CountIs
      <4> QED BY <1>1, <2>1, <4>1, <4>2, Sums, Units
    <3> QED BY <1>1, <3>1, <3>2, <3>3, CountsStay DEF GuardTypes
  <2> QED BY <2>5, <2>6, <2>7 DEF GuardInv
<1> QED BY <1>2, <1>3, <1>4
\* A line that has come through counts for the number it answers.

LEMMA ReceivedIs ==
  ASSUME Guard!GuardAssumption, client \in Clients, NEW m \in Comes, client' = Guard!Received(m)
  PROVE  /\ client' \in Clients /\ client'.alive = client.alive /\ client'.reads = client.reads
         /\ client'.sent = client.sent /\ client'.wants = client.wants /\ client'.responded = client.responded
         /\ \A i \in Guard!Ids : client'.got[i] = client.got[i] + One(m, i)
<1>1. m # None /\ (m.kind = "ask" <=> m.id = Guard!Ask) /\ Guard!Ask \notin Guard!Ids
  BY MessageKinds, NumbersAre DEF Comes
<1>2. client.got \in [Guard!Ids -> Nat]
  BY DEF Clients
<1>3. CASE m.kind = "ask"
  <2>1. client' = [client EXCEPT !.asked = TRUE]
    BY <1>3 DEF Guard!Received
  <2>2. \A i \in Guard!Ids : One(m, i) = 0 /\ client.got[i] + 0 = client.got[i]
    BY <1>1, <1>2, <1>3 DEF One
  <2>3. /\ client' \in Clients /\ client'.alive = client.alive /\ client'.reads = client.reads
        /\ client'.sent = client.sent /\ client'.wants = client.wants /\ client'.responded = client.responded
        /\ client'.got = client.got
    BY <2>1 DEF Clients
  <2> QED BY <2>2, <2>3
<1>4. CASE m.kind # "ask" /\ m.id \in Guard!Ids
  <2> DEFINE g == [client.got EXCEPT ![m.id] = @ + 1]
  <2>1. client' = [client EXCEPT !.got = g]
    BY <1>4 DEF Guard!Received
  <2>2. g \in [Guard!Ids -> Nat] /\ \A i \in Guard!Ids : g[i] = client.got[i] + One(m, i)
    BY <1>1, <1>2, <1>4 DEF One
  <2> HIDE DEF g
  <2>3. /\ client' \in Clients /\ client'.alive = client.alive /\ client'.reads = client.reads
        /\ client'.sent = client.sent /\ client'.wants = client.wants /\ client'.responded = client.responded
        /\ client'.got = g
    BY <2>1, <2>2 DEF Clients
  <2> QED BY <2>2, <2>3
<1>5. CASE m.kind # "ask" /\ m.id \notin Guard!Ids
  <2>1. client' = client
    BY <1>5 DEF Guard!Received
  <2>2. \A i \in Guard!Ids : One(m, i) = 0 /\ client.got[i] + 0 = client.got[i]
    BY <1>1, <1>2, <1>5 DEF One
  <2> QED BY <2>1, <2>2
<1> QED BY <1>3, <1>4, <1>5

\* Half a line: nothing has come through, and the lock is taken.

LEMMA InHalfKeeps ==
  ASSUME Guard!GuardAssumption, GuardInv, relayIn.at = "emit", client.alive, Guard!LockFree, Guard!Half("in"),
         relayIn' = [relayIn EXCEPT !.at = "rest"], UNCHANGED <<Guard!wires, relayOut, main, server, client>>
  PROVE  GuardInv'
<1>1. /\ GuardTypes /\ Shares /\ Leaves /\ Counts /\ UNCHANGED <<line, inbound, outbound>>
      /\ outLock = None /\ part = None /\ outLock' = "in" /\ part' = "in"
  BY DEF GuardInv, Guard!wires, Guard!LockFree, Guard!Half, Shares
<1>2. /\ relayIn' \in [at : {"read", "emit", "rest", "write", "gone"}, forward : Passed \cup {None},
                       back : Refusals \cup {None}]
      /\ relayIn'.at = "rest" /\ relayIn'.forward = relayIn.forward /\ relayIn'.back = relayIn.back
      /\ relayIn.back # None
  BY <1>1 DEF GuardTypes
<1>3. ~mixed'
  BY <1>1 DEF Guard!Half, Shares
<1>4. GuardTypes'
  BY <1>1, <1>2 DEF GuardTypes
<1>5. Shares' /\ Leaves'
  <2>1. relayOut.at # "rest"
    BY <1>1 DEF Shares, Guard!GuardAssumption
  <2> QED BY <1>1, <1>2, <1>3, <2>1 DEF Shares, Leaves
<1>6. Counts'
  <2>1. Onces' /\ (Lives' <=> Lives)
    BY <1>1 DEF Counts, Onces, Once, Lives
  <2>2. ASSUME NEW i \in Guard!Ids PROVE Total(i)' = Total(i) /\ Total(i) \in Nat
    <3>1. client.got[i] \in Nat /\ Total(i) \in Nat
      BY <1>1, Summands DEF GuardTypes
    <3> QED BY <1>1, <1>2, <3>1, Sums, Units
  <2>3. Told' = Told /\ Told \in Nat
    BY <1>1, <1>2, Sums, Units
  <2> QED BY <1>1, <2>1, <2>2, <2>3, CountsStay DEF GuardTypes
<1> QED BY <1>4, <1>5, <1>6 DEF GuardInv

\* The other half: the refusal is the client's answer.

LEMMA InRestKeeps ==
  ASSUME Guard!GuardAssumption, GuardInv, relayIn.at = "rest", client.alive, Guard!Rest("in", relayIn.back),
         relayIn' = [relayIn EXCEPT !.at = Guard!AfterReply(relayIn), !.back = None],
         UNCHANGED <<Guard!wires, relayOut, main, server>>
  PROVE  GuardInv'
<1>1. /\ GuardTypes /\ Shares /\ Leaves /\ Counts /\ UNCHANGED <<line, inbound, outbound>>
      /\ part = "in" /\ outLock' = None /\ part' = None /\ client' = Guard!Received(relayIn.back)
  BY DEF GuardInv, Guard!wires, Guard!Rest, Shares
<1>2. /\ relayIn.back # None /\ relayIn.back \in Comes
      /\ relayIn \in [at : {"read", "emit", "rest", "write", "gone"}, forward : Passed \cup {None},
                      back : Refusals \cup {None}]
  BY <1>1, MessageKinds DEF GuardTypes
<1>3. /\ relayIn'.forward = relayIn.forward /\ relayIn'.back = None
      /\ relayIn' \in [at : {"read", "emit", "rest", "write", "gone"}, forward : Passed \cup {None},
                       back : Refusals \cup {None}]
      /\ \/ relayIn'.at = "write" /\ relayIn.forward # None
         \/ relayIn'.at = "read" /\ relayIn.forward = None
  BY <1>2 DEF Guard!AfterReply
<1>4. /\ client' \in Clients /\ client'.alive = client.alive /\ client'.reads = client.reads
      /\ client'.sent = client.sent /\ client'.wants = client.wants /\ client'.responded = client.responded
      /\ \A i \in Guard!Ids : client'.got[i] = client.got[i] + One(relayIn.back, i)
  BY <1>1, <1>2, ReceivedIs DEF GuardTypes
<1>5. ~mixed'
  BY <1>1 DEF Guard!Rest, Shares
<1>6. GuardTypes'
  BY <1>1, <1>3, <1>4 DEF GuardTypes
<1>7. Shares' /\ Leaves'
  <2>1. relayOut.at # "rest"
    BY <1>1 DEF Shares
  <2>2. Shares'
    BY <1>1, <1>3, <1>5, <2>1 DEF Shares, Guard!GuardAssumption
  <2>3. Leaves'
    BY <1>1, <1>4 DEF Leaves
  <2> QED BY <2>2, <2>3
<1>8. Counts'
  <2>1. Onces' /\ (Lives' <=> Lives)
    BY <1>1, <1>4 DEF Counts, Onces, Once, Lives
  <2>2. ASSUME NEW i \in Guard!Ids PROVE Total(i)' = Total(i) /\ Total(i) \in Nat
    <3>1. client.got[i] \in Nat /\ Total(i) \in Nat /\ One(relayIn'.back, i) = 0
      BY <1>1, <1>3, Summands, CountIs DEF GuardTypes
    <3> QED BY <1>1, <1>3, <1>4, <3>1, Sums, Units
  <2>3. Told' = Told /\ Told \in Nat
    BY <1>1, <1>3, Sums, Units
  <2> QED BY <1>1, <1>4, <2>1, <2>2, <2>3, CountsStay DEF GuardTypes
<1> QED BY <1>6, <1>7, <1>8 DEF GuardInv

LEMMA InEmitsKeeps ==
  ASSUME Guard!GuardAssumption, GuardInv, Guard!InEmits
  PROVE  GuardInv'
<1>1. CASE /\ relayIn.at = "emit" /\ client.alive /\ Guard!LockFree /\ Guard!Half("in")
           /\ relayIn' = [relayIn EXCEPT !.at = "rest"]
           /\ UNCHANGED <<Guard!wires, relayOut, main, server, client>>
  BY <1>1, InHalfKeeps
<1>2. CASE relayIn.at = "rest" /\ client.alive /\ Guard!Rest("in", relayIn.back)
           /\ relayIn' = [relayIn EXCEPT !.at = Guard!AfterReply(relayIn), !.back = None]
           /\ UNCHANGED <<Guard!wires, relayOut, main, server>>
  BY <1>2, InRestKeeps
<1>3. CASE Guard!Broken("in") /\ Guard!InEnds /\ UNCHANGED <<Guard!wires, relayOut, main, client>>
  <2>1. ~client.alive /\ UNCHANGED <<part, mixed>> /\ (outLock' = outLock \/ outLock' = None) /\ ~Lives
    BY <1>3 DEF Guard!Broken, Lives
  <2> QED BY <1>3, <2>1, InEndsKeeps
<1> QED BY <1>1, <1>2, <1>3 DEF Guard!InEmits

LEMMA InWritesKeeps ==
  ASSUME Guard!GuardAssumption, GuardInv, Guard!InWrites
  PROVE  GuardInv'
<1>1. /\ GuardTypes /\ Shares /\ Leaves /\ Counts /\ relayIn.at = "write"
      /\ relayIn.forward # None /\ relayIn.forward \in Passed /\ relayIn.back = None
      /\ UNCHANGED <<line, outbound, relayOut, outLock, part, mixed, main, client>>
  BY DEF GuardInv, Guard!InWrites, GuardTypes
<1>2. CASE ~server.alive
  <2>1. Guard!InEnds /\ UNCHANGED inbound /\ ~Lives
    BY <1>2 DEF Guard!InWrites, Lives
  <2> QED BY <1>1, <2>1, InEndsKeeps DEF Guard!wires
<1>3. CASE server.alive
  <2> DEFINE m == relayIn.forward
  <2>1. /\ inbound' = Append(inbound, m) /\ server' = server
        /\ relayIn' = [at |-> "read", forward |-> None, back |-> None]
    BY <1>3 DEF Guard!InWrites
  <2>2. \A i \in Numbers : Has(inbound, i) + One(m, i) <= 1
    <3>1. ASSUME NEW i \in Guard!Ids PROVE Has(inbound, i) + One(m, i) <= 1
      <4>1. client.got[i] \in Nat /\ Total(i) <= 1
        BY <1>1, Summands DEF GuardTypes, Counts
      <4> QED BY <4>1, Sums, Units
    <3>2. Has(inbound, Guard!Ask) + One(m, Guard!Ask) <= 1
      <4>1. Told <= 1
        <5>1. Told \in Nat
          BY Sums, Units
        <5> QED BY <1>1, <5>1 DEF Counts
      <4> QED BY <4>1, Sums, Units
    <3> QED BY <3>1, <3>2 DEF Numbers
  <2>3. /\ inbound' \in Seq(Passed) /\ Once(inbound', Numbers)
        /\ \A i \in Numbers : Has(inbound', i) = Has(inbound, i) + One(m, i)
    <3>1. inbound \in Seq(Passed) /\ Once(inbound, Numbers)
      BY <1>1 DEF GuardTypes, Counts, Onces
    <3>2. Once(Append(inbound, m), Numbers)
      BY <1>1, <2>2, <3>1, OnceAppend
    <3>3. ASSUME NEW i \in Numbers PROVE Has(Append(inbound, m), i) = Has(inbound, i) + One(m, i)
      BY <1>1, <2>2, <3>1, HasAppend
    <3> QED BY <1>1, <2>1, <3>1, <3>2, <3>3
  <2>4. relayIn'.at = "read" /\ relayIn'.forward = None /\ relayIn'.back = None
    BY <2>1
  <2>5. GuardTypes'
    BY <1>1, <2>1, <2>3, <2>4 DEF GuardTypes
  <2>6. Shares' /\ Leaves'
    BY <1>1, <2>1, <2>4 DEF Shares, Leaves
  <2>7. Counts'
    <3>1. Onces' /\ (Lives' <=> Lives)
      BY <1>1, <2>1, <2>3 DEF Counts, Onces, Once, Lives
    <3>2. ASSUME NEW i \in Guard!Ids PROVE Total(i)' = Total(i) /\ Total(i) \in Nat
      <4>1. client.got[i] \in Nat /\ Total(i) \in Nat
        BY <1>1, Summands DEF GuardTypes
      <4>2. Has(inbound', i) = Has(inbound, i) + One(m, i)
        BY <2>3 DEF Numbers
      <4>3. One(relayIn'.forward, i) = 0 /\ One(relayIn'.back, i) = 0
        BY <2>4, CountIs
      <4>4. One(relayIn.back, i) = 0
        BY <1>1, CountIs
      <4> QED BY <1>1, <2>1, <4>1, <4>2, <4>3, <4>4, Sums, Units
    <3>3. Told' = Told /\ Told \in Nat
      <4>1. Has(inbound', Guard!Ask) = Has(inbound, Guard!Ask) + One(m, Guard!Ask)
        BY <2>3 DEF Numbers
      <4>2. One(relayIn'.forward, Guard!Ask) = 0
        BY <2>4, CountIs
      <4> QED BY <1>1, <2>1, <4>1, <4>2, Sums, Units
    <3> QED BY <1>1, <3>1, <3>2, <3>3, CountsStay DEF GuardTypes
  <2> QED BY <2>5, <2>6, <2>7 DEF GuardInv
<1> QED BY <1>2, <1>3
-----------------------------------------------------------------------------
(* The relay of the server's lines *)

LEMMA OutReadsKeeps ==
  ASSUME Guard!GuardAssumption, GuardInv, Guard!OutReads
  PROVE  GuardInv'
<1>1. /\ GuardTypes /\ Shares /\ Leaves /\ Counts /\ relayOut.at = "read" /\ relayOut.carry = None
      /\ relayOut \in [at : {"read", "emit", "rest", "gone"}, carry : Comes \cup {None}]
      /\ UNCHANGED <<line, inbound, relayIn, outLock, part, mixed, main, server, client>>
  BY DEF GuardInv, Guard!OutReads, GuardTypes
<1>2. Lives' <=> Lives
  BY <1>1 DEF Lives
<1>3. CASE outbound = <<>>
  <2>1. /\ ~server.alive /\ outbound' = outbound
        /\ relayOut' = [relayOut EXCEPT !.at = "gone"]
    BY <1>3 DEF Guard!OutReads
  <2>2. /\ relayOut' \in [at : {"read", "emit", "rest", "gone"}, carry : Comes \cup {None}]
        /\ relayOut'.at = "gone" /\ relayOut'.carry = None
    BY <1>1, <2>1
  <2>3. GuardTypes'
    BY <1>1, <2>1, <2>2 DEF GuardTypes
  <2>4. Shares' /\ Leaves'
    BY <1>1, <1>3, <2>1, <2>2 DEF Shares, Leaves
  <2>5. Counts'
    <3>1. Onces'
      BY <1>1, <2>1 DEF Counts, Onces, Once
    <3>2. ASSUME NEW i \in Guard!Ids PROVE Total(i)' = Total(i) /\ Total(i) \in Nat
      <4>1. client.got[i] \in Nat /\ Total(i) \in Nat
        BY <1>1, Summands DEF GuardTypes
      <4> QED BY <1>1, <2>1, <2>2, <4>1, Sums, Units
    <3>3. Told' = Told /\ Told \in Nat
      BY <1>1, Sums, Units
    <3> QED BY <1>1, <1>2, <3>1, <3>2, <3>3, CountsStay DEF GuardTypes
  <2> QED BY <2>3, <2>4, <2>5 DEF GuardInv
<1>4. CASE outbound # <<>>
  <2> DEFINE m == Head(outbound)
  <2>1. relayOut' = [at |-> "emit", carry |-> m] /\ outbound' = Tail(outbound)
    BY <1>4 DEF Guard!OutReads
  <2>2. /\ Once(Tail(outbound), Guard!Ids) /\ Tail(outbound) \in Seq(Comes) /\ m \in Comes /\ m # None
        /\ \A i \in Guard!Ids : Has(outbound, i) = Has(Tail(outbound), i) + One(m, i)
    BY <1>1, <1>4, HasTail, MessageKinds DEF GuardTypes, Counts, Onces
  <2> HIDE DEF m
  <2>3. /\ relayOut' \in [at : {"read", "emit", "rest", "gone"}, carry : Comes \cup {None}]
        /\ relayOut'.at = "emit" /\ relayOut'.carry = m
    BY <2>1, <2>2
  <2>4. GuardTypes'
    BY <1>1, <2>1, <2>2, <2>3 DEF GuardTypes
  <2>5. Shares' /\ Leaves'
    <3>1. main \in {"flush", "leave", "exited"} => ~(client.alive /\ client.reads)
      BY <1>1, <1>4 DEF Leaves
    <3> QED BY <1>1, <2>3, <3>1 DEF Shares, Leaves
  <2>6. Counts'
    <3>1. Onces'
      BY <1>1, <2>1, <2>2 DEF Counts, Onces, Once
    <3>2. ASSUME NEW i \in Guard!Ids PROVE Total(i)' = Total(i) /\ Total(i) \in Nat
      <4>1. client.got[i] \in Nat /\ Total(i) \in Nat
        BY <1>1, Summands DEF GuardTypes
      <4>2. Has(outbound, i) = Has(outbound', i) + One(m, i)
        BY <2>1, <2>2
      <4>3. One(relayOut.carry, i) = 0
        BY <1>1, CountIs
      <4> QED BY <1>1, <2>3, <4>1, <4>2, <4>3, Sums, Units
    <3>3. Told' = Told /\ Told \in Nat
      BY <1>1, Sums, Units
    <3> QED BY <1>1, <1>2, <3>1, <3>2, <3>3, CountsStay DEF GuardTypes
  <2> QED BY <2>4, <2>5, <2>6 DEF GuardInv
<1> QED BY <1>3, <1>4

LEMMA OutHalfKeeps ==
  ASSUME Guard!GuardAssumption, GuardInv, relayOut.at = "emit", client.alive, Guard!LockFree,
         Guard!Half("out"),
         relayOut' = [relayOut EXCEPT !.at = "rest"], UNCHANGED <<Guard!wires, relayIn, main, server, client>>
  PROVE  GuardInv'
<1>1. /\ GuardTypes /\ Shares /\ Leaves /\ Counts /\ UNCHANGED <<line, inbound, outbound>>
      /\ outLock = None /\ part = None /\ outLock' = "out" /\ part' = "out"
  BY DEF GuardInv, Guard!wires, Guard!LockFree, Guard!Half, Shares
<1>2. /\ relayOut' \in [at : {"read", "emit", "rest", "gone"}, carry : Comes \cup {None}]
      /\ relayOut'.at = "rest" /\ relayOut'.carry = relayOut.carry /\ relayOut.carry # None
  BY <1>1 DEF GuardTypes
<1>3. ~mixed'
  BY <1>1 DEF Guard!Half, Shares
<1>4. GuardTypes'
  BY <1>1, <1>2 DEF GuardTypes
<1>5. Shares' /\ Leaves'
  <2>1. relayIn.at # "rest"
    BY <1>1 DEF Shares, Guard!GuardAssumption
  <2>2. main \in {"flush", "leave", "exited"} => ~(client.alive /\ client.reads)
    BY <1>1 DEF Leaves
  <2> QED BY <1>1, <1>2, <1>3, <2>1, <2>2 DEF Shares, Leaves
<1>6. Counts'
  <2>1. Onces' /\ (Lives' <=> Lives)
    BY <1>1 DEF Counts, Onces, Once, Lives
  <2>2. ASSUME NEW i \in Guard!Ids PROVE Total(i)' = Total(i) /\ Total(i) \in Nat
    <3>1. client.got[i] \in Nat /\ Total(i) \in Nat
      BY <1>1, Summands DEF GuardTypes
    <3> QED BY <1>1, <1>2, <3>1, Sums, Units
  <2>3. Told' = Told /\ Told \in Nat
    BY <1>1, Sums, Units
  <2> QED BY <1>1, <2>1, <2>2, <2>3, CountsStay DEF GuardTypes
<1> QED BY <1>4, <1>5, <1>6 DEF GuardInv

LEMMA OutRestKeeps ==
  ASSUME Guard!GuardAssumption, GuardInv, relayOut.at = "rest", client.alive,
         Guard!Rest("out", relayOut.carry),
         relayOut' = [at |-> "read", carry |-> None], UNCHANGED <<Guard!wires, relayIn, main, server>>
  PROVE  GuardInv'
<1>1. /\ GuardTypes /\ Shares /\ Leaves /\ Counts /\ UNCHANGED <<line, inbound, outbound>>
      /\ part = "out" /\ outLock' = None /\ part' = None /\ client' = Guard!Received(relayOut.carry)
  BY DEF GuardInv, Guard!wires, Guard!Rest, Shares
<1>2. relayOut.carry # None /\ relayOut.carry \in Comes
  BY <1>1 DEF GuardTypes
<1>3. relayOut'.at = "read" /\ relayOut'.carry = None
  OBVIOUS
<1>4. /\ client' \in Clients /\ client'.alive = client.alive /\ client'.reads = client.reads
      /\ client'.sent = client.sent /\ client'.wants = client.wants /\ client'.responded = client.responded
      /\ \A i \in Guard!Ids : client'.got[i] = client.got[i] + One(relayOut.carry, i)
  BY <1>1, <1>2, ReceivedIs DEF GuardTypes
<1>5. ~mixed'
  BY <1>1 DEF Guard!Rest, Shares
<1>6. GuardTypes'
  BY <1>1, <1>3, <1>4 DEF GuardTypes
<1>7. Shares' /\ Leaves'
  <2>1. relayIn.at # "rest"
    BY <1>1 DEF Shares
  <2>2. Shares'
    BY <1>1, <1>3, <1>5, <2>1 DEF Shares, Guard!GuardAssumption
  <2>3. Leaves'
    BY <1>1, <1>3, <1>4 DEF Leaves
  <2> QED BY <2>2, <2>3
<1>8. Counts'
  <2>1. Onces' /\ (Lives' <=> Lives)
    BY <1>1, <1>4 DEF Counts, Onces, Once, Lives
  <2>2. ASSUME NEW i \in Guard!Ids PROVE Total(i)' = Total(i) /\ Total(i) \in Nat
    <3>1. client.got[i] \in Nat /\ Total(i) \in Nat /\ One(relayOut'.carry, i) = 0
      BY <1>1, <1>3, Summands, CountIs DEF GuardTypes
    <3> QED BY <1>1, <1>4, <3>1, Sums, Units
  <2>3. Told' = Told /\ Told \in Nat
    BY <1>1, Sums, Units
  <2> QED BY <1>1, <1>4, <2>1, <2>2, <2>3, CountsStay DEF GuardTypes
<1> QED BY <1>6, <1>7, <1>8 DEF GuardInv

\* The client is gone: what the relay carried is lost, and the server is terminated.

LEMMA OutBreaksKeeps ==
  ASSUME Guard!GuardAssumption, GuardInv, Guard!Broken("out"), relayOut' = [at |-> "gone", carry |-> None],
         server' = [server EXCEPT !.alive = FALSE], UNCHANGED <<Guard!wires, relayIn, main, client>>
  PROVE  GuardInv'
<1>1. /\ GuardTypes /\ Shares /\ Leaves /\ Counts /\ UNCHANGED <<line, inbound, outbound, part, mixed>>
      /\ ~client.alive /\ outLock' \in {None, outLock}
  BY DEF GuardInv, Guard!wires, Guard!Broken
<1>2. relayOut'.at = "gone" /\ relayOut'.carry = None
  OBVIOUS
<1>3. /\ server' \in Servers /\ ~server'.alive /\ server'.pending = server.pending
      /\ server'.roots = server.roots /\ server'.answered = server.answered
  BY <1>1, ServerStops DEF GuardTypes
<1>4. GuardTypes'
  BY <1>1, <1>2, <1>3 DEF GuardTypes
<1>5. Shares' /\ Leaves'
  BY <1>1, <1>3 DEF Shares, Leaves
<1>6. Counts'
  <2>1. Onces' /\ ~Lives'
    BY <1>1, <1>3 DEF Counts, Onces, Once, Lives
  <2>2. ASSUME NEW i \in Guard!Ids PROVE Total(i)' <= Total(i)
    <3>1. client.got[i] \in Nat /\ One(relayOut'.carry, i) = 0
      BY <1>1, <1>2, Summands, CountIs DEF GuardTypes
    <3> QED BY <1>1, <1>3, <3>1, Sums, Units
  <2>3. Told' <= Told
    BY <1>1, <1>3, Sums, Units
  <2> QED BY <1>1, <2>1, <2>2, <2>3, CountsStay DEF GuardTypes
<1> QED BY <1>4, <1>5, <1>6 DEF GuardInv

LEMMA OutEmitsKeeps ==
  ASSUME Guard!GuardAssumption, GuardInv, Guard!OutEmits
  PROVE  GuardInv'
BY OutHalfKeeps, OutRestKeeps, OutBreaksKeeps DEF Guard!OutEmits

LEMMA MainKeeps ==
  ASSUME Guard!GuardAssumption, GuardInv, Guard!Main
  PROVE  GuardInv'
<1>1. /\ GuardTypes /\ Shares /\ Leaves /\ Counts
      /\ UNCHANGED <<line, inbound, outbound, relayIn, relayOut, outLock, part, mixed, server, client>>
  BY DEF GuardInv, Guard!Main, Guard!wires
<1>2. main' \in {"join", "flush", "leave", "exited"} /\ main \in {"wait", "join", "flush", "leave"}
  BY DEF Guard!Main
<1>3. GuardTypes' /\ Shares'
  BY <1>1, <1>2 DEF GuardTypes, Shares
<1>4. Leaves'
  <2>1. ~server'.alive
    BY <1>1 DEF Guard!Main, Leaves
  <2>2. main' \in {"flush", "leave", "exited"} /\ client.alive /\ client.reads =>
          outbound = <<>> /\ relayOut.at \in {"read", "gone"}
    BY <1>1 DEF Guard!Main, Leaves, Guard!Joined
  <2> QED BY <1>1, <2>1, <2>2 DEF Leaves
<1>5. Counts'
  <2>1. Onces' /\ (Lives' <=> Lives)
    BY <1>1 DEF Counts, Onces, Once, Lives
  <2>2. ASSUME NEW i \in Guard!Ids PROVE Total(i)' = Total(i) /\ Total(i) \in Nat
    <3>1. client.got[i] \in Nat /\ Total(i) \in Nat
      BY <1>1, Summands DEF GuardTypes
    <3> QED BY <1>1, <3>1, Sums
  <2>3. Told' = Told /\ Told \in Nat
    BY <1>1, Sums, Units
  <2> QED BY <1>1, <2>1, <2>2, <2>3, CountsStay DEF GuardTypes
<1> QED BY <1>3, <1>4, <1>5 DEF GuardInv
-----------------------------------------------------------------------------
(* The server and the client *)

LEMMA ServerReadsKeeps ==
  ASSUME Guard!GuardAssumption, GuardInv, Guard!ServerReads,
         UNCHANGED <<line, relayIn, relayOut, outLock, part, mixed, main, client>>
  PROVE  GuardInv'
<1> DEFINE m == Head(inbound)
           roots == server.roots \cup Guard!RootOf(m)
           pending == IF m.kind = "request" THEN server.pending \cup {m.id} ELSE server.pending
           answered == server.answered \/ m.id = Guard!Ask
<1>1. /\ GuardTypes /\ Shares /\ Leaves /\ Counts /\ server \in Servers /\ server.alive /\ inbound # <<>>
      /\ inbound' = Tail(inbound) /\ UNCHANGED outbound
      /\ server' = [server EXCEPT !.roots = roots, !.pending = pending, !.answered = answered]
  BY DEF GuardInv, Guard!ServerReads, GuardTypes
<1>2. /\ Once(Tail(inbound), Numbers) /\ Tail(inbound) \in Seq(Passed) /\ m \in Passed /\ m # None
      /\ \A i \in Numbers : Has(inbound, i) = Has(Tail(inbound), i) + One(m, i)
  BY <1>1, HasTail, MessageKinds DEF GuardTypes, Counts, Onces
<1>3. m.kind = "request" <=> m.id \in Guard!Ids
  BY <1>2 DEF Passed
<1> HIDE DEF m
<1>4. roots \in SUBSET {"in"}
  <2>1. m.root \in {"in", "none"} /\ (m.resume => m.root = "in")
    BY <1>2 DEF Passed
  <2>2. server.roots \subseteq {"in"}
    BY <1>1 DEF Servers
  <2> QED BY <2>1, <2>2 DEF Guard!RootOf
<1>5. pending \in SUBSET Guard!Ids /\ answered \in BOOLEAN
  <2>1. server.pending \subseteq Guard!Ids /\ server.answered \in BOOLEAN
    BY <1>1 DEF Servers
  <2> QED BY <1>3, <2>1
<1>6. /\ \A i \in Guard!Ids : Among(pending, i) = Among(server.pending, i) + One(m, i)
      /\ (IF answered THEN 1 ELSE 0) = (IF server.answered THEN 1 ELSE 0) + One(m, Guard!Ask)
  <2>1. ASSUME NEW i \in Guard!Ids PROVE Among(pending, i) = Among(server.pending, i) + One(m, i)
    <3>1. client.got[i] \in Nat /\ Total(i) <= 1 /\ Has(inbound, i) = Has(Tail(inbound), i) + One(m, i)
      BY <1>1, <1>2, Summands DEF GuardTypes, Counts, Numbers
    <3>2. Among(server.pending, i) + One(m, i) <= 1
      <4>1. Has(Tail(inbound), i) \in {0, 1}
        BY CountIs
      <4>2. Total(i) = Has(line, i) + One(relayIn.forward, i) + Has(inbound, i)
                        + (One(relayIn.back, i) + Among(server.pending, i) + Has(outbound, i)
                           + One(relayOut.carry, i) + client.got[i])
        BY Sums
      <4>3. One(m, i) \in {0, 1}
        BY CountIs
      <4> HIDE DEF pending, answered, roots
      <4> QED BY <3>1, <4>1, <4>2, <4>3, Units
    <3>3. CASE m.id = i
      <4>1. One(m, i) = 1 /\ i \in pending
        BY <1>2, <1>3, <3>3 DEF One
      <4>2. Among(pending, i) = 1 /\ Among(server.pending, i) \in {0, 1}
        BY <4>1 DEF Among
      <4> QED BY <3>2, <4>1, <4>2
    <3>4. CASE m.id # i
      <4>1. One(m, i) = 0 /\ (i \in pending <=> i \in server.pending)
        BY <3>4 DEF One
      <4>2. Among(pending, i) = Among(server.pending, i) /\ Among(server.pending, i) \in {0, 1}
        BY <4>1 DEF Among
      <4> QED BY <4>1, <4>2
    <3> QED BY <3>3, <3>4
  <2>2. (IF answered THEN 1 ELSE 0) = (IF server.answered THEN 1 ELSE 0) + One(m, Guard!Ask)
    <3>1. Told <= 1
      <4>1. Told \in Nat
        BY Sums, Units
      <4> QED BY <1>1, <4>1 DEF Counts
    <3>2. /\ Has(inbound, Guard!Ask) = Has(Tail(inbound), Guard!Ask) + One(m, Guard!Ask)
          /\ Has(Tail(inbound), Guard!Ask) \in {0, 1}
      BY <1>2, CountIs DEF Numbers
    <3>3. (IF server.answered THEN 1 ELSE 0) + One(m, Guard!Ask) <= 1
      BY <3>1, <3>2, Sums, Units, CountIs
    <3>4. One(m, Guard!Ask) = IF m.id = Guard!Ask THEN 1 ELSE 0
      BY <1>2 DEF One
    <3>5. CASE m.id = Guard!Ask
      BY <3>3, <3>4, <3>5
    <3>6. CASE m.id # Guard!Ask
      BY <3>4, <3>6
    <3> QED BY <3>5, <3>6
  <2> QED BY <2>1, <2>2
<1> HIDE DEF roots, pending, answered
<1>7. /\ server' \in Servers /\ server'.alive = server.alive /\ server'.roots = roots
      /\ server'.pending = pending /\ server'.answered = answered
  BY <1>1, <1>4, <1>5 DEF Servers
<1>8. GuardTypes'
  BY <1>1, <1>2, <1>7 DEF GuardTypes
<1>9. Shares' /\ Leaves'
  BY <1>1, <1>7 DEF Shares, Leaves
<1>10. Counts'
  <2>1. Onces' /\ (Lives' <=> Lives)
    BY <1>1, <1>2, <1>7 DEF Counts, Onces, Once, Lives
  <2>2. ASSUME NEW i \in Guard!Ids PROVE Total(i)' = Total(i) /\ Total(i) \in Nat
    <3>1. client.got[i] \in Nat /\ Total(i) \in Nat
      BY <1>1, Summands DEF GuardTypes
    <3>2. Has(inbound, i) = Has(inbound', i) + One(m, i) /\ One(m, i) \in {0, 1}
      BY <1>1, <1>2, CountIs DEF Numbers
    <3>3. Among(server'.pending, i) = Among(server.pending, i) + One(m, i)
      BY <1>6, <1>7
    <3>4. /\ Total(i) = Has(line, i) + One(relayIn.forward, i) + Has(inbound, i)
                        + (One(relayIn.back, i) + Among(server.pending, i) + Has(outbound, i)
                           + One(relayOut.carry, i) + client.got[i])
          /\ Total(i)' = Has(line', i) + One(relayIn'.forward, i) + Has(inbound', i)
                        + (One(relayIn'.back, i) + Among(server'.pending, i) + Has(outbound', i)
                           + One(relayOut'.carry, i) + client'.got[i])
      BY Sums
    <3>5. /\ Has(line, i) \in {0, 1} /\ One(relayIn.forward, i) \in {0, 1} /\ Has(inbound', i) \in {0, 1}
          /\ One(relayIn.back, i) \in {0, 1} /\ Among(server.pending, i) \in {0, 1}
          /\ Has(outbound, i) \in {0, 1} /\ One(relayOut.carry, i) \in {0, 1}
      BY CountIs
    <3>6. /\ line' = line /\ relayIn' = relayIn /\ outbound' = outbound /\ relayOut' = relayOut
          /\ client' = client
      BY <1>1
    <3> QED BY <3>1, <3>2, <3>3, <3>4, <3>5, <3>6
  <2>3. Told' = Told /\ Told \in Nat
    <3>1. /\ Has(inbound, Guard!Ask) = Has(inbound', Guard!Ask) + One(m, Guard!Ask)
          /\ One(m, Guard!Ask) \in {0, 1}
      BY <1>1, <1>2, CountIs DEF Numbers
    <3>2. (IF server'.answered THEN 1 ELSE 0) = (IF server.answered THEN 1 ELSE 0) + One(m, Guard!Ask)
      BY <1>6, <1>7
    <3> QED BY <1>1, <3>1, <3>2, Sums, Units
  <2> QED BY <1>1, <2>1, <2>2, <2>3, CountsStay DEF GuardTypes
<1> QED BY <1>8, <1>9, <1>10 DEF GuardInv

\* The two kinds of ServerWrites.
Answers(id) ==
  /\ server.alive /\ UNCHANGED inbound
  /\ outbound' = Append(outbound, Guard!Message("result", id, "none", FALSE))
  /\ server' = [server EXCEPT !.pending = @ \ {id}]
Asks ==
  /\ server.alive /\ UNCHANGED inbound
  /\ server' = [server EXCEPT !.asked = TRUE]
  /\ outbound' = Append(outbound, Guard!Message("ask", Guard!Ask, "none", FALSE))

LEMMA ServerAnswersKeeps ==
  ASSUME Guard!GuardAssumption, GuardInv, NEW id \in server.pending, Answers(id),
         UNCHANGED <<line, relayIn, relayOut, outLock, part, mixed, main, client>>
  PROVE  GuardInv'
<1> DEFINE m == Guard!Message("result", id, "none", FALSE)
<1>1. /\ GuardTypes /\ Shares /\ Leaves /\ Counts /\ server \in Servers
      /\ id \in Guard!Ids /\ Guard!Ask \notin Guard!Ids
      /\ inbound' = inbound /\ server.alive
  BY NumbersAre DEF GuardInv, GuardTypes, Servers, Answers
<1>2. m \in Comes /\ m # None /\ m.id = id
  <2>1. m \in Guard!AllMessages /\ m.id = id /\ m.kind = "result"
    BY <1>1 DEF Guard!Message, Guard!AllMessages, Guard!Kinds
  <2>2. m \in Comes
    BY <1>1, <2>1 DEF Comes
  <2> QED BY <2>1, <2>2, MessageKinds
<1> HIDE DEF m
<1>3. /\ server' \in Servers /\ server'.alive = server.alive /\ server'.roots = server.roots
      /\ server'.pending = server.pending \ {id} /\ server'.answered = server.answered
  BY <1>1 DEF Servers, Answers
<1>4. \A i \in Guard!Ids : Among(server.pending, i) = Among(server'.pending, i) + One(m, i)
  <2> SUFFICES ASSUME NEW i \in Guard!Ids
                  PROVE  Among(server.pending, i) = Among(server'.pending, i) + One(m, i)
    OBVIOUS
  <2>1. CASE i = id
    BY <1>2, <1>3, <2>1 DEF Among, One
  <2>2. CASE i # id
    BY <1>2, <1>3, <2>2 DEF Among, One
  <2> QED BY <2>1, <2>2
<1>5. \A i \in Guard!Ids : Has(outbound, i) + One(m, i) <= 1
  <2> SUFFICES ASSUME NEW i \in Guard!Ids PROVE Has(outbound, i) + One(m, i) <= 1
    OBVIOUS
  <2>1. client.got[i] \in Nat /\ Total(i) <= 1
    BY <1>1, Summands DEF GuardTypes, Counts
  <2> QED BY <1>4, <2>1, Sums, Units, CountIs
<1>6. /\ outbound' \in Seq(Comes) /\ Once(outbound', Guard!Ids)
      /\ \A i \in Guard!Ids : Has(outbound', i) = Has(outbound, i) + One(m, i)
  <2>1. outbound \in Seq(Comes) /\ Once(outbound, Guard!Ids) /\ outbound' = Append(outbound, m)
    BY <1>1 DEF GuardTypes, Counts, Onces, Answers, m
  <2>2. Once(Append(outbound, m), Guard!Ids)
    BY <1>2, <1>5, <2>1, OnceAppend
  <2>3. ASSUME NEW i \in Guard!Ids PROVE Has(Append(outbound, m), i) = Has(outbound, i) + One(m, i)
    BY <1>2, <1>5, <2>1, HasAppend
  <2>4. Append(outbound, m) \in Seq(Comes)
    BY <1>2, <2>1
  <2> QED BY <2>1, <2>2, <2>3, <2>4
<1>7. GuardTypes'
  BY <1>1, <1>3, <1>6 DEF GuardTypes
<1>8. Shares' /\ Leaves'
  BY <1>1, <1>3 DEF Shares, Leaves
<1>9. Counts'
  <2>1. Onces' /\ (Lives' <=> Lives)
    BY <1>1, <1>3, <1>6 DEF Counts, Onces, Once, Lives
  <2>2. ASSUME NEW i \in Guard!Ids PROVE Total(i)' = Total(i) /\ Total(i) \in Nat
    <3>1. client.got[i] \in Nat /\ Total(i) \in Nat /\ One(m, i) \in {0, 1}
      BY <1>1, Summands, CountIs DEF GuardTypes
    <3>2. /\ Total(i) = Has(line, i) + One(relayIn.forward, i) + Has(inbound, i)
                        + (One(relayIn.back, i) + Among(server.pending, i) + Has(outbound, i)
                           + One(relayOut.carry, i) + client.got[i])
          /\ Total(i)' = Has(line', i) + One(relayIn'.forward, i) + Has(inbound', i)
                        + (One(relayIn'.back, i) + Among(server'.pending, i) + Has(outbound', i)
                           + One(relayOut'.carry, i) + client'.got[i])
      BY Sums
    <3>3. /\ Has(line, i) \in {0, 1} /\ One(relayIn.forward, i) \in {0, 1} /\ Has(inbound, i) \in {0, 1}
          /\ One(relayIn.back, i) \in {0, 1} /\ Among(server'.pending, i) \in {0, 1}
          /\ Has(outbound, i) \in {0, 1} /\ One(relayOut.carry, i) \in {0, 1}
      BY CountIs
    <3>4. /\ line' = line /\ relayIn' = relayIn /\ inbound' = inbound /\ relayOut' = relayOut
          /\ client' = client
      BY <1>1
    <3>5. /\ Among(server.pending, i) = Among(server'.pending, i) + One(m, i)
          /\ Has(outbound', i) = Has(outbound, i) + One(m, i)
      BY <1>4, <1>6
    <3> HIDE DEF m
    <3> QED BY <3>1, <3>2, <3>3, <3>4, <3>5
  <2>3. Told' = Told /\ Told \in Nat
    BY <1>1, <1>3, Sums, Units
  <2> QED BY <1>1, <2>1, <2>2, <2>3, CountsStay DEF GuardTypes
<1> QED BY <1>7, <1>8, <1>9 DEF GuardInv

LEMMA ServerAsksKeeps ==
  ASSUME Guard!GuardAssumption, GuardInv, Asks,
         UNCHANGED <<line, relayIn, relayOut, outLock, part, mixed, main, client>>
  PROVE  GuardInv'
<1> DEFINE m == Guard!Message("ask", Guard!Ask, "none", FALSE)
<1>1. /\ GuardTypes /\ Shares /\ Leaves /\ Counts /\ server \in Servers /\ Guard!Ask \notin Guard!Ids
      /\ inbound' = inbound /\ server.alive
  BY NumbersAre DEF GuardInv, GuardTypes, Asks
<1>2. m \in Comes /\ m # None /\ m.id = Guard!Ask
  <2>1. m \in Guard!AllMessages /\ m.id = Guard!Ask /\ m.kind = "ask"
    BY <1>1 DEF Guard!Message, Guard!AllMessages, Guard!Kinds
  <2>2. m \in Comes
    BY <2>1 DEF Comes
  <2> QED BY <2>1, <2>2, MessageKinds
<1> HIDE DEF m
<1>3. /\ server' \in Servers /\ server'.alive = server.alive /\ server'.roots = server.roots
      /\ server'.pending = server.pending /\ server'.answered = server.answered
  BY <1>1 DEF Servers, Asks
<1>4. \A i \in Guard!Ids :
        One(m, i) = 0 /\ Has(outbound, i) + One(m, i) = Has(outbound, i) /\ Has(outbound, i) <= 1
  <2>1. ASSUME NEW i \in Guard!Ids PROVE One(m, i) = 0 /\ Has(outbound, i) \in {0, 1}
    BY <1>1, <1>2, CountIs DEF One
  <2> QED BY <2>1
<1>5. /\ outbound' \in Seq(Comes) /\ Once(outbound', Guard!Ids)
      /\ \A i \in Guard!Ids : Has(outbound', i) = Has(outbound, i)
  <2>1. outbound \in Seq(Comes) /\ Once(outbound, Guard!Ids) /\ outbound' = Append(outbound, m)
    BY <1>1 DEF GuardTypes, Counts, Onces, Asks, m
  <2>2. Once(Append(outbound, m), Guard!Ids)
    BY <1>2, <1>4, <2>1, OnceAppend
  <2>3. ASSUME NEW i \in Guard!Ids PROVE Has(Append(outbound, m), i) = Has(outbound, i) + One(m, i)
    BY <1>2, <1>4, <2>1, HasAppend
  <2>4. Append(outbound, m) \in Seq(Comes)
    BY <1>2, <2>1
  <2> QED BY <1>4, <2>1, <2>2, <2>3, <2>4
<1>6. GuardTypes'
  BY <1>1, <1>3, <1>5 DEF GuardTypes
<1>7. Shares' /\ Leaves'
  BY <1>1, <1>3 DEF Shares, Leaves
<1>8. Counts'
  <2>1. Onces' /\ (Lives' <=> Lives)
    BY <1>1, <1>3, <1>5 DEF Counts, Onces, Once, Lives
  <2>2. ASSUME NEW i \in Guard!Ids PROVE Total(i)' = Total(i) /\ Total(i) \in Nat
    <3>1. client.got[i] \in Nat /\ Total(i) \in Nat
      BY <1>1, Summands DEF GuardTypes
    <3> QED BY <1>1, <1>3, <1>5, <3>1, Sums, Units
  <2>3. Told' = Told /\ Told \in Nat
    BY <1>1, <1>3, Sums, Units
  <2> QED BY <1>1, <2>1, <2>2, <2>3, CountsStay DEF GuardTypes
<1> QED BY <1>6, <1>7, <1>8 DEF GuardInv

LEMMA ServerEndsKeeps ==
  ASSUME Guard!GuardAssumption, GuardInv, Guard!ServerEnds,
         UNCHANGED <<line, relayIn, relayOut, outLock, part, mixed, main, client>>
  PROVE  GuardInv'
<1>1. /\ GuardTypes /\ Shares /\ Leaves /\ Counts /\ server \in Servers
      /\ UNCHANGED <<inbound, outbound>>
  BY DEF GuardInv, GuardTypes, Guard!ServerEnds
<1>2. PICK held \in BOOLEAN : server' = [server EXCEPT !.alive = FALSE, !.held = held]
  BY DEF Guard!ServerEnds
<1>3. /\ server' \in Servers /\ ~server'.alive /\ server'.pending = server.pending
      /\ server'.roots = server.roots /\ server'.answered = server.answered
  BY <1>1, <1>2 DEF Servers
<1>4. GuardTypes'
  BY <1>1, <1>3 DEF GuardTypes
<1>5. Shares' /\ Leaves'
  BY <1>1, <1>3 DEF Shares, Leaves
<1>6. Counts'
  <2>1. Onces' /\ ~Lives'
    BY <1>1, <1>3 DEF Counts, Onces, Once, Lives
  <2>2. ASSUME NEW i \in Guard!Ids PROVE Total(i)' = Total(i) /\ Total(i) \in Nat
    <3>1. client.got[i] \in Nat /\ Total(i) \in Nat
      BY <1>1, Summands DEF GuardTypes
    <3> QED BY <1>1, <1>3, <3>1, Sums, Units
  <2>3. Told' = Told /\ Told \in Nat
    BY <1>1, <1>3, Sums, Units
  <2> QED BY <1>1, <2>1, <2>2, <2>3, CountsStay DEF GuardTypes
<1> QED BY <1>4, <1>5, <1>6 DEF GuardInv

LEMMA ServerKeeps ==
  ASSUME Guard!GuardAssumption, GuardInv, Guard!Server
  PROVE  GuardInv'
<1>1. CASE Guard!ServerWrites
  <2>1. (\E id \in server.pending : Answers(id)) \/ Asks
    BY <1>1 DEF Guard!ServerWrites, Answers, Asks
  <2> QED BY <2>1, ServerAnswersKeeps, ServerAsksKeeps DEF Guard!Server
<1> QED BY <1>1, ServerReadsKeeps, ServerEndsKeeps DEF Guard!Server

LEMMA SentIs ==
  ASSUME Guard!GuardAssumption, NEW n \in Guard!Ids, NEW m \in Guard!Messages(n) \cup Guard!Responses
  PROVE  /\ m \in Sends /\ m # None /\ (m.kind = "request" => m.id = n)
         /\ m.kind = "response" => m \in Guard!Responses /\ m \notin Guard!Messages(n)
<1>1. None \notin Guard!Ids /\ Guard!Ask \notin Guard!Ids /\ None # Guard!Ask
  BY NumbersAre DEF Numbers
<1>2. CASE m \in Guard!Messages(n)
  <2>1. /\ m \in Guard!AllMessages /\ m.kind \in {"request", "notification", "torn", "ragged"}
        /\ m.kind = "request" <=> m.id = n
        /\ m.id = n \/ m.id = None
        /\ m.resume => m.kind = "request"
    <3>1. CASE m \in {Guard!Message("request", n, root, FALSE) : root \in {"in", "out", "odd"}}
      <4>1. PICK root \in {"in", "out", "odd"} : m = Guard!Message("request", n, root, FALSE)
        BY <3>1
      <4>2. m.kind = "request" /\ m.id = n /\ m \in Guard!AllMessages
        BY <4>1 DEF Guard!Message, Guard!AllMessages, Guard!Kinds
      <4> QED BY <4>2
    <3>2. CASE m = Guard!Message("request", n, "none", TRUE)
      BY <3>2 DEF Guard!Message, Guard!AllMessages, Guard!Kinds
    <3>3. CASE m = Guard!Message("notification", None, "out", FALSE)
      BY <1>1, <3>3 DEF Guard!Message, Guard!AllMessages, Guard!Kinds
    <3>4. CASE m = Guard!Message("torn", None, "none", FALSE)
      BY <1>1, <3>4 DEF Guard!Message, Guard!AllMessages, Guard!Kinds
    <3>5. CASE m = Guard!Message("ragged", None, "none", FALSE)
      BY <1>1, <3>5 DEF Guard!Message, Guard!AllMessages, Guard!Kinds
    <3> QED BY <1>2, <3>1, <3>2, <3>3, <3>4, <3>5 DEF Guard!Messages
  <2>2. m.kind # "response"
    BY <2>1
  <2> QED BY <1>1, <2>1, <2>2, MessageKinds DEF Sends
<1>3. CASE m \in Guard!Responses
  <2>1. m \in Guard!AllMessages /\ m.kind = "response" /\ m.id = Guard!Ask /\ ~m.resume
    <3>1. PICK root \in {"none", "out", "odd"} : m = Guard!Message("response", Guard!Ask, root, FALSE)
      BY <1>3 DEF Guard!Responses
    <3> QED BY <3>1 DEF Guard!Message, Guard!AllMessages, Guard!Kinds
  <2>2. m \notin Guard!Messages(n)
    BY <2>1 DEF Guard!Messages, Guard!Message
  <2> QED BY <1>1, <1>3, <2>1, <2>2, MessageKinds DEF Sends
<1> QED BY <1>2, <1>3

LEMMA ClientSendsKeeps ==
  ASSUME Guard!GuardAssumption, GuardInv, Guard!ClientSends,
         UNCHANGED <<inbound, outbound, relayIn, relayOut, outLock, part, mixed, main, server>>
  PROVE  GuardInv'
<1> DEFINE n == client.sent + 1
<1>1. /\ GuardTypes /\ Shares /\ Leaves /\ Counts /\ client \in Clients /\ line \in Seq(Sends)
      /\ UNCHANGED <<inbound, outbound, relayIn, relayOut, outLock, part, mixed, main, server>>
      /\ client.sent < MaxMessages /\ client.sent \in Nat /\ MaxMessages \in Nat
      /\ client.wants \subseteq Guard!Ids
  BY DEF GuardInv, GuardTypes, Guard!ClientSends, Clients, Guard!GuardAssumption
<1>2. n \in Guard!Ids /\ n \in 0..MaxMessages /\ n > client.sent
  BY <1>1 DEF Guard!Ids
<1>3. PICK m \in Guard!Messages(n) \cup (IF client.asked /\ ~client.responded THEN Guard!Responses ELSE {}) :
        /\ line' = Append(line, m)
        /\ client' = [client EXCEPT !.sent = @ + 1, !.responded = @ \/ m.kind = "response",
                                    !.wants = IF m.kind = "request" THEN @ \cup {m.id} ELSE @]
  BY DEF Guard!ClientSends
<1>4. /\ m \in Sends /\ m # None /\ (m.kind = "request" => m.id = n)
      /\ m.kind = "response" => ~client.responded
  <2>1. m \in Guard!Messages(n) \cup Guard!Responses
    BY <1>3
  <2>2. m \notin Guard!Messages(n) => ~client.responded
    BY <1>3
  <2> QED BY <1>2, <2>1, <2>2, SentIs
<1>5. /\ m.kind = "request" <=> m.id \in Guard!Ids
      /\ m.kind = "response" <=> m.id = Guard!Ask
  BY <1>4 DEF Sends
<1> DEFINE responded == client.responded \/ m.kind = "response"
           wants == IF m.kind = "request" THEN client.wants \cup {m.id} ELSE client.wants
<1>6. /\ client' = [client EXCEPT !.sent = n, !.responded = responded, !.wants = wants]
      /\ responded \in BOOLEAN /\ wants \subseteq Guard!Ids /\ wants \subseteq client.wants \cup {n}
      /\ n \in wants /\ n \notin client.wants => m.id = n
  <2>1. client.responded \in BOOLEAN
    BY <1>1 DEF Clients
  <2> QED BY <1>1, <1>2, <1>3, <1>4, <1>5, <2>1
<1>7. responded <=> client.responded \/ m.kind = "response"
  OBVIOUS
<1> HIDE DEF responded, wants, n
<1>8. /\ client' \in Clients /\ client'.alive = client.alive /\ client'.reads = client.reads
      /\ client'.sent = n /\ client'.responded = responded /\ client'.wants = wants
      /\ client'.got = client.got
  BY <1>1, <1>2, <1>6 DEF Clients
<1>9. ASSUME NEW i \in Guard!Ids
      PROVE  /\ client.got[i] \in Nat /\ Total(i) \in Nat /\ Total(i) <= 1 /\ i \in Nat
             /\ i > client.sent => Total(i) = 0
             /\ Lives /\ i \in client.wants => Total(i) = 1
  BY <1>1, Summands, NumbersAre DEF GuardTypes, Counts
<1>10. /\ Told \in Nat /\ Told <= 1 /\ (~client.responded => Told = 0)
       /\ Lives /\ client.responded => Told = 1
  <2>1. Told \in Nat
    BY Sums, Units
  <2> QED BY <1>1, <2>1 DEF Counts
<1>11. ASSUME NEW i \in Guard!Ids
       PROVE  /\ One(m, i) = 1 => i = n /\ Has(line, i) = 0
              /\ One(m, i) \in {0, 1} /\ (m.id = i => One(m, i) = 1)
  <2>1. (One(m, i) = 1 <=> m.id = i) /\ One(m, i) \in {0, 1}
    BY <1>4 DEF One
  <2>2. m.id = i => i = n
    BY <1>4, <1>5
  <2>3. i = n => Total(i) = 0
    BY <1>2, <1>9
  <2>4. Total(i) = 0 => Has(line, i) = 0
    BY <1>9, Sums, Units
  <2> QED BY <2>1, <2>2, <2>3, <2>4
<1>12. /\ One(m, Guard!Ask) = IF m.kind = "response" THEN 1 ELSE 0
       /\ One(m, Guard!Ask) = 1 => Has(line, Guard!Ask) = 0
  <2>1. One(m, Guard!Ask) = IF m.kind = "response" THEN 1 ELSE 0
    BY <1>4, <1>5 DEF One
  <2>2. Told = 0 => Has(line, Guard!Ask) = 0
    BY Sums, Units
  <2> QED BY <1>4, <1>10, <2>1, <2>2
<1>13. \A i \in Numbers : Has(line, i) + One(m, i) <= 1
  <2> SUFFICES ASSUME NEW i \in Numbers PROVE Has(line, i) + One(m, i) <= 1
    OBVIOUS
  <2>1. Has(line, i) \in {0, 1} /\ One(m, i) \in {0, 1} /\ (One(m, i) = 1 => Has(line, i) = 0)
    BY <1>11, <1>12, CountIs DEF Numbers
  <2> QED BY <2>1
<1>14. /\ line' \in Seq(Sends) /\ Once(line', Numbers)
       /\ \A i \in Numbers : Has(line', i) = Has(line, i) + One(m, i)
  <2>1. Once(line, Numbers)
    BY <1>1 DEF Counts, Onces
  <2>2. Once(Append(line, m), Numbers)
    BY <1>1, <1>4, <1>13, <2>1, OnceAppend
  <2>3. ASSUME NEW i \in Numbers PROVE Has(Append(line, m), i) = Has(line, i) + One(m, i)
    BY <1>1, <1>4, <1>13, HasAppend
  <2>4. Append(line, m) \in Seq(Sends)
    BY <1>1, <1>4
  <2> QED BY <1>3, <2>2, <2>3, <2>4
<1>15. GuardTypes'
  BY <1>1, <1>8, <1>14 DEF GuardTypes
<1>16. Shares' /\ Leaves'
  BY <1>1, <1>8 DEF Shares, Leaves
<1>17. Counts'
  <2>1. Onces' /\ (Lives' <=> Lives)
    BY <1>1, <1>8, <1>14 DEF Counts, Onces, Once, Lives
  <2>2. \A i \in client'.wants : i <= client'.sent
    <3>1. \A i \in client.wants : i <= client.sent /\ i \in Nat
      BY <1>1, NumbersAre DEF Counts
    <3>2. client.sent <= n /\ n \in Nat
      BY <1>1 DEF n
    <3> QED BY <1>1, <1>6, <1>8, <3>1, <3>2
  <2>3. ASSUME NEW i \in Guard!Ids
        PROVE  /\ Total(i)' <= 1 /\ (i > client'.sent => Total(i)' = 0)
               /\ Lives' /\ i \in client'.wants => Total(i)' = 1
    <3>1. Total(i)' = Total(i) + One(m, i)
      <4>1. Has(line', i) = Has(line, i) + One(m, i)
        BY <1>14 DEF Numbers
      <4>2. /\ relayIn'.forward = relayIn.forward /\ relayIn'.back = relayIn.back
            /\ relayOut'.carry = relayOut.carry /\ inbound' = inbound /\ outbound' = outbound
            /\ server'.pending = server.pending /\ client'.got[i] = client.got[i]
        BY <1>1, <1>8
      <4>3. /\ Total(i) = Has(line, i) + One(relayIn.forward, i) + Has(inbound, i)
                          + (One(relayIn.back, i) + Among(server.pending, i) + Has(outbound, i)
                             + One(relayOut.carry, i) + client.got[i])
            /\ Total(i)' = Has(line', i) + One(relayIn.forward, i) + Has(inbound, i)
                          + (One(relayIn.back, i) + Among(server.pending, i) + Has(outbound, i)
                             + One(relayOut.carry, i) + client.got[i])
        BY <4>2, Sums
      <4>4. /\ Has(line, i) \in {0, 1} /\ One(relayIn.forward, i) \in {0, 1} /\ Has(inbound, i) \in {0, 1}
            /\ One(relayIn.back, i) \in {0, 1} /\ Among(server.pending, i) \in {0, 1}
            /\ Has(outbound, i) \in {0, 1} /\ One(relayOut.carry, i) \in {0, 1}
            /\ client.got[i] \in Nat /\ One(m, i) \in {0, 1}
        BY <1>9, <1>11, Units
      <4> QED BY <4>1, <4>3, <4>4
    <3>2. i = n => Total(i) = 0
      BY <1>2, <1>9
    <3>3. i > n => i > client.sent /\ i # n
      BY <1>1, <1>9 DEF n
    <3>4. Total(i)' <= 1 /\ (i > n => Total(i)' = 0)
      BY <1>9, <1>11, <3>1, <3>2, <3>3
    <3>5. Lives /\ i \in wants => Total(i)' = 1
      <4>1. CASE i \in client.wants
        BY <1>9, <1>11, <3>1, <3>2, <4>1
      <4>2. CASE i \notin client.wants /\ i \in wants
        <5>1. i = n /\ m.id = n
          BY <1>6, <4>2
        <5> QED BY <1>11, <3>1, <3>2, <5>1
      <4> QED BY <4>1, <4>2
    <3> QED BY <1>8, <2>1, <3>4, <3>5
  <2>4. /\ Told' <= IF client'.responded THEN 1 ELSE 0
        /\ Lives' /\ client'.responded => Told' = 1
    <3>1. Told' = Told + One(m, Guard!Ask)
      <4>1. Has(line', Guard!Ask) = Has(line, Guard!Ask) + One(m, Guard!Ask)
        BY <1>14 DEF Numbers
      <4> QED BY <1>1, <1>12, <4>1, Sums, Units
    <3>2. CASE m.kind = "response"
      BY <1>4, <1>7, <1>8, <1>10, <1>12, <3>1, <3>2
    <3>3. CASE m.kind # "response"
      BY <1>7, <1>8, <1>10, <1>12, <2>1, <3>1, <3>3
    <3> QED BY <3>2, <3>3
  <2> QED BY <2>1, <2>2, <2>3, <2>4 DEF Counts
<1> QED BY <1>15, <1>16, <1>17 DEF GuardInv

\* The client closes its side or dies, or no longer reads.

LEMMA ClientTurnsKeeps ==
  ASSUME Guard!GuardAssumption, GuardInv, Guard!ClientCloses \/ Guard!ClientPauses,
         UNCHANGED <<inbound, outbound, relayIn, relayOut, outLock, part, mixed, main, server>>
  PROVE  GuardInv'
<1>1. /\ GuardTypes /\ Shares /\ Leaves /\ Counts /\ client \in Clients /\ UNCHANGED line
      /\ UNCHANGED <<inbound, outbound, relayIn, relayOut, outLock, part, mixed, main, server>>
  BY DEF GuardInv, GuardTypes, Guard!ClientCloses, Guard!ClientPauses
<1>2. /\ client' \in Clients /\ (client'.alive => client.alive) /\ (client'.reads => client.reads)
      /\ client'.sent = client.sent /\ client'.responded = client.responded /\ client'.wants = client.wants
      /\ client'.got = client.got
  <2>1. CASE Guard!ClientCloses
    <3>1. PICK alive \in BOOLEAN :
            client' = [client EXCEPT !.open = FALSE, !.alive = alive, !.reads = @ /\ alive]
      BY <2>1 DEF Guard!ClientCloses
    <3> DEFINE reads == client.reads /\ alive
    <3>2. reads \in BOOLEAN /\ (reads => client.reads) /\ client.open /\ client.alive
      BY <1>1, <2>1 DEF Guard!ClientCloses, Clients
    <3>3. client' = [client EXCEPT !.open = FALSE, !.alive = alive, !.reads = reads]
      BY <3>1
    <3> HIDE DEF reads
    <3> QED BY <1>1, <3>2, <3>3 DEF Clients
  <2>2. CASE Guard!ClientPauses
    <3>1. client' = [client EXCEPT !.reads = FALSE]
      BY <2>2 DEF Guard!ClientPauses
    <3> QED BY <1>1, <3>1 DEF Clients
  <2> QED BY <2>1, <2>2
<1>3. GuardTypes'
  BY <1>1, <1>2 DEF GuardTypes
<1>4. Shares' /\ Leaves'
  BY <1>1, <1>2 DEF Shares, Leaves
<1>5. Counts'
  <2>1. Onces' /\ (Lives' => Lives)
    BY <1>1, <1>2 DEF Counts, Onces, Once, Lives
  <2>2. ASSUME NEW i \in Guard!Ids PROVE Total(i)' = Total(i) /\ Total(i) \in Nat
    <3>1. client.got[i] \in Nat /\ Total(i) \in Nat
      BY <1>1, Summands DEF GuardTypes
    <3> QED BY <1>1, <1>2, <3>1, Sums, Units
  <2>3. Told' = Told /\ Told \in Nat
    BY <1>1, Sums, Units
  <2> QED BY <1>1, <1>2, <2>1, <2>2, <2>3, CountsStay DEF GuardTypes
<1> QED BY <1>3, <1>4, <1>5 DEF GuardInv

LEMMA ClientKeeps ==
  ASSUME Guard!GuardAssumption, GuardInv, Guard!Client
  PROVE  GuardInv'
BY ClientSendsKeeps, ClientTurnsKeeps DEF Guard!Client
-----------------------------------------------------------------------------
(* The theorems *)

LEMMA InitGuard == ASSUME Guard!GuardAssumption, Guard!Init PROVE GuardInv
<1>1. /\ line = <<>> /\ inbound = <<>> /\ outbound = <<>>
      /\ relayIn = [at |-> "read", forward |-> None, back |-> None]
      /\ relayOut = [at |-> "read", carry |-> None]
      /\ outLock = None /\ part = None /\ mixed = FALSE /\ main = "wait"
      /\ server = [alive |-> TRUE, stdin |-> TRUE, held |-> FALSE, pending |-> {}, roots |-> {},
                   asked |-> FALSE, answered |-> FALSE]
      /\ client = [alive |-> TRUE, open |-> TRUE, reads |-> TRUE, sent |-> 0,
                   asked |-> FALSE, responded |-> FALSE,
                   wants |-> {}, got |-> [i \in Guard!Ids |-> 0]]
      /\ MaxMessages \in Nat
  BY DEF Guard!Init, Guard!GuardAssumption
<1>2. /\ line \in Seq(Sends) /\ inbound \in Seq(Passed) /\ outbound \in Seq(Comes)
      /\ server \in Servers /\ client \in Clients
  BY <1>1 DEF Servers, Clients
<1>3. GuardTypes
  BY <1>1, <1>2 DEF GuardTypes
<1>4. Shares
  BY <1>1 DEF Shares, Guard!GuardAssumption
<1>5. Leaves
  BY <1>1 DEF Leaves
<1>6. Counts
  <2>1. Onces
    BY <1>1 DEF Onces, Once
  <2>2. ASSUME NEW i \in Guard!Ids PROVE Total(i) = 0
    <3>1. Has(line, i) = 0 /\ Has(inbound, i) = 0 /\ Has(outbound, i) = 0
      BY <1>1, CountIs
    <3>2. One(relayIn.forward, i) = 0 /\ One(relayIn.back, i) = 0 /\ One(relayOut.carry, i) = 0
      BY <1>1, CountIs
    <3>3. Among(server.pending, i) = 0 /\ client.got[i] = 0
      BY <1>1 DEF Among
    <3> QED BY <3>1, <3>2, <3>3, Sums
  <2>3. Told = 0
    <3>1. Has(line, Guard!Ask) = 0 /\ Has(inbound, Guard!Ask) = 0 /\ One(relayIn.forward, Guard!Ask) = 0
      BY <1>1, CountIs
    <3>2. ~server.answered
      BY <1>1
    <3> QED BY <3>1, <3>2, Sums
  <2>4. client.wants = {} /\ ~client.responded /\ client.sent = 0
    BY <1>1
  <2> QED BY <2>1, <2>2, <2>3, <2>4 DEF Counts
<1> QED BY <1>3, <1>4, <1>5, <1>6 DEF GuardInv

LEMMA NextGuard == ASSUME Guard!GuardAssumption, GuardInv, [Guard!Next]_(Guard!vars) PROVE GuardInv'
<1>1. CASE UNCHANGED Guard!vars
  BY <1>1 DEF Guard!vars, GuardInv, GuardTypes, Shares, Leaves, Counts, Onces, Once, Total, Up, Down, Told,
              Lives, Has, One, Among
<1>2. CASE Guard!Next
  BY <1>2, InReadsKeeps, InEmitsKeeps, InWritesKeeps, OutReadsKeeps, OutEmitsKeeps, MainKeeps, ServerKeeps,
     ClientKeeps DEF Guard!Next
<1> QED BY <1>1, <1>2

\* What is invariant, with any number of lines.
THEOREM GuardAlways == ASSUME Guard!GuardAssumption PROVE Guard!Spec => []GuardInv
<1>1. Guard!Init => GuardInv
  BY InitGuard
<1>2. GuardInv /\ [Guard!Next]_(Guard!vars) => GuardInv'
  BY NextGuard
<1> QED BY <1>1, <1>2, PTL DEF Guard!Spec

\* The threads and the process are where they can be, and what is pending was asked.
THEOREM GuardTyping == ASSUME Guard!GuardAssumption PROVE Guard!Spec => []Guard!GuardTypeOK
<1>1. GuardInv => Guard!GuardTypeOK
  BY DEF GuardInv, GuardTypes, Guard!GuardTypeOK, Servers, Clients, Guard!GuardAssumption
<1> QED BY <1>1, GuardAlways, PTL

\* filter_line, emit and main: no thread of the server is given a root outside the harness,
\* every request is answered once, the two threads do not mix their lines, and the relay ends
\* after its server's last line.
THEOREM GuardKeepsItsPromises == ASSUME Guard!GuardAssumption PROVE Guard!Spec => []Guard!GuardHolds
<1>1. GuardInv => Guard!Inside
  BY DEF GuardInv, GuardTypes, Servers, Guard!Inside
<1>2. GuardInv => Guard!Answered
  <2> SUFFICES ASSUME GuardInv PROVE Guard!Answered
    OBVIOUS
  <2>1. GuardTypes /\ Counts /\ client \in Clients /\ client.wants \subseteq Guard!Ids
    BY DEF GuardInv, GuardTypes, Clients
  <2>2. ASSUME NEW i \in Guard!Ids PROVE client.got[i] <= 1
    <3>1. client.got[i] \in Nat /\ Total(i) \in Nat /\ Total(i) <= 1
      BY <2>1, Summands DEF Counts
    <3> QED BY <3>1, Sums, Units
  <2>3. ASSUME Guard!Quiet
        PROVE  server.answered = client.responded /\ \A i \in client.wants : client.got[i] = 1
    <3>1. /\ Lives /\ line = <<>> /\ inbound = <<>> /\ outbound = <<>> /\ server.pending = {}
          /\ relayIn.forward = None /\ relayIn.back = None /\ relayOut.carry = None
      BY <2>1, <2>3 DEF Guard!Quiet, Lives, GuardTypes
    <3>2. ASSUME NEW i
          PROVE  /\ Has(line, i) = 0 /\ Has(inbound, i) = 0 /\ Has(outbound, i) = 0
                 /\ One(relayIn.forward, i) = 0 /\ One(relayIn.back, i) = 0 /\ One(relayOut.carry, i) = 0
                 /\ Among(server.pending, i) = 0
      BY <3>1, CountIs DEF Among
    <3>3. ASSUME NEW i \in client.wants PROVE client.got[i] = 1
      <4>1. Total(i) = 1 /\ client.got[i] \in Nat
        BY <2>1, <3>1, Summands DEF Counts
      <4> QED BY <3>2, <4>1, Sums
    <3>4. server.answered = client.responded
      <4>1. Told = IF server.answered THEN 1 ELSE 0
        BY <3>2, Sums
      <4>2. server.answered \in BOOLEAN /\ client.responded \in BOOLEAN
        BY <2>1 DEF GuardTypes, Servers, Clients
      <4>3. server.answered <=> client.responded
        BY <2>1, <3>1, <4>1 DEF Counts
      <4>4. CASE server.answered
        <5>1. server.answered = TRUE /\ client.responded = TRUE
          BY <4>2, <4>3, <4>4
        <5> QED BY <5>1
      <4>5. CASE ~server.answered
        <5>1. server.answered = FALSE /\ client.responded = FALSE
          BY <4>2, <4>3, <4>5
        <5> QED BY <5>1
      <4> QED BY <4>4, <4>5
    <3> QED BY <3>3, <3>4
  <2> QED BY <2>2, <2>3 DEF Guard!Answered
<1>3. GuardInv => Guard!LinesWhole
  BY DEF GuardInv, Shares, Guard!LinesWhole
<1>4. GuardInv => Guard!EndsWhole
  BY DEF GuardInv, Shares, Leaves, Guard!EndsWhole
<1>5. GuardInv => Guard!GuardHolds
  BY <1>1, <1>2, <1>3, <1>4 DEF Guard!GuardHolds
<1> QED BY <1>5, GuardAlways, PTL

-----------------------------------------------------------------------------
(***************************************************************************)
(* NativeHistory, with any number of sessions, launchers, keepers and      *)
(* mishaps: nothing written to a conversation is lost with a home, and, as *)
(* long as no restore died before its receipt and no keeper while it was   *)
(* removing a home, sessions do not fork it and the catalog never answers  *)
(* a shortened one.                                                        *)
(*                                                                         *)
(* The argument: whoever keeps or resumes a session has its lease (Place), *)
(* so a home that goes away is what its snapshot says; what a session has  *)
(* is what there was before it and what it wrote itself (Prefix), in its   *)
(* home or in the last snapshot of it (Grown); the homes are resumed one   *)
(* from the other, so the only one that no row of the catalog names as an  *)
(* origin is the last (Chain, Answer), and the catalog answers that one.   *)
(* What the app wrote is in the home of the repository, and an origin that *)
(* has changed since makes the catalog refuse (AppKept).                   *)
(***************************************************************************)
CONSTANTS Sessions, Launchers, Keepers, Canonical, App, Outsider, Nobody, MaxMishaps
VARIABLES place, content, terminal, lineage, snaps, latest, lease, idLease, run, wrote, torn, shorn, mishaps
History == INSTANCE NativeHistory WITH written <- wrote

\* The instance has the library's operators under names of its own.
LEMMA SameCardinality == \A S : History!Cardinality(S) = Cardinality(S)
BY DEF History!Cardinality, Cardinality
LEMMA SameFinite == \A S : History!IsFiniteSet(S) = IsFiniteSet(S)
BY DEF History!IsFiniteSet, IsFiniteSet

\* What the processes and the homes can be.
Steps ==
  {"idle", "lease", "prepare", "publish", "create", "restore", "receipt", "run", "rename", "verify", "remove"}
Runs ==
  [at : Steps, home : History!Homes \cup {None}, before : SUBSET History!Writes,
   snap : History!Snapshots \cup {None}]

HistoryTypes ==
  /\ place \in [History!Homes -> {"none", "root", "tomb", "gone"}]
  /\ content \in [History!Homes -> SUBSET History!Writes]
  /\ terminal \subseteq Sessions /\ lineage \in [History!Homes -> History!Snapshots \cup {None}]
  /\ snaps \subseteq History!Snapshots
  /\ lease \in [History!Homes -> History!Procs \cup {Nobody}] /\ idLease \in Launchers \cup {Nobody}
  /\ run \in [History!Procs -> Runs] /\ wrote \subseteq History!Writes
  /\ torn \subseteq Sessions /\ shorn \subseteq Sessions
  /\ latest \in [History!Homes -> History!Snapshots \cup {None}]

\* What each process has where it is.
Keeping == {"publish", "rename", "verify", "remove"}
Resuming == {"restore", "receipt", "run"}
Place(p) ==
  /\ p \in Keepers => run[p].at \in {"idle"} \cup Keeping
  /\ p \in Launchers =>
       /\ run[p].at \notin {"rename", "verify", "remove"}
       /\ run[p].at \notin {"idle", "lease"} => idLease = p
  /\ run[p].at = "publish" =>
       /\ run[p].home \in History!Homes /\ run[p].before # {}
       /\ run[p].home # Canonical =>
            lease[run[p].home] = p /\ run[p].home \in terminal /\ place[run[p].home] = "root"
       /\ p \in Keepers => run[p].home # Canonical
  /\ run[p].at \in {"rename", "verify", "remove"} =>
       /\ run[p].home \in Sessions /\ lease[run[p].home] = p /\ run[p].home \in terminal
       /\ place[run[p].home] = IF run[p].at = "rename" THEN "root" ELSE "tomb"
       /\ run[p].snap \in snaps /\ run[p].snap.source = run[p].home
       /\ run[p].home \in content[run[p].home] => run[p].home \in run[p].snap.content
       /\ run[p].at = "remove" => content[run[p].home] = run[p].snap.content
  /\ run[p].at \in Resuming =>
       /\ run[p].home \in Sessions /\ lease[run[p].home] = p /\ run[p].home \notin terminal
       /\ place[run[p].home] = "root"
  /\ run[p].at = "restore" => content[run[p].home] = {} /\ run[p].snap # None
  /\ run[p].at = "receipt" => run[p].snap.content \subseteq content[run[p].home] /\ run[p].snap # None
  /\ run[p].at \in {"restore", "receipt"} => lineage[run[p].home] = None
  /\ run[p].at = "run" => lineage[run[p].home] # None
  /\ run[p].snap # None => run[p].snap \in snaps

\* Homes and snapshots.
Brief(s) == IF s = None THEN None ELSE [source |-> s.source, content |-> s.content]
Store ==
  /\ \A h \in History!Homes : content[h] \subseteq wrote
  /\ \A h \in History!Homes : place[h] \in {"none", "gone"} => content[h] = {}
  /\ \A h \in History!Homes : place[h] \in {"tomb", "gone"} => h \in terminal
  /\ place[Canonical] = "root" /\ lineage[Canonical] = None
  /\ \A h \in Sessions : place[h] = "none" => h \notin terminal /\ lineage[h] = None
  /\ \A s \in snaps : /\ s.content # {} /\ s.content \subseteq wrote
                      /\ s.source # Canonical => s.source \in terminal
                      /\ s.from = Brief(lineage[s.source])
  /\ \A h \in History!Homes : lineage[h] # None => lineage[h] \in snaps
  /\ \A s \in snaps : place[s.source] \in {"root", "tomb"} /\ s.source \notin shorn =>
       s.content \subseteq content[s.source]
  /\ \A s \in snaps : /\ latest[s.source] \in snaps /\ latest[s.source].source = s.source
                      /\ s.source \notin shorn => s.content \subseteq latest[s.source].content
  /\ \A h \in shorn : \E s \in snaps : s.source = h

\* The rest holds as long as no restore died before its receipt and no keeper died in a removal.
Filled(h) == content[h] # {} \/ \E s \in snaps : s.source = h
Before(x, y) == y \in Sessions /\ (x = Canonical \/ (x \in Sessions /\ x < y))
Contents(h) == {s.content : s \in {t \in snaps : t.source = h}} \cup ({content[h]} \ {{}})
\* What a home has is what there was before its session, and what that has written.
Prefix(h) ==
  \A k \in Contents(h) :
    /\ wrote \cap {Canonical} \subseteq k
    /\ \A x \in wrote \cap Sessions : Before(x, h) => x \in k
    /\ \A x \in k \cap Sessions : x = h \/ Before(x, h)
\* What a home had is in it, or in the last snapshot of it.
Grown(h) ==
  /\ place[h] = "root" => /\ h \in wrote /\ Filled(h) => h \in content[h]
                          /\ lineage[h] # None => content[h] # {}
  /\ place[h] \in {"tomb", "gone"} => \E s \in snaps : s.source = h /\ (h \in wrote => h \in s.content)
\* Something of x is in y and the receipt of it is not written yet.
Restoring(x, y) == \E p \in Launchers : run[p].at = "receipt" /\ run[p].home = y /\ run[p].snap.source = x
\* The homes are resumed one from the other: a home with something in it is the origin of a restore, of
\* the one that is under way, or the last of them.
Chain ==
  /\ \A h \in History!Homes : lineage[h] # None => Before(lineage[h].source, h)
  /\ \A x, y \in History!Homes : Filled(x) /\ Filled(y) /\ Before(x, y) =>
       \/ \E z \in History!Homes : lineage[z] # None /\ lineage[z].source = x
       \/ Restoring(x, y)
  /\ \A p \in Launchers : run[p].at \in Resuming =>
       \A y \in History!Homes : Before(run[p].home, y) => place[y] = "none"
  /\ \A p \in Launchers : run[p].at = "receipt" =>
       \A y \in History!Homes : Filled(y) /\ y # run[p].home =>
          Before(y, run[p].home) /\ (y = run[p].snap.source \/ Before(y, run[p].snap.source))
  /\ \A h \in Sessions : h \in wrote => Filled(h)
  /\ Canonical \in wrote <=> Filled(Canonical)
  /\ \A x, y \in Sessions : place[y] # "none" /\ x < y => place[x] # "none"
\* What the app wrote stays in the home of the repository; a session that was resumed from there after
\* it, and every later one, has it too.
AppKept ==
  /\ App \in wrote => App \in content[Canonical]
  /\ \A z \in History!Homes :
       (lineage[z] # None /\ lineage[z].source = Canonical /\ App \in lineage[z].content) =>
       \A y \in Sessions : \A k \in Contents(y) : App \in k
Sound == torn = {} /\ shorn = {} => (\A h \in History!Homes : Prefix(h) /\ Grown(h)) /\ Chain /\ AppKept

HistoryInv ==
  /\ HistoryTypes /\ (\A p \in History!Procs : Place(p)) /\ Store /\ History!NoHistoryLost /\ Sound

-----------------------------------------------------------------------------
(* The catalog *)

LEMMA SnapshotsTyped ==
  ASSUME HistoryTypes
  PROVE  /\ \A s \in snaps :
              s \in History!Snapshots /\ s.source \in History!Homes /\ s.content \subseteq History!Writes
         /\ \A h \in History!Homes : lineage[h] # None =>
              lineage[h] \in History!Snapshots /\ lineage[h].source \in History!Homes
                /\ lineage[h].content \subseteq History!Writes
BY DEF HistoryTypes, History!Snapshots

LEMMA Order ==
  ASSUME History!HistoryAssumption
  PROVE  /\ \A x, y \in History!Homes : x # y => Before(x, y) \/ Before(y, x)
         /\ \A x, y \in History!Homes : Before(x, y) => ~Before(y, x) /\ x # y
         /\ \A x, y, z \in History!Homes : Before(x, y) /\ Before(y, z) => Before(x, z)
BY DEF History!HistoryAssumption, Before, History!Homes

\* A row of the catalog for each home that was restored from a snapshot, and no other.
LEMMA Rows ==
  ASSUME History!HistoryAssumption, HistoryTypes, Store, \A h \in History!Homes : Grown(h)
  PROVE  /\ \A z \in History!Homes : lineage[z] # None =>
              \E l \in History!Lineages : /\ l.owner = z /\ l.parent.source = lineage[z].source
                                          /\ l.parent.content = lineage[z].content
         /\ \A l \in History!Lineages :
              \E z \in History!Homes : /\ lineage[z] # None /\ l.parent.source = lineage[z].source
                                       /\ l.parent.content = lineage[z].content
<1>1. ASSUME NEW z \in History!Homes, lineage[z] # None
      PROVE  \E l \in History!Lineages : /\ l.owner = z /\ l.parent.source = lineage[z].source
                                         /\ l.parent.content = lineage[z].content
  <2>1. place[z] \in {"root", "tomb", "gone"}
    BY <1>1 DEF HistoryTypes, Store, History!Homes
  <2>2. CASE place[z] = "root"
    <3>1. z \in History!Live
      BY <1>1, <2>2 DEF Grown, History!Live
    <3>2. [owner |-> z, parent |-> lineage[z]] \in History!Lineages
      BY <1>1, <3>1 DEF History!Lineages
    <3> QED BY <3>2
  <2>3. CASE place[z] \in {"tomb", "gone"}
    <3>1. PICK s \in snaps : s.source = z
      BY <2>3 DEF Grown
    <3>2. s.from = [source |-> lineage[z].source, content |-> lineage[z].content]
      BY <1>1, <3>1 DEF Store, Brief
    <3>3. s.from # None
      <4>1. lineage[z].source \in History!Homes /\ lineage[z].content \in SUBSET History!Writes
        BY <1>1, SnapshotsTyped
      <4> QED BY <3>2, <4>1 DEF History!HistoryAssumption, History!Origins
    <3>4. [owner |-> s.source, parent |-> s.from] \in History!Lineages
      BY <3>3 DEF History!Lineages
    <3> QED BY <3>1, <3>2, <3>4
  <2> QED BY <2>1, <2>2, <2>3
<1>2. ASSUME NEW l \in History!Lineages
      PROVE  \E z \in History!Homes : /\ lineage[z] # None /\ l.parent.source = lineage[z].source
                                      /\ l.parent.content = lineage[z].content
  <2>1. CASE \E h \in {x \in History!Live : lineage[x] # None} : l = [owner |-> h, parent |-> lineage[h]]
    BY <2>1 DEF History!Live
  <2>2. CASE \E s \in {x \in snaps : x.from # None} : l = [owner |-> s.source, parent |-> s.from]
    <3>1. PICK s \in snaps : s.from # None /\ l = [owner |-> s.source, parent |-> s.from]
      BY <2>2
    <3>2. s.source \in History!Homes /\ s.from = Brief(lineage[s.source])
      BY SnapshotsTyped DEF Store
    <3>3. lineage[s.source] # None
      BY <3>1, <3>2 DEF Brief
    <3>4. s.from = [source |-> lineage[s.source].source, content |-> lineage[s.source].content]
      BY <3>2, <3>3 DEF Brief
    <3> QED BY <3>1, <3>2, <3>3, <3>4
  <2> QED BY <2>1, <2>2 DEF History!Lineages
<1> QED BY <1>1, <1>2

Linked(x) == \E z \in History!Homes : lineage[z] # None /\ lineage[z].source = x

LEMMA SupersededIsLinked ==
  ASSUME History!HistoryAssumption, HistoryTypes, Store, \A h \in History!Homes : Grown(h),
         History!LineageValid
  PROVE  \A x : x \in History!Superseded <=> Linked(x)
<1>1. \A x : x \in History!Superseded <=> \E l \in History!Lineages : l.parent.source = x
  BY DEF History!Superseded
<1> QED BY <1>1, Rows DEF Linked

\* What a conversation holds is finite.
LEMMA FinitelyMany ==
  ASSUME History!HistoryAssumption
  PROVE  IsFiniteSet(History!Homes) /\ IsFiniteSet(History!Writes)
<1>1. IsFiniteSet({Canonical}) /\ IsFiniteSet({App}) /\ IsFiniteSet({Outsider})
  BY FS_Singleton
<1>2. IsFiniteSet(History!Homes)
  BY <1>1, FS_Union, SameFinite DEF History!HistoryAssumption, History!Homes
<1>3. History!Writes = (History!Homes \cup {App}) \cup {Outsider}
  BY DEF History!Writes
<1>4. IsFiniteSet(History!Homes \cup {App})
  BY <1>1, <1>2, FS_Union
<1>5. IsFiniteSet((History!Homes \cup {App}) \cup {Outsider})
  BY <1>1, <1>4, FS_Union
<1> QED BY <1>2, <1>3, <1>5

\* The latest snapshot of a home is one of them and, unless some of the home was removed, has
\* whatever one of them has.
LEMMA LatestOfHome ==
  ASSUME Store, NEW x, \E s \in snaps : s.source = x, NEW S, S = {s \in snaps : s.source = x}
  PROVE  /\ History!Latest(S) \in S
         /\ shorn = {} => \A s \in S : s.content \subseteq History!Latest(S).content
<1>1. (CHOOSE s \in S : TRUE) \in S
  OBVIOUS
<1>2. History!Latest(S) = latest[x]
  BY <1>1 DEF History!Latest
<1>3. latest[x] \in snaps /\ latest[x].source = x
  BY DEF Store
<1>4. ASSUME shorn = {}, NEW s \in S PROVE s.content \subseteq latest[x].content
  BY <1>4 DEF Store
<1> QED BY <1>2, <1>3, <1>4

FilledLast(h) == h \in History!Homes /\ Filled(h) /\ \A x \in History!Homes : Filled(x) /\ x # h =>
     Before(x, h)

\* The home that was filled last is the one that no row names as an origin.
LEMMA UnlinkedIsLast ==
  ASSUME History!HistoryAssumption, HistoryTypes, Chain, NEW h \in History!Homes, Filled(h), ~Linked(h),
         \A p \in Launchers : run[p].at # "receipt"
  PROVE  FilledLast(h)
<1> SUFFICES ASSUME NEW x \in History!Homes, Filled(x), x # h, ~Before(x, h) PROVE FALSE
  BY DEF FilledLast
<1>1. Before(h, x)
  BY Order
<1>2. Linked(h)
  BY <1>1 DEF Chain, Linked, Restoring
<1> QED BY <1>2

\* What the catalog answers while nobody is between restore and receipt: the last home, or the
\* last snapshot of it when it is not there.
LEMMA Answer ==
  ASSUME History!HistoryAssumption, HistoryTypes, Store, Sound, torn = {}, shorn = {}, History!Resolved,
         \A p \in Launchers : run[p].at # "receipt"
  PROVE  LET d == History!Decide IN
         /\ FilledLast(d.home) /\ History!LineageValid
         /\ \/ /\ d.status = "live" /\ d.home \in History!Live
               /\ d.snap # None => /\ d.snap \in snaps /\ d.snap.source = d.home
                                   /\ d.snap.content = content[d.home]
            \/ /\ d.status = "snapshot" /\ d.home \notin History!Live
               /\ d.snap \in snaps /\ d.snap.source = d.home
               /\ d.home \in wrote => d.home \in d.snap.content
<1> DEFINE live0 == History!Live \ History!Superseded
           origins == {lineage[h].source : h \in {x \in live0 : lineage[x] # None}}
           live == IF Cardinality(live0 \ origins) = 1 THEN live0 \ origins ELSE live0
           archives == {s \in snaps : s.source \notin History!Superseded}
           home == CHOOSE x \in live : TRUE
           one == [status |-> "live", home |-> home, snap |-> History!SnapshotOf(home)]
           last == [status |-> "snapshot", home |-> History!Latest(archives).source,
                    snap |-> History!Latest(archives)]
<1>1. History!Decide = IF ~History!LineageValid \/ Cardinality(live) > 1 THEN History!Ambiguous
               ELSE IF live # {} THEN one
               ELSE IF Cardinality({s.source : s \in archives}) = 1 THEN last
               ELSE History!Ambiguous
  BY SameCardinality DEF History!Decide
<1>2. History!Ambiguous.status = "ambiguous"
  BY DEF History!Ambiguous
<1> HIDE DEF live, archives, one, last
<1>3. History!LineageValid /\ ~(Cardinality(live) > 1)
  BY <1>1, <1>2 DEF History!Resolved
<1> USE DEF live, archives
<1>4. (\A h \in History!Homes : Grown(h)) /\ Chain
  BY DEF Sound
<1>5. \A x : x \in History!Superseded <=> Linked(x)
  BY <1>3, <1>4, SupersededIsLinked
<1>6. live0 \in SUBSET History!Homes /\ origins \subseteq History!Superseded /\ IsFiniteSet(live0)
  <2>1. live0 \subseteq History!Homes
    BY DEF History!Live
  <2>2. origins \subseteq History!Superseded
    BY <1>5, <2>1 DEF Linked
  <2> QED BY <2>1, <2>2, FinitelyMany, FS_Subset
<1>7. live = live0
  BY <1>6
<1> HIDE DEF live, origins, home
<1>8. \A h \in live0 : FilledLast(h)
  BY <1>4, <1>5, UnlinkedIsLast DEF History!Live, Filled
<1>9. \A s \in archives : FilledLast(s.source)
  BY <1>4, <1>5, UnlinkedIsLast, SnapshotsTyped DEF Filled
<1>10. CASE live # {}
  <2>1. History!Decide = one
    BY <1>1, <1>3, <1>10
  <2>2. live0 # {}
    BY <1>7, <1>10
  <2>3. home \in live0
    BY <1>7, <2>2 DEF home
  <2>4. History!SnapshotOf(home) # None =>
           /\ History!SnapshotOf(home) \in snaps /\ History!SnapshotOf(home).source = home
           /\ History!SnapshotOf(home).content = content[home]
    BY DEF History!SnapshotOf
  <2> QED BY <1>3, <1>8, <2>1, <2>3, <2>4 DEF one
<1>11. CASE live = {}
  <2>1. live = {} /\ Cardinality({s.source : s \in archives}) = 1 /\ History!Decide = last
    BY <1>1, <1>2, <1>3, <1>11 DEF History!Resolved
  <2>2. {s.source : s \in archives} \in SUBSET History!Homes
    BY SnapshotsTyped
  <2>3. PICK x : {s.source : s \in archives} = {x}
    BY <2>1, <2>2, FinitelyMany, FS_Subset, FS_Singleton
  <2>4. x \in History!Homes /\ x \notin History!Superseded /\ (\E s \in snaps : s.source = x)
    BY <2>2, <2>3
  <2>5. archives = {s \in snaps : s.source = x}
    BY <2>3, <2>4
  <2>7. History!Latest(archives) \in archives /\ \A s \in archives :
             s.content \subseteq History!Latest(archives).content
    BY <2>4, <2>5, LatestOfHome
  <2>8. x \notin History!Live
    BY <1>7, <2>1, <2>4
  <2>9. place[x] \in {"tomb", "gone"}
    <3>1. place[x] # "none"
      BY <2>4 DEF Store, History!Homes
    <3>2. place[x] # "root"
      BY <1>4, <2>4, <2>8 DEF History!Live, Grown, Store
    <3> QED BY <2>4, <3>1, <3>2 DEF HistoryTypes
  <2>10. x \in wrote => \E s \in archives : x \in s.content
    BY <1>4, <2>4, <2>5, <2>9 DEF Grown
  <2>11. FilledLast(x)
    BY <1>9, <2>5, <2>7
  <2> QED BY <1>3, <2>1, <2>5, <2>7, <2>8, <2>10, <2>11 DEF last
<1> QED BY <1>10, <1>11

\* A complete answer: whatever sessions have written, and what the conversation began with.
LEMMA AnswerIsComplete ==
  ASSUME History!HistoryAssumption, HistoryTypes, Store, Sound, History!NoHistoryLost, torn = {}, shorn = {},
         \A p \in Launchers : run[p].at # "receipt",
         NEW h, FilledLast(h), NEW k \in Contents(h), h \in wrote => h \in k
  PROVE  /\ wrote \cap History!Homes \subseteq k
         /\ History!LineageValid /\ (h = Canonical => k = content[h]) => wrote \ {Outsider} \subseteq k
<1>1. Prefix(h) /\ Chain /\ AppKept /\ \A x \in History!Homes : Grown(x)
  BY DEF Sound, FilledLast
<1>2. ASSUME NEW x \in wrote \cap History!Homes PROVE x \in k
  <2>1. Filled(x) /\ x \in History!Homes
    <3>1. x \in Sessions => Filled(x)
      BY <1>1 DEF Chain
    <3>2. x = Canonical => Filled(x)
      BY <1>1 DEF Chain
    <3> QED BY <3>1, <3>2 DEF History!Homes
  <2>2. CASE x # h
    <3>1. Before(x, h)
      BY <2>1, <2>2 DEF FilledLast
    <3> QED BY <1>1, <3>1 DEF Prefix, History!Homes
  <2> QED BY <2>2
<1>3. ASSUME History!LineageValid, h = Canonical => k = content[h], App \in wrote PROVE App \in k
  <2>1. App \in content[Canonical]
    BY <1>1, <1>3 DEF AppKept
  <2>2. CASE h # Canonical
    <3>1. Canonical \in History!Homes /\ Filled(Canonical) /\ h \in Sessions
      BY <2>1, <2>2 DEF Filled, FilledLast, History!Homes
    <3>2. Before(Canonical, h)
      BY <3>1 DEF Before
    <3>3. PICK z \in History!Homes : lineage[z] # None /\ lineage[z].source = Canonical
      BY <1>1, <3>1, <3>2 DEF Chain, Restoring, FilledLast
    <3>4. PICK l \in History!Lineages :
               l.parent.source = Canonical /\ l.parent.content = lineage[z].content
      BY <1>1, <3>3, Rows
    <3>5. lineage[z].content = content[Canonical]
      BY <1>3, <3>4 DEF History!LineageValid, History!Faithful, Store
    <3> QED BY <1>1, <2>1, <3>1, <3>3, <3>5 DEF AppKept
  <2> QED BY <1>3, <2>1, <2>2
<1> QED BY <1>2, <1>3 DEF HistoryTypes, History!Writes

-----------------------------------------------------------------------------
(* Steps *)

LEMMA NewRun ==
  ASSUME HistoryTypes, NEW p \in History!Procs, NEW r \in Runs, run' = [run EXCEPT ![p] = r]
  PROVE  run' \in [History!Procs -> Runs] /\ run'[p] = r /\ \A q \in History!Procs : q # p =>
              run'[q] = run[q]
BY DEF HistoryTypes

\* What a step leaves to a process that does not take it.
Frame(q) ==
  /\ run'[q] = run[q] /\ snaps \subseteq snaps' /\ (idLease = q => idLease' = q)
  /\ (run[q].at \in Keeping \cup Resuming /\ run[q].home \in Sessions) =>
       LET h == run[q].home IN
       /\ lease'[h] = lease[h] /\ place'[h] = place[h] /\ lineage'[h] = lineage[h]
       /\ h \in terminal' <=> h \in terminal
       /\ content[h] \subseteq content'[h] /\ (h \in content'[h] => h \in content[h])
       /\ content[h] = {} \/ place[h] = "tomb" => content'[h] = content[h]

\* A step that leaves a process what it relies on leaves it where it is.
LEMMA OthersKept ==
  ASSUME History!HistoryAssumption, NEW q \in History!Procs, Place(q), Frame(q)
  PROVE  Place(q)'
<1>1. run'[q] = run[q] /\ snaps \subseteq snaps' /\ (idLease = q => idLease' = q)
  BY DEF Frame
<1>2. q \in Launchers /\ run[q].at \notin {"idle", "lease"} => idLease' = q
  BY <1>1 DEF Place
<1>3. CASE run[q].at \in Keeping \cup Resuming /\ run[q].home \in Sessions
  <2> DEFINE h == run[q].home
  <2>1. /\ lease'[h] = lease[h] /\ place'[h] = place[h] /\ lineage'[h] = lineage[h]
        /\ h \in terminal' <=> h \in terminal
        /\ content[h] \subseteq content'[h] /\ (h \in content'[h] => h \in content[h])
        /\ content[h] = {} \/ place[h] = "tomb" => content'[h] = content[h]
    BY <1>3 DEF Frame
  <2> QED BY <1>1, <1>2, <1>3, <2>1 DEF Place, Keeping, Resuming
<1>4. CASE ~(run[q].at \in Keeping \cup Resuming /\ run[q].home \in Sessions)
  <2>1. run[q].at \notin {"rename", "verify", "remove"} \cup Resuming
    BY <1>4 DEF Place, Keeping
  <2>2. run[q].at = "publish" => run[q].home = Canonical
    BY <1>4 DEF Place, Keeping, History!Homes
  <2> QED BY <1>1, <1>2, <2>1, <2>2 DEF Place, Resuming
<1> QED BY <1>3, <1>4

\* Whoever keeps or resumes a session has its lease.
LEMMA OwnHome ==
  ASSUME NEW q \in History!Procs, Place(q), run[q].at \in Keeping \cup Resuming,
         run[q].home \in Sessions,
         History!HistoryAssumption
  PROVE  lease[run[q].home] = q /\ place[run[q].home] \in {"root", "tomb"}
BY DEF Place, Keeping, Resuming, History!HistoryAssumption

LEMMA IdleRun ==
  ASSUME History!HistoryAssumption
  PROVE  History!Idle \in Runs /\ History!Idle.at = "idle" /\ History!Idle.snap = None
           /\ History!Idle.home = None
BY DEF History!Idle, Runs, Steps

LEMMA IdlePlace ==
  ASSUME History!HistoryAssumption, NEW p \in History!Procs, run'[p] = History!Idle
  PROVE  Place(p)'
BY DEF Place, History!Idle, Keeping, Resuming

\* The chain and the homes do not change when nothing is written, moved or published, unless a
\* restore begins or ends.
LEMMA SoundStays ==
  ASSUME History!HistoryAssumption, Sound, torn \subseteq torn', shorn \subseteq shorn',
         torn' = {} /\ shorn' = {} =>
           /\ UNCHANGED <<place, content, lineage, snaps, wrote>>
           /\ \A p \in Launchers : run'[p].at \in Resuming => run'[p] = run[p]
           /\ \A p \in Launchers : run[p].at = "receipt" => run'[p] = run[p]
  PROVE  Sound'
<1> SUFFICES ASSUME torn' = {} /\ shorn' = {}
      PROVE  ((\A h \in History!Homes : Prefix(h) /\ Grown(h)) /\ Chain /\ AppKept)'
  BY DEF Sound
<1>1. (\A h \in History!Homes : Prefix(h) /\ Grown(h)) /\ Chain /\ AppKept
  BY DEF Sound
<1>2. /\ UNCHANGED <<place, content, lineage, snaps, wrote>>
      /\ \A p \in Launchers : run'[p].at \in Resuming => run'[p] = run[p]
      /\ \A p \in Launchers : run[p].at = "receipt" => run'[p] = run[p]
  OBVIOUS
<1>3. (\A h \in History!Homes : Prefix(h))'
  BY <1>1, <1>2 DEF Prefix, Contents
<1>4. (\A h \in History!Homes : Grown(h))'
  BY <1>1, <1>2 DEF Grown, Filled
<1>5. Chain'
  <2>1. \A x : Filled(x)' <=> Filled(x)
    BY <1>2 DEF Filled
  <2>2. \A x, y : Restoring(x, y) => Restoring(x, y)'
    BY <1>2 DEF Restoring
  <2>3. \A p \in Launchers : run'[p].at \in Resuming =>
          \A y \in History!Homes : Before(run'[p].home, y) => place'[y] = "none"
    BY <1>1, <1>2 DEF Chain
  <2>4. \A p \in Launchers : run'[p].at = "receipt" => run'[p] = run[p]
    BY <1>2 DEF Resuming
  <2>5. \A p \in Launchers : run'[p].at = "receipt" =>
          \A y \in History!Homes : Filled(y)' /\ y # run'[p].home =>
             Before(y, run'[p].home) /\ (y = run'[p].snap.source \/ Before(y, run'[p].snap.source))
    BY <1>1, <2>1, <2>4 DEF Chain
  <2>6. \A x, y : Before(x, y)' <=> Before(x, y)
    BY DEF Before
  <2> QED BY <1>1, <1>2, <2>1, <2>2, <2>3, <2>5 DEF Chain, Before
<1>6. AppKept'
  BY <1>1, <1>2 DEF AppKept, Contents
<1> QED BY <1>3, <1>4, <1>5, <1>6

\* A process that gives up whatever it holds.
LEMMA GivesBack ==
  ASSUME History!HistoryAssumption, HistoryTypes, \A q \in History!Procs : Place(q),
         NEW p \in History!Procs, History!Ends(p)
  PROVE  /\ run' \in [History!Procs -> Runs] /\ run'[p] = History!Idle /\ \A q \in History!Procs :
              q # p => run'[q] = run[q]
         /\ lease' \in [History!Homes -> History!Procs \cup {Nobody}]
         /\ idLease' \in Launchers \cup {Nobody}
         /\ \A h \in History!Homes : lease[h] # p => lease'[h] = lease[h]
         /\ \A q : idLease = q /\ q # p => idLease' = q
<1>1. run' = [run EXCEPT ![p] = History!Idle] /\ History!Idle \in Runs
  BY IdleRun DEF History!Ends
<1>2. run' \in [History!Procs -> Runs] /\ run'[p] = History!Idle /\ \A q \in History!Procs : q # p =>
           run'[q] = run[q]
  BY <1>1, NewRun
<1>3. lease' = [h \in History!Homes |-> IF lease[h] = p THEN Nobody ELSE lease[h]]
  BY DEF History!Ends
<1>4. idLease' = IF idLease = p THEN Nobody ELSE idLease
  BY DEF History!Ends
<1> QED BY <1>2, <1>3, <1>4 DEF HistoryTypes

\* Giving up disturbs nobody else.
LEMMA OthersKeepTheirs ==
  ASSUME History!HistoryAssumption, HistoryTypes, \A q \in History!Procs : Place(q),
         NEW p \in History!Procs, History!Ends(p),
         \A h \in History!Homes : lease[h] # p => /\ place'[h] = place[h] /\ content'[h] = content[h]
                                                  /\ (h \in terminal' <=> h \in terminal),
         snaps \subseteq snaps', UNCHANGED lineage
  PROVE  \A q \in History!Procs : Place(q)'
<1>1. run'[p] = History!Idle /\ \A q \in History!Procs : q # p => run'[q] = run[q]
  BY GivesBack
<1>2. ASSUME NEW q \in History!Procs, q # p PROVE Place(q)'
  <2>1. \A h \in History!Homes : lease[h] = q => lease'[h] = lease[h]
    BY <1>2, GivesBack
  <2>2. Frame(q)
    <3>1. run'[q] = run[q] /\ (idLease = q => idLease' = q)
      BY <1>1, <1>2, GivesBack
    <3>2. (run[q].at \in Keeping \cup Resuming /\ run[q].home \in Sessions) => lease[run[q].home] = q
      BY OwnHome
    <3> QED BY <1>2, <2>1, <3>1, <3>2 DEF Frame, History!Homes
  <2> QED BY <2>2, OthersKept
<1> QED BY <1>1, <1>2, IdlePlace

\* A step that only moves processes, their leases and what is recorded of sessions that ended.
LEMMA Quiet ==
  ASSUME History!HistoryAssumption, HistoryInv,
         UNCHANGED <<place, content, lineage, snaps, latest, wrote, torn, shorn>>,
         run' \in [History!Procs -> Runs], lease' \in [History!Homes -> History!Procs \cup {Nobody}],
         idLease' \in Launchers \cup {Nobody},
         terminal \subseteq terminal', terminal' \subseteq Sessions,
         \A h \in terminal' \ terminal : place[h] # "none",
         \A p \in History!Procs : Place(p)',
         \A p \in Launchers : run'[p].at \in Resuming => run'[p] = run[p],
         \A p \in Launchers : run[p].at = "receipt" => run'[p] = run[p]
  PROVE  HistoryInv'
<1>1. HistoryTypes'
  BY DEF HistoryInv, HistoryTypes
<1>2. Store'
  BY DEF HistoryInv, Store, Brief
<1>3. History!NoHistoryLost'
  BY DEF HistoryInv, History!NoHistoryLost
<1>4. Sound'
  BY SoundStays DEF HistoryInv
<1> QED BY <1>1, <1>2, <1>3, <1>4 DEF HistoryInv

\* A process that fails, or ends with its session, outside of a restore.
LEMMA Fails ==
  ASSUME History!HistoryAssumption, HistoryInv, NEW p \in History!Procs, History!Ends(p),
         run[p].at # "receipt",
         UNCHANGED <<place, content, lineage, snaps, latest, wrote, torn, shorn>>,
         terminal' = terminal
            \/ (run[p].at = "run" /\ terminal' = terminal \cup {run[p].home})
  PROVE  HistoryInv'
<1>1. HistoryTypes /\ \A q \in History!Procs : Place(q)
  BY DEF HistoryInv
<1>2. /\ run' \in [History!Procs -> Runs] /\ run'[p] = History!Idle /\ \A q \in History!Procs : q # p =>
           run'[q] = run[q]
      /\ lease' \in [History!Homes -> History!Procs \cup {Nobody}]
      /\ idLease' \in Launchers \cup {Nobody}
  BY <1>1, GivesBack
<1>3. run[p].at = "run" =>
           lease[run[p].home] = p /\ run[p].home \in Sessions /\ place[run[p].home] = "root"
  BY <1>1 DEF Place, Resuming
<1>4. terminal \subseteq terminal' /\ terminal' \subseteq Sessions /\ \A h \in terminal' \ terminal :
           place[h] # "none"
  BY <1>1, <1>3 DEF HistoryTypes
<1>5. \A h \in History!Homes : lease[h] # p => (h \in terminal' <=> h \in terminal)
  BY <1>3
<1>6. \A q \in History!Procs : Place(q)'
  BY <1>1, <1>5, OthersKeepTheirs
<1>7. \A q \in Launchers : run'[q].at \in Resuming => run'[q] = run[q]
  BY <1>2, IdleRun DEF Resuming, History!Procs
<1>8. \A q \in Launchers : run[q].at = "receipt" => run'[q] = run[q]
  BY <1>2 DEF History!Procs
<1> QED BY <1>2, <1>4, <1>6, <1>7, <1>8, Quiet

\* A step of a process that has no session's lease yet, or takes one that is free.
LEMMA Moves ==
  ASSUME History!HistoryAssumption, HistoryInv, NEW p \in History!Procs, NEW r \in Runs,
         run' = [run EXCEPT ![p] = r],
         UNCHANGED <<History!homes, snaps, latest, wrote, torn, shorn>>,
         run[p].at # "receipt", r.at \notin Resuming, Place(p)',
         \/ lease' = lease
         \/ \E h \in History!Homes : lease[h] = Nobody /\ lease' = [lease EXCEPT ![h] = p],
         idLease' = idLease \/ (idLease = Nobody /\ idLease' = p /\ p \in Launchers)
  PROVE  HistoryInv'
<1>1. HistoryTypes /\ \A q \in History!Procs : Place(q)
  BY DEF HistoryInv
<1>2. run' \in [History!Procs -> Runs] /\ run'[p] = r /\ \A q \in History!Procs : q # p =>
           run'[q] = run[q]
  BY <1>1, NewRun
<1>3. lease' \in [History!Homes -> History!Procs \cup {Nobody}] /\ idLease' \in Launchers \cup {Nobody}
  BY <1>1 DEF HistoryTypes
<1>4. \A h \in History!Homes : lease[h] # Nobody => lease'[h] = lease[h]
  BY <1>1 DEF HistoryTypes
<1>5. ASSUME NEW q \in History!Procs PROVE Place(q)'
  <2>1. CASE q # p
    <3>1. run'[q] = run[q] /\ (idLease = q => idLease' = q)
      BY <1>2, <2>1 DEF History!HistoryAssumption, History!Procs
    <3>2. (run[q].at \in Keeping \cup Resuming /\ run[q].home \in Sessions) => lease[run[q].home] = q
      BY <1>1, OwnHome
    <3>3. Frame(q)
      BY <1>4, <3>1, <3>2 DEF Frame, History!homes, History!Homes, History!HistoryAssumption,
         History!Procs
    <3> QED BY <1>1, <3>3, OthersKept
  <2> QED BY <2>1
<1>6. \A q \in Launchers : run'[q].at \in Resuming => run'[q] = run[q]
  BY <1>2 DEF History!Procs
<1>7. \A q \in Launchers : run[q].at = "receipt" => run'[q] = run[q]
  BY <1>2 DEF History!Procs
<1> QED BY <1>1, <1>2, <1>3, <1>5, <1>6, <1>7, Quiet DEF History!homes, HistoryTypes

LEMMA KeepKeeps ==
  ASSUME History!HistoryAssumption, HistoryInv, NEW p \in Keepers, NEW h \in Sessions,
         History!Keep(p, h)
  PROVE  HistoryInv'
<1> DEFINE r == [run[p] EXCEPT !.at = "publish", !.home = h, !.before = content[h]]
<1>1. HistoryTypes /\ Place(p) /\ p \in History!Procs /\ h \in History!Homes
  BY DEF HistoryInv, History!Procs, History!Homes
<1>2. run' = [run EXCEPT ![p] = r]
  BY <1>1 DEF History!Keep, History!Inventoried, HistoryTypes
<1>3. r \in Runs /\ r.at = "publish" /\ r.home = h /\ r.before = content[h] /\ r.snap = run[p].snap
  BY <1>1 DEF HistoryTypes, Runs, Steps
<1> HIDE DEF r
<1>4. /\ run[p].at = "idle" /\ lease[h] = Nobody /\ lease' = [lease EXCEPT ![h] = p] /\ lease'[h] = p
      /\ content[h] # {} /\ h \in terminal /\ place[h] = "root" /\ h # Canonical
      /\ UNCHANGED <<History!homes, snaps, latest, idLease, wrote, torn, shorn>>
  BY <1>1 DEF History!Keep, History!At, HistoryTypes, History!HistoryAssumption
<1>5. run'[p] = r
  BY <1>1, <1>2, <1>3, NewRun
<1>6. Place(p)'
  BY <1>1, <1>3, <1>4, <1>5 DEF Place, Keeping, Resuming, History!homes, History!HistoryAssumption
<1> QED BY <1>1, <1>2, <1>3, <1>4, <1>6, Moves DEF Resuming


\* The snapshot of an answer is one of the store.
LEMMA AnswerIsStored ==
  ASSUME History!HistoryAssumption, HistoryTypes, Store, History!Resolved
  PROVE  /\ History!Decide.snap \in snaps \cup {None}
         /\ History!Decide.status = "live" =>
              History!Decide.home \in History!Homes /\ content[History!Decide.home] # {}
                /\ place[History!Decide.home] = "root"
         /\ History!Decide.status # "live" => History!Decide.snap \in snaps
<1> DEFINE live0 == History!Live \ History!Superseded
           origins == {lineage[h].source : h \in {x \in live0 : lineage[x] # None}}
           live == IF Cardinality(live0 \ origins) = 1 THEN live0 \ origins ELSE live0
           archives == {s \in snaps : s.source \notin History!Superseded}
           home == CHOOSE x \in live : TRUE
           one == [status |-> "live", home |-> home, snap |-> History!SnapshotOf(home)]
           last == [status |-> "snapshot", home |-> History!Latest(archives).source,
                    snap |-> History!Latest(archives)]
<1>1. History!Decide = IF ~History!LineageValid \/ Cardinality(live) > 1 THEN History!Ambiguous
               ELSE IF live # {} THEN one
               ELSE IF Cardinality({s.source : s \in archives}) = 1 THEN last
               ELSE History!Ambiguous
  BY SameCardinality DEF History!Decide
<1>2. History!Ambiguous.status = "ambiguous"
  BY DEF History!Ambiguous
<1>3. live \subseteq History!Live
  OBVIOUS
<1> HIDE DEF live, archives, one, last
<1>4. (live # {} /\ History!Decide = one)
      \/ (History!Decide = last /\ Cardinality({s.source : s \in archives}) = 1)
  BY <1>1, <1>2 DEF History!Resolved
<1>5. CASE live # {} /\ History!Decide = one
  <2>1. home \in History!Live
    BY <1>3, <1>5
  <2>2. History!SnapshotOf(home) \in snaps \cup {None}
    BY DEF History!SnapshotOf
  <2> QED BY <1>5, <2>1, <2>2 DEF one, History!Live
<1>6. CASE History!Decide = last /\ Cardinality({s.source : s \in archives}) = 1
  <2>1. archives \subseteq snaps /\ {s.source : s \in archives} \in SUBSET History!Homes
    BY SnapshotsTyped DEF archives
  <2>2. PICK x : {s.source : s \in archives} = {x}
    BY <1>6, <2>1, FinitelyMany, FS_Subset, FS_Singleton
  <2>3. archives = {s \in snaps : s.source = x} /\ \E s \in snaps : s.source = x
    BY <2>1, <2>2 DEF archives
  <2>4. History!Latest(archives) \in snaps
    BY <2>3, LatestOfHome
  <2> QED BY <1>6, <2>4 DEF last
<1> QED BY <1>4, <1>5, <1>6

LEMMA SelectKeeps ==
  ASSUME History!HistoryAssumption, HistoryInv, NEW p \in Launchers, History!Select(p)
  PROVE  HistoryInv'
<1> DEFINE r == [History!Idle EXCEPT !.at = "lease", !.snap = History!Decide.snap]
<1>1. HistoryTypes /\ Store /\ Place(p) /\ p \in History!Procs /\ p \notin Keepers
  BY DEF HistoryInv, History!Procs, History!HistoryAssumption
<1>2. run' = [run EXCEPT ![p] = r] /\ run[p].at = "idle"
        /\ UNCHANGED <<History!homes, snaps, latest, History!leases, wrote, torn, shorn, mishaps>>
  BY DEF History!Select, History!At
<1>3. History!Decide.snap \in snaps \cup {None}
  BY <1>1, AnswerIsStored DEF History!Select
<1>4. r \in Runs /\ r.at = "lease" /\ r.snap = History!Decide.snap
  BY <1>1, <1>3 DEF HistoryTypes, Runs, Steps, History!Idle
<1> HIDE DEF r
<1>5. run'[p] = r
  BY <1>1, <1>2, <1>4, NewRun
<1>6. Place(p)'
  BY <1>1, <1>2, <1>3, <1>4, <1>5 DEF Place, Keeping, Resuming
<1> QED BY <1>1, <1>2, <1>4, <1>6, Moves DEF Resuming, History!leases

LEMMA TakeIdLeaseKeeps ==
  ASSUME History!HistoryAssumption, HistoryInv, NEW p \in Launchers, History!TakeIdLease(p)
  PROVE  HistoryInv'
<1>1. HistoryTypes /\ Store /\ Place(p) /\ p \in History!Procs /\ p \notin Keepers /\ p # Nobody
  BY DEF HistoryInv, History!Procs, History!HistoryAssumption
<1>2. run[p].at = "lease" /\ UNCHANGED <<History!homes, snaps, latest, lease, wrote, torn, shorn, mishaps>>
  BY DEF History!TakeIdLease, History!At
<1>3. CASE idLease = Nobody
  <2> DEFINE r == [run[p] EXCEPT !.at = IF run[p].snap = None THEN "prepare" ELSE "create"]
  <2>1. run' = [run EXCEPT ![p] = r] /\ idLease' = p
    BY <1>1, <1>3 DEF History!TakeIdLease, HistoryTypes
  <2>2. r \in Runs /\ r.at \in {"prepare", "create"} /\ r.snap = run[p].snap
    BY <1>1 DEF HistoryTypes, Runs, Steps
  <2> HIDE DEF r
  <2>3. run'[p] = r
    BY <1>1, <2>1, <2>2, NewRun
  <2>4. Place(p)'
    BY <1>1, <1>2, <2>1, <2>2, <2>3 DEF Place, Keeping, Resuming
  <2> QED BY <1>1, <1>2, <1>3, <2>1, <2>2, <2>4, Moves DEF Resuming
<1>4. CASE idLease # Nobody
  <2>1. run' = [run EXCEPT ![p] = History!Idle] /\ idLease' = idLease
    BY <1>4 DEF History!TakeIdLease
  <2>2. run'[p] = History!Idle
    BY <1>1, <2>1, IdleRun, NewRun
  <2>3. Place(p)'
    BY <1>1, <2>2, IdlePlace
  <2> QED BY <1>1, <1>2, <2>1, <2>3, IdleRun, Moves DEF Resuming
<1> QED BY <1>3, <1>4

LEMMA PrepareKeeps ==
  ASSUME History!HistoryAssumption, HistoryInv, NEW p \in Launchers, History!Prepare(p)
  PROVE  HistoryInv'
<1>1. HistoryTypes /\ Store /\ Place(p) /\ p \in History!Procs /\ p \notin Keepers
  BY DEF HistoryInv, History!Procs, History!HistoryAssumption
<1>2. run[p].at = "prepare" /\ UNCHANGED <<History!homes, snaps, latest, wrote, torn, shorn, mishaps>>
  BY DEF History!Prepare, History!At
<1>3. CASE History!Ends(p)
  BY <1>1, <1>2, <1>3, Fails DEF History!homes
<1>4. ASSUME History!Resolved, History!Goes(p, "create"), UNCHANGED History!leases
      PROVE  HistoryInv'
  <2> DEFINE r == [run[p] EXCEPT !.at = "create"]
  <2>1. run' = [run EXCEPT ![p] = r]
    BY <1>1, <1>4 DEF History!Goes, HistoryTypes
  <2>2. r \in Runs /\ r.at = "create" /\ r.snap = run[p].snap
    BY <1>1 DEF HistoryTypes, Runs, Steps
  <2> HIDE DEF r
  <2>3. run'[p] = r
    BY <1>1, <2>1, <2>2, NewRun
  <2>4. Place(p)'
    BY <1>1, <1>2, <1>4, <2>1, <2>2, <2>3 DEF Place, Keeping, Resuming, History!leases
  <2> QED BY <1>1, <1>2, <1>4, <2>1, <2>2, <2>4, Moves DEF Resuming, History!leases
<1>5. ASSUME NEW h \in History!Homes, run' = History!Inventoried(p, h), content[h] # {},
             place[h] = "root",
             UNCHANGED idLease,
             \/ h = Canonical /\ UNCHANGED lease
             \/ h \in terminal /\ lease[h] = Nobody /\ lease' = [lease EXCEPT ![h] = p]
      PROVE  HistoryInv'
  <2> DEFINE r == [run[p] EXCEPT !.at = "publish", !.home = h, !.before = content[h]]
  <2>1. run' = [run EXCEPT ![p] = r]
    BY <1>1, <1>5 DEF History!Inventoried, HistoryTypes
  <2>2. r \in Runs /\ r.at = "publish" /\ r.home = h /\ r.before = content[h] /\ r.snap = run[p].snap
    BY <1>1 DEF HistoryTypes, Runs, Steps
  <2> HIDE DEF r
  <2>3. run'[p] = r
    BY <1>1, <2>1, <2>2, NewRun
  <2>4. h # Canonical => lease'[h] = p
    BY <1>1, <1>5 DEF HistoryTypes
  <2>5. Place(p)'
    BY <1>1, <1>2, <1>5, <2>1, <2>2, <2>3, <2>4 DEF Place, Keeping, Resuming, History!homes
  <2> QED BY <1>1, <1>2, <1>5, <2>1, <2>2, <2>5, Moves DEF Resuming
<1>6. ASSUME History!Resolved, ~History!Ends(p), History!Decide.status # "snapshot"
      PROVE  History!Decide.status = "live"
  <2>1. History!Decide.status \in {"live", "snapshot", "ambiguous"}
    BY DEF History!Decide, History!Ambiguous
  <2> QED BY <1>6, <2>1 DEF History!Resolved
<1> DEFINE d == History!Decide
<1>7. History!Resolved /\ d.status = "live" =>
           d.home \in History!Homes /\ content[d.home] # {} /\ place[d.home] = "root"
  BY <1>1, AnswerIsStored
<1>8. \/ History!Ends(p)
      \/ History!Resolved /\ History!Goes(p, "create") /\ UNCHANGED History!leases
      \/ History!Resolved /\ d.status # "snapshot" /\ d.home = Canonical
         /\ run' = History!Inventoried(p, d.home) /\ UNCHANGED History!leases
      \/ History!Resolved /\ d.status # "snapshot" /\ d.home \in terminal /\ lease[d.home] = Nobody
         /\ run' = History!Inventoried(p, d.home) /\ lease' = [lease EXCEPT ![d.home] = p]
         /\ UNCHANGED idLease
  BY DEF History!Prepare
<1> HIDE DEF d
<1> QED BY <1>3, <1>4, <1>5, <1>6, <1>7, <1>8 DEF History!leases, d

LEMMA FinishKeeps ==
  ASSUME History!HistoryAssumption, HistoryInv, NEW p \in Launchers, History!Finish(p)
  PROVE  HistoryInv'
BY Fails DEF History!Finish, History!At, History!Procs

LEMMA SettleKeeps ==
  ASSUME History!HistoryAssumption, HistoryInv, NEW s \in Sessions, History!Settle(s)
  PROVE  HistoryInv'
<1>1. HistoryTypes /\ \A q \in History!Procs : Place(q)
  BY DEF HistoryInv
<1>2. /\ place[s] = "root" /\ lease[s] = Nobody /\ terminal' = terminal \cup {s}
      /\ UNCHANGED <<place, content, lineage, snaps, latest, History!leases, run, wrote, torn, shorn, mishaps>>
  BY DEF History!Settle
<1>3. ASSUME NEW q \in History!Procs PROVE Place(q)'
  <2>1. (run[q].at \in Keeping \cup Resuming /\ run[q].home \in Sessions) => lease[run[q].home] = q
    BY <1>1, OwnHome
  <2>2. Frame(q)
    BY <1>2, <2>1 DEF Frame, History!leases, History!HistoryAssumption, History!Procs
  <2> QED BY <1>1, <2>2, OthersKept
<1>4. \A h \in terminal' \ terminal : place[h] # "none"
  BY <1>2
<1>5. terminal \subseteq terminal' /\ terminal' \subseteq Sessions
  BY <1>1, <1>2 DEF HistoryTypes
<1>6. run' \in [History!Procs -> Runs] /\ lease' \in [History!Homes -> History!Procs \cup {Nobody}]
        /\ idLease' \in Launchers \cup {Nobody}
  BY <1>1, <1>2 DEF HistoryTypes, History!leases
<1> QED BY <1>2, <1>3, <1>4, <1>5, <1>6, Quiet

\* A session's home that goes aside or comes back, with whatever it holds.
LEMMA HomeMoves ==
  ASSUME History!HistoryAssumption, HistoryInv,
         UNCHANGED <<content, terminal, lineage, snaps, latest, wrote, torn, shorn>>,
         NEW h \in Sessions, h \in terminal, NEW v \in {"root", "tomb"}, place[h] \in {"root", "tomb"},
         place' = [place EXCEPT ![h] = v],
         torn = {} /\ shorn = {} => \E s \in snaps : s.source = h /\ (h \in content[h] => h \in s.content),
         run' \in [History!Procs -> Runs], lease' \in [History!Homes -> History!Procs \cup {Nobody}],
         idLease' \in Launchers \cup {Nobody}, \A p \in History!Procs : Place(p)',
         \A p \in Launchers : run'[p].at \in Resuming => run'[p] = run[p],
         \A p \in Launchers : run[p].at = "receipt" => run'[p] = run[p]
  PROVE  HistoryInv'
<1>1. HistoryTypes /\ Store /\ Sound /\ History!NoHistoryLost /\ h \in History!Homes /\ h # Canonical
  BY DEF HistoryInv, History!Homes, History!HistoryAssumption
<1>2. place' \in [History!Homes -> {"none", "root", "tomb", "gone"}] /\ place'[h] = v
      /\ \A x \in History!Homes : x # h => place'[x] = place[x]
  BY <1>1 DEF HistoryTypes
<1>3. HistoryTypes'
  BY <1>1, <1>2 DEF HistoryTypes
<1>4. Store'
  <2>1. \A x \in History!Homes :
             place'[x] = place[x]
               \/ (x = h /\ place'[x] \in {"root", "tomb"} /\ place[x] \in {"root", "tomb"})
    BY <1>2
  <2>2. \A s \in snaps : s.source \in History!Homes
    BY <1>1, SnapshotsTyped
  <2>3. Canonical \in History!Homes /\ Sessions \subseteq History!Homes
    BY DEF History!Homes
  <2>4. \A x \in History!Homes : place'[x] \in {"none", "gone"} <=> place[x] \in {"none", "gone"}
    BY <2>1
  <2>5. \A x \in History!Homes : place'[x] \in {"tomb", "gone"} => x \in terminal
    BY <1>1, <2>1 DEF Store
  <2>6. \A x \in History!Homes : place'[x] \in {"root", "tomb"} <=> place[x] \in {"root", "tomb"}
    BY <2>1
  <2>7. \A x \in History!Homes : place'[x] = "none" <=> place[x] = "none"
    BY <2>1
  <2>8. place'[Canonical] = "root"
    BY <1>1, <2>1, <2>3 DEF Store
  <2>9. \A s \in snaps : place'[s.source] \in {"root", "tomb"} /\ s.source \notin shorn =>
             s.content \subseteq content[s.source]
    BY <1>1, <2>2, <2>6 DEF Store
  <2>10. \A x \in History!Homes : place'[x] \in {"none", "gone"} => content[x] = {}
    BY <1>1, <2>4 DEF Store
  <2>11. \A x \in Sessions : place'[x] = "none" => x \notin terminal /\ lineage[x] = None
    BY <1>1, <2>3, <2>7 DEF Store
  <2> QED BY <1>1, <2>5, <2>8, <2>9, <2>10, <2>11 DEF Store, Brief
<1>5. History!NoHistoryLost'
  BY <1>1 DEF History!NoHistoryLost
<1>6. ASSUME torn' = {}, shorn' = {}
      PROVE  ((\A x \in History!Homes : Prefix(x) /\ Grown(x)) /\ Chain /\ AppKept)'
  <2>1. (\A x \in History!Homes : Prefix(x) /\ Grown(x)) /\ Chain /\ AppKept
    BY <1>1, <1>6 DEF Sound
  <2>2. (\A x \in History!Homes : Prefix(x))' /\ AppKept'
    BY <2>1 DEF Prefix, Contents, AppKept
  <2>3. ASSUME NEW x \in History!Homes PROVE Grown(x)'
    <3>1. CASE x # h
      BY <1>2, <2>1, <3>1 DEF Grown, Filled
    <3>2. CASE x = h
      <4>1. PICK s \in snaps : s.source = h /\ (h \in content[h] => h \in s.content)
        BY <1>6
      <4>2. s.content \subseteq content[h] /\ s.content # {}
        BY <1>1, <1>6, <4>1 DEF Store
      <4>3. h \in wrote => h \in content[h]
        <5>1. CASE place[h] = "root"
          BY <2>1, <1>1, <4>2, <5>1 DEF Grown, Filled
        <5>2. CASE place[h] = "tomb"
          <6>1. PICK t \in snaps : t.source = h /\ (h \in wrote => h \in t.content)
            BY <2>1, <1>1, <5>2 DEF Grown
          <6>2. t.content \subseteq content[h]
            BY <1>1, <1>6, <5>2, <6>1 DEF Store
          <6> QED BY <6>1, <6>2
        <5> QED BY <5>1, <5>2
      <4> QED BY <1>1, <1>2, <3>2, <4>1, <4>2, <4>3 DEF Grown, Filled
    <3> QED BY <3>1, <3>2
  <2>4. Chain'
    <3>1. \A x : Filled(x)' <=> Filled(x)
      BY DEF Filled
    <3>2. \A x, y : Restoring(x, y) => Restoring(x, y)'
      BY DEF Restoring
    <3>3. \A x \in History!Homes : place'[x] = "none" <=> place[x] = "none"
      BY <1>2
    <3>4. \A p \in Launchers : run'[p].at \in Resuming =>
            \A y \in History!Homes : Before(run'[p].home, y) => place'[y] = "none"
      BY <2>1, <3>3 DEF Chain
    <3>5. \A p \in Launchers : run'[p].at = "receipt" => run'[p] = run[p]
      BY DEF Resuming
    <3>6. \A p \in Launchers : run'[p].at = "receipt" =>
            \A y \in History!Homes : Filled(y)' /\ y # run'[p].home =>
               Before(y, run'[p].home) /\ (y = run'[p].snap.source \/ Before(y, run'[p].snap.source))
      BY <2>1, <3>1, <3>5 DEF Chain
    <3> QED BY <2>1, <3>1, <3>2, <3>3, <3>4, <3>6 DEF Chain, Before, History!Homes
  <2> QED BY <2>2, <2>3, <2>4
<1>7. Sound'
  BY <1>6 DEF Sound
<1> QED BY <1>3, <1>4, <1>5, <1>7 DEF HistoryInv

LEMMA RecoverTombKeeps ==
  ASSUME History!HistoryAssumption, HistoryInv, NEW s \in Sessions, History!RecoverTomb(s)
  PROVE  HistoryInv'
<1>1. HistoryTypes /\ Store /\ s \in History!Homes /\ s # Canonical /\ \A q \in History!Procs : Place(q)
  BY DEF HistoryInv, History!Homes, History!HistoryAssumption
<1>2. /\ place[s] = "tomb" /\ lease[s] = Nobody /\ s \in terminal
      /\ place' = [place EXCEPT ![s] = "root"]
      /\ UNCHANGED <<content, terminal, lineage, snaps, latest, History!leases, run, wrote, torn, shorn, mishaps>>
  BY DEF History!RecoverTomb
<1>3. torn = {} /\ shorn = {} => \E x \in snaps : x.source = s /\ (s \in content[s] => s \in x.content)
  BY <1>1, <1>2 DEF HistoryInv, Sound, Grown, Store
<1>4. ASSUME NEW q \in History!Procs PROVE Place(q)'
  <2>1. (run[q].at \in Keeping \cup Resuming /\ run[q].home \in Sessions) => lease[run[q].home] = q
    BY <1>1, OwnHome
  <2>2. \A h \in History!Homes : h # s => place'[h] = place[h]
    BY <1>1, <1>2 DEF HistoryTypes
  <2>3. Frame(q)
    BY <1>2, <2>1, <2>2 DEF Frame, History!leases, History!HistoryAssumption, History!Procs,
       History!Homes
  <2> QED BY <1>1, <2>3, OthersKept
<1>5. run' \in [History!Procs -> Runs] /\ lease' \in [History!Homes -> History!Procs \cup {Nobody}]
        /\ idLease' \in Launchers \cup {Nobody}
  BY <1>1, <1>2 DEF HistoryTypes, History!leases
<1>6. \A p \in Launchers : run'[p] = run[p]
  BY <1>2
<1> QED BY <1>2, <1>3, <1>4, <1>5, <1>6, HomeMoves

LEMMA RenameKeeps ==
  ASSUME History!HistoryAssumption, HistoryInv, NEW p \in Keepers, History!Rename(p)
  PROVE  HistoryInv'
<1>0. PICK h : h = run[p].home
  OBVIOUS
<1> DEFINE r == [run[p] EXCEPT !.at = "verify"]
<1>1. HistoryTypes /\ Store /\ p \in History!Procs /\ p \notin Launchers /\ \A q \in History!Procs :
           Place(q)
  BY DEF HistoryInv, History!Procs, History!HistoryAssumption
<1>2. /\ run[p].at = "rename" /\ run' = [run EXCEPT ![p] = r] /\ place' = [place EXCEPT ![h] = "tomb"]
      /\ UNCHANGED <<content, terminal, lineage, snaps, latest, History!leases, wrote, torn, shorn, mishaps>>
  BY <1>0, <1>1 DEF History!Rename, History!At, History!Goes, HistoryTypes
<1>3. /\ h \in Sessions /\ lease[h] = p /\ h \in terminal /\ place[h] = "root"
      /\ run[p].snap \in snaps /\ run[p].snap.source = h /\ (h \in content[h] => h \in run[p].snap.content)
  BY <1>0, <1>1, <1>2 DEF Place
<1>4. r \in Runs /\ r.at = "verify" /\ r.snap = run[p].snap /\ r.home = h
  BY <1>0, <1>1 DEF HistoryTypes, Runs, Steps
<1> HIDE DEF r
<1>5. run' \in [History!Procs -> Runs] /\ run'[p] = r /\ \A q \in History!Procs : q # p =>
           run'[q] = run[q]
  BY <1>1, <1>2, <1>4, NewRun
<1>6. place'[h] = "tomb" /\ \A x \in History!Homes : x # h => place'[x] = place[x]
  BY <1>1, <1>2, <1>3 DEF HistoryTypes, History!Homes
<1>7. ASSUME NEW q \in History!Procs PROVE Place(q)'
  <2>1. CASE q = p
    BY <1>1, <1>2, <1>3, <1>4, <1>5, <1>6, <2>1 DEF Place, Keeping, Resuming, History!leases
  <2>2. CASE q # p
    <3>1. (run[q].at \in Keeping \cup Resuming /\ run[q].home \in Sessions) => lease[run[q].home] = q
      BY <1>1, OwnHome
    <3>2. Frame(q)
      BY <1>2, <1>3, <1>5, <1>6, <2>2, <3>1 DEF Frame, History!leases, History!Homes
    <3> QED BY <1>1, <3>2, OthersKept
  <2> QED BY <2>1, <2>2
<1>8. lease' \in [History!Homes -> History!Procs \cup {Nobody}] /\ idLease' \in Launchers \cup {Nobody}
  BY <1>1, <1>2 DEF HistoryTypes, History!leases
<1>9. \A q \in Launchers : run'[q] = run[q]
  BY <1>1, <1>5 DEF History!Procs
<1> QED BY <1>2, <1>3, <1>5, <1>6, <1>7, <1>8, <1>9, HomeMoves

LEMMA VerifyKeeps ==
  ASSUME History!HistoryAssumption, HistoryInv, NEW p \in Keepers, History!Verify(p)
  PROVE  HistoryInv'
<1>0. PICK h : h = run[p].home
  OBVIOUS
<1> DEFINE r == [run[p] EXCEPT !.at = "remove"]
<1>1. HistoryTypes /\ Store /\ p \in History!Procs /\ p \notin Launchers /\ \A q \in History!Procs :
           Place(q)
  BY DEF HistoryInv, History!Procs, History!HistoryAssumption
<1>2. run[p].at = "verify" /\ UNCHANGED <<content, terminal, lineage, snaps, latest, wrote, torn, shorn, mishaps>>
  BY DEF History!Verify, History!At
<1>3. /\ h \in Sessions /\ lease[h] = p /\ h \in terminal /\ place[h] = "tomb"
      /\ run[p].snap \in snaps /\ run[p].snap.source = h /\ (h \in content[h] => h \in run[p].snap.content)
  BY <1>0, <1>1, <1>2 DEF Place
<1>4. CASE History!Retained(p) /\ History!Goes(p, "remove") /\ UNCHANGED <<place, History!leases>>
  <2>1. run' = [run EXCEPT ![p] = r]
    BY <1>1, <1>4 DEF History!Goes, HistoryTypes
  <2>2. r \in Runs /\ r.at = "remove" /\ r.snap = run[p].snap /\ r.home = h
    BY <1>0, <1>1 DEF HistoryTypes, Runs, Steps
  <2> HIDE DEF r
  <2>3. run'[p] = r
    BY <1>1, <2>1, <2>2, NewRun
  <2>4. Place(p)'
    BY <1>1, <1>2, <1>3, <1>4, <2>2, <2>3 DEF Place, Keeping, History!Retained, Resuming, History!leases
  <2> QED BY <1>1, <1>2, <1>4, <2>1, <2>2, <2>4, Moves DEF Resuming, History!leases, History!homes
<1>5. CASE place' = [place EXCEPT ![h] = "root"] /\ History!Ends(p)
  <2>1. /\ run' \in [History!Procs -> Runs] /\ run'[p] = History!Idle /\ \A q \in History!Procs :
             q # p => run'[q] = run[q]
        /\ lease' \in [History!Homes -> History!Procs \cup {Nobody}]
        /\ idLease' \in Launchers \cup {Nobody}
    BY <1>1, <1>5, GivesBack
  <2>2. \A x \in History!Homes : lease[x] # p => place'[x] = place[x]
    BY <1>1, <1>3, <1>5 DEF HistoryTypes
  <2>3. \A q \in History!Procs : Place(q)'
    BY <1>1, <1>2, <1>5, <2>2, OthersKeepTheirs
  <2>4. \A q \in Launchers : run'[q] = run[q]
    BY <1>1, <2>1 DEF History!Procs
  <2> QED BY <1>2, <1>3, <1>5, <2>1, <2>3, <2>4, HomeMoves
<1> QED BY <1>0, <1>2, <1>4, <1>5 DEF History!Verify, History!Proven

\* A session that has not ended has no snapshot, and one that there is not yet has nothing.
LEMMA NotYet ==
  ASSUME History!HistoryAssumption, HistoryTypes, Store, NEW s \in Sessions
  PROVE  /\ s \notin terminal => \A x \in snaps : x.source # s
         /\ place[s] = "none" => ~Filled(s)
BY DEF Store, Filled, History!Homes, History!HistoryAssumption

\* The conversation's lease: one launcher at most is past it.
LEMMA OnlyOne ==
  ASSUME History!HistoryAssumption, \A q \in History!Procs : Place(q), NEW p \in Launchers,
         run[p].at \notin {"idle", "lease"}
  PROVE  idLease = p /\ \A q \in Launchers : q # p => run[q].at \in {"idle", "lease"}
BY DEF Place, History!Procs

LEMMA RemoveKeeps ==
  ASSUME History!HistoryAssumption, HistoryInv, NEW p \in Keepers, History!Remove(p)
  PROVE  HistoryInv'
<1>0. PICK h, t : h = run[p].home /\ t = run[p].snap
  OBVIOUS
<1>1. /\ HistoryTypes /\ Store /\ History!NoHistoryLost /\ Sound /\ p \in History!Procs
      /\ p \notin Launchers
      /\ \A q \in History!Procs : Place(q)
  BY DEF HistoryInv, History!Procs, History!HistoryAssumption
<1>2. /\ run[p].at = "remove" /\ History!Ends(p) /\ place' = [place EXCEPT ![h] = "gone"]
      /\ content' = [content EXCEPT ![h] = {}]
      /\ UNCHANGED <<terminal, lineage, snaps, latest, wrote, torn, shorn, mishaps>>
  BY <1>0 DEF History!Remove, History!At
<1>3. /\ h \in Sessions /\ lease[h] = p /\ h \in terminal /\ place[h] = "tomb" /\ content[h] = t.content
      /\ t \in snaps /\ t.source = h /\ (h \in content[h] => h \in t.content)
      /\ h \in History!Homes /\ h # Canonical
  BY <1>0, <1>1, <1>2 DEF Place, History!Homes, History!HistoryAssumption
<1>4. /\ run' \in [History!Procs -> Runs] /\ run'[p] = History!Idle /\ \A q \in History!Procs : q # p =>
           run'[q] = run[q]
      /\ lease' \in [History!Homes -> History!Procs \cup {Nobody}]
      /\ idLease' \in Launchers \cup {Nobody}
  BY <1>1, <1>2, GivesBack
<1>5. place'[h] = "gone" /\ content'[h] = {}
      /\ \A x \in History!Homes : x # h => place'[x] = place[x] /\ content'[x] = content[x]
  BY <1>1, <1>2, <1>3 DEF HistoryTypes
<1>6. \A q \in History!Procs : Place(q)'
  BY <1>1, <1>2, <1>3, <1>5, OthersKeepTheirs
<1>7. HistoryTypes'
  BY <1>1, <1>2, <1>4 DEF HistoryTypes
<1>8. Store'
  <2>1. \A s \in snaps : s.source \in History!Homes
    BY <1>1, SnapshotsTyped
  <2>2. \A s \in snaps : place'[s.source] \in {"root", "tomb"} /\ s.source \notin shorn =>
             s.content \subseteq content'[s.source]
    BY <1>1, <1>5, <2>1 DEF Store
  <2>3. \A x \in History!Homes :
             content'[x] \subseteq wrote /\ (place'[x] \in {"none", "gone"} => content'[x] = {})
                         /\ (place'[x] \in {"tomb", "gone"} => x \in terminal)
    BY <1>1, <1>3, <1>5 DEF Store
  <2>4. \A x \in Sessions : place'[x] = "none" => x \notin terminal /\ lineage[x] = None
    BY <1>1, <1>5 DEF Store, History!Homes
  <2>5. place'[Canonical] = "root"
    BY <1>1, <1>3, <1>5 DEF Store, History!Homes
  <2> QED BY <1>1, <1>2, <2>2, <2>3, <2>4, <2>5 DEF Store, Brief
<1>9. History!NoHistoryLost'
  <2>1. \A x \in History!Homes : content'[x] \subseteq content[x] /\ (x # h => content'[x] = content[x])
    BY <1>5
  <2>2. content[h] \in {s.content : s \in snaps}
    BY <1>3
  <2>3. UNION ({content'[x] : x \in History!Homes} \cup {s.content : s \in snaps})
          = UNION ({content[x] : x \in History!Homes} \cup {s.content : s \in snaps})
    BY <2>1, <2>2
  <2> QED BY <1>1, <1>2, <2>3 DEF History!NoHistoryLost
<1>10. ASSUME torn' = {}, shorn' = {}
       PROVE  ((\A x \in History!Homes : Prefix(x) /\ Grown(x)) /\ Chain /\ AppKept)'
  <2>1. (\A x \in History!Homes : Prefix(x) /\ Grown(x)) /\ Chain /\ AppKept
    BY <1>1, <1>2, <1>10 DEF Sound
  <2>2. \A x \in History!Homes : Contents(x)' \subseteq Contents(x)
    BY <1>2, <1>5 DEF Contents
  <2>3. \A x \in History!Homes : Filled(x)' <=> Filled(x)
    BY <1>2, <1>3, <1>5 DEF Filled
  <2>4. \A x \in History!Homes : Prefix(x)'
    BY <1>2, <2>1, <2>2 DEF Prefix, Before
  <2>5. AppKept'
    <3>1. content'[Canonical] = content[Canonical] /\ Sessions \subseteq History!Homes
      BY <1>3, <1>5 DEF History!Homes
    <3>2. \A y \in Sessions : \A k \in Contents(y)' : k \in Contents(y)
      BY <2>2, <3>1
    <3>3. App \in wrote' => App \in content'[Canonical]
      BY <1>2, <2>1, <3>1 DEF AppKept
    <3>4. ASSUME NEW z \in History!Homes, lineage'[z] # None, lineage'[z].source = Canonical,
                 App \in lineage'[z].content,
                 NEW y \in Sessions, NEW k \in Contents(y)'
          PROVE  App \in k
      BY <1>2, <2>1, <3>2, <3>4 DEF AppKept
    <3> QED BY <3>3, <3>4 DEF AppKept
  <2>6. \A x \in History!Homes : Grown(x)'
    <3>1. Grown(h)'
      <4>1. PICK s \in snaps : s.source = h /\ (h \in wrote => h \in s.content)
        BY <1>3, <2>1 DEF Grown
      <4> QED BY <1>2, <1>5, <4>1 DEF Grown
    <3>2. ASSUME NEW x \in History!Homes, x # h PROVE Grown(x)'
      BY <1>2, <1>5, <2>1, <3>2 DEF Grown, Filled
    <3> QED BY <3>1, <3>2
  <2>7. Chain'
    <3>1. \A x \in History!Homes : place'[x] = "none" <=> place[x] = "none"
      BY <1>3, <1>5
    <3>2. \A q \in Launchers : run'[q] = run[q]
      BY <1>1, <1>4 DEF History!Procs
    <3>3. \A x, y : Restoring(x, y)' <=> Restoring(x, y)
      BY <3>2 DEF Restoring
    <3> QED BY <1>2, <2>1, <2>3, <3>1, <3>2, <3>3 DEF Chain, Before, History!Homes
  <2> QED BY <2>4, <2>5, <2>6, <2>7
<1>11. Sound'
  BY <1>10 DEF Sound
<1> QED BY <1>6, <1>7, <1>8, <1>9, <1>11 DEF HistoryInv

\* A new snapshot is what its home has.
LEMMA Published ==
  ASSUME History!HistoryAssumption, HistoryInv,
         UNCHANGED <<place, content, terminal, lineage, wrote, torn, shorn>>,
         NEW h \in History!Homes, content[h] # {}, place[h] = "root", h # Canonical => h \in terminal,
         NEW s, s = History!Snapshot(h, content[h], lineage[h]), snaps' = snaps \cup {s},
         NEW t \in History!Succeeds(s), latest' = [latest EXCEPT ![h] = t],
         run' \in [History!Procs -> Runs], lease' \in [History!Homes -> History!Procs \cup {Nobody}],
         idLease' \in Launchers \cup {Nobody}, \A p \in History!Procs : Place(p)',
         \A p \in Launchers : run'[p].at \in Resuming => run'[p] = run[p],
         \A p \in Launchers : run[p].at = "receipt" => run'[p] = run[p]
  PROVE  HistoryInv'
<1>1. HistoryTypes /\ Store /\ History!NoHistoryLost /\ Sound
  BY DEF HistoryInv
<1>2. s.source = h /\ s.content = content[h] /\ s.from = Brief(lineage[h])
  BY DEF History!Snapshot, Brief
<1>3. s \in History!Snapshots
  <2>1. content[h] \in SUBSET History!Writes
    BY <1>1 DEF HistoryTypes
  <2>2. Brief(lineage[h]) \in History!Origins \cup {None}
    BY <1>1, SnapshotsTyped DEF Brief, History!Origins
  <2>3. s = [source |-> h, content |-> content[h], from |-> Brief(lineage[h])]
    BY DEF History!Snapshot, Brief
  <2> QED BY <2>1, <2>2, <2>3 DEF History!Snapshots
<1> DEFINE old == latest[h]
<1>0. /\ t \in snaps' /\ t.source = h
      /\ h \notin shorn => \A x \in snaps' : x.source = h => x.content \subseteq t.content
  <2>1. s \in snaps => t = old
    BY <1>2 DEF History!Succeeds
  <2>2. s \notin snaps => t = s \/ (t = old /\ h \in shorn)
    BY <1>2 DEF History!Succeeds
  <2>3. s \in snaps \/ h \in shorn => old \in snaps /\ old.source = h
    BY <1>1, <1>2 DEF Store
  <2>4. s \in snaps /\ h \notin shorn => \A x \in snaps : x.source = h => x.content \subseteq old.content
    BY <1>1 DEF Store
  <2>5. h \notin shorn => \A x \in snaps : x.source = h => x.content \subseteq s.content
    BY <1>1, <1>2 DEF Store
  <2>6. t \in snaps' /\ t.source = h
    BY <1>2, <2>1, <2>2, <2>3
  <2>7. ASSUME h \notin shorn, NEW x \in snaps', x.source = h PROVE x.content \subseteq t.content
    <3>1. CASE s \in snaps
      BY <2>1, <2>4, <2>7, <3>1
    <3>2. CASE s \notin snaps
      BY <2>2, <2>5, <2>7, <3>2
    <3> QED BY <3>1, <3>2
  <2> QED BY <2>6, <2>7
<1>9. latest'[h] = t /\ \A x \in History!Homes : x # h => latest'[x] = latest[x]
  BY <1>1 DEF HistoryTypes
<1>4. HistoryTypes'
  <2>1. snaps' \subseteq History!Snapshots
    BY <1>1, <1>3 DEF HistoryTypes
  <2>2. latest' \in [History!Homes -> History!Snapshots \cup {None}]
    BY <1>0, <1>1, <2>1 DEF HistoryTypes
  <2> QED BY <1>1, <2>1, <2>2 DEF HistoryTypes
<1>5. Store'
  <2>1. \A x \in snaps' : /\ x.content # {} /\ x.content \subseteq wrote
                          /\ x.source # Canonical => x.source \in terminal
                          /\ x.from = Brief(lineage[x.source])
    BY <1>1, <1>2 DEF Store
  <2>2. \A x \in snaps' : place[x.source] \in {"root", "tomb"} /\ x.source \notin shorn =>
             x.content \subseteq content[x.source]
    BY <1>1, <1>2 DEF Store
  <2>3. ASSUME NEW x \in snaps'
        PROVE  /\ latest'[x.source] \in snaps' /\ latest'[x.source].source = x.source
               /\ x.source \notin shorn => x.content \subseteq latest'[x.source].content
    <3>1. CASE x.source = h
      BY <1>0, <1>9, <3>1
    <3>2. CASE x.source # h
      <4>1. x \in snaps /\ x.source \in History!Homes
        BY <1>1, <1>2, <3>2, SnapshotsTyped
      <4>2. latest'[x.source] = latest[x.source]
        BY <1>9, <3>2, <4>1
      <4> QED BY <1>1, <4>1, <4>2 DEF Store
    <3> QED BY <3>1, <3>2
  <2>5. \A x \in shorn : \E y \in snaps' : y.source = x
    BY <1>1 DEF Store
  <2>4. \A x \in History!Homes : lineage[x] # None => lineage[x] \in snaps'
    BY <1>1 DEF Store
  <2> QED BY <1>1, <2>1, <2>2, <2>3, <2>4, <2>5 DEF Store, Brief
<1>6. History!NoHistoryLost'
  <2>1. {x.content : x \in snaps'} = {x.content : x \in snaps} \cup {content[h]}
    BY <1>2
  <2>2. UNION ({content[x] : x \in History!Homes} \cup {x.content : x \in snaps'})
          = UNION ({content[x] : x \in History!Homes} \cup {x.content : x \in snaps})
    BY <2>1
  <2>3. {content'[x] : x \in History!Homes} = {content[x] : x \in History!Homes} /\ wrote' = wrote
    OBVIOUS
  <2>4. wrote = UNION ({content[x] : x \in History!Homes} \cup {x.content : x \in snaps})
    BY <1>1 DEF History!NoHistoryLost
  <2>5. wrote' = UNION ({content'[x] : x \in History!Homes} \cup {x.content : x \in snaps'})
    BY <2>2, <2>3, <2>4
  <2> QED BY <2>5 DEF History!NoHistoryLost
<1>7. ASSUME torn' = {}, shorn' = {}
      PROVE  ((\A x \in History!Homes : Prefix(x) /\ Grown(x)) /\ Chain /\ AppKept)'
  <2>1. (\A x \in History!Homes : Prefix(x) /\ Grown(x)) /\ Chain /\ AppKept
    BY <1>1, <1>7 DEF Sound
  <2>2. \A x \in History!Homes : \A k \in Contents(x)' : k \in Contents(x)
    BY <1>2 DEF Contents
  <2>3. \A x : Filled(x)' <=> Filled(x)
    BY <1>2 DEF Filled
  <2>4. \A x \in History!Homes : Prefix(x)'
    BY <2>1, <2>2 DEF Prefix, Before
  <2>5. AppKept'
    <3>1. Sessions \subseteq History!Homes
      BY DEF History!Homes
    <3> QED BY <2>1, <2>2, <3>1 DEF AppKept
  <2>6. ASSUME NEW x \in History!Homes PROVE Grown(x)'
    <3>1. Filled(x)' <=> Filled(x)
      BY <2>3
    <3>2. Grown(x)
      BY <2>1
    <3>3. place[x] \in {"tomb", "gone"} =>
               \E y \in snaps : y.source = x /\ (x \in wrote => x \in y.content)
      BY <3>2 DEF Grown
    <3> QED BY <3>1, <3>2, <3>3 DEF Grown
  <2>7. Chain'
    <3>2. \A x, y : Restoring(x, y) => Restoring(x, y)'
      BY DEF Restoring
    <3>4. \A p \in Launchers : run'[p].at \in Resuming =>
            \A y \in History!Homes : Before(run'[p].home, y) => place'[y] = "none"
      BY <2>1 DEF Chain
    <3>5. \A p \in Launchers : run'[p].at = "receipt" => run'[p] = run[p]
      BY DEF Resuming
    <3>6. \A p \in Launchers : run'[p].at = "receipt" =>
            \A y \in History!Homes : Filled(y)' /\ y # run'[p].home =>
               Before(y, run'[p].home) /\ (y = run'[p].snap.source \/ Before(y, run'[p].snap.source))
      BY <2>1, <2>3, <3>5 DEF Chain
    <3> QED BY <2>1, <2>3, <3>2, <3>4, <3>6 DEF Chain, Before
  <2> QED BY <2>4, <2>5, <2>6, <2>7
<1>8. Sound'
  BY <1>7 DEF Sound
<1> QED BY <1>4, <1>5, <1>6, <1>8 DEF HistoryInv

LEMMA PublishKeeps ==
  ASSUME History!HistoryAssumption, HistoryInv, NEW p \in History!Procs, History!Publish(p)
  PROVE  HistoryInv'
<1>0. PICK h, s : h = run[p].home /\ s = History!Snapshot(h, run[p].before, lineage[h])
  OBVIOUS
<1>1. HistoryTypes /\ Store /\ (\A q \in History!Procs : Place(q))
        /\ (p \in Keepers => p \notin Launchers)
  BY DEF HistoryInv, History!HistoryAssumption
<1>2. run[p].at = "publish" /\ UNCHANGED <<History!homes, wrote, torn, shorn, mishaps>>
  BY DEF History!Publish, History!At
<1>3. CASE History!Ends(p) /\ UNCHANGED <<snaps, latest>>
  BY <1>2, <1>3, Fails DEF History!homes
<1>4. CASE ~(History!Ends(p) /\ UNCHANGED <<snaps, latest>>)
  <2>1. /\ content[h] = run[p].before /\ snaps' = snaps \cup {s} /\ idLease' = idLease
        /\ run' = [run EXCEPT ![p].at = IF p \in Keepers THEN "rename" ELSE "create",
                              ![p].before = {}, ![p].snap = IF p \in Keepers THEN s ELSE None]
        /\ lease' = IF p \in Launchers /\ h # Canonical THEN [lease EXCEPT ![h] = Nobody] ELSE lease
    BY <1>0, <1>4 DEF History!Publish, History!Unchanged
  <2>0. PICK t \in History!Succeeds(s) : latest' = [latest EXCEPT ![h] = t]
    BY <1>0, <1>4 DEF History!Publish
  <2>2. /\ h \in History!Homes /\ content[h] # {} /\ (p \in Keepers => h # Canonical) /\ place[h] = "root"
        /\ h # Canonical => lease[h] = p /\ h \in terminal
    BY <1>0, <1>1, <1>2, <2>1 DEF Place, Store
  <2>3. s = History!Snapshot(h, content[h], lineage[h]) /\ s.source = h /\ s.content = content[h]
    BY <1>0, <2>1 DEF History!Snapshot
  <2>4. s \in History!Snapshots
    <3>1. content[h] \in SUBSET History!Writes
      BY <1>1, <2>2 DEF HistoryTypes
    <3>2. Brief(lineage[h]) \in History!Origins \cup {None}
      BY <1>1, <2>2, SnapshotsTyped DEF Brief, History!Origins
    <3>3. s = [source |-> h, content |-> content[h], from |-> Brief(lineage[h])]
      BY <2>3 DEF History!Snapshot, Brief
    <3> QED BY <2>2, <3>1, <3>2, <3>3 DEF History!Snapshots
  <2> DEFINE r == [run[p] EXCEPT !.at = IF p \in Keepers THEN "rename" ELSE "create",
                                 !.before = {}, !.snap = IF p \in Keepers THEN s ELSE None]
  <2>5. run' = [run EXCEPT ![p] = r]
    BY <1>1, <2>1 DEF HistoryTypes
  <2>6. /\ r \in Runs /\ r.home = h /\ r.at = (IF p \in Keepers THEN "rename" ELSE "create")
        /\ r.snap = (IF p \in Keepers THEN s ELSE None)
    BY <1>0, <1>1, <2>4 DEF HistoryTypes, Runs, Steps
  <2> HIDE DEF r
  <2>7. run' \in [History!Procs -> Runs] /\ run'[p] = r /\ \A q \in History!Procs : q # p =>
             run'[q] = run[q]
    BY <1>1, <2>5, <2>6, NewRun
  <2>8. lease' \in [History!Homes -> History!Procs \cup {Nobody}] /\ idLease' \in Launchers \cup {Nobody}
        /\ (p \in Keepers => lease' = lease) /\ \A x \in History!Homes : x # h \/ x = Canonical =>
             lease'[x] = lease[x]
    BY <1>1, <2>1, <2>2 DEF HistoryTypes
  <2>9. ASSUME NEW q \in History!Procs PROVE Place(q)'
    <3>1. CASE q = p /\ p \in Keepers
      <4>1. /\ run'[p].at = "rename" /\ run'[p].home = h /\ run'[p].snap = s
            /\ h \in Sessions /\ lease'[h] = p /\ h \in terminal' /\ place'[h] = "root" /\ s \in snaps'
            /\ content'[h] = s.content /\ p \notin Launchers
        BY <1>1, <1>2, <2>1, <2>2, <2>3, <2>6, <2>7, <2>8, <3>1 DEF History!homes, History!Homes
      <4> QED BY <2>3, <3>1, <4>1 DEF Place, Keeping, Resuming
    <3>2. CASE q = p /\ p \notin Keepers
      BY <1>1, <1>2, <2>1, <2>6, <2>7, <3>2 DEF Place, Keeping, Resuming
    <3>3. CASE q # p
      <4>1. (run[q].at \in Keeping \cup Resuming /\ run[q].home \in Sessions) =>
              lease[run[q].home] = q /\ lease'[run[q].home] = lease[run[q].home]
        BY <1>1, <2>2, <2>8, <3>3, OwnHome DEF History!Homes
      <4>2. Frame(q)
        BY <1>2, <2>1, <2>7, <3>3, <4>1 DEF Frame, History!homes
      <4> QED BY <1>1, <4>2, OthersKept
    <3> QED BY <3>1, <3>2, <3>3
  <2>10. \A q \in Launchers :
              (run'[q].at \in Resuming => run'[q] = run[q]) /\ (run[q].at = "receipt" => run'[q] = run[q])
    BY <1>2, <2>6, <2>7 DEF History!Procs, Resuming
  <2> QED BY <1>2, <2>0, <2>1, <2>2, <2>3, <2>7, <2>8, <2>9, <2>10, Published DEF History!homes
<1> QED BY <1>3, <1>4

LEMMA CreateKeeps ==
  ASSUME History!HistoryAssumption, HistoryInv, NEW p \in Launchers, History!Create(p)
  PROVE  HistoryInv'
<1>1. /\ HistoryTypes /\ Store /\ History!NoHistoryLost /\ Sound /\ (\A q \in History!Procs : Place(q))
      /\ p \in History!Procs /\ p \notin Keepers
  BY DEF HistoryInv, History!HistoryAssumption, History!Procs
<1>2. run[p].at = "create" /\ UNCHANGED <<content, terminal, lineage, snaps, latest, wrote, torn, shorn, mishaps>>
  BY DEF History!Create, History!At
<1>3. CASE History!Ends(p) /\ UNCHANGED place
  BY <1>1, <1>2, <1>3, Fails
<1>4. ASSUME NEW t, t = (IF run[p].snap # None THEN run[p].snap ELSE History!Decide.snap), t # None,
             NEW s \in Sessions, place[s] = "none", \A r \in Sessions : r < s => place[r] # "none",
             place' = [place EXCEPT ![s] = "root"], lease' = [lease EXCEPT ![s] = p],
         idLease' = idLease,
             run' = [run EXCEPT ![p].at = "restore", ![p].home = s, ![p].snap = t]
      PROVE  HistoryInv'
  <2>1. t \in snaps /\ s \in History!Homes /\ s # Canonical
    <3>1. run[p].snap # None => run[p].snap \in snaps
      BY <1>1 DEF Place
    <3>2. History!Decide.snap # None => History!Resolved
      <4>1. History!Decide.status = "ambiguous" => History!Decide = History!Ambiguous
        BY DEF History!Decide, History!Ambiguous
      <4> QED BY <4>1 DEF History!Resolved, History!Ambiguous
    <3> QED BY <1>1, <1>4, <3>1, <3>2, AnswerIsStored DEF History!Homes, History!HistoryAssumption
  <2>2. content[s] = {} /\ s \notin terminal /\ lineage[s] = None /\ ~Filled(s) /\ \A x \in snaps :
             x.source # s
    BY <1>1, <1>4, <2>1, NotYet DEF Store
  <2> DEFINE r == [run[p] EXCEPT !.at = "restore", !.home = s, !.snap = t]
  <2>3. run' = [run EXCEPT ![p] = r]
    BY <1>1, <1>4 DEF HistoryTypes
  <2>4. r \in Runs /\ r.home = s /\ r.at = "restore" /\ r.snap = t
    BY <1>1, <2>1 DEF HistoryTypes, Runs, Steps
  <2> HIDE DEF r
  <2>5. run' \in [History!Procs -> Runs] /\ run'[p] = r /\ \A q \in History!Procs : q # p =>
             run'[q] = run[q]
    BY <1>1, <2>3, <2>4, NewRun
  <2>6. /\ place' \in [History!Homes -> {"none", "root", "tomb", "gone"}] /\ place'[s] = "root"
        /\ lease' \in [History!Homes -> History!Procs \cup {Nobody}] /\ lease'[s] = p
        /\ \A x \in History!Homes : x # s => place'[x] = place[x] /\ lease'[x] = lease[x]
    BY <1>1, <1>4, <2>1 DEF HistoryTypes
  <2>7. HistoryTypes'
    BY <1>1, <1>2, <1>4, <2>5, <2>6 DEF HistoryTypes
  <2>8. ASSUME NEW q \in History!Procs PROVE Place(q)'
    <3>1. CASE q = p
      BY <1>1, <1>2, <1>4, <2>1, <2>2, <2>4, <2>5, <2>6, <3>1 DEF Place, Keeping, Resuming
    <3>2. CASE q # p
      <4>1. (run[q].at \in Keeping \cup Resuming /\ run[q].home \in Sessions) =>
              run[q].home # s /\ run[q].home \in History!Homes
        BY <1>1, <1>4, OwnHome DEF History!Homes
      <4>2. Frame(q)
        BY <1>2, <1>4, <2>5, <2>6, <3>2, <4>1 DEF Frame
      <4> QED BY <1>1, <4>2, OthersKept
    <3> QED BY <3>1, <3>2
  <2>9. Store'
    <3>1. \A x \in History!Homes : place'[x] = place[x] \/ (x = s /\ place'[x] = "root")
      BY <2>6
    <3>2. \A x \in snaps : x.source \in History!Homes /\ x.source # s
      BY <1>1, <2>2, SnapshotsTyped
    <3>3. \A x \in snaps : place'[x.source] = place[x.source]
      BY <3>2, <2>6
    <3>4. \A x \in History!Homes :
               (place'[x] \in {"none", "gone"} => content[x] = {})
                 /\ (place'[x] \in {"tomb", "gone"} => x \in terminal)
      BY <1>1, <3>1 DEF Store
    <3>5. \A x \in Sessions : place'[x] = "none" => x \notin terminal /\ lineage[x] = None
      BY <1>1, <3>1 DEF Store, History!Homes
    <3>6. place'[Canonical] = "root"
      BY <1>1, <3>1 DEF Store, History!Homes
    <3>7. \A x \in snaps : place'[x.source] \in {"root", "tomb"} /\ x.source \notin shorn =>
               x.content \subseteq content[x.source]
      BY <1>1, <3>3 DEF Store
    <3> QED BY <1>1, <1>2, <3>4, <3>5, <3>6, <3>7 DEF Store, Brief
  <2>10. History!NoHistoryLost'
    BY <1>1, <1>2 DEF History!NoHistoryLost
  <2>11. ASSUME torn' = {}, shorn' = {}
         PROVE  ((\A x \in History!Homes : Prefix(x) /\ Grown(x)) /\ Chain /\ AppKept)'
    <3>1. (\A x \in History!Homes : Prefix(x) /\ Grown(x)) /\ Chain /\ AppKept
      BY <1>1, <1>2, <2>11 DEF Sound
    <3>2. (\A x \in History!Homes : Prefix(x))' /\ AppKept'
      BY <1>2, <3>1 DEF Prefix, Contents, AppKept, Before
    <3>3. \A x : Filled(x)' <=> Filled(x)
      BY <1>2 DEF Filled
    <3>4. Grown(s)'
      BY <1>2, <2>2, <2>6, <3>3 DEF Grown
    <3>5. ASSUME NEW x \in History!Homes, x # s PROVE Grown(x)'
      BY <1>2, <2>6, <3>1, <3>5 DEF Grown, Filled
    <3>6. Chain'
      <4>1. \A q \in Launchers : q # p => run[q].at \in {"idle", "lease"}
        BY <1>1, <1>2, OnlyOne
      <4>2. \A q \in Launchers : run'[q].at \in Resuming => q = p
        BY <2>5, <4>1 DEF History!Procs, Resuming
      <4>3. \A x, y : ~Restoring(x, y) /\ ~Restoring(x, y)'
        BY <1>2, <2>4, <2>5, <4>1, <4>2 DEF Restoring, Resuming
      <4>4. \A x \in History!Homes : place[x] # "none" => place'[x] # "none"
        BY <2>6
      <4>5. \A y \in History!Homes : Before(s, y) => place'[y] = "none"
        BY <1>4, <2>1, <2>6, <3>1, Order DEF Chain, Before
      <4>6. \A x, y \in Sessions : place'[y] # "none" /\ x < y => place'[x] # "none"
        BY <1>4, <2>6, <3>1, <4>4 DEF Chain, History!Homes
      <4>7. \A q \in Launchers : run'[q].at # "receipt"
        BY <2>4, <2>5, <4>2 DEF Resuming
      <4>8. \A q \in Launchers : run'[q].at \in Resuming => run'[q].home = s
        BY <2>4, <2>5, <4>2
      <4> QED BY <1>2, <3>1, <3>3, <4>3, <4>5, <4>6, <4>7, <4>8 DEF Chain, Before
    <3> QED BY <3>2, <3>4, <3>5, <3>6
  <2>12. Sound'
    BY <2>11 DEF Sound
  <2> QED BY <2>7, <2>8, <2>9, <2>10, <2>12 DEF HistoryInv
<1>5. \/ History!Ends(p) /\ UNCHANGED place
      \/ \E t : /\ t = (IF run[p].snap # None THEN run[p].snap ELSE History!Decide.snap) /\ t # None
                /\ \E s \in Sessions :
                     /\ place[s] = "none" /\ (\A r \in Sessions : r < s => place[r] # "none")
                     /\ place' = [place EXCEPT ![s] = "root"]
                     /\ lease' = [lease EXCEPT ![s] = p] /\ idLease' = idLease
                     /\ run' = [run EXCEPT ![p].at = "restore", ![p].home = s, ![p].snap = t]
  BY DEF History!Create
<1> QED BY <1>3, <1>4, <1>5

\* What is answered is taken into a home that nobody has written to.
LEMMA Restored ==
  ASSUME History!HistoryAssumption, HistoryInv,
         UNCHANGED <<place, terminal, lineage, snaps, latest, History!leases, wrote, torn, shorn>>,
         NEW p \in Launchers, run[p].at = "restore", NEW s, s = run[p].home, NEW t, t = run[p].snap,
         History!Resolved, History!Decide.snap = t,
         NEW r \in Runs, r.at = "receipt", r.home = s, r.snap = t, run' = [run EXCEPT ![p] = r],
         content' = [content EXCEPT ![s] = t.content]
  PROVE  HistoryInv'
<1>1. /\ HistoryTypes /\ Store /\ History!NoHistoryLost /\ Sound /\ (\A q \in History!Procs : Place(q))
      /\ p \in History!Procs /\ p \notin Keepers
  BY DEF HistoryInv, History!HistoryAssumption, History!Procs
<1>2. /\ s \in Sessions /\ lease[s] = p /\ s \notin terminal /\ place[s] = "root" /\ content[s] = {}
      /\ t # None /\ t \in snaps /\ lineage[s] = None /\ s \in History!Homes /\ s # Canonical
  BY <1>1 DEF Place, Resuming, History!Homes, History!HistoryAssumption
<1>3. t.content # {} /\ t.content \subseteq wrote /\ t.content \subseteq History!Writes
        /\ t.source \in History!Homes
  BY <1>1, <1>2, SnapshotsTyped DEF Store
<1>4. (\A x \in snaps : x.source # s) /\ ~Filled(s)
  BY <1>1, <1>2, NotYet DEF Filled
<1>5. run' \in [History!Procs -> Runs] /\ run'[p] = r /\ \A q \in History!Procs : q # p =>
           run'[q] = run[q]
  BY <1>1, NewRun
<1>6. content'[s] = t.content /\ \A x \in History!Homes : x # s => content'[x] = content[x]
  BY <1>1, <1>2 DEF HistoryTypes
<1>7. HistoryTypes'
  BY <1>1, <1>3, <1>5 DEF HistoryTypes, History!leases
<1>8. ASSUME NEW q \in History!Procs PROVE Place(q)'
  <2>1. CASE q = p
    <3>1. idLease = p
      BY <1>1, OnlyOne
    <3> QED BY <1>1, <1>2, <1>5, <1>6, <2>1, <3>1 DEF Place, Keeping, Resuming, History!leases
  <2>2. CASE q # p
    <3>1. (run[q].at \in Keeping \cup Resuming /\ run[q].home \in Sessions) =>
            run[q].home # s /\ run[q].home \in History!Homes
      BY <1>1, <1>2, <2>2, OwnHome DEF History!Homes
    <3>2. Frame(q)
      BY <1>5, <1>6, <2>2, <3>1 DEF Frame, History!leases
    <3> QED BY <1>1, <3>2, OthersKept
  <2> QED BY <2>1, <2>2
<1>9. Store'
  <2>1. \A x \in History!Homes :
             content'[x] \subseteq wrote /\ (place[x] \in {"none", "gone"} => content'[x] = {})
    BY <1>1, <1>2, <1>3, <1>6 DEF Store
  <2>2. \A x \in snaps : content'[x.source] = content[x.source]
    BY <1>1, <1>4, <1>6, SnapshotsTyped
  <2>3. \A x \in snaps : place[x.source] \in {"root", "tomb"} /\ x.source \notin shorn =>
             x.content \subseteq content'[x.source]
    BY <1>1, <2>2 DEF Store
  <2> QED BY <1>1, <2>1, <2>3 DEF Store, Brief
<1>10. History!NoHistoryLost'
  <2>1. wrote = UNION ({content[x] : x \in History!Homes} \cup {x.content : x \in snaps})
    BY <1>1 DEF History!NoHistoryLost
  <2>2. t.content \in {x.content : x \in snaps}
    BY <1>2
  <2>3. \A x \in History!Homes : content'[x] = content[x] \/ (content[x] = {} /\ content'[x] = t.content)
    BY <1>2, <1>6
  <2>4. wrote = UNION ({content'[x] : x \in History!Homes} \cup {x.content : x \in snaps})
    BY <2>1, <2>2, <2>3
  <2> QED BY <2>4 DEF History!NoHistoryLost
<1>11. ASSUME torn' = {}, shorn' = {}
       PROVE  ((\A x \in History!Homes : Prefix(x) /\ Grown(x)) /\ Chain /\ AppKept)'
  <2>1. (\A x \in History!Homes : Prefix(x) /\ Grown(x)) /\ Chain /\ AppKept /\ torn = {} /\ shorn = {}
    BY <1>1, <1>11 DEF Sound
  <2>2. \A q \in Launchers : q # p => run[q].at \in {"idle", "lease"}
    BY <1>1, OnlyOne
  <2>3. \A q \in Launchers : run[q].at # "receipt"
    BY <2>2
  <2>4. PICK d : d = History!Decide
    OBVIOUS
  <2>5. d.home = t.source /\ FilledLast(t.source) /\ History!LineageValid
          /\ t.content \in Contents(t.source)
        /\ (t.source \in wrote => t.source \in t.content)
        /\ (t.source = Canonical => t.content = content[Canonical])
    <3>1. /\ FilledLast(d.home) /\ History!LineageValid
          /\ \/ d.status = "live" /\ d.home \in History!Live /\ t.source = d.home /\ t.content = content[d.home]
             \/ d.status = "snapshot" /\ d.home \notin History!Live /\ t.source = d.home
                /\ (d.home \in wrote => d.home \in t.content)
      BY <1>1, <1>2, <2>1, <2>3, <2>4, Answer
    <3>2. t.content \in Contents(t.source)
      BY <1>2 DEF Contents
    <3>3. t.source = Canonical => t.source \in History!Live
      BY <1>1, <1>2, <1>3, <2>1 DEF History!Live, Grown, Store, History!Homes
    <3>4. t.source \in History!Live /\ t.source \in wrote => t.source \in content[t.source]
      BY <2>1 DEF History!Live, Grown, Filled
    <3> QED BY <3>1, <3>2, <3>3, <3>4
  <2>6. wrote \cap History!Homes \subseteq t.content /\ wrote \ {Outsider} \subseteq t.content
    BY <1>1, <2>1, <2>3, <2>5, AnswerIsComplete
  <2>7. \A x \in History!Homes : Filled(x) => Before(x, s)
    <3>1. ASSUME NEW x \in History!Homes, Before(s, x) PROVE ~Filled(x)
      <4>1. place[x] = "none" /\ x \in Sessions
        BY <2>1, <3>1 DEF Chain, Resuming, Before
      <4> QED BY <1>1, <4>1, NotYet
    <3> QED BY <1>2, <1>4, <3>1, Order
  <2>8. \A x \in History!Homes : Filled(x)' <=> (Filled(x) \/ x = s)
    BY <1>3, <1>6 DEF Filled
  <2>9. s \notin wrote
    BY <1>2, <1>4, <2>1 DEF Chain
  <2>10. \A x \in History!Homes : \A k \in Contents(x)' : k \in Contents(x) \/ (x = s /\ k = t.content)
    BY <1>4, <1>6 DEF Contents
  <2>11. ASSUME NEW x \in History!Homes PROVE Prefix(x)'
    <3>1. ASSUME NEW k \in Contents(x)'
          PROVE  /\ wrote \cap {Canonical} \subseteq k
                 /\ \A y \in wrote \cap Sessions : Before(y, x) => y \in k
                 /\ \A y \in k \cap Sessions : y = x \/ Before(y, x)
      <4>1. CASE k \in Contents(x)
        BY <2>1, <4>1 DEF Prefix
      <4>2. CASE x = s /\ k = t.content
        <5>1. \A y \in k \cap Sessions : Filled(y)
          BY <1>3, <2>1, <4>2 DEF Chain
        <5> QED BY <2>6, <2>7, <4>2, <5>1 DEF History!Homes
      <4> QED BY <2>10, <4>1, <4>2
    <3> QED BY <3>1 DEF Prefix, Before
  <2>12. ASSUME NEW x \in History!Homes PROVE Grown(x)'
    <3>1. CASE x = s
      BY <1>2, <1>4, <2>9, <3>1 DEF Grown
    <3>2. CASE x # s
      BY <1>6, <2>1, <3>2 DEF Grown, Filled
    <3> QED BY <3>1, <3>2
  <2>13. Chain'
    <3>1. \A q \in Launchers : (run'[q].at \in Resuming => q = p) /\ (run'[q].at = "receipt" => q = p)
      BY <1>5, <2>2 DEF History!Procs, Resuming
    <3>2. Restoring(t.source, s)'
      BY <1>5 DEF Restoring
    <3>3. \A x, y : ~Restoring(x, y)
      BY <2>3 DEF Restoring
    <3>4. ASSUME NEW x \in History!Homes, NEW y \in History!Homes, Filled(x)', Filled(y)', Before(x, y)
          PROVE  (\E z \in History!Homes : lineage[z] # None /\ lineage[z].source = x) \/ Restoring(x, y)'
      <4>1. CASE Filled(x) /\ Filled(y)
        BY <2>1, <3>3, <3>4, <4>1 DEF Chain
      <4>2. CASE x = s
        <5>1. y # s /\ ~Before(y, s)
          BY <1>2, <3>4, <4>2, Order
        <5> QED BY <2>7, <2>8, <3>4, <5>1
      <4>3. CASE y = s /\ Filled(x)
        <5>1. CASE x = t.source
          BY <3>2, <4>3, <5>1
        <5>2. CASE x # t.source
          <6>1. Before(x, t.source) /\ Filled(t.source)
            BY <2>5, <4>3, <5>2 DEF FilledLast
          <6> QED BY <1>3, <2>1, <3>3, <4>3, <6>1 DEF Chain
        <5> QED BY <5>1, <5>2
      <4> QED BY <2>8, <3>4, <4>1, <4>2, <4>3
    <3>5. \A q \in Launchers : run'[q].at \in Resuming =>
            \A y \in History!Homes : Before(run'[q].home, y) => place'[y] = "none"
      BY <1>5, <2>1, <3>1 DEF Chain, Resuming
    <3>6. ASSUME NEW y \in History!Homes, Filled(y)', y # s
          PROVE  Before(y, s) /\ (y = t.source \/ Before(y, t.source))
      BY <2>5, <2>7, <2>8, <3>6 DEF FilledLast
    <3>7. \A q \in Launchers : run'[q].at = "receipt" =>
            \A y \in History!Homes : Filled(y)' /\ y # run'[q].home =>
               Before(y, run'[q].home) /\ (y = run'[q].snap.source \/ Before(y, run'[q].snap.source))
      BY <1>5, <3>1, <3>6
    <3>8. (\A x \in Sessions : x \in wrote => Filled(x)') /\ (Canonical \in wrote <=> Filled(Canonical)')
      BY <1>2, <2>1, <2>8 DEF Chain, History!Homes
    <3> QED BY <2>1, <3>4, <3>5, <3>7, <3>8 DEF Chain, Before
  <2>14. AppKept'
    <3>1. content'[Canonical] = content[Canonical]
      BY <1>2, <1>6 DEF History!Homes
    <3>2. ASSUME NEW z \in History!Homes, lineage[z] # None, lineage[z].source = Canonical,
                 App \in lineage[z].content,
                 NEW y \in Sessions, NEW k \in Contents(y)'
          PROVE  App \in k
      <4>1. App \in wrote /\ App # Outsider
        BY <1>1, <3>2 DEF Store, History!HistoryAssumption
      <4>2. k \in Contents(y) \/ k = t.content
        BY <2>10 DEF History!Homes
      <4> QED BY <2>1, <2>6, <3>2, <4>1, <4>2 DEF AppKept
    <3> QED BY <2>1, <3>1, <3>2 DEF AppKept
  <2> QED BY <2>11, <2>12, <2>13, <2>14
<1>12. Sound'
  BY <1>11 DEF Sound
<1> QED BY <1>7, <1>8, <1>9, <1>10, <1>12 DEF HistoryInv

LEMMA RestoreKeeps ==
  ASSUME History!HistoryAssumption, HistoryInv, NEW p \in Launchers, History!Restore(p)
  PROVE  HistoryInv'
<1>0. PICK s, t : s = run[p].home /\ t = run[p].snap
  OBVIOUS
<1>1. HistoryTypes /\ p \in History!Procs /\ run[p].at = "restore"
      /\ UNCHANGED <<place, terminal, lineage, snaps, latest, wrote, torn, shorn, mishaps>>
  BY DEF HistoryInv, History!Procs, History!Restore, History!At
<1>2. CASE History!Ends(p) /\ UNCHANGED content
  BY <1>1, <1>2, Fails
<1>3. CASE ~(History!Ends(p) /\ UNCHANGED content)
  <2> DEFINE r == [run[p] EXCEPT !.at = "receipt"]
  <2>1. /\ History!Resolved /\ History!Decide.snap = t /\ UNCHANGED History!leases
        /\ run' = [run EXCEPT ![p] = r]
        /\ content' = [content EXCEPT ![s] = t.content]
    BY <1>0, <1>1, <1>3 DEF History!Restore, History!Selected, History!Current, History!Goes,
       HistoryTypes
  <2>2. r \in Runs /\ r.at = "receipt" /\ r.home = s /\ r.snap = t
    BY <1>0, <1>1 DEF HistoryTypes, Runs, Steps
  <2> HIDE DEF r
  <2> QED BY <1>0, <1>1, <2>1, <2>2, Restored
<1> QED BY <1>2, <1>3

LEMMA ReceiptKeeps ==
  ASSUME History!HistoryAssumption, HistoryInv, NEW p \in Launchers, History!Receipt(p)
  PROVE  HistoryInv'
<1>0. PICK s, t : s = run[p].home /\ t = run[p].snap
  OBVIOUS
<1>1. /\ HistoryTypes /\ Store /\ History!NoHistoryLost /\ Sound /\ (\A q \in History!Procs : Place(q))
      /\ p \in History!Procs /\ p \notin Keepers
  BY DEF HistoryInv, History!HistoryAssumption, History!Procs
<1> DEFINE r == [run[p] EXCEPT !.at = "run", !.snap = None]
<1>2. /\ run[p].at = "receipt" /\ run' = [run EXCEPT ![p] = r] /\ lineage' = [lineage EXCEPT ![s] = t]
      /\ UNCHANGED <<place, content, terminal, snaps, latest, History!leases, wrote, torn, shorn, mishaps>>
  BY <1>0, <1>1 DEF History!Receipt, History!At, HistoryTypes
<1>3. r \in Runs /\ r.at = "run" /\ r.home = s /\ r.snap = None
  BY <1>0, <1>1 DEF HistoryTypes, Runs, Steps
<1> HIDE DEF r
<1>4. run' \in [History!Procs -> Runs] /\ run'[p] = r /\ \A q \in History!Procs : q # p =>
           run'[q] = run[q]
  BY <1>1, <1>2, <1>3, NewRun
<1>5. /\ s \in Sessions /\ lease[s] = p /\ s \notin terminal /\ place[s] = "root"
      /\ t.content \subseteq content[s] /\ t # None /\ t \in snaps /\ lineage[s] = None
      /\ s \in History!Homes /\ s # Canonical
  BY <1>0, <1>1, <1>2 DEF Place, Resuming, History!Homes, History!HistoryAssumption
<1>6. /\ t \in History!Snapshots /\ t.source \in History!Homes /\ t.content # {} /\ Filled(t.source)
      /\ \A x \in snaps : x.source # s
  BY <1>1, <1>5, SnapshotsTyped, NotYet DEF Store, Filled
<1>7. lineage'[s] = t /\ \A x \in History!Homes : x # s => lineage'[x] = lineage[x]
  BY <1>1, <1>2, <1>5 DEF HistoryTypes
<1>8. HistoryTypes'
  BY <1>1, <1>2, <1>4, <1>6 DEF HistoryTypes, History!leases
<1>9. ASSUME NEW q \in History!Procs PROVE Place(q)'
  <2>1. CASE q = p
    <3>1. idLease = p
      BY <1>1, <1>2, OnlyOne
    <3> QED BY <1>1, <1>2, <1>3, <1>4, <1>5, <1>7, <2>1, <3>1 DEF Place, Keeping, Resuming,
       History!leases
  <2>2. CASE q # p
    <3>1. (run[q].at \in Keeping \cup Resuming /\ run[q].home \in Sessions) =>
            run[q].home # s /\ run[q].home \in History!Homes
      BY <1>1, <1>5, <2>2, OwnHome DEF History!Homes
    <3>2. Frame(q)
      BY <1>2, <1>4, <1>7, <2>2, <3>1 DEF Frame, History!leases
    <3> QED BY <1>1, <3>2, OthersKept
  <2> QED BY <2>1, <2>2
<1>10. Store'
  <2>1. \A x \in snaps : lineage'[x.source] = lineage[x.source]
    BY <1>1, <1>6, <1>7, SnapshotsTyped
  <2>2. \A x \in History!Homes : lineage'[x] # None => lineage'[x] \in snaps
    BY <1>1, <1>5, <1>7 DEF Store
  <2>3. \A x \in Sessions : place[x] = "none" => x \notin terminal /\ lineage'[x] = None
    BY <1>1, <1>5, <1>7 DEF Store, History!Homes
  <2>4. lineage'[Canonical] = None
    BY <1>1, <1>5, <1>7 DEF Store, History!Homes
  <2>5. \A x \in snaps : x.from = Brief(lineage'[x.source])
    BY <1>1, <2>1 DEF Store
  <2>6. \A x \in snaps : /\ x.content # {} /\ x.content \subseteq wrote
                         /\ x.source # Canonical => x.source \in terminal
    BY <1>1 DEF Store
  <2>7. \A x \in snaps' : /\ latest'[x.source] \in snaps' /\ latest'[x.source].source = x.source
                          /\ x.source \notin shorn' => x.content \subseteq latest'[x.source].content
    BY <1>1, <1>2 DEF Store
  <2>8. /\ \A x \in History!Homes : content'[x] \subseteq wrote'
        /\ \A x \in History!Homes : place'[x] \in {"none", "gone"} => content'[x] = {}
        /\ \A x \in History!Homes : place'[x] \in {"tomb", "gone"} => x \in terminal'
        /\ place'[Canonical] = "root"
        /\ \A x \in shorn' : \E y \in snaps' : y.source = x
        /\ \A x \in snaps' : place'[x.source] \in {"root", "tomb"} /\ x.source \notin shorn' =>
             x.content \subseteq content'[x.source]
    BY <1>1, <1>2 DEF Store
  <2> QED BY <1>2, <2>2, <2>3, <2>4, <2>5, <2>6, <2>7, <2>8 DEF Store
<1>11. History!NoHistoryLost'
  BY <1>1, <1>2 DEF History!NoHistoryLost
<1>12. ASSUME torn' = {}, shorn' = {}
       PROVE  ((\A x \in History!Homes : Prefix(x) /\ Grown(x)) /\ Chain /\ AppKept)'
  <2>1. (\A x \in History!Homes : Prefix(x) /\ Grown(x)) /\ Chain /\ AppKept
    BY <1>1, <1>2, <1>12 DEF Sound
  <2>2. \A q \in Launchers : q # p => run[q].at \in {"idle", "lease"}
    BY <1>1, <1>2, OnlyOne
  <2>3. \A y \in History!Homes : Filled(y) /\ y # s =>
             Before(y, s) /\ (y = t.source \/ Before(y, t.source))
    BY <1>0, <1>2, <2>1 DEF Chain
  <2>4. Before(t.source, s)
    BY <1>5, <1>6, <2>3
  <2>5. (\A x : Filled(x)' <=> Filled(x)) /\ \A x \in History!Homes : Prefix(x)'
    BY <1>2, <2>1 DEF Filled, Prefix, Contents, Before
  <2>6. ASSUME NEW x \in History!Homes PROVE Grown(x)'
    <3>1. Grown(x) /\ (lineage'[x] # None => lineage[x] # None \/ x = s)
      BY <1>7, <2>1
    <3>2. content[s] # {}
      BY <1>5, <1>6
    <3> QED BY <1>2, <2>5, <3>1, <3>2 DEF Grown
  <2>7. Chain'
    <3>1. \A q \in Launchers : (run'[q].at \in Resuming => q = p) /\ run'[q].at # "receipt"
      BY <1>3, <1>4, <2>2 DEF History!Procs, Resuming
    <3>2. \A x \in History!Homes : lineage'[x] # None => Before(lineage'[x].source, x)
      BY <1>7, <2>1, <2>4 DEF Chain
    <3>3. ASSUME NEW x \in History!Homes, NEW y \in History!Homes, Filled(x), Filled(y), Before(x, y)
          PROVE  \E z \in History!Homes : lineage'[z] # None /\ lineage'[z].source = x
      <4>1. CASE \E z \in History!Homes : lineage[z] # None /\ lineage[z].source = x
        BY <1>5, <1>7, <4>1
      <4>2. CASE Restoring(x, y)
        <5>1. x = t.source
          BY <1>0, <2>2, <4>2 DEF Restoring
        <5> QED BY <1>5, <1>7, <5>1
      <4> QED BY <2>1, <3>3, <4>1, <4>2 DEF Chain
    <3>4. \A q \in Launchers : run'[q].at \in Resuming =>
            \A y \in History!Homes : Before(run'[q].home, y) => place[y] = "none"
      BY <1>0, <1>2, <1>3, <1>4, <2>1, <3>1 DEF Chain, Resuming
    <3> QED BY <1>2, <2>1, <2>5, <3>1, <3>2, <3>3, <3>4 DEF Chain, Before
  <2>8. AppKept'
    <3>1. ASSUME NEW z \in History!Homes, lineage'[z] # None, lineage'[z].source = Canonical,
                 App \in lineage'[z].content,
                 NEW y \in Sessions, NEW k \in Contents(y)
          PROVE  App \in k
      <4>1. CASE z # s
        BY <1>7, <2>1, <3>1, <4>1 DEF AppKept
      <4>2. CASE z = s
        <5>1. t.source = Canonical /\ App \in t.content
          BY <1>7, <3>1, <4>2
        <5>2. Filled(y)
          BY DEF Contents, Filled
        <5>3. y = s
          BY <2>3, <5>1, <5>2 DEF Before, History!Homes, History!HistoryAssumption
        <5>4. k = content[s]
          BY <1>6, <5>3 DEF Contents
        <5> QED BY <1>5, <5>1, <5>4
      <4> QED BY <4>1, <4>2
    <3>2. \A y : Contents(y)' = Contents(y)
      BY <1>2 DEF Contents
    <3> QED BY <1>2, <2>1, <3>1, <3>2 DEF AppKept
  <2> QED BY <2>5, <2>6, <2>7, <2>8
<1>13. Sound'
  BY <1>12 DEF Sound
<1> QED BY <1>8, <1>9, <1>10, <1>11, <1>13 DEF HistoryInv

\* Something is written to a home that is there.
LEMMA Written ==
  ASSUME History!HistoryAssumption, HistoryInv,
         UNCHANGED <<place, terminal, lineage, snaps, latest, History!leases, run, torn, shorn>>,
         NEW h \in History!Homes, NEW w \in History!Writes, place[h] = "root",
         content' = [content EXCEPT ![h] = @ \cup {w}], wrote' = wrote \cup {w},
         \/ /\ h \in Sessions /\ h \notin terminal /\ w = h /\ lineage[h] # None
            /\ \E p \in Launchers : run[p].at = "run" /\ run[p].home = h
         \/ w = App /\ h = Canonical /\ content[h] # {}
         \/ w = Outsider /\ h \in Sessions /\ content[h] # {}
  PROVE  HistoryInv'
<1>1. HistoryTypes /\ Store /\ History!NoHistoryLost /\ Sound /\ \A q \in History!Procs : Place(q)
  BY DEF HistoryInv
<1>2. content'[h] = content[h] \cup {w} /\ \A x \in History!Homes : x # h => content'[x] = content[x]
  BY <1>1 DEF HistoryTypes
<1>3. HistoryTypes'
  BY <1>1 DEF HistoryTypes, History!leases
<1>4. w = h \/ (w \notin History!Homes /\ content[h] # {})
  BY DEF History!HistoryAssumption, History!Homes
<1>5. w = h => h \in Sessions /\ h \notin terminal /\ lineage[h] # None
              /\ \E p \in Launchers : run[p].at = "run" /\ run[p].home = h
  BY <1>4 DEF History!HistoryAssumption, History!Homes
<1>6. ASSUME NEW q \in History!Procs PROVE Place(q)'
  <2>1. CASE run[q].at \in Keeping \cup Resuming /\ run[q].home = h /\ w = h
    <3>1. PICK p \in Launchers : run[p].at = "run" /\ run[p].home = h
      BY <1>5, <2>1
    <3>2. lease[h] = p /\ lease[h] = q
      BY <1>1, <1>5, <2>1, <3>1, OwnHome DEF Resuming, History!Procs
    <3> QED BY <1>1, <3>1, <3>2 DEF Place, Keeping, Resuming, History!leases
  <2>2. CASE ~(run[q].at \in Keeping \cup Resuming /\ run[q].home = h /\ w = h)
    <3>1. Frame(q)
      BY <1>2, <1>4, <2>2 DEF Frame, History!leases, History!Homes
    <3> QED BY <1>1, <3>1, OthersKept
  <2> QED BY <2>1, <2>2
<1>7. Store'
  <2>1. \A x \in History!Homes : content'[x] \subseteq wrote' /\ content[x] \subseteq content'[x]
                         /\ (place[x] \in {"none", "gone"} => content'[x] = {})
    BY <1>1, <1>2 DEF Store
  <2>2. \A x \in snaps : x.content \subseteq wrote'
    BY <1>1 DEF Store
  <2>3. \A x \in snaps : place[x.source] \in {"root", "tomb"} /\ x.source \notin shorn =>
             x.content \subseteq content'[x.source]
    BY <1>1, <2>1, SnapshotsTyped DEF Store
  <2>4. \A x \in snaps : /\ x.content # {} /\ (x.source # Canonical => x.source \in terminal)
                         /\ x.from = Brief(lineage[x.source])
    BY <1>1 DEF Store
  <2>5. \A x \in snaps' : /\ latest'[x.source] \in snaps' /\ latest'[x.source].source = x.source
                          /\ x.source \notin shorn' => x.content \subseteq latest'[x.source].content
    BY <1>1 DEF Store
  <2>6. /\ \A x \in History!Homes : place'[x] \in {"tomb", "gone"} => x \in terminal'
        /\ place'[Canonical] = "root" /\ lineage'[Canonical] = None
        /\ \A x \in Sessions : place'[x] = "none" => x \notin terminal' /\ lineage'[x] = None
        /\ \A x \in History!Homes : lineage'[x] # None => lineage'[x] \in snaps'
        /\ \A x \in shorn' : \E y \in snaps' : y.source = x
    BY <1>1 DEF Store
  <2> QED BY <2>1, <2>2, <2>3, <2>4, <2>5, <2>6 DEF Store
<1>8. History!NoHistoryLost'
  <2>1. wrote = UNION ({content[x] : x \in History!Homes} \cup {x.content : x \in snaps})
    BY <1>1 DEF History!NoHistoryLost
  <2>2. wrote' = UNION ({content'[x] : x \in History!Homes} \cup {x.content : x \in snaps})
    <3>1. \A y : y \in wrote' <=> y = w \/ y \in wrote
      OBVIOUS
    <3>2. \A y : (\E x \in History!Homes : y \in content'[x]) <=> y = w \/ \E x \in History!Homes :
               y \in content[x]
      BY <1>2
    <3>3. \A y : y \in wrote <=> (\E x \in History!Homes : y \in content[x]) \/ \E x \in snaps :
               y \in x.content
      BY <2>1
    <3>4. \A y : y \in UNION ({content'[x] : x \in History!Homes} \cup {x.content : x \in snaps})
                 <=> (\E x \in History!Homes : y \in content'[x]) \/ \E x \in snaps : y \in x.content
      OBVIOUS
    <3> QED BY <3>1, <3>2, <3>3, <3>4
  <2> QED BY <2>2 DEF History!NoHistoryLost
<1>9. ASSUME torn' = {}, shorn' = {}
      PROVE  ((\A x \in History!Homes : Prefix(x) /\ Grown(x)) /\ Chain /\ AppKept)'
  <2>1. (\A x \in History!Homes : Prefix(x) /\ Grown(x)) /\ Chain /\ AppKept
    BY <1>1, <1>9 DEF Sound
  <2>2. content[h] # {}
    BY <1>4, <1>5, <2>1 DEF Grown
  <2>3. \A x \in History!Homes : Filled(x)' <=> Filled(x)
    BY <1>2, <2>2 DEF Filled
  <2>4. w = h => \A y \in History!Homes : Before(h, y) => place[y] = "none" /\ y \in Sessions
    BY <1>5, <2>1 DEF Chain, Resuming, Before
  <2>5. w = h => \A x \in snaps : x.source # h
    BY <1>1, <1>5, NotYet
  <2>6. \A x \in History!Homes : \A k \in Contents(x)' :
             k \in Contents(x) \/ (x = h /\ k = content[h] \cup {w})
    BY <1>2 DEF Contents
  <2>7. content[h] \in Contents(h)
    BY <2>2 DEF Contents
  <2>8. ASSUME NEW x \in History!Homes PROVE Prefix(x)'
    <3>1. ASSUME NEW k \in Contents(x)'
          PROVE  /\ wrote' \cap {Canonical} \subseteq k
                 /\ \A y \in wrote' \cap Sessions : Before(y, x) => y \in k
                 /\ \A y \in k \cap Sessions : y = x \/ Before(y, x)
      <4>1. CASE k \in Contents(x)
        <5>1. w = Canonical => FALSE
          BY <1>4, <1>5 DEF History!Homes, History!HistoryAssumption
        <5>2. w \in Sessions /\ Before(w, x) => w \in k
          <6>1. ASSUME w \in Sessions, Before(w, x) PROVE FALSE
            <7>1. w = h /\ place[x] = "none" /\ x \in Sessions
              BY <1>4, <2>4, <6>1 DEF History!Homes
            <7> QED BY <1>1, <4>1, <7>1, NotYet DEF Contents, Filled
          <6> QED BY <6>1
        <5> QED BY <2>1, <4>1, <5>1, <5>2 DEF Prefix
      <4>2. CASE x = h /\ k = content[h] \cup {w}
        <5>1. w \in Sessions => w = x
          BY <1>4, <4>2 DEF History!Homes
        <5> QED BY <2>1, <2>7, <4>2, <5>1 DEF Prefix
      <4> QED BY <2>6, <4>1, <4>2
    <3> QED BY <3>1 DEF Prefix, Before
  <2>9. ASSUME NEW x \in History!Homes PROVE Grown(x)'
    <3>1. Grown(x) /\ content[x] \subseteq content'[x]
      BY <1>2, <2>1
    <3>2. x \in wrote' => x \in wrote \/ (x = h /\ w = h)
      BY <1>4
    <3>3. place[x] \in {"tomb", "gone"} => x # h
      OBVIOUS
    <3> QED BY <1>2, <2>3, <3>1, <3>2, <3>3 DEF Grown
  <2>10. Chain'
    <3>1. \A x, y : Restoring(x, y)' <=> Restoring(x, y)
      BY DEF Restoring
    <3>2. \A x \in History!Homes : x \in wrote' => Filled(x)
      BY <1>4, <2>1, <2>2 DEF Chain, Filled, History!Homes
    <3>3. Canonical \in wrote => Canonical \in wrote'
      OBVIOUS
    <3> QED BY <2>1, <2>3, <3>1, <3>2, <3>3 DEF Chain, Before, History!Homes
  <2>11. AppKept'
    <3>1. App \in wrote' => App \in content'[Canonical]
      <4>1. CASE w = App
        BY <1>2, <4>1 DEF History!Homes, History!HistoryAssumption
      <4>2. CASE w # App
        BY <1>2, <2>1, <4>2 DEF AppKept, History!Homes
      <4> QED BY <4>1, <4>2
    <3>2. ASSUME NEW z \in History!Homes, lineage[z] # None, lineage[z].source = Canonical,
                 App \in lineage[z].content,
                 NEW y \in Sessions, NEW k \in Contents(y)'
          PROVE  App \in k
      <4>1. k \in Contents(y) \/ (y = h /\ k = content[h] \cup {w})
        BY <2>6 DEF History!Homes
      <4> QED BY <2>1, <2>7, <3>2, <4>1 DEF AppKept
    <3> QED BY <3>1, <3>2 DEF AppKept
  <2> QED BY <2>8, <2>9, <2>10, <2>11
<1>10. Sound'
  BY <1>9 DEF Sound
<1> QED BY <1>3, <1>6, <1>7, <1>8, <1>10 DEF HistoryInv

LEMMA WorkKeeps ==
  ASSUME History!HistoryAssumption, HistoryInv, NEW p \in Launchers, History!Work(p)
  PROVE  HistoryInv'
<1>0. PICK h : h = run[p].home
  OBVIOUS
<1>1. HistoryTypes /\ Place(p) /\ p \in History!Procs
  BY DEF HistoryInv, History!Procs
<1>2. run[p].at = "run" /\ content' = [content EXCEPT ![h] = @ \cup {h}] /\ wrote' = wrote \cup {h}
      /\ UNCHANGED <<place, terminal, lineage, snaps, latest, History!leases, run, torn, shorn>>
  BY <1>0 DEF History!Work, History!At, History!Adds
<1>3. h \in Sessions /\ h \notin terminal /\ place[h] = "root" /\ lineage[h] # None
        /\ h \in History!Homes /\ h \in History!Writes
  BY <1>0, <1>1, <1>2 DEF Place, Resuming, History!Homes, History!Writes
<1> QED BY <1>0, <1>2, <1>3, Written

LEMMA AppWritesKeeps ==
  ASSUME History!HistoryAssumption, HistoryInv, History!AppWrites
  PROVE  HistoryInv'
<1>1. place[Canonical] = "root" /\ Canonical \in History!Homes /\ App \in History!Writes
  BY DEF HistoryInv, Store, History!Homes, History!Writes
<1>2. content[Canonical] # {} /\ content' = [content EXCEPT ![Canonical] = @ \cup {App}]
        /\ wrote' = wrote \cup {App}
      /\ UNCHANGED <<place, terminal, lineage, snaps, latest, History!leases, run, torn, shorn>>
  BY DEF History!AppWrites, History!Adds
<1> QED BY <1>1, <1>2, Written

LEMMA OutsiderWritesKeeps ==
  ASSUME History!HistoryAssumption, HistoryInv, NEW h \in Sessions, History!OutsiderWrites(h)
  PROVE  HistoryInv'
<1>1. h \in History!Homes /\ Outsider \in History!Writes
  BY DEF History!Homes, History!Writes
<1>2. content[h] # {} /\ content' = [content EXCEPT ![h] = @ \cup {Outsider}]
        /\ wrote' = wrote \cup {Outsider}
      /\ place[h] = "root"
      /\ UNCHANGED <<place, terminal, lineage, snaps, latest, History!leases, run, torn, shorn>>
  BY DEF History!OutsiderWrites, History!Adds
<1> QED BY <1>1, <1>2, Written

LEMMA DiesKeeps ==
  ASSUME History!HistoryAssumption, HistoryInv, NEW p \in History!Procs, History!Dies(p)
  PROVE  HistoryInv'
<1>0. PICK s, t : s = run[p].home /\ t = run[p].snap
  OBVIOUS
<1>1. /\ HistoryTypes /\ Store /\ History!NoHistoryLost /\ \A q \in History!Procs : Place(q)
      /\ History!Ends(p) /\ UNCHANGED <<place, terminal, lineage, snaps, latest, wrote>>
  BY DEF HistoryInv, History!Dies
<1>2. CASE run[p].at # "receipt" /\ UNCHANGED <<content, torn, shorn>>
  BY <1>1, <1>2, Fails
<1>4. CASE run[p].at = "remove" /\ ~UNCHANGED <<content, torn, shorn>>
  <2>1. /\ s \in Sessions /\ s \in History!Homes /\ lease[s] = p /\ s \in terminal /\ place[s] = "tomb"
        /\ t \in snaps /\ t.source = s /\ content[s] = t.content
    BY <1>0, <1>1, <1>4 DEF Place, History!Homes
  <2>2. PICK k \in SUBSET content[s] :
             /\ content' = [content EXCEPT ![s] = k]
             /\ shorn' = IF k = content[s] THEN shorn ELSE shorn \cup {s}
    BY <1>0, <1>4 DEF History!Dies, History!At
  <2>3. UNCHANGED torn
    BY <1>0, <1>4 DEF History!Dies, History!At
  <2>4. k # content[s]
    <3> SUFFICES ASSUME k = content[s] PROVE FALSE
      OBVIOUS
    <3>1. content' = content
      BY <1>1, <2>1, <2>2 DEF HistoryTypes
    <3> QED BY <1>4, <2>2, <2>3, <3>1
  <2>5. shorn' = shorn \cup {s}
    BY <2>2, <2>4
  <2>6. content'[s] = k /\ \A x \in History!Homes : x # s => content'[x] = content[x]
    BY <1>1, <2>1, <2>2 DEF HistoryTypes
  <2>7. /\ run' \in [History!Procs -> Runs]
        /\ lease' \in [History!Homes -> History!Procs \cup {Nobody}]
        /\ idLease' \in Launchers \cup {Nobody}
    BY <1>1, GivesBack
  <2>8. \A q \in History!Procs : Place(q)'
    BY <1>1, <2>1, <2>6, OthersKeepTheirs
  <2>9. HistoryTypes'
    <3>1. content' \in [History!Homes -> SUBSET History!Writes]
      BY <1>1, <2>1, <2>2 DEF HistoryTypes
    <3> QED BY <1>1, <2>1, <2>3, <2>5, <2>7, <3>1 DEF HistoryTypes
  <2>10. Store'
    <3>1. \A x \in History!Homes :
               content'[x] \subseteq wrote /\ (place[x] \in {"none", "gone"} => content'[x] = {})
      BY <1>1, <2>1, <2>6 DEF Store
    <3>2. \A x \in snaps : place[x.source] \in {"root", "tomb"} /\ x.source \notin shorn' =>
               x.content \subseteq content'[x.source]
      BY <1>1, <2>5, <2>6, SnapshotsTyped DEF Store
    <3>3. \A x \in shorn' : \E y \in snaps : y.source = x
      BY <1>1, <2>1, <2>5 DEF Store
    <3>4. \A x \in snaps : /\ latest[x.source] \in snaps /\ latest[x.source].source = x.source
                           /\ x.source \notin shorn' => x.content \subseteq latest[x.source].content
      BY <1>1, <2>5 DEF Store
    <3> QED BY <1>1, <3>1, <3>2, <3>3, <3>4 DEF Store, Brief
  <2>11. History!NoHistoryLost'
    <3>1. wrote = UNION ({content[x] : x \in History!Homes} \cup {x.content : x \in snaps})
      BY <1>1 DEF History!NoHistoryLost
    <3>2. t.content \in {x.content : x \in snaps}
      BY <2>1
    <3>3. \A x \in History!Homes :
               content'[x] \subseteq content[x] /\ content[x] \subseteq content'[x] \cup t.content
      BY <2>1, <2>6
    <3>4. wrote = UNION ({content'[x] : x \in History!Homes} \cup {x.content : x \in snaps})
      BY <3>1, <3>2, <3>3
    <3> QED BY <1>1, <3>4 DEF History!NoHistoryLost
  <2>12. Sound'
    BY <2>5 DEF Sound
  <2> QED BY <2>8, <2>9, <2>10, <2>11, <2>12 DEF HistoryInv
<1>3. CASE run[p].at = "receipt"
  <2>1. PICK k \in SUBSET t.content : content' = [content EXCEPT ![s] = k \cup (@ \ t.content)]
    BY <1>0, <1>3 DEF History!Dies, History!At
  <2>2. torn' = torn \cup {s} /\ shorn' = shorn
    BY <1>0, <1>3 DEF History!Dies, History!At
  <2>3. /\ s \in Sessions /\ lease[s] = p /\ s \notin terminal /\ place[s] = "root"
        /\ t.content \subseteq content[s] /\ t # None /\ t \in snaps /\ s \in History!Homes
    BY <1>0, <1>1, <1>3 DEF Place, Resuming, History!Homes
  <2>4. \A x \in snaps : x.source # s
    BY <1>1, <2>3, NotYet
  <2>5. content'[s] = k \cup (content[s] \ t.content) /\ \A x \in History!Homes : x # s =>
             content'[x] = content[x]
    BY <1>1, <2>1, <2>3 DEF HistoryTypes
  <2>6. /\ run' \in [History!Procs -> Runs]
        /\ lease' \in [History!Homes -> History!Procs \cup {Nobody}]
        /\ idLease' \in Launchers \cup {Nobody}
    BY <1>1, GivesBack
  <2>7. \A q \in History!Procs : Place(q)'
    BY <1>1, <2>3, <2>5, OthersKeepTheirs
  <2>8. content'[s] \subseteq content[s]
    BY <2>3, <2>5
  <2>9. HistoryTypes'
    <3>1. content' \in [History!Homes -> SUBSET History!Writes]
      BY <1>1, <2>1, <2>3, <2>5, <2>8 DEF HistoryTypes
    <3> QED BY <1>1, <2>2, <2>3, <2>6, <3>1 DEF HistoryTypes
  <2>10. Store'
    <3>1. \A x \in History!Homes :
               content'[x] \subseteq wrote /\ (place[x] \in {"none", "gone"} => content'[x] = {})
      BY <1>1, <2>3, <2>5, <2>8 DEF Store
    <3>2. \A x \in snaps : place[x.source] \in {"root", "tomb"} /\ x.source \notin shorn =>
               x.content \subseteq content'[x.source]
      BY <1>1, <2>4, <2>5, SnapshotsTyped DEF Store
    <3> QED BY <1>1, <2>2, <3>1, <3>2 DEF Store, Brief
  <2>11. History!NoHistoryLost'
    <3>1. wrote = UNION ({content[x] : x \in History!Homes} \cup {x.content : x \in snaps})
      BY <1>1 DEF History!NoHistoryLost
    <3>2. t.content \in {x.content : x \in snaps}
      BY <2>3
    <3>3. \A x \in History!Homes :
               content'[x] \subseteq content[x] /\ content[x] \subseteq content'[x] \cup t.content
      BY <2>5, <2>8
    <3>4. wrote = UNION ({content'[x] : x \in History!Homes} \cup {x.content : x \in snaps})
      BY <3>1, <3>2, <3>3
    <3> QED BY <1>1, <3>4 DEF History!NoHistoryLost
  <2>12. Sound'
    BY <2>2 DEF Sound
  <2> QED BY <2>7, <2>9, <2>10, <2>11, <2>12 DEF HistoryInv
<1>5. run[p].at = "receipt" \/ UNCHANGED <<content, torn, shorn>> \/ run[p].at = "remove"
  BY DEF History!Dies, History!At
<1> QED BY <1>2, <1>3, <1>4, <1>5

\* Every step keeps the invariant, it holds at first, and it says what is promised.
LEMMA StepKeeps ==
  ASSUME History!HistoryAssumption, HistoryInv, [History!Next]_(History!vars)
  PROVE  HistoryInv'
<1>1. CASE UNCHANGED History!vars
  <2>0. /\ UNCHANGED <<place, content, terminal, lineage, snaps, latest, lease, idLease, run, wrote, torn, shorn>>
        /\ HistoryTypes /\ Store /\ History!NoHistoryLost /\ \A p \in History!Procs : Place(p)
    BY <1>1 DEF HistoryInv, History!vars, History!homes, History!leases
  <2>1. HistoryTypes' /\ Store' /\ History!NoHistoryLost' /\ \A p \in History!Procs : Place(p)'
    <3>1. HistoryTypes' /\ History!NoHistoryLost'
      BY <2>0 DEF HistoryTypes, History!NoHistoryLost
    <3>2. Store'
      BY <2>0 DEF Store, Brief
    <3>3. \A p \in History!Procs : Place(p)'
      BY <2>0 DEF Place
    <3> QED BY <3>1, <3>2, <3>3
  <2>2. Sound'
    BY <1>1, SoundStays DEF HistoryInv, History!vars, History!homes
  <2> QED BY <2>1, <2>2 DEF HistoryInv
<1>2. ASSUME NEW p \in Keepers, \/ History!Rename(p) \/ History!Verify(p) \/ History!Remove(p)
                                \/ \E h \in Sessions : History!Keep(p, h)
      PROVE  HistoryInv'
  BY <1>2, RenameKeeps, VerifyKeeps, RemoveKeeps, KeepKeeps
<1>3. ASSUME NEW p \in Launchers,
             \/ History!Select(p) \/ History!TakeIdLease(p) \/ History!Prepare(p)
             \/ History!Create(p) \/ History!Restore(p) \/ History!Receipt(p) \/ History!Work(p) \/ History!Finish(p)
      PROVE  HistoryInv'
  BY <1>3, SelectKeeps, TakeIdLeaseKeeps, PrepareKeeps, CreateKeeps, RestoreKeeps, ReceiptKeeps,
     WorkKeeps,
     FinishKeeps
<1>4. ASSUME NEW p \in History!Procs, History!Publish(p) \/ History!Dies(p) PROVE HistoryInv'
  BY <1>4, PublishKeeps, DiesKeeps
<1>5. ASSUME NEW s \in Sessions,
             History!RecoverTomb(s) \/ History!OutsiderWrites(s) \/ History!Settle(s) PROVE HistoryInv'
  BY <1>5, RecoverTombKeeps, OutsiderWritesKeeps, SettleKeeps
<1> QED BY <1>1, <1>2, <1>3, <1>4, <1>5, AppWritesKeeps DEF History!Next, History!Step

LEMMA InitKeeps ==
  ASSUME History!HistoryAssumption, History!Init
  PROVE  HistoryInv
<1>1. PICK h \in {Canonical, 1} :
        /\ place = [x \in History!Homes |-> IF x \in {h, Canonical} THEN "root" ELSE "none"]
        /\ content = [x \in History!Homes |-> IF x = h THEN {h} ELSE {}]
        /\ terminal = {h} \ {Canonical} /\ wrote = {h}
  BY DEF History!Init
<1>2. /\ lineage = [x \in History!Homes |-> None] /\ snaps = {}
      /\ lease = [x \in History!Homes |-> Nobody] /\ idLease = Nobody
      /\ run = [p \in History!Procs |-> History!Idle] /\ torn = {} /\ shorn = {}
      /\ latest = [x \in History!Homes |-> None]
  BY DEF History!Init
<1>3. h \in History!Homes /\ Canonical \in History!Homes /\ (h # Canonical => h = 1 /\ 1 \in Sessions)
        /\ Canonical \notin Sessions
  BY DEF History!Homes, History!HistoryAssumption
<1>4. History!Idle \in Runs /\ History!Idle.at = "idle" /\ History!Idle.snap = None
  BY IdleRun
<1>5. HistoryTypes
  BY <1>1, <1>2, <1>3, <1>4 DEF HistoryTypes, History!Writes
<1>6. \A p \in History!Procs : Place(p)
  BY <1>2, <1>4 DEF Place, Keeping, Resuming
<1>7. Store
  BY <1>1, <1>2, <1>3 DEF Store, History!Homes
<1>8. History!NoHistoryLost
  BY <1>1, <1>2, <1>3 DEF History!NoHistoryLost
<1>9. \A x \in History!Homes : Filled(x) <=> x = h
  BY <1>1, <1>2 DEF Filled
<1>10. \A x \in History!Homes : Contents(x) = IF x = h THEN {{h}} ELSE {}
  BY <1>1, <1>2 DEF Contents
<1>11. \A x \in History!Homes : Prefix(x)
  BY <1>1, <1>3, <1>10 DEF Prefix
<1>12. \A x \in History!Homes : Grown(x)
  BY <1>1, <1>2, <1>9 DEF Grown
<1>13. Chain
  <2>1. \A p \in Launchers : run[p].at = "idle"
    BY <1>2, <1>4 DEF History!Procs
  <2>2. \A x, y \in Sessions : place[y] # "none" /\ x < y => place[x] # "none"
    BY <1>1, <1>3 DEF History!Homes, History!HistoryAssumption
  <2>3. \A x \in History!Homes : ~Before(x, x)
    BY Order
  <2> QED BY <1>1, <1>2, <1>3, <1>9, <2>1, <2>2, <2>3 DEF Chain, Resuming, History!Homes
<1>14. AppKept
  BY <1>1, <1>2, <1>3 DEF AppKept, History!HistoryAssumption
<1> QED BY <1>5, <1>6, <1>7, <1>8, <1>11, <1>12, <1>13, <1>14 DEF HistoryInv, Sound

LEMMA InvIsSafe ==
  ASSUME History!HistoryAssumption, HistoryInv
  PROVE  History!HistoryTypeOK /\ History!HistorySafe
<1>1. HistoryTypes /\ Store /\ History!NoHistoryLost /\ Sound /\ \A q \in History!Procs : Place(q)
  BY DEF HistoryInv
<1>2. History!HistoryTypeOK
  BY <1>1, SnapshotsTyped DEF History!HistoryTypeOK, Store, History!Homes
<1>3. History!ForkFree
  <2> SUFFICES ASSUME torn = {}, shorn = {},
                      NEW k \in {content[h] : h \in History!Homes} \cup {s.content : s \in snaps},
                      NEW m \in {content[h] : h \in History!Homes} \cup {s.content : s \in snaps}
               PROVE  k \cap Sessions \subseteq m \/ m \cap Sessions \subseteq k
    BY DEF History!ForkFree
  <2>1. \A j \in {content[h] : h \in History!Homes} \cup {s.content : s \in snaps} :
          j = {} \/ \E x \in History!Homes : j \in Contents(x) /\ j \subseteq wrote
    BY <1>1, SnapshotsTyped DEF Contents, Store
  <2>2. ASSUME NEW x \in History!Homes, k \in Contents(x), k \subseteq wrote, NEW y \in History!Homes,
               m \in Contents(y), m \subseteq wrote
        PROVE  k \cap Sessions \subseteq m \/ m \cap Sessions \subseteq k
    <3>1. Prefix(x) /\ Prefix(y)
      BY <1>1 DEF Sound
    <3>2. CASE Before(x, y)
      BY <2>2, <3>1, <3>2, Order DEF Prefix, History!Homes
    <3>3. CASE Before(y, x)
      BY <2>2, <3>1, <3>3, Order DEF Prefix, History!Homes
    <3>4. CASE x = y
      BY <2>2, <3>1, <3>4 DEF Prefix
    <3> QED BY <3>2, <3>3, <3>4, Order
  <2>3. k = {} \/ \E x \in History!Homes : k \in Contents(x) /\ k \subseteq wrote
    BY <2>1
  <2>4. m = {} \/ \E x \in History!Homes : m \in Contents(x) /\ m \subseteq wrote
    BY <2>1
  <2> QED BY <2>2, <2>3, <2>4
<1>4. History!CatalogComplete
  <2> SUFFICES ASSUME shorn = {}, idLease = Nobody, torn = {}, History!Resolved
               PROVE  wrote \ {Outsider} \subseteq
                        IF History!Decide.status = "live" THEN content[History!Decide.home]
                         ELSE History!Decide.snap.content
    BY DEF History!CatalogComplete, History!ResumeWhole
  <2>1. \A p \in Launchers : run[p].at # "receipt"
    BY <1>1 DEF Place, History!Procs, History!HistoryAssumption
  <2>2. PICK d : d = History!Decide
    OBVIOUS
  <2>3. /\ FilledLast(d.home) /\ History!LineageValid
        /\ \/ d.status = "live" /\ d.home \in History!Live
           \/ d.status = "snapshot" /\ d.home \notin History!Live /\ d.snap \in snaps /\ d.snap.source = d.home
              /\ (d.home \in wrote => d.home \in d.snap.content)
    BY <1>1, <2>1, <2>2, Answer
  <2>4. CASE d.status = "live"
    <3>1. content[d.home] \in Contents(d.home)
      BY <2>3, <2>4 DEF History!Live, Contents
    <3>2. d.home \in wrote => d.home \in content[d.home]
      BY <1>1, <2>3, <2>4 DEF Sound, History!Live, Grown, Filled
    <3> QED BY <1>1, <2>1, <2>2, <2>3, <2>4, <3>1, <3>2, AnswerIsComplete
  <2>5. CASE d.status = "snapshot"
    <3>1. d.snap.content \in Contents(d.home) /\ d.home # Canonical
      BY <1>1, <2>3, <2>5 DEF Contents, History!Live, Sound, Grown, Store, History!Homes
    <3> QED BY <1>1, <2>1, <2>2, <2>3, <2>5, <3>1, AnswerIsComplete
  <2> QED BY <2>3, <2>4, <2>5
<1> QED BY <1>1, <1>2, <1>3, <1>4 DEF History!HistorySafe

\* NativeHistory: nothing that was written to a conversation is lost with a home, sessions do not fork
\* it, and what the catalog answers has everything that sessions and the app have written; the last two
\* until a restore dies between its first file and its receipt, or a keeper while it removes a home.
THEOREM HistoryKeepsItsPromises ==
  ASSUME History!HistoryAssumption
  PROVE  History!Spec => [](History!HistoryTypeOK /\ History!HistorySafe)
<1>1. History!Init => HistoryInv
  BY InitKeeps
<1>2. HistoryInv /\ [History!Next]_(History!vars) => HistoryInv'
  BY StepKeeps
<1>3. HistoryInv => History!HistoryTypeOK /\ History!HistorySafe
  BY InvIsSafe
<1> QED BY <1>1, <1>2, <1>3, PTL DEF History!Spec
=============================================================================
