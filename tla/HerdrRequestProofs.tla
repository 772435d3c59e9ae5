------------------------ MODULE HerdrRequestProofs -------------------------
(***************************************************************************)
(* Theorems about HerdrAgentRequest, for any number of intents, processes, *)
(* kept records and mishaps: what was dispatched can be asked about until  *)
(* its retention ends, a result is not replaced by an older one, and no    *)
(* dispatch or cancel leaves while an earlier one is unaccounted for.  And *)
(* about HerdrLaunch, at the end.                                          *)
(*                                                                         *)
(* The argument: an intent has one requester, which found no receipt       *)
(* (OneRequester, Unborn, Uncalled); whoever has the lock has seen what    *)
(* the file held last, though _prune may have unlinked it since (Locked);  *)
(* from the mark of a cancel to the record of its outcome the receipt says *)
(* cancel_started, and so has whoever has the lock seen it (Cancelling);   *)
(* the service keeps how a workflow ended, because its only prepare came   *)
(* first (Mailed, Ending).                                                 *)
(***************************************************************************)
EXTENDS HerdrAgentRequest, FiniteSetTheorems, TLAPS

Opening == {"survey", "prune"}
Places == Transits \cup Opening \cup {"start", "prepare", "await", "post", "wait", "gone"}
Commands == {"none", "request", "status", "cancel"}
Locals == [at : Places, cmd : Commands, of : Intents \cup {None}, seen : Receipts \cup {None},
           expired : SUBSET Intents]
Messages == [from : Procs, what : {"prepare", "dispatch", "status", "cancel"}]
Effects == Intents \X {"dispatch", "cancel"}

TypesOK ==
  /\ receipt \in [Intents -> Receipts \cup {None}]
  /\ old \subseteq aged /\ aged \subseteq Intents
  /\ lock \in [Intents -> Procs \cup {Nobody}] /\ capacity \in Procs \cup {Nobody}
  /\ proc \in [Procs -> Locals]
  /\ wire \subseteq Messages /\ answer \in [Procs -> States \cup {None}]
  /\ server \in [Intents -> States]
  /\ open \in [Effects -> SUBSET Procs] /\ sent \in [Effects -> Nat]

Requests(k, i) == proc[k].cmd = "request" /\ proc[k].of = i
Preparing == {"prepare", "await", "prepared", "failed"}
Sending == {"post", "wait", "done", "lost"}
Follows(k) == proc[k].cmd \in {"status", "cancel"}

\* What the place of a process says of its command and of the receipt it has seen.
StageOK(k) ==
  LET p == proc[k] IN
  /\ p.at = "start" <=> p.cmd = "none"
  /\ p.at # "start" => p.of \in Intents
  /\ p.at = "start" => p.of = None
  /\ p.at \in {"begin", "reserve", "lost"} \cup Opening \cup Preparing => p.cmd = "request"
  /\ p.at = "mark" => p.cmd = "cancel"
  /\ p.at \notin {"start", "gone"} \cup Opening => p.seen \in Receipts
  /\ p.at = "begin" => p.seen.phase = "intent_durable"
  /\ p.at \in Preparing => p.seen.phase = "prepare_started"
  /\ p.at = "reserve" => p.seen.phase = "prepared"
  /\ p.cmd = "request" /\ p.at \in Sending => p.seen.phase = "dispatch_started"
  /\ p.at = "mark" => MayCancel(p.seen)
  /\ p.cmd = "cancel" /\ p.at \in Sending => p.seen.phase = "cancel_started"
  /\ Follows(k) /\ p.at \in {"mark"} \cup Sending => p.seen.learned
  /\ p.cmd = "request" /\ p.at \in {"reserve"} \cup Sending => p.seen.learned
  /\ p.expired \subseteq aged

OneRequester == \A i \in Intents : \A j, k \in Procs : Requests(j, i) /\ Requests(k, i) => j = k

\* Until the requester has created the receipt, the intent has nothing else.
Alone(i) ==
  /\ receipt[i] = None /\ server[i] = "none"
  /\ \A e \in Effects : e[1] = i => sent[e] = 0 /\ open[e] = {}
UnbornTo(k) ==
  /\ proc[k].at \in Opening =>
       /\ lock[proc[k].of] = k /\ Alone(proc[k].of)
       /\ \A j \in Procs : proc[j].of = proc[k].of => j = k
  /\ At(k, "begin") \/ At(k, "prepare") => server[proc[k].of] = "none"
Unborn == \A k \in Procs : UnbornTo(k)
Uncalled ==
  \A i \in Intents : (\A k \in Procs : ~Requests(k, i)) =>
    Alone(i) /\ \A k \in Procs : proc[k].of # i

\* Whoever has the lock has seen what the file held last, which _prune may have unlinked.
LockedBy(k, i) ==
  lock[i] = k =>
    /\ proc[k].of = i /\ proc[k].at \in Transits \cup Opening
    /\ proc[k].at \in Transits => receipt[i] \in {None, proc[k].seen}
Locked == \A i \in Intents, k \in Procs : LockedBy(k, i)
Capacity == capacity # Nobody => At(capacity, "prune")

\* A cancel is under way from its mark to the record of its outcome.
Cancelling(k, i) ==
  proc[k].cmd = "cancel" /\ proc[k].of = i /\ (At(k, "post") \/ k \in open[<<i, "cancel">>])
Marked(i) ==
  /\ receipt[i] # None => receipt[i].phase = "cancel_started"
  /\ lock[i] # Nobody => proc[lock[i]].seen \in Receipts /\ proc[lock[i]].seen.phase = "cancel_started"
CancelMarked == \A i \in Intents, k \in Procs : Cancelling(k, i) => Marked(i)
OneCancel == \A i \in Intents : \A j, k \in Procs : Cancelling(j, i) /\ Cancelling(k, i) => j = k

\* Who has an effect whose outcome is not on record.
OpenTo(k) ==
  /\ \A e \in Effects : k \in open[e] =>
       /\ proc[k].of = e[1] /\ proc[k].at \in {"wait", "done", "lost", "gone"}
       /\ proc[k].cmd = IF e[2] = "dispatch" THEN "request" ELSE "cancel"
  /\ proc[k].cmd = "cancel" /\ proc[k].at \in {"wait", "done"} => k \in open[<<proc[k].of, "cancel">>]
Opens == \A k \in Procs : OpenTo(k)

\* A process has one request under way at most, of its own command, and none when it goes
\* on; the one prepare of an intent finds no workflow.
MailedTo(k) ==
  /\ proc[k].at \notin {"await", "failed", "wait", "lost", "gone"} \/ answer[k] # None =>
       \A m \in wire : m.from # k
  /\ \A m, n \in wire : m.from = k /\ n.from = k => m = n
  /\ At(k, "start") => answer[k] = None
  /\ At(k, "prepared") \/ At(k, "done") => answer[k] # None
  /\ \A m \in wire : m.from = k =>
       /\ m.what \in {"prepare", "dispatch"} => proc[k].cmd = "request"
       /\ m.what = "status" => proc[k].cmd = "status"
       /\ m.what = "cancel" => proc[k].cmd = "cancel"
       /\ m.what = "prepare" => server[proc[k].of] = "none"
Mailed == \A k \in Procs : MailedTo(k)

\* How a workflow ended, where a process or the receipt says so.
EndingTo(k) ==
  /\ answer[k] \in Ended => server[proc[k].of] = answer[k]
  /\ proc[k].cmd = "status" /\ proc[k].at \in Sending /\ proc[k].seen.phase \in Ended =>
       server[proc[k].of] \in Ended /\ (answer[k] # None => answer[k] \in Ended)
Ending ==
  /\ \A k \in Procs : EndingTo(k)
  /\ \A i \in Intents : receipt[i] # None /\ receipt[i].phase \in Ended => server[i] \in Ended

\* What is dispatched, or about to be, has its locator on disk while it is retained.
Dispatched(i) ==
  \/ sent[<<i, "dispatch">>] > 0
  \/ \E k \in Procs : Requests(k, i) /\ proc[k].at \in {"reserve", "post"}
Located == \A i \in Intents \ aged : Dispatched(i) => receipt[i] # None /\ receipt[i].learned

RequestInv ==
  /\ TypesOK /\ \A k \in Procs : StageOK(k)
  /\ OneRequester /\ Unborn /\ Uncalled
  /\ Locked /\ Capacity
  /\ CancelMarked /\ OneCancel /\ Opens
  /\ Mailed /\ Ending /\ Located
-----------------------------------------------------------------------------
(* Locals *)

OnlyProc(k) == \A j \in Procs : j # k => proc'[j] = proc[j]
Stays(k) == proc'[k].cmd = proc[k].cmd /\ proc'[k].of = proc[k].of

\* What TypesOK says of one process.
LEMMA ProcFields ==
  ASSUME TypesOK, NEW k \in Procs
  PROVE  /\ proc[k].at \in Places /\ proc[k].cmd \in Commands /\ proc[k].of \in Intents \cup {None}
         /\ proc[k].seen \in Receipts \cup {None} /\ proc[k].expired \in SUBSET Intents
         /\ proc[k] \in Locals /\ proc \in [Procs -> Locals]
BY DEF TypesOK, Locals

LEMMA GoesTo ==
  ASSUME TypesOK, NEW k \in Procs, NEW step \in Places, Goes(k, step)
  PROVE  /\ proc' \in [Procs -> Locals] /\ OnlyProc(k) /\ Stays(k)
         /\ proc'[k].at = step /\ proc'[k].seen = proc[k].seen /\ proc'[k].expired = proc[k].expired
<1>1. proc \in [Procs -> Locals] /\ proc[k] \in Locals
  BY DEF TypesOK
<1>2. proc' = [proc EXCEPT ![k] = [proc[k] EXCEPT !.at = step]]
  BY <1>1 DEF Goes
<1>3. [proc[k] EXCEPT !.at = step] \in Locals
  BY <1>1 DEF Locals
<1> QED BY <1>1, <1>2, <1>3 DEF OnlyProc, Stays, Locals

LEMMA GoneIs ==
  ASSUME TypesOK, NEW k \in Procs
  PROVE  /\ Gone(k) \in Locals
         /\ Gone(k).at = "gone" /\ Gone(k).cmd = proc[k].cmd /\ Gone(k).of = proc[k].of
         /\ Gone(k).expired = {}
<1>1. proc[k].cmd \in Commands /\ proc[k].of \in Intents \cup {None}
  BY ProcFields
<1> QED BY <1>1 DEF Gone, Idle, Locals, Places

LEMMA EndsAs ==
  ASSUME TypesOK, NEW k \in Procs, Ends(k)
  PROVE  /\ proc' \in [Procs -> Locals] /\ OnlyProc(k) /\ Stays(k)
         /\ proc'[k].at = "gone" /\ proc'[k].expired = {}
<1>1. proc \in [Procs -> Locals]
  BY DEF TypesOK
<1>2. proc' = [proc EXCEPT ![k] = Gone(k)]
  BY DEF Ends
<1> QED BY <1>1, <1>2, GoneIs DEF OnlyProc, Stays

LEMMA InitRequest == ASSUME RequestAssumption, Init PROVE RequestInv
<1> USE DEF Init, RequestAssumption
<1>1. \A k \in Procs : proc[k] = Idle /\ answer[k] = None
  OBVIOUS
<1>2. \A i \in Intents : receipt[i] = None /\ server[i] = "none" /\ lock[i] = Nobody
  OBVIOUS
<1>3. \A e \in Effects : open[e] = {} /\ sent[e] = 0
  BY DEF Effects
<1>4. TypesOK
  <2>1. Idle \in Locals
    BY DEF Idle, Locals, Places, Commands
  <2> QED BY <2>1 DEF TypesOK, States, Effects
<1>5. \A k \in Procs : StageOK(k)
  BY <1>1 DEF StageOK, Idle, Opening, Preparing, Sending, Follows
<1>6. OneRequester /\ Unborn /\ Uncalled
  BY <1>1, <1>2, <1>3 DEF OneRequester, Requests, Unborn, UnbornTo, Uncalled, Alone, Idle, Opening, At
<1>7. Locked /\ Capacity
  BY <1>2 DEF Locked, LockedBy, Capacity
<1>8. CancelMarked /\ OneCancel
  BY <1>1 DEF CancelMarked, OneCancel, Cancelling, Idle
<1>9. Opens
  BY <1>1, <1>3 DEF Opens, OpenTo, Idle
<1>10. Mailed
  BY <1>1 DEF Mailed, MailedTo, Idle, At
<1>11. Ending
  <2>1. None \notin Ended
    BY DEF States
  <2> QED BY <1>1, <1>2, <2>1 DEF Ending, EndingTo, Idle, Sending
<1>12. Located
  <2>1. \A i \in Intents : sent[<<i, "dispatch">>] = 0
    BY <1>3 DEF Effects
  <2> QED BY <1>1, <2>1 DEF Located, Dispatched, Requests, Idle
<1> QED BY <1>4, <1>5, <1>6, <1>7, <1>8, <1>9, <1>10, <1>11, <1>12 DEF RequestInv
-----------------------------------------------------------------------------
(* What a step of a process leaves to the others  *)

\* Only the locals, the answer and the requests of k; a receipt of another intent may be
\* unlinked if it is old, and no lock taken by another is touched.
Frame(k) ==
  /\ OnlyProc(k) /\ server' = server /\ aged' = aged
  /\ \A j \in Procs : j # k => answer'[j] = answer[j]
  /\ \A m \in wire' : m \in wire \/ m.from = k
  /\ \A i \in Intents : lock[i] \notin {Nobody, k} => lock'[i] = lock[i]
  /\ \A i \in Intents : lock'[i] \in {lock[i], k, Nobody}
  /\ \A i \in Intents : receipt'[i] \in {receipt[i], None} \/ (i = proc[k].of /\ lock[i] = k)
  /\ \A e \in Effects : e[1] # proc[k].of => open'[e] = open[e] /\ sent'[e] = sent[e]
  /\ \A e \in Effects : \A j \in Procs : j # k => (j \in open'[e] <=> j \in open[e])

\* A process has one command on one intent; it starts one on an intent that nobody has
\* requested, or follows one that has a receipt.
OwnIntent(k) ==
  \/ Stays(k)
  \/ /\ proc[k].at = "start" /\ proc'[k].of \in Intents
     /\ \/ proc'[k].cmd = "request" /\ \A j \in Procs : ~Requests(j, proc'[k].of)
        \/ proc'[k].cmd \in {"status", "cancel"} /\ receipt[proc'[k].of] # None

Kept(k) ==
  /\ Frame(k) /\ OwnIntent(k) /\ TypesOK'
  /\ StageOK(k)' /\ UnbornTo(k)' /\ OpenTo(k)' /\ MailedTo(k)' /\ EndingTo(k)'
  /\ \A i \in Intents : LockedBy(k, i)'
  /\ Capacity'
  /\ CancelMarked' /\ OneCancel' /\ Located'
  /\ \A i \in Intents : receipt'[i] # None /\ receipt'[i].phase \in Ended => server[i] \in Ended

LEMMA AloneStays ==
  ASSUME RequestAssumption, RequestInv, NEW k \in Procs, Frame(k),
         NEW i \in Intents, Alone(i), i # proc[k].of
  PROVE  Alone(i)'
BY DEF Alone, Frame

LEMMA OthersKept ==
  ASSUME RequestAssumption, RequestInv, NEW k \in Procs, Frame(k), OwnIntent(k), TypesOK',
         NEW j \in Procs, j # k
  PROVE  /\ StageOK(j)' /\ UnbornTo(j)' /\ OpenTo(j)' /\ MailedTo(j)' /\ EndingTo(j)'
         /\ \A i \in Intents : LockedBy(j, i)'
<1>1. proc'[j] = proc[j] /\ answer'[j] = answer[j] /\ server' = server /\ aged' = aged
  BY DEF Frame, OnlyProc
<1>2. /\ StageOK(j) /\ UnbornTo(j) /\ OpenTo(j) /\ MailedTo(j) /\ EndingTo(j)
      /\ \A i \in Intents : LockedBy(j, i)
  BY DEF RequestInv, Unborn, Opens, Mailed, Ending, Locked
<1>3. StageOK(j)'
  BY <1>1, <1>2 DEF StageOK, Follows
<1>4. UnbornTo(j)'
  <2>1. ASSUME proc[j].at \in Opening
        PROVE  /\ lock'[proc[j].of] = j /\ Alone(proc[j].of)'
               /\ proc'[k].of # proc[j].of
    <3>1. proc[j].of \in Intents /\ proc[j].cmd = "request"
      BY <1>2, <2>1 DEF StageOK, Opening
    <3>2. lock[proc[j].of] = j /\ Alone(proc[j].of) /\ proc[k].of # proc[j].of
      BY <1>2, <2>1 DEF UnbornTo
    <3>3. Alone(proc[j].of)'
      <4>1. ASSUME NEW i \in Intents, i = proc[j].of
            PROVE  Alone(i)'
        BY <3>2, <4>1, AloneStays
      <4> QED BY <1>1, <3>1, <4>1 DEF Alone
    <3>4. lock'[proc[j].of] = j
      BY <3>1, <3>2 DEF Frame, RequestAssumption
    <3>5. proc'[k].of # proc[j].of
      BY <3>1, <3>2 DEF OwnIntent, Stays, Alone, Requests
    <3> QED BY <3>3, <3>4, <3>5
  <2>2. \A l \in Procs : l # k => proc'[l] = proc[l]
    BY DEF Frame, OnlyProc
  <2>3. proc[j].at \in Opening => \A l \in Procs : proc'[l].of = proc[j].of => l = j
    BY <1>2, <2>1, <2>2 DEF UnbornTo
  <2> QED BY <1>1, <1>2, <2>1, <2>3 DEF UnbornTo, At
<1>5. OpenTo(j)'
  BY <1>1, <1>2 DEF OpenTo, Frame, Effects, StageOK
<1>6. MailedTo(j)'
  BY <1>1, <1>2 DEF MailedTo, Frame, At
<1>7. EndingTo(j)'
  BY <1>1, <1>2 DEF EndingTo
<1>8. ASSUME NEW i \in Intents, lock'[i] = j
      PROVE  /\ proc'[j].of = i /\ proc'[j].at \in Transits \cup Opening
             /\ proc'[j].at \in Transits => receipt'[i] \in {None, proc'[j].seen}
  <2>1. lock[i] = j
    BY <1>8 DEF Frame, RequestAssumption
  <2>2. receipt'[i] \in {receipt[i], None}
    BY <2>1 DEF Frame
  <2> QED BY <1>1, <1>2, <2>1, <2>2 DEF LockedBy
<1> QED BY <1>3, <1>4, <1>5, <1>6, <1>7, <1>8 DEF LockedBy

LEMMA FromKept ==
  ASSUME RequestAssumption, RequestInv, NEW k \in Procs, Kept(k)
  PROVE  RequestInv'
<1> USE DEF Kept
<1>1. \A j \in Procs : /\ StageOK(j)' /\ UnbornTo(j)' /\ OpenTo(j)' /\ MailedTo(j)' /\ EndingTo(j)'
                       /\ \A i \in Intents : LockedBy(j, i)'
  BY OthersKept
<1>2. \A j \in Procs : j # k => proc'[j] = proc[j]
  BY DEF Frame, OnlyProc
<1>3. \A j \in Procs, i \in Intents : Requests(j, i)' =>
        Requests(j, i) \/ (j = k /\ \A l \in Procs : ~Requests(l, i))
  BY <1>2 DEF Requests, OwnIntent, Stays
<1>4. OneRequester'
  BY <1>3 DEF RequestInv, OneRequester
<1>5. Uncalled'
  <2> SUFFICES ASSUME NEW i \in Intents, \A j \in Procs : ~Requests(j, i)'
               PROVE  Alone(i)' /\ \A j \in Procs : proc'[j].of # i
    BY DEF Uncalled
  <2>1. \A j \in Procs : ~Requests(j, i)
    <3>1. \A j \in Procs : j # k => (Requests(j, i)' <=> Requests(j, i))
      BY <1>2 DEF Requests
    <3>2. Requests(k, i) => proc[k].at # "start"
      BY DEF RequestInv, StageOK, Requests
    <3>3. Requests(k, i) => Requests(k, i)'
      BY <3>2 DEF OwnIntent, Stays, Requests
    <3> QED BY <3>1, <3>3
  <2>2. Alone(i) /\ \A j \in Procs : proc[j].of # i
    BY <2>1 DEF RequestInv, Uncalled
  <2>3. proc'[k].of # i
    BY <2>2 DEF OwnIntent, Stays, Requests, Alone
  <2> QED BY <1>2, <2>2, <2>3, AloneStays
<1>6. Ending'
  BY <1>1 DEF Ending, Frame
<1> QED BY <1>1, <1>4, <1>5, <1>6 DEF RequestInv, Unborn, Locked, Opens, Mailed
-----------------------------------------------------------------------------
(* Steps that leave the receipts alone *)

\* A step that ends a command, or takes note of an answer or of its loss, and gives back
\* what locks there are.
LEMMA QuietKept ==
  ASSUME RequestAssumption, RequestInv, NEW k \in Procs,
         UNCHANGED <<store, net, history, aged>>,
         lock' \in [Intents -> Procs \cup {Nobody}], capacity' \in Procs \cup {Nobody},
         \A i \in Intents : lock'[i] = IF lock[i] = k THEN Nobody ELSE lock[i],
         Capacity', proc' \in [Procs -> Locals], OnlyProc(k), Stays(k),
         proc'[k].at \in {"prepared", "failed", "done", "lost", "gone"},
         StageOK(k)', OpenTo(k)', MailedTo(k)', EndingTo(k)'
  PROVE  Kept(k)
<1> USE DEF store, net, history
<1>1. Frame(k) /\ OwnIntent(k)
  BY DEF Frame, OwnIntent
<1>2. TypesOK'
  BY DEF RequestInv, TypesOK
<1>3. \A i \in Intents : lock'[i] # k
  BY DEF RequestAssumption
<1>4. UnbornTo(k)' /\ \A i \in Intents : LockedBy(k, i)'
  BY <1>3 DEF UnbornTo, LockedBy, Opening, At
<1>5. \A j \in Procs : /\ j # k => proc'[j] = proc[j]
                       /\ proc'[j].cmd = proc[j].cmd /\ proc'[j].of = proc[j].of
                       /\ proc'[j].at \in {"post", "reserve"} => proc[j].at = proc'[j].at
  BY DEF OnlyProc, Stays
<1>6. \A i \in Intents, j \in Procs : Cancelling(j, i)' => Cancelling(j, i)
  BY <1>5 DEF Cancelling, At
<1>7. ASSUME NEW i \in Intents, Marked(i)
      PROVE  Marked(i)'
  <2>1. lock'[i] # Nobody => lock'[i] = lock[i] /\ lock[i] \in Procs /\ lock[i] # k
    BY DEF RequestInv, TypesOK
  <2> QED BY <1>5, <1>7, <2>1 DEF Marked
<1>8. CancelMarked' /\ OneCancel'
  BY <1>6, <1>7 DEF RequestInv, CancelMarked, OneCancel
<1>9. Located'
  BY <1>5 DEF RequestInv, Located, Dispatched, Requests
<1>10. \A i \in Intents : receipt'[i] # None /\ receipt'[i].phase \in Ended => server[i] \in Ended
  BY DEF RequestInv, Ending
<1> QED BY <1>1, <1>2, <1>4, <1>8, <1>9, <1>10 DEF Kept

LEMMA EndsKept ==
  ASSUME RequestAssumption, RequestInv, NEW k \in Procs, proc[k].at # "start",
         Ends(k), UNCHANGED <<store, net, history, aged>>,
         lock' \in [Intents -> Procs \cup {Nobody}],
         \A i \in Intents : lock'[i] = IF lock[i] = k THEN Nobody ELSE lock[i],
         (capacity' = capacity /\ capacity # k) \/ capacity' = Nobody
  PROVE  Kept(k)
<1> USE DEF store, net, history
<1>1. TypesOK /\ StageOK(k) /\ OpenTo(k) /\ MailedTo(k) /\ EndingTo(k)
  BY DEF RequestInv, Opens, Mailed, Ending
<1>2. /\ proc' \in [Procs -> Locals] /\ OnlyProc(k) /\ Stays(k)
      /\ proc'[k].at = "gone" /\ proc'[k].expired = {}
  BY <1>1, EndsAs
<1>3. StageOK(k)'
  BY <1>1, <1>2 DEF StageOK, Stays, Opening, Preparing, Sending, Follows
<1>4. OpenTo(k)' /\ EndingTo(k)'
  BY <1>1, <1>2 DEF OpenTo, EndingTo, Stays, Sending
<1>5. MailedTo(k)'
  BY <1>1, <1>2 DEF MailedTo, Stays, At
<1>6. capacity' \in Procs \cup {Nobody}
  BY <1>1 DEF TypesOK
<1>7. Capacity'
  BY <1>1, <1>2 DEF RequestInv, Capacity, TypesOK, OnlyProc, At
<1> QED BY <1>2, <1>3, <1>4, <1>5, <1>6, <1>7, QuietKept

\* Only a process in a transition or in create has a lock.
LEMMA Unlocking ==
  ASSUME RequestInv, NEW k \in Procs, proc[k].at \notin Transits \cup Opening
  PROVE  \A i \in Intents : lock[i] # k
BY DEF RequestInv, Locked, LockedBy

LEMMA CapacityApart ==
  ASSUME RequestAssumption, RequestInv, NEW k \in Procs, proc[k].at # "prune"
  PROVE  capacity # k
BY DEF RequestInv, Capacity, At, RequestAssumption, TypesOK

LEMMA StopKept ==
  ASSUME RequestAssumption, RequestInv, NEW k \in Procs, Stop(k)
  PROVE  Kept(k)
<1>1. lock' \in [Intents -> Procs \cup {Nobody}]
  BY DEF Stop, RequestInv, TypesOK
<1>2. \A i \in Intents : lock'[i] = IF lock[i] = k THEN Nobody ELSE lock[i]
  BY DEF Stop
<1> QED BY <1>1, <1>2, EndsKept DEF Stop

LEMMA ConflictKept ==
  ASSUME RequestAssumption, RequestInv, NEW k \in Procs, Conflict(k)
  PROVE  Kept(k)
<1> USE DEF Conflict, locks
<1>1. lock' \in [Intents -> Procs \cup {Nobody}]
  BY DEF RequestInv, TypesOK
<1>2. \A i \in Intents : lock[i] # k
  BY DEF RequestInv, Locked, LockedBy
<1>3. capacity # k
  BY CapacityApart DEF Transits
<1>4. proc[k].at # "start"
  BY DEF Transits
<1> QED BY <1>1, <1>2, <1>3, <1>4, EndsKept

LEMMA LostKept ==
  ASSUME RequestAssumption, RequestInv, NEW k \in Procs, Lost(k)
  PROVE  Kept(k)
<1> USE DEF locks, store, net, history
<1>1. lock' \in [Intents -> Procs \cup {Nobody}] /\ capacity' \in Procs \cup {Nobody}
  BY DEF Lost, RequestInv, TypesOK
<1>2. proc[k].at \in {"await", "wait"}
  BY DEF Lost, At
<1>3. \A i \in Intents : lock[i] # k
  BY <1>2, Unlocking DEF Transits, Opening
<1>4. capacity # k
  BY <1>2, CapacityApart
<1>5. \A i \in Intents : lock'[i] = IF lock[i] = k THEN Nobody ELSE lock[i]
  BY <1>3 DEF Lost
<1>6. CASE Ends(k)
  BY <1>1, <1>2, <1>4, <1>5, <1>6, EndsKept DEF Lost
<1>7. ASSUME NEW step \in {"failed", "lost"}, Goes(k, step),
             \/ step = "failed" /\ At(k, "await")
             \/ step = "lost" /\ At(k, "wait") /\ proc[k].cmd = "request"
      PROVE  Kept(k)
  <2>1. TypesOK /\ StageOK(k) /\ OpenTo(k) /\ MailedTo(k) /\ EndingTo(k)
    BY DEF RequestInv, Opens, Mailed, Ending
  <2>2. step \in Places
    BY DEF Places, Transits
  <2>3. /\ proc' \in [Procs -> Locals] /\ OnlyProc(k) /\ Stays(k)
        /\ proc'[k].at = step /\ proc'[k].seen = proc[k].seen /\ proc'[k].expired = proc[k].expired
    BY <1>7, <2>1, <2>2, GoesTo
  <2>4. StageOK(k)'
    BY <1>7, <2>1, <2>3 DEF StageOK, Stays, At, Opening, Preparing, Sending, Follows, Lost
  <2>5. OpenTo(k)'
    BY <1>7, <2>1, <2>3 DEF OpenTo, StageOK, Stays, At, Lost
  <2>6. MailedTo(k)'
    BY <1>7, <2>1, <2>3 DEF MailedTo, Stays, At, Lost
  <2>7. EndingTo(k)'
    BY <1>7, <2>1, <2>3 DEF EndingTo, StageOK, Stays, Sending, At, Lost
  <2>8. Capacity'
    BY <1>4, <2>3 DEF RequestInv, Capacity, TypesOK, OnlyProc, At, Lost
  <2> QED BY <1>1, <1>5, <2>3, <2>4, <2>5, <2>6, <2>7, <2>8, QuietKept DEF Lost
<1> QED BY <1>6, <1>7 DEF Lost, Goes

LEMMA ReceiveKept ==
  ASSUME RequestAssumption, RequestInv, NEW k \in Procs, Receive(k)
  PROVE  Kept(k)
<1> USE DEF locks, store, net, history
<1>1. lock' \in [Intents -> Procs \cup {Nobody}] /\ capacity' \in Procs \cup {Nobody}
  BY DEF Receive, RequestInv, TypesOK
<1>2. proc[k].at \in {"await", "wait"}
  BY DEF Receive, At
<1>3. \A i \in Intents : lock[i] # k
  BY <1>2, Unlocking DEF Transits, Opening
<1>4. capacity # k
  BY <1>2, CapacityApart
<1>5. \A i \in Intents : lock'[i] = IF lock[i] = k THEN Nobody ELSE lock[i]
  BY <1>3 DEF Receive
<1>6. TypesOK /\ StageOK(k) /\ OpenTo(k) /\ MailedTo(k) /\ EndingTo(k)
  BY DEF RequestInv, Opens, Mailed, Ending
<1>7. PICK step \in {"prepared", "done"} :
        Goes(k, step) /\ ((step = "prepared" /\ At(k, "await")) \/ (step = "done" /\ At(k, "wait")))
  BY DEF Receive, Goes
<1>8. step \in Places
  BY DEF Places, Transits
<1>9. /\ proc' \in [Procs -> Locals] /\ OnlyProc(k) /\ Stays(k)
      /\ proc'[k].at = step /\ proc'[k].seen = proc[k].seen /\ proc'[k].expired = proc[k].expired
  BY <1>6, <1>7, <1>8, GoesTo
<1>10. StageOK(k)'
  BY <1>6, <1>7, <1>9 DEF StageOK, Stays, At, Opening, Preparing, Sending, Follows, Receive
<1>11. OpenTo(k)'
  BY <1>6, <1>7, <1>9 DEF OpenTo, StageOK, Stays, At, Receive
<1>12. MailedTo(k)'
  BY <1>6, <1>7, <1>9 DEF MailedTo, Stays, At, Receive
<1>13. EndingTo(k)'
  BY <1>6, <1>7, <1>9 DEF EndingTo, StageOK, Sending, Stays, At, Receive
<1>14. Capacity'
  BY <1>4, <1>9 DEF RequestInv, Capacity, TypesOK, OnlyProc, At, Receive
<1> QED BY <1>1, <1>5, <1>7, <1>9, <1>10, <1>11, <1>12, <1>13, <1>14, QuietKept DEF Receive
-----------------------------------------------------------------------------
(* The beginnings of commands, the comparison and the requests *)

\* No cancel begins to be under way, and what is marked stays so.
LEMMA CancelsStay ==
  ASSUME RequestInv, receipt' = receipt,
         \A i \in Intents, j \in Procs : Cancelling(j, i)' => Cancelling(j, i),
         \A i \in Intents : lock'[i] # Nobody =>
           \/ lock'[i] = lock[i] /\ proc'[lock[i]].seen = proc[lock[i]].seen
           \/ receipt[i] # None /\ proc'[lock'[i]].seen = receipt[i]
           \/ \A j \in Procs : proc[j].of # i
  PROVE  CancelMarked' /\ OneCancel'
<1>1. ASSUME NEW i \in Intents, NEW j \in Procs, Cancelling(j, i)'
      PROVE  Marked(i)'
  <2>1. Marked(i) /\ proc[j].of = i
    BY <1>1 DEF RequestInv, CancelMarked, Cancelling
  <2>2. receipt[i] # None => receipt[i] \in Receipts
    BY DEF RequestInv, TypesOK
  <2> QED BY <2>1, <2>2 DEF Marked
<1> QED BY <1>1 DEF RequestInv, CancelMarked, OneCancel

LEMMA StartFollowKept ==
  ASSUME RequestAssumption, RequestInv, NEW k \in Procs, NEW i \in Intents,
         NEW cmd \in {"status", "cancel"}, StartFollow(k, i, cmd)
  PROVE  Kept(k)
<1> USE DEF StartFollow, store, locks, net, history
<1> DEFINE p == [Idle EXCEPT !.cmd = cmd, !.of = i, !.seen = receipt[i],
                             !.at = IF cmd = "cancel" THEN "mark" ELSE "post"]
<1>1. /\ TypesOK /\ StageOK(k) /\ OpenTo(k) /\ MailedTo(k) /\ EndingTo(k)
      /\ receipt[i] \in Receipts
  BY DEF RequestInv, Opens, Mailed, Ending, TypesOK
<1>2. /\ p \in Locals /\ p.cmd = cmd /\ p.of = i /\ p.seen = receipt[i] /\ p.expired = {}
      /\ p.at = IF cmd = "cancel" THEN "mark" ELSE "post"
  BY <1>1 DEF Idle, Locals, Places, Transits, Commands
<1>3. proc \in [Procs -> Locals] /\ proc' = [proc EXCEPT ![k] = p]
  BY <1>1 DEF TypesOK
<1>4. proc' \in [Procs -> Locals] /\ proc'[k] = p /\ OnlyProc(k)
  BY <1>2, <1>3 DEF OnlyProc
<1> HIDE DEF p
<1>5. proc[k].at = "start" /\ proc[k].of = None
  BY <1>1 DEF StageOK, At
<1>6. Frame(k)
  BY <1>4 DEF Frame
<1>7. OwnIntent(k)
  BY <1>2, <1>4, <1>5 DEF OwnIntent
<1>8. TypesOK'
  BY <1>1, <1>4 DEF TypesOK
<1>9. StageOK(k)'
  BY <1>1, <1>2, <1>4 DEF StageOK, Opening, Preparing, Sending, Follows
<1>10. UnbornTo(k)'
  BY <1>2, <1>4 DEF UnbornTo, Opening, At
<1>11. \A e \in Effects : k \notin open[e]
  BY <1>1, <1>5 DEF OpenTo
<1>12. OpenTo(k)'
  BY <1>2, <1>4, <1>11 DEF OpenTo
<1>13. answer[k] = None /\ \A m \in wire : m.from # k
  BY <1>1, <1>5 DEF MailedTo, At
<1>14. MailedTo(k)'
  BY <1>2, <1>4, <1>13 DEF MailedTo, At
<1>15. EndingTo(k)'
  <2>1. None \notin Ended
    BY DEF RequestAssumption, States
  <2> QED BY <1>1, <1>2, <1>4, <1>13, <2>1 DEF EndingTo, RequestInv, Ending
<1>16. \A x \in Intents : lock[x] # k
  BY <1>5, Unlocking DEF Transits, Opening
<1>17. \A x \in Intents : LockedBy(k, x)'
  BY <1>16 DEF LockedBy
<1>18. Capacity'
  BY <1>4, <1>5, CapacityApart DEF RequestInv, Capacity, TypesOK, OnlyProc, At
<1>19. <<i, "cancel">> \in Effects
  BY DEF Effects
<1>20. \A x \in Intents, j \in Procs : Cancelling(j, x)' => Cancelling(j, x)
  BY <1>2, <1>4, <1>11, <1>19 DEF Cancelling, OnlyProc, At
<1>21. CancelMarked' /\ OneCancel'
  BY <1>4, <1>16, <1>20, CancelsStay DEF OnlyProc, RequestInv, TypesOK
<1>22. Located'
  BY <1>2, <1>4 DEF RequestInv, Located, Dispatched, Requests, OnlyProc
<1> QED BY <1>6, <1>7, <1>8, <1>9, <1>10, <1>12, <1>14, <1>15, <1>17, <1>18, <1>21, <1>22
        DEF Kept, RequestInv, Ending

LEMMA BeginKept ==
  ASSUME RequestAssumption, RequestInv, NEW k \in Procs, NEW i \in Intents, Begin(k, i)
  PROVE  Kept(k)
<1> USE DEF Begin, store, net, history
<1> DEFINE p == [Idle EXCEPT !.at = "survey", !.cmd = "request", !.of = i]
<1>1. TypesOK /\ StageOK(k) /\ OpenTo(k) /\ MailedTo(k) /\ EndingTo(k)
  BY DEF RequestInv, Opens, Mailed, Ending
<1>2. /\ p \in Locals /\ p.cmd = "request" /\ p.of = i /\ p.at = "survey" /\ p.expired = {}
  BY DEF Idle, Locals, Places, Transits, Opening, Commands
<1>3. proc \in [Procs -> Locals] /\ proc' = [proc EXCEPT ![k] = p]
  BY <1>1 DEF TypesOK
<1>4. proc' \in [Procs -> Locals] /\ proc'[k] = p /\ OnlyProc(k)
  BY <1>2, <1>3 DEF OnlyProc
<1> HIDE DEF p
<1>5. proc[k].at = "start" /\ proc[k].of = None
  BY <1>1 DEF StageOK, At
<1>6. \A j \in Procs : ~Requests(j, i)
  BY DEF Requests
<1>7. Alone(i) /\ \A j \in Procs : proc[j].of # i
  BY <1>6 DEF RequestInv, Uncalled
<1>8. lock \in [Intents -> Procs \cup {Nobody}] /\ lock' = [lock EXCEPT ![i] = k]
  BY <1>1 DEF TypesOK
<1>9. lock' \in [Intents -> Procs \cup {Nobody}] /\ lock'[i] = k
      /\ \A x \in Intents : x # i => lock'[x] = lock[x]
  BY <1>8
<1>10. Frame(k)
  BY <1>4, <1>9 DEF Frame
<1>11. OwnIntent(k)
  BY <1>2, <1>4, <1>5, <1>6 DEF OwnIntent
<1>12. TypesOK'
  BY <1>1, <1>4, <1>9 DEF TypesOK
<1>13. StageOK(k)'
  BY <1>2, <1>4 DEF StageOK, Opening, Preparing, Sending, Follows
<1>14. UnbornTo(k)'
  <2>1. Alone(i)'
    BY <1>7 DEF Alone
  <2>2. Alone(proc[k].of)'
    BY <1>2, <1>4, <2>1 DEF Alone
  <2> QED BY <1>2, <1>4, <1>7, <1>9, <2>2 DEF UnbornTo, OnlyProc, At
<1>15. \A e \in Effects : k \notin open[e]
  BY <1>1, <1>5 DEF OpenTo
<1>16. OpenTo(k)'
  BY <1>2, <1>4, <1>15 DEF OpenTo
<1>17. answer[k] = None /\ \A m \in wire : m.from # k
  BY <1>1, <1>5 DEF MailedTo, At
<1>18. MailedTo(k)'
  BY <1>2, <1>4, <1>17 DEF MailedTo, At
<1>19. EndingTo(k)'
  <2>1. None \notin Ended
    BY DEF RequestAssumption, States
  <2> QED BY <1>2, <1>4, <1>17, <2>1 DEF EndingTo
<1>20. \A x \in Intents : lock[x] # k
  BY <1>5, Unlocking DEF Transits, Opening
<1>21. \A x \in Intents : LockedBy(k, x)'
  BY <1>2, <1>4, <1>9, <1>20 DEF LockedBy, Opening, Transits
<1>22. Capacity'
  BY <1>4, <1>5, CapacityApart DEF RequestInv, Capacity, TypesOK, OnlyProc, At
<1>23. \A x \in Intents, j \in Procs : Cancelling(j, x)' => Cancelling(j, x)
  BY <1>2, <1>4 DEF Cancelling, OnlyProc, At
<1>24. CancelMarked' /\ OneCancel'
  <2>1. \A x \in Intents : lock'[x] # Nobody =>
          \/ lock'[x] = lock[x] /\ proc'[lock[x]].seen = proc[lock[x]].seen
          \/ \A j \in Procs : proc[j].of # x
    BY <1>1, <1>4, <1>7, <1>9, <1>20 DEF OnlyProc, TypesOK
  <2> QED BY <1>23, <2>1, CancelsStay
<1>25. Located'
  BY <1>2, <1>4 DEF RequestInv, Located, Dispatched, Requests, OnlyProc
<1> QED BY <1>10, <1>11, <1>12, <1>13, <1>14, <1>16, <1>18, <1>19, <1>21, <1>22, <1>24, <1>25
        DEF Kept, RequestInv, Ending

LEMMA SurveyKept ==
  ASSUME RequestAssumption, RequestInv, NEW k \in Procs, Survey(k)
  PROVE  Kept(k)
<1> USE DEF Survey, store, net, history
<1>1. /\ TypesOK /\ StageOK(k) /\ UnbornTo(k) /\ OpenTo(k) /\ MailedTo(k) /\ EndingTo(k)
      /\ proc[k].at = "survey" /\ capacity # k
  BY CapacityApart DEF RequestInv, Unborn, Opens, Mailed, Ending, At
<1>2. /\ proc[k].of \in Intents /\ proc[k].cmd = "request"
      /\ lock[proc[k].of] = k /\ Alone(proc[k].of)
      /\ \A j \in Procs : proc[j].of = proc[k].of => j = k
  BY <1>1 DEF StageOK, UnbornTo, Opening
<1>3. \A i \in Intents : lock[i] = k => i = proc[k].of
  BY DEF RequestInv, Locked, LockedBy
<1>4. CASE Ends(k) /\ UNCHANGED capacity /\ lock' = [lock EXCEPT ![proc[k].of] = Nobody]
  <2>1. lock \in [Intents -> Procs \cup {Nobody}]
    BY <1>1 DEF TypesOK
  <2>2. /\ lock' \in [Intents -> Procs \cup {Nobody}]
        /\ \A i \in Intents : lock'[i] = IF lock[i] = k THEN Nobody ELSE lock[i]
    BY <1>2, <1>3, <1>4, <2>1
  <2> QED BY <1>1, <1>4, <2>2, EndsKept
<1>5. CASE /\ proc' = [proc EXCEPT ![k].at = "prune", ![k].expired = Expired]
           /\ capacity' = k /\ UNCHANGED lock
  <2> DEFINE p == [proc[k] EXCEPT !.at = "prune", !.expired = Expired]
  <2>1. Expired \subseteq aged /\ Expired \in SUBSET Intents
    BY <1>1 DEF Expired, TypesOK
  <2>2. proc \in [Procs -> Locals] /\ proc[k] \in Locals /\ proc' = [proc EXCEPT ![k] = p]
    BY <1>1, <1>5 DEF TypesOK
  <2>3. /\ p \in Locals /\ p.cmd = proc[k].cmd /\ p.of = proc[k].of /\ p.at = "prune"
        /\ p.expired = Expired
    BY <2>1, <2>2 DEF Locals, Places, Opening
  <2>4. proc' \in [Procs -> Locals] /\ proc'[k] = p /\ OnlyProc(k) /\ Stays(k)
    BY <2>2, <2>3 DEF OnlyProc, Stays
  <2> HIDE DEF p
  <2>5. Frame(k) /\ OwnIntent(k)
    BY <1>5, <2>4 DEF Frame, OwnIntent
  <2>6. TypesOK'
    BY <1>1, <1>5, <2>4 DEF TypesOK
  <2>7. StageOK(k)'
    BY <1>1, <1>2, <2>1, <2>3, <2>4 DEF StageOK, Opening, Preparing, Sending, Follows
  <2>8. UnbornTo(k)'
    <3>1. Alone(proc[k].of)'
      BY <1>2, <2>3, <2>4 DEF Alone
    <3> QED BY <1>2, <1>5, <2>3, <2>4, <3>1 DEF UnbornTo, OnlyProc, At
  <2>9. OpenTo(k)' /\ EndingTo(k)'
    BY <1>1, <2>3, <2>4 DEF OpenTo, EndingTo, Sending
  <2>10. MailedTo(k)'
    BY <1>1, <2>3, <2>4 DEF MailedTo, At
  <2>11. \A i \in Intents : LockedBy(k, i)'
    BY <1>3, <1>5, <2>3, <2>4 DEF LockedBy, Opening, Transits
  <2>12. Capacity'
    BY <1>5, <2>3, <2>4 DEF Capacity, At
  <2>13. \A i \in Intents, j \in Procs : Cancelling(j, i)' => Cancelling(j, i)
    BY <1>2, <2>3, <2>4 DEF Cancelling, OnlyProc, At
  <2>14. CancelMarked' /\ OneCancel'
    <3>1. \A i \in Intents : lock'[i] # Nobody =>
            \/ lock'[i] = lock[i] /\ proc'[lock[i]].seen = proc[lock[i]].seen
            \/ \A j \in Procs : proc[j].of # i
      <4>1. p.seen = proc[k].seen
        BY <2>2 DEF p, Locals
      <4> QED BY <1>1, <1>5, <2>4, <4>1 DEF OnlyProc, TypesOK
    <3> QED BY <2>13, <3>1, CancelsStay
  <2>15. Located'
    BY <2>3, <2>4 DEF RequestInv, Located, Dispatched, Requests, OnlyProc
  <2> QED BY <2>5, <2>6, <2>7, <2>8, <2>9, <2>10, <2>11, <2>12, <2>14, <2>15
          DEF Kept, RequestInv, Ending
<1> QED BY <1>4, <1>5

LEMMA CompareKept ==
  ASSUME RequestAssumption, RequestInv, NEW k \in Procs, Compare(k)
  PROVE  Kept(k)
<1> USE DEF Compare, store, net, history
<1>1. /\ TypesOK /\ StageOK(k) /\ UnbornTo(k) /\ OpenTo(k) /\ MailedTo(k) /\ EndingTo(k)
      /\ proc[k].at \in Transits /\ receipt[proc[k].of] = proc[k].seen
  BY DEF RequestInv, Unborn, Opens, Mailed, Ending, Same
<1>2. proc[k].of \in Intents /\ proc[k].seen \in Receipts
  BY <1>1 DEF StageOK, Transits, Opening
<1>3. lock \in [Intents -> Procs \cup {Nobody}] /\ lock' = [lock EXCEPT ![proc[k].of] = k]
  BY <1>1 DEF TypesOK
<1>4. /\ lock' \in [Intents -> Procs \cup {Nobody}] /\ lock'[proc[k].of] = k
      /\ \A i \in Intents : i # proc[k].of => lock'[i] = lock[i]
  BY <1>2, <1>3
<1>5. Frame(k) /\ OwnIntent(k)
  BY <1>4 DEF Frame, OwnIntent, OnlyProc, Stays
<1>6. TypesOK'
  BY <1>1, <1>4 DEF TypesOK
<1>7. StageOK(k)' /\ OpenTo(k)' /\ EndingTo(k)'
  BY <1>1 DEF StageOK, OpenTo, EndingTo, Follows
<1>8. UnbornTo(k)'
  BY <1>1 DEF UnbornTo, Transits, Opening, At
<1>9. MailedTo(k)'
  BY <1>1 DEF MailedTo, At
<1>10. \A i \in Intents : LockedBy(k, i)'
  BY <1>1, <1>4 DEF RequestInv, Locked, LockedBy
<1>11. Capacity'
  BY DEF RequestInv, Capacity, At
<1>12. CancelMarked' /\ OneCancel'
  <2>1. \A i \in Intents, j \in Procs : Cancelling(j, i)' => Cancelling(j, i)
    BY DEF Cancelling, At
  <2>2. \A i \in Intents : lock'[i] # Nobody =>
          \/ lock'[i] = lock[i] /\ proc'[lock[i]].seen = proc[lock[i]].seen
          \/ receipt[i] # None /\ proc'[lock'[i]].seen = receipt[i]
    BY <1>1, <1>2, <1>4 DEF RequestAssumption
  <2> QED BY <2>1, <2>2, CancelsStay
<1>13. Located'
  BY DEF RequestInv, Located, Dispatched, Requests
<1> QED BY <1>5, <1>6, <1>7, <1>8, <1>9, <1>10, <1>11, <1>12, <1>13 DEF Kept, RequestInv, Ending

LEMMA PostKept ==
  ASSUME RequestAssumption, RequestInv, NEW k \in Procs, Post(k)
  PROVE  Kept(k)
<1> USE DEF Post, store, locks
<1> DEFINE step == IF At(k, "prepare") THEN "await" ELSE "wait"
           i == proc[k].of
<1>1. /\ TypesOK /\ StageOK(k) /\ UnbornTo(k) /\ OpenTo(k) /\ MailedTo(k) /\ EndingTo(k)
      /\ proc[k].at \in {"prepare", "post"}
  BY DEF RequestInv, Unborn, Opens, Mailed, Ending, At
<1>2. i \in Intents /\ proc[k].cmd \in {"request", "status", "cancel"}
      /\ (proc[k].at = "prepare" => proc[k].cmd = "request")
  BY <1>1, ProcFields DEF StageOK, Commands, Preparing
<1>3. /\ proc[k].at = "prepare" => What(k) = "prepare"
      /\ proc[k].at = "post" /\ proc[k].cmd = "request" => What(k) = "dispatch"
      /\ proc[k].at = "post" /\ proc[k].cmd # "request" => What(k) = proc[k].cmd
  BY DEF What, At
<1>4. step \in Places /\ Goes(k, step)
  BY DEF Places, Transits
<1>5. /\ proc' \in [Procs -> Locals] /\ OnlyProc(k) /\ Stays(k)
      /\ proc'[k].at = step /\ proc'[k].seen = proc[k].seen /\ proc'[k].expired = proc[k].expired
  BY <1>1, <1>4, GoesTo
<1>6. \A e \in Effects :
        \/ open'[e] = open[e] /\ sent'[e] = sent[e]
        \/ /\ e = <<i, What(k)>> /\ open'[e] = open[e] \cup {k} /\ sent'[e] = sent[e] + 1
           /\ proc[k].at = "post"
  <2>1. open \in [Effects -> SUBSET Procs] /\ sent \in [Effects -> Nat]
    BY <1>1 DEF TypesOK
  <2> QED BY <1>1, <1>3, <2>1 DEF history
<1>7. open' \in [Effects -> SUBSET Procs] /\ sent' \in [Effects -> Nat]
  <2>1. open \in [Effects -> SUBSET Procs] /\ sent \in [Effects -> Nat]
    BY <1>1 DEF TypesOK
  <2>2. CASE What(k) \in {"dispatch", "cancel"}
    <3>1. <<i, What(k)>> \in Effects
      BY <1>2, <2>2 DEF Effects
    <3>2. /\ open' = [open EXCEPT ![<<i, What(k)>>] = @ \cup {k}]
          /\ sent' = [sent EXCEPT ![<<i, What(k)>>] = @ + 1]
      BY <2>2
    <3>3. open[<<i, What(k)>>] \cup {k} \in SUBSET Procs /\ sent[<<i, What(k)>>] + 1 \in Nat
      BY <2>1, <3>1
    <3> QED BY <2>1, <3>2, <3>3
  <2>3. CASE What(k) \notin {"dispatch", "cancel"}
    BY <2>1, <2>3 DEF history
  <2> QED BY <2>2, <2>3
<1>8. What(k) \in {"dispatch", "cancel"} /\ proc[k].at = "post" => k \in open'[<<i, What(k)>>]
  BY <1>1, <1>2 DEF TypesOK, Effects
<1>9. What(k) \in {"prepare", "dispatch", "status", "cancel"}
  BY <1>1, <1>2, <1>3
<1>10. answer' = [answer EXCEPT ![k] = None] /\ answer \in [Procs -> States \cup {None}]
  BY <1>1 DEF TypesOK
<1>11. answer'[k] = None /\ \A j \in Procs : j # k => answer'[j] = answer[j]
  BY <1>10
<1>12. Frame(k)
  BY <1>5, <1>6, <1>11 DEF Frame
<1>13. OwnIntent(k)
  BY <1>5 DEF OwnIntent
<1>14. TypesOK'
  BY <1>1, <1>5, <1>7, <1>9, <1>10 DEF TypesOK, Messages
<1>15. StageOK(k)'
  BY <1>1, <1>2, <1>5 DEF StageOK, Stays, At, Opening, Preparing, Sending, Follows
<1>16. UnbornTo(k)'
  BY <1>5 DEF UnbornTo, Opening, At
<1>17. OpenTo(k)'
  <2>1. \A e \in Effects : k \notin open[e]
    BY <1>1 DEF OpenTo
  <2>2. \A e \in Effects : k \in open'[e] => e = <<i, What(k)>> /\ proc[k].at = "post"
    BY <1>6, <2>1
  <2>3. \A e \in Effects : e[2] \in {"dispatch", "cancel"}
    BY DEF Effects
  <2>4. \A e \in Effects : k \in open'[e] =>
          /\ proc'[k].of = e[1] /\ proc'[k].at \in {"wait", "done", "lost", "gone"}
          /\ proc'[k].cmd = IF e[2] = "dispatch" THEN "request" ELSE "cancel"
    BY <1>1, <1>2, <1>3, <1>5, <2>2, <2>3 DEF Stays, At
  <2>5. proc'[k].cmd = "cancel" /\ proc'[k].at \in {"wait", "done"} => k \in open'[<<proc'[k].of, "cancel">>]
    BY <1>1, <1>2, <1>3, <1>5, <1>8 DEF Stays, At
  <2> QED BY <2>4, <2>5 DEF OpenTo
<1>18. MailedTo(k)'
  <2>1. \A m \in wire : m.from # k
    BY <1>1 DEF MailedTo
  <2>2. \A m \in wire' : m.from = k => m = [from |-> k, what |-> What(k)]
    BY <2>1
  <2>3. What(k) = "prepare" => server'[proc'[k].of] = "none"
    BY <1>1, <1>2, <1>3, <1>5 DEF UnbornTo, Stays, At
  <2> QED BY <1>1, <1>2, <1>3, <1>5, <1>11, <2>2, <2>3 DEF MailedTo, Stays, At
<1>19. EndingTo(k)'
  <2>1. None \notin Ended
    BY DEF RequestAssumption, States
  <2> QED BY <1>1, <1>2, <1>5, <1>11, <2>1 DEF EndingTo, Stays, Sending, At
<1>20. \A x \in Intents : lock[x] # k
  BY <1>1, Unlocking DEF Transits, Opening
<1>21. \A x \in Intents : LockedBy(k, x)'
  BY <1>20 DEF LockedBy
<1>22. Capacity'
  BY <1>1, <1>5, CapacityApart DEF RequestInv, Capacity, TypesOK, OnlyProc, At
<1>23. \A x \in Intents, j \in Procs : Cancelling(j, x)' => Cancelling(j, x)
  <2> SUFFICES ASSUME NEW x \in Intents, NEW j \in Procs, Cancelling(j, x)'
               PROVE  Cancelling(j, x)
    OBVIOUS
  <2>1. <<x, "cancel">> \in Effects
    BY DEF Effects
  <2>2. CASE j = k
    BY <1>1, <1>2, <1>3, <1>5, <1>6, <2>1, <2>2 DEF Cancelling, Stays, At
  <2>3. CASE j # k
    BY <1>5, <1>12, <2>1, <2>3 DEF Cancelling, OnlyProc, Frame, At
  <2> QED BY <2>2, <2>3
<1>24. CancelMarked' /\ OneCancel'
  <2>1. \A x \in Intents : lock'[x] # Nobody => lock'[x] = lock[x] /\ proc'[lock[x]].seen = proc[lock[x]].seen
    BY <1>1, <1>5, <1>20 DEF OnlyProc, TypesOK
  <2> QED BY <1>23, <2>1, CancelsStay
<1>25. Located'
  <2>1. ASSUME NEW x \in Intents, Dispatched(x)'
        PROVE  Dispatched(x)
    <3>1. <<x, "dispatch">> \in Effects
      BY DEF Effects
    <3>2. CASE sent'[<<x, "dispatch">>] = sent[<<x, "dispatch">>]
      BY <1>5, <2>1, <3>2 DEF Dispatched, Requests, OnlyProc, Stays, At
    <3>3. CASE <<x, "dispatch">> = <<i, What(k)>> /\ proc[k].at = "post"
      BY <1>1, <1>2, <1>3, <3>3 DEF Dispatched, Requests
    <3> QED BY <1>6, <3>1, <3>2, <3>3
  <2> QED BY <2>1 DEF RequestInv, Located
<1> QED BY <1>12, <1>13, <1>14, <1>15, <1>16, <1>17, <1>18, <1>19, <1>21, <1>22, <1>24, <1>25
        DEF Kept, RequestInv, Ending

LEMMA PruneKept ==
  ASSUME RequestAssumption, RequestInv, NEW k \in Procs, Prune(k)
  PROVE  Kept(k)
<1> USE DEF Prune, net, history
<1> DEFINE i == proc[k].of
           p == [proc[k] EXCEPT !.at = "begin", !.seen = Fresh]
<1>1. /\ TypesOK /\ StageOK(k) /\ UnbornTo(k) /\ OpenTo(k) /\ MailedTo(k) /\ EndingTo(k)
      /\ proc[k].at = "prune"
  BY DEF RequestInv, Unborn, Opens, Mailed, Ending, At
<1>2. /\ i \in Intents /\ proc[k].cmd = "request" /\ lock[i] = k /\ Alone(i)
      /\ proc[k].expired \subseteq aged
      /\ \A j \in Procs : proc[j].of = i => j = k
  BY <1>1 DEF StageOK, UnbornTo, Opening
<1>3. Fresh \in Receipts /\ Fresh.phase = "intent_durable"
  BY DEF Fresh, Receipts, Phases
<1>4. proc \in [Procs -> Locals] /\ proc[k] \in Locals /\ proc' = [proc EXCEPT ![k] = p]
  BY <1>1 DEF TypesOK
<1>5. /\ p \in Locals /\ p.cmd = proc[k].cmd /\ p.of = proc[k].of /\ p.at = "begin"
      /\ p.seen = Fresh /\ p.expired = proc[k].expired
  BY <1>3, <1>4 DEF Locals, Places, Transits
<1>6. proc' \in [Procs -> Locals] /\ proc'[k] = p /\ OnlyProc(k)
  BY <1>4, <1>5 DEF OnlyProc
<1> HIDE DEF p
<1>7. /\ receipt'[i] = Fresh
      /\ \A x \in Intents : x # i =>
           /\ receipt'[x] \in {receipt[x], None}
           /\ x \notin aged => receipt'[x] = receipt[x]
  BY <1>2
<1>8. lock \in [Intents -> Procs \cup {Nobody}] /\ lock' = [lock EXCEPT ![i] = Nobody]
  BY <1>1 DEF TypesOK
<1>9. /\ lock' \in [Intents -> Procs \cup {Nobody}] /\ lock'[i] = Nobody
      /\ \A x \in Intents : x # i => lock'[x] = lock[x]
  BY <1>2, <1>8
<1>10. \A x \in Intents : lock[x] = k => x = i
  BY DEF RequestInv, Locked, LockedBy
<1>11. Frame(k)
  BY <1>2, <1>6, <1>7, <1>9 DEF Frame
<1>12. OwnIntent(k)
  BY <1>5, <1>6 DEF OwnIntent, Stays
<1>13. TypesOK'
  <2>1. receipt' \in [Intents -> Receipts \cup {None}]
    BY <1>1, <1>3 DEF TypesOK
  <2>2. old' \subseteq aged /\ capacity' = Nobody
    BY <1>1 DEF TypesOK
  <2> QED BY <1>1, <1>6, <1>9, <2>1, <2>2 DEF TypesOK
<1>14. StageOK(k)'
  BY <1>2, <1>3, <1>5, <1>6 DEF StageOK, Opening, Preparing, Sending, Follows
<1>15. UnbornTo(k)'
  BY <1>2, <1>5, <1>6 DEF UnbornTo, Alone, Opening, At
<1>16. \A e \in Effects : k \notin open[e]
  BY <1>1 DEF OpenTo
<1>17. OpenTo(k)'
  BY <1>2, <1>5, <1>6, <1>16 DEF OpenTo
<1>18. MailedTo(k)'
  BY <1>1, <1>5, <1>6 DEF MailedTo, At
<1>19. EndingTo(k)'
  BY <1>1, <1>2, <1>5, <1>6 DEF EndingTo
<1>20. \A x \in Intents : LockedBy(k, x)'
  BY <1>9, <1>10 DEF LockedBy, RequestAssumption
<1>21. Capacity'
  BY DEF Capacity
<1>22. \A x \in Intents, j \in Procs : Cancelling(j, x)' => Cancelling(j, x) /\ x # i
  BY <1>2, <1>5, <1>6 DEF Cancelling, OnlyProc, At
<1>23. CancelMarked' /\ OneCancel'
  <2>1. ASSUME NEW x \in Intents, NEW j \in Procs, Cancelling(j, x)'
        PROVE  Marked(x)'
    <3>1. Marked(x) /\ x # i
      BY <1>22, <2>1 DEF RequestInv, CancelMarked
    <3>2. lock'[x] # Nobody => lock'[x] = lock[x] /\ lock[x] \in Procs /\ lock[x] # k
      BY <1>9, <1>10, <3>1
    <3> QED BY <1>6, <1>7, <3>1, <3>2 DEF Marked, OnlyProc
  <2> QED BY <1>22, <2>1 DEF RequestInv, CancelMarked, OneCancel
<1>24. Located'
  <2> SUFFICES ASSUME NEW x \in Intents \ aged, Dispatched(x)'
               PROVE  receipt'[x] # None /\ receipt'[x].learned
    BY DEF Located
  <2>1. <<x, "dispatch">> \in Effects
    BY DEF Effects
  <2>2. Dispatched(x)
    BY <1>5, <1>6 DEF Dispatched, Requests, OnlyProc
  <2>3. x # i
    BY <1>1, <1>2, <2>1, <2>2 DEF Alone, Dispatched, Requests
  <2> QED BY <1>7, <2>2, <2>3 DEF RequestInv, Located
<1>25. \A x \in Intents : receipt'[x] # None /\ receipt'[x].phase \in Ended => server[x] \in Ended
  <2>1. Fresh.phase \notin Ended
    BY <1>3 DEF Ended
  <2> QED BY <1>7, <2>1 DEF RequestInv, Ending
<1> QED BY <1>11, <1>12, <1>13, <1>14, <1>15, <1>17, <1>18, <1>19, <1>20, <1>21, <1>23, <1>24, <1>25
        DEF Kept

-----------------------------------------------------------------------------
(* The replacement *)

\* What a transition records, for the step it is taken at.
LEMMA TargetIs ==
  ASSUME RequestInv, NEW k \in Procs, proc[k].at \in Transits
  PROVE  /\ proc[k].at = "begin" => Target(k) = "prepare_started" /\ Then(k) = "prepare"
         /\ proc[k].at = "prepared" => Target(k) = "prepared" /\ Then(k) = "reserve"
         /\ proc[k].at = "failed" => Target(k) = "unknown" /\ Then(k) = "gone"
         /\ proc[k].at = "reserve" => Target(k) = "dispatch_started" /\ Then(k) = "post"
         /\ proc[k].at = "lost" => Target(k) = "dispatch_started" /\ Then(k) = "gone"
         /\ proc[k].at = "mark" => Target(k) = "cancel_started" /\ Then(k) = "post"
         /\ proc[k].at = "done" =>
              /\ Then(k) = "gone"
              /\ proc[k].cmd = "request" => Target(k) = Outcome(k)
              /\ proc[k].cmd = "status" => Target(k) = AfterStatus(k)
              /\ proc[k].cmd = "cancel" =>
                   Target(k) = IF answer[k] \in Ended THEN answer[k] ELSE "cancel_started"
BY DEF Target, Then, Transits, At

\* Whoever is in a transition of a cancel_started receipt is a status or a cancel with its answer.
LEMMA TransitOf ==
  ASSUME RequestInv, NEW k \in Procs, proc[k].at \in Transits
  PROVE  /\ proc[k].of \in Intents /\ proc[k].seen \in Receipts
         /\ proc[k].cmd \in {"request", "status", "cancel"}
         /\ Target(k) \in Phases
         /\ Target(k) \in Ended => server[proc[k].of] \in Ended /\ proc[k].at = "done"
         /\ proc[k].at \in Transits \ {"begin", "failed", "prepared"} => proc[k].seen.learned
<1>1. StageOK(k) /\ EndingTo(k) /\ TypesOK
  BY DEF RequestInv, Ending
<1>2. proc[k].of \in Intents /\ proc[k].seen \in Receipts
  BY <1>1 DEF StageOK, Transits, Opening
<1>3. proc[k].cmd \in {"request", "status", "cancel"}
  BY <1>1, ProcFields DEF StageOK, Commands, Transits
<1>4. Outcome(k) \in Ended \cup {"awaiting_operation"} /\ (Outcome(k) \in Ended => answer[k] = Outcome(k))
  BY DEF Outcome, Ended
<1>5. Target(k) \in Phases
  BY <1>3, <1>4, TargetIs DEF Transits, AfterStatus, Phases, Stamped
<1>6. Target(k) \in Ended => server[proc[k].of] \in Ended /\ proc[k].at = "done"
  BY <1>1, <1>3, <1>4, TargetIs DEF Transits, AfterStatus, EndingTo, Ended
<1>7. proc[k].at \in Transits \ {"begin", "failed", "prepared"} => proc[k].seen.learned
  BY <1>1, <1>3 DEF StageOK, Transits, Sending, Follows
<1> QED BY <1>2, <1>3, <1>5, <1>6, <1>7

\* The receipt a transition writes and what becomes of its process.
Written(k) == [proc[k].seen EXCEPT !.rev = @ + 1, !.phase = Target(k), !.learned = @ \/ At(k, "prepared")]
LEMMA WrittenIs ==
  ASSUME NEW k \in Procs, proc[k].seen \in Receipts, Target(k) \in Phases
  PROVE  /\ Written(k) \in Receipts /\ Written(k).phase = Target(k)
         /\ Written(k).rev = proc[k].seen.rev + 1
         /\ Written(k).learned = (proc[k].seen.learned \/ proc[k].at = "prepared")
<1> DEFINE b == proc[k].seen.learned \/ proc[k].at = "prepared"
           t == Target(k)
<1>1. Written(k) = [proc[k].seen EXCEPT !.rev = @ + 1, !.phase = t, !.learned = b]
  BY DEF Written, At
<1>2. b \in BOOLEAN /\ t \in Phases
  OBVIOUS
<1>3. b = (proc[k].seen.learned \/ proc[k].at = "prepared")
  OBVIOUS
<1>4. t = Target(k)
  OBVIOUS
<1> HIDE DEF b, t
<1>5. proc[k].seen.rev + 1 \in Nat /\ proc[k].seen = [rev |-> proc[k].seen.rev, phase |-> proc[k].seen.phase, learned |-> proc[k].seen.learned]
  BY DEF Receipts
<1>6. Written(k) = [rev |-> proc[k].seen.rev + 1, phase |-> t, learned |-> b]
  BY <1>1, <1>5
<1>7. Written(k) \in Receipts
  BY <1>2, <1>5, <1>6 DEF Receipts
<1>8. Written(k).phase = t /\ Written(k).rev = proc[k].seen.rev + 1
  BY <1>6
<1>9. Written(k).learned = b
  BY <1>6
<1> QED BY <1>3, <1>4, <1>7, <1>8, <1>9

LEMMA ReplaceDoes ==
  ASSUME RequestAssumption, RequestInv, NEW k \in Procs, Replace(k)
  PROVE  LET i == proc[k].of IN
         /\ proc[k].at \in Transits /\ i \in Intents /\ lock[i] = k
         /\ Written(k) \in Receipts /\ Written(k).phase = Target(k)
         /\ Written(k).rev = proc[k].seen.rev + 1
         /\ Written(k).learned = (proc[k].seen.learned \/ proc[k].at = "prepared")
         /\ receipt'[i] = Written(k) /\ \A x \in Intents : x # i => receipt'[x] = receipt[x]
         /\ lock'[i] = Nobody /\ \A x \in Intents : x # i => lock'[x] = lock[x] /\ lock[x] # k
         /\ answer'[k] = None /\ \A j \in Procs : j # k => answer'[j] = answer[j]
         /\ OnlyProc(k) /\ Stays(k) /\ proc'[k].at = Then(k)
         /\ Then(k) # "gone" => proc'[k].seen = Written(k)
         /\ proc'[k].expired \subseteq aged
<1> USE DEF Replace
<1> DEFINE i == proc[k].of
           r == Written(k)
           p == IF Then(k) = "gone" THEN Gone(k) ELSE [proc[k] EXCEPT !.at = Then(k), !.seen = r]
<1>1. TypesOK /\ StageOK(k) /\ proc[k].at \in Transits
  BY DEF RequestInv
<1>2. i \in Intents /\ proc[k].seen \in Receipts /\ Target(k) \in Phases
  BY <1>1, TransitOf
<1>3. /\ r \in Receipts /\ r.phase = Target(k) /\ r.rev = proc[k].seen.rev + 1
      /\ r.learned = (proc[k].seen.learned \/ proc[k].at = "prepared")
  BY <1>2, WrittenIs
<1>4. proc \in [Procs -> Locals] /\ proc[k] \in Locals
  BY <1>1 DEF TypesOK
<1>5. proc' = [proc EXCEPT ![k] = p]
  BY <1>4 DEF Written
<1>6. Then(k) \in Places
  BY DEF Then, Places, Transits
<1>7. /\ p \in Locals /\ p.cmd = proc[k].cmd /\ p.of = proc[k].of /\ p.at = Then(k)
      /\ Then(k) # "gone" => p.seen = r
      /\ p.expired \subseteq aged
  BY <1>1, <1>3, <1>4, <1>6, GoneIs DEF Locals, StageOK
<1> HIDE DEF p
<1>8. OnlyProc(k) /\ proc'[k] = p
  BY <1>4, <1>5 DEF OnlyProc
<1>9. receipt' = [receipt EXCEPT ![i] = r] /\ receipt \in [Intents -> Receipts \cup {None}]
  BY <1>1 DEF TypesOK, Written
<1>10. lock' = [lock EXCEPT ![i] = Nobody] /\ lock \in [Intents -> Procs \cup {Nobody}]
  BY <1>1 DEF TypesOK
<1>11. \A x \in Intents : lock[x] = k => x = i
  BY DEF RequestInv, Locked, LockedBy
<1>12. answer' = [answer EXCEPT ![k] = None] /\ answer \in [Procs -> States \cup {None}]
  BY <1>1 DEF TypesOK
<1>13. receipt'[i] = Written(k) /\ \A x \in Intents : x # i => receipt'[x] = receipt[x]
  BY <1>2, <1>9
<1>14. lock'[i] = Nobody /\ \A x \in Intents : x # i => lock'[x] = lock[x] /\ lock[x] # k
  BY <1>2, <1>10, <1>11
<1>15. answer'[k] = None /\ \A j \in Procs : j # k => answer'[j] = answer[j]
  BY <1>12
<1> QED BY <1>1, <1>2, <1>3, <1>7, <1>8, <1>13, <1>14, <1>15 DEF Stays

\* What a transition closes: the effect of its own command, once its answer is on record.
LEMMA ReplaceCloses ==
  ASSUME RequestAssumption, RequestInv, NEW k \in Procs, Replace(k)
  PROVE  /\ open' \in [Effects -> SUBSET Procs] /\ sent' = sent
         /\ \A e \in Effects : open'[e] \subseteq open[e]
         /\ \A e \in Effects : e[1] # proc[k].of => open'[e] = open[e]
         /\ \A e \in Effects, j \in Procs : j # k => (j \in open'[e] <=> j \in open[e])
         /\ \A e \in Effects : k \in open'[e] => proc[k].at = "lost"
<1> USE DEF Replace
<1> DEFINE i == proc[k].of
           c == <<i, IF proc[k].cmd = "cancel" THEN "cancel" ELSE "dispatch">>
<1>1. TypesOK /\ OpenTo(k) /\ StageOK(k) /\ proc[k].at \in Transits /\ i \in Intents
  BY TransitOf DEF RequestInv, Opens
<1>2. open \in [Effects -> SUBSET Procs] /\ sent' = sent
  BY <1>1 DEF TypesOK
<1>3. c \in Effects /\ c[1] = i
  BY <1>1 DEF Effects
<1>4. CASE proc[k].at = "done" /\ proc[k].cmd # "status"
  <2>1. open' = [open EXCEPT ![c] = @ \ {k}]
    BY <1>4 DEF At
  <2>2. \A e \in Effects : k \in open[e] => e = c
    BY <1>1, <1>3 DEF OpenTo, Effects
  <2> HIDE DEF c
  <2>3. open'[c] = open[c] \ {k} /\ \A e \in Effects : e # c => open'[e] = open[e]
    BY <1>2, <1>3, <2>1
  <2>4. open' \in [Effects -> SUBSET Procs]
    BY <1>2, <1>3, <2>1
  <2>5. ASSUME NEW e \in Effects
        PROVE  /\ open'[e] = open[e] \ {k} \/ (e # c /\ open'[e] = open[e])
               /\ k \notin open'[e]
    BY <2>2, <2>3
  <2> QED BY <1>2, <1>3, <2>3, <2>4, <2>5
<1>5. CASE ~(proc[k].at = "done" /\ proc[k].cmd # "status")
  <2>1. open' = open
    BY <1>5 DEF At
  <2>2. \A e \in Effects : k \in open[e] => proc[k].at = "lost"
    BY <1>1, <1>5 DEF OpenTo, Transits
  <2> QED BY <1>2, <2>1, <2>2
<1> QED BY <1>4, <1>5

LEMMA ReplaceKept ==
  ASSUME RequestAssumption, RequestInv, NEW k \in Procs, Replace(k)
  PROVE  Kept(k)
<1> DEFINE i == proc[k].of
           r == Written(k)
<1>1. /\ TypesOK /\ StageOK(k) /\ UnbornTo(k) /\ OpenTo(k) /\ MailedTo(k) /\ EndingTo(k)
      /\ proc[k].at \in Transits
      /\ UNCHANGED <<capacity, wire, server, sent, aged, stops>>
      /\ receipt' = [receipt EXCEPT ![i] = receipt'[i]]
      /\ lock' = [lock EXCEPT ![i] = Nobody]
      /\ answer' = [answer EXCEPT ![k] = None]
  BY DEF RequestInv, Unborn, Opens, Mailed, Ending, Replace, TypesOK
<1>2. /\ i \in Intents /\ proc[k].seen \in Receipts /\ Target(k) \in Phases
      /\ proc[k].cmd \in {"request", "status", "cancel"}
      /\ Target(k) \in Ended => server[i] \in Ended
      /\ proc[k].at \notin {"begin", "failed", "prepared"} => proc[k].seen.learned
  BY <1>1, TransitOf
<1>3. /\ lock[i] = k
      /\ r \in Receipts /\ r.phase = Target(k) /\ r.rev = proc[k].seen.rev + 1
      /\ r.learned = (proc[k].seen.learned \/ proc[k].at = "prepared")
      /\ receipt'[i] = r /\ \A x \in Intents : x # i => receipt'[x] = receipt[x]
      /\ lock'[i] = Nobody /\ \A x \in Intents : x # i => lock'[x] = lock[x] /\ lock[x] # k
      /\ answer'[k] = None /\ \A j \in Procs : j # k => answer'[j] = answer[j]
      /\ OnlyProc(k) /\ Stays(k) /\ proc'[k].at = Then(k)
      /\ Then(k) # "gone" => proc'[k].seen = r
      /\ proc'[k].expired \subseteq aged
  BY ReplaceDoes
<1>4. /\ open' \in [Effects -> SUBSET Procs]
      /\ \A e \in Effects : open'[e] \subseteq open[e]
      /\ \A e \in Effects : e[1] # i => open'[e] = open[e]
      /\ \A e \in Effects, j \in Procs : j # k => (j \in open'[e] <=> j \in open[e])
      /\ \A e \in Effects : k \in open'[e] => proc[k].at = "lost"
  BY ReplaceCloses
<1>5. /\ proc[k].at = "begin" => Target(k) = "prepare_started" /\ Then(k) = "prepare"
      /\ proc[k].at = "prepared" => Target(k) = "prepared" /\ Then(k) = "reserve"
      /\ proc[k].at = "failed" => Target(k) = "unknown" /\ Then(k) = "gone"
      /\ proc[k].at = "reserve" => Target(k) = "dispatch_started" /\ Then(k) = "post"
      /\ proc[k].at = "lost" => Target(k) = "dispatch_started" /\ Then(k) = "gone"
      /\ proc[k].at = "mark" => Target(k) = "cancel_started" /\ Then(k) = "post"
      /\ proc[k].at = "done" =>
              /\ Then(k) = "gone"
              /\ proc[k].cmd = "status" => Target(k) = AfterStatus(k)
  BY <1>1, TargetIs
<1> HIDE DEF r
<1>6. Frame(k) /\ OwnIntent(k)
  BY <1>1, <1>3, <1>4 DEF Frame, OwnIntent
<1>7. TypesOK'
  <2>1. receipt' \in [Intents -> Receipts \cup {None}] /\ lock' \in [Intents -> Procs \cup {Nobody}]
    BY <1>1, <1>3 DEF TypesOK
  <2>2. old' \subseteq aged
    BY <1>1 DEF Replace, TypesOK
  <2>3. proc' \in [Procs -> Locals]
    <3>1. proc \in [Procs -> Locals] /\ proc[k] \in Locals /\ Then(k) \in Places
      BY <1>1 DEF TypesOK, Then, Places, Transits
    <3>2. [proc[k] EXCEPT !.at = Then(k), !.seen = r] \in Locals /\ Gone(k) \in Locals
      BY <1>1, <1>3, <3>1, GoneIs DEF Locals
    <3>3. proc' = [proc EXCEPT ![k] = IF Then(k) = "gone" THEN Gone(k)
                                      ELSE [proc[k] EXCEPT !.at = Then(k), !.seen = r]]
      BY <3>1 DEF Replace, Written, r
    <3> QED BY <3>1, <3>2, <3>3
  <2> QED BY <1>1, <1>4, <2>1, <2>2, <2>3 DEF TypesOK
<1>8. StageOK(k)'
  BY <1>1, <1>2, <1>3, <1>5 DEF StageOK, Stays, Transits, Opening, Preparing, Sending, Follows
<1>9. UnbornTo(k)'
  BY <1>1, <1>2, <1>3, <1>5 DEF UnbornTo, Stays, Transits, Opening, At
<1>10. OpenTo(k)'
  BY <1>1, <1>3, <1>4, <1>5 DEF OpenTo, Stays, Transits
<1>11. MailedTo(k)'
  BY <1>1, <1>3, <1>5 DEF MailedTo, Stays, Transits, At
<1>12. EndingTo(k)'
  <2>1. None \notin Ended
    BY DEF RequestAssumption, States
  <2>2. proc[k].cmd = "status" => Then(k) = "gone"
    BY <1>1, <1>5 DEF StageOK, Transits, Preparing
  <2> QED BY <1>3, <2>1, <2>2 DEF EndingTo, Sending, Stays
<1>13. \A x \in Intents : LockedBy(k, x)'
  BY <1>3 DEF LockedBy, RequestAssumption
<1>14. Capacity'
  BY <1>1, <1>3, CapacityApart DEF RequestInv, Capacity, TypesOK, OnlyProc, At, Transits
<1>15. \A x \in Intents, j \in Procs : Cancelling(j, x)' =>
         Cancelling(j, x) \/ (j = k /\ x = i /\ proc[k].at = "mark")
  <2> SUFFICES ASSUME NEW x \in Intents, NEW j \in Procs, Cancelling(j, x)'
               PROVE  Cancelling(j, x) \/ (j = k /\ x = i /\ proc[k].at = "mark")
    OBVIOUS
  <2>1. <<x, "cancel">> \in Effects
    BY DEF Effects
  <2>2. CASE j # k
    BY <1>3, <1>4, <2>1, <2>2 DEF Cancelling, OnlyProc, At
  <2>3. CASE j = k
    BY <1>1, <1>3, <1>4, <1>5, <2>1, <2>3 DEF Cancelling, Stays, At, StageOK, Transits
  <2> QED BY <2>2, <2>3
\* While another process cancels, the transition records that again.
<1>16. ASSUME NEW j \in Procs, j # k, Cancelling(j, i)
       PROVE  Target(k) = "cancel_started" /\ proc[k].at # "mark"
  <2>1. proc[k].seen.phase = "cancel_started"
    BY <1>2, <1>3, <1>16 DEF RequestInv, CancelMarked, Marked, RequestAssumption
  <2>2. <<i, "cancel">> \in Effects
    BY <1>2 DEF Effects
  <2>3. proc[k].at = "done" => proc[k].cmd # "cancel"
    BY <1>1, <1>2, <1>16 DEF RequestInv, OneCancel, Cancelling, OpenTo
  <2>4. proc[k].at = "done" /\ proc[k].cmd = "status"
    BY <1>1, <1>2, <2>1, <2>3 DEF StageOK, Transits, Preparing, Sending, MayCancel
  <2> QED BY <1>5, <2>1, <2>4 DEF AfterStatus
<1>17. CancelMarked' /\ OneCancel'
  <2>1. ASSUME NEW x \in Intents, NEW j \in Procs, Cancelling(j, x)'
        PROVE  Marked(x)'
    <3>1. CASE x = i
      <4>1. Target(k) = "cancel_started"
        <5>1. j = k => proc[k].at \in {"mark", "done"}
          BY <1>1, <1>4, <1>15, <2>1, <3>1 DEF Cancelling, OpenTo, Effects, Transits, At, StageOK
        <5>2. j = k => proc[k].at = "mark"
          <6>1. <<x, "cancel">> \in Effects
            BY DEF Effects
          <6>2. j = k => proc'[k].at = "post"
            BY <1>3, <1>4, <2>1, <5>1, <6>1 DEF Cancelling, At
          <6> QED BY <1>3, <1>5, <5>1, <6>2
        <5> QED BY <1>5, <1>15, <1>16, <2>1, <3>1, <5>2
      <4> QED BY <1>3, <3>1, <4>1 DEF Marked
    <3>2. CASE x # i
      <4>1. Marked(x)
        BY <1>15, <2>1, <3>2 DEF RequestInv, CancelMarked
      <4>2. lock'[x] # Nobody => lock'[x] = lock[x] /\ lock[x] \in Procs /\ lock[x] # k
        BY <1>1, <1>3, <3>2 DEF TypesOK
      <4> QED BY <1>3, <3>2, <4>1, <4>2 DEF Marked, OnlyProc
    <3> QED BY <3>1, <3>2
  <2>2. ASSUME NEW x \in Intents, NEW j \in Procs, NEW l \in Procs,
               Cancelling(j, x)', Cancelling(l, x)'
        PROVE  j = l
    BY <1>15, <1>16, <2>2 DEF RequestInv, OneCancel
  <2> QED BY <2>1, <2>2 DEF CancelMarked, OneCancel
<1>18. Located'
  <2> SUFFICES ASSUME NEW x \in Intents \ aged, Dispatched(x)'
               PROVE  receipt'[x] # None /\ receipt'[x].learned
    BY <1>1 DEF Located
  <2>1. CASE x # i
    <3>1. Dispatched(x)
      BY <1>1, <1>3, <2>1 DEF Dispatched, Requests, OnlyProc, Stays
    <3> QED BY <1>3, <2>1, <3>1 DEF RequestInv, Located
  <2>2. CASE x = i /\ proc[k].at \notin {"begin", "failed"}
    BY <1>2, <1>3, <2>2 DEF RequestAssumption
  <2>3. CASE x = i /\ proc[k].at \in {"begin", "failed"}
    <3>1. proc'[k].at \in {"prepare", "gone"}
      BY <1>3, <1>5, <2>3
    <3>2. Dispatched(x)
      BY <1>1, <1>3, <2>3, <3>1 DEF Dispatched, Requests, OnlyProc, Stays
    <3>3. receipt[i] # None /\ receipt[i].learned
      BY <2>3, <3>2 DEF RequestInv, Located
    <3>4. receipt[i] = proc[k].seen
      BY <1>1, <1>2, <1>3, <3>3 DEF RequestInv, Locked, LockedBy
    <3> QED BY <1>3, <2>3, <3>3, <3>4 DEF RequestAssumption
  <2> QED BY <2>1, <2>2, <2>3
<1>19. \A x \in Intents : receipt'[x] # None /\ receipt'[x].phase \in Ended => server[x] \in Ended
  BY <1>2, <1>3 DEF RequestInv, Ending
<1> QED BY <1>6, <1>7, <1>8, <1>9, <1>10, <1>11, <1>12, <1>13, <1>14, <1>17, <1>18, <1>19 DEF Kept
-----------------------------------------------------------------------------
(* The service and time *)

\* A workflow that has ended stays so, and one that does not exist comes from a prepare.
LEMMA EffectIs ==
  ASSUME NEW what \in {"prepare", "dispatch", "status", "cancel"}, NEW state \in States,
         NEW after \in Effect(what, state)
  PROVE  /\ after \in States
         /\ what # "prepare" /\ state \in Ended => after = state
         /\ what \in {"status", "cancel"} /\ state = "none" => after = "none"
BY DEF Effect, States, Ended

LEMMA ServeStep ==
  ASSUME RequestAssumption, RequestInv, NEW m \in wire, Serve(m)
  PROVE  RequestInv'
<1> DEFINE k == m.from
           i == proc[k].of
<1> USE DEF store, locks, history
<1>1. /\ TypesOK /\ m \in Messages /\ k \in Procs /\ wire' = wire \ {m}
      /\ UNCHANGED <<receipt, old, lock, capacity, proc, open, sent, aged>>
  BY DEF RequestInv, TypesOK, Messages, Serve
<1>2. StageOK(k) /\ MailedTo(k)
  BY <1>1 DEF RequestInv, Mailed
<1>3. /\ i \in Intents /\ proc[k].at \in {"await", "failed", "wait", "lost", "gone"}
      /\ \A n \in wire' : n.from # k
  BY <1>1, <1>2 DEF MailedTo, StageOK
<1>4. PICK state \in Effect(m.what, server[i]) :
        /\ server' = [server EXCEPT ![i] = state]
        /\ answer' = [answer EXCEPT ![k] = IF At(k, "gone") THEN None ELSE state]
  BY DEF Serve
<1>5. server[i] \in States /\ m.what \in {"prepare", "dispatch", "status", "cancel"}
  BY <1>1, <1>3 DEF TypesOK, Messages
<1>6. /\ state \in States
      /\ m.what # "prepare" /\ server[i] \in Ended => state = server[i]
      /\ m.what \in {"status", "cancel"} /\ server[i] = "none" => state = "none"
  BY <1>5, EffectIs
<1>7. m.what = "prepare" => server[i] = "none"
  BY <1>2 DEF MailedTo
<1>8. "none" \notin Ended /\ None \notin Ended
  BY DEF Ended, RequestAssumption, States
<1>9. server[i] \in Ended => state = server[i]
  BY <1>6, <1>7, <1>8
<1>10. server'[i] = state /\ \A x \in Intents : x # i => server'[x] = server[x]
  BY <1>1, <1>3, <1>4 DEF TypesOK
<1>11. answer'[k] \in {None, state} /\ \A j \in Procs : j # k => answer'[j] = answer[j]
  BY <1>1, <1>4 DEF TypesOK
\* Only its requester can give an intent a workflow.
<1>12. ASSUME NEW j \in Procs, j # k, Requests(j, i), server[i] = "none"
       PROVE  server'[i] = "none"
  <2>1. proc[k].cmd # "request"
    BY <1>1, <1>3, <1>12 DEF RequestInv, OneRequester, Requests
  <2>2. m.what \in {"status", "cancel"}
    BY <1>1, <1>2, <1>5, <2>1 DEF MailedTo
  <2> QED BY <1>6, <1>10, <1>12, <2>2
<1> HIDE DEF k, i
<1>13. TypesOK'
  BY <1>1, <1>3, <1>4, <1>6 DEF TypesOK
<1>14. (\A j \in Procs : StageOK(j)') /\ OneRequester'
  BY <1>1 DEF RequestInv, StageOK, OneRequester, Requests, Follows
<1>15. Unborn'
  <2> SUFFICES ASSUME NEW j \in Procs PROVE UnbornTo(j)'
    BY DEF Unborn
  <2>1. UnbornTo(j) /\ StageOK(j)
    BY DEF RequestInv, Unborn
  <2>2. ASSUME proc[j].at \in Opening
        PROVE  proc[j].of \in Intents /\ proc[j].of # i /\ Alone(proc[j].of)
    <3>1. Alone(proc[j].of) /\ (proc[k].of = proc[j].of => k = j)
      BY <1>1, <2>1, <2>2 DEF UnbornTo
    <3>2. k # j
      BY <1>3, <2>2 DEF Opening
    <3> QED BY <2>1, <2>2, <3>1, <3>2 DEF StageOK, Opening, i
  <2>3. proc[j].at \in Opening => Alone(proc[j].of)'
    BY <1>1, <1>10, <2>2 DEF Alone
  <2>4. At(j, "begin") \/ At(j, "prepare") => server'[proc[j].of] = "none"
    <3>1. ASSUME At(j, "begin") \/ At(j, "prepare")
          PROVE  /\ proc[j].of \in Intents /\ server[proc[j].of] = "none" /\ j # k
                 /\ Requests(j, proc[j].of)
      BY <1>3, <2>1, <3>1 DEF At, StageOK, UnbornTo, Requests, Preparing
    <3> QED BY <1>10, <1>12, <3>1
  <2> QED BY <1>1, <2>1, <2>3, <2>4 DEF UnbornTo, At
<1>16. Uncalled'
  <2> SUFFICES ASSUME NEW x \in Intents, \A j \in Procs : ~Requests(j, x)'
               PROVE  Alone(x)' /\ \A j \in Procs : proc'[j].of # x
    BY DEF Uncalled
  <2>1. Alone(x) /\ \A j \in Procs : proc[j].of # x
    BY <1>1 DEF RequestInv, Uncalled, Requests
  <2>2. x # i
    BY <1>1, <2>1 DEF i
  <2> QED BY <1>1, <1>10, <2>1, <2>2 DEF Alone
<1>17. Locked' /\ Capacity' /\ Opens' /\ Located'
  BY <1>1 DEF RequestInv, Locked, LockedBy, Capacity, Opens, OpenTo, Located, Dispatched, Requests, At
<1>18. CancelMarked' /\ OneCancel'
  BY <1>1 DEF RequestInv, CancelMarked, OneCancel, Cancelling, Marked, At
<1>19. Mailed'
  <2> SUFFICES ASSUME NEW j \in Procs PROVE MailedTo(j)'
    BY DEF Mailed
  <2>1. MailedTo(j) /\ StageOK(j)
    BY DEF RequestInv, Mailed
  <2>2. CASE j = k
    BY <1>1, <1>3, <2>1, <2>2 DEF MailedTo, At
  <2>3. CASE j # k
    <3>1. ASSUME NEW n \in wire', n.from = j, n.what = "prepare"
          PROVE  server'[proc[j].of] = "none"
      <4>1. /\ n \in wire /\ proc[j].cmd = "request" /\ server[proc[j].of] = "none"
            /\ proc[j].at # "start"
        BY <1>1, <2>1, <3>1 DEF MailedTo
      <4>2. proc[j].of \in Intents
        BY <2>1, <4>1 DEF StageOK
      <4>3. Requests(j, proc[j].of)
        BY <4>1 DEF Requests
      <4> QED BY <1>10, <1>12, <2>3, <4>1, <4>2, <4>3
    <3> QED BY <1>1, <1>11, <2>1, <2>3, <3>1 DEF MailedTo, At
  <2> QED BY <2>2, <2>3
<1>20. Ending'
  <2>1. ASSUME NEW j \in Procs
        PROVE  EndingTo(j)'
    <3>1. EndingTo(j) /\ StageOK(j) /\ MailedTo(j)
      BY DEF RequestInv, Ending, Mailed
    <3>2. \A x \in Intents : server[x] \in Ended => server'[x] = server[x]
      BY <1>9, <1>10
    <3>3. CASE j = k
      <4>1. answer'[k] \in Ended => server'[proc'[k].of] = answer'[k]
        BY <1>1, <1>8, <1>10, <1>11 DEF i
      <4>2. ASSUME proc'[k].cmd = "status", proc'[k].at \in Sending, proc'[k].seen.phase \in Ended
            PROVE  server'[proc'[k].of] \in Ended /\ (answer'[k] # None => answer'[k] \in Ended)
        <5>1. server[i] \in Ended
          BY <1>1, <3>1, <3>3, <4>2 DEF EndingTo, i
        <5> QED BY <1>1, <1>9, <1>10, <1>11, <5>1 DEF i
      <4> QED BY <3>3, <4>1, <4>2 DEF EndingTo
    <3>4. CASE j # k
      <4>1. proc[j].at = "start" => proc[j].cmd # "status" /\ answer[j] = None
        BY <3>1 DEF StageOK, MailedTo, At
      <4>2. proc[j].at # "start" => proc[j].of \in Intents
        BY <3>1 DEF StageOK
      <4>3. answer'[j] \in Ended => server'[proc[j].of] = answer'[j]
        BY <1>8, <1>11, <3>1, <3>2, <3>4, <4>1, <4>2 DEF EndingTo
      <4>4. proc[j].cmd = "status" /\ proc[j].at \in Sending /\ proc[j].seen.phase \in Ended =>
              server'[proc[j].of] \in Ended /\ (answer'[j] # None => answer'[j] \in Ended)
        BY <1>11, <3>1, <3>2, <3>4, <4>1, <4>2 DEF EndingTo
      <4> QED BY <1>1, <4>3, <4>4 DEF EndingTo
    <3> QED BY <3>3, <3>4
  <2>2. \A x \in Intents : receipt'[x] # None /\ receipt'[x].phase \in Ended => server'[x] \in Ended
    BY <1>1, <1>9, <1>10 DEF RequestInv, Ending
  <2> QED BY <2>1, <2>2 DEF Ending
<1> QED BY <1>13, <1>14, <1>15, <1>16, <1>17, <1>18, <1>19, <1>20 DEF RequestInv

LEMMA AgeStep ==
  ASSUME RequestInv, NEW i \in Intents, Age(i)
  PROVE  RequestInv'
<1> USE DEF Age, locks, net, history
<1>1. TypesOK'
  BY DEF RequestInv, TypesOK
<1>2. (\A k \in Procs : StageOK(k)') /\ OneRequester'
  BY DEF RequestInv, StageOK, OneRequester, Requests, Follows
<1>3. Unborn' /\ Uncalled'
  <2>1. \A x \in Intents : Alone(x)' <=> Alone(x)
    BY DEF Alone
  <2>2. \A k \in Procs : proc[k].at \in Opening => proc[k].of \in Intents
    BY DEF RequestInv, StageOK, Opening
  <2>3. \A k \in Procs : proc[k].at \in Opening => Alone(proc[k].of)'
    BY <2>1, <2>2 DEF RequestInv, Unborn, UnbornTo, Alone
  <2>4. \A k \in Procs : UnbornTo(k)'
    BY <2>3 DEF RequestInv, Unborn, UnbornTo, At
  <2> QED BY <2>1, <2>4 DEF RequestInv, Unborn, Uncalled, Requests
<1>4. Locked' /\ Capacity' /\ Opens'
  BY DEF RequestInv, Locked, LockedBy, Capacity, Opens, OpenTo, At
<1>5. CancelMarked' /\ OneCancel'
  BY DEF RequestInv, CancelMarked, OneCancel, Cancelling, Marked, At
<1>6. Mailed' /\ Ending'
  BY DEF RequestInv, Mailed, MailedTo, Ending, EndingTo, At
<1>7. Located'
  BY DEF RequestInv, Located, Dispatched, Requests
<1> QED BY <1>1, <1>2, <1>3, <1>4, <1>5, <1>6, <1>7 DEF RequestInv

LEMMA NextRequest ==
  ASSUME RequestAssumption, RequestInv, [Next]_vars
  PROVE  RequestInv'
<1>1. ASSUME NEW k \in Procs, Command(k)
      PROVE  RequestInv'
  <2>1. Kept(k)
    BY <1>1, BeginKept, StartFollowKept, SurveyKept, PruneKept, CompareKept, ReplaceKept,
       ConflictKept, PostKept, ReceiveKept, LostKept, StopKept DEF Command
  <2> QED BY <2>1, FromKept
<1>2. CASE UNCHANGED vars
  <2> USE <1>2 DEF vars, store, locks, net, history
  <2>1. /\ TypesOK' /\ (\A k \in Procs : StageOK(k)') /\ OneRequester'
        /\ Locked' /\ Capacity' /\ Opens' /\ Located'
    BY DEF RequestInv, TypesOK, StageOK, OneRequester, Requests, Follows, Locked, LockedBy,
           Capacity, Opens, OpenTo, Located, Dispatched, At
  <2>2. Unborn' /\ Uncalled'
    BY DEF RequestInv, Unborn, UnbornTo, Uncalled, Alone, Requests, At
  <2>3. CancelMarked' /\ OneCancel' /\ Mailed' /\ Ending'
    BY DEF RequestInv, CancelMarked, OneCancel, Cancelling, Marked, Mailed, MailedTo, Ending, EndingTo, At
  <2> QED BY <2>1, <2>2, <2>3 DEF RequestInv
<1> QED BY <1>1, <1>2, ServeStep, AgeStep DEF Next
-----------------------------------------------------------------------------
(* The theorems *)

\* What is invariant, with any number of requests and mishaps.
THEOREM RequestAlways == ASSUME RequestAssumption PROVE Spec => []RequestInv
<1>1. Init => RequestInv
  BY InitRequest
<1>2. RequestInv /\ [Next]_vars => RequestInv'
  BY NextRequest
<1> QED BY <1>1, <1>2, PTL DEF Spec

\* Receipts have a phase of PHASES, a lock is held by a process of its intent between the
\* steps it protects, the capacity lock by one that prunes.
THEOREM AgentRequestTyping == ASSUME RequestAssumption PROVE Spec => []AgentRequestTypeOK
<1>1. RequestInv => AgentRequestTypeOK
  <2> SUFFICES ASSUME RequestInv PROVE AgentRequestTypeOK
    OBVIOUS
  <2>1. TypesOK
    BY DEF RequestInv
  <2>2. \A i \in Present : receipt[i].phase \in Phases /\ receipt[i].rev \in Nat
    BY <2>1 DEF Present, TypesOK, Receipts
  <2>3. \A i \in Intents : lock[i] \in Procs =>
          proc[lock[i]].of = i /\ proc[lock[i]].at \in Transits \cup {"survey", "prune"}
    BY DEF RequestInv, Locked, LockedBy, Opening
  <2>4. capacity \in Procs => At(capacity, "prune")
    BY DEF RequestInv, Capacity, RequestAssumption, At
  <2> QED BY <2>1, <2>2, <2>3, <2>4 DEF AgentRequestTypeOK, TypesOK
<1> QED BY <1>1, RequestAlways, PTL

\* Whatever requests of other intents prune meanwhile: what was dispatched and has not
\* outlived RETAIN_MS has a receipt that knows its workflow.
THEOREM LocatorIsKept == ASSUME RequestAssumption PROVE Spec => []LocatorKept
<1>1. RequestInv => LocatorKept
  BY DEF RequestInv, Located, Dispatched, LocatorKept
<1> QED BY <1>1, RequestAlways, PTL

\* transition writes only over the receipt it has read, and nothing but a status whose
\* answer is an ending too or a cancellation reads an ending to go on from it.
LEMMA ResultKept == ASSUME RequestAssumption, RequestInv, [Next]_vars PROVE KeepsResult
<1> SUFFICES ASSUME NEW i \in Intents, receipt[i] # None, receipt'[i] # None, receipt[i].phase \in Ended
             PROVE  receipt'[i].phase \in Ended \cup {"cancel_started"} /\ receipt'[i].rev >= receipt[i].rev
  BY DEF KeepsResult
<1>1. TypesOK /\ receipt[i] \in Receipts /\ receipt[i].rev \in Nat
  BY DEF RequestInv, TypesOK, Receipts
<1>2. CASE receipt'[i] = receipt[i]
  BY <1>1, <1>2
<1>3. ASSUME NEW k \in Procs, Prune(k)
      PROVE  receipt'[i] = receipt[i]
  <2>1. Alone(proc[k].of)
    BY <1>3 DEF RequestInv, Unborn, UnbornTo, Prune, Opening, At
  <2> QED BY <1>3, <2>1 DEF Prune, Alone
<1>4. ASSUME NEW k \in Procs, Replace(k), proc[k].of = i
      PROVE  receipt'[i].phase \in Ended \cup {"cancel_started"} /\ receipt'[i].rev >= receipt[i].rev
  <2>1. /\ proc[k].at \in Transits /\ lock[i] = k
        /\ receipt'[i] = Written(k) /\ Written(k).phase = Target(k)
        /\ Written(k).rev = proc[k].seen.rev + 1
    BY <1>4, ReplaceDoes
  <2>2. receipt[i] = proc[k].seen
    BY <2>1 DEF RequestInv, Locked, LockedBy
  <2>3. StageOK(k) /\ EndingTo(k) /\ MailedTo(k)
    BY DEF RequestInv, Ending, Mailed
  <2>4. \/ proc[k].at = "mark"
        \/ proc[k].at = "done" /\ proc[k].cmd = "status"
    BY <2>1, <2>2, <2>3, TransitOf DEF StageOK, Transits, Preparing, Sending, Ended, MayCancel
  <2>5. proc[k].at = "done" /\ proc[k].cmd = "status" => Target(k) \in Ended
    <3> SUFFICES ASSUME proc[k].at = "done", proc[k].cmd = "status" PROVE Target(k) \in Ended
      OBVIOUS
    <3>1. answer[k] \in Ended
      BY <2>2, <2>3 DEF MailedTo, EndingTo, Sending, At
    <3>2. Target(k) = AfterStatus(k)
      BY <2>1, TargetIs
    <3> QED BY <2>2, <3>1, <3>2 DEF AfterStatus, Outcome, Ended
  <2>6. Target(k) \in Ended \cup {"cancel_started"}
    BY <2>1, <2>4, <2>5, TargetIs
  <2> QED BY <1>1, <2>1, <2>2, <2>6
<1>5. ASSUME NEW k \in Procs, Replace(k), proc[k].of # i
      PROVE  receipt'[i] = receipt[i]
  BY <1>5, ReplaceDoes
<1>6. CASE \E k \in Procs : Command(k)
  BY <1>2, <1>3, <1>4, <1>5, <1>6
     DEF Command, Begin, StartFollow, Survey, Compare, Conflict, Post, Receive, Lost, Stop, store
<1>7. CASE \/ \E m \in wire : Serve(m)
           \/ \E j \in Intents : Age(j)
           \/ UNCHANGED vars
  BY <1>2, <1>7 DEF Serve, Age, vars, store
<1> QED BY <1>6, <1>7 DEF Next

\* A result that ended the request is replaced by a later one or by the cancellation of a
\* process that has read it, never by what an earlier reader concluded.
THEOREM RequestResultIsKept == ASSUME RequestAssumption PROVE Spec => [][KeepsResult]_vars
<1>1. RequestInv /\ [Next]_vars => [KeepsResult]_vars
  BY ResultKept
<1> QED BY <1>1, RequestAlways, PTL DEF Spec

\* A dispatch leaves once, a cancel while no other is under way, and the record of an
\* outcome accounts for its own.
LEMMA RequestContract ==
  ASSUME RequestAssumption, RequestInv, [Next]_vars
  PROVE  [Contract!Next]_(Contract!vars)
<1> DEFINE count == [c \in Effects |-> Cardinality(open[c])]
<1>1. Cardinality({}) = 0 /\ \A k : Cardinality({k}) = 1
  BY FS_EmptySet, FS_Singleton
<1>2. open \in [Effects -> SUBSET Procs] /\ sent \in [Effects -> Nat]
  BY DEF RequestInv, TypesOK
<1>3. UNCHANGED <<open, sent>> => UNCHANGED Contract!vars
  BY DEF Contract!vars
\* What is not on record, with its process, is of one request or of one cancel.
<1>4. ASSUME NEW e \in Effects, NEW j \in open[e], NEW k \in Procs,
             \/ k \in open[e]
             \/ At(k, "post") /\ proc[k].of = e[1]
                /\ proc[k].cmd = IF e[2] = "dispatch" THEN "request" ELSE "cancel"
      PROVE  j = k
  <2>1. j \in Procs /\ e[1] \in Intents /\ e[2] \in {"dispatch", "cancel"} /\ e = <<e[1], e[2]>>
    BY <1>2 DEF Effects
  <2>2. OpenTo(j) /\ OpenTo(k)
    BY <2>1 DEF RequestInv, Opens
  <2>3. CASE e[2] = "dispatch"
    <3>1. Requests(j, e[1]) /\ Requests(k, e[1])
      BY <1>4, <2>1, <2>2, <2>3 DEF OpenTo, Requests
    <3> QED BY <2>1, <3>1 DEF RequestInv, OneRequester
  <2>4. CASE e[2] = "cancel"
    <3>1. Cancelling(j, e[1]) /\ Cancelling(k, e[1])
      BY <1>4, <2>1, <2>2, <2>4 DEF OpenTo, Cancelling
    <3> QED BY <2>1, <3>1 DEF RequestInv, OneCancel
  <2> QED BY <2>1, <2>3, <2>4
<1>5. ASSUME NEW k \in Procs, Post(k), What(k) \in {"dispatch", "cancel"}
      PROVE  \E c \in Effects : Contract!Send(c)
  <2> DEFINE c == <<proc[k].of, What(k)>>
  <2>1. At(k, "post") /\ proc[k].of \in Intents
    BY <1>5 DEF Post, What, At, RequestInv, StageOK
  <2>2. c \in Effects /\ c[1] = proc[k].of /\ c[2] = What(k)
    BY <1>5, <2>1 DEF Effects
  <2>3. proc[k].cmd = IF What(k) = "dispatch" THEN "request" ELSE "cancel"
    BY <1>5, <2>1, ProcFields DEF RequestInv, Commands, What, At
  <2>4. k \notin open[c]
    BY <2>1, <2>2 DEF RequestInv, Opens, OpenTo, At
  <2> HIDE DEF c
  <2>5. open[c] = {}
    BY <1>4, <2>1, <2>2, <2>3, <2>4
  <2>6. open' = [open EXCEPT ![c] = {k}] /\ sent' = [sent EXCEPT ![c] = @ + 1]
    BY <1>5, <2>5 DEF Post, c
  <2>7. count' = [count EXCEPT ![c] = 1] /\ count[c] = 0
    BY <1>1, <1>2, <2>2, <2>5, <2>6
  <2>8. Contract!Send(c)
    BY <2>6, <2>7 DEF Contract!Send, Effects
  <2> QED BY <2>2, <2>8
<1>6. ASSUME NEW k \in Procs, Post(k), What(k) \notin {"dispatch", "cancel"}
      PROVE  UNCHANGED <<open, sent>>
  BY <1>6 DEF Post, history
<1>7. ASSUME NEW k \in Procs, Replace(k), At(k, "done"), proc[k].cmd # "status"
      PROVE  \/ \E c \in Effects : Contract!Account(c)
             \/ UNCHANGED <<open, sent>>
  <2> DEFINE c == <<proc[k].of, IF proc[k].cmd = "cancel" THEN "cancel" ELSE "dispatch">>
  <2>1. proc[k].of \in Intents
    BY <1>7, TransitOf DEF Transits, At
  <2>2. c \in Effects
    BY <2>1 DEF Effects
  <2>3. open' = [open EXCEPT ![c] = @ \ {k}] /\ sent' = sent
    BY <1>7 DEF Replace
  <2> HIDE DEF c
  <2>4. CASE k \in open[c]
    <3>1. open[c] = {k}
      BY <1>4, <2>2, <2>4
    <3>2. open' = [open EXCEPT ![c] = {}]
      BY <2>3, <3>1
    <3>3. count' = [count EXCEPT ![c] = 0] /\ count[c] = 1
      BY <1>1, <1>2, <2>2, <3>1, <3>2
    <3>4. Contract!Account(c)
      BY <2>3, <3>3 DEF Contract!Account, Effects
    <3> QED BY <2>2, <3>4
  <2>5. CASE k \notin open[c]
    <3>1. open[c] \ {k} = open[c]
      BY <2>5
    <3> QED BY <1>2, <2>3, <3>1
  <2> QED BY <2>4, <2>5
<1>8. ASSUME NEW k \in Procs, Replace(k), ~(At(k, "done") /\ proc[k].cmd # "status")
      PROVE  UNCHANGED <<open, sent>>
  BY <1>8 DEF Replace
<1>9. CASE \E k \in Procs : Command(k)
  <2>1. PICK k \in Procs : Command(k)
    BY <1>9
  <2>2. \/ Post(k) \/ Replace(k) \/ UNCHANGED <<open, sent>>
    BY <2>1 DEF Command, Begin, StartFollow, Survey, Prune, Compare, Conflict, Receive, Lost, Stop, history
  <2> QED BY <1>3, <1>5, <1>6, <1>7, <1>8, <2>2 DEF Contract!Next, Effects
<1>10. CASE \/ \E m \in wire : Serve(m)
            \/ \E j \in Intents : Age(j)
            \/ UNCHANGED vars
  BY <1>3, <1>10 DEF Serve, Age, vars, history
<1> QED BY <1>9, <1>10 DEF Next

\* "A lost dispatch or cancel is never replayed": one leaves only when every earlier one of
\* its kind and intent has its outcome on record, whatever other processes asked meanwhile.
THEOREM RequestIsNeverReplayed == ASSUME RequestAssumption PROVE Spec => NoReplay
<1>1. Init => Contract!Init
  <2>1. Cardinality({}) = 0
    BY FS_EmptySet
  <2> QED BY <2>1 DEF Init, Contract!Init
<1>2. RequestInv /\ [Next]_vars => [Contract!Next]_(Contract!vars)
  BY RequestContract
<1> QED BY <1>1, <1>2, RequestAlways, PTL DEF Spec, NoReplay, Contract!Spec
-----------------------------------------------------------------------------
(***************************************************************************)
(* HerdrLaunch: what was sent was saved first, a final phase on disk is    *)
(* the job's own, and beside one launch-status a reader of the receipt     *)
(* finds it whole once anything was sent.                                  *)
(*                                                                         *)
(* The argument: a job has one end, so whoever has learned it is right for *)
(* ever (Honest); the temporary name is that of the file its creator still *)
(* writes, unless the only other process has unlinked it on its way out    *)
(* (Owned): with a third process it could be another's, not written yet.   *)
(***************************************************************************)
CONSTANTS Launchers,  \* the launcher and those who ask for the status
          Launcher, MaxStops
VARIABLES content, name, temp, launch, posted, job, posts, faults
Launch == INSTANCE HerdrLaunch WITH
  Procs <- Launchers, proc <- launch, wire <- posted, stops <- faults

JobEnds == {"started", "failed"}
Writing(k) == launch[k].at \in {"write", "rename"}
LaunchLocals == [at : {"start", "fill", "sync", "post", "answer", "observe", "compare", "create", "write", "rename", "gone"},
           seen : Launch!Phases \cup {""}, next : Launch!Phases \cup {""}, file : Launch!Inodes \cup {None}]

\* A process that writes has a file of its own.
LaunchTypes ==
  /\ Launch!LaunchTypeOK /\ launch \in [Launchers -> LaunchLocals] /\ posts \in Nat
  /\ \A k \in Launchers : Writing(k) => launch[k].file \in {<<k, 1>>, <<k, 2>>}
  /\ \A k \in Launchers : launch[k].at \in {"compare", "create", "write", "rename"} => launch[k].next # ""

\* What is sent has its receipt: the launcher is past its creation, which nothing undoes.
Making == {"start", "fill", "sync", "post"}
Saved ==
  /\ posts > 0 \/ launch[Launcher].at \in Making \ {"start"} => name # None
  /\ launch[Launcher].at \in Making => posts = 0

\* How a job ended is what it is for ever, whoever has learned or written it.
Honest ==
  /\ \A f \in Launch!Inodes : content[f] \in JobEnds => job = content[f]
  /\ \A k \in Launchers : launch[k].next \in JobEnds => job = launch[k].next

\* Between two processes: whoever writes has its file under the temporary name, unless the
\* other one has unlinked it and is gone.
Owned ==
  \A k \in Launchers : Writing(k) =>
    /\ temp = launch[k].file \/ (temp = None /\ \A j \in Launchers : j # k => launch[j].at = "gone")
    /\ launch[k].file # name
    /\ launch[k].at = "rename" => content[launch[k].file] = launch[k].next
\* An empty receipt is the one its creator has not written yet, or has died over.
Filled ==
  name # None /\ Launch!Recorded = "" =>
    /\ name = Launch!First /\ posts = 0
    /\ launch[Launcher].at \in {"fill", "gone"}
\* One process beside the launcher.
Pair == \E s \in Launchers : Launchers \subseteq {Launcher, s}

LaunchInv == LaunchTypes /\ Saved /\ Honest
PairInv == Owned /\ Filled

LEMMA InitLaunch == ASSUME Launch!LaunchAssumption, Launch!Init PROVE LaunchInv /\ PairInv
<1>1. /\ \A k \in Launchers : launch[k] = Launch!Idle
      /\ launch = [k \in Launchers |-> Launch!Idle] /\ content = [f \in Launch!Inodes |-> ""]
      /\ name = None /\ temp = None /\ job = "none" /\ posts = 0
      /\ Launcher \in Launchers
  BY DEF Launch!Init, Launch!LaunchAssumption
<1>2. LaunchTypes
  <2>1. Launch!Idle \in LaunchLocals
    BY DEF Launch!Idle, LaunchLocals
  <2> QED BY <1>1, <2>1 DEF LaunchTypes, Launch!LaunchTypeOK, Launch!Idle, Writing, Launch!Phases
<1>3. Saved
  <2>1. posts = 0 /\ launch[Launcher].at = "start"
    BY <1>1 DEF Launch!Idle
  <2> QED BY <2>1 DEF Saved
<1>4. Honest
  BY <1>1 DEF Honest, JobEnds, Launch!Idle
<1>5. PairInv
  BY <1>1 DEF PairInv, Owned, Writing, Launch!Idle, Filled
<1> QED BY <1>2, <1>3, <1>4, <1>5 DEF LaunchInv

\* A process writes files of its own, none of them the first.
LEMMA OwnFile ==
  ASSUME Launch!LaunchAssumption, NEW k \in Launchers, NEW n \in {1, 2}
  PROVE  /\ <<k, n>> \in Launch!Inodes /\ <<k, n>> # None
         /\ <<k, n>> # Launch!First /\ Launch!First \in Launch!Inodes
<1>1. <<k, n>> \in Launchers \X {1, 2} /\ n # 0
  OBVIOUS
<1>2. <<k, n>> # Launch!First
  BY <1>1 DEF Launch!First
<1> QED BY <1>1, <1>2 DEF Launch!Inodes, Launch!LaunchAssumption

LEMMA OwnFiles ==
  ASSUME Launch!LaunchAssumption, LaunchTypes, NEW k \in Launchers, Writing(k)
  PROVE  /\ launch[k].file \in Launch!Inodes /\ launch[k].file # None /\ launch[k].file # Launch!First
         /\ \A j \in Launchers : Writing(j) /\ j # k => launch[j].file # launch[k].file
<1>1. \A j \in Launchers : Writing(j) => \E n \in {1, 2} : launch[j].file = <<j, n>>
  BY DEF LaunchTypes
<1>2. PICK n \in {1, 2} : launch[k].file = <<k, n>>
  BY <1>1
<1>3. \A j \in Launchers : Writing(j) /\ j # k => launch[j].file # launch[k].file
  BY <1>1, <1>2
<1> QED BY <1>2, <1>3, OwnFile

\* The fields a step gives to a process, and what it leaves to the others.
LEMMA ProcStep ==
  ASSUME launch \in [Launchers -> LaunchLocals], NEW k \in Launchers, NEW p \in LaunchLocals,
         launch' = [launch EXCEPT ![k] = p]
  PROVE  /\ launch' \in [Launchers -> LaunchLocals] /\ launch'[k] = p
         /\ \A j \in Launchers : j # k => launch'[j] = launch[j]
OBVIOUS

LEMMA RecordedIs ==
  ASSUME LaunchTypes
  PROVE  /\ Launch!Recorded \in Launch!Phases \cup {""}
         /\ name # None => Launch!Recorded = content[name]
         /\ Launch!Recorded # "" => name # None
BY DEF LaunchTypes, Launch!LaunchTypeOK, Launch!Recorded

LEMMA GoneLocals == Launch!Gone \in LaunchLocals /\ Launch!Gone.at = "gone" /\ Launch!Gone.next = ""
BY DEF Launch!Gone, Launch!Idle, LaunchLocals

\* The steps of the creation: the name, what it holds, the launcher's own place.
LEMMA CreateLaunch ==
  ASSUME Launch!LaunchAssumption, LaunchInv,
         Launch!Create \/ Launch!Fill \/ Launch!Sync \/ Launch!FillFails
  PROVE  LaunchInv' /\ (PairInv => PairInv')
<1> USE DEF Launch!LaunchAssumption
<1>1. /\ LaunchTypes /\ launch \in [Launchers -> LaunchLocals] /\ launch[Launcher] \in LaunchLocals
      /\ Launch!First \in Launch!Inodes /\ Launch!First # None /\ Saved /\ Honest
      /\ content \in [Launch!Inodes -> Launch!Phases \cup {""}] /\ posts \in Nat
  BY DEF LaunchInv, LaunchTypes, Launch!LaunchTypeOK, Launch!Inodes
<1>2. /\ launch[Launcher].at \in {"start", "fill", "sync"} /\ posts = 0 /\ UNCHANGED <<temp, job, posts>>
  BY <1>1 DEF Launch!Create, Launch!Fill, Launch!Sync, Launch!FillFails, Launch!At, Saved, Making, Launch!files
<1>3. PICK p \in LaunchLocals :
        /\ launch' = [launch EXCEPT ![Launcher] = p]
        /\ p.at \in {"fill", "sync", "post", "gone"} /\ p.next \in {"", launch[Launcher].next}
        /\ p.at # "gone" => name' = IF launch[Launcher].at = "start" THEN Launch!First ELSE name
        /\ p.at = "gone" => name' = None
        /\ launch[Launcher].at = "start" => p.at = "fill"
        /\ launch[Launcher].at = "fill" => p.at \in {"sync", "gone"}
        /\ launch[Launcher].at = "sync" => p.at \in {"post", "gone"}
  <2>1. CASE Launch!Create
    <3> DEFINE q == [launch[Launcher] EXCEPT !.at = "fill"]
    <3>1. q \in LaunchLocals /\ q.at = "fill" /\ q.next = launch[Launcher].next
      BY <1>1 DEF LaunchLocals
    <3>2. launch' = [launch EXCEPT ![Launcher] = q]
      BY <1>1, <2>1 DEF Launch!Create, Launch!Goes
    <3> HIDE DEF q
    <3> QED BY <2>1, <3>1, <3>2 DEF Launch!Create, Launch!At
  <2>2. CASE Launch!Fill
    <3> DEFINE q == [launch[Launcher] EXCEPT !.at = "sync"]
    <3>1. q \in LaunchLocals /\ q.at = "sync" /\ q.next = launch[Launcher].next
      BY <1>1 DEF LaunchLocals
    <3>2. launch' = [launch EXCEPT ![Launcher] = q]
      BY <1>1, <2>2 DEF Launch!Fill, Launch!Goes
    <3> HIDE DEF q
    <3> QED BY <2>2, <3>1, <3>2 DEF Launch!Fill, Launch!At
  <2>3. CASE Launch!Sync
    <3> DEFINE q == [launch[Launcher] EXCEPT !.at = "post", !.seen = "unknown"]
    <3>1. q \in LaunchLocals /\ q.at = "post" /\ q.next = launch[Launcher].next
      BY <1>1 DEF LaunchLocals, Launch!Phases
    <3>2. launch' = [launch EXCEPT ![Launcher] = q]
      BY <1>1, <2>3 DEF Launch!Sync
    <3> HIDE DEF q
    <3> QED BY <2>3, <3>1, <3>2 DEF Launch!Sync, Launch!At, Launch!files
  <2>4. CASE Launch!FillFails
    BY <1>2, <2>4, GoneLocals DEF Launch!FillFails, Launch!Ends
  <2> QED BY <2>1, <2>2, <2>3, <2>4
<1>4. /\ launch' \in [Launchers -> LaunchLocals] /\ launch'[Launcher] = p
      /\ \A j \in Launchers : j # Launcher => launch'[j] = launch[j]
  BY <1>1, <1>3, ProcStep
<1>5. /\ content' \in [Launch!Inodes -> Launch!Phases \cup {""}]
      /\ content'[Launch!First] \in {content[Launch!First], "unknown"}
      /\ p.at = "sync" => content'[Launch!First] = "unknown"
      /\ p.at # "sync" => content' = content
      /\ \A f \in Launch!Inodes : f # Launch!First => content'[f] = content[f]
  <2>1. CASE content' = content /\ p.at # "sync"
    BY <1>1, <2>1
  <2>2. CASE content' = [content EXCEPT ![Launch!First] = "unknown"] /\ p.at = "sync"
    BY <1>1, <2>2 DEF Launch!Phases
  <2>3. CASE Launch!Fill
    <3>1. launch'[Launcher].at = "sync"
      BY <1>1, <2>3 DEF Launch!Fill, Launch!Goes, LaunchLocals
    <3> QED BY <1>4, <2>2, <2>3, <3>1 DEF Launch!Fill
  <2>4. CASE Launch!Create \/ Launch!Sync \/ Launch!FillFails
    <3>1. launch[Launcher].at # "fill" \/ p.at = "gone"
      BY <1>4, <2>4, <1>1, GoneLocals DEF Launch!Create, Launch!Sync, Launch!FillFails, Launch!At, Launch!Ends
    <3> QED BY <1>2, <1>3, <2>1, <2>4, <3>1 DEF Launch!Create, Launch!Sync, Launch!FillFails, Launch!files
  <2> QED BY <2>3, <2>4
<1>6. name' \in {None, name, Launch!First}
  BY <1>3
<1>7. LaunchTypes'
  <2>1. Launch!LaunchTypeOK' /\ posts' \in Nat
    BY <1>1, <1>2, <1>5, <1>6 DEF LaunchTypes, Launch!LaunchTypeOK
  <2>2. \A j \in Launchers : launch'[j].at \in {"compare", "create", "write", "rename"} => launch'[j] = launch[j]
    BY <1>3, <1>4
  <2> QED BY <1>1, <1>4, <2>1, <2>2 DEF LaunchTypes, Writing
<1>8. Saved'
  <2>1. p.at # "gone" => name' # None
    <3>1. CASE launch[Launcher].at = "start"
      BY <1>1, <1>3, <3>1
    <3>2. CASE launch[Launcher].at # "start"
      <4>1. name # None
        BY <1>1, <1>2, <3>2 DEF Saved, Making
      <4> QED BY <1>3, <3>2, <4>1
    <3> QED BY <3>1, <3>2
  <2>2. posts' = 0 /\ launch'[Launcher].at = p.at
    BY <1>2, <1>4
  <2>3. p.at \in Making \ {"start"} => name' # None
    BY <2>1 DEF Making
  <2> QED BY <2>2, <2>3 DEF Saved
<1>9. Honest'
  <2>1. \A f \in Launch!Inodes : content'[f] \in {content[f], "unknown"}
    BY <1>5
  <2>2. \A j \in Launchers : launch'[j].next \in {"", launch[j].next}
    BY <1>3, <1>4
  <2> QED BY <1>1, <1>2, <2>1, <2>2 DEF Honest, JobEnds
<1>10. ASSUME PairInv PROVE PairInv'
  <2>1. \A k \in Launchers : launch'[k].at \in {"write", "rename"} => k # Launcher /\ launch'[k] = launch[k]
    BY <1>3, <1>4
  <2>2. \A k \in Launchers : Writing(k) =>
          launch[k].file # Launch!First /\ launch[k].file \in Launch!Inodes /\ launch[k].file # None
    BY <1>1, OwnFiles
  <2>3. \A j \in Launchers : launch[j].at = "gone" => launch'[j].at = "gone"
    BY <1>2, <1>4
  <2>4. Owned'
    <3>1. \A j \in Launchers : launch'[j].at \in {"write", "rename"} =>
            /\ temp = launch[j].file \/ (temp = None /\ \A l \in Launchers : l # j => launch[l].at = "gone")
            /\ launch[j].at = "rename" => content[launch[j].file] = launch[j].next
            /\ launch[j].file # Launch!First /\ launch[j].file \in Launch!Inodes
            /\ launch[j].file # name /\ launch[j].file # None
      BY <1>10, <2>1, <2>2 DEF PairInv, Owned, Writing
    <3> SUFFICES ASSUME NEW j \in Launchers, Writing(j)'
                 PROVE  /\ temp' = launch'[j].file \/ (temp' = None /\ \A l \in Launchers : l # j => launch'[l].at = "gone")
                        /\ launch'[j].file # name'
                        /\ launch'[j].at = "rename" => content'[launch'[j].file] = launch'[j].next
      BY DEF Owned
    <3>2. launch'[j] = launch[j] /\ content'[launch[j].file] = content[launch[j].file]
      BY <1>5, <2>1, <3>1 DEF Writing
    <3>3. launch'[j].file # name'
      BY <1>6, <3>1, <3>2 DEF Writing
    <3>4. temp' = launch'[j].file \/ (temp' = None /\ \A l \in Launchers : l # j => launch'[l].at = "gone")
      BY <1>2, <2>3, <3>1, <3>2 DEF Writing
    <3> QED BY <3>1, <3>2, <3>3, <3>4 DEF Writing
  <2>5. Filled'
    <3> SUFFICES ASSUME name' # None, content'[name'] = ""
                 PROVE  name' = Launch!First /\ launch'[Launcher].at \in {"fill", "gone"}
      BY <1>2 DEF Filled, Launch!Recorded
    <3>1. p.at \in {"fill", "sync", "post"} /\ name' = IF launch[Launcher].at = "start" THEN Launch!First ELSE name
      BY <1>3
    <3>2. CASE launch[Launcher].at = "start"
      BY <1>3, <1>4, <3>1, <3>2
    <3>3. CASE launch[Launcher].at = "fill"
      <4>1. p.at = "sync" /\ name' = name /\ name \in Launch!Inodes
        BY <1>1, <1>3, <3>1, <3>3 DEF LaunchTypes, Launch!LaunchTypeOK
      <4>2. name # Launch!First => content[name] = "" /\ name # None
        BY <1>5, <4>1
      <4>3. name # Launch!First
        BY <1>5, <4>1
      <4> QED BY <1>10, <4>1, <4>2, <4>3 DEF PairInv, Filled, Launch!Recorded
    <3>4. CASE launch[Launcher].at = "sync"
      <4>1. name' = name /\ content' = content
        BY <1>3, <1>5, <3>1, <3>4
      <4> QED BY <1>10, <3>4, <4>1 DEF PairInv, Filled, Launch!Recorded
    <3> QED BY <1>2, <3>2, <3>3, <3>4
  <2> QED BY <2>4, <2>5 DEF PairInv
<1> QED BY <1>7, <1>8, <1>9, <1>10 DEF LaunchInv

\* A step of a process that touches no file and takes no new phase but an honest one.
LEMMA PlainLaunch ==
  ASSUME Launch!LaunchAssumption, LaunchInv, NEW k \in Launchers, NEW p \in LaunchLocals,
         UNCHANGED <<Launch!files, job>>, launch' = [launch EXCEPT ![k] = p],
         p.at \notin Making \cup {"write", "rename"},
         launch[k].at = "fill" => p.at = "gone",
         p.at \in {"compare", "create"} => p.next # "",
         p.next \in {"", launch[k].next, job, "unknown"},
         launch[k].at # "gone",
         posts' \in Nat, posts' > 0 => name # None,
         posts' = posts \/ (k = Launcher /\ launch[k].at = "post")
  PROVE  LaunchInv' /\ (PairInv => PairInv')
<1> USE DEF Launch!files
<1>1. LaunchTypes /\ launch \in [Launchers -> LaunchLocals]
  BY DEF LaunchInv, LaunchTypes
<1>2. /\ launch' \in [Launchers -> LaunchLocals] /\ launch'[k] = p
      /\ \A j \in Launchers : j # k => launch'[j] = launch[j]
  BY <1>1, ProcStep
<1>3. LaunchTypes'
  BY <1>1, <1>2 DEF LaunchTypes, Launch!LaunchTypeOK, Writing
<1>4. Saved'
  BY <1>2 DEF LaunchInv, Saved, Making, Launch!LaunchAssumption
<1>5. Honest'
  <2>1. p.next \in JobEnds => job = p.next
    BY DEF LaunchInv, Honest, JobEnds
  <2> QED BY <1>2, <2>1 DEF LaunchInv, Honest
<1>6. ASSUME PairInv PROVE PairInv'
  <2>1. Owned'
    BY <1>2, <1>6 DEF PairInv, Owned, Writing, Making
  <2>2. Filled'
    <3> SUFFICES ASSUME name # None, Launch!Recorded = ""
                 PROVE  name = Launch!First /\ posts' = 0 /\ launch'[Launcher].at \in {"fill", "gone"}
      BY DEF Filled, Launch!Recorded
    <3>1. name = Launch!First /\ posts = 0 /\ launch[Launcher].at \in {"fill", "gone"}
      BY <1>6 DEF PairInv, Filled
    <3> QED BY <1>2, <3>1 DEF Launch!LaunchAssumption
  <2> QED BY <2>1, <2>2 DEF PairInv
<1> QED BY <1>3, <1>4, <1>5, <1>6 DEF LaunchInv

LEMMA EndLaunch ==
  ASSUME Launch!LaunchAssumption, LaunchInv, NEW k \in Launchers, Launch!Ends(k),
         UNCHANGED <<Launch!files, job, posts>>,
         launch[k].at # "gone"
  PROVE  LaunchInv' /\ (PairInv => PairInv')
<1>1. posts \in Nat /\ (posts > 0 => name # None)
  BY DEF LaunchInv, LaunchTypes, Saved
<1> QED BY <1>1, GoneLocals, PlainLaunch DEF Launch!Ends, Making

LEMMA FirstSteps ==
  ASSUME Launch!LaunchAssumption, LaunchInv, Launch!Post \/ Launch!Answered \/ Launch!LostAnswer
  PROVE  LaunchInv' /\ (PairInv => PairInv')
<1> USE DEF Launch!LaunchAssumption
<1>1. /\ LaunchTypes /\ launch \in [Launchers -> LaunchLocals] /\ launch[Launcher] \in LaunchLocals
      /\ posts \in Nat /\ job \in {"none"} \cup Launch!Phases /\ (posts > 0 => name # None)
  BY DEF LaunchInv, LaunchTypes, Launch!LaunchTypeOK, Saved
<1>2. CASE Launch!Post
  <2> DEFINE p == [launch[Launcher] EXCEPT !.at = "answer"]
  <2>1. p \in LaunchLocals /\ p.at = "answer" /\ p.next = launch[Launcher].next
    BY <1>1 DEF LaunchLocals
  <2>2. launch' = [launch EXCEPT ![Launcher] = p]
    BY <1>1, <1>2 DEF Launch!Post, Launch!Goes
  <2> HIDE DEF p
  <2>3. name # None
    BY <1>2 DEF Launch!Post, Launch!AfterCreate, Launch!At, LaunchInv, Saved, Making
  <2>4. posts' \in Nat
    BY <1>1, <1>2 DEF Launch!Post
  <2> QED BY <1>2, <2>1, <2>2, <2>3, <2>4, PlainLaunch DEF Launch!Post, Launch!AfterCreate, Launch!At, Making
<1>3. CASE Launch!Answered
  <2> DEFINE p == [launch[Launcher] EXCEPT !.at = "compare", !.next = job]
  <2>1. p \in LaunchLocals /\ p.at = "compare" /\ p.next = job /\ job # ""
    BY <1>1, <1>3 DEF LaunchLocals, Launch!Answered, Launch!Phases
  <2>2. launch' = [launch EXCEPT ![Launcher] = p]
    BY <1>1, <1>3 DEF Launch!Answered
  <2> HIDE DEF p
  <2> QED BY <1>1, <1>3, <2>1, <2>2, PlainLaunch DEF Launch!Answered, Launch!At, Making
<1>4. CASE Launch!LostAnswer
  BY <1>4, EndLaunch DEF Launch!LostAnswer, Launch!At
<1> QED BY <1>2, <1>3, <1>4

LEMMA AskSteps ==
  ASSUME Launch!LaunchAssumption, LaunchInv, NEW k \in Launchers,
         Launch!Status(k) \/ Launch!Observe(k) \/ Launch!Compare(k)
  PROVE  LaunchInv' /\ (PairInv => PairInv')
<1>1. /\ LaunchTypes /\ launch \in [Launchers -> LaunchLocals] /\ launch[k] \in LaunchLocals
      /\ posts \in Nat /\ job \in {"none"} \cup Launch!Phases /\ (posts > 0 => name # None)
  BY DEF LaunchInv, LaunchTypes, Launch!LaunchTypeOK, Saved
<1>2. CASE Launch!Status(k)
  <2> DEFINE p == [launch[k] EXCEPT !.at = "observe", !.seen = Launch!Recorded]
  <2>1. p \in LaunchLocals /\ p.at = "observe" /\ p.next = launch[k].next
    BY <1>1, RecordedIs DEF LaunchLocals
  <2>2. launch' = [launch EXCEPT ![k] = p]
    BY <1>1, <1>2 DEF Launch!Status
  <2> HIDE DEF p
  <2> QED BY <1>1, <1>2, <2>1, <2>2, PlainLaunch DEF Launch!Status, Launch!At, Making
<1>3. CASE Launch!Observe(k)
  <2>1. PICK phase \in Launch!Outcome : launch' = [launch EXCEPT ![k].at = "compare", ![k].next = phase]
    BY <1>3 DEF Launch!Observe
  <2> DEFINE p == [launch[k] EXCEPT !.at = "compare", !.next = phase]
  <2>2. phase \in {job, "unknown"} /\ phase \in Launch!Phases /\ phase # ""
    BY <1>1, <2>1 DEF Launch!Outcome, Launch!Phases
  <2>3. p \in LaunchLocals /\ p.at = "compare" /\ p.next = phase
    BY <1>1, <2>2 DEF LaunchLocals
  <2>4. launch' = [launch EXCEPT ![k] = p]
    BY <1>1, <2>1
  <2> HIDE DEF p
  <2> QED BY <1>1, <1>3, <2>2, <2>3, <2>4, PlainLaunch DEF Launch!Observe, Launch!At, Making
<1>4. CASE Launch!Compare(k)
  <2>1. CASE Launch!Ends(k)
    BY <1>4, <2>1, EndLaunch DEF Launch!Compare, Launch!At
  <2>2. CASE Launch!Goes(k, "create")
    <3> DEFINE p == [launch[k] EXCEPT !.at = "create"]
    <3>1. p \in LaunchLocals /\ p.at = "create" /\ p.next = launch[k].next /\ p.next # ""
      BY <1>1, <1>4 DEF LaunchLocals, LaunchTypes, Launch!Compare, Launch!At
    <3>2. launch' = [launch EXCEPT ![k] = p]
      BY <1>1, <2>2 DEF Launch!Goes
    <3> HIDE DEF p
    <3> QED BY <1>1, <1>4, <3>1, <3>2, PlainLaunch DEF Launch!Compare, Launch!At, Making
  <2> QED BY <1>4, <2>1, <2>2 DEF Launch!Compare
<1> QED BY <1>2, <1>3, <1>4

LEMMA CreateTempLaunch ==
  ASSUME Launch!LaunchAssumption, LaunchInv, NEW k \in Launchers, Launch!CreateTemp(k)
  PROVE  LaunchInv' /\ (PairInv => PairInv')
<1> USE DEF Launch!CreateTemp
<1>1. /\ LaunchTypes /\ launch \in [Launchers -> LaunchLocals] /\ launch[k] \in LaunchLocals
      /\ launch[k].at = "create" /\ temp = None
  BY DEF LaunchInv, LaunchTypes, Launch!At
<1>2. PICK n \in {1, 2} :
        /\ <<k, n>> # name /\ temp' = <<k, n>> /\ content' = [content EXCEPT ![<<k, n>>] = ""]
        /\ launch' = [launch EXCEPT ![k].at = "write", ![k].file = <<k, n>>]
  OBVIOUS
<1> DEFINE f == <<k, n>>
           p == [launch[k] EXCEPT !.at = "write", !.file = f]
<1>3. f \in Launch!Inodes /\ f \in {<<k, 1>>, <<k, 2>>} /\ f # None
  BY OwnFile
<1>4. p \in LaunchLocals /\ p.at = "write" /\ p.file = f /\ p.next = launch[k].next
  BY <1>1, <1>3 DEF LaunchLocals
<1>5. launch' = [launch EXCEPT ![k] = p]
  BY <1>1, <1>2
<1>6. /\ launch' \in [Launchers -> LaunchLocals] /\ launch'[k] = p
      /\ \A j \in Launchers : j # k => launch'[j] = launch[j]
  BY <1>1, <1>4, <1>5, ProcStep
<1> HIDE DEF p
<1>7. /\ content' \in [Launch!Inodes -> Launch!Phases \cup {""}] /\ content'[f] = ""
      /\ \A x \in Launch!Inodes : x # f => content'[x] = content[x]
  BY <1>1, <1>2, <1>3 DEF LaunchTypes, Launch!LaunchTypeOK
<1>11. temp' = f /\ f # name
  BY <1>2
<1> HIDE DEF f
<1>8. LaunchTypes'
  <2>1. Launch!LaunchTypeOK' /\ posts' \in Nat
    BY <1>1, <1>3, <1>7, <1>11 DEF LaunchTypes, Launch!LaunchTypeOK
  <2> QED BY <1>1, <1>3, <1>4, <1>6, <2>1 DEF LaunchTypes, Writing
<1>9. Saved' /\ Honest'
  <2>1. Saved /\ Honest /\ UNCHANGED <<name, job, posts>>
    BY DEF LaunchInv
  <2>2. launch'[Launcher].at \in Making => launch[Launcher].at = launch'[Launcher].at
    BY <1>4, <1>6 DEF Launch!LaunchAssumption, Making
  <2>3. \A j \in Launchers : launch'[j].next = launch[j].next
    BY <1>4, <1>6
  <2>4. \A x \in Launch!Inodes : content'[x] \in {content[x], ""}
    BY <1>7
  <2> QED BY <2>1, <2>2, <2>3, <2>4 DEF Saved, Honest, JobEnds
<1>10. ASSUME PairInv PROVE PairInv'
  <2>1. \A j \in Launchers : j # k => ~Writing(j)
    <3>1. \A j \in Launchers : Writing(j) => launch[j].file # None
      BY <1>1, OwnFiles
    <3> QED BY <1>1, <1>10, <3>1 DEF PairInv, Owned
  <2>2. Owned'
    BY <1>4, <1>6, <1>11, <2>1 DEF Owned, Writing
  <2>3. Filled'
    <3>1. name # None => content'[name] = content[name]
      BY <1>1, <1>7, <1>11 DEF LaunchTypes, Launch!LaunchTypeOK
    <3>2. launch[Launcher].at \in {"fill", "gone"} => launch'[Launcher] = launch[Launcher]
      BY <1>1, <1>6 DEF Launch!LaunchAssumption
    <3> QED BY <1>10, <3>1, <3>2 DEF PairInv, Filled, Launch!Recorded
  <2> QED BY <2>2, <2>3 DEF PairInv
<1> QED BY <1>8, <1>9, <1>10 DEF LaunchInv

LEMMA CreateFailsLaunch ==
  ASSUME Launch!LaunchAssumption, LaunchInv, NEW k \in Launchers, Launch!CreateFails(k)
  PROVE  LaunchInv' /\ (PairInv /\ Pair => PairInv')
<1> USE DEF Launch!CreateFails
<1>1. LaunchTypes /\ launch \in [Launchers -> LaunchLocals] /\ launch[k].at = "create"
  BY DEF LaunchInv, LaunchTypes, Launch!At
<1>2. /\ launch' \in [Launchers -> LaunchLocals] /\ launch'[k] = Launch!Gone
      /\ \A j \in Launchers : j # k => launch'[j] = launch[j]
  BY <1>1, GoneLocals, ProcStep DEF Launch!Ends
<1>3. LaunchTypes'
  BY <1>1, <1>2, GoneLocals DEF LaunchTypes, Launch!LaunchTypeOK, Writing
<1>4. Saved' /\ Honest'
  BY <1>2, GoneLocals DEF LaunchInv, Saved, Making, Honest, JobEnds, Launch!LaunchAssumption
<1>5. ASSUME PairInv, Pair PROVE PairInv'
  <2>1. \A j, l \in Launchers : j # k /\ l # j => l = k
    BY <1>5 DEF Pair
  <2>2. Owned'
    BY <1>2, <1>5, <2>1, GoneLocals DEF PairInv, Owned, Writing
  <2>3. Filled'
    BY <1>2, <1>5, GoneLocals DEF PairInv, Filled, Launch!Recorded, Launch!LaunchAssumption
  <2> QED BY <2>2, <2>3 DEF PairInv
<1> QED BY <1>3, <1>4, <1>5 DEF LaunchInv

LEMMA WriteLaunch ==
  ASSUME Launch!LaunchAssumption, LaunchInv, NEW k \in Launchers, Launch!Write(k)
  PROVE  LaunchInv' /\ (PairInv => PairInv')
<1> USE DEF Launch!Write
<1> DEFINE f == launch[k].file
           p == [launch[k] EXCEPT !.at = "rename"]
<1>1. /\ LaunchTypes /\ launch \in [Launchers -> LaunchLocals] /\ launch[k] \in LaunchLocals
      /\ launch[k].at = "write" /\ launch[k].next # "" /\ f \in {<<k, 1>>, <<k, 2>>} /\ Writing(k)
  BY DEF LaunchInv, LaunchTypes, Launch!At, Writing
<1>2. f \in Launch!Inodes
  BY <1>1, OwnFiles
<1>3. /\ p \in LaunchLocals /\ p.at = "rename" /\ p.file = f /\ p.next = launch[k].next
      /\ launch[k].next \in Launch!Phases
  BY <1>1 DEF LaunchLocals
<1>4. launch' = [launch EXCEPT ![k] = p]
  BY <1>1 DEF Launch!Goes
<1>5. /\ launch' \in [Launchers -> LaunchLocals] /\ launch'[k] = p
      /\ \A j \in Launchers : j # k => launch'[j] = launch[j]
  BY <1>1, <1>3, <1>4, ProcStep
<1> HIDE DEF p
<1>6. /\ content' \in [Launch!Inodes -> Launch!Phases \cup {""}] /\ content'[f] = launch[k].next
      /\ \A x \in Launch!Inodes : x # f => content'[x] = content[x]
  BY <1>1, <1>2, <1>3 DEF LaunchTypes, Launch!LaunchTypeOK
<1>7. LaunchTypes'
  BY <1>1, <1>3, <1>5, <1>6 DEF LaunchTypes, Launch!LaunchTypeOK, Writing
<1>8. Saved' /\ Honest'
  BY <1>3, <1>5, <1>6 DEF LaunchInv, Saved, Making, Honest, Launch!LaunchAssumption
<1>9. ASSUME PairInv PROVE PairInv'
  <2>1. \A j \in Launchers : Writing(j) /\ j # k => launch[j].file # f /\ launch[j].file \in Launch!Inodes
    BY <1>1, OwnFiles
  <2>2. Owned'
    <3> SUFFICES ASSUME NEW j \in Launchers, Writing(j)'
                 PROVE  /\ temp = launch'[j].file \/ (temp = None /\ \A l \in Launchers : l # j => launch'[l].at = "gone")
                        /\ launch'[j].file # name
                        /\ launch'[j].at = "rename" => content'[launch'[j].file] = launch'[j].next
      BY DEF Owned
    <3>1. Writing(j) /\ launch'[j].file = launch[j].file /\ launch'[j].next = launch[j].next
      BY <1>1, <1>3, <1>5 DEF Writing
    <3>2. \A l \in Launchers : launch[l].at = "gone" => launch'[l].at = "gone"
      BY <1>1, <1>5
    <3>3. j # k => launch'[j] = launch[j] /\ content'[launch[j].file] = content[launch[j].file]
      BY <1>5, <1>6, <2>1, <3>1
    <3>4. /\ temp = launch[j].file \/ (temp = None /\ \A l \in Launchers : l # j => launch[l].at = "gone")
          /\ launch[j].file # name
          /\ launch[j].at = "rename" => content[launch[j].file] = launch[j].next
      BY <1>9, <3>1 DEF PairInv, Owned
    <3>5. launch'[j].at = "rename" => content'[launch'[j].file] = launch'[j].next
      BY <1>3, <1>5, <1>6, <3>1, <3>3, <3>4
    <3> QED BY <3>1, <3>2, <3>4, <3>5
  <2>3. Filled'
    <3>1. name # None => content'[name] = content[name]
      BY <1>1, <1>6, <1>9 DEF PairInv, Owned, LaunchTypes, Launch!LaunchTypeOK
    <3>2. launch[Launcher].at \in {"fill", "gone"} => launch'[Launcher] = launch[Launcher]
      BY <1>1, <1>5 DEF Launch!LaunchAssumption
    <3> QED BY <1>9, <3>1, <3>2 DEF PairInv, Filled, Launch!Recorded
  <2> QED BY <2>2, <2>3 DEF PairInv
<1> QED BY <1>7, <1>8, <1>9 DEF LaunchInv

LEMMA RenameLaunch ==
  ASSUME Launch!LaunchAssumption, LaunchInv, NEW k \in Launchers, Launch!Rename(k)
  PROVE  LaunchInv' /\ (PairInv => PairInv')
<1> USE DEF Launch!Rename
<1> DEFINE p == IF temp = None \/ launch[k].next \in Launch!Final THEN Launch!Gone
                ELSE [Launch!Idle EXCEPT !.at = "observe", !.seen = launch[k].next]
           Used(f) == f = name' \/ \E j \in Launchers : launch'[j].file = f
<1>1. /\ LaunchTypes /\ launch \in [Launchers -> LaunchLocals] /\ launch[k] \in LaunchLocals
      /\ launch[k].at = "rename" /\ Writing(k) /\ launch[k].next # "" /\ launch[k].file \in {<<k, 1>>, <<k, 2>>}
  BY DEF LaunchInv, LaunchTypes, Launch!At, Writing
<1>2. p \in LaunchLocals /\ p.at \in {"gone", "observe"} /\ p.next = ""
  BY <1>1, GoneLocals DEF Launch!Idle, LaunchLocals
<1>3. launch' = [launch EXCEPT ![k] = p]
  OBVIOUS
<1>4. /\ launch' \in [Launchers -> LaunchLocals] /\ launch'[k] = p
      /\ \A j \in Launchers : j # k => launch'[j] = launch[j]
  BY <1>1, <1>2, <1>3, ProcStep
<1>5. temp = None => p.at = "gone"
  BY GoneLocals
<1> HIDE DEF p
<1>6. /\ content' \in [Launch!Inodes -> Launch!Phases \cup {""}]
      /\ \A f \in Launch!Inodes : content'[f] = IF Used(f) THEN content[f] ELSE ""
  BY <1>1 DEF LaunchTypes, Launch!LaunchTypeOK
<1> HIDE DEF Used
<1>7. LaunchTypes'
  <2>1. Launch!LaunchTypeOK' /\ posts' \in Nat
    BY <1>1, <1>6 DEF LaunchTypes, Launch!LaunchTypeOK
  <2> QED BY <1>1, <1>2, <1>4, <2>1 DEF LaunchTypes, Writing
<1>8. Saved' /\ Honest'
  BY <1>2, <1>4, <1>6 DEF LaunchInv, Saved, Making, Honest, JobEnds, Launch!LaunchAssumption
<1>9. ASSUME PairInv PROVE PairInv'
  <2>1. launch[k].file \in Launch!Inodes /\ content[launch[k].file] = launch[k].next /\ launch[k].file # None
    BY <1>1, <1>9, OwnFiles DEF PairInv, Owned
  <2>2. temp = launch[k].file \/ (temp = None /\ \A j \in Launchers : j # k => launch[j].at = "gone")
    BY <1>1, <1>9 DEF PairInv, Owned
  <2>3. \A j \in Launchers : j # k => ~Writing(j) \/ temp = None
    <3>1. \A j \in Launchers : Writing(j) /\ j # k => launch[j].file # launch[k].file
      BY <1>1, OwnFiles
    <3> QED BY <1>9, <2>2, <3>1 DEF PairInv, Owned
  <2>4. Owned'
    <3>1. CASE temp = None
      <4>1. \A j \in Launchers : j # k => ~Writing(j)
        BY <2>1, <2>2, <3>1 DEF Writing
      <4> QED BY <1>2, <1>4, <4>1 DEF Owned, Writing
    <3>2. CASE temp # None
      BY <1>2, <1>4, <2>3, <3>2 DEF Owned, Writing
    <3> QED BY <3>1, <3>2
  <2>5. Filled'
    <3>3. launch[Launcher].at \in {"fill", "gone"} => launch'[Launcher] = launch[Launcher]
      BY <1>1, <1>4 DEF Launch!LaunchAssumption
    <3>1. CASE temp = None
      <4>1. name' = name
        BY <3>1
      <4>2. name # None => Used(name) /\ name \in Launch!Inodes
        BY <1>1, <4>1 DEF Used, LaunchTypes, Launch!LaunchTypeOK
      <4> QED BY <1>6, <1>9, <3>3, <4>1, <4>2 DEF PairInv, Filled, Launch!Recorded
    <3>2. CASE temp # None
      <4>1. name' = launch[k].file
        BY <2>2, <3>2
      <4>2. Used(name')
        BY DEF Used
      <4> QED BY <1>1, <1>6, <2>1, <4>1, <4>2 DEF Filled, Launch!Recorded
    <3> QED BY <3>1, <3>2
  <2> QED BY <2>4, <2>5 DEF PairInv
<1> QED BY <1>7, <1>8, <1>9 DEF LaunchInv

\* The service: how a job ended is final.
LEMMA ServiceLaunch ==
  ASSUME Launch!LaunchAssumption, LaunchInv, Launch!Accept \/ Launch!Progress
  PROVE  LaunchInv' /\ (PairInv => PairInv')
<1>1. UNCHANGED <<content, name, temp, launch, posts>>
  BY DEF Launch!Accept, Launch!Progress, Launch!files
<1>2. job' \in {"none"} \cup Launch!Phases /\ (job \in JobEnds => job' = job)
  BY DEF Launch!Accept, Launch!Progress, LaunchInv, LaunchTypes, Launch!LaunchTypeOK, Launch!Phases, JobEnds
<1>3. LaunchTypes' /\ Saved' /\ Honest'
  BY <1>1, <1>2 DEF LaunchInv, LaunchTypes, Launch!LaunchTypeOK, Saved, Honest, JobEnds, Writing
<1>4. PairInv => PairInv'
  BY <1>1 DEF PairInv, Owned, Writing, Filled, Launch!Recorded
<1> QED BY <1>3, <1>4 DEF LaunchInv

LEMMA NextLaunch ==
  ASSUME Launch!LaunchAssumption, LaunchInv, [Launch!Next]_(Launch!vars)
  PROVE  LaunchInv' /\ (PairInv /\ Pair => PairInv')
<1>1. ASSUME NEW k \in Launchers, Launch!Stop(k) PROVE LaunchInv' /\ (PairInv => PairInv')
  BY <1>1, EndLaunch DEF Launch!Stop
<1>2. CASE UNCHANGED Launch!vars
  BY <1>2 DEF Launch!vars, Launch!files, LaunchInv, LaunchTypes, Launch!LaunchTypeOK, Saved, Honest, Writing, PairInv, Owned,
              Filled, Launch!Recorded
<1> QED BY <1>1, <1>2, CreateLaunch, FirstSteps, AskSteps, CreateTempLaunch, CreateFailsLaunch, WriteLaunch,
           RenameLaunch, ServiceLaunch DEF Launch!Next

LEMMA SafeLaunch == ASSUME LaunchInv PROVE Launch!SentIsSaved /\ Launch!PhaseHonest
<1>1. LaunchTypes /\ Saved /\ Honest
  BY DEF LaunchInv
<1>2. Launch!PhaseHonest
  <2> SUFFICES ASSUME Launch!Recorded \in JobEnds PROVE job = Launch!Recorded
    BY DEF Launch!PhaseHonest, JobEnds
  <2>1. name \in Launch!Inodes /\ Launch!Recorded = content[name]
    BY <1>1, RecordedIs DEF JobEnds, LaunchTypes, Launch!LaunchTypeOK
  <2> QED BY <1>1, <2>1 DEF Honest
<1> QED BY <1>1, <1>2 DEF Saved, Launch!SentIsSaved

\* What is invariant with any number of readers.
THEOREM LaunchAlways == ASSUME Launch!LaunchAssumption PROVE Launch!Spec => []LaunchInv
<1>1. Launch!Init => LaunchInv
  BY InitLaunch
<1>2. LaunchInv /\ [Launch!Next]_(Launch!vars) => LaunchInv'
  BY NextLaunch
<1> QED BY <1>1, <1>2, PTL DEF Launch!Spec

\* start and _observe, with any number of readers: whatever was sent can be asked about, and a
\* final phase on disk is the job's own.
THEOREM LaunchIsHonest ==
  ASSUME Launch!LaunchAssumption
  PROVE  Launch!Spec => [](Launch!SentIsSaved /\ Launch!PhaseHonest)
<1>1. LaunchInv => Launch!SentIsSaved /\ Launch!PhaseHonest
  BY SafeLaunch
<1> QED BY <1>1, LaunchAlways, PTL

\* os.replace: beside one launch-status, a reader of the receipt finds it whole, but for one
\* whose creator died over it before it sent anything; with two, one of them can
\* put the other's half-written file in its place.
THEOREM LaunchIsSafe ==
  ASSUME Launch!LaunchAssumption, Pair
  PROVE  Launch!Spec => []Launch!LaunchSafe
<1>1. Launch!Init => LaunchInv /\ PairInv
  BY InitLaunch
<1>2. LaunchInv /\ PairInv /\ [Launch!Next]_(Launch!vars) => LaunchInv' /\ PairInv'
  BY NextLaunch
<1>3. LaunchInv /\ PairInv => Launch!LaunchSafe
  BY SafeLaunch DEF PairInv, Filled, Launch!LaunchSafe, Launch!ReceiptWhole
<1> QED BY <1>1, <1>2, <1>3, PTL DEF Launch!Spec
=============================================================================
