----------------------------- MODULE HerdrLaunch -----------------------------
(***************************************************************************)
(* A managed launch and its recovery (bin/harness_herdr_launch.py,         *)
(* bin/harness_herdr_launch_receipt.py).                                   *)
(*                                                                         *)
(* One intent.  The launching process creates the receipt, sends the one   *)
(* launch request and observes the job; launch-status processes observe it *)
(* too.  Every observation replaces the receipt through a temporary file   *)
(* of one fixed name; there is no lock.  Files are inodes here, because a  *)
(* name can be given to another file while its writer still writes.        *)
(***************************************************************************)
EXTENDS Naturals

CONSTANTS Procs, Launcher,
          None,      \* no file
          MaxStops   \* bound: processes that die

VARIABLES
  content,  \* the phase each inode holds; "" while it is not written
  name,     \* inode of the receipt
  temp,     \* inode of the temporary file
  proc,     \* program counter and locals of each process
  wire,     \* the launch request on its way
  job,      \* the job as the service has it
  posts,    \* launch requests sent (history only)
  stops

files == <<content, name, temp>>
vars == <<files, proc, wire, job, posts, stops>>

Phases == {"allocating", "preparing", "starting", "started", "failed", "unknown"}
Final == {"started", "failed", "unknown"}

\* A process writes an inode of its own; two suffice, one of them may be the receipt.
First == <<Launcher, 0>>
Inodes == Procs \X {1, 2} \cup {First}
Idle == [at |-> "start", seen |-> "", next |-> "", file |-> None]

Init ==
  /\ content = [f \in Inodes |-> ""] /\ name = None /\ temp = None
  /\ proc = [k \in Procs |-> Idle]
  /\ wire = FALSE /\ job = "none" /\ posts = 0 /\ stops = 0

At(k, step) == proc[k].at = step
Goes(k, step) == proc' = [proc EXCEPT ![k].at = step]
\* The locals of a process that has ended are forgotten.
Gone == [Idle EXCEPT !.at = "gone"]
Ends(k) == proc' = [proc EXCEPT ![k] = Gone]
Recorded == IF name = None THEN "" ELSE content[name]

\* start: the receipt first (created exclusively, written, synced; what fails on the way
\* unlinks the name, a kill leaves what is there), then the one launch request.
Create ==
  /\ At(Launcher, "start") /\ name = None
  /\ name' = First /\ Goes(Launcher, "fill")
  /\ UNCHANGED <<content, temp, wire, job, posts, stops>>
Fill ==
  /\ At(Launcher, "fill")
  /\ content' = [content EXCEPT ![First] = "unknown"] /\ Goes(Launcher, "sync")
  /\ UNCHANGED <<name, temp, wire, job, posts, stops>>
Sync ==
  /\ At(Launcher, "sync")
  /\ proc' = [proc EXCEPT ![Launcher].at = "post", ![Launcher].seen = "unknown"]
  /\ UNCHANGED <<files, wire, job, posts, stops>>
FillFails ==
  /\ proc[Launcher].at \in {"fill", "sync"}
  /\ name' = None /\ Ends(Launcher)
  /\ UNCHANGED <<content, temp, wire, job, posts, stops>>
BeforeCreate == proc[Launcher].at \in {"start", "post"}
AfterCreate == At(Launcher, "post")
Post ==
  /\ AfterCreate
  /\ wire' = TRUE /\ posts' = posts + 1
  /\ Goes(Launcher, "answer")
  /\ UNCHANGED <<files, job, stops>>

\* Its answer is the first observation; a lost answer ends the command.
Answered ==
  /\ At(Launcher, "answer") /\ job # "none"
  /\ proc' = [proc EXCEPT ![Launcher].at = "compare", ![Launcher].next = job]
  /\ UNCHANGED <<files, wire, job, posts, stops>>
LostAnswer ==
  /\ At(Launcher, "answer") /\ Ends(Launcher)
  /\ UNCHANGED <<files, wire, job, posts, stops>>

\* status: read the saved receipt, then observe.
Status(k) ==
  /\ k # Launcher /\ At(k, "start") /\ Recorded # ""
  /\ proc' = [proc EXCEPT ![k].at = "observe", ![k].seen = Recorded]
  /\ UNCHANGED <<files, wire, job, posts, stops>>

\* _observe: ask for the job, or give up with "unknown" (deadline, transport error).
GuessOutcome == {job, "unknown", "failed"} \ {"none"}
OutcomeUnchecked == {job, "unknown"}
Outcome == {job, "unknown"} \ {"none"}
Observe(k) ==
  /\ At(k, "observe")
  /\ \E phase \in Outcome :
       proc' = [proc EXCEPT ![k].at = "compare", ![k].next = phase]
  /\ UNCHANGED <<files, wire, job, posts, stops>>

\* transition: compare, then _replace: create the temporary file exclusively, ...
Compare(k) ==
  /\ At(k, "compare")
  /\ IF Recorded = proc[k].seen THEN Goes(k, "create") ELSE Ends(k)
  /\ UNCHANGED <<files, wire, job, posts, stops>>
CreateInPlace(k) ==
  /\ At(k, "create") /\ temp = None
  /\ \E n \in {1, 2} :
       /\ <<k, n>> # name /\ name' = <<k, n>> /\ content' = [content EXCEPT ![<<k, n>>] = ""]
       /\ proc' = [proc EXCEPT ![k].at = "write", ![k].file = <<k, n>>]
  /\ UNCHANGED <<temp, wire, job, posts, stops>>
CreateTemp(k) ==
  /\ At(k, "create") /\ temp = None
  /\ \E n \in {1, 2} :
       /\ <<k, n>> # name /\ temp' = <<k, n>> /\ content' = [content EXCEPT ![<<k, n>>] = ""]
       /\ proc' = [proc EXCEPT ![k].at = "write", ![k].file = <<k, n>>]
  /\ UNCHANGED <<name, wire, job, posts, stops>>
\* ... and when it exists, the way out unlinks it all the same.
CreateFails(k) ==
  /\ At(k, "create") /\ temp # None
  /\ temp' = None /\ Ends(k)
  /\ UNCHANGED <<content, name, wire, job, posts, stops>>

\* ... write and sync it, give it the receipt's name, unlink what is left of it.
Write(k) ==
  /\ At(k, "write")
  /\ content' = [content EXCEPT ![proc[k].file] = proc[k].next]
  /\ Goes(k, "rename")
  /\ UNCHANGED <<name, temp, wire, job, posts, stops>>
Rename(k) ==
  /\ At(k, "rename")
  /\ name' = IF temp = None THEN name ELSE temp
  /\ temp' = None
  /\ proc' = [proc EXCEPT
       ![k] = IF temp = None \/ proc[k].next \in Final THEN Gone
              ELSE [Idle EXCEPT !.at = "observe", !.seen = proc[k].next]]
  /\ content' = [f \in Inodes |-> IF f = name' \/ \E j \in Procs : proc'[j].file = f
                                   THEN content[f] ELSE ""]
  /\ UNCHANGED <<wire, job, posts, stops>>

Stop(k) ==
  /\ proc[k].at \notin {"start", "gone"} /\ stops < MaxStops
  /\ Ends(k) /\ stops' = stops + 1
  /\ UNCHANGED <<files, wire, job, posts>>

\* The service: one job for the request, which it runs to its end.
Accept ==
  /\ wire /\ wire' = FALSE
  /\ job' = IF job = "none" THEN "allocating" ELSE job
  /\ UNCHANGED <<files, proc, posts, stops>>
Progress ==
  /\ \/ job = "allocating" /\ job' \in {"preparing", "failed"}
     \/ job = "preparing" /\ job' \in {"starting", "failed"}
     \/ job = "starting" /\ job' \in {"started", "failed"}
  /\ UNCHANGED <<files, proc, wire, posts, stops>>

Next ==
  \/ Create \/ Fill \/ Sync \/ FillFails \/ Post \/ Answered \/ LostAnswer \/ Accept \/ Progress
  \/ \E k \in Procs : \/ Status(k) \/ Observe(k) \/ Compare(k) \/ CreateTemp(k)
                      \/ CreateFails(k) \/ Write(k) \/ Rename(k) \/ Stop(k)

Spec == Init /\ [][Next]_vars

-----------------------------------------------------------------------------
(* Properties *)

\* What the theorems assume: what a name is instead of a file's is none.
LaunchAssumption == Launcher \in Procs /\ None \notin Inodes

\* Files hold a phase or nothing, and only a process that writes has a temporary file
\* of its own.
LaunchTypeOK ==
  /\ content \in [Inodes -> Phases \cup {""}]
  /\ name \in Inodes \cup {None} /\ temp \in Inodes \cup {None}
  /\ job \in {"none"} \cup Phases

\* start: whatever was sent can be asked about, because its receipt was there first.
SentIsSaved == posts > 0 => name # None

\* _observe records what the service has said, and else "unknown": a final phase on disk
\* is the job's own.
PhaseHonest == Recorded \in {"started", "failed"} => job = Recorded

\* os.replace: with one launcher and one status, a reader finds a whole receipt, but for the
\* one a launcher died creating before it had sent anything.
ReceiptWhole == name # None /\ Recorded = "" => name = First /\ posts = 0

LaunchSafe == SentIsSaved /\ PhaseHonest /\ ReceiptWhole
=============================================================================
