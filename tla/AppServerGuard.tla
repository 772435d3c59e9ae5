---------------------------- MODULE AppServerGuard ----------------------------
(***************************************************************************)
(* The relay before a Codex app-server (bin/codex-app-server-guard.py):    *)
(* one thread reads the client's JSON-RPC lines, forwards what stays       *)
(* inside the harness and answers the rest itself; another carries the     *)
(* server's lines back.  Both write to the client, so they share a lock.   *)
(* The process ends with the server.                                       *)
(*                                                                         *)
(* A message is known by what the relay tells apart: whether it is a       *)
(* request, a notification or a response, and the execution root it names: *)
(* none, one inside or outside the harness, or one that cannot be checked  *)
(* (a duplicate key, a path that is none).  A line that is no JSON is      *)
(* "torn", one in which a duplicate key comes before the tear "ragged".    *)
(* The rules for Slack approvals are left out.                             *)
(***************************************************************************)
EXTENDS Naturals, Sequences

CONSTANTS None,
          MaxMessages  \* bound: lines of the client

VARIABLES line,      \* the client's lines not read yet
          inbound,   \* the server's standard input
          outbound,  \* the server's standard output
          relayIn, relayOut,   \* the two threads
          lock,      \* out_lock
          part,      \* the thread that has written half a line to the client
          mixed,     \* halves of two lines have met
          main, server, client

vars == <<line, inbound, outbound, relayIn, relayOut, lock, part, mixed, main, server, client>>
wires == <<line, inbound, outbound>>

Ids == 1..MaxMessages
Ask == 0     \* the one request of the server

\* What a client sends: thread/resume takes its root from the rollout when it names none.
Message(kind, id, root, resume) == [kind |-> kind, id |-> id, root |-> root, resume |-> resume]
Messages(n) ==
  {Message("request", n, root, FALSE) : root \in {"in", "out", "odd"}}
    \cup {Message("request", n, "none", TRUE), Message("notification", None, "out", FALSE),
          Message("torn", None, "none", FALSE), Message("ragged", None, "none", FALSE)}
Responses == {Message("response", Ask, root, FALSE) : root \in {"none", "out", "odd"}}

Init ==
  /\ line = <<>> /\ inbound = <<>> /\ outbound = <<>>
  /\ relayIn = [at |-> "read", forward |-> None, back |-> None] /\ relayOut = [at |-> "read", carry |-> None]
  /\ lock = None /\ part = None /\ mixed = FALSE /\ main = "wait"
  /\ server = [alive |-> TRUE, stdin |-> TRUE, held |-> FALSE, pending |-> {}, roots |-> {}, asked |-> FALSE,
               answered |-> FALSE]
  /\ client = [alive |-> TRUE, open |-> TRUE, reads |-> TRUE, sent |-> 0, asked |-> FALSE, responded |-> FALSE,
               wants |-> {}, got |-> [i \in Ids |-> 0]]

(***************************************************************************)
(* filter_line: what goes to the server and what comes back at once.       *)
(***************************************************************************)
Error(m) == [m EXCEPT !.kind = "error", !.root = "none"]

\* reject: a refused response is an error to the server, whose request would else stay open.
RejectClient(m) == [forward |-> None, back |-> Error(m)]
Reject(m) ==
  IF m.kind = "response" THEN [forward |-> Error(m), back |-> None] ELSE [forward |-> None, back |-> Error(m)]

UnrootedKept(m) == m
Rooted(m) == IF m.kind = "request" /\ m.resume /\ m.root = "none" THEN [m EXCEPT !.root = "in"] ELSE m

Violates(m) ==
  CASE m.kind = "request" -> [forward |-> None, back |-> Error(m)]
    [] m.kind = "response" -> [forward |-> Error(m), back |-> None]
    [] OTHER -> [forward |-> None, back |-> None]

Filtered(m) ==
  CASE m.kind = "torn" -> [forward |-> None, back |-> Error(m)]
    [] m.root = "odd" -> Reject(m)
    [] Rooted(m).root = "out" -> Violates(m)
    [] OTHER -> [forward |-> Rooted(m), back |-> None]

(***************************************************************************)
(* emit: a line reaches the client in pieces, under the lock.              *)
(***************************************************************************)
FreeAlways == TRUE
LockFree == lock = None
Half(who) == lock' = who /\ part' = who /\ mixed' = (mixed \/ part # None)
Received(m) ==
  IF m.kind = "ask" THEN [client EXCEPT !.asked = TRUE]
  ELSE IF m.id \in Ids THEN [client EXCEPT !.got[m.id] = @ + 1] ELSE client
Rest(who, m) ==
  lock' = None /\ part' = None /\ mixed' = (mixed \/ part # who) /\ client' = Received(m)
\* BrokenPipeError: the client is gone.
Broken(who) == ~client.alive /\ lock' = (IF lock = who THEN None ELSE lock) /\ UNCHANGED <<part, mixed>>

(***************************************************************************)
(* relay_client_input.                                                     *)
(***************************************************************************)
AfterReply(r) == IF r.forward # None THEN "write" ELSE "read"
InEnds == relayIn' = [at |-> "gone", forward |-> None, back |-> None] /\ server' = [server EXCEPT !.stdin = FALSE]

\* The second parse, which only routes the refusal of a duplicate key, is outside the try.
Raises(m) == m.kind = "ragged"
InReads ==
  /\ relayIn.at = "read"
  /\ \/ /\ line # <<>> /\ ~Raises(Head(line))
        /\ LET r == Filtered(Head(line)) IN
           relayIn' = [at |-> IF r.back # None THEN "emit" ELSE AfterReply(r), forward |-> r.forward, back |-> r.back]
        /\ line' = Tail(line) /\ UNCHANGED server
     \/ line # <<>> /\ Raises(Head(line)) /\ InEnds /\ line' = Tail(line)
     \/ line = <<>> /\ ~client.open /\ InEnds /\ UNCHANGED line
  /\ UNCHANGED <<inbound, outbound, relayOut, lock, part, mixed, main, client>>
InEmits ==
  \/ relayIn.at = "emit" /\ client.alive /\ LockFree /\ Half("in") /\ relayIn' = [relayIn EXCEPT !.at = "rest"]
     /\ UNCHANGED <<wires, relayOut, main, server, client>>
  \/ relayIn.at = "rest" /\ client.alive /\ Rest("in", relayIn.back)
     /\ relayIn' = [relayIn EXCEPT !.at = AfterReply(relayIn), !.back = None]
     /\ UNCHANGED <<wires, relayOut, main, server>>
  \/ (relayIn.at = "rest" \/ (relayIn.at = "emit" /\ LockFree)) /\ Broken("in") /\ InEnds
     /\ UNCHANGED <<wires, relayOut, main, client>>
InWrites ==
  /\ relayIn.at = "write"
  /\ IF server.alive
     THEN /\ inbound' = Append(inbound, relayIn.forward) /\ UNCHANGED server
          /\ relayIn' = [at |-> "read", forward |-> None, back |-> None]
     ELSE InEnds /\ UNCHANGED inbound
  /\ UNCHANGED <<line, outbound, relayOut, lock, part, mixed, main, client>>

(***************************************************************************)
(* relay_child_output.                                                     *)
(***************************************************************************)
OutReads ==
  /\ relayOut.at = "read"
  /\ IF outbound # <<>>
     THEN relayOut' = [at |-> "emit", carry |-> Head(outbound)] /\ outbound' = Tail(outbound)
     ELSE ~server.alive /\ ~server.held /\ relayOut' = [relayOut EXCEPT !.at = "gone"] /\ UNCHANGED outbound
  /\ UNCHANGED <<line, inbound, relayIn, lock, part, mixed, main, server, client>>
OutEmits ==
  \/ relayOut.at = "emit" /\ client.alive /\ LockFree /\ Half("out") /\ relayOut' = [relayOut EXCEPT !.at = "rest"]
     /\ UNCHANGED <<wires, relayIn, main, server, client>>
  \/ relayOut.at = "rest" /\ client.alive /\ Rest("out", relayOut.carry)
     /\ relayOut' = [at |-> "read", carry |-> None] /\ UNCHANGED <<wires, relayIn, main, server>>
  \/ (relayOut.at = "rest" \/ (relayOut.at = "emit" /\ LockFree)) /\ Broken("out")
     /\ relayOut' = [at |-> "gone", carry |-> None]
     /\ server' = [server EXCEPT !.alive = FALSE]      \* terminate
     /\ UNCHANGED <<wires, relayIn, main, client>>

(***************************************************************************)
(* main: the process follows its child.                                    *)
(***************************************************************************)
JoinsNot == TRUE
\* Five seconds are enough for a client that reads, unless a descendant of the server keeps its output open.
Joined ==
  \/ relayOut.at = "gone" \/ ~client.reads
  \/ server.held /\ outbound = <<>> /\ relayOut.at = "read"
Main ==
  /\ \/ main = "wait" /\ ~server.alive /\ main' = "join"
     \/ main = "join" /\ Joined /\ main' = "flush"
     \/ main = "flush" /\ LockFree /\ main' = "leave"
     \/ main = "leave" /\ main' = "exited"
  /\ UNCHANGED <<wires, relayIn, relayOut, lock, part, mixed, server, client>>

(***************************************************************************)
(* The server and the client.                                              *)
(***************************************************************************)
RootOf(m) == IF m.root # "none" THEN {m.root} ELSE IF m.resume THEN {"out"} ELSE {}
ServerReads ==
  /\ server.alive /\ inbound # <<>>
  /\ LET m == Head(inbound) IN
     server' = [server EXCEPT !.roots = @ \cup RootOf(m),
                              !.pending = IF m.kind = "request" THEN @ \cup {m.id} ELSE @,
                              !.answered = @ \/ m.id = Ask]
  /\ inbound' = Tail(inbound) /\ UNCHANGED <<outbound>>
ServerWrites ==
  /\ server.alive /\ UNCHANGED inbound
  /\ \/ \E id \in server.pending :
          /\ outbound' = Append(outbound, Message("result", id, "none", FALSE))
          /\ server' = [server EXCEPT !.pending = @ \ {id}]
     \/ /\ ~server.asked /\ server' = [server EXCEPT !.asked = TRUE]
        /\ outbound' = Append(outbound, Message("ask", Ask, "none", FALSE))
\* By itself, at the end of its input, or by a signal the relay hands on.
ServerEnds ==
  /\ server.alive /\ UNCHANGED <<inbound, outbound>>
  /\ \E held \in BOOLEAN : server' = [server EXCEPT !.alive = FALSE, !.held = held]
Server ==
  /\ ServerReads \/ ServerWrites \/ ServerEnds
  /\ UNCHANGED <<line, relayIn, relayOut, lock, part, mixed, main, client>>

ClientSends ==
  /\ client.open /\ client.sent < MaxMessages
  /\ \E m \in Messages(client.sent + 1) \cup (IF client.asked /\ ~client.responded THEN Responses ELSE {}) :
       /\ line' = Append(line, m)
       /\ client' = [client EXCEPT !.sent = @ + 1, !.responded = @ \/ m.kind = "response",
                                  !.wants = IF m.kind = "request" THEN @ \cup {m.id} ELSE @]
ClientCloses ==
  /\ client.open /\ UNCHANGED line
  /\ \E alive \in BOOLEAN : client' = [client EXCEPT !.open = FALSE, !.alive = alive, !.reads = @ /\ alive]
\* It matters only to the join.
ClientPauses == main = "join" /\ client.reads /\ client' = [client EXCEPT !.reads = FALSE] /\ UNCHANGED line
Client ==
  /\ ClientSends \/ ClientCloses \/ ClientPauses
  /\ UNCHANGED <<inbound, outbound, relayIn, relayOut, lock, part, mixed, main, server>>

Next ==
  /\ main # "exited"
  /\ InReads \/ InEmits \/ InWrites \/ OutReads \/ OutEmits \/ Main \/ Server \/ Client
Spec == Init /\ [][Next]_vars

-----------------------------------------------------------------------------
\* Everything that is sent.
Kinds == {"request", "notification", "response", "torn", "ragged", "error", "result", "ask"}
AllMessages == [kind : Kinds, id : Ids \cup {Ask, None}, root : {"in", "out", "odd", "none"}, resume : BOOLEAN]

\* What the theorems assume: what is there instead of a message, a number or a thread is none.
GuardAssumption ==
  MaxMessages \in Nat /\ None \notin AllMessages /\ None \notin Nat /\ None \notin {"in", "out"}

\* What the variables may hold.
GuardTypeOK ==
  /\ relayIn.at \in {"read", "emit", "rest", "write", "gone"} /\ relayOut.at \in {"read", "emit", "rest", "gone"}
  /\ lock \in {None, "in", "out"} /\ main \in {"wait", "join", "flush", "leave", "exited"}
  /\ server.pending \subseteq Ids /\ client.sent <= MaxMessages

\* docs/paseo-integration.md, "keeps execution roots inside": no thread of the server is given, or
\* resumed with, a root outside the harness.
Inside == "out" \notin server.roots /\ "odd" \notin server.roots

\* As long as the relay reads, each request is answered once, by the server or by the relay; and
\* what the client says to the server's own request reaches it, if only as an error.
Quiet ==
  /\ server.alive /\ client.alive /\ line = <<>> /\ inbound = <<>> /\ outbound = <<>> /\ server.pending = {}
  /\ relayIn.at = "read" /\ relayOut.at = "read"
Answered ==
  /\ \A i \in Ids : client.got[i] <= 1
  /\ Quiet => server.answered = client.responded /\ \A i \in client.wants : client.got[i] = 1

\* The two threads never mix their lines.
LinesWhole == ~mixed

\* The relay ends when all that the server wrote has come through to a client that reads.
EndsWhole ==
  main = "exited" /\ client.alive /\ client.reads =>
    outbound = <<>> /\ relayOut.at \in {"read", "gone"} /\ part # "out"

GuardHolds == Inside /\ Answered /\ LinesWhole /\ EndsWhole
=============================================================================
