------------------------------ MODULE McpGate ------------------------------
(***************************************************************************)
(* The MCP server's io_gate.  Every tool call runs its handler as a        *)
(* closure on tokio's blocking pool; the closure takes the gate, shared by *)
(* a read tool and exclusive by a write tool, runs the handler and lets    *)
(* go.  The async call only awaits the closure: a client that goes away    *)
(* drops the wait, not the work.  A handler reads the files of the         *)
(* workspace one by one, then (a write tool) writes them one by one; one   *)
(* that fails half way takes its writes back as far as it can.             *)
(***************************************************************************)
EXTENDS FiniteSets, Integers

CONSTANTS
  Call,          \* the tool calls of a run
  Writer,        \* those of tools that are not read-only
  SessionOf,     \* [Call -> session], the HTTP session of each call
  File,          \* the files the handlers touch
  Threads        \* how many threads the blocking pool has

ASSUME GateConstants ==
  /\ Writer \subseteq Call
  /\ IsFiniteSet(Call)
  /\ File # {}
  /\ Threads \in Nat \ {0}

VARIABLES
  up,            \* the server takes calls
  stage,         \* [Call -> Stage], where the closure of a call is
  client,        \* [Call -> {"awaiting", "gone", "answered"}]
  held,          \* the calls that hold a guard of their gate
  file,          \* [File -> SUBSET Writer], whose writes are in each file
  read,          \* [Call -> SUBSET File], what the handler has read
  seen,          \* [Call -> [File -> SUBSET Writer]], what it read there
  wrote,         \* [Call -> SUBSET File], what it has written for good
  result         \* [Call -> {"open", "ok", "error"}], what it returned

gateVars == <<up, stage, client, held, file, read, seen, wrote, result>>

Stage ==
  {"new", "queued", "waiting", "running", "undoing", "returned", "dropped"}

(* A mistake for TLC to find: a gate for every session.                    *)
GateOfEach(session) == session

(* The listener builds each session's service around one and the same gate *)
(* (new_sharing_gate); on stdio there is one service.                      *)
GateOf(session) == "io_gate"

SameGate(c, d) == GateOf(SessionOf[c]) = GateOf(SessionOf[d])

(* A mistake for TLC to find: read calls hold nobody up.                   *)
MayEnterPastReaders(c) ==
  \A d \in held : SameGate(c, d) => ~(c \in Writer /\ d \in Writer)

(* gate.write() and gate.read(): who must have let go before c gets in.    *)
MayEnter(c) ==
  \A d \in held : SameGate(c, d) => c \notin Writer /\ d \notin Writer

OnThread == {c \in Call : stage[c] \in {"waiting", "running", "undoing"}}

handlerVars == <<file, read, seen, wrote>>

-----------------------------------------------------------------------------
Init ==
  /\ up = TRUE
  /\ stage = [c \in Call |-> "new"]
  /\ client = [c \in Call |-> "awaiting"]
  /\ held = {}
  /\ file = [f \in File |-> {}]
  /\ read = [c \in Call |-> {}]
  /\ seen = [c \in Call |-> [f \in File |-> {}]]
  /\ wrote = [c \in Call |-> {}]
  /\ result = [c \in Call |-> "open"]

(* spawn_blocking: the closure joins the pool's queue.                     *)
Receive(c) ==
  /\ up
  /\ stage[c] = "new"
  /\ stage' = [stage EXCEPT ![c] = "queued"]
  /\ UNCHANGED <<up, client, held, result, handlerVars>>

(* A thread of the pool takes it, and blocks on the gate.                  *)
Start(c) ==
  /\ stage[c] = "queued"
  /\ Cardinality(OnThread) < Threads
  /\ stage' = [stage EXCEPT ![c] = "waiting"]
  /\ UNCHANGED <<up, client, held, result, handlerVars>>

Enter(c) ==
  /\ stage[c] = "waiting"
  /\ MayEnter(c)
  /\ stage' = [stage EXCEPT ![c] = "running"]
  /\ held' = held \cup {c}
  /\ UNCHANGED <<up, client, result, handlerVars>>

ReadFile(c, f) ==
  /\ stage[c] = "running"
  /\ f \notin read[c]
  /\ read' = [read EXCEPT ![c] = @ \cup {f}]
  /\ seen' = [seen EXCEPT ![c][f] = file[f]]
  /\ UNCHANGED <<up, stage, client, held, result, file, wrote>>

(* The write goes by what was read, not by what is there now.              *)
WriteFile(c, f) ==
  /\ stage[c] = "running"
  /\ c \in Writer
  /\ read[c] = File
  /\ f \notin wrote[c]
  /\ wrote' = [wrote EXCEPT ![c] = @ \cup {f}]
  /\ file' = [file EXCEPT ![f] = seen[c][f] \cup {c}]
  /\ UNCHANGED <<up, stage, client, held, result, read, seen>>

(* The handler fails, at whatever point of its work.                       *)
Fails(c) ==
  /\ stage[c] = "running"
  /\ stage' = [stage EXCEPT ![c] = "undoing"]
  /\ UNCHANGED <<up, client, held, result, handlerVars>>

(* restore_after_failed_commit: a file is put back as it was saved.        *)
Undo(c, f) ==
  /\ stage[c] = "undoing"
  /\ f \in wrote[c]
  /\ file' = [file EXCEPT ![f] = seen[c][f]]
  /\ wrote' = [wrote EXCEPT ![c] = @ \ {f}]
  /\ UNCHANGED <<up, stage, client, held, result, read, seen>>

(* A mistake for TLC to find: a handler that fails keeps its guard.        *)
LeaveHolding(c, r) ==
  /\ stage[c] = IF r = "ok" THEN "running" ELSE "undoing"
  /\ r = "ok" => read[c] = File /\ (c \in Writer => wrote[c] = File)
  /\ stage' = [stage EXCEPT ![c] = "returned"]
  /\ held' = IF r = "ok" THEN held \ {c} ELSE held
  /\ result' = [result EXCEPT ![c] = r]
  /\ UNCHANGED <<up, client, handlerVars>>

(* The handler returns and the closure drops its guard.  With an error     *)
(* some writes may be left: there was no session, or a restore failed.     *)
Leave(c, r) ==
  /\ stage[c] = IF r = "ok" THEN "running" ELSE "undoing"
  /\ r = "ok" => read[c] = File /\ (c \in Writer => wrote[c] = File)
  /\ stage' = [stage EXCEPT ![c] = "returned"]
  /\ held' = held \ {c}
  /\ result' = [result EXCEPT ![c] = r]
  /\ UNCHANGED <<up, client, handlerVars>>

Answer(c) ==
  /\ stage[c] \in {"returned", "dropped"}
  /\ client[c] = "awaiting"
  /\ client' = [client EXCEPT ![c] = "answered"]
  /\ UNCHANGED <<up, stage, held, result, handlerVars>>

(* A mistake for TLC to find: the guard goes with the await.               *)
GoAwayReleasing(c) ==
  /\ stage[c] # "new"
  /\ client[c] = "awaiting"
  /\ client' = [client EXCEPT ![c] = "gone"]
  /\ held' = held \ {c}
  /\ UNCHANGED <<up, stage, result, handlerVars>>

(* The await is dropped: the client cancelled, or its connection closed.   *)
GoAway(c) ==
  /\ stage[c] # "new"
  /\ client[c] = "awaiting"
  /\ client' = [client EXCEPT ![c] = "gone"]
  /\ UNCHANGED <<up, stage, held, result, handlerVars>>

(* Shutdown: a closure that no thread has taken is dropped, others end.    *)
ShutDown ==
  /\ up
  /\ up' = FALSE
  /\ UNCHANGED <<stage, client, held, result, handlerVars>>

Drop(c) ==
  /\ ~up
  /\ stage[c] = "queued"
  /\ stage' = [stage EXCEPT ![c] = "dropped"]
  /\ UNCHANGED <<up, client, held, result, handlerVars>>

(* What the pool and the handler do of themselves.                         *)
Progress(c) ==
  \/ Start(c)
  \/ Enter(c)
  \/ Fails(c)
  \/ \E f \in File : ReadFile(c, f) \/ WriteFile(c, f) \/ Undo(c, f)
  \/ \E r \in {"ok", "error"} : Leave(c, r)
  \/ Answer(c)

Next ==
  \/ \E c \in Call : Receive(c) \/ Progress(c) \/ GoAway(c) \/ Drop(c)
  \/ ShutDown

Spec == Init /\ [][Next]_gateVars

(* Threads are scheduled and handlers return.  The gate need not be fair:  *)
(* a run has finitely many calls to overtake one another.                  *)
FairSpec == Spec /\ \A c \in Call : WF_gateVars(Progress(c))

-----------------------------------------------------------------------------
(* Type invariant; the guards held are those of the handlers inside.       *)
GateTypeOK ==
  /\ up \in BOOLEAN
  /\ stage \in [Call -> Stage]
  /\ client \in [Call -> {"awaiting", "gone", "answered"}]
  /\ held = {c \in Call : stage[c] \in {"running", "undoing"}}
  /\ file \in [File -> SUBSET Writer]
  /\ read \in [Call -> SUBSET File]
  /\ seen \in [Call -> [File -> SUBSET Writer]]
  /\ wrote \in [Call -> SUBSET File]
  /\ result \in [Call -> {"open", "ok", "error"}]

(***************************************************************************)
(* No lost update: a file holds each write that its handler has not taken  *)
(* back, of every call that reported success in every file, and no other;  *)
(* though calls read long before they write, fail half way and put back    *)
(* what they had read, and their clients may have gone.                    *)
(***************************************************************************)
NothingLost ==
  /\ \A f \in File : file[f] = {c \in Writer : f \in wrote[c]}
  /\ \A c \in Writer : result[c] = "ok" => wrote[c] = File

(***************************************************************************)
(* The server implements SerialTools: whatever the overlap of calls, the   *)
(* sessions they come from and the clients that leave, each call found the *)
(* workspace between two write calls and never in the middle of one.       *)
(***************************************************************************)
Found(c) == IF result[c] = "ok" THEN seen[c] ELSE [f \in File |-> {}]

Kept(c) == IF result[c] = "open" THEN {} ELSE wrote[c]

Serial == INSTANCE SerialTools
  WITH outcome <- result,
       answer <- [c \in Call |-> Found(c)],
       kept <- [c \in Call |-> Kept(c)]

ImplementsSerialTools == Serial!Spec

(***************************************************************************)
(* No call that was received hangs, whatever waits on the gate and on the  *)
(* pool: it returns, also when its client has gone, or it is dropped by a  *)
(* shutdown.                                                               *)
(***************************************************************************)
CallsReturn ==
  \A c \in Call : stage[c] = "queued" ~> stage[c] \in {"returned", "dropped"}
=============================================================================
