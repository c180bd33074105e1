---------------------------- MODULE ShellCommand ----------------------------
(***************************************************************************)
(* run_with_timeout of exec.rs: one shell command, run to its end or to a  *)
(* deadline.  The caller polls; a thread reads stderr and hands it over a  *)
(* channel; the command is a tree of processes that do as they please:     *)
(* fork, close or hold stderr, leave the shell's process group, write more *)
(* than anybody reads, or never end.                                       *)
(*                                                                         *)
(* A tick of the clock is POLL_INTERVAL.  The caller's own steps take no   *)
(* time; time passes while it waits.                                       *)
(***************************************************************************)
EXTENDS Naturals

CONSTANTS
  Member,     \* the processes a command may consist of
  Shell,      \* the one that is spawned, the leader of its group
  Deadline,   \* timeout_secs, in ticks
  Grace,      \* how long stderr is waited for after a kill, in ticks
  PipeSize,   \* what the pipe of stderr holds
  Capture     \* STDERR_CAPTURE_MAX

ASSUME CommandAssumption ==
  /\ Shell \in Member
  /\ Deadline \in Nat /\ Grace \in Nat
  /\ PipeSize \in Nat \ {0} /\ Capture \in Nat

VARIABLES
  alive,    \* processes of the command that run
  group,    \* processes that are in the shell's process group
  holds,    \* processes with the write end of stderr
  code,     \* what the shell exited with, once it has
  pipe,     \* what is in the pipe of stderr
  reader,   \* the reading thread: total bytes, where it is
  caller,   \* the polling thread: where it is, status and stderr_head
  clock     \* since the command was spawned

cmdVars == <<alive, group, holds, code, pipe, reader, caller, clock>>
treeVars == <<alive, group, holds, code, pipe>>

Codes == {"ok", "fail"}
NoCode == "none"

-----------------------------------------------------------------------------
(* No command runs.                                                        *)
Quiet == [pc |-> "quiet", status |-> NoCode, head |-> FALSE, waited |-> 0]

Returned == caller.pc \in {"exited", "timed_out", "errored"}

(* spawn, with stdout to /dev/null, stderr to a pipe and a group of its    *)
(* own; then the reading thread.                                           *)
Spawn ==
  /\ alive' = {Shell} /\ group' = {Shell} /\ holds' = {Shell}
  /\ code' = NoCode
  /\ pipe' = 0
  /\ reader' = [pc |-> "reading", total |-> 0]
  /\ caller' = [Quiet EXCEPT !.pc = "poll"]
  /\ clock' = 0

-----------------------------------------------------------------------------
(* What the processes of the command do, and the kernel.                   *)
Fork(m) ==
  /\ m \in alive
  /\ \E n \in Member \ ({Shell} \cup alive) :
       /\ alive' = alive \cup {n}
       /\ group' = IF m \in group THEN group \cup {n} ELSE group \ {n}
       /\ holds' = IF m \in holds THEN holds \cup {n} ELSE holds
  /\ UNCHANGED <<code, pipe, reader, caller, clock>>

CloseStderr(m) ==
  /\ m \in alive \cap holds
  /\ holds' = holds \ {m}
  /\ UNCHANGED <<alive, group, code, pipe, reader, caller, clock>>

(* setsid, which the leader of a group cannot do.                          *)
LeaveGroup(m) ==
  /\ m \in (alive \cap group) \ {Shell}
  /\ group' = group \ {m}
  /\ UNCHANGED <<alive, holds, code, pipe, reader, caller, clock>>

(* A full pipe blocks the writer; one nobody reads any more takes nothing. *)
WriteStderr(m) ==
  /\ m \in alive \cap holds
  /\ pipe < PipeSize /\ reader.pc # "broken"
  /\ pipe' = pipe + 1
  /\ UNCHANGED <<alive, group, holds, code, reader, caller, clock>>

Exit(m) ==
  /\ m \in alive
  /\ alive' = alive \ {m}
  /\ holds' = holds \ {m}
  /\ IF m = Shell THEN code' \in Codes ELSE UNCHANGED code
  /\ UNCHANGED <<group, pipe, reader, caller, clock>>

CommandMoves ==
  \E m \in Member : Fork(m) \/ CloseStderr(m) \/ LeaveGroup(m) \/ WriteStderr(m) \/ Exit(m)

-----------------------------------------------------------------------------
(* The reading thread.  It keeps Capture bytes and one more, and reads on  *)
(* to the end all the same; then it sends what it has kept.                *)
More(total) == IF total > Capture THEN total ELSE total + 1

(* A mistake for TLC to find: it stops at the bytes it keeps.              *)
ReadsNoFurther ==
  /\ reader.pc = "reading"
  /\ IF pipe > 0 /\ reader.total <= Capture
     THEN /\ pipe' = pipe - 1
          /\ reader' = [reader EXCEPT !.total = More(@)]
     ELSE /\ holds = {} \/ reader.total > Capture
          /\ reader' = [reader EXCEPT !.pc = "sent"]
          /\ UNCHANGED pipe
  /\ UNCHANGED <<alive, group, holds, code, caller, clock>>

Read ==
  /\ reader.pc = "reading"
  /\ \/ /\ pipe > 0
        /\ pipe' = pipe - 1
        /\ reader' = [reader EXCEPT !.total = More(@)]
     \/ /\ pipe = 0 /\ holds = {}
        /\ reader' = [reader EXCEPT !.pc = "sent"]
        /\ UNCHANGED pipe
  /\ UNCHANGED <<alive, group, holds, code, caller, clock>>

(* A read that fails: what is there is sent, and the pipe is left.         *)
ReadFails ==
  /\ reader.pc = "reading"
  /\ reader' = [reader EXCEPT !.pc = "broken"]
  /\ pipe' = 0
  /\ UNCHANGED <<alive, group, holds, code, caller, clock>>

HasSent == reader.pc \in {"sent", "broken"}

-----------------------------------------------------------------------------
(* A mistake for TLC to find: the shell is killed, not its group.          *)
KillShell ==
  /\ alive' = alive \ {Shell}
  /\ holds' = holds \ {Shell}
  /\ caller' = [caller EXCEPT !.pc = "killed", !.waited = 0]
  /\ UNCHANGED <<group, code, pipe, reader, clock>>

(* The polling thread.  killpg takes all of the group at once, and wait    *)
(* then reaps the shell.                                                   *)
Kill ==
  /\ alive' = alive \ group
  /\ holds' = holds \ group
  /\ caller' = [caller EXCEPT !.pc = "killed", !.waited = 0]
  /\ UNCHANGED <<group, code, pipe, reader, clock>>

(* A mistake for TLC to find: the deadline is that of the shell alone.     *)
PollForShell ==
  /\ caller.pc = "poll"
  /\ LET status == IF caller.status = NoCode THEN code ELSE caller.status
     IN  IF clock >= Deadline /\ status = NoCode THEN Kill
         ELSE /\ caller' = [caller EXCEPT !.status = status,
                              !.pc = IF status # NoCode /\ caller.head THEN "exited" ELSE "wait"]
              /\ UNCHANGED <<treeVars, reader, clock>>

(* The top of the loop: the deadline, then try_wait, then whether both the *)
(* exit and the end of stderr have been seen.                              *)
Poll ==
  /\ caller.pc = "poll"
  /\ IF clock >= Deadline THEN Kill
     ELSE LET status == IF caller.status = NoCode THEN code ELSE caller.status
          IN  /\ caller' = [caller EXCEPT !.status = status,
                              !.pc = IF status # NoCode /\ caller.head THEN "exited" ELSE "wait"]
              /\ UNCHANGED <<treeVars, reader, clock>>

(* try_wait is an error: the caller has it, and nothing is killed.         *)
PollFails ==
  /\ caller.pc = "poll" /\ clock < Deadline
  /\ caller.status = NoCode
  /\ caller' = [caller EXCEPT !.pc = "errored"]
  /\ UNCHANGED <<treeVars, reader, clock>>

(* The bottom: recv_timeout for stderr, or a sleep once it is there.       *)
Receive ==
  /\ caller.pc = "wait" /\ ~caller.head
  /\ HasSent
  /\ caller' = [caller EXCEPT !.pc = "poll", !.head = TRUE]
  /\ UNCHANGED <<treeVars, reader, clock>>

(* A mistake for TLC to find: recv without a timeout.                      *)
WaitEndsWithHead ==
  /\ caller.pc = "wait" /\ caller.head
  /\ clock' = clock + 1
  /\ caller' = [caller EXCEPT !.pc = "poll"]
  /\ UNCHANGED <<treeVars, reader>>

WaitEnds ==
  /\ caller.pc = "wait"
  /\ clock' = clock + 1
  /\ caller' = [caller EXCEPT !.pc = "poll"]
  /\ UNCHANGED <<treeVars, reader>>

(* After the kill: what the reader can still send within Grace.            *)
TimedOut ==
  /\ caller.pc = "killed"
  /\ caller.head \/ HasSent \/ caller.waited = Grace
  /\ caller' = [caller EXCEPT !.pc = "timed_out"]
  /\ UNCHANGED <<treeVars, reader, clock>>

GraceTick ==
  /\ caller.pc = "killed" /\ ~caller.head
  /\ caller.waited < Grace
  /\ caller' = [caller EXCEPT !.waited = @ + 1]
  /\ clock' = clock + 1
  /\ UNCHANGED <<treeVars, reader>>

CallerMoves == Poll \/ PollFails \/ Receive \/ WaitEnds \/ TimedOut \/ GraceTick

ReaderMoves == Read \/ ReadFails

CommandNext == CommandMoves \/ ReaderMoves \/ CallerMoves

-----------------------------------------------------------------------------
(* Type invariant.  The bound on the clock is the promise of a timeout:    *)
(* the caller has its answer by the deadline and the grace for stderr.     *)
CommandTypeOK ==
  /\ alive \subseteq Member /\ group \subseteq Member
  /\ holds \subseteq alive
  /\ code \in Codes \cup {NoCode}
  /\ pipe \in 0..PipeSize
  /\ reader.pc \in {"reading", "sent", "broken"} /\ reader.total \in 0..(Capture + 1)
  /\ caller.pc \in {"quiet", "poll", "wait", "killed"} \/ Returned
  /\ caller.status \in Codes \cup {NoCode}
  /\ caller.head \in BOOLEAN /\ caller.waited \in 0..Grace
  /\ clock \in 0..(Deadline + Grace)

(***************************************************************************)
(* A command that is reported to have exited has: the shell is gone, and   *)
(* unless reading failed nobody has its stderr open, so what is reported   *)
(* of it is all it wrote.                                                  *)
(* ("A shell can exit while a grandchild still holds stderr, and a process *)
(* can close stderr and keep running.")                                    *)
(***************************************************************************)
ExitedIsOver ==
  caller.pc = "exited" =>
    /\ Shell \notin alive /\ caller.status = code
    /\ reader.pc # "broken" => holds = {} /\ pipe = 0

(***************************************************************************)
(* When a timeout is reported, no process is left in the shell's group:    *)
(* pipelines and && chains are dead, also those that were forked while the *)
(* deadline was noticed.                                                   *)
(***************************************************************************)
TimeoutLeavesNothing == caller.pc = "timed_out" => alive \cap group = {}
=============================================================================
