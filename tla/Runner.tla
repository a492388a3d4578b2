------------------------------- MODULE Runner -------------------------------
(***************************************************************************)
(* The commands the console runs: class Runner of scripts/tui.py.          *)
(*                                                                         *)
(* Each command is a process and a collector thread, which copies what the *)
(* command prints into the pane and in the end its exit status.  A command *)
(* is the number start() gave it (self.generation).  The pane is the set   *)
(* of commands it holds lines of, the exit status the command it is of.    *)
(* The console's own thread starts and stops commands; its steps are       *)
(* operators here and actions of Console.                                  *)
(***************************************************************************)
EXTENDS Integers, FiniteSets

CONSTANT Commands   \* bound: how many commands are started

ASSUME CommandsAssumption == Commands \in Nat

VARIABLES
  generation,  \* self.generation: the command started last, 0 before the first
  held,        \* the command whose process is self.process, 0 for None
  running,     \* commands whose process lives
  collecting,  \* commands whose collector thread lives
  pane,        \* the commands whose lines are in self.lines
  status,      \* the command self.returncode is of, NoStatus or NotRun
  drained      \* history: the pipe of the command before was drained by then

runnerVars == <<generation, held, running, collecting, pane, status, drained>>

NoStatus == 0    \* returncode is None
NotRun == -1     \* the front door could not be run: 127

RunnerInit ==
  /\ generation = 0
  /\ held = 0
  /\ running = {}
  /\ collecting = {}
  /\ pane = {}
  /\ status = NoStatus
  /\ drained = TRUE

Busy == held \in running

-----------------------------------------------------------------------------
(***************************************************************************)
(* The collector of a command, each step under self.lock                   *)
(***************************************************************************)

(* A line goes to the pane while this command is the one held. *)
CollectLine(c) ==
  /\ c \in collecting
  /\ c = held
  /\ pane' = pane \cup {c}
  /\ UNCHANGED <<generation, held, running, collecting, status, drained>>

(* A line of a command that is no longer held ends its collector. *)
CollectStale(c) ==
  /\ c \in collecting
  /\ c # held
  /\ collecting' = collecting \ {c}
  /\ UNCHANGED <<generation, held, running, pane, status, drained>>

(* Mutant of CollectEnd: the exit status is kept whichever command is held. *)
CollectEndAny(c) ==
  /\ c \in collecting \ running
  /\ collecting' = collecting \ {c}
  /\ status' = c
  /\ UNCHANGED <<generation, held, running, pane, drained>>

(* The pipe has closed: the exit status is kept if this command is held. *)
CollectEnd(c) ==
  /\ c \in collecting \ running
  /\ collecting' = collecting \ {c}
  /\ status' = IF c = held THEN c ELSE status
  /\ UNCHANGED <<generation, held, running, pane, drained>>

(* The process of a command exits, of its own or because it was told to. *)
Exit(c) ==
  /\ c \in running
  /\ running' = running \ {c}
  /\ UNCHANGED <<generation, held, collecting, pane, status, drained>>

CommandStep ==
  \E c \in 1 .. Commands :
    \/ CollectLine(c)
    \/ CollectStale(c)
    \/ CollectEnd(c)
    \/ Exit(c)

-----------------------------------------------------------------------------
(***************************************************************************)
(* The console's thread: start(), step by step                             *)
(***************************************************************************)

(* Mutant of Clear: the lines of the command before stay in the pane. *)
ClearStatusOnly ==
  /\ ~Busy
  /\ generation' = generation + 1
  /\ drained' = (held \notin collecting)
  /\ status' = NoStatus
  /\ UNCHANGED <<held, running, collecting, pane>>

(* A second look at busy, which nothing can have changed; then what is     *)
(* left of the command before is cleared, without the lock.                *)
Clear ==
  /\ ~Busy
  /\ generation' = generation + 1
  /\ drained' = (held \notin collecting)
  /\ pane' = {}
  /\ status' = NoStatus
  /\ UNCHANGED <<held, running, collecting>>

(* Popen has started the process; self.process still names the one before. *)
Spawn ==
  /\ running' = running \cup {generation}
  /\ UNCHANGED <<generation, held, collecting, pane, status, drained>>

(* The front door cannot be run. *)
SpawnFails ==
  /\ pane' = pane \cup {generation}
  /\ status' = NotRun
  /\ UNCHANGED <<generation, held, running, collecting, drained>>

(* Popen's result is self.process, and its collector starts. *)
Collect ==
  /\ held' = generation
  /\ collecting' = collecting \cup {generation}
  /\ UNCHANGED <<generation, running, pane, status, drained>>

-----------------------------------------------------------------------------
RunnerTypeOK ==
  /\ generation \in 0 .. Commands
  /\ held \in 0 .. generation
  /\ running \subseteq 1 .. generation
  /\ collecting \subseteq 1 .. generation
  /\ pane \subseteq 1 .. generation
  /\ status \in {NoStatus, NotRun} \cup (1 .. generation)
  /\ drained \in BOOLEAN

(* "One px4sim command at a time": stopping a command and starting the     *)
(* next never leaves two of the console's commands at work on one stack.   *)
OneCommand == Cardinality(running) <= 1

Shown == held # 0 /\ held = generation

(* Once the command shown has ended and been collected, the exit status is *)
(* its own.                                                                *)
StatusIsOwn == Shown /\ held \notin running \cup collecting => status = held

(* What the pane shows under a command, and the exit status, are its own   *)
(* from the moment it is held, if the collector of the one before had come *)
(* to the end of its pipe when start() cleared the pane.                   *)
OutputIsOwn ==
  Shown /\ drained => pane \subseteq {held} /\ status \in {NoStatus, held}

=============================================================================
