------------------------------ MODULE Console -------------------------------
(***************************************************************************)
(* The console's main loop over its report stream and its commands: class  *)
(* Console of scripts/tui.py, with Feed and Runner.                        *)
(*                                                                         *)
(* The loop looks at .env, hands the newest report and its age to the      *)
(* watchdog, draws, and acts on one key.  A menu, a question, and a        *)
(* command that is given the terminal have the loop wait for the operator, *)
(* who may take any time, while the threads go on.  Left out are drawing,  *)
(* leaving the console, and a Ctrl-C that lands in the middle of a step.   *)
(***************************************************************************)
EXTENDS Feed, Runner

VARIABLES
  ui,       \* where the main loop stands
  seen,     \* settings_seen
  rows,     \* self.rows: the version of .env that the panes show
  refresh,  \* refresh_when_done
  wanted    \* whether the command being started asks for a refresh

consoleVars == <<ui, seen, rows, refresh, wanted>>
vars == <<feedVars, runnerVars, consoleVars>>

Init ==
  /\ FeedInit
  /\ RunnerInit
  /\ ui = "look"
  /\ seen = 0
  /\ rows = NoReport
  /\ refresh = FALSE
  /\ wanted = FALSE

-----------------------------------------------------------------------------
(***************************************************************************)
(* once(): look, watch, act                                                *)
(***************************************************************************)

(* Mutant of LookChanged: the change is noted and the reader left alone. *)
LookChangedOnly ==
  /\ ui = "look"
  /\ seen # settings
  /\ seen' = settings
  /\ ui' = "watch"
  /\ UNCHANGED <<feedVars, runnerVars, rows, refresh, wanted>>

(* .env has changed. *)
LookChanged ==
  /\ ui = "look"
  /\ seen # settings
  /\ seen' = settings
  /\ AskRestart
  /\ ui' = "stopLooked"
  /\ UNCHANGED <<settings, thread, report, stale, guarded, readerVars,
                 runnerVars, rows, refresh, wanted>>

(* A command that asked for a refresh is over. *)
LookDone ==
  /\ ui = "look"
  /\ seen = settings
  /\ refresh /\ ~Busy
  /\ refresh' = FALSE
  /\ AskRestart
  /\ ui' = "stopLooked"
  /\ UNCHANGED <<settings, thread, report, stale, guarded, readerVars,
                 runnerVars, seen, rows, wanted>>

LookSame ==
  /\ ui = "look"
  /\ seen = settings
  /\ ~refresh \/ Busy
  /\ ui' = "watch"
  /\ UNCHANGED <<feedVars, runnerVars, seen, rows, refresh, wanted>>

(* The report that the watchdog was given the age of is shown.             *)
ShowsReport == rows' = IF report = NoReport THEN rows ELSE report

WatchBites ==
  /\ ui = "watch"
  /\ WatchdogBites
  /\ ShowsReport
  /\ guarded' = TRUE
  /\ AskRestart
  /\ ui' = "stopStalled"
  /\ UNCHANGED <<settings, thread, report, stale, readerVars, runnerVars,
                 seen, refresh, wanted>>

WatchQuiet ==
  /\ ui = "watch"
  /\ ~WatchdogBites
  /\ ShowsReport
  /\ ui' = "key"
  /\ UNCHANGED <<feedVars, runnerVars, seen, refresh, wanted>>

(* The second half of either restart. *)
Stop ==
  /\ ui \in {"stopLooked", "stopStalled"}
  /\ StopReader
  /\ ui' = IF ui = "stopLooked" THEN "watch" ELSE "key"
  /\ UNCHANGED <<settings, thread, facts, faults, report, stale, restarting,
                 guarded, runnerVars, seen, rows, refresh, wanted>>

NoKey ==
  /\ ui = "key"
  /\ ui' = "look"
  /\ UNCHANGED <<feedVars, runnerVars, seen, rows, refresh, wanted>>

-----------------------------------------------------------------------------
(***************************************************************************)
(* The operator                                                            *)
(***************************************************************************)

(* A key opens a menu, a question or the help, or gives the terminal to a  *)
(* command in the foreground (none of which asks for a refresh).  Each     *)
(* waits in a loop of its own.                                             *)
Opens ==
  /\ ui = "key"
  /\ ui' = "dialog"
  /\ UNCHANGED <<feedVars, runnerVars, seen, rows, refresh, wanted>>

(* It is left, and nothing is started; or no to stopping what runs. *)
Leaves ==
  /\ ui \in {"dialog", "confirm"}
  /\ ui' = "look"
  /\ wanted' = FALSE
  /\ UNCHANGED <<feedVars, runnerVars, seen, rows, refresh>>

(* A key, or an answer, starts a command: at once, or after one question   *)
(* more if one runs.                                                       *)
StartKey ==
  /\ ui \in {"key", "dialog"}
  /\ generation < Commands
  /\ wanted' \in BOOLEAN
  /\ ui' = IF Busy THEN "confirm" ELSE "clear"
  /\ UNCHANGED <<feedVars, runnerVars, seen, rows, refresh>>

(* Yes: the command that runs is told to stop. *)
Confirms ==
  /\ ui = "confirm"
  /\ ui' = "cancelling"
  /\ UNCHANGED <<feedVars, runnerVars, seen, rows, refresh, wanted>>

Operator == Opens \/ Leaves \/ StartKey \/ Confirms

(* The loop waits for the operator. *)
Asking == ui \in {"dialog", "confirm"}

-----------------------------------------------------------------------------
(***************************************************************************)
(* start_command(), once a command was told to stop or none runs           *)
(***************************************************************************)

(* It has stopped in time. *)
Cancelled ==
  /\ ui = "cancelling"
  /\ ~Busy
  /\ ui' = "clear"
  /\ UNCHANGED <<feedVars, runnerVars, seen, rows, refresh, wanted>>

(* It has not: the new command is not started. *)
NotCancelled ==
  /\ ui = "cancelling"
  /\ Busy
  /\ ui' = "look"
  /\ wanted' = FALSE
  /\ UNCHANGED <<feedVars, runnerVars, seen, rows, refresh>>

StartClear ==
  /\ ui = "clear"
  /\ Clear
  /\ ui' = "spawn"
  /\ UNCHANGED <<feedVars, seen, rows, refresh, wanted>>

StartSpawn ==
  /\ ui = "spawn"
  /\ Spawn
  /\ ui' = "collect"
  /\ UNCHANGED <<feedVars, seen, rows, refresh, wanted>>

StartFails ==
  /\ ui = "spawn"
  /\ SpawnFails
  /\ refresh' = wanted
  /\ ui' = "look"
  /\ wanted' = FALSE
  /\ UNCHANGED <<feedVars, seen, rows>>

StartCollect ==
  /\ ui = "collect"
  /\ Collect
  /\ refresh' = wanted
  /\ ui' = "look"
  /\ wanted' = FALSE
  /\ UNCHANGED <<feedVars, seen, rows>>

-----------------------------------------------------------------------------
MainLoop ==
  \/ LookChanged
  \/ LookDone
  \/ LookSame
  \/ WatchBites
  \/ WatchQuiet
  \/ Stop
  \/ NoKey
  \/ Cancelled
  \/ NotCancelled
  \/ StartClear
  \/ StartSpawn
  \/ StartFails
  \/ StartCollect

Next ==
  \/ MainLoop
  \/ Operator
  \/ ThreadStep /\ UNCHANGED <<runnerVars, consoleVars>>
  \/ Surroundings /\ UNCHANGED <<runnerVars, consoleVars>>
  \/ CommandStep /\ UNCHANGED <<feedVars, consoleVars>>

(* The loop goes on by itself but not from a dialog, the threads run, a    *)
(* reader gets to its first report, and time passes.  Nothing makes a      *)
(* command end, a key be pressed, a dialog be answered or a fault happen.  *)
Fairness ==
  /\ WF_vars(MainLoop)
  /\ WF_vars(ThreadStep /\ UNCHANGED <<runnerVars, consoleVars>>)
  /\ WF_vars(ReadSettings /\ UNCHANGED <<runnerVars, consoleVars>>)
  /\ WF_vars(Ages /\ UNCHANGED <<runnerVars, consoleVars>>)
  /\ WF_vars(GuardEnds /\ UNCHANGED <<runnerVars, consoleVars>>)

Spec == Init /\ [][Next]_vars

FairSpec == Spec /\ Fairness

-----------------------------------------------------------------------------
(***************************************************************************)
(* Properties                                                              *)
(***************************************************************************)

TypeOK ==
  /\ FeedTypeOK
  /\ RunnerTypeOK
  /\ ui \in {"look", "stopLooked", "watch", "stopStalled", "key", "dialog",
             "confirm", "cancelling", "clear", "spawn", "collect"}
  /\ seen \in 0 .. settings
  /\ rows \in (0 .. Edits) \cup {NoReport}
  /\ refresh \in BOOLEAN
  /\ wanted \in BOOLEAN

(* What the console says of its command is true: there is one at a time,   *)
(* though its process runs before it is the one held, and what it shows    *)
(* under a command is that command's (Runner), unless it was started while *)
(* the pipe of the one before was still being drained.                     *)
CommandTrue == OneCommand /\ StatusIsOwn /\ OutputIsOwn

(* A restart finds the reader it means: not while the thread sleeps before *)
(* it opens one, and not between the reader's start and its being held.    *)
RestartsLand ==
  ui \in {"stopLooked", "stopStalled"} => thread \in {"reading", "ended"}

(* The operator leaves no dialog open for ever, without which the loop     *)
(* neither looks at .env nor calls the watchdog.                           *)
DialogsEnd == []<>~Asking

(* "The panes never show a world, a fleet or a selection that the next     *)
(* restart would not fly": a change of .env reaches the panes for good,    *)
(* whichever process or thread is in the way, unless a reader hangs, a     *)
(* restart misses its reader or a dialog stays open.                       *)
SettingsShown ==
  []RestartsLand /\ [](reader # "hung") /\ DialogsEnd => <>[](rows = settings)

(* "Recover a wedged state reader without requiring a second UI": a reader *)
(* that hangs after a first report is restarted, if restarts land and no   *)
(* dialog stays open.                                                      *)
HangRecovered ==
  []RestartsLand /\ DialogsEnd =>
    ((report # NoReport /\ reader = "hung") ~> reader # "hung")

(* The same with nothing said of where restarts land. *)
HangAlwaysRecovered ==
  DialogsEnd => ((report # NoReport /\ reader = "hung") ~> reader # "hung")

=============================================================================
