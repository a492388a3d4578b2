-------------------------------- MODULE Feed --------------------------------
(***************************************************************************)
(* The report stream behind the console: class Feed of scripts/tui.py, and *)
(* the `px4sim state --watch` process it keeps running (the reader).       *)
(*                                                                         *)
(* A thread opens the reader, takes its reports line by line until the     *)
(* pipe closes, and opens it again: at once when a restart was asked for,  *)
(* after FEED_RETRY_S when it was not.  The console's own thread asks for  *)
(* restarts; its steps are operators here and actions of Console.          *)
(*                                                                         *)
(* The reader reads .env once, when it starts, so everything it reports    *)
(* is as old as that reading.  A version of .env is a number.  A report is *)
(* the version it was made from.                                           *)
(***************************************************************************)
EXTENDS Integers

CONSTANTS
  Edits,   \* bound: how often .env changes
  Faults   \* bound: how often the reader dies or hangs of its own

ASSUME BoundsAssumption == Edits \in Nat /\ Faults \in Nat

VARIABLES
  settings,    \* the version of .env
  thread,      \* where the feed's thread stands
  reader,      \* the newest reader process
  facts,       \* the version of .env that reader has read
  report,      \* self.report: the version it was made from, or NoReport
  stale,       \* the age of that report has reached REPORT_WATCHDOG_S
  restarting,  \* self.restarting
  guarded,     \* the watchdog last acted less than REPORT_WATCHDOG_S ago
  faults       \* faults so far

readerVars == <<reader, facts, faults>>
feedVars == <<settings, thread, report, stale, restarting, guarded, readerVars>>

NoReport == -1

FeedInit ==
  /\ settings = 0
  /\ thread = "top"
  /\ reader = "dead"
  /\ facts = 0
  /\ report = NoReport
  /\ stale = FALSE
  /\ restarting = FALSE
  /\ guarded = FALSE
  /\ faults = 0

-----------------------------------------------------------------------------
(***************************************************************************)
(* The feed's thread                                                       *)
(***************************************************************************)

(* Popen has started the reader; self.process still names the one before.  *)
Open ==
  /\ thread = "top"
  /\ reader' = "starting"
  /\ thread' = "opening"
  /\ UNCHANGED <<settings, facts, report, stale, restarting, guarded, faults>>

(* The front door cannot be run. *)
OpenFails ==
  /\ thread = "top"
  /\ faults < Faults
  /\ faults' = faults + 1
  /\ thread' = "retry"
  /\ UNCHANGED <<settings, reader, facts, report, stale, restarting, guarded>>

(* Popen has returned, and its result is self.process. *)
Hold ==
  /\ thread = "opening"
  /\ thread' = "reading"
  /\ UNCHANGED <<settings, readerVars, report, stale, restarting, guarded>>

(* The pipe has closed and the process is reaped. *)
PipeEnds ==
  /\ thread = "reading"
  /\ reader = "dead"
  /\ thread' = "ended"
  /\ UNCHANGED <<settings, readerVars, report, stale, restarting, guarded>>

(* Mutant of Again: the restart that was asked for stays asked for. *)
AgainFlagged ==
  /\ thread = "ended"
  /\ thread' = IF restarting THEN "top" ELSE "retry"
  /\ UNCHANGED <<settings, readerVars, report, stale, restarting, guarded>>

(* A restart that was asked for is taken at once.  Any other end is noted, *)
(* and the thread sleeps for FEED_RETRY_S.                                 *)
Again ==
  /\ thread = "ended"
  /\ thread' = IF restarting THEN "top" ELSE "retry"
  /\ restarting' = FALSE
  /\ UNCHANGED <<settings, readerVars, report, stale, guarded>>

Retry ==
  /\ thread = "retry"
  /\ thread' = "top"
  /\ UNCHANGED <<settings, readerVars, report, stale, restarting, guarded>>

(* The thread takes one line of the reader's. *)
Take ==
  /\ thread = "reading"
  /\ reader = "live"
  /\ report' = facts
  /\ stale' = FALSE
  /\ UNCHANGED <<settings, thread, readerVars, restarting, guarded>>

-----------------------------------------------------------------------------
(***************************************************************************)
(* The console's thread: steps of Console's actions                        *)
(***************************************************************************)

(* restart(), first half. *)
AskRestart == restarting' = TRUE

(* restart(), second half: stop_process(self.process).  In "opening" that  *)
(* is the process before, which is already dead.                           *)
StopReader ==
  IF thread = "opening" THEN UNCHANGED reader ELSE reader' = "dead"

(* The age the console hands to the watchdog is 0 until there is a report. *)
Stalled == report # NoReport /\ stale

(* watchdog() restarts the reader. *)
WatchdogBites == Stalled /\ ~restarting /\ ~guarded

-----------------------------------------------------------------------------
(***************************************************************************)
(* The reader, the settings and time                                       *)
(***************************************************************************)

(* The front door resolves its facts from .env, and reports from then on. *)
ReadSettings ==
  /\ reader = "starting"
  /\ reader' = "live"
  /\ facts' = settings
  /\ UNCHANGED <<settings, thread, report, stale, restarting, guarded, faults>>

(* The reader exits, or hangs without a word. *)
Fault ==
  /\ faults < Faults
  /\ faults' = faults + 1
  /\ reader \in {"starting", "live"}
  /\ reader' \in {"dead", "hung"}
  /\ UNCHANGED <<settings, thread, facts, report, stale, restarting, guarded>>

(* A command, another px4sim or an editor writes .env. *)
Edit ==
  /\ settings < Edits
  /\ settings' = settings + 1
  /\ UNCHANGED <<thread, readerVars, report, stale, restarting, guarded>>

(* REPORT_WATCHDOG_S passes with no report.  A live reader reports every   *)
(* REPORT_PERIOD_S, and one that starts is live well before that.          *)
Ages ==
  /\ report # NoReport
  /\ ~stale
  /\ reader \in {"dead", "hung"}
  /\ stale' = TRUE
  /\ UNCHANGED <<settings, thread, readerVars, report, restarting, guarded>>

(* REPORT_WATCHDOG_S passes since the watchdog acted: time enough for the   *)
(* reader it stopped to be opened again and to report, unless it hangs.    *)
GuardEnds ==
  /\ guarded
  /\ stale => reader = "hung"
  /\ guarded' = FALSE
  /\ UNCHANGED <<settings, thread, readerVars, report, stale, restarting>>

ThreadStep ==
  \/ Open
  \/ OpenFails
  \/ Hold
  \/ PipeEnds
  \/ Again
  \/ Retry
  \/ Take

Surroundings ==
  \/ ReadSettings
  \/ Fault
  \/ Edit
  \/ Ages
  \/ GuardEnds

-----------------------------------------------------------------------------
FeedTypeOK ==
  /\ settings \in 0 .. Edits
  /\ thread \in {"top", "opening", "reading", "ended", "retry"}
  /\ reader \in {"starting", "live", "hung", "dead"}
  /\ facts \in 0 .. Edits
  /\ report \in (0 .. Edits) \cup {NoReport}
  /\ stale \in BOOLEAN
  /\ restarting \in BOOLEAN
  /\ guarded \in BOOLEAN
  /\ faults \in 0 .. Faults

=============================================================================
