----------------------------- MODULE Recording -----------------------------
(***************************************************************************)
(* Recording a simulated flight: the `record` command of px4sim in the     *)
(* simulator, with the helpers it calls and the part of stop_stack that    *)
(* lets a session go.                                                      *)
(*                                                                         *)
(* One recorder runs in each companion's container and one in the ground   *)
(* station's, each a detached process nothing waits for.  What ties them   *)
(* together is a manifest, a file with a line for each.  Three shells use  *)
(* it at once: one that starts recordings, one that stops them (the        *)
(* console and a terminal), and one that stops and starts the stack.       *)
(*                                                                         *)
(* A shell that ends, well or not, is "idle" again; what it prints is left *)
(* out.  Where a shell tests a file and acts on it with nothing slow in    *)
(* between, the two are one step.                                          *)
(***************************************************************************)
EXTENDS Integers, FiniteSets

CONSTANTS
  Fleet,      \* how many vehicles are active
  Sessions,   \* bound: how many recordings are started
  Crashes,    \* bound: how many recorders or containers die of their own
  Restarts    \* bound: how often the stack is stopped

ASSUME FleetAssumption == Fleet \in Nat \ {0}
ASSUME BoundsAssumption ==
  Sessions \in Nat /\ Crashes \in Nat /\ Restarts \in Nat

VARIABLES
  exists,    \* RECORD_SIM_FILE exists
  lines,     \* the recorders it lists
  recorder,  \* what became of each recorder
  up,        \* the members whose container runs
  era,       \* how often the containers were removed: their identity
  crashes,
  starter,   \* where `record bags` stands
  session,   \* the session it started last
  next,      \* the member it comes to next
  resolved,  \* the era of the containers it looked up
  stopper,   \* where `record stop` stands
  checked,   \* the lines it found stopped in this round
  stack      \* where the shell that stops and starts the stack stands

fileVars == <<exists, lines>>
dockerVars == <<recorder, up, era, crashes>>
starterVars == <<starter, session, next, resolved>>
stopperVars == <<stopper, checked>>
vars == <<fileVars, dockerVars, starterVars, stopperVars, stack>>

(* The vehicles in fleet order, then the ground station. *)
Members == 1 .. Fleet + 1
Recorders == (1 .. Sessions) \X Members

(* What pgrep and pkill find: a shell that is about to become the recorder *)
(* has its command line too.                                               *)
Alive == {"launched", "recording", "finalizing"}
Live(r) == recorder[r] \in Alive
LiveRecorders == {r \in Recorders : Live(r)}

Init ==
  /\ exists = FALSE
  /\ lines = {}
  /\ recorder = [r \in Recorders |-> "none"]
  /\ up = Members
  /\ era = 0
  /\ crashes = 0
  /\ starter = "idle"
  /\ session = 0
  /\ next = 1
  /\ resolved = 0
  /\ stopper = "idle"
  /\ checked = {}
  /\ stack = "up"

-----------------------------------------------------------------------------
(***************************************************************************)
(* The recorders and their containers                                      *)
(***************************************************************************)

(* SIGINT makes a recorder finalize its bag.  A shell that is not yet the  *)
(* recorder dies, or goes on when the signal meets it waiting for a child. *)
Interrupted(state, deaf) ==
  CASE state = "recording" -> "finalizing"
    [] state = "launched" /\ ~deaf -> "gone"
    [] OTHER -> state

(* signal_sim_recorders INT: every recorder the manifest lists. *)
Signal ==
  \E deaf \in SUBSET {r \in lines : recorder[r] = "launched"} :
    recorder' = [r \in Recorders |->
                   IF r \in lines THEN Interrupted(recorder[r], r \in deaf)
                                  ELSE recorder[r]]

(* The shell in the container becomes the recorder. *)
Become(r) ==
  /\ recorder[r] = "launched"
  /\ recorder' = [recorder EXCEPT ![r] = "recording"]
  /\ UNCHANGED <<up, era, crashes>>

(* The recorder has written its metadata, and ends. *)
Finalize(r) ==
  /\ recorder[r] = "finalizing"
  /\ recorder' = [recorder EXCEPT ![r] = "kept"]
  /\ UNCHANGED <<up, era, crashes>>

(* A recorder dies before that. *)
Die(r) ==
  /\ Live(r)
  /\ crashes < Crashes
  /\ crashes' = crashes + 1
  /\ recorder' = [recorder EXCEPT ![r] = "gone"]
  /\ UNCHANGED <<up, era>>

(* What the end of a member's container does to its recorders. *)
Killed(m) == [r \in Recorders |->
                IF r[2] = m /\ Live(r) THEN "gone" ELSE recorder[r]]

(* A container ends of its own. *)
ContainerDies(m) ==
  /\ m \in up
  /\ crashes < Crashes
  /\ crashes' = crashes + 1
  /\ up' = up \ {m}
  /\ recorder' = Killed(m)
  /\ UNCHANGED era

Becomes == \E r \in Recorders : Become(r)
Finalizes == \E r \in Recorders : Finalize(r)

Docker ==
  \/ Becomes
  \/ Finalizes
  \/ \E r \in Recorders : Die(r)
  \/ \E m \in Members : ContainerDies(m)

-----------------------------------------------------------------------------
(***************************************************************************)
(* record bags                                                             *)
(***************************************************************************)

(* Mutant of StartCheck: only a recording that works refuses another. *)
StartCheckStatus ==
  /\ starter = "idle"
  /\ session < Sessions
  /\ ~(exists /\ lines # {} /\ \A r \in lines : Live(r))
  /\ starter' = "resolve"
  /\ UNCHANGED <<session, next, resolved>>

(* Neither a recording that works nor a manifest left by one that did not. *)
StartCheck ==
  /\ starter = "idle"
  /\ session < Sessions
  /\ ~exists
  /\ starter' = "resolve"
  /\ UNCHANGED <<session, next, resolved>>

(* Every container is looked up before the first recorder is started. *)
StartResolve ==
  /\ starter = "resolve"
  /\ IF up = Members
     THEN starter' = "claim" /\ resolved' = era
     ELSE starter' = "idle" /\ UNCHANGED resolved
  /\ UNCHANGED <<session, next>>

(* Mutant of StartClaim: a line is written when its recorder's turn comes, *)
(* and the manifest holds the first.                                       *)
StartClaimFirst ==
  /\ starter = "claim"
  /\ exists' = TRUE
  /\ session' = session + 1
  /\ lines' = {<<session + 1, 1>>}
  /\ next' = 1
  /\ starter' = "launch"
  /\ UNCHANGED resolved

(* Ownership before the first launch: a manifest that lists every member.  *)
StartClaim ==
  /\ starter = "claim"
  /\ exists' = TRUE
  /\ session' = session + 1
  /\ lines' = {session + 1} \X Members
  /\ next' = 1
  /\ starter' = "launch"
  /\ UNCHANGED resolved

(* docker exec -d in the container that was looked up. *)
StartLaunch ==
  /\ starter = "launch"
  /\ next \in up /\ resolved = era
  /\ recorder' = [recorder EXCEPT ![<<session, next>>] = "launched"]
  /\ IF next = Fleet + 1
     THEN starter' = "confirm" /\ UNCHANGED next
     ELSE next' = next + 1 /\ UNCHANGED starter
  /\ UNCHANGED <<session, resolved, up, era, crashes>>

(* That container is not there: the start is given up. *)
StartLaunchFails ==
  /\ starter = "launch"
  /\ ~(next \in up /\ resolved = era)
  /\ starter' = "abort"
  /\ UNCHANGED <<session, next, resolved>>

(* sim_recorders_running *)
AllRunning == exists /\ lines # {} /\ \A r \in lines : Live(r)

(* confirm_sim_recorders_started: every recorder lives through the window. *)
StartConfirm ==
  /\ starter = "confirm"
  /\ starter' = IF AllRunning THEN "idle" ELSE "abort"
  /\ UNCHANGED <<session, next, resolved>>

(* abort_sim_recording_start.  Without its manifest the shell just ends. *)
AbortSignal ==
  /\ starter = "abort"
  /\ IF exists THEN Signal /\ starter' = "abortWait"
               ELSE UNCHANGED recorder /\ starter' = "idle"
  /\ UNCHANGED <<session, next, resolved, up, era, crashes>>

NoneRuns == exists /\ \A r \in lines : ~Live(r)

AbortRemove ==
  /\ starter = "abortWait"
  /\ NoneRuns
  /\ exists' = FALSE
  /\ lines' = {}
  /\ starter' = "idle"
  /\ UNCHANGED <<session, next, resolved>>

(* Ten seconds pass: the manifest stays for `record stop`. *)
AbortTimeOut ==
  /\ starter = "abortWait"
  /\ ~NoneRuns
  /\ starter' = "idle"
  /\ UNCHANGED <<session, next, resolved>>

StarterStep ==
  \/ StartResolve /\ UNCHANGED <<fileVars, dockerVars>>
  \/ StartClaim /\ UNCHANGED dockerVars
  \/ StartLaunch /\ UNCHANGED fileVars
  \/ StartLaunchFails /\ UNCHANGED <<fileVars, dockerVars>>
  \/ StartConfirm /\ UNCHANGED <<fileVars, dockerVars>>
  \/ AbortSignal /\ UNCHANGED fileVars
  \/ AbortRemove /\ UNCHANGED dockerVars
  \/ AbortTimeOut /\ UNCHANGED <<fileVars, dockerVars>>

-----------------------------------------------------------------------------
(***************************************************************************)
(* record stop                                                             *)
(***************************************************************************)

StopSignal ==
  /\ stopper = "idle"
  /\ exists /\ lines # {}
  /\ Signal
  /\ stopper' = "wait"
  /\ checked' = {}
  /\ UNCHANGED <<fileVars, up, era, crashes>>

(* sim_recorders_stopped asks container after container. *)
StopCheck ==
  /\ stopper = "wait"
  /\ \E r \in lines \ checked :
       /\ ~Live(r)
       /\ checked' = checked \cup {r}
  /\ UNCHANGED <<fileVars, dockerVars, stopper>>

(* One still runs: another round. *)
StopAgain ==
  /\ stopper = "wait"
  /\ \E r \in lines \ checked : Live(r)
  /\ checked' = {}
  /\ UNCHANGED <<fileVars, dockerVars, stopper>>

StopStopped ==
  /\ stopper = "wait"
  /\ exists /\ lines \subseteq checked
  /\ stopper' = "finish"
  /\ UNCHANGED <<fileVars, dockerVars, checked>>

(* Mutant of StopTimeOut: the manifest is removed all the same. *)
StopTimeOutCleared ==
  /\ stopper = "wait"
  /\ ~exists \/ \E r \in lines \ checked : Live(r)
  /\ exists' = FALSE
  /\ lines' = {}
  /\ stopper' = "idle"
  /\ UNCHANGED <<dockerVars, checked>>

(* Ten seconds pass with a recorder that still runs, or the manifest gone. *)
StopTimeOut ==
  /\ stopper = "wait"
  /\ ~exists \/ \E r \in lines \ checked : Live(r)
  /\ stopper' = "idle"
  /\ UNCHANGED <<fileVars, dockerVars, checked>>

(* A bag without metadata: the manifest stays. *)
StopIncomplete ==
  /\ stopper = "finish"
  /\ ~exists \/ \E r \in lines : recorder[r] # "kept"
  /\ stopper' = "idle"
  /\ UNCHANGED <<fileVars, dockerVars, checked>>

(* Mutant of StopDone: a recorder that is over has a bag. *)
StopDoneUnread ==
  /\ stopper = "finish"
  /\ exists /\ \A r \in lines : ~Live(r)
  /\ exists' = FALSE
  /\ lines' = {}
  /\ stopper' = "idle"
  /\ UNCHANGED <<dockerVars, checked>>

(* "recording stopped; all MCAPs" *)
StopDone ==
  /\ stopper = "finish"
  /\ exists /\ \A r \in lines : recorder[r] = "kept"
  /\ exists' = FALSE
  /\ lines' = {}
  /\ stopper' = "idle"
  /\ UNCHANGED <<dockerVars, checked>>

StopperStep ==
  \/ StopCheck
  \/ StopAgain
  \/ StopStopped
  \/ StopTimeOut
  \/ StopIncomplete
  \/ StopDone

-----------------------------------------------------------------------------
(***************************************************************************)
(* px4sim stop and px4sim start                                            *)
(***************************************************************************)

StackStop ==
  /\ stack = "up"
  /\ era < Restarts
  /\ stack' = "stopping"
  /\ UNCHANGED <<fileVars, dockerVars>>

(* docker compose down, container by container. *)
StackDown(m) ==
  /\ stack = "stopping"
  /\ m \in up
  /\ up' = up \ {m}
  /\ recorder' = Killed(m)
  /\ UNCHANGED <<fileVars, era, crashes, stack>>

(* No container runs: a session that is left is let go. *)
StackClear ==
  /\ stack = "stopping"
  /\ up = {}
  /\ exists' = FALSE
  /\ lines' = {}
  /\ stack' = "down"
  /\ UNCHANGED dockerVars

(* docker compose up: a container that ended is started again, and one     *)
(* that was removed is made anew.                                          *)
StackStart ==
  /\ stack \in {"up", "down"}
  /\ up # Members
  /\ up' = Members
  /\ era' = IF stack = "down" THEN era + 1 ELSE era
  /\ stack' = "up"
  /\ UNCHANGED <<fileVars, recorder, crashes>>

StackStep ==
  \/ StackStop
  \/ \E m \in Members : StackDown(m)
  \/ StackClear
  \/ StackStart

-----------------------------------------------------------------------------
Next ==
  \/ Docker /\ UNCHANGED <<fileVars, starterVars, stopperVars, stack>>
  \/ StartCheck /\ UNCHANGED <<fileVars, dockerVars, stopperVars, stack>>
  \/ StarterStep /\ UNCHANGED <<stopperVars, stack>>
  \/ StopSignal /\ UNCHANGED <<starterVars, stack>>
  \/ StopperStep /\ UNCHANGED <<starterVars, stack>>
  \/ StackStep /\ UNCHANGED <<starterVars, stopperVars>>

(* A shell that runs goes on, and the rounds of a stop are numbered (SF).  *)
(* A recorder that is told to finalize does so or dies, and an operator    *)
(* who wants a recording stopped asks again.                               *)
(* Nothing makes anybody start a recording, or stop or start the stack.    *)
Fairness ==
  /\ WF_vars(Becomes /\ UNCHANGED <<fileVars, starterVars, stopperVars, stack>>)
  /\ WF_vars(Finalizes /\ UNCHANGED <<fileVars, starterVars, stopperVars, stack>>)
  /\ WF_vars(StarterStep /\ UNCHANGED <<stopperVars, stack>>)
  /\ WF_vars(StopSignal /\ UNCHANGED <<starterVars, stack>>)
  /\ WF_vars(StopperStep /\ UNCHANGED <<starterVars, stack>>)
  /\ SF_vars(StopTimeOut /\ UNCHANGED <<starterVars, stack>>)

Spec == Init /\ [][Next]_vars

FairSpec == Spec /\ Fairness

-----------------------------------------------------------------------------
(***************************************************************************)
(* Properties                                                              *)
(***************************************************************************)

TypeOK ==
  /\ exists \in BOOLEAN
  /\ lines \subseteq Recorders
  /\ recorder \in [Recorders -> Alive \cup {"none", "gone", "kept"}]
  /\ up \subseteq Members
  /\ era \in 0 .. Restarts
  /\ crashes \in 0 .. Crashes
  /\ starter \in {"idle", "resolve", "claim", "launch", "confirm",
                  "abort", "abortWait"}
  /\ session \in 0 .. Sessions
  /\ next \in Members
  /\ resolved \in 0 .. Restarts
  /\ stopper \in {"idle", "wait", "finish"}
  /\ checked \subseteq Recorders
  /\ stack \in {"up", "stopping", "down"}

(* "This same manifest lets the cleanup path stop every recorder that did  *)
(* start": no recorder lives that the manifest does not list.              *)
Owned == LiveRecorders \subseteq lines

(* "A partial fleet is not a useful flight record": when `record stop`     *)
(* says the recording stopped, every vehicle and the ground station have   *)
(* a finished bag of that session.                                         *)
StopIsComplete ==
  [][stopper = "finish" /\ exists /\ ~exists' /\ stack = stack' /\ starter = starter'
       => \E s \in 1 .. Sessions : \A m \in Members : recorder[<<s, m>>] = "kept"]_vars

(* Someone who keeps asking gets every recorder to end, through signals    *)
(* that a starting shell loses and stops that time out.                    *)
RecordersEnd == \A r \in Recorders : Live(r) ~> ~Live(r)

(* What recording promises, step by step. *)
Promise == INSTANCE RecordingSession
             WITH owned <- IF exists THEN session ELSE 0, live <- LiveRecorders
KeepsPromise == Promise!Spec

(* "Keep it until `record stop` reconciles the bags": the manifest of a    *)
(* recording whose recorders are all over is reconciled by `record stop`.  *)
StopReconciles == (exists /\ lines # {}) ~> ~exists

=============================================================================
