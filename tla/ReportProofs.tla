---------------------------- MODULE ReportProofs ----------------------------
(***************************************************************************)
(* Safety of what an operator is told: of the telemetry links his reports  *)
(* come from (Telemetry), for any set of vehicles, any times and any       *)
(* number of losses and failed polls, and of his commands (Console), for   *)
(* any number of commands, edits of .env and faults of the reader.         *)
(***************************************************************************)
EXTENDS Console, Telemetry, FiniteSetTheorems, TLAPS

-----------------------------------------------------------------------------
(***************************************************************************)
(* Console                                                                 *)
(***************************************************************************)
(* Where the loop stands between a command's key and its being held.       *)
(* Whether one runs was asked before "clear"; nothing starts one until     *)
(* "spawn", and self.process names it only after "collect".                *)
StartInv ==
  /\ ui \in {"confirm", "cancelling", "clear"} => generation < Commands
  /\ ui \in {"spawn", "collect"} => held # generation
  /\ ui \in {"clear", "spawn"} => running = {}
  /\ running \subseteq {IF ui = "collect" THEN generation ELSE held}

(* The collector of the command held lives until it has kept the status.   *)
CollectorInv ==
  held # 0 /\ held = generation => held \in collecting \/ status = held

(* If the pipe was drained when the pane was cleared, there is no other    *)
(* collector that writes to it before the new command is held, or after.   *)
OutputInv ==
  /\ OutputIsOwn
  /\ ui \in {"spawn", "collect"} /\ drained =>
       held \notin collecting /\ pane = {} /\ status = NoStatus

IInv == TypeOK /\ StartInv /\ CollectorInv /\ OutputInv

-----------------------------------------------------------------------------
(* The feed's flags apart from its numbers and places.                     *)
FeedFlags == stale \in BOOLEAN /\ restarting \in BOOLEAN /\ guarded \in BOOLEAN
FeedPlaces ==
  /\ settings \in 0 .. Edits
  /\ thread \in {"top", "opening", "reading", "ended", "retry"}
  /\ reader \in {"starting", "live", "hung", "dead"}
  /\ facts \in 0 .. Edits
  /\ report \in (0 .. Edits) \cup {NoReport}
  /\ faults \in 0 .. Faults

LEMMA FlagsTyped == FeedFlags /\ [Next]_vars => FeedFlags'
<1> SUFFICES ASSUME FeedFlags, [Next]_vars PROVE FeedFlags'
  OBVIOUS
<1> USE DEF FeedFlags, feedVars
<1>1. CASE MainLoop
  BY <1>1, Zenon DEF MainLoop, LookChanged, LookDone, LookSame, WatchBites, WatchQuiet,
     Stop, NoKey, Cancelled, NotCancelled, StartClear, StartSpawn, StartFails,
     StartCollect, AskRestart
<1>2. CASE Operator
  BY <1>2, Zenon DEF Operator, Opens, Leaves, StartKey, Confirms
<1>3. CASE ThreadStep
  BY <1>3, Zenon DEF ThreadStep, Open, OpenFails, Hold, PipeEnds, Again, Retry, Take
<1>4. CASE Surroundings
  BY <1>4, Zenon DEF Surroundings, ReadSettings, Fault, Edit, Ages, GuardEnds
<1>5. CASE (CommandStep /\ UNCHANGED <<feedVars, consoleVars>>) \/ UNCHANGED vars
  BY <1>5, Zenon DEF vars
<1> QED
  BY <1>1, <1>2, <1>3, <1>4, <1>5, Zenon DEF Next

LEMMA PlacesTyped == FeedPlaces /\ [Next]_vars => FeedPlaces'
<1> SUFFICES ASSUME FeedPlaces, [Next]_vars PROVE FeedPlaces'
  OBVIOUS
<1> USE BoundsAssumption DEF FeedPlaces, feedVars, readerVars, NoReport
<1>1. CASE LookChanged \/ LookDone \/ WatchBites
  BY <1>1 DEF LookChanged, LookDone, WatchBites
<1>2. CASE Stop
  BY <1>2 DEF Stop, StopReader
<1>3. CASE LookSame \/ WatchQuiet \/ NoKey \/ Cancelled \/ NotCancelled
             \/ StartClear \/ StartSpawn \/ StartFails \/ StartCollect \/ Operator
  BY <1>3 DEF LookSame, WatchQuiet, NoKey, Cancelled, NotCancelled, StartClear,
              StartSpawn, StartFails, StartCollect, Operator, Opens, Leaves, StartKey, Confirms
<1>4. CASE ThreadStep
  BY <1>4 DEF ThreadStep, Open, OpenFails, Hold, PipeEnds, Again, Retry, Take
<1>5. CASE Surroundings
  BY <1>5 DEF Surroundings, ReadSettings, Fault, Edit, Ages, GuardEnds
<1>6. CASE (CommandStep /\ UNCHANGED <<feedVars, consoleVars>>) \/ UNCHANGED vars
  BY <1>6 DEF vars
<1> QED
  BY <1>1, <1>2, <1>3, <1>4, <1>5, <1>6 DEF Next, MainLoop

LEMMA FeedTyped == FeedTypeOK /\ [Next]_vars => FeedTypeOK'
<1>1. FeedTypeOK <=> FeedFlags /\ FeedPlaces
  BY DEF FeedTypeOK, FeedFlags, FeedPlaces
<1>2. FeedTypeOK' <=> FeedFlags' /\ FeedPlaces'
  BY DEF FeedTypeOK, FeedFlags, FeedPlaces
<1> QED
  BY <1>1, <1>2, FlagsTyped, PlacesTyped

LEMMA LoopFlags ==
  ASSUME refresh \in BOOLEAN, wanted \in BOOLEAN, [Next]_vars
  PROVE  refresh' \in BOOLEAN /\ wanted' \in BOOLEAN
<1> USE DEF consoleVars
<1>1. CASE MainLoop
  BY <1>1, Zenon DEF MainLoop, LookChanged, LookDone, LookSame, WatchBites, WatchQuiet,
     Stop, NoKey, Cancelled, NotCancelled, StartClear, StartSpawn, StartFails,
     StartCollect
<1>2. CASE Operator
  BY <1>2, Zenon DEF Operator, Opens, Leaves, StartKey, Confirms
<1>3. CASE UNCHANGED consoleVars \/ UNCHANGED vars
  BY <1>3, Zenon DEF vars
<1> QED
  BY <1>1, <1>2, <1>3, Zenon DEF Next

LEMMA LoopPlaces ==
  ASSUME TypeOK, [Next]_vars
  PROVE  /\ ui' \in {"look", "stopLooked", "watch", "stopStalled", "key", "dialog",
                     "confirm", "cancelling", "clear", "spawn", "collect"}
         /\ seen' \in 0 .. settings'
         /\ rows' \in (0 .. Edits) \cup {NoReport}
<1> USE BoundsAssumption
    DEF TypeOK, FeedTypeOK, feedVars, consoleVars, readerVars
<1>1. CASE LookChanged \/ LookDone \/ WatchBites \/ Stop
  BY <1>1 DEF LookChanged, LookDone, WatchBites, ShowsReport, Stop
<1>2. CASE LookSame \/ WatchQuiet \/ NoKey \/ Cancelled \/ NotCancelled
             \/ StartClear \/ StartSpawn \/ StartFails \/ StartCollect \/ Operator
  BY <1>2 DEF LookSame, WatchQuiet, ShowsReport, NoKey, Cancelled, NotCancelled, StartClear,
              StartSpawn, StartFails, StartCollect, Operator, Opens, Leaves, StartKey, Confirms
<1>3. CASE ThreadStep /\ UNCHANGED <<runnerVars, consoleVars>>
  BY <1>3 DEF ThreadStep, Open, OpenFails, Hold, PipeEnds, Again, Retry, Take
<1>4. CASE Surroundings /\ UNCHANGED <<runnerVars, consoleVars>>
  BY <1>4 DEF Surroundings, ReadSettings, Fault, Edit, Ages, GuardEnds
<1>5. CASE (CommandStep /\ UNCHANGED <<feedVars, consoleVars>>) \/ UNCHANGED vars
  BY <1>5 DEF vars
<1> QED
  BY <1>1, <1>2, <1>3, <1>4, <1>5 DEF Next, MainLoop

-----------------------------------------------------------------------------
(* The steps that touch no command, and where they leave the loop.         *)
RunnerIdle ==
  /\ UNCHANGED runnerVars
  /\ \/ UNCHANGED ui
     \/ ui' \notin {"confirm", "cancelling", "clear", "spawn", "collect"}
          /\ ui \notin {"clear", "spawn", "collect"}
     \/ ui' = "confirm" /\ generation < Commands /\ ui \in {"key", "dialog"}
     \/ ui' = "cancelling" /\ ui = "confirm"
     \/ ui' = "clear" /\ ui \in {"key", "dialog", "cancelling"} /\ ~Busy
          /\ (ui # "cancelling" => generation < Commands)

LEMMA OtherSteps ==
  ASSUME [Next]_vars
  PROVE  \/ RunnerIdle
         \/ StartClear \/ StartSpawn \/ StartFails \/ StartCollect
         \/ CommandStep /\ UNCHANGED consoleVars
<1> USE DEF RunnerIdle, consoleVars
<1>1. CASE LookChanged \/ LookDone \/ LookSame \/ WatchBites \/ WatchQuiet
             \/ Stop \/ NoKey
  BY <1>1 DEF LookChanged, LookDone, LookSame, WatchBites, WatchQuiet, Stop, NoKey
<1>2. CASE Cancelled \/ NotCancelled \/ Operator
  BY <1>2 DEF Cancelled, NotCancelled, Operator, Opens, Leaves, StartKey, Confirms
<1>3. CASE UNCHANGED vars
  BY <1>3 DEF vars
<1> QED
  BY <1>1, <1>2, <1>3 DEF Next, MainLoop

LEMMA CommandsKeep ==
  ASSUME IInv, [Next]_vars
  PROVE  RunnerTypeOK' /\ StartInv' /\ CollectorInv' /\ OutputInv'
<1> USE CommandsAssumption
    DEF IInv, TypeOK, RunnerTypeOK, StartInv, CollectorInv, OutputInv, OutputIsOwn, Shown,
        NoStatus, NotRun
<1>1. CASE RunnerIdle
  BY <1>1 DEF RunnerIdle, runnerVars, Busy
<1>2. CASE StartClear
  <2>1. drained' <=> held \notin collecting
    BY <1>2, Zenon DEF StartClear, Clear
  <2>2. drained' \in BOOLEAN
    BY <1>2, Zenon DEF StartClear, Clear
  <2>3. /\ ui = "clear" /\ ui' = "spawn" /\ running = {} /\ running' = {} /\ pane' = {} /\ status' = NoStatus
        /\ generation' = generation + 1 /\ held' = held /\ collecting' = collecting
    BY <1>2 DEF StartClear, Clear
  <2> QED
    BY <2>1, <2>2, <2>3
<1>3. CASE StartSpawn
  BY <1>3 DEF StartSpawn, Spawn
<1>4. CASE StartFails
  BY <1>4 DEF StartFails, SpawnFails
<1>5. CASE StartCollect
  BY <1>5 DEF StartCollect, Collect
<1>6. CASE CommandStep /\ UNCHANGED consoleVars
  <2> PICK c \in 1 .. Commands :
        CollectLine(c) \/ CollectStale(c) \/ CollectEnd(c) \/ Exit(c)
    BY <1>6 DEF CommandStep
  <2> USE <1>6 DEF consoleVars
  <2>1. CASE CollectLine(c)
    BY <2>1 DEF CollectLine
  <2>2. CASE CollectStale(c)
    BY <2>2 DEF CollectStale
  <2>3. CASE CollectEnd(c)
    BY <2>3 DEF CollectEnd
  <2>4. CASE Exit(c)
    BY <2>4 DEF Exit
  <2> QED
    BY <2>1, <2>2, <2>3, <2>4
<1> QED
  BY <1>1, <1>2, <1>3, <1>4, <1>5, <1>6, OtherSteps

LEMMA InvHolds == Spec => []IInv
<1>1. Init => IInv
  <2> SUFFICES ASSUME Init PROVE IInv
    OBVIOUS
  <2>1. FeedFlags
    BY Zenon DEF Init, FeedInit, FeedFlags
  <2>2. FeedPlaces
    BY BoundsAssumption DEF Init, FeedInit, FeedPlaces, NoReport
  <2>3. RunnerTypeOK /\ StartInv /\ CollectorInv /\ OutputInv
    BY CommandsAssumption
    DEF Init, RunnerInit, RunnerTypeOK, StartInv, CollectorInv, OutputInv, OutputIsOwn, Shown,
        NoStatus, NotRun
  <2>4. seen \in 0 .. settings /\ rows \in (0 .. Edits) \cup {NoReport}
    BY DEF Init, FeedInit
  <2>5. refresh \in BOOLEAN /\ wanted \in BOOLEAN
    BY Zenon DEF Init
  <2>6. FeedTypeOK
    BY <2>1, <2>2 DEF FeedTypeOK, FeedFlags, FeedPlaces
  <2> QED
    BY <2>3, <2>4, <2>5, <2>6 DEF Init, IInv, TypeOK
<1>2. IInv /\ [Next]_vars => IInv'
  <2> SUFFICES ASSUME IInv, [Next]_vars PROVE IInv'
    OBVIOUS
  <2>1. FeedTypeOK'
    BY FeedTyped DEF IInv, TypeOK
  <2> QED
    BY <2>1, LoopFlags, LoopPlaces, CommandsKeep DEF IInv, TypeOK
<1> QED
  BY <1>1, <1>2, PTL DEF Spec

(* Every state reached has its type, for any number of commands, edits and *)
(* faults.                                                                 *)
THEOREM TypeCorrect == Spec => []TypeOK
BY InvHolds, PTL DEF IInv

(* tui.py, "One px4sim command at a time": no two commands of the console  *)
(* run at once, though the process of one is started two steps before it   *)
(* is held; the exit status shown beside the command held, once it was     *)
(* collected, is its own; and so are its lines from the start, if the pipe *)
(* of the one before was drained when the pane was cleared.                *)
THEOREM CommandsTrue == Spec => []CommandTrue
<1>1. IInv => CommandTrue
  <2> SUFFICES ASSUME IInv PROVE OneCommand /\ StatusIsOwn /\ OutputIsOwn
    BY DEF CommandTrue
  <2>1. OneCommand
    <3>1. running \subseteq {IF ui = "collect" THEN generation ELSE held}
      BY DEF IInv, StartInv
    <3> DEFINE one == {IF ui = "collect" THEN generation ELSE held}
    <3>2. IsFiniteSet(one) /\ Cardinality(one) = 1
      BY FS_Singleton, Zenon
    <3> HIDE DEF one
    <3>3. Cardinality(running) <= Cardinality(one)
      BY <3>1, <3>2, FS_Subset DEF one
    <3> QED
      BY <3>2, <3>3 DEF OneCommand
  <2>2. StatusIsOwn
    BY DEF IInv, CollectorInv, StatusIsOwn, Shown
  <2>3. OutputIsOwn
    BY DEF IInv, OutputInv
  <2> QED
    BY <2>1, <2>2, <2>3
<1> QED
  BY <1>1, InvHolds, PTL

-----------------------------------------------------------------------------
(***************************************************************************)
(* Telemetry                                                               *)
(***************************************************************************)
(* Truthful is inductive once types are known: the selector is right       *)
(* because an unavailable link is closed, and that holds because what is   *)
(* not available is cut before a report is made.                           *)
LinksIInv == LinksTypeOK /\ Truthful

-----------------------------------------------------------------------------
(***************************************************************************)
(* One link                                                                *)
(***************************************************************************)
LEMMA LinkTypes ==
  ASSUME NEW l \in Links
  PROVE  /\ Closed(l) \in Links /\ Forgotten(l) \in Links /\ Older(l) \in Links
         /\ [l EXCEPT !.lost = TRUE] \in Links
         /\ [l EXCEPT !.socket = "connected"] \in Links
         /\ [l EXCEPT !.heard = 0, !.fields = TRUE] \in Links
<1> USE DEF Links
<1>a. /\ LinkRetry \in 0 .. LinkRetry /\ 0 \in 0 .. LinkRetry /\ 0 \in 0 .. Never
      /\ \A i \in 0 .. LinkRetry : i > 0 => i - 1 \in 0 .. LinkRetry
      /\ \A i \in 0 .. Connect + 1 : i <= Connect => i + 1 \in 0 .. Connect + 1
      /\ \A i \in 0 .. Never : i <= Silent => i + 1 \in 0 .. Never
  BY TimesAssumption DEF Never
<1> USE <1>a
<1>1. Closed(l) \in Links
  BY DEF Closed
<1>2. Forgotten(l) \in Links
  BY DEF Forgotten, Closed
<1>3. Older(l) \in Links
  BY DEF Older
<1>4. [l EXCEPT !.lost = TRUE] \in Links
  OBVIOUS
<1>5. [l EXCEPT !.socket = "connected"] \in Links
  OBVIOUS
<1>6. [l EXCEPT !.heard = 0, !.fields = TRUE] \in Links
  OBVIOUS
<1> QED
  BY <1>1, <1>2, <1>3, <1>4, <1>5, <1>6

LEMMA DialledType ==
  ASSUME NEW l \in Links, NEW answer \in {"refused", "syn", "up"}
  PROVE  Dialled(l, answer) \in Links
<1> USE DEF Links, Dialled
<1>a. LinkRetry \in 0 .. LinkRetry /\ 0 \in 0 .. Connect + 1
  BY TimesAssumption
<1> USE <1>a
<1>1. CASE answer = "refused"
  BY <1>1
<1>2. CASE answer = "syn"
  BY <1>2
<1>3. CASE answer = "up"
  BY <1>3
<1> QED
  BY <1>1, <1>2, <1>3

LEMMA ReadyType ==
  ASSUME LinksTypeOK, NEW v \in Vehicles
  PROVE  Ready(v) \in Links
<1>1. link[v] \in Links
  BY DEF LinksTypeOK
<1> QED
  BY <1>1, LinkTypes DEF Ready

(* Whether a link is open, and what it knows, after what may happen to it. *)
LEMMA LinkSockets ==
  ASSUME NEW l \in Links
  PROVE  /\ ~IsOpen(Closed(l)) /\ ~Closed(l).fields
         /\ ~IsOpen(Forgotten(l)) /\ ~Forgotten(l).fields
         /\ Older(l).socket = l.socket /\ Older(l).fields = l.fields
BY DEF Links, Closed, Forgotten, Older, IsOpen

LEMMA DialledSockets ==
  ASSUME NEW l \in Links, NEW answer \in {"refused", "syn", "up"}, ~IsOpen(l)
  PROVE  Dialled(l, answer).fields = l.fields
BY DEF Links, Dialled, IsOpen

LEMMA ReadySockets ==
  ASSUME LinksTypeOK, NEW v \in Vehicles, IsOpen(link[v]),
         link[v].fields => link[v].socket = "connected"
  PROVE  /\ IsOpen(Ready(v))
         /\ Ready(v).fields => Ready(v).socket = "connected"
<1>1. link[v] \in Links
  BY DEF LinksTypeOK
<1> QED
  BY <1>1 DEF Ready, Links, IsOpen

LEMMA WantedType ==
  ASSUME NEW l \in Links
  PROVE  /\ Wanted(l) \in {"none", "read", "write"}
         /\ Wanted(l) = "none" <=> ~IsOpen(l)
BY DEF Links, Wanted, IsOpen

-----------------------------------------------------------------------------
LEMMA InitHolds == LinksInit => LinksIInv
<1> SUFFICES ASSUME LinksInit PROVE LinksIInv
  OBVIOUS
<1>1. NoLink \in Links
  BY TimesAssumption DEF NoLink, Links, Never
<1>2. LinksTypeOK
  BY <1>1, ChangesAssumption DEF LinksInit, LinksTypeOK
<1>3. \A v \in Vehicles : link[v] = NoLink /\ ~IsOpen(link[v]) /\ ~link[v].fields
  BY DEF LinksInit, NoLink, IsOpen
<1>4. Truthful
  BY <1>3 DEF LinksInit, Truthful, Watched, NothingStale, OnlyAvailable
<1> QED
  BY <1>2, <1>4 DEF LinksIInv

LEMMA RefreshKeeps == LinksIInv /\ Refresh => LinksIInv'
<1> SUFFICES ASSUME LinksIInv, Refresh PROVE LinksIInv'
  OBVIOUS
<1> PICK answer \in [Vehicles -> {"none", "syn", "up", "refused"}] :
      LET kept(v) == IF IsLost(link[v]) THEN Forgotten(link[v]) ELSE link[v]
          dials == {v \in available : Dials(kept(v))}
          after(v) == IF v \notin available THEN link[v]
                      ELSE IF v \in dials THEN Dialled(kept(v), answer[v])
                      ELSE kept(v)
      IN /\ \A v \in Vehicles :
              IF v \in dials THEN answer[v] \in Answers(v) ELSE answer[v] = "none"
         /\ link' = [v \in Vehicles |-> after(v)]
         /\ registered' = [v \in Vehicles |->
              IF v \in available THEN Wanted(after(v)) ELSE registered[v]]
         /\ wire' = [v \in Vehicles |->
              IF v \in dials
              THEN IF answer[v] = "refused" THEN "none" ELSE answer[v]
              ELSE IF IsOpen(after(v)) THEN wire[v] ELSE "none"]
         /\ inbox' = [v \in Vehicles |->
              IF IsOpen(after(v)) THEN inbox[v] ELSE "none"]
  BY DEF Refresh
<1> DEFINE kept(v) == IF IsLost(link[v]) THEN Forgotten(link[v]) ELSE link[v]
           dials == {v \in available : Dials(kept(v))}
           after(v) == IF v \notin available THEN link[v]
                       ELSE IF v \in dials THEN Dialled(kept(v), answer[v])
                       ELSE kept(v)
<1>1. ASSUME NEW v \in Vehicles
      PROVE  /\ kept(v) \in Links
             /\ kept(v).fields => kept(v).socket = "connected"
  BY LinkTypes, LinkSockets DEF LinksIInv, LinksTypeOK, Truthful, NothingStale
<1>2. ASSUME NEW v \in dials PROVE v \in Vehicles /\ ~IsOpen(kept(v))
                                   /\ answer[v] \in {"refused", "syn", "up"}
  BY DEF LinksIInv, LinksTypeOK, Dials, IsOpen, Answers
<1>3. ASSUME NEW v \in Vehicles
      PROVE  /\ after(v) \in Links
             /\ after(v).fields => after(v).socket = "connected"
             /\ v \notin available => after(v) = link[v]
  <2>1. CASE v \in dials
    <3>1. Dialled(kept(v), answer[v]) \in Links /\ ~kept(v).fields
      BY <1>1, <1>2, <2>1, DialledType DEF IsOpen
    <3>2. ~Dialled(kept(v), answer[v]).fields
      BY <1>1, <1>2, <2>1, <3>1, DialledSockets
    <3> QED
      BY <2>1, <3>1, <3>2
  <2>2. CASE v \notin dials
    <3>1. link[v] \in Links /\ (link[v].fields => link[v].socket = "connected")
      BY DEF LinksIInv, LinksTypeOK, Truthful, NothingStale
    <3> QED
      BY <2>2, <3>1, <1>1
  <2> QED
    BY <2>1, <2>2
<1> HIDE DEF after, kept, dials
<1>4. link' = [v \in Vehicles |-> after(v)]
  BY DEF after, kept, dials
<1>5. registered' = [v \in Vehicles |->
        IF v \in available THEN Wanted(after(v)) ELSE registered[v]]
  BY DEF after, kept, dials
<1>6. LinksTypeOK'
  <2>1. link' \in [Vehicles -> Links]
    BY <1>3, <1>4
  <2>2. registered' \in [Vehicles -> {"none", "read", "write"}]
    BY <1>3, <1>5, WantedType DEF LinksIInv, LinksTypeOK
  <2>3. /\ wire' \in [Vehicles -> {"none", "syn", "up", "refused", "closed"}]
        /\ inbox' \in [Vehicles -> {"none", "own", "other"}]
    BY <1>2 DEF LinksIInv, LinksTypeOK, after, kept, dials
  <2> QED
    BY <2>1, <2>2, <2>3 DEF Refresh, LinksIInv, LinksTypeOK, pollVars
<1>7. \A v \in Vehicles : registered'[v] = Wanted(link'[v])
  <2>1. SUFFICES ASSUME NEW v \in Vehicles, v \notin available
                 PROVE  registered[v] = Wanted(link[v])
    BY <1>3, <1>4, <1>5
  <2>2. ~IsOpen(link[v]) /\ registered[v] = "none" /\ link[v] \in Links
    BY <2>1 DEF LinksIInv, LinksTypeOK, Truthful, OnlyAvailable, Watched
  <2> QED
    BY <2>2, WantedType
<1>8. Truthful'
  <2>1. Watched'
    BY <1>3, <1>4, <1>7, WantedType DEF Watched
  <2>2. NothingStale'
    BY <1>3, <1>4 DEF NothingStale
  <2>3. OnlyAvailable'
    BY <1>3, <1>4 DEF OnlyAvailable, Refresh, LinksIInv, Truthful
  <2> QED
    BY <2>1, <2>2, <2>3 DEF Truthful
<1> QED
  BY <1>6, <1>8 DEF LinksIInv

LEMMA EventsKeep == LinksIInv /\ Events => LinksIInv'
<1> SUFFICES ASSUME LinksIInv, Events PROVE LinksIInv'
  OBVIOUS
<1>1. ASSUME NEW v \in Vehicles, v \in Named PROVE IsOpen(link[v])
  BY <1>1 DEF Named, LinksIInv, Truthful, Watched
<1>2. LinksTypeOK'
  BY ReadyType DEF Events, LinksIInv, LinksTypeOK, pollVars
<1>3. ASSUME NEW v \in Vehicles
      PROVE  /\ IsOpen(link'[v]) <=> IsOpen(link[v])
             /\ link'[v].fields => link'[v].socket = "connected"
  BY <1>1, ReadySockets DEF Events, LinksIInv, Truthful, NothingStale
<1>4. Truthful'
  BY <1>3 DEF Events, LinksIInv, Truthful, Watched, NothingStale, OnlyAvailable
<1> QED
  BY <1>2, <1>4 DEF LinksIInv

LEMMA ReportKeeps == LinksIInv /\ Report => LinksIInv'
<1> SUFFICES ASSUME LinksIInv, Report PROVE LinksIInv'
  OBVIOUS
<1>1. ASSUME NEW v \in Vehicles
      PROVE  /\ link'[v] = IF v \in Unowned(found) THEN Closed(link[v]) ELSE link[v]
             /\ registered'[v] = IF v \in Unowned(found) THEN "none" ELSE registered[v]
  BY DEF Report, Cut
<1>2. ASSUME NEW v \in Vehicles
      PROVE  /\ link[v] \in Links /\ Closed(link[v]) \in Links
             /\ ~IsOpen(Closed(link[v])) /\ ~Closed(link[v]).fields
  BY LinkTypes, LinkSockets DEF LinksIInv, LinksTypeOK
<1>3. LinksTypeOK'
  <2>1. link' \in [Vehicles -> Links]
    BY <1>2 DEF Report, Cut
  <2>2. registered' \in [Vehicles -> {"none", "read", "write"}]
    BY DEF Report, Cut, LinksIInv, LinksTypeOK
  <2>3. reported' \in [Vehicles -> {"none", "up", "silent", "down"}]
    BY DEF Report, Told
  <2>4. /\ wire' \in [Vehicles -> {"none", "syn", "up", "refused", "closed"}]
        /\ inbox' \in [Vehicles -> {"none", "own", "other"}]
    BY DEF Report, LinksIInv, LinksTypeOK
  <2> QED
    BY <2>1, <2>2, <2>3, <2>4 DEF Report, LinksIInv, LinksTypeOK, pollVars
<1>4. Watched' /\ NothingStale'
  BY <1>1, <1>2 DEF Report, LinksIInv, Truthful, Watched, NothingStale
<1>5. OnlyAvailable'
  BY <1>1, <1>2 DEF Report, Unowned, OnlyAvailable
<1> QED
  BY <1>3, <1>4, <1>5 DEF LinksIInv, Truthful

LEMMA TickKeeps == LinksIInv /\ Tick => LinksIInv'
<1> SUFFICES ASSUME LinksIInv, Tick PROVE LinksIInv'
  OBVIOUS
<1>1. ASSUME NEW v \in Vehicles
      PROVE  /\ link[v] \in Links /\ link'[v] = Older(link[v]) /\ link'[v] \in Links
             /\ link'[v].socket = link[v].socket /\ link'[v].fields = link[v].fields
  BY LinkTypes, LinkSockets DEF Tick, LinksIInv, LinksTypeOK
<1>2. LinksTypeOK'
  BY <1>1 DEF Tick, LinksIInv, LinksTypeOK, pollVars, netVars
<1>3. ASSUME NEW v \in Vehicles
      PROVE  Wanted(link'[v]) = Wanted(link[v]) /\ (IsOpen(link'[v]) <=> IsOpen(link[v]))
  BY <1>1 DEF Wanted, IsOpen
<1>4. Truthful'
  BY <1>1, <1>3 DEF Tick, LinksIInv, Truthful, Watched, NothingStale, OnlyAvailable
<1> QED
  BY <1>2, <1>4 DEF LinksIInv

(* Everything else leaves the links and the selector alone, and enters no  *)
(* wait.                                                                   *)
LEMMA ElseKeeps ==
  ASSUME LinksIInv,
         SelectEnds \/ GoOn \/ Deadline \/ Poll \/ PollFails \/ Network
           \/ UNCHANGED linksVars
  PROVE  LinksIInv'
<1>1. UNCHANGED <<link, registered, available, reported>>
  BY DEF SelectEnds, GoOn, Deadline, Poll, PollFails, Network, Accept, Refuse,
         Send, Drop, RouterEnds, RouterStarts, netOnly, linksVars
<1>2. phase' = "select" => phase = "select"
  BY DEF SelectEnds, GoOn, Deadline, Poll, PollFails, Network, Accept, Refuse,
         Send, Drop, RouterEnds, RouterStarts, netOnly, linksVars
<1>3. Truthful'
  BY <1>1, <1>2 DEF LinksIInv, Truthful, Watched, NothingStale, OnlyAvailable
<1>4. LinksTypeOK'
  <2> USE <1>1 DEF LinksIInv, LinksTypeOK
  <2>1. CASE SelectEnds \/ GoOn \/ Deadline \/ UNCHANGED linksVars
    BY <2>1 DEF SelectEnds, GoOn, Deadline, pollVars, netVars, linksVars
  <2>2. CASE Poll \/ PollFails
    BY <2>2, ChangesAssumption DEF Poll, PollFails, netVars
  <2>3. CASE Network
    <3> PICK v \in Vehicles :
          \/ Accept(v) \/ Refuse(v)
          \/ \E kind \in {"own", "other"} : Send(v, kind)
          \/ Drop(v) \/ RouterEnds(v) \/ RouterStarts(v)
      BY <2>3 DEF Network
    <3> USE ChangesAssumption DEF netOnly, pollVars
    <3>1. CASE Accept(v) \/ Refuse(v) \/ Drop(v)
      BY <3>1 DEF Accept, Refuse, Drop
    <3>2. CASE \E kind \in {"own", "other"} : Send(v, kind)
      BY <3>2 DEF Send
    <3>3. CASE RouterEnds(v) \/ RouterStarts(v)
      BY <3>3 DEF RouterEnds, RouterStarts
    <3> QED
      BY <3>1, <3>2, <3>3
  <2> QED
    BY <2>1, <2>2, <2>3
<1> QED
  BY <1>3, <1>4 DEF LinksIInv

LEMMA LinksInvHolds == LinksSpec => []LinksIInv
<1>1. LinksIInv /\ [LinksNext]_linksVars => LinksIInv'
  BY RefreshKeeps, EventsKeep, ReportKeeps, TickKeeps, ElseKeeps DEF LinksNext, LoopStep
<1> QED
  BY <1>1, InitHolds, PTL DEF LinksSpec

(* Every state reached has its type, for any vehicles and times.           *)
THEOREM LinksTypeCorrect == LinksSpec => []LinksTypeOK
BY LinksInvHolds, PTL DEF LinksIInv

(* scripts/state.py, class Links: for any number of vehicles, whatever is  *)
(* lost, refused or polled wrongly, the selector watches exactly the open  *)
(* sockets whenever the pump waits, a link knows only what came over the   *)
(* connection that stands, and is open only to a router that ran.          *)
THEOREM LinksTruthful == LinksSpec => []Truthful
BY LinksInvHolds, PTL DEF LinksIInv

=============================================================================
