# Formal models of px4-sim-stack

px4-sim-stack flies a fleet of simulated PX4 vehicles in Gazebo, with the
companion computers, the ground station and the video they have in the field,
all in containers, behind one shell script (`px4sim`) and one console
(`scripts/tui.py`). The models here are TLA+ translations of the parts of it
whose correctness depends on the order of things: threads, callbacks,
processes, files shared by shells, and a motor with a memory. Each model is
checked by TLC on small instances; every safety invariant is also proved, with
TLAPS, for every value of the constants (for those that section 4 names, where
one of them needs it).

Paths below are relative to the repository. Every definition that models code
is listed with its lines in `PROJECT.json` under `map`; what is *external*
there (docker, the video router, a killed driver) is modelled from how the code
uses it.

## 1. Inventory

| component | state it keeps | operations | what is hard | what makes it correct |
|---|---|---|---|---|
| **video streamer** `modules/sim/gz_video_streamer/main.cc` | framings, the camera in use and the one being switched to, topics to drop, the crop, the GStreamer pipeline and its back-off | zoom callback, frame callback, the main loop's tick (bind, service the bus, service the sources) | three threads around one mutex that is released for every call into Gazebo; a frame does not say which camera it is from; the router comes and goes | one picture: crop, camera and caps agree; no camera is forgotten; the stream recovers; it never runs dry across a switch |
| **console** `scripts/tui.py` | the newest report and its age, the reader process, the command, its lines and status, what `.env` looked like | report thread, reader, drain, watchdog, restart, start a command, collect its lines, main loop | five threads and two processes; `restart()` may meet the feed anywhere; a dialog stops the main loop, and the threads go on | one command at a time; its own lines and status; a change of `.env` shows; a hung reader is recovered |
| **lens controller emulator** `modules/sim/scf4_emulator.py` | counter, mechanism, lost motion, flag, mode, the move under way; the client, the value last written | the SCF4 commands, `advance`, one client at a time, zoom output with a throttle | a counter that wraps, a switch with hysteresis, coasting; commands in any order in the middle of a move; half-open sockets | one thing ends each move; moves land; a seek ends at the trip point; the picture follows; a dead driver loses the lens |
| **flight recording** `px4sim record` | a manifest of recorders, PID and mode files; detached recorders in containers | `record bags`, `record stop`, abort, the clearing in `stop` | several shells, detached processes, containers that die or are removed between any two lines | no recorder lives unlisted; a successful stop has every bag; recorders can always be stopped |
| **state reporter** `scripts/state.py`, `scripts/mavlink.py` | a link per vehicle (socket, buffer, fields, counters), polls of compose and of the video router | open, ready, report, refresh, set_available, UDP mode | non-blocking sockets in a selector, three threads, bytes in any pieces | what it reports is of the link that is open; frames do not depend on the pieces; it never waits |
| **front door, settings and fleet** `px4sim`, `scripts/fleet.sh` | `.env`: fleet, selection, world, scene | env_set, active, mode, fleet add and remove, setup, reload | whole-file rewrites by several processes; numbers that mean different vehicles in two worlds; commands of several writes | every word names one vehicle in both worlds; addresses never collide; settings stay a combination `start` accepts |
| **stack lifecycle** `px4sim`, `modules/*/entrypoint.sh`, `compose.yaml` | containers, processes in them, DDS shared memory | start, stop, restart, reload, `fly`, the entrypoints' waits | every wait is bounded and goes on when it fails; recreating one container silences another | what is ready has been waited for; a restart leaves nothing half connected |
| **keepalive** `modules/mavlink-router/keepalive.py` | a socket, whether the vehicle was seen | heartbeat, receive, reconnect | a dead connection shows only with the next call | a station PX4 lost is seen again |
| **gimbal rangefinder** `modules/sim/gimbal_rangefinder.py` | whether PX4 owns instance 0, limits, rate | drain, heartbeat, send a range | PX4 comes up long after it | PX4's own sensor is the first, and the gimbal's range arrives |
| **PX4 timer patch** `patches/px4-hrt-periodic-rearm.patch` | an intrusive list of timers | enter, cancel, invoke | a callback that re-arms its own entry | an entry is in the list at most once |
| **scene editor server** `modules/scenegen/editor_server.py` | `scene.json`, its backup | save, finish | threads that save at once, a crash between two file operations | a valid scene is never lost |
| **mission upload** `scripts/mission-upload.py` | mission and cursor in the vehicle | push, set current | answers later than the timeout | a reported success is a mission with its cursor at 0 |
| **verification harness** `verify/` | a running stack, marks in logs, what topics said last | flight and gimbal commands, tables, read-outs, mission scenarios | bounded waits on logs and topics others write | waits end; a late answer is not taken for another's; a verdict on the node is earned |
| **scene generator** `modules/scenegen/` | a directory per scene: `scene.json`, elevation, imagery, the world and its scenario | create, detect, import, edit, build, all | commands with no lock between them, a page that outlives its server, kills between two files; overlapping buildings | what was edited by hand stays; a scene is of one place; mesh, surface and what stands on them agree |
| **scenario spawner** `modules/sim/scenes/spawn_scenario.py` | names placed, poses resolved | spawn, clear, move-fiducial | calls that are refused, that fail after they were answered, or that time out and are carried out later | what stands can be cleared, and is what is scored |
| build, inspection and documentation tools | none | - | - | - |

How they interact: `px4sim` writes `.env` and drives docker; the console runs
`px4sim` both for its report stream (`px4sim state --watch`, which is
`state.py`) and for every command, and re-reads `.env` when it changes. In the
simulator container the entrypoint starts PX4, the rangefinder, the lens
emulator and the zoom publisher; a driver in the companion moves the lens over
TCP, the emulator writes fields of view to the publisher, and the streamer
follows them from camera to camera and pushes to the video router. Recordings
run in the companions' and the ground station's containers, and only a file of
the host knows of them.

## 2. Modules

| module | models | builds on |
|---|---|---|
| `VideoSwitch` | class `Stream` and the main loop of `main.cc` | |
| `MCVideoSwitch` | instance for TLC | `VideoSwitch` |
| `VideoSwitchProofs` | theorems | `VideoSwitch` |
| `Feed` | class `Feed` of `tui.py` and the reader it runs | |
| `Runner` | class `Runner` and its collectors | |
| `Console` | `Console.once`, `start_command`, `loop` | `Feed`, `Runner` |
| `Axis` | class `Axis` and the motion commands of `Controller` | |
| `Lens` | the server, the session and `ZoomOutput` around an axis | `Axis` |
| `MCLens` | instance for TLC | `Lens` |
| `LensProofs` | theorems | `Lens` |
| `RecordingSession` | abstract: what recording promises | |
| `Recording` | the recording commands and what they drive | `RecordingSession` (refines it) |
| `RecordingProofs` | theorems | `Recording` |
| `Fleet` | the numbering of `scripts/fleet.sh` and what is derived from it | |
| `FrontDoor` | the commands of `px4sim` that change `.env`, and the stack they start | `Fleet` |
| `FrontDoorProofs` | theorems, those about `Fleet` too | `FrontDoor` |
| `Telemetry` | `Link`, `Links`, `AsyncContainers` and the report loop of `state.py` | |
| `ReportProofs` | theorems | `Console`, `Telemetry` |
| `Reporter` | the video paths with their thread and rates, bridges and units of `state.py` | |
| `MavlinkFrames` | the frame splitter of `scripts/mavlink.py` | |
| `Keepalive`, `Rangefinder`, `MissionUpload` | `keepalive.py`, `gimbal_rangefinder.py`, `mission-upload.py` | |
| `MCSidecars` | these five, one at a time | `Reporter`, `MavlinkFrames`, `Keepalive`, `Rangefinder`, `MissionUpload` |
| `SidecarsProofs` | theorems about `Reporter`, `MavlinkFrames`, `Rangefinder`, `MissionUpload` | `MCSidecars` |
| `Flight` | the commands of `verify/component/uas.py` that fly, point and click | |
| `BoxRows` | its tables of boxes: `record`, `published` | |
| `Reads` | its read-outs: `topic`, `heading`, `fiducial`, `scene` | |
| `SurveyNode` | external: the vehicle and the survey node that `mission.py` flies | |
| `MissionCheck` | `verify/component/mission.py` | `SurveyNode` |
| `MCBench` | a command of the bench, or a scenario, one at a time | `Flight`, `BoxRows`, `Reads`, `MissionCheck` |
| `BenchProofs` | theorems | `MCBench` |
| `ScenePipeline` | the commands of `scenegen.py` over one scene's directory | |
| `SceneStore` | a save of `editor_server.py`, step by step | |
| `SceneBuild` | the geometry of `build_world.py`, over a strip of cells | |
| `Spawner` | `spawn_scenario.py` | |
| `MCScenes` | these four, one at a time | `ScenePipeline`, `SceneStore`, `SceneBuild`, `Spawner` |
| `ScenesProofs` | theorems about all four | `MCScenes` |

### VideoSwitch

State: `framings_` is `hfov` (0 = out of the running), `active_`, `pending_`,
`retiring_`, `zoom_fraction_` is the pair `crop` (asked, rendered), the crop set
on the pipeline is `applied`. The three threads are `zoom` (where `OnZoom` and
`Select` stand), the frame callback (one action: it holds the mutex from end to
end) and `main` (where the tick stands). The code releases the mutex between
deciding and subscribing, and between taking the topics to drop and dropping
them; these are steps of their own, and everything else may happen in between.
Time is two facts: `backoff` (two seconds have not passed) and the choice to
expire a pending switch in any tick. Angles are compared, never computed with:
a crop is the pair it is computed from, and the cover margin (0.1 %) is left
out. Not modelled: time stamps, encoders, command line, pixels.

### Feed, Runner, Console

`Feed` follows the report thread statement by statement where it matters:
`Popen` has started a reader before `self.process` holds it, and `restarting`
is set by one thread and cleared by another. A reader is starting, live, hung or
dead. Facts are numbered by the version of `.env` they were read from.
`Runner` follows `start` and `collect`: each command has a number, and lines and
exit statuses carry it. `start` clears the pane before the new process is the one
held, and the collector of the command before may still drain its pipe then
(`drained` remembers whether it did). `Console` is the main loop: look at `.env`,
watch, show the rows, act on a key. A menu, a question, the help and a command
that is given the terminal each wait in a loop of their own (`Asking`), in which
neither `.env` is looked at nor the watchdog called; the operator's answers are
actions of their own (`Operator`). Not modelled: drawing, leaving, a Ctrl-C in the
middle of a step, the log on disk.

### Axis, Lens

`Axis` holds `counter` (modulo `Counters`), `position` between hard stops,
`slack`, `flag` with hysteresis of `Half` to each side, the mode and the move
under way. `advance` integrates any number of steps at once; nobody sees the
axis in between, so one step is one action, and commands fall between any two.
`goal` is a history variable: where an absolute move was sent. `Lens` adds the
server: one client, a backlog, a half-open client, and `ZoomOutput.offer` with
its throttle. Speeds only say how many steps fall between two polls and are left
out.

### RecordingSession, Recording

`Recording` has three shells: one that starts recordings (`starter`), one that
stops them (`stopper`) and one that stops and starts the stack (`stack`). The
manifest is `exists` and `lines`. A recorder is none, launched (the shell that
will become it), recording, finalizing, kept (metadata written) or gone. A signal
may kill a launched recorder or be lost on it. A container that is removed and
made again is another one: `era` tells them apart, because `docker exec` uses
the identity looked up before. The waiting loops of ten seconds are rounds that
may end at any time. `RecordingSession` says what it is all for: a session is
claimed, recorders belong to it, and it is let go when none of them lives.
Not modelled: the ground machine's and the aircraft's recorder, which is a
script of another repository behind a PID file; two starting shells at once
(see the findings).

### Fleet, FrontDoor

`Fleet` is pure: a vehicle is its place in the fleet, its number that place above
`UAS_BASE`, and a word of a setting (`1`, `12`, or `0` for any word that names
nothing) resolves to a number or to nobody. Domains, ports and addresses are the
arithmetic of `fleet.sh`. `FrontDoor` holds `.env` (`env`), the command that
runs with the steps it has left (`command`), the compose services that run and
what they were told (`running`, `given`). A command reads `.env` once and
decides all its steps from what it read, as `px4sim` does when it sources
`.env` and `fleet.sh` at its top; each step then writes one setting, or calls
compose. `CutShort` drops the steps that are left, at any point. A person edits
the selection and the fleet by hand between commands. Two variables are history:
`kept` is the scene bench mode replaced, `strayed` says that the fleet was
edited, or an edit cut short, under a running stack. Services no property tells
apart are left out; docker compose and the person are external. Not modelled:
two commands at once (the rename in `env_set` is atomic, the read before it is
not: see the hazards), streams, ports of other machines.

`BenchGivesBack` speaks of a disable that runs to its end. One that is cut short
between restoring `SCENE` and clearing `BENCH_PREVIOUS_SCENE` has given the scene
back, and leaves the old name in `.env` for the next disable to restore.

### Telemetry

`phase` is where the report loop stands: refresh the links, wait in the selector,
look at the deadline, report. `link` is what the program knows of a connection,
`wire` and `inbox` what the kernel knows of it, and the two drift apart as they
do in non-blocking sockets. `registered` is what the selector watches, kept by
the code apart from both. The thread that polls compose publishes an answer that
was true at an earlier moment (`asked`, `found`); a poll that fails publishes
an empty set. Time is counted in ticks, which pass only while the selector
waits. Routers and the network are external. A frame is of the vehicle or of
another system; what it says is abstracted to whether the link has fields to tell.
Not modelled: the UDP mode of the real ground, service rows.

### Reporter, MavlinkFrames, Keepalive, Rangefinder, MissionUpload

Five programs that know nothing of each other; `MCSidecars` starts one of them
in each behaviour. `Reporter` is the rest of a report: the thread that asks the
video server (`Streams`, `ProbedStreams`, `AsyncStreams`), whose rate is a
difference of two readings of a counter that starts again with the server, and
the polls of bridges and units. An answer that is cut off ends the thread, as in
the code. `MavlinkFrames` feeds every cut of three frames, with a checksum that
may be cut off, to the splitter. `Keepalive` has the two modes and transports, a
router that stops, and errors that show with the next call. `Rangefinder` waits
for PX4's own range before it sends the gimbal's, in a PX4 that loses what comes
while it boots. `MissionUpload` expands a plan, clears, pushes and sets the
current item, each refused, unanswered or done, beside another station.

### Flight, BoxRows, Reads

`Flight` is one command of `uas.py`: everything it knows is the last message of
each topic, one of which arrives between two polls. `wait_until` pushes its
deadline back while `remaining` falls; `wait.quiet` counts the polls since.
`BoxRows` joins frames with verdicts that arrive in any order, some never, and
forgets all but the last `JUDGED_DEPTH`. `Reads` holds what a command has read
(`found`) beside what is so at the moment (`facing`, `drawn`); directions are
quarters of a turn, the scene's mesh four corners in any order.

### SurveyNode, MissionCheck

`SurveyNode` is what `mission.py` takes its node to be, from the plan it builds
and the lines it looks for: a mission (`at`, `mode`), a node that is told of it
late (`told`), opens operations and cancels them, and says so (`said`). A node
may be `Careless` and go on with what it cancelled: `offended` remembers where.
`MissionCheck` is the harness, statement by statement where the node may move in
between: landing what is left over, rewinding, arming, waiting for an operation,
interrupting it, judging the window. Scenario E is left out (a table of times).

### ScenePipeline, SceneStore, SceneBuild, Spawner

`ScenePipeline` has two terminals, each with a command and the step it is at, and
the files they share: `scene.json` (with what was placed by hand, what was
detected, and of which place it is), the elevation and imagery, the world and its
scenario. The editor's page keeps what it loaded when its server is gone.
History variables: `hand` is what the user last saved, `crossed` that two
commands went over each other's files (there is no lock, so nothing is promised
from there on, and the model stops), `mixed` that a `create --force` has fetched
over a scene and not saved the new one.
`SceneStore` is the save handler between its file operations, each of which may
fail, and goes on until the server is shut down. `SceneBuild`
replaces polygons by intervals of a strip of cells; heights are small numbers,
unions, clipping and cover are those of sets. Every layout of up to three
buildings, forms and grounds is built once. `Spawner` calls Gazebo, which may
refuse, may answer a create that then fails and leaves an older copy in place
(the answer says that it was queued), or may carry a call out after it timed out
(`late`). History variable `loose` holds the names under which something may
stand that no file tells of: a call for it timed out, its removal was refused, or
the run that placed it was killed before it saved.

## 3. Runs

| run | instance | shows |
|---|---|---|
| `videoswitch` | 3 cameras, one refused, one of another size, callbacks overlapping | crop, subscriptions and caps agree at every point; unused cameras stop; the stream recovers |
| `videoswitch_dry` (violation) | 2 healthy cameras, callbacks one at a time | zooming in and back within a tick drops the only source |
| `console` | 1 change of `.env`, 1 fault, 2 commands | one command at a time with its own lines and status (`CommandTrue`), settings show, hangs are recovered where a restart meets its reader and no dialog stays open |
| `console_hang` (violation) | 2 faults | a restart that meets no reader disarms the watchdog for good |
| `lens` | counter of 6 values, travel of 7 positions, band of 3, lost motion 1, coasting 0 or 1 | moves land, seeks end at the trip point, the flag is honest, the picture follows, half-open clients go |
| `recording` | 1 vehicle and the ground station, 2 sessions, 1 crash, 1 restart of the stack | nothing lives unlisted, a stop is complete, sessions never overlap (refinement), recorders end |
| `recording_over` (violation) | 1 session, 1 crash | a recording whose recorder left no metadata can never be stopped |
| `frontdoor` | fleets of 1 or 2, six selections, 2 scenes, every command cut short anywhere | the stack that runs is of the world `.env` describes, selection and fleet are those of what flies (`SelectionHoused`), bench mode loses no scene |
| `telemetry` | 1 vehicle, 3 changes of its router, 2 failed polls, pauses of 1 and 2 ticks | the selector watches exactly the open sockets and nothing of a closed connection is told (`Truthful`); reports recover and do not stay up for the dead (`TelemetryFollows`) |
| `sidecars` | 3 frames in every cut, 2 outages of a server or router, plans of up to three items | the gimbal's sensor comes second, frames are whole, an upload is what it says, rates and errors are of now, and each gets through in the end |
| `bench` | 9 commands that fly to a height of 3 with deadlines of 2 polls; 3 frames; 9 scenarios over 3 captures and 3 operations | waits end and are patient with progress, a click counts once, rows cite their own verdict (`RowsTrue`), read-outs are right (`ReadsTrue`), verdicts on a node are earned (`VerdictTrue`), missions fly from the top |
| `scenes` | 2 terminals and commands, 1 edit; 3 saves; 2 entities and 3 starts; 3 buildings on 4 cells | edits, places and builds hold, a save loses nothing, scenarios stand and are scored as placed, what is built is true |

A property that is a conjunction names its parts in the module, each with a
comment. The type invariants (`TypeOK`) are not checked in the runs: they are
proved (section 4). In `sidecars`, `scenes` and `bench` they are a part of the
invariants proved.

Bounds and why they are enough. Two cameras suffice for a switch, a third is
needed to abandon one, and the refused one and the odd size exercise the two
error paths. Two commands are the least in which one can disturb another; one
change of settings and one fault meet every state of the feed. The lens has both
trip points, both hard stops and a counter that wraps inside one move; any
longer travel only repeats positions of the same kind. Two sessions are the
least that can overlap, one vehicle and the ground station the least that can be
partially launched; one crash and one restart meet every state of the three
shells. Two vehicles are the least of which one can be selected and the other
retired; the words are a real number of each, a simulator number, and one that
names nothing. Links share nothing but the selector, whose entries are their own,
so one vehicle is enough; three changes of its router make it go, come back and
drop its client, in any order, and two ticks tell a pause that is half over. The bounds on sessions, crashes, restarts, edits, faults and commands
are constants named in the modules. In `sidecars` a second outage meets what
recovered from the first, and a third frame shows that the rest of the first cut
is not carried on. In `bench` a height of three has an inside, two polls tell a
deadline that was pushed back, three captures have one that is skipped between two
others, and `Lag` lets the node and the vehicle take one step between two
statements of the harness (any number while it sleeps or waits). In `scenes` two
commands are what may cross; one that follows two others meets no file that one
which follows one does not; three saves are the least in which one is cut between
two; three buildings are the least that are joined through a third.

`CHECK_DEADLOCK FALSE` is set for all but the lens, `Telemetry` and `VideoSwitch`:
there the system may really come to rest, with no command left to start, no key
pressed, no session left, or a program that has ended.

Fairness. In each module only what the program's own threads, the scheduler and
time do is fair: the streamer's callbacks and tick, and frames from a camera
that has a subscriber; the console's loop and threads, and a reader that starts;
the lens motor, its server and a driver that stays; shells that run go on,
recorders that were told to finalize do, and an operator who wants a recording
stopped asks again. Strong fairness is used for the bounded wait in `record stop`,
whose rounds are numbered in the code, and in `Telemetry` for time, which passes
however often the selector wakes, for the deadline of a pump, which comes with
it, and for a router that sends. In `bench` the command itself is fair (its polls
are its own loop), the vehicle is not: it may circle for ever. In `sidecars` the
laser's lines keep coming, PX4 boots and streams, and the threads of the keepalive
and of the video paths run; nothing makes a router or server come back. That a router sends more often than every
`LINK_SILENT_S` is not fairness but a condition of `TelemetryReturns` (`Talks`).
Nothing makes an operator
press a key or answer a dialog, a lens move, a fault happen, a sink come back or a
recording start.

`SettingsShown` and `HangRecovered` carry two conditions: that restarts meet their
reader (`RestartsLand`; `console_hang` shows what happens otherwise), and that no
dialog stays open for ever (`DialogsEnd`), since the loop stands still behind one.

## 4. Proofs

TLAPS proves, for all values of the constants that satisfy the named
assumptions:

* **VideoSwitchProofs** - `TypeCorrect`, `CropMatches`, `BuffersFit`,
  `NoCameraForgotten`. The last needs `SourcesInv`: before the widest camera is
  bound nothing has been switched; a subscription under way is for the pending
  camera or for one promoted since; a refused topic is never subscribed.
* **LensProofs** - `TypeCorrect`, `OneThingStops`, `FlagIsHonest`,
  `SeeksEndAtTrip`, `MovesLand`. All argue about the motor and the commands only:
  every other step leaves the axis alone (`AxisSteps`). `MovesLand` needs that a
  move with a goal is not a seek, and that a step taken off what is left to run
  and added to the counter cancels in the remainder, at both ends of the counter
  (`CounterTurns`).
* **ReportProofs** - of the console, `TypeCorrect` and `CommandsTrue`. That no
  command runs is found several steps before the next one is started, while the
  collectors go on, so `StartInv`
  says what each place of the main loop may rely on after it, and `CollectorInv`
  that the collector of the command held lives until it has kept the status; one
  whose pipe was drained when the pane was cleared writes nothing under the next. Of the
  report's links, `LinksTypeCorrect` and `LinksTruthful`: `Truthful` is inductive over
  well-typed states, each handler being shown to leave the selector, the socket and
  the link in agreement, for the link it is about and for all others.
* **RecordingProofs** - `TypeCorrect`, `RecordersOwned`, `StopsComplete`, and
  `Refinement`: `Recording` implements `RecordingSession`. That no recorder lives
  unlisted is not inductive: the launching shell relies on a manifest written
  many steps before. `IInv` adds that a manifest lists one session completely
  (`Listed`), that a recorder lives in a container that runs (`Housed`), that
  none was launched before its turn (`Unlaunched`, which is why `record stop`
  cannot succeed in the middle of a start), and what a starting shell relies on
  (`Starting`: if its manifest is gone, so are the containers it looked up).
* **FrontDoorProofs** - of the numbering: `SameVehicle`, a word names the same
  vehicle in both worlds, in a fleet of any size; `ResolvesToItself` and
  `SelectionSurvives`, what `mode` and `active` store selects the same vehicles in
  whichever world reads it, which needs that the numbers of the two worlds do not
  overlap, as in a fleet of at most nine, the most `fleet add` allows;
  `WorldsApart` and `NothingCollides`, no derived domain, port or address is
  shared. Of the commands: `TypeCorrect`, `WorldsKept`, `SelectionKept`,
  `BenchKept`, `SceneGivenBack`. A command is a list of steps of which any suffix
  may be dropped, so the invariant speaks of the steps that are left: which they
  can be under each command (`PlanInv`), that what is to be started is of the
  world `.env` describes (`WorldInv`), that bench mode changes only after what runs
  is down (`BenchInv`), that the fleet `.env` will hold in the end houses what will
  still run by then (`HousedInv`), that a selection `mode` has yet to write names the vehicles
  that flew (`ModeInv`, with the theorems of the numbering), and what bench mode will
  leave in `.env` (`KeptInv`).
* **SidecarsProofs** - `BodyIsFirst`, `UploadsHonest`, `ReportsHold`, `FramesAreWhole`,
  of the rangefinder, the uploader, the reporter and the splitter of frames.
  `SeenHasCome`: what the rangefinder has heard of PX4 is of a sensor that is there. A
  plan with an item that is not known never reaches `push`, and a mission is in the
  vehicle before the cursor is set. The counter's rise since the last answer is at
  most what was carried (`Counted`), and a bridge or unit that went is read again
  within what is left of the period (`SoonRead`: time that it stood and ticks to go
  stay below it). The frames told are those of the stream so far, however it was cut:
  `FramesInv` says where in the stream the splitter stands, and what is left in its
  buffer.
* **ScenesProofs** - `EditsAnsweredKept`, `ScenariosPlaced`, `ScenesKept`, `WorldsBuilt`.
  `StoreInv` says for each statement of a save which of the two files holds what was
  answered last. `StandInv` follows the names: what stands is placed in this run, on
  file, or loose, and what is still with Gazebo is loose.
  `PipelineInv` says what each command's copy of the scene holds at each of its steps
  (`CopyOk`, `ToolOk`), that of two commands at work at most one fetches, and one
  builds (`Apart`), and that the page's copy is of the place of the data while it is
  fresh; all of it while no two commands have crossed. `BuildInv` follows a world
  through the statements of its build: joining buildings keeps a forest whose trees
  hold exactly the pairs compared so far that overlap (`ForestType`,
  `ComparedMerged`, `MergedOnly`), what is cut out of the ground and what stands on it
  agree (`CutDone`, `WorldDone`), and a number is always free for the next name, by
  the pigeonhole principle (`NamesInv`). It holds for a strip of any width.
* **BenchProofs** - `ClicksCounted`, `Patient`, `StartsFromTheTop`, `ReadsAreTrue`,
  `RowsAreTrue`, `VerdictsEarned`: what the harness does with a vehicle and topics of which it knows the
  last message only. `ClickInv`: no click is sent before it has a listener, and those
  sent and those left are `Repeat` together. `WaitInv`: what is left of a deadline
  went in polls that heard nothing better. `OpenAsTold`: an operation that is not
  cancelled is of the hold the node was told of; with it, `TopInv` says at each place
  of a start that nobody moves the mission from its first item. `HeadingInv` and
  `MarkedInv`: what was read, of a vehicle that did not turn since, is how it stands
  and how it is drawn, and the mark that is sent is the one of the shot. `RowsHold`
  follows a frame from the camera to its row: the verdicts kept are the last heard, in
  order (`JudgedInv`), since one that was forgotten as many others were heard as are
  kept (`ForgottenInv`), a frame waits or is written, once (`PendingInv`,
  `WrittenInv`), and a row that cites no verdict has missed none that it should have
  waited for (`NamedInv`). `CheckInv` is the argument for the verdicts of scenarios B,
  C and H. A capture takes several steps between its first line and its end, and each
  statement of the harness leaves room for `Lag` of them: `Within` counts them, so that
  what is to be interrupted is still under way when it is (or has just ended by itself,
  which is what the retries are for). Up to then the vehicle is where the node takes it
  to be (`Steady`); after it, the node goes on with that operation until it is told
  (`Pending`), and cancels no other (`Calm`; `Turned` when the end came first). `OwnInv`
  says whose the lines are that cut or stop something, `CutInv` what may have happened
  before the node was told, `JudgeInv` and `PassInv` what a charge and a pass rest on.
  In the other scenarios nothing is charged.

`VerdictsEarned` is the one theorem with conditions beyond the types of the constants,
and both are needed: TLC finds a counterexample without either. `Lag <= 1`: a
harness held up between the line it hears and the command it answers it with lets a
survey finish in between, which is then charged as still running. No scenario of B, C
and H in `LeftFor`: an operation that a vehicle opens while it is being landed can be
taken for the one to interrupt, and what is cut later is another (for H, TLC finds no
violation on the run's instance, but the invariant does not cover it). The run's
instance satisfies both.

What a recursion computes for every input is an induction over data, and the
library's induction theorems take an operator, which no prover at hand can
instantiate. `Least` and its like (a set of numbers that is not empty has a least
element, from `WellFoundedInduction`) stand in for them: what would be the step of an
induction is the contradiction at the least counterexample.

Assumptions are those on constants (`...Assumption` in each module), evaluated by
TLC on every run. Each inductive invariant was checked by TLC on the run's instance
before it was proved.

Only model-checked is liveness (`StreamRecovers`, `UnusedCameraStops`,
`SettingsShown`, `HangRecovered`, `HalfOpenReleased`, `PictureFollows`,
`RecordersEnd`, `TelemetryFollows`, `SidecarsServe`, `CommandEnds`), which the
prover cannot do under fairness.

## 5. Findings

Where the code does not do what it says, `PROJECT.json` quotes both under
`findings`. Three have a run that exhibits them; the others were met while
modelling and are stated with their lines. Where a property of a passing run
carries a condition for one of them, its comment says so:

* a restart that meets no reader (`RestartsLand` in `Console`);
* a command started while the pipe of the one before is drained (`drained` in
  `Runner`);
* a node in scenario I or G that is charged too early (`VerdictTrue` speaks of
  windows that opened where the log shows that the node was told);
* saves that overlap (`crossed` in `SceneStore`), and a save after one that failed
  with the file open, which moves the cut file over the backup (`disk.bak \notin
  Cuts`);
* commands that overlap (`crossed` in `ScenePipeline`), and an `all` over a scene
  whose vehicles were all deleted, which detects again (`EditsKept` speaks of scenes
  with a vehicle left);
* a roof below the ground beside it (`BuriedAt` in `SceneBuild`);
* a call of Gazebo that timed out or a removal that was refused (`loose` in
  `Spawner`);
* a thread that a cut-off answer has ended (`poller.alive` in `Reporter`).

Conditions that are no finding, as no text promises otherwise: a dialog that stays
open (`DialogsEnd`); a reader that hangs and the settings it read (`SettingsShown`);
a `create --force` that fails, or is killed, after it has fetched the elevation
(`mixed`: the old scene is then over the new ground); a spawner killed before it
saved what it placed (`loose`).

## 6. Not modelled

* The stack's lifecycle (`start`, `fly`, the entrypoints, `compose.yaml`) but for
  what `FrontDoor` needs of it: long sequences of waits on PX4, Gazebo, MAVROS and
  the companion's nodes, none of which is in this repository.
* The PX4 patches: a line or a formula each, in code that is not in this
  repository.
* Pixels, projections, tiles, meshes and file formats of the scene generator, the
  detector's network, the streamer's encoders: arithmetic over reals.
* The UDP mode and the traffic monitor of `state.py`, recording on the aircraft
  and the ground machine (a script of another repository behind a PID file).
* In the streamer, a zoom of zero or less (no lens sends one), and a switch that is
  given up between `Select`'s decision and its subscribe: that the call returns
  within the five seconds of `kSwitchTimeout` is an assumption about time, on which
  `NothingForgotten` and `UnusedCameraStops` rest.
* In the keepalive, who sent the bytes that end its bootstrap mode.
* The spawner's move-fiducial: one calculation over reals and one call, which keeps
  no state. A resolved file cut by a kill; a save of the editor that was written and
  whose answer was lost.
* In the console, a Ctrl-C in the middle of a step (between `Popen` and the
  assignment of its process it leaves a command that nobody can stop), and leaving.
* What the console draws; build, inspection and documentation tools; the probes
  and shell stages under `verify/`, which run one command after the other.

## 7. Plan

1. `VerdictsEarned` for H after a vehicle that was left flying.
2. The settings under two commands at once (`env_set`), against an abstract store
   that loses no write.
3. Tiles, mirrors and rings of `sources.py`: a cache under kills, and outlines
   joined from fragments in any order.
