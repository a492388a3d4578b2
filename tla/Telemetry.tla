----------------------------- MODULE Telemetry -----------------------------
(***************************************************************************)
(* The telemetry links of the state reporter: Link, Links, AsyncContainers *)
(* and the report loop of scripts/state.py, in the simulator, where each   *)
(* vehicle has a TCP port of its own.                                      *)
(*                                                                         *)
(* One thread pumps the links between two reports: it refreshes each link, *)
(* waits in a selector, and handles what the selector names.  A second     *)
(* thread asks compose which services run, which decides at each report    *)
(* which links may be dialled.  The routers at the other end and the       *)
(* network are external.                                                   *)
(*                                                                         *)
(* Time is counted in ticks, and passes only while the pump waits: on one  *)
(* host everything else takes no time.                                     *)
(***************************************************************************)
EXTENDS Integers

CONSTANTS
  Vehicles,  \* the vehicles that fly
  LinkRetry, \* LINK_RETRY_S
  Connect,   \* CONNECT_TIMEOUT_S
  Silent,    \* LINK_SILENT_S
  Changes,   \* bound: how often a router starts, ends or drops its client
  Failures   \* bound: how many polls of compose fail

ASSUME TimesAssumption ==
  LinkRetry \in Nat \ {0} /\ Connect \in Nat /\ Silent \in Nat
ASSUME ChangesAssumption == Changes \in Nat /\ Failures \in Nat

VARIABLES
  phase,       \* where the report loop stands
  link,        \* what the reporter knows of each link
  registered,  \* what the selector watches each socket for
  available,   \* the vehicles whose router ran at the last report
  reported,    \* what the last report said of each link
  found,       \* what the poll thread published last
  asked,       \* what compose answers the poll under way
  wire,        \* the connection behind each socket, as the kernel has it
  inbox,       \* what has arrived and was not read
  router,      \* the vehicles whose router runs
  changes,
  failures

pollVars == <<found, asked, failures>>
netVars == <<wire, inbox, router, changes>>
linksVars == <<phase, link, registered, available, reported, pollVars, netVars>>

Never == Silent + 1
NoLink == [socket |-> "none", lost |-> FALSE, retry |-> 0, attempt |-> 0,
           heard |-> Never, fields |-> FALSE]

LinksInit ==
  /\ phase = "refresh"
  /\ link = [v \in Vehicles |-> NoLink]
  /\ registered = [v \in Vehicles |-> "none"]
  /\ available = Vehicles
  /\ reported = [v \in Vehicles |-> "none"]
  /\ found = {}
  /\ asked \in {{}, Vehicles}
  /\ wire = [v \in Vehicles |-> "none"]
  /\ inbox = [v \in Vehicles |-> "none"]
  /\ router \in {{}, Vehicles}
  /\ changes = 0
  /\ failures = 0

-----------------------------------------------------------------------------
(***************************************************************************)
(* One link                                                                *)
(***************************************************************************)
IsOpen(l) == l.socket # "none"

(* Mutant of Closed: what it read last stays. *)
ClosedStale(l) == [l EXCEPT !.socket = "none"]

(* close: a closed link knows nothing, but when it was heard last. *)
Closed(l) == [l EXCEPT !.socket = "none", !.fields = FALSE]

TimedOut(l) == l.socket = "connecting" /\ l.attempt > Connect
IsLost(l) == l.lost \/ TimedOut(l)

(* Mutant of Forgotten: the link is lost for ever after. *)
ForgottenLost(l) == [Closed(l) EXCEPT !.retry = LinkRetry]

(* refresh, for a link that is lost. *)
Forgotten(l) == [Closed(l) EXCEPT !.lost = FALSE, !.retry = LinkRetry]

Dials(l) == l.socket = "none" /\ l.retry = 0

(* open: connect_ex answers at once, goes on, or refuses. *)
Dialled(l, answer) ==
  CASE answer = "refused" -> [l EXCEPT !.retry = LinkRetry]
    [] answer = "syn" -> [l EXCEPT !.socket = "connecting", !.attempt = 0]
    [] answer = "up" -> [l EXCEPT !.socket = "connected", !.attempt = 0]

(* wanted_events *)
Wanted(l) ==
  CASE l.socket = "none" -> "none"
    [] l.socket = "connecting" -> "write"
    [] l.socket = "connected" -> "read"

(* ready, and take: a connection that came about or not, frames of this    *)
(* vehicle's autopilot or of another system, or the end of the stream.     *)
Ready(v) ==
  LET l == link[v]
  IN IF l.socket = "connecting"
     THEN IF wire[v] = "refused" THEN [l EXCEPT !.lost = TRUE]
          ELSE [l EXCEPT !.socket = "connected"]
     ELSE IF inbox[v] = "own" THEN [l EXCEPT !.heard = 0, !.fields = TRUE]
     ELSE IF inbox[v] = "other" THEN l
     ELSE [l EXCEPT !.lost = TRUE]

(* report *)
Told(l) ==
  IF l.heard <= Silent THEN "up"
  ELSE IF l.socket = "connected" THEN "silent" ELSE "down"

-----------------------------------------------------------------------------
(***************************************************************************)
(* The report loop                                                         *)
(***************************************************************************)

(* A router that runs takes the connection; one that does not refuses it,  *)
(* or nothing answers.                                                     *)
Answers(v) == IF v \in router THEN {"syn", "up"} ELSE {"syn", "refused"}

(* refresh: every link that may be dialled.  A closed socket leaves the    *)
(* selector first; an open one is watched for what it waits for.           *)
Refresh ==
  /\ phase = "refresh"
  /\ \E answer \in [Vehicles -> {"none", "syn", "up", "refused"}] :
       LET kept(v) == IF IsLost(link[v]) THEN Forgotten(link[v]) ELSE link[v]
           dials == {v \in available : Dials(kept(v))}
           after(v) == IF v \notin available THEN link[v]
                       ELSE IF v \in dials THEN Dialled(kept(v), answer[v])
                       ELSE kept(v)
       IN /\ \A v \in Vehicles :
               IF v \in dials THEN answer[v] \in Answers(v) ELSE answer[v] = "none"
          /\ link' = [v \in Vehicles |-> after(v)]
          /\ registered' = [v \in Vehicles |->
               IF v \in available THEN Wanted(after(v)) ELSE registered[v]]
          /\ wire' = [v \in Vehicles |->
               IF v \in dials
               THEN IF answer[v] = "refused" THEN "none" ELSE answer[v]
               ELSE IF IsOpen(after(v)) THEN wire[v] ELSE "none"]
          /\ inbox' = [v \in Vehicles |->
               IF IsOpen(after(v)) THEN inbox[v] ELSE "none"]
  /\ phase' = "select"
  /\ UNCHANGED <<available, reported, pollVars, router, changes>>

(* What the selector names. *)
Named ==
  {v \in Vehicles :
     \/ registered[v] = "write" /\ wire[v] \in {"up", "refused", "closed"}
     \/ registered[v] = "read" /\ (inbox[v] # "none" \/ wire[v] = "closed")}

Events ==
  /\ phase = "select"
  /\ Named # {}
  /\ link' = [v \in Vehicles |-> IF v \in Named THEN Ready(v) ELSE link[v]]
  /\ inbox' = [v \in Vehicles |->
       IF v \in Named /\ link[v].socket = "connected" THEN "none" ELSE inbox[v]]
  /\ phase' = "top"
  /\ UNCHANGED <<registered, available, reported, pollVars, wire, router, changes>>

SelectEnds ==
  /\ phase = "select"
  /\ Named = {}
  /\ phase' = "top"
  /\ UNCHANGED <<link, registered, available, reported, pollVars, netVars>>

(* The top of the pump: its deadline has passed, or not yet. *)
GoOn ==
  /\ phase = "top"
  /\ phase' = "refresh"
  /\ UNCHANGED <<link, registered, available, reported, pollVars, netVars>>

Deadline ==
  /\ phase = "top"
  /\ phase' = "report"
  /\ UNCHANGED <<link, registered, available, reported, pollVars, netVars>>

(* Mutant of Cut: the socket is closed under the selector. *)
CutRegistered(gone) ==
  /\ link' = [v \in Vehicles |-> IF v \in gone THEN Closed(link[v]) ELSE link[v]]
  /\ registered' = registered

(* forget and close *)
Cut(gone) ==
  /\ link' = [v \in Vehicles |-> IF v \in gone THEN Closed(link[v]) ELSE link[v]]
  /\ registered' = [v \in Vehicles |-> IF v \in gone THEN "none" ELSE registered[v]]

(* Mutant of Unowned: a link that is up already is left alone. *)
UnownedIdle(services) ==
  {v \in Vehicles \ services : link[v].socket = "connecting"}

Unowned(services) == {v \in Vehicles \ services : IsOpen(link[v])}

(* snapshot: set_available, then report. *)
Report ==
  /\ phase = "report"
  /\ LET gone == Unowned(found)
     IN /\ Cut(gone)
        /\ wire' = [v \in Vehicles |-> IF v \in gone THEN "none" ELSE wire[v]]
        /\ inbox' = [v \in Vehicles |-> IF v \in gone THEN "none" ELSE inbox[v]]
  /\ available' = found
  /\ reported' = [v \in Vehicles |-> Told(link'[v])]
  /\ phase' = "refresh"
  /\ UNCHANGED <<pollVars, router, changes>>

(* A mutant: a closed link does not age.                                   *)
OlderOpen(l) ==
  [l EXCEPT !.retry = IF @ > 0 THEN @ - 1 ELSE 0,
            !.attempt = IF @ <= Connect /\ l.socket = "connecting" THEN @ + 1 ELSE @,
            !.heard = IF @ <= Silent /\ IsOpen(l) THEN @ + 1 ELSE @]

(* Time passes while the selector has nothing to name, and no router that  *)
(* runs leaves a connection unanswered.                                    *)
Older(l) ==
  [l EXCEPT !.retry = IF @ > 0 THEN @ - 1 ELSE 0,
            !.attempt = IF @ <= Connect /\ l.socket = "connecting" THEN @ + 1 ELSE @,
            !.heard = IF @ <= Silent THEN @ + 1 ELSE @]
Tick ==
  /\ phase = "select"
  /\ Named = {}
  /\ \A v \in router : wire[v] # "syn"
  /\ link' = [v \in Vehicles |-> Older(link[v])]
  /\ UNCHANGED <<phase, registered, available, reported, pollVars, netVars>>

LoopStep == Refresh \/ Events \/ SelectEnds \/ Report

-----------------------------------------------------------------------------
(***************************************************************************)
(* The poll thread                                                         *)
(***************************************************************************)

(* _run publishes what containers() answered; the next answer is of a      *)
(* later moment.  A poll that fails answers with no container at all.      *)
Poll ==
  /\ found' = asked
  /\ asked' = router
  /\ UNCHANGED <<phase, link, registered, available, reported, failures, netVars>>

PollFails ==
  /\ failures < Failures
  /\ failures' = failures + 1
  /\ found' = asked
  /\ asked' = {}
  /\ UNCHANGED <<phase, link, registered, available, reported, netVars>>

-----------------------------------------------------------------------------
(***************************************************************************)
(* The routers                                                             *)
(***************************************************************************)
netOnly == <<phase, link, registered, available, reported, pollVars>>

Accept(v) ==
  /\ wire[v] = "syn" /\ v \in router
  /\ wire' = [wire EXCEPT ![v] = "up"]
  /\ UNCHANGED <<netOnly, inbox, router, changes>>

Refuse(v) ==
  /\ wire[v] = "syn" /\ v \notin router
  /\ wire' = [wire EXCEPT ![v] = "refused"]
  /\ UNCHANGED <<netOnly, inbox, router, changes>>

Send(v, kind) ==
  /\ wire[v] = "up" /\ v \in router /\ inbox[v] = "none"
  /\ inbox' = [inbox EXCEPT ![v] = kind]
  /\ UNCHANGED <<netOnly, wire, router, changes>>

(* A router drops its client, ends, or starts. *)
Drop(v) ==
  /\ wire[v] = "up" /\ changes < Changes
  /\ wire' = [wire EXCEPT ![v] = "closed"]
  /\ changes' = changes + 1
  /\ UNCHANGED <<netOnly, inbox, router>>

RouterEnds(v) ==
  /\ v \in router /\ changes < Changes
  /\ router' = router \ {v}
  /\ wire' = [wire EXCEPT ![v] = IF @ = "up" THEN "closed" ELSE @]
  /\ changes' = changes + 1
  /\ UNCHANGED <<netOnly, inbox>>

RouterStarts(v) ==
  /\ v \notin router /\ changes < Changes
  /\ router' = router \cup {v}
  /\ changes' = changes + 1
  /\ UNCHANGED <<netOnly, wire, inbox>>

Network ==
  \E v \in Vehicles :
    \/ Accept(v) \/ Refuse(v)
    \/ \E kind \in {"own", "other"} : Send(v, kind)
    \/ Drop(v) \/ RouterEnds(v) \/ RouterStarts(v)

LinksNext == LoopStep \/ GoOn \/ Deadline \/ Tick \/ Poll \/ PollFails \/ Network

LinksSpec == LinksInit /\ [][LinksNext]_linksVars

(* The loop goes on, its deadline and time pass, the poll thread polls,    *)
(* the network answers and a router that runs sends its vehicle's frames.  *)
FairLinks ==
  /\ LinksSpec
  /\ WF_linksVars(LoopStep) /\ WF_linksVars(GoOn)
  /\ SF_linksVars(Deadline) /\ SF_linksVars(Tick)
  /\ WF_linksVars(Poll)
  /\ \A v \in Vehicles :
       WF_linksVars(Accept(v)) /\ WF_linksVars(Refuse(v)) /\ SF_linksVars(Send(v, "own"))

-----------------------------------------------------------------------------
(***************************************************************************)
(* Properties                                                              *)
(***************************************************************************)
Links ==
  [socket : {"none", "connecting", "connected"}, lost : BOOLEAN,
   retry : 0 .. LinkRetry, attempt : 0 .. Connect + 1, heard : 0 .. Never,
   fields : BOOLEAN]

(* Every variable has its type. *)
LinksTypeOK ==
  /\ phase \in {"refresh", "select", "top", "report"}
  /\ link \in [Vehicles -> Links]
  /\ registered \in [Vehicles -> {"none", "read", "write"}]
  /\ available \subseteq Vehicles /\ found \subseteq Vehicles
  /\ asked \subseteq Vehicles /\ router \subseteq Vehicles
  /\ reported \in [Vehicles -> {"none", "up", "silent", "down"}]
  /\ wire \in [Vehicles -> {"none", "syn", "up", "refused", "closed"}]
  /\ inbox \in [Vehicles -> {"none", "own", "other"}]
  /\ changes \in 0 .. Changes /\ failures \in 0 .. Failures

(* The selector never watches a socket that was closed, and whenever the   *)
(* pump waits it watches every open one, for what that one waits for:      *)
(* through losses, timeouts and services that go away                      *)
(* (Links.forget, watch, refresh, set_available).                          *)
Watched ==
  /\ \A v \in Vehicles : registered[v] # "none" => IsOpen(link[v])
  /\ phase = "select" =>
       \A v \in Vehicles : registered[v] = Wanted(link[v])

(* What a report tells of a vehicle came over the connection that stands:  *)
(* nothing read over an earlier one is told again (Link.close).            *)
NothingStale ==
  \A v \in Vehicles : link[v].fields => link[v].socket = "connected"

(* A link is open only to a router that ran at the last report             *)
(* (set_available, pump).                                                  *)
OnlyAvailable ==
  \A v \in Vehicles : IsOpen(link[v]) => v \in available

(* Whatever is lost, refused or polled wrongly, the links, the selector    *)
(* and the report stay about the connections that stand.                   *)
Truthful == Watched /\ NothingStale /\ OnlyAvailable

(* The vehicle's frames come more often than every LINK_SILENT_S.          *)
Talks(v) == Tick => wire[v] # "up" \/ link[v].heard < Silent

(* A vehicle whose router runs for good, and talks, is reported up again   *)
(* and again, whatever was lost, refused or polled wrongly before.         *)
TelemetryReturns ==
  \A v \in Vehicles :
    <>[](v \in router) /\ <>[][Talks(v)]_linksVars => []<>(reported[v] = "up")

(* A vehicle whose router is gone for good is in the end reported down,    *)
(* and stays so.                                                           *)
TelemetryEnds ==
  \A v \in Vehicles :
    <>[](v \notin router) => <>[](reported[v] = "down")

(* The report comes to follow each router, whichever way it goes.          *)
TelemetryFollows == TelemetryReturns /\ TelemetryEnds

=============================================================================
