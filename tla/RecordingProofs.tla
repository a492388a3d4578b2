-------------------------- MODULE RecordingProofs --------------------------
(***************************************************************************)
(* Proofs about Recording, for any fleet, any number of sessions, crashes  *)
(* and restarts of the stack.                                              *)
(*                                                                         *)
(* That every recorder that lives is listed does not follow from itself:   *)
(* the shell that launches recorders relies on a manifest it wrote many    *)
(* steps before, and others may remove it.  `record stop` cannot, because  *)
(* the recorders still to be launched have no bag; and stopping the stack  *)
(* can, but then the containers that were looked up are gone for good.     *)
(***************************************************************************)
EXTENDS Recording, TLAPS

(* A manifest lists one session, completely. *)
Listed == lines = IF exists THEN {session} \X Members ELSE {}

(* A recorder lives in a container that runs. *)
Housed == \A r \in Recorders : Live(r) => r[2] \in up

(* No recorder is launched before its turn. *)
Unlaunched ==
  \A r \in Recorders :
    \/ r[1] > session
    \/ starter = "launch" /\ r[1] = session /\ r[2] >= next
    => recorder[r] = "none"

(* What a starting shell relies on. *)
Starting ==
  /\ resolved <= era
  /\ starter \in {"resolve", "claim"} => ~exists /\ session < Sessions
  /\ starter = "launch" => \/ exists
                           \/ resolved < era
                           \/ stack = "down"
  /\ stack = "down" => up = {}
  /\ stack # "up" => era < Restarts

IInv == TypeOK /\ Listed /\ Housed /\ Unlaunched /\ Starting /\ Owned

-----------------------------------------------------------------------------
(* What the steps of a recorder's life have in common. *)
LEMMA StateOfRecorder ==
  ASSUME TypeOK, NEW r \in Recorders
  PROVE  /\ recorder[r] \in Alive \cup {"none", "gone", "kept"}
         /\ r \in LiveRecorders <=> Live(r)
         /\ r[1] \in 1 .. Sessions /\ r[2] \in Members /\ r = <<r[1], r[2]>>
  BY DEF TypeOK, LiveRecorders, Recorders

(* A step after which no other recorder lives, and which launches none,    *)
(* leaves what is said of recorders true.                                  *)
Quieter ==
  /\ recorder' \in [Recorders -> Alive \cup {"none", "gone", "kept"}]
  /\ \A r \in Recorders : recorder'[r] = recorder[r] \/ Live(r)
  /\ \A r \in Recorders : recorder'[r] \in Alive => Live(r)

LEMMA QuieterKeeps ==
  ASSUME IInv, Quieter,
         UNCHANGED <<fileVars, starterVars>>
  PROVE  /\ Owned' /\ Unlaunched' /\ LiveRecorders' \subseteq LiveRecorders
  <1>1. LiveRecorders' \subseteq LiveRecorders
    BY DEF Quieter, LiveRecorders, Live, Recorders, Members
  <1>2. Owned'
    BY <1>1 DEF IInv, Owned, fileVars
  <1>3. Unlaunched'
    BY DEF IInv, Unlaunched, Quieter, starterVars, Live, Alive, Recorders, Members
  <1> QED  BY <1>1, <1>2, <1>3

(* A signal only ends recorders. *)
LEMMA SignalQuiet ==
  ASSUME TypeOK, Signal
  PROVE  Quieter
  <1>1. PICK deaf \in SUBSET {r \in lines : recorder[r] = "launched"} :
          recorder' = [r \in Recorders |->
                        IF r \in lines THEN Interrupted(recorder[r], r \in deaf)
                                       ELSE recorder[r]]
    BY DEF Signal
  <1>2. ASSUME NEW r \in Recorders
        PROVE  /\ recorder'[r] \in Alive \cup {"none", "gone", "kept"}
               /\ recorder'[r] = recorder[r] \/ Live(r)
               /\ recorder'[r] \in Alive => Live(r)
    <2>1. recorder'[r] = IF r \in lines THEN Interrupted(recorder[r], r \in deaf)
                                        ELSE recorder[r]
      BY <1>1
    <2>2. recorder[r] \in Alive \cup {"none", "gone", "kept"}
      BY DEF TypeOK
    <2>3. CASE recorder[r] = "recording"
      BY <2>1, <2>3 DEF Interrupted, Alive, Live
    <2>4. CASE recorder[r] = "launched"
      BY <2>1, <2>4 DEF Interrupted, Alive, Live
    <2>5. CASE recorder[r] \notin {"recording", "launched"}
      <3>1. recorder'[r] = recorder[r]
        BY <2>1, <2>5 DEF Interrupted
      <3> QED  BY <3>1, <2>2 DEF Live
    <2> QED  BY <2>3, <2>4, <2>5
  <1> QED  BY <1>1, <1>2 DEF Quieter

(* So does the end of a container. *)
LEMMA KilledQuiet ==
  ASSUME TypeOK, NEW m \in Members, recorder' = Killed(m)
  PROVE  Quieter
  BY DEF TypeOK, Killed, Quieter, Live, Alive

-----------------------------------------------------------------------------
(* One step of docker's, or of a recorder. *)
LEMMA DockerKeeps ==
  ASSUME IInv, Docker, UNCHANGED <<fileVars, starterVars, stopperVars, stack>>
  PROVE  IInv' /\ LiveRecorders' \subseteq LiveRecorders
  <1> USE DEF fileVars, starterVars, stopperVars
  <1> DEFINE Effect ==
               /\ Quieter
               /\ up' \subseteq up /\ era' = era /\ crashes' \in 0 .. Crashes
               /\ \A r \in Recorders : recorder'[r] \in Alive => r[2] \in up'
  <1>1. Effect
    <2>1. CASE Becomes
      BY <2>1, BoundsAssumption
      DEF Becomes, Become, Quieter, IInv, TypeOK, Live, Alive, Housed
    <2>2. CASE Finalizes
      BY <2>2, BoundsAssumption
      DEF Finalizes, Finalize, Quieter, IInv, TypeOK, Live, Alive, Housed
    <2>3. ASSUME NEW r \in Recorders, Die(r)
          PROVE  Effect
      BY <2>3, BoundsAssumption DEF Die, Quieter, IInv, TypeOK, Live, Alive, Housed
    <2>4. ASSUME NEW m \in Members, ContainerDies(m)
          PROVE  Effect
      <3>1. Quieter
        BY <2>4, KilledQuiet DEF ContainerDies, IInv
      <3>2. up' \subseteq up /\ era' = era /\ crashes' \in 0 .. Crashes
        BY <2>4, BoundsAssumption DEF ContainerDies, IInv, TypeOK
      <3>3. ASSUME NEW r \in Recorders, recorder'[r] \in Alive
            PROVE  r[2] \in up'
        <4>1. recorder'[r] = IF r[2] = m /\ Live(r) THEN "gone" ELSE recorder[r]
          BY <2>4 DEF ContainerDies, Killed
        <4>2. Live(r) /\ r[2] # m
          BY <3>3, <4>1 DEF Live, Alive
        <4> QED  BY <4>2, <2>4 DEF ContainerDies, IInv, Housed
      <3> QED  BY <3>1, <3>2, <3>3
    <2> QED  BY <2>1, <2>2, <2>3, <2>4 DEF Docker
  <1>2. Owned' /\ Unlaunched' /\ LiveRecorders' \subseteq LiveRecorders
    BY <1>1, QuieterKeeps
  <1>3. TypeOK'
    BY <1>1 DEF IInv, TypeOK, Quieter, Recorders, Members
  <1>4. Listed' /\ Starting'
    BY <1>1 DEF IInv, Listed, Starting, Members
  <1>5. Housed'
    BY <1>1 DEF Housed, Live, Recorders, Members
  <1> QED  BY <1>2, <1>3, <1>4, <1>5 DEF IInv

-----------------------------------------------------------------------------
(* A step of `record bags`.  What it does to the promise is one of three   *)
(* things.                                                                 *)
StarterEffect ==
  \/ /\ ~exists /\ exists' /\ session' = session + 1
     /\ LiveRecorders' = LiveRecorders
  \/ /\ exists /\ exists' /\ session' = session
     /\ \E m \in Members : LiveRecorders' = LiveRecorders \cup {<<session, m>>}
  \/ /\ exists' = exists /\ session' = session
     /\ LiveRecorders' \subseteq LiveRecorders
  \/ /\ exists /\ ~exists' /\ session' = session
     /\ LiveRecorders = {} /\ LiveRecorders' = {}

LEMMA StartCheckKeeps ==
  ASSUME IInv, StartCheck, UNCHANGED <<fileVars, dockerVars, stopperVars, stack>>
  PROVE  IInv' /\ StarterEffect
  <1> USE DEF fileVars, dockerVars, stopperVars, StartCheck
  <1>1. LiveRecorders' = LiveRecorders
    BY DEF LiveRecorders, Live, Recorders, Members
  <1>2. TypeOK' /\ Listed' /\ Owned'
    BY <1>1 DEF IInv, TypeOK, Listed, Owned, Members, Recorders
  <1>3. Housed'
    BY DEF IInv, Housed, Live, Recorders, Members
  <1>4. Unlaunched'
    BY DEF IInv, Unlaunched, Recorders, Members
  <1>5. Starting'
    BY BoundsAssumption DEF IInv, Starting, TypeOK
  <1> QED  BY <1>1, <1>2, <1>3, <1>4, <1>5 DEF IInv, StarterEffect

LEMMA StartClaimKeeps ==
  ASSUME IInv, StartClaim, UNCHANGED <<dockerVars, stopperVars, stack>>
  PROVE  IInv' /\ StarterEffect
  <1> USE DEF dockerVars, stopperVars, StartClaim
  <1>1. LiveRecorders' = LiveRecorders
    BY DEF LiveRecorders, Live, Recorders, Members
  <1>2. ~exists /\ session + 1 \in 1 .. Sessions /\ session \in Nat
    BY BoundsAssumption DEF IInv, Starting, TypeOK
  <1>3. LiveRecorders = {}
    BY <1>2 DEF IInv, Owned, Listed
  <1>4. Listed' /\ lines' \subseteq Recorders
    BY <1>2 DEF Listed, Recorders, Members
  <1>5. 1 \in Members
    BY FleetAssumption DEF Members
  <1>6. TypeOK'
    BY <1>2, <1>4, <1>5 DEF IInv, TypeOK, Recorders, Members
  <1>7. Owned' /\ Housed'
    BY <1>1, <1>3 DEF Owned, Housed, LiveRecorders, Live, Recorders, Members
  <1>8. Unlaunched'
    <2>1. \A r \in Recorders : r[1] \in Nat
      BY DEF Recorders
    <2> QED  BY <1>2, <2>1 DEF IInv, Unlaunched, Recorders, Members
  <1>9. Starting'
    BY DEF IInv, Starting
  <1> QED  BY <1>1, <1>2, <1>4, <1>6, <1>7, <1>8, <1>9 DEF IInv, StarterEffect

LEMMA StartLaunchKeeps ==
  ASSUME IInv, StartLaunch, UNCHANGED <<fileVars, stopperVars, stack>>
  PROVE  IInv' /\ StarterEffect
  <1> DEFINE new == <<session, next>>
  <1> USE DEF fileVars, stopperVars
  <1>1. exists
    BY BoundsAssumption DEF IInv, Starting, StartLaunch, TypeOK
  <1>2. lines = {session} \X Members /\ next \in Members /\ new \in lines
    BY <1>1 DEF IInv, Listed, TypeOK
  <1>3. new \in Recorders /\ session \in 1 .. Sessions /\ session' = session
    BY <1>2 DEF IInv, TypeOK, Recorders, StartLaunch
  <1>4. recorder' = [recorder EXCEPT ![new] = "launched"]
    BY DEF StartLaunch
  <1>5. \A r \in Recorders :
          recorder'[r] = IF r = new THEN "launched" ELSE recorder[r]
    BY <1>3, <1>4 DEF IInv, TypeOK
  <1>6. LiveRecorders' = LiveRecorders \cup {new}
    BY <1>3, <1>5 DEF LiveRecorders, Live, Alive, Recorders, Members
  <1>7. Listed' /\ Owned'
    BY <1>2, <1>3, <1>6 DEF IInv, Listed, Owned, Members
  <1>8. TypeOK'
    <2>1. recorder' \in [Recorders -> Alive \cup {"none", "gone", "kept"}]
      BY <1>3, <1>4 DEF IInv, TypeOK, Alive
    <2>2. next' \in Members
      BY <1>2, FleetAssumption DEF StartLaunch, Members
    <2> QED  BY <2>1, <2>2, <1>3 DEF IInv, TypeOK, StartLaunch, Recorders, Members
  <1>9. Housed'
    <2> SUFFICES ASSUME NEW r \in Recorders, recorder'[r] \in Alive
                 PROVE  r[2] \in up'
      BY DEF Housed, Live, Recorders, Members
    <2>1. CASE r = new
      BY <2>1 DEF StartLaunch
    <2>2. CASE r # new
      BY <2>2, <1>5 DEF StartLaunch, IInv, Housed, Live
    <2> QED  BY <2>1, <2>2
  <1>10. Unlaunched'
    <2> SUFFICES ASSUME NEW r \in Recorders,
                        \/ r[1] > session
                        \/ starter' = "launch" /\ r[1] = session /\ r[2] >= next'
                 PROVE  recorder'[r] = "none"
      BY <1>3 DEF Unlaunched, Recorders, Members
    <2>1. r[1] \in Nat /\ r[2] \in Nat /\ session \in Nat /\ next \in Nat
      BY <1>2, <1>3 DEF Recorders, Members
    <2>2. r # new /\ (r[1] > session \/ (r[1] = session /\ r[2] >= next))
      <3> r = new => r[1] = session /\ r[2] = next
        OBVIOUS
      <3>1. CASE r[1] > session
        BY <2>1, <3>1
      <3>2. CASE starter' = "launch" /\ r[1] = session /\ r[2] >= next'
        <4>1. next' = next + 1
          BY <3>2 DEF StartLaunch
        <4> QED  BY <2>1, <3>2, <4>1
      <3> QED  BY <3>1, <3>2
    <2>3. recorder[r] = "none"
      BY <2>2 DEF IInv, Unlaunched, StartLaunch
    <2> QED  BY <2>2, <2>3, <1>5
  <1>11. Starting'
    BY <1>1 DEF IInv, Starting, StartLaunch
  <1>12. StarterEffect
    BY <1>1, <1>2, <1>3, <1>6 DEF StarterEffect
  <1> QED  BY <1>7, <1>8, <1>9, <1>10, <1>11, <1>12 DEF IInv


LEMMA StarterQuietly ==
  ASSUME IInv,
         \/ StartResolve /\ UNCHANGED <<fileVars, dockerVars>>
         \/ StartLaunchFails /\ UNCHANGED <<fileVars, dockerVars>>
         \/ StartConfirm /\ UNCHANGED <<fileVars, dockerVars>>
         \/ AbortTimeOut /\ UNCHANGED <<fileVars, dockerVars>>,
         UNCHANGED <<stopperVars, stack>>
  PROVE  IInv' /\ StarterEffect
  <1> USE DEF fileVars, dockerVars, stopperVars, StartResolve,
              StartLaunchFails, StartConfirm, AbortTimeOut
  <1>1. LiveRecorders' = LiveRecorders
    BY DEF LiveRecorders, Live, Recorders, Members
  <1>2. starter' \in {"idle", "claim", "abort"}
    OBVIOUS
  <1>3. resolved' \in 0 .. Restarts /\ resolved' <= era /\ era \in Nat
    BY BoundsAssumption DEF IInv, TypeOK, Starting
  <1>4. TypeOK'
    BY <1>2, <1>3 DEF IInv, TypeOK, Recorders, Members
  <1>5. Listed' /\ Owned'
    BY <1>1 DEF IInv, Listed, Owned, Members
  <1>6. Housed'
    BY DEF IInv, Housed, Live, Recorders, Members
  <1>7. Unlaunched'
    BY <1>2 DEF IInv, Unlaunched, Recorders, Members
  <1>8. Starting'
    <2>1. starter' = "claim" => starter = "resolve"
      OBVIOUS
    <2> QED  BY <1>2, <1>3, <2>1 DEF IInv, Starting
  <1> QED  BY <1>1, <1>4, <1>5, <1>6, <1>7, <1>8 DEF IInv, StarterEffect

LEMMA AbortSignalKeeps ==
  ASSUME IInv, AbortSignal, UNCHANGED <<fileVars, stopperVars, stack>>
  PROVE  IInv' /\ StarterEffect
  <1> USE DEF fileVars, stopperVars, AbortSignal
  <1>1. Quieter
    <2>1. CASE exists
      BY <2>1, SignalQuiet DEF IInv
    <2>2. CASE ~exists
      BY <2>2 DEF IInv, TypeOK, Quieter, Live
    <2> QED  BY <2>1, <2>2
  <1>2. LiveRecorders' \subseteq LiveRecorders
    BY <1>1 DEF Quieter, LiveRecorders, Live, Recorders, Members
  <1>3. TypeOK' /\ Listed' /\ Owned'
    BY <1>1, <1>2 DEF IInv, TypeOK, Listed, Owned, Quieter, Recorders, Members
  <1>4. Housed'
    BY <1>1 DEF IInv, Housed, Quieter, Live, Recorders, Members
  <1>5. Unlaunched'
    BY <1>1 DEF IInv, Unlaunched, Quieter, Live, Alive, Recorders, Members
  <1>6. Starting'
    BY DEF IInv, Starting
  <1> QED  BY <1>2, <1>3, <1>4, <1>5, <1>6 DEF IInv, StarterEffect

(* A manifest that lists no recorder that lives may go. *)
LEMMA ReleaseKeeps ==
  ASSUME IInv, LiveRecorders = {}, exists' = FALSE, lines' = {},
         starter # "launch" \/ stack' = "down",
         starter' \in {starter, "idle"},
         stopper' \in {"idle", "wait", "finish"}, checked' = checked,
         stack' = stack \/ (stack = "stopping" /\ stack' = "down" /\ up = {}),
         UNCHANGED <<dockerVars, session, next, resolved>>
  PROVE  IInv' /\ LiveRecorders' = {}
  <1> USE DEF dockerVars
  <1>1. LiveRecorders' = {}
    BY DEF LiveRecorders, Live, Recorders, Members
  <1>2. TypeOK' /\ Listed' /\ Owned'
    BY <1>1 DEF IInv, TypeOK, Listed, Owned, Members, Recorders
  <1>3. Housed'
    BY DEF IInv, Housed, Live, Recorders, Members
  <1>4. Unlaunched'
    BY DEF IInv, Unlaunched, Recorders, Members
  <1>5. Starting'
    BY DEF IInv, Starting
  <1> QED  BY <1>1, <1>2, <1>3, <1>4, <1>5 DEF IInv

LEMMA AbortRemoveKeeps ==
  ASSUME IInv, AbortRemove, UNCHANGED <<dockerVars, stopperVars, stack>>
  PROVE  IInv' /\ StarterEffect
  <1>1. exists /\ LiveRecorders = {}
    BY DEF AbortRemove, NoneRuns, IInv, Owned, LiveRecorders
  <1>2. /\ starter # "launch" /\ starter' = "idle"
        /\ exists' = FALSE /\ lines' = {}
        /\ stopper' \in {"idle", "wait", "finish"}
        /\ UNCHANGED <<session, next, resolved, checked, stack>>
    BY DEF AbortRemove, stopperVars, IInv, TypeOK
  <1>3. IInv' /\ LiveRecorders' = {}
    BY <1>1, <1>2, ReleaseKeeps
  <1> QED  BY <1>1, <1>2, <1>3 DEF StarterEffect

LEMMA StarterKeeps ==
  ASSUME IInv, StarterStep, UNCHANGED <<stopperVars, stack>>
  PROVE  IInv' /\ StarterEffect
  BY StartClaimKeeps, StartLaunchKeeps, StarterQuietly, AbortSignalKeeps,
     AbortRemoveKeeps
  DEF StarterStep

-----------------------------------------------------------------------------
(* A step of `record stop`, or of a shell that stops or starts the stack:  *)
(* none launches a recorder, and a manifest goes when no recorder lives.   *)
OtherEffect ==
  /\ session' = session
  /\ LiveRecorders' \subseteq LiveRecorders
  /\ \/ exists' = exists
     \/ exists /\ ~exists' /\ LiveRecorders = {}

LEMMA StopSignalKeeps ==
  ASSUME IInv, StopSignal, UNCHANGED <<starterVars, stack>>
  PROVE  IInv' /\ OtherEffect
  <1> USE DEF StopSignal, starterVars, fileVars
  <1>1. Quieter
    BY SignalQuiet DEF IInv
  <1>2. Owned' /\ Unlaunched' /\ LiveRecorders' \subseteq LiveRecorders
    BY <1>1, QuieterKeeps
  <1>3. TypeOK' /\ Listed'
    BY <1>1 DEF IInv, TypeOK, Listed, Quieter, Recorders, Members
  <1>4. Housed'
    BY <1>1 DEF IInv, Housed, Quieter, Live, Recorders, Members
  <1>5. Starting'
    BY DEF IInv, Starting
  <1> QED  BY <1>2, <1>3, <1>4, <1>5 DEF IInv, OtherEffect

(* What is still to be launched has no bag. *)
LEMMA StopDoneKeeps ==
  ASSUME IInv, StopDone, UNCHANGED <<starterVars, stack>>
  PROVE  /\ IInv' /\ OtherEffect
         /\ \A m \in Members : recorder[<<session, m>>] = "kept"
         /\ session \in 1 .. Sessions
  <1> USE DEF StopDone
  <1>1. exists /\ lines = {session} \X Members
    BY DEF IInv, Listed
  <1>2. \A m \in Members : <<session, m>> \in lines
    BY <1>1
  <1>3. \A m \in Members : recorder[<<session, m>>] = "kept"
    BY <1>2
  <1>4. next \in Members /\ <<session, next>> \in Recorders
    BY <1>2 DEF IInv, TypeOK
  <1>5. session \in 1 .. Sessions
    BY <1>4 DEF Recorders
  <1>6. starter # "launch"
    <2> SUFFICES ASSUME starter = "launch"  PROVE FALSE
      OBVIOUS
    <2>1. next \in Nat
      BY <1>4 DEF Members
    <2>2. recorder[<<session, next>>] = "none"
      BY <1>4, <2>1 DEF IInv, Unlaunched
    <2> QED  BY <1>3, <1>4, <2>2
  <1>7. LiveRecorders = {}
    BY DEF IInv, Owned, LiveRecorders, Live, Alive
  <1>8. /\ starter' = starter /\ stopper' = "idle"
        /\ exists' = FALSE /\ lines' = {}
        /\ UNCHANGED <<dockerVars, session, next, resolved, checked, stack>>
    BY DEF starterVars
  <1>9. IInv' /\ LiveRecorders' = {}
    BY <1>6, <1>7, <1>8, ReleaseKeeps
  <1> QED  BY <1>1, <1>3, <1>5, <1>7, <1>8, <1>9 DEF OtherEffect

LEMMA StopperKeeps ==
  ASSUME IInv, StopperStep, UNCHANGED <<starterVars, stack>>
  PROVE  IInv' /\ OtherEffect
  <1>1. CASE StopDone
    BY <1>1, StopDoneKeeps
  <1>2. CASE StopCheck \/ StopAgain \/ StopStopped \/ StopTimeOut \/ StopIncomplete
    <2> USE <1>2 DEF StopCheck, StopAgain, StopStopped, StopTimeOut,
                     StopIncomplete, fileVars, dockerVars, starterVars
    <2>1. LiveRecorders' = LiveRecorders
      BY DEF LiveRecorders, Live, Recorders, Members
    <2>2. TypeOK'
      BY DEF IInv, TypeOK, Members, Recorders
    <2>6. Listed' /\ Owned'
      BY <2>1 DEF IInv, Listed, Owned, Members
    <2>3. Housed'
      BY DEF IInv, Housed, Live, Recorders, Members
    <2>4. Unlaunched'
      BY DEF IInv, Unlaunched, Recorders, Members
    <2>5. Starting'
      BY DEF IInv, Starting
    <2> QED  BY <2>1, <2>2, <2>3, <2>4, <2>5, <2>6 DEF IInv, OtherEffect
  <1> QED  BY <1>1, <1>2 DEF StopperStep


LEMMA StackKeeps ==
  ASSUME IInv, StackStep, UNCHANGED <<starterVars, stopperVars>>
  PROVE  IInv' /\ OtherEffect
  <1> USE DEF starterVars, stopperVars, fileVars
  <1>1. CASE StackStop
    <2> USE <1>1 DEF StackStop, dockerVars
    <2>1. LiveRecorders' = LiveRecorders
      BY DEF LiveRecorders, Live, Recorders, Members
    <2>2. TypeOK'
      BY DEF IInv, TypeOK, Members, Recorders
    <2>3. Listed' /\ Owned'
      BY <2>1 DEF IInv, Listed, Owned, Members
    <2>4. Housed' /\ Unlaunched'
      BY DEF IInv, Housed, Unlaunched, Live, Recorders, Members
    <2>5. Starting'
      BY DEF IInv, Starting
    <2> QED  BY <2>1, <2>2, <2>3, <2>4, <2>5 DEF IInv, OtherEffect
  <1>2. ASSUME NEW m \in Members, StackDown(m)
        PROVE  IInv' /\ OtherEffect
    <2> USE <1>2 DEF StackDown
    <2>1. Quieter
      BY KilledQuiet DEF IInv
    <2>2. Owned' /\ Unlaunched' /\ LiveRecorders' \subseteq LiveRecorders
      BY <2>1, QuieterKeeps
    <2>3. TypeOK' /\ Listed'
      BY <2>1 DEF IInv, TypeOK, Listed, Quieter, Recorders, Members
    <2>4. Housed'
      <3> SUFFICES ASSUME NEW r \in Recorders, recorder'[r] \in Alive
                   PROVE  r[2] \in up'
        BY DEF Housed, Live, Recorders, Members
      <3>1. recorder'[r] = IF r[2] = m /\ Live(r) THEN "gone" ELSE recorder[r]
        BY DEF Killed
      <3>2. Live(r) /\ r[2] # m
        BY <3>1 DEF Live, Alive
      <3> QED  BY <3>2 DEF IInv, Housed
    <2>5. Starting'
      BY DEF IInv, Starting
    <2> QED  BY <2>2, <2>3, <2>4, <2>5 DEF IInv, OtherEffect
  <1>3. CASE StackClear
    <2> USE <1>3 DEF StackClear
    <2>1. LiveRecorders = {}
      BY DEF LiveRecorders, IInv, Housed
    <2>2. IInv' /\ LiveRecorders' = {}
      <3>1. stopper' \in {"idle", "wait", "finish"} /\ starter' = starter
        BY DEF IInv, TypeOK
      <3> QED  BY <2>1, <3>1, ReleaseKeeps DEF dockerVars
    <2>3. exists \in BOOLEAN
      BY DEF IInv, TypeOK
    <2> QED  BY <2>1, <2>2, <2>3 DEF OtherEffect
  <1>4. CASE StackStart
    <2> USE <1>4 DEF StackStart
    <2>1. LiveRecorders' = LiveRecorders
      BY DEF LiveRecorders, Live, Recorders, Members
    <2>2. era \in Nat /\ era' \in Nat /\ era <= era'
          /\ (stack = "down" => era < era')
      BY BoundsAssumption DEF IInv, TypeOK
    <2>3. era' \in 0 .. Restarts
      BY BoundsAssumption DEF IInv, TypeOK, Starting
    <2>4. TypeOK'
      BY <2>3 DEF IInv, TypeOK, Members, Recorders
    <2>5. Listed' /\ Owned'
      BY <2>1 DEF IInv, Listed, Owned, Members
    <2>6. Housed' /\ Unlaunched'
      BY DEF IInv, Housed, Unlaunched, Live, Recorders, Members
    <2>7. Starting'
      <3>1. resolved \in Nat
        BY BoundsAssumption DEF IInv, TypeOK
      <3> QED  BY <2>2, <3>1 DEF IInv, Starting
    <2> QED  BY <2>1, <2>4, <2>5, <2>6, <2>7 DEF IInv, OtherEffect
  <1> QED  BY <1>1, <1>2, <1>3, <1>4 DEF StackStep


-----------------------------------------------------------------------------
(* What every step does: the invariant stays, and the promise is kept.     *)
StepEffect == StarterEffect \/ OtherEffect

LEMMA InitHolds == Init => IInv
  <1> SUFFICES ASSUME Init  PROVE IInv
    OBVIOUS
  <1> USE DEF Init
  <1>1. LiveRecorders = {}
    BY DEF LiveRecorders, Live, Alive
  <1>2. 1 \in Members
    BY FleetAssumption DEF Members
  <1>6. recorder \in [Recorders -> Alive \cup {"none", "gone", "kept"}]
    OBVIOUS
  <1>7. TypeOK
    <2>1. /\ era \in 0 .. Restarts /\ crashes \in 0 .. Crashes
          /\ session \in 0 .. Sessions /\ resolved \in 0 .. Restarts
      BY BoundsAssumption
    <2>2. /\ exists \in BOOLEAN /\ lines \subseteq Recorders
          /\ up \subseteq Members /\ checked \subseteq Recorders
      OBVIOUS
    <2> QED  BY <1>2, <1>6, <2>1, <2>2 DEF TypeOK
  <1>3. Listed /\ Owned
    BY <1>1 DEF Listed, Owned
  <1>4. Housed /\ Unlaunched
    BY DEF Housed, Unlaunched, Live, Alive
  <1>5. Starting
    BY DEF Starting
  <1> QED  BY <1>3, <1>4, <1>5, <1>7 DEF IInv

LEMMA StutterHolds == IInv /\ UNCHANGED vars => IInv' /\ OtherEffect
  <1> SUFFICES ASSUME IInv, UNCHANGED vars  PROVE IInv' /\ OtherEffect
    OBVIOUS
  <1> USE DEF vars, fileVars, dockerVars, starterVars, stopperVars
  <1>1. LiveRecorders' = LiveRecorders
    BY DEF LiveRecorders, Live, Recorders, Members
  <1>2. TypeOK'
    BY DEF IInv, TypeOK, Members, Recorders
  <1>3. Listed' /\ Owned'
    BY <1>1 DEF IInv, Listed, Owned, Members
  <1>4. Housed' /\ Unlaunched' /\ Starting'
    BY DEF IInv, Housed, Unlaunched, Starting, Live, Recorders, Members
  <1> QED  BY <1>1, <1>2, <1>3, <1>4 DEF IInv, OtherEffect

LEMMA StepHolds == IInv /\ [Next]_vars => IInv' /\ StepEffect
  <1> SUFFICES ASSUME IInv, [Next]_vars  PROVE IInv' /\ StepEffect
    OBVIOUS
  <1>1. CASE Docker /\ UNCHANGED <<fileVars, starterVars, stopperVars, stack>>
    <2>1. IInv' /\ LiveRecorders' \subseteq LiveRecorders
      BY <1>1, DockerKeeps
    <2> QED  BY <1>1, <2>1 DEF StepEffect, OtherEffect, fileVars, starterVars
  <1>2. CASE StartCheck /\ UNCHANGED <<fileVars, dockerVars, stopperVars, stack>>
    BY <1>2, StartCheckKeeps DEF StepEffect
  <1>3. CASE StarterStep /\ UNCHANGED <<stopperVars, stack>>
    BY <1>3, StarterKeeps DEF StepEffect
  <1>4. CASE StopSignal /\ UNCHANGED <<starterVars, stack>>
    BY <1>4, StopSignalKeeps DEF StepEffect
  <1>5. CASE StopperStep /\ UNCHANGED <<starterVars, stack>>
    BY <1>5, StopperKeeps DEF StepEffect
  <1>6. CASE StackStep /\ UNCHANGED <<starterVars, stopperVars>>
    BY <1>6, StackKeeps DEF StepEffect
  <1>7. CASE UNCHANGED vars
    BY <1>7, StutterHolds DEF StepEffect
  <1> QED  BY <1>1, <1>2, <1>3, <1>4, <1>5, <1>6, <1>7 DEF Next

LEMMA Invariance == Spec => []IInv
  <1>1. IInv /\ [Next]_vars => IInv'
    BY StepHolds
  <1> QED  BY InitHolds, <1>1, PTL DEF Spec

(* Every state reached has its type, for any fleet.                        *)
THEOREM TypeCorrect == Spec => []TypeOK
  BY Invariance, PTL DEF IInv

(* px4sim's record arm: no recorder ever lives that the manifest does not  *)
(* list, so `record stop` and a start that is given up reach every one.    *)
THEOREM RecordersOwned == Spec => []Owned
  BY Invariance, PTL DEF IInv

-----------------------------------------------------------------------------
(* When `record stop` removes the manifest, every member has a bag.        *)
LEMMA StopStep ==
  ASSUME IInv, [Next]_vars,
         stopper = "finish", exists, ~exists', stack = stack', starter = starter'
  PROVE  \E s \in 1 .. Sessions : \A m \in Members : recorder[<<s, m>>] = "kept"
  <1>1. CASE StopDone /\ UNCHANGED <<starterVars, stack>>
    BY <1>1, StopDoneKeeps
  <1>2. CASE Docker /\ UNCHANGED <<fileVars, starterVars, stopperVars, stack>>
    BY <1>2 DEF fileVars
  <1>3. CASE StartCheck /\ UNCHANGED <<fileVars, dockerVars, stopperVars, stack>>
    BY <1>3 DEF fileVars
  <1>4. CASE StarterStep /\ UNCHANGED <<stopperVars, stack>>
    BY <1>4 DEF StarterStep, StartResolve, StartClaim, StartLaunch, AbortRemove,
       StartLaunchFails, StartConfirm, AbortSignal, AbortTimeOut, fileVars
  <1>5. CASE StopSignal
    BY <1>5 DEF StopSignal, fileVars
  <1>6. CASE StopCheck \/ StopAgain \/ StopStopped \/ StopTimeOut \/ StopIncomplete
    BY <1>6 DEF StopCheck, StopAgain, StopStopped, StopTimeOut, StopIncomplete,
       fileVars
  <1>7. CASE StackStep
    BY <1>7 DEF StackStep, StackStop, StackDown, StackClear, StackStart, fileVars
  <1>8. CASE UNCHANGED vars
    BY <1>8 DEF vars, fileVars
  <1> QED  BY <1>1, <1>2, <1>3, <1>4, <1>5, <1>6, <1>7, <1>8
           DEF Next, StopperStep

(* px4sim:1586, "A partial fleet is not a useful flight record": a stop    *)
(* that succeeds leaves a finished bag of every vehicle and of the ground  *)
(* station, whatever ended in between.                                     *)
THEOREM StopsComplete == Spec => StopIsComplete
  <1>1. IInv /\ [Next]_vars =>
          (stopper = "finish" /\ exists /\ ~exists' /\ stack = stack' /\ starter = starter'
             => \E s \in 1 .. Sessions : \A m \in Members : recorder[<<s, m>>] = "kept")
    BY StopStep
  <1> QED  BY <1>1, Invariance, PTL DEF Spec, StopIsComplete

-----------------------------------------------------------------------------
(* The refinement: each step is one of the promise's, or none of its       *)
(* business.                                                               *)
LEMMA PromiseStarts == Init => Promise!Init
  BY DEF Init, Promise!Init, LiveRecorders, Live, Alive

LEMMA PromiseStep ==
  ASSUME IInv, StepEffect, IInv'
  PROVE  Promise!Next \/ UNCHANGED <<IF exists THEN session ELSE 0, LiveRecorders>>
  <1> USE DEF Promise!Next, Promise!Claim, Promise!Launch, Promise!End,
              Promise!Release
  <1>1. /\ exists => session \in 1 .. Sessions
        /\ exists' => session' \in 1 .. Sessions
        /\ session \in Nat /\ Sessions \in Nat
    <2>1. 1 \in Members
      BY FleetAssumption DEF Members
    <2>2. exists => <<session, 1>> \in Recorders
      BY <2>1 DEF IInv, TypeOK, Listed
    <2>3. exists' => <<session', 1>> \in Recorders
      BY <2>1 DEF IInv, TypeOK, Listed, Members, Recorders
    <2> QED  BY <2>2, <2>3, BoundsAssumption DEF Recorders, IInv, TypeOK
  <1>2. CASE ~exists /\ exists' /\ session' = session + 1
             /\ LiveRecorders' = LiveRecorders
    BY <1>1, <1>2
  <1>3. CASE /\ exists /\ exists' /\ session' = session
             /\ \E m \in Members : LiveRecorders' = LiveRecorders \cup {<<session, m>>}
    BY <1>1, <1>3
  <1>4. CASE exists' = exists /\ session' = session
             /\ LiveRecorders' \subseteq LiveRecorders
    BY <1>4
  <1>5. CASE exists /\ ~exists' /\ LiveRecorders = {}
             /\ LiveRecorders' \subseteq LiveRecorders
    BY <1>5
  <1> QED  BY <1>2, <1>3, <1>4, <1>5 DEF StepEffect, StarterEffect, OtherEffect

(* The recording commands implement RecordingSession: one session owned at *)
(* a time, recorders only of that session, and no session let go while one *)
(* of its recorders lives.                                                 *)
THEOREM Refinement == Spec => KeepsPromise
  <1>1. IInv /\ [Next]_vars =>
          Promise!Next \/ UNCHANGED <<IF exists THEN session ELSE 0, LiveRecorders>>
    BY StepHolds, PromiseStep
  <1> QED  BY <1>1, PromiseStarts, Invariance, PTL DEF Spec, KeepsPromise, Promise!Spec


=============================================================================
