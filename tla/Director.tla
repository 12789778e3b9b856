------------------------------ MODULE Director ------------------------------
(***************************************************************************)
(* The control plane's clockwork (apps/feed-server/src/server.ts,          *)
(* controlDeps.scenario and controlDeps.disconnect): a scenario is a       *)
(* timeline of control commands on one-shot timers, replaced by the next   *)
(* scenario; a disconnect is a timer of its own; everything else a command *)
(* does, it does at once.  The timeline is the one of                      *)
(* packages/domain/src/scenarios.ts.                                       *)
(*                                                                         *)
(* A timer is the milliseconds it still has to wait.  Steps of one play    *)
(* fire in the order of the timeline; a disconnect and a step that are     *)
(* both due may fire in either order.  The clock moves only to the next    *)
(* moment at which something falls due, and the loop may be late.          *)
(***************************************************************************)
EXTENDS Integers, Sequences, FiniteSets

CONSTANTS
  Speeds,      \* the speeds a scenario is played at
  HandCommands,  \* commands given by hand: <<action, value>>
  AfterMs,     \* delays of a disconnect asked for by hand
  MaxLate,     \* bound: overdue timers the loop may go on sleeping over
  MaxPlays,    \* bound: scenarios started
  MaxByHand    \* bound: commands given by hand

ASSUME DirectorAssumption ==
  /\ Speeds \subseteq Nat \ {0}
  /\ AfterMs \subseteq Nat
  /\ {MaxLate, MaxPlays, MaxByHand} \subseteq Nat
  /\ HandCommands \subseteq ({"rate"} \X Nat) \cup ({"mode"} \X BOOLEAN)
                        \cup ({"lastlook"} \X (Nat \X Nat)) \cup ({"freeze", "news"} \X STRING)

VARIABLES
  play,      \* scenarioPlay: [id, applied], id 0 before the first
  timers,    \* timers set: [left, step (or the disconnect), of the play]
  posture,   \* what the commands have set the world to
  issued,    \* the last command and the play it came from, 0 by hand
  byHand     \* commands given by hand, in all and since the play began

directorVars == <<play, timers, posture, issued, byHand>>

-----------------------------------------------------------------------------
(* The timeline *)

Step(atMs, action, value) == [atMs |-> atMs, action |-> action, value |-> value]

DEMO_5MIN ==
  << Step(0, "rate", 300), Step(0, "mode", TRUE), Step(0, "lastlook", <<40, 0>>),
     Step(30000, "rate", 50000),
     Step(90000, "mode", FALSE), Step(110000, "mode", TRUE),
     Step(120000, "disconnect", "crash"),
     Step(140000, "rate", 2000),
     Step(195000, "freeze", "USDJPY"), Step(225000, "news", "GBPUSD"),
     Step(240000, "lastlook", <<80, 30>>) >>

Steps == DOMAIN DEMO_5MIN

\* Math.round(atMs / speed); a timer of 0 ms waits 1 like any other.
Delay(atMs, speed) ==
  LET rounded == (2 * atMs + speed) \div (2 * speed)
  IN IF rounded = 0 THEN 1 ELSE rounded

-----------------------------------------------------------------------------
(* Commands *)

Knobs == {"rate", "mode", "lastlook"}

\* What one command does at once: the knobs are set; freeze and news are the
\* market's to play out; a disconnect sets a timer.
Command(action, value, of) ==
  /\ issued' = [action |-> action, of |-> of]
  /\ posture' = IF action \in Knobs THEN [posture EXCEPT ![action] = value] ELSE posture

Timer(left, step, of) == [left |-> left, step |-> step, of |-> of]

\* 0 in place of the step: the sockets' ending itself.
TheDisconnect == 0

\* The timers of the scenario's steps: all but those of the disconnects.
ScenarioTimers == {t \in timers : t.step # TheDisconnect}
StepTimers(speed, id) ==
  {Timer(Delay(DEMO_5MIN[i].atMs, speed), i, id) : i \in Steps}

Overdue == {t \in timers : t.left = 0}

\* Mutant: the timers of the scenario before stay.
ScenarioBeside(speed) ==
  /\ play' = [id |-> play.id + 1, applied |-> 0]
  /\ timers' = timers \cup StepTimers(speed, play.id + 1)
  /\ byHand' = [byHand EXCEPT !.since = 0]
  /\ UNCHANGED <<posture, issued>>

\* One director at a time: the steps still pending are cancelled.
Scenario(speed) ==
  /\ play' = [id |-> play.id + 1, applied |-> 0]
  /\ timers' = (timers \ ScenarioTimers) \cup StepTimers(speed, play.id + 1)
  /\ byHand' = [byHand EXCEPT !.since = 0]
  /\ UNCHANGED <<posture, issued>>

-----------------------------------------------------------------------------
(* Actions *)

StartScenario ==
  /\ play.id < MaxPlays
  /\ \E speed \in Speeds : Scenario(speed)

ByHand ==
  /\ byHand.all < MaxByHand
  /\ byHand' = [all |-> byHand.all + 1, since |-> byHand.since + 1]
  /\ \/ /\ \E c \in HandCommands : Command(c[1], c[2], 0)
        /\ UNCHANGED timers
     \/ \E afterMs \in AfterMs :
          /\ timers' = timers \cup {Timer(Delay(afterMs, 1), TheDisconnect, 0)}
          /\ UNCHANGED <<posture, issued>>
  /\ UNCHANGED play

\* Mutant: the timers of one play fire in any order.
StepFiresAnyhow(t) ==
  /\ t.step # TheDisconnect
  /\ t.left = 0
  /\ timers' = timers \ {t}
  /\ Command(DEMO_5MIN[t.step].action, DEMO_5MIN[t.step].value, t.of)
  /\ play' = IF t.of = play.id THEN [play EXCEPT !.applied = @ + 1] ELSE play
  /\ UNCHANGED byHand

\* Mutant: a step that sets a timer of its own is not counted.
StepFiresUncounted(t) ==
  /\ t.step # TheDisconnect
  /\ t.left = 0
  /\ \A s \in Overdue \cap ScenarioTimers : t.step <= s.step
  /\ IF DEMO_5MIN[t.step].action = "disconnect"
     THEN /\ timers' = (timers \ {t}) \cup {Timer(Delay(0, 1), TheDisconnect, t.of)}
          /\ UNCHANGED <<posture, issued, play>>
     ELSE /\ timers' = timers \ {t}
          /\ Command(DEMO_5MIN[t.step].action, DEMO_5MIN[t.step].value, t.of)
          /\ play' = [play EXCEPT !.applied = @ + 1]
  /\ UNCHANGED byHand

\* A step's timer: the command, then its play's own record.
StepFires(t) ==
  /\ t.step # TheDisconnect
  /\ t.left = 0
  /\ \A s \in Overdue \cap ScenarioTimers : t.step <= s.step
  /\ LET step == DEMO_5MIN[t.step]
     IN IF step.action = "disconnect"
        THEN /\ timers' = (timers \ {t}) \cup {Timer(Delay(0, 1), TheDisconnect, t.of)}
             /\ UNCHANGED <<posture, issued>>
        ELSE /\ timers' = timers \ {t}
             /\ Command(step.action, step.value, t.of)
  /\ play' = IF t.of = play.id THEN [play EXCEPT !.applied = @ + 1] ELSE play
  /\ UNCHANGED byHand

\* The sockets are ended (HotPlane and WarmPlane say what that does to them).
DisconnectFires(t) ==
  /\ t.step = TheDisconnect
  /\ t.left = 0
  /\ timers' = timers \ {t}
  /\ Command("disconnect", "crash", t.of)
  /\ UNCHANGED <<play, byHand>>

\* Time passes until the next timer falls due.
Wait ==
  /\ Cardinality(Overdue) <= MaxLate
  /\ \E t \in timers \ Overdue :
       /\ \A s \in timers \ Overdue : t.left <= s.left
       /\ timers' = {[s EXCEPT !.left = IF s.left < t.left THEN 0 ELSE s.left - t.left] :
                       s \in timers}
  /\ UNCHANGED <<play, posture, issued, byHand>>

DirectorInit ==
  /\ play = [id |-> 0, applied |-> 0]
  /\ timers = {}
  /\ posture = [rate |-> 300, mode |-> TRUE, lastlook |-> <<40, 0>>]
  /\ issued = [action |-> "none", of |-> 0]
  /\ byHand = [all |-> 0, since |-> 0]

DirectorNext ==
  \/ StartScenario
  \/ ByHand
  \/ \E t \in timers : StepFires(t) \/ DisconnectFires(t)
  \/ Wait

DirectorSpec == DirectorInit /\ [][DirectorNext]_directorVars

\* The event loop runs its timers.
FairDirectorSpec ==
  /\ DirectorSpec
  /\ WF_directorVars(\E t \in timers : StepFires(t) \/ DisconnectFires(t))
  /\ WF_directorVars(Wait)
-----------------------------------------------------------------------------
(* Properties *)

DirectorTypeOK ==
  /\ play \in [id : 0..MaxPlays, applied : 0..Len(DEMO_5MIN)]
  /\ timers \subseteq [left : Nat, step : Steps \cup {TheDisconnect}, of : 0..MaxPlays]
  /\ posture \in [rate : Nat, mode : BOOLEAN, lastlook : Nat \X Nat]
  /\ issued.of \in 0..MaxPlays
  /\ byHand \in [all : 0..MaxByHand, since : 0..MaxByHand]

\* One director at a time (server.ts, scenario): every step still to come is
\* of the current play, and with those applied they make up the timeline.
OneDirector ==
  /\ \A t \in ScenarioTimers : t.of = play.id
  /\ play.id > 0 => play.applied + Cardinality(ScenarioTimers) = Len(DEMO_5MIN)

\* The start of the director's inductive invariant.
DirectorInv == DirectorTypeOK /\ OneDirector

\* "plays identically every time" (scenarios.ts:4): a play that nobody
\* interferes with stands, after each step, where the timeline puts it,
\* whatever the plays and commands before it left, at any speed and however
\* late the loop runs.
LastStep(action) ==
  LET done == {i \in 1..play.applied : DEMO_5MIN[i].action = action}
  IN CHOOSE i \in done : \A j \in done : j <= i
PlayedAsWritten ==
  play.applied >= 3 /\ byHand.since = 0 =>
    \A knob \in Knobs : posture[knob] = DEMO_5MIN[LastStep(knob)].value

\* A play that is not replaced comes to its end.
PlayEnds ==
  \A id \in 1..MaxPlays :
    play.id = id ~> play.id # id \/ play.applied = Len(DEMO_5MIN)

\* server.ts:429, "a replay never inherits stray commands": what is done is done
\* by hand or by the current play, save the sockets that a step of the replaced
\* play was already ending (pendingDisconnects are not cleared).
OnlyDisconnectsStray ==
  [][issued' # issued =>
       issued'.of \in {0, play'.id} \/ issued'.action = "disconnect"]_directorVars
=============================================================================
