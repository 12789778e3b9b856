----------------------------- MODULE LoadSeries -----------------------------
(***************************************************************************)
(* The load chart's arithmetic (apps/web/src/perf/series.ts): polls of the *)
(* server's cumulative counters become rates on the server's own clock.    *)
(* sent stands for the three counters that are differentiated alike; life, *)
(* the process a poll was answered by, and reseeds, those it had had, are  *)
(* not on the wire.                                                        *)
(***************************************************************************)
EXTENDS Integers

LoadSnapshot == [uptime : Nat, sent : Nat, life : Nat, reseeds : Nat]
NoSnapshot == [uptime |-> -1, sent |-> 0, life |-> 0, reseeds |-> 0]

\* Mutant: a new process is told by its clock alone.
ReseedsOnClock(last, snapshot) == last = NoSnapshot \/ snapshot.uptime <= last.uptime

\* The first poll, a clock that stood still or ran back, a counter that shrank: no
\* rate, only a new previous.
Reseeds(last, snapshot) ==
  \/ last = NoSnapshot
  \/ snapshot.uptime <= last.uptime
  \/ snapshot.sent < last.sent

\* A sample before its division: what was sent, over which time.
Sample(last, snapshot) ==
  [records |-> snapshot.sent - last.sent,
   dt |-> snapshot.uptime - last.uptime,
   oneLife |-> snapshot.life = last.life,
   reseeds |-> snapshot.reseeds - last.reseeds]
=============================================================================
