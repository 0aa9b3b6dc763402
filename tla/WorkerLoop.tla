----------------------------- MODULE WorkerLoop -----------------------------
(***************************************************************************)
(* The worker process around the ticks: minute and horizon ticks in turn,  *)
(* backoff after failures, the watchdog that ends a stalled process, and   *)
(* the shutdown that lets the tick under way finish.                       *)
(*                                                                         *)
(* Time is counted in intervals of the loop (30 s as configured).  A wait  *)
(* ends on time and a tick takes at most TickMax; the rest of a process's  *)
(* steps take none.                                                        *)
(***************************************************************************)
EXTENDS Integers, FiniteSetsExt

CONSTANTS TickMax,      \* a tick, in intervals
          MaxBackoff,   \* two minutes
          StaleAfter,   \* WORKER_STALE_AFTER_MS
          DrainMax,     \* how long a stopping process is let be
          DayLength,    \* a horizon window
          LastMoment    \* bound of the clock

ASSUME LoopAssumption ==
  /\ {TickMax, MaxBackoff, StaleAfter, DrainMax, DayLength, LastMoment} \subseteq Nat \ {0}
  /\ TickMax < DrainMax

VARIABLES clock, proc,
          signal,     \* SIGTERM has been received
          began,      \* windows in which a horizon tick that succeeded began
          exit        \* how the process ended, "none" while it lives

loopVars == <<clock, proc, signal, began, exit>>

Never == -1
Mode == {"minute", "horizon"}

LoopTypeOK ==
  /\ clock \in 0..LastMoment
  /\ proc \in [pc : {"cycle", "tick", "wait", "over"}, mode : Mode,
               started : 0..LastMoment,    \* lastStartedAt
               cycle : 0..LastMoment, wake : 0..(LastMoment + MaxBackoff),
               success : Never..LastMoment, day : Never..LastMoment,
               doing : Never..LastMoment, failures : 0..5]
  /\ signal \in BOOLEAN /\ began \in SUBSET (0..LastMoment)
  /\ exit \in {"none", "done", "stalled", "cut"}

LoopInit ==
  /\ clock = 0
  /\ proc = [pc |-> "cycle", mode |-> "minute", started |-> 0, cycle |-> 0, wake |-> 0,
             success |-> Never, day |-> Never, doing |-> Never, failures |-> 0]
  /\ signal = FALSE /\ began = {} /\ exit = "none"

\* horizonWindow
WindowAt(time) == time \div DayLength

\* workerHealth.stale
Stale == clock - (IF proc.success = Never THEN 0 ELSE proc.success) >= StaleAfter

Backoff(failures) == Min({MaxBackoff, 2 ^ Min({failures, 4})})

\* Failures count without end; five are as good as more.
Failed == Min({5, proc.failures + 1})

\* The end of a cycle: wait, or leave the loop.
EndCycle(failures, success, planned) ==
  LET rest == Max({0, 1 - (clock - proc.cycle)}) IN
  proc' = [proc EXCEPT !.pc = IF signal THEN "over" ELSE "wait",
             !.failures = failures, !.success = success, !.day = planned,
             !.mode = "minute", !.wake = clock + IF failures > 0 THEN Backoff(failures) ELSE rest]

BeginTick(mode) ==
  proc' = [proc EXCEPT !.pc = "tick", !.mode = mode, !.started = clock,
             !.cycle = IF mode = "minute" THEN clock ELSE @, !.doing = WindowAt(clock)]

----------------------------------------------------------------------------
\* for (mode of ["minute", "horizon"]) with both of its conditions.
MayTick == ~signal

StartTick ==
  /\ exit = "none" /\ proc.pc = "cycle"
  /\ MayTick
  /\ proc.mode = "horizon" => proc.day # WindowAt(clock)
  /\ BeginTick(proc.mode)
  /\ UNCHANGED <<clock, signal, began, exit>>

\* No horizon tick is due, or the signal has come: the cycle has succeeded.
EndLoop ==
  /\ exit = "none" /\ proc.pc = "cycle"
  /\ ~MayTick \/ (proc.mode = "horizon" /\ proc.day = WindowAt(clock))
  /\ EndCycle(0, proc.success, proc.day)
  /\ UNCHANGED <<clock, signal, began, exit>>

\* Mutation of DayDone: the window is taken when the tick has ended.
DayNow == WindowAt(clock)

\* lastHorizonWindow is the window the tick began in.
DayDone == proc.doing

TickSucceeds ==
  /\ exit = "none" /\ proc.pc = "tick"
  /\ \/ /\ proc.mode = "minute"
        /\ proc' = [proc EXCEPT !.pc = "cycle", !.mode = "horizon", !.success = clock]
        /\ UNCHANGED began
     \/ /\ proc.mode = "horizon"
        /\ EndCycle(0, clock, DayDone)
        /\ began' = began \cup {proc.doing}
  /\ UNCHANGED <<clock, signal, exit>>

TickFails ==
  /\ exit = "none" /\ proc.pc = "tick"
  /\ EndCycle(Failed, proc.success, proc.day)
  /\ UNCHANGED <<clock, signal, began, exit>>

\* The wait is over, or the signal ends it.
Wake ==
  /\ exit = "none" /\ proc.pc = "wait"
  /\ signal \/ clock >= proc.wake
  /\ proc' = [proc EXCEPT !.pc = IF signal THEN "over" ELSE "cycle", !.mode = "minute",
                          !.cycle = clock]
  /\ UNCHANGED <<clock, signal, began, exit>>

Exit == exit = "none" /\ proc.pc = "over" /\ exit' = "done"
         /\ UNCHANGED <<clock, proc, signal, began>>

\* SIGTERM or SIGINT.
Stop == exit = "none" /\ ~signal /\ signal' = TRUE
        /\ UNCHANGED <<clock, proc, began, exit>>

\* The watchdog looks every ten seconds.
Watchdog == exit = "none" /\ ~signal /\ Stale /\ exit' = "stalled"
            /\ UNCHANGED <<clock, proc, signal, began>>

\* The platform may cut the draining short, and the process itself does in the
\* end: the tick under way is lost.
Cut == exit = "none" /\ signal /\ proc.pc = "tick" /\ exit' = "cut"
       /\ UNCHANGED <<clock, proc, signal, began>>

Elapse ==
  /\ exit = "none" /\ clock < LastMoment
  /\ \/ proc.pc = "wait" /\ ~signal /\ clock < proc.wake
     \/ proc.pc = "tick" /\ clock < proc.started + TickMax
  /\ signal \/ ~Stale
  /\ clock' = clock + 1
  /\ UNCHANGED <<proc, signal, began, exit>>

LoopNext ==
  StartTick \/ EndLoop \/ TickSucceeds \/ TickFails \/ Wake \/ Exit \/ Stop
    \/ Watchdog \/ Cut \/ Elapse

LoopSpec == LoopInit /\ [][LoopNext]_loopVars

----------------------------------------------------------------------------
\* A day that counts as planned was planned by a tick that began in it: a
\* horizon tick that lasts past 05:00 leaves the new day to do.
DayWasPlanned == proc.day # Never => proc.day \in began

\* "Database failures back off to at most two minutes", which leaves room for
\* three failed attempts before the watchdog ends the process: a shorter
\* disturbance never restarts it.
ExitsAfterThreeFailures == exit = "stalled" => proc.failures >= 3

\* "A worker without successful progress for ten minutes exits": the loop
\* stays alive only with attempts that recent, whatever fails.
AttemptsGoOn ==
  exit = "none" /\ ~signal => clock - proc.started <= Max({TickMax, 1}) + MaxBackoff

\* The loop neither stalls unnoticed, nor ends early, nor skips a day's plan.
LoopKeepsGoing == LoopTypeOK /\ DayWasPlanned /\ ExitsAfterThreeFailures /\ AttemptsGoOn
=============================================================================
