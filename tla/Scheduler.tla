----------------------------- MODULE Scheduler -----------------------------
(***************************************************************************)
(* The Scheduler of analysts/sentiment/scraper.go: a goroutine that takes  *)
(* the ticks of a timer to a channel of capacity one, and a Stop that      *)
(* waits for it.                                                           *)
(***************************************************************************)
VARIABLES
  sched,        \* the goroutine: waiting for the timer, sending, ...
  tick          \* the channel holds a tick

schedVars == <<sched, tick>>

SchedulerState == {"off", "waiting", "sending", "ended"}

SchedulerInit == sched = "off" /\ tick = FALSE

StartScheduler == sched' = "waiting" /\ tick' = FALSE

\* ticker.C
TimerFires == sched = "waiting" /\ sched' = "sending" /\ UNCHANGED tick

\* s.ch <- t, when the last tick was taken.
SendTick == sched = "sending" /\ ~tick /\ tick' = TRUE /\ sched' = "waiting"

\* A goroutine that looks at its stop channel only between two ticks.
HearStopBetweenTicks == sched = "waiting" /\ sched' = "ended" /\ UNCHANGED tick

\* stopCh is closed: both selects of run return.
HearStop == sched \in {"waiting", "sending"} /\ sched' = "ended" /\ UNCHANGED tick

TakeTick == tick /\ tick' = FALSE /\ UNCHANGED sched
=============================================================================
