---------------------------- MODULE MarketClock ----------------------------
(***************************************************************************)
(* The IST market-time predicates of pkg/utils and the entry guard of the  *)
(* risk manager.  An instant is a whole number of minutes since a Monday   *)
(* 00:00 in Asia/Kolkata; time.LoadLocation is assumed to find the zone,   *)
(* which time/tzdata embeds in the binary.                                 *)
(***************************************************************************)
EXTENDS Naturals

MinutesPerDay == 1440

At(h, m) == 60 * h + m

Day(now) == now \div MinutesPerDay

MinuteOfDay(now) == now % MinutesPerDay

Weekend(now) == Day(now) % 7 \in {5, 6}

\* The bounds of both windows are exclusive: time.After and time.Before.
IsMarketOpen(now) ==
  /\ ~Weekend(now)
  /\ At(9, 30) < MinuteOfDay(now) /\ MinuteOfDay(now) < At(15, 0)

IsOpeningBuffer(now) ==
  /\ ~Weekend(now)
  /\ At(9, 15) < MinuteOfDay(now) /\ MinuteOfDay(now) < At(9, 30)

IsClosingCutoff(now) ==
  /\ ~Weekend(now)
  /\ MinuteOfDay(now) >= At(15, 0)

\* timeWindowGuard returns nil: an entry may be taken.
timeWindowGuard(now) == ~IsOpeningBuffer(now) /\ ~IsClosingCutoff(now)
=============================================================================
