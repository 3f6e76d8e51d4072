------------------------------ MODULE Reports ------------------------------
(***************************************************************************)
(* pkg/database/report.go with tools/report: what the closed rows of a     *)
(* period of days made, summed up in the order in which they were closed.  *)
(*                                                                         *)
(* A row is its status, its two stamps and its PnL.  The sums by ticker    *)
(* and by exit reason are made like the one by day; averages and the       *)
(* ranking of the printed lines are left out.                              *)
(*                                                                         *)
(* The query names a column created_at, which no migration makes: the      *)
(* table has opened_at.  HasCreatedAt = FALSE is the schema as it is.      *)
(***************************************************************************)
EXTENDS Integers, FiniteSetsExt, SequencesExt

CONSTANTS
  MaxTrades,         \* most rows
  Gains, Losses,     \* what a close may make, or lose
  HasCreatedAt,
  InstantsPerDay,
  LastReportDay      \* the clock of the database shows the instants of day 1 to this one

ASSUME ReportAssumption ==
  /\ MaxTrades \in Nat
  /\ Gains \cup Losses \subseteq Nat
  /\ HasCreatedAt \in BOOLEAN
  /\ InstantsPerDay \in Nat \ {0} /\ LastReportDay \in Nat \ {0}

VARIABLES
  instant,       \* NOW()
  book,          \* the table positions, in the order of the ids
  report         \* what a run of the tool just printed, or NoReport

reportVars == <<instant, book, report>>

PnLs == Gains \cup {-l : l \in Losses}

ReportDays == 1..LastReportDay

StartOf(day) == (day - 1) * InstantsPerDay + 1

DayOf(t) == (t - 1) \div InstantsPerDay + 1

Instants == 1..(StartOf(LastReportDay + 1) - 1)

\* A stamp that is NULL.
NoStamp == 0

Row == [status : {"OPEN", "CLOSED"}, created : Instants,
        closed : Instants \cup {NoStamp}, pnl : PnLs \cup {0}]

NoReport == [from |-> 0, to |-> 0, trades |-> <<>>]

ReportTypeOK ==
  /\ instant \in Instants
  /\ book \in Seq(Row) /\ Len(book) <= MaxTrades
  /\ report.from \in ReportDays \cup {0} /\ report.to \in ReportDays \cup {0}
  /\ Range(report.trades) \subseteq DOMAIN book

\* A row that was closed when closes had neither a stamp nor a PnL; NULL counts as 0.
Legacy == [status |-> "CLOSED", created |-> 1, closed |-> NoStamp, pnl |-> 0]

ReportInit ==
  /\ instant = 1 /\ report = NoReport
  /\ \E n \in 0..MaxTrades : book = [i \in 1..n |-> Legacy]

ClockTicks ==
  /\ instant + 1 \in Instants
  /\ instant' = instant + 1 /\ report' = NoReport
  /\ UNCHANGED book

OpenTrade ==
  /\ Len(book) < MaxTrades
  /\ book' = Append(book, [status |-> "OPEN", created |-> instant, closed |-> NoStamp, pnl |-> 0])
  /\ report' = NoReport
  /\ UNCHANGED instant

\* MarkClosed.
CloseTrade ==
  /\ \E i \in DOMAIN book, p \in PnLs :
        /\ book[i].status = "OPEN"
        /\ book' = [book EXCEPT ![i].status = "CLOSED", ![i].closed = instant, ![i].pnl = p]
  /\ report' = NoReport
  /\ UNCHANGED instant

\* COALESCE(closed_at, created_at)
ClosedAt(i) == IF book[i].closed = NoStamp THEN book[i].created ELSE book[i].closed

\* With the first instant of the day after, too.
InPeriodInclusive(t, from, to) == StartOf(from) <= t /\ t <= StartOf(to + 1)

\* main adds a day to the end of the period, which the query leaves out.
InPeriod(t, from, to) == StartOf(from) <= t /\ t < StartOf(to + 1)

ClosedPositions(from, to) ==
  {i \in DOMAIN book : book[i].status = "CLOSED" /\ InPeriod(ClosedAt(i), from, to)}

\* ORDER BY, and the stable sort of ComputeSummary after it.
ByCloseTime(S) ==
  {s \in SetToSeqs(S) : \A i, j \in DOMAIN s : i < j => ClosedAt(s[i]) <= ClosedAt(s[j])}

EmptySummary ==
  [closedTrades |-> 0, totalPnL |-> 0, wins |-> 0, losses |-> 0, peak |-> 0, maxDrawdown |-> 0,
   byDay |-> [d \in ReportDays |-> 0]]

Larger(x, y) == IF x > y THEN x ELSE y

\* The drawdown at the end of the period.
TallyLastDrawdown(s, i) ==
  LET pnl    == book[i].pnl
      equity == s.totalPnL + pnl
      peak   == Larger(s.peak, equity)
  IN  [closedTrades |-> s.closedTrades + 1, totalPnL |-> equity,
       wins   |-> s.wins + (IF pnl > 0 THEN 1 ELSE 0),
       losses |-> s.losses + (IF pnl < 0 THEN 1 ELSE 0),
       peak   |-> peak, maxDrawdown |-> peak - equity,
       byDay  |-> [s.byDay EXCEPT ![DayOf(ClosedAt(i))] = @ + pnl]]

\* The loop of ComputeSummary.
Tally(s, i) ==
  LET pnl    == book[i].pnl
      equity == s.totalPnL + pnl
      peak   == Larger(s.peak, equity)
  IN  [closedTrades |-> s.closedTrades + 1, totalPnL |-> equity,
       wins   |-> s.wins + (IF pnl > 0 THEN 1 ELSE 0),
       losses |-> s.losses + (IF pnl < 0 THEN 1 ELSE 0),
       peak   |-> peak, maxDrawdown |-> Larger(s.maxDrawdown, peak - equity),
       byDay  |-> [s.byDay EXCEPT ![DayOf(ClosedAt(i))] = @ + pnl]]

ComputeSummary(s) == FoldLeft(Tally, EmptySummary, s)

\* The tool reads the table in one statement and prints, or fails.
PrintReport ==
  /\ HasCreatedAt
  /\ \E from, to \in ReportDays : \E s \in ByCloseTime(ClosedPositions(from, to)) :
        report' = [from |-> from, to |-> to, trades |-> s]
  /\ UNCHANGED <<instant, book>>

ReportNext == ClockTicks \/ OpenTrade \/ CloseTrade \/ PrintReport

ReportSpec == ReportInit /\ [][ReportNext]_reportVars
-----------------------------------------------------------------------------
\* A summary says what its rows say: the drawdown is the worst that any run of
\* consecutive closes lost, though the loop keeps only a peak; the days of the period
\* and no others make up the total; and every close is in the report of one day
\* exactly, whatever the upper bound of the query (report.go:33, report.go:112).
SummaryIsRight ==
  LET s         == ComputeSummary(report.trades)
      pnls      == [i \in DOMAIN report.trades |-> book[report.trades[i]].pnl]
      stretches == {i..j : i, j \in DOMAIN report.trades}
  IN  /\ s.maxDrawdown = Max({-SumFunctionOnSet(pnls, S) : S \in stretches} \cup {0})
      /\ s.totalPnL = SumFunctionOnSet(s.byDay, ReportDays \cap report.from..report.to)
      /\ \A i \in DOMAIN book : book[i].status = "CLOSED" =>
            Cardinality({d \in ReportDays : i \in ClosedPositions(d, d)}) = 1

\* The report of days that are over stays what it is, whatever is opened and closed
\* later and with whatever stamps rows were closed (report.go:112, positions.go:104).
PastReportsStay ==
  [][\A from, to \in ReportDays : StartOf(to + 1) <= instant =>
        ClosedPositions(from, to)' = ClosedPositions(from, to)]_reportVars

\* What was printed last is of the table as it is.
ReportIsOfBook ==
  \/ report = NoReport
  \/ /\ {report.from, report.to} \subseteq ReportDays
     /\ report.trades \in ByCloseTime(ClosedPositions(report.from, report.to))

\* The inductive invariant of SummaryIsRight and PastReportsStay.
ReportIInv == ReportTypeOK /\ ReportIsOfBook
=============================================================================
