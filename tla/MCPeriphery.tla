---------------------------- MODULE MCPeriphery ----------------------------
(***************************************************************************)
(* The parts around the trading path, each with a state of its own: the    *)
(* archive of prices, the sentiment analyst, the breakout detector, the    *)
(* REST client and the reports.  They share nothing, so a behaviour is one *)
(* of one part while the others are off; the fairness of a part that is    *)
(* off asks for nothing, since what starts a part is never fair.           *)
(***************************************************************************)
EXTENDS Archive, Sentiment, Detector, GrowwClient, Reports

CONSTANTS t1, t2, a1, a2

VARIABLE part

MCUniverse == <<t1, t2>>

\* The feed lists one of the stories for both tickers, the other for the first.
MCCoverage == {<<t1, a1>>, <<t1, a2>>, <<t2, a1>>}

peripheryVars == <<part, archiveVars, sentimentVars, detectorVars, clientVars, reportVars>>

\* The table of the reports when another part is looked at.
NoReports == instant = 1 /\ report = NoReport /\ book = <<>>

PeripheryInit ==
  /\ part \in {"archive", "sentiment", "detector", "client", "reports"}
  /\ ArchiveInit /\ SentimentInit /\ DetectorInit /\ ClientInit
  /\ IF part = "reports" THEN ReportInit ELSE NoReports

InArchive ==
  part = "archive" /\ UNCHANGED <<part, sentimentVars, detectorVars, clientVars, reportVars>>
InSentiment ==
  part = "sentiment" /\ UNCHANGED <<part, archiveVars, detectorVars, clientVars, reportVars>>
InDetector ==
  part = "detector" /\ UNCHANGED <<part, archiveVars, sentimentVars, clientVars, reportVars>>
InClient ==
  part = "client" /\ UNCHANGED <<part, archiveVars, sentimentVars, detectorVars, reportVars>>
InReports ==
  part = "reports" /\ UNCHANGED <<part, archiveVars, sentimentVars, detectorVars, clientVars>>

PeripheryNext ==
  \/ InArchive /\ ArchiveNext
  \/ InSentiment /\ SentimentNext
  \/ InDetector /\ DetectorNext
  \/ InClient /\ ClientNext
  \/ InReports /\ ReportNext

PeripherySpec ==
  /\ PeripheryInit /\ [][PeripheryNext]_peripheryVars
  /\ ArchiveFairness /\ SentimentFairness /\ ClientFairness

\* Every part keeps its types, and what its other invariants follow from, and the REST
\* client the bound of its bursts; a part that is off does as well.
PartsOK ==
  /\ ArchiveIInv /\ SentimentIInv /\ QuietIInv /\ ReportIInv
  /\ ClientIInv /\ BurstsArePaidFor
=============================================================================
