----------------------------- MODULE Sentiment -----------------------------
(***************************************************************************)
(* analysts/sentiment: once a cycle, for every ticker without a fresh      *)
(* score, the stories of the news feed that were not picked up lately are  *)
(* scored by an LLM, stored and announced.                                 *)
(*                                                                         *)
(* Time is counted in ages that stop at their limit.  It passes anywhere,  *)
(* also between a mark and the request it was set for.                     *)
(***************************************************************************)
EXTENDS Naturals, FiniteSets, SequencesExt

CONSTANTS
  Universe,      \* the tickers in the order of a cycle
  Stories,       \* named by articleHash: an address, whatever ticker it is listed for
  Linked,        \* the stories that have an address
  Coverage,      \* which stories the news feed may list for which ticker
  Ttl,           \* window of deduplication
  Staleness,     \* age at which a score is stale
  MaxFailures    \* most failing calls

Tickers == Range(Universe)

ASSUME SentimentAssumption ==
  /\ Universe \in Seq(Tickers) \ {<<>>}
  /\ IsFiniteSet(Stories)
  /\ Linked \subseteq Stories /\ Coverage \subseteq Tickers \X Stories
  /\ Ttl \in Nat \ {0} /\ Staleness \in Nat \ {0} /\ MaxFailures \in Nat

VARIABLES
  listed,        \* the stories the news feed has for each ticker
  analyst,       \* where the agent is
  turn,          \* the ticker of the cycle it is at
  todo,          \* the fresh stories of that ticker it has yet to score
  stopping,      \* Stop has closed the database and the connection
  seen,          \* Scraper.seen: when a story was picked up, as an age
  asked,         \* when the LLM was last asked about a story, by this process
  askedBefore,   \* and when it was asked about it the time before
  scoreAge,      \* age of the latest score of each ticker, Staleness when none
  scored,        \* sentiment_scores
  failures

agentVars == <<analyst, turn, todo, stopping>>
askedVars == <<asked, askedBefore>>
sentimentVars == <<listed, agentVars, seen, askedVars, scoreAge, scored, failures>>

Ticker == Universe[turn]

\* The stages of processTicker.
Stages == {"checking", "fetching", "scoring", "inserting", "publishing"}

SentimentTypeOK ==
  /\ listed \subseteq Coverage
  /\ analyst \in {"off", "idle"} \cup Stages
  /\ turn \in DOMAIN Universe
  /\ todo \in Seq(Stories)
  /\ todo # <<>> <=> analyst \in {"scoring", "inserting", "publishing"}
  /\ stopping \in BOOLEAN
  /\ DOMAIN seen \subseteq Stories /\ Range(seen) \subseteq 0..Ttl
  /\ asked \in [Stories -> 0..Ttl] /\ askedBefore \in [Stories -> 0..Ttl]
  /\ scoreAge \in [Tickers -> 0..Staleness]
  /\ scored \subseteq Tickers \X Linked
  /\ failures \in 0..MaxFailures

SentimentInit ==
  /\ listed = {}
  /\ analyst = "off" /\ turn = 1 /\ todo = <<>> /\ stopping = FALSE
  /\ seen = <<>> /\ asked = [a \in Stories |-> Ttl] /\ askedBefore = asked
  /\ scoreAge = [t \in Tickers |-> Staleness]
  /\ scored = {} /\ failures = 0

\* A call fails, because it does or because Stop has closed what it needs.
Fails ==
  \/ stopping /\ UNCHANGED failures
  \/ failures < MaxFailures /\ failures' = failures + 1

Works == ~stopping /\ UNCHANGED failures

NewsChanges ==
  /\ \E entry \in Coverage :
        listed' = IF entry \in listed THEN listed \ {entry} ELSE listed \cup {entry}
  /\ UNCHANGED <<agentVars, seen, askedVars, scoreAge, scored, failures>>

\* An age moves on up to its limit.
Older(age, limit) == IF age < limit THEN age + 1 ELSE age

TimePasses ==
  /\ seen' = [a \in DOMAIN seen |-> Older(seen[a], Ttl)]
  /\ asked' = [a \in Stories |-> Older(asked[a], Ttl)]
  /\ askedBefore' = [a \in Stories |-> Older(askedBefore[a], Ttl)]
  /\ scoreAge' = [t \in Tickers |-> Older(scoreAge[t], Staleness)]
  /\ UNCHANGED <<listed, agentVars, scored, failures>>

\* NewAgent and Run: a new process has seen nothing.
StartAnalyst ==
  /\ analyst = "off"
  /\ analyst' = "idle" /\ stopping' = FALSE
  /\ seen' = <<>> /\ asked' = [a \in Stories |-> Ttl] /\ askedBefore' = asked'
  /\ UNCHANGED <<listed, turn, todo, scoreAge, scored, failures>>

StopAnalyst ==
  /\ analyst # "off" /\ ~stopping
  /\ stopping' = TRUE
  /\ UNCHANGED <<listed, analyst, turn, todo, seen, askedVars, scoreAge, scored, failures>>

\* Run returns after the cycle it is in, or the process dies anywhere.
AnalystEnds ==
  /\ analyst = "idle" => stopping
  /\ analyst # "off"
  /\ analyst' = "off" /\ turn' = 1 /\ todo' = <<>> /\ stopping' = FALSE
  /\ UNCHANGED <<listed, seen, askedVars, scoreAge, scored, failures>>

\* A tick of the scheduler; with both channels ready the select may take either.
StartCycle ==
  /\ analyst = "idle"
  /\ analyst' = "checking" /\ turn' = 1
  /\ UNCHANGED <<listed, todo, stopping, seen, askedVars, scoreAge, scored, failures>>

\* runCycle goes on to the next ticker, whatever became of this one.
NextTicker ==
  /\ todo' = <<>>
  /\ IF turn < Len(Universe)
       THEN turn' = turn + 1 /\ analyst' = "checking"
       ELSE turn' = 1 /\ analyst' = "idle"
  /\ UNCHANGED stopping

\* LatestScore: the latest row of a ticker, by recorded_at and id.
LatestScoreAge(t) == scoreAge[t]

HasFreshScore ==
  /\ analyst = "checking"
  /\ \/ Fails /\ NextTicker
     \/ Works /\ LatestScoreAge(Ticker) < Staleness /\ NextTicker
     \/ /\ Works /\ LatestScoreAge(Ticker) = Staleness
        /\ analyst' = "fetching" /\ UNCHANGED <<turn, todo, stopping>>
  /\ UNCHANGED <<listed, seen, askedVars, scoreAge, scored>>

\* Fetch
Listed(t) == {a \in Stories : <<t, a>> \in listed}

\* FetchFresh keeps what was never seen, or not within the window.
Fresh(a) == a \in DOMAIN seen => seen[a] = Ttl

\* Marks go a step too early.
PruneEarly(s) == Restrict(s, {a \in DOMAIN s : s[a] + 1 < Ttl})

\* Marks never go.
PruneNothing(s) == [a \in DOMAIN s |-> IF s[a] = Ttl THEN Ttl - 1 ELSE s[a]]

\* prune takes out what has expired.
Prune(s) == Restrict(s, {a \in DOMAIN s : s[a] < Ttl})

\* FetchFresh: a story is marked when it is picked up.
FetchFresh ==
  /\ analyst = "fetching"
  /\ UNCHANGED failures
  /\ LET fresh == {a \in Listed(Ticker) : Fresh(a)}
     IN  /\ seen' = Prune([a \in DOMAIN seen \cup fresh |-> IF a \in fresh THEN 0 ELSE seen[a]])
         /\ IF fresh = {}
              THEN NextTicker
              ELSE analyst' = "scoring" /\ todo' \in SetToSeqs(fresh) /\ UNCHANGED <<turn, stopping>>
  /\ UNCHANGED <<listed, askedVars, scoreAge, scored>>

FetchFails ==
  /\ analyst = "fetching"
  /\ failures < MaxFailures /\ failures' = failures + 1
  /\ NextTicker
  /\ UNCHANGED <<listed, seen, askedVars, scoreAge, scored>>

\* The loop goes on to the next story.
NextStory ==
  IF Len(todo) = 1 THEN NextTicker
                   ELSE analyst' = "scoring" /\ todo' = Tail(todo) /\ UNCHANGED <<turn, stopping>>

Advance(stage) == analyst' = stage /\ UNCHANGED <<turn, todo, stopping>>

\* buildScore and Validate: a score needs the address of its story.
Valid(a) == a \in Linked

\* The request to the LLM and its answer.  Stop closes nothing it needs.
Score ==
  /\ analyst = "scoring"
  /\ askedBefore' = [askedBefore EXCEPT ![Head(todo)] = asked[Head(todo)]]
  /\ asked' = [asked EXCEPT ![Head(todo)] = 0]
  /\ \/ Valid(Head(todo)) /\ UNCHANGED failures /\ Advance("inserting")
     \/ ~Valid(Head(todo)) /\ UNCHANGED failures /\ NextStory
     \/ failures < MaxFailures /\ failures' = failures + 1 /\ NextStory
  /\ UNCHANGED <<listed, seen, scoreAge, scored>>

StoreScore ==
  /\ scored' = scored \cup {<<Ticker, Head(todo)>>}
  /\ scoreAge' = [scoreAge EXCEPT ![Ticker] = 0]

\* Insert; one that fails may have stored its row and lost its answer.
Insert ==
  /\ analyst = "inserting"
  /\ \/ Works /\ StoreScore /\ Advance("publishing")
     \/ Fails /\ UNCHANGED <<scored, scoreAge>> /\ NextStory
     \/ ~stopping /\ Fails /\ StoreScore /\ NextStory
  /\ UNCHANGED <<listed, seen, askedVars>>

\* publishUpdate: a failure is logged.
PublishUpdate ==
  /\ analyst = "publishing"
  /\ Works \/ Fails
  /\ NextStory
  /\ UNCHANGED <<listed, seen, askedVars, scoreAge, scored>>

AgentSteps == StartCycle \/ HasFreshScore \/ FetchFresh \/ FetchFails \/ Score \/ Insert \/ PublishUpdate

SentimentNext ==
  NewsChanges \/ TimePasses \/ StartAnalyst \/ StopAnalyst \/ AnalystEnds \/ AgentSteps

\* The agent and the clock go on; nothing makes Fetch return, which has no timeout.
SentimentFairness ==
  /\ WF_sentimentVars(AgentSteps /\ analyst # "fetching")
  /\ WF_sentimentVars(TimePasses)

SentimentSpec == SentimentInit /\ [][SentimentNext]_sentimentVars /\ SentimentFairness
-----------------------------------------------------------------------------
\* A ticker has each fresh story once.
TodoIsDistinct == \A i, j \in DOMAIN todo : todo[i] = todo[j] => i = j

\* Only a score that is valid is inserted.
InsertedIsLinked == analyst = "inserting" => Head(todo) \in Linked

\* The age of the mark of a story; one that has expired is as good as none.
Mark(a) == IF a \in DOMAIN seen THEN seen[a] ELSE Ttl

\* The request before the last is not younger than the mark: of two requests, one belongs
\* to an earlier mark.
BeforeIsMarked == \A a \in Stories : askedBefore[a] >= Mark(a)

\* A story that waits for its request was not asked about since it was marked, and
\* what was asked about it belongs to one earlier mark.
WaitingIsUnasked ==
  \A i \in DOMAIN todo :
    i > 1 \/ analyst = "scoring" =>
      askedBefore[todo[i]] = Ttl /\ asked[todo[i]] >= Mark(todo[i])

\* The inductive invariant of AskedTwicePerWindow.
SentimentIInv ==
  /\ SentimentTypeOK /\ InsertedIsLinked /\ TodoIsDistinct
  /\ BeforeIsMarked /\ WaitingIsUnasked

\* Marks are a window apart (scraper.go:187), the requests they stand for are not: they
\* come later, story after story (agent.go:195), so the second may follow the first at
\* once.  A process asks about a story at most twice within the window, for whatever
\* ticker, however often the feed lists it and however long the LLM takes.
AskedTwicePerWindow == analyst = "scoring" => askedBefore[Head(todo)] = Ttl

\* A story that has an address and stays listed for a ticker is scored in the end,
\* for that ticker or for another one that has it too, if fetches return: a failed
\* attempt leaves its mark, another story of the ticker a fresh score, and both expire
\* (scraper.go:192, agent.go:176).
ListedIsScored ==
  []<>(analyst # "fetching") =>
  \A entry \in Coverage :
    <>[](analyst # "off" /\ ~stopping /\ entry \in listed /\ entry[2] \in Linked)
      => <>[](\E t \in Tickers : <<t, entry[2]>> \in scored)
=============================================================================
