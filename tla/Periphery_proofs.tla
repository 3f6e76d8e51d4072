-------------------------- MODULE Periphery_proofs --------------------------
(***************************************************************************)
(* What the parts around the trading path keep, each proved in a section of *)
(* its own: the sentiment analyst, the archive, the breakout detector, the *)
(* reports, the REST client; and, at the end, all of them together.        *)
(***************************************************************************)
EXTENDS MCPeriphery, FoldTheorems, SequenceTheorems, TLAPS
-----------------------------------------------------------------------------
(***************************************************************************)
(* The sentiment analyst.                                                  *)
(***************************************************************************)

\* At the start nothing is seen and nothing was asked.
LEMMA SentimentInitIInv == SentimentInit => SentimentIInv
<1> SUFFICES ASSUME SentimentInit PROVE SentimentIInv
  OBVIOUS
<1> USE SentimentAssumption DEF SentimentInit
<1>1. 1 \in DOMAIN Universe
  OBVIOUS
<1>2. todo \in Seq(Stories) /\ DOMAIN todo = {} /\ Range(todo) = {}
  BY DEF Range
<1>3. DOMAIN seen = {} /\ Range(seen) = {}
  BY DEF Range
<1>4. SentimentTypeOK
  <2>1. todo # <<>> <=> analyst \in {"scoring", "inserting", "publishing"}
    OBVIOUS
  <2>2. /\ asked \in [Stories -> 0..Ttl] /\ askedBefore \in [Stories -> 0..Ttl]
        /\ scoreAge \in [Tickers -> 0..Staleness]
    OBVIOUS
  <2>3. analyst \in {"off", "idle"} \cup Stages
    OBVIOUS
  <2>4. listed \subseteq Coverage /\ scored \subseteq Tickers \X Linked
    OBVIOUS
  <2>5. failures \in 0..MaxFailures
    OBVIOUS
  <2> QED
    BY <1>1, <1>2, <1>3, <2>1, <2>2, <2>3, <2>4, <2>5 DEF SentimentTypeOK
<1>5. BeforeIsMarked
  BY <1>3 DEF BeforeIsMarked, Mark
<1> QED
  BY <1>2, <1>4, <1>5
  DEF SentimentInit, SentimentIInv, TodoIsDistinct, WaitingIsUnasked, InsertedIsLinked

\* A mark is an age, and the mark of a story that is in the map is its entry.
LEMMA MarkIsAge ==
  ASSUME SentimentTypeOK
  PROVE  /\ Ttl \in Nat \ {0}
         /\ \A a \in DOMAIN seen : seen[a] \in 0..Ttl
         /\ \A a : Mark(a) \in 0..Ttl
<1>1. Ttl \in Nat \ {0}
  BY SentimentAssumption
<1>2. \A a \in DOMAIN seen : seen[a] \in 0..Ttl
  BY DEF SentimentTypeOK, Range
<1> QED
  BY <1>1, <1>2 DEF Mark

\* An order of a finite set is a sequence that has each element once.
LEMMA OrderOfSet ==
  ASSUME NEW S, IsFiniteSet(S), S # {}, S \subseteq Stories, NEW s \in SetToSeqs(S)
  PROVE  /\ s \in Seq(Stories) /\ s # <<>> /\ Range(s) \subseteq S
         /\ \A i, j \in DOMAIN s : s[i] = s[j] => i = j
<1>1. Cardinality(S) \in Nat /\ Cardinality(S) # 0
  BY FS_EmptySet, FS_CardinalityType
<1>2. s \in [1..Cardinality(S) -> S] /\ DOMAIN s = 1..Cardinality(S)
  BY DEF SetToSeqs
<1>3. \A i, j \in DOMAIN s : s[i] = s[j] => i = j
  BY <1>2 DEF SetToSeqs
<1>4. s \in Seq(Stories)
  BY <1>1, <1>2
<1>5. Range(s) \subseteq S
  BY <1>2 DEF Range
<1> QED
  BY <1>1, <1>2, <1>3, <1>4, <1>5

\* The rest of the stories is a sequence of those.
LEMMA RestOfTodo ==
  ASSUME todo \in Seq(Stories), Len(todo) # 1, todo # <<>>
  PROVE  /\ Tail(todo) \in Seq(Stories) /\ Tail(todo) # <<>>
         /\ DOMAIN Tail(todo) = 1..(Len(todo) - 1)
         /\ \A i \in DOMAIN Tail(todo) :
               i + 1 \in DOMAIN todo /\ i + 1 > 1 /\ Tail(todo)[i] = todo[i + 1]
         /\ Range(Tail(todo)) \subseteq Range(todo)
<1>1. Len(todo) \in Nat /\ Len(todo) > 1 /\ DOMAIN todo = 1..Len(todo)
  <2>1. Len(todo) \in Nat /\ DOMAIN todo = 1..Len(todo)
    BY LenProperties
  <2>2. Len(todo) # 0
    BY EmptySeq
  <2> QED
    BY <2>1, <2>2
<1>2. Tail(todo) \in Seq(Stories) /\ Len(Tail(todo)) = Len(todo) - 1
  BY <1>1
<1>3. \A i \in 1..(Len(todo) - 1) : i + 1 \in DOMAIN todo /\ i + 1 > 1 /\ Tail(todo)[i] = todo[i + 1]
  BY <1>1
<1>4. Tail(todo) # <<>> /\ DOMAIN Tail(todo) = 1..(Len(todo) - 1)
  BY <1>1, <1>2
<1>5. Range(Tail(todo)) \subseteq Range(todo)
  BY <1>3, <1>4 DEF Range
<1> QED
  BY <1>2, <1>3, <1>4, <1>5

\* A ticker that is done with leaves no story behind.
LEMMA NextTickerClears ==
  ASSUME SentimentTypeOK, NextTicker
  PROVE  /\ todo' = <<>> /\ turn' \in DOMAIN Universe /\ stopping' = stopping
         /\ analyst' \in {"checking", "idle"}
<1> USE SentimentAssumption DEF NextTicker, SentimentTypeOK
<1>1. Len(Universe) \in Nat /\ DOMAIN Universe = 1..Len(Universe)
  OBVIOUS
<1> QED
  BY <1>1

\* Without stories at hand two parts say nothing.
LEMMA NothingAtHand ==
  ASSUME todo' = <<>>
  PROVE  TodoIsDistinct' /\ WaitingIsUnasked'
<1>1. DOMAIN todo' = {}
  OBVIOUS
<1> QED
  BY <1>1 DEF TodoIsDistinct, WaitingIsUnasked

\* The agent goes on to the next story, or to the next ticker: what is left to score is
\* part of what was, and was not asked about.
LEMMA NextStoryKeeps ==
  ASSUME SentimentIInv, analyst \in {"scoring", "inserting", "publishing"}, NextStory,
         UNCHANGED seen,
         \A a \in Stories : a # Head(todo) => asked'[a] = asked[a] /\ askedBefore'[a] = askedBefore[a]
  PROVE  /\ todo' \in Seq(Stories) /\ turn' \in DOMAIN Universe /\ stopping' = stopping
         /\ analyst' \in {"checking", "idle", "scoring"}
         /\ todo' # <<>> <=> analyst' \in {"scoring", "inserting", "publishing"}
         /\ TodoIsDistinct' /\ WaitingIsUnasked'
<1> USE DEF SentimentIInv
<1>0. todo \in Seq(Stories) /\ todo # <<>>
  BY DEF SentimentTypeOK
<1>1. CASE Len(todo) = 1
  <2>1. NextTicker
    BY <1>1 DEF NextStory
  <2> QED
    BY <2>1, NextTickerClears, NothingAtHand
<1>2. CASE Len(todo) # 1
  <2>1. analyst' = "scoring" /\ todo' = Tail(todo) /\ turn' = turn /\ stopping' = stopping
    BY <1>2 DEF NextStory
  <2>2. TodoIsDistinct'
    BY <1>0, <1>2, <2>1, RestOfTodo DEF TodoIsDistinct
  <2>3. WaitingIsUnasked'
    <3> SUFFICES ASSUME NEW i \in DOMAIN todo'
                 PROVE  askedBefore'[todo'[i]] = Ttl /\ asked'[todo'[i]] >= Mark(todo[i])'
      BY DEF WaitingIsUnasked
    <3>1. i + 1 \in DOMAIN todo /\ i + 1 > 1 /\ todo'[i] = todo[i + 1]
      BY <1>0, <1>2, <2>1, RestOfTodo
    <3>2. askedBefore[todo[i + 1]] = Ttl /\ asked[todo[i + 1]] >= Mark(todo[i + 1])
      BY <3>1 DEF WaitingIsUnasked
    <3>3. 1 \in DOMAIN todo /\ Head(todo) = todo[1] /\ i + 1 # 1
      BY <1>0, <3>1
    <3>4. Head(todo) # todo[i + 1] /\ todo[i + 1] \in Stories
      BY <1>0, <3>1, <3>3 DEF TodoIsDistinct
    <3>5. \A b : Mark(b)' = Mark(b)
      BY DEF Mark
    <3>6. Mark(todo[i])' = Mark(todo[i + 1])
      BY <3>1, <3>5 DEF Mark
    <3> QED
      BY <3>1, <3>2, <3>4, <3>6
  <2> QED
    BY <1>0, <1>2, <2>1, <2>2, <2>3, RestOfTodo DEF SentimentTypeOK
<1> QED
  BY <1>1, <1>2

\* What BeforeIsMarked says holds on when neither marks nor requests change.
LEMMA MarksStay ==
  ASSUME BeforeIsMarked, UNCHANGED <<seen, askedVars>>
  PROVE  BeforeIsMarked'
BY DEF BeforeIsMarked, Mark, askedVars

\* The clock moves marks and requests alike, wherever the agent is.
LEMMA TimePassesKeeps == SentimentIInv /\ TimePasses => SentimentIInv'
<1> SUFFICES ASSUME SentimentIInv, TimePasses PROVE SentimentIInv'
  OBVIOUS
<1> USE SentimentAssumption DEF TimePasses, agentVars
<1>1. Ttl \in Nat /\ Staleness \in Nat /\ SentimentTypeOK
  BY DEF SentimentIInv
<1>2. /\ \A k \in Nat : \A age \in 0..k : Older(age, k) \in 0..k
      /\ \A x, y \in 0..Ttl : x >= y => Older(x, Ttl) >= Older(y, Ttl)
      /\ Older(Ttl, Ttl) = Ttl
  BY <1>1 DEF Older
<1>3. DOMAIN seen' = DOMAIN seen /\ \A a \in DOMAIN seen : seen'[a] = Older(seen[a], Ttl)
  OBVIOUS
<1>4. Range(seen') \subseteq 0..Ttl
  BY <1>1, <1>2, <1>3, MarkIsAge DEF Range
<1>5. /\ asked' \in [Stories -> 0..Ttl] /\ askedBefore' \in [Stories -> 0..Ttl]
      /\ scoreAge' \in [Tickers -> 0..Staleness]
  BY <1>1, <1>2 DEF SentimentTypeOK
<1>6. SentimentTypeOK' /\ InsertedIsLinked' /\ TodoIsDistinct'
  <2>1. SentimentTypeOK'
    BY <1>1, <1>3, <1>4, <1>5 DEF SentimentTypeOK
  <2> QED
    BY <2>1 DEF SentimentIInv, InsertedIsLinked, TodoIsDistinct
<1>7. \A a \in Stories :
        /\ Mark(a)' = Older(Mark(a), Ttl) /\ Mark(a) \in 0..Ttl
        /\ asked'[a] = Older(asked[a], Ttl) /\ asked[a] \in 0..Ttl
        /\ askedBefore'[a] = Older(askedBefore[a], Ttl) /\ askedBefore[a] \in 0..Ttl
  <2>1. \A a : Mark(a)' = Older(Mark(a), Ttl)
    BY <1>2, <1>3 DEF Mark
  <2> QED
    BY <1>1, <2>1, MarkIsAge DEF SentimentTypeOK
<1>8. BeforeIsMarked'
  BY <1>2, <1>7 DEF SentimentIInv, BeforeIsMarked
<1>9. WaitingIsUnasked'
  <2> SUFFICES ASSUME NEW i \in DOMAIN todo, i > 1 \/ analyst = "scoring"
               PROVE  askedBefore'[todo[i]] = Ttl /\ asked'[todo[i]] >= Mark(todo[i])'
    BY DEF WaitingIsUnasked
  <2>1. todo[i] \in Stories
    BY <1>1 DEF SentimentTypeOK
  <2>2. askedBefore[todo[i]] = Ttl /\ asked[todo[i]] >= Mark(todo[i])
    BY DEF SentimentIInv, WaitingIsUnasked
  <2>3. Mark(todo[i])' = Older(Mark(todo[i]), Ttl)
    BY <1>2, <1>3 DEF Mark
  <2>4. /\ Mark(todo[i]) \in 0..Ttl /\ asked[todo[i]] \in 0..Ttl
        /\ asked'[todo[i]] = Older(asked[todo[i]], Ttl)
        /\ askedBefore'[todo[i]] = Older(askedBefore[todo[i]], Ttl)
    BY <1>7, <2>1
  <2>5. Older(asked[todo[i]], Ttl) >= Older(Mark(todo[i]), Ttl)
    BY <1>2, <2>2, <2>4
  <2> QED
    BY <1>2, <2>2, <2>3, <2>4, <2>5
<1> QED
  BY <1>6, <1>8, <1>9 DEF SentimentIInv

\* A story that is picked up has no mark left, so what was asked about it before the last
\* time is a window ago; its new mark is as young as can be, and a mark that is pruned
\* was none any more.
LEMMA FetchFreshKeeps == SentimentIInv /\ FetchFresh => SentimentIInv'
<1> SUFFICES ASSUME SentimentIInv, FetchFresh PROVE SentimentIInv'
  OBVIOUS
<1> DEFINE fresh == {a \in Listed(Ticker) : Fresh(a)}
           marked == [a \in DOMAIN seen \cup fresh |-> IF a \in fresh THEN 0 ELSE seen[a]]
<1> USE SentimentAssumption
<1>1. SentimentTypeOK /\ BeforeIsMarked /\ Ttl \in Nat \ {0}
  BY DEF SentimentIInv
<1>2. fresh \subseteq Stories /\ IsFiniteSet(fresh)
  <2>1. fresh \subseteq Stories
    BY DEF Listed
  <2> QED
    BY <2>1, FS_Subset
<1>3. /\ DOMAIN seen' = {a \in DOMAIN marked : marked[a] < Ttl}
      /\ \A a \in DOMAIN seen' : seen'[a] = marked[a]
  BY DEF FetchFresh, Prune, Restrict
<1>4. \A a \in DOMAIN seen : seen[a] \in 0..Ttl
  BY <1>1, MarkIsAge
<1>5. \A a \in fresh : a \in DOMAIN seen' /\ seen'[a] = 0
  <2> SUFFICES ASSUME NEW a \in fresh PROVE a \in DOMAIN seen' /\ seen'[a] = 0
    OBVIOUS
  <2>1. a \in DOMAIN marked /\ marked[a] = 0 /\ 0 < Ttl
    BY <1>1
  <2> HIDE DEF marked
  <2> QED
    BY <1>3, <2>1
<1>6. \A a \in fresh : Mark(a) = Ttl /\ askedBefore[a] = Ttl /\ asked[a] \in 0..Ttl
  <2> SUFFICES ASSUME NEW a \in fresh
               PROVE  Mark(a) = Ttl /\ askedBefore[a] = Ttl /\ asked[a] \in 0..Ttl
    OBVIOUS
  <2>1. a \in Stories /\ Mark(a) = Ttl
    BY <1>2 DEF Fresh, Mark
  <2>2. askedBefore[a] \in 0..Ttl /\ asked[a] \in 0..Ttl
    BY <1>1, <2>1 DEF SentimentTypeOK
  <2>3. askedBefore[a] >= Ttl
    BY <1>1, <2>1 DEF BeforeIsMarked
  <2> QED
    BY <1>1, <2>1, <2>2, <2>3
<1>7. DOMAIN seen' \subseteq Stories /\ Range(seen') \subseteq 0..Ttl
  <2>1. DOMAIN seen' \subseteq Stories
    BY <1>1, <1>2, <1>3 DEF SentimentTypeOK
  <2>2. \A a \in DOMAIN marked : marked[a] \in 0..Ttl
    BY <1>1, <1>4
  <2>3. \A a \in DOMAIN seen' : seen'[a] \in 0..Ttl
    <3> HIDE DEF marked
    <3> QED
      BY <1>3, <2>2
  <2> QED
    BY <2>1, <2>3 DEF Range
<1>8. BeforeIsMarked'
  <2> SUFFICES ASSUME NEW a \in Stories PROVE askedBefore[a] >= Mark(a)'
    BY DEF BeforeIsMarked, FetchFresh, askedVars
  <2>1. askedBefore[a] \in 0..Ttl /\ askedBefore[a] >= Mark(a)
    BY <1>1 DEF SentimentTypeOK, BeforeIsMarked
  <2>2. CASE a \in fresh
    <3>1. Mark(a)' = 0
      BY <1>5, <2>2 DEF Mark
    <3> QED
      BY <1>1, <2>1, <3>1
  <2>3. CASE a \notin fresh /\ a \in DOMAIN seen'
    <3>1. a \in DOMAIN marked
      BY <1>3, <2>3
    <3>2. a \in DOMAIN seen /\ marked[a] = seen[a]
      BY <2>3, <3>1
    <3>3. Mark(a)' = Mark(a)
      BY <1>3, <2>3, <3>2 DEF Mark
    <3> QED
      BY <2>1, <3>3
  <2>4. CASE a \notin fresh /\ a \notin DOMAIN seen'
    <3>1. Mark(a)' = Ttl
      BY <2>4 DEF Mark
    <3>2. Mark(a) = Ttl
      <4>1. CASE a \in DOMAIN seen
        <5>1. a \in DOMAIN marked /\ marked[a] = seen[a]
          BY <2>4, <4>1
        <5>2. ~(seen[a] < Ttl)
          BY <1>3, <2>4, <5>1
        <5> QED
          BY <1>1, <1>4, <4>1, <5>2 DEF Mark
      <4> QED
        BY <4>1 DEF Mark
    <3> QED
      BY <2>1, <3>1, <3>2
  <2> QED
    BY <2>2, <2>3, <2>4
<1>9. UNCHANGED <<listed, asked, askedBefore, scoreAge, scored, failures>> /\ analyst = "fetching"
  BY DEF FetchFresh, askedVars
<1>10. CASE fresh = {}
  <2>1. NextTicker
    BY <1>10 DEF FetchFresh
  <2>2. /\ todo' = <<>> /\ turn' \in DOMAIN Universe /\ stopping' = stopping
        /\ analyst' \in {"checking", "idle"}
    BY <1>1, <2>1, NextTickerClears
  <2>3. SentimentTypeOK'
    BY <1>1, <1>7, <1>9, <2>2 DEF SentimentTypeOK, Stages
  <2> QED
    BY <1>8, <2>2, <2>3, NothingAtHand DEF SentimentIInv, InsertedIsLinked
<1>11. CASE fresh # {}
  <2>1. analyst' = "scoring" /\ todo' \in SetToSeqs(fresh) /\ turn' = turn /\ stopping' = stopping
    BY <1>11 DEF FetchFresh
  <2>2. /\ todo' \in Seq(Stories) /\ todo' # <<>> /\ Range(todo') \subseteq fresh
        /\ \A i, j \in DOMAIN todo' : todo'[i] = todo'[j] => i = j
    BY <1>2, <1>11, <2>1, OrderOfSet
  <2>3. SentimentTypeOK'
    BY <1>1, <1>7, <1>9, <2>1, <2>2 DEF SentimentTypeOK, Stages
  <2>4. WaitingIsUnasked'
    <3> SUFFICES ASSUME NEW i \in DOMAIN todo'
                 PROVE  askedBefore[todo'[i]] = Ttl /\ asked[todo'[i]] >= Mark(todo[i])'
      BY <1>9 DEF WaitingIsUnasked
    <3>1. todo'[i] \in fresh
      BY <2>2 DEF Range
    <3>2. Mark(todo[i])' = 0
      BY <1>5, <3>1 DEF Mark
    <3> QED
      BY <1>1, <1>6, <3>1, <3>2
  <2> QED
    BY <1>8, <2>1, <2>2, <2>3, <2>4 DEF SentimentIInv, TodoIsDistinct, InsertedIsLinked
<1> QED
  BY <1>10, <1>11

\* A story is asked about for the first time since it was marked: what was the last request
\* becomes the one before.
LEMMA ScoreKeeps == SentimentIInv /\ Score => SentimentIInv'
<1> SUFFICES ASSUME SentimentIInv, Score PROVE SentimentIInv'
  OBVIOUS
<1> DEFINE a == Head(todo)
<1> USE SentimentAssumption
<1>1. SentimentTypeOK /\ BeforeIsMarked /\ Ttl \in Nat \ {0}
  BY DEF SentimentIInv
<1>2. todo \in Seq(Stories) /\ todo # <<>> /\ analyst = "scoring"
  BY <1>1 DEF Score, SentimentTypeOK
<1>3. a \in Stories /\ 1 \in DOMAIN todo /\ a = todo[1]
  <2>1. Len(todo) \in Nat \ {0} /\ DOMAIN todo = 1..Len(todo)
    BY <1>2, EmptySeq, LenProperties
  <2>2. 1 \in DOMAIN todo /\ a = todo[1]
    BY <2>1
  <2> QED
    BY <1>2, <2>2, HeadTailProperties
<1>4. asked[a] >= Mark(a) /\ asked[a] \in 0..Ttl
  BY <1>1, <1>2, <1>3 DEF SentimentIInv, WaitingIsUnasked, SentimentTypeOK
<1>5. /\ asked' = [asked EXCEPT ![a] = 0] /\ askedBefore' = [askedBefore EXCEPT ![a] = asked[a]]
      /\ UNCHANGED <<listed, seen, scoreAge, scored>>
  BY DEF Score
<1>6. /\ asked' \in [Stories -> 0..Ttl] /\ askedBefore' \in [Stories -> 0..Ttl]
      /\ \A b \in Stories : b # a => asked'[b] = asked[b] /\ askedBefore'[b] = askedBefore[b]
      /\ askedBefore'[a] = asked[a]
  <2>1. /\ asked \in [Stories -> 0..Ttl] /\ askedBefore \in [Stories -> 0..Ttl]
        /\ 0 \in 0..Ttl
    BY <1>1 DEF SentimentTypeOK
  <2> HIDE DEF a
  <2> QED
    BY ONLY <1>3, <1>4, <1>5, <2>1
<1>7. BeforeIsMarked'
  <2> SUFFICES ASSUME NEW b \in Stories PROVE askedBefore'[b] >= Mark(b)'
    BY DEF BeforeIsMarked
  <2>1. Mark(b)' = Mark(b)
    BY <1>5 DEF Mark
  <2> QED
    BY <1>1, <1>4, <1>6, <2>1 DEF BeforeIsMarked
<1>8. failures' \in 0..MaxFailures
  <2>1. failures \in 0..MaxFailures /\ MaxFailures \in Nat
    BY <1>1 DEF SentimentTypeOK
  <2>2. failures' = failures \/ (failures < MaxFailures /\ failures' = failures + 1)
    BY DEF Score
  <2> QED
    BY <2>1, <2>2
<1>9. CASE NextStory
  <2>1. /\ todo' \in Seq(Stories) /\ turn' \in DOMAIN Universe /\ stopping' = stopping
        /\ analyst' \in {"checking", "idle", "scoring"}
        /\ todo' # <<>> <=> analyst' \in {"scoring", "inserting", "publishing"}
        /\ TodoIsDistinct' /\ WaitingIsUnasked'
    BY <1>2, <1>5, <1>6, <1>9, NextStoryKeeps
  <2>2. SentimentTypeOK'
    BY <1>1, <1>5, <1>6, <1>8, <2>1 DEF SentimentTypeOK, Stages
  <2> QED
    BY <1>7, <2>1, <2>2 DEF SentimentIInv, InsertedIsLinked
<1>10. CASE Valid(Head(todo)) /\ Advance("inserting")
  <2>1. analyst' = "inserting" /\ UNCHANGED <<turn, todo, stopping>>
    BY <1>10 DEF Advance
  <2>2. SentimentTypeOK'
    BY <1>1, <1>2, <1>5, <1>6, <1>8, <2>1 DEF SentimentTypeOK, Stages
  <2>3. TodoIsDistinct'
    BY <2>1 DEF SentimentIInv, TodoIsDistinct
  <2>4. WaitingIsUnasked'
    <3> SUFFICES ASSUME NEW i \in DOMAIN todo, i > 1
                 PROVE  askedBefore'[todo[i]] = Ttl /\ asked'[todo[i]] >= Mark(todo[i])'
      BY <2>1 DEF WaitingIsUnasked
    <3>1. askedBefore[todo[i]] = Ttl /\ asked[todo[i]] >= Mark(todo[i])
      BY DEF SentimentIInv, WaitingIsUnasked
    <3>2. todo[i] \in Stories /\ todo[i] # a
      BY <1>2, <1>3 DEF SentimentIInv, TodoIsDistinct
    <3>3. Mark(todo[i])' = Mark(todo[i])
      BY <1>5, <2>1 DEF Mark
    <3> QED
      BY <1>6, <3>1, <3>2, <3>3
  <2> QED
    BY <1>7, <1>10, <2>1, <2>2, <2>3, <2>4 DEF SentimentIInv, InsertedIsLinked, Valid
<1> QED
  BY <1>9, <1>10 DEF Score

\* A step of the agent after the request: neither marks nor requests change.
LEMMA StoryStepKeeps ==
  ASSUME SentimentIInv, analyst \in {"inserting", "publishing"},
         UNCHANGED <<listed, seen, askedVars>>,
         scoreAge' \in [Tickers -> 0..Staleness], scored' \subseteq Tickers \X Linked,
         failures' \in 0..MaxFailures,
         NextStory \/ Advance("publishing")
  PROVE  SentimentIInv'
<1>1. SentimentTypeOK /\ BeforeIsMarked' /\ todo \in Seq(Stories) /\ todo # <<>>
  BY MarksStay DEF SentimentIInv, SentimentTypeOK
<1>2. CASE NextStory
  <2>1. /\ todo' \in Seq(Stories) /\ turn' \in DOMAIN Universe /\ stopping' = stopping
        /\ analyst' \in {"checking", "idle", "scoring"}
        /\ todo' # <<>> <=> analyst' \in {"scoring", "inserting", "publishing"}
        /\ TodoIsDistinct' /\ WaitingIsUnasked'
    BY <1>2, NextStoryKeeps DEF askedVars
  <2>2. SentimentTypeOK'
    BY <1>1, <2>1 DEF SentimentTypeOK, Stages, askedVars
  <2> QED
    BY <1>1, <2>1, <2>2 DEF SentimentIInv, InsertedIsLinked
<1>3. CASE Advance("publishing")
  <2>1. analyst' = "publishing" /\ UNCHANGED <<turn, todo, stopping>>
    BY <1>3 DEF Advance
  <2>2. SentimentTypeOK'
    BY <1>1, <2>1 DEF SentimentTypeOK, Stages, askedVars
  <2>3. TodoIsDistinct' /\ WaitingIsUnasked' /\ InsertedIsLinked'
    BY <2>1 DEF SentimentIInv, TodoIsDistinct, WaitingIsUnasked, Mark, InsertedIsLinked, askedVars
  <2> QED
    BY <1>1, <2>2, <2>3 DEF SentimentIInv
<1> QED
  BY <1>2, <1>3

\* Only the story at hand gets a score, and only when it has an address.
LEMMA StoreScoreTypes ==
  ASSUME SentimentIInv, analyst = "inserting", StoreScore
  PROVE  scoreAge' \in [Tickers -> 0..Staleness] /\ scored' \subseteq Tickers \X Linked
<1> USE SentimentAssumption DEF StoreScore, SentimentIInv, SentimentTypeOK
<1>1. Ticker \in Tickers
  BY DEF Ticker, Tickers, Range
<1>2. Head(todo) \in Linked
  BY DEF InsertedIsLinked
<1>3. scored' = scored \cup {<<Ticker, Head(todo)>>} /\ scored \subseteq Tickers \X Linked
  OBVIOUS
<1>4. scoreAge' = [scoreAge EXCEPT ![Ticker] = 0] /\ scoreAge \in [Tickers -> 0..Staleness]
  OBVIOUS
<1>5. 0 \in 0..Staleness
  OBVIOUS
<1> QED
  BY ONLY <1>1, <1>2, <1>3, <1>4, <1>5

\* Inserting, answered or not.
LEMMA InsertKeeps == SentimentIInv /\ Insert => SentimentIInv'
<1> SUFFICES ASSUME SentimentIInv, Insert PROVE SentimentIInv'
  OBVIOUS
<1>1. /\ scoreAge \in [Tickers -> 0..Staleness] /\ scored \subseteq Tickers \X Linked
      /\ failures \in 0..MaxFailures /\ MaxFailures \in Nat
  BY SentimentAssumption DEF SentimentIInv, SentimentTypeOK
<1>2. analyst = "inserting" /\ UNCHANGED <<listed, seen, askedVars>>
  BY DEF Insert
<1>3. failures' \in 0..MaxFailures /\ (NextStory \/ Advance("publishing"))
  BY <1>1 DEF Insert, Works, Fails
<1>4. StoreScore \/ UNCHANGED <<scored, scoreAge>>
  BY DEF Insert
<1>5. scoreAge' \in [Tickers -> 0..Staleness] /\ scored' \subseteq Tickers \X Linked
  BY <1>1, <1>2, <1>4, StoreScoreTypes
<1> QED
  BY <1>2, <1>3, <1>5, StoryStepKeeps

\* Publishing.
LEMMA PublishUpdateKeeps == SentimentIInv /\ PublishUpdate => SentimentIInv'
<1> SUFFICES ASSUME SentimentIInv, PublishUpdate PROVE SentimentIInv'
  OBVIOUS
<1>1. /\ scoreAge \in [Tickers -> 0..Staleness] /\ scored \subseteq Tickers \X Linked
      /\ failures \in 0..MaxFailures /\ MaxFailures \in Nat
  BY SentimentAssumption DEF SentimentIInv, SentimentTypeOK
<1>2. failures' \in 0..MaxFailures
  BY <1>1 DEF PublishUpdate, Works, Fails
<1> QED
  BY <1>1, <1>2, StoryStepKeeps DEF PublishUpdate

\* The steps outside a ticker: no story is at hand before or after, and marks and
\* requests stay as they are or are those of a new process.
LEMMA EmptyHandKeeps ==
  ASSUME SentimentIInv, todo' = <<>>, analyst' \notin {"scoring", "inserting", "publishing"},
         SentimentTypeOK', BeforeIsMarked'
  PROVE  SentimentIInv'
BY NothingAtHand DEF SentimentIInv, InsertedIsLinked

\* Every step of the news, the clock, the process and the agent keeps the invariant.
LEMMA SentimentNextIInv == SentimentIInv /\ [SentimentNext]_sentimentVars => SentimentIInv'
<1> SUFFICES ASSUME SentimentIInv, [SentimentNext]_sentimentVars PROVE SentimentIInv'
  OBVIOUS
<1> USE SentimentAssumption
<1>0. /\ SentimentTypeOK /\ BeforeIsMarked
      /\ todo = <<>> <=> analyst \notin {"scoring", "inserting", "publishing"}
  BY DEF SentimentIInv, SentimentTypeOK
<1>1. CASE NewsChanges
  <2>1. listed' \subseteq Coverage
    BY <1>0, <1>1 DEF NewsChanges, SentimentTypeOK
  <2> QED
    BY <1>1, <2>1
    DEF NewsChanges, agentVars, SentimentIInv, SentimentTypeOK, InsertedIsLinked,
        TodoIsDistinct, BeforeIsMarked, WaitingIsUnasked, Mark, askedVars
<1>2. CASE TimePasses
  BY <1>2, TimePassesKeeps
<1>3. CASE StartAnalyst
  <2>1. /\ DOMAIN seen' = {} /\ Range(seen') = {}
        /\ asked' = [a \in Stories |-> Ttl] /\ askedBefore' = [a \in Stories |-> Ttl]
    BY <1>3 DEF StartAnalyst, Range
  <2>2. todo' = <<>> /\ analyst' = "idle" /\ analyst = "off"
    BY <1>0, <1>3 DEF StartAnalyst
  <2>3. SentimentTypeOK'
    <3>1. asked' \in [Stories -> 0..Ttl] /\ askedBefore' \in [Stories -> 0..Ttl]
      BY <2>1
    <3> QED
      BY <1>0, <1>3, <2>1, <2>2, <3>1 DEF StartAnalyst, SentimentTypeOK
  <2>4. BeforeIsMarked'
    BY <2>1 DEF BeforeIsMarked, Mark
  <2> QED
    BY <2>2, <2>3, <2>4, EmptyHandKeeps
<1>4. CASE StopAnalyst
  BY <1>4
  DEF StopAnalyst, SentimentIInv, SentimentTypeOK, InsertedIsLinked, TodoIsDistinct,
      BeforeIsMarked, WaitingIsUnasked, Mark, askedVars
<1>5. CASE AnalystEnds
  <2>1. todo' = <<>> /\ analyst' = "off" /\ turn' = 1 /\ 1 \in DOMAIN Universe
    BY <1>5 DEF AnalystEnds
  <2>2. SentimentTypeOK'
    <3>1. todo' \in Seq(Stories)
      BY <2>1
    <3> QED
      BY <1>0, <1>5, <2>1, <3>1 DEF AnalystEnds, SentimentTypeOK, askedVars
  <2>3. BeforeIsMarked'
    BY <1>0, <1>5, MarksStay DEF AnalystEnds
  <2> QED
    BY <2>1, <2>2, <2>3, EmptyHandKeeps
<1>6. CASE StartCycle
  <2>1. todo' = <<>> /\ analyst' = "checking" /\ turn' = 1 /\ 1 \in DOMAIN Universe
    BY <1>0, <1>6 DEF StartCycle
  <2>2. SentimentTypeOK'
    BY <1>0, <1>6, <2>1 DEF StartCycle, SentimentTypeOK, Stages, askedVars
  <2>3. BeforeIsMarked'
    BY <1>0, <1>6, MarksStay DEF StartCycle
  <2> QED
    BY <2>1, <2>2, <2>3, EmptyHandKeeps
<1>7. CASE HasFreshScore
  <2>1. UNCHANGED <<listed, seen, askedVars, scoreAge, scored>> /\ BeforeIsMarked'
    BY <1>0, <1>7, MarksStay DEF HasFreshScore
  <2>2. failures' \in 0..MaxFailures
    BY <1>0, <1>7 DEF HasFreshScore, Fails, Works, SentimentTypeOK
  <2>3. /\ todo' = <<>> /\ turn' \in DOMAIN Universe /\ stopping' = stopping
        /\ analyst' \in {"checking", "idle", "fetching"}
    <3>1. CASE NextTicker
      BY <1>0, <3>1, NextTickerClears
    <3>2. CASE analyst' = "fetching" /\ UNCHANGED <<turn, todo, stopping>>
      BY <1>0, <1>7, <3>2 DEF HasFreshScore, SentimentTypeOK
    <3> QED
      BY <1>7, <3>1, <3>2 DEF HasFreshScore
  <2>4. SentimentTypeOK'
    <3>1. todo' \in Seq(Stories)
      BY <2>3
    <3> QED
      BY <1>0, <2>1, <2>2, <2>3, <3>1 DEF SentimentTypeOK, Stages, askedVars
  <2> QED
    BY <2>1, <2>3, <2>4, EmptyHandKeeps
<1>8. CASE FetchFresh
  BY <1>8, FetchFreshKeeps
<1>9. CASE FetchFails
  <2>1. UNCHANGED <<listed, seen, askedVars, scoreAge, scored>> /\ BeforeIsMarked'
    BY <1>0, <1>9, MarksStay DEF FetchFails
  <2>2. failures' \in 0..MaxFailures
    BY <1>0, <1>9 DEF FetchFails, SentimentTypeOK
  <2>3. /\ todo' = <<>> /\ turn' \in DOMAIN Universe /\ stopping' = stopping
        /\ analyst' \in {"checking", "idle"}
    BY <1>0, <1>9, NextTickerClears DEF FetchFails
  <2>4. SentimentTypeOK'
    <3>1. todo' \in Seq(Stories)
      BY <2>3
    <3> QED
      BY <1>0, <2>1, <2>2, <2>3, <3>1 DEF SentimentTypeOK, Stages, askedVars
  <2> QED
    BY <2>1, <2>3, <2>4, EmptyHandKeeps
<1>10. CASE Score
  BY <1>10, ScoreKeeps
<1>11. CASE Insert
  BY <1>11, InsertKeeps
<1>12. CASE PublishUpdate
  BY <1>12, PublishUpdateKeeps
<1>13. CASE UNCHANGED sentimentVars
  BY <1>13
  DEF sentimentVars, agentVars, SentimentIInv, SentimentTypeOK, InsertedIsLinked,
      TodoIsDistinct, BeforeIsMarked, WaitingIsUnasked, Mark, askedVars
<1> QED
  BY <1>1, <1>2, <1>3, <1>4, <1>5, <1>6, <1>7, <1>8, <1>9, <1>10, <1>11, <1>12, <1>13
  DEF SentimentNext, AgentSteps

\* The invariant holds throughout.
THEOREM SentimentInvariance ==
  SentimentInit /\ [][SentimentNext]_sentimentVars => []SentimentIInv
BY SentimentInitIInv, SentimentNextIInv, PTL

\* The variables of the analyst have their types (agent.go, scraper.go).
THEOREM SentimentTypeCorrect == SentimentSpec => []SentimentTypeOK
<1>1. SentimentIInv => SentimentTypeOK
  BY DEF SentimentIInv
<1> QED
  BY <1>1, SentimentInvariance, PTL DEF SentimentSpec

\* Whatever the universe, the stories, the window, the failures and the time that requests
\* take, a process asks the LLM about a story at most twice within the window (scraper.go:192
\* marks it, agent.go:195 asks later).
THEOREM AskedTwice == SentimentSpec => []AskedTwicePerWindow
<1>1. SentimentIInv => AskedTwicePerWindow
  <2> SUFFICES ASSUME SentimentIInv, analyst = "scoring" PROVE askedBefore[Head(todo)] = Ttl
    BY DEF AskedTwicePerWindow
  <2>1. todo \in Seq(Stories) /\ todo # <<>>
    BY DEF SentimentIInv, SentimentTypeOK
  <2>2. 1 \in DOMAIN todo /\ Head(todo) = todo[1]
    BY <2>1
  <2> QED
    BY <2>2 DEF SentimentIInv, WaitingIsUnasked
<1> QED
  BY <1>1, SentimentInvariance, PTL DEF SentimentSpec
-----------------------------------------------------------------------------
(***************************************************************************)
(* The archive.                                                            *)
(***************************************************************************)

\* The stream with the recorder, and the replay tool, which hands over the files alone.
RecorderTypeOK ==
  /\ stream \in BoundedSeq(Stamps \cup {Malformed}, MaxMessages)
  /\ stored \subseteq fetched /\ settled \cup fetched \subseteq DOMAIN stream
  /\ recorder \in {"off", "running", "stopped"}
  /\ callback \in fetched \cup {NoMessage}
  /\ appended \in BOOLEAN
  /\ handle \in [is : {"none", "open", "closed"}, day : Days]
  /\ today \in Days
  /\ DOMAIN files = Days
  /\ faults \in 0..MaxFaults

\* What holds of the recorder and its files.
RecorderIInv == RecorderTypeOK /\ FilesAreWritten /\ StoredIsWritten

\* What holds of the replay tool.
ReplayIInv ==
  /\ replay \in {"off", "waiting", "publishing", "done"}
  /\ plan \in Seq([stamp : Stamps, gap : BOOLEAN])
  /\ sent \in 0..Len(plan) /\ aborted \in {{}} \cup {{n} : n \in 0..sent}
  /\ ReplayIsOnSchedule

\* The invariant is what holds of each of the two.
LEMMA ArchiveInTwo == ArchiveIInv <=> RecorderIInv /\ ReplayIInv
<1>1. FilesAreWritten => \A d \in Days : Range(files[d]) \subseteq Chunk
  <2> SUFFICES ASSUME FilesAreWritten, NEW d \in Days, NEW k \in DOMAIN files[d]
               PROVE  files[d][k] \in Chunk
    BY DEF Range
  <2> QED
    BY ElementOfSeq DEF FilesAreWritten
<1> QED
  BY <1>1 DEF ArchiveIInv, ArchiveTypeOK, RecorderIInv, RecorderTypeOK, ReplayIInv

\* At the start there is nothing on the stream, in the files and in the schedule.
LEMMA ArchiveInitIInv == ArchiveInit => ArchiveIInv
<1> SUFFICES ASSUME ArchiveInit PROVE RecorderIInv /\ ReplayIInv
  BY ArchiveInTwo
<1> USE ArchiveAssumption DEF ArchiveInit
<1> DEFINE T == Stamps \cup {Malformed}
<1>1. \A S : <<>> \in Seq(S)
  OBVIOUS
<1>2. stream \in BoundedSeq(T, MaxMessages) /\ DOMAIN stream = {}
  <2>1. stream \in Seq(T) /\ Len(stream) = 0 /\ DOMAIN stream = {}
    BY <1>1
  <2>2. Len(stream) <= MaxMessages
    BY <2>1
  <2> HIDE DEF T
  <2> QED
    BY <2>1, <2>2, BoundedIsSeq
<1>3. today \in Days /\ faults \in 0..MaxFaults /\ NoHandle \in [is : {"none", "open", "closed"}, day : Days]
  BY DEF Days, NoHandle
<1>4. DOMAIN files = Days /\ \A d \in Days : files[d] \in Seq(Chunk) /\ DOMAIN files[d] = {}
  BY <1>1
<1>5. RecorderIInv
  BY <1>2, <1>3, <1>4 DEF RecorderIInv, RecorderTypeOK, FilesAreWritten, StoredIsWritten
<1>6. plan \in Seq([stamp : Stamps, gap : BOOLEAN]) /\ DOMAIN plan = {} /\ Len(plan) = 0
  BY <1>1
<1>7. ReplayIInv
  BY <1>6 DEF ReplayIInv, ReplayIsOnSchedule
<1> QED
  BY <1>5, <1>7

\* What holds of the types of the recorder in every step that uses them.
LEMMA RecorderTypes ==
  ASSUME RecorderIInv
  PROVE  /\ stream \in Seq(Stamps \cup {Malformed}) /\ Len(stream) \in 0..MaxMessages
         /\ DOMAIN stream = 1..Len(stream)
         /\ \A i \in DOMAIN stream : i \in 1..MaxMessages
         /\ callback # NoMessage => callback \in fetched /\ callback \in DOMAIN stream
<1>1. stream \in Seq(Stamps \cup {Malformed}) /\ Len(stream) <= MaxMessages /\ MaxMessages \in Nat
  BY BoundedIsSeq, ArchiveAssumption DEF RecorderIInv, RecorderTypeOK
<1>2. Len(stream) \in Nat /\ DOMAIN stream = 1..Len(stream)
  BY <1>1, LenProperties
<1> QED
  BY <1>1, <1>2 DEF RecorderIInv, RecorderTypeOK

\* A longer stream leaves the recorder where it was.
LEMMA LongerStreamKeeps ==
  ASSUME RecorderIInv, NEW s \in Stamps \cup {Malformed}, Len(stream) < MaxMessages,
         stream' = Append(stream, s), UNCHANGED <<today, recorderVars>>
  PROVE  RecorderIInv'
<1> DEFINE T == Stamps \cup {Malformed}
<1>1. stream \in Seq(T) /\ s \in T /\ Len(stream) \in Nat /\ MaxMessages \in Nat
  BY RecorderTypes, ArchiveAssumption
<1>2. /\ stream' \in Seq(T) /\ Len(stream') = Len(stream) + 1
      /\ \A i \in DOMAIN stream : i \in DOMAIN stream' /\ stream'[i] = stream[i]
  <2> HIDE DEF T
  <2> QED
    BY <1>1, AppendGrows
<1>3. stream' \in BoundedSeq(T, MaxMessages)
  <2> HIDE DEF T
  <2>1. Len(stream') <= MaxMessages
    BY <1>1, <1>2
  <2> QED
    BY <1>1, <1>2, <2>1, BoundedIsSeq
<1>4. RecorderTypeOK'
  BY <1>2, <1>3 DEF RecorderIInv, RecorderTypeOK, recorderVars
<1>5. FilesAreWritten'
  <2> SUFFICES ASSUME NEW d \in Days
               PROVE  /\ files[d] \in Seq(Chunk)
                      /\ \A k \in DOMAIN files[d] : /\ files[d][k].msg \in fetched
                                                    /\ stream'[files[d][k].msg] \in Stamps
    BY DEF FilesAreWritten, recorderVars, Stamp, Days, Chunk, Cut
  <2>1. ASSUME NEW k \in DOMAIN files[d]
        PROVE  files[d][k].msg \in fetched /\ stream'[files[d][k].msg] \in Stamps
    <3>1. files[d][k].msg \in fetched /\ stream[files[d][k].msg] \in Stamps
      BY DEF RecorderIInv, FilesAreWritten, Stamp
    <3>2. files[d][k].msg \in DOMAIN stream
      BY <3>1 DEF RecorderIInv, RecorderTypeOK
    <3> QED
      BY <1>2, <3>1, <3>2
  <2> QED
    BY <2>1 DEF RecorderIInv, FilesAreWritten
<1>6. StoredIsWritten'
  BY DEF RecorderIInv, StoredIsWritten, recorderVars
<1> QED
  BY <1>4, <1>5, <1>6 DEF RecorderIInv

\* A write of a message that parses adds to the file of the day, and takes nothing from
\* any file.
LEMMA WriteGrows ==
  ASSUME RecorderIInv, Legible, NEW cut \in Cut, NEW c, c = [msg |-> callback, cut |-> cut],
         Write(c), UNCHANGED <<today, stream>>, fetched' = fetched
  PROVE  /\ DOMAIN files' = Days /\ FilesAreWritten'
         /\ \A d \in Days : \A k \in DOMAIN files[d] :
               k \in DOMAIN files'[d] /\ files'[d][k] = files[d][k]
         /\ \E k \in DOMAIN files'[today] : files'[today][k] = c
<1> DEFINE f == files[today]
<1>1. callback \in fetched /\ callback \in DOMAIN stream /\ callback \in 1..MaxMessages
  BY RecorderTypes DEF Legible, Handling
<1>2. stream[callback] \in Stamps
  BY <1>1, RecorderTypes DEF Legible
<1>3. c \in Chunk /\ c.msg \in fetched /\ stream[c.msg] \in Stamps
  BY <1>1, <1>2 DEF Chunk
<1>4. today \in Days /\ DOMAIN files = Days /\ \A d \in Days : files[d] \in Seq(Chunk)
  BY DEF RecorderIInv, RecorderTypeOK, FilesAreWritten
<1>5. files' = [files EXCEPT ![today] = Append(files[today], c)]
  BY DEF Write, Reopened
<1>6. /\ DOMAIN files' = Days /\ files'[today] = Append(f, c)
      /\ \A d \in Days \ {today} : files'[d] = files[d]
  BY <1>4, <1>5
<1>7. /\ Append(f, c) \in Seq(Chunk)
      /\ \A k \in DOMAIN f : k \in DOMAIN Append(f, c) /\ Append(f, c)[k] = f[k]
      /\ \E k \in DOMAIN Append(f, c) : Append(f, c)[k] = c
      /\ \A k \in DOMAIN Append(f, c) : Append(f, c)[k] = c \/ Append(f, c)[k] \in {f[j] : j \in DOMAIN f}
  BY <1>3, <1>4, AppendGrows
<1>8. FilesAreWritten'
  <2> SUFFICES ASSUME NEW d \in Days
               PROVE  /\ files'[d] \in Seq(Chunk)
                      /\ \A k \in DOMAIN files'[d] : /\ files'[d][k].msg \in fetched
                                                     /\ stream[files'[d][k].msg] \in Stamps
    BY DEF FilesAreWritten, Stamp, Days, Chunk, Cut
  <2>1. \A k \in DOMAIN files[d] : files[d][k].msg \in fetched /\ stream[files[d][k].msg] \in Stamps
    BY DEF RecorderIInv, FilesAreWritten, Stamp
  <2>2. CASE d = today
    <3>1. files'[d] = Append(f, c) /\ \A j \in DOMAIN f : f[j].msg \in fetched /\ stream[f[j].msg] \in Stamps
      BY <1>6, <2>1, <2>2
    <3>2. ASSUME NEW k \in DOMAIN Append(f, c)
          PROVE  Append(f, c)[k].msg \in fetched /\ stream[Append(f, c)[k].msg] \in Stamps
      <4>1. CASE Append(f, c)[k] = c
        BY <1>3, <4>1
      <4>2. CASE Append(f, c)[k] \in {f[j] : j \in DOMAIN f}
        BY <3>1, <4>2
      <4> QED
        BY <1>7, <4>1, <4>2
    <3> QED
      BY <1>7, <3>1, <3>2
  <2>3. CASE d # today
    BY <1>4, <1>6, <2>1, <2>3
  <2> QED
    BY <2>2, <2>3
<1>9. \A d \in Days : \A k \in DOMAIN files[d] :
         k \in DOMAIN files'[d] /\ files'[d][k] = files[d][k]
  BY <1>4, <1>6, <1>7
<1> QED
  BY <1>4, <1>6, <1>7, <1>8, <1>9

\* What was written stays written.
LEMMA WrittenStays ==
  ASSUME RecorderIInv,
         \A d \in Days : \A k \in DOMAIN files[d] :
            k \in DOMAIN files'[d] /\ files'[d][k] = files[d][k],
         stored' = stored
  PROVE  StoredIsWritten'
<1> SUFFICES ASSUME NEW i \in stored
             PROVE  \E d \in Days : \E k \in DOMAIN files'[d] :
                       files'[d][k].msg = i /\ files'[d][k].cut = "no"
  BY DEF StoredIsWritten, Days
<1>1. PICK d \in Days : \E k \in DOMAIN files[d] : files[d][k].msg = i /\ files[d][k].cut = "no"
  BY DEF RecorderIInv, StoredIsWritten
<1>2. PICK k \in DOMAIN files[d] : files[d][k].msg = i /\ files[d][k].cut = "no"
  BY <1>1
<1> QED
  BY <1>2

\* The steps that leave the files and what is on the stream alone.
LEMMA SameFilesKeep ==
  ASSUME RecorderIInv, UNCHANGED <<stream, files, stored>>, fetched \subseteq fetched',
         RecorderTypeOK'
  PROVE  RecorderIInv'
<1>1. FilesAreWritten'
  BY DEF RecorderIInv, FilesAreWritten, Stamp, Days, Chunk, Cut
<1>2. StoredIsWritten'
  BY DEF RecorderIInv, StoredIsWritten, Days
<1> QED
  BY <1>1, <1>2 DEF RecorderIInv

\* Append: the tick is in the file of the day before it counts as stored.
LEMMA AppendOkKeeps ==
  ASSUME RecorderIInv, AppendOk, UNCHANGED <<stream, today>>
  PROVE  RecorderIInv'
<1> DEFINE c == [msg |-> callback, cut |-> "no"]
<1>1. /\ Write(c) /\ stored' = stored \cup {callback} /\ Legible /\ handle' = TodaysHandle
      /\ appended' = TRUE /\ UNCHANGED <<settled, fetched, recorder, callback, faults>>
  BY DEF AppendOk, Return
<1>2. callback \in fetched
  BY <1>1, RecorderTypes DEF Legible, Handling
<1>3. /\ DOMAIN files' = Days /\ FilesAreWritten'
      /\ \A d \in Days : \A k \in DOMAIN files[d] :
            k \in DOMAIN files'[d] /\ files'[d][k] = files[d][k]
      /\ \E k \in DOMAIN files'[today] : files'[today][k] = c
  <2>1. "no" \in Cut
    BY DEF Cut
  <2> QED
    BY <1>1, <2>1, WriteGrows
<1>4. RecorderTypeOK'
  <2>1. handle' \in [is : {"none", "open", "closed"}, day : Days]
    BY <1>1 DEF TodaysHandle, RecorderIInv, RecorderTypeOK
  <2> QED
    BY <1>1, <1>2, <1>3, <2>1 DEF RecorderIInv, RecorderTypeOK, Days
<1>5. StoredIsWritten'
  <2> SUFFICES ASSUME NEW i \in stored \cup {callback}
               PROVE  \E d \in Days : \E k \in DOMAIN files'[d] :
                         files'[d][k].msg = i /\ files'[d][k].cut = "no"
    BY <1>1 DEF StoredIsWritten, Days
  <2>1. CASE i = callback
    <3>1. c.msg = i /\ c.cut = "no" /\ today \in Days
      BY <2>1 DEF RecorderIInv, RecorderTypeOK
    <3> QED
      BY <1>3, <3>1
  <2>2. CASE i \in stored
    <3>1. PICK d \in Days : \E k \in DOMAIN files[d] : files[d][k].msg = i /\ files[d][k].cut = "no"
      BY <2>2 DEF RecorderIInv, StoredIsWritten
    <3>2. PICK k \in DOMAIN files[d] : files[d][k].msg = i /\ files[d][k].cut = "no"
      BY <3>1
    <3> QED
      BY <1>3, <3>2
  <2> QED
    BY <2>1, <2>2
<1> QED
  BY <1>3, <1>4, <1>5 DEF RecorderIInv

\* A write that is cut, or that a crash is in the middle of, stores nothing.
LEMMA OtherWriteKeeps ==
  ASSUME RecorderIInv, Legible, NEW cut \in Cut, Write([msg |-> callback, cut |-> cut]),
         UNCHANGED <<stream, today, stored, settled, fetched>>,
         recorder' \in {"off", "running", "stopped"}, callback' \in {callback, NoMessage},
         appended' \in BOOLEAN, handle' \in {handle, TodaysHandle, NoHandle}, faults' \in 0..MaxFaults
  PROVE  RecorderIInv'
<1> DEFINE c == [msg |-> callback, cut |-> cut]
<1>1. /\ DOMAIN files' = Days /\ FilesAreWritten'
      /\ \A d \in Days : \A k \in DOMAIN files[d] :
            k \in DOMAIN files'[d] /\ files'[d][k] = files[d][k]
  <2>1. Write(c) /\ c = [msg |-> callback, cut |-> cut]
    OBVIOUS
  <2> HIDE DEF c
  <2> QED
    BY <2>1, WriteGrows
<1>2. StoredIsWritten'
  BY <1>1, WrittenStays
<1>3. handle' \in [is : {"none", "open", "closed"}, day : Days]
  BY ArchiveAssumption DEF TodaysHandle, NoHandle, RecorderIInv, RecorderTypeOK, Days
<1>4. RecorderTypeOK'
  BY <1>1, <1>3 DEF RecorderIInv, RecorderTypeOK, Days
<1> QED
  BY <1>1, <1>2, <1>4 DEF RecorderIInv

\* Every step of the recorder keeps the types and what the files hold.
LEMMA RecorderNextKeeps ==
  ASSUME RecorderIInv, RecorderNext
  PROVE  RecorderIInv'
<1>0. /\ UNCHANGED <<stream, today>> /\ RecorderTypeOK
      /\ MaxFaults \in Nat /\ NoHandle \in [is : {"none", "open", "closed"}, day : Days]
      /\ Fault => faults' \in 0..MaxFaults
      /\ TodaysHandle \in [is : {"none", "open", "closed"}, day : Days]
  <2>1. MaxFaults \in Nat /\ faults \in 0..MaxFaults
    BY ArchiveAssumption DEF RecorderIInv, RecorderTypeOK
  <2>2. Fault => faults' \in 0..MaxFaults
    BY <2>1 DEF Fault
  <2> QED
    BY <2>1, <2>2, ArchiveAssumption DEF RecorderNext, RecorderIInv, RecorderTypeOK, NoHandle, TodaysHandle, Days
<1>1. CASE AppendOk
  BY <1>0, <1>1, AppendOkKeeps
<1>2. CASE AppendIsCut
  BY <1>0, <1>2, OtherWriteKeeps DEF AppendIsCut, Return, RecorderTypeOK
<1>3. CASE Crash
  <2>1. CASE UNCHANGED files
    <3>1. RecorderTypeOK'
      BY <1>0, <1>3, <2>1 DEF Crash, RecorderTypeOK, Days
    <3> QED
      BY <1>0, <1>3, <2>1, <3>1, SameFilesKeep DEF Crash
  <2>2. CASE Legible /\ \E c \in Cut : Write([msg |-> callback, cut |-> c])
    BY <1>0, <1>3, <2>2, OtherWriteKeeps DEF Crash
  <2> QED
    BY <1>3, <2>1, <2>2 DEF Crash
<1>4. CASE StartRecorder
  BY <1>0, <1>4, SameFilesKeep DEF StartRecorder, RecorderTypeOK, Days
<1>5. CASE Deliver
  BY <1>0, <1>5, SameFilesKeep DEF Deliver, RecorderTypeOK, Days
<1>6. CASE DropMalformed
  BY <1>0, <1>6, SameFilesKeep DEF DropMalformed, Return, RecorderTypeOK, Days
<1>7. CASE AppendFails
  BY <1>0, <1>7, SameFilesKeep DEF AppendFails, Return, RecorderTypeOK, Days
<1>8. CASE CloseFails
  <2>1. handle' \in [is : {"none", "open", "closed"}, day : Days]
    BY <1>0, <1>8 DEF CloseFails, RecorderTypeOK
  <2>2. faults' \in 0..MaxFaults
    BY <1>0, <1>8 DEF CloseFails, RecorderTypeOK
  <2> QED
    BY <1>0, <1>8, <2>1, <2>2, SameFilesKeep DEF CloseFails, Return, RecorderTypeOK, Days
<1>9. CASE Acknowledge
  <2>1. callback \in fetched
    BY <1>9, RecorderTypes DEF Acknowledge
  <2> QED
    BY <1>0, <1>9, <2>1, SameFilesKeep DEF Acknowledge, RecorderTypeOK, Days
<1>10. CASE AcknowledgeIsLost
  BY <1>0, <1>10, SameFilesKeep DEF AcknowledgeIsLost, RecorderTypeOK, Days
<1>11. CASE StopRecorder
  BY <1>0, <1>11, SameFilesKeep DEF StopRecorder, RecorderTypeOK, Days
<1>12. CASE ProcessExits
  <2>1. faults' \in 0..MaxFaults
    BY <1>0, <1>12 DEF ProcessExits, RecorderTypeOK
  <2> QED
    BY <1>0, <1>12, <2>1, SameFilesKeep DEF ProcessExits, RecorderTypeOK, Days
<1> QED
  BY <1>1, <1>2, <1>3, <1>4, <1>5, <1>6, <1>7, <1>8, <1>9, <1>10, <1>11, <1>12 DEF RecorderNext

-----------------------------------------------------------------------------
\* The lines LoadTicks parses are lines of the file, and their stamps are stamps of ticks.
LEMMA ParsedAreTicks ==
  ASSUME RecorderIInv, NEW d \in Days
  PROVE  /\ IsFiniteSet(Parsed(files[d]))
         /\ \A k \in Parsed(files[d]) : k \in Nat /\ Stamp(files[d], k) \in Stamps
<1>1. files[d] \in Seq(Chunk) /\ \A k \in DOMAIN files[d] : Stamp(files[d], k) \in Stamps
  BY DEF RecorderIInv, FilesAreWritten
<1>2. DOMAIN files[d] = 1..Len(files[d]) /\ Len(files[d]) \in Nat
  BY <1>1, LenProperties
<1>3. Parsed(files[d]) \subseteq DOMAIN files[d]
  BY DEF Parsed
<1>4. IsFiniteSet(DOMAIN files[d])
  <2>1. \A n \in Nat : IsFiniteSet(1..n)
    BY FS_Interval
  <2> QED
    BY <1>2, <2>1
<1>5. IsFiniteSet(Parsed(files[d]))
  BY <1>3, <1>4, FS_Subset
<1> QED
  BY <1>1, <1>2, <1>3, <1>5

\* LoadTicks returns every parsed line once, in the order of the stamps.
LEMMA LoadTicksSorts ==
  ASSUME NEW f, IsFiniteSet(Parsed(f)),
         \A k \in Parsed(f) : k \in Nat /\ Stamp(f, k) \in Stamps
  PROVE  /\ LoadTicks(f) \in SetToSeqs(Parsed(f))
         /\ \A i, j \in DOMAIN LoadTicks(f) :
               i < j => Stamp(f, LoadTicks(f)[i]) <= Stamp(f, LoadTicks(f)[j])
<1> DEFINE S == Parsed(f)
           before(j, k) == \/ Stamp(f, j) < Stamp(f, k)
                           \/ Stamp(f, j) = Stamp(f, k) /\ j < k
           R == {x \in S \X S : x[1] = x[2] \/ before(x[1], x[2])}
<1>0. \A k \in S : k \in Nat /\ Stamp(f, k) \in Nat
  BY ArchiveAssumption
<1> HIDE DEF S
<1>1. Orders(R, S)
  <2>1. ASSUME NEW x \in S, NEW y \in S
        PROVE  <<x, y>> \in R \/ <<y, x>> \in R
    BY <1>0, <2>1
  <2>2. ASSUME NEW x \in S, NEW y \in S, NEW z \in S, <<x, y>> \in R, <<y, z>> \in R
        PROVE  <<x, z>> \in R
    BY <1>0, <2>2
  <2> HIDE DEF R
  <2> QED
    BY <2>1, <2>2 DEF Orders
<1>2. PICK s \in SetToSeqs(S) : \A i, j \in DOMAIN s : i < j => <<s[i], s[j]>> \in R
  <2>1. IsFiniteSet(S)
    BY DEF S
  <2> HIDE DEF R
  <2> QED
    BY <1>1, <2>1, SortedExists
<1>3. Cardinality(S) \in Nat
  BY FS_CardinalityType DEF S
<1>4. \A i, j \in DOMAIN s : i < j => before(s[i], s[j])
  <2> SUFFICES ASSUME NEW i \in DOMAIN s, NEW j \in DOMAIN s, i < j
               PROVE  before(s[i], s[j])
    OBVIOUS
  <2>1. DOMAIN s = 1..Cardinality(S) /\ \A a, b \in 1..Cardinality(S) : a # b => s[a] # s[b]
    BY DEF SetToSeqs
  <2>2. s[i] # s[j]
    BY <1>3, <2>1
  <2>3. <<s[i], s[j]>> \in R
    BY <1>2
  <2> QED
    BY <2>2, <2>3
<1>5. /\ LoadTicks(f) \in SetToSeqs(S)
      /\ \A i, j \in DOMAIN LoadTicks(f) : i < j => before(LoadTicks(f)[i], LoadTicks(f)[j])
  <2> DEFINE inOrder(t) == \A i, j \in DOMAIN t : i < j => before(t[i], t[j])
  <2>1. LoadTicks(f) = CHOOSE t \in SetToSeqs(S) : inOrder(t)
    BY DEF LoadTicks, Sorted, S
  <2>2. \E t \in SetToSeqs(S) : inOrder(t)
    BY <1>4
  <2> HIDE DEF inOrder
  <2>3. LoadTicks(f) \in SetToSeqs(S) /\ inOrder(LoadTicks(f))
    BY <2>1, <2>2
  <2> QED
    BY <2>3 DEF inOrder
<1>6. \A i \in DOMAIN LoadTicks(f) : LoadTicks(f)[i] \in S
  BY <1>5 DEF SetToSeqs
<1>7. \A i, j \in DOMAIN LoadTicks(f) :
         i < j => Stamp(f, LoadTicks(f)[i]) <= Stamp(f, LoadTicks(f)[j])
  BY <1>0, <1>5, <1>6
<1> QED
  BY <1>5, <1>7 DEF S

\* The schedule of a file with a tick has a step, and is in the order of the stamps.
LEMMA PlanIsSorted ==
  ASSUME RecorderIInv, NEW d \in Days, Parsed(files[d]) # {}, NEW paced \in BOOLEAN
  PROVE  LET p == Plan(files[d], paced) IN
           /\ p \in Seq([stamp : Stamps, gap : BOOLEAN]) /\ Len(p) \in Nat \ {0}
           /\ \A i, j \in DOMAIN p : i < j => p[i].stamp <= p[j].stamp
<1> DEFINE f == files[d]
           s == LoadTicks(f)
           n == Cardinality(Parsed(f))
           p == Plan(f, paced)
<1>1. /\ IsFiniteSet(Parsed(f))
      /\ \A k \in Parsed(f) : k \in Nat /\ Stamp(f, k) \in Stamps
  BY ParsedAreTicks
<1>2. n \in Nat \ {0}
  BY <1>1, FS_CardinalityType, FS_EmptySet
<1>3. /\ s \in SetToSeqs(Parsed(f))
      /\ \A i, j \in DOMAIN s : i < j => Stamp(f, s[i]) <= Stamp(f, s[j])
  BY <1>1, LoadTicksSorts
<1>4. s \in [1..n -> Parsed(f)] /\ DOMAIN s = 1..n
  BY <1>3 DEF SetToSeqs
<1>5. p = [i \in DOMAIN s |->
             [stamp |-> Stamp(f, s[i]),
              gap   |-> paced /\ i > 1 /\ Stamp(f, s[i]) > Stamp(f, s[i - 1])]]
  BY DEF Plan
<1> HIDE DEF f, s, n, p
<1>6. \A i \in 1..n : p[i] \in [stamp : Stamps, gap : BOOLEAN] /\ p[i].stamp = Stamp(f, s[i])
  BY <1>1, <1>4, <1>5
<1>7. DOMAIN p = 1..n
  BY <1>4, <1>5
<1>8. p \in [1..n -> [stamp : Stamps, gap : BOOLEAN]]
  BY <1>4, <1>5, <1>6
<1>9. p \in Seq([stamp : Stamps, gap : BOOLEAN]) /\ Len(p) = n
  <2> DEFINE T == [stamp : Stamps, gap : BOOLEAN]
  <2>1. p \in [1..n -> T]
    BY <1>8
  <2> HIDE DEF T
  <2>2. p \in Seq(T)
    BY <1>2, <2>1, IsASeq
  <2>3. Len(p) = n
    BY <1>2, <1>7, <2>2, LenProperties
  <2> QED
    BY <2>2, <2>3 DEF T
<1>10. \A i, j \in DOMAIN p : i < j => p[i].stamp <= p[j].stamp
  BY <1>3, <1>4, <1>6, <1>7
<1> QED
  BY <1>2, <1>9, <1>10 DEF p, f

\* Every step of the replay tool keeps its schedule.
LEMMA ReplayNextKeeps ==
  ASSUME RecorderIInv, ReplayIInv, ReplayNext
  PROVE  ReplayIInv'
<1> DEFINE Steps == Seq([stamp : Stamps, gap : BOOLEAN])
<1>1. /\ plan \in Steps /\ Len(plan) \in Nat /\ DOMAIN plan = 1..Len(plan)
      /\ sent \in 0..Len(plan) /\ aborted \in {{}} \cup {{n} : n \in 0..sent}
      /\ ReplayIsOnSchedule
  BY LenProperties DEF ReplayIInv
<1> HIDE DEF Steps
<1>2. CASE StartReplay
  <2>1. PICK d \in Days, paced \in BOOLEAN :
           /\ Parsed(files[d]) # {} /\ plan' = Plan(files[d], paced) /\ ToStep(plan', 1)
    BY <1>2 DEF StartReplay
  <2>2. /\ plan' \in Steps /\ Len(plan') \in Nat \ {0}
        /\ \A i, j \in DOMAIN plan' : i < j => plan'[i].stamp <= plan'[j].stamp
    BY <2>1, PlanIsSorted DEF Steps
  <2>3. sent' = 0 /\ aborted' = {}
    <3>1. sent = 0 /\ aborted = {} /\ UNCHANGED <<sent, aborted>>
      <4>1. replay = "off" /\ UNCHANGED <<sent, aborted>>
        BY <1>2 DEF StartReplay
      <4>2. plan = <<>> /\ aborted = {}
        BY <1>1, <4>1 DEF ReplayIsOnSchedule
      <4>3. Len(plan) = 0
        BY <4>2
      <4> QED
        BY <1>1, <4>1, <4>2, <4>3
    <3> QED
      BY <3>1
  <2>4. replay' \in {"waiting", "publishing"}
    BY <2>1, <2>2 DEF ToStep
  <2> QED
    BY <2>2, <2>3, <2>4 DEF ReplayIInv, ReplayIsOnSchedule, Steps
<1>3. CASE CtrlC
  <2>1. /\ UNCHANGED <<replay, plan, sent>> /\ aborted' = {sent} /\ replay \in {"waiting", "publishing"}
    BY <1>3 DEF CtrlC
  <2>2. \A n \in aborted' : n = sent
    BY <2>1
  <2>3. aborted' \in {{}} \cup {{n} : n \in 0..sent'}
    BY <1>1, <2>1
  <2>4. ReplayIsOnSchedule'
    BY <1>1, <2>1, <2>2 DEF ReplayIsOnSchedule
  <2> QED
    BY <2>1, <2>3, <2>4 DEF ReplayIInv
<1>4. CASE GapPasses
  <2>1. /\ replay = "waiting" /\ aborted \subseteq {sent} /\ replay' = "publishing"
        /\ UNCHANGED <<plan, sent, aborted>>
    BY <1>4 DEF GapPasses
  <2>2. \A n \in aborted : ~(n < sent)
    BY <1>1, <2>1
  <2>3. ReplayIsOnSchedule'
    BY <1>1, <2>1, <2>2 DEF ReplayIsOnSchedule
  <2> QED
    BY <2>1, <2>3 DEF ReplayIInv
<1>5. CASE HearAbort \/ ReplayPublishFails
  <2>1. replay' = "done" /\ UNCHANGED <<plan, sent, aborted>>
    BY <1>5 DEF HearAbort, ReplayPublishFails
  <2>2. ReplayIsOnSchedule'
    BY <1>1, <2>1 DEF ReplayIsOnSchedule
  <2> QED
    BY <2>1, <2>2 DEF ReplayIInv
<1>6. CASE ReplayPublishes
  <2>1. /\ replay = "publishing" /\ sent' = sent + 1 /\ ToStep(plan, sent + 2)
        /\ UNCHANGED <<plan, aborted>>
    BY <1>6 DEF ReplayPublishes
  <2>2. sent < Len(plan)
    BY <1>1, <2>1 DEF ReplayIsOnSchedule
  <2>3. sent' \in 0..Len(plan) /\ \A n \in 0..sent : n \in 0..sent'
    BY <1>1, <2>1, <2>2
  <2>4. aborted' \in {{}} \cup {{n} : n \in 0..sent'}
    BY <1>1, <2>1, <2>3
  <2>5. /\ replay' \in {"waiting", "publishing", "done"}
        /\ replay' # "done" => sent' < Len(plan)
        /\ replay' = "publishing" => ~plan[sent' + 1].gap
    <3>1. sent + 2 = sent' + 1 /\ (~(sent + 2 > Len(plan)) => sent' < Len(plan))
      BY <1>1, <2>1
    <3> QED
      BY <2>1, <3>1 DEF ToStep
  <2>6. ASSUME NEW n \in aborted
        PROVE  \A i \in (n + 2)..sent' : ~plan[i].gap
    <3>1. n \in 0..sent
      BY <1>1
    <3>2. \A i \in (n + 2)..sent' : i \in (n + 2)..sent \/ (i = sent + 1 /\ n < sent)
      BY <1>1, <2>1, <3>1
    <3>3. /\ \A i \in (n + 2)..sent : ~plan[i].gap
          /\ n < sent => ~plan[sent + 1].gap
      BY <1>1, <2>1 DEF ReplayIsOnSchedule
    <3> QED
      BY <3>2, <3>3
  <2>7. ReplayIsOnSchedule'
    BY <1>1, <2>1, <2>5, <2>6 DEF ReplayIsOnSchedule
  <2> QED
    BY <1>1, <2>1, <2>3, <2>4, <2>5, <2>7 DEF ReplayIInv, Steps
<1>7. CASE ReplayExits
  <2>1. replay' = "off" /\ plan' = <<>> /\ sent' = 0 /\ aborted' = {}
    BY <1>7 DEF ReplayExits
  <2>2. plan' \in Steps /\ Len(plan') = 0 /\ DOMAIN plan' = {}
    <3>1. \A S : <<>> \in Seq(S)
      OBVIOUS
    <3> QED
      BY <2>1, <3>1 DEF Steps
  <2> QED
    BY <2>1, <2>2 DEF ReplayIInv, ReplayIsOnSchedule, Steps
<1> QED
  BY <1>2, <1>3, <1>4, <1>5, <1>6, <1>7 DEF ReplayNext

\* Every step of the stream, the clock, the recorder and the replay keeps the invariant.
LEMMA ArchiveNextIInv == ArchiveIInv /\ [ArchiveNext]_archiveVars => ArchiveIInv'
<1> SUFFICES ASSUME RecorderIInv, ReplayIInv, [ArchiveNext]_archiveVars
             PROVE  RecorderIInv' /\ ReplayIInv'
  <2>1. ArchiveIInv' <=> RecorderIInv' /\ ReplayIInv'
    BY ArchiveInTwo, PTL
  <2> QED
    BY <2>1, ArchiveInTwo
<1>0. UNCHANGED replayVars => ReplayIInv'
  BY DEF replayVars, ReplayIInv, ReplayIsOnSchedule
<1>1. CASE PriceAppears
  BY <1>0, <1>1, LongerStreamKeeps DEF PriceAppears
<1>2. CASE Midnight
  <2>1. UNCHANGED <<stream, recorderVars, replayVars>> /\ today' \in Days
    BY <1>2, ArchiveAssumption DEF Midnight, RecorderIInv, RecorderTypeOK, Days
  <2>2. RecorderTypeOK'
    BY <2>1 DEF RecorderIInv, RecorderTypeOK, recorderVars, Days
  <2> QED
    BY <1>0, <2>1, <2>2, SameFilesKeep DEF recorderVars
<1>3. CASE RecorderNext
  BY <1>0, <1>3, RecorderNextKeeps DEF RecorderNext
<1>4. CASE ReplayNext
  <2>1. CASE UNCHANGED <<stream, today, recorderVars>>
    <3>1. RecorderTypeOK'
      BY <2>1 DEF RecorderIInv, RecorderTypeOK, recorderVars, Days
    <3> QED
      BY <1>4, <2>1, <3>1, ReplayNextKeeps, SameFilesKeep DEF recorderVars
  <2>2. CASE /\ ReplayPublishes /\ Len(stream) < MaxMessages
             /\ stream' = Append(stream, plan[sent + 1].stamp)
    <3>1. sent + 1 \in DOMAIN plan
      <4>1. sent < Len(plan) /\ Len(plan) \in Nat /\ sent \in Nat /\ DOMAIN plan = 1..Len(plan)
        BY <2>2, LenProperties DEF ReplayPublishes, ReplayIInv, ReplayIsOnSchedule
      <4> QED
        BY <4>1
    <3>2. plan[sent + 1].stamp \in Stamps \cup {Malformed}
      <4>1. plan[sent + 1] \in [stamp : Stamps, gap : BOOLEAN]
        <5> DEFINE T == [stamp : Stamps, gap : BOOLEAN]
        <5>1. plan \in Seq(T)
          BY DEF ReplayIInv
        <5> HIDE DEF T
        <5>2. plan[sent + 1] \in T
          BY <3>1, <5>1, LenProperties
        <5> QED
          BY <5>2 DEF T
      <4> QED
        BY <4>1
    <3>3. UNCHANGED <<today, recorderVars>>
      BY <2>2 DEF ReplayPublishes
    <3> QED
      BY <1>4, <2>2, <3>2, <3>3, LongerStreamKeeps, ReplayNextKeeps
  <2> QED
    BY <1>4, <2>1, <2>2
    DEF ReplayNext, StartReplay, CtrlC, GapPasses, HearAbort, ReplayPublishes,
        ReplayPublishFails, ReplayExits
<1>5. CASE UNCHANGED archiveVars
  <2>1. UNCHANGED <<stream, today, recorderVars, replayVars>>
    BY <1>5 DEF archiveVars
  <2>2. RecorderTypeOK'
    BY <2>1 DEF RecorderIInv, RecorderTypeOK, recorderVars, Days
  <2> QED
    BY <1>0, <2>1, <2>2, SameFilesKeep DEF recorderVars
<1> QED
  BY <1>1, <1>2, <1>3, <1>4, <1>5 DEF ArchiveNext

\* A line that is whole is parsed, unless it stands behind a cut one.
LEMMA WrittenIsParsed == ArchiveIInv => StoredIsParsed
<1> SUFFICES ASSUME ArchiveIInv, NEW i \in stored
             PROVE  \E d \in Days : \E k \in DOMAIN files[d] :
                       /\ files[d][k].msg = i
                       /\ k \in Parsed(files[d]) \/ (k > 1 /\ files[d][k - 1].cut # "no")
  BY DEF StoredIsParsed
<1>1. PICK d \in Days : \E k \in DOMAIN files[d] : files[d][k].msg = i /\ files[d][k].cut = "no"
  BY DEF ArchiveIInv, StoredIsWritten
<1>2. PICK k \in DOMAIN files[d] : files[d][k].msg = i /\ files[d][k].cut = "no"
  BY <1>1
<1>3. k \in Parsed(files[d]) \/ (k > 1 /\ files[d][k - 1].cut # "no")
  BY <1>2 DEF Parsed
<1> QED
  BY <1>2, <1>3

\* What is published is a beginning of the schedule.
LEMMA ScheduleIsKept == ArchiveIInv => ReplayKeepsItsSchedule
<1> SUFFICES ASSUME ArchiveIInv PROVE ReplayKeepsItsSchedule
  OBVIOUS
<1>1. plan \in Seq([stamp : Stamps, gap : BOOLEAN]) /\ sent \in 0..Len(plan) /\ ReplayIsOnSchedule
  BY DEF ArchiveIInv, ArchiveTypeOK
<1>2. \A i \in 1..sent : i \in DOMAIN plan
  BY <1>1, LenProperties
<1> QED
  BY <1>1, <1>2 DEF ReplayKeepsItsSchedule, ReplayIsOnSchedule

\* The recorder, its files and the replay tool keep their invariant.
THEOREM ArchiveInvariance == ArchiveSpec => []ArchiveIInv
BY ArchiveInitIInv, ArchiveNextIInv, PTL DEF ArchiveSpec

\* Through any number of days, rotations, restarts, repeated deliveries, failing calls and
\* broken lines, a stored tick is parsed by LoadTicks, unless the write before it in the
\* file was cut (store.go:52, engine.go:36).
THEOREM StoredTicksAreParsed == ArchiveSpec => []StoredIsParsed
BY ArchiveInvariance, WrittenIsParsed, PTL

\* Whatever stands in the file and in whatever order, the replay publishes in the order of
\* the stamps, and waits out no gap that begins after Ctrl-C (engine.go:56, engine.go:102).
THEOREM ReplayIsOrdered == ArchiveSpec => []ReplayKeepsItsSchedule
BY ArchiveInvariance, ScheduleIsKept, PTL
-----------------------------------------------------------------------------
(***************************************************************************)
(* The breakout detector.                                                  *)
(***************************************************************************)

\* The function behind the fold of Total, over the places of s.
TotalOf(s) ==
  LET iter[t \in SUBSET DOMAIN s] ==
        IF t = {} THEN 0 ELSE iter[t \ {Max(t)}] + s[Max(t)]
  IN  iter

\* Total adds the places up one after the other.
LEMMA TotalIsFold ==
  ASSUME NEW n \in Nat, NEW s \in [1..n -> Int]
  PROVE  /\ Total(s) = TotalOf(s)[1..n]
         /\ TotalOf(s)[1..0] = 0
         /\ \A k \in 1..n : TotalOf(s)[1..k] = TotalOf(s)[1..(k - 1)] + s[k]
<1> DEFINE step == [x \in (1..n) \X Int |-> x[2] + s[x[1]]]
<1>1. step \in [(1..n) \X Int -> Int] /\ DOMAIN s = 1..n
  OBVIOUS
<1>2. PICK F \in [SUBSET (1..n) -> Int] : FoldsTo(F, n, 0, step)
  <2> DEFINE T == Int
             base == 0
  <2>1. base \in T /\ step \in [(1..n) \X T -> T]
    BY <1>1
  <2> HIDE DEF step, T, base
  <2>2. \E F \in [SUBSET (1..n) -> T] : FoldsTo(F, n, base, step)
    BY <2>1, FoldExists
  <2> QED
    BY <2>2 DEF T, base
<1>3. F = [t \in SUBSET DOMAIN s |-> IF t = {} THEN 0 ELSE F[t \ {Max(t)}] + s[Max(t)]]
  <2>1. ASSUME NEW t \in SUBSET (1..n), t # {}
        PROVE  F[t] = F[t \ {Max(t)}] + s[Max(t)]
    <3>1. Max(t) \in 1..n /\ F[t \ {Max(t)}] \in Int
      BY <2>1, MaxOfPlaces
    <3> QED
      BY <1>2, <2>1, <3>1 DEF FoldsTo
  <2> QED
    BY <1>1, <1>2, <2>1 DEF FoldsTo
<1>4. TotalOf(s) = [t \in SUBSET DOMAIN s |->
                      IF t = {} THEN 0 ELSE TotalOf(s)[t \ {Max(t)}] + s[Max(t)]]
  BY <1>3, Zenon DEF TotalOf
<1>5. Total(s) = TotalOf(s)[1..n]
  BY <1>1 DEF Total, FoldLeft, MapThenFoldSet, TotalOf
<1>6. \A k \in 1..n : TotalOf(s)[1..k] = TotalOf(s)[1..(k - 1)] + s[k]
  <2> SUFFICES ASSUME NEW k \in 1..n
               PROVE  TotalOf(s)[1..k] = TotalOf(s)[1..(k - 1)] + s[k]
    OBVIOUS
  <2>1. k \in 1..k /\ 1..k \subseteq 1..n
    OBVIOUS
  <2> QED
    BY <1>1, <1>4, <2>1, MaxOfSegment
<1>7. TotalOf(s)[1..0] = 0
  BY <1>4
<1> QED
  BY <1>5, <1>6, <1>7

\* The total of n prices that are all the same.
LEMMA TotalOfConstant ==
  ASSUME NEW n \in Nat, NEW p \in Int, NEW s \in [1..n -> Int], \A i \in 1..n : s[i] = p
  PROVE  Total(s) = n * p
<1> DEFINE S == {k \in 0..n : TotalOf(s)[1..k] = k * p}
<1>1. 0 \in S
  BY TotalIsFold
<1>2. ASSUME NEW k \in 1..n, k - 1 \in S
      PROVE  k \in S
  <2>1. TotalOf(s)[1..k] = (k - 1) * p + p
    <3>1. TotalOf(s)[1..k] = TotalOf(s)[1..(k - 1)] + s[k]
      BY TotalIsFold
    <3>2. TotalOf(s)[1..(k - 1)] = (k - 1) * p /\ s[k] = p
      BY <1>2
    <3> QED
      BY <3>1, <3>2
  <2>2. (k - 1) * p + p = k * p
    OBVIOUS
  <2> QED
    BY <2>1, <2>2
<1>3. n \in S
  <2> HIDE DEF S
  <2> QED
    BY <1>1, <1>2, UpTo
<1> QED
  BY <1>3, TotalIsFold

\* The candles Candles makes of ticks.
Candle == [minute : Minutes, close : Prices, volume : Nat]

\* Whatever candles there are, the tick that is added closes the last of them.
LEMMA AddTickCloses ==
  ASSUME NEW cs \in Seq(Candle), NEW t \in FeedTick
  PROVE  /\ AddTick(cs, t) \in Seq(Candle)
         /\ AddTick(cs, t) # <<>>
         /\ Last(AddTick(cs, t)).close = t.price
<1>1. t.minute \in Minutes /\ t.price \in Prices /\ t.volume \in Nat
  BY VolumesAssumption DEF FeedTick
<1>2. CASE cs = <<>> \/ Last(cs).minute # t.minute
  <2> DEFINE c == [minute |-> t.minute, close |-> t.price, volume |-> t.volume]
  <2>1. c \in Candle /\ AddTick(cs, t) = Append(cs, c)
    BY <1>1, <1>2 DEF Candle, AddTick
  <2>2. Append(cs, c) \in Seq(Candle) /\ Len(Append(cs, c)) = Len(cs) + 1 /\ Append(cs, c)[Len(cs) + 1] = c
    <3> HIDE DEF c
    <3> QED
      BY <2>1, AppendProperties
  <2>3. Append(cs, c) # <<>>
    <3> HIDE DEF c
    <3> QED
      BY <2>1, AppendProperties
  <2> QED
    BY <2>1, <2>2, <2>3 DEF Last
<1>3. CASE ~(cs = <<>> \/ Last(cs).minute # t.minute)
  <2> DEFINE c == [minute |-> t.minute, close |-> t.price,
                   volume |-> cs[Len(cs)].volume + t.volume]
  <2>1. Len(cs) \in DOMAIN cs /\ DOMAIN cs = 1..Len(cs) /\ Len(cs) \in Nat
    BY <1>3, EmptySeq, LenProperties
  <2>2. cs[Len(cs)].volume \in Nat
    <3>1. cs[Len(cs)] \in Candle
      BY <2>1, ElementOfSeq
    <3> QED
      BY <3>1 DEF Candle
  <2>3. c \in Candle
    BY <1>1, <2>2 DEF Candle
  <2>4. AddTick(cs, t) = [cs EXCEPT ![Len(cs)] = c]
    BY <1>3 DEF AddTick
  <2> HIDE DEF c
  <2>5. [cs EXCEPT ![Len(cs)] = c] \in Seq(Candle) /\ Len([cs EXCEPT ![Len(cs)] = c]) = Len(cs)
    BY <2>1, <2>3, ExceptSeq
  <2>6. AddTick(cs, t)[Len(cs)] = c
    BY <2>1, <2>4
  <2>7. c.close = t.price
    BY DEF c
  <2> QED
    BY <1>3, <2>1, <2>4, <2>5, <2>6, <2>7, EmptySeq DEF Last
<1> QED
  BY <1>2, <1>3

\* The function behind the fold of Candles, over the places of h.
CandlesOf(h) ==
  LET iter[s \in SUBSET DOMAIN h] ==
        IF s = {} THEN <<>> ELSE AddTick(iter[s \ {Max(s)}], h[Max(s)])
  IN  iter

\* Candles hands the ticks to AddTick one after the other.
LEMMA CandlesIsFold ==
  ASSUME NEW n \in Nat, NEW h \in [1..n -> FeedTick]
  PROVE  /\ Candles(h) = CandlesOf(h)[1..n]
         /\ CandlesOf(h)[1..0] = <<>>
         /\ \A k \in 1..n : CandlesOf(h)[1..k] = AddTick(CandlesOf(h)[1..(k - 1)], h[k])
<1> DEFINE T == Seq(Candle)
           base == <<>>
           step == [x \in (1..n) \X T |-> AddTick(x[2], h[x[1]])]
<1>1. DOMAIN h = 1..n /\ base \in T
  OBVIOUS
<1>2. step \in [(1..n) \X T -> T]
  <2>1. \A x \in (1..n) \X T : AddTick(x[2], h[x[1]]) \in T
    BY AddTickCloses
  <2> QED
    BY <2>1
<1>3. PICK F \in [SUBSET (1..n) -> T] : FoldsTo(F, n, base, step)
  <2> HIDE DEF step, T, base
  <2> QED
    BY <1>1, <1>2, FoldExists
<1>4. F = [t \in SUBSET DOMAIN h |->
             IF t = {} THEN <<>> ELSE AddTick(F[t \ {Max(t)}], h[Max(t)])]
  <2>1. ASSUME NEW t \in SUBSET (1..n), t # {}
        PROVE  F[t] = AddTick(F[t \ {Max(t)}], h[Max(t)])
    <3>1. Max(t) \in 1..n /\ F[t \ {Max(t)}] \in T
      BY <2>1, MaxOfPlaces
    <3>2. F[t] = step[<<Max(t), F[t \ {Max(t)}]>>]
      BY <1>3, <2>1 DEF FoldsTo
    <3> QED
      BY <3>1, <3>2
  <2>2. F[{}] = <<>>
    BY <1>3 DEF FoldsTo
  <2> QED
    BY <1>1, <2>1, <2>2
<1>5. CandlesOf(h) = [t \in SUBSET DOMAIN h |->
                        IF t = {} THEN <<>> ELSE AddTick(CandlesOf(h)[t \ {Max(t)}], h[Max(t)])]
  BY <1>4, Zenon DEF CandlesOf
<1>6. Candles(h) = CandlesOf(h)[1..n]
  BY <1>1 DEF Candles, FoldLeft, MapThenFoldSet, CandlesOf
<1>7. ASSUME NEW k \in 1..n
      PROVE  CandlesOf(h)[1..k] = AddTick(CandlesOf(h)[1..(k - 1)], h[k])
  <2>1. k \in 1..k /\ 1..k \subseteq 1..n
    OBVIOUS
  <2> QED
    BY <1>1, <1>5, <2>1, MaxOfSegment
<1>8. CandlesOf(h)[1..0] = <<>>
  BY <1>5
<1> QED
  BY <1>6, <1>7, <1>8

\* The last candle closes at the price of the last tick.
LEMMA LastCandle ==
  ASSUME NEW n \in Nat \ {0}, NEW h \in [1..n -> FeedTick]
  PROVE  /\ Candles(h) \in Seq(Candle) /\ Candles(h) # <<>>
         /\ Last(Candles(h)).close = h[n].price
<1> DEFINE S == {k \in 0..n : CandlesOf(h)[1..k] \in Seq(Candle)}
<1>0. /\ Candles(h) = CandlesOf(h)[1..n]
      /\ CandlesOf(h)[1..0] = <<>>
      /\ \A k \in 1..n : CandlesOf(h)[1..k] = AddTick(CandlesOf(h)[1..(k - 1)], h[k])
  BY CandlesIsFold
<1>1. 0 \in S
  <2>1. <<>> \in Seq(Candle) /\ 0 \in 0..n
    OBVIOUS
  <2> QED
    BY <1>0, <2>1
<1>2. ASSUME NEW k \in 1..n, k - 1 \in S
      PROVE  k \in S
  <2>1. CandlesOf(h)[1..(k - 1)] \in Seq(Candle) /\ h[k] \in FeedTick
    BY <1>2
  <2>2. AddTick(CandlesOf(h)[1..(k - 1)], h[k]) \in Seq(Candle)
    BY <2>1, AddTickCloses
  <2> QED
    BY <1>0, <2>2
<1>3. n - 1 \in S
  <2> HIDE DEF S
  <2> QED
    BY <1>1, <1>2, UpTo
<1>4. Candles(h) = AddTick(CandlesOf(h)[1..(n - 1)], h[n]) /\ h[n] \in FeedTick
  BY <1>0
<1> QED
  BY <1>3, <1>4, AddTickCloses

\* Push: the new tick is the last; those before it are the last of the queue, which
\* loses its first when it is full.
LEMMA PushAtEnd ==
  ASSUME NEW h, IsHistory(h), NEW t \in FeedTick
  PROVE  \E d \in {0, 1}, m \in Nat :
            /\ Len(h) = m + d
            /\ IsHistory(Push(h, t)) /\ Len(Push(h, t)) = m + 1
            /\ Push(h, t)[m + 1] = t
            /\ \A i \in 1..m : Push(h, t)[i] = h[i + d]
<1> DEFINE g == IF Len(h) < Size THEN h ELSE Tail(h)
<1>1. h \in Seq(FeedTick) /\ Len(h) \in Nat /\ Len(h) <= Size /\ Size \in Nat \ {0}
  BY SizeAssumption, LenProperties DEF IsHistory
<1>2. \E d \in {0, 1} : /\ g \in Seq(FeedTick) /\ Len(g) \in Nat /\ Len(g) < Size
                        /\ Len(h) = Len(g) + d
                        /\ \A i \in 1..Len(g) : g[i] = h[i + d]
  <2>1. CASE Len(h) < Size
    <3>1. g = h /\ Len(h) = Len(h) + 0 /\ \A i \in 1..Len(h) : i + 0 = i
      BY <1>1, <2>1
    <3> QED
      BY <1>1, <2>1, <3>1
  <2>2. CASE ~(Len(h) < Size)
    <3>1. Len(h) = Size /\ Len(h) # 0
      BY <1>1, <2>2
    <3>2. h # <<>>
      BY <1>1, <3>1, EmptySeq
    <3>3. /\ Tail(h) \in Seq(FeedTick) /\ Len(Tail(h)) = Len(h) - 1
          /\ \A i \in 1..Len(Tail(h)) : Tail(h)[i] = h[i + 1]
      BY <1>1, <3>2, HeadTailProperties
    <3> QED
      BY <1>1, <2>2, <3>1, <3>3
  <2> QED
    BY <2>1, <2>2
<1> HIDE DEF g
<1>3. Push(h, t) = Append(g, t)
  BY DEF Push, g
<1>4. /\ Append(g, t) \in Seq(FeedTick) /\ Len(Append(g, t)) = Len(g) + 1
      /\ Append(g, t)[Len(g) + 1] = t
      /\ \A i \in 1..Len(g) : Append(g, t)[i] = g[i]
  BY <1>2, AppendProperties
<1>5. IsHistory(Push(h, t))
  <2>1. Push(h, t) \in Seq(FeedTick) /\ Len(Push(h, t)) <= Size
    BY <1>1, <1>2, <1>3, <1>4
  <2> QED
    BY <2>1, SizeAssumption DEF IsHistory
<1> QED
  BY <1>2, <1>3, <1>4, <1>5

\* Patch changes no price and no minute.
LEMMA PatchKeepsPrices ==
  ASSUME NEW h, IsHistory(h), NEW v \in Volumes
  PROVE  /\ IsHistory(Patch(h, v))
         /\ Len(Patch(h, v)) = Len(h)
         /\ \A i \in DOMAIN h : Patch(h, v)[i].price = h[i].price
         /\ \A i \in DOMAIN h : Patch(h, v)[i].minute = h[i].minute
<1>1. h \in Seq(FeedTick) /\ Len(h) \in 0..Size /\ DOMAIN h = 1..Len(h)
  BY SizeAssumption, LenProperties DEF IsHistory
<1>2. CASE h = <<>>
  BY <1>2 DEF Patch
<1>3. CASE h # <<>>
  <2> DEFINE t == [h[Len(h)] EXCEPT !.volume = v]
  <2>1. Len(h) \in 1..Len(h)
    BY <1>1, <1>3, EmptySeq
  <2>2. h[Len(h)] \in FeedTick
    BY <1>1, <2>1
  <2>3. t \in FeedTick /\ t.price = h[Len(h)].price /\ t.minute = h[Len(h)].minute
    BY <2>2 DEF FeedTick
  <2>4. Patch(h, v) = [h EXCEPT ![Len(h)] = t]
    BY <1>3 DEF Patch
  <2> HIDE DEF t
  <2>5. Patch(h, v) \in Seq(FeedTick) /\ Len(Patch(h, v)) = Len(h)
    BY <1>1, <2>1, <2>3, <2>4, ExceptSeq
  <2>6. /\ \A i \in DOMAIN h : Patch(h, v)[i].price = h[i].price
        /\ \A i \in DOMAIN h : Patch(h, v)[i].minute = h[i].minute
    BY <1>1, <2>1, <2>3, <2>4
  <2>7. IsHistory(Patch(h, v))
    BY <1>1, <2>5, SizeAssumption DEF IsHistory
  <2> QED
    BY <2>5, <2>6, <2>7
<1> QED
  BY <1>2, <1>3

\* A price on which the whole window lies is outside of no band.
LEMMA FlatWindowHasNoBand ==
  ASSUME NEW n \in Nat, NEW p \in Nat, NEW s \in Seq(Nat), Len(s) = n,
         \A i \in 1..n : s[i] = p
  PROVE  BandSide(p, s) = "none"
<1> DEFINE distance == Len(s) * p - Total(s)
<1>1. s \in [1..n -> Int]
  BY LenProperties
<1>2. Total(s) = n * p
  BY <1>1, TotalOfConstant
<1>3. distance = 0
  BY <1>2
<1> HIDE DEF distance
<1>4. ~(distance > 0) /\ ~(distance < 0)
  BY <1>3
<1> QED
  BY <1>4 DEF BandSide, distance

\* A store without ticks is one of the histories.
LEMMA NoTicks == IsHistory(<<>>) /\ DOMAIN <<>> = {}
<1>1. <<>> \in Seq(FeedTick) /\ Len(<<>>) = 0 /\ DOMAIN <<>> = {}
  OBVIOUS
<1>2. Size \in Nat /\ 0 <= Size
  BY SizeAssumption
<1> DEFINE h == <<>>
<1>3. h \in Seq(FeedTick) /\ Len(h) <= Size
  BY <1>1, <1>2
<1> HIDE DEF h
<1>4. IsHistory(h)
  BY <1>2, <1>3 DEF IsHistory
<1> QED
  BY <1>1, <1>4 DEF h

\* At the start there are no ticks, no indicators and no snapshot.
LEMMA DetectorInitIInv == DetectorInit => DetectorIInv
<1> SUFFICES ASSUME DetectorInit PROVE DetectorIInv
  OBVIOUS
<1> USE DEF DetectorInit
<1>1. IsHistory(ticks) /\ DOMAIN ticks = {}
  BY NoTicks
<1>2. ltp = NoLtp /\ polls \in 0..Period
  BY DetectorAssumption
<1> QED
  BY <1>1, <1>2 DEF DetectorIInv, DetectorTypeOK, TailIsSnapshot, StaleHasNoSide

\* The poller stores the price of the snapshot once more.
LEMMA PollKeepsTail ==
  ASSUME DetectorIInv, PollLtp
  PROVE  IsHistory(ticks') /\ polls' \in 0..Period /\ TailIsSnapshot'
<1> DEFINE t == [price |-> ltp.price, volume |-> NoVolume, minute |-> ltp.minute]
<1>1. t \in FeedTick
  BY VolumesAssumption
  DEF PollLtp, DetectorIInv, DetectorTypeOK, NoLtp, FeedTick
<1>2. ticks' = Push(ticks, t) /\ ltp' = ltp /\ t.price = ltp.price
  BY DEF PollLtp
<1>3. IsHistory(ticks) /\ polls \in 0..Period /\ Period \in Nat
  BY DetectorAssumption DEF DetectorIInv, DetectorTypeOK
<1>4. polls' \in 0..Period /\ polls' <= polls + 1
  BY <1>3 DEF PollLtp
<1> HIDE DEF t
<1>5. PICK d \in {0, 1}, m \in Nat :
         /\ Len(ticks) = m + d
         /\ IsHistory(Push(ticks, t)) /\ Len(Push(ticks, t)) = m + 1
         /\ Push(ticks, t)[m + 1] = t
         /\ \A i \in 1..m : Push(ticks, t)[i] = ticks[i + d]
  BY <1>1, <1>3, PushAtEnd
<1>6. DOMAIN ticks = 1..(m + d) /\ DOMAIN ticks' = 1..(m + 1)
  BY <1>2, <1>3, <1>5, SizeAssumption, LenProperties DEF IsHistory
<1>7. ASSUME NEW i \in DOMAIN ticks', i > Len(ticks') - polls'
      PROVE  ticks'[i].price = ltp.price
  <2>1. CASE i = m + 1
    BY <1>2, <1>5, <2>1
  <2>2. CASE i # m + 1
    <3>1. i \in 1..m
      BY <1>6, <2>2
    <3>2. i + d \in DOMAIN ticks
      BY <1>6, <3>1
    <3>3. i > m + 1 - polls'
      <4>1. Len(ticks') = m + 1
        BY <1>2, <1>5
      <4> QED
        BY <1>4, <1>7, <4>1
    <3>4. i + d > m + d - polls
      BY <1>3, <1>4, <3>1, <3>3
    <3>5. ticks[i + d].price = ltp.price
      <4>1. Len(ticks) = m + d
        BY <1>5
      <4>2. i + d > Len(ticks) - polls
        BY <1>3, <3>4, <4>1
      <4>3. TailIsSnapshot
        BY DEF DetectorIInv
      <4> QED
        BY <3>2, <4>2, <4>3 DEF TailIsSnapshot
    <3> QED
      BY <1>2, <1>5, <3>1, <3>5
  <2> QED
    BY <2>1, <2>2
<1> QED
  BY <1>2, <1>4, <1>5, <1>7 DEF TailIsSnapshot

\* A window that the polls of one snapshot have filled is flat.
LEMMA StaleWindow ==
  ASSUME DetectorIInv, polls = Period, Len(ticks) >= Period
  PROVE  /\ ltp.price \in Nat
         /\ BandSide(ltp.price, Each(LAMBDA t : t.price, Latest(ticks, Period))) = "none"
<1> DEFINE first == Len(ticks) - Period + 1
           s == Each(LAMBDA t : t.price, Latest(ticks, Period))
<1>1. ticks \in Seq(FeedTick) /\ DOMAIN ticks = 1..Len(ticks) /\ Len(ticks) \in Nat
  BY SizeAssumption, LenProperties DEF DetectorIInv, DetectorTypeOK, IsHistory
<1>2. Period \in Nat /\ Period > 1
  BY DetectorAssumption
<1>3. Latest(ticks, Period) = SubSeq(ticks, first, Len(ticks)) /\ first \in 1..Len(ticks)
  <2>1. ~(Period > Len(ticks)) /\ first \in 1..Len(ticks)
    BY <1>1, <1>2
  <2> QED
    BY <2>1 DEF Latest
<1>4. /\ SubSeq(ticks, first, Len(ticks)) \in Seq(FeedTick)
      /\ Len(SubSeq(ticks, first, Len(ticks))) = Period
      /\ \A i \in 1..Period : SubSeq(ticks, first, Len(ticks))[i] = ticks[first + i - 1]
  BY <1>1, <1>2, <1>3
<1>5. ltp.price \in Nat
  <2>1. CASE ltp = NoLtp
    BY <2>1 DEF NoLtp, NoPrice
  <2>2. CASE ltp # NoLtp
    BY <2>2, PricesAssumption DEF DetectorIInv, DetectorTypeOK
  <2> QED
    BY <2>1, <2>2
<1>6. \A i \in 1..Period : Latest(ticks, Period)[i].price = ltp.price
  <2> SUFFICES ASSUME NEW i \in 1..Period
               PROVE  Latest(ticks, Period)[i].price = ltp.price
    OBVIOUS
  <2>1. first + i - 1 \in DOMAIN ticks /\ first + i - 1 > Len(ticks) - polls
    BY <1>1, <1>2
  <2>2. ticks[first + i - 1].price = ltp.price
    BY <2>1 DEF DetectorIInv, TailIsSnapshot
  <2> QED
    BY <1>3, <1>4, <2>2
<1>7. DOMAIN Latest(ticks, Period) = 1..Period
  BY <1>3, <1>4, LenProperties
<1>8. s \in [1..Period -> Nat] /\ \A i \in 1..Period : s[i] = ltp.price
  BY <1>5, <1>6, <1>7 DEF Each
<1>9. s \in Seq(Nat) /\ Len(s) = Period
  <2> HIDE DEF s
  <2>1. s \in Seq(Nat) /\ DOMAIN s = 1..Period
    BY <1>2, <1>8, IsASeq
  <2> QED
    BY <1>2, <2>1, LenProperties
<1> HIDE DEF s
<1>10. BandSide(ltp.price, s) = "none"
  BY <1>2, <1>5, <1>8, <1>9, FlatWindowHasNoBand
<1> QED
  BY <1>5, <1>10 DEF s

\* The candles of a quiet feed close at the price of the snapshot.
LEMMA ReadCandlesKeeps ==
  ASSUME DetectorIInv, ReadCandles
  PROVE  DetectorIInv'
<1>1. ticks \in Seq(FeedTick) /\ Len(ticks) \in Nat \ {0} /\ ticks \in [1..Len(ticks) -> FeedTick]
  BY SizeAssumption, LenProperties
  DEF DetectorIInv, DetectorTypeOK, ReadCandles, IsHistory
<1>2. Last(Candles(ticks)).close = ticks[Len(ticks)].price
  BY <1>1, LastCandle
<1>3. ticks[Len(ticks)].price \in Prices /\ Len(ticks) \in DOMAIN ticks
  <2>1. Len(ticks) \in 1..Len(ticks)
    BY <1>1
  <2> QED
    BY <1>1, <2>1 DEF FeedTick
<1>4. polls = Period => ticks[Len(ticks)].price = ltp.price
  <2>1. polls = Period => Len(ticks) > Len(ticks) - polls
    BY <1>1, DetectorAssumption
  <2> QED
    BY <1>3, <2>1 DEF DetectorIInv, TailIsSnapshot
<1>5. UNCHANGED <<ltp, polls, ticks, touched>> /\ stale' = (polls = Period)
  BY DEF ReadCandles, scoutVars
<1>6. detector = "idle" /\ side = "none"
  BY DEF ReadCandles, DetectorIInv, StaleHasNoSide
<1>7. \/ detector' = "judged" /\ close' = close /\ side' = "none"
      \/ /\ detector' = "prices" /\ close' = ticks[Len(ticks)].price
         /\ side' \in {"LONG", "SHORT", "none"}
  <2>1. VWAPSide(Last(Candles(ticks)).close, Candles(ticks)) \in {"LONG", "SHORT", "none"}
    BY DEF VWAPSide
  <2> QED
    BY <1>2, <1>6, <2>1 DEF ReadCandles
<1>8. DetectorTypeOK'
  BY <1>3, <1>5, <1>7 DEF DetectorIInv, DetectorTypeOK
<1>9. TailIsSnapshot'
  BY <1>5 DEF DetectorIInv, TailIsSnapshot
<1>10. StaleHasNoSide'
  BY <1>4, <1>5, <1>7 DEF StaleHasNoSide
<1> QED
  BY <1>8, <1>9, <1>10 DEF DetectorIInv

\* On a quiet feed the bands lie on the price that is judged.
LEMMA ReadPricesKeeps ==
  ASSUME DetectorIInv, ReadPrices
  PROVE  DetectorIInv'
<1> DEFINE band == BandSide(close, Each(LAMBDA t : t.price, Latest(ticks, Period)))
<1>1. UNCHANGED <<ltp, polls, ticks, close, touched, stale>> /\ detector = "prices"
  BY DEF ReadPrices, scoutVars
<1>2. \/ detector' = "judged" /\ side' = "none"
      \/ /\ detector' = "volumes" /\ ~(Len(ticks) < Period)
         /\ side' = IF side = band THEN side ELSE "none"
  BY DEF ReadPrices
<1>3. side' \in {"LONG", "SHORT", "none"} /\ detector' \in {"volumes", "judged"}
  BY <1>2 DEF DetectorIInv, DetectorTypeOK
<1>4. stale => side' = "none"
  <2> SUFFICES ASSUME stale, ~(Len(ticks) < Period), side' = IF side = band THEN side ELSE "none"
               PROVE  side' = "none"
    BY <1>2
  <2>1. polls = Period /\ close = ltp.price
    BY <1>1 DEF DetectorIInv, StaleHasNoSide
  <2>2. Len(ticks) >= Period
    <3>1. Len(ticks) \in Nat /\ Period \in Nat
      BY SizeAssumption, LenProperties, DetectorAssumption
      DEF DetectorIInv, DetectorTypeOK, IsHistory
    <3> QED
      BY <3>1
  <2>3. band = "none"
    BY <2>1, <2>2, StaleWindow
  <2> HIDE DEF band
  <2> QED
    BY <2>3
<1>5. DetectorTypeOK'
  BY <1>1, <1>3 DEF DetectorIInv, DetectorTypeOK
<1>6. TailIsSnapshot'
  BY <1>1 DEF DetectorIInv, TailIsSnapshot
<1>7. StaleHasNoSide'
  BY <1>1, <1>3, <1>4 DEF DetectorIInv, StaleHasNoSide
<1> QED
  BY <1>5, <1>6, <1>7 DEF DetectorIInv

\* Every step of the feed, the poller and the evaluation keeps the invariant.
LEMMA DetectorNextIInv == DetectorIInv /\ [DetectorNext]_detectorVars => DetectorIInv'
<1> SUFFICES ASSUME DetectorIInv, [DetectorNext]_detectorVars PROVE DetectorIInv'
  OBVIOUS
<1>0. IsHistory(ticks) /\ DOMAIN ticks = 1..Len(ticks) /\ Len(ticks) \in Nat
  BY SizeAssumption, LenProperties DEF DetectorIInv, DetectorTypeOK, IsHistory
<1>1. CASE StartDetector
  BY <1>1
  DEF StartDetector, scoutVars, evaluationVars, DetectorIInv, DetectorTypeOK,
      TailIsSnapshot, StaleHasNoSide
<1>2. CASE StopDetector
  <2>1. ticks' = <<>> /\ polls' = 0 /\ ltp' = NoLtp /\ detector' = "off"
        /\ UNCHANGED <<close, side, touched, stale>> /\ side = "none" /\ ~stale
    BY <1>2 DEF StopDetector, evaluationVars, DetectorIInv, StaleHasNoSide
  <2>2. IsHistory(ticks') /\ DOMAIN ticks' = {}
    BY <2>1, NoTicks
  <2>3. polls' \in 0..Period
    BY <2>1, DetectorAssumption
  <2> QED
    BY <2>1, <2>2, <2>3 DEF DetectorIInv, DetectorTypeOK, TailIsSnapshot, StaleHasNoSide
<1>3. CASE LtpMessage
  <2>1. /\ ltp' \in [price : Prices, minute : Minutes]
        /\ polls' = 0 /\ stale' = FALSE /\ UNCHANGED <<ticks, detector, close, side, touched>>
    BY <1>3 DEF LtpMessage
  <2>2. polls' \in 0..Period
    BY <2>1, DetectorAssumption
  <2>3. TailIsSnapshot'
    BY <1>0, <2>1 DEF TailIsSnapshot
  <2> QED
    BY <2>1, <2>2, <2>3 DEF DetectorIInv, DetectorTypeOK, StaleHasNoSide
<1>4. CASE PollLtp
  <2>1. UNCHANGED <<ltp, detector, close, side, stale>> /\ touched' = Evaluating
    BY <1>4 DEF PollLtp
  <2>2. touched' \in BOOLEAN
    BY <2>1 DEF Evaluating
  <2>3. polls = Period => polls' = Period
    BY <1>4, DetectorAssumption DEF PollLtp
  <2>4. StaleHasNoSide'
    BY <2>1, <2>3 DEF DetectorIInv, StaleHasNoSide
  <2> QED
    BY <1>4, <2>1, <2>2, <2>4, PollKeepsTail DEF DetectorIInv, DetectorTypeOK
<1>5. CASE PatchVolume
  <2>1. PICK v \in Volumes : ticks' = Patch(ticks, v)
    BY <1>5 DEF PatchVolume
  <2>2. UNCHANGED <<ltp, polls, detector, close, side, stale>> /\ touched' = Evaluating
    BY <1>5 DEF PatchVolume
  <2>3. touched' \in BOOLEAN
    BY <2>2 DEF Evaluating
  <2>4. /\ IsHistory(ticks') /\ Len(ticks') = Len(ticks)
        /\ \A i \in DOMAIN ticks : ticks'[i].price = ticks[i].price
    BY <1>0, <2>1, PatchKeepsPrices
  <2>5. DOMAIN ticks' = DOMAIN ticks
    BY <1>0, <2>4, SizeAssumption, LenProperties DEF IsHistory
  <2>6. TailIsSnapshot'
    BY <2>2, <2>4, <2>5 DEF DetectorIInv, TailIsSnapshot
  <2> QED
    BY <2>2, <2>3, <2>4, <2>6 DEF DetectorIInv, DetectorTypeOK, StaleHasNoSide
<1>6. CASE ReadVolumes
  <2>1. UNCHANGED <<ltp, polls, ticks, close, touched, stale>> /\ detector = "volumes"
        /\ detector' = "judged" /\ side' \in {side, "none"}
    BY <1>6 DEF ReadVolumes, scoutVars
  <2> QED
    BY <2>1 DEF DetectorIInv, DetectorTypeOK, TailIsSnapshot, StaleHasNoSide
<1>7. CASE Conclude
  BY <1>7
  DEF Conclude, NoEvaluation, scoutVars, DetectorIInv, DetectorTypeOK, TailIsSnapshot,
      StaleHasNoSide
<1>8. CASE UNCHANGED detectorVars
  BY <1>8
  DEF detectorVars, scoutVars, evaluationVars, DetectorIInv, DetectorTypeOK, TailIsSnapshot,
      StaleHasNoSide
<1> QED
  BY <1>1, <1>2, <1>3, <1>4, <1>5, <1>6, <1>7, <1>8, ReadCandlesKeeps, ReadPricesKeeps
  DEF DetectorNext

\* On a feed that has gone quiet no evaluation ends with a side.
LEMMA QuietFeedHasNoSide == DetectorIInv => StaleFeedIsSilent
BY DEF DetectorIInv, StaleHasNoSide, StaleFeedIsSilent

\* The stores, the indicators and the snapshot keep their invariant.
THEOREM DetectorInvariance == DetectorSpec => []DetectorIInv
BY DetectorInitIInv, DetectorNextIInv, PTL DEF DetectorSpec

\* Whatever the period, the window, the threshold and the prices, the polls of a quote that
\* does not change end without an intent once they fill the window (feed.go:178,
\* breakout.go:111).
THEOREM StaleFeedHasNoIntent == DetectorSpec => []StaleFeedIsSilent
BY DetectorInvariance, QuietFeedHasNoSide, PTL
-----------------------------------------------------------------------------
(***************************************************************************)
(* The reports.                                                            *)
(***************************************************************************)

-----------------------------------------------------------------------------
(***************************************************************************)
(* A quiet evaluation (1): totals of sequences as curves.                  *)
(***************************************************************************)

\* The totals up to each place are a curve.
LEMMA TotalCurve ==
  ASSUME NEW n \in Nat, NEW s \in [1..n -> Int]
  PROVE  LET P == [k \in 0..n |-> TotalOf(s)[1..k]]
         IN  /\ P \in [0..n -> Int] /\ P[0] = 0 /\ P[n] = Total(s)
             /\ \A k \in 1..n : P[k] = P[k - 1] + s[k]
<1> DEFINE K == {k \in 0..n : TotalOf(s)[1..k] \in Int}
<1>0. /\ Total(s) = TotalOf(s)[1..n] /\ TotalOf(s)[1..0] = 0
      /\ \A k \in 1..n : TotalOf(s)[1..k] = TotalOf(s)[1..(k - 1)] + s[k]
  BY TotalIsFold
<1>1. 0 \in K
  BY <1>0
<1>2. ASSUME NEW k \in 1..n, k - 1 \in K PROVE k \in K
  <2>1. TotalOf(s)[1..(k - 1)] \in Int /\ s[k] \in Int /\ k \in 0..n
    BY <1>2
  <2> QED
    BY <1>0, <2>1
<1> HIDE DEF K
<1>3. \A k \in 0..n : k \in K
  BY <1>1, <1>2, UpTo
<1>4. \A k \in 0..n : TotalOf(s)[1..k] \in Int
  BY <1>3 DEF K
<1>5. /\ n \in 0..n /\ 0 \in 0..n
      /\ \A k \in 1..n : k \in 0..n /\ k - 1 \in 0..n
  OBVIOUS
<1> QED
  BY <1>0, <1>4, <1>5

\* Total is the sum over all places.
LEMMA TotalIsSum ==
  ASSUME NEW n \in Nat, NEW s \in [1..n -> Int]
  PROVE  Total(s) = SumFunctionOnSet(s, 1..n) /\ Total(s) = SumFunction(s) /\ Total(s) \in Int
<1> DEFINE P == [k \in 0..n |-> TotalOf(s)[1..k]]
<1>0. /\ Total(s) = TotalOf(s)[1..n] /\ TotalOf(s)[1..0] = 0
      /\ \A k \in 1..n : TotalOf(s)[1..k] = TotalOf(s)[1..(k - 1)] + s[k]
  BY TotalIsFold
<1>1. Total(s) = SumFunctionOnSet(s, 1..n)
  <2>1. CASE n = 0
    <3>1. SumFunctionOnSet(s, {}) = 0 /\ 1..n = {} /\ 1..n = 1..0
      BY <2>1, SumOfNothing
    <3> QED
      BY <1>0, <3>1
  <2>2. CASE n # 0
    <3>1. 1 \in 1..n /\ n \in 1..n /\ 1 - 1 = 0 /\ 1 <= n
      BY <2>2
    <3>3. P \in [0..n -> Int] /\ P[0] = 0 /\ P[n] = Total(s) /\ \A k \in 1..n : P[k] = P[k - 1] + s[k]
      BY TotalCurve
    <3> HIDE DEF P
    <3>4. SumFunctionOnSet(s, 1..n) = P[n] - P[1 - 1]
      BY <3>1, <3>3, StretchSum
    <3> QED
      BY <1>0, <3>1, <3>3, <3>4
  <2> QED
    BY <2>1, <2>2
<1>2. IsFiniteSet(1..n) /\ \A x \in 1..n : s[x] \in Int
  BY FS_Interval
<1>3. SumFunctionOnSet(s, 1..n) \in Int
  BY <1>2, SumType
<1>4. SumFunction(s) = SumFunctionOnSet(s, 1..n)
  BY DEF SumFunction
<1> QED
  BY <1>1, <1>3, <1>4

\* The total up to a place, in a curve that begins at zero.
LEMMA TotalOfCurve ==
  ASSUME NEW n \in Nat, NEW s \in [1..n -> Int], NEW P \in [0..n -> Int], P[0] = 0,
         \A k \in 1..n : P[k] = P[k - 1] + s[k]
  PROVE  Total(s) = P[n]
<1> DEFINE S == {k \in 0..n : TotalOf(s)[1..k] = P[k]}
<1>0. /\ Total(s) = TotalOf(s)[1..n] /\ TotalOf(s)[1..0] = 0
      /\ \A k \in 1..n : TotalOf(s)[1..k] = TotalOf(s)[1..(k - 1)] + s[k]
  BY TotalIsFold
<1>1. 0 \in S
  BY <1>0
<1>2. ASSUME NEW k \in 1..n, k - 1 \in S PROVE k \in S
  <2>1. TotalOf(s)[1..(k - 1)] = P[k - 1] /\ k \in 0..n
    BY <1>2
  <2> QED
    BY <1>0, <2>1
<1> HIDE DEF S
<1>3. \A k \in 0..n : k \in S
  BY <1>1, <1>2, UpTo
<1> QED
  BY <1>0, <1>3 DEF S

\* One more place, and another value at the last place.
LEMMA TotalAtEnd ==
  ASSUME NEW n \in Nat, NEW s \in [1..n -> Int], NEW m \in Nat, NEW t \in [1..m -> Int], m >= 1,
         m = n \/ m = n + 1, \A i \in 1..(m - 1) : s[i] = t[i]
  PROVE  Total(t) = Total(s) + t[m] - (IF m = n THEN s[n] ELSE 0)
<1>1. /\ Total(s) = SumFunctionOnSet(s, 1..n) /\ Total(t) = SumFunctionOnSet(t, 1..m)
      /\ Total(s) \in Int /\ Total(t) \in Int
  BY TotalIsSum
<1>2. /\ IsFiniteSet(1..n) /\ IsFiniteSet(1..m) /\ IsFiniteSet(1..(m - 1))
      /\ m \in 1..m /\ (1..m) \ {m} = 1..(m - 1)
      /\ \A x \in 1..n : s[x] \in Int
      /\ \A x \in 1..m : t[x] \in Int
  <2>1. \A k \in Int : IsFiniteSet(1..k)
    BY FS_Interval
  <2>2. m - 1 \in Int /\ m \in 1..m /\ (1..m) \ {m} = 1..(m - 1)
    OBVIOUS
  <2> QED
    BY <2>1, <2>2
<1>3. SumFunctionOnSet(t, 1..m) = t[m] + SumFunctionOnSet(t, 1..(m - 1))
  <2>1. SumFunctionOnSet(t, 1..m) = t[m] + SumFunctionOnSet(t, (1..m) \ {m})
    BY <1>2, SumRemove
  <2> QED
    BY <1>2, <2>1
<1>4. SumFunctionOnSet(t, 1..(m - 1)) = SumFunctionOnSet(s, 1..(m - 1))
  <2>1. \A x \in 1..(m - 1) : t[x] = s[x] /\ t[x] \in Int
    BY <1>2
  <2> QED
    BY <1>2, <2>1, SumSame
<1>5. SumFunctionOnSet(s, 1..(m - 1)) \in Int /\ t[m] \in Int
  <2>1. \A x \in 1..(m - 1) : s[x] \in Int
    BY <1>2
  <2> QED
    BY <1>2, <2>1, SumType
<1>6. CASE m = n + 1
  <2>1. m - 1 = n /\ m # n
    BY <1>6
  <2> QED
    BY <1>1, <1>3, <1>4, <1>5, <2>1
<1>7. CASE m = n
  <2>1. SumFunctionOnSet(s, 1..n) = s[n] + SumFunctionOnSet(s, (1..n) \ {n})
    <3>1. n \in 1..n
      BY <1>2, <1>7
    <3> QED
      BY <1>2, <3>1, SumRemove
  <2>2. (1..n) \ {n} = 1..(m - 1) /\ s[n] \in Int
    BY <1>2, <1>7
  <2> DEFINE rest == SumFunctionOnSet(s, 1..(m - 1))
  <2>3. rest \in Int /\ Total(s) = s[n] + rest /\ Total(t) = t[m] + rest /\ t[m] \in Int
    BY <1>1, <1>3, <1>4, <1>5, <2>1, <2>2
  <2> HIDE DEF rest
  <2> QED
    BY <1>7, <2>2, <2>3
<1> QED
  BY <1>6, <1>7

\* g is made of x and squares, with these coefficients, at each of n places.
Combines(g, squares, x, n, a, b, c) ==
  /\ n \in Nat /\ a \in Int /\ b \in Int /\ c \in Int
  /\ x \in [1..n -> Int] /\ squares \in [1..n -> Int] /\ g \in [1..n -> Int]
  /\ \A k \in 1..n : g[k] = a * squares[k] + b * x[k] + c

\* The total of a combination is the combination of the totals.
LEMMA TotalCombines ==
  ASSUME NEW g, NEW squares, NEW x, NEW n, NEW a, NEW b, NEW c,
         Combines(g, squares, x, n, a, b, c)
  PROVE  Total(g) = a * Total(squares) + b * Total(x) + n * c
<1> DEFINE Q == [k \in 0..n |-> TotalOf(squares)[1..k]]
           T == [k \in 0..n |-> TotalOf(x)[1..k]]
           P == [k \in 0..n |-> a * Q[k] + b * T[k] + k * c]
<1>0. n \in Nat /\ a \in Int /\ b \in Int /\ c \in Int
  BY DEF Combines
<1>1. /\ x \in [1..n -> Int] /\ squares \in [1..n -> Int] /\ g \in [1..n -> Int]
      /\ \A k \in 1..n : g[k] = a * squares[k] + b * x[k] + c
  BY DEF Combines
<1> USE <1>0, <1>1
<1>2. /\ Q \in [0..n -> Int] /\ Q[0] = 0 /\ Q[n] = Total(squares)
      /\ \A k \in 1..n : Q[k] = Q[k - 1] + squares[k]
  BY <1>0, <1>1, TotalCurve
<1>3. /\ T \in [0..n -> Int] /\ T[0] = 0 /\ T[n] = Total(x)
      /\ \A k \in 1..n : T[k] = T[k - 1] + x[k]
  BY <1>0, <1>1, TotalCurve
<1> HIDE DEF Q, T
<1>4. P \in [0..n -> Int] /\ P[0] = 0 /\ P[n] = a * Q[n] + b * T[n] + n * c
  <2>1. \A k \in 0..n : Q[k] \in Int /\ T[k] \in Int /\ k \in Int
    BY <1>2, <1>3
  <2>2. \A u, v, w \in Int : a * u + b * v + w * c \in Int
    OBVIOUS
  <2>3. a * 0 + b * 0 + 0 * c = 0
    OBVIOUS
  <2>4. n \in 0..n /\ 0 \in 0..n
    OBVIOUS
  <2>5. \A k \in 0..n : a * Q[k] + b * T[k] + k * c \in Int
    BY <2>1, <2>2
  <2> QED
    BY <1>2, <1>3, <2>3, <2>4, <2>5
<1>5. ASSUME NEW k \in 1..n PROVE P[k] = P[k - 1] + g[k]
  <2>1. k \in 0..n /\ k - 1 \in 0..n /\ k \in Int
    OBVIOUS
  <2>2. P[k] = a * Q[k] + b * T[k] + k * c /\ P[k - 1] = a * Q[k - 1] + b * T[k - 1] + (k - 1) * c
    BY <2>1
  <2> DEFINE q == Q[k - 1]
             t == T[k - 1]
             z == x[k]
             s == squares[k]
  <2>3. q \in Int /\ t \in Int /\ z \in Int /\ s \in Int
    BY <1>1, <1>2, <1>3, <2>1
  <2>4. Q[k] = q + s /\ T[k] = t + z /\ g[k] = a * s + b * z + c
    BY <1>1, <1>2, <1>3
  <2> HIDE DEF q, t, z, s, P
  <2>5. \A u, v \in Int : a * (u + v) = a * u + a * v /\ b * (u + v) = b * u + b * v
    OBVIOUS
  <2>6. k * c = (k - 1) * c + c
    BY <2>1
  <2>7. a * Q[k] = a * q + a * s /\ b * T[k] = b * t + b * z
    BY <2>3, <2>4, <2>5
  <2>8. a * q \in Int /\ a * s \in Int /\ b * t \in Int /\ b * z \in Int /\ (k - 1) * c \in Int
    BY <2>1, <2>3
  <2>9. P[k] = (a * q + a * s) + (b * t + b * z) + ((k - 1) * c + c)
    BY <2>2, <2>6, <2>7
  <2>10. P[k - 1] = a * q + b * t + (k - 1) * c
    BY <2>2 DEF q, t
  <2> DEFINE A == a * q
             B == a * s
             C == b * t
             D == b * z
             E == (k - 1) * c
  <2>11. A \in Int /\ B \in Int /\ C \in Int /\ D \in Int /\ E \in Int
    BY <2>8
  <2>12. P[k] = (A + B) + (C + D) + (E + c) /\ P[k - 1] = A + C + E /\ g[k] = B + D + c
    BY <2>4, <2>9, <2>10
  <2> HIDE DEF A, B, C, D, E
  <2> QED
    BY <2>11, <2>12
<1> HIDE DEF P
<1>6. Total(g) = P[n]
  BY <1>4, <1>5, TotalOfCurve
<1> QED
  BY <1>2, <1>3, <1>4, <1>6

\* The variance, and the distances of all pairs.
LEMMA VarianceIsSpread ==
  ASSUME NEW n \in Nat, NEW x \in [1..n -> Int], Len(x) = n
  PROVE  LET apart(i) == [j \in 1..n |-> (x[i] - x[j]) * (x[i] - x[j])]
         IN  /\ SumFunction([i \in 1..n |-> SumFunction(apart(i))]) = 2 * Variance(x)
             /\ Variance(x) \in Int
<1> DEFINE apart(i) == [j \in 1..n |-> (x[i] - x[j]) * (x[i] - x[j])]
           squares == [i \in 1..n |-> x[i] * x[i]]
           T == Total(x)
           Q == Total(squares)
           row == [i \in 1..n |-> n * squares[i] + (-2 * T) * x[i] + Q]
<1>0. squares \in [1..n -> Int] /\ \A k \in 1..n : squares[k] = x[k] * x[k]
  OBVIOUS
<1>1. T \in Int /\ Q \in Int
  <2> HIDE DEF squares
  <2> QED
    BY <1>0, TotalIsSum
<1>6. Variance(x) = n * Q - T * T
  <2>1. Each(LAMBDA y : y * y, x) = squares
    BY DEF Each
  <2> HIDE DEF squares
  <2> QED
    BY <2>1 DEF Variance
<1> HIDE DEF T, Q, squares
<1>2. ASSUME NEW i \in 1..n PROVE SumFunction(apart(i)) = row[i]
  <2> DEFINE z == x[i]
             g == apart(i)
  <2>1. z \in Int
    OBVIOUS
  <2>2. g \in [1..n -> Int] /\ \A k \in 1..n : g[k] = (z - x[k]) * (z - x[k])
    OBVIOUS
  <2>3. \A u, v \in Int : (u - v) * (u - v) = 1 * (v * v) + (-2 * u) * v + u * u
    OBVIOUS
  <2>4. \A k \in 1..n : g[k] = 1 * squares[k] + (-2 * z) * x[k] + z * z
    BY <1>0, <2>1, <2>2, <2>3
  <2>5. -2 * z \in Int /\ z * z \in Int /\ 1 \in Int
    BY <2>1
  <2> HIDE DEF g, z, row, apart
  <2>6. Total(g) = 1 * Total(squares) + (-2 * z) * Total(x) + n * (z * z)
    <3> DEFINE a == 1
               b == -2 * z
               c == z * z
    <3>1. a \in Int /\ b \in Int /\ c \in Int
      BY <2>5
    <3>2. \A k \in 1..n : g[k] = a * squares[k] + b * x[k] + c
      BY <2>4
    <3> HIDE DEF a, b, c
    <3>3. Total(g) = a * Total(squares) + b * Total(x) + n * c
      <4>1. Combines(g, squares, x, n, a, b, c)
        BY <1>0, <2>2, <3>1, <3>2 DEF Combines
      <4> QED
        BY <4>1, TotalCombines
    <3> QED
      BY <3>3 DEF a, b, c
  <2>7. SumFunction(g) = Total(g)
    BY <2>2, TotalIsSum
  <2>8. SumFunction(g) = 1 * Q + (-2 * z) * T + n * (z * z)
    BY <2>6, <2>7 DEF Q, T
  <2>9. row[i] = n * (z * z) + (-2 * T) * z + Q
    BY <1>0 DEF row, z
  <2>10. \A t \in Int : (-2 * z) * t = (-2 * t) * z
    BY <2>1
  <2>11. (-2 * z) * T = (-2 * T) * z /\ (-2 * T) * z \in Int /\ n * (z * z) \in Int /\ 1 * Q = Q
    BY <1>1, <2>1, <2>10
  <2>12. SumFunction(g) = row[i]
    BY <1>1, <2>8, <2>9, <2>11
  <2> QED
    BY <2>12 DEF g
<1>3. row \in [1..n -> Int] /\ \A k \in 1..n : row[k] = n * squares[k] + (-2 * T) * x[k] + Q
  <2>1. \A y, z \in Int : n * y + (-2 * T) * z + Q \in Int
    BY <1>1
  <2>2. \A k \in 1..n : x[k] \in Int /\ squares[k] \in Int
    BY <1>0
  <2> QED
    BY <2>1, <2>2
<1>4. [i \in 1..n |-> SumFunction(apart(i))] = row
  <2> HIDE DEF apart
  <2>1. \A i \in 1..n : SumFunction(apart(i)) = row[i]
    BY <1>2
  <2> HIDE DEF row
  <2> QED
    BY <1>3, <2>1
<1> HIDE DEF row
<1>5. SumFunction(row) = n * Q + (-2 * T) * T + n * Q
  <2>1. -2 * T \in Int /\ n \in Int
    BY <1>1
  <2>2. Total(row) = n * Total(squares) + (-2 * T) * Total(x) + n * Q
    <3> DEFINE b == -2 * T
    <3>1. n \in Int /\ b \in Int /\ Q \in Int
      BY <1>1
    <3>2. row \in [1..n -> Int] /\ \A k \in 1..n : row[k] = n * squares[k] + b * x[k] + Q
      BY <1>3
    <3> HIDE DEF b
    <3>3. Total(row) = n * Total(squares) + b * Total(x) + n * Q
      <4>1. Combines(row, squares, x, n, n, b, Q)
        BY <1>0, <3>1, <3>2 DEF Combines
      <4> QED
        BY <4>1, TotalCombines
    <3> QED
      BY <3>3 DEF b
  <2>3. SumFunction(row) = Total(row)
    BY <1>3, TotalIsSum
  <2> QED
    BY <2>2, <2>3 DEF Q, T
<1>7. SumFunction(row) = 2 * Variance(x) /\ Variance(x) \in Int
  <2>1. n * Q \in Int /\ T * T \in Int /\ (-2 * T) * T = -2 * (T * T)
    BY <1>1
  <2> DEFINE A == n * Q
             B == T * T
  <2>2. A \in Int /\ B \in Int /\ SumFunction(row) = A + -2 * B + A /\ Variance(x) = A - B
    BY <1>5, <1>6, <2>1
  <2> HIDE DEF A, B
  <2> QED
    BY <2>2
<1> QED
  BY <1>4, <1>7

\* A total of numbers that are not negative is not negative, and at least each of them.
LEMMA TotalNat ==
  ASSUME NEW n \in Nat, NEW s \in [1..n -> Nat]
  PROVE  Total(s) \in Nat /\ \A i \in 1..n : s[i] <= Total(s)
<1> DEFINE P == [k \in 0..n |-> TotalOf(s)[1..k]]
           S == {k \in 0..n : P[k] \in Nat /\ \A i \in 1..k : s[i] <= P[k]}
<1>0. s \in [1..n -> Int] /\ \A k \in 1..n : s[k] \in Nat
  OBVIOUS
<1>1. /\ P \in [0..n -> Int] /\ P[0] = 0 /\ P[n] = Total(s)
      /\ \A k \in 1..n : P[k] = P[k - 1] + s[k]
  BY <1>0, TotalCurve
<1> HIDE DEF P
<1>2. 0 \in S
  BY <1>1
<1>3. ASSUME NEW k \in 1..n, k - 1 \in S PROVE k \in S
  <2>1. P[k - 1] \in Nat /\ k \in 0..n /\ s[k] \in Nat
    BY <1>0, <1>3
  <2>2. P[k] \in Nat /\ P[k] = P[k - 1] + s[k]
    BY <1>1, <2>1
  <2>3. \A i \in 1..k : s[i] <= P[k]
    <3> SUFFICES ASSUME NEW i \in 1..k PROVE s[i] <= P[k]
      OBVIOUS
    <3>1. CASE i = k
      BY <2>1, <2>2, <3>1
    <3>2. CASE i # k
      <4>1. i \in 1..(k - 1) /\ i \in 1..n
        BY <3>2
      <4>2. s[i] <= P[k - 1] /\ s[i] \in Nat
        BY <1>0, <1>3, <4>1
      <4> QED
        BY <2>1, <2>2, <4>2
    <3> QED
      BY <3>1, <3>2
  <2> QED
    BY <2>1, <2>2, <2>3
<1> HIDE DEF S
<1>4. \A k \in 0..n : k \in S
  BY <1>2, <1>3, UpTo
<1> QED
  BY <1>1, <1>4 DEF S

\* A curve that grows q times as fast as another from b to k has grown q times as much.
LEMMA GrowsAlike ==
  ASSUME NEW n \in Nat, NEW V \in [0..n -> Int], NEW W \in [0..n -> Int], NEW q \in Int,
         NEW k \in 1..n, NEW b \in 1..k,
         \A i \in b..k : W[i] - W[i - 1] = q * (V[i] - V[i - 1])
  PROVE  W[k] = W[b - 1] + q * (V[k] - V[b - 1])
<1> DEFINE m == k - b + 1
           S == {j \in 0..m : W[b - 1 + j] = W[b - 1] + q * (V[b - 1 + j] - V[b - 1])}
<1>1. m \in Nat /\ b - 1 \in 0..n /\ b - 1 + m = k
  OBVIOUS
<1>2. 0 \in S
  <2>1. W[b - 1] \in Int /\ V[b - 1] \in Int /\ b - 1 + 0 = b - 1 /\ 0 \in 0..m
    BY <1>1
  <2>2. \A u, v \in Int : u = u + q * (v - v)
    OBVIOUS
  <2> QED
    BY <2>1, <2>2
<1>3. ASSUME NEW j \in 1..m, j - 1 \in S PROVE j \in S
  <2> DEFINE i == b - 1 + j
  <2>1. i \in b..k /\ i \in 0..n /\ i - 1 \in 0..n /\ i - 1 = b - 1 + (j - 1) /\ j \in 0..m
    OBVIOUS
  <2>2. W[i - 1] = W[b - 1] + q * (V[i - 1] - V[b - 1])
    BY <1>3, <2>1
  <2>3. W[i] - W[i - 1] = q * (V[i] - V[i - 1])
    BY <2>1
  <2>4. W[i] \in Int /\ W[i - 1] \in Int /\ W[b - 1] \in Int
    BY <1>1, <2>1
  <2>5. V[i] \in Int /\ V[i - 1] \in Int /\ V[b - 1] \in Int
    BY <1>1, <2>1
  <2>6. \A u, v, z \in Int : q * (v - z) + q * (u - v) = q * (u - z)
    OBVIOUS
  <2>7. q * (V[i - 1] - V[b - 1]) + q * (V[i] - V[i - 1]) = q * (V[i] - V[b - 1])
    BY <2>5, <2>6
  <2>8. q * (V[i - 1] - V[b - 1]) \in Int /\ q * (V[i] - V[i - 1]) \in Int
    <3>1. \A u, v \in Int : q * (u - v) \in Int
      OBVIOUS
    <3> QED
      BY <2>5, <3>1
  <2>9. W[i] = W[b - 1] + q * (V[i] - V[b - 1])
    <3> DEFINE x == q * (V[i - 1] - V[b - 1])
               y == q * (V[i] - V[i - 1])
               z == q * (V[i] - V[b - 1])
               w0 == W[b - 1]
               w1 == W[i - 1]
               w2 == W[i]
    <3>1. /\ x \in Int /\ y \in Int /\ z = x + y /\ w0 \in Int /\ w1 \in Int /\ w2 \in Int
          /\ w1 = w0 + x /\ w2 - w1 = y
      BY <2>2, <2>3, <2>4, <2>7, <2>8
    <3> HIDE DEF x, y, z, w0, w1, w2
    <3>2. w2 = w0 + z
      BY <3>1
    <3> QED
      BY <3>2 DEF w0, w2, z
  <2> QED
    BY <2>1, <2>9
<1> HIDE DEF S
<1>4. m \in S
  <2>1. \A j \in 0..m : j \in S
    <3> HIDE DEF m
    <3> QED
      BY <1>1, <1>2, <1>3, UpTo
  <2> QED
    BY <1>1, <2>1
<1> QED
  BY <1>1, <1>4 DEF S

-----------------------------------------------------------------------------
(***************************************************************************)
(* A quiet evaluation (2): what the candles of ascending ticks sum up to.  *)
(***************************************************************************)

\* The volumes and the turnovers of candles.
VolumesOf(cs) == [i \in DOMAIN cs |-> cs[i].volume]

TurnoversOf(cs) == [i \in DOMAIN cs |-> cs[i].close * cs[i].volume]

\* They are integers.
LEMMA CandleSums ==
  ASSUME NEW cs \in Seq(Candle)
  PROVE  /\ Len(cs) \in Nat /\ DOMAIN cs = 1..Len(cs)
         /\ VolumesOf(cs) \in [1..Len(cs) -> Int] /\ TurnoversOf(cs) \in [1..Len(cs) -> Int]
         /\ Total(VolumesOf(cs)) \in Int /\ Total(TurnoversOf(cs)) \in Int
<1>1. Len(cs) \in Nat /\ DOMAIN cs = 1..Len(cs)
  BY LenProperties
<1>2. \A i \in 1..Len(cs) : cs[i].volume \in Nat /\ cs[i].close \in Nat
  <2>1. \A i \in 1..Len(cs) : cs[i] \in Candle
    BY <1>1, ElementOfSeq
  <2> QED
    BY <2>1, PricesAssumption DEF Candle
<1>3. \A i \in 1..Len(cs) : cs[i].close * cs[i].volume \in Int
  <2>1. \A x, y \in Nat : x * y \in Int
    OBVIOUS
  <2> QED
    BY <1>2, <2>1
<1>4. VolumesOf(cs) \in [1..Len(cs) -> Int] /\ TurnoversOf(cs) \in [1..Len(cs) -> Int]
  BY <1>1, <1>2, <1>3 DEF VolumesOf, TurnoversOf
<1>5. Total(VolumesOf(cs)) \in Int /\ Total(TurnoversOf(cs)) \in Int
  BY <1>1, <1>4, TotalIsSum
<1> QED
  BY <1>1, <1>4, <1>5

\* One more candle.
LEMMA CandleAdded ==
  ASSUME NEW cs \in Seq(Candle), NEW c \in Candle
  PROVE  /\ Total(VolumesOf(Append(cs, c))) = Total(VolumesOf(cs)) + c.volume
         /\ Total(TurnoversOf(Append(cs, c))) = Total(TurnoversOf(cs)) + c.close * c.volume
<1> DEFINE ds == Append(cs, c)
           n == Len(cs)
<1>1. ds \in Seq(Candle) /\ Len(ds) = n + 1 /\ ds[n + 1] = c /\ \A i \in 1..n : ds[i] = cs[i]
  BY AppendProperties
<1> HIDE DEF ds
<1>2. /\ n \in Nat /\ DOMAIN cs = 1..n /\ DOMAIN ds = 1..(n + 1)
      /\ VolumesOf(cs) \in [1..n -> Int] /\ TurnoversOf(cs) \in [1..n -> Int]
      /\ VolumesOf(ds) \in [1..(n + 1) -> Int] /\ TurnoversOf(ds) \in [1..(n + 1) -> Int]
      /\ Total(VolumesOf(cs)) \in Int /\ Total(TurnoversOf(cs)) \in Int
  BY <1>1, CandleSums
<1>3. \A i \in 1..n : i \in DOMAIN cs /\ i \in DOMAIN ds
  BY <1>2
<1>4. /\ \A i \in 1..n : VolumesOf(cs)[i] = VolumesOf(ds)[i]
      /\ \A i \in 1..n : TurnoversOf(cs)[i] = TurnoversOf(ds)[i]
  BY <1>1, <1>3 DEF VolumesOf, TurnoversOf
<1>5. VolumesOf(ds)[n + 1] = c.volume /\ TurnoversOf(ds)[n + 1] = c.close * c.volume
  <2>1. n + 1 \in DOMAIN ds
    BY <1>2
  <2> QED
    BY <1>1, <2>1 DEF VolumesOf, TurnoversOf
<1> HIDE DEF n
<1> DEFINE m == n + 1
<1>6. m \in Nat /\ m >= 1 /\ m = n + 1 /\ m # n /\ m - 1 = n /\ m \in 1..m
  BY <1>2
<1>7. /\ VolumesOf(ds) \in [1..m -> Int] /\ TurnoversOf(ds) \in [1..m -> Int]
      /\ VolumesOf(ds)[m] = c.volume /\ TurnoversOf(ds)[m] = c.close * c.volume
      /\ \A i \in 1..(m - 1) : VolumesOf(cs)[i] = VolumesOf(ds)[i]
      /\ \A i \in 1..(m - 1) : TurnoversOf(cs)[i] = TurnoversOf(ds)[i]
  BY <1>2, <1>4, <1>5, <1>6
<1> HIDE DEF m
<1>8. Total(VolumesOf(ds)) = Total(VolumesOf(cs)) + VolumesOf(ds)[m] - 0
  BY <1>2, <1>6, <1>7, TotalAtEnd
<1>9. Total(TurnoversOf(ds)) = Total(TurnoversOf(cs)) + TurnoversOf(ds)[m] - 0
  BY <1>2, <1>6, <1>7, TotalAtEnd
<1>10. VolumesOf(ds)[m] \in Int /\ TurnoversOf(ds)[m] \in Int
  BY <1>6, <1>7
<1> QED
  BY <1>2, <1>7, <1>8, <1>9, <1>10 DEF ds

\* Another last candle.
LEMMA CandleReplaced ==
  ASSUME NEW cs \in Seq(Candle), NEW c \in Candle, cs # <<>>
  PROVE  LET ds == [cs EXCEPT ![Len(cs)] = c]
             old == cs[Len(cs)]
         IN  /\ Total(VolumesOf(ds)) = Total(VolumesOf(cs)) + c.volume - old.volume
             /\ Total(TurnoversOf(ds)) =
                  Total(TurnoversOf(cs)) + c.close * c.volume - old.close * old.volume
<1> DEFINE n == Len(cs)
           ds == [cs EXCEPT ![n] = c]
           old == cs[n]
<1>1. n \in Nat /\ n >= 1 /\ n \in 1..n /\ n \in DOMAIN cs
  BY LenProperties, EmptySeq
<1>2. ds \in Seq(Candle) /\ Len(ds) = n /\ ds[n] = c /\ \A i \in 1..(n - 1) : ds[i] = cs[i]
  <2>1. ds \in Seq(Candle) /\ Len(ds) = n
    BY <1>1, ExceptSeq
  <2>2. \A i \in 1..(n - 1) : i \in DOMAIN cs /\ i # n
    BY <1>1, LenProperties
  <2> QED
    BY <1>1, <2>1, <2>2
<1> HIDE DEF ds
<1>3. /\ DOMAIN cs = 1..n /\ DOMAIN ds = 1..n
      /\ VolumesOf(cs) \in [1..n -> Int] /\ TurnoversOf(cs) \in [1..n -> Int]
      /\ VolumesOf(ds) \in [1..n -> Int] /\ TurnoversOf(ds) \in [1..n -> Int]
      /\ Total(VolumesOf(cs)) \in Int /\ Total(TurnoversOf(cs)) \in Int
  BY <1>2, CandleSums
<1>4. /\ \A i \in 1..(n - 1) : VolumesOf(cs)[i] = VolumesOf(ds)[i]
      /\ \A i \in 1..(n - 1) : TurnoversOf(cs)[i] = TurnoversOf(ds)[i]
      /\ VolumesOf(ds)[n] = c.volume /\ TurnoversOf(ds)[n] = c.close * c.volume
      /\ VolumesOf(cs)[n] = old.volume /\ TurnoversOf(cs)[n] = old.close * old.volume
  BY <1>1, <1>2, <1>3 DEF VolumesOf, TurnoversOf
<1> HIDE DEF n
<1>6. Total(VolumesOf(ds)) = Total(VolumesOf(cs)) + VolumesOf(ds)[n] - VolumesOf(cs)[n]
  BY <1>1, <1>3, <1>4, TotalAtEnd
<1>7. Total(TurnoversOf(ds)) = Total(TurnoversOf(cs)) + TurnoversOf(ds)[n] - TurnoversOf(cs)[n]
  BY <1>1, <1>3, <1>4, TotalAtEnd
<1> QED
  BY <1>4, <1>6, <1>7 DEF ds, n

\* The close of a minute is the price of its last tick.
LEMMA CandleCloseIs ==
  ASSUME NEW n \in Nat, NEW h \in [1..n -> FeedTick], NEW k \in 1..n,
         \A i \in 1..n : h[i].minute = h[k].minute => i <= k
  PROVE  CandleClose(h, h[k].minute) = h[k].price
<1> DEFINE S == {i \in DOMAIN h : h[i].minute = h[k].minute}
<1>1. S \subseteq Int /\ k \in S /\ \A x \in S : x <= k
  OBVIOUS
<1> HIDE DEF S
<1>2. Max(S) = k
  BY <1>1, MaxIs
<1> QED
  BY <1>2 DEF S, CandleClose

\* It is a price.
LEMMA CandleCloseType ==
  ASSUME NEW n \in Nat, NEW h \in [1..n -> FeedTick], NEW k \in 1..n
  PROVE  CandleClose(h, h[k].minute) \in Nat
<1> DEFINE S == {i \in DOMAIN h : h[i].minute = h[k].minute}
<1>1. S \in SUBSET (1..n) /\ S # {}
  OBVIOUS
<1> HIDE DEF S
<1>2. Max(S) \in 1..n
  BY <1>1, MaxOfPlaces
<1>3. h[Max(S)] \in FeedTick
  BY <1>2
<1>4. h[Max(S)].price \in Nat
  BY <1>3, PricesAssumption DEF FeedTick
<1> QED
  BY <1>4 DEF S, CandleClose

\* h has n ticks, whose minutes ascend; V and W are the volume and the turnover up to each.
TickCurves(h, n, V, W) ==
  /\ n \in Nat /\ h \in [1..n -> FeedTick]
  /\ \A i, j \in 1..n : i <= j => h[i].minute <= h[j].minute
  /\ V \in [0..n -> Int] /\ W \in [0..n -> Int] /\ V[0] = 0 /\ W[0] = 0
  /\ \A k \in 1..n : V[k] = V[k - 1] + h[k].volume
  /\ \A k \in 1..n : W[k] = W[k - 1] + CandleClose(h, h[k].minute) * h[k].volume

\* The candles of the first k ticks, of which tick b began the last one.
CandlesAt(h, V, W, k, b) ==
  LET cs == CandlesOf(h)[1..k]
  IN  /\ cs \in Seq(Candle) /\ Len(cs) >= 1 /\ (Len(cs) = 1 <=> b = 1)
      /\ cs[Len(cs)].minute = h[k].minute /\ cs[Len(cs)].close = h[k].price
      /\ cs[Len(cs)].volume = V[k] - V[b - 1]
      /\ Total(VolumesOf(cs)) = V[k]
      /\ Total(TurnoversOf(cs)) = W[b - 1] + h[k].price * (V[k] - V[b - 1])
      /\ \A i \in b..k : h[i].minute = h[k].minute
      /\ b > 1 => h[b - 1].minute < h[k].minute

\* The turnover grows with the volume during a minute.
LEMMA TurnoverOfMinute ==
  ASSUME NEW h, NEW n, NEW V, NEW W, TickCurves(h, n, V, W), NEW k \in 1..n, NEW b \in 1..k,
         \A i \in b..k : h[i].minute = h[k].minute,
         k < n => h[k].minute < h[k + 1].minute
  PROVE  W[k] = W[b - 1] + h[k].price * (V[k] - V[b - 1])
<1>1. /\ n \in Nat /\ h \in [1..n -> FeedTick] /\ V \in [0..n -> Int] /\ W \in [0..n -> Int]
      /\ \A i \in 1..n : h[i].minute \in Int
      /\ \A i \in 1..n : h[i].price \in Int /\ h[i].volume \in Int
  <2>1. n \in Nat /\ h \in [1..n -> FeedTick] /\ V \in [0..n -> Int] /\ W \in [0..n -> Int]
    BY DEF TickCurves
  <2>2. \A i \in 1..n : h[i] \in FeedTick
    BY <2>1
  <2>3. Minutes \subseteq Int /\ Prices \subseteq Int /\ Volumes \subseteq Int
    BY PricesAssumption, VolumesAssumption, DetectorAssumption DEF Minutes
  <2> QED
    BY <2>1, <2>2, <2>3 DEF FeedTick
<1>2. \A i \in 1..n : h[i].minute = h[k].minute => i <= k
  <2> SUFFICES ASSUME NEW i \in 1..n, h[i].minute = h[k].minute, ~(i <= k) PROVE FALSE
    BY <1>1
  <2>1. k < n /\ k + 1 \in 1..n /\ k + 1 <= i
    BY <1>1
  <2>2. h[k + 1].minute <= h[i].minute
    BY <2>1 DEF TickCurves
  <2> QED
    BY SMTT(30), <1>1, <2>1, <2>2
<1>3. CandleClose(h, h[k].minute) = h[k].price
  BY <1>1, <1>2, CandleCloseIs
<1>4. \A i \in b..k : W[i] - W[i - 1] = h[k].price * (V[i] - V[i - 1])
  <2> SUFFICES ASSUME NEW i \in b..k
               PROVE  W[i] - W[i - 1] = h[k].price * (V[i] - V[i - 1])
    OBVIOUS
  <2>1. i \in 1..n /\ i \in 0..n /\ i - 1 \in 0..n
    BY <1>1
  <2>2. V[i] = V[i - 1] + h[i].volume /\ W[i] = W[i - 1] + CandleClose(h, h[i].minute) * h[i].volume
    BY <2>1 DEF TickCurves
  <2>3. W[i] = W[i - 1] + h[k].price * h[i].volume
    BY <1>3, <2>2
  <2> DEFINE v0 == V[i - 1]
             v1 == V[i]
             w0 == W[i - 1]
             w1 == W[i]
             q == h[k].price
             x == h[i].volume
  <2>4. /\ v0 \in Int /\ v1 \in Int /\ w0 \in Int /\ w1 \in Int /\ q \in Int /\ x \in Int
        /\ v1 = v0 + x /\ w1 = w0 + q * x
    BY <1>1, <2>1, <2>2, <2>3
  <2> HIDE DEF v0, v1, w0, w1, q, x
  <2>5. w1 - w0 = q * (v1 - v0)
    <3>1. q * x \in Int /\ v1 - v0 = x
      BY <2>4
    <3> QED
      BY <2>4, <3>1
  <2> QED
    BY <2>5 DEF v0, v1, w0, w1, q
<1> DEFINE q == h[k].price
<1>5. q \in Int /\ \A i \in b..k : W[i] - W[i - 1] = q * (V[i] - V[i - 1])
  BY <1>1, <1>4
<1> HIDE DEF q
<1>6. W[k] = W[b - 1] + q * (V[k] - V[b - 1])
  BY <1>1, <1>5, GrowsAlike
<1> QED
  BY <1>6 DEF q

\* The first tick begins the first candle.
LEMMA FirstCandle ==
  ASSUME NEW h, NEW n, NEW V, NEW W, TickCurves(h, n, V, W), n >= 1
  PROVE  CandlesAt(h, V, W, 1, 1)
<1> DEFINE t == h[1]
           c == [minute |-> t.minute, close |-> t.price, volume |-> t.volume]
           cs == CandlesOf(h)[1..1]
<1>1. /\ n \in Nat /\ h \in [1..n -> FeedTick] /\ 1 \in 1..n
      /\ V \in [0..n -> Int] /\ W \in [0..n -> Int] /\ V[0] = 0 /\ W[0] = 0
  BY DEF TickCurves
<1>2. t \in FeedTick /\ t.minute \in Minutes /\ t.price \in Prices /\ t.volume \in Nat
  <2>1. t \in FeedTick
    BY <1>1
  <2> QED
    BY <2>1, VolumesAssumption DEF FeedTick
<1>3. c \in Candle
  BY <1>2 DEF Candle
<1>4. cs = Append(<<>>, c)
  <2>1. CandlesOf(h)[1..1] = AddTick(CandlesOf(h)[1..(1 - 1)], h[1]) /\ CandlesOf(h)[1..0] = <<>>
    BY <1>1, CandlesIsFold
  <2>2. CandlesOf(h)[1..1] = AddTick(<<>>, t)
    BY <2>1
  <2> QED
    BY <2>2 DEF AddTick
<1>5. c.minute = t.minute /\ c.close = t.price /\ c.volume = t.volume /\ t.price \in Nat
  BY <1>2, PricesAssumption
<1> HIDE DEF c, t
<1>6. cs \in Seq(Candle) /\ Len(cs) = 1 /\ cs[1] = c
  BY <1>3, <1>4
<1>7. Total(VolumesOf(<<>>)) = 0 /\ Total(TurnoversOf(<<>>)) = 0
  <2> DEFINE z == VolumesOf(<<>>)
             y == TurnoversOf(<<>>)
             e == [i \in 1..0 |-> 0]
  <2>1. z = e /\ y = e
    BY DEF VolumesOf, TurnoversOf
  <2> DEFINE k == 0
  <2>2. k \in Nat /\ k \in Int /\ k * k = 0 /\ e \in [1..k -> Int] /\ \A i \in 1..k : e[i] = k
    OBVIOUS
  <2> HIDE DEF z, y, e, k
  <2>3. Total(e) = k * k
    BY <2>2, TotalOfConstant
  <2> QED
    BY <2>1, <2>2, <2>3 DEF z, y
<1>8. Total(VolumesOf(cs)) = c.volume /\ Total(TurnoversOf(cs)) = c.close * c.volume
  <2> DEFINE e == <<>>
  <2>1. e \in Seq(Candle)
    OBVIOUS
  <2>2. Total(VolumesOf(e)) = 0 /\ Total(TurnoversOf(e)) = 0
    BY <1>7
  <2>3. cs = Append(e, c)
    BY <1>4
  <2>4. c.volume \in Int /\ c.close * c.volume \in Int
    BY <1>2, <1>5
  <2> HIDE DEF e, cs
  <2>5. Total(VolumesOf(cs)) = 0 + c.volume /\ Total(TurnoversOf(cs)) = 0 + c.close * c.volume
    BY <1>3, <2>1, <2>2, <2>3, CandleAdded
  <2> QED
    BY <2>4, <2>5
<1>9. V[1] = t.volume /\ V[1 - 1] = 0 /\ W[1 - 1] = 0
  <2>1. V[1] = V[1 - 1] + h[1].volume /\ 1 - 1 = 0
    BY <1>1 DEF TickCurves
  <2> QED
    BY <1>1, <1>2, <2>1 DEF t
<1>10. Total(TurnoversOf(cs)) = W[1 - 1] + t.price * (V[1] - V[1 - 1])
  <2>1. V[1] - V[1 - 1] = t.volume /\ t.price * t.volume \in Int
    BY <1>2, <1>5, <1>9
  <2> QED
    BY <1>5, <1>8, <1>9, <2>1
<1>11. cs[Len(cs)].volume = V[1] - V[1 - 1] /\ Total(VolumesOf(cs)) = V[1]
  BY <1>2, <1>5, <1>6, <1>8, <1>9
<1>12. cs[Len(cs)].minute = h[1].minute /\ cs[Len(cs)].close = h[1].price /\ Len(cs) >= 1
  BY <1>5, <1>6 DEF t
<1>13. \A i \in 1..1 : h[i].minute = h[1].minute
  OBVIOUS
<1> QED
  BY <1>6, <1>10, <1>11, <1>12, <1>13 DEF CandlesAt, t

\* What TickCurves says of tick k and of the one before.
LEMMA CurvesAt ==
  ASSUME NEW h, NEW n, NEW V, NEW W, TickCurves(h, n, V, W), NEW k \in 1..n
  PROVE  /\ h[k] \in FeedTick /\ h[k].minute \in Minutes /\ h[k].minute \in Nat
         /\ h[k].price \in Prices /\ h[k].price \in Nat /\ h[k].volume \in Nat
         /\ V[k] = V[k - 1] + h[k].volume
         /\ \A b \in 1..(k + 1) : V[b - 1] \in Int /\ W[b - 1] \in Int
<1>1. n \in Nat /\ h \in [1..n -> FeedTick] /\ V \in [0..n -> Int] /\ W \in [0..n -> Int]
  BY DEF TickCurves
<1>2. h[k] \in FeedTick
  BY <1>1
<1>3. h[k].minute \in Minutes /\ h[k].price \in Prices /\ h[k].volume \in Nat
  BY <1>2, VolumesAssumption DEF FeedTick
<1>4. h[k].minute \in Nat /\ h[k].price \in Nat
  <2>1. Minutes \subseteq Nat
    BY DetectorAssumption DEF Minutes
  <2>2. Prices \subseteq Nat
    BY PricesAssumption
  <2> QED
    BY <1>3, <2>1, <2>2
<1>5. \A b \in 1..(k + 1) : b - 1 \in 0..n
  BY <1>1
<1>6. V[k] = V[k - 1] + h[k].volume
  BY DEF TickCurves
<1> QED
  BY <1>1, <1>2, <1>3, <1>4, <1>5, <1>6

\* A tick of a new minute.
LEMMA NextCandle ==
  ASSUME NEW h, NEW n, NEW V, NEW W, TickCurves(h, n, V, W), NEW k \in 2..n, NEW b \in 1..(k - 1),
         CandlesAt(h, V, W, k - 1, b), h[k].minute # h[k - 1].minute
  PROVE  CandlesAt(h, V, W, k, k)
<1> DEFINE t == h[k]
           c == [minute |-> t.minute, close |-> t.price, volume |-> t.volume]
           cs == CandlesOf(h)[1..(k - 1)]
           ds == CandlesOf(h)[1..k]
<1>0. n \in Nat /\ h \in [1..n -> FeedTick] /\ k \in 1..n /\ k - 1 \in 1..n /\ k - 1 < n /\ k - 1 + 1 = k
  BY DEF TickCurves
<1>1. /\ t \in FeedTick /\ t.minute \in Minutes /\ t.price \in Prices /\ t.price \in Nat
      /\ t.volume \in Nat /\ t.minute \in Nat /\ V[k] = V[k - 1] + t.volume
      /\ V[k - 1] \in Int /\ W[k - 1] \in Int
  <2>1. k \in 1..(k + 1)
    OBVIOUS
  <2> QED
    BY SMTT(30), <1>0, <2>1, CurvesAt
<1>2. h[k - 1].minute < t.minute
  <2>1. h[k - 1].minute \in Nat
    BY <1>0, CurvesAt
  <2>2. h[k - 1].minute <= t.minute
    BY <1>0 DEF TickCurves
  <2> QED
    BY <1>1, <2>1, <2>2
<1>3. /\ cs \in Seq(Candle) /\ Len(cs) >= 1
      /\ cs[Len(cs)].minute = h[k - 1].minute
      /\ Total(VolumesOf(cs)) = V[k - 1]
      /\ Total(TurnoversOf(cs)) = W[b - 1] + h[k - 1].price * (V[k - 1] - V[b - 1])
      /\ \A i \in b..(k - 1) : h[i].minute = h[k - 1].minute
  BY DEF CandlesAt
<1>4. Total(TurnoversOf(cs)) = W[k - 1]
  <2>1. k - 1 < n => h[k - 1].minute < h[k - 1 + 1].minute
    BY <1>0, <1>2
  <2>2. W[k - 1] = W[b - 1] + h[k - 1].price * (V[k - 1] - V[b - 1])
    <3> DEFINE j == k - 1
    <3>1. j \in 1..n /\ b \in 1..j /\ (\A i \in b..j : h[i].minute = h[j].minute)
          /\ (j < n => h[j].minute < h[j + 1].minute)
      BY <1>0, <1>3, <2>1
    <3> HIDE DEF j
    <3>2. W[j] = W[b - 1] + h[j].price * (V[j] - V[b - 1])
      BY <3>1, TurnoverOfMinute
    <3> QED
      BY <3>2 DEF j
  <2> QED
    BY <1>3, <2>2
<1>5. c \in Candle
  BY <1>1 DEF Candle
<1>6. ds = Append(cs, c)
  <2>1. ds = AddTick(cs, t)
    BY <1>0, CandlesIsFold
  <2>2. Last(cs).minute # t.minute
    BY <1>3 DEF Last
  <2> QED
    BY <2>1, <2>2 DEF AddTick
<1>7. c.minute = t.minute /\ c.close = t.price /\ c.volume = t.volume
  OBVIOUS
<1> HIDE DEF cs, ds, c, t
<1>8. ds \in Seq(Candle) /\ Len(ds) = Len(cs) + 1 /\ Len(cs) \in Nat /\ ds[Len(ds)] = c
  BY <1>3, <1>5, <1>6, AppendProperties, LenProperties
<1>9. /\ Total(VolumesOf(ds)) = V[k - 1] + t.volume
      /\ Total(TurnoversOf(ds)) = W[k - 1] + t.price * t.volume
  BY <1>3, <1>4, <1>5, <1>6, <1>7, CandleAdded
<1>10. V[k] - V[k - 1] = t.volume
  BY <1>1
<1>11. Total(VolumesOf(ds)) = V[k] /\ Total(TurnoversOf(ds)) = W[k - 1] + t.price * (V[k] - V[k - 1])
  BY <1>1, <1>9, <1>10
<1>12. Len(ds) >= 1 /\ Len(ds) # 1 /\ k # 1
  BY <1>3, <1>8
<1>13. /\ ds[Len(ds)].minute = t.minute /\ ds[Len(ds)].close = t.price
       /\ ds[Len(ds)].volume = V[k] - V[k - 1]
  BY <1>7, <1>8, <1>10
<1>14. (\A i \in k..k : h[i].minute = t.minute) /\ h[k - 1].minute < t.minute
  <2>1. \A i \in k..k : i = k
    OBVIOUS
  <2> QED
    BY <1>2, <2>1 DEF t
<1> QED
  BY <1>8, <1>11, <1>12, <1>13, <1>14 DEF CandlesAt, t, ds

\* A tick of the same minute.
LEMMA SameCandle ==
  ASSUME NEW h, NEW n, NEW V, NEW W, TickCurves(h, n, V, W), NEW k \in 2..n, NEW b \in 1..(k - 1),
         CandlesAt(h, V, W, k - 1, b), h[k].minute = h[k - 1].minute
  PROVE  CandlesAt(h, V, W, k, b)
<1> DEFINE t == h[k]
           cs == CandlesOf(h)[1..(k - 1)]
           old == cs[Len(cs)]
           c == [minute |-> t.minute, close |-> t.price, volume |-> old.volume + t.volume]
           ds == CandlesOf(h)[1..k]
<1>0. n \in Nat /\ h \in [1..n -> FeedTick] /\ k \in 1..n /\ k - 1 \in 1..n
  BY DEF TickCurves
<1>1. /\ t \in FeedTick /\ t.minute \in Minutes /\ t.price \in Prices /\ t.price \in Nat
      /\ t.volume \in Nat /\ V[k] = V[k - 1] + t.volume
      /\ V[k - 1] \in Int /\ V[b - 1] \in Int /\ W[b - 1] \in Int /\ h[k - 1].price \in Nat
  <2>1. k \in 1..(k + 1) /\ b \in 1..(k + 1)
    OBVIOUS
  <2> QED
    BY <1>0, <2>1, CurvesAt
<1>3. /\ cs \in Seq(Candle) /\ Len(cs) >= 1 /\ (Len(cs) = 1 <=> b = 1)
      /\ old.minute = h[k - 1].minute /\ old.close = h[k - 1].price
      /\ old.volume = V[k - 1] - V[b - 1]
      /\ Total(VolumesOf(cs)) = V[k - 1]
      /\ Total(TurnoversOf(cs)) = W[b - 1] + h[k - 1].price * (V[k - 1] - V[b - 1])
      /\ \A i \in b..(k - 1) : h[i].minute = h[k - 1].minute
      /\ b > 1 => h[b - 1].minute < h[k - 1].minute
  BY DEF CandlesAt
<1>4. cs # <<>> /\ old \in Candle /\ Len(cs) \in Nat /\ Len(cs) \in DOMAIN cs
  <2>1. Len(cs) \in Nat /\ Len(cs) \in DOMAIN cs
    BY <1>3, LenProperties
  <2>2. cs # <<>> /\ old \in Candle
    <3> HIDE DEF cs
    <3> QED
      BY <1>3, <2>1, ElementOfSeq, EmptySeq
  <2> QED
    BY <2>1, <2>2
<1>5. old.volume \in Nat /\ c \in Candle
  <2> HIDE DEF old, t
  <2>1. old.volume \in Nat
    BY <1>4 DEF Candle
  <2>2. old.volume + t.volume \in Nat
    BY <1>1, <2>1
  <2> QED
    BY <1>1, <2>1, <2>2 DEF Candle
<1>6. ds = [cs EXCEPT ![Len(cs)] = c]
  <2>1. ds = AddTick(cs, t)
    BY <1>0, CandlesIsFold
  <2>2. Last(cs).minute = t.minute
    BY <1>3 DEF Last
  <2> HIDE DEF cs, t
  <2> QED
    BY <1>4, <2>1, <2>2 DEF AddTick
<1>7. c.minute = t.minute /\ c.close = t.price /\ c.volume = old.volume + t.volume
  OBVIOUS
<1> HIDE DEF ds, c
<1>8. ds \in Seq(Candle) /\ Len(ds) = Len(cs) /\ ds[Len(ds)] = c
  <2> HIDE DEF cs
  <2> QED
    BY <1>3, <1>4, <1>5, <1>6, ExceptSeq
<1>9. /\ Total(VolumesOf(ds)) = Total(VolumesOf(cs)) + c.volume - old.volume
      /\ Total(TurnoversOf(ds)) = Total(TurnoversOf(cs)) + c.close * c.volume - old.close * old.volume
  <2> HIDE DEF cs
  <2> QED
    BY <1>3, <1>4, <1>5, <1>6, CandleReplaced
<1>10. c.volume = V[k] - V[b - 1] /\ c.volume \in Int /\ old.volume \in Int
  <2> HIDE DEF t, old, cs
  <2> DEFINE x == old.volume
             y == t.volume
             before == V[k - 1]
             first  == V[b - 1]
  <2>1. x \in Int /\ y \in Int /\ before \in Int /\ first \in Int
    BY <1>1, <1>5
  <2>2. c.volume = x + y
    BY <1>7
  <2>3. x = before - first
    BY <1>3
  <2>4. V[k] = before + y
    BY <1>1
  <2> HIDE DEF x, y, before, first
  <2>5. c.volume = V[k] - first /\ c.volume \in Int
    BY <2>1, <2>2, <2>3, <2>4
  <2> QED
    BY <2>1, <2>5 DEF first, x
<1>11. Total(VolumesOf(ds)) = V[k]
  <2> HIDE DEF t, old, cs
  <2> QED
    BY <1>1, <1>3, <1>5, <1>7, <1>9
<1>12. Total(TurnoversOf(ds)) = W[b - 1] + t.price * (V[k] - V[b - 1])
  <2> DEFINE x == h[k - 1].price * (V[k - 1] - V[b - 1])
             y == t.price * (V[k] - V[b - 1])
             w == W[b - 1]
             z == Total(TurnoversOf(cs))
             d == Total(TurnoversOf(ds))
  <2>1. z = w + x /\ old.close * old.volume = x /\ c.close * c.volume = y
    BY <1>3, <1>7, <1>10
  <2>2. d = z + y - x
    BY <1>9, <2>1
  <2>3. w \in Int /\ x \in Int /\ y \in Int
    <3>1. V[k - 1] - V[b - 1] \in Int /\ V[k] - V[b - 1] \in Int
      <4>1. V[k] \in Int
        BY <1>1
      <4> QED
        BY <1>1, <4>1
    <3>2. \A u \in Nat, v \in Int : u * v \in Int
      OBVIOUS
    <3> QED
      BY <1>1, <3>1, <3>2
  <2> HIDE DEF x, y, w, z, d
  <2>4. d = w + y
    BY <2>1, <2>2, <2>3
  <2> QED
    BY <2>4 DEF d, w, y
<1>13. \A i \in b..k : h[i].minute = t.minute
  <2>1. \A i \in b..k : i \in b..(k - 1) \/ i = k
    OBVIOUS
  <2> QED
    BY <1>3, <2>1
<1>14. b > 1 => h[b - 1].minute < t.minute
  BY <1>3
<1> HIDE DEF cs, t
<1>15. Len(ds) >= 1 /\ (Len(ds) = 1 <=> b = 1)
  BY <1>3, <1>8
<1> QED
  BY <1>7, <1>8, <1>10, <1>11, <1>12, <1>13, <1>14, <1>15 DEF CandlesAt, t, ds

\* Each prefix of the ticks has its candles.
LEMMA CandlesReach ==
  ASSUME NEW h, NEW n, NEW V, NEW W, TickCurves(h, n, V, W), n >= 1
  PROVE  \E b \in 1..n : CandlesAt(h, V, W, n, b)
<1> DEFINE S == {k \in 0..n : k = 0 \/ \E b \in 1..k : CandlesAt(h, V, W, k, b)}
<1>0. n \in Nat
  BY DEF TickCurves
<1>1. 0 \in S
  BY <1>0
<1>2. ASSUME NEW k \in 1..n, k - 1 \in S PROVE k \in S
  <2>1. CASE k = 1
    <3>1. CandlesAt(h, V, W, 1, 1)
      BY FirstCandle
    <3> QED
      BY <1>0, <2>1, <3>1
  <2>2. CASE k # 1
    <3>1. k \in 2..n /\ k - 1 # 0 /\ k \in 0..n
      BY <1>0, <2>2
    <3>2. PICK b \in 1..(k - 1) : CandlesAt(h, V, W, k - 1, b)
      BY <1>2, <3>1
    <3>3. b \in 1..k /\ k \in 1..k
      BY <1>0
    <3>4. CASE h[k].minute = h[k - 1].minute
      BY <3>1, <3>2, <3>3, <3>4, SameCandle
    <3>5. CASE h[k].minute # h[k - 1].minute
      BY <3>1, <3>2, <3>3, <3>5, NextCandle
    <3> QED
      BY <3>4, <3>5
  <2> QED
    BY <2>1, <2>2
<1> HIDE DEF S
<1>3. \A k \in 0..n : k \in S
  BY <1>0, <1>1, <1>2, UpTo
<1>4. n \in S
  BY <1>0, <1>3
<1> QED
  BY <1>4 DEF S

\* The candles of the ticks have their volume and their turnover.
LEMMA CandlesOfTicks ==
  ASSUME NEW h, NEW n, NEW V, NEW W, TickCurves(h, n, V, W), n >= 1
  PROVE  /\ Candles(h) \in Seq(Candle)
         /\ Last(Candles(h)).close = h[n].price
         /\ Total(VolumesOf(Candles(h))) = V[n] /\ Total(TurnoversOf(Candles(h))) = W[n]
         /\ Len(Candles(h)) < 2 <=> \A i \in 1..n : h[i].minute = h[n].minute
<1> DEFINE cs == Candles(h)
<1>0. n \in Nat /\ h \in [1..n -> FeedTick] /\ n \in 1..n
  BY DEF TickCurves
<1>1. PICK b \in 1..n : CandlesAt(h, V, W, n, b)
  BY CandlesReach
<1>2. cs = CandlesOf(h)[1..n]
  BY <1>0, CandlesIsFold
<1> HIDE DEF cs
<1>3. /\ cs \in Seq(Candle) /\ Len(cs) >= 1 /\ (Len(cs) = 1 <=> b = 1)
      /\ cs[Len(cs)].close = h[n].price
      /\ Total(VolumesOf(cs)) = V[n]
      /\ Total(TurnoversOf(cs)) = W[b - 1] + h[n].price * (V[n] - V[b - 1])
      /\ \A i \in b..n : h[i].minute = h[n].minute
      /\ b > 1 => h[b - 1].minute < h[n].minute
  BY <1>1, <1>2 DEF CandlesAt
<1>4. Total(TurnoversOf(cs)) = W[n]
  <2>1. W[n] = W[b - 1] + h[n].price * (V[n] - V[b - 1])
    BY <1>0, <1>3, TurnoverOfMinute
  <2> QED
    BY <1>3, <2>1
<1>5. Len(cs) < 2 <=> b = 1
  <2>1. Len(cs) \in Nat
    BY <1>3, LenProperties
  <2> DEFINE l == Len(cs)
  <2>2. l \in Nat /\ l >= 1 /\ (l = 1 <=> b = 1)
    BY <1>3, <2>1
  <2> HIDE DEF l
  <2>3. l < 2 <=> l = 1
    BY <2>2
  <2> QED
    BY <2>2, <2>3 DEF l
<1>6. b = 1 <=> \A i \in 1..n : h[i].minute = h[n].minute
  <2>1. CASE b = 1
    BY <1>3, <2>1
  <2>2. CASE b # 1
    <3>1. b - 1 \in 1..n /\ b > 1
      BY <1>0, <2>2
    <3>2. h[b - 1].minute < h[n].minute /\ h[b - 1].minute \in Nat /\ h[n].minute \in Nat
      BY <1>0, <1>3, <3>1, CurvesAt
    <3>3. h[b - 1].minute # h[n].minute
      BY <3>2
    <3> QED
      BY <2>2, <3>1, <3>3
  <2> QED
    BY <2>1, <2>2
<1> QED
  BY <1>3, <1>4, <1>5, <1>6 DEF cs, Last

\* How far a price is above the turnover.
AboveBy(h, n, d) ==
  [i \in 1..n |-> d * (h[n].price - CandleClose(h, h[i].minute)) * h[i].volume]

\* The volumes and the turnovers of the ticks add up to the ends of their curves.
LEMMA CurvesExist ==
  ASSUME NEW n \in Nat, NEW h \in [1..n -> FeedTick],
         \A i, j \in 1..n : i <= j => h[i].minute <= h[j].minute
  PROVE  LET vol == [i \in 1..n |-> h[i].volume]
             pv  == [i \in 1..n |-> CandleClose(h, h[i].minute) * h[i].volume]
         IN  /\ vol \in [1..n -> Nat] /\ pv \in [1..n -> Int]
             /\ \E V, W : TickCurves(h, n, V, W) /\ V[n] = Total(vol) /\ W[n] = Total(pv)
<1> DEFINE vol == [i \in 1..n |-> h[i].volume]
           pv  == [i \in 1..n |-> CandleClose(h, h[i].minute) * h[i].volume]
           V == [k \in 0..n |-> TotalOf(vol)[1..k]]
           W == [k \in 0..n |-> TotalOf(pv)[1..k]]
<1>1. \A i \in 1..n : h[i].volume \in Nat /\ CandleClose(h, h[i].minute) \in Nat
  <2>1. \A i \in 1..n : h[i] \in FeedTick
    OBVIOUS
  <2>2. \A i \in 1..n : h[i].volume \in Nat
    BY <2>1, VolumesAssumption DEF FeedTick
  <2> QED
    BY <2>2, CandleCloseType
<1>2. \A i \in 1..n : CandleClose(h, h[i].minute) * h[i].volume \in Int
  <2>1. \A x, y \in Nat : x * y \in Int
    OBVIOUS
  <2> QED
    BY <1>1, <2>1
<1>3. /\ vol \in [1..n -> Nat] /\ vol \in [1..n -> Int] /\ pv \in [1..n -> Int]
      /\ \A i \in 1..n : vol[i] = h[i].volume /\ pv[i] = CandleClose(h, h[i].minute) * h[i].volume
  BY <1>1, <1>2
<1> HIDE DEF vol, pv
<1>4. V \in [0..n -> Int] /\ V[0] = 0 /\ V[n] = Total(vol) /\ \A k \in 1..n : V[k] = V[k - 1] + vol[k]
  BY <1>3, TotalCurve
<1>5. W \in [0..n -> Int] /\ W[0] = 0 /\ W[n] = Total(pv) /\ \A k \in 1..n : W[k] = W[k - 1] + pv[k]
  BY <1>3, TotalCurve
<1> HIDE DEF V, W
<1>6. TickCurves(h, n, V, W)
  BY <1>3, <1>4, <1>5 DEF TickCurves
<1>7. vol \in [1..n -> Nat] /\ pv \in [1..n -> Int] /\
      \E V1, W1 : TickCurves(h, n, V1, W1) /\ V1[n] = Total(vol) /\ W1[n] = Total(pv)
  BY <1>3, <1>4, <1>5, <1>6
<1> QED
  BY <1>7 DEF vol, pv

\* The distance from the VWAP, over the ticks and over the candles.
LEMMA AboveIs ==
  ASSUME NEW n \in Nat, NEW h \in [1..n -> FeedTick], NEW d \in {1, -1}, n >= 1,
         NEW vol \in [1..n -> Nat], NEW pv \in [1..n -> Int],
         \A i \in 1..n : vol[i] = h[i].volume,
         \A i \in 1..n : pv[i] = CandleClose(h, h[i].minute) * h[i].volume
  PROVE  /\ SumFunction(AboveBy(h, n, d)) = d * (h[n].price * Total(vol) - Total(pv))
         /\ Total(vol) = 0 => SumFunction(AboveBy(h, n, d)) = 0
         /\ Total(vol) \in Nat /\ Total(pv) \in Int /\ h[n].price \in Nat
<1> DEFINE p == h[n].price
           g == AboveBy(h, n, d)
           a == d * p
           b == -d
<1>1. n \in 1..n /\ p \in Nat
  <2>1. n \in 1..n
    OBVIOUS
  <2>2. h[n] \in FeedTick
    BY <2>1
  <2> QED
    BY <2>1, <2>2, PricesAssumption DEF FeedTick
<1>2. d \in Int /\ a \in Int /\ b \in Int
  BY <1>1
<1>3. ASSUME NEW i \in 1..n PROVE g[i] = a * vol[i] + b * pv[i] + 0 /\ g[i] \in Int
  <2> DEFINE c == CandleClose(h, h[i].minute)
             v == h[i].volume
  <2>1. c \in Int /\ v \in Int /\ vol[i] = v /\ pv[i] = c * v
    <3>1. v \in Nat /\ vol[i] = v /\ pv[i] = c * v
      <4>1. vol[i] \in Nat
        OBVIOUS
      <4> QED
        BY <4>1
    <3>2. c \in Nat
      BY CandleCloseType
    <3> HIDE DEF c, v
    <3> QED
      BY <3>1, <3>2
  <2>2. g[i] = d * (p - c) * v
    BY DEF AboveBy
  <2> HIDE DEF c, v, g, p
  <2>3. d * (p - c) * v = (d * p) * v + (-d) * (c * v) + 0 /\ d * (p - c) * v \in Int
    <3>1. CASE d = 1
      BY <1>1, <2>1, <3>1
    <3>2. CASE d = -1
      BY <1>1, <2>1, <3>2
    <3> QED
      BY <3>1, <3>2
  <2> QED
    BY <2>1, <2>2, <2>3
<1>4. vol \in [1..n -> Int] /\ g \in [1..n -> Int]
  <2>1. \A i \in 1..n : g[i] \in Int /\ vol[i] \in Int
    BY <1>3
  <2> QED
    BY <2>1 DEF AboveBy
<1> HIDE DEF g, a, b, p
<1>5. Total(g) = a * Total(vol) + b * Total(pv) + n * 0
  <2> DEFINE c == 0
  <2>1. c \in Int /\ \A i \in 1..n : g[i] = a * vol[i] + b * pv[i] + c
    BY <1>3
  <2> HIDE DEF c
  <2>2. Combines(g, vol, pv, n, a, b, c)
    BY <1>2, <1>4, <2>1 DEF Combines
  <2>3. Total(g) = a * Total(vol) + b * Total(pv) + n * c
    BY <2>2, TotalCombines
  <2> QED
    BY <2>3 DEF c
<1>6. SumFunction(g) = Total(g) /\ Total(pv) \in Int /\ Total(vol) \in Nat
  BY <1>4, TotalIsSum, TotalNat
<1>7. SumFunction(g) = d * (p * Total(vol) - Total(pv))
  <2> DEFINE x == Total(vol)
             y == Total(pv)
  <2>1. SumFunction(g) = (d * p) * x + (-d) * y + n * 0 /\ x \in Int /\ y \in Int
    BY <1>5, <1>6 DEF a, b
  <2> HIDE DEF x, y
  <2>2. (d * p) * x + (-d) * y + n * 0 = d * (p * x - y)
    <3>1. CASE d = 1
      BY <1>1, <2>1, <3>1
    <3>2. CASE d = -1
      BY <1>1, <2>1, <3>2
    <3> QED
      BY <3>1, <3>2
  <2> QED
    BY <2>1, <2>2 DEF x, y
<1>8. ASSUME Total(vol) = 0 PROVE SumFunction(g) = 0
  <2>1. \A i \in 1..n : vol[i] = 0
    <3>1. \A i \in 1..n : vol[i] <= 0 /\ vol[i] \in Nat
      BY <1>8, TotalNat
    <3> QED
      BY <3>1
  <2>2. \A i \in 1..n : g[i] = 0
    <3> SUFFICES ASSUME NEW i \in 1..n PROVE g[i] = 0
      OBVIOUS
    <3>1. h[i].volume = 0
      BY <2>1
    <3>2. g[i] = d * (p - CandleClose(h, h[i].minute)) * 0
      BY <3>1 DEF g, p, AboveBy
    <3>3. CandleClose(h, h[i].minute) \in Nat
      BY CandleCloseType
    <3>4. \A u \in Nat : d * (p - u) * 0 = 0
      BY <1>1, <1>2
    <3> QED
      BY <3>2, <3>3, <3>4
  <2> DEFINE z == 0
  <2>3. z \in Int /\ n * z = 0 /\ \A i \in 1..n : g[i] = z
    BY <2>2
  <2> HIDE DEF z
  <2>4. Total(g) = n * z
    BY <1>4, <2>3, TotalOfConstant
  <2> QED
    BY <1>6, <2>3, <2>4
<1> QED
  BY <1>1, <1>6, <1>7, <1>8 DEF g, p

-----------------------------------------------------------------------------
(***************************************************************************)
(* A quiet evaluation (3): each side, and a setup, as the reads see them.  *)
(***************************************************************************)

\* The side of the VWAP, which the candles give, over the ticks.
LEMMA VWAPSideIs ==
  ASSUME NEW n \in Nat, NEW h \in [1..n -> FeedTick], n >= 1,
         \A i, j \in 1..n : i <= j => h[i].minute <= h[j].minute
  PROVE  LET cs == Candles(h)
             s  == VWAPSide(h[n].price, cs)
         IN  /\ s = "LONG" <=> SumFunction(AboveBy(h, n, 1)) > 0
             /\ s = "SHORT" <=> SumFunction(AboveBy(h, n, -1)) > 0
             /\ Total(Each(LAMBDA c : c.volume, cs)) = 0 => s = "none"
             /\ Last(cs).close = h[n].price
             /\ Len(cs) < 2 <=> \A i \in 1..n : h[i].minute = h[n].minute
<1> DEFINE cs == Candles(h)
           s  == VWAPSide(h[n].price, cs)
           vol == [i \in 1..n |-> h[i].volume]
           pv  == [i \in 1..n |-> CandleClose(h, h[i].minute) * h[i].volume]
           v == Total(vol)
           w == Total(pv)
           p == h[n].price
           x == p * v
           above == SumFunction(AboveBy(h, n, 1))
           below == SumFunction(AboveBy(h, n, -1))
<1>1. /\ vol \in [1..n -> Nat] /\ pv \in [1..n -> Int]
      /\ \E V, W : TickCurves(h, n, V, W) /\ V[n] = Total(vol) /\ W[n] = Total(pv)
  BY CurvesExist
<1>2. /\ \A i \in 1..n : vol[i] = h[i].volume
      /\ \A i \in 1..n : pv[i] = CandleClose(h, h[i].minute) * h[i].volume
  OBVIOUS
<1> HIDE DEF vol, pv
<1>3. PICK V, W : TickCurves(h, n, V, W) /\ V[n] = v /\ W[n] = w
  BY <1>1
<1>4. /\ Last(cs).close = h[n].price
      /\ Total(VolumesOf(cs)) = v /\ Total(TurnoversOf(cs)) = w
      /\ Len(cs) < 2 <=> \A i \in 1..n : h[i].minute = h[n].minute
  BY <1>3, CandlesOfTicks
<1>5. /\ above = 1 * (p * v - w) /\ (v = 0 => above = 0)
      /\ v \in Nat /\ w \in Int /\ p \in Nat
  BY <1>1, <1>2, AboveIs
<1>6. below = -(p * v - w) /\ (v = 0 => below = 0)
  <2> DEFINE d == -1
  <2>1. d \in {1, -1}
    OBVIOUS
  <2> HIDE DEF d
  <2>2. /\ SumFunction(AboveBy(h, n, d)) = d * (h[n].price * Total(vol) - Total(pv))
        /\ Total(vol) = 0 => SumFunction(AboveBy(h, n, d)) = 0
    BY <1>1, <1>2, <2>1, AboveIs
  <2>3. d = -1
    BY DEF d
  <2>4. below = SumFunction(AboveBy(h, n, d))
    BY <2>3
  <2> HIDE DEF below
  <2>5. below = d * (p * v - w) /\ (v = 0 => below = 0)
    BY <2>2, <2>4
  <2> DEFINE y == p * v - w
  <2>6. y \in Int
    BY <1>5
  <2>7. below = d * y
    BY <2>5
  <2> HIDE DEF y
  <2>8. below = -y
    BY <2>3, <2>6, <2>7
  <2> QED
    BY <2>5, <2>8 DEF y
<1>7. /\ Each(LAMBDA c : c.volume, cs) = VolumesOf(cs)
      /\ Each(LAMBDA c : c.close * c.volume, cs) = TurnoversOf(cs)
  BY DEF Each, VolumesOf, TurnoversOf
<1> HIDE DEF cs, v, w, p
<1>8. s = CASE v > 0 /\ x > w -> "LONG" [] v > 0 /\ x < w -> "SHORT" [] OTHER -> "none"
  BY <1>4, <1>7 DEF VWAPSide, p
<1>9. x \in Int /\ above = x - w /\ below = w - x
  <2>1. x \in Int
    BY <1>5
  <2> HIDE DEF x, above, below
  <2>2. above = 1 * (x - w) /\ below = -(x - w)
    BY <1>5, <1>6 DEF x
  <2> QED
    BY <1>5, <2>1, <2>2
<1> HIDE DEF x, above, below, s
<1>10. /\ above > 0 <=> v > 0 /\ x > w
       /\ below > 0 <=> v > 0 /\ x < w
       /\ ~(x > w /\ x < w)
  BY <1>5, <1>6, <1>9
<1>11. s = "LONG" <=> v > 0 /\ x > w
  BY <1>8, <1>10
<1>12. s = "SHORT" <=> v > 0 /\ x < w
  BY <1>8, <1>10
<1>13. v = 0 => s = "none"
  BY <1>8
<1>14. Total(Each(LAMBDA c : c.volume, cs)) = v
  BY <1>4, <1>7
<1> QED
  BY <1>4, <1>10, <1>11, <1>12, <1>13, <1>14 DEF cs, s, p, above, below

\* How far a price is above prices, and how far these are apart.
FarFrom(p, x, n, d) == SumFunction([k \in 1..n |-> d * (p - x[k])])

Spread(x, n) ==
  LET apart(i) == [j \in 1..n |-> (x[i] - x[j]) * (x[i] - x[j])]
  IN  SumFunction([i \in 1..n |-> SumFunction(apart(i))])

\* The distance from the mean, in one direction or the other.
LEMMA FarIs ==
  ASSUME NEW n \in Nat, NEW x \in [1..n -> Int], NEW p \in Int, NEW d \in {1, -1}
  PROVE  FarFrom(p, x, n, d) = d * (n * p - Total(x)) /\ Total(x) \in Int
<1> DEFINE g == [k \in 1..n |-> d * (p - x[k])]
           a == 0
           b == -d
           c == d * p
<1>1. a \in Int /\ b \in Int /\ c \in Int
  OBVIOUS
<1>2. \A k \in 1..n : g[k] = a * x[k] + b * x[k] + c /\ g[k] \in Int
  <2> SUFFICES ASSUME NEW k \in 1..n PROVE g[k] = a * x[k] + b * x[k] + c /\ g[k] \in Int
    OBVIOUS
  <2> DEFINE y == x[k]
  <2>1. y \in Int /\ g[k] = d * (p - y)
    OBVIOUS
  <2> HIDE DEF g, y
  <2>2. d * (p - y) = 0 * y + (-d) * y + d * p /\ d * (p - y) \in Int
    <3>1. CASE d = 1
      BY <2>1, <3>1
    <3>2. CASE d = -1
      BY <2>1, <3>2
    <3> QED
      BY <3>1, <3>2
  <2> QED
    BY <2>1, <2>2 DEF y
<1>3. g \in [1..n -> Int]
  BY <1>2
<1> HIDE DEF g, a, b, c
<1>4. Combines(g, x, x, n, a, b, c)
  BY <1>1, <1>2, <1>3 DEF Combines
<1>5. Total(g) = a * Total(x) + b * Total(x) + n * c
  BY <1>4, TotalCombines
<1>6. SumFunction(g) = Total(g) /\ Total(x) \in Int
  BY <1>3, TotalIsSum
<1> DEFINE T == Total(x)
<1>7. SumFunction(g) = 0 * T + (-d) * T + n * (d * p) /\ T \in Int
  BY <1>5, <1>6 DEF a, b, c
<1> HIDE DEF T
<1>8. 0 * T + (-d) * T + n * (d * p) = d * (n * p - T)
  <2>1. CASE d = 1
    BY <1>7, <2>1
  <2>2. CASE d = -1
    <3>1. n * ((-1) * p) = -1 * (n * p) /\ n * p \in Int
      OBVIOUS
    <3> QED
      BY <1>7, <2>2, <3>1
  <2> QED
    BY <2>1, <2>2
<1> QED
  BY <1>7, <1>8 DEF T, g, FarFrom

\* The band a price is outside of, which the mean and the variance give, over all pairs.
LEMMA BandSideIs ==
  ASSUME NEW n \in Nat, NEW x \in [1..n -> Int], Len(x) = n, NEW p \in Int
  PROVE  /\ BandSide(p, x) = "LONG" <=>
              /\ FarFrom(p, x, n, 1) > 0
              /\ 2 * FarFrom(p, x, n, 1) * FarFrom(p, x, n, 1) > Multiplier * Multiplier * Spread(x, n)
         /\ BandSide(p, x) = "SHORT" <=>
              /\ FarFrom(p, x, n, -1) > 0
              /\ 2 * FarFrom(p, x, n, -1) * FarFrom(p, x, n, -1) > Multiplier * Multiplier * Spread(x, n)
<1> DEFINE D == n * p - Total(x)
           f == FarFrom(p, x, n, 1)
           g == FarFrom(p, x, n, -1)
           V == Variance(x)
           M == Multiplier * Multiplier
           Z == Spread(x, n)
           s == BandSide(p, x)
<1>1. f = 1 * D /\ g = -1 * D /\ Total(x) \in Int
  <2> DEFINE d == -1
  <2>1. d \in {1, -1}
    OBVIOUS
  <2> HIDE DEF d
  <2>2. FarFrom(p, x, n, d) = d * (n * p - Total(x))
    BY <2>1, FarIs
  <2>3. f = 1 * D /\ Total(x) \in Int
    BY FarIs
  <2> QED
    BY <2>2, <2>3 DEF d
<1>2. D \in Int
  BY <1>1
<1>3. Z = 2 * V /\ V \in Int
  BY VarianceIsSpread DEF Spread
<1>4. M \in Nat
  BY DetectorAssumption
<1>5. s = CASE D * D > M * V /\ D > 0 -> "LONG" [] D * D > M * V /\ D < 0 -> "SHORT" [] OTHER -> "none"
  BY DEF BandSide
<1> HIDE DEF D, f, g, V, M, Z, s
<1>6. f = D /\ g = -D
  BY <1>1, <1>2
<1>7. D * D \in Int /\ M * V \in Int /\ M * Z = 2 * (M * V)
  <2>1. \A u \in Int : M * u \in Int /\ M * (2 * u) = 2 * (M * u)
    BY <1>4
  <2>2. D * D \in Int
    BY <1>2
  <2>3. M * V \in Int /\ M * (2 * V) = 2 * (M * V)
    BY <1>3, <2>1
  <2> QED
    BY <1>3, <2>2, <2>3
<1>8. 2 * f * f = 2 * (D * D) /\ 2 * g * g = 2 * (D * D)
  BY <1>2, <1>6
<1> DEFINE A == D * D
           B == M * V
<1>9. A \in Int /\ B \in Int /\ M * Z = 2 * B /\ 2 * f * f = 2 * A /\ 2 * g * g = 2 * A
  BY <1>7, <1>8
<1>10. s = CASE A > B /\ D > 0 -> "LONG" [] A > B /\ D < 0 -> "SHORT" [] OTHER -> "none"
  BY <1>5
<1> HIDE DEF A, B
<1>11. /\ f > 0 /\ 2 * f * f > M * Z <=> A > B /\ D > 0
       /\ g > 0 /\ 2 * g * g > M * Z <=> A > B /\ D < 0
       /\ ~(D > 0 /\ D < 0)
  <2> DEFINE a == 2 * f * f
             b == 2 * g * g
             c == M * Z
  <2>1. a = 2 * A /\ b = 2 * A /\ c = 2 * B
    BY <1>9
  <2> HIDE DEF a, b, c
  <2>2. (a > c <=> A > B) /\ (b > c <=> A > B)
    BY <1>9, <2>1
  <2>3. (f > 0 <=> D > 0) /\ (g > 0 <=> D < 0) /\ ~(D > 0 /\ D < 0)
    BY <1>2, <1>6
  <2> QED
    BY <2>2, <2>3 DEF a, b, c
<1>12. (s = "LONG" <=> A > B /\ D > 0) /\ (s = "SHORT" <=> A > B /\ D < 0)
  BY <1>10, <1>11
<1> QED
  BY <1>11, <1>12 DEF s, f, g, M, Z

\* The last m ticks, when there are as many.
LEMMA LatestIs ==
  ASSUME NEW h \in Seq(FeedTick), NEW m \in Nat \ {0}, Len(h) >= m
  PROVE  /\ Latest(h, m) \in Seq(FeedTick) /\ Len(Latest(h, m)) = m /\ DOMAIN Latest(h, m) = 1..m
         /\ \A k \in 1..m : /\ Len(h) - m + k \in 1..Len(h) /\ h[Len(h) - m + k] \in FeedTick
                            /\ Latest(h, m)[k] = h[Len(h) - m + k]
<1> DEFINE first == Len(h) - m + 1
           s == SubSeq(h, first, Len(h))
<1>1. Len(h) \in Nat /\ DOMAIN h = 1..Len(h) /\ first \in 1..Len(h) /\ ~(m > Len(h))
  BY LenProperties
<1>2. Latest(h, m) = s
  BY <1>1 DEF Latest
<1>3. s \in Seq(FeedTick) /\ Len(s) = m /\ \A k \in 1..m : s[k] = h[first + k - 1]
  BY <1>1
<1> HIDE DEF s
<1>4. DOMAIN s = 1..m
  BY <1>3, LenProperties
<1>5. ASSUME NEW k \in 1..m
      PROVE  /\ Len(h) - m + k \in 1..Len(h) /\ h[Len(h) - m + k] \in FeedTick
             /\ s[k] = h[Len(h) - m + k]
  <2>1. Len(h) - m + k \in 1..Len(h) /\ first + k - 1 = Len(h) - m + k
    BY <1>1
  <2>2. h[Len(h) - m + k] \in FeedTick
    BY <1>1, <2>1, ElementOfSeq
  <2> QED
    BY <1>3, <2>1, <2>2
<1> QED
  BY <1>2, <1>3, <1>4, <1>5

\* The prices and the volumes of the last ticks, as IsSetup reads them.
PricesOf(h, m) == [k \in 1..m |-> h[Len(h) - m + k].price]

BaselineOf(h, m) == [k \in 1..m |-> h[Len(h) - m - 1 + k].volume]

\* RecentPrices.
LEMMA RecentPricesAre ==
  ASSUME NEW h \in Seq(FeedTick), NEW m \in Nat \ {0}, Len(h) >= m
  PROVE  /\ Each(LAMBDA t : t.price, Latest(h, m)) = PricesOf(h, m)
         /\ PricesOf(h, m) \in [1..m -> Int] /\ Len(PricesOf(h, m)) = m
<1>1. DOMAIN Latest(h, m) = 1..m
  BY LatestIs
<1>2. \A k \in 1..m : h[Len(h) - m + k] \in FeedTick /\ Latest(h, m)[k] = h[Len(h) - m + k]
  BY LatestIs
<1>3. \A k \in 1..m : h[Len(h) - m + k].price \in Int
  <2>1. \A t \in FeedTick : t.price \in Int
    <3>1. Prices \subseteq Int
      BY PricesAssumption
    <3> QED
      BY <3>1 DEF FeedTick
  <2> QED
    BY <1>2, <2>1
<1>4. Each(LAMBDA t : t.price, Latest(h, m)) = PricesOf(h, m)
  BY <1>1, <1>2 DEF Each, PricesOf
<1>5. PricesOf(h, m) \in [1..m -> Int]
  BY <1>3 DEF PricesOf
<1>6. PricesOf(h, m) \in Seq(Int) /\ DOMAIN PricesOf(h, m) = 1..m
  BY <1>5, IsASeq
<1>7. Len(PricesOf(h, m)) = m
  BY <1>6, LenProperties
<1> QED
  BY <1>4, <1>5, <1>7

\* The volumes of the baseline are those before the last.
LEMMA VolumeBreakoutIs ==
  ASSUME NEW h \in Seq(FeedTick), Len(h) >= Window + 1
  PROVE  VolumeBreakout(Each(LAMBDA t : t.volume, Latest(h, Window + 1))) <=>
            /\ SumFunction(BaselineOf(h, Window)) > 0
            /\ h[Len(h)].volume * Window >= Threshold * SumFunction(BaselineOf(h, Window))
<1> DEFINE m == Window + 1
           n == Len(h)
           s == [k \in 1..m |-> h[n - m + k].volume]
           b == BaselineOf(h, Window)
<1>1. Window \in Nat \ {0} /\ Threshold \in Nat /\ m \in Nat \ {0} /\ m - 1 = Window /\ n \in Nat
  BY DetectorAssumption, LenProperties
<1>2. DOMAIN Latest(h, m) = 1..m
  BY <1>1, LatestIs
<1>3. \A k \in 1..m : h[n - m + k] \in FeedTick /\ Latest(h, m)[k] = h[n - m + k]
  BY <1>1, LatestIs
<1>4. \A k \in 1..m : h[n - m + k].volume \in Nat
  BY <1>3, VolumesAssumption DEF FeedTick
<1>5. Each(LAMBDA t : t.volume, Latest(h, m)) = s
  BY <1>2, <1>3 DEF Each
<1>6. s \in [1..m -> Nat] /\ \A k \in 1..m : s[k] = h[n - m + k].volume
  BY <1>4
<1> HIDE DEF s
<1>7. s \in Seq(Nat) /\ Len(s) = m
  <2>1. s \in Seq(Nat) /\ DOMAIN s = 1..m
    BY <1>1, <1>6, IsASeq
  <2> QED
    BY <1>1, <2>1, LenProperties
<1>8. Front(s) = SubSeq(s, 1, Window)
  BY <1>1, <1>7 DEF Front
<1>9. /\ SubSeq(s, 1, Window) \in Seq(Nat) /\ Len(SubSeq(s, 1, Window)) = Window
      /\ \A k \in 1..Window : SubSeq(s, 1, Window)[k] = s[k]
  BY <1>1, <1>7
<1>10. b \in [1..Window -> Nat] /\ \A k \in 1..Window : b[k] = s[k]
  <2>1. \A k \in 1..Window : k \in 1..m /\ n - m + k = n - Window - 1 + k
    BY <1>1
  <2>2. \A k \in 1..Window : b[k] = h[n - Window - 1 + k].volume
    BY DEF BaselineOf
  <2>3. \A k \in 1..Window : b[k] = s[k] /\ s[k] \in Nat
    BY <1>6, <2>1, <2>2
  <2>4. DOMAIN b = 1..Window /\ b = [k \in 1..Window |-> b[k]]
    BY DEF BaselineOf
  <2> HIDE DEF b
  <2> QED
    BY <2>3, <2>4
<1>11. Front(s) = b
  <2>1. DOMAIN SubSeq(s, 1, Window) = 1..Window
    BY <1>9, LenProperties
  <2>2. SubSeq(s, 1, Window) = [k \in 1..Window |-> SubSeq(s, 1, Window)[k]]
    BY <1>9, <2>1
  <2>3. b = [k \in 1..Window |-> b[k]]
    BY <1>10
  <2> HIDE DEF b
  <2> QED
    BY <1>8, <1>9, <1>10, <2>2, <2>3
<1>12. Len(b) = Window
  BY <1>8, <1>9, <1>11
<1> HIDE DEF b
<1>13. Total(b) \in Nat /\ SumFunction(b) = Total(b)
  <2>1. b \in [1..Window -> Int]
    BY <1>10
  <2> QED
    BY <1>1, <1>10, <2>1, TotalNat, TotalIsSum
<1>14. Last(s) = h[n].volume
  <2>1. m \in 1..m /\ n - m + m = n
    BY <1>1
  <2>2. s[m] = h[n - m + m].volume
    BY <1>6, <2>1
  <2> HIDE DEF m, n
  <2> QED
    BY <1>7, <2>1, <2>2 DEF Last
<1>15. VolumeBreakout(s) <=> Total(b) # 0 /\ Last(s) * Window >= Threshold * Total(b)
  BY <1>11, <1>12 DEF VolumeBreakout
<1>16. VolumeBreakout(s) <=> Total(b) > 0 /\ h[n].volume * Window >= Threshold * Total(b)
  <2>1. Total(b) # 0 <=> Total(b) > 0
    BY <1>13
  <2> QED
    BY <1>14, <1>15, <2>1
<1> QED
  BY <1>5, <1>13, <1>16 DEF b, m, n

\* What IsSetup asks of the ticks in the direction d.
LEMMA SetupParts ==
  ASSUME NEW h \in Seq(FeedTick), NEW d
  PROVE  IsSetup(h, d) <=>
           LET n   == Len(h)
               far == FarFrom(h[n].price, PricesOf(h, Period), Period, d)
           IN  /\ n >= Period /\ n > Window
               /\ \E i \in 1..n : h[i].minute # h[n].minute
               /\ SumFunction(AboveBy(h, n, d)) > 0
               /\ far > 0
               /\ 2 * far * far > Multiplier * Multiplier * Spread(PricesOf(h, Period), Period)
               /\ SumFunction(BaselineOf(h, Window)) > 0
               /\ h[n].volume * Window >= Threshold * SumFunction(BaselineOf(h, Window))
BY DEF IsSetup, FarFrom, Spread, AboveBy, PricesOf, BaselineOf

\* The price of the last tick against the bands of the last prices.
BandOf(h) == BandSide(h[Len(h)].price, PricesOf(h, Period))

\* A setup is what the three reads come to.
LEMMA SetupIs ==
  ASSUME NEW h \in Seq(FeedTick), Len(h) >= 1,
         \A i, j \in DOMAIN h : i <= j => h[i].minute <= h[j].minute,
         NEW d, NEW name, (d = 1 /\ name = "LONG") \/ (d = -1 /\ name = "SHORT")
  PROVE  LET n  == Len(h)
             cs == Candles(h)
         IN  IsSetup(h, d) <=>
                /\ n >= Period /\ n >= Window + 1 /\ ~(Len(cs) < 2)
                /\ VWAPSide(h[n].price, cs) = name
                /\ BandOf(h) = name
                /\ VolumeBreakout(Each(LAMBDA t : t.volume, Latest(h, Window + 1)))
<1> DEFINE n == Len(h)
           cs == Candles(h)
           x == PricesOf(h, Period)
           p == h[n].price
           far == FarFrom(p, x, Period, d)
           breakout == VolumeBreakout(Each(LAMBDA t : t.volume, Latest(h, Window + 1)))
           b == BaselineOf(h, Window)
           Minute == \E i \in 1..n : h[i].minute # h[n].minute
           Above == SumFunction(AboveBy(h, n, d)) > 0
           Far == far > 0 /\ 2 * far * far > Multiplier * Multiplier * Spread(x, Period)
           Ratio == SumFunction(b) > 0 /\ h[n].volume * Window >= Threshold * SumFunction(b)
<1>1. n \in Nat /\ DOMAIN h = 1..n /\ h \in [1..n -> FeedTick] /\ n \in 1..n
  BY LenProperties
<1>2. Period \in Nat \ {0} /\ Window \in Nat \ {0}
  BY DetectorAssumption
<1>3. Minute <=> ~(Len(cs) < 2)
  <2>1. Len(cs) < 2 <=> \A i \in 1..n : h[i].minute = h[n].minute
    BY <1>1, VWAPSideIs
  <2> QED
    BY <2>1
<1>4. Above <=> VWAPSide(p, cs) = name
  <2>1. /\ VWAPSide(p, cs) = "LONG" <=> SumFunction(AboveBy(h, n, 1)) > 0
        /\ VWAPSide(p, cs) = "SHORT" <=> SumFunction(AboveBy(h, n, -1)) > 0
    BY <1>1, VWAPSideIs
  <2> HIDE DEF cs, n, p
  <2>2. CASE d = 1 /\ name = "LONG"
    BY <2>1, <2>2
  <2>3. CASE d = -1 /\ name = "SHORT"
    BY <2>1, <2>3
  <2> QED
    BY <2>2, <2>3
<1>5. ASSUME n >= Period PROVE Far <=> BandOf(h) = name
  <2>1. x \in [1..Period -> Int] /\ Len(x) = Period
    BY <1>2, <1>5, RecentPricesAre
  <2>2. p \in Int
    <3>1. h[n] \in FeedTick
      BY <1>1
    <3>2. Prices \subseteq Int
      BY PricesAssumption
    <3> QED
      BY <3>1, <3>2 DEF FeedTick
  <2>3. BandOf(h) = BandSide(p, x)
    BY DEF BandOf
  <2> HIDE DEF x, p
  <2>4. /\ BandSide(p, x) = "LONG" <=>
              /\ FarFrom(p, x, Period, 1) > 0
              /\ 2 * FarFrom(p, x, Period, 1) * FarFrom(p, x, Period, 1)
                    > Multiplier * Multiplier * Spread(x, Period)
        /\ BandSide(p, x) = "SHORT" <=>
              /\ FarFrom(p, x, Period, -1) > 0
              /\ 2 * FarFrom(p, x, Period, -1) * FarFrom(p, x, Period, -1)
                    > Multiplier * Multiplier * Spread(x, Period)
    BY <1>2, <2>1, <2>2, BandSideIs
  <2>5. CASE d = 1 /\ name = "LONG"
    BY <2>3, <2>4, <2>5
  <2>6. CASE d = -1 /\ name = "SHORT"
    BY <2>3, <2>4, <2>6
  <2> QED
    BY <2>5, <2>6
<1>6. ASSUME n >= Window + 1 PROVE Ratio <=> breakout
  BY <1>6, VolumeBreakoutIs
<1>7. n > Window <=> n >= Window + 1
  BY <1>1, <1>2
<1>8. IsSetup(h, d) <=> n >= Period /\ n > Window /\ Minute /\ Above /\ Far /\ Ratio
  BY SetupParts
<1> HIDE DEF Minute, Above, Far, Ratio, breakout, n, cs, p
<1>9. IsSetup(h, d) <=>
        /\ n >= Period /\ n >= Window + 1 /\ ~(Len(cs) < 2)
        /\ VWAPSide(p, cs) = name /\ BandOf(h) = name /\ breakout
  BY <1>3, <1>4, <1>5, <1>6, <1>7, <1>8
<1> QED
  BY <1>9 DEF n, cs, p, breakout

-----------------------------------------------------------------------------
(***************************************************************************)
(* A quiet evaluation (4): the invariant.                                  *)
(***************************************************************************)

\* What the invariants say of the ticks.
LEMMA TicksAre ==
  ASSUME DetectorIInv
  PROVE  /\ IsHistory(ticks) /\ ticks \in Seq(FeedTick)
         /\ Len(ticks) \in Nat /\ DOMAIN ticks = 1..Len(ticks)
         /\ \A i \in DOMAIN ticks : ticks[i].minute \in Nat
<1>1. IsHistory(ticks)
  BY DEF DetectorIInv, DetectorTypeOK
<1>2. ticks \in Seq(FeedTick) /\ Len(ticks) \in Nat /\ DOMAIN ticks = 1..Len(ticks)
  BY <1>1, SizeAssumption, LenProperties DEF IsHistory
<1>3. Minutes \subseteq Nat /\ 1 \in Nat
  BY DetectorAssumption DEF Minutes
<1>4. \A i \in DOMAIN ticks : ticks[i].minute \in Nat
  <2>1. \A i \in DOMAIN ticks : ticks[i] \in FeedTick
    BY <1>2, ElementOfSeq
  <2> QED
    BY <1>3, <2>1 DEF FeedTick
<1> QED
  BY <1>1, <1>2, <1>4

\* What an evaluation of ticks that do not change comes to.
LEMMA VerdictIs ==
  ASSUME DetectorIInv, MinutesAscend, Len(ticks) >= 1
  PROVE  LET cs == Candles(ticks)
             p  == Last(cs).close
             verdict == CASE IsSetup(ticks, 1) -> "LONG" [] IsSetup(ticks, -1) -> "SHORT"
                          [] OTHER -> "none"
             goes == /\ Len(ticks) >= Period /\ Len(ticks) >= Window + 1 /\ ~(Len(cs) < 2)
                     /\ VWAPSide(p, cs) = BandOf(ticks)
                     /\ VolumeBreakout(Each(LAMBDA t : t.volume, Latest(ticks, Window + 1)))
         IN  /\ p = ticks[Len(ticks)].price
             /\ verdict = IF goes THEN VWAPSide(p, cs) ELSE "none"
             /\ Total(Each(LAMBDA c : c.volume, cs)) = 0 => VWAPSide(p, cs) = "none"
<1> DEFINE cs == Candles(ticks)
           p  == Last(cs).close
           verdict == CASE IsSetup(ticks, 1) -> "LONG" [] IsSetup(ticks, -1) -> "SHORT"
                        [] OTHER -> "none"
           s == VWAPSide(p, cs)
           breakout == VolumeBreakout(Each(LAMBDA t : t.volume, Latest(ticks, Window + 1)))
           C == /\ Len(ticks) >= Period /\ Len(ticks) >= Window + 1 /\ ~(Len(cs) < 2)
                /\ breakout
           long == IsSetup(ticks, 1)
           short == IsSetup(ticks, -1)
<1>0. /\ ticks \in Seq(FeedTick) /\ Len(ticks) \in Nat /\ DOMAIN ticks = 1..Len(ticks)
      /\ ticks \in [1..Len(ticks) -> FeedTick]
      /\ \A i, j \in DOMAIN ticks : i <= j => ticks[i].minute <= ticks[j].minute
  BY TicksAre, LenProperties DEF MinutesAscend
<1>1. /\ p = ticks[Len(ticks)].price
      /\ Total(Each(LAMBDA c : c.volume, cs)) = 0 => s = "none"
  BY <1>0, VWAPSideIs
<1>2. s \in {"LONG", "SHORT", "none"}
  BY DEF VWAPSide
<1>3. long <=> C /\ s = "LONG" /\ BandOf(ticks) = "LONG"
  <2> DEFINE d == 1
             name == "LONG"
  <2>1. (d = 1 /\ name = "LONG") \/ (d = -1 /\ name = "SHORT")
    OBVIOUS
  <2> HIDE DEF d, name
  <2>2. IsSetup(ticks, d) <=>
          /\ Len(ticks) >= Period /\ Len(ticks) >= Window + 1 /\ ~(Len(cs) < 2)
          /\ VWAPSide(ticks[Len(ticks)].price, cs) = name
          /\ BandOf(ticks) = name
          /\ breakout
    BY <1>0, <2>1, SetupIs
  <2> HIDE DEF breakout, cs
  <2> QED
    BY <1>1, <2>2 DEF d, name
<1>4. short <=> C /\ s = "SHORT" /\ BandOf(ticks) = "SHORT"
  <2> DEFINE d == -1
             name == "SHORT"
  <2>1. (d = 1 /\ name = "LONG") \/ (d = -1 /\ name = "SHORT")
    OBVIOUS
  <2> HIDE DEF d, name
  <2>2. IsSetup(ticks, d) <=>
          /\ Len(ticks) >= Period /\ Len(ticks) >= Window + 1 /\ ~(Len(cs) < 2)
          /\ VWAPSide(ticks[Len(ticks)].price, cs) = name
          /\ BandOf(ticks) = name
          /\ breakout
    BY <1>0, <2>1, SetupIs
  <2> HIDE DEF breakout, cs
  <2> QED
    BY <1>1, <2>2 DEF d, name
<1>5. verdict = CASE long -> "LONG" [] short -> "SHORT" [] OTHER -> "none"
  OBVIOUS
<1> HIDE DEF long, short, C, s, verdict
<1>6. verdict = IF C /\ s = BandOf(ticks) THEN s ELSE "none"
  <2>1. CASE long
    BY <1>3, <1>4, <1>5, <2>1
  <2>2. CASE short
    BY <1>3, <1>4, <1>5, <2>2
  <2>3. CASE ~long /\ ~short
    BY <1>2, <1>3, <1>4, <1>5, <2>3
  <2> QED
    BY <2>1, <2>2, <2>3
<1> QED
  BY <1>1, <1>6 DEF C, s, verdict

\* The first read: an evaluation that ends here is of no setup.
LEMMA QuietCandles ==
  ASSUME QuietIInv, ReadCandles
  PROVE  QuietReads' /\ QuietIntentIsRight'
<1> DEFINE cs == Candles(ticks)
           p  == Last(cs).close
           none == Total(Each(LAMBDA c : c.volume, cs)) = 0
<1>1. UNCHANGED <<ticks, touched>> /\ Len(ticks) >= 2
  BY DEF ReadCandles, scoutVars
<1>2. detector = "idle" /\ side = "none"
  BY DEF ReadCandles, QuietIInv, DetectorIInv, StaleHasNoSide
<1>3. \/ (Len(cs) < 2 \/ none) /\ detector' = "judged" /\ side' = "none"
      \/ /\ ~(Len(cs) < 2) /\ detector' = "prices" /\ close' = p
         /\ side' = VWAPSide(p, cs)
  BY <1>2 DEF ReadCandles
<1>4. Len(ticks) \in Nat /\ Len(ticks) >= 1
  BY <1>1, TicksAre DEF QuietIInv
<1>5. Len(cs) \in Nat
  <2>1. ticks \in [1..Len(ticks) -> FeedTick] /\ Len(ticks) \in Nat \ {0}
    BY <1>4, TicksAre, LenProperties DEF QuietIInv
  <2>2. cs \in Seq(Candle)
    BY <2>1, LastCandle
  <2> HIDE DEF cs
  <2> QED
    BY <2>2, LenProperties
<1>6. CASE detector' = "judged"
  <2>1. (Len(cs) < 2 \/ none) /\ side' = "none"
    BY <1>3, <1>6
  <2> DEFINE verdict == CASE IsSetup(ticks, 1) -> "LONG" [] IsSetup(ticks, -1) -> "SHORT"
                          [] OTHER -> "none"
             goes == /\ Len(ticks) >= Period /\ Len(ticks) >= Window + 1 /\ ~(Len(cs) < 2)
                     /\ VWAPSide(p, cs) = BandOf(ticks)
                     /\ VolumeBreakout(Each(LAMBDA t : t.volume, Latest(ticks, Window + 1)))
  <2>2. MinutesAscend =>
          /\ verdict = IF goes THEN VWAPSide(p, cs) ELSE "none"
          /\ none => VWAPSide(p, cs) = "none"
    BY <1>4, VerdictIs DEF QuietIInv
  <2>3. Len(cs) < 2 => ~goes
    OBVIOUS
  <2>4. MinutesAscend => verdict = "none"
    <3> HIDE DEF goes, verdict, p, cs, none
    <3> QED
      BY <2>1, <2>2, <2>3
  <2>5. QuietIntentIsRight'
    BY <1>1, <2>1, <2>4 DEF QuietIntentIsRight, MinutesAscend
  <2> QED
    BY <1>6, <2>5 DEF QuietReads
<1>7. CASE detector' = "prices"
  <2>1. ~(Len(cs) < 2) /\ close' = p /\ side' = VWAPSide(p, cs)
    BY <1>3, <1>7
  <2>2. Len(cs) >= 2
    <3> HIDE DEF cs
    <3> QED
      BY <1>5, <2>1
  <2> HIDE DEF p
  <2>3. QuietReads'
    BY <1>1, <1>7, <2>1, <2>2 DEF QuietReads, p
  <2> QED
    BY <1>7, <2>3 DEF QuietIntentIsRight
<1> QED
  BY <1>3, <1>6, <1>7

\* The second read.
LEMMA QuietPrices ==
  ASSUME QuietIInv, ReadPrices
  PROVE  QuietReads' /\ QuietIntentIsRight'
<1> DEFINE cs == Candles(ticks)
           p  == Last(cs).close
           band == BandSide(close, Each(LAMBDA t : t.price, Latest(ticks, Period)))
           verdict == CASE IsSetup(ticks, 1) -> "LONG" [] IsSetup(ticks, -1) -> "SHORT"
                        [] OTHER -> "none"
           goes == /\ Len(ticks) >= Period /\ Len(ticks) >= Window + 1 /\ ~(Len(cs) < 2)
                   /\ VWAPSide(p, cs) = BandOf(ticks)
                   /\ VolumeBreakout(Each(LAMBDA t : t.volume, Latest(ticks, Window + 1)))
<1>1. UNCHANGED <<ticks, close, touched>> /\ detector = "prices"
  BY DEF ReadPrices, scoutVars
<1>2. \/ Len(ticks) < Period /\ detector' = "judged" /\ side' = "none"
      \/ /\ ~(Len(ticks) < Period) /\ detector' = "volumes"
         /\ side' = IF side = band THEN side ELSE "none"
  BY DEF ReadPrices
<1>3. CASE touched
  BY <1>1, <1>2, <1>3 DEF QuietReads, QuietIntentIsRight
<1>4. CASE ~touched
  <2>1. /\ Len(ticks) >= 2 /\ Len(cs) >= 2 /\ close = Last(cs).close
        /\ side = VWAPSide(close, cs)
    BY <1>1, <1>4 DEF QuietIInv, QuietReads
  <2>2. Len(ticks) \in Nat /\ Len(ticks) >= 1 /\ Period \in Nat
    BY <2>1, TicksAre, DetectorAssumption DEF QuietIInv
  <2>3. CASE detector' = "judged"
    <3>1. Len(ticks) < Period /\ side' = "none"
      BY <1>2, <2>3
    <3>2. MinutesAscend => verdict = IF goes THEN VWAPSide(p, cs) ELSE "none"
      BY <2>2, VerdictIs DEF QuietIInv
    <3>3. ~(Len(ticks) >= Period)
      BY <2>2, <3>1
    <3>4. ~goes
      BY <3>3
    <3>5. MinutesAscend => verdict = "none"
      <4> HIDE DEF goes, verdict
      <4> QED
        BY <3>2, <3>4
    <3>6. QuietIntentIsRight'
      BY <1>1, <3>1, <3>5 DEF QuietIntentIsRight, MinutesAscend
    <3> QED
      BY <2>3, <3>6 DEF QuietReads
  <2>4. CASE detector' = "volumes"
    <3>1. ~(Len(ticks) < Period) /\ side' = IF side = band THEN side ELSE "none"
      BY <1>2, <2>4
    <3>2. Len(ticks) >= Period
      BY <2>2, <3>1
    <3>3. side' = IF VWAPSide(close, cs) = band THEN band ELSE "none"
      <4> HIDE DEF band, cs
      <4> QED
        BY <2>1, <3>1
    <3>4. /\ detector' \notin {"off", "idle"} /\ detector' # "prices"
          /\ Len(ticks') >= 2 /\ Len(Candles(ticks')) >= 2 /\ close' = Last(Candles(ticks')).close
          /\ Len(ticks') >= Period
      BY <1>1, <2>1, <2>4, <3>2
    <3>5. band = BandSideIn(ticks, close)
      BY DEF BandSideIn
    <3>6. side' = IF VWAPSide(close, cs) = BandSideIn(ticks, close)
                    THEN BandSideIn(ticks, close) ELSE "none"
      <4> HIDE DEF band, cs
      <4> QED
        BY <3>3, <3>5
    <3>7. QuietReads'
      BY <1>1, <3>4, <3>6 DEF QuietReads
    <3> QED
      BY <2>4, <3>7 DEF QuietIntentIsRight
  <2> QED
    BY <1>2, <2>3, <2>4
<1> QED
  BY <1>3, <1>4

\* The third read.
LEMMA QuietVolumes ==
  ASSUME QuietIInv, ReadVolumes
  PROVE  QuietReads' /\ QuietIntentIsRight'
<1> DEFINE cs == Candles(ticks)
           p  == Last(cs).close
           band == BandSide(close, Each(LAMBDA t : t.price, Latest(ticks, Period)))
           verdict == CASE IsSetup(ticks, 1) -> "LONG" [] IsSetup(ticks, -1) -> "SHORT"
                        [] OTHER -> "none"
           breakout == VolumeBreakout(Each(LAMBDA t : t.volume, Latest(ticks, Window + 1)))
           goes == /\ Len(ticks) >= Period /\ Len(ticks) >= Window + 1 /\ ~(Len(cs) < 2)
                   /\ VWAPSide(p, cs) = BandOf(ticks)
                   /\ breakout
           s == VWAPSide(close, cs)
<1>1. /\ UNCHANGED <<ticks, close, touched>> /\ detector = "volumes" /\ detector' = "judged"
      /\ side' = IF Len(ticks) >= Window + 1 /\ breakout THEN side ELSE "none"
  BY DEF ReadVolumes, scoutVars
<1>2. QuietReads'
  BY <1>1 DEF QuietReads
<1>3. CASE touched
  BY <1>1, <1>2, <1>3 DEF QuietIntentIsRight
<1>4. CASE ~touched /\ MinutesAscend
  <2>1. /\ Len(ticks) >= 2 /\ Len(cs) >= 2 /\ close = p
        /\ Len(ticks) >= Period /\ side = IF s = band THEN band ELSE "none"
    <3>1. band = BandSideIn(ticks, close)
      BY DEF BandSideIn
    <3> HIDE DEF band
    <3> QED
      BY <1>1, <1>4, <3>1 DEF QuietIInv, QuietReads
  <2>2. Len(ticks) \in Nat /\ Len(ticks) >= 1 /\ ticks \in Seq(FeedTick) /\ Period \in Nat \ {0}
    BY <2>1, TicksAre, DetectorAssumption DEF QuietIInv
  <2>3. verdict = (IF goes THEN VWAPSide(p, cs) ELSE "none") /\ p = ticks[Len(ticks)].price
    BY <1>4, <2>2, VerdictIs DEF QuietIInv
  <2>4. band = BandOf(ticks)
    <3>1. Each(LAMBDA t : t.price, Latest(ticks, Period)) = PricesOf(ticks, Period)
      BY <2>1, <2>2, RecentPricesAre
    <3> HIDE DEF p
    <3> QED
      BY <2>1, <2>3, <3>1 DEF BandOf
  <2>5. ~(Len(cs) < 2)
    <3>1. ticks \in [1..Len(ticks) -> FeedTick] /\ Len(ticks) \in Nat \ {0}
      BY <2>2, LenProperties
    <3>2. cs \in Seq(Candle)
      BY <3>1, LastCandle
    <3> HIDE DEF cs
    <3>3. Len(cs) \in Nat
      BY <3>2, LenProperties
    <3> QED
      BY <2>1, <3>3
  <2>6. goes <=> Len(ticks) >= Window + 1 /\ s = band /\ breakout
    <3> HIDE DEF band, breakout, cs, p
    <3> QED
      BY <2>1, <2>4, <2>5
  <2>7. verdict = IF goes THEN s ELSE "none"
    BY <2>1, <2>3
  <2>8. side' = verdict
    <3> HIDE DEF goes, verdict, s, band, breakout
    <3> QED
      BY <1>1, <2>1, <2>6, <2>7
  <2> QED
    BY <1>1, <1>2, <2>8 DEF QuietIntentIsRight
<1>5. CASE ~MinutesAscend
  <2>1. ~MinutesAscend'
    BY <1>1, <1>5 DEF MinutesAscend
  <2> QED
    BY <1>2, <2>1 DEF QuietIntentIsRight
<1> QED
  BY <1>3, <1>4, <1>5

\* A step that leaves what the evaluation has read alone leaves both as they are.
LEMMA QuietSame ==
  ASSUME UNCHANGED <<ticks, detector, close, side, touched>>, QuietReads, QuietIntentIsRight
  PROVE  QuietReads' /\ QuietIntentIsRight'
<1>1. QuietIntentIsRight'
  BY DEF QuietIntentIsRight, MinutesAscend
<1>2. QuietReads'
  BY DEF QuietReads
<1> QED
  BY <1>1, <1>2

\* At the start there are no ticks and no evaluation.
LEMMA QuietInit == DetectorInit => QuietIInv
<1> SUFFICES ASSUME DetectorInit PROVE QuietIInv
  OBVIOUS
<1>1. DetectorIInv
  BY DetectorInitIInv
<1>2. DOMAIN ticks = {} /\ detector = "off" /\ ~touched
  BY NoTicks DEF DetectorInit
<1>3. QuietReads /\ QuietIntentIsRight
  BY <1>2 DEF QuietReads, QuietIntentIsRight
<1> QED
  BY <1>1, <1>3 DEF QuietIInv

\* Whoever writes to the store during an evaluation touches it.
LEMMA QuietNext == QuietIInv /\ [DetectorNext]_detectorVars => QuietIInv'
<1> SUFFICES ASSUME QuietIInv, [DetectorNext]_detectorVars PROVE QuietIInv'
  OBVIOUS
<1>0. DetectorIInv'
  BY DetectorNextIInv DEF QuietIInv
<1>1. CASE StartDetector
  <2>1. detector' = "idle" /\ ~touched'
    BY <1>1 DEF StartDetector, evaluationVars, QuietIInv, QuietReads
  <2> QED
    BY <1>0, <2>1 DEF QuietIInv, QuietReads, QuietIntentIsRight
<1>2. CASE StopDetector
  <2>1. detector' = "off" /\ ~touched'
    BY <1>2 DEF StopDetector, evaluationVars, QuietIInv, QuietReads
  <2> QED
    BY <1>0, <2>1 DEF QuietIInv, QuietReads, QuietIntentIsRight
<1>3. CASE LtpMessage
  <2>1. UNCHANGED <<ticks, detector, close, side, touched>>
    BY <1>3 DEF LtpMessage
  <2> QED
    BY <1>0, <2>1, QuietSame DEF QuietIInv
<1>4. CASE PollLtp \/ PatchVolume
  <2>1. detector' = detector /\ touched' = (detector \in {"prices", "volumes", "judged"})
    BY <1>4 DEF PollLtp, PatchVolume, Evaluating
  <2> QED
    BY <1>0, <2>1 DEF QuietIInv, QuietReads, QuietIntentIsRight
<1>5. CASE Conclude
  <2>1. detector' = "idle" /\ ~touched'
    BY <1>5 DEF Conclude, NoEvaluation
  <2> QED
    BY <1>0, <2>1 DEF QuietIInv, QuietReads, QuietIntentIsRight
<1>6. CASE UNCHANGED detectorVars
  <2>1. UNCHANGED <<ticks, detector, close, side, touched>>
    BY <1>6 DEF detectorVars, scoutVars, evaluationVars
  <2> QED
    BY <1>0, <2>1, QuietSame DEF QuietIInv
<1> QED
  BY <1>0, <1>1, <1>2, <1>3, <1>4, <1>5, <1>6, QuietCandles, QuietPrices, QuietVolumes
  DEF DetectorNext, QuietIInv

\* The invariant of a quiet evaluation holds in every behaviour of the detector.
THEOREM QuietInvariance == DetectorSpec => []QuietIInv
BY QuietInit, QuietNext, PTL DEF DetectorSpec

\* Whatever the windows, the multiplier and the threshold: an evaluation between whose reads
\* nothing is written comes to LONG, to SHORT or to nothing exactly as the definition of a
\* setup over the ticks says (breakout.go:111 and indicators/).
THEOREM QuietIntentsAreRight == DetectorSpec => []QuietIntentIsRight
<1>1. QuietIInv => QuietIntentIsRight
  BY DEF QuietIInv
<1> QED
  BY <1>1, QuietInvariance, PTL

-----------------------------------------------------------------------------
(***************************************************************************)
(* The reports.                                                            *)
(***************************************************************************)

\* The clock and the table.
TableOK ==
  /\ instant \in Instants
  /\ book \in Seq(Row) /\ Len(book) <= MaxTrades

\* The clock has a first instant, which is a number above NULL.
LEMMA FirstInstant == 1 \in Instants /\ Instants \subseteq Nat \ {NoStamp}
<1>1. LastReportDay * InstantsPerDay \in Nat /\ LastReportDay * InstantsPerDay >= 1
  BY ReportAssumption
<1>2. StartOf(LastReportDay + 1) = LastReportDay * InstantsPerDay + 1
  BY ReportAssumption DEF StartOf
<1> DEFINE n == LastReportDay * InstantsPerDay
<1>3. Instants = 1..n
  <2>1. n \in Nat /\ StartOf(LastReportDay + 1) = n + 1
    BY <1>1, <1>2
  <2> HIDE DEF n
  <2> QED
    BY <2>1 DEF Instants
<1>4. n \in Nat /\ n >= 1
  BY <1>1
<1> HIDE DEF n
<1> QED
  BY <1>3, <1>4 DEF NoStamp

\* No report is a report of nothing.
LEMMA NoReportIsOne ==
  NoReport.from = 0 /\ NoReport.to = 0 /\ \A S : Range(NoReport.trades) \subseteq S
<1>1. DOMAIN <<>> = {}
  OBVIOUS
<1> QED
  BY <1>1 DEF NoReport, Range

\* A table of rows from before the columns were there, and no report of it.
LEMMA ReportInitIInv == ReportInit => ReportIInv
<1> SUFFICES ASSUME ReportInit PROVE ReportIInv
  OBVIOUS
<1>1. Legacy \in Row
  BY FirstInstant DEF Legacy, Row
<1>2. PICK n \in 0..MaxTrades : book = [i \in 1..n |-> Legacy]
  BY DEF ReportInit
<1>3. n \in Nat /\ n <= MaxTrades /\ book \in [1..n -> Row]
  BY <1>1, <1>2, ReportAssumption
<1>4. book \in Seq(Row) /\ DOMAIN book = 1..n
  BY <1>3, IsASeq
<1>5. Len(book) = n
  BY <1>3, <1>4, LenProperties
<1>6. TableOK /\ report = NoReport
  BY <1>3, <1>4, <1>5, FirstInstant DEF TableOK, ReportInit
<1> QED
  BY <1>6, NoReportIsOne DEF TableOK, ReportIInv, ReportTypeOK, ReportIsOfBook

\* Every step leaves a clock and a table of rows.
LEMMA TableKeeps ==
  ASSUME TableOK, [ReportNext]_reportVars
  PROVE  TableOK'
<1>1. /\ instant \in Instants /\ book \in Seq(Row) /\ Len(book) <= MaxTrades
      /\ Len(book) \in Nat /\ MaxTrades \in Nat /\ DOMAIN book = 1..Len(book)
  BY ReportAssumption, LenProperties DEF TableOK
<1>2. CASE OpenTrade
  <2> DEFINE r == [status |-> "OPEN", created |-> instant, closed |-> NoStamp, pnl |-> 0]
  <2>1. r \in Row /\ book' = Append(book, r) /\ Len(book) < MaxTrades /\ instant' = instant
    BY <1>1, <1>2 DEF OpenTrade, Row
  <2> HIDE DEF r
  <2>2. Append(book, r) \in Seq(Row) /\ Len(Append(book, r)) = Len(book) + 1
    BY <1>1, <2>1, AppendProperties
  <2>3. Len(book') <= MaxTrades
    BY <1>1, <2>1, <2>2
  <2> QED
    BY <1>1, <2>1, <2>2, <2>3 DEF TableOK
<1>3. CASE CloseTrade
  <2>1. PICK i \in DOMAIN book, p \in PnLs :
           book' = [book EXCEPT ![i].status = "CLOSED", ![i].closed = instant, ![i].pnl = p]
    BY <1>3 DEF CloseTrade
  <2> DEFINE r == [book[i] EXCEPT !.status = "CLOSED", !.closed = instant, !.pnl = p]
  <2>2. book[i] \in Row
    BY <1>1
  <2>3. r \in Row
    BY <1>1, <2>2 DEF Row
  <2>4. book' = [book EXCEPT ![i] = r]
    BY <2>1, <2>2 DEF Row
  <2> HIDE DEF r
  <2>5. book' \in Seq(Row) /\ Len(book') = Len(book)
    BY <1>1, <2>3, <2>4, ExceptSeq
  <2>6. instant' = instant
    BY <1>3 DEF CloseTrade
  <2> QED
    BY <1>1, <2>5, <2>6 DEF TableOK
<1>4. CASE ClockTicks
  BY <1>1, <1>4 DEF ClockTicks, TableOK, Instants
<1>5. CASE PrintReport \/ UNCHANGED reportVars
  BY <1>1, <1>5 DEF PrintReport, reportVars, TableOK
<1> QED
  BY <1>2, <1>3, <1>4, <1>5 DEF ReportNext

\* Every step of the clock, the table and the tool keeps the invariant.
LEMMA ReportNextIInv == ReportIInv /\ [ReportNext]_reportVars => ReportIInv'
<1> SUFFICES ASSUME ReportIInv, [ReportNext]_reportVars PROVE ReportIInv'
  OBVIOUS
<1>1. TableOK
  BY DEF TableOK, ReportIInv, ReportTypeOK
<1>2. TableOK'
  BY <1>1, TableKeeps
<1>3. CASE ClockTicks \/ OpenTrade \/ CloseTrade
  <2>1. report' = NoReport
    BY <1>3 DEF ClockTicks, OpenTrade, CloseTrade
  <2> QED
    BY <1>2, <2>1, NoReportIsOne DEF TableOK, ReportIInv, ReportTypeOK, ReportIsOfBook
<1>4. CASE PrintReport
  <2>0. PICK from \in ReportDays, to \in ReportDays :
           \E s \in ByCloseTime(ClosedPositions(from, to)) :
              report' = [from |-> from, to |-> to, trades |-> s]
    BY <1>4 DEF PrintReport
  <2>1. PICK s \in ByCloseTime(ClosedPositions(from, to)) :
           report' = [from |-> from, to |-> to, trades |-> s]
    BY <2>0
  <2>2. UNCHANGED <<instant, book>>
    BY <1>4 DEF PrintReport
  <2>3. Range(s) \subseteq DOMAIN book
    BY DEF ByCloseTime, SetToSeqs, ClosedPositions, Range
  <2>4. ReportIsOfBook'
    <3>1. s \in ByCloseTime(ClosedPositions(from, to))'
      BY <2>2 DEF ByCloseTime, ClosedPositions, ClosedAt
    <3>2. report'.from = from /\ report'.to = to /\ report'.trades = s
      BY <2>1
    <3> QED
      BY <3>1, <3>2 DEF ReportIsOfBook, ReportDays
  <2>5. ReportTypeOK'
    BY <1>2, <2>1, <2>2, <2>3 DEF TableOK, ReportTypeOK, ReportDays
  <2> QED
    BY <2>4, <2>5 DEF ReportIInv
<1>5. CASE UNCHANGED reportVars
  BY <1>5 DEF reportVars, ReportIInv, ReportTypeOK, ReportIsOfBook, ByCloseTime, ClosedPositions, ClosedAt
<1> QED
  BY <1>3, <1>4, <1>5 DEF ReportNext

\* What is in a report of the past is what is closed in it, whatever happens now.
LEMMA PastStays ==
  ASSUME TableOK, [ReportNext]_reportVars, NEW from \in ReportDays, NEW to \in ReportDays,
         StartOf(to + 1) <= instant
  PROVE  ClosedPositions(from, to)' = ClosedPositions(from, to)
<1> DEFINE In(t) == InPeriod(t, from, to)
           At(r) == IF r.closed = NoStamp THEN r.created ELSE r.closed
           Of(b) == {i \in DOMAIN b : b[i].status = "CLOSED" /\ In(At(b[i]))}
<1>1. ClosedPositions(from, to) = Of(book) /\ ClosedPositions(from, to)' = Of(book')
  BY DEF ClosedPositions, ClosedAt, InPeriod, StartOf, NoStamp
<1>2. /\ instant \in Instants /\ book \in Seq(Row) /\ Len(book) \in Nat
      /\ DOMAIN book = 1..Len(book)
  BY LenProperties DEF TableOK
<1>3. ~In(instant) /\ instant # NoStamp
  <2>1. instant \in Nat /\ instant # NoStamp
    BY <1>2, FirstInstant
  <2>2. StartOf(to + 1) \in Int
    BY ReportAssumption DEF StartOf, ReportDays
  <2>3. ~(instant < StartOf(to + 1))
    BY <2>1, <2>2
  <2> QED
    BY <2>1, <2>3 DEF InPeriod
<1> HIDE DEF In
<1>4. CASE OpenTrade
  <2> DEFINE r == [status |-> "OPEN", created |-> instant, closed |-> NoStamp, pnl |-> 0]
  <2>1. r \in Row /\ r.status = "OPEN" /\ book' = Append(book, r)
    BY <1>2, <1>4 DEF OpenTrade, Row
  <2> HIDE DEF r
  <2>2. /\ DOMAIN book' = 1..(Len(book) + 1) /\ book'[Len(book) + 1] = r
        /\ \A i \in 1..Len(book) : book'[i] = book[i]
    <3>1. /\ Append(book, r) \in Seq(Row) /\ Len(Append(book, r)) = Len(book) + 1
          /\ Append(book, r)[Len(book) + 1] = r
          /\ \A i \in 1..Len(book) : Append(book, r)[i] = book[i]
      BY <1>2, <2>1, AppendProperties
    <3> QED
      BY <2>1, <3>1, LenProperties
  <2>3. \A i \in 1..(Len(book) + 1) : i \in 1..Len(book) \/ i = Len(book) + 1
    BY <1>2
  <2>4. \A i \in 1..Len(book) : i \in 1..(Len(book) + 1)
    BY <1>2
  <2>5. Of(book') = Of(book)
    BY <1>2, <2>1, <2>2, <2>3, <2>4
  <2> QED
    BY <1>1, <2>5
<1>5. CASE CloseTrade
  <2>1. PICK i \in DOMAIN book, p \in PnLs :
           /\ book[i].status = "OPEN"
           /\ book' = [book EXCEPT ![i].status = "CLOSED", ![i].closed = instant, ![i].pnl = p]
    BY <1>5 DEF CloseTrade
  <2>2. book[i] \in Row
    BY <1>2
  <2>3. /\ DOMAIN book' = DOMAIN book /\ book'[i].closed = instant
        /\ \A j \in DOMAIN book \ {i} : book'[j] = book[j]
    BY <2>1, <2>2 DEF Row
  <2>4. At(book'[i]) = instant
    BY <1>3, <2>3
  <2>5. i \notin Of(book) /\ i \notin Of(book')
    BY <1>3, <2>1, <2>4
  <2>6. Of(book') = Of(book)
    BY <2>3, <2>5
  <2> QED
    BY <1>1, <2>6
<1>6. CASE ClockTicks \/ PrintReport \/ UNCHANGED reportVars
  <2>1. book' = book
    BY <1>6 DEF ClockTicks, PrintReport, reportVars
  <2> QED
    BY <1>1, <2>1
<1> QED
  BY <1>4, <1>5, <1>6 DEF ReportNext

\* A day and the instants of its period.
LEMMA DayOfInstant ==
  ASSUME NEW t \in Nat \ {0}
  PROVE  /\ DayOf(t) \in Int
         /\ \A d \in Int : StartOf(d) <= t <=> d <= DayOf(t)
<1> DEFINE N == InstantsPerDay
           q == (t - 1) \div N
<1>1. N \in Nat \ {0} /\ t - 1 \in Nat
  BY ReportAssumption
<1> HIDE DEF N
<1>2. q \in Int /\ q * N <= t - 1 /\ t - 1 < (q + 1) * N
  BY <1>1
<1> HIDE DEF q
<1>3. \A d \in Int : StartOf(d) = (d - 1) * N + 1
  BY DEF StartOf, N
<1>4. ASSUME NEW a \in Int, NEW b \in Int, a <= b PROVE a * N <= b * N
  BY <1>1, <1>4
<1>5. ASSUME NEW d \in Int, d - 1 <= q PROVE StartOf(d) <= t
  <2>1. (d - 1) * N <= q * N
    BY <1>2, <1>4, <1>5
  <2>2. (d - 1) * N \in Int /\ q * N \in Int
    BY <1>1, <1>2
  <2> DEFINE x == (d - 1) * N
             y == q * N
  <2>3. x <= y /\ y <= t - 1 /\ x \in Int /\ y \in Int /\ StartOf(d) = x + 1
    BY <1>2, <1>3, <2>1, <2>2
  <2> HIDE DEF x, y
  <2> QED
    BY <2>3
<1>6. ASSUME NEW d \in Int, ~(d - 1 <= q) PROVE ~(StartOf(d) <= t)
  <2>1. q + 1 \in Int /\ q + 1 <= d - 1
    BY <1>2, <1>6
  <2>2. (q + 1) * N <= (d - 1) * N
    BY <1>4, <2>1
  <2>3. (d - 1) * N \in Int /\ (q + 1) * N \in Int
    BY <1>1, <1>2
  <2> DEFINE x == (d - 1) * N
             y == (q + 1) * N
  <2>4. y <= x /\ t - 1 < y /\ x \in Int /\ y \in Int /\ StartOf(d) = x + 1
    BY <1>2, <1>3, <2>2, <2>3
  <2> HIDE DEF x, y
  <2> QED
    BY <2>4
<1>7. DayOf(t) = q + 1
  BY DEF DayOf, q, N
<1> QED
  BY <1>2, <1>5, <1>6, <1>7

\* What is in the period has its day among the days of it, and no other day.
LEMMA PeriodOfDay ==
  ASSUME NEW t \in Nat \ {0}, NEW from \in Int, NEW to \in Int
  PROVE  InPeriod(t, from, to) <=> DayOf(t) \in from..to
<1>1. /\ DayOf(t) \in Int
      /\ StartOf(from) <= t <=> from <= DayOf(t)
      /\ StartOf(to + 1) <= t <=> to + 1 <= DayOf(t)
  BY DayOfInstant
<1>2. StartOf(to + 1) \in Int
  BY ReportAssumption DEF StartOf
<1> QED
  BY <1>1, <1>2 DEF InPeriod

\* What a loop that keeps the highest of a curve has at its end: the deepest fall of it.
LEMMA Drawdown ==
  ASSUME NEW n \in Nat, NEW P \in [0..n -> Int], NEW peak \in [0..n -> Int],
         NEW deepest \in [0..n -> Int],
         peak[0] = P[0], deepest[0] = 0,
         \A k \in 1..n : /\ peak[k] = Larger(peak[k - 1], P[k])
                         /\ deepest[k] = Larger(deepest[k - 1], peak[k] - P[k])
  PROVE  /\ \E a, b \in 0..n : a <= b /\ deepest[n] = P[a] - P[b]
         /\ \A a, b \in 0..n : a <= b => P[a] - P[b] <= deepest[n]
<1> DEFINE highest(k) == /\ \E a \in 0..k : peak[k] = P[a]
                         /\ \A a \in 0..k : P[a] <= peak[k]
           worst(k) == /\ \E a, b \in 0..k : a <= b /\ deepest[k] = P[a] - P[b]
                       /\ \A a, b \in 0..k : a <= b => P[a] - P[b] <= deepest[k]
           K == {k \in 0..n : highest(k) /\ worst(k)}
<1>1. 0 \in K
  <2>1. 0 \in 0..n /\ 0 \in 0..0 /\ P[0] \in Int
    OBVIOUS
  <2>2. \A a \in 0..0 : a = 0
    OBVIOUS
  <2>3. highest(0)
    BY <2>1, <2>2
  <2>4. P[0] - P[0] = 0
    BY <2>1
  <2>5. worst(0)
    BY <2>1, <2>2, <2>4
  <2> HIDE DEF highest, worst
  <2> QED
    BY <2>1, <2>3, <2>5
<1>2. ASSUME NEW k \in 1..n, k - 1 \in K PROVE k \in K
  <2>1. /\ k - 1 \in 0..n /\ k \in 0..n /\ k \in 0..k
        /\ \A a \in 0..(k - 1) : a \in 0..k /\ a \in 0..n
        /\ \A a \in 0..k : a \in 0..(k - 1) \/ a = k
    OBVIOUS
  <2>2. /\ peak[k] \in Int /\ peak[k - 1] \in Int /\ deepest[k] \in Int /\ deepest[k - 1] \in Int
        /\ \A a \in 0..k : P[a] \in Int
    BY <2>1
  <2>3. peak[k] = Larger(peak[k - 1], P[k]) /\ deepest[k] = Larger(deepest[k - 1], peak[k] - P[k])
    OBVIOUS
  <2>4. highest(k - 1) /\ worst(k - 1)
    BY <1>2
  <2>5. highest(k)
    <3>1. PICK a \in 0..(k - 1) : peak[k - 1] = P[a]
      BY <2>4
    <3>2. \E b \in 0..k : peak[k] = P[b]
      <4>1. peak[k] = P[a] \/ peak[k] = P[k]
        BY <2>3, <3>1 DEF Larger
      <4> QED
        BY <2>1, <4>1
    <3>3. ASSUME NEW b \in 0..k PROVE P[b] <= peak[k]
      <4>1. peak[k - 1] <= peak[k] /\ P[k] <= peak[k]
        BY SMTT(30), <2>1, <2>2, <2>3 DEF Larger
      <4>2. CASE b = k
        BY <4>1, <4>2
      <4>3. CASE b \in 0..(k - 1)
        <5>1. P[b] <= peak[k - 1]
          BY <2>4, <4>3
        <5>2. P[b] \in Int /\ peak[k - 1] \in Int /\ peak[k] \in Int
          BY <2>2
        <5> QED
          BY <4>1, <5>1, <5>2, Ordered
      <4> QED
        BY <2>1, <4>2, <4>3
    <3> QED
      BY <3>2, <3>3
  <2>6. worst(k)
    <3>1. \E a, b \in 0..k : a <= b /\ deepest[k] = P[a] - P[b]
      <4>1. CASE deepest[k] = deepest[k - 1]
        <5>1. PICK a \in 0..(k - 1), b \in 0..(k - 1) : a <= b /\ deepest[k - 1] = P[a] - P[b]
          BY <2>4
        <5> QED
          BY <2>1, <4>1, <5>1
      <4>2. CASE deepest[k] = peak[k] - P[k]
        <5>1. PICK a \in 0..k : peak[k] = P[a]
          BY <2>5
        <5>2. a <= k
          OBVIOUS
        <5> QED
          BY <2>1, <4>2, <5>1, <5>2
      <4> QED
        BY <2>3, <4>1, <4>2 DEF Larger
    <3>2. ASSUME NEW a \in 0..k, NEW b \in 0..k, a <= b PROVE P[a] - P[b] <= deepest[k]
      <4>1. deepest[k - 1] <= deepest[k] /\ peak[k] - P[k] <= deepest[k]
        <5>1. peak[k] - P[k] \in Int
          BY <2>1, <2>2
        <5> QED
          BY SMTT(30), <2>2, <2>3, <5>1 DEF Larger
      <4>2. CASE b = k
        <5>1. P[a] <= peak[k]
          BY <2>5
        <5>2. /\ P[a] \in Int /\ P[k] \in Int /\ peak[k] \in Int /\ deepest[k] \in Int
              /\ peak[k] - P[k] <= deepest[k]
          BY <2>1, <2>2, <4>1
        <5>3. P[a] - P[k] <= deepest[k]
          BY <5>1, <5>2, Ordered
        <5> QED
          BY <4>2, <5>3
      <4>3. CASE b \in 0..(k - 1)
        <5>1. a \in 0..(k - 1)
          BY <3>2, <4>3
        <5>2. P[a] - P[b] <= deepest[k - 1]
          BY <2>4, <3>2, <4>3, <5>1
        <5>3. P[a] \in Int /\ P[b] \in Int /\ deepest[k] \in Int /\ deepest[k - 1] \in Int
          BY <2>2
        <5>4. deepest[k - 1] <= deepest[k]
          BY <4>1
        <5> QED
          <6> DEFINE x == P[a]
                     y == P[b]
                     z == deepest[k - 1]
                     w == deepest[k]
          <6>1. x \in Int /\ y \in Int /\ z \in Int /\ w \in Int
            BY <5>3
          <6>2. x - y <= z
            BY <5>2
          <6>3. z <= w
            BY <5>4
          <6> HIDE DEF x, y, z, w
          <6>4. x - y <= w
            BY <6>1, <6>2, <6>3, Ordered
          <6> QED
            BY <6>4 DEF x, y, w
      <4> QED
        BY <2>1, <4>2, <4>3
    <3> QED
      BY <3>1, <3>2
  <2> HIDE DEF highest, worst
  <2> QED
    BY <2>1, <2>5, <2>6
<1>3. n \in K
  <2> HIDE DEF K
  <2>1. \A k \in 0..n : k \in K
    BY <1>1, <1>2, UpTo
  <2> QED
    BY <2>1
<1> QED
  BY <1>3

-----------------------------------------------------------------------------
\* The sums of a summary.
Summary == [closedTrades : Int, totalPnL : Int, wins : Int, losses : Int, peak : Int,
            maxDrawdown : Int, byDay : [ReportDays -> Int]]

\* A row that counts has a PnL and a day of the report.
Counts(i) == i \in DOMAIN book /\ book[i].pnl \in Int /\ DayOf(ClosedAt(i)) \in ReportDays

\* A row that counts is added to a summary.
LEMMA TallyType ==
  ASSUME NEW s \in Summary, NEW i, Counts(i)
  PROVE  Tally(s, i) \in Summary
<1> DEFINE pnl    == book[i].pnl
           equity == s.totalPnL + pnl
           peak   == Larger(s.peak, equity)
           day    == DayOf(ClosedAt(i))
           byDay  == [s.byDay EXCEPT ![day] = @ + pnl]
<1>1. pnl \in Int /\ day \in ReportDays /\ s.byDay \in [ReportDays -> Int]
      /\ s.closedTrades \in Int /\ s.totalPnL \in Int /\ s.wins \in Int /\ s.losses \in Int
      /\ s.peak \in Int /\ s.maxDrawdown \in Int
  BY DEF Counts, Summary
<1> HIDE DEF pnl, day
<1>2. \A x, y \in Int : Larger(x, y) \in Int
  BY DEF Larger
<1>3. equity \in Int
  BY <1>1
<1>4. peak \in Int
  BY <1>1, <1>2, <1>3
<1>5. byDay \in [ReportDays -> Int]
  BY <1>1
<1> HIDE DEF equity, peak, byDay
<1>6. Larger(s.maxDrawdown, peak - equity) \in Int
  <2>1. peak - equity \in Int
    BY <1>3, <1>4
  <2> QED
    BY <1>1, <1>2, <2>1
<1>7. Tally(s, i) =
        [closedTrades |-> s.closedTrades + 1, totalPnL |-> equity,
         wins   |-> s.wins + (IF pnl > 0 THEN 1 ELSE 0),
         losses |-> s.losses + (IF pnl < 0 THEN 1 ELSE 0),
         peak   |-> peak, maxDrawdown |-> Larger(s.maxDrawdown, peak - equity),
         byDay  |-> byDay]
  BY DEF Tally, pnl, equity, peak, day, byDay
<1>8. /\ s.closedTrades + 1 \in Int
      /\ s.wins + (IF pnl > 0 THEN 1 ELSE 0) \in Int
      /\ s.losses + (IF pnl < 0 THEN 1 ELSE 0) \in Int
  BY <1>1
<1> QED
  BY <1>3, <1>4, <1>5, <1>6, <1>7, <1>8 DEF Summary

\* The function behind the loop of ComputeSummary, over the places of s.
SummaryOf(s) ==
  LET iter[t \in SUBSET DOMAIN s] ==
        IF t = {} THEN EmptySummary ELSE Tally(iter[t \ {Max(t)}], s[Max(t)])
  IN  iter

\* ComputeSummary hands the rows to Tally one after the other.
LEMMA SummaryIsFold ==
  ASSUME NEW n \in Nat, NEW s, DOMAIN s = 1..n, \A k \in 1..n : Counts(s[k])
  PROVE  /\ ComputeSummary(s) = SummaryOf(s)[1..n]
         /\ SummaryOf(s)[1..0] = EmptySummary
         /\ \A k \in 1..n : SummaryOf(s)[1..k] = Tally(SummaryOf(s)[1..(k - 1)], s[k])
         /\ \A k \in 0..n : SummaryOf(s)[1..k] \in Summary
<1> DEFINE T == Summary
           base == EmptySummary
           step == [x \in (1..n) \X T |-> Tally(x[2], s[x[1]])]
<1>1. base \in T
  BY DEF EmptySummary, Summary
<1>2. step \in [(1..n) \X T -> T]
  <2>1. \A x \in (1..n) \X T : Tally(x[2], s[x[1]]) \in T
    BY TallyType
  <2> QED
    BY <2>1
<1>3. PICK F \in [SUBSET (1..n) -> T] : FoldsTo(F, n, base, step)
  <2> HIDE DEF step, T, base
  <2> QED
    BY <1>1, <1>2, FoldExists
<1>4. F = [t \in SUBSET DOMAIN s |->
             IF t = {} THEN EmptySummary ELSE Tally(F[t \ {Max(t)}], s[Max(t)])]
  <2>1. ASSUME NEW t \in SUBSET (1..n), t # {}
        PROVE  F[t] = Tally(F[t \ {Max(t)}], s[Max(t)])
    <3>1. Max(t) \in 1..n /\ F[t \ {Max(t)}] \in T
      BY <2>1, MaxOfPlaces
    <3>2. F[t] = step[<<Max(t), F[t \ {Max(t)}]>>]
      <4> HIDE DEF step, base, T
      <4> QED
        BY <1>3, <2>1 DEF FoldsTo
    <3> QED
      BY <3>1, <3>2
  <2>2. F[{}] = EmptySummary
    BY <1>3 DEF FoldsTo
  <2> HIDE DEF step, T
  <2> QED
    BY <2>1, <2>2
<1>5. SummaryOf(s) = [t \in SUBSET DOMAIN s |->
                        IF t = {} THEN EmptySummary
                        ELSE Tally(SummaryOf(s)[t \ {Max(t)}], s[Max(t)])]
  BY <1>4, Zenon DEF SummaryOf
<1>6. ComputeSummary(s) = SummaryOf(s)[1..n]
  BY DEF ComputeSummary, FoldLeft, MapThenFoldSet, SummaryOf
<1>7. ASSUME NEW k \in 1..n
      PROVE  SummaryOf(s)[1..k] = Tally(SummaryOf(s)[1..(k - 1)], s[k])
  <2>1. k \in 1..k /\ 1..k \subseteq 1..n
    OBVIOUS
  <2> QED
    BY <1>5, <2>1, MaxOfSegment
<1>8. SummaryOf(s)[1..0] = EmptySummary
  BY <1>5
<1> DEFINE K == {k \in 0..n : SummaryOf(s)[1..k] \in Summary}
<1>9. 0 \in K
  BY <1>1, <1>8
<1>10. ASSUME NEW k \in 1..n, k - 1 \in K PROVE k \in K
  <2>1. SummaryOf(s)[1..(k - 1)] \in Summary /\ Counts(s[k])
    BY <1>10
  <2>2. Tally(SummaryOf(s)[1..(k - 1)], s[k]) \in Summary
    BY <2>1, TallyType
  <2> QED
    BY <1>7, <2>2
<1>11. \A k \in 0..n : k \in K
  <2> HIDE DEF K
  <2> QED
    BY <1>9, <1>10, UpTo
<1> QED
  BY <1>6, <1>7, <1>8, <1>11

\* A PnL that is booked on its day is in the sum of the days.
LEMMA DaysKeepTotal ==
  ASSUME NEW s \in Summary, NEW D \in SUBSET ReportDays, NEW i, Counts(i),
         DayOf(ClosedAt(i)) \in D, SumFunctionOnSet(s.byDay, D) = s.totalPnL
  PROVE  SumFunctionOnSet(Tally(s, i).byDay, D) = Tally(s, i).totalPnL
<1> DEFINE pnl == book[i].pnl
           day == DayOf(ClosedAt(i))
           f   == s.byDay
           g   == [f EXCEPT ![day] = @ + pnl]
           E   == D \ {day}
<1>1. /\ Tally(s, i).byDay = g /\ Tally(s, i).totalPnL = s.totalPnL + pnl
  BY DEF Tally
<1>2. /\ pnl \in Int /\ day \in D /\ f \in [ReportDays -> Int] /\ s.totalPnL \in Int
  BY DEF Counts, Summary
<1>3. IsFiniteSet(D)
  <2>1. IsFiniteSet(ReportDays)
    BY ReportAssumption, FS_Interval DEF ReportDays
  <2> QED
    BY <2>1, FS_Subset
<1> HIDE DEF pnl, day, f
<1>4. g \in [ReportDays -> Int] /\ g[day] = f[day] + pnl /\ \A x \in E : g[x] = f[x]
  BY <1>2
<1>5. \A x \in D : f[x] \in Int /\ g[x] \in Int
  BY <1>2, <1>4
<1>6. IsFiniteSet(E) /\ \A x \in E : g[x] = f[x] /\ g[x] \in Int
  <2>1. IsFiniteSet(E)
    BY <1>3, FS_RemoveElement
  <2> HIDE DEF g
  <2> QED
    BY <1>4, <1>5, <2>1
<1> HIDE DEF g
<1>7. /\ SumFunctionOnSet(f, D) = f[day] + SumFunctionOnSet(f, E)
      /\ SumFunctionOnSet(g, D) = g[day] + SumFunctionOnSet(g, E)
  BY <1>2, <1>3, <1>5, SumRemove
<1> HIDE DEF E
<1>8. SumFunctionOnSet(g, E) = SumFunctionOnSet(f, E) /\ SumFunctionOnSet(g, E) \in Int
  BY <1>6, SumSame, SumType
<1>9. f[day] \in Int
  BY <1>2, <1>5
<1>10. SumFunctionOnSet(g, D) = SumFunctionOnSet(f, D) + pnl
  <2> DEFINE e == SumFunctionOnSet(g, E)
  <2>1. e \in Int /\ SumFunctionOnSet(f, D) = f[day] + e /\ SumFunctionOnSet(g, D) = (f[day] + pnl) + e
    BY <1>4, <1>7, <1>8
  <2> HIDE DEF e
  <2>2. (f[day] + pnl) + e = (f[day] + e) + pnl
    BY <1>2, <1>9, <2>1
  <2> QED
    BY <2>1, <2>2
<1>11. SumFunctionOnSet(f, D) = s.totalPnL
  BY DEF f
<1> QED
  BY <1>1, <1>10, <1>11

\* A row of the table has a PnL, a stamp to be sorted by, and a day.
LEMMA RowHasDay ==
  ASSUME TableOK, NEW i \in DOMAIN book
  PROVE  /\ book[i].pnl \in Int /\ ClosedAt(i) \in Nat \ {0}
         /\ DayOf(ClosedAt(i)) \in ReportDays
<1>1. book[i] \in Row
  <2>1. book \in Seq(Row) /\ i \in 1..Len(book)
    BY LenProperties DEF TableOK
  <2> QED
    BY <2>1
<1>2. PnLs \cup {0} \subseteq Int
  BY ReportAssumption DEF PnLs
<1>3. ClosedAt(i) \in Instants
  BY <1>1 DEF Row, ClosedAt
<1>4. ClosedAt(i) \in Nat \ {0}
  BY <1>3, FirstInstant DEF NoStamp
<1>5. InPeriod(ClosedAt(i), 1, LastReportDay)
  <2>1. StartOf(1) = 1 /\ StartOf(LastReportDay + 1) \in Int
    <3>1. (1 - 1) * InstantsPerDay = 0
      BY ReportAssumption
    <3>2. StartOf(LastReportDay + 1) \in Int
      BY ReportAssumption DEF StartOf
    <3> QED
      BY <3>1, <3>2 DEF StartOf
  <2>2. ClosedAt(i) \in 1..(StartOf(LastReportDay + 1) - 1)
    BY <1>3 DEF Instants
  <2> QED
    BY <1>4, <2>1, <2>2 DEF InPeriod
<1>6. DayOf(ClosedAt(i)) \in ReportDays
  BY <1>4, <1>5, PeriodOfDay, ReportAssumption DEF ReportDays
<1> QED
  BY <1>1, <1>2, <1>4, <1>6 DEF Row

\* The rows of a report are rows that count, on days of its period.
LEMMA TradesCount ==
  ASSUME ReportIInv
  PROVE  \E n \in Nat :
            /\ DOMAIN report.trades = 1..n
            /\ \A k \in 1..n : /\ Counts(report.trades[k])
                               /\ DayOf(ClosedAt(report.trades[k])) \in report.from..report.to
<1>1. TableOK
  BY DEF TableOK, ReportIInv, ReportTypeOK
<1>2. CASE report = NoReport
  <2>1. DOMAIN report.trades = 1..0
    <3>1. DOMAIN <<>> = {} /\ 1..0 = {}
      OBVIOUS
    <3> QED
      BY <1>2, <3>1 DEF NoReport
  <2> QED
    BY <2>1
<1>3. CASE report # NoReport
  <2> DEFINE from == report.from
             to   == report.to
             S    == ClosedPositions(from, to)
             n    == Cardinality(S)
  <2>1. from \in ReportDays /\ to \in ReportDays /\ report.trades \in SetToSeqs(S)
    BY <1>3 DEF ReportIInv, ReportIsOfBook, ByCloseTime
  <2>2. IsFiniteSet(DOMAIN book)
    <3>1. DOMAIN book = 1..Len(book) /\ Len(book) \in Nat
      BY <1>1, LenProperties DEF TableOK
    <3> QED
      BY <3>1, FS_Interval
  <2>3. S \in SUBSET (DOMAIN book)
    BY DEF ClosedPositions
  <2>4. n \in Nat
    <3> HIDE DEF S
    <3> QED
      BY <2>2, <2>3, FS_Subset, FS_CardinalityType
  <2>5. DOMAIN report.trades = 1..n /\ \A k \in 1..n : report.trades[k] \in S
    BY <2>1 DEF SetToSeqs
  <2>6. ASSUME NEW k \in 1..n
        PROVE  Counts(report.trades[k]) /\ DayOf(ClosedAt(report.trades[k])) \in from..to
    <3> DEFINE i == report.trades[k]
    <3>1. i \in DOMAIN book /\ InPeriod(ClosedAt(i), from, to)
      BY <2>5 DEF ClosedPositions
    <3> HIDE DEF i
    <3>2. /\ book[i].pnl \in Int /\ ClosedAt(i) \in Nat \ {0}
          /\ DayOf(ClosedAt(i)) \in ReportDays
      BY <1>1, <3>1, RowHasDay
    <3>3. from \in Int /\ to \in Int
      BY <2>1, ReportAssumption DEF ReportDays
    <3>4. DayOf(ClosedAt(i)) \in from..to
      <4> HIDE DEF from, to
      <4> QED
        BY <3>1, <3>2, <3>3, PeriodOfDay
    <3> QED
      BY <3>1, <3>2, <3>4 DEF Counts, i
  <2> HIDE DEF n, S
  <2> QED
    BY <2>4, <2>5, <2>6
<1> QED
  BY <1>2, <1>3

\* The summary of what was printed is right.
LEMMA SummaryOfTrades == ReportIInv => SummaryIsRight
<1> SUFFICES ASSUME ReportIInv PROVE SummaryIsRight
  OBVIOUS
<1>0. TableOK
  BY DEF TableOK, ReportIInv, ReportTypeOK
<1> DEFINE tr == report.trades
           D  == ReportDays \cap report.from..report.to
<1>1. PICK n \in Nat :
         /\ DOMAIN tr = 1..n
         /\ \A k \in 1..n : Counts(tr[k]) /\ DayOf(ClosedAt(tr[k])) \in D
  <2>1. PICK n \in Nat :
           /\ DOMAIN report.trades = 1..n
           /\ \A k \in 1..n : /\ Counts(report.trades[k])
                              /\ DayOf(ClosedAt(report.trades[k])) \in report.from..report.to
    BY TradesCount
  <2> QED
    BY <2>1 DEF Counts
<1> DEFINE g   == [k \in DOMAIN tr |-> book[tr[k]].pnl]
           tally == [k \in 0..n |-> SummaryOf(tr)[1..k]]
           stretches == {i..j : i, j \in DOMAIN tr}
           M   == {-SumFunctionOnSet(g, S) : S \in stretches} \cup {0}
<1> HIDE DEF tr, D
<1>2. /\ ComputeSummary(tr) = tally[n] /\ tally[0] = EmptySummary
      /\ \A k \in 1..n : tally[k] = Tally(tally[k - 1], tr[k])
      /\ \A k \in 0..n : tally[k] \in Summary
  <2>1. /\ ComputeSummary(tr) = SummaryOf(tr)[1..n]
        /\ SummaryOf(tr)[1..0] = EmptySummary
        /\ \A k \in 1..n : SummaryOf(tr)[1..k] = Tally(SummaryOf(tr)[1..(k - 1)], tr[k])
        /\ \A k \in 0..n : SummaryOf(tr)[1..k] \in Summary
    BY <1>1, SummaryIsFold
  <2>2. n \in 0..n /\ 0 \in 0..n /\ \A k \in 1..n : k \in 0..n /\ k - 1 \in 0..n
    OBVIOUS
  <2> QED
    BY <2>1, <2>2
<1> HIDE DEF tally
<1>3. \A k \in 1..n : tr[k] \in DOMAIN book /\ book[tr[k]].pnl \in Int
  BY <1>1 DEF Counts
<1>4. g \in [1..n -> Int] /\ \A k \in 1..n : g[k] = book[tr[k]].pnl
  BY <1>1, <1>3
<1> HIDE DEF g
<1>5. ComputeSummary(tr).totalPnL = SumFunctionOnSet(ComputeSummary(tr).byDay, D)
  <2> DEFINE K == {k \in 0..n : SumFunctionOnSet(tally[k].byDay, D) = tally[k].totalPnL}
  <2>1. 0 \in K
    <3> DEFINE zero == [d \in ReportDays |-> 0]
               K0 == {E \in SUBSET D : SumFunctionOnSet(zero, E) = 0}
    <3>1. tally[0].byDay = zero /\ tally[0].totalPnL = 0
      BY <1>2 DEF EmptySummary
    <3>2. IsFiniteSet(D) /\ D \subseteq ReportDays
      <4>1. IsFiniteSet(ReportDays)
        BY ReportAssumption, FS_Interval DEF ReportDays
      <4> QED
        BY <4>1, FS_Subset DEF D
    <3>3. SumFunctionOnSet(zero, D) = 0
      BY <3>2, SumOfZero
    <3> QED
      BY <3>1, <3>3
  <2>2. ASSUME NEW k \in 1..n, k - 1 \in K PROVE k \in K
    <3>1. tally[k - 1] \in Summary /\ Counts(tr[k]) /\ DayOf(ClosedAt(tr[k])) \in D
      BY <1>1, <1>2
    <3>2. SumFunctionOnSet(tally[k - 1].byDay, D) = tally[k - 1].totalPnL
      BY <2>2
    <3>3. D \in SUBSET ReportDays
      BY DEF D
    <3>4. SumFunctionOnSet(Tally(tally[k - 1], tr[k]).byDay, D) = Tally(tally[k - 1], tr[k]).totalPnL
      BY <3>1, <3>2, <3>3, DaysKeepTotal
    <3>5. tally[k] = Tally(tally[k - 1], tr[k]) /\ k \in 0..n
      BY <1>2
    <3> QED
      BY <3>4, <3>5
  <2>3. n \in K
    <3> HIDE DEF K
    <3>1. \A k \in 0..n : k \in K
      BY <2>1, <2>2, UpTo
    <3> QED
      BY <3>1
  <2> QED
    BY <1>2, <2>3
<1>6. ComputeSummary(tr).maxDrawdown = Max(M)
  <2> DEFINE P       == [k \in 0..n |-> tally[k].totalPnL]
             peak    == [k \in 0..n |-> tally[k].peak]
             deepest == [k \in 0..n |-> tally[k].maxDrawdown]
  <2>1. P \in [0..n -> Int] /\ peak \in [0..n -> Int] /\ deepest \in [0..n -> Int]
    <3>1. \A k \in 0..n : tally[k].totalPnL \in Int /\ tally[k].peak \in Int /\ tally[k].maxDrawdown \in Int
      BY <1>2 DEF Summary
    <3> QED
      BY <3>1
  <2>2. peak[0] = P[0] /\ deepest[0] = 0 /\ P[0] = 0
    <3>1. 0 \in 0..n
      OBVIOUS
    <3> QED
      BY <1>2, <3>1 DEF EmptySummary
  <2>3. \A k \in 1..n : /\ P[k] = P[k - 1] + g[k]
                        /\ peak[k] = Larger(peak[k - 1], P[k])
                        /\ deepest[k] = Larger(deepest[k - 1], peak[k] - P[k])
    <3> SUFFICES ASSUME NEW k \in 1..n
                 PROVE  /\ P[k] = P[k - 1] + g[k]
                        /\ peak[k] = Larger(peak[k - 1], P[k])
                        /\ deepest[k] = Larger(deepest[k - 1], peak[k] - P[k])
      OBVIOUS
    <3>1. k \in 0..n /\ k - 1 \in 0..n /\ tally[k] = Tally(tally[k - 1], tr[k]) /\ g[k] = book[tr[k]].pnl
      BY <1>2, <1>4
    <3>2. /\ tally[k].totalPnL = tally[k - 1].totalPnL + g[k]
          /\ tally[k].peak = Larger(tally[k - 1].peak, tally[k - 1].totalPnL + g[k])
          /\ tally[k].maxDrawdown = Larger(tally[k - 1].maxDrawdown,
                Larger(tally[k - 1].peak, tally[k - 1].totalPnL + g[k]) - (tally[k - 1].totalPnL + g[k]))
      BY <3>1 DEF Tally
    <3>3. /\ P[k] = tally[k].totalPnL /\ P[k - 1] = tally[k - 1].totalPnL
          /\ peak[k] = tally[k].peak /\ peak[k - 1] = tally[k - 1].peak
          /\ deepest[k] = tally[k].maxDrawdown /\ deepest[k - 1] = tally[k - 1].maxDrawdown
      BY <3>1
    <3> HIDE DEF P, peak, deepest
    <3> QED
      BY <3>2, <3>3
  <2>4. ComputeSummary(tr).maxDrawdown = deepest[n]
    <3>1. n \in 0..n
      OBVIOUS
    <3> QED
      BY <1>2, <3>1
  <2> HIDE DEF P, peak, deepest
  <2>5. /\ \E a, b \in 0..n : a <= b /\ deepest[n] = P[a] - P[b]
        /\ \A a, b \in 0..n : a <= b => P[a] - P[b] <= deepest[n]
    BY <2>1, <2>2, <2>3, Drawdown
  <2>6. \A i, j \in 1..n : i <= j => SumFunctionOnSet(g, i..j) = P[j] - P[i - 1]
    BY <1>4, <2>1, <2>3, StretchSum
  <2>7. \A k \in 0..n : P[k] \in Int
    BY <2>1
  <2>8. deepest[n] \in M
    <3>1. PICK a \in 0..n, b \in 0..n : a <= b /\ deepest[n] = P[a] - P[b]
      BY <2>5
    <3>2. CASE a = b
      <4>1. P[a] - P[b] = 0
        BY <2>7, <3>2
      <4> QED
        BY <3>1, <4>1
    <3>3. CASE a # b
      <4>1. a + 1 \in 1..n /\ b \in 1..n /\ a + 1 <= b /\ (a + 1) - 1 = a
        BY <3>1, <3>3
      <4>2. SumFunctionOnSet(g, (a + 1)..b) = P[b] - P[a]
        BY <2>6, <4>1
      <4>3. -(P[b] - P[a]) = P[a] - P[b]
        BY <2>7
      <4>4. (a + 1)..b \in stretches
        <5>1. \A i, j \in DOMAIN tr : i..j \in stretches
          OBVIOUS
        <5>2. a + 1 \in DOMAIN tr /\ b \in DOMAIN tr
          BY <1>1, <4>1
        <5> QED
          BY <5>1, <5>2
      <4>5. -SumFunctionOnSet(g, (a + 1)..b) \in M
        <5> HIDE DEF stretches
        <5> QED
          BY <4>4
      <4>6. -SumFunctionOnSet(g, (a + 1)..b) = deepest[n]
        BY <3>1, <4>2, <4>3
      <4> QED
        BY <4>5, <4>6
    <3> QED
      BY <3>2, <3>3
  <2>9. ASSUME NEW x \in M PROVE x \in Int /\ x <= deepest[n]
    <3>0. deepest[n] \in Int /\ 0 <= deepest[n]
      <4>1. deepest[n] \in Int /\ P[0] - P[0] <= deepest[n]
        BY <2>1, <2>5
      <4>2. P[0] - P[0] = 0
        BY <2>2
      <4> QED
        BY <4>1, <4>2
    <3>1. CASE x = 0
      BY <3>0, <3>1
    <3>2. CASE x # 0
      <4>1. PICK i \in 1..n, j \in 1..n : x = -SumFunctionOnSet(g, i..j)
        BY <1>1, <3>2
      <4>2. CASE i <= j
        <5>1. x = -(P[j] - P[i - 1]) /\ P[j] \in Int /\ P[i - 1] \in Int
          BY <2>6, <2>7, <4>1, <4>2
        <5>2. P[i - 1] - P[j] <= deepest[n]
          <6>1. i - 1 \in 0..n /\ j \in 0..n /\ i - 1 <= j
            BY <4>2
          <6> QED
            BY <2>5, <6>1
        <5>3. x = P[i - 1] - P[j]
          BY <5>1
        <5> QED
          BY <5>1, <5>2, <5>3
      <4>3. CASE ~(i <= j)
        <5>1. i..j = {}
          BY <4>3
        <5>2. SumFunctionOnSet(g, {}) = 0
          BY SumOfNothing
        <5> QED
          BY <3>0, <4>1, <5>1, <5>2
      <4> QED
        BY <4>2, <4>3
    <3> QED
      BY <3>1, <3>2
  <2> HIDE DEF M
  <2>10. Max(M) = deepest[n]
    BY <2>8, <2>9, MaxIs
  <2> QED
    BY <2>4, <2>10
<1>7. ASSUME NEW i \in DOMAIN book, book[i].status = "CLOSED"
      PROVE  Cardinality({d \in ReportDays : i \in ClosedPositions(d, d)}) = 1
  <2> DEFINE day == DayOf(ClosedAt(i))
  <2>1. ClosedAt(i) \in Nat \ {0} /\ day \in ReportDays
    BY <1>0, RowHasDay
  <2>2. ASSUME NEW d \in ReportDays PROVE i \in ClosedPositions(d, d) <=> d = day
    <3>1. d \in Int /\ day \in Int
      BY <2>1, ReportAssumption DEF ReportDays
    <3>2. InPeriod(ClosedAt(i), d, d) <=> day \in d..d
      BY <2>1, <3>1, PeriodOfDay
    <3>3. day \in d..d <=> d = day
      <4> HIDE DEF day
      <4> QED
        BY <3>1
    <3>4. i \in ClosedPositions(d, d) <=> InPeriod(ClosedAt(i), d, d)
      BY <1>7 DEF ClosedPositions
    <3> QED
      BY <3>2, <3>3, <3>4
  <2>3. {d \in ReportDays : i \in ClosedPositions(d, d)} = {day}
    BY <2>1, <2>2
  <2> QED
    BY <2>3, FS_Singleton
<1> QED
  BY <1>5, <1>6, <1>7 DEF SummaryIsRight, tr, D, g

\* The clock, the table and what was printed of it keep their invariant.
THEOREM ReportInvariance == ReportSpec => []ReportIInv
BY ReportInitIInv, ReportNextIInv, PTL DEF ReportSpec

\* For any table and any period: the drawdown ComputeSummary finds in one pass is the
\* worst loss of all runs of consecutive closes, and the days it splits the total into are
\* those of the period (report.go:33, report.go:112).
THEOREM SummaryCorrect == ReportSpec => []SummaryIsRight
BY ReportInvariance, SummaryOfTrades, PTL

\* No row that is opened or closed after the period enters its report or leaves it, and
\* rows without a stamp stay where they are (report.go:112, positions.go:104).
THEOREM PastReportsCorrect == ReportSpec => PastReportsStay
<1>1. ReportIInv /\ [ReportNext]_reportVars =>
         [\A from, to \in ReportDays : StartOf(to + 1) <= instant =>
             ClosedPositions(from, to)' = ClosedPositions(from, to)]_reportVars
  <2>1. ReportIInv => TableOK
    BY DEF ReportIInv, ReportTypeOK, TableOK
  <2> QED
    BY <2>1, PastStays
<1> QED
  BY <1>1, ReportInvariance, PTL DEF ReportSpec, PastReportsStay
-----------------------------------------------------------------------------
(***************************************************************************)
(* The REST client.                                                        *)
(***************************************************************************)

\* A client that is off has a full bucket and has sent nothing.
LEMMA ClientInitIInv == ClientInit => ClientIInv
<1> SUFFICES ASSUME ClientInit PROVE ClientIInv
  OBVIOUS
<1>1. Rate \in 0..Rate /\ 0 \in 0..Rate
  BY RateAssumption
<1>2. bucket \in 0..Rate /\ elapsed \in 0..Rate
  BY <1>1 DEF ClientInit
<1>3. requests \in [1..Rate -> Nat]
  BY DEF ClientInit
<1> QED
  BY <1>2, <1>3 DEF ClientInit, ClientIInv, ClientTypeOK, Busy

\* Every step of a call, the clock and the server keeps the types; a good token is given
\* to a call that has keys alone.
LEMMA ClientNextIInv == ClientIInv /\ [ClientNext]_clientVars => ClientIInv'
<1> SUFFICES ASSUME ClientIInv, [ClientNext]_clientVars PROVE ClientIInv'
  OBVIOUS
<1> USE RateAssumption DEF ClientIInv, ClientTypeOK, Busy
<1>0. /\ Rate \in Nat \ {0} /\ bucket \in 0..Rate /\ elapsed \in 0..Rate
      /\ requests \in [1..Rate -> Nat] /\ Rate \in 1..Rate
  OBVIOUS
<1>1. CASE StartClient
  <2>1. accessToken' \in {"good", "bad"}
    BY <1>1 DEF StartClient
  <2> QED
    BY <1>1, <2>1 DEF StartClient
<1>2. CASE EndClient
  <2>1. bucket' \in 0..Rate /\ elapsed' \in 0..Rate
    <3>1. Rate \in 0..Rate /\ 0 \in 0..Rate
      BY <1>0
    <3> QED
      BY <1>2, <3>1 DEF EndClient
  <2>2. requests' \in [1..Rate -> Nat]
    BY <1>2 DEF EndClient
  <2> QED
    BY <1>2, <2>1, <2>2 DEF EndClient
<1>3. CASE TokenExpires
  BY <1>3 DEF TokenExpires
<1>4. CASE UnitPasses
  <2>1. requests' \in [1..Rate -> Nat]
    <3>1. \A u \in 1..Rate : u < Rate => u + 1 \in 1..Rate
      OBVIOUS
    <3> QED
      BY <1>0, <1>4, <3>1 DEF UnitPasses
  <2>2. elapsed' \in 0..Rate
    BY <1>0, <1>4 DEF UnitPasses
  <2> QED
    BY <1>4, <2>1, <2>2 DEF UnitPasses
<1>5. CASE GetQuote
  BY <1>5 DEF GetQuote
<1>6. Refilled \in 0..Rate
  BY <1>0 DEF Refilled
<1>7. Ask => requests' \in [1..Rate -> Nat] /\ client' = "asked"
  BY <1>0 DEF Ask
<1>8. CASE TakeToken
  <2>1. bucket' \in 0..Rate /\ elapsed' \in 0..Rate
    BY <1>0, <1>6, <1>8 DEF TakeToken
  <2> QED
    BY <1>7, <1>8, <2>1 DEF TakeToken
<1>9. CASE SleepForToken
  BY <1>6, <1>9 DEF SleepForToken
<1>10. CASE WakeUp
  <2>1. bucket' \in 0..Rate /\ elapsed' \in 0..Rate
    BY <1>0, <1>10 DEF WakeUp
  <2> QED
    BY <1>7, <1>10, <2>1 DEF WakeUp
<1>11. CASE Answered
  BY <1>11 DEF Answered, CallEnds
<1>12. CASE Unauthorized
  BY <1>12 DEF Unauthorized
<1>13. CASE RefreshToken
  BY <1>13 DEF RefreshToken
<1>14. CASE RefreshFails
  BY <1>14 DEF RefreshFails, CallEnds
<1>15. CASE UNCHANGED clientVars
  BY <1>15 DEF clientVars
<1> QED
  BY <1>1, <1>2, <1>3, <1>4, <1>5, <1>8, <1>9, <1>10, <1>11, <1>12, <1>13, <1>14, <1>15
  DEF ClientNext, Quote, Failure

\* The bucket holds what it may, a fetched token is with a client that has keys, and a
\* call that refreshes one has them (client.go:127, client.go:281).
THEOREM ClientInvariance == ClientSpec => []ClientIInv
BY ClientInitIInv, ClientNextIInv, PTL DEF ClientSpec

\* What the unit that ends has sent is no more than the bucket held; a wait begins a new
\* unit, in which nothing was sent yet.
LEMMA ClientNextSent ==
  ClientIInv /\ SentIsTaken /\ BurstsArePaidFor /\ [ClientNext]_clientVars
    => SentIsTaken' /\ BurstsArePaidFor'
<1> SUFFICES ASSUME ClientIInv, SentIsTaken, BurstsArePaidFor, [ClientNext]_clientVars
             PROVE  SentIsTaken' /\ BurstsArePaidFor'
  OBVIOUS
<1>0. /\ Rate \in Nat /\ Rate >= 1 /\ Rate \in 1..Rate
      /\ bucket \in 0..Rate /\ elapsed \in 0..Rate
      /\ requests \in [1..Rate -> Nat]
  BY RateAssumption DEF ClientIInv, ClientTypeOK
<1>1. /\ requests[Rate] + bucket <= Rate \/ elapsed > 0
      /\ elapsed > 0 => requests[Rate] = 0
      /\ \A u \in 1..Rate : requests[u] <= Rate
  BY DEF SentIsTaken, BurstsArePaidFor
<1>2. CASE UNCHANGED <<bucket, elapsed, requests>>
  BY <1>2 DEF SentIsTaken, BurstsArePaidFor
<1>3. CASE EndClient
  <2>1. requests' = [u \in 1..Rate |-> 0] /\ bucket' = Rate /\ elapsed' = 0
    BY <1>3 DEF EndClient
  <2> QED
    BY <1>0, <2>1 DEF SentIsTaken, BurstsArePaidFor
<1>4. CASE UnitPasses
  <2>1. /\ requests' = [u \in 1..Rate |-> IF u < Rate THEN requests[u + 1] ELSE 0]
        /\ elapsed' = IF elapsed < Rate THEN elapsed + 1 ELSE elapsed
    BY <1>4 DEF UnitPasses
  <2>2. elapsed' > 0 /\ requests'[Rate] = 0
    BY <1>0, <2>1
  <2>3. \A u \in 1..Rate : u < Rate => u + 1 \in 1..Rate
    BY <1>0
  <2>4. \A u \in 1..Rate : requests'[u] <= Rate
    BY <1>0, <1>1, <2>1, <2>3
  <2> QED
    BY <2>2, <2>4 DEF SentIsTaken, BurstsArePaidFor
<1>5. Refilled \in 0..Rate /\ (elapsed = 0 => Refilled = bucket)
  BY <1>0 DEF Refilled
<1>6. ASSUME Ask, elapsed' = 0, bucket' + requests[Rate] + 1 <= Rate, bucket' \in Nat
      PROVE  SentIsTaken' /\ BurstsArePaidFor'
  <2>1. /\ requests' \in [1..Rate -> Nat]
        /\ requests'[Rate] = requests[Rate] + 1
        /\ \A u \in 1..Rate : u # Rate => requests'[u] = requests[u]
    BY <1>0, <1>6 DEF Ask
  <2>2. requests'[Rate] + bucket' <= Rate /\ requests'[Rate] <= Rate
    <3>1. requests[Rate] \in Nat /\ Rate \in Nat
      BY <1>0
    <3>2. requests'[Rate] = requests[Rate] + 1
      BY <2>1
    <3> QED
      BY <1>6, <3>1, <3>2
  <2> QED
    BY <1>1, <1>6, <2>1, <2>2 DEF SentIsTaken, BurstsArePaidFor
<1>7. CASE TakeToken
  <2>1. Ask /\ elapsed' = 0 /\ Refilled >= 1 /\ bucket' = Refilled - 1
    BY <1>7 DEF TakeToken
  <2>2. requests[Rate] + Refilled <= Rate
    BY <1>0, <1>1, <1>5
  <2>3. requests[Rate] \in Nat
    BY <1>0
  <2>4. bucket' + requests[Rate] + 1 <= Rate /\ bucket' \in Nat
    BY <1>0, <1>5, <2>1, <2>2, <2>3
  <2> QED
    BY <1>6, <2>1, <2>4
<1>8. CASE SleepForToken
  <2>1. bucket' = Refilled /\ elapsed' = 0 /\ UNCHANGED requests
    BY <1>8 DEF SleepForToken
  <2>2. requests[Rate] + Refilled <= Rate
    BY <1>0, <1>1, <1>5
  <2> QED
    BY <1>0, <1>1, <1>5, <2>1, <2>2 DEF SentIsTaken, BurstsArePaidFor
<1>9. CASE WakeUp
  <2>1. Ask /\ elapsed' = 0 /\ elapsed >= 1 /\ bucket' = Rate - 1
    BY <1>9 DEF WakeUp
  <2>2. requests[Rate] = 0
    BY <1>0, <1>1, <2>1
  <2>3. bucket' + requests[Rate] + 1 <= Rate /\ bucket' \in Nat
    BY <1>0, <2>1, <2>2
  <2> QED
    BY <1>6, <2>1, <2>3
<1> QED
  BY <1>2, <1>3, <1>4, <1>7, <1>8, <1>9
  DEF ClientNext, clientVars, StartClient, TokenExpires, GetQuote, Answered, Quote, Failure,
      Unauthorized, RefreshToken, RefreshFails

\* Between two waits of the limiter no more requests go out than the bucket holds,
\* however often a call goes round after a 401 (client.go:273-291).
THEOREM BurstsBounded == ClientSpec => []BurstsArePaidFor
<1>1. ClientInit => SentIsTaken /\ BurstsArePaidFor
  <2> SUFFICES ASSUME ClientInit PROVE SentIsTaken /\ BurstsArePaidFor
    OBVIOUS
  <2>1. Rate \in Nat /\ Rate \in 1..Rate
    BY RateAssumption
  <2>2. requests = [u \in 1..Rate |-> 0] /\ bucket = Rate /\ elapsed = 0
    BY DEF ClientInit
  <2> QED
    BY <2>1, <2>2 DEF SentIsTaken, BurstsArePaidFor
<1> QED
  BY <1>1, ClientInvariance, ClientNextSent, PTL DEF ClientSpec
-----------------------------------------------------------------------------
(***************************************************************************)
(* The parts together.                                                     *)
(***************************************************************************)

\* The table of the reports is empty while another part is looked at.
LEMMA NoReportsIsInitial == NoReports => ReportInit
<1> SUFFICES ASSUME NoReports PROVE ReportInit
  OBVIOUS
<1>1. 0 \in 0..MaxTrades
  BY ReportAssumption
<1>2. [i \in 1..0 |-> Legacy] = <<>>
  OBVIOUS
<1> QED
  BY <1>1, <1>2 DEF NoReports, ReportInit

\* All parts start in their initial states.
LEMMA PeripheryInitParts ==
  PeripheryInit => ArchiveInit /\ SentimentInit /\ DetectorInit /\ ClientInit /\ ReportInit
BY NoReportsIsInitial DEF PeripheryInit

\* A step of one part leaves the others where they are.
LEMMA PeripheryNextParts ==
  [PeripheryNext]_peripheryVars =>
     /\ [ArchiveNext]_archiveVars /\ [SentimentNext]_sentimentVars
     /\ [DetectorNext]_detectorVars /\ [ClientNext]_clientVars /\ [ReportNext]_reportVars
<1> SUFFICES ASSUME [PeripheryNext]_peripheryVars
             PROVE  /\ [ArchiveNext]_archiveVars /\ [SentimentNext]_sentimentVars
                    /\ [DetectorNext]_detectorVars /\ [ClientNext]_clientVars
                    /\ [ReportNext]_reportVars
  OBVIOUS
<1>1. CASE InArchive /\ ArchiveNext
  BY <1>1 DEF InArchive
<1>2. CASE InSentiment /\ SentimentNext
  BY <1>2 DEF InSentiment
<1>3. CASE InDetector /\ DetectorNext
  BY <1>3 DEF InDetector
<1>4. CASE InClient /\ ClientNext
  BY <1>4 DEF InClient
<1>5. CASE InReports /\ ReportNext
  BY <1>5 DEF InReports
<1>6. CASE UNCHANGED peripheryVars
  BY <1>6 DEF peripheryVars
<1> QED
  BY <1>1, <1>2, <1>3, <1>4, <1>5, <1>6 DEF PeripheryNext

\* What is checked of the composition is checked of the parts: a behaviour of it is one
\* of each part, with the fairness of the part.
THEOREM PeripheryIsItsParts ==
  PeripherySpec => /\ ArchiveSpec /\ SentimentSpec /\ DetectorSpec /\ ClientSpec /\ ReportSpec
BY PeripheryInitParts, PeripheryNextParts, PTL
DEF PeripherySpec, ArchiveSpec, SentimentSpec, DetectorSpec, ClientSpec, ReportSpec

\* Every part keeps its types and its inductive invariant, and the client the bound of its
\* bursts, whichever part is looked at.
THEOREM PartsCorrect == PeripherySpec => []PartsOK
<1>1. /\ ArchiveIInv /\ SentimentIInv /\ QuietIInv /\ ReportIInv
      /\ ClientIInv /\ BurstsArePaidFor
      => PartsOK
  BY DEF PartsOK
<1> QED
  BY <1>1, PeripheryIsItsParts, ArchiveInvariance, SentimentInvariance, QuietInvariance,
     ClientInvariance, BurstsBounded, ReportInvariance, PTL DEF SentimentSpec
=============================================================================
