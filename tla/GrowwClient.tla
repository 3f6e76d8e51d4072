---------------------------- MODULE GrowwClient ----------------------------
(***************************************************************************)
(* pkg/groww/client.go under the one caller it has: pollQuotes asks        *)
(* GetQuote for one symbol after the other.  A call waits for the token    *)
(* bucket, sends the request, and after HTTP 401 gets a new access token   *)
(* and begins again.                                                       *)
(*                                                                         *)
(* The unit of time is 1/Rate of a second, in which the bucket gains one   *)
(* token; whatever the code does takes no time, its waits do.              *)
(***************************************************************************)
EXTENDS Naturals

CONSTANT Rate    \* liveDataMaxPerSec

ASSUME RateAssumption == Rate \in Nat \ {0}

VARIABLES
  client,        \* "off", "idle", or what the call under way is doing
  hasKeys,       \* made by NewClientFromKeys
  accessToken,   \* Client.token: "bad", or good, and "new" to the call that fetched it
  bucket,        \* rateLimiter.tokens
  elapsed,       \* time since rateLimiter.lastTick, up to a second
  requests       \* the requests sent in each unit of the last second

clientVars == <<client, hasKeys, accessToken, bucket, elapsed, requests>>

Busy == {"limited", "sleeping", "asked", "refreshing"}

ClientTypeOK ==
  /\ client \in {"off", "idle"} \cup Busy
  /\ hasKeys \in BOOLEAN
  /\ accessToken \in {"good", "bad", "new"}
  /\ accessToken = "new" => hasKeys /\ client \in Busy
  /\ bucket \in 0..Rate /\ elapsed \in 0..Rate
  /\ requests \in [1..Rate -> Nat]

ClientInit ==
  /\ client = "off" /\ hasKeys = FALSE /\ accessToken = "bad"
  /\ bucket = Rate /\ elapsed = 0
  /\ requests = [u \in 1..Rate |-> 0]

\* NewClient takes a token from the environment, NewClientFromKeys has none.
StartClient ==
  /\ client = "off"
  /\ client' = "idle"
  /\ hasKeys' \in BOOLEAN
  /\ accessToken' \in IF hasKeys' THEN {"bad"} ELSE {"good", "bad"}
  /\ UNCHANGED <<bucket, elapsed, requests>>

EndClient ==
  /\ client = "idle"
  /\ client' = "off" /\ hasKeys' = FALSE /\ accessToken' = "bad"
  /\ bucket' = Rate /\ elapsed' = 0 /\ requests' = [u \in 1..Rate |-> 0]

\* Access tokens last a day: one that was fetched by a call outlives it.
TokenExpires ==
  /\ client # "off" /\ accessToken = "good"
  /\ accessToken' = "bad"
  /\ UNCHANGED <<client, hasKeys, bucket, elapsed, requests>>

UnitPasses ==
  /\ client # "off"
  /\ elapsed' = IF elapsed < Rate THEN elapsed + 1 ELSE elapsed
  /\ requests' = [u \in 1..Rate |-> IF u < Rate THEN requests[u + 1] ELSE 0]
  /\ UNCHANGED <<client, hasKeys, accessToken, bucket>>

GetQuote ==
  /\ client = "idle"
  /\ client' = "limited"
  /\ UNCHANGED <<hasKeys, accessToken, bucket, elapsed, requests>>
-----------------------------------------------------------------------------
\* Wait, and the request behind it.

Refilled == IF bucket + elapsed > Rate THEN Rate ELSE bucket + elapsed

Ask == client' = "asked" /\ requests' = [requests EXCEPT ![Rate] = @ + 1]

TakeToken ==
  /\ client = "limited" /\ Refilled >= 1
  /\ bucket' = Refilled - 1 /\ elapsed' = 0
  /\ Ask
  /\ UNCHANGED <<hasKeys, accessToken>>

SleepForToken ==
  /\ client = "limited" /\ Refilled < 1
  /\ client' = "sleeping"
  /\ bucket' = Refilled /\ elapsed' = 0
  /\ UNCHANGED <<hasKeys, accessToken, requests>>

\* The sleep is cut short.
WakeUpEarly ==
  /\ client = "sleeping"
  /\ bucket' = Rate - 1 /\ elapsed' = 0
  /\ Ask
  /\ UNCHANGED <<hasKeys, accessToken>>

\* After the time one token takes the bucket is one short of full.
WakeUp ==
  /\ client = "sleeping" /\ elapsed >= 1
  /\ bucket' = Rate - 1 /\ elapsed' = 0
  /\ Ask
  /\ UNCHANGED <<hasKeys, accessToken>>

CallEnds ==
  /\ client' = "idle"
  /\ accessToken' = IF accessToken = "new" THEN "good" ELSE accessToken

\* The call returns a quote, or the error of decodeResponse, decodeError or the transport.
Answered ==
  /\ client = "asked"
  /\ CallEnds
  /\ UNCHANGED <<hasKeys, bucket, elapsed, requests>>

Quote == accessToken # "bad" /\ Answered

\* A transport that fails, HTTP 429 or 5xx, an envelope that is none; without keys, 401.
Failure == Answered

\* HTTP 401, for a token that has expired or for a good one.
Unauthorized ==
  /\ client = "asked" /\ hasKeys
  /\ client' = "refreshing"
  /\ UNCHANGED <<hasKeys, accessToken, bucket, elapsed, requests>>

\* The token that was fetched is not installed.
RefreshTokenUnset ==
  /\ client = "refreshing"
  /\ client' = "limited"
  /\ UNCHANGED <<hasKeys, accessToken, bucket, elapsed, requests>>

\* refreshToken, SetToken, and do once more from its beginning.
RefreshToken ==
  /\ client = "refreshing"
  /\ client' = "limited"
  /\ accessToken' = "new"
  /\ UNCHANGED <<hasKeys, bucket, elapsed, requests>>

RefreshFails ==
  /\ client = "refreshing"
  /\ CallEnds
  /\ UNCHANGED <<hasKeys, bucket, elapsed, requests>>

ClientNext ==
  \/ StartClient \/ EndClient \/ TokenExpires \/ UnitPasses \/ GetQuote
  \/ TakeToken \/ SleepForToken \/ WakeUp
  \/ Quote \/ Failure \/ Unauthorized \/ RefreshToken \/ RefreshFails

\* The call goes on, time passes while it sleeps, every request has an end (the HTTP
\* client times out), and a server that keeps being asked with a good token does not
\* say 401 for ever.
ClientFairness ==
  /\ WF_clientVars(TakeToken \/ SleepForToken \/ WakeUp)
  /\ WF_clientVars(UnitPasses /\ client = "sleeping")
  /\ WF_clientVars(Failure \/ Unauthorized)
  /\ WF_clientVars(RefreshToken \/ RefreshFails)
  /\ SF_clientVars(Quote)

ClientSpec == ClientInit /\ [][ClientNext]_clientVars /\ ClientFairness
-----------------------------------------------------------------------------
\* Every call returns, although do calls itself after each 401 and counts nothing: a call
\* that goes round asks with the token it has just been given (client.go:135).
CallsReturn == []<>(client \notin Busy)

\* Wait leaves its bucket to sleep and fills it up but for one token, whatever the sleep
\* was worth (client.go:285-291).  What the bucket still bounds is a burst: between two
\* waits for a token go out no more requests than it holds.
BurstsArePaidFor == \A u \in 1..Rate : requests[u] <= Rate

\* The inductive invariant of BurstsArePaidFor: what was sent since the last wait was
\* taken out of the bucket.
SentIsTaken ==
  /\ requests[Rate] + bucket <= Rate \/ elapsed > 0
  /\ elapsed > 0 => requests[Rate] = 0

\* The inductive invariant of the types: a call that refreshes has the keys to do so.
ClientIInv == ClientTypeOK /\ (client = "refreshing" => hasKeys)
=============================================================================
