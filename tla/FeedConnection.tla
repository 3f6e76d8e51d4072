--------------------------- MODULE FeedConnection ---------------------------
(***************************************************************************)
(* The feed connection of the scout: startFeedWithRetry (agent.go), then   *)
(* consumeWithReconnect (feed.go) over pkg/groww/feed.go, and Stop.  Both  *)
(* goroutines are one process here, as the first starts the second and     *)
(* returns.  A dial, a write and a read of the socket take time: the       *)
(* socket may drop, and Stop may run, between any two of them.             *)
(***************************************************************************)
EXTENDS MarketClock

CONSTANT Instants    \* the minutes of the week the clock may show

ASSUME InstantsAssumption == Instants \subseteq Nat

VARIABLES
  conn,      \* FeedClient.conn: "none", "open", "subscribed", "dead"
  reader,    \* where the reader goroutine is
  stopper,   \* how far Analyst.Stop has come
  now

connectionVars == <<conn, reader, stopper, now>>

\* The agent's stopChan is closed before the connector's, and that before the socket.
AgentStopped == stopper # "running"

FeedStopped == stopper \in {"client", "stopped"}

ConnectionInit ==
  /\ conn = "none"
  /\ reader = "start"
  /\ stopper = "running"
  /\ now \in Instants

ConnectionTypeOK ==
  /\ conn \in {"none", "open", "subscribed", "dead"}
  /\ reader \in {"start", "startPause", "firstSubscribe", "consume", "check", "market",
                 "marketPause", "reconnect", "subscribe", "retryPause", "exit"}
  /\ stopper \in {"running", "feed", "client", "stopped"}
  /\ now \in Instants
-----------------------------------------------------------------------------
Goto(from, to) == reader = from /\ reader' = to

\* select on a timer of 60 s and a stop channel: with both ready either may win.
Pause(at60s, next, stopped) ==
  /\ Goto(at60s, next) \/ (stopped /\ Goto(at60s, "exit"))
  /\ UNCHANGED <<conn, stopper, now>>

\* Connect dials and then installs the socket; the one before is forgotten.
Connect(from, to) ==
  /\ Goto(from, to)
  /\ conn' = "open"
  /\ UNCHANGED <<stopper, now>>

\* SubscribeLTP writes to the socket, which may have died without the write noticing.
Subscribe(from, to) ==
  /\ Goto(from, to)
  /\ conn # "none"
  /\ conn' = IF conn = "open" THEN "subscribed" ELSE conn
  /\ UNCHANGED <<stopper, now>>
-----------------------------------------------------------------------------
(* startFeedWithRetry and FeedConnector.Start *)

\* The market is closed, or it is open and Connect fails.
StartDeferred ==
  /\ Goto("start", "startPause")
  /\ UNCHANGED <<conn, stopper, now>>

StartConnect == IsMarketOpen(now) /\ Connect("start", "firstSubscribe")

StartPause == Pause("startPause", "start", AgentStopped)

StartSubscribe == Subscribe("firstSubscribe", "consume")

\* Start closes the socket again and returns the error.
StartSubscribeFails ==
  /\ Goto("firstSubscribe", "startPause")
  /\ conn' = "none"
  /\ UNCHANGED <<stopper, now>>
-----------------------------------------------------------------------------
(* consumeWithReconnect *)

\* Consume returns when the socket is gone.
ConsumeReturns ==
  /\ Goto("consume", "check")
  /\ conn \in {"none", "dead"}
  /\ UNCHANGED <<conn, stopper, now>>

\* A reader that takes Stop for a lost connection.
CheckStopSkipped ==
  /\ Goto("check", "market")
  /\ UNCHANGED <<conn, stopper, now>>

CheckStop ==
  /\ Goto("check", IF FeedStopped THEN "exit" ELSE "market")
  /\ UNCHANGED <<conn, stopper, now>>

WaitForMarket ==
  /\ Goto("market", IF IsMarketOpen(now) THEN "reconnect" ELSE "marketPause")
  /\ UNCHANGED <<conn, stopper, now>>

MarketPause == Pause("marketPause", "market", FeedStopped)

\* One of the maxRetries attempts succeeds.
Reconnect == Connect("reconnect", "subscribe")

ReconnectFails ==
  /\ Goto("reconnect", "retryPause")
  /\ UNCHANGED <<conn, stopper, now>>

\* A connector that goes on reading without having subscribed anew.
ResubscribeForgotten ==
  /\ Goto("subscribe", "consume")
  /\ UNCHANGED <<conn, stopper, now>>

Resubscribe == Subscribe("subscribe", "consume")

\* A failed write leaves the socket unusable, a missing socket stays missing.
ResubscribeFails ==
  /\ Goto("subscribe", "retryPause")
  /\ conn' = IF conn = "none" THEN "none" ELSE "dead"
  /\ UNCHANGED <<stopper, now>>

\* A connector that gives up after a failed reconnect.
GiveUp == Pause("retryPause", "exit", FeedStopped)

\* The loop continues with Consume.
RetryPause == Pause("retryPause", "consume", FeedStopped)

\* What the reader does without touching anything but the connection.
ReaderStep ==
  \/ StartDeferred \/ StartConnect \/ StartPause \/ StartSubscribeFails
  \/ ConsumeReturns \/ CheckStop \/ WaitForMarket \/ MarketPause
  \/ Reconnect \/ ReconnectFails \/ Resubscribe \/ ResubscribeFails \/ RetryPause
-----------------------------------------------------------------------------
(* Analyst.Stop and FeedConnector.Stop; Close drops the socket there is. *)

CloseStopChan ==
  /\ stopper \in {"running", "feed"}
  /\ stopper' = IF stopper = "running" THEN "feed" ELSE "client"
  /\ UNCHANGED <<conn, reader, now>>

CloseClient ==
  /\ stopper = "client"
  /\ stopper' = "stopped"
  /\ conn' = "none"
  /\ UNCHANGED <<reader, now>>
-----------------------------------------------------------------------------
(* The world around it. *)

ConnDrops ==
  /\ conn \in {"open", "subscribed"}
  /\ conn' = "dead"
  /\ UNCHANGED <<reader, stopper, now>>

Clock ==
  /\ now' \in Instants \ {now}
  /\ UNCHANGED <<conn, reader, stopper>>
=============================================================================
