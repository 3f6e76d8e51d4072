----------------------------- MODULE Lifecycle -----------------------------
(***************************************************************************)
(* main/main.go and the Run and Stop of its five agents: the process       *)
(* connects, constructs the agents and launches the Run of each, waits for *)
(* a signal, stops them one after the other and waits for every Run.  A    *)
(* constructor that fails, a signal during the boot and a crash end the    *)
(* process where it is, and the container starts another.                  *)
(*                                                                         *)
(* Each Run is a goroutine of its own that may be scheduled late, fail at  *)
(* any call and return while the process goes on.                          *)
(***************************************************************************)
EXTENDS DurableConsumers, Scheduler, Sequences

CONSTANTS
  Systems,      \* what is looked at: a constructor table and some subjects
  MaxCrashes    \* bound on the crashes and failed boots

VARIABLES
  system,       \* one of them
  main,         \* where main is
  next,         \* the place in the table, or the migration, it works on
  schema,       \* the migrations the database has had
  run,          \* where the Run of each agent is
  at,           \* the subscriptions this Run has made, or torn down
  stopped,      \* stopChan is closed
  handles,      \* the database handle or archive each agent has open
  handled,      \* the consumers whose message a callback has acknowledged
  crashes

mainVars == <<system, main, next, schema, crashes>>
runVars == <<run, at, stopped, handles>>
vars == <<natsVars, schedVars, mainVars, runVars, handled>>

MainState == {"down", "migrating", "boot", "serving", "stopping", "joining"}
RunState ==
  {"none", "launched", "ensured", "ready", "calling", "leaving", "returned", "failed"}

\* The constructor table of main: the place of each agent.
Place == [scout |-> 1, risk |-> 2, trader |-> 3, sentiment |-> 4, recorder |-> 5]

ASSUME SystemsAssumption ==
  \A sys \in Systems :
    /\ sys.table \in Seq(Agents) \ {<< >>}
    /\ \A i, j \in DOMAIN sys.table : i < j => Place[sys.table[i]] < Place[sys.table[j]]
    /\ sys.subjects \subseteq Subjects

\* The embedded .up.sql files.
Migrations == 5

ASSUME MaxCrashesAssumption == MaxCrashes \in Nat

\* The agents of that table that are looked at, in their order.
Table == system.table

InScope(s) == s \in system.subjects

IfInScope(s) == IF InScope(s) THEN <<s>> ELSE << >>

\* The subscriptions of each Run, in their order.
Subscribes(a) ==
  CASE a = "risk"     -> IfInScope("intent") \o IfInScope("price")
    [] a = "trader"   -> IfInScope("execute") \o IfInScope("price")
    [] a = "recorder" -> IfInScope("price")
    [] OTHER          -> << >>

\* The subscriptions it unsubscribes before it returns: the risk manager keeps
\* its price subscription.
Unsubscribes(a) == IF a = "risk" THEN IfInScope("intent") ELSE Subscribes(a)

StreamOf(a) == IF a = "sentiment" THEN "sentiment" ELSE "trading"

\* What a constructor opens beside the connection to NATS.
Opens(a) == CASE a \in {"trader", "sentiment"} -> {"db"}
              [] a = "recorder"                -> {"archive"}
              [] OTHER                         -> {}

\* Every agent is stopped without a look at its Run.
WaitsForNobody(a) == FALSE

\* The agents whose Stop waits for their Run, and the one that never closes its connection.
WaitsForRun(a) == a \in {"trader", "recorder"}
ClosesConn(a) == a # "recorder"

\* A Run that is over, or was never launched.
Over(a) == run[a] \in {"none", "returned", "failed"}

Init ==
  /\ NatsInit
  /\ SchedulerInit
  /\ system \in Systems
  /\ main = "down"
  /\ next = 1
  /\ schema = 0
  /\ handles = [a \in Agents |-> {}]
  /\ run = [a \in Agents |-> "none"]
  /\ at = [a \in Agents |-> 0]
  /\ stopped = [a \in Agents |-> FALSE]
  /\ handled = {}
  /\ crashes = 0
-----------------------------------------------------------------------------
(* main *)

\* Connect and Ping; when one fails the process is down again.
Boot ==
  /\ main = "down"
  /\ main' = "migrating"
  /\ next' = 1
  /\ UNCHANGED <<natsVars, schedVars, runVars, handled, system, schema, crashes>>

\* Migrate applies every file in order on every boot; those the database has had
\* change nothing.  One that fails ends the boot.
Migrate ==
  /\ main = "migrating"
  /\ schema' = IF next > schema THEN next ELSE schema
  /\ main' = IF next = Migrations THEN "boot" ELSE main
  /\ next' = IF next = Migrations THEN 1 ELSE next + 1
  /\ UNCHANGED <<natsVars, schedVars, runVars, handled, system, crashes>>

\* NewAgent, and the goroutine of its Run.
Construct(a) ==
  /\ main = "boot"
  /\ Table[next] = a
  /\ ConnectJetStream(a)
  /\ handles' = [handles EXCEPT ![a] = Opens(a)]
  /\ run' = [run EXCEPT ![a] = "launched"]
  /\ main' = IF next = Len(Table) THEN "serving" ELSE main
  /\ next' = IF next = Len(Table) THEN 1 ELSE next + 1
  /\ UNCHANGED <<streams, consumer, unread, published, bound, schedVars,
                 at, stopped, handled, system, schema, crashes>>

\* Every goroutine ends with the process, wherever it is.
ProcessEnds ==
  /\ LoseConnections
  /\ main' = "down"
  /\ next' = 1
  /\ run' = [a \in Agents |-> "none"]
  /\ at' = [a \in Agents |-> 0]
  /\ stopped' = [a \in Agents |-> FALSE]
  /\ handles' = [a \in Agents |-> {}]
  /\ sched' = "off"
  /\ tick' = FALSE
  /\ UNCHANGED <<system, schema, handled>>

\* A crash; during the boot also log.Fatalf after a constructor that failed, or a
\* signal that nobody waits for yet.
Crash ==
  /\ main # "down"
  /\ crashes < MaxCrashes
  /\ crashes' = crashes + 1
  /\ ProcessEnds

\* SIGINT or SIGTERM.
Signal ==
  /\ main = "serving"
  /\ main' = "stopping"
  /\ UNCHANGED <<natsVars, schedVars, runVars, handled, system, next, schema, crashes>>

\* The agents in the opposite order.
StopOrderReversed == [i \in 1..Len(Table) |-> Table[Len(Table) + 1 - i]]

StopOrder == Table

\* The first half of Stop: close(stopChan), the detector and the feed with it.
SignalStop(a) ==
  /\ main = "stopping"
  /\ StopOrder[next] = a
  /\ ~stopped[a]
  /\ stopped' = [stopped EXCEPT ![a] = TRUE]
  /\ UNCHANGED <<natsVars, schedVars, mainVars, run, at, handles, handled>>

\* The second half: some wait for Run, most close their connection and their
\* database; the recorder's Run has closed its archive.
FinishStop(a) ==
  /\ main = "stopping"
  /\ StopOrder[next] = a
  /\ stopped[a]
  /\ WaitsForRun(a) => Over(a)
  /\ IF ClosesConn(a) THEN CloseConn(a) ELSE UNCHANGED <<conn, bound>>
  /\ handles' = [handles EXCEPT ![a] = @ \ {"db"}]
  /\ main' = IF next = Len(Table) THEN "joining" ELSE main
  /\ next' = IF next = Len(Table) THEN 1 ELSE next + 1
  /\ UNCHANGED <<streams, consumer, unread, published, schedVars, run, at, stopped,
                 handled, system, schema, crashes>>

\* wg.Wait returns when every Run has.
Exit ==
  /\ main = "joining"
  /\ \A a \in Agents : Over(a)
  /\ ProcessEnds
  /\ UNCHANGED crashes
-----------------------------------------------------------------------------
(* Run *)

\* EnsureStream, and the start of the scheduler or of the scout's goroutines.
Ensure(a) ==
  /\ run[a] = "launched"
  /\ EnsureStream(a, StreamOf(a))
  /\ run' = [run EXCEPT ![a] = IF Subscribes(a) = << >> THEN "ready" ELSE "ensured"]
  /\ IF a = "sentiment" THEN StartScheduler ELSE UNCHANGED schedVars
  /\ UNCHANGED <<mainVars, at, stopped, handles, handled>>

\* An agent that works on without its stream.
EnsureFailsUnnoticed(a) ==
  /\ run[a] = "launched"
  /\ run' = [run EXCEPT ![a] = IF Subscribes(a) = << >> THEN "ready" ELSE "ensured"]
  /\ UNCHANGED <<natsVars, schedVars, mainVars, at, stopped, handles, handled>>

EnsureFails(a) ==
  /\ run[a] = "launched"
  /\ run' = [run EXCEPT ![a] = "failed"]
  /\ UNCHANGED <<natsVars, schedVars, mainVars, at, stopped, handles, handled>>

\* After its last subscription Run waits for stopChan.
NextSubscription(a) ==
  LET last == at[a] + 1 = Len(Subscribes(a)) IN
  /\ at' = [at EXCEPT ![a] = IF last THEN 0 ELSE @ + 1]
  /\ run' = [run EXCEPT ![a] = IF last THEN "ready" ELSE @]

SubscribeNext(a) ==
  /\ run[a] = "ensured"
  /\ Subscribe(<<a, Subscribes(a)[at[a] + 1]>>)
  /\ NextSubscription(a)
  /\ UNCHANGED <<schedVars, mainVars, stopped, handles, handled>>

\* Only the risk manager goes on, without prices.
SubscribeFails(a) ==
  /\ run[a] = "ensured"
  /\ IF a = "risk" /\ Subscribes(a)[at[a] + 1] = "price"
       THEN NextSubscription(a)
       ELSE run' = [run EXCEPT ![a] = "failed"] /\ UNCHANGED at
  /\ UNCHANGED <<natsVars, schedVars, mainVars, stopped, handles, handled>>

\* The select of a waiting Run takes the stop channel; the scheduler is told.
Leave(a) ==
  /\ run[a] = "ready"
  /\ stopped[a]
  /\ run' = [run EXCEPT ![a] = "leaving"]
  /\ UNCHANGED <<natsVars, schedVars, mainVars, at, stopped, handles, handled>>

UnsubscribeNext(a) ==
  /\ run[a] = "leaving"
  /\ at[a] < Len(Unsubscribes(a))
  /\ at' = [at EXCEPT ![a] = @ + 1]
  /\ Unsubscribe(<<a, Unsubscribes(a)[at[a] + 1]>>)
  /\ UNCHANGED <<schedVars, mainVars, run, stopped, handles, handled>>

\* Scheduler.Stop waits for its goroutine before Run returns; the recorder closes
\* its archive.
Return(a) ==
  /\ run[a] = "leaving"
  /\ at[a] = Len(Unsubscribes(a))
  /\ a = "sentiment" => sched = "ended"
  /\ run' = [run EXCEPT ![a] = "returned"]
  /\ handles' = [handles EXCEPT ![a] = @ \ {"archive"}]
  /\ UNCHANGED <<natsVars, schedVars, mainVars, at, stopped, handled>>
-----------------------------------------------------------------------------
(* What the agents do meanwhile. *)

\* The loops of the scout, from its Run on until they see the stop channel; that may be
\* later than Run does.
ScoutWorks == run["scout"] \in {"ready", "leaving", "returned"}

\* An intent of the detector or a price of the feed, as long as the connection is open.
ScoutPublishes(s) ==
  /\ ScoutWorks
  /\ conn["scout"] = "open"
  /\ InScope(s)
  /\ Publish(s)
  /\ UNCHANGED <<streams, consumer, conn, bound, schedVars, mainVars, runVars, handled>>

\* A callback acknowledges its message.  That of an intent and that of a price
\* the exit monitor handles may publish an execution.
Handle(c) ==
  /\ c \in bound \cap unread
  /\ handled' = handled \cup {c}
  /\ \/ /\ unread' = unread \ {c}
        /\ UNCHANGED published
     \/ /\ c \in {<<"risk", "intent">>, <<"trader", "price">>}
        /\ InScope("execute")
        /\ published' = published \cup {"execute"}
        /\ unread' = (unread \ {c}) \cup Receivers("execute")
  /\ UNCHANGED <<streams, consumer, conn, bound, schedVars, mainVars, runVars>>

\* The scheduler's goroutine.
Tick ==
  /\ TimerFires \/ SendTick
  /\ UNCHANGED <<natsVars, mainVars, runVars, handled>>

SchedulerEnds ==
  /\ run["sentiment"] = "leaving"
  /\ HearStop
  /\ UNCHANGED <<natsVars, mainVars, runVars, handled>>

\* A tick, and runCycle begins.  Its calls look at no stop channel, and their context is
\* never cancelled.
StartCycle ==
  /\ run["sentiment"] = "ready"
  /\ TakeTick
  /\ run' = [run EXCEPT !["sentiment"] = "calling"]
  /\ UNCHANGED <<natsVars, mainVars, at, stopped, handles, handled>>

\* runCycle returns.  Fetch asks without a timeout, so nothing makes it.
EndCycle ==
  /\ run["sentiment"] = "calling"
  /\ run' = [run EXCEPT !["sentiment"] = "ready"]
  /\ UNCHANGED <<natsVars, schedVars, mainVars, at, stopped, handles, handled>>
-----------------------------------------------------------------------------
MainStep ==
  \/ Boot
  \/ Migrate
  \/ \E a \in Agents : Construct(a) \/ SignalStop(a) \/ FinishStop(a)
  \/ Exit

RunStep(a) ==
  \/ Ensure(a)
  \/ EnsureFails(a)
  \/ SubscribeNext(a)
  \/ SubscribeFails(a)
  \/ Leave(a)
  \/ UnsubscribeNext(a)
  \/ Return(a)

Next ==
  \/ MainStep
  \/ Crash
  \/ Signal
  \/ \E a \in Agents : RunStep(a)
  \/ \E s \in {"intent", "price"} : ScoutPublishes(s)
  \/ \E c \in Consumers : Handle(c)
  \/ Tick
  \/ SchedulerEnds
  \/ StartCycle
  \/ EndCycle

Spec == Init /\ [][Next]_vars

\* The container is started again, goroutines with work are scheduled, calls end but for
\* those of a sentiment cycle, and a select whose stop channel is closed takes it some time.
Fairness ==
  /\ WF_vars(MainStep)
  /\ \A a \in Agents : WF_vars(RunStep(a))
  /\ SF_vars(Leave("sentiment"))
  /\ \A c \in Consumers : WF_vars(Handle(c))
  /\ WF_vars(SchedulerEnds)

FairSpec == Spec /\ Fairness
-----------------------------------------------------------------------------
(* Properties. *)

\* The types; a subscription lives on an open connection.
TypeOK ==
  /\ NatsTypeOK
  /\ \A c \in bound : conn[c[1]] = "open"
  /\ sched \in SchedulerState
  /\ tick \in BOOLEAN
  /\ system \in Systems
  /\ main \in MainState
  /\ next \in 1..(IF main = "migrating" THEN Migrations ELSE Len(Table))
  /\ schema \in 0..Migrations
  /\ run \in [Agents -> RunState]
  /\ at \in [Agents -> 0..2]
  /\ stopped \in [Agents -> BOOLEAN]
  /\ handles \in [Agents -> SUBSET {"db", "archive"}]
  /\ \A a \in Agents : handles[a] \subseteq Opens(a)
  /\ handled \subseteq Consumers
  /\ crashes \in 0..MaxCrashes

\* The agents that publish what an agent consumes.  The trader's own exit monitor,
\* which publishes executions as well, is left out.
Feeds(a) == CASE a = "risk"     -> {"scout"}
              [] a = "trader"   -> {"scout", "risk"}
              [] a = "recorder" -> {"scout"}
              [] OTHER          -> {}

\* An agent is told to stop, and so may delete its consumers, only when those that
\* feed it can publish no more: the order of the table, and Stop closing the
\* connection before main goes on to the next agent.
UpstreamIsSilent ==
  \A a \in Agents : stopped[a] => \A f \in Feeds(a) : conn[f] # "open"

\* An agent runs on the whole schema only, also after boots that failed between
\* two migrations.  Trader and recorder keep their connection, their database
\* and their archive until their Run is over, whatever main does meanwhile.
RunHasItsHandles ==
  \A a \in Agents :
    /\ run[a] # "none" => schema = Migrations
    /\ a \in {"trader", "recorder"} /\ ~Over(a) =>
         conn[a] = "open" /\ handles[a] = Opens(a)

\* The inductive invariant behind these.  An agent that main has not constructed, or
\* that is not in the table, has no connection.
NoneIsConnected ==
  /\ main \in {"down", "migrating"} => \A a \in Agents : run[a] = "none"
  /\ main = "boot" => \A i \in DOMAIN Table : i >= next => run[Table[i]] = "none"
  /\ \A a \in Agents :
       /\ (\A i \in DOMAIN Table : Table[i] # a) => run[a] = "none"
       /\ run[a] = "none" => conn[a] # "open"

\* The schema grows with the boot and is whole when the constructors begin.
SchemaIsReady ==
  /\ main = "migrating" => schema + 1 >= next
  /\ main \notin {"down", "migrating"} => schema = Migrations

\* Agents are stopped during a shutdown only, and main leaves none of those before the
\* one it works on with a connection that they are to close.
StoppedInOrder ==
  /\ main = "serving" => next = 1
  /\ \A a \in Agents : stopped[a] => main \in {"stopping", "joining"}
  /\ main = "stopping" =>
       \A i \in DOMAIN Table : i < next /\ ClosesConn(Table[i]) => conn[Table[i]] # "open"

\* A Run that makes subscriptions has one to make, and is at the first when it begins.
AtASubscription ==
  \A a \in Agents :
    /\ run[a] \in {"none", "launched", "ready", "calling"} => at[a] = 0
    /\ run[a] = "ensured" => at[a] < Len(Subscribes(a))

\* A Run that has ensured its stream, and a subscription, have a stream.
StreamIsThere ==
  /\ \A a \in Agents :
       run[a] \in {"ensured", "ready", "calling", "leaving", "returned"} =>
         StreamOf(a) \in streams
  /\ bound # {} => "trading" \in streams

IInv ==
  /\ TypeOK /\ NoneIsConnected /\ SchemaIsReady /\ StoppedInOrder /\ AtASubscription
  /\ StreamIsThere /\ UpstreamIsSilent /\ RunHasItsHandles

\* Nothing is published before its stream exists: every agent ensures the stream
\* before it starts anything that publishes, in whichever order they are scheduled.
PublishedOnAStream == [][published' # published => "trading" \in streams]_vars

\* The mail of a consumer that outlived the process it was made in is lost to
\* nothing: it goes when a callback has read it.  Restarts, late subscriptions
\* and further shutdowns leave it there.
FoundMailSurvives ==
  [][\A c \in unread \ unread' : consumer[c] = "found" => c \in handled']_vars

\* An agent that gave up reading: its Run, or this one subscription, failed.
Deaf(c) ==
  \/ run[c[1]] = "failed"
  \/ run[c[1]] = "ready" /\ c \notin bound

\* A message that reached a consumer is read in the end, by this process or a
\* later one, unless the process is told to stop or the agent gave up.
MailIsRead ==
  \A c \in Consumers :
    (c \in unread) ~> (c \in handled \/ main \in {"stopping", "joining"} \/ Deaf(c))

\* The graceful shutdown of main.go:96-102, with each Stop "unblocking Run()" (sentiment
\* agent.go:144-145).
ShutdownCompletes == (main \in {"stopping", "joining"}) ~> (main = "down")

\* It is a promise under a condition, as the request for the news has no timeout and Stop
\* cancels nothing: if the calls of a sentiment cycle return, also one that the signal
\* finds under way, no Stop waits for a Run that never returns, and wg.Wait for none.
ShutdownFollowsCalls == []<>(run["sentiment"] # "calling") => ShutdownCompletes
=============================================================================
