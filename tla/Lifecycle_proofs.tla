-------------------------- MODULE Lifecycle_proofs --------------------------
(***************************************************************************)
(* Proofs about Lifecycle, for any parts of the constructor table, any     *)
(* subjects and any number of crashes.                                     *)
(***************************************************************************)
EXTENDS Lifecycle, TLAPS

-----------------------------------------------------------------------------
(* The table and the subscriptions. *)

\* Each agent is in the table at one place, behind those that feed it.
LEMMA TableIsOrdered ==
  ASSUME system \in Systems
  PROVE  /\ Table \in Seq(Agents) /\ Len(Table) \in Nat \ {0}
         /\ DOMAIN Table = 1..Len(Table)
         /\ \A i \in DOMAIN Table : Table[i] \in Agents
         /\ \A i, j \in DOMAIN Table :
              /\ Table[i] = Table[j] => i = j
              /\ Table[j] \in Feeds(Table[i]) => j < i
<1>1. /\ Table \in Seq(Agents) \ {<< >>}
      /\ \A i, j \in DOMAIN Table : i < j => Place[Table[i]] < Place[Table[j]]
  BY SystemsAssumption DEF Table
<1>2. Len(Table) \in Nat \ {0} /\ DOMAIN Table = 1..Len(Table)
  BY <1>1
<1>3. \A i \in DOMAIN Table : Table[i] \in Agents
  BY <1>1, <1>2
<1>4. \A a, b \in Agents : /\ Place[a] \in Nat
                           /\ b \in Feeds(a) => Place[b] < Place[a]
  BY DEF Agents, Place, Feeds
<1>5. ASSUME NEW i \in DOMAIN Table, NEW j \in DOMAIN Table
      PROVE  /\ Table[i] = Table[j] => i = j
             /\ Table[j] \in Feeds(Table[i]) => j < i
  <2>1. i < j \/ i = j \/ j < i
    BY <1>2
  <2>2. Table[i] \in Agents /\ Table[j] \in Agents
    BY <1>3
  <2>3. Place[Table[i]] \in Nat /\ Place[Table[j]] \in Nat
    BY <1>4, <2>2
  <2> QED
    BY <1>1, <1>4, <2>1, <2>2, <2>3
<1> QED
  BY <1>1, <1>2, <1>3, <1>5

\* An agent has at most two subscriptions, and those who have any use the trading stream.
LEMMA SubscriptionsAreConsumers ==
  ASSUME NEW a \in Agents
  PROVE  /\ Len(Subscribes(a)) \in 0..2
         /\ Len(Unsubscribes(a)) \in 0..2
         /\ \A i \in 1..Len(Subscribes(a)) :
              <<a, Subscribes(a)[i]>> \in Consumers /\ StreamOf(a) = "trading"
         /\ \A i \in 1..Len(Unsubscribes(a)) : <<a, Unsubscribes(a)[i]>> \in Consumers
         /\ Subscribes(a) = << >> <=> Len(Subscribes(a)) = 0
<1> DEFINE both(s, t) == IfInScope(s) \o IfInScope(t)
<1>1. \A s : /\ Len(IfInScope(s)) \in 0..1
             /\ \A i \in 1..Len(IfInScope(s)) : IfInScope(s)[i] = s
             /\ IfInScope(s) = << >> <=> Len(IfInScope(s)) = 0
  BY DEF IfInScope
<1>2. ASSUME NEW s, NEW t
      PROVE  /\ Len(both(s, t)) \in 0..2
             /\ \A i \in 1..Len(both(s, t)) : both(s, t)[i] \in {s, t}
             /\ both(s, t) = << >> <=> Len(both(s, t)) = 0
  <2>1. CASE InScope(s) /\ InScope(t)
    BY <2>1 DEF IfInScope
  <2>2. CASE InScope(s) /\ ~InScope(t)
    BY <2>2 DEF IfInScope
  <2>3. CASE ~InScope(s) /\ InScope(t)
    BY <2>3 DEF IfInScope
  <2>4. CASE ~InScope(s) /\ ~InScope(t)
    BY <2>4 DEF IfInScope
  <2> QED
    BY <2>1, <2>2, <2>3, <2>4
<1> HIDE DEF both
<1>3. CASE a = "risk"
  <2>1. Subscribes(a) = both("intent", "price") /\ Unsubscribes(a) = IfInScope("intent")
    BY <1>3 DEF both, Subscribes, Unsubscribes
  <2> QED
    BY <1>1, <1>2, <1>3, <2>1 DEF Consumers, StreamOf
<1>4. CASE a = "trader"
  <2>1. Subscribes(a) = both("execute", "price") /\ Unsubscribes(a) = Subscribes(a)
    BY <1>4 DEF both, Subscribes, Unsubscribes
  <2> QED
    BY <1>2, <1>4, <2>1 DEF Consumers, StreamOf
<1>5. CASE a = "recorder"
  <2>1. Subscribes(a) = IfInScope("price") /\ Unsubscribes(a) = Subscribes(a)
    BY <1>5 DEF Subscribes, Unsubscribes
  <2> QED
    BY <1>1, <1>5, <2>1 DEF Consumers, StreamOf
<1>6. CASE a \notin {"risk", "trader", "recorder"}
  <2>1. Subscribes(a) = << >> /\ Unsubscribes(a) = << >>
    BY <1>6 DEF Subscribes, Unsubscribes
  <2> QED
    BY <2>1
<1> QED
  BY <1>3, <1>4, <1>5, <1>6

\* What depends on the system only never changes.
LEMMA SystemStays ==
  ASSUME system' = system
  PROVE  /\ Table' = Table
         /\ \A a : Subscribes(a)' = Subscribes(a) /\ Unsubscribes(a)' = Unsubscribes(a)
BY DEF Table, Subscribes, Unsubscribes, IfInScope, InScope
-----------------------------------------------------------------------------
(* The inductive invariant. *)

LEMMA InitIInv == Init => IInv
<1> SUFFICES ASSUME Init PROVE IInv
  OBVIOUS
<1>1. NatsTypeOK
  BY DEF Init, NatsInit, NatsTypeOK, Origin, Conn
<1>2. TypeOK
  <2>1. sched \in SchedulerState /\ handled \subseteq Consumers /\ main \in MainState
    BY DEF Init, SchedulerInit, SchedulerState, MainState
  <2>2. tick \in BOOLEAN
    BY DEF Init, SchedulerInit
  <2>3. stopped \in [Agents -> BOOLEAN]
    BY DEF Init
  <2>4. /\ at \in [Agents -> 0..2] /\ crashes \in 0..MaxCrashes /\ schema \in 0..Migrations
        /\ system \in Systems
    BY MaxCrashesAssumption DEF Init, Migrations
  <2>5. main = "down" /\ next \in 1..Len(Table)
    BY <2>4, TableIsOrdered DEF Init
  <2>6. run \in [Agents -> RunState]
    BY DEF Init, RunState
  <2>7. /\ handles \in [Agents -> SUBSET {"db", "archive"}]
        /\ \A a \in Agents : handles[a] \subseteq Opens(a)
    BY DEF Init
  <2>8. bound = {}
    BY DEF Init, NatsInit
  <2> QED
    BY <1>1, <2>1, <2>2, <2>3, <2>4, <2>5, <2>6, <2>7, <2>8 DEF TypeOK
<1>3. NoneIsConnected
  BY TableIsOrdered DEF Init, NatsInit, NoneIsConnected
<1>4. SchemaIsReady /\ AtASubscription /\ StreamIsThere /\ RunHasItsHandles
  BY DEF Init, NatsInit, SchemaIsReady, AtASubscription, StreamIsThere, RunHasItsHandles,
         Over
<1>5. StoppedInOrder
  BY DEF Init, StoppedInOrder
<1>6. UpstreamIsSilent
  BY DEF Init, UpstreamIsSilent
<1> QED
  BY <1>2, <1>3, <1>4, <1>5, <1>6 DEF IInv

\* Connecting and migrating: the schema grows, no agent is there yet.
LEMMA MigrateKeeps ==
  ASSUME IInv, Boot \/ Migrate
  PROVE  IInv'
<1> USE DEF IInv
<1>1. /\ UNCHANGED <<natsVars, schedVars, runVars, handled, system, crashes>>
      /\ main \in {"down", "migrating"} /\ main' \in {"migrating", "boot"}
  BY DEF Boot, Migrate
<1>2. \A a \in Agents : run[a] = "none" /\ ~stopped[a]
  BY <1>1 DEF NoneIsConnected, StoppedInOrder
<1>3. /\ schema' \in 0..Migrations /\ SchemaIsReady'
      /\ next' \in 1..(IF main' = "migrating" THEN Migrations ELSE Len(Table))
  <2>1. Len(Table) \in Nat \ {0}
    BY TableIsOrdered DEF TypeOK
  <2>2. CASE Boot
    BY <2>1, <2>2 DEF Boot, TypeOK, SchemaIsReady, Migrations
  <2>3. CASE Migrate
    <3>1. next \in 1..Migrations /\ schema \in 0..Migrations /\ schema + 1 >= next
      BY <2>3 DEF Migrate, TypeOK, SchemaIsReady
    <3> QED
      BY <2>1, <2>3, <3>1 DEF Migrate, SchemaIsReady, Migrations
  <2> QED
    BY <2>2, <2>3, <1>1
<1>4. Table' = Table /\ \A a : Subscribes(a)' = Subscribes(a)
  BY <1>1, SystemStays
<1>5. TypeOK'
  BY <1>1, <1>3, <1>4 DEF TypeOK, NatsTypeOK, natsVars, schedVars, runVars, MainState
<1>6. NoneIsConnected' /\ StoppedInOrder' /\ UpstreamIsSilent'
  BY <1>1, <1>2, <1>4, TableIsOrdered
  DEF NoneIsConnected, StoppedInOrder, UpstreamIsSilent, natsVars, runVars, TypeOK
<1>7. AtASubscription' /\ StreamIsThere' /\ RunHasItsHandles'
  BY <1>1, <1>2, <1>4
  DEF AtASubscription, StreamIsThere, RunHasItsHandles, natsVars, runVars, Over
<1> QED
  BY <1>3, <1>5, <1>6, <1>7

\* A constructor: its agent was not there, nobody is being stopped.
LEMMA ConstructKeeps ==
  ASSUME IInv, NEW a \in Agents, Construct(a)
  PROVE  IInv'
<1> USE DEF IInv
<1>1. /\ UNCHANGED <<streams, consumer, unread, published, bound, schedVars, at, stopped,
                     handled, system, schema, crashes>>
      /\ main = "boot" /\ Table[next] = a
      /\ conn' = [conn EXCEPT ![a] = "open"]
      /\ handles' = [handles EXCEPT ![a] = Opens(a)]
      /\ run' = [run EXCEPT ![a] = "launched"]
  BY DEF Construct, ConnectJetStream
<1>2. /\ Len(Table) \in Nat \ {0} /\ DOMAIN Table = 1..Len(Table)
      /\ \A i, j \in DOMAIN Table : Table[i] = Table[j] => i = j
      /\ \A i \in DOMAIN Table : Table[i] \in Agents
      /\ next \in DOMAIN Table
  BY <1>1, TableIsOrdered DEF TypeOK
<1>3. /\ main' \in {"boot", "serving"}
      /\ main' = "boot" => next' = next + 1 /\ next # Len(Table)
      /\ next' \in 1..Len(Table)
  BY <1>1, <1>2 DEF Construct
<1>4. run[a] = "none" /\ at[a] = 0 /\ schema = Migrations /\ \A b \in Agents : ~stopped[b]
  BY <1>1, <1>2 DEF NoneIsConnected, AtASubscription, SchemaIsReady, StoppedInOrder
<1>5. Table' = Table /\ \A b : Subscribes(b)' = Subscribes(b)
  BY <1>1, SystemStays
<1>6. /\ run' \in [Agents -> RunState] /\ conn' \in [Agents -> Conn]
      /\ \A b \in Agents : /\ run'[b] = IF b = a THEN "launched" ELSE run[b]
                           /\ conn'[b] = IF b = a THEN "open" ELSE conn[b]
                           /\ handles'[b] = IF b = a THEN Opens(a) ELSE handles[b]
  BY <1>1 DEF TypeOK, NatsTypeOK, RunState, Conn
<1>7. TypeOK'
  <2>1. NatsTypeOK'
    BY <1>1, <1>6 DEF TypeOK, NatsTypeOK
  <2>2. handles' \in [Agents -> SUBSET {"db", "archive"}]
    <3>1. Opens(a) \in SUBSET {"db", "archive"}
      BY DEF Opens
    <3> QED
      BY <1>1, <3>1 DEF TypeOK
  <2>3. \A c \in bound' : conn'[c[1]] = "open"
    <3>1. \A c \in Consumers : c[1] \in Agents
      BY DEF Consumers, Agents
    <3> QED
      BY <1>1, <1>6, <3>1 DEF TypeOK, NatsTypeOK
  <2> QED
    BY <1>1, <1>3, <1>5, <1>6, <2>1, <2>2, <2>3 DEF TypeOK, MainState, schedVars
<1>8. NoneIsConnected'
  BY <1>1, <1>2, <1>3, <1>5, <1>6 DEF NoneIsConnected
<1>9. SchemaIsReady' /\ StoppedInOrder' /\ UpstreamIsSilent'
  BY <1>1, <1>2, <1>3, <1>4 DEF Construct, SchemaIsReady, StoppedInOrder, UpstreamIsSilent
<1>10. AtASubscription' /\ StreamIsThere'
  BY <1>1, <1>4, <1>5, <1>6 DEF AtASubscription, StreamIsThere
<1>11. RunHasItsHandles'
  BY <1>1, <1>4, <1>6 DEF RunHasItsHandles, Over
<1> QED
  BY <1>7, <1>8, <1>9, <1>10, <1>11

\* The end of the process takes everything but the schema and the server with it.
LEMMA ProcessEndsKeeps ==
  ASSUME IInv, Crash \/ Exit
  PROVE  IInv'
<1> USE DEF IInv
<1>1. ProcessEnds /\ crashes' \in 0..MaxCrashes
  BY MaxCrashesAssumption DEF Crash, Exit, TypeOK
<1>2. /\ UNCHANGED <<streams, unread, published, system, schema, handled>>
      /\ main' = "down" /\ next' = 1 /\ bound' = {} /\ sched' = "off"
      /\ run' = [b \in Agents |-> "none"]
      /\ conn' = [b \in Agents |-> "none"]
  BY <1>1 DEF ProcessEnds, LoseConnections
<1>3. Table' = Table /\ Len(Table) \in Nat \ {0}
  BY <1>2, SystemStays, TableIsOrdered DEF TypeOK
<1>4. NatsTypeOK'
  <2>1. consumer' = [c \in Consumers |-> IF consumer[c] = "absent" THEN "absent" ELSE "found"]
    BY <1>1 DEF ProcessEnds, LoseConnections
  <2>2. /\ consumer' \in [Consumers -> Origin]
        /\ \A c \in Consumers : consumer'[c] = "absent" <=> consumer[c] = "absent"
    BY <2>1 DEF Origin
  <2>3. conn' \in [Agents -> Conn]
    BY <1>2 DEF Conn
  <2> QED
    BY <1>2, <2>2, <2>3 DEF TypeOK, NatsTypeOK
<1>5. TypeOK'
  <2>1. /\ at' \in [Agents -> 0..2]
        /\ handles' \in [Agents -> SUBSET {"db", "archive"}]
        /\ \A b \in Agents : handles'[b] \subseteq Opens(b)
    BY <1>1 DEF ProcessEnds
  <2>2. tick' \in BOOLEAN
    BY <1>1 DEF ProcessEnds
  <2>3. stopped' \in [Agents -> BOOLEAN]
    BY <1>1 DEF ProcessEnds
  <2>4. run' \in [Agents -> RunState]
    BY <1>2 DEF RunState
  <2> QED
    BY <1>1, <1>2, <1>3, <1>4, <2>1, <2>2, <2>3, <2>4
    DEF TypeOK, MainState, SchedulerState
<1>6. NoneIsConnected' /\ SchemaIsReady' /\ RunHasItsHandles'
  BY <1>2 DEF NoneIsConnected, SchemaIsReady, RunHasItsHandles, Over
<1>7. AtASubscription' /\ StreamIsThere'
  <2>1. \A b \in Agents : at'[b] = 0
    BY <1>1 DEF ProcessEnds
  <2> QED
    BY <1>2, <2>1 DEF AtASubscription, StreamIsThere
<1>8. StoppedInOrder' /\ UpstreamIsSilent'
  <2>1. \A b \in Agents : ~stopped'[b]
    BY <1>1 DEF ProcessEnds
  <2> QED
    BY <1>2, <2>1 DEF StoppedInOrder, UpstreamIsSilent
<1> QED
  BY <1>5, <1>6, <1>7, <1>8

\* The signal, and an agent that is told to stop: those that feed it come before it in
\* the table, or are not in the table at all.
LEMMA SignalKeeps ==
  ASSUME IInv, Signal \/ \E a \in Agents : SignalStop(a)
  PROVE  IInv'
<1> USE DEF IInv
<1>1. /\ UNCHANGED <<natsVars, schedVars, run, at, handles, handled, system, next, schema,
                     crashes>>
      /\ main \in {"serving", "stopping"} /\ main' = "stopping"
  BY DEF Signal, SignalStop, runVars, mainVars
<1>2. Table' = Table /\ \A b : Subscribes(b)' = Subscribes(b)
  BY <1>1, SystemStays
<1>3. /\ Len(Table) \in Nat \ {0} /\ DOMAIN Table = 1..Len(Table)
      /\ \A i, j \in DOMAIN Table : Table[j] \in Feeds(Table[i]) => j < i
      /\ next \in DOMAIN Table
  BY <1>1, TableIsOrdered DEF TypeOK
<1>4. TypeOK' /\ stopped' \in [Agents -> BOOLEAN]
  <2>1. stopped' \in [Agents -> BOOLEAN]
    BY DEF TypeOK, Signal, SignalStop, runVars
  <2> QED
    BY <1>1, <1>2, <2>1 DEF TypeOK, NatsTypeOK, natsVars, schedVars, MainState
<1>5. NoneIsConnected' /\ SchemaIsReady' /\ RunHasItsHandles'
  BY <1>1, <1>2 DEF NoneIsConnected, SchemaIsReady, RunHasItsHandles, natsVars, Over
<1>6. AtASubscription' /\ StreamIsThere'
  BY <1>1, <1>2 DEF AtASubscription, StreamIsThere, natsVars
<1>7. CASE Signal
  <2>1. main = "serving" /\ UNCHANGED stopped /\ \A b \in Agents : ~stopped[b]
    BY <1>7 DEF Signal, runVars, StoppedInOrder
  <2>2. next = 1
    BY <2>1 DEF StoppedInOrder
  <2>3. StoppedInOrder' /\ UpstreamIsSilent'
    BY <1>1, <1>2, <1>3, <2>1, <2>2 DEF StoppedInOrder, UpstreamIsSilent
  <2> QED
    BY <1>4, <1>5, <1>6, <2>3
<1>8. ASSUME NEW a \in Agents, SignalStop(a)
      PROVE  IInv'
  <2>1. main = "stopping" /\ Table[next] = a /\ stopped' = [stopped EXCEPT ![a] = TRUE]
    BY <1>8 DEF SignalStop, StopOrder
  <2>2. \A f \in Feeds(a) : f \in Agents /\ ClosesConn(f)
    BY DEF Feeds, Agents, ClosesConn
  <2>3. \A f \in Feeds(a) : conn[f] # "open"
    <3> SUFFICES ASSUME NEW f \in Feeds(a) PROVE conn[f] # "open"
      OBVIOUS
    <3>1. CASE \A i \in DOMAIN Table : Table[i] # f
      BY <2>2, <3>1 DEF NoneIsConnected
    <3>2. ASSUME NEW i \in DOMAIN Table, Table[i] = f
          PROVE  conn[f] # "open"
      BY <1>3, <2>1, <2>2, <3>2 DEF StoppedInOrder
    <3> QED
      BY <3>1, <3>2
  <2>4. UpstreamIsSilent'
    BY <1>1, <2>1, <2>3 DEF UpstreamIsSilent, natsVars, TypeOK
  <2>5. StoppedInOrder'
    BY <1>1, <1>2, <2>1 DEF StoppedInOrder, natsVars
  <2> QED
    BY <1>4, <1>5, <1>6, <2>4, <2>5
<1> QED
  BY <1>7, <1>8

\* The rest of Stop: the connection is closed, unless it is the recorder's, and trader and
\* recorder have come to their end before.
LEMMA FinishStopKeeps ==
  ASSUME IInv, NEW a \in Agents, FinishStop(a)
  PROVE  IInv'
<1> USE DEF IInv
<1>1. /\ UNCHANGED <<streams, consumer, unread, published, schedVars, run, at, stopped,
                     handled, system, schema, crashes>>
      /\ main = "stopping" /\ Table[next] = a /\ (WaitsForRun(a) => Over(a))
      /\ handles' = [handles EXCEPT ![a] = @ \ {"db"}]
  BY DEF FinishStop, StopOrder
<1>2. /\ conn' = (IF ClosesConn(a) THEN [conn EXCEPT ![a] = "closed"] ELSE conn)
      /\ bound' = (IF ClosesConn(a) THEN {c \in bound : c[1] # a} ELSE bound)
  BY DEF FinishStop, CloseConn
<1>3. /\ Len(Table) \in Nat \ {0} /\ DOMAIN Table = 1..Len(Table)
      /\ next \in DOMAIN Table
  BY <1>1, TableIsOrdered DEF TypeOK
<1>4. /\ main' \in {"stopping", "joining"} /\ next' \in 1..Len(Table)
      /\ main' = "stopping" => next' = next + 1
  BY <1>1, <1>3 DEF FinishStop
<1>5. Table' = Table /\ \A b : Subscribes(b)' = Subscribes(b)
  BY <1>1, SystemStays
<1>6. /\ conn' \in [Agents -> Conn]
      /\ \A b \in Agents : conn'[b] = IF b = a /\ ClosesConn(a) THEN "closed" ELSE conn[b]
      /\ \A b \in Agents : handles'[b] = IF b = a THEN handles[b] \ {"db"} ELSE handles[b]
  BY <1>1, <1>2 DEF TypeOK, NatsTypeOK, Conn
<1>7. TypeOK'
  <2>1. NatsTypeOK' /\ bound' \subseteq bound
    BY <1>1, <1>2, <1>6 DEF TypeOK, NatsTypeOK
  <2>2. \A c \in bound' : conn'[c[1]] = "open"
    <3>1. \A c \in Consumers : c[1] \in Agents
      BY DEF Consumers, Agents
    <3>2. bound \subseteq Consumers
      BY DEF TypeOK, NatsTypeOK
    <3> QED
      BY <1>2, <1>6, <3>1, <3>2 DEF TypeOK
  <2>3. /\ handles' \in [Agents -> SUBSET {"db", "archive"}]
        /\ \A b \in Agents : handles'[b] \subseteq Opens(b)
    BY <1>1, <1>6 DEF TypeOK
  <2> QED
    BY <1>1, <1>4, <1>5, <2>1, <2>2, <2>3 DEF TypeOK, MainState, schedVars
<1>8. NoneIsConnected'
  BY <1>1, <1>4, <1>5, <1>6 DEF NoneIsConnected
<1>9. SchemaIsReady'
  BY <1>1, <1>4 DEF SchemaIsReady
<1>10. StoppedInOrder' /\ UpstreamIsSilent'
  <2>1. \A b \in Agents : conn[b] # "open" => conn'[b] # "open"
    BY <1>6
  <2>2. ClosesConn(a) => conn'[a] # "open"
    BY <1>6
  <2>3. StoppedInOrder'
    BY <1>1, <1>3, <1>4, <1>5, <2>1, <2>2, TableIsOrdered DEF StoppedInOrder, TypeOK
  <2>4. \A b \in Agents : Feeds(b) \subseteq Agents
    BY DEF Feeds, Agents
  <2>5. UpstreamIsSilent'
    BY <1>1, <2>1, <2>4 DEF UpstreamIsSilent
  <2> QED
    BY <2>3, <2>5
<1>11. AtASubscription' /\ StreamIsThere'
  BY <1>1, <1>2, <1>5 DEF AtASubscription, StreamIsThere
<1>12. RunHasItsHandles'
  BY <1>1, <1>6 DEF RunHasItsHandles, Over, WaitsForRun
<1> QED
  BY <1>7, <1>8, <1>9, <1>10, <1>11, <1>12

\* A step of a Run leaves main and what it has stopped alone.
LEMMA RunLeavesMain ==
  ASSUME NEW a \in Agents, RunStep(a)
  PROVE  UNCHANGED <<published, conn, mainVars, stopped, handled>>
BY DEF RunStep, Ensure, EnsureFails, SubscribeNext, SubscribeFails, Leave, UnsubscribeNext,
       Return, EnsureStream, Subscribe, Unsubscribe, NextSubscription, natsVars

\* What such a step must do for the invariant.
LEMMA RunStepKeeps ==
  ASSUME IInv, NEW a \in Agents, RunStep(a),
         NatsTypeOK', \A c \in bound' \ bound : conn[c[1]] = "open",
         sched' \in SchedulerState, tick' \in BOOLEAN,
         ~Over(a), run' = [run EXCEPT ![a] = run'[a]], run'[a] \in RunState \ {"none"},
         at' = [at EXCEPT ![a] = at'[a]], at'[a] \in 0..2,
         run'[a] = "ready" => at'[a] = 0,
         run'[a] = "ensured" => at'[a] < Len(Subscribes(a)),
         run'[a] # "launched",
         handles' = [handles EXCEPT ![a] = handles'[a]], handles'[a] \subseteq handles[a],
         run'[a] \notin {"returned", "failed"} => handles'[a] = handles[a],
         streams \subseteq streams',
         run'[a] \notin {"launched", "failed", "calling"} => StreamOf(a) \in streams',
         run'[a] # "calling",
         bound' # {} => "trading" \in streams'
  PROVE  IInv'
<1> USE DEF IInv, mainVars
<1>1. UNCHANGED <<published, conn, system, main, next, schema, crashes, stopped, handled>>
  BY RunLeavesMain
<1>2. /\ run' \in [Agents -> RunState]
      /\ \A b \in Agents : b # a => run'[b] = run[b]
  BY DEF TypeOK
<1> USE DEF Over
<1>3. /\ at' \in [Agents -> 0..2]
      /\ \A b \in Agents : b # a => at'[b] = at[b]
  BY DEF TypeOK
<1>4. /\ handles' \in [Agents -> SUBSET {"db", "archive"}]
      /\ \A b \in Agents : handles'[b] \subseteq Opens(b) /\ (b # a => handles'[b] = handles[b])
  BY DEF TypeOK
<1>5. Table' = Table /\ \A b : Subscribes(b)' = Subscribes(b)
  BY <1>1, SystemStays
<1>6. TypeOK'
  BY <1>1, <1>2, <1>3, <1>4, <1>5 DEF TypeOK
<1>7. NoneIsConnected'
  BY <1>1, <1>2, <1>5, TableIsOrdered DEF NoneIsConnected, TypeOK
<1>8. SchemaIsReady' /\ StoppedInOrder' /\ UpstreamIsSilent'
  BY <1>1, <1>5 DEF SchemaIsReady, StoppedInOrder, UpstreamIsSilent
<1>9. AtASubscription' /\ StreamIsThere'
  BY <1>2, <1>3, <1>5 DEF AtASubscription, StreamIsThere
<1>10. RunHasItsHandles'
  BY <1>1, <1>2, <1>4 DEF RunHasItsHandles, Over
<1> QED
  BY <1>6, <1>7, <1>8, <1>9, <1>10

LEMMA EnsureKeeps ==
  ASSUME IInv, NEW a \in Agents, Ensure(a) \/ EnsureFails(a)
  PROVE  IInv'
<1> USE DEF IInv
<1>1. /\ RunStep(a) /\ run[a] = "launched" /\ ~Over(a)
      /\ UNCHANGED <<consumer, unread, published, conn, bound, at, handles>>
  BY DEF RunStep, Ensure, EnsureFails, EnsureStream, natsVars, Over
<1>2. /\ at[a] = 0 /\ at[a] \in 0..2 /\ at = [at EXCEPT ![a] = at[a]]
      /\ handles = [handles EXCEPT ![a] = handles[a]]
      /\ Len(Subscribes(a)) \in Nat /\ (Subscribes(a) # << >> => 0 < Len(Subscribes(a)))
  BY <1>1, SubscriptionsAreConsumers DEF TypeOK, AtASubscription
<1>3. CASE Ensure(a)
  <2>1. /\ run'[a] = (IF Subscribes(a) = << >> THEN "ready" ELSE "ensured")
        /\ run' = [run EXCEPT ![a] = run'[a]]
        /\ streams' = streams \cup {StreamOf(a)}
    BY <1>3 DEF Ensure, EnsureStream, TypeOK
  <2>2. NatsTypeOK' /\ streams \subseteq streams' /\ StreamOf(a) \in streams'
    BY <1>1, <2>1 DEF TypeOK, NatsTypeOK, StreamOf, Streams
  <2>3. sched' \in SchedulerState
    BY <1>3 DEF Ensure, StartScheduler, schedVars, TypeOK, SchedulerState
  <2>4. tick' \in BOOLEAN
    BY <1>3 DEF Ensure, StartScheduler, schedVars, TypeOK
  <2>5. run'[a] \in {"ready", "ensured"} /\ (run'[a] = "ensured" => at'[a] < Len(Subscribes(a)))
    BY <1>1, <1>2, <2>1
  <2>6. bound' # {} => "trading" \in streams'
    BY <1>1, <2>2 DEF StreamIsThere
  <2> QED
    BY <1>1, <1>2, <2>1, <2>2, <2>3, <2>4, <2>5, <2>6, RunStepKeeps DEF RunState
<1>4. CASE EnsureFails(a)
  <2>1. /\ run'[a] = "failed" /\ run' = [run EXCEPT ![a] = run'[a]]
        /\ UNCHANGED <<streams, sched, tick>>
    BY <1>4 DEF EnsureFails, TypeOK, natsVars, schedVars
  <2>2. NatsTypeOK'
    BY <1>1, <2>1 DEF TypeOK, NatsTypeOK
  <2> QED
    BY <1>1, <1>2, <2>1, <2>2, RunStepKeeps DEF TypeOK, RunState, StreamIsThere
<1> QED
  BY <1>3, <1>4

LEMMA SubscribeKeeps ==
  ASSUME IInv, NEW a \in Agents, SubscribeNext(a) \/ SubscribeFails(a)
  PROVE  IInv'
<1> USE DEF IInv
<1> DEFINE sub == <<a, Subscribes(a)[at[a] + 1]>>
<1>1. /\ RunStep(a) /\ run[a] = "ensured" /\ ~Over(a)
      /\ UNCHANGED <<streams, published, conn, sched, tick, handles>>
  BY DEF RunStep, SubscribeNext, SubscribeFails, Subscribe, natsVars, schedVars, Over
<1>2. /\ at[a] \in 0..2 /\ Len(Subscribes(a)) \in 0..2 /\ at[a] < Len(Subscribes(a))
      /\ sub \in Consumers /\ sub[1] = a /\ StreamOf(a) = "trading"
      /\ "trading" \in streams
      /\ handles = [handles EXCEPT ![a] = handles[a]]
      /\ at = [at EXCEPT ![a] = at[a]]
  BY <1>1, SubscriptionsAreConsumers DEF TypeOK, AtASubscription, StreamIsThere
<1>3. /\ run' = [run EXCEPT ![a] = run'[a]] /\ run'[a] \in {"ready", "ensured", "failed"}
      /\ at' = [at EXCEPT ![a] = at'[a]] /\ at'[a] \in 0..2
      /\ run'[a] = "ready" => at'[a] = 0
      /\ run'[a] = "ensured" => at'[a] < Len(Subscribes(a))
  <2>1. CASE NextSubscription(a)
    <3>1. CASE at[a] + 1 = Len(Subscribes(a))
      BY <1>1, <1>2, <2>1, <3>1 DEF NextSubscription, TypeOK
    <3>2. CASE at[a] + 1 # Len(Subscribes(a))
      BY <1>1, <1>2, <2>1, <3>2 DEF NextSubscription, TypeOK
    <3> QED
      BY <3>1, <3>2
  <2>2. CASE run' = [run EXCEPT ![a] = "failed"] /\ UNCHANGED at
    BY <1>2, <2>2 DEF TypeOK
  <2> QED
    BY <2>1, <2>2 DEF SubscribeNext, SubscribeFails
<1>4. NatsTypeOK' /\ \A d \in bound' \ bound : conn[d[1]] = "open"
  <2>1. CASE SubscribeNext(a)
    <3>1. /\ conn[a] = "open" /\ bound' = bound \cup {sub} /\ UNCHANGED unread
          /\ consumer' = [consumer EXCEPT ![sub] = IF @ = "absent" THEN "created" ELSE @]
      BY <2>1 DEF SubscribeNext, Subscribe
    <3>2. /\ consumer' \in [Consumers -> Origin]
          /\ consumer'[sub] # "absent"
          /\ \A d \in Consumers : consumer[d] # "absent" => consumer'[d] # "absent"
      BY <1>2, <3>1 DEF TypeOK, NatsTypeOK, Origin
    <3> HIDE DEF sub
    <3>3. NatsTypeOK'
      BY <1>1, <1>2, <3>1, <3>2 DEF TypeOK, NatsTypeOK
    <3>4. \A d \in bound' \ bound : conn[d[1]] = "open"
      BY <1>2, <3>1
    <3> QED
      BY <3>3, <3>4
  <2>2. CASE SubscribeFails(a)
    BY <2>2 DEF SubscribeFails, natsVars, TypeOK, NatsTypeOK
  <2> QED
    BY <2>1, <2>2
<1> HIDE DEF sub
<1> QED
  BY <1>1, <1>2, <1>3, <1>4, RunStepKeeps DEF TypeOK, RunState

LEMMA LeaveKeeps ==
  ASSUME IInv, NEW a \in Agents, Leave(a) \/ UnsubscribeNext(a) \/ Return(a)
  PROVE  IInv'
<1> USE DEF IInv
<1>1. /\ RunStep(a) /\ run[a] \in {"ready", "leaving"} /\ ~Over(a)
      /\ UNCHANGED <<streams, published, conn, sched, tick>>
      /\ StreamOf(a) \in streams
  BY DEF RunStep, Leave, UnsubscribeNext, Return, Unsubscribe, natsVars, schedVars, Over,
         StreamIsThere
<1>2. /\ run' = [run EXCEPT ![a] = run'[a]] /\ run'[a] \in {"leaving", "returned"}
      /\ handles' = [handles EXCEPT ![a] = handles'[a]] /\ handles'[a] \subseteq handles[a]
      /\ run'[a] # "returned" => handles'[a] = handles[a]
  BY DEF Leave, UnsubscribeNext, Return, TypeOK
<1>3. at' = [at EXCEPT ![a] = at'[a]] /\ at'[a] \in 0..2
  <2>1. Len(Unsubscribes(a)) \in 0..2 /\ at[a] \in 0..2
    BY SubscriptionsAreConsumers DEF TypeOK
  <2> QED
    BY <2>1 DEF Leave, UnsubscribeNext, Return, TypeOK
<1>4. NatsTypeOK' /\ bound' \subseteq bound
  <2>1. CASE UnsubscribeNext(a)
    <3> DEFINE sub == <<a, Unsubscribes(a)[at[a] + 1]>>
    <3>1. Unsubscribe(sub)
      BY <2>1 DEF UnsubscribeNext
    <3> HIDE DEF sub
    <3>2. bound' = bound \ {sub} /\ unread' \subseteq unread
      BY <3>1 DEF Unsubscribe
    <3>3. /\ consumer' \in [Consumers -> Origin]
          /\ \A d \in Consumers : consumer'[d] = consumer[d] \/ (d = sub /\ d \notin unread')
      <4>1. CASE UNCHANGED <<consumer, unread>>
        BY <4>1 DEF TypeOK, NatsTypeOK
      <4>2. CASE consumer' = [consumer EXCEPT ![sub] = "absent"] /\ unread' = unread \ {sub}
        BY <4>2 DEF TypeOK, NatsTypeOK, Origin
      <4> QED
        BY <3>1, <4>1, <4>2 DEF Unsubscribe
    <3> QED
      BY <1>1, <3>2, <3>3 DEF TypeOK, NatsTypeOK
  <2>2. CASE Leave(a) \/ Return(a)
    BY <2>2 DEF Leave, Return, natsVars, TypeOK, NatsTypeOK
  <2> QED
    BY <2>1, <2>2
<1> QED
  BY <1>1, <1>2, <1>3, <1>4, RunStepKeeps DEF TypeOK, RunState, StreamIsThere

\* What the agents do meanwhile: mail comes and goes, and the scheduler ticks.
LEMMA WorkKeeps ==
  ASSUME IInv,
         \/ \E s \in {"intent", "price"} : ScoutPublishes(s)
         \/ \E c \in Consumers : Handle(c)
         \/ Tick \/ SchedulerEnds
  PROVE  IInv'
<1> USE DEF IInv
<1>1. UNCHANGED <<streams, consumer, conn, bound, mainVars, runVars>>
  BY DEF ScoutPublishes, Publish, Handle, Tick, SchedulerEnds, natsVars
<1>2. Table' = Table /\ \A b : Subscribes(b)' = Subscribes(b)
  BY <1>1, SystemStays DEF mainVars
<1>3. NatsTypeOK' /\ handled' \subseteq Consumers
  <2>1. unread' \subseteq unread \cup {c \in Consumers : consumer[c] # "absent"}
    BY DEF ScoutPublishes, Publish, Handle, Tick, SchedulerEnds, natsVars,
           Receivers
  <2>2. published' \subseteq Subjects /\ handled' \subseteq Consumers
    BY DEF TypeOK, NatsTypeOK, ScoutPublishes, Publish, Handle, Tick, SchedulerEnds,
           natsVars, Subjects
  <2> QED
    BY <1>1, <2>1, <2>2 DEF TypeOK, NatsTypeOK
<1>4. sched' \in SchedulerState
  BY DEF TypeOK, ScoutPublishes, Handle, Tick, SchedulerEnds, schedVars,
         TimerFires, SendTick, HearStop, TakeTick, SchedulerState
<1>5. tick' \in BOOLEAN
  BY DEF TypeOK, ScoutPublishes, Handle, Tick, SchedulerEnds, schedVars,
         TimerFires, SendTick, HearStop, TakeTick
<1>6. TypeOK'
  BY <1>1, <1>2, <1>3, <1>4, <1>5 DEF TypeOK, mainVars, runVars
<1>7. NoneIsConnected' /\ SchemaIsReady' /\ StoppedInOrder'
  BY <1>1, <1>2 DEF NoneIsConnected, SchemaIsReady, StoppedInOrder, mainVars, runVars
<1>8. AtASubscription' /\ StreamIsThere' /\ UpstreamIsSilent' /\ RunHasItsHandles'
  BY <1>1, <1>2
  DEF AtASubscription, StreamIsThere, UpstreamIsSilent, RunHasItsHandles, Over, mainVars,
      runVars
<1> QED
  BY <1>6, <1>7, <1>8

\* A sentiment cycle begins and ends in a Run that has its stream and no subscription.
LEMMA CycleKeeps ==
  ASSUME IInv, StartCycle \/ EndCycle
  PROVE  IInv'
<1> USE DEF IInv
<1> DEFINE a == "sentiment"
<1>1. /\ UNCHANGED <<natsVars, mainVars, at, stopped, handles, handled>>
      /\ run[a] \in {"ready", "calling"} /\ a \in Agents
      /\ \E r \in {"ready", "calling"} : run' = [run EXCEPT ![a] = r]
  BY DEF StartCycle, EndCycle, Agents
<1>2. Table' = Table /\ \A b : Subscribes(b)' = Subscribes(b)
  BY <1>1, SystemStays DEF mainVars
<1>3. run' \in [Agents -> RunState]
  BY <1>1 DEF TypeOK, RunState
<1>4. run'[a] \in {"ready", "calling"} /\ \A b \in Agents : b # a => run'[b] = run[b]
  BY <1>1 DEF TypeOK
<1> HIDE DEF a
<1>5. sched' \in SchedulerState /\ tick' \in BOOLEAN
  BY DEF TypeOK, StartCycle, EndCycle, schedVars, TakeTick
<1>6. TypeOK'
  BY <1>1, <1>2, <1>3, <1>5 DEF TypeOK, NatsTypeOK, natsVars, mainVars
<1>7. SchemaIsReady' /\ StoppedInOrder' /\ UpstreamIsSilent'
  BY <1>1, <1>2 DEF SchemaIsReady, StoppedInOrder, UpstreamIsSilent, natsVars, mainVars
<1>8. NoneIsConnected'
  <2>1. \A b \in Agents : run'[b] = "none" <=> run[b] = "none"
    BY <1>1, <1>4
  <2>2. \A i \in DOMAIN Table : Table[i] \in Agents
    BY TableIsOrdered DEF TypeOK
  <2> QED
    BY <1>1, <1>2, <2>1, <2>2 DEF NoneIsConnected, natsVars, mainVars
<1>9. AtASubscription' /\ StreamIsThere'
  <2>1. at[a] = 0 /\ StreamOf(a) \in streams
    BY <1>1 DEF AtASubscription, StreamIsThere
  <2> QED
    BY <1>1, <1>2, <1>4, <2>1 DEF AtASubscription, StreamIsThere, natsVars
<1>10. RunHasItsHandles'
  <2>1. \A b \in Agents : /\ run'[b] = "none" <=> run[b] = "none"
                          /\ Over(b)' <=> Over(b)
    BY <1>1, <1>4 DEF Over
  <2> QED
    BY <1>1, <2>1 DEF RunHasItsHandles, natsVars, mainVars
<1> QED
  BY <1>6, <1>7, <1>8, <1>9, <1>10

LEMMA NextIInv == IInv /\ [Next]_vars => IInv'
<1> SUFFICES ASSUME IInv, [Next]_vars PROVE IInv'
  OBVIOUS
<1>1. CASE MainStep \/ Crash \/ Signal
  BY <1>1, MigrateKeeps, ConstructKeeps, SignalKeeps, FinishStopKeeps, ProcessEndsKeeps
  DEF MainStep
<1>2. ASSUME NEW a \in Agents, RunStep(a)
      PROVE  IInv'
  BY <1>2, EnsureKeeps, SubscribeKeeps, LeaveKeeps DEF RunStep
<1>3. CASE \/ \E s \in {"intent", "price"} : ScoutPublishes(s)
           \/ \E c \in Consumers : Handle(c)
           \/ Tick \/ SchedulerEnds
  BY <1>3, WorkKeeps
<1>4. CASE StartCycle \/ EndCycle
  BY <1>4, CycleKeeps
<1>5. CASE UNCHANGED vars
  BY <1>5 DEF vars, natsVars, schedVars, mainVars, runVars, IInv, TypeOK, NatsTypeOK,
              NoneIsConnected, SchemaIsReady, StoppedInOrder, AtASubscription,
              StreamIsThere, UpstreamIsSilent, RunHasItsHandles, Over, Table, Subscribes,
              IfInScope, InScope
<1> QED
  BY <1>1, <1>2, <1>3, <1>4, <1>5 DEF Next

\* The inductive invariant holds for any part of the table, any subjects and any number
\* of crashes.
THEOREM Invariance == Spec => []IInv
BY InitIInv, NextIInv, PTL DEF Spec

\* Type correctness; a subscription lives on an open connection.
THEOREM TypeCorrect == Spec => []TypeOK
BY Invariance, PTL DEF IInv

\* When an agent is told to stop, the connections of the agents that feed it are closed:
\* main.go stops them in the order of its table, and Stop closes the connection before
\* main goes on.
THEOREM UpstreamFirst == Spec => []UpstreamIsSilent
BY Invariance, PTL DEF IInv

\* An agent runs on the whole schema, and trader and recorder keep what their Run works
\* with until it is over (trader/agent.go and recorder.go: Stop waits for Run).
THEOREM HandlesOutliveRun == Spec => []RunHasItsHandles
BY Invariance, PTL DEF IInv

\* What is published is published by the scout, after its Run has ensured the stream, or
\* by a callback of a subscription, which is on that stream.
LEMMA PublishedOnAStreamStep ==
  IInv /\ [Next]_vars => (published' # published => "trading" \in streams)
<1> SUFFICES ASSUME IInv, [Next]_vars, published' # published
             PROVE  "trading" \in streams
  OBVIOUS
<1>1. CASE \E s \in {"intent", "price"} : ScoutPublishes(s)
  <2>1. run["scout"] \in {"ready", "leaving", "returned"}
    BY <1>1 DEF ScoutPublishes, ScoutWorks
  <2> QED
    BY <2>1 DEF IInv, StreamIsThere, StreamOf, Agents
<1>2. CASE \E c \in Consumers : Handle(c)
  BY <1>2 DEF Handle, IInv, StreamIsThere
<1>3. CASE UNCHANGED published
  BY <1>3
<1>4. CASE MainStep \/ Crash \/ Signal
  BY <1>3, <1>4
  DEF MainStep, Crash, Signal, Boot, Migrate, Construct, SignalStop, FinishStop, Exit,
      ProcessEnds, LoseConnections, natsVars
<1>5. CASE \E a \in Agents : RunStep(a)
  BY <1>3, <1>5
  DEF RunStep, Ensure, EnsureStream, EnsureFails, SubscribeNext, Subscribe, SubscribeFails,
      Leave, UnsubscribeNext, Unsubscribe, Return, natsVars
<1>6. CASE Tick \/ SchedulerEnds \/ StartCycle \/ EndCycle \/ UNCHANGED vars
  BY <1>3, <1>6 DEF Tick, SchedulerEnds, StartCycle, EndCycle, vars, natsVars
<1> QED
  BY <1>1, <1>2, <1>4, <1>5, <1>6 DEF Next

\* Nothing is published before its stream exists, in whichever order the Runs are
\* scheduled after main has launched them (EnsureStream in the Run of each agent).
THEOREM StreamBeforePublish == Spec => PublishedOnAStream
<1>1. IInv /\ [Next]_vars => [published' # published => "trading" \in streams]_vars
  BY PublishedOnAStreamStep
<1> QED
  BY <1>1, Invariance, PTL DEF Spec, PublishedOnAStream

\* Mail leaves a consumer in a callback, or with a consumer that this process created.
LEMMA FoundMailSurvivesStep ==
  [Next]_vars => \A c \in unread \ unread' : consumer[c] = "found" => c \in handled'
<1> SUFFICES ASSUME [Next]_vars, NEW c \in unread \ unread', consumer[c] = "found"
             PROVE  c \in handled'
  OBVIOUS
<1>1. CASE \E d \in Consumers : Handle(d)
  BY <1>1 DEF Handle
<1>2. CASE unread \subseteq unread'
  BY <1>2
<1>3. CASE MainStep \/ Crash \/ Signal
  BY <1>2, <1>3
  DEF MainStep, Crash, Signal, Boot, Migrate, Construct, SignalStop, FinishStop, Exit,
      ProcessEnds, LoseConnections, natsVars
<1>4. ASSUME NEW a \in Agents, RunStep(a)
      PROVE  c \in handled'
  <2>1. CASE UnsubscribeNext(a)
    <3>1. unread' = unread \/ \E d : consumer[d] = "created" /\ unread' = unread \ {d}
      BY <2>1 DEF UnsubscribeNext, Unsubscribe
    <3> QED
      BY <3>1
  <2>2. CASE ~UnsubscribeNext(a)
    BY <1>2, <1>4, <2>2
    DEF RunStep, Ensure, EnsureStream, EnsureFails, SubscribeNext, Subscribe,
        SubscribeFails, Leave, Return, natsVars
  <2> QED
    BY <2>1, <2>2
<1>5. CASE \/ \E s \in {"intent", "price"} : ScoutPublishes(s)
           \/ Tick \/ SchedulerEnds \/ StartCycle \/ EndCycle \/ UNCHANGED vars
  BY <1>2, <1>5
  DEF ScoutPublishes, Publish, Tick, SchedulerEnds, StartCycle, EndCycle, vars, natsVars
<1> QED
  BY <1>1, <1>3, <1>4, <1>5 DEF Next

\* The mail of a consumer that outlived its process goes only when a callback has read
\* it: no restart, late subscription or further shutdown loses it (pkg/nats Subscribe
\* with a durable name, and Unsubscribe, which deletes what it created only).
THEOREM FoundMailStays == Spec => FoundMailSurvives
BY FoundMailSurvivesStep, PTL DEF Spec, FoundMailSurvives
=============================================================================
