------------------------------ MODULE Archive ------------------------------
(***************************************************************************)
(* analysts/recorder writes the prices of signal.price.* to one file a     *)
(* day, and pkg/replay publishes such a file again.  The subscription of   *)
(* the recorder acknowledges a message once its callback has returned,     *)
(* whether the tick was stored or not.                                     *)
(*                                                                         *)
(* A message is named by its place on the stream and is its time stamp; a  *)
(* file is the sequence of the writes it received.  A write that was cut   *)
(* leaves part of a line, and the next write goes on in that line.         *)
(***************************************************************************)
EXTENDS Naturals, Sequences, SequencesExt, FiniteSets

CONSTANTS
  Stamps,        \* time stamps of ticks
  LastDay,       \* the clock of the recorder shows day 1 to LastDay
  MaxMessages,   \* most messages on the stream
  MaxFaults      \* most crashes, failing calls of the file system and lost acknowledgements

\* A payload that is no tick.
Malformed == 0

NoMessage == 0

ASSUME ArchiveAssumption ==
  /\ Stamps \subseteq Nat \ {Malformed}
  /\ LastDay \in Nat \ {0}
  /\ MaxMessages \in Nat
  /\ MaxFaults \in Nat

VARIABLES
  stream,      \* the messages of signal.price.*
  settled,     \* the messages the consumer of the recorder is done with
  fetched,     \* the messages that were delivered at least once
  recorder,    \* "off", "running", or "stopped" while the process ends
  callback,    \* the message handlePrice has in hand
  appended,    \* handlePrice has returned
  handle,      \* TickStore.file and TickStore.day
  today,       \* the day the clock of the recorder shows
  files,       \* what each day's file holds
  stored,      \* the messages whose Append returned no error
  faults,
  replay,      \* the replay tool: "off", "waiting" in its select, "publishing", "done"
  plan,        \* its schedule
  sent,        \* how many steps of it are published
  aborted      \* how many were when Ctrl-C came, the empty set before it does

recorderVars == <<settled, fetched, recorder, callback, appended, handle, files, stored, faults>>
replayVars == <<replay, plan, sent, aborted>>
archiveVars == <<stream, today, recorderVars, replayVars>>

Days == 1..LastDay

\* Whole, without its newline, or broken inside the object.
Cut == {"no", "newline", "inside"}

Chunk == [msg : 1..MaxMessages, cut : Cut]

\* The file of a store that was not used yet, or is closed.
NoHandle == [is |-> "none", day |-> 1]

ArchiveTypeOK ==
  /\ stream \in BoundedSeq(Stamps \cup {Malformed}, MaxMessages)
  /\ stored \subseteq fetched /\ settled \cup fetched \subseteq DOMAIN stream
  /\ recorder \in {"off", "running", "stopped"}
  /\ callback \in fetched \cup {NoMessage}
  /\ appended \in BOOLEAN
  /\ handle \in [is : {"none", "open", "closed"}, day : Days]
  /\ today \in Days
  /\ DOMAIN files = Days
  /\ \A d \in Days : Range(files[d]) \subseteq Chunk
  /\ faults \in 0..MaxFaults
  /\ replay \in {"off", "waiting", "publishing", "done"}
  /\ plan \in Seq([stamp : Stamps, gap : BOOLEAN])
  /\ sent \in 0..Len(plan) /\ aborted \in {{}} \cup {{n} : n \in 0..sent}

ArchiveInit ==
  /\ stream = <<>> /\ settled = {} /\ fetched = {}
  /\ recorder = "off" /\ callback = NoMessage /\ appended = FALSE
  /\ handle = NoHandle /\ today = 1
  /\ files = [d \in Days |-> <<>>]
  /\ stored = {} /\ faults = 0
  /\ replay = "off" /\ plan = <<>> /\ sent = 0 /\ aborted = {}

\* The poller of the scout publishes; anything may be on the subject.
PriceAppears ==
  /\ Len(stream) < MaxMessages
  /\ \E s \in Stamps \cup {Malformed} : stream' = Append(stream, s)
  /\ UNCHANGED <<today, recorderVars, replayVars>>

Midnight ==
  /\ today < LastDay
  /\ today' = today + 1
  /\ UNCHANGED <<stream, recorderVars, replayVars>>
-----------------------------------------------------------------------------
\* The recorder.

\* NewAgent and Run up to the subscription.
StartRecorder ==
  /\ recorder = "off"
  /\ recorder' = "running"
  /\ UNCHANGED <<settled, fetched, callback, appended, handle, files, stored, faults>>

\* New messages come in their order, what was delivered before at any time.
Deliver ==
  /\ recorder = "running" /\ callback = NoMessage
  /\ \E i \in DOMAIN stream \ settled :
        /\ i \in fetched \/ \A j \in 1..(i - 1) : j \in fetched \cup settled
        /\ callback' = i /\ fetched' = fetched \cup {i}
  /\ UNCHANGED <<settled, recorder, appended, handle, files, stored, faults>>

\* handlePrice is at work on a message that parses, or does not.
Handling == callback # NoMessage /\ ~appended

Legible == Handling /\ stream[callback] # Malformed

Fault == faults < MaxFaults /\ faults' = faults + 1

Return ==
  /\ appended' = TRUE
  /\ UNCHANGED <<settled, fetched, recorder, callback>>

\* Nothing is acknowledged that does not parse.
DropMalformedUnsettled ==
  /\ Handling /\ stream[callback] = Malformed
  /\ callback' = NoMessage
  /\ UNCHANGED <<settled, fetched, recorder, appended, handle, files, stored, faults>>

DropMalformed ==
  /\ Handling /\ stream[callback] = Malformed
  /\ Return
  /\ UNCHANGED <<handle, files, stored, faults>>

NeedsRotation == handle.is = "none" \/ handle.day # today

\* rotateLocked installs the file of today, unless closing the old one fails.
MayWrite == NeedsRotation => handle.is # "closed"

\* With O_TRUNC a file is empty once it is opened.
ReopenedTruncated(f) == IF NeedsRotation THEN <<>> ELSE f

\* O_APPEND: it holds what it held.
Reopened(f) == f

Write(chunk) ==
  /\ MayWrite
  /\ files' = [files EXCEPT ![today] = Append(Reopened(@), chunk)]

TodaysHandle == [is |-> "open", day |-> today]

AppendOk ==
  /\ Legible
  /\ Write([msg |-> callback, cut |-> "no"]) /\ handle' = TodaysHandle
  /\ stored' = stored \cup {callback}
  /\ Return
  /\ UNCHANGED faults

\* A short write: the disk is full.
AppendIsCut ==
  /\ Legible
  /\ \E c \in Cut \ {"no"} : Write([msg |-> callback, cut |-> c])
  /\ handle' = TodaysHandle
  /\ Fault /\ Return
  /\ UNCHANGED stored

\* OpenFile fails, or the write before its first byte.
AppendFails ==
  /\ Legible
  /\ Fault /\ Return
  /\ handle' \in {handle} \cup (IF MayWrite THEN {TodaysHandle} ELSE {})
  /\ UNCHANGED <<files, stored>>

\* The old file is closed and stays in place; closing it again fails as well.
CloseFails ==
  /\ Legible
  /\ NeedsRotation /\ handle.is # "none"
  /\ IF handle.is = "closed" THEN UNCHANGED faults ELSE Fault
  /\ handle' = [handle EXCEPT !.is = "closed"]
  /\ Return
  /\ UNCHANGED <<files, stored>>

\* The client library acknowledges behind the callback.
Acknowledge ==
  /\ callback # NoMessage /\ appended
  /\ settled' = settled \cup {callback}
  /\ callback' = NoMessage /\ appended' = FALSE
  /\ UNCHANGED <<fetched, recorder, handle, files, stored, faults>>

AcknowledgeIsLost ==
  /\ callback # NoMessage /\ appended
  /\ Fault
  /\ callback' = NoMessage /\ appended' = FALSE
  /\ UNCHANGED <<settled, fetched, recorder, handle, files, stored>>

\* Stop: Unsubscribe, with which the consumer may go, and Close.  A callback goes on.
StopRecorder ==
  /\ recorder = "running"
  /\ recorder' = "stopped" /\ handle' = NoHandle
  /\ settled' \in {settled, DOMAIN stream}
  /\ UNCHANGED <<fetched, callback, appended, files, stored, faults>>

\* Nobody waits for a callback.
ProcessExits ==
  /\ recorder = "stopped"
  /\ IF callback = NoMessage THEN UNCHANGED faults ELSE Fault
  /\ recorder' = "off" /\ callback' = NoMessage /\ appended' = FALSE /\ handle' = NoHandle
  /\ UNCHANGED <<settled, fetched, files, stored>>

\* The process dies, perhaps inside a write.
Crash ==
  /\ recorder # "off"
  /\ Fault
  /\ recorder' = "off" /\ callback' = NoMessage /\ appended' = FALSE /\ handle' = NoHandle
  /\ \/ UNCHANGED files
     \/ Legible /\ \E c \in Cut : Write([msg |-> callback, cut |-> c])
  /\ UNCHANGED <<settled, fetched, stored>>

RecorderNext ==
  /\ \/ StartRecorder \/ Deliver \/ DropMalformed \/ AppendOk \/ AppendIsCut \/ AppendFails
     \/ CloseFails \/ Acknowledge \/ AcknowledgeIsLost \/ StopRecorder \/ ProcessExits \/ Crash
  /\ UNCHANGED <<stream, today, replayVars>>
-----------------------------------------------------------------------------
\* The replay tool, a process of its own.

Stamp(f, k) == stream[f[k].msg]

\* The writes that fill a line of their own, a last one without newline included.
Parsed(f) ==
  {k \in DOMAIN f : /\ k > 1 => f[k - 1].cut = "no"
                    /\ f[k].cut = "no" \/ (f[k].cut = "newline" /\ k = Len(f))}

\* The elements of S in their order.
Sorted(S, before(_, _)) ==
  CHOOSE s \in SetToSeqs(S) : \A i, j \in DOMAIN s : i < j => before(s[i], s[j])

\* LoadTicks in the order of the file.
LoadTicksUnsorted(f) == Sorted(Parsed(f), <)

\* LoadTicks: by time stamp, ticks of the same stamp in the order of the file.
LoadTicks(f) ==
  Sorted(Parsed(f), LAMBDA j, k : \/ Stamp(f, j) < Stamp(f, k)
                                  \/ Stamp(f, j) = Stamp(f, k) /\ j < k)

\* Plan: the stamps, and whether there is time to wait before each.
Plan(f, paced) ==
  LET ticks == LoadTicks(f)
  IN  [i \in DOMAIN ticks |->
         [stamp |-> Stamp(f, ticks[i]),
          gap   |-> paced /\ i > 1 /\ Stamp(f, ticks[i]) > Stamp(f, ticks[i - 1])]]

\* The loop of Engine.Run goes to step n of the schedule p.
ToStep(p, n) ==
  replay' = IF n > Len(p) THEN "done" ELSE IF p[n].gap THEN "waiting" ELSE "publishing"

\* main: without a tick there is nothing to do.
StartReplay ==
  /\ replay = "off"
  /\ \E d \in Days, paced \in BOOLEAN :
        /\ Parsed(files[d]) # {}
        /\ plan' = Plan(files[d], paced)
        /\ ToStep(plan', 1)
  /\ UNCHANGED <<stream, today, recorderVars, sent, aborted>>

CtrlC ==
  /\ replay \in {"waiting", "publishing"} /\ aborted = {}
  /\ aborted' = {sent}
  /\ UNCHANGED <<stream, today, recorderVars, replay, plan, sent>>

\* time.After; a context that was done before the wait began is heard first.
GapPasses ==
  /\ replay = "waiting"
  /\ aborted \subseteq {sent}
  /\ replay' = "publishing"
  /\ UNCHANGED <<stream, today, recorderVars, plan, sent, aborted>>

HearAbort ==
  /\ replay = "waiting" /\ aborted # {}
  /\ replay' = "done"
  /\ UNCHANGED <<stream, today, recorderVars, plan, sent, aborted>>

\* The tick goes out on the live subject, where the recorder, if it has a consumer,
\* hears it again.
ReplayPublishes ==
  /\ replay = "publishing"
  /\ \/ UNCHANGED stream
     \/ /\ Len(stream) < MaxMessages
        /\ stream' = Append(stream, plan[sent + 1].stamp)
  /\ sent' = sent + 1
  /\ ToStep(plan, sent + 2)
  /\ UNCHANGED <<today, recorderVars, plan, aborted>>

ReplayPublishFails ==
  /\ replay = "publishing"
  /\ replay' = "done"
  /\ UNCHANGED <<stream, today, recorderVars, plan, sent, aborted>>

\* main reports and the process ends.
ReplayExits ==
  /\ replay = "done"
  /\ replay' = "off" /\ plan' = <<>> /\ sent' = 0 /\ aborted' = {}
  /\ UNCHANGED <<stream, today, recorderVars>>

ReplayNext ==
  \/ StartReplay \/ CtrlC \/ GapPasses \/ HearAbort \/ ReplayPublishes \/ ReplayPublishFails
  \/ ReplayExits

ArchiveNext == PriceAppears \/ Midnight \/ RecorderNext \/ ReplayNext

\* The callback runs to its end, and the consumer goes on delivering in its order.
ArchiveFairness ==
  /\ WF_archiveVars(Deliver /\ UNCHANGED <<stream, today, replayVars>>)
  /\ WF_archiveVars((DropMalformed \/ AppendOk \/ CloseFails)
                      /\ UNCHANGED <<stream, today, replayVars>>)
  /\ WF_archiveVars(Acknowledge /\ UNCHANGED <<stream, today, replayVars>>)

ArchiveSpec == ArchiveInit /\ [][ArchiveNext]_archiveVars /\ ArchiveFairness
-----------------------------------------------------------------------------
\* A file is a sequence of writes of messages that were delivered and parse.
FilesAreWritten ==
  \A d \in Days : /\ files[d] \in Seq(Chunk)
                  /\ \A k \in DOMAIN files[d] : /\ files[d][k].msg \in fetched
                                                /\ Stamp(files[d], k) \in Stamps

\* A tick is stored once its line is whole in some file.
StoredIsWritten ==
  \A i \in stored : \E d \in Days : \E k \in DOMAIN files[d] :
     files[d][k].msg = i /\ files[d][k].cut = "no"

\* What Append took, replay gets back: through rotations, restarts, repeated
\* deliveries and broken lines a stored tick is parsed by LoadTicks, unless the
\* write before it in the file was cut (store.go:52, engine.go:36).
StoredIsParsed ==
  \A i \in stored : \E d \in Days : \E k \in DOMAIN files[d] :
     /\ files[d][k].msg = i
     /\ k \in Parsed(files[d]) \/ (k > 1 /\ files[d][k - 1].cut # "no")

\* What is replayed is in the order of the time stamps, though deliveries that
\* were repeated stand late in the file, and no gap is waited out any more that
\* began after Ctrl-C (engine.go:56, engine.go:102).
ReplayKeepsItsSchedule ==
  /\ \A i, j \in 1..sent : i < j => plan[i].stamp <= plan[j].stamp
  /\ \A n \in aborted : \A i \in (n + 2)..sent : ~plan[i].gap

\* While the recorder runs, every price is taken from the stream in the end: a
\* payload that does not parse and a tick that cannot be stored do not come back
\* for ever (agent.go:93).
PricesAreSettled ==
  \A i \in 1..MaxMessages :
     []<>(recorder = "running" /\ i \in DOMAIN stream => i \in settled)

\* The schedule is in the order of the stamps; the step that comes next has not waited
\* if Ctrl-C came before an earlier one.
ReplayIsOnSchedule ==
  /\ \A i, j \in DOMAIN plan : i < j => plan[i].stamp <= plan[j].stamp
  /\ replay = "off" => plan = <<>> /\ aborted = {}
  /\ replay \in {"waiting", "publishing"} => sent < Len(plan)
  /\ \A n \in aborted :
       /\ \A i \in (n + 2)..sent : ~plan[i].gap
       /\ replay = "publishing" /\ n < sent => ~plan[sent + 1].gap

\* The inductive invariant of StoredIsParsed and ReplayKeepsItsSchedule.
ArchiveIInv == ArchiveTypeOK /\ FilesAreWritten /\ StoredIsWritten /\ ReplayIsOnSchedule
=============================================================================
