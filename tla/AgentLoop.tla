------------------------------ MODULE AgentLoop ------------------------------
(***************************************************************************)
(* One agent instance (runtime/run_loop.rs, runtime/manual_compact.rs,     *)
(* engine/mod.rs): how the loop receives task completions, delivers them   *)
(* to the stored and to the in-memory context, starts runs for them, and   *)
(* how a stop takes that right away.  Every action here is an action of    *)
(* RunAdmission with its effect on the notifications, or leaves the right  *)
(* to run alone (ImplementsRunAdmission).                                  *)
(*                                                                         *)
(* A notification is delivered by a transaction of the host, which skips   *)
(* the tasks whose row says delivered already (omini-server,               *)
(* insert_task_notification).                                              *)
(***************************************************************************)
EXTENDS RunAdmission, TaskLedger

CONSTANT MaxStops   \* bound: how often the user stops the work

VARIABLES
    queue,     \* QueryEngine.pending_task_completions
    draining,  \* completions a query has taken from it and not settled
    inbox,     \* TaskManager.stopped_inbox
    mem,       \* mem[t]: how often t's notification is in AgentRuntime.messages
    rows,      \* tasks whose row says notification_delivered
    stored,    \* tasks notified in the stored context of the current version
    cancelFlag,\* AgentRuntime.cancelled
    connected, \* the consumer still holds the output
    step,      \* where a run is, or where the shutdown is; "idle" elsewhere
    next,      \* the run that will follow this one, or NoStart
    undelivered, \* notification_persistence_failed of the current query
    wasCancelled \* the run that just ended was cancelled

contextVars == <<mem, rows, stored>>
queueVars   == <<queue, draining, inbox>>
runVars     == <<next, undelivered, wasCancelled>>
loopOnlyVars == <<queueVars, contextVars, cancelFlag, connected, step, runVars>>
allVars == <<admissionVars, ledgerVars, loopOnlyVars>>

QuerySteps == {"query", "firstAck", "turn", "turnAck", "finalAck", "ending"}
RunSteps == {"collect", "open", "post", "record", "tail", "decide", "leave"} \cup QuerySteps
Steps == RunSteps \cup {"idle", "tasks", "settled"}

AutoStarts == {"PendingTaskNotification", "PersistedTaskNotification"}

LoopTypeOK ==
    /\ AdmissionTypeOK
    /\ LedgerTypeOK
    /\ queue \cup draining \cup inbox \cup rows \cup stored \subseteq Tasks
    /\ mem \in [Tasks -> 0..2]
    /\ cancelFlag \in BOOLEAN /\ connected \in BOOLEAN
    /\ step \in Steps
    /\ step \in RunSteps <=> pc = "run"
    /\ next \in AutoStarts \cup {NoStart}
    /\ undelivered \in BOOLEAN /\ wasCancelled \in BOOLEAN

LoopInit ==
    /\ AdmissionInit
    /\ LedgerInit
    /\ queue = {} /\ draining = {} /\ inbox = {}
    /\ mem = [t \in Tasks |-> 0]
    /\ rows = {} /\ stored = {}
    /\ cancelFlag = FALSE /\ connected = TRUE
    /\ step = "idle"
    /\ next = NoStart /\ undelivered = FALSE /\ wasCancelled = FALSE

-----------------------------------------------------------------------------
(* Delivery.                                                               *)

HostFails == "HostFails" \in Events

(* `insert_task_notification`: one transaction; whatever was submitted is  *)
(* then marked delivered by the caller.                                    *)
Persist(S) ==
    /\ rows' = rows \cup S
    /\ stored' = stored \cup (S \ rows)
    /\ MarkDelivered(S)

PersistFails == HostFails /\ UNCHANGED <<rows, stored, pending, delivered>>

Inject(S) == mem' = [t \in Tasks |-> IF t \in S /\ mem[t] < 2 THEN mem[t] + 1 ELSE mem[t]]

MutantSettleWithoutInbox(S) ==
    /\ UNCHANGED inbox
    /\ Persist(S) \/ PersistFails

(* `persist_stopped_completions`: into the inbox whether or not stored.    *)
PersistStopped(S) ==
    /\ inbox' = inbox \cup S
    /\ IF S = {}
       THEN UNCHANGED <<rows, stored, pending, delivered>>
       ELSE Persist(S) \/ PersistFails

MutantFlushKeepsInbox ==
    /\ UNCHANGED <<inbox, queue>>
    /\ Persist(inbox \ delivered) /\ Inject(inbox)

(* `flush_stopped_inbox`: what is delivered goes to memory; the rest is    *)
(* tried once more and, if that fails, handed to the engine's queue.       *)
Flush ==
    /\ inbox' = {}
    /\ \/ Persist(inbox \ delivered) /\ Inject(inbox) /\ UNCHANGED queue
       \/ /\ inbox \ delivered # {}
          /\ PersistFails
          /\ Inject(inbox \cap delivered)
          /\ queue' = queue \cup (inbox \ delivered)

StoppedIn(S) == {t \in S : CompletionIsStopped(t)}

(* `collect_task_completions`: S is all that the channel holds.            *)
Collect(S) ==
    /\ chan' = {}
    /\ queue' = queue \cup (S \ StoppedIn(S))
    /\ PersistStopped(StoppedIn(S))

-----------------------------------------------------------------------------
(* Idle: what `run_loop` receives between runs.                            *)

IdleUnchanged == UNCHANGED <<cancelFlag, connected, step, runVars>>

MutantTopIgnoresStop ==
    /\ TopTestLifecycle \/ TopWait \/ TopRetryDeferred
    /\ UNCHANGED <<ledgerVars, loopOnlyVars>>

(* A deferred start is discarded inside a stop boundary, retried outside.  *)
Top ==
    /\ \/ TopTestLifecycle \/ TopWait
       \/ ~open /\ TopRetryDeferred
       \/ open /\ TopDiscardDeferred
    /\ UNCHANGED <<ledgerVars, loopOnlyVars>>

(* Explicit input closes the boundary, resets the cancel flag and flushes  *)
(* the inbox before the message enters the context.                        *)
CommitRun(r) ==
    /\ RecvCommit(r)
    /\ open' = FALSE
    /\ cancelFlag' = FALSE
    /\ Flush
    /\ step' = "collect"
    /\ UNCHANGED <<stage, stamp, cancelled, stopped, generation, chan,
                   draining, connected, runVars>>

(* A stopped completion is settled on the spot; any other is queued with   *)
(* what else the channel holds, and starts a run.                          *)
RecvStoppedCompletion(t) ==
    /\ t \in chan /\ CompletionIsStopped(t)
    /\ RecvOther
    /\ chan' = chan \ {t}
    /\ PersistStopped({t})
    /\ IdleUnchanged
    /\ UNCHANGED <<stage, stamp, cancelled, stopVars, queue, draining, mem>>

RecvCompletion(t) ==
    /\ t \in chan /\ ~CompletionIsStopped(t)
    /\ IF lifecycle = "Active" /\ connected
       THEN RecvInternal("PendingTaskNotification")
       ELSE RecvOther
    /\ Collect(chan)
    /\ IdleUnchanged
    /\ UNCHANGED <<stage, stamp, cancelled, stopVars, draining, mem>>

MutantStopKeepsQueue ==
    /\ generation < MaxStops
    /\ RecvOther
    /\ StopWork
    /\ IdleUnchanged
    /\ UNCHANGED <<stage, stamp, chan, pending, delivered, queueVars, contextVars>>

(* Cancel while idle: the queue is settled too, the flag is not set.       *)
IdleStop ==
    /\ generation < MaxStops
    /\ RecvOther
    /\ StopWork
    /\ queue' = {}
    /\ PersistStopped(queue)
    /\ IdleUnchanged
    /\ UNCHANGED <<stage, stamp, chan, draining, mem>>

ApprovePlan ==
    /\ RecvInternal("UserMessage")
    /\ UNCHANGED <<ledgerVars, loopOnlyVars>>

MutantCompactUnflushed ==
    /\ RecvCompact
    /\ UNCHANGED <<ledgerVars, loopOnlyVars>>

(* Manual compaction flushes the inbox before it rewrites the context.     *)
Compact ==
    /\ RecvCompact
    /\ IF pc' = "maint"
       THEN Flush
       ELSE UNCHANGED <<queue, inbox, mem, rows, stored, pending, delivered>>
    /\ IdleUnchanged
    /\ UNCHANGED <<stage, stamp, cancelled, stopVars, chan, draining>>

ConsumerGone == ~connected /\ OutputClosed

IdleOther ==
    /\ \/ \E r \in Runs : RecvStaleCommit(r)
       \/ RecvReleased \/ RecvClose \/ ConsumerGone
    /\ UNCHANGED <<ledgerVars, loopOnlyVars>>

(* The run slot is asked for again, in a critical section of its own.      *)
StartRun ==
    /\ StartInternal
    /\ step' = "collect"
    /\ UNCHANGED <<ledgerVars, queueVars, contextVars, cancelFlag, connected, runVars>>

DeferStart == DeferInternal /\ UNCHANGED <<ledgerVars, loopOnlyVars>>

-----------------------------------------------------------------------------
(* A manual compaction.                                                    *)

StopCompact ==
    /\ "StopCompact" \in Events
    /\ pc = "maint" /\ generation < MaxStops
    /\ StopWork
    /\ cancelFlag' = TRUE
    /\ UNCHANGED <<admissionVars, stage, stamp, pending, delivered, chan,
                   queueVars, contextVars, connected, step, runVars>>

CloseCompact ==
    /\ pc = "maint" /\ BusyClose
    /\ cancelFlag' = TRUE
    /\ UNCHANGED <<ledgerVars, queueVars, contextVars, connected, step, runVars>>

RejectCompact ==
    /\ pc = "maint"
    /\ \E r \in Runs : RejectCommit(r)
    /\ UNCHANGED <<ledgerVars, loopOnlyVars>>

(* The context is rewritten from memory, or left alone: nothing to         *)
(* compact, a failure, a cancellation.                                     *)
Rewritten == stored' = {t \in Tasks : mem[t] > 0}

CompactEnds ==
    /\ pc = "maint" /\ Finished
    /\ Rewritten \/ UNCHANGED stored
    /\ cancelFlag' \in {cancelFlag, cancelFlag \/ lifecycle # "Active"}
    /\ UNCHANGED <<ledgerVars, queueVars, mem, rows, connected, step, runVars>>

-----------------------------------------------------------------------------
(* A run: the host's records, the query with its turns, the settlement.    *)

AtStep(s) == pc = "run" /\ step = s
GoTo(s) == step' = s

MutantFailUnheard ==
    /\ lifecycle' = "Closing"
    /\ UNCHANGED <<slot, deferred, permit, hostVars, loopVars>>

(* A failure to write a record of the run closes the instance.             *)
FailRun == RunFails \/ (lifecycle # "Active" /\ UNCHANGED admissionVars)

(* `collect_task_completions` at the head of each run of a sequence.       *)
CollectBefore ==
    /\ AtStep("collect") /\ GoTo("open")
    /\ Collect(chan)
    /\ UNCHANGED <<admissionVars, stage, stamp, cancelled, stopVars, draining,
                   mem, cancelFlag, connected, runVars>>

MutantCreateFailsReturns ==
    /\ AtStep("open") /\ GoTo("idle")
    /\ HostFails /\ cause # "UserInput"
    /\ UNCHANGED <<admissionVars, ledgerVars, queueVars, contextVars,
                   cancelFlag, connected, runVars>>

(* A run the instance starts needs a record of its own.                    *)
CreateRunFails ==
    /\ AtStep("open") /\ GoTo("leave")
    /\ HostFails /\ cause # "UserInput"
    /\ UNCHANGED <<admissionVars, ledgerVars, queueVars, contextVars,
                   cancelFlag, connected, runVars>>

InitialMessageFails ==
    /\ AtStep("open") /\ GoTo("record")
    /\ HostFails /\ cause \in {"UserInput", "UserMessage"}
    /\ FailRun
    /\ UNCHANGED <<ledgerVars, queueVars, contextVars, cancelFlag, connected, runVars>>

(* `ensure_mcp_initialized` is false once closing has begun, and begins it *)
(* when the consumer leaves during the wait.                               *)
QueryRefused ==
    /\ AtStep("open") /\ GoTo("record")
    /\ \/ lifecycle # "Active" /\ UNCHANGED admissionVars
       \/ ~connected /\ RunFails
    /\ cancelFlag' = TRUE
    /\ wasCancelled' = TRUE
    /\ UNCHANGED <<ledgerVars, queueVars, contextVars,
                   connected, next, undelivered>>

QueryStarts ==
    /\ AtStep("open") /\ GoTo("query")
    /\ lifecycle = "Active"
    /\ UNCHANGED <<admissionVars, ledgerVars, queueVars, contextVars,
                   cancelFlag, connected, runVars>>

(* `drain_task_completions`: take the queue, hand it to the host ...       *)
Drain(s) ==
    /\ queue # {}
    /\ draining' = queue /\ queue' = {}
    /\ GoTo(s)

(* ... and inject what was new, or put everything back.                    *)
Drained ==
    /\ Persist(draining) /\ Inject(draining \ rows)
    /\ draining' = {} /\ UNCHANGED queue

MutantDrainLost ==
    /\ PersistFails
    /\ draining' = {} /\ UNCHANGED <<mem, queue>>

DrainFailed ==
    /\ PersistFails /\ UNCHANGED mem
    /\ queue' = queue \cup draining /\ draining' = {}

QueryOnly == UNCHANGED <<admissionVars, stage, stamp, cancelled, stopVars, chan,
                         inbox, cancelFlag, connected, wasCancelled>>

FirstDrain ==
    /\ AtStep("query")
    /\ \/ Drain("firstAck")
       \/ /\ queue = {}
          /\ GoTo(IF cause = "PendingTaskNotification" THEN "post" ELSE "turn")
          /\ UNCHANGED <<queue, draining>>
    /\ UNCHANGED <<contextVars, pending, delivered, next, undelivered>>
    /\ QueryOnly

(* A run started for notifications alone is an error without them.         *)
FirstDrainAcked ==
    /\ AtStep("firstAck")
    /\ \/ Drained /\ GoTo("turn") /\ UNCHANGED undelivered
       \/ /\ DrainFailed
          /\ undelivered' = TRUE
          /\ GoTo(IF cause = "PendingTaskNotification" THEN "post" ELSE "turn")
    /\ UNCHANGED next
    /\ QueryOnly

(* A turn: requests to the provider and the tool calls it asks for.        *)
SpawnTask(t) ==
    /\ AtStep("turn")
    /\ BeginSpawn(t)
    /\ UNCHANGED <<admissionVars, loopOnlyVars>>

(* The stored context is replaced by the compacted memory of the run; the  *)
(* inbox is not part of that memory.                                       *)
AutoCompact ==
    /\ "AutoCompact" \in Events
    /\ AtStep("turn") /\ Spawning = {}
    /\ Rewritten
    /\ UNCHANGED <<admissionVars, ledgerVars, queueVars, mem, rows, cancelFlag,
                   connected, step, runVars>>

(* A turn waits for its tool calls.  Completed, it drains the queue, the   *)
(* last turn allowed ("finalAck") as well; interrupted, it does not.       *)
TurnCompletes ==
    /\ AtStep("turn") /\ Spawning = {}
    /\ \/ \E s \in {"turnAck", "finalAck"} : Drain(s)
       \/ queue = {} /\ GoTo("ending") /\ UNCHANGED <<queue, draining>>
    /\ UNCHANGED <<contextVars, pending, delivered, next, undelivered>>
    /\ QueryOnly

TurnInterrupted ==
    /\ AtStep("turn") /\ Spawning = {}
    /\ cancelFlag \/ "TurnFails" \in Events
    /\ GoTo("post")
    /\ UNCHANGED <<queue, draining, contextVars, pending, delivered, next, undelivered>>
    /\ QueryOnly

(* New notifications make another turn; after the last turn, another run.  *)
TurnDrained ==
    /\ step \in {"turnAck", "finalAck"} /\ pc = "run"
    /\ Drained
    /\ IF draining \subseteq rows
       THEN (GoTo("ending") \/ (step = "turnAck" /\ GoTo("turn"))) /\ UNCHANGED next
       ELSE IF step = "turnAck"
            THEN GoTo("turn") /\ UNCHANGED next
            ELSE GoTo("ending") /\ next' = "PersistedTaskNotification"
    /\ UNCHANGED undelivered
    /\ QueryOnly

TurnDrainFailed ==
    /\ step \in {"turnAck", "finalAck"} /\ pc = "run"
    /\ DrainFailed
    /\ undelivered' = TRUE
    /\ GoTo("ending") \/ (step = "turnAck" /\ GoTo("turn"))
    /\ UNCHANGED next
    /\ QueryOnly

(* Completions queued since the last drain ask for another run.            *)
QueryEnds ==
    /\ AtStep("ending") /\ GoTo("post")
    /\ next' = IF queue # {} /\ ~undelivered THEN "PersistedTaskNotification" ELSE next
    /\ UNCHANGED <<queue, draining, contextVars, pending, delivered, undelivered>>
    /\ QueryOnly

-----------------------------------------------------------------------------
(* What the loop receives while a query is under way.                      *)

Querying == pc = "run" /\ step \in QuerySteps

RecvRunCompletion(t) ==
    /\ Querying /\ t \in chan
    /\ chan' = chan \ {t}
    /\ IF CompletionIsStopped(t)
       THEN PersistStopped({t}) /\ UNCHANGED queue
       ELSE /\ queue' = queue \cup {t}
            /\ UNCHANGED <<inbox, rows, stored, pending, delivered>>
    /\ UNCHANGED <<admissionVars, stage, stamp, cancelled, stopVars, draining,
                   mem, cancelFlag, connected, step, runVars>>

RunStop ==
    /\ Querying /\ generation < MaxStops
    /\ StopWork
    /\ cancelFlag' = TRUE
    /\ UNCHANGED <<admissionVars, stage, stamp, pending, delivered, chan,
                   queueVars, contextVars, connected, step, runVars>>

RejectRun ==
    /\ Querying
    /\ \E r \in Runs : RejectCommit(r)
    /\ UNCHANGED <<ledgerVars, loopOnlyVars>>

(* The query is dropped.  What it had handed to the host may still be      *)
(* stored, but reaches no memory any more.                                 *)
DropQuery ==
    /\ Querying /\ GoTo("post")
    /\ cancelFlag' = TRUE
    /\ next' = NoStart
    /\ draining' = {}
    /\ Persist(draining) \/ UNCHANGED <<rows, stored, pending, delivered>>
    /\ UNCHANGED <<stage, stamp, stopVars, chan, queue, inbox, mem,
                   connected, undelivered, wasCancelled>>

QueryDropped ==
    /\ lifecycle # "Active" \/ ~connected
    /\ DropQuery
    /\ UNCHANGED <<admissionVars, cancelled>>

CloseRun == BusyClose /\ DropQuery /\ CancelAll

-----------------------------------------------------------------------------
(* After the query: every tool call has ended, for each holds a sender of  *)
(* the event channel that is waited for.                                   *)

QuerySettles ==
    /\ AtStep("post") /\ Spawning = {} /\ GoTo("record")
    /\ wasCancelled' = cancelFlag
    /\ cancelFlag' = FALSE
    /\ undelivered' = FALSE
    /\ \/ UNCHANGED <<admissionVars, next>>
       \/ HostFails /\ FailRun /\ next' = NoStart
    /\ UNCHANGED <<ledgerVars, queueVars, contextVars, connected>>

RecordRun ==
    /\ AtStep("record")
    /\ \/ GoTo("tail") /\ UNCHANGED admissionVars
       \/ HostFails /\ FailRun /\ GoTo("leave")
    /\ UNCHANGED <<ledgerVars, queueVars, contextVars, cancelFlag, connected, runVars>>

CollectAfter ==
    /\ AtStep("tail") /\ GoTo("decide")
    /\ Collect(chan)
    /\ next' = IF next = NoStart /\ StoppedIn(chan) # chan
               THEN "PendingTaskNotification" ELSE next
    /\ UNCHANGED <<admissionVars, stage, stamp, cancelled, stopVars, draining,
                   mem, cancelFlag, connected, undelivered, wasCancelled>>

(* The output counts as closed from the moment the consumer is gone; in    *)
(* the code the first message sent to it finds out.                        *)
MustEnd == lifecycle # "Active" \/ ~connected

(* A cancelled run is not followed up: what it left queued is settled.     *)
SettleCancelled ==
    /\ AtStep("decide") /\ ~MustEnd /\ wasCancelled /\ GoTo("leave")
    /\ queue' = {}
    /\ PersistStopped(queue)
    /\ UNCHANGED <<admissionVars, stage, stamp, cancelled, stopVars, chan,
                   draining, mem, cancelFlag, connected, runVars>>

FollowUp ==
    /\ AtStep("decide") /\ ~MustEnd /\ ~wasCancelled /\ GoTo("collect")
    /\ next # NoStart /\ FollowUpRun(next)
    /\ next' = NoStart
    /\ UNCHANGED <<ledgerVars, queueVars, contextVars, cancelFlag, connected,
                   undelivered, wasCancelled>>

NoFollowUp ==
    /\ AtStep("decide") /\ GoTo("leave")
    /\ MustEnd \/ (~wasCancelled /\ next = NoStart)
    /\ UNCHANGED <<admissionVars, ledgerVars, queueVars, contextVars,
                   cancelFlag, connected, runVars>>

LeaveRun ==
    /\ AtStep("leave") /\ GoTo("idle")
    /\ Finished
    /\ next' = NoStart /\ undelivered' = FALSE /\ wasCancelled' = FALSE
    /\ UNCHANGED <<ledgerVars, queueVars, contextVars, cancelFlag, connected>>

-----------------------------------------------------------------------------
(* Shutdown: cancel the tasks, wait for them, settle what is left.         *)

ShutdownGate ==
    /\ ShutdownBegins \/ CloseChannel \/ AwaitUnreserved \/ WokenByRelease
    /\ UNCHANGED <<ledgerVars, loopOnlyVars>>

MutantShutdownWaits ==
    /\ pc = "settle" /\ step = "idle" /\ GoTo("tasks")
    /\ cancelFlag' = TRUE
    /\ UNCHANGED <<admissionVars, ledgerVars, queueVars, contextVars, connected, runVars>>

ShutdownCancel ==
    /\ pc = "settle" /\ step = "idle" /\ GoTo("tasks")
    /\ cancelFlag' = TRUE
    /\ CancelAll
    /\ UNCHANGED <<admissionVars, stage, stamp, stopVars, pending, delivered, chan,
                   queueVars, contextVars, connected, runVars>>

ShutdownTail ==
    /\ pc = "settle" /\ step = "tasks" /\ ~HasActiveTasks /\ GoTo("settled")
    /\ chan' = {} /\ queue' = {}
    /\ PersistStopped(chan \cup queue)
    /\ UNCHANGED <<admissionVars, stage, stamp, cancelled, stopVars, draining,
                   mem, cancelFlag, connected, runVars>>

Announce ==
    /\ step = "settled" /\ AnnounceClosed
    /\ UNCHANGED <<ledgerVars, loopOnlyVars>>

-----------------------------------------------------------------------------
(* The tasks, the hosts and the consumer.                                  *)

TaskActs(t) ==
    /\ \/ TaskStep(t)
       \/ LoseSpawn(t) /\ (cancelFlag \/ ~Querying)
    /\ UNCHANGED <<admissionVars, loopOnlyVars>>

(* The gate's half of `begin_idle_close`: the conditions on the tasks were *)
(* read before and may not hold any more.                                  *)
HostActs ==
    /\ \/ \E r \in Runs : HostStep(r)
       \/ RequestClose \/ CloseIdle
    /\ UNCHANGED <<ledgerVars, loopOnlyVars>>

Disconnect ==
    /\ connected /\ pc # "closed"
    /\ connected' = FALSE
    /\ UNCHANGED <<admissionVars, ledgerVars, queueVars, contextVars, cancelFlag,
                   step, runVars>>

IdleStep ==
    \/ \E r \in Runs : CommitRun(r)
    \/ \E t \in Tasks : RecvStoppedCompletion(t) \/ RecvCompletion(t)
    \/ IdleStop \/ ApprovePlan \/ Compact \/ IdleOther

CompactStep == StopCompact \/ CloseCompact \/ RejectCompact \/ CompactEnds

QueryStep ==
    \/ FirstDrain \/ FirstDrainAcked
    \/ \E t \in Tasks : SpawnTask(t)
    \/ AutoCompact \/ TurnCompletes \/ TurnInterrupted
    \/ TurnDrained \/ TurnDrainFailed \/ QueryEnds

QueryInput ==
    \/ \E t \in Tasks : RecvRunCompletion(t)
    \/ RunStop \/ RejectRun \/ QueryDropped \/ CloseRun

SettleStep ==
    \/ CollectBefore \/ CreateRunFails \/ InitialMessageFails \/ QueryRefused
    \/ QueryStarts \/ QuerySettles \/ RecordRun \/ CollectAfter
    \/ SettleCancelled \/ FollowUp \/ NoFollowUp \/ LeaveRun

ClosingStep == ShutdownGate \/ ShutdownCancel \/ ShutdownTail \/ Announce

LoopNext ==
    \/ Top \/ IdleStep \/ StartRun \/ DeferStart
    \/ CompactStep \/ QueryStep \/ QueryInput \/ SettleStep \/ ClosingStep
    \/ \E t \in Tasks : TaskActs(t)
    \/ HostActs \/ Disconnect

(***************************************************************************)
(* Fairness.  As in RunAdmission for the gate, the loop and the hosts.  A  *)
(* turn, a compaction and a task may last for ever, except that dropping   *)
(* the query, the end of a compaction that is being closed, and a task     *)
(* that was cancelled are fair: each waits on a signal it was sent.        *)
(***************************************************************************)
LoopFairness ==
    /\ WF_allVars(Top)
    /\ WF_allVars(StartRun \/ DeferStart)
    /\ WF_allVars(SettleStep)
    /\ WF_allVars(QueryDropped /\ lifecycle # "Active")
    /\ WF_allVars(CompactEnds /\ lifecycle # "Active")
    /\ WF_allVars(ClosingStep)
    /\ SF_allVars(RecvReleased /\ IdleOther)
    /\ SF_allVars(RecvClose /\ IdleOther)
    /\ \A r \in Runs :
        /\ SF_allVars(CommitRun(r) \/ (RecvStaleCommit(r) /\ IdleOther))
        /\ WF_allVars((Commit(r) \/ Drop(r)) /\ HostActs)
    /\ \A t \in Tasks :
        /\ SF_allVars(RecvStoppedCompletion(t) \/ RecvCompletion(t))
        /\ WF_allVars((Register(t) \/ GiveUpSpawn(t) \/ Launch(t) \/ NotifyCompleted(t)) /\ TaskActs(t))
        /\ WF_allVars(t \in cancelled /\ End(t) /\ TaskActs(t))

LoopSafety == LoopInit /\ [][LoopNext]_allVars
LoopSpec == LoopSafety /\ LoopFairness

-----------------------------------------------------------------------------
(***************************************************************************)
(* Safety.                                                                 *)
(***************************************************************************)

(* A stop reaches every task it takes the wake-up right from: a stopped    *)
(* task that may still run has been cancelled, also one that was being     *)
(* created when the stop came (publish, manager.rs:187-222).               *)
StoppedIsCancelled == stopped \cap At({"registered", "running"}) \subseteq cancelled

(* No notification is put into the model's context twice, whichever of the *)
(* idle receive, the query's drains, the stop inbox and the retries handled *)
(* it (drain_task_completions, flush_stopped_inbox).                       *)
NotifiedOnce == \A t \in Tasks : mem[t] <= 1

(* While the instance is alive, a completion is pending exactly while one  *)
(* place holds it and will deliver it: neither lost with the ledger still  *)
(* counting it (the instance could never be reclaimed) nor delivered twice *)
(* (manager.rs:277-296).                                                   *)
PendingIsHeld ==
    lifecycle = "Active" /\ connected =>
        LET retry == inbox \ delivered
            held  == <<chan, queue, draining, retry>>
        IN  /\ pending = UNION {held[i] : i \in 1..4}
            /\ \A i, j \in 1..4 : i # j => held[i] \cap held[j] = {}

(* What the ledger calls delivered is in a row of the store, and in memory *)
(* or in the inbox for it (mark_notifications_delivered).                  *)
DeliveredIsKept ==
    /\ delivered \subseteq rows
    /\ lifecycle = "Active" /\ connected =>
         \A t \in delivered : (t \in inbox) # (mem[t] > 0)

(* A run that only notifications caused never begins inside a stop         *)
(* boundary, nor with the cancel flag of an earlier stop still set         *)
(* (StopLedger, manager.rs:15-22).                                         *)
AutoRunStartsClean ==
    AtStep("collect") /\ cause \in AutoStarts => ~open /\ ~cancelFlag

(* The stored context of the current version holds every notification that *)
(* its row says was delivered, across rewrites by compaction               *)
(* (run_loop.rs:183-189).                                                  *)
StoredKeepsDelivered == connected => rows \subseteq stored

(* Work a user asked for begins outside any stop boundary and with the     *)
(* cancel flag reset (run_loop.rs:310-315).                                *)
ExplicitWorkStartsClean ==
    AtStep("collect") /\ cause \in {"UserInput", "UserMessage"} => ~open /\ ~cancelFlag

(* The loop with its notifications implements the admission protocol.      *)
ImplementsRunAdmission == AdmissionSafety

(***************************************************************************)
(* Liveness.                                                               *)
(***************************************************************************)

(* If the loop keeps coming back to receive, every completion that was     *)
(* sent is delivered, unless the instance is closed or loses its consumer. *)
CompletionsAreDelivered ==
    []<>(pc = "select") =>
        \A t \in Tasks :
            t \in pending ~> (t \in delivered \/ lifecycle # "Active" \/ ~connected)
=============================================================================
