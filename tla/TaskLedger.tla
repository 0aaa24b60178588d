----------------------------- MODULE TaskLedger -----------------------------
(***************************************************************************)
(* The background tasks of one instance and the two ledgers kept about     *)
(* them (tasks/manager.rs, agent/tasks.rs): the stop ledger, which says    *)
(* whose completion may not wake the main run any more, and the            *)
(* notification ledger, which says whose completion is still to be         *)
(* delivered.  The actions are those of the tasks themselves; the loop     *)
(* that consumes completions and stops tasks is AgentLoop.                 *)
(*                                                                         *)
(* Only the root tasks spawned by the main run are here: they alone have   *)
(* completions.  A completion is named by its task, and the order of       *)
(* completions in a channel or a queue is left open.                       *)
(***************************************************************************)
EXTENDS Naturals

CONSTANTS
    Tasks,      \* task ids, each spawned at most once
    Events      \* which of the events below the environment may bring about

EventKinds ==
    {"HostFails",    \* a call of the host returns an error
     "TurnFails",    \* a turn ends in an error, of the provider for instance
     "AutoCompact",  \* a turn compacts the context before its request
     "StopCompact",  \* the user cancels during a manual compaction
     "DropSpawn"}    \* an aborted spawn_agent call is dropped at an await
                     \* after its task was entered in the task table

ASSUME EventsAreKnown == Events \subseteq EventKinds

VARIABLES
    stage,      \* stage[t]: how far task t has come
    stamp,      \* stamp[t]: what prepare_task captured before its first await
    cancelled,  \* tasks whose cancellation flag is set
    stopped,    \* StopLedger.stopped
    open,       \* StopLedger.open: a stop boundary is open
    generation, \* StopLedger.generation
    pending,    \* NotificationLedger.pending
    delivered,  \* NotificationLedger.delivered
    chan        \* the completion channel

stopVars   == <<stopped, open, generation>>
ledgerVars == <<stage, stamp, cancelled, stopVars, pending, delivered, chan>>

Stages ==
    {"none",       \* not spawned
     "creating",   \* holds a background slot; the host creates its session
     "registered", \* in the task table and the index, not launched yet
     "running",    \* execute_task has been spawned
     "ended",      \* terminal in the table; its completion is not sent yet
     "done",       \* completion sent, slot released
     "dropped",    \* given up before it was entered anywhere
     "orphan"}     \* in the task table as running, but nothing will run it

Stamps == [generation : Nat, stop : BOOLEAN]
NoStamp == [generation |-> 0, stop |-> FALSE]

LedgerTypeOK ==
    /\ stage \in [Tasks -> Stages]
    /\ stamp \in [Tasks -> Stamps]
    /\ cancelled \cup stopped \cup pending \cup delivered \cup chan \subseteq Tasks
    /\ open \in BOOLEAN
    /\ generation \in Nat

(* An instance starts with the tasks of an earlier one whose completion    *)
(* was never delivered, and notifies them again.                           *)
LedgerInit ==
    /\ \E carried \in SUBSET Tasks :
         /\ chan = carried
         /\ pending = carried
         /\ stage = [t \in Tasks |-> IF t \in carried THEN "done" ELSE "none"]
    /\ stamp = [t \in Tasks |-> NoStamp]
    /\ cancelled = {}
    /\ stopped = {}
    /\ open = FALSE
    /\ generation = 0
    /\ delivered = {}

-----------------------------------------------------------------------------
At(s) == {t \in Tasks : stage[t] \in s}

(* The ids in TaskManager.records, terminal ones included.                 *)
Known == At({"registered", "running", "ended", "done", "orphan"})

(* Tasks that `cancel_all` reaches: not terminal in the task table.        *)
Cancellable == At({"registered", "running", "orphan"})

(* The tool calls of the current turn that are still spawning a task.      *)
Spawning == At({"creating", "registered"})

(* `has_active_tasks`: a slot is held, or a table entry is not terminal.   *)
HasActiveTasks == At({"creating", "registered", "running", "ended", "orphan"}) # {}

CompletionIsStopped(t) == open \/ t \in stopped

MarkDelivered(S) ==
    /\ pending' = pending \ S
    /\ delivered' = delivered \cup S

(* `stop_main_work`: the boundary first, then the cancel signals.          *)
StopWork ==
    /\ open' = TRUE
    /\ generation' = generation + 1
    /\ stopped' = stopped \cup Known
    /\ cancelled' = cancelled \cup Cancellable

CancelAll == cancelled' = cancelled \cup Cancellable

-----------------------------------------------------------------------------
(* The tool call.  What it knows about stops is captured before the host   *)
(* creates the session, and compared with what holds afterwards.           *)

BeginSpawn(t) ==
    /\ stage[t] = "none"
    /\ stage' = [stage EXCEPT ![t] = "creating"]
    /\ stamp' = [stamp EXCEPT ![t] = [generation |-> generation, stop |-> open]]
    /\ UNCHANGED <<cancelled, stopVars, pending, delivered, chan>>

(* The session cannot be created, or the call is aborted meanwhile.        *)
GiveUpSpawn(t) ==
    /\ stage[t] = "creating"
    /\ stage' = [stage EXCEPT ![t] = "dropped"]
    /\ stamp' = [stamp EXCEPT ![t] = NoStamp]
    /\ UNCHANGED <<cancelled, stopVars, pending, delivered, chan>>

(* `publish`: what becomes part of the stop set when the status of t is    *)
(* written.                                                                *)
StoppedBy(t, inherit) == IF inherit \/ open THEN {t} ELSE {}

MutantRegisterQuietly(t) ==
    /\ stage[t] = "creating"
    /\ stage' = [stage EXCEPT ![t] = "registered"]
    /\ stamp' = [stamp EXCEPT ![t] = NoStamp]
    /\ stopped' = stopped \cup StoppedBy(t, stamp[t].stop)
    /\ UNCHANGED <<cancelled, open, generation, pending, delivered, chan>>

(* The entries in the supervisor's table and in the index are two critical *)
(* sections, but a stop between them has the effect of one before both:    *)
(* the task is cancelled through the table and stopped by the index.       *)
Register(t) ==
    LET stopNow == StoppedBy(t, stamp[t].stop \/ stamp[t].generation # generation) IN
    /\ stage[t] = "creating"
    /\ stage' = [stage EXCEPT ![t] = "registered"]
    /\ stamp' = [stamp EXCEPT ![t] = NoStamp]
    /\ stopped' = stopped \cup stopNow
    /\ cancelled' = cancelled \cup stopNow
    /\ UNCHANGED <<open, generation, pending, delivered, chan>>

Launch(t) ==
    /\ stage[t] = "registered"
    /\ stage' = [stage EXCEPT ![t] = "running"]
    /\ UNCHANGED <<stamp, cancelled, stopVars, pending, delivered, chan>>

(* The call was aborted: nothing launches the task nor takes its entry     *)
(* back, although its slot is released.                                    *)
LoseSpawn(t) ==
    /\ "DropSpawn" \in Events
    /\ stage[t] = "registered"
    /\ stage' = [stage EXCEPT ![t] = "orphan"]
    /\ UNCHANGED <<stamp, cancelled, stopVars, pending, delivered, chan>>

(* `cancel_task`: the user or the model cancels one task; its new status   *)
(* is published like any other.                                            *)
CancelTask(t) ==
    /\ t \in Cancellable \ cancelled
    /\ cancelled' = cancelled \cup {t}
    /\ stopped' = stopped \cup StoppedBy(t, FALSE)
    /\ UNCHANGED <<stage, stamp, open, generation, pending, delivered, chan>>

(* `finish_task`, in two steps: the terminal status is in the table and    *)
(* the index before the completion is sent.                                *)
End(t) ==
    /\ stage[t] = "running"
    /\ stage' = [stage EXCEPT ![t] = "ended"]
    /\ stopped' = stopped \cup StoppedBy(t, FALSE)
    /\ UNCHANGED <<stamp, cancelled, open, generation, pending, delivered, chan>>

NotifyCompleted(t) ==
    /\ stage[t] = "ended"
    /\ stage' = [stage EXCEPT ![t] = "done"]
    /\ IF t \in pending \cup delivered
       THEN UNCHANGED <<pending, chan>>
       ELSE pending' = pending \cup {t} /\ chan' = chan \cup {t}
    /\ UNCHANGED <<stamp, cancelled, stopVars, delivered>>

TaskStep(t) ==
    \/ GiveUpSpawn(t) \/ Register(t) \/ Launch(t)
    \/ CancelTask(t) \/ End(t) \/ NotifyCompleted(t)
=============================================================================
