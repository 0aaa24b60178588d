---------------------------- MODULE TaskMessages ----------------------------
(***************************************************************************)
(* One background task of a thread: the child agent that runs it, the      *)
(* messages the main agent and clients send to it, its cancel, its end,    *)
(* and what is left of all this after the server stops and starts again.   *)
(*                                                                         *)
(* The store is the rows agent_task_delivery, agent_task, background_task  *)
(* and agent_run of the task and the child's LLM messages; each action on  *)
(* it is one transaction. Everything else is lost when the server stops.   *)
(***************************************************************************)
EXTENDS Naturals, Sequences, FiniteSets

CONSTANTS
    Sends,      \* the main agent's calls of send_message, each with its own key
    Requests,   \* inputs sent by clients
    EchoIds,    \* keys (client id and echo id) of these inputs
    EchoOf,     \* the key of an input: an input sent again has the same
    TextOf,     \* its content
    Casts,      \* each a set of calls, inputs and TheCancel that take part
    Faults,     \* what may go wrong: "inject", "settle", "finish", "upsert",
                \* "panic", "abandon", "crash"
    MaxFaults   \* bound on how often something goes wrong

TheTask   == "task"
TheCancel == "cancel"
Keys     == Sends \cup EchoIds
Terminal == {"Completed", "Failed", "Cancelled", "Interrupted"}
Statuses == Terminal \cup {"Running", "Cancelling"}

ASSUME TaskAssumption ==
    /\ Sends \cap EchoIds = {} /\ TheTask \notin Sends \cup EchoIds
    /\ EchoOf \in [Requests -> EchoIds]
    /\ DOMAIN TextOf = Requests
    /\ Casts \subseteq SUBSET (Sends \cup Requests \cup {TheCancel})
    /\ MaxFaults \in Nat

VARIABLES
    life,      \* "up", or how far a restart is: "down", "tasks", "deliveries"
    task,      \* TaskEntry: status, accepting, cancelled
    inbox,     \* the entry's inbox of keys
    child,     \* execute_task: where it is, what it drained, how it will end
    rows,      \* agent_task_delivery: status and payload of each key
    history,   \* how often each message is in the child's LLM history
    stored,    \* the rows of the task
    call,      \* where each call of send_message is
    request,   \* where each client input is, and whether the run had ended when it looked
    canceller, \* cancel_task: where it is and the status it copied
    notice,    \* the completion waits to be delivered to the main agent
    notices,   \* notifications of this task in the owner's history
    pushed,    \* history: keys that entered the inbox
    lost,      \* history: pending keys and task rows that a fault left behind
    faults     \* faults so far

vars == <<life, task, inbox, child, rows, history, stored, call, request, canceller,
          notice, notices, pushed, lost, faults>>
taskVars   == <<life, task, inbox, child>>
storeVars  == <<rows, history, stored>>
callerVars == <<call, request, canceller>>
noticeVars == <<notice, notices>>
historyVars == <<pushed, lost, faults>>

NoPayload == <<"none", "">>
AsObject(text) == <<"object", text>>
AsString(text) == <<"string", text>>

Init ==
    /\ life = "up"
    /\ task = [status |-> "Running", accepting |-> TRUE, cancelled |-> FALSE]
    /\ inbox = <<>>
    /\ child = [at |-> "starting", hand |-> <<>>, verdict |-> "Running", undelivered |-> {}]
    /\ rows = [k \in Keys |-> [status |-> "none", payload |-> NoPayload]]
    /\ history = [k \in Keys |-> 0]
    /\ stored = [agent |-> "Running", background |-> "Running", run |-> "Running",
                 undelivered |-> {}, delivered |-> FALSE]
    /\ \E cast \in Casts :   \* who does not take part has had his answer
          /\ call = [k \in Sends |-> IF k \in cast THEN "new" ELSE "refused"]
          /\ request = [r \in Requests |-> [at |-> IF r \in cast THEN "new" ELSE "ended", ended |-> FALSE]]
          /\ canceller = [at |-> IF TheCancel \in cast THEN "new" ELSE "done", copy |-> "Running"]
    /\ notice = FALSE /\ notices = 0
    /\ pushed = {} /\ lost = {} /\ faults = 0

Up == life = "up"
Pending == {k \in Keys : rows[k].status = "Pending"}
Undelivered == {k \in Keys : rows[k].status = "Failed"}

Goes(wrong) == wrong \in Faults /\ faults < MaxFaults /\ faults' = faults + 1

-----------------------------------------------------------------------------
(* Deliveries in the store.                                                  *)

(* enqueue_delivery of a key the store does not have yet                     *)
Register(k, payload) == rows' = [rows EXCEPT ![k] = [status |-> "Pending", payload |-> payload]]

(* settle_deliveries                                                          *)
Fail(keys) == rows' = [k \in Keys |-> IF k \in keys /\ rows[k].status = "Pending"
                                      THEN [rows[k] EXCEPT !.status = "Failed"] ELSE rows[k]]

MutantInject(k) ==
    /\ rows' = IF rows[k].status = "Pending" THEN [rows EXCEPT ![k].status = "Injected"] ELSE rows
    /\ history' = [history EXCEPT ![k] = @ + 1]

(* inject_task_message: history and row in one transaction                    *)
Inject(k) ==
    IF rows[k].status = "Pending"
    THEN /\ rows' = [rows EXCEPT ![k].status = "Injected"]
         /\ history' = [history EXCEPT ![k] = @ + 1]
    ELSE UNCHANGED <<rows, history>>

-----------------------------------------------------------------------------
(* send_message of the main agent.                                            *)

Accepts == task.accepting /\ task.status = "Running"

Push(k) == inbox' = Append(inbox, k) /\ pushed' = pushed \cup {k}

CallGoes(k, from, to) == Up /\ call[k] = from /\ call' = [call EXCEPT ![k] = to]

SendChecks(k) ==
    /\ CallGoes(k, "new", IF Accepts THEN "checked" ELSE "refused")
    /\ UNCHANGED <<taskVars, storeVars, request, canceller, noticeVars, historyVars>>

SendStores(k) ==
    /\ CallGoes(k, "checked", "stored")
    /\ Register(k, AsObject(k))
    /\ UNCHANGED <<taskVars, history, stored, request, canceller, noticeVars, historyVars>>

SendPushes(k) ==
    /\ CallGoes(k, "stored", IF Accepts THEN "sent" ELSE "failing")
    /\ IF Accepts THEN Push(k) ELSE UNCHANGED <<inbox, pushed>>
    /\ UNCHANGED <<life, task, child, storeVars, request, canceller, noticeVars, lost, faults>>

(* fail_task_messages: every pending message of the task                      *)
SendFails(k) ==
    /\ CallGoes(k, "failing", "refused")
    /\ Fail(Keys)
    /\ UNCHANGED <<taskVars, history, stored, request, canceller, noticeVars, historyVars>>

(* A stop of the main run drops the call at one of its awaits.                *)
SendIsDropped(k) ==
    /\ \E from \in {"checked", "stored", "failing"} : CallGoes(k, from, "dropped")
    /\ Goes("abandon")
    /\ lost' = lost \cup ({k} \cap Pending)
    /\ UNCHANGED <<taskVars, storeVars, request, canceller, noticeVars, pushed>>

-----------------------------------------------------------------------------
(* submit_agent_input, for a client.                                          *)

RequestGoes(r, from, to) == request[r].at = from /\ request' = [request EXCEPT ![r].at = to]

(* The handler reads the run before anything else.                            *)
RequestLooks(r) ==
    /\ Up /\ request[r].at = "new"
    /\ request' = [request EXCEPT ![r] = [at |-> "looked", ended |-> stored.run \in Terminal]]
    /\ UNCHANGED <<taskVars, storeVars, call, canceller, noticeVars, historyVars>>

(* task_input_replayed: the stored payload, an object, is compared with the  *)
(* content as a string.                                                       *)
Replayed(r) ==
    LET row == rows[EchoOf[r]] IN
    CASE row.status = "none" -> IF request[r].ended THEN "ended" ELSE "admitted"
      [] row.status # "none" /\ row.payload # AsString(TextOf[r]) -> "conflict"
      [] row.status = "Failed" /\ row.payload = AsString(TextOf[r]) -> "undelivered"
      [] OTHER -> "accepted"

RequestReplays(r) ==
    /\ Up /\ RequestGoes(r, "looked", Replayed(r))
    /\ UNCHANGED <<taskVars, storeVars, call, canceller, noticeVars, historyVars>>

(* send_task_input: enqueue_client_message                                     *)
Enqueued(r) ==
    LET row == rows[EchoOf[r]] IN
    CASE row.status = "none" -> "stored"
      [] row.status # "none" /\ (row.payload # AsObject(TextOf[r]) \/ row.status = "Failed") -> "conflict"
      [] OTHER -> "accepted"

RequestStores(r) ==
    /\ Up /\ RequestGoes(r, "admitted", Enqueued(r))
    /\ IF Enqueued(r) = "stored" THEN Register(EchoOf[r], AsObject(TextOf[r])) ELSE UNCHANGED rows
    /\ UNCHANGED <<taskVars, history, stored, call, canceller, noticeVars, historyVars>>

(* queue_agent_input, by the loop of the instance                              *)
RequestPushes(r) ==
    /\ Up /\ task.accepting /\ task.status \notin Terminal
    /\ RequestGoes(r, "stored", "accepted")
    /\ Push(EchoOf[r])
    /\ UNCHANGED <<life, task, child, storeVars, call, canceller, noticeVars, lost, faults>>

RequestIsRefused(r) ==
    /\ Up /\ ~(task.accepting /\ task.status \notin Terminal)
    /\ RequestGoes(r, "stored", "settling")
    /\ UNCHANGED <<taskVars, storeVars, call, canceller, noticeVars, historyVars>>

(* intervene_agent_run: fail_task_messages, every pending one of the task      *)
RequestSettles(r) ==
    /\ Up /\ RequestGoes(r, "settling", "failing")
    /\ Fail(Keys)
    /\ UNCHANGED <<taskVars, history, stored, call, canceller, noticeVars, historyVars>>

(* fail_client_message: its own; the client is told that it is accepted       *)
RequestFails(r) ==
    /\ Up /\ RequestGoes(r, "failing", "accepted")
    /\ Fail({EchoOf[r]})
    /\ UNCHANGED <<taskVars, history, stored, call, canceller, noticeVars, historyVars>>

(* The connection ends and the handler is dropped.                             *)
RequestIsDropped(r) ==
    /\ Up /\ \E from \in {"stored", "failing"} : RequestGoes(r, from, "dropped")
    /\ Goes("abandon")
    /\ lost' = lost \cup ({EchoOf[r]} \cap Pending)
    /\ UNCHANGED <<taskVars, storeVars, call, canceller, noticeVars, pushed>>

-----------------------------------------------------------------------------
(* The child: queries as long as messages wait, then the end of the task.     *)

ChildGoes(from, to) == Up /\ child.at = from /\ child' = [child EXCEPT !.at = to]

(* drain_pending_user_messages, when a query starts and after each turn       *)
Take ==
    /\ Up
    /\ child.at = "starting" \/ (child.at = "working" /\ inbox # <<>>)
    /\ child' = [child EXCEPT !.at = IF inbox = <<>> THEN "working" ELSE "draining", !.hand = inbox]
    /\ inbox' = <<>>
    /\ UNCHANGED <<life, task, storeVars, callerVars, noticeVars, historyVars>>

MutantNextInHand == child' = [child EXCEPT !.hand = Tail(@),
                                           !.at = IF child.hand = <<>> THEN "working" ELSE "draining"]

NextInHand == child' = [child EXCEPT !.hand = Tail(@),
                                     !.at = IF Len(child.hand) = 1 THEN "working" ELSE "draining"]

InjectNext ==
    /\ Up /\ child.at = "draining"
    /\ NextInHand
    /\ Inject(Head(child.hand))
    /\ UNCHANGED <<life, task, inbox, stored, callerVars, noticeVars, historyVars>>

(* The transaction fails: the message is neither in memory nor settled.        *)
InjectBreaks ==
    /\ Up /\ child.at = "draining"
    /\ Goes("inject")
    /\ NextInHand
    /\ UNCHANGED <<life, task, inbox, storeVars, callerVars, noticeVars, pushed, lost>>

QueryEnds ==
    /\ \E outcome \in {"ended", "ended in error"} : ChildGoes("working", outcome)
    /\ UNCHANGED <<life, task, inbox, storeVars, callerVars, noticeVars, historyVars>>

(* continue_for_message, under the lock of the tasks                          *)
Stays == child.at = "ended" /\ ~task.cancelled /\ inbox # <<>>

ContinueForMessage ==
    /\ Up /\ Stays
    /\ ChildGoes("ended", "starting")
    /\ UNCHANGED <<life, task, inbox, storeVars, callerVars, noticeVars, historyVars>>

StopAccepting ==
    /\ Up /\ child.at \in {"ended", "ended in error"} /\ ~Stays
    /\ task' = [task EXCEPT !.accepting = FALSE]
    /\ child' = [child EXCEPT !.at = "leaving", !.verdict = IF child.at = "ended" THEN "Completed" ELSE "Failed"]
    /\ UNCHANGED <<life, inbox, storeVars, callerVars, noticeVars, historyVars>>

(* The status is chosen when all events of the child were handled.            *)
Conclude ==
    /\ ~task.cancelled
    /\ ChildGoes("leaving", "finishing")
    /\ UNCHANGED <<life, task, inbox, storeVars, callerVars, noticeVars, historyVars>>

ConcludeCancelled ==
    /\ Up /\ child.at = "leaving" /\ task.cancelled
    /\ child' = [child EXCEPT !.at = "finishing", !.verdict = "Cancelled"]
    /\ UNCHANGED <<life, task, inbox, storeVars, callerVars, noticeVars, historyVars>>

ChildPanics ==
    /\ Up /\ child.at \in {"starting", "working", "draining"}
    /\ child' = [child EXCEPT !.at = "panicked", !.hand = <<>>]
    /\ Goes("panic")
    /\ UNCHANGED <<life, task, inbox, storeVars, callerVars, noticeVars, pushed, lost>>

(* finish_panicked_task                                                         *)
FinishPanicked ==
    /\ Up /\ child.at = "panicked"
    /\ child' = [child EXCEPT !.at = "finishing", !.verdict = "Failed"]
    /\ task' = [task EXCEPT !.accepting = FALSE]
    /\ UNCHANGED <<life, inbox, storeVars, callerVars, noticeVars, historyVars>>

-----------------------------------------------------------------------------
(* finish_task.                                                               *)

MutantSettle ==
    /\ Up /\ child.at = "finishing"
    /\ Fail(Keys)
    /\ child' = [child EXCEPT !.at = "settled", !.undelivered = Pending,
                  !.verdict = IF Pending # {} /\ @ = "Completed" THEN "Failed" ELSE @]
    /\ UNCHANGED <<life, task, inbox, history, stored, callerVars, noticeVars, historyVars>>

(* fail_pending_task_messages; it counts what was ever failed                 *)
Settle ==
    /\ Up /\ child.at = "finishing"
    /\ Fail(Keys)
    /\ child' = [child EXCEPT !.at = "settled", !.undelivered = Undelivered',
                  !.verdict = IF Undelivered' # {} /\ @ = "Completed" THEN "Failed" ELSE @]
    /\ UNCHANGED <<life, task, inbox, history, stored, callerVars, noticeVars, historyVars>>

SettleBreaks ==
    /\ Up /\ child.at = "finishing"
    /\ Goes("settle")
    /\ child' = [child EXCEPT !.at = "settled", !.verdict = "Failed"]
    /\ lost' = lost \cup Pending
    /\ UNCHANGED <<life, task, inbox, storeVars, callerVars, noticeVars, pushed>>

(* finish_agent_task: the three rows of the task in one transaction           *)
StoreFinal ==
    /\ ChildGoes("settled", "stored")
    /\ stored' = [stored EXCEPT !.agent = child.verdict, !.background = child.verdict,
                                !.run = child.verdict, !.undelivered = child.undelivered]
    /\ UNCHANGED <<life, task, inbox, rows, history, callerVars, noticeVars, historyVars>>

StoreFinalBreaks ==
    /\ Up /\ child.at = "settled"
    /\ Goes("finish")
    /\ child' = [child EXCEPT !.at = "stored", !.verdict = "Failed"]
    /\ lost' = lost \cup {TheTask}
    /\ UNCHANGED <<life, task, inbox, storeVars, callerVars, noticeVars, pushed>>

FinishInMemory ==
    /\ ChildGoes("stored", "finished")
    /\ task' = [task EXCEPT !.status = child.verdict]
    /\ UNCHANGED <<life, inbox, storeVars, callerVars, noticeVars, historyVars>>

MutantUpsert(status) ==
    \/ stored' = [stored EXCEPT !.background = status, !.delivered = FALSE] /\ UNCHANGED faults
    \/ Goes("upsert") /\ UNCHANGED stored

(* TaskManager::update: an upsert whose failure is ignored                    *)
Upsert(status) ==
    \/ stored' = [stored EXCEPT !.background = status] /\ UNCHANGED faults
    \/ Goes("upsert") /\ UNCHANGED stored

UpsertFinal ==
    /\ ChildGoes("finished", "published")
    /\ Upsert(task.status)
    /\ UNCHANGED <<life, task, inbox, rows, history, callerVars, noticeVars, pushed, lost>>

NotifyCompleted ==
    /\ ChildGoes("published", "gone")
    /\ notice' = TRUE
    /\ UNCHANGED <<life, task, inbox, storeVars, callerVars, notices, historyVars>>

(* insert_task_notification, asked for by the main agent's loop                *)
Deliver ==
    /\ Up /\ notice
    /\ notice' = FALSE
    /\ notices' = IF stored.delivered THEN notices ELSE notices + 1
    /\ stored' = [stored EXCEPT !.delivered = TRUE]
    /\ UNCHANGED <<taskVars, rows, history, callerVars, historyVars>>

-----------------------------------------------------------------------------
(* cancel_task.                                                               *)

CancellerGoes(from, to) == Up /\ canceller.at = from /\ canceller' = [canceller EXCEPT !.at = to]

CancelMarks ==
    /\ CancellerGoes("new", "marked")
    /\ task.status \notin Terminal
    /\ task' = [status |-> "Cancelling", accepting |-> FALSE, cancelled |-> TRUE]
    /\ UNCHANGED <<life, inbox, child, storeVars, call, request, noticeVars, historyVars>>

CancelCopies ==
    /\ Up /\ canceller.at = "marked"
    /\ canceller' = [at |-> "copied", copy |-> task.status]
    /\ UNCHANGED <<taskVars, storeVars, call, request, noticeVars, historyVars>>

CancelUpserts ==
    /\ CancellerGoes("copied", "upserted")
    /\ Upsert(canceller.copy)
    /\ UNCHANGED <<taskVars, rows, history, call, request, noticeVars, pushed, lost>>

MutantCancelling(status) == "Cancelling"

(* set_agent_tasks_cancelling                                                  *)
Cancelling(status) == IF status = "Running" THEN "Cancelling" ELSE status

CancelStores ==
    /\ CancellerGoes("upserted", "done")
    /\ stored' = [stored EXCEPT !.agent = Cancelling(@), !.background = Cancelling(@)]
    /\ UNCHANGED <<taskVars, rows, history, call, request, noticeVars, historyVars>>

-----------------------------------------------------------------------------
(* Stop and start of the server, and sessions that are closed and built.      *)

UnderWay(at) == at \notin {"new", "accepted", "conflict", "undelivered", "ended"}

Crash ==
    /\ life # "down" /\ Goes("crash")
    /\ life' = "down"
    /\ task' = [status |-> "Interrupted", accepting |-> FALSE, cancelled |-> FALSE]
    /\ inbox' = <<>>
    /\ child' = [at |-> "gone", hand |-> <<>>, verdict |-> "Interrupted", undelivered |-> {}]
    /\ call' = [k \in Sends |-> IF call[k] \in {"new", "sent", "refused"} THEN call[k] ELSE "dropped"]
    /\ request' = [r \in Requests |-> IF UnderWay(request[r].at) THEN [request[r] EXCEPT !.at = "dropped"]
                                                                 ELSE request[r]]
    /\ canceller' = [canceller EXCEPT !.at = IF @ = "new" THEN "new" ELSE "done"]
    /\ notice' = FALSE
    /\ UNCHANGED <<storeVars, notices, pushed, lost>>

MutantInterrupted(status) == IF status = "Running" THEN "Interrupted" ELSE status

(* recover_interrupted_state                                                   *)
Interrupted(status) == IF status \in {"Running", "Cancelling"} THEN "Interrupted" ELSE status

RecoverTasks ==
    /\ life = "down"
    /\ life' = "tasks"
    /\ stored' = [stored EXCEPT !.agent = Interrupted(@), !.background = Interrupted(@),
                    !.run = IF @ \in Terminal THEN @
                            ELSE IF Interrupted(stored.agent) = "Interrupted" THEN "Interrupted" ELSE "Cancelled"]
    /\ UNCHANGED <<task, inbox, child, rows, history, callerVars, noticeVars, historyVars>>

(* fail_pending_deliveries, a transaction of its own                           *)
RecoverDeliveries ==
    /\ life = "tasks"
    /\ life' = "deliveries"
    /\ Fail(Keys)
    /\ stored' = [stored EXCEPT !.undelivered = IF Pending = {} THEN @ ELSE Undelivered']
    /\ UNCHANGED <<task, inbox, child, history, callerVars, noticeVars, historyVars>>

(* AgentTaskSupervisor::new: what a session restores from the rows             *)
Restore ==
    /\ task' = [status |-> stored.agent, accepting |-> FALSE, cancelled |-> FALSE]
    /\ notice' = (stored.agent \in Terminal /\ ~stored.delivered)

Load ==
    /\ life = "deliveries"
    /\ life' = "up"
    /\ Restore
    /\ UNCHANGED <<inbox, child, storeVars, callerVars, notices, historyVars>>

(* An idle session is reclaimed and built again: no task is at work, no       *)
(* completion waits, and the main agent and its tools are at rest. A client's *)
(* input that has the old session finds its instance closed.                  *)
Rebuild ==
    /\ Up /\ child.at = "gone" /\ task.status \in Terminal /\ ~notice
    /\ \A k \in Sends : call[k] \notin {"checked", "stored", "failing"}
    /\ canceller.at \in {"new", "done"}
    /\ Restore
    /\ inbox' = <<>>
    /\ request' = [r \in Requests |-> IF request[r].at \in {"stored", "settling"}
                                      THEN [request[r] EXCEPT !.at = "failing"] ELSE request[r]]
    /\ UNCHANGED <<life, child, storeVars, call, canceller, notices, historyVars>>

-----------------------------------------------------------------------------
Sending(k) == SendChecks(k) \/ SendStores(k) \/ SendPushes(k) \/ SendFails(k) \/ SendIsDropped(k)

Requesting(r) ==
    RequestLooks(r) \/ RequestReplays(r) \/ RequestStores(r) \/ RequestPushes(r) \/ RequestIsRefused(r)
    \/ RequestSettles(r) \/ RequestFails(r) \/ RequestIsDropped(r)

Child == Take \/ InjectNext \/ InjectBreaks \/ QueryEnds \/ ContinueForMessage \/ StopAccepting
         \/ Conclude \/ ConcludeCancelled \/ ChildPanics \/ FinishPanicked \/ Settle \/ SettleBreaks
         \/ StoreFinal \/ StoreFinalBreaks \/ FinishInMemory \/ UpsertFinal \/ NotifyCompleted

Canceller == CancelMarks \/ CancelCopies \/ CancelUpserts \/ CancelStores

Server == Crash \/ RecoverTasks \/ RecoverDeliveries \/ Load \/ Rebuild

Next == (\E k \in Sends : Sending(k)) \/ (\E r \in Requests : Requesting(r))
        \/ Child \/ Deliver \/ Canceller \/ Server

-----------------------------------------------------------------------------
(* The child, the main agent's loop and a server that starts go on; nobody    *)
(* has to call, and nothing has to go wrong.                                   *)
Fairness ==
    /\ WF_vars(Take \/ InjectNext \/ QueryEnds \/ ContinueForMessage \/ StopAccepting \/ Conclude
               \/ ConcludeCancelled \/ FinishPanicked \/ Settle \/ StoreFinal \/ FinishInMemory
               \/ UpsertFinal \/ NotifyCompleted)
    /\ WF_vars(Deliver)
    /\ WF_vars(RecoverTasks \/ RecoverDeliveries \/ Load)

TaskSpec == Init /\ [][Next]_vars /\ Fairness

-----------------------------------------------------------------------------
(* Type correctness.                                                          *)
TaskTyped ==
    /\ life \in {"up", "down", "tasks", "deliveries"}
    /\ task \in [status : Statuses, accepting : BOOLEAN, cancelled : BOOLEAN]

ChildTyped ==
    /\ child \in [at : {"starting", "working", "draining", "ended", "ended in error", "leaving", "panicked",
                        "finishing", "settled", "stored", "finished", "published", "gone"},
                  hand : Seq(Keys), verdict : Terminal \cup {"Running"}, undelivered : SUBSET Keys]
    /\ child.at = "draining" => child.hand # <<>>

RowsTyped ==
    /\ rows \in [Keys -> [status : {"none", "Pending", "Injected", "Failed"},
                          payload : {NoPayload} \cup {AsObject(t) : t \in Sends \cup {TextOf[r] : r \in Requests}}]]
    /\ history \in [Keys -> Nat]

StoredTyped ==
    stored \in [agent : Statuses, background : Statuses, run : Terminal \cup {"Running"},
                undelivered : SUBSET Keys, delivered : BOOLEAN]

CallersTyped ==
    /\ call \in [Sends -> {"new", "checked", "stored", "sent", "failing", "refused", "dropped"}]
    /\ request \in [Requests -> [at : {"new", "looked", "admitted", "stored", "settling", "failing", "accepted",
                                       "conflict", "undelivered", "ended", "dropped"}, ended : BOOLEAN]]
    /\ canceller \in [at : {"new", "marked", "copied", "upserted", "done"}, copy : Statuses]

MessagesTyped ==
    /\ inbox \in Seq(Keys)
    /\ pushed \subseteq Keys /\ lost \subseteq Keys \cup {TheTask}
    /\ notice \in BOOLEAN /\ notices \in Nat
    /\ faults \in 0..MaxFaults

TaskTypeOK == TaskTyped /\ ChildTyped /\ RowsTyped /\ StoredTyped /\ CallersTyped /\ MessagesTyped

(* A message is in the child's model history once if its delivery says it     *)
(* was injected and not at all otherwise, whatever is retried, refused,       *)
(* settled by others or cut off by a crash.                                   *)
InjectedOnce == \A k \in Keys : history[k] = IF rows[k].status = "Injected" THEN 1 ELSE 0

Settles(k) ==
    IF k \in Sends THEN call[k] \in {"stored", "failing"}
    ELSE \E r \in Requests : EchoOf[r] = k /\ request[r].at \in {"stored", "settling", "failing"}

(* While the server runs, what is open has somebody at work on it: a task     *)
(* that did not end its child, a pending delivery the end of that child or    *)
(* its sender, unless a failed transaction or a dropped call left it behind.  *)
NothingIsStranded == Up =>
    /\ task.status \notin Terminal => child.at # "gone" \/ TheTask \in lost
    /\ \A k \in Pending \ lost :
          child.at \in {"settled", "stored", "finished", "published", "gone"} => Settles(k)

(* A task is reported completed only if every message that its child had      *)
(* accepted is in the child's model history.                                  *)
CompletedMeansDelivered ==
    stored.agent = "Completed" => \A k \in pushed : rows[k].status = "Injected"

(* What the store says of an ended task and of a settled message is never     *)
(* taken back, neither by a cancel or an injection that comes late nor by a   *)
(* restart.                                                                   *)
FinalStays ==
    [][/\ stored.agent \in Terminal => stored'.agent = stored.agent /\ stored'.run = stored.run
       /\ \A k \in Keys : rows[k].status \in {"Injected", "Failed"} => rows'[k].status = rows[k].status]_vars

(* The owner is told of an ended task once, also if the server is stopped     *)
(* between the end and the notification.                                      *)
CompletionIsNotified == stored.agent \in Terminal ~> [](notices = 1)

(* docs/protocol.md:76: an input that was accepted may be sent again.          *)
RetrySucceeds ==
    \A q, r \in Requests :
        /\ EchoOf[q] = EchoOf[r] /\ TextOf[q] = TextOf[r]
        /\ request[q].at = "accepted" /\ request[r].at = "conflict"
        => rows[EchoOf[r]].status = "Failed"
=============================================================================
