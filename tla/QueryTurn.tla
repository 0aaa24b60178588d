----------------------------- MODULE QueryTurn -----------------------------
(***************************************************************************)
(* One query of an agent instance (engine/mod.rs run_query, engine/turn.rs,*)
(* engine/tool.rs, engine/pause.rs, util/cancel.rs): its turns, the tool   *)
(* calls each starts, their pauses, and how a cancel ends them.  The query *)
(* is that of the main agent or of a child; the other queries of the       *)
(* instance share its table of pauses, and each drains the whole table at  *)
(* its own boundaries (OthersDrain).                                       *)
(*                                                                         *)
(* Every value of pc is a point where the query awaits, or where it has    *)
(* read the cancel flag and not yet registered its wait.  A stop of the    *)
(* main query is handled by the task that polls the query, so it arrives   *)
(* only at an await; a child is cancelled by another task at any point.    *)
(***************************************************************************)
EXTENDS Naturals, FiniteSets

CONSTANTS
    Calls,       \* the tool calls the provider may stream in a turn
    TurnLimit,   \* settings.max_turns
    RepeatLimit, \* REPEAT_LIMIT
    Events       \* what the environment may do: "HostFails", "ToolPanics"

ASSUME QueryAssumption ==
    /\ IsFiniteSet(Calls)
    /\ TurnLimit \in Nat /\ RepeatLimit \in Nat \ {0}

VARIABLES
    kind,      \* "main" or "child"
    pc,        \* where the query is
    turns,     \* QueryState.turns
    final,     \* QueryState.finalization
    finish,    \* the finish reason recorded last
    streamed,  \* tool calls in partial_blocks
    text,      \* partial_blocks has anything else
    done,      \* the finish reason of the Done event, or "no"
    asked,     \* requested_finalization
    denial,    \* stop_after_permission_denial
    repeats,   \* RepeatGuard.repeats
    tool,      \* tool[c]: the state of a call
    joined,    \* the calls whose tasks join_next has returned
    pauses,    \* PendingToolPauses: the calls of this query in it
    retaining, \* a cancel_task has not yet removed the child's pauses
    open,      \* tool_use blocks in the messages without a tool_result
    inbox,     \* pending_user_messages, at most one
    flag,      \* the cancel flag
    woken,     \* notify_waiters came while the query was registered
    broken,    \* EngineEventSink.persistence_failure
    recorded   \* tool calls whose record the host has stored

loopVars   == <<turns, final, finish>>
streamVars == <<streamed, text, done, asked, denial, repeats>>
toolVars   == <<tool, joined, pauses, retaining>>
signalVars == <<flag, woken>>
queryVars == <<pc, loopVars, streamVars, toolVars, open, inbox, signalVars, broken, recorded>>
vars == <<kind, queryVars>>

Gaps  == {"invoking", "draining"}    \* the flag is read, the wait is not registered
Waits == {"request", "stream", "joining"}
Steps == {"idle", "notices", "inbox", "top", "begin", "invoke", "record", "drain", "cleanup",
          "abort", "settle", "after", "end", "between", "closed"} \cup Gaps \cup Waits
Resting == {"idle", "closed"}
IsMain == kind = "main"

Live == {"spawned", "asking", "checked", "waiting", "working"}
ToolStates == Live \cup {"none", "result", "denied", "panicked", "dropped"}
Ended == {c \in Calls : tool[c] \notin Live \cup {"none"}}
LiveCalls == {c \in Calls : tool[c] \in Live}

StepsTyped ==
    /\ kind \in {"main", "child"}
    /\ pc \in Steps
    /\ turns \in 0..(TurnLimit + 1)
    /\ final \in {"none", "max", "repeat"}
    /\ finish \in {"stop", "tool", "error", "cancelled"}
    /\ done \in {"no", "tool", "stop"}
    /\ repeats \in 0..RepeatLimit
    /\ inbox \in 0..1

CallsTyped ==
    /\ tool \in [Calls -> ToolStates]
    /\ streamed \subseteq Calls /\ joined \subseteq Calls /\ pauses \subseteq Calls
    /\ open \subseteq Calls /\ recorded \subseteq Calls

FlagsTyped ==
    /\ text \in BOOLEAN /\ asked \in BOOLEAN /\ denial \in BOOLEAN /\ retaining \in BOOLEAN
    /\ flag \in BOOLEAN /\ woken \in BOOLEAN /\ broken \in BOOLEAN

QueryTypeOK == StepsTyped /\ CallsTyped /\ FlagsTyped

NoCalls == [c \in Calls |-> "none"]

QueryInit ==
    /\ kind \in {"main", "child"}
    /\ pc = "idle"
    /\ turns = 0 /\ final = "none" /\ finish = "stop"
    /\ streamed = {} /\ text = FALSE /\ done = "no"
    /\ asked = FALSE /\ denial = FALSE /\ repeats = 0
    /\ tool = NoCalls /\ joined = {}
    /\ pauses = {} /\ retaining = FALSE
    /\ open = {} /\ inbox = 0
    /\ flag = FALSE /\ woken = FALSE
    /\ broken = FALSE /\ recorded = {}

Goto(s) == pc' = s

-----------------------------------------------------------------------------
(* Pauses and the calls that wait for them.                                *)

(* The sender of each key in P is used or dropped: its call, if it still   *)
(* waits, goes on with "Tool execution cancelled".                         *)
Released(P) ==
    [c \in Calls |-> IF c \in P /\ tool[c] = "waiting" THEN "result" ELSE tool[c]]

(* `drain_pending_tool_pauses`: the whole table, whoever calls it.         *)
DrainPauses == pauses' = {} /\ tool' = Released(pauses)

MutantAborted == tool

(* JoinSet::abort_all: a task is dropped at the await it has reached.      *)
Aborted == [c \in Calls |-> IF tool[c] \in Live THEN "dropped" ELSE tool[c]]

(* `ToolExecutor::execute` and the permission check of `RegisteredTool`.   *)
BeginTool(c) ==
    /\ tool[c] = "spawned"
    /\ \E s \in IF flag THEN {"result"} ELSE {"result", "working", "asking"} :
           tool' = [tool EXCEPT ![c] = s]
    /\ UNCHANGED <<pc, loopVars, streamVars, joined, pauses, retaining, open, inbox,
                   signalVars, broken, recorded>>

(* `request_permission`, `request_user_input`: the flag is read first ...  *)
CheckTool(c) ==
    /\ tool[c] = "asking"
    /\ tool' = [tool EXCEPT ![c] = IF flag THEN "result" ELSE "checked"]
    /\ UNCHANGED <<pc, loopVars, streamVars, joined, pauses, retaining, open, inbox,
                   signalVars, broken, recorded>>

(* ... and the pause is entered later, under the table's lock.             *)
AskTool(c) ==
    /\ tool[c] = "checked"
    /\ tool' = [tool EXCEPT ![c] = IF c \in pauses THEN "denied" ELSE "waiting"]
    /\ pauses' = pauses \cup {c}
    /\ UNCHANGED <<pc, loopVars, streamVars, joined, retaining, open, inbox,
                   signalVars, broken, recorded>>

(* `resolve_tool_pause`: approved, denied, or denied with a note; an       *)
(* answer of the wrong type drops the sender, which cancels the call.      *)
Answer(c) ==
    /\ c \in pauses
    /\ pauses' = pauses \ {c}
    /\ \E s \in {"working", "denied", "result"} :
           tool' = IF tool[c] = "waiting" THEN [tool EXCEPT ![c] = s] ELSE tool
    /\ UNCHANGED <<pc, loopVars, streamVars, joined, retaining, open, inbox,
                   signalVars, broken, recorded>>

EndTool(c) ==
    /\ tool[c] = "working"
    /\ \/ tool' = [tool EXCEPT ![c] = "result"]
       \/ "ToolPanics" \in Events /\ tool' = [tool EXCEPT ![c] = "panicked"]
    /\ UNCHANGED <<pc, loopVars, streamVars, joined, pauses, retaining, open, inbox,
                   signalVars, broken, recorded>>

ToolStep(c) == BeginTool(c) \/ CheckTool(c) \/ AskTool(c)

-----------------------------------------------------------------------------
(* The loop of `run_query`.                                                *)

Start ==
    /\ pc = "idle"
    /\ Goto("notices")
    /\ DrainPauses
    /\ inbox' = 0
    /\ flag' = FALSE
    /\ open' = IF IsMain THEN open ELSE {}
    /\ retaining' = FALSE
    /\ UNCHANGED <<loopVars, streamVars, joined, woken, broken, recorded>>

(* `execute_task`: the same engine runs again while messages are left.     *)
Rerun ==
    /\ pc = "between"
    /\ finish' = "stop"
    /\ IF flag \/ finish \in {"error", "cancelled"} \/ inbox = 0
       THEN /\ Goto("idle") /\ UNCHANGED <<pauses, tool>>
            /\ broken' = FALSE
       ELSE Goto("notices") /\ DrainPauses /\ UNCHANGED broken
    /\ UNCHANGED <<turns, final, streamVars, joined, retaining, open, inbox, signalVars, recorded>>

(* What `drain_task_completions` answers; only the main query is notified. *)
Notices == {"empty"} \cup IF IsMain THEN {"injected", "delivered", "failed"} ELSE {}

(* The first drain: without its internal input a query does not start.     *)
FirstNotices ==
    /\ pc = "notices"
    /\ \E notice \in Notices, required \in {FALSE, IsMain} :
           IF required /\ notice \in {"empty", "failed"}
           THEN /\ Goto("idle")
                /\ broken' = FALSE
           ELSE /\ Goto(IF IsMain THEN "top" ELSE "inbox")
                /\ UNCHANGED broken
    /\ UNCHANGED <<loopVars, streamVars, toolVars, open, inbox, signalVars, recorded>>

FirstMessages ==
    /\ pc = "inbox"
    /\ Goto("top")
    /\ inbox' = 0
    /\ UNCHANGED <<loopVars, streamVars, toolVars, open, signalVars, broken, recorded>>

MutantLimitReached == final = "none" /\ turns > TurnLimit

LimitReached == final = "none" /\ turns >= TurnLimit

(* The head of the loop, after the commit barrier.                         *)
Top ==
    /\ pc = "top"
    /\ IF broken
       THEN /\ Goto("end") /\ finish' = "error"
            /\ UNCHANGED final
       ELSE /\ final' = IF LimitReached THEN "max" ELSE final
            /\ IF flag
               THEN Goto("end") /\ finish' = "cancelled"
               ELSE Goto("begin") /\ UNCHANGED finish
    /\ UNCHANGED <<turns, streamVars, toolVars, open, inbox, signalVars, broken, recorded>>

(* A completed turn asks for another one; an injected message needs the    *)
(* acknowledgement of the host in a child.                                 *)
GoesOn ==
    \E notice \in Notices, acked \in {TRUE, IsMain} :
        \/ notice = "injected"
        \/ inbox > 0 /\ acked
        \/ finish = "tool" /\ ~denial

MayStop ==
    \E notice \in Notices, acked \in {TRUE, IsMain} :
        /\ notice # "injected"
        /\ inbox = 0 \/ ~acked
        /\ finish # "tool" \/ denial

MutantAfter ==
    /\ pc = "after" /\ final = "none" /\ ~asked
    /\ \/ finish = "tool" /\ ~denial /\ Goto("top") /\ inbox' = 0
       \/ (finish # "tool" \/ denial) /\ Goto("end") /\ UNCHANGED inbox
    /\ denial' = FALSE
    /\ UNCHANGED <<final, asked, turns, finish, streamed, text, done, repeats, toolVars, open,
                   signalVars, broken, recorded>>

(* A completed turn: notifications first, then messages, then the limit    *)
(* asked for, the user's denial and the finish reason.                     *)
After ==
    /\ pc = "after"
    /\ \/ final # "none" /\ Goto("end") /\ UNCHANGED <<final, inbox>>
       \/ final = "none" /\ asked /\ Goto("top") /\ final' = "repeat" /\ inbox' = 0
       \/ final = "none" /\ ~asked /\ GoesOn /\ Goto("top") /\ inbox' = 0 /\ UNCHANGED final
       \/ final = "none" /\ ~asked /\ MayStop /\ Goto("end") /\ inbox' = 0 /\ UNCHANGED final
    /\ asked' = FALSE /\ denial' = FALSE
    /\ UNCHANGED <<turns, finish, streamed, text, done, repeats, toolVars, open, signalVars,
                   broken, recorded>>

(* What is local to the query is gone with it.                             *)
ForgetQuery ==
    /\ turns' = 0 /\ final' = "none"
    /\ finish' = IF IsMain THEN "stop" ELSE finish
    /\ broken' = IF IsMain THEN FALSE ELSE broken
    /\ asked' = FALSE /\ denial' = FALSE
    /\ repeats' = 0

MutantRunBoundary == /\ inbox' = IF IsMain THEN 0 ELSE inbox
                     /\ UNCHANGED <<pauses, tool>>

(* The messages of a main query do not outlive it; those of a child do.    *)
RunBoundary == /\ inbox' = IF IsMain THEN 0 ELSE inbox
               /\ DrainPauses

End ==
    /\ pc = "end"
    /\ Goto(IF IsMain THEN "idle" ELSE "between")
    /\ RunBoundary
    /\ ForgetQuery
    /\ UNCHANGED <<streamed, text, done, joined, retaining, open, signalVars, recorded>>

-----------------------------------------------------------------------------
(* A turn.                                                                 *)

Interrupt(reason) == Goto("settle") /\ finish' = reason

Begin ==
    /\ pc = "begin"
    /\ IF broken THEN Interrupt("error") ELSE Goto("invoke") /\ UNCHANGED finish
    /\ UNCHANGED <<turns, final, streamVars, toolVars, open, inbox, signalVars, broken, recorded>>

(* `invoke_or_cancel`: the flag, then the wait.                            *)
Invoke ==
    /\ pc = "invoke"
    /\ IF flag THEN Interrupt("cancelled") ELSE Goto("invoking") /\ UNCHANGED finish
    /\ UNCHANGED <<turns, final, streamVars, toolVars, open, inbox, signalVars, broken, recorded>>

Request ==
    /\ pc = "request"
    /\ \/ Goto("stream") /\ UNCHANGED finish
       \/ Interrupt("error")
    /\ woken' = FALSE
    /\ UNCHANGED <<turns, final, streamVars, toolVars, open, inbox, flag, broken, recorded>>

RequestCancelled ==
    /\ pc = "request" /\ woken
    /\ Interrupt("cancelled")
    /\ woken' = FALSE
    /\ UNCHANGED <<turns, final, streamVars, toolVars, open, inbox, flag, broken, recorded>>

(* The stream has ended: a cancel goes first, then a missing Done.         *)
EndStream ==
    IF flag \/ done = "no"
    THEN /\ Goto("cleanup")
         /\ finish' = IF flag THEN "cancelled" ELSE "error"
         /\ UNCHANGED open
    ELSE /\ Goto("drain")
         /\ open' = open \cup streamed
         /\ UNCHANGED finish

(* A provider event: the flag is read after it has arrived.                *)
StreamEvent ==
    /\ pc = "stream"
    /\ woken' = FALSE
    /\ IF flag
       THEN EndStream /\ UNCHANGED <<streamed, text, done>>
       ELSE \/ EndStream /\ UNCHANGED <<streamed, text, done>>
            \/ /\ done = "no" /\ text' = TRUE
               /\ UNCHANGED <<pc, finish, streamed, done, open>>
            \/ /\ done = "no"
               /\ \E c \in Calls \ streamed :
                      streamed' = streamed \cup {c}
               /\ Goto("record") /\ UNCHANGED <<finish, text, done, open>>
            \/ /\ done = "no" /\ \E f \in {"tool", "stop"} : done' = f
               /\ UNCHANGED <<pc, finish, streamed, text, open>>
    /\ UNCHANGED <<turns, final, asked, denial, repeats, toolVars, inbox, flag, broken, recorded>>

StreamCancelled ==
    /\ pc = "stream" /\ woken
    /\ EndStream
    /\ woken' = FALSE
    /\ UNCHANGED <<turns, final, streamVars, toolVars, inbox, flag, broken, recorded>>

MutantAcknowledged == ~broken

(* CommitBarrier: the sink has handled all that was sent before it.        *)
Acknowledged == ~broken'

MutantRejects == asked

(* `rejection_reason`, before the repeat guard is asked.                   *)
Rejects == final # "none" \/ asked

(* ToolUse: the record is stored and acknowledged, then `rejection_reason` *)
(* answers the call or its task is spawned.                                *)
Record ==
    /\ pc = "record"
    /\ \E c \in {d \in streamed : tool[d] = "none"},
          stored \in {TRUE, "HostFails" \notin Events} :
        /\ recorded' = IF stored THEN recorded \cup {c} ELSE recorded
        /\ broken' = (broken \/ ~stored)
        /\ IF ~Acknowledged
           THEN EndStream /\ UNCHANGED <<tool, asked, repeats>>
           ELSE /\ Goto("stream") /\ UNCHANGED <<finish, open>>
                /\ IF Rejects
                   THEN /\ tool' = [tool EXCEPT ![c] = "result"]
                        /\ UNCHANGED <<asked, repeats>>
                   ELSE \E same \in {FALSE, repeats > 0} :
                        LET n == IF same THEN repeats + 1 ELSE 1 IN
                        /\ repeats' = n
                        /\ asked' = (n >= RepeatLimit)
                        /\ tool' = [tool EXCEPT ![c] =
                                        IF n >= RepeatLimit THEN "result" ELSE "spawned"]
    /\ UNCHANGED <<turns, final, streamed, text, done, denial, joined, pauses, retaining,
                   inbox, signalVars>>

(* `finish_interrupted_turn`: the pauses, then the tasks, then the message *)
(* with a result for each of its calls.                                    *)
Cleanup ==
    /\ pc = "cleanup"
    /\ Goto("abort")
    /\ DrainPauses
    /\ UNCHANGED <<loopVars, streamVars, joined, retaining, open, inbox, signalVars,
                   broken, recorded>>

Abort ==
    /\ pc = "abort"
    /\ Goto("settle")
    /\ tool' = NoCalls
    /\ UNCHANGED <<loopVars, streamVars, joined, pauses, retaining, open, inbox,
                   signalVars, broken, recorded>>

(* The select polls `notified()`: from here on a cancel wakes the query.   *)
Register ==
    /\ pc \in Gaps
    /\ Goto(IF pc = "invoking" THEN "request" ELSE "joining")
    /\ woken' = FALSE
    /\ UNCHANGED <<loopVars, streamVars, toolVars, open, inbox, flag, broken, recorded>>

(* `drain_tasks`: the flag, then the wait for a task or for the cancel.    *)
Drain ==
    /\ pc = "drain" /\ LiveCalls # {}
    /\ Goto("draining")
    /\ tool' = IF flag THEN Aborted ELSE tool
    /\ joined' = Ended
    /\ UNCHANGED <<loopVars, streamVars, pauses, retaining, open, inbox, signalVars, broken, recorded>>

Join ==
    /\ pc = "joining"
    /\ woken \/ ~(Ended \subseteq joined)
    /\ Goto("drain")
    /\ woken' = FALSE
    /\ UNCHANGED <<loopVars, streamVars, toolVars, open, inbox, flag, broken, recorded>>

MutantUnanswered == {c \in streamed : tool[c] \notin {"result", "denied"}}

(* `align_results` keeps the results there are, `reconcile_cancelled` adds *)
(* those that are missing.                                                 *)
Unanswered ==
    IF flag THEN {} ELSE {c \in streamed : tool[c] \notin {"result", "denied"}}

(* `orphaned_tool_activity`: no message to hang the results on.            *)
Orphaned == streamed = {} /\ ~text /\ done = "tool"

Drained ==
    /\ pc = "drain" /\ LiveCalls = {}
    /\ tool' = NoCalls
    /\ open' = (open \ streamed) \cup Unanswered
    /\ Interrupt(IF Orphaned THEN "error" ELSE IF flag THEN "cancelled" ELSE done)
    /\ denial' = (IsMain /\ ~flag /\ \E c \in streamed : tool[c] = "denied")
    /\ UNCHANGED <<turns, final, streamed, text, done, asked, repeats, joined, pauses,
                   retaining, inbox, signalVars, broken, recorded>>

ForgetTurn ==
    /\ streamed' = {} /\ text' = FALSE
    /\ done' = "no"
    /\ joined' = {}
    /\ recorded' = {}

(* The commit barrier after the turn, and `record_turn`.                   *)
Settle ==
    /\ pc = "settle"
    /\ IF broken
       THEN Goto("end") /\ finish' = "error" /\ UNCHANGED turns
       ELSE /\ turns' = turns + 1
            /\ Goto(IF finish \in {"error", "cancelled"} THEN "end" ELSE "after")
            /\ UNCHANGED finish
    /\ ForgetTurn
    /\ UNCHANGED <<final, asked, denial, repeats, tool, pauses, retaining, open, inbox,
                   signalVars, broken>>

-----------------------------------------------------------------------------
(* The others: the host, the user, and the tasks that cancel.              *)

HostFails ==
    /\ "HostFails" \in Events /\ pc \notin Resting /\ ~broken
    /\ broken' = TRUE
    /\ UNCHANGED <<pc, loopVars, streamVars, toolVars, open, inbox, signalVars, recorded>>

(* A command to the main agent is handled where its query awaits.          *)
Awaiting == ~IsMain \/ pc \notin Gaps \cup {"end"}

Intervene ==
    /\ pc \notin Resting /\ Awaiting
    /\ inbox = 0 /\ (IsMain \/ ~flag)
    /\ inbox' = 1
    /\ UNCHANGED <<pc, loopVars, streamVars, toolVars, open, signalVars, broken, recorded>>

(* `stop_main_work` and `cancel_task`: the main query's pauses go with the *)
(* notification, those of a child later (Retain).                          *)
Cancel ==
    /\ pc \notin Resting /\ Awaiting /\ ~flag
    /\ flag' = TRUE
    /\ woken' = (pc \in Waits)
    /\ IF IsMain
       THEN DrainPauses /\ UNCHANGED retaining
       ELSE retaining' = TRUE /\ UNCHANGED <<pauses, tool>>
    /\ UNCHANGED <<pc, loopVars, streamVars, joined, open, inbox, broken, recorded>>

Retain ==
    /\ retaining
    /\ DrainPauses
    /\ retaining' = FALSE
    /\ UNCHANGED <<pc, loopVars, streamVars, joined, open, inbox, signalVars, broken, recorded>>

(* A close drops the query and with it its JoinSet; a task that is just    *)
(* entering its pause leaves the key behind.                               *)
Close ==
    /\ IsMain /\ pc \notin Resting /\ Awaiting
    /\ Goto("closed")
    /\ flag' = TRUE
    /\ pauses' \in SUBSET {c \in Calls : tool[c] = "checked"}
    /\ tool' = NoCalls
    /\ UNCHANGED <<loopVars, streamVars, joined, retaining, open, inbox, woken, broken, recorded>>

(* Another query of the instance starts, is interrupted or ends.           *)
OthersDrain ==
    /\ pauses # {}
    /\ DrainPauses
    /\ UNCHANGED <<pc, loopVars, streamVars, joined, retaining, open, inbox, signalVars,
                   broken, recorded>>

-----------------------------------------------------------------------------
EngineStep ==
    \/ Rerun \/ FirstNotices \/ FirstMessages \/ Top \/ After \/ End
    \/ Begin \/ Invoke \/ Register \/ RequestCancelled \/ StreamCancelled \/ Record
    \/ Cleanup \/ Abort \/ Drain \/ Join \/ Drained \/ Settle

ProviderStep == Request \/ StreamEvent

QueryNext ==
    /\ UNCHANGED kind
    /\ \/ Start \/ EngineStep \/ ProviderStep
       \/ HostFails \/ Intervene \/ Cancel \/ Retain \/ Close \/ OthersDrain
       \/ \E c \in Calls : ToolStep(c) \/ EndTool(c) \/ Answer(c)

QuerySafety == QueryInit /\ [][QueryNext]_vars

(* The executor polls every runnable query, and a provider that has been   *)
(* asked answers and ends its stream (its client has timeouts).  A host    *)
(* answers its calls, with success or failure (EngineStep).  Nothing is    *)
(* assumed of tools that work and of users who are asked.                  *)
QuerySpec == QuerySafety /\ WF_queryVars(EngineStep) /\ WF_queryVars(ProviderStep)

-----------------------------------------------------------------------------
(* When a query asks its provider, every tool_use block in its messages    *)
(* has its tool_result, however the calls ended: answered, denied,         *)
(* rejected, aborted or cancelled in their pauses (turn.rs, tool.rs).      *)
RequestsArePaired == pc = "request" => open = {}

(* Between queries no tool task of the query runs and no pause of it waits *)
(* for an answer (the boundaries drain the pauses after the last abort).   *)
NothingOutlivesQuery == pc = "idle" => LiveCalls = {} /\ pauses = {}

(* No tool does anything before the host has acknowledged its record       *)
(* (commit_events: what depends on a failed record must not go on).        *)
ToolsAreRecorded == LiveCalls \subseteq recorded

(* The turn beyond the limit is the one that sums up, and it starts no     *)
(* tool, not even for calls that were streamed before (rejection_reason).  *)
LastTurnIsFinal == turns = TurnLimit /\ pc \in Waits => final # "none" /\ LiveCalls = {}

(* A message accepted during a query of the main agent is injected unless  *)
(* the query was cut off, by a failure, a cancel or its finalization: a    *)
(* query that ends of itself leaves none behind (run_query, enqueue).      *)
MessagesAreInjected ==
    [][pc = "end" /\ pc' # "end" /\ IsMain /\ finish \in {"stop", "tool"} /\ final = "none"
       => inbox = 0]_vars

(* A stop ends the main query although its tools hang and nobody answers   *)
(* their pauses (invoke_or_cancel, drain_tasks, notify_cancel_waiters).    *)
StopEndsQuery == IsMain /\ flag ~> pc \in Resting
=============================================================================
