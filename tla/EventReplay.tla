---------------------------- MODULE EventReplay ----------------------------
(***************************************************************************)
(* How a client sees a thread (omini-server event/{replay,status}.rs,      *)
(* thread/{build,host,snapshot,events}.rs, ws.rs; omini-tui app/events.rs, *)
(* app/state.rs).  The core stores rows and emits events; one consumer     *)
(* numbers the events, records them in the replay buffer and the status    *)
(* projection and broadcasts them.  A client that connects receives a      *)
(* snapshot read from the rows in several awaits, then the replay buffer,  *)
(* then the status, then the live events the replay did not cover.         *)
(*                                                                         *)
(* What a conversation shows is a set of blocks: pieces of streamed text,  *)
(* tool uses and results, user inputs, a compaction summary, the text of a *)
(* child agent.  A message is a set of blocks.  The core's own control is  *)
(* in QueryTurn and AgentLoop: here it is the order in which its sinks     *)
(* write rows, trim the buffer and emit.                                   *)
(***************************************************************************)
EXTENDS Naturals, FiniteSets, Sequences

CONSTANTS
    MaxTurns,   \* turns of the run
    MaxDeltas,  \* text deltas of a message
    ChildDeltas, \* text deltas of the child's message
    MaxInputs,  \* the first starts the run, the others are interventions
    Channel,    \* capacity of the core's output channel
    Lag,        \* events a live client is behind at most
    Scenarios   \* what one behaviour may contain: sets of "text", "call", "reorder" (tool results
                \* stored in another order than they came in, or with blocks added), "pause",
                \* "steer", "compact", "child", "watch" (the user looks at the child's view)

ASSUME ReplayAssumption == {MaxTurns, MaxDeltas, ChildDeltas, MaxInputs, Channel, Lag} \subseteq Nat \ {0}

VARIABLES
    scope,   \* the scenario of this behaviour
    turn,    \* the turn of the run, 0 before the first
    stage,   \* where the core is
    deltas,  \* text deltas emitted in this turn
    call,    \* the turn's tool call: "none", "running", "paused", "done"
    input,   \* [sent, stored]: inputs broadcast and stored
    child,   \* [stage, deltas] of a background child agent
    rows,    \* [ui, llm, child]: what the database holds; llm is a set of messages
    out,     \* the output channel
    inbox,   \* server_event_inbox
    seq,     \* next_seq
    buffer,  \* RuntimeReplayBuffer
    status,  \* RuntimeStatusProjection
    client,  \* the client and its WebSocket task
    told,    \* history: blocks whose event the consumer has recorded
    torn,    \* history: parts of the buffer trimmed before all of it was recorded
    calm     \* history: nothing disturbed this connection

coreVars == <<scope, turn, stage, deltas, call>>
vars == <<coreVars, input, child, rows, out, inbox, seq, buffer, status, client, told, torn, calm>>

Text(t, n) == <<"text", t, n>>
Use(t)     == <<"use", t, 0>>
Result(t)  == <<"result", t, 0>>
Input(n)   == <<"input", 0, n>>
Summary    == <<"summary", 0, 0>>
ChildText(n) == <<"child", 0, n>>

Turns  == 1..MaxTurns
Inputs == {Input(n) : n \in 1..MaxInputs}
Stream(t) == {Text(t, n) : n \in 1..MaxDeltas} \cup {Use(t)}
ChildBlocks == {ChildText(n) : n \in 1..ChildDeltas}
Blocks == (UNION {Stream(t) \cup {Result(t)} : t \in Turns}) \cup Inputs \cup {Summary} \cup ChildBlocks

Event(kind, blocks) == [kind |-> kind, blocks |-> blocks]
Nothing == [b \in Blocks |-> 0]
Add(view, blocks) == [b \in Blocks |-> IF b \in blocks /\ view[b] < 2 THEN view[b] + 1 ELSE view[b]]
Shows(blocks) == Add(Nothing, blocks)

WithoutChild(view) == [b \in Blocks |-> IF b \in ChildBlocks THEN 0 ELSE view[b]]

EmptyBuffer == [prefix |-> {}, run |-> {}, tail |-> {}, compact |-> {}, child |-> {}]
NoRead == [ui |-> {}, childRow |-> FALSE, child |-> {}, llm |-> {}]

Init ==
    /\ scope \in Scenarios
    /\ turn = 0 /\ stage = "idle" /\ deltas = 0 /\ call = "none"
    /\ input = [stored |-> 0, sent |-> 0]
    /\ child = [stage |-> "none", deltas |-> 0]
    /\ rows = [ui |-> {}, llm |-> {}, child |-> {}]
    /\ out = <<>> /\ inbox = <<>> /\ seq = 1
    /\ buffer = EmptyBuffer
    /\ status = [query |-> FALSE, pauses |-> {}]
    /\ client = [phase |-> "off", queue |-> <<>>, read |-> NoRead, replay |-> {}, through |-> 0,
                 view |-> Nothing, typing |-> Nothing, open |-> FALSE, active |-> FALSE, pauses |-> {}]
    /\ told = {} /\ torn = {} /\ calm = FALSE

-----------------------------------------------------------------------------
(* Connections.  A row written while a connection reads the snapshot may be *)
(* in none, some or all of what it reads: the connection is not calm.       *)

Connecting == client.phase \in {"subscribed", "ui", "tasks", "llm", "snapshot"}

(* A row is written; a connection that is being set up may miss it. *)
Writes == calm' = (calm /\ ~Connecting)

(* Rows whose events are not recorded yet: messages, or the end of the      *)
(* child; or an LLM row without its UI row.                                  *)
Behind ==
    \/ ~(rows.ui \cup rows.child \subseteq told)
    \/ child.stage = "over" \/ \E i \in DOMAIN out : out[i].kind = "child_finished"
    \/ ~(UNION rows.llm \subseteq rows.ui)

(* events = thread.subscribe(); register_client_connection *)
Subscribe ==
    /\ client.phase = "off"
    /\ client' = [client EXCEPT !.phase = "subscribed", !.queue = <<>>, !.through = 0]
    /\ calm' = (~Behind /\ torn = {})
    /\ UNCHANGED <<coreVars, input, child, rows, out, inbox, seq, buffer, status, told, torn>>

(* load_snapshot: load_messages *)
ReadMessages ==
    /\ client.phase = "subscribed"
    /\ client' = [client EXCEPT !.phase = "ui", !.read.ui = rows.ui]
    /\ UNCHANGED <<coreVars, input, child, rows, out, inbox, seq, buffer, status, told, torn, calm>>

(* load_snapshot: load_agent_tasks; the status of a terminal task is read too *)
ReadTasks ==
    /\ client.phase = "ui"
    /\ client' = [client EXCEPT !.phase = "tasks", !.read.child = rows.child,
                                !.read.childRow = child.stage \notin {"none", "over", "ended"}]
    /\ UNCHANGED <<coreVars, input, child, rows, out, inbox, seq, buffer, status, told, torn, calm>>

(* load_snapshot: load_current_llm_messages *)
ReadContext ==
    /\ client.phase = "tasks"
    /\ client' = [client EXCEPT !.phase = "llm", !.read.llm = rows.llm]
    /\ UNCHANGED <<coreVars, input, child, rows, out, inbox, seq, buffer, status, told, torn, calm>>

BlocksOf(entries) == UNION {e.blocks : e \in entries}
OfKind(entries, kinds) == {e \in entries : e.kind \in kinds}
Streamed == {"text_delta", "tool_use"}

(* Mutant: the tail is left to the trimming at commit time. *)
MutantTrimBySnapshot(b, read) ==
    LET known == {e \in b.prefix \cup b.tail : e.kind = "user_message_injected" /\ e.blocks \subseteq read.ui}
    IN [b EXCEPT !.prefix = @ \ known, !.tail = @ \ known]

(* record_snapshot: drop_snapshot_injections, then the current tail when    *)
(* the LLM messages hold exactly its blocks in their order: results are      *)
(* stored in the order of the tool uses, not in that of the events.          *)
TrimBySnapshot(b, read) ==
    LET known == {e \in b.prefix \cup b.tail : e.kind = "user_message_injected" /\ e.blocks \subseteq read.ui}
        Stored(kinds) == LET part == OfKind(b.tail, kinds)
                        IN IF part # {} /\ BlocksOf(part) \in read.llm THEN part ELSE {}
    IN [b EXCEPT !.prefix = @ \ known,
                 !.tail = @ \ (known \cup Stored(Streamed) \cup (IF "reorder" \in scope THEN {} ELSE Stored({"tool_result"})))]

(* apply_thread_snapshot skips a terminal task and drops its history: on a   *)
(* first connection no child's view is looked at.                            *)
InSnapshot(read) == read.ui \cup (IF read.childRow THEN read.child ELSE {})

(* current_snapshot_events, sent; the client's apply_thread_snapshot *)
SendSnapshot ==
    /\ client.phase = "llm"
    /\ buffer' = TrimBySnapshot(buffer, client.read)
    /\ client' = [client EXCEPT !.phase = "snapshot", !.read = NoRead,
                                !.view = Shows(InSnapshot(client.read)),
                                !.typing = Nothing, !.open = client.read.childRow, !.active = FALSE]
    /\ UNCHANGED <<coreVars, input, child, rows, out, inbox, seq, status, told, torn, calm>>

-----------------------------------------------------------------------------
(* The client: AppState::apply_event.  view counts how often a block stands *)
(* among the messages, typing how often it stands in the child's pending    *)
(* message.  The view of a child that has finished is removed unless the     *)
(* user looks at it (prune_terminal_tasks).                                  *)

ApplyChild(c, e) ==
    IF e.kind # "child_started" /\ ~c.open THEN c
    ELSE CASE e.kind = "child_started" -> [c EXCEPT !.open = TRUE]
           [] e.kind = "child_delta" -> [c EXCEPT !.typing = Add(@, e.blocks)]
           [] e.kind = "child_committed" -> [c EXCEPT !.typing = Nothing, !.view = Add(@, e.blocks)]
           [] e.kind = "child_finished" ->
                 IF "watch" \in scope
                 THEN [c EXCEPT !.typing = Nothing, !.view = Add(@, {b \in Blocks : c.typing[b] > 0})]
                 ELSE [c EXCEPT !.typing = Nothing, !.open = FALSE,
                                !.view = WithoutChild(@)]

ChildKinds == {"child_started", "child_delta", "child_committed", "child_finished"}

(* Mutant: the pause of a tool that has answered is kept. *)
MutantApply(c, e) ==
    CASE e.kind \in ChildKinds -> ApplyChild(c, e)
      [] e.kind = "run_started" -> [c EXCEPT !.active = TRUE]
      [] e.kind = "run_finished" -> [c EXCEPT !.active = FALSE]
      [] e.kind = "pause_requested" -> [c EXCEPT !.pauses = @ \cup e.blocks]
      [] OTHER -> [c EXCEPT !.view = Add(@, e.blocks)]

(* A result is shown by the id of its tool use, however often it comes. *)
Apply(c, e) ==
    CASE e.kind \in ChildKinds -> ApplyChild(c, e)
      [] e.kind = "run_started" -> [c EXCEPT !.active = TRUE]
      [] e.kind = "run_finished" -> [c EXCEPT !.active = FALSE]
      [] e.kind = "pause_requested" -> [c EXCEPT !.pauses = @ \cup e.blocks]
      [] e.kind = "tool_result" ->
            [c EXCEPT !.view = Add(@, {b \in e.blocks : @[b] = 0}), !.pauses = @ \ {Use(t) : t \in {b[2] : b \in e.blocks}}]
      [] OTHER -> [c EXCEPT !.view = Add(@, e.blocks)]

(* replay: every part *)
Replay == UNION {buffer[part] : part \in DOMAIN buffer}

TakeReplay ==
    /\ client.phase = "snapshot"
    /\ client' = [client EXCEPT !.phase = "replaying", !.replay = Replay]
    /\ UNCHANGED <<coreVars, input, child, rows, out, inbox, seq, buffer, status, told, torn, calm>>

(* The entries are sent in the order of seq; replay_through keeps up. *)
ReceiveReplay ==
    /\ client.phase = "replaying"
    /\ \E e \in client.replay :
         /\ \A x \in client.replay : e.seq <= x.seq
         /\ client' = Apply([client EXCEPT !.replay = @ \ {e},
                                          !.through = IF e.seq > @ THEN e.seq ELSE @], e)
    /\ UNCHANGED <<coreVars, input, child, rows, out, inbox, seq, buffer, status, told, torn, calm>>

(* runtime_status; the client's apply_runtime_status_sync *)
SendStatus ==
    /\ client.phase = "replaying" /\ client.replay = {}
    /\ client' = [client EXCEPT !.phase = "live", !.active = status.query, !.pauses = status.pauses]
    /\ UNCHANGED <<coreVars, input, child, rows, out, inbox, seq, buffer, status, told, torn, calm>>

(* events.recv() in the loop of handle_socket *)
ReceiveLive ==
    /\ client.phase = "live" /\ client.queue # <<>>
    /\ LET e == Head(client.queue)
           c == [client EXCEPT !.queue = Tail(@)]
       IN client' = IF e.seq <= client.through THEN c ELSE Apply(c, e)
    /\ UNCHANGED <<coreVars, input, child, rows, out, inbox, seq, buffer, status, told, torn, calm>>

-----------------------------------------------------------------------------
(* The consumer: broadcast_sequenced_runtime_event.                          *)

(* Mutant: a committed message leaves its deltas in the stream. *)
MutantRecordChild(entries, e) ==
    CASE e.kind = "child_finished" -> {}
      [] e.kind = "child_started" -> {e}
      [] OTHER -> entries \cup {e}

(* record_agent_event; push_agent_delta merges into the entry before it,     *)
(* which keeps its seq.                                                       *)
RecordChild(entries, e) ==
    CASE e.kind = "child_finished" -> {}
      [] e.kind = "child_started" -> {e}
      [] e.kind = "child_committed" -> entries \ OfKind(entries, {"child_delta"})
      [] e.kind = "child_delta" ->
            LET last == OfKind(entries, {"child_delta"})
            IN (entries \ last) \cup {[e EXCEPT !.seq = IF last = {} THEN @ ELSE (CHOOSE x \in last : TRUE).seq,
                                                !.blocks = @ \cup BlocksOf(last)]}

(* RuntimeReplayBuffer::record *)
Record(b, e) ==
    CASE e.kind \in ChildKinds -> [b EXCEPT !.child = RecordChild(@, e)]
      [] e.kind = "compact_summary_started" -> [b EXCEPT !.compact = {e}]
      [] e.kind = "compact_summary_finished" -> [b EXCEPT !.compact = IF @ = {} THEN @ ELSE @ \cup {e}]
      [] e.kind = "compact_summary_failed" -> [b EXCEPT !.compact = {}]
      [] e.kind = "run_finished" -> [EmptyBuffer EXCEPT !.child = b.child]
      [] e.kind = "run_started" -> [b EXCEPT !.run = {e}, !.tail = {}]
      [] e.kind = "user_message_injected" /\ b.run = {} -> [b EXCEPT !.prefix = @ \cup {e}]
      [] e.kind = "turn_started" /\ b.run # {} -> [b EXCEPT !.tail = {e}]
      [] e.kind = "turn_ended" /\ b.run # {} -> [b EXCEPT !.prefix = {}, !.tail = {e}]
      [] OTHER -> [b EXCEPT !.tail = IF b.run = {} THEN @ ELSE @ \cup {e}]

(* RuntimeStatusProjection::record_event: start_query and clear_active_run  *)
(* drop the main agent's pauses, a tool result its own.                      *)
Project(s, e) ==
    CASE e.kind = "run_started" -> [query |-> TRUE, pauses |-> {}]
      [] e.kind = "run_finished" -> [query |-> FALSE, pauses |-> {}]
      [] e.kind = "pause_requested" -> [s EXCEPT !.pauses = @ \cup e.blocks]
      [] e.kind = "tool_result" -> [s EXCEPT !.pauses = @ \ {Use(t) : t \in {b[2] : b \in e.blocks}}]
      [] OTHER -> s

(* A tear of the tail ends when a boundary empties it. *)
Mended(e) == IF e.kind \in {"run_started", "turn_started", "turn_ended", "run_finished"} THEN {"tail"} ELSE {}

(* Mutant: deltas are not numbered. *)
MutantBroadcast(event) ==
    LET e == [kind |-> event.kind, blocks |-> event.blocks, seq |-> seq]
    IN /\ client.phase = "live" => Len(client.queue) < Lag
       /\ seq' = IF e.kind = "text_delta" THEN seq ELSE seq + 1
       /\ buffer' = Record(buffer, e)
       /\ status' = Project(status, e)
       /\ client' = IF client.phase = "off" THEN client ELSE [client EXCEPT !.queue = Append(@, e)]
       /\ told' = told \cup (IF e.kind = "child_delta" THEN {} ELSE e.blocks)
       /\ torn' = torn \ Mended(e)

Broadcast(event) ==
    LET e == [kind |-> event.kind, blocks |-> event.blocks, seq |-> seq]
    IN /\ client.phase = "live" => Len(client.queue) < Lag
       /\ seq' = seq + 1
       /\ buffer' = Record(buffer, e)
       /\ status' = Project(status, e)
       /\ client' = IF client.phase = "off" THEN client ELSE [client EXCEPT !.queue = Append(@, e)]
       /\ told' = told \cup (IF e.kind = "child_delta" THEN {} ELSE e.blocks)
       /\ torn' = torn \ Mended(e)

TakeOutput ==
    /\ out # <<>>
    /\ Broadcast(Head(out))
    /\ out' = Tail(out)
    /\ UNCHANGED <<coreVars, input, child, rows, inbox, calm>>

TakeInbox ==
    /\ inbox # <<>>
    /\ Broadcast(Head(inbox))
    /\ inbox' = Tail(inbox)
    /\ UNCHANGED <<coreVars, input, child, rows, out, calm>>

-----------------------------------------------------------------------------
(* The rows and the events of the core's sinks.                              *)

Emit(event) == Len(out) < Channel /\ out' = Append(out, event)

Unrecorded(kinds) == \E i \in DOMAIN out : out[i].kind \in kinds

(* accept_run_input, or insert_user_input of an intervention *)
StoreInput ==
    /\ input.stored = input.sent /\ input.stored < MaxInputs
    /\ input.stored = 0 => stage = "idle"
    /\ input.stored > 0 => "steer" \in scope /\ stage \in {"started", "stream", "llm", "ui", "stored", "results", "results_ui", "settled"}
    /\ input' = [input EXCEPT !.stored = @ + 1]
    /\ rows' = [rows EXCEPT !.ui = @ \cup {Input(input.stored + 1)}]
    /\ Writes
    /\ UNCHANGED <<coreVars, child, out, inbox, seq, buffer, status, client, told, torn>>

(* broadcast_server_local_event(UserMessageInjected) *)
SendInput ==
    /\ input.sent < input.stored
    /\ inbox' = Append(inbox, Event("user_message_injected", {Input(input.stored)}))
    /\ input' = [input EXCEPT !.sent = @ + 1]
    /\ UNCHANGED <<coreVars, child, rows, out, seq, buffer, status, client, told, torn, calm>>

(* reservation.commit: the instance announces the run *)
StartRun ==
    /\ stage = "idle" /\ input.sent > 0
    /\ Emit(Event("run_started", {}))
    /\ stage' = "started"
    /\ UNCHANGED <<scope, turn, deltas, call, input, child, rows, inbox, seq, buffer, status, client, told, torn, calm>>

StartTurn ==
    /\ stage \in {"started", "ended"} /\ turn < MaxTurns
    /\ stage = "ended" => call = "done"
    /\ Emit(Event("turn_started", {}))
    /\ turn' = turn + 1 /\ stage' = "stream" /\ deltas' = 0 /\ call' = "none"
    /\ UNCHANGED <<scope, input, child, rows, inbox, seq, buffer, status, client, told, torn, calm>>

EmitText ==
    /\ stage = "stream" /\ deltas < MaxDeltas /\ call = "none" /\ "text" \in scope
    /\ Emit(Event("text_delta", {Text(turn, deltas + 1)}))
    /\ deltas' = deltas + 1
    /\ UNCHANGED <<scope, turn, stage, call, input, child, rows, inbox, seq, buffer, status, client, told, torn, calm>>

EmitToolUse ==
    /\ stage = "stream" /\ call = "none" /\ "call" \in scope
    /\ Emit(Event("tool_use", {Use(turn)}))
    /\ call' = "running"
    /\ UNCHANGED <<scope, turn, stage, deltas, input, child, rows, inbox, seq, buffer, status, client, told, torn, calm>>

EmitPause ==
    /\ call = "running" /\ "pause" \in scope /\ stage \in {"stream", "llm", "ui", "stored"}
    /\ Emit(Event("pause_requested", {Use(turn)}))
    /\ call' = "paused"
    /\ UNCHANGED <<scope, turn, stage, deltas, input, child, rows, inbox, seq, buffer, status, client, told, torn, calm>>

EmitToolResult ==
    /\ call \in {"running", "paused"} /\ stage \in {"stream", "llm", "ui", "stored"}
    /\ Emit(Event("tool_result", {Result(turn)}))
    /\ call' = "done"
    /\ UNCHANGED <<scope, turn, stage, deltas, input, child, rows, inbox, seq, buffer, status, client, told, torn, calm>>

Message == {Text(turn, n) : n \in 1..deltas} \cup (IF call = "none" THEN {} ELSE {Use(turn)})

(* MessageProduced, ToolResultsProduced: append_llm *)
StoreContext(from, to, message) ==
    /\ stage = from /\ message # {}
    /\ stage' = to
    /\ rows' = [rows EXCEPT !.llm = @ \cup {message}]
    /\ Writes
    /\ UNCHANGED <<scope, turn, deltas, call, input, child, out, inbox, seq, buffer, status, client, told, torn>>

(* append_ui_row: insert_conversation_entry *)
StoreDisplay(from, to, message) ==
    /\ stage = from
    /\ stage' = to
    /\ rows' = [rows EXCEPT !.ui = @ \cup message]
    /\ Writes
    /\ UNCHANGED <<scope, turn, deltas, call, input, child, out, inbox, seq, buffer, status, client, told, torn>>

(* append_ui_row: record_persisted_ui_message, in the task of the sink: the *)
(* consumer may not have recorded all of the message yet.                   *)
TrimPersisted(from, to, kinds) ==
    /\ stage = from
    /\ stage' = to
    /\ buffer' = [buffer EXCEPT !.tail = @ \ OfKind(@, kinds)]
    /\ torn' = torn \cup (IF OfKind(buffer.tail, kinds) # {} /\ Unrecorded(kinds) THEN {"tail"} ELSE {})
    /\ UNCHANGED <<scope, turn, deltas, call, input, child, rows, out, inbox, seq, status, client, told, calm>>

CommitMessage ==
    \/ StoreContext("stream", "llm", Message)
    \/ StoreDisplay("llm", "ui", Message)
    \/ TrimPersisted("ui", "stored", Streamed)

CommitResults ==
    /\ call = "done"
    /\ \/ StoreContext("stored", "results", {Result(turn)})
       \/ StoreDisplay("results", "results_ui", {Result(turn)})
       \/ TrimPersisted("results_ui", "settled", {"tool_result"})

EndTurn ==
    /\ \/ stage = "stream" /\ Message = {}
       \/ stage = "stored" /\ call = "none"
       \/ stage = "settled"
    /\ Emit(Event("turn_ended", {}))
    /\ stage' = "ended"
    /\ UNCHANGED <<scope, turn, deltas, call, input, child, rows, inbox, seq, buffer, status, client, told, torn, calm>>

FinishRun ==
    /\ stage = "ended"
    /\ Emit(Event("run_finished", {}))
    /\ stage' = "finished"
    /\ UNCHANGED <<scope, turn, deltas, call, input, child, rows, inbox, seq, buffer, status, client, told, torn, calm>>

-----------------------------------------------------------------------------
(* A manual compaction after the run.                                        *)

Compact(from, to, kind, blocks) ==
    /\ stage = from
    /\ Emit(Event(kind, blocks))
    /\ stage' = to
    /\ UNCHANGED <<scope, turn, deltas, call, input, child, rows, inbox, seq, buffer, status, client, told, torn, calm>>

(* insert_compact_summary: the row, then record_persisted_compact_summary *)
TrimCompact ==
    /\ stage = "summary_row"
    /\ stage' = "summary_trimmed"
    /\ buffer' = [buffer EXCEPT !.compact = {}]
    /\ torn' = torn \cup (IF Unrecorded({"compact_summary_started"}) THEN {"compact"} ELSE {})
    /\ UNCHANGED <<scope, turn, deltas, call, input, child, rows, out, inbox, seq, status, client, told, calm>>

ManualCompact ==
    \/ "compact" \in scope /\ Compact("finished", "compacting", "compact_summary_started", {})
    \/ Compact("compacting", "compact_failed", "compact_summary_failed", {})
    \/ StoreDisplay("compacting", "summary_row", {Summary})
    \/ TrimCompact
    \/ Compact("summary_trimmed", "compacted", "compact_summary_finished", {Summary})

-----------------------------------------------------------------------------
(* A background child agent: its rows and its events.                        *)

ChildEmits(from, to, event) ==
    /\ child.stage = from
    /\ Emit(event)
    /\ child' = [child EXCEPT !.stage = to]
    /\ UNCHANGED <<coreVars, input, rows, inbox, seq, buffer, status, client, told, torn, calm>>

ChildMessage == {ChildText(n) : n \in 1..child.deltas}

ChildWrites(from, to, blocks) ==
    /\ child.stage = from
    /\ child' = [child EXCEPT !.stage = to]
    /\ rows' = [rows EXCEPT !.child = @ \cup blocks]
    /\ Writes
    /\ UNCHANGED <<coreVars, input, out, inbox, seq, buffer, status, client, told, torn>>

(* create_agent_session, awaited by a tool of the main agent; that call is    *)
(* not among those followed here.                                              *)
SpawnChild == stage = "stream" /\ "child" \in scope /\ ChildWrites("none", "row", {})

ChildTextDelta ==
    /\ child.stage = "running" /\ child.deltas < ChildDeltas
    /\ Emit(Event("child_delta", {ChildText(child.deltas + 1)}))
    /\ child' = [child EXCEPT !.deltas = @ + 1]
    /\ UNCHANGED <<coreVars, input, rows, inbox, seq, buffer, status, client, told, torn, calm>>

(* child_persist_message: the row, then MessageCommitted; finish_agent_task, *)
(* then Finished                                                              *)
ChildStep ==
    \/ ChildEmits("row", "running", Event("child_started", {}))
    \/ ChildTextDelta
    \/ child.deltas > 0 /\ ChildWrites("running", "stored", ChildMessage)
    \/ ChildEmits("stored", "committed", Event("child_committed", ChildMessage))
    \/ ChildWrites("committed", "over", {})
    \/ ChildEmits("over", "ended", Event("child_finished", {}))

-----------------------------------------------------------------------------

Core == StoreInput \/ SendInput \/ StartRun \/ StartTurn \/ EmitText \/ EmitToolUse \/ EmitPause
        \/ EmitToolResult \/ CommitMessage \/ CommitResults \/ EndTurn \/ FinishRun \/ ManualCompact
        \/ SpawnChild \/ ChildStep
Consumer == TakeOutput \/ TakeInbox
Socket == ReadMessages \/ ReadTasks \/ ReadContext \/ SendSnapshot \/ TakeReplay \/ ReceiveReplay
          \/ SendStatus \/ ReceiveLive

Next == Core \/ Consumer \/ Socket \/ Subscribe

EventSpec == Init /\ [][Next]_vars

-----------------------------------------------------------------------------
Drained == client.phase = "live" /\ client.queue = <<>> /\ out = <<>> /\ inbox = <<>>

(* Every variable keeps its type; the buffer holds only events that have    *)
(* been numbered, and one entry per number.                                 *)
EventTypeOK ==
    /\ turn \in 0..MaxTurns /\ deltas \in 0..MaxDeltas /\ call \in {"none", "running", "paused", "done"}
    /\ rows.ui \subseteq Blocks /\ rows.child \subseteq ChildBlocks
    /\ Len(out) <= Channel
    /\ status.query \in BOOLEAN
    /\ client.view \in [Blocks -> 0..2] /\ client.typing \in [Blocks -> 0..2]
    /\ \A e \in Replay : e.seq < seq
    /\ Cardinality({e.seq : e \in Replay}) = Cardinality(Replay)

(* Whatever the thread is doing when a client connects, snapshot, replay    *)
(* and live events together show each block once and leave none out, as     *)
(* long as no row is written while the snapshot is read, no row is ahead of *)
(* its event, and no message was trimmed from the buffer half recorded      *)
(* (host.rs:20).  The connections left out are those that do show a block   *)
(* twice or never.                                                           *)
ShownOnce ==
    calm /\ Drained => \A b \in told \ ChildBlocks : client.view[b] = 1

(* ws.rs subscribes before it registers the connection so that no runtime   *)
(* event is lost while the connection is set up (ws.rs:21): every block     *)
(* whose event was recorded is shown.  It does not hold: a row written      *)
(* between the reads of the snapshot and the replay is in neither.          *)
NothingLostOnConnect ==
    Drained => \A b \in told \ ChildBlocks : client.view[b] > 0

(* The same for a background child whose view is open: its stored message   *)
(* stands once and nothing of it is still shown as being typed; before      *)
(* that, all of its text is there.  Text that is being typed may stand      *)
(* twice: an entry into which later deltas were merged keeps its old seq.   *)
ChildIsShown ==
    calm /\ Drained /\ client.open =>
        /\ \A b \in rows.child \cap told : client.view[b] = 1 /\ client.typing[b] = 0
        /\ \A n \in 1..child.deltas : client.view[ChildText(n)] + client.typing[ChildText(n)] > 0

(* The status sent at the end of a connection is newer than the live events *)
(* that follow it, which are applied on top: even so every client comes to  *)
(* show the pauses and the activity of the status projection.               *)
ViewsConverge ==
    Drained => client.active = status.query /\ client.pauses = status.pauses

=============================================================================
