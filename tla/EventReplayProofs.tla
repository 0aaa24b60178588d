------------------------- MODULE EventReplayProofs -------------------------
(***************************************************************************)
(* Proofs about EventReplay, for any scenarios, channel and lag.           *)
(***************************************************************************)
EXTENDS EventReplay, TLAPS, FiniteSetTheorems

ChildStages == {"none", "row", "running", "stored", "committed", "over", "ended"}
RunStages == {"idle", "started", "stream", "llm", "ui", "stored", "results", "results_ui", "settled",
              "ended", "finished", "compacting", "compact_failed", "summary_row", "summary_trimmed", "compacted"}
Calls == {"none", "running", "paused", "done"}
MainKinds == {"user_message_injected", "run_started", "turn_started", "text_delta", "tool_use",
              "pause_requested", "tool_result", "turn_ended", "run_finished", "compact_summary_started",
              "compact_summary_failed", "compact_summary_finished"}
Kinds == MainKinds \cup ChildKinds

Events  == [kind : Kinds, blocks : SUBSET Blocks]
Entries == [kind : Kinds, blocks : SUBSET Blocks, seq : Nat]
Buffers == [prefix : SUBSET Entries, run : SUBSET Entries, tail : SUBSET Entries,
            compact : SUBSET Entries, child : SUBSET Entries]
Parts == {"prefix", "run", "tail", "compact", "child"}

RunTyped ==
    /\ turn \in 0..MaxTurns
    /\ stage \in RunStages
    /\ deltas \in 0..MaxDeltas
    /\ call \in Calls
    /\ stage \notin {"idle", "started"} => turn > 0

InputTyped ==
    /\ input \in [stored : 0..MaxInputs, sent : 0..MaxInputs]
    /\ input.sent <= input.stored
    /\ input.stored <= input.sent + 1

ChildTyped == child \in [stage : ChildStages, deltas : 0..ChildDeltas]

RowsTyped == rows \in [ui : SUBSET Blocks, llm : SUBSET SUBSET Blocks, child : SUBSET ChildBlocks]

ChannelTyped ==
    /\ out \in Seq(Events) /\ Len(out) <= Channel
    /\ inbox \in Seq(Events)
    /\ \A i \in 1..Len(inbox) : inbox[i].kind = "user_message_injected"
    /\ seq \in Nat \ {0}

BufferTyped == buffer \in Buffers

StatusTyped == status \in [query : BOOLEAN, pauses : SUBSET Blocks]

Reads == [ui : SUBSET Blocks, childRow : BOOLEAN, child : SUBSET ChildBlocks, llm : SUBSET SUBSET Blocks]
Phases == {"off", "subscribed", "ui", "tasks", "llm", "snapshot", "replaying", "live"}
Clients == [phase : Phases, queue : Seq(Entries), read : Reads, replay : SUBSET Entries, through : Nat,
            view : [Blocks -> 0..2], typing : [Blocks -> 0..2], open : BOOLEAN, active : BOOLEAN,
            pauses : SUBSET Blocks]
ClientTyped == client \in Clients

TypeInv ==
    /\ RunTyped /\ InputTyped /\ ChildTyped /\ RowsTyped
    /\ ChannelTyped /\ BufferTyped /\ StatusTyped /\ ClientTyped

-----------------------------------------------------------------------------
LEMMA BlockFacts ==
    /\ \A t \in Turns, n \in 1..MaxDeltas : Text(t, n) \in Blocks
    /\ \A t \in Turns : Use(t) \in Blocks /\ Result(t) \in Blocks
    /\ \A n \in 1..MaxInputs : Input(n) \in Blocks
    /\ Summary \in Blocks
    /\ \A n \in 1..ChildDeltas : ChildText(n) \in Blocks /\ ChildText(n) \in ChildBlocks
    /\ ChildBlocks \subseteq Blocks
<1>1. \A t \in Turns, n \in 1..MaxDeltas : Text(t, n) \in Stream(t)
  BY DEF Stream
<1>2. \A t \in Turns : Use(t) \in Stream(t)
  BY DEF Stream
<1>3. \A t \in Turns : Stream(t) \cup {Result(t)} \subseteq Blocks
  BY DEF Blocks
<1>4. Inputs \subseteq Blocks /\ Summary \in Blocks /\ ChildBlocks \subseteq Blocks
  BY DEF Blocks
<1>5. (\A n \in 1..MaxInputs : Input(n) \in Inputs) /\ (\A n \in 1..ChildDeltas : ChildText(n) \in ChildBlocks)
  BY DEF Inputs, ChildBlocks
<1>6. QED
  BY <1>1, <1>2, <1>3, <1>4, <1>5

LEMMA BoundFacts == {MaxTurns, MaxDeltas, ChildDeltas, MaxInputs, Channel, Lag} \subseteq Nat \ {0}
BY ReplayAssumption

LEMMA TypeInit == Init => TypeInv
<1> SUFFICES ASSUME Init PROVE TypeInv
  OBVIOUS
<1> USE BoundFacts DEF Init
<1>1. RunTyped /\ InputTyped /\ ChildTyped /\ RowsTyped
  BY DEF RunTyped, InputTyped, ChildTyped, RowsTyped, RunStages, Calls, ChildStages
<1>2. ChannelTyped
  BY DEF ChannelTyped
<1>3. BufferTyped /\ StatusTyped
  BY DEF BufferTyped, StatusTyped, EmptyBuffer, Buffers
<1>4. ClientTyped
  <2>1. NoRead \in Reads
    BY DEF NoRead, Reads
  <2>2. Nothing \in [Blocks -> 0..2]
    BY DEF Nothing
  <2>3. QED
    BY <2>1, <2>2 DEF ClientTyped, Clients, Phases
<1>5. QED
  BY <1>1, <1>2, <1>3, <1>4 DEF TypeInv

-----------------------------------------------------------------------------
(* What the operators on views, clients, the buffer and the status return. *)
LEMMA AddType ==
    ASSUME NEW view \in [Blocks -> 0..2], NEW blocks
    PROVE  /\ Add(view, blocks) \in [Blocks -> 0..2]
           /\ \A b \in Blocks : b \notin blocks => Add(view, blocks)[b] = view[b]
           /\ \A b \in Blocks : b \in blocks /\ view[b] < 2 => Add(view, blocks)[b] = view[b] + 1
BY DEF Add

LEMMA ShowsType ==
    ASSUME NEW blocks
    PROVE  /\ Shows(blocks) \in [Blocks -> 0..2]
           /\ \A b \in Blocks : Shows(blocks)[b] = IF b \in blocks THEN 1 ELSE 0
BY DEF Shows, Nothing, Add

LEMMA ApplyType ==
    ASSUME NEW c \in Clients, NEW e \in Entries
    PROVE  /\ Apply(c, e) \in Clients
           /\ \A f \in {"phase", "queue", "read", "replay", "through"} : Apply(c, e)[f] = c[f]
<1> c.view \in [Blocks -> 0..2] /\ c.typing \in [Blocks -> 0..2] /\ c.pauses \in SUBSET Blocks
  BY DEF Clients
<1> e.blocks \in SUBSET Blocks /\ e.kind \in Kinds
  BY DEF Entries
<1>1. Add(c.view, e.blocks) \in [Blocks -> 0..2] /\ Add(c.typing, e.blocks) \in [Blocks -> 0..2]
      /\ Add(c.view, {b \in Blocks : c.typing[b] > 0}) \in [Blocks -> 0..2]
      /\ Nothing \in [Blocks -> 0..2] /\ WithoutChild(c.view) \in [Blocks -> 0..2]
      /\ Add(c.view, {b \in e.blocks : c.view[b] = 0}) \in [Blocks -> 0..2]
  BY AddType DEF Nothing, WithoutChild
<1>2. CASE e.kind \in ChildKinds
  <2>1. Apply(c, e) = ApplyChild(c, e)
    BY <1>2 DEF Apply, ChildKinds
  <2>2. CASE e.kind # "child_finished"
    BY <1>1, <1>2, <2>1, <2>2 DEF ApplyChild, ChildKinds, Clients
  <2>3. CASE e.kind = "child_finished"
    BY <1>1, <1>2, <2>1, <2>3 DEF ApplyChild, ChildKinds, Clients
  <2>4. QED
    BY <2>2, <2>3
<1>3. CASE e.kind \notin ChildKinds
  <2>1. CASE e.kind = "tool_result"
    BY <1>1, <1>3, <2>1 DEF Apply, Clients, ChildKinds
  <2>2. CASE e.kind # "tool_result"
    BY <1>1, <1>3, <2>2 DEF Apply, Clients
  <2>3. QED
    BY <2>1, <2>2
<1>4. QED
  BY <1>2, <1>3

LEMMA ProjectType ==
    ASSUME NEW s \in [query : BOOLEAN, pauses : SUBSET Blocks], NEW e \in Entries
    PROVE  Project(s, e) \in [query : BOOLEAN, pauses : SUBSET Blocks]
BY DEF Project, Entries

(* What recording an event puts into each part of the buffer. *)
LEMMA ChildRecord ==
    ASSUME NEW entries \in SUBSET Entries, NEW e \in Entries, e.kind \in ChildKinds
    PROVE  /\ RecordChild(entries, e) \in SUBSET Entries
           /\ \/ RecordChild(entries, e) \subseteq entries \cup {e}
              \/ \E m \in Entries, x \in OfKind(entries, {"child_delta"}) :
                    /\ m.seq = x.seq /\ m.kind = "child_delta"
                    /\ m.blocks = e.blocks \cup BlocksOf(OfKind(entries, {"child_delta"}))
                    /\ RecordChild(entries, e) = (entries \ OfKind(entries, {"child_delta"})) \cup {m}
<1> DEFINE last == OfKind(entries, {"child_delta"})
           x == CHOOSE y \in last : TRUE
           m == [e EXCEPT !.seq = IF last = {} THEN @ ELSE x.seq, !.blocks = @ \cup BlocksOf(last)]
<1>1. last \subseteq entries /\ BlocksOf(last) \in SUBSET Blocks
  BY DEF OfKind, BlocksOf, Entries
<1>2. CASE e.kind # "child_delta"
  BY <1>2 DEF RecordChild, OfKind, ChildKinds
<1>3. CASE e.kind = "child_delta"
  <2>1. RecordChild(entries, e) = (entries \ last) \cup {m}
    BY <1>3 DEF RecordChild
  <2>2. CASE last = {}
    <3>1. m = e
      BY <2>2 DEF BlocksOf, Entries
    <3>2. QED
      BY <3>1, <2>1
  <2>3. CASE last # {}
    <3>1. x \in last
      BY <2>3
    <3>2. m \in Entries /\ m.seq = x.seq /\ m.kind = "child_delta" /\ m.blocks = e.blocks \cup BlocksOf(last)
      <4>1. x.seq \in Nat
        BY <3>1, <1>1 DEF Entries
      <4> HIDE DEF x, last
      <4>2. QED
        BY <4>1, <2>3, <1>1, <1>3 DEF Entries
    <3> HIDE DEF x, m
    <3>3. QED
      BY <3>1, <3>2, <2>1, <1>1
  <2>4. QED
    BY <2>2, <2>3
<1>4. QED
  BY <1>2, <1>3

OtherEvent(b, e) ==
    /\ e.kind \notin {"compact_summary_started", "compact_summary_finished", "compact_summary_failed",
                     "run_finished", "run_started"}
    /\ ~(e.kind = "user_message_injected" /\ b.run = {})
    /\ ~(e.kind \in {"turn_started", "turn_ended"} /\ b.run # {})

LEMMA RecordEffect ==
    ASSUME NEW b \in Buffers, NEW e \in Entries
    PROVE  /\ Record(b, e) \in Buffers
           /\ \A part \in Parts \ {"child"} : Record(b, e)[part] \subseteq b[part] \cup {e}
           /\ e.kind \in ChildKinds => /\ Record(b, e).child = RecordChild(b.child, e)
                                      /\ \A part \in Parts \ {"child"} : Record(b, e)[part] = b[part]
           /\ e.kind \notin ChildKinds => Record(b, e).child = b.child
<1>1. CASE e.kind \in ChildKinds
  <2>1. RecordChild(b.child, e) \in SUBSET Entries
    BY <1>1, ChildRecord DEF Buffers
  <2>2. Record(b, e) = [b EXCEPT !.child = RecordChild(b.child, e)]
    BY <1>1 DEF Record, ChildKinds
  <2>3. QED
    BY <1>1, <2>1, <2>2 DEF Buffers, Parts
<1>2. CASE e.kind \notin ChildKinds
  <2> DEFINE Buf(p, r, t, k) == [prefix |-> p, run |-> r, tail |-> t, compact |-> k, child |-> b.child]
  <2>1. /\ b.prefix \in SUBSET Entries /\ b.run \in SUBSET Entries /\ b.tail \in SUBSET Entries
        /\ b.compact \in SUBSET Entries /\ b.child \in SUBSET Entries
        /\ b = Buf(b.prefix, b.run, b.tail, b.compact)
    BY DEF Buffers
  <2>2. \A p, r, t, k \in SUBSET Entries :
           /\ p \subseteq b.prefix \cup {e} /\ r \subseteq b.run \cup {e}
           /\ t \subseteq b.tail \cup {e} /\ k \subseteq b.compact \cup {e}
           /\ Record(b, e) = Buf(p, r, t, k)
           => /\ Record(b, e) \in Buffers
              /\ \A part \in Parts \ {"child"} : Record(b, e)[part] \subseteq b[part] \cup {e}
              /\ Record(b, e).child = b.child
    BY <2>1 DEF Buffers, Parts
  <2> {} \in SUBSET Entries /\ {e} \in SUBSET Entries
    OBVIOUS
  <2> HIDE DEF Buf
  <2>3. CASE e.kind = "compact_summary_started"
    <3>1. Record(b, e) = Buf(b.prefix, b.run, b.tail, {e})
      BY <2>1, <2>3 DEF Record, ChildKinds, Buf
    <3>2. QED
      BY <1>2, <2>1, <2>2, <3>1
  <2>4. CASE e.kind = "compact_summary_finished"
    <3>1. Record(b, e) = Buf(b.prefix, b.run, b.tail, IF b.compact = {} THEN b.compact ELSE b.compact \cup {e})
      BY <2>1, <2>4 DEF Record, ChildKinds, Buf
    <3>2. QED
      BY <1>2, <2>1, <2>2, <3>1
  <2>5. CASE e.kind = "compact_summary_failed"
    <3>1. Record(b, e) = Buf(b.prefix, b.run, b.tail, {})
      BY <2>1, <2>5 DEF Record, ChildKinds, Buf
    <3>2. QED
      BY <1>2, <2>1, <2>2, <3>1
  <2>6. CASE e.kind = "run_finished"
    <3>1. Record(b, e) = Buf({}, {}, {}, {})
      BY <2>6 DEF Record, ChildKinds, Buf, EmptyBuffer
    <3>2. QED
      BY <1>2, <2>1, <2>2, <3>1
  <2>7. CASE e.kind = "run_started"
    <3>1. Record(b, e) = Buf(b.prefix, {e}, {}, b.compact)
      BY <2>1, <2>7 DEF Record, ChildKinds, Buf
    <3>2. QED
      BY <1>2, <2>1, <2>2, <3>1
  <2>8. CASE e.kind = "user_message_injected" /\ b.run = {}
    <3>1. Record(b, e) = Buf(b.prefix \cup {e}, b.run, b.tail, b.compact)
      BY <2>1, <2>8 DEF Record, ChildKinds, Buf
    <3>2. QED
      BY <1>2, <2>1, <2>2, <3>1
  <2>9. CASE e.kind = "turn_started" /\ b.run # {}
    <3>1. Record(b, e) = Buf(b.prefix, b.run, {e}, b.compact)
      BY <2>1, <2>9 DEF Record, ChildKinds, Buf
    <3>2. QED
      BY <1>2, <2>1, <2>2, <3>1
  <2>10. CASE e.kind = "turn_ended" /\ b.run # {}
    <3>1. Record(b, e) = Buf({}, b.run, {e}, b.compact)
      BY <2>1, <2>10 DEF Record, ChildKinds, Buf
    <3>2. QED
      BY <1>2, <2>1, <2>2, <3>1
  <2>11. CASE OtherEvent(b, e)
    <3>1. Record(b, e) = Buf(b.prefix, b.run, IF b.run = {} THEN b.tail ELSE b.tail \cup {e}, b.compact)
      BY <1>2, <2>1, <2>11 DEF Record, OtherEvent, Buf
    <3>2. QED
      BY <1>2, <2>1, <2>2, <3>1
  <2>12. QED
    BY <2>3, <2>4, <2>5, <2>6, <2>7, <2>8, <2>9, <2>10, <2>11, <1>2 DEF OtherEvent
<1>3. QED
  BY <1>1, <1>2

LEMMA TrimEffect ==
    ASSUME NEW b \in Buffers, NEW read
    PROVE  /\ TrimBySnapshot(b, read) \in Buffers
           /\ \A part \in Parts : TrimBySnapshot(b, read)[part] \subseteq b[part]
           /\ \A part \in Parts \ {"prefix", "tail"} : TrimBySnapshot(b, read)[part] = b[part]
BY DEF TrimBySnapshot, Buffers, Parts

LEMMA ReplayIs ==
    ASSUME BufferTyped
    PROVE  /\ DOMAIN buffer = Parts
           /\ Replay = buffer.prefix \cup buffer.run \cup buffer.tail \cup buffer.compact \cup buffer.child
           /\ Replay \in SUBSET Entries
BY DEF Replay, BufferTyped, Buffers, Parts

-----------------------------------------------------------------------------
(* Types are kept, action by action.                                       *)
CoreTyped == RunTyped /\ InputTyped /\ ChildTyped /\ RowsTyped /\ ChannelTyped

EmitOf(kind, blocks) == Emit(Event(kind, blocks))

LEMMA EmitEffect ==
    ASSUME ChannelTyped, NEW kind \in Kinds, NEW blocks \in SUBSET Blocks, Emit(Event(kind, blocks))
    PROVE  /\ out' = Append(out, Event(kind, blocks))
           /\ Event(kind, blocks) \in Events
           /\ out' \in Seq(Events) /\ Len(out') <= Channel /\ Len(out') = Len(out) + 1
           /\ \A i \in 1..Len(out) : out'[i] = out[i]
           /\ out'[Len(out) + 1] = Event(kind, blocks)
<1>1. Event(kind, blocks) \in Events
  BY DEF Event, Events
<1>2. Channel \in Nat /\ out \in Seq(Events)
  BY BoundFacts DEF ChannelTyped
<1>3. QED
  BY <1>1, <1>2 DEF Emit

LEMMA KindFacts ==
    /\ {"user_message_injected", "run_started", "turn_started", "text_delta", "tool_use",
         "pause_requested", "tool_result", "turn_ended", "run_finished", "compact_summary_started",
         "compact_summary_failed", "compact_summary_finished", "child_started", "child_delta",
         "child_committed", "child_finished"} = Kinds
BY DEF Kinds, MainKinds, ChildKinds

(* What a step of the core leaves alone. *)
CoreFrame == UNCHANGED <<seq, status, client, told>>

LEMMA InputStep ==
    ASSUME TypeInv, StoreInput \/ SendInput
    PROVE  /\ CoreTyped' /\ CoreFrame /\ UNCHANGED <<coreVars, child, out, buffer, torn>>
<1> InputTyped /\ RowsTyped /\ ChannelTyped /\ MaxInputs \in Nat
  BY BoundFacts DEF TypeInv
<1>1. CASE StoreInput
  <2>1. /\ UNCHANGED <<coreVars, child, out, inbox, seq, buffer, status, client, told, torn>>
        /\ input' = [input EXCEPT !.stored = @ + 1]
        /\ rows' = [rows EXCEPT !.ui = @ \cup {Input(input.stored + 1)}]
        /\ input.stored = input.sent /\ input.stored < MaxInputs
    BY <1>1 DEF StoreInput
  <2>2. input.stored + 1 \in 1..MaxInputs
    BY <2>1 DEF InputTyped
  <2>3. Input(input.stored + 1) \in Blocks
    BY <2>2, BlockFacts
  <2>4. InputTyped'
    BY <2>1 DEF InputTyped
  <2>5. RowsTyped'
    BY <2>1, <2>3 DEF RowsTyped
  <2>6. RunTyped' /\ ChildTyped' /\ ChannelTyped'
    BY <2>1 DEF TypeInv, RunTyped, ChildTyped, ChannelTyped, coreVars
  <2>7. QED
    BY <2>1, <2>4, <2>5, <2>6 DEF CoreTyped, CoreFrame
<1>2. CASE SendInput
  <2>1. /\ UNCHANGED <<coreVars, child, rows, out, seq, buffer, status, client, told, torn, calm>>
        /\ input' = [input EXCEPT !.sent = @ + 1]
        /\ inbox' = Append(inbox, Event("user_message_injected", {Input(input.stored)}))
        /\ input.sent < input.stored
    BY <1>2 DEF SendInput
  <2>2. InputTyped' /\ input.stored \in 1..MaxInputs
    BY <2>1 DEF InputTyped
  <2>3. Event("user_message_injected", {Input(input.stored)}) \in Events
    BY <2>2, BlockFacts DEF Event, Events, Kinds, MainKinds
  <2>4. ChannelTyped'
    <3> DEFINE ev == Event("user_message_injected", {Input(input.stored)})
    <3>1. /\ inbox \in Seq(Events) /\ ev \in Events /\ inbox' = Append(inbox, ev)
          /\ ev.kind = "user_message_injected"
          /\ \A i \in 1..Len(inbox) : inbox[i].kind = "user_message_injected"
      BY <2>1, <2>3 DEF ChannelTyped, Event
    <3> HIDE DEF ev
    <3>2. inbox' \in Seq(Events) /\ \A i \in 1..Len(inbox') : inbox'[i].kind = "user_message_injected"
      BY <3>1
    <3>3. QED
      BY <2>1, <3>2 DEF ChannelTyped
  <2>5. RunTyped' /\ ChildTyped' /\ RowsTyped'
    BY <2>1 DEF TypeInv, RunTyped, ChildTyped, RowsTyped, coreVars
  <2>6. QED
    BY <2>1, <2>2, <2>4, <2>5 DEF CoreTyped, CoreFrame
<1>3. QED
  BY <1>1, <1>2

(* A step that emits one event; what it is about the run is in the premise. *)
LEMMA EmitKeepsChannel ==
    ASSUME ChannelTyped, NEW kind \in Kinds, NEW blocks \in SUBSET Blocks, Emit(Event(kind, blocks)),
           UNCHANGED <<inbox, seq>>
    PROVE  ChannelTyped'
BY EmitEffect DEF ChannelTyped

LEMMA MessageType == ASSUME RunTyped, turn > 0 PROVE Message \in SUBSET Blocks
<1>1. turn \in Turns /\ deltas \in 0..MaxDeltas /\ MaxDeltas \in Nat /\ MaxTurns \in Nat
  BY BoundFacts DEF RunTyped, Turns
<1>2. \A n \in 1..deltas : n \in 1..MaxDeltas
  BY <1>1
<1>3. QED
  BY <1>1, <1>2, BlockFacts DEF Message

LEMMA RunStepTyped ==
    ASSUME TypeInv, StartRun \/ StartTurn \/ EndTurn \/ FinishRun
    PROVE  /\ CoreTyped' /\ CoreFrame /\ UNCHANGED <<input, child, rows, inbox, buffer, torn, calm>>
<1> RunTyped /\ ChannelTyped /\ MaxTurns \in Nat /\ MaxDeltas \in Nat
  BY BoundFacts DEF TypeInv
<1>1. /\ UNCHANGED <<input, child, rows, inbox, seq, buffer, status, client, told, torn, calm>>
      /\ \E kind \in Kinds : Emit(Event(kind, {}))
  BY KindFacts DEF StartRun, StartTurn, EndTurn, FinishRun
<1>2. RunTyped'
  BY DEF StartRun, StartTurn, EndTurn, FinishRun, RunTyped, RunStages, Calls
<1>3. ChannelTyped'
  BY <1>1, EmitKeepsChannel
<1>4. InputTyped' /\ ChildTyped' /\ RowsTyped'
  BY <1>1 DEF TypeInv, InputTyped, ChildTyped, RowsTyped
<1>5. QED
  BY <1>1, <1>2, <1>3, <1>4 DEF CoreTyped, CoreFrame

LEMMA TurnStepTyped ==
    ASSUME TypeInv, EmitText \/ EmitToolUse \/ EmitPause \/ EmitToolResult
    PROVE  /\ CoreTyped' /\ CoreFrame /\ UNCHANGED <<input, child, rows, inbox, buffer, torn, calm>>
<1> RunTyped /\ ChannelTyped /\ MaxTurns \in Nat /\ MaxDeltas \in Nat
  BY BoundFacts DEF TypeInv
<1>1. /\ UNCHANGED <<scope, turn, stage, input, child, rows, inbox, seq, buffer, status, client, told, torn, calm>>
      /\ stage \notin {"idle", "started"}
      /\ deltas' \in 0..MaxDeltas /\ call' \in Calls
  BY DEF EmitText, EmitToolUse, EmitPause, EmitToolResult, RunTyped, Calls
<1>2. RunTyped'
  BY <1>1 DEF RunTyped
<1>3. turn \in Turns
  BY <1>1 DEF RunTyped, Turns
<1>4. \E kind \in Kinds, blocks \in SUBSET Blocks : Emit(Event(kind, blocks))
  <2>1. CASE EmitText
    <3>1. {Text(turn, deltas + 1)} \in SUBSET Blocks
      BY <1>3, <2>1, BlockFacts DEF EmitText, RunTyped
    <3>2. QED
      BY <2>1, <3>1, KindFacts DEF EmitText
  <2>2. CASE ~EmitText
    BY <1>3, <2>2, BlockFacts, KindFacts DEF EmitToolUse, EmitPause, EmitToolResult
  <2>3. QED
    BY <2>1, <2>2
<1>5. ChannelTyped'
  BY <1>1, <1>4, EmitKeepsChannel
<1>6. InputTyped' /\ ChildTyped' /\ RowsTyped'
  BY <1>1 DEF TypeInv, InputTyped, ChildTyped, RowsTyped
<1>7. QED
  BY <1>1, <1>2, <1>5, <1>6 DEF CoreTyped, CoreFrame

(* The rows of the core's sinks. *)
Stores ==
    \/ StoreContext("stream", "llm", Message)
    \/ StoreDisplay("llm", "ui", Message)
    \/ call = "done" /\ StoreContext("stored", "results", {Result(turn)})
    \/ call = "done" /\ StoreDisplay("results", "results_ui", {Result(turn)})
    \/ StoreDisplay("compacting", "summary_row", {Summary})

LEMMA StoreStepTyped ==
    ASSUME TypeInv, Stores
    PROVE  /\ CoreTyped' /\ CoreFrame /\ UNCHANGED <<turn, deltas, call, input, child, out, inbox, buffer, torn>>
<1> RunTyped /\ RowsTyped
  BY DEF TypeInv
<1>1. /\ UNCHANGED <<scope, turn, deltas, call, input, child, out, inbox, seq, buffer, status, client, told, torn>>
      /\ stage' \in RunStages /\ stage \notin {"idle", "started"}
  BY DEF Stores, StoreContext, StoreDisplay, RunStages
<1>2. RunTyped'
  BY <1>1 DEF RunTyped
<1>3. Message \in SUBSET Blocks /\ {Result(turn)} \in SUBSET Blocks /\ {Summary} \in SUBSET Blocks
  BY <1>1, BlockFacts, MessageType DEF RunTyped, Turns
<1>4. \E blocks \in SUBSET Blocks : \/ rows' = [rows EXCEPT !.llm = @ \cup {blocks}]
                                   \/ rows' = [rows EXCEPT !.ui = @ \cup blocks]
  BY <1>3 DEF Stores, StoreContext, StoreDisplay
<1>5. RowsTyped'
  BY <1>4 DEF RowsTyped
<1>6. InputTyped' /\ ChildTyped' /\ ChannelTyped'
  BY <1>1 DEF TypeInv, InputTyped, ChildTyped, ChannelTyped
<1>7. QED
  BY <1>1, <1>2, <1>5, <1>6 DEF CoreTyped, CoreFrame

(* The trimming of the buffer from the sinks. *)
Trims ==
    \/ TrimPersisted("ui", "stored", Streamed)
    \/ call = "done" /\ TrimPersisted("results_ui", "settled", {"tool_result"})
    \/ TrimCompact

LEMMA TrimStepTyped ==
    ASSUME TypeInv, Trims
    PROVE  /\ CoreTyped' /\ BufferTyped' /\ CoreFrame
           /\ UNCHANGED <<turn, deltas, call, input, child, rows, out, inbox, calm>>
           /\ \A part \in Parts : buffer'[part] \subseteq buffer[part]
           /\ \A part \in Parts \ {"tail", "compact"} : buffer'[part] = buffer[part]
<1> RunTyped /\ BufferTyped
  BY DEF TypeInv
<1>1. /\ UNCHANGED <<scope, turn, deltas, call, input, child, rows, out, inbox, seq, status, client, told, calm>>
      /\ stage' \in RunStages /\ stage \notin {"idle", "started"}
  BY DEF Trims, TrimPersisted, TrimCompact, RunStages
<1>2. \/ \E kinds : buffer' = [buffer EXCEPT !.tail = @ \ OfKind(@, kinds)]
      \/ buffer' = [buffer EXCEPT !.compact = {}]
  BY DEF Trims, TrimPersisted, TrimCompact
<1>3. /\ BufferTyped'
      /\ \A part \in Parts : buffer'[part] \subseteq buffer[part]
      /\ \A part \in Parts \ {"tail", "compact"} : buffer'[part] = buffer[part]
  BY <1>2 DEF BufferTyped, Buffers, Parts
<1>4. RunTyped'
  BY <1>1 DEF RunTyped
<1>5. InputTyped' /\ ChildTyped' /\ RowsTyped' /\ ChannelTyped'
  BY <1>1 DEF TypeInv, InputTyped, ChildTyped, RowsTyped, ChannelTyped
<1>6. QED
  BY <1>1, <1>3, <1>4, <1>5 DEF CoreTyped, CoreFrame

(* The events of a manual compaction. *)
CompactEmits ==
    \/ "compact" \in scope /\ Compact("finished", "compacting", "compact_summary_started", {})
    \/ Compact("compacting", "compact_failed", "compact_summary_failed", {})
    \/ Compact("summary_trimmed", "compacted", "compact_summary_finished", {Summary})

LEMMA CompactStepTyped ==
    ASSUME TypeInv, CompactEmits
    PROVE  /\ CoreTyped' /\ CoreFrame
           /\ UNCHANGED <<turn, deltas, call, input, child, rows, inbox, buffer, torn, calm>>
<1> RunTyped /\ ChannelTyped
  BY DEF TypeInv
<1>1. /\ UNCHANGED <<scope, turn, deltas, call, input, child, rows, inbox, seq, buffer, status, client, told, torn, calm>>
      /\ stage' \in RunStages /\ stage \notin {"idle", "started"}
  BY DEF CompactEmits, Compact, RunStages
<1>2. RunTyped'
  BY <1>1 DEF RunTyped
<1>3. \E kind \in Kinds, blocks \in SUBSET Blocks : Emit(Event(kind, blocks))
  BY BlockFacts, KindFacts DEF CompactEmits, Compact
<1>4. ChannelTyped'
  BY <1>1, <1>3, EmitKeepsChannel
<1>5. InputTyped' /\ ChildTyped' /\ RowsTyped'
  BY <1>1 DEF TypeInv, InputTyped, ChildTyped, RowsTyped
<1>6. QED
  BY <1>1, <1>2, <1>4, <1>5 DEF CoreTyped, CoreFrame

LEMMA ChildMessageType == ASSUME ChildTyped PROVE ChildMessage \in SUBSET ChildBlocks
BY BoundFacts DEF ChildMessage, ChildTyped, ChildBlocks

LEMMA ChildStepTyped ==
    ASSUME TypeInv, SpawnChild \/ ChildStep
    PROVE  /\ CoreTyped' /\ CoreFrame /\ UNCHANGED <<coreVars, input, inbox, buffer, torn>>
<1> ChildTyped /\ RowsTyped /\ ChannelTyped /\ ChildDeltas \in Nat
  BY BoundFacts DEF TypeInv
<1>1. UNCHANGED <<coreVars, input, inbox, seq, buffer, status, client, told, torn>>
  BY DEF SpawnChild, ChildStep, ChildTextDelta, ChildEmits, ChildWrites
<1>2. ChildTyped'
  BY DEF SpawnChild, ChildStep, ChildTextDelta, ChildEmits, ChildWrites, ChildTyped, ChildStages
<1>3. ChildMessage \in SUBSET ChildBlocks /\ ChildMessage \in SUBSET Blocks
  BY ChildMessageType, BlockFacts
<1>4. rows' = rows \/ \E blocks \in SUBSET ChildBlocks : rows' = [rows EXCEPT !.child = @ \cup blocks]
  BY <1>3 DEF SpawnChild, ChildStep, ChildTextDelta, ChildEmits, ChildWrites
<1>5. RowsTyped'
  BY <1>4 DEF RowsTyped
<1>6. out' = out \/ \E kind \in Kinds, blocks \in SUBSET Blocks : Emit(Event(kind, blocks))
  <2>1. CASE ChildTextDelta
    <3>1. {ChildText(child.deltas + 1)} \in SUBSET Blocks
      BY <2>1, BlockFacts DEF ChildTextDelta, ChildTyped
    <3>2. QED
      BY <2>1, <3>1, KindFacts DEF ChildTextDelta
  <2>2. CASE ~ChildTextDelta
    BY <2>2, <1>3, KindFacts DEF SpawnChild, ChildStep, ChildEmits, ChildWrites
  <2>3. QED
    BY <2>1, <2>2
<1>7. ChannelTyped'
  <2>1. CASE out' = out
    BY <1>1, <2>1 DEF ChannelTyped
  <2>2. CASE out' # out
    BY <1>1, <1>6, <2>2, EmitKeepsChannel
  <2>3. QED
    BY <2>1, <2>2
<1>8. RunTyped' /\ InputTyped'
  BY <1>1 DEF TypeInv, RunTyped, InputTyped, coreVars
<1>9. QED
  BY <1>1, <1>2, <1>5, <1>7, <1>8 DEF CoreTyped, CoreFrame

(* The steps of the core by what they do to the buffer. *)
LEMMA CoreCases ==
    ASSUME Core
    PROVE  \/ StoreInput \/ SendInput
           \/ StartRun \/ StartTurn \/ EndTurn \/ FinishRun
           \/ EmitText \/ EmitToolUse \/ EmitPause \/ EmitToolResult
           \/ Stores
           \/ Trims
           \/ CompactEmits
           \/ SpawnChild \/ ChildStep
BY DEF Core, CommitMessage, CommitResults, ManualCompact, Stores, Trims, CompactEmits

Numbered(event) == [kind |-> event.kind, blocks |-> event.blocks, seq |-> seq]

(* What the consumer does with the event it takes, from either queue. *)
Consumes(event, e) ==
    /\ seq' = seq + 1
    /\ buffer' = Record(buffer, e)
    /\ status' = Project(status, e)
    /\ client' = IF client.phase = "off" THEN client ELSE [client EXCEPT !.queue = Append(@, e)]
    /\ told' = told \cup (IF e.kind = "child_delta" THEN {} ELSE e.blocks)
    /\ torn' = torn \ Mended(e)
    /\ UNCHANGED <<coreVars, input, child, rows, calm>>
    /\ \/ /\ out # <<>> /\ event = out[1] /\ out' = Tail(out) /\ inbox' = inbox
       \/ /\ inbox # <<>> /\ event = inbox[1] /\ inbox' = Tail(inbox) /\ out' = out

LEMMA ConsumerEffect ==
    ASSUME TypeInv, Consumer
    PROVE  \E event \in Events, e \in Entries :
              e = Numbered(event) /\ e.kind = event.kind /\ e.blocks = event.blocks /\ e.seq = seq
              /\ Consumes(event, e)
<1> out \in Seq(Events) /\ inbox \in Seq(Events) /\ seq \in Nat
  BY DEF TypeInv, ChannelTyped
<1>1. \A event \in Events : /\ Numbered(event) \in Entries
                            /\ Numbered(event).kind = event.kind
                            /\ Numbered(event).blocks = event.blocks
                            /\ Numbered(event).seq = seq
  BY DEF Numbered, Events, Entries
<1>2. CASE TakeOutput
  <2>1. out # <<>> /\ Head(out) = out[1] /\ out[1] \in Events
    BY <1>2 DEF TakeOutput
  <2>2. Consumes(out[1], Numbered(out[1]))
    BY <1>1, <1>2, <2>1 DEF TakeOutput, Broadcast, Consumes, Numbered
  <2>3. QED
    BY <1>1, <2>1, <2>2
<1>3. CASE TakeInbox
  <2>1. inbox # <<>> /\ Head(inbox) = inbox[1] /\ inbox[1] \in Events
    BY <1>3 DEF TakeInbox
  <2>2. Consumes(inbox[1], Numbered(inbox[1]))
    BY <1>1, <1>3, <2>1 DEF TakeInbox, Broadcast, Consumes, Numbered
  <2>3. QED
    BY <1>1, <2>1, <2>2
<1>4. QED
  BY <1>2, <1>3 DEF Consumer

LEMMA TailFacts ==
    ASSUME NEW S, NEW s \in Seq(S), s # <<>>
    PROVE  /\ Tail(s) \in Seq(S) /\ Len(Tail(s)) = Len(s) - 1 /\ Len(s) >= 1 /\ s[1] \in S /\ Head(s) = s[1]
           /\ \A i \in 1..Len(Tail(s)) : Tail(s)[i] = s[i + 1] /\ i + 1 \in 2..Len(s)
OBVIOUS

LEMMA AppendFacts ==
    ASSUME NEW S, NEW s \in Seq(S), NEW x \in S
    PROVE  /\ Append(s, x) \in Seq(S) /\ Len(Append(s, x)) = Len(s) + 1
           /\ \A i \in 1..Len(s) : Append(s, x)[i] = s[i]
           /\ Append(s, x)[Len(s) + 1] = x
OBVIOUS

LEMMA ConsumerTyped ==
    ASSUME TypeInv, NEW event \in Events, NEW e \in Entries, Consumes(event, e)
    PROVE  TypeInv'
<1> ChannelTyped /\ BufferTyped /\ StatusTyped /\ ClientTyped /\ Channel \in Nat
  BY BoundFacts DEF TypeInv
<1>1. RunTyped' /\ InputTyped' /\ ChildTyped' /\ RowsTyped'
  BY DEF Consumes, TypeInv, RunTyped, InputTyped, ChildTyped, RowsTyped, coreVars
<1>2. ChannelTyped'
  <2>1. CASE out # <<>> /\ out' = Tail(out) /\ inbox' = inbox
    BY <2>1, TailFacts DEF Consumes, ChannelTyped
  <2>2. CASE inbox # <<>> /\ inbox' = Tail(inbox) /\ out' = out
    <3>1. inbox' \in Seq(Events) /\ \A i \in 1..Len(inbox') : inbox'[i].kind = "user_message_injected"
      BY <2>2, TailFacts DEF ChannelTyped
    <3>2. QED
      BY <2>2, <3>1 DEF Consumes, ChannelTyped
  <2>3. QED
    BY <2>1, <2>2 DEF Consumes
<1>3. BufferTyped'
  BY RecordEffect DEF Consumes, BufferTyped
<1>4. StatusTyped'
  BY ProjectType DEF Consumes, StatusTyped
<1>5. ClientTyped'
  <2>1. client.queue \in Seq(Entries)
    BY DEF ClientTyped, Clients
  <2>2. Append(client.queue, e) \in Seq(Entries)
    BY <2>1
  <2>3. QED
    BY <2>2 DEF Consumes, ClientTyped, Clients
<1>6. QED
  BY <1>1, <1>2, <1>3, <1>4, <1>5 DEF TypeInv

(* What the socket and the client leave alone. *)
ServerFrame == UNCHANGED <<coreVars, input, child, rows, out, inbox, seq, status, told, torn>>

LEMMA SocketTyped ==
    ASSUME TypeInv, Socket \/ Subscribe
    PROVE  TypeInv' /\ ServerFrame /\ (buffer' = buffer \/ SendSnapshot)
<1> RowsTyped /\ BufferTyped /\ StatusTyped /\ ClientTyped
  BY DEF TypeInv
<1> client \in Clients
  BY DEF ClientTyped
<1>1. ServerFrame /\ (buffer' = buffer \/ SendSnapshot)
  BY DEF Socket, Subscribe, ReadMessages, ReadTasks, ReadContext, SendSnapshot, TakeReplay, ReceiveReplay,
         SendStatus, ReceiveLive, ServerFrame
<1>2. BufferTyped'
  BY <1>1, TrimEffect DEF SendSnapshot, BufferTyped
<1>3. /\ client.queue \in Seq(Entries) /\ client.read \in Reads /\ client.replay \in SUBSET Entries
      /\ client.through \in Nat
  BY DEF Clients
<1>4. ClientTyped'
  <2>1. CASE Subscribe
    <3>1. client' = [client EXCEPT !.phase = "subscribed", !.queue = <<>>, !.through = 0]
      BY <2>1 DEF Subscribe
    <3>2. <<>> \in Seq(Entries) /\ 0 \in Nat
      OBVIOUS
    <3>3. QED
      BY <3>1, <3>2 DEF ClientTyped, Clients, Phases
  <2>2. CASE ReadMessages \/ ReadTasks \/ ReadContext
    <3>1. /\ rows.ui \in SUBSET Blocks /\ rows.child \in SUBSET ChildBlocks /\ rows.llm \in SUBSET SUBSET Blocks
      BY DEF RowsTyped
    <3>2. \E phase \in Phases, read \in Reads : client' = [client EXCEPT !.phase = phase, !.read = read]
      <4>1. CASE ReadMessages
        <5>1. client' = [client EXCEPT !.phase = "ui", !.read = [client.read EXCEPT !.ui = rows.ui]]
          BY <4>1 DEF ReadMessages
        <5>2. [client.read EXCEPT !.ui = rows.ui] \in Reads
          BY <1>3, <3>1 DEF Reads
        <5>3. QED
          BY <5>1, <5>2 DEF Phases
      <4>2. CASE ReadTasks
        <5> DEFINE row == child.stage \notin {"none", "over", "ended"}
        <5>1. client' = [client EXCEPT !.phase = "tasks",
                                      !.read = [client.read EXCEPT !.child = rows.child, !.childRow = row]]
          BY <4>2 DEF ReadTasks
        <5>2. [client.read EXCEPT !.child = rows.child, !.childRow = row] \in Reads
          BY <1>3, <3>1 DEF Reads
        <5>3. QED
          BY <5>1, <5>2 DEF Phases
      <4>3. CASE ReadContext
        <5>1. client' = [client EXCEPT !.phase = "llm", !.read = [client.read EXCEPT !.llm = rows.llm]]
          BY <4>3 DEF ReadContext
        <5>2. [client.read EXCEPT !.llm = rows.llm] \in Reads
          BY <1>3, <3>1 DEF Reads
        <5>3. QED
          BY <5>1, <5>2 DEF Phases
      <4>4. QED
        BY <2>2, <4>1, <4>2, <4>3
    <3>3. QED
      BY <3>2 DEF ClientTyped, Clients
  <2>3. CASE SendSnapshot
    <3>1. /\ Shows(InSnapshot(client.read)) \in [Blocks -> 0..2] /\ Nothing \in [Blocks -> 0..2]
          /\ client.read.childRow \in BOOLEAN /\ NoRead \in Reads
      BY <1>3, ShowsType DEF Nothing, NoRead, Reads
    <3>2. QED
      BY <2>3, <3>1 DEF SendSnapshot, ClientTyped, Clients, Phases
  <2>4. CASE TakeReplay
    BY <2>4, ReplayIs DEF TakeReplay, ClientTyped, Clients, Phases
  <2>5. CASE ReceiveReplay
    <3>1. PICK e \in client.replay :
            client' = Apply([client EXCEPT !.replay = @ \ {e},
                                           !.through = IF e.seq > @ THEN e.seq ELSE @], e)
      BY <2>5 DEF ReceiveReplay
    <3>2. e \in Entries /\ e.seq \in Nat
      BY <1>3 DEF Entries
    <3>3. [client EXCEPT !.replay = @ \ {e}, !.through = IF e.seq > @ THEN e.seq ELSE @] \in Clients
      BY <1>3, <3>2 DEF Clients
    <3>4. QED
      BY <3>1, <3>2, <3>3, ApplyType DEF ClientTyped
  <2>6. CASE SendStatus
    BY <2>6 DEF SendStatus, ClientTyped, Clients, Phases, StatusTyped
  <2>7. CASE ReceiveLive
    <3> DEFINE e == Head(client.queue)
               c == [client EXCEPT !.queue = Tail(@)]
    <3>1. client' = c \/ client' = Apply(c, e)
      BY <2>7 DEF ReceiveLive
    <3>2. e \in Entries /\ Tail(client.queue) \in Seq(Entries)
      BY <1>3, <2>7 DEF ReceiveLive
    <3>3. c \in Clients
      BY <3>2 DEF Clients
    <3> HIDE DEF c, e
    <3>4. QED
      BY <3>1, <3>2, <3>3, ApplyType DEF ClientTyped
  <2>8. QED
    BY <2>1, <2>2, <2>3, <2>4, <2>5, <2>6, <2>7 DEF Socket
<1>5. RunTyped' /\ InputTyped' /\ ChildTyped' /\ RowsTyped' /\ ChannelTyped' /\ StatusTyped'
  BY <1>1 DEF ServerFrame, TypeInv, RunTyped, InputTyped, ChildTyped, RowsTyped, ChannelTyped, StatusTyped, coreVars
<1>6. QED
  BY <1>1, <1>2, <1>4, <1>5 DEF TypeInv

(* What every step of the core leaves alone, and the channel it may extend. *)
LEMMA CoreEffect ==
    ASSUME TypeInv, Core
    PROVE  TypeInv' /\ CoreFrame /\ ((buffer' = buffer /\ torn' = torn) \/ Trims)
<1>1. CoreTyped' /\ CoreFrame /\ ((BufferTyped' /\ Trims) \/ (buffer' = buffer /\ torn' = torn))
  <2>1. CASE Trims
    BY <2>1, TrimStepTyped
  <2>2. CASE StoreInput \/ SendInput \/ SpawnChild \/ ChildStep \/ CompactEmits
    BY <2>2, InputStep, ChildStepTyped, CompactStepTyped
  <2>3. CASE StartRun \/ StartTurn \/ EndTurn \/ FinishRun \/ EmitText \/ EmitToolUse \/ EmitPause \/ EmitToolResult
    BY <2>3, RunStepTyped, TurnStepTyped
  <2>4. CASE Stores
    BY <2>4, StoreStepTyped
  <2>5. QED
    BY <2>1, <2>2, <2>3, <2>4, CoreCases
<1>2. BufferTyped' /\ StatusTyped' /\ ClientTyped'
  BY <1>1 DEF TypeInv, CoreFrame, BufferTyped, StatusTyped, ClientTyped
<1>3. QED
  BY <1>1, <1>2 DEF TypeInv, CoreTyped

LEMMA TypeStep == TypeInv /\ [Next]_vars => TypeInv'
<1> SUFFICES ASSUME TypeInv, [Next]_vars PROVE TypeInv'
  OBVIOUS
<1>1. CASE Core
  BY <1>1, CoreEffect
<1>2. CASE Consumer
  BY <1>2, ConsumerEffect, ConsumerTyped
<1>3. CASE Socket \/ Subscribe
  BY <1>3, SocketTyped
<1>4. CASE UNCHANGED vars
  BY <1>4 DEF vars, coreVars, TypeInv, RunTyped, InputTyped, ChildTyped, RowsTyped, ChannelTyped, BufferTyped,
              StatusTyped, ClientTyped
<1>5. QED
  BY <1>1, <1>2, <1>3, <1>4 DEF Next

LEMMA Typed == EventSpec => []TypeInv
BY TypeInit, TypeStep, PTL DEF EventSpec

-----------------------------------------------------------------------------
(* Numbers.  One consumer numbers the events, so what the buffer holds is   *)
(* older than the next number and no two entries share one; the same for    *)
(* what a client still has to receive, which is in order.                    *)
BufferNumbered ==
    /\ \A e \in Replay : e.seq < seq
    /\ \A e, f \in Replay : e.seq = f.seq => e = f
    /\ \A part \in Parts \ {"child"} : \A e \in buffer[part] : e.kind \notin ChildKinds
    /\ IsFiniteSet(Replay)

ClientNumbered ==
    /\ \A i \in 1..Len(client.queue) : client.queue[i].seq < seq
    /\ \A i, j \in 1..Len(client.queue) : i < j => client.queue[i].seq < client.queue[j].seq
    /\ client.through < seq
    /\ \A e \in client.replay : e.seq < seq

(* A buffer that only loses entries keeps its numbers. *)
LEMMA FewerNumbered ==
    ASSUME TypeInv, TypeInv', BufferNumbered, seq' = seq, \A part \in Parts : buffer'[part] \subseteq buffer[part]
    PROVE  BufferNumbered'
<1>1. BufferTyped /\ BufferTyped'
  BY DEF TypeInv
<1>2. Replay = buffer.prefix \cup buffer.run \cup buffer.tail \cup buffer.compact \cup buffer.child
  BY <1>1, ReplayIs
<1>3. Replay' = buffer'.prefix \cup buffer'.run \cup buffer'.tail \cup buffer'.compact \cup buffer'.child
  BY <1>1 DEF Replay, BufferTyped, Buffers, Parts
<1>4. Replay' \subseteq Replay
  BY <1>2, <1>3 DEF Parts
<1>5. IsFiniteSet(Replay')
  BY <1>4, FS_Subset DEF BufferNumbered
<1>6. QED
  BY <1>4, <1>5 DEF BufferNumbered

LEMMA BufferRecorded ==
    ASSUME TypeInv, TypeInv', BufferNumbered, NEW e \in Entries, e.seq = seq,
           seq' = seq + 1, buffer' = Record(buffer, e)
    PROVE  BufferNumbered'
<1>1. buffer \in Buffers /\ buffer' \in Buffers /\ seq \in Nat
  BY DEF TypeInv, BufferTyped, ChannelTyped
<1>2. Replay = buffer.prefix \cup buffer.run \cup buffer.tail \cup buffer.compact \cup buffer.child
  BY <1>1, ReplayIs DEF BufferTyped
<1>3. Replay' = buffer'.prefix \cup buffer'.run \cup buffer'.tail \cup buffer'.compact \cup buffer'.child
  BY <1>1 DEF Replay, Buffers
<1>4. \A part \in Parts \ {"child"} : buffer'[part] \subseteq buffer[part] \cup {e}
  BY <1>1, RecordEffect
<1>5. \A x \in Replay : x \in Entries /\ x.seq \in Nat /\ x.seq < seq
  BY <1>1, ReplayIs DEF BufferTyped, BufferNumbered, Entries
<1>6. IsFiniteSet(Replay \cup {e})
  BY FS_AddElement DEF BufferNumbered
<1>7. CASE Replay' \subseteq Replay \cup {e}
  <2>1. IsFiniteSet(Replay')
    BY <1>6, <1>7, FS_Subset
  <2>2. \A part \in Parts \ {"child"} : \A x \in buffer'[part] : x.kind \notin ChildKinds
    BY <1>1, <1>4, RecordEffect DEF BufferNumbered
  <2>3. \A x \in Replay' : x.seq < seq'
    BY <1>1, <1>5, <1>7
  <2>4. \A x, y \in Replay' : x.seq = y.seq => x = y
    BY <1>1, <1>5, <1>7 DEF BufferNumbered
  <2>5. QED
    BY <2>1, <2>2, <2>3, <2>4 DEF BufferNumbered
<1>8. CASE ~(Replay' \subseteq Replay \cup {e})
  <2>1. e.kind \in ChildKinds
    <3>1. SUFFICES ASSUME e.kind \notin ChildKinds PROVE FALSE
      OBVIOUS
    <3>2. buffer'.child = buffer.child
      BY <3>1, <1>1, RecordEffect
    <3>3. QED
      BY <3>2, <1>2, <1>3, <1>4, <1>8 DEF Parts
  <2>2. /\ buffer'.child = RecordChild(buffer.child, e)
        /\ \A part \in Parts \ {"child"} : buffer'[part] = buffer[part]
    BY <2>1, <1>1, RecordEffect
  <2> DEFINE last == OfKind(buffer.child, {"child_delta"})
  <2>3. buffer.child \in SUBSET Entries
    BY <1>1 DEF Buffers
  <2>4. ~(buffer'.child \subseteq buffer.child \cup {e})
    BY <2>2, <1>2, <1>3, <1>8 DEF Parts
  <2>5. PICK m \in Entries, x \in last : m.seq = x.seq /\ buffer'.child = (buffer.child \ last) \cup {m}
    BY <2>1, <2>2, <2>3, <2>4, ChildRecord
  <2>6. x \in buffer.child /\ x.kind = "child_delta" /\ x \in Replay
    BY <2>5, <1>2 DEF OfKind
  <2>7. Replay' \subseteq (Replay \ {x}) \cup {m}
    <3>1. \A part \in Parts \ {"child"} : x \notin buffer[part]
      BY <2>6 DEF BufferNumbered, ChildKinds
    <3>2. x \notin buffer.child \ last
      BY <2>5
    <3> HIDE DEF last
    <3>3. QED
      BY <3>1, <3>2, <2>2, <2>5, <1>2, <1>3 DEF Parts
  <2>8. IsFiniteSet(Replay')
    <3>1. IsFiniteSet(Replay \cup {m})
      BY FS_AddElement DEF BufferNumbered
    <3>2. QED
      BY <3>1, <2>7, FS_Subset
  <2>9. \A y \in Replay' : y.seq < seq'
    BY <2>5, <2>6, <2>7, <1>1, <1>5
  <2>10. \A y, z \in Replay' : y.seq = z.seq => y = z
    BY <2>5, <2>6, <2>7, <1>5 DEF BufferNumbered
  <2>11. \A part \in Parts \ {"child"} : \A y \in buffer'[part] : y.kind \notin ChildKinds
    BY <2>2 DEF BufferNumbered
  <2>12. QED
    BY <2>8, <2>9, <2>10, <2>11 DEF BufferNumbered
<1>9. QED
  BY <1>7, <1>8

(* What each step of the connection does to what a client has to receive.  *)
LEMMA SocketEffect ==
    ASSUME TypeInv, Socket \/ Subscribe
    PROVE  \/ /\ client.phase \notin {"off", "live"} /\ client'.phase \notin {"off", "live"}
              /\ client'.queue = client.queue /\ client'.replay = client.replay
              /\ client'.through = client.through
              /\ ReadMessages \/ ReadTasks \/ ReadContext \/ SendSnapshot
           \/ /\ client.phase = "off" /\ client'.phase = "subscribed"
              /\ client'.queue = <<>> /\ client'.through = 0
              /\ client'.replay = client.replay /\ Subscribe
           \/ /\ client.phase = "snapshot" /\ client'.phase = "replaying"
              /\ client'.queue = client.queue /\ client'.replay = Replay
              /\ client'.through = client.through /\ TakeReplay
           \/ /\ client.phase = "replaying" /\ client'.phase = "replaying"
              /\ client'.queue = client.queue
              /\ \E e \in client.replay :
                    /\ \A x \in client.replay : e.seq <= x.seq
                    /\ client'.replay = client.replay \ {e}
                    /\ client'.through = IF e.seq > client.through THEN e.seq ELSE client.through
              /\ ReceiveReplay
           \/ /\ client.phase = "replaying" /\ client'.phase = "live" /\ client.replay = {}
              /\ client'.queue = client.queue /\ client'.replay = client.replay
              /\ client'.through = client.through /\ SendStatus
           \/ /\ client.phase = "live" /\ client'.phase = "live"
              /\ client.queue # <<>> /\ client'.queue = Tail(client.queue)
              /\ client'.replay = client.replay /\ client'.through = client.through
              /\ ReceiveLive
<1> client \in Clients
  BY DEF TypeInv, ClientTyped
<1>1. CASE ReadMessages \/ ReadTasks \/ ReadContext \/ SendSnapshot
  BY <1>1 DEF ReadMessages, ReadTasks, ReadContext, SendSnapshot, Clients
<1>2. CASE Subscribe
  BY <1>2 DEF Subscribe, Clients
<1>3. CASE TakeReplay
  BY <1>3 DEF TakeReplay, Clients
<1>4. CASE ReceiveReplay
  <2>1. client.phase = "replaying"
    BY <1>4 DEF ReceiveReplay
  <2>2. PICK e \in client.replay :
          /\ \A x \in client.replay : e.seq <= x.seq
          /\ client' = Apply([client EXCEPT !.replay = @ \ {e},
                                           !.through = IF e.seq > @ THEN e.seq ELSE @], e)
    BY <1>4 DEF ReceiveReplay
  <2> DEFINE c == [client EXCEPT !.replay = @ \ {e}, !.through = IF e.seq > @ THEN e.seq ELSE @]
  <2>3. e \in Entries /\ e.seq \in Nat /\ client.through \in Nat
    BY DEF Clients, Entries
  <2>4. c \in Clients
    BY <2>3 DEF Clients
  <2>5. /\ c.phase = "replaying" /\ c.queue = client.queue /\ c.replay = client.replay \ {e}
        /\ c.through = IF e.seq > client.through THEN e.seq ELSE client.through
    BY <2>1, <2>3 DEF Clients
  <2>6. client' = Apply(c, e)
    BY <2>2
  <2> HIDE DEF c
  <2>7. /\ client'.phase = c.phase /\ client'.queue = c.queue /\ client'.replay = c.replay
        /\ client'.through = c.through
    BY <2>3, <2>4, <2>6, ApplyType
  <2>8. QED
    BY <1>4, <2>1, <2>2, <2>5, <2>7
<1>5. CASE SendStatus
  BY <1>5 DEF SendStatus, Clients
<1>6. CASE ReceiveLive
  <2> DEFINE e == Head(client.queue)
             c == [client EXCEPT !.queue = Tail(@)]
  <2>1. client.phase = "live" /\ client.queue # <<>> /\ (client' = c \/ client' = Apply(c, e))
    BY <1>6 DEF ReceiveLive
  <2>2. client.queue \in Seq(Entries)
    BY DEF Clients
  <2>3. e \in Entries /\ Tail(client.queue) \in Seq(Entries)
    BY <2>1, <2>2
  <2>4. /\ c \in Clients /\ c.phase = "live" /\ c.queue = Tail(client.queue) /\ c.replay = client.replay
        /\ c.through = client.through
    BY <2>1, <2>3 DEF Clients
  <2> HIDE DEF c, e
  <2>5. /\ client'.phase = c.phase /\ client'.queue = c.queue /\ client'.replay = c.replay
        /\ client'.through = c.through
    BY <2>1, <2>3, <2>4, ApplyType
  <2>6. QED
    BY <1>6, <2>1, <2>4, <2>5
<1>7. QED
  BY <1>1, <1>2, <1>3, <1>4, <1>5, <1>6 DEF Socket

NumberInv == BufferNumbered /\ ClientNumbered

LEMMA NumberInit == Init => NumberInv
<1> SUFFICES ASSUME Init PROVE NumberInv
  OBVIOUS
<1>1. BufferTyped
  BY TypeInit DEF TypeInv
<1>2. Replay = {} /\ \A part \in Parts : buffer[part] = {}
  <2>1. buffer = [prefix |-> {}, run |-> {}, tail |-> {}, compact |-> {}, child |-> {}]
    BY DEF Init, EmptyBuffer
  <2>2. \A part \in Parts : buffer[part] = {}
    BY <2>1 DEF Parts
  <2>3. QED
    BY <1>1, <2>2, ReplayIs DEF Parts
<1>3. BufferNumbered
  BY <1>2, FS_EmptySet DEF BufferNumbered
<1>4. ClientNumbered
  BY DEF Init, ClientNumbered
<1>5. QED
  BY <1>3, <1>4 DEF NumberInv

(* A client appends what is recorded, or is not there. *)
LEMMA ClientRecorded ==
    ASSUME TypeInv, NEW event \in Events, NEW e \in Entries, Consumes(event, e)
    PROVE  /\ client.phase = "off" => client' = client
           /\ client.phase # "off" =>
                /\ client'.queue = Append(client.queue, e)
                /\ client'.queue \in Seq(Entries) /\ Len(client'.queue) = Len(client.queue) + 1
                /\ \A i \in 1..Len(client.queue) : client'.queue[i] = client.queue[i]
                /\ client'.queue[Len(client.queue) + 1] = e
           /\ client'.phase = client.phase /\ client'.replay = client.replay /\ client'.through = client.through
           /\ client'.active = client.active /\ client'.pauses = client.pauses /\ client'.view = client.view
           /\ client'.typing = client.typing /\ client'.open = client.open /\ client'.read = client.read
<1>1. client \in Clients /\ client.queue \in Seq(Entries)
  BY DEF TypeInv, ClientTyped, Clients
<1>2. CASE client.phase = "off"
  BY <1>2 DEF Consumes
<1>3. CASE client.phase # "off"
  <2>1. client' = [client EXCEPT !.queue = Append(@, e)]
    BY <1>3 DEF Consumes
  <2>2. client'.queue = Append(client.queue, e)
    BY <1>1, <2>1 DEF Clients
  <2>3. QED
    BY <1>1, <1>3, <2>1, <2>2, AppendFacts DEF Clients
<1>4. QED
  BY <1>2, <1>3

LEMMA ClientNumberedStep ==
    ASSUME TypeInv, TypeInv', NumberInv, Consumer \/ Socket \/ Subscribe
    PROVE  ClientNumbered'
<1>1. /\ client \in Clients /\ client.queue \in Seq(Entries) /\ client.through \in Nat
      /\ client.replay \in SUBSET Entries /\ seq \in Nat
      /\ client' \in Clients /\ client'.queue \in Seq(Entries) /\ seq' \in Nat
  BY DEF TypeInv, ClientTyped, Clients, ChannelTyped
<1>2. \A i \in 1..Len(client.queue) : client.queue[i] \in Entries /\ client.queue[i].seq \in Nat
  <2>1. \A i \in 1..Len(client.queue) : client.queue[i] \in Entries
    BY <1>1
  <2>2. QED
    BY <2>1 DEF Entries
<1>3. \A e \in client.replay \cup Replay : e.seq \in Nat
  <2>1. Replay \in SUBSET Entries
    BY ReplayIs DEF TypeInv
  <2>2. \A e \in Entries : e.seq \in Nat
    BY DEF Entries
  <2>3. QED
    BY <1>1, <2>1, <2>2
<1>4. CASE Consumer
  <2>1. PICK event \in Events, e \in Entries : Consumes(event, e) /\ e.seq = seq
    BY <1>4, ConsumerEffect
  <2>2. seq' = seq + 1
    BY <2>1 DEF Consumes
  <2>3. CASE client.phase = "off"
    <3>1. client' = client
      BY <2>1, <2>3, ClientRecorded
    <3>2. QED
      BY <1>1, <1>2, <1>3, <2>2, <3>1 DEF NumberInv, ClientNumbered
  <2>4. CASE client.phase # "off"
    <3>1. /\ Len(client'.queue) = Len(client.queue) + 1
          /\ \A i \in 1..Len(client.queue) : client'.queue[i] = client.queue[i]
          /\ client'.queue[Len(client.queue) + 1] = e
          /\ client'.replay = client.replay /\ client'.through = client.through
      BY <2>1, <2>4, ClientRecorded
    <3>2. \A i \in 1..Len(client'.queue) :
             i = Len(client.queue) + 1 \/ (i \in 1..Len(client.queue) /\ i < Len(client.queue) + 1)
      BY <1>1, <3>1
    <3> DEFINE old == client.queue
               new == client'.queue
    <3>6. \A i \in 1..Len(old) : new[i].seq \in Nat /\ new[i].seq < seq
      BY <1>2, <3>1 DEF NumberInv, ClientNumbered
    <3>7. \A i, j \in 1..Len(old) : i < j => new[i].seq < new[j].seq
      BY <3>1 DEF NumberInv, ClientNumbered
    <3>8. new[Len(old) + 1].seq = seq /\ Len(old) \in Nat
      BY <1>1, <2>1, <3>1
    <3> HIDE DEF old, new
    <3>9. \A i \in 1..Len(new) : new[i].seq < seq'
      BY <1>1, <2>2, <3>2, <3>6, <3>8 DEF old, new
    <3>3. \A i, j \in 1..Len(new) : i < j => new[i].seq < new[j].seq
      BY <1>1, <3>2, <3>6, <3>7, <3>8 DEF old, new
    <3>4. QED
      BY <1>1, <1>3, <2>2, <3>1, <3>9, <3>3 DEF NumberInv, ClientNumbered, new
  <2>5. QED
    BY <2>3, <2>4
<1>5. CASE Socket \/ Subscribe
  <2>1. seq' = seq
    BY <1>5, SocketTyped DEF ServerFrame
  <2>2. /\ client'.through < seq
        /\ \A e \in client'.replay : e.seq < seq
    BY <1>1, <1>3, <1>5, SocketEffect DEF NumberInv, BufferNumbered, ClientNumbered, ChannelTyped, TypeInv
  <2>3. \/ client'.queue = client.queue \/ client'.queue = <<>>
        \/ client.queue # <<>> /\ client'.queue = Tail(client.queue)
    BY <1>5, SocketEffect
  <2>4. /\ \A i \in 1..Len(client'.queue) : client'.queue[i].seq < seq
        /\ \A i, j \in 1..Len(client'.queue) : i < j => client'.queue[i].seq < client'.queue[j].seq
    <3>1. CASE client'.queue = client.queue \/ client'.queue = <<>>
      BY <3>1 DEF NumberInv, ClientNumbered
    <3>2. CASE client.queue # <<>> /\ client'.queue = Tail(client.queue)
      <4>1. /\ Len(client'.queue) = Len(client.queue) - 1
            /\ \A i \in 1..Len(client'.queue) : client'.queue[i] = client.queue[i + 1] /\ i + 1 \in 1..Len(client.queue)
        BY <1>1, <3>2, TailFacts
      <4>2. \A i \in 1..Len(client'.queue) : client'.queue[i].seq < seq
        BY <4>1 DEF NumberInv, ClientNumbered
      <4>3. \A i, j \in 1..Len(client'.queue) : i < j => i + 1 < j + 1
        BY <1>1
      <4>4. QED
        BY <4>1, <4>2, <4>3 DEF NumberInv, ClientNumbered
    <3>3. QED
      BY <2>3, <3>1, <3>2
  <2>5. QED
    BY <2>1, <2>2, <2>4 DEF ClientNumbered
<1>6. QED
  BY <1>4, <1>5

LEMMA NumberStep == TypeInv /\ TypeInv' /\ NumberInv /\ [Next]_vars => NumberInv'
<1> SUFFICES ASSUME TypeInv, TypeInv', NumberInv, [Next]_vars PROVE NumberInv'
  OBVIOUS
<1>1. CASE Core
  <2>1. CoreFrame /\ \A part \in Parts : buffer'[part] \subseteq buffer[part]
    BY <1>1, CoreEffect, TrimStepTyped
  <2>2. BufferNumbered'
    BY <2>1, FewerNumbered DEF CoreFrame, NumberInv
  <2>3. ClientNumbered'
    BY <2>1 DEF CoreFrame, NumberInv, ClientNumbered
  <2>4. QED
    BY <2>2, <2>3 DEF NumberInv
<1>2. CASE Consumer
  <2>1. BufferNumbered'
    BY <1>2, ConsumerEffect, BufferRecorded DEF Consumes, NumberInv
  <2>2. QED
    BY <1>2, <2>1, ClientNumberedStep DEF NumberInv
<1>3. CASE Socket \/ Subscribe
  <2>1. seq' = seq /\ \A part \in Parts : buffer'[part] \subseteq buffer[part]
    BY <1>3, SocketTyped, TrimEffect DEF ServerFrame, SendSnapshot, TypeInv, BufferTyped
  <2>2. BufferNumbered'
    BY <2>1, FewerNumbered DEF NumberInv
  <2>3. QED
    BY <1>3, <2>2, ClientNumberedStep DEF NumberInv
<1>4. CASE UNCHANGED vars
  <2>1. buffer' = buffer /\ client' = client /\ seq' = seq
    BY <1>4 DEF vars
  <2>2. BufferNumbered'
    BY <2>1, FewerNumbered DEF NumberInv
  <2>3. QED
    BY <2>1, <2>2 DEF NumberInv, ClientNumbered
<1>5. QED
  BY <1>1, <1>2, <1>3, <1>4 DEF Next

LEMMA NumberedInv == EventSpec => [](TypeInv /\ NumberInv)
BY TypeInit, TypeStep, NumberInit, NumberStep, PTL DEF EventSpec

(* Every variable keeps its type; the buffer holds only events that have    *)
(* been numbered, and one entry per number (replay.rs, build.rs).           *)
THEOREM EventsTyped == EventSpec => []EventTypeOK
<1>1. TypeInv /\ NumberInv => EventTypeOK
  <2> SUFFICES ASSUME TypeInv, NumberInv PROVE EventTypeOK
    OBVIOUS
  <2> DEFINE numbers == {e.seq : e \in Replay}
             number == [e \in Replay |-> e.seq]
  <2>1. ExistsBijection(Replay, numbers)
    <3>1. number \in Bijection(Replay, numbers)
      <4>1. number \in [Replay -> numbers]
        OBVIOUS
      <4>2. \A e, f \in Replay : number[e] = number[f] => e = f
        BY DEF NumberInv, BufferNumbered
      <4>3. \A n \in numbers : \E e \in Replay : number[e] = n
        OBVIOUS
      <4> HIDE DEF number, numbers
      <4>4. QED
        BY <4>1, <4>2, <4>3 DEF Bijection, Injection, Surjection, IsInjective
    <3>2. QED
      BY <3>1 DEF ExistsBijection
  <2>2. Cardinality(numbers) = Cardinality(Replay)
    BY <2>1, FS_Bijection DEF NumberInv, BufferNumbered
  <2>3. /\ turn \in 0..MaxTurns /\ deltas \in 0..MaxDeltas /\ call \in {"none", "running", "paused", "done"}
        /\ rows.ui \subseteq Blocks /\ rows.child \subseteq ChildBlocks /\ Len(out) <= Channel
    BY DEF TypeInv, RunTyped, RowsTyped, ChannelTyped, Calls
  <2>4. /\ status.query \in BOOLEAN /\ client.view \in [Blocks -> 0..2] /\ client.typing \in [Blocks -> 0..2]
    BY DEF TypeInv, StatusTyped, ClientTyped, Clients
  <2>5. QED
    BY <2>2, <2>3, <2>4 DEF EventTypeOK, NumberInv, BufferNumbered
<1>2. QED
  BY <1>1, NumberedInv, PTL

-----------------------------------------------------------------------------
(* Pauses.  The server's projection drops every pause at the start and the  *)
(* end of a run, the client does not: they agree because the core answers   *)
(* a pause before the run can end.  Unanswered(pauses, s, p, k): after the  *)
(* first k events of s a projection that held pauses still holds p.          *)
Boundary(e) == e.kind \in {"run_started", "run_finished"}
Pauses(e, p) == e.kind = "pause_requested" /\ p \in e.blocks
Answers(e, p) == e.kind = "tool_result" /\ p \in {Use(t) : t \in {b[2] : b \in e.blocks}}
Touches(e, p) == Pauses(e, p) \/ Answers(e, p)

Unanswered(pauses, s, p, k) ==
    \/ p \in pauses /\ \A j \in 1..k : ~Answers(s[j], p)
    \/ \E i \in 1..k : Pauses(s[i], p) /\ \A j \in i..k : ~Answers(s[j], p)

CallInv == call \in {"running", "paused"} => stage \in {"stream", "llm", "ui", "stored"}

PauseInv ==
    /\ \A p : Unanswered(status.pauses, out, p, Len(out)) => call = "paused" /\ p = Use(turn)
    /\ \A k \in 1..Len(out) : Boundary(out[k]) => \A p : ~Unanswered(status.pauses, out, p, k)

(* What a step of the core emits, as far as pauses are concerned. *)
Neutral(e) == e.kind \notin {"run_started", "run_finished", "pause_requested", "tool_result"}

CoreEmits ==
    \/ out' = out /\ turn' = turn /\ call' = call
    \/ \E ev \in Events :
         /\ out' = Append(out, ev)
         /\ \/ Neutral(ev) /\ (call = "paused" => call' = "paused" /\ turn' = turn)
            \/ ev.kind = "pause_requested" /\ ev.blocks = {Use(turn)} /\ call = "running" /\ call' = "paused" /\ turn' = turn
            \/ ev.kind = "tool_result" /\ ev.blocks = {Result(turn)} /\ turn' = turn
            \/ Boundary(ev) /\ call # "paused"

LEMMA EventFacts ==
    ASSUME NEW kind, NEW blocks
    PROVE  Event(kind, blocks).kind = kind /\ Event(kind, blocks).blocks = blocks
BY DEF Event

LEMMA CoreEmitsStep ==
    ASSUME TypeInv, CallInv, Core
    PROVE  CoreEmits /\ CallInv'
<1> ChannelTyped /\ RunTyped
  BY DEF TypeInv
<1>1. ASSUME NEW kind \in Kinds, NEW blocks, Emit(Event(kind, blocks)), ChannelTyped',
             kind \notin {"run_started", "run_finished", "pause_requested", "tool_result"},
             call = "paused" => call' = "paused" /\ turn' = turn
      PROVE  CoreEmits
  <2>1. out' = Append(out, Event(kind, blocks)) /\ Neutral(Event(kind, blocks))
    BY <1>1, EventFacts DEF Emit, Neutral
  <2>2. Event(kind, blocks) \in Events
    BY <1>1, <2>1 DEF ChannelTyped
  <2>3. QED
    BY <1>1, <2>1, <2>2 DEF CoreEmits
<1>2. TypeInv' /\ ChannelTyped'
  BY CoreEffect DEF TypeInv
<1>3. CASE StoreInput \/ SendInput \/ Stores \/ Trims
  <2>1. out' = out /\ turn' = turn /\ call' = call
    BY <1>3, InputStep, StoreStepTyped, TrimStepTyped DEF coreVars
  <2>2. CallInv'
    BY <1>3 DEF StoreInput, SendInput, Stores, Trims, StoreContext, StoreDisplay, TrimPersisted, TrimCompact,
                coreVars, CallInv
  <2>3. QED
    BY <2>1, <2>2 DEF CoreEmits
<1>4. CASE StartTurn
  BY <1>1, <1>2, <1>4, KindFacts DEF StartTurn, CallInv
<1>5. CASE EndTurn
  <2>1. call \notin {"running", "paused"}
    BY <1>5 DEF EndTurn, CallInv, Message
  <2>2. QED
    BY <1>1, <1>2, <1>5, <2>1, KindFacts DEF EndTurn, CallInv
<1>6. CASE StartRun \/ FinishRun
  <2>1. \E kind \in {"run_started", "run_finished"} : Emit(Event(kind, {}))
    BY <1>6 DEF StartRun, FinishRun
  <2>2. call \notin {"running", "paused"} /\ call' = call
    BY <1>6 DEF StartRun, FinishRun, CallInv
  <2>3. PICK kind \in {"run_started", "run_finished"} : Emit(Event(kind, {}))
    BY <2>1
  <2>4. out' = Append(out, Event(kind, {})) /\ Boundary(Event(kind, {})) /\ Event(kind, {}) \in Events
    BY <2>3, EmitEffect, EventFacts, KindFacts DEF Boundary, Emit
  <2>5. QED
    BY <2>2, <2>4 DEF CoreEmits, CallInv
<1>7. CASE EmitText \/ EmitToolUse
  <2>1. call = "none" /\ \E kind \in {"text_delta", "tool_use"} : \E blocks : Emit(Event(kind, blocks))
    BY <1>7 DEF EmitText, EmitToolUse
  <2>2. CallInv'
    BY <1>7 DEF EmitText, EmitToolUse, CallInv
  <2>3. QED
    BY <1>1, <1>2, <2>1, <2>2, KindFacts
<1>8. CASE EmitPause \/ EmitToolResult
  <2>1. turn \in Turns
    BY <1>8 DEF EmitPause, EmitToolResult, RunTyped, Turns
  <2>2. turn' = turn /\ CallInv'
    BY <1>8 DEF EmitPause, EmitToolResult, CallInv
  <2>3. Event("pause_requested", {Use(turn)}) \in Events /\ Event("tool_result", {Result(turn)}) \in Events
    BY <2>1, BlockFacts, KindFacts DEF Event, Events
  <2>4. QED
    BY <1>8, <2>2, <2>3, EventFacts DEF EmitPause, EmitToolResult, Emit, CoreEmits
<1>9. CASE CompactEmits
  <2>1. turn' = turn /\ call' = call /\ CallInv'
    BY <1>9 DEF CompactEmits, Compact, CallInv
  <2>2. \E kind \in {"compact_summary_started", "compact_summary_failed", "compact_summary_finished"} : \E blocks :
           Emit(Event(kind, blocks))
    BY <1>9 DEF CompactEmits, Compact
  <2>3. QED
    BY <1>1, <1>2, <2>1, <2>2, KindFacts
<1>10. CASE SpawnChild \/ ChildStep
  <2>1. turn' = turn /\ call' = call /\ CallInv'
    BY <1>10, ChildStepTyped DEF coreVars, CallInv
  <2>2. \/ out' = out
        \/ \E kind \in ChildKinds : \E blocks : Emit(Event(kind, blocks))
    BY <1>10 DEF SpawnChild, ChildStep, ChildTextDelta, ChildEmits, ChildWrites, ChildKinds
  <2>3. CASE out' = out
    BY <2>1, <2>3 DEF CoreEmits
  <2>4. CASE \E kind \in ChildKinds : \E blocks : Emit(Event(kind, blocks))
    BY <1>1, <1>2, <2>1, <2>4 DEF Kinds, ChildKinds
  <2>5. QED
    BY <2>1, <2>2, <2>3, <2>4
<1>11. QED
  BY <1>3, <1>4, <1>5, <1>6, <1>7, <1>8, <1>9, <1>10, CoreCases

(* The result of a turn's call answers that call and no other kind of event *)
(* does; the names of blocks tell pauses apart.                              *)
LEMMA TouchFacts ==
    ASSUME NEW e, NEW p
    PROVE  /\ Pauses(e, p) => ~Answers(e, p) /\ ~Boundary(e) /\ p \in e.blocks
           /\ Answers(e, p) => ~Boundary(e)
           /\ Neutral(e) => ~Pauses(e, p) /\ ~Answers(e, p) /\ ~Boundary(e)
           /\ \A t : e.kind = "tool_result" /\ e.blocks = {Result(t)} => Answers(e, Use(t))
BY DEF Pauses, Answers, Boundary, Neutral, Use, Result

LEMMA UnansweredAppend ==
    ASSUME NEW s \in Seq(Events), NEW ev \in Events, NEW pauses, NEW p
    PROVE  /\ \A k \in 0..Len(s) : Unanswered(pauses, Append(s, ev), p, k) <=> Unanswered(pauses, s, p, k)
           /\ Unanswered(pauses, Append(s, ev), p, Len(s) + 1) =>
                (Unanswered(pauses, s, p, Len(s)) /\ ~Answers(ev, p)) \/ Pauses(ev, p)
<1> DEFINE n == Len(s)
           new == Append(s, ev)
<1>1. n \in Nat /\ new[n + 1] = ev /\ \A i \in 1..n : new[i] = s[i]
  BY AppendFacts
<1> HIDE DEF n, new
<1>2. \A k \in 0..n : Unanswered(pauses, new, p, k) <=> Unanswered(pauses, s, p, k)
  <2>1. \A k \in 0..n : \A i \in 1..k : new[i] = s[i] /\ \A j \in i..k : new[j] = s[j]
    BY <1>1
  <2>2. QED
    BY <2>1 DEF Unanswered
<1>3. ASSUME Unanswered(pauses, new, p, n + 1)
      PROVE  (Unanswered(pauses, s, p, n) /\ ~Answers(ev, p)) \/ Pauses(ev, p)
  <2>1. CASE p \in pauses /\ \A j \in 1..(n + 1) : ~Answers(new[j], p)
    BY <2>1, <1>1 DEF Unanswered
  <2>2. CASE \E i \in 1..(n + 1) : Pauses(new[i], p) /\ \A j \in i..(n + 1) : ~Answers(new[j], p)
    <3>1. PICK i \in 1..(n + 1) : Pauses(new[i], p) /\ \A j \in i..(n + 1) : ~Answers(new[j], p)
      BY <2>2
    <3>2. CASE i = n + 1
      BY <3>1, <3>2, <1>1
    <3>3. CASE i # n + 1
      <4>1. i \in 1..n /\ n + 1 \in i..(n + 1) /\ \A j \in i..n : j \in i..(n + 1) /\ j \in 1..n
        BY <3>1, <3>3, <1>1
      <4>2. QED
        BY <3>1, <4>1, <1>1 DEF Unanswered
    <3>4. QED
      BY <3>2, <3>3
  <2>3. QED
    BY <1>3, <2>1, <2>2 DEF Unanswered
<1>4. QED
  BY <1>2, <1>3 DEF n, new

LEMMA UnansweredTail ==
    ASSUME NEW s \in Seq(Events), s # <<>>, NEW old, NEW new, NEW p,
           p \in new => Pauses(s[1], p) \/ (p \in old /\ ~Answers(s[1], p)),
           NEW k \in 0..(Len(s) - 1), Unanswered(new, Tail(s), p, k)
    PROVE  Unanswered(old, s, p, k + 1)
<1> DEFINE t == Tail(s)
<1>1. Len(s) \in Nat /\ k \in Nat /\ \A i \in 1..(Len(s) - 1) : t[i] = s[i + 1]
  BY TailFacts
<1> HIDE DEF t
<1>2. \A j \in 1..(k + 1) : j = 1 \/ (j - 1 \in 1..k /\ t[j - 1] = s[j])
  BY <1>1
<1>3. CASE p \in new /\ \A j \in 1..k : ~Answers(t[j], p)
  <2>1. ~Answers(s[1], p)
    BY <1>3, TouchFacts
  <2>2. \A j \in 1..(k + 1) : ~Answers(s[j], p)
    BY <2>1, <1>2, <1>3
  <2>3. 1 \in 1..(k + 1)
    BY <1>1
  <2>4. QED
    BY <1>3, <2>2, <2>3 DEF Unanswered
<1>4. CASE \E i \in 1..k : Pauses(t[i], p) /\ \A j \in i..k : ~Answers(t[j], p)
  <2>1. PICK i \in 1..k : Pauses(t[i], p) /\ \A j \in i..k : ~Answers(t[j], p)
    BY <1>4
  <2>2. i + 1 \in 1..(k + 1) /\ t[i] = s[i + 1]
    BY <1>1
  <2>3. \A j \in (i + 1)..(k + 1) : j - 1 \in i..k /\ t[j - 1] = s[j]
    BY <1>1
  <2>4. QED
    BY <2>1, <2>2, <2>3 DEF Unanswered
<1>5. QED
  BY <1>3, <1>4 DEF Unanswered, t

LEMMA PauseEmitted ==
    ASSUME TypeInv, TypeInv', PauseInv, CoreEmits, status' = status
    PROVE  PauseInv'
<1>1. out \in Seq(Events) /\ Len(out) \in Nat
  BY DEF TypeInv, ChannelTyped
<1>2. CASE out' = out /\ turn' = turn /\ call' = call
  BY <1>2 DEF PauseInv
<1>3. CASE ~(out' = out /\ turn' = turn /\ call' = call)
  <2>1. PICK ev \in Events :
         /\ out' = Append(out, ev)
         /\ \/ Neutral(ev) /\ (call = "paused" => call' = "paused" /\ turn' = turn)
            \/ ev.kind = "pause_requested" /\ ev.blocks = {Use(turn)} /\ call = "running" /\ call' = "paused" /\ turn' = turn
            \/ ev.kind = "tool_result" /\ ev.blocks = {Result(turn)} /\ turn' = turn
            \/ Boundary(ev) /\ call # "paused"
    BY <1>3 DEF CoreEmits
  <2>2. Len(out') = Len(out) + 1 /\ out'[Len(out) + 1] = ev /\ \A i \in 1..Len(out) : out'[i] = out[i]
    BY <2>1, <1>1, AppendFacts
  <2>3. \A p : \A k \in 0..Len(out) : Unanswered(status.pauses, out', p, k) <=> Unanswered(status.pauses, out, p, k)
    BY <1>1, <2>1, UnansweredAppend
  <2>4. \A p : Unanswered(status.pauses, out', p, Len(out) + 1) =>
                 (Unanswered(status.pauses, out, p, Len(out)) /\ ~Answers(ev, p)) \/ Pauses(ev, p)
    BY <1>1, <2>1, UnansweredAppend
  <2>5. \A p : Unanswered(status.pauses, out, p, Len(out)) => call = "paused" /\ p = Use(turn)
    BY DEF PauseInv
  <2>6. \A p : Unanswered(status.pauses, out', p, Len(out) + 1) => call' = "paused" /\ p = Use(turn')
    BY <2>1, <2>4, <2>5, TouchFacts DEF Pauses, Boundary
  <2>7. Boundary(ev) => \A p : ~Unanswered(status.pauses, out', p, Len(out) + 1)
    <3>1. Boundary(ev) => ~Neutral(ev) /\ ev.kind \notin {"pause_requested", "tool_result"}
      BY DEF Boundary, Neutral
    <3>2. QED
      BY <3>1, <2>1, <2>4, <2>5, TouchFacts
  <2>8. ASSUME NEW k \in 1..(Len(out) + 1), Boundary(out'[k]), NEW p
        PROVE  ~Unanswered(status.pauses, out', p, k)
    <3>1. CASE k = Len(out) + 1
      BY <2>2, <2>7, <2>8, <3>1
    <3>2. CASE k # Len(out) + 1
      <4>1. k \in 1..Len(out) /\ k \in 0..Len(out)
        BY <1>1, <3>2
      <4>2. Boundary(out[k])
        BY <4>1, <2>2, <2>8
      <4>3. ~Unanswered(status.pauses, out, p, k)
        BY <4>1, <4>2 DEF PauseInv
      <4>4. QED
        BY <4>1, <4>3, <2>3
    <3>3. QED
      BY <3>1, <3>2
  <2>9. QED
    BY <2>2, <2>6, <2>8 DEF PauseInv
<1>4. QED
  BY <1>2, <1>3

(* At a boundary of the run there is nothing to drop. *)
LEMMA PauseTaken ==
    ASSUME TypeInv, TypeInv', PauseInv, NEW event \in Events, NEW e \in Entries,
           e.kind = event.kind, e.blocks = event.blocks, Consumes(event, e)
    PROVE  /\ PauseInv'
           /\ Boundary(e) => status.pauses = {}
           /\ \A p : p \in status'.pauses <=> Pauses(e, p) \/ (p \in status.pauses /\ ~Answers(e, p))
<1>1. out \in Seq(Events) /\ Len(out) \in Nat /\ status \in [query : BOOLEAN, pauses : SUBSET Blocks]
  BY DEF TypeInv, ChannelTyped, StatusTyped
<1>2. \A p : /\ Pauses(e, p) = Pauses(event, p) /\ Answers(e, p) = Answers(event, p)
             /\ Boundary(e) = Boundary(event)
  BY DEF Pauses, Answers, Boundary
<1>3. turn' = turn /\ call' = call
  BY DEF Consumes, coreVars
<1>4. CASE inbox # <<>> /\ event = inbox[1] /\ out' = out
  <2>1. event.kind = "user_message_injected"
    BY <1>4, TailFacts DEF TypeInv, ChannelTyped
  <2>2. status' = status
    BY <2>1 DEF Consumes, Project
  <2>3. \A p : ~Pauses(e, p) /\ ~Answers(e, p) /\ ~Boundary(e)
    BY <2>1 DEF Pauses, Answers, Boundary
  <2>4. PauseInv'
    BY <1>3, <1>4, <2>2 DEF PauseInv
  <2>5. QED
    BY <2>2, <2>3, <2>4
<1>5. CASE out # <<>> /\ event = out[1] /\ out' = Tail(out)
  <2>1. /\ Len(out) >= 1 /\ Len(out') = Len(out) - 1
        /\ \A i \in 1..(Len(out) - 1) : out'[i] = out[i + 1]
    BY <1>1, <1>5, TailFacts
  <2>2. Boundary(e) => status.pauses = {}
    <3>1. Boundary(e) => \A p : ~Unanswered(status.pauses, out, p, 1)
      <4>1. 1 \in 1..Len(out) /\ (Boundary(e) => Boundary(out[1]))
        BY <1>1, <1>2, <1>5, <2>1
      <4>2. QED
        BY <4>1 DEF PauseInv
    <3>2. Boundary(e) => \A p : ~Answers(out[1], p)
      BY <1>2, <1>5, TouchFacts
    <3>3. QED
      BY <3>1, <3>2 DEF Unanswered
  <2>3. \A p : p \in status'.pauses <=> Pauses(e, p) \/ (p \in status.pauses /\ ~Answers(e, p))
    <3>1. CASE Boundary(e)
      <4>1. status'.pauses = {}
        BY <3>1 DEF Consumes, Project, Boundary
      <4>2. QED
        BY <4>1, <3>1, <2>2, TouchFacts
    <3>2. CASE ~Boundary(e)
      BY <3>2, <1>1 DEF Consumes, Project, Boundary, Pauses, Answers
    <3>3. QED
      BY <3>1, <3>2
  <2>4. \A p : \A k \in 0..(Len(out) - 1) : Unanswered(status'.pauses, out', p, k)
                                            => Unanswered(status.pauses, out, p, k + 1)
    <3>1. \A p : p \in status'.pauses => Pauses(out[1], p) \/ (p \in status.pauses /\ ~Answers(out[1], p))
      BY <2>3, <1>2, <1>5
    <3>2. QED
      BY <1>1, <1>5, <3>1, UnansweredTail
  <2>5. \A p : Unanswered(status'.pauses, out', p, Len(out) - 1) => Unanswered(status.pauses, out, p, Len(out))
    <3>1. Len(out) - 1 \in 0..(Len(out) - 1) /\ (Len(out) - 1) + 1 = Len(out)
      BY <1>1, <2>1
    <3>2. QED
      BY <3>1, <2>4
  <2>6. ASSUME NEW k \in 1..(Len(out) - 1), Boundary(out'[k]), NEW p
        PROVE  ~Unanswered(status'.pauses, out', p, k)
    <3>1. k \in 0..(Len(out) - 1) /\ k + 1 \in 1..Len(out) /\ out'[k] = out[k + 1]
      BY <1>1, <2>1
    <3>2. ~Unanswered(status.pauses, out, p, k + 1)
      BY <3>1, <2>6 DEF PauseInv
    <3>3. QED
      BY <3>1, <3>2, <2>4
  <2>7. PauseInv'
    BY <1>3, <2>1, <2>5, <2>6 DEF PauseInv
  <2>8. QED
    BY <2>2, <2>3, <2>7
<1>6. QED
  BY <1>4, <1>5 DEF Consumes

-----------------------------------------------------------------------------
(* Activity and pauses of the client.  Both are fields that the client and  *)
(* the projection hold and that some events set: sets are the places of     *)
(* those events in the client's queue, value those that set it to TRUE.  The *)
(* last event of the queue that sets the field agrees with the projection,  *)
(* and once no event that is still to be applied sets it, a live client     *)
(* agrees as well.                                                           *)
Agrees(n, sets, value, current, live, numbers, through, shown) ==
    /\ \A i \in sets : (\A j \in (i + 1)..n : j \notin sets) => (current <=> i \in value)
    /\ live /\ (\A i \in sets : numbers[i] <= through) => (shown <=> current)

LEMMA AgreesAppend ==
    ASSUME NEW n \in Nat, NEW sets \in SUBSET (1..n), NEW value, NEW current \in BOOLEAN, NEW live \in BOOLEAN,
           NEW numbers, NEW through \in Nat, NEW shown \in BOOLEAN,
           Agrees(n, sets, value, current, live, numbers, through, shown),
           NEW sets2 \in SUBSET (1..(n + 1)), NEW value2, NEW current2 \in BOOLEAN, NEW numbers2,
           sets2 \ {n + 1} = sets, \A i \in 1..n : i \in value2 <=> i \in value,
           \A i \in 1..n : numbers2[i] = numbers[i],
           numbers2[n + 1] \in Nat, numbers2[n + 1] > through,
           IF n + 1 \in sets2 THEN current2 <=> n + 1 \in value2 ELSE current2 = current
    PROVE  Agrees(n + 1, sets2, value2, current2, live, numbers2, through, shown)
<1>1. CASE n + 1 \in sets2
  <2>1. \A i \in sets2 : i # n + 1 => n + 1 \in (i + 1)..(n + 1)
    OBVIOUS
  <2>2. \A i \in sets2 : (\A j \in (i + 1)..(n + 1) : j \notin sets2) => (current2 <=> i \in value2)
    BY <1>1, <2>1
  <2>3. ~(\A i \in sets2 : numbers2[i] <= through)
    BY <1>1
  <2>4. \A i \in sets2 : (\A j \in (i + 1)..(n + 1) : j \notin sets2) => (current2 <=> i \in value2)
    BY <2>2
  <2>5. live /\ (\A i \in sets2 : numbers2[i] <= through) => (shown <=> current2)
    BY <2>3
  <2>6. QED
    BY <2>4, <2>5, Zenon DEF Agrees
<1>2. CASE n + 1 \notin sets2
  <2>1. sets2 = sets /\ current2 = current
    BY <1>2
  <2>2. ASSUME NEW i \in sets2, \A j \in (i + 1)..(n + 1) : j \notin sets2
        PROVE  current2 <=> i \in value2
    <3>1. i \in 1..n /\ i \in sets /\ \A j \in (i + 1)..n : j \notin sets
      BY <2>1, <2>2
    <3>2. current <=> i \in value
      BY <3>1 DEF Agrees
    <3>3. QED
      BY <2>1, <3>1, <3>2
  <2>3. ASSUME live, \A i \in sets2 : numbers2[i] <= through
        PROVE  shown <=> current2
    <3>1. \A i \in sets : numbers[i] <= through
      BY <2>1, <2>3
    <3>2. QED
      BY <2>1, <2>3, <3>1 DEF Agrees
  <2>4. QED
    BY <2>2, <2>3 DEF Agrees
<1>3. QED
  BY <1>1, <1>2

(* The first event of a queue of n is received: m are left. *)
Shifted(n, m, sets, value, numbers, through, shown, sets2, value2, numbers2, shown2) ==
    /\ n \in Nat /\ m \in Nat /\ m = n - 1
    /\ sets \in SUBSET (1..n) /\ sets2 \in SUBSET (1..m)
    /\ numbers \in [1..n -> Nat] /\ through \in Nat
    /\ \A i, j \in 1..n : i < j => numbers[i] < numbers[j]
    /\ \A i \in 1..m : (i \in sets2 <=> i + 1 \in sets) /\ (i \in value2 <=> i + 1 \in value)
    /\ \A i \in 1..m : numbers2[i] = numbers[i + 1]
    /\ IF numbers[1] > through /\ 1 \in sets THEN shown2 <=> 1 \in value ELSE shown2 <=> shown

LEMMA AgreesTail ==
    ASSUME NEW n, NEW m, NEW sets, NEW value, NEW current, NEW live, NEW numbers, NEW through, NEW shown,
           NEW sets2, NEW value2, NEW numbers2, NEW shown2,
           Agrees(n, sets, value, current, live, numbers, through, shown),
           Shifted(n, m, sets, value, numbers, through, shown, sets2, value2, numbers2, shown2)
    PROVE  Agrees(m, sets2, value2, current, live, numbers2, through, shown2)
<1> USE DEF Shifted
<1>1. \A i \in 1..m : i + 1 \in 1..n /\ \A j \in (i + 2)..n : j - 1 \in (i + 1)..m
  OBVIOUS
<1>2. \A j \in 2..n : j - 1 \in 1..m /\ (j - 1) + 1 = j /\ j \in 1..n
  OBVIOUS
<1>3. ASSUME NEW i \in sets2, \A j \in (i + 1)..m : j \notin sets2
      PROVE  current <=> i \in value2
  <2>1. i \in 1..m /\ i + 1 \in sets
    OBVIOUS
  <2>2. ASSUME NEW j \in (i + 2)..n PROVE j \notin sets
    <3>1. j - 1 \in (i + 1)..m /\ j - 1 \in 1..m /\ (j - 1) + 1 = j
      BY <2>1
    <3>2. QED
      BY <3>1, <1>3
  <2>3. (i + 1) + 1 = i + 2
    BY <2>1
  <2>4. current <=> i + 1 \in value
    BY <2>1, <2>2, <2>3 DEF Agrees
  <2>5. QED
    BY <2>1, <2>4
<1>4. ASSUME live, \A i \in sets2 : numbers2[i] <= through
      PROVE  shown2 <=> current
  <2>1. \A j \in 2..n : j \in sets => numbers[j] <= through
    BY <1>2, <1>4
  <2>2. \A j \in sets : j = 1 \/ j \in 2..n
    OBVIOUS
  <2>3. CASE numbers[1] > through /\ 1 \in sets
    <3>1. \A j \in 2..n : j \notin sets
      <4>1. \A j \in 2..n : numbers[1] < numbers[j] /\ numbers[j] \in Nat /\ numbers[1] \in Nat
        BY <1>2
      <4>2. QED
        BY <2>1, <2>3, <4>1
    <3>2. 1 + 1 = 2
      OBVIOUS
    <3>3. QED
      BY <2>3, <3>1, <3>2 DEF Agrees
  <2>4. CASE ~(numbers[1] > through /\ 1 \in sets)
    <3>1. 1 \in 1..n /\ numbers[1] \in Nat
      OBVIOUS
    <3>2. \A j \in sets : numbers[j] <= through
      BY <2>1, <2>2, <2>4, <3>1
    <3>3. QED
      BY <1>4, <2>4, <3>2 DEF Agrees
  <2>5. QED
    BY <2>3, <2>4
<1>5. QED
  BY <1>3, <1>4 DEF Agrees

Queued == 1..Len(client.queue)
Numbers == [i \in Queued |-> client.queue[i].seq]
Live == client.phase = "live"

ActiveInv ==
    Agrees(Len(client.queue), {i \in Queued : Boundary(client.queue[i])},
           {i \in Queued : client.queue[i].kind = "run_started"},
           status.query, Live, Numbers, client.through, client.active)

PauseAgrees(p) ==
    Agrees(Len(client.queue), {i \in Queued : Touches(client.queue[i], p)},
           {i \in Queued : Pauses(client.queue[i], p)},
           p \in status.pauses, Live, Numbers, client.through, p \in client.pauses)

ViewInv ==
    /\ client.phase = "off" => client.queue = <<>>
    /\ ActiveInv
    /\ \A p : PauseAgrees(p)

LEMMA ApplyShows ==
    ASSUME NEW c \in Clients, NEW e \in Entries
    PROVE  /\ Apply(c, e).active = IF Boundary(e) THEN e.kind = "run_started" ELSE c.active
           /\ \A p : p \in Apply(c, e).pauses <=> Pauses(e, p) \/ (p \in c.pauses /\ ~Answers(e, p))
<1>1. CASE e.kind \in ChildKinds
  <2>1. Apply(c, e).active = c.active /\ Apply(c, e).pauses = c.pauses
    BY <1>1 DEF Apply, ApplyChild, ChildKinds, Clients
  <2>2. QED
    BY <1>1, <2>1 DEF Boundary, Pauses, Answers, ChildKinds
<1>2. CASE e.kind \in {"run_started", "run_finished"}
  BY <1>2 DEF Apply, ChildKinds, Clients, Boundary, Pauses, Answers
<1>3. CASE e.kind \in {"pause_requested", "tool_result"}
  BY <1>3 DEF Apply, ChildKinds, Clients, Boundary, Pauses, Answers
<1>4. CASE e.kind \notin ChildKinds \cup {"run_started", "run_finished", "pause_requested", "tool_result"}
  BY <1>4 DEF Apply, Clients, Boundary, Pauses, Answers
<1>5. QED
  BY <1>1, <1>2, <1>3, <1>4

LEMMA ViewTaken ==
    ASSUME TypeInv, TypeInv', NumberInv, ViewInv, NEW event \in Events, NEW e \in Entries,
           e.seq = seq, Consumes(event, e),
           Boundary(e) => status.pauses = {},
           \A p : p \in status'.pauses <=> Pauses(e, p) \/ (p \in status.pauses /\ ~Answers(e, p))
    PROVE  ViewInv'
<1> DEFINE n == Len(client.queue)
<1>1. /\ client \in Clients /\ client.queue \in Seq(Entries) /\ n \in Nat /\ client.through \in Nat
      /\ client.active \in BOOLEAN /\ status.query \in BOOLEAN /\ status'.query \in BOOLEAN
      /\ seq \in Nat /\ client.through < seq
  BY DEF TypeInv, ClientTyped, Clients, StatusTyped, ChannelTyped, NumberInv, ClientNumbered
<1>2. status'.query = IF Boundary(e) THEN e.kind = "run_started" ELSE status.query
  <2>1. status \in [query : BOOLEAN, pauses : SUBSET Blocks]
    BY DEF TypeInv, StatusTyped
  <2>2. CASE Boundary(e)
    BY <2>2 DEF Consumes, Project, Boundary
  <2>3. CASE ~Boundary(e)
    BY <2>1, <2>3 DEF Consumes, Project, Boundary
  <2>4. QED
    BY <2>2, <2>3
<1>3. CASE client.phase = "off"
  <2>1. client' = client /\ client.queue = <<>>
    BY <1>3, ClientRecorded DEF ViewInv
  <2>2. Queued' = {} /\ ~Live'
    BY <1>3, <2>1 DEF Queued, Live
  <2>3. QED
    BY <1>3, <2>1, <2>2 DEF ViewInv, ActiveInv, PauseAgrees, Agrees
<1>4. CASE client.phase # "off"
  <2>1. /\ Len(client'.queue) = n + 1 /\ client'.queue[n + 1] = e
        /\ \A i \in 1..n : client'.queue[i] = client.queue[i]
        /\ Live' = Live /\ client'.through = client.through
        /\ client'.active = client.active /\ client'.pauses = client.pauses /\ client'.phase = client.phase
    BY <1>4, ClientRecorded DEF Live
  <2>2. Queued = 1..n /\ Queued' = 1..(n + 1) /\ Live \in BOOLEAN
    BY <2>1 DEF Queued, Live
  <2>3. /\ Numbers'[n + 1] = seq /\ \A i \in 1..n : Numbers'[i] = Numbers[i]
        /\ Numbers'[n + 1] \in Nat /\ Numbers'[n + 1] > client.through
    BY <1>1, <2>1, <2>2 DEF Numbers
  <2> HIDE DEF n
  <2>4. ActiveInv'
    <3> DEFINE sets == {i \in 1..n : Boundary(client.queue[i])}
               value == {i \in 1..n : client.queue[i].kind = "run_started"}
               sets2 == {i \in 1..(n + 1) : Boundary(client'.queue[i])}
               value2 == {i \in 1..(n + 1) : client'.queue[i].kind = "run_started"}
    <3>1. Agrees(n, sets, value, status.query, Live, Numbers, client.through, client.active)
      BY <2>2 DEF ViewInv, ActiveInv, n
    <3>2. /\ \A i \in 1..n : i \in 1..(n + 1) /\ i # n + 1
          /\ \A i \in 1..(n + 1) : i # n + 1 => i \in 1..n
      BY <1>1
    <3>3. /\ sets \in SUBSET (1..n) /\ sets2 \in SUBSET (1..(n + 1)) /\ sets2 \ {n + 1} = sets
          /\ \A i \in 1..n : i \in value2 <=> i \in value
      <4>1. sets2 \ {n + 1} = sets
        BY <2>1, <3>2
      <4>2. \A i \in 1..n : i \in value2 <=> i \in value
        BY <2>1, <3>2
      <4>3. QED
        BY <4>1, <4>2
    <3>4. /\ n + 1 \in sets2 <=> Boundary(e)
          /\ n + 1 \in value2 <=> e.kind = "run_started"
      BY <1>1, <2>1
    <3> HIDE DEF sets, sets2, value, value2
    <3>5. IF n + 1 \in sets2 THEN status'.query <=> n + 1 \in value2 ELSE status'.query = status.query
      <4>1. CASE Boundary(e)
        BY <1>2, <3>4, <4>1
      <4>2. CASE ~Boundary(e)
        BY <1>2, <3>4, <4>2
      <4>3. QED
        BY <4>1, <4>2
    <3>6. Agrees(n + 1, sets2, value2, status'.query, Live, Numbers', client.through, client.active)
      BY <1>1, <2>2, <2>3, <3>1, <3>3, <3>5, AgreesAppend
    <3>7. QED
      BY <2>1, <2>2, <3>6 DEF ActiveInv, sets2, value2
  <2>5. ASSUME NEW p PROVE PauseAgrees(p)'
    <3> DEFINE sets == {i \in 1..n : Touches(client.queue[i], p)}
               value == {i \in 1..n : Pauses(client.queue[i], p)}
               sets2 == {i \in 1..(n + 1) : Touches(client'.queue[i], p)}
               value2 == {i \in 1..(n + 1) : Pauses(client'.queue[i], p)}
               shown == p \in client.pauses
               current == p \in status.pauses
               current2 == p \in status'.pauses
    <3>1. Agrees(n, sets, value, current, Live, Numbers, client.through, shown)
      BY <2>2 DEF ViewInv, PauseAgrees, n
    <3>2. /\ \A i \in 1..n : i \in 1..(n + 1) /\ i # n + 1
          /\ \A i \in 1..(n + 1) : i # n + 1 => i \in 1..n
      BY <1>1
    <3>3. /\ sets \in SUBSET (1..n) /\ sets2 \in SUBSET (1..(n + 1)) /\ sets2 \ {n + 1} = sets
          /\ \A i \in 1..n : i \in value2 <=> i \in value
      <4>1. sets2 \ {n + 1} = sets
        BY <2>1, <3>2
      <4>2. \A i \in 1..n : i \in value2 <=> i \in value
        BY <2>1, <3>2
      <4>3. QED
        BY <4>1, <4>2
    <3>4. /\ n + 1 \in sets2 <=> Touches(e, p)
          /\ n + 1 \in value2 <=> Pauses(e, p)
      BY <1>1, <2>1
    <3> HIDE DEF sets, sets2, value, value2
    <3>5. IF n + 1 \in sets2 THEN current2 <=> n + 1 \in value2 ELSE current2 = current
      BY <3>4, TouchFacts DEF Touches
    <3>6. shown \in BOOLEAN /\ current \in BOOLEAN /\ current2 \in BOOLEAN
      OBVIOUS
    <3> HIDE DEF shown, current, current2
    <3>7. Agrees(n + 1, sets2, value2, current2, Live, Numbers', client.through, shown)
      BY <1>1, <2>2, <2>3, <3>1, <3>3, <3>5, <3>6, AgreesAppend
    <3>8. QED
      BY <2>1, <2>2, <3>7 DEF PauseAgrees, sets2, value2, shown, current2
  <2>6. QED
    BY <1>4, <2>1, <2>4, <2>5 DEF ViewInv
<1>5. QED
  BY <1>3, <1>4

LEMMA AgreesQuiet ==
    ASSUME NEW n, NEW sets, NEW value, NEW current, NEW live, NEW numbers, NEW through, NEW shown,
           Agrees(n, sets, value, current, live, numbers, through, shown),
           NEW live2, NEW numbers2, NEW through2, NEW shown2, live2 => (shown2 <=> current)
    PROVE  Agrees(n, sets, value, current, live2, numbers2, through2, shown2)
BY DEF Agrees

LEMMA ViewReceived ==
    ASSUME TypeInv, TypeInv', NumberInv, ViewInv, ReceiveLive
    PROVE  ViewInv'
<1> DEFINE n == Len(client.queue)
           e == client.queue[1]
           c == [client EXCEPT !.queue = Tail(@)]
<1>1. /\ client \in Clients /\ client.queue \in Seq(Entries) /\ n \in Nat /\ client.through \in Nat
      /\ client.active \in BOOLEAN /\ status.query \in BOOLEAN /\ client'.active \in BOOLEAN
  BY DEF TypeInv, ClientTyped, Clients, StatusTyped
<1>2. /\ client.phase = "live" /\ client.queue # <<>> /\ e = Head(client.queue)
      /\ client' = IF e.seq <= client.through THEN c ELSE Apply(c, e)
      /\ status' = status
  BY <1>1, TailFacts DEF ReceiveLive
<1>3. /\ n > 0 /\ n >= 1 /\ e \in Entries /\ Tail(client.queue) \in Seq(Entries) /\ Len(Tail(client.queue)) = n - 1
      /\ \A i \in 1..(n - 1) : Tail(client.queue)[i] = client.queue[i + 1]
  BY <1>1, <1>2, TailFacts
<1>4. /\ c \in Clients /\ c.active = client.active /\ c.pauses = client.pauses
  BY <1>1, <1>3 DEF Clients
<1>5. /\ client'.phase = "live" /\ client'.queue = Tail(client.queue) /\ client'.through = client.through
  BY <1>2, SocketEffect DEF Socket, ReceiveLive
<1> HIDE DEF c
<1>6. IF e.seq > client.through
      THEN /\ client'.active = IF Boundary(e) THEN e.kind = "run_started" ELSE client.active
           /\ \A p : p \in client'.pauses <=> Pauses(e, p) \/ (p \in client.pauses /\ ~Answers(e, p))
      ELSE client'.active = client.active /\ client'.pauses = client.pauses
  <2>1. e.seq \in Nat
    BY <1>3 DEF Entries
  <2>2. CASE e.seq > client.through
    <3>1. client' = Apply(c, e)
      BY <1>1, <1>2, <2>1, <2>2
    <3>2. QED
      BY <1>3, <1>4, <2>2, <3>1, ApplyShows
  <2>3. CASE ~(e.seq > client.through)
    BY <1>1, <1>2, <1>4, <2>1, <2>3
  <2>4. QED
    BY <2>2, <2>3
<1>7. /\ Queued = 1..n /\ Queued' = 1..(n - 1) /\ Len(client'.queue) = n - 1 /\ Live' = Live
      /\ \A i \in 1..(n - 1) : client'.queue[i] = client.queue[i + 1]
  BY <1>2, <1>3, <1>5 DEF Queued, Live
<1> HIDE DEF n
<1>8. /\ Numbers \in [1..n -> Nat]
      /\ \A i, j \in 1..n : i < j => Numbers[i] < Numbers[j]
      /\ \A i \in 1..(n - 1) : Numbers'[i] = Numbers[i + 1]
      /\ Numbers[1] = e.seq
  <2>1. \A i \in 1..n : client.queue[i].seq \in Nat
    <3>1. \A i \in 1..n : client.queue[i] \in Entries
      BY <1>1 DEF n
    <3>2. QED
      BY <3>1 DEF Entries
  <2>2. \A i \in 1..(n - 1) : i + 1 \in 1..n
    BY <1>1
  <2>3. 1 \in 1..n
    BY <1>1, <1>3
  <2>4. Numbers = [i \in 1..n |-> client.queue[i].seq]
    BY <1>7 DEF Numbers
  <2>5. Numbers' = [i \in 1..(n - 1) |-> client'.queue[i].seq]
    BY <1>7 DEF Numbers
  <2>6. \A i, j \in 1..n : i < j => Numbers[i] < Numbers[j]
    BY <2>4 DEF NumberInv, ClientNumbered, n
  <2>7. QED
    BY <1>7, <2>1, <2>2, <2>3, <2>4, <2>5, <2>6
<1>9. \A i \in 1..(n - 1) : i \in 1..n /\ i + 1 \in 1..n
  BY <1>1
<1>10. 1 \in 1..n
  BY <1>1, <1>3
<1>11. ActiveInv'
  <2> DEFINE sets == {i \in 1..n : Boundary(client.queue[i])}
             value == {i \in 1..n : client.queue[i].kind = "run_started"}
             sets2 == {i \in 1..(n - 1) : Boundary(client'.queue[i])}
             value2 == {i \in 1..(n - 1) : client'.queue[i].kind = "run_started"}
  <2>1. Agrees(n, sets, value, status.query, Live, Numbers, client.through, client.active)
    BY <1>7 DEF ViewInv, ActiveInv, n
  <2>2. sets \in SUBSET (1..n) /\ sets2 \in SUBSET (1..(n - 1))
    OBVIOUS
  <2>3. \A i \in 1..(n - 1) : (i \in sets2 <=> i + 1 \in sets) /\ (i \in value2 <=> i + 1 \in value)
    BY <1>7, <1>9
  <2>4. (1 \in sets <=> Boundary(e)) /\ (1 \in value <=> e.kind = "run_started")
    BY <1>10
  <2> HIDE DEF sets, sets2, value, value2
  <2>5. IF Numbers[1] > client.through /\ 1 \in sets THEN client'.active <=> 1 \in value ELSE client'.active <=> client.active
    <3>1. CASE Boundary(e)
      BY <1>6, <1>8, <2>4, <3>1
    <3>2. CASE ~Boundary(e)
      BY <1>6, <2>4, <3>2
    <3>3. QED
      BY <3>1, <3>2
  <2>6. Agrees(n - 1, sets2, value2, status.query, Live, Numbers', client.through, client'.active)
    <3>1. /\ n \in Nat /\ n > 0 /\ client.through \in Nat /\ status.query \in BOOLEAN
          /\ client.active \in BOOLEAN /\ client'.active \in BOOLEAN /\ Live \in BOOLEAN
      BY <1>1, <1>3 DEF Live
    <3>2. /\ Numbers \in [1..n -> Nat]
          /\ \A i, j \in 1..n : i < j => Numbers[i] < Numbers[j]
          /\ \A i \in 1..(n - 1) : Numbers'[i] = Numbers[i + 1]
      BY <1>8
    <3> DEFINE m == n - 1
    <3>3. m \in Nat /\ m = n - 1
      BY <3>1
    <3>4. /\ sets2 \in SUBSET (1..m)
          /\ \A i \in 1..m : (i \in sets2 <=> i + 1 \in sets) /\ (i \in value2 <=> i + 1 \in value)
          /\ \A i \in 1..m : Numbers'[i] = Numbers[i + 1]
      BY <2>2, <2>3, <3>2
    <3> HIDE DEF m
    <3>5. Shifted(n, m, sets, value, Numbers, client.through, client.active, sets2, value2, Numbers', client'.active)
      BY <3>1, <3>2, <3>3, <3>4, <2>2, <2>5 DEF Shifted
    <3>6. Agrees(m, sets2, value2, status.query, Live, Numbers', client.through, client'.active)
      BY <2>1, <3>5, AgreesTail
    <3>7. QED
      BY <3>3, <3>6
  <2>7. QED
    BY <1>2, <1>5, <1>7, <2>6 DEF ActiveInv, sets2, value2
<1>12. ASSUME NEW p PROVE PauseAgrees(p)'
  <2> DEFINE sets == {i \in 1..n : Touches(client.queue[i], p)}
             value == {i \in 1..n : Pauses(client.queue[i], p)}
             sets2 == {i \in 1..(n - 1) : Touches(client'.queue[i], p)}
             value2 == {i \in 1..(n - 1) : Pauses(client'.queue[i], p)}
             shown == p \in client.pauses
             shown2 == p \in client'.pauses
             current == p \in status.pauses
  <2>1. Agrees(n, sets, value, current, Live, Numbers, client.through, shown)
    BY <1>7 DEF ViewInv, PauseAgrees, n
  <2>2. sets \in SUBSET (1..n) /\ sets2 \in SUBSET (1..(n - 1))
    OBVIOUS
  <2>3. \A i \in 1..(n - 1) : (i \in sets2 <=> i + 1 \in sets) /\ (i \in value2 <=> i + 1 \in value)
    BY <1>7, <1>9
  <2>4. (1 \in sets <=> Touches(e, p)) /\ (1 \in value <=> Pauses(e, p))
    BY <1>10
  <2> HIDE DEF sets, sets2, value, value2
  <2>5. IF Numbers[1] > client.through /\ 1 \in sets THEN shown2 <=> 1 \in value ELSE shown2 <=> shown
    <3>1. CASE e.seq > client.through
      BY <1>6, <1>8, <2>4, <3>1, TouchFacts DEF Touches
    <3>2. CASE ~(e.seq > client.through)
      BY <1>6, <1>8, <3>2
    <3>3. QED
      BY <3>1, <3>2
  <2>6. shown \in BOOLEAN /\ shown2 \in BOOLEAN /\ current \in BOOLEAN
    OBVIOUS
  <2>7. current <=> p \in status'.pauses
    BY <1>2
  <2> HIDE DEF shown, shown2, current
  <2>8. Agrees(n - 1, sets2, value2, current, Live, Numbers', client.through, shown2)
    <3>1. n \in Nat /\ n > 0 /\ client.through \in Nat /\ Live \in BOOLEAN
      BY <1>1, <1>3 DEF Live
    <3>2. /\ Numbers \in [1..n -> Nat]
          /\ \A i, j \in 1..n : i < j => Numbers[i] < Numbers[j]
          /\ \A i \in 1..(n - 1) : Numbers'[i] = Numbers[i + 1]
      BY <1>8
    <3> DEFINE m == n - 1
    <3>3. m \in Nat /\ m = n - 1
      BY <3>1
    <3>4. /\ sets2 \in SUBSET (1..m)
          /\ \A i \in 1..m : (i \in sets2 <=> i + 1 \in sets) /\ (i \in value2 <=> i + 1 \in value)
          /\ \A i \in 1..m : Numbers'[i] = Numbers[i + 1]
      BY <2>2, <2>3, <3>2
    <3> HIDE DEF m
    <3>5. Shifted(n, m, sets, value, Numbers, client.through, shown, sets2, value2, Numbers', shown2)
      BY <3>1, <3>2, <3>3, <3>4, <2>2, <2>5 DEF Shifted
    <3>6. Agrees(m, sets2, value2, current, Live, Numbers', client.through, shown2)
      BY <2>1, <3>5, AgreesTail
    <3>7. QED
      BY <3>3, <3>6
  <2>9. QED
    BY <1>2, <1>5, <1>7, <2>7, <2>8 DEF PauseAgrees, sets2, value2, shown2
<1>13. QED
  BY <1>5, <1>11, <1>12 DEF ViewInv

LEMMA ViewConnects ==
    ASSUME TypeInv, TypeInv', ViewInv, Socket \/ Subscribe, ~ReceiveLive
    PROVE  ViewInv'
<1>1. status' = status /\ client \in Clients
  BY SocketTyped DEF ServerFrame, TypeInv, ClientTyped
<1>2. CASE Subscribe
  <2>1. client'.queue = <<>> /\ client'.phase = "subscribed"
    BY <1>1, <1>2 DEF Subscribe, Clients
  <2>2. Queued' = {} /\ ~Live'
    BY <2>1 DEF Queued, Live
  <2>3. QED
    BY <2>1, <2>2 DEF ViewInv, ActiveInv, PauseAgrees, Agrees
<1>3. CASE ~Subscribe
  <2>1. /\ client'.queue = client.queue /\ client'.phase # "off"
        /\ client'.phase = "live" => SendStatus
    BY <1>3, SocketEffect
  <2>2. Queued' = Queued
    BY <2>1 DEF Queued
  <2>3. Live' => client'.active = status.query /\ client'.pauses = status.pauses
    BY <1>1, <2>1 DEF SendStatus, Live, Clients
  <2>4. ActiveInv'
    <3>1. Agrees(Len(client.queue), {i \in Queued : Boundary(client.queue[i])},
                 {i \in Queued : client.queue[i].kind = "run_started"},
                 status.query, Live', Numbers', client'.through, client'.active)
      BY <2>3, AgreesQuiet DEF ViewInv, ActiveInv
    <3>2. QED
      BY <3>1, <2>1, <2>2, <1>1 DEF ActiveInv
  <2>5. ASSUME NEW p PROVE PauseAgrees(p)'
    <3>1. Agrees(Len(client.queue), {i \in Queued : Touches(client.queue[i], p)},
                 {i \in Queued : Pauses(client.queue[i], p)},
                 p \in status.pauses, Live', Numbers', client'.through, p \in client'.pauses)
      BY <2>3, AgreesQuiet DEF ViewInv, PauseAgrees
    <3>2. QED
      BY <3>1, <2>1, <2>2, <1>1 DEF PauseAgrees
  <2>6. QED
    BY <2>1, <2>4, <2>5 DEF ViewInv
<1>4. QED
  BY <1>2, <1>3

ShownInv == NumberInv /\ CallInv /\ PauseInv /\ ViewInv

LEMMA ShownInit == Init => ShownInv
<1> SUFFICES ASSUME Init PROVE ShownInv
  OBVIOUS
<1>1. CallInv
  BY DEF Init, CallInv
<1>2. PauseInv
  BY DEF Init, PauseInv, Unanswered
<1>3. ViewInv
  <2>1. Queued = {} /\ ~Live
    BY DEF Init, Queued, Live
  <2>2. QED
    BY <2>1 DEF Init, ViewInv, ActiveInv, PauseAgrees, Agrees
<1>4. QED
  BY <1>1, <1>2, <1>3, NumberInit DEF ShownInv

LEMMA ShownStep == TypeInv /\ TypeInv' /\ ShownInv /\ [Next]_vars => ShownInv'
<1> SUFFICES ASSUME TypeInv, TypeInv', ShownInv, [Next]_vars PROVE ShownInv'
  OBVIOUS
<1> NumberInv /\ CallInv /\ PauseInv /\ ViewInv
  BY DEF ShownInv
<1>1. NumberInv'
  BY NumberStep
<1>2. CASE Core
  <2>1. CoreEmits /\ CallInv'
    BY <1>2, CoreEmitsStep
  <2>2. UNCHANGED <<status, client>>
    BY <1>2, CoreEffect DEF CoreFrame
  <2>3. PauseInv'
    BY <2>1, <2>2, PauseEmitted
  <2>4. ViewInv'
    BY <2>2 DEF ViewInv, ActiveInv, PauseAgrees, Queued, Live, Numbers
  <2>5. QED
    BY <1>1, <2>1, <2>3, <2>4 DEF ShownInv
<1>3. CASE Consumer
  <2>1. PICK event \in Events, e \in Entries :
           e.kind = event.kind /\ e.blocks = event.blocks /\ e.seq = seq /\ Consumes(event, e)
    BY <1>3, ConsumerEffect
  <2>2. /\ PauseInv'
        /\ Boundary(e) => status.pauses = {}
        /\ \A p : p \in status'.pauses <=> Pauses(e, p) \/ (p \in status.pauses /\ ~Answers(e, p))
    BY <2>1, PauseTaken
  <2>3. ViewInv'
    BY <2>1, <2>2, ViewTaken
  <2>4. CallInv'
    BY <2>1 DEF Consumes, coreVars, CallInv
  <2>5. QED
    BY <1>1, <2>2, <2>3, <2>4 DEF ShownInv
<1>4. CASE Socket \/ Subscribe
  <2>1. ViewInv'
    BY <1>4, ViewReceived, ViewConnects
  <2>2. CallInv' /\ PauseInv'
    BY <1>4, SocketTyped DEF ServerFrame, coreVars, CallInv, PauseInv
  <2>3. QED
    BY <1>1, <2>1, <2>2 DEF ShownInv
<1>5. CASE UNCHANGED vars
  <2>1. UNCHANGED <<stage, call, turn, out, status, client>>
    BY <1>5 DEF vars, coreVars
  <2>2. CallInv' /\ PauseInv'
    BY <2>1 DEF CallInv, PauseInv
  <2>3. ViewInv'
    BY <2>1 DEF ViewInv, ActiveInv, PauseAgrees, Queued, Live, Numbers
  <2>4. QED
    BY <1>1, <2>2, <2>3 DEF ShownInv
<1>6. QED
  BY <1>2, <1>3, <1>4, <1>5 DEF Next

(* Whenever the status projection was read for a connection, and whatever   *)
(* live events were queued behind it, a client that has caught up shows the *)
(* activity and exactly the pauses of the projection (status.rs, ws.rs).    *)
THEOREM StatusConverges == EventSpec => []ViewsConverge
<1>1. TypeInv /\ ShownInv => ViewsConverge
  <2> SUFFICES ASSUME TypeInv, ShownInv, Drained PROVE client.active = status.query /\ client.pauses = status.pauses
    BY DEF ViewsConverge
  <2>1. Queued = {} /\ Live
    BY DEF Drained, Queued, Live
  <2>2. client.active <=> status.query
    BY <2>1 DEF ShownInv, ViewInv, ActiveInv, Agrees
  <2>3. \A p : p \in client.pauses <=> p \in status.pauses
    BY <2>1 DEF ShownInv, ViewInv, PauseAgrees, Agrees
  <2>4. client.active \in BOOLEAN /\ status.query \in BOOLEAN
    BY DEF TypeInv, ClientTyped, Clients, StatusTyped
  <2>5. client.pauses \in SUBSET Blocks /\ status.pauses \in SUBSET Blocks
    BY DEF TypeInv, ClientTyped, Clients, StatusTyped
  <2>6. QED
    BY <2>2, <2>3, <2>4, <2>5
<1>2. QED
  BY <1>1, TypeInit, TypeStep, ShownInit, ShownStep, PTL DEF EventSpec
=============================================================================
