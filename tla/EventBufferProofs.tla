-------------------------- MODULE EventBufferProofs --------------------------
(***************************************************************************)
(* What the core emits, what it has stored and what the replay buffer      *)
(* holds, for any scenarios, turns, channel and lag.  A block of the       *)
(* conversation is emitted once; what is emitted and not yet stored belongs*)
(* to the turn under way; an event that empties the tail of the buffer     *)
(* comes after the rows of what it throws away; the tail holds blocks of   *)
(* one turn, and all of the stream of that turn until a snapshot trims it. *)
(* RecordInv is the conjunction, inductive for every step.                 *)
(***************************************************************************)
EXTENDS EventReplayProofs

Plain == Blocks \ ChildBlocks

(* A pause names the tool use it is about, but shows nothing. *)
Carries(e, b) == b \in e.blocks /\ e.kind # "pause_requested"

Cuts(e) == e.kind \in {"run_started", "turn_started", "turn_ended", "run_finished"}
TurnKinds == Streamed \cup {"tool_result"}
TailKinds == TurnKinds \cup {"turn_started", "turn_ended", "user_message_injected", "pause_requested"}

Shape(e) ==
    /\ e.kind = "text_delta" => \E t \in Turns, n \in 1..MaxDeltas : e.blocks = {Text(t, n)}
    /\ e.kind \in {"tool_use", "pause_requested"} => \E t \in Turns : e.blocks = {Use(t)}
    /\ e.kind = "tool_result" => \E t \in Turns : e.blocks = {Result(t)}
    /\ e.kind = "user_message_injected" => \E n \in 1..MaxInputs : e.blocks = {Input(n)}
    /\ e.kind = "compact_summary_finished" => e.blocks = {Summary}
    /\ e.kind \in ChildKinds => e.blocks \subseteq ChildBlocks
    /\ Cuts(e) \/ e.kind \in {"compact_summary_started", "compact_summary_failed"} => e.blocks = {}

Shaped(b) ==
    /\ \A e \in b.prefix : Shape(e) /\ e.kind = "user_message_injected"
    /\ \A e \in b.run : e.blocks = {} /\ e.kind = "run_started"
    /\ \A e \in b.tail : Shape(e) /\ e.kind \in TailKinds
    /\ \A e \in b.compact : Shape(e) /\ e.kind \in {"compact_summary_started", "compact_summary_finished"}
    /\ \A e \in b.child : e.blocks \subseteq ChildBlocks

ShapeInv ==
    /\ \A k \in 1..Len(out) : Shape(out[k]) /\ out[k].kind # "user_message_injected"
    /\ \A k \in 1..Len(inbox) : Shape(inbox[k])
    /\ Shaped(buffer)

-----------------------------------------------------------------------------
(* The blocks of the main conversation and how they differ. *)
LEMMA PlainFacts ==
    ASSUME NEW b \in Plain
    PROVE  \/ \E t \in Turns, n \in 1..MaxDeltas : b = Text(t, n)
           \/ \E t \in Turns : b = Use(t) \/ b = Result(t)
           \/ \E n \in 1..MaxInputs : b = Input(n)
           \/ b = Summary
<1>1. \/ \E t \in Turns : b \in Stream(t) \cup {Result(t)}
      \/ b \in Inputs \cup {Summary}
  BY DEF Plain, Blocks
<1>2. QED
  BY <1>1 DEF Stream, Inputs

LEMMA ChildIsNotPlain ==
    /\ \A t, n : Text(t, n) \notin ChildBlocks /\ Use(t) \notin ChildBlocks /\ Result(t) \notin ChildBlocks
    /\ \A n : Input(n) \notin ChildBlocks
    /\ Summary \notin ChildBlocks
BY DEF ChildBlocks, ChildText, Text, Use, Result, Input, Summary

LEMMA NamesDiffer ==
    /\ \A t, n : Text(t, n)[1] = "text" /\ Text(t, n)[2] = t /\ Text(t, n)[3] = n
    /\ \A t : Use(t)[1] = "use" /\ Use(t)[2] = t /\ Result(t)[1] = "result" /\ Result(t)[2] = t
    /\ \A n : Input(n)[1] = "input" /\ Input(n)[3] = n
    /\ Summary[1] = "summary"
BY DEF Text, Use, Result, Input, Summary

(* What recording puts where. *)
LEMMA RecordIs ==
    ASSUME NEW b \in Buffers, NEW e \in Entries
    PROVE  /\ \A x \in Record(b, e).prefix : x \in b.prefix \/ (x = e /\ e.kind = "user_message_injected")
           /\ e.kind = "run_started" => Record(b, e).run = {e}
           /\ e.kind = "run_finished" => Record(b, e).run = {}
           /\ e.kind \notin {"run_started", "run_finished"} => Record(b, e).run = b.run
           /\ e.kind \in {"run_started", "run_finished"} => Record(b, e).tail = {}
           /\ e.kind \in {"turn_started", "turn_ended"} /\ b.run # {} => Record(b, e).tail = {e}
           /\ e.kind \in TailKinds /\ ~Cuts(e) /\ b.run # {} => Record(b, e).tail = b.tail \cup {e}
           /\ (e.kind \notin TailKinds \/ b.run = {}) /\ e.kind \notin {"run_started", "run_finished"}
              => Record(b, e).tail = b.tail
           /\ e.kind = "compact_summary_started" => Record(b, e).compact = {e}
           /\ e.kind \in {"compact_summary_failed", "run_finished"} => Record(b, e).compact = {}
           /\ e.kind = "compact_summary_finished" /\ b.compact = {} => Record(b, e).compact = {}
           /\ e.kind = "compact_summary_finished" /\ b.compact # {} => Record(b, e).compact = b.compact \cup {e}
           /\ e.kind \notin {"compact_summary_started", "compact_summary_failed", "compact_summary_finished",
                            "run_finished"} => Record(b, e).compact = b.compact
<1> e.kind \in Kinds
  BY DEF Entries
<1> USE DEF Buffers, Record, Kinds, MainKinds, ChildKinds, TailKinds, TurnKinds, Streamed, Cuts
<1>1. CASE e.kind \in ChildKinds
  BY <1>1
<1>2. CASE e.kind \in {"compact_summary_started", "compact_summary_finished", "compact_summary_failed"}
  BY <1>2
<1>3. CASE e.kind = "run_started"
  <2>1. Record(b, e) = [b EXCEPT !.run = {e}, !.tail = {}]
    BY <1>3
  <2>2. QED
    BY <1>3, <2>1
<1>4. CASE e.kind = "run_finished"
  <2>1. Record(b, e) = [EmptyBuffer EXCEPT !.child = b.child]
    BY <1>4
  <2>2. QED
    BY <1>4, <2>1 DEF EmptyBuffer
<1>5. CASE e.kind = "turn_started"
  <2>1. Record(b, e) = IF b.run # {} THEN [b EXCEPT !.tail = {e}] ELSE b
    BY <1>5
  <2>2. QED
    BY <1>5, <2>1
<1>6. CASE e.kind = "turn_ended"
  <2>1. Record(b, e) = IF b.run # {} THEN [b EXCEPT !.prefix = {}, !.tail = {e}] ELSE b
    BY <1>6
  <2>2. QED
    BY <1>6, <2>1
<1>7. CASE e.kind = "user_message_injected"
  <2>1. Record(b, e) = IF b.run # {} THEN [b EXCEPT !.tail = @ \cup {e}] ELSE [b EXCEPT !.prefix = @ \cup {e}]
    BY <1>7
  <2>2. QED
    BY <1>7, <2>1
<1>8. CASE e.kind \in {"text_delta", "tool_use", "pause_requested", "tool_result"}
  <2>1. Record(b, e) = [b EXCEPT !.tail = IF b.run = {} THEN @ ELSE @ \cup {e}]
    BY <1>8
  <2>2. QED
    BY <1>8, <2>1
<1>9. QED
  BY <1>1, <1>2, <1>3, <1>4, <1>5, <1>6, <1>7, <1>8

LEMMA RecordShaped ==
    ASSUME NEW b \in Buffers, NEW e \in Entries, Shaped(b), Shape(e)
    PROVE  Shaped(Record(b, e))
<1>1. \A x \in Record(b, e).prefix : Shape(x) /\ x.kind = "user_message_injected"
  BY RecordIs DEF Shaped
<1>2. \A x \in Record(b, e).tail : Shape(x) /\ x.kind \in TailKinds
  <2>1. \A x \in Record(b, e).tail : x \in b.tail \/ (x = e /\ e.kind \in TailKinds)
    BY RecordIs DEF Cuts, TailKinds
  <2>2. QED
    BY <2>1 DEF Shaped
<1>3. /\ \A x \in Record(b, e).run : x.blocks = {} /\ x.kind = "run_started"
      /\ \A x \in Record(b, e).compact : Shape(x) /\ x.kind \in {"compact_summary_started", "compact_summary_finished"}
  <2>1. \A x \in Record(b, e).run : x \in b.run \/ (x = e /\ e.kind = "run_started")
    BY RecordIs
  <2>2. \A x \in Record(b, e).compact :
           x \in b.compact \/ (x = e /\ e.kind \in {"compact_summary_started", "compact_summary_finished"})
    BY RecordIs
  <2>3. e.kind = "run_started" => e.blocks = {}
    BY DEF Shape, Cuts
  <2>4. QED
    BY <2>1, <2>2, <2>3 DEF Shaped
<1>4. \A x \in Record(b, e).child : x.blocks \subseteq ChildBlocks
  <2>1. b.child \in SUBSET Entries
    BY DEF Buffers
  <2>2. CASE e.kind \in ChildKinds
    <3>1. e.blocks \subseteq ChildBlocks /\ \A x \in b.child : x.blocks \subseteq ChildBlocks
      BY <2>2 DEF Shape, Shaped
    <3>2. BlocksOf(OfKind(b.child, {"child_delta"})) \subseteq ChildBlocks
      BY <3>1 DEF BlocksOf, OfKind
    <3>3. Record(b, e).child = RecordChild(b.child, e)
      BY <2>2, RecordEffect
    <3>4. QED
      BY <2>1, <2>2, <3>1, <3>2, <3>3, ChildRecord
  <2>3. CASE e.kind \notin ChildKinds
    BY <2>3, RecordEffect DEF Shaped
  <2>4. QED
    BY <2>2, <2>3
<1>5. QED
  BY <1>1, <1>2, <1>3, <1>4 DEF Shaped

-----------------------------------------------------------------------------
(* What a step of the core emits, and where the run is then.                *)
Writing == {"stream", "llm", "ui", "stored"}

RunStep(ev) ==
    \/ /\ ev.kind \in ChildKinds
       /\ UNCHANGED <<turn, stage, deltas, call>>
    \/ /\ ev.kind = "run_started" /\ stage = "idle" /\ stage' = "started"
       /\ UNCHANGED <<turn, deltas, call>>
    \/ /\ ev.kind = "turn_started" /\ stage \in {"started", "ended"} /\ stage' = "stream"
       /\ turn' = turn + 1 /\ deltas' = 0 /\ call' = "none"
    \/ /\ ev.kind = "text_delta" /\ ev.blocks = {Text(turn, deltas + 1)}
       /\ stage = "stream" /\ call = "none" /\ deltas' = deltas + 1
       /\ UNCHANGED <<turn, stage, call>>
    \/ /\ ev.kind = "tool_use" /\ ev.blocks = {Use(turn)}
       /\ stage = "stream" /\ call = "none" /\ call' = "running"
       /\ UNCHANGED <<turn, stage, deltas>>
    \/ /\ ev.kind = "pause_requested" /\ ev.blocks = {Use(turn)}
       /\ call = "running" /\ call' = "paused"
       /\ UNCHANGED <<turn, stage, deltas>>
    \/ /\ ev.kind = "tool_result" /\ ev.blocks = {Result(turn)}
       /\ stage \in Writing /\ call \in {"running", "paused"} /\ call' = "done"
       /\ UNCHANGED <<turn, stage, deltas>>
    \/ /\ ev.kind = "turn_ended" /\ stage' = "ended"
       /\ \/ stage = "stream" /\ Message = {}
          \/ stage = "stored" /\ call = "none"
          \/ stage = "settled"
       /\ UNCHANGED <<turn, deltas, call>>
    \/ /\ ev.kind = "run_finished" /\ stage = "ended" /\ stage' = "finished"
       /\ UNCHANGED <<turn, deltas, call>>
    \/ /\ ev.kind = "compact_summary_started" /\ stage = "finished" /\ stage' = "compacting"
       /\ UNCHANGED <<turn, deltas, call>>
    \/ /\ ev.kind = "compact_summary_failed" /\ stage = "compacting" /\ stage' = "compact_failed"
       /\ UNCHANGED <<turn, deltas, call>>
    \/ /\ ev.kind = "compact_summary_finished" /\ stage = "summary_trimmed" /\ stage' = "compacted"
       /\ UNCHANGED <<turn, deltas, call>>

Emits(ev) ==
    /\ Shape(ev) /\ ev.kind # "user_message_injected"
    /\ out' = Append(out, ev)
    /\ UNCHANGED <<input, rows, inbox, seq, buffer, status, client, told, torn, calm>>
    /\ RunStep(ev)

ChildRow ==
    /\ UNCHANGED <<coreVars, input, out, inbox, seq, buffer, status, client, told, torn>>
    /\ rows'.ui = rows.ui /\ rows'.llm = rows.llm
    /\ Writes

LEMMA CoreWays ==
    ASSUME TypeInv, Core
    PROVE  \/ \E ev \in Events : Emits(ev)
           \/ StoreInput \/ SendInput \/ Stores \/ Trims \/ ChildRow
<1> RunTyped /\ ChildTyped /\ MaxTurns \in Nat /\ MaxDeltas \in Nat /\ ChildDeltas \in Nat /\ rows \in [ui : SUBSET Blocks, llm : SUBSET SUBSET Blocks, child : SUBSET ChildBlocks]
  BY BoundFacts DEF TypeInv, RowsTyped
<1> USE DEF coreVars
<1>1. ASSUME NEW kind \in Kinds, NEW blocks \in SUBSET Blocks, Emit(Event(kind, blocks)),
             Shape(Event(kind, blocks)), kind # "user_message_injected", RunStep(Event(kind, blocks)),
             UNCHANGED <<input, rows, inbox, seq, buffer, status, client, told, torn, calm>>
      PROVE  \E ev \in Events : Emits(ev)
  <2>1. Event(kind, blocks) \in Events /\ Event(kind, blocks).kind = kind
    BY <1>1 DEF Event, Events
  <2>2. QED
    BY <1>1, <2>1 DEF Emits, Emit
<1> DEFINE Empty == {"run_started", "turn_started", "turn_ended", "run_finished", "compact_summary_started",
                     "compact_summary_failed"}
<1>2. ASSUME NEW kind \in Empty, Emit(Event(kind, {})), RunStep(Event(kind, {})),
             UNCHANGED <<input, rows, inbox, seq, buffer, status, client, told, torn, calm>>
      PROVE  \E ev \in Events : Emits(ev)
  <2>1. kind \in Kinds /\ kind # "user_message_injected" /\ {} \in SUBSET Blocks
    BY <1>2, KindFacts
  <2>2. Shape(Event(kind, {}))
    BY <1>2, EventFacts DEF Shape, Cuts, ChildKinds
  <2>3. QED
    BY <1>1, <1>2, <2>1, <2>2
<1>3. ASSUME NEW kind \in ChildKinds, NEW blocks \in SUBSET ChildBlocks, Emit(Event(kind, blocks)),
             UNCHANGED <<coreVars, input, rows, inbox, seq, buffer, status, client, told, torn, calm>>
      PROVE  \E ev \in Events : Emits(ev)
  <2>1. kind \in Kinds /\ kind # "user_message_injected" /\ blocks \in SUBSET Blocks
    BY <1>3, KindFacts, BlockFacts DEF ChildKinds
  <2>2. Shape(Event(kind, blocks))
    BY <1>3, EventFacts DEF Shape, Cuts, ChildKinds
  <2>3. RunStep(Event(kind, blocks))
    BY <1>3, EventFacts DEF RunStep
  <2>4. QED
    BY <1>1, <1>3, <2>1, <2>2, <2>3
<1>4. CASE StartRun
  BY <1>2, <1>4, EventFacts DEF StartRun, RunStep
<1>5. CASE StartTurn
  BY <1>2, <1>5, EventFacts DEF StartTurn, RunStep
<1>6. CASE EndTurn
  BY <1>2, <1>6, EventFacts DEF EndTurn, RunStep
<1>7. CASE FinishRun
  BY <1>2, <1>7, EventFacts DEF FinishRun, RunStep
<1>8. CASE EmitText \/ EmitToolUse \/ EmitPause \/ EmitToolResult
  <2>1. turn \in Turns
    BY <1>8 DEF EmitText, EmitToolUse, EmitPause, EmitToolResult, RunTyped, Turns
  <2>2. CASE EmitText
    <3>1. deltas + 1 \in 1..MaxDeltas
      BY <2>2 DEF EmitText, RunTyped
    <3>2. {Text(turn, deltas + 1)} \in SUBSET Blocks /\ "text_delta" \in Kinds
      BY <2>1, <3>1, BlockFacts, KindFacts
    <3>3. Shape(Event("text_delta", {Text(turn, deltas + 1)}))
      BY <2>1, <3>1, EventFacts DEF Shape, Cuts, ChildKinds
    <3>4. QED
      BY <1>1, <2>2, <3>2, <3>3, EventFacts DEF EmitText, RunStep
  <2>3. CASE EmitToolUse
    <3>1. {Use(turn)} \in SUBSET Blocks /\ "tool_use" \in Kinds
      BY <2>1, BlockFacts, KindFacts
    <3>2. Shape(Event("tool_use", {Use(turn)}))
      BY <2>1, EventFacts DEF Shape, Cuts, ChildKinds
    <3>3. QED
      BY <1>1, <2>3, <3>1, <3>2, EventFacts DEF EmitToolUse, RunStep
  <2>4. CASE EmitPause
    <3>1. {Use(turn)} \in SUBSET Blocks /\ "pause_requested" \in Kinds
      BY <2>1, BlockFacts, KindFacts
    <3>2. Shape(Event("pause_requested", {Use(turn)}))
      BY <2>1, EventFacts DEF Shape, Cuts, ChildKinds
    <3>3. QED
      BY <1>1, <2>4, <3>1, <3>2, EventFacts DEF EmitPause, RunStep
  <2>5. CASE EmitToolResult
    <3>1. {Result(turn)} \in SUBSET Blocks /\ "tool_result" \in Kinds
      BY <2>1, BlockFacts, KindFacts
    <3>2. Shape(Event("tool_result", {Result(turn)}))
      BY <2>1, EventFacts DEF Shape, Cuts, ChildKinds
    <3>3. QED
      BY <1>1, <2>5, <3>1, <3>2, EventFacts DEF EmitToolResult, RunStep, Writing
  <2>6. QED
    BY <1>8, <2>2, <2>3, <2>4, <2>5
<1>9. CASE CompactEmits
  <2>1. CASE Compact("summary_trimmed", "compacted", "compact_summary_finished", {Summary})
    <3>1. {Summary} \in SUBSET Blocks /\ "compact_summary_finished" \in Kinds
      BY BlockFacts, KindFacts
    <3>2. Shape(Event("compact_summary_finished", {Summary}))
      BY EventFacts DEF Shape, Cuts, ChildKinds
    <3>3. QED
      BY <1>1, <2>1, <3>1, <3>2, EventFacts DEF Compact, RunStep
  <2>2. CASE Compact("finished", "compacting", "compact_summary_started", {})
    BY <1>2, <2>2, EventFacts DEF Compact, RunStep
  <2>3. CASE Compact("compacting", "compact_failed", "compact_summary_failed", {})
    BY <1>2, <2>3, EventFacts DEF Compact, RunStep
  <2>4. QED
    BY <1>9, <2>1, <2>2, <2>3 DEF CompactEmits
<1>10. CASE SpawnChild \/ ChildStep
  <2>1. ChildMessage \in SUBSET ChildBlocks /\ {} \in SUBSET ChildBlocks
    BY ChildMessageType
  <2>2. CASE ChildTextDelta
    <3>1. child.deltas + 1 \in 1..ChildDeltas
      BY <2>2 DEF ChildTextDelta, ChildTyped
    <3>2. {ChildText(child.deltas + 1)} \in SUBSET ChildBlocks
      BY <3>1, BlockFacts
    <3>3. QED
      BY <1>3, <2>2, <3>2 DEF ChildTextDelta, ChildKinds
  <2>3. CASE ~ChildTextDelta /\ out' = out
    BY <1>10, <2>3 DEF SpawnChild, ChildStep, ChildEmits, ChildWrites, ChildRow, Writes, ChannelTyped, TypeInv, Emit
  <2>4. CASE ~ChildTextDelta /\ out' # out
    BY <1>3, <1>10, <2>1, <2>4 DEF SpawnChild, ChildStep, ChildEmits, ChildWrites, ChildKinds
  <2>5. QED
    BY <2>2, <2>3, <2>4
<1>11. QED
  BY <1>4, <1>5, <1>6, <1>7, <1>8, <1>9, <1>10, CoreCases

(* What the consumer does with the entry it records, as far as the blocks of *)
(* the main conversation are concerned.                                       *)
TakesOut(e) ==
    /\ out # <<>> /\ out' = Tail(out) /\ inbox' = inbox
    /\ e.kind = out[1].kind /\ e.blocks = out[1].blocks

TakesInbox(e) ==
    /\ inbox # <<>> /\ inbox' = Tail(inbox) /\ out' = out
    /\ e.kind = inbox[1].kind /\ e.blocks = inbox[1].blocks

Takes(e) ==
    /\ e \in Entries /\ e.seq = seq /\ Shape(e)
    /\ \E event \in Events : Consumes(event, e)
    /\ buffer' = Record(buffer, e)
    /\ \A b \in Plain : b \in told' <=> b \in told \/ b \in e.blocks
    /\ torn' = torn \ Mended(e)
    /\ UNCHANGED <<turn, stage, deltas, call, input, rows, calm>>
    /\ TakesOut(e) \/ TakesInbox(e)

LEMMA ConsumerWays ==
    ASSUME TypeInv, ShapeInv, Consumer
    PROVE  \E e \in Entries : Takes(e)
<1>1. PICK event \in Events, e \in Entries :
         e.kind = event.kind /\ e.blocks = event.blocks /\ e.seq = seq /\ Consumes(event, e)
  BY ConsumerEffect
<1>2. out \in Seq(Events) /\ inbox \in Seq(Events)
  BY DEF TypeInv, ChannelTyped
<1>3. (out # <<>> => 1 \in 1..Len(out)) /\ (inbox # <<>> => 1 \in 1..Len(inbox))
  BY <1>2
<1>4. Shape(event)
  BY <1>1, <1>3 DEF Consumes, ShapeInv
<1>5. Shape(e)
  BY <1>1, <1>4 DEF Shape, Cuts
<1>6. \A b \in Plain : b \in told' <=> b \in told \/ b \in e.blocks
  BY <1>1, <1>5 DEF Consumes, Shape, Plain, ChildKinds
<1>7. TakesOut(e) \/ TakesInbox(e)
  BY <1>1 DEF Consumes, TakesOut, TakesInbox
<1>8. QED
  BY <1>1, <1>5, <1>6, <1>7 DEF Takes, Consumes, coreVars

(* What the steps on a connection leave alone. *)
Quiet == UNCHANGED <<turn, stage, deltas, call, input, rows, out, inbox, told, torn>>

LEMMA QuietWays ==
    ASSUME TypeInv, Socket \/ Subscribe \/ UNCHANGED vars
    PROVE  Quiet /\ (buffer' = buffer \/ SendSnapshot)
BY SocketTyped DEF Quiet, ServerFrame, vars, coreVars

LEMMA Ways ==
    ASSUME TypeInv, ShapeInv, [Next]_vars
    PROVE  \/ \E ev \in Events : Emits(ev)
           \/ StoreInput \/ SendInput \/ Stores \/ Trims \/ ChildRow
           \/ \E e \in Entries : Takes(e)
           \/ Quiet /\ (buffer' = buffer \/ SendSnapshot)
BY CoreWays, ConsumerWays, QuietWays DEF Next

LEMMA ShapeInit == Init => ShapeInv
BY DEF Init, ShapeInv, Shaped, EmptyBuffer

LEMMA ShapeStep ==
    ASSUME TypeInv, ShapeInv, [Next]_vars
    PROVE  ShapeInv'
<1>1. out \in Seq(Events) /\ inbox \in Seq(Events) /\ buffer \in Buffers
  BY DEF TypeInv, ChannelTyped, BufferTyped
<1>2. ASSUME \A part \in Parts : buffer'[part] \subseteq buffer[part]
      PROVE  Shaped(buffer')
  <2>1. /\ buffer'.prefix \subseteq buffer.prefix /\ buffer'.run \subseteq buffer.run /\ buffer'.tail \subseteq buffer.tail
        /\ buffer'.compact \subseteq buffer.compact /\ buffer'.child \subseteq buffer.child
    BY <1>2 DEF Parts
  <2>2. QED
    BY <2>1 DEF ShapeInv, Shaped
<1>3. CASE \E ev \in Events : Emits(ev)
  <2>1. PICK ev \in Events : Emits(ev)
    BY <1>3
  <2>2. \A k \in 1..Len(out') : Shape(out'[k]) /\ out'[k].kind # "user_message_injected"
    BY <1>1, <2>1, AppendFacts DEF Emits, ShapeInv
  <2>3. QED
    BY <2>1, <2>2 DEF Emits, ShapeInv
<1>4. CASE StoreInput \/ Stores \/ ChildRow
  BY <1>4 DEF StoreInput, Stores, StoreContext, StoreDisplay, ChildRow, ShapeInv
<1>5. CASE SendInput
  <2> DEFINE ev == Event("user_message_injected", {Input(input.stored)})
  <2>1. input.stored \in 1..MaxInputs
    BY <1>5, BoundFacts DEF SendInput, TypeInv, InputTyped
  <2>2. Shape(ev) /\ ev \in Events
    BY <2>1, BlockFacts, KindFacts, EventFacts DEF Shape, Cuts, ChildKinds, Event, Events
  <2>3. inbox' = Append(inbox, ev) /\ out' = out /\ buffer' = buffer
    BY <1>5 DEF SendInput
  <2> HIDE DEF ev
  <2>4. \A k \in 1..Len(inbox') : Shape(inbox'[k])
    BY <1>1, <2>2, <2>3, AppendFacts DEF ShapeInv
  <2>5. QED
    BY <2>3, <2>4 DEF ShapeInv
<1>6. CASE Trims
  BY <1>2, <1>6, TrimStepTyped DEF ShapeInv
<1>7. CASE \E e \in Entries : Takes(e)
  <2>1. PICK e \in Entries : Takes(e)
    BY <1>7
  <2>2. Shaped(buffer')
    BY <1>1, <2>1, RecordShaped DEF Takes, ShapeInv
  <2>3. \A k \in 1..Len(out') : Shape(out'[k]) /\ out'[k].kind # "user_message_injected"
    <3>1. CASE TakesOut(e)
      BY <1>1, <3>1, TailFacts DEF TakesOut, ShapeInv
    <3>2. CASE TakesInbox(e)
      BY <3>2 DEF TakesInbox, ShapeInv
    <3>3. QED
      BY <2>1, <3>1, <3>2 DEF Takes
  <2>4. \A k \in 1..Len(inbox') : Shape(inbox'[k])
    <3>1. CASE TakesOut(e)
      BY <3>1 DEF TakesOut, ShapeInv
    <3>2. CASE TakesInbox(e)
      BY <1>1, <3>2, TailFacts DEF TakesInbox, ShapeInv
    <3>3. QED
      BY <2>1, <3>1, <3>2 DEF Takes
  <2>5. QED
    BY <2>2, <2>3, <2>4 DEF ShapeInv
<1>8. CASE Quiet /\ (buffer' = buffer \/ SendSnapshot)
  <2>1. Shaped(buffer')
    BY <1>1, <1>2, <1>8, TrimEffect DEF SendSnapshot, ShapeInv
  <2>2. QED
    BY <1>8, <2>1 DEF Quiet, ShapeInv
<1>9. QED
  BY <1>3, <1>4, <1>5, <1>6, <1>7, <1>8, Ways

-----------------------------------------------------------------------------
(* Each block is emitted once.  Given(known, s, b, k): b is known, or in    *)
(* one of the events of s before the k-th.                                   *)
Given(known, s, b, k) == b \in known \/ \E j \in 1..Len(s) : j < k /\ b \in s[j].blocks

Emitted(b) ==
    \/ Given(told, out, b, Len(out) + 1)
    \/ \E i \in 1..Len(inbox) : b \in inbox[i].blocks

Issued(b) ==
    \/ b[1] = "text" /\ (b[2] < turn \/ (b[2] = turn /\ b[3] <= deltas))
    \/ b[1] = "use" /\ (b[2] < turn \/ (b[2] = turn /\ call # "none"))
    \/ b[1] = "result" /\ (b[2] < turn \/ (b[2] = turn /\ call = "done"))
    \/ b[1] = "input" /\ b[3] <= input.sent
    \/ b[1] = "summary" /\ stage = "compacted"

FreshInv ==
    /\ \A k \in 1..Len(out) : \A b \in Plain \cap out[k].blocks :
          Given(told, out, b, k) <=> out[k].kind = "pause_requested"
    /\ \A k \in 1..Len(inbox) : \A b \in Plain \cap inbox[k].blocks : ~Given(told, inbox, b, k)
    /\ \A k \in 1..Len(inbox) : inbox[k].kind = "user_message_injected"
    /\ \A b \in Plain : Emitted(b) => Issued(b)
    /\ call # "none" => turn > 0 /\ Given(told, out, Use(turn), Len(out) + 1)

LEMMA GivenAppend ==
    ASSUME NEW s \in Seq(Events), NEW ev \in Events, NEW known, NEW b
    PROVE  /\ \A k \in 1..(Len(s) + 1) : Given(known, Append(s, ev), b, k) <=> Given(known, s, b, k)
           /\ Given(known, Append(s, ev), b, Len(s) + 2) <=> Given(known, s, b, Len(s) + 1) \/ b \in ev.blocks
<1>1. Len(s) \in Nat
  OBVIOUS
<1>2. /\ Len(Append(s, ev)) = Len(s) + 1
      /\ \A j \in 1..Len(s) : Append(s, ev)[j] = s[j]
      /\ Append(s, ev)[Len(s) + 1] = ev
  BY AppendFacts
<1> DEFINE l == Append(s, ev)
<1> HIDE DEF l
<1>3. \A k \in 1..(Len(s) + 1), j \in 1..Len(l) : j < k => j \in 1..Len(s)
  BY <1>1, <1>2 DEF l
<1>4. \A j \in 1..Len(s) : j \in 1..Len(l) /\ j < Len(s) + 2 /\ j < Len(s) + 1 /\ l[j] = s[j]
  BY <1>1, <1>2 DEF l
<1>5. \A j \in 1..Len(l) : j \in 1..Len(s) \/ (j = Len(s) + 1 /\ l[j] = ev)
  BY <1>1, <1>2 DEF l
<1>6. Len(s) + 1 \in 1..Len(l) /\ Len(s) + 1 < Len(s) + 2 /\ l[Len(s) + 1] = ev
  BY <1>1, <1>2 DEF l
<1>7. \A k \in 1..(Len(s) + 1) : Given(known, l, b, k) <=> Given(known, s, b, k)
  BY <1>3, <1>4 DEF Given
<1>8. Given(known, l, b, Len(s) + 2) <=> Given(known, s, b, Len(s) + 1) \/ b \in ev.blocks
  BY <1>4, <1>5, <1>6 DEF Given
<1>9. QED
  BY <1>7, <1>8 DEF l

LEMMA GivenTail ==
    ASSUME NEW s \in Seq(Events), s # <<>>, NEW known, NEW known2, NEW b,
           b \in known2 <=> b \in known \/ b \in s[1].blocks
    PROVE  \A k \in 1..Len(s) : Given(known2, Tail(s), b, k) <=> Given(known, s, b, k + 1)
<1>1. /\ Len(s) \in Nat /\ Len(s) >= 1 /\ Len(Tail(s)) = Len(s) - 1
      /\ \A j \in 1..Len(Tail(s)) : Tail(s)[j] = s[j + 1]
  BY TailFacts
<1> DEFINE l == Tail(s)
<1> HIDE DEF l
<1>2. \A j \in 1..Len(l) : j + 1 \in 1..Len(s) /\ l[j] = s[j + 1]
  BY <1>1 DEF l
<1>3. \A j \in 1..Len(s) : j = 1 \/ (j - 1 \in 1..Len(l) /\ l[j - 1] = s[j])
  BY <1>1 DEF l
<1>4. \A k \in 1..Len(s), j \in 1..Len(l) : j < k => j + 1 < k + 1
  BY <1>1 DEF l
<1>5. \A k \in 1..Len(s), j \in 1..Len(s) : j < k + 1 => j - 1 < k
  BY <1>1
<1>6. 1 \in 1..Len(s) /\ \A k \in 1..Len(s) : 1 < k + 1
  BY <1>1
<1>7. ASSUME NEW k \in 1..Len(s), Given(known2, l, b, k) PROVE Given(known, s, b, k + 1)
  BY <1>2, <1>4, <1>6, <1>7 DEF Given
<1>8. ASSUME NEW k \in 1..Len(s), Given(known, s, b, k + 1) PROVE Given(known2, l, b, k)
  BY <1>3, <1>5, <1>8 DEF Given
<1>9. QED
  BY <1>7, <1>8 DEF l

LEMMA EmitsGiven ==
    ASSUME TypeInv, NEW ev \in Events, Emits(ev), NEW b
    PROVE  /\ \A k \in 1..(Len(out) + 1) : Given(told', out', b, k) <=> Given(told, out, b, k)
           /\ Given(told', out', b, Len(out') + 1) <=> Given(told, out, b, Len(out) + 1) \/ b \in ev.blocks
           /\ Len(out') = Len(out) + 1 /\ out'[Len(out) + 1] = ev /\ \A k \in 1..Len(out) : out'[k] = out[k]
           /\ \A k \in 1..Len(out') : k \in 1..Len(out) \/ k = Len(out) + 1
<1>1. out \in Seq(Events) /\ out' = Append(out, ev) /\ told' = told /\ Len(out) \in Nat
  BY DEF TypeInv, ChannelTyped, Emits
<1>2. Len(out') = Len(out) + 1 /\ out'[Len(out) + 1] = ev /\ \A k \in 1..Len(out) : out'[k] = out[k]
  BY <1>1, AppendFacts
<1>3. Len(out') + 1 = Len(out) + 2
  BY <1>1, <1>2
<1>4. QED
  BY <1>1, <1>2, <1>3, GivenAppend

LEMMA TakesGiven ==
    ASSUME TypeInv, NEW e \in Entries, Takes(e), NEW b \in Plain
    PROVE  /\ TakesOut(e) =>
                /\ Len(out) \in Nat /\ Len(out) >= 1 /\ Len(out') = Len(out) - 1
                /\ \A k \in 1..Len(out') : out'[k] = out[k + 1] /\ k + 1 \in 1..Len(out)
                /\ \A k \in 1..Len(out) : Given(told', out', b, k) <=> Given(told, out, b, k + 1)
                /\ \A k : Given(told', inbox, b, k) <=> Given(told, inbox, b, k) \/ b \in e.blocks
           /\ TakesInbox(e) =>
                /\ Len(inbox) \in Nat /\ Len(inbox) >= 1 /\ Len(inbox') = Len(inbox) - 1
                /\ \A k \in 1..Len(inbox') : inbox'[k] = inbox[k + 1] /\ k + 1 \in 1..Len(inbox)
                /\ \A k \in 1..Len(inbox) : Given(told', inbox', b, k) <=> Given(told, inbox, b, k + 1)
                /\ \A k : Given(told', out, b, k) <=> Given(told, out, b, k) \/ b \in e.blocks
<1>1. out \in Seq(Events) /\ inbox \in Seq(Events)
  BY DEF TypeInv, ChannelTyped
<1>2. b \in told' <=> b \in told \/ b \in e.blocks
  BY DEF Takes
<1>3. /\ \A k : Given(told', inbox, b, k) <=> Given(told, inbox, b, k) \/ b \in e.blocks
      /\ \A k : Given(told', out, b, k) <=> Given(told, out, b, k) \/ b \in e.blocks
  BY <1>2 DEF Given
<1>4. CASE TakesOut(e)
  <2>1. out # <<>> /\ out' = Tail(out) /\ e.blocks = out[1].blocks /\ (TakesInbox(e) => inbox' # inbox)
    BY <1>1, <1>4, TailFacts DEF TakesOut, TakesInbox
  <2>2. \A k \in 1..Len(out) : Given(told', out', b, k) <=> Given(told, out, b, k + 1)
    BY <1>1, <1>2, <2>1, GivenTail
  <2>3. ~TakesInbox(e)
    BY <1>4, <2>1 DEF TakesOut
  <2>4. /\ Len(out) \in Nat /\ Len(out) >= 1 /\ Len(out') = Len(out) - 1
        /\ \A k \in 1..Len(out') : out'[k] = out[k + 1] /\ k + 1 \in 1..Len(out)
    BY <1>1, <2>1, TailFacts
  <2>5. QED
    BY <1>3, <2>2, <2>3, <2>4
<1>5. CASE ~TakesOut(e) /\ TakesInbox(e)
  <2>1. inbox # <<>> /\ inbox' = Tail(inbox) /\ e.blocks = inbox[1].blocks
    BY <1>5 DEF TakesInbox
  <2>2. \A k \in 1..Len(inbox) : Given(told', inbox', b, k) <=> Given(told, inbox, b, k + 1)
    BY <1>1, <1>2, <2>1, GivenTail
  <2>3. /\ Len(inbox) \in Nat /\ Len(inbox) >= 1 /\ Len(inbox') = Len(inbox) - 1
        /\ \A k \in 1..Len(inbox') : inbox'[k] = inbox[k + 1] /\ k + 1 \in 1..Len(inbox)
    BY <1>1, <2>1, TailFacts
  <2>4. QED
    BY <1>3, <1>5, <2>2, <2>3
<1>6. QED
  BY <1>4, <1>5 DEF Takes

LEMMA NoInput ==
    ASSUME NEW e, Shape(e), e.kind \in Kinds, e.kind # "user_message_injected", NEW n
    PROVE  Input(n) \notin e.blocks
BY ChildIsNotPlain, KindFacts DEF Shape, Cuts, ChildKinds, Text, Use, Result, Input, Summary

LEMMA InboxInput ==
    ASSUME TypeInv, ShapeInv, FreshInv, NEW k \in 1..Len(inbox), NEW b \in inbox[k].blocks
    PROVE  \E n \in 1..MaxInputs : b = Input(n)
BY DEF ShapeInv, Shape, FreshInv

LEMMA IssuedKept ==
    ASSUME TypeInv, NEW ev \in Events, Emits(ev), NEW b \in Plain, Issued(b)
    PROVE  Issued(b)'
<1>1. turn \in Nat /\ deltas \in Nat
  BY BoundFacts DEF TypeInv, RunTyped
<1>2. (b[1] \in {"text", "use", "result"} => b[2] \in Nat) /\ (b[1] = "text" => b[3] \in Nat)
  BY PlainFacts, NamesDiffer, BoundFacts DEF Turns
<1>3. input' = input /\ RunStep(ev)
  BY DEF Emits
<1>4. QED
  BY <1>1, <1>2, <1>3 DEF RunStep, Issued

LEMMA IssuedNow ==
    ASSUME TypeInv, NEW ev \in Events, Emits(ev), NEW b \in Plain, b \in ev.blocks
    PROVE  Issued(b)' /\ (ev.kind # "pause_requested" => ~Issued(b))
<1>1. turn \in Nat /\ deltas \in Nat
  BY BoundFacts DEF TypeInv, RunTyped
<1>2. Shape(ev) /\ RunStep(ev) /\ input' = input
  BY DEF Emits
<1>3. ev.kind \notin ChildKinds /\ ~Cuts(ev) /\ ev.kind \notin {"compact_summary_started", "compact_summary_failed"}
  BY <1>2 DEF Shape, Plain
<1>4. CASE ev.kind = "text_delta"
  BY <1>1, <1>2, <1>4, NamesDiffer DEF RunStep, Issued, ChildKinds
<1>5. CASE ev.kind \in {"tool_use", "pause_requested"}
  BY <1>1, <1>2, <1>5, NamesDiffer DEF RunStep, Issued, ChildKinds
<1>6. CASE ev.kind = "tool_result"
  BY <1>1, <1>2, <1>6, NamesDiffer DEF RunStep, Issued, ChildKinds
<1>7. CASE ev.kind = "compact_summary_finished"
  <2>1. b = Summary /\ stage = "summary_trimmed" /\ stage' = "compacted"
    BY <1>2, <1>7 DEF RunStep, ChildKinds, Shape
  <2>2. QED
    BY <2>1, NamesDiffer DEF Issued
<1>8. QED
  BY <1>2, <1>3, <1>4, <1>5, <1>6, <1>7 DEF RunStep, Cuts

LEMMA FreshInit == Init => FreshInv
BY DEF Init, FreshInv, Given, Emitted

LEMMA FreshEmitted ==
    ASSUME TypeInv, FreshInv, NEW ev \in Events, Emits(ev)
    PROVE  FreshInv'
<1>1. told' = told /\ inbox' = inbox
  BY DEF Emits
<1>2. \A k \in 1..Len(out') : \A b \in Plain \cap out'[k].blocks :
         Given(told', out', b, k) <=> out'[k].kind = "pause_requested"
  <2> SUFFICES ASSUME NEW k \in 1..Len(out'), NEW b \in Plain, b \in out'[k].blocks
               PROVE  Given(told', out', b, k) <=> out'[k].kind = "pause_requested"
    OBVIOUS
  <2>1. CASE k \in 1..Len(out)
    BY <2>1, EmitsGiven DEF FreshInv
  <2>2. CASE k = Len(out) + 1
    <3>1. out'[k] = ev /\ b \in ev.blocks
      BY <2>2, EmitsGiven
    <3>2. Given(told', out', b, k) <=> Given(told, out, b, k)
      BY <2>2, EmitsGiven
    <3>3. CASE ev.kind = "pause_requested"
      <4>1. b = Use(turn) /\ call = "running"
        BY <3>1, <3>3 DEF Emits, RunStep, ChildKinds
      <4>2. QED
        BY <2>2, <3>1, <3>2, <3>3, <4>1 DEF FreshInv
    <3>4. CASE ev.kind # "pause_requested"
      <4>1. ~Issued(b)
        BY <3>1, <3>4, IssuedNow
      <4>2. QED
        BY <2>2, <3>1, <3>2, <3>4, <4>1 DEF FreshInv, Emitted
    <3>5. QED
      BY <3>3, <3>4
  <2>3. QED
    BY <2>1, <2>2, EmitsGiven
<1>3. ASSUME NEW b \in Plain, Emitted(b)' PROVE Issued(b)'
  <2>1. Emitted(b) \/ b \in ev.blocks
    BY <1>1, <1>3, EmitsGiven DEF Emitted
  <2>2. QED
    BY <2>1, IssuedKept, IssuedNow DEF FreshInv
<1>4. call' # "none" => turn' > 0 /\ Given(told', out', Use(turn'), Len(out') + 1)
  <2> SUFFICES ASSUME call' # "none" PROVE turn' > 0 /\ Given(told', out', Use(turn'), Len(out') + 1)
    OBVIOUS
  <2>1. turn' = turn /\ (call # "none" \/ (Use(turn) \in ev.blocks /\ stage = "stream"))
    BY DEF Emits, RunStep
  <2>2. turn > 0
    BY <2>1 DEF FreshInv, TypeInv, RunTyped
  <2>3. QED
    BY <2>1, <2>2, EmitsGiven DEF FreshInv
<1>5. QED
  BY <1>1, <1>2, <1>3, <1>4 DEF FreshInv

(* What is recorded had been emitted. *)
LEMMA TakesEmitted ==
    ASSUME TypeInv, NEW e \in Entries, Takes(e), NEW b \in Plain
    PROVE  (Emitted(b)' => Emitted(b)) /\ (b \in e.blocks => Emitted(b))
<1>1. out \in Seq(Events) /\ inbox \in Seq(Events)
  BY DEF TypeInv, ChannelTyped
<1>2. CASE TakesOut(e)
  <2>1. inbox' = inbox /\ Len(out') + 1 = Len(out) /\ Len(out) \in 1..Len(out) /\ 1 \in 1..Len(out) /\ 1 < Len(out) + 1
        /\ e.blocks = out[1].blocks
    BY <1>1, <1>2, TailFacts, TakesGiven DEF TakesOut
  <2>2. Given(told', out', b, Len(out') + 1) <=> Given(told, out, b, Len(out) + 1)
    BY <1>2, <2>1, TakesGiven
  <2>3. b \in e.blocks => Given(told, out, b, Len(out) + 1)
    BY <2>1 DEF Given
  <2>4. QED
    BY <2>1, <2>2, <2>3 DEF Emitted
<1>3. CASE TakesInbox(e)
  <2>1. out' = out /\ e.blocks = inbox[1].blocks /\ 1 \in 1..Len(inbox)
    BY <1>1, <1>3, TailFacts DEF TakesInbox
  <2>2. \A k \in 1..Len(inbox') : inbox'[k] = inbox[k + 1] /\ k + 1 \in 1..Len(inbox)
    BY <1>3, TakesGiven
  <2>3. Given(told', out, b, Len(out) + 1) <=> Given(told, out, b, Len(out) + 1) \/ b \in inbox[1].blocks
    BY <1>3, <2>1, TakesGiven
  <2>4. QED
    BY <2>1, <2>2, <2>3 DEF Emitted
<1>4. QED
  BY <1>2, <1>3 DEF Takes

LEMMA FreshTaken ==
    ASSUME TypeInv, ShapeInv, FreshInv, NEW e \in Entries, Takes(e)
    PROVE  FreshInv'
<1>1. /\ UNCHANGED <<turn, stage, deltas, call, input>>
      /\ \A b : Issued(b) => Issued(b)'
  BY DEF Takes, Issued
<1>2. out \in Seq(Events) /\ inbox \in Seq(Events) /\ \A ev \in Events : ev.kind \in Kinds
  BY DEF TypeInv, ChannelTyped, Events
<1>3. \A k \in 1..Len(out) : \A n : Input(n) \notin out[k].blocks
  <2>1. \A k \in 1..Len(out) : out[k].kind \in Kinds
    BY <1>2
  <2>2. QED
    BY <2>1, NoInput DEF ShapeInv
<1>4. call # "none" => Use(turn) \in Plain
  <2>1. call # "none" => turn \in Turns
    BY BoundFacts DEF FreshInv, TypeInv, RunTyped, Turns
  <2>2. QED
    BY <2>1, BlockFacts, ChildIsNotPlain DEF Plain
<1>5. CASE TakesOut(e)
  <2>1. inbox' = inbox /\ Len(out) >= 1 /\ e.blocks = out[1].blocks /\ Len(out) \in Nat
    BY <1>2, <1>5, TailFacts DEF TakesOut
  <2>2. \A k \in 1..Len(out') : \A b \in Plain \cap out'[k].blocks :
           Given(told', out', b, k) <=> out'[k].kind = "pause_requested"
    <3> SUFFICES ASSUME NEW k \in 1..Len(out'), NEW b \in Plain, b \in out'[k].blocks
                 PROVE  Given(told', out', b, k) <=> out'[k].kind = "pause_requested"
      OBVIOUS
    <3>1. out'[k] = out[k + 1] /\ k + 1 \in 1..Len(out) /\ k \in 1..Len(out)
      BY <1>2, <1>5, TakesGiven
    <3>2. Given(told', out', b, k) <=> Given(told, out, b, k + 1)
      BY <1>5, <3>1, TakesGiven
    <3>3. QED
      BY <3>1, <3>2 DEF FreshInv
  <2>3. \A k \in 1..Len(inbox) : \A b \in Plain \cap inbox[k].blocks : ~Given(told', inbox, b, k)
    <3> SUFFICES ASSUME NEW k \in 1..Len(inbox), NEW b \in Plain, b \in inbox[k].blocks
                 PROVE  ~Given(told', inbox, b, k)
      OBVIOUS
    <3>1. b \notin out[1].blocks
      BY <1>3, <2>1, InboxInput
    <3>2. Given(told', inbox, b, k) <=> Given(told, inbox, b, k) \/ b \in e.blocks
      BY <1>5, TakesGiven
    <3>3. QED
      BY <2>1, <3>1, <3>2 DEF FreshInv
  <2>4. \A b \in Plain : Given(told', out', b, Len(out') + 1) <=> Given(told, out, b, Len(out) + 1)
    <3> SUFFICES ASSUME NEW b \in Plain
                 PROVE  Given(told', out', b, Len(out') + 1) <=> Given(told, out, b, Len(out) + 1)
      OBVIOUS
    <3>1. Len(out') + 1 = Len(out) /\ Len(out) \in 1..Len(out)
      BY <1>5, <2>1, TakesGiven
    <3>2. QED
      BY <1>5, <3>1, TakesGiven
  <2>5. QED
    BY <1>1, <1>4, <2>1, <2>2, <2>3, <2>4, TakesEmitted DEF FreshInv
<1>6. CASE TakesInbox(e)
  <2>1. out' = out /\ e.blocks = inbox[1].blocks /\ 1 \in 1..Len(inbox)
    BY <1>2, <1>6, TailFacts DEF TakesInbox
  <2>2. \A k \in 1..Len(out) : \A b \in Plain \cap out[k].blocks :
           Given(told', out, b, k) <=> out[k].kind = "pause_requested"
    <3> SUFFICES ASSUME NEW k \in 1..Len(out), NEW b \in Plain, b \in out[k].blocks
                 PROVE  Given(told', out, b, k) <=> out[k].kind = "pause_requested"
      OBVIOUS
    <3>1. b \notin inbox[1].blocks
      BY <1>3, <2>1, InboxInput
    <3>2. Given(told', out, b, k) <=> Given(told, out, b, k) \/ b \in e.blocks
      BY <1>6, TakesGiven
    <3>3. QED
      BY <2>1, <3>1, <3>2 DEF FreshInv
  <2>3. \A k \in 1..Len(inbox') : inbox'[k] = inbox[k + 1] /\ k + 1 \in 1..Len(inbox) /\ k \in 1..Len(inbox)
    BY <1>2, <1>6, TailFacts DEF TakesInbox
  <2>4. \A k \in 1..Len(inbox') : \A b \in Plain \cap inbox'[k].blocks : ~Given(told', inbox', b, k)
    <3> SUFFICES ASSUME NEW k \in 1..Len(inbox'), NEW b \in Plain, b \in inbox'[k].blocks
                 PROVE  ~Given(told', inbox', b, k)
      OBVIOUS
    <3>1. Given(told', inbox', b, k) <=> Given(told, inbox, b, k + 1)
      BY <1>6, <2>3, TakesGiven
    <3>2. QED
      BY <2>3, <3>1 DEF FreshInv
  <2>5. \A b \in Plain : Given(told', out, b, Len(out) + 1) <=> Given(told, out, b, Len(out) + 1) \/ b \in inbox[1].blocks
    BY <1>6, <2>1, TakesGiven
  <2>6. call # "none" => Given(told', out, Use(turn), Len(out) + 1)
    BY <1>4, <2>5 DEF FreshInv
  <2>7. \A k \in 1..Len(inbox') : inbox'[k].kind = "user_message_injected"
    BY <2>3 DEF FreshInv
  <2>8. \A b \in Plain : Emitted(b)' => Issued(b)'
    BY <1>1, TakesEmitted DEF FreshInv
  <2>9. QED
    BY <1>1, <2>1, <2>2, <2>4, <2>6, <2>7, <2>8 DEF FreshInv
<1>7. QED
  BY <1>5, <1>6 DEF Takes

LEMMA FreshSent ==
    ASSUME TypeInv, FreshInv, SendInput
    PROVE  FreshInv'
<1> DEFINE ev == Event("user_message_injected", {Input(input.stored)})
<1>1. /\ UNCHANGED <<turn, stage, deltas, call, out, told>>
      /\ inbox' = Append(inbox, ev)
      /\ input' = [input EXCEPT !.sent = @ + 1] /\ input.sent < input.stored
  BY DEF SendInput, coreVars
<1>2. /\ input \in [stored : 0..MaxInputs, sent : 0..MaxInputs] /\ input.stored <= input.sent + 1 /\ MaxInputs \in Nat
  BY BoundFacts DEF TypeInv, InputTyped
<1>3. /\ input'.sent = input.sent + 1 /\ input.stored = input.sent + 1 /\ input.sent \in Nat
      /\ input'.stored = input.stored
  BY <1>1, <1>2
<1>4. ev.kind = "user_message_injected" /\ ev.blocks = {Input(input.stored)} /\ ev \in Events
  <2>1. input.stored \in 1..MaxInputs
    BY <1>2, <1>3
  <2>2. QED
    BY <2>1, BlockFacts, KindFacts DEF Event, Events
<1> HIDE DEF ev
<1>5. inbox \in Seq(Events) /\ Len(inbox) \in Nat
  BY DEF TypeInv, ChannelTyped
<1>6. /\ Len(inbox') = Len(inbox) + 1 /\ inbox'[Len(inbox) + 1] = ev
      /\ \A k \in 1..Len(inbox) : inbox'[k] = inbox[k]
  BY <1>1, <1>4, <1>5, AppendFacts
<1>7. \A k \in 1..Len(inbox') : k \in 1..Len(inbox) \/ k = Len(inbox) + 1
  BY <1>5, <1>6
<1>8. \A b : \A k \in 1..(Len(inbox) + 1) : Given(told, inbox', b, k) <=> Given(told, inbox, b, k)
  BY <1>1, <1>4, <1>5, GivenAppend
<1>9. \A b \in Plain : Issued(b) => Issued(b)'
  <2>1. ASSUME NEW b \in Plain, b[1] = "input" PROVE b[3] \in Nat
    BY <2>1, PlainFacts, NamesDiffer, BoundFacts
  <2>2. QED
    BY <1>1, <1>3, <2>1 DEF Issued
<1>10. ~Issued(Input(input.stored)) /\ Issued(Input(input.stored))'
  <2>1. ~Issued(Input(input.stored))
    BY <1>3, NamesDiffer DEF Issued
  <2>2. input.stored <= input'.sent
    BY <1>3
  <2>3. QED
    BY <1>1, <1>3, <2>1, <2>2, NamesDiffer DEF Issued
<1>11. \A k \in 1..Len(inbox') : \A b \in Plain \cap inbox'[k].blocks : ~Given(told', inbox', b, k)
  <2> SUFFICES ASSUME NEW k \in 1..Len(inbox'), NEW b \in Plain, b \in inbox'[k].blocks
               PROVE  ~Given(told, inbox', b, k)
    BY <1>1
  <2>1. CASE k \in 1..Len(inbox)
    BY <1>5, <1>6, <1>8, <2>1 DEF FreshInv
  <2>2. CASE k = Len(inbox) + 1
    <3>1. b = Input(input.stored)
      BY <1>4, <1>6, <2>2
    <3>2. ~Emitted(b)
      BY <1>10, <3>1 DEF FreshInv
    <3>3. ~Given(told, inbox, b, k)
      BY <3>2 DEF Emitted, Given
    <3>4. QED
      BY <1>5, <1>8, <2>2, <3>3
  <2>3. QED
    BY <1>7, <2>1, <2>2
<1>12. \A b \in Plain : Emitted(b)' => Emitted(b) \/ b = Input(input.stored)
  BY <1>1, <1>4, <1>6, <1>7 DEF Emitted
<1>13. \A b \in Plain : Emitted(b)' => Issued(b)'
  BY <1>3, <1>9, <1>10, <1>12 DEF FreshInv
<1>14. \A k \in 1..Len(inbox') : inbox'[k].kind = "user_message_injected"
  BY <1>4, <1>6, <1>7 DEF FreshInv
<1>15. QED
  BY <1>1, <1>11, <1>13, <1>14 DEF FreshInv

LEMMA FreshStep ==
    ASSUME TypeInv, ShapeInv, FreshInv, [Next]_vars
    PROVE  FreshInv'
<1>1. CASE \E ev \in Events : Emits(ev)
  BY <1>1, FreshEmitted
<1>2. CASE SendInput
  BY <1>2, FreshSent
<1>3. CASE \E e \in Entries : Takes(e)
  BY <1>3, FreshTaken
<1>4. CASE StoreInput \/ Stores \/ Trims \/ ChildRow \/ Quiet
  <2>1. /\ UNCHANGED <<turn, deltas, call, out, inbox, told>>
        /\ stage = "compacted" => stage' = "compacted"
        /\ input'.sent = input.sent
    <3>1. input \in [stored : 0..MaxInputs, sent : 0..MaxInputs]
      BY DEF TypeInv, InputTyped
    <3>2. CASE StoreInput
      BY <3>1, <3>2 DEF StoreInput, coreVars
    <3>3. CASE Stores
      BY <3>3 DEF Stores, StoreContext, StoreDisplay
    <3>4. CASE Trims
      BY <3>4 DEF Trims, TrimPersisted, TrimCompact
    <3>5. CASE ChildRow \/ Quiet
      BY <3>5 DEF ChildRow, Quiet, coreVars
    <3>6. QED
      BY <1>4, <3>2, <3>3, <3>4, <3>5
  <2>2. \A b : (Emitted(b)' <=> Emitted(b)) /\ (Issued(b) => Issued(b)')
    BY <2>1 DEF Emitted, Issued
  <2>3. QED
    BY <2>1, <2>2 DEF FreshInv
<1>5. QED
  BY <1>1, <1>2, <1>3, <1>4, Ways

-----------------------------------------------------------------------------
(* Rows.  What was emitted and is not stored yet belongs to the turn that is *)
(* under way; a message is in the context before it is in the display; and   *)
(* what an event that cuts the buffer can cut off is stored.                  *)
Unstored(b) ==
    \/ stage \in {"stream", "llm"} /\ b \in Message
    \/ stage \in {"stream", "llm", "ui", "stored", "results"} /\ call = "done" /\ b = Result(turn)

RowsInv ==
    /\ \A b \in rows.ui : b[1] \in {"text", "use"} => b[2] < turn \/ (b[2] = turn /\ stage \notin {"stream", "llm"})
    /\ stage = "llm" => Message \in rows.llm
    /\ stage = "results" => {Result(turn)} \in rows.llm
    /\ \A t \in Turns : rows.ui \cap Stream(t) # {} => rows.ui \cap Stream(t) \in rows.llm
    /\ \A t \in Turns : Result(t) \in rows.ui => {Result(t)} \in rows.llm
    /\ stage \in {"summary_row", "summary_trimmed", "compacted"} => Summary \in rows.ui
    /\ \A n \in 1..input.stored : Input(n) \in rows.ui

StoredInv ==
    /\ \A b \in Plain : Emitted(b) => b \in rows.ui \/ Unstored(b)
    /\ \A k \in 1..Len(out) : Cuts(out[k]) => \A b \in Plain : Given(told, out, b, k) => b \in rows.ui

LEMMA StreamFacts ==
    ASSUME NEW t \in Turns, NEW b
    PROVE  /\ b \in Stream(t) => b \in Plain /\ b[1] \in {"text", "use"} /\ b[2] = t
           /\ b \in Plain /\ b[1] \in {"text", "use"} /\ b[2] = t => b \in Stream(t)
<1>1. ASSUME b \in Stream(t) PROVE b \in Plain /\ b[1] \in {"text", "use"} /\ b[2] = t
  <2>1. CASE b = Use(t)
    BY <2>1, BlockFacts, ChildIsNotPlain, NamesDiffer DEF Plain
  <2>2. CASE \E n \in 1..MaxDeltas : b = Text(t, n)
    <3>1. PICK n \in 1..MaxDeltas : b = Text(t, n)
      BY <2>2
    <3>2. Text(t, n) \in Blocks
      BY BlockFacts
    <3>3. QED
      BY <3>1, <3>2, ChildIsNotPlain, NamesDiffer DEF Plain
  <2>3. QED
    BY <1>1, <2>1, <2>2 DEF Stream
<1>2. ASSUME b \in Plain, b[1] \in {"text", "use"}, b[2] = t PROVE b \in Stream(t)
  BY <1>2, PlainFacts, NamesDiffer DEF Stream
<1>3. QED
  BY <1>1, <1>2

LEMMA MessageFacts ==
    ASSUME TypeInv
    PROVE  /\ \A b \in Message : b[1] \in {"text", "use"} /\ b[2] = turn
           /\ turn > 0 => turn \in Turns /\ Message \subseteq Stream(turn)
<1>1. \A b \in Message : b[1] \in {"text", "use"} /\ b[2] = turn
  BY NamesDiffer DEF Message
<1>2. turn \in 0..MaxTurns /\ deltas \in 0..MaxDeltas /\ MaxTurns \in Nat /\ MaxDeltas \in Nat
  BY BoundFacts DEF TypeInv, RunTyped
<1>3. ASSUME turn > 0 PROVE turn \in Turns /\ Message \subseteq Stream(turn)
  <2>1. \A n \in 1..deltas : n \in 1..MaxDeltas
    BY <1>2
  <2>2. QED
    BY <1>2, <1>3, <2>1 DEF Message, Stream, Turns
<1>4. QED
  BY <1>1, <1>3

(* An event that cuts the buffer is emitted when everything is stored. *)
LEMMA CutsAfterStore ==
    ASSUME NEW ev, Emits(ev), Cuts(ev), NEW b
    PROVE  ~Unstored(b)
BY DEF Emits, RunStep, Cuts, Unstored, Message, ChildKinds

LEMMA UnstoredKept ==
    ASSUME TypeInv, NEW ev \in Events, Emits(ev), NEW b, Unstored(b)
    PROVE  Unstored(b)'
<1>1. deltas \in Nat
  BY BoundFacts DEF TypeInv, RunTyped
<1>2. ~Cuts(ev)
  BY CutsAfterStore
<1>3. CASE ev.kind = "text_delta"
  <2>1. call' = "none" /\ call = "none" /\ deltas' = deltas + 1 /\ turn' = turn /\ stage' = stage
    BY <1>3 DEF Emits, RunStep, ChildKinds
  <2>2. \A n \in 1..deltas : n \in 1..deltas'
    BY <1>1, <2>1
  <2>3. QED
    BY <2>1, <2>2 DEF Unstored, Message
<1>4. CASE ev.kind # "text_delta"
  BY <1>2, <1>4 DEF Emits, RunStep, Cuts, Unstored, Message, ChildKinds
<1>5. QED
  BY <1>3, <1>4

LEMMA RowsInit == Init => RowsInv /\ StoredInv
<1> SUFFICES ASSUME Init PROVE RowsInv /\ StoredInv
  OBVIOUS
<1>1. StoredInv
  BY DEF Init, StoredInv, Given, Emitted
<1>2. RowsInv
  <2>1. rows.ui = {} /\ stage = "idle" /\ input.stored = 0 /\ \A n \in 1..0 : FALSE
    BY DEF Init
  <2>2. QED
    BY <2>1 DEF RowsInv
<1>3. QED
  BY <1>1, <1>2

LEMMA RowTurn ==
    ASSUME TypeInv, NEW b \in rows.ui, b[1] \in {"text", "use"}
    PROVE  b \in Plain /\ b[2] \in Turns /\ b[2] \in Nat
<1>1. b \in Blocks
  BY DEF TypeInv, RowsTyped
<1>2. b \in Plain
  BY <1>1 DEF Plain, ChildBlocks, ChildText
<1>3. QED
  BY <1>2, PlainFacts, NamesDiffer, BoundFacts DEF Turns

LEMMA RowsEmitted ==
    ASSUME TypeInv, FreshInv, RowsInv, StoredInv, NEW ev \in Events, Emits(ev)
    PROVE  RowsInv' /\ StoredInv'
<1>1. /\ rows' = rows /\ inbox' = inbox /\ told' = told /\ input' = input /\ RunStep(ev)
      /\ turn \in Nat /\ turn \in 0..MaxTurns
  BY BoundFacts DEF Emits, TypeInv, RunTyped
<1>2. ASSUME NEW b \in Plain, Emitted(b)' PROVE b \in rows.ui \/ Unstored(b)'
  <2>1. Emitted(b) \/ b \in ev.blocks
    BY <1>1, <1>2, EmitsGiven DEF Emitted
  <2>2. CASE Emitted(b)
    BY <2>2, UnstoredKept DEF StoredInv
  <2>3. CASE b \in ev.blocks /\ ~Emitted(b)
    <3>1. ev.kind \in {"text_delta", "tool_use", "tool_result", "compact_summary_finished"}
      <4>1. ev.kind \notin ChildKinds /\ ~Cuts(ev)
            /\ ev.kind \notin {"compact_summary_started", "compact_summary_failed"}
        BY <2>3 DEF Emits, Shape, Plain
      <4>2. CASE ev.kind = "pause_requested"
        <5>1. b = Use(turn) /\ call = "running"
          BY <2>3, <4>1, <4>2 DEF Emits, RunStep
        <5>2. QED
          BY <2>3, <5>1 DEF FreshInv, Emitted
      <4>3. QED
        BY <1>1, <4>1, <4>2 DEF RunStep, Cuts
    <3>2. CASE ev.kind = "text_delta"
      <4>1. /\ b = Text(turn, deltas + 1) /\ stage' = "stream" /\ turn' = turn /\ deltas' = deltas + 1
            /\ deltas \in Nat
        BY <1>1, <2>3, <3>2, BoundFacts DEF RunStep, ChildKinds, TypeInv, RunTyped
      <4>2. deltas' \in 1..deltas'
        BY <4>1
      <4>3. QED
        BY <4>1, <4>2 DEF Unstored, Message
    <3>3. CASE ev.kind = "tool_use"
      BY <1>1, <2>3, <3>3 DEF RunStep, ChildKinds, Unstored, Message
    <3>4. CASE ev.kind = "tool_result"
      BY <1>1, <2>3, <3>4 DEF RunStep, ChildKinds, Unstored, Writing
    <3>5. CASE ev.kind = "compact_summary_finished"
      BY <1>1, <2>3, <3>5 DEF RunStep, ChildKinds, Emits, Shape, RowsInv
    <3>6. QED
      BY <3>1, <3>2, <3>3, <3>4, <3>5
  <2>4. QED
    BY <2>1, <2>2, <2>3
<1>3. ASSUME NEW k \in 1..Len(out'), Cuts(out'[k]), NEW b \in Plain, Given(told', out', b, k)
      PROVE  b \in rows.ui
  <2>1. CASE k \in 1..Len(out)
    BY <1>3, <2>1, EmitsGiven DEF StoredInv
  <2>2. CASE k = Len(out) + 1
    <3>1. Cuts(ev) /\ Given(told, out, b, Len(out) + 1)
      BY <1>3, <2>2, EmitsGiven
    <3>2. QED
      BY <3>1, CutsAfterStore DEF StoredInv, Emitted
  <2>3. QED
    BY <2>1, <2>2, EmitsGiven
<1>4. \A b \in rows.ui : b[1] \in {"text", "use"} => b[2] < turn' \/ (b[2] = turn' /\ stage' \notin {"stream", "llm"})
  <2>1. \A b \in rows.ui : b[1] \in {"text", "use"} => b[2] \in Nat
    BY RowTurn
  <2>2. QED
    BY <1>1, <2>1 DEF RowsInv, RunStep
<1>5. /\ stage' = "llm" => Message' \in rows.llm
      /\ stage' = "results" => {Result(turn')} \in rows.llm
  <2>1. ASSUME stage' \in {"llm", "results"} PROVE stage = stage' /\ turn' = turn /\ Message' = Message
    BY <1>1, <2>1 DEF RunStep, Message
  <2>2. QED
    BY <2>1 DEF RowsInv
<1>6. stage' \in {"summary_row", "summary_trimmed", "compacted"} => Summary \in rows.ui
  BY <1>1 DEF RowsInv, RunStep
<1>7. StoredInv'
  BY <1>1, <1>2, <1>3 DEF StoredInv
<1>8. RowsInv'
  BY <1>1, <1>4, <1>5, <1>6 DEF RowsInv
<1>9. QED
  BY <1>7, <1>8

(* The writes of the core's sinks. *)
LEMMA RowsStored ==
    ASSUME TypeInv, RowsInv, StoredInv, Stores
    PROVE  RowsInv' /\ StoredInv'
<1> rows \in [ui : SUBSET Blocks, llm : SUBSET SUBSET Blocks, child : SUBSET ChildBlocks]
  BY DEF TypeInv, RowsTyped
<1>1. /\ UNCHANGED <<turn, deltas, call, input, out, inbox, told>>
      /\ Message' = Message
  BY DEF Stores, StoreContext, StoreDisplay, Message
<1>2. \A b : Emitted(b)' <=> Emitted(b)
  BY <1>1 DEF Emitted
<1>3. turn > 0 /\ turn \in Turns /\ Message \subseteq Stream(turn)
  BY MessageFacts DEF TypeInv, RunTyped, Stores, StoreContext, StoreDisplay
<1>4. \A t \in Turns : t # turn => Message \cap Stream(t) = {}
  BY <1>3, StreamFacts, MessageFacts
<1>5. \A t \in Turns : Result(turn) \notin Stream(t) /\ Summary \notin Stream(t) /\ \A b \in Message : b # Result(t)
  BY StreamFacts, NamesDiffer, MessageFacts
<1>6. ASSUME rows.ui \subseteq rows'.ui, \A b \in Plain : Unstored(b) => b \in rows'.ui \/ Unstored(b)'
      PROVE  StoredInv'
  <2>1. \A b \in Plain : Emitted(b)' => b \in rows'.ui \/ Unstored(b)'
    BY <1>2, <1>6 DEF StoredInv
  <2>2. \A k \in 1..Len(out) : Cuts(out[k]) => \A b \in Plain : Given(told, out, b, k) => b \in rows'.ui
    BY <1>6 DEF StoredInv
  <2>3. QED
    BY <1>1, <2>1, <2>2 DEF StoredInv
<1>7. CASE StoreContext("stream", "llm", Message)
  <2>1. rows'.ui = rows.ui /\ rows'.llm = rows.llm \cup {Message} /\ stage = "stream" /\ stage' = "llm"
    BY <1>7 DEF StoreContext
  <2>2. RowsInv'
    BY <1>1, <2>1 DEF RowsInv
  <2>3. \A b : Unstored(b) => Unstored(b)'
    BY <1>1, <2>1 DEF Unstored
  <2>4. QED
    BY <1>6, <2>1, <2>2, <2>3
<1>8. CASE StoreDisplay("llm", "ui", Message)
  <2>1. rows'.ui = rows.ui \cup Message /\ rows'.llm = rows.llm /\ stage = "llm" /\ stage' = "ui"
    BY <1>8 DEF StoreDisplay
  <2>2. \A t \in Turns : rows'.ui \cap Stream(t) # {} => rows'.ui \cap Stream(t) \in rows.llm
    <3> SUFFICES ASSUME NEW t \in Turns, rows'.ui \cap Stream(t) # {} PROVE rows'.ui \cap Stream(t) \in rows.llm
      OBVIOUS
    <3>1. CASE t = turn
      <4>1. rows.ui \cap Stream(turn) = {}
        BY <1>3, <2>1, StreamFacts DEF RowsInv, Turns
      <4>2. rows'.ui \cap Stream(turn) = Message
        BY <1>3, <2>1, <4>1
      <4>3. QED
        BY <2>1, <3>1, <4>2 DEF RowsInv
    <3>2. CASE t # turn
      <4>1. rows'.ui \cap Stream(t) = rows.ui \cap Stream(t)
        BY <1>4, <2>1, <3>2
      <4>2. QED
        BY <4>1 DEF RowsInv
    <3>3. QED
      BY <3>1, <3>2
  <2>3. \A t \in Turns : Result(t) \in rows'.ui => {Result(t)} \in rows.llm
    BY <1>5, <2>1 DEF RowsInv
  <2>4. \A b \in rows'.ui : b[1] \in {"text", "use"} => b[2] < turn \/ b[2] = turn
    BY <2>1, MessageFacts DEF RowsInv
  <2>5. RowsInv'
    BY <1>1, <2>1, <2>2, <2>3, <2>4 DEF RowsInv
  <2>6. \A b : Unstored(b) => b \in rows'.ui \/ Unstored(b)'
    BY <1>1, <2>1 DEF Unstored
  <2>7. QED
    BY <1>6, <2>1, <2>5, <2>6
<1>9. CASE call = "done" /\ StoreContext("stored", "results", {Result(turn)})
  <2>1. rows'.ui = rows.ui /\ rows'.llm = rows.llm \cup {{Result(turn)}} /\ stage = "stored" /\ stage' = "results"
    BY <1>9 DEF StoreContext
  <2>2. RowsInv'
    BY <1>1, <2>1 DEF RowsInv
  <2>3. \A b : Unstored(b) => Unstored(b)'
    BY <1>1, <2>1 DEF Unstored
  <2>4. QED
    BY <1>6, <2>1, <2>2, <2>3
<1>10. CASE call = "done" /\ StoreDisplay("results", "results_ui", {Result(turn)})
  <2>1. rows'.ui = rows.ui \cup {Result(turn)} /\ rows'.llm = rows.llm /\ stage = "results" /\ stage' = "results_ui"
    BY <1>10 DEF StoreDisplay
  <2>2. \A t \in Turns : rows'.ui \cap Stream(t) = rows.ui \cap Stream(t)
    BY <1>5, <2>1
  <2>3. \A t \in Turns : Result(t) \in rows'.ui => {Result(t)} \in rows.llm
    <3>1. \A t \in Turns : Result(t) = Result(turn) => t = turn
      BY NamesDiffer
    <3>2. QED
      BY <2>1, <3>1 DEF RowsInv
  <2>4. \A b \in rows'.ui : b[1] \in {"text", "use"} => b \in rows.ui
    BY <2>1, NamesDiffer
  <2>5. RowsInv'
    BY <1>1, <2>1, <2>2, <2>3, <2>4 DEF RowsInv
  <2>6. \A b : Unstored(b) => b \in rows'.ui \/ Unstored(b)'
    BY <1>1, <2>1 DEF Unstored
  <2>7. QED
    BY <1>6, <2>1, <2>5, <2>6
<1>11. CASE StoreDisplay("compacting", "summary_row", {Summary})
  <2>1. rows'.ui = rows.ui \cup {Summary} /\ rows'.llm = rows.llm /\ stage = "compacting" /\ stage' = "summary_row"
    BY <1>11 DEF StoreDisplay
  <2>2. \A t \in Turns : rows'.ui \cap Stream(t) = rows.ui \cap Stream(t)
    BY <1>5, <2>1
  <2>3. \A t \in Turns : Result(t) # Summary
    BY NamesDiffer
  <2>4. \A b \in rows'.ui : b[1] \in {"text", "use"} => b \in rows.ui
    BY <2>1, NamesDiffer
  <2>5. RowsInv'
    BY <1>1, <2>1, <2>2, <2>3, <2>4 DEF RowsInv
  <2>6. \A b : ~Unstored(b)
    BY <2>1 DEF Unstored
  <2>7. QED
    BY <1>6, <2>1, <2>5, <2>6
<1>12. QED
  BY <1>7, <1>8, <1>9, <1>10, <1>11 DEF Stores

LEMMA RowsStep ==
    ASSUME TypeInv, ShapeInv, FreshInv, RowsInv, StoredInv, [Next]_vars
    PROVE  RowsInv' /\ StoredInv'
<1> rows \in [ui : SUBSET Blocks, llm : SUBSET SUBSET Blocks, child : SUBSET ChildBlocks]
  BY DEF TypeInv, RowsTyped
<1>1. CASE \E ev \in Events : Emits(ev)
  BY <1>1, RowsEmitted
<1>2. CASE Stores
  BY <1>2, RowsStored
<1>3. CASE StoreInput
  <2>1. /\ UNCHANGED <<turn, stage, deltas, call, out, inbox, told>> /\ Message' = Message
        /\ rows'.ui = rows.ui \cup {Input(input.stored + 1)} /\ rows'.llm = rows.llm
        /\ input'.stored = input.stored + 1 /\ input.stored \in Nat
    BY <1>3, BoundFacts DEF StoreInput, coreVars, Message, TypeInv, InputTyped
  <2>2. \A b : (Emitted(b)' <=> Emitted(b)) /\ (Unstored(b)' <=> Unstored(b))
    BY <2>1 DEF Emitted, Unstored
  <2>3. \A t \in Turns : rows'.ui \cap Stream(t) = rows.ui \cap Stream(t) /\ (Result(t) \in rows'.ui <=> Result(t) \in rows.ui)
    BY <2>1, StreamFacts, NamesDiffer
  <2>4. \A b \in rows'.ui : b[1] \in {"text", "use"} => b \in rows.ui
    BY <2>1, NamesDiffer
  <2>5. \A n \in 1..input'.stored : n \in 1..input.stored \/ n = input.stored + 1
    BY <2>1
  <2>6. RowsInv'
    BY <2>1, <2>3, <2>4, <2>5 DEF RowsInv
  <2>7. StoredInv'
    BY <2>1, <2>2 DEF StoredInv
  <2>8. QED
    BY <2>6, <2>7
<1>4. CASE SendInput
  <2> DEFINE ev == Event("user_message_injected", {Input(input.stored)})
  <2>1. /\ UNCHANGED <<turn, stage, deltas, call, out, told, rows>> /\ Message' = Message
        /\ inbox' = Append(inbox, ev) /\ input'.stored = input.stored
        /\ input.stored \in Nat /\ input.stored > 0
    BY <1>4, BoundFacts DEF SendInput, coreVars, Message, TypeInv, InputTyped
  <2>2. inbox \in Seq(Events) /\ ev.blocks = {Input(input.stored)} /\ ev \in Events
    <3>1. input.stored \in 1..MaxInputs
      BY <1>4, BoundFacts DEF SendInput, TypeInv, InputTyped
    <3>2. QED
      BY <3>1, BlockFacts, KindFacts DEF Event, Events, TypeInv, ChannelTyped
  <2> HIDE DEF ev
  <2>3. /\ Len(inbox) \in Nat /\ Len(inbox') = Len(inbox) + 1 /\ inbox'[Len(inbox) + 1] = ev
        /\ \A k \in 1..Len(inbox) : inbox'[k] = inbox[k]
    BY <2>1, <2>2, AppendFacts
  <2>4. \A k \in 1..Len(inbox') : k \in 1..Len(inbox) \/ k = Len(inbox) + 1
    BY <2>3
  <2>5. \A b \in Plain : Emitted(b)' => Emitted(b) \/ b = Input(input.stored)
    BY <2>1, <2>2, <2>3, <2>4 DEF Emitted
  <2>6. Input(input.stored) \in rows.ui
    BY <2>1 DEF RowsInv
  <2>7. \A b : Unstored(b)' <=> Unstored(b)
    BY <2>1 DEF Unstored
  <2>8. StoredInv'
    BY <2>1, <2>5, <2>6, <2>7 DEF StoredInv
  <2>9. RowsInv'
    BY <2>1 DEF RowsInv
  <2>10. QED
    BY <2>8, <2>9
<1>5. CASE Trims
  <2>1. /\ UNCHANGED <<turn, deltas, call, input, rows, out, inbox, told>>
        /\ stage \in {"ui", "results_ui", "summary_row"}
        /\ stage = "ui" => stage' = "stored"
        /\ stage = "results_ui" => stage' = "settled"
        /\ stage = "summary_row" => stage' = "summary_trimmed"
    BY <1>5 DEF Trims, TrimPersisted, TrimCompact
  <2>2. \A b : (Emitted(b)' <=> Emitted(b)) /\ (Unstored(b) => Unstored(b)')
    BY <2>1 DEF Emitted, Unstored
  <2>3. StoredInv'
    BY <2>1, <2>2 DEF StoredInv
  <2>4. RowsInv'
    BY <2>1 DEF RowsInv
  <2>5. QED
    BY <2>3, <2>4
<1>6. CASE \E e \in Entries : Takes(e)
  <2>1. PICK e \in Entries : Takes(e)
    BY <1>6
  <2>2. UNCHANGED <<turn, stage, deltas, call, input, rows>> /\ Message' = Message
    BY <2>1 DEF Takes, Message
  <2>3. \A b \in Plain : (Emitted(b)' => Emitted(b)) /\ (b \in e.blocks => Emitted(b)) /\ (Unstored(b)' <=> Unstored(b))
    BY <2>1, <2>2, TakesEmitted DEF Unstored
  <2>4. ASSUME NEW k \in 1..Len(out'), Cuts(out'[k]), NEW b \in Plain, Given(told', out', b, k)
        PROVE  b \in rows.ui
    <3>1. CASE TakesOut(e)
      <4>1. out'[k] = out[k + 1] /\ k + 1 \in 1..Len(out) /\ k \in 1..Len(out)
        BY <2>1, <2>4, <3>1, TakesGiven
      <4>2. Given(told, out, b, k + 1)
        BY <2>1, <2>4, <3>1, <4>1, TakesGiven
      <4>3. QED
        BY <2>4, <4>1, <4>2 DEF StoredInv
    <3>2. CASE TakesInbox(e)
      <4>1. out' = out /\ (Given(told, out, b, k) \/ b \in e.blocks) /\ e.blocks = inbox[1].blocks /\ 1 \in 1..Len(inbox)
        BY <2>1, <2>4, <3>2, TakesGiven DEF TakesInbox
      <4>2. CASE b \in e.blocks
        <5>1. \E n \in 1..MaxInputs : b = Input(n)
          BY <4>1, <4>2, InboxInput
        <5>2. ~Unstored(b)
          BY <5>1, NamesDiffer, MessageFacts DEF Unstored
        <5>3. QED
          BY <2>3, <4>2, <5>2 DEF StoredInv
      <4>3. QED
        BY <2>4, <4>1, <4>2 DEF StoredInv
    <3>3. QED
      BY <2>1, <3>1, <3>2 DEF Takes
  <2>5. StoredInv'
    BY <2>2, <2>3, <2>4 DEF StoredInv
  <2>6. RowsInv'
    BY <2>2 DEF RowsInv
  <2>7. QED
    BY <2>5, <2>6
<1>7. CASE ChildRow \/ Quiet
  <2>1. UNCHANGED <<turn, stage, deltas, call, input, out, inbox, told>> /\ Message' = Message
        /\ rows'.ui = rows.ui /\ rows'.llm = rows.llm
    BY <1>7 DEF ChildRow, Quiet, coreVars, Message
  <2>2. \A b : (Emitted(b)' <=> Emitted(b)) /\ (Unstored(b) <=> Unstored(b)')
    BY <2>1 DEF Emitted, Unstored
  <2>3. StoredInv'
    BY <2>1, <2>2 DEF StoredInv
  <2>4. RowsInv'
    BY <2>1 DEF RowsInv
  <2>5. QED
    BY <2>3, <2>4
<1>8. QED
  BY <1>1, <1>2, <1>3, <1>4, <1>5, <1>6, <1>7, Ways

-----------------------------------------------------------------------------
(* A run is open at the k-th event of s.  The core emits the events of turns *)
(* while a run is open, so the buffer records them.                           *)
Opens(run, s, k) ==
    /\ run # {} \/ \E i \in 1..Len(s) : i < k /\ s[i].kind = "run_started"
    /\ \A i \in 1..Len(s) : i < k => s[i].kind # "run_finished"

OpenStages == Writing \cup {"started", "results", "results_ui", "settled", "ended"}

RunInv ==
    /\ \A k \in 1..Len(out) : out[k].kind \in TurnKinds \cup {"turn_started", "turn_ended"}
                              => Opens(buffer.run, out, k)
    /\ stage \in OpenStages => Opens(buffer.run, out, Len(out) + 1)
    /\ stage = "idle" => \A i \in 1..Len(out) : out[i].kind # "run_finished"

LEMMA OpensAppend ==
    ASSUME NEW s \in Seq(Events), NEW ev \in Events, NEW run
    PROVE  /\ \A k \in 1..(Len(s) + 1) : Opens(run, s, k) => Opens(run, Append(s, ev), k)
           /\ Opens(run, s, Len(s) + 1) /\ ev.kind # "run_finished" => Opens(run, Append(s, ev), Len(s) + 2)
           /\ (\A i \in 1..Len(s) : s[i].kind # "run_finished") /\ ev.kind = "run_started"
              => Opens(run, Append(s, ev), Len(s) + 2)
<1>1. /\ Len(Append(s, ev)) = Len(s) + 1
      /\ \A j \in 1..Len(s) : Append(s, ev)[j] = s[j]
      /\ Append(s, ev)[Len(s) + 1] = ev /\ Len(s) \in Nat
  BY AppendFacts
<1> DEFINE l == Append(s, ev)
<1> HIDE DEF l
<1>2. \A j \in 1..Len(l) : j \in 1..Len(s) \/ (j = Len(s) + 1 /\ l[j] = ev)
  BY <1>1 DEF l
<1>3. \A j \in 1..Len(s) : j \in 1..Len(l) /\ l[j] = s[j] /\ j < Len(s) + 1 /\ j < Len(s) + 2
  BY <1>1 DEF l
<1>4. Len(s) + 1 \in 1..Len(l) /\ l[Len(s) + 1] = ev /\ Len(s) + 1 < Len(s) + 2
  BY <1>1 DEF l
<1>5. \A k \in 1..(Len(s) + 1) : ~(Len(s) + 1 < k)
  BY <1>1
<1>6. \A k \in 1..(Len(s) + 1) : Opens(run, s, k) => Opens(run, l, k)
  BY <1>2, <1>3, <1>5 DEF Opens
<1>7. Opens(run, s, Len(s) + 1) /\ ev.kind # "run_finished" => Opens(run, l, Len(s) + 2)
  BY <1>2, <1>3 DEF Opens
<1>8. (\A i \in 1..Len(s) : s[i].kind # "run_finished") /\ ev.kind = "run_started" => Opens(run, l, Len(s) + 2)
  <2> SUFFICES ASSUME \A i \in 1..Len(s) : s[i].kind # "run_finished", ev.kind = "run_started"
               PROVE  Opens(run, l, Len(s) + 2)
    OBVIOUS
  <2>1. \A j \in 1..Len(l) : l[j].kind # "run_finished"
    BY <1>2, <1>3
  <2>2. \E j \in 1..Len(l) : j < Len(s) + 2 /\ l[j].kind = "run_started"
    BY <1>4
  <2>3. QED
    BY <2>1, <2>2 DEF Opens
<1>9. QED
  BY <1>6, <1>7, <1>8 DEF l

LEMMA OpensTail ==
    ASSUME NEW s \in Seq(Events), s # <<>>, NEW run, NEW run2,
           s[1].kind = "run_started" => run2 # {},
           s[1].kind \notin {"run_started", "run_finished"} => run2 = run
    PROVE  \A k \in 1..Len(s) : Opens(run, s, k + 1) => Opens(run2, Tail(s), k)
<1>1. /\ Len(s) \in Nat /\ Len(s) >= 1 /\ Len(Tail(s)) = Len(s) - 1
      /\ \A j \in 1..Len(Tail(s)) : Tail(s)[j] = s[j + 1]
  BY TailFacts
<1> DEFINE l == Tail(s)
<1> HIDE DEF l
<1>2. \A j \in 1..Len(l) : j + 1 \in 1..Len(s) /\ l[j] = s[j + 1]
  BY <1>1 DEF l
<1>3. \A j \in 1..Len(s) : j = 1 \/ (j - 1 \in 1..Len(l) /\ l[j - 1] = s[j])
  BY <1>1 DEF l
<1>4. \A k \in 1..Len(s), j \in 1..Len(l) : j < k => j + 1 < k + 1
  BY <1>1 DEF l
<1>5. \A k \in 1..Len(s), j \in 1..Len(s) : j < k + 1 => j - 1 < k
  BY <1>1
<1>6. 1 \in 1..Len(s) /\ \A k \in 1..Len(s) : 1 < k + 1
  BY <1>1
<1>7. ASSUME NEW k \in 1..Len(s), Opens(run, s, k + 1) PROVE Opens(run2, l, k)
  <2>1. \A i \in 1..Len(l) : i < k => l[i].kind # "run_finished"
    BY <1>2, <1>4, <1>7 DEF Opens
  <2>2. s[1].kind # "run_finished"
    BY <1>6, <1>7 DEF Opens
  <2>3. run2 # {} \/ \E i \in 1..Len(l) : i < k /\ l[i].kind = "run_started"
    <3>1. CASE s[1].kind = "run_started"
      BY <3>1
    <3>2. CASE s[1].kind # "run_started"
      <4>1. run2 = run
        BY <2>2, <3>2
      <4>2. \A i \in 1..Len(s) : i < k + 1 /\ s[i].kind = "run_started" =>
               i - 1 \in 1..Len(l) /\ i - 1 < k /\ l[i - 1].kind = "run_started"
        BY <1>3, <1>5, <3>2
      <4>3. QED
        BY <1>7, <4>1, <4>2 DEF Opens
    <3>3. QED
      BY <3>1, <3>2
  <2>4. QED
    BY <2>1, <2>3 DEF Opens
<1>8. QED
  BY <1>7 DEF l

(* The consumer takes an injection from the inbox and the rest from out. *)
LEMMA TakesFrom ==
    ASSUME TypeInv, ShapeInv, FreshInv, NEW e \in Entries, Takes(e)
    PROVE  /\ TakesInbox(e) => e.kind = "user_message_injected" /\ \E n \in 1..MaxInputs : e.blocks = {Input(n)}
           /\ TakesOut(e) => e.kind # "user_message_injected"
<1>1. out \in Seq(Events) /\ inbox \in Seq(Events)
  BY DEF TypeInv, ChannelTyped
<1>2. (out # <<>> => 1 \in 1..Len(out)) /\ (inbox # <<>> => 1 \in 1..Len(inbox))
  BY <1>1
<1>3. TakesInbox(e) => e.kind = "user_message_injected"
  BY <1>2 DEF TakesInbox, FreshInv
<1>4. QED
  BY <1>2, <1>3 DEF TakesOut, ShapeInv, Takes, Shape

LEMMA RunInit == Init => RunInv
<1> SUFFICES ASSUME Init PROVE RunInv
  OBVIOUS
<1>1. out = <<>> /\ stage = "idle" /\ Len(out) = 0
  BY DEF Init
<1>2. QED
  BY <1>1 DEF RunInv, OpenStages, Writing

LEMMA RunEmitted ==
    ASSUME TypeInv, RunInv, NEW ev \in Events, Emits(ev)
    PROVE  RunInv'
<1>1. out \in Seq(Events) /\ out' = Append(out, ev) /\ buffer' = buffer /\ RunStep(ev) /\ Len(out) \in Nat
  BY DEF TypeInv, ChannelTyped, Emits
<1>2. /\ Len(out') = Len(out) + 1 /\ out'[Len(out) + 1] = ev /\ \A k \in 1..Len(out) : out'[k] = out[k]
      /\ \A k \in 1..Len(out') : k \in 1..Len(out) \/ k = Len(out) + 1
      /\ Len(out') + 1 = Len(out) + 2
      /\ Len(out) + 1 \in 1..(Len(out) + 1) /\ \A k \in 1..Len(out) : k \in 1..(Len(out) + 1)
  BY <1>1, AppendFacts
<1>3. /\ \A k \in 1..(Len(out) + 1) : Opens(buffer.run, out, k) => Opens(buffer.run, out', k)
      /\ Opens(buffer.run, out, Len(out) + 1) /\ ev.kind # "run_finished" => Opens(buffer.run, out', Len(out) + 2)
      /\ (\A i \in 1..Len(out) : out[i].kind # "run_finished") /\ ev.kind = "run_started"
         => Opens(buffer.run, out', Len(out) + 2)
  BY <1>1, OpensAppend
<1>4. ev.kind \in TurnKinds \cup {"turn_started", "turn_ended"} => stage \in OpenStages
  BY <1>1 DEF RunStep, TurnKinds, Streamed, ChildKinds, OpenStages, Writing
<1>5. \A k \in 1..Len(out') : out'[k].kind \in TurnKinds \cup {"turn_started", "turn_ended"}
                              => Opens(buffer'.run, out', k)
  BY <1>1, <1>2, <1>3, <1>4 DEF RunInv
<1>6. stage' \in OpenStages => Opens(buffer'.run, out', Len(out') + 1)
  <2>1. CASE ev.kind = "run_started"
    <3>1. stage = "idle"
      BY <1>1, <2>1 DEF RunStep, ChildKinds
    <3>2. QED
      BY <1>1, <1>2, <1>3, <2>1, <3>1 DEF RunInv
  <2>2. CASE ev.kind # "run_started" /\ stage' \in OpenStages
    <3>1. stage \in OpenStages /\ ev.kind # "run_finished"
      BY <1>1, <2>2 DEF RunStep, OpenStages, Writing, ChildKinds
    <3>2. QED
      BY <1>1, <1>2, <1>3, <3>1 DEF RunInv
  <2>3. QED
    BY <2>1, <2>2
<1>7. stage' = "idle" => \A i \in 1..Len(out') : out'[i].kind # "run_finished"
  <2>1. stage' = "idle" => stage = "idle" /\ ev.kind # "run_finished"
    BY <1>1 DEF RunStep, ChildKinds
  <2>2. QED
    BY <1>2, <2>1 DEF RunInv
<1>8. QED
  BY <1>5, <1>6, <1>7 DEF RunInv

LEMMA RunTaken ==
    ASSUME TypeInv, ShapeInv, FreshInv, RunInv, NEW e \in Entries, Takes(e)
    PROVE  RunInv'
<1>1. out \in Seq(Events) /\ buffer \in Buffers /\ buffer' = Record(buffer, e) /\ stage' = stage
  BY DEF TypeInv, ChannelTyped, BufferTyped, Takes
<1>2. CASE TakesOut(e)
  <2>1. out # <<>> /\ out' = Tail(out) /\ e.kind = out[1].kind
    BY <1>2 DEF TakesOut
  <2>2. /\ Len(out) \in Nat /\ Len(out) >= 1 /\ Len(out') = Len(out) - 1
        /\ \A k \in 1..Len(out') : out'[k] = out[k + 1] /\ k + 1 \in 1..Len(out) /\ k \in 1..Len(out)
        /\ Len(out') + 1 = Len(out) /\ Len(out) \in 1..Len(out)
    BY <1>1, <2>1, TailFacts
  <2>3. \A k \in 1..Len(out) : Opens(buffer.run, out, k + 1) => Opens(buffer'.run, out', k)
    <3>1. /\ out[1].kind = "run_started" => buffer'.run # {}
          /\ out[1].kind \notin {"run_started", "run_finished"} => buffer'.run = buffer.run
      <4>1. /\ e.kind = "run_started" => Record(buffer, e).run = {e}
            /\ e.kind \notin {"run_started", "run_finished"} => Record(buffer, e).run = buffer.run
        BY <1>1, RecordIs
      <4>2. QED
        BY <1>1, <2>1, <4>1
    <3>2. QED
      BY <1>1, <2>1, <3>1, OpensTail
  <2>4. QED
    BY <1>1, <2>2, <2>3 DEF RunInv
<1>3. CASE TakesInbox(e)
  <2>1. e.kind = "user_message_injected" /\ out' = out
    BY <1>3, TakesFrom DEF TakesInbox
  <2>2. buffer'.run = buffer.run
    BY <1>1, <2>1, RecordIs
  <2>3. QED
    BY <1>1, <2>1, <2>2 DEF RunInv
<1>4. QED
  BY <1>2, <1>3 DEF Takes

LEMMA RunStays ==
    ASSUME TypeInv, ShapeInv, FreshInv, RunInv, [Next]_vars
    PROVE  RunInv'
<1>1. CASE \E ev \in Events : Emits(ev)
  BY <1>1, RunEmitted
<1>2. CASE \E e \in Entries : Takes(e)
  BY <1>2, RunTaken
<1>3. CASE StoreInput \/ SendInput \/ Stores \/ Trims \/ ChildRow \/ (Quiet /\ (buffer' = buffer \/ SendSnapshot))
  <2>1. out' = out /\ (stage' \in OpenStages => stage \in OpenStages) /\ (stage' = "idle" => stage = "idle")
    <3>1. CASE StoreInput \/ SendInput \/ ChildRow \/ Quiet
      BY <3>1 DEF StoreInput, SendInput, ChildRow, Quiet, coreVars
    <3>2. CASE Stores \/ Trims
      BY <3>2 DEF Stores, StoreContext, StoreDisplay, Trims, TrimPersisted, TrimCompact, OpenStages, Writing
    <3>3. QED
      BY <1>3, <3>1, <3>2
  <2>2. buffer'.run = buffer.run
    <3>1. CASE StoreInput \/ SendInput \/ Stores \/ ChildRow
      BY <3>1 DEF StoreInput, SendInput, Stores, StoreContext, StoreDisplay, ChildRow
    <3>2. CASE Trims
      BY <3>2, TrimStepTyped DEF Parts
    <3>3. CASE SendSnapshot
      BY <3>3, TrimEffect DEF SendSnapshot, TypeInv, BufferTyped, Parts
    <3>4. QED
      BY <1>3, <3>1, <3>2, <3>3
  <2>3. QED
    BY <2>1, <2>2 DEF RunInv
<1>4. QED
  BY <1>1, <1>2, <1>3, Ways

-----------------------------------------------------------------------------
(* Turns.  A place is 0 for the tail of the buffer, k for the k-th event of  *)
(* s, Len(s) + 1 for what the core emits next; At says whose turn is at a    *)
(* place, and no event between two places that Uncut joins empties the tail. *)
OfTurn(e, t) == \E b \in e.blocks : b[2] = t

At(kinds, tail, s, now, k, t) ==
    \/ k = 0 /\ \E e \in tail : e.kind \in kinds /\ OfTurn(e, t)
    \/ k \in 1..Len(s) /\ s[k].kind \in kinds /\ OfTurn(s[k], t)
    \/ k = Len(s) + 1 /\ t = now

Uncut(s, i, k) == \A j \in 1..Len(s) : i < j /\ j < k => ~Cuts(s[j])

LEMMA AtAppend ==
    ASSUME NEW s \in Seq(Events), NEW ev \in Events, NEW kinds, NEW tail, NEW now, NEW now2
    PROVE  /\ \A k \in 0..(Len(s) + 2) : \A t : At(kinds, tail, Append(s, ev), now2, k, t) =>
                 \/ k \in 0..Len(s) /\ At(kinds, tail, s, now, k, t)
                 \/ k = Len(s) + 1 /\ ev.kind \in kinds /\ OfTurn(ev, t)
                 \/ k = Len(s) + 2 /\ t = now2
           /\ \A i, k \in 0..(Len(s) + 2) : Uncut(Append(s, ev), i, k) =>
                 /\ Uncut(s, i, k) /\ (k = Len(s) + 2 => Uncut(s, i, Len(s) + 1))
                 /\ i \in 0..Len(s) /\ k = Len(s) + 2 => ~Cuts(ev)
           /\ \A k \in 0..(Len(s) + 2) : k \in 0..Len(s) \/ k = Len(s) + 1 \/ k = Len(s) + 2
<1>1. /\ Len(Append(s, ev)) = Len(s) + 1
      /\ \A j \in 1..Len(s) : Append(s, ev)[j] = s[j]
      /\ Append(s, ev)[Len(s) + 1] = ev /\ Len(s) \in Nat
  BY AppendFacts
<1> DEFINE l == Append(s, ev)
<1> HIDE DEF l
<1>2. \A j \in 1..Len(l) : j \in 1..Len(s) \/ (j = Len(s) + 1 /\ l[j] = ev)
  BY <1>1 DEF l
<1>3. \A j \in 1..Len(s) : j \in 1..Len(l) /\ l[j] = s[j]
  BY <1>1 DEF l
<1>4. Len(l) + 1 = Len(s) + 2 /\ Len(s) + 1 \in 1..Len(l) /\ l[Len(s) + 1] = ev
  BY <1>1 DEF l
<1>5. \A k \in 1..Len(s) : k \in 0..Len(s)
  BY <1>1
<1>6. 0 \in 0..Len(s)
  BY <1>1
<1>7. \A k \in 0..(Len(s) + 2) : \A t : At(kinds, tail, l, now2, k, t) =>
         \/ k \in 0..Len(s) /\ At(kinds, tail, s, now, k, t)
         \/ k = Len(s) + 1 /\ ev.kind \in kinds /\ OfTurn(ev, t)
         \/ k = Len(s) + 2 /\ t = now2
  <2> SUFFICES ASSUME NEW k \in 0..(Len(s) + 2), NEW t, At(kinds, tail, l, now2, k, t)
               PROVE  \/ k \in 0..Len(s) /\ At(kinds, tail, s, now, k, t)
                      \/ k = Len(s) + 1 /\ ev.kind \in kinds /\ OfTurn(ev, t)
                      \/ k = Len(s) + 2 /\ t = now2
    OBVIOUS
  <2>1. CASE k = 0 /\ \E e \in tail : e.kind \in kinds /\ OfTurn(e, t)
    BY <1>6, <2>1 DEF At
  <2>2. CASE k \in 1..Len(l) /\ l[k].kind \in kinds /\ OfTurn(l[k], t)
    BY <1>2, <1>3, <1>5, <2>2 DEF At
  <2>3. CASE k = Len(l) + 1 /\ t = now2
    BY <1>4, <2>3
  <2>4. QED
    BY <2>1, <2>2, <2>3 DEF At
<1>8. \A i, k \in 0..(Len(s) + 2) : Uncut(l, i, k) =>
         /\ Uncut(s, i, k) /\ (k = Len(s) + 2 => Uncut(s, i, Len(s) + 1))
         /\ i \in 0..Len(s) /\ k = Len(s) + 2 => ~Cuts(ev)
  <2> SUFFICES ASSUME NEW i \in 0..(Len(s) + 2), NEW k \in 0..(Len(s) + 2), Uncut(l, i, k)
               PROVE  /\ Uncut(s, i, k) /\ (k = Len(s) + 2 => Uncut(s, i, Len(s) + 1))
                      /\ i \in 0..Len(s) /\ k = Len(s) + 2 => ~Cuts(ev)
    OBVIOUS
  <2>1. Uncut(s, i, k)
    BY <1>3 DEF Uncut
  <2>2. k = Len(s) + 2 => \A j \in 1..Len(s) : j < Len(s) + 1 => j < k
    BY <1>1
  <2>3. k = Len(s) + 2 => Uncut(s, i, Len(s) + 1)
    BY <2>1, <2>2 DEF Uncut
  <2>4. i \in 0..Len(s) /\ k = Len(s) + 2 => i < Len(s) + 1 /\ Len(s) + 1 < k
    BY <1>1
  <2>5. i \in 0..Len(s) /\ k = Len(s) + 2 => ~Cuts(ev)
    BY <1>4, <2>4 DEF Uncut
  <2>6. QED
    BY <2>1, <2>3, <2>5
<1>9. \A k \in 0..(Len(s) + 2) : k \in 0..Len(s) \/ k = Len(s) + 1 \/ k = Len(s) + 2
  BY <1>1
<1>10. QED
  BY <1>7, <1>8, <1>9 DEF l

LEMMA UncutTail ==
    ASSUME NEW s \in Seq(Events), s # <<>>
    PROVE  \A i, k \in 0..Len(s) : Uncut(Tail(s), i, k) =>
              Uncut(s, i + 1, k + 1) /\ (i = 0 /\ ~Cuts(s[1]) => Uncut(s, 0, k + 1))
<1>1. /\ Len(s) \in Nat /\ Len(s) >= 1 /\ Len(Tail(s)) = Len(s) - 1
      /\ \A j \in 1..Len(Tail(s)) : Tail(s)[j] = s[j + 1]
  BY TailFacts
<1> DEFINE l == Tail(s)
<1> HIDE DEF l
<1>2. \A j \in 1..Len(s) : j = 1 \/ (j - 1 \in 1..Len(l) /\ l[j - 1] = s[j])
  BY <1>1 DEF l
<1>3. ASSUME NEW i \in 0..Len(s), NEW k \in 0..Len(s), Uncut(l, i, k)
      PROVE  Uncut(s, i + 1, k + 1) /\ (i = 0 /\ ~Cuts(s[1]) => Uncut(s, 0, k + 1))
  <2>1. \A j \in 1..Len(s) : i + 1 < j /\ j < k + 1 => j # 1 /\ i < j - 1 /\ j - 1 < k
    BY <1>1
  <2>2. Uncut(s, i + 1, k + 1)
    BY <1>2, <1>3, <2>1 DEF Uncut
  <2>3. i = 0 => \A j \in 1..Len(s) : j = 1 \/ i + 1 < j
    BY <1>1
  <2>4. i = 0 /\ ~Cuts(s[1]) => Uncut(s, 0, k + 1)
    BY <2>2, <2>3 DEF Uncut
  <2>5. QED
    BY <2>2, <2>4
<1>4. QED
  BY <1>3 DEF l

(* What recording does to the tail of the buffer. *)
LEMMA TailTaken ==
    ASSUME TypeInv, ShapeInv, FreshInv, RunInv, NEW e \in Entries, Takes(e)
    PROVE  /\ Cuts(e) => TakesOut(e) /\ buffer'.tail \subseteq {e}
           /\ ~Cuts(e) => buffer.tail \subseteq buffer'.tail /\ buffer'.tail \subseteq buffer.tail \cup {e}
           /\ e.kind \in TurnKinds => e \in buffer'.tail
<1>1. buffer \in Buffers /\ buffer' = Record(buffer, e) /\ out \in Seq(Events)
  BY DEF TypeInv, BufferTyped, ChannelTyped, Takes
<1>2. TakesOut(e) /\ e.kind \in TurnKinds \cup {"turn_started", "turn_ended"} => buffer.run # {}
  <2>1. TakesOut(e) => 1 \in 1..Len(out) /\ e.kind = out[1].kind /\ Len(out) \in Nat
    BY <1>1 DEF TakesOut
  <2>2. \A i \in 1..Len(out) : ~(i < 1)
    OBVIOUS
  <2>3. QED
    BY <2>1, <2>2 DEF RunInv, Opens
<1>3. TakesInbox(e) => e.kind = "user_message_injected"
  BY TakesFrom
<1>4. CASE Cuts(e)
  <2>1. TakesOut(e) /\ e.kind \notin TurnKinds
    BY <1>3, <1>4 DEF Cuts, Takes, TurnKinds, Streamed
  <2>2. CASE e.kind \in {"run_started", "run_finished"}
    <3>1. Record(buffer, e).tail = {}
      BY <1>1, <2>2, RecordIs
    <3>2. QED
      BY <1>1, <1>4, <2>1, <3>1
  <2>3. CASE e.kind \in {"turn_started", "turn_ended"}
    <3>1. Record(buffer, e).tail = {e}
      BY <1>1, <1>2, <2>1, <2>3, RecordIs
    <3>2. QED
      BY <1>1, <1>4, <2>1, <3>1
  <2>4. QED
    BY <1>4, <2>2, <2>3 DEF Cuts
<1>5. CASE ~Cuts(e)
  <2>1. CASE e.kind \in TailKinds /\ buffer.run # {}
    <3>1. Record(buffer, e).tail = buffer.tail \cup {e}
      BY <1>1, <1>5, <2>1, RecordIs
    <3>2. QED
      BY <1>1, <1>5, <3>1
  <2>2. CASE e.kind \notin TailKinds \/ buffer.run = {}
    <3>1. Record(buffer, e).tail = buffer.tail
      BY <1>1, <1>5, <2>2, RecordIs DEF Cuts
    <3>2. e.kind \notin TurnKinds
      BY <1>2, <1>3, <2>2 DEF Takes, TailKinds, TurnKinds, Streamed
    <3>3. QED
      BY <1>1, <1>5, <3>1, <3>2
  <2>3. QED
    BY <2>1, <2>2
<1>6. QED
  BY <1>4, <1>5

LEMMA AtTaken ==
    ASSUME TypeInv, ShapeInv, FreshInv, RunInv, NEW e \in Entries, Takes(e),
           NEW kinds \in SUBSET TurnKinds, NEW now
    PROVE  /\ TakesOut(e) => \A k \in 0..Len(out) : \A t : At(kinds, buffer'.tail, out', now, k, t) =>
                 \/ /\ k = 0 /\ ~Cuts(e)
                    /\ At(kinds, buffer.tail, out, now, 0, t) \/ At(kinds, buffer.tail, out, now, 1, t)
                 \/ k > 0 /\ At(kinds, buffer.tail, out, now, k + 1, t)
           /\ TakesInbox(e) => \A k, t : At(kinds, buffer'.tail, out', now, k, t) => At(kinds, buffer.tail, out, now, k, t)
<1>1. out \in Seq(Events)
  BY DEF TypeInv, ChannelTyped
<1>2. ASSUME TakesOut(e), NEW k \in 0..Len(out), NEW t, At(kinds, buffer'.tail, out', now, k, t)
      PROVE  \/ /\ k = 0 /\ ~Cuts(e)
                /\ At(kinds, buffer.tail, out, now, 0, t) \/ At(kinds, buffer.tail, out, now, 1, t)
             \/ k > 0 /\ At(kinds, buffer.tail, out, now, k + 1, t)
  <2>1. out # <<>> /\ out' = Tail(out) /\ e.kind = out[1].kind /\ e.blocks = out[1].blocks
    BY <1>2 DEF TakesOut
  <2>2. /\ Len(out) \in Nat /\ Len(out') = Len(out) - 1 /\ 1 \in 1..Len(out)
        /\ \A j \in 1..Len(out') : out'[j] = out[j + 1] /\ j + 1 \in 1..Len(out)
    BY <1>1, <2>1, TailFacts
  <2>3. CASE k = 0 /\ \E x \in buffer'.tail : x.kind \in kinds /\ OfTurn(x, t)
    <3>1. PICK x \in buffer'.tail : x.kind \in kinds /\ OfTurn(x, t)
      BY <2>3
    <3>2. ~Cuts(e)
      BY <3>1, TailTaken DEF Cuts, TurnKinds, Streamed
    <3>3. CASE x \in buffer.tail
      BY <2>3, <3>1, <3>2, <3>3 DEF At
    <3>4. CASE x = e
      <4>1. out[1].kind \in kinds /\ OfTurn(out[1], t)
        BY <2>1, <3>1, <3>4 DEF OfTurn
      <4>2. QED
        BY <2>2, <2>3, <3>2, <4>1 DEF At
    <3>5. QED
      BY <3>2, <3>3, <3>4, TailTaken
  <2>4. CASE k \in 1..Len(out') /\ out'[k].kind \in kinds /\ OfTurn(out'[k], t)
    <3>1. k + 1 \in 1..Len(out) /\ out[k + 1].kind \in kinds /\ OfTurn(out[k + 1], t) /\ k > 0
      BY <2>2, <2>4
    <3>2. QED
      BY <3>1 DEF At
  <2>5. CASE k = Len(out') + 1 /\ t = now
    <3>1. k + 1 = Len(out) + 1 /\ k > 0
      BY <2>2, <2>5
    <3>2. QED
      BY <2>5, <3>1 DEF At
  <2>6. QED
    BY <1>2, <2>3, <2>4, <2>5 DEF At
<1>3. ASSUME TakesInbox(e), NEW k, NEW t, At(kinds, buffer'.tail, out', now, k, t)
      PROVE  At(kinds, buffer.tail, out, now, k, t)
  <2>1. out' = out /\ e.kind = "user_message_injected"
    BY <1>3, TakesFrom DEF TakesInbox
  <2>2. \A x \in buffer'.tail : x.kind \in kinds => x \in buffer.tail
    BY <2>1, TailTaken DEF Cuts, TurnKinds, Streamed
  <2>3. QED
    BY <1>3, <2>1, <2>2 DEF At
<1>4. QED
  BY <1>2, <1>3

-----------------------------------------------------------------------------
(* The tail and what follows it up to an event that empties it are of one    *)
(* turn, which no stream before has; and as long as the client has no        *)
(* snapshot, the tail has all of the stream of its turn.                      *)
SameTurn ==
    \A i, k \in 0..(Len(out) + 1), s, t \in Turns :
       /\ i <= k /\ Uncut(out, i, k)
       /\ At(TurnKinds, buffer.tail, out, turn, i, s)
       /\ At(TurnKinds, buffer.tail, out, turn, k, t)
       => s = t

Now == IF stage = "stream" THEN turn ELSE 0

NewTurn ==
    \A k \in 1..(Len(out) + 1), t \in Turns : At(Streamed, buffer.tail, out, Now, k, t) =>
       \A i \in 1..Len(out) : i < k /\ Cuts(out[i]) => \A c \in Stream(t) : ~Given(told, out, c, i)

Early == client.phase \in {"off", "subscribed", "ui", "tasks", "llm"}

Whole ==
    Early /\ "tail" \notin torn =>
       \A k \in 0..(Len(out) + 1), t \in Turns :
          Uncut(out, 0, k) /\ At(Streamed, buffer.tail, out, Now, k, t) =>
          told \cap Stream(t) \subseteq BlocksOf(OfKind(buffer.tail, Streamed))

LEMMA TurnInit == Init => SameTurn /\ NewTurn /\ Whole
<1> SUFFICES ASSUME Init PROVE SameTurn /\ NewTurn /\ Whole
  OBVIOUS
<1>1. /\ out = <<>> /\ Len(out) = 0 /\ turn = 0 /\ stage = "idle" /\ told = {}
      /\ buffer.tail = {}
  BY DEF Init, EmptyBuffer
<1>2. 0 \notin Turns
  BY BoundFacts DEF Turns
<1>3. \A kinds, k, t : ~(t \in Turns /\ At(kinds, buffer.tail, out, 0, k, t))
  BY <1>1, <1>2 DEF At
<1>4. Now = 0
  BY <1>1 DEF Now
<1>5. QED
  BY <1>1, <1>3, <1>4 DEF SameTurn, NewTurn, Whole

LEMMA TurnEmitted ==
    ASSUME NEW ev \in Events, Emits(ev)
    PROVE  /\ ev.kind \in TurnKinds => turn' = turn /\ \A t : OfTurn(ev, t) => t = turn
           /\ ev.kind # "turn_started" => turn' = turn
           /\ ev.kind \in Streamed => stage = "stream" /\ stage' = "stream"
           /\ ev.kind # "turn_started" /\ stage' = "stream" => stage = "stream"
           /\ Cuts(ev) /\ ev.kind # "turn_started" => stage' # "stream"
           /\ ev.kind = "turn_started" => turn' = turn + 1
<1>1. RunStep(ev)
  BY DEF Emits
<1>2. ev.kind \in TurnKinds => turn' = turn /\ \A t : OfTurn(ev, t) => t = turn
  BY <1>1, NamesDiffer DEF RunStep, TurnKinds, Streamed, ChildKinds, OfTurn
<1>3. QED
  BY <1>1, <1>2 DEF RunStep, Streamed, ChildKinds, Cuts

LEMMA SameTurnEmitted ==
    ASSUME TypeInv, SameTurn, NEW ev \in Events, Emits(ev)
    PROVE  SameTurn'
<1>1. out \in Seq(Events) /\ out' = Append(out, ev) /\ buffer' = buffer /\ Len(out) \in Nat
      /\ Len(out') + 1 = Len(out) + 2
  <2>1. out \in Seq(Events) /\ out' = Append(out, ev) /\ buffer' = buffer
    BY DEF TypeInv, ChannelTyped, Emits
  <2>2. QED
    BY <2>1, AppendFacts
<1> DEFINE T == buffer.tail
           n == Len(out)
           A(k, t) == At(TurnKinds, T, out, turn, k, t)
           A2(k, t) == At(TurnKinds, T, out', turn', k, t)
<1>2. \A k \in 0..(n + 2) : \A t : A2(k, t) =>
         \/ k \in 0..n /\ A(k, t)
         \/ k = n + 1 /\ ev.kind \in TurnKinds /\ OfTurn(ev, t)
         \/ k = n + 2 /\ t = turn'
  BY <1>1, AtAppend
<1>3. \A i, k \in 0..(n + 2) : Uncut(out', i, k) =>
         /\ Uncut(out, i, k) /\ (k = n + 2 => Uncut(out, i, n + 1))
         /\ i \in 0..n /\ k = n + 2 => ~Cuts(ev)
  BY <1>1, AtAppend
<1>4. A(n + 1, turn)
  BY DEF At
<1>5. \A i, k \in 0..(n + 1), s, t \in Turns : i <= k /\ Uncut(out, i, k) /\ A(i, s) /\ A(k, t) => s = t
  BY DEF SameTurn
<1> SUFFICES ASSUME NEW i \in 0..(n + 2), NEW k \in 0..(n + 2), NEW s \in Turns, NEW t \in Turns,
                    i <= k, Uncut(out', i, k), A2(i, s), A2(k, t)
             PROVE  s = t
  BY <1>1 DEF SameTurn
<1> HIDE DEF A, A2, T
<1>6. \A m \in 0..n : m \in 0..(n + 1) /\ m <= n + 1 /\ m <= n + 2 /\ ~(n + 1 <= m) /\ ~(n + 2 <= m)
  BY <1>1
<1>7. n + 1 \in 0..(n + 1) /\ n + 1 <= n + 1 /\ ~(n + 2 <= n + 1)
  BY <1>1
<1>8. (i \in 0..n \/ i = n + 1 \/ i = n + 2) /\ (k \in 0..n \/ k = n + 1 \/ k = n + 2)
  BY <1>1
<1>9. CASE ev.kind = "turn_started"
  <2>1. Cuts(ev) /\ ev.kind \notin TurnKinds
    BY <1>9 DEF Cuts, TurnKinds, Streamed
  <2>2. CASE k \in 0..n
    <3>1. i \in 0..n
      BY <1>6, <1>7, <1>8, <2>2
    <3>2. A(i, s) /\ A(k, t)
      BY <1>2, <1>6, <1>7, <2>1, <2>2, <3>1
    <3>3. QED
      BY <1>3, <1>5, <1>6, <2>2, <3>1, <3>2
  <2>3. CASE k = n + 2
    <3>1. t = turn'
      BY <1>1, <1>2, <2>1, <2>3
    <3>2. i \notin 0..n
      BY <1>3, <2>1, <2>3
    <3>3. s = turn'
      BY <1>2, <2>1, <3>2
    <3>4. QED
      BY <3>1, <3>3
  <2>4. QED
    BY <1>2, <1>8, <2>1, <2>2, <2>3
<1>10. CASE ev.kind # "turn_started"
  <2>1. turn' = turn /\ (ev.kind \in TurnKinds => \A u : OfTurn(ev, u) => u = turn)
    BY <1>10, TurnEmitted
  <2>2. CASE k \in 0..n
    <3>1. i \in 0..n
      BY <1>6, <1>7, <1>8, <2>2
    <3>2. A(i, s) /\ A(k, t)
      <4>1. ~(k = n + 1) /\ ~(k = n + 2) /\ ~(i = n + 1) /\ ~(i = n + 2)
        BY <1>1, <2>2, <3>1
      <4>2. QED
        BY <1>2, <4>1
    <3>3. QED
      BY <1>3, <1>5, <1>6, <2>2, <3>1, <3>2
  <2>3. CASE k \notin 0..n
    <3>1. t = turn /\ A(n + 1, t)
      BY <1>2, <1>4, <2>1, <2>3
    <3>2. Uncut(out, i, n + 1)
      BY <1>3, <1>8, <2>3
    <3>3. CASE i \in 0..n
      <4>1. ~(i = n + 1) /\ ~(i = n + 2)
        BY <1>1, <3>3
      <4>2. A(i, s)
        BY <1>2, <4>1
      <4>3. QED
        BY <1>5, <1>6, <1>7, <3>1, <3>2, <3>3, <4>2
    <3>4. CASE i \notin 0..n
      BY <1>2, <2>1, <3>1, <3>4
    <3>5. QED
      BY <3>3, <3>4
  <2>4. QED
    BY <2>2, <2>3
<1>11. QED
  BY <1>9, <1>10

LEMMA SameTurnTaken ==
    ASSUME TypeInv, ShapeInv, FreshInv, RunInv, SameTurn, NEW e \in Entries, Takes(e)
    PROVE  SameTurn'
<1>1. out \in Seq(Events) /\ turn' = turn
  BY DEF TypeInv, ChannelTyped, Takes
<1>2. CASE TakesOut(e)
  <2>1. out # <<>> /\ out' = Tail(out) /\ (Cuts(out[1]) <=> Cuts(e))
    BY <1>2 DEF TakesOut, Cuts
  <2>2. Len(out) \in Nat /\ Len(out) >= 1 /\ Len(out') + 1 = Len(out)
    BY <1>1, <2>1, TailFacts
  <2> DEFINE T == buffer.tail
             A(k, t) == At(TurnKinds, T, out, turn, k, t)
             A2(k, t) == At(TurnKinds, buffer'.tail, out', turn, k, t)
  <2>3. \A k \in 0..Len(out) : \A t : A2(k, t) =>
           \/ k = 0 /\ ~Cuts(e) /\ (A(0, t) \/ A(1, t))
           \/ k > 0 /\ A(k + 1, t)
    BY <1>2, AtTaken
  <2>4. \A i, k \in 0..Len(out) : Uncut(out', i, k) =>
           Uncut(out, i + 1, k + 1) /\ (i = 0 /\ ~Cuts(e) => Uncut(out, 0, k + 1))
    BY <1>1, <2>1, UncutTail
  <2>5. \A i, k \in 0..(Len(out) + 1), s, t \in Turns : i <= k /\ Uncut(out, i, k) /\ A(i, s) /\ A(k, t) => s = t
    BY DEF SameTurn
  <2>6. Uncut(out, 0, 1) /\ Uncut(out, 0, 0) /\ Uncut(out, 1, 1)
    BY DEF Uncut
  <2> SUFFICES ASSUME NEW i \in 0..Len(out), NEW k \in 0..Len(out), NEW s \in Turns, NEW t \in Turns,
                      i <= k, Uncut(out', i, k), A2(i, s), A2(k, t)
               PROVE  s = t
    BY <1>1, <2>2 DEF SameTurn
  <2> HIDE DEF A, A2
  <2>7. /\ i + 1 \in 0..(Len(out) + 1) /\ k + 1 \in 0..(Len(out) + 1)
        /\ 0 \in 0..(Len(out) + 1) /\ 1 \in 0..(Len(out) + 1)
        /\ i + 1 <= k + 1 /\ 0 <= k + 1 /\ 1 <= k + 1 /\ 0 <= 1 /\ 0 <= 0 /\ 1 <= 1
    BY <2>2
  <2>8. CASE i > 0
    <3>1. k > 0 /\ i # 0 /\ k # 0
      BY <2>8
    <3>2. QED
      BY <2>3, <2>4, <2>5, <2>7, <3>1
  <2>9. CASE i = 0 /\ k = 0
    BY <2>3, <2>5, <2>6, <2>7, <2>9
  <2>10. CASE i = 0 /\ k > 0
    <3>1. ~Cuts(e) /\ (A(0, s) \/ A(1, s)) /\ A(k + 1, t)
      BY <2>3, <2>10
    <3>2. Uncut(out, 0, k + 1) /\ Uncut(out, 1, k + 1)
      BY <2>4, <2>10, <3>1
    <3>3. QED
      BY <2>5, <2>7, <3>1, <3>2
  <2>11. QED
    BY <2>8, <2>9, <2>10
<1>3. CASE TakesInbox(e)
  <2>1. out' = out
    BY <1>3 DEF TakesInbox
  <2>2. \A k, t : At(TurnKinds, buffer'.tail, out', turn', k, t) => At(TurnKinds, buffer.tail, out, turn, k, t)
    BY <1>1, <1>3, AtTaken
  <2>3. QED
    BY <2>1, <2>2 DEF SameTurn
<1>4. QED
  BY <1>2, <1>3 DEF Takes

LEMMA NewTurnEmitted ==
    ASSUME TypeInv, FreshInv, NewTurn, NEW ev \in Events, Emits(ev)
    PROVE  NewTurn'
<1>1. out \in Seq(Events) /\ out' = Append(out, ev) /\ buffer' = buffer /\ Len(out) \in Nat
      /\ Len(out') + 1 = Len(out) + 2 /\ Len(out') = Len(out) + 1 /\ told' = told
  <2>1. out \in Seq(Events) /\ out' = Append(out, ev) /\ buffer' = buffer /\ told' = told
    BY DEF TypeInv, ChannelTyped, Emits
  <2>2. QED
    BY <2>1, AppendFacts
<1> DEFINE T == buffer.tail
           n == Len(out)
           A(k, t) == At(Streamed, T, out, Now, k, t)
           A2(k, t) == At(Streamed, T, out', Now', k, t)
<1>2. \A k \in 0..(n + 2) : \A t : A2(k, t) =>
         \/ k \in 0..n /\ A(k, t)
         \/ k = n + 1 /\ ev.kind \in Streamed /\ OfTurn(ev, t)
         \/ k = n + 2 /\ t = Now'
  BY <1>1, AtAppend
<1>3. A(n + 1, Now)
  BY DEF At
<1>4. \A k \in 1..(n + 1), t \in Turns : A(k, t) =>
         \A i \in 1..n : i < k /\ Cuts(out[i]) => \A c \in Stream(t) : ~Given(told, out, c, i)
  BY DEF NewTurn
<1> SUFFICES ASSUME NEW k \in 1..(n + 2), NEW t \in Turns, A2(k, t),
                    NEW i \in 1..(n + 1), i < k, Cuts(out'[i]), NEW c \in Stream(t), Given(told, out', c, i)
             PROVE  FALSE
  BY <1>1 DEF NewTurn
<1> HIDE DEF A, A2, T
<1>5. Given(told, out, c, i)
  BY <1>1, EmitsGiven
<1>6. \A j \in 1..n : out'[j] = out[j] /\ out'[n + 1] = ev
  BY <1>1, AppendFacts
<1>7. out'[n + 1] = ev
  BY <1>1, AppendFacts
<1>8. k \in 0..(n + 2) /\ (k \in 0..n => k \in 1..(n + 1) /\ i \in 1..n)
      /\ (i \in 1..n => i < n + 1) /\ (k = n + 1 => i \in 1..n) /\ (i \notin 1..n => i = n + 1)
      /\ n + 1 \in 1..(n + 1)
  BY <1>1
<1>9. ASSUME A(n + 1, t), i \in 1..n PROVE FALSE
  BY <1>4, <1>5, <1>6, <1>8, <1>9
<1>10. CASE k \in 0..n /\ A(k, t)
  BY <1>4, <1>5, <1>6, <1>8, <1>10
<1>11. CASE k = n + 1 /\ ev.kind \in Streamed /\ OfTurn(ev, t)
  <2>1. t = turn /\ stage = "stream"
    BY <1>11, TurnEmitted DEF TurnKinds
  <2>2. A(n + 1, t)
    BY <1>3, <2>1 DEF Now
  <2>3. QED
    BY <1>8, <1>9, <1>11, <2>2
<1>12. CASE k = n + 2 /\ t = Now'
  <2>1. stage' = "stream" /\ t = turn'
    BY <1>12, BoundFacts DEF Now, Turns
  <2>2. CASE ev.kind = "turn_started"
    <3>1. t = turn + 1 /\ turn \in Nat
      BY <2>1, <2>2, TurnEmitted, BoundFacts DEF TypeInv, RunTyped
    <3>2. c \in Plain /\ c[1] \in {"text", "use"} /\ c[2] = turn + 1
      BY <3>1, StreamFacts
    <3>3. ~Issued(c)
      BY <3>1, <3>2 DEF Issued
    <3>4. Emitted(c)
      <4>1. \A j \in 1..n : j < i => j < n + 1
        BY <1>1
      <4>2. QED
        BY <1>5, <4>1 DEF Emitted, Given
    <3>5. QED
      BY <3>2, <3>3, <3>4 DEF FreshInv
  <2>3. CASE ev.kind # "turn_started"
    <3>1. stage = "stream" /\ turn' = turn /\ ~Cuts(ev)
      BY <2>1, <2>3, TurnEmitted
    <3>2. A(n + 1, t)
      BY <1>3, <2>1, <3>1 DEF Now
    <3>3. i \in 1..n
      BY <1>7, <1>8, <3>1
    <3>4. QED
      BY <1>9, <3>2, <3>3
  <2>4. QED
    BY <2>2, <2>3
<1>13. QED
  BY <1>2, <1>8, <1>10, <1>11, <1>12

LEMMA NewTurnTaken ==
    ASSUME TypeInv, ShapeInv, FreshInv, RunInv, NewTurn, NEW e \in Entries, Takes(e)
    PROVE  NewTurn'
<1>1. out \in Seq(Events) /\ turn' = turn /\ Now' = Now
  BY DEF TypeInv, ChannelTyped, Takes, Now
<1>2. Streamed \in SUBSET TurnKinds
  BY DEF TurnKinds
<1>3. CASE TakesOut(e)
  <2>1. out # <<>> /\ out' = Tail(out) /\ Len(out) \in Nat /\ Len(out) >= 1 /\ Len(out') + 1 = Len(out)
    BY <1>1, <1>3, TailFacts DEF TakesOut
  <2>2. \A k \in 0..Len(out) : \A t : At(Streamed, buffer'.tail, out', Now, k, t) =>
           k = 0 \/ (k > 0 /\ At(Streamed, buffer.tail, out, Now, k + 1, t))
    BY <1>2, <1>3, AtTaken
  <2> SUFFICES ASSUME NEW k \in 1..Len(out), NEW t \in Turns, At(Streamed, buffer'.tail, out', Now, k, t),
                      NEW i \in 1..Len(out'), i < k, Cuts(out'[i]), NEW c \in Stream(t)
               PROVE  ~Given(told', out', c, i)
    BY <1>1, <2>1 DEF NewTurn
  <2>3. At(Streamed, buffer.tail, out, Now, k + 1, t)
    <3>1. k \in 0..Len(out) /\ k # 0
      BY <2>1
    <3>2. QED
      BY <2>2, <3>1
  <2>4. k + 1 \in 1..(Len(out) + 1) /\ i + 1 \in 1..Len(out) /\ i + 1 < k + 1 /\ i \in 1..Len(out)
    BY <2>1
  <2>5. c \in Plain
    BY StreamFacts
  <2>6. out'[i] = out[i + 1] /\ (Given(told', out', c, i) <=> Given(told, out, c, i + 1))
    BY <1>3, <2>4, <2>5, TakesGiven
  <2>7. QED
    BY <2>3, <2>4, <2>6 DEF NewTurn
<1>4. CASE TakesInbox(e)
  <2>1. out' = out /\ e.kind = "user_message_injected"
    BY <1>4, TakesFrom DEF TakesInbox
  <2>2. \A k, t : At(Streamed, buffer'.tail, out', Now, k, t) => At(Streamed, buffer.tail, out, Now, k, t)
    BY <1>2, <1>4, AtTaken
  <2>3. \A t \in Turns : \A c \in Stream(t) : \A i : Given(told', out, c, i) => Given(told, out, c, i)
    <3> SUFFICES ASSUME NEW t \in Turns, NEW c \in Stream(t), NEW i, Given(told', out, c, i)
                 PROVE  Given(told, out, c, i)
      OBVIOUS
    <3>1. c \in Plain /\ c[1] \in {"text", "use"}
      BY StreamFacts
    <3>2. c \notin e.blocks
      BY <1>4, <3>1, TakesFrom, NamesDiffer
    <3>3. QED
      BY <1>4, <3>1, <3>2, TakesGiven
  <2>4. QED
    BY <1>1, <2>1, <2>2, <2>3 DEF NewTurn
<1>5. QED
  BY <1>3, <1>4 DEF Takes

LEMMA WholeEmitted ==
    ASSUME TypeInv, Whole, NEW ev \in Events, Emits(ev)
    PROVE  Whole'
<1>1. out \in Seq(Events) /\ out' = Append(out, ev) /\ buffer' = buffer /\ Len(out) \in Nat
      /\ Len(out') + 1 = Len(out) + 2 /\ told' = told /\ torn' = torn /\ client' = client
  <2>1. /\ out \in Seq(Events) /\ out' = Append(out, ev) /\ buffer' = buffer /\ told' = told
        /\ torn' = torn /\ client' = client
    BY DEF TypeInv, ChannelTyped, Emits
  <2>2. QED
    BY <2>1, AppendFacts
<1> DEFINE T == buffer.tail
           n == Len(out)
           A(k, t) == At(Streamed, T, out, Now, k, t)
           A2(k, t) == At(Streamed, T, out', Now', k, t)
           All(t) == told \cap Stream(t) \subseteq BlocksOf(OfKind(T, Streamed))
<1>2. \A k \in 0..(n + 2) : \A t : A2(k, t) =>
         \/ k \in 0..n /\ A(k, t)
         \/ k = n + 1 /\ ev.kind \in Streamed /\ OfTurn(ev, t)
         \/ k = n + 2 /\ t = Now'
  BY <1>1, AtAppend
<1>3. A(n + 1, Now)
  BY DEF At
<1>4. \A k \in 0..(n + 2) : Uncut(out', 0, k) =>
         /\ Uncut(out, 0, k) /\ (k = n + 2 => Uncut(out, 0, n + 1))
         /\ (k = n + 2 => ~Cuts(ev))
  <2>1. 0 \in 0..n /\ 0 \in 0..(n + 2)
    BY <1>1
  <2>2. QED
    BY <1>1, <2>1, AtAppend
<1> SUFFICES ASSUME Early, "tail" \notin torn, NEW k \in 0..(n + 2), NEW t \in Turns, Uncut(out', 0, k), A2(k, t)
             PROVE  All(t)
  BY <1>1 DEF Whole, Early
<1>5. \A j \in 0..(n + 1) : Uncut(out, 0, j) /\ A(j, t) => All(t)
  BY DEF Whole
<1> HIDE DEF A, A2, T, All
<1>6. n + 1 \in 0..(n + 1) /\ \A j \in 0..n : j \in 0..(n + 1)
  BY <1>1
<1>7. CASE k \in 0..n /\ A(k, t)
  BY <1>4, <1>5, <1>6, <1>7
<1>8. CASE k = n + 1 /\ ev.kind \in Streamed /\ OfTurn(ev, t)
  <2>1. t = turn /\ stage = "stream"
    BY <1>8, TurnEmitted DEF TurnKinds
  <2>2. A(n + 1, t)
    BY <1>3, <2>1 DEF Now
  <2>3. QED
    BY <1>4, <1>5, <1>6, <1>8, <2>2
<1>9. CASE k = n + 2 /\ t = Now'
  <2>1. stage' = "stream" /\ t = turn' /\ ~Cuts(ev)
    BY <1>4, <1>9, BoundFacts DEF Now, Turns
  <2>2. ev.kind # "turn_started"
    BY <2>1 DEF Cuts
  <2>3. A(n + 1, t)
    BY <1>3, <2>1, <2>2, TurnEmitted DEF Now
  <2>4. QED
    BY <1>4, <1>5, <1>6, <1>9, <2>3
<1>10. QED
  BY <1>2, <1>7, <1>8, <1>9

LEMMA WholeTaken ==
    ASSUME TypeInv, ShapeInv, FreshInv, RunInv, NewTurn, Whole, NEW e \in Entries, Takes(e)
    PROVE  Whole'
<1>1. out \in Seq(Events) /\ turn' = turn /\ Now' = Now /\ torn' = torn \ Mended(e) /\ (Early' => Early)
  <2>1. out \in Seq(Events) /\ turn' = turn /\ stage' = stage /\ torn' = torn \ Mended(e)
    BY DEF TypeInv, ChannelTyped, Takes
  <2>2. client'.phase = client.phase
    BY ClientRecorded DEF Takes
  <2>3. QED
    BY <2>1, <2>2 DEF Now, Early
<1>2. Streamed \in SUBSET TurnKinds /\ (Cuts(e) <=> Mended(e) # {})
  BY DEF TurnKinds, Cuts, Mended
<1>3. told' \cap Plain = (told \cup e.blocks) \cap Plain
  BY DEF Takes
<1>4. CASE TakesOut(e)
  <2>1. out # <<>> /\ out' = Tail(out) /\ e.kind = out[1].kind /\ e.blocks = out[1].blocks
    BY <1>4 DEF TakesOut
  <2>2. /\ Len(out) \in Nat /\ Len(out) >= 1 /\ Len(out') + 1 = Len(out) /\ (Cuts(out[1]) <=> Cuts(e))
        /\ 1 \in 1..Len(out)
    BY <1>1, <2>1, TailFacts DEF Cuts
  <2>3. \A k \in 0..Len(out) : \A t : At(Streamed, buffer'.tail, out', Now, k, t) =>
           \/ /\ k = 0 /\ ~Cuts(e)
              /\ At(Streamed, buffer.tail, out, Now, 0, t) \/ At(Streamed, buffer.tail, out, Now, 1, t)
           \/ k > 0 /\ At(Streamed, buffer.tail, out, Now, k + 1, t)
    BY <1>2, <1>4, AtTaken
  <2>4. \A k \in 0..Len(out) : Uncut(out', 0, k) =>
           Uncut(out, 1, k + 1) /\ (~Cuts(e) => Uncut(out, 0, k + 1))
    <3>1. 0 \in 0..Len(out) /\ 0 + 1 = 1
      BY <2>2
    <3>2. QED
      BY <1>1, <2>1, <2>2, <3>1, UncutTail
  <2> SUFFICES ASSUME Early', "tail" \notin torn', NEW k \in 0..Len(out), NEW t \in Turns, Uncut(out', 0, k),
                      At(Streamed, buffer'.tail, out', Now, k, t), NEW c \in told', c \in Stream(t)
               PROVE  c \in BlocksOf(OfKind(buffer'.tail, Streamed))
    BY <1>1, <2>2 DEF Whole
  <2>5. c \in Plain /\ c[1] \in {"text", "use"}
    BY StreamFacts
  <2>6. CASE Cuts(e)
    <3>1. k > 0 /\ At(Streamed, buffer.tail, out, Now, k + 1, t) /\ k + 1 \in 1..(Len(out) + 1) /\ 1 < k + 1
      BY <2>2, <2>3, <2>6
    <3>2. ~Given(told, out, c, 1)
      BY <2>2, <2>6, <3>1 DEF NewTurn
    <3>3. c \notin told /\ e.blocks = {}
      BY <2>6, <3>2 DEF Given, Takes, Shape
    <3>4. QED
      BY <1>3, <2>5, <3>3
  <2>7. CASE ~Cuts(e)
    <3>1. buffer.tail \subseteq buffer'.tail /\ (e.kind \in TurnKinds => e \in buffer'.tail)
      BY <2>7, TailTaken
    <3>2. CASE c \in told
      <4>1. \E j \in 0..(Len(out) + 1) : Uncut(out, 0, j) /\ At(Streamed, buffer.tail, out, Now, j, t)
        <5>1. Uncut(out, 0, 0) /\ Uncut(out, 0, 1) /\ 0 \in 0..(Len(out) + 1) /\ 1 \in 0..(Len(out) + 1)
              /\ k + 1 \in 0..(Len(out) + 1)
          BY <2>2 DEF Uncut
        <5>2. QED
          BY <2>3, <2>4, <2>7, <5>1
      <4>2. c \in BlocksOf(OfKind(buffer.tail, Streamed))
        BY <1>1, <1>2, <2>7, <3>2, <4>1 DEF Whole
      <4>3. QED
        BY <3>1, <4>2 DEF BlocksOf, OfKind
    <3>3. CASE c \notin told
      <4>1. c \in e.blocks
        BY <1>3, <2>5, <3>3
      <4>2. ~Given(told, out, c, 1)
        <5>1. \A j \in 1..Len(out) : ~(j < 1)
          OBVIOUS
        <5>2. QED
          BY <3>3, <5>1 DEF Given
      <4>3. e.kind # "pause_requested"
        BY <2>1, <2>2, <2>5, <4>1, <4>2 DEF FreshInv
      <4>4. e.kind \in Streamed
        <5>1. e.kind \in Kinds
          BY DEF Entries
        <5>2. Shape(e)
          BY DEF Takes
        <5>3. e.kind \notin ChildKinds /\ e.kind \notin {"compact_summary_started", "compact_summary_failed"}
          BY <2>5, <4>1, <5>2 DEF Shape, Plain
        <5>4. e.kind \notin {"tool_result", "user_message_injected", "compact_summary_finished"}
          BY <2>5, <4>1, <5>2, NamesDiffer DEF Shape
        <5>5. QED
          BY <2>7, <4>3, <5>1, <5>3, <5>4 DEF Kinds, MainKinds, Cuts, Streamed
      <4>5. QED
        BY <3>1, <4>1, <4>4 DEF BlocksOf, OfKind, TurnKinds
    <3>4. QED
      BY <3>2, <3>3
  <2>8. QED
    BY <2>6, <2>7
<1>5. CASE TakesInbox(e)
  <2>1. out' = out /\ e.kind = "user_message_injected" /\ ~Cuts(e)
    BY <1>5, TakesFrom DEF TakesInbox, Cuts
  <2>2. \A k, t : At(Streamed, buffer'.tail, out', Now, k, t) => At(Streamed, buffer.tail, out, Now, k, t)
    BY <1>2, <1>5, AtTaken
  <2>3. \A t \in Turns : told' \cap Stream(t) \subseteq told
    <3> SUFFICES ASSUME NEW t \in Turns, NEW c \in Stream(t), c \in told' PROVE c \in told
      OBVIOUS
    <3>1. c \in Plain /\ c[1] \in {"text", "use"}
      BY StreamFacts
    <3>2. c \notin e.blocks
      BY <1>5, <3>1, TakesFrom, NamesDiffer
    <3>3. QED
      BY <1>3, <3>1, <3>2
  <2>4. BlocksOf(OfKind(buffer.tail, Streamed)) \subseteq BlocksOf(OfKind(buffer'.tail, Streamed))
    BY <2>1, TailTaken DEF BlocksOf, OfKind
  <2>5. "tail" \notin torn' => "tail" \notin torn
    BY <1>1, <1>2, <2>1
  <2>6. QED
    BY <1>1, <2>1, <2>2, <2>3, <2>4, <2>5 DEF Whole
<1>6. QED
  BY <1>4, <1>5 DEF Takes

(* Steps that neither emit nor record. *)
Still ==
    \/ StoreInput \/ SendInput \/ Stores \/ Trims \/ ChildRow
    \/ Socket \/ Subscribe \/ UNCHANGED vars

LEMMA StepWays ==
    ASSUME TypeInv, ShapeInv, [Next]_vars
    PROVE  Still \/ (\E ev \in Events : Emits(ev)) \/ (\E e \in Entries : Takes(e))
BY CoreWays, ConsumerWays DEF Next, Still

LEMMA StillEffect ==
    ASSUME TypeInv, Still
    PROVE  /\ turn' = turn /\ out' = out /\ told' = told
           /\ buffer'.tail \subseteq buffer.tail /\ buffer'.compact \subseteq buffer.compact
           /\ stage' = "stream" => stage = "stream"
           /\ ~Trims => torn' = torn
           /\ ~Trims /\ ~SendSnapshot => buffer' = buffer
           /\ ~(Socket \/ Subscribe) => client' = client
<1>1. CASE StoreInput \/ SendInput \/ ChildRow
  BY <1>1 DEF StoreInput, SendInput, ChildRow, coreVars
<1>2. CASE Stores
  BY <1>2 DEF Stores, StoreContext, StoreDisplay
<1>3. CASE Trims
  <2>1. /\ turn' = turn /\ out' = out /\ told' = told /\ client' = client
        /\ stage' = "stream" => stage = "stream"
    BY <1>3 DEF Trims, TrimPersisted, TrimCompact
  <2>2. buffer'.tail \subseteq buffer.tail /\ buffer'.compact \subseteq buffer.compact
    BY <1>3, TrimStepTyped DEF Parts
  <2>3. QED
    BY <1>3, <2>1, <2>2
<1>4. CASE Socket \/ Subscribe \/ UNCHANGED vars
  <2>1. Quiet /\ (buffer' = buffer \/ SendSnapshot)
    BY <1>4, QuietWays
  <2>2. SendSnapshot => buffer'.tail \subseteq buffer.tail /\ buffer'.compact \subseteq buffer.compact
    BY TrimEffect DEF SendSnapshot, TypeInv, BufferTyped, Parts
  <2>3. UNCHANGED vars => client' = client /\ buffer' = buffer
    BY DEF vars
  <2>4. QED
    BY <1>4, <2>1, <2>2, <2>3 DEF Quiet
<1>5. QED
  BY <1>1, <1>2, <1>3, <1>4 DEF Still

LEMMA AtStill ==
    ASSUME TypeInv, Still, NEW kinds, NEW k, NEW t \in Turns
    PROVE  /\ At(kinds, buffer'.tail, out', turn', k, t) => At(kinds, buffer.tail, out, turn, k, t)
           /\ At(kinds, buffer'.tail, out', Now', k, t) => At(kinds, buffer.tail, out, Now, k, t)
<1>1. out' = out /\ turn' = turn /\ buffer'.tail \subseteq buffer.tail /\ (stage' = "stream" => stage = "stream")
  BY StillEffect
<1>2. t = Now' => t = Now
  BY <1>1, BoundFacts DEF Now, Turns
<1>3. QED
  BY <1>1, <1>2 DEF At

LEMMA EarlyStill ==
    ASSUME TypeInv, Still, Early'
    PROVE  Early /\ ~SendSnapshot
<1> client \in Clients
  BY DEF TypeInv, ClientTyped
<1>1. CASE Socket \/ Subscribe
  <2>1. ~SendSnapshot
    BY DEF SendSnapshot, Early, Clients
  <2>2. CASE ReadMessages \/ ReadTasks \/ ReadContext
    BY <2>1, <2>2 DEF ReadMessages, ReadTasks, ReadContext, Early
  <2>3. CASE ~(ReadMessages \/ ReadTasks \/ ReadContext)
    BY <1>1, <2>1, <2>3, SocketEffect DEF Early
  <2>4. QED
    BY <2>2, <2>3
<1>2. CASE ~(Socket \/ Subscribe)
  <2>1. client' = client
    BY <1>2, StillEffect
  <2>2. QED
    BY <1>2, <2>1 DEF Early, Socket
<1>3. QED
  BY <1>1, <1>2

LEMMA WholeTrimmed ==
    ASSUME TypeInv, Whole, TrimPersisted("ui", "stored", Streamed)
    PROVE  Whole'
<1>1. /\ UNCHANGED <<out, told, client, turn>> /\ stage' = "stored"
      /\ torn' = torn \cup (IF OfKind(buffer.tail, Streamed) # {} /\ Unrecorded(Streamed) THEN {"tail"} ELSE {})
  BY DEF TrimPersisted
<1>2. buffer'.tail = buffer.tail \ OfKind(buffer.tail, Streamed)
  BY DEF TrimPersisted, TypeInv, BufferTyped, Buffers
<1>3. Now' = 0 /\ Now' \notin Turns
  BY <1>1, BoundFacts DEF Now, Turns
<1> SUFFICES ASSUME Early, "tail" \notin torn', NEW k \in 0..(Len(out) + 1), NEW t \in Turns, Uncut(out, 0, k),
                    At(Streamed, buffer'.tail, out, Now', k, t)
             PROVE  told \cap Stream(t) \subseteq BlocksOf(OfKind(buffer'.tail, Streamed))
  BY <1>1 DEF Whole, Early
<1>4. k \in 1..Len(out) /\ out[k].kind \in Streamed /\ OfTurn(out[k], t)
  BY <1>2, <1>3 DEF At, OfKind
<1>5. Unrecorded(Streamed)
  BY <1>4 DEF Unrecorded, TypeInv, ChannelTyped
<1>6. OfKind(buffer.tail, Streamed) = {} /\ "tail" \notin torn
  BY <1>1, <1>5
<1>7. At(Streamed, buffer.tail, out, Now, k, t)
  BY <1>4 DEF At
<1>8. told \cap Stream(t) \subseteq BlocksOf(OfKind(buffer.tail, Streamed))
  BY <1>6, <1>7 DEF Whole
<1>9. QED
  BY <1>6, <1>8 DEF BlocksOf

LEMMA WholeStill ==
    ASSUME TypeInv, Whole, Still
    PROVE  Whole'
<1>1. CASE TrimPersisted("ui", "stored", Streamed)
  BY <1>1, WholeTrimmed
<1>2. CASE ~TrimPersisted("ui", "stored", Streamed)
  <2>1. Early' => Early /\ ~SendSnapshot
    BY EarlyStill
  <2>2. out' = out /\ told' = told /\ (~Trims => torn' = torn /\ (~SendSnapshot => buffer' = buffer))
    BY StillEffect
  <2>3. ASSUME ~SendSnapshot PROVE torn \subseteq torn' /\ OfKind(buffer.tail, Streamed) = OfKind(buffer.tail, Streamed)'
    <3>1. CASE ~Trims
      BY <2>2, <2>3, <3>1
    <3>2. CASE TrimPersisted("results_ui", "settled", {"tool_result"})
      <4>1. buffer'.tail = buffer.tail \ OfKind(buffer.tail, {"tool_result"}) /\ torn \subseteq torn'
        BY <3>2 DEF TrimPersisted, TypeInv, BufferTyped, Buffers
      <4>2. QED
        BY <4>1 DEF OfKind, Streamed
    <3>3. CASE TrimCompact
      <4>1. buffer'.tail = buffer.tail /\ torn \subseteq torn'
        BY <3>3 DEF TrimCompact, TypeInv, BufferTyped, Buffers
      <4>2. QED
        BY <4>1
    <3>4. QED
      BY <1>2, <3>1, <3>2, <3>3 DEF Trims
  <2>4. \A k, t : t \in Turns /\ At(Streamed, buffer'.tail, out', Now', k, t) => At(Streamed, buffer.tail, out, Now, k, t)
    BY AtStill
  <2>5. QED
    BY <2>1, <2>2, <2>3, <2>4 DEF Whole
<1>3. QED
  BY <1>1, <1>2

LEMMA TurnStep ==
    ASSUME TypeInv, ShapeInv, FreshInv, RunInv, SameTurn, NewTurn, Whole, [Next]_vars
    PROVE  SameTurn' /\ NewTurn' /\ Whole'
<1>1. CASE \E ev \in Events : Emits(ev)
  BY <1>1, SameTurnEmitted, NewTurnEmitted, WholeEmitted
<1>2. CASE \E e \in Entries : Takes(e)
  BY <1>2, SameTurnTaken, NewTurnTaken, WholeTaken
<1>3. CASE Still
  <2>1. out' = out /\ told' = told
    BY <1>3, StillEffect
  <2>2. \A kinds, k, t : t \in Turns =>
           /\ At(kinds, buffer'.tail, out', turn', k, t) => At(kinds, buffer.tail, out, turn, k, t)
           /\ At(kinds, buffer'.tail, out', Now', k, t) => At(kinds, buffer.tail, out, Now, k, t)
    BY <1>3, AtStill
  <2>3. SameTurn'
    BY <2>1, <2>2 DEF SameTurn
  <2>4. NewTurn'
    BY <2>1, <2>2 DEF NewTurn
  <2>5. QED
    BY <1>3, <2>3, <2>4, WholeStill
<1>4. QED
  BY <1>1, <1>2, <1>3, StepWays

-----------------------------------------------------------------------------
(* A summary that the buffer still holds, or will hold, after its row was    *)
(* trimmed was torn.                                                          *)
CompactInv ==
    /\ stage \in {"summary_trimmed", "compacted"}
    /\ buffer.compact # {} \/ \E i \in 1..Len(out) : out[i].kind = "compact_summary_started"
    => "compact" \in torn

LEMMA CompactStep ==
    ASSUME TypeInv, ShapeInv, FreshInv, CompactInv, [Next]_vars
    PROVE  CompactInv'
<1>1. out \in Seq(Events) /\ buffer \in Buffers
  BY DEF TypeInv, ChannelTyped, BufferTyped
<1>2. CASE \E ev \in Events : Emits(ev)
  <2>1. PICK ev \in Events : Emits(ev)
    BY <1>2
  <2>2. out' = Append(out, ev) /\ buffer' = buffer /\ torn' = torn /\ RunStep(ev)
    BY <2>1 DEF Emits
  <2>3. stage' \in {"summary_trimmed", "compacted"} =>
          stage \in {"summary_trimmed", "compacted"} /\ ev.kind # "compact_summary_started"
    BY <2>2 DEF RunStep, ChildKinds
  <2>4. \A k \in 1..Len(out') : out'[k] = ev \/ (k \in 1..Len(out) /\ out'[k] = out[k])
    BY <1>1, <2>2, AppendFacts
  <2>5. QED
    BY <2>2, <2>3, <2>4 DEF CompactInv
<1>3. CASE \E e \in Entries : Takes(e)
  <2>1. PICK e \in Entries : Takes(e)
    BY <1>3
  <2>2. stage' = stage /\ buffer' = Record(buffer, e) /\ ("compact" \in torn => "compact" \in torn')
    BY <2>1 DEF Takes, Mended
  <2>3. buffer'.compact # {} => buffer.compact # {} \/ e.kind = "compact_summary_started"
    BY <1>1, <2>2, RecordIs
  <2>4. e.kind = "compact_summary_started" => \E i \in 1..Len(out) : out[i].kind = "compact_summary_started"
    <3>1. TakesOut(e) => 1 \in 1..Len(out) /\ out[1].kind = e.kind
      BY <1>1 DEF TakesOut
    <3>2. QED
      BY <2>1, <3>1, TakesFrom DEF Takes
  <2>5. \A k \in 1..Len(out') : \E i \in 1..Len(out) : out'[k] = out[i]
    <3>1. CASE TakesOut(e)
      <4>1. \A k \in 1..Len(out') : out'[k] = out[k + 1] /\ k + 1 \in 1..Len(out)
        BY <1>1, <3>1, TailFacts DEF TakesOut
      <4>2. QED
        BY <4>1
    <3>2. CASE TakesInbox(e)
      BY <3>2 DEF TakesInbox
    <3>3. QED
      BY <2>1, <3>1, <3>2 DEF Takes
  <2>6. QED
    BY <2>2, <2>3, <2>4, <2>5 DEF CompactInv
<1>4. CASE TrimCompact
  <2>1. buffer'.compact = {} /\ out' = out
    BY <1>1, <1>4 DEF TrimCompact, Buffers
  <2>2. torn' = torn \cup (IF Unrecorded({"compact_summary_started"}) THEN {"compact"} ELSE {})
    BY <1>4 DEF TrimCompact
  <2>3. ASSUME NEW i \in 1..Len(out), out[i].kind = "compact_summary_started" PROVE "compact" \in torn'
    BY <1>1, <2>2, <2>3 DEF Unrecorded
  <2>4. QED
    BY <2>1, <2>3 DEF CompactInv
<1>5. CASE Still /\ ~TrimCompact
  <2>1. out' = out /\ buffer'.compact \subseteq buffer.compact
    BY <1>5, StillEffect
  <2>2. stage' \in {"summary_trimmed", "compacted"} => stage' = stage /\ torn' = torn
    <3>1. CASE Trims
      BY <1>5, <3>1 DEF Trims, TrimPersisted
    <3>2. CASE Stores
      BY <3>2 DEF Stores, StoreContext, StoreDisplay
    <3>3. CASE StoreInput \/ SendInput \/ ChildRow
      BY <3>3 DEF StoreInput, SendInput, ChildRow, coreVars
    <3>4. CASE Socket \/ Subscribe \/ UNCHANGED vars
      BY <3>4, QuietWays DEF Quiet
    <3>5. QED
      BY <1>5, <3>1, <3>2, <3>3, <3>4 DEF Still
  <2>3. QED
    BY <2>1, <2>2 DEF CompactInv
<1>6. QED
  BY <1>2, <1>3, <1>4, <1>5, StepWays

-----------------------------------------------------------------------------
RecordInv ==
    /\ TypeInv /\ NumberInv /\ ShapeInv /\ FreshInv /\ RowsInv /\ StoredInv /\ RunInv
    /\ SameTurn /\ NewTurn /\ Whole /\ CompactInv

LEMMA RecordedStep == RecordInv /\ [Next]_vars => RecordInv'
BY TypeStep, NumberStep, ShapeStep, FreshStep, RowsStep, RunStays, TurnStep, CompactStep DEF RecordInv

LEMMA RecordedInit == Init => RecordInv
<1>1. Init => CompactInv
  BY DEF Init, CompactInv
<1>2. QED
  BY <1>1, TypeInit, NumberInit, ShapeInit, FreshInit, RowsInit, RunInit, TurnInit DEF RecordInv
=============================================================================
