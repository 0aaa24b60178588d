-------------------------- MODULE EventShownProofs --------------------------
(***************************************************************************)
(* A client that connects while nothing disturbs it shows each block of    *)
(* the conversation once, and what a background child of the thread has    *)
(* said, for any scenarios, turns, channel and lag.                        *)
(***************************************************************************)
EXTENDS EventBufferProofs

Proper(e) == e.kind \in ChildKinds \cup {"run_started", "run_finished"} => e.blocks \subseteq ChildBlocks

(* A tool result, which is shown once however often it comes. *)
IsResult(b) == \E t \in Turns : b = Result(t)

(* Only the event of a tool result carries one. *)
Answering(e) == \A b \in e.blocks : IsResult(b) => e.kind = "tool_result"

(* What the client applies: a child's events show nothing of the main        *)
(* conversation, a pause shows nothing, any other event its blocks.          *)
LEMMA ApplyPlain ==
    ASSUME NEW c \in Clients, NEW e \in Entries, Proper(e),
           \A b \in Plain : c.typing[b] = 0, NEW b \in Plain
    PROVE  /\ Apply(c, e).typing[b] = 0
           /\ Carries(e, b) /\ c.view[b] = 0 => Apply(c, e).view[b] = 1
           /\ Carries(e, b) /\ c.view[b] = 1 /\ e.kind = "tool_result" => Apply(c, e).view[b] = 1
           /\ ~Carries(e, b) => Apply(c, e).view[b] = c.view[b]
<1> /\ c.view \in [Blocks -> 0..2] /\ c.typing \in [Blocks -> 0..2] /\ b \in Blocks /\ b \notin ChildBlocks
    /\ c.typing[b] = 0
  BY DEF Clients, Plain
<1>1. CASE e.kind \in ChildKinds
  <2>1. b \notin e.blocks /\ ~Carries(e, b)
    BY <1>1 DEF Carries, Proper
  <2>2. /\ Add(c.typing, e.blocks)[b] = 0 /\ Add(c.view, e.blocks)[b] = c.view[b] /\ Nothing[b] = 0
        /\ Add(c.view, {x \in Blocks : c.typing[x] > 0})[b] = c.view[b]
        /\ WithoutChild(c.view)[b] = c.view[b]
    <3> DEFINE typed == {x \in Blocks : c.typing[x] > 0}
    <3>1. b \notin typed
      OBVIOUS
    <3> HIDE DEF typed
    <3>2. Add(c.view, typed)[b] = c.view[b]
      BY <3>1, AddType
    <3>3. Add(c.typing, e.blocks)[b] = 0 /\ Add(c.view, e.blocks)[b] = c.view[b]
      BY <2>1, AddType
    <3>4. Nothing[b] = 0
      BY DEF Nothing
    <3>5. WithoutChild(c.view)[b] = c.view[b]
      BY DEF WithoutChild
    <3>6. QED
      BY <3>2, <3>3, <3>4, <3>5 DEF typed
  <2>3. Apply(c, e) = ApplyChild(c, e)
    BY <1>1 DEF Apply, ChildKinds
  <2>4. ASSUME e.kind = "child_started" \/ ~c.open
        PROVE  ApplyChild(c, e).view = c.view /\ ApplyChild(c, e).typing = c.typing
    <3>1. CASE e.kind = "child_started"
      <4>1. ApplyChild(c, e) = [c EXCEPT !.open = TRUE]
        BY <3>1 DEF ApplyChild
      <4>2. QED
        BY <4>1 DEF Clients
    <3>2. CASE e.kind # "child_started"
      <4>1. ApplyChild(c, e) = c
        BY <2>4, <3>2 DEF ApplyChild
      <4>2. QED
        BY <4>1
    <3>3. QED
      BY <3>1, <3>2
  <2>5. ASSUME e.kind # "child_started", c.open
        PROVE  /\ e.kind = "child_delta" =>
                    ApplyChild(c, e).view = c.view /\ ApplyChild(c, e).typing = Add(c.typing, e.blocks)
               /\ e.kind = "child_committed" =>
                    ApplyChild(c, e).view = Add(c.view, e.blocks) /\ ApplyChild(c, e).typing = Nothing
               /\ e.kind = "child_finished" =>
                    /\ \/ ApplyChild(c, e).view = Add(c.view, {x \in Blocks : c.typing[x] > 0})
                       \/ ApplyChild(c, e).view = WithoutChild(c.view)
                    /\ ApplyChild(c, e).typing = Nothing
    <3>1. CASE e.kind = "child_delta"
      <4>1. ApplyChild(c, e) = [c EXCEPT !.typing = Add(@, e.blocks)]
        BY <2>5, <3>1 DEF ApplyChild
      <4>2. QED
        BY <3>1, <4>1 DEF Clients
    <3>2. CASE e.kind = "child_committed"
      <4>1. ApplyChild(c, e) = [c EXCEPT !.typing = Nothing, !.view = Add(@, e.blocks)]
        BY <2>5, <3>2 DEF ApplyChild
      <4>2. QED
        BY <3>2, <4>1 DEF Clients
    <3>3. CASE e.kind = "child_finished"
      <4>1. \/ ApplyChild(c, e) = [c EXCEPT !.typing = Nothing, !.view = Add(@, {x \in Blocks : c.typing[x] > 0})]
            \/ ApplyChild(c, e) = [c EXCEPT !.typing = Nothing, !.open = FALSE, !.view = WithoutChild(@)]
        BY <2>5, <3>3 DEF ApplyChild
      <4>2. QED
        BY <3>3, <4>1 DEF Clients
    <3>4. QED
      BY <3>1, <3>2, <3>3
  <2>6. QED
    BY <1>1, <2>1, <2>2, <2>3, <2>4, <2>5 DEF ChildKinds
<1>2. CASE e.kind \in {"run_started", "run_finished"}
  <2>1. Apply(c, e).view = c.view /\ Apply(c, e).typing = c.typing
    BY <1>2 DEF Apply, ChildKinds, Clients
  <2>2. QED
    BY <1>2, <2>1 DEF Carries, Proper
<1>3. CASE e.kind = "pause_requested"
  <2>1. Apply(c, e).view = c.view /\ Apply(c, e).typing = c.typing
    BY <1>3 DEF Apply, ChildKinds, Clients
  <2>2. QED
    BY <1>3, <2>1 DEF Carries
<1>4. CASE e.kind \notin ChildKinds \cup {"run_started", "run_finished", "pause_requested"}
  <2>1. Carries(e, b) <=> b \in e.blocks
    BY <1>4 DEF Carries
  <2>2. CASE e.kind = "tool_result"
    <3> DEFINE new == {x \in e.blocks : c.view[x] = 0}
    <3>1. Apply(c, e).view = Add(c.view, new) /\ Apply(c, e).typing = c.typing
      BY <1>4, <2>2 DEF Apply, Clients, ChildKinds
    <3>2. b \in new <=> b \in e.blocks /\ c.view[b] = 0
      OBVIOUS
    <3> HIDE DEF new
    <3>3. QED
      BY <2>1, <3>1, <3>2, AddType
  <2>3. CASE e.kind # "tool_result"
    <3>1. Apply(c, e).view = Add(c.view, e.blocks) /\ Apply(c, e).typing = c.typing
      BY <1>4, <2>3 DEF Apply, Clients
    <3>2. QED
      BY <2>1, <2>3, <3>1, AddType
  <2>4. QED
    BY <2>2, <2>3
<1>5. QED
  BY <1>1, <1>2, <1>3, <1>4 DEF ChildKinds

-----------------------------------------------------------------------------
(* What is held: by the buffer, by the replay that is being sent, by the     *)
(* queue of the client.                                                       *)
Held == Replay \cup {client.queue[i] : i \in Queued} \cup client.replay

HeldInv ==
    /\ \A e \in Held : Proper(e) /\ Answering(e)
    /\ \A b \in Plain : \A e \in Held : Carries(e, b) =>
          b \in told /\ \A f \in Held : Carries(f, b) => e = f
    /\ \A b \in Plain : client.typing[b] = 0

(* A block is recorded once. *)
LEMMA TakenIsNew ==
    ASSUME TypeInv, FreshInv, NEW e \in Entries, Takes(e), NEW b \in Plain, Carries(e, b)
    PROVE  b \notin told /\ b \in told'
<1>1. out \in Seq(Events) /\ inbox \in Seq(Events)
  BY DEF TypeInv, ChannelTyped
<1>2. b \in e.blocks /\ e.kind # "pause_requested" /\ b \in told'
  BY DEF Carries, Takes
<1>3. CASE TakesOut(e)
  <2>1. 1 \in 1..Len(out) /\ e.kind = out[1].kind /\ b \in out[1].blocks
    BY <1>1, <1>2, <1>3 DEF TakesOut
  <2>2. QED
    BY <1>2, <2>1 DEF FreshInv, Given
<1>4. CASE TakesInbox(e)
  <2>1. 1 \in 1..Len(inbox) /\ b \in inbox[1].blocks
    BY <1>1, <1>2, <1>4 DEF TakesInbox
  <2>2. QED
    BY <1>2, <2>1 DEF FreshInv, Given
<1>5. QED
  BY <1>3, <1>4 DEF Takes

(* What is held after a step was held before, but for what is recorded and    *)
(* for a child's entries, which are merged.                                   *)
LEMMA HeldTaken ==
    ASSUME RecordInv, RecordInv', NEW e \in Entries, Takes(e)
    PROVE  /\ \A f \in Held' : f \in Held \/ f = e \/ f \in buffer'.child
           /\ \A f \in Replay' : f \in Replay \/ f = e \/ f \in buffer'.child
           /\ client'.typing = client.typing
<1>1. TypeInv /\ TypeInv' /\ BufferTyped /\ BufferTyped'
  BY DEF RecordInv, TypeInv
<1>2. PICK event \in Events : Consumes(event, e)
  BY DEF Takes
<1>3. /\ Replay = buffer.prefix \cup buffer.run \cup buffer.tail \cup buffer.compact \cup buffer.child
      /\ Replay' = buffer'.prefix \cup buffer'.run \cup buffer'.tail \cup buffer'.compact \cup buffer'.child
  <2>1. Replay = buffer.prefix \cup buffer.run \cup buffer.tail \cup buffer.compact \cup buffer.child
    BY <1>1, ReplayIs
  <2>2. Replay' = buffer'.prefix \cup buffer'.run \cup buffer'.tail \cup buffer'.compact \cup buffer'.child
    BY <1>1 DEF Replay, BufferTyped, Buffers
  <2>3. QED
    BY <2>1, <2>2
<1>4. \A part \in Parts \ {"child"} : buffer'[part] \subseteq buffer[part] \cup {e}
  BY <1>1, RecordEffect DEF Takes, BufferTyped
<1>5. \A f \in Replay' : f \in Replay \/ f = e \/ f \in buffer'.child
  BY <1>3, <1>4 DEF Parts
<1>6. client'.replay = client.replay /\ client'.typing = client.typing
  BY <1>1, <1>2, ClientRecorded
<1>7. \A i \in Queued' : client'.queue[i] = e \/ \E j \in Queued : client'.queue[i] = client.queue[j]
  <2>1. CASE client.phase = "off"
    <3>1. client' = client
      BY <1>1, <1>2, <2>1, ClientRecorded
    <3>2. QED
      BY <3>1 DEF Queued
  <2>2. CASE client.phase # "off"
    <3>1. client.queue \in Seq(Entries)
      BY <1>1 DEF TypeInv, ClientTyped, Clients
    <3>2. /\ Len(client'.queue) = Len(client.queue) + 1 /\ client'.queue[Len(client.queue) + 1] = e
          /\ \A i \in 1..Len(client.queue) : client'.queue[i] = client.queue[i]
      BY <1>1, <1>2, <2>2, ClientRecorded
    <3>3. QED
      BY <3>1, <3>2 DEF Queued
  <2>3. QED
    BY <2>1, <2>2
<1>8. \A f \in {client'.queue[i] : i \in Queued'} : f = e \/ f \in {client.queue[i] : i \in Queued}
  BY <1>7
<1>9. QED
  BY <1>5, <1>6, <1>8 DEF Held

LEMMA BufferStill ==
    ASSUME TypeInv, TypeInv', Still \/ \E ev \in Events : Emits(ev)
    PROVE  Replay' \subseteq Replay
<1>1. BufferTyped /\ BufferTyped'
  BY DEF TypeInv
<1>2. \A part \in Parts : buffer'[part] \subseteq buffer[part]
  <2>1. CASE buffer' = buffer
    BY <2>1
  <2>2. CASE Trims
    BY <2>2, TrimStepTyped
  <2>3. CASE SendSnapshot
    BY <1>1, <2>3, TrimEffect DEF SendSnapshot, BufferTyped
  <2>4. QED
    BY <2>1, <2>2, <2>3, StillEffect DEF Emits
<1>3. /\ Replay = buffer.prefix \cup buffer.run \cup buffer.tail \cup buffer.compact \cup buffer.child
      /\ Replay' = buffer'.prefix \cup buffer'.run \cup buffer'.tail \cup buffer'.compact \cup buffer'.child
  <2>1. Replay = buffer.prefix \cup buffer.run \cup buffer.tail \cup buffer.compact \cup buffer.child
    BY <1>1, ReplayIs
  <2>2. Replay' = buffer'.prefix \cup buffer'.run \cup buffer'.tail \cup buffer'.compact \cup buffer'.child
    BY <1>1 DEF Replay, BufferTyped, Buffers
  <2>3. QED
    BY <2>1, <2>2
<1>4. QED
  BY <1>2, <1>3 DEF Parts

(* Receiving: e is applied to a client c that shows what it showed. *)
Receives(e) ==
    \E c \in Clients :
       /\ c.view = client.view /\ c.typing = client.typing /\ c.open = client.open
       /\ client' = Apply(c, e)

LEMMA ReplayReceived ==
    ASSUME TypeInv, ReceiveReplay
    PROVE  \E e \in client.replay :
              /\ e \in Entries /\ Receives(e)
              /\ \A x \in client.replay : e.seq <= x.seq
              /\ client'.replay = client.replay \ {e}
              /\ client'.through = IF e.seq > client.through THEN e.seq ELSE client.through
              /\ client'.queue = client.queue /\ client'.phase = "replaying" /\ client.phase = "replaying"
<1> client \in Clients
  BY DEF TypeInv, ClientTyped
<1>1. client.phase = "replaying"
  BY DEF ReceiveReplay
<1>2. PICK e \in client.replay :
        /\ \A x \in client.replay : e.seq <= x.seq
        /\ client' = Apply([client EXCEPT !.replay = @ \ {e},
                                         !.through = IF e.seq > @ THEN e.seq ELSE @], e)
  BY DEF ReceiveReplay
<1> DEFINE c == [client EXCEPT !.replay = @ \ {e}, !.through = IF e.seq > @ THEN e.seq ELSE @]
<1>3. e \in Entries /\ e.seq \in Nat /\ client.through \in Nat
  BY DEF Clients, Entries
<1>4. c \in Clients
  BY <1>3 DEF Clients
<1>5. /\ c.phase = "replaying" /\ c.queue = client.queue /\ c.replay = client.replay \ {e}
      /\ c.through = IF e.seq > client.through THEN e.seq ELSE client.through
      /\ c.view = client.view /\ c.typing = client.typing /\ c.open = client.open
  BY <1>1, <1>3 DEF Clients
<1>6. client' = Apply(c, e)
  BY <1>2
<1> HIDE DEF c
<1>7. /\ client'.phase = c.phase /\ client'.queue = c.queue /\ client'.replay = c.replay
      /\ client'.through = c.through
  BY <1>3, <1>4, <1>6, ApplyType
<1>8. Receives(e)
  BY <1>4, <1>5, <1>6 DEF Receives
<1>9. QED
  BY <1>1, <1>2, <1>3, <1>5, <1>7, <1>8

LEMMA LiveReceived ==
    ASSUME TypeInv, ReceiveLive
    PROVE  LET e == client.queue[1] IN
           /\ client.queue # <<>> /\ e \in Entries /\ client.phase = "live" /\ client'.phase = "live"
           /\ client'.queue = Tail(client.queue)
           /\ client'.replay = client.replay /\ client'.through = client.through
           /\ \/ /\ e.seq <= client.through
                 /\ client'.view = client.view /\ client'.typing = client.typing /\ client'.open = client.open
              \/ ~(e.seq <= client.through) /\ Receives(e)
<1> DEFINE e == client.queue[1]
           c == [client EXCEPT !.queue = Tail(@)]
<1>1. /\ client \in Clients /\ client.queue \in Seq(Entries)
  BY DEF TypeInv, ClientTyped, Clients
<1>2. /\ client.phase = "live" /\ client.queue # <<>> /\ e = Head(client.queue)
      /\ client' = IF e.seq <= client.through THEN c ELSE Apply(c, e)
  BY <1>1, TailFacts DEF ReceiveLive
<1>3. e \in Entries /\ Tail(client.queue) \in Seq(Entries)
  BY <1>1, <1>2, TailFacts
<1>4. c \in Clients /\ c.view = client.view /\ c.typing = client.typing /\ c.open = client.open
  BY <1>1, <1>3 DEF Clients
<1>5. /\ client'.phase = "live" /\ client'.queue = Tail(client.queue) /\ client'.through = client.through
      /\ client'.replay = client.replay
  BY <1>2, SocketEffect DEF Socket, ReceiveLive
<1> HIDE DEF c
<1>6. \/ /\ e.seq <= client.through
         /\ client'.view = client.view /\ client'.typing = client.typing /\ client'.open = client.open
      \/ ~(e.seq <= client.through) /\ Receives(e)
  BY <1>2, <1>4 DEF Receives
<1>7. QED
  BY <1>2, <1>3, <1>5, <1>6

LEMMA HeldStill ==
    ASSUME RecordInv, RecordInv', HeldInv, Still \/ \E ev \in Events : Emits(ev)
    PROVE  HeldInv' /\ Held' \subseteq Held
<1>1. TypeInv /\ TypeInv' /\ client \in Clients /\ BufferTyped
  BY DEF RecordInv, TypeInv, ClientTyped
<1>2. Replay' \subseteq Replay /\ told' = told
  BY <1>1, BufferStill, StillEffect DEF Emits
<1>3. \A b \in Plain : b \in Blocks
  BY DEF Plain
<1>4. /\ client'.replay \subseteq client.replay \cup Replay
      /\ \A i \in Queued' : \E j \in Queued : client'.queue[i] = client.queue[j]
      /\ \A b \in Plain : client'.typing[b] = 0
  <2>1. CASE client' = client
    BY <2>1 DEF Queued, HeldInv
  <2>2. CASE SendSnapshot
    <3>1. client'.queue = client.queue /\ client'.replay = client.replay /\ client'.typing = Nothing
      BY <1>1, <2>2 DEF SendSnapshot, Clients
    <3>2. QED
      BY <1>3, <3>1 DEF Queued, Nothing
  <2>3. CASE ReadMessages \/ ReadTasks \/ ReadContext \/ SendStatus
    <3>1. client'.queue = client.queue /\ client'.replay = client.replay /\ client'.typing = client.typing
      BY <1>1, <2>3 DEF ReadMessages, ReadTasks, ReadContext, SendStatus, Clients
    <3>2. QED
      BY <3>1 DEF Queued, HeldInv
  <2>4. CASE Subscribe
    <3>1. client'.queue = <<>> /\ client'.replay = client.replay /\ client'.typing = client.typing
      BY <1>1, <2>4 DEF Subscribe, Clients
    <3>2. QED
      BY <3>1 DEF Queued, HeldInv
  <2>5. CASE TakeReplay
    <3>1. client'.queue = client.queue /\ client'.replay = Replay /\ client'.typing = client.typing
      BY <1>1, <2>5 DEF TakeReplay, Clients
    <3>2. QED
      BY <3>1 DEF Queued, HeldInv
  <2>6. CASE ReceiveReplay
    <3>1. PICK e \in client.replay :
             e \in Entries /\ Receives(e) /\ client'.replay = client.replay \ {e} /\ client'.queue = client.queue
      BY <1>1, <2>6, ReplayReceived
    <3>2. Proper(e)
      BY <3>1 DEF HeldInv, Held
    <3>3. \A b \in Plain : client'.typing[b] = 0
      BY <3>1, <3>2, ApplyPlain DEF Receives, HeldInv
    <3>4. QED
      BY <3>1, <3>3 DEF Queued
  <2>7. CASE ReceiveLive
    <3> DEFINE e == client.queue[1]
    <3>1. /\ client.queue # <<>> /\ e \in Entries /\ client'.queue = Tail(client.queue)
          /\ client'.replay = client.replay
          /\ client'.typing = client.typing \/ Receives(e)
      BY <1>1, <2>7, LiveReceived
    <3>2. client.queue \in Seq(Entries)
      BY <1>1 DEF Clients
    <3>3. 1 \in Queued /\ \A i \in Queued' : i + 1 \in Queued /\ client'.queue[i] = client.queue[i + 1]
      BY <3>1, <3>2, TailFacts DEF Queued
    <3>4. Proper(e)
      BY <3>3 DEF HeldInv, Held
    <3> HIDE DEF e
    <3>5. \A b \in Plain : client'.typing[b] = 0
      BY <3>1, <3>4, ApplyPlain DEF Receives, HeldInv
    <3>6. QED
      BY <3>1, <3>3, <3>5
  <2>8. QED
    BY <1>1, <2>1, <2>2, <2>3, <2>4, <2>5, <2>6, <2>7, StillEffect DEF Emits, Socket
<1>5. Held' \subseteq Held
  BY <1>2, <1>4 DEF Held
<1>6. QED
  BY <1>2, <1>4, <1>5 DEF HeldInv

LEMMA HeldStep ==
    ASSUME RecordInv, RecordInv', HeldInv, [Next]_vars
    PROVE  HeldInv'
<1>1. CASE \E e \in Entries : Takes(e)
  <2>1. PICK e \in Entries : Takes(e)
    BY <1>1
  <2>2. \A f \in Held' : f \in Held \/ f = e \/ f \in buffer'.child
    BY <2>1, HeldTaken
  <2>3. \A f \in buffer'.child : f.blocks \subseteq ChildBlocks
    BY DEF RecordInv, ShapeInv, Shaped
  <2>4. \A f \in Held' : Proper(f) /\ Answering(f)
    <3>1. Shape(e) /\ e.kind \in Kinds
      BY <2>1 DEF Takes, Entries
    <3>2. Proper(e)
      BY <3>1 DEF Shape, Proper, Cuts
    <3>3. Answering(e)
      <4> SUFFICES ASSUME NEW b \in e.blocks, NEW t \in Turns, b = Result(t) PROVE e.kind = "tool_result"
        BY DEF Answering, IsResult
      <4>1. b[1] = "result" /\ b \notin ChildBlocks
        BY NamesDiffer, ChildIsNotPlain
      <4>2. CASE e.kind \in {"text_delta", "tool_use", "pause_requested", "user_message_injected", "compact_summary_finished"}
        BY <3>1, <4>1, <4>2, NamesDiffer DEF Shape
      <4>3. CASE e.kind \in ChildKinds \/ Cuts(e) \/ e.kind \in {"compact_summary_started", "compact_summary_failed"}
        BY <3>1, <4>1, <4>3 DEF Shape
      <4>4. QED
        BY <3>1, <4>2, <4>3, KindFacts DEF Cuts, ChildKinds
    <3>4. \A f \in buffer'.child : Answering(f)
      BY <2>3, ChildIsNotPlain DEF Answering, IsResult
    <3>5. QED
      BY <2>2, <2>3, <3>2, <3>3, <3>4 DEF HeldInv, Proper
  <2>5. \A b \in Plain : \A f \in Held' : Carries(f, b) => f \in Held \/ f = e
    BY <2>2, <2>3 DEF Plain, Carries
  <2>6. \A b \in Plain : Carries(e, b) => b \notin told /\ b \in told'
    BY <2>1, TakenIsNew DEF RecordInv
  <2>7. \A b \in Plain : b \in told => b \in told'
    BY <2>1 DEF Takes
  <2>8. \A b \in Plain : \A f \in Held' : Carries(f, b) => b \in told' /\ \A g \in Held' : Carries(g, b) => f = g
    BY <2>5, <2>6, <2>7 DEF HeldInv
  <2>9. client'.typing = client.typing
    BY <2>1, HeldTaken
  <2>10. QED
    BY <2>4, <2>8, <2>9 DEF HeldInv
<1>2. CASE Still \/ \E ev \in Events : Emits(ev)
  BY <1>2, HeldStill
<1>3. QED
  BY <1>1, <1>2, StepWays DEF RecordInv

-----------------------------------------------------------------------------
(* A calm connection.  Until it has its snapshot, what was recorded is in    *)
(* the rows or in the tail of the buffer; what was stored is recorded, and   *)
(* neither the queue nor, after the snapshot, the buffer has it, a tool       *)
(* result excepted.                                                           *)
Joining == Connecting /\ calm

KeptInv ==
    client.phase = "off" \/ Joining =>
       \A b \in Plain : b \in told => b \in rows.ui \/ \E e \in buffer.tail : Carries(e, b)

SnapshotTaken ==
    /\ \A b \in Plain : client.view[b] = IF b \in rows.ui THEN 1 ELSE 0
    /\ \A b \in Plain : \A e \in Replay : Carries(e, b) => b \notin rows.ui \/ IsResult(b)

JoinInv ==
    /\ Early \/ client.phase = "snapshot" => client.through = 0
    /\ client.phase = "live" => client.replay = {}
    /\ Joining =>
        /\ rows.ui \subseteq told /\ UNION rows.llm \subseteq rows.ui /\ torn = {}
        /\ \A i \in Queued : \A b \in Plain : Carries(client.queue[i], b) => b \notin rows.ui
        /\ client.phase \in {"ui", "tasks", "llm"} => client.read.ui = rows.ui
        /\ client.phase = "llm" => client.read.llm = rows.llm
        /\ client.phase = "snapshot" => SnapshotTaken

LEMMA TailOfTurn ==
    ASSUME RecordInv, NEW e \in buffer.tail, NEW f \in buffer.tail, e.kind \in TurnKinds, f.kind \in TurnKinds,
           NEW s \in Turns, NEW t \in Turns, OfTurn(e, s), OfTurn(f, t)
    PROVE  s = t
<1>1. 0 \in 0..(Len(out) + 1) /\ 0 <= 0 /\ Uncut(out, 0, 0)
  BY DEF RecordInv, TypeInv, ChannelTyped, Uncut
<1>2. At(TurnKinds, buffer.tail, out, turn, 0, s) /\ At(TurnKinds, buffer.tail, out, turn, 0, t)
  BY DEF At
<1>3. QED
  BY <1>1, <1>2 DEF RecordInv, SameTurn

LEMMA RecordedShape ==
    ASSUME RecordInv, NEW e \in buffer.tail, NEW b \in Plain, Carries(e, b)
    PROVE  \/ e.kind \in Streamed /\ e.blocks = {b} /\ \E t \in Turns : b \in Stream(t) /\ OfTurn(e, t)
           \/ e.kind = "tool_result" /\ e.blocks = {b} /\ \E t \in Turns : b = Result(t) /\ OfTurn(e, t)
           \/ e.kind = "user_message_injected" /\ e.blocks = {b}
<1>1. Shape(e) /\ e.kind \in TailKinds /\ b \in e.blocks /\ e.kind # "pause_requested"
  BY DEF RecordInv, ShapeInv, Shaped, Carries
<1>2. CASE e.kind = "text_delta"
  <2>1. PICK t \in Turns, n \in 1..MaxDeltas : e.blocks = {Text(t, n)}
    BY <1>1, <1>2 DEF Shape
  <2>2. QED
    BY <1>1, <1>2, <2>1, NamesDiffer DEF Streamed, Stream, OfTurn
<1>3. CASE e.kind = "tool_use"
  <2>1. PICK t \in Turns : e.blocks = {Use(t)}
    BY <1>1, <1>3 DEF Shape
  <2>2. QED
    BY <1>1, <1>3, <2>1, NamesDiffer DEF Streamed, Stream, OfTurn
<1>4. CASE e.kind = "tool_result"
  <2>1. PICK t \in Turns : e.blocks = {Result(t)}
    BY <1>1, <1>4 DEF Shape
  <2>2. QED
    BY <1>1, <1>4, <2>1, NamesDiffer DEF OfTurn
<1>5. CASE e.kind = "user_message_injected"
  BY <1>1, <1>5 DEF Shape
<1>6. CASE Cuts(e)
  BY <1>1, <1>6 DEF Shape
<1>7. QED
  BY <1>1, <1>2, <1>3, <1>4, <1>5, <1>6 DEF TailKinds, TurnKinds, Streamed, Cuts

(* A stream whose message is stored is in the buffer as it was stored. *)
LEMMA StreamStored ==
    ASSUME RecordInv, HeldInv, JoinInv, Joining, client.phase = "llm",
           NEW e \in buffer.tail, e.kind \in Streamed, NEW t \in Turns, OfTurn(e, t),
           rows.ui \cap Stream(t) # {}
    PROVE  BlocksOf(OfKind(buffer.tail, Streamed)) = rows.ui \cap Stream(t)
<1>1. /\ TypeInv /\ SameTurn /\ Whole /\ RowsInv /\ StoredInv /\ BufferTyped
      /\ rows.ui \subseteq told /\ torn = {} /\ Early
  BY DEF RecordInv, TypeInv, JoinInv, Early
<1>2. told \cap Stream(t) \subseteq BlocksOf(OfKind(buffer.tail, Streamed))
  <2>1. 0 \in 0..(Len(out) + 1) /\ Uncut(out, 0, 0) /\ At(Streamed, buffer.tail, out, Now, 0, t)
    BY <1>1 DEF TypeInv, ChannelTyped, Uncut, At
  <2>2. QED
    BY <1>1, <2>1 DEF Whole
<1>3. PICK x \in rows.ui : x \in Stream(t)
  OBVIOUS
<1>4. x[1] \in {"text", "use"} /\ x[2] = t
  BY <1>3, StreamFacts
<1>5. t < turn \/ (t = turn /\ stage \notin {"stream", "llm"})
  BY <1>1, <1>4 DEF RowsInv
<1>6. ASSUME NEW c \in BlocksOf(OfKind(buffer.tail, Streamed)) PROVE c \in rows.ui \cap Stream(t)
  <2>1. PICK f \in buffer.tail : f.kind \in Streamed /\ c \in f.blocks
    BY <1>6 DEF BlocksOf, OfKind
  <2>2. Shape(f)
    BY DEF RecordInv, ShapeInv, Shaped
  <2>3. PICK s \in Turns : c \in Stream(s)
    <3>1. CASE f.kind = "text_delta"
      BY <2>1, <2>2, <3>1 DEF Shape, Stream
    <3>2. CASE f.kind = "tool_use"
      BY <2>1, <2>2, <3>2 DEF Shape, Stream
    <3>3. QED
      BY <2>1, <3>1, <3>2 DEF Streamed
  <2>4. c \in Plain /\ c[1] \in {"text", "use"} /\ c[2] = s
    BY <2>3, StreamFacts
  <2>5. s = t
    <3>1. OfTurn(f, s)
      BY <2>1, <2>4 DEF OfTurn
    <3>2. QED
      BY <2>1, <3>1, TailOfTurn DEF TurnKinds
  <2>6. c \in told
    <3>1. f \in Held /\ Carries(f, c)
      BY <1>1, <2>1, ReplayIs DEF Held, Carries, Streamed
    <3>2. QED
      BY <2>4, <3>1 DEF HeldInv
  <2>7. ~Unstored(c)
    <3>1. c \in Message => t = turn
      BY <1>1, <2>4, <2>5, MessageFacts
    <3>2. turn \in Nat
      BY <1>1, BoundFacts DEF TypeInv, RunTyped
    <3>3. c # Result(turn)
      BY <2>4, NamesDiffer
    <3>4. QED
      BY <1>5, <3>1, <3>2, <3>3 DEF Unstored
  <2>8. c \in rows.ui
    BY <1>1, <2>4, <2>6, <2>7 DEF StoredInv, Emitted, Given
  <2>9. QED
    BY <2>3, <2>5, <2>8
<1>7. QED
  BY <1>1, <1>2, <1>6

LEMMA SnapshotTrims ==
    ASSUME RecordInv, RecordInv', HeldInv, JoinInv, Joining, SendSnapshot
    PROVE  /\ \A e \in buffer.tail : e \in buffer'.tail \/ \A b \in Plain : Carries(e, b) => b \in rows.ui
           /\ \A e \in Replay' : \A b \in Plain : Carries(e, b) => b \notin rows.ui \/ IsResult(b)
<1>1. /\ TypeInv /\ buffer \in Buffers /\ BufferTyped /\ BufferTyped' /\ RowsInv
      /\ client.phase = "llm" /\ client.read.ui = rows.ui /\ client.read.llm = rows.llm
      /\ UNION rows.llm \subseteq rows.ui /\ torn = {}
  BY DEF RecordInv, TypeInv, BufferTyped, JoinInv, SendSnapshot
<1> DEFINE known == {e \in buffer.prefix \cup buffer.tail : e.kind = "user_message_injected" /\ e.blocks \subseteq rows.ui}
           Stored(kinds) == LET part == OfKind(buffer.tail, kinds)
                            IN IF part # {} /\ BlocksOf(part) \in rows.llm THEN part ELSE {}
<1>2. /\ buffer'.prefix = buffer.prefix \ known
      /\ buffer'.tail = buffer.tail \ (known \cup Stored(Streamed)
                                           \cup (IF "reorder" \in scope THEN {} ELSE Stored({"tool_result"})))
      /\ buffer'.run = buffer.run /\ buffer'.compact = buffer.compact /\ buffer'.child = buffer.child
  BY <1>1 DEF SendSnapshot, TrimBySnapshot, Buffers
<1>3. ASSUME NEW kinds, NEW e \in Stored(kinds), NEW b \in e.blocks PROVE b \in rows.ui
  <2>1. e \in OfKind(buffer.tail, kinds) /\ BlocksOf(OfKind(buffer.tail, kinds)) \in rows.llm
    BY <1>3
  <2>2. b \in BlocksOf(OfKind(buffer.tail, kinds))
    BY <2>1 DEF BlocksOf
  <2>3. QED
    BY <1>1, <2>1, <2>2
<1>4. \A e \in buffer.tail : e \in buffer'.tail \/ \A b \in Plain : Carries(e, b) => b \in rows.ui
  <2>1. ASSUME NEW e \in buffer.tail, e \notin buffer'.tail, NEW b \in e.blocks PROVE b \in rows.ui
    <3>1. e \in known \/ e \in Stored(Streamed) \/ e \in Stored({"tool_result"})
      BY <1>2, <2>1
    <3>2. e \in known => b \in rows.ui
      OBVIOUS
    <3>3. QED
      BY <1>3, <3>1, <3>2
  <2>2. QED
    BY <2>1 DEF Carries
<1>5. ASSUME NEW kinds, NEW e \in buffer.tail, e.kind \in kinds, BlocksOf(OfKind(buffer.tail, kinds)) \in rows.llm
      PROVE  e \in Stored(kinds)
  BY <1>5 DEF OfKind
<1>6. \A e \in known : e \notin buffer'.prefix /\ e \notin buffer'.tail
  BY <1>2
<1>7. \A e \in Stored(Streamed) : e \notin buffer'.tail
  BY <1>2
<1>8. \A e \in buffer.prefix \cup buffer.tail : e.kind = "user_message_injected" /\ e.blocks \subseteq rows.ui => e \in known
  OBVIOUS
<1>9. buffer'.prefix \subseteq buffer.prefix /\ buffer'.tail \subseteq buffer.tail
  BY <1>2
<1> HIDE DEF known, Stored
<1> SUFFICES ASSUME NEW e \in Replay', NEW b \in Plain, Carries(e, b), b \in rows.ui, ~IsResult(b) PROVE FALSE
  BY <1>4
<1>10. e \in buffer'.prefix \cup buffer'.run \cup buffer'.tail \cup buffer'.compact \cup buffer'.child
  BY <1>1 DEF Replay, BufferTyped, Buffers
<1>11. Shaped(buffer) /\ b \in e.blocks
  BY DEF RecordInv, ShapeInv, Carries
<1>12. CASE e \in buffer'.prefix
  <2>1. e.kind = "user_message_injected" /\ e.blocks = {b} /\ e \in buffer.prefix
    BY <1>9, <1>11, <1>12 DEF Shaped, Shape
  <2>2. QED
    BY <1>6, <1>8, <1>12, <2>1
<1>13. CASE e \in buffer'.run \cup buffer'.child
  BY <1>2, <1>11, <1>13 DEF Shaped, Plain
<1>14. CASE e \in buffer'.compact
  <2>1. e \in buffer.compact /\ e.blocks = {b} /\ b = Summary
    BY <1>2, <1>11, <1>14 DEF Shaped, Shape
  <2>2. e \in Held
    BY <1>1, <2>1, ReplayIs DEF Held
  <2>3. b \in told
    BY <2>2 DEF HeldInv
  <2>4. Issued(Summary)
    BY <2>1, <2>3 DEF RecordInv, FreshInv, Emitted, Given
  <2>5. stage = "compacted"
    BY <2>4, NamesDiffer DEF Issued
  <2>6. QED
    BY <1>1, <2>1, <2>5 DEF RecordInv, CompactInv
<1>15. CASE e \in buffer'.tail
  <2>1. e \in buffer.tail
    BY <1>9, <1>15
  <2>2. CASE e.kind = "user_message_injected" /\ e.blocks = {b}
    BY <1>6, <1>8, <1>15, <2>1, <2>2
  <2>3. CASE e.kind \in Streamed /\ \E t \in Turns : b \in Stream(t) /\ OfTurn(e, t)
    <3>1. PICK t \in Turns : b \in Stream(t) /\ OfTurn(e, t)
      BY <2>3
    <3>2. BlocksOf(OfKind(buffer.tail, Streamed)) = rows.ui \cap Stream(t) /\ rows.ui \cap Stream(t) # {}
      BY <1>1, <2>1, <2>3, <3>1, StreamStored
    <3>3. BlocksOf(OfKind(buffer.tail, Streamed)) \in rows.llm
      BY <1>1, <3>2 DEF RowsInv
    <3>4. QED
      BY <1>5, <1>7, <1>15, <2>1, <2>3, <3>3
  <2>4. CASE e.kind = "tool_result" /\ e.blocks = {b} /\ \E t \in Turns : b = Result(t) /\ OfTurn(e, t)
    BY <2>4 DEF IsResult
  <2>5. QED
    BY <2>1, <2>2, <2>3, <2>4, RecordedShape
<1>16. QED
  BY <1>10, <1>12, <1>13, <1>14, <1>15

LEMMA ShownParts ==
    ASSUME RecordInv
    PROVE  /\ TypeInv /\ ShapeInv /\ FreshInv /\ RowsInv /\ StoredInv /\ RunInv /\ NumberInv
           /\ client \in Clients /\ BufferTyped /\ buffer \in Buffers /\ RowsTyped
           /\ out \in Seq(Events) /\ inbox \in Seq(Events) /\ client.queue \in Seq(Entries)
BY DEF RecordInv, TypeInv, ClientTyped, BufferTyped, ChannelTyped, Clients

LEMMA JoinInit == Init => HeldInv /\ KeptInv /\ JoinInv
<1> SUFFICES ASSUME Init PROVE HeldInv /\ KeptInv /\ JoinInv
  OBVIOUS
<1>1. /\ client.phase = "off" /\ client.queue = <<>> /\ client.replay = {} /\ client.through = 0
      /\ client.typing = Nothing /\ told = {} /\ ~calm
  BY DEF Init
<1>2. Replay = {}
  BY DEF Init, EmptyBuffer, Replay
<1>3. Held = {}
  BY <1>1, <1>2 DEF Held, Queued
<1>4. \A b \in Plain : client.typing[b] = 0
  BY <1>1 DEF Nothing, Plain
<1>5. QED
  BY <1>1, <1>3, <1>4 DEF HeldInv, KeptInv, JoinInv, Joining, Early

(* What is recorded is kept until its row is written. *)
LEMMA TellsOrKeeps ==
    ASSUME RecordInv, NEW e \in Entries, Takes(e), NEW b \in Plain, b \in e.blocks
    PROVE  b \in told \/ b \in rows.ui \/ (e \in buffer'.tail /\ Carries(e, b))
<1> /\ TypeInv /\ ShapeInv /\ FreshInv /\ StoredInv /\ RunInv
  BY ShownParts
<1>1. Shape(e) /\ b \notin ChildBlocks /\ Emitted(b)
  BY TakesEmitted DEF Takes, Plain
<1>2. ASSUME b[1] \notin {"text", "use", "result"} PROVE b \in rows.ui
  <2>1. ~Unstored(b)
    BY <1>2, MessageFacts, NamesDiffer DEF Unstored
  <2>2. QED
    BY <1>1, <2>1 DEF StoredInv
<1>3. CASE e.kind \in TurnKinds
  <2>1. e \in buffer'.tail
    BY <1>3, TailTaken
  <2>2. QED
    BY <1>3, <2>1 DEF Carries, TurnKinds, Streamed
<1>4. CASE e.kind = "pause_requested"
  <2>1. out \in Seq(Events) /\ TakesOut(e)
    BY <1>4, TakesFrom, ShownParts DEF Takes
  <2>2. 1 \in 1..Len(out) /\ out[1].kind = "pause_requested" /\ b \in out[1].blocks
    BY <1>4, <2>1 DEF TakesOut
  <2>3. Given(told, out, b, 1)
    BY <2>2 DEF FreshInv
  <2>4. QED
    BY <2>3 DEF Given
<1>5. CASE e.kind = "user_message_injected"
  BY <1>1, <1>2, <1>5, NamesDiffer DEF Shape
<1>6. CASE e.kind = "compact_summary_finished"
  BY <1>1, <1>2, <1>6, NamesDiffer DEF Shape
<1>7. CASE e.kind \in ChildKinds \/ Cuts(e) \/ e.kind \in {"compact_summary_started", "compact_summary_failed"}
  BY <1>1, <1>7 DEF Shape
<1>8. QED
  <2>1. e.kind \in Kinds
    BY DEF Entries
  <2>2. QED
    BY <1>3, <1>4, <1>5, <1>6, <1>7, <2>1, KindFacts DEF TurnKinds, Streamed, Cuts, ChildKinds

LEMMA CutIsStored ==
    ASSUME RecordInv, NEW e \in Entries, Takes(e), Cuts(e), NEW b \in Plain, b \in told
    PROVE  b \in rows.ui
<1> /\ TypeInv /\ ShapeInv /\ FreshInv /\ StoredInv /\ RunInv /\ out \in Seq(Events)
  BY ShownParts
<1>1. TakesOut(e)
  BY TailTaken
<1>2. 1 \in 1..Len(out) /\ Cuts(out[1])
  BY <1>1 DEF TakesOut, Cuts
<1>3. Given(told, out, b, 1)
  BY DEF Given
<1>4. QED
  BY <1>2, <1>3 DEF StoredInv

LEMMA KeptTaken ==
    ASSUME RecordInv, KeptInv, NEW e \in Entries, Takes(e)
    PROVE  KeptInv'
<1> /\ TypeInv /\ ShapeInv /\ FreshInv /\ RunInv
  BY ShownParts
<1>1. client'.phase = client.phase /\ calm' = calm /\ rows' = rows
  BY ClientRecorded DEF Takes
<1> SUFFICES ASSUME client.phase = "off" \/ Joining, NEW b \in Plain, b \in told'
             PROVE  b \in rows.ui \/ \E f \in buffer'.tail : Carries(f, b)
  BY <1>1 DEF KeptInv, Joining, Connecting
<1>2. b \in told \/ b \in e.blocks
  BY DEF Takes
<1>3. CASE b \in told
  <2>1. b \in rows.ui \/ \E f \in buffer.tail : Carries(f, b)
    BY <1>3 DEF KeptInv
  <2>2. QED
    BY <1>3, <2>1, CutIsStored, TailTaken
<1>4. QED
  BY <1>2, <1>3, TellsOrKeeps

LEMMA JoinTaken ==
    ASSUME RecordInv, RecordInv', HeldInv, JoinInv, NEW e \in Entries, Takes(e)
    PROVE  JoinInv'
<1> /\ TypeInv /\ ShapeInv /\ FreshInv /\ RunInv
  BY ShownParts
<1>1. PICK event \in Events : Consumes(event, e)
  BY DEF Takes
<1>2. /\ client'.phase = client.phase /\ client'.through = client.through /\ client'.replay = client.replay
      /\ client'.read = client.read /\ client'.view = client.view
      /\ calm' = calm /\ rows' = rows /\ told \subseteq told' /\ torn' \subseteq torn
  BY <1>1, ClientRecorded DEF Consumes
<1>3. Joining' <=> Joining
  BY <1>2 DEF Joining, Connecting
<1>4. (Early \/ client.phase = "snapshot" => client.through = 0)' /\ (client.phase = "live" => client.replay = {})'
  BY <1>2 DEF JoinInv, Early
<1>5. ASSUME Joining
      PROVE  /\ rows.ui \subseteq told' /\ UNION rows.llm \subseteq rows.ui /\ torn' = {}
             /\ \A i \in Queued' : \A b \in Plain : Carries(client'.queue[i], b) => b \notin rows.ui
             /\ client.phase \in {"ui", "tasks", "llm"} => client.read.ui = rows.ui
             /\ client.phase = "llm" => client.read.llm = rows.llm
             /\ client.phase = "snapshot" => SnapshotTaken'
  <2>1. /\ rows.ui \subseteq told' /\ UNION rows.llm \subseteq rows.ui /\ torn' = {}
        /\ client.phase \in {"ui", "tasks", "llm"} => client.read.ui = rows.ui
        /\ client.phase = "llm" => client.read.llm = rows.llm
    BY <1>2, <1>5 DEF JoinInv
  <2>2. \A b \in Plain : Carries(e, b) => b \notin rows.ui
    BY <1>5, TakenIsNew DEF JoinInv
  <2>3. \A i \in Queued' : client'.queue[i] = e \/ \E j \in Queued : client'.queue[i] = client.queue[j]
    <3>1. client.phase # "off"
      BY <1>5 DEF Joining, Connecting
    <3>2. client.queue \in Seq(Entries)
      BY ShownParts
    <3>3. /\ Len(client'.queue) = Len(client.queue) + 1 /\ client'.queue[Len(client.queue) + 1] = e
          /\ \A i \in 1..Len(client.queue) : client'.queue[i] = client.queue[i]
      BY <1>1, <3>1, ClientRecorded
    <3>4. QED
      BY <3>2, <3>3 DEF Queued
  <2>4. \A i \in Queued' : \A b \in Plain : Carries(client'.queue[i], b) => b \notin rows.ui
    BY <1>5, <2>2, <2>3 DEF JoinInv
  <2>5. client.phase = "snapshot" => SnapshotTaken'
    <3>1. \A f \in Replay' : f \in Replay \/ f = e \/ f \in buffer'.child
      BY HeldTaken
    <3>2. \A f \in buffer'.child : f.blocks \subseteq ChildBlocks
      BY DEF RecordInv, ShapeInv, Shaped
    <3>3. \A f \in buffer'.child : \A b \in Plain : ~Carries(f, b)
      BY <3>2 DEF Plain, Carries
    <3>4. QED
      BY <1>2, <1>5, <2>2, <3>1, <3>3 DEF SnapshotTaken, JoinInv
  <2>6. QED
    BY <2>1, <2>4, <2>5
<1>6. QED
  BY <1>2, <1>3, <1>4, <1>5 DEF JoinInv

(* Rows are written and the buffer is trimmed. *)
LEMMA JoinWritten ==
    ASSUME RecordInv, KeptInv, JoinInv, Stores \/ StoreInput \/ ChildRow
    PROVE  KeptInv' /\ JoinInv'
<1>1. /\ client' = client /\ buffer' = buffer /\ told' = told
      /\ calm' = (calm /\ ~Connecting) /\ rows.ui \subseteq rows'.ui
  BY ShownParts DEF Stores, StoreInput, ChildRow, StoreContext, StoreDisplay, Writes, RowsTyped
<1>2. ~Joining'
  BY <1>1 DEF Joining, Connecting
<1>3. QED
  BY <1>1, <1>2 DEF KeptInv, JoinInv, Early

LEMMA TornNotWhenCalm ==
    ASSUME RecordInv, Joining, JoinInv, NEW kinds, kinds \in {Streamed, {"tool_result"}},
           kinds = Streamed => stage = "ui", kinds = {"tool_result"} => stage = "results_ui", Unrecorded(kinds)
    PROVE  FALSE
<1> /\ TypeInv /\ ShapeInv /\ FreshInv /\ StoredInv /\ out \in Seq(Events)
  BY ShownParts
<1>1. PICK i \in 1..Len(out) : out[i].kind \in kinds
  BY DEF Unrecorded
<1>2. Shape(out[i])
  BY DEF ShapeInv
<1>3. PICK b \in Plain : b \in out[i].blocks /\ (kinds = Streamed => b[1] \in {"text", "use"})
  <2>1. CASE out[i].kind = "text_delta"
    <3>1. PICK t \in Turns, n \in 1..MaxDeltas : out[i].blocks = {Text(t, n)}
      BY <1>2, <2>1 DEF Shape
    <3>2. Text(t, n) \in Plain
      BY BlockFacts, ChildIsNotPlain DEF Plain
    <3>3. QED
      BY <3>1, <3>2, NamesDiffer
  <2>2. CASE out[i].kind = "tool_use"
    <3>1. PICK t \in Turns : out[i].blocks = {Use(t)}
      BY <1>2, <2>2 DEF Shape
    <3>2. Use(t) \in Plain
      BY BlockFacts, ChildIsNotPlain DEF Plain
    <3>3. QED
      BY <3>1, <3>2, NamesDiffer
  <2>3. CASE out[i].kind = "tool_result"
    <3>1. PICK t \in Turns : out[i].blocks = {Result(t)}
      BY <1>2, <2>3 DEF Shape
    <3>2. Result(t) \in Plain
      BY BlockFacts, ChildIsNotPlain DEF Plain
    <3>3. kinds # Streamed
      BY <1>1, <2>3 DEF Streamed
    <3>4. QED
      BY <3>1, <3>2, <3>3
  <2>4. QED
    BY <1>1, <2>1, <2>2, <2>3 DEF Streamed
<1>4. out[i].kind # "pause_requested"
  BY <1>1 DEF Streamed
<1>5. ~Given(told, out, b, i)
  BY <1>3, <1>4 DEF FreshInv
<1>6. b \notin told /\ Emitted(b)
  BY <1>3, <1>5 DEF Given, Emitted
<1>7. ~Unstored(b)
  BY <1>3, NamesDiffer DEF Unstored
<1>8. b \in rows.ui
  BY <1>6, <1>7 DEF StoredInv
<1>9. QED
  BY <1>6, <1>8 DEF JoinInv

LEMMA JoinTrimmed ==
    ASSUME RecordInv, RecordInv', HeldInv, KeptInv, JoinInv, Trims
    PROVE  KeptInv' /\ JoinInv'
<1> /\ TypeInv /\ TypeInv' /\ ShapeInv /\ FreshInv /\ StoredInv /\ RowsInv /\ buffer \in Buffers /\ BufferTyped
  BY ShownParts DEF RecordInv
<1>1. client' = client /\ calm' = calm /\ rows' = rows /\ told' = told
  BY DEF Trims, TrimPersisted, TrimCompact
<1>2. Joining' <=> Joining
  BY <1>1 DEF Joining, Connecting
<1>3. Joining => torn' = {}
  <2> SUFFICES ASSUME Joining PROVE torn' = {}
    OBVIOUS
  <2>1. torn = {}
    BY DEF JoinInv
  <2>2. CASE TrimPersisted("ui", "stored", Streamed)
    <3>1. Streamed # {"tool_result"} /\ stage = "ui"
      BY <2>2 DEF TrimPersisted, Streamed
    <3>2. ~Unrecorded(Streamed)
      BY <3>1, TornNotWhenCalm
    <3>3. QED
      BY <2>1, <2>2, <3>2 DEF TrimPersisted
  <2>3. CASE TrimPersisted("results_ui", "settled", {"tool_result"})
    <3>1. Streamed # {"tool_result"} /\ stage = "results_ui"
      BY <2>3 DEF TrimPersisted, Streamed
    <3>2. ~Unrecorded({"tool_result"})
      BY <3>1, TornNotWhenCalm
    <3>3. QED
      BY <2>1, <2>3, <3>2 DEF TrimPersisted
  <2>4. CASE TrimCompact
    <3>1. stage = "summary_row"
      BY <2>4 DEF TrimCompact
    <3>2. Summary \in rows.ui /\ Summary \in Plain
      BY <3>1, BlockFacts, ChildIsNotPlain DEF RowsInv, Plain
    <3>3. Emitted(Summary)
      BY <3>2 DEF JoinInv, Emitted, Given
    <3>4. Issued(Summary)
      BY <3>2, <3>3 DEF FreshInv
    <3>5. QED
      BY <3>1, <3>4, NamesDiffer DEF Issued
  <2>5. QED
    BY <2>2, <2>3, <2>4 DEF Trims
<1>4. \A e \in buffer.tail : e \in buffer'.tail \/ \A b \in Plain : Carries(e, b) => b \in rows.ui
  <2> SUFFICES ASSUME NEW e \in buffer.tail, e \notin buffer'.tail, NEW b \in Plain, Carries(e, b)
               PROVE  b \in rows.ui
    OBVIOUS
  <2>1. Emitted(b)
    <3>1. e \in Held
      BY ReplayIs DEF Held
    <3>2. QED
      BY <3>1 DEF HeldInv, Emitted, Given
  <2>2. CASE TrimPersisted("ui", "stored", Streamed)
    <3>1. stage = "ui" /\ e.kind \in Streamed
      BY <2>2 DEF TrimPersisted, OfKind, Buffers
    <3>2. b[1] \in {"text", "use"}
      BY <3>1, RecordedShape, StreamFacts DEF Streamed
    <3>3. ~Unstored(b)
      BY <3>1, <3>2, NamesDiffer DEF Unstored
    <3>4. QED
      BY <2>1, <3>3 DEF StoredInv
  <2>3. CASE TrimPersisted("results_ui", "settled", {"tool_result"})
    <3>1. stage = "results_ui"
      BY <2>3 DEF TrimPersisted
    <3>2. ~Unstored(b)
      BY <3>1 DEF Unstored
    <3>3. QED
      BY <2>1, <3>2 DEF StoredInv
  <2>4. CASE TrimCompact
    <3>1. buffer'.tail = buffer.tail
      BY <2>4 DEF TrimCompact, Buffers
    <3>2. QED
      BY <3>1
  <2>5. QED
    BY <2>2, <2>3, <2>4 DEF Trims
<1>5. Replay' \subseteq Replay
  BY BufferStill DEF Still
<1>6. KeptInv'
  <2> SUFFICES ASSUME client.phase = "off" \/ Joining, NEW b \in Plain, b \in told
               PROVE  b \in rows.ui \/ \E f \in buffer'.tail : Carries(f, b)
    BY <1>1, <1>2 DEF KeptInv
  <2>1. b \in rows.ui \/ \E f \in buffer.tail : Carries(f, b)
    BY DEF KeptInv
  <2>2. QED
    BY <1>4, <2>1
<1>7. JoinInv'
  <2>1. client.phase = "snapshot" /\ SnapshotTaken => SnapshotTaken'
    BY <1>1, <1>5 DEF SnapshotTaken
  <2>2. Early' <=> Early
    BY <1>1 DEF Early
  <2>3. Queued' = Queued
    BY <1>1 DEF Queued
  <2>4. QED
    BY <1>1, <1>2, <1>3, <2>1, <2>2, <2>3 DEF JoinInv
<1>8. QED
  BY <1>6, <1>7

LEMMA JoinConnects ==
    ASSUME RecordInv, RecordInv', HeldInv, KeptInv, JoinInv, Socket \/ Subscribe
    PROVE  KeptInv' /\ JoinInv'
<1> TypeInv /\ client \in Clients /\ RowsTyped
  BY ShownParts
<1>1. rows' = rows /\ told' = told /\ torn' = torn /\ (buffer' = buffer \/ SendSnapshot)
  BY SocketTyped DEF ServerFrame
<1>2. CASE Subscribe
  <2>1. /\ client.phase = "off" /\ client'.phase = "subscribed" /\ client'.queue = <<>> /\ client'.through = 0
        /\ buffer' = buffer /\ calm' = (~Behind /\ torn = {})
    BY <1>2 DEF Subscribe, Clients
  <2>2. calm' => rows.ui \subseteq told /\ UNION rows.llm \subseteq rows.ui /\ torn = {}
    BY <2>1 DEF Behind
  <2>3. Queued' = {}
    BY <2>1 DEF Queued
  <2>4. KeptInv'
    BY <1>1, <2>1 DEF KeptInv
  <2>5. JoinInv'
    BY <1>1, <2>1, <2>2, <2>3 DEF JoinInv, Joining
  <2>6. QED
    BY <2>4, <2>5
<1>3. CASE ReadMessages \/ ReadTasks \/ ReadContext
  <2>1. /\ client'.queue = client.queue /\ client'.through = client.through /\ client'.phase \in {"ui", "tasks", "llm"}
        /\ client.phase \in {"subscribed", "ui", "tasks"} /\ calm' = calm /\ buffer' = buffer
    BY <1>3 DEF ReadMessages, ReadTasks, ReadContext, Clients
  <2>2. /\ ReadMessages => client'.read.ui = rows.ui
        /\ ReadTasks \/ ReadContext => client'.read.ui = client.read.ui /\ client.phase \in {"ui", "tasks"}
    <3>1. client.read \in Reads
      BY DEF Clients
    <3>2. ReadMessages => client'.read.ui = rows.ui
      BY <3>1 DEF ReadMessages, Clients, Reads
    <3>3. ReadTasks => client'.read.ui = client.read.ui /\ client.phase \in {"ui", "tasks"}
      <4> DEFINE row == child.stage \notin {"none", "over", "ended"}
                 read == [client.read EXCEPT !.child = rows.child, !.childRow = row]
      <4>1. ReadTasks => client.phase = "ui" /\ client' = [client EXCEPT !.phase = "tasks", !.read = read]
        BY DEF ReadTasks
      <4>2. read.ui = client.read.ui
        BY <3>1 DEF Reads
      <4> HIDE DEF row, read
      <4>3. QED
        BY <4>1, <4>2 DEF Clients
    <3>4. ReadContext => client'.read.ui = client.read.ui /\ client.phase \in {"ui", "tasks"}
      BY <3>1 DEF ReadContext, Clients, Reads
    <3>5. QED
      BY <3>2, <3>3, <3>4
  <2>3. client'.phase = "llm" => client'.read.llm = rows.llm
    <3>1. client.read \in Reads
      BY DEF Clients
    <3>2. ReadContext => client'.read.llm = rows.llm
      BY <3>1 DEF ReadContext, Clients, Reads
    <3>3. ReadMessages \/ ReadTasks => client'.phase # "llm"
      BY DEF ReadMessages, ReadTasks, Clients
    <3>4. QED
      BY <1>3, <3>2, <3>3
  <2>4. (Joining' <=> Joining) /\ client.phase # "off" /\ Early
    BY <2>1 DEF Joining, Connecting, Early
  <2>5. Queued' = Queued
    BY <2>1 DEF Queued
  <2>6. KeptInv'
    BY <1>1, <2>1, <2>4 DEF KeptInv
  <2>7. Joining => client'.read.ui = rows.ui
    BY <1>3, <2>2 DEF JoinInv
  <2>8. JoinInv'
    BY <1>1, <2>1, <2>3, <2>4, <2>5, <2>7 DEF JoinInv
  <2>9. QED
    BY <2>6, <2>8
<1>4. CASE SendSnapshot
  <2>1. /\ client'.queue = client.queue /\ client'.through = client.through /\ client'.phase = "snapshot"
        /\ client.phase = "llm" /\ calm' = calm /\ client'.view = Shows(InSnapshot(client.read))
    BY <1>4 DEF SendSnapshot, Clients
  <2>2. (Joining' <=> Joining) /\ Early /\ Queued' = Queued
    BY <2>1 DEF Joining, Connecting, Early, Queued
  <2>3. KeptInv'
    <3> SUFFICES ASSUME Joining, NEW b \in Plain, b \in told
                 PROVE  b \in rows.ui \/ \E f \in buffer'.tail : Carries(f, b)
      BY <1>1, <2>1, <2>2 DEF KeptInv
    <3>1. b \in rows.ui \/ \E f \in buffer.tail : Carries(f, b)
      BY DEF KeptInv
    <3>2. QED
      BY <1>4, <3>1, SnapshotTrims
  <2>4. Joining => SnapshotTaken'
    <3> SUFFICES ASSUME Joining PROVE SnapshotTaken'
      OBVIOUS
    <3>1. client.read.ui = rows.ui /\ client.read.child \subseteq ChildBlocks
      BY <2>1 DEF JoinInv, Clients, Reads
    <3>2. \A b \in Plain : b \in Blocks /\ (b \in InSnapshot(client.read) <=> b \in rows.ui)
      BY <3>1 DEF Plain, InSnapshot
    <3>3. \A b \in Plain : client'.view[b] = IF b \in rows.ui THEN 1 ELSE 0
      BY <2>1, <3>2, ShowsType
    <3>4. \A b \in Plain : \A e \in Replay' : Carries(e, b) => b \notin rows.ui \/ IsResult(b)
      BY <1>4, SnapshotTrims
    <3>5. QED
      BY <1>1, <3>3, <3>4 DEF SnapshotTaken
  <2>5. JoinInv'
    BY <1>1, <2>1, <2>2, <2>4 DEF JoinInv
  <2>6. QED
    BY <2>3, <2>5
<1>5. CASE TakeReplay \/ ReceiveReplay \/ SendStatus \/ ReceiveLive
  <2>1. /\ client'.phase \in {"replaying", "live"}
        /\ client'.phase = "live" => client'.replay = client.replay
        /\ client'.phase = "live" => client.phase = "live" \/ client.replay = {}
    <3>1. CASE TakeReplay
      BY <3>1 DEF TakeReplay, Clients
    <3>2. CASE ReceiveReplay
      BY <3>2, ReplayReceived
    <3>3. CASE SendStatus
      BY <3>3 DEF SendStatus, Clients
    <3>4. CASE ReceiveLive
      BY <3>4, LiveReceived
    <3>5. QED
      BY <1>5, <3>1, <3>2, <3>3, <3>4
  <2>2. ~Joining' /\ ~Early'
    BY <2>1 DEF Joining, Connecting, Early
  <2>3. QED
    BY <2>1, <2>2 DEF KeptInv, JoinInv
<1>6. QED
  BY <1>2, <1>3, <1>4, <1>5 DEF Socket

LEMMA JoinStep ==
    ASSUME RecordInv, RecordInv', HeldInv, KeptInv, JoinInv, [Next]_vars
    PROVE  KeptInv' /\ JoinInv'
<1>1. CASE \E e \in Entries : Takes(e)
  BY <1>1, KeptTaken, JoinTaken
<1>2. CASE (\E ev \in Events : Emits(ev)) \/ SendInput \/ UNCHANGED vars
  <2>1. client' = client /\ rows' = rows /\ told' = told /\ torn' = torn /\ buffer' = buffer /\ calm' = calm
    BY <1>2 DEF Emits, SendInput, vars
  <2>2. Replay' = Replay
    BY <2>1 DEF Replay
  <2>3. QED
    BY <2>1, <2>2 DEF KeptInv, JoinInv, Joining, Connecting, Early, Queued, SnapshotTaken
<1>3. CASE Still
  BY <1>2, <1>3, JoinWritten, JoinTrimmed, JoinConnects DEF Still
<1>4. QED
  BY <1>1, <1>2, <1>3, ShownParts, StepWays

-----------------------------------------------------------------------------
(* A calm client shows what was recorded, once, but for what it still        *)
(* awaits: what is left of the replay, and the entries of its queue that the *)
(* replay does not cover.  A tool result may be awaited although it is shown. *)
Skipped(e) == e.seq <= client.through \/ \E x \in client.replay : e.seq <= x.seq

Awaited(b) ==
    \/ \E e \in client.replay : Carries(e, b)
    \/ \E i \in Queued : Carries(client.queue[i], b) /\ ~Skipped(client.queue[i])

Counted(n, b) ==
    IF b \in told /\ ~Awaited(b) THEN n = 1 ELSE n = 0 \/ (n = 1 /\ b \in told /\ IsResult(b))

CountInv ==
    client.phase \in {"replaying", "live"} /\ calm =>
       \A b \in Plain : Counted(client.view[b], b)

ToldInv == told \subseteq Blocks

LEMMA ToldStep ==
    ASSUME RecordInv, ToldInv, [Next]_vars
    PROVE  ToldInv'
<1>1. CASE \E e \in Entries : Takes(e)
  <2>1. PICK e \in Entries : Takes(e)
    BY <1>1
  <2>2. e.blocks \subseteq Blocks /\ told' = told \cup (IF e.kind = "child_delta" THEN {} ELSE e.blocks)
    BY <2>1 DEF Takes, Consumes, Entries
  <2>3. QED
    BY <2>2 DEF ToldInv
<1>2. CASE (\E ev \in Events : Emits(ev)) \/ Still
  BY <1>2, StillEffect, ShownParts DEF Emits, ToldInv
<1>3. QED
  BY <1>1, <1>2, ShownParts, StepWays

LEMMA PauseIsTold ==
    ASSUME RecordInv, NEW e \in Entries, Takes(e), e.kind = "pause_requested", NEW b \in Plain, b \in e.blocks
    PROVE  b \in told
<1> /\ TypeInv /\ ShapeInv /\ FreshInv
  BY ShownParts
<1>1. out \in Seq(Events) /\ TakesOut(e)
  BY TakesFrom, ShownParts DEF Takes
<1>2. 1 \in 1..Len(out) /\ out[1].kind = "pause_requested" /\ b \in out[1].blocks
  BY <1>1 DEF TakesOut
<1>3. Given(told, out, b, 1)
  BY <1>2 DEF FreshInv
<1>4. QED
  BY <1>3 DEF Given

LEMMA CountTaken ==
    ASSUME RecordInv, CountInv, NEW e \in Entries, Takes(e)
    PROVE  CountInv'
<1> TypeInv /\ FreshInv /\ client \in Clients /\ client.queue \in Seq(Entries)
  BY ShownParts
<1>1. PICK event \in Events : Consumes(event, e)
  BY DEF Takes
<1>2. /\ client'.phase = client.phase /\ client'.through = client.through /\ client'.replay = client.replay
      /\ client'.view = client.view /\ calm' = calm
  BY <1>1, ClientRecorded DEF Takes
<1> SUFFICES ASSUME client.phase \in {"replaying", "live"}, calm, NEW b \in Plain
             PROVE  Counted(client.view[b], b)'
  BY <1>2 DEF CountInv
<1>3. /\ Len(client'.queue) = Len(client.queue) + 1 /\ client'.queue[Len(client.queue) + 1] = e
      /\ \A i \in 1..Len(client.queue) : client'.queue[i] = client.queue[i]
  BY <1>1, <1>2, ClientRecorded
<1>4. /\ \A i \in Queued : i \in Queued' /\ client'.queue[i] = client.queue[i]
      /\ Len(client.queue) + 1 \in Queued' /\ \A i \in Queued' : i \in Queued \/ i = Len(client.queue) + 1
  BY <1>3 DEF Queued
<1>5. ~Skipped(e)
  <2>1. e.seq = seq /\ seq \in Nat /\ client.through < seq /\ client.through \in Nat
        /\ \A x \in client.replay : x.seq < seq /\ x.seq \in Nat
    BY ShownParts DEF Takes, TypeInv, ChannelTyped, NumberInv, ClientNumbered, Clients, Entries
  <2>2. QED
    BY <2>1 DEF Skipped
<1>6. Awaited(b)' <=> Awaited(b) \/ Carries(e, b)
  <2>1. Awaited(b)' <=> \/ \E f \in client.replay : Carries(f, b)
                        \/ \E i \in Queued' : Carries(client'.queue[i], b) /\ ~Skipped(client'.queue[i])
    BY <1>2 DEF Awaited, Skipped
  <2>2. (\E i \in Queued' : Carries(client'.queue[i], b) /\ ~Skipped(client'.queue[i]))
        <=> (\E i \in Queued : Carries(client.queue[i], b) /\ ~Skipped(client.queue[i])) \/ Carries(e, b)
    BY <1>3, <1>4, <1>5
  <2>3. QED
    BY <2>1, <2>2 DEF Awaited
<1>7. CASE Carries(e, b)
  <2>1. b \notin told /\ client.view[b] = 0
    BY <1>7, TakenIsNew DEF CountInv, Counted
  <2>2. QED
    BY <1>2, <1>6, <1>7, <2>1 DEF Counted
<1>8. CASE ~Carries(e, b)
  <2>1. b \in told' <=> b \in told
    BY <1>8, PauseIsTold DEF Takes, Carries
  <2>2. Counted(client.view[b], b)
    BY DEF CountInv
  <2>3. QED
    BY <1>2, <1>6, <1>8, <2>1, <2>2 DEF Counted
<1>9. QED
  BY <1>7, <1>8

LEMMA CountJoined ==
    ASSUME RecordInv, KeptInv, JoinInv, TakeReplay
    PROVE  CountInv'
<1> TypeInv /\ client \in Clients /\ BufferTyped
  BY ShownParts
<1>1. /\ client.phase = "snapshot" /\ client'.phase = "replaying" /\ client'.replay = Replay
      /\ client'.queue = client.queue /\ client'.view = client.view /\ calm' = calm /\ told' = told
  BY DEF TakeReplay, Clients
<1> SUFFICES ASSUME Joining, NEW b \in Plain
             PROVE  Counted(client.view[b], b)'
  BY <1>1 DEF CountInv, Joining, Connecting
<1>2. Awaited(b)' <=> \/ \E f \in Replay : Carries(f, b)
                      \/ \E i \in Queued : Carries(client.queue[i], b) /\ ~Skipped(client.queue[i])'
  BY <1>1 DEF Awaited, Queued
<1>3. /\ client.view[b] = IF b \in rows.ui THEN 1 ELSE 0
      /\ \A e \in Replay : Carries(e, b) => b \notin rows.ui \/ IsResult(b)
      /\ \A i \in Queued : Carries(client.queue[i], b) => b \notin rows.ui
      /\ rows.ui \subseteq told
  BY <1>1 DEF JoinInv, SnapshotTaken
<1>4. b \in told => b \in rows.ui \/ \E e \in Replay : Carries(e, b)
  BY ReplayIs DEF KeptInv
<1>5. QED
  BY <1>1, <1>2, <1>3, <1>4 DEF Counted

LEMMA CountReplayed ==
    ASSUME RecordInv, HeldInv, CountInv, ReceiveReplay
    PROVE  CountInv'
<1> TypeInv /\ client \in Clients /\ client.queue \in Seq(Entries)
  BY ShownParts
<1>1. PICK e \in client.replay :
              /\ e \in Entries /\ Receives(e)
              /\ \A x \in client.replay : e.seq <= x.seq
              /\ client'.replay = client.replay \ {e}
              /\ client'.through = IF e.seq > client.through THEN e.seq ELSE client.through
              /\ client'.queue = client.queue /\ client'.phase = "replaying" /\ client.phase = "replaying"
  BY ReplayReceived
<1>2. calm' = calm /\ told' = told
  BY DEF ReceiveReplay
<1> SUFFICES ASSUME calm, NEW b \in Plain
             PROVE  Counted(client.view[b], b)'
  BY <1>1, <1>2 DEF CountInv
<1>3. Counted(client.view[b], b)
  BY <1>1 DEF CountInv
<1>4. e.seq \in Nat /\ client.through \in Nat /\ \A x \in client.replay : x.seq \in Nat
  BY <1>1 DEF Clients, Entries
<1>5. \A f \in Entries : Skipped(f)' <=> Skipped(f)
  <2> SUFFICES ASSUME NEW f \in Entries PROVE Skipped(f)' <=> Skipped(f)
    OBVIOUS
  <2>1. f.seq \in Nat
    BY DEF Entries
  <2>2. Skipped(f)' <=> f.seq <= client'.through \/ \E x \in client.replay \ {e} : f.seq <= x.seq
    BY <1>1 DEF Skipped
  <2>3. f.seq <= client'.through <=> f.seq <= client.through \/ f.seq <= e.seq
    BY <1>1, <1>4, <2>1
  <2>4. QED
    BY <1>1, <2>2, <2>3 DEF Skipped
<1>6. \A i \in Queued : client.queue[i] \in Entries
  BY DEF Queued
<1>7. Awaited(b)' <=> \/ \E f \in client.replay \ {e} : Carries(f, b)
                      \/ \E i \in Queued : Carries(client.queue[i], b) /\ ~Skipped(client.queue[i])
  BY <1>1, <1>5, <1>6 DEF Awaited, Queued
<1>8. e \in Held /\ \A f \in client.replay : f \in Held
  BY DEF Held
<1>9. \A i \in Queued : client.queue[i] \in Held
  BY DEF Held
<1>10. /\ Carries(e, b) /\ client.view[b] = 0 => client'.view[b] = 1
       /\ Carries(e, b) /\ client.view[b] = 1 /\ e.kind = "tool_result" => client'.view[b] = 1
       /\ ~Carries(e, b) => client'.view[b] = client.view[b]
  BY <1>1, <1>8, ApplyPlain DEF Receives, HeldInv
<1>11. CASE Carries(e, b)
  <2>1. Awaited(b) /\ b \in told
    BY <1>8, <1>11 DEF Awaited, HeldInv
  <2>2. ~Awaited(b)'
    <3>1. \A f \in client.replay \ {e} : ~Carries(f, b)
      BY <1>8, <1>11 DEF HeldInv
    <3>2. \A i \in Queued : Carries(client.queue[i], b) => client.queue[i] = e
      BY <1>8, <1>9, <1>11 DEF HeldInv
    <3>3. Skipped(e)
      BY <1>4 DEF Skipped
    <3>4. QED
      BY <1>7, <3>1, <3>2, <3>3
  <2>3. IsResult(b) => e.kind = "tool_result"
    BY <1>8, <1>11 DEF HeldInv, Answering, Carries
  <2>4. QED
    BY <1>2, <1>3, <1>10, <1>11, <2>1, <2>2, <2>3 DEF Counted
<1>12. CASE ~Carries(e, b)
  <2>1. Awaited(b)' <=> Awaited(b)
    BY <1>7, <1>12 DEF Awaited
  <2>2. QED
    BY <1>2, <1>3, <1>10, <1>12, <2>1 DEF Counted
<1>13. QED
  BY <1>11, <1>12

LEMMA CountReceived ==
    ASSUME RecordInv, HeldInv, JoinInv, CountInv, ReceiveLive
    PROVE  CountInv'
<1> TypeInv /\ client \in Clients /\ client.queue \in Seq(Entries)
  BY ShownParts
<1> DEFINE e == client.queue[1]
<1>1. /\ client.queue # <<>> /\ e \in Entries /\ client.phase = "live" /\ client'.phase = "live"
      /\ client'.queue = Tail(client.queue)
      /\ client'.replay = client.replay /\ client'.through = client.through
      /\ \/ e.seq <= client.through /\ client'.view = client.view /\ client'.typing = client.typing
         \/ ~(e.seq <= client.through) /\ Receives(e)
  BY LiveReceived
<1>2. calm' = calm /\ told' = told /\ client.replay = {}
  BY <1>1 DEF ReceiveLive, JoinInv
<1> SUFFICES ASSUME calm, NEW b \in Plain
             PROVE  Counted(client.view[b], b)'
  BY <1>1, <1>2 DEF CountInv
<1>3. Counted(client.view[b], b)
  BY <1>1 DEF CountInv
<1>4. /\ 1 \in Queued /\ \A i \in Queued' : i + 1 \in Queued /\ i + 1 > 1 /\ client'.queue[i] = client.queue[i + 1]
      /\ \A i \in Queued : i = 1 \/ (i - 1 \in Queued' /\ client'.queue[i - 1] = client.queue[i])
  BY <1>1, TailFacts DEF Queued
<1>5. \A f : Skipped(f)' <=> Skipped(f)
  BY <1>1 DEF Skipped
<1>6. Skipped(e) <=> e.seq <= client.through
  BY <1>2 DEF Skipped
<1>7. Awaited(b)' <=> \E i \in Queued : i # 1 /\ Carries(client.queue[i], b) /\ ~Skipped(client.queue[i])
  <2>1. Awaited(b)' <=> \E i \in Queued' : Carries(client'.queue[i], b) /\ ~Skipped(client'.queue[i])
    BY <1>1, <1>2, <1>5 DEF Awaited
  <2>2. \A i \in Queued' : i + 1 # 1
    BY <1>4 DEF Queued
  <2>3. QED
    BY <1>4, <2>1, <2>2
<1>8. Awaited(b) <=> \E i \in Queued : Carries(client.queue[i], b) /\ ~Skipped(client.queue[i])
  BY <1>2 DEF Awaited
<1>9. \A i \in Queued : client.queue[i] \in Held
  BY DEF Held
<1>10. e \in Held
  BY <1>4, <1>9
<1>11. \A i \in Queued : i # 1 => client.queue[i] # e
  <2>1. \A i \in Queued : i # 1 => e.seq < client.queue[i].seq /\ e.seq \in Nat
    BY <1>1, <1>4, ShownParts DEF NumberInv, ClientNumbered, Queued, Entries
  <2>2. QED
    BY <2>1
<1>12. CASE e.seq <= client.through
  <2>1. Awaited(b)' <=> Awaited(b)
    BY <1>6, <1>7, <1>8, <1>12
  <2>2. QED
    BY <1>1, <1>2, <1>3, <1>12, <2>1 DEF Counted
<1>13. CASE ~(e.seq <= client.through)
  <2>1. Receives(e) /\ e \in Entries
    BY <1>1, <1>13
  <2>2. Proper(e)
    BY <1>10 DEF HeldInv
  <2>3. ~Skipped(e)
    BY <1>6, <1>13
  <2>4. Carries(e, b) => Awaited(b) /\ b \in told
    BY <1>4, <1>8, <1>10, <2>3 DEF HeldInv
  <2>5. Carries(e, b) => ~Awaited(b)'
    <3>1. Carries(e, b) => \A i \in Queued : Carries(client.queue[i], b) => client.queue[i] = e
      BY <1>9, <1>10 DEF HeldInv
    <3>2. QED
      BY <1>7, <1>11, <3>1
  <2>6. ~Carries(e, b) => (Awaited(b)' <=> Awaited(b))
    BY <1>7, <1>8
  <2>9. Carries(e, b) /\ IsResult(b) => e.kind = "tool_result"
    BY <1>10 DEF HeldInv, Answering, Carries
  <2> HIDE DEF e
  <2>7. /\ Carries(e, b) /\ client.view[b] = 0 => client'.view[b] = 1
        /\ Carries(e, b) /\ client.view[b] = 1 /\ e.kind = "tool_result" => client'.view[b] = 1
        /\ ~Carries(e, b) => client'.view[b] = client.view[b]
    BY <2>1, <2>2, ApplyPlain DEF Receives, HeldInv
  <2>8. QED
    BY <1>2, <1>3, <2>4, <2>5, <2>6, <2>7, <2>9 DEF Counted
<1>14. QED
  BY <1>12, <1>13

LEMMA CountStep ==
    ASSUME RecordInv, HeldInv, KeptInv, JoinInv, CountInv, [Next]_vars
    PROVE  CountInv'
<1> TypeInv /\ client \in Clients
  BY ShownParts
<1>1. CASE \E e \in Entries : Takes(e)
  BY <1>1, CountTaken
<1>2. CASE (\E ev \in Events : Emits(ev)) \/ SendInput \/ UNCHANGED vars \/ Trims \/ Stores \/ StoreInput \/ ChildRow
  <2>1. CASE (\E ev \in Events : Emits(ev)) \/ SendInput \/ UNCHANGED vars
    BY <2>1 DEF Emits, SendInput, vars, CountInv, Counted, Awaited, Queued, Skipped
  <2>2. CASE Trims \/ Stores \/ StoreInput \/ ChildRow
    <3>1. client' = client /\ told' = told
      BY <2>2 DEF Trims, TrimPersisted, TrimCompact, Stores, StoreInput, ChildRow, StoreContext, StoreDisplay
    <3>2. calm' = calm \/ Writes
      BY <2>2 DEF Trims, TrimPersisted, TrimCompact, Stores, StoreInput, ChildRow, StoreContext, StoreDisplay
    <3>3. calm' => calm
      BY <3>2 DEF Writes
    <3>4. QED
      BY <3>1, <3>3 DEF CountInv, Counted, Awaited, Queued, Skipped
  <2>3. QED
    BY <1>2, <2>1, <2>2
<1>3. CASE Subscribe \/ ReadMessages \/ ReadTasks \/ ReadContext \/ SendSnapshot
  <2>1. client'.phase \notin {"replaying", "live"}
    BY <1>3 DEF Subscribe, ReadMessages, ReadTasks, ReadContext, SendSnapshot, Clients
  <2>2. QED
    BY <2>1 DEF CountInv
<1>4. CASE SendStatus
  <2>1. /\ client.phase = "replaying" /\ client'.queue = client.queue /\ client'.replay = client.replay
        /\ client'.through = client.through /\ client'.view = client.view /\ calm' = calm /\ told' = told
    BY <1>4 DEF SendStatus, Clients
  <2>2. QED
    BY <2>1 DEF CountInv, Counted, Awaited, Queued, Skipped
<1>5. CASE Still
  BY <1>2, <1>3, <1>4, <1>5, CountJoined, CountReplayed, CountReceived DEF Still, Socket
<1>6. QED
  BY <1>1, <1>2, <1>5, ShownParts, StepWays

LEMMA CountInit == Init => ToldInv /\ CountInv
BY DEF Init, ToldInv, CountInv

LEMMA CalmInv == EventSpec => [](RecordInv /\ HeldInv /\ KeptInv /\ JoinInv /\ ToldInv /\ CountInv)
<1> DEFINE Inv == RecordInv /\ HeldInv /\ KeptInv /\ JoinInv /\ ToldInv /\ CountInv
<1>1. Init => Inv
  BY RecordedInit, JoinInit, CountInit
<1>2. Inv /\ [Next]_vars => Inv'
  <2> SUFFICES ASSUME Inv, [Next]_vars PROVE Inv'
    OBVIOUS
  <2>1. RecordInv'
    BY RecordedStep
  <2>2. HeldInv'
    BY <2>1, HeldStep
  <2>3. KeptInv' /\ JoinInv'
    BY <2>1, JoinStep
  <2>4. ToldInv' /\ CountInv'
    BY ToldStep, CountStep
  <2>5. QED
    BY <2>1, <2>2, <2>3, <2>4
<1>3. QED
  BY <1>1, <1>2, PTL DEF EventSpec

(* Whatever the thread is doing when a client connects, snapshot, replay and *)
(* live events together show each block of the conversation once and leave   *)
(* none out, unless a row was written while the connection was set up, a row *)
(* was ahead of its event, or a message was trimmed from the buffer half     *)
(* recorded (host.rs, ws.rs): for any turns, deltas, inputs, channel and lag.*)
THEOREM BlocksShownOnce == EventSpec => []ShownOnce
<1>1. JoinInv /\ ToldInv /\ CountInv => ShownOnce
  <2> SUFFICES ASSUME JoinInv, ToldInv, CountInv, calm, Drained, NEW b \in told \ ChildBlocks
               PROVE  client.view[b] = 1
    BY DEF ShownOnce
  <2>1. client.phase = "live" /\ client.queue = <<>>
    BY DEF Drained
  <2>2. client.replay = {} /\ Queued = {}
    BY <2>1 DEF JoinInv, Queued
  <2>3. ~Awaited(b)
    BY <2>2 DEF Awaited
  <2>4. b \in Plain
    BY DEF ToldInv, Plain
  <2>5. QED
    BY <2>1, <2>3, <2>4 DEF CountInv, Counted
<1>2. QED
  BY <1>1, CalmInv, PTL

(* A background child: what a step does to it.                              *)
ChildMoves(ev) ==
    \/ /\ ev.kind = "child_started" /\ ev.blocks = {}
       /\ child.stage = "row" /\ child'.stage = "running" /\ child'.deltas = child.deltas
    \/ /\ ev.kind = "child_delta" /\ ev.blocks = {ChildText(child.deltas + 1)}
       /\ child.stage = "running" /\ child'.stage = "running" /\ child'.deltas = child.deltas + 1
    \/ /\ ev.kind = "child_committed" /\ ev.blocks = ChildMessage
       /\ child.stage = "stored" /\ child'.stage = "committed" /\ child'.deltas = child.deltas
    \/ /\ ev.kind = "child_finished" /\ ev.blocks = {}
       /\ child.stage = "over" /\ child'.stage = "ended" /\ child'.deltas = child.deltas

ChildStores ==
    /\ child'.deltas = child.deltas
    /\ \/ child.stage = "none" /\ child'.stage = "row" /\ rows'.child = rows.child
       \/ /\ child.stage = "running" /\ child.deltas > 0 /\ child'.stage = "stored"
          /\ rows'.child = rows.child \cup ChildMessage
       \/ child.stage = "committed" /\ child'.stage = "over" /\ rows'.child = rows.child

ChildStays == child' = child /\ rows'.child = rows.child

LEMMA ChildEmitWays ==
    ASSUME TypeInv, SpawnChild \/ ChildStep
    PROVE  (\E ev \in Events : Emits(ev) /\ ChildMoves(ev)) \/ (ChildRow /\ ChildStores)
<1> /\ ChildTyped /\ ChannelTyped /\ RowsTyped /\ ChildDeltas \in Nat
    /\ child.deltas \in Nat /\ child.stage \in ChildStages
  BY BoundFacts DEF TypeInv, ChildTyped
<1> rows \in [ui : SUBSET Blocks, llm : SUBSET SUBSET Blocks, child : SUBSET ChildBlocks]
  BY DEF RowsTyped
<1>1. ASSUME NEW kind \in ChildKinds, NEW blocks \in SUBSET ChildBlocks, Emit(Event(kind, blocks)),
             UNCHANGED <<coreVars, input, rows, inbox, seq, buffer, status, client, told, torn, calm>>,
             ChildMoves(Event(kind, blocks))
      PROVE  \E ev \in Events : Emits(ev) /\ ChildMoves(ev)
  <2>1. /\ kind \in Kinds /\ kind # "user_message_injected" /\ blocks \in SUBSET Blocks
        /\ Event(kind, blocks).kind = kind /\ Event(kind, blocks).blocks = blocks
    BY <1>1, KindFacts, BlockFacts, EventFacts DEF ChildKinds
  <2>2. Shape(Event(kind, blocks)) /\ RunStep(Event(kind, blocks))
    BY <1>1, <2>1 DEF Shape, Cuts, ChildKinds, RunStep, coreVars
  <2>3. Event(kind, blocks) \in Events
    BY <2>1 DEF Event, Events
  <2>4. QED
    BY <1>1, <2>1, <2>2, <2>3 DEF Emits, Emit
<1>2. ChildMessage \in SUBSET ChildBlocks /\ {} \in SUBSET ChildBlocks
  BY ChildMessageType
<1>3. ASSUME ChildTextDelta PROVE \E ev \in Events : Emits(ev) /\ ChildMoves(ev)
  <2>1. child.deltas + 1 \in 1..ChildDeltas
    BY <1>3 DEF ChildTextDelta
  <2>2. {ChildText(child.deltas + 1)} \in SUBSET ChildBlocks
    BY <2>1, BlockFacts
  <2>3. child'.deltas = child.deltas + 1 /\ child'.stage = "running" /\ child.stage = "running"
    BY <1>3 DEF ChildTextDelta, ChildTyped
  <2>4. ChildMoves(Event("child_delta", {ChildText(child.deltas + 1)}))
    BY <2>3, EventFacts DEF ChildMoves
  <2>5. QED
    BY <1>1, <1>3, <2>2, <2>4 DEF ChildTextDelta, ChildKinds
<1>4. ASSUME NEW from, NEW to, NEW kind \in ChildKinds, NEW blocks \in SUBSET ChildBlocks,
             ChildEmits(from, to, Event(kind, blocks)),
             \/ from = "row" /\ to = "running" /\ kind = "child_started" /\ blocks = {}
             \/ from = "stored" /\ to = "committed" /\ kind = "child_committed" /\ blocks = ChildMessage
             \/ from = "over" /\ to = "ended" /\ kind = "child_finished" /\ blocks = {}
      PROVE  \E ev \in Events : Emits(ev) /\ ChildMoves(ev)
  <2>1. child.stage = from /\ child'.stage = to /\ child'.deltas = child.deltas
    BY <1>4 DEF ChildEmits, ChildTyped
  <2>2. ChildMoves(Event(kind, blocks))
    BY <1>4, <2>1, EventFacts DEF ChildMoves
  <2>3. QED
    BY <1>1, <1>4, <2>2 DEF ChildEmits
<1>5. ASSUME NEW from, NEW to, NEW blocks, ChildWrites(from, to, blocks)
      PROVE  /\ ChildRow /\ child.stage = from /\ child'.stage = to /\ child'.deltas = child.deltas
             /\ rows'.child = rows.child \cup blocks
  <2>1. child.stage = from /\ child'.stage = to /\ child'.deltas = child.deltas
    BY <1>5 DEF ChildWrites, ChildTyped
  <2>2. rows'.child = rows.child \cup blocks /\ rows'.ui = rows.ui /\ rows'.llm = rows.llm
    BY <1>5 DEF ChildWrites
  <2>3. QED
    BY <1>5, <2>1, <2>2 DEF ChildWrites, ChildRow
<1>6. CASE ChildEmits("row", "running", Event("child_started", {}))
  BY <1>2, <1>4, <1>6 DEF ChildKinds
<1>7. CASE ChildEmits("stored", "committed", Event("child_committed", ChildMessage))
  BY <1>2, <1>4, <1>7 DEF ChildKinds
<1>8. CASE ChildEmits("over", "ended", Event("child_finished", {}))
  BY <1>2, <1>4, <1>8 DEF ChildKinds
<1>9. CASE SpawnChild \/ ChildWrites("committed", "over", {})
  <2>1. PICK from, to : /\ ChildWrites(from, to, {})
                        /\ (from = "none" /\ to = "row") \/ (from = "committed" /\ to = "over")
    BY <1>9 DEF SpawnChild
  <2>2. ChildRow /\ child.stage = from /\ child'.stage = to /\ child'.deltas = child.deltas
    BY <1>5, <2>1
  <2>3. rows'.child = rows.child
    <3>1. rows'.child = rows.child \cup {}
      BY <1>5, <2>1
    <3>2. rows.child \cup {} = rows.child
      OBVIOUS
    <3>3. QED
      BY <3>1, <3>2
  <2>4. QED
    BY <2>1, <2>2, <2>3 DEF ChildStores
<1>10. CASE child.deltas > 0 /\ ChildWrites("running", "stored", ChildMessage)
  BY <1>5, <1>10 DEF ChildStores
<1>11. CASE ChildStep
  BY <1>3, <1>6, <1>7, <1>8, <1>9, <1>10, <1>11 DEF ChildStep
<1>12. QED
  BY <1>9, <1>11

LEMMA SameAppended ==
    ASSUME NEW S, NEW s \in Seq(S), NEW x, NEW y, Append(s, x) = Append(s, y)
    PROVE  x = y /\ Append(s, x) # s
<1>1. /\ Append(s, x)[Len(s) + 1] = x /\ Append(s, y)[Len(s) + 1] = y
      /\ Len(Append(s, x)) = Len(s) + 1 /\ Len(s) \in Nat
  OBVIOUS
<1>2. QED
  BY <1>1

LEMMA ChildWays ==
    ASSUME TypeInv, ShapeInv, [Next]_vars
    PROVE  \/ \E ev \in Events : Emits(ev) /\ ChildMoves(ev)
           \/ \E ev \in Events : Emits(ev) /\ ev.kind \notin ChildKinds /\ ChildStays
           \/ ChildRow /\ ChildStores
           \/ \E e \in Entries : Takes(e) /\ ChildStays
           \/ Still /\ ChildStays
<1>1. CASE SpawnChild \/ ChildStep
  BY <1>1, ChildEmitWays
<1>2. CASE StartRun \/ StartTurn \/ EndTurn \/ FinishRun \/ EmitText \/ EmitToolUse \/ EmitPause \/ EmitToolResult
           \/ CompactEmits
  <2>1. ChildStays
    BY <1>2 DEF StartRun, StartTurn, EndTurn, FinishRun, EmitText, EmitToolUse, EmitPause, EmitToolResult,
                CompactEmits, Compact, ChildStays
  <2>2. \E kind \in MainKinds : \E blocks : out' = Append(out, Event(kind, blocks))
    <3>1. \A kind, blocks : Emit(Event(kind, blocks)) => out' = Append(out, Event(kind, blocks))
      BY DEF Emit
    <3>2. CASE StartRun \/ StartTurn \/ EndTurn \/ FinishRun
      BY <3>1, <3>2 DEF StartRun, StartTurn, EndTurn, FinishRun, MainKinds
    <3>3. CASE EmitText \/ EmitToolUse \/ EmitPause \/ EmitToolResult
      BY <3>1, <3>3 DEF EmitText, EmitToolUse, EmitPause, EmitToolResult, MainKinds
    <3>4. CASE CompactEmits
      BY <3>1, <3>4 DEF CompactEmits, Compact, MainKinds
    <3>5. QED
      BY <1>2, <3>2, <3>3, <3>4
  <2>3. out \in Seq(Events)
    BY DEF TypeInv, ChannelTyped
  <2>4. \A ev \in Events : Emits(ev) => ev.kind \notin ChildKinds
    <3>1. PICK kind \in MainKinds : \E blocks : out' = Append(out, Event(kind, blocks))
      BY <2>2
    <3>2. PICK blocks : out' = Append(out, Event(kind, blocks))
      BY <3>1
    <3>3. \A ev \in Events : Emits(ev) => ev = Event(kind, blocks)
      BY <2>3, <3>2, SameAppended DEF Emits
    <3>4. QED
      BY <3>3, EventFacts DEF MainKinds, ChildKinds
  <2>5. QED
    BY <2>1, <2>4, StepWays
<1>3. CASE StoreInput \/ SendInput \/ Stores \/ Trims
  <2>1. rows \in [ui : SUBSET Blocks, llm : SUBSET SUBSET Blocks, child : SUBSET ChildBlocks]
    BY DEF TypeInv, RowsTyped
  <2>2. ChildStays
    BY <1>3, <2>1 DEF StoreInput, SendInput, Stores, StoreContext, StoreDisplay, Trims, TrimPersisted, TrimCompact,
                      ChildStays
  <2>3. QED
    BY <1>3, <2>2 DEF Still
<1>4. CASE Consumer
  <2>1. PICK e \in Entries : Takes(e)
    BY <1>4, ConsumerWays
  <2>2. ChildStays
    BY <2>1 DEF Takes, Consumes, ChildStays
  <2>3. QED
    BY <2>1, <2>2
<1>5. CASE Socket \/ Subscribe \/ UNCHANGED vars
  <2>1. ChildStays
    BY <1>5, SocketTyped DEF ServerFrame, ChildStays, vars
  <2>2. QED
    BY <1>5, <2>1 DEF Still
<1>6. QED
  BY <1>1, <1>2, <1>3, <1>4, <1>5, CoreCases DEF Next

-----------------------------------------------------------------------------
(* The events of a child in the order in which they are emitted.  What is    *)
(* held or queued comes before what the channel has; and from an event       *)
(* follows how far the child had come.                                        *)
Unborn == {"none", "row"}
Done == {"committed", "over", "ended"}
Saved == Done \cup {"stored"}

OfChild(e) == e.kind \in ChildKinds
Follows(a, b) ==
    /\ b.kind # "child_started"
    /\ b.kind \in {"child_delta", "child_committed"} => a.kind \in {"child_started", "child_delta"}
InOrder(s) == \A i, j \in 1..Len(s) : i < j /\ OfChild(s[i]) /\ OfChild(s[j]) => Follows(s[i], s[j])

Coming == {out[i] : i \in 1..Len(out)}
Holds(kind) == \E x \in Coming : x.kind = kind

OrderInv ==
    /\ InOrder(out)
    /\ InOrder(client.queue)
    /\ \A e \in Held, x \in Coming : OfChild(e) /\ OfChild(x) => Follows(e, x)

Dated(e) ==
    /\ OfChild(e) => child.stage \notin Unborn
    /\ e.kind = "child_committed" => child.stage \in Done
    /\ e.kind = "child_finished" => child.stage = "ended"

DateInv == \A e \in Held \cup Coming : Dated(e)

LEMMA OrderAppend ==
    ASSUME NEW S, NEW s \in Seq(S), NEW x \in S, InOrder(s),
           \A i \in 1..Len(s) : OfChild(s[i]) /\ OfChild(x) => Follows(s[i], x)
    PROVE  InOrder(Append(s, x))
<1>1. /\ Len(Append(s, x)) = Len(s) + 1 /\ Append(s, x)[Len(s) + 1] = x
      /\ \A i \in 1..Len(s) : Append(s, x)[i] = s[i]
  BY AppendFacts
<1> DEFINE l == Append(s, x)
<1> HIDE DEF l
<1>2. \A i \in 1..Len(l) : i \in 1..Len(s) \/ i = Len(s) + 1
  BY <1>1 DEF l
<1>3. ASSUME NEW i \in 1..Len(l), NEW j \in 1..Len(l), i < j, OfChild(l[i]), OfChild(l[j])
      PROVE  Follows(l[i], l[j])
  <2>1. i \in 1..Len(s) /\ l[i] = s[i]
    BY <1>1, <1>3 DEF l
  <2>2. CASE j \in 1..Len(s)
    <3>1. l[j] = s[j]
      BY <1>1, <2>2 DEF l
    <3>2. QED
      BY <1>3, <2>1, <2>2, <3>1 DEF InOrder
  <2>3. CASE j = Len(s) + 1
    <3>1. l[j] = x
      BY <1>1, <2>3 DEF l
    <3>2. QED
      BY <1>3, <2>1, <3>1
  <2>4. QED
    BY <1>2, <2>2, <2>3
<1>4. InOrder(l)
  BY <1>3 DEF InOrder
<1>5. QED
  BY <1>4 DEF l

LEMMA OrderTail ==
    ASSUME NEW S, NEW s \in Seq(S), s # <<>>, InOrder(s)
    PROVE  /\ InOrder(Tail(s))
           /\ \A j \in 1..Len(Tail(s)) : OfChild(s[1]) /\ OfChild(Tail(s)[j]) => Follows(s[1], Tail(s)[j])
<1> DEFINE l == Tail(s)
<1>1. /\ 1 \in 1..Len(s)
      /\ \A i \in 1..Len(l) : l[i] = s[i + 1] /\ i + 1 \in 1..Len(s) /\ 1 < i + 1
  BY TailFacts
<1> HIDE DEF l
<1>2. \A i, j \in 1..Len(l) : i < j => i + 1 < j + 1
  OBVIOUS
<1>3. InOrder(l)
  BY <1>1, <1>2 DEF InOrder
<1>4. \A j \in 1..Len(l) : OfChild(s[1]) /\ OfChild(l[j]) => Follows(s[1], l[j])
  BY <1>1 DEF InOrder
<1>5. QED
  BY <1>3, <1>4 DEF l

(* What the channel has after an event was emitted, or taken. *)
LEMMA ComingEmitted ==
    ASSUME RecordInv, NEW ev \in Events, Emits(ev)
    PROVE  Coming' = Coming \cup {ev}
<1>1. out \in Seq(Events) /\ out' = Append(out, ev)
  BY ShownParts DEF Emits
<1>2. /\ Len(out') = Len(out) + 1 /\ out'[Len(out) + 1] = ev
      /\ \A i \in 1..Len(out) : out'[i] = out[i]
  BY <1>1, AppendFacts
<1>3. /\ \A i \in 1..Len(out') : i \in 1..Len(out) \/ i = Len(out) + 1
      /\ Len(out) + 1 \in 1..Len(out') /\ \A i \in 1..Len(out) : i \in 1..Len(out')
  BY <1>1, <1>2
<1>4. QED
  BY <1>2, <1>3 DEF Coming

LEMMA ComingTaken ==
    ASSUME RecordInv, NEW e \in Entries, Takes(e)
    PROVE  /\ Coming' \subseteq Coming
           /\ \A x \in Coming : x \in Coming' \/ (x.kind = e.kind /\ x.blocks = e.blocks)
           /\ OfChild(e) => \E x \in Coming : x.kind = e.kind /\ x.blocks = e.blocks
           /\ InOrder(out) => /\ InOrder(out)'
                              /\ \A x \in Coming' : OfChild(e) /\ OfChild(x) => Follows(e, x)
<1>1. out \in Seq(Events) /\ TypeInv /\ ShapeInv /\ FreshInv
  BY ShownParts
<1>2. CASE TakesInbox(e)
  <2>1. out' = out /\ e.kind = "user_message_injected"
    BY <1>1, <1>2, TakesFrom DEF TakesInbox
  <2>2. ~OfChild(e)
    BY <2>1 DEF OfChild, ChildKinds
  <2>3. QED
    BY <2>1, <2>2 DEF Coming
<1>3. CASE TakesOut(e)
  <2>1. /\ out # <<>> /\ out' = Tail(out) /\ e.kind = out[1].kind /\ e.blocks = out[1].blocks
    BY <1>3 DEF TakesOut
  <2>2. /\ 1 \in 1..Len(out)
        /\ \A i \in 1..Len(out') : out'[i] = out[i + 1] /\ i + 1 \in 1..Len(out)
        /\ \A i \in 1..Len(out) : i = 1 \/ (i - 1 \in 1..Len(out') /\ out'[i - 1] = out[i])
    BY <1>1, <2>1, TailFacts
  <2>3. Coming' \subseteq Coming
    <3> SUFFICES ASSUME NEW i \in 1..Len(out') PROVE out'[i] \in Coming
      BY DEF Coming
    <3>1. out'[i] = out[i + 1] /\ i + 1 \in 1..Len(out)
      BY <2>2
    <3>2. QED
      BY <3>1 DEF Coming
  <2>4. \A x \in Coming : x \in Coming' \/ (x.kind = e.kind /\ x.blocks = e.blocks)
    BY <2>1, <2>2 DEF Coming
  <2>5. out[1] \in Coming
    BY <2>2 DEF Coming
  <2>6. ASSUME InOrder(out)
        PROVE  /\ InOrder(out)'
               /\ \A x \in Coming' : OfChild(e) /\ OfChild(x) => Follows(e, x)
    <3>1. /\ InOrder(Tail(out))
          /\ \A j \in 1..Len(Tail(out)) : OfChild(out[1]) /\ OfChild(Tail(out)[j]) => Follows(out[1], Tail(out)[j])
      BY <1>1, <2>1, <2>6, OrderTail
    <3>2. InOrder(out)'
      BY <2>1, <3>1
    <3>3. \A x \in Coming' : OfChild(e) /\ OfChild(x) => Follows(e, x)
      BY <2>1, <3>1 DEF Coming, OfChild, Follows
    <3>4. QED
      BY <3>2, <3>3
  <2>7. QED
    BY <2>1, <2>3, <2>4, <2>5, <2>6
<1>4. QED
  BY <1>2, <1>3 DEF Takes

LEMMA ComingStill ==
    ASSUME RecordInv, Still
    PROVE  Coming' = Coming /\ (InOrder(out) => InOrder(out)')
<1>1. out' = out
  BY ShownParts, StillEffect
<1>2. QED
  BY <1>1 DEF Coming

(* What recording a child's event leaves in the buffer.  Deltas are merged.  *)
Covers(m, entries, e) ==
    /\ m.kind = "child_delta" /\ e.blocks \subseteq m.blocks
    /\ \A x \in entries : x.kind = "child_delta" => x.blocks \subseteq m.blocks

LEMMA ChildRecorded ==
    ASSUME NEW entries \in SUBSET Entries, NEW e \in Entries, e.kind \in ChildKinds
    PROVE  /\ e.kind = "child_started" => RecordChild(entries, e) = {e}
           /\ e.kind = "child_finished" => RecordChild(entries, e) = {}
           /\ e.kind = "child_committed" =>
                 \A f \in RecordChild(entries, e) : f \in entries /\ f.kind # "child_delta"
           /\ e.kind = "child_delta" =>
                 /\ \A f \in RecordChild(entries, e) : f \in entries \/ f.kind = "child_delta"
                 /\ \E m \in RecordChild(entries, e) : Covers(m, entries, e)
<1> DEFINE last == OfKind(entries, {"child_delta"})
           m == [e EXCEPT !.seq = IF last = {} THEN @ ELSE (CHOOSE x \in last : TRUE).seq,
                          !.blocks = @ \cup BlocksOf(last)]
<1>1. CASE e.kind # "child_delta"
  BY <1>1 DEF RecordChild, OfKind, ChildKinds
<1>2. CASE e.kind = "child_delta"
  <2>1. RecordChild(entries, e) = (entries \ last) \cup {m}
    BY <1>2 DEF RecordChild
  <2>2. m.kind = "child_delta" /\ m.blocks = e.blocks \cup BlocksOf(last)
    <3> HIDE DEF last
    <3>1. QED
      BY <1>2 DEF Entries
  <2>3. \A x \in entries : x.kind = "child_delta" => x.blocks \subseteq BlocksOf(last)
    BY DEF OfKind, BlocksOf
  <2> HIDE DEF m, last
  <2>4. Covers(m, entries, e)
    BY <2>2, <2>3 DEF Covers
  <2>5. \A f \in RecordChild(entries, e) : f \in entries \/ f.kind = "child_delta"
    BY <2>1, <2>2
  <2>6. m \in RecordChild(entries, e)
    BY <2>1
  <2>7. QED
    BY <1>2, <2>4, <2>5, <2>6
<1>3. QED
  BY <1>1, <1>2

LEMMA HeldKinds ==
    ASSUME RecordInv, RecordInv', NEW e \in Entries, Takes(e)
    PROVE  /\ \A f \in Held' : f \in Held \/ f = e \/ (f.kind = "child_delta" /\ e.kind = "child_delta")
           /\ e.kind \notin ChildKinds => buffer'.child = buffer.child
           /\ e.kind \in ChildKinds => buffer'.child = RecordChild(buffer.child, e)
           /\ \A f \in buffer.child : f \in Held
<1>1. buffer \in Buffers /\ BufferTyped /\ buffer' = Record(buffer, e)
  BY ShownParts DEF Takes
<1>2. /\ e.kind \notin ChildKinds => buffer'.child = buffer.child
      /\ e.kind \in ChildKinds => buffer'.child = RecordChild(buffer.child, e)
  BY <1>1, RecordEffect
<1>3. buffer.child \in SUBSET Entries /\ buffer.child \subseteq Held
  BY <1>1, ReplayIs DEF Buffers, Held
<1>4. \A f \in buffer'.child : f \in buffer.child \/ f = e \/ (f.kind = "child_delta" /\ e.kind = "child_delta")
  <2>1. CASE e.kind \notin ChildKinds
    BY <1>2, <2>1
  <2>2. CASE e.kind \in ChildKinds
    <3>1. /\ e.kind = "child_started" => buffer'.child = {e}
          /\ e.kind = "child_finished" => buffer'.child = {}
          /\ e.kind = "child_committed" => \A f \in buffer'.child : f \in buffer.child
          /\ e.kind = "child_delta" => \A f \in buffer'.child : f \in buffer.child \/ f.kind = "child_delta"
      <4> DEFINE r == RecordChild(buffer.child, e)
      <4>1. /\ e.kind = "child_started" => r = {e}
            /\ e.kind = "child_finished" => r = {}
            /\ e.kind = "child_committed" => \A f \in r : f \in buffer.child
            /\ e.kind = "child_delta" => \A f \in r : f \in buffer.child \/ f.kind = "child_delta"
        BY <1>3, <2>2, ChildRecorded
      <4>2. buffer'.child = r
        BY <1>2, <2>2
      <4> HIDE DEF r
      <4>3. QED
        BY <4>1, <4>2
    <3>2. QED
      BY <2>2, <3>1 DEF ChildKinds
  <2>3. QED
    BY <2>1, <2>2
<1>5. \A f \in Held' : f \in Held \/ f = e \/ f \in buffer'.child
  BY HeldTaken
<1>6. QED
  BY <1>2, <1>3, <1>4, <1>5

LEMMA DatedKept ==
    ASSUME ChildStores \/ ChildStays \/ \E ev : ChildMoves(ev), NEW x, Dated(x)
    PROVE  Dated(x)'
<1>1. CASE ChildStays
  BY <1>1 DEF ChildStays, Dated
<1>2. CASE ChildStores
  BY <1>2 DEF ChildStores, Dated, Unborn, Done
<1>3. CASE \E ev : ChildMoves(ev)
  BY <1>3 DEF ChildMoves, Dated, Unborn, Done
<1>4. QED
  BY <1>1, <1>2, <1>3

LEMMA MoveFollows ==
    ASSUME NEW ev, ChildMoves(ev), NEW x, Dated(x), OfChild(x)
    PROVE  Follows(x, ev) /\ Dated(ev)'
<1>1. child.stage \notin Unborn /\ x.kind \in ChildKinds
  BY DEF Dated, OfChild
<1>2. CASE ev.kind = "child_started"
  BY <1>1, <1>2 DEF ChildMoves, Unborn
<1>3. CASE ev.kind = "child_delta"
  BY <1>1, <1>3 DEF ChildMoves, Follows, Dated, Done, Unborn, ChildKinds
<1>4. CASE ev.kind = "child_committed"
  BY <1>1, <1>4 DEF ChildMoves, Follows, Dated, Done, Unborn, ChildKinds
<1>5. CASE ev.kind = "child_finished"
  BY <1>1, <1>5 DEF ChildMoves, Follows, Dated, Done, Unborn
<1>6. QED
  BY <1>2, <1>3, <1>4, <1>5 DEF ChildMoves

LEMMA MoveDated == ASSUME NEW ev, ChildMoves(ev) PROVE Dated(ev)'
BY DEF ChildMoves, Dated, Unborn, Done

LEMMA QueueStill ==
    ASSUME TypeInv, Still \/ \E ev \in Events : Emits(ev), InOrder(client.queue)
    PROVE  InOrder(client.queue)'
<1>1. client.queue \in Seq(Entries)
  BY DEF TypeInv, ClientTyped, Clients
<1>2. \/ client'.queue = client.queue
      \/ client'.queue = <<>>
      \/ client.queue # <<>> /\ client'.queue = Tail(client.queue)
  <2>1. CASE Socket \/ Subscribe
    BY <2>1, SocketEffect
  <2>2. CASE client' = client
    BY <2>2
  <2>3. QED
    BY <2>1, <2>2, StillEffect DEF Emits
<1>3. InOrder(<<>>)
  BY DEF InOrder
<1>4. client.queue # <<>> => InOrder(Tail(client.queue))
  BY <1>1, OrderTail
<1>5. InOrder(client'.queue)
  BY <1>2, <1>3, <1>4
<1>6. QED
  BY <1>5

LEMMA QueueTaken ==
    ASSUME RecordInv, NEW e \in Entries, Takes(e), InOrder(client.queue),
           \A i \in Queued : OfChild(client.queue[i]) /\ OfChild(e) => Follows(client.queue[i], e)
    PROVE  InOrder(client.queue)'
<1> TypeInv /\ client.queue \in Seq(Entries)
  BY ShownParts
<1>1. PICK event \in Events : Consumes(event, e)
  BY DEF Takes
<1>2. client'.queue = client.queue \/ client'.queue = Append(client.queue, e)
  BY <1>1, ClientRecorded
<1>3. InOrder(Append(client.queue, e))
  BY OrderAppend DEF Queued
<1>4. InOrder(client'.queue)
  BY <1>2, <1>3
<1>5. QED
  BY <1>4

LEMMA OrderInit == Init => OrderInv /\ DateInv
<1> SUFFICES ASSUME Init PROVE OrderInv /\ DateInv
  OBVIOUS
<1>1. client.queue = <<>> /\ client.replay = {} /\ out = <<>>
  BY DEF Init
<1>2. Replay = {}
  <2>1. buffer = [prefix |-> {}, run |-> {}, tail |-> {}, compact |-> {}, child |-> {}]
    BY DEF Init, EmptyBuffer
  <2>2. BufferTyped
    BY TypeInit DEF TypeInv
  <2>3. QED
    BY <2>1, <2>2, ReplayIs
<1>3. Coming = {} /\ Queued = {}
  BY <1>1 DEF Coming, Queued
<1>4. Held = {}
  BY <1>1, <1>2, <1>3 DEF Held
<1>5. InOrder(out) /\ InOrder(client.queue)
  BY <1>1 DEF InOrder
<1>6. QED
  BY <1>3, <1>4, <1>5 DEF OrderInv, DateInv

LEMMA OrderStep ==
    ASSUME RecordInv, RecordInv', HeldInv, OrderInv, DateInv, [Next]_vars
    PROVE  OrderInv' /\ DateInv'
<1> TypeInv /\ ShapeInv
  BY ShownParts
<1>1. ASSUME NEW ev \in Events, Emits(ev),
             ChildMoves(ev) \/ (ev.kind \notin ChildKinds /\ ChildStays)
      PROVE  OrderInv' /\ DateInv'
  <2>1. Held' \subseteq Held /\ Coming' = Coming \cup {ev}
    BY <1>1, HeldStill, ComingEmitted
  <2>2. \A x \in Held \cup Coming : Dated(x)'
    BY <1>1, DatedKept DEF DateInv
  <2>3. Dated(ev)'
    BY <1>1, MoveDated DEF Dated, OfChild, ChildKinds
  <2>4. DateInv'
    BY <2>1, <2>2, <2>3 DEF DateInv
  <2>5. \A x \in Held \cup Coming : OfChild(x) /\ OfChild(ev) => Follows(x, ev)
    BY <1>1, MoveFollows DEF DateInv, OfChild
  <2>6. InOrder(out)'
    <3>1. out \in Seq(Events) /\ out' = Append(out, ev)
      BY <1>1, ShownParts DEF Emits
    <3>2. \A i \in 1..Len(out) : out[i] \in Coming
      BY DEF Coming
    <3>3. InOrder(Append(out, ev))
      BY <2>5, <3>1, <3>2, OrderAppend DEF OrderInv
    <3>4. QED
      BY <3>1, <3>3
  <2>7. InOrder(client.queue)'
    BY <1>1, QueueStill DEF OrderInv
  <2>8. \A e \in Held', x \in Coming' : OfChild(e) /\ OfChild(x) => Follows(e, x)
    BY <2>1, <2>5 DEF OrderInv
  <2>9. QED
    BY <2>4, <2>6, <2>7, <2>8 DEF OrderInv
<1>2. ASSUME NEW e \in Entries, Takes(e), ChildStays
      PROVE  OrderInv' /\ DateInv'
  <2>1. /\ Coming' \subseteq Coming
        /\ OfChild(e) => \E x \in Coming : x.kind = e.kind
        /\ InOrder(out)'
        /\ \A x \in Coming' : OfChild(e) /\ OfChild(x) => Follows(e, x)
    BY <1>2, ComingTaken DEF OrderInv
  <2>2. \A f \in Held' : f \in Held \/ f.kind = e.kind
    BY <1>2, HeldKinds
  <2>3. \A f \in Held', x \in Coming' : OfChild(f) /\ OfChild(x) => Follows(f, x)
    BY <2>1, <2>2 DEF OrderInv, Follows, OfChild
  <2>4. \A f \in Held : \A x : x.kind = e.kind /\ OfChild(f) /\ OfChild(x) => Follows(f, x)
    BY <2>1 DEF OrderInv, Follows, OfChild
  <2>5. InOrder(client.queue)'
    <3>1. \A i \in Queued : client.queue[i] \in Held
      BY DEF Held
    <3>2. QED
      BY <1>2, <2>4, <3>1, QueueTaken DEF OrderInv
  <2>6. \A x \in Held \cup Coming : Dated(x)'
    BY <1>2, DatedKept DEF DateInv
  <2>7. \A x : OfChild(e) /\ x.kind = e.kind => Dated(x)'
    BY <2>1, <2>6 DEF Dated, OfChild
  <2>8. \A x : ~OfChild(e) /\ x.kind = e.kind => Dated(x)'
    BY DEF Dated, OfChild, ChildKinds
  <2>9. DateInv'
    BY <2>1, <2>2, <2>6, <2>7, <2>8 DEF DateInv
  <2>10. QED
    BY <2>1, <2>3, <2>5, <2>9 DEF OrderInv
<1>3. CASE Still /\ (ChildStores \/ ChildStays)
  <2>1. Held' \subseteq Held /\ Coming' = Coming /\ InOrder(out)'
    BY <1>3, HeldStill, ComingStill DEF OrderInv
  <2>2. \A x \in Held \cup Coming : Dated(x)'
    BY <1>3, DatedKept DEF DateInv
  <2>3. InOrder(client.queue)'
    BY <1>3, QueueStill DEF OrderInv
  <2>4. QED
    BY <2>1, <2>2, <2>3 DEF OrderInv, DateInv
<1>4. QED
  BY <1>1, <1>2, <1>3, ChildWays DEF Still

-----------------------------------------------------------------------------
(* The row of a child's message, and what the consumer has told of it: the   *)
(* message, once its event has left the channel.                              *)
ToldChild == told \cap ChildBlocks

ChildRows ==
    /\ rows.child = IF child.stage \in Saved THEN ChildMessage ELSE {}
    /\ child.stage \in Saved => child.deltas > 0
    /\ child.stage \in Unborn => child.deltas = 0
    /\ rows.ui \subseteq Plain

ToldRight ==
    /\ ToldChild = IF child.stage \in Done /\ ~Holds("child_committed") THEN ChildMessage ELSE {}
    /\ Holds("child_delta") => ToldChild = {}
    /\ \A x \in Coming : /\ x.kind = "child_committed" => x.blocks = ChildMessage
                         /\ x.kind \in {"child_started", "child_finished"} => x.blocks = {}
    /\ \A e \in Held : /\ e.kind = "child_committed" => e.blocks = ToldChild
                       /\ e.kind \in {"child_committed", "child_finished"} => ToldChild # {}
                       /\ ~OfChild(e) => e.blocks \cap ChildBlocks = {}

(* Blocks of the main conversation are no child's. *)
LEMMA ShapePlain ==
    ASSUME NEW e, Shape(e), e.kind \in Kinds, ~OfChild(e)
    PROVE  e.blocks \cap ChildBlocks = {}
<1>1. \/ e.blocks = {}
      \/ \E b : e.blocks = {b} /\ b \notin ChildBlocks
  <2>1. CASE e.kind \in {"text_delta", "tool_use", "pause_requested", "tool_result"}
    BY <2>1, ChildIsNotPlain DEF Shape
  <2>2. CASE e.kind \in {"user_message_injected", "compact_summary_finished"}
    BY <2>2, ChildIsNotPlain DEF Shape
  <2>3. CASE Cuts(e) \/ e.kind \in {"compact_summary_started", "compact_summary_failed"}
    BY <2>3 DEF Shape
  <2>4. QED
    BY <2>1, <2>2, <2>3 DEF OfChild, Kinds, MainKinds, Cuts
<1>2. QED
  BY <1>1

LEMMA ChildRowsInit == Init => ChildRows /\ ToldRight
<1> SUFFICES ASSUME Init PROVE ChildRows /\ ToldRight
  OBVIOUS
<1>1. Coming = {} /\ Held = {}
  <2>1. client.queue = <<>> /\ client.replay = {} /\ out = <<>>
    BY DEF Init
  <2>2. buffer = [prefix |-> {}, run |-> {}, tail |-> {}, compact |-> {}, child |-> {}]
    BY DEF Init, EmptyBuffer
  <2>3. Replay = {}
    BY <2>2, TypeInit, ReplayIs DEF TypeInv
  <2>4. QED
    BY <2>1, <2>3 DEF Coming, Held, Queued
<1>2. child.stage = "none" /\ child.deltas = 0 /\ rows.ui = {} /\ rows.child = {} /\ told = {}
  BY DEF Init
<1>3. QED
  BY <1>1, <1>2 DEF ChildRows, ToldRight, ToldChild, Saved, Done, Unborn, Holds

LEMMA PlainRows ==
    ASSUME TypeInv, rows.ui \subseteq Plain, StoreInput \/ SendInput \/ Stores \/ Trims \/ ChildRow
    PROVE  rows'.ui \subseteq Plain
<1> /\ RunTyped /\ rows \in [ui : SUBSET Blocks, llm : SUBSET SUBSET Blocks, child : SUBSET ChildBlocks]
    /\ input.stored \in Nat /\ MaxInputs \in Nat /\ deltas \in 0..MaxDeltas /\ MaxDeltas \in Nat
  BY BoundFacts DEF TypeInv, RowsTyped, InputTyped, RunTyped
<1>1. CASE StoreInput
  <2>1. input.stored + 1 \in 1..MaxInputs
    BY <1>1 DEF StoreInput
  <2>2. Input(input.stored + 1) \in Plain
    BY <2>1, BlockFacts, ChildIsNotPlain DEF Plain
  <2>3. rows'.ui = rows.ui \cup {Input(input.stored + 1)}
    BY <1>1 DEF StoreInput
  <2>4. QED
    BY <2>2, <2>3
<1>2. ASSUME Stores PROVE rows'.ui \subseteq Plain
  <2>1. turn \in Turns
    BY <1>2 DEF RunTyped, Turns, Stores, StoreContext, StoreDisplay
  <2>2. Message \subseteq Plain /\ Result(turn) \in Plain /\ Summary \in Plain
    <3>1. \A n \in 1..deltas : Text(turn, n) \in Plain
      BY <2>1, BlockFacts, ChildIsNotPlain DEF Plain
    <3>2. Use(turn) \in Plain /\ Result(turn) \in Plain /\ Summary \in Plain
      BY <2>1, BlockFacts, ChildIsNotPlain DEF Plain
    <3>3. Message \subseteq Plain
      BY <3>1, <3>2 DEF Message
    <3>4. QED
      BY <3>2, <3>3
  <2>3. \/ rows'.ui = rows.ui
        \/ rows'.ui = rows.ui \cup Message
        \/ rows'.ui = rows.ui \cup {Result(turn)}
        \/ rows'.ui = rows.ui \cup {Summary}
    BY <1>2 DEF Stores, StoreContext, StoreDisplay
  <2>4. QED
    BY <2>2, <2>3
<1>3. CASE SendInput \/ Trims \/ ChildRow
  <2>1. rows'.ui = rows.ui
    BY <1>3 DEF SendInput, Trims, TrimPersisted, TrimCompact, ChildRow
  <2>2. QED
    BY <2>1
<1>4. QED
  BY <1>1, <1>2, <1>3

LEMMA ChildRowsStep ==
    ASSUME RecordInv, ChildRows, [Next]_vars
    PROVE  ChildRows'
<1> TypeInv /\ ShapeInv /\ child.deltas \in Nat /\ child.stage \in ChildStages
  BY ShownParts DEF TypeInv, ChildTyped
<1>1. rows'.ui \subseteq Plain
  <2>1. CASE StoreInput \/ SendInput \/ Stores \/ Trims \/ ChildRow
    BY <2>1, PlainRows DEF ChildRows
  <2>2. CASE (\E ev \in Events : Emits(ev)) \/ (\E e \in Entries : Takes(e)) \/ Quiet
    BY <2>2 DEF Emits, Takes, Quiet, ChildRows
  <2>3. QED
    BY <2>1, <2>2, Ways
<1>2. CASE ChildStays
  BY <1>1, <1>2 DEF ChildStays, ChildRows, ChildMessage
<1>3. CASE \E ev \in Events : Emits(ev) /\ ChildMoves(ev)
  <2>1. PICK ev \in Events : Emits(ev) /\ ChildMoves(ev)
    BY <1>3
  <2>2. rows' = rows
    BY <2>1 DEF Emits
  <2>3. CASE ev.kind \in {"child_started", "child_delta"}
    <3>1. child'.stage = "running" /\ child.stage \in {"row", "running"}
      BY <2>1, <2>3 DEF ChildMoves
    <3>2. QED
      BY <1>1, <2>2, <3>1 DEF ChildRows, Saved, Done, Unborn
  <2>4. CASE ev.kind \in {"child_committed", "child_finished"}
    <3>1. child'.deltas = child.deltas /\ child'.stage \in Saved /\ child.stage \in Saved
      BY <2>1, <2>4 DEF ChildMoves, Saved, Done
    <3>2. child'.stage \notin Unborn
      BY <3>1 DEF Saved, Done, Unborn
    <3>3. ChildMessage' = ChildMessage
      BY <3>1 DEF ChildMessage
    <3>4. QED
      BY <1>1, <2>2, <3>1, <3>2, <3>3 DEF ChildRows
  <2>5. QED
    BY <2>1, <2>3, <2>4 DEF ChildMoves
<1>4. CASE ChildStores
  <2>1. ChildMessage' = ChildMessage /\ child'.deltas = child.deltas
    BY <1>4 DEF ChildStores, ChildMessage
  <2>2. CASE child.stage = "running"
    <3>1. /\ child.deltas > 0 /\ child'.stage = "stored" /\ rows'.child = rows.child \cup ChildMessage
      BY <1>4, <2>2 DEF ChildStores
    <3>2. rows.child = {}
      BY <2>2 DEF ChildRows, Saved, Done
    <3>3. QED
      BY <1>1, <2>1, <3>1, <3>2 DEF ChildRows, Saved, Done, Unborn
  <2>3. CASE child.stage # "running"
    BY <1>1, <1>4, <2>1, <2>3 DEF ChildStores, ChildRows, Saved, Done, Unborn
  <2>4. QED
    BY <2>2, <2>3
<1>5. QED
  BY <1>2, <1>3, <1>4, ChildWays

LEMMA ToldEmitted ==
    ASSUME RecordInv, RecordInv', HeldInv, DateInv, ChildRows, ToldRight, NEW ev \in Events, Emits(ev),
           ChildMoves(ev) \/ (ev.kind \notin ChildKinds /\ ChildStays)
    PROVE  ToldRight'
<1>1. Held' \subseteq Held /\ Coming' = Coming \cup {ev} /\ told' = told
  BY HeldStill, ComingEmitted DEF Emits
<1>2. ToldChild' = ToldChild
  BY <1>1 DEF ToldChild
<1>3. \A kind : Holds(kind)' <=> Holds(kind) \/ ev.kind = kind
  BY <1>1 DEF Holds
<1>4. \A e \in Held' : /\ e.kind = "child_committed" => e.blocks = ToldChild'
                       /\ e.kind \in {"child_committed", "child_finished"} => ToldChild' # {}
                       /\ ~OfChild(e) => e.blocks \cap ChildBlocks = {}
  BY <1>1, <1>2 DEF ToldRight
<1>5. Holds("child_committed") => child.stage \in Done
  BY DEF DateInv, Dated, Holds
<1>6. CASE ev.kind \notin ChildKinds /\ ChildStays
  <2>1. ChildMessage' = ChildMessage /\ child'.stage = child.stage
    BY <1>6 DEF ChildStays, ChildMessage
  <2>2. /\ Holds("child_committed")' <=> Holds("child_committed")
        /\ Holds("child_delta")' <=> Holds("child_delta")
    BY <1>3, <1>6 DEF ChildKinds
  <2>3. \A x \in Coming' : /\ x.kind = "child_committed" => x.blocks = ChildMessage'
                           /\ x.kind \in {"child_started", "child_finished"} => x.blocks = {}
    BY <1>1, <1>6, <2>1 DEF ToldRight, ChildKinds
  <2>4. QED
    BY <1>2, <1>4, <2>1, <2>2, <2>3 DEF ToldRight
<1>7. CASE ChildMoves(ev) /\ ev.kind \in {"child_started", "child_delta"}
  <2>1. child.stage \notin Done /\ child'.stage \notin Done
    BY <1>7 DEF ChildMoves, Done
  <2>2. ToldChild = {}
    BY <2>1 DEF ToldRight
  <2>3. ~Holds("child_committed")
    BY <1>5, <2>1
  <2>4. \A x \in Coming' : /\ x.kind = "child_committed" => x.blocks = ChildMessage'
                           /\ x.kind \in {"child_started", "child_finished"} => x.blocks = {}
    BY <1>1, <1>7, <2>3 DEF ToldRight, ChildMoves, Holds
  <2>5. QED
    BY <1>2, <1>4, <2>1, <2>2, <2>4 DEF ToldRight
<1>8. CASE ChildMoves(ev) /\ ev.kind \in {"child_committed", "child_finished"}
  <2>1. /\ ChildMessage' = ChildMessage /\ child'.stage \in Done
        /\ ev.kind = "child_committed" => child.stage \notin Done /\ ev.blocks = ChildMessage
        /\ ev.kind = "child_finished" => child.stage \in Done /\ ev.blocks = {}
    BY <1>8 DEF ChildMoves, ChildMessage, Done
  <2>2. Holds("child_delta")' <=> Holds("child_delta")
    BY <1>3, <1>8
  <2>3. ToldChild' = IF child'.stage \in Done /\ ~Holds("child_committed")' THEN ChildMessage' ELSE {}
    BY <1>2, <1>3, <1>8, <2>1 DEF ToldRight
  <2>4. \A x \in Coming' : /\ x.kind = "child_committed" => x.blocks = ChildMessage'
                           /\ x.kind \in {"child_started", "child_finished"} => x.blocks = {}
    BY <1>1, <1>8, <2>1 DEF ToldRight
  <2>5. QED
    BY <1>2, <1>4, <2>2, <2>3, <2>4 DEF ToldRight
<1>9. QED
  BY <1>6, <1>7, <1>8 DEF ChildMoves

(* What an event of the child tells when it is taken. *)
LEMMA ToldTakes ==
    ASSUME RecordInv, OrderInv, DateInv, ChildRows, ToldRight, NEW e \in Entries, Takes(e)
    PROVE  /\ e.kind # "child_committed" => ToldChild' = ToldChild
           /\ e.kind = "child_committed" =>
                 /\ ToldChild = {} /\ ToldChild' = ChildMessage /\ e.blocks = ChildMessage /\ ChildMessage # {}
                 /\ child.stage \in Done /\ ~Holds("child_committed")' /\ ~Holds("child_delta")'
           /\ e.kind = "child_delta" => ToldChild = {}
           /\ e.kind = "child_finished" => ToldChild # {}
           /\ \A kind : kind # e.kind => (Holds(kind)' <=> Holds(kind))
           /\ ~OfChild(e) => e.blocks \cap ChildBlocks = {}
<1> child.deltas \in Nat /\ ChildMessage \in SUBSET ChildBlocks /\ e.kind \in Kinds
  BY ShownParts, ChildMessageType DEF TypeInv, ChildTyped, Entries
<1>1. PICK event \in Events : Consumes(event, e)
  BY DEF Takes
<1>2. told' = told \cup (IF e.kind = "child_delta" THEN {} ELSE e.blocks)
  <2>1. e.kind = event.kind /\ e.blocks = event.blocks
    BY <1>1 DEF Consumes, Takes, TakesOut, TakesInbox
  <2>2. QED
    BY <1>1, <2>1 DEF Consumes
<1>3. ~OfChild(e) => e.blocks \cap ChildBlocks = {}
  BY ShapePlain DEF Takes
<1>4. /\ Coming' \subseteq Coming
      /\ \A x \in Coming : x \in Coming' \/ (x.kind = e.kind /\ x.blocks = e.blocks)
      /\ OfChild(e) => \E x \in Coming : x.kind = e.kind /\ x.blocks = e.blocks
      /\ \A x \in Coming' : OfChild(e) /\ OfChild(x) => Follows(e, x)
  BY ComingTaken DEF OrderInv
<1>5. \A kind : kind # e.kind => (Holds(kind)' <=> Holds(kind))
  BY <1>4 DEF Holds
<1>6. child.stage \in Saved => ChildMessage # {}
  <2>1. child.deltas > 0 => 1 \in 1..child.deltas
    OBVIOUS
  <2>2. QED
    BY <2>1 DEF ChildRows, ChildMessage
<1>7. CASE ~OfChild(e)
  <2>1. ToldChild' = ToldChild
    BY <1>2, <1>3, <1>7 DEF ToldChild
  <2>2. QED
    BY <1>3, <1>5, <1>7, <2>1 DEF OfChild, ChildKinds
<1>8. CASE OfChild(e)
  <2>1. PICK x \in Coming : x.kind = e.kind /\ x.blocks = e.blocks
    BY <1>4, <1>8
  <2>2. e.kind \in {"child_started", "child_finished"} => e.blocks = {}
    BY <2>1 DEF ToldRight
  <2>3. e.kind # "child_committed" => told' = told
    BY <1>2, <1>8, <2>2 DEF OfChild, ChildKinds
  <2>4. e.kind = "child_delta" => ToldChild = {}
    BY <2>1 DEF ToldRight, Holds
  <2>5. ASSUME e.kind = "child_committed"
        PROVE  /\ ToldChild = {} /\ ToldChild' = ChildMessage /\ e.blocks = ChildMessage /\ ChildMessage # {}
               /\ child.stage \in Done /\ ~Holds("child_committed")' /\ ~Holds("child_delta")'
    <3>1. e.blocks = ChildMessage /\ child.stage \in Done /\ Holds("child_committed")
      BY <2>1, <2>5 DEF ToldRight, DateInv, Dated, Holds
    <3>2. ToldChild = {}
      BY <3>1 DEF ToldRight
    <3>3. ToldChild' = ChildMessage
      BY <1>2, <2>5, <3>1, <3>2 DEF ToldChild
    <3>4. \A y \in Coming' : y.kind \notin {"child_committed", "child_delta"}
      BY <1>4, <1>8, <2>5 DEF Follows, OfChild, ChildKinds
    <3>5. QED
      BY <1>6, <3>1, <3>2, <3>3, <3>4 DEF Holds, Saved
  <2>6. ASSUME e.kind = "child_finished" PROVE ToldChild # {}
    <3>1. child.stage \in Done
      BY <2>1, <2>6 DEF DateInv, Dated, Done
    <3>2. ~Holds("child_committed")
      BY <1>4, <1>8, <2>6 DEF Holds, Follows, OfChild, ChildKinds
    <3>3. QED
      BY <1>6, <3>1, <3>2 DEF ToldRight, Saved
  <2>7. ToldChild' = ToldChild \/ e.kind = "child_committed"
    BY <2>3 DEF ToldChild
  <2>8. QED
    BY <1>3, <1>5, <2>4, <2>5, <2>6, <2>7
<1>9. QED
  BY <1>7, <1>8

LEMMA ToldTaken ==
    ASSUME RecordInv, RecordInv', OrderInv, DateInv, ChildRows, ToldRight, NEW e \in Entries, Takes(e), ChildStays
    PROVE  ToldRight'
<1>1. /\ e.kind # "child_committed" => ToldChild' = ToldChild
      /\ e.kind = "child_committed" =>
            /\ ToldChild = {} /\ ToldChild' = ChildMessage /\ e.blocks = ChildMessage /\ ChildMessage # {}
            /\ child.stage \in Done /\ ~Holds("child_committed")' /\ ~Holds("child_delta")'
      /\ e.kind = "child_delta" => ToldChild = {}
      /\ e.kind = "child_finished" => ToldChild # {}
      /\ \A kind : kind # e.kind => (Holds(kind)' <=> Holds(kind))
      /\ ~OfChild(e) => e.blocks \cap ChildBlocks = {}
  BY ToldTakes
<1>2. ChildMessage' = ChildMessage /\ child' = child
  BY DEF ChildStays, ChildMessage
<1>3. Coming' \subseteq Coming
  BY ComingTaken
<1>4. \A f \in Held' : f \in Held \/ f = e \/ f.kind = "child_delta"
  BY HeldKinds
<1>5. ToldChild' = IF child'.stage \in Done /\ ~Holds("child_committed")' THEN ChildMessage' ELSE {}
  <2>1. CASE e.kind = "child_committed"
    BY <1>1, <1>2, <2>1
  <2>2. CASE e.kind # "child_committed"
    <3>1. Holds("child_committed")' <=> Holds("child_committed")
      BY <1>1, <2>2
    <3>2. QED
      BY <1>1, <1>2, <2>2, <3>1 DEF ToldRight
  <2>3. QED
    BY <2>1, <2>2
<1>6. Holds("child_delta")' => ToldChild' = {}
  <2>1. Holds("child_delta")' => Holds("child_delta")
    BY <1>3 DEF Holds
  <2>2. QED
    BY <1>1, <2>1 DEF ToldRight
<1>7. \A x \in Coming' : /\ x.kind = "child_committed" => x.blocks = ChildMessage'
                         /\ x.kind \in {"child_started", "child_finished"} => x.blocks = {}
  BY <1>2, <1>3 DEF ToldRight
<1>8. \A f \in Held' : /\ f.kind = "child_committed" => f.blocks = ToldChild'
                       /\ f.kind \in {"child_committed", "child_finished"} => ToldChild' # {}
                       /\ ~OfChild(f) => f.blocks \cap ChildBlocks = {}
  <2> SUFFICES ASSUME NEW f \in Held'
               PROVE  /\ f.kind = "child_committed" => f.blocks = ToldChild'
                      /\ f.kind \in {"child_committed", "child_finished"} => ToldChild' # {}
                      /\ ~OfChild(f) => f.blocks \cap ChildBlocks = {}
    OBVIOUS
  <2>1. CASE f = e
    BY <1>1, <2>1
  <2>2. CASE f.kind = "child_delta"
    BY <2>2 DEF OfChild, ChildKinds
  <2>3. CASE f \in Held
    BY <1>1, <2>3 DEF ToldRight
  <2>4. QED
    BY <1>4, <2>1, <2>2, <2>3
<1>9. QED
  BY <1>5, <1>6, <1>7, <1>8 DEF ToldRight

LEMMA ToldRightStep ==
    ASSUME RecordInv, RecordInv', HeldInv, OrderInv, DateInv, ChildRows, ToldRight, [Next]_vars
    PROVE  ToldRight'
<1> TypeInv /\ ShapeInv
  BY ShownParts
<1>1. CASE Still /\ (ChildStores \/ ChildStays)
  <2>1. Held' \subseteq Held /\ Coming' = Coming /\ told' = told
    BY <1>1, HeldStill, ComingStill, StillEffect
  <2>2. ToldChild' = ToldChild /\ \A kind : Holds(kind)' <=> Holds(kind)
    BY <2>1 DEF ToldChild, Holds
  <2>3. ChildMessage' = ChildMessage /\ (child'.stage \in Done <=> child.stage \in Done)
    BY <1>1 DEF ChildStores, ChildStays, ChildMessage, Done
  <2>4. QED
    BY <2>1, <2>2, <2>3 DEF ToldRight
<1>2. QED
  BY <1>1, ToldEmitted, ToldTaken, ChildWays DEF Still

-----------------------------------------------------------------------------
(* The text of the child until its message is told: on the way, or in the    *)
(* buffer.                                                                    *)
Tells(x, n) == x.kind = "child_delta" /\ ChildText(n) \in x.blocks

ChildKept ==
    /\ \A e \in buffer.child : e.kind \in {"child_started", "child_delta"}
    /\ ToldChild # {} => \A e \in buffer.child : e.kind # "child_delta"
    /\ ToldChild = {} => \A n \in 1..child.deltas : \E e \in Coming \cup buffer.child : Tells(e, n)

LEMMA KeptChildInit == Init => ChildKept
BY DEF Init, EmptyBuffer, ChildKept

LEMMA KeptChildTaken ==
    ASSUME RecordInv, RecordInv', OrderInv, DateInv, ChildRows, ToldRight, ChildKept,
           NEW e \in Entries, Takes(e), ChildStays
    PROVE  ChildKept'
<1> buffer.child \in SUBSET Entries
  BY ShownParts DEF Buffers
<1> DEFINE r == RecordChild(buffer.child, e)
<1>1. /\ e.kind \notin ChildKinds => buffer'.child = buffer.child
      /\ e.kind \in ChildKinds => buffer'.child = r
      /\ \A f \in buffer.child : f \in Held
  BY HeldKinds
<1>2. /\ e.kind # "child_committed" => ToldChild' = ToldChild
      /\ e.kind = "child_committed" => ToldChild' # {}
      /\ e.kind = "child_delta" => ToldChild = {}
      /\ e.kind = "child_finished" => ToldChild # {}
  BY ToldTakes
<1>3. /\ \A x \in Coming : x \in Coming' \/ (x.kind = e.kind /\ x.blocks = e.blocks)
      /\ OfChild(e) => \E x \in Coming : x.kind = e.kind /\ x.blocks = e.blocks
  BY ComingTaken
<1>4. child'.deltas = child.deltas
  BY DEF ChildStays
<1>5. \A x \in Coming : \A n : Tells(x, n) /\ e.kind # "child_delta" => x \in Coming'
  BY <1>3 DEF Tells
<1>6. CASE e.kind \notin ChildKinds
  <2>1. buffer'.child = buffer.child /\ ToldChild' = ToldChild /\ e.kind # "child_delta"
    BY <1>1, <1>2, <1>6 DEF ChildKinds
  <2>2. QED
    BY <1>4, <1>5, <2>1 DEF ChildKept
<1>7. CASE e.kind = "child_started"
  <2>1. buffer'.child = {e} /\ ToldChild' = ToldChild
    <3>1. r = {e}
      BY <1>7, ChildRecorded DEF ChildKinds
    <3>2. QED
      BY <1>1, <1>2, <1>7, <3>1 DEF ChildKinds
  <2>2. buffer.child = {}
    <3>1. PICK x \in Coming : x.kind = "child_started"
      BY <1>3, <1>7 DEF OfChild, ChildKinds
    <3>2. \A f \in Held : ~OfChild(f)
      BY <3>1 DEF OrderInv, Follows, OfChild, ChildKinds
    <3>3. QED
      BY <1>1, <3>2 DEF ChildKept, OfChild, ChildKinds
  <2>3. QED
    BY <1>4, <1>5, <1>7, <2>1, <2>2 DEF ChildKept
<1>8. CASE e.kind = "child_delta"
  <2>1. /\ \A f \in r : f \in buffer.child \/ f.kind = "child_delta"
        /\ \E m \in r : Covers(m, buffer.child, e)
    BY <1>8, ChildRecorded DEF ChildKinds
  <2>2. buffer'.child = r
    BY <1>1, <1>8 DEF ChildKinds
  <2> HIDE DEF r
  <2>3. PICK m \in buffer'.child : Covers(m, buffer.child, e)
    BY <2>1, <2>2
  <2>4. ToldChild = {} /\ ToldChild' = {}
    BY <1>2, <1>8
  <2>5. \A f \in buffer'.child : f.kind \in {"child_started", "child_delta"}
    BY <2>1, <2>2 DEF ChildKept
  <2>6. ASSUME NEW n \in 1..child.deltas PROVE \E f \in Coming' \cup buffer'.child : Tells(f, n)
    <3>1. PICK f \in Coming \cup buffer.child : Tells(f, n)
      BY <2>4 DEF ChildKept
    <3>2. f \in Coming' \/ f.blocks \subseteq m.blocks
      BY <1>3, <2>3, <3>1 DEF Tells, Covers
    <3>3. QED
      BY <2>3, <3>1, <3>2 DEF Tells, Covers
  <2>7. QED
    BY <1>4, <2>4, <2>5, <2>6 DEF ChildKept
<1>9. CASE e.kind = "child_committed"
  <2>1. \A f \in r : f \in buffer.child /\ f.kind # "child_delta"
    BY <1>9, ChildRecorded DEF ChildKinds
  <2>2. buffer'.child = r /\ ToldChild' # {}
    BY <1>1, <1>2, <1>9 DEF ChildKinds
  <2> HIDE DEF r
  <2>3. QED
    BY <2>1, <2>2 DEF ChildKept
<1>10. CASE e.kind = "child_finished"
  <2>1. r = {}
    BY <1>10, ChildRecorded DEF ChildKinds
  <2>2. buffer'.child = r /\ ToldChild' # {}
    BY <1>1, <1>2, <1>10 DEF ChildKinds
  <2> HIDE DEF r
  <2>3. QED
    BY <2>1, <2>2 DEF ChildKept
<1>11. QED
  BY <1>6, <1>7, <1>8, <1>9, <1>10 DEF ChildKinds

LEMMA ChildTrimmed ==
    ASSUME RecordInv, Still
    PROVE  buffer'.child = buffer.child /\ told' = told
<1> TypeInv /\ buffer \in Buffers
  BY ShownParts
<1>1. CASE Trims
  BY <1>1, TrimStepTyped, StillEffect DEF Parts
<1>2. CASE SendSnapshot
  BY <1>2, TrimEffect, StillEffect DEF SendSnapshot, Parts
<1>3. QED
  BY <1>1, <1>2, StillEffect

LEMMA KeptChildStep ==
    ASSUME RecordInv, RecordInv', OrderInv, DateInv, ChildRows, ToldRight, ChildKept, [Next]_vars
    PROVE  ChildKept'
<1> TypeInv /\ ShapeInv /\ child.deltas \in Nat
  BY ShownParts DEF TypeInv, ChildTyped
<1>1. ASSUME NEW ev \in Events, Emits(ev), ChildMoves(ev) \/ (ev.kind \notin ChildKinds /\ ChildStays)
      PROVE  ChildKept'
  <2>1. buffer' = buffer /\ ToldChild' = ToldChild /\ Coming' = Coming \cup {ev}
    BY <1>1, ComingEmitted DEF Emits, ToldChild
  <2>2. \A n \in 1..child'.deltas : n \in 1..child.deltas \/ Tells(ev, n)
    <3>1. CASE child'.deltas = child.deltas
      BY <3>1
    <3>2. CASE child'.deltas = child.deltas + 1 /\ ev.kind = "child_delta" /\ ev.blocks = {ChildText(child.deltas + 1)}
      BY <3>2 DEF Tells
    <3>3. QED
      BY <1>1, <3>1, <3>2 DEF ChildMoves, ChildStays
  <2>3. QED
    BY <2>1, <2>2 DEF ChildKept
<1>2. CASE Still /\ (ChildStores \/ ChildStays)
  <2>1. buffer'.child = buffer.child /\ ToldChild' = ToldChild /\ Coming' = Coming
    BY <1>2, ChildTrimmed, ComingStill DEF ToldChild
  <2>2. child'.deltas = child.deltas
    BY <1>2 DEF ChildStores, ChildStays
  <2>3. QED
    BY <2>1, <2>2 DEF ChildKept
<1>3. QED
  BY <1>1, <1>2, KeptChildTaken, ChildWays DEF Still

-----------------------------------------------------------------------------
(* Once the end of the child is recorded, nothing of it is held or comes.    *)
Ended ==
    child.stage = "ended" /\ ~Holds("child_finished") =>
       buffer.child = {} /\ \A x \in Coming : ~OfChild(x)

LEMMA EndedTaken ==
    ASSUME RecordInv, RecordInv', OrderInv, Ended, NEW e \in Entries, Takes(e), ChildStays
    PROVE  Ended'
<1> SUFFICES ASSUME child.stage = "ended", ~Holds("child_finished")'
             PROVE  buffer'.child = {} /\ \A x \in Coming' : ~OfChild(x)
  BY DEF Ended, ChildStays
<1>1. /\ Coming' \subseteq Coming
      /\ \A x \in Coming : x \in Coming' \/ (x.kind = e.kind /\ x.blocks = e.blocks)
      /\ OfChild(e) => \E x \in Coming : x.kind = e.kind /\ x.blocks = e.blocks
      /\ \A x \in Coming' : OfChild(e) /\ OfChild(x) => Follows(e, x)
  BY ComingTaken DEF OrderInv
<1>2. /\ e.kind \notin ChildKinds => buffer'.child = buffer.child
      /\ e.kind \in ChildKinds => buffer'.child = RecordChild(buffer.child, e)
  BY HeldKinds
<1>3. CASE Holds("child_finished")
  <2>1. e.kind = "child_finished"
    BY <1>1, <1>3 DEF Holds
  <2>2. buffer'.child = {}
    BY <1>2, <2>1 DEF RecordChild, ChildKinds
  <2>3. \A x \in Coming' : ~OfChild(x)
    BY <1>1, <2>1 DEF Holds, Follows, OfChild, ChildKinds
  <2>4. QED
    BY <2>2, <2>3
<1>4. CASE ~Holds("child_finished")
  <2>1. buffer.child = {} /\ \A x \in Coming : ~OfChild(x)
    BY <1>4 DEF Ended
  <2>2. ~OfChild(e)
    BY <1>1, <2>1 DEF OfChild
  <2>3. QED
    BY <1>1, <1>2, <2>1, <2>2 DEF OfChild
<1>5. QED
  BY <1>3, <1>4

LEMMA EndedStep ==
    ASSUME RecordInv, RecordInv', OrderInv, Ended, [Next]_vars
    PROVE  Ended'
<1> TypeInv /\ ShapeInv
  BY ShownParts
<1>1. ASSUME NEW ev \in Events, Emits(ev), ChildMoves(ev) \/ (ev.kind \notin ChildKinds /\ ChildStays)
      PROVE  Ended'
  <2>1. buffer' = buffer /\ Coming' = Coming \cup {ev}
    BY <1>1, ComingEmitted DEF Emits
  <2>2. CASE ChildMoves(ev)
    <3>1. child'.stage = "ended" => ev.kind = "child_finished"
      BY <2>2 DEF ChildMoves
    <3>2. QED
      BY <2>1, <3>1 DEF Ended, Holds
  <2>3. CASE ev.kind \notin ChildKinds /\ ChildStays
    BY <2>1, <2>3 DEF Ended, Holds, OfChild, ChildStays
  <2>4. QED
    BY <1>1, <2>2, <2>3
<1>2. CASE ChildStores
  BY <1>2 DEF Ended, ChildStores
<1>3. CASE Still /\ ChildStays
  <2>1. buffer'.child = buffer.child /\ Coming' = Coming
    BY <1>3, ChildTrimmed, ComingStill
  <2>2. QED
    BY <1>3, <2>1 DEF Ended, Holds, ChildStays
<1>4. QED
  BY <1>1, <1>2, <1>3, EndedTaken, ChildWays

LEMMA EndedInit == Init => Ended
BY DEF Init, Ended

-----------------------------------------------------------------------------
(* A calm connection and the child: its row and its end are told or not      *)
(* there, nothing in the queue shows them again, and what is read of the     *)
(* child stays true.                                                          *)
Viewed == child.stage \notin {"none", "over", "ended"}

RowIsTold ==
    /\ rows.child = ToldChild
    /\ \A i \in Queued : /\ client.queue[i].kind # "child_committed"
                         /\ ToldChild # {} => client.queue[i].kind # "child_delta"

EndIsTold ==
    /\ child.stage # "over" /\ ~Holds("child_finished")
    /\ child.stage = "ended" => \A i \in Queued : client.queue[i].kind # "child_started"

ReadsChild == client.read.child = rows.child /\ (client.read.childRow <=> Viewed)

ShowsChild ==
    /\ client.open <=> Viewed
    /\ \A b \in ChildBlocks : client.typing[b] = 0 /\ client.view[b] = IF b \in rows.child /\ Viewed THEN 1 ELSE 0

ChildJoins ==
    Joining =>
        /\ RowIsTold /\ EndIsTold
        /\ client.phase \in {"tasks", "llm"} => ReadsChild
        /\ client.phase = "snapshot" => ShowsChild

LEMMA JoinsSame ==
    ASSUME ChildJoins, client' = client, rows'.child = rows.child, told' = told, calm' = calm, Viewed' <=> Viewed,
           EndIsTold => EndIsTold'
    PROVE  ChildJoins'
<1>1. ToldChild' = ToldChild /\ (Joining' <=> Joining)
  BY DEF ToldChild, Joining, Connecting
<1>2. RowIsTold => RowIsTold'
  BY <1>1 DEF RowIsTold, Queued
<1>3. ReadsChild => ReadsChild'
  BY DEF ReadsChild
<1>4. ShowsChild => ShowsChild'
  BY DEF ShowsChild
<1>5. QED
  BY <1>1, <1>2, <1>3, <1>4 DEF ChildJoins

LEMMA JoinsTaken ==
    ASSUME RecordInv, RecordInv', OrderInv, DateInv, ChildRows, ToldRight, Ended, ChildJoins,
           NEW e \in Entries, Takes(e), ChildStays
    PROVE  ChildJoins'
<1> TypeInv /\ client \in Clients
  BY ShownParts
<1>1. PICK event \in Events : Consumes(event, e)
  BY DEF Takes
<1>2. /\ client'.phase = client.phase /\ client'.view = client.view /\ client'.typing = client.typing
      /\ client'.open = client.open /\ client'.read = client.read /\ calm' = calm
      /\ rows' = rows /\ child' = child
  BY <1>1, ClientRecorded DEF Takes, ChildStays
<1> SUFFICES ASSUME Joining PROVE ChildJoins'
  BY <1>2 DEF ChildJoins, Joining, Connecting
<1>3. RowIsTold /\ EndIsTold /\ client.phase # "off"
  BY DEF ChildJoins, Joining, Connecting
<1>4. /\ e.kind # "child_committed" => ToldChild' = ToldChild
      /\ e.kind = "child_committed" => ToldChild = {} /\ ChildMessage # {} /\ child.stage \in Done
      /\ e.kind = "child_delta" => ToldChild = {}
  BY ToldTakes
<1>5. e.kind # "child_committed"
  <2>1. child.stage \in Done => rows.child = ChildMessage
    BY DEF ChildRows, Saved
  <2>2. QED
    BY <1>3, <1>4, <2>1 DEF RowIsTold
<1>6. \A i \in Queued' : client'.queue[i] = e \/ \E j \in Queued : client'.queue[i] = client.queue[j]
  <2>1. client.queue \in Seq(Entries)
    BY ShownParts
  <2>2. /\ Len(client'.queue) = Len(client.queue) + 1 /\ client'.queue[Len(client.queue) + 1] = e
        /\ \A i \in 1..Len(client.queue) : client'.queue[i] = client.queue[i]
    BY <1>1, <1>3, ClientRecorded
  <2>3. QED
    BY <2>1, <2>2 DEF Queued
<1>7. RowIsTold'
  BY <1>2, <1>3, <1>4, <1>5, <1>6 DEF RowIsTold
<1>8. (Viewed' <=> Viewed) /\ client'.phase = client.phase
  BY <1>2 DEF Viewed
<1>9. ReadsChild => ReadsChild'
  BY <1>2, <1>8 DEF ReadsChild
<1>10. ShowsChild => ShowsChild'
  BY <1>2, <1>8 DEF ShowsChild
<1>11. EndIsTold'
  <2>1. /\ Coming' \subseteq Coming
        /\ OfChild(e) => \E x \in Coming : x.kind = e.kind /\ x.blocks = e.blocks
    BY ComingTaken
  <2>2. child.stage = "ended" => ~OfChild(e)
    BY <1>3, <2>1 DEF EndIsTold, Ended, OfChild
  <2>3. QED
    BY <1>2, <1>3, <1>6, <2>1, <2>2 DEF EndIsTold, Holds, OfChild, ChildKinds
<1>12. QED
  BY <1>7, <1>8, <1>9, <1>10, <1>11 DEF ChildJoins

LEMMA JoinsWritten ==
    ASSUME RecordInv, Stores \/ StoreInput \/ ChildRow
    PROVE  ChildJoins'
<1>1. client' = client /\ calm' = (calm /\ ~Connecting)
  BY DEF Stores, StoreInput, ChildRow, StoreContext, StoreDisplay, Writes
<1>2. ~Joining'
  BY <1>1 DEF Joining, Connecting
<1>3. QED
  BY <1>2 DEF ChildJoins

LEMMA JoinsConnects ==
    ASSUME RecordInv, RecordInv', HeldInv, JoinInv, ChildRows, ToldRight, ChildJoins, Socket \/ Subscribe
    PROVE  ChildJoins'
<1> TypeInv /\ client \in Clients /\ RowsTyped /\ client.read \in Reads
  BY ShownParts DEF Clients
<1>1. rows' = rows /\ told' = told /\ child' = child
  BY SocketTyped DEF ServerFrame
<1>2. ToldChild' = ToldChild /\ (Viewed' <=> Viewed) /\ Coming' = Coming
  BY <1>1, SocketTyped DEF ToldChild, Viewed, Coming, ServerFrame
<1>3. CASE Subscribe
  <2>1. /\ client'.phase = "subscribed" /\ client'.queue = <<>> /\ calm' = (~Behind /\ torn = {})
    BY <1>3 DEF Subscribe, Clients
  <2>2. Queued' = {}
    BY <2>1 DEF Queued
  <2>3. calm' => rows.child = ToldChild
    <3>1. calm' => rows.child \subseteq told
      BY <2>1 DEF Behind
    <3>2. rows.child \subseteq ChildBlocks
      BY DEF RowsTyped
    <3>3. ToldChild \subseteq rows.child
      BY DEF ToldRight, ChildRows, Saved
    <3>4. QED
      BY <3>1, <3>2, <3>3 DEF ToldChild
  <2>4. Joining' => RowIsTold'
    BY <1>1, <1>2, <2>2, <2>3 DEF RowIsTold, Joining
  <2>5. Joining' => EndIsTold'
    <3>1. calm' => child.stage # "over" /\ \A i \in DOMAIN out : out[i].kind # "child_finished"
      BY <2>1 DEF Behind
    <3>2. DOMAIN out = 1..Len(out)
      BY ShownParts
    <3>3. calm' => ~Holds("child_finished")
      BY <3>1, <3>2 DEF Holds, Coming
    <3>4. QED
      BY <1>1, <1>2, <2>2, <3>1, <3>3 DEF EndIsTold, Holds, Joining
  <2>6. QED
    BY <2>1, <2>4, <2>5 DEF ChildJoins
<1>4. CASE ReadMessages \/ ReadTasks \/ ReadContext \/ SendSnapshot
  <2>1. /\ client'.queue = client.queue /\ calm' = calm
        /\ client.phase \in {"subscribed", "ui", "tasks", "llm"}
    BY <1>4 DEF ReadMessages, ReadTasks, ReadContext, SendSnapshot, Clients
  <2>2. /\ ReadMessages => client'.phase = "ui"
        /\ ReadTasks => client'.phase = "tasks"
        /\ ReadContext => client'.phase = "llm" /\ client.phase = "tasks"
        /\ SendSnapshot => client'.phase = "snapshot" /\ client.phase = "llm"
    BY DEF ReadMessages, ReadTasks, ReadContext, SendSnapshot, Clients
  <2> SUFFICES ASSUME Joining PROVE ChildJoins'
    BY <1>4, <2>1, <2>2 DEF ChildJoins, Joining, Connecting
  <2>3. Queued' = Queued /\ RowIsTold /\ EndIsTold
    BY <2>1 DEF Queued, ChildJoins
  <2>4. RowIsTold' /\ EndIsTold'
    BY <1>1, <1>2, <2>1, <2>3 DEF RowIsTold, EndIsTold, Holds
  <2>5. ASSUME ReadTasks PROVE ReadsChild'
    <3> DEFINE row == child.stage \notin {"none", "over", "ended"}
               read == [client.read EXCEPT !.child = rows.child, !.childRow = row]
    <3>1. client' = [client EXCEPT !.phase = "tasks", !.read = read]
      BY <2>5 DEF ReadTasks
    <3>2. read.child = rows.child /\ read.childRow = row
      BY DEF Reads
    <3>3. row <=> Viewed
      BY DEF Viewed
    <3> HIDE DEF row, read
    <3>4. client'.read = read
      BY <3>1 DEF Clients
    <3>5. QED
      BY <1>1, <1>2, <3>2, <3>3, <3>4 DEF ReadsChild
  <2>6. ASSUME ReadContext PROVE ReadsChild'
    <3> DEFINE read == [client.read EXCEPT !.llm = rows.llm]
    <3>1. client' = [client EXCEPT !.phase = "llm", !.read = read]
      BY <2>6 DEF ReadContext
    <3>2. read.child = client.read.child /\ read.childRow = client.read.childRow
      BY DEF Reads
    <3> HIDE DEF read
    <3>3. client'.read = read
      BY <3>1 DEF Clients
    <3>4. ReadsChild
      BY <2>2, <2>6 DEF ChildJoins
    <3>5. QED
      BY <1>1, <1>2, <3>2, <3>3, <3>4 DEF ReadsChild
  <2>7. ASSUME SendSnapshot PROVE ShowsChild'
    <3>1. /\ client'.view = Shows(InSnapshot(client.read))
          /\ client'.typing = Nothing /\ client'.open = client.read.childRow
      BY <2>7 DEF SendSnapshot, Clients
    <3>2. ReadsChild /\ client.read.ui = rows.ui
      BY <2>2, <2>7 DEF ChildJoins, JoinInv
    <3>3. \A b \in ChildBlocks : b \in Blocks /\ (b \in InSnapshot(client.read) <=> b \in rows.child /\ Viewed)
      BY <3>2, BlockFacts DEF ReadsChild, ChildRows, Plain, InSnapshot
    <3>4. \A b \in ChildBlocks : client'.view[b] = IF b \in rows.child /\ Viewed THEN 1 ELSE 0
      BY <3>1, <3>3, ShowsType
    <3>5. \A b \in ChildBlocks : client'.typing[b] = 0
      BY <3>1, <3>3 DEF Nothing
    <3>6. client'.open <=> Viewed'
      BY <1>2, <3>1, <3>2 DEF ReadsChild
    <3>7. QED
      BY <1>1, <1>2, <3>4, <3>5, <3>6 DEF ShowsChild
  <2>8. QED
    BY <1>4, <2>2, <2>4, <2>5, <2>6, <2>7 DEF ChildJoins
<1>5. CASE TakeReplay \/ ReceiveReplay \/ SendStatus \/ ReceiveLive
  <2>1. client'.phase \in {"replaying", "live"}
    <3>1. CASE TakeReplay
      BY <3>1 DEF TakeReplay, Clients
    <3>2. CASE ReceiveReplay
      BY <3>2, ReplayReceived
    <3>3. CASE SendStatus
      BY <3>3 DEF SendStatus, Clients
    <3>4. CASE ReceiveLive
      BY <3>4, LiveReceived
    <3>5. QED
      BY <1>5, <3>1, <3>2, <3>3, <3>4
  <2>2. QED
    BY <2>1 DEF ChildJoins, Joining, Connecting
<1>6. QED
  BY <1>3, <1>4, <1>5 DEF Socket

LEMMA JoinsChildStep ==
    ASSUME RecordInv, RecordInv', HeldInv, JoinInv, OrderInv, DateInv, ChildRows, ToldRight, Ended, ChildJoins,
           [Next]_vars
    PROVE  ChildJoins'
<1> TypeInv /\ ShapeInv
  BY ShownParts
<1>1. ASSUME NEW ev \in Events, Emits(ev), ChildMoves(ev) \/ (ev.kind \notin ChildKinds /\ ChildStays)
      PROVE  ChildJoins'
  <2>1. client' = client /\ rows' = rows /\ told' = told /\ calm' = calm
    BY <1>1 DEF Emits
  <2>2. CASE child.stage = "over"
    BY <2>1, <2>2 DEF ChildJoins, EndIsTold, Joining, Connecting
  <2>3. CASE child.stage # "over"
    <3>1. Viewed' <=> Viewed
      BY <1>1, <2>3 DEF ChildMoves, ChildStays, Viewed
    <3>2. /\ ev.kind # "child_finished" /\ child'.stage # "over"
          /\ child'.stage = "ended" => child.stage = "ended"
      BY <1>1, <2>3 DEF ChildMoves, ChildStays, ChildKinds
    <3>3. Coming' = Coming \cup {ev}
      BY <1>1, ComingEmitted
    <3>4. EndIsTold => EndIsTold'
      BY <2>1, <3>2, <3>3 DEF EndIsTold, Holds, Queued
    <3>5. QED
      BY <2>1, <3>1, <3>4, JoinsSame
  <2>4. QED
    BY <2>2, <2>3
<1>2. CASE (SendInput \/ Trims \/ UNCHANGED vars) /\ ChildStays
  <2>1. client' = client /\ rows' = rows /\ told' = told /\ calm' = calm
    BY <1>2 DEF SendInput, Trims, TrimPersisted, TrimCompact, vars
  <2>2. Viewed' <=> Viewed
    BY <1>2 DEF ChildStays, Viewed
  <2>3. out' = out
    BY <1>2 DEF SendInput, Trims, TrimPersisted, TrimCompact, vars
  <2>4. EndIsTold => EndIsTold'
    BY <1>2, <2>1, <2>3 DEF EndIsTold, Holds, Coming, Queued, ChildStays
  <2>5. QED
    BY <2>1, <2>2, <2>4, JoinsSame
<1>3. CASE Still /\ ChildStays
  BY <1>2, <1>3, JoinsWritten, JoinsConnects DEF Still
<1>4. QED
  BY <1>1, <1>3, JoinsTaken, JoinsWritten, ChildWays

LEMMA JoinsInit == Init => ChildJoins
BY DEF Init, ChildJoins, Joining

-----------------------------------------------------------------------------
(* A calm client and the child.  What it waits for: the entries of its queue *)
(* that the replay does not cover.                                            *)
Waits == {e \in {client.queue[i] : i \in Queued} : ~Skipped(e)}
Awaits(kind) == \E e \in Waits : e.kind = kind

(* The client has all of the child's message. *)
Settled == ToldChild # {} /\ ~Awaits("child_committed")

(* The view of the child is open, or opened before anything else of it is shown. *)
OpensChild ==
    \/ client.open
    \/ Awaits("child_started") \/ Holds("child_started") \/ child.stage \in Unborn
    \/ Settled

ReplayFits ==
    /\ \A e \in client.replay : e.kind \notin {"child_committed", "child_finished"}
    /\ \A e \in client.replay : e.kind = "child_delta" => client.open

MessageShown ==
    \A b \in ChildBlocks : client.view[b] = IF b \in ToldChild /\ ~Awaits("child_committed") THEN 1 ELSE 0

NothingTyped ==
    /\ \A b \in ChildBlocks : client.typing[b] = 0
    /\ \A e \in client.replay \cup Waits : e.kind # "child_delta"

TextShown ==
    \A n \in 1..child.deltas :
       client.typing[ChildText(n)] > 0 \/ \E e \in Coming \cup client.replay \cup Waits : Tells(e, n)

ChildView ==
    /\ ReplayFits /\ OpensChild /\ MessageShown
    /\ Settled => NothingTyped
    /\ ~Settled => TextShown

(* The view is closed and no event that would open it is left. *)
Gone ==
    /\ ~client.open /\ child.stage \notin Unborn
    /\ \A x \in Coming \cup client.replay \cup Waits : x.kind # "child_started"

ChildShown == client.phase \in {"replaying", "live"} /\ calm => Gone \/ ChildView

(* What the client applies, as far as the child's blocks go. *)
LEMMA ChildReceived ==
    ASSUME NEW e \in Entries, Receives(e), OfChild(e) \/ e.blocks \cap ChildBlocks = {},
           client.view \in [Blocks -> 0..2], client.typing \in [Blocks -> 0..2]
    PROVE  /\ ~OfChild(e) \/ (e.kind # "child_started" /\ ~client.open) =>
                 /\ client'.open = client.open
                 /\ \A b \in ChildBlocks : client'.view[b] = client.view[b] /\ client'.typing[b] = client.typing[b]
           /\ e.kind = "child_started" =>
                 client'.open = TRUE /\ client'.view = client.view /\ client'.typing = client.typing
           /\ e.kind = "child_delta" /\ client.open =>
                 client'.open /\ client'.view = client.view /\ client'.typing = Add(client.typing, e.blocks)
           /\ e.kind = "child_committed" /\ client.open =>
                 client'.open /\ client'.view = Add(client.view, e.blocks) /\ client'.typing = Nothing
           /\ e.kind = "child_finished" /\ client.open /\ client'.open =>
                 /\ client'.typing = Nothing
                 /\ client'.view = Add(client.view, {b \in Blocks : client.typing[b] > 0})
<1>1. PICK c \in Clients : /\ c.view = client.view /\ c.typing = client.typing /\ c.open = client.open
                           /\ client' = Apply(c, e)
  BY DEF Receives
<1>2. ChildBlocks \subseteq Blocks
  BY BlockFacts
<1>3. CASE ~OfChild(e)
  <2>1. CASE e.kind \in {"run_started", "run_finished", "pause_requested"}
    <3>1. Apply(c, e).view = c.view /\ Apply(c, e).typing = c.typing /\ Apply(c, e).open = c.open
      BY <1>3, <2>1 DEF Apply, OfChild, Clients
    <3>2. QED
      BY <1>1, <1>3, <3>1 DEF OfChild, ChildKinds
  <2>2. CASE e.kind = "tool_result"
    <3> DEFINE new == {b \in e.blocks : c.view[b] = 0}
    <3>1. Apply(c, e).view = Add(c.view, new) /\ Apply(c, e).typing = c.typing /\ Apply(c, e).open = c.open
      BY <1>3, <2>2 DEF Apply, OfChild, ChildKinds, Clients
    <3>2. \A b \in ChildBlocks : b \notin new
      BY <1>3
    <3> HIDE DEF new
    <3>3. \A b \in ChildBlocks : Add(client.view, new)[b] = client.view[b]
      BY <1>2, <3>2, AddType
    <3>4. QED
      BY <1>1, <1>3, <3>1, <3>3 DEF OfChild, ChildKinds
  <2>3. CASE e.kind \notin {"run_started", "run_finished", "pause_requested", "tool_result"}
    <3>1. Apply(c, e).view = Add(c.view, e.blocks) /\ Apply(c, e).typing = c.typing /\ Apply(c, e).open = c.open
      BY <1>3, <2>3 DEF Apply, OfChild, Clients
    <3>2. \A b \in ChildBlocks : Add(client.view, e.blocks)[b] = client.view[b]
      BY <1>2, <1>3, AddType
    <3>3. QED
      BY <1>1, <1>3, <3>1, <3>2 DEF OfChild, ChildKinds
  <2>4. QED
    BY <2>1, <2>2, <2>3
<1>4. CASE OfChild(e)
  <2>1. client' = ApplyChild(c, e)
    BY <1>1, <1>4 DEF Apply, OfChild, ChildKinds
  <2>2. CASE e.kind = "child_started"
    <3>1. ApplyChild(c, e) = [c EXCEPT !.open = TRUE]
      BY <2>2 DEF ApplyChild
    <3>2. QED
      BY <1>1, <1>4, <2>1, <2>2, <3>1 DEF Clients
  <2>3. CASE e.kind # "child_started" /\ ~client.open
    <3>1. ApplyChild(c, e) = c
      BY <1>1, <2>3 DEF ApplyChild
    <3>2. QED
      BY <1>1, <1>4, <2>1, <2>3, <3>1
  <2>4. CASE e.kind = "child_delta" /\ client.open
    <3>1. ApplyChild(c, e) = [c EXCEPT !.typing = Add(@, e.blocks)]
      BY <1>1, <2>4 DEF ApplyChild
    <3>2. QED
      BY <1>1, <1>4, <2>1, <2>4, <3>1 DEF Clients
  <2>5. CASE e.kind = "child_committed" /\ client.open
    <3>1. ApplyChild(c, e) = [c EXCEPT !.typing = Nothing, !.view = Add(@, e.blocks)]
      BY <1>1, <2>5 DEF ApplyChild
    <3>2. QED
      BY <1>1, <1>4, <2>1, <2>5, <3>1 DEF Clients
  <2>6. CASE e.kind = "child_finished" /\ client.open
    <3> DEFINE typed == {x \in Blocks : client.typing[x] > 0}
    <3>1. {x \in Blocks : c.typing[x] > 0} = typed
      BY <1>1
    <3>2. \/ ApplyChild(c, e) = [c EXCEPT !.typing = Nothing, !.view = Add(c.view, {x \in Blocks : c.typing[x] > 0})]
          \/ ApplyChild(c, e) = [c EXCEPT !.typing = Nothing, !.open = FALSE, !.view = WithoutChild(c.view)]
      BY <1>1, <2>6 DEF ApplyChild
    <3> HIDE DEF typed
    <3>3. CASE ApplyChild(c, e) = [c EXCEPT !.typing = Nothing, !.open = FALSE, !.view = WithoutChild(c.view)]
      <4>1. client'.open = FALSE
        BY <1>1, <2>1, <3>3 DEF Clients
      <4>2. QED
        BY <1>4, <2>6, <4>1
    <3>4. CASE ApplyChild(c, e) = [c EXCEPT !.typing = Nothing, !.view = Add(c.view, typed)]
      <4>1. client'.typing = Nothing /\ client'.view = Add(client.view, typed)
        BY <1>1, <2>1, <3>4 DEF Clients
      <4>2. QED
        BY <1>4, <2>6, <4>1 DEF typed
    <3>5. QED
      BY <3>1, <3>2, <3>3, <3>4
  <2>7. QED
    BY <1>4, <2>2, <2>3, <2>4, <2>5, <2>6 DEF OfChild, ChildKinds
<1>5. QED
  BY <1>3, <1>4

(* A saved message has text. *)
LEMMA SavedText ==
    ASSUME ChildRows, child.deltas \in Nat, child.stage \in Saved
    PROVE  ChildMessage # {} /\ rows.child = ChildMessage
<1>1. child.deltas > 0
  BY DEF ChildRows
<1>2. 1 \in 1..child.deltas
  BY <1>1
<1>3. QED
  BY <1>2 DEF ChildRows, ChildMessage

(* How the entries that are waited for change. *)
LEMMA WaitsTaken ==
    ASSUME RecordInv, NEW e \in Entries, Takes(e), client.phase # "off"
    PROVE  /\ Waits' = Waits \cup {e}
           /\ client'.phase = client.phase /\ client'.replay = client.replay /\ client'.open = client.open
           /\ client'.view = client.view /\ client'.typing = client.typing /\ calm' = calm
<1> TypeInv /\ client \in Clients /\ client.queue \in Seq(Entries)
  BY ShownParts
<1>1. PICK event \in Events : Consumes(event, e)
  BY DEF Takes
<1>2. /\ client'.phase = client.phase /\ client'.through = client.through /\ client'.replay = client.replay
      /\ client'.open = client.open /\ client'.view = client.view /\ client'.typing = client.typing /\ calm' = calm
  BY <1>1, ClientRecorded DEF Takes
<1>3. /\ Len(client'.queue) = Len(client.queue) + 1 /\ client'.queue[Len(client.queue) + 1] = e
      /\ \A i \in 1..Len(client.queue) : client'.queue[i] = client.queue[i]
  BY <1>1, ClientRecorded
<1>4. /\ \A i \in Queued : i \in Queued' /\ client'.queue[i] = client.queue[i]
      /\ Len(client.queue) + 1 \in Queued' /\ \A i \in Queued' : i \in Queued \/ i = Len(client.queue) + 1
  BY <1>3 DEF Queued
<1>5. {client'.queue[i] : i \in Queued'} = {client.queue[i] : i \in Queued} \cup {e}
  BY <1>3, <1>4
<1>6. \A x : Skipped(x)' <=> Skipped(x)
  BY <1>2 DEF Skipped
<1>7. ~Skipped(e)
  <2>1. e.seq = seq /\ seq \in Nat /\ client.through < seq /\ client.through \in Nat
        /\ \A x \in client.replay : x.seq < seq /\ x.seq \in Nat
    BY ShownParts DEF Takes, TypeInv, ChannelTyped, NumberInv, ClientNumbered, Clients, Entries
  <2>2. QED
    BY <2>1 DEF Skipped
<1>8. Waits' = Waits \cup {e}
  BY <1>5, <1>6, <1>7 DEF Waits
<1>9. QED
  BY <1>2, <1>8

LEMMA WaitsReplayed ==
    ASSUME RecordInv, ReceiveReplay
    PROVE  \E e \in client.replay :
              e \in Entries /\ Receives(e) /\ client'.replay = client.replay \ {e} /\ Waits' = Waits
<1> TypeInv /\ client \in Clients /\ client.queue \in Seq(Entries)
  BY ShownParts
<1>1. PICK e \in client.replay :
              /\ e \in Entries /\ Receives(e)
              /\ \A x \in client.replay : e.seq <= x.seq
              /\ client'.replay = client.replay \ {e}
              /\ client'.through = IF e.seq > client.through THEN e.seq ELSE client.through
              /\ client'.queue = client.queue /\ client'.phase = "replaying" /\ client.phase = "replaying"
  BY ReplayReceived
<1>2. e.seq \in Nat /\ client.through \in Nat /\ \A x \in client.replay : x.seq \in Nat
  BY <1>1 DEF Clients, Entries
<1>3. \A f \in Entries : Skipped(f)' <=> Skipped(f)
  <2> SUFFICES ASSUME NEW f \in Entries PROVE Skipped(f)' <=> Skipped(f)
    OBVIOUS
  <2>1. f.seq \in Nat
    BY DEF Entries
  <2>2. Skipped(f)' <=> f.seq <= client'.through \/ \E x \in client.replay \ {e} : f.seq <= x.seq
    BY <1>1 DEF Skipped
  <2>3. f.seq <= client'.through <=> f.seq <= client.through \/ f.seq <= e.seq
    BY <1>1, <1>2, <2>1
  <2>4. QED
    BY <1>1, <2>2, <2>3 DEF Skipped
<1>4. \A i \in Queued : client.queue[i] \in Entries
  BY DEF Queued
<1>5. {client'.queue[i] : i \in Queued'} = {client.queue[i] : i \in Queued}
  BY <1>1 DEF Queued
<1>6. Waits' = Waits
  BY <1>3, <1>4, <1>5 DEF Waits
<1>7. QED
  BY <1>1, <1>6

LEMMA WaitsReceived ==
    ASSUME RecordInv, JoinInv, OrderInv, ReceiveLive
    PROVE  \E e \in Held :
              /\ e \in Entries /\ client'.replay = client.replay /\ client.replay = {}
              /\ \A x \in Waits : x \in Held
              /\ \/ /\ Waits' = Waits
                    /\ client'.view = client.view /\ client'.typing = client.typing /\ client'.open = client.open
                 \/ /\ Receives(e) /\ e \in Waits /\ Waits' \subseteq Waits
                    /\ \A x \in Waits : x \in Waits' \/ x = e
                    /\ \A x \in Waits' : OfChild(e) /\ OfChild(x) => Follows(e, x)
<1> TypeInv /\ client \in Clients /\ client.queue \in Seq(Entries)
  BY ShownParts
<1> DEFINE e == client.queue[1]
<1>1. /\ client.queue # <<>> /\ e \in Entries /\ client.phase = "live" /\ client'.phase = "live"
      /\ client'.queue = Tail(client.queue)
      /\ client'.replay = client.replay /\ client'.through = client.through
      /\ \/ /\ e.seq <= client.through
            /\ client'.view = client.view /\ client'.typing = client.typing /\ client'.open = client.open
         \/ ~(e.seq <= client.through) /\ Receives(e)
  BY LiveReceived
<1>2. client.replay = {}
  BY <1>1 DEF JoinInv
<1>3. /\ 1 \in Queued /\ \A i \in Queued' : i + 1 \in Queued /\ client'.queue[i] = client.queue[i + 1]
      /\ \A i \in Queued : i = 1 \/ (i - 1 \in Queued' /\ client'.queue[i - 1] = client.queue[i])
  BY <1>1, TailFacts DEF Queued
<1>4. \A f : Skipped(f)' <=> Skipped(f)
  BY <1>1 DEF Skipped
<1>5. Skipped(e) <=> e.seq <= client.through
  BY <1>2 DEF Skipped
<1>6. Waits' \subseteq Waits /\ \A x \in Waits : x \in Waits' \/ x = e
  <2>1. {client'.queue[i] : i \in Queued'} \subseteq {client.queue[i] : i \in Queued}
    BY <1>3
  <2>2. \A x \in {client.queue[i] : i \in Queued} : x \in {client'.queue[i] : i \in Queued'} \/ x = e
    BY <1>3
  <2>3. QED
    BY <1>4, <2>1, <2>2 DEF Waits
<1>7. \A x \in Waits' : OfChild(e) /\ OfChild(x) => Follows(e, x)
  <2>1. \A j \in 1..Len(Tail(client.queue)) :
           OfChild(e) /\ OfChild(Tail(client.queue)[j]) => Follows(e, Tail(client.queue)[j])
    BY <1>1, OrderTail DEF OrderInv
  <2>2. QED
    BY <1>1, <2>1 DEF Waits, Queued
<1>8. e \in Held /\ \A x \in Waits : x \in Held
  BY <1>3 DEF Held, Waits
<1> HIDE DEF e
<1>9. CASE e.seq <= client.through
  <2>1. Waits' = Waits
    BY <1>5, <1>6, <1>9 DEF Waits
  <2>2. QED
    BY <1>1, <1>2, <1>8, <1>9, <2>1
<1>10. CASE ~(e.seq <= client.through)
  <2>1. e \in Waits
    BY <1>3, <1>5, <1>10 DEF Waits, e
  <2>2. QED
    BY <1>1, <1>2, <1>6, <1>7, <1>8, <1>10, <2>1
<1>11. QED
  BY <1>9, <1>10

(* A closed view stays closed. *)
LEMMA GoneSame ==
    ASSUME Gone, client'.open = client.open, client'.replay = client.replay, Waits' = Waits, Coming' = Coming,
           child.stage \notin Unborn => child'.stage \notin Unborn
    PROVE  Gone'
BY DEF Gone

LEMMA GoneEmitted ==
    ASSUME RecordInv, Gone, NEW ev \in Events, Emits(ev),
           ChildMoves(ev) \/ (ev.kind \notin ChildKinds /\ ChildStays)
    PROVE  Gone'
<1>1. client' = client /\ Coming' = Coming \cup {ev}
  BY ComingEmitted DEF Emits
<1>2. Waits' = Waits
  BY <1>1 DEF Waits, Queued, Skipped
<1>3. ev.kind # "child_started" /\ child'.stage \notin Unborn
  BY DEF Gone, ChildMoves, ChildStays, ChildKinds, Unborn
<1>4. QED
  BY <1>1, <1>2, <1>3 DEF Gone

LEMMA GoneTaken ==
    ASSUME RecordInv, Gone, client.phase # "off", NEW e \in Entries, Takes(e), ChildStays
    PROVE  Gone'
<1>1. Waits' = Waits \cup {e} /\ client'.replay = client.replay /\ client'.open = client.open
  BY WaitsTaken
<1>2. Coming' \subseteq Coming /\ e.kind # "child_started"
  BY ComingTaken DEF Gone, OfChild, ChildKinds
<1>3. QED
  BY <1>1, <1>2 DEF Gone, ChildStays

LEMMA GoneReceived ==
    ASSUME RecordInv, JoinInv, OrderInv, ToldRight, Gone, ReceiveReplay \/ ReceiveLive
    PROVE  Gone'
<1> client \in Clients /\ client.view \in [Blocks -> 0..2] /\ client.typing \in [Blocks -> 0..2]
  BY ShownParts DEF Clients
<1>1. Coming' = Coming /\ child' = child
  BY DEF ReceiveReplay, ReceiveLive, Coming
<1>2. ASSUME NEW e \in Entries, e \in Held, Receives(e), e.kind # "child_started"
      PROVE  client'.open = client.open
  BY <1>2, ChildReceived DEF ToldRight, Gone
<1>3. CASE ReceiveReplay
  <2>1. PICK e \in client.replay :
           e \in Entries /\ Receives(e) /\ client'.replay = client.replay \ {e} /\ Waits' = Waits
    BY <1>3, WaitsReplayed
  <2>2. e \in Held /\ e.kind # "child_started"
    BY DEF Held, Gone
  <2>3. client'.open = client.open
    BY <1>2, <2>1, <2>2
  <2>4. QED
    BY <1>1, <2>1, <2>3 DEF Gone
<1>4. CASE ReceiveLive
  <2>1. PICK e \in Held :
           /\ e \in Entries /\ client'.replay = client.replay
           /\ \/ Waits' = Waits /\ client'.open = client.open
              \/ Receives(e) /\ e \in Waits /\ Waits' \subseteq Waits
    BY <1>4, WaitsReceived
  <2>2. client'.open = client.open /\ Waits' \subseteq Waits
    BY <1>2, <2>1 DEF Gone
  <2>3. QED
    BY <1>1, <2>1, <2>2 DEF Gone
<1>5. QED
  BY <1>3, <1>4

(* A step that neither sends nor takes anything of the child. *)
LEMMA ShownSame ==
    ASSUME ChildView, OpensChild', client'.view = client.view, client'.typing = client.typing,
           client'.open = client.open, client'.replay = client.replay, Waits' = Waits,
           ToldChild' = ToldChild, child'.deltas = child.deltas, Coming' = Coming
    PROVE  ChildView'
<1>1. \A kind : Awaits(kind)' <=> Awaits(kind)
  BY DEF Awaits
<1>2. Settled' <=> Settled
  BY <1>1 DEF Settled
<1>3. ReplayFits' /\ MessageShown'
  BY <1>1 DEF ChildView, ReplayFits, MessageShown
<1>4. (NothingTyped => NothingTyped') /\ (TextShown => TextShown')
  BY DEF NothingTyped, TextShown
<1>5. QED
  BY <1>2, <1>3, <1>4 DEF ChildView

LEMMA ShownEmitted ==
    ASSUME RecordInv, ChildView, child.deltas \in Nat, NEW ev \in Events, Emits(ev),
           ChildMoves(ev) \/ (ev.kind \notin ChildKinds /\ ChildStays)
    PROVE  ChildView'
<1>1. client' = client /\ told' = told /\ Coming' = Coming \cup {ev}
  BY ComingEmitted DEF Emits
<1>2. Waits' = Waits /\ ToldChild' = ToldChild
  BY <1>1 DEF Waits, Queued, Skipped, ToldChild
<1>3. \A kind : Awaits(kind)' <=> Awaits(kind)
  BY <1>2 DEF Awaits
<1>4. Settled' <=> Settled
  BY <1>2, <1>3 DEF Settled
<1>5. ReplayFits' /\ MessageShown' /\ (NothingTyped => NothingTyped')
  BY <1>1, <1>2, <1>3 DEF ChildView, ReplayFits, MessageShown, NothingTyped
<1>6. OpensChild'
  <2>1. child.stage \in Unborn => child'.stage \in Unborn \/ ev.kind = "child_started"
    BY DEF ChildMoves, ChildStays, Unborn
  <2>2. Holds("child_started") \/ ev.kind = "child_started" => Holds("child_started")'
    BY <1>1 DEF Holds
  <2>3. QED
    BY <1>1, <1>3, <1>4, <2>1, <2>2 DEF ChildView, OpensChild
<1>7. TextShown => TextShown'
  <2>1. \A n \in 1..child'.deltas : n \in 1..child.deltas \/ Tells(ev, n)
    <3>1. CASE child'.deltas = child.deltas
      BY <3>1
    <3>2. CASE child'.deltas = child.deltas + 1 /\ ev.kind = "child_delta" /\ ev.blocks = {ChildText(child.deltas + 1)}
      BY <3>2 DEF Tells
    <3>3. QED
      BY <3>1, <3>2 DEF ChildMoves, ChildStays
  <2>2. QED
    BY <1>1, <1>2, <2>1 DEF TextShown
<1>8. QED
  BY <1>4, <1>5, <1>6, <1>7 DEF ChildView

LEMMA ShownTaken ==
    ASSUME RecordInv, OrderInv, DateInv, ChildRows, ToldRight, client.phase # "off", ChildView,
           NEW e \in Entries, Takes(e), ChildStays
    PROVE  ChildView'
<1>1. /\ Waits' = Waits \cup {e}
      /\ client'.replay = client.replay /\ client'.open = client.open
      /\ client'.view = client.view /\ client'.typing = client.typing
  BY WaitsTaken
<1>2. /\ e.kind # "child_committed" => ToldChild' = ToldChild
      /\ e.kind = "child_committed" => ToldChild = {}
      /\ e.kind = "child_delta" => ToldChild = {}
      /\ \A kind : kind # e.kind => (Holds(kind)' <=> Holds(kind))
  BY ToldTakes
<1>3. \A kind : Awaits(kind)' <=> Awaits(kind) \/ e.kind = kind
  BY <1>1 DEF Awaits
<1>4. \A x \in Coming : x \in Coming' \/ (x.kind = e.kind /\ x.blocks = e.blocks)
  BY ComingTaken
<1>5. child' = child
  BY DEF ChildStays
<1>6. Settled' => Settled /\ e.kind \notin {"child_committed", "child_delta"}
  BY <1>2, <1>3 DEF Settled
<1>7. Settled => Settled'
  BY <1>2, <1>3 DEF Settled
<1>8. ReplayFits'
  BY <1>1 DEF ChildView, ReplayFits
<1>9. OpensChild'
  BY <1>1, <1>2, <1>3, <1>5, <1>7 DEF ChildView, OpensChild
<1>10. MessageShown'
  BY <1>1, <1>2, <1>3 DEF ChildView, MessageShown
<1>11. Settled' => NothingTyped'
  BY <1>1, <1>6 DEF ChildView, NothingTyped
<1>12. ~Settled' => TextShown'
  <2>1. ~Settled' => TextShown
    BY <1>7 DEF ChildView
  <2>2. ASSUME TextShown, NEW n \in 1..child.deltas
        PROVE  client.typing[ChildText(n)] > 0 \/ \E x \in Coming' \cup client.replay \cup Waits' : Tells(x, n)
    <3>1. CASE client.typing[ChildText(n)] > 0
      BY <3>1
    <3>2. CASE \E x \in Coming \cup client.replay \cup Waits : Tells(x, n)
      <4>1. PICK x \in Coming \cup client.replay \cup Waits : Tells(x, n)
        BY <3>2
      <4>2. CASE x \in Coming' \cup client.replay \cup Waits'
        BY <4>1, <4>2
      <4>3. CASE x.kind = e.kind /\ x.blocks = e.blocks
        <5>1. Tells(e, n) /\ e \in Waits'
          BY <1>1, <4>1, <4>3 DEF Tells
        <5>2. QED
          BY <5>1
      <4>4. QED
        BY <1>1, <1>4, <4>1, <4>2, <4>3
    <3>3. QED
      BY <2>2, <3>1, <3>2 DEF TextShown
  <2>3. QED
    BY <1>1, <1>5, <2>1, <2>2 DEF TextShown
<1>13. QED
  BY <1>8, <1>9, <1>10, <1>11, <1>12 DEF ChildView

(* The parts of the buffer other than the child's stream have none of it. *)
LEMMA ReplayOfChild ==
    ASSUME RecordInv, NEW e \in Replay, OfChild(e)
    PROVE  e \in buffer.child
<1>1. e \in buffer.prefix \cup buffer.run \cup buffer.tail \cup buffer.compact \cup buffer.child
  BY ShownParts, ReplayIs
<1>2. Shaped(buffer)
  BY ShownParts DEF ShapeInv
<1>3. \A x \in buffer.prefix \cup buffer.run \cup buffer.tail \cup buffer.compact : ~OfChild(x)
  BY <1>2 DEF Shaped, TailKinds, TurnKinds, Streamed, OfChild, ChildKinds
<1>4. QED
  BY <1>1, <1>3

LEMMA ShownJoined ==
    ASSUME RecordInv, DateInv, ChildRows, ToldRight, ChildKept, Ended, ChildJoins, calm, TakeReplay
    PROVE  Gone' \/ ChildView'
<1> TypeInv /\ client \in Clients /\ child.deltas \in Nat
  BY ShownParts DEF TypeInv, ChildTyped
<1>1. /\ client.phase = "snapshot" /\ client'.replay = Replay /\ client'.queue = client.queue
      /\ client'.view = client.view /\ client'.typing = client.typing /\ client'.open = client.open
      /\ UNCHANGED <<child, out, told>>
  BY DEF TakeReplay, Clients
<1>2. RowIsTold /\ EndIsTold /\ ShowsChild
  BY <1>1 DEF ChildJoins, Joining, Connecting
<1>3. ToldChild' = ToldChild /\ Coming' = Coming /\ child' = child
  BY <1>1 DEF ToldChild, Coming
<1>0. CASE child.stage = "ended"
  <2>1. ~client.open /\ child.stage \notin Unborn
    BY <1>0, <1>2 DEF ShowsChild, Viewed, Unborn
  <2>2. buffer.child = {} /\ \A x \in Coming : ~OfChild(x)
    BY <1>0, <1>2 DEF Ended, EndIsTold
  <2>3. \A x \in Replay : ~OfChild(x)
    BY <2>2, ReplayOfChild
  <2>4. \A x \in Waits' : x.kind # "child_started"
    BY <1>0, <1>1, <1>2 DEF Waits, Queued, EndIsTold
  <2>5. QED
    BY <1>1, <1>3, <2>1, <2>2, <2>3, <2>4 DEF Gone, OfChild, ChildKinds
<1> SUFFICES ASSUME child.stage # "ended" PROVE ChildView'
  BY <1>0
<1>13. ~Viewed => child.stage = "none" /\ rows.child = {}
  BY <1>2 DEF Viewed, EndIsTold, ChildRows, Saved, Done
<1>4. \A x \in Waits' : x.kind # "child_committed" /\ (ToldChild # {} => x.kind # "child_delta")
  BY <1>1, <1>2 DEF Waits, Queued, RowIsTold
<1>5. ~Awaits("child_committed")' /\ (Settled' <=> ToldChild # {})
  BY <1>3, <1>4 DEF Awaits, Settled
<1>6. child.stage \in Saved => ToldChild # {}
  BY <1>2, SavedText DEF RowIsTold
<1>7. ReplayFits'
  <2>1. \A e \in Replay : OfChild(e) => e.kind \in {"child_started", "child_delta"}
    BY ReplayOfChild DEF ChildKept
  <2>2. ASSUME NEW e \in Replay, e.kind = "child_delta" PROVE client.open
    <3>1. e \in buffer.child /\ e \in Held
      BY <2>2, ReplayOfChild DEF OfChild, ChildKinds, Held
    <3>2. ToldChild = {}
      BY <2>2, <3>1 DEF ChildKept
    <3>3. child.stage \notin Unborn /\ child.stage \notin Saved
      BY <1>6, <2>2, <3>1, <3>2 DEF DateInv, Dated, OfChild, ChildKinds
    <3>4. Viewed
      BY <3>3 DEF Viewed, Unborn, Saved, Done
    <3>5. QED
      BY <1>2, <3>4 DEF ShowsChild
  <2>3. QED
    BY <1>1, <2>1, <2>2 DEF ReplayFits, OfChild, ChildKinds
<1>8. OpensChild'
  BY <1>1, <1>2, <1>3, <1>13 DEF OpensChild, ShowsChild, Unborn
<1>9. MessageShown'
  BY <1>1, <1>2, <1>3, <1>5, <1>13 DEF MessageShown, ShowsChild, RowIsTold
<1>10. Settled' => NothingTyped'
  <2>1. ToldChild # {} => \A e \in Replay : e.kind # "child_delta"
    BY ReplayOfChild DEF ChildKept, OfChild, ChildKinds
  <2>2. QED
    BY <1>1, <1>2, <1>4, <1>5, <2>1 DEF NothingTyped, ShowsChild
<1>11. ~Settled' => TextShown'
  <2>1. buffer.child \subseteq Replay
    BY ShownParts, ReplayIs
  <2>2. QED
    BY <1>1, <1>3, <1>5, <2>1 DEF TextShown, ChildKept
<1>12. QED
  BY <1>7, <1>8, <1>9, <1>10, <1>11 DEF ChildView

(* Text that is received is shown as being typed. *)
LEMMA TypedText ==
    ASSUME RecordInv, TextShown, NEW e \in Entries, child' = child, Coming' = Coming,
           \A x \in client.replay \cup Waits : x \in client'.replay \cup Waits' \/ x = e,
           e.kind # "child_delta" => \A b \in ChildBlocks : client'.typing[b] = client.typing[b],
           e.kind = "child_delta" => client'.typing = Add(client.typing, e.blocks)
    PROVE  TextShown'
<1> client.typing \in [Blocks -> 0..2] /\ child.deltas \in 0..ChildDeltas /\ ChildDeltas \in Nat
  BY ShownParts, BoundFacts DEF Clients, TypeInv, ChildTyped
<1> SUFFICES ASSUME NEW n \in 1..child.deltas
             PROVE  client'.typing[ChildText(n)] > 0
                    \/ \E x \in Coming \cup client'.replay \cup Waits' : Tells(x, n)
  BY DEF TextShown
<1>1. ChildText(n) \in Blocks /\ ChildText(n) \in ChildBlocks
  <2>1. n \in 1..ChildDeltas
    OBVIOUS
  <2>2. QED
    BY <2>1, BlockFacts
<1>2. client.typing[ChildText(n)] \in 0..2
  BY <1>1
<1>3. CASE client.typing[ChildText(n)] > 0
  <2>1. Add(client.typing, e.blocks)[ChildText(n)] > 0
    BY <1>1, <1>2, <1>3 DEF Add
  <2>2. QED
    BY <1>1, <1>3, <2>1
<1>4. CASE \E x \in Coming \cup client.replay \cup Waits : Tells(x, n)
  <2>1. PICK x \in Coming \cup client.replay \cup Waits : Tells(x, n)
    BY <1>4
  <2>2. CASE x = e
    <3>1. e.kind = "child_delta" /\ ChildText(n) \in e.blocks
      BY <2>1, <2>2 DEF Tells
    <3>2. Add(client.typing, e.blocks)[ChildText(n)] > 0
      BY <1>1, <1>2, <3>1 DEF Add
    <3>3. QED
      BY <3>1, <3>2
  <2>3. CASE x # e
    BY <2>1, <2>3
  <2>4. QED
    BY <2>2, <2>3
<1>5. QED
  BY <1>3, <1>4 DEF TextShown

LEMMA ShownReplayed ==
    ASSUME RecordInv, ToldRight, ChildView, ReceiveReplay
    PROVE  ChildView'
<1> client \in Clients /\ client.view \in [Blocks -> 0..2] /\ client.typing \in [Blocks -> 0..2]
  BY ShownParts DEF Clients
<1>1. PICK e \in client.replay :
         e \in Entries /\ Receives(e) /\ client'.replay = client.replay \ {e} /\ Waits' = Waits
  BY WaitsReplayed
<1>2. ToldChild' = ToldChild /\ Coming' = Coming /\ child' = child
  BY DEF ReceiveReplay, ToldChild, Coming
<1>3. OfChild(e) \/ e.blocks \cap ChildBlocks = {}
  BY DEF ToldRight, Held
<1>4. e.kind \notin {"child_committed", "child_finished"} /\ (e.kind = "child_delta" => client.open /\ ~Settled)
  BY DEF ChildView, ReplayFits, NothingTyped
<1>5. /\ client.open => client'.open
      /\ \A b \in ChildBlocks : client'.view[b] = client.view[b]
      /\ e.kind # "child_delta" => \A b \in ChildBlocks : client'.typing[b] = client.typing[b]
      /\ e.kind = "child_delta" => client'.typing = Add(client.typing, e.blocks)
  <2>1. CASE ~OfChild(e)
    BY <1>1, <1>3, <2>1, ChildReceived DEF OfChild, ChildKinds
  <2>2. CASE e.kind = "child_started"
    BY <1>1, <1>3, <2>2, ChildReceived
  <2>3. CASE e.kind = "child_delta"
    BY <1>1, <1>3, <1>4, <2>3, ChildReceived
  <2>4. QED
    BY <1>4, <2>1, <2>2, <2>3 DEF OfChild, ChildKinds
<1>6. \A kind : Awaits(kind)' <=> Awaits(kind)
  BY <1>1 DEF Awaits
<1>7. Settled' <=> Settled
  BY <1>2, <1>6 DEF Settled
<1>8. ReplayFits'
  BY <1>1, <1>5 DEF ChildView, ReplayFits
<1>9. OpensChild'
  <2>1. \A kind : Holds(kind)' <=> Holds(kind)
    BY <1>2 DEF Holds
  <2>2. QED
    BY <1>2, <1>5, <1>6, <1>7, <2>1 DEF ChildView, OpensChild
<1>10. MessageShown'
  BY <1>2, <1>5, <1>6 DEF ChildView, MessageShown
<1>11. Settled' => NothingTyped'
  BY <1>1, <1>4, <1>5, <1>7 DEF ChildView, NothingTyped
<1>12. ~Settled' => TextShown'
  <2>1. \A x \in client.replay \cup Waits : x \in client'.replay \cup Waits' \/ x = e
    BY <1>1
  <2>2. QED
    BY <1>1, <1>2, <1>5, <1>7, <2>1, TypedText DEF ChildView
<1>13. QED
  BY <1>8, <1>9, <1>10, <1>11, <1>12 DEF ChildView

(* What the queue shows of the child: it is open when its text or message    *)
(* comes, and after its message there is nothing more of it.                  *)
LEMMA LiveOfChild ==
    ASSUME RecordInv, OrderInv, DateInv, ToldRight, ChildView, NEW e \in Held, e \in Waits, OfChild(e),
           \A x \in Waits : OfChild(x) => x = e \/ Follows(e, x)
    PROVE  /\ e.kind \in {"child_delta", "child_committed"} => client.open /\ ~Settled
           /\ e.kind = "child_committed" => e.blocks = ToldChild /\ ToldChild # {}
           /\ e.kind = "child_finished" => Settled
<1>1. e.kind = "child_delta" => ~Settled
  BY DEF ChildView, NothingTyped
<1>2. e.kind = "child_committed" => ~Settled
  BY DEF Settled, Awaits
<1>3. e.kind # "child_started" => ~Awaits("child_started") /\ ~Holds("child_started") /\ child.stage \notin Unborn
  <2>1. \A x \in Waits : x.kind = "child_started" => x = e
    BY DEF OfChild, ChildKinds, Follows
  <2>2. ~Holds("child_started")
    BY DEF Holds, OrderInv, OfChild, ChildKinds, Follows
  <2>3. child.stage \notin Unborn
    BY DEF DateInv, Dated
  <2>4. QED
    BY <2>1, <2>2, <2>3 DEF Awaits
<1>4. /\ e.kind = "child_committed" => e.blocks = ToldChild
      /\ e.kind \in {"child_committed", "child_finished"} => ToldChild # {}
  BY DEF ToldRight
<1>5. e.kind = "child_finished" => ~Awaits("child_committed")
  BY DEF Awaits, OfChild, ChildKinds, Follows
<1>6. QED
  BY <1>1, <1>2, <1>3, <1>4, <1>5 DEF ChildView, OpensChild, Settled

LEMMA ShownReceived ==
    ASSUME RecordInv, HeldInv, JoinInv, OrderInv, DateInv, ToldRight, ChildView, ReceiveLive
    PROVE  Gone' \/ ChildView'
<1> client \in Clients /\ client.view \in [Blocks -> 0..2] /\ client.typing \in [Blocks -> 0..2]
  BY ShownParts DEF Clients
<1>1. PICK e \in Held :
         /\ e \in Entries /\ client'.replay = client.replay /\ client.replay = {}
         /\ \A x \in Waits : x \in Held
         /\ \/ /\ Waits' = Waits
               /\ client'.view = client.view /\ client'.typing = client.typing /\ client'.open = client.open
            \/ /\ Receives(e) /\ e \in Waits /\ Waits' \subseteq Waits
               /\ \A x \in Waits : x \in Waits' \/ x = e
               /\ \A x \in Waits' : OfChild(e) /\ OfChild(x) => Follows(e, x)
  BY WaitsReceived
<1>2. ToldChild' = ToldChild /\ Coming' = Coming /\ child' = child
  BY DEF ReceiveLive, ToldChild, Coming
<1>3. CASE Waits' = Waits /\ client'.view = client.view /\ client'.typing = client.typing /\ client'.open = client.open
  <2>1. OpensChild'
    <3>1. (\A kind : Awaits(kind)' <=> Awaits(kind)) /\ (\A kind : Holds(kind)' <=> Holds(kind))
      BY <1>2, <1>3 DEF Awaits, Holds
    <3>2. QED
      BY <1>2, <1>3, <3>1 DEF ChildView, OpensChild, Settled
  <2>2. QED
    BY <1>1, <1>2, <1>3, <2>1, ShownSame
<1>4. CASE /\ Receives(e) /\ e \in Waits /\ Waits' \subseteq Waits
           /\ \A x \in Waits : x \in Waits' \/ x = e
           /\ \A x \in Waits' : OfChild(e) /\ OfChild(x) => Follows(e, x)
  <2>1. OfChild(e) \/ e.blocks \cap ChildBlocks = {}
    BY DEF ToldRight
  <2>2. OfChild(e) =>
          /\ e.kind \in {"child_delta", "child_committed"} => client.open /\ ~Settled
          /\ e.kind = "child_committed" => e.blocks = ToldChild /\ ToldChild # {}
          /\ e.kind = "child_finished" => Settled
    BY <1>4, LiveOfChild
  <2>3. \A kind : kind # e.kind => (Awaits(kind)' <=> Awaits(kind))
    BY <1>4 DEF Awaits
  <2>4. \A x \in client.replay \cup Waits : x \in client'.replay \cup Waits' \/ x = e
    BY <1>1, <1>4
  <2>5. ReplayFits'
    BY <1>1 DEF ReplayFits
  <2>6. (\A kind : Holds(kind)' <=> Holds(kind)) /\ child'.stage = child.stage
    BY <1>2 DEF Holds
  <2>7. CASE ~OfChild(e) \/ e.kind \in {"child_started", "child_delta"}
    <3>1. e.kind \notin {"child_committed", "child_finished"}
      BY <2>7 DEF OfChild, ChildKinds
    <3>2. /\ client.open => client'.open
          /\ e.kind = "child_started" => client'.open
          /\ \A b \in ChildBlocks : client'.view[b] = client.view[b]
          /\ e.kind # "child_delta" => \A b \in ChildBlocks : client'.typing[b] = client.typing[b]
          /\ e.kind = "child_delta" => client'.typing = Add(client.typing, e.blocks)
      <4>1. CASE ~OfChild(e)
        BY <1>1, <1>4, <2>1, <4>1, ChildReceived DEF OfChild, ChildKinds
      <4>2. CASE e.kind = "child_started"
        BY <1>1, <1>4, <2>1, <4>2, ChildReceived
      <4>3. CASE e.kind = "child_delta"
        BY <1>1, <1>4, <2>1, <2>2, <4>3, ChildReceived DEF OfChild, ChildKinds
      <4>4. QED
        BY <2>7, <4>1, <4>2, <4>3
    <3>3. (Awaits("child_committed")' <=> Awaits("child_committed")) /\ (Settled' <=> Settled)
      BY <1>2, <2>3, <3>1 DEF Settled
    <3>4. OpensChild'
      <4>1. Awaits("child_started")' \/ client'.open \/ ~Awaits("child_started")
        BY <2>3, <3>2
      <4>2. QED
        BY <2>6, <3>2, <3>3, <4>1 DEF ChildView, OpensChild
    <3>5. MessageShown'
      BY <1>2, <3>2, <3>3 DEF ChildView, MessageShown
    <3>6. Settled' => NothingTyped'
      BY <1>1, <1>4, <3>2, <3>3 DEF ChildView, NothingTyped
    <3>7. ~Settled' => TextShown'
      BY <1>1, <1>2, <2>4, <3>2, <3>3, TypedText DEF ChildView
    <3>8. QED
      BY <2>5, <3>4, <3>5, <3>6, <3>7 DEF ChildView
  <2>8. CASE e.kind = "child_committed"
    <3>1. client.open /\ e.blocks = ToldChild /\ ToldChild # {}
      BY <2>2, <2>8 DEF OfChild, ChildKinds
    <3>2. client'.open /\ client'.view = Add(client.view, e.blocks) /\ client'.typing = Nothing
      BY <1>1, <1>4, <2>1, <2>8, <3>1, ChildReceived
    <3>3. \A x \in Waits' : x.kind # "child_committed" /\ x.kind # "child_delta"
      BY <1>4, <2>8 DEF OfChild, ChildKinds, Follows
    <3>4. Settled'
      BY <1>2, <3>1, <3>3 DEF Settled, Awaits
    <3>5. Awaits("child_committed")
      BY <1>4, <2>8 DEF Awaits
    <3>6. MessageShown'
      <4> SUFFICES ASSUME NEW b \in ChildBlocks PROVE client'.view[b] = IF b \in ToldChild THEN 1 ELSE 0
        BY <1>2, <3>3 DEF MessageShown, Awaits
      <4>1. client.view[b] = 0
        BY <3>5 DEF ChildView, MessageShown
      <4>2. b \in Blocks
        BY BlockFacts
      <4>3. QED
        BY <3>1, <3>2, <4>1, <4>2, AddType
    <3>7. NothingTyped'
      <4>1. \A b \in ChildBlocks : Nothing[b] = 0
        BY BlockFacts DEF Nothing
      <4>2. QED
        BY <1>1, <3>2, <3>3, <4>1 DEF NothingTyped
    <3>8. OpensChild'
      BY <3>2 DEF OpensChild
    <3>9. QED
      BY <2>5, <3>4, <3>6, <3>7, <3>8 DEF ChildView
  <2>11. CASE e.kind = "child_finished" /\ ~client'.open
    <3>1. child.stage \notin Unborn
      BY <2>11 DEF DateInv, Dated, OfChild, ChildKinds
    <3>2. \A x \in Coming : x.kind # "child_started"
      BY <2>11 DEF OrderInv, Follows, OfChild, ChildKinds
    <3>3. \A x \in Waits' : x.kind # "child_started"
      BY <1>4, <2>11 DEF Follows, OfChild, ChildKinds
    <3>4. QED
      BY <1>1, <1>2, <2>11, <3>1, <3>2, <3>3 DEF Gone
  <2>9. CASE e.kind = "child_finished" /\ client'.open
    <3>1. Settled
      BY <2>2, <2>9 DEF OfChild, ChildKinds
    <3>2. (Awaits("child_committed")' <=> Awaits("child_committed")) /\ Settled'
      BY <1>2, <2>3, <2>9, <3>1 DEF Settled
    <3>3. \A b \in Blocks : client.typing[b] = 0
      <4>1. \A b \in ChildBlocks : client.typing[b] = 0
        BY <3>1 DEF ChildView, NothingTyped
      <4>2. QED
        BY <4>1 DEF HeldInv, Plain
    <3>4. \A b \in ChildBlocks : client'.view[b] = client.view[b] /\ client'.typing[b] = 0
      <4>1. CASE ~client.open
        <5>1. \A b \in ChildBlocks : client'.view[b] = client.view[b] /\ client'.typing[b] = client.typing[b]
          BY <1>1, <1>4, <2>1, <2>9, <4>1, ChildReceived
        <5>2. QED
          BY <3>3, <4>1, <5>1, BlockFacts
      <4>2. CASE client.open
        <5> DEFINE typed == {b \in Blocks : client.typing[b] > 0}
        <5>1. client'.typing = Nothing /\ client'.view = Add(client.view, typed)
          BY <1>1, <1>4, <2>1, <2>9, <4>2, ChildReceived
        <5>2. \A b \in Blocks : b \notin typed
          BY <3>3
        <5> HIDE DEF typed
        <5>3. \A b \in Blocks : client'.view[b] = client.view[b]
          BY <5>1, <5>2, AddType
        <5>4. \A b \in Blocks : client'.typing[b] = 0
          BY <5>1 DEF Nothing
        <5>5. QED
          BY <5>1, <5>3, <5>4, BlockFacts
      <4>3. QED
        BY <4>1, <4>2
    <3>5. OpensChild'
      BY <3>2 DEF OpensChild
    <3>6. MessageShown'
      BY <1>2, <3>2, <3>4 DEF ChildView, MessageShown
    <3>7. NothingTyped'
      BY <1>1, <1>4, <3>1, <3>4 DEF ChildView, NothingTyped
    <3>8. QED
      BY <2>5, <3>2, <3>5, <3>6, <3>7 DEF ChildView
  <2>10. QED
    BY <2>7, <2>8, <2>9, <2>11 DEF OfChild, ChildKinds
<1>5. QED
  BY <1>1, <1>3, <1>4

LEMMA ChildShownStep ==
    ASSUME RecordInv, HeldInv, JoinInv, OrderInv, DateInv, ChildRows, ToldRight, ChildKept, Ended, ChildJoins,
           ChildShown, [Next]_vars
    PROVE  ChildShown'
<1> TypeInv /\ ShapeInv /\ client \in Clients /\ child.deltas \in Nat
  BY ShownParts DEF TypeInv, ChildTyped
<1>1. ASSUME NEW ev \in Events, Emits(ev), ChildMoves(ev) \/ (ev.kind \notin ChildKinds /\ ChildStays)
      PROVE  ChildShown'
  <2>1. client' = client /\ calm' = calm
    BY <1>1 DEF Emits
  <2>2. QED
    BY <1>1, <2>1, ShownEmitted, GoneEmitted DEF ChildShown
<1>2. ASSUME NEW e \in Entries, Takes(e), ChildStays PROVE ChildShown'
  <2> SUFFICES ASSUME client'.phase \in {"replaying", "live"}, calm' PROVE Gone' \/ ChildView'
    BY DEF ChildShown
  <2>1. CASE client.phase = "off"
    <3>1. PICK event \in Events : Consumes(event, e)
      BY <1>2 DEF Takes
    <3>2. client'.phase = client.phase
      BY <1>2, <3>1, ClientRecorded
    <3>3. QED
      BY <2>1, <3>2
  <2>2. CASE client.phase # "off"
    <3>1. client'.phase = client.phase /\ calm' = calm
      BY <1>2, <2>2, WaitsTaken
    <3>2. Gone \/ ChildView
      BY <3>1 DEF ChildShown
    <3>3. QED
      BY <1>2, <2>2, <3>2, ShownTaken, GoneTaken
  <2>3. QED
    BY <2>1, <2>2
<1>3. ASSUME client' = client, told' = told, out' = out, calm' => calm, child'.deltas = child.deltas,
             child.stage \in Unborn <=> child'.stage \in Unborn
      PROVE  ChildShown'
  <2> SUFFICES ASSUME Gone \/ ChildView PROVE Gone' \/ ChildView'
    BY <1>3 DEF ChildShown
  <2>1. Waits' = Waits /\ ToldChild' = ToldChild /\ Coming' = Coming
    BY <1>3 DEF Waits, Queued, Skipped, ToldChild, Coming
  <2>2. ChildView => OpensChild'
    <3>1. (\A kind : Awaits(kind)' <=> Awaits(kind)) /\ (\A kind : Holds(kind)' <=> Holds(kind))
      BY <2>1 DEF Awaits, Holds
    <3>2. QED
      BY <1>3, <2>1, <3>1 DEF ChildView, OpensChild, Settled
  <2>3. QED
    BY <1>3, <2>1, <2>2, ShownSame, GoneSame
<1>4. CASE ChildRow /\ ChildStores
  <2>1. client' = client /\ told' = told /\ out' = out /\ (calm' => calm)
    BY <1>4 DEF ChildRow, Writes
  <2>2. child'.deltas = child.deltas /\ (child.stage \in Unborn <=> child'.stage \in Unborn)
    BY <1>4 DEF ChildStores, Unborn
  <2>3. QED
    BY <1>3, <2>1, <2>2
<1>5. CASE ChildStays /\ (StoreInput \/ SendInput \/ Stores \/ Trims \/ UNCHANGED vars)
  <2>1. client' = client /\ told' = told /\ out' = out /\ (calm' = calm \/ Writes)
    BY <1>5 DEF StoreInput, SendInput, Stores, StoreContext, StoreDisplay, Trims, TrimPersisted, TrimCompact, vars
  <2>2. calm' => calm
    BY <2>1 DEF Writes
  <2>3. QED
    BY <1>3, <1>5, <2>1, <2>2 DEF ChildStays
<1>6. CASE Subscribe \/ ReadMessages \/ ReadTasks \/ ReadContext \/ SendSnapshot
  <2>1. client'.phase \notin {"replaying", "live"}
    BY <1>6 DEF Subscribe, ReadMessages, ReadTasks, ReadContext, SendSnapshot, Clients
  <2>2. QED
    BY <2>1 DEF ChildShown
<1>7. CASE TakeReplay
  <2>1. client.phase = "snapshot" /\ calm' = calm
    BY <1>7 DEF TakeReplay
  <2>2. QED
    BY <1>7, <2>1, ShownJoined DEF ChildShown
<1>8. CASE ReceiveReplay
  <2>1. client.phase = "replaying" /\ calm' = calm
    BY <1>8 DEF ReceiveReplay
  <2>2. QED
    BY <1>8, <2>1, ShownReplayed, GoneReceived DEF ChildShown
<1>9. CASE ReceiveLive
  <2>1. client.phase = "live" /\ calm' = calm
    BY <1>9 DEF ReceiveLive
  <2>2. QED
    BY <1>9, <2>1, ShownReceived, GoneReceived DEF ChildShown
<1>10. CASE SendStatus
  <2>1. /\ client.phase = "replaying" /\ client'.queue = client.queue /\ client'.replay = client.replay
        /\ client'.through = client.through /\ client'.view = client.view /\ client'.typing = client.typing
        /\ client'.open = client.open /\ calm' = calm /\ told' = told /\ out' = out /\ child' = child
    BY <1>10 DEF SendStatus, Clients
  <2> SUFFICES ASSUME Gone \/ ChildView PROVE Gone' \/ ChildView'
    BY <2>1 DEF ChildShown
  <2>2. Waits' = Waits /\ ToldChild' = ToldChild /\ Coming' = Coming
    BY <2>1 DEF Waits, Queued, Skipped, ToldChild, Coming
  <2>3. ChildView => OpensChild'
    <3>1. (\A kind : Awaits(kind)' <=> Awaits(kind)) /\ (\A kind : Holds(kind)' <=> Holds(kind))
      BY <2>2 DEF Awaits, Holds
    <3>2. QED
      BY <2>1, <2>2, <3>1 DEF ChildView, OpensChild, Settled
  <2>4. QED
    BY <2>1, <2>2, <2>3, ShownSame, GoneSame
<1>11. CASE Still /\ ChildStays
  <2>1. CASE ChildRow
    <3>1. client' = client /\ told' = told /\ out' = out /\ (calm' => calm)
      BY <2>1 DEF ChildRow, Writes
    <3>2. QED
      BY <1>3, <1>11, <3>1 DEF ChildStays
  <2>2. QED
    BY <1>5, <1>6, <1>7, <1>8, <1>9, <1>10, <1>11, <2>1 DEF Still, Socket
<1>12. QED
  BY <1>1, <1>2, <1>4, <1>11, ChildWays

ChildInv ==
    /\ RecordInv /\ HeldInv /\ KeptInv /\ JoinInv /\ OrderInv /\ DateInv
    /\ ChildRows /\ ToldRight /\ ChildKept /\ Ended /\ ChildJoins /\ ChildShown

LEMMA ChildInvHolds == EventSpec => []ChildInv
<1>1. Init => ChildInv
  <2>1. Init => ChildShown
    BY DEF Init, ChildShown
  <2>2. QED
    BY <2>1, RecordedInit, JoinInit, OrderInit, ChildRowsInit, KeptChildInit, EndedInit, JoinsInit DEF ChildInv
<1>2. ChildInv /\ [Next]_vars => ChildInv'
  <2> SUFFICES ASSUME ChildInv, [Next]_vars PROVE ChildInv'
    OBVIOUS
  <2> USE DEF ChildInv
  <2>1. RecordInv'
    BY RecordedStep
  <2>2. HeldInv'
    BY <2>1, HeldStep
  <2>3. KeptInv' /\ JoinInv'
    BY <2>1, JoinStep
  <2>4. OrderInv' /\ DateInv'
    BY <2>1, OrderStep
  <2>5. ChildRows' /\ ToldRight'
    BY <2>1, ChildRowsStep, ToldRightStep
  <2>6. ChildKept' /\ Ended' /\ ChildJoins'
    BY <2>1, KeptChildStep, EndedStep, JoinsChildStep
  <2>7. ChildShown'
    BY ChildShownStep
  <2>8. QED
    BY <2>1, <2>2, <2>3, <2>4, <2>5, <2>6, <2>7
<1>3. QED
  BY <1>1, <1>2, PTL DEF EventSpec

(* A client whose view of a background child is open comes to show the       *)
(* child's stored message once, with nothing of it still typed, and before   *)
(* that all of its text, unless a row was written while it connected, a row  *)
(* was ahead of its event (the end of the child too), or a message was       *)
(* trimmed half recorded (host.rs, replay.rs, ws.rs): for any number of      *)
(* deltas, any channel and lag.                                               *)
THEOREM ChildStaysShown == EventSpec => []ChildIsShown
<1>1. ChildInv => ChildIsShown
  <2> SUFFICES ASSUME ChildInv, calm, Drained, client.open
               PROVE  /\ \A b \in rows.child \cap told : client.view[b] = 1 /\ client.typing[b] = 0
                      /\ \A n \in 1..child.deltas : client.view[ChildText(n)] + client.typing[ChildText(n)] > 0
    BY DEF ChildIsShown
  <2> /\ RowsTyped /\ client.view \in [Blocks -> 0..2] /\ client.typing \in [Blocks -> 0..2]
      /\ child.deltas \in 0..ChildDeltas /\ ChildDeltas \in Nat
    BY ShownParts, BoundFacts DEF ChildInv, Clients, TypeInv, ChildTyped
  <2>1. client.phase = "live" /\ client.queue = <<>> /\ out = <<>>
    BY DEF Drained
  <2>2. Coming = {} /\ client.replay = {} /\ Waits = {}
    BY <2>1 DEF Coming, ChildInv, JoinInv, Waits, Queued
  <2>3. ChildView /\ (Settled <=> ToldChild # {}) /\ ~Awaits("child_committed")
    BY <2>1, <2>2 DEF ChildInv, ChildShown, Gone, Settled, Awaits
  <2>4. \A b \in ChildBlocks : /\ client.view[b] = IF b \in ToldChild THEN 1 ELSE 0
                               /\ ToldChild # {} => client.typing[b] = 0
    BY <2>3 DEF ChildView, MessageShown, NothingTyped
  <2>5. \A b \in rows.child \cap told : b \in ToldChild /\ b \in ChildBlocks
    BY DEF RowsTyped, ToldChild
  <2>6. ASSUME NEW n \in 1..child.deltas
        PROVE  client.view[ChildText(n)] + client.typing[ChildText(n)] > 0
    <3>1. ChildText(n) \in ChildBlocks /\ ChildText(n) \in Blocks
      <4>1. n \in 1..ChildDeltas
        OBVIOUS
      <4>2. QED
        BY <4>1, BlockFacts
    <3>2. client.view[ChildText(n)] \in 0..2 /\ client.typing[ChildText(n)] \in 0..2
      BY <3>1
    <3>3. CASE ToldChild # {}
      <4>1. ToldChild = ChildMessage
        BY <3>3 DEF ChildInv, ToldRight
      <4>2. ChildText(n) \in ToldChild
        BY <4>1 DEF ChildMessage
      <4>3. client.view[ChildText(n)] = 1
        BY <2>4, <3>1, <4>2
      <4>4. QED
        BY <3>2, <4>3
    <3>4. CASE ToldChild = {}
      <4>1. client.typing[ChildText(n)] > 0
        BY <2>2, <2>3, <3>4 DEF ChildView, TextShown
      <4>2. QED
        BY <3>2, <4>1
    <3>5. QED
      BY <3>3, <3>4
  <2>7. QED
    BY <2>4, <2>5, <2>6
<1>2. QED
  BY <1>1, ChildInvHolds, PTL
=============================================================================
