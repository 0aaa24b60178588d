------------------------- MODULE SessionLifeProofs -------------------------
(***************************************************************************)
(* Proofs about SessionLife, for any connections, requests and scenarios   *)
(* and any number of sessions.  Beside the types the invariant says what a *)
(* session is before it was built (Unbuilt), which consumers may take it   *)
(* out of the cache (Announced), who holds its slot (SlotInv), who is      *)
(* attached to it (Attached), what a loader may rely on (LoaderInv) and    *)
(* where its pause is (PauseInv).                                           *)
(***************************************************************************)
EXTENDS SessionLife, SequenceTheorems, FiniteSetTheorems, TLAPS

Contains(seq, x) == \E i \in DOMAIN seq : seq[i] = x
Once(seq, x)     == \A i, j \in DOMAIN seq : seq[i] = x /\ seq[j] = x => i = j
Has(s, output)   == Contains(consumer[s].outputs, output)
HasOnce(s, output) == Once(consumer[s].outputs, output)

(* Nothing happens in a session before it is built.                         *)
Unbuilt ==
    \A s \in Sessions :
        /\ core[s].life = "none" <=> s > built
        /\ core[s].life = "none" =>
              /\ core[s].slot = "Free" /\ core[s].loop = "top" /\ core[s].pause = "none"
              /\ consumer[s].at = "none" /\ consumer[s].outputs = <<>> /\ ~consumer[s].pending
              /\ presence[s].conns = {}

(* An instance that announced its end has ended.                            *)
Announced ==
    \A s \in Sessions : Has(s, "Closed") \/ consumer[s].at \in {"done", "dropped"} => core[s].life = "Closed"

SlotInv ==
    /\ \A r \in Requests :
          actor[r].at \in {"reserved", "accepted", "running"} =>
              core[actor[r].session].slot = r /\ core[actor[r].session].life = "Active"
    /\ \A s \in Sessions :
          core[s].loop = "run" =>
              /\ core[s].life = "Active" /\ core[s].slot \in Requests
              /\ actor[core[s].slot].at = "running" /\ actor[core[s].slot].session = s

Attached ==
    \A s \in Sessions :
        presence[s].conns = {c \in Conns : actor[c].session = s /\ actor[c].at \in {"registered", "live"}}

(* Unless another session was built in between, a loader that missed the    *)
(* cache still does, and what it read is what is stored.                     *)
LoaderInv ==
    /\ built = 0 => stored = {}
    /\ \A a \in Actors :
          /\ actor[a].at \in {"missed", "read"} => actor[a].age <= built
          /\ actor[a].at \in {"missed", "read"} /\ actor[a].age = built => cache = NoSession
          /\ actor[a].at = "read" /\ actor[a].age = built /\ orphans = {} => actor[a].read = stored

Holders(s) == {r \in Requests : actor[r].session = s /\ actor[r].at \in {"holds", "answering"}}

(* Where the pause of s is: not asked for, on its way to the consumer, in   *)
(* the pending set, or with one request.                                     *)
PauseOf(s) ==
    /\ HasOnce(s, "Pause")
    /\ core[s].pause = "none" =>
          ~Has(s, "Pause") /\ ~Has(s, "ToolResult") /\ ~consumer[s].pending /\ Holders(s) = {}
    /\ core[s].pause = "waiting" =>
          /\ ~Has(s, "ToolResult")
          /\ \/ Has(s, "Pause") /\ ~consumer[s].pending /\ Holders(s) = {}
             \/ ~Has(s, "Pause") /\ consumer[s].pending /\ Holders(s) = {}
             \/ ~Has(s, "Pause") /\ ~consumer[s].pending /\ \E r \in Requests : Holders(s) = {r}

PauseInv == \A s \in Sessions : PauseOf(s)

SessionInv ==
    /\ SessionTypeOK /\ Unbuilt /\ Announced /\ SlotInv /\ Attached /\ LoaderInv /\ PauseInv
    /\ LiveIsCached /\ MemoryIsStored /\ RolesConverge

-----------------------------------------------------------------------------
(* Sequences and the sets an action adds to.                                *)
LEMMA ContainsAppend ==
    ASSUME NEW S, NEW q \in Seq(S), NEW e \in S, NEW x
    PROVE  Contains(Append(q, e), x) <=> Contains(q, x) \/ x = e
<1>1. /\ Len(Append(q, e)) = Len(q) + 1 /\ Append(q, e) \in Seq(S)
      /\ \A i \in 1..Len(q) : Append(q, e)[i] = q[i]
      /\ Append(q, e)[Len(q) + 1] = e
  BY AppendProperties
<1>2. Len(q) \in Nat /\ DOMAIN q = 1..Len(q) /\ DOMAIN Append(q, e) = 1..(Len(q) + 1)
  BY <1>1, LenProperties
<1>3. QED
  BY <1>1, <1>2 DEF Contains

LEMMA ContainsTail ==
    ASSUME NEW S, NEW q \in Seq(S), q # <<>>, NEW x
    PROVE  /\ Contains(q, x) <=> x = Head(q) \/ Contains(Tail(q), x)
           /\ Head(q) \in S /\ Tail(q) \in Seq(S)
<1>1. /\ Head(q) \in S /\ Tail(q) \in Seq(S) /\ Head(q) = q[1] /\ Len(Tail(q)) = Len(q) - 1
      /\ \A i \in 1..Len(Tail(q)) : Tail(q)[i] = q[i + 1]
  BY HeadTailProperties
<1>2. Len(q) \in Nat /\ Len(q) # 0 /\ DOMAIN q = 1..Len(q) /\ DOMAIN Tail(q) = 1..(Len(q) - 1)
  BY <1>1, LenProperties, EmptySeq
<1>3. ASSUME Contains(q, x)
      PROVE  x = q[1] \/ Contains(Tail(q), x)
  <2>1. PICK i \in 1..Len(q) : q[i] = x
    BY <1>2, <1>3 DEF Contains
  <2>2. CASE i = 1
    BY <2>1, <2>2
  <2>3. CASE i # 1
    <3>1. i - 1 \in 1..(Len(q) - 1) /\ (i - 1) + 1 = i
      BY <1>2, <2>3
    <3>2. Tail(q)[i - 1] = x
      BY <1>1, <2>1, <3>1
    <3>3. QED
      BY <1>2, <3>1, <3>2 DEF Contains
  <2>4. QED
    BY <2>2, <2>3
<1>4. ASSUME Contains(Tail(q), x)
      PROVE  Contains(q, x)
  BY <1>1, <1>2, <1>4 DEF Contains
<1>5. x = q[1] => Contains(q, x)
  BY <1>2 DEF Contains
<1>6. QED
  BY <1>1, <1>3, <1>4, <1>5

LEMMA AppendOnce ==
    ASSUME NEW S, NEW q \in Seq(S), NEW e \in S, NEW x, Once(q, x), x = e => ~Contains(q, x)
    PROVE  Once(Append(q, e), x)
<1>1. /\ Len(Append(q, e)) = Len(q) + 1 /\ Append(q, e) \in Seq(S)
      /\ \A i \in 1..Len(q) : Append(q, e)[i] = q[i]
      /\ Append(q, e)[Len(q) + 1] = e
  BY AppendProperties
<1>2. Len(q) \in Nat /\ DOMAIN q = 1..Len(q) /\ DOMAIN Append(q, e) = 1..(Len(q) + 1)
  BY <1>1, LenProperties
<1>3. QED
  BY <1>1, <1>2 DEF Once, Contains

LEMMA TailOnce ==
    ASSUME NEW S, NEW q \in Seq(S), q # <<>>, NEW x, Once(q, x)
    PROVE  /\ Once(Tail(q), x)
           /\ x = Head(q) => ~Contains(Tail(q), x)
<1>1. /\ Head(q) \in S /\ Tail(q) \in Seq(S) /\ Head(q) = q[1] /\ Len(Tail(q)) = Len(q) - 1
      /\ \A i \in 1..Len(Tail(q)) : Tail(q)[i] = q[i + 1]
  BY HeadTailProperties
<1>2. Len(q) \in Nat /\ Len(q) # 0 /\ DOMAIN q = 1..Len(q) /\ DOMAIN Tail(q) = 1..(Len(q) - 1)
  BY <1>1, LenProperties, EmptySeq
<1>3. \A i \in 1..(Len(q) - 1) : i + 1 \in 1..Len(q) /\ Tail(q)[i] = q[i + 1] /\ i + 1 # 1
  BY <1>1, <1>2
<1>4. Once(Tail(q), x)
  <2>1. ASSUME NEW i \in 1..(Len(q) - 1), NEW j \in 1..(Len(q) - 1), Tail(q)[i] = x, Tail(q)[j] = x
        PROVE  i = j
    <3>1. i + 1 = j + 1
      BY <1>2, <1>3, <2>1 DEF Once
    <3>2. QED
      BY <1>2, <3>1
  <2>2. QED
    BY <1>2, <2>1 DEF Once
<1>5. ASSUME x = Head(q), Contains(Tail(q), x)
      PROVE  FALSE
  <2>1. PICK i \in 1..(Len(q) - 1) : Tail(q)[i] = x
    BY <1>2, <1>5 DEF Contains
  <2>2. i + 1 \in 1..Len(q) /\ q[i + 1] = x /\ q[1] = x /\ 1 \in 1..Len(q) /\ i + 1 # 1
    BY <1>1, <1>2, <1>3, <1>5, <2>1
  <2>3. QED
    BY <1>2, <2>2 DEF Once
<1>6. QED
  BY <1>4, <1>5

-----------------------------------------------------------------------------
(* Who changes what.                                                         *)
LEMMA ThreadMoves ==
    ASSUME [Next]_vars
    PROVE  \/ UNCHANGED <<threadVars, historyVars>>
           \/ CreateRow \/ CreateSession
           \/ \E a \in Actors : LoadSession(a)
           \/ \E c \in Conns : CloseIfIdle(c)
           \/ \E s \in Sessions : StoreRun(s) \/ DropFromCache(s)
<1> USE DEF threadVars, sessionVars, historyVars
<1>1. CASE UNCHANGED vars
  BY <1>1 DEF vars
<1>2. ASSUME NEW a \in Actors, LoadStep(a) \/ Announce(a)
      PROVE  LoadSession(a) \/ UNCHANGED <<threadVars, historyVars>>
  BY <1>2 DEF LoadStep, Lookup, ReadStore, Announce
<1>3. ASSUME NEW c \in Conns, ConnStep(c) \/ UpgradeFails(c) \/ Disconnect(c)
      PROVE  CloseIfIdle(c) \/ UNCHANGED <<threadVars, historyVars>>
  BY <1>3 DEF ConnStep, Register, TellRole, HearController, LookIfIdle, UpgradeFails, Disconnect
<1>4. ASSUME NEW r \in Requests, RequestStep(r)
      PROVE  UNCHANGED <<threadVars, historyVars>>
  BY <1>4 DEF RequestStep, Claim, Release, TakeControl, Reserve, AcceptRun, DropReservation,
     CommitRun, TakePause, ControlForAnswer, Answer
<1>5. ASSUME NEW s \in Sessions, CoreStep(s) \/ ConsumerStep(s) \/ AskPause(s) \/ EndTool(s)
      PROVE  StoreRun(s) \/ DropFromCache(s) \/ UNCHANGED <<threadVars, historyVars>>
  BY <1>5 DEF CoreStep, ConsumerStep, LoopTop, LoopWoken, FinishRun, Shutdown, AskPause, EndTool,
     ConsumeIdle, ReclaimIdle, ConsumeEvent, ConsumeClosed
<1>6. QED
  BY <1>1, <1>2, <1>3, <1>4, <1>5 DEF Next

(* A connection or a request goes to a place, the others stay where they    *)
(* are.                                                                      *)
LEMMA GoToMoves ==
    ASSUME SessionTypeOK, NEW a \in Actors, NEW place \in Places, GoTo(a, place), a \in Participants
    PROVE  /\ actor' = [actor EXCEPT ![a] = actor'[a]]
           /\ actor'[a] \in [at : Places, session : 0..MaxSessions, read : SUBSET Requests, age : 0..MaxSessions]
           /\ actor'[a].at = place
           /\ place # "over" => actor'[a] = [actor[a] EXCEPT !.at = place]
           /\ place = "over" => actor'[a].session = NoSession
<1>1. actor[a] \in [at : Places, session : 0..MaxSessions, read : SUBSET Requests, age : 0..MaxSessions]
      /\ actor \in [Actors -> [at : Places, session : 0..MaxSessions, read : SUBSET Requests, age : 0..MaxSessions]]
  BY DEF SessionTypeOK, ActorTyped
<1>2. CASE place = "over"
  <2>1. actor' = [actor EXCEPT ![a] = Absent("over")]
    BY <1>2 DEF GoTo
  <2>2. actor'[a] = [at |-> "over", session |-> 0, read |-> {}, age |-> 0]
    BY <1>1, <2>1 DEF Absent, NoSession
  <2>3. QED
    BY <1>1, <1>2, <2>1, <2>2, SessionAssumption DEF Places, NoSession
<1>3. CASE place # "over"
  <2>1. actor' = [actor EXCEPT ![a] = [actor[a] EXCEPT !.at = place]]
    BY <1>3 DEF GoTo
  <2>2. actor'[a] = [actor[a] EXCEPT !.at = place]
    BY <1>1, <2>1
  <2>3. QED
    BY <1>1, <1>3, <2>1, <2>2
<1>4. QED
  BY <1>2, <1>3

(* The session someone uses was built.                                      *)
LEMMA InSession ==
    ASSUME SessionTypeOK, NEW a \in Actors, actor[a].at \notin {"start", "missed", "read", "over"}
    PROVE  actor[a].session \in Sessions /\ actor[a].session <= built /\ a \in Participants
BY SessionAssumption DEF SessionTypeOK, ActorTyped, ThreadTyped, Sessions, NoSession

LEMMA ThreadTypedStep ==
    ASSUME SessionTypeOK, SlotInv, [Next]_vars
    PROVE  ThreadTyped'
<1> USE SessionAssumption DEF ThreadTyped, Sessions, NoSession
<1>0. ThreadTyped /\ built \in Nat /\ MaxSessions \in Nat
  BY DEF SessionTypeOK
<1>1. CASE UNCHANGED <<threadVars, historyVars>>
  BY <1>0, <1>1 DEF threadVars, historyVars
<1>2. CASE CreateRow
  BY <1>0, <1>2 DEF CreateRow, historyVars
<1>3. CASE CreateSession
  BY <1>0, <1>3 DEF CreateSession, BuildSession
<1>4. ASSUME NEW a \in Actors, LoadSession(a)
      PROVE  ThreadTyped'
  <2>1. CASE cache = NoSession
    BY <1>0, <1>4, <2>1 DEF LoadSession, BuildSession
  <2>2. CASE cache # NoSession
    BY <1>0, <1>4, <2>2 DEF LoadSession
  <2>3. QED
    BY <2>1, <2>2
<1>5. ASSUME NEW c \in Conns, CloseIfIdle(c)
      PROVE  ThreadTyped'
  BY <1>0, <1>5 DEF CloseIfIdle, historyVars
<1>6. ASSUME NEW s \in Sessions, StoreRun(s)
      PROVE  ThreadTyped'
  <2>1. core[s].slot \in Requests
    BY <1>6 DEF StoreRun, SlotInv
  <2>2. QED
    BY <1>0, <1>6, <2>1 DEF StoreRun, historyVars, Owner
<1>7. ASSUME NEW s \in Sessions, DropFromCache(s)
      PROVE  ThreadTyped'
  BY <1>0, <1>7 DEF DropFromCache, historyVars
<1>8. QED
  BY ThreadMoves, <1>1, <1>2, <1>3, <1>4, <1>5, <1>6, <1>7

(* The presence of a session is changed by one of its connections or        *)
(* requests, and keeps a connected controller.                              *)
Controlling(a, s) ==
    /\ a \in Participants /\ s = actor[a].session /\ s \in Sessions /\ s <= built /\ due[a] = NoSend
    /\ \E conns \in SUBSET (Conns \cap Participants), served \in BOOLEAN :
       \E controller \in {ClientOf(c) : c \in conns} \cup {Nobody} :
          Control(a, s, conns, controller, served)

LEMMA PresenceMoves ==
    ASSUME SessionTypeOK, [Next]_vars
    PROVE  \/ \E a \in Actors : Controlling(a, actor[a].session)
           \/ UNCHANGED <<presence, due>>
           \/ \E a \in Actors : Announce(a)
<1> USE DEF sessionVars, Actors
<1>0. /\ PresenceTyped /\ ControllerIsConnected
  BY DEF SessionTypeOK
<1>1. CASE UNCHANGED vars
  BY <1>1 DEF vars
<1>2. ASSUME NEW a \in Actors, LoadStep(a)
      PROVE  UNCHANGED <<presence, due>>
  BY <1>2 DEF LoadStep, Lookup, ReadStore, LoadSession
<1>3. ASSUME NEW c \in Conns, Register(c)
      PROVE  Controlling(c, actor[c].session)
  <2> DEFINE s == actor[c].session
  <2>1. s \in Sessions /\ s <= built /\ c \in Participants /\ due[c] = NoSend
    BY <1>3, InSession DEF Register, At
  <2>2. /\ presence[s].conns \cup {c} \in SUBSET (Conns \cap Participants)
        /\ presence[s].controller \in {ClientOf(d) : d \in presence[s].conns \cup {c}} \cup {Nobody}
    BY <1>0, <2>1 DEF PresenceTyped, ControllerIsConnected, Connected
  <2>3. QED
    BY <1>3, <2>1, <2>2 DEF Controlling, Register
<1>4. ASSUME NEW c \in Conns, Disconnect(c)
      PROVE  Controlling(c, actor[c].session)
  <2> DEFINE s == actor[c].session
             rest == presence[s].conns \ {c}
             clients == {ClientOf(d) : d \in rest}
  <2>1. s \in Sessions /\ s <= built /\ c \in Participants /\ due[c] = NoSend
    BY <1>4, InSession DEF Disconnect, At
  <2>2. /\ rest \in SUBSET (Conns \cap Participants)
        /\ presence[s].served \in BOOLEAN
    BY <1>0, <2>1 DEF PresenceTyped
  <2>3. PICK next \in IF presence[s].controller = ClientOf(c) /\ ClientOf(c) \notin clients
                      THEN OneOf(clients) ELSE {presence[s].controller} :
             Control(c, s, rest, next, presence[s].served)
    BY <1>4 DEF Disconnect
  <2>4. next \in clients \cup {Nobody}
    <3>1. CASE presence[s].controller = ClientOf(c) /\ ClientOf(c) \notin clients
      BY <2>3, <3>1 DEF OneOf
    <3>2. CASE ~(presence[s].controller = ClientOf(c) /\ ClientOf(c) \notin clients)
      <4>1. next = presence[s].controller
        BY <2>3, <3>2
      <4>2. presence[s].controller \in {ClientOf(d) : d \in presence[s].conns} \cup {Nobody}
        BY <1>0, <2>1 DEF ControllerIsConnected, Connected
      <4>3. QED
        BY <3>2, <4>1, <4>2
    <3>3. QED
      BY <3>1, <3>2
  <2>5. QED
    BY <2>1, <2>2, <2>3, <2>4 DEF Controlling
<1>5. ASSUME NEW r \in Requests, Claim(r)
      PROVE  Controlling(r, actor[r].session)
  <2> DEFINE s == actor[r].session
  <2>1. s \in Sessions /\ s <= built /\ r \in Participants /\ due[r] = NoSend
    BY <1>5, InSession DEF Claim, Asks, At
  <2>2. /\ presence[s].conns \in SUBSET (Conns \cap Participants) /\ presence[s].served \in BOOLEAN
        /\ presence[s].controller \in {ClientOf(d) : d \in presence[s].conns} \cup {Nobody}
    BY <1>0, <2>1 DEF PresenceTyped, ControllerIsConnected, Connected
  <2>3. QED
    BY <1>5, <2>1, <2>2 DEF Controlling, Claim, Connected
<1>6. ASSUME NEW r \in Requests, Release(r)
      PROVE  Controlling(r, actor[r].session)
  <2> DEFINE s == actor[r].session
  <2>1. s \in Sessions /\ s <= built /\ r \in Participants /\ due[r] = NoSend
    BY <1>6, InSession DEF Release, Asks, At
  <2>2. /\ presence[s].conns \in SUBSET (Conns \cap Participants) /\ presence[s].served \in BOOLEAN
        /\ presence[s].controller \in {ClientOf(d) : d \in presence[s].conns} \cup {Nobody}
    BY <1>0, <2>1 DEF PresenceTyped, ControllerIsConnected, Connected
  <2>3. QED
    BY <1>6, <2>1, <2>2 DEF Controlling, Release, Connected, OneOf
<1>7. ASSUME NEW r \in Requests, At(r, actor[r].at), actor[r].at \in {"found", "holds"},
             ClientOf(r) \in Connected(actor[r].session), Takeover(r, actor[r].session)
      PROVE  Controlling(r, actor[r].session)
  <2> DEFINE s == actor[r].session
  <2>1. s \in Sessions /\ s <= built /\ r \in Participants /\ due[r] = NoSend
    BY <1>7, InSession DEF At
  <2>2. /\ presence[s].conns \in SUBSET (Conns \cap Participants) /\ presence[s].served \in BOOLEAN
    BY <1>0, <2>1 DEF PresenceTyped
  <2>3. QED
    BY <1>7, <2>1, <2>2 DEF Controlling, Takeover, Connected
<1>8. ASSUME NEW r \in Requests, NEW kind, NEW next, TakeControl(r, kind, next)
      PROVE  Controlling(r, actor[r].session) \/ UNCHANGED <<presence, due>>
  BY <1>7, <1>8 DEF TakeControl, Asks, At
<1>9. ASSUME NEW r \in Requests, ControlForAnswer(r)
      PROVE  Controlling(r, actor[r].session) \/ UNCHANGED <<presence, due>>
  BY <1>7, <1>9 DEF ControlForAnswer, At
<1>10. ASSUME NEW r \in Requests, RequestStep(r)
       PROVE  Controlling(r, actor[r].session) \/ UNCHANGED <<presence, due>>
  BY <1>5, <1>6, <1>8, <1>9, <1>10 DEF RequestStep, Reserve, AcceptRun, DropReservation,
     CommitRun, TakePause, Answer
<1>11. ASSUME NEW c \in Conns, ConnStep(c) \/ UpgradeFails(c) \/ Disconnect(c)
       PROVE  Controlling(c, actor[c].session) \/ UNCHANGED <<presence, due>>
  BY <1>3, <1>4, <1>11 DEF ConnStep, TellRole, HearController, LookIfIdle, CloseIfIdle, UpgradeFails
<1>12. ASSUME NEW s \in Sessions, CoreStep(s) \/ ConsumerStep(s) \/ AskPause(s) \/ EndTool(s)
       PROVE  UNCHANGED <<presence, due>>
  BY <1>12 DEF CoreStep, ConsumerStep, LoopTop, LoopWoken, StoreRun, FinishRun, Shutdown, AskPause,
     EndTool, ConsumeIdle, ReclaimIdle, ConsumeEvent, ConsumeClosed, DropFromCache
<1>13. CreateRow \/ CreateSession => UNCHANGED <<presence, due>>
  BY DEF CreateRow, CreateSession
<1>14. QED
  BY <1>1, <1>2, <1>10, <1>11, <1>12, <1>13 DEF Next

LEMMA SceneStays ==
    ASSUME [Next]_vars
    PROVE  scene' = scene
BY ThreadMoves DEF threadVars, CreateRow, CreateSession, LoadSession, CloseIfIdle, StoreRun, DropFromCache

LEMMA ControlTyped ==
    ASSUME SessionTypeOK, scene' = scene, NEW a \in Actors, Controlling(a, actor[a].session)
    PROVE  PresenceTyped' /\ ControllerIsConnected' /\ DueTyped'
<1> DEFINE s == actor[a].session
<1>1. PICK conns \in SUBSET (Conns \cap Participants), served \in BOOLEAN :
      \E controller \in {ClientOf(c) : c \in conns} \cup {Nobody} :
          Control(a, s, conns, controller, served)
  BY DEF Controlling
<1>2. PICK controller \in {ClientOf(c) : c \in conns} \cup {Nobody} : Control(a, s, conns, controller, served)
  BY <1>1
<1>3. Participants' = Participants /\ Clients' = Clients /\ s \in Sessions /\ a \in Participants
  BY DEF Participants, Clients, ClientOf, Controlling
<1>4. controller \in Clients
  BY <1>2 DEF Clients
<1>5. /\ presence' = [presence EXCEPT ![s] = [conns |-> conns, controller |-> controller, served |-> served]]
      /\ due' = [due EXCEPT ![a] = IF controller = presence[s].controller THEN NoSend
                                     ELSE [session |-> s, controller |-> controller]]
  BY <1>2 DEF Control
<1>6. PresenceTyped'
  BY <1>3, <1>4, <1>5 DEF SessionTypeOK, PresenceTyped
<1>7. ControllerIsConnected'
  <2>1. ASSUME NEW t \in Sessions
        PROVE  (presence[t].controller \in Connected(t) \cup {Nobody})'
    BY <1>2, <1>5, <2>1 DEF SessionTypeOK, PresenceTyped, ControllerIsConnected, Connected, ClientOf
  <2>2. QED
    BY <2>1 DEF ControllerIsConnected
<1>8. DueTyped'
  <2>1. NoSend \in [session : 0..MaxSessions, controller : Clients]
    BY SessionAssumption DEF NoSend, NoSession, Clients
  <2>2. [session |-> s, controller |-> controller] \in [session : 0..MaxSessions, controller : Clients]
    BY <1>3, <1>4 DEF Sessions
  <2>3. QED
    BY <1>3, <1>5, <2>1, <2>2 DEF SessionTypeOK, DueTyped
<1>9. QED
  BY <1>6, <1>7, <1>8

LEMMA PresenceTypedStep ==
    ASSUME SessionTypeOK, [Next]_vars
    PROVE  PresenceTyped' /\ ControllerIsConnected' /\ DueTyped'
<1>0. scene' = scene
  BY SceneStays
<1>1. ASSUME presence' = presence
      PROVE  PresenceTyped' /\ ControllerIsConnected'
  BY <1>0, <1>1 DEF SessionTypeOK, PresenceTyped, ControllerIsConnected, Connected, Participants, Clients, ClientOf
<1>2. CASE UNCHANGED <<presence, due>>
  BY <1>0, <1>1, <1>2 DEF SessionTypeOK, DueTyped, Clients, Participants, ClientOf
<1>3. ASSUME NEW a \in Actors, Announce(a)
      PROVE  PresenceTyped' /\ ControllerIsConnected' /\ DueTyped'
  <2>1. NoSend \in [session : 0..MaxSessions, controller : Clients]
    BY SessionAssumption DEF NoSend, NoSession, Clients
  <2>2. presence' = presence /\ due' = [due EXCEPT ![a] = NoSend] /\ Clients' = Clients
    BY <1>0, <1>3 DEF Announce, sessionVars, Clients, Participants, ClientOf
  <2>3. QED
    BY <1>1, <2>1, <2>2 DEF SessionTypeOK, DueTyped
<1>4. QED
  BY PresenceMoves, ControlTyped, <1>0, <1>2, <1>3

LEMMA InstanceMoves ==
    ASSUME [Next]_vars
    PROVE  \/ UNCHANGED <<core, consumer>>
           \/ CreateSession
           \/ \E a \in Actors : LoadSession(a)
           \/ \E c \in Conns : CloseIfIdle(c)
           \/ \E r \in Requests : \/ Reserve(r) \/ DropReservation(r) \/ CommitRun(r)
                                   \/ TakePause(r) \/ ControlForAnswer(r) \/ Answer(r)
           \/ \E s \in Sessions : CoreStep(s) \/ ConsumerStep(s) \/ AskPause(s) \/ EndTool(s)
<1> USE DEF sessionVars
<1>1. CASE UNCHANGED vars
  BY <1>1 DEF vars
<1>2. ASSUME NEW a \in Actors, LoadStep(a) \/ Announce(a)
      PROVE  LoadSession(a) \/ UNCHANGED <<core, consumer>>
  BY <1>2 DEF LoadStep, Lookup, ReadStore, Announce
<1>3. ASSUME NEW c \in Conns, ConnStep(c) \/ UpgradeFails(c) \/ Disconnect(c)
      PROVE  CloseIfIdle(c) \/ UNCHANGED <<core, consumer>>
  BY <1>3 DEF ConnStep, Register, TellRole, HearController, LookIfIdle, UpgradeFails, Disconnect
<1>4. ASSUME NEW r \in Requests, RequestStep(r)
      PROVE  \/ Reserve(r) \/ DropReservation(r) \/ CommitRun(r)
             \/ TakePause(r) \/ ControlForAnswer(r) \/ Answer(r)
             \/ UNCHANGED <<core, consumer>>
  BY <1>4 DEF RequestStep, Claim, Release, TakeControl, AcceptRun
<1>5. CreateRow => UNCHANGED <<core, consumer>>
  BY DEF CreateRow
<1>6. QED
  BY <1>1, <1>2, <1>3, <1>4, <1>5 DEF Next

LEMMA CoreTypedStep ==
    ASSUME SessionTypeOK, SlotInv, [Next]_vars
    PROVE  CoreTyped'
<1> USE DEF CoreTyped
<1>0. CoreTyped
  BY DEF SessionTypeOK
<1>1. ASSUME NEW s \in Sessions, NEW instance \in Instance, core' = [core EXCEPT ![s] = instance]
      PROVE  CoreTyped'
  BY <1>0, <1>1
<1>2. ASSUME NEW context \in SUBSET Requests, BuildSession(built + 1, context)
      PROVE  CoreTyped'
  <2> DEFINE s == built + 1
  <2>1. core' = [core EXCEPT ![s] = [core[s] EXCEPT !.life = "Active", !.memory = context]]
    BY <1>2 DEF BuildSession
  <2>2. CASE s \in Sessions
    <3>1. [core[s] EXCEPT !.life = "Active", !.memory = context] \in Instance
      BY <1>0, <2>2 DEF Instance
    <3>2. QED
      BY <1>1, <2>1, <2>2, <3>1
  <2>3. CASE s \notin Sessions
    BY <1>0, <2>1, <2>3
  <2>4. QED
    BY <2>2, <2>3
<1>3. ASSUME NEW a \in Actors, LoadSession(a)
      PROVE  CoreTyped'
  <2>1. actor[a].read \in SUBSET Requests
    BY DEF SessionTypeOK, ActorTyped
  <2>2. QED
    BY <1>0, <1>2, <1>3, <2>1 DEF LoadSession
<1>4. ASSUME NEW s \in Sessions, CloseIdle(s)
      PROVE  CoreTyped'
  <2>1. [core[s] EXCEPT !.life = "Closing", !.permit = TRUE] \in Instance
    BY <1>0 DEF Instance
  <2>2. QED
    BY <1>1, <1>4, <2>1 DEF CloseIdle
<1>5. ASSUME NEW c \in Conns, CloseIfIdle(c)
      PROVE  CoreTyped'
  <2>1. actor[c].session \in Sessions
    BY <1>5, InSession DEF CloseIfIdle, At, Actors
  <2>2. QED
    BY <1>0, <1>4, <1>5, <2>1 DEF CloseIfIdle
<1>6. ASSUME NEW r \in Requests, Reserve(r) \/ DropReservation(r) \/ CommitRun(r) \/ TakePause(r)
                                \/ ControlForAnswer(r) \/ Answer(r)
      PROVE  CoreTyped'
  <2> DEFINE s == actor[r].session
  <2>0. s \in Sessions /\ core[s] \in Instance
    BY <1>0, <1>6, InSession DEF Reserve, DropReservation, CommitRun, TakePause, ControlForAnswer,
       Answer, At, Asks, Actors
  <2>1. CASE Reserve(r)
    BY <1>0, <2>0, <2>1 DEF Reserve, Instance
  <2>2. CASE DropReservation(r)
    <3>1. [core[s] EXCEPT !.slot = "Free", !.permit = TRUE] \in Instance
      BY <2>0 DEF Instance
    <3>2. QED
      BY <1>1, <2>0, <2>2, <3>1 DEF DropReservation
  <2>3. CASE CommitRun(r)
    BY <1>0, <2>0, <2>3 DEF CommitRun, Instance
  <2>4. CASE Answer(r)
    BY <1>0, <2>0, <2>4 DEF Answer, Instance
  <2>5. CASE TakePause(r) \/ ControlForAnswer(r)
    BY <1>0, <2>5 DEF TakePause, ControlForAnswer
  <2>6. QED
    BY <1>6, <2>1, <2>2, <2>3, <2>4, <2>5
<1>7. ASSUME NEW s \in Sessions, CoreStep(s) \/ AskPause(s) \/ EndTool(s)
      PROVE  CoreTyped'
  <2>0. core[s] \in Instance
    BY <1>0
  <2>1. CASE LoopTop(s)
    BY <1>0, <2>0, <2>1 DEF LoopTop, Instance
  <2>2. CASE LoopWoken(s)
    <3>1. [core[s] EXCEPT !.loop = "top", !.permit = FALSE] \in Instance
      BY <2>0 DEF Instance
    <3>2. QED
      BY <1>1, <2>2, <3>1 DEF LoopWoken
  <2>3. CASE StoreRun(s)
    <3>1. core[s].memory \cup {Owner(s)} \in SUBSET Requests
      BY <2>0, <2>3 DEF StoreRun, SlotInv, Owner, Instance
    <3>2. [core[s] EXCEPT !.memory = core[s].memory \cup {Owner(s)}] \in Instance
      BY <2>0, <3>1 DEF Instance
    <3>3. QED
      BY <1>0, <2>3, <3>2 DEF StoreRun
  <2>4. CASE FinishRun(s)
    <3>1. [core[s] EXCEPT !.loop = "top", !.slot = "Free"] \in Instance
      BY <2>0 DEF Instance
    <3>2. QED
      BY <1>1, <2>4, <3>1 DEF FinishRun
  <2>5. CASE Shutdown(s)
    <3>1. [core[s] EXCEPT !.loop = "exited", !.life = "Closed", !.permit = FALSE, !.memory = {}] \in Instance
      BY <2>0 DEF Instance
    <3>2. QED
      BY <1>1, <2>5, <3>1 DEF Shutdown
  <2>6. CASE AskPause(s)
    BY <1>0, <2>0, <2>6 DEF AskPause, Instance
  <2>7. CASE EndTool(s)
    BY <1>0, <2>0, <2>7 DEF EndTool, Instance
  <2>8. QED
    BY <1>7, <2>1, <2>2, <2>3, <2>4, <2>5, <2>6, <2>7 DEF CoreStep
<1>8. ASSUME NEW s \in Sessions, ConsumerStep(s)
      PROVE  CoreTyped'
  BY <1>0, <1>4, <1>8 DEF ConsumerStep, ConsumeIdle, ReclaimIdle, ConsumeEvent, ConsumeClosed, DropFromCache
<1>9. {} \in SUBSET Requests
  OBVIOUS
<1>10. CASE CreateSession
  BY <1>2, <1>9, <1>10 DEF CreateSession
<1>11. QED
  BY <1>0, InstanceMoves, <1>3, <1>5, <1>6, <1>7, <1>8, <1>10

(* What the consumer has to hear after the core has sent something, and     *)
(* after it heard the first of it.                                           *)
LEMMA Sent ==
    ASSUME ConsumerTyped, NEW s \in Sessions, NEW output \in Outputs, Send(s, output)
    PROVE  /\ ConsumerTyped'
           /\ \A t \in Sessions : \A x : Has(t, x)' <=> Has(t, x) \/ (t = s /\ x = output)
           /\ \A x : HasOnce(s, x) /\ (x = output => ~Has(s, x)) => HasOnce(s, x)'
           /\ \A t \in Sessions :
                 /\ consumer'[t].at = consumer[t].at
                 /\ consumer'[t].pending = consumer[t].pending
                 /\ t # s => consumer'[t] = consumer[t]
<1> USE DEF ConsumerTyped, Outputs, Listener
<1>1. /\ consumer' = [consumer EXCEPT ![s].outputs = Append(consumer[s].outputs, output)]
      /\ consumer[s].outputs \in Seq(Outputs)
  BY DEF Send
<1>2. Append(consumer[s].outputs, output) \in Seq(Outputs)
  BY <1>1, AppendProperties
<1>3. ConsumerTyped'
  BY <1>1, <1>2
<1>4. /\ consumer'[s].outputs = Append(consumer[s].outputs, output)
      /\ \A t \in Sessions :
            /\ consumer'[t].at = consumer[t].at
            /\ consumer'[t].pending = consumer[t].pending
            /\ t # s => consumer'[t] = consumer[t]
  BY <1>1
<1>5. \A x : Contains(Append(consumer[s].outputs, output), x) <=> Contains(consumer[s].outputs, x) \/ x = output
  BY <1>1, ContainsAppend
<1>6. ASSUME NEW t \in Sessions, NEW x
      PROVE  Has(t, x)' <=> Has(t, x) \/ (t = s /\ x = output)
  <2>1. CASE t = s
    BY <1>4, <1>5, <2>1 DEF Has
  <2>2. CASE t # s
    <3>1. consumer'[t] = consumer[t]
      BY <1>4, <2>2
    <3>2. Has(t, x)' <=> Has(t, x)
      BY <3>1, Zenon DEF Has, Contains
    <3>3. QED
      BY <2>2, <3>2
  <2>3. QED
    BY <2>1, <2>2
<1>7. ASSUME NEW x, HasOnce(s, x), x = output => ~Has(s, x)
      PROVE  HasOnce(s, x)'
  <2>1. Once(Append(consumer[s].outputs, output), x)
    BY <1>1, <1>7, AppendOnce DEF HasOnce, Has
  <2>2. QED
    BY <1>4, <2>1 DEF HasOnce
<1>8. QED
  BY <1>3, <1>4, <1>6, <1>7

Heard(s) ==
    /\ consumer'[s].outputs = Tail(consumer[s].outputs)
    /\ \A t \in Sessions \ {s} : consumer'[t] = consumer[t]

LEMMA HeardOne ==
    ASSUME ConsumerTyped, NEW s \in Sessions, Listening(s), Heard(s)
    PROVE  /\ Output(s) \in Outputs /\ Tail(consumer[s].outputs) \in Seq(Outputs)
           /\ \A x : Has(s, x) <=> x = Output(s) \/ Has(s, x)'
           /\ \A x : HasOnce(s, x) => HasOnce(s, x)' /\ (x = Output(s) => ~Has(s, x)')
           /\ \A t \in Sessions \ {s} : \A x : Has(t, x)' <=> Has(t, x)
<1>1. consumer[s].outputs \in Seq(Outputs) /\ consumer[s].outputs # <<>>
  BY DEF ConsumerTyped, Listener, Listening
<1>2. \A x : /\ Contains(consumer[s].outputs, x) <=> x = Output(s) \/ Contains(Tail(consumer[s].outputs), x)
             /\ Output(s) \in Outputs /\ Tail(consumer[s].outputs) \in Seq(Outputs)
  BY <1>1, ContainsTail DEF Output
<1>3. ASSUME NEW x, HasOnce(s, x)
      PROVE  HasOnce(s, x)' /\ (x = Output(s) => ~Has(s, x)')
  <2>1. Once(Tail(consumer[s].outputs), x) /\ (x = Output(s) => ~Contains(Tail(consumer[s].outputs), x))
    BY <1>1, <1>3, TailOnce DEF HasOnce, Output
  <2>2. QED
    BY <2>1 DEF HasOnce, Has, Heard
<1>4. QED
  BY <1>2, <1>3 DEF Has, Heard

LEMMA ConsumerTypedStep ==
    ASSUME SessionTypeOK, [Next]_vars
    PROVE  ConsumerTyped'
<1> USE DEF ConsumerTyped
<1>0. ConsumerTyped
  BY DEF SessionTypeOK
<1>1. ASSUME NEW s \in Sessions, NEW listener \in Listener, consumer' = [consumer EXCEPT ![s] = listener]
      PROVE  ConsumerTyped'
  BY <1>0, <1>1
<1>2. ASSUME NEW s, NEW context, BuildSession(s, context)
      PROVE  ConsumerTyped'
  BY <1>0, <1>2 DEF BuildSession, Listener
<1>3. CASE CreateSession
  BY <1>2, <1>3 DEF CreateSession
<1>4. ASSUME NEW a \in Actors, LoadSession(a)
      PROVE  ConsumerTyped'
  BY <1>0, <1>2, <1>4 DEF LoadSession
<1>5. ASSUME NEW c \in Conns, CloseIfIdle(c)
      PROVE  ConsumerTyped'
  BY <1>0, <1>5 DEF CloseIfIdle
<1>6. ASSUME NEW r \in Requests, Reserve(r) \/ DropReservation(r) \/ CommitRun(r) \/ TakePause(r)
                                \/ ControlForAnswer(r) \/ Answer(r)
      PROVE  ConsumerTyped'
  BY <1>0, <1>6 DEF Reserve, DropReservation, CommitRun, TakePause, ControlForAnswer, Answer, Listener
<1>7. ASSUME NEW s \in Sessions, CoreStep(s) \/ AskPause(s) \/ EndTool(s)
      PROVE  ConsumerTyped'
  <2>1. ASSUME NEW output \in Outputs, Send(s, output)
        PROVE  ConsumerTyped'
    BY <1>0, <2>1, Sent
  <2>2. UNCHANGED consumer \/ \E output \in Outputs : Send(s, output)
    BY <1>7 DEF CoreStep, LoopTop, LoopWoken, StoreRun, FinishRun, Shutdown, AskPause, EndTool, Outputs
  <2>3. QED
    BY <1>0, <2>1, <2>2
<1>8. ASSUME NEW s \in Sessions, ConsumerStep(s)
      PROVE  ConsumerTyped'
  <2> DEFINE rest == Tail(consumer[s].outputs)
  <2>0. consumer[s] \in Listener
    BY <1>0
  <2>1. ASSUME Listening(s)
        PROVE  rest \in Seq(Outputs)
    <3>1. consumer[s].outputs \in Seq(Outputs) /\ consumer[s].outputs # <<>>
      BY <2>0, <2>1 DEF Listener, Listening
    <3>2. QED
      BY <3>1, HeadTailProperties
  <2>2. CASE ConsumeIdle(s)
    <3> DEFINE at == IF presence[s].conns = {} /\ presence[s].served THEN "reclaiming" ELSE "listening"
    <3>1. /\ rest \in Seq(Outputs) /\ at \in {"listening", "reclaiming"}
          /\ consumer' = [consumer EXCEPT ![s] = [consumer[s] EXCEPT !.outputs = rest, !.at = at]]
      BY <2>1, <2>2 DEF ConsumeIdle
    <3> HIDE DEF rest, at
    <3>2. [consumer[s] EXCEPT !.outputs = rest, !.at = at] \in Listener
      BY <2>0, <3>1 DEF Listener
    <3>3. QED
      BY <1>1, <3>1, <3>2
  <2>3. CASE ReclaimIdle(s)
    BY <1>0, <2>3 DEF ReclaimIdle, Listener
  <2>4. CASE ConsumeEvent(s)
    <3> DEFINE pending == Output(s) = "Pause"
    <3>1. rest \in Seq(Outputs) /\ pending \in BOOLEAN
      BY <2>1, <2>4 DEF ConsumeEvent
    <3>2. consumer' = [consumer EXCEPT ![s] = [consumer[s] EXCEPT !.outputs = rest, !.pending = pending]]
      BY <2>4 DEF ConsumeEvent
    <3> HIDE DEF rest, pending
    <3>3. [consumer[s] EXCEPT !.outputs = rest, !.pending = pending] \in Listener
      BY <2>0, <3>1 DEF Listener
    <3>4. QED
      BY <1>1, <3>2, <3>3
  <2>5. CASE ConsumeClosed(s)
    <3>1. rest \in Seq(Outputs) /\ consumer' = [consumer EXCEPT ![s] = [consumer[s] EXCEPT !.outputs = rest, !.at = "done"]]
      BY <2>1, <2>5 DEF ConsumeClosed
    <3> HIDE DEF rest
    <3>2. [consumer[s] EXCEPT !.outputs = rest, !.at = "done"] \in Listener
      BY <2>0, <3>1 DEF Listener
    <3>3. QED
      BY <1>1, <3>1, <3>2
  <2>6. CASE DropFromCache(s)
    BY <1>0, <2>6 DEF DropFromCache, Listener
  <2>7. QED
    BY <1>8, <2>2, <2>3, <2>4, <2>5, <2>6 DEF ConsumerStep
<1>9. QED
  BY <1>0, InstanceMoves, <1>3, <1>4, <1>5, <1>6, <1>7, <1>8

(* Someone who has a session goes on, or leaves it.                         *)
Goes(a) ==
    /\ actor[a].at \notin {"start", "missed", "read", "over"}
    /\ \E place \in Places \ {"start", "missed", "read", "found"} : GoTo(a, place)

LEMMA ActorMoves ==
    ASSUME SessionTypeOK, SlotInv, [Next]_vars
    PROVE  \/ UNCHANGED actor
           \/ \E a \in Actors : Lookup(a) \/ ReadStore(a) \/ LoadSession(a) \/ Goes(a)
<1> USE DEF sessionVars
<1>1. CASE UNCHANGED vars
  BY <1>1 DEF vars
<1>2. ASSUME NEW a \in Actors, LoadStep(a) \/ Announce(a)
      PROVE  UNCHANGED actor \/ Lookup(a) \/ ReadStore(a) \/ LoadSession(a)
  BY <1>2 DEF LoadStep, Announce
<1>3. ASSUME NEW c \in Conns, ConnStep(c) \/ UpgradeFails(c) \/ Disconnect(c)
      PROVE  UNCHANGED actor \/ Goes(c)
  BY <1>3 DEF ConnStep, Register, TellRole, HearController, LookIfIdle, CloseIfIdle, UpgradeFails,
     Disconnect, Goes, At, Places
<1>4. ASSUME NEW r \in Requests, RequestStep(r)
      PROVE  Goes(r)
  <2>1. CASE Claim(r) \/ Release(r) \/ TakePause(r)
    BY <2>1 DEF Claim, Release, TakePause, Goes, At, Asks, Places
  <2>2. CASE Reserve(r) \/ AcceptRun(r) \/ DropReservation(r) \/ CommitRun(r)
    BY <2>2 DEF Reserve, AcceptRun, DropReservation, CommitRun, Goes, At, Places
  <2>3. CASE ControlForAnswer(r) \/ Answer(r)
    BY <2>3 DEF ControlForAnswer, Answer, Goes, At, Places
  <2>4. CASE TakeControl(r, "takeover", "over") \/ TakeControl(r, "run", "control")
    BY <2>4 DEF TakeControl, Goes, At, Asks, Places
  <2>5. QED
    BY <1>4, <2>1, <2>2, <2>3, <2>4 DEF RequestStep
<1>5. ASSUME NEW s \in Sessions, CoreStep(s) \/ ConsumerStep(s) \/ AskPause(s) \/ EndTool(s)
      PROVE  UNCHANGED actor \/ \E a \in Actors : Goes(a)
  <2>1. CASE FinishRun(s)
    <3>1. Owner(s) \in Actors /\ actor[Owner(s)].at = "running" /\ GoTo(Owner(s), "over")
      BY <2>1 DEF FinishRun, SlotInv, Owner, Actors
    <3>2. QED
      BY <3>1 DEF Goes, Places
  <2>2. QED
    BY <1>5, <2>1 DEF CoreStep, ConsumerStep, LoopTop, LoopWoken, StoreRun, Shutdown, AskPause, EndTool,
       ConsumeIdle, ReclaimIdle, ConsumeEvent, ConsumeClosed, DropFromCache
<1>6. CreateRow \/ CreateSession => UNCHANGED actor
  BY DEF CreateRow, CreateSession
<1>7. QED
  BY <1>1, <1>2, <1>3, <1>4, <1>5, <1>6 DEF Next, Actors

LEMMA BuiltGrows ==
    ASSUME SessionTypeOK, [Next]_vars
    PROVE  /\ built' \in Nat /\ built <= built'
<1>1. built \in Nat /\ MaxSessions \in Nat
  BY SessionAssumption DEF SessionTypeOK, ThreadTyped
<1>2. built' = built \/ built' = built + 1
  <2>1. ASSUME NEW a \in Actors, LoadSession(a)
        PROVE  built' = built \/ built' = built + 1
    <3>1. CASE cache = NoSession
      BY <2>1, <3>1 DEF LoadSession, BuildSession
    <3>2. CASE cache # NoSession
      BY <2>1, <3>2 DEF LoadSession
    <3>3. QED
      BY <3>1, <3>2
  <2>2. QED
    BY ThreadMoves, <2>1 DEF threadVars, CreateRow, CreateSession, BuildSession, CloseIfIdle,
       StoreRun, DropFromCache
<1>3. QED
  BY <1>1, <1>2

Visitor == [at : Places, session : 0..MaxSessions, read : SUBSET Requests, age : 0..MaxSessions]

LEMMA ActorTypedStep ==
    ASSUME SessionTypeOK, SlotInv, [Next]_vars
    PROVE  ActorTyped'
<1>0. /\ ThreadTyped /\ ActorTyped /\ actor \in [Actors -> Visitor]
      /\ built \in Nat /\ cache \in Nat /\ MaxSessions \in Nat /\ built <= MaxSessions /\ cache <= built
  BY SessionAssumption DEF SessionTypeOK, ThreadTyped, ActorTyped, Visitor
<1>1. Participants' = Participants
  BY SceneStays DEF Participants
<1>2. built' \in Nat /\ built <= built'
  BY BuiltGrows
<1>3. CASE UNCHANGED actor
  BY <1>0, <1>1, <1>2, <1>3 DEF ActorTyped
<1>4. ASSUME NEW a \in Actors, a \in Participants, NEW visitor \in Visitor,
             actor' = [actor EXCEPT ![a] = visitor],
             visitor.at # "start", visitor.session <= built',
             visitor.at \notin {"start", "missed", "read", "over"} => visitor.session # NoSession
      PROVE  ActorTyped'
  <2>1. actor' \in [Actors -> Visitor]
    BY <1>0, <1>4
  <2>2. ASSUME NEW b \in Actors
        PROVE  /\ actor'[b].at # "start" => b \in Participants'
               /\ actor'[b].session <= built'
               /\ actor'[b].at \notin {"start", "missed", "read", "over"} => actor'[b].session # NoSession
    <3>1. CASE b = a
      BY <1>0, <1>1, <1>4, <3>1
    <3>2. CASE b # a
      <4>1. actor'[b] = actor[b] /\ actor[b] \in Visitor
        BY <1>0, <1>4, <3>2
      <4>2. actor[b].session \in Nat
        BY <4>1 DEF Visitor
      <4>3. QED
        BY <1>0, <1>1, <1>2, <4>1, <4>2 DEF ActorTyped
    <3>3. QED
      BY <3>1, <3>2
  <2>3. QED
    BY <2>1, <2>2 DEF ActorTyped, Visitor
<1>5. ASSUME NEW a \in Actors, Lookup(a)
      PROVE  ActorTyped'
  <2> DEFINE missed == [at |-> "missed", session |-> NoSession, read |-> {}, age |-> built]
             found  == [at |-> "found", session |-> cache, read |-> {}, age |-> 0]
  <2>1. missed \in Visitor /\ found \in Visitor
    BY <1>0 DEF Visitor, Places, NoSession
  <2>2. CASE cache = NoSession
    <3>1. actor' = [actor EXCEPT ![a] = missed]
      BY <1>5, <2>2 DEF Lookup
    <3>2. a \in Participants /\ missed.at = "missed" /\ missed.session <= built'
      BY <1>2, <1>5 DEF Lookup, NoSession
    <3> HIDE DEF missed
    <3>3. QED
      BY <1>4, <2>1, <3>1, <3>2
  <2>3. CASE cache # NoSession
    <3>1. actor' = [actor EXCEPT ![a] = found]
      BY <1>5, <2>3 DEF Lookup
    <3>2. cache <= built'
      BY <1>0, <1>2
    <3>3. QED
      BY <1>4, <1>5, <2>1, <2>3, <3>1, <3>2 DEF Lookup
  <2>4. QED
    BY <2>2, <2>3
<1>6. ASSUME NEW a \in Actors, ReadStore(a)
      PROVE  ActorTyped'
  <2> DEFINE visitor == [actor[a] EXCEPT !.at = "read", !.read = stored]
  <2>1. /\ actor[a] \in Visitor /\ actor[a].session \in Nat /\ actor[a].session <= built
        /\ a \in Participants /\ actor' = [actor EXCEPT ![a] = visitor]
    BY <1>0, <1>6 DEF ReadStore, ActorTyped, Visitor
  <2>2. stored \in SUBSET Requests
    BY <1>0 DEF ThreadTyped
  <2>3. visitor \in Visitor /\ visitor.at = "read" /\ visitor.session = actor[a].session
    BY <2>1, <2>2 DEF Visitor, Places
  <2>4. visitor.session <= built'
    BY <1>0, <1>2, <2>1, <2>3
  <2> HIDE DEF visitor
  <2>5. QED
    BY <1>4, <2>1, <2>3, <2>4
<1>7. ASSUME NEW a \in Actors, LoadSession(a)
      PROVE  ActorTyped'
  <2> DEFINE visitor == [at |-> "found", session |-> cache', read |-> {}, age |-> 0]
  <2>1. cache' \in 1..built' /\ built' <= MaxSessions
    BY <1>0, <1>7 DEF LoadSession, BuildSession, NoSession
  <2>2. a \in Participants /\ actor' = [actor EXCEPT ![a] = visitor]
    BY <1>0, <1>7 DEF LoadSession, ActorTyped
  <2>3. visitor \in Visitor
    BY <1>0, <1>2, <2>1 DEF Visitor, Places
  <2>4. visitor.at = "found" /\ visitor.session <= built' /\ visitor.session # NoSession
    BY <1>2, <2>1 DEF NoSession
  <2> HIDE DEF visitor
  <2>5. QED
    BY <1>4, <2>2, <2>3, <2>4
<1>8. ASSUME NEW a \in Actors, Goes(a)
      PROVE  ActorTyped'
  <2>1. PICK place \in Places \ {"start", "missed", "read", "found"} : GoTo(a, place)
    BY <1>8 DEF Goes
  <2>2. /\ actor[a].session \in Sessions /\ actor[a].session <= built /\ a \in Participants
        /\ actor[a] \in Visitor
    BY <1>0, <1>8, InSession DEF Goes
  <2>3. /\ actor' = [actor EXCEPT ![a] = actor'[a]] /\ actor'[a] \in Visitor /\ actor'[a].at = place
        /\ place # "over" => actor'[a] = [actor[a] EXCEPT !.at = place]
        /\ place = "over" => actor'[a].session = NoSession
    BY <2>1, <2>2, GoToMoves DEF Visitor
  <2>4. actor'[a].session <= built' /\ (place # "over" => actor'[a].session # NoSession)
    BY <1>0, <1>2, <2>2, <2>3 DEF Visitor, Sessions, NoSession
  <2>5. QED
    BY <1>4, <2>1, <2>2, <2>3, <2>4
<1>9. QED
  BY ActorMoves, <1>3, <1>5, <1>6, <1>7, <1>8

LEMMA LinkMoves ==
    ASSUME [Next]_vars, ~UNCHANGED link
    PROVE  \/ \E c \in Conns : HearController(c) \/ TellRole(c) \/ Disconnect(c)
           \/ \E a \in Actors : Announce(a)
<1>1. ~UNCHANGED vars /\ ~CreateRow /\ ~CreateSession /\ \A a \in Actors : ~LoadStep(a)
  BY DEF vars, CreateRow, CreateSession, LoadStep, Lookup, ReadStore, LoadSession
<1>2. \A r \in Requests : ~RequestStep(r)
  BY DEF RequestStep, Claim, Release, TakeControl, Reserve, AcceptRun, DropReservation,
     CommitRun, TakePause, ControlForAnswer, Answer
<1>3. \A s \in Sessions : ~CoreStep(s) /\ ~ConsumerStep(s) /\ ~AskPause(s) /\ ~EndTool(s)
  BY DEF CoreStep, ConsumerStep, LoopTop, LoopWoken, StoreRun, FinishRun, Shutdown, AskPause,
     EndTool, ConsumeIdle, ReclaimIdle, ConsumeEvent, ConsumeClosed, DropFromCache
<1>4. \A c \in Conns : ~UpgradeFails(c) /\ ~Register(c) /\ ~LookIfIdle(c) /\ ~CloseIfIdle(c)
  BY DEF UpgradeFails, Register, LookIfIdle, CloseIfIdle
<1>5. QED
  BY <1>1, <1>2, <1>3, <1>4 DEF Next, ConnStep

LEMMA LinkTypedStep ==
    ASSUME SessionTypeOK, [Next]_vars
    PROVE  LinkTyped'
<1> DEFINE Channel == [queue : Seq(Clients), role : BOOLEAN]
<1>0. link \in [Conns -> Channel] /\ Clients' = Clients /\ <<>> \in Seq(Clients)
  BY SceneStays, EmptySeq DEF SessionTypeOK, LinkTyped, Clients, Participants, ClientOf
<1>1. CASE UNCHANGED link
  BY <1>0, <1>1 DEF LinkTyped
<1>2. ASSUME NEW c \in Conns, NEW queue \in Seq(Clients), NEW role \in BOOLEAN,
             link' = [link EXCEPT ![c] = [queue |-> queue, role |-> role]]
      PROVE  LinkTyped'
  BY <1>0, <1>2 DEF LinkTyped
<1>3. ASSUME NEW c \in Conns, HearController(c)
      PROVE  LinkTyped'
  <2> DEFINE role == Controls(c, actor[c].session)
  <2>1. link[c].queue \in Seq(Clients) /\ link[c].queue # <<>>
    BY <1>0, <1>3 DEF HearController
  <2>2. Tail(link[c].queue) \in Seq(Clients)
    BY <2>1, HeadTailProperties
  <2>3. role \in BOOLEAN
    BY DEF Controls
  <2>4. QED
    BY <1>2, <1>3, <2>2, <2>3 DEF HearController
<1>4. ASSUME NEW c \in Conns, TellRole(c)
      PROVE  LinkTyped'
  <2> DEFINE role == Controls(c, actor[c].session)
  <2>1. role \in BOOLEAN
    BY DEF Controls
  <2>2. link' = [link EXCEPT ![c].role = role]
    BY <1>4 DEF TellRole
  <2> HIDE DEF role
  <2>3. QED
    BY <1>0, <2>1, <2>2 DEF LinkTyped
<1>5. ASSUME NEW c \in Conns, Disconnect(c)
      PROVE  LinkTyped'
  BY <1>0, <1>2, <1>5 DEF Disconnect
<1>6. ASSUME NEW a \in Actors, Announce(a)
      PROVE  LinkTyped'
  <2>1. due[a].controller \in Clients
    BY DEF SessionTypeOK, DueTyped
  <2>2. ASSUME NEW c \in Conns
        PROVE  [link[c] EXCEPT !.queue = Append(link[c].queue, due[a].controller)] \in Channel
    <3>1. Append(link[c].queue, due[a].controller) \in Seq(Clients)
      BY <1>0, <2>1, AppendProperties
    <3>2. QED
      BY <1>0, <3>1
  <2>3. link' = [c \in Conns |->
          IF actor[c].session = due[a].session /\ actor[c].at \in {"registered", "live"}
          THEN [link[c] EXCEPT !.queue = Append(link[c].queue, due[a].controller)] ELSE link[c]]
    BY <1>6 DEF Announce
  <2>4. QED
    BY <1>0, <2>2, <2>3 DEF LinkTyped
<1>7. QED
  BY <1>1, <1>3, <1>4, <1>5, <1>6, LinkMoves

LEMMA TypesStep ==
    ASSUME SessionTypeOK, SlotInv, [Next]_vars
    PROVE  SessionTypeOK'
BY ThreadTypedStep, PresenceTypedStep, CoreTypedStep, ConsumerTypedStep, ActorTypedStep, LinkTypedStep
   DEF SessionTypeOK

-----------------------------------------------------------------------------
(* A step builds the next session or goes on in one that was built.         *)
Builds ==
    LET s == built + 1
    IN /\ s \in Sessions /\ built' = s
       /\ core'[s].life = "Active" /\ consumer'[s].at = "listening"
       /\ core'[s].slot = core[s].slot /\ core'[s].loop = core[s].loop /\ core'[s].pause = core[s].pause
       /\ consumer'[s].outputs = consumer[s].outputs /\ consumer'[s].pending = consumer[s].pending
       /\ \A t \in Sessions \ {s} : core'[t] = core[t] /\ consumer'[t] = consumer[t]

GoesOn(s) ==
    /\ s <= built /\ built' = built /\ core'[s].life # "none"
    /\ \A t \in Sessions \ {s} : core'[t] = core[t] /\ consumer'[t] = consumer[t]

LEMMA OneSession ==
    ASSUME SessionTypeOK, Unbuilt, SlotInv, [Next]_vars
    PROVE  UNCHANGED <<built, core, consumer>> \/ Builds \/ \E s \in Sessions : GoesOn(s)
<1> USE DEF CoreTyped, ConsumerTyped
<1>0. /\ CoreTyped /\ ConsumerTyped /\ built \in Nat /\ MaxSessions \in Nat
      /\ \A s \in Sessions : s \in Nat
  BY SessionAssumption DEF SessionTypeOK, ThreadTyped, Sessions
<1>1. ASSUME NEW context, BuildSession(built + 1, context), built < MaxSessions
      PROVE  Builds
  <2> DEFINE s == built + 1
  <2>1. s \in Sessions /\ built' = s
    BY <1>0, <1>1 DEF Sessions, BuildSession
  <2>2. /\ core' = [core EXCEPT ![s] = [core[s] EXCEPT !.life = "Active", !.memory = context]]
        /\ consumer' = [consumer EXCEPT ![s].at = "listening"]
    BY <1>1 DEF BuildSession
  <2>3. core[s] \in Instance /\ consumer[s] \in Listener
    BY <1>0, <2>1
  <2>4. /\ core'[s] = [core[s] EXCEPT !.life = "Active", !.memory = context]
        /\ consumer'[s] = [consumer[s] EXCEPT !.at = "listening"]
        /\ \A t \in Sessions \ {s} : core'[t] = core[t] /\ consumer'[t] = consumer[t]
    BY <1>0, <2>1, <2>2
  <2> HIDE DEF s
  <2>5. /\ core'[s].life = "Active" /\ core'[s].slot = core[s].slot /\ core'[s].loop = core[s].loop
        /\ core'[s].pause = core[s].pause
        /\ consumer'[s].at = "listening" /\ consumer'[s].outputs = consumer[s].outputs
        /\ consumer'[s].pending = consumer[s].pending
    BY <2>3, <2>4 DEF Instance, Listener
  <2>6. QED
    BY <2>1, <2>4, <2>5 DEF Builds, s
<1>2. CASE CreateSession
  BY <1>1, <1>2 DEF CreateSession
<1>3. ASSUME NEW a \in Actors, LoadSession(a)
      PROVE  UNCHANGED <<built, core, consumer>> \/ Builds
  BY <1>1, <1>3 DEF LoadSession
<1>4. CASE CreateRow
  BY <1>4 DEF CreateRow, sessionVars
<1>5. ASSUME NEW s \in Sessions, s <= built, CloseIdle(s), built' = built, consumer' = consumer
      PROVE  GoesOn(s)
  BY <1>0, <1>5 DEF CloseIdle, GoesOn, Instance
<1>6. ASSUME NEW c \in Conns, CloseIfIdle(c)
      PROVE  UNCHANGED <<built, core, consumer>> \/ \E s \in Sessions : GoesOn(s)
  <2>1. actor[c].session \in Sessions /\ actor[c].session <= built
    BY <1>6, InSession DEF CloseIfIdle, At, Actors
  <2>2. QED
    BY <1>5, <1>6, <2>1 DEF CloseIfIdle
<1>7. ASSUME NEW r \in Requests, Reserve(r) \/ DropReservation(r) \/ CommitRun(r) \/ TakePause(r)
                                \/ ControlForAnswer(r) \/ Answer(r)
      PROVE  GoesOn(actor[r].session) /\ actor[r].session \in Sessions
  <2> DEFINE s == actor[r].session
  <2>0. s \in Sessions /\ s <= built
    BY <1>7, InSession DEF Reserve, DropReservation, CommitRun, TakePause, ControlForAnswer,
       Answer, At, Asks, Actors
  <2>1. core[s].life # "none" /\ core[s] \in Instance
    BY <1>0, <2>0 DEF Unbuilt
  <2>2. CASE Reserve(r) \/ CommitRun(r) \/ Answer(r)
    BY <1>0, <2>0, <2>1, <2>2 DEF Reserve, CommitRun, Answer, GoesOn, threadVars, Instance
  <2>3. CASE DropReservation(r)
    <3>1. core' = [core EXCEPT ![s] = [core[s] EXCEPT !.slot = "Free", !.permit = TRUE]]
      BY <2>3 DEF DropReservation
    <3>2. core'[s] = [core[s] EXCEPT !.slot = "Free", !.permit = TRUE]
          /\ \A t \in Sessions \ {s} : core'[t] = core[t]
      BY <1>0, <2>0, <3>1
    <3>3. core'[s].life # "none"
      BY <2>1, <3>2 DEF Instance
    <3>4. QED
      BY <2>0, <2>3, <3>2, <3>3 DEF DropReservation, GoesOn, threadVars
  <2>4. CASE TakePause(r) \/ ControlForAnswer(r)
    BY <1>0, <2>0, <2>1, <2>4 DEF TakePause, ControlForAnswer, GoesOn, threadVars
  <2>5. QED
    BY <1>7, <2>0, <2>2, <2>3, <2>4
<1>8. ASSUME NEW s \in Sessions, CoreStep(s) \/ AskPause(s) \/ EndTool(s)
      PROVE  GoesOn(s)
  <2>0. core[s] \in Instance
    BY <1>0
  <2>1. core[s].life # "none"
    BY <1>8 DEF CoreStep, LoopTop, LoopWoken, StoreRun, FinishRun, Shutdown, AskPause, EndTool, Unbuilt
  <2>2. s <= built
    BY <1>0, <2>1 DEF Unbuilt
  <2>3. \A t \in Sessions \ {s} : consumer'[t] = consumer[t]
    BY <1>0, <1>8 DEF CoreStep, LoopTop, LoopWoken, StoreRun, FinishRun, Shutdown, AskPause, EndTool, Send
  <2>4. ASSUME NEW instance, core' = [core EXCEPT ![s] = instance], instance.life # "none"
        PROVE  core'[s].life # "none" /\ \A t \in Sessions \ {s} : core'[t] = core[t]
    BY <1>0, <2>4
  <2>5. core'[s].life # "none" /\ \A t \in Sessions \ {s} : core'[t] = core[t]
    <3>1. CASE LoopTop(s) \/ StoreRun(s) \/ AskPause(s) \/ EndTool(s)
      BY <1>0, <2>0, <2>1, <3>1 DEF LoopTop, StoreRun, AskPause, EndTool, Instance
    <3>2. CASE LoopWoken(s)
      <4>1. core' = [core EXCEPT ![s] = [core[s] EXCEPT !.loop = "top", !.permit = FALSE]]
        BY <3>2 DEF LoopWoken
      <4>2. QED
        BY <2>0, <2>1, <2>4, <4>1 DEF Instance
    <3>3. CASE FinishRun(s)
      <4>1. core' = [core EXCEPT ![s] = [core[s] EXCEPT !.loop = "top", !.slot = "Free"]]
        BY <3>3 DEF FinishRun
      <4>2. QED
        BY <2>0, <2>1, <2>4, <4>1 DEF Instance
    <3>4. CASE Shutdown(s)
      <4>1. core' = [core EXCEPT ![s] = [core[s] EXCEPT !.loop = "exited", !.life = "Closed",
                                                        !.permit = FALSE, !.memory = {}]]
        BY <3>4 DEF Shutdown
      <4>2. QED
        BY <2>0, <2>1, <2>4, <4>1 DEF Instance
    <3>5. QED
      BY <1>8, <3>1, <3>2, <3>3, <3>4 DEF CoreStep
  <2>6. built' = built
    BY <1>8 DEF CoreStep, LoopTop, LoopWoken, StoreRun, FinishRun, Shutdown, AskPause, EndTool, threadVars
  <2>7. QED
    BY <2>2, <2>3, <2>5, <2>6 DEF GoesOn
<1>9. ASSUME NEW s \in Sessions, ConsumerStep(s)
      PROVE  GoesOn(s)
  <2>1. core[s].life # "none"
    BY <1>9 DEF ConsumerStep, ConsumeIdle, ReclaimIdle, ConsumeEvent, ConsumeClosed, DropFromCache,
       Listening, Unbuilt
  <2>2. s <= built
    BY <1>0, <2>1 DEF Unbuilt
  <2>3. CASE ReclaimIdle(s)
    BY <1>0, <2>1, <2>2, <2>3 DEF ReclaimIdle, CloseIdle, GoesOn, threadVars, Instance
  <2>4. CASE ConsumeIdle(s) \/ ConsumeEvent(s) \/ ConsumeClosed(s) \/ DropFromCache(s)
    BY <1>0, <2>1, <2>2, <2>4 DEF ConsumeIdle, ConsumeEvent, ConsumeClosed, DropFromCache, GoesOn, threadVars
  <2>5. QED
    BY <1>9, <2>3, <2>4 DEF ConsumerStep
<1>10. CASE UNCHANGED <<core, consumer>> /\ ~CreateSession /\ \A a \in Actors : ~LoadSession(a)
  BY <1>10, ThreadMoves DEF threadVars, CreateRow, CloseIfIdle, StoreRun, DropFromCache
<1>11. QED
  BY InstanceMoves, <1>2, <1>3, <1>6, <1>7, <1>8, <1>9, <1>10

-----------------------------------------------------------------------------
(* What a step makes of an instance, field by field.                        *)
Becomes(s, life, slot, loop, pause, memory) ==
    /\ core'[s].life = life /\ core'[s].slot = slot /\ core'[s].loop = loop
    /\ core'[s].pause = pause /\ core'[s].memory = memory

Closes(s) ==
    /\ Reclaimable(s) /\ (ReclaimIdle(s) \/ \E c \in Conns : CloseIfIdle(c) /\ cache = s)
    /\ Becomes(s, "Closing", core[s].slot, core[s].loop, core[s].pause, core[s].memory)

ForRequest(r, s) ==
    /\ s = actor[r].session
    /\ \/ /\ Reserve(r) /\ Reclaimable(s)
          /\ Becomes(s, core[s].life, r, core[s].loop, core[s].pause, core[s].memory)
       \/ /\ DropReservation(r)
          /\ Becomes(s, core[s].life, "Free", core[s].loop, core[s].pause, core[s].memory)
       \/ /\ CommitRun(r)
          /\ Becomes(s, core[s].life, core[s].slot, "run", core[s].pause, core[s].memory)
       \/ /\ Answer(r)
          /\ Becomes(s, core[s].life, core[s].slot, core[s].loop,
                     IF core[s].pause = "waiting" THEN "answered" ELSE core[s].pause, core[s].memory)

InLoop(s) ==
    \/ /\ LoopTop(s) \/ LoopWoken(s)
       /\ core[s].loop # "run" /\ core'[s].loop # "run"
       /\ Becomes(s, core[s].life, core[s].slot, core'[s].loop, core[s].pause, core[s].memory)
    \/ /\ AskPause(s)
       /\ Becomes(s, core[s].life, core[s].slot, core[s].loop, "waiting", core[s].memory)
    \/ /\ EndTool(s)
       /\ Becomes(s, core[s].life, core[s].slot, core[s].loop, "over", core[s].memory)
    \/ /\ StoreRun(s)
       /\ Becomes(s, core[s].life, core[s].slot, core[s].loop, core[s].pause, core[s].memory \cup {core[s].slot})
    \/ /\ FinishRun(s)
       /\ Becomes(s, core[s].life, "Free", "top", core[s].pause, core[s].memory)
    \/ /\ Shutdown(s)
       /\ Becomes(s, "Closed", core[s].slot, "exited", core[s].pause, {})

LEMMA CoreMoves ==
    ASSUME SessionTypeOK, Unbuilt, SlotInv, [Next]_vars, NEW s \in Sessions
    PROVE  \/ core'[s] = core[s]
           \/ Builds /\ s = built + 1
           \/ Closes(s)
           \/ \E r \in Requests : ForRequest(r, s)
           \/ InLoop(s)
<1> USE DEF CoreTyped
<1>0. CoreTyped /\ core[s] \in Instance
  BY DEF SessionTypeOK
<1>1. CASE UNCHANGED <<core, consumer>>
  BY <1>1
<1>2. ASSUME core'[s] # core[s], CreateSession \/ \E a \in Actors : LoadSession(a)
      PROVE  Builds /\ s = built + 1
  <2>1. UNCHANGED core \/ (built' = built + 1 /\ built < MaxSessions)
    BY <1>2 DEF CreateSession, LoadSession, BuildSession
  <2>2. built \in Nat
    BY DEF SessionTypeOK, ThreadTyped
  <2>3. Builds
    BY <1>2, <2>1, <2>2, OneSession DEF GoesOn
  <2>4. QED
    BY <1>2, <2>3 DEF Builds
<1>3. ASSUME CloseIdle(s), Reclaimable(s)
      PROVE  Becomes(s, "Closing", core[s].slot, core[s].loop, core[s].pause, core[s].memory)
  <2>1. core'[s] = [core[s] EXCEPT !.life = "Closing", !.permit = TRUE]
    BY <1>0, <1>3 DEF CloseIdle
  <2>2. QED
    BY <1>0, <2>1 DEF Becomes, Instance
<1>4. ASSUME NEW t \in Sessions, CloseIdle(t), t # s
      PROVE  core'[s] = core[s]
  BY <1>0, <1>4 DEF CloseIdle
<1>5. ASSUME NEW c \in Conns, CloseIfIdle(c)
      PROVE  core'[s] = core[s] \/ Closes(s)
  <2>1. actor[c].session \in Sessions
    BY <1>5, InSession DEF CloseIfIdle, At, Actors
  <2>2. CASE UNCHANGED core
    BY <2>2
  <2>3. CASE ~UNCHANGED core
    <3>1. CloseIdle(actor[c].session) /\ Reclaimable(actor[c].session) /\ cache = actor[c].session
      BY <1>5, <2>3 DEF CloseIfIdle
    <3>2. QED
      BY <1>3, <1>4, <1>5, <2>1, <3>1 DEF Closes
  <2>4. QED
    BY <2>2, <2>3
<1>6. ASSUME NEW r \in Requests, Reserve(r) \/ DropReservation(r) \/ CommitRun(r) \/ TakePause(r)
                                \/ ControlForAnswer(r) \/ Answer(r)
      PROVE  core'[s] = core[s] \/ ForRequest(r, s)
  <2>0. actor[r].session \in Sessions
    BY <1>6, InSession DEF Reserve, DropReservation, CommitRun, TakePause, ControlForAnswer, Answer, At, Asks, Actors
  <2>1. CASE s # actor[r].session
    BY <1>0, <1>6, <2>0, <2>1 DEF Reserve, DropReservation, CommitRun, TakePause, ControlForAnswer, Answer
  <2>2. CASE s = actor[r].session
    <3>1. CASE Reserve(r)
      <4>1. CASE Reclaimable(s)
        BY <1>0, <2>2, <3>1, <4>1 DEF Reserve, ForRequest, Becomes, Instance
      <4>2. CASE ~Reclaimable(s)
        BY <2>2, <3>1, <4>2 DEF Reserve
      <4>3. QED
        BY <4>1, <4>2
    <3>2. CASE DropReservation(r)
      <4>1. core'[s] = [core[s] EXCEPT !.slot = "Free", !.permit = TRUE]
        BY <1>0, <2>2, <3>2 DEF DropReservation
      <4>2. QED
        BY <1>0, <2>2, <3>2, <4>1 DEF ForRequest, Becomes, Instance
    <3>3. CASE CommitRun(r)
      BY <1>0, <2>2, <3>3 DEF CommitRun, ForRequest, Becomes, Instance
    <3>4. CASE Answer(r)
      BY <1>0, <2>2, <3>4 DEF Answer, ForRequest, Becomes, Instance
    <3>5. CASE TakePause(r) \/ ControlForAnswer(r)
      BY <3>5 DEF TakePause, ControlForAnswer
    <3>6. QED
      BY <1>6, <3>1, <3>2, <3>3, <3>4, <3>5
  <2>3. QED
    BY <2>1, <2>2
<1>7. ASSUME NEW t \in Sessions, t # s, CoreStep(t) \/ ConsumerStep(t) \/ AskPause(t) \/ EndTool(t)
      PROVE  core'[s] = core[s]
  <2>1. CASE ConsumerStep(t)
    BY <1>4, <1>7, <2>1 DEF ConsumerStep, ConsumeIdle, ReclaimIdle, ConsumeEvent, ConsumeClosed, DropFromCache
  <2>2. CASE CoreStep(t) \/ AskPause(t) \/ EndTool(t)
    BY <1>0, <1>7, <2>2 DEF CoreStep, LoopTop, LoopWoken, StoreRun, FinishRun, Shutdown, AskPause, EndTool
  <2>3. QED
    BY <1>7, <2>1, <2>2
<1>8. CASE ConsumerStep(s)
  BY <1>3, <1>8 DEF ConsumerStep, ConsumeIdle, ReclaimIdle, ConsumeEvent, ConsumeClosed, DropFromCache, Closes
<1>9. CASE CoreStep(s) \/ AskPause(s) \/ EndTool(s)
  <2>1. CASE LoopTop(s)
    BY <1>0, <2>1 DEF LoopTop, InLoop, Becomes, Instance
  <2>2. CASE LoopWoken(s)
    <3>1. core'[s] = [core[s] EXCEPT !.loop = "top", !.permit = FALSE]
      BY <1>0, <2>2 DEF LoopWoken
    <3>2. core[s].loop # "run"
      BY <2>2 DEF LoopWoken
    <3>3. QED
      BY <1>0, <2>2, <3>1, <3>2 DEF InLoop, Becomes, Instance
  <2>3. CASE AskPause(s)
    BY <1>0, <2>3 DEF AskPause, InLoop, Becomes, Instance
  <2>4. CASE EndTool(s)
    BY <1>0, <2>4 DEF EndTool, InLoop, Becomes, Instance
  <2>5. CASE StoreRun(s)
    BY <1>0, <2>5 DEF StoreRun, InLoop, Becomes, Instance, Owner
  <2>6. CASE FinishRun(s)
    <3>1. core'[s] = [core[s] EXCEPT !.loop = "top", !.slot = "Free"]
      BY <1>0, <2>6 DEF FinishRun
    <3>2. QED
      BY <1>0, <2>6, <3>1 DEF InLoop, Becomes, Instance
  <2>7. CASE Shutdown(s)
    <3>1. core'[s] = [core[s] EXCEPT !.loop = "exited", !.life = "Closed", !.permit = FALSE, !.memory = {}]
      BY <1>0, <2>7 DEF Shutdown
    <3>2. QED
      BY <1>0, <2>7, <3>1 DEF InLoop, Becomes, Instance
  <2>8. QED
    BY <1>9, <2>1, <2>2, <2>3, <2>4, <2>5, <2>6, <2>7 DEF CoreStep
<1>10. QED
  BY InstanceMoves, <1>1, <1>2, <1>5, <1>6, <1>7, <1>8, <1>9

(* What a step makes of a consumer: where it is, whether a pause is known,  *)
(* and what it has not heard yet.                                            *)
Waits(s, at, pending) == consumer'[s].at = at /\ consumer'[s].pending = pending
SameOutputs(s) ==
    /\ \A x : Has(s, x)' <=> Has(s, x)
    /\ \A x : HasOnce(s, x) => HasOnce(s, x)'
NewOutput(s, output) ==
    /\ \A x : Has(s, x)' <=> Has(s, x) \/ x = output
    /\ \A x : HasOnce(s, x) /\ (x = output => ~Has(s, x)) => HasOnce(s, x)'
OneLess(s) ==
    /\ \A x : Has(s, x) <=> x = Output(s) \/ Has(s, x)'
    /\ \A x : HasOnce(s, x) => HasOnce(s, x)' /\ (x = Output(s) => ~Has(s, x)')

FromLoop(s) ==
    /\ Waits(s, consumer[s].at, consumer[s].pending)
    /\ \/ LoopTop(s) /\ (SameOutputs(s) \/ NewOutput(s, "Idle"))
       \/ AskPause(s) /\ NewOutput(s, "Pause")
       \/ EndTool(s) /\ NewOutput(s, "ToolResult")
       \/ Shutdown(s) /\ NewOutput(s, "Closed")

ByItself(s) ==
    \/ /\ ConsumeIdle(s) /\ OneLess(s)
       /\ consumer'[s].at \in {"listening", "reclaiming"} /\ consumer'[s].pending = consumer[s].pending
    \/ ReclaimIdle(s) /\ SameOutputs(s) /\ Waits(s, "listening", consumer[s].pending)
    \/ ConsumeEvent(s) /\ OneLess(s) /\ Waits(s, consumer[s].at, Output(s) = "Pause")
    \/ ConsumeClosed(s) /\ OneLess(s) /\ Waits(s, "done", consumer[s].pending)
    \/ DropFromCache(s) /\ SameOutputs(s) /\ Waits(s, "dropped", consumer[s].pending)

ForAnswer(r, s) ==
    /\ s = actor[r].session /\ SameOutputs(s)
    /\ \/ TakePause(r) /\ Waits(s, consumer[s].at, FALSE)
       \/ ControlForAnswer(r) /\ ClientOf(r) \notin Connected(s) /\ Waits(s, consumer[s].at, TRUE)

LEMMA ConsumerMoves ==
    ASSUME SessionTypeOK, Unbuilt, SlotInv, [Next]_vars, NEW s \in Sessions
    PROVE  \/ consumer'[s] = consumer[s]
           \/ Builds /\ s = built + 1
           \/ FromLoop(s) \/ ByItself(s)
           \/ \E r \in Requests : ForAnswer(r, s)
<1> USE DEF ConsumerTyped
<1>0. ConsumerTyped /\ consumer[s] \in Listener
  BY DEF SessionTypeOK
<1>1. CASE UNCHANGED <<core, consumer>>
  BY <1>1
<1>2. ASSUME consumer'[s] # consumer[s], CreateSession \/ \E a \in Actors : LoadSession(a)
      PROVE  Builds /\ s = built + 1
  <2>1. UNCHANGED consumer \/ (built' = built + 1 /\ built < MaxSessions)
    BY <1>2 DEF CreateSession, LoadSession, BuildSession
  <2>2. built \in Nat
    BY DEF SessionTypeOK, ThreadTyped
  <2>3. Builds
    BY <1>2, <2>1, <2>2, OneSession DEF GoesOn
  <2>4. QED
    BY <1>2, <2>3 DEF Builds
<1>3. ASSUME consumer'[s].outputs = consumer[s].outputs
      PROVE  SameOutputs(s)
  BY <1>3, Zenon DEF SameOutputs, Has, HasOnce, Contains, Once
<1>4. ASSUME NEW c \in Conns, CloseIfIdle(c)
      PROVE  consumer'[s] = consumer[s]
  BY <1>4 DEF CloseIfIdle
<1>5. ASSUME NEW r \in Requests, Reserve(r) \/ DropReservation(r) \/ CommitRun(r) \/ TakePause(r)
                                \/ ControlForAnswer(r) \/ Answer(r)
      PROVE  consumer'[s] = consumer[s] \/ ForAnswer(r, s)
  <2>0. actor[r].session \in Sessions
    BY <1>5, InSession DEF Reserve, DropReservation, CommitRun, TakePause, ControlForAnswer, Answer, At, Asks, Actors
  <2>1. CASE s # actor[r].session
    BY <1>0, <1>5, <2>0, <2>1 DEF Reserve, DropReservation, CommitRun, TakePause, ControlForAnswer, Answer
  <2>2. CASE s = actor[r].session
    <3>1. CASE TakePause(r)
      <4>1. consumer'[s].outputs = consumer[s].outputs /\ Waits(s, consumer[s].at, FALSE)
        BY <1>0, <2>2, <3>1 DEF TakePause, Waits, Listener
      <4>2. QED
        BY <1>3, <2>2, <3>1, <4>1 DEF ForAnswer
    <3>2. CASE ControlForAnswer(r) /\ ClientOf(r) \notin Connected(s)
      <4>1. consumer'[s].outputs = consumer[s].outputs /\ Waits(s, consumer[s].at, TRUE)
        BY <1>0, <2>2, <3>2 DEF ControlForAnswer, Waits, Listener
      <4>2. QED
        BY <1>3, <2>2, <3>2, <4>1 DEF ForAnswer
    <3>3. QED
      BY <1>5, <2>2, <3>1, <3>2 DEF Reserve, DropReservation, CommitRun, ControlForAnswer, Answer
  <2>3. QED
    BY <2>1, <2>2
<1>6. ASSUME NEW t \in Sessions, t # s, CoreStep(t) \/ ConsumerStep(t) \/ AskPause(t) \/ EndTool(t)
      PROVE  consumer'[s] = consumer[s]
  <2>1. CASE ConsumerStep(t)
    BY <1>0, <1>6, <2>1 DEF ConsumerStep, ConsumeIdle, ReclaimIdle, ConsumeEvent, ConsumeClosed, DropFromCache
  <2>2. CASE CoreStep(t) \/ AskPause(t) \/ EndTool(t)
    BY <1>0, <1>6, <2>2 DEF CoreStep, LoopTop, LoopWoken, StoreRun, FinishRun, Shutdown, AskPause, EndTool, Send
  <2>3. QED
    BY <1>6, <2>1, <2>2
<1>7. ASSUME NEW output \in Outputs, Send(s, output)
      PROVE  NewOutput(s, output) /\ Waits(s, consumer[s].at, consumer[s].pending)
  BY <1>0, <1>7, Sent DEF NewOutput, Waits
<1>8. CASE CoreStep(s) \/ AskPause(s) \/ EndTool(s)
  <2>1. CASE LoopTop(s)
    <3>1. CASE UNCHANGED consumer
      BY <3>1
    <3>2. CASE Send(s, "Idle")
      BY <1>7, <2>1, <3>2 DEF Outputs, FromLoop
    <3>3. QED
      BY <2>1, <3>1, <3>2 DEF LoopTop
  <2>2. CASE AskPause(s)
    BY <1>7, <2>2 DEF AskPause, Outputs, FromLoop
  <2>3. CASE EndTool(s)
    BY <1>7, <2>3 DEF EndTool, Outputs, FromLoop
  <2>4. CASE Shutdown(s)
    BY <1>7, <2>4 DEF Shutdown, Outputs, FromLoop
  <2>5. QED
    BY <1>8, <2>1, <2>2, <2>3, <2>4 DEF CoreStep, LoopWoken, StoreRun, FinishRun
<1>9. ASSUME Listening(s), consumer'[s].outputs = Tail(consumer[s].outputs),
             \A t \in Sessions \ {s} : consumer'[t] = consumer[t]
      PROVE  OneLess(s)
  BY <1>0, <1>9, HeardOne DEF OneLess, Heard
<1>10. CASE ConsumerStep(s)
  <2> DEFINE rest == Tail(consumer[s].outputs)
  <2>1. CASE ConsumeIdle(s)
    <3> DEFINE at == IF presence[s].conns = {} /\ presence[s].served THEN "reclaiming" ELSE "listening"
    <3>1. consumer' = [consumer EXCEPT ![s] = [consumer[s] EXCEPT !.outputs = rest, !.at = at]]
          /\ at \in {"listening", "reclaiming"}
      BY <2>1 DEF ConsumeIdle
    <3> HIDE DEF rest, at
    <3>2. /\ consumer'[s].outputs = rest /\ consumer'[s].pending = consumer[s].pending
          /\ consumer'[s].at = at /\ \A t \in Sessions \ {s} : consumer'[t] = consumer[t]
      BY <1>0, <3>1 DEF Listener
    <3>3. QED
      BY <1>9, <2>1, <3>1, <3>2 DEF ConsumeIdle, ByItself, rest
  <2>2. CASE ReclaimIdle(s)
    <3>1. consumer'[s].outputs = consumer[s].outputs /\ Waits(s, "listening", consumer[s].pending)
      BY <1>0, <2>2 DEF ReclaimIdle, Waits, Listener
    <3>2. QED
      BY <1>3, <2>2, <3>1 DEF ByItself
  <2>3. CASE ConsumeEvent(s)
    <3> DEFINE pending == Output(s) = "Pause"
    <3>1. consumer' = [consumer EXCEPT ![s] = [consumer[s] EXCEPT !.outputs = rest, !.pending = pending]]
      BY <2>3 DEF ConsumeEvent
    <3> HIDE DEF rest, pending
    <3>2. /\ consumer'[s].outputs = rest /\ Waits(s, consumer[s].at, pending)
          /\ \A t \in Sessions \ {s} : consumer'[t] = consumer[t]
      BY <1>0, <3>1 DEF Listener, Waits
    <3>3. QED
      BY <1>9, <2>3, <3>2 DEF ConsumeEvent, ByItself, rest, pending
  <2>4. CASE ConsumeClosed(s)
    <3>1. consumer' = [consumer EXCEPT ![s] = [consumer[s] EXCEPT !.outputs = rest, !.at = "done"]]
      BY <2>4 DEF ConsumeClosed
    <3> HIDE DEF rest
    <3>2. /\ consumer'[s].outputs = rest /\ Waits(s, "done", consumer[s].pending)
          /\ \A t \in Sessions \ {s} : consumer'[t] = consumer[t]
      BY <1>0, <3>1 DEF Listener, Waits
    <3>3. QED
      BY <1>9, <2>4, <3>2 DEF ConsumeClosed, ByItself, rest
  <2>5. CASE DropFromCache(s)
    <3>1. consumer'[s].outputs = consumer[s].outputs /\ Waits(s, "dropped", consumer[s].pending)
      BY <1>0, <2>5 DEF DropFromCache, Waits, Listener
    <3>2. QED
      BY <1>3, <2>5, <3>1 DEF ByItself
  <2>6. QED
    BY <1>10, <2>1, <2>2, <2>3, <2>4, <2>5 DEF ConsumerStep
<1>11. QED
  BY InstanceMoves, <1>1, <1>2, <1>4, <1>5, <1>6, <1>8, <1>10

-----------------------------------------------------------------------------
(* The parts of the invariant.                                               *)
LEMMA EmptyHasNone ==
    ASSUME NEW s \in Sessions, consumer[s].outputs = <<>>, NEW x
    PROVE  ~Has(s, x)
BY DEF Has, Contains

LEMMA UnbuiltStep ==
    ASSUME SessionTypeOK, Unbuilt, SlotInv, [Next]_vars
    PROVE  Unbuilt'
<1>0. /\ built \in Nat /\ \A s \in Sessions : s \in Nat
      /\ built' \in Nat
  BY BuiltGrows DEF SessionTypeOK, ThreadTyped, Sessions
<1>1. ASSUME NEW s \in Sessions
      PROVE  core'[s].life = "none" <=> s > built'
  BY <1>0, <1>1, OneSession DEF Builds, GoesOn, Unbuilt
<1>2. ASSUME NEW s \in Sessions, core'[s].life = "none"
      PROVE  /\ core'[s] = core[s] /\ consumer'[s] = consumer[s] /\ s > built
             /\ presence'[s].conns = presence[s].conns
  <2>1. s > built' /\ s > built
    BY <1>0, <1>1, <1>2, BuiltGrows
  <2>2. core'[s] = core[s] /\ consumer'[s] = consumer[s]
    BY <1>0, <1>2, <2>1, OneSession DEF Builds, GoesOn
  <2>3. ASSUME NEW a \in Actors, Controlling(a, actor[a].session)
        PROVE  presence'[s] = presence[s]
    BY <1>0, <2>1, <2>3 DEF Controlling, Control, SessionTypeOK, PresenceTyped
  <2>4. presence'[s] = presence[s]
    BY <2>3, PresenceMoves DEF Announce, sessionVars
  <2>5. QED
    BY <2>1, <2>2, <2>4
<1>3. QED
  BY <1>0, <1>1, <1>2 DEF Unbuilt

LEMMA AnnouncedStep ==
    ASSUME SessionTypeOK, Unbuilt, SlotInv, Announced, [Next]_vars
    PROVE  Announced'
<1> SUFFICES ASSUME NEW s \in Sessions, Has(s, "Closed")' \/ consumer'[s].at \in {"done", "dropped"}
             PROVE  core'[s].life = "Closed"
  BY DEF Announced
<1>1. CASE Builds /\ s = built + 1
  <2>1. consumer'[s].outputs = <<>> /\ consumer'[s].at = "listening"
    BY <1>1 DEF Builds, Unbuilt, SessionTypeOK, ThreadTyped
  <2>2. ~Has(s, "Closed")'
    BY <2>1 DEF Has, Contains
  <2>3. QED
    BY <2>1, <2>2
<1>2. core[s].life = "Closed" => core'[s].life = "Closed" \/ (Builds /\ s = built + 1)
  BY CoreMoves DEF Closes, ForRequest, InLoop, Becomes, Reclaimable
<1>3. ASSUME consumer'[s] = consumer[s]
      PROVE  Has(s, "Closed") \/ consumer[s].at \in {"done", "dropped"}
  BY <1>3 DEF Has, Contains
<1>4. CASE Shutdown(s)
  <2>1. core[s] \in Instance /\ core \in [Sessions -> Instance]
    BY DEF SessionTypeOK, CoreTyped
  <2>2. core' = [core EXCEPT ![s] = [core[s] EXCEPT !.loop = "exited", !.life = "Closed",
                                                    !.permit = FALSE, !.memory = {}]]
    BY <1>4 DEF Shutdown
  <2>3. core'[s] = [core[s] EXCEPT !.loop = "exited", !.life = "Closed", !.permit = FALSE, !.memory = {}]
    BY <2>1, <2>2
  <2>4. [core[s] EXCEPT !.loop = "exited", !.life = "Closed", !.permit = FALSE, !.memory = {}].life = "Closed"
    BY <2>1 DEF Instance
  <2>5. QED
    BY <2>3, <2>4
<1>5. ASSUME FromLoop(s), ~Shutdown(s)
      PROVE  Has(s, "Closed") \/ consumer[s].at \in {"done", "dropped"}
  BY <1>5 DEF FromLoop, Waits, SameOutputs, NewOutput
<1>6. ASSUME ByItself(s)
      PROVE  Has(s, "Closed") \/ consumer[s].at \in {"done", "dropped"}
  BY <1>6 DEF ByItself, Waits, SameOutputs, OneLess, ConsumeClosed, DropFromCache
<1>7. ASSUME NEW r \in Requests, ForAnswer(r, s)
      PROVE  Has(s, "Closed") \/ consumer[s].at \in {"done", "dropped"}
  BY <1>7 DEF ForAnswer, Waits, SameOutputs
<1>8. QED
  BY ConsumerMoves, <1>1, <1>2, <1>3, <1>4, <1>5, <1>6, <1>7 DEF Announced

(* Only its own steps move a connection; a request is also moved by the end *)
(* of the run it holds the slot for.                                         *)
LEMMA WhoMoves ==
    ASSUME SessionTypeOK, SlotInv, [Next]_vars, NEW b \in Actors, actor'[b] # actor[b]
    PROVE  \/ LoadStep(b)
           \/ b \in Conns /\ (ConnStep(b) \/ UpgradeFails(b) \/ Disconnect(b))
           \/ b \in Requests /\ RequestStep(b)
           \/ \E s \in Sessions : FinishRun(s) /\ core[s].slot = b
<1>0. actor \in [Actors -> Visitor] /\ Conns \cap Requests = {}
  BY SessionAssumption DEF SessionTypeOK, ActorTyped, Visitor
<1>1. ASSUME NEW a, NEW place, GoTo(a, place)
      PROVE  a = b
  BY <1>0, <1>1 DEF GoTo
<1>2. ASSUME NEW a \in Actors, LoadStep(a) \/ Announce(a)
      PROVE  LoadStep(b)
  BY <1>0, <1>2 DEF LoadStep, Lookup, ReadStore, LoadSession, Announce
<1>3. ASSUME NEW c \in Conns, ConnStep(c) \/ UpgradeFails(c) \/ Disconnect(c)
      PROVE  b \in Conns /\ (ConnStep(b) \/ UpgradeFails(b) \/ Disconnect(b))
  <2>1. UNCHANGED actor \/ \E place : GoTo(c, place)
    BY <1>3 DEF ConnStep, Register, TellRole, HearController, LookIfIdle, CloseIfIdle, UpgradeFails, Disconnect
  <2>2. QED
    BY <1>1, <1>3, <2>1
<1>4. ASSUME NEW r \in Requests, RequestStep(r)
      PROVE  b \in Requests /\ RequestStep(b)
  <2>1. \E place : GoTo(r, place)
    BY <1>4 DEF RequestStep, Claim, Release, TakeControl, Reserve, AcceptRun, DropReservation,
       CommitRun, TakePause, ControlForAnswer, Answer
  <2>2. QED
    BY <1>1, <1>4, <2>1
<1>5. ASSUME NEW s \in Sessions, CoreStep(s) \/ ConsumerStep(s) \/ AskPause(s) \/ EndTool(s)
      PROVE  FinishRun(s) /\ core[s].slot = b
  <2>1. FinishRun(s)
    BY <1>5 DEF CoreStep, ConsumerStep, LoopTop, LoopWoken, StoreRun, Shutdown, AskPause, EndTool,
       ConsumeIdle, ReclaimIdle, ConsumeEvent, ConsumeClosed, DropFromCache, sessionVars
  <2>2. GoTo(core[s].slot, "over")
    BY <2>1 DEF FinishRun, Owner
  <2>3. QED
    BY <1>1, <2>1, <2>2
<1>6. QED
  BY <1>2, <1>3, <1>4, <1>5 DEF Next, vars, CreateRow, CreateSession

Holding == {"reserved", "accepted", "running"}

(* What moves a request to and from the places where it holds the slot.     *)
LEMMA HoldingMoves ==
    ASSUME SessionTypeOK, SlotInv, [Next]_vars, NEW r \in Requests, actor'[r] # actor[r]
    PROVE  \/ /\ Reserve(r) \/ AcceptRun(r) \/ CommitRun(r)
              /\ actor'[r].session = actor[r].session /\ actor[r].at # "running"
              /\ AcceptRun(r) => actor[r].at = "reserved"
              /\ CommitRun(r) => actor'[r].at = "running" /\ actor[r].at = "accepted"
              /\ Reserve(r) => Reclaimable(actor[r].session) /\ actor[r].at = "control"
           \/ /\ actor'[r].at \notin Holding
              /\ actor[r].at = "running" => \E s \in Sessions : FinishRun(s) /\ core[s].slot = r
<1>0. /\ actor \in [Actors -> Visitor] /\ r \in Actors /\ r \notin Conns
  BY SessionAssumption DEF SessionTypeOK, ActorTyped, Visitor, Actors
<1>1. CASE LoadStep(r)
  <2>1. CASE Lookup(r)
    BY <1>0, <2>1 DEF Lookup, Holding
  <2>2. CASE ReadStore(r)
    <3>1. actor'[r] = [actor[r] EXCEPT !.at = "read", !.read = stored]
      BY <1>0, <2>2 DEF ReadStore
    <3>2. actor'[r].at = "read"
      BY <1>0, <3>1 DEF Visitor
    <3>3. QED
      BY <2>2, <3>2 DEF ReadStore, Holding
  <2>3. CASE LoadSession(r)
    BY <1>0, <2>3 DEF LoadSession, Holding
  <2>4. QED
    BY <1>1, <2>1, <2>2, <2>3 DEF LoadStep
<1>2. ASSUME NEW place \in Places, GoTo(r, place), actor[r].at \notin {"start", "missed", "read", "over"}
      PROVE  /\ actor'[r].at = place
             /\ place # "over" => actor'[r].session = actor[r].session
  <2>1. r \in Participants
    BY <1>0, <1>2, InSession
  <2>2. /\ actor'[r].at = place
        /\ place # "over" => actor'[r] = [actor[r] EXCEPT !.at = place]
    BY <1>0, <1>2, <2>1, GoToMoves
  <2>3. QED
    BY <1>0, <2>2 DEF Visitor
<1>3. CASE RequestStep(r)
  <2>1. CASE Claim(r) \/ Release(r) \/ TakePause(r)
    BY <1>2, <2>1 DEF Claim, Release, TakePause, At, Asks, Places, Holding
  <2>2. CASE AcceptRun(r) \/ DropReservation(r) \/ CommitRun(r)
    <3>1. CASE AcceptRun(r)
      <4>1. GoTo(r, "accepted") /\ actor[r].at = "reserved"
        BY <3>1 DEF AcceptRun, At
      <4>2. actor'[r].session = actor[r].session
        BY <1>2, <4>1 DEF Places
      <4>3. ~CommitRun(r) /\ ~Reserve(r)
        BY <4>1 DEF CommitRun, Reserve, At
      <4>4. QED
        BY <3>1, <4>1, <4>2, <4>3
    <3>2. CASE DropReservation(r)
      <4>1. GoTo(r, "over") /\ actor[r].at = "reserved"
        BY <3>2 DEF DropReservation, At
      <4>2. QED
        BY <1>2, <4>1 DEF Places, Holding
    <3>3. CASE CommitRun(r)
      <4>1. GoTo(r, "running") /\ actor[r].at = "accepted"
        BY <3>3 DEF CommitRun, At
      <4>2. actor'[r].session = actor[r].session /\ actor'[r].at = "running"
        BY <1>2, <4>1 DEF Places
      <4>3. ~AcceptRun(r) /\ ~Reserve(r)
        BY <4>1 DEF AcceptRun, Reserve, At
      <4>4. QED
        BY <3>3, <4>1, <4>2, <4>3
    <3>4. QED
      BY <2>2, <3>1, <3>2, <3>3
  <2>3. CASE Reserve(r)
    <3>1. CASE Reclaimable(actor[r].session)
      <4>1. GoTo(r, "reserved") /\ actor[r].at = "control"
        BY <2>3, <3>1 DEF Reserve, At
      <4>2. actor'[r].session = actor[r].session
        BY <1>2, <4>1 DEF Places
      <4>3. ~AcceptRun(r) /\ ~CommitRun(r)
        BY <4>1 DEF AcceptRun, CommitRun, At
      <4>4. QED
        BY <2>3, <3>1, <4>1, <4>2, <4>3
    <3>2. CASE ~Reclaimable(actor[r].session)
      BY <1>2, <2>3, <3>2 DEF Reserve, At, Places, Holding
    <3>3. QED
      BY <3>1, <3>2
  <2>4. CASE ControlForAnswer(r) \/ Answer(r)
    BY <1>2, <2>4 DEF ControlForAnswer, Answer, At, Places, Holding
  <2>5. CASE TakeControl(r, "takeover", "over") \/ TakeControl(r, "run", "control")
    BY <1>2, <2>5 DEF TakeControl, At, Asks, Places, Holding
  <2>6. QED
    BY <1>3, <2>1, <2>2, <2>3, <2>4, <2>5 DEF RequestStep
<1>4. ASSUME NEW s \in Sessions, FinishRun(s), core[s].slot = r
      PROVE  actor'[r].at \notin Holding
  <2>1. actor[r].at = "running" /\ GoTo(r, "over")
    BY <1>4 DEF FinishRun, SlotInv, Owner
  <2>2. QED
    BY <1>2, <2>1 DEF Places, Holding
<1>5. QED
  BY <1>0, <1>1, <1>3, <1>4, WhoMoves

LEMMA SlotStep ==
    ASSUME SessionTypeOK, Unbuilt, SlotInv, [Next]_vars
    PROVE  SlotInv'
<1>0. "Free" \notin Requests
  BY SessionAssumption
<1>1. ASSUME NEW r \in Requests, actor'[r].at \in Holding
      PROVE  core'[actor'[r].session].slot = r /\ core'[actor'[r].session].life = "Active"
  <2> DEFINE s == actor[r].session
  <2>1. actor'[r].session = s /\ actor[r].at \in Holding \cup {"control"}
    BY <1>1, HoldingMoves DEF Holding
  <2>2. s \in Sessions /\ s <= built
    BY <2>1, InSession DEF Holding, Actors
  <2>3. CASE Reserve(r)
    <3>1. Reclaimable(s) /\ core' = [core EXCEPT ![s].slot = r]
      <4>1. actor'[r] # actor[r]
        BY <1>1, <2>3 DEF Reserve, At, Holding
      <4>2. QED
        BY <1>1, <2>3, <4>1, HoldingMoves DEF Reserve, AcceptRun, CommitRun, At
    <3>2. core[s] \in Instance /\ core \in [Sessions -> Instance]
      BY <2>2 DEF SessionTypeOK, CoreTyped
    <3>3. QED
      BY <2>1, <2>2, <3>1, <3>2 DEF Instance, Reclaimable
  <2>4. CASE ~Reserve(r)
    <3>1. actor[r].at \in Holding
      BY <1>1, <2>1, <2>4, HoldingMoves DEF Holding
    <3>2. core[s].slot = r /\ core[s].life = "Active"
      BY <3>1 DEF SlotInv, Holding
    <3>3. ~Reclaimable(s) /\ core[s].slot # "Free" /\ core[s].life # "none"
      BY <1>0, <3>2 DEF Reclaimable
    <3>4. ~(Builds /\ s = built + 1)
      BY <2>2 DEF SessionTypeOK, ThreadTyped
    <3>5. ASSUME NEW q \in Requests, ForRequest(q, s), DropReservation(q)
          PROVE  FALSE
      <4>1. q = r
        BY <3>2, <3>5 DEF ForRequest, DropReservation, At, SlotInv
      <4>2. actor'[r].at = "over"
        BY <3>5, <4>1, <2>2, InSession, GoToMoves DEF DropReservation, At, Places, Actors
      <4>3. QED
        BY <1>1, <4>2 DEF Holding
    <3>6. ~FinishRun(s)
      <4>1. ASSUME FinishRun(s)
            PROVE  actor'[r].at = "over"
        <5>1. GoTo(r, "over") /\ actor[r].at = "running"
          BY <2>2, <3>2, <4>1 DEF FinishRun, Owner, SlotInv
        <5>2. QED
          BY <5>1, InSession, GoToMoves DEF Places, Actors
      <4>2. QED
        BY <1>1, <4>1 DEF Holding
    <3>7. CASE core'[s] = core[s]
      BY <2>1, <3>2, <3>7
    <3>8. ASSUME NEW q \in Requests, ForRequest(q, s)
          PROVE  core'[s].slot = r /\ core'[s].life = "Active"
      BY <3>2, <3>3, <3>5, <3>8 DEF ForRequest, Becomes
    <3>9. CASE InLoop(s)
      <4>1. ~Shutdown(s)
        BY <3>3 DEF Shutdown
      <4>2. core'[s].life = core[s].life /\ core'[s].slot = core[s].slot
        BY <3>6, <3>9, <4>1, Zenon DEF InLoop, Becomes
      <4>3. QED
        BY <2>1, <3>2, <4>2
    <3>10. ~Closes(s)
      BY <3>3 DEF Closes
    <3>11. QED
      BY <2>1, <2>2, <3>4, <3>7, <3>8, <3>9, <3>10, CoreMoves
  <2>5. QED
    BY <2>3, <2>4
<1>2. ASSUME NEW s \in Sessions, core'[s].loop = "run"
      PROVE  /\ core'[s].life = "Active" /\ core'[s].slot \in Requests
             /\ actor'[core'[s].slot].at = "running" /\ actor'[core'[s].slot].session = s
  <2>1. CASE core[s].loop = "run"
    <3> DEFINE r == core[s].slot
    <3>1. /\ core[s].life = "Active" /\ r \in Requests
          /\ actor[r].at = "running" /\ actor[r].session = s
      BY <2>1 DEF SlotInv
    <3>2. s <= built
      BY <3>1, InSession DEF Actors
    <3>3. ~FinishRun(s)
      <4>1. ASSUME FinishRun(s)
            PROVE  core'[s].loop = "top"
        BY <4>1, CoreMoves, <2>1, <1>2, <3>1, <3>2, <1>0 DEF FinishRun, InLoop, Becomes, Builds, Closes, Reclaimable,
           ForRequest, CommitRun, SessionTypeOK, CoreTyped, Instance, Owner
      <4>2. QED
        BY <1>2, <4>1
    <3>4. actor'[r] = actor[r]
      <4>1. ASSUME NEW t \in Sessions, FinishRun(t), core[t].slot = r
            PROVE  FALSE
        <5>1. core[t].loop = "run"
          BY <4>1 DEF FinishRun
        <5>2. actor[r].session = t
          BY <4>1, <5>1 DEF SlotInv
        <5>3. QED
          BY <3>1, <3>3, <4>1, <5>2
      <4>2. QED
        BY <3>1, <4>1, HoldingMoves
    <3>5. core'[s].slot = r
      BY <1>1, <3>1, <3>4 DEF Holding
    <3>6. core'[s].life = "Active"
      BY <1>1, <3>1, <3>4 DEF Holding
    <3>7. QED
      BY <3>1, <3>4, <3>5, <3>6
  <2>2. CASE core[s].loop # "run"
    <3>1. PICK r \in Requests : CommitRun(r) /\ s = actor[r].session
      <4>1. ~(Builds /\ s = built + 1)
        BY <1>2, <2>2 DEF Builds
      <4>2. ~Closes(s) /\ ~InLoop(s) /\ core'[s] # core[s]
        BY <1>2, <2>2 DEF Closes, InLoop, Becomes
      <4>3. PICK r \in Requests : ForRequest(r, s)
        BY <4>1, <4>2, CoreMoves
      <4>4. CommitRun(r) /\ s = actor[r].session
        BY <1>2, <2>2, <4>3 DEF ForRequest, Becomes
      <4>5. QED
        BY <4>4
    <3>2. actor[r].at = "accepted" /\ GoTo(r, "running")
      BY <3>1 DEF CommitRun, At
    <3>3. actor'[r] = [actor[r] EXCEPT !.at = "running"]
      BY <3>2, InSession, GoToMoves DEF Places, Actors
    <3>4. actor[r] \in Visitor
      BY DEF SessionTypeOK, ActorTyped, Visitor, Actors
    <3>5. actor'[r].at = "running" /\ actor'[r].session = s
      BY <3>1, <3>3, <3>4 DEF Visitor
    <3>6. QED
      BY <1>1, <3>5 DEF Holding
  <2>3. QED
    BY <2>1, <2>2
<1>3. QED
  BY <1>1, <1>2 DEF SlotInv, Holding

-----------------------------------------------------------------------------
(* Connections and their roles.                                             *)
InPlace == {"registered", "live"}

LEMMA ConnMoves ==
    ASSUME SessionTypeOK, SlotInv, [Next]_vars, NEW c \in Conns, actor'[c] # actor[c]
    PROVE  \/ Register(c) /\ actor'[c].at = "registered" /\ actor'[c].session = actor[c].session
           \/ /\ TellRole(c) /\ actor[c].at = "registered" /\ actor'[c].at = "live"
              /\ actor'[c].session = actor[c].session
           \/ Disconnect(c) /\ actor'[c].at \notin InPlace
           \/ /\ actor[c].at \notin InPlace /\ actor'[c].at \notin InPlace
              /\ ~Register(c) /\ ~Disconnect(c)
<1>0. actor \in [Actors -> Visitor] /\ c \in Actors /\ c \notin Requests
  BY SessionAssumption DEF SessionTypeOK, ActorTyped, Visitor, Actors
<1>1. CASE LoadStep(c)
  <2>1. actor[c].at \in {"start", "missed", "read"}
    BY <1>1 DEF LoadStep, Lookup, ReadStore, LoadSession
  <2>2. ~Register(c) /\ ~Disconnect(c)
    BY <2>1 DEF Register, Disconnect, At
  <2>3. CASE Lookup(c)
    BY <1>0, <2>1, <2>2, <2>3 DEF Lookup, InPlace
  <2>4. CASE ReadStore(c)
    <3>1. actor'[c] = [actor[c] EXCEPT !.at = "read", !.read = stored]
      BY <1>0, <2>4 DEF ReadStore
    <3>2. actor'[c].at = "read"
      BY <1>0, <3>1 DEF Visitor
    <3>3. QED
      BY <2>1, <2>2, <3>2 DEF InPlace
  <2>5. CASE LoadSession(c)
    BY <1>0, <2>1, <2>2, <2>5 DEF LoadSession, InPlace
  <2>6. QED
    BY <1>1, <2>3, <2>4, <2>5 DEF LoadStep
<1>2. ASSUME NEW place \in Places, GoTo(c, place), actor[c].at \notin {"start", "missed", "read", "over"}
      PROVE  /\ actor'[c].at = place
             /\ place # "over" => actor'[c].session = actor[c].session
  <2>1. c \in Participants
    BY <1>0, <1>2, InSession
  <2>2. /\ actor'[c].at = place
        /\ place # "over" => actor'[c] = [actor[c] EXCEPT !.at = place]
    BY <1>0, <1>2, <2>1, GoToMoves
  <2>3. QED
    BY <1>0, <2>2 DEF Visitor
<1>3. CASE Register(c)
  <2>1. GoTo(c, "registered") /\ actor[c].at = "found"
    BY <1>3 DEF Register, At
  <2>2. QED
    BY <1>2, <1>3, <2>1 DEF Places
<1>4. CASE TellRole(c)
  <2>1. GoTo(c, "live") /\ actor[c].at = "registered"
    BY <1>4 DEF TellRole, At
  <2>2. QED
    BY <1>2, <1>4, <2>1 DEF Places
<1>5. CASE Disconnect(c)
  <2>1. GoTo(c, "left") /\ actor[c].at \in {"registered", "live"}
    BY <1>5 DEF Disconnect
  <2>2. QED
    BY <1>2, <1>5, <2>1 DEF Places, InPlace
<1>6. CASE LookIfIdle(c) \/ CloseIfIdle(c) \/ UpgradeFails(c)
  <2>1. PICK place \in {"closing", "over"} : GoTo(c, place)
    BY <1>6 DEF LookIfIdle, CloseIfIdle, UpgradeFails
  <2>2. actor[c].at \in {"left", "closing", "found"}
    BY <1>6 DEF LookIfIdle, CloseIfIdle, UpgradeFails, At
  <2>3. actor'[c].at = place
    BY <1>2, <2>1, <2>2 DEF Places
  <2>4. ~Register(c) /\ ~Disconnect(c)
    <3>1. CASE actor[c].at = "found"
      <4>1. actor'[c].at = "over"
        BY <1>2, <1>6, <3>1 DEF UpgradeFails, LookIfIdle, CloseIfIdle, At, Places
      <4>2. ~Register(c)
        BY <1>3, <1>2, <4>1, <3>1 DEF Register, Places
      <4>3. QED
        BY <3>1, <4>2 DEF Disconnect
    <3>2. CASE actor[c].at # "found"
      BY <2>2, <3>2 DEF Register, Disconnect, At
    <3>3. QED
      BY <3>1, <3>2
  <2>5. QED
    BY <2>1, <2>2, <2>3, <2>4 DEF InPlace
<1>7. \A s \in Sessions : ~(FinishRun(s) /\ core[s].slot = c)
  BY <1>0 DEF FinishRun, SlotInv
<1>8. QED
  BY <1>0, <1>1, <1>3, <1>4, <1>5, <1>6, <1>7, WhoMoves DEF ConnStep, HearController

LEMMA ConnsMove ==
    ASSUME SessionTypeOK, [Next]_vars, NEW s \in Sessions
    PROVE  \/ presence'[s].conns = presence[s].conns
           \/ \E c \in Conns : s = actor[c].session /\ Register(c) /\ presence'[s].conns = presence[s].conns \cup {c}
           \/ \E c \in Conns : s = actor[c].session /\ Disconnect(c) /\ presence'[s].conns = presence[s].conns \ {c}
<1>0. PresenceTyped
  BY DEF SessionTypeOK
<1>1. CASE UNCHANGED presence
  BY <1>1
<1>2. ASSUME NEW a, NEW t, NEW conns, NEW controller, NEW served, Control(a, t, conns, controller, served)
      PROVE  presence'[s].conns = IF s = t THEN conns ELSE presence[s].conns
  BY <1>0, <1>2 DEF Control, PresenceTyped
<1>3. ASSUME NEW c \in Conns, Register(c)
      PROVE  \/ presence'[s].conns = presence[s].conns
             \/ s = actor[c].session /\ presence'[s].conns = presence[s].conns \cup {c}
  BY <1>2, <1>3 DEF Register
<1>4. ASSUME NEW c \in Conns, Disconnect(c)
      PROVE  \/ presence'[s].conns = presence[s].conns
             \/ s = actor[c].session /\ presence'[s].conns = presence[s].conns \ {c}
  BY <1>2, <1>4 DEF Disconnect
<1>5. ASSUME NEW r \in Requests, RequestStep(r)
      PROVE  presence'[s].conns = presence[s].conns
  <2>1. ASSUME NEW t, NEW controller, NEW served, Control(r, t, presence[t].conns, controller, served)
        PROVE  presence'[s].conns = presence[s].conns
    BY <1>2, <2>1
  <2>2. CASE Claim(r)
    BY <2>1, <2>2 DEF Claim
  <2>3. CASE Release(r)
    BY <2>1, <2>3 DEF Release
  <2>4. CASE TakeControl(r, "takeover", "over") \/ TakeControl(r, "run", "control") \/ ControlForAnswer(r)
    BY <1>1, <2>1, <2>4 DEF TakeControl, ControlForAnswer, Takeover
  <2>5. QED
    BY <1>1, <1>5, <2>2, <2>3, <2>4 DEF RequestStep, Reserve, AcceptRun, DropReservation, CommitRun,
       TakePause, Answer, sessionVars
<1>6. CASE CreateRow \/ CreateSession \/ \E a \in Actors : LoadStep(a) \/ Announce(a)
  BY <1>1, <1>6 DEF CreateRow, CreateSession, LoadStep, Lookup, ReadStore, LoadSession, Announce, sessionVars
<1>7. ASSUME NEW t \in Sessions, CoreStep(t) \/ ConsumerStep(t) \/ AskPause(t) \/ EndTool(t)
      PROVE  UNCHANGED presence
  BY <1>7 DEF CoreStep, ConsumerStep, LoopTop, LoopWoken, StoreRun, FinishRun, Shutdown, AskPause,
     EndTool, ConsumeIdle, ReclaimIdle, ConsumeEvent, ConsumeClosed, DropFromCache
<1>8. ASSUME NEW c \in Conns, ConnStep(c) \/ UpgradeFails(c), ~Register(c)
      PROVE  UNCHANGED presence
  BY <1>8 DEF ConnStep, TellRole, HearController, LookIfIdle, CloseIfIdle, UpgradeFails, sessionVars
<1>9. QED
  BY <1>1, <1>3, <1>4, <1>5, <1>6, <1>7, <1>8 DEF Next, vars, ConnStep

LEMMA AttachedStep ==
    ASSUME SessionTypeOK, SlotInv, Attached, [Next]_vars
    PROVE  Attached'
<1>0. /\ actor \in [Actors -> Visitor] /\ Conns \subseteq Actors
  BY DEF SessionTypeOK, ActorTyped, Visitor, Actors
<1>1. ASSUME NEW c \in Conns, NEW d \in Conns, d # c, Register(c) \/ Disconnect(c)
      PROVE  actor'[d] = actor[d]
  <2>1. \E place : GoTo(c, place)
    BY <1>1 DEF Register, Disconnect
  <2>2. QED
    BY <1>0, <1>1, <2>1 DEF GoTo
<1>2. ASSUME NEW c \in Conns, Register(c)
      PROVE  /\ actor[c].at \notin InPlace /\ actor'[c].at \in InPlace /\ actor'[c].session = actor[c].session
             /\ presence'[actor[c].session].conns = presence[actor[c].session].conns \cup {c}
             /\ ~Disconnect(c)
  <2>0. actor[c].session \in Sessions /\ c \in Participants /\ GoTo(c, "registered") /\ actor[c].at = "found"
    BY <1>0, <1>2, InSession DEF Register, At
  <2>1. actor'[c] = [actor[c] EXCEPT !.at = "registered"] /\ actor[c] \in Visitor
    BY <1>0, <2>0, GoToMoves DEF Places
  <2>2. actor'[c].at = "registered" /\ actor'[c].session = actor[c].session
    BY <2>1 DEF Visitor
  <2>3. presence'[actor[c].session].conns = presence[actor[c].session].conns \cup {c}
    BY <1>2, <2>0 DEF Register, Control, SessionTypeOK, PresenceTyped
  <2>4. QED
    BY <2>0, <2>2, <2>3 DEF InPlace, Disconnect
<1>3. ASSUME NEW c \in Conns, Disconnect(c)
      PROVE  /\ actor[c].at \in InPlace /\ actor'[c].at \notin InPlace
             /\ presence'[actor[c].session].conns = presence[actor[c].session].conns \ {c}
  <2>0. actor[c].session \in Sessions /\ c \in Participants /\ GoTo(c, "left") /\ actor[c].at \in InPlace
    BY <1>0, <1>3, InSession DEF Disconnect, InPlace
  <2>1. actor'[c].at = "left"
    BY <1>0, <2>0, GoToMoves DEF Places, InPlace
  <2>2. presence'[actor[c].session].conns = presence[actor[c].session].conns \ {c}
    BY <1>3, <2>0 DEF Disconnect, Control, SessionTypeOK, PresenceTyped
  <2>3. QED
    BY <2>0, <2>1, <2>2 DEF InPlace
<1>4. ASSUME NEW s \in Sessions, NEW c \in Conns
      PROVE  c \in presence'[s].conns <=> actor'[c].session = s /\ actor'[c].at \in InPlace
  <2>0. c \in presence[s].conns <=> actor[c].session = s /\ actor[c].at \in InPlace
    BY DEF Attached, InPlace
  <2>1. CASE Register(c)
    <3>1. CASE s = actor[c].session
      BY <1>2, <2>1, <3>1
    <3>2. CASE s # actor[c].session
      <4>1. ASSUME NEW d \in Conns, Register(d) \/ Disconnect(d)
            PROVE  d = c
        BY <1>1, <1>2, <2>1, <4>1
      <4>2. presence'[s].conns = presence[s].conns
        BY <3>2, <4>1, ConnsMove
      <4>3. QED
        BY <1>2, <2>0, <2>1, <3>2, <4>2
    <3>3. QED
      BY <3>1, <3>2
  <2>2. CASE Disconnect(c)
    <3>1. CASE s = actor[c].session
      BY <1>3, <2>2, <3>1
    <3>2. CASE s # actor[c].session
      <4>1. ASSUME NEW d \in Conns, Register(d) \/ Disconnect(d)
            PROVE  d = c
        BY <1>1, <1>3, <2>2, <4>1
      <4>2. presence'[s].conns = presence[s].conns
        BY <3>2, <4>1, ConnsMove
      <4>3. QED
        BY <1>3, <2>0, <2>2, <3>2, <4>2
    <3>3. QED
      BY <3>1, <3>2
  <2>3. CASE ~Register(c) /\ ~Disconnect(c)
    <3>1. c \in presence'[s].conns <=> c \in presence[s].conns
      BY <2>3, ConnsMove
    <3>2. (actor'[c].session = s /\ actor'[c].at \in InPlace) <=> (actor[c].session = s /\ actor[c].at \in InPlace)
      BY <2>3, ConnMoves DEF InPlace
    <3>3. QED
      BY <2>0, <3>1, <3>2
  <2>4. QED
    BY <2>1, <2>2, <2>3
<1>5. ASSUME NEW s \in Sessions
      PROVE  presence'[s].conns \subseteq Conns
  BY PresenceTypedStep DEF PresenceTyped
<1>6. QED
  BY <1>4, <1>5 DEF Attached, InPlace

(* A connection has control if it is the controller: it is connected.       *)
LEMMA ControlsIsController ==
    ASSUME Attached, NEW c \in Conns, actor[c].at \in InPlace, actor[c].session \in Sessions
    PROVE  Controls(c, actor[c].session) <=> presence[actor[c].session].controller = ClientOf(c)
BY DEF Attached, InPlace, Controls, Connected

LEMMA RolesStep ==
    ASSUME SessionTypeOK, SlotInv, Attached, RolesConverge, [Next]_vars
    PROVE  RolesConverge'
<1> SUFFICES ASSUME NEW c \in Conns, actor'[c].at = "live", link'[c].queue = <<>>,
                    \A a \in Actors : due'[a].session # actor'[c].session
             PROVE  link'[c].role = Controls(c, actor[c].session)'
  BY DEF RolesConverge
<1> DEFINE s == actor[c].session
<1>0. /\ link \in [Conns -> [queue : Seq(Clients), role : BOOLEAN]]
      /\ due \in [Actors -> [session : 0..MaxSessions, controller : Clients]]
      /\ c \in Actors
  BY DEF SessionTypeOK, LinkTyped, DueTyped, Actors
<1>1. actor'[c].session = s /\ actor[c].at \in InPlace /\ ~Disconnect(c)
  <2>1. ASSUME Disconnect(c)
        PROVE  FALSE
    <3>1. GoTo(c, "left") /\ actor[c].at \in InPlace
      BY <2>1 DEF Disconnect, InPlace
    <3>2. actor'[c].at = "left"
      BY <1>0, <3>1, InSession, GoToMoves DEF Places, InPlace
    <3>3. QED
      BY <3>2
  <2>2. CASE actor'[c] = actor[c]
    BY <2>1, <2>2 DEF InPlace
  <2>3. CASE actor'[c] # actor[c]
    BY <2>1, <2>3, ConnMoves DEF InPlace
  <2>4. QED
    BY <2>2, <2>3
<1>2. s \in Sessions /\ s # NoSession
  <2>1. s \in Sessions
    BY <1>0, <1>1, InSession DEF InPlace
  <2>2. QED
    BY <2>1, SessionAssumption DEF Sessions, NoSession
<1>3. Controls(c, actor[c].session)' <=> presence'[s].controller = ClientOf(c)
  <2>1. Attached' /\ scene' = scene
    BY AttachedStep, SceneStays
  <2>2. Controls(c, actor[c].session)' <=> presence'[s].controller = ClientOf(c)'
    BY <1>1, <1>2, <2>1 DEF Attached, InPlace, Controls, Connected
  <2>3. QED
    BY <2>1, <2>2 DEF ClientOf
<1>4. Controls(c, s) <=> presence[s].controller = ClientOf(c)
  BY <1>1, <1>2, ControlsIsController
<1>5. ASSUME link'[c] = link[c], actor[c].at = "live",
             \A a \in Actors : due[a].session # s,
             presence'[s].controller = presence[s].controller
      PROVE  link'[c].role = Controls(c, actor[c].session)'
  <2>1. link[c].role = Controls(c, s)
    BY <1>5 DEF RolesConverge
  <2>2. Controls(c, s) \in BOOLEAN /\ Controls(c, actor[c].session)' \in BOOLEAN
    BY DEF Controls
  <2>3. QED
    BY <1>3, <1>4, <1>5, <2>1, <2>2
<1>6. ASSUME NEW a \in Actors, Announce(a)
      PROVE  link'[c].role = Controls(c, actor[c].session)'
  <2>1. /\ due' = [due EXCEPT ![a] = NoSend] /\ presence' = presence /\ actor' = actor
        /\ link' = [d \in Conns |->
             IF actor[d].session = due[a].session /\ actor[d].at \in {"registered", "live"}
             THEN [link[d] EXCEPT !.queue = Append(link[d].queue, due[a].controller)] ELSE link[d]]
    BY <1>6 DEF Announce, sessionVars
  <2>2. CASE s = due[a].session
    <3>1. link'[c] = [link[c] EXCEPT !.queue = Append(link[c].queue, due[a].controller)]
      BY <1>1, <2>1, <2>2 DEF InPlace
    <3>2. link'[c].queue = Append(link[c].queue, due[a].controller) /\ link[c].queue \in Seq(Clients)
      BY <1>0, <3>1
    <3>3. due[a].controller \in Clients
      BY <1>0
    <3>4. link'[c].queue # <<>>
      BY <3>2, <3>3, AppendProperties, EmptySeq
    <3>5. QED
      BY <3>4
  <2>3. CASE s # due[a].session
    <3>1. link'[c] = link[c] /\ actor[c].at = "live"
      BY <1>1, <2>1, <2>3
    <3>2. \A b \in Actors : due[b].session # s
      <4>1. ASSUME NEW b \in Actors, b # a
            PROVE  due[b].session # s
        <5>1. due'[b] = due[b]
          BY <1>0, <2>1, <4>1
        <5>2. QED
          BY <1>1, <5>1
      <4>2. QED
        BY <2>3, <4>1
    <3>3. QED
      BY <1>5, <2>1, <3>1, <3>2
  <2>4. QED
    BY <2>2, <2>3
<1>7. ASSUME TellRole(c) \/ HearController(c)
      PROVE  link'[c].role = Controls(c, actor[c].session)'
  <2>1. UNCHANGED presence
    BY <1>7 DEF TellRole, HearController, sessionVars
  <2>2. link'[c].role = Controls(c, s)
    BY <1>0, <1>7 DEF TellRole, HearController
  <2>3. Controls(c, s) \in BOOLEAN /\ Controls(c, actor[c].session)' \in BOOLEAN
    BY DEF Controls
  <2>4. QED
    BY <1>3, <1>4, <2>1, <2>2, <2>3
<1>8. CASE ~TellRole(c) /\ ~HearController(c) /\ \A a \in Actors : ~Announce(a)
  <2>1. link'[c] = link[c]
    <3>1. ASSUME NEW d \in Conns, d # c, HearController(d) \/ TellRole(d) \/ Disconnect(d)
          PROVE  link'[c] = link[c]
      BY <1>0, <3>1 DEF HearController, TellRole, Disconnect
    <3>2. QED
      BY <1>1, <1>8, <3>1, LinkMoves
  <2>2. actor[c].at = "live"
    BY <1>8, ConnMoves DEF InPlace
  <2>3. ASSUME UNCHANGED <<presence, due>>
        PROVE  link'[c].role = Controls(c, actor[c].session)'
    BY <1>1, <1>5, <2>1, <2>2, <2>3
  <2>4. ASSUME NEW a \in Actors, Controlling(a, actor[a].session)
        PROVE  link'[c].role = Controls(c, actor[c].session)'
    <3> DEFINE t == actor[a].session
    <3>1. t \in Sessions /\ due[a] = NoSend /\ due[a].session # s
      BY <1>2, <2>4 DEF Controlling, NoSend
    <3>2. PICK conns, controller, served : Control(a, t, conns, controller, served)
      BY <2>4 DEF Controlling
    <3>3. /\ presence' = [presence EXCEPT ![t] = [conns |-> conns, controller |-> controller, served |-> served]]
          /\ due' = [due EXCEPT ![a] = IF controller = presence[t].controller THEN NoSend
                                        ELSE [session |-> t, controller |-> controller]]
      BY <3>2 DEF Control
    <3>4. \A b \in Actors : due[b].session # s
      <4>1. ASSUME NEW b \in Actors, b # a
            PROVE  due[b].session # s
        <5>1. due'[b] = due[b]
          BY <1>0, <3>3, <4>1
        <5>2. QED
          BY <1>1, <5>1
      <4>2. QED
        BY <3>1, <4>1
    <3>5. presence'[s].controller = presence[s].controller
      <4>1. CASE t # s
        BY <1>2, <3>3, <4>1 DEF SessionTypeOK, PresenceTyped
      <4>2. CASE t = s /\ controller = presence[t].controller
        BY <1>2, <3>3, <4>2 DEF SessionTypeOK, PresenceTyped
      <4>3. CASE t = s /\ controller # presence[t].controller
        <5>1. due'[a].session = s
          BY <1>0, <3>3, <4>3
        <5>2. QED
          BY <1>1, <5>1
      <4>4. QED
        BY <4>1, <4>2, <4>3
    <3>6. QED
      BY <1>5, <2>1, <2>2, <3>4, <3>5
  <2>5. QED
    BY <1>8, <2>3, <2>4, PresenceMoves
<1>9. QED
  BY <1>6, <1>7, <1>8

-----------------------------------------------------------------------------
(* The cache and the memory.                                                 *)

(* An instance accepts work from when it is built until it closes.          *)
LEMMA ActiveMoves ==
    ASSUME SessionTypeOK, Unbuilt, SlotInv, [Next]_vars, NEW s \in Sessions, core'[s].life = "Active"
    PROVE  (Builds /\ s = built + 1) \/ core[s].life = "Active"
BY CoreMoves DEF Closes, ForRequest, InLoop, Becomes

LEMMA LiveStep ==
    ASSUME SessionTypeOK, Unbuilt, SlotInv, Announced, LiveIsCached, [Next]_vars
    PROVE  LiveIsCached'
<1> SUFFICES ASSUME NEW s \in Sessions, core'[s].life = "Active"
             PROVE  s = cache' \/ s \in orphans'
  BY DEF LiveIsCached
<1>0. /\ ThreadTyped /\ built \in Nat /\ s \in Nat /\ cache \in Nat
      /\ core[s].life = "Active" => s = cache \/ s \in orphans
      /\ core[s] \in Instance /\ core \in [Sessions -> Instance]
  BY DEF SessionTypeOK, ThreadTyped, CoreTyped, LiveIsCached, Sessions
<1>1. CASE CreateSession \/ \E a \in Actors : LoadSession(a)
  <2>1. built' = built + 1 /\ s = built + 1 => s = cache'
    <3>1. CASE CreateSession
      BY <3>1 DEF CreateSession, BuildSession
    <3>2. ASSUME NEW a \in Actors, LoadSession(a), built' = built + 1
          PROVE  cache' = built + 1
      BY <1>0, <3>2 DEF LoadSession, BuildSession
    <3>3. QED
      BY <1>1, <3>1, <3>2
  <2>2. CASE core[s].life = "Active"
    BY <1>0, <1>1, <2>2 DEF CreateSession, LoadSession, NoSession, Sessions
  <2>3. QED
    BY <2>1, <2>2, ActiveMoves DEF Builds
<1>2. CASE ~CreateSession /\ \A a \in Actors : ~LoadSession(a)
  <2>1. built' = built
    BY <1>2, ThreadMoves DEF threadVars, CreateRow, CloseIfIdle, StoreRun, DropFromCache
  <2>2. core[s].life = "Active"
    BY <1>0, <2>1, ActiveMoves DEF Builds
  <2>3. ASSUME NEW c \in Conns, CloseIfIdle(c), cache' # cache
        PROVE  s \in orphans'
    <3>1. cache = actor[c].session /\ CloseIdle(cache) /\ actor[c].session \in Sessions /\ orphans' = orphans
      BY <2>3, InSession DEF CloseIfIdle, At, Actors, historyVars
    <3>2. core'[cache] = [core[cache] EXCEPT !.life = "Closing", !.permit = TRUE] /\ core[cache] \in Instance
      BY <1>0, <3>1 DEF CloseIdle
    <3>3. core'[cache].life = "Closing"
      BY <3>2 DEF Instance
    <3>4. QED
      BY <1>0, <2>2, <3>1, <3>3
  <2>4. ASSUME NEW t \in Sessions, DropFromCache(t), cache' # cache
        PROVE  s \in orphans'
    <3>1. cache = t /\ core[t].life = "Closed" /\ orphans' = orphans
      BY <2>4 DEF DropFromCache, Announced, historyVars
    <3>2. QED
      BY <1>0, <2>2, <3>1
  <2>5. cache' = cache /\ orphans' = orphans => s = cache' \/ s \in orphans'
    BY <1>0, <2>2
  <2>6. orphans' = orphans
    BY <1>2, ThreadMoves DEF threadVars, historyVars, CreateRow, CloseIfIdle, StoreRun, DropFromCache
  <2>7. QED
    BY <1>2, <2>3, <2>4, <2>5, <2>6, ThreadMoves DEF threadVars, CreateRow, StoreRun
<1>3. QED
  BY <1>1, <1>2

LEMMA MemoryStep ==
    ASSUME SessionTypeOK, Unbuilt, SlotInv, LiveIsCached, LoaderInv, MemoryIsStored, [Next]_vars
    PROVE  MemoryIsStored'
<1> SUFFICES ASSUME orphans' = {}, NEW s \in Sessions, s \notin overtaken', core'[s].life = "Active"
             PROVE  core'[s].memory = stored'
  BY DEF MemoryIsStored
<1>0. /\ ThreadTyped /\ built \in Nat /\ s \in Nat /\ cache \in Nat
      /\ core[s] \in Instance /\ core \in [Sessions -> Instance]
  BY DEF SessionTypeOK, ThreadTyped, CoreTyped, Sessions
<1>1. orphans = {} /\ s \notin overtaken
  BY <1>0, ThreadMoves DEF threadVars, historyVars, CreateRow, CreateSession, LoadSession, CloseIfIdle, StoreRun,
     DropFromCache
<1>2. core[s].life = "Active" => s = cache /\ core[s].memory = stored
  BY <1>1 DEF LiveIsCached, MemoryIsStored
<1>3. ASSUME NEW context, BuildSession(built + 1, context), Builds, s = built + 1
      PROVE  core'[s].memory = context
  <2>1. core'[s] = [core[s] EXCEPT !.life = "Active", !.memory = context]
    BY <1>0, <1>3 DEF BuildSession
  <2>2. QED
    BY <1>0, <2>1 DEF Instance
<1>4. CASE Builds /\ s = built + 1
  <2>1. CASE CreateSession
    <3>1. built = 0
      BY <1>0, <2>1, <1>4 DEF CreateSession, BuildSession
    <3>2. QED
      BY <1>3, <1>4, <2>1, <3>1 DEF CreateSession, LoaderInv
  <2>2. ASSUME NEW a \in Actors, LoadSession(a)
        PROVE  core'[s].memory = stored'
    <3>1. built' # built
      BY <1>0, <1>4 DEF Builds
    <3>2. cache = NoSession /\ BuildSession(built + 1, actor[a].read) /\ actor[a].at = "read" /\ stored' = stored
      BY <2>2, <3>1 DEF LoadSession
    <3>3. built = actor[a].age
      BY <1>4, <2>2, <3>2 DEF LoadSession, BuildSession
    <3>4. actor[a].read = stored
      BY <1>1, <3>2, <3>3 DEF LoaderInv
    <3>5. QED
      BY <1>3, <1>4, <3>2, <3>4
  <2>3. QED
    BY <1>0, <1>4, <2>1, <2>2, ThreadMoves DEF Builds, threadVars, CreateRow, CloseIfIdle, StoreRun, DropFromCache
<1>5. CASE ~(Builds /\ s = built + 1)
  <2>1. core[s].life = "Active" /\ s = cache /\ core[s].memory = stored
    BY <1>2, <1>5, ActiveMoves
  <2>2. ASSUME NEW t \in Sessions, StoreRun(t)
        PROVE  core'[s].memory = stored'
    <3>1. core[t].life = "Active" /\ core[t].slot \in Requests
      BY <2>2 DEF StoreRun, SlotInv
    <3>2. t = s
      BY <1>1, <2>1, <3>1 DEF LiveIsCached
    <3>3. core'[s] = [core[s] EXCEPT !.memory = core[s].memory \cup {core[s].slot}] /\ stored' = stored \cup {core[s].slot}
      BY <1>0, <2>2, <3>2 DEF StoreRun, Owner
    <3>4. core'[s].memory = core[s].memory \cup {core[s].slot}
      BY <1>0, <3>3 DEF Instance
    <3>5. QED
      BY <2>1, <3>3, <3>4
  <2>3. CASE \A t \in Sessions : ~StoreRun(t)
    <3>1. stored' = stored
      BY <2>3, ThreadMoves DEF threadVars, CreateRow, CreateSession, LoadSession, CloseIfIdle, DropFromCache
    <3>2. core'[s].memory = core[s].memory
      <4>1. ~StoreRun(s) /\ ~Shutdown(s)
        <5>1. ASSUME Shutdown(s)
              PROVE  FALSE
          <6>1. core'[s] = [core[s] EXCEPT !.loop = "exited", !.life = "Closed", !.permit = FALSE, !.memory = {}]
            BY <1>0, <5>1 DEF Shutdown
          <6>2. core'[s].life = "Closed"
            BY <1>0, <6>1 DEF Instance
          <6>3. QED
            BY <6>2
        <5>2. QED
          BY <2>3, <5>1
      <4>2. QED
        BY <1>5, <4>1, CoreMoves DEF Closes, ForRequest, InLoop, Becomes
    <3>3. QED
      BY <2>1, <3>1, <3>2
  <2>4. QED
    BY <2>2, <2>3
<1>6. QED
  BY <1>4, <1>5

LEMMA LoaderStep ==
    ASSUME SessionTypeOK, Unbuilt, SlotInv, LiveIsCached, LoaderInv, [Next]_vars
    PROVE  LoaderInv'
<1>0. /\ ThreadTyped /\ built \in Nat /\ built' \in Nat /\ built <= built'
      /\ actor \in [Actors -> Visitor] /\ NoSession \notin Sessions
      /\ \A a \in Actors : actor[a].age \in Nat
  BY BuiltGrows, SessionAssumption DEF SessionTypeOK, ThreadTyped, ActorTyped, Visitor, NoSession, Sessions
<1>1. ASSUME NEW t \in Sessions, StoreRun(t)
      PROVE  built # 0 /\ (t = cache \/ t \in orphans)
  <2>1. core[t].life = "Active"
    BY <1>1 DEF StoreRun, SlotInv
  <2>2. ~(t > built) /\ t \in Nat /\ t # 0
    BY <1>0, <2>1 DEF Unbuilt, Sessions
  <2>3. QED
    BY <1>0, <2>1, <2>2 DEF LiveIsCached
<1>2. stored' = stored \/ \E t \in Sessions : StoreRun(t)
  BY ThreadMoves DEF threadVars, CreateRow, CreateSession, LoadSession, CloseIfIdle, DropFromCache
<1>3. built' = built => cache' \in {cache, NoSession}
  <2>1. ASSUME NEW a \in Actors, LoadSession(a), built' = built
        PROVE  cache' = cache
    BY <1>0, <2>1 DEF LoadSession, BuildSession
  <2>2. CreateSession => built' # built
    BY <1>0 DEF CreateSession, BuildSession
  <2>3. QED
    BY <2>1, <2>2, ThreadMoves DEF threadVars, CreateRow, CloseIfIdle, StoreRun, DropFromCache
<1>4. orphans \subseteq orphans'
  BY ThreadMoves DEF threadVars, historyVars, CreateRow, CreateSession, LoadSession, CloseIfIdle, StoreRun, DropFromCache
<1>5. built' = 0 => stored' = {}
  BY <1>0, <1>1, <1>2 DEF LoaderInv
<1>6. ASSUME NEW a \in Actors
      PROVE  /\ actor'[a].at \in {"missed", "read"} => actor'[a].age <= built'
             /\ actor'[a].at \in {"missed", "read"} /\ actor'[a].age = built' => cache' = NoSession
             /\ actor'[a].at = "read" /\ actor'[a].age = built' /\ orphans' = {} => actor'[a].read = stored'
  <2>1. CASE actor'[a] = actor[a]
    <3>1. ASSUME actor[a].at \in {"missed", "read"}
          PROVE  /\ actor[a].age <= built
                 /\ actor[a].age = built => cache = NoSession
                 /\ actor[a].at = "read" /\ actor[a].age = built /\ orphans = {} => actor[a].read = stored
      BY <3>1 DEF LoaderInv
    <3>2. ASSUME actor[a].at \in {"missed", "read"}, actor[a].age = built'
          PROVE  /\ built' = built /\ cache = NoSession /\ cache' = NoSession
                 /\ orphans' = {} => stored' = stored
      <4>1. actor[a].age \in Nat
        BY <1>0
      <4>2. built' = built
        BY <1>0, <3>1, <3>2, <4>1
      <4>3. cache = NoSession /\ cache' = NoSession
        BY <1>3, <3>1, <3>2, <4>2
      <4>4. orphans' = {} => stored' = stored
        BY <1>0, <1>1, <1>2, <1>4, <4>3
      <4>5. QED
        BY <4>2, <4>3, <4>4
    <3>3. actor[a].at \in {"missed", "read"} => actor[a].age <= built'
      BY <1>0, <3>1
    <3>4. QED
      BY <1>4, <2>1, <3>1, <3>2, <3>3
  <2>2. CASE Lookup(a)
    <3>1. built' = built /\ cache' = cache
      BY <2>2 DEF Lookup, threadVars
    <3>2. actor'[a] = IF cache = NoSession
                      THEN [at |-> "missed", session |-> NoSession, read |-> {}, age |-> built]
                      ELSE [at |-> "found", session |-> cache, read |-> {}, age |-> 0]
      BY <1>0, <2>2 DEF Lookup
    <3>3. CASE cache = NoSession
      BY <1>0, <3>1, <3>2, <3>3
    <3>4. CASE cache # NoSession
      BY <3>2, <3>4
    <3>5. QED
      BY <3>3, <3>4
  <2>3. CASE ReadStore(a)
    <3>1. /\ actor[a].at = "missed" /\ built' = built /\ cache' = cache /\ stored' = stored
          /\ actor'[a] = [actor[a] EXCEPT !.at = "read", !.read = stored] /\ actor[a] \in Visitor
      BY <1>0, <2>3 DEF ReadStore, threadVars
    <3>2. actor'[a].age = actor[a].age /\ actor'[a].read = stored
      BY <3>1 DEF Visitor
    <3>3. QED
      BY <3>1, <3>2 DEF LoaderInv
  <2>4. CASE actor'[a] # actor[a] /\ ~Lookup(a) /\ ~ReadStore(a)
    <3>1. actor'[a].at \notin {"missed", "read"}
      <4>1. CASE LoadSession(a)
        BY <1>0, <4>1 DEF LoadSession
      <4>2. ASSUME NEW b \in Actors, b # a, Lookup(b) \/ ReadStore(b) \/ LoadSession(b) \/ Goes(b)
            PROVE  actor'[a] = actor[a]
        BY <1>0, <4>2 DEF Lookup, ReadStore, LoadSession, Goes, GoTo
      <4>3. CASE Goes(a)
        <5>1. PICK place \in Places \ {"start", "missed", "read", "found"} : GoTo(a, place)
          BY <4>3 DEF Goes
        <5>2. actor'[a].at = place
          BY <4>3, <5>1, InSession, GoToMoves DEF Goes
        <5>3. QED
          BY <5>1, <5>2
      <4>4. QED
        BY <2>4, <4>1, <4>2, <4>3, ActorMoves
    <3>2. QED
      BY <3>1
  <2>5. QED
    BY <2>1, <2>2, <2>3, <2>4
<1>7. QED
  BY <1>5, <1>6 DEF LoaderInv

-----------------------------------------------------------------------------
(* The pause.                                                                *)
InHand == {"holds", "answering"}

Refused(r) == ControlForAnswer(r) /\ ClientOf(r) \notin Connected(actor[r].session)

(* What moves a request to and from the places where it has a pause.        *)
LEMMA HandMoves ==
    ASSUME SessionTypeOK, SlotInv, [Next]_vars, NEW r \in Requests, actor'[r] # actor[r]
    PROVE  \/ /\ TakePause(r) /\ consumer[actor[r].session].pending
              /\ actor'[r].session = actor[r].session /\ actor'[r].at = "holds"
           \/ /\ ControlForAnswer(r) /\ ~Refused(r) /\ actor[r].at = "holds"
              /\ actor'[r].session = actor[r].session /\ actor'[r].at = "answering"
           \/ (Refused(r) \/ Answer(r)) /\ actor[r].at \in InHand /\ actor'[r].at = "over"
           \/ actor[r].at \notin InHand /\ actor'[r].at \notin InHand
<1>0. /\ actor \in [Actors -> Visitor] /\ r \in Actors /\ r \notin Conns
  BY SessionAssumption DEF SessionTypeOK, ActorTyped, Visitor, Actors
<1>1. CASE LoadStep(r)
  <2>1. CASE Lookup(r)
    BY <1>0, <2>1 DEF Lookup, InHand
  <2>2. CASE ReadStore(r)
    <3>1. actor'[r] = [actor[r] EXCEPT !.at = "read", !.read = stored]
      BY <1>0, <2>2 DEF ReadStore
    <3>2. actor'[r].at = "read"
      BY <1>0, <3>1 DEF Visitor
    <3>3. QED
      BY <2>2, <3>2 DEF ReadStore, InHand
  <2>3. CASE LoadSession(r)
    BY <1>0, <2>3 DEF LoadSession, InHand
  <2>4. QED
    BY <1>1, <2>1, <2>2, <2>3 DEF LoadStep
<1>2. ASSUME NEW place \in Places, GoTo(r, place), actor[r].at \notin {"start", "missed", "read", "over"}
      PROVE  /\ actor'[r].at = place
             /\ place # "over" => actor'[r].session = actor[r].session
  <2>1. r \in Participants
    BY <1>0, <1>2, InSession
  <2>2. /\ actor'[r].at = place
        /\ place # "over" => actor'[r] = [actor[r] EXCEPT !.at = place]
    BY <1>0, <1>2, <2>1, GoToMoves
  <2>3. QED
    BY <1>0, <2>2 DEF Visitor
<1>3. ASSUME NEW place \in Places \ InHand, GoTo(r, place),
             actor[r].at \notin {"start", "missed", "read", "over"} \cup InHand
      PROVE  actor[r].at \notin InHand /\ actor'[r].at \notin InHand
  BY <1>2, <1>3
<1>4. CASE RequestStep(r)
  <2>1. CASE Claim(r) \/ Release(r)
    BY <1>3, <2>1 DEF Claim, Release, At, Asks, Places, InHand
  <2>2. CASE TakeControl(r, "takeover", "over") \/ TakeControl(r, "run", "control")
    BY <1>3, <2>2 DEF TakeControl, At, Asks, Places, InHand
  <2>3. CASE Reserve(r) \/ AcceptRun(r) \/ DropReservation(r) \/ CommitRun(r)
    BY <1>3, <2>3 DEF Reserve, AcceptRun, DropReservation, CommitRun, At, Places, InHand
  <2>4. CASE TakePause(r)
    <3>1. CASE consumer[actor[r].session].pending
      <4>1. GoTo(r, "holds") /\ actor[r].at = "found"
        BY <2>4, <3>1 DEF TakePause, Asks, At
      <4>2. QED
        BY <1>2, <2>4, <3>1, <4>1 DEF Places
    <3>2. CASE ~consumer[actor[r].session].pending
      <4>1. GoTo(r, "over") /\ actor[r].at = "found"
        BY <2>4, <3>2 DEF TakePause, Asks, At
      <4>2. QED
        BY <1>3, <4>1 DEF Places, InHand
    <3>3. QED
      BY <3>1, <3>2
  <2>5. CASE ControlForAnswer(r)
    <3>1. CASE Refused(r)
      <4>1. GoTo(r, "over") /\ actor[r].at = "holds"
        BY <3>1 DEF Refused, ControlForAnswer, At
      <4>2. QED
        BY <1>2, <3>1, <4>1 DEF Places, InHand
    <3>2. CASE ~Refused(r)
      <4>1. GoTo(r, "answering") /\ actor[r].at = "holds"
        BY <2>5, <3>2 DEF Refused, ControlForAnswer, At
      <4>2. QED
        BY <1>2, <2>5, <3>2, <4>1 DEF Places
    <3>3. QED
      BY <3>1, <3>2
  <2>6. CASE Answer(r)
    <3>1. GoTo(r, "over") /\ actor[r].at = "answering"
      BY <2>6 DEF Answer, At
    <3>2. QED
      BY <1>2, <2>6, <3>1 DEF Places, InHand
  <2>7. QED
    BY <1>4, <2>1, <2>2, <2>3, <2>4, <2>5, <2>6 DEF RequestStep
<1>5. ASSUME NEW s \in Sessions, FinishRun(s), core[s].slot = r
      PROVE  actor[r].at \notin InHand /\ actor'[r].at \notin InHand
  <2>1. actor[r].at = "running" /\ GoTo(r, "over")
    BY <1>5 DEF FinishRun, SlotInv, Owner
  <2>2. QED
    BY <1>3, <2>1 DEF Places, InHand
<1>6. QED
  BY <1>0, <1>1, <1>4, <1>5, WhoMoves

(* The requests that have the pause of s change only with its consumer, or  *)
(* by an answer.                                                             *)
LEMMA HoldersMove ==
    ASSUME SessionTypeOK, SlotInv, [Next]_vars, NEW s \in Sessions
    PROVE  \/ Holders(s)' = Holders(s)
           \/ \E r \in Requests :
                 /\ actor[r].session = s /\ TakePause(r) /\ consumer[s].pending
                 /\ Holders(s)' = Holders(s) \cup {r}
           \/ \E r \in Holders(s) :
                 /\ Refused(r) \/ Answer(r)
                 /\ Holders(s)' = Holders(s) \ {r}
<1> DEFINE In(r) == actor[r].session = s /\ actor[r].at \in InHand
<1>0. /\ actor \in [Actors -> Visitor] /\ Requests \subseteq Actors /\ NoSession \notin Sessions
      /\ Conns \cap Requests = {}
  BY SessionAssumption DEF SessionTypeOK, ActorTyped, Visitor, Actors, NoSession, Sessions
<1>1. /\ \A r \in Requests : r \in Holders(s) <=> In(r)
      /\ \A r \in Requests : r \in Holders(s)' <=> In(r)'
      /\ Holders(s) \subseteq Requests /\ Holders(s)' \subseteq Requests
  BY DEF Holders, InHand
<1>2. ASSUME NEW r \in Requests, NEW place, GoTo(r, place), NEW q \in Requests, q # r
      PROVE  In(q)' <=> In(q)
  BY <1>0, <1>2 DEF GoTo
<1>3. ASSUME NEW r \in Requests, actor[r].session = s, TakePause(r), consumer[s].pending,
             actor'[r].session = actor[r].session, actor'[r].at = "holds"
      PROVE  Holders(s)' = Holders(s) \cup {r}
  <2>1. In(r)'
    BY <1>3 DEF InHand
  <2>2. \A q \in Requests \ {r} : In(q)' <=> In(q)
    BY <1>2, <1>3 DEF TakePause
  <2> HIDE DEF In
  <2>3. QED
    BY <1>1, <2>1, <2>2
<1>4. ASSUME NEW r \in Requests, In(r), Refused(r) \/ Answer(r), actor'[r].at = "over"
      PROVE  Holders(s)' = Holders(s) \ {r}
  <2>1. ~In(r)'
    BY <1>4 DEF InHand
  <2>2. \A q \in Requests \ {r} : In(q)' <=> In(q)
    BY <1>2, <1>4 DEF Refused, ControlForAnswer, Answer
  <2> HIDE DEF In
  <2>3. QED
    BY <1>1, <2>1, <2>2
<1>5. CASE \A r \in Requests : In(r)' <=> In(r)
  <2> HIDE DEF In
  <2>1. QED
    BY <1>1, <1>5
<1>6. CASE \E r \in Requests : ~(In(r)' <=> In(r))
  <2>1. PICK r \in Requests : ~(In(r)' <=> In(r))
    BY <1>6
  <2>2. actor'[r] # actor[r]
    BY <2>1
  <2>3. CASE TakePause(r) /\ consumer[actor[r].session].pending
             /\ actor'[r].session = actor[r].session /\ actor'[r].at = "holds"
    <3>1. actor[r].session = s
      BY <2>1, <2>3
    <3>2. QED
      BY <1>3, <2>3, <3>1
  <2>4. CASE (Refused(r) \/ Answer(r)) /\ actor[r].at \in InHand /\ actor'[r].at = "over"
    <3>1. In(r)
      BY <2>1, <2>4 DEF InHand
    <3>2. QED
      BY <1>1, <1>4, <2>4, <3>1
  <2>5. ~(/\ actor[r].at = "holds" /\ actor'[r].session = actor[r].session /\ actor'[r].at = "answering")
    BY <2>1 DEF InHand
  <2>6. ~(actor[r].at \notin InHand /\ actor'[r].at \notin InHand)
    BY <2>1
  <2>7. QED
    BY <2>2, <2>3, <2>4, <2>5, <2>6, HandMoves
<1>7. QED
  BY <1>5, <1>6

(* One request does one of these at a time.                                 *)
Answers(r) == TakePause(r) \/ ControlForAnswer(r) \/ Answer(r)

LEMMA AnswersAlone ==
    ASSUME SessionTypeOK, NEW r \in Requests, Answers(r), NEW q \in Requests, Answers(q)
    PROVE  q = r
<1>0. /\ actor \in [Actors -> Visitor] /\ r \in Actors /\ q \in Actors
      /\ {"found", "holds", "answering", "over"} \subseteq Places
  BY DEF SessionTypeOK, ActorTyped, Visitor, Actors, Places
<1>1. \E place : GoTo(q, place)
  BY DEF Answers, TakePause, ControlForAnswer, Answer
<1>2. PICK place \in {"holds", "answering", "over"} : GoTo(r, place) /\ place # actor[r].at
  BY DEF Answers, TakePause, ControlForAnswer, Answer, Asks, At
<1>3. actor[r].at \notin {"start", "missed", "read", "over"}
  BY DEF Answers, TakePause, ControlForAnswer, Answer, Asks, At
<1>4. actor'[r].at # actor[r].at
  BY <1>0, <1>2, <1>3, InSession, GoToMoves
<1>5. QED
  BY <1>0, <1>1, <1>4 DEF GoTo

LEMMA PauseStep ==
    ASSUME SessionTypeOK, Unbuilt, SlotInv, PauseInv, [Next]_vars
    PROVE  PauseInv'
<1> SUFFICES ASSUME NEW s \in Sessions, PauseOf(s)
             PROVE  PauseOf(s)'
  BY DEF PauseInv
<1>0. /\ core[s] \in Instance /\ consumer[s] \in Listener
      /\ core \in [Sessions -> Instance] /\ consumer \in [Sessions -> Listener]
  BY DEF SessionTypeOK, CoreTyped, ConsumerTyped
(* A request takes the pause, gets control or not, or answers.              *)
<1>1. ASSUME NEW r \in Requests, Answers(r), actor[r].session = s
      PROVE  PauseOf(s)'
  <2>1. consumer'[s].outputs = consumer[s].outputs
    BY <1>0, <1>1 DEF Answers, TakePause, ControlForAnswer, Answer, Listener
  <2>2. SameOutputs(s)
    BY <2>1, Zenon DEF SameOutputs, Has, HasOnce, Contains, Once
  <2>3. /\ \A q \in Requests : TakePause(q) \/ Refused(q) \/ Answer(q) => q = r
        /\ Holders(s) \subseteq Requests
    BY <1>1, AnswersAlone DEF Answers, Refused, Holders
  <2>4. CASE TakePause(r)
    <3>1. consumer'[s].pending = FALSE /\ core'[s] = core[s]
      BY <1>0, <1>1, <2>4 DEF TakePause, Listener
    <3>2. ~Refused(r) /\ ~Answer(r) /\ r \notin Holders(s)
      BY <2>4 DEF TakePause, Refused, ControlForAnswer, Answer, Asks, At, Holders
    <3>3. Holders(s)' = IF consumer[s].pending THEN Holders(s) \cup {r} ELSE Holders(s)
      <4>1. CASE consumer[s].pending
        <5>1. actor'[r].at = "holds" /\ actor'[r].session = s
          <6>1. GoTo(r, "holds") /\ actor[r].at = "found" /\ r \in Actors
            BY <1>1, <2>4, <4>1 DEF TakePause, Asks, At, Actors
          <6>2. actor'[r] = [actor[r] EXCEPT !.at = "holds"] /\ actor[r] \in Visitor
            BY <6>1, InSession, GoToMoves DEF Places, SessionTypeOK, ActorTyped, Visitor
          <6>3. QED
            BY <1>1, <6>2 DEF Visitor
        <5>2. r \in Holders(s)'
          BY <5>1 DEF Holders
        <5>3. QED
          BY <2>3, <3>2, <4>1, <5>2, HoldersMove
      <4>2. CASE ~consumer[s].pending
        BY <2>3, <3>2, <4>2, HoldersMove
      <4>3. QED
        BY <4>1, <4>2
    <3>4. QED
      BY <2>2, <3>1, <3>3 DEF PauseOf, SameOutputs
  <2>5. CASE ControlForAnswer(r)
    <3>1. r \in Holders(s) /\ ~TakePause(r) /\ ~Answer(r)
      BY <1>1, <2>5 DEF ControlForAnswer, TakePause, Answer, Asks, At, Holders
    <3>2. core'[s] = core[s]
      BY <2>5 DEF ControlForAnswer
    <3>3. CASE Refused(r)
      <4>1. Holders(s)' \in {Holders(s), Holders(s) \ {r}} /\ r \notin Holders(s)'
        <5>1. actor'[r].at = "over"
          <6>1. GoTo(r, "over") /\ actor[r].at = "holds" /\ r \in Actors
            BY <3>3 DEF Refused, ControlForAnswer, At, Actors
          <6>2. QED
            BY <6>1, InSession, GoToMoves DEF Places
        <5>2. r \notin Holders(s)'
          BY <5>1 DEF Holders
        <5>3. QED
          BY <2>3, <3>1, <5>2, HoldersMove
      <4>2. consumer'[s].pending = TRUE
        BY <1>0, <1>1, <3>3 DEF Refused, ControlForAnswer, Listener
      <4>3. QED
        BY <2>2, <3>1, <3>2, <4>1, <4>2 DEF PauseOf, SameOutputs
    <3>4. CASE ~Refused(r)
      <4>1. Holders(s)' = Holders(s)
        BY <2>3, <3>1, <3>4, HoldersMove
      <4>2. consumer' = consumer
        BY <2>5, <3>4 DEF Refused, ControlForAnswer
      <4>3. QED
        BY <2>2, <3>2, <4>1, <4>2 DEF PauseOf, SameOutputs
    <3>5. QED
      BY <3>3, <3>4
  <2>6. CASE Answer(r)
    <3>1. r \in Holders(s)
      BY <1>1, <2>6 DEF Answer, At, Holders
    <3>2. core'[s].pause = IF core[s].pause = "waiting" THEN "answered" ELSE core[s].pause
      BY <1>0, <1>1, <2>6 DEF Answer, Instance
    <3>3. QED
      BY <2>2, <3>1, <3>2 DEF PauseOf, SameOutputs
  <2>7. QED
    BY <1>1, <2>4, <2>5, <2>6 DEF Answers
(* No request does: the tool, the consumer, or a step that is not about it. *)
<1>2. CASE \A r \in Requests : Answers(r) => actor[r].session # s
  <2>1. Holders(s)' = Holders(s)
    BY <1>2, HoldersMove DEF Answers, Refused, Holders
  <2>2. \A r \in Requests : ~ForAnswer(r, s)
    BY <1>2 DEF ForAnswer, Answers
  <2>3. \/ core'[s].pause = core[s].pause
        \/ AskPause(s) /\ core[s].pause = "none" /\ core'[s].pause = "waiting"
        \/ EndTool(s) /\ core'[s].pause = "over"
    BY <1>2, CoreMoves DEF Answers, Builds, Closes, ForRequest, InLoop, Becomes, AskPause
  <2>4. CASE AskPause(s)
    <3>1. Send(s, "Pause") /\ core[s].pause = "none" /\ "Pause" \in Outputs
      BY <2>4 DEF AskPause, Outputs
    <3>2. /\ \A x : Has(s, x)' <=> Has(s, x) \/ x = "Pause"
          /\ \A x : HasOnce(s, x) /\ (x = "Pause" => ~Has(s, x)) => HasOnce(s, x)'
          /\ consumer'[s].pending = consumer[s].pending
      BY <3>1, Sent DEF SessionTypeOK
    <3>3. core'[s].pause = "waiting"
      BY <1>0, <2>4 DEF AskPause, Instance
    <3>4. QED
      BY <2>1, <3>1, <3>2, <3>3 DEF PauseOf
  <2>5. CASE EndTool(s)
    <3>1. Send(s, "ToolResult") /\ "ToolResult" \in Outputs
      BY <2>5 DEF EndTool, Outputs
    <3>2. HasOnce(s, "Pause")'
      BY <3>1, Sent DEF SessionTypeOK, PauseOf
    <3>3. core'[s].pause = "over"
      BY <1>0, <2>5 DEF EndTool, Instance
    <3>4. QED
      BY <3>2, <3>3 DEF PauseOf
  <2>6. CASE ~AskPause(s) /\ ~EndTool(s)
    <3>1. core'[s].pause = core[s].pause
      BY <2>3, <2>6
    <3>2. ASSUME SameOutputs(s), consumer'[s].pending = consumer[s].pending
          PROVE  PauseOf(s)'
      BY <2>1, <3>1, <3>2 DEF PauseOf, SameOutputs
    <3>3. CASE consumer'[s].outputs = consumer[s].outputs /\ consumer'[s].pending = consumer[s].pending
      <4>1. SameOutputs(s)
        BY <3>3, Zenon DEF SameOutputs, Has, HasOnce, Contains, Once
      <4>2. QED
        BY <3>2, <3>3, <4>1
    <3>4. CASE FromLoop(s)
      <4>1. \/ SameOutputs(s) \/ NewOutput(s, "Idle") \/ NewOutput(s, "Closed")
        BY <2>6, <3>4 DEF FromLoop
      <4>2. consumer'[s].pending = consumer[s].pending
        BY <3>4 DEF FromLoop, Waits
      <4>3. ASSUME NewOutput(s, "Idle") \/ NewOutput(s, "Closed")
            PROVE  /\ Has(s, "Pause")' <=> Has(s, "Pause")
                   /\ Has(s, "ToolResult")' <=> Has(s, "ToolResult")
                   /\ HasOnce(s, "Pause") => HasOnce(s, "Pause")'
        BY <4>3 DEF NewOutput
      <4>4. QED
        BY <2>1, <3>1, <3>2, <4>1, <4>2, <4>3 DEF PauseOf
    <3>5. CASE ByItself(s)
      <4>1. CASE SameOutputs(s) /\ consumer'[s].pending = consumer[s].pending
        BY <3>2, <4>1
      <4>2. CASE OneLess(s) /\ consumer'[s].pending = consumer[s].pending
                  /\ Output(s) \notin {"Pause", "ToolResult"}
        <5>1. /\ Has(s, "Pause")' <=> Has(s, "Pause")
              /\ Has(s, "ToolResult")' <=> Has(s, "ToolResult")
              /\ HasOnce(s, "Pause") => HasOnce(s, "Pause")'
          BY <4>2 DEF OneLess
        <5>2. QED
          BY <2>1, <3>1, <4>2, <5>1 DEF PauseOf
      <4>3. CASE OneLess(s) /\ Output(s) = "Pause" /\ consumer'[s].pending = TRUE
        <5>1. /\ Has(s, "Pause")
              /\ Has(s, "ToolResult")' <=> Has(s, "ToolResult")
              /\ HasOnce(s, "Pause") => HasOnce(s, "Pause")' /\ ~Has(s, "Pause")'
          BY <4>3 DEF OneLess
        <5>2. QED
          BY <2>1, <3>1, <4>3, <5>1 DEF PauseOf
      <4>4. CASE OneLess(s) /\ Output(s) = "ToolResult"
        <5>1. Has(s, "ToolResult") /\ (HasOnce(s, "Pause") => HasOnce(s, "Pause")')
          BY <4>4 DEF OneLess
        <5>2. QED
          BY <3>1, <5>1 DEF PauseOf
      <4>5. QED
        BY <3>5, <4>1, <4>2, <4>3, <4>4 DEF ByItself, Waits, ConsumeIdle, ConsumeEvent, ConsumeClosed
    <3>6. QED
      BY <2>2, <3>3, <3>4, <3>5, ConsumerMoves DEF Builds
  <2>7. QED
    BY <2>4, <2>5, <2>6
<1>3. QED
  BY <1>1, <1>2

-----------------------------------------------------------------------------
(* The whole invariant.                                                      *)
LEMMA SessionInit ==
    ASSUME Init
    PROVE  SessionInv
<1>0. /\ scene \in Scenarios /\ MaxSessions \in Nat \ {0} /\ NoSession = 0
      /\ \A s \in Sessions : s \in Nat /\ s > 0
  BY SessionAssumption DEF Init, Sessions, NoSession
<1>1. /\ \A s \in Sessions : consumer[s] = [at |-> "none", outputs |-> <<>>, pending |-> FALSE]
      /\ \A s \in Sessions : core[s] = [life |-> "none", slot |-> "Free", loop |-> "top", permit |-> FALSE,
                                         pause |-> "none", memory |-> {}]
      /\ \A s \in Sessions : presence[s] = [conns |-> {}, controller |-> Nobody, served |-> FALSE]
      /\ \A a \in Actors : actor[a] = [at |-> "start", session |-> 0, read |-> {}, age |-> 0]
  BY DEF Init, Absent, NoSession
<1>2. /\ ThreadTyped
  BY <1>0 DEF Init, ThreadTyped
<1>3. PresenceTyped
  BY DEF Init, PresenceTyped, Clients
<1>4. CoreTyped
  BY DEF Init, CoreTyped, Instance
<1>5. ConsumerTyped
  BY EmptySeq DEF Init, ConsumerTyped, Listener, Outputs
<1>6. ActorTyped
  BY <1>0 DEF Init, ActorTyped, Absent, Places
<1>7. LinkTyped
  BY EmptySeq DEF Init, LinkTyped
<1>8. DueTyped
  BY <1>0 DEF Init, DueTyped, NoSend, Clients
<1>9. ControllerIsConnected
  BY <1>1 DEF ControllerIsConnected
<1>10. Unbuilt
  BY <1>0, <1>1 DEF Init, Unbuilt
<1>11. Announced
  BY <1>1, EmptyHasNone DEF Announced
<1>12. SlotInv
  BY <1>1 DEF SlotInv, Actors
<1>13. Attached
  BY <1>1 DEF Attached, Actors
<1>14. LoaderInv
  BY <1>1 DEF Init, LoaderInv
<1>15. PauseInv
  BY <1>1, EmptyHasNone DEF PauseInv, PauseOf, HasOnce, Once, Holders, Actors
<1>16. LiveIsCached /\ MemoryIsStored
  BY <1>1 DEF LiveIsCached, MemoryIsStored
<1>17. RolesConverge
  BY <1>1 DEF RolesConverge, Actors
<1>18. QED
  BY <1>2, <1>3, <1>4, <1>5, <1>6, <1>7, <1>8, <1>9, <1>10, <1>11, <1>12, <1>13, <1>14, <1>15, <1>16, <1>17
     DEF SessionInv, SessionTypeOK

LEMMA SessionStep ==
    ASSUME SessionInv, [Next]_vars
    PROVE  SessionInv'
BY TypesStep, UnbuiltStep, AnnouncedStep, SlotStep, AttachedStep, LoaderStep, PauseStep, LiveStep, MemoryStep, RolesStep
   DEF SessionInv

LEMMA SessionAlways == SessionSpec => []SessionInv
<1>1. Init => SessionInv
  BY SessionInit
<1>2. SessionInv /\ [Next]_vars => SessionInv'
  BY SessionStep
<1>3. QED
  BY <1>1, <1>2, PTL DEF SessionSpec

(* In every history every variable keeps its type, and whoever controls a   *)
(* session has a connection to it (presence.rs): no order of registering,   *)
(* taking over, releasing and leaving makes an absent client its controller. *)
THEOREM SessionTypeCorrect == SessionSpec => []SessionTypeOK
<1>1. SessionInv => SessionTypeOK
  BY DEF SessionInv
<1>2. QED
  BY <1>1, SessionAlways, PTL

(* However many connections and requests look for the thread at a time, and *)
(* whenever its sessions are reclaimed, the sessions that accept work are   *)
(* the cached one and those create_thread replaced (manager/threads.rs).     *)
THEOREM LiveSessionIsCached == SessionSpec => []LiveIsCached
<1>1. SessionInv => LiveIsCached
  BY DEF SessionInv
<1>2. QED
  BY <1>1, SessionAlways, PTL

(* A session that is rebuilt continues with everything its predecessors     *)
(* stored: the store is read after the last of them had closed              *)
(* (get_or_load_thread), except for the loaders that were overtaken.         *)
THEOREM MemoryFollowsStore == SessionSpec => []MemoryIsStored
<1>1. SessionInv => MemoryIsStored
  BY DEF SessionInv
<1>2. QED
  BY <1>1, SessionAlways, PTL

(* For any number of clients: when all announcements were heard, each       *)
(* connection shows its own role, in whatever order the changes of control  *)
(* were announced (transport/ws.rs).                                         *)
THEOREM RolesFollowControl == SessionSpec => []RolesConverge
<1>1. SessionInv => RolesConverge
  BY DEF SessionInv
<1>2. QED
  BY <1>1, SessionAlways, PTL

(* For any number of answers at a time: a pause the consumer has heard of   *)
(* is in the pending set or with exactly one of them (tool_pause.rs).        *)
THEOREM OneAnswererPerPause == SessionSpec => []PauseHasOneAnswerer
<1>1. ASSUME PauseInv
      PROVE  PauseHasOneAnswerer
  <2>1. SUFFICES ASSUME NEW s \in Sessions, core[s].pause = "waiting", consumer[s].outputs = <<>>
                 PROVE  IF consumer[s].pending THEN Holders(s) = {} ELSE Cardinality(Holders(s)) = 1
    BY DEF PauseHasOneAnswerer, Holders
  <2>2. ~Has(s, "Pause")
    BY <2>1, EmptyHasNone
  <2>3. \A r : Cardinality({r}) = 1
    BY FS_Singleton
  <2>4. QED
    BY <1>1, <2>1, <2>2, <2>3 DEF PauseInv, PauseOf
<1>2. SessionInv => PauseHasOneAnswerer
  BY <1>1 DEF SessionInv
<1>3. QED
  BY <1>2, SessionAlways, PTL
=============================================================================
