---------------------------- MODULE SessionLife ----------------------------
(***************************************************************************)
(* One thread of a project as the server keeps it: the cache entry, the    *)
(* sessions that are built for it and reclaimed again, the WebSocket       *)
(* connections and HTTP requests that use them, who controls the thread,   *)
(* and the consumer of each session's core instance.                       *)
(*                                                                         *)
(* The core is what RunAdmission shows it to be: one slot for a run, asked *)
(* for by reservations, and a loop that announces that it is idle.         *)
(***************************************************************************)
EXTENDS Naturals, Sequences, FiniteSets

CONSTANTS
    Conns,        \* WebSocket connections; each connects at most once
    Requests,     \* HTTP requests
    MaxSessions,  \* bound on the sessions built
    Scenarios     \* each says who takes part: for a connection or a request its
                  \* client id, what a request asks for, and whether the thread
                  \* is created before their eyes

Actors == Conns \cup Requests
Nobody == "nobody"
NoSession == 0
Sessions  == 1..MaxSessions

ASSUME SessionAssumption ==
    /\ Conns \cap Requests = {} /\ "Free" \notin Requests
    /\ \A story \in Scenarios :
          /\ DOMAIN story.client \subseteq Actors
          /\ \A a \in DOMAIN story.client : story.client[a] # Nobody
          /\ \A r \in Requests \cap DOMAIN story.client :
                story.kind[r] \in {"run", "claim", "takeover", "release", "answer"}
    /\ MaxSessions \in Nat \ {0}

VARIABLES
    scene,     \* the scenario
    creator,   \* create_thread: "asked", "stored" or "done"
    cache,     \* `threads`: the session of this thread, or NoSession
    built,     \* how many sessions were built
    stored,    \* the runs in the stored context
    presence,  \* ClientPresence of a session
    core,      \* its core instance
    consumer,  \* its consumer task
    actor,     \* where a connection or request is
    link,      \* what a connection has been sent
    due,       \* controller changes not announced yet, by who made them
    orphans,   \* history: sessions create_thread put another one over
    overtaken  \* history: sessions whose loading began before another was built

vars == <<scene, creator, cache, built, stored, presence, core, consumer, actor, link, due, orphans, overtaken>>
historyVars == <<orphans, overtaken>>
threadVars  == <<scene, creator, cache, built, stored>>
sessionVars == <<presence, core, consumer>>

Participants == DOMAIN scene.client
ClientOf(a)  == scene.client[a]

NoSend == [session |-> NoSession, controller |-> Nobody]
Absent(place) == [at |-> place, session |-> NoSession, read |-> {}, age |-> 0]

Init ==
    /\ scene \in Scenarios
    /\ creator = (IF scene.creates THEN "asked" ELSE "done")
    /\ cache = NoSession /\ built = 0 /\ stored = {}
    /\ presence = [s \in Sessions |-> [conns |-> {}, controller |-> Nobody, served |-> FALSE]]
    /\ core = [s \in Sessions |-> [life |-> "none", slot |-> "Free", loop |-> "top", permit |-> FALSE,
                                   pause |-> "none", memory |-> {}]]
    /\ consumer = [s \in Sessions |-> [at |-> "none", outputs |-> <<>>, pending |-> FALSE]]
    /\ actor = [a \in Actors |-> Absent("start")]
    /\ link = [c \in Conns |-> [queue |-> <<>>, role |-> FALSE]]
    /\ due = [a \in Actors |-> NoSend]
    /\ orphans = {} /\ overtaken = {}

-----------------------------------------------------------------------------
(* The cache of sessions.                                                    *)

(* ThreadSession::build: the consumer starts the instance.                  *)
BuildSession(s, context) ==
    /\ built' = s
    /\ cache' = s
    /\ core' = [core EXCEPT ![s] = [@ EXCEPT !.life = "Active", !.memory = context]]
    /\ consumer' = [consumer EXCEPT ![s].at = "listening"]

(* create_thread: the row makes the thread visible to others, the session   *)
(* is then put into the cache over whatever is there.                        *)
CreateRow ==
    /\ creator = "asked"
    /\ creator' = "stored"
    /\ UNCHANGED <<scene, cache, built, stored, sessionVars, actor, link, due, historyVars>>

CreateSession ==
    /\ creator = "stored" /\ built < MaxSessions
    /\ creator' = "done"
    /\ BuildSession(built + 1, {})
    /\ orphans' = orphans \cup ({cache} \ {NoSession})
    /\ overtaken' = overtaken \cup (IF built = 0 THEN {} ELSE {built'})
    /\ UNCHANGED <<scene, stored, presence, actor, link, due>>

GoTo(a, place) == actor' = [actor EXCEPT ![a] = IF place = "over" THEN Absent(place) ELSE [@ EXCEPT !.at = place]]

(* get_or_load_thread: look, read the store without the lock, look again    *)
(* and build under the lock.                                                 *)
Lookup(a) ==
    /\ a \in Participants /\ actor[a].at = "start" /\ creator # "asked"
    /\ actor' = [actor EXCEPT ![a] =
          IF cache = NoSession THEN [at |-> "missed", session |-> NoSession, read |-> {}, age |-> built]
                               ELSE [at |-> "found", session |-> cache, read |-> {}, age |-> 0]]
    /\ UNCHANGED <<threadVars, sessionVars, link, due, historyVars>>

ReadStore(a) ==
    /\ actor[a].at = "missed"
    /\ actor' = [actor EXCEPT ![a] = [@ EXCEPT !.at = "read", !.read = stored]]
    /\ UNCHANGED <<threadVars, sessionVars, link, due, historyVars>>

MutantLoadSession(a) ==
    /\ actor[a].at = "read"
    /\ built < MaxSessions /\ BuildSession(built + 1, actor[a].read)
    /\ actor' = [actor EXCEPT ![a] = [at |-> "found", session |-> cache', read |-> {}, age |-> 0]]
    /\ overtaken' = overtaken \cup (IF built = actor[a].age THEN {} ELSE {built'})
    /\ UNCHANGED <<scene, creator, stored, presence, link, due, orphans>>

LoadSession(a) ==
    /\ actor[a].at = "read"
    /\ IF cache # NoSession
       THEN UNCHANGED <<built, cache, core, consumer, overtaken>>
       ELSE /\ built < MaxSessions /\ BuildSession(built + 1, actor[a].read)
            /\ overtaken' = overtaken \cup (IF built = actor[a].age THEN {} ELSE {built'})
    /\ actor' = [actor EXCEPT ![a] = [at |-> "found", session |-> cache', read |-> {}, age |-> 0]]
    /\ UNCHANGED <<scene, creator, stored, presence, link, due, orphans>>

-----------------------------------------------------------------------------
(* Presence and control of a session.                                        *)

Connected(s) == {ClientOf(c) : c \in presence[s].conns}

(* random_client_id                                                           *)
OneOf(clients) == IF clients = {} THEN {Nobody} ELSE clients

(* Who controls s is changed under the lock; the change is due to be        *)
(* announced after the lock was released.                                     *)
Control(a, s, conns, controller, served) ==
    /\ presence' = [presence EXCEPT ![s] = [conns |-> conns, controller |-> controller, served |-> served]]
    /\ due' = [due EXCEPT ![a] = IF controller = presence[s].controller THEN NoSend
                                   ELSE [session |-> s, controller |-> controller]]

Takeover(a, s) == Control(a, s, presence[s].conns, ClientOf(a), presence[s].served)

Announce(a) ==
    /\ due[a] # NoSend
    /\ link' = [c \in Conns |->
          IF actor[c].session = due[a].session /\ actor[c].at \in {"registered", "live"}
          THEN [link[c] EXCEPT !.queue = Append(@, due[a].controller)] ELSE link[c]]
    /\ due' = [due EXCEPT ![a] = NoSend]
    /\ UNCHANGED <<threadVars, sessionVars, actor, historyVars>>

(* Whoever has something to announce does nothing else before.               *)
At(a, place) == actor[a].at = place /\ due[a] = NoSend

Controls(c, s) == presence[s].controller = ClientOf(c) /\ ClientOf(c) \in Connected(s)

-----------------------------------------------------------------------------
(* A connection: handle_socket.                                              *)

(* The upgrade to a socket fails after the session was found.                *)
UpgradeFails(c) ==
    /\ c \in Conns /\ At(c, "found")
    /\ GoTo(c, "over")
    /\ UNCHANGED <<threadVars, sessionVars, link, due, historyVars>>

(* Subscribe to events and controller changes, then register.               *)
Register(c) ==
    /\ c \in Conns /\ At(c, "found")
    /\ LET s == actor[c].session
           controller == IF presence[s].controller = Nobody THEN ClientOf(c) ELSE presence[s].controller
       IN Control(c, s, presence[s].conns \cup {c}, controller, TRUE)
    /\ GoTo(c, "registered")
    /\ UNCHANGED <<threadVars, core, consumer, link, historyVars>>

TellRole(c) ==
    /\ At(c, "registered")
    /\ GoTo(c, "live")
    /\ link' = [link EXCEPT ![c].role = Controls(c, actor[c].session)]
    /\ UNCHANGED <<threadVars, sessionVars, due, historyVars>>

MutantHearController(c) ==
    /\ At(c, "live") /\ link[c].queue # <<>>
    /\ link' = [link EXCEPT ![c] = [queue |-> Tail(@.queue), role |-> Head(@.queue) = ClientOf(c)]]
    /\ UNCHANGED <<threadVars, sessionVars, actor, due, historyVars>>

(* A controller change is forwarded and the own role looked up anew.         *)
HearController(c) ==
    /\ At(c, "live") /\ link[c].queue # <<>>
    /\ link' = [link EXCEPT ![c] = [queue |-> Tail(@.queue), role |-> Controls(c, actor[c].session)]]
    /\ UNCHANGED <<threadVars, sessionVars, actor, due, historyVars>>

MutantDisconnect(c) ==
    /\ actor[c].at \in {"registered", "live"} /\ due[c] = NoSend
    /\ LET s == actor[c].session
       IN Control(c, s, presence[s].conns \ {c}, presence[s].controller, presence[s].served)
    /\ GoTo(c, "left")
    /\ link' = [link EXCEPT ![c] = [queue |-> <<>>, role |-> FALSE]]
    /\ UNCHANGED <<threadVars, core, consumer, historyVars>>

(* The socket ends, at the latest with the client: unregister.               *)
Disconnect(c) ==
    /\ actor[c].at \in {"registered", "live"} /\ due[c] = NoSend
    /\ LET s == actor[c].session
           rest == presence[s].conns \ {c}
           clients == {ClientOf(d) : d \in rest}
       IN \E next \in IF presence[s].controller = ClientOf(c) /\ ClientOf(c) \notin clients
                      THEN OneOf(clients) ELSE {presence[s].controller} :
             Control(c, s, rest, next, presence[s].served)
    /\ GoTo(c, "left")
    /\ link' = [link EXCEPT ![c] = [queue |-> <<>>, role |-> FALSE]]
    /\ UNCHANGED <<threadVars, core, consumer, historyVars>>

Reclaimable(s) == core[s].life = "Active" /\ core[s].slot = "Free"

(* RunGate::close_idle; the loop is woken by the permit.                     *)
CloseIdle(s) == core' = [core EXCEPT ![s] = [@ EXCEPT !.life = "Closing", !.permit = TRUE]]

(* close_thread_if_idle: first a look without the lock of the cache ...      *)
LookIfIdle(c) ==
    /\ At(c, "left")
    /\ LET s == actor[c].session
       IN GoTo(c, IF presence[s].conns = {} /\ Reclaimable(s) THEN "closing" ELSE "over")
    /\ UNCHANGED <<threadVars, sessionVars, link, due, historyVars>>

MutantCloseIfIdle(c) ==
    /\ At(c, "closing")
    /\ LET s == actor[c].session
       IN IF cache = s /\ presence[s].conns = {} /\ core[s].life = "Active"
          THEN CloseIdle(s) /\ cache' = NoSession
          ELSE UNCHANGED <<core, cache>>
    /\ GoTo(c, "over")
    /\ UNCHANGED <<scene, creator, built, stored, presence, consumer, link, due, historyVars>>

(* ... then test and transition under that lock, presence and the gate.      *)
CloseIfIdle(c) ==
    /\ At(c, "closing")
    /\ LET s == actor[c].session
       IN IF cache = s /\ presence[s].conns = {} /\ Reclaimable(s)
          THEN CloseIdle(s) /\ cache' = NoSession
          ELSE UNCHANGED <<core, cache>>
    /\ GoTo(c, "over")
    /\ UNCHANGED <<scene, creator, built, stored, presence, consumer, link, due, historyVars>>

-----------------------------------------------------------------------------
(* Requests.                                                                 *)

Asks(r, kind) == At(r, "found") /\ scene.kind[r] = kind

(* claim_controller, and release_controller, which looks for another client *)
(* but may find none                                                         *)
Claim(r) ==
    /\ Asks(r, "claim")
    /\ LET s == actor[r].session
           mine == ClientOf(r) \in Connected(s) /\ presence[s].controller = Nobody
       IN Control(r, s, presence[s].conns, IF mine THEN ClientOf(r) ELSE presence[s].controller, presence[s].served)
    /\ GoTo(r, "over")
    /\ UNCHANGED <<threadVars, core, consumer, link, historyVars>>

Release(r) ==
    /\ Asks(r, "release")
    /\ LET s == actor[r].session
       IN \E next \in IF presence[s].controller = ClientOf(r)
                      THEN OneOf(Connected(s) \ {ClientOf(r)}) ELSE {presence[s].controller} :
             Control(r, s, presence[s].conns, next, presence[s].served)
    /\ GoTo(r, "over")
    /\ UNCHANGED <<threadVars, core, consumer, link, historyVars>>

(* takeover_controller, and take_control of a run request                    *)
TakeControl(r, kind, next) ==
    /\ Asks(r, kind)
    /\ IF ClientOf(r) \in Connected(actor[r].session)
       THEN Takeover(r, actor[r].session) /\ GoTo(r, next)
       ELSE GoTo(r, "over") /\ UNCHANGED <<presence, due>>
    /\ UNCHANGED <<threadVars, core, consumer, link, historyVars>>

(* submit_prepared_run: reserve, then an acceptance task of the session.     *)
Reserve(r) ==
    /\ At(r, "control")
    /\ LET s == actor[r].session
       IN IF Reclaimable(s)
          THEN core' = [core EXCEPT ![s].slot = r] /\ GoTo(r, "reserved")
          ELSE GoTo(r, "over") /\ UNCHANGED core
    /\ UNCHANGED <<threadVars, presence, consumer, link, due, historyVars>>

MutantDropReservation(r) ==
    /\ At(r, "reserved")
    /\ core' = [core EXCEPT ![actor[r].session].slot = "Free"]
    /\ GoTo(r, "over")
    /\ UNCHANGED <<threadVars, presence, consumer, link, due, historyVars>>

(* The HTTP side is gone before the task began, or the store refuses the row *)
DropReservation(r) ==
    /\ At(r, "reserved")
    /\ core' = [core EXCEPT ![actor[r].session] = [@ EXCEPT !.slot = "Free", !.permit = TRUE]]
    /\ GoTo(r, "over")
    /\ UNCHANGED <<threadVars, presence, consumer, link, due, historyVars>>

AcceptRun(r) ==
    /\ At(r, "reserved")
    /\ GoTo(r, "accepted")
    /\ UNCHANGED <<threadVars, sessionVars, link, due, historyVars>>

(* The commit is received by the loop while it waits ...                     *)
CommitRun(r) ==
    /\ At(r, "accepted") /\ core[actor[r].session].loop = "select"
    /\ core[actor[r].session].life = "Active"
    /\ core' = [core EXCEPT ![actor[r].session].loop = "run"]
    /\ GoTo(r, "running")
    /\ UNCHANGED <<threadVars, presence, consumer, link, due, historyVars>>

Accepting(s) == \E r \in Requests : actor[r].session = s /\ actor[r].at \in {"reserved", "accepted"}

-----------------------------------------------------------------------------
(* Answers to a pause.                                                       *)

MutantTakePause(r) ==
    /\ Asks(r, "answer")
    /\ GoTo(r, IF consumer[actor[r].session].pending THEN "holds" ELSE "over")
    /\ UNCHANGED <<threadVars, sessionVars, link, due, historyVars>>

(* begin_tool_pause_resolution: out of the set, then take control, or back.  *)
TakePause(r) ==
    /\ Asks(r, "answer")
    /\ LET s == actor[r].session
       IN /\ GoTo(r, IF consumer[s].pending THEN "holds" ELSE "over")
          /\ consumer' = [consumer EXCEPT ![s].pending = FALSE]
    /\ UNCHANGED <<threadVars, presence, core, link, due, historyVars>>

ControlForAnswer(r) ==
    /\ At(r, "holds")
    /\ LET s == actor[r].session
       IN IF ClientOf(r) \in Connected(s)
          THEN Takeover(r, s) /\ GoTo(r, "answering") /\ UNCHANGED consumer
          ELSE /\ consumer' = [consumer EXCEPT ![s].pending = TRUE]
               /\ GoTo(r, "over") /\ UNCHANGED <<presence, due>>
    /\ UNCHANGED <<threadVars, core, link, historyVars>>

(* resolve_tool_pause of the core: an error if the pause is gone.            *)
Answer(r) ==
    /\ At(r, "answering")
    /\ core' = [core EXCEPT ![actor[r].session].pause = IF @ = "waiting" THEN "answered" ELSE @]
    /\ GoTo(r, "over")
    /\ UNCHANGED <<threadVars, presence, consumer, link, due, historyVars>>

-----------------------------------------------------------------------------
(* The core instance of a session.                                           *)

Send(s, output) == consumer' = [consumer EXCEPT ![s].outputs = Append(@, output)]

Owner(s) == core[s].slot

LoopTop(s) ==
    /\ core[s].life # "none" /\ core[s].loop = "top"
    /\ core' = [core EXCEPT ![s].loop = IF core[s].life = "Active" THEN "select" ELSE "closing"]
    /\ IF Reclaimable(s) THEN Send(s, "Idle") ELSE UNCHANGED consumer
    /\ UNCHANGED <<threadVars, presence, actor, link, due, historyVars>>

(* wait_reservation_released                                                 *)
LoopWoken(s) ==
    /\ core[s].loop = "select" /\ core[s].permit
    /\ core' = [core EXCEPT ![s] = [@ EXCEPT !.loop = "top", !.permit = FALSE]]
    /\ UNCHANGED <<threadVars, presence, consumer, actor, link, due, historyVars>>

AskPause(s) ==
    /\ core[s].loop = "run" /\ core[s].pause = "none"
    /\ \E r \in Requests \cap Participants : scene.kind[r] = "answer"
    /\ core' = [core EXCEPT ![s].pause = "waiting"]
    /\ Send(s, "Pause")
    /\ UNCHANGED <<threadVars, presence, actor, link, due, historyVars>>

(* The tool ends: it was answered, or the run was stopped.                   *)
EndTool(s) ==
    /\ core[s].pause \in {"waiting", "answered"}
    /\ core' = [core EXCEPT ![s].pause = "over"]
    /\ Send(s, "ToolResult")
    /\ UNCHANGED <<threadVars, presence, actor, link, due, historyVars>>

(* The run's messages are appended to the stored context and to memory, its *)
(* row becomes final, its slot free.                                         *)
StoreRun(s) ==
    /\ core[s].loop = "run" /\ Owner(s) \notin stored
    /\ stored' = stored \cup {Owner(s)}
    /\ core' = [core EXCEPT ![s].memory = @ \cup {Owner(s)}]
    /\ UNCHANGED <<scene, creator, cache, built, presence, consumer, actor, link, due, historyVars>>

FinishRun(s) ==
    /\ core[s].loop = "run" /\ Owner(s) \in stored /\ core[s].pause \in {"none", "over"}
    /\ core' = [core EXCEPT ![s] = [@ EXCEPT !.loop = "top", !.slot = "Free"]]
    /\ GoTo(Owner(s), "over")
    /\ UNCHANGED <<threadVars, presence, consumer, link, due, historyVars>>

(* shutdown waits for reservations; then Closed is announced.                *)
Shutdown(s) ==
    /\ core[s].loop = "closing" /\ core[s].slot = "Free"
    /\ core' = [core EXCEPT ![s] = [@ EXCEPT !.loop = "exited", !.life = "Closed", !.permit = FALSE, !.memory = {}]]
    /\ Send(s, "Closed")
    /\ UNCHANGED <<threadVars, presence, actor, link, due, historyVars>>

-----------------------------------------------------------------------------
(* The consumer of a session's output.                                       *)

Output(s) == Head(consumer[s].outputs)
Listening(s) == consumer[s].at = "listening" /\ consumer[s].outputs # <<>>

(* Idle: presence is read under its lock, the close follows without it.      *)
ConsumeIdle(s) ==
    /\ Listening(s) /\ Output(s) = "Idle"
    /\ consumer' = [consumer EXCEPT ![s] = [@ EXCEPT !.outputs = Tail(consumer[s].outputs),
          !.at = IF presence[s].conns = {} /\ presence[s].served THEN "reclaiming" ELSE "listening"]]
    /\ UNCHANGED <<threadVars, presence, core, actor, link, due, historyVars>>

ReclaimIdle(s) ==
    /\ consumer[s].at = "reclaiming"
    /\ IF Reclaimable(s) THEN CloseIdle(s) ELSE UNCHANGED core
    /\ consumer' = [consumer EXCEPT ![s].at = "listening"]
    /\ UNCHANGED <<threadVars, presence, actor, link, due, historyVars>>

(* apply_tool_pause_update                                                   *)
ConsumeEvent(s) ==
    /\ Listening(s) /\ Output(s) \in {"Pause", "ToolResult"}
    /\ consumer' = [consumer EXCEPT ![s] = [@ EXCEPT !.outputs = Tail(consumer[s].outputs), !.pending = Output(s) = "Pause"]]
    /\ UNCHANGED <<threadVars, presence, core, actor, link, due, historyVars>>

ConsumeClosed(s) ==
    /\ Listening(s) /\ Output(s) = "Closed" /\ ~Accepting(s)
    /\ consumer' = [consumer EXCEPT ![s] = [@ EXCEPT !.outputs = Tail(consumer[s].outputs), !.at = "done"]]
    /\ UNCHANGED <<threadVars, presence, core, actor, link, due, historyVars>>

(* start_session_reclaim: only the instance that was closed is removed.      *)
DropFromCache(s) ==
    /\ consumer[s].at = "done"
    /\ consumer' = [consumer EXCEPT ![s].at = "dropped"]
    /\ cache' = IF cache = s THEN NoSession ELSE cache
    /\ UNCHANGED <<scene, creator, built, stored, presence, core, actor, link, due, historyVars>>

-----------------------------------------------------------------------------
LoadStep(a) == Lookup(a) \/ ReadStore(a) \/ LoadSession(a)

ConnStep(c) ==
    Register(c) \/ TellRole(c) \/ HearController(c) \/ LookIfIdle(c) \/ CloseIfIdle(c)

RequestStep(r) ==
    \/ Claim(r) \/ Release(r) \/ TakeControl(r, "takeover", "over") \/ TakeControl(r, "run", "control")
    \/ Reserve(r) \/ AcceptRun(r) \/ DropReservation(r) \/ CommitRun(r)
    \/ TakePause(r) \/ ControlForAnswer(r) \/ Answer(r)

CoreStep(s) == LoopTop(s) \/ LoopWoken(s) \/ StoreRun(s) \/ FinishRun(s) \/ Shutdown(s)

ConsumerStep(s) == ConsumeIdle(s) \/ ReclaimIdle(s) \/ ConsumeEvent(s) \/ ConsumeClosed(s) \/ DropFromCache(s)

Next ==
    \/ CreateRow \/ CreateSession
    \/ \E a \in Actors : LoadStep(a) \/ Announce(a)
    \/ \E c \in Conns : ConnStep(c) \/ UpgradeFails(c) \/ Disconnect(c)
    \/ \E r \in Requests : RequestStep(r)
    \/ \E s \in Sessions : CoreStep(s) \/ ConsumerStep(s) \/ AskPause(s) \/ EndTool(s)

(* Tasks run on: connections and requests that began, the instance, whose    *)
(* runs end unless a pause waits, and the consumer.  Nobody has to connect,  *)
(* disconnect, ask or answer.  Some task that can go on does: the scheduler  *)
(* gives every task its turn, and none can go on for ever.                   *)
RunOn ==
    \/ CreateSession
    \/ \E a \in Actors : ReadStore(a) \/ LoadSession(a) \/ Announce(a)
    \/ \E c \in Conns : ConnStep(c)
    \/ \E r \in Requests : RequestStep(r)
    \/ \E s \in Sessions : CoreStep(s) \/ ConsumerStep(s) \/ (core[s].pause = "answered" /\ EndTool(s))

SessionSpec == Init /\ [][Next]_vars /\ WF_vars(RunOn)

-----------------------------------------------------------------------------
Clients == {ClientOf(a) : a \in Participants} \cup {Nobody}
Places  == {"start", "missed", "read", "found", "registered", "live", "left", "closing",
            "control", "reserved", "accepted", "running", "holds", "answering", "over"}

ThreadTyped ==
    /\ scene \in Scenarios /\ creator \in {"asked", "stored", "done"}
    /\ built \in 0..MaxSessions /\ cache \in 0..built /\ stored \subseteq Requests
    /\ orphans \subseteq 1..built /\ overtaken \subseteq 1..built

PresenceTyped ==
    presence \in [Sessions -> [conns : SUBSET (Conns \cap Participants), controller : Clients, served : BOOLEAN]]

Instance ==
    [life : {"none", "Active", "Closing", "Closed"}, slot : Requests \cup {"Free"},
     loop : {"top", "select", "run", "closing", "exited"}, permit : BOOLEAN,
     pause : {"none", "waiting", "answered", "over"}, memory : SUBSET Requests]
CoreTyped == core \in [Sessions -> Instance]

Outputs == {"Idle", "Pause", "ToolResult", "Closed"}
Listener ==
    [at : {"none", "listening", "reclaiming", "done", "dropped"}, outputs : Seq(Outputs), pending : BOOLEAN]
ConsumerTyped == consumer \in [Sessions -> Listener]

(* Only participants leave the start, and with a session that was built.    *)
ActorTyped ==
    /\ actor \in [Actors -> [at : Places, session : 0..MaxSessions, read : SUBSET Requests, age : 0..MaxSessions]]
    /\ \A a \in Actors :
          /\ actor[a].at # "start" => a \in Participants
          /\ actor[a].session <= built
          /\ actor[a].at \notin {"start", "missed", "read", "over"} => actor[a].session # NoSession

LinkTyped == link \in [Conns -> [queue : Seq(Clients), role : BOOLEAN]]
DueTyped  == due \in [Actors -> [session : 0..MaxSessions, controller : Clients]]

(* The controller of a session is one of its connected clients.             *)
ControllerIsConnected == \A s \in Sessions : presence[s].controller \in Connected(s) \cup {Nobody}

(* Every variable keeps its type, and the controller of a session is one of *)
(* its connected clients (presence.rs:8).                                    *)
SessionTypeOK ==
    /\ ThreadTyped /\ PresenceTyped /\ CoreTyped /\ ConsumerTyped
    /\ ActorTyped /\ LinkTyped /\ DueTyped /\ ControllerIsConnected

(* The sessions that accept work are the cached one and those create_thread *)
(* put another one over: a loader that was overtaken, a reclaim that comes   *)
(* late and the announcement of an old instance leave no second one behind   *)
(* (get_or_load_thread, close_thread_if_idle, start_session_reclaim).        *)
LiveIsCached ==
    \A s \in Sessions : core[s].life = "Active" => s = cache \/ s \in orphans

(* A live session has in memory the context that is stored: it was loaded   *)
(* after the last run of any earlier session.  This does not hold for a      *)
(* thread whose session create_thread doubled, nor for a session whose       *)
(* loading began before another one was built, which has been reclaimed by   *)
(* the second look into the cache (threads.rs, get_or_load_thread).          *)
MemoryIsStored ==
    orphans = {} =>
        \A s \in Sessions \ overtaken : core[s].life = "Active" => core[s].memory = stored

(* Whoever controls the thread: as soon as every change was announced and    *)
(* heard, each connection has been told its own role, although two changes   *)
(* may be announced in the other order (ws.rs, the controller arm).          *)
RolesConverge ==
    \A c \in Conns :
        /\ actor[c].at = "live" /\ link[c].queue = <<>>
        /\ \A a \in Actors : due[a].session # actor[c].session
        => link[c].role = Controls(c, actor[c].session)

(* A pause the clients know of can be answered, and by one request only: it *)
(* is in the pending set or in the hands of one request, also when that      *)
(* request's client is gone before it got control (tool_pause.rs).           *)
PauseHasOneAnswerer ==
    \A s \in Sessions :
        core[s].pause = "waiting" /\ consumer[s].outputs = <<>> =>
            LET holders == {r \in Requests : actor[r].session = s /\ actor[r].at \in {"holds", "answering"}}
            IN IF consumer[s].pending THEN holders = {} ELSE Cardinality(holders) = 1

(* A session that served clients and has none is closed, or is connected to, *)
(* or waits for an answer, or create_thread took it out of the cache: a run, *)
(* a reservation that was dropped or a disconnect while the consumer looks   *)
(* do not leave it running (threads.rs, close_thread_if_idle: no polling).   *)
UnattendedIsReclaimed ==
    \A s \in Sessions :
        presence[s].served /\ presence[s].conns = {} ~>
            presence[s].conns # {} \/ core[s].life = "Closed" \/ core[s].pause = "waiting" \/ s \in orphans

=============================================================================
