-------------------------- MODULE AgentLoopProofs --------------------------
(***************************************************************************)
(* Proofs about AgentLoop, for any set of host runs, tasks and events and  *)
(* any number of stops.  The invariant has three parts: where the loop is  *)
(* (FlowInv), what a stop knows of the tasks (StopInv), and where each     *)
(* completion is (DeliveryInv).                                            *)
(***************************************************************************)
EXTENDS AgentLoop, RunAdmissionProofs

FlowInv ==
    /\ step \in Steps
    /\ step \in RunSteps <=> pc = "run"
    /\ cancelFlag \in BOOLEAN /\ connected \in BOOLEAN
    /\ next \in AutoStarts \cup {NoStart}
    /\ undelivered \in BOOLEAN /\ wasCancelled \in BOOLEAN

(* No stop knows a task before the task table does.                        *)
StopInv ==
    /\ stage \in [Tasks -> Stages]
    /\ stamp \in [Tasks -> Stamps]
    /\ cancelled \cup stopped \subseteq Tasks
    /\ open \in BOOLEAN /\ generation \in Nat
    /\ stopped \cap At({"none", "creating"}) = {}
    /\ StoppedIsCancelled

Alive == lifecycle = "Active" /\ connected
Retry == inbox \ delivered
AckSteps == {"firstAck", "turnAck", "finalAck"}

PlacesTyped ==
    /\ pending \cup delivered \cup chan \cup queue \cup draining \cup inbox
           \subseteq Tasks
    /\ stored \subseteq Tasks
    /\ mem \in [Tasks -> 0..2]

(* The places a completion waits in are disjoint parts of what is pending. *)
HeldOnce ==
    /\ pending \cap delivered = {}
    /\ chan \cup queue \cup draining \cup Retry \subseteq pending
    /\ chan \cap (queue \cup draining \cup Retry) = {}
    /\ queue \cap (draining \cup Retry) = {}
    /\ draining \cap Retry = {}
    /\ Alive => pending \subseteq chan \cup queue \cup draining \cup Retry

(* The store and the ledger agree; what is in memory is delivered, and what *)
(* is delivered reaches memory unless the instance ends first.              *)
KeptOnce ==
    /\ rows = delivered
    /\ \A t \in Tasks : mem[t] = 0 \/ (mem[t] = 1 /\ t \in delivered \ inbox)
    /\ Alive => \A t \in delivered \ inbox : mem[t] = 1

DeliveryInv ==
    /\ PlacesTyped
    /\ HeldOnce
    /\ KeptOnce
    /\ draining # {} => step \in AckSteps

LoopInv == TypeInv /\ FlowInv /\ StopInv /\ DeliveryInv

-----------------------------------------------------------------------------
(* Every step of the loop is a step of RunAdmission or leaves its          *)
(* variables alone.  Only a follow-up needs to know what it starts.        *)
LEMMA LoopStepIsAdmissionStep ==
    ASSUME FlowInv, [LoopNext]_allVars
    PROVE  [AdmissionNext]_admissionVars
<1>1. CASE UNCHANGED allVars
  BY <1>1 DEF allVars
<1>2. CASE Top \/ StartRun \/ DeferStart
  BY <1>2 DEF Top, StartRun, DeferStart, AdmissionNext, TopStep, StartStep
<1>3. CASE IdleStep
  <2>1. SelectStep
    BY <1>3 DEF IdleStep, CommitRun, RecvStoppedCompletion, RecvCompletion,
       IdleStop, ApprovePlan, Compact, IdleOther, ConsumerGone, SelectStep,
       InternalStarts
  <2>2. QED
    BY <2>1 DEF AdmissionNext
<1>4. CASE CompactStep
  BY <1>4 DEF CompactStep, StopCompact, CloseCompact, RejectCompact, CompactEnds,
     AdmissionNext, BusyStep
<1>5. CASE QueryStep
  BY <1>5 DEF QueryStep, FirstDrain, FirstDrainAcked, SpawnTask, AutoCompact,
     TurnCompletes, TurnInterrupted, TurnDrained, TurnDrainFailed, QueryEnds,
     QueryOnly
<1>6. CASE QueryInput
  BY <1>6 DEF QueryInput, RecvRunCompletion, RunStop, RejectRun, QueryDropped,
     CloseRun, AdmissionNext, BusyStep
<1>7. CASE SettleStep
  <2>1. ASSUME FollowUp
        PROVE  BusyStep
    BY <2>1 DEF FollowUp, FlowInv, AutoStarts, BusyStep
  <2>2. ASSUME SettleStep, ~FollowUp
        PROVE  BusyStep \/ UNCHANGED admissionVars
    BY <2>2 DEF SettleStep, CollectBefore, CreateRunFails, InitialMessageFails,
       QueryRefused, QueryStarts, QuerySettles, RecordRun, CollectAfter,
       SettleCancelled, NoFollowUp, LeaveRun, FailRun, BusyStep
  <2>3. QED
    BY <1>7, <2>1, <2>2 DEF AdmissionNext
<1>8. CASE ClosingStep
  BY <1>8 DEF ClosingStep, ShutdownGate, ShutdownCancel, ShutdownTail, Announce,
     AdmissionNext, ShutdownStep
<1>9. CASE \E t \in Tasks : TaskActs(t)
  BY <1>9 DEF TaskActs
<1>10. CASE HostActs \/ Disconnect
  BY <1>10 DEF HostActs, Disconnect, AdmissionNext
<1>11. QED
  BY <1>1, <1>2, <1>3, <1>4, <1>5, <1>6, <1>7, <1>8, <1>9, <1>10 DEF LoopNext

(* Where the loop is, and the flags of its own.                            *)
LEMMA FlowStep ==
    ASSUME FlowInv, [LoopNext]_allVars
    PROVE  FlowInv'
<1> USE DEF FlowInv, Steps, RunSteps, QuerySteps, AutoStarts, NoStart
<1>1. CASE UNCHANGED allVars
  BY <1>1 DEF allVars, admissionVars, loopVars, loopOnlyVars, runVars
<1>2. CASE Top \/ StartRun \/ DeferStart
  BY <1>2 DEF Top, StartRun, DeferStart, TopTestLifecycle, TopWait,
     TopRetryDeferred, TopDiscardDeferred, MayRetry, StartInternal, DeferInternal,
     loopOnlyVars, runVars
<1>3. CASE IdleStep
  <2>1. ASSUME NEW r \in Runs, CommitRun(r)
        PROVE  FlowInv'
    BY <2>1 DEF CommitRun, RecvCommit, runVars
  <2>2. ASSUME NEW t \in Tasks, RecvStoppedCompletion(t) \/ RecvCompletion(t)
        PROVE  FlowInv'
    BY <2>2 DEF RecvStoppedCompletion, RecvCompletion, RecvOther, RecvInternal,
       IdleUnchanged, runVars
  <2>3. CASE IdleStop \/ ApprovePlan \/ Compact
    BY <2>3 DEF IdleStop, ApprovePlan, Compact, RecvOther, RecvInternal,
       RecvCompact, IdleUnchanged, loopOnlyVars, runVars
  <2>4. CASE IdleOther
    BY <2>4 DEF IdleOther, RecvStaleCommit, RecvReleased, RecvClose, ConsumerGone,
       OutputClosed, loopOnlyVars, runVars
  <2>5. QED
    BY <1>3, <2>1, <2>2, <2>3, <2>4 DEF IdleStep
<1>4. CASE CompactStep
  <2>1. CASE StopCompact \/ CloseCompact \/ RejectCompact
    BY <2>1 DEF StopCompact, CloseCompact, RejectCompact, BusyClose, RejectCommit,
       admissionVars, loopVars, loopOnlyVars, runVars
  <2>2. CASE CompactEnds
    BY <2>2 DEF CompactEnds, Finished, runVars
  <2>3. QED
    BY <1>4, <2>1, <2>2 DEF CompactStep
<1>5. CASE QueryStep
  <2>1. UNCHANGED <<pc, cancelFlag, connected, wasCancelled>>
    BY <1>5 DEF QueryStep, FirstDrain, FirstDrainAcked, SpawnTask, AutoCompact,
       TurnCompletes, TurnInterrupted, TurnDrained, TurnDrainFailed, QueryEnds,
       QueryOnly, admissionVars, loopVars, loopOnlyVars, runVars
  <2>2. pc = "run" /\ step' \in RunSteps
    BY <1>5 DEF QueryStep, FirstDrain, FirstDrainAcked, SpawnTask, AutoCompact,
       TurnCompletes, TurnInterrupted, TurnDrained, TurnDrainFailed, QueryEnds,
       AtStep, GoTo, Drain, loopOnlyVars, runVars
  <2>3. next' \in AutoStarts \cup {NoStart} /\ undelivered' \in BOOLEAN
    BY <1>5 DEF QueryStep, FirstDrain, FirstDrainAcked, SpawnTask, AutoCompact,
       TurnCompletes, TurnInterrupted, TurnDrained, TurnDrainFailed, QueryEnds,
       loopOnlyVars, runVars
  <2>4. QED
    BY <2>1, <2>2, <2>3
<1>6. CASE QueryInput
  <2>1. CASE (\E t \in Tasks : RecvRunCompletion(t)) \/ RunStop \/ RejectRun
    <3>1. UNCHANGED <<pc, step, connected, runVars>> /\ cancelFlag' \in {cancelFlag, TRUE}
      BY <2>1 DEF RecvRunCompletion, RunStop, RejectRun, RejectCommit, admissionVars,
         loopVars, loopOnlyVars
    <3>2. QED
      BY <3>1 DEF runVars
  <2>2. CASE QueryDropped \/ CloseRun
    BY <2>2 DEF QueryDropped, CloseRun, DropQuery, Querying, GoTo, BusyClose,
       admissionVars, loopVars, runVars
  <2>3. QED
    BY <1>6, <2>1, <2>2 DEF QueryInput
<1>7. CASE SettleStep
  <2>1. CASE CollectBefore \/ CreateRunFails \/ QueryStarts \/ CollectAfter
    BY <2>1 DEF CollectBefore, CreateRunFails, QueryStarts, CollectAfter, AtStep,
       GoTo, admissionVars, loopVars, runVars
  <2>2. CASE InitialMessageFails \/ QueryRefused \/ QuerySettles \/ RecordRun
    BY <2>2 DEF InitialMessageFails, QueryRefused, QuerySettles, RecordRun, FailRun,
       RunFails, AtStep, GoTo, admissionVars, loopVars, runVars
  <2>3. CASE SettleCancelled \/ FollowUp \/ NoFollowUp \/ LeaveRun
    BY <2>3 DEF SettleCancelled, FollowUp, NoFollowUp, LeaveRun, FollowUpRun,
       Finished, AtStep, GoTo, admissionVars, loopVars, runVars
  <2>4. QED
    BY <1>7, <2>1, <2>2, <2>3 DEF SettleStep
<1>8. CASE ClosingStep
  <2>1. CASE ShutdownGate \/ Announce
    BY <2>1 DEF ShutdownGate, Announce, ShutdownBegins, CloseChannel,
       AwaitUnreserved, WokenByRelease, AnnounceClosed, loopOnlyVars, runVars
  <2>2. CASE ShutdownCancel \/ ShutdownTail
    BY <2>2 DEF ShutdownCancel, ShutdownTail, GoTo, admissionVars, loopVars, runVars
  <2>3. QED
    BY <1>8, <2>1, <2>2 DEF ClosingStep
<1>9. CASE (\E t \in Tasks : TaskActs(t)) \/ HostActs \/ Disconnect
  <2>1. UNCHANGED <<pc, step, cancelFlag, runVars>>
    BY <1>9 DEF TaskActs, HostActs, Disconnect, HostStep, Reserve, Commit, Drop,
       Abandon, CommitReturns, RequestClose, CloseIdle, admissionVars, loopVars,
       loopOnlyVars
  <2>2. connected' \in BOOLEAN
    BY <1>9 DEF TaskActs, HostActs, Disconnect, loopOnlyVars
  <2>3. QED
    BY <2>1, <2>2 DEF runVars
<1>10. QED
  BY <1>1, <1>2, <1>3, <1>4, <1>5, <1>6, <1>7, <1>8, <1>9 DEF LoopNext

(* Every action of the loop with its tasks, notifications and stops is one *)
(* of the admission protocol or leaves the right to run alone.             *)
THEOREM LoopImplementsAdmission == LoopSafety => ImplementsRunAdmission
<1>1. LoopInit => AdmissionInit /\ FlowInv
  BY DEF LoopInit, AdmissionInit, FlowInv, Steps, RunSteps, QuerySteps
<1>2. FlowInv /\ [LoopNext]_allVars => FlowInv' /\ [AdmissionNext]_admissionVars
  BY FlowStep, LoopStepIsAdmissionStep
<1>3. QED
  BY <1>1, <1>2, PTL DEF LoopSafety, AdmissionSafety, ImplementsRunAdmission

-----------------------------------------------------------------------------
(* What the steps of the loop do to tasks and stops.                       *)
StopKept ==
    /\ UNCHANGED <<stage, stamp, stopped, generation>>
    /\ open' \in {open, FALSE}
    /\ cancelled' \in {cancelled, cancelled \cup Cancellable}

TaskMoves == \E t \in Tasks : BeginSpawn(t) \/ TaskStep(t) \/ LoseSpawn(t)

LEMMA StopMoves ==
    ASSUME [LoopNext]_allVars
    PROVE  \/ StopKept
           \/ StopWork /\ UNCHANGED <<stage, stamp>>
           \/ TaskMoves
<1> USE DEF StopKept, stopVars
<1>1. CASE UNCHANGED allVars
  BY <1>1 DEF allVars, ledgerVars
<1>2. CASE Top \/ StartRun \/ DeferStart
  BY <1>2 DEF Top, StartRun, DeferStart, ledgerVars
<1>3. CASE IdleStep
  BY <1>3 DEF IdleStep, CommitRun, RecvStoppedCompletion, RecvCompletion,
     IdleStop, ApprovePlan, Compact, IdleOther, ledgerVars
<1>4. CASE CompactStep
  BY <1>4 DEF CompactStep, StopCompact, CloseCompact, RejectCompact, CompactEnds,
     ledgerVars
<1>5. CASE QueryStep
  BY <1>5 DEF QueryStep, FirstDrain, FirstDrainAcked, SpawnTask, AutoCompact,
     TurnCompletes, TurnInterrupted, TurnDrained, TurnDrainFailed, QueryEnds,
     QueryOnly, TaskMoves, ledgerVars
<1>6. CASE QueryInput
  BY <1>6 DEF QueryInput, RecvRunCompletion, RunStop, RejectRun, QueryDropped,
     CloseRun, DropQuery, CancelAll, ledgerVars
<1>7. CASE SettleStep
  BY <1>7 DEF SettleStep, CollectBefore, CreateRunFails, InitialMessageFails,
     QueryRefused, QueryStarts, QuerySettles, RecordRun, CollectAfter,
     SettleCancelled, FollowUp, NoFollowUp, LeaveRun, ledgerVars
<1>8. CASE ClosingStep
  BY <1>8 DEF ClosingStep, ShutdownGate, ShutdownCancel, ShutdownTail, Announce,
     CancelAll, ledgerVars
<1>9. CASE (\E t \in Tasks : TaskActs(t)) \/ HostActs \/ Disconnect
  BY <1>9 DEF TaskActs, HostActs, Disconnect, TaskMoves, ledgerVars
<1>10. QED
  BY <1>1, <1>2, <1>3, <1>4, <1>5, <1>6, <1>7, <1>8, <1>9 DEF LoopNext

LEMMA StopStep ==
    ASSUME StopInv, [LoopNext]_allVars
    PROVE  StopInv'
<1> USE DEF StopInv, StoppedIsCancelled, At
<1>s. NoStamp \in Stamps /\ [generation |-> generation, stop |-> open] \in Stamps
  BY DEF NoStamp, Stamps
<1>1. CASE StopKept
  BY <1>1 DEF StopKept, Cancellable
<1>2. CASE StopWork /\ UNCHANGED <<stage, stamp>>
  BY <1>2 DEF StopWork, Known, Cancellable
<1>3. ASSUME NEW t \in Tasks, BeginSpawn(t) \/ GiveUpSpawn(t)
      PROVE  StopInv'
  <2>1. stamp' \in [Tasks -> Stamps]
    BY <1>s, <1>3 DEF BeginSpawn, GiveUpSpawn
  <2>2. stage' \in [Tasks -> Stages]
    BY <1>3 DEF BeginSpawn, GiveUpSpawn, Stages
  <2>3. QED
    BY <1>3, <2>1, <2>2 DEF BeginSpawn, GiveUpSpawn, stopVars
<1>4. ASSUME NEW t \in Tasks, Register(t)
      PROVE  StopInv'
  <2>1. PICK S \in SUBSET {t} : /\ stopped' = stopped \cup S
                               /\ cancelled' = cancelled \cup S
    BY <1>4 DEF Register, StoppedBy
  <2>2. stage' = [stage EXCEPT ![t] = "registered"] /\ stage[t] = "creating"
        /\ UNCHANGED <<open, generation>>
    BY <1>4 DEF Register
  <2>3. stamp' \in [Tasks -> Stamps]
    BY <1>s, <1>4 DEF Register
  <2>4. stage' \in [Tasks -> Stages]
    BY <2>2 DEF Stages
  <2>5. QED
    BY <2>1, <2>2, <2>3, <2>4
<1>5. ASSUME NEW t \in Tasks, Launch(t) \/ LoseSpawn(t) \/ NotifyCompleted(t)
      PROVE  StopInv'
  BY <1>5 DEF Launch, LoseSpawn, NotifyCompleted, stopVars, Stages
<1>6. ASSUME NEW t \in Tasks, CancelTask(t)
      PROVE  StopInv'
  BY <1>6 DEF CancelTask, Cancellable, StoppedBy
<1>7. ASSUME NEW t \in Tasks, End(t)
      PROVE  StopInv'
  BY <1>7 DEF End, Stages, StoppedBy
<1>8. QED
  BY <1>1, <1>2, <1>3, <1>4, <1>5, <1>6, <1>7, StopMoves DEF TaskMoves, TaskStep

-----------------------------------------------------------------------------
(* What the steps of the loop do to completions, one operator for each way *)
(* they are moved.                                                         *)
Recorded(S) == Persist(S) \/ UNCHANGED <<rows, stored, pending, delivered>>

Still ==
    /\ UNCHANGED <<pending, delivered, chan, queueVars, mem, rows>>
    /\ stored' \subseteq stored \cup Tasks

(* S is settled, R is queued.                                              *)
Taken(S, R) ==
    /\ S \subseteq chan \cup queue /\ R \subseteq chan /\ S \cap R = {}
    /\ chan' = chan \ (S \cup R)
    /\ queue' = (queue \ S) \cup R
    /\ inbox' = inbox \cup S
    /\ Recorded(S)
    /\ UNCHANGED <<draining, mem>>

Flushed == Flush /\ UNCHANGED <<chan, draining>>

Handed ==
    /\ draining = {} /\ draining' = queue /\ queue' = {}
    /\ UNCHANGED <<pending, delivered, chan, inbox, contextVars>>

Acknowledged == (Drained \/ DrainFailed) /\ UNCHANGED <<chan, inbox>>

Abandoned ==
    /\ draining' = {} /\ Recorded(draining)
    /\ UNCHANGED <<chan, queue, inbox, mem>>

Notified ==
    /\ \E t \in Tasks : NotifyCompleted(t)
    /\ UNCHANGED <<queueVars, contextVars>>

PlaceMoves ==
    \/ Still \/ (\E S, R : Taken(S, R)) \/ Flushed \/ Handed \/ Acknowledged
    \/ (Abandoned /\ ~Alive') \/ Notified

LEMMA SettlingTakes ==
    ASSUME HeldOnce, UNCHANGED <<draining, mem>>
    PROVE  /\ Collect(chan) => Taken(StoppedIn(chan), chan \ StoppedIn(chan))
           /\ \A t \in chan : chan' = chan \ {t} /\ UNCHANGED queue
                                /\ PersistStopped({t}) => Taken({t}, {})
           /\ queue' = {} /\ UNCHANGED chan /\ PersistStopped(queue) => Taken(queue, {})
           /\ chan' = {} /\ queue' = {} /\ PersistStopped(chan \cup queue)
                => Taken(chan \cup queue, {})
<1>1. \A S : PersistStopped(S) => inbox' = inbox \cup S /\ Recorded(S)
  BY DEF PersistStopped, PersistFails, Recorded
<1>2. StoppedIn(chan) \subseteq chan
  BY DEF StoppedIn
<1>3. chan \cap queue = {}
  BY DEF HeldOnce
<1>4. QED
  BY <1>1, <1>2, <1>3 DEF Collect, Taken

LEMMA PlaceStep ==
    ASSUME FlowInv, DeliveryInv, [LoopNext]_allVars
    PROVE  PlaceMoves
<1>h. HeldOnce
  BY DEF DeliveryInv
<1>d. step \notin AckSteps => draining = {}
  BY DEF DeliveryInv
<1>1. CASE UNCHANGED allVars
  BY <1>1 DEF allVars, ledgerVars, loopOnlyVars, contextVars, PlaceMoves, Still
<1>2. CASE Top \/ StartRun \/ DeferStart
  BY <1>2 DEF Top, StartRun, DeferStart, ledgerVars, loopOnlyVars, contextVars,
     PlaceMoves, Still
<1>3. CASE IdleStep
  <2>1. ASSUME NEW r \in Runs, CommitRun(r)
        PROVE  Flushed
    BY <2>1 DEF CommitRun, Flushed
  <2>2. ASSUME NEW t \in Tasks, RecvStoppedCompletion(t)
        PROVE  Taken({t}, {})
    BY <1>h, <2>2, SettlingTakes DEF RecvStoppedCompletion
  <2>3. ASSUME NEW t \in Tasks, RecvCompletion(t)
        PROVE  Taken(StoppedIn(chan), chan \ StoppedIn(chan))
    BY <1>h, <2>3, SettlingTakes DEF RecvCompletion
  <2>4. ASSUME IdleStop
        PROVE  Taken(queue, {})
    BY <1>h, <2>4, SettlingTakes DEF IdleStop
  <2>5. ASSUME Compact
        PROVE  Flushed \/ Still
    BY <2>5 DEF Compact, Flushed, Still, queueVars
  <2>6. ASSUME ApprovePlan \/ IdleOther
        PROVE  Still
    BY <2>6 DEF ApprovePlan, IdleOther, ledgerVars, loopOnlyVars, contextVars, Still
  <2>7. QED
    BY <1>3, <2>1, <2>2, <2>3, <2>4, <2>5, <2>6 DEF IdleStep, PlaceMoves
<1>4. CASE CompactStep
  <2>1. Still
    BY <1>4 DEF CompactStep, StopCompact, CloseCompact, RejectCompact, CompactEnds,
       Rewritten, ledgerVars, loopOnlyVars, contextVars, Still
  <2>2. QED
    BY <2>1 DEF PlaceMoves
<1>5. CASE QueryStep
  <2>1. ASSUME FirstDrain \/ TurnCompletes
        PROVE  Handed \/ Still
    <3>1. draining = {}
      BY <1>d, <2>1 DEF FirstDrain, TurnCompletes, AtStep, AckSteps
    <3>2. QED
      BY <2>1, <3>1 DEF FirstDrain, TurnCompletes, QueryOnly, Drain, Handed, Still,
         queueVars, contextVars
  <2>2. ASSUME FirstDrainAcked \/ TurnDrained \/ TurnDrainFailed
        PROVE  Acknowledged
    BY <2>2 DEF FirstDrainAcked, TurnDrained, TurnDrainFailed, QueryOnly,
       Acknowledged
  <2>3. ASSUME NEW t \in Tasks, SpawnTask(t)
        PROVE  Still
    BY <2>3 DEF SpawnTask, BeginSpawn, loopOnlyVars, contextVars, Still
  <2>4. ASSUME AutoCompact \/ TurnInterrupted \/ QueryEnds
        PROVE  Still
    BY <2>4 DEF AutoCompact, TurnInterrupted, QueryEnds, QueryOnly, Rewritten,
       ledgerVars, queueVars, contextVars, Still
  <2>5. QED
    BY <1>5, <2>1, <2>2, <2>3, <2>4 DEF QueryStep, PlaceMoves
<1>6. CASE QueryInput
  <2>1. ASSUME NEW t \in Tasks, RecvRunCompletion(t)
        PROVE  Taken({t}, {}) \/ Taken({}, {t})
    <3>1. CASE CompletionIsStopped(t)
      BY <1>h, <2>1, <3>1, SettlingTakes DEF RecvRunCompletion
    <3>2. CASE ~CompletionIsStopped(t)
      BY <2>1, <3>2 DEF RecvRunCompletion, Taken, Recorded
    <3>3. QED
      BY <3>1, <3>2
  <2>2. ASSUME RunStop \/ RejectRun
        PROVE  Still
    BY <2>2 DEF RunStop, RejectRun, ledgerVars, loopOnlyVars, contextVars, Still
  <2>3. ASSUME QueryDropped
        PROVE  Abandoned /\ ~Alive'
    BY <2>3 DEF QueryDropped, DropQuery, Abandoned, Recorded, Alive, admissionVars,
       gateVars
  <2>4. ASSUME CloseRun
        PROVE  Abandoned /\ ~Alive'
    BY <2>4 DEF CloseRun, BusyClose, GateSetLifecycle, DropQuery, Abandoned,
       Recorded, Alive
  <2>5. QED
    BY <1>6, <2>1, <2>2, <2>3, <2>4 DEF QueryInput, PlaceMoves
<1>7. CASE SettleStep
  <2>1. ASSUME CollectBefore \/ CollectAfter
        PROVE  Taken(StoppedIn(chan), chan \ StoppedIn(chan))
    BY <1>h, <2>1, SettlingTakes DEF CollectBefore, CollectAfter
  <2>2. ASSUME SettleCancelled
        PROVE  Taken(queue, {})
    BY <1>h, <2>2, SettlingTakes DEF SettleCancelled
  <2>3. ASSUME SettleStep, ~CollectBefore, ~CollectAfter, ~SettleCancelled
        PROVE  Still
    BY <2>3 DEF SettleStep, CreateRunFails, InitialMessageFails, QueryRefused,
       QueryStarts, QuerySettles, RecordRun, FollowUp, NoFollowUp, LeaveRun,
       ledgerVars, contextVars, Still
  <2>4. QED
    BY <1>7, <2>1, <2>2, <2>3 DEF PlaceMoves
<1>8. CASE ClosingStep
  <2>1. ASSUME ShutdownTail
        PROVE  Taken(chan \cup queue, {})
    BY <1>h, <2>1, SettlingTakes DEF ShutdownTail
  <2>2. ASSUME ShutdownGate \/ ShutdownCancel \/ Announce
        PROVE  Still
    BY <2>2 DEF ShutdownGate, ShutdownCancel, Announce, ledgerVars, loopOnlyVars,
       contextVars, Still
  <2>3. QED
    BY <1>8, <2>1, <2>2 DEF ClosingStep, PlaceMoves
<1>9. ASSUME NEW t \in Tasks, TaskActs(t)
      PROVE  PlaceMoves
  BY <1>9 DEF TaskActs, TaskStep, GiveUpSpawn, Register, Launch, CancelTask, End,
     LoseSpawn, loopOnlyVars, contextVars, Notified, Still, PlaceMoves
<1>10. CASE HostActs \/ Disconnect
  BY <1>10 DEF HostActs, Disconnect, ledgerVars, loopOnlyVars, contextVars, Still,
     PlaceMoves
<1>11. QED
  BY <1>1, <1>2, <1>3, <1>4, <1>5, <1>6, <1>7, <1>8, <1>9, <1>10 DEF LoopNext

(* An instance that has begun to close, or lost its consumer, stays so.    *)
LEMMA AliveStep ==
    ASSUME FlowInv, [LoopNext]_allVars
    PROVE  /\ lifecycle' = "Active" => lifecycle = "Active"
           /\ connected' => connected
           /\ Alive' => Alive
<1>1. lifecycle' = "Active" => lifecycle = "Active"
  <2>1. [AdmissionNext]_admissionVars
    BY LoopStepIsAdmissionStep
  <2>2. lifecycle' \in {lifecycle, "Closing", "Closed"}
    BY <2>1 DEF AdmissionNext, HostStep, Reserve, Commit, Drop, Abandon,
       CommitReturns, RequestClose, CloseIdle, TopStep, TopTestLifecycle,
       TopRetryDeferred, TopDiscardDeferred, TopWait, SelectStep, RecvCommit,
       RecvStaleCommit, RecvInternal, RecvCompact, RecvOther, RecvReleased, RecvClose,
       OutputClosed, StartStep, StartInternal, DeferInternal, BusyStep, RejectCommit,
       FollowUpRun, BusyClose, RunFails, Finished, ShutdownStep, ShutdownBegins,
       CloseChannel, AwaitUnreserved, WokenByRelease, AnnounceClosed, GateReserve,
       GateRelease, GateActivate, GateStartInternal, GateRefuseInternal,
       GateClearDeferred, GateBeginMaintenance, GateCloseIdle, GateFinish,
       GateRelabel, GateSetLifecycle, admissionVars, gateVars
  <2>3. QED
    BY <2>2
<1>2. connected' => connected
  <2>1. CASE UNCHANGED connected
    BY <2>1
  <2>2. CASE Disconnect
    BY <2>2 DEF Disconnect
  <2>3. UNCHANGED connected \/ Disconnect
    BY DEF LoopNext, allVars, Top, StartRun, DeferStart, IdleStep, CommitRun,
       RecvStoppedCompletion, RecvCompletion, IdleStop, ApprovePlan, Compact,
       IdleOther, IdleUnchanged, CompactStep, StopCompact, CloseCompact,
       RejectCompact, CompactEnds, QueryStep, FirstDrain, FirstDrainAcked, SpawnTask,
       AutoCompact, TurnCompletes, TurnInterrupted, TurnDrained, TurnDrainFailed,
       QueryEnds, QueryOnly, QueryInput, RecvRunCompletion, RunStop, RejectRun,
       QueryDropped, CloseRun, DropQuery, SettleStep, CollectBefore, CreateRunFails,
       InitialMessageFails, QueryRefused, QueryStarts, QuerySettles, RecordRun,
       CollectAfter, SettleCancelled, FollowUp, NoFollowUp, LeaveRun, ClosingStep,
       ShutdownGate, ShutdownCancel, ShutdownTail, Announce, TaskActs, HostActs,
       loopOnlyVars
  <2>4. QED
    BY <2>1, <2>2, <2>3
<1>3. QED
  BY <1>1, <1>2 DEF Alive

(* Only a query that waits for the host has completions under way.         *)
LEMMA DrainingStep ==
    ASSUME FlowInv, DeliveryInv, [LoopNext]_allVars
    PROVE  draining' # {} => step' \in AckSteps
<1> SUFFICES ASSUME draining' # {}
             PROVE  step' \in AckSteps
  OBVIOUS
<1> USE DEF AckSteps
<1>d. draining # {} => step \in AckSteps
  BY DEF DeliveryInv
<1>1. CASE UNCHANGED <<draining, step>>
  BY <1>1, <1>d
<1>2. CASE FirstDrain
  <2>1. step \notin AckSteps
    BY <1>2 DEF FirstDrain, AtStep
  <2>2. draining = {}
    BY <2>1, <1>d
  <2>3. QED
    BY <1>2, <2>2 DEF FirstDrain, Drain, GoTo
<1>3. CASE TurnCompletes
  <2>1. step \notin AckSteps
    BY <1>3 DEF TurnCompletes, AtStep
  <2>2. draining = {}
    BY <2>1, <1>d
  <2>3. QED
    BY <1>3, <2>2 DEF TurnCompletes, Drain, GoTo
<1>4. CASE FirstDrainAcked \/ TurnDrained \/ TurnDrainFailed \/ QueryDropped \/ CloseRun
  BY <1>4 DEF FirstDrainAcked, TurnDrained, TurnDrainFailed, Drained, DrainFailed,
     QueryDropped, CloseRun, DropQuery
<1>5. CASE UNCHANGED draining /\ step \notin AckSteps
  BY <1>5, <1>d
<1>6. QED
  <2>1. CASE UNCHANGED allVars \/ Top \/ DeferStart \/ CompactStep \/ HostActs \/ Disconnect
    BY <2>1, <1>1 DEF allVars, Top, DeferStart, CompactStep, StopCompact,
       CloseCompact, RejectCompact, CompactEnds, HostActs, Disconnect,
       loopOnlyVars, queueVars
  <2>2. CASE StartRun \/ (\E r \in Runs : CommitRun(r))
    <3>1. pc # "run" /\ UNCHANGED draining
      BY <2>2 DEF StartRun, StartInternal, CommitRun, RecvCommit, queueVars
    <3>2. QED
      BY <3>1, <1>5 DEF FlowInv, RunSteps, QuerySteps
  <2>3. CASE IdleStep /\ ~\E r \in Runs : CommitRun(r)
    BY <2>3, <1>1 DEF IdleStep, RecvStoppedCompletion, RecvCompletion, IdleStop,
       ApprovePlan, Compact, IdleOther, IdleUnchanged, loopOnlyVars, queueVars
  <2>4. CASE QueryStep
    BY <2>4, <1>1, <1>2, <1>3, <1>4, <1>5 DEF QueryStep, SpawnTask, AutoCompact,
       TurnInterrupted, QueryEnds, AtStep, loopOnlyVars, queueVars
  <2>5. CASE QueryInput
    BY <2>5, <1>1, <1>4 DEF QueryInput, RecvRunCompletion, RunStop, RejectRun,
       loopOnlyVars, queueVars
  <2>6. CASE SettleStep
    BY <2>6, <1>5 DEF SettleStep, CollectBefore, CreateRunFails, InitialMessageFails,
       QueryRefused, QueryStarts, QuerySettles, RecordRun, CollectAfter,
       SettleCancelled, FollowUp, NoFollowUp, LeaveRun, AtStep, queueVars
  <2>7. CASE ClosingStep
    BY <2>7, <1>1, <1>5 DEF ClosingStep, ShutdownGate, ShutdownCancel, ShutdownTail,
       Announce, loopOnlyVars, queueVars
  <2>8. CASE \E t \in Tasks : TaskActs(t)
    BY <2>8, <1>1 DEF TaskActs, loopOnlyVars, queueVars
  <2>9. QED
    BY <2>1, <2>2, <2>3, <2>4, <2>5, <2>6, <2>7, <2>8 DEF LoopNext

LEMMA PlacesTypedStep ==
    ASSUME PlacesTyped, PlaceMoves
    PROVE  PlacesTyped'
<1> USE DEF PlacesTyped
<1>1. CASE Still
  BY <1>1 DEF Still, queueVars
<1>2. ASSUME NEW S, NEW R, Taken(S, R)
      PROVE  PlacesTyped'
  BY <1>2 DEF Taken, Recorded, Persist, MarkDelivered
<1>3. CASE Flushed
  BY <1>3 DEF Flushed, Flush, Persist, PersistFails, Inject, MarkDelivered
<1>4. CASE Handed
  BY <1>4 DEF Handed, contextVars
<1>5. CASE Acknowledged
  BY <1>5 DEF Acknowledged, Drained, DrainFailed, Persist, PersistFails, Inject,
     MarkDelivered
<1>6. CASE Abandoned
  BY <1>6 DEF Abandoned, Recorded, Persist, MarkDelivered
<1>7. CASE Notified
  BY <1>7 DEF Notified, NotifyCompleted, queueVars, contextVars
<1>8. QED
  BY <1>1, <1>2, <1>3, <1>4, <1>5, <1>6, <1>7 DEF PlaceMoves

LEMMA HeldStep ==
    ASSUME HeldOnce, PlaceMoves, Alive' => Alive
    PROVE  HeldOnce'
<1> USE DEF HeldOnce, Retry
<1>1. CASE Still
  BY <1>1 DEF Still, queueVars
<1>2. ASSUME NEW S, NEW R, Taken(S, R)
      PROVE  HeldOnce'
  BY <1>2 DEF Taken, Recorded, Persist, MarkDelivered
<1>3. CASE Flushed
  BY <1>3 DEF Flushed, Flush, Persist, PersistFails, MarkDelivered
<1>4. CASE Handed
  BY <1>4 DEF Handed
<1>5. CASE Acknowledged
  BY <1>5 DEF Acknowledged, Drained, DrainFailed, Persist, PersistFails, MarkDelivered
<1>6. CASE Abandoned /\ ~Alive'
  BY <1>6 DEF Abandoned, Recorded, Persist, MarkDelivered
<1>7. CASE Notified
  BY <1>7 DEF Notified, NotifyCompleted, queueVars
<1>8. QED
  BY <1>1, <1>2, <1>3, <1>4, <1>5, <1>6, <1>7 DEF PlaceMoves

LEMMA KeptStep ==
    ASSUME PlacesTyped, HeldOnce, KeptOnce, PlaceMoves, Alive' => Alive
    PROVE  KeptOnce'
<1> USE DEF KeptOnce
<1>t. /\ mem \in [Tasks -> 0..2]
      /\ chan \cup queue \cup draining \cup inbox \cup delivered \subseteq Tasks
  BY DEF PlacesTyped
<1>h. /\ pending \cap delivered = {}
      /\ chan \cup queue \cup draining \cup (inbox \ delivered) \subseteq pending
      /\ draining \cap (inbox \ delivered) = {}
  BY DEF HeldOnce, Retry
<1>1. CASE Still
  BY <1>1 DEF Still, queueVars
<1>2. ASSUME NEW S, NEW R, Taken(S, R)
      PROVE  KeptOnce'
  <2>1. UNCHANGED mem /\ inbox' = inbox \cup S
    BY <1>2 DEF Taken
  <2>2. \/ rows' = rows \cup S /\ delivered' = delivered \cup S
        \/ rows' = rows /\ delivered' = delivered
    BY <1>2 DEF Taken, Recorded, Persist, MarkDelivered
  <2>3. S \subseteq pending
    BY <1>2, <1>h DEF Taken
  <2>4. QED
    BY <1>t, <1>h, <2>1, <2>2, <2>3
<1>3. CASE Flushed
  <2>1. CASE Persist(inbox \ delivered) /\ Inject(inbox) /\ inbox' = {}
    <3>1. rows' = rows \cup inbox /\ delivered' = delivered \cup inbox
      BY <2>1 DEF Persist, MarkDelivered
    <3>2. \A t \in Tasks : mem'[t] = IF t \in inbox THEN 1 ELSE mem[t]
      BY <2>1, <1>t DEF Inject
    <3>3. QED
      BY <1>t, <2>1, <3>1, <3>2
  <2>2. CASE PersistFails /\ Inject(inbox \cap delivered) /\ inbox' = {}
    <3>1. UNCHANGED <<rows, delivered>>
      BY <2>2 DEF PersistFails
    <3>2. \A t \in Tasks :
            mem'[t] = IF t \in inbox \cap delivered THEN 1 ELSE mem[t]
      BY <2>2, <1>t DEF Inject
    <3>3. QED
      BY <1>t, <2>2, <3>1, <3>2
  <2>3. QED
    BY <1>3, <2>1, <2>2 DEF Flushed, Flush
<1>4. CASE Handed
  BY <1>4 DEF Handed, contextVars
<1>5. CASE Acknowledged
  <2>1. CASE Drained /\ UNCHANGED inbox
    <3>1. rows' = rows \cup draining /\ delivered' = delivered \cup draining
      BY <2>1 DEF Drained, Persist, MarkDelivered
    <3>2. draining \cap rows = {} /\ draining \cap inbox = {}
      BY <1>h
    <3>3. \A t \in Tasks : mem'[t] = IF t \in draining THEN 1 ELSE mem[t]
      BY <2>1, <3>2, <1>t, <1>h DEF Drained, Inject
    <3>4. QED
      BY <1>t, <2>1, <3>1, <3>2, <3>3
  <2>2. CASE DrainFailed /\ UNCHANGED inbox
    BY <2>2 DEF DrainFailed, PersistFails
  <2>3. QED
    BY <1>5, <2>1, <2>2 DEF Acknowledged
<1>6. CASE Abandoned /\ ~Alive'
  BY <1>6, <1>t, <1>h DEF Abandoned, Recorded, Persist, MarkDelivered
<1>7. CASE Notified
  BY <1>7 DEF Notified, NotifyCompleted, queueVars, contextVars
<1>8. QED
  BY <1>1, <1>2, <1>3, <1>4, <1>5, <1>6, <1>7 DEF PlaceMoves

-----------------------------------------------------------------------------
LEMMA LoopInvStart == LoopInit => LoopInv
<1> SUFFICES ASSUME LoopInit
             PROVE  LoopInv
  OBVIOUS
<1>1. TypeInv
  BY TypeStart DEF LoopInit
<1>2. FlowInv
  BY DEF LoopInit, AdmissionInit, FlowInv, Steps, RunSteps, QuerySteps
<1>3. StopInv
  BY DEF LoopInit, LedgerInit, StopInv, StoppedIsCancelled, At, Stages, Stamps, NoStamp
<1>4. DeliveryInv
  BY DEF LoopInit, LedgerInit, DeliveryInv, PlacesTyped, HeldOnce, KeptOnce, Retry
<1>5. QED
  BY <1>1, <1>2, <1>3, <1>4 DEF LoopInv

LEMMA LoopInvStep == LoopInv /\ [LoopNext]_allVars => LoopInv'
<1> SUFFICES ASSUME LoopInv, [LoopNext]_allVars
             PROVE  LoopInv'
  OBVIOUS
<1>1. TypeInv'
  BY LoopStepIsAdmissionStep, TypeStep DEF LoopInv
<1>2. FlowInv' /\ StopInv'
  BY FlowStep, StopStep DEF LoopInv
<1>3. DeliveryInv'
  <2>1. PlaceMoves
    BY PlaceStep DEF LoopInv
  <2>2. Alive' => Alive
    BY AliveStep DEF LoopInv
  <2>3. draining' # {} => step' \in AckSteps
    BY DrainingStep DEF LoopInv
  <2>4. PlacesTyped' /\ HeldOnce' /\ KeptOnce'
    BY <2>1, <2>2, PlacesTypedStep, HeldStep, KeptStep DEF LoopInv, DeliveryInv
  <2>5. QED
    BY <2>3, <2>4 DEF DeliveryInv, AckSteps
<1>4. QED
  BY <1>1, <1>2, <1>3 DEF LoopInv

LEMMA LoopInvHolds == LoopSafety => []LoopInv
BY LoopInvStart, LoopInvStep, PTL DEF LoopSafety

(* Every variable of the loop and of the two ledgers keeps to its type.    *)
THEOREM LoopTypeCorrect == LoopSafety => []LoopTypeOK
<1>1. LoopInv => LoopTypeOK
  BY DEF LoopInv, TypeInv, FlowInv, StopInv, DeliveryInv, PlacesTyped, KeptOnce,
     LoopTypeOK, LedgerTypeOK
<1>2. QED
  BY LoopInvHolds, <1>1, PTL

(* A stop cancels every task it silences, also one that is being created   *)
(* when it comes (open_stop_boundary, manager.rs:383; publish, 187-222).   *)
THEOREM StopReachesTasks == LoopSafety => []StoppedIsCancelled
<1>1. LoopInv => StoppedIsCancelled
  BY DEF LoopInv, StopInv
<1>2. QED
  BY LoopInvHolds, <1>1, PTL

(* While the instance lives, a pending completion waits in exactly one     *)
(* place (NotificationLedger, manager.rs:277-296).                         *)
THEOREM CompletionsAreHeld == LoopSafety => []PendingIsHeld
<1>1. LoopInv => PendingIsHeld
  <2> SUFFICES ASSUME HeldOnce, Alive
               PROVE  LET retry == inbox \ delivered
                          held  == <<chan, queue, draining, retry>>
                      IN  /\ pending = UNION {held[i] : i \in 1..4}
                          /\ \A i, j \in 1..4 : i # j => held[i] \cap held[j] = {}
    BY DEF PendingIsHeld, LoopInv, DeliveryInv, Alive
  <2> DEFINE held == <<chan, queue, draining, Retry>>
  <2>1. /\ held[1] = chan /\ held[2] = queue
        /\ held[3] = draining /\ held[4] = Retry
        /\ 1..4 = {1, 2, 3, 4}
    OBVIOUS
  <2>2. UNION {held[i] : i \in 1..4} = chan \cup queue \cup draining \cup Retry
    BY <2>1
  <2>3. \A i, j \in 1..4 : i # j => held[i] \cap held[j] = {}
    BY <2>1 DEF HeldOnce
  <2>4. QED
    BY <2>2, <2>3 DEF HeldOnce, Retry
<1>2. QED
  BY LoopInvHolds, <1>1, PTL

(* No notification enters the model's context twice, whichever path        *)
(* delivers it (flush_stopped_inbox, drain_task_completions).              *)
THEOREM NeverNotifiedTwice == LoopSafety => []NotifiedOnce
<1>1. LoopInv => NotifiedOnce
  BY DEF LoopInv, DeliveryInv, KeptOnce, NotifiedOnce
<1>2. QED
  BY LoopInvHolds, <1>1, PTL

(* What the ledger calls delivered is in the store, and in memory or still *)
(* in the stop inbox (mark_notifications_delivered, manager.rs).           *)
THEOREM DeliveredStays == LoopSafety => []DeliveredIsKept
<1>1. LoopInv => DeliveredIsKept
  BY DEF LoopInv, DeliveryInv, PlacesTyped, KeptOnce, Alive, DeliveredIsKept
<1>2. QED
  BY LoopInvHolds, <1>1, PTL

(* The right to run is as safe with everything a run does as it is without *)
(* (RunGate, handle.rs:94): what is proved of RunAdmission holds here.     *)
COROLLARY LoopAdmissionSafe ==
    LoopSafety => /\ [](ReservationOwnsSlot /\ SlotMatchesWork /\ ClosedIsVacant)
                  /\ ImplementsAdmission
BY LoopImplementsAdmission, AdmissionSafe, SlotFollowsWork, ClosedStaysVacant,
   AdmissionImplements, PTL DEF ImplementsRunAdmission
-----------------------------------------------------------------------------
(* Which runs a stop leaves alone.  The host does not fail here: a flush    *)
(* that fails hands the completions of the stop inbox back to the queue,    *)
(* and a run can then be caused by one of them.                             *)
TailSteps == {"record", "tail", "decide"}
Quiet == queue = {} /\ draining = {} /\ next = NoStart

(* The cancel flag is set inside a boundary, or until the run it cancelled  *)
(* is settled.                                                              *)
FlagInv ==
    lifecycle = "Active" =>
        /\ cancelFlag => open \/ step = "post"
        /\ step \in TailSteps \cup {"leave"} => ~cancelFlag

StartInv ==
    /\ pc # "run" => next = NoStart
    /\ pc = "starting" /\ cause = "PendingTaskNotification" => ~open

(* Inside a boundary nothing is left that could cause a run, unless what    *)
(* runs now was cancelled and will not be followed up.                      *)
BoundaryInv ==
    Alive /\ open =>
        /\ step \in TailSteps => wasCancelled \/ Quiet
        /\ step = "leave" => queue = {}
        /\ step \notin TailSteps \cup {"leave"} => cancelFlag \/ Quiet

CleanInv == FlagInv /\ StartInv /\ BoundaryInv /\ AutoRunStartsClean

(* The stop boundary, the flag and what may cause a run are left alone.     *)
CleanKept == UNCHANGED <<open, cancelFlag, step, pc, cause, queue, draining, next, wasCancelled>>

LEMMA CleanKeptStep ==
    ASSUME CleanInv, CleanKept, lifecycle' = "Active" => lifecycle = "Active",
           connected' => connected
    PROVE  CleanInv'
<1>1. FlagInv' /\ StartInv'
  BY DEF CleanInv, CleanKept, FlagInv, StartInv
<1>2. BoundaryInv'
  BY DEF CleanInv, CleanKept, BoundaryInv, Quiet, Alive
<1>3. AutoRunStartsClean'
  BY DEF CleanInv, CleanKept, AutoRunStartsClean, AtStep
<1>4. QED
  BY <1>1, <1>2, <1>3 DEF CleanInv

LEMMA CleanStep ==
    ASSUME "HostFails" \notin Events, AdmissionInv, LoopInv, CleanInv,
           [LoopNext]_allVars
    PROVE  CleanInv'
<1>a. /\ lifecycle' = "Active" => lifecycle = "Active"
      /\ connected' => connected
  BY AliveStep DEF LoopInv
<1>k. CleanKept => CleanInv'
  BY <1>a, CleanKeptStep
<1>f. /\ step \in Steps /\ (step \in RunSteps <=> pc = "run")
      /\ cancelFlag \in BOOLEAN
  BY DEF LoopInv, FlowInv
<1>d. step \notin AckSteps => draining = {}
  BY DEF LoopInv, DeliveryInv
<1>h. ~PersistFails
  BY DEF PersistFails, HostFails
<1> USE DEF CleanInv, FlagInv, StartInv, BoundaryInv, AutoRunStartsClean, Alive, AtStep,
            TailSteps, Quiet, AutoStarts, NoStart, Steps, RunSteps, QuerySteps
<1>1. CASE UNCHANGED allVars
  BY <1>1, <1>k DEF allVars, admissionVars, loopVars, ledgerVars, stopVars, loopOnlyVars, queueVars,
     runVars, CleanKept
<1>2. CASE Top \/ StartRun \/ DeferStart
  <2>1. UNCHANGED <<open, cancelFlag, connected, queue, draining, next, wasCancelled>>
    BY <1>2 DEF Top, StartRun, DeferStart, ledgerVars, stopVars, loopOnlyVars, queueVars, runVars
  <2>2. CASE Top
    <3>1. UNCHANGED step /\ pc # "run" /\ pc' # "run"
      BY <2>2 DEF Top, TopTestLifecycle, TopWait, TopRetryDeferred, TopDiscardDeferred, MayRetry, loopOnlyVars
    <3>2. pc' = "starting" => ~open
      BY <2>2 DEF Top, TopTestLifecycle, TopWait, TopRetryDeferred, TopDiscardDeferred, MayRetry
    <3>3. QED
      BY <1>a, <1>f, <2>1, <3>1, <3>2
  <2>3. CASE StartRun
    <3>1. pc = "starting" /\ pc' = "run" /\ step' = "collect" /\ UNCHANGED cause /\ lifecycle = "Active"
      BY <2>3 DEF StartRun, StartInternal, GateStartInternal, Vacant
    <3>2. cause \in InternalStarts
      BY <3>1 DEF LoopInv, TypeInv
    <3>3. QED
      BY <1>a, <1>f, <2>1, <3>1, <3>2 DEF InternalStarts
  <2>4. CASE DeferStart
    <3>1. UNCHANGED step /\ pc # "run" /\ pc' = "top"
      BY <2>4 DEF DeferStart, DeferInternal, loopOnlyVars
    <3>2. QED
      BY <1>a, <1>f, <2>1, <3>1
  <2>5. QED
    BY <1>2, <2>2, <2>3, <2>4
<1>3. CASE IdleStep
  <2>0. pc = "select" /\ step \notin RunSteps /\ draining = {}
    <3>1. pc = "select"
      BY <1>3 DEF IdleStep, CommitRun, RecvCommit, RecvStoppedCompletion, RecvCompletion,
         IdleStop, ApprovePlan, Compact, IdleOther, RecvStaleCommit, RecvReleased, RecvClose,
         ConsumerGone, OutputClosed, RecvOther, RecvInternal, RecvCompact
    <3>2. QED
      BY <3>1, <1>f, <1>d DEF AckSteps
  <2>1. ASSUME NEW r \in Runs, CommitRun(r)
        PROVE  CleanInv'
    <3>1. /\ ~open' /\ ~cancelFlag' /\ step' = "collect" /\ pc' = "run"
          /\ UNCHANGED <<draining, next>>
      BY <2>1 DEF CommitRun, RecvCommit, runVars
    <3>2. QED
      BY <1>a, <3>1
  <2>2. ASSUME NEW t \in Tasks, RecvStoppedCompletion(t)
        PROVE  CleanInv'
    <3>1. /\ pc' = "top"
          /\ UNCHANGED <<open, cancelFlag, step, queue, draining, next, wasCancelled>>
      BY <2>2 DEF RecvStoppedCompletion, RecvOther, IdleUnchanged, stopVars, runVars
    <3>2. QED
      BY <1>a, <2>0, <3>1
  <2>3. ASSUME NEW t \in Tasks, RecvCompletion(t)
        PROVE  CleanInv'
    <3>1. /\ pc' \in {"starting", "top"} /\ ~open'
          /\ UNCHANGED <<open, cancelFlag, step, next>>
      BY <2>3 DEF RecvCompletion, RecvOther, RecvInternal, CompletionIsStopped, IdleUnchanged,
         stopVars, runVars
    <3>2. QED
      BY <1>a, <2>0, <3>1
  <2>4. CASE IdleStop
    <3>1. /\ pc' = "top" /\ open' /\ queue' = {}
          /\ UNCHANGED <<cancelFlag, step, draining, next>>
      BY <2>4 DEF IdleStop, RecvOther, StopWork, IdleUnchanged, runVars
    <3>2. QED
      BY <1>a, <2>0, <3>1
  <2>5. CASE ApprovePlan
    <3>1. /\ pc' = "starting" /\ cause' = "UserMessage"
          /\ UNCHANGED <<open, cancelFlag, step, queue, draining, next>>
      BY <2>5 DEF ApprovePlan, RecvInternal, ledgerVars, stopVars, loopOnlyVars, queueVars, runVars
    <3>2. QED
      BY <1>a, <2>0, <3>1
  <2>6. CASE Compact
    <3>1. /\ pc' \in {"top", "maint"}
          /\ UNCHANGED <<open, cancelFlag, step, draining, next>>
      BY <2>6 DEF Compact, RecvCompact, IdleUnchanged, stopVars, runVars
    <3>2. UNCHANGED queue
      BY <2>6, <1>h DEF Compact, Flush
    <3>3. QED
      BY <1>a, <2>0, <3>1, <3>2
  <2>7. CASE IdleOther
    <3>1. /\ pc' \in {"top", "closing"}
          /\ UNCHANGED <<open, cancelFlag, step, queue, draining, next>>
      BY <2>7 DEF IdleOther, RecvStaleCommit, RecvReleased, RecvClose, ConsumerGone, OutputClosed,
         ledgerVars, stopVars, loopOnlyVars, queueVars, runVars
    <3>2. QED
      BY <1>a, <2>0, <3>1
  <2>8. QED
    BY <1>3, <2>1, <2>2, <2>3, <2>4, <2>5, <2>6, <2>7 DEF IdleStep
<1>4. CASE CompactStep
  <2>0. pc = "maint" /\ step \notin RunSteps /\ draining = {}
    <3>1. pc = "maint"
      BY <1>4 DEF CompactStep, StopCompact, CloseCompact, RejectCompact, CompactEnds
    <3>2. QED
      BY <3>1, <1>f, <1>d DEF AckSteps
  <2>1. CASE StopCompact
    <3>1. /\ open' /\ cancelFlag'
          /\ UNCHANGED <<pc, cause, step, queue, draining, next>>
      BY <2>1 DEF StopCompact, StopWork, admissionVars, loopVars, queueVars, runVars
    <3>2. QED
      BY <1>a, <2>0, <3>1
  <2>2. CASE CloseCompact
    <3>1. /\ lifecycle' # "Active"
          /\ UNCHANGED <<pc, cause, step, open, next>>
      BY <2>2 DEF CloseCompact, BusyClose, GateSetLifecycle, loopVars, ledgerVars, stopVars, runVars
    <3>2. QED
      BY <2>0, <3>1
  <2>3. CASE RejectCompact
    BY <2>3, <1>k DEF RejectCompact, RejectCommit, loopVars, ledgerVars, stopVars, loopOnlyVars,
       queueVars, runVars, CleanKept
  <2>4. CASE CompactEnds
    <3>1. /\ pc' = "top"
          /\ lifecycle = "Active" => UNCHANGED cancelFlag
          /\ UNCHANGED <<open, step, queue, draining, next>>
      BY <2>4, <1>f DEF CompactEnds, Finished, ledgerVars, stopVars, queueVars, runVars
    <3>2. QED
      BY <1>a, <2>0, <3>1
  <2>5. QED
    BY <1>4, <2>1, <2>2, <2>3, <2>4 DEF CompactStep
<1>5. CASE QueryStep
  <2>0. pc = "run" /\ step \in QuerySteps
    BY <1>5 DEF QueryStep, FirstDrain, FirstDrainAcked, SpawnTask, AutoCompact,
       TurnCompletes, TurnInterrupted, TurnDrained, TurnDrainFailed, QueryEnds
  <2>1. UNCHANGED <<pc, open, cancelFlag, wasCancelled>>
    BY <1>5 DEF QueryStep, FirstDrain, FirstDrainAcked, SpawnTask, BeginSpawn, AutoCompact,
       TurnCompletes, TurnInterrupted, TurnDrained, TurnDrainFailed, QueryEnds,
       QueryOnly, admissionVars, loopVars, ledgerVars, stopVars, loopOnlyVars, runVars
  <2>2. step' \in QuerySteps \cup {"post"}
    BY <1>5, <2>0 DEF QueryStep, FirstDrain, FirstDrainAcked, SpawnTask, AutoCompact,
       TurnCompletes, TurnInterrupted, TurnDrained, TurnDrainFailed, QueryEnds,
       GoTo, Drain, loopOnlyVars
  <2>3. Quiet => Quiet'
    <3>1. CASE FirstDrain \/ TurnCompletes
      BY <3>1 DEF FirstDrain, TurnCompletes, Drain
    <3>2. CASE FirstDrainAcked \/ TurnDrained \/ TurnDrainFailed
      BY <3>2, <1>h DEF FirstDrainAcked, TurnDrained, TurnDrainFailed, Drained, DrainFailed
    <3>3. CASE QueryEnds \/ TurnInterrupted
      BY <3>3 DEF QueryEnds, TurnInterrupted
    <3>4. CASE AutoCompact \/ \E t \in Tasks : SpawnTask(t)
      BY <3>4 DEF AutoCompact, SpawnTask, loopOnlyVars, queueVars, runVars
    <3>5. QED
      BY <1>5, <3>1, <3>2, <3>3, <3>4 DEF QueryStep
  <2>4. QED
    BY <1>a, <2>0, <2>1, <2>2, <2>3
<1>6. CASE QueryInput
  <2>0. pc = "run" /\ step \in QuerySteps
    BY <1>6 DEF QueryInput, RecvRunCompletion, RunStop, RejectRun, QueryDropped, CloseRun,
       DropQuery, Querying
  <2>1. ASSUME NEW t \in Tasks, RecvRunCompletion(t)
        PROVE  CleanInv'
    <3>1. UNCHANGED <<pc, cause, open, cancelFlag, step, draining, next, wasCancelled>>
      BY <2>1 DEF RecvRunCompletion, admissionVars, loopVars, stopVars, runVars
    <3>2. open => UNCHANGED queue
      BY <2>1 DEF RecvRunCompletion, CompletionIsStopped
    <3>3. QED
      BY <1>a, <2>0, <3>1, <3>2
  <2>2. CASE RunStop
    <3>1. open' /\ cancelFlag' /\ UNCHANGED <<pc, step>>
      BY <2>2 DEF RunStop, StopWork, admissionVars, loopVars
    <3>2. QED
      BY <1>a, <2>0, <3>1
  <2>3. CASE RejectRun
    BY <2>3, <1>k DEF RejectRun, RejectCommit, loopVars, ledgerVars, stopVars, loopOnlyVars,
       queueVars, runVars, CleanKept
  <2>4. CASE QueryDropped \/ CloseRun
    <3>1. pc' = pc /\ step' = "post" /\ ~Alive'
      BY <2>4 DEF QueryDropped, CloseRun, DropQuery, GoTo, BusyClose, GateSetLifecycle,
         admissionVars, gateVars, loopVars
    <3>2. QED
      BY <2>0, <3>1
  <2>5. QED
    BY <1>6, <2>1, <2>2, <2>3, <2>4 DEF QueryInput
<1>7. CASE SettleStep
  <2>0. pc = "run" /\ (step \notin AckSteps => draining = {}) /\ step \notin AckSteps
    BY <1>7, <1>d DEF SettleStep, CollectBefore, CreateRunFails, InitialMessageFails, QueryRefused,
       QueryStarts, QuerySettles, RecordRun, CollectAfter, SettleCancelled, FollowUp, NoFollowUp,
       LeaveRun, AckSteps
  <2>h. ~HostFails
    BY DEF HostFails
  <2>1. CASE CollectBefore \/ CollectAfter
    <3>1. open => chan = StoppedIn(chan) /\ UNCHANGED queue
      BY <2>1 DEF CollectBefore, CollectAfter, Collect, StoppedIn, CompletionIsStopped
    <3>2. /\ UNCHANGED <<pc, cause, open, cancelFlag, draining, wasCancelled>>
          /\ open => UNCHANGED next
      BY <2>1, <3>1 DEF CollectBefore, CollectAfter, admissionVars, loopVars, stopVars, runVars
    <3>3. \/ step = "collect" /\ step' = "open"
          \/ step = "tail" /\ step' = "decide"
      BY <2>1 DEF CollectBefore, CollectAfter, GoTo
    <3>4. QED
      BY <1>a, <2>0, <3>1, <3>2, <3>3
  <2>2. CASE CreateRunFails \/ InitialMessageFails
    BY <2>2, <2>h DEF CreateRunFails, InitialMessageFails
  <2>3. CASE QueryRefused
    <3>1. lifecycle' # "Active" /\ UNCHANGED pc /\ step' = "record"
      BY <2>3 DEF QueryRefused, RunFails, GateSetLifecycle, GoTo, admissionVars, gateVars, loopVars
    <3>2. QED
      BY <2>0, <3>1
  <2>4. CASE QueryStarts
    <3>1. /\ step = "open" /\ step' = "query"
          /\ UNCHANGED <<pc, cause, open, cancelFlag, queue, draining, next>>
      BY <2>4 DEF QueryStarts, GoTo, admissionVars, loopVars, ledgerVars, stopVars, queueVars, runVars
    <3>2. QED
      BY <1>a, <2>0, <3>1
  <2>5. CASE QuerySettles
    <3>1. /\ step = "post" /\ step' = "record"
          /\ wasCancelled' = cancelFlag /\ ~cancelFlag'
          /\ UNCHANGED <<pc, open, queue, draining, next>>
      BY <2>5, <2>h DEF QuerySettles, GoTo, admissionVars, loopVars, ledgerVars, stopVars, queueVars
    <3>2. QED
      BY <1>a, <2>0, <3>1
  <2>6. CASE RecordRun
    <3>1. /\ step = "record" /\ step' = "tail"
          /\ UNCHANGED <<pc, open, cancelFlag, queue, draining, next, wasCancelled>>
      BY <2>6, <2>h DEF RecordRun, GoTo, admissionVars, loopVars, ledgerVars, stopVars, queueVars, runVars
    <3>2. QED
      BY <1>a, <2>0, <3>1
  <2>7. CASE SettleCancelled
    <3>1. /\ step = "decide" /\ step' = "leave" /\ queue' = {}
          /\ UNCHANGED <<pc, open, cancelFlag>>
      BY <2>7 DEF SettleCancelled, GoTo, admissionVars, loopVars, stopVars
    <3>2. QED
      BY <1>a, <2>0, <3>1
  <2>8. CASE FollowUp
    <3>1. /\ step = "decide" /\ step' = "collect" /\ pc' = "run"
          /\ UNCHANGED <<open, cancelFlag, queue, draining>>
      BY <2>8 DEF FollowUp, GoTo, FollowUpRun, ledgerVars, stopVars, queueVars
    <3>2. lifecycle = "Active" /\ connected /\ ~wasCancelled /\ next # NoStart
      BY <2>8 DEF FollowUp, MustEnd
    <3>3. ~open /\ ~cancelFlag
      BY <3>1, <3>2
    <3>4. QED
      BY <3>1, <3>3
  <2>9. CASE NoFollowUp
    <3>1. /\ step = "decide" /\ step' = "leave"
          /\ UNCHANGED <<pc, open, cancelFlag, queue>>
          /\ Alive => ~wasCancelled
      BY <2>9 DEF NoFollowUp, GoTo, MustEnd, admissionVars, loopVars, ledgerVars, stopVars, queueVars
    <3>2. QED
      BY <1>a, <2>0, <3>1
  <2>10. CASE LeaveRun
    <3>1. /\ step = "leave" /\ step' = "idle" /\ pc' = "top" /\ next' = NoStart
          /\ UNCHANGED <<open, cancelFlag, queue, draining>>
      BY <2>10 DEF LeaveRun, GoTo, Finished, ledgerVars, stopVars, queueVars
    <3>2. QED
      BY <1>a, <2>0, <3>1
  <2>11. QED
    BY <1>7, <2>1, <2>2, <2>3, <2>4, <2>5, <2>6, <2>7, <2>8, <2>9, <2>10 DEF SettleStep
<1>8. CASE ClosingStep
  <2>1. /\ pc' \in {"drain", "await", "parked", "settle", "closed"}
        /\ step' \in {step, "tasks", "settled"}
        /\ pc # "run" /\ UNCHANGED <<open, next>>
    BY <1>8 DEF ClosingStep, ShutdownGate, ShutdownCancel, ShutdownTail, Announce, ShutdownBegins,
       CloseChannel, AwaitUnreserved, WokenByRelease, AnnounceClosed, GoTo, admissionVars, loopVars,
       ledgerVars, stopVars, loopOnlyVars, runVars
  <2>2. ~(lifecycle' = "Active")
    <3>1. ShutdownOrder'
      BY LoopStepIsAdmissionStep, InvStep DEF LoopInv, AdmissionInv, OrderInv
    <3>2. QED
      BY <2>1, <3>1 DEF ShutdownOrder
  <2>3. QED
    BY <1>f, <2>1, <2>2
<1>9. CASE (\E t \in Tasks : TaskActs(t)) \/ HostActs \/ Disconnect
  <2>1. UNCHANGED open
    BY <1>9 DEF TaskActs, TaskStep, GiveUpSpawn, Register, Launch, CancelTask, End, NotifyCompleted,
       LoseSpawn, HostActs, Disconnect, ledgerVars, stopVars
  <2>2. UNCHANGED <<cancelFlag, step, pc, cause, queue, draining, next, wasCancelled>>
    BY <1>9 DEF TaskActs, HostActs, HostStep, Reserve, Commit, Drop, Abandon, CommitReturns,
       RequestClose, CloseIdle, Disconnect, admissionVars, loopVars, loopOnlyVars, queueVars, runVars
  <2>3. QED
    BY <1>k, <2>1, <2>2 DEF CleanKept
<1>10. QED
  BY <1>1, <1>2, <1>3, <1>4, <1>5, <1>6, <1>7, <1>8, <1>9 DEF LoopNext

(* A run that only notifications caused begins outside any stop boundary    *)
(* and with the cancel flag reset (StopLedger, manager.rs:15-22), as long   *)
(* as no call of the host fails.                                            *)
THEOREM AutoRunsStartClean ==
    ASSUME "HostFails" \notin Events
    PROVE  LoopSafety => []AutoRunStartsClean
<1>1. LoopInit => CleanInv
  BY DEF LoopInit, AdmissionInit, GateInit, LedgerInit, CleanInv, FlagInv, StartInv, BoundaryInv,
     AutoRunStartsClean, AtStep, TailSteps
<1>2. AdmissionInv /\ LoopInv /\ CleanInv /\ [LoopNext]_allVars => CleanInv'
  BY CleanStep
<1>3. CleanInv => AutoRunStartsClean
  BY DEF CleanInv
<1>4. LoopSafety => []AdmissionInv
  BY LoopImplementsAdmission, AdmissionInvariant DEF ImplementsRunAdmission
<1>5. QED
  BY LoopInvHolds, <1>1, <1>2, <1>3, <1>4, PTL DEF LoopSafety

-----------------------------------------------------------------------------
(* A manual compaction rewrites the stored context from memory: by then     *)
(* everything delivered is in memory, as the inbox was flushed before.      *)
ContextInv == pc = "maint" /\ connected => \A t \in delivered : mem[t] > 0

StoredInv == StoredKeepsDelivered /\ ContextInv

(* Rows and stored context change together, except where it is rewritten.   *)
Stores == UNCHANGED <<rows, stored>> \/ \E S : Persist(S)

LEMMA StoresStep ==
    ASSUME [LoopNext]_allVars, ~AutoCompact, ~CompactEnds
    PROVE  Stores
<1>0. /\ \A S : PersistStopped(S) => Stores
      /\ Flush => Stores
      /\ \A S : Collect(S) => Stores
  BY DEF PersistStopped, Flush, Collect, PersistFails, Stores
<1>1. CASE UNCHANGED allVars
  BY <1>1 DEF allVars, loopOnlyVars, contextVars, Stores
<1>2. CASE Top \/ StartRun \/ DeferStart \/ HostActs \/ Disconnect \/ \E t \in Tasks : TaskActs(t)
  BY <1>2 DEF Top, StartRun, DeferStart, HostActs, Disconnect, TaskActs, loopOnlyVars,
     contextVars, Stores
<1>3. CASE IdleStep
  BY <1>3, <1>0 DEF IdleStep, CommitRun, RecvStoppedCompletion, RecvCompletion,
     IdleStop, ApprovePlan, Compact, IdleOther, loopOnlyVars, contextVars, Stores
<1>4. CASE CompactStep \/ ClosingStep
  BY <1>4, <1>0 DEF CompactStep, StopCompact, CloseCompact, RejectCompact, ClosingStep,
     ShutdownGate, ShutdownCancel, ShutdownTail, Announce, loopOnlyVars, contextVars, Stores
<1>5. CASE QueryStep
  BY <1>5 DEF QueryStep, FirstDrain, FirstDrainAcked, SpawnTask, TurnCompletes,
     TurnInterrupted, TurnDrained, TurnDrainFailed, QueryEnds, Drained, DrainFailed,
     PersistFails, loopOnlyVars, contextVars, Stores
<1>6. CASE QueryInput
  BY <1>6, <1>0 DEF QueryInput, RecvRunCompletion, RunStop, RejectRun, QueryDropped,
     CloseRun, DropQuery, loopOnlyVars, contextVars, Stores
<1>7. CASE SettleStep
  BY <1>7, <1>0 DEF SettleStep, CollectBefore, CreateRunFails, InitialMessageFails,
     QueryRefused, QueryStarts, QuerySettles, RecordRun, CollectAfter,
     SettleCancelled, FollowUp, NoFollowUp, LeaveRun, contextVars, Stores
<1>8. QED
  BY <1>1, <1>2, <1>3, <1>4, <1>5, <1>6, <1>7 DEF LoopNext

(* Nothing is delivered while the context is being rewritten.               *)
LEMMA MaintenanceStep ==
    ASSUME [LoopNext]_allVars, ~Compact, pc' = "maint"
    PROVE  pc = "maint" /\ UNCHANGED <<mem, delivered>>
<1>1. CASE UNCHANGED allVars
  BY <1>1 DEF allVars, admissionVars, loopVars, ledgerVars, loopOnlyVars, contextVars
<1>2. CASE HostActs \/ Disconnect \/ \E t \in Tasks : TaskActs(t)
  <2>1. UNCHANGED <<pc, mem>>
    BY <1>2 DEF HostActs, HostStep, Reserve, Commit, Drop, Abandon, CommitReturns,
       RequestClose, CloseIdle, Disconnect, TaskActs, admissionVars, loopVars,
       loopOnlyVars, contextVars
  <2>2. UNCHANGED delivered
    BY <1>2 DEF HostActs, Disconnect, TaskActs, TaskStep, GiveUpSpawn, Register, Launch,
       CancelTask, End, NotifyCompleted, LoseSpawn, ledgerVars
  <2>3. QED
    BY <2>1, <2>2
<1>3. CASE CompactStep
  BY <1>3 DEF CompactStep, StopCompact, CloseCompact, RejectCompact, CompactEnds,
     ledgerVars, loopOnlyVars, contextVars
<1>4. ASSUME Top \/ StartRun \/ DeferStart \/ IdleStep \/ ClosingStep
      PROVE  FALSE
  BY <1>4 DEF Top, TopTestLifecycle, TopWait, TopRetryDeferred, TopDiscardDeferred,
     StartRun, StartInternal, DeferStart, DeferInternal, IdleStep, CommitRun, RecvCommit,
     RecvStoppedCompletion, RecvCompletion, RecvOther, RecvInternal, IdleStop,
     ApprovePlan, IdleOther, RecvStaleCommit, RecvReleased, RecvClose, ConsumerGone,
     OutputClosed, ClosingStep, ShutdownGate, ShutdownBegins, CloseChannel,
     AwaitUnreserved, WokenByRelease, ShutdownCancel, ShutdownTail, Announce,
     AnnounceClosed, admissionVars, loopVars
<1>5. ASSUME QueryStep \/ QueryInput
      PROVE  FALSE
  BY <1>5 DEF QueryStep, FirstDrain, FirstDrainAcked, SpawnTask, AutoCompact,
     TurnCompletes, TurnInterrupted, TurnDrained, TurnDrainFailed, QueryEnds,
     QueryOnly, AtStep, QueryInput, RecvRunCompletion, RunStop, RejectRun, QueryDropped,
     CloseRun, DropQuery, Querying, RejectCommit, BusyClose, admissionVars, loopVars
<1>6. ASSUME SettleStep
      PROVE  FALSE
  BY <1>6 DEF SettleStep, CollectBefore, CreateRunFails, InitialMessageFails,
     QueryRefused, QueryStarts, QuerySettles, RecordRun, CollectAfter, SettleCancelled,
     FollowUp, NoFollowUp, LeaveRun, FailRun, RunFails, FollowUpRun, Finished, AtStep,
     admissionVars, loopVars
<1>7. QED
  BY <1>1, <1>2, <1>3, <1>4, <1>5, <1>6 DEF LoopNext

LEMMA StoredStep ==
    ASSUME "AutoCompact" \notin Events, LoopInv, StoredInv, [LoopNext]_allVars
    PROVE  StoredInv'
<1> USE DEF StoredInv, StoredKeepsDelivered, ContextInv
<1>a. connected' => connected
  BY AliveStep DEF LoopInv
<1>t. mem \in [Tasks -> 0..2] /\ delivered \subseteq Tasks /\ rows = delivered
  BY DEF LoopInv, DeliveryInv, PlacesTyped, KeptOnce
<1>s. ~AutoCompact
  BY DEF AutoCompact
<1>1. CASE CompactEnds
  BY <1>1, <1>t DEF CompactEnds, Finished, Rewritten, ledgerVars
<1>2. ASSUME ~CompactEnds
      PROVE  StoredInv'
  <2>1. StoredKeepsDelivered'
    BY <1>a, <1>s, <1>2, StoresStep DEF Stores, Persist
  <2>2. CASE Compact
    <3>1. ASSUME pc' = "maint", connected'
          PROVE  \A t \in delivered' : mem'[t] > 0
      <4>1. KeptOnce'
        BY LoopInvStep DEF LoopInv, DeliveryInv
      <4>2. inbox' = {}
        BY <2>2, <3>1 DEF Compact, Flush
      <4>3. lifecycle' = "Active"
        BY <2>2, <3>1 DEF Compact, RecvCompact, Vacant, GateBeginMaintenance
      <4>4. QED
        BY <3>1, <4>1, <4>2, <4>3 DEF KeptOnce, Alive
    <3>2. QED
      BY <2>1, <3>1
  <2>3. CASE ~Compact
    BY <1>a, <2>1, <2>3, MaintenanceStep
  <2>4. QED
    BY <2>2, <2>3
<1>3. QED
  BY <1>1, <1>2

(* The stored context holds every notification whose row says delivered,    *)
(* across manual compactions, failures and stops (run_loop.rs:183-189), as  *)
(* long as no turn compacts by itself.                                      *)
THEOREM DeliveredStaysStored ==
    ASSUME "AutoCompact" \notin Events
    PROVE  LoopSafety => []StoredKeepsDelivered
<1>1. LoopInit => StoredInv
  BY DEF LoopInit, AdmissionInit, StoredInv, StoredKeepsDelivered, ContextInv
<1>2. LoopInv /\ StoredInv /\ [LoopNext]_allVars => StoredInv'
  BY StoredStep
<1>3. StoredInv => StoredKeepsDelivered
  BY DEF StoredInv
<1>4. QED
  BY LoopInvHolds, <1>1, <1>2, <1>3, PTL DEF LoopSafety
=============================================================================
