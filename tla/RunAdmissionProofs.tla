------------------------ MODULE RunAdmissionProofs ------------------------
(***************************************************************************)
(* Proofs about RunAdmission, for any set of runs.  The inductive          *)
(* invariant is AdmissionInv: the three safety invariants, and where the   *)
(* lifecycle and the command channel stand at each point of the shutdown.  *)
(***************************************************************************)
EXTENDS RunAdmission, TLAPS

(* A start that is refused is put back whole, so what is being started is  *)
(* always a start that may be put off.                                     *)
TypeInv ==
    /\ AdmissionTypeOK
    /\ pc = "starting" => cause \in InternalStarts

ShutdownOrder ==
    /\ pc \in {"drain", "await", "parked", "settle"} => lifecycle = "Closing"
    /\ pc = "closed" <=> lifecycle = "Closed"
    /\ pc \in {"await", "parked", "settle", "closed"} =>
         ~chanOpen /\ \A r \in Runs : res[r] \notin {"sent", "abandoned"}

OrderInv ==
    /\ ReservationOwnsSlot
    /\ SlotMatchesWork
    /\ ClosedIsVacant
    /\ ShutdownOrder

AdmissionInv == TypeInv /\ OrderInv

-----------------------------------------------------------------------------
(* What each kind of slot is: the steps below reason from these facts and  *)
(* leave the records unexpanded.                                           *)
LEMMA SlotFacts ==
    /\ Free \in Slots /\ Free.kind = "Free"
    /\ Maintenance \in Slots /\ Maintenance.kind = "Maintenance"
    /\ \A r \in Runs :
         /\ Reserved(r) \in Slots
         /\ Reserved(r).kind = "Reserved"
         /\ Reserved(r).run = r
    /\ \A r \in Runs \cup {NoRun} :
         /\ Running(r) \in Slots
         /\ Running(r).kind = "Active"
         /\ Running(r).run = r
BY DEF Slots, Free, Maintenance, Reserved, Running

LEMMA SlotCases ==
    ASSUME NEW s \in Slots
    PROVE  \/ s = Free
           \/ s = Maintenance
           \/ \E r \in Runs : s = Reserved(r)
           \/ \E r \in Runs \cup {NoRun} : s = Running(r)
BY DEF Slots

LEMMA ReleaseEffect ==
    ASSUME NEW r \in Runs, GateRelease(r)
    PROVE  /\ slot' = IF slot = Reserved(r) THEN Free ELSE slot
           /\ permit' = (permit \/ slot = Reserved(r)) \/ permit' = permit
           /\ lifecycle' = lifecycle
           /\ deferred' = deferred
BY DEF GateRelease

(* Every critical section of the gate keeps the types of its state.        *)
LEMMA SlotOpsKeepType ==
    ASSUME NEW r \in Runs, GateTypeOK,
           \/ GateReserve(r) \/ GateRelease(r) \/ GateActivate(r)
           \/ GateStartInternal \/ GateBeginMaintenance
    PROVE  GateTypeOK'
<1>1. CASE GateReserve(r) \/ GateRelease(r) \/ GateActivate(r)
  BY <1>1, SlotFacts DEF GateReserve, GateRelease, GateActivate, GateTypeOK
<1>2. CASE GateStartInternal \/ GateBeginMaintenance
  BY <1>2, SlotFacts DEF GateStartInternal, GateBeginMaintenance, GateTypeOK
<1>3. QED
  BY <1>1, <1>2

LEMMA InternalOpsKeepType ==
    ASSUME GateTypeOK,
           \/ GateStartInternal \/ GateRefuseInternal \/ GateClearDeferred
           \/ GateBeginMaintenance \/ GateFinish \/ GateRelabel
    PROVE  GateTypeOK'
<1>1. CASE GateStartInternal \/ GateBeginMaintenance \/ GateFinish \/ GateRelabel
  BY <1>1, SlotFacts DEF GateStartInternal, GateBeginMaintenance, GateFinish,
     GateRelabel, GateTypeOK
<1>2. CASE GateRefuseInternal \/ GateClearDeferred
  BY <1>2 DEF GateRefuseInternal, GateClearDeferred, GateTypeOK
<1>3. QED
  BY <1>1, <1>2

LEMMA LifecycleOpsKeepType ==
    ASSUME GateTypeOK,
           GateCloseIdle \/ \E l \in Lifecycles : GateSetLifecycle(l)
    PROVE  GateTypeOK'
BY DEF GateCloseIdle, GateSetLifecycle, GateTypeOK, Lifecycles

LEMMA TypeStep == TypeInv /\ [AdmissionNext]_admissionVars => TypeInv'
<1> USE DEF TypeInv, AdmissionTypeOK, ResStates, Pcs, InternalStarts, Causes,
            NoStart
<1> SUFFICES ASSUME TypeInv, [AdmissionNext]_admissionVars
             PROVE  TypeInv'
  OBVIOUS
<1>0. /\ UNCHANGED gateVars => GateTypeOK'
      /\ {"Closing", "Closed"} \subseteq Lifecycles
      /\ \A p \in {permit, TRUE, FALSE} :
           UNCHANGED <<lifecycle, slot, deferred>> /\ permit' = p => GateTypeOK'
  BY DEF gateVars, GateTypeOK, Lifecycles
<1>1. CASE UNCHANGED admissionVars
  BY <1>0, <1>1 DEF admissionVars, hostVars, loopVars
<1>2. ASSUME NEW r \in Runs, HostStep(r)
      PROVE  TypeInv'
  <2>1. GateTypeOK'
    BY <1>0, <1>2, SlotOpsKeepType DEF HostStep, Reserve, Commit, Drop, Abandon,
       CommitReturns
  <2>2. res' \in [Runs -> ResStates]
    BY <1>2 DEF HostStep, Reserve, Commit, Drop, Abandon, CommitReturns
  <2>3. UNCHANGED <<chanOpen, closeCmd, loopVars>>
    BY <1>2 DEF HostStep, Reserve, Commit, Drop, Abandon, CommitReturns
  <2>4. QED
    BY <2>1, <2>2, <2>3 DEF loopVars
<1>3. CASE RequestClose \/ CloseIdle
  <2>1. GateTypeOK'
    BY <1>0, <1>3, LifecycleOpsKeepType DEF RequestClose, CloseIdle
  <2>2. QED
    BY <1>3, <2>1 DEF RequestClose, CloseIdle, hostVars, loopVars
<1>4. CASE TopStep
  <2>1. GateTypeOK' /\ UNCHANGED hostVars
    BY <1>0, <1>4, InternalOpsKeepType DEF TopStep, TopTestLifecycle,
       TopRetryDeferred, TopDiscardDeferred, TopWait
  <2>2. QED
    BY <1>4, <2>1 DEF TopStep, TopTestLifecycle, TopRetryDeferred,
       TopDiscardDeferred, TopWait, MayRetry, hostVars
<1>5. CASE SelectStep
  <2>1. ASSUME NEW r \in Runs, RecvCommit(r) \/ RecvStaleCommit(r)
        PROVE  TypeInv'
    <3>1. GateTypeOK'
      BY <1>0, <2>1, SlotOpsKeepType DEF RecvCommit, RecvStaleCommit
    <3>2. res' \in [Runs -> ResStates]
      BY <2>1 DEF RecvCommit, RecvStaleCommit, Answered
    <3>3. QED
      BY <2>1, <3>1, <3>2 DEF RecvCommit, RecvStaleCommit
  <2>2. ASSUME NEW s \in InternalStarts, RecvInternal(s)
        PROVE  TypeInv'
    BY <1>0, <2>2 DEF RecvInternal, hostVars
  <2>3. CASE RecvCompact
    <3>1. GateTypeOK'
      BY <1>0, <2>3, InternalOpsKeepType DEF RecvCompact
    <3>2. QED
      BY <2>3, <3>1 DEF RecvCompact, hostVars
  <2>4. CASE RecvOther \/ RecvReleased \/ RecvClose \/ OutputClosed
    <3>1. GateTypeOK'
      BY <1>0, <2>4, LifecycleOpsKeepType DEF RecvOther, RecvReleased, RecvClose,
         OutputClosed
    <3>2. QED
      BY <2>4, <3>1 DEF RecvOther, RecvReleased, RecvClose, OutputClosed, hostVars
  <2>5. QED
    BY <1>5, <2>1, <2>2, <2>3, <2>4 DEF SelectStep
<1>6. CASE StartStep
  <2>1. GateTypeOK'
    BY <1>6, InternalOpsKeepType DEF StartStep, StartInternal, DeferInternal
  <2>2. QED
    BY <1>6, <2>1 DEF StartStep, StartInternal, DeferInternal, hostVars
<1>7. CASE BusyStep
  <2>1. ASSUME NEW r \in Runs, RejectCommit(r)
        PROVE  TypeInv'
    <3>1. res' \in [Runs -> ResStates]
      BY <2>1 DEF RejectCommit, Answered
    <3>2. QED
      BY <1>0, <2>1, <3>1 DEF RejectCommit, loopVars
  <2>2. CASE \E s \in {"PersistedTaskNotification", "PendingTaskNotification"} :
                 FollowUpRun(s)
    <3>1. GateTypeOK'
      BY <2>2, InternalOpsKeepType DEF FollowUpRun
    <3>2. QED
      BY <2>2, <3>1 DEF FollowUpRun, hostVars
  <2>3. CASE BusyClose \/ RunFails
    <3>1. GateTypeOK'
      BY <1>0, <2>3, LifecycleOpsKeepType DEF BusyClose, RunFails
    <3>2. QED
      BY <2>3, <3>1 DEF BusyClose, RunFails, hostVars, loopVars
  <2>4. CASE Finished
    <3>1. GateTypeOK'
      BY <2>4, InternalOpsKeepType DEF Finished
    <3>2. QED
      BY <2>4, <3>1 DEF Finished, hostVars
  <2>5. QED
    BY <1>7, <2>1, <2>2, <2>3, <2>4 DEF BusyStep
<1>8. CASE ShutdownStep
  <2>1. CASE ShutdownBegins \/ AnnounceClosed
    <3>1. GateTypeOK'
      BY <1>0, <2>1, LifecycleOpsKeepType DEF ShutdownBegins, AnnounceClosed
    <3>2. QED
      BY <2>1, <3>1 DEF ShutdownBegins, AnnounceClosed, hostVars
  <2>2. CASE CloseChannel
    <3>1. res' \in [Runs -> ResStates]
      BY <2>2 DEF CloseChannel
    <3>2. QED
      BY <1>0, <2>2, <3>1 DEF CloseChannel
  <2>3. CASE AwaitUnreserved \/ WokenByRelease
    BY <1>0, <2>3 DEF AwaitUnreserved, WokenByRelease, hostVars
  <2>4. QED
    BY <1>8, <2>1, <2>2, <2>3 DEF ShutdownStep
<1>9. QED
  BY <1>1, <1>2, <1>3, <1>4, <1>5, <1>6, <1>7, <1>8 DEF AdmissionNext

LEMMA TypeStart == AdmissionInit => TypeInv
BY SlotFacts DEF AdmissionInit, GateInit, TypeInv, AdmissionTypeOK, GateTypeOK,
   Lifecycles, ResStates, Pcs, InternalStarts, Causes, NoStart

(* Every variable of the gate, the hosts and the loop keeps to its type:   *)
(* in particular the lifecycle and the slot of handle.rs take no value     *)
(* outside their enums.                                                    *)
THEOREM AdmissionTypeCorrect == AdmissionSafety => []AdmissionTypeOK
<1>1. TypeInv => AdmissionTypeOK
  BY DEF TypeInv
<1>2. QED
  BY TypeStart, TypeStep, <1>1, PTL DEF AdmissionSafety

-----------------------------------------------------------------------------
LEMMA InvStart == AdmissionInit => AdmissionInv
<1> SUFFICES ASSUME AdmissionInit
             PROVE  AdmissionInv
  OBVIOUS
<1>1. TypeInv
  BY TypeStart
<1>2. ReservationOwnsSlot
  BY SlotFacts DEF AdmissionInit, GateInit, ReservationOwnsSlot
<1>3. SlotMatchesWork /\ ClosedIsVacant /\ ShutdownOrder
  BY SlotFacts DEF AdmissionInit, GateInit, SlotMatchesWork, ClosedIsVacant,
     ShutdownOrder
<1>4. QED
  BY <1>1, <1>2, <1>3 DEF AdmissionInv, OrderInv

LEMMA OrderStep ==
    ASSUME TypeInv, OrderInv, [AdmissionNext]_admissionVars
    PROVE  OrderInv'
<1> USE DEF OrderInv, ReservationOwnsSlot, SlotMatchesWork, ClosedIsVacant,
            ShutdownOrder
<1>s. /\ slot \in Slots
      /\ res \in [Runs -> ResStates]
      /\ lifecycle \in Lifecycles
  BY DEF TypeInv, AdmissionTypeOK, GateTypeOK
<1>1. CASE UNCHANGED admissionVars
  BY <1>1 DEF admissionVars, gateVars, hostVars, loopVars
<1>2. ASSUME NEW r \in Runs, HostStep(r)
      PROVE  OrderInv'
  <2>1. CASE Reserve(r)
    BY <2>1, <1>s, SlotFacts DEF Reserve, GateReserve, Vacant, loopVars
  <2>2. CASE Commit(r) \/ CommitReturns(r)
    BY <2>2, <1>s, SlotFacts DEF Commit, CommitReturns, gateVars, loopVars
  <2>3. CASE Drop(r)
    BY <2>3, <1>s, SlotFacts, ReleaseEffect DEF Drop, loopVars
  <2>4. CASE Abandon(r)
    BY <2>4, <1>s, SlotFacts, ReleaseEffect DEF Abandon, loopVars
  <2>5. QED
    BY <1>2, <2>1, <2>2, <2>3, <2>4 DEF HostStep
<1>3. CASE RequestClose \/ CloseIdle
  BY <1>3, <1>s DEF RequestClose, CloseIdle, GateSetLifecycle, GateCloseIdle,
     Vacant, hostVars, loopVars, Lifecycles
<1>4. CASE TopStep
  BY <1>4, <1>s DEF TopStep, TopTestLifecycle, TopRetryDeferred,
     TopDiscardDeferred, TopWait, MayRetry, GateClearDeferred, gateVars, hostVars
<1>5. CASE SelectStep
  <2>1. ASSUME NEW r \in Runs, RecvCommit(r)
        PROVE  OrderInv'
    BY <2>1, <1>s, SlotFacts DEF RecvCommit, Answered, GateActivate,
       CanActivate, InChannel
  <2>2. ASSUME NEW r \in Runs, RecvStaleCommit(r)
        PROVE  OrderInv'
    BY <2>2, <1>s, SlotFacts DEF RecvStaleCommit, Answered, InChannel, gateVars
  <2>3. ASSUME NEW s \in InternalStarts, RecvInternal(s)
        PROVE  OrderInv'
    BY <2>3 DEF RecvInternal, gateVars, hostVars
  <2>4. CASE RecvCompact
    BY <2>4, <1>s, SlotFacts DEF RecvCompact, GateBeginMaintenance, Vacant,
       gateVars, hostVars
  <2>5. CASE RecvOther \/ RecvReleased \/ RecvClose \/ OutputClosed
    BY <2>5, <1>s DEF RecvOther, RecvReleased, RecvClose, OutputClosed,
       GateSetLifecycle, gateVars, hostVars
  <2>6. QED
    BY <1>5, <2>1, <2>2, <2>3, <2>4, <2>5 DEF SelectStep
<1>6. CASE StartStep
  BY <1>6, <1>s, SlotFacts DEF StartStep, StartInternal, DeferInternal,
     GateStartInternal, GateRefuseInternal, Vacant, hostVars
<1>7. CASE BusyStep
  <2>1. ASSUME NEW r \in Runs, RejectCommit(r)
        PROVE  OrderInv'
    BY <2>1, <1>s DEF RejectCommit, Answered, InChannel, Busy, gateVars, loopVars
  <2>2. CASE \E s \in {"PersistedTaskNotification", "PendingTaskNotification"} :
                 FollowUpRun(s)
    BY <2>2, <1>s, SlotFacts DEF FollowUpRun, GateRelabel, hostVars
  <2>3. CASE BusyClose \/ RunFails
    BY <2>3, <1>s DEF BusyClose, RunFails, Busy, GateSetLifecycle, hostVars,
       loopVars
  <2>4. CASE Finished
    BY <2>4, <1>s, SlotFacts DEF Finished, Busy, GateFinish, hostVars
  <2>5. QED
    BY <1>7, <2>1, <2>2, <2>3, <2>4 DEF BusyStep
<1>8. CASE ShutdownStep
  <2>1. CASE ShutdownBegins
    BY <2>1, <1>s DEF ShutdownBegins, GateSetLifecycle, Lifecycles, hostVars
  <2>2. CASE CloseChannel
    BY <2>2, <1>s DEF CloseChannel, gateVars, ResStates
  <2>3. CASE AwaitUnreserved
    BY <2>3, <1>s, SlotFacts, SlotCases
 DEF AwaitUnreserved, IsReserved, gateVars, hostVars, ResStates
  <2>4. CASE WokenByRelease
    BY <2>4, <1>s DEF WokenByRelease, hostVars
  <2>5. CASE AnnounceClosed
    BY <2>5, <1>s DEF AnnounceClosed, GateSetLifecycle, hostVars
  <2>6. QED
    BY <1>8, <2>1, <2>2, <2>3, <2>4, <2>5 DEF ShutdownStep
<1>9. QED
  BY <1>1, <1>2, <1>3, <1>4, <1>5, <1>6, <1>7, <1>8 DEF AdmissionNext

LEMMA InvStep == AdmissionInv /\ [AdmissionNext]_admissionVars => AdmissionInv'
BY TypeStep, OrderStep DEF AdmissionInv

LEMMA AdmissionInvariant == AdmissionSafety => []AdmissionInv
BY InvStart, InvStep, PTL DEF AdmissionSafety

(* No reservation leaks and none is freed under its host, for any number   *)
(* of hosts.                                                                *)
THEOREM AdmissionSafe == AdmissionSafety => []ReservationOwnsSlot
<1>1. AdmissionInv => ReservationOwnsSlot
  BY DEF AdmissionInv, OrderInv
<1>2. QED
  BY AdmissionInvariant, <1>1, PTL

(* The slot agrees with what the loop is doing, so `set_current_run` and    *)
(* the maintenance guard find the slot they expect, for any number of       *)
(* hosts.                                                                   *)
THEOREM SlotFollowsWork == AdmissionSafety => []SlotMatchesWork
<1>1. AdmissionInv => SlotMatchesWork
  BY DEF AdmissionInv, OrderInv
<1>2. QED
  BY AdmissionInvariant, <1>1, PTL

(* An instance whose shutdown has passed its last look at the slot is       *)
(* vacant and stays so: no host is admitted behind it.                      *)
THEOREM ClosedStaysVacant == AdmissionSafety => []ClosedIsVacant
<1>1. AdmissionInv => ClosedIsVacant
  BY DEF AdmissionInv, OrderInv
<1>2. QED
  BY AdmissionInvariant, <1>1, PTL

-----------------------------------------------------------------------------
(* The refinement.  What the permit of Admission is for each slot:         *)
LEMMA HoldingFacts ==
    /\ Holding(Free) = "nobody"
    /\ Holding(Maintenance) = "maintenance"
    /\ Holding(Running(NoRun)) = "internal"
    /\ \A r \in Runs : /\ Holding(Reserved(r)) = r
                       /\ Holding(Running(r)) = r
                       /\ r # "nobody"
    /\ \A s \in Slots : Holding(s) = "nobody" <=> s = Free
<1>1. Holding(Free) = "nobody" /\ Holding(Maintenance) = "maintenance"
  BY DEF Holding, Free, Maintenance
<1>2. Holding(Running(NoRun)) = "internal"
  BY SlotFacts DEF Holding, Running
<1>3. \A r \in Runs : /\ Holding(Reserved(r)) = r
                      /\ Holding(Running(r)) = r
                      /\ r # "nobody"
  BY NoRunAssumption, RunsAreIds DEF Holding, Reserved, Running
<1>4. ASSUME NEW s \in Slots
      PROVE  Holding(s) = "nobody" <=> s = Free
  BY <1>1, <1>2, <1>3, SlotCases, "nobody" # "maintenance", "nobody" # "internal"
<1>5. QED
  BY <1>1, <1>2, <1>3, <1>4

LEMMA AdmStart == AdmissionInit => Adm!Init
BY HoldingFacts, SlotFacts DEF AdmissionInit, GateInit, Adm!Init

LEMMA AdmStep ==
    ASSUME AdmissionInv, [AdmissionNext]_admissionVars
    PROVE  [Adm!Next]_(Adm!vars)
<1> USE DEF Adm!Next, Adm!vars
<1>i. TypeInv /\ SlotMatchesWork /\ ClosedIsVacant /\ ShutdownOrder
  BY DEF AdmissionInv, OrderInv
<1>s. slot \in Slots /\ lifecycle \in Lifecycles
  BY <1>i DEF TypeInv, AdmissionTypeOK, GateTypeOK
<1>u. ASSUME UNCHANGED <<lifecycle, slot>>
      PROVE  UNCHANGED Adm!vars
  BY <1>u
<1>c. ASSUME NEW l \in {"Active", "Closing"}, GateSetLifecycle(l), lifecycle # "Closed"
      PROVE  Adm!Close \/ UNCHANGED Adm!vars
  BY <1>c, <1>s DEF GateSetLifecycle, Adm!Close, Lifecycles
<1>l. ASSUME NEW r \in Runs, GateRelease(r)
      PROVE  Adm!Leave \/ UNCHANGED Adm!vars
  <2>1. CASE slot = Reserved(r)
    BY <1>l, <2>1, ReleaseEffect, HoldingFacts, SlotFacts DEF Adm!Leave
  <2>2. CASE slot # Reserved(r)
    BY <1>l, <2>2, ReleaseEffect, <1>u
  <2>3. QED
    BY <2>1, <2>2
<1>1. CASE UNCHANGED admissionVars
  BY <1>1, <1>u DEF admissionVars, gateVars
<1>2. ASSUME NEW r \in Runs, HostStep(r)
      PROVE  [Adm!Next]_(Adm!vars)
  <2>1. CASE Reserve(r)
    <3>1. Adm!Admit(r)
      BY <2>1, HoldingFacts, SlotFacts DEF Reserve, GateReserve, Vacant, Adm!Admit
    <3>2. QED
      BY <3>1
  <2>2. CASE Commit(r) \/ CommitReturns(r)
    BY <2>2, <1>u DEF Commit, CommitReturns, gateVars
  <2>3. CASE Drop(r) \/ Abandon(r)
    BY <2>3, <1>l DEF Drop, Abandon
  <2>4. QED
    BY <1>2, <2>1, <2>2, <2>3 DEF HostStep
<1>3. CASE RequestClose
  BY <1>3, <1>c DEF RequestClose
<1>4. CASE CloseIdle
  BY <1>4 DEF CloseIdle, GateCloseIdle, Vacant, Adm!Close
<1>5. CASE TopStep
  BY <1>5, <1>u DEF TopStep, TopTestLifecycle, TopRetryDeferred, TopDiscardDeferred,
     TopWait, MayRetry, GateClearDeferred, gateVars
<1>6. CASE SelectStep
  <2>1. ASSUME NEW r \in Runs, RecvCommit(r)
        PROVE  [Adm!Next]_(Adm!vars)
    <3>1. Adm!Begin
      BY <2>1, HoldingFacts, SlotFacts
      DEF RecvCommit, GateActivate, CanActivate, Adm!Begin
    <3>2. QED
      BY <3>1
  <2>2. ASSUME NEW r \in Runs, RecvStaleCommit(r)
        PROVE  [Adm!Next]_(Adm!vars)
    BY <2>2, <1>u DEF RecvStaleCommit, gateVars
  <2>3. ASSUME NEW s \in InternalStarts, RecvInternal(s)
        PROVE  [Adm!Next]_(Adm!vars)
    BY <2>3, <1>u DEF RecvInternal, gateVars
  <2>4. CASE RecvCompact
    <3>1. CASE Vacant
      <4>1. Adm!Admit("maintenance")
        BY <2>4, <3>1, HoldingFacts, SlotFacts
        DEF RecvCompact, GateBeginMaintenance, Vacant, Adm!Admit
      <4>2. QED
        BY <4>1
    <3>2. CASE ~Vacant
      BY <2>4, <3>2, <1>u DEF RecvCompact, gateVars
    <3>3. QED
      BY <3>1, <3>2
  <2>5. CASE RecvOther \/ RecvReleased \/ OutputClosed
    BY <2>5, <1>u DEF RecvOther, RecvReleased, OutputClosed, gateVars
  <2>6. CASE RecvClose
    BY <2>6, <1>c, <1>i DEF RecvClose, ShutdownOrder
  <2>7. QED
    BY <1>6, <2>1, <2>2, <2>3, <2>4, <2>5, <2>6 DEF SelectStep
<1>7. CASE StartStep
  <2>1. CASE StartInternal
    <3>1. Adm!Admit("internal")
      BY <2>1, HoldingFacts, SlotFacts
      DEF StartInternal, GateStartInternal, Vacant, Adm!Admit
    <3>2. QED
      BY <3>1
  <2>2. CASE DeferInternal
    BY <2>2, <1>u DEF DeferInternal, GateRefuseInternal
  <2>3. QED
    BY <1>7, <2>1, <2>2 DEF StartStep
<1>8. CASE BusyStep
  <2>1. ASSUME NEW r \in Runs, RejectCommit(r)
        PROVE  [Adm!Next]_(Adm!vars)
    BY <2>1, <1>u DEF RejectCommit, gateVars
  <2>2. ASSUME NEW s, FollowUpRun(s)
        PROVE  [Adm!Next]_(Adm!vars)
    <3>1. Adm!FollowUp
      BY <2>2, <1>i, HoldingFacts, SlotFacts
      DEF FollowUpRun, GateRelabel, SlotMatchesWork, Adm!FollowUp
    <3>2. QED
      BY <3>1
  <2>3. CASE BusyClose \/ RunFails
    BY <2>3, <1>c, <1>i DEF BusyClose, RunFails, Busy, ShutdownOrder
  <2>4. CASE Finished
    <3>1. slot.kind \in {"Active", "Maintenance"}
      BY <2>4, <1>i DEF Finished, Busy, SlotMatchesWork
    <3>2. Holding(slot) # "nobody"
      BY <3>1, <1>s, HoldingFacts, SlotFacts
    <3>3. Adm!Leave
      BY <2>4, <3>1, <3>2, HoldingFacts, SlotFacts DEF Finished, GateFinish, Adm!Leave
    <3>4. QED
      BY <3>3
  <2>5. QED
    BY <1>8, <2>1, <2>2, <2>3, <2>4 DEF BusyStep
<1>9. CASE ShutdownStep
  <2>1. CASE ShutdownBegins
    BY <2>1, <1>c, <1>i DEF ShutdownBegins, ShutdownOrder
  <2>2. CASE CloseChannel \/ AwaitUnreserved \/ WokenByRelease
    BY <2>2, <1>u DEF CloseChannel, AwaitUnreserved, WokenByRelease, gateVars
  <2>3. CASE AnnounceClosed
    <3>1. Adm!Finish
      BY <2>3, <1>i, HoldingFacts
      DEF AnnounceClosed, GateSetLifecycle, ClosedIsVacant, ShutdownOrder, Adm!Finish
    <3>2. QED
      BY <3>1
  <2>4. QED
    BY <1>9, <2>1, <2>2, <2>3 DEF ShutdownStep
<1>10. QED
  BY <1>1, <1>2, <1>3, <1>4, <1>5, <1>6, <1>7, <1>8, <1>9 DEF AdmissionNext

(* The gate with its mutex, commands and loop implements the closable      *)
(* permit: at most one run at a time, none begun once closing has begun,   *)
(* closed only when nobody holds the right to run (RunGate, handle.rs:94). *)
THEOREM AdmissionImplements == AdmissionSafety => ImplementsAdmission
<1>1. AdmissionInv /\ [AdmissionNext]_admissionVars => [Adm!Next]_(Adm!vars)
  BY AdmStep
<1>2. QED
  BY AdmStart, AdmissionInvariant, <1>1, PTL
  DEF AdmissionSafety, ImplementsAdmission, Adm!Spec
=============================================================================
