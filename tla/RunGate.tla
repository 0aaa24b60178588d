------------------------------ MODULE RunGate ------------------------------
(***************************************************************************)
(* The run gate of one agent instance (execution/handle.rs, `RunGate`):    *)
(* the lifecycle and the run slot behind one mutex.  Each operator below   *)
(* is one critical section of that mutex, with the wake-up it issues.      *)
(* The module has no behaviour of its own: RunAdmission and AgentLoop      *)
(* build their actions from it.                                            *)
(***************************************************************************)

CONSTANTS
    Runs,      \* the run ids a host may be given by `reserve`, each used once
    NoRun      \* the id of no host run: internal runs mint ids of their own

ASSUME NoRunAssumption == NoRun \notin Runs

VARIABLES
    lifecycle, \* GateState.lifecycle
    slot,      \* GateState.slot: who holds the right to run
    deferred,  \* GateState.deferred: an internal start waits for the slot
    permit     \* the permit stored in the `released` Notify (notify_one)

gateVars == <<lifecycle, slot, deferred, permit>>

Lifecycles == {"Active", "Closing", "Closed"}

Free        == [kind |-> "Free", run |-> NoRun]
Maintenance == [kind |-> "Maintenance", run |-> NoRun]
Reserved(r) == [kind |-> "Reserved", run |-> r]
Running(r)  == [kind |-> "Active", run |-> r]

Slots == {Free, Maintenance} \cup {Reserved(r) : r \in Runs}
                             \cup {Running(r) : r \in Runs \cup {NoRun}}

GateTypeOK ==
    /\ lifecycle \in Lifecycles
    /\ slot \in Slots
    /\ deferred \in BOOLEAN
    /\ permit \in BOOLEAN

GateInit ==
    /\ lifecycle = "Active"
    /\ slot = Free
    /\ deferred = FALSE
    /\ permit = FALSE

(* Operators named Mutant... are wrong on purpose: each is what its        *)
(* neighbour would be after a plausible slip, and breaks one property.     *)

(* The two conditions every entry into the slot tests under the lock.      *)
Vacant == lifecycle = "Active" /\ slot = Free
IsReserved == \E r \in Runs : slot = Reserved(r)
MutantActivateLate(r) == slot = Reserved(r)
CanActivate(r) == lifecycle = "Active" /\ slot = Reserved(r)

GateReserve(r) ==
    /\ Vacant
    /\ slot' = Reserved(r)
    /\ UNCHANGED <<lifecycle, deferred, permit>>

MutantReleaseAny(r) ==
    /\ slot' = Free /\ permit' = TRUE
    /\ UNCHANGED <<lifecycle, deferred>>

MutantReleaseUnheard(r) ==
    /\ slot' = IF slot = Reserved(r) THEN Free ELSE slot
    /\ UNCHANGED <<lifecycle, deferred, permit>>

(* Dropping a reservation frees the slot only while it is still that       *)
(* reservation's.                                                          *)
GateRelease(r) ==
    /\ IF slot = Reserved(r)
       THEN slot' = Free /\ permit' = TRUE
       ELSE UNCHANGED <<slot, permit>>
    /\ UNCHANGED <<lifecycle, deferred>>

GateActivate(r) ==
    /\ CanActivate(r)
    /\ slot' = Running(r)
    /\ deferred' = FALSE
    /\ UNCHANGED <<lifecycle, permit>>

GateStartInternal ==
    /\ Vacant
    /\ slot' = Running(NoRun)
    /\ deferred' = FALSE
    /\ UNCHANGED <<lifecycle, permit>>

GateRefuseInternal ==
    /\ ~Vacant
    /\ deferred' = TRUE
    /\ UNCHANGED <<lifecycle, slot, permit>>

GateClearDeferred ==
    /\ deferred' = FALSE
    /\ UNCHANGED <<lifecycle, slot, permit>>

GateBeginMaintenance ==
    /\ Vacant
    /\ slot' = Maintenance
    /\ UNCHANGED <<lifecycle, deferred, permit>>

GateCloseIdle ==
    /\ Vacant /\ ~deferred
    /\ lifecycle' = "Closing"
    /\ permit' = TRUE
    /\ UNCHANGED <<slot, deferred>>

MutantFinishRunOnly ==
    /\ slot' = IF slot.kind = "Active" THEN Free ELSE slot
    /\ UNCHANGED <<lifecycle, deferred, permit>>

(* `set_current_run(None)` and the end of a compaction.                    *)
GateFinish ==
    /\ slot' = IF slot.kind \in {"Active", "Maintenance"} THEN Free ELSE slot
    /\ UNCHANGED <<lifecycle, deferred, permit>>

(* `set_current_run(Some(..))` gives a running slot the id of the next run *)
(* of the same sequence; the code asserts that the slot is active.         *)
GateRelabel ==
    /\ slot' = Running(NoRun)
    /\ UNCHANGED <<lifecycle, deferred, permit>>

(* The lifecycle only moves forward; any move wakes the loop.              *)
GateSetLifecycle(l) ==
    /\ IF lifecycle = "Closed" \/ (lifecycle = "Closing" /\ l = "Active")
       THEN UNCHANGED <<lifecycle, permit>>
       ELSE /\ lifecycle' = l
            /\ permit' = (permit \/ l # "Active")
    /\ UNCHANGED <<slot, deferred>>
=============================================================================
