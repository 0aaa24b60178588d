---------------------------- MODULE RunAdmission ----------------------------
(***************************************************************************)
(* Who may run, and until when: hosts that reserve a run, persist its      *)
(* records and commit it; the instance loop that activates committed runs, *)
(* starts runs of its own and compacts; and the three ways an instance is  *)
(* closed.  Everything here is about the right to run.  What a run does,   *)
(* and which task notifications cause one, is in AgentLoop, which refines  *)
(* these actions.                                                          *)
(*                                                                         *)
(* A CommitRun command is in the command channel exactly while its         *)
(* reservation is "sent" or "abandoned"; the order of commands in the      *)
(* channel is left open.                                                   *)
(***************************************************************************)
EXTENDS RunGate

(* Run ids are UUIDs; Admission names the other holders of the permit.     *)
ASSUME RunsAreIds == Runs \cap {"internal", "maintenance", "nobody"} = {}

VARIABLES
    res,       \* res[r]: the state of the RunReservation object of run r
    chanOpen,  \* the loop still receives from the command channel
    closeCmd,  \* a Close command is in the channel
    pc,        \* where the loop is
    start,     \* `deferred_start`: an internal start put off, or NoStart
    cause      \* the RunStart being started or run, or NoStart

NoStart        == "NoStart"
InternalStarts == {"UserMessage", "PendingTaskNotification"}
Causes == InternalStarts \cup {"UserInput", "PersistedTaskNotification", NoStart}

ResStates ==
    {"unused",     \* not reserved yet
     "armed",      \* reserved; the host is persisting the run's records
     "sent",       \* commit has sent CommitRun and awaits the answer
     "abandoned",  \* commit was dropped while its command was in the channel
     "accepted",   \* answered Ok
     "refused",    \* answered Err, or the channel was closed: about to drop
     "done"}

Pcs == {"top", "check", "select", "starting", "run", "maint",
        "closing", "drain", "await", "parked", "settle", "closed"}

hostVars == <<res, chanOpen, closeCmd>>
loopVars == <<pc, start, cause>>
admissionVars == <<gateVars, hostVars, loopVars>>

AdmissionTypeOK ==
    /\ GateTypeOK
    /\ res \in [Runs -> ResStates]
    /\ chanOpen \in BOOLEAN
    /\ closeCmd \in BOOLEAN
    /\ pc \in Pcs
    /\ start \in InternalStarts \cup {NoStart}
    /\ cause \in Causes

AdmissionInit ==
    /\ GateInit
    /\ res = [r \in Runs |-> "unused"]
    /\ chanOpen = TRUE
    /\ closeCmd = FALSE
    /\ pc = "top"
    /\ start = NoStart
    /\ cause = NoStart

-----------------------------------------------------------------------------
(* Hosts.                                                                  *)

Reserve(r) ==
    /\ res[r] = "unused"
    /\ GateReserve(r)
    /\ res' = [res EXCEPT ![r] = "armed"]
    /\ UNCHANGED <<chanOpen, closeCmd, loopVars>>

(* `commit`: send CommitRun; a closed channel is RuntimeClosed at once.    *)
Commit(r) ==
    /\ res[r] = "armed"
    /\ res' = [res EXCEPT ![r] = IF chanOpen THEN "sent" ELSE "refused"]
    /\ UNCHANGED <<gateVars, chanOpen, closeCmd, loopVars>>

(* The records could not be persisted, or commit returned an error.        *)
Drop(r) ==
    /\ res[r] \in {"armed", "refused"}
    /\ GateRelease(r)
    /\ res' = [res EXCEPT ![r] = "done"]
    /\ UNCHANGED <<chanOpen, closeCmd, loopVars>>

(* The host request is interrupted while commit awaits the answer: the     *)
(* reservation is still armed, so dropping it releases.                    *)
Abandon(r) ==
    /\ res[r] \in {"sent", "accepted"}
    /\ GateRelease(r)
    /\ res' = [res EXCEPT ![r] = IF res[r] = "sent" THEN "abandoned" ELSE "done"]
    /\ UNCHANGED <<chanOpen, closeCmd, loopVars>>

CommitReturns(r) ==
    /\ res[r] = "accepted"
    /\ res' = [res EXCEPT ![r] = "done"]
    /\ UNCHANGED <<gateVars, chanOpen, closeCmd, loopVars>>

(* `request_close` seals the gate first and sends Close afterwards.        *)
RequestClose ==
    /\ lifecycle = "Active"
    /\ GateSetLifecycle("Closing")
    /\ closeCmd' = chanOpen
    /\ UNCHANGED <<res, chanOpen, loopVars>>

(* The gate's half of `begin_idle_close`.                                  *)
CloseIdle ==
    /\ GateCloseIdle
    /\ UNCHANGED <<hostVars, loopVars>>

-----------------------------------------------------------------------------
(* The instance loop.  `run_loop` tests the lifecycle, then the slot, then *)
(* waits; each test is a critical section of its own.                      *)

Answered(r, s) ==
    res' = [res EXCEPT ![r] = IF res[r] = "sent" THEN s ELSE "done"]

InChannel(r) == chanOpen /\ res[r] \in {"sent", "abandoned"}

TopTestLifecycle ==
    /\ pc = "top"
    /\ pc' = IF lifecycle = "Active" THEN "check" ELSE "closing"
    /\ UNCHANGED <<gateVars, hostVars, start, cause>>

MayRetry == pc = "check" /\ slot = Free /\ start # NoStart

TopRetryDeferred ==
    /\ MayRetry
    /\ cause' = start
    /\ start' = NoStart
    /\ pc' = "starting"
    /\ UNCHANGED <<gateVars, hostVars>>

(* A deferred start is thrown away inside a stop boundary (AgentLoop says  *)
(* when that is).                                                          *)
TopDiscardDeferred ==
    /\ MayRetry
    /\ GateClearDeferred
    /\ start' = NoStart
    /\ pc' = "top"
    /\ UNCHANGED <<hostVars, cause>>

TopWait ==
    /\ pc = "check"
    /\ ~(slot = Free /\ start # NoStart)
    /\ pc' = "select"
    /\ UNCHANGED <<gateVars, hostVars, start, cause>>

RecvCommit(r) ==
    /\ pc = "select" /\ InChannel(r)
    /\ CanActivate(r)
    /\ GateActivate(r)
    /\ Answered(r, "accepted")
    /\ start' = NoStart
    /\ cause' = "UserInput"
    /\ pc' = "run"
    /\ UNCHANGED <<chanOpen, closeCmd>>

RecvStaleCommit(r) ==
    /\ pc = "select" /\ InChannel(r)
    /\ ~CanActivate(r)
    /\ Answered(r, "refused")
    /\ pc' = "top"
    /\ UNCHANGED <<gateVars, chanOpen, closeCmd, start, cause>>

(* An approved plan, or a task completion that may wake the instance.      *)
RecvInternal(s) ==
    /\ pc = "select"
    /\ cause' = s
    /\ pc' = "starting"
    /\ UNCHANGED <<gateVars, hostVars, start>>

StartInternal ==
    /\ pc = "starting"
    /\ GateStartInternal
    /\ pc' = "run"
    /\ UNCHANGED <<hostVars, start, cause>>

MutantDeferForgets ==
    /\ pc = "starting"
    /\ GateRefuseInternal
    /\ cause' = NoStart
    /\ pc' = "top"
    /\ UNCHANGED <<start, hostVars>>

DeferInternal ==
    /\ pc = "starting"
    /\ GateRefuseInternal
    /\ start' = cause
    /\ cause' = NoStart
    /\ pc' = "top"
    /\ UNCHANGED hostVars

RecvCompact ==
    /\ pc = "select"
    /\ IF Vacant
       THEN GateBeginMaintenance /\ pc' = "maint"
       ELSE pc' = "top" /\ UNCHANGED gateVars
    /\ UNCHANGED <<hostVars, start, cause>>

(* Commands and completions that leave the right to run alone.             *)
RecvOther ==
    /\ pc = "select"
    /\ pc' = "top"
    /\ UNCHANGED <<gateVars, hostVars, start, cause>>

RecvReleased ==
    /\ pc = "select" /\ permit
    /\ permit' = FALSE
    /\ pc' = "top"
    /\ UNCHANGED <<lifecycle, slot, deferred, hostVars, start, cause>>

RecvClose ==
    /\ pc = "select" /\ closeCmd
    /\ closeCmd' = FALSE
    /\ GateSetLifecycle("Closing")
    /\ pc' = "closing"
    /\ UNCHANGED <<res, chanOpen, start, cause>>

OutputClosed ==
    /\ pc = "select"
    /\ pc' = "closing"
    /\ UNCHANGED <<gateVars, hostVars, start, cause>>

Busy == pc \in {"run", "maint"}

(* Neither a run nor a compaction accepts a commit.                        *)
RejectCommit(r) ==
    /\ Busy /\ InChannel(r)
    /\ Answered(r, "refused")
    /\ UNCHANGED <<gateVars, chanOpen, closeCmd, loopVars>>

BusyClose ==
    /\ Busy /\ closeCmd
    /\ closeCmd' = FALSE
    /\ GateSetLifecycle("Closing")
    /\ UNCHANGED <<res, chanOpen, loopVars>>

(* A record of the run could not be written: the instance closes itself.   *)
RunFails ==
    /\ pc = "run" /\ lifecycle = "Active"
    /\ GateSetLifecycle("Closing")
    /\ UNCHANGED <<hostVars, loopVars>>

MutantFollowUpPutOff(s) ==
    /\ pc = "run"
    /\ GateRelabel
    /\ cause' = s /\ start' = s
    /\ UNCHANGED <<hostVars, pc>>

(* The lifecycle is tested before `set_current_run`, not with it: the      *)
(* follow-up may still be labelled just after a close was requested.       *)
FollowUpRun(s) ==
    /\ pc = "run"
    /\ GateRelabel
    /\ cause' = s
    /\ UNCHANGED <<hostVars, pc, start>>

Finished ==
    /\ Busy
    /\ GateFinish
    /\ cause' = NoStart
    /\ pc' = "top"
    /\ UNCHANGED <<hostVars, start>>

(* `shutdown`, up to the wait for open reservations.                       *)
ShutdownBegins ==
    /\ pc = "closing"
    /\ GateSetLifecycle("Closing")
    /\ pc' = "drain"
    /\ UNCHANGED <<hostVars, start, cause>>

(* The receiver is closed and what it holds is dropped, unanswered.        *)
CloseChannel ==
    /\ pc = "drain"
    /\ chanOpen' = FALSE
    /\ closeCmd' = FALSE
    /\ res' = [r \in Runs |-> CASE res[r] = "sent" -> "refused"
                                [] res[r] = "abandoned" -> "done"
                                [] OTHER -> res[r]]
    /\ pc' = "await"
    /\ UNCHANGED <<gateVars, start, cause>>

MutantAwaitNobody ==
    /\ pc = "await"
    /\ pc' = "settle"
    /\ UNCHANGED <<gateVars, hostVars, start, cause>>

(* `wait_unreserved`: look, and sleep on `released` while reserved.        *)
AwaitUnreserved ==
    /\ pc = "await"
    /\ pc' = IF IsReserved THEN "parked" ELSE "settle"
    /\ UNCHANGED <<gateVars, hostVars, start, cause>>

WokenByRelease ==
    /\ pc = "parked" /\ permit
    /\ permit' = FALSE
    /\ pc' = "await"
    /\ UNCHANGED <<lifecycle, slot, deferred, hostVars, start, cause>>

(* The end of `run_loop`, after the tasks have been settled.               *)
AnnounceClosed ==
    /\ pc = "settle"
    /\ GateSetLifecycle("Closed")
    /\ pc' = "closed"
    /\ UNCHANGED <<hostVars, start, cause>>

-----------------------------------------------------------------------------
HostStep(r) ==
    Reserve(r) \/ Commit(r) \/ Drop(r) \/ Abandon(r) \/ CommitReturns(r)

TopStep == TopTestLifecycle \/ TopRetryDeferred \/ TopDiscardDeferred \/ TopWait

SelectStep ==
    \/ \E r \in Runs : RecvCommit(r) \/ RecvStaleCommit(r)
    \/ \E s \in InternalStarts : RecvInternal(s)
    \/ RecvCompact \/ RecvOther \/ RecvReleased \/ RecvClose \/ OutputClosed

StartStep == StartInternal \/ DeferInternal

BusyStep ==
    \/ \E r \in Runs : RejectCommit(r)
    \/ \E s \in {"PersistedTaskNotification", "PendingTaskNotification"} : FollowUpRun(s)
    \/ BusyClose \/ RunFails \/ Finished

ShutdownStep ==
    \/ ShutdownBegins \/ CloseChannel \/ AwaitUnreserved \/ WokenByRelease
    \/ AnnounceClosed

AdmissionNext ==
    \/ \E r \in Runs : HostStep(r)
    \/ RequestClose \/ CloseIdle
    \/ TopStep \/ SelectStep \/ StartStep \/ BusyStep \/ ShutdownStep

(***************************************************************************)
(* Fairness.  The loop is one task that never waits without a waker.  The  *)
(* arms of its select! are polled in random order, so an arm that is ready *)
(* time and again is taken (strong fairness).  A run or a compaction may   *)
(* last for ever, except once closing has begun: both then leave through   *)
(* `wait_close_requested`.  A host gives a reservation up or commits it,   *)
(* as the documentation of `close` demands.                                *)
(***************************************************************************)
ClosingEndsWork == lifecycle # "Active" /\ Finished

AdmissionFairness ==
    /\ WF_admissionVars(TopStep)
    /\ WF_admissionVars(StartStep)
    /\ WF_admissionVars(ShutdownStep)
    /\ WF_admissionVars(ClosingEndsWork)
    /\ SF_admissionVars(RecvReleased)
    /\ SF_admissionVars(RecvClose)
    /\ \A r \in Runs :
        /\ SF_admissionVars(RecvCommit(r) \/ RecvStaleCommit(r))
        /\ WF_admissionVars(Commit(r) \/ Drop(r))

AdmissionSafety == AdmissionInit /\ [][AdmissionNext]_admissionVars
AdmissionSpec == AdmissionSafety /\ AdmissionFairness

-----------------------------------------------------------------------------
(***************************************************************************)
(* Safety.                                                                 *)
(***************************************************************************)

(* A slot is reserved exactly while one live reservation object stands for *)
(* it: `Drop` leaks no reservation and none is freed under its host, also  *)
(* when commit is abandoned half-way (RunReservation, handle.rs:325-370).  *)
ReservationOwnsSlot ==
    \A r \in Runs : slot = Reserved(r) <=> res[r] \in {"armed", "sent", "refused"}

(* The slot says "running" exactly while the loop runs, and "maintenance"  *)
(* exactly while it compacts, so the assertion in `set_current_run`        *)
(* (handle.rs:243) cannot fail, whoever drops or closes meanwhile.         *)
SlotMatchesWork ==
    /\ slot.kind = "Active" <=> pc = "run"
    /\ slot.kind = "Maintenance" <=> pc = "maint"

(* From the last look at the reservations to the end, nobody holds or can  *)
(* obtain the right to run, and no commit is left unanswered               *)
(* (shutdown, run_loop.rs:267-294).                                        *)
ClosedIsVacant ==
    pc \in {"settle", "closed"} =>
        /\ slot = Free
        /\ lifecycle # "Active"
        /\ \A r \in Runs : res[r] \in {"unused", "accepted", "done"}

(***************************************************************************)
(* Liveness.                                                               *)
(***************************************************************************)

(* Closing always ends, although hosts may still hold reservations and a   *)
(* run may be under way when it begins.                                    *)
ClosingCompletes == lifecycle = "Closing" ~> lifecycle = "Closed"

(* An internal start that met a reserved slot is retried, dropped or       *)
(* superseded: the release of the reservation wakes the loop.  (A          *)
(* compaction that takes the slot first may go on for ever.)               *)
DeferredIsSettled ==
    deferred ~> (~deferred \/ lifecycle # "Active" \/ pc = "maint")

(***************************************************************************)
(* The gate implements the closable permit of Admission.                   *)
(***************************************************************************)
Holding(s) ==
    CASE s.kind = "Free" -> "nobody"
      [] s.kind = "Maintenance" -> "maintenance"
      [] s.run # NoRun -> s.run
      [] OTHER -> "internal"

Adm == INSTANCE Admission WITH
    Holders  <- Runs \cup {"internal", "maintenance"},
    Internal <- "internal",
    Nobody   <- "nobody",
    phase    <- lifecycle,
    holder   <- Holding(slot),
    working  <- slot.kind \in {"Active", "Maintenance"}

ImplementsAdmission == Adm!Spec
=============================================================================
