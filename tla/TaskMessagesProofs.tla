------------------------- MODULE TaskMessagesProofs -------------------------
(***************************************************************************)
(* Proofs about TaskMessages, for any calls, client inputs and keys and    *)
(* any number of faults.  The invariant has four parts beside the types:   *)
(* the rows of the deliveries and who made them (RowInv), the end of the   *)
(* child (EndInv), what it leaves in the store (StoreInv), and what was    *)
(* delivered when it completed (DeliveredInv).                             *)
(***************************************************************************)
EXTENDS TaskMessages, SequenceTheorems, TLAPS

AtWork == {"starting", "working", "draining", "ended", "ended in error", "panicked"}
Ending == {"leaving", "finishing", "settled"}
Ended  == {"stored", "finished", "published", "gone"}

(* A row is made once, before its key can enter the inbox.                  *)
RowInv ==
    /\ InjectedOnce
    /\ \A k \in Sends :
          /\ call[k] \in {"new", "checked"} => rows[k].status = "none"
          /\ call[k] = "stored" => rows[k].status # "none"
    /\ \A r \in Requests : request[r].at = "stored" => rows[EchoOf[r]].status # "none"
    /\ \A k \in pushed : rows[k].status # "none"

(* The child ends in this order: no new messages, the verdict, the store,   *)
(* the memory.                                                              *)
EndInv ==
    /\ child.at \in AtWork \cup Ending => Up /\ stored.agent \notin Terminal
    /\ child.at \in Ending \cup Ended => ~task.accepting /\ child.verdict \in Terminal
    /\ child.at \in {"finished", "published"} => task.status \in Terminal
    /\ child.at \in Ended /\ life # "down" => stored.agent \in Terminal \/ TheTask \in lost

StoreInv ==
    /\ stored.agent \in Terminal <=> stored.run \in Terminal
    /\ life \in {"tasks", "deliveries"} => stored.agent \in Terminal
    /\ life = "deliveries" => Pending = {}
    /\ notices = IF stored.delivered THEN 1 ELSE 0

DeliveredInv ==
    /\ CompletedMeansDelivered
    /\ child.at \in {"settled"} \cup Ended /\ child.verdict = "Completed"
          => \A k \in pushed : rows[k].status = "Injected"

TaskInv == TaskTypeOK /\ RowInv /\ EndInv /\ StoreInv /\ DeliveredInv /\ NothingIsStranded

-----------------------------------------------------------------------------
(* What an action may do to the deliveries.                                 *)
RowMoves ==
    \/ UNCHANGED <<rows, history>>
    \/ \E S \in SUBSET Keys : Fail(S) /\ UNCHANGED history
    \/ \E k \in Keys : Inject(k)
    \/ \E k \in Sends : /\ SendStores(k) /\ call[k] = "checked"
                        /\ Register(k, AsObject(k)) /\ UNCHANGED history
    \/ \E r \in Requests : /\ RequestStores(r) /\ rows[EchoOf[r]].status = "none"
                           /\ Register(EchoOf[r], AsObject(TextOf[r])) /\ UNCHANGED history

LEMMA HeadIsKey ==
    ASSUME TaskTypeOK, child.at = "draining"
    PROVE  Head(child.hand) \in Keys /\ Tail(child.hand) \in Seq(Keys)
BY HeadTailProperties DEF TaskTypeOK, ChildTyped

LEMMA RowStep ==
    ASSUME TaskTypeOK, [Next]_vars
    PROVE  RowMoves
<1> USE DEF RowMoves, storeVars, Keys
<1>0. EchoOf \in [Requests -> EchoIds]
  BY TaskAssumption
<1>1. CASE UNCHANGED vars
  BY <1>1 DEF vars
<1>2. ASSUME NEW k \in Sends, Sending(k)
      PROVE  RowMoves
  <2>1. CASE SendStores(k)
    BY <2>1 DEF SendStores, CallGoes
  <2>2. CASE SendFails(k)
    BY <2>2 DEF SendFails
  <2>3. QED
    BY <1>2, <2>1, <2>2 DEF Sending, SendChecks, SendPushes, SendIsDropped
<1>3. ASSUME NEW r \in Requests, Requesting(r)
      PROVE  RowMoves
  <2>1. CASE RequestStores(r)
    BY <2>1, <1>0 DEF RequestStores, Enqueued
  <2>2. CASE RequestSettles(r)
    BY <2>2 DEF RequestSettles
  <2>3. CASE RequestFails(r)
    BY <2>3, <1>0 DEF RequestFails
  <2>4. QED
    BY <1>3, <2>1, <2>2, <2>3 DEF Requesting, RequestLooks, RequestReplays, RequestPushes,
       RequestIsRefused, RequestIsDropped
<1>4. CASE Child
  <2>1. CASE InjectNext
    BY <2>1, HeadIsKey DEF InjectNext
  <2>2. CASE Settle
    BY <2>2 DEF Settle
  <2>3. QED
    BY <1>4, <2>1, <2>2 DEF Child, Take, InjectBreaks, QueryEnds, ContinueForMessage, StopAccepting,
       Conclude, ConcludeCancelled, ChildPanics, FinishPanicked, SettleBreaks, StoreFinal,
       StoreFinalBreaks, FinishInMemory, UpsertFinal, NotifyCompleted
<1>5. CASE Deliver \/ Canceller
  BY <1>5 DEF Deliver, Canceller, CancelMarks, CancelCopies, CancelUpserts, CancelStores
<1>6. CASE Server
  BY <1>6 DEF Server, Crash, RecoverTasks, RecoverDeliveries, Load, Rebuild
<1>7. QED
  BY <1>1, <1>2, <1>3, <1>4, <1>5, <1>6 DEF Next

(* A row changes its status only from none to pending and from pending to   *)
(* one of the two final ones.                                               *)
RowsAdvance ==
    \A k \in Keys :
        \/ rows'[k] = rows[k]
        \/ rows[k].status = "none" /\ rows'[k].status = "Pending"
        \/ rows[k].status = "Pending" /\ rows'[k].status \in {"Failed", "Injected"}

LEMMA RowsOnlyAdvance ==
    ASSUME TaskTypeOK, RowInv, [Next]_vars
    PROVE  RowsAdvance /\ InjectedOnce'
<1> USE DEF RowsAdvance, InjectedOnce, RowInv
<1>0. /\ rows \in [Keys -> [status : {"none", "Pending", "Injected", "Failed"},
                            payload : {NoPayload} \cup {AsObject(t) : t \in Sends \cup {TextOf[r] : r \in Requests}}]]
      /\ history \in [Keys -> Nat]
  BY DEF TaskTypeOK, RowsTyped
<1>1. CASE UNCHANGED <<rows, history>>
  BY <1>1
<1>2. ASSUME NEW S \in SUBSET Keys, Fail(S), UNCHANGED history
      PROVE  RowsAdvance /\ InjectedOnce'
  BY <1>0, <1>2 DEF Fail
<1>3. ASSUME NEW k \in Keys, Inject(k)
      PROVE  RowsAdvance /\ InjectedOnce'
  BY <1>0, <1>3 DEF Inject
<1>4. ASSUME NEW k \in Keys, NEW p, rows[k].status = "none", Register(k, p), UNCHANGED history
      PROVE  RowsAdvance /\ InjectedOnce'
  BY <1>0, <1>4 DEF Register
<1>5. \A r \in Requests : EchoOf[r] \in Keys
  BY TaskAssumption DEF Keys
<1>6. QED
  BY RowStep, <1>1, <1>2, <1>3, <1>4, <1>5 DEF RowMoves, Keys

-----------------------------------------------------------------------------
(* Types: one lemma for each group of variables.                            *)
LEMMA TaskTypedStep ==
    ASSUME TaskTypeOK, [Next]_vars
    PROVE  TaskTyped'
<1> USE DEF TaskTyped, taskVars, Statuses, Terminal
<1>0. /\ TaskTyped
      /\ child.verdict \in Terminal \cup {"Running"} /\ stored.agent \in Statuses
  BY DEF TaskTypeOK, ChildTyped, StoredTyped
<1>1. CASE UNCHANGED vars
  BY <1>0, <1>1 DEF vars
<1>2. ASSUME NEW k \in Sends, Sending(k)
      PROVE  TaskTyped'
  BY <1>0, <1>2 DEF Sending, SendChecks, SendStores, SendPushes, SendFails, SendIsDropped
<1>3. ASSUME NEW r \in Requests, Requesting(r)
      PROVE  TaskTyped'
  BY <1>0, <1>3 DEF Requesting, RequestLooks, RequestReplays, RequestStores, RequestPushes,
     RequestIsRefused, RequestSettles, RequestFails, RequestIsDropped
<1>4. CASE StopAccepting \/ FinishPanicked
  BY <1>0, <1>4 DEF StopAccepting, FinishPanicked
<1>5. CASE FinishInMemory
  BY <1>0, <1>5 DEF FinishInMemory
<1>6. CASE Child /\ ~(StopAccepting \/ FinishPanicked \/ FinishInMemory)
  BY <1>0, <1>6 DEF Child, Take, InjectNext, InjectBreaks, QueryEnds, ContinueForMessage,
     Conclude, ConcludeCancelled, ChildPanics, Settle, SettleBreaks, StoreFinal,
     StoreFinalBreaks, UpsertFinal, NotifyCompleted
<1>7. CASE CancelMarks
  BY <1>0, <1>7 DEF CancelMarks
<1>8. CASE Deliver \/ (Canceller /\ ~CancelMarks)
  BY <1>0, <1>8 DEF Deliver, Canceller, CancelCopies, CancelUpserts, CancelStores
<1>9. CASE Crash
  BY <1>0, <1>9 DEF Crash
<1>10. CASE RecoverTasks \/ RecoverDeliveries
  BY <1>0, <1>10 DEF RecoverTasks, RecoverDeliveries
<1>11. CASE Load \/ Rebuild
  <2>1. task' = [status |-> stored.agent, accepting |-> FALSE, cancelled |-> FALSE]
    BY <1>11 DEF Load, Rebuild, Restore
  <2>2. life' \in {"up", "down", "tasks", "deliveries"}
    BY <1>0, <1>11 DEF Load, Rebuild
  <2>3. QED
    BY <1>0, <2>1, <2>2
<1>12. QED
  BY <1>1, <1>2, <1>3, <1>4, <1>5, <1>6, <1>7, <1>8, <1>9, <1>10, <1>11 DEF Next, Server

LEMMA ChildTypedStep ==
    ASSUME TaskTypeOK, [Next]_vars
    PROVE  ChildTyped'
<1> USE DEF ChildTyped, taskVars, Terminal
<1>0. ChildTyped /\ inbox \in Seq(Keys) /\ <<>> \in Seq(Keys)
  BY EmptySeq DEF TaskTypeOK, MessagesTyped
<1>1. CASE UNCHANGED vars
  BY <1>0, <1>1 DEF vars
<1>2. ASSUME NEW k \in Sends, Sending(k)
      PROVE  ChildTyped'
  BY <1>0, <1>2 DEF Sending, SendChecks, SendStores, SendPushes, SendFails, SendIsDropped
<1>3. ASSUME NEW r \in Requests, Requesting(r)
      PROVE  ChildTyped'
  BY <1>0, <1>3 DEF Requesting, RequestLooks, RequestReplays, RequestStores, RequestPushes,
     RequestIsRefused, RequestSettles, RequestFails, RequestIsDropped
<1>4. CASE Take
  BY <1>0, <1>4 DEF Take
<1>5. CASE InjectNext \/ InjectBreaks
  <2>1. child.at = "draining" /\ NextInHand
    BY <1>5 DEF InjectNext, InjectBreaks
  <2>2. /\ Tail(child.hand) \in Seq(Keys)
        /\ Len(child.hand) # 1 => Tail(child.hand) # <<>>
    <3>1. child.hand \in Seq(Keys) /\ child.hand # <<>>
      BY <1>0, <2>1
    <3>2. Tail(child.hand) \in Seq(Keys) /\ Len(Tail(child.hand)) = Len(child.hand) - 1
      BY <3>1, HeadTailProperties
    <3>3. Len(child.hand) \in Nat /\ Len(<<>>) = 0
      BY <3>1, <1>0, LenProperties, EmptySeq
    <3>4. ASSUME Tail(child.hand) = <<>>
          PROVE  Len(child.hand) = 1
      <4>1. Len(Tail(child.hand)) = 0
        BY <3>3, <3>4, Zenon
      <4>2. QED
        BY <3>2, <3>3, <4>1
    <3>5. QED
      BY <3>2, <3>4
  <2>3. QED
    BY <1>0, <2>1, <2>2 DEF NextInHand
<1>6. CASE QueryEnds \/ ContinueForMessage \/ StopAccepting \/ Conclude \/ ConcludeCancelled
  BY <1>0, <1>6 DEF QueryEnds, ContinueForMessage, StopAccepting, Conclude, ConcludeCancelled, ChildGoes
<1>7. CASE ChildPanics \/ FinishPanicked
  BY <1>0, <1>7 DEF ChildPanics, FinishPanicked
<1>8. CASE Settle \/ SettleBreaks
  BY <1>0, <1>8 DEF Settle, SettleBreaks, Undelivered
<1>9. CASE StoreFinal \/ StoreFinalBreaks \/ FinishInMemory \/ UpsertFinal \/ NotifyCompleted
  BY <1>0, <1>9 DEF StoreFinal, StoreFinalBreaks, FinishInMemory, UpsertFinal, NotifyCompleted, ChildGoes
<1>10. CASE Deliver \/ Canceller
  BY <1>0, <1>10 DEF Deliver, Canceller, CancelMarks, CancelCopies, CancelUpserts, CancelStores
<1>11. CASE Crash
  BY <1>0, <1>11 DEF Crash
<1>12. CASE Server /\ ~Crash
  BY <1>0, <1>12 DEF Server, RecoverTasks, RecoverDeliveries, Load, Rebuild
<1>13. QED
  BY <1>1, <1>2, <1>3, <1>4, <1>5, <1>6, <1>7, <1>8, <1>9, <1>10, <1>11, <1>12 DEF Next, Child

LEMMA RowsTypedStep ==
    ASSUME TaskTypeOK, [Next]_vars
    PROVE  RowsTyped'
<1> USE DEF RowsTyped
<1>0. RowsTyped /\ \A r \in Requests : EchoOf[r] \in Keys
  BY TaskAssumption DEF TaskTypeOK, Keys
<1>1. CASE UNCHANGED <<rows, history>>
  BY <1>0, <1>1
<1>2. ASSUME NEW S \in SUBSET Keys, Fail(S), UNCHANGED history
      PROVE  RowsTyped'
  BY <1>0, <1>2 DEF Fail
<1>3. ASSUME NEW k \in Keys, Inject(k)
      PROVE  RowsTyped'
  BY <1>0, <1>3 DEF Inject
<1>4. ASSUME NEW k \in Sends, Register(k, AsObject(k)), UNCHANGED history
      PROVE  RowsTyped'
  BY <1>0, <1>4 DEF Register, Keys
<1>5. ASSUME NEW r \in Requests, Register(EchoOf[r], AsObject(TextOf[r])), UNCHANGED history
      PROVE  RowsTyped'
  BY <1>0, <1>5 DEF Register
<1>6. QED
  BY RowStep, <1>1, <1>2, <1>3, <1>4, <1>5 DEF RowMoves

LEMMA StoredTypedStep ==
    ASSUME TaskTypeOK, [Next]_vars
    PROVE  StoredTyped'
<1> USE DEF StoredTyped, storeVars
<1>0. /\ StoredTyped
      /\ task.status \in Statuses /\ canceller.copy \in Statuses
      /\ child.verdict \in Terminal \cup {"Running"} /\ child.undelivered \in SUBSET Keys
  BY DEF TaskTypeOK, TaskTyped, ChildTyped, CallersTyped
<1>1. CASE UNCHANGED vars
  BY <1>0, <1>1 DEF vars
<1>2. ASSUME NEW k \in Sends, Sending(k)
      PROVE  StoredTyped'
  BY <1>0, <1>2 DEF Sending, SendChecks, SendStores, SendPushes, SendFails, SendIsDropped
<1>3. ASSUME NEW r \in Requests, Requesting(r)
      PROVE  StoredTyped'
  BY <1>0, <1>3 DEF Requesting, RequestLooks, RequestReplays, RequestStores, RequestPushes,
     RequestIsRefused, RequestSettles, RequestFails, RequestIsDropped
<1>4. CASE StoreFinal
  BY <1>0, <1>4 DEF StoreFinal, Statuses
<1>5. CASE UpsertFinal
  BY <1>0, <1>5 DEF UpsertFinal, Upsert
<1>6. CASE Child /\ ~(StoreFinal \/ UpsertFinal)
  BY <1>0, <1>6 DEF Child, Take, InjectNext, InjectBreaks, QueryEnds, ContinueForMessage, StopAccepting,
     Conclude, ConcludeCancelled, ChildPanics, FinishPanicked, Settle, SettleBreaks,
     StoreFinalBreaks, FinishInMemory, NotifyCompleted
<1>7. CASE Deliver
  BY <1>0, <1>7 DEF Deliver
<1>8. CASE CancelUpserts
  BY <1>0, <1>8 DEF CancelUpserts, Upsert
<1>9. CASE CancelStores
  BY <1>0, <1>9 DEF CancelStores, Cancelling, Statuses
<1>10. CASE CancelMarks \/ CancelCopies
  BY <1>0, <1>10 DEF CancelMarks, CancelCopies
<1>11. CASE RecoverTasks
  BY <1>0, <1>11 DEF RecoverTasks, Interrupted, Statuses, Terminal
<1>12. CASE RecoverDeliveries
  BY <1>0, <1>12 DEF RecoverDeliveries, Undelivered
<1>13. CASE Crash \/ Load \/ Rebuild
  BY <1>0, <1>13 DEF Crash, Load, Rebuild
<1>14. QED
  BY <1>1, <1>2, <1>3, <1>4, <1>5, <1>6, <1>7, <1>8, <1>9, <1>10, <1>11, <1>12, <1>13
  DEF Next, Canceller, Server

LEMMA CallersTypedStep ==
    ASSUME TaskTypeOK, [Next]_vars
    PROVE  CallersTyped'
<1> USE DEF CallersTyped, callerVars
<1>0. CallersTyped /\ task.status \in Statuses
  BY DEF TaskTypeOK, TaskTyped
<1>1. CASE UNCHANGED vars
  BY <1>0, <1>1 DEF vars
<1>2. ASSUME NEW k \in Sends, Sending(k)
      PROVE  CallersTyped'
  BY <1>0, <1>2 DEF Sending, SendChecks, SendStores, SendPushes, SendFails, SendIsDropped, CallGoes
<1>3. ASSUME NEW r \in Requests, RequestLooks(r)
      PROVE  CallersTyped'
  BY <1>0, <1>3 DEF RequestLooks
<1>4. ASSUME NEW r \in Requests, RequestReplays(r)
      PROVE  CallersTyped'
  <2>1. Replayed(r) \in {"ended", "admitted", "conflict", "undelivered", "accepted"}
    BY DEF Replayed
  <2>2. QED
    BY <1>0, <1>4, <2>1 DEF RequestReplays, RequestGoes
<1>5. ASSUME NEW r \in Requests, RequestStores(r)
      PROVE  CallersTyped'
  <2>1. Enqueued(r) \in {"stored", "conflict", "accepted"}
    BY DEF Enqueued
  <2>2. QED
    BY <1>0, <1>5, <2>1 DEF RequestStores, RequestGoes
<1>6. ASSUME NEW r \in Requests, Requesting(r), ~(RequestLooks(r) \/ RequestReplays(r) \/ RequestStores(r))
      PROVE  CallersTyped'
  BY <1>0, <1>6 DEF Requesting, RequestPushes, RequestIsRefused, RequestSettles, RequestFails,
     RequestIsDropped, RequestGoes
<1>7. CASE Child
  BY <1>0, <1>7 DEF Child, Take, InjectNext, InjectBreaks, QueryEnds, ContinueForMessage, StopAccepting,
     Conclude, ConcludeCancelled, ChildPanics, FinishPanicked, Settle, SettleBreaks, StoreFinal,
     StoreFinalBreaks, FinishInMemory, UpsertFinal, NotifyCompleted
<1>8. CASE Canceller
  BY <1>0, <1>8 DEF Canceller, CancelMarks, CancelCopies, CancelUpserts, CancelStores, CancellerGoes
<1>9. CASE Crash
  BY <1>0, <1>9 DEF Crash
<1>10. CASE Rebuild
  BY <1>0, <1>10 DEF Rebuild
<1>11. CASE Deliver \/ RecoverTasks \/ RecoverDeliveries \/ Load
  BY <1>0, <1>11 DEF Deliver, RecoverTasks, RecoverDeliveries, Load
<1>12. QED
  BY <1>1, <1>2, <1>3, <1>4, <1>5, <1>6, <1>7, <1>8, <1>9, <1>10, <1>11 DEF Next, Server

LEMMA MessagesTypedStep ==
    ASSUME TaskTypeOK, [Next]_vars
    PROVE  MessagesTyped'
<1> USE DEF MessagesTyped, taskVars, noticeVars, historyVars, Goes, Pending
<1>0. /\ MessagesTyped /\ <<>> \in Seq(Keys) /\ MaxFaults \in Nat
      /\ Sends \subseteq Keys /\ \A r \in Requests : EchoOf[r] \in Keys
  BY EmptySeq, TaskAssumption DEF TaskTypeOK, Keys
<1>1. CASE UNCHANGED vars
  BY <1>0, <1>1 DEF vars
<1>2. ASSUME NEW k \in Keys, Push(k)
      PROVE  inbox' \in Seq(Keys) /\ pushed' \subseteq Keys
  BY <1>0, <1>2, AppendProperties DEF Push
<1>3. ASSUME NEW k \in Sends, Sending(k)
      PROVE  MessagesTyped'
  BY <1>0, <1>2, <1>3 DEF Sending, SendChecks, SendStores, SendPushes, SendFails, SendIsDropped
<1>4. ASSUME NEW r \in Requests, Requesting(r)
      PROVE  MessagesTyped'
  BY <1>0, <1>2, <1>4 DEF Requesting, RequestLooks, RequestReplays, RequestStores, RequestPushes,
     RequestIsRefused, RequestSettles, RequestFails, RequestIsDropped
<1>5. CASE Take \/ InjectNext \/ QueryEnds \/ ContinueForMessage \/ StopAccepting \/ Conclude
           \/ ConcludeCancelled \/ FinishPanicked \/ Settle \/ StoreFinal \/ FinishInMemory
  BY <1>0, <1>5 DEF Take, InjectNext, QueryEnds, ContinueForMessage, StopAccepting, Conclude,
     ConcludeCancelled, FinishPanicked, Settle, StoreFinal, FinishInMemory
<1>6. CASE InjectBreaks \/ ChildPanics \/ SettleBreaks
  BY <1>0, <1>6 DEF InjectBreaks, ChildPanics, SettleBreaks
<1>7. CASE StoreFinalBreaks
  BY <1>0, <1>7 DEF StoreFinalBreaks
<1>8. CASE UpsertFinal \/ CancelUpserts
  <2>1. UNCHANGED <<inbox, pushed, lost, notice, notices>>
    BY <1>8 DEF UpsertFinal, CancelUpserts
  <2>2. faults' = faults \/ (faults < MaxFaults /\ faults' = faults + 1)
    BY <1>8 DEF UpsertFinal, CancelUpserts, Upsert
  <2>3. QED
    BY <1>0, <2>1, <2>2
<1>9. CASE NotifyCompleted
  BY <1>0, <1>9 DEF NotifyCompleted
<1>10. CASE Deliver
  <2>1. notices' \in {notices, notices + 1} /\ UNCHANGED <<inbox, historyVars>>
    BY <1>10, Zenon DEF Deliver, taskVars
  <2>2. notice' \in BOOLEAN
    BY <1>10, Zenon DEF Deliver
  <2>3. QED
    BY <1>0, <2>1, <2>2
<1>11. CASE CancelMarks \/ CancelCopies \/ CancelStores
  BY <1>0, <1>11 DEF CancelMarks, CancelCopies, CancelStores
<1>12. CASE Crash
  <2>1. /\ inbox' = <<>> /\ UNCHANGED <<notices, pushed, lost>>
        /\ faults < MaxFaults /\ faults' = faults + 1
    BY <1>12 DEF Crash
  <2>2. notice' \in BOOLEAN
    BY <1>12, Zenon DEF Crash
  <2>3. QED
    BY <1>0, <2>1, <2>2
<1>13. CASE RecoverTasks \/ RecoverDeliveries
  BY <1>0, <1>13 DEF RecoverTasks, RecoverDeliveries
<1>14. CASE Load \/ Rebuild
  BY <1>0, <1>14 DEF Load, Rebuild, Restore
<1>15. QED
  BY <1>1, <1>3, <1>4, <1>5, <1>6, <1>7, <1>8, <1>9, <1>10, <1>11, <1>12, <1>13, <1>14
  DEF Next, Child, Canceller, Server

LEMMA TypeStep ==
    ASSUME TaskTypeOK, [Next]_vars
    PROVE  TaskTypeOK'
BY TaskTypedStep, ChildTypedStep, RowsTypedStep, StoredTypedStep, CallersTypedStep, MessagesTypedStep
DEF TaskTypeOK

-----------------------------------------------------------------------------
(* Who moves what.                                                          *)
LEMMA CallMoves ==
    ASSUME [Next]_vars
    PROVE  UNCHANGED call \/ (\E k \in Sends : Sending(k)) \/ Crash
<1>1. ASSUME NEW r \in Requests, Requesting(r)
      PROVE  UNCHANGED call
  BY <1>1 DEF Requesting, RequestLooks, RequestReplays, RequestStores, RequestPushes,
     RequestIsRefused, RequestSettles, RequestFails, RequestIsDropped
<1>2. CASE Child
  BY <1>2 DEF Child, Take, InjectNext, InjectBreaks, QueryEnds, ContinueForMessage, StopAccepting,
     Conclude, ConcludeCancelled, ChildPanics, FinishPanicked, Settle, SettleBreaks, StoreFinal,
     StoreFinalBreaks, FinishInMemory, UpsertFinal, NotifyCompleted, callerVars
<1>3. CASE Deliver \/ Canceller \/ (Server /\ ~Crash)
  BY <1>3 DEF Deliver, Canceller, CancelMarks, CancelCopies, CancelUpserts, CancelStores,
     Server, RecoverTasks, RecoverDeliveries, Load, Rebuild, callerVars
<1>4. QED
  BY <1>1, <1>2, <1>3 DEF Next, Server, vars

LEMMA RequestMoves ==
    ASSUME [Next]_vars
    PROVE  UNCHANGED request \/ (\E r \in Requests : Requesting(r)) \/ Crash \/ Rebuild
<1>1. ASSUME NEW k \in Sends, Sending(k)
      PROVE  UNCHANGED request
  BY <1>1 DEF Sending, SendChecks, SendStores, SendPushes, SendFails, SendIsDropped
<1>2. CASE Child
  BY <1>2 DEF Child, Take, InjectNext, InjectBreaks, QueryEnds, ContinueForMessage, StopAccepting,
     Conclude, ConcludeCancelled, ChildPanics, FinishPanicked, Settle, SettleBreaks, StoreFinal,
     StoreFinalBreaks, FinishInMemory, UpsertFinal, NotifyCompleted, callerVars
<1>3. CASE Deliver \/ Canceller \/ (Server /\ ~Crash /\ ~Rebuild)
  BY <1>3 DEF Deliver, Canceller, CancelMarks, CancelCopies, CancelUpserts, CancelStores,
     Server, RecoverTasks, RecoverDeliveries, Load, callerVars
<1>4. QED
  BY <1>1, <1>2, <1>3 DEF Next, Server, vars

LEMMA TaskMoves ==
    ASSUME [Next]_vars
    PROVE  \/ UNCHANGED task
           \/ StopAccepting \/ FinishPanicked \/ FinishInMemory \/ CancelMarks
           \/ Crash \/ Load \/ Rebuild
<1>1. ASSUME NEW k \in Sends, Sending(k)
      PROVE  UNCHANGED task
  BY <1>1 DEF Sending, SendChecks, SendStores, SendPushes, SendFails, SendIsDropped, taskVars
<1>2. ASSUME NEW r \in Requests, Requesting(r)
      PROVE  UNCHANGED task
  BY <1>2 DEF Requesting, RequestLooks, RequestReplays, RequestStores, RequestPushes,
     RequestIsRefused, RequestSettles, RequestFails, RequestIsDropped, taskVars
<1>3. CASE Child /\ ~(StopAccepting \/ FinishPanicked \/ FinishInMemory)
  BY <1>3 DEF Child, Take, InjectNext, InjectBreaks, QueryEnds, ContinueForMessage,
     Conclude, ConcludeCancelled, ChildPanics, Settle, SettleBreaks, StoreFinal,
     StoreFinalBreaks, UpsertFinal, NotifyCompleted
<1>4. CASE Deliver \/ (Canceller /\ ~CancelMarks) \/ RecoverTasks \/ RecoverDeliveries
  BY <1>4 DEF Deliver, Canceller, CancelCopies, CancelUpserts, CancelStores,
     RecoverTasks, RecoverDeliveries, taskVars
<1>5. QED
  BY <1>1, <1>2, <1>3, <1>4 DEF Next, Server, vars

LEMMA ChildMoves ==
    ASSUME [Next]_vars
    PROVE  UNCHANGED child \/ Child \/ Crash
<1>1. ASSUME NEW k \in Sends, Sending(k)
      PROVE  UNCHANGED child
  BY <1>1 DEF Sending, SendChecks, SendStores, SendPushes, SendFails, SendIsDropped, taskVars
<1>2. ASSUME NEW r \in Requests, Requesting(r)
      PROVE  UNCHANGED child
  BY <1>2 DEF Requesting, RequestLooks, RequestReplays, RequestStores, RequestPushes,
     RequestIsRefused, RequestSettles, RequestFails, RequestIsDropped, taskVars
<1>3. CASE Deliver \/ Canceller \/ (Server /\ ~Crash)
  BY <1>3 DEF Deliver, Canceller, CancelMarks, CancelCopies, CancelUpserts, CancelStores,
     Server, RecoverTasks, RecoverDeliveries, Load, Rebuild, taskVars
<1>4. QED
  BY <1>1, <1>2, <1>3 DEF Next, Server, vars

-----------------------------------------------------------------------------
(* Who makes a row, and what has one.                                       *)
LEMMA CallsStep ==
    ASSUME TaskTypeOK, [Next]_vars, NEW k \in Sends, ~SendStores(k)
    PROVE  /\ call'[k] \in {"new", "checked"} => call[k] \in {"new", "checked"}
           /\ call'[k] = "stored" => call[k] = "stored"
           /\ rows[k].status = "none" => rows'[k] = rows[k]
<1>0. /\ call \in [Sends -> {"new", "checked", "stored", "sent", "failing", "refused", "dropped"}]
      /\ rows \in [Keys -> [status : {"none", "Pending", "Injected", "Failed"},
            payload : {NoPayload} \cup {AsObject(t) : t \in Sends \cup {TextOf[r] : r \in Requests}}]]
      /\ k \in Keys /\ \A r \in Requests : EchoOf[r] # k
  BY TaskAssumption DEF TaskTypeOK, CallersTyped, RowsTyped, Keys
<1>1. rows[k].status = "none" => rows'[k] = rows[k]
  <2>1. ASSUME NEW S \in SUBSET Keys, Fail(S), rows[k].status = "none"
        PROVE  rows'[k] = rows[k]
    BY <1>0, <2>1 DEF Fail
  <2>2. ASSUME NEW j \in Keys, Inject(j), rows[k].status = "none"
        PROVE  rows'[k] = rows[k]
    BY <1>0, <2>2 DEF Inject
  <2>3. ASSUME NEW j, NEW p, Register(j, p), j # k
        PROVE  rows'[k] = rows[k]
    BY <1>0, <2>3 DEF Register
  <2>4. QED
    BY <1>0, <2>1, <2>2, <2>3, RowStep DEF RowMoves
<1>2. ASSUME NEW j \in Sends, Sending(j)
      PROVE  call'[k] = call[k] \/ (j = k /\ call'[k] \notin {"new", "stored"}
                                    /\ (call'[k] = "checked" => call[k] = "new"))
  <2>1. ASSUME NEW from, NEW to, CallGoes(j, from, to)
        PROVE  call[j] = from /\ call'[k] = IF j = k THEN to ELSE call[k]
    BY <1>0, <2>1 DEF CallGoes
  <2>2. CASE SendChecks(j) \/ SendPushes(j)
    BY <2>1, <2>2 DEF SendChecks, SendPushes
  <2>3. CASE SendFails(j)
    BY <2>1, <2>3 DEF SendFails
  <2>4. CASE SendIsDropped(j)
    BY <2>1, <2>4 DEF SendIsDropped
  <2>5. CASE SendStores(j)
    BY <2>1, <2>5 DEF SendStores
  <2>6. QED
    BY <1>2, <2>2, <2>3, <2>4, <2>5 DEF Sending
<1>3. CASE Crash
  BY <1>0, <1>1, <1>3 DEF Crash
<1>4. QED
  BY <1>1, <1>2, <1>3, CallMoves

LEMMA RequestsStep ==
    ASSUME TaskTypeOK, [Next]_vars, NEW r \in Requests, request'[r].at = "stored"
    PROVE  request[r].at = "stored" \/ (RequestStores(r) /\ Enqueued(r) = "stored")
<1>0. request \in [Requests -> [at : {"new", "looked", "admitted", "stored", "settling", "failing", "accepted",
                                       "conflict", "undelivered", "ended", "dropped"}, ended : BOOLEAN]]
  BY DEF TaskTypeOK, CallersTyped
<1>1. ASSUME NEW q \in Requests, NEW from, NEW to, RequestGoes(q, from, to)
      PROVE  request'[r].at = IF q = r THEN to ELSE request[r].at
  BY <1>0, <1>1 DEF RequestGoes
<1>2. ASSUME NEW q \in Requests, Requesting(q)
      PROVE  request[r].at = "stored" \/ (RequestStores(r) /\ Enqueued(r) = "stored")
  <2>1. CASE RequestLooks(q)
    BY <1>0, <2>1 DEF RequestLooks
  <2>2. CASE RequestReplays(q)
    <3>1. Replayed(q) # "stored"
      BY DEF Replayed
    <3>2. QED
      BY <1>1, <2>2, <3>1 DEF RequestReplays
  <2>3. CASE RequestStores(q)
    BY <1>1, <2>3 DEF RequestStores
  <2>4. CASE RequestPushes(q) \/ RequestIsRefused(q) \/ RequestSettles(q) \/ RequestFails(q) \/ RequestIsDropped(q)
    BY <1>1, <2>4 DEF RequestPushes, RequestIsRefused, RequestSettles, RequestFails, RequestIsDropped
  <2>5. QED
    BY <1>2, <2>1, <2>2, <2>3, <2>4 DEF Requesting
<1>3. CASE Crash
  BY <1>0, <1>3 DEF Crash
<1>4. CASE Rebuild
  BY <1>0, <1>4 DEF Rebuild
<1>5. QED
  BY <1>2, <1>3, <1>4, RequestMoves

(* A key enters the inbox when it has a row, and while the task accepts.     *)
LEMMA PushedStep ==
    ASSUME TaskTypeOK, RowInv, [Next]_vars
    PROVE  \/ UNCHANGED pushed
           \/ /\ task.accepting
              /\ \E k \in Keys : pushed' = pushed \cup {k} /\ rows[k].status # "none"
<1>1. ASSUME NEW k \in Sends, Sending(k)
      PROVE  UNCHANGED pushed \/ (task.accepting /\ rows[k].status # "none" /\ pushed' = pushed \cup {k})
  BY <1>1 DEF Sending, SendChecks, SendStores, SendPushes, SendFails, SendIsDropped, CallGoes, Push,
     Accepts, RowInv, historyVars
<1>2. ASSUME NEW r \in Requests, Requesting(r)
      PROVE  UNCHANGED pushed
             \/ (task.accepting /\ rows[EchoOf[r]].status # "none" /\ pushed' = pushed \cup {EchoOf[r]})
  BY <1>2 DEF Requesting, RequestLooks, RequestReplays, RequestStores, RequestPushes,
     RequestIsRefused, RequestSettles, RequestFails, RequestIsDropped, RequestGoes, Push, RowInv, historyVars
<1>3. CASE Child
  BY <1>3 DEF Child, Take, InjectNext, InjectBreaks, QueryEnds, ContinueForMessage, StopAccepting,
     Conclude, ConcludeCancelled, ChildPanics, FinishPanicked, Settle, SettleBreaks, StoreFinal,
     StoreFinalBreaks, FinishInMemory, UpsertFinal, NotifyCompleted, historyVars
<1>4. CASE Deliver \/ Canceller \/ Server
  BY <1>4 DEF Deliver, Canceller, CancelMarks, CancelCopies, CancelUpserts, CancelStores,
     Server, Crash, RecoverTasks, RecoverDeliveries, Load, Rebuild, historyVars
<1>5. Sends \subseteq Keys /\ \A r \in Requests : EchoOf[r] \in Keys
  BY TaskAssumption DEF Keys
<1>6. QED
  BY <1>1, <1>2, <1>3, <1>4, <1>5 DEF Next, vars

LEMMA RowInvStep ==
    ASSUME TaskTypeOK, RowInv, [Next]_vars
    PROVE  RowInv'
<1>0. /\ RowsAdvance /\ InjectedOnce'
      /\ Sends \subseteq Keys /\ \A r \in Requests : EchoOf[r] \in Keys
  BY RowsOnlyAdvance, TaskAssumption DEF Keys
<1>1. rows \in [Keys -> [status : {"none", "Pending", "Injected", "Failed"},
            payload : {NoPayload} \cup {AsObject(t) : t \in Sends \cup {TextOf[r] : r \in Requests}}]]
  BY DEF TaskTypeOK, RowsTyped
<1>2. ASSUME NEW k \in Sends
      PROVE  /\ call'[k] \in {"new", "checked"} => rows'[k].status = "none"
             /\ call'[k] = "stored" => rows'[k].status # "none"
  <2>1. CASE SendStores(k)
    BY <1>0, <1>1, <2>1 DEF SendStores, CallGoes, Register, TaskTypeOK, CallersTyped
  <2>2. CASE ~SendStores(k)
    BY <1>0, <2>2, CallsStep DEF RowInv, RowsAdvance
  <2>3. QED
    BY <2>1, <2>2
<1>3. ASSUME NEW r \in Requests, request'[r].at = "stored"
      PROVE  rows'[EchoOf[r]].status # "none"
  <2>1. CASE RequestStores(r) /\ Enqueued(r) = "stored"
    BY <1>0, <1>1, <2>1 DEF RequestStores, Register
  <2>2. CASE request[r].at = "stored"
    BY <1>0, <2>2 DEF RowInv, RowsAdvance
  <2>3. QED
    BY <1>3, <2>1, <2>2, RequestsStep
<1>4. \A k \in pushed' : rows'[k].status # "none"
  BY <1>0, PushedStep DEF RowInv, RowsAdvance, TaskTypeOK, MessagesTyped
<1>5. QED
  BY <1>0, <1>2, <1>3, <1>4 DEF RowInv

-----------------------------------------------------------------------------
(* The end of the child and what the store keeps of it.                     *)
LEMMA StoredStep ==
    ASSUME TaskTypeOK, EndInv, StoreInv, [Next]_vars
    PROVE  /\ stored.agent \in Terminal => UNCHANGED <<stored.agent, stored.run>>
           /\ stored'.agent \in Terminal <=> stored'.run \in Terminal
           /\ stored'.agent \in Terminal =>
                 \/ stored.agent \in Terminal
                 \/ StoreFinal /\ stored'.agent = child.verdict
                 \/ RecoverTasks /\ stored'.agent = "Interrupted"
<1> USE DEF Terminal, Statuses
<1>0. /\ stored \in [agent : Statuses, background : Statuses, run : Terminal \cup {"Running"},
                     undelivered : SUBSET Keys, delivered : BOOLEAN]
      /\ stored.agent \in Terminal <=> stored.run \in Terminal
  BY DEF TaskTypeOK, StoredTyped, StoreInv
<1>1. CASE StoreFinal
  <2>1. /\ child.at = "settled" /\ stored.agent \notin Terminal /\ child.verdict \in Terminal
        /\ stored'.agent = child.verdict /\ stored'.run = child.verdict
    BY <1>0, <1>1 DEF StoreFinal, ChildGoes, EndInv, AtWork, Ending
  <2>2. QED
    BY <1>1, <2>1
<1>2. CASE CancelStores
  <2>1. stored'.agent = Cancelling(stored.agent) /\ stored'.run = stored.run
    BY <1>0, <1>2 DEF CancelStores
  <2>2. QED
    BY <1>0, <2>1 DEF Cancelling
<1>3. CASE RecoverTasks
  <2>1. /\ stored'.agent = Interrupted(stored.agent)
        /\ stored'.run = IF stored.run \in Terminal THEN stored.run
                         ELSE IF Interrupted(stored.agent) = "Interrupted" THEN "Interrupted" ELSE "Cancelled"
    BY <1>0, <1>3 DEF RecoverTasks
  <2>2. QED
    BY <1>0, <1>3, <2>1 DEF Interrupted
<1>4. ASSUME ~(StoreFinal \/ CancelStores \/ RecoverTasks)
      PROVE  stored'.agent = stored.agent /\ stored'.run = stored.run
  <2>1. ASSUME NEW k \in Sends, Sending(k)
        PROVE  UNCHANGED stored
    BY <2>1 DEF Sending, SendChecks, SendStores, SendPushes, SendFails, SendIsDropped, storeVars
  <2>2. ASSUME NEW r \in Requests, Requesting(r)
        PROVE  UNCHANGED stored
    BY <2>2 DEF Requesting, RequestLooks, RequestReplays, RequestStores, RequestPushes,
       RequestIsRefused, RequestSettles, RequestFails, RequestIsDropped, storeVars
  <2>3. CASE Deliver \/ RecoverDeliveries
    BY <1>0, <2>3 DEF Deliver, RecoverDeliveries
  <2>4. CASE UpsertFinal \/ CancelUpserts
    BY <1>0, <2>4 DEF UpsertFinal, CancelUpserts, Upsert
  <2>5. CASE Child /\ ~(StoreFinal \/ UpsertFinal)
    BY <2>5 DEF Child, Take, InjectNext, InjectBreaks, QueryEnds, ContinueForMessage, StopAccepting,
       Conclude, ConcludeCancelled, ChildPanics, FinishPanicked, Settle, SettleBreaks,
       StoreFinalBreaks, FinishInMemory, NotifyCompleted, storeVars
  <2>6. CASE CancelMarks \/ CancelCopies \/ Crash \/ Load \/ Rebuild
    BY <2>6 DEF CancelMarks, CancelCopies, Crash, Load, Rebuild, storeVars
  <2>7. CASE UNCHANGED vars
    BY <2>7 DEF vars
  <2>8. QED
    BY <1>4, <2>1, <2>2, <2>3, <2>4, <2>5, <2>6, <2>7 DEF Next, Canceller, Server
<1>5. QED
  BY <1>0, <1>1, <1>2, <1>3, <1>4

LEMMA EndStep ==
    ASSUME TaskTypeOK, EndInv, StoreInv, [Next]_vars
    PROVE  EndInv'
<1> USE DEF EndInv, AtWork, Ending, Ended, Terminal
<1>0. /\ child \in [at : {"starting", "working", "draining", "ended", "ended in error", "leaving", "panicked",
                         "finishing", "settled", "stored", "finished", "published", "gone"},
                    hand : Seq(Keys), verdict : Terminal \cup {"Running"}, undelivered : SUBSET Keys]
      /\ task \in [status : Statuses, accepting : BOOLEAN, cancelled : BOOLEAN]
  BY DEF TaskTypeOK, ChildTyped, TaskTyped
<1>a. /\ stored.agent \in Terminal => stored'.agent \in Terminal
      /\ stored'.agent \in Terminal => stored.agent \in Terminal \/ StoreFinal \/ RecoverTasks
  BY StoredStep
<1>1. ASSUME UNCHANGED <<life, task, child>>, lost \subseteq lost', ~StoreFinal, ~RecoverTasks
      PROVE  EndInv'
  BY <1>a, <1>1 DEF Up
<1>2. ASSUME NEW k \in Sends, Sending(k)
      PROVE  EndInv'
  <2>1. UNCHANGED <<life, task, child>> /\ lost \subseteq lost' /\ UNCHANGED stored
    BY <1>2 DEF Sending, SendChecks, SendStores, SendPushes, SendFails, SendIsDropped, taskVars, storeVars,
       historyVars
  <2>2. QED
    BY <2>1 DEF Up
<1>3. ASSUME NEW r \in Requests, Requesting(r)
      PROVE  EndInv'
  <2>1. UNCHANGED <<life, task, child>> /\ lost \subseteq lost' /\ UNCHANGED stored
    BY <1>3 DEF Requesting, RequestLooks, RequestReplays, RequestStores, RequestPushes,
       RequestIsRefused, RequestSettles, RequestFails, RequestIsDropped, taskVars, storeVars, historyVars
  <2>2. QED
    BY <2>1 DEF Up
<1>4. CASE Take \/ InjectNext \/ InjectBreaks \/ QueryEnds \/ ContinueForMessage \/ ChildPanics
  <2>1. /\ Up /\ UNCHANGED <<life, task, lost, stored>>
        /\ child.at \in AtWork /\ child'.at \in AtWork
    BY <1>0, <1>4 DEF Take, InjectNext, InjectBreaks, QueryEnds, ContinueForMessage, ChildPanics,
       ChildGoes, NextInHand, storeVars, historyVars
  <2>2. QED
    BY <2>1 DEF Up
<1>5. CASE StopAccepting \/ FinishPanicked
  <2>1. /\ Up /\ UNCHANGED <<life, lost, stored>> /\ child.at \in AtWork
        /\ child'.at \in {"leaving", "finishing"} /\ child'.verdict \in Terminal /\ ~task'.accepting
    BY <1>0, <1>5 DEF StopAccepting, FinishPanicked, storeVars, historyVars
  <2>2. QED
    BY <2>1 DEF Up
<1>6. CASE Conclude \/ ConcludeCancelled \/ Settle \/ SettleBreaks
  <2>1. /\ Up /\ UNCHANGED <<life, task, stored>> /\ child.at \in Ending
        /\ child'.at \in {"finishing", "settled"} /\ child'.verdict \in {child.verdict, "Failed", "Cancelled"}
    BY <1>0, <1>6 DEF Conclude, ConcludeCancelled, Settle, SettleBreaks, ChildGoes, storeVars, historyVars
  <2>2. QED
    BY <2>1 DEF Up
<1>7. CASE StoreFinal \/ StoreFinalBreaks
  <2>1. /\ Up /\ UNCHANGED <<life, task>> /\ child.at = "settled"
        /\ child'.at = "stored" /\ child'.verdict \in {child.verdict, "Failed"}
    BY <1>0, <1>7 DEF StoreFinal, StoreFinalBreaks, ChildGoes
  <2>2. stored'.agent \in Terminal \/ TheTask \in lost'
    BY <1>0, <1>7, <2>1 DEF StoreFinal, StoreFinalBreaks, TaskTypeOK, StoredTyped
  <2>3. QED
    BY <2>1, <2>2 DEF Up
<1>8. CASE FinishInMemory
  <2>1. /\ Up /\ UNCHANGED <<life, lost, stored>> /\ child.at = "stored"
        /\ child'.at = "finished" /\ child'.verdict = child.verdict
        /\ task'.status = child.verdict /\ task'.accepting = task.accepting
    BY <1>0, <1>8 DEF FinishInMemory, ChildGoes, storeVars, historyVars
  <2>2. QED
    BY <2>1 DEF Up
<1>9. CASE UpsertFinal \/ NotifyCompleted
  <2>1. /\ Up /\ UNCHANGED <<life, task, lost>> /\ child.at \in {"finished", "published"}
        /\ child'.at \in {"published", "gone"} /\ child'.verdict = child.verdict
    BY <1>0, <1>9 DEF UpsertFinal, NotifyCompleted, ChildGoes, historyVars
  <2>2. QED
    BY <1>a, <2>1 DEF Up
<1>10. CASE CancelMarks
  <2>1. /\ UNCHANGED <<life, child, lost, stored>> /\ task.status \notin Terminal /\ ~task'.accepting
    BY <1>0, <1>10 DEF CancelMarks, storeVars, historyVars
  <2>2. QED
    BY <2>1 DEF Up
<1>11. CASE (CancelCopies \/ CancelUpserts \/ CancelStores \/ Deliver) /\ ~StoreFinal /\ ~RecoverTasks
  BY <1>1, <1>11 DEF CancelCopies, CancelUpserts, CancelStores, Deliver, taskVars, historyVars
<1>12. CASE RecoverTasks
  <2>1. UNCHANGED <<task, child, lost>> /\ life = "down" /\ life' = "tasks" /\ stored'.agent \in Terminal
    BY <1>12 DEF RecoverTasks, Interrupted, historyVars, TaskTypeOK, StoredTyped, Statuses
  <2>2. QED
    BY <2>1 DEF Up
<1>13. CASE RecoverDeliveries
  <2>1. /\ UNCHANGED <<task, child, lost>> /\ life = "tasks" /\ life' = "deliveries"
        /\ stored'.agent = stored.agent
    BY <1>13 DEF RecoverDeliveries, historyVars, TaskTypeOK, StoredTyped
  <2>2. QED
    BY <2>1 DEF Up
<1>14. CASE Load
  <2>1. /\ UNCHANGED <<child, lost, stored>> /\ life = "deliveries" /\ life' = "up" /\ ~task'.accepting
        /\ task'.status = stored.agent
    BY <1>14 DEF Load, Restore, storeVars, historyVars
  <2>2. stored.agent \in Terminal
    BY <2>1 DEF StoreInv
  <2>3. QED
    BY <2>1, <2>2 DEF Up
<1>15. CASE Rebuild
  <2>1. /\ UNCHANGED <<child, lost, stored, life>> /\ child.at = "gone" /\ ~task'.accepting
    BY <1>15 DEF Rebuild, Restore, storeVars, historyVars
  <2>2. QED
    BY <2>1 DEF Up
<1>16. CASE Crash
  <2>1. /\ life' = "down" /\ child'.at = "gone" /\ child'.verdict = "Interrupted" /\ ~task'.accepting
    BY <1>16 DEF Crash
  <2>2. QED
    BY <2>1 DEF Up
<1>17. CASE UNCHANGED vars
  BY <1>17 DEF vars, Up
<1>18. QED
  BY <1>2, <1>3, <1>4, <1>5, <1>6, <1>7, <1>8, <1>9, <1>10, <1>11, <1>12, <1>13, <1>14, <1>15, <1>16, <1>17
  DEF Next, Child, Canceller, Server

(* While the server is down it only stops again or starts.                  *)
LEMMA LifeStep ==
    ASSUME [Next]_vars, life # "deliveries" \/ ~Load
    PROVE  \/ UNCHANGED life /\ (Up \/ UNCHANGED vars)
           \/ Crash \/ RecoverTasks \/ RecoverDeliveries
<1>1. ASSUME NEW k \in Sends, Sending(k)
      PROVE  Up /\ UNCHANGED life
  BY <1>1 DEF Sending, SendChecks, SendStores, SendPushes, SendFails, SendIsDropped, CallGoes, taskVars
<1>2. ASSUME NEW r \in Requests, Requesting(r)
      PROVE  Up /\ UNCHANGED life
  BY <1>2 DEF Requesting, RequestLooks, RequestReplays, RequestStores, RequestPushes,
     RequestIsRefused, RequestSettles, RequestFails, RequestIsDropped, taskVars
<1>3. CASE Child
  BY <1>3 DEF Child, Take, InjectNext, InjectBreaks, QueryEnds, ContinueForMessage, StopAccepting,
     Conclude, ConcludeCancelled, ChildPanics, FinishPanicked, Settle, SettleBreaks, StoreFinal,
     StoreFinalBreaks, FinishInMemory, UpsertFinal, NotifyCompleted, ChildGoes
<1>4. CASE Canceller \/ Deliver \/ Rebuild
  BY <1>4 DEF Canceller, CancelMarks, CancelCopies, CancelUpserts, CancelStores, CancellerGoes,
     Deliver, Rebuild, taskVars
<1>5. CASE UNCHANGED vars
  BY <1>5 DEF vars
<1>6. QED
  BY <1>1, <1>2, <1>3, <1>4, <1>5 DEF Next, Server, Load

LEMMA NoticesStep ==
    ASSUME TaskTypeOK, [Next]_vars, ~Deliver
    PROVE  notices' = notices /\ stored'.delivered = stored.delivered
<1>0. stored \in [agent : Statuses, background : Statuses, run : Terminal \cup {"Running"},
                  undelivered : SUBSET Keys, delivered : BOOLEAN]
  BY DEF TaskTypeOK, StoredTyped
<1>1. ASSUME NEW k \in Sends, Sending(k)
      PROVE  UNCHANGED <<notices, stored>>
  BY <1>1 DEF Sending, SendChecks, SendStores, SendPushes, SendFails, SendIsDropped, storeVars, noticeVars
<1>2. ASSUME NEW r \in Requests, Requesting(r)
      PROVE  UNCHANGED <<notices, stored>>
  BY <1>2 DEF Requesting, RequestLooks, RequestReplays, RequestStores, RequestPushes,
     RequestIsRefused, RequestSettles, RequestFails, RequestIsDropped, storeVars, noticeVars
<1>3. CASE StoreFinal \/ UpsertFinal
  BY <1>0, <1>3 DEF StoreFinal, UpsertFinal, Upsert, noticeVars
<1>4. CASE CancelUpserts \/ CancelStores
  BY <1>0, <1>4 DEF CancelUpserts, CancelStores, Upsert, noticeVars
<1>5. CASE RecoverTasks \/ RecoverDeliveries
  BY <1>0, <1>5 DEF RecoverTasks, RecoverDeliveries, noticeVars
<1>6. CASE Child /\ ~(StoreFinal \/ UpsertFinal)
  BY <1>6 DEF Child, Take, InjectNext, InjectBreaks, QueryEnds, ContinueForMessage, StopAccepting,
     Conclude, ConcludeCancelled, ChildPanics, FinishPanicked, Settle, SettleBreaks,
     StoreFinalBreaks, FinishInMemory, NotifyCompleted, storeVars, noticeVars
<1>7. CASE CancelMarks \/ CancelCopies \/ Crash \/ Load \/ Rebuild
  BY <1>7 DEF CancelMarks, CancelCopies, Crash, Load, Rebuild, storeVars, noticeVars
<1>8. CASE UNCHANGED vars
  BY <1>8 DEF vars
<1>9. QED
  BY <1>1, <1>2, <1>3, <1>4, <1>5, <1>6, <1>7, <1>8 DEF Next, Canceller, Server

LEMMA StoreStep ==
    ASSUME TaskTypeOK, EndInv, StoreInv, [Next]_vars
    PROVE  StoreInv'
<1>a. stored.agent \in Terminal => stored'.agent \in Terminal
  BY StoredStep
<1>1. stored'.agent \in Terminal <=> stored'.run \in Terminal
  BY StoredStep
<1>2. life' \in {"tasks", "deliveries"} => stored'.agent \in Terminal
  <2>1. CASE RecoverTasks
    BY <2>1 DEF RecoverTasks, Interrupted, TaskTypeOK, StoredTyped, Statuses, Terminal
  <2>2. CASE RecoverDeliveries
    BY <1>a, <2>2 DEF RecoverDeliveries, StoreInv
  <2>3. CASE Crash \/ Load
    BY <2>3 DEF Crash, Load
  <2>4. QED
    BY <1>a, <2>1, <2>2, <2>3, LifeStep DEF StoreInv
<1>3. life' = "deliveries" => Pending' = {}
  <2>1. CASE RecoverDeliveries
    BY <2>1 DEF RecoverDeliveries, Fail, Pending, TaskTypeOK, RowsTyped
  <2>2. CASE Crash \/ RecoverTasks \/ Load
    BY <2>2 DEF Crash, RecoverTasks, Load
  <2>3. CASE life' = "deliveries" /\ UNCHANGED vars
    BY <2>3 DEF vars, StoreInv, Pending
  <2>4. QED
    BY <2>1, <2>2, <2>3, LifeStep DEF Up
<1>4. notices' = IF stored'.delivered THEN 1 ELSE 0
  <2>1. CASE Deliver
    <3>1. notices' = (IF stored.delivered THEN notices ELSE notices + 1) /\ stored'.delivered
      BY <2>1 DEF Deliver, TaskTypeOK, StoredTyped
    <3>2. QED
      BY <3>1 DEF StoreInv
  <2>2. CASE ~Deliver
    BY <2>2, NoticesStep DEF StoreInv
  <2>3. QED
    BY <2>1, <2>2
<1>5. QED
  BY <1>1, <1>2, <1>3, <1>4 DEF StoreInv

(* A child completes only by a settle that finds nothing undelivered.        *)
LEMMA CompletedStep ==
    ASSUME TaskTypeOK, [Next]_vars,
           child'.at \in {"settled"} \cup Ended, child'.verdict = "Completed"
    PROVE  \/ child.at \in {"settled"} \cup Ended /\ child.verdict = "Completed"
           \/ Settle /\ Undelivered' = {}
<1> USE DEF Ended
<1>0. child \in [at : {"starting", "working", "draining", "ended", "ended in error", "leaving", "panicked",
                      "finishing", "settled", "stored", "finished", "published", "gone"},
                 hand : Seq(Keys), verdict : Terminal \cup {"Running"}, undelivered : SUBSET Keys]
  BY DEF TaskTypeOK, ChildTyped
<1>1. CASE Take \/ InjectNext \/ InjectBreaks \/ QueryEnds \/ ContinueForMessage \/ ChildPanics
  BY <1>0, <1>1 DEF Take, InjectNext, InjectBreaks, QueryEnds, ContinueForMessage, ChildPanics,
     ChildGoes, NextInHand
<1>2. CASE StopAccepting \/ FinishPanicked \/ Conclude \/ ConcludeCancelled
  BY <1>0, <1>2 DEF StopAccepting, FinishPanicked, Conclude, ConcludeCancelled, ChildGoes
<1>3. CASE Settle
  <2>1. child'.verdict = IF Undelivered' # {} /\ child.verdict = "Completed" THEN "Failed" ELSE child.verdict
    BY <1>0, <1>3 DEF Settle
  <2>2. QED
    BY <1>3, <2>1
<1>4. CASE SettleBreaks \/ StoreFinalBreaks
  BY <1>0, <1>4 DEF SettleBreaks, StoreFinalBreaks
<1>5. CASE StoreFinal \/ FinishInMemory \/ UpsertFinal \/ NotifyCompleted
  BY <1>0, <1>5 DEF StoreFinal, FinishInMemory, UpsertFinal, NotifyCompleted, ChildGoes
<1>6. CASE Crash
  BY <1>6 DEF Crash
<1>7. QED
  BY <1>1, <1>2, <1>3, <1>4, <1>5, <1>6, ChildMoves DEF Child

LEMMA DeliveredStep ==
    ASSUME TaskTypeOK, RowInv, EndInv, StoreInv, DeliveredInv, [Next]_vars
    PROVE  DeliveredInv'
<1> USE DEF Terminal, Ending, Ended, AtWork
<1>0. RowsAdvance /\ pushed \subseteq Keys
  BY RowsOnlyAdvance DEF TaskTypeOK, MessagesTyped
<1>1. \A k \in pushed : rows[k].status = "Injected" => rows'[k].status = "Injected"
  BY <1>0 DEF RowsAdvance
<1>2. child.at \in Ending \cup Ended => UNCHANGED pushed
  BY PushedStep DEF EndInv
<1>3. stored'.agent = "Completed" => \A k \in pushed' : rows'[k].status = "Injected"
  <2>1. CASE stored.agent = "Completed"
    <3>1. child.at \in Ended
      BY <2>1 DEF EndInv, TaskTypeOK, ChildTyped
    <3>2. QED
      BY <1>1, <1>2, <2>1, <3>1 DEF DeliveredInv, CompletedMeansDelivered
  <2>2. CASE StoreFinal /\ child.verdict = "Completed"
    BY <1>1, <1>2, <2>2 DEF StoreFinal, ChildGoes, DeliveredInv
  <2>3. QED
    BY <2>1, <2>2, StoredStep
<1>4. ASSUME child'.at \in {"settled"} \cup Ended, child'.verdict = "Completed"
      PROVE  \A k \in pushed' : rows'[k].status = "Injected"
  <2>1. CASE child.at \in {"settled"} \cup Ended /\ child.verdict = "Completed"
    BY <1>1, <1>2, <2>1 DEF DeliveredInv
  <2>2. CASE Settle /\ Undelivered' = {}
    <3>1. child.at = "finishing" /\ UNCHANGED pushed /\ Fail(Keys)
      BY <2>2 DEF Settle, historyVars
    <3>2. \A k \in Keys : rows'[k].status # "Failed"
      BY <2>2 DEF Undelivered
    <3>3. \A k \in Keys : rows[k].status # "Pending" /\ rows'[k] = rows[k]
      BY <3>1, <3>2 DEF Fail, TaskTypeOK, RowsTyped
    <3>4. \A k \in pushed : rows[k].status # "none"
      BY DEF RowInv
    <3>5. QED
      BY <1>0, <3>1, <3>2, <3>3, <3>4 DEF TaskTypeOK, RowsTyped
  <2>3. QED
    BY <1>4, <2>1, <2>2, CompletedStep
<1>5. QED
  BY <1>3, <1>4 DEF DeliveredInv, CompletedMeansDelivered

-----------------------------------------------------------------------------
(* Nothing is stranded: who is at work on a pending delivery stays at it.    *)
Settled == {"settled", "stored", "finished", "published", "gone"}

LEMMA SettledStep ==
    ASSUME TaskTypeOK, [Next]_vars, child'.at \in Settled
    PROVE  \/ child.at \in Settled /\ (child'.at = "gone" => child.at = "gone" \/ NotifyCompleted \/ Crash)
           \/ (Settle \/ SettleBreaks) /\ child'.at = "settled"
           \/ Crash
<1> USE DEF Settled
<1>0. child \in [at : {"starting", "working", "draining", "ended", "ended in error", "leaving", "panicked",
                      "finishing", "settled", "stored", "finished", "published", "gone"},
                 hand : Seq(Keys), verdict : Terminal \cup {"Running"}, undelivered : SUBSET Keys]
  BY DEF TaskTypeOK, ChildTyped
<1>1. CASE Take \/ InjectNext \/ InjectBreaks \/ QueryEnds \/ ContinueForMessage \/ ChildPanics
  BY <1>0, <1>1 DEF Take, InjectNext, InjectBreaks, QueryEnds, ContinueForMessage, ChildPanics,
     ChildGoes, NextInHand
<1>2. CASE StopAccepting \/ FinishPanicked \/ Conclude \/ ConcludeCancelled
  BY <1>0, <1>2 DEF StopAccepting, FinishPanicked, Conclude, ConcludeCancelled, ChildGoes
<1>3. CASE StoreFinal \/ StoreFinalBreaks \/ FinishInMemory \/ UpsertFinal \/ NotifyCompleted
  BY <1>0, <1>3 DEF StoreFinal, StoreFinalBreaks, FinishInMemory, UpsertFinal, NotifyCompleted, ChildGoes
<1>4. CASE Settle \/ SettleBreaks
  BY <1>0, <1>4 DEF Settle, SettleBreaks
<1>5. QED
  BY <1>1, <1>2, <1>3, <1>4, ChildMoves DEF Child

LEMMA SenderStep ==
    ASSUME TaskTypeOK, [Next]_vars, ~Crash, ~task.accepting,
           NEW k \in Keys, k \in Pending, k \in Pending', k \notin lost', Settles(k)
    PROVE  Settles(k)'
<1>0. /\ call \in [Sends -> {"new", "checked", "stored", "sent", "failing", "refused", "dropped"}]
      /\ request \in [Requests -> [at : {"new", "looked", "admitted", "stored", "settling", "failing", "accepted",
                                         "conflict", "undelivered", "ended", "dropped"}, ended : BOOLEAN]]
      /\ rows \in [Keys -> [status : {"none", "Pending", "Injected", "Failed"},
            payload : {NoPayload} \cup {AsObject(t) : t \in Sends \cup {TextOf[r] : r \in Requests}}]]
  BY DEF TaskTypeOK, CallersTyped, RowsTyped
<1>1. ASSUME NEW S, Fail(S), k \in S
      PROVE  FALSE
  BY <1>0, <1>1 DEF Fail, Pending
<1>2. CASE k \in Sends
  <2>1. call[k] \in {"stored", "failing"}
    BY <1>2 DEF Settles
  <2>2. ASSUME NEW j \in Sends, Sending(j)
        PROVE  call'[k] \in {"stored", "failing"}
    <3>1. ASSUME NEW from, NEW to, CallGoes(j, from, to)
          PROVE  call[j] = from /\ call'[k] = IF j = k THEN to ELSE call[k]
      BY <1>0, <1>2, <3>1 DEF CallGoes
    <3>2. CASE SendChecks(j) \/ SendStores(j)
      BY <2>1, <3>1, <3>2 DEF SendChecks, SendStores
    <3>3. CASE SendPushes(j)
      BY <2>1, <3>1, <3>3 DEF SendPushes, Accepts
    <3>4. CASE SendFails(j)
      BY <1>1, <3>4 DEF SendFails
    <3>5. CASE SendIsDropped(j)
      BY <2>1, <3>1, <3>5 DEF SendIsDropped
    <3>6. QED
      BY <2>2, <3>2, <3>3, <3>4, <3>5 DEF Sending
  <2>3. QED
    BY <1>2, <2>1, <2>2, CallMoves DEF Settles
<1>3. CASE k \notin Sends
  <2>0. PICK r \in Requests : EchoOf[r] = k /\ request[r].at \in {"stored", "settling", "failing"}
    BY <1>3 DEF Settles
  <2>1. ASSUME NEW q \in Requests, Requesting(q)
        PROVE  request'[r].at \in {"stored", "settling", "failing"}
    <3>1. ASSUME NEW from, NEW to, RequestGoes(q, from, to)
          PROVE  request[q].at = from /\ request'[r].at = IF q = r THEN to ELSE request[r].at
      BY <1>0, <3>1 DEF RequestGoes
    <3>2. CASE RequestLooks(q)
      BY <1>0, <2>0, <3>2 DEF RequestLooks
    <3>3. CASE RequestReplays(q) \/ RequestStores(q)
      BY <2>0, <3>1, <3>3 DEF RequestReplays, RequestStores
    <3>4. CASE RequestPushes(q) \/ RequestIsRefused(q)
      BY <2>0, <3>1, <3>4 DEF RequestPushes, RequestIsRefused
    <3>5. CASE RequestSettles(q)
      BY <1>1, <3>5 DEF RequestSettles
    <3>6. CASE RequestFails(q)
      BY <1>1, <2>0, <3>1, <3>6 DEF RequestFails
    <3>7. CASE RequestIsDropped(q)
      BY <2>0, <3>1, <3>7 DEF RequestIsDropped
    <3>8. QED
      BY <2>1, <3>2, <3>3, <3>4, <3>5, <3>6, <3>7 DEF Requesting
  <2>2. CASE Rebuild
    <3>1. request'[r] = IF request[r].at \in {"stored", "settling"}
                        THEN [request[r] EXCEPT !.at = "failing"] ELSE request[r]
      BY <2>2 DEF Rebuild
    <3>2. request[r] \in [at : {"new", "looked", "admitted", "stored", "settling", "failing", "accepted",
                               "conflict", "undelivered", "ended", "dropped"}, ended : BOOLEAN]
      BY <1>0
    <3>3. request'[r].at = IF request[r].at \in {"stored", "settling"} THEN "failing" ELSE request[r].at
      BY <3>1, <3>2
    <3>4. request'[r].at = "failing"
      BY <2>0, <3>3
    <3>5. QED
      BY <1>3, <2>0, <3>4 DEF Settles
  <2>3. QED
    BY <1>3, <2>0, <2>1, <2>2, RequestMoves DEF Settles
<1>4. QED
  BY <1>2, <1>3

LEMMA LostStep ==
    ASSUME [Next]_vars
    PROVE  lost \subseteq lost'
<1>1. ASSUME NEW k \in Sends, Sending(k)
      PROVE  lost \subseteq lost'
  BY <1>1 DEF Sending, SendChecks, SendStores, SendPushes, SendFails, SendIsDropped, historyVars
<1>2. ASSUME NEW r \in Requests, Requesting(r)
      PROVE  lost \subseteq lost'
  BY <1>2 DEF Requesting, RequestLooks, RequestReplays, RequestStores, RequestPushes,
     RequestIsRefused, RequestSettles, RequestFails, RequestIsDropped, historyVars
<1>3. CASE Child
  BY <1>3 DEF Child, Take, InjectNext, InjectBreaks, QueryEnds, ContinueForMessage, StopAccepting,
     Conclude, ConcludeCancelled, ChildPanics, FinishPanicked, Settle, SettleBreaks, StoreFinal,
     StoreFinalBreaks, FinishInMemory, UpsertFinal, NotifyCompleted, historyVars
<1>4. CASE Deliver \/ Canceller \/ Server
  BY <1>4 DEF Deliver, Canceller, CancelMarks, CancelCopies, CancelUpserts, CancelStores,
     Server, Crash, RecoverTasks, RecoverDeliveries, Load, Rebuild, historyVars
<1>5. QED
  BY <1>1, <1>2, <1>3, <1>4 DEF Next, vars

LEMMA StrandedStep ==
    ASSUME TaskTypeOK, RowInv, EndInv, StoreInv, NothingIsStranded, [Next]_vars, EndInv'
    PROVE  NothingIsStranded'
<1> USE DEF Settled
<1> SUFFICES ASSUME Up'
             PROVE  /\ task'.status \notin Terminal => child'.at # "gone" \/ TheTask \in lost'
                    /\ \A k \in Pending' \ lost' : child'.at \in Settled => Settles(k)'
  BY DEF NothingIsStranded
<1>0. ~Crash /\ lost \subseteq lost'
  BY LostStep DEF Crash, Up
<1>1. ASSUME task'.status \notin Terminal, child'.at = "gone"
      PROVE  TheTask \in lost'
  <2>1. CASE Load
    BY <1>1, <2>1 DEF Load, Restore, StoreInv
  <2>2. CASE Rebuild
    BY <1>1, <2>2, <1>0 DEF Rebuild, Restore, EndInv, Ended, Up
  <2>3. CASE CancelMarks
    BY <1>0, <1>1, <2>3 DEF CancelMarks, NothingIsStranded, CancellerGoes
  <2>4. CASE UNCHANGED task /\ ~Load
    <3>1. Up
      BY <1>0, <2>4, LifeStep DEF Up, RecoverTasks, RecoverDeliveries
    <3>2. CASE child.at = "gone"
      BY <1>0, <1>1, <2>4, <3>1, <3>2 DEF NothingIsStranded
    <3>3. CASE NotifyCompleted
      BY <1>1, <2>4, <3>3 DEF NotifyCompleted, ChildGoes, EndInv
    <3>4. QED
      BY <1>0, <1>1, <3>2, <3>3, SettledStep
  <2>5. CASE StopAccepting \/ FinishPanicked \/ FinishInMemory
    BY <1>1, <2>5 DEF StopAccepting, FinishPanicked, FinishInMemory, ChildGoes, TaskTypeOK, ChildTyped
  <2>6. QED
    BY <1>0, <2>1, <2>2, <2>3, <2>4, <2>5, TaskMoves
<1>2. ASSUME NEW k \in Pending' \ lost', child'.at \in Settled
      PROVE  Settles(k)'
  <2>1. k \in Keys /\ rows'[k].status = "Pending"
    BY <1>2 DEF Pending
  <2>2. CASE (Settle \/ SettleBreaks) /\ child'.at = "settled"
    <3>1. ASSUME Fail(Keys)
          PROVE  FALSE
      BY <2>1, <3>1 DEF Fail, TaskTypeOK, RowsTyped
    <3>2. CASE SettleBreaks
      BY <1>2, <2>1, <3>2 DEF SettleBreaks, Pending, storeVars
    <3>3. QED
      BY <2>2, <3>1, <3>2 DEF Settle
  <2>3. CASE child.at \in Settled /\ k \in Pending
    <3>1. Up
      BY <1>0, <2>3, LifeStep DEF Up, RecoverTasks, RecoverDeliveries, StoreInv, Pending
    <3>2. ~task.accepting
      BY <2>3 DEF EndInv, Ending, Ended
    <3>3. Settles(k)
      BY <1>0, <1>2, <2>3, <3>1 DEF NothingIsStranded
    <3>4. QED
      BY <1>0, <1>2, <2>1, <2>3, <3>2, <3>3, SenderStep
  <2>4. CASE k \notin Pending
    <3>1. \/ \E j \in Sends : SendStores(j) /\ Register(j, AsObject(j)) /\ j = k
          \/ \E r \in Requests : RequestStores(r) /\ rows[EchoOf[r]].status = "none" /\ EchoOf[r] = k
      <4>0. /\ rows \in [Keys -> [status : {"none", "Pending", "Injected", "Failed"},
                  payload : {NoPayload} \cup {AsObject(t) : t \in Sends \cup {TextOf[r] : r \in Requests}}]]
            /\ rows[k].status # "Pending"
        BY <2>1, <2>4 DEF Pending, TaskTypeOK, RowsTyped
      <4>1. ~UNCHANGED <<rows, history>>
        BY <2>1, <4>0
      <4>2. \A S \in SUBSET Keys : ~Fail(S)
        BY <2>1, <4>0 DEF Fail
      <4>3. \A j \in Keys : ~Inject(j)
        BY <2>1, <4>0 DEF Inject
      <4>4. ASSUME NEW j, NEW p, Register(j, p)
            PROVE  j = k
        BY <2>1, <4>0, <4>4 DEF Register
      <4>5. QED
        BY <4>1, <4>2, <4>3, <4>4, RowStep DEF RowMoves
    <3>2. ASSUME NEW j \in Sends, SendStores(j), j = k
          PROVE  Settles(k)'
      BY <3>2 DEF SendStores, CallGoes, Settles, TaskTypeOK, CallersTyped
    <3>3. ASSUME NEW r \in Requests, RequestStores(r), rows[EchoOf[r]].status = "none", EchoOf[r] = k
          PROVE  Settles(k)'
      <4>1. Enqueued(r) = "stored"
        BY <3>3 DEF Enqueued
      <4>2. QED
        BY <3>3, <4>1, TaskAssumption DEF RequestStores, RequestGoes, Settles, TaskTypeOK, CallersTyped
    <3>4. QED
      BY <3>1, <3>2, <3>3
  <2>5. QED
    BY <1>0, <1>2, <2>2, <2>3, <2>4, SettledStep
<1>3. QED
  BY <1>1, <1>2

-----------------------------------------------------------------------------
LEMMA TaskInvStart == Init => TaskInv
<1> SUFFICES ASSUME Init
             PROVE  TaskInv
  OBVIOUS
<1>1. TaskTypeOK
  <2>1. <<>> \in Seq(Keys) /\ MaxFaults \in Nat
    BY EmptySeq, TaskAssumption
  <2>2. TaskTyped /\ ChildTyped
    BY <2>1 DEF Init, TaskTyped, ChildTyped, Statuses, Terminal
  <2>3. RowsTyped /\ StoredTyped
    BY DEF Init, RowsTyped, StoredTyped, Statuses, Terminal
  <2>4. CallersTyped
    BY DEF Init, CallersTyped, Statuses, Terminal
  <2>5. MessagesTyped
    <3>1. notice \in BOOLEAN
      BY Zenon DEF Init
    <3>2. inbox = <<>> /\ pushed = {} /\ lost = {} /\ notices = 0 /\ faults = 0
      BY DEF Init
    <3>3. QED
      BY <2>1, <3>1, <3>2 DEF MessagesTyped
  <2>6. QED
    BY <2>2, <2>3, <2>4, <2>5 DEF TaskTypeOK
<1>2. RowInv
  BY TaskAssumption DEF Init, RowInv, InjectedOnce, Keys
<1>3. EndInv
  BY DEF Init, EndInv, AtWork, Ending, Ended, Terminal, Up
<1>4. StoreInv
  BY DEF Init, StoreInv, Terminal
<1>5. DeliveredInv
  BY DEF Init, DeliveredInv, CompletedMeansDelivered, Ended
<1>6. NothingIsStranded
  BY DEF Init, NothingIsStranded
<1>7. QED
  BY <1>1, <1>2, <1>3, <1>4, <1>5, <1>6 DEF TaskInv

LEMMA TaskInvStep == TaskInv /\ [Next]_vars => TaskInv'
<1> SUFFICES ASSUME TaskInv, [Next]_vars
             PROVE  TaskInv'
  OBVIOUS
<1>1. TaskTypeOK' /\ RowInv' /\ EndInv' /\ StoreInv' /\ DeliveredInv'
  BY TypeStep, RowInvStep, EndStep, StoreStep, DeliveredStep DEF TaskInv
<1>2. NothingIsStranded'
  BY <1>1, StrandedStep DEF TaskInv
<1>3. QED
  BY <1>1, <1>2 DEF TaskInv

LEMMA TaskInvHolds == TaskSpec => []TaskInv
BY TaskInvStart, TaskInvStep, PTL DEF TaskSpec

(* Every variable of the task and its rows keeps to its type.                *)
THEOREM TaskTypeCorrect == TaskSpec => []TaskTypeOK
<1>1. TaskInv => TaskTypeOK
  BY DEF TaskInv
<1>2. QED
  BY TaskInvHolds, <1>1, PTL

(* A delivery and the child's history agree, whatever is sent again, settled *)
(* by others or cut off by a crash (agent_task_delivery.rs).                 *)
THEOREM DeliveriesAreInjectedOnce == TaskSpec => []InjectedOnce
<1>1. TaskInv => InjectedOnce
  BY DEF TaskInv, RowInv
<1>2. QED
  BY TaskInvHolds, <1>1, PTL

(* An open task has a child that will end it, and a pending delivery has its *)
(* sender or that child, unless a fault left it behind (finish_task,         *)
(* intervene_agent_run).                                                     *)
THEOREM NobodyIsStranded == TaskSpec => []NothingIsStranded
<1>1. TaskInv => NothingIsStranded
  BY DEF TaskInv
<1>2. QED
  BY TaskInvHolds, <1>1, PTL

(* No message that the child accepted is missing from a completed task       *)
(* (continue_for_message and fail_pending_task_messages).                    *)
THEOREM CompletedIsDelivered == TaskSpec => []CompletedMeansDelivered
<1>1. TaskInv => CompletedMeansDelivered
  BY DEF TaskInv, DeliveredInv
<1>2. QED
  BY TaskInvHolds, <1>1, PTL

(* The owner's history has one notification of the task at most, and has it   *)
(* exactly if the row says delivered (insert_task_notification).             *)
THEOREM NotifiedAtMostOnce == TaskSpec => [](notices = IF stored.delivered THEN 1 ELSE 0)
<1>1. TaskInv => notices = IF stored.delivered THEN 1 ELSE 0
  BY DEF TaskInv, StoreInv
<1>2. QED
  BY TaskInvHolds, <1>1, PTL

(* No step takes back the end of a task or of a delivery, neither a late      *)
(* cancel nor a restart (set_agent_tasks_cancelling, recover_interrupted).   *)
THEOREM FinalIsKept == TaskSpec => FinalStays
<1>1. ASSUME TaskInv, [Next]_vars
      PROVE  [/\ stored.agent \in Terminal => stored'.agent = stored.agent /\ stored'.run = stored.run
              /\ \A k \in Keys : rows[k].status \in {"Injected", "Failed"} => rows'[k].status = rows[k].status]_vars
  BY <1>1, StoredStep, RowsOnlyAdvance DEF TaskInv, RowsAdvance
<1>2. QED
  BY TaskInvHolds, <1>1, PTL DEF TaskSpec, FinalStays
=============================================================================
