-------------------------- MODULE QueryTurnProofs --------------------------
(***************************************************************************)
(* Proofs about QueryTurn, for any set of calls, any limits and any events *)
(* (RequestsArePaired needs tools that do not panic).  The invariant says  *)
(* which calls have a task and where (ToolInv), how many turns there were  *)
(* (TurnInv), where a pause can wait (PauseInv), what is open in the       *)
(* messages (PairInv), and what a query that ends leaves (InboxInv).       *)
(***************************************************************************)
EXTENDS QueryTurn, TLAPS

TurnSteps == {"stream", "record", "drain", "draining", "joining", "cleanup", "abort"}
Draining  == {"drain", "draining", "joining"}
Between   == {"idle", "notices", "inbox", "between"}
Asking    == {"begin", "invoke", "invoking", "request"}

ToolInv ==
    /\ pc \notin TurnSteps => \A c \in Calls : tool[c] = "none"
    /\ pc \notin TurnSteps \cup {"settle", "closed"} => streamed = {}
    /\ \A c \in Calls : tool[c] # "none" => c \in streamed
    /\ pc \in Draining => done # "no"
    /\ ToolsAreRecorded
    /\ final # "none" => LiveCalls = {}

TurnInv ==
    /\ pc \in Between => turns = 0
    /\ pc \in {"top", "settle"} \cup Asking \cup TurnSteps => turns <= TurnLimit
    /\ pc \in {"settle"} \cup Asking \cup TurnSteps /\ turns = TurnLimit => final # "none"
    /\ pc = "after" /\ turns > TurnLimit => final # "none"
    /\ repeats = RepeatLimit => asked \/ final # "none"

PauseInv == pc \in Between => pauses = {}

(* Of a query whose tools do not panic.                                     *)
PairInv ==
    /\ pc \notin Draining \cup {"closed"} => open = {}
    /\ pc \in Draining => open \subseteq streamed
    /\ pc = "record" => done = "no"
    /\ pc \in {"stream"} \cup Draining => \A c \in streamed : tool[c] # "none"
    /\ pc = "record" => \A c, d \in streamed : tool[c] = "none" /\ tool[d] = "none" => c = d
    /\ \A c \in Calls : tool[c] # "panicked" /\ (tool[c] = "dropped" => flag)

InboxInv == pc = "end" /\ IsMain /\ finish \in {"stop", "tool"} /\ final = "none" => inbox = 0

QueryInv ==
    /\ QueryTypeOK /\ ToolInv /\ TurnInv /\ PauseInv /\ InboxInv
    /\ "ToolPanics" \notin Events => PairInv

-----------------------------------------------------------------------------
LEMMA ReleasedCalls ==
    ASSUME NEW P, tool \in [Calls -> ToolStates]
    PROVE  /\ Released(P) \in [Calls -> ToolStates]
           /\ \A c \in Calls : Released(P)[c] = tool[c] \/ (tool[c] = "waiting" /\ Released(P)[c] = "result")
BY DEF Released, ToolStates

(* What Record does to the calls, the guard and the sink.                    *)
LEMMA RecordDoes ==
    ASSUME Record
    PROVE  /\ pc = "record"
           /\ UNCHANGED <<turns, final, streamed, text, done, denial, joined, pauses, retaining,
                          inbox, flag, woken>>
           /\ \E c \in streamed :
                 /\ tool[c] = "none"
                 /\ \/ broken' /\ EndStream /\ UNCHANGED <<tool, asked, repeats>>
                       /\ recorded' \in {recorded, recorded \cup {c}}
                    \/ /\ ~broken' /\ pc' = "stream" /\ UNCHANGED <<finish, open>>
                       /\ recorded' = recorded \cup {c}
                       /\ \/ Rejects /\ tool' = [tool EXCEPT ![c] = "result"] /\ UNCHANGED <<asked, repeats>>
                          \/ /\ ~Rejects /\ repeats' \in {1, repeats + 1}
                             /\ asked' <=> repeats' >= RepeatLimit
                             /\ tool' = [tool EXCEPT ![c] = IF repeats' >= RepeatLimit THEN "result" ELSE "spawned"]
BY DEF Record, Goto, Acknowledged, signalVars

LEMMA StepsTypedStep ==
    ASSUME QueryTypeOK, ToolInv, TurnInv, [QueryNext]_vars
    PROVE  StepsTyped'
<1> USE QueryAssumption DEF StepsTyped, Steps, Gaps, Waits, Draining, Asking, TurnSteps
<1>t. StepsTyped /\ FlagsTyped
  BY DEF QueryTypeOK
<1>0. CASE UNCHANGED vars
  BY <1>t, <1>0 DEF vars, queryVars, loopVars, streamVars, toolVars, signalVars
<1>1. CASE QueryNext /\ (Start \/ Rerun \/ FirstNotices \/ FirstMessages)
  BY <1>t, <1>1 DEF Start, Rerun, FirstNotices, FirstMessages, Goto, DrainPauses, IsMain,
     loopVars, streamVars, toolVars, signalVars, QueryNext
<1>2. CASE QueryNext /\ Top
  BY <1>t, <1>2 DEF Top, Goto, LimitReached, loopVars, streamVars, toolVars, signalVars,
     QueryNext
<1>3. CASE QueryNext /\ After
  BY <1>t, <1>3 DEF After, Goto, loopVars, streamVars, toolVars, signalVars, QueryNext
<1>4. CASE QueryNext /\ End
  BY <1>t, <1>4 DEF End, Goto, RunBoundary, DrainPauses, ForgetQuery, IsMain, loopVars,
     streamVars, toolVars, signalVars, QueryNext
<1>5. CASE QueryNext /\ (Begin \/ Invoke \/ Register)
  BY <1>t, <1>5 DEF Begin, Invoke, Register, Goto, Interrupt, Gaps, loopVars, streamVars,
     toolVars, signalVars, QueryNext
<1>6. CASE QueryNext /\ (Request \/ RequestCancelled)
  BY <1>t, <1>6 DEF Request, RequestCancelled, Goto, Interrupt, loopVars, streamVars,
     toolVars, signalVars, QueryNext
<1>7. CASE QueryNext /\ (StreamEvent \/ StreamCancelled)
  BY <1>t, <1>7 DEF StreamEvent, StreamCancelled, Goto, EndStream, loopVars, streamVars,
     toolVars, signalVars, QueryNext
<1>8. CASE QueryNext /\ Record
  BY <1>t, <1>8 DEF Record, Goto, EndStream, Acknowledged, Rejects, loopVars, streamVars,
     toolVars, signalVars, QueryNext, TurnInv
<1>9. CASE QueryNext /\ (Cleanup \/ Abort)
  BY <1>t, <1>9 DEF Cleanup, Abort, Goto, DrainPauses, NoCalls, loopVars, streamVars,
     toolVars, signalVars, QueryNext
<1>10. CASE QueryNext /\ (Drain \/ Join)
  BY <1>t, <1>10 DEF Drain, Join, Goto, Aborted, Ended, loopVars, streamVars, toolVars,
     signalVars, QueryNext
<1>11. CASE QueryNext /\ Drained
  BY <1>t, <1>11 DEF Drained, Goto, Interrupt, NoCalls, Unanswered, loopVars, streamVars,
     toolVars, signalVars, QueryNext, ToolInv
<1>12. CASE QueryNext /\ Settle
  BY <1>t, <1>12 DEF Settle, Goto, ForgetTurn, loopVars, streamVars, toolVars, signalVars,
     QueryNext, TurnInv
<1>13. CASE QueryNext /\ (HostFails \/ Intervene)
  BY <1>t, <1>13 DEF HostFails, Intervene, loopVars, streamVars, toolVars, signalVars,
     QueryNext
<1>14. CASE QueryNext /\ (Cancel \/ Retain \/ OthersDrain)
  BY <1>t, <1>14 DEF Cancel, Retain, OthersDrain, DrainPauses, loopVars, streamVars,
     toolVars, signalVars, QueryNext
<1>15. CASE QueryNext /\ Close
  BY <1>t, <1>15 DEF Close, Goto, NoCalls, loopVars, streamVars, toolVars, signalVars,
     QueryNext
<1>16. ASSUME NEW c \in Calls, QueryNext, ToolStep(c) \/ EndTool(c) \/ Answer(c)
      PROVE  StepsTyped'
  BY <1>t, <1>16 DEF ToolStep, BeginTool, CheckTool, AskTool, EndTool, Answer, QueryNext,
     loopVars, streamVars, toolVars, signalVars
<1>17. QED
  BY <1>0, <1>1, <1>2, <1>3, <1>4, <1>5, <1>6, <1>7, <1>8, <1>9, <1>10, <1>11, <1>12, <1>13, <1>14, <1>15, <1>16
  DEF QueryNext, EngineStep, ProviderStep

LEMMA CallsTypedStep ==
    ASSUME QueryTypeOK, [QueryNext]_vars
    PROVE  CallsTyped'
<1> USE ReleasedCalls DEF CallsTyped, ToolStates, Live
<1>t. CallsTyped
  BY DEF QueryTypeOK
<1>0. CASE UNCHANGED vars
  BY <1>t, <1>0 DEF vars, queryVars, loopVars, streamVars, toolVars, signalVars
<1>1. CASE Start \/ Rerun \/ FirstNotices \/ FirstMessages
  BY <1>t, <1>1 DEF Start, Rerun, FirstNotices, FirstMessages, Goto, DrainPauses, IsMain,
     loopVars, streamVars, toolVars, signalVars
<1>2. CASE Top
  BY <1>t, <1>2 DEF Top, Goto, LimitReached, loopVars, streamVars, toolVars, signalVars
<1>3. CASE After
  BY <1>t, <1>3 DEF After, Goto, loopVars, streamVars, toolVars, signalVars
<1>4. CASE End
  BY <1>t, <1>4 DEF End, Goto, RunBoundary, DrainPauses, ForgetQuery, IsMain, loopVars,
     streamVars, toolVars, signalVars
<1>5. CASE Begin \/ Invoke \/ Register
  BY <1>t, <1>5 DEF Begin, Invoke, Register, Goto, Interrupt, Gaps, loopVars, streamVars,
     toolVars, signalVars
<1>6. CASE Request \/ RequestCancelled
  BY <1>t, <1>6 DEF Request, RequestCancelled, Goto, Interrupt, loopVars, streamVars,
     toolVars, signalVars
<1>7. CASE StreamEvent \/ StreamCancelled
  BY <1>t, <1>7 DEF StreamEvent, StreamCancelled, Goto, EndStream, loopVars, streamVars,
     toolVars, signalVars
<1>8. CASE Record
  BY <1>t, <1>8 DEF Record, Goto, EndStream, Acknowledged, Rejects, loopVars, streamVars,
     toolVars, signalVars
<1>9. CASE Cleanup \/ Abort
  BY <1>t, <1>9 DEF Cleanup, Abort, Goto, DrainPauses, NoCalls, loopVars, streamVars,
     toolVars, signalVars
<1>10. CASE Drain \/ Join
  BY <1>t, <1>10 DEF Drain, Join, Goto, Aborted, Ended, loopVars, streamVars, toolVars,
     signalVars
<1>11. CASE Drained
  BY <1>t, <1>11 DEF Drained, Goto, Interrupt, NoCalls, Unanswered, loopVars, streamVars,
     toolVars, signalVars
<1>12. CASE Settle
  BY <1>t, <1>12 DEF Settle, Goto, ForgetTurn, loopVars, streamVars, toolVars, signalVars
<1>13. CASE HostFails \/ Intervene
  BY <1>t, <1>13 DEF HostFails, Intervene, loopVars, streamVars, toolVars, signalVars
<1>14. CASE Cancel \/ Retain \/ OthersDrain
  BY <1>t, <1>14 DEF Cancel, Retain, OthersDrain, DrainPauses, loopVars, streamVars,
     toolVars, signalVars
<1>15. CASE Close
  BY <1>t, <1>15 DEF Close, Goto, NoCalls, loopVars, streamVars, toolVars, signalVars
<1>16. ASSUME NEW c \in Calls, ToolStep(c) \/ EndTool(c) \/ Answer(c)
      PROVE  CallsTyped'
  BY <1>t, <1>16 DEF ToolStep, BeginTool, CheckTool, AskTool, EndTool, Answer,
     loopVars, streamVars, toolVars, signalVars
<1>17. QED
  BY <1>0, <1>1, <1>2, <1>3, <1>4, <1>5, <1>6, <1>7, <1>8, <1>9, <1>10, <1>11, <1>12, <1>13, <1>14, <1>15, <1>16
  DEF QueryNext, EngineStep, ProviderStep

LEMMA FlagsTypedStep ==
    ASSUME QueryTypeOK, [QueryNext]_vars
    PROVE  FlagsTyped'
<1> USE DEF FlagsTyped
<1>t. FlagsTyped
  BY DEF QueryTypeOK
<1>0. CASE UNCHANGED vars
  BY <1>t, <1>0 DEF vars, queryVars, loopVars, streamVars, toolVars, signalVars
<1>1. CASE Start \/ Rerun \/ FirstNotices \/ FirstMessages
  BY <1>t, <1>1, Zenon DEF Start, Rerun, FirstNotices, FirstMessages, Goto, DrainPauses,
     IsMain, loopVars, streamVars, toolVars, signalVars
<1>2. CASE Top
  BY <1>t, <1>2, Zenon DEF Top, Goto, LimitReached, loopVars, streamVars, toolVars,
     signalVars
<1>3. CASE After
  BY <1>t, <1>3, Zenon DEF After, Goto, loopVars, streamVars, toolVars, signalVars
<1>4. CASE End
  BY <1>t, <1>4, Zenon DEF End, Goto, RunBoundary, DrainPauses, ForgetQuery, IsMain,
     loopVars, streamVars, toolVars, signalVars
<1>5. CASE Begin \/ Invoke \/ Register
  BY <1>t, <1>5, Zenon DEF Begin, Invoke, Register, Goto, Interrupt, Gaps, loopVars,
     streamVars, toolVars, signalVars
<1>6. CASE Request \/ RequestCancelled
  BY <1>t, <1>6, Zenon DEF Request, RequestCancelled, Goto, Interrupt, loopVars,
     streamVars, toolVars, signalVars
<1>7. CASE StreamEvent \/ StreamCancelled
  BY <1>t, <1>7, Zenon DEF StreamEvent, StreamCancelled, Goto, EndStream, loopVars,
     streamVars, toolVars, signalVars
<1>8. CASE Record
  <2>1. UNCHANGED <<text, denial, retaining, flag, woken>>
    BY RecordDoes, <1>8
  <2>2. asked' \in BOOLEAN
    <3>1. asked' = asked \/ asked' = TRUE \/ asked' = FALSE
      BY <1>8 DEF Record
    <3>2. QED
      BY <1>t, <3>1, Zenon
  <2>3. broken' \in BOOLEAN
    BY <1>t, <1>8, Zenon DEF Record
  <2>4. QED
    BY <1>t, <2>1, <2>2, <2>3
<1>9. CASE Cleanup \/ Abort
  BY <1>t, <1>9, Zenon DEF Cleanup, Abort, Goto, DrainPauses, NoCalls, loopVars,
     streamVars, toolVars, signalVars
<1>10. CASE Drain \/ Join
  BY <1>t, <1>10, Zenon DEF Drain, Join, Goto, Aborted, Ended, loopVars, streamVars,
     toolVars, signalVars
<1>11. CASE Drained
  BY <1>t, <1>11, Zenon DEF Drained, Goto, Interrupt, NoCalls, Unanswered, loopVars,
     streamVars, toolVars, signalVars
<1>12. CASE Settle
  BY <1>t, <1>12, Zenon DEF Settle, Goto, ForgetTurn, loopVars, streamVars, toolVars,
     signalVars
<1>13. CASE HostFails \/ Intervene
  BY <1>t, <1>13, Zenon DEF HostFails, Intervene, loopVars, streamVars, toolVars,
     signalVars
<1>14. CASE Cancel \/ Retain \/ OthersDrain
  <2>1. UNCHANGED <<text, asked, denial, broken>>
    BY <1>14 DEF Cancel, Retain, OthersDrain, loopVars, streamVars, toolVars, signalVars
  <2>2. flag' \in BOOLEAN /\ retaining' \in BOOLEAN
    BY <1>t, <1>14, Zenon DEF Cancel, Retain, OthersDrain, signalVars
  <2>3. woken' \in BOOLEAN
    <3>1. CASE Cancel
      <4>1. CASE pc \in Waits
        BY <3>1, <4>1 DEF Cancel
      <4>2. CASE pc \notin Waits
        BY <3>1, <4>2 DEF Cancel
      <4>3. QED
        BY <4>1, <4>2
    <3>2. CASE Retain \/ OthersDrain
      BY <1>t, <3>2 DEF Retain, OthersDrain, signalVars
    <3>3. QED
      BY <1>14, <3>1, <3>2
  <2>4. QED
    BY <1>t, <2>1, <2>2, <2>3
<1>15. CASE Close
  BY <1>t, <1>15, Zenon DEF Close, Goto, NoCalls, loopVars, streamVars, toolVars,
     signalVars
<1>16. ASSUME NEW c \in Calls, ToolStep(c) \/ EndTool(c) \/ Answer(c)
      PROVE  FlagsTyped'
  BY <1>t, <1>16, Zenon DEF ToolStep, BeginTool, CheckTool, AskTool, EndTool, Answer,
     loopVars, streamVars, toolVars, signalVars
<1>17. QED
  BY <1>0, <1>1, <1>2, <1>3, <1>4, <1>5, <1>6, <1>7, <1>8, <1>9, <1>10, <1>11, <1>12, <1>13, <1>14, <1>15, <1>16
  DEF QueryNext, EngineStep, ProviderStep

-----------------------------------------------------------------------------
(* The parts of the invariant: one step for each group of actions.          *)
LEMMA ToolStays ==
    ASSUME QueryTypeOK, ToolInv, [QueryNext]_vars
    PROVE  ToolInv'
<1> USE ReleasedCalls DEF ToolInv, ToolsAreRecorded, LiveCalls, Live, TurnSteps, Draining, ToolStates, Gaps, Waits
<1>t. CallsTyped
  BY DEF QueryTypeOK
<1>0. CASE UNCHANGED vars
  BY <1>t, <1>0 DEF vars, queryVars, loopVars, streamVars, toolVars, signalVars
<1>1. CASE Start \/ Rerun \/ FirstNotices \/ FirstMessages
  BY <1>t, <1>1 DEF Start, Rerun, FirstNotices, FirstMessages, Goto, DrainPauses, IsMain,
     loopVars, streamVars, toolVars, signalVars, CallsTyped
<1>2. CASE Top
  BY <1>t, <1>2 DEF Top, Goto, LimitReached, loopVars, streamVars, toolVars, signalVars
<1>3. CASE After
  BY <1>t, <1>3 DEF After, Goto, loopVars, streamVars, toolVars, signalVars
<1>4. CASE End
  BY <1>t, <1>4 DEF End, Goto, RunBoundary, DrainPauses, ForgetQuery, IsMain, loopVars,
     streamVars, toolVars, signalVars, CallsTyped
<1>5. CASE Begin \/ Invoke \/ Register
  BY <1>t, <1>5 DEF Begin, Invoke, Register, Goto, Interrupt, Gaps, loopVars, streamVars,
     toolVars, signalVars
<1>6. CASE Request \/ RequestCancelled
  BY <1>t, <1>6 DEF Request, RequestCancelled, Goto, Interrupt, loopVars, streamVars,
     toolVars, signalVars
<1>7. CASE StreamEvent \/ StreamCancelled
  BY <1>t, <1>7 DEF StreamEvent, StreamCancelled, Goto, EndStream, loopVars, streamVars,
     toolVars, signalVars
<1>8. CASE Record
  BY <1>t, RecordDoes, <1>8 DEF EndStream, Goto, Rejects, CallsTyped
<1>9. CASE Cleanup \/ Abort
  BY <1>t, <1>9 DEF Cleanup, Abort, Goto, DrainPauses, NoCalls, loopVars, streamVars,
     toolVars, signalVars, CallsTyped
<1>10. CASE Drain \/ Join
  BY <1>t, <1>10 DEF Drain, Join, Goto, Aborted, Ended, loopVars, streamVars, toolVars,
     signalVars, CallsTyped
<1>11. CASE Drained
  BY <1>t, <1>11 DEF Drained, Goto, Interrupt, NoCalls, Unanswered, loopVars, streamVars,
     toolVars, signalVars
<1>12. CASE Settle
  BY <1>t, <1>12 DEF Settle, Goto, ForgetTurn, loopVars, streamVars, toolVars, signalVars
<1>13. CASE HostFails \/ Intervene
  BY <1>t, <1>13 DEF HostFails, Intervene, loopVars, streamVars, toolVars, signalVars
<1>14. CASE Cancel \/ Retain \/ OthersDrain
  BY <1>t, <1>14 DEF Cancel, Retain, OthersDrain, DrainPauses, loopVars, streamVars,
     toolVars, signalVars, CallsTyped
<1>15. CASE Close
  BY <1>t, <1>15 DEF Close, Goto, NoCalls, loopVars, streamVars, toolVars, signalVars
<1>16. ASSUME NEW c \in Calls, ToolStep(c) \/ EndTool(c) \/ Answer(c)
      PROVE  ToolInv'
  BY <1>t, <1>16 DEF ToolStep, BeginTool, CheckTool, AskTool, EndTool, Answer, CallsTyped,
     loopVars, streamVars, toolVars, signalVars
<1>17. QED
  BY <1>0, <1>1, <1>2, <1>3, <1>4, <1>5, <1>6, <1>7, <1>8, <1>9, <1>10, <1>11, <1>12, <1>13, <1>14, <1>15, <1>16
  DEF QueryNext, EngineStep, ProviderStep

LEMMA TurnStays ==
    ASSUME QueryTypeOK, TurnInv, [QueryNext]_vars
    PROVE  TurnInv'
<1> USE QueryAssumption DEF TurnInv, Between, Asking, TurnSteps, Gaps, Waits
<1>t. StepsTyped
  BY DEF QueryTypeOK
<1>0. CASE UNCHANGED vars
  BY <1>t, <1>0 DEF vars, queryVars, loopVars, streamVars, toolVars, signalVars
<1>1. CASE Start \/ Rerun \/ FirstNotices \/ FirstMessages
  BY <1>t, <1>1 DEF Start, Rerun, FirstNotices, FirstMessages, Goto, DrainPauses, IsMain,
     loopVars, streamVars, toolVars, signalVars
<1>2. CASE Top
  BY <1>t, <1>2 DEF Top, Goto, LimitReached, loopVars, streamVars, toolVars, signalVars,
     StepsTyped
<1>3. CASE After
  BY <1>t, <1>3 DEF After, Goto, loopVars, streamVars, toolVars, signalVars, StepsTyped
<1>4. CASE End
  BY <1>t, <1>4 DEF End, Goto, RunBoundary, DrainPauses, ForgetQuery, IsMain, loopVars,
     streamVars, toolVars, signalVars, StepsTyped
<1>5. CASE Begin \/ Invoke \/ Register
  BY <1>t, <1>5 DEF Begin, Invoke, Register, Goto, Interrupt, Gaps, loopVars, streamVars,
     toolVars, signalVars
<1>6. CASE Request \/ RequestCancelled
  BY <1>t, <1>6 DEF Request, RequestCancelled, Goto, Interrupt, loopVars, streamVars,
     toolVars, signalVars
<1>7. CASE StreamEvent \/ StreamCancelled
  BY <1>t, <1>7 DEF StreamEvent, StreamCancelled, Goto, EndStream, loopVars, streamVars,
     toolVars, signalVars
<1>8. CASE Record
  BY <1>t, RecordDoes, <1>8 DEF EndStream, Goto, Rejects, StepsTyped
<1>9. CASE Cleanup \/ Abort
  BY <1>t, <1>9 DEF Cleanup, Abort, Goto, DrainPauses, NoCalls, loopVars, streamVars,
     toolVars, signalVars
<1>10. CASE Drain \/ Join
  BY <1>t, <1>10 DEF Drain, Join, Goto, Aborted, Ended, loopVars, streamVars, toolVars,
     signalVars
<1>11. CASE Drained
  BY <1>t, <1>11 DEF Drained, Goto, Interrupt, NoCalls, Unanswered, loopVars, streamVars,
     toolVars, signalVars
<1>12. CASE Settle
  BY <1>t, <1>12 DEF Settle, Goto, ForgetTurn, loopVars, streamVars, toolVars, signalVars,
     StepsTyped
<1>13. CASE HostFails \/ Intervene
  BY <1>t, <1>13 DEF HostFails, Intervene, loopVars, streamVars, toolVars, signalVars
<1>14. CASE Cancel \/ Retain \/ OthersDrain
  BY <1>t, <1>14 DEF Cancel, Retain, OthersDrain, DrainPauses, loopVars, streamVars,
     toolVars, signalVars
<1>15. CASE Close
  BY <1>t, <1>15 DEF Close, Goto, NoCalls, loopVars, streamVars, toolVars, signalVars
<1>16. ASSUME NEW c \in Calls, ToolStep(c) \/ EndTool(c) \/ Answer(c)
      PROVE  TurnInv'
  BY <1>t, <1>16 DEF ToolStep, BeginTool, CheckTool, AskTool, EndTool, Answer,
     loopVars, streamVars, toolVars, signalVars
<1>17. QED
  BY <1>0, <1>1, <1>2, <1>3, <1>4, <1>5, <1>6, <1>7, <1>8, <1>9, <1>10, <1>11, <1>12, <1>13, <1>14, <1>15, <1>16
  DEF QueryNext, EngineStep, ProviderStep

LEMMA PauseStays ==
    ASSUME QueryTypeOK, ToolInv, PauseInv, [QueryNext]_vars
    PROVE  PauseInv'
<1> USE DEF PauseInv, Between, Gaps
<1>t. pc \notin TurnSteps => \A c \in Calls : tool[c] = "none"
  BY DEF ToolInv
<1>0. CASE UNCHANGED vars
  BY <1>t, <1>0 DEF vars, queryVars, loopVars, streamVars, toolVars, signalVars
<1>1. CASE Start \/ Rerun \/ FirstNotices \/ FirstMessages
  BY <1>t, <1>1 DEF Start, Rerun, FirstNotices, FirstMessages, Goto, DrainPauses, IsMain,
     loopVars, streamVars, toolVars, signalVars
<1>2. CASE Top
  BY <1>t, <1>2 DEF Top, Goto, LimitReached, loopVars, streamVars, toolVars, signalVars
<1>3. CASE After
  BY <1>t, <1>3 DEF After, Goto, loopVars, streamVars, toolVars, signalVars
<1>4. CASE End
  BY <1>t, <1>4 DEF End, Goto, RunBoundary, DrainPauses, ForgetQuery, IsMain, loopVars,
     streamVars, toolVars, signalVars
<1>5. CASE Begin \/ Invoke \/ Register
  BY <1>t, <1>5 DEF Begin, Invoke, Register, Goto, Interrupt, Gaps, loopVars, streamVars,
     toolVars, signalVars
<1>6. CASE Request \/ RequestCancelled
  BY <1>t, <1>6 DEF Request, RequestCancelled, Goto, Interrupt, loopVars, streamVars,
     toolVars, signalVars
<1>7. CASE StreamEvent \/ StreamCancelled
  BY <1>t, <1>7 DEF StreamEvent, StreamCancelled, Goto, EndStream, loopVars, streamVars,
     toolVars, signalVars
<1>8. CASE Record
  BY <1>t, <1>8 DEF Record, Goto, EndStream, Acknowledged, Rejects, loopVars, streamVars,
     toolVars, signalVars
<1>9. CASE Cleanup \/ Abort
  BY <1>t, <1>9 DEF Cleanup, Abort, Goto, DrainPauses, NoCalls, loopVars, streamVars,
     toolVars, signalVars
<1>10. CASE Drain \/ Join
  BY <1>t, <1>10 DEF Drain, Join, Goto, Aborted, Ended, loopVars, streamVars, toolVars,
     signalVars
<1>11. CASE Drained
  BY <1>t, <1>11 DEF Drained, Goto, Interrupt, NoCalls, Unanswered, loopVars, streamVars,
     toolVars, signalVars
<1>12. CASE Settle
  BY <1>t, <1>12 DEF Settle, Goto, ForgetTurn, loopVars, streamVars, toolVars, signalVars
<1>13. CASE HostFails \/ Intervene
  BY <1>t, <1>13 DEF HostFails, Intervene, loopVars, streamVars, toolVars, signalVars
<1>14. CASE Cancel \/ Retain \/ OthersDrain
  BY <1>t, <1>14 DEF Cancel, Retain, OthersDrain, DrainPauses, loopVars, streamVars,
     toolVars, signalVars
<1>15. CASE Close
  BY <1>t, <1>15 DEF Close, Goto, NoCalls, loopVars, streamVars, toolVars, signalVars
<1>16. ASSUME NEW c \in Calls, ToolStep(c) \/ EndTool(c) \/ Answer(c)
      PROVE  PauseInv'
  BY <1>t, <1>16 DEF ToolStep, BeginTool, CheckTool, AskTool, EndTool, Answer, TurnSteps,
     loopVars, streamVars, toolVars, signalVars
<1>17. QED
  BY <1>0, <1>1, <1>2, <1>3, <1>4, <1>5, <1>6, <1>7, <1>8, <1>9, <1>10, <1>11, <1>12, <1>13, <1>14, <1>15, <1>16
  DEF QueryNext, EngineStep, ProviderStep

LEMMA InboxStays ==
    ASSUME QueryTypeOK, InboxInv, [QueryNext]_vars
    PROVE  InboxInv'
<1> USE DEF InboxInv, IsMain, Gaps, Waits
<1>0. CASE UNCHANGED vars
  BY <1>0 DEF vars, queryVars, loopVars, streamVars, toolVars, signalVars
<1>1. CASE QueryNext /\ (Start \/ Rerun \/ FirstNotices \/ FirstMessages)
  BY <1>1 DEF Start, Rerun, FirstNotices, FirstMessages, Goto, DrainPauses, IsMain,
     loopVars, streamVars, toolVars, signalVars, QueryNext
<1>2. CASE QueryNext /\ Top
  BY <1>2 DEF Top, Goto, LimitReached, loopVars, streamVars, toolVars, signalVars,
     QueryNext
<1>3. CASE QueryNext /\ After
  BY <1>3 DEF After, Goto, loopVars, streamVars, toolVars, signalVars, QueryNext, MayStop,
     GoesOn, Notices
<1>4. CASE QueryNext /\ End
  BY <1>4 DEF End, Goto, RunBoundary, DrainPauses, ForgetQuery, IsMain, loopVars,
     streamVars, toolVars, signalVars, QueryNext
<1>5. CASE QueryNext /\ (Begin \/ Invoke \/ Register)
  BY <1>5 DEF Begin, Invoke, Register, Goto, Interrupt, Gaps, loopVars, streamVars,
     toolVars, signalVars, QueryNext
<1>6. CASE QueryNext /\ (Request \/ RequestCancelled)
  BY <1>6 DEF Request, RequestCancelled, Goto, Interrupt, loopVars, streamVars, toolVars,
     signalVars, QueryNext
<1>7. CASE QueryNext /\ (StreamEvent \/ StreamCancelled)
  BY <1>7 DEF StreamEvent, StreamCancelled, Goto, EndStream, loopVars, streamVars,
     toolVars, signalVars, QueryNext
<1>8. CASE QueryNext /\ Record
  BY <1>8 DEF Record, Goto, EndStream, Acknowledged, Rejects, loopVars, streamVars,
     toolVars, signalVars, QueryNext
<1>9. CASE QueryNext /\ (Cleanup \/ Abort)
  BY <1>9 DEF Cleanup, Abort, Goto, DrainPauses, NoCalls, loopVars, streamVars, toolVars,
     signalVars, QueryNext
<1>10. CASE QueryNext /\ (Drain \/ Join)
  BY <1>10 DEF Drain, Join, Goto, Aborted, Ended, loopVars, streamVars, toolVars,
     signalVars, QueryNext
<1>11. CASE QueryNext /\ Drained
  BY <1>11 DEF Drained, Goto, Interrupt, NoCalls, Unanswered, loopVars, streamVars,
     toolVars, signalVars, QueryNext
<1>12. CASE QueryNext /\ Settle
  BY <1>12 DEF Settle, Goto, ForgetTurn, loopVars, streamVars, toolVars, signalVars,
     QueryNext, StepsTyped
<1>13. CASE QueryNext /\ (HostFails \/ Intervene)
  BY <1>13 DEF HostFails, Intervene, loopVars, streamVars, toolVars, signalVars, QueryNext,
     Awaiting
<1>14. CASE QueryNext /\ (Cancel \/ Retain \/ OthersDrain)
  BY <1>14 DEF Cancel, Retain, OthersDrain, DrainPauses, loopVars, streamVars, toolVars,
     signalVars, QueryNext
<1>15. CASE QueryNext /\ Close
  BY <1>15 DEF Close, Goto, NoCalls, loopVars, streamVars, toolVars, signalVars, QueryNext
<1>16. ASSUME NEW c \in Calls, QueryNext, ToolStep(c) \/ EndTool(c) \/ Answer(c)
      PROVE  InboxInv'
  BY <1>16 DEF ToolStep, BeginTool, CheckTool, AskTool, EndTool, Answer, QueryNext,
     loopVars, streamVars, toolVars, signalVars
<1>17. QED
  BY <1>0, <1>1, <1>2, <1>3, <1>4, <1>5, <1>6, <1>7, <1>8, <1>9, <1>10, <1>11, <1>12, <1>13, <1>14, <1>15, <1>16
  DEF QueryNext, EngineStep, ProviderStep

LEMMA PairStays ==
    ASSUME "ToolPanics" \notin Events, QueryTypeOK, ToolInv, PairInv, [QueryNext]_vars
    PROVE  PairInv'
<1> USE ReleasedCalls DEF PairInv, Draining, Gaps, Waits
<1>t. CallsTyped /\ ToolInv
  BY DEF QueryTypeOK
<1>0. CASE UNCHANGED vars
  BY <1>t, <1>0 DEF vars, queryVars, loopVars, streamVars, toolVars, signalVars
<1>1. CASE Start \/ Rerun \/ FirstNotices \/ FirstMessages
  BY <1>t, <1>1 DEF Start, Rerun, FirstNotices, FirstMessages, Goto, DrainPauses, IsMain,
     loopVars, streamVars, toolVars, signalVars, ToolInv, TurnSteps, CallsTyped
<1>2. CASE Top
  BY <1>t, <1>2 DEF Top, Goto, LimitReached, loopVars, streamVars, toolVars, signalVars
<1>3. CASE After
  BY <1>t, <1>3 DEF After, Goto, loopVars, streamVars, toolVars, signalVars
<1>4. CASE End
  BY <1>t, <1>4 DEF End, Goto, RunBoundary, DrainPauses, ForgetQuery, IsMain, loopVars,
     streamVars, toolVars, signalVars, ToolInv, TurnSteps, CallsTyped
<1>5. CASE Begin \/ Invoke \/ Register
  BY <1>t, <1>5 DEF Begin, Invoke, Register, Goto, Interrupt, Gaps, loopVars, streamVars,
     toolVars, signalVars
<1>6. CASE Request \/ RequestCancelled
  BY <1>t, <1>6 DEF Request, RequestCancelled, Goto, Interrupt, loopVars, streamVars,
     toolVars, signalVars, ToolInv, TurnSteps, CallsTyped
<1>7. CASE StreamEvent \/ StreamCancelled
  BY <1>t, <1>7 DEF StreamEvent, StreamCancelled, Goto, EndStream, loopVars, streamVars,
     toolVars, signalVars
<1>8. CASE Record
  BY <1>t, RecordDoes, <1>8 DEF EndStream, Goto, CallsTyped
<1>9. CASE Cleanup \/ Abort
  BY <1>t, <1>9 DEF Cleanup, Abort, Goto, DrainPauses, NoCalls, loopVars, streamVars,
     toolVars, signalVars, ToolInv, TurnSteps, CallsTyped
<1>10. CASE Drain \/ Join
  BY <1>t, <1>10 DEF Drain, Join, Goto, Aborted, Ended, loopVars, streamVars, toolVars,
     signalVars, ToolInv, TurnSteps, CallsTyped
<1>11. CASE Drained
  BY <1>t, <1>11 DEF Drained, Goto, Interrupt, NoCalls, Unanswered, loopVars, streamVars,
     toolVars, signalVars, CallsTyped, ToolStates, LiveCalls, Live
<1>12. CASE Settle
  BY <1>t, <1>12 DEF Settle, Goto, ForgetTurn, loopVars, streamVars, toolVars, signalVars
<1>13. CASE HostFails \/ Intervene
  BY <1>t, <1>13 DEF HostFails, Intervene, loopVars, streamVars, toolVars, signalVars
<1>14. CASE Cancel \/ Retain \/ OthersDrain
  BY <1>t, <1>14 DEF Cancel, Retain, OthersDrain, DrainPauses, loopVars, streamVars,
     toolVars, signalVars, ToolInv, TurnSteps, CallsTyped
<1>15. CASE Close
  BY <1>t, <1>15 DEF Close, Goto, NoCalls, loopVars, streamVars, toolVars, signalVars
<1>16. ASSUME NEW c \in Calls, ToolStep(c) \/ EndTool(c) \/ Answer(c)
      PROVE  PairInv'
  BY <1>t, <1>16 DEF ToolStep, BeginTool, CheckTool, AskTool, EndTool, Answer, CallsTyped,
     loopVars, streamVars, toolVars, signalVars
<1>17. QED
  BY <1>0, <1>1, <1>2, <1>3, <1>4, <1>5, <1>6, <1>7, <1>8, <1>9, <1>10, <1>11, <1>12, <1>13, <1>14, <1>15, <1>16
  DEF QueryNext, EngineStep, ProviderStep

-----------------------------------------------------------------------------
LEMMA QueryInvStart == QueryInit => QueryInv
<1> SUFFICES ASSUME QueryInit
             PROVE  QueryInv
  OBVIOUS
<1>1. StepsTyped /\ CallsTyped
  BY QueryAssumption DEF QueryInit, StepsTyped, CallsTyped, Steps, NoCalls, ToolStates
<1>2. FlagsTyped
  BY Zenon DEF QueryInit, FlagsTyped
<1>3. ToolInv /\ TurnInv
  BY QueryAssumption DEF QueryInit, ToolInv, TurnInv, ToolsAreRecorded, LiveCalls, Live, NoCalls,
     TurnSteps, Draining, Between, Asking
<1>4. PauseInv /\ PairInv /\ InboxInv
  BY DEF QueryInit, PauseInv, PairInv, InboxInv, NoCalls, Draining
<1>5. QED
  BY <1>1, <1>2, <1>3, <1>4 DEF QueryInv, QueryTypeOK

LEMMA QueryInvStep == QueryInv /\ [QueryNext]_vars => QueryInv'
<1> SUFFICES ASSUME QueryInv, [QueryNext]_vars
             PROVE  QueryInv'
  OBVIOUS
<1>1. QueryTypeOK'
  BY StepsTypedStep, CallsTypedStep, FlagsTypedStep DEF QueryInv, QueryTypeOK
<1>2. ToolInv' /\ TurnInv' /\ PauseInv' /\ InboxInv'
  BY ToolStays, TurnStays, PauseStays, InboxStays DEF QueryInv
<1>3. "ToolPanics" \notin Events => PairInv'
  BY PairStays DEF QueryInv
<1>4. QED
  BY <1>1, <1>2, <1>3 DEF QueryInv

LEMMA QueryInvHolds == QuerySafety => []QueryInv
BY QueryInvStart, QueryInvStep, PTL DEF QuerySafety

(* Every variable of the query keeps to its type: among them, a query makes *)
(* no more than one turn beyond its limit.                                  *)
THEOREM QueryTypeCorrect == QuerySafety => []QueryTypeOK
<1>1. QueryInv => QueryTypeOK
  BY DEF QueryInv
<1>2. QED
  BY QueryInvHolds, <1>1, PTL

(* The provider is never asked with a tool call left open, if no tool       *)
(* panics (align_results and reconcile_cancelled, tool.rs).                 *)
THEOREM RequestsStayPaired == QuerySafety => []("ToolPanics" \notin Events => RequestsArePaired)
<1>1. QueryInv => ("ToolPanics" \notin Events => RequestsArePaired)
  BY DEF QueryInv, PairInv, RequestsArePaired, Draining
<1>2. QED
  BY QueryInvHolds, <1>1, PTL

(* A query leaves no task and no pause behind, however it ends              *)
(* (drain_pending_tool_pauses at the boundaries, drain_tasks).              *)
THEOREM QueriesLeaveNothing == QuerySafety => []NothingOutlivesQuery
<1>1. QueryInv => NothingOutlivesQuery
  BY DEF QueryInv, ToolInv, PauseInv, NothingOutlivesQuery, LiveCalls, Live, Between, TurnSteps
<1>2. QED
  BY QueryInvHolds, <1>1, PTL

(* No tool runs before the host has acknowledged its record (commit_events).*)
THEOREM RunningIsRecorded == QuerySafety => []ToolsAreRecorded
<1>1. QueryInv => ToolsAreRecorded
  BY DEF QueryInv, ToolInv
<1>2. QED
  BY QueryInvHolds, <1>1, PTL

(* The turn beyond the limit sums up and starts no tool (rejection_reason). *)
THEOREM LimitIsFinal == QuerySafety => []LastTurnIsFinal
<1>1. QueryInv => LastTurnIsFinal
  BY DEF QueryInv, ToolInv, TurnInv, LastTurnIsFinal, Waits, Asking, TurnSteps
<1>2. QED
  BY QueryInvHolds, <1>1, PTL

(* A main query that ends of itself leaves no accepted message behind       *)
(* (run_query, enqueue).                                                    *)
THEOREM AcceptedIsInjected == QuerySafety => MessagesAreInjected
<1>1. QueryInv /\ [QueryNext]_vars =>
        [pc = "end" /\ pc' # "end" /\ IsMain /\ finish \in {"stop", "tool"} /\ final = "none"
         => inbox = 0]_vars
  BY DEF QueryInv, InboxInv
<1>2. QED
  BY QueryInvHolds, <1>1, PTL DEF QuerySafety, MessagesAreInjected
=============================================================================
