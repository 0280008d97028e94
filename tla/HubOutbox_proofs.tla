-------------------------- MODULE HubOutbox_proofs --------------------------
(***************************************************************************)
(* Theorems about HubOutbox, for any events, retry limit and bounds: type  *)
(* correctness, the bound on sends, that no waiting row is forgotten, and  *)
(* that the outbox implements HubMirror.                                   *)
(***************************************************************************)
EXTENDS HubOutbox, FiniteSetTheorems, TLAPS

InFlightSteps == {"sending", "confirming", "rejecting", "counting", "catching"}
InFlight(e) == drain.row = e /\ drain.pc \in InFlightSteps

-----------------------------------------------------------------------------
(* Lemmas about the drain's local state.                                   *)

\* What the type of the drain says of its fields.
LEMMA DrainFields ==
  ASSUME drain \in DrainType
  PROVE  /\ drain.pc \in DrainSteps
         /\ drain.pc = "idle" => drain = IdleDrain
         /\ drain.pc # "idle" => /\ drain.row \in Events
                                 /\ drain.plan \in SUBSET Events
                                 /\ drain.count \in 0..(MaxRetries - 1)
BY DEF DrainType, IdleDrain, DrainSteps

\* A drain that is under way may move on to another step.
LEMMA DrainMoves ==
  ASSUME drain \in DrainType, drain.pc # "idle",
         NEW step \in DrainSteps \ {"idle"}, drain' = [drain EXCEPT !.pc = step]
  PROVE  /\ (drain \in DrainType)'
         /\ drain'.pc = step
         /\ drain'.row = drain.row
         /\ drain'.plan = drain.plan
         /\ drain'.count = drain.count
BY DEF DrainType, IdleDrain, DrainSteps

\* After the loop head the drain is idle or reads a row of its list.
LEMMA ContinueEffect ==
  ASSUME NEW plan \in SUBSET Events, Continue(plan)
  PROVE  /\ (drain \in DrainType)'
         /\ drain'.pc \in {"idle", "reading"}
         /\ drain'.pc = "idle" => drain' = IdleDrain
         /\ drain'.pc = "reading" => /\ drain'.row \in plan
                                     /\ drain'.plan = plan \ {drain'.row}
<1>1. CASE drain' = IdleDrain
  BY <1>1 DEF DrainType, IdleDrain
<1>2. CASE \E e \in plan :
             drain' = [pc |-> "reading", row |-> e, plan |-> plan \ {e}, count |-> 0]
  <2>1. 0 \in 0..(MaxRetries - 1)
    BY OutboxAssumption
  <2>2. QED BY <1>2, <2>1 DEF DrainType, DrainSteps
<1>3. QED BY <1>1, <1>2 DEF Continue

-----------------------------------------------------------------------------
(* Type correctness.                                                       *)

\* The number of rows is a natural number.
LEMMA RowsFinite == Cardinality({f \in Events : seq[f] > 0}) \in Nat
<1>1. IsFiniteSet({f \in Events : seq[f] > 0})
  BY OutboxAssumption, FS_Subset
<1>2. QED BY <1>1, FS_CardinalityType

LEMMA TypeInit == Init => TypeOK
BY OutboxAssumption DEF Init, TypeOK, AppendSteps, DrainType

LEMMA TypeStep == TypeOK /\ [Next]_vars => TypeOK'
<1> SUFFICES ASSUME TypeOK, [Next]_vars PROVE TypeOK'
  OBVIOUS
<1> USE OutboxAssumption DEF TypeOK
<1>0. /\ drain.pc = "idle" => drain = IdleDrain
      /\ drain.pc # "idle" => /\ drain.row \in Events
                              /\ drain.plan \in SUBSET Events
                              /\ drain.count \in 0..(MaxRetries - 1)
  BY DrainFields
<1>1. ASSUME NEW e \in Events, Append(e) PROVE TypeOK'
  BY <1>1 DEF Append, table, hub, AppendSteps
<1>2. ASSUME NEW e \in Events, DirectAnswer(e) PROVE TypeOK'
  BY <1>2 DEF DirectAnswer, AnswerOk, AnswerError, AnswerNever, table, hub, AppendSteps
<1>3. ASSUME NEW e \in Events, InsertRow(e) PROVE TypeOK'
  BY <1>3, RowsFinite DEF InsertRow, Fault, hub, AppendSteps
<1>4. ASSUME NEW e \in Events, OwnRow(e) PROVE TypeOK'
  <2>1. (drain \in DrainType)'
    <3>1. CASE drain = IdleDrain
      BY <1>4, <3>1, ContinueEffect DEF OwnRow
    <3>2. CASE drain # IdleDrain
      BY <1>4, <3>2 DEF OwnRow
    <3>3. QED BY <3>1, <3>2
  <2>2. QED BY <1>4, <2>1 DEF OwnRow, table, hub, AppendSteps
<1>5. ASSUME NEW e \in Events, Dismiss(e) PROVE TypeOK'
  BY <1>5 DEF Dismiss, hub
<1>6. ASSUME NEW e \in Events, LateArrival(e) PROVE TypeOK'
  BY <1>6 DEF LateArrival, table
<1>7. CASE TimerDrain
  BY <1>7, ContinueEffect DEF TimerDrain, table, hub
<1>8. CASE ReadRow
  <2>0. drain.row \in Events /\ drain.plan \in SUBSET Events
    BY <1>0, <1>8 DEF ReadRow
  <2>1. (drain \in DrainType)'
    <3>1. CASE Continue(drain.plan)
      BY <2>0, <3>1, ContinueEffect
    <3>2. CASE /\ ~Settled(drain.row)
               /\ drain' = [drain EXCEPT !.pc = "sending", !.count = attempts[drain.row]]
      <4>1. attempts[drain.row] \in 0..(MaxRetries - 1)
        BY <2>0, <3>2 DEF Settled
      <4>2. QED BY <1>8, <2>0, <3>2, <4>1 DEF ReadRow, DrainType, IdleDrain, DrainSteps
    <3>3. CASE drain' = IdleDrain
      BY <3>3 DEF DrainType
    <3>4. QED BY <1>8, <3>1, <3>2, <3>3 DEF ReadRow
  <2>2. QED BY <1>8, <2>0, <2>1 DEF ReadRow, Fault, table, hub
<1>9. CASE DrainAnswer
  <2>1. drain.row \in Events
    BY <1>0, <1>9 DEF DrainAnswer
  <2>2. (drain \in DrainType)'
    BY <1>9, DrainMoves DEF DrainAnswer, DrainSteps
  <2>3. QED BY <1>9, <2>1, <2>2
        DEF DrainAnswer, AnswerOk, AnswerError, AnswerNever, table, hub
<1>10. CASE ConfirmRow
  <2>1. drain.row \in Events /\ drain.plan \in SUBSET Events
    BY <1>0, <1>10 DEF ConfirmRow
  <2>2. (drain \in DrainType)'
    BY <1>10, <2>1, ContinueEffect, DrainMoves DEF ConfirmRow, DrainSteps
  <2>3. QED BY <1>10, <2>1, <2>2 DEF ConfirmRow, Fault, hub
<1>11. CASE RejectRow
  <2>1. /\ drain.row \in Events /\ drain.plan \in SUBSET Events
        /\ drain.count \in 0..(MaxRetries - 1)
    BY <1>0, <1>11 DEF RejectRow
  <2>2. (drain \in DrainType)'
    BY <1>11, <2>1, ContinueEffect, DrainMoves DEF RejectRow, DrainSteps
  <2>3. QED BY <1>11, <2>1, <2>2 DEF RejectRow, Fault, hub
<1>12. CASE CountAttempt
  <2>1. drain.row \in Events /\ drain.count \in 0..(MaxRetries - 1) /\ drain.pc # "idle"
    BY <1>0, <1>12 DEF CountAttempt
  <2>2. (drain \in DrainType)'
    <3>1. CASE drain' = IdleDrain
      BY <3>1 DEF DrainType
    <3>2. CASE drain' = [drain EXCEPT !.pc = "sleeping"]
      BY <2>1, <3>2, DrainMoves DEF DrainSteps
    <3>3. CASE drain' = [drain EXCEPT !.pc = "catching"]
      BY <2>1, <3>3, DrainMoves DEF DrainSteps
    <3>4. QED BY <1>12, <3>1, <3>2, <3>3 DEF CountAttempt
  <2>3. QED BY <1>12, <2>1, <2>2 DEF CountAttempt, Fault, hub
<1>13. CASE WakeUp
  BY <1>0, <1>13, ContinueEffect DEF WakeUp, table, hub
<1>14. CASE OtherCall
  BY <1>14 DEF OtherCall, table, hub
<1>15. CASE Restart
  BY <1>15 DEF Restart, Underway, table, AppendSteps, DrainType
<1>16. CASE UNCHANGED vars
  BY <1>16 DEF vars, table, hub
<1>17. QED
  BY <1>1, <1>2, <1>3, <1>4, <1>5, <1>6, <1>7, <1>8, <1>9, <1>10, <1>11, <1>12, <1>13,
     <1>14, <1>15, <1>16 DEF Next, AppendStep, DrainStep

\* Every reachable state is well typed: attempts stay within maxRetries.
THEOREM TypeCorrect == Spec => []TypeOK
BY TypeInit, TypeStep, PTL DEF Spec

-----------------------------------------------------------------------------
(* The shape of the state: which rows exist, which the drain may touch.    *)

RowsSound ==
  \A e \in Events :
    /\ seq[e] > 0 <=> pc[e] \in {"owning", "queued", "stranded"}
    /\ e \in flushed => seq[e] > 0
    /\ e \in owned => pc[e] = "queued"
    /\ e \in late => pc[e] # "new"

\* A row on the drain's list is owned, or has been dismissed since.
DrainSound ==
  drain.pc # "idle" =>
    /\ drain.row \notin drain.plan
    /\ \A e \in drain.plan \cup {drain.row} : e \in owned \cup flushed /\ pc[e] = "queued"
    /\ drain.pc \in InFlightSteps => attempts[drain.row] = drain.count
    /\ drain.pc = "confirming" => drain.row \in arrived

Shape == TypeOK /\ RowsSound /\ DrainSound

LEMMA ShapeInit == Init => Shape
BY TypeInit DEF Init, Shape, RowsSound, DrainSound, IdleDrain

\* The loop head keeps DrainSound when the rows of its list are sound.
LEMMA ContinueSound ==
  ASSUME NEW plan \in SUBSET Events, Continue(plan),
         \A e \in plan : e \in owned' \cup flushed' /\ pc'[e] = "queued"
  PROVE  DrainSound'
BY ContinueEffect DEF DrainSound, InFlightSteps

LEMMA ShapeStep == Shape /\ [Next]_vars => Shape'
<1> SUFFICES ASSUME Shape, [Next]_vars PROVE RowsSound' /\ DrainSound'
  BY TypeStep DEF Shape
<1> USE OutboxAssumption DEF Shape, TypeOK
<1>0. /\ drain.pc = "idle" => drain = IdleDrain
      /\ drain.pc # "idle" => /\ drain.row \in Events
                              /\ drain.plan \in SUBSET Events
                              /\ drain.count \in 0..(MaxRetries - 1)
  BY DrainFields
<1>1. ASSUME NEW e \in Events, Append(e) PROVE RowsSound' /\ DrainSound'
  BY <1>0, <1>1 DEF Append, table, hub, AppendSteps, RowsSound, DrainSound
<1>2. ASSUME NEW e \in Events, DirectAnswer(e) PROVE RowsSound' /\ DrainSound'
  BY <1>0, <1>2 DEF DirectAnswer, AnswerOk, AnswerError, AnswerNever, table, hub,
                    AppendSteps, RowsSound, DrainSound
<1>3. ASSUME NEW e \in Events, InsertRow(e) PROVE RowsSound' /\ DrainSound'
  BY <1>0, <1>3, RowsFinite DEF InsertRow, Fault, hub, AppendSteps, RowsSound, DrainSound
<1>4. ASSUME NEW e \in Events, OwnRow(e) PROVE RowsSound' /\ DrainSound'
  <2>1. RowsSound'
    BY <1>4 DEF OwnRow, table, hub, AppendSteps, RowsSound
  <2>2. DrainSound'
    <3>1. CASE drain = IdleDrain
      <4>1. /\ owned \cup {e} \in SUBSET Events
            /\ \A f \in owned \cup {e} : f \in owned' \cup flushed' /\ pc'[f] = "queued"
        BY <1>4 DEF OwnRow, table, RowsSound
      <4>2. Continue(owned \cup {e})
        BY <1>4, <3>1 DEF OwnRow
      <4>3. QED BY <4>1, <4>2, ContinueSound
    <3>2. CASE drain # IdleDrain
      BY <1>0, <1>4, <3>2 DEF OwnRow, table, hub, DrainSound
    <3>3. QED BY <3>1, <3>2
  <2>3. QED BY <2>1, <2>2
<1>5. ASSUME NEW e \in Events, Dismiss(e) PROVE RowsSound' /\ DrainSound'
  BY <1>0, <1>5 DEF Dismiss, hub, RowsSound, DrainSound
<1>6. ASSUME NEW e \in Events, LateArrival(e) PROVE RowsSound' /\ DrainSound'
  BY <1>0, <1>6 DEF LateArrival, table, RowsSound, DrainSound
<1>7. CASE TimerDrain
  <2>1. /\ owned \in SUBSET Events
        /\ \A f \in owned : f \in owned' \cup flushed' /\ pc'[f] = "queued"
    BY <1>7 DEF TimerDrain, table, RowsSound
  <2>2. DrainSound'
    BY <1>7, <2>1, ContinueSound DEF TimerDrain
  <2>3. QED BY <1>7, <2>2 DEF TimerDrain, table, hub, RowsSound
<1>8. CASE ReadRow
  <2>0. drain.row \in Events /\ drain.plan \in SUBSET Events /\ drain.pc = "reading"
    BY <1>0, <1>8 DEF ReadRow
  <2>1. RowsSound'
    BY <1>8, <2>0 DEF ReadRow, table, hub, RowsSound
  <2>2. DrainSound'
    <3>1. CASE owned' = owned \ {drain.row} /\ Continue(drain.plan)
      BY <1>8, <2>0, <3>1, ContinueSound DEF ReadRow, table, DrainSound
    <3>2. CASE /\ drain' = [drain EXCEPT !.pc = "sending", !.count = attempts[drain.row]]
               /\ UNCHANGED owned
      <4>1. drain'.pc = "sending" /\ drain'.row = drain.row /\ drain'.plan = drain.plan
            /\ drain'.count = attempts[drain.row]
        BY <2>0, <3>2 DEF DrainType, IdleDrain
      <4>2. QED BY <1>8, <2>0, <3>2, <4>1 DEF ReadRow, table, hub, DrainSound
    <3>3. CASE drain' = IdleDrain
      BY <3>3 DEF DrainSound, IdleDrain
    <3>4. QED BY <1>8, <3>1, <3>2, <3>3 DEF ReadRow
  <2>3. QED BY <2>1, <2>2
<1>9. CASE DrainAnswer
  <2>0. drain.row \in Events /\ drain.plan \in SUBSET Events /\ drain.pc = "sending"
    BY <1>0, <1>9 DEF DrainAnswer
  <2>1. RowsSound'
    BY <1>9, <2>0 DEF DrainAnswer, AnswerOk, AnswerError, AnswerNever, table, hub,
                      RowsSound, DrainSound
  <2>2. /\ drain'.row = drain.row /\ drain'.plan = drain.plan /\ drain'.count = drain.count
        /\ drain'.pc \in {"confirming", "rejecting", "counting"}
        /\ drain'.pc = "confirming" => drain.row \in arrived'
    BY <1>9, <2>0, DrainMoves DEF DrainAnswer, AnswerOk, DrainSteps
  <2>3. QED BY <1>9, <2>0, <2>1, <2>2 DEF DrainAnswer, table, DrainSound, InFlightSteps
<1>10. CASE ConfirmRow
  <2>0. drain.row \in Events /\ drain.plan \in SUBSET Events /\ drain.pc = "confirming"
    BY <1>0, <1>10 DEF ConfirmRow
  <2>1. RowsSound'
    BY <1>10, <2>0 DEF ConfirmRow, hub, RowsSound, DrainSound
  <2>2. DrainSound'
    <3>1. CASE Continue(drain.plan) /\ owned' = owned \ {drain.row}
               /\ flushed' = flushed \cup {drain.row}
      BY <1>10, <2>0, <3>1, ContinueSound DEF ConfirmRow, DrainSound
    <3>2. CASE drain' = [drain EXCEPT !.pc = "catching"] /\ UNCHANGED <<owned, flushed>>
      BY <1>10, <2>0, <3>2, DrainMoves DEF ConfirmRow, hub, DrainSound, InFlightSteps, DrainSteps
    <3>3. QED BY <1>10, <3>1, <3>2 DEF ConfirmRow
  <2>3. QED BY <2>1, <2>2
<1>11. CASE RejectRow
  <2>0. drain.row \in Events /\ drain.plan \in SUBSET Events /\ drain.pc = "rejecting"
    BY <1>0, <1>11 DEF RejectRow
  <2>1. RowsSound'
    BY <1>11, <2>0 DEF RejectRow, hub, RowsSound
  <2>2. DrainSound'
    <3>1. CASE Continue(drain.plan) /\ owned' = owned \ {drain.row}
      BY <1>11, <2>0, <3>1, ContinueSound DEF RejectRow, DrainSound
    <3>2. CASE drain' = [drain EXCEPT !.pc = "catching"] /\ UNCHANGED <<owned, attempts>>
      BY <1>11, <2>0, <3>2, DrainMoves DEF RejectRow, hub, DrainSound, InFlightSteps, DrainSteps
    <3>3. QED BY <1>11, <3>1, <3>2 DEF RejectRow
  <2>3. QED BY <2>1, <2>2
<1>12. CASE CountAttempt
  <2>0. /\ drain.row \in Events /\ drain.plan \in SUBSET Events
        /\ drain.pc \in {"counting", "catching"}
    BY <1>0, <1>12 DEF CountAttempt
  <2>1. RowsSound'
    BY <1>12 DEF CountAttempt, hub, RowsSound
  <2>2. DrainSound'
    <3>1. CASE drain' = IdleDrain
      BY <3>1 DEF DrainSound, IdleDrain
    <3>2. CASE drain' = [drain EXCEPT !.pc = "sleeping"]
      BY <1>12, <2>0, <3>2, DrainMoves DEF CountAttempt, hub, DrainSound, InFlightSteps, DrainSteps
    <3>3. CASE drain' = [drain EXCEPT !.pc = "catching"] /\ UNCHANGED attempts
      BY <1>12, <2>0, <3>3, DrainMoves DEF CountAttempt, hub, DrainSound, InFlightSteps, DrainSteps
    <3>4. QED BY <1>12, <3>1, <3>2, <3>3 DEF CountAttempt
  <2>3. QED BY <2>1, <2>2
<1>13. CASE WakeUp
  <2>1. drain.plan \in SUBSET Events
    BY <1>0, <1>13 DEF WakeUp
  <2>2. DrainSound'
    BY <1>13, <2>1, ContinueSound DEF WakeUp, table, DrainSound
  <2>3. QED BY <1>13, <2>2 DEF WakeUp, table, hub, RowsSound
<1>14. CASE OtherCall
  BY <1>14 DEF OtherCall, table, hub, RowsSound, DrainSound
<1>15. CASE Restart
  BY <1>15 DEF Restart, Underway, table, RowsSound, DrainSound, IdleDrain
<1>16. CASE UNCHANGED vars
  BY <1>16 DEF vars, table, hub, RowsSound, DrainSound
<1>17. QED
  BY <1>1, <1>2, <1>3, <1>4, <1>5, <1>6, <1>7, <1>8, <1>9, <1>10, <1>11, <1>12, <1>13,
     <1>14, <1>15, <1>16 DEF Next, AppendStep, DrainStep

-----------------------------------------------------------------------------
(* No waiting row is forgotten.                                            *)

LEMMA ForgottenStep == Shape /\ NothingForgotten /\ [Next]_vars => NothingForgotten'
<1> SUFFICES ASSUME Shape, NothingForgotten, [Next]_vars PROVE NothingForgotten'
  OBVIOUS
<1> USE OutboxAssumption DEF Shape, TypeOK
<1>0. drain.pc # "idle" => /\ drain.row \in Events
                           /\ drain.count \in 0..(MaxRetries - 1)
  BY DrainFields
<1>1. ASSUME NEW e \in Events, AppendStep(e) PROVE NothingForgotten'
  BY <1>1 DEF AppendStep, Append, DirectAnswer, InsertRow, OwnRow, Fault, table,
              NothingForgotten
<1>2. ASSUME NEW e \in Events, Dismiss(e) \/ LateArrival(e) PROVE NothingForgotten'
  BY <1>2 DEF Dismiss, LateArrival, table, NothingForgotten
<1>3. CASE TimerDrain \/ DrainAnswer \/ WakeUp \/ OtherCall
  BY <1>3 DEF TimerDrain, DrainAnswer, WakeUp, OtherCall, table, NothingForgotten
<1>4. CASE ReadRow
  BY <1>0, <1>4 DEF ReadRow, Settled, table, NothingForgotten
<1>5. CASE ConfirmRow
  BY <1>0, <1>5 DEF ConfirmRow, NothingForgotten
<1>6. CASE RejectRow
  BY <1>0, <1>6 DEF RejectRow, DrainSound, InFlightSteps, NothingForgotten
\* The row whose attempt is counted is owned or flushed.
<1>7. CASE CountAttempt
  BY <1>0, <1>7 DEF CountAttempt, DrainSound, NothingForgotten
<1>8. CASE Restart
  BY <1>8 DEF Restart, table, NothingForgotten
<1>9. CASE UNCHANGED vars
  BY <1>9 DEF vars, table, NothingForgotten
<1>10. QED
  BY <1>1, <1>2, <1>3, <1>4, <1>5, <1>6, <1>7, <1>8, <1>9 DEF Next, DrainStep

\* Within one run of the process, a waiting row stays in ownedSeqs until it is
\* flushed, refused or out of attempts.
THEOREM NoRowForgotten == Spec => []NothingForgotten
<1>1. Init => NothingForgotten
  BY DEF Init, NothingForgotten
<1>2. QED BY <1>1, ShapeInit, ShapeStep, ForgottenStep, PTL DEF Spec

-----------------------------------------------------------------------------
(* The bound on sends.                                                     *)

\* A row that waits has been sent once directly, once for each counted attempt
\* and once for each database error; the one in flight, once more.
SendsCounted ==
  \A e \in Events :
    /\ sent[e] <= 1 + MaxRetries + faults
    /\ pc[e] = "new" => sent[e] = 0
    /\ pc[e] \in {"sending", "inserting", "owning"} => sent[e] <= 1
    /\ InFlight(e) => sent[e] <= 2 + attempts[e] + faults
    /\ e \in owned /\ ~InFlight(e) => sent[e] <= 1 + attempts[e] + faults

LEMMA SendsStep == Shape /\ SendsCounted /\ [Next]_vars => SendsCounted'
<1> SUFFICES ASSUME Shape, SendsCounted, [Next]_vars,
                    NEW f \in Events
             PROVE  /\ sent'[f] <= 1 + MaxRetries + faults'
                    /\ pc'[f] = "new" => sent'[f] = 0
                    /\ pc'[f] \in {"sending", "inserting", "owning"} => sent'[f] <= 1
                    /\ InFlight(f)' => sent'[f] <= 2 + attempts'[f] + faults'
                    /\ f \in owned' /\ ~InFlight(f)' => sent'[f] <= 1 + attempts'[f] + faults'
  BY DEF SendsCounted
<1> DEFINE Goal == /\ sent'[f] <= 1 + MaxRetries + faults'
                   /\ pc'[f] = "new" => sent'[f] = 0
                   /\ pc'[f] \in {"sending", "inserting", "owning"} => sent'[f] <= 1
                   /\ InFlight(f)' => sent'[f] <= 2 + attempts'[f] + faults'
                   /\ f \in owned' /\ ~InFlight(f)' => sent'[f] <= 1 + attempts'[f] + faults'
<1> USE OutboxAssumption DEF Shape, TypeOK
<1>0. /\ drain.pc = "idle" => drain = IdleDrain
      /\ drain.pc # "idle" => /\ drain.row \in Events
                              /\ drain.plan \in SUBSET Events
                              /\ drain.count \in 0..(MaxRetries - 1)
  BY DrainFields
<1>1. ASSUME NEW e \in Events, Append(e) PROVE Goal
  BY <1>1 DEF Append, table, hub, RowsSound, SendsCounted, InFlight
<1>2. ASSUME NEW e \in Events, DirectAnswer(e) PROVE Goal
  BY <1>2 DEF DirectAnswer, table, RowsSound, SendsCounted, InFlight
<1>3. ASSUME NEW e \in Events, InsertRow(e) PROVE Goal
  BY <1>3 DEF InsertRow, Fault, hub, RowsSound, SendsCounted, InFlight
<1>4. ASSUME NEW e \in Events, OwnRow(e) PROVE Goal
  <2>1. InFlight(f)' => InFlight(f)
    BY <1>4, ContinueEffect DEF OwnRow, InFlight, InFlightSteps
  <2>2. InFlight(f) => InFlight(f)'
    BY <1>4 DEF OwnRow, InFlight, InFlightSteps, IdleDrain
  <2>3. QED BY <1>4, <2>1, <2>2 DEF OwnRow, table, hub, SendsCounted
<1>5. ASSUME NEW e \in Events, Dismiss(e) \/ LateArrival(e) PROVE Goal
  BY <1>5 DEF Dismiss, LateArrival, table, hub, SendsCounted, InFlight
<1>6. CASE TimerDrain
  <2>1. ~InFlight(f)' /\ ~InFlight(f)
    BY <1>6, ContinueEffect DEF TimerDrain, InFlight, InFlightSteps, IdleDrain
  <2>2. QED BY <1>6, <2>1 DEF TimerDrain, table, hub, SendsCounted
<1>7. CASE ReadRow
  <2>0. drain.row \in Events /\ drain.plan \in SUBSET Events /\ drain.pc = "reading"
    BY <1>0, <1>7 DEF ReadRow
  <2>1. ~InFlight(f)
    BY <2>0 DEF InFlight, InFlightSteps
  <2>2. CASE owned' = owned \ {drain.row} /\ Continue(drain.plan) /\ UNCHANGED <<sent, faults>>
    <3>1. ~InFlight(f)'
      BY <2>0, <2>2, ContinueEffect DEF InFlight, InFlightSteps
    <3>2. QED BY <1>7, <2>1, <2>2, <3>1 DEF ReadRow, table, SendsCounted
  \* A row that is not settled is owned, and has attempts left.
  <2>3. CASE /\ ~Settled(drain.row)
             /\ drain' = [drain EXCEPT !.pc = "sending", !.count = attempts[drain.row]]
             /\ sent' = [sent EXCEPT ![drain.row] = @ + 1]
             /\ UNCHANGED <<owned, faults>>
    <3>1. drain'.row = drain.row /\ drain'.pc = "sending"
      BY <2>0, <2>3 DEF DrainType, IdleDrain
    <3>2. drain.row \in owned /\ pc[drain.row] = "queued"
          /\ attempts[drain.row] \in 0..(MaxRetries - 1)
      BY <2>0, <2>3 DEF Settled, DrainSound
    <3>3. QED BY <1>7, <2>0, <2>1, <2>3, <3>1, <3>2
          DEF ReadRow, table, SendsCounted, InFlight, InFlightSteps
  <2>4. CASE drain' = IdleDrain /\ Fault /\ UNCHANGED <<owned, sent>>
    BY <1>7, <2>1, <2>4 DEF ReadRow, Fault, table, SendsCounted, InFlight, InFlightSteps,
                            IdleDrain
  <2>5. QED BY <1>7, <2>2, <2>3, <2>4 DEF ReadRow
<1>8. CASE DrainAnswer
  <2>1. InFlight(f)' <=> InFlight(f)
    BY <1>0, <1>8, DrainMoves DEF DrainAnswer, InFlight, InFlightSteps, DrainSteps
  <2>2. QED BY <1>8, <2>1 DEF DrainAnswer, table, SendsCounted
<1>9. CASE ConfirmRow
  <2>0. drain.row \in Events /\ drain.plan \in SUBSET Events /\ drain.pc = "confirming"
    BY <1>0, <1>9 DEF ConfirmRow
  <2>1. CASE Continue(drain.plan) /\ owned' = owned \ {drain.row} /\ UNCHANGED faults
    <3>1. ~InFlight(f)'
      BY <2>0, <2>1, ContinueEffect DEF InFlight, InFlightSteps
    <3>2. InFlight(f) => f = drain.row
      BY DEF InFlight
    <3>3. QED BY <1>9, <2>0, <2>1, <3>1, <3>2 DEF ConfirmRow, hub, SendsCounted
  <2>2. CASE drain' = [drain EXCEPT !.pc = "catching"] /\ Fault /\ UNCHANGED owned
    <3>1. InFlight(f)' <=> InFlight(f)
      BY <2>0, <2>2, DrainMoves DEF InFlight, InFlightSteps, DrainSteps
    <3>2. QED BY <1>9, <2>2, <3>1 DEF ConfirmRow, Fault, hub, SendsCounted
  <2>3. QED BY <1>9, <2>1, <2>2 DEF ConfirmRow
<1>10. CASE RejectRow
  <2>0. /\ drain.row \in Events /\ drain.plan \in SUBSET Events /\ drain.pc = "rejecting"
        /\ drain.count \in 0..(MaxRetries - 1)
    BY <1>0, <1>10 DEF RejectRow
  <2>1. CASE Continue(drain.plan) /\ owned' = owned \ {drain.row} /\ UNCHANGED faults
             /\ attempts' = [attempts EXCEPT ![drain.row] = drain.count + 1]
    <3>1. ~InFlight(f)'
      BY <2>0, <2>1, ContinueEffect DEF InFlight, InFlightSteps
    <3>2. InFlight(f) => f = drain.row
      BY DEF InFlight
    <3>3. QED BY <1>10, <2>0, <2>1, <3>1, <3>2 DEF RejectRow, hub, SendsCounted
  <2>2. CASE drain' = [drain EXCEPT !.pc = "catching"] /\ Fault /\ UNCHANGED <<owned, attempts>>
    <3>1. InFlight(f)' <=> InFlight(f)
      BY <2>0, <2>2, DrainMoves DEF InFlight, InFlightSteps, DrainSteps
    <3>2. QED BY <1>10, <2>2, <3>1 DEF RejectRow, Fault, hub, SendsCounted
  <2>3. QED BY <1>10, <2>1, <2>2 DEF RejectRow
<1>11. CASE CountAttempt
  <2>0. /\ drain.row \in Events /\ drain.pc \in {"counting", "catching"}
        /\ drain.count \in 0..(MaxRetries - 1) /\ attempts[drain.row] = drain.count
    BY <1>0, <1>11 DEF CountAttempt, DrainSound, InFlightSteps
  \* The attempt is counted: it takes the place of the row in flight.
  <2>1. CASE /\ drain' = [drain EXCEPT !.pc = "sleeping"] /\ UNCHANGED faults
             /\ attempts' = [attempts EXCEPT ![drain.row] = drain.count + 1]
    <3>1. ~InFlight(f)'
      BY <2>0, <2>1, DrainMoves DEF InFlight, InFlightSteps, DrainSteps
    <3>2. f = drain.row <=> InFlight(f)
      BY <2>0 DEF InFlight, InFlightSteps
    <3>3. QED BY <1>11, <2>0, <2>1, <3>1, <3>2 DEF CountAttempt, hub, SendsCounted
  <2>2. CASE drain' = [drain EXCEPT !.pc = "catching"] /\ Fault /\ UNCHANGED attempts
    <3>1. InFlight(f)' <=> InFlight(f)
      BY <2>0, <2>2, DrainMoves DEF InFlight, InFlightSteps, DrainSteps
    <3>2. QED BY <1>11, <2>2, <3>1 DEF CountAttempt, Fault, hub, SendsCounted
  \* It is not: the database error takes its place.
  <2>3. CASE drain' = IdleDrain /\ Fault /\ UNCHANGED attempts
    <3>1. ~InFlight(f)'
      BY <2>3 DEF InFlight, InFlightSteps, IdleDrain
    <3>2. QED BY <1>11, <2>3, <3>1 DEF CountAttempt, Fault, hub, SendsCounted
  <2>4. QED BY <1>11, <2>1, <2>2, <2>3 DEF CountAttempt
<1>12. CASE WakeUp
  <2>1. ~InFlight(f)' /\ ~InFlight(f)
    BY <1>0, <1>12, ContinueEffect DEF WakeUp, InFlight, InFlightSteps
  <2>2. QED BY <1>12, <2>1 DEF WakeUp, table, hub, SendsCounted
<1>13. CASE OtherCall
  BY <1>13 DEF OtherCall, table, hub, SendsCounted, InFlight
<1>14. CASE Restart
  <2>1. ~InFlight(f)'
    BY <1>14 DEF Restart, InFlight, InFlightSteps, IdleDrain
  <2>2. pc'[f] \in {"new", "sending", "inserting", "owning"} => pc'[f] = "new" /\ pc[f] = "new"
    BY <1>14 DEF Restart
  <2>3. QED BY <1>14, <2>1, <2>2 DEF Restart, table, SendsCounted
<1>15. CASE UNCHANGED vars
  BY <1>15 DEF vars, table, hub, SendsCounted, InFlight
<1>16. QED
  BY <1>1, <1>2, <1>3, <1>4, <1>5, <1>6, <1>7, <1>8, <1>9, <1>10, <1>11, <1>12, <1>13,
     <1>14, <1>15 DEF Next, AppendStep, DrainStep

\* Whatever fails, an event is sent at most once directly, maxRetries times by
\* the outbox and once for each database error.
THEOREM SendsAreBounded == Spec => []SendsBounded
<1>1. Init => SendsCounted
  BY OutboxAssumption DEF Init, SendsCounted, InFlight, InFlightSteps, IdleDrain
<1>2. SendsCounted => SendsBounded
  BY DEF SendsCounted, SendsBounded
<1>3. QED BY <1>1, <1>2, ShapeInit, ShapeStep, SendsStep, PTL DEF Spec
-----------------------------------------------------------------------------
(* The outbox implements HubMirror.                                        *)

\* One event that is given up, or dismissed after all.
LEMMA AbandonOne ==
  ASSUME NEW e \in Events, StageOf[e] \in {"pending", "confirmed"},
         StageOf' = [StageOf EXCEPT ![e] = "abandoned"], arrived' = arrived
  PROVE  Mirror!MirrorNext
<1>1. Mirror!Abandon({e})
  BY DEF Mirror!Abandon, StageOf
<1>2. QED BY <1>1 DEF Mirror!MirrorNext

LEMMA MirrorInitially == Init => Mirror!MirrorInit
BY DEF Init, Mirror!MirrorInit, StageOf

LEMMA MirrorStep == Shape /\ [Next]_vars => [Mirror!MirrorNext]_<<StageOf, arrived>>
<1> DEFINE Goal == [Mirror!MirrorNext]_<<StageOf, arrived>>
<1> SUFFICES ASSUME Shape, [Next]_vars PROVE Goal
  OBVIOUS
<1> USE DEF Shape, TypeOK
<1>0. drain.pc # "idle" => drain.row \in Events
  BY DrainFields
<1>1. ASSUME NEW e \in Events, Append(e) PROVE Goal
  <2>1. Mirror!Accept(e)
    BY <1>1 DEF Append, table, hub, AppendSteps, RowsSound, Mirror!Accept, StageOf,
                Confirmed, Pending
  <2>2. QED BY <2>1 DEF Mirror!MirrorNext
<1>2. ASSUME NEW e \in Events, DirectAnswer(e) PROVE Goal
  <2>0. e \notin flushed /\ e \notin owned
    BY <1>2 DEF DirectAnswer, RowsSound
  <2>1. CASE AnswerOk(e) /\ pc' = [pc EXCEPT ![e] = "direct"]
    <3>1. Mirror!Confirm(e)
      BY <1>2, <2>0, <2>1 DEF DirectAnswer, AnswerOk, table, Mirror!Confirm, StageOf,
                              Confirmed, Pending
    <3>2. QED BY <3>1 DEF Mirror!MirrorNext
  <2>2. CASE pc' = [pc EXCEPT ![e] = "inserting"] /\ UNCHANGED arrived
    BY <1>2, <2>0, <2>2 DEF DirectAnswer, table, StageOf, Confirmed, Pending
  <2>3. QED BY <1>2, <2>1, <2>2 DEF DirectAnswer, AnswerError, AnswerNever, hub
<1>3. ASSUME NEW e \in Events, InsertRow(e) PROVE Goal
  <2>0. e \notin flushed /\ e \notin owned
    BY <1>3 DEF InsertRow, RowsSound
  <2>1. CASE pc' = [pc EXCEPT ![e] = "owning"]
    BY <1>3, <2>0, <2>1 DEF InsertRow, hub, StageOf, Confirmed, Pending
  <2>2. CASE pc' = [pc EXCEPT ![e] = "dropped"]
    <3>1. /\ StageOf[e] = "pending"
          /\ StageOf' = [StageOf EXCEPT ![e] = "abandoned"]
          /\ arrived' = arrived
      BY <1>3, <2>0, <2>2 DEF InsertRow, hub, StageOf, Confirmed, Pending
    <3>2. QED BY <3>1, AbandonOne
  <2>3. QED BY <1>3, <2>1, <2>2 DEF InsertRow
<1>4. ASSUME NEW e \in Events, OwnRow(e) PROVE Goal
  BY <1>4 DEF OwnRow, table, hub, StageOf, Confirmed, Pending
<1>5. ASSUME NEW e \in Events, Dismiss(e) PROVE Goal
  <2>1. /\ StageOf' = [StageOf EXCEPT ![e] = "abandoned"]
        /\ StageOf[e] \in {"pending", "confirmed", "abandoned"}
        /\ arrived' = arrived
    BY <1>5 DEF Dismiss, hub, RowsSound, StageOf, Confirmed, Pending
  <2>2. CASE StageOf[e] = "abandoned"
    BY <2>1, <2>2 DEF StageOf
  <2>3. QED BY <2>1, <2>2, AbandonOne
<1>6. ASSUME NEW e \in Events, LateArrival(e) PROVE Goal
  <2>1. Mirror!Arrive(e)
    BY <1>6 DEF LateArrival, table, RowsSound, Mirror!Arrive, StageOf, Confirmed, Pending
  <2>2. QED BY <2>1 DEF Mirror!MirrorNext
<1>7. CASE TimerDrain
  BY <1>7 DEF TimerDrain, table, hub, StageOf, Confirmed, Pending
<1>8. CASE ReadRow
  <2>0. drain.row \in Events /\ pc[drain.row] = "queued"
        /\ drain.row \in owned \cup flushed
    BY <1>0, <1>8 DEF ReadRow, DrainSound
  <2>1. CASE UNCHANGED owned
    BY <1>8, <2>1 DEF ReadRow, table, hub, StageOf, Confirmed, Pending
  <2>2. CASE owned' = owned \ {drain.row} /\ drain.row \in flushed
    BY <1>8, <2>2 DEF ReadRow, table, hub, StageOf, Confirmed, Pending
  <2>3. CASE owned' = owned \ {drain.row} /\ drain.row \notin flushed
    <3>1. /\ StageOf[drain.row] = "pending"
          /\ StageOf' = [StageOf EXCEPT ![drain.row] = "abandoned"]
          /\ arrived' = arrived
      BY <1>8, <2>0, <2>3 DEF ReadRow, table, hub, StageOf, Confirmed, Pending
    <3>2. QED BY <2>0, <3>1, AbandonOne
  <2>4. QED BY <1>8, <2>1, <2>2, <2>3 DEF ReadRow
<1>9. CASE DrainAnswer
  <2>1. CASE AnswerOk(drain.row)
    <3>1. Mirror!Arrive(drain.row)
      BY <1>0, <1>9, <2>1 DEF DrainAnswer, DrainSound, AnswerOk, table, Mirror!Arrive,
                              StageOf, Confirmed, Pending
    <3>2. drain.row \in Events
      BY <1>0, <1>9 DEF DrainAnswer
    <3>3. QED BY <3>1, <3>2 DEF Mirror!MirrorNext
  <2>2. CASE UNCHANGED arrived
    BY <1>9, <2>2 DEF DrainAnswer, table, StageOf, Confirmed, Pending
  <2>3. QED BY <1>9, <2>1, <2>2 DEF DrainAnswer, AnswerError, AnswerNever, hub
\* The hub had it when the row is marked as flushed.
<1>10. CASE ConfirmRow
  <2>0. /\ drain.row \in Events /\ pc[drain.row] = "queued"
        /\ drain.row \in owned \cup flushed /\ drain.row \in arrived
    BY <1>0, <1>10 DEF ConfirmRow, DrainSound
  <2>1. CASE UNCHANGED <<flushed, lastError, owned>>
    BY <1>10, <2>1 DEF ConfirmRow, hub, StageOf, Confirmed, Pending
  <2>2. CASE /\ flushed' = flushed \cup {drain.row}
             /\ lastError' = [lastError EXCEPT ![drain.row] = "none"]
             /\ owned' = owned \ {drain.row}
    <3>1. /\ StageOf' = [StageOf EXCEPT ![drain.row] = "confirmed"]
          /\ StageOf[drain.row] \in {"pending", "abandoned", "confirmed"}
          /\ arrived' = arrived /\ arrived = arrived \cup {drain.row}
      BY <1>10, <2>0, <2>2 DEF ConfirmRow, hub, StageOf, Confirmed, Pending
    <3>2. CASE StageOf[drain.row] = "confirmed"
      BY <2>0, <3>1, <3>2 DEF StageOf
    <3>3. CASE StageOf[drain.row] # "confirmed"
      <4>1. Mirror!Confirm(drain.row)
        BY <3>1, <3>3 DEF Mirror!Confirm
      <4>2. QED BY <2>0, <4>1 DEF Mirror!MirrorNext
    <3>4. QED BY <3>2, <3>3
  <2>3. QED BY <1>10, <2>1, <2>2 DEF ConfirmRow
<1>11. CASE RejectRow
  <2>0. /\ drain.row \in Events /\ pc[drain.row] = "queued"
        /\ drain.row \in owned \cup flushed
    BY <1>0, <1>11 DEF RejectRow, DrainSound
  <2>1. CASE UNCHANGED <<lastError, owned>>
    BY <1>11, <2>1 DEF RejectRow, hub, StageOf, Confirmed, Pending
  <2>2. CASE /\ lastError' = [lastError EXCEPT ![drain.row] = "rejected"]
             /\ owned' = owned \ {drain.row}
    <3>1. /\ StageOf' = [StageOf EXCEPT ![drain.row] = "abandoned"]
          /\ StageOf[drain.row] \in {"pending", "abandoned", "confirmed"}
          /\ arrived' = arrived
      BY <1>11, <2>0, <2>2 DEF RejectRow, hub, StageOf, Confirmed, Pending
    <3>2. CASE StageOf[drain.row] = "abandoned"
      BY <2>0, <3>1, <3>2 DEF StageOf
    <3>3. QED BY <2>0, <3>1, <3>2, AbandonOne
  <2>3. QED BY <1>11, <2>1, <2>2 DEF RejectRow
\* A failed row goes on waiting, unless it was flushed: then it counts as
\* given up.
<1>12. CASE CountAttempt
  <2>0. /\ drain.row \in Events /\ pc[drain.row] = "queued"
        /\ drain.row \in owned \cup flushed
    BY <1>0, <1>12 DEF CountAttempt, DrainSound
  <2>1. CASE UNCHANGED lastError
    BY <1>12, <2>1 DEF CountAttempt, hub, StageOf, Confirmed, Pending
  <2>2. CASE lastError' = [lastError EXCEPT ![drain.row] = "failed"]
    <3>1. CASE drain.row \notin flushed
      BY <1>12, <2>2, <3>1 DEF CountAttempt, hub, StageOf, Confirmed, Pending
    <3>2. CASE drain.row \in flushed
      <4>1. /\ StageOf' = [StageOf EXCEPT ![drain.row] = "abandoned"]
            /\ StageOf[drain.row] \in {"abandoned", "confirmed"}
            /\ arrived' = arrived
        BY <1>12, <2>0, <2>2, <3>2 DEF CountAttempt, hub, StageOf, Confirmed, Pending
      <4>2. CASE StageOf[drain.row] = "abandoned"
        BY <2>0, <4>1, <4>2 DEF StageOf
      <4>3. QED BY <2>0, <4>1, <4>2, AbandonOne
    <3>3. QED BY <3>1, <3>2
  <2>3. QED BY <1>12, <2>1, <2>2 DEF CountAttempt
<1>13. CASE WakeUp \/ OtherCall
  BY <1>13 DEF WakeUp, OtherCall, table, hub, StageOf, Confirmed, Pending
\* A restart gives up every event that waits.
<1>14. CASE Restart
  <2>1. Mirror!Abandon(Pending)
    BY <1>14 DEF Restart, table, AppendSteps, RowsSound, Mirror!Abandon, StageOf,
                 Confirmed, Pending
  <2>2. Pending \in SUBSET Events
    BY DEF Pending
  <2>3. QED BY <2>1, <2>2 DEF Mirror!MirrorNext
<1>15. CASE UNCHANGED vars
  BY <1>15 DEF vars, table, hub, StageOf, Confirmed, Pending
<1>16. QED
  BY <1>1, <1>2, <1>3, <1>4, <1>5, <1>6, <1>7, <1>8, <1>9, <1>10, <1>11, <1>12, <1>13,
     <1>14, <1>15 DEF Next, AppendStep, DrainStep

\* What the outbox counts as confirmed is at the hub, and what it gave up never
\* waits again: the specification implements HubMirror.
THEOREM OutboxImplementsMirror == Spec => ImplementsHubMirror
BY MirrorInitially, MirrorStep, ShapeInit, ShapeStep, PTL
   DEF Spec, ImplementsHubMirror, Mirror!MirrorSpec
=============================================================================
