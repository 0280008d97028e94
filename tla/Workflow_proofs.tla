---------------------------- MODULE Workflow_proofs ---------------------------
(***************************************************************************)
(* Proofs about what people and calls do to sprints, ceremonies and stories:*)
(* SprintService, CeremonyTriggers and Uat, for any number of calls at once,*)
(* and SprintShare, for any number of sprints of any weight.               *)
(***************************************************************************)
EXTENDS SprintService, CeremonyTriggers, Uat, Sums_proofs, FiniteSetTheorems, TLAPS

-----------------------------------------------------------------------------
(* CeremonyTriggers                                                        *)

USE TriggersAssumption

\* The part of the type that a step of a run disturbs.
RunsTyped ==
  /\ run \in [Runs -> [pc : {"none", "rules", "matching", "claiming", "scheduling", "recording"},
                      left : SUBSET Firings, at : {NoRow} \cup Firings]]
  /\ \A n \in Runs : run[n].pc \notin {"none", "rules"} => run[n].at \in Firings

\* Every reachable state of rules, rows and handler runs is well typed.
THEOREM TriggersTypeCorrect == TriggersSpec => []TriggersTypeOK
<1>1. TriggersInit => TriggersTypeOK
  BY DEF TriggersInit, TriggersTypeOK, NoRun
<1>2. TriggersTypeOK /\ [TriggersNext]_triggerVars => TriggersTypeOK'
  <2> SUFFICES ASSUME TriggersTypeOK, [TriggersNext]_triggerVars PROVE TriggersTypeOK'
    OBVIOUS
  <2>0. ASSUME NEW n \in Runs, RuleEnds(n) PROVE RunsTyped'
    BY <2>0 DEF RuleEnds, RunsTyped, TriggersTypeOK
  <2>1. ASSUME NEW n \in Runs, NEW e \in TriggerEvents, OnEvent(n, e) PROVE TriggersTypeOK'
    <3>1. Rules \X {e} \in SUBSET Firings
      BY DEF Firings
    <3>2. PICK left \in SUBSET Firings : run' = [run EXCEPT ![n].pc = "rules", ![n].left = left]
      BY <2>1, <3>1 DEF OnEvent
    <3>3. RunsTyped'
      BY <3>2 DEF RunsTyped, TriggersTypeOK
    <3>4. deliveriesLeft' \in 0..MaxDeliveries
      BY <2>1 DEF OnEvent, TriggersTypeOK
    <3> QED
      BY <2>1, <3>3, <3>4 DEF OnEvent, RunsTyped, TriggersTypeOK
  <2>2. ASSUME NEW n \in Runs, NEW f \in Firings, CheckFired(n, f) PROVE TriggersTypeOK'
    BY <2>2 DEF CheckFired, TriggersTypeOK
  <2>3. ASSUME NEW n \in Runs, MatchRule(n) PROVE TriggersTypeOK'
    BY <2>3 DEF MatchRule, RunStep, TriggersTypeOK
  <2>4. ASSUME NEW n \in Runs, RuleFails(n) \/ LoseClaim(n) PROVE TriggersTypeOK'
    BY <2>4 DEF RuleFails, LoseClaim, RuleEnds, TriggersTypeOK
  <2>5. ASSUME NEW n \in Runs, ClaimFiring(n) PROVE TriggersTypeOK'
    BY <2>5 DEF ClaimFiring, RunStep, At, TriggersTypeOK
  <2>6. ASSUME NEW n \in Runs, ScheduleCeremony(n) PROVE TriggersTypeOK'
    BY <2>6 DEF ScheduleCeremony, RunStep, At, TriggersTypeOK
  <2>7. ASSUME NEW n \in Runs, ScheduleFails(n) PROVE TriggersTypeOK'
    <3>1. ceremonies' \in [Firings -> Nat]
      BY <2>7 DEF ScheduleFails, At, TriggersTypeOK
    <3>2. RunsTyped'
      BY <2>7, <2>0 DEF ScheduleFails
    <3> QED
      BY <2>7, <3>1, <3>2 DEF ScheduleFails, RunsTyped, TriggersTypeOK
  <2>8. ASSUME NEW n \in Runs, RecordCeremony(n) PROVE TriggersTypeOK'
    BY <2>8 DEF RecordCeremony, RuleEnds, At, TriggersTypeOK
  <2>9. ASSUME NEW n \in Runs, RunEnds(n) PROVE TriggersTypeOK'
    BY <2>9 DEF RunEnds, NoRun, TriggersTypeOK
  <2>10. CASE UNCHANGED triggerVars
    BY <2>10 DEF triggerVars, TriggersTypeOK
  <2> QED
    BY <2>1, <2>2, <2>3, <2>4, <2>5, <2>6, <2>7, <2>8, <2>9, <2>10 DEF TriggersNext, RunNext
<1> QED
  BY <1>1, <1>2, PTL DEF TriggersSpec

\* At most one run has claimed a firing and not yet scheduled its ceremony.
RunsInv ==
  /\ \A f \in Firings : /\ ceremonies[f] \in {0, 1}
                        /\ firing[f] = NoRow => ceremonies[f] = 0
  /\ \A n \in Runs : run[n].pc = "scheduling" =>
       /\ firing[At(n)] # NoRow /\ ceremonies[At(n)] = 0
       /\ \A m \in Runs \ {n} : run[m].pc = "scheduling" => At(m) # At(n)

\* A row that names a rule and an event is told from no row.
LEMMA FiringIsNoRow == \A f \in Firings : f # NoRow /\ NoCeremony # NoRow
<1> SUFFICES ASSUME NEW f \in Firings PROVE f # NoRow /\ NoCeremony # NoRow
  OBVIOUS
<1>1. PICK r \in Rules, e \in TriggerEvents : f = <<r, e>>
  BY DEF Firings
<1>2. <<r, e>> # <<"absent">>
  OBVIOUS
<1> QED
  BY <1>1, <1>2 DEF NoRow, NoCeremony

\* The insert of the row lets one run at most past it, and only that run
\* schedules.
LEMMA RunsInvStep ==
  ASSUME TriggersTypeOK, RunsInv, [TriggersNext]_triggerVars
  PROVE  RunsInv'
<1>1. ASSUME NEW n \in Runs, UNCHANGED <<firing, ceremonies>>,
             \A m \in Runs \ {n} : run'[m] = run[m], run'[n].pc # "scheduling"
      PROVE  RunsInv'
  BY <1>1 DEF RunsInv, At
<1>2. ASSUME NEW n \in Runs, NEW e \in TriggerEvents, OnEvent(n, e) PROVE RunsInv'
  BY <1>1, <1>2 DEF OnEvent, TriggersTypeOK
<1>3. ASSUME NEW n \in Runs, NEW f \in Firings, CheckFired(n, f) PROVE RunsInv'
  BY <1>1, <1>3 DEF CheckFired, TriggersTypeOK
<1>4. ASSUME NEW n \in Runs, MatchRule(n) PROVE RunsInv'
  BY <1>1, <1>4 DEF MatchRule, RunStep, TriggersTypeOK
<1>5. ASSUME NEW n \in Runs, RuleFails(n) \/ LoseClaim(n) PROVE RunsInv'
  BY <1>1, <1>5 DEF RuleFails, LoseClaim, RuleEnds, TriggersTypeOK
<1>6. ASSUME NEW n \in Runs, ClaimFiring(n) PROVE RunsInv'
  <2>1. At(n) \in Firings /\ ceremonies[At(n)] = 0 /\ firing[At(n)] = NoRow
    BY <1>6 DEF ClaimFiring, RunStep, TriggersTypeOK, RunsInv, At
  <2>2. \A m \in Runs : run'[m].at = run[m].at /\ (m # n => run'[m] = run[m])
    BY <1>6 DEF ClaimFiring, RunStep, TriggersTypeOK
  <2>3. /\ firing'[At(n)] # NoRow /\ ceremonies' = ceremonies
        /\ \A f \in Firings \ {At(n)} : firing'[f] = firing[f]
    BY <1>6, <2>1, FiringIsNoRow DEF ClaimFiring, TriggersTypeOK
  <2>4. \A m \in Runs \ {n} : run[m].pc = "scheduling" => At(m) # At(n) /\ At(m) \in Firings
    BY <2>1 DEF RunsInv, At, TriggersTypeOK
  <2> QED
    BY <2>1, <2>2, <2>3, <2>4 DEF RunsInv, At
<1>7. ASSUME NEW n \in Runs, ScheduleCeremony(n) \/ ScheduleFails(n) PROVE RunsInv'
  <2>1. /\ run[n].pc = "scheduling" /\ run'[n].pc # "scheduling" /\ firing' = firing
        /\ \A m \in Runs \ {n} : run'[m] = run[m]
    BY <1>7 DEF ScheduleCeremony, ScheduleFails, RunStep, RuleEnds, TriggersTypeOK
  <2>2. At(n) \in Firings /\ ceremonies[At(n)] = 0 /\ firing[At(n)] # NoRow
    BY <2>1 DEF TriggersTypeOK, RunsInv, At
  <2>3. /\ ceremonies'[At(n)] \in {0, 1}
        /\ \A f \in Firings \ {At(n)} : ceremonies'[f] = ceremonies[f]
    BY <1>7, <2>2 DEF ScheduleCeremony, ScheduleFails, TriggersTypeOK
  <2>4. \A m \in Runs \ {n} : run[m].pc = "scheduling" => At(m) # At(n) /\ At(m) \in Firings
    BY <2>1 DEF RunsInv, At, TriggersTypeOK
  <2> QED
    BY <2>1, <2>2, <2>3, <2>4 DEF RunsInv, At
<1>8. ASSUME NEW n \in Runs, RecordCeremony(n) PROVE RunsInv'
  <2>1. \A m \in Runs \ {n} : run'[m] = run[m]
    BY <1>8 DEF RecordCeremony, RuleEnds, TriggersTypeOK
  <2>2. run'[n].pc # "scheduling" /\ ceremonies' = ceremonies /\ At(n) \in Firings
    BY <1>8 DEF RecordCeremony, RuleEnds, TriggersTypeOK, At
  <2>3. \A f \in Firings : firing'[f] = NoRow <=> firing[f] = NoRow
    BY <1>8, <2>2, FiringIsNoRow DEF RecordCeremony
  <2>4. \A m \in Runs : run[m].pc = "scheduling" => At(m) \in Firings
    BY DEF TriggersTypeOK, At
  <2> QED
    BY <2>1, <2>2, <2>3, <2>4 DEF RunsInv, At
<1>9. ASSUME NEW n \in Runs, RunEnds(n) PROVE RunsInv'
  BY <1>1, <1>9 DEF RunEnds, NoRun, TriggersTypeOK
<1>10. CASE UNCHANGED triggerVars
  BY <1>10 DEF triggerVars, RunsInv, At
<1> QED
  BY <1>2, <1>3, <1>4, <1>5, <1>6, <1>7, <1>8, <1>9, <1>10 DEF TriggersNext, RunNext

\* However often and to however many processes an event is delivered, a rule
\* schedules one ceremony for it at most (DefaultCeremonyScheduler.fireRule).
THEOREM CeremoniesScheduledOnce == TriggersSpec => []ScheduledOnce
<1>1. TriggersInit => RunsInv
  BY DEF TriggersInit, RunsInv, NoRun
<1>2. RunsInv /\ TriggersTypeOK => ScheduledOnce
  BY DEF RunsInv, ScheduledOnce
<1> QED
  BY <1>1, <1>2, RunsInvStep, TriggersTypeCorrect, PTL DEF TriggersSpec

HIDE TriggersAssumption

-----------------------------------------------------------------------------
(* Uat                                                                     *)

USE UatAssumption

\* What decides a session is under way or done: its marks are closed.
Closed(v) == session[v].state \notin {"absent", "started", "in_progress"}
Reporting(c) == caller[c].pc \in {"reporting", "writing"}
Passed(v) == {a \in Criteria : result[v][a] = "pass"}

\* The counts the outcome is decided by are those of the rows.
CountsExact ==
  \A v \in Sessions : /\ session[v].fail = Cardinality(Failed(v))
                      /\ session[v].pass = Cardinality(Passed(v))

\* The snapshot of a session is written over no mark, by one call.
SnapshotFresh ==
  /\ \A v \in Sessions : session[v].state = "absent" => \A a \in Criteria : result[v][a] = "none"
  /\ \A c \in Callers : caller[c].pc = "snapshot" =>
       /\ session[caller[c].session].state # "absent"
       /\ \A a \in Criteria : result[caller[c].session][a] = "none"
       /\ \A d \in Callers \ {c} :
            caller[d].pc = "snapshot" => caller[d].session # caller[c].session

\* Whatever is closed had every criterion marked, unless it had no rows yet.
ClosedTested ==
  \A v \in Sessions \ untested :
    Closed(v) => \A a \in Criteria : result[v][a] \in {"pass", "fail"}

\* Whoever is about to accept a session has seen it closed and without a failure.
VerdictsSound ==
  /\ \A v \in Sessions : session[v].state = "accepted" => session[v].fail = 0
  /\ \A c \in Callers :
       /\ caller[c].pc \notin {"none", "snapshot"} => Closed(caller[c].session)
       /\ caller[c].pc = "accepting" \/ (Reporting(c) /\ caller[c].outcome = "accepted")
            => session[caller[c].session].fail = 0

\* A call that reports the failures of a session is alone at it, and those it
\* has left are the ones that are not reported.
ReportSound(c) ==
  /\ caller[c].todo \subseteq Failed(caller[c].session)
  /\ caller[c].pc = "writing" =>
       \E a \in caller[c].todo : caller[c].at = <<caller[c].session, a>>
  /\ \A a \in Failed(caller[c].session) :
       reports[<<caller[c].session, a>>] = IF a \in caller[c].todo THEN 0 ELSE 1
  /\ \A d \in Callers \ {c} : Reporting(d) => caller[d].session # caller[c].session

\* The failures of a closed session are reported once, unless its submit is
\* still at it or broke off.
AllReported(v) ==
  \/ \E c \in Callers : Reporting(c) /\ caller[c].session = v
  \/ \A a \in Failed(v) : reports[<<v, a>>] = 1

ReportsExact ==
  /\ \A c \in Callers : Reporting(c) => ReportSound(c)
  /\ \A v \in Sessions, a \in Criteria :
       reports[<<v, a>>] \in {0, 1} /\ (~Closed(v) => reports[<<v, a>>] = 0)
  /\ \A a \in Criteria : reports[<<0, a>>] = 0
  /\ \A v \in Sessions \ cutShort : Closed(v) => AllReported(v)

UatInv == CountsExact /\ SnapshotFresh /\ ClosedTested /\ VerdictsSound /\ ReportsExact

-----------------------------------------------------------------------------
(* What the pieces of the actions do.                                       *)

CallRecords ==
  [pc : UatSteps, session : 0..MaxSessions, todo : SUBSET Criteria,
   at : Failures \cup {NoFailure}, found : Failures \cup {NoFailure},
   outcome : Verdicts \cup {"none"}]

CallFits(r) ==
  /\ r.pc # "none" => r.session \in Sessions
  /\ r.pc \in {"reporting", "writing"} => r.outcome # "none"

CallerTyped ==
  /\ caller \in [Callers -> CallRecords]
  /\ \A c \in Callers : CallFits(caller[c])

LEMMA UatTyped == UatTypeOK => CallerTyped
BY DEF UatTypeOK, CallerTyped, CallRecords, CallFits

LEMMA CallBecomes ==
  ASSUME CallerTyped, NEW c \in Callers, NEW r \in CallRecords,
         CallFits(r), caller' = [caller EXCEPT ![c] = r]
  PROVE  /\ CallerTyped' /\ caller'[c] = r
         /\ \A d \in Callers \ {c} : caller'[d] = caller[d]
BY DEF CallerTyped

LEMMA NoCallTyped == NoCallOfUat \in CallRecords /\ CallFits(NoCallOfUat)
BY UatAssumption DEF NoCallOfUat, CallRecords, CallFits, UatSteps

SessionTyped ==
  session \in [Sessions -> [state : SessionStates, pass : 0..Cardinality(Criteria),
                             fail : 0..Cardinality(Criteria)]]

LEMMA StateSet ==
  ASSUME UatTypeOK, NEW v \in Sessions, NEW to \in SessionStates, SetState(v, to)
  PROVE  /\ SessionTyped'
         /\ \A w \in Sessions : /\ session'[w].fail = session[w].fail
                               /\ session'[w].pass = session[w].pass
                               /\ session'[w].state = IF w = v THEN to ELSE session[w].state
BY DEF UatTypeOK, SetState, SessionTyped

LEMMA CallEnds ==
  ASSUME UatTypeOK, NEW c \in Callers, EndCall(c)
  PROVE  /\ CallerTyped'
         /\ caller'[c] = NoCallOfUat
         /\ \A d \in Callers \ {c} : caller'[d] = caller[d]
<1> QED
  BY UatTyped, NoCallTyped, CallBecomes DEF EndCall

LEMMA CallBegins ==
  ASSUME UatTypeOK, NEW c \in Callers, NEW v \in Sessions,
         NEW pc \in UatSteps \ {"reporting", "writing"}, InCall(c, v, pc)
  PROVE  /\ CallerTyped'
         /\ caller'[c].pc = pc /\ caller'[c].session = v
         /\ \A d \in Callers \ {c} : caller'[d] = caller[d]
<1> DEFINE r == [NoCallOfUat EXCEPT !.pc = pc, !.session = v]
<1>0. v \in 0..MaxSessions
  BY DEF Sessions
<1>1. r \in CallRecords /\ r.pc = pc /\ r.session = v
  BY <1>0, NoCallTyped DEF CallRecords
<1>2. caller' = [caller EXCEPT ![c] = r]
  BY DEF InCall
<1> HIDE DEF r
<1> QED
  BY <1>1, <1>2, UatTyped, CallBecomes DEF CallFits

LEMMA OutcomeTyped == ASSUME NEW v PROVE Outcome(v) \in Verdicts
BY DEF Outcome, Verdicts

LEMMA SubmitBegins ==
  ASSUME UatTypeOK, NEW c \in Callers, NEW v \in Sessions, Submit(c, v)
  PROVE  /\ CallerTyped'
         /\ caller'[c].pc = "reporting" /\ caller'[c].session = v
         /\ caller'[c].todo = Failed(v) /\ caller'[c].outcome = Outcome(v)
         /\ \A d \in Callers \ {c} : caller'[d] = caller[d]
<1>1. Failed(v) \in SUBSET Criteria
  BY DEF Failed
<1>2. PICK out \in Verdicts, todo \in SUBSET Criteria :
        /\ out = Outcome(v) /\ todo = Failed(v)
        /\ caller' = [caller EXCEPT ![c] = [NoCallOfUat EXCEPT
              !.pc = "reporting", !.session = v, !.todo = todo, !.outcome = out]]
  BY <1>1, OutcomeTyped DEF Submit
<1> DEFINE r == [NoCallOfUat EXCEPT !.pc = "reporting", !.session = v,
                                    !.todo = todo, !.outcome = out]
<1>0. v \in 0..MaxSessions
  BY DEF Sessions
<1>3. /\ r \in CallRecords /\ r.pc = "reporting" /\ r.session = v
      /\ r.todo = todo /\ r.outcome = out
  BY <1>0, NoCallTyped DEF CallRecords, UatSteps
<1>4. caller' = [caller EXCEPT ![c] = r]
  BY <1>2
<1> HIDE DEF r
<1> QED
  BY <1>2, <1>3, <1>4, UatTyped, CallBecomes DEF CallFits, Verdicts

LEMMA DefectFound ==
  ASSUME UatTypeOK, NEW c \in Callers, NEW a \in Criteria, FindDefect(c, a)
  PROVE  /\ CallerTyped'
         /\ caller[c].pc = "reporting" /\ caller'[c].pc = "writing"
         /\ caller'[c].at = <<caller[c].session, a>> /\ a \in caller[c].todo
         /\ caller'[c].session = caller[c].session /\ caller'[c].todo = caller[c].todo
         /\ caller'[c].outcome = caller[c].outcome
         /\ \A d \in Callers \ {c} : caller'[d] = caller[d]
<1>1. <<caller[c].session, a>> \in Failures
  BY DEF FindDefect, UatTypeOK, Failures, Sessions
<1>2. PICK f \in Failures \cup {NoFailure}, at \in Failures :
        /\ at = <<caller[c].session, a>>
        /\ caller' = [caller EXCEPT ![c].pc = "writing", ![c].found = f, ![c].at = at]
  BY <1>1 DEF FindDefect
<1> DEFINE r == [caller[c] EXCEPT !.pc = "writing", !.found = f, !.at = at]
<1>3. caller[c] \in CallRecords /\ caller[c].session \in Sessions
  BY UatTyped DEF CallerTyped, CallFits, FindDefect
<1>4. /\ r \in CallRecords /\ r.pc = "writing" /\ r.session = caller[c].session
      /\ r.todo = caller[c].todo /\ r.outcome = caller[c].outcome /\ r.at = at
  BY <1>3 DEF CallRecords, UatSteps
<1>5. caller' = [caller EXCEPT ![c] = r]
  BY <1>2
<1> HIDE DEF r
<1> QED
  BY <1>2, <1>3, <1>4, <1>5, UatTyped, CallBecomes DEF FindDefect, CallFits, CallerTyped

LEMMA DefectWritten ==
  ASSUME UatTypeOK, ReportsExact, NEW c \in Callers, WriteDefect(c)
  PROVE  \E a \in caller[c].todo, v \in Sessions :
           /\ CallerTyped'
           /\ v = caller[c].session /\ caller[c].pc = "writing" /\ caller'[c].pc = "reporting"
           /\ caller'[c].session = v /\ caller'[c].todo = caller[c].todo \ {a}
           /\ caller'[c].outcome = caller[c].outcome
           /\ \A d \in Callers \ {c} : caller'[d] = caller[d]
           /\ <<v, a>> \in Failures /\ reports' = [reports EXCEPT ![<<v, a>>] = @ + 1]
           /\ defect' \in [Failures -> {"none", "open", "reopened", "resolved"}]
<1>1. PICK a \in caller[c].todo : caller[c].at = <<caller[c].session, a>>
  BY DEF WriteDefect, ReportsExact, ReportSound, Reporting
<1>2. caller[c].session \in Sessions /\ a \in Criteria
  BY DEF WriteDefect, UatTypeOK
<1>3. <<caller[c].session, a>> \in Failures
  BY <1>2 DEF Failures, Sessions
<1>4. reports' = [reports EXCEPT ![<<caller[c].session, a>>] = @ + 1]
  BY <1>1 DEF WriteDefect
<1>5. defect' \in [Failures -> {"none", "open", "reopened", "resolved"}]
  <2>1. caller[c].found \in Failures \cup {NoFailure}
    BY DEF UatTypeOK
  <2> QED
    BY <1>1, <1>3, <2>1 DEF WriteDefect, UatTypeOK
<1>6. PICK todo \in SUBSET Criteria :
        /\ todo = caller[c].todo \ {a}
        /\ caller' = [caller EXCEPT ![c].pc = "reporting", ![c].todo = todo,
                                    ![c].at = NoFailure, ![c].found = NoFailure]
  <2>1. caller[c].todo \ {a} \in SUBSET Criteria
    BY DEF UatTypeOK
  <2>2. caller' = [caller EXCEPT ![c].pc = "reporting", ![c].todo = caller[c].todo \ {a},
                                 ![c].at = NoFailure, ![c].found = NoFailure]
    BY <1>1 DEF WriteDefect
  <2> QED
    BY <2>1, <2>2
<1> DEFINE r == [caller[c] EXCEPT !.pc = "reporting", !.todo = todo,
                                  !.at = NoFailure, !.found = NoFailure]
<1>7. caller[c] \in CallRecords
  BY UatTyped DEF CallerTyped
<1>8. /\ r \in CallRecords /\ r.pc = "reporting" /\ r.session = caller[c].session
      /\ r.todo = todo /\ r.outcome = caller[c].outcome
  BY <1>7 DEF CallRecords, UatSteps
<1>9. caller' = [caller EXCEPT ![c] = r]
  BY <1>6
<1> HIDE DEF r
<1>10. CallerTyped' /\ caller'[c] = r /\ \A d \in Callers \ {c} : caller'[d] = caller[d]
  BY <1>2, <1>8, <1>9, UatTyped, CallBecomes DEF CallFits, CallerTyped, WriteDefect
<1> QED
  BY <1>2, <1>3, <1>4, <1>5, <1>6, <1>8, <1>10 DEF WriteDefect
-----------------------------------------------------------------------------
(* Counts                                                                   *)

Marks == {"pending", "pass", "fail"}

\* Only a mark and the snapshot change results; the counts change with a mark.
LEMMA ResultSteps ==
  ASSUME UatTypeOK, [UatNext]_uatVars
  PROVE  \/ /\ result' = result
            /\ \A v \in Sessions : /\ session'[v].fail = session[v].fail
                                  /\ session'[v].pass = session[v].pass
            /\ SessionTyped'
         \/ \E c \in Callers : InsertResults(c)
         \/ \E v \in Sessions, a \in Criteria, to \in Marks : SetResult(v, a, to)
<1> DEFINE Kept == /\ result' = result
                   /\ \A v \in Sessions : /\ session'[v].fail = session[v].fail
                                         /\ session'[v].pass = session[v].pass
                   /\ SessionTyped'
<1>1. ASSUME session' = session, result' = result PROVE Kept
  BY <1>1 DEF SessionTyped, UatTypeOK
<1>2. ASSUME NEW v \in Sessions, NEW to \in SessionStates, SetState(v, to), result' = result
      PROVE  Kept
  BY <1>2, StateSet
<1> HIDE DEF Kept
<1>3. ASSUME NEW c \in Callers, CallerNext(c), ~InsertResults(c) PROVE Kept
  <2>1. CASE WriteDefect(c)
    BY <1>1, <2>1 DEF WriteDefect
  <2>2. CASE DecideSession(c)
    <3>1. caller[c].session \in Sessions /\ result' = result
      BY <2>2 DEF DecideSession, UatTypeOK
    <3>2. caller[c].outcome \in SessionStates
      BY <2>2 DEF DecideSession, UatTypeOK, SessionStates
    <3> QED
      BY <1>2, <2>2, <3>1, <3>2 DEF DecideSession
  <2>3. CASE AcceptEnd(c)
    <3>1. caller[c].session \in Sessions /\ result' = result
      BY <2>3 DEF AcceptEnd, UatTypeOK
    <3> QED
      BY <1>2, <2>3, <3>1 DEF AcceptEnd, SessionStates, Verdicts
  <2>4. CASE CallBreaksOff(c)
    BY <1>1, <2>4 DEF CallBreaksOff
  <2>5. ASSUME NEW v \in Sessions, InsertSession(c, v) PROVE Kept
    BY <1>2, <2>5 DEF InsertSession, SessionStates
  <2>6. ASSUME NEW v \in Sessions, Submit(c, v) PROVE Kept
    BY <1>2, <2>6 DEF Submit, SessionStates
  <2>7. ASSUME NEW v \in Sessions, AcceptBegin(c, v) \/ PartialAcceptBegin(c, v) PROVE Kept
    BY <1>1, <2>7 DEF AcceptBegin, PartialAcceptBegin
  <2>8. ASSUME NEW a \in Criteria, FindDefect(c, a) PROVE Kept
    BY <1>1, <2>8 DEF FindDefect
  <2> QED
    BY <1>3, <2>1, <2>2, <2>3, <2>4, <2>5, <2>6, <2>7, <2>8 DEF CallerNext
<1>4. ASSUME NEW a \in Criteria, SubmitDefect(a) PROVE Kept
  BY <1>1, <1>4 DEF SubmitDefect
<1>5. ASSUME NEW f \in Failures, MarkDefectFixed(f) PROVE Kept
  BY <1>1, <1>5 DEF MarkDefectFixed
<1>6. ASSUME UNCHANGED uatVars PROVE Kept
  BY <1>1, <1>6 DEF uatVars
<1>7. ASSUME NEW v \in Sessions, NEW a \in Criteria, MarkAC(v, a) \/ UnmarkAC(v, a)
      PROVE  \E to \in Marks : SetResult(v, a, to)
  BY <1>7 DEF MarkAC, UnmarkAC, Marks
<1>8. \/ Kept
      \/ \E c \in Callers : InsertResults(c)
      \/ \E v \in Sessions, a \in Criteria, to \in Marks : SetResult(v, a, to)
  <2>1. CASE \E c \in Callers : CallerNext(c)
    BY <1>3, <2>1
  <2>2. CASE \E v \in Sessions, a \in Criteria : MarkAC(v, a) \/ UnmarkAC(v, a)
    <3>1. PICK v \in Sessions, a \in Criteria : MarkAC(v, a) \/ UnmarkAC(v, a)
      BY <2>2
    <3> QED
      BY <1>7, <3>1
  <2>3. CASE \E a \in Criteria : SubmitDefect(a)
    BY <1>4, <2>3
  <2>4. CASE \E f \in Failures : MarkDefectFixed(f)
    BY <1>5, <2>4
  <2> QED
    BY <1>6, <2>1, <2>2, <2>3, <2>4 DEF UatNext
<1> QED
  BY <1>8, Zenon DEF Kept

\* How a mark changes the count of a kind.
Change(v, a, to, kind) == IF to = kind THEN 1 ELSE IF result[v][a] = kind THEN -1 ELSE 0

Of(v, kind) == {x \in Criteria : result[v][x] = kind}

LEMMA MarkCounts ==
  ASSUME UatTypeOK, NEW v \in Sessions, NEW a \in Criteria, NEW to \in Marks,
         SetResult(v, a, to), NEW kind \in {"pass", "fail"}
  PROVE  /\ Cardinality(Of(v, kind)) + Change(v, a, to, kind) = Cardinality(Of(v, kind)')
         /\ Cardinality(Of(v, kind)') \in 0..Cardinality(Criteria)
<1> DEFINE before == Of(v, kind)
           after == Of(v, kind)'
<1>1. /\ result[v] \in [Criteria -> {"none", "pending", "pass", "fail"}]
      /\ result'[v] = [result[v] EXCEPT ![a] = to] /\ result[v][a] # to
  BY DEF SetResult, UatTypeOK
<1>2. before \in SUBSET Criteria /\ after \in SUBSET Criteria
  BY DEF Of
<1>3. /\ to = kind => after = before \cup {a} /\ a \notin before
      /\ to # kind /\ result[v][a] = kind => after = before \ {a} /\ a \in before
      /\ to # kind /\ result[v][a] # kind => after = before
  BY <1>1 DEF Of
<1> HIDE DEF before, after
<1>4. /\ IsFiniteSet(before) /\ IsFiniteSet(after) /\ IsFiniteSet(Criteria)
      /\ Cardinality(after) <= Cardinality(Criteria)
  BY <1>2, FS_Subset, UatAssumption
<1>5. Cardinality(after) \in Nat /\ Cardinality(before) \in Nat /\ Cardinality(Criteria) \in Nat
  BY <1>4, FS_CardinalityType
<1>6. CASE to = kind
  <2>1. Cardinality(after) = Cardinality(before) + 1
    BY <1>4, <1>3, <1>6, FS_AddElement
  <2> QED
    BY <1>4, <1>5, <1>6, <2>1 DEF Change, before, after
<1>7. CASE to # kind /\ result[v][a] = kind
  <2>1. Cardinality(after) = Cardinality(before) - 1
    BY <1>4, <1>3, <1>7, FS_RemoveElement
  <2> QED
    BY <1>4, <1>5, <1>7, <2>1 DEF Change, before, after
<1>8. CASE to # kind /\ result[v][a] # kind
  <2>1. Cardinality(after) = Cardinality(before)
    BY <1>3, <1>8
  <2> QED
    BY <1>4, <1>5, <1>8, <2>1 DEF Change, before, after
<1> QED
  BY <1>6, <1>7, <1>8

LEMMA MarkSet ==
  ASSUME UatTypeOK, CountsExact, NEW v \in Sessions, NEW a \in Criteria, NEW to \in Marks,
         SetResult(v, a, to)
  PROVE  /\ CountsExact' /\ SessionTyped'
         /\ result' \in [Sessions -> [Criteria -> {"none", "pending", "pass", "fail"}]]
         /\ result[v][a] # "none"
         /\ session[v].state \in Markable /\ session'[v].state \in Markable
         /\ \A x \in Criteria : x # a => result'[v][x] = result[v][x]
         /\ result'[v][a] = to
         /\ \A w \in Sessions : w # v => session'[w] = session[w] /\ result'[w] = result[w]
<1>1. /\ session[v].fail + Change(v, a, to, "fail") = Cardinality(Failed(v)')
      /\ Cardinality(Failed(v)') \in 0..Cardinality(Criteria)
  <2>1. Failed(v) = Of(v, "fail") /\ Failed(v)' = Of(v, "fail")'
    BY DEF Failed, Of
  <2> QED
    BY <2>1, MarkCounts DEF CountsExact
<1>2. /\ session[v].pass + Change(v, a, to, "pass") = Cardinality(Passed(v)')
      /\ Cardinality(Passed(v)') \in 0..Cardinality(Criteria)
  <2>1. Passed(v) = Of(v, "pass") /\ Passed(v)' = Of(v, "pass")'
    BY DEF Passed, Of
  <2> QED
    BY <2>1, MarkCounts DEF CountsExact
<1>3. /\ \A w \in Sessions : w # v => session'[w] = session[w] /\ result'[w] = result[w]
      /\ result' \in [Sessions -> [Criteria -> {"none", "pending", "pass", "fail"}]]
      /\ session[v].state \in Markable /\ result[v][a] # "none"
      /\ \A x \in Criteria : x # a => result'[v][x] = result[v][x]
      /\ result'[v][a] = to
  BY DEF SetResult, UatTypeOK, Marks
<1>4. session' = [session EXCEPT
        ![v].pass = @ + Change(v, a, to, "pass"), ![v].fail = @ + Change(v, a, to, "fail"),
        ![v].state = IF to # "pending" /\ @ = "started" THEN "in_progress" ELSE @]
  BY DEF SetResult, Change
<1>5. PICK pass \in 0..Cardinality(Criteria), fail \in 0..Cardinality(Criteria), state \in Markable :
        /\ pass = Cardinality(Passed(v)') /\ fail = Cardinality(Failed(v)')
        /\ session' = [session EXCEPT ![v] = [state |-> state, pass |-> pass, fail |-> fail]]
  <2>1. session[v] \in [state : SessionStates, pass : 0..Cardinality(Criteria),
                        fail : 0..Cardinality(Criteria)]
    BY DEF UatTypeOK
  <2>2. session'[v].state \in Markable
    BY <1>3, <1>4, <2>1 DEF UatTypeOK, Markable
  <2>3. session'[v] = [state |-> session'[v].state, pass |-> Cardinality(Passed(v)'),
                       fail |-> Cardinality(Failed(v)')]
    BY <1>1, <1>2, <1>4, <2>1 DEF UatTypeOK
  <2>4. session' = [session EXCEPT ![v] = session'[v]]
    BY <1>4 DEF UatTypeOK
  <2> QED
    BY <1>1, <1>2, <2>2, <2>3, <2>4
<1>6. \A w \in Sessions : w # v => Failed(w)' = Failed(w) /\ Passed(w)' = Passed(w)
  BY <1>3 DEF Failed, Passed
<1>7. CountsExact'
  BY <1>3, <1>5, <1>6 DEF CountsExact, UatTypeOK
<1>8. SessionTyped' /\ session'[v].state \in Markable
  BY <1>5 DEF SessionTyped, UatTypeOK, SessionStates, Markable
<1> QED
  BY <1>3, <1>7, <1>8

LEMMA CountsStep ==
  ASSUME UatTypeOK, CountsExact, SnapshotFresh, [UatNext]_uatVars
  PROVE  /\ CountsExact' /\ SessionTyped'
         /\ result' \in [Sessions -> [Criteria -> {"none", "pending", "pass", "fail"}]]
<1>1. ASSUME result' = result, SessionTyped',
             \A v \in Sessions : /\ session'[v].fail = session[v].fail
                               /\ session'[v].pass = session[v].pass
      PROVE  CountsExact'
  BY <1>1 DEF CountsExact, Failed, Passed
<1>2. ASSUME NEW c \in Callers, InsertResults(c)
      PROVE  /\ CountsExact' /\ SessionTyped'
             /\ result' \in [Sessions -> [Criteria -> {"none", "pending", "pass", "fail"}]]
  <2>1. \A v \in Sessions : Failed(v)' = Failed(v) /\ Passed(v)' = Passed(v)
    BY <1>2 DEF InsertResults, Failed, Passed, SnapshotFresh, UatTypeOK
  <2> QED
    BY <1>2, <2>1 DEF InsertResults, CountsExact, SessionTyped, UatTypeOK
<1> QED
  BY <1>1, <1>2, MarkSet, ResultSteps DEF UatTypeOK

UatRest == SnapshotFresh /\ ClosedTested /\ VerdictsSound /\ ReportsExact

\* The types a step may disturb besides those of the counts.
OthersTyped ==
  /\ CallerTyped
  /\ defect \in [Failures -> {"none", "open", "reopened", "resolved"}]
  /\ reports \in [Failures -> Nat]
  /\ untested \subseteq Sessions /\ cutShort \subseteq Sessions

\* A step that leaves the reporting calls and what they report alone.
LEMMA ReportsKept ==
  ASSUME UatTypeOK, ReportsExact, UNCHANGED <<reports, cutShort>>,
         \A w \in Sessions : Failed(w)' = Failed(w) /\ (Closed(w)' <=> Closed(w)),
         \A d \in Callers : Reporting(d) \/ Reporting(d)' => caller'[d] = caller[d]
  PROVE  ReportsExact'
<1>1. \A d \in Callers : Reporting(d)' <=> Reporting(d)
  BY DEF Reporting
<1>2. \A d \in Callers : Reporting(d) => caller'[d] = caller[d] /\ caller[d].session \in Sessions
  BY DEF Reporting, UatTypeOK
<1> QED
  BY <1>1, <1>2 DEF ReportsExact, ReportSound, AllReported

LEMMA SnapshotKept ==
  ASSUME SnapshotFresh, UNCHANGED <<session, result>>,
         \A d \in Callers : caller'[d].pc = "snapshot" => caller'[d] = caller[d]
  PROVE  SnapshotFresh'
BY DEF SnapshotFresh

LEMMA InsertSessionKeeps ==
  ASSUME UatTypeOK, UatInv, NEW c \in Callers, NEW v \in Sessions, InsertSession(c, v)
  PROVE  OthersTyped' /\ UatRest'
<1>1. /\ CallerTyped' /\ caller'[c].pc = "snapshot" /\ caller'[c].session = v
      /\ \A d \in Callers \ {c} : caller'[d] = caller[d]
  BY CallBegins DEF InsertSession, UatSteps
<1>2. \A w \in Sessions : /\ session'[w].fail = session[w].fail
                        /\ session'[w].state = IF w = v THEN "started" ELSE session[w].state
  BY StateSet DEF InsertSession, SessionStates
<1>3. /\ session[v].state = "absent" /\ caller[c].pc = "none"
      /\ UNCHANGED <<result, defect, reports, untested, cutShort>>
  BY DEF InsertSession
<1>4. \A d \in Callers : caller[d].pc # "none" => caller[d].session \in Sessions
  BY DEF UatTypeOK
<1>5. OthersTyped'
  BY <1>1, <1>3 DEF OthersTyped, UatTypeOK
<1>6. SnapshotFresh'
  BY <1>1, <1>2, <1>3, <1>4 DEF UatInv, SnapshotFresh
<1>7. \A w \in Sessions : Closed(w)' <=> Closed(w)
  BY <1>2, <1>3 DEF Closed
<1>8. ClosedTested'
  BY <1>3, <1>7 DEF UatInv, ClosedTested
<1>9. VerdictsSound'
  BY <1>1, <1>2, <1>3, <1>4, <1>7 DEF UatInv, VerdictsSound, Reporting
<1>10. ReportsExact'
  <2>1. \A w \in Sessions : Failed(w)' = Failed(w)
    BY <1>3 DEF Failed
  <2> QED
    BY <1>1, <1>3, <1>7, <2>1, ReportsKept DEF UatInv, Reporting
<1> QED
  BY <1>5, <1>6, <1>8, <1>9, <1>10 DEF UatRest

LEMMA InsertResultsKeeps ==
  ASSUME UatTypeOK, UatInv, NEW c \in Callers, InsertResults(c)
  PROVE  OthersTyped' /\ UatRest'
<1>1. /\ CallerTyped' /\ caller'[c].pc = "none"
      /\ \A d \in Callers \ {c} : caller'[d] = caller[d]
  BY CallEnds DEF InsertResults, NoCallOfUat
<1>2. PICK v \in Sessions : v = caller[c].session
  BY DEF InsertResults, UatTypeOK
<1>3. /\ caller[c].pc = "snapshot"
      /\ UNCHANGED <<session, defect, reports, untested, cutShort>>
      /\ \A a \in Criteria : result'[v][a] = "pending"
      /\ \A w \in Sessions : w # v => result'[w] = result[w]
  BY <1>2 DEF InsertResults, UatTypeOK
<1>4. \A d \in Callers : caller[d].pc # "none" => caller[d].session \in Sessions
  BY DEF UatTypeOK
<1>5. OthersTyped'
  BY <1>1, <1>3 DEF OthersTyped, UatTypeOK
<1>6. session[v].state # "absent" /\ \A a \in Criteria : result[v][a] = "none"
  BY <1>2, <1>3 DEF UatInv, SnapshotFresh
<1>7. SnapshotFresh'
  BY <1>1, <1>2, <1>3, <1>4, <1>6 DEF UatInv, SnapshotFresh
<1>8. ClosedTested'
  BY <1>3, <1>6 DEF UatInv, ClosedTested, Closed
<1>9. VerdictsSound'
  BY <1>1, <1>3 DEF UatInv, VerdictsSound, Reporting, Closed
<1>10. ReportsExact'
  <2>1. \A w \in Sessions : Failed(w)' = Failed(w)
    BY <1>3, <1>6 DEF Failed
  <2>2. \A w \in Sessions : Closed(w)' <=> Closed(w)
    BY <1>3 DEF Closed
  <2> QED
    BY <1>1, <1>3, <2>1, <2>2, ReportsKept DEF UatInv, Reporting
<1> QED
  BY <1>5, <1>7, <1>8, <1>9, <1>10 DEF UatRest

LEMMA SetResultKeeps ==
  ASSUME UatTypeOK, UatInv, NEW v \in Sessions, NEW a \in Criteria, NEW to \in Marks,
         SetResult(v, a, to)
  PROVE  OthersTyped' /\ UatRest'
<1>1. UNCHANGED <<defect, caller, reports, untested, cutShort>>
  BY DEF SetResult
<1>2. /\ result[v][a] # "none"
      /\ session[v].state \in Markable /\ session'[v].state \in Markable
      /\ \A x \in Criteria : x # a => result'[v][x] = result[v][x]
      /\ result'[v][a] # "none"
      /\ \A w \in Sessions : w # v => session'[w] = session[w] /\ result'[w] = result[w]
  BY MarkSet DEF UatInv, Marks
<1>3. OthersTyped'
  BY <1>1, UatTyped DEF OthersTyped, UatTypeOK, CallerTyped
<1>4. \A d \in Callers : caller[d].pc # "none" => caller[d].session \in Sessions
  BY DEF UatTypeOK
<1>5. /\ ~Closed(v) /\ ~Closed(v)' /\ session[v].state # "absent" /\ session'[v].state # "absent"
      /\ session'[v].state # "accepted"
      /\ \A w \in Sessions : Closed(w)' <=> Closed(w)
  BY <1>2 DEF Closed, Markable
<1>6. SnapshotFresh'
  <2>1. \A d \in Callers : caller[d].pc = "snapshot" => caller[d].session # v
    BY <1>2 DEF UatInv, SnapshotFresh
  <2> QED
    BY <1>1, <1>2, <1>4, <1>5, <2>1 DEF UatInv, SnapshotFresh
<1>7. ClosedTested'
  BY <1>1, <1>2, <1>5 DEF UatInv, ClosedTested
<1>8. \A d \in Callers : caller[d].pc \notin {"none", "snapshot"} => caller[d].session # v
  BY <1>5 DEF UatInv, VerdictsSound
<1>9. VerdictsSound'
  BY <1>1, <1>2, <1>4, <1>5, <1>8 DEF UatInv, VerdictsSound, Reporting
<1>10. ReportsExact'
  <2>1. \A w \in Sessions : w # v => Failed(w)' = Failed(w)
    BY <1>2 DEF Failed
  <2>2. \A d \in Callers : Reporting(d) => caller[d].session \in Sessions \ {v}
    BY <1>4, <1>8 DEF Reporting
  <2> QED
    BY <1>1, <1>5, <2>1, <2>2 DEF UatInv, ReportsExact, ReportSound, AllReported, Reporting
<1> QED
  BY <1>3, <1>6, <1>7, <1>9, <1>10 DEF UatRest

LEMMA SubmitKeeps ==
  ASSUME UatTypeOK, UatInv, NEW c \in Callers, NEW v \in Sessions, Submit(c, v)
  PROVE  OthersTyped' /\ UatRest'
<1>1. /\ CallerTyped'
      /\ caller'[c].pc = "reporting" /\ caller'[c].session = v
      /\ caller'[c].todo = Failed(v) /\ caller'[c].outcome = Outcome(v)
      /\ \A d \in Callers \ {c} : caller'[d] = caller[d]
  BY SubmitBegins
<1>2. \A w \in Sessions : /\ session'[w].fail = session[w].fail
                        /\ session'[w].state = IF w = v THEN "submitted" ELSE session[w].state
  BY StateSet DEF Submit, SessionStates
<1>3. /\ caller[c].pc = "none" /\ session[v].state \in {"started", "in_progress"}
      /\ UNCHANGED <<result, defect, reports, cutShort>>
  BY DEF Submit
<1>4. \A d \in Callers : caller[d].pc # "none" => caller[d].session \in Sessions
  BY DEF UatTypeOK
<1>5. OthersTyped'
  BY <1>1, <1>3 DEF OthersTyped, UatTypeOK, Submit
<1>6. SnapshotFresh'
  BY <1>1, <1>2, <1>3, <1>4 DEF UatInv, SnapshotFresh
<1>7. ~Closed(v) /\ Closed(v)' /\ \A w \in Sessions : w # v => (Closed(w)' <=> Closed(w))
  BY <1>2, <1>3 DEF Closed
<1>8. ClosedTested'
  <2>1. v \notin untested' => \A a \in Criteria : result[v][a] \in {"pass", "fail"}
    BY DEF Submit, UatTypeOK
  <2>2. untested \subseteq untested'
    BY DEF Submit
  <2> QED
    BY <1>3, <1>7, <2>1, <2>2 DEF UatInv, ClosedTested
<1>9. \A d \in Callers : caller[d].pc \notin {"none", "snapshot"} => caller[d].session # v
  BY <1>7 DEF UatInv, VerdictsSound
<1>10. VerdictsSound'
  <2>1. Outcome(v) = "accepted" => session[v].fail = 0
    BY DEF Outcome
  <2> QED
    BY <1>1, <1>2, <1>3, <1>4, <1>7, <1>9, <2>1 DEF UatInv, VerdictsSound, Reporting
<1>11. ReportsExact'
  <2>1. \A w \in Sessions : Failed(w)' = Failed(w) /\ Failed(w) \subseteq Criteria
    BY <1>3 DEF Failed
  <2>2. \A d \in Callers \ {c} : (Reporting(d)' <=> Reporting(d)) /\ caller'[d] = caller[d]
    BY <1>1 DEF Reporting
  <2>3. ~Reporting(c) /\ Reporting(c)' /\ caller'[c].pc # "writing"
    BY <1>1, <1>3 DEF Reporting
  <2>4. \A d \in Callers : Reporting(d) => caller[d].session \in Sessions \ {v}
    BY <1>4, <1>9 DEF Reporting
  <2>5. \A a \in Criteria : reports[<<v, a>>] = 0
    BY <1>7 DEF UatInv, ReportsExact, ReportSound, AllReported
  <2> QED
    BY <1>1, <1>3, <1>7, <2>1, <2>2, <2>3, <2>4, <2>5 DEF UatInv, ReportsExact, ReportSound,
          AllReported
<1> QED
  BY <1>5, <1>6, <1>8, <1>10, <1>11 DEF UatRest

\* The steps of a reporting call but its end change no session and no result.
LEMMA FindDefectKeeps ==
  ASSUME UatTypeOK, UatInv, NEW c \in Callers, NEW a \in Criteria, FindDefect(c, a)
  PROVE  OthersTyped' /\ UatRest'
<1>1. /\ CallerTyped'
      /\ caller[c].pc = "reporting" /\ caller'[c].pc = "writing"
      /\ caller'[c].at = <<caller[c].session, a>> /\ a \in caller[c].todo
      /\ caller'[c].session = caller[c].session /\ caller'[c].todo = caller[c].todo
      /\ caller'[c].outcome = caller[c].outcome
      /\ \A d \in Callers \ {c} : caller'[d] = caller[d]
  BY DefectFound
<1>2. UNCHANGED <<session, result, defect, reports, untested, cutShort>>
  BY DEF FindDefect
<1>3. OthersTyped'
  BY <1>1, <1>2 DEF OthersTyped, UatTypeOK
<1>4. SnapshotFresh'
  BY <1>1, <1>2 DEF UatInv, SnapshotFresh
<1>5. \A w \in Sessions : (Closed(w)' <=> Closed(w)) /\ Failed(w)' = Failed(w)
  BY <1>2 DEF Closed, Failed
<1>6. \A d \in Callers : /\ Reporting(d)' <=> Reporting(d)
                        /\ caller'[d].session = caller[d].session
                        /\ caller'[d].todo = caller[d].todo
                        /\ caller'[d].outcome = caller[d].outcome
  BY <1>1 DEF Reporting
<1>7. \A d \in Callers : caller[d].pc # "none" => caller[d].session \in Sessions
  BY DEF UatTypeOK
<1>8. ClosedTested'
  BY <1>2, <1>5 DEF UatInv, ClosedTested
<1>9. VerdictsSound'
  BY <1>1, <1>2, <1>5, <1>6, <1>7 DEF UatInv, VerdictsSound
<1>10. ReportsExact'
  BY <1>1, <1>2, <1>5, <1>6, <1>7 DEF UatInv, ReportsExact, ReportSound, AllReported, Reporting
<1> QED
  BY <1>3, <1>4, <1>8, <1>9, <1>10 DEF UatRest

LEMMA WriteDefectKeeps ==
  ASSUME UatTypeOK, UatInv, NEW c \in Callers, WriteDefect(c)
  PROVE  OthersTyped' /\ UatRest'
<1>1. PICK a \in caller[c].todo, v \in Sessions :
        /\ CallerTyped'
        /\ v = caller[c].session /\ caller[c].pc = "writing" /\ caller'[c].pc = "reporting"
        /\ caller'[c].session = v /\ caller'[c].todo = caller[c].todo \ {a}
        /\ caller'[c].outcome = caller[c].outcome
        /\ \A d \in Callers \ {c} : caller'[d] = caller[d]
        /\ <<v, a>> \in Failures /\ reports' = [reports EXCEPT ![<<v, a>>] = @ + 1]
        /\ defect' \in [Failures -> {"none", "open", "reopened", "resolved"}]
  BY DefectWritten DEF UatInv
<1>2. UNCHANGED <<session, result, untested, cutShort>>
  BY DEF WriteDefect
<1>3. OthersTyped'
  BY <1>1, <1>2 DEF OthersTyped, UatTypeOK
<1>4. SnapshotFresh'
  BY <1>1, <1>2 DEF UatInv, SnapshotFresh
<1>5. \A w \in Sessions : (Closed(w)' <=> Closed(w)) /\ Failed(w)' = Failed(w)
  BY <1>2 DEF Closed, Failed
<1>6. \A d \in Callers : /\ Reporting(d)' <=> Reporting(d)
                        /\ caller'[d].session = caller[d].session
                        /\ caller'[d].outcome = caller[d].outcome
  BY <1>1 DEF Reporting
<1>7. \A d \in Callers : caller[d].pc # "none" => caller[d].session \in Sessions
  BY DEF UatTypeOK
<1>8. ClosedTested'
  BY <1>2, <1>5 DEF UatInv, ClosedTested
<1>9. VerdictsSound'
  BY <1>1, <1>2, <1>5, <1>6, <1>7 DEF UatInv, VerdictsSound
<1>10. ReportsExact'
  <2>1. a \in Failed(v) /\ Closed(v) /\ reports[<<v, a>>] = 0 /\ a \in Criteria
    BY <1>1 DEF UatInv, ReportsExact, ReportSound, VerdictsSound, Reporting, Failed
  <2>2. /\ reports'[<<v, a>>] = 1
        /\ \A f \in Failures : f # <<v, a>> => reports'[f] = reports[f]
    BY <1>1, <2>1 DEF UatTypeOK
  <2>3. \A w \in 0..MaxSessions, x \in Criteria :
          w # v \/ x # a => reports'[<<w, x>>] = reports[<<w, x>>]
    BY <2>2 DEF Failures
  <2>4. \A w \in Sessions, x \in Criteria :
          w # v \/ x # a => reports'[<<w, x>>] = reports[<<w, x>>]
    BY <2>3 DEF Sessions
  <2>5. \A x \in Criteria : reports'[<<0, x>>] = 0
    <3>1. 0 \in 0..MaxSessions /\ 0 # v
      BY DEF Sessions
    <3>2. \A x \in Criteria : reports[<<0, x>>] = 0
      BY DEF UatInv, ReportsExact
    <3> QED
      BY <2>3, <3>1, <3>2
  <2>6. \A w \in Sessions : Failed(w) \subseteq Criteria
    BY DEF Failed
  <2>7. \A d \in Callers \ {c} : Reporting(d) => caller[d].session \in Sessions \ {v}
    BY <1>1, <1>7 DEF UatInv, ReportsExact, ReportSound, Reporting
  <2>8. ASSUME NEW d \in Callers, Reporting(d)' PROVE ReportSound(d)'
    <3>1. Reporting(d) /\ ReportSound(d) /\ caller[d].session \in Sessions
      BY <1>6, <1>7, <2>8 DEF UatInv, ReportsExact, Reporting
    <3>2. \A e \in Callers \ {d} : Reporting(e)' => caller'[e].session # caller'[d].session
      BY <1>6, <3>1 DEF ReportSound
    <3>3. CASE d = c
      <4>1. caller[c].todo \subseteq Failed(v)
        BY <1>1, <3>1, <3>3 DEF ReportSound
      <4>2. \A x \in Failed(v) :
              reports'[<<v, x>>] = IF x \in caller[c].todo \ {a} THEN 0 ELSE 1
        BY <1>1, <2>2, <2>4, <2>6, <3>1, <3>3 DEF ReportSound
      <4> QED
        BY <1>1, <1>5, <3>2, <3>3, <4>1, <4>2 DEF ReportSound
    <3>4. CASE d # c
      <4>1. caller'[d] = caller[d] /\ caller[d].session \in Sessions \ {v}
        BY <1>1, <2>7, <3>1, <3>4
      <4>2. \A x \in Failed(caller[d].session) :
              reports'[<<caller[d].session, x>>] = reports[<<caller[d].session, x>>]
        BY <2>4, <2>6, <4>1
      <4> QED
        BY <1>5, <3>1, <3>2, <4>1, <4>2 DEF ReportSound
    <3> QED
      BY <3>3, <3>4
  <2>9. ASSUME NEW w \in Sessions, NEW x \in Criteria
        PROVE  reports'[<<w, x>>] \in {0, 1} /\ (~Closed(w)' => reports'[<<w, x>>] = 0)
    <3>1. reports[<<w, x>>] \in {0, 1} /\ (~Closed(w) => reports[<<w, x>>] = 0)
      BY DEF UatInv, ReportsExact
    <3> QED
      BY <1>5, <2>1, <2>2, <2>4, <3>1
  <2>10. ASSUME NEW w \in Sessions \ cutShort, Closed(w) PROVE AllReported(w)'
    <3>1. CASE \E d \in Callers : Reporting(d) /\ caller[d].session = w
      BY <1>6, <3>1 DEF AllReported
    <3>2. CASE ~\E d \in Callers : Reporting(d) /\ caller[d].session = w
      <4>1. w # v /\ \A x \in Failed(w) : reports[<<w, x>>] = 1
        BY <1>1, <2>10, <3>2 DEF UatInv, ReportsExact, AllReported, Reporting
      <4> QED
        BY <1>5, <2>4, <2>6, <4>1 DEF AllReported
    <3> QED
      BY <3>1, <3>2
  <2> QED
    BY <1>2, <1>5, <2>5, <2>8, <2>9, <2>10 DEF ReportsExact
<1> QED
  BY <1>3, <1>4, <1>8, <1>9, <1>10 DEF UatRest

\* Calls that decide a session: a submit at its end, and accepts at their end.
LEMMA DecisionKeeps ==
  ASSUME UatTypeOK, UatInv, NEW c \in Callers, NEW v \in Sessions, NEW to \in SessionStates,
         v = caller[c].session, caller[c].pc \notin {"none", "snapshot"},
         to \in Verdicts, to = "accepted" => session[v].fail = 0,
         Reporting(c) => caller[c].todo = {},
         SetState(v, to), EndCall(c), UNCHANGED <<result, defect, reports, untested, cutShort>>
  PROVE  OthersTyped' /\ UatRest'
<1>1. /\ CallerTyped' /\ caller'[c].pc = "none"
      /\ \A d \in Callers \ {c} : caller'[d] = caller[d]
  BY CallEnds DEF NoCallOfUat
<1>2. \A w \in Sessions : /\ session'[w].fail = session[w].fail
                        /\ session'[w].state = IF w = v THEN to ELSE session[w].state
  BY StateSet
<1>3. \A d \in Callers : caller[d].pc # "none" => caller[d].session \in Sessions
  BY DEF UatTypeOK
<1>4. OthersTyped'
  BY <1>1 DEF OthersTyped, UatTypeOK
<1>5. Closed(v) /\ Closed(v)' /\ session[v].state # "absent" /\ session'[v].state # "absent"
  BY <1>2 DEF UatInv, VerdictsSound, Closed, Verdicts
<1>6. \A w \in Sessions : (Closed(w)' <=> Closed(w)) /\ Failed(w)' = Failed(w)
  BY <1>2, <1>5 DEF Closed, Failed
<1>7. SnapshotFresh'
  BY <1>1, <1>2, <1>3, <1>5 DEF UatInv, SnapshotFresh
<1>8. ClosedTested'
  BY <1>6 DEF UatInv, ClosedTested
<1>9. VerdictsSound'
  BY <1>1, <1>2, <1>3, <1>6 DEF UatInv, VerdictsSound, Reporting
<1>10. ReportsExact'
  <2>1. CASE ~Reporting(c)
    BY <1>1, <1>6, <2>1, ReportsKept DEF UatInv, Reporting
  <2>2. CASE Reporting(c)
    <3>1. \A a \in Failed(v) : reports[<<v, a>>] = 1
      BY <2>2 DEF UatInv, ReportsExact, ReportSound
    <3>2. \A d \in Callers : Reporting(d)' => Reporting(d) /\ d # c /\ caller'[d] = caller[d]
      BY <1>1 DEF Reporting
    <3>3. ASSUME NEW d \in Callers, Reporting(d)' PROVE ReportSound(d)'
      BY <1>3, <1>6, <3>2, <3>3 DEF UatInv, ReportsExact, ReportSound, Reporting
    <3>4. ASSUME NEW w \in Sessions \ cutShort, Closed(w) PROVE AllReported(w)'
      <4>1. CASE w = v
        BY <1>6, <3>1, <4>1 DEF AllReported
      <4>2. CASE w # v
        BY <1>1, <1>6, <3>4, <4>2 DEF UatInv, ReportsExact, AllReported, Reporting
      <4> QED
        BY <4>1, <4>2
    <3> QED
      BY <1>6, <3>3, <3>4 DEF UatInv, ReportsExact
  <2> QED
    BY <2>1, <2>2
<1> QED
  BY <1>4, <1>7, <1>8, <1>9, <1>10 DEF UatRest

LEMMA DecideSessionKeeps ==
  ASSUME UatTypeOK, UatInv, NEW c \in Callers, DecideSession(c)
  PROVE  OthersTyped' /\ UatRest'
<1>1. /\ caller[c].session \in Sessions /\ caller[c].outcome \in Verdicts
      /\ caller[c].pc = "reporting" /\ caller[c].todo = {}
  BY DEF DecideSession, UatTypeOK
<1>2. caller[c].outcome \in SessionStates
  BY <1>1 DEF SessionStates
<1>3. caller[c].outcome = "accepted" => session[caller[c].session].fail = 0
  BY <1>1 DEF UatInv, VerdictsSound, Reporting
<1> QED
  BY <1>1, <1>2, <1>3, DecisionKeeps DEF DecideSession

LEMMA AcceptEndKeeps ==
  ASSUME UatTypeOK, UatInv, NEW c \in Callers, AcceptEnd(c)
  PROVE  OthersTyped' /\ UatRest'
<1>1. /\ caller[c].session \in Sessions /\ ~Reporting(c)
      /\ caller[c].pc \notin {"none", "snapshot"}
  BY DEF AcceptEnd, UatTypeOK, Reporting
<1>2. caller[c].pc = "accepting" => session[caller[c].session].fail = 0
  BY DEF UatInv, VerdictsSound
<1>3. EndCall(c) /\ UNCHANGED <<result, defect, reports, untested, cutShort>>
  BY DEF AcceptEnd
<1>4. /\ "accepted" \in SessionStates \cap Verdicts
      /\ "partially_accepted" \in SessionStates \cap Verdicts
  BY DEF SessionStates, Verdicts
<1>5. CASE caller[c].pc = "accepting" /\ SetState(caller[c].session, "accepted")
  BY <1>1, <1>2, <1>3, <1>4, <1>5, DecisionKeeps
<1>6. CASE caller[c].pc = "accepting partially" /\ SetState(caller[c].session, "partially_accepted")
  BY <1>1, <1>3, <1>4, <1>6, DecisionKeeps
<1> QED
  BY <1>5, <1>6 DEF AcceptEnd

\* What happens to defects alone.
LEMMA DefectStepsKeep ==
  ASSUME UatTypeOK, UatInv,
         UNCHANGED <<session, result, caller, reports, untested, cutShort>>,
         defect' \in [Failures -> {"none", "open", "reopened", "resolved"}]
  PROVE  OthersTyped' /\ UatRest'
<1>1. \A w \in Sessions : (Closed(w)' <=> Closed(w)) /\ Failed(w)' = Failed(w)
  BY DEF Closed, Failed
<1>2. ClosedTested'
  BY <1>1 DEF UatInv, ClosedTested
<1> QED
  BY <1>1, <1>2, ReportsKept, UatTyped
     DEF UatInv, UatRest, SnapshotFresh, VerdictsSound, Reporting, OthersTyped, UatTypeOK, CallerTyped, Closed

\* accept() and partialAccept() as they begin.
LEMMA AcceptBeginKeeps ==
  ASSUME UatTypeOK, UatInv, NEW c \in Callers, NEW v \in Sessions,
         AcceptBegin(c, v) \/ PartialAcceptBegin(c, v)
  PROVE  OthersTyped' /\ UatRest'
<1>1. PICK step \in {"accepting", "accepting partially"} :
        /\ caller[c].pc = "none" /\ session[v].state = "submitted" /\ InCall(c, v, step)
        /\ step = "accepting" => session[v].fail = 0
  BY DEF AcceptBegin, PartialAcceptBegin
<1>2. step \in UatSteps \ {"reporting", "writing"}
  BY DEF UatSteps
<1>3. /\ CallerTyped' /\ caller'[c].session = v
      /\ caller'[c].pc \in {"accepting", "accepting partially"}
      /\ caller'[c].pc = "accepting" => session[v].fail = 0
      /\ \A d \in Callers \ {c} : caller'[d] = caller[d]
  BY <1>1, <1>2, CallBegins
<1>4. UNCHANGED <<session, result, defect, reports, untested, cutShort>>
  BY DEF AcceptBegin, PartialAcceptBegin
<1>5. \A w \in Sessions : (Closed(w)' <=> Closed(w)) /\ Failed(w)' = Failed(w)
  BY <1>4 DEF Closed, Failed
<1>6. \A d \in Callers : caller[d].pc # "none" => caller[d].session \in Sessions
  BY DEF UatTypeOK
<1>7. OthersTyped'
  BY <1>3, <1>4 DEF OthersTyped, UatTypeOK
<1>8. SnapshotFresh'
  BY <1>3, <1>4, SnapshotKept DEF UatInv
<1>9. ClosedTested'
  BY <1>4, <1>5 DEF UatInv, ClosedTested
<1>10. VerdictsSound'
  <2>1. Closed(v)
    BY <1>1 DEF Closed
  <2> QED
    BY <1>3, <1>4, <1>5, <1>6, <2>1 DEF UatInv, VerdictsSound, Reporting
<1>11. ReportsExact'
  BY <1>1, <1>3, <1>4, <1>5, ReportsKept DEF UatInv, Reporting
<1> QED
  BY <1>7, <1>8, <1>9, <1>10, <1>11 DEF UatRest

LEMMA CallBreaksOffKeeps ==
  ASSUME UatTypeOK, UatInv, NEW c \in Callers, CallBreaksOff(c)
  PROVE  OthersTyped' /\ UatRest'
<1>1. /\ CallerTyped' /\ caller'[c].pc = "none"
      /\ \A d \in Callers \ {c} : caller'[d] = caller[d]
  BY CallEnds DEF CallBreaksOff, NoCallOfUat
<1>2. /\ UNCHANGED <<session, result, defect, reports, untested>>
      /\ cutShort \subseteq cutShort' /\ cutShort' \subseteq Sessions
      /\ Reporting(c) => caller[c].session \in cutShort'
  BY DEF CallBreaksOff, UatTypeOK, Reporting
<1>3. \A d \in Callers : caller[d].pc # "none" => caller[d].session \in Sessions
  BY DEF UatTypeOK
<1>4. \A w \in Sessions : (Closed(w)' <=> Closed(w)) /\ Failed(w)' = Failed(w)
  BY <1>2 DEF Closed, Failed
<1>5. OthersTyped'
  BY <1>1, <1>2 DEF OthersTyped, UatTypeOK
<1>6. SnapshotFresh'
  BY <1>1, <1>2, <1>3 DEF UatInv, SnapshotFresh
<1>7. ClosedTested'
  BY <1>2, <1>4 DEF UatInv, ClosedTested
<1>8. VerdictsSound'
  BY <1>1, <1>2, <1>3, <1>4 DEF UatInv, VerdictsSound, Reporting
<1>9. ReportsExact'
  <2>1. \A d \in Callers : Reporting(d)' => Reporting(d) /\ d # c /\ caller'[d] = caller[d]
    BY <1>1 DEF Reporting
  <2>2. ASSUME NEW d \in Callers, Reporting(d)' PROVE ReportSound(d)'
    BY <1>2, <1>3, <1>4, <2>1, <2>2 DEF UatInv, ReportsExact, ReportSound, Reporting
  <2>3. ASSUME NEW w \in Sessions \ cutShort', Closed(w) PROVE AllReported(w)'
    <3>1. AllReported(w)
      BY <1>2, <2>3 DEF UatInv, ReportsExact
    <3>2. \A d \in Callers : Reporting(d) /\ caller[d].session = w =>
            d # c /\ Reporting(d)' /\ caller'[d].session = w
      BY <1>1, <1>2, <2>3 DEF Reporting
    <3> QED
      BY <1>2, <1>4, <3>1, <3>2 DEF AllReported
  <2> QED
    BY <1>2, <1>4, <2>2, <2>3 DEF UatInv, ReportsExact
<1> QED
  BY <1>5, <1>6, <1>7, <1>8, <1>9 DEF UatRest

LEMMA UatStep ==
  ASSUME UatTypeOK, UatInv, [UatNext]_uatVars
  PROVE  UatTypeOK' /\ UatInv'
<1>1. ASSUME NEW c \in Callers, CallerNext(c) PROVE OthersTyped' /\ UatRest'
  BY <1>1, InsertSessionKeeps, InsertResultsKeeps, SubmitKeeps, FindDefectKeeps, WriteDefectKeeps,
     DecideSessionKeeps, AcceptBeginKeeps, AcceptEndKeeps, CallBreaksOffKeeps DEF CallerNext
<1>2. ASSUME NEW v \in Sessions, NEW a \in Criteria, MarkAC(v, a) \/ UnmarkAC(v, a)
      PROVE  OthersTyped' /\ UatRest'
  BY <1>2, SetResultKeeps DEF MarkAC, UnmarkAC, Marks
<1>3. ASSUME NEW a \in Criteria, SubmitDefect(a) PROVE OthersTyped' /\ UatRest'
  BY <1>3, DefectStepsKeep DEF SubmitDefect, UatTypeOK
<1>4. ASSUME NEW f \in Failures, MarkDefectFixed(f) PROVE OthersTyped' /\ UatRest'
  BY <1>4, DefectStepsKeep DEF MarkDefectFixed, UatTypeOK
<1>5. ASSUME UNCHANGED uatVars PROVE OthersTyped' /\ UatRest'
  BY <1>5, DefectStepsKeep DEF uatVars, UatTypeOK
<1>6. OthersTyped' /\ UatRest'
  BY <1>1, <1>2, <1>3, <1>4, <1>5 DEF UatNext
<1>7. /\ CountsExact' /\ SessionTyped'
      /\ result' \in [Sessions -> [Criteria -> {"none", "pending", "pass", "fail"}]]
  BY CountsStep DEF UatInv
<1>8. UatTypeOK'
  BY <1>6, <1>7 DEF OthersTyped, SessionTyped, UatTypeOK, CallerTyped, CallRecords, CallFits
<1> QED
  BY <1>6, <1>7, <1>8 DEF UatRest, UatInv

LEMMA UatStart == UatInit => UatTypeOK /\ UatInv
<1> SUFFICES ASSUME UatInit PROVE UatTypeOK /\ UatInv
  OBVIOUS
<1>1. Cardinality(Criteria) \in Nat
  BY FS_CardinalityType
<1>2. \A v \in Sessions : Failed(v) = {} /\ Passed(v) = {}
  BY DEF UatInit, Failed, Passed
<1>3. CountsExact
  BY <1>2, FS_EmptySet DEF UatInit, CountsExact
<1>4. CallerTyped
  BY NoCallTyped DEF UatInit, CallerTyped
<1>5. UatTypeOK
  BY <1>1, <1>4 DEF UatInit, UatTypeOK, CallerTyped, CallRecords, CallFits, SessionStates
<1>6. \A v \in 0..MaxSessions, a \in Criteria : reports[<<v, a>>] = 0
  BY DEF UatInit, Failures
<1>7. \A v \in Sessions : ~Closed(v) /\ v \in 0..MaxSessions
  BY DEF UatInit, Closed, Sessions
<1>8. \A c \in Callers : caller[c].pc = "none"
  BY DEF UatInit, NoCallOfUat
<1>9. ReportsExact
  <2>1. 0 \in 0..MaxSessions
    OBVIOUS
  <2> QED
    BY <1>6, <1>7, <1>8, <2>1 DEF ReportsExact, Reporting
<1> QED
  BY <1>3, <1>5, <1>7, <1>8, <1>9
     DEF UatInv, SnapshotFresh, ClosedTested, VerdictsSound, Reporting, UatInit

LEMMA UatInvariant == UatSpec => [](UatTypeOK /\ UatInv)
<1>1. UatTypeOK /\ UatInv /\ [UatNext]_uatVars => (UatTypeOK /\ UatInv)'
  BY UatStep
<1> QED
  BY <1>1, UatStart, PTL DEF UatSpec

\* Every reachable state of sessions, marks, defects and calls is well typed.
THEOREM UatTypeCorrect == UatSpec => []UatTypeOK
BY UatInvariant, PTL

\* However marks, accepts and submits overlap, an accepted session has every
\* criterion passed, unless it was submitted before its results had rows
\* (DefaultUATService.submit and accept).
THEOREM AcceptedSessionsTested == UatSpec => []AcceptedWasTested
<1>1. UatTypeOK /\ UatInv => AcceptedWasTested
  <2> SUFFICES ASSUME UatTypeOK, UatInv, NEW v \in Sessions \ untested,
                      session[v].state = "accepted", NEW a \in Criteria
               PROVE  result[v][a] = "pass"
    BY DEF AcceptedWasTested
  <2>1. Closed(v)
    BY DEF Closed
  <2>2. Cardinality(Failed(v)) = 0
    BY DEF UatInv, CountsExact, VerdictsSound
  <2>3. IsFiniteSet(Failed(v))
    BY FS_Subset, Failed(v) \in SUBSET Criteria DEF Failed
  <2>4. Failed(v) = {}
    BY <2>2, <2>3, FS_EmptySet
  <2> QED
    BY <2>1, <2>4 DEF UatInv, ClosedTested, Failed
<1> QED
  BY <1>1, UatInvariant, PTL

\* A failed criterion is reported once at most, and once exactly when the submit
\* that turned its session down ran to its end (DefaultUATService.submit).
THEOREM FailuresReported == UatSpec => []FailuresReportedOnce
<1>1. UatTypeOK /\ UatInv => FailuresReportedOnce
  <2> SUFFICES ASSUME UatTypeOK, UatInv PROVE FailuresReportedOnce
    OBVIOUS
  <2>1. ASSUME NEW f \in Failures PROVE reports[f] <= 1
    <3>1. PICK v \in 0..MaxSessions, a \in Criteria : f = <<v, a>>
      BY DEF Failures
    <3>2. v = 0 \/ v \in Sessions
      BY DEF Sessions
    <3>3. reports[<<v, a>>] \in {0, 1}
      BY <3>2 DEF UatInv, ReportsExact
    <3> QED
      BY <3>1, <3>3
  <2>2. ASSUME NEW v \in Sessions \ cutShort,
               session[v].state \in {"partially_accepted", "rejected"},
               \A c \in Callers : caller[c].session # v
        PROVE  \A a \in Failed(v) : reports[<<v, a>>] = 1
    BY <2>2 DEF UatInv, ReportsExact, AllReported, Closed
  <2> QED
    BY <2>1, <2>2 DEF FailuresReportedOnce
<1> QED
  BY <1>1, UatInvariant, PTL

HIDE UatAssumption

-----------------------------------------------------------------------------
(* SprintShare                                                             *)

\* The deficits of any few scheduled sprints together are under what one
\* sprint may gain, and above what as many turns in a row would cost them: a
\* debt of one slot for each sprint but the first, one less for the next one.
\* The bounds on groups are needed: a bound on each sprint alone is not
\* preserved by a turn.
SprintCount == Cardinality(Sprints)
Debt(k) == Scale * (2 * k * SprintCount - k * (k + 1))  \* in half units
Group(T) == SumOver(deficit, T)

ShareInv ==
  /\ ShareTypeOK
  /\ \A s \in Sprints \ scheduled : deficit[s] = 0
  /\ \A T \in SUBSET scheduled : /\ Group(T) < Scale * (SprintCount - 1)
                                 /\ T # {} => 2 * Group(T) > -Debt(Cardinality(T))

LEMMA ShareSpecSizes ==
  /\ Scale \in Nat \ {0} /\ Scale \in Int /\ SprintCount \in Nat
  /\ \A T \in SUBSET Sprints : IsFiniteSet(T) /\ Cardinality(T) \in 0..SprintCount
<1>1. IsFiniteSet(Sprints) /\ Scale \in Nat \ {0}
  BY ShareAssumption
<1>2. SprintCount \in Nat
  BY <1>1, FS_CardinalityType DEF SprintCount
<1>3. ASSUME NEW T \in SUBSET Sprints PROVE IsFiniteSet(T) /\ Cardinality(T) \in 0..SprintCount
  <2>1. IsFiniteSet(T) /\ Cardinality(T) <= SprintCount
    BY <1>1, FS_Subset DEF SprintCount
  <2>2. Cardinality(T) \in Nat
    BY <2>1, FS_CardinalityType
  <2> QED
    BY <1>2, <2>1, <2>2
<1> QED
  BY <1>1, <1>2, <1>3

\* The shares of a turn: none is negative and together they are one slot.
LEMMA SharesAddUp ==
  ASSUME scheduled \in SUBSET Sprints, scheduled # {},
         NEW share, share = [s \in scheduled |-> Share(s)]
  PROVE  /\ \A s \in scheduled : share[s] \in Nat
         /\ SumOver(share, scheduled) = Scale
         /\ \A T \in SUBSET scheduled : SumOver(share, T) \in 0..Scale
<1> DEFINE weight == TotalPriority[scheduled]
<1>0. IsFiniteSet(scheduled)
  BY ShareSpecSizes
<1>1. weight = SumOver(Priority, scheduled)
  BY DEF TotalPriority, SumOver
<1>2. \A s \in scheduled : Priority[s] \in 1..5
  BY ShareAssumption
<1>3. weight \in Nat \ {0}
  <2>1. PICK s \in scheduled : SumOver(Priority, scheduled) = Priority[s] + SumOver(Priority, scheduled \ {s})
    BY <1>0, SumOverChosen
  <2>2. SumOver(Priority, scheduled \ {s}) \in Nat
    <3>1. IsFiniteSet(scheduled \ {s})
      BY <1>0, FS_Subset
    <3>2. \A r \in scheduled \ {s} : Priority[r] \in Nat
      BY <1>2
    <3> QED
      BY <3>1, <3>2, SumOverNat
  <2> QED
    BY <1>1, <1>2, <2>1, <2>2
<1>4. ASSUME NEW s \in scheduled
      PROVE  share[s] \in Nat /\ weight * share[s] = Scale * Priority[s]
  <2>1. Priority[s] * Scale \in Nat /\ (Priority[s] * Scale) % weight = 0
    BY <1>2, ShareSpecSizes, ScaleIsCommon
  <2>2. share[s] = (Priority[s] * Scale) \div weight
    BY DEF Share
  <2>3. \A n \in Nat, w \in Nat \ {0} : n % w = 0 => n \div w \in Nat /\ w * (n \div w) = n
    BY Z3
  <2>4. Priority[s] * Scale = Scale * Priority[s]
    BY <1>2, ShareSpecSizes
  <2> HIDE DEF weight
  <2> QED
    BY <1>3, <2>1, <2>2, <2>3, <2>4
<1>5. SumOver(share, scheduled) = Scale
  <2>1. weight * SumOver(share, scheduled) = Scale * SumOver(Priority, scheduled)
    <3>1. \A s \in scheduled : share[s] \in Int /\ Priority[s] \in Int
      BY <1>2, <1>4
    <3>2. weight \in Int /\ Scale \in Int
      BY <1>3, ShareSpecSizes
    <3> HIDE DEF weight
    <3> QED
      BY <1>0, <1>4, <3>1, <3>2, SumOverScaled
  <2>2. SumOver(share, scheduled) \in Int
    BY <1>0, <1>4, SumOverInt
  <2>3. \A x, y \in Int, w \in Nat \ {0} : w * x = y * w => x = y
    BY Z3
  <2>4. Scale \in Int
    BY ShareSpecSizes
  <2> HIDE DEF weight
  <2> QED
    BY <1>1, <1>3, <2>1, <2>2, <2>3, <2>4
<1>6. ASSUME NEW T \in SUBSET scheduled PROVE SumOver(share, T) \in 0..Scale
  <2>1. IsFiniteSet(T) /\ IsFiniteSet(scheduled \ T)
    BY <1>0, FS_Subset
  <2>2. SumOver(share, T) \in Nat /\ SumOver(share, scheduled \ T) \in Nat
    BY <1>4, <2>1, SumOverNat
  <2>3. SumOver(share, T \cup (scheduled \ T)) = SumOver(share, T) + SumOver(share, scheduled \ T)
    <3>1. \A s \in T \cup (scheduled \ T) : share[s] \in Int
      BY <1>4
    <3>2. T \cap (scheduled \ T) = {}
      OBVIOUS
    <3> QED
      BY <2>1, <3>1, <3>2, SumOverUnion
  <2>4. T \cup (scheduled \ T) = scheduled
    OBVIOUS
  <2> QED
    BY <1>5, <2>2, <2>3, <2>4, ShareSpecSizes
<1> QED
  BY <1>4, <1>5, <1>6

\* A turn of another sprint leaves k sprints below one slot short of all:
\* each of them has at most the score b of the one picked.
LEMMA CreditArithmetic ==
  ASSUME NEW size \in Nat \ {0}, NEW n \in Nat, NEW k \in 1..(n - 1),
         NEW a \in Int, NEW b \in Int, a <= k * b, a + b < size * n
  PROVE  a < size * (n - 1)
<1>1. (k + 1) * a <= k * (a + b)
  BY Z3
<1>2. k * (a + b) < k * (size * n)
  BY Z3
<1>3. k * (size * n) <= (k + 1) * (size * (n - 1))
  <2>1. (k + 1) * (size * (n - 1)) - k * (size * n) = size * (n - 1 - k)
    BY Z3
  <2>2. size * (n - 1 - k) >= 0
    BY Z3
  <2> QED
    BY <2>1, <2>2, Z3
<1>4. (k + 1) * a < (k + 1) * (size * (n - 1))
  BY <1>1, <1>2, <1>3, Z3
<1> QED
  BY <1>4, Z3

\* A turn of one of k sprints leaves their debt above the debt of k: the rest
\* of the scheduled ones, r of them, score z together, at most y each.
LEMMA DebtArithmetic ==
  ASSUME NEW size \in Nat \ {0}, NEW n \in Nat, NEW k \in Nat \ {0}, NEW r \in Nat,
         NEW x \in Int, NEW y \in Int, NEW z \in Int, NEW w \in Int,
         2 * x >= -(size * (2 * (k - 1) * n - (k - 1) * k)),
         2 * w > -(size * (2 * (k + r) * n - (k + r) * (k + r + 1))),
         z <= r * y, x + y + z = w + size
  PROVE  2 * (x + y - size) > -(size * (2 * k * n - k * (k + 1)))
<1> DEFINE debt(i) == size * (2 * i * n - i * (i + 1))
<1>1. debt(k - 1) = debt(k) - size * (2 * n - 2 * k)
  BY Z3
<1>2. debt(k + r) = debt(k) + size * (2 * r * n - 2 * k * r - r * r - r)
  BY Z3
<1>3. (r + 1) * (x + y) >= r * x + w + size
  BY Z3
<1>4. r * (2 * x) >= r * (-debt(k - 1))
  BY Z3
<1>5. (r + 1) * (2 * (x + y)) > -(r * debt(k - 1)) - debt(k + r) + 2 * size
  BY <1>3, <1>4, Z3
<1>6. -(r * debt(k - 1)) - debt(k + r) + 2 * size
        = (r + 1) * (2 * size - debt(k)) + size * (r * r - r)
  BY <1>1, <1>2, Z3
<1>7. size * (r * r - r) >= 0
  BY Z3
<1>8. (r + 1) * (2 * (x + y)) > (r + 1) * (2 * size - debt(k))
  BY <1>5, <1>6, <1>7, Z3
<1> QED
  BY <1>8, Z3

\* What a turn of s makes of the deficits of a group.
LEMMA TurnOfGroup ==
  ASSUME ShareTypeOK, NEW s \in Sprints, PickSprint(s),
         NEW share, share = [r \in scheduled |-> Share(r)],
         NEW score, score = [r \in scheduled |-> Score(r)],
         NEW T \in SUBSET scheduled
  PROVE  /\ Group(T) \in Int /\ SumOver(share, T) \in 0..Scale
         /\ SumOver(score, T) = Group(T) + SumOver(share, T)
         /\ s \notin T => Group(T)' = SumOver(score, T)
         /\ s \in T => Group(T)' = SumOver(score, T) - Scale
<1>1. s \in scheduled /\ scheduled \in SUBSET Sprints
  BY DEF PickSprint, ShareTypeOK
<1>2. /\ \A r \in scheduled : share[r] \in Nat
      /\ SumOver(share, T) \in 0..Scale
  BY <1>1, SharesAddUp
<1>3. \A r \in scheduled : deficit[r] \in Int /\ score[r] = deficit[r] + share[r] /\ score[r] \in Int
  BY <1>1, <1>2 DEF ShareTypeOK, Score
<1>4. IsFiniteSet(T) /\ IsFiniteSet(T \ {s}) /\ Scale \in Int
  BY <1>1, ShareSpecSizes
<1>5. Group(T) \in Int
  BY <1>3, <1>4, SumOverInt DEF Group
<1>6. SumOver(score, T) = Group(T) + SumOver(share, T)
  BY <1>2, <1>3, <1>4, SumOverPlus DEF Group
<1>7. \A r \in scheduled : deficit'[r] = IF r = s THEN score[r] - Scale ELSE score[r]
  BY <1>1 DEF PickSprint
<1>8. ASSUME s \notin T PROVE Group(T)' = SumOver(score, T)
  <2>1. \A r \in T : score[r] \in Int /\ deficit'[r] = score[r]
    BY <1>3, <1>7, <1>8
  <2> QED
    BY <1>4, <2>1, SumOverSame DEF Group
<1>9. ASSUME s \in T PROVE Group(T)' = SumOver(score, T) - Scale
  <2> DEFINE rest == T \ {s}
  <2>1. \A r \in T : deficit'[r] \in Int
    BY <1>3, <1>4, <1>7
  <2>2. SumOver(deficit', T) = deficit'[s] + SumOver(deficit', rest)
    BY <1>4, <1>9, <2>1, SumOverTakeOut
  <2>3. SumOver(score, T) = score[s] + SumOver(score, rest)
    BY <1>3, <1>4, <1>9, SumOverTakeOut
  <2>4. SumOver(deficit', rest) = SumOver(score, rest)
    <3>1. \A r \in rest : score[r] \in Int /\ deficit'[r] = score[r]
      BY <1>3, <1>7
    <3> QED
      BY <1>4, <3>1, SumOverSame
  <2>5. deficit'[s] = score[s] - Scale /\ score[s] \in Int
    BY <1>1, <1>3, <1>7
  <2>6. SumOver(score, rest) \in Int
    <3>1. \A r \in rest : score[r] \in Int
      BY <1>3
    <3> QED
      BY <1>4, <3>1, SumOverInt
  <2> HIDE DEF rest
  <2> QED
    BY <1>4, <2>2, <2>3, <2>4, <2>5, <2>6 DEF Group
<1> QED
  BY <1>2, <1>5, <1>6, <1>8, <1>9

\* A turn preserves the bounds on the groups.
LEMMA TurnKeepsShareInv ==
  ASSUME SprintCount >= 2, ShareInv, NEW s \in Sprints, PickSprint(s)
  PROVE  ShareInv'
<1> DEFINE share == [r \in scheduled |-> Share(r)]
           score == [r \in scheduled |-> Score(r)]
<1>1. /\ s \in scheduled /\ scheduled' = scheduled /\ scheduled \in SUBSET Sprints
      /\ \A r \in scheduled : score[r] <= score[s]
      /\ scheduled # {}
  BY DEF PickSprint, ShareInv, ShareTypeOK
<1>2. ShareTypeOK
  BY DEF ShareInv
<1>3. Scale \in Nat \ {0} /\ SprintCount \in Nat
  BY ShareSpecSizes
<1>4. /\ \A r \in scheduled : share[r] \in Nat
      /\ SumOver(share, scheduled) = Scale
  BY <1>1, SharesAddUp
<1>5. ASSUME NEW T \in SUBSET scheduled
      PROVE  /\ Group(T) \in Int /\ SumOver(share, T) \in 0..Scale
             /\ SumOver(score, T) = Group(T) + SumOver(share, T)
             /\ s \notin T => Group(T)' = SumOver(score, T)
             /\ s \in T => Group(T)' = SumOver(score, T) - Scale
             /\ SumOver(score, T) \in Int
  <2>1. Group(T) \in Int /\ SumOver(share, T) \in 0..Scale
        /\ SumOver(score, T) = Group(T) + SumOver(share, T)
        /\ (s \notin T => Group(T)' = SumOver(score, T))
        /\ (s \in T => Group(T)' = SumOver(score, T) - Scale)
    <3> HIDE DEF share, score
    <3>1. share = [r \in scheduled |-> Share(r)] /\ score = [r \in scheduled |-> Score(r)]
      BY DEF share, score
    <3> QED
      BY <1>2, <3>1, TurnOfGroup
  <2> HIDE DEF share, score
  <2> QED
    BY <1>3, <2>1
<1>6. \A r \in scheduled : deficit[r] \in Int /\ share[r] \in Int /\ score[r] = deficit[r] + share[r] /\ score[r] \in Int
  BY <1>1, <1>2, <1>4 DEF ShareTypeOK, Score
<1>7. /\ ShareTypeOK'
      /\ \A r \in Sprints \ scheduled' : deficit'[r] = 0
  <2>1. \A r \in scheduled : Score(r) \in Int
    BY <1>6
  <2>2. deficit' \in [Sprints -> Int]
    BY <1>2, <1>3, <2>1 DEF PickSprint, ShareTypeOK
  <2> QED
    BY <1>1, <1>2, <2>2 DEF PickSprint, ShareInv, ShareTypeOK
<1>8. ASSUME NEW T \in SUBSET scheduled
      PROVE  /\ IsFiniteSet(T) /\ Cardinality(T) \in 0..SprintCount
             /\ IsFiniteSet(T \ {s}) /\ IsFiniteSet(scheduled \ T) /\ IsFiniteSet(T \cup {s})
  BY <1>1, ShareSpecSizes
<1>9. ASSUME NEW T \in SUBSET scheduled PROVE Group(T)' < Scale * (SprintCount - 1)
  <2>0. Group(T) < Scale * (SprintCount - 1)
    BY DEF ShareInv
  <2>1. CASE s \in T
    <3> HIDE DEF share, score
    <3>1. Group(T)' <= Group(T) /\ Group(T)' \in Int /\ Group(T) \in Int
      <4>1. Group(T)' = (Group(T) + SumOver(share, T)) - Scale
        <5>1. Group(T)' = SumOver(score, T) - Scale
          BY <1>5, <2>1
        <5>2. SumOver(score, T) = Group(T) + SumOver(share, T)
          BY <1>5
        <5> QED
          BY <5>1, <5>2
      <4>2. Group(T) \in Int /\ SumOver(share, T) \in 0..Scale
        BY <1>5
      <4> QED
        BY <1>3, <4>1, <4>2
    <3> QED
      BY <1>3, <2>0, <3>1
  <2>2. CASE T = {}
    <3>1. Group(T)' = 0
      BY <2>2, SumOverEmpty DEF Group
    <3> QED
      BY <1>3, <3>1, Z3
  <2>3. CASE T # {} /\ s \notin T
    <3> DEFINE k == Cardinality(T)
               a == SumOver(score, T)
               b == score[s]
               U == T \cup {s}
    <3>1. k \in 1..(SprintCount - 1)
      <4>1. k # 0
        BY <1>8, <2>3, FS_EmptySet
      <4>2. Cardinality(U) = k + 1
        BY <1>8, <2>3, FS_AddElement
      <4>3. Cardinality(U) \in 0..SprintCount /\ k \in 0..SprintCount
        BY <1>1, <1>8
      <4> QED
        BY <1>3, <4>1, <4>2, <4>3
    <3>2. a \in Int /\ b \in Int
      BY <1>1, <1>5, <1>6
    <3>3. a <= k * b
      <4>1. \A r \in T : score[r] \in Int /\ score[r] <= score[s]
        BY <1>1, <1>6
      <4>2. score[s] \in Int
        BY <1>1, <1>6
      <4> HIDE DEF score
      <4> QED
        BY <1>8, <4>1, <4>2, SumOverAtMost
    <3>4. a + b < Scale * SprintCount
      <4>1. U \in SUBSET scheduled
        BY <1>1
      <4>2. SumOver(score, U) = b + a
        <5>1. SumOver(score, U) = score[s] + SumOver(score, U \ {s})
          <6>1. \A r \in U : score[r] \in Int
            BY <1>6, <4>1
          <6>2. IsFiniteSet(U)
            BY <1>8
          <6> HIDE DEF score
          <6> QED
            BY <6>1, <6>2, SumOverTakeOut
        <5>2. U \ {s} = T
          BY <2>3
        <5> QED
          BY <5>1, <5>2
      <4>3. SumOver(score, U) <= Group(U) + Scale /\ Group(U) \in Int
        <5> HIDE DEF score, share, U
        <5> QED
          BY <1>3, <1>5, <4>1
      <4>4. Group(U) < Scale * (SprintCount - 1)
        BY <4>1 DEF ShareInv
      <4> HIDE DEF a, b, U
      <4> QED
        BY <1>3, <3>2, <4>2, <4>3, <4>4, Z3
    <3>5. a < Scale * (SprintCount - 1)
      <4> HIDE DEF a, b, k
      <4> QED
        BY <1>3, <3>1, <3>2, <3>3, <3>4, CreditArithmetic
    <3> QED
      BY <1>5, <2>3, <3>5
  <2> QED
    BY <2>1, <2>2, <2>3
<1>10. ASSUME NEW T \in SUBSET scheduled, T # {} PROVE 2 * Group(T)' > -Debt(Cardinality(T))
  <2> DEFINE k == Cardinality(T)
  <2>1. CASE s \notin T
    <3> HIDE DEF share, score
    <3>1. Group(T)' >= Group(T) /\ Group(T)' \in Int /\ Group(T) \in Int
      <4>1. Group(T)' = Group(T) + SumOver(share, T)
        BY <1>5, <2>1
      <4>2. Group(T) \in Int /\ SumOver(share, T) \in 0..Scale
        BY <1>5
      <4> QED
        BY <1>3, <4>1, <4>2
    <3>2. 2 * Group(T) > -Debt(k)
      BY <1>10 DEF ShareInv
    <3>3. Debt(k) \in Int
      <4>1. k \in Nat
        BY <1>8, FS_CardinalityType
      <4> HIDE DEF k
      <4> QED
        BY <1>3, <4>1, Z3 DEF Debt
    <3>4. 2 * Group(T)' > -Debt(k)
      <4> HIDE DEF k
      <4> QED
        BY <3>1, <3>2, <3>3
    <3> QED
      BY <3>4
  <2>2. CASE s \in T
    <3> DEFINE r == Cardinality(scheduled \ T)
               x == SumOver(score, T \ {s})
               y == score[s]
               z == SumOver(score, scheduled \ T)
               w == Group(scheduled)
    <3>1. k \in Nat \ {0} /\ r \in Nat
      <4>1. k # 0 /\ k \in Nat /\ r \in Nat
        BY <1>8, <1>10, FS_EmptySet, FS_CardinalityType
      <4> QED
        BY <4>1
    <3>2. x \in Int /\ y \in Int /\ z \in Int /\ w \in Int
      BY <1>1, <1>5, <1>6
    <3>3. SumOver(score, T) = y + x
      <4>1. \A i \in T : score[i] \in Int
        BY <1>6
      <4> HIDE DEF score
      <4> QED
        BY <1>8, <2>2, <4>1, SumOverTakeOut
    <3>4. x + y + z = w + Scale
      <4>1. SumOver(score, T \cup (scheduled \ T)) = SumOver(score, T) + z
        <5>1. \A i \in T \cup (scheduled \ T) : score[i] \in Int
          BY <1>6
        <5>2. T \cap (scheduled \ T) = {}
          OBVIOUS
        <5> HIDE DEF score
        <5> QED
          BY <1>8, <5>1, <5>2, SumOverUnion
      <4>2. T \cup (scheduled \ T) = scheduled
        OBVIOUS
      <4>3. SumOver(score, scheduled) = w + Scale
        BY <1>4, <1>5
      <4>4. (y + x) + z = w + Scale
        BY <3>3, <4>1, <4>2, <4>3
      <4> HIDE DEF x, y, z, w
      <4> QED
        BY <1>3, <3>2, <4>4
    <3>5. z <= r * y
      <4>1. \A i \in scheduled \ T : score[i] \in Int /\ score[i] <= score[s]
        BY <1>1, <1>6
      <4>2. score[s] \in Int
        BY <1>1, <1>6
      <4> HIDE DEF score
      <4> QED
        BY <1>8, <4>1, <4>2, SumOverAtMost
    <3>6. 2 * x >= -(Scale * (2 * (k - 1) * SprintCount - (k - 1) * k))
      <4>1. Cardinality(T \ {s}) = k - 1
        BY <1>8, <2>2, FS_RemoveElement
      <4>2. T \ {s} \in SUBSET scheduled
        OBVIOUS
      <4>3. x >= Group(T \ {s}) /\ Group(T \ {s}) \in Int
        <5> HIDE DEF score, share
        <5> QED
          BY <1>3, <1>5, <3>2, <4>2
      <4>4. CASE T \ {s} = {}
        <5>1. k = 1
          <6>1. Cardinality(T \ {s}) = 0
            BY <4>4, FS_EmptySet
          <6> HIDE DEF k
          <6> QED
            BY <3>1, <4>1, <6>1
        <5>2. Group(T \ {s}) = 0
          BY <4>4, SumOverEmpty DEF Group
        <5> HIDE DEF k, x
        <5> QED
          BY <1>3, <3>2, <4>3, <5>1, <5>2, Z3
      <4>5. CASE T \ {s} # {}
        <5>1. 2 * Group(T \ {s}) > -Debt(k - 1)
          BY <4>1, <4>2, <4>5 DEF ShareInv
        <5> HIDE DEF k, x
        <5> QED
          BY <1>3, <3>1, <3>2, <4>3, <5>1, Z3 DEF Debt
      <4> QED
        BY <4>4, <4>5
    <3>7. 2 * w > -(Scale * (2 * (k + r) * SprintCount - (k + r) * (k + r + 1)))
      <4>1. Cardinality(scheduled) = k + r
        <5>1. IsFiniteSet(scheduled)
          BY <1>8
        <5>2. scheduled \cap T = T
          OBVIOUS
        <5>3. Cardinality(scheduled \ T) = Cardinality(scheduled) - Cardinality(scheduled \cap T)
          BY <5>1, FS_Difference
        <5>4. Cardinality(scheduled) \in Nat
          BY <5>1, FS_CardinalityType
        <5> QED
          BY <3>1, <5>2, <5>3, <5>4
      <4>2. 2 * w > -Debt(Cardinality(scheduled))
        BY <1>1 DEF ShareInv
      <4> HIDE DEF k, r, w
      <4> QED
        BY <4>1, <4>2 DEF Debt
    <3>8. 2 * (x + y - Scale) > -(Scale * (2 * k * SprintCount - k * (k + 1)))
      <4> HIDE DEF k, r, x, y, z, w
      <4> QED
        BY <1>3, <3>1, <3>2, <3>4, <3>5, <3>6, <3>7, DebtArithmetic
    <3>9. Group(T)' = x + y - Scale
      <4>1. Group(T)' = SumOver(score, T) - Scale
        BY <1>5, <2>2
      <4> HIDE DEF x, y
      <4> QED
        BY <1>3, <3>2, <3>3, <4>1
    <3> QED
      BY <3>8, <3>9 DEF Debt
  <2> QED
    BY <2>1, <2>2
<1> QED
  BY <1>1, <1>7, <1>9, <1>10 DEF ShareInv, Group, Debt

\* A sprint that comes brings nothing into a group.
LEMMA ArrivalKeepsShareInv ==
  ASSUME SprintCount >= 2, ShareInv, NEW s \in Sprints, s \notin scheduled, AddSprint(s)
  PROVE  ShareInv'
<1>1. /\ scheduled' = scheduled \cup {s} /\ deficit' = deficit /\ deficit[s] = 0
      /\ scheduled' \in SUBSET Sprints
  BY DEF AddSprint, ShareInv, ShareTypeOK
<1>2. Scale \in Nat \ {0} /\ SprintCount \in Nat
  BY ShareSpecSizes
<1>3. ASSUME NEW T \in SUBSET scheduled'
      PROVE  /\ Group(T)' < Scale * (SprintCount - 1)
             /\ T # {} => 2 * Group(T)' > -Debt(Cardinality(T))
  <2> DEFINE U == T \ {s}
             k == Cardinality(T)
  <2>1. /\ U \in SUBSET scheduled /\ IsFiniteSet(U) /\ IsFiniteSet(T)
        /\ k \in 0..SprintCount
    BY <1>1, ShareSpecSizes
  <2>2. Group(U) < Scale * (SprintCount - 1) /\ (U # {} => 2 * Group(U) > -Debt(Cardinality(U)))
    BY <2>1 DEF ShareInv
  <2>3. Group(T)' = Group(T)
    BY <1>1 DEF Group
  <2>4. CASE s \notin T
    <3>1. U = T
      BY <2>4
    <3> QED
      BY <2>2, <2>3, <3>1
  <2>5. CASE s \in T
    <3>1. \A r \in T : deficit[r] \in Int
      BY <1>1 DEF ShareInv, ShareTypeOK
    <3>2. SumOver(deficit, T) = deficit[s] + SumOver(deficit, U)
      BY <2>1, <2>5, <3>1, SumOverTakeOut
    <3>3. SumOver(deficit, U) \in Int
      BY <2>1, <3>1, SumOverInt
    <3>4. Group(T) = Group(U) /\ Group(U) \in Int
      BY <1>1, <3>2, <3>3 DEF Group
    <3>5. Cardinality(U) = k - 1 /\ k \in 1..SprintCount
      <4>1. Cardinality(U) = k - 1
        BY <2>1, <2>5, FS_RemoveElement
      <4>2. k # 0
        BY <2>1, <2>5, FS_EmptySet
      <4> HIDE DEF k
      <4> QED
        BY <1>2, <2>1, <4>1, <4>2
    <3>6. 2 * Group(U) > -Debt(k)
      <4>1. Debt(k - 1) <= Debt(k) /\ Debt(k) \in Int /\ Debt(k - 1) \in Int
        <5> HIDE DEF k
        <5>1. Debt(k) - Debt(k - 1) = Scale * (2 * SprintCount - 2 * k)
          BY <1>2, <3>5, Z3 DEF Debt
        <5>2. Scale * (2 * SprintCount - 2 * k) >= 0
          BY <1>2, <3>5, Z3
        <5>3. Debt(k) \in Int /\ Debt(k - 1) \in Int
          BY <1>2, <3>5, Z3 DEF Debt
        <5> QED
          BY <5>1, <5>2, <5>3
      <4>2. CASE U # {}
        <5>1. 2 * Group(U) > -Debt(k - 1)
          BY <2>2, <3>5, <4>2
        <5> HIDE DEF k, U
        <5> QED
          BY <3>4, <4>1, <5>1
      <4>3. CASE U = {}
        <5>1. Group(U) = 0
          BY <4>3, SumOverEmpty DEF Group
        <5>2. k = 1
          <6>1. Cardinality(U) = 0
            BY <4>3, FS_EmptySet
          <6> HIDE DEF k, U
          <6> QED
            BY <3>5, <6>1
        <5>3. Debt(1) > 0
          BY <1>2, Z3 DEF Debt
        <5> HIDE DEF k, U
        <5> QED
          BY <4>1, <5>1, <5>2, <5>3
      <4> QED
        BY <4>2, <4>3
    <3> QED
      BY <2>2, <2>3, <3>4, <3>6
  <2> QED
    BY <2>4, <2>5
<1> QED
  BY <1>1, <1>3 DEF ShareInv, ShareTypeOK, AddSprint, Group, Debt

\* The groups that are left when a sprint goes are groups as before.
LEMMA DepartureKeepsShareInv ==
  ASSUME ShareInv, NEW s \in Sprints, RemoveSprint(s)
  PROVE  ShareInv'
<1>1. /\ scheduled' = scheduled \ {s} /\ scheduled \in SUBSET Sprints
      /\ \A r \in scheduled' : deficit[r] \in Int /\ deficit'[r] = deficit[r]
  BY DEF RemoveSprint, ShareInv, ShareTypeOK
<1>2. ASSUME NEW T \in SUBSET scheduled'
      PROVE  /\ Group(T)' < Scale * (SprintCount - 1)
             /\ T # {} => 2 * Group(T)' > -Debt(Cardinality(T))
  <2>1. T \in SUBSET scheduled /\ IsFiniteSet(T)
    BY <1>1, ShareSpecSizes
  <2>2. Group(T)' = Group(T)
    BY <1>1, <2>1, SumOverSame DEF Group
  <2>3. Group(T) < Scale * (SprintCount - 1) /\ (T # {} => 2 * Group(T) > -Debt(Cardinality(T)))
    BY <2>1 DEF ShareInv
  <2> QED
    BY <2>2, <2>3
<1>3. ShareTypeOK' /\ \A r \in Sprints \ scheduled' : deficit'[r] = 0
  BY DEF RemoveSprint, ShareInv, ShareTypeOK
<1> QED
  BY <1>2, <1>3 DEF ShareInv, Group, Debt

LEMMA ShareInvBounds == ASSUME SprintCount >= 2, ShareInv PROVE DeficitsBounded
<1>1. Scale \in Nat \ {0} /\ SprintCount \in Nat
  BY ShareSpecSizes
<1> DEFINE limit == Scale * (SprintCount - 1)
<1>2. limit \in Int /\ limit > 0
  BY <1>1, Z3
<1>3. ASSUME NEW s \in Sprints PROVE -limit < deficit[s] /\ deficit[s] < limit
  <2>1. CASE s \notin scheduled
    <3>1. deficit[s] = 0
      BY <2>1 DEF ShareInv
    <3> HIDE DEF limit
    <3> QED
      BY <1>2, <3>1
  <2>2. CASE s \in scheduled
    <3>1. Group({s}) = deficit[s] /\ deficit[s] \in Int
      <4>1. IsFiniteSet({s}) /\ {s} \ {s} = {} /\ deficit[s] \in Int
        BY FS_Singleton DEF ShareInv, ShareTypeOK
      <4>2. SumOver(deficit, {s}) = deficit[s] + SumOver(deficit, {s} \ {s})
        BY <4>1, SumOverTakeOut
      <4>3. SumOver(deficit, {}) = 0
        BY SumOverEmpty
      <4>4. SumOver(deficit, {s}) = deficit[s] + 0
        BY <4>1, <4>2, <4>3
      <4> QED
        BY <4>1, <4>4 DEF Group
    <3>2. Group({s}) < limit /\ 2 * Group({s}) > -Debt(Cardinality({s}))
      BY <2>2 DEF ShareInv
    <3>3. Cardinality({s}) = 1
      BY FS_Singleton
    <3>4. Debt(1) = 2 * limit
      BY <1>1, Z3 DEF Debt
    <3>5. 2 * deficit[s] > -(2 * limit)
      BY <3>1, <3>2, <3>3, <3>4
    <3> HIDE DEF limit
    <3> QED
      BY <1>2, <3>1, <3>2, <3>5
  <2> QED
    BY <2>1, <2>2
<1> QED
  BY <1>3 DEF DeficitsBounded, SprintCount

\* However sprints come, go and take turns, whatever their weights and however
\* many, no sprint's debt or credit reaches one slot for each other sprint
\* (Scheduler.pickSprint, addSprint, removeSprint).  With one sprint there is
\* nobody to owe a slot to, and the bound is 0 itself.
THEOREM DeficitsStayBounded ==
  ASSUME Cardinality(Sprints) >= 2
  PROVE  ShareSpec => []DeficitsBounded
<1>0. SprintCount >= 2
  BY DEF SprintCount
<1>1. ShareInit => ShareInv
  <2> SUFFICES ASSUME ShareInit PROVE ShareInv
    OBVIOUS
  <2>1. Group({}) = 0
    BY SumOverEmpty DEF Group
  <2>2. Scale * (SprintCount - 1) > 0
    BY <1>0, ShareSpecSizes, Z3
  <2> QED
    BY <2>1, <2>2 DEF ShareInit, ShareInv, ShareTypeOK
<1>2. ShareInv /\ [ShareNext]_shareVars => ShareInv'
  <2> SUFFICES ASSUME ShareInv, [ShareNext]_shareVars PROVE ShareInv'
    OBVIOUS
  <2>1. CASE UNCHANGED shareVars
    BY <2>1 DEF shareVars, ShareInv, ShareTypeOK, Group, Debt
  <2>2. ASSUME NEW s \in Sprints, s \notin scheduled, AddSprint(s) PROVE ShareInv'
    BY <1>0, <2>2, ArrivalKeepsShareInv
  <2>3. ASSUME NEW s \in Sprints, RemoveSprint(s) PROVE ShareInv'
    BY <2>3, DepartureKeepsShareInv
  <2>4. ASSUME NEW s \in Sprints, PickSprint(s) PROVE ShareInv'
    BY <1>0, <2>4, TurnKeepsShareInv
  <2> QED
    BY <2>1, <2>2, <2>3, <2>4 DEF ShareNext
<1>3. ShareInv => DeficitsBounded
  BY <1>0, ShareInvBounds
<1> QED
  BY <1>1, <1>2, <1>3, PTL DEF ShareSpec

-----------------------------------------------------------------------------
(* SprintService                                                           *)

USE ShareAssumption, ServiceAssumption

\* What a call in flight knows of its sprint, unless start() was contended.
CallKnows(c) ==
  LET s == call[c].sprint
  IN  s \notin contended =>
        /\ call[c].pc = "loading" => status[s] \in Live
        /\ call[c].pc = "emitting" => status[s] \in Live /\ s \in scheduled
        /\ call[c].pc = "reverting" => status[s] \in Live /\ s \notin scheduled
        /\ call[c].pc = "removing" => status[s] = "completed"

\* Two calls are at one sprint only where start() was contended.
Apart(c, d) ==
  c # d /\ call[c].pc # "none" /\ call[d].pc # "none" /\ call[c].sprint = call[d].sprint
    => call[c].sprint \in contended

ScheduledOrRemoving ==
  \A s \in scheduled \ contended :
    status[s] \in Live \/ \E c \in Calls : call[c].pc = "removing" /\ call[c].sprint = s

PlacedOrStarting ==
  \A s \in Sprints :
    status[s] \in Live =>
      \/ s \in scheduled \cup stranded \cup contended
      \/ \E c \in Calls : call[c].pc \in Starting /\ call[c].sprint = s

ServiceInv ==
  /\ \A c \in Calls : CallKnows(c)
  /\ \A c, d \in Calls : Apart(c, d)
  /\ ScheduledOrRemoving
  /\ PlacedOrStarting

-----------------------------------------------------------------------------
(* Type correctness                                                        *)

CallType == [pc : Steps, sprint : Sprints \cup {NoSprint}]

LEMMA ReturnTyped ==
  ASSUME ServiceTypeOK, NEW c \in Calls, Return(c)
  PROVE  /\ call' \in [Calls -> CallType]
         /\ \A d \in Calls : call'[d].pc # "none" => call'[d].sprint \in Sprints
         /\ call'[c] = NoCall /\ \A d \in Calls \ {c} : call'[d] = call[d]
  BY DEF ServiceTypeOK, Return, NoCall, CallType, Steps

LEMMA GotoTyped ==
  ASSUME ServiceTypeOK, NEW c \in Calls, call[c].pc # "none", NEW pc \in Steps, Goto(c, pc)
  PROVE  /\ call' \in [Calls -> CallType]
         /\ \A d \in Calls : call'[d].pc # "none" => call'[d].sprint \in Sprints
         /\ call'[c].pc = pc /\ call'[c].sprint = call[c].sprint
         /\ \A d \in Calls \ {c} : call'[d] = call[d]
  BY DEF ServiceTypeOK, Goto, CallType, Steps

LEMMA BeginTyped ==
  ASSUME ServiceTypeOK, NEW c \in Calls, NEW s \in Sprints, NEW to \in Statuses,
         NEW pc \in Steps, Begin(c, s, to, pc)
  PROVE  /\ call' \in [Calls -> CallType]
         /\ \A d \in Calls : call'[d].pc # "none" => call'[d].sprint \in Sprints
         /\ status' \in [Sprints -> Statuses]
         /\ status'[s] = to /\ \A r \in Sprints \ {s} : status'[r] = status[r]
         /\ call'[c].pc = pc /\ call'[c].sprint = s
         /\ \A d \in Calls \ {c} : call'[d] = call[d]
  BY DEF ServiceTypeOK, Begin, CallType

LEMMA RemoveTyped ==
  ASSUME ShareTypeOK, NEW s \in Sprints, RemoveSprint(s)
  PROVE  ShareTypeOK'
  BY DEF ShareTypeOK, RemoveSprint

\* Every reachable state of the service and the scheduler's sprints is well
\* typed.
THEOREM ServiceTypeCorrect == ServiceSpec => []ServiceTypeOK
<1>1. ServiceInit => ServiceTypeOK
  BY DEF ServiceInit, ShareInit, ServiceTypeOK, ShareTypeOK, NoCall, Steps, Statuses
<1>2. ServiceTypeOK /\ [ServiceNext]_serviceVars => ServiceTypeOK'
  <2> SUFFICES ASSUME ServiceTypeOK, [ServiceNext]_serviceVars PROVE ServiceTypeOK'
    OBVIOUS
  <2>1. ASSUME NEW s \in Sprints,
               Create(s) \/ CreateCommitment(s) \/ PauseSprint(s) \/ ResumeSprint(s)
        PROVE  ServiceTypeOK'
    BY <2>1 DEF Create, CreateCommitment, PauseSprint, ResumeSprint, ServiceTypeOK,
                ShareTypeOK, shareVars, Statuses
  <2>2. ASSUME NEW c \in Calls, NEW s \in Sprints, StartBegin(c, s) PROVE ServiceTypeOK'
    <3>1. Begin(c, s, "active", "loading") /\ "active" \in Statuses /\ "loading" \in Steps
      BY <2>2 DEF StartBegin, Statuses, Steps
    <3> QED
      BY <2>2, <3>1, BeginTyped
      DEF StartBegin, ServiceTypeOK, ShareTypeOK, shareVars, CallType
  <2>3. ASSUME NEW c \in Calls, NEW s \in Sprints, CompleteBegin(c, s) PROVE ServiceTypeOK'
    <3>1. Begin(c, s, "completed", "removing") /\ "completed" \in Statuses /\ "removing" \in Steps
      BY <2>3 DEF CompleteBegin, Statuses, Steps
    <3> QED
      BY <2>3, <3>1, BeginTyped
      DEF CompleteBegin, ServiceTypeOK, ShareTypeOK, shareVars, CallType
  <2>4. ASSUME NEW c \in Calls, call[c].pc # "none",
               StartLoadFails(c) \/ StartEmit(c) \/ StartRevert(c)
        PROVE  ServiceTypeOK'
    <3>1. Return(c) /\ call[c].sprint \in Sprints
      BY <2>4 DEF StartLoadFails, StartEmit, StartRevert, ServiceTypeOK
    <3>2. status' \in [Sprints -> Statuses] /\ stranded' \subseteq Sprints
      BY <2>4, <3>1 DEF StartLoadFails, StartEmit, StartRevert, ServiceTypeOK, Statuses
    <3> QED
      BY <2>4, <3>1, <3>2, ReturnTyped
      DEF StartLoadFails, StartEmit, StartRevert, ServiceTypeOK, ShareTypeOK, shareVars, CallType
  <2>5. ASSUME NEW c \in Calls, StartSchedule(c) PROVE ServiceTypeOK'
    <3>1. Goto(c, "emitting") /\ call[c].sprint \in Sprints /\ call[c].pc # "none"
      BY <2>5 DEF StartSchedule, ServiceTypeOK
    <3>2. "emitting" \in Steps /\ ShareTypeOK'
      BY <2>5, <3>1 DEF StartSchedule, AddSprint, ServiceTypeOK, ShareTypeOK, Steps
    <3> QED
      BY <2>5, <3>1, <3>2, GotoTyped DEF StartSchedule, ServiceTypeOK, CallType
  <2>6. ASSUME NEW c \in Calls, StartEmitFails(c) PROVE ServiceTypeOK'
    <3>1. Goto(c, "reverting") /\ call[c].sprint \in Sprints /\ call[c].pc # "none"
      BY <2>6 DEF StartEmitFails, ServiceTypeOK
    <3>2. "reverting" \in Steps /\ ShareTypeOK'
      BY <2>6, <3>1, RemoveTyped DEF StartEmitFails, ServiceTypeOK, Steps
    <3> QED
      BY <2>6, <3>1, <3>2, GotoTyped DEF StartEmitFails, ServiceTypeOK, CallType
  <2>7. ASSUME NEW c \in Calls, CompleteRemove(c) PROVE ServiceTypeOK'
    <3>1. Return(c) /\ call[c].sprint \in Sprints
      BY <2>7 DEF CompleteRemove, ServiceTypeOK
    <3>2. ShareTypeOK'
      BY <2>7, <3>1, RemoveTyped DEF CompleteRemove, ServiceTypeOK
    <3> QED
      BY <2>7, <3>1, <3>2, ReturnTyped DEF CompleteRemove, ServiceTypeOK, CallType
  <2>8. CASE Restart
    BY <2>8 DEF Restart, ServiceTypeOK, ShareTypeOK, NoCall, Steps, LiveSprints
  <2>9. CASE UNCHANGED serviceVars
    BY <2>9 DEF serviceVars, shareVars, ServiceTypeOK, ShareTypeOK
  <2> QED
    BY <2>1, <2>2, <2>3, <2>4, <2>5, <2>6, <2>7, <2>8, <2>9
    DEF ServiceNext, CallNext, StartLoadFails, StartEmit, StartRevert
<1> QED
  BY <1>1, <1>2, PTL DEF ServiceSpec

-----------------------------------------------------------------------------
(* Each step keeps ServiceInv.                                             *)

USE DEF ServiceInv, CallKnows, Apart, ScheduledOrRemoving, PlacedOrStarting

\* One sprint's status changes and no call is at a new step.
LEMMA StatusKeepsInv ==
  ASSUME ServiceTypeOK, ServiceInv, NEW s \in Sprints,
         Create(s) \/ CreateCommitment(s) \/ PauseSprint(s) \/ ResumeSprint(s)
  PROVE  ServiceInv'
<1>1. /\ UNCHANGED <<scheduled, call, contended>>
      /\ stranded \subseteq stranded'
      /\ \A r \in Sprints \ {s} : status'[r] = status[r]
  BY DEF Create, CreateCommitment, PauseSprint, ResumeSprint, shareVars, ServiceTypeOK
<1>2. /\ status[s] \in Live => status'[s] \in Live
      /\ status[s] # "completed"
      /\ status'[s] \in Live => status[s] \in Live \/ s \in scheduled \cup stranded'
  BY DEF Create, CreateCommitment, PauseSprint, ResumeSprint, ServiceTypeOK,
         IsValidSprintTransition, SprintTransitions, Live
<1>3. \A c \in Calls : call[c].pc # "none" => call[c].sprint \in Sprints
  BY DEF ServiceTypeOK
<1>4. /\ \A c \in Calls : CallKnows(c)'
      /\ \A c, d \in Calls : Apart(c, d)'
  BY <1>1, <1>2, <1>3
<1>5. ScheduledOrRemoving' /\ PlacedOrStarting'
  BY <1>1, <1>2 DEF ServiceTypeOK, ShareTypeOK
<1> QED
  BY <1>4, <1>5

LEMMA StartBeginKeepsInv ==
  ASSUME ServiceTypeOK, ServiceInv, NEW c \in Calls, NEW s \in Sprints, StartBegin(c, s)
  PROVE  ServiceInv'
<1>1. /\ Begin(c, s, "active", "loading") /\ "active" \in Statuses /\ "loading" \in Steps
      /\ UNCHANGED <<scheduled, stranded>>
      /\ call[c].pc = "none"
      /\ status[s] # "completed"
  BY DEF StartBegin, Begin, Statuses, Steps, shareVars, IsValidSprintTransition, SprintTransitions
<1>2. /\ status'[s] = "active" /\ \A r \in Sprints \ {s} : status'[r] = status[r]
      /\ call'[c].pc = "loading" /\ call'[c].sprint = s
      /\ \A d \in Calls \ {c} : call'[d] = call[d]
  BY <1>1, BeginTyped
<1>3. /\ contended \subseteq contended' /\ contended' \subseteq contended \cup {s}
      /\ \A d \in Calls : call[d].pc \in Starting \cup {"removing"} /\ call[d].sprint = s
                            => s \in contended'
  BY DEF StartBegin, InFlight
<1>4. \A d \in Calls : call[d].pc # "none" =>
        call[d].sprint \in Sprints /\ call[d].pc \in Starting \cup {"removing"}
  BY DEF ServiceTypeOK, Steps, Starting
<1>5. \A d \in Calls : CallKnows(d)'
  BY <1>1, <1>2, <1>3, <1>4 DEF Live
<1>6. \A d, e \in Calls : Apart(d, e)'
  BY <1>1, <1>2, <1>3, <1>4
<1>7. ScheduledOrRemoving'
  BY <1>1, <1>2, <1>3 DEF Live, ServiceTypeOK, ShareTypeOK
<1>8. PlacedOrStarting'
  BY <1>1, <1>2, <1>3 DEF Starting
<1> QED
  BY <1>5, <1>6, <1>7, <1>8

LEMMA CompleteBeginKeepsInv ==
  ASSUME ServiceTypeOK, ServiceInv, NEW c \in Calls, NEW s \in Sprints, CompleteBegin(c, s)
  PROVE  ServiceInv'
<1>1. /\ Begin(c, s, "completed", "removing")
      /\ "completed" \in Statuses /\ "removing" \in Steps
      /\ UNCHANGED <<scheduled, stranded>>
      /\ call[c].pc = "none"
      /\ status[s] # "completed"
  BY DEF CompleteBegin, Begin, Statuses, Steps, shareVars
<1>2. /\ status'[s] = "completed" /\ \A r \in Sprints \ {s} : status'[r] = status[r]
      /\ call'[c].pc = "removing" /\ call'[c].sprint = s
      /\ \A d \in Calls \ {c} : call'[d] = call[d]
  BY <1>1, BeginTyped
<1>3. /\ contended \subseteq contended' /\ contended' \subseteq contended \cup {s}
      /\ \A d \in Calls : call[d].pc \in Starting /\ call[d].sprint = s => s \in contended'
  BY DEF CompleteBegin, InFlight
<1>4. \A d \in Calls : call[d].pc # "none" =>
        call[d].sprint \in Sprints /\ call[d].pc \in Starting \cup {"removing"}
  BY DEF ServiceTypeOK, Steps, Starting
<1>5. \A d \in Calls : call[d].pc # "none" /\ call[d].sprint = s => s \in contended'
  BY <1>1, <1>3, <1>4
<1>6. \A d \in Calls : CallKnows(d)'
  BY <1>1, <1>2, <1>3, <1>4, <1>5
<1>7. \A d, e \in Calls : Apart(d, e)'
  BY <1>1, <1>2, <1>3, <1>5
<1>8. ScheduledOrRemoving'
  BY <1>1, <1>2, <1>3 DEF ServiceTypeOK, ShareTypeOK
<1>9. PlacedOrStarting'
  BY <1>1, <1>2, <1>3 DEF Starting, Live
<1> QED
  BY <1>6, <1>7, <1>8, <1>9

LEMMA StartLoadFailsKeepsInv ==
  ASSUME ServiceTypeOK, ServiceInv, NEW c \in Calls, StartLoadFails(c)
  PROVE  ServiceInv'
<1>1. /\ UNCHANGED <<scheduled, status, contended>>
      /\ call[c].pc = "loading" /\ call[c].sprint \in Sprints
      /\ call'[c] = NoCall /\ \A d \in Calls \ {c} : call'[d] = call[d]
  BY ReturnTyped DEF StartLoadFails, shareVars, ServiceTypeOK
<1>2. stranded \subseteq stranded' /\ call[c].sprint \in scheduled \cup stranded'
  BY DEF StartLoadFails
<1>3. /\ \A d \in Calls : CallKnows(d)'
      /\ \A d, e \in Calls : Apart(d, e)'
  BY <1>1 DEF NoCall
<1>4. ScheduledOrRemoving' /\ PlacedOrStarting'
  BY <1>1, <1>2
<1> QED
  BY <1>3, <1>4

LEMMA StartScheduleKeepsInv ==
  ASSUME ServiceTypeOK, ServiceInv, NEW c \in Calls, StartSchedule(c)
  PROVE  ServiceInv'
<1> DEFINE s == call[c].sprint
<1>1. /\ Goto(c, "emitting") /\ call[c].pc = "loading" /\ "emitting" \in Steps
      /\ s \in Sprints
      /\ UNCHANGED <<status, contended>>
      /\ scheduled' = scheduled \cup {s} /\ stranded' = stranded \ {s}
  BY DEF StartSchedule, AddSprint, Steps, ServiceTypeOK
<1>2. /\ call'[c].pc = "emitting" /\ call'[c].sprint = s
      /\ \A d \in Calls \ {c} : call'[d] = call[d]
  BY <1>1, GotoTyped
<1>3. \A d \in Calls : CallKnows(d)'
  BY <1>1, <1>2
<1>4. \A d, e \in Calls : Apart(d, e)'
  BY <1>1, <1>2
<1>5. ScheduledOrRemoving'
  BY <1>1, <1>2
<1>6. PlacedOrStarting'
  BY <1>1, <1>2
<1> QED
  BY <1>3, <1>4, <1>5, <1>6

LEMMA StartEmitKeepsInv ==
  ASSUME ServiceTypeOK, ServiceInv, NEW c \in Calls, StartEmit(c)
  PROVE  ServiceInv'
<1>1. /\ UNCHANGED <<scheduled, status, contended, stranded>>
      /\ call[c].pc = "emitting" /\ call[c].sprint \in Sprints
      /\ call'[c] = NoCall /\ \A d \in Calls \ {c} : call'[d] = call[d]
  BY ReturnTyped DEF StartEmit, shareVars, ServiceTypeOK
<1>2. /\ \A d \in Calls : CallKnows(d)'
      /\ \A d, e \in Calls : Apart(d, e)'
  BY <1>1 DEF NoCall
<1>3. ScheduledOrRemoving' /\ PlacedOrStarting'
  BY <1>1
<1> QED
  BY <1>2, <1>3

LEMMA StartEmitFailsKeepsInv ==
  ASSUME ServiceTypeOK, ServiceInv, NEW c \in Calls, StartEmitFails(c)
  PROVE  ServiceInv'
<1> DEFINE s == call[c].sprint
<1>1. /\ Goto(c, "reverting") /\ call[c].pc = "emitting" /\ "reverting" \in Steps
      /\ s \in Sprints
      /\ UNCHANGED <<status, contended, stranded>>
      /\ scheduled' = scheduled \ {s}
  BY DEF StartEmitFails, RemoveSprint, Steps, ServiceTypeOK
<1>2. /\ call'[c].pc = "reverting" /\ call'[c].sprint = s
      /\ \A d \in Calls \ {c} : call'[d] = call[d]
  BY <1>1, GotoTyped
<1>3. \A d \in Calls : CallKnows(d)'
  BY <1>1, <1>2
<1>4. \A d, e \in Calls : Apart(d, e)'
  BY <1>1, <1>2
<1>5. ScheduledOrRemoving'
  BY <1>1, <1>2
<1>6. PlacedOrStarting'
  BY <1>1, <1>2 DEF Starting
<1> QED
  BY <1>3, <1>4, <1>5, <1>6

LEMMA StartRevertKeepsInv ==
  ASSUME ServiceTypeOK, ServiceInv, NEW c \in Calls, StartRevert(c)
  PROVE  ServiceInv'
<1> DEFINE s == call[c].sprint
<1>1. /\ UNCHANGED <<scheduled, contended>>
      /\ call[c].pc = "reverting" /\ s \in Sprints
      /\ call'[c] = NoCall /\ \A d \in Calls \ {c} : call'[d] = call[d]
  BY ReturnTyped DEF StartRevert, shareVars, ServiceTypeOK
<1>2. /\ \A r \in Sprints \ {s} : status'[r] = status[r]
      /\ stranded \subseteq stranded'
      /\ \/ status'[s] = "ready"
         \/ status'[s] = status[s] /\ s \in stranded'
  BY <1>1 DEF StartRevert, ServiceTypeOK
<1>3. \A d \in Calls \ {c} : call[d].pc # "none" /\ call[d].sprint = s => s \in contended
  BY <1>1
<1>4. \A d \in Calls : call[d].pc # "none" => call[d].sprint \in Sprints
  BY DEF ServiceTypeOK
<1>5. /\ \A d \in Calls : CallKnows(d)'
      /\ \A d, e \in Calls : Apart(d, e)'
  BY <1>1, <1>2, <1>3, <1>4 DEF NoCall
<1>6. ScheduledOrRemoving'
  BY <1>1, <1>2 DEF ServiceTypeOK, ShareTypeOK
<1>7. PlacedOrStarting'
  BY <1>1, <1>2 DEF Live
<1> QED
  BY <1>5, <1>6, <1>7

LEMMA CompleteRemoveKeepsInv ==
  ASSUME ServiceTypeOK, ServiceInv, NEW c \in Calls, CompleteRemove(c)
  PROVE  ServiceInv'
<1> DEFINE s == call[c].sprint
<1>1. /\ UNCHANGED <<status, contended, stranded>>
      /\ call[c].pc = "removing" /\ s \in Sprints
      /\ scheduled' = scheduled \ {s}
      /\ call'[c] = NoCall /\ \A d \in Calls \ {c} : call'[d] = call[d]
  BY ReturnTyped DEF CompleteRemove, RemoveSprint, ServiceTypeOK
<1>2. \A d \in Calls \ {c} : call[d].pc # "none" /\ call[d].sprint = s => s \in contended
  BY <1>1
<1>3. s \in contended \/ status[s] = "completed"
  BY <1>1
<1>4. /\ \A d \in Calls : CallKnows(d)'
      /\ \A d, e \in Calls : Apart(d, e)'
  BY <1>1, <1>2 DEF NoCall
<1>5. ScheduledOrRemoving'
  BY <1>1
<1>6. PlacedOrStarting'
  BY <1>1, <1>3 DEF Live, Starting
<1> QED
  BY <1>4, <1>5, <1>6

LEMMA RestartKeepsInv ==
  ASSUME ServiceTypeOK, Restart
  PROVE  ServiceInv'
<1>1. /\ \A c \in Calls : call'[c].pc = "none"
      /\ scheduled' = {} /\ UNCHANGED status
      /\ \A s \in Sprints : status[s] \in Live => s \in stranded'
  BY DEF Restart, NoCall, LiveSprints
<1> QED
  BY <1>1

LEMMA ServiceInvInductive ==
  /\ ServiceInit => ServiceInv
  /\ ServiceTypeOK /\ ServiceInv /\ [ServiceNext]_serviceVars => ServiceInv'
<1>1. ServiceInit => ServiceInv
  BY DEF ServiceInit, ShareInit, NoCall, Live
<1>2. ASSUME ServiceTypeOK, ServiceInv, UNCHANGED serviceVars PROVE ServiceInv'
  BY <1>2 DEF serviceVars, shareVars
<1>3. ASSUME ServiceTypeOK, ServiceInv, NEW c \in Calls, CallNext(c) PROVE ServiceInv'
  BY <1>3, StartBeginKeepsInv, CompleteBeginKeepsInv, StartLoadFailsKeepsInv,
     StartScheduleKeepsInv, StartEmitKeepsInv, StartEmitFailsKeepsInv, StartRevertKeepsInv,
     CompleteRemoveKeepsInv, Zenon DEF CallNext
<1>4. ASSUME ServiceTypeOK, ServiceInv, ServiceNext PROVE ServiceInv'
  BY <1>3, <1>4, StatusKeepsInv, RestartKeepsInv, Zenon DEF ServiceNext
<1> QED
  BY <1>1, <1>2, <1>4, Zenon

-----------------------------------------------------------------------------

\* Between calls the scheduler offers slots to live sprints only, whichever
\* event cannot be appended, but where start() overlapped a complete() or
\* another start() of the same sprint (SprintService.start and complete).
THEOREM ScheduledSprintsAreLive == ServiceSpec => []OnlyLiveScheduled
<1>1. ServiceTypeOK /\ ServiceInv => OnlyLiveScheduled
  BY DEF OnlyLiveScheduled, InFlight
<1> QED
  BY <1>1, ServiceInvInductive, ServiceTypeCorrect, PTL DEF ServiceSpec

\* A live sprint has its place in the scheduler, but for the failures that
\* LiveScheduled names (SprintService.start and its rollback).
THEOREM LiveSprintsAreScheduled == ServiceSpec => []LiveScheduled
<1>1. ServiceTypeOK /\ ServiceInv => LiveScheduled
  BY DEF LiveScheduled, LiveSprints, InFlight
<1> QED
  BY <1>1, ServiceInvInductive, ServiceTypeCorrect, PTL DEF ServiceSpec
=============================================================================
