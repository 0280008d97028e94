-------------------------------- MODULE Uat --------------------------------
(***************************************************************************)
(* User acceptance of a story: DefaultUATService (domain/src/uat/service.ts) *)
(* and the defects it leaves behind (uat/defects.ts).                       *)
(*                                                                         *)
(* A session takes a snapshot of the story's criteria, which are marked one *)
(* by one and then submitted.  Marks and the first half of submit() are     *)
(* transactions under an advisory lock of the session.  What follows is     *)
(* not: submit() reports a defect for every failed criterion and decides    *)
(* the session, while accept() and partialAccept() may decide it as well    *)
(* and other sessions of the story report the same criteria.  A call may    *)
(* break off at any await, and its process with it.                         *)
(***************************************************************************)
EXTENDS Integers, FiniteSets

CONSTANTS
  Criteria,     \* acceptance criteria of the story
  Callers,      \* calls in flight at once
  MaxSessions   \* bound: sessions of the story

ASSUME UatAssumption == IsFiniteSet(Criteria) /\ MaxSessions \in Nat

Sessions == 1..MaxSessions
\* A defect is named by the failure it was made for; operators' reports are 0.
Failures == (0..MaxSessions) \X Criteria
NoFailure == <<0, "none">>

VARIABLES
  session,   \* state, pass_count and fail_count of each session
  result,    \* uat_ac_results.status, "none" without a row
  defect,    \* defects.state, "none" without a row
  caller,    \* local state of each call
  reports,   \* history: how often createDefect wrote for a failure
  untested,  \* history: sessions submitted before their results had rows
  cutShort   \* history: sessions whose submit broke off

uatVars == <<session, result, defect, caller, reports, untested, cutShort>>

Verdicts == {"accepted", "partially_accepted", "rejected"}
SessionStates == {"absent", "started", "in_progress", "submitted"} \cup Verdicts
NoCallOfUat == [pc |-> "none", session |-> 0, todo |-> {}, at |-> NoFailure,
                found |-> NoFailure, outcome |-> "none"]
UatSteps == {"none", "snapshot", "reporting", "writing", "accepting", "accepting partially"}

UatTypeOK ==
  /\ session \in [Sessions -> [state : SessionStates, pass : 0..Cardinality(Criteria),
                               fail : 0..Cardinality(Criteria)]]
  /\ result \in [Sessions -> [Criteria -> {"none", "pending", "pass", "fail"}]]
  /\ defect \in [Failures -> {"none", "open", "reopened", "resolved"}]
  /\ caller \in [Callers -> [pc : UatSteps, session : 0..MaxSessions, todo : SUBSET Criteria,
                             at : Failures \cup {NoFailure}, found : Failures \cup {NoFailure},
                             outcome : Verdicts \cup {"none"}]]
  /\ \A c \in Callers : /\ caller[c].pc # "none" => caller[c].session \in Sessions
                        /\ caller[c].pc \in {"reporting", "writing"} => caller[c].outcome # "none"
  /\ reports \in [Failures -> Nat]
  /\ untested \subseteq Sessions /\ cutShort \subseteq Sessions

UatInit ==
  /\ session = [v \in Sessions |-> [state |-> "absent", pass |-> 0, fail |-> 0]]
  /\ result = [v \in Sessions |-> [a \in Criteria |-> "none"]]
  /\ defect = [f \in Failures |-> "none"]
  /\ caller = [c \in Callers |-> NoCallOfUat]
  /\ reports = [f \in Failures |-> 0]
  /\ untested = {} /\ cutShort = {}

SetState(v, state) == session' = [session EXCEPT ![v].state = state]
EndCall(c) == caller' = [caller EXCEPT ![c] = NoCallOfUat]
InCall(c, v, pc) == caller' = [caller EXCEPT ![c] = [NoCallOfUat EXCEPT !.pc = pc, !.session = v]]

-----------------------------------------------------------------------------
(* startSession: two may run over one story, and a version is used once     *)

InsertSession(c, v) ==
  /\ caller[c].pc = "none"
  /\ session[v].state = "absent"
  /\ \A w \in Sessions : w < v => session[w].state # "absent"
  /\ SetState(v, "started")
  /\ InCall(c, v, "snapshot")
  /\ UNCHANGED <<result, defect, reports, untested, cutShort>>

InsertResults(c) ==
  /\ caller[c].pc = "snapshot"
  /\ result' = [result EXCEPT ![caller[c].session] = [a \in Criteria |-> "pending"]]
  /\ EndCall(c)
  /\ UNCHANGED <<session, defect, reports, untested, cutShort>>

-----------------------------------------------------------------------------
(* markAC, unmarkAC                                                         *)

\* Mutant: a submitted session may still be marked.
MarkableOrSubmitted == {"started", "in_progress", "submitted"}

Markable == {"started", "in_progress"}

\* The row of a criterion, and the two counts of its session, brought up to it.
SetResult(v, a, to) ==
  LET Adjust(n, kind) == n + (IF to = kind THEN 1 ELSE IF result[v][a] = kind THEN -1 ELSE 0)
  IN  /\ session[v].state \in Markable
      /\ result[v][a] \notin {"none", to}
      /\ result' = [result EXCEPT ![v][a] = to]
      /\ session' = [session EXCEPT ![v].pass = Adjust(@, "pass"), ![v].fail = Adjust(@, "fail"),
           ![v].state = IF to # "pending" /\ @ = "started" THEN "in_progress" ELSE @]
      /\ UNCHANGED <<defect, caller, reports, untested, cutShort>>

MarkAC(v, a)   == \E to \in {"pass", "fail"} : SetResult(v, a, to)
UnmarkAC(v, a) == SetResult(v, a, "pending")

-----------------------------------------------------------------------------
(* submit                                                                  *)

Outcome(v) ==
  IF session[v].fail = 0 THEN "accepted"
  ELSE IF session[v].fail = Cardinality(Criteria) THEN "rejected" ELSE "partially_accepted"

Failed(v) == {a \in Criteria : result[v][a] = "fail"}

\* Mutant: a second submit goes through what the first one is at.
SubmitAgain(c, v) ==
  /\ caller[c].pc = "none"
  /\ session[v].state \in {"started", "in_progress", "submitted"}
  /\ \A a \in Criteria : result[v][a] # "pending"
  /\ SetState(v, "submitted")
  /\ caller' = [caller EXCEPT ![c] = [NoCallOfUat EXCEPT
       !.pc = "reporting", !.session = v, !.todo = Failed(v), !.outcome = Outcome(v)]]
  /\ untested' = IF \E a \in Criteria : result[v][a] = "none" THEN untested \cup {v} ELSE untested
  /\ UNCHANGED <<result, defect, reports, cutShort>>

\* The transaction.  No row of the session may be pending.
Submit(c, v) ==
  /\ caller[c].pc = "none"
  /\ session[v].state \in {"started", "in_progress"}
  /\ \A a \in Criteria : result[v][a] # "pending"
  /\ SetState(v, "submitted")
  /\ caller' = [caller EXCEPT ![c] = [NoCallOfUat EXCEPT
       !.pc = "reporting", !.session = v, !.todo = Failed(v), !.outcome = Outcome(v)]]
  /\ untested' = IF \E a \in Criteria : result[v][a] = "none" THEN untested \cup {v} ELSE untested
  /\ UNCHANGED <<result, defect, reports, cutShort>>

\* createDefect looks for a defect of the criterion that is still open, in
\* whichever session it was found; one that has been reopened is not.
FindDefect(c, a) ==
  /\ caller[c].pc = "reporting" /\ a \in caller[c].todo
  /\ LET open == {f \in Failures : f[2] = a /\ defect[f] = "open"}
     IN  \E f \in IF open = {} THEN {NoFailure} ELSE open :
           caller' = [caller EXCEPT ![c].pc = "writing", ![c].found = f,
                                    ![c].at = <<caller[c].session, a>>]
  /\ UNCHANGED <<session, result, defect, reports, untested, cutShort>>

WriteDefect(c) ==
  LET at == caller[c].at
      found == caller[c].found
  IN  /\ caller[c].pc = "writing"
      /\ defect' = IF found = NoFailure THEN [defect EXCEPT ![at] = "open"]
                                        ELSE [defect EXCEPT ![found] = "reopened"]
      /\ reports' = [reports EXCEPT ![at] = @ + 1]
      /\ caller' = [caller EXCEPT ![c].pc = "reporting", ![c].todo = @ \ {at[2]},
                                  ![c].at = NoFailure, ![c].found = NoFailure]
      /\ UNCHANGED <<session, result, untested, cutShort>>

\* Whatever accept() or partialAccept() has made of the session meanwhile.
DecideSession(c) ==
  /\ caller[c].pc = "reporting" /\ caller[c].todo = {}
  /\ SetState(caller[c].session, caller[c].outcome)
  /\ EndCall(c)
  /\ UNCHANGED <<result, defect, reports, untested, cutShort>>

-----------------------------------------------------------------------------
(* accept, partialAccept: read, then update by id                           *)

AcceptBegin(c, v) ==
  /\ caller[c].pc = "none"
  /\ session[v].state = "submitted" /\ session[v].fail = 0
  /\ InCall(c, v, "accepting")
  /\ UNCHANGED <<session, result, defect, reports, untested, cutShort>>

PartialAcceptBegin(c, v) ==
  /\ caller[c].pc = "none"
  /\ session[v].state = "submitted"
  /\ InCall(c, v, "accepting partially")
  /\ UNCHANGED <<session, result, defect, reports, untested, cutShort>>

AcceptEnd(c) ==
  /\ \/ caller[c].pc = "accepting" /\ SetState(caller[c].session, "accepted")
     \/ caller[c].pc = "accepting partially" /\ SetState(caller[c].session, "partially_accepted")
  /\ EndCall(c)
  /\ UNCHANGED <<result, defect, reports, untested, cutShort>>

-----------------------------------------------------------------------------
(* Defects from elsewhere, and failures                                    *)

\* submitDefect: an operator's report of a criterion, once each.
SubmitDefect(a) ==
  /\ defect[<<0, a>>] = "none"
  /\ defect' = [defect EXCEPT ![<<0, a>>] = "open"]
  /\ UNCHANGED <<session, result, caller, reports, untested, cutShort>>

MarkDefectFixed(f) ==
  /\ defect[f] \in {"open", "reopened"}
  /\ defect' = [defect EXCEPT ![f] = "resolved"]
  /\ UNCHANGED <<session, result, caller, reports, untested, cutShort>>

\* A query or an append rejects, or the process dies.
CallBreaksOff(c) ==
  /\ caller[c].pc # "none"
  /\ cutShort' = IF caller[c].pc \in {"reporting", "writing"}
                 THEN cutShort \cup {caller[c].session} ELSE cutShort
  /\ EndCall(c)
  /\ UNCHANGED <<session, result, defect, reports, untested>>

-----------------------------------------------------------------------------

CallerNext(c) ==
  \/ InsertResults(c) \/ WriteDefect(c) \/ DecideSession(c) \/ AcceptEnd(c) \/ CallBreaksOff(c)
  \/ \E v \in Sessions : \/ InsertSession(c, v) \/ Submit(c, v)
                         \/ AcceptBegin(c, v) \/ PartialAcceptBegin(c, v)
  \/ \E a \in Criteria : FindDefect(c, a)

UatNext ==
  \/ \E c \in Callers : CallerNext(c)
  \/ \E v \in Sessions, a \in Criteria : MarkAC(v, a) \/ UnmarkAC(v, a)
  \/ \E a \in Criteria : SubmitDefect(a)
  \/ \E f \in Failures : MarkDefectFixed(f)

UatSpec == UatInit /\ [][UatNext]_uatVars

-----------------------------------------------------------------------------
(* Properties                                                              *)

\* In an accepted session every criterion has passed, whichever marks, accepts
\* and submits ran beside one another; unless it was submitted before its
\* results had rows, which nothing keeps from being accepted ("Guards: all ACs
\* must be non-pending", submit; the pass and fail counts it decides by).
AcceptedWasTested ==
  \A v \in Sessions \ untested :
    session[v].state = "accepted" => \A a \in Criteria : result[v][a] = "pass"

\* A failed criterion is reported once at most for each session, however often
\* the session is submitted, and once exactly when it has been turned down by
\* a submit that ran to its end ("Creates defects for every failed AC", submit).
FailuresReportedOnce ==
  /\ \A f \in Failures : reports[f] <= 1
  /\ \A v \in Sessions \ cutShort :
       /\ session[v].state \in {"partially_accepted", "rejected"}
       /\ \A c \in Callers : caller[c].session # v
       => \A a \in Failed(v) : reports[<<v, a>>] = 1
=============================================================================
