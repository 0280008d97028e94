-------------------------- MODULE CeremonyTriggers --------------------------
(***************************************************************************)
(* Ceremonies scheduled by events: DefaultCeremonyScheduler (domain/src/    *)
(* comms/ceremony-scheduler.ts) over DefaultCeremonyService.schedule.       *)
(*                                                                         *)
(* Every event of the feed is handled without being waited for, and may     *)
(* come more than once (module EventFeed) and to more than one process.     *)
(* For each rule a row of ceremony_trigger_firings is claimed before the    *)
(* ceremony is scheduled, and given its id afterwards.  A step that fails   *)
(* ends its rule; the row stays.                                            *)
(***************************************************************************)
EXTENDS Integers

CONSTANTS
  Rules,          \* rules that the events' type triggers
  TriggerEvents,
  Runs,           \* onEvent calls in flight at once, of all processes
  MaxDeliveries   \* bound: calls of onEvent

ASSUME TriggersAssumption == MaxDeliveries \in Nat

VARIABLES
  firing,         \* ceremony_trigger_firings: is there no row ("absent"), one
                  \* without a ceremony ("null"), or the firing it names
  ceremonies,     \* how many ceremonies were inserted for a firing
  run,            \* local state of each onEvent
  deliveriesLeft

triggerVars == <<firing, ceremonies, run, deliveriesLeft>>

Firings == Rules \X TriggerEvents
NoRow      == <<"absent">>
NoCeremony == <<"null">>
NoRun      == [pc |-> "none", left |-> {}, at |-> NoRow]

TriggersTypeOK ==
  /\ firing \in [Firings -> {NoRow, NoCeremony} \cup Firings]
  /\ ceremonies \in [Firings -> Nat]
  /\ run \in [Runs -> [pc : {"none", "rules", "matching", "claiming", "scheduling", "recording"},
                      left : SUBSET Firings, at : {NoRow} \cup Firings]]
  /\ \A n \in Runs : run[n].pc \notin {"none", "rules"} => run[n].at \in Firings
  /\ deliveriesLeft \in 0..MaxDeliveries

TriggersInit ==
  /\ firing = [f \in Firings |-> NoRow]
  /\ ceremonies = [f \in Firings |-> 0]
  /\ run = [n \in Runs |-> NoRun]
  /\ deliveriesLeft = MaxDeliveries

At(n) == run[n].at
RunStep(n, from, to) == run[n].pc = from /\ run' = [run EXCEPT ![n].pc = to]
\* On to the next rule.
RuleEnds(n) == run' = [run EXCEPT ![n].pc = "rules", ![n].at = NoRow]

-----------------------------------------------------------------------------
(* onEvent                                                                 *)

OnEvent(n, e) ==
  /\ run[n].pc = "none" /\ deliveriesLeft > 0
  /\ deliveriesLeft' = deliveriesLeft - 1
  /\ run' = [run EXCEPT ![n].pc = "rules", ![n].left = Rules \X {e}]
  /\ UNCHANGED <<firing, ceremonies>>

\* alreadyFired; its query may reject, which ends the rule as well.
CheckFired(n, f) ==
  /\ run[n].pc = "rules" /\ f \in run[n].left
  /\ \/ /\ firing[f] = NoRow
        /\ run' = [run EXCEPT ![n].pc = "matching", ![n].left = @ \ {f}, ![n].at = f]
     \/ run' = [run EXCEPT ![n].left = @ \ {f}]
  /\ UNCHANGED <<firing, ceremonies, deliveriesLeft>>

\* What a rule's match() finds in the tables is left open.
MatchRule(n) ==
  /\ RunStep(n, "matching", "claiming")
  /\ UNCHANGED <<firing, ceremonies, deliveriesLeft>>

\* A rule does not match, or a query of it rejects.
RuleFails(n) ==
  /\ run[n].pc \in {"matching", "claiming", "recording"}
  /\ RuleEnds(n)
  /\ UNCHANGED <<firing, ceremonies, deliveriesLeft>>

-----------------------------------------------------------------------------
(* fireRule                                                                *)

\* Mutant: a row that is there is taken for this run's own.
ClaimAnyway(n) ==
  /\ RunStep(n, "claiming", "scheduling")
  /\ firing' = [firing EXCEPT ![At(n)] = IF @ = NoRow THEN NoCeremony ELSE @]
  /\ UNCHANGED <<ceremonies, deliveriesLeft>>

\* INSERT ... ON CONFLICT DO NOTHING RETURNING.
ClaimFiring(n) ==
  /\ RunStep(n, "claiming", "scheduling")
  /\ firing[At(n)] = NoRow
  /\ firing' = [firing EXCEPT ![At(n)] = NoCeremony]
  /\ UNCHANGED <<ceremonies, deliveriesLeft>>

LoseClaim(n) ==
  /\ run[n].pc = "claiming" /\ firing[At(n)] # NoRow
  /\ RuleEnds(n)
  /\ UNCHANGED <<firing, ceremonies, deliveriesLeft>>

ScheduleCeremony(n) ==
  /\ RunStep(n, "scheduling", "recording")
  /\ ceremonies' = [ceremonies EXCEPT ![At(n)] = @ + 1]
  /\ UNCHANGED <<firing, deliveriesLeft>>

\* schedule() throws, before it has inserted the ceremony or after it.
ScheduleFails(n) ==
  /\ run[n].pc = "scheduling"
  /\ \/ UNCHANGED ceremonies
     \/ ceremonies' = [ceremonies EXCEPT ![At(n)] = @ + 1]
  /\ RuleEnds(n)
  /\ UNCHANGED <<firing, deliveriesLeft>>

\* UPDATE ... WHERE rule_id: every row of the rule is given the ceremony.
RecordCeremony(n) ==
  /\ run[n].pc = "recording"
  /\ firing' = [f \in Firings |->
       IF f[1] = At(n)[1] /\ firing[f] # NoRow THEN At(n) ELSE firing[f]]
  /\ RuleEnds(n)
  /\ UNCHANGED <<ceremonies, deliveriesLeft>>

\* All rules are through, or the process dies.
RunEnds(n) ==
  /\ run[n].pc # "none"
  /\ run' = [run EXCEPT ![n] = NoRun]
  /\ UNCHANGED <<firing, ceremonies, deliveriesLeft>>

-----------------------------------------------------------------------------

RunNext(n) ==
  \/ \E e \in TriggerEvents : OnEvent(n, e)
  \/ \E f \in Firings : CheckFired(n, f)
  \/ MatchRule(n) \/ RuleFails(n) \/ ClaimFiring(n) \/ LoseClaim(n)
  \/ ScheduleCeremony(n) \/ ScheduleFails(n) \/ RecordCeremony(n) \/ RunEnds(n)

TriggersNext == \E n \in Runs : RunNext(n)

TriggersSpec == TriggersInit /\ [][TriggersNext]_triggerVars

-----------------------------------------------------------------------------
(* Properties                                                              *)

\* However often an event is delivered, to whichever processes, and wherever a
\* run of its handler fails or is cut off, a rule schedules one ceremony for it
\* at most, and none without a row that says so ("subscriber redelivery,
\* multi-process boot ... are silent no-ops", header of ceremony-scheduler.ts).
ScheduledOnce ==
  \A f \in Firings : ceremonies[f] <= 1 /\ (ceremonies[f] = 1 => firing[f] # NoRow)
=============================================================================
