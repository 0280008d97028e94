----------------------------- MODULE MCServices -----------------------------
(* Instances for TLC of the parts of the system that share no state with one *)
(* another: the task graph, the share of the sprints, the sprint service,    *)
(* the event feed, a task's worktree, the hub's push, the model providers,   *)
(* the daemon's work queue, user acceptance and the triggers of ceremonies.  *)
(* A behaviour is about one of them, the focus; the others stay as they      *)
(* begin.                                                                    *)
EXTENDS TaskDag, SprintService, EventFeed, Worktree, HubPush, ProviderCircuits, DaemonQueue,
        Uat, CeremonyTriggers, TLC

CONSTANTS a, b, c, p, q, r, c1, c2, h1, h2, k1, k2, m1, m2, e1, e2, r1, r2, v1, v2
CONSTANT Foci  \* the components to run

VARIABLE focus

\* Every graph of three tasks, self-loops included, with rows of both kinds
\* between a and b.
Pair(x, y, k) == [pred |-> x, succ |-> y, blocking |-> k]
AllOfThree == {Pair(x, y, TRUE) : x, y \in {a, b, c}}
                \cup {Pair(a, b, FALSE), Pair(b, a, FALSE)}

\* The heaviest, a middling and the lightest sprint.
FiveThreeOne == (p :> 5) @@ (q :> 3) @@ (r :> 1)

Null       == -1
JustNull   == {-1}
NullOrZero == {-1, 0}

\* The sprint service is run on two sprints: three would be the same again.
ServiceSprints == {p, q}

MCVars == <<vars, serviceVars, feedVars, treeVars, pushVars, circuitVars, queueVars, uatVars, triggerVars, focus>>

MCInit ==
  /\ focus \in Foci
  /\ Init /\ (focus # "dag" => nodes = {} /\ edges = {})
  /\ ServiceInit /\ FeedInit /\ TreeInit /\ PushInit /\ CircuitsInit /\ QueueInit
  /\ UatInit /\ TriggersInit

core  == <<vars, serviceVars, feedVars, treeVars>>
human == <<uatVars, triggerVars>>
links == <<pushVars, circuitVars, queueVars, uatVars, triggerVars>>

DagStep     == focus = "dag" /\ Next /\ UNCHANGED <<serviceVars, feedVars, treeVars, links, focus>>
\* Sprints that are live just while they are scheduled.
ShareStep   == focus = "share" /\ ShareNext
                 /\ status' = [s \in Sprints |-> IF s \in scheduled' THEN "active" ELSE "absent"]
                 /\ UNCHANGED <<vars, call, contended, stranded, feedVars, treeVars, links, focus>>
ServiceStep == focus = "service" /\ ServiceNext
                 /\ \A s \in Sprints \ ServiceSprints : status'[s] = "absent"
                 /\ UNCHANGED <<vars, feedVars, treeVars, links, focus>>
FeedStep    == focus = "feed" /\ FeedNext
                 /\ UNCHANGED <<vars, serviceVars, treeVars, links, focus>>
TreeStep    == focus = "tree" /\ TreeNext
                 /\ UNCHANGED <<vars, serviceVars, feedVars, links, focus>>
PushStep    == focus = "push" /\ PushNext /\ UNCHANGED <<core, circuitVars, queueVars, human, focus>>
CircuitsStep == focus = "circuits" /\ CircuitsNext /\ UNCHANGED <<core, pushVars, queueVars, human, focus>>
QueueStep   == focus = "queue" /\ QueueNext /\ UNCHANGED <<core, pushVars, circuitVars, human, focus>>
\* An operator reports just the first criterion, which is the only one that is
\* ever fixed; the second session only ever passes the other one.
UatStep     == focus = "uat" /\ UatNext
                 /\ defect'[<<0, v2>>] = "none"
                 /\ \A f \in Failures \ {<<0, v1>>} : defect'[f] # "resolved"
                 /\ result'[2][v2] # "fail"
                 /\ UNCHANGED <<core, pushVars, circuitVars, queueVars, triggerVars, focus>>
TriggersStep == focus = "triggers" /\ TriggersNext
                 /\ UNCHANGED <<core, pushVars, circuitVars, queueVars, uatVars, focus>>

MCNext == DagStep \/ ShareStep \/ ServiceStep \/ FeedStep \/ TreeStep
            \/ PushStep \/ CircuitsStep \/ QueueStep
            \/ UatStep \/ TriggersStep

MCSpec ==
  /\ MCInit /\ [][MCNext]_MCVars
  /\ WF_feedVars(focus = "feed" /\ ClientStep)
  /\ \A e \in EventIds : WF_feedVars(focus = "feed" /\ (Commit(e) \/ AppendFails(e)))

\* EverySprintGetsItsTurn under the fairness of FairShareSpec, which stands
\* here because TLC is slower with it in MCSpec; and the same of the providers
\* and of the work queue.
FairTurns       == focus = "share" /\ WF_shareVars(PickAny) => EverySprintGetsItsTurn
ProviderReturns == focus = "circuits" /\ CircuitsFairness => FirstProviderReturns
MessagesSettle  == focus = "queue" /\ QueueFairness => EveryMessageSettles

\* The types of all of them.
TypesOK ==
  /\ TypeOK /\ ServiceTypeOK /\ FeedTypeOK /\ TreeTypeOK /\ PushTypeOK
  /\ CircuitsTypeOK /\ QueueTypeOK /\ UatTypeOK /\ TriggersTypeOK
=============================================================================
