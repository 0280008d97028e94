-------------------------- MODULE ProviderCircuits --------------------------
(***************************************************************************)
(* The fallback over model providers: FallbackDriver.send (embed is the same *)
(* over the providers that embed) and the CircuitBreaker of each provider   *)
(* (drivers/fallback.ts).                                                  *)
(*                                                                         *)
(* A call tries the providers in the order of the chain and passes over     *)
(* those whose circuit is open.  Calls run concurrently: while one waits    *)
(* for its provider others open the circuit, probe it or close it, so that  *)
(* an answer may come to a circuit in a state its call never saw.           *)
(***************************************************************************)
EXTENDS Integers

CONSTANTS
  ChainLength,  \* providers, in the order they are tried
  Senders,      \* calls in flight at once
  Threshold,    \* CIRCUIT_OPEN_THRESHOLD
  MaxChanges    \* bound: how often a provider breaks or recovers

ASSUME CircuitsAssumption ==
  ChainLength \in Nat \ {0} /\ Threshold \in Nat \ {0} /\ MaxChanges \in Nat

Providers == 1..ChainLength

VARIABLES
  circuit,   \* _state of each provider's circuit
  failures,  \* _consecutiveFailures; those above Threshold are not told apart
  nextProbe, \* _nextProbeAt: "null", "later" or "due"
  sending,   \* local state of each call
  healthy,   \* does the provider answer?
  changesLeft

circuits == <<circuit, failures, nextProbe>>
world    == <<healthy, changesLeft>>
circuitVars == <<circuits, sending, world>>

Idle == [pc |-> "idle", at |-> 0, sound |-> FALSE]

CircuitsTypeOK ==
  /\ circuit \in [Providers -> {"closed", "open", "half-open"}]
  /\ failures \in [Providers -> 0..Threshold]
  /\ nextProbe \in [Providers -> {"null", "later", "due"}]
  /\ sending \in [Senders -> [pc : {"idle", "choosing", "waiting"}, at : 0..ChainLength,
                              sound : BOOLEAN]]
  /\ \A c \in Senders : sending[c].pc = "waiting" => sending[c].at \in Providers
  /\ healthy \in [Providers -> BOOLEAN]
  /\ changesLeft \in 0..MaxChanges

CircuitsInit ==
  /\ circuit = [p \in Providers |-> "closed"]
  /\ failures = [p \in Providers |-> 0]
  /\ nextProbe = [p \in Providers |-> "null"]
  /\ sending = [c \in Senders |-> Idle]
  /\ healthy = [p \in Providers |-> TRUE]
  /\ changesLeft = MaxChanges

-----------------------------------------------------------------------------
(* CircuitBreaker                                                          *)

\* shouldAttempt, without its transition to half-open.
MayAttempt(p) == circuit[p] # "open" \/ nextProbe[p] = "due"

\* Mutant: the count is taken back, the circuit is not.
ForgetFailures(p) ==
  /\ failures' = [failures EXCEPT ![p] = 0]
  /\ UNCHANGED <<circuit, nextProbe>>

\* Of a circuit that is closed already this changes the count alone.
RecordSuccess(p) ==
  /\ failures' = [failures EXCEPT ![p] = 0]
  /\ circuit' = [circuit EXCEPT ![p] = "closed"]
  /\ nextProbe' = [nextProbe EXCEPT ![p] = "null"]

FailuresAfter(p) == IF failures[p] < Threshold THEN failures[p] + 1 ELSE Threshold

\* Mutant: a probe that fails sets no time for the next one.
FailWithoutNextProbe(p) ==
  LET opens == \/ circuit[p] = "half-open"
               \/ circuit[p] = "closed" /\ FailuresAfter(p) = Threshold
  IN  /\ failures' = [failures EXCEPT ![p] = FailuresAfter(p)]
      /\ circuit' = [circuit EXCEPT ![p] = IF opens THEN "open" ELSE @]
      /\ nextProbe' = [nextProbe EXCEPT ![p] =
           IF ~opens THEN @ ELSE IF circuit[p] = "closed" THEN "later" ELSE "null"]

\* The reset outside the window never takes place: it compares the time with
\* _lastFailureAt, which has just been set to it.
RecordFailure(p) ==
  LET opens == \/ circuit[p] = "half-open"
               \/ circuit[p] = "closed" /\ FailuresAfter(p) = Threshold
  IN  /\ failures' = [failures EXCEPT ![p] = FailuresAfter(p)]
      /\ circuit' = [circuit EXCEPT ![p] = IF opens THEN "open" ELSE @]
      /\ nextProbe' = [nextProbe EXCEPT ![p] = IF opens THEN "later" ELSE @]

\* The clock reaches _nextProbeAt.
ProbeTimeComes(p) ==
  /\ nextProbe[p] = "later"
  /\ nextProbe' = [nextProbe EXCEPT ![p] = "due"]
  /\ UNCHANGED <<circuit, failures, sending, world>>

-----------------------------------------------------------------------------
(* FallbackDriver.send and embed                                           *)

\* The next provider that may be tried is asked at once; without one the call
\* throws.
GoOn(c, from) ==
  \/ \E p \in Providers :
       /\ p > from /\ MayAttempt(p)
       /\ \A q \in Providers : from < q /\ q < p => ~MayAttempt(q)
       /\ circuit' = [circuit EXCEPT ![p] = IF @ = "open" THEN "half-open" ELSE @]
       /\ sending' = [sending EXCEPT ![c] = [pc |-> "waiting", at |-> p, sound |-> healthy[p]]]
       /\ UNCHANGED <<failures, nextProbe>>
  \/ /\ \A p \in Providers : p > from => ~MayAttempt(p)
     /\ sending' = [sending EXCEPT ![c] = Idle]
     /\ UNCHANGED circuits

SendBegins(c) ==
  /\ sending[c].pc = "idle"
  /\ GoOn(c, 0)
  /\ UNCHANGED world

\* A provider may answer if it was healthy when it was asked or is by now.
SendSucceeds(c) ==
  /\ sending[c].pc = "waiting"
  /\ sending[c].sound \/ healthy[sending[c].at]
  /\ RecordSuccess(sending[c].at)
  /\ sending' = [sending EXCEPT ![c] = Idle]
  /\ UNCHANGED world

\* An error that cannot be retried ends the call; after any other the event is
\* emitted, which is awaited, and the next provider's turn comes.
SendFails(c) ==
  /\ sending[c].pc = "waiting"
  /\ ~sending[c].sound \/ ~healthy[sending[c].at]
  /\ RecordFailure(sending[c].at)
  /\ \/ sending' = [sending EXCEPT ![c] = Idle]
     \/ sending' = [sending EXCEPT ![c].pc = "choosing"]
  /\ UNCHANGED world

NextProvider(c) ==
  /\ sending[c].pc = "choosing"
  /\ GoOn(c, sending[c].at)
  /\ UNCHANGED world

ProviderChanges(p) ==
  /\ changesLeft > 0 /\ changesLeft' = changesLeft - 1
  /\ healthy' = [healthy EXCEPT ![p] = ~@]
  /\ UNCHANGED <<circuits, sending>>

-----------------------------------------------------------------------------

SendEnds(c) == SendSucceeds(c) \/ SendFails(c) \/ NextProvider(c)

CircuitsNext ==
  \/ \E c \in Senders : SendBegins(c) \/ SendEnds(c)
  \/ \E p \in Providers : ProbeTimeComes(p) \/ ProviderChanges(p)

CircuitsSpec == CircuitsInit /\ [][CircuitsNext]_circuitVars

\* Requests end, the clock goes on, and calls keep coming.
CircuitsFairness ==
  /\ \A c \in Senders : WF_circuitVars(SendBegins(c)) /\ WF_circuitVars(SendEnds(c))
  /\ \A p \in Providers : WF_circuitVars(ProbeTimeComes(p))

-----------------------------------------------------------------------------
(* Properties                                                              *)

\* A circuit is closed exactly while its provider has not failed Threshold
\* times in a row, and one that is not has the time of a probe: whichever late
\* answers of calls begun before it opened, or before its probe, come in
\* (shouldAttempt, recordSuccess and recordFailure of CircuitBreaker).
CircuitConsistent ==
  \A p \in Providers :
    /\ circuit[p] = "closed" <=> failures[p] < Threshold
    /\ circuit[p] = "closed" <=> nextProbe[p] = "null"
    /\ circuit[p] = "half-open" => nextProbe[p] = "due"

\* The first provider of the chain is used again, and goes on being used, once
\* it answers for good, whatever the calls still in flight report.
FirstProviderReturns ==
  <>[]healthy[1] => <>[](circuit[1] = "closed")
=============================================================================
