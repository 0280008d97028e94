---------------------------- MODULE MCHubOutbox ----------------------------
(* TLC instances of HubOutbox: the two events are interchangeable.          *)
EXTENDS HubOutbox, TLC

EventSymmetry == Permutations(Events)
=============================================================================
