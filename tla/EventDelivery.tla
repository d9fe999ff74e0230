---------------------------- MODULE EventDelivery ----------------------------
(***************************************************************************)
(* What the outbox promises to AnalysisService.submit(): an event that was *)
(* accepted is handed to the broker at least once before it is settled, at *)
(* most Budget times in all, and is settled once and for all, as done or   *)
(* as dead.  Deliveries may come late, after the event has been settled:   *)
(* the consumer has to be idempotent.                                      *)
(***************************************************************************)
EXTENDS Naturals

CONSTANTS
  Events,   \* the events
  Budget    \* how many deliveries one event may cost, a number

VARIABLES
  state,       \* event -> "none", "accepted", "done" or "dead"
  deliveries   \* event -> how many times it was delivered

evars == <<state, deliveries>>

Init ==
  /\ state = [e \in Events |-> "none"]
  /\ deliveries = [e \in Events |-> 0]

Accept(e) ==
  /\ state[e] = "none"
  /\ state' = [state EXCEPT ![e] = "accepted"]
  /\ UNCHANGED deliveries

Deliver(e) ==
  /\ state[e] # "none"
  /\ deliveries[e] < Budget
  /\ deliveries' = [deliveries EXCEPT ![e] = @ + 1]
  /\ UNCHANGED state

\* Mutation: an event is settled before it is delivered.
SettleUndelivered(e) ==
  /\ state[e] = "accepted"
  /\ state' = [state EXCEPT ![e] = "done"]
  /\ UNCHANGED deliveries

Settle(e) ==
  /\ state[e] = "accepted"
  /\ deliveries[e] >= 1
  /\ state' = [state EXCEPT ![e] = "done"]
  /\ UNCHANGED deliveries

GiveUp(e) ==
  /\ state[e] = "accepted"
  /\ state' = [state EXCEPT ![e] = "dead"]
  /\ UNCHANGED deliveries

Next == \E e \in Events : Accept(e) \/ Deliver(e) \/ Settle(e) \/ GiveUp(e)

Spec == Init /\ [][Next]_evars
=============================================================================
