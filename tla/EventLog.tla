------------------------------ MODULE EventLog ------------------------------
(***************************************************************************)
(* What the bridge and the service promise about the events of one         *)
(* account: an event that was accepted takes effect at most once, and not  *)
(* before the events numbered and accepted ahead of it have taken effect   *)
(* or were set aside.                                                      *)
(***************************************************************************)
CONSTANT Event

VARIABLES
    accepted,  \* events accepted for delivery
    ahead,     \* ahead[e]: accepted events e must wait for
    applied,   \* events that took effect
    dropped    \* events set aside as undeliverable

Init ==
    /\ accepted = {}
    /\ ahead = [e \in Event |-> {}]
    /\ applied = {}
    /\ dropped = {}

Accept(e) ==
    /\ e \notin accepted
    /\ accepted' = accepted \cup {e}
    /\ \E D \in SUBSET accepted : ahead' = [ahead EXCEPT ![e] = D]
    /\ UNCHANGED <<applied, dropped>>

Ready(e) == e \in accepted /\ ahead[e] \subseteq applied \cup dropped

Apply(e) ==
    /\ Ready(e)
    /\ e \notin applied
    /\ applied' = applied \cup {e}
    /\ UNCHANGED <<accepted, ahead, dropped>>

Drop(e) ==
    /\ Ready(e)
    /\ dropped' = dropped \cup {e}
    /\ UNCHANGED <<accepted, ahead, applied>>

Next == \E e \in Event : Accept(e) \/ Apply(e) \/ Drop(e)

Spec == Init /\ [][Next]_<<accepted, ahead, applied, dropped>>

=============================================================================
