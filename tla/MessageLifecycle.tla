-------------------------- MODULE MessageLifecycle --------------------------
(***************************************************************************)
(* What the outbox promises a client about one outbound message: it is     *)
(* accepted once, and then sent or failed once and for all, with the id of *)
(* the platform exactly when it is sent.                                   *)
(***************************************************************************)
CONSTANTS Accepted, Id, NoId

VARIABLES status, waId

Init ==
    /\ status = [i \in Accepted |-> "absent"]
    /\ waId = [i \in Accepted |-> NoId]

Accept(i) ==
    /\ status[i] = "absent"
    /\ status' = [status EXCEPT ![i] = "queued"]
    /\ UNCHANGED waId

Send(i) ==
    /\ status[i] = "queued"
    /\ status' = [status EXCEPT ![i] = "sent"]
    /\ \E id \in Id :
         /\ \A j \in Accepted : waId[j] # id
         /\ waId' = [waId EXCEPT ![i] = id]

Fail(i) ==
    /\ status[i] = "queued"
    /\ status' = [status EXCEPT ![i] = "failed"]
    /\ UNCHANGED waId

Next == \E i \in Accepted : Accept(i) \/ Send(i) \/ Fail(i)

Spec == Init /\ [][Next]_<<status, waId>>

=============================================================================
