------------------------------- MODULE Events -------------------------------
(***************************************************************************)
(* The occurrences that the bridge reports to the service. An event is a   *)
(* record: key stands for its event_id, which the bridge derives from what *)
(* happened; kind is "status" (of the account), "inbound" or "own" (a      *)
(* message upsert, by direction) or "receipt"; says is the status that is  *)
(* reported, and msg the WhatsApp id of the message it is about.           *)
(***************************************************************************)
CONSTANTS
    Event,   \* occurrences to report for one account
    NoEvent

ASSUME EventsAssumption == NoEvent \notin Event

=============================================================================
