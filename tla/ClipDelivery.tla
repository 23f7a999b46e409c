---------------------------- MODULE ClipDelivery ----------------------------
(***************************************************************************)
(* What the connector promises about a clip once it sits in the durable    *)
(* upload queue, with no rows, files, threads or crashes in sight.         *)
(*                                                                         *)
(* A clip is accepted once.  From then on it is held until a copy of it    *)
(* has been confirmed by the backend, until the retry budget is used up,   *)
(* or until the operator discards it.  The backend may receive more than   *)
(* one copy (the queue is at-least-once), but never a new copy of a clip   *)
(* that is settled.                                                        *)
(***************************************************************************)
EXTENDS Naturals

CONSTANTS Clips,       (* the clips that may be cut                           *)
          MaxRetries   (* cfg.max_upload_retries                              *)

VARIABLES status,      (* where the promise about each clip stands            *)
          copies,      (* completed uploads of each clip at the backend       *)
          failures     (* failed attempts counted against each clip           *)

deliveryVars == <<status, copies, failures>>

Statuses == {"none", "queued", "settled", "discarded"}

DeliveryTypeOK ==
    /\ status \in [Clips -> Statuses]
    /\ copies \in [Clips -> Nat]
    /\ failures \in [Clips -> 0..MaxRetries]

Init ==
    /\ status = [c \in Clips |-> "none"]
    /\ copies = [c \in Clips |-> 0]
    /\ failures = [c \in Clips |-> 0]

Accept(c) ==
    /\ status[c] = "none"
    /\ status' = [status EXCEPT ![c] = "queued"]
    /\ UNCHANGED <<copies, failures>>

\* A copy reaches the backend.  An upload that is already running when the
\* operator discards the clip may still go through.
Deliver(c) ==
    /\ status[c] \in {"queued", "discarded"}
    /\ copies' = [copies EXCEPT ![c] = @ + 1]
    /\ UNCHANGED <<status, failures>>

Confirm(c) ==
    /\ status[c] = "queued"
    /\ copies[c] > 0
    /\ status' = [status EXCEPT ![c] = "settled"]
    /\ UNCHANGED <<copies, failures>>

\* One attempt fails; the last one the budget allows settles the clip.
Reject(c) ==
    /\ status[c] \in {"queued", "discarded"}
    /\ failures[c] < MaxRetries
    /\ failures' = [failures EXCEPT ![c] = @ + 1]
    /\ status' = IF status[c] = "queued" /\ failures[c] + 1 = MaxRetries
                 THEN [status EXCEPT ![c] = "settled"]
                 ELSE status
    /\ UNCHANGED copies

\* Clear local clips: the operator gives up a whole set of clips at once.
Discard(S) ==
    /\ status' = [c \in Clips |-> IF c \in S THEN "discarded" ELSE status[c]]
    /\ UNCHANGED <<copies, failures>>

Next ==
    \/ \E c \in Clips : Accept(c) \/ Deliver(c) \/ Confirm(c) \/ Reject(c)
    \/ \E S \in SUBSET Clips : Discard(S)

Spec == Init /\ [][Next]_deliveryVars
=============================================================================
