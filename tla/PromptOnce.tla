----------------------------- MODULE PromptOnce -----------------------------
(***************************************************************************)
(* What the prompt receipts of a conversation promise, without schedules,  *)
(* leases, owners or processes: a key is accepted, its prompt runs at most *)
(* once, and the receipt ends completed or unknown.  A key may be given    *)
(* back only if its prompt never ran.                                      *)
(***************************************************************************)
EXTENDS Naturals

CONSTANT Keys
VARIABLES
    status,  \* "none", "accepted", "completed" or "unknown", by key
    runs,    \* how often the prompt of a key ran
    gone     \* the conversation was deleted

pvars == <<status, runs, gone>>

Init ==
    /\ status = [k \in Keys |-> "none"]
    /\ runs = [k \in Keys |-> 0]
    /\ gone = FALSE

Accept(k) ==
    /\ status[k] = "none"
    /\ gone \/ runs[k] = 0
    /\ status' = [status EXCEPT ![k] = "accepted"]
    /\ UNCHANGED <<runs, gone>>

Refuse(k) ==
    /\ status[k] = "none"
    /\ status' = [status EXCEPT ![k] = "unknown"]
    /\ UNCHANGED <<runs, gone>>

Start(k) ==
    /\ gone \/ status[k] \in {"accepted", "unknown"}
    /\ runs[k] = 0
    /\ runs' = [runs EXCEPT ![k] = 1]
    /\ UNCHANGED <<status, gone>>

Complete(k) ==
    /\ status[k] = "accepted" /\ runs[k] = 1
    /\ status' = [status EXCEPT ![k] = "completed"]
    /\ UNCHANGED <<runs, gone>>

\* One receipt whose lease ran out or whose run failed, or all of a dead process.
GiveUp(K) ==
    /\ \A k \in K : status[k] = "accepted"
    /\ status' = [k \in Keys |-> IF k \in K THEN "unknown" ELSE status[k]]
    /\ UNCHANGED <<runs, gone>>

Release(k) ==
    /\ status[k] = "accepted" /\ runs[k] = 0
    /\ status' = [status EXCEPT ![k] = "none"]
    /\ UNCHANGED <<runs, gone>>

Delete ==
    /\ ~gone
    /\ gone' = TRUE
    /\ status' = [k \in Keys |-> "none"]
    /\ UNCHANGED runs

Next ==
    \/ \E K \in SUBSET Keys : GiveUp(K)
    \/ \E k \in Keys : Accept(k) \/ Refuse(k) \/ Start(k) \/ Complete(k) \/ Release(k)
    \/ Delete

Spec == Init /\ [][Next]_pvars
=============================================================================
