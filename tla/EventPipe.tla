------------------------------ MODULE EventPipe ------------------------------
(***************************************************************************)
(* What a monitor may expect of the queue-and-writer pair behind it        *)
(* (monitors/queue_worker.py): observations are accepted one at a time and *)
(* settled strictly oldest first, a run of consecutive ones per database   *)
(* transaction, and the whole run shares one outcome.  A settled           *)
(* observation never changes its outcome again.                            *)
(***************************************************************************)
EXTENDS Naturals, Sequences

VARIABLE outcome    \* outcome[i]: what became of the i-th observation

Outcomes == {"pending", "stored", "dropped"}

Init == outcome = <<>>

Accept == outcome' = Append(outcome, "pending")

Oldest(i) ==
    /\ i \in 1..Len(outcome)
    /\ \A j \in 1..Len(outcome) : outcome[j] = "pending" <=> j >= i

Settle ==
    \E i \in 1..Len(outcome) : \E j \in i..Len(outcome) : \E o \in {"stored", "dropped"} :
        /\ Oldest(i)
        /\ outcome' = [k \in 1..Len(outcome) |-> IF k \in i..j THEN o ELSE outcome[k]]

Next == Accept \/ Settle

SafeSpec == Init /\ [][Next]_outcome
=============================================================================
