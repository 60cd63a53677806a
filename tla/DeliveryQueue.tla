---------------------------- MODULE DeliveryQueue ----------------------------
(***************************************************************************)
(* What the outbox promises, without batches, retries or restarts: an      *)
(* at-least-once queue.  An entry is a pair <<id, key>>; no two entries    *)
(* wait under one key, and an entry only leaves once it was delivered.     *)
(***************************************************************************)
VARIABLES
    pending,    \* entries waiting
    delivered   \* ids some delivery of which was accepted

Init == pending = {} /\ delivered = {}

Add ==
    /\ pending \subseteq pending'
    /\ \A e, f \in pending' : e[2] = f[2] => e = f
    /\ \A e \in pending' \ pending : e[1] \notin delivered
    /\ UNCHANGED delivered

Deliver ==
    /\ delivered \subseteq delivered'
    /\ \A id \in delivered' \ delivered : \E e \in pending : e[1] = id
    /\ UNCHANGED pending

Remove ==
    /\ pending' \subseteq pending
    /\ \A e \in pending \ pending' : e[1] \in delivered
    /\ UNCHANGED delivered

Next == Add \/ Deliver \/ Remove

Spec == Init /\ [][Next]_<<pending, delivered>>
=============================================================================
