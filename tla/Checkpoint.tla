----------------------------- MODULE Checkpoint -----------------------------
(***************************************************************************)
(* What the persisted last_processed_block promises, without tasks,        *)
(* channels or restarts: blocks become settled one way or another, and the *)
(* checkpoint only ever moves forward, over settled blocks.                *)
(***************************************************************************)
EXTENDS Integers

VARIABLES
    checkpoint,  \* last_processed_block, or -1 before the first boot
    origin,      \* first block the service is responsible for
    settled      \* blocks handed to the filtering engine or given up

Init == checkpoint = -1 /\ origin = 0 /\ settled = {}

Start ==
    /\ checkpoint = -1
    /\ checkpoint' \in Nat
    /\ origin' = checkpoint' + 1
    /\ UNCHANGED settled

Settle ==
    /\ settled \subseteq settled'
    /\ UNCHANGED <<checkpoint, origin>>

Advance ==
    /\ checkpoint # -1
    /\ checkpoint' \in Nat
    /\ checkpoint' > checkpoint
    /\ (checkpoint + 1)..checkpoint' \subseteq settled
    /\ UNCHANGED <<origin, settled>>

Next == Start \/ Settle \/ Advance

Spec == Init /\ [][Next]_<<checkpoint, origin, settled>>
=============================================================================
