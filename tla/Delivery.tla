------------------------------ MODULE Delivery ------------------------------
(***************************************************************************)
(* What the engine may rely on about the blocks it is handed: one call of  *)
(* its handler at a time, no block before an older one, no block more than *)
(* twice, and none at all after the delivery has ended, which it does only *)
(* once the shutdown signal was given.                                     *)
(***************************************************************************)
EXTENDS Naturals

CONSTANT MaxBlock   \* bound: the blocks of the chain

VARIABLES
    head,       \* the chain's latest block
    cancelled,  \* the shutdown signal was given
    last,       \* the block handed over last; 0: none yet
    settled,    \* that block is not handed over again
    busy,       \* a call of the handler is under way
    ended       \* no block is handed over any more

vars == <<head, cancelled, last, settled, busy, ended>>

Init ==
    /\ head = 0
    /\ cancelled = FALSE
    /\ last = 0
    /\ settled = FALSE
    /\ busy = FALSE
    /\ ended = FALSE

NewBlock ==
    /\ head < MaxBlock
    /\ head' = head + 1
    /\ UNCHANGED <<cancelled, last, settled, busy, ended>>

Cancel ==
    /\ cancelled' = TRUE
    /\ UNCHANGED <<head, last, settled, busy, ended>>

(* A later block, or the last one for a second time.                       *)
Deliver(n) ==
    /\ ~busy /\ ~ended
    /\ n > last \/ (n = last /\ ~settled)
    /\ last' = n
    /\ settled' \in BOOLEAN
    /\ n = last => settled'
    /\ busy' = TRUE
    /\ UNCHANGED <<head, cancelled, ended>>

(* The second time does not come.                                          *)
Settle ==
    /\ settled' = TRUE
    /\ UNCHANGED <<head, cancelled, last, busy, ended>>

Return ==
    /\ busy
    /\ busy' = FALSE
    /\ UNCHANGED <<head, cancelled, last, settled, ended>>

End ==
    /\ ~busy /\ cancelled
    /\ ended' = TRUE
    /\ settled' = TRUE
    /\ UNCHANGED <<head, cancelled, last, busy>>

Next == \/ NewBlock \/ Cancel \/ Settle \/ Return \/ End
        \/ \E n \in 1..head : Deliver(n)

Spec == Init /\ [][Next]_vars
=============================================================================
