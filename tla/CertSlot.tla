------------------------------ MODULE CertSlot ------------------------------
(***************************************************************************)
(* What the certificate cache promises, without saying how a certificate   *)
(* is obtained: one slot that is filled at most once, in two steps, by the *)
(* process that started last, and the key pair a process serves.  Only a   *)
(* process whose look at the slot failed stores over what is there.        *)
(***************************************************************************)
EXTENDS Naturals

VARIABLES
  slot,     \* the key pair in the cache
  current,  \* the key of the process that started last
  serves,   \* the key of the pair it serves; 0 when it serves none
  unseen    \* its last look at the slot failed

slotVars == <<slot, current, serves, unseen>>

\* empty: nothing cached.  half: certificate of the current process stored, its
\* key not yet.  usable: a pair that loads.  wedged: something that does not load.
Slot == [state : {"empty", "half", "usable", "wedged"}, key : Nat]

SlotInit ==
  /\ slot = [state |-> "empty", key |-> 0]
  /\ current = 0
  /\ serves = 0
  /\ unseen = FALSE

\* A process starts, with a key of its own.
Start ==
  /\ serves = 0
  /\ slot.state # "half"
  /\ current' = current + 1
  /\ UNCHANGED <<slot, serves, unseen>>

\* It looks at the slot, and sees it or not.
Look ==
  /\ serves = 0
  /\ slot.state # "half"
  /\ unseen' \in BOOLEAN
  /\ UNCHANGED <<slot, current, serves>>

\* The certificate is stored.
StoreFirstHalf ==
  /\ slot.state = "empty" \/ unseen
  /\ slot' = [state |-> "half", key |-> current]
  /\ UNCHANGED <<current, serves, unseen>>

\* Its key follows.
StoreSecondHalf ==
  /\ slot.state = "half"
  /\ slot' = [slot EXCEPT !.state = "usable"]
  /\ UNCHANGED <<current, serves, unseen>>

\* A certificate is stored over one that was not seen, and fits the key there.
StoreOver ==
  /\ unseen
  /\ slot' \in [state : {"usable"}, key : 1..current]
  /\ UNCHANGED <<current, serves, unseen>>

\* A store fails, is cut short or stores the wrong thing.
Wedge ==
  /\ slot.state \in {"empty", "half"} \/ unseen
  /\ slot' = [state |-> "wedged", key |-> 0]
  /\ serves' \in {serves, 0}
  /\ unseen' \in {unseen, FALSE}
  /\ UNCHANGED current

\* The process serves its own key, or the pair it found.
ServePair ==
  /\ serves = 0
  /\ slot.state # "half"
  /\ \/ serves' = current
     \/ slot.state = "usable" /\ serves' = slot.key
  /\ UNCHANGED <<slot, current, unseen>>

Stop ==
  /\ slot.state # "half"
  /\ serves' = 0
  /\ unseen' = FALSE
  /\ UNCHANGED <<slot, current>>

SlotNext ==
  \/ Start \/ Look \/ StoreFirstHalf \/ StoreSecondHalf \/ StoreOver \/ Wedge
  \/ ServePair \/ Stop

SlotSpec == SlotInit /\ [][SlotNext]_slotVars

=============================================================================
