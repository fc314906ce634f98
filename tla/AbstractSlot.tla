---------------------------- MODULE AbstractSlot ----------------------------
(***************************************************************************)
(* What a replaceable resource slot promises its users: from its start to  *)
(* its close it always holds a resource, a replacement is a newer resource *)
(* and the next generation, and after the close it is empty for good.      *)
(***************************************************************************)
EXTENDS Naturals

VARIABLES
    phase,    \* "new", "ready" or "closed"
    current,  \* the resource users get, 0 when there is none
    count     \* how often it was replaced

slotVars == <<phase, current, count>>

SlotInit == phase = "new" /\ current = 0 /\ count = 0

SlotStart == /\ phase = "new"
             /\ phase' = "ready"
             /\ current' \in Nat \ {0}
             /\ UNCHANGED count

SlotReplace == /\ phase = "ready"
               /\ current' \in Nat
               /\ current' > current
               /\ count' = count + 1
               /\ UNCHANGED phase

\* A slot may also be closed before it was started.
SlotClose == /\ phase # "closed"
             /\ phase' = "closed"
             /\ current' = 0
             /\ UNCHANGED count

SlotNext == SlotStart \/ SlotReplace \/ SlotClose

SlotSpec == SlotInit /\ [][SlotNext]_slotVars
=============================================================================
