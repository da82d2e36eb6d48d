------------------------------ MODULE BuildSlot ------------------------------
(***************************************************************************)
(* What BuildLocks promises its callers, with no lock in sight: per key,   *)
(* one build at a time; each call has one turn at most; a call may end at  *)
(* any time, in its turn or before it, and several may end at once when a  *)
(* process dies.                                                           *)
(***************************************************************************)
CONSTANTS Calls, KeyOf

VARIABLES
  inside,  \* the calls whose turn it is
  over     \* the calls that have ended

slotVars == <<inside, over>>

SlotInit == inside = {} /\ over = {}

Enter(c) ==
  /\ c \notin inside \cup over
  /\ \A d \in inside : KeyOf[d] # KeyOf[c]
  /\ inside' = inside \cup {c}
  /\ UNCHANGED over

End(S) ==
  /\ S \cap over = {}
  /\ inside' = inside \ S
  /\ over' = over \cup S

SlotNext ==
  \/ \E c \in Calls : Enter(c)
  \/ \E S \in SUBSET Calls : End(S)

SlotSpec == SlotInit /\ [][SlotNext]_slotVars
==============================================================================
