------------------------------ MODULE Delivery ------------------------------
(***************************************************************************)
(* What the radio driver promises the gateway about frames, without chip,  *)
(* FIFO, interrupt, work item, buffers and signal: a new frame is taken as *)
(* it came and used, once, before the next one comes, and nothing is taken *)
(* that did not come.  Frames that come too fast, or while the gateway     *)
(* changes the mode, void the promise; a frame that then finds the gateway *)
(* at rest, or another session, renews it.  Sx1278 implements this         *)
(* (DeliverySpec there).                                                   *)
(***************************************************************************)
CONSTANTS Frames, Nothing

VARIABLES
  listening,  \* a process is registered for the frames
  due,        \* the new frame that has come and has not been used
  taken,      \* what the process has read, until it is used
  void        \* nothing is promised

delivery_vars == <<listening, due, taken, void>>

DeliveryInit == ~listening /\ due = Nothing /\ taken = Nothing /\ void = FALSE

\* Whatever the radio receives between two sessions is nobody's.
Unheard ==
  /\ ~listening
  /\ listening' \in BOOLEAN /\ void' \in BOOLEAN
  /\ UNCHANGED <<due, taken>>

Come ==
  /\ listening
  /\ void \/ due = Nothing
  /\ taken = Nothing
  /\ due' \in Frames
  /\ void' = FALSE
  /\ UNCHANGED <<listening, taken>>

Take ==
  /\ ~void
  /\ due # Nothing /\ taken = Nothing
  /\ taken' = due
  /\ UNCHANGED <<listening, due, void>>

Use ==
  /\ ~void
  /\ due # Nothing /\ taken = due
  /\ due' = Nothing /\ taken' = Nothing
  /\ UNCHANGED <<listening, void>>

\* The process ends; what was on its way is lost.
End ==
  /\ listening
  /\ listening' = FALSE
  /\ due' = Nothing /\ taken' = Nothing
  /\ UNCHANGED void

Void ==
  /\ listening
  /\ void' = TRUE
  /\ UNCHANGED listening

DeliveryNext == Unheard \/ Come \/ Take \/ Use \/ End \/ Void

Spec == DeliveryInit /\ [][DeliveryNext]_delivery_vars

=============================================================================
