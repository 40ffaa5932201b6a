----------------------------- MODULE ParamStore -----------------------------
(***************************************************************************)
(* What the pair of flash sectors behind api/api_sys_param promises: one   *)
(* parameter record that a save replaces as a whole.  A reset at any time  *)
(* either finds the record as it was or as it was asked to become, never   *)
(* another one and never none.                                             *)
(***************************************************************************)
CONSTANTS Data,   \* parameter records
          None    \* the record of a device nothing was ever stored in

VARIABLES stored,   \* the record the device has
          pending   \* the record a save is replacing it with, or None

vars == <<stored, pending>>

Init == stored \in Data \cup {None} /\ pending = None

Request(d) == pending = None /\ pending' = d /\ UNCHANGED stored

Commit == pending # None /\ stored' = pending /\ pending' = None

\* A reset before the record was replaced.
Abandon == pending # None /\ pending' = None /\ UNCHANGED stored

Next == (\E d \in Data : Request(d)) \/ Commit \/ Abandon

Spec == Init /\ [][Next]_vars
=============================================================================
