------------------------------- MODULE MCConfig -------------------------------
(***************************************************************************)
(* Model checking of ConfigPropagation: two devices of one class, one of   *)
(* which changes by itself and starts here or away, batches of one device, *)
(* and a budget of three for faults and changes of the model: two of the   *)
(* device, one of them and one of the class or the preferences, which      *)
(* count twice, or one of these and a fault.                               *)
(* The theorems about the same specification hold for any numbers.         *)
(***************************************************************************)
EXTENDS ConfigPropagation
=============================================================================
