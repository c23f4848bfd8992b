-------------------------- MODULE MCExecutionControl --------------------------
(***************************************************************************)
(* ExecutionControl for TLC.  Tasks and requests are model values; which   *)
(* unused one comes next is already fixed by Fresh and Unused, so that no  *)
(* symmetry reduction is needed (nor sound, next to CHOOSE).               *)
(***************************************************************************)
EXTENDS ExecutionControl

AnyRequest  == {"stop", "rerun", "delete"}
Reruns      == {"rerun"}
Stops       == {"stop"}

AnyManner   == {"any"}
OneByOne    == {"serial"}
AsOffered   == {"page"}
=============================================================================
