-------------------------- MODULE MCNativeHandoff --------------------------
(* Two failed forks and four deaths of native-start: enough for a failed *)
(* first start, a failed rescue and a rescue that dies again, on both     *)
(* sides of the deadline.                                                 *)
EXTENDS NativeHandoff
=============================================================================
