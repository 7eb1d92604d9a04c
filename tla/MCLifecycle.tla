----------------------------- MODULE MCLifecycle -----------------------------
(* Instances of InterceptorLifecycle for TLC: root is process 1, an ordinary  *)
(* user owns the others.                                                      *)
EXTENDS InterceptorLifecycle

MCUidOf == [p \in Pid |-> IF p = 1 THEN 0 ELSE 7]

=============================================================================
