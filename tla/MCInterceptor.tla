---------------------------- MODULE MCInterceptor ----------------------------
(* Instances of Interceptor for TLC: root is process 1, an ordinary user      *)
(* owns the others.                                                           *)
EXTENDS InterceptorClaims

MCUidOf == [p \in Pid |-> IF p = 1 THEN 0 ELSE IF p = 2 THEN 7 ELSE 8]

MCTwoRoots == [p \in Pid |-> IF p \in {1, 2} THEN 0 ELSE 7]

=============================================================================
