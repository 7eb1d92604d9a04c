-------------------------- MODULE InterceptorClaims ---------------------------
(* What comments of interceptor.c say of the program and the code does not    *)
(* do.                                                                        *)
EXTENDS InterceptorMonitor

\* Line 64: f is the "Original system call", for line 291 to go on to.  Two
\* INTERCEPTs that both pass the test of line 360 save the interceptor itself.
SavedIsOriginal == \A s \in Slot : table[s].f # interceptor

\* Lines 314-318: who is not root may start and stop monitoring for the pids "owned
\* by the calling process", and "monitoring all pids is allowed only for root".  A
\* START that has read mode 0 at line 446 switches the mode at line 494, also when
\* root has in between started monitoring all pids.
UsersTouchOwn ==
  [][\A p \in Pid : \A s \in Slot, q \in Pid :
       /\ pc'[p] # pc[p] /\ ~ Root(p)
       /\ (q \in Watch(s)) # (q \in Watch(s)')
       => UidOf[q] = UidOf[p]]_vars
=============================================================================
