-------------------------- MODULE InterceptorMonitor --------------------------
(* What the interceptor's table means to its users: the processes watched for *)
(* each system call, how commands and exits change them, and the claim that,  *)
(* with one command at a time, the interceptor implements Monitor.            *)
EXTENDS Interceptor

\* The processes whose calls of s would be logged now.
Watch(s) == {q \in Pid : Monitored(s, q)}

\* How far the command has come that is at label l, to those who see only hooks
\* and watched processes; `listed` tells whether its pid is in the list.
CommandProgress(l, listed) ==
  CASE l \in {"intercept_mark", "release_clear", "OK"} -> "done"
    [] l = "start_all_set"                             -> "emptied"
    [] l = "start_first_set" /\ listed                 -> "taken"
    [] l = "start_first_set" /\ ~ listed               -> "overtaken"
    [] OTHER                                           -> "asked"
Progress(p) == IF arg[p].cmd = "none" THEN "idle"
               ELSE CommandProgress(pc[p], InList(table[arg[p].sys], arg[p].pid))

\* Callers that take turns see Monitor: a command changes what it was asked to
\* change, at one moment, and a refused one nothing; START of all processes alone
\* has a gap between lines 427 and 430 in which nobody is watched; and every call
\* of a hooked system call is logged exactly when its caller is watched (line 286).
Abstract == INSTANCE Monitor WITH
  Pid       <- Pid,
  Slot      <- Slot,
  All       <- NoPid,
  ExitGroup <- NR_exit_group,
  Request   <- [cmd : Command, sys : Target, pid : PidArg],
  NoCall    <- NoCall,
  hooked    <- [s \in Slot |-> sys_call_table[s] = interceptor],
  watch     <- [s \in Slot |-> Watch(s)],
  call      <- arg,
  progress  <- [p \in Pid |-> Progress(p)],
  due       <- [p \in Pid |-> pc[p] \in {"log_outer", "log_inner"}],
  logged    <- logged
ImplementsMonitor == Abstract!Spec

\* What an answer of 0 says of the system call and the pid it was about.
Accomplished(p) == LET s == arg[p].sys  q == arg[p].pid IN
  CASE arg[p].cmd = "INTERCEPT"              -> Hooked(s)'
    [] arg[p].cmd = "RELEASE"                -> ~ Hooked(s)' /\ Watch(s)' = {}
    [] arg[p].cmd = "START" /\ q = NoPid     -> Watch(s)' = Pid
    [] arg[p].cmd = "START" /\ q # NoPid     -> q \in Watch(s)' \/ Progress(p) = "overtaken"
    [] arg[p].cmd = "STOP" /\ q = NoPid      -> Watch(s)' = {}
    [] arg[p].cmd = "STOP" /\ q # NoPid      -> q \notin Watch(s)'

\* With callers that take turns every command that returns 0, at whichever of its
\* returns (375, 402, 432, 462, 481, 496, 527, 561, 581), has done what it was asked
\* to do, although the mode that chose the branch was read under a lock released
\* since.  The first START of a system call is the exception: its pid can go through
\* my_exit_group between lines 492 and 494, which takes it off the list again, and
\* goes on living (orig_exit_group is the function of slot 0).
AcksAreTrue ==
  [][\A p \in Pid :
       arg[p].cmd # "none" /\ pc[p] # "OK" /\ pc'[p] = "OK" => Accomplished(p)]_vars

\* What line 446 read is so no more when line 494 acts on it: the system call is
\* monitored by now, or another pid is listed.
Outdated(p) == LET e == table[arg[p].sys] IN
  /\ pc[p] = "start_first_set"
  /\ e.monitored # 0 \/ \E r \in Pid \ {arg[p].pid} : InList(e, r)

\* However commands, calls and exits overlap, a step of an ordinary user changes
\* the standing of that user's processes only, through whatever branch of my_syscall
\* or my_exit_group it goes (the owner check of lines 442 and 536 and what is done
\* after it) but one: line 494 with an outdated mode.
OwnersOnly ==
  [][\A p \in Pid : \A s \in Slot, q \in Pid :
       /\ pc'[p] # pc[p] /\ ~ Root(p)
       /\ (q \in Watch(s)) # (q \in Watch(s)')
       => UidOf[q] = UidOf[p] \/ (Outdated(p) /\ s = arg[p].sys)]_vars
=============================================================================
