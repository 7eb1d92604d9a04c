------------------------------- MODULE Monitor -------------------------------
(* What the interceptor promises its users, for callers that issue one        *)
(* command at a time: a call of a hooked system call is recorded exactly when *)
(* its caller is watched at that moment, and who is watched changes by the    *)
(* command that asks for it, once, or by the exit of the process concerned.   *)
EXTENDS Integers

CONSTANTS
  Pid, Slot,
  All,         \* the pid argument that means every process
  ExitGroup,   \* the system call a process exits with
  Request,     \* the commands: records of cmd, sys and pid
  NoCall       \* a process that is in no call

VARIABLES
  hooked,   \* is this system call intercepted?
  watch,    \* the processes watched for it
  call,     \* the call each process is in: cmd is "none" if it is no command
  progress, \* how far its command has come
  due,      \* has its call still to pass the recorder?
  logged    \* was it recorded?

vars == <<hooked, watch, call, progress, due, logged>>

Init ==
  /\ hooked = [s \in Slot |-> FALSE]
  /\ watch = [s \in Slot |-> {}]
  /\ call = [p \in Pid |-> NoCall]
  /\ progress = [p \in Pid |-> "idle"]
  /\ due = [p \in Pid |-> FALSE]
  /\ logged = [p \in Pid |-> FALSE]

-----------------------------------------------------------------------------
(* Commands. *)

Ask(p, c) ==
  /\ call[p] = NoCall
  /\ \A q \in Pid : call[q].cmd = "none"
  /\ call' = [call EXCEPT ![p] = c]
  /\ progress' = [progress EXCEPT ![p] = "asked"]
  /\ UNCHANGED <<hooked, watch, due, logged>>

\* A command has had its effect when it ends, or it has had none.
Answer(p) ==
  /\ progress[p] \in {"asked", "done"}
  /\ call' = [call EXCEPT ![p] = NoCall]
  /\ progress' = [progress EXCEPT ![p] = "idle"]
  /\ UNCHANGED <<hooked, watch, due, logged>>

\* p's command cmd on system call s goes on.
Act(p, cmd, s, from, to) ==
  /\ call[p].cmd = cmd /\ call[p].sys = s /\ progress[p] = from
  /\ progress' = [progress EXCEPT ![p] = to]
  /\ UNCHANGED <<call, due, logged>>

Hook(p, s) ==
  /\ Act(p, "INTERCEPT", s, "asked", "done")
  /\ ~ hooked[s]
  /\ hooked' = [hooked EXCEPT ![s] = TRUE]
  /\ UNCHANGED watch

\* Releasing a system call forgets who was watched.
Unhook(p, s) ==
  /\ Act(p, "RELEASE", s, "asked", "done")
  /\ hooked[s]
  /\ hooked' = [hooked EXCEPT ![s] = FALSE]
  /\ watch' = [watch EXCEPT ![s] = {}]

\* START and STOP need a hooked system call; Q is watched from now on.
Rewatch(s, Q) ==
  /\ hooked[s]
  /\ watch' = [watch EXCEPT ![s] = Q]
  /\ UNCHANGED hooked

StartOne(p, s) == LET q == call[p].pid IN
  /\ Act(p, "START", s, "asked", "done")
  /\ q \in Pid \ watch[s]
  /\ Rewatch(s, watch[s] \cup {q})

StopOne(p, s) == LET q == call[p].pid IN
  /\ Act(p, "STOP", s, "asked", "done")
  /\ q \in watch[s]
  /\ Rewatch(s, watch[s] \ {q})

StopAll(p, s) ==
  /\ Act(p, "STOP", s, "asked", "done")
  /\ call[p].pid = All
  /\ Rewatch(s, {})

\* Starting for all has a gap in which nobody is watched.
Empty(p, s) ==
  /\ Act(p, "START", s, "asked", "emptied")
  /\ call[p].pid = All
  /\ Rewatch(s, {})

Fill(p, s) ==
  /\ Act(p, "START", s, "emptied", "done")
  /\ Rewatch(s, Pid)

\* Where nobody is watched a start has two steps as well; the process that it is
\* for can exit between them, and then the start has no effect.
Take(p, s) ==
  /\ Act(p, "START", s, "asked", "taken")
  /\ call[p].pid \in Pid /\ watch[s] = {}
  /\ Rewatch(s, {})

Finish(p, s) ==
  \/ Act(p, "START", s, "taken", "done") /\ Rewatch(s, {call[p].pid})
  \/ Act(p, "START", s, "overtaken", "done") /\ Rewatch(s, {})

-----------------------------------------------------------------------------
(* Calls. *)

\* A process that exits may change its own standing and no other's.
Forget(q) ==
  /\ call[q].cmd = "none" /\ call[q].sys = ExitGroup /\ ~ due[q]
  /\ watch' \in [Slot -> SUBSET Pid]
  /\ \A s \in Slot : watch'[s] \ {q} = watch[s] \ {q}
  /\ \E R \in SUBSET {p \in Pid : progress[p] = "taken" /\ call[p].pid = q} :
       progress' = [p \in Pid |-> IF p \in R THEN "overtaken" ELSE progress[p]]
  /\ UNCHANGED <<hooked, call, due, logged>>

\* A call must pass the recorder if its system call is hooked when it begins.
Enter(q, s) ==
  /\ call[q] = NoCall
  /\ call' = [call EXCEPT ![q].sys = s]
  /\ due' = [due EXCEPT ![q] = hooked[s]]
  /\ UNCHANGED <<hooked, watch, progress, logged>>

Record(q) ==
  /\ due[q]
  /\ due' = [due EXCEPT ![q] = FALSE]
  /\ logged' = [logged EXCEPT ![q] = q \in watch[call[q].sys]]
  /\ UNCHANGED <<hooked, watch, call, progress>>

Leave(q) ==
  /\ call[q].cmd = "none" /\ call[q] # NoCall /\ ~ due[q]
  /\ call' = [call EXCEPT ![q] = NoCall]
  /\ logged' = [logged EXCEPT ![q] = FALSE]
  /\ UNCHANGED <<hooked, watch, progress, due>>

-----------------------------------------------------------------------------
Effect(p, s) ==
  \/ Hook(p, s) \/ Unhook(p, s)
  \/ StartOne(p, s) \/ StopOne(p, s) \/ StopAll(p, s)
  \/ Empty(p, s) \/ Fill(p, s) \/ Take(p, s) \/ Finish(p, s)

Next == \E p \in Pid :
  \/ Answer(p) \/ Forget(p) \/ Record(p) \/ Leave(p)
  \/ \E c \in Request : Ask(p, c)
  \/ \E s \in Slot : Effect(p, s) \/ Enter(p, s)

Spec == Init /\ [][Next]_vars
=============================================================================
