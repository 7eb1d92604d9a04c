----------------------------- MODULE Interceptor -----------------------------
(***************************************************************************)
(* The loaded system-call interceptor (System_Call_Interceptor):           *)
(* interceptor.c between the end of init_function and the start of         *)
(* exit_function.  Processes issue ordinary system calls and the           *)
(* my_syscall commands concurrently; two spinlocks guard the table.        *)
(*                                                                         *)
(* One action per locked section (the steps in between are what other      *)
(* processes can see) and one per unlocked stretch of code.  A section is  *)
(* a step that acquires its lock and a step that runs its body and         *)
(* releases it.                                                            *)
(***************************************************************************)
EXTENDS Integers, FiniteSets, FiniteSetsExt

CONSTANTS
  Pid,            \* process identifiers
  UidOf,          \* the user who owns each process; 0 is root
  NR_syscalls,    \* size of the kernel's system call table
  NR_exit_group,  \* __NR_exit_group
  Command,        \* commands the processes issue
  Target,         \* values they pass as the syscall argument
  MaxInFlight,    \* how many commands may overlap (1: callers take turns)
  MaxListcount    \* bound: kmalloc has no memory for a list with a higher count

MY_CUSTOM_SYSCALL == 0
NoPid == 0                 \* a free lock; also "all pids" as an argument

Request == {"INTERCEPT", "RELEASE", "START", "STOP"}

ASSUME ConstantsAssumption ==
  /\ Pid \subseteq Nat \ {0} /\ IsFiniteSet(Pid)
  /\ UidOf \in [Pid -> Nat]
  /\ NR_syscalls \in Nat
  /\ NR_exit_group \in 1 .. NR_syscalls - 1
  /\ Command \subseteq Request \cup {"unknown"}
  /\ Target \subseteq Int
  /\ MaxInFlight \in Nat
  /\ MaxListcount \in Nat

(***************************************************************************)
(* Function pointers.  The kernel's own function for slot s is s itself.   *)
(***************************************************************************)
my_syscall    == -1
interceptor   == -2
my_exit_group == -3
NULL          == -4

Slot     == 0 .. NR_syscalls         \* `table` has NR_syscalls + 1 entries
Function == NULL .. NR_syscalls

\* What sys_call_table[s] holds once init_function has run.
Underlying(s) ==
  IF s = MY_CUSTOM_SYSCALL THEN my_syscall
  ELSE IF s = NR_exit_group THEN my_exit_group
  ELSE s

\* Line 621 saves the slot of MY_CUSTOM_SYSCALL, not the one of exit_group.
orig_exit_group == MY_CUSTOM_SYSCALL

VARIABLES
  sys_call_table,  \* the kernel's table, as the CPU's dispatch reads it
  table,           \* `mytable table[NR_syscalls+1]`; my_list as a bag of pids
  calltable_lock,  \* holder, or NoPid
  pidlist_lock,    \* holder, or NoPid
  pc,              \* where each process is
  arg,             \* its current call: command, system call, pid argument
  logged           \* whether the interceptor logged that call

locks == <<calltable_lock, pidlist_lock>>
vars  == <<sys_call_table, table, calltable_lock, pidlist_lock, pc, arg, logged>>

CalltableSections ==
  {"intercept_hook", "release_unhook", "start_all_check", "start_all_set",
   "start_mode", "start_first_set", "stop_all_check", "stop_mode", "log_outer"}
PidlistSections ==
  {"intercept_check", "intercept_mark", "release_check", "release_clear",
   "start_check", "start_all_clear", "start_unblock", "start_add", "start_first",
   "stop_check", "stop_all_clear", "stop_del", "stop_block", "log_inner", "exit_del"}
Unlocked == {"start_args", "start_owner", "stop_args", "stop_owner", "call", "exit_call"}
Results  == {"OK", "EINVAL", "EPERM", "EBUSY", "ENOMEM", "killed"}
Label    == CalltableSections \cup PidlistSections \cup Unlocked \cup Results
              \cup {"idle", "dead"}

NoCall == [cmd |-> "none", sys |-> MY_CUSTOM_SYSCALL, pid |-> NoPid]
PidArg == Pid \cup {NoPid, -1}

EmptyEntry == [f |-> NULL, intercepted |-> 0, monitored |-> 0,
               listcount |-> 0, my_list |-> [q \in Pid |-> 0]]

Init ==
  /\ sys_call_table = [s \in Slot |-> Underlying(s)]
  /\ table = [s \in Slot |-> EmptyEntry]
  /\ calltable_lock = NoPid
  /\ pidlist_lock = NoPid
  /\ pc = [p \in Pid |-> "idle"]
  /\ arg = [p \in Pid |-> NoCall]
  /\ logged = [p \in Pid |-> FALSE]

-----------------------------------------------------------------------------
(* List operations on a table entry e. *)

InList(e, q) == e.my_list[q] > 0                        \* check_pid_monitored

\* Variant: add_pid_sysc without its listcount++.
AddPid_Uncounted(e, q) == [e EXCEPT !.my_list[q] = @ + 1]

AddPid(e, q) ==                                         \* add_pid_sysc
  [e EXCEPT !.my_list[q] = @ + 1, !.listcount = @ + 1]

\* Deletes n copies of q, one by one: monitoring of listed pids stops when the
\* count reaches zero on the way.
DelCopies(e, q, n) ==
  [e EXCEPT !.my_list[q] = @ - n,
            !.listcount  = @ - n,
            !.monitored  = IF @ = 1 /\ e.listcount \in 1 .. n THEN 0 ELSE @]

DelPidSysc(e, q) == DelCopies(e, q, 1)                  \* first match only
DelPid(q) ==                                            \* every list it scans
  [s \in Slot |-> IF s \in 1 .. NR_syscalls - 1
                  THEN DelCopies(table[s], q, table[s].my_list[q])
                  ELSE table[s]]

DestroyList(e) ==
  [e EXCEPT !.my_list = [q \in Pid |-> 0], !.listcount = 0, !.monitored = 0]

\* The test at line 286: is a call of s by q logged?
Monitored(s, q) ==
  \/ table[s].monitored = 2 /\ ~ InList(table[s], q)
  \/ table[s].monitored = 1 /\ InList(table[s], q)

-----------------------------------------------------------------------------
(* Control. *)

Alive(q) == pc[q] \notin {"killed", "dead"}             \* pid_task(...) # NULL
Root(p)  == UidOf[p] = 0

Goto(p, l) == pc' = [pc EXCEPT ![p] = l]
SetEntry(s, e) == table' = [table EXCEPT ![s] = e]

SpinLockCalltable(p) ==
  /\ pc[p] \in CalltableSections
  /\ calltable_lock = NoPid
  /\ calltable_lock' = p
  /\ UNCHANGED <<sys_call_table, table, pidlist_lock, pc, arg, logged>>

SpinLockPidlist(p) ==
  /\ pc[p] \in PidlistSections
  /\ pidlist_lock = NoPid
  /\ pidlist_lock' = p
  /\ UNCHANGED <<sys_call_table, table, calltable_lock, pc, arg, logged>>

\* The body of the section at label l, up to its spin_unlock.
CalltableSection(p, l) ==
  /\ pc[p] = l
  /\ calltable_lock = p
  /\ calltable_lock' = NoPid
  /\ UNCHANGED <<pidlist_lock, arg, logged>>

PidlistSection(p, l) ==
  /\ pc[p] = l
  /\ pidlist_lock = p
  /\ pidlist_lock' = NoPid
  /\ UNCHANGED <<calltable_lock, arg, logged>>

\* Calling through a function pointer.  A jump to NULL is an oops, which kills
\* the process; the kernel's exit_group ends it.
AfterCall(fn) ==
  CASE fn = interceptor                -> "log_outer"
    [] fn = my_exit_group              -> "exit_del"
    [] fn \in {NR_exit_group, NULL}    -> "killed"
    [] OTHER                           -> "OK"

(* The environment: processes enter system calls, die and are created. *)

\* An ordinary system call: the CPU jumps through the slot.
Dispatch(p, s) ==
  /\ pc[p] = "idle"
  /\ arg' = [arg EXCEPT ![p].sys = s]
  /\ Goto(p, AfterCall(sys_call_table[s]))
  /\ UNCHANGED <<sys_call_table, table, locks, logged>>

Return(p) ==
  /\ pc[p] \in Results
  /\ Goto(p, IF pc[p] = "killed" THEN "dead" ELSE "idle")
  /\ arg' = [arg EXCEPT ![p] = NoCall]
  /\ logged' = [logged EXCEPT ![p] = FALSE]
  /\ UNCHANGED <<sys_call_table, table, locks>>

\* A process can end without calling exit_group: exit, or a fatal signal.
Die(p) ==
  /\ pc[p] = "idle"
  /\ Goto(p, "dead")
  /\ UNCHANGED <<sys_call_table, table, locks, arg, logged>>

Spawn(p) ==                                             \* the pid is reused
  /\ pc[p] = "dead"
  /\ Goto(p, "idle")
  /\ UNCHANGED <<sys_call_table, table, locks, arg, logged>>

-----------------------------------------------------------------------------
(* my_syscall: argument and permission checks before the first lock. *)

InFlight == {p \in Pid : arg[p].cmd # "none"}

FirstLabel(p, cmd, s) ==
  IF s \notin 1 .. NR_syscalls THEN "EINVAL"
  ELSE IF cmd \in {"INTERCEPT", "RELEASE"} /\ ~ Root(p) THEN "EPERM"
  ELSE CASE cmd = "INTERCEPT" -> "intercept_check"
         [] cmd = "RELEASE"   -> "release_check"
         [] cmd = "START"     -> "start_check"
         [] cmd = "STOP"      -> "stop_check"
         [] OTHER             -> "EINVAL"

MySyscall(p, cmd, s, q) ==
  /\ pc[p] = "idle"
  /\ sys_call_table[MY_CUSTOM_SYSCALL] = my_syscall
  /\ Cardinality(InFlight) < MaxInFlight
  /\ arg' = [arg EXCEPT ![p] =
               [cmd |-> cmd, sys |-> s,
                pid |-> IF cmd \in {"START", "STOP"} THEN q ELSE NoPid]]
  /\ Goto(p, FirstLabel(p, cmd, s))
  /\ UNCHANGED <<sys_call_table, table, locks, logged>>

\* A section that only reads: where it goes depends on `test`.
CalltableTest(p, l, next) ==
  /\ CalltableSection(p, l)
  /\ Goto(p, next)
  /\ UNCHANGED <<sys_call_table, table>>
PidlistTest(p, l, next) ==
  /\ PidlistSection(p, l)
  /\ Goto(p, next)
  /\ UNCHANGED <<sys_call_table, table>>

(* REQUEST_SYSCALL_INTERCEPT *)

\* Variant: the EBUSY return without its spin_unlock.
InterceptCheck_KeepsLock(p) ==
  /\ pc[p] = "intercept_check"
  /\ pidlist_lock = p
  /\ IF table[arg[p].sys].intercepted = 1
     THEN Goto(p, "EBUSY") /\ UNCHANGED pidlist_lock
     ELSE Goto(p, "intercept_hook") /\ pidlist_lock' = NoPid
  /\ UNCHANGED <<sys_call_table, table, calltable_lock, arg, logged>>

InterceptCheck(p) ==
  PidlistTest(p, "intercept_check",
              IF table[arg[p].sys].intercepted = 1 THEN "EBUSY" ELSE "intercept_hook")

\* Variant: the slot is overwritten before it is saved.
InterceptHook_SavesLate(p) == LET s == arg[p].sys IN
  /\ CalltableSection(p, "intercept_hook")
  /\ sys_call_table' = [sys_call_table EXCEPT ![s] = interceptor]
  /\ table' = [table EXCEPT ![s].f = sys_call_table'[s]]
  /\ Goto(p, "intercept_mark")

InterceptHook(p) == LET s == arg[p].sys IN
  /\ CalltableSection(p, "intercept_hook")
  /\ table' = [table EXCEPT ![s].f = sys_call_table[s]]
  /\ sys_call_table' = [sys_call_table EXCEPT ![s] = interceptor]
  /\ Goto(p, "intercept_mark")

InterceptMark(p) ==
  /\ PidlistSection(p, "intercept_mark")
  /\ table' = [table EXCEPT ![arg[p].sys].intercepted = 1]
  /\ Goto(p, "OK")
  /\ UNCHANGED sys_call_table

(* REQUEST_SYSCALL_RELEASE *)

ReleaseCheck(p) ==
  PidlistTest(p, "release_check",
              IF table[arg[p].sys].intercepted = 0 THEN "EINVAL" ELSE "release_unhook")

\* Variant: without line 396.
ReleaseUnhook_StillMonitored(p) == LET s == arg[p].sys IN
  /\ CalltableSection(p, "release_unhook")
  /\ sys_call_table' = [sys_call_table EXCEPT ![s] = table[s].f]
  /\ Goto(p, "release_clear")
  /\ UNCHANGED table

ReleaseUnhook(p) == LET s == arg[p].sys IN
  /\ CalltableSection(p, "release_unhook")
  /\ sys_call_table' = [sys_call_table EXCEPT ![s] = table[s].f]
  /\ table' = [table EXCEPT ![s].monitored = 0]
  /\ Goto(p, "release_clear")

\* Variant: without line 400.
ReleaseClear_StaysMarked(p) == LET s == arg[p].sys IN
  /\ PidlistSection(p, "release_clear")
  /\ SetEntry(s, DestroyList(table[s]))
  /\ Goto(p, "OK")
  /\ UNCHANGED sys_call_table

ReleaseClear(p) == LET s == arg[p].sys IN
  /\ PidlistSection(p, "release_clear")
  /\ SetEntry(s, [DestroyList(table[s]) EXCEPT !.intercepted = 0])
  /\ Goto(p, "OK")
  /\ UNCHANGED sys_call_table

(* REQUEST_START_MONITORING *)

StartCheck(p) ==
  PidlistTest(p, "start_check",
              IF table[arg[p].sys].intercepted = 0 THEN "EINVAL" ELSE "start_args")

\* The pid argument, read with no lock held.
ArgsLabel(p, all, one) == LET q == arg[p].pid IN
  CASE q = NoPid /\ Root(p)                  -> all
    [] q = NoPid /\ ~ Root(p)                -> "EPERM"
    [] q \in Pid /\ Alive(q)                 -> one
    [] OTHER                                 -> "EINVAL"

\* Variant: any existing pid will do.
OwnerLabel_Unchecked(p, next) ==
  IF Root(p) \/ Alive(arg[p].pid) THEN next ELSE "killed"

\* check_pid_from_list looks the target up again: an oops when it is gone.
OwnerLabel(p, next) == LET q == arg[p].pid IN
  CASE Root(p)                               -> next
    [] ~ Root(p) /\ ~ Alive(q)               -> "killed"
    [] ~ Root(p) /\ Alive(q)                 ->
         IF UidOf[q] = UidOf[p] THEN next ELSE "EPERM"

UnlockedTest(p, l, next) ==
  /\ pc[p] = l
  /\ Goto(p, next)
  /\ UNCHANGED <<sys_call_table, table, locks, arg, logged>>

StartArgs(p)  == UnlockedTest(p, "start_args", ArgsLabel(p, "start_all_check", "start_owner"))
StartOwner(p) == UnlockedTest(p, "start_owner", OwnerLabel(p, "start_mode"))

StartAllCheck(p) ==
  CalltableTest(p, "start_all_check",
                IF table[arg[p].sys].monitored = 2 THEN "EBUSY" ELSE "start_all_clear")

StartAllClear(p) == LET s == arg[p].sys IN
  /\ PidlistSection(p, "start_all_clear")
  /\ SetEntry(s, DestroyList(table[s]))
  /\ Goto(p, "start_all_set")
  /\ UNCHANGED sys_call_table

StartAllSet(p) ==
  /\ CalltableSection(p, "start_all_set")
  /\ table' = [table EXCEPT ![arg[p].sys].monitored = 2]
  /\ Goto(p, "OK")
  /\ UNCHANGED sys_call_table

\* Variant: no blacklist branch.
StartMode_NoBlacklist(p) ==
  CalltableTest(p, "start_mode",
                IF table[arg[p].sys].monitored = 0 THEN "start_first" ELSE "start_add")

\* The mode is read under one lock and acted on under the other.
StartMode(p) == LET m == table[arg[p].sys].monitored IN
  CalltableTest(p, "start_mode",
                CASE m = 2 -> "start_unblock" [] m = 1 -> "start_add" [] OTHER -> "start_first")

\* Variant: without the test of line 451.
StartUnblock_Untested(p) == LET s == arg[p].sys  q == arg[p].pid  e == table[s] IN
  /\ PidlistSection(p, "start_unblock")
  /\ SetEntry(s, [DelPidSysc(e, q) EXCEPT !.listcount = @ - 1])
  /\ Goto(p, "OK")
  /\ UNCHANGED sys_call_table

\* monitored = 2: take the pid off the blacklist.  The caller decrements
\* listcount once more than del_pid_sysc already did.
StartUnblock(p) == LET s == arg[p].sys  q == arg[p].pid  e == table[s] IN
  /\ PidlistSection(p, "start_unblock")
  /\ IF InList(e, q)
     THEN /\ SetEntry(s, [DelPidSysc(e, q) EXCEPT !.listcount = @ - 1])
          /\ Goto(p, "OK")
     ELSE /\ Goto(p, "EBUSY")
          /\ UNCHANGED table
  /\ UNCHANGED sys_call_table

\* add_pid_sysc and the caller's own increment of listcount, or -ENOMEM.  Its kmalloc
\* may sleep first, with pidlist_lock held: see Allocating.
AddOrFail(p, next) == LET s == arg[p].sys IN
  \/ /\ table[s].listcount <= MaxListcount
     /\ SetEntry(s, [AddPid(table[s], arg[p].pid) EXCEPT !.listcount = @ + 1])
     /\ Goto(p, next)
  \/ /\ Goto(p, "ENOMEM")
     /\ UNCHANGED table

\* monitored = 1: add the pid unless it is listed.
StartAdd(p) ==
  /\ PidlistSection(p, "start_add")
  /\ IF InList(table[arg[p].sys], arg[p].pid)
     THEN Goto(p, "EBUSY") /\ UNCHANGED table
     ELSE AddOrFail(p, "OK")
  /\ UNCHANGED sys_call_table

\* monitored = 0: add the pid without looking, then set monitored.
StartFirst(p) ==
  /\ PidlistSection(p, "start_first")
  /\ AddOrFail(p, "start_first_set")
  /\ UNCHANGED sys_call_table

StartFirstSet(p) ==
  /\ CalltableSection(p, "start_first_set")
  /\ table' = [table EXCEPT ![arg[p].sys].monitored = 1]
  /\ Goto(p, "OK")
  /\ UNCHANGED sys_call_table

(* REQUEST_STOP_MONITORING *)

StopCheck(p) ==
  PidlistTest(p, "stop_check",
              IF table[arg[p].sys].intercepted = 0 THEN "EINVAL" ELSE "stop_args")

StopArgs(p)  == UnlockedTest(p, "stop_args", ArgsLabel(p, "stop_all_check", "stop_owner"))
StopOwner(p) == UnlockedTest(p, "stop_owner", OwnerLabel(p, "stop_mode"))

StopAllCheck(p) ==
  CalltableTest(p, "stop_all_check",
                IF table[arg[p].sys].monitored = 0 THEN "EINVAL" ELSE "stop_all_clear")

StopAllClear(p) == LET s == arg[p].sys IN
  /\ PidlistSection(p, "stop_all_clear")
  /\ SetEntry(s, DestroyList(table[s]))
  /\ Goto(p, "OK")
  /\ UNCHANGED sys_call_table

StopMode(p) == LET m == table[arg[p].sys].monitored IN
  CalltableTest(p, "stop_mode",
                CASE m = 0 -> "EINVAL" [] m = 1 -> "stop_del" [] OTHER -> "stop_block")

\* monitored = 1: take the pid off the list.
StopDel(p) == LET s == arg[p].sys  q == arg[p].pid  e == table[s] IN
  /\ PidlistSection(p, "stop_del")
  /\ IF InList(e, q)
     THEN /\ SetEntry(s, [DelPidSysc(e, q) EXCEPT !.listcount = @ - 1])
          /\ Goto(p, "OK")
     ELSE /\ Goto(p, "EINVAL")
          /\ UNCHANGED table
  /\ UNCHANGED sys_call_table

\* monitored = 2: put the pid on the blacklist.
StopBlock(p) ==
  /\ PidlistSection(p, "stop_block")
  /\ IF InList(table[arg[p].sys], arg[p].pid)
     THEN Goto(p, "EINVAL") /\ UNCHANGED table
     ELSE AddOrFail(p, "OK")
  /\ UNCHANGED sys_call_table

-----------------------------------------------------------------------------
(* interceptor: log under both locks, then call through table[s].f, which  *)
(* is read after they are released.                                        *)

LogOuter(p) ==
  /\ pc[p] = "log_outer"
  /\ calltable_lock = p
  /\ Goto(p, "log_inner")
  /\ UNCHANGED <<sys_call_table, table, locks, arg, logged>>

\* Variant: line 290 is missing.
LogInner_KeepsCalltable(p) ==
  /\ pc[p] = "log_inner"
  /\ pidlist_lock = p
  /\ pidlist_lock' = NoPid
  /\ logged' = [logged EXCEPT ![p] = Monitored(arg[p].sys, p)]
  /\ Goto(p, "call")
  /\ UNCHANGED <<sys_call_table, table, calltable_lock, arg>>

LogInner(p) ==
  /\ pc[p] = "log_inner"
  /\ pidlist_lock = p
  /\ pidlist_lock' = NoPid
  /\ calltable_lock' = NoPid
  /\ logged' = [logged EXCEPT ![p] = Monitored(arg[p].sys, p)]
  /\ Goto(p, "call")
  /\ UNCHANGED <<sys_call_table, table, arg>>

CallOriginal(p) ==
  UnlockedTest(p, "call", AfterCall(table[arg[p].sys].f))

(* my_exit_group *)

ExitDel(p) ==
  /\ PidlistSection(p, "exit_del")
  /\ table' = DelPid(p)
  /\ Goto(p, "exit_call")
  /\ UNCHANGED sys_call_table

ExitCall(p) == UnlockedTest(p, "exit_call", AfterCall(orig_exit_group))

-----------------------------------------------------------------------------
InterceptStep(p) == InterceptCheck(p) \/ InterceptHook(p) \/ InterceptMark(p)
ReleaseStep(p)   == ReleaseCheck(p) \/ ReleaseUnhook(p) \/ ReleaseClear(p)
StartStep(p)     == \/ StartCheck(p) \/ StartArgs(p) \/ StartOwner(p)
                    \/ StartAllCheck(p) \/ StartAllClear(p) \/ StartAllSet(p)
                    \/ StartMode(p) \/ StartUnblock(p) \/ StartAdd(p)
                    \/ StartFirst(p) \/ StartFirstSet(p)
StopStep(p)      == \/ StopCheck(p) \/ StopArgs(p) \/ StopOwner(p)
                    \/ StopAllCheck(p) \/ StopAllClear(p)
                    \/ StopMode(p) \/ StopDel(p) \/ StopBlock(p)
CallStep(p)      == \/ LogOuter(p) \/ LogInner(p) \/ CallOriginal(p)
                    \/ ExitDel(p) \/ ExitCall(p) \/ Return(p)

\* What the kernel does for p once p is in a system call, lock waits aside.
Step(p) == InterceptStep(p) \/ ReleaseStep(p) \/ StartStep(p) \/ StopStep(p) \/ CallStep(p)

\* What users and the scheduler may do, at any time or never.
Environment(p) ==
  \/ \E s \in 1 .. NR_syscalls - 1 : Dispatch(p, s)
  \/ \E cmd \in Command, s \in Target, q \in PidArg : MySyscall(p, cmd, s, q)
  \/ Die(p)
  \/ Spawn(p)

Next == \E p \in Pid : Step(p) \/ SpinLockCalltable(p) \/ SpinLockPidlist(p) \/ Environment(p)

\* p is in kmalloc(GFP_KERNEL) of line 99, which may sleep until there is memory,
\* and has pidlist_lock (taken at lines 450-487 and 567).  When it wakes it adds
\* the pid or fails with -ENOMEM: that is the step of AddOrFail.
Allocating(p) ==
  /\ pidlist_lock = p
  /\ \/ pc[p] = "start_first"
     \/ pc[p] \in {"start_add", "stop_block"} /\ ~ InList(table[arg[p].sys], arg[p].pid)

\* Kernel code runs on where it does not sleep, and the ticket spinlocks serve
\* their waiters in turn; nothing makes a process issue a call or die, and nothing
\* here makes an allocation end.
Fairness == \A p \in Pid : /\ WF_vars(~ Allocating(p) /\ Step(p))
                           /\ SF_vars(SpinLockCalltable(p))
                           /\ SF_vars(SpinLockPidlist(p))

Spec     == Init /\ [][Next]_vars
FairSpec == Spec /\ Fairness

-----------------------------------------------------------------------------
(* Properties. *)

EntryType ==
  [f : Function, intercepted : {0, 1}, monitored : 0 .. 2, listcount : Int,
   my_list : [Pid -> Nat]]

\* Types, the deletions included: no list operation ever deletes a copy of a
\* pid that is not in the list.
TypeOK ==
  /\ sys_call_table \in [Slot -> Function]
  /\ table \in [Slot -> EntryType]
  /\ calltable_lock \in Pid \cup {NoPid}
  /\ pidlist_lock \in Pid \cup {NoPid}
  /\ pc \in [Pid -> Label]
  /\ arg \in [Pid -> [cmd : Command \cup {"none"}, sys : Target \cup Slot, pid : PidArg]]
  /\ logged \in [Pid -> BOOLEAN]

\* Labels at which the pid argument names one process, known to have existed.
OnePid == {"start_owner", "start_mode", "start_unblock", "start_add", "start_first",
           "stop_owner", "stop_mode", "stop_del", "stop_block"}

\* Past the argument checks, `syscall` indexes the table and `pid` is a pid.
ArgsChecked ==
  \A p \in Pid :
    /\ pc[p] \notin Results \cup {"idle", "dead"} => arg[p].sys \in 1 .. NR_syscalls
    /\ pc[p] \in OnePid => arg[p].pid \in Pid

TypeInv == TypeOK /\ ArgsChecked

\* A lock is held only inside a section it guards: every path out of
\* my_syscall, interceptor and my_exit_group, the error returns included,
\* gives its locks back.  Only the interceptor holds both, calltable_lock
\* first, so no two processes wait for each other.
LockDiscipline ==
  /\ calltable_lock # NoPid => pc[calltable_lock] \in CalltableSections \cup {"log_inner"}
  /\ pidlist_lock # NoPid => pc[pidlist_lock] \in PidlistSections
  /\ \A p \in Pid : pc[p] = "log_inner" => calltable_lock = p

\* Labels at which p has entered interceptor() and not yet left it.
Intercepted == {"log_outer", "log_inner", "call"}

\* Whatever commands and calls overlap, a slot holds the function it started
\* with or the interceptor, and every call the interceptor has caught, also one
\* that began before a RELEASE and ends after it, goes on to that function:
\* line 291 never jumps to NULL and never re-enters the interceptor.
HookIntegrity ==
  /\ \A s \in 1 .. NR_syscalls :
       /\ sys_call_table[s] \in {Underlying(s), interceptor}
       /\ sys_call_table[s] = interceptor => table[s].f = Underlying(s)
  /\ \A p \in Pid : pc[p] \in Intercepted => table[arg[p].sys].f = Underlying(arg[p].sys)

\* One process at most can INTERCEPT and RELEASE.
SingleRoot == \A p, q \in Pid : Root(p) /\ Root(q) => p = q

\* Why: `intercepted` is written after the slot and under the other lock
\* (lines 366-374 and 392-401), so the two agree but for a slot that a command
\* in flight has changed and not yet marked.
RootOnly == {"intercept_check", "intercept_hook", "intercept_mark",
             "release_check", "release_unhook", "release_clear"}
Hooked(s) == sys_call_table[s] = interceptor
Marked(s) == table[s].intercepted = 1
FlagFollowsHook ==
  /\ \A p \in Pid : pc[p] \in RootOnly => Root(p)
  /\ \A p \in Pid :
       /\ pc[p] = "intercept_hook" => ~ Hooked(arg[p].sys) /\ ~ Marked(arg[p].sys)
       /\ pc[p] = "intercept_mark" => Hooked(arg[p].sys) /\ ~ Marked(arg[p].sys)
       /\ pc[p] = "release_unhook" => Hooked(arg[p].sys) /\ Marked(arg[p].sys)
       /\ pc[p] = "release_clear"  => ~ Hooked(arg[p].sys) /\ Marked(arg[p].sys)
  /\ \A s \in 1 .. NR_syscalls :
       /\ Hooked(s) /\ ~ Marked(s) => \E p \in Pid : pc[p] = "intercept_mark" /\ arg[p].sys = s
       /\ ~ Hooked(s) /\ Marked(s) => \E p \in Pid : pc[p] = "release_clear" /\ arg[p].sys = s

\* listcount never falls below the length of the list, copies included, so the
\* automatic stop of del_pid and del_pid_sysc (monitored set to 0 when the count
\* reaches zero) never cuts off a pid that is still listed.
Entries(e) == MapThenSumSet(LAMBDA q : e.my_list[q], Pid)
ListedIsCounted == \A s \in Slot : table[s].listcount >= Entries(table[s])

\* No allocation sleeps for ever.  It is what the code depends on and does not
\* give: a process that sleeps in line 99 keeps a spinlock for which all others spin.
AllocationsEnd == \A p \in Pid : []<> ~ Allocating(p)

\* As long as allocations end, every system call comes back to its process or ends
\* it, whatever the others do: no lock is waited for forever and interceptor() does
\* not call itself without end.
CallReturns ==
  AllocationsEnd => \A p \in Pid : pc[p] \notin {"idle", "dead"} ~> pc[p] \in {"idle", "dead"}

=============================================================================
