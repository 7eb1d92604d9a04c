------------------------- MODULE InterceptorLifecycle -------------------------
(***************************************************************************)
(* Loading and unloading the interceptor while processes go on:            *)
(* init_function and exit_function around the calls and the commands of    *)
(* Interceptor.  The kernel's table outlives the module; `table` and the   *)
(* locks are the module's own memory.                                      *)
(*                                                                         *)
(* A locked section of the loader is one step, taken when its lock is      *)
(* free.  insmod and rmmod are run by root, who issues no command          *)
(* meanwhile; other users' commands and everyone's system calls overlap    *)
(* with them.                                                              *)
(***************************************************************************)
EXTENDS Interceptor

CONSTANT MaxLoads   \* bound: how often the module is loaded

ASSUME LoadsAssumption == MaxLoads \in Nat

VARIABLES
  phase,   \* how far init_function or exit_function has come
  i,       \* their loop variable
  loads    \* how often the module has been loaded

loader  == <<phase, i, loads>>
allvars == <<vars, loader>>

Phase == {"absent", "init_calls", "init_lists", "loaded", "unloading", "unloaded"}
Loading == phase \in {"init_calls", "init_lists"}
Present == phase # "absent"            \* the module's memory can be used

\* Labels in the module's code.
InModule(p) == pc[p] \in CalltableSections \cup PidlistSections \cup Unlocked

\* A list that INIT_LIST_HEAD has not reached yet: its links are NULL.
Raw(s) == Loading /\ s >= i
Scanned == 1 .. NR_syscalls - 1        \* the lists del_pid goes through

\* No process holds it and none will release it.
Abandoned == -1

\* The kernel before the first insmod.
LifecycleInit ==
  /\ sys_call_table = [s \in Slot |-> s]
  /\ table = [s \in Slot |-> EmptyEntry]
  /\ calltable_lock = NoPid
  /\ pidlist_lock = NoPid
  /\ pc = [p \in Pid |-> "idle"]
  /\ arg = [p \in Pid |-> NoCall]
  /\ logged = [p \in Pid |-> FALSE]
  /\ phase = "absent"
  /\ i = 1
  /\ loads = 0

-----------------------------------------------------------------------------
(* init_function *)

\* Line 618 saves slot MY_CUSTOM_SYSCALL; that is orig_custom_syscall and, by
\* line 621, orig_exit_group too.
Hook ==
  /\ phase = "absent"
  /\ loads < MaxLoads
  /\ sys_call_table' = [sys_call_table EXCEPT ![MY_CUSTOM_SYSCALL] = my_syscall,
                                              ![NR_exit_group] = my_exit_group]
  /\ phase' = "init_calls"
  /\ i' = 1
  /\ loads' = loads + 1
  /\ UNCHANGED <<table, locks, pc, arg, logged>>

InitCalls ==                                            \* lines 634-637
  /\ phase = "init_calls"
  /\ calltable_lock = NoPid
  /\ table' = [table EXCEPT ![i].f = NULL, ![i].monitored = 0]
  /\ phase' = "init_lists"
  /\ UNCHANGED <<sys_call_table, locks, pc, arg, logged, i, loads>>

InitLists ==                                            \* lines 638-642
  /\ phase = "init_lists"
  /\ pidlist_lock = NoPid
  /\ table' = [table EXCEPT ![i].intercepted = 0, ![i].listcount = 0,
                            ![i].my_list = [q \in Pid |-> 0]]
  /\ phase' = IF i = NR_syscalls THEN "loaded" ELSE "init_calls"
  /\ i' = IF i = NR_syscalls THEN 1 ELSE i + 1
  /\ UNCHANGED <<sys_call_table, locks, pc, arg, logged, loads>>

(* exit_function *)

\* Variant: line 665 is missing.
Unhook_LeavesExit ==
  /\ phase = "loaded"
  /\ calltable_lock = NoPid
  /\ sys_call_table' = [sys_call_table EXCEPT ![MY_CUSTOM_SYSCALL] = MY_CUSTOM_SYSCALL]
  /\ phase' = "unloading"
  /\ UNCHANGED <<table, locks, pc, arg, logged, i, loads>>

Unhook ==
  /\ phase = "loaded"
  /\ calltable_lock = NoPid
  /\ sys_call_table' = [sys_call_table EXCEPT ![MY_CUSTOM_SYSCALL] = MY_CUSTOM_SYSCALL,
                                              ![NR_exit_group] = orig_exit_group]
  /\ phase' = "unloading"
  /\ UNCHANGED <<table, locks, pc, arg, logged, i, loads>>

\* Variant: the loop ends before NR_syscalls, as the one of del_pid does.
UnloadsLast_Early == i = NR_syscalls - 1

UnloadsLast == i = NR_syscalls          \* line 670
Advance ==
  /\ phase' = IF UnloadsLast THEN "unloaded" ELSE "unloading"
  /\ i' = IF UnloadsLast THEN 1 ELSE i + 1

\* Variant: the entry is cleared once its slot is restored.
UnloadSlot_Clears ==
  /\ phase = "unloading"
  /\ pidlist_lock = NoPid
  /\ sys_call_table' =
       IF table[i].intercepted = 1 THEN [sys_call_table EXCEPT ![i] = table[i].f]
       ELSE sys_call_table
  /\ SetEntry(i, EmptyEntry)
  /\ Advance
  /\ UNCHANGED <<locks, pc, arg, logged, loads>>

\* Variant: restores the slots that are monitored.
UnloadSlot_IfMonitored ==
  /\ phase = "unloading"
  /\ pidlist_lock = NoPid
  /\ sys_call_table' =
       IF table[i].monitored # 0 THEN [sys_call_table EXCEPT ![i] = table[i].f]
       ELSE sys_call_table
  /\ SetEntry(i, DestroyList(table[i]))
  /\ Advance
  /\ UNCHANGED <<locks, pc, arg, logged, loads>>

UnloadSlot ==                                           \* lines 671-678
  /\ phase = "unloading"
  /\ pidlist_lock = NoPid
  /\ sys_call_table' =
       IF table[i].intercepted = 1 THEN [sys_call_table EXCEPT ![i] = table[i].f]
       ELSE sys_call_table
  /\ SetEntry(i, DestroyList(table[i]))
  /\ Advance
  /\ UNCHANGED <<locks, pc, arg, logged, loads>>

\* The kernel frees the module's memory once exit_function has returned; the
\* next insmod starts from fresh memory.
Free ==
  /\ phase = "unloaded"
  /\ table' = [s \in Slot |-> EmptyEntry]
  /\ calltable_lock' = NoPid
  /\ pidlist_lock' = NoPid
  /\ phase' = "absent"
  /\ UNCHANGED <<sys_call_table, pc, arg, logged, i, loads>>

-----------------------------------------------------------------------------
(* Processes: the steps of Interceptor, which need the module's memory. *)

\* The scan of del_pid meets a list that has no links yet.
Stumbles(p) == pc[p] = "exit_del" /\ pidlist_lock = p /\ \E s \in Scanned : Raw(s)

Kernel(p) ==
  /\ Step(p) \/ SpinLockCalltable(p) \/ SpinLockPidlist(p)
  /\ InModule(p) => Present
  /\ ~ Stumbles(p)
  /\ UNCHANGED loader

User(p) ==
  /\ \/ \E s \in 1 .. NR_syscalls - 1 : Dispatch(p, s)
     \/ \E cmd \in Command, s \in Target, q \in PidArg :
          (Root(p) => phase = "loaded") /\ MySyscall(p, cmd, s, q)
     \/ Die(p)
     \/ Spawn(p)
  /\ UNCHANGED loader

\* The oops kills the process inside the section; nobody releases its lock.
Oops(p) ==
  /\ Stumbles(p)
  /\ pidlist_lock' = Abandoned
  /\ Goto(p, "killed")
  /\ UNCHANGED <<sys_call_table, table, calltable_lock, arg, logged, loader>>

\* A process runs code that is no longer there.
Lost(p) ==
  /\ InModule(p)
  /\ ~ Present
  /\ Goto(p, "killed")
  /\ UNCHANGED <<sys_call_table, table, locks, arg, logged, loader>>

RootIsFree == \A p \in Pid : Root(p) => arg[p].cmd = "none"

LifecycleNext ==
  \/ Hook \/ InitCalls \/ InitLists
  \/ RootIsFree /\ Unhook
  \/ UnloadSlot \/ Free
  \/ \E p \in Pid : Kernel(p) \/ User(p) \/ Oops(p) \/ Lost(p)

LifecycleSpec == LifecycleInit /\ [][LifecycleNext]_allvars

(***************************************************************************)
(* A careful administrator: no process exits while the module is being     *)
(* loaded, no command is running when rmmod starts, and the module is not  *)
(* freed while a process is still in its code.                             *)
(***************************************************************************)
NobodyExits == \A p \in Pid : pc'[p] # "exit_del"

CarefulNext ==
  \/ Hook \/ InitCalls \/ InitLists
  \/ InFlight = {} /\ Unhook
  \/ UnloadSlot
  \/ (\A p \in Pid : ~ InModule(p)) /\ Free
  \/ \E p \in Pid : (Kernel(p) \/ User(p)) /\ (Loading => NobodyExits)

CarefulSpec == LifecycleInit /\ [][CarefulNext]_allvars

-----------------------------------------------------------------------------
(* Properties. *)

\* Unloading gives every slot back, whatever was intercepted and whoever was
\* inside interceptor(): once the module is gone the kernel's table holds the
\* kernel's functions.  exit_group is the exception, see ExitGroupRestored.
UnloadRestores ==
  phase = "absent" => \A s \in Slot \ {NR_exit_group} : sys_call_table[s] = s

\* Once exit_function has returned, the calls it left inside interceptor and
\* my_exit_group are the last: no slot of the kernel's table leads anybody else in,
\* so waiting for them is enough before the code is freed, and afterwards nobody
\* runs it until the next insmod.
NobodyEnters ==
  [][\A p \in Pid : phase \in {"unloaded", "absent"} /\ InModule(p)' => InModule(p)]_allvars

\* A call caught before exit_function restores its slot and going on after it
\* still finds the original function (line 291).
CaughtGoOn ==
  \A p \in Pid : pc[p] \in Intercepted => table[arg[p].sys].f = Underlying(arg[p].sys)

\* Line 669: when exit_function returns no list has an entry left.
ListsFreed ==
  phase = "unloaded" => \A s \in Slot : Entries(table[s]) = 0

\* What Interceptor takes for granted is so each time init_function ends, also
\* after an unload and with processes inside my_exit_group: from then on its
\* invariants hold.
LoadedAsAssumed ==
  phase = "loaded" => LockDiscipline /\ HookIntegrity /\ FlagFollowsHook /\ ListedIsCounted

\* Line 654: "Restore __NR_exit_group to its original syscall."
ExitGroupRestored == phase = "absent" => sys_call_table[NR_exit_group] = NR_exit_group

=============================================================================
