-------------------------- MODULE Lifecycle_proofs --------------------------
(* Proofs about InterceptorLifecycle for any processes, users, system calls,  *)
(* commands and number of loads, under the careful administrator.             *)
EXTENDS InterceptorLifecycle, Interceptor_proofs

USE ConstantsAssumption, LoadsAssumption DEF MY_CUSTOM_SYSCALL, NoPid

(***************************************************************************)
(* Nobody asks to intercept exit_group.  Without this an unload writes the *)
(* saved my_exit_group back over the slot it has just restored, and calls  *)
(* enter the module's code after it has been freed.                        *)
(***************************************************************************)
ExitGroupSpared == NR_exit_group \notin Target

-----------------------------------------------------------------------------
(* The inductive invariant. *)

\* Inside my_syscall, and inside interceptor or my_exit_group.
CallLabels    == {"log_outer", "log_inner", "call", "exit_del", "exit_call"}
CommandLabels == (CalltableSections \cup PidlistSections \cup Unlocked) \ CallLabels

\* A running command is counted as in flight and aims at a target.
Aimed == \A p \in Pid : pc[p] \in CommandLabels => arg[p].cmd # "none" /\ arg[p].sys \in Target

Emptied(s) == \A q \in Pid : table[s].my_list[q] = 0

\* What holds in every phase.
Always ==
  /\ TypeInv /\ LockDiscipline /\ AllCountedTwice /\ Aimed
  /\ phase \in Phase /\ i \in 1 .. NR_syscalls
  /\ Emptied(MY_CUSTOM_SYSCALL)

\* Nobody is in the code once it has been freed: the administrator waits (the
\* guard of Free in CarefulNext), and from then on nobody enters.
NothingLost == phase = "absent" => \A p \in Pid : ~ InModule(p)

\* The module is not there.
Absent ==
  /\ NothingLost
  /\ \A s \in Slot \ {NR_exit_group} : sys_call_table[s] = s
  /\ sys_call_table[NR_exit_group] \in {NR_exit_group, MY_CUSTOM_SYSCALL}
  /\ \A s \in Slot : ~ Marked(s)

\* While init_function runs nothing is intercepted, so no command gets past its
\* first test and no call is caught.
Starting ==
  /\ \A s \in Slot : sys_call_table[s] = Underlying(s) /\ ~ Marked(s)
  /\ \A p \in Pid : InModule(p) => pc[p] \in {"start_check", "stop_check"}

Running ==
  /\ HookInv
  /\ sys_call_table[MY_CUSTOM_SYSCALL] = my_syscall
  /\ sys_call_table[NR_exit_group] = my_exit_group
  /\ ~ Marked(NR_exit_group)
  /\ i = 1

\* exit_function has been through slot s.
Done(s) == phase = "unloaded" \/ s < i

\* No command runs; what is hooked is marked, with its function saved, until
\* exit_function comes to it.
Leaving ==
  /\ sys_call_table[MY_CUSTOM_SYSCALL] = MY_CUSTOM_SYSCALL
  /\ sys_call_table[NR_exit_group] = MY_CUSTOM_SYSCALL
  /\ ~ Marked(NR_exit_group)
  /\ \A p \in Pid : InModule(p) => pc[p] \in CallLabels
  /\ CaughtGoOn
  /\ \A s \in Slot : Done(s) => Emptied(s)
  /\ \A s \in Slot \ {NR_exit_group, MY_CUSTOM_SYSCALL} :
       IF Hooked(s) THEN ~ Done(s) /\ Marked(s) /\ table[s].f = s
       ELSE sys_call_table[s] = s /\ (Marked(s) => Done(s))

LifeInv ==
  /\ Always
  /\ phase = "absent" => Absent
  /\ Loading => Starting
  /\ phase = "loaded" => Running
  /\ phase \in {"unloading", "unloaded"} => Leaving

-----------------------------------------------------------------------------
(* What a step of a process changes. *)

\* A step of Interceptor's is a step of the loaded module.
LEMMA ProcessStep ==
  ASSUME NEW p \in Pid, Kernel(p) \/ User(p)
  PROVE  Next /\ UNCHANGED loader
BY DEF Kernel, User, Next, Environment

\* A command changes the entry and the slot it aims at, and goes on as a
\* command or returns.
LEMMA CommandEffect ==
  ASSUME TypeInv, NEW p \in Pid,
         InterceptStep(p) \/ ReleaseStep(p) \/ StartStep(p) \/ StopStep(p)
  PROVE  /\ pc[p] \in CommandLabels
         /\ UNCHANGED arg
         /\ \E l \in CommandLabels \cup Results : Goto(p, l)
         /\ \A s \in Slot : s # arg[p].sys =>
              table'[s] = table[s] /\ sys_call_table'[s] = sys_call_table[s]
<1> USE DEF CommandLabels, CallLabels, CalltableSections, PidlistSections, Unlocked, Results
<1>1. CASE InterceptStep(p)
  BY <1>1 DEF InterceptStep, InterceptCheck, InterceptHook, InterceptMark,
              PidlistTest, PidlistSection, CalltableSection, TypeInv, TypeOK
<1>2. CASE ReleaseStep(p)
  BY <1>2 DEF ReleaseStep, ReleaseCheck, ReleaseUnhook, ReleaseClear, SetEntry,
              PidlistTest, PidlistSection, CalltableSection, TypeInv, TypeOK
<1>3. CASE StartStep(p)
  <2>1. CASE StartCheck(p) \/ StartArgs(p) \/ StartOwner(p) \/ StartAllCheck(p) \/ StartMode(p)
    BY <2>1 DEF StartCheck, StartArgs, StartOwner, StartAllCheck, StartMode, ArgsLabel, OwnerLabel,
                PidlistTest, CalltableTest, UnlockedTest, PidlistSection, CalltableSection
  <2>2. CASE StartAllClear(p) \/ StartAllSet(p) \/ StartFirstSet(p)
    BY <2>2 DEF StartAllClear, StartAllSet, StartFirstSet, SetEntry,
                PidlistSection, CalltableSection, TypeInv, TypeOK
  <2>3. CASE StartUnblock(p) \/ StartAdd(p) \/ StartFirst(p)
    BY <2>3 DEF StartUnblock, StartAdd, StartFirst, AddOrFail, SetEntry,
                PidlistSection, TypeInv, TypeOK
  <2> QED
    BY <1>3, <2>1, <2>2, <2>3 DEF StartStep
<1>4. CASE StopStep(p)
  <2>1. CASE StopCheck(p) \/ StopArgs(p) \/ StopOwner(p) \/ StopAllCheck(p) \/ StopMode(p)
    BY <2>1 DEF StopCheck, StopArgs, StopOwner, StopAllCheck, StopMode, ArgsLabel, OwnerLabel,
                PidlistTest, CalltableTest, UnlockedTest, PidlistSection, CalltableSection
  <2>2. CASE StopAllClear(p) \/ StopDel(p) \/ StopBlock(p)
    BY <2>2 DEF StopAllClear, StopDel, StopBlock, AddOrFail, SetEntry,
                PidlistSection, TypeInv, TypeOK
  <2> QED
    BY <1>4, <2>1, <2>2 DEF StopStep
<1> QED
  BY <1>1, <1>2, <1>3, <1>4

\* A call changes no slot, stays a call until it returns, and changes lists
\* only on its way through my_exit_group.
LEMMA CallEffect ==
  ASSUME TypeInv, NEW p \in Pid, CallStep(p)
  PROVE  /\ pc[p] \in CallLabels \cup Results
         /\ \E l \in CallLabels \cup {"OK", "killed", "idle", "dead"} : Goto(p, l)
         /\ UNCHANGED sys_call_table
         /\ UNCHANGED table \/ table' = DelPid(p)
         /\ KeepsHooks
         /\ \A q \in Pid : q # p \/ pc[p] \in CallLabels => arg'[q] = arg[q]
         /\ pc[p] \in CallLabels \/ pc'[p] \in {"idle", "dead"}
         /\ pc'[p] \in Intercepted => pc[p] \in Intercepted
<1> USE DEF CallLabels, Results, Intercepted
<1>1. CASE LogOuter(p) \/ LogInner(p) \/ ExitDel(p)
  <2>1. ExitDel(p) => pc'[p] = "exit_call"
    BY GotoType DEF ExitDel, TypeInv, TypeOK, Label, Unlocked
  <2> QED
    BY <1>1, <2>1, DelPidStep, KeepsTable DEF LogOuter, LogInner, ExitDel, PidlistSection
<1>2. CASE CallOriginal(p)
  <2>1. AfterCall(table[arg[p].sys].f) \in {"log_outer", "exit_del", "killed", "OK"}
    BY <1>2, CommandEntry, AfterCallLabel DEF CallOriginal, UnlockedTest, EntryType
  <2> QED
    BY <1>2, <2>1, KeepsTable DEF CallOriginal, UnlockedTest
<1>3. CASE ExitCall(p)
  <2>1. AfterCall(orig_exit_group) = "OK"
    BY DEF AfterCall, orig_exit_group, interceptor, my_exit_group, NULL
  <2>2. Goto(p, "OK") /\ pc'[p] = "OK"
    BY <1>3, <2>1, GotoType DEF ExitCall, UnlockedTest, TypeInv, TypeOK, Label
  <2> QED
    BY <1>3, <2>2, KeepsTable DEF ExitCall, UnlockedTest
<1>4. CASE Return(p)
  <2>1. \A q \in Pid : q # p => arg'[q] = arg[q]
    BY <1>4 DEF Return, TypeInv, TypeOK
  <2>2. \E l \in {"idle", "dead"} : Goto(p, l)
    BY <1>4 DEF Return
  <2>3. pc'[p] \in {"idle", "dead"}
    BY <2>2, GotoType DEF TypeInv, TypeOK, Label
  <2> QED
    BY <1>4, <2>1, <2>2, <2>3, KeepsTable DEF Return
<1> QED
  BY <1>1, <1>2, <1>3, <1>4 DEF CallStep

\* A process outside the kernel enters a command, with my_syscall in place, or
\* a call, through a slot, or does neither.
EntersCommand(p) ==
  /\ sys_call_table[MY_CUSTOM_SYSCALL] = my_syscall
  /\ arg'[p].cmd # "none" /\ arg'[p].sys \in Target
  /\ \E l \in {"intercept_check", "release_check", "start_check", "stop_check"} :
       /\ Goto(p, l)
       /\ l \in {"intercept_check", "release_check"} => Root(p) /\ phase = "loaded"
EntersCall(p) ==
  \E s \in 1 .. NR_syscalls - 1 : arg'[p].sys = s /\ Goto(p, AfterCall(sys_call_table[s]))

\* The environment's steps.
LEMMA UserEffect ==
  ASSUME TypeInv, NEW p \in Pid, User(p)
  PROVE  /\ pc[p] \in {"idle", "dead"}
         /\ UNCHANGED <<sys_call_table, table>>
         /\ \A q \in Pid : q # p => arg'[q] = arg[q]
         /\ \/ EntersCommand(p) \/ EntersCall(p)
            \/ \E l \in {"EINVAL", "EPERM", "idle", "dead"} : Goto(p, l)
<1>1. ASSUME NEW s \in 1 .. NR_syscalls - 1, Dispatch(p, s)
      PROVE  EntersCall(p) /\ \A q \in Pid : q # p => arg'[q] = arg[q]
  <2>1. /\ arg'[p].sys = s
        /\ \A q \in Pid : q # p => arg'[q] = arg[q]
    BY <1>1 DEF Dispatch, TypeInv, TypeOK
  <2> QED
    BY <1>1, <2>1 DEF Dispatch, EntersCall
<1>2. ASSUME NEW cmd \in Command, NEW s \in Target, NEW q \in PidArg,
             Root(p) => phase = "loaded", MySyscall(p, cmd, s, q)
      PROVE  /\ EntersCommand(p) \/ \E l \in {"EINVAL", "EPERM"} : Goto(p, l)
             /\ \A o \in Pid : o # p => arg'[o] = arg[o]
  <2>1. /\ arg'[p].cmd = cmd /\ arg'[p].sys = s
        /\ \A o \in Pid : o # p => arg'[o] = arg[o]
    BY <1>2 DEF MySyscall, TypeInv, TypeOK
  <2>2. cmd # "none"
    BY DEF Request
  <2>3. \/ FirstLabel(p, cmd, s) \in {"EINVAL", "EPERM", "start_check", "stop_check"}
        \/ FirstLabel(p, cmd, s) \in {"intercept_check", "release_check"} /\ Root(p)
    BY DEF FirstLabel, Root
  <2> QED
    BY <1>2, <2>1, <2>2, <2>3 DEF MySyscall, EntersCommand
<1>3. CASE Die(p) \/ Spawn(p)
  BY <1>3 DEF Die, Spawn
<1> QED
  BY <1>1, <1>2, <1>3 DEF User, Dispatch, MySyscall, Die, Spawn

\* Waiting for a lock and getting it.
LEMMA SpinEffect ==
  ASSUME NEW p \in Pid, SpinLockCalltable(p) \/ SpinLockPidlist(p)
  PROVE  UNCHANGED <<sys_call_table, table, pc, arg>>
BY DEF SpinLockCalltable, SpinLockPidlist

-----------------------------------------------------------------------------
(* What holds in every phase. *)

\* A process that takes a step.
LEMMA AlwaysMove ==
  ASSUME Always, NEW p \in Pid, Kernel(p) \/ User(p)
  PROVE  Always'
<1>1. TypeInv' /\ LockDiscipline' /\ AllCountedTwice' /\ UNCHANGED loader
  BY ProcessStep, TypeStep, LockStep, CountStep DEF Always
<1>2. TypeInv
  BY DEF Always
<1>3. ASSUME InterceptStep(p) \/ ReleaseStep(p) \/ StartStep(p) \/ StopStep(p)
      PROVE  Aimed' /\ table'[MY_CUSTOM_SYSCALL] = table[MY_CUSTOM_SYSCALL]
  <2>1. PICK l \in CommandLabels \cup Results : Goto(p, l)
    BY <1>2, <1>3, CommandEffect
  <2>2. /\ pc'[p] = l
        /\ \A q \in Pid : q # p => pc'[q] = pc[q]
    BY <1>2, <2>1, GotoType DEF TypeInv, TypeOK, Label, CommandLabels
  <2>3. pc[p] \in CommandLabels /\ UNCHANGED arg
    BY <1>2, <1>3, CommandEffect
  <2>4. arg[p].sys \in 1 .. NR_syscalls
    BY <1>2, <2>3, CommandEntry DEF CommandLabels, CalltableSections, PidlistSections, Unlocked, Results
  <2>5. table'[MY_CUSTOM_SYSCALL] = table[MY_CUSTOM_SYSCALL]
    BY <1>2, <1>3, <2>4, CommandEffect DEF Slot
  <2> QED
    BY <2>2, <2>3, <2>5 DEF Always, Aimed
<1>4. ASSUME CallStep(p)
      PROVE  Aimed' /\ table'[MY_CUSTOM_SYSCALL] = table[MY_CUSTOM_SYSCALL]
  <2>1. PICK l \in CallLabels \cup {"OK", "killed", "idle", "dead"} : Goto(p, l)
    BY <1>2, <1>4, CallEffect
  <2>2. /\ pc'[p] = l
        /\ \A q \in Pid : q # p => pc'[q] = pc[q] /\ arg'[q] = arg[q]
    BY <1>2, <1>4, <2>1, CallEffect, GotoType
       DEF TypeInv, TypeOK, Label, CallLabels, Results, Unlocked, CalltableSections, PidlistSections
  <2>3. l \notin CommandLabels
    BY DEF CommandLabels, CallLabels, CalltableSections, PidlistSections, Unlocked
  <2>4. table'[MY_CUSTOM_SYSCALL] = table[MY_CUSTOM_SYSCALL]
    BY <1>2, <1>4, CallEffect DEF DelPid, Slot
  <2> QED
    BY <2>2, <2>3, <2>4 DEF Always, Aimed
<1>5. ASSUME User(p)
      PROVE  Aimed' /\ table'[MY_CUSTOM_SYSCALL] = table[MY_CUSTOM_SYSCALL]
  <2>1. /\ UNCHANGED table
        /\ \A q \in Pid : q # p => arg'[q] = arg[q]
    BY <1>2, <1>5, UserEffect
  <2>2. CASE EntersCommand(p)
    <3>1. \A q \in Pid : q # p => pc'[q] = pc[q]
      BY <1>2, <2>2, GotoType DEF EntersCommand, TypeInv, TypeOK, Label, PidlistSections
    <3> QED
      BY <2>1, <2>2, <3>1 DEF Always, Aimed, EntersCommand
  <2>3. CASE ~ EntersCommand(p)
    <3>1. PICK l \in {"log_outer", "exit_del", "killed", "OK", "EINVAL", "EPERM", "idle", "dead"} :
            Goto(p, l)
      <4>1. EntersCall(p) \/ \E l \in {"EINVAL", "EPERM", "idle", "dead"} : Goto(p, l)
        BY <1>2, <1>5, <2>3, UserEffect
      <4>2. \A s \in 1 .. NR_syscalls - 1 :
              AfterCall(sys_call_table[s]) \in {"log_outer", "exit_del", "killed", "OK"}
        BY <1>2, AfterCallLabel DEF TypeInv, TypeOK, Slot
      <4> QED
        BY <4>1, <4>2 DEF EntersCall
    <3>2. /\ pc'[p] = l
          /\ \A q \in Pid : q # p => pc'[q] = pc[q]
      BY <1>2, <3>1, GotoType
         DEF TypeInv, TypeOK, Label, Results, Unlocked, CalltableSections, PidlistSections
    <3>3. l \notin CommandLabels
      BY DEF CommandLabels, CallLabels, CalltableSections, PidlistSections, Unlocked
    <3> QED
      BY <2>1, <3>2, <3>3 DEF Always, Aimed
  <2> QED
    BY <2>2, <2>3
<1>6. ASSUME SpinLockCalltable(p) \/ SpinLockPidlist(p)
      PROVE  Aimed' /\ table'[MY_CUSTOM_SYSCALL] = table[MY_CUSTOM_SYSCALL]
  BY <1>6, SpinEffect DEF Always, Aimed
<1>7. Aimed' /\ table'[MY_CUSTOM_SYSCALL] = table[MY_CUSTOM_SYSCALL]
  BY <1>3, <1>4, <1>5, <1>6 DEF Kernel, Step
<1> QED
  BY <1>1, <1>7 DEF Always, Emptied, loader

\* A step of the loader that keeps the table well-formed and counted, and
\* either keeps the locks or frees them when nobody is in the module.
LEMMA AlwaysLoader ==
  ASSUME Always, UNCHANGED <<pc, arg, logged>>,
         sys_call_table' \in [Slot -> Function],
         table' \in [Slot -> EntryType], AllCountedTwice',
         phase' \in Phase, i' \in 1 .. NR_syscalls,
         Emptied(MY_CUSTOM_SYSCALL)',
         UNCHANGED locks \/ (NothingLost' /\ phase' = "absent" /\ calltable_lock' = NoPid /\ pidlist_lock' = NoPid)
  PROVE  Always'
<1>1. TypeInv'
  BY DEF Always, TypeInv, TypeOK, ArgsChecked, locks
<1>2. LockDiscipline'
  BY DEF Always, LockDiscipline, locks, NothingLost, InModule, PidlistSections
<1> QED
  BY <1>1, <1>2 DEF Always, Aimed

-----------------------------------------------------------------------------
(* The processes' steps in each phase. *)

\* A label outside the module.
Outside == Results \cup {"idle", "dead"}

\* Commands, calls and what is outside the module divide the labels.
LEMMA Labels ==
  /\ CallLabels \cup CommandLabels \cup Outside = Label
  /\ CallLabels \cap CommandLabels = {} /\ CallLabels \cap Outside = {}
  /\ CommandLabels \cap Outside = {}
  /\ \A p \in Pid : InModule(p) <=> pc[p] \in CallLabels \cup CommandLabels
BY DEF Label, CallLabels, CommandLabels, Outside, Results, Unlocked, CalltableSections,
       PidlistSections, InModule

\* What the program counters are after a step of p to l.
LEMMA Moved ==
  ASSUME TypeInv, NEW p \in Pid, NEW l \in Label, Goto(p, l)
  PROVE  pc'[p] = l /\ \A q \in Pid : q # p => pc'[q] = pc[q]
BY GotoType DEF TypeInv, TypeOK

\* Once the module is gone nothing leads into its code,
LEMMA AbsentMove ==
  ASSUME Always, Absent, phase = "absent", NEW p \in Pid, Kernel(p) \/ User(p)
  PROVE  Absent'
<1>1. TypeInv /\ phase' = "absent" /\ pc[p] \in Outside
  BY ProcessStep, Labels DEF Always, Absent, NothingLost, loader, TypeInv, TypeOK
<1>2. ASSUME UNCHANGED <<sys_call_table>>, KeepsHooks, NEW l \in Outside, Goto(p, l)
      PROVE  Absent'
  <2>1. \A q \in Pid : ~ InModule(q)'
    BY <1>1, <1>2, Moved, Labels DEF Absent, NothingLost, InModule, Outside, Label,
       CallLabels, CommandLabels, Results, Unlocked, CalltableSections, PidlistSections
  <2> QED
    BY <1>2, <2>1 DEF Absent, NothingLost, Marked, KeepsHooks
<1>3. CASE CallStep(p)
  <2>1. PICK l \in CallLabels \cup {"OK", "killed", "idle", "dead"} : Goto(p, l)
    BY <1>1, <1>3, CallEffect
  <2>2. pc'[p] \in {"idle", "dead"}
    BY <1>1, <1>3, CallEffect, Labels
  <2>3. pc'[p] = l
    BY <1>1, <2>1, Moved, Labels DEF Outside, Results
  <2> QED
    BY <1>1, <1>2, <1>3, <2>1, <2>2, <2>3, CallEffect DEF Outside
<1>4. CASE SpinLockCalltable(p) \/ SpinLockPidlist(p)
  BY <1>1, <1>4 DEF SpinLockCalltable, SpinLockPidlist, Outside, Results, CalltableSections, PidlistSections
<1>5. CASE User(p)
  <2>1. ~ EntersCommand(p)
    BY DEF EntersCommand, Absent, my_syscall, Slot
  <2>2. \A s \in 1 .. NR_syscalls - 1 : AfterCall(sys_call_table[s]) \in Outside
    BY DEF Absent, Slot, AfterCall, Outside, Results, interceptor, my_exit_group
  <2>3. \E l \in Outside : Goto(p, l)
    BY <1>1, <1>5, <2>1, <2>2, UserEffect DEF EntersCall, Outside, Results
  <2> QED
    BY <1>1, <1>2, <1>5, <2>3, UserEffect, KeepsTable
<1> QED
  BY <1>1, <1>3, <1>4, <1>5, CommandEffect, Labels DEF Kernel, Step

\* while it is being loaded no command gets further than its first test, and
\* nobody exits,
LEMMA StartingMove ==
  ASSUME Always, Starting, Loading, NEW p \in Pid, Kernel(p) \/ User(p), NobodyExits
  PROVE  Starting'
<1> DEFINE Early == {"start_check", "stop_check"}
<1>1. TypeInv
  BY DEF Always
<1>2. pc[p] \in Early \cup Outside
  BY <1>1, Labels DEF Starting, TypeInv, TypeOK
<1>3. ASSUME UNCHANGED sys_call_table, KeepsHooks, NEW l \in Early \cup Outside, Goto(p, l)
      PROVE  Starting'
  <2>1. l \in Label
    BY Labels DEF Label, PidlistSections
  <2>2. \A q \in Pid : InModule(q)' => pc'[q] \in Early
    BY <1>1, <1>3, <2>1, Moved, Labels DEF Starting, InModule, Outside,
       Results, Unlocked, CalltableSections, PidlistSections
  <2> QED
    BY <1>3, <2>2 DEF Starting, Marked, KeepsHooks
<1>4. CASE InterceptStep(p) \/ ReleaseStep(p) \/ StartStep(p) \/ StopStep(p)
  <2>1. pc[p] \in Early
    BY <1>1, <1>2, <1>4, CommandEffect, Labels
  <2>2. table[arg[p].sys].intercepted = 0
    BY <1>1, <2>1, CommandEntry DEF Starting, Marked, EntryType, Results
  <2>3. /\ UNCHANGED <<sys_call_table, table>> /\ Goto(p, "EINVAL")
    BY <1>4, <2>1, <2>2
       DEF InterceptStep, ReleaseStep, StartStep, StopStep,
           InterceptCheck, InterceptHook, InterceptMark, ReleaseCheck, ReleaseUnhook, ReleaseClear,
           StartCheck, StartArgs, StartOwner, StartAllCheck, StartAllClear, StartAllSet, StartMode,
           StartUnblock, StartAdd, StartFirst, StartFirstSet,
           StopCheck, StopArgs, StopOwner, StopAllCheck, StopAllClear, StopMode, StopDel, StopBlock,
           PidlistTest, CalltableTest, UnlockedTest, PidlistSection, CalltableSection
  <2> QED
    BY <1>3, <2>3, KeepsTable DEF Outside, Results
<1>5. CASE CallStep(p)
  <2>1. pc[p] \in Results
    BY <1>1, <1>2, <1>5, CallEffect, Labels DEF CallLabels, CommandLabels
  <2>2. PICK l \in CallLabels \cup {"OK", "killed", "idle", "dead"} : Goto(p, l)
    BY <1>1, <1>5, CallEffect
  <2>3. pc'[p] \in {"idle", "dead"}
    BY <1>1, <1>5, <2>1, CallEffect, Labels DEF Outside
  <2>4. pc'[p] = l
    BY <1>1, <2>2, Moved, Labels DEF Outside, Results
  <2> QED
    BY <1>1, <1>3, <1>5, <2>2, <2>3, <2>4, CallEffect DEF Outside
<1>6. CASE SpinLockCalltable(p) \/ SpinLockPidlist(p)
  BY <1>6, SpinEffect DEF Starting, InModule, Marked
<1>7. CASE User(p)
  <2>1. CASE EntersCommand(p)
    <3>1. \E l \in Early : Goto(p, l)
      BY <2>1 DEF EntersCommand, Loading
    <3> QED
      BY <1>1, <1>3, <1>7, <3>1, UserEffect, KeepsTable
  <2>2. CASE EntersCall(p)
    <3>1. PICK s \in 1 .. NR_syscalls - 1 : Goto(p, AfterCall(Underlying(s)))
      BY <2>2 DEF EntersCall, Starting, Slot
    <3>2. AfterCall(Underlying(s)) \in {"exit_del"} \cup Outside
      BY DEF Underlying, AfterCall, my_syscall, my_exit_group, interceptor, Outside, Results
    <3>3. AfterCall(Underlying(s)) # "exit_del"
      BY <1>1, <3>1, <3>2, Moved DEF NobodyExits, Label, PidlistSections, Results
    <3> QED
      BY <1>1, <1>3, <1>7, <3>1, <3>2, <3>3, UserEffect, KeepsTable
  <2>3. CASE \E l \in {"EINVAL", "EPERM", "idle", "dead"} : Goto(p, l)
    BY <1>1, <1>3, <1>7, <2>3, UserEffect, KeepsTable DEF Outside, Results
  <2> QED
    BY <1>1, <1>7, <2>1, <2>2, <2>3, UserEffect
<1> QED
  BY <1>4, <1>5, <1>6, <1>7 DEF Kernel, Step

\* and while it is loaded nobody touches the slots that are not targets.
LEMMA RunningMove ==
  ASSUME SingleRoot, ExitGroupSpared, Always, Running, NEW p \in Pid, Kernel(p) \/ User(p)
  PROVE  Running'
<1>1. TypeInv /\ HookInv' /\ i' = i
  BY ProcessStep, HookStep, RootIsAlone DEF Always, Running, loader
<1>2. ASSUME InterceptStep(p) \/ ReleaseStep(p) \/ StartStep(p) \/ StopStep(p),
             NEW s \in {MY_CUSTOM_SYSCALL, NR_exit_group}
      PROVE  table'[s] = table[s] /\ sys_call_table'[s] = sys_call_table[s]
  <2>1. pc[p] \in CommandLabels
    BY <1>1, <1>2, CommandEffect
  <2>2. arg[p].sys \in Target /\ arg[p].sys \in 1 .. NR_syscalls
    BY <1>1, <2>1, CommandEntry, Labels DEF Always, Aimed, Outside
  <2> QED
    BY <1>1, <1>2, <2>2, CommandEffect DEF ExitGroupSpared, Slot
<1>3. CASE InterceptStep(p) \/ ReleaseStep(p) \/ StartStep(p) \/ StopStep(p)
  BY <1>1, <1>2, <1>3 DEF Running, Marked
<1>4. CASE CallStep(p)
  BY <1>1, <1>4, CallEffect DEF Running, Marked, KeepsHooks, Slot
<1>5. CASE SpinLockCalltable(p) \/ SpinLockPidlist(p) \/ User(p)
  BY <1>1, <1>5, SpinEffect, UserEffect DEF Running, Marked
<1> QED
  BY <1>3, <1>4, <1>5 DEF Kernel, Step

\* While it leaves, calls that were caught go on to the functions saved for
\* them, and lists that have been emptied stay empty.
LEMMA LeavingMove ==
  ASSUME Always, Leaving, phase \in {"unloading", "unloaded"}, NEW p \in Pid, Kernel(p) \/ User(p)
  PROVE  Leaving'
<1>1. TypeInv /\ UNCHANGED loader
  BY ProcessStep DEF Always
<1>2. pc[p] \in CallLabels \cup Outside
  BY <1>1, Labels DEF Leaving, TypeInv, TypeOK
<1>3. ASSUME UNCHANGED sys_call_table, KeepsHooks,
             \A s \in Slot : Emptied(s) => Emptied(s)',
             NEW l \in CallLabels \cup Outside, Goto(p, l),
             \A q \in Pid : q # p => arg'[q] = arg[q],
             l \in Intercepted => table[arg'[p].sys].f = Underlying(arg'[p].sys) /\ arg'[p].sys \in Slot
      PROVE  Leaving'
  <2>1. pc'[p] = l /\ \A q \in Pid : q # p => pc'[q] = pc[q]
    BY <1>1, <1>3, Moved, Labels
  <2>2. \A q \in Pid : InModule(q)' => pc'[q] \in CallLabels
    BY <1>3, <2>1, Labels DEF Leaving, InModule, CommandLabels
  <2>3. \A q \in Pid : pc[q] \in Intercepted => arg[q].sys \in Slot
    BY <1>1, CommandEntry DEF Intercepted, Results
  <2>4. CaughtGoOn'
    BY <1>3, <2>1, <2>3 DEF Leaving, CaughtGoOn, KeepsHooks
  <2>5. \A s \in Slot : Done(s)' <=> Done(s)
    BY <1>1 DEF Done, loader
  <2>6. \A s \in Slot : (Marked(s)' <=> Marked(s)) /\ (Hooked(s)' <=> Hooked(s)) /\ table'[s].f = table[s].f
    BY <1>3 DEF Marked, Hooked, KeepsHooks
  <2>7. NR_exit_group \in Slot
    BY DEF Slot
  <2> QED
    BY <1>3, <2>2, <2>4, <2>5, <2>6, <2>7 DEF Leaving
<1>4. CASE CallStep(p)
  <2>1. PICK l \in CallLabels \cup {"OK", "killed", "idle", "dead"} : Goto(p, l)
    BY <1>1, <1>4, CallEffect
  <2>2. pc'[p] = l /\ l \in CallLabels \cup Outside
    BY <1>1, <2>1, Moved, Labels DEF Outside, Results
  <2>3. \A s \in Slot : Emptied(s) => Emptied(s)'
    <3>1. CASE UNCHANGED table
      BY <3>1 DEF Emptied
    <3>2. CASE table' = DelPid(p)
      <4> SUFFICES ASSUME NEW s \in Slot, Emptied(s), NEW q \in Pid PROVE table'[s].my_list[q] = 0
        BY DEF Emptied
      <4>1. table[s] \in EntryType
        BY <1>1 DEF TypeInv, TypeOK
      <4>2. DelCopies(table[s], p, table[s].my_list[p]).my_list[q] = 0
        BY <4>1 DEF DelCopies, Emptied, EntryType
      <4> QED
        BY <3>2, <4>2 DEF DelPid, Emptied
    <3> QED
      BY <1>1, <1>4, <3>1, <3>2, CallEffect
  <2>4. l \in Intercepted => table[arg'[p].sys].f = Underlying(arg'[p].sys) /\ arg'[p].sys \in Slot
    <3> SUFFICES ASSUME l \in Intercepted
                 PROVE  table[arg'[p].sys].f = Underlying(arg'[p].sys) /\ arg'[p].sys \in Slot
      OBVIOUS
    <3>1. pc[p] \in Intercepted
      BY <1>1, <1>4, <2>2, CallEffect
    <3>2. arg'[p] = arg[p]
      BY <1>1, <1>4, <3>1, CallEffect DEF Intercepted, CallLabels
    <3> QED
      BY <1>1, <3>1, <3>2, CommandEntry DEF Leaving, CaughtGoOn, Intercepted, Results
  <2> QED
    BY <1>1, <1>3, <1>4, <2>1, <2>2, <2>3, <2>4, CallEffect
<1>5. CASE SpinLockCalltable(p) \/ SpinLockPidlist(p)
  BY <1>1, <1>5, SpinEffect DEF Leaving, InModule, Marked, Hooked, Emptied, Done, CaughtGoOn, loader
<1>6. CASE User(p)
  <2>1. UNCHANGED <<sys_call_table, table>> /\ \A q \in Pid : q # p => arg'[q] = arg[q]
    BY <1>1, <1>6, UserEffect
  <2>2. KeepsHooks /\ \A s \in Slot : Emptied(s) => Emptied(s)'
    BY <2>1, KeepsTable DEF Emptied
  <2>3. ~ EntersCommand(p)
    BY DEF EntersCommand, Leaving, my_syscall
  <2>4. CASE EntersCall(p)
    <3>1. PICK s \in 1 .. NR_syscalls - 1 : arg'[p].sys = s /\ Goto(p, AfterCall(sys_call_table[s]))
      BY <2>4 DEF EntersCall
    <3>2. s \in Slot
      BY DEF Slot
    <3>3. CASE Hooked(s)
      <4>1. AfterCall(sys_call_table[s]) = "log_outer"
        BY <3>3 DEF Hooked, AfterCall, interceptor, my_exit_group, NULL
      <4>2. s # NR_exit_group /\ table[s].f = Underlying(s)
        BY <3>2, <3>3 DEF Leaving, Hooked, Underlying, interceptor
      <4> QED
        BY <1>3, <2>1, <2>2, <3>1, <3>2, <4>1, <4>2 DEF CallLabels
    <3>4. CASE ~ Hooked(s)
      <4>1. sys_call_table[s] \in {s, MY_CUSTOM_SYSCALL} /\ (s = NR_exit_group => sys_call_table[s] = MY_CUSTOM_SYSCALL)
        BY <3>2, <3>4 DEF Leaving
      <4>2. AfterCall(sys_call_table[s]) = "OK"
        BY <4>1 DEF AfterCall, interceptor, my_exit_group, NULL
      <4> QED
        BY <1>3, <2>1, <2>2, <3>1, <4>2 DEF Outside, Results, Intercepted
    <3> QED
      BY <3>3, <3>4
  <2>5. CASE \E l \in {"EINVAL", "EPERM", "idle", "dead"} : Goto(p, l)
    BY <1>3, <2>1, <2>2, <2>5 DEF Outside, Results, Intercepted
  <2> QED
    BY <1>1, <1>6, <2>3, <2>4, <2>5, UserEffect
<1>7. ~ (InterceptStep(p) \/ ReleaseStep(p) \/ StartStep(p) \/ StopStep(p))
  BY <1>1, <1>2, CommandEffect, Labels
<1> QED
  BY <1>4, <1>5, <1>6, <1>7 DEF Kernel, Step

-----------------------------------------------------------------------------
(* The loader's steps. *)

\* Loading begins with nothing intercepted, whatever was loaded before.
LEMMA HookBegins ==
  ASSUME LifeInv, Hook
  PROVE  LifeInv'
<1>1. Always /\ Absent
  BY DEF LifeInv, Hook
<1>2. sys_call_table' \in [Slot -> Function] /\ table \in [Slot -> EntryType]
  <2>1. sys_call_table \in [Slot -> Function] /\ table \in [Slot -> EntryType]
    BY <1>1 DEF Always, TypeInv, TypeOK
  <2>2. my_syscall \in Function /\ my_exit_group \in Function
    BY DEF Function, NULL, my_syscall, my_exit_group
  <2> QED
    BY <2>1, <2>2 DEF Hook
<1>3. AllCountedTwice'
  BY <1>1, CountsKept DEF Always, Hook
<1>4. Always'
  BY <1>1, <1>2, <1>3, AlwaysLoader DEF Hook, Always, Phase, Emptied
<1>5. Starting'
  BY <1>1, <1>2 DEF Hook, Absent, Starting, NothingLost, InModule, Marked, Underlying, Slot
<1> QED
  BY <1>4, <1>5 DEF LifeInv, Hook, Loading

\* What init_function makes of an entry in its first section.
LEMMA InitCallsEntry ==
  ASSUME NEW e \in EntryType
  PROVE  LET n == [e EXCEPT !.f = NULL, !.monitored = 0] IN
         /\ n \in EntryType /\ n.intercepted = e.intercepted
         /\ n.my_list = e.my_list /\ n.listcount = e.listcount
<1> DEFINE n == [e EXCEPT !.f = NULL, !.monitored = 0]
<1>1. NULL \in Function /\ 0 \in 0 .. 2
  BY DEF Function, NULL
<1>2. n \in EntryType
  BY <1>1 DEF EntryType
<1>3. n.intercepted = e.intercepted /\ n.my_list = e.my_list /\ n.listcount = e.listcount
  BY DEF EntryType
<1> QED
  BY <1>2, <1>3

\* An entry stays well-formed when its mark, count and list are replaced.
LEMMA MarkUpdate ==
  ASSUME NEW e \in EntryType, NEW l \in [Pid -> Nat], NEW b \in {0, 1}, NEW c \in Int
  PROVE  [e EXCEPT !.intercepted = b, !.listcount = c, !.my_list = l] \in EntryType
BY DEF EntryType

\* The second section.
LEMMA InitListsEntry ==
  ASSUME NEW e \in EntryType, NEW l \in [Pid -> Nat]
  PROVE  LET n == [e EXCEPT !.intercepted = 0, !.listcount = 0, !.my_list = l] IN
         /\ n \in EntryType /\ n.intercepted = 0
         /\ n.my_list = l /\ n.listcount = 0
<1> DEFINE n == [e EXCEPT !.intercepted = 0, !.listcount = 0, !.my_list = l]
<1>1. 0 \in {0, 1} /\ 0 \in Int
  OBVIOUS
<1>2. n \in EntryType
  BY <1>1, MarkUpdate, Zenon
<1>3. n.intercepted = 0 /\ n.my_list = l /\ n.listcount = 0
  BY DEF EntryType
<1> QED
  BY <1>2, <1>3

\* Each entry is initialised, and after the last one the module is loaded.
LEMMA InitBegins ==
  ASSUME LifeInv, InitCalls \/ InitLists
  PROVE  LifeInv'
<1>1. Always /\ Starting /\ table \in [Slot -> EntryType] /\ i \in Slot /\ i # MY_CUSTOM_SYSCALL
  BY DEF LifeInv, InitCalls, InitLists, Loading, Always, TypeInv, TypeOK, Slot
<1> DEFINE e == table'[i]
<1>2. /\ e \in EntryType /\ e.intercepted = 0
      /\ \/ e.my_list = table[i].my_list /\ e.listcount = table[i].listcount
         \/ e.my_list = [q \in Pid |-> 0] /\ e.listcount = 0
      /\ table' = [table EXCEPT ![i] = e]
  <2>1. CASE InitCalls
    <3>1. table[i].intercepted = 0
      BY <1>1 DEF Starting, Marked, EntryType
    <3>2. table' = [table EXCEPT ![i].f = NULL, ![i].monitored = 0]
      BY <2>1 DEF InitCalls
    <3>3. table[i] \in EntryType /\ NULL \in Function
      BY <1>1 DEF Function, NULL
    <3>4. e = [table[i] EXCEPT !.f = NULL, !.monitored = 0]
      BY <1>1, <3>2
    <3>5. table' = [table EXCEPT ![i] = e]
      BY <1>1, <3>2, <3>4
    <3>6. /\ e \in EntryType /\ e.intercepted = 0
          /\ e.my_list = table[i].my_list /\ e.listcount = table[i].listcount
      BY <3>1, <3>3, <3>4, InitCallsEntry
    <3> QED
      BY <3>5, <3>6
  <2>2. CASE InitLists
    <3>1. table' = [table EXCEPT ![i].intercepted = 0, ![i].listcount = 0,
                                 ![i].my_list = [q \in Pid |-> 0]]
      BY <2>2 DEF InitLists
    <3>2. table[i] \in EntryType /\ [q \in Pid |-> 0] \in [Pid -> Nat]
      BY <1>1
    <3>3. e = [table[i] EXCEPT !.intercepted = 0, !.listcount = 0, !.my_list = [q \in Pid |-> 0]]
      BY <1>1, <3>1
    <3>4. table' = [table EXCEPT ![i] = e]
      BY <1>1, <3>1, <3>3
    <3>5. /\ e \in EntryType /\ e.intercepted = 0
          /\ e.my_list = [q \in Pid |-> 0] /\ e.listcount = 0
      <4> DEFINE l == [q \in Pid |-> 0]
      <4>1. l \in [Pid -> Nat] /\ e = [table[i] EXCEPT !.intercepted = 0, !.listcount = 0, !.my_list = l]
        BY <3>2, <3>3
      <4> HIDE DEF e, l
      <4>2. e \in EntryType /\ e.intercepted = 0 /\ e.my_list = l /\ e.listcount = 0
        BY <3>2, <4>1, InitListsEntry
      <4> QED
        BY <4>2 DEF l
    <3> QED
      BY <3>4, <3>5
  <2> QED
    BY <2>1, <2>2
<1> HIDE DEF e
<1>3. CountedTwice(e)
  <2>1. table[i] \in EntryType /\ CountedTwice(table[i])
    BY <1>1 DEF Always, AllCountedTwice
  <2>2. CASE e.my_list = table[i].my_list /\ e.listcount = table[i].listcount
    BY <2>1, <2>2, EntriesSame DEF CountedTwice
  <2>3. CASE e.my_list = [q \in Pid |-> 0] /\ e.listcount = 0
    BY <1>2, <2>3, EmptyCounts
  <2> QED
    BY <1>2, <2>2, <2>3
<1>4. AllCountedTwice'
  BY <1>1, <1>2, <1>3, CountsReplaced DEF Always, SetEntry
<1>5. table' \in [Slot -> EntryType] /\ Emptied(MY_CUSTOM_SYSCALL)'
  BY <1>1, <1>2 DEF Always, Emptied, Slot
<1>6. /\ UNCHANGED <<pc, arg, logged, locks, sys_call_table>>
      /\ \/ phase' \in {"init_calls", "init_lists"} /\ i' \in 1 .. NR_syscalls
         \/ phase' = "loaded" /\ i' = 1
  BY <1>1 DEF InitCalls, InitLists, Always
<1>7. Always'
  BY <1>1, <1>4, <1>5, <1>6, AlwaysLoader DEF Phase, Always, TypeInv, TypeOK
<1>8. Starting'
  BY <1>1, <1>2, <1>6 DEF Starting, Marked, InModule
<1>9. phase' = "loaded" => Running'
  <2> SUFFICES ASSUME phase' = "loaded" PROVE Running'
    OBVIOUS
  <2>1. \A s \in Slot : ~ Hooked(s)' /\ ~ Marked(s)'
    BY <1>8, UnderlyingFunction DEF Starting, Hooked
  <2>2. HookIntegrity'
    BY <1>8, <2>1 DEF Starting, HookIntegrity, Hooked, InModule, Intercepted, Slot,
       CalltableSections, PidlistSections, Unlocked
  <2>3. FlagFollowsHook'
    <3>1. \A p \in Pid : pc'[p] \notin RootOnly
      BY <1>8 DEF Starting, RootOnly, InModule, CalltableSections, PidlistSections
    <3>2. \A s \in 1 .. NR_syscalls : ~ Hooked(s)' /\ ~ Marked(s)'
      BY <2>1 DEF Slot
    <3>3. \A p \in Pid : pc'[p] \notin {"intercept_hook", "intercept_mark",
                                       "release_unhook", "release_clear"}
      BY <3>1 DEF RootOnly
    <3> QED
      BY <3>1, <3>2, <3>3, Zenon DEF FlagFollowsHook
  <2> QED
    BY <1>6, <1>8, <2>1, <2>2, <2>3 DEF Running, HookInv, Starting, Slot, Underlying
<1> QED
  BY <1>6, <1>7, <1>8, <1>9 DEF LifeInv, Loading

\* With no command running, marks say what is hooked.
LEMMA UnhookBegins ==
  ASSUME LifeInv, InFlight = {}, Unhook
  PROVE  LifeInv'
<1>1. Always /\ Running /\ table \in [Slot -> EntryType] /\ sys_call_table \in [Slot -> Function]
  BY DEF LifeInv, Unhook, Always, TypeInv, TypeOK
<1>2. UNCHANGED <<table, pc, arg, logged, locks, i>> /\ phase' = "unloading" /\ i = 1
  BY <1>1 DEF Unhook, locks, Running
<1>3. \A p \in Pid : pc[p] \notin CommandLabels
  BY <1>1 DEF Always, Aimed, InFlight
<1>4. /\ sys_call_table'[MY_CUSTOM_SYSCALL] = MY_CUSTOM_SYSCALL
      /\ sys_call_table'[NR_exit_group] = MY_CUSTOM_SYSCALL
      /\ \A s \in Slot \ {MY_CUSTOM_SYSCALL, NR_exit_group} : sys_call_table'[s] = sys_call_table[s]
      /\ sys_call_table' \in [Slot -> Function]
  BY <1>1 DEF Unhook, orig_exit_group, Slot, Function, NULL
<1>5. Always'
  BY <1>1, <1>2, <1>4, AlwaysLoader, CountsKept DEF Phase, Always, Emptied
<1>6. \A s \in 1 .. NR_syscalls :
        /\ Hooked(s) <=> Marked(s)
        /\ sys_call_table[s] \in {Underlying(s), interceptor}
        /\ Hooked(s) => table[s].f = Underlying(s)
  BY <1>1, <1>3 DEF Running, HookInv, FlagFollowsHook, HookIntegrity, Hooked, CommandLabels,
     CallLabels, PidlistSections
<1>7. CaughtGoOn'
  BY <1>1, <1>2 DEF Running, HookInv, HookIntegrity, CaughtGoOn
<1>8. \A s \in Slot : (Done(s) <=> s = MY_CUSTOM_SYSCALL)'
  BY <1>2 DEF Done, Slot
<1>9. \A s \in Slot \ {NR_exit_group, MY_CUSTOM_SYSCALL} :
        (IF Hooked(s) THEN ~ Done(s) /\ Marked(s) /\ table[s].f = s
         ELSE sys_call_table[s] = s /\ (Marked(s) => Done(s)))'
  <2> SUFFICES ASSUME NEW s \in Slot \ {NR_exit_group, MY_CUSTOM_SYSCALL}
               PROVE  IF Hooked(s) THEN Marked(s) /\ table[s].f = s
                      ELSE sys_call_table[s] = s /\ ~ Marked(s)
    BY <1>2, <1>4, <1>8 DEF Hooked, Marked
  <2> QED
    BY <1>6 DEF Slot, Underlying, Hooked
<1>10. \A s \in Slot : (Done(s) => Emptied(s))'
  BY <1>2, <1>5, <1>8 DEF Always
<1>11. \A p \in Pid : (InModule(p) => pc[p] \in CallLabels)'
  BY <1>2, <1>3, Labels DEF InModule
<1>12. (~ Marked(NR_exit_group))'
  BY <1>1, <1>2 DEF Running, Marked
<1>13. Leaving'
  BY <1>4, <1>7, <1>9, <1>10, <1>11, <1>12 DEF Leaving
<1> QED
  BY <1>2, <1>5, <1>13 DEF LifeInv, Loading

\* Each slot gets back what was saved for it if it was hooked.
LEMMA UnloadGoesOn ==
  ASSUME LifeInv, UnloadSlot
  PROVE  LifeInv'
<1> DEFINE d == DestroyList(table[i])
<1>1. /\ Always /\ Leaving /\ phase = "unloading"
      /\ table \in [Slot -> EntryType] /\ sys_call_table \in [Slot -> Function]
      /\ i \in 1 .. NR_syscalls /\ i \in Slot /\ NR_exit_group \in Slot
  BY DEF LifeInv, UnloadSlot, Always, TypeInv, TypeOK, Slot
<1>2. /\ d \in EntryType /\ d.f = table[i].f /\ d.intercepted = table[i].intercepted
      /\ CountedTwice(d) /\ \A q \in Pid : d.my_list[q] = 0
  <2>1. table[i] \in EntryType
    BY <1>1
  <2> QED
    BY <2>1, DestroyListType, DestroyListCounts
<1>3. SetEntry(i, d) /\ UNCHANGED <<pc, arg, logged, locks>>
  BY DEF UnloadSlot, locks
<1>4. \/ phase' = "unloaded" /\ i = NR_syscalls /\ i' = 1
      \/ phase' = "unloading" /\ i # NR_syscalls /\ i' = i + 1
  BY DEF UnloadSlot, Advance, UnloadsLast
<1> HIDE DEF d
<1>5. /\ \A s \in Slot : /\ table'[s] = IF s = i THEN d ELSE table[s]
                         /\ Marked(s)' <=> Marked(s)
                         /\ table'[s].f = table[s].f
      /\ table' \in [Slot -> EntryType]
  BY <1>1, <1>2, <1>3 DEF SetEntry, Marked
<1>6. AllCountedTwice'
  BY <1>1, <1>2, <1>3, CountsReplaced DEF Always
<1>7. \A s \in Slot : Done(s)' <=> Done(s) \/ s = i
  BY <1>1, <1>4 DEF Done, Slot
<1>8. \A s \in Slot : Done(s)' => Emptied(s)'
  BY <1>1, <1>2, <1>5, <1>7 DEF Leaving, Emptied
<1>9. ~ Done(i)
  BY <1>1 DEF Done
<1>10. /\ Marked(i) => i # NR_exit_group /\ Hooked(i) /\ table[i].f = i
       /\ ~ Marked(i) /\ i # NR_exit_group => ~ Hooked(i) /\ sys_call_table[i] = i
  BY <1>1, <1>9 DEF Leaving
<1>11. sys_call_table' = IF Marked(i) THEN [sys_call_table EXCEPT ![i] = i] ELSE sys_call_table
  BY <1>10 DEF UnloadSlot, Marked
<1>12. /\ sys_call_table' \in [Slot -> Function]
       /\ \A s \in Slot : s # i => sys_call_table'[s] = sys_call_table[s]
       /\ i # NR_exit_group => sys_call_table'[i] = i
       /\ i = NR_exit_group => sys_call_table'[i] = sys_call_table[i]
  BY <1>1, <1>10, <1>11 DEF Slot, Function, NULL
<1>13. Always'
  <2>1. phase' \in Phase /\ i' \in 1 .. NR_syscalls
    BY <1>1, <1>4 DEF Phase
  <2>2. Emptied(MY_CUSTOM_SYSCALL)'
    <3>1. MY_CUSTOM_SYSCALL \in Slot /\ MY_CUSTOM_SYSCALL # i
      BY <1>1 DEF Slot
    <3>2. table'[MY_CUSTOM_SYSCALL] = table[MY_CUSTOM_SYSCALL]
      BY <1>5, <3>1
    <3> QED
      BY <1>1, <3>2 DEF Always, Emptied
  <2> QED
    BY <1>1, <1>3, <1>5, <1>6, <1>12, <2>1, <2>2, AlwaysLoader
<1>14. Leaving'
  <2>1. /\ sys_call_table'[MY_CUSTOM_SYSCALL] = MY_CUSTOM_SYSCALL
        /\ sys_call_table'[NR_exit_group] = MY_CUSTOM_SYSCALL
        /\ ~ Marked(NR_exit_group)'
    BY <1>1, <1>5, <1>12 DEF Leaving, Slot
  <2>2. \A p \in Pid : InModule(p)' => pc'[p] \in CallLabels
    BY <1>1, <1>3 DEF Leaving, InModule
  <2>3. CaughtGoOn'
    <3>1. \A p \in Pid : pc[p] \in Intercepted => arg[p].sys \in Slot
      BY <1>1, CommandEntry DEF Always, Intercepted, Results
    <3> QED
      BY <1>1, <1>3, <1>5, <3>1 DEF Leaving, CaughtGoOn
  <2>4. ASSUME NEW s \in Slot \ {NR_exit_group, MY_CUSTOM_SYSCALL}
        PROVE  (IF Hooked(s) THEN ~ Done(s) /\ Marked(s) /\ table[s].f = s
                ELSE sys_call_table[s] = s /\ (Marked(s) => Done(s)))'
    <3>1. CASE s = i
      BY <1>1, <1>7, <1>12, <3>1 DEF Hooked, Slot, interceptor
    <3>2. CASE s # i
      <4>1. Hooked(s)' <=> Hooked(s)
        BY <1>12, <3>2 DEF Hooked
      <4> QED
        BY <1>1, <1>5, <1>7, <1>12, <3>2, <4>1 DEF Leaving
    <3> QED
      BY <3>1, <3>2
  <2> QED
    BY <1>8, <2>1, <2>2, <2>3, <2>4 DEF Leaving
<1> QED
  BY <1>4, <1>13, <1>14 DEF LifeInv, Loading

\* The memory is freed when nobody is in the module any more.
LEMMA FreeEnds ==
  ASSUME LifeInv, \A p \in Pid : ~ InModule(p), Free
  PROVE  LifeInv'
<1>1. Always /\ Leaving /\ phase = "unloaded" /\ phase' = "absent"
  BY DEF LifeInv, Free
<1>2. UNCHANGED <<sys_call_table, pc, arg, logged, i>> /\ table' = [s \in Slot |-> EmptyEntry]
  BY DEF Free
<1>3. \A s \in Slot : table'[s] = EmptyEntry
  BY <1>2
<1>4. /\ table' \in [Slot -> EntryType] /\ AllCountedTwice'
      /\ Emptied(MY_CUSTOM_SYSCALL)' /\ \A s \in Slot : ~ Marked(s)'
  <2>1. table' \in [Slot -> EntryType]
    BY <1>2, EmptyEntryCounts
  <2>2. \A s \in Slot : CountedTwice(table'[s]) /\ ~ Marked(s)'
    BY <1>3, EmptyEntryCounts DEF Marked
  <2>3. Emptied(MY_CUSTOM_SYSCALL)'
    BY <1>3, EmptyEntryCounts DEF Emptied, Slot
  <2> QED
    BY <2>1, <2>2, <2>3 DEF AllCountedTwice
<1>5. NothingLost'
  BY <1>2 DEF NothingLost, InModule
<1>6. Always'
  <2>1. phase' \in Phase /\ i' \in 1 .. NR_syscalls /\ sys_call_table' \in [Slot -> Function]
    BY <1>1, <1>2 DEF Phase, Always, TypeInv, TypeOK
  <2>2. calltable_lock' = NoPid /\ pidlist_lock' = NoPid
    BY DEF Free
  <2> QED
    BY <1>1, <1>2, <1>4, <1>5, <2>1, <2>2, AlwaysLoader
<1>7. Absent'
  <2>1. \A s \in Slot \ {NR_exit_group, MY_CUSTOM_SYSCALL} : sys_call_table[s] = s
    BY <1>1 DEF Leaving, Done
  <2> QED
    BY <1>1, <1>2, <1>4, <1>5, <2>1 DEF Leaving, Absent
<1> QED
  BY <1>1, <1>6, <1>7 DEF LifeInv, Loading

-----------------------------------------------------------------------------
(* The invariant and what follows from it. *)

\* The kernel before the first insmod.
LEMMA LifeInit == LifecycleInit => LifeInv
<1> SUFFICES ASSUME LifecycleInit PROVE LifeInv
  OBVIOUS
<1> USE DEF LifecycleInit
<1>1. \A s \in Slot : table[s] = EmptyEntry
  OBVIOUS
<1>2. EmptyEntry \in EntryType /\ CountedTwice(EmptyEntry)
  BY EmptyEntryCounts
<1>3. TypeInv
  <2>1. table \in [Slot -> EntryType] /\ sys_call_table \in [Slot -> Function]
    BY <1>2 DEF Slot, Function, NULL
  <2>2. arg \in [Pid -> [cmd : Command \cup {"none"}, sys : Target \cup Slot, pid : PidArg]]
    BY DEF NoCall, Slot, PidArg
  <2> QED
    BY <2>1, <2>2 DEF TypeInv, TypeOK, ArgsChecked, Label, OnePid
<1>4. Always
  BY <1>1, <1>2, <1>3 DEF Always, LockDiscipline, AllCountedTwice, Aimed, CommandLabels, Phase, Emptied,
     EmptyEntry, Slot, CalltableSections, PidlistSections, Unlocked
<1>5. Absent
  BY <1>1 DEF Absent, NothingLost, InModule, Marked, EmptyEntry, Slot, CalltableSections, PidlistSections, Unlocked
<1> QED
  BY <1>4, <1>5 DEF LifeInv, Loading

\* Every step of a careful administrator and of the processes.
LEMMA LifeStep ==
  ASSUME SingleRoot, ExitGroupSpared, LifeInv, [CarefulNext]_allvars
  PROVE  LifeInv'
<1>1. ASSUME NEW p \in Pid, Kernel(p) \/ User(p), Loading => NobodyExits
      PROVE  LifeInv'
  <2>1. Always' /\ phase' = phase
    BY <1>1, AlwaysMove, ProcessStep DEF LifeInv, loader
  <2>2. phase = "absent" => Absent'
    BY <1>1, AbsentMove DEF LifeInv
  <2>3. Loading => Starting'
    BY <1>1, StartingMove DEF LifeInv
  <2>4. phase = "loaded" => Running'
    BY <1>1, RunningMove DEF LifeInv
  <2>5. phase \in {"unloading", "unloaded"} => Leaving'
    BY <1>1, LeavingMove DEF LifeInv
  <2> QED
    BY <2>1, <2>2, <2>3, <2>4, <2>5 DEF LifeInv, Loading
<1>2. CASE UNCHANGED allvars
  <2>1. UNCHANGED vars /\ UNCHANGED loader
    BY <1>2 DEF allvars
  <2>2. Always'
    <3>1. TypeInv' /\ LockDiscipline' /\ AllCountedTwice'
      BY <2>1, TypeStep, LockStep, CountStep DEF LifeInv, Always
    <3> QED
      BY <2>1, <3>1 DEF LifeInv, Always, Aimed, Emptied, vars, loader
  <2>3. HookInv' <=> HookInv
    BY <2>1 DEF vars, HookInv, HookIntegrity, FlagFollowsHook, Hooked, Marked, Root
  <2> QED
    BY <2>1, <2>2, <2>3 DEF LifeInv, vars, loader, Loading, Absent, Starting, Running, Leaving, Done,
       NothingLost, InModule, Marked, Hooked, Emptied, CaughtGoOn
<1> QED
  BY <1>1, <1>2, HookBegins, InitBegins, UnhookBegins, UnloadGoesOn, FreeEnds DEF CarefulNext

\* It holds as long as the module is loaded and unloaded with care.
LEMMA LifeInvariant ==
  ASSUME SingleRoot, ExitGroupSpared
  PROVE  CarefulSpec => []LifeInv
<1>1. LifeInv /\ [CarefulNext]_allvars => LifeInv'
  BY LifeStep
<1> QED
  BY <1>1, LifeInit, PTL DEF CarefulSpec

\* When exit_function returns, every slot of the system call table has its own
\* function back.
THEOREM UnloadPutsBack ==
  ASSUME SingleRoot, ExitGroupSpared
  PROVE  CarefulSpec => []UnloadRestores
<1>1. LifeInv => UnloadRestores
  BY DEF LifeInv, Absent, UnloadRestores
<1> QED
  BY <1>1, LifeInvariant, PTL

\* Once exit_function has returned, no step of a process leads into the module:
\* its slots, those of the caught calls included, lead to the kernel again.
LEMMA NobodyMovesIn ==
  ASSUME LifeInv, phase = "unloaded", NEW p \in Pid, Kernel(p) \/ User(p)
  PROVE  \A q \in Pid : InModule(q)' => InModule(q)
<1>1. TypeInv /\ Leaving
  BY DEF LifeInv, Always
<1>2. ASSUME ~ InModule(p), NEW l \in Outside, Goto(p, l)
      PROVE  \A q \in Pid : InModule(q)' => InModule(q)
  <2>1. pc'[p] = l /\ \A q \in Pid : q # p => pc'[q] = pc[q]
    BY <1>1, <1>2, Moved, Labels
  <2>2. ~ InModule(p)'
    BY <2>1, Labels DEF InModule, Outside, Results, Unlocked, CalltableSections, PidlistSections
  <2> QED
    BY <2>1, <2>2 DEF InModule
<1>3. CASE InModule(p)
  <2>1. \A q \in Pid : q # p => pc'[q] = pc[q]
    <3>1. CASE Step(p)
      <4>1. InterceptStep(p) \/ ReleaseStep(p) \/ StartStep(p) \/ StopStep(p) \/ CallStep(p)
        BY <3>1 DEF Step
      <4>2. \E l \in Label : Goto(p, l)
        BY <1>1, <4>1, CommandEffect, CallEffect, Labels DEF Outside, Results
      <4> QED
        BY <1>1, <4>2, Moved
    <3>2. CASE SpinLockCalltable(p) \/ SpinLockPidlist(p)
      BY <3>2, SpinEffect
    <3>3. CASE User(p)
      BY <1>1, <1>3, <3>3, UserEffect, Labels DEF Outside
    <3> QED
      BY <3>1, <3>2, <3>3 DEF Kernel
  <2> QED
    BY <1>3, <2>1 DEF InModule
<1>4. CASE ~ InModule(p)
  <2>1. CASE Step(p)
    <3>1. CallStep(p) /\ pc[p] \notin CallLabels
      BY <1>1, <1>4, <2>1, CommandEffect, Labels DEF Step
    <3>2. PICK l \in CallLabels \cup {"OK", "killed", "idle", "dead"} : Goto(p, l)
      BY <1>1, <3>1, CallEffect
    <3>3. pc'[p] = l /\ pc'[p] \in {"idle", "dead"}
      BY <1>1, <3>1, <3>2, CallEffect, Moved, Labels DEF Outside, Results
    <3> QED
      BY <1>2, <1>4, <3>2, <3>3 DEF Outside
  <2>2. CASE SpinLockCalltable(p) \/ SpinLockPidlist(p)
    BY <2>2, SpinEffect DEF InModule
  <2>3. CASE User(p)
    <3>1. ~ EntersCommand(p)
      BY <1>1 DEF EntersCommand, Leaving, my_syscall
    <3>2. \A s \in 1 .. NR_syscalls - 1 : AfterCall(sys_call_table[s]) \in Outside
      <4>1. \A s \in 1 .. NR_syscalls - 1 : sys_call_table[s] \in {s, MY_CUSTOM_SYSCALL}
        BY <1>1 DEF Leaving, Done, Slot
      <4> QED
        BY <4>1 DEF AfterCall, Outside, Results, interceptor, my_exit_group
    <3>3. \E l \in Outside : Goto(p, l)
      BY <1>1, <2>3, <3>1, <3>2, UserEffect DEF EntersCall, Outside, Results
    <3> QED
      BY <1>2, <1>4, <3>3
  <2> QED
    BY <2>1, <2>2, <2>3 DEF Kernel
<1> QED
  BY <1>3, <1>4

\* From the moment exit_function returns nobody enters the module, until it is
\* loaded again: no slot leads there, whatever was intercepted and whichever calls
\* were in progress when rmmod began.
THEOREM UnloadClosesDoor ==
  ASSUME SingleRoot, ExitGroupSpared
  PROVE  CarefulSpec => NobodyEnters
<1> DEFINE A == \A p \in Pid : phase \in {"unloaded", "absent"} /\ InModule(p)' => InModule(p)
<1>1. LifeInv /\ [CarefulNext]_allvars => A
  <2> SUFFICES ASSUME LifeInv, [CarefulNext]_allvars, phase \in {"unloaded", "absent"}
               PROVE  \A p \in Pid : InModule(p)' => InModule(p)
    OBVIOUS
  <2>1. CASE UNCHANGED pc
    BY <2>1 DEF InModule
  <2>2. ASSUME NEW p \in Pid, Kernel(p) \/ User(p), phase = "absent"
        PROVE  \A q \in Pid : ~ InModule(q)'
    <3>1. Absent' /\ phase' = "absent"
      BY <2>2, AbsentMove, ProcessStep DEF LifeInv, loader
    <3> QED
      BY <3>1 DEF Absent, NothingLost
  <2>3. CASE \E p \in Pid : Kernel(p) \/ User(p)
    BY <2>2, <2>3, NobodyMovesIn
  <2> QED
    BY <2>1, <2>3 DEF CarefulNext, Hook, InitCalls, InitLists, Unhook, UnloadSlot, Free, allvars, vars
<1>2. LifeInv /\ [CarefulNext]_allvars => [A]_allvars
  BY <1>1
<1> HIDE DEF A
<1>3. CarefulSpec => [][A]_allvars
  BY <1>2, LifeInvariant, PTL DEF CarefulSpec
<1> QED
  BY <1>3 DEF A, NobodyEnters

\* A call caught before its slot is restored goes on to the original function,
\* in every phase.
THEOREM CaughtCallsGoOn ==
  ASSUME SingleRoot, ExitGroupSpared
  PROVE  CarefulSpec => []CaughtGoOn
<1>1. LifeInv => CaughtGoOn
  <2> SUFFICES ASSUME LifeInv PROVE CaughtGoOn
    OBVIOUS
  <2>1. CASE phase = "absent" \/ Loading
    BY <2>1 DEF LifeInv, Absent, NothingLost, Starting, CaughtGoOn, InModule, Intercepted,
       CalltableSections, PidlistSections, Unlocked
  <2>2. CASE phase = "loaded"
    BY <2>2 DEF LifeInv, Running, HookInv, HookIntegrity, CaughtGoOn
  <2>3. CASE phase \in {"unloading", "unloaded"}
    BY <2>3 DEF LifeInv, Leaving
  <2> QED
    BY <2>1, <2>2, <2>3 DEF LifeInv, Always, Phase, Loading
<1> QED
  BY <1>1, LifeInvariant, PTL

\* When exit_function returns, no list has an entry left.
THEOREM UnloadFreesLists ==
  ASSUME SingleRoot, ExitGroupSpared
  PROVE  CarefulSpec => []ListsFreed
<1>1. LifeInv => ListsFreed
  <2> SUFFICES ASSUME LifeInv, phase = "unloaded", NEW s \in Slot PROVE Entries(table[s]) = 0
    BY DEF ListsFreed
  <2>1. Emptied(s) /\ table[s] \in EntryType
    BY DEF LifeInv, Leaving, Done, Always, TypeInv, TypeOK
  <2> QED
    BY <2>1, EmptyCounts DEF Emptied
<1> QED
  BY <1>1, LifeInvariant, PTL

\* Each time init_function ends, and from then on until rmmod, the invariants
\* of the loaded interceptor hold.
THEOREM LoadsIntoInterceptor ==
  ASSUME SingleRoot, ExitGroupSpared
  PROVE  CarefulSpec => []LoadedAsAssumed
<1>1. LifeInv => LoadedAsAssumed
  BY CountedSuffices DEF LifeInv, Always, Running, HookInv, LoadedAsAssumed
<1> QED
  BY <1>1, LifeInvariant, PTL

=============================================================================
