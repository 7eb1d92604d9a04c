---------------------------- MODULE Monitor_proofs ----------------------------
(* What commands and exits do to those watched.  However they overlap, users   *)
(* touch their own processes, but for one line.  When commands take turns, the *)
(* interceptor implements Monitor and answers of 0 are true.  For any          *)
(* processes, users, system calls and overlapping calls of them.               *)
EXTENDS InterceptorMonitor, Interceptor_proofs

USE ConstantsAssumption DEF MY_CUSTOM_SYSCALL, NoPid

CallLabels == {"log_outer", "log_inner", "call", "exit_del", "exit_call"}
CommandLabels == (CalltableSections \cup PidlistSections \cup Unlocked) \ CallLabels

\* Commands, calls and what is outside the module divide the labels.
LEMMA LabelsApart ==
  /\ CommandLabels \cap CallLabels = {}
  /\ CommandLabels \cap (Results \cup {"idle", "dead"}) = {}
  /\ CallLabels \cap (Results \cup {"idle", "dead"}) = {}
  /\ Label = CommandLabels \cup CallLabels \cup Results \cup {"idle", "dead"}
  /\ Results \cap {"idle", "dead"} = {}
BY DEF CommandLabels, CallLabels, CalltableSections, PidlistSections, Unlocked, Results, Label

\* What the list operations leave of those watched.
WatchOf(e) == {q \in Pid : \/ e.monitored = 2 /\ ~ InList(e, q)
                           \/ e.monitored = 1 /\ InList(e, q)}
LEMMA WatchIsOf == \A s : Watch(s) = WatchOf(table[s])
BY DEF Watch, WatchOf, Monitored
LEMMA WatchThen == \A s : Watch(s)' = WatchOf(table'[s])
BY DEF Watch, WatchOf, Monitored

\* Labels of START and STOP after the test of `intercepted`: those past the check
\* for root, and those past the check of the owner.
AllPids == {"start_all_check", "start_all_clear", "start_all_set", "stop_all_check", "stop_all_clear"}
Owned   == {"start_mode", "start_unblock", "start_add", "start_first", "start_first_set",
            "stop_mode", "stop_del", "stop_block"}
-----------------------------------------------------------------------------
(* Permissions, however many commands are in flight. *)

InterceptLabels == {"intercept_check", "intercept_hook", "intercept_mark"}
ReleaseLabels   == {"release_check", "release_unhook", "release_clear"}
StartLabels     == {"start_check", "start_args", "start_owner"}
                     \cup {"start_all_check", "start_all_clear", "start_all_set"}
                     \cup {"start_mode", "start_unblock", "start_add", "start_first", "start_first_set"}
StopLabels      == {"stop_check", "stop_args", "stop_owner", "stop_all_check", "stop_all_clear",
                    "stop_mode", "stop_del", "stop_block"}

\* What p's arguments are and have been checked for at label l.
Permit(p, l) ==
  /\ l \in InterceptLabels => arg[p].cmd = "INTERCEPT" /\ Root(p)
  /\ l \in ReleaseLabels => arg[p].cmd = "RELEASE" /\ Root(p)
  /\ l \in StartLabels => arg[p].cmd = "START"
  /\ l \in StopLabels => arg[p].cmd = "STOP"
  /\ l \in AllPids => Root(p) /\ arg[p].pid = NoPid
  /\ l \in Owned => arg[p].pid \in Pid /\ (Root(p) \/ UidOf[arg[p].pid] = UidOf[p])
Permitted == \A p \in Pid : Permit(p, pc[p])

\* Every label of a command is a label of one of the four.
LEMMA CommandsNamed ==
  CommandLabels = InterceptLabels \cup ReleaseLabels \cup StartLabels \cup StopLabels
BY DEF CommandLabels, CallLabels, CalltableSections, PidlistSections, Unlocked,
       InterceptLabels, ReleaseLabels, StartLabels, StopLabels

\* A label outside the commands needs no permission.
LEMMA FreeLabel ==
  ASSUME NEW p, NEW l, l \notin CommandLabels
  PROVE  Permit(p, l)
BY DEF Permit, CommandLabels, CallLabels, CalltableSections, PidlistSections, Unlocked,
       InterceptLabels, ReleaseLabels, StartLabels, StopLabels, AllPids, Owned

\* A step of p to a label its arguments permit.
LEMMA PermitMove ==
  ASSUME TypeInv, Permitted, NEW p \in Pid, NEW l \in Label, Goto(p, l), UNCHANGED arg, Permit(p, l)
  PROVE  Permitted'
<1>1. pc'[p] = l /\ \A q \in Pid : q # p => pc'[q] = pc[q]
  BY GotoType DEF TypeInv, TypeOK
<1>2. \A q \in Pid : Permit(q, pc'[q])
  BY <1>1 DEF Permitted
<1>3. \A q \in Pid : Permit(q, pc[q])'
  BY <1>2 DEF Permit, Root
<1> QED
  BY <1>3 DEF Permitted

\* A step of p, which may change its arguments, out of the commands.
LEMMA PermitLeave ==
  ASSUME TypeInv, Permitted, NEW p \in Pid, NEW l \in Label \ CommandLabels, Goto(p, l),
         \A q \in Pid \ {p} : arg'[q] = arg[q]
  PROVE  Permitted'
<1>1. pc'[p] = l /\ \A q \in Pid : q # p => pc'[q] = pc[q]
  BY GotoType DEF TypeInv, TypeOK
<1>2. ASSUME NEW q \in Pid, q # p PROVE Permit(q, pc[q])'
  <2>1. Permit(q, pc[q]) /\ pc'[q] = pc[q] /\ arg'[q] = arg[q]
    BY <1>1, <1>2 DEF Permitted
  <2> QED
    BY <2>1 DEF Permit, Root
<1>3. Permit(p, pc[p])'
  BY <1>1 DEF Permit, CommandLabels, CallLabels, CalltableSections, PidlistSections, Unlocked,
              InterceptLabels, ReleaseLabels, StartLabels, StopLabels, AllPids, Owned
<1> QED
  BY <1>2, <1>3 DEF Permitted

\* A START or STOP between its sections.
LEMMA PermitStart ==
  ASSUME TypeInv, Permitted, NEW p \in Pid, StartStep(p) \/ StopStep(p)
  PROVE  Permitted'
<1> DEFINE q == arg[p].pid
<1>1. Permit(p, pc[p]) /\ (pc[p] \in OnePid => q \in Pid)
  BY DEF Permitted, TypeInv, ArgsChecked
<1>2. UNCHANGED arg
  BY DEF StartStep, StopStep, StartCheck, StartArgs, StartOwner, StartAllCheck, StartAllClear,
         StartAllSet, StartMode, StartUnblock, StartAdd, StartFirst, StartFirstSet, StopCheck,
         StopArgs, StopOwner, StopAllCheck, StopAllClear, StopMode, StopDel, StopBlock,
         PidlistTest, CalltableTest, UnlockedTest, PidlistSection, CalltableSection
<1>3. CASE StartCheck(p) \/ StopCheck(p)
  <2>1. PICK l \in {"EINVAL", "start_args", "stop_args"} :
          /\ Goto(p, l)
          /\ l = "start_args" => pc[p] = "start_check"
          /\ l = "stop_args" => pc[p] = "stop_check"
    BY <1>3 DEF StartCheck, StopCheck, PidlistTest, PidlistSection
  <2>2. Permit(p, l)
    BY <1>1, <2>1 DEF Permit, InterceptLabels, ReleaseLabels, StartLabels, StopLabels, AllPids, Owned
  <2> QED
    BY <1>2, <2>1, <2>2, PermitMove DEF Label, Unlocked, Results
<1>4. CASE StartArgs(p) \/ StopArgs(p)
  <2>1. PICK l \in {"EINVAL", "EPERM", "start_all_check", "start_owner", "stop_all_check", "stop_owner"} :
          /\ Goto(p, l)
          /\ l \in {"start_all_check", "start_owner"} => pc[p] = "start_args"
          /\ l \in {"stop_all_check", "stop_owner"} => pc[p] = "stop_args"
          /\ l \in AllPids => Root(p) /\ q = NoPid
    BY <1>4 DEF StartArgs, StopArgs, UnlockedTest, ArgsLabel, AllPids
  <2>2. Permit(p, l)
    BY <1>1, <2>1 DEF Permit, InterceptLabels, ReleaseLabels, StartLabels, StopLabels, Owned
  <2> QED
    BY <1>2, <2>1, <2>2, PermitMove DEF Label, Unlocked, Results, CalltableSections
<1>5. CASE StartOwner(p) \/ StopOwner(p)
  <2>1. PICK l \in {"killed", "EPERM", "start_mode", "stop_mode"} :
          /\ Goto(p, l)
          /\ pc[p] \in {"start_owner", "stop_owner"}
          /\ l = "start_mode" => pc[p] = "start_owner"
          /\ l = "stop_mode" => pc[p] = "stop_owner"
          /\ l \in Owned => Root(p) \/ UidOf[q] = UidOf[p]
    BY <1>5 DEF StartOwner, StopOwner, UnlockedTest, OwnerLabel, Owned
  <2>2. q \in Pid
    BY <1>1, <2>1 DEF OnePid
  <2>3. Permit(p, l)
    BY <1>1, <2>1, <2>2 DEF Permit, InterceptLabels, ReleaseLabels, StartLabels, StopLabels, AllPids
  <2> QED
    BY <1>2, <2>1, <2>3, PermitMove DEF Label, Results, CalltableSections
<1>6. CASE \/ StartAllCheck(p) \/ StartAllClear(p) \/ StartAllSet(p)
           \/ StopAllCheck(p) \/ StopAllClear(p)
  <2>1. PICK l \in {"EINVAL", "EBUSY", "OK", "start_all_clear", "start_all_set", "stop_all_clear"} :
          /\ Goto(p, l) /\ pc[p] \in AllPids
          /\ l \in StartLabels => pc[p] \in StartLabels
          /\ l \in StopLabels => pc[p] \in StopLabels
    BY <1>6 DEF StartAllCheck, StartAllClear, StartAllSet, StopAllCheck, StopAllClear, CalltableTest,
                CalltableSection, PidlistSection, AllPids, StartLabels, StopLabels
  <2>2. Permit(p, l)
    BY <1>1, <2>1 DEF Permit, InterceptLabels, ReleaseLabels, Owned
  <2> QED
    BY <1>2, <2>1, <2>2, PermitMove DEF Label, Results, CalltableSections, PidlistSections
<1>7. CASE \/ StartMode(p) \/ StartUnblock(p) \/ StartAdd(p) \/ StartFirst(p) \/ StartFirstSet(p)
           \/ StopMode(p) \/ StopDel(p) \/ StopBlock(p)
  <2>1. PICK l \in {"EINVAL", "EBUSY", "ENOMEM", "OK", "start_unblock", "start_add", "start_first",
                    "start_first_set", "stop_del", "stop_block"} :
          /\ Goto(p, l) /\ pc[p] \in Owned
          /\ l \in StartLabels => pc[p] \in StartLabels
          /\ l \in StopLabels => pc[p] \in StopLabels
    BY <1>7 DEF StartMode, StartUnblock, StartAdd, StartFirst, StartFirstSet, StopMode, StopDel,
                StopBlock, AddOrFail, CalltableTest, CalltableSection, PidlistSection, Owned,
                StartLabels, StopLabels
  <2>2. Permit(p, l)
    BY <1>1, <2>1 DEF Permit, InterceptLabels, ReleaseLabels, AllPids
  <2> QED
    BY <1>2, <2>1, <2>2, PermitMove DEF Label, Results, CalltableSections, PidlistSections
<1> QED
  BY <1>3, <1>4, <1>5, <1>6, <1>7 DEF StartStep, StopStep

\* Permissions and arguments agree with the label for ever.
LEMMA PermitStep == TypeInv /\ Permitted /\ [Next]_vars => Permitted'
<1> SUFFICES ASSUME TypeInv, Permitted, [Next]_vars PROVE Permitted'
  OBVIOUS
<1>1. ASSUME UNCHANGED <<pc, arg>> PROVE Permitted'
  BY <1>1 DEF Permitted, Permit, Root
<1>2. ASSUME NEW p \in Pid, InterceptStep(p) \/ ReleaseStep(p) PROVE Permitted'
  <2>1. PICK l \in InterceptLabels \cup ReleaseLabels \cup Results :
          /\ Goto(p, l) /\ UNCHANGED arg
          /\ pc[p] \in InterceptLabels \/ pc[p] \in ReleaseLabels
          /\ l \in InterceptLabels => pc[p] \in InterceptLabels
          /\ l \in ReleaseLabels => pc[p] \in ReleaseLabels
    BY <1>2 DEF InterceptStep, InterceptCheck, InterceptHook, InterceptMark, ReleaseStep, ReleaseCheck,
                ReleaseUnhook, ReleaseClear, PidlistTest, PidlistSection, CalltableSection,
                InterceptLabels, ReleaseLabels, Results
  <2>2. Permit(p, pc[p])
    BY DEF Permitted
  <2>3. Permit(p, l)
    BY <2>1, <2>2 DEF Permit, InterceptLabels, ReleaseLabels, StartLabels, StopLabels, AllPids, Owned,
                      Results
  <2> QED
    BY <2>1, <2>3, PermitMove DEF Label, CalltableSections, PidlistSections, InterceptLabels,
                                  ReleaseLabels
<1>3. ASSUME NEW p \in Pid, CallStep(p) PROVE Permitted'
  <2>1. PICK l \in CallLabels \cup Results \cup {"idle", "dead"} :
          Goto(p, l) /\ \A q \in Pid \ {p} : arg'[q] = arg[q]
    <3>1. CASE LogOuter(p) \/ LogInner(p) \/ ExitDel(p)
      BY <3>1 DEF LogOuter, LogInner, ExitDel, PidlistSection, CallLabels
    <3>2. CASE CallOriginal(p)
      <4>1. AfterCall(table[arg[p].sys].f) \in CallLabels \cup Results
        BY DEF AfterCall, CallLabels, Results
      <4> QED
        BY <3>2, <4>1 DEF CallOriginal, UnlockedTest
    <3>3. CASE ExitCall(p)
      <4>1. AfterCall(orig_exit_group) \in CallLabels \cup Results
        BY DEF AfterCall, CallLabels, Results
      <4> QED
        BY <3>3, <4>1 DEF ExitCall, UnlockedTest
    <3>4. CASE Return(p)
      <4>1. \A q \in Pid \ {p} : arg'[q] = arg[q]
        BY <3>4 DEF Return, TypeInv, TypeOK
      <4> QED
        BY <3>4, <4>1 DEF Return
    <3> QED
      BY <1>3, <3>1, <3>2, <3>3, <3>4 DEF CallStep
  <2>2. l \in Label \ CommandLabels
    BY LabelsApart
  <2> QED
    BY <2>1, <2>2, PermitLeave
<1>4. ASSUME NEW p \in Pid, Environment(p) PROVE Permitted'
  <2>1. /\ pc \in [Pid -> Label] /\ sys_call_table \in [Slot -> Function]
        /\ arg \in [Pid -> [cmd : Command \cup {"none"}, sys : Target \cup Slot, pid : PidArg]]
    BY DEF TypeInv, TypeOK
  <2>2. CASE Die(p) \/ Spawn(p)
    <3>1. PICK l \in {"idle", "dead"} : Goto(p, l) /\ UNCHANGED arg
      BY <2>2 DEF Die, Spawn
    <3>2. l \in Label \ CommandLabels
      BY LabelsApart
    <3> QED
      BY <3>1, <3>2, PermitLeave
  <2>3. ASSUME NEW s \in 1 .. NR_syscalls - 1, Dispatch(p, s) PROVE Permitted'
    <3>1. AfterCall(sys_call_table[s]) \in CallLabels \cup Results
      BY DEF AfterCall, CallLabels, Results
    <3>2. AfterCall(sys_call_table[s]) \in Label \ CommandLabels
      BY <3>1, LabelsApart
    <3>3. \A q \in Pid \ {p} : arg'[q] = arg[q]
      BY <2>1, <2>3 DEF Dispatch
    <3> QED
      BY <2>3, <3>2, <3>3, PermitLeave DEF Dispatch
  <2>4. ASSUME NEW cmd \in Command, NEW s \in Target, NEW o \in PidArg, MySyscall(p, cmd, s, o)
        PROVE  Permitted'
    <3> DEFINE l == FirstLabel(p, cmd, s)
    <3>1. /\ arg'[p].cmd = cmd /\ \A q \in Pid \ {p} : arg'[q] = arg[q]
          /\ Goto(p, l)
      BY <2>1, <2>4 DEF MySyscall
    <3>2. /\ l \in {"EINVAL", "EPERM", "intercept_check", "release_check", "start_check", "stop_check"}
          /\ l = "intercept_check" => cmd = "INTERCEPT" /\ Root(p)
          /\ l = "release_check" => cmd = "RELEASE" /\ Root(p)
          /\ l = "start_check" => cmd = "START"
          /\ l = "stop_check" => cmd = "STOP"
      BY DEF FirstLabel
    <3> HIDE DEF l
    <3>3. pc'[p] = l /\ \A q \in Pid : q # p => pc'[q] = pc[q]
      BY <2>1, <3>1 DEF Goto
    <3>4. ASSUME NEW q \in Pid, q # p PROVE Permit(q, pc[q])'
      <4>1. Permit(q, pc[q]) /\ pc'[q] = pc[q] /\ arg'[q] = arg[q]
        BY <3>1, <3>3, <3>4 DEF Permitted
      <4> QED
        BY <4>1 DEF Permit, Root
    <3>5. Permit(p, pc[p])'
      BY <3>1, <3>2, <3>3 DEF Permit, InterceptLabels, ReleaseLabels, StartLabels, StopLabels, AllPids,
                              Owned, Root
    <3> QED
      BY <3>4, <3>5 DEF Permitted
  <2> QED
    BY <1>4, <2>2, <2>3, <2>4 DEF Environment
<1>5. ASSUME NEW p \in Pid, SpinLockCalltable(p) \/ SpinLockPidlist(p) PROVE Permitted'
  BY <1>1, <1>5 DEF SpinLockCalltable, SpinLockPidlist
<1>6. ASSUME NEW p \in Pid, Step(p) PROVE Permitted'
  BY <1>2, <1>3, <1>6, PermitStart DEF Step
<1> QED
  BY <1>1, <1>4, <1>5, <1>6 DEF Next, vars

\* At the start no command is in flight.
LEMMA PermitInit == Init => Permitted
<1> SUFFICES ASSUME Init, NEW p \in Pid PROVE Permit(p, pc[p])
  BY DEF Permitted
<1>1. pc[p] \notin CommandLabels
  BY LabelsApart DEF Init
<1> QED
  BY <1>1, FreeLabel

-----------------------------------------------------------------------------
(* Whose standing a step touches. *)

\* d has q's standing changed and nobody else's.
OnlyOf(q, e, d) == WatchOf(d) \ {q} = WatchOf(e) \ {q}

\* An entry whose mode stays and whose list changes for q alone.
LEMMA SameButOne ==
  ASSUME NEW e, NEW d, NEW q, d.monitored = e.monitored,
         \A r \in Pid \ {q} : d.my_list[r] = e.my_list[r]
  PROVE  OnlyOf(q, e, d)
BY DEF OnlyOf, WatchOf, InList

\* add_pid_sysc and the caller's increment.
LEMMA AddTouches ==
  ASSUME NEW e \in EntryType, NEW q \in Pid
  PROVE  OnlyOf(q, e, [AddPid(e, q) EXCEPT !.listcount = @ + 1])
<1> DEFINE d == [AddPid(e, q) EXCEPT !.listcount = @ + 1]
<1>1. d.monitored = e.monitored /\ d.my_list = [e.my_list EXCEPT ![q] = @ + 1]
  BY DEF AddPid, EntryType
<1>2. e.my_list \in [Pid -> Nat]
  BY DEF EntryType
<1> HIDE DEF d
<1>3. \A r \in Pid \ {q} : d.my_list[r] = e.my_list[r]
  BY <1>1, <1>2
<1>4. OnlyOf(q, e, d)
  BY <1>1, <1>3, SameButOne
<1> QED
  BY <1>4 DEF d

\* Deleting listed copies of q: the count is at least twice as high, so that
\* monitoring does not stop on the way.
LEMMA DelTouches ==
  ASSUME NEW e \in EntryType, NEW q \in Pid, NEW n \in Nat, n <= e.my_list[q], CountedTwice(e)
  PROVE  LET d == DelCopies(e, q, n) IN d.monitored = e.monitored /\ OnlyOf(q, e, d)
<1> DEFINE d == DelCopies(e, q, n)
<1>1. e.my_list \in [Pid -> Nat] /\ e.listcount \in Int /\ n <= Entries(e) /\ Entries(e) \in Nat
  BY EntriesTotal DEF EntryType
<1>2. e.listcount \notin 1 .. n
  BY <1>1 DEF CountedTwice
<1>3. d.my_list = [e.my_list EXCEPT ![q] = @ - n] /\ d.monitored = e.monitored
  BY <1>2 DEF DelCopies, EntryType
<1> HIDE DEF d
<1>4. \A r \in Pid \ {q} : d.my_list[r] = e.my_list[r]
  BY <1>1, <1>3
<1>5. OnlyOf(q, e, d)
  BY <1>3, <1>4, SameButOne
<1> QED
  BY <1>3, <1>5 DEF d

\* del_pid_sysc of a listed pid and the second decrement.
LEMMA DelOneTouches ==
  ASSUME NEW e \in EntryType, NEW q \in Pid, InList(e, q), CountedTwice(e)
  PROVE  OnlyOf(q, e, [DelPidSysc(e, q) EXCEPT !.listcount = @ - 1])
<1> DEFINE c == DelPidSysc(e, q)
           d == [c EXCEPT !.listcount = @ - 1]
<1>1. 1 <= e.my_list[q]
  BY DEF EntryType, InList
<1>2. OnlyOf(q, e, c)
  BY <1>1, DelTouches DEF DelPidSysc
<1>3. d.monitored = c.monitored /\ d.my_list = c.my_list
  BY DEF DelPidSysc, DelCopies
<1> HIDE DEF c, d
<1>4. WatchOf(d) = WatchOf(c)
  BY <1>3 DEF WatchOf, InList
<1>5. OnlyOf(q, e, d)
  BY <1>2, <1>4 DEF OnlyOf
<1> QED
  BY <1>5 DEF c, d

\* What a step of an ordinary user's process p may do to those watched.
Touched(p) == \A s \in Slot :
  \/ OnlyOf(p, table[s], table'[s])
  \/ \E q \in Pid : UidOf[q] = UidOf[p] /\ OnlyOf(q, table[s], table'[s])
  \/ Outdated(p) /\ s = arg[p].sys

\* A step that leaves the table alone touches nobody.
LEMMA UntouchedTable ==
  ASSUME NEW p \in Pid, UNCHANGED table
  PROVE  Touched(p)
BY DEF Touched, OnlyOf

\* A step that puts d in place of the entry of p's system call.
LEMMA TouchedEntry ==
  ASSUME TypeInv, NEW p \in Pid, NEW q \in Pid, UidOf[q] = UidOf[p],
         arg[p].sys \in Slot, NEW d, SetEntry(arg[p].sys, d), OnlyOf(q, table[arg[p].sys], d)
  PROVE  Touched(p)
<1>1. \A s \in Slot : table'[s] = IF s = arg[p].sys THEN d ELSE table[s]
  BY DEF TypeInv, TypeOK, SetEntry
<1> QED
  BY <1>1 DEF Touched, OnlyOf

\* START and STOP of an ordinary user.
LEMMA UserTouches ==
  ASSUME TypeInv, AllCountedTwice, Permitted, NEW p \in Pid, ~ Root(p), StartStep(p) \/ StopStep(p)
  PROVE  Touched(p)
<1> DEFINE s == arg[p].sys
           q == arg[p].pid
           e == table[s]
<1>1. Permit(p, pc[p])
  BY DEF Permitted
<1>2. ASSUME pc[p] \in Owned
      PROVE  /\ q \in Pid /\ UidOf[q] = UidOf[p]
             /\ s \in Slot /\ e \in EntryType /\ CountedTwice(e)
  <2>1. s \in 1 .. NR_syscalls
    BY <1>2 DEF TypeInv, ArgsChecked, Owned, Results
  <2> QED
    BY <1>1, <1>2, <2>1 DEF Permit, TypeInv, TypeOK, AllCountedTwice, Slot
<1>3. CASE UNCHANGED table
  BY <1>3, UntouchedTable
<1>4. CASE StartAllClear(p) \/ StartAllSet(p) \/ StopAllClear(p)
  BY <1>1, <1>4 DEF StartAllClear, StartAllSet, StopAllClear, CalltableSection, PidlistSection, Permit,
                    AllPids
<1>5. ASSUME pc[p] \in Owned, NEW l, AddOrFail(p, l) PROVE Touched(p)
  <2> DEFINE d == [AddPid(e, q) EXCEPT !.listcount = @ + 1]
  <2>1. UNCHANGED table \/ SetEntry(s, d)
    BY <1>5 DEF AddOrFail
  <2>2. OnlyOf(q, e, d)
    BY <1>2, <1>5, AddTouches
  <2> HIDE DEF d
  <2> QED
    BY <1>2, <1>3, <1>5, <2>1, <2>2, TouchedEntry
<1>6. CASE StartAdd(p) \/ StartFirst(p) \/ StopBlock(p)
  <2>1. pc[p] \in Owned /\ (UNCHANGED table \/ \E l \in Label : AddOrFail(p, l))
    BY <1>6 DEF StartAdd, StartFirst, StopBlock, PidlistSection, Owned, Label, Results, CalltableSections
  <2> QED
    BY <1>3, <1>5, <2>1
<1>7. CASE StartUnblock(p) \/ StopDel(p)
  <2> DEFINE d == [DelPidSysc(e, q) EXCEPT !.listcount = @ - 1]
  <2>1. pc[p] \in Owned /\ (UNCHANGED table \/ (InList(e, q) /\ SetEntry(s, d)))
    BY <1>7 DEF StartUnblock, StopDel, PidlistSection, Owned
  <2>2. InList(e, q) => OnlyOf(q, e, d)
    BY <1>2, <2>1, DelOneTouches
  <2> HIDE DEF d
  <2> QED
    BY <1>2, <1>3, <2>1, <2>2, TouchedEntry
<1>8. CASE StartFirstSet(p)
  <2> DEFINE d == [e EXCEPT !.monitored = 1]
  <2>1. pc[p] = "start_first_set" /\ pc[p] \in Owned /\ SetEntry(s, d)
    BY <1>8 DEF StartFirstSet, CalltableSection, Owned, SetEntry
  <2>2. CASE Outdated(p)
    <3>1. \A t \in Slot \ {s} : table'[t] = table[t]
      BY <2>1 DEF SetEntry, TypeInv, TypeOK
    <3> QED
      BY <2>2, <3>1 DEF Touched, OnlyOf
  <2>3. CASE ~ Outdated(p)
    <3>1. e.monitored = 0 /\ \A r \in Pid \ {q} : ~ InList(e, r)
      BY <2>1, <2>3 DEF Outdated
    <3>2. d.monitored = 1 /\ d.my_list = e.my_list
      BY <1>2, <2>1 DEF EntryType
    <3> HIDE DEF d
    <3>3. WatchOf(e) = {}
      BY <3>1 DEF WatchOf
    <3>4. \A r \in Pid \ {q} : r \notin WatchOf(d)
      BY <3>1, <3>2 DEF WatchOf, InList
    <3>5. OnlyOf(q, e, d)
      <4>1. WatchOf(d) \subseteq Pid
        BY DEF WatchOf
      <4> QED
        BY <3>3, <3>4, <4>1 DEF OnlyOf
    <3> QED
      BY <1>2, <2>1, <3>5, TouchedEntry
  <2> QED
    BY <2>2, <2>3
<1>9. StartCheck(p) \/ StartArgs(p) \/ StartOwner(p) \/ StartAllCheck(p) \/ StartMode(p)
        \/ StopCheck(p) \/ StopArgs(p) \/ StopOwner(p) \/ StopAllCheck(p) \/ StopMode(p)
      => UNCHANGED table
  BY DEF StartCheck, StartArgs, StartOwner, StartAllCheck, StartMode, StopCheck, StopArgs, StopOwner,
         StopAllCheck, StopMode, PidlistTest, CalltableTest, UnlockedTest
<1> QED
  BY <1>3, <1>4, <1>6, <1>7, <1>8, <1>9 DEF StartStep, StopStep

\* An exit.
LEMMA ExitTouches ==
  ASSUME TypeInv, AllCountedTwice, NEW p \in Pid, table' = DelPid(p)
  PROVE  Touched(p)
<1>1. ASSUME NEW s \in Slot PROVE OnlyOf(p, table[s], table'[s])
  <2> DEFINE e == table[s]
             d == DelCopies(e, p, e.my_list[p])
  <2>1. e \in EntryType /\ CountedTwice(e)
    BY DEF TypeInv, TypeOK, AllCountedTwice
  <2>2. e.my_list[p] \in Nat
    BY <2>1 DEF EntryType
  <2>3. OnlyOf(p, e, d)
    BY <2>1, <2>2, DelTouches
  <2>4. table'[s] = d \/ table'[s] = e
    BY DEF DelPid
  <2> QED
    BY <2>3, <2>4 DEF OnlyOf
<1> QED
  BY <1>1 DEF Touched

\* Every step is some process's, and an ordinary user's touches few.
LEMMA TouchStep ==
  ASSUME TypeInv, AllCountedTwice, Permitted, [Next]_vars
  PROVE  \/ UNCHANGED pc
         \/ \E p \in Pid : (\A r \in Pid \ {p} : pc'[r] = pc[r]) /\ (Root(p) \/ Touched(p))
<1>1. ASSUME NEW p \in Pid, Step(p) \/ SpinLockCalltable(p) \/ SpinLockPidlist(p) \/ Environment(p)
      PROVE  \A r \in Pid \ {p} : pc'[r] = pc[r]
  <2>1. UNCHANGED pc \/ \E l : Goto(p, l)
    BY <1>1 DEF Step, InterceptStep, InterceptCheck, InterceptHook, InterceptMark, ReleaseStep,
                ReleaseCheck, ReleaseUnhook, ReleaseClear, StartStep, StopStep, StartCheck, StartArgs,
                StartOwner, StartAllCheck, StartAllClear, StartAllSet, StartMode, StartUnblock, StartAdd,
                StartFirst, StartFirstSet, StopCheck, StopArgs, StopOwner, StopAllCheck, StopAllClear,
                StopMode, StopDel, StopBlock, AddOrFail, CallStep, LogOuter, LogInner, CallOriginal,
                ExitDel, ExitCall, Return, Environment, Dispatch, MySyscall, Die, Spawn, PidlistTest,
                CalltableTest, UnlockedTest, SpinLockCalltable, SpinLockPidlist
  <2> QED
    BY <2>1 DEF Goto, TypeInv, TypeOK
<1>2. ASSUME NEW p \in Pid, Step(p) \/ SpinLockCalltable(p) \/ SpinLockPidlist(p) \/ Environment(p),
             ~ Root(p)
      PROVE  Touched(p)
  <2>1. CASE InterceptStep(p) \/ ReleaseStep(p)
    <3>1. pc[p] \in InterceptLabels \cup ReleaseLabels
      BY <2>1 DEF InterceptStep, InterceptCheck, InterceptHook, InterceptMark, ReleaseStep, ReleaseCheck,
                  ReleaseUnhook, ReleaseClear, PidlistTest, PidlistSection, CalltableSection,
                  InterceptLabels, ReleaseLabels
    <3> QED
      BY <1>2, <3>1 DEF Permitted, Permit
  <2>2. CASE StartStep(p) \/ StopStep(p)
    BY <1>2, <2>2, UserTouches
  <2>3. CASE CallStep(p)
    <3>1. UNCHANGED table \/ table' = DelPid(p)
      BY <2>3 DEF CallStep, LogOuter, LogInner, CallOriginal, ExitDel, ExitCall, Return, UnlockedTest
    <3> QED
      BY <3>1, UntouchedTable, ExitTouches
  <2>4. CASE SpinLockCalltable(p) \/ SpinLockPidlist(p) \/ Environment(p)
    <3>1. UNCHANGED table
      BY <2>4 DEF SpinLockCalltable, SpinLockPidlist, Environment, Dispatch, MySyscall, Die, Spawn
    <3> QED
      BY <3>1, UntouchedTable
  <2> QED
    BY <1>2, <2>1, <2>2, <2>3, <2>4 DEF Step
<1> QED
  BY <1>1, <1>2 DEF Next, vars

\* However many commands are in flight, a step of an ordinary user changes whether
\* another user's process is watched only where line 494 writes a mode over what
\* has become of the entry since line 446.
THEOREM OwnersAlone == Spec => OwnersOnly
<1> DEFINE A == \A p \in Pid : \A s \in Slot, q \in Pid :
                  /\ pc'[p] # pc[p] /\ ~ Root(p)
                  /\ (q \in Watch(s)) # (q \in Watch(s)')
                  => UidOf[q] = UidOf[p] \/ (Outdated(p) /\ s = arg[p].sys)
<1>1. TypeInv /\ AllCountedTwice /\ Permitted /\ [Next]_vars
        => TypeInv' /\ AllCountedTwice' /\ Permitted' /\ [A]_vars
  <2> SUFFICES ASSUME TypeInv, AllCountedTwice, Permitted, [Next]_vars
               PROVE  TypeInv' /\ AllCountedTwice' /\ Permitted' /\ A
    OBVIOUS
  <2>1. ASSUME NEW p \in Pid, NEW s \in Slot, NEW q \in Pid, pc'[p] # pc[p], ~ Root(p),
               (q \in Watch(s)) # (q \in Watch(s)')
        PROVE  UidOf[q] = UidOf[p] \/ (Outdated(p) /\ s = arg[p].sys)
    <3>1. Touched(p)
      BY <2>1, TouchStep
    <3>2. (q \in WatchOf(table[s])) # (q \in WatchOf(table'[s]))
      BY <2>1, WatchIsOf, WatchThen
    <3>3. \A r \in Pid : OnlyOf(r, table[s], table'[s]) => r = q
      BY <3>2 DEF OnlyOf
    <3> QED
      BY <3>1, <3>3 DEF Touched
  <2> QED
    BY <2>1, TypeStep, CountStep, PermitStep
<1>2. Init => AllCountedTwice
  BY EmptyEntryCounts DEF Init, AllCountedTwice
<1> QED
  BY <1>1, <1>2, TypeInit, PermitInit, PTL DEF Spec, OwnersOnly

-----------------------------------------------------------------------------
(* The invariant of commands that take turns. *)

\* At most one command is in flight, and who is in a call is not in a command.
Turns ==
  /\ \A p \in Pid :
       /\ pc[p] \in {"idle", "dead"} => arg[p] = NoCall
       /\ pc[p] \in CommandLabels => arg[p].cmd # "none"
       /\ pc[p] \in CallLabels => arg[p].cmd = "none"
       /\ pc[p] = "exit_del" => arg[p].sys = NR_exit_group
       /\ arg[p].cmd = "none" /\ pc[p] \notin {"idle", "dead"} => arg[p].sys \in 1 .. NR_syscalls - 1
       /\ arg[p].cmd # "none" \/ pc[p] \in {"idle", "dead"} => ~ logged[p]
  /\ \A p, q \in Pid : arg[p].cmd # "none" /\ arg[q].cmd # "none" => p = q

\* A list with no pid twice; an empty one; and one that is empty while nobody is
\* monitored.
Single(e)   == \A q \in Pid : e.my_list[q] <= 1
Unlisted(e) == \A q \in Pid : ~ InList(e, q)
Quiet(e)    == e.monitored = 0 => Unlisted(e)

\* Labels of START and STOP after the test of `intercepted`.
Tested == {"start_args", "start_owner", "stop_args", "stop_owner"} \cup AllPids \cup Owned

\* What a command of p that has come to label l may still rely on: what it read
\* of its entry e under one lock and acts on under the other.
Stage(p, l, e) ==
  /\ l \in Tested => e.intercepted = 1
  /\ l \in {"release_clear", "start_first", "start_first_set"} => e.monitored = 0
  /\ l \in {"start_add", "stop_del"} => e.monitored = 1
  /\ l \in {"start_unblock", "stop_block"} => e.monitored = 2
  /\ l = "start_all_set" => Unlisted(e)
  /\ l = "start_first_set" => \A q \in Pid \ {arg[p].pid} : ~ InList(e, q)
  /\ l \notin {"start_first_set", "release_clear"} => Quiet(e)

Stages ==
  /\ \A s \in Slot : Single(table[s])
  /\ \A s \in Slot : Quiet(table[s]) \/ \E p \in Pid : pc[p] \in CommandLabels /\ arg[p].sys = s
  /\ \A p \in Pid : pc[p] \in CommandLabels => Stage(p, pc[p], table[arg[p].sys])

TurnInv == TypeInv /\ HookInv /\ AllCountedTwice /\ Permitted /\ Turns /\ Stages

-----------------------------------------------------------------------------
(* What the list operations do to an entry when no pid is listed twice. *)

\* add_pid_sysc lists one pid more.
LEMMA AddedOne ==
  ASSUME NEW e \in EntryType, NEW q \in Pid, ~ InList(e, q), Single(e)
  PROVE  LET d == [AddPid(e, q) EXCEPT !.listcount = @ + 1] IN
         /\ d \in EntryType /\ Single(d)
         /\ d.monitored = e.monitored /\ d.intercepted = e.intercepted
         /\ \A r \in Pid : InList(d, r) <=> InList(e, r) \/ r = q
<1> DEFINE d == [AddPid(e, q) EXCEPT !.listcount = @ + 1]
<1>1. d \in EntryType /\ d.intercepted = e.intercepted
  BY AddPidType
<1>2. d.my_list = [e.my_list EXCEPT ![q] = @ + 1] /\ d.monitored = e.monitored
  BY DEF AddPid, EntryType
<1>3. e.my_list \in [Pid -> Nat]
  BY DEF EntryType
<1> HIDE DEF d
<1>4. \A r \in Pid : d.my_list[r] = IF r = q THEN e.my_list[r] + 1 ELSE e.my_list[r]
  BY <1>2, <1>3
<1>5. \A r \in Pid : d.my_list[r] <= 1 /\ (d.my_list[r] > 0 <=> e.my_list[r] > 0 \/ r = q)
  BY <1>3, <1>4 DEF Single, InList
<1> QED
  BY <1>1, <1>2, <1>5 DEF d, Single, InList

\* A pid's one entry is deleted, or there is none; and since the count is twice
\* the length, monitoring does not stop on the way.
LEMMA DeletedOne ==
  ASSUME NEW e \in EntryType, NEW q \in Pid, Single(e), CountedTwice(e)
  PROVE  LET d == DelCopies(e, q, e.my_list[q]) IN
         /\ d \in EntryType /\ Single(d)
         /\ d.monitored = e.monitored /\ d.intercepted = e.intercepted
         /\ \A r \in Pid : InList(d, r) <=> InList(e, r) /\ r # q
<1> DEFINE n == e.my_list[q]
           d == DelCopies(e, q, n)
<1>1. n \in Nat /\ e.my_list \in [Pid -> Nat] /\ e.listcount \in Int /\ n <= Entries(e) /\ Entries(e) \in Nat
  BY EntriesTotal DEF EntryType
<1>2. e.listcount \notin 1 .. n
  BY <1>1 DEF CountedTwice
<1>3. d \in EntryType /\ d.intercepted = e.intercepted
  <2>1. n <= e.my_list[q]
    BY <1>1
  <2> HIDE DEF n
  <2> QED
    BY <1>1, <2>1, DelCopiesType
<1>4. d.my_list = [e.my_list EXCEPT ![q] = @ - n] /\ d.monitored = e.monitored
  BY <1>2 DEF DelCopies, EntryType
<1> HIDE DEF d
<1>5. \A r \in Pid : d.my_list[r] = IF r = q THEN 0 ELSE e.my_list[r]
  BY <1>1, <1>4
<1>6. \A r \in Pid : d.my_list[r] <= 1 /\ (d.my_list[r] > 0 <=> e.my_list[r] > 0 /\ r # q)
  BY <1>1, <1>5 DEF Single
<1> QED
  BY <1>3, <1>4, <1>6 DEF d, n, Single, InList

\* del_pid_sysc and the second decrement take a listed pid off.
LEMMA TakenOff ==
  ASSUME NEW e \in EntryType, NEW q \in Pid, InList(e, q), Single(e), CountedTwice(e)
  PROVE  LET d == [DelPidSysc(e, q) EXCEPT !.listcount = @ - 1] IN
         /\ d \in EntryType /\ Single(d)
         /\ d.monitored = e.monitored /\ d.intercepted = e.intercepted
         /\ \A r \in Pid : InList(d, r) <=> InList(e, r) /\ r # q
<1> DEFINE c == DelPidSysc(e, q)
           d == [c EXCEPT !.listcount = @ - 1]
<1>1. e.my_list[q] = 1
  BY DEF EntryType, Single, InList
<1>2. /\ c \in EntryType /\ Single(c)
      /\ c.monitored = e.monitored /\ c.intercepted = e.intercepted
      /\ \A r \in Pid : InList(c, r) <=> InList(e, r) /\ r # q
  BY <1>1, DeletedOne DEF DelPidSysc
<1> HIDE DEF c
<1>3. /\ d.my_list = c.my_list /\ d.monitored = c.monitored /\ d.intercepted = c.intercepted
  BY <1>2 DEF EntryType
<1>4. d \in EntryType
  BY DelPidSyscType DEF c
<1> HIDE DEF d
<1> QED
  BY <1>2, <1>3, <1>4 DEF Single, InList, c, d

\* destroy_list leaves nobody listed and nobody watched.
LEMMA Emptied ==
  ASSUME NEW e \in EntryType
  PROVE  LET d == DestroyList(e) IN
         /\ d \in EntryType /\ Single(d) /\ Unlisted(d) /\ d.monitored = 0
         /\ d.intercepted = e.intercepted
<1> DEFINE d == DestroyList(e)
<1>1. d \in EntryType /\ d.intercepted = e.intercepted
  BY DestroyListType
<1>2. \A q \in Pid : d.my_list[q] = 0
  BY DestroyListCounts
<1>3. d.monitored = 0
  BY DEF DestroyList, EntryType
<1> HIDE DEF d
<1> QED
  BY <1>1, <1>2, <1>3 DEF d, Single, Unlisted, InList

-----------------------------------------------------------------------------
(* Who moves, and what the others keep. *)

\* Commands take turns.
LEMMA NoneInFlight ==
  ASSUME MaxInFlight = 1, Cardinality(InFlight) < MaxInFlight
  PROVE  \A p \in Pid : arg[p].cmd = "none"
<1>1. InFlight \in SUBSET Pid
  BY DEF InFlight
<1>2. IsFiniteSet(InFlight)
  BY <1>1, FS_Subset
<1>3. Cardinality(InFlight) \in Nat
  BY <1>2, FS_CardinalityType
<1>4. InFlight = {}
  BY <1>2, <1>3, FS_EmptySet
<1> QED
  BY <1>4 DEF InFlight

\* A step of a command from its label to l: it changes its own entry at most.
CommandMove(p, l) == LET s == arg[p].sys IN
  /\ pc[p] \in CommandLabels /\ l \in CommandLabels \cup Results
  /\ Goto(p, l)
  /\ UNCHANGED <<arg, logged>>
  /\ \A t \in Slot \ {s} : table'[t] = table[t]
  /\ Single(table'[s])
  /\ l \in CommandLabels => Stage(p, l, table'[s])
  /\ l \in Results => Quiet(table'[s])

\* A step of a command leaves it the only one.
LEMMA CommandKeepsTurns ==
  ASSUME TypeInv, Turns, NEW p \in Pid, NEW l, CommandMove(p, l)
  PROVE  Turns'
<1>1. /\ pc'[p] = l /\ \A q \in Pid : q # p => pc'[q] = pc[q]
      /\ arg' = arg /\ logged' = logged
  BY LabelsApart, GotoType DEF CommandMove, TypeInv, TypeOK
<1>2. pc[p] \in CommandLabels /\ l \in CommandLabels \cup Results
  BY DEF CommandMove
<1> QED
  BY <1>1, <1>2, LabelsApart DEF Turns, CallLabels

\* A step of a command that establishes what its next label relies on disturbs
\* no other process: nobody else relies on its entry.
LEMMA CommandKeepsStages ==
  ASSUME TypeInv, Turns, Stages, NEW p \in Pid, NEW l, CommandMove(p, l)
  PROVE  Stages'
<1> DEFINE s == arg[p].sys
<1>1. /\ pc'[p] = l /\ \A q \in Pid : q # p => pc'[q] = pc[q]
      /\ arg' = arg /\ pc[p] \in CommandLabels /\ l \in CommandLabels \cup Results
      /\ \A t \in Slot \ {s} : table'[t] = table[t]
      /\ Single(table'[s])
      /\ l \in CommandLabels => Stage(p, l, table'[s])
      /\ l \in Results => Quiet(table'[s])
  BY LabelsApart, GotoType DEF CommandMove, TypeInv, TypeOK
<1>2. \A q \in Pid : q # p => pc[q] \notin CommandLabels
  BY <1>1 DEF Turns
<1>3. \A t \in Slot \ {s} : Quiet(table[t])
  BY <1>2 DEF Stages
<1>4. \A t \in Slot : Single(table'[t])
  BY <1>1 DEF Stages
<1>5. \A q \in Pid : pc'[q] \in CommandLabels => q = p
  BY <1>1, <1>2
<1>6. \A q \in Pid : pc'[q] \in CommandLabels => Stage(q, pc'[q], table'[arg'[q].sys])
  BY <1>1, <1>5
<1>7. \A t \in Slot : Quiet(table'[t]) \/ \E q \in Pid : pc'[q] \in CommandLabels /\ arg'[q].sys = t
  <2> SUFFICES ASSUME NEW t \in Slot, ~ Quiet(table'[t])
               PROVE  pc'[p] \in CommandLabels /\ arg'[p].sys = t
    OBVIOUS
  <2>1. t = s
    BY <1>1, <1>3
  <2> QED
    BY <1>1, <2>1
<1>8. \A q \in Pid : (pc[q] \in CommandLabels => Stage(q, pc[q], table[arg[q].sys]))'
  BY <1>1, <1>6 DEF Stage
<1> QED
  BY <1>4, <1>7, <1>8 DEF Stages

-----------------------------------------------------------------------------
(* What a command does to those watched. *)

\* Labels at which a command has had an effect and goes on.
Midway == {"intercept_mark", "release_clear", "start_all_set", "start_first_set"}

\* g is how far a command at label l has come.
Stands(l, listed, g) ==
  /\ l \notin Midway \cup {"OK"} => g = "asked"
  /\ l \in {"OK", "intercept_mark", "release_clear"} => g = "done"
  /\ l = "start_all_set" => g = "emptied"
  /\ l = "start_first_set" /\ listed => g = "taken"
  /\ l = "start_first_set" /\ ~ listed => g = "overtaken"

\* How far p's command comes by a step that keeps its arguments.
LEMMA ProgressThen ==
  ASSUME NEW p \in Pid, UNCHANGED arg, arg[p].cmd # "none"
  PROVE  LET s == arg[p].sys  q == arg[p].pid IN
         /\ Stands(pc[p], InList(table[s], q), Progress(p))
         /\ Stands(pc'[p], InList(table'[s], q), Progress(p)')
BY DEF Progress, CommandProgress, Stands, Midway, InList

\* What a step of a START or STOP of p does to those watched for its system call,
\* and how far that brings the command: nothing; its one effect, on its one pid or
\* for root on all; or one of the two steps of START of all and of a first START.
Rewatched(p) == LET s == arg[p].sys
                    q == arg[p].pid
                    w == WatchOf(table[s])
                    v == WatchOf(table'[s])
                    Goes(cmd, from, to) == /\ arg[p].cmd = cmd
                                           /\ Progress(p) = from /\ Progress(p)' = to IN
  \/ v = w /\ Progress(p)' = Progress(p)
  \/ /\ pc[p] \in Tested
     /\ \/ Goes("START", "asked", "done") /\ q \in Pid \ w /\ v = w \cup {q}
        \/ Goes("STOP", "asked", "done") /\ q \in w /\ v = w \ {q}
        \/ Goes("STOP", "asked", "done") /\ q = NoPid /\ v = {}
        \/ Goes("START", "asked", "emptied") /\ q = NoPid /\ v = {}
        \/ Goes("START", "emptied", "done") /\ q = NoPid /\ v = Pid
        \/ Goes("START", "asked", "taken") /\ q \in Pid /\ w = {} /\ v = {}
        \/ Goes("START", "taken", "done") /\ q \in Pid /\ v = {q}
        \/ Goes("START", "overtaken", "done") /\ q \in Pid /\ v = {}

\* The step of a command between its locks.
CommandStep(p) == (\E l : CommandMove(p, l)) /\ Rewatched(p)

\* What p can rely on at its label.
LEMMA AtStage ==
  ASSUME TurnInv, NEW p \in Pid, pc[p] \in CommandLabels
  PROVE  LET s == arg[p].sys  e == table[s] IN
         /\ s \in 1 .. NR_syscalls /\ s \in Slot /\ e \in EntryType
         /\ Single(e) /\ CountedTwice(e) /\ Stage(p, pc[p], e)
         /\ Permit(p, pc[p]) /\ arg[p].cmd # "none"
         /\ pc[p] \in OnePid => arg[p].pid \in Pid
<1>1. pc[p] \notin Results \cup {"idle", "dead"}
  BY LabelsApart
<1>2. arg[p].sys \in 1 .. NR_syscalls /\ (pc[p] \in OnePid => arg[p].pid \in Pid)
  BY <1>1 DEF TurnInv, TypeInv, ArgsChecked
<1>3. arg[p].sys \in Slot
  BY <1>2 DEF Slot
<1> QED
  BY <1>2, <1>3 DEF TurnInv, TypeInv, TypeOK, Stages, AllCountedTwice, Permitted, Turns

\* A step that only looks.
LEMMA Looked ==
  ASSUME TurnInv, NEW p \in Pid, pc[p] \in CommandLabels,
         NEW l \in CommandLabels \cup Results, Goto(p, l),
         UNCHANGED <<table, arg, logged>>,
         l \in CommandLabels => Stage(p, l, table[arg[p].sys]),
         {l, pc[p]} \cap (Midway \cup {"OK"}) = {}
  PROVE  CommandStep(p)
<1> DEFINE e == table[arg[p].sys]
<1>1. Single(e) /\ Quiet(e) /\ arg[p].cmd # "none"
  BY AtStage DEF Stage, Midway
<1>2. CommandMove(p, l)
  BY <1>1 DEF CommandMove
<1>3. pc'[p] = l
  BY LabelsApart, GotoType DEF TurnInv, TypeInv, TypeOK
<1>4. Progress(p) = "asked" /\ Progress(p)' = "asked"
  BY <1>1, <1>3, ProgressThen DEF Stands
<1>5. Rewatched(p)
  BY <1>4 DEF Rewatched
<1> QED
  BY <1>2, <1>5 DEF CommandStep

\* A step that puts d in its entry's place.
LEMMA Replaced ==
  ASSUME TurnInv, NEW p \in Pid, pc[p] \in CommandLabels,
         NEW l \in CommandLabels \cup Results, Goto(p, l), UNCHANGED <<arg, logged>>,
         NEW d, SetEntry(arg[p].sys, d), Single(d),
         l \in CommandLabels => Stage(p, l, d), l \in Results => Quiet(d)
  PROVE  /\ CommandMove(p, l) /\ table'[arg[p].sys] = d /\ pc'[p] = l
         /\ Stands(pc[p], InList(table[arg[p].sys], arg[p].pid), Progress(p))
         /\ Stands(l, InList(d, arg[p].pid), Progress(p)')
<1> DEFINE s == arg[p].sys
<1>1. s \in Slot /\ table \in [Slot -> EntryType]
  BY AtStage DEF TurnInv, TypeInv, TypeOK
<1>2. table'[s] = d /\ \A t \in Slot \ {s} : table'[t] = table[t]
  BY <1>1 DEF SetEntry
<1>3. pc'[p] = l
  BY LabelsApart, GotoType DEF TurnInv, TypeInv, TypeOK
<1>4. /\ Stands(pc[p], InList(table[s], arg[p].pid), Progress(p))
      /\ Stands(l, InList(d, arg[p].pid), Progress(p)')
  BY <1>2, <1>3, AtStage, ProgressThen
<1> QED
  BY <1>2, <1>3, <1>4 DEF CommandMove

\* add_pid_sysc, or -ENOMEM, while the mode is m.
LEMMA AddOrFailWatch ==
  ASSUME TurnInv, NEW p \in Pid, pc[p] \in CommandLabels, pc[p] \in Owned, pc[p] \in OnePid,
         UNCHANGED <<arg, logged>>, ~ InList(table[arg[p].sys], arg[p].pid),
         NEW l, AddOrFail(p, l),
         \/ l = "OK" /\ pc[p] \in {"start_add", "stop_block"}
         \/ l = "start_first_set" /\ pc[p] = "start_first"
  PROVE  CommandStep(p)
<1> DEFINE s == arg[p].sys
           q == arg[p].pid
           e == table[s]
           d == [AddPid(e, q) EXCEPT !.listcount = @ + 1]
<1>1. /\ s \in Slot /\ e \in EntryType /\ Single(e) /\ Stage(p, pc[p], e) /\ q \in Pid
      /\ pc[p] \in StartLabels => arg[p].cmd = "START"
      /\ pc[p] \in StopLabels => arg[p].cmd = "STOP"
  BY AtStage DEF Permit
<1>2. /\ d \in EntryType /\ Single(d)
      /\ d.monitored = e.monitored /\ d.intercepted = e.intercepted
      /\ \A r \in Pid : InList(d, r) <=> InList(e, r) \/ r = q
  BY <1>1, AddedOne
<1>3. pc[p] \in Tested /\ pc[p] \notin Midway \cup {"OK"} /\ pc[p] \in StartLabels \cup StopLabels
  BY DEF Tested, Midway, StartLabels, StopLabels, Owned
<1>4. \/ SetEntry(s, d) /\ Goto(p, l)
      \/ Goto(p, "ENOMEM") /\ UNCHANGED table
  BY DEF AddOrFail
<1>5. l \in CommandLabels \cup Results /\ "ENOMEM" \in Results /\ "start_first_set" \in CommandLabels
      /\ "OK" \in Results
  BY DEF CommandLabels, CallLabels, CalltableSections, PidlistSections, Unlocked, Results
<1>6. CASE Goto(p, "ENOMEM") /\ UNCHANGED table
  <2>1. "ENOMEM" \notin Midway \cup {"OK"}
    BY DEF Midway
  <2> QED
    BY <1>3, <1>5, <1>6, <2>1, Looked, LabelsApart
<1>7. CASE SetEntry(s, d) /\ Goto(p, l)
  <2> HIDE DEF d
  <2>1. CASE l = "OK" /\ pc[p] = "start_add"
    <3>1. e.monitored = 1 /\ d.monitored = 1
      BY <1>1, <1>2, <2>1 DEF Stage
    <3>2. /\ CommandMove(p, l) /\ table'[s] = d /\ pc'[p] = l
          /\ Progress(p) = "asked" /\ Progress(p)' = "done"
      BY <1>2, <1>3, <1>5, <1>7, <2>1, <3>1, Replaced, LabelsApart DEF Quiet, Stands
    <3>3. WatchOf(d) = WatchOf(e) \cup {q} /\ q \notin WatchOf(e)
      BY <1>1, <1>2, <3>1 DEF WatchOf
    <3>4. Rewatched(p)
      BY <1>1, <1>3, <2>1, <3>2, <3>3 DEF Rewatched, StartLabels
    <3> QED
      BY <3>2, <3>4 DEF CommandStep
  <2>2. CASE l = "OK" /\ pc[p] = "stop_block"
    <3>1. e.monitored = 2 /\ d.monitored = 2
      BY <1>1, <1>2, <2>2 DEF Stage
    <3>2. /\ CommandMove(p, l) /\ table'[s] = d /\ pc'[p] = l
          /\ Progress(p) = "asked" /\ Progress(p)' = "done"
      BY <1>2, <1>3, <1>5, <1>7, <2>2, <3>1, Replaced, LabelsApart DEF Quiet, Stands
    <3>3. WatchOf(d) = WatchOf(e) \ {q} /\ q \in WatchOf(e)
      BY <1>1, <1>2, <3>1 DEF WatchOf
    <3>4. Rewatched(p)
      BY <1>1, <1>3, <2>2, <3>2, <3>3 DEF Rewatched, StopLabels
    <3> QED
      BY <3>2, <3>4 DEF CommandStep
  <2>3. CASE l = "start_first_set" /\ pc[p] = "start_first"
    <3>1. e.monitored = 0 /\ d.monitored = 0 /\ Unlisted(e) /\ d.intercepted = 1
      BY <1>1, <1>2, <2>3 DEF Stage, Quiet, Tested, Owned
    <3>2. Stage(p, l, d)
      BY <1>2, <2>3, <3>1 DEF Stage, Unlisted
    <3>3. /\ CommandMove(p, l) /\ table'[s] = d /\ pc'[p] = l
          /\ Stands(pc[p], InList(e, q), Progress(p)) /\ Stands(l, InList(d, q), Progress(p)')
      BY <1>2, <1>5, <1>7, <2>3, <3>2, Replaced, LabelsApart
    <3>4. Progress(p) = "asked" /\ Progress(p)' = "taken"
      BY <1>1, <1>2, <1>3, <2>3, <3>3 DEF Stands
    <3>5. WatchOf(d) = {} /\ WatchOf(e) = {}
      BY <3>1 DEF WatchOf
    <3>6. Rewatched(p)
      BY <1>1, <1>3, <2>3, <3>3, <3>4, <3>5 DEF Rewatched, StartLabels
    <3> QED
      BY <3>3, <3>6 DEF CommandStep
  <2> QED
    BY <2>1, <2>2, <2>3
<1> QED
  BY <1>4, <1>6, <1>7

\* del_pid_sysc of a pid that is listed.
LEMMA DelPidSyscWatch ==
  ASSUME TurnInv, NEW p \in Pid, pc[p] \in CommandLabels, pc[p] \in {"start_unblock", "stop_del"},
         UNCHANGED <<arg, logged>>, InList(table[arg[p].sys], arg[p].pid), Goto(p, "OK"),
         SetEntry(arg[p].sys, [DelPidSysc(table[arg[p].sys], arg[p].pid) EXCEPT !.listcount = @ - 1])
  PROVE  CommandStep(p)
<1> DEFINE s == arg[p].sys
           q == arg[p].pid
           e == table[s]
           d == [DelPidSysc(e, q) EXCEPT !.listcount = @ - 1]
<1>1. /\ s \in Slot /\ e \in EntryType /\ Single(e) /\ CountedTwice(e) /\ Stage(p, pc[p], e) /\ q \in Pid
      /\ pc[p] \in StartLabels => arg[p].cmd = "START"
      /\ pc[p] \in StopLabels => arg[p].cmd = "STOP"
  BY AtStage DEF OnePid, Permit
<1>2. /\ d \in EntryType /\ Single(d)
      /\ d.monitored = e.monitored /\ d.intercepted = e.intercepted
      /\ \A r \in Pid : InList(d, r) <=> InList(e, r) /\ r # q
  BY <1>1, TakenOff
<1>3. pc[p] \in Tested /\ pc[p] \notin Midway \cup {"OK"}
  BY DEF Tested, Midway, Owned
<1>4. SetEntry(s, d) /\ "OK" \in Results
  BY DEF Results
<1> HIDE DEF d
<1>5. e.monitored = IF pc[p] = "start_unblock" THEN 2 ELSE 1
  BY <1>1 DEF Stage
<1>6. /\ CommandMove(p, "OK") /\ table'[s] = d /\ pc'[p] = "OK"
      /\ Progress(p) = "asked" /\ Progress(p)' = "done"
  BY <1>2, <1>3, <1>4, <1>5, Replaced, LabelsApart DEF Quiet, Stands
<1>7. CASE pc[p] = "start_unblock"
  <2>1. WatchOf(d) = WatchOf(e) \cup {q} /\ q \notin WatchOf(e)
    BY <1>1, <1>2, <1>5, <1>7 DEF WatchOf
  <2>2. Rewatched(p)
    BY <1>1, <1>3, <1>6, <1>7, <2>1 DEF Rewatched, StartLabels
  <2> QED
    BY <1>6, <2>2 DEF CommandStep
<1>8. CASE pc[p] = "stop_del"
  <2>1. WatchOf(d) = WatchOf(e) \ {q} /\ q \in WatchOf(e)
    BY <1>1, <1>2, <1>5, <1>8 DEF WatchOf
  <2>2. Rewatched(p)
    BY <1>1, <1>3, <1>6, <1>8, <2>1 DEF Rewatched, StopLabels
  <2> QED
    BY <1>6, <2>2 DEF CommandStep
<1> QED
  BY <1>7, <1>8

\* destroy_list at root's START or STOP of all pids.
LEMMA DestroyListWatch ==
  ASSUME TurnInv, NEW p \in Pid, pc[p] \in CommandLabels,
         UNCHANGED <<arg, logged>>, SetEntry(arg[p].sys, DestroyList(table[arg[p].sys])),
         NEW l, Goto(p, l),
         \/ l = "OK" /\ pc[p] = "stop_all_clear"
         \/ l = "start_all_set" /\ pc[p] = "start_all_clear"
  PROVE  CommandStep(p)
<1> DEFINE s == arg[p].sys
           e == table[s]
           d == DestroyList(e)
<1>1. s \in Slot /\ e \in EntryType /\ Stage(p, pc[p], e) /\ Permit(p, pc[p])
  BY AtStage
<1>2. /\ d \in EntryType /\ Single(d) /\ Unlisted(d) /\ d.monitored = 0
      /\ d.intercepted = e.intercepted
  BY <1>1, Emptied
<1>3. /\ e.intercepted = 1 /\ pc[p] \in Tested /\ pc[p] \notin Midway \cup {"OK"}
      /\ arg[p].pid = NoPid
      /\ arg[p].cmd = IF pc[p] = "stop_all_clear" THEN "STOP" ELSE "START"
  BY <1>1 DEF Stage, Permit, Tested, AllPids, Midway, StartLabels, StopLabels
<1>4. l \in CommandLabels \cup Results
  BY DEF CommandLabels, CallLabels, CalltableSections, PidlistSections, Unlocked, Results
<1>5. SetEntry(s, d)
  OBVIOUS
<1> HIDE DEF d
<1>6. Stage(p, "start_all_set", d)
  BY <1>2, <1>3 DEF Stage, Quiet
<1>7. /\ CommandMove(p, l) /\ table'[s] = d
      /\ Stands(pc[p], InList(e, arg[p].pid), Progress(p))
      /\ Stands(l, InList(d, arg[p].pid), Progress(p)')
  <2>1. "OK" \in Results /\ "start_all_set" \in CommandLabels /\ Quiet(d)
    BY <1>2 DEF CommandLabels, CallLabels, CalltableSections, Results, Quiet
  <2>2. CASE l = "OK"
    BY <1>2, <1>4, <1>5, <2>1, <2>2, Replaced, LabelsApart
  <2>3. CASE l = "start_all_set"
    BY <1>2, <1>4, <1>5, <1>6, <2>1, <2>3, Replaced, LabelsApart
  <2> QED
    BY <2>2, <2>3
<1>8. WatchOf(d) = {}
  BY <1>2 DEF WatchOf
<1>9. Progress(p) = "asked" /\ Progress(p)' = IF l = "OK" THEN "done" ELSE "emptied"
  BY <1>3, <1>7 DEF Stands
<1>10. Rewatched(p)
  BY <1>3, <1>7, <1>8, <1>9 DEF Rewatched
<1> QED
  BY <1>7, <1>10 DEF CommandStep

-----------------------------------------------------------------------------
(* The commands, one after the other. *)

\* START.
LEMMA StartWatch ==
  ASSUME TurnInv, NEW p \in Pid, StartStep(p)
  PROVE  CommandStep(p) /\ UNCHANGED sys_call_table
<1> DEFINE s == arg[p].sys
           q == arg[p].pid
           e == table[s]
<1> USE DEF CommandLabels, CallLabels, CalltableSections, PidlistSections, Unlocked, Results
<1>1. ASSUME pc[p] \in CommandLabels
      PROVE  /\ s \in Slot /\ e \in EntryType /\ Single(e) /\ Stage(p, pc[p], e)
             /\ e.intercepted \in {0, 1} /\ e.monitored \in 0 .. 2
  BY <1>1, AtStage DEF EntryType
<1>2. CASE StartCheck(p)
  <2> DEFINE l == IF e.intercepted = 0 THEN "EINVAL" ELSE "start_args"
  <2>1. pc[p] = "start_check" /\ Goto(p, l) /\ UNCHANGED <<sys_call_table, table, arg, logged>>
    BY <1>2 DEF StartCheck, PidlistTest, PidlistSection
  <2>2. l \in CommandLabels => Stage(p, l, e)
    BY <1>1, <2>1 DEF Stage, AllPids, Owned
  <2> QED
    BY <2>1, <2>2, Looked DEF Midway
<1>3. CASE StartArgs(p)
  <2> DEFINE l == ArgsLabel(p, "start_all_check", "start_owner")
  <2>1. pc[p] = "start_args" /\ Goto(p, l) /\ UNCHANGED <<sys_call_table, table, arg, logged>>
    BY <1>3 DEF StartArgs, UnlockedTest
  <2>2. l \in {"start_all_check", "start_owner", "EINVAL", "EPERM"} /\ (l = "start_all_check" => Root(p))
    BY DEF ArgsLabel
  <2> HIDE DEF l
  <2>3. l \in CommandLabels => Stage(p, l, e)
    BY <1>1, <2>1, <2>2 DEF Stage, Tested, AllPids, Owned
  <2> QED
    BY <2>1, <2>2, <2>3, Looked DEF Midway
<1>4. CASE StartOwner(p)
  <2> DEFINE l == OwnerLabel(p, "start_mode")
  <2>1. pc[p] = "start_owner" /\ Goto(p, l) /\ UNCHANGED <<sys_call_table, table, arg, logged>>
    BY <1>4 DEF StartOwner, UnlockedTest
  <2>2. /\ l \in {"start_mode", "killed", "EPERM"}
        /\ l = "start_mode" => Root(p) \/ UidOf[q] = UidOf[p]
    BY DEF OwnerLabel
  <2> HIDE DEF l
  <2>3. l \in CommandLabels => Stage(p, l, e)
    BY <1>1, <2>1, <2>2 DEF Stage, Tested, AllPids, Owned
  <2> QED
    BY <2>1, <2>2, <2>3, Looked DEF Midway
<1>5. CASE StartAllCheck(p)
  <2> DEFINE l == IF e.monitored = 2 THEN "EBUSY" ELSE "start_all_clear"
  <2>1. pc[p] = "start_all_check" /\ Goto(p, l) /\ UNCHANGED <<sys_call_table, table, arg, logged>>
    BY <1>5 DEF StartAllCheck, CalltableTest, CalltableSection
  <2>2. l \in CommandLabels => Stage(p, l, e)
    BY <1>1, <2>1 DEF Stage, Tested, AllPids, Owned
  <2> QED
    BY <2>1, <2>2, Looked DEF Midway
<1>6. CASE StartMode(p)
  <2> DEFINE l == CASE e.monitored = 2 -> "start_unblock" [] e.monitored = 1 -> "start_add"
                    [] OTHER -> "start_first"
  <2>1. pc[p] = "start_mode" /\ Goto(p, l) /\ UNCHANGED <<sys_call_table, table, arg, logged>>
    BY <1>6 DEF StartMode, CalltableTest, CalltableSection
  <2>2. /\ l \in {"start_unblock", "start_add", "start_first"}
        /\ l = "start_unblock" <=> e.monitored = 2
        /\ l = "start_add" <=> e.monitored = 1
        /\ l = "start_first" <=> e.monitored = 0
    BY <1>1, <2>1
  <2> HIDE DEF l
  <2>3. Stage(p, l, e)
    BY <1>1, <2>1, <2>2 DEF Stage, Tested, AllPids, Owned
  <2> QED
    BY <2>1, <2>2, <2>3, Looked DEF Midway
<1>7. CASE StartAllClear(p)
  <2>1. /\ pc[p] = "start_all_clear" /\ Goto(p, "start_all_set")
        /\ UNCHANGED <<sys_call_table, arg, logged>> /\ SetEntry(s, DestroyList(e))
    BY <1>7 DEF StartAllClear, PidlistSection
  <2> QED
    BY <2>1, DestroyListWatch
<1>8. CASE StartAllSet(p)
  <2> DEFINE d == [e EXCEPT !.monitored = 2]
  <2>1. /\ pc[p] = "start_all_set" /\ Goto(p, "OK") /\ UNCHANGED <<sys_call_table, arg, logged>>
        /\ table' = [table EXCEPT ![s].monitored = 2]
    BY <1>8 DEF StartAllSet, CalltableSection
  <2>2. s \in Slot /\ e \in EntryType /\ Single(e) /\ Stage(p, pc[p], e)
    BY <1>1, <2>1
  <2>3. SetEntry(s, d)
    BY <2>1 DEF SetEntry
  <2>4. d.my_list = e.my_list /\ d.monitored = 2
    BY <2>2 DEF EntryType
  <2> HIDE DEF d
  <2>5. Unlisted(e) /\ pc[p] \in Tested /\ q = NoPid /\ arg[p].cmd = "START"
    BY <2>1, <2>2, AtStage DEF Stage, Permit, AllPids, Tested, StartLabels
  <2>6. Single(d) /\ Quiet(d) /\ Unlisted(d)
    BY <2>2, <2>4, <2>5 DEF Single, Quiet, Unlisted, InList
  <2>7. /\ CommandMove(p, "OK") /\ table'[s] = d /\ pc'[p] = "OK"
        /\ Progress(p) = "emptied" /\ Progress(p)' = "done"
    BY <2>1, <2>3, <2>6, Replaced DEF Stands, Midway
  <2>8. WatchOf(d) = Pid
    BY <2>4, <2>6 DEF WatchOf, Unlisted
  <2>9. Rewatched(p)
    BY <2>1, <2>5, <2>7, <2>8 DEF Rewatched
  <2> QED
    BY <2>1, <2>7, <2>9 DEF CommandStep
<1>9. CASE StartUnblock(p)
  <2>1. pc[p] = "start_unblock" /\ UNCHANGED <<sys_call_table, arg, logged>>
    BY <1>9 DEF StartUnblock, PidlistSection
  <2>2. CASE InList(e, q)
    BY <1>9, <2>1, <2>2, DelPidSyscWatch DEF StartUnblock
  <2>3. CASE ~ InList(e, q)
    BY <1>9, <2>1, <2>3, Looked DEF StartUnblock, Midway
  <2> QED
    BY <2>2, <2>3
<1>10. CASE StartAdd(p)
  <2>1. pc[p] = "start_add" /\ UNCHANGED <<sys_call_table, arg, logged>>
    BY <1>10 DEF StartAdd, PidlistSection
  <2>2. CASE InList(e, q)
    BY <1>10, <2>1, <2>2, Looked DEF StartAdd, Midway
  <2>3. CASE ~ InList(e, q)
    BY <1>10, <2>1, <2>3, AddOrFailWatch DEF StartAdd, Owned, OnePid
  <2> QED
    BY <2>2, <2>3
<1>11. CASE StartFirst(p)
  <2>1. pc[p] = "start_first" /\ UNCHANGED <<sys_call_table, arg, logged>>
    BY <1>11 DEF StartFirst, PidlistSection
  <2>2. q \in Pid
    BY <2>1, AtStage DEF OnePid
  <2>3. ~ InList(e, q)
    BY <1>1, <2>1, <2>2 DEF Stage, Quiet, Unlisted
  <2> QED
    BY <1>11, <2>1, <2>3, AddOrFailWatch DEF StartFirst, Owned, OnePid
<1>12. CASE StartFirstSet(p)
  <2> DEFINE d == [e EXCEPT !.monitored = 1]
  <2>1. /\ pc[p] = "start_first_set" /\ Goto(p, "OK") /\ UNCHANGED <<sys_call_table, arg, logged>>
        /\ table' = [table EXCEPT ![s].monitored = 1]
    BY <1>12 DEF StartFirstSet, CalltableSection
  <2>2. s \in Slot /\ e \in EntryType /\ Single(e) /\ Stage(p, pc[p], e)
    BY <1>1, <2>1
  <2>3. SetEntry(s, d)
    BY <2>1 DEF SetEntry
  <2>4. d.my_list = e.my_list /\ d.monitored = 1
    BY <2>2 DEF EntryType
  <2> HIDE DEF d
  <2>5. /\ \A r \in Pid \ {q} : ~ InList(e, r)
        /\ e.monitored = 0 /\ pc[p] \in Tested
        /\ q \in Pid /\ arg[p].cmd = "START"
    BY <2>1, <2>2, AtStage DEF Stage, Permit, Owned, Tested, StartLabels
  <2>6. Single(d) /\ Quiet(d)
    <3>1. Single(d)
      BY <2>2, <2>4, Zenon DEF Single
    <3>2. Quiet(d)
      BY <2>4 DEF Quiet
    <3> QED
      BY <3>1, <3>2
  <2>7. /\ CommandMove(p, "OK") /\ table'[s] = d /\ pc'[p] = "OK"
        /\ Progress(p) = IF InList(e, q) THEN "taken" ELSE "overtaken"
        /\ Progress(p)' = "done"
    BY <2>1, <2>3, <2>6, Replaced DEF Stands, Midway
  <2>8. WatchOf(e) = {} /\ WatchOf(d) = {r \in Pid : InList(e, r)}
    BY <2>4, <2>5 DEF WatchOf, InList
  <2>9. WatchOf(d) = IF InList(e, q) THEN {q} ELSE {}
    BY <2>5, <2>8
  <2>10. Rewatched(p)
    BY <2>1, <2>5, <2>7, <2>8, <2>9 DEF Rewatched
  <2> QED
    BY <2>1, <2>7, <2>10 DEF CommandStep
<1> QED
  BY <1>2, <1>3, <1>4, <1>5, <1>6, <1>7, <1>8, <1>9, <1>10, <1>11, <1>12 DEF StartStep

\* STOP.
LEMMA StopWatch ==
  ASSUME TurnInv, NEW p \in Pid, StopStep(p)
  PROVE  CommandStep(p) /\ UNCHANGED sys_call_table
<1> DEFINE s == arg[p].sys
           q == arg[p].pid
           e == table[s]
<1> USE DEF CommandLabels, CallLabels, CalltableSections, PidlistSections, Unlocked, Results
<1>1. ASSUME pc[p] \in CommandLabels
      PROVE  /\ s \in Slot /\ e \in EntryType /\ Single(e) /\ Stage(p, pc[p], e)
             /\ e.intercepted \in {0, 1} /\ e.monitored \in 0 .. 2
  BY <1>1, AtStage DEF EntryType
<1>2. CASE StopCheck(p)
  <2> DEFINE l == IF e.intercepted = 0 THEN "EINVAL" ELSE "stop_args"
  <2>1. pc[p] = "stop_check" /\ Goto(p, l) /\ UNCHANGED <<sys_call_table, table, arg, logged>>
    BY <1>2 DEF StopCheck, PidlistTest, PidlistSection
  <2>2. l \in CommandLabels => Stage(p, l, e)
    BY <1>1, <2>1 DEF Stage, AllPids, Owned
  <2> QED
    BY <2>1, <2>2, Looked DEF Midway
<1>3. CASE StopArgs(p)
  <2> DEFINE l == ArgsLabel(p, "stop_all_check", "stop_owner")
  <2>1. pc[p] = "stop_args" /\ Goto(p, l) /\ UNCHANGED <<sys_call_table, table, arg, logged>>
    BY <1>3 DEF StopArgs, UnlockedTest
  <2>2. l \in {"stop_all_check", "stop_owner", "EINVAL", "EPERM"} /\ (l = "stop_all_check" => Root(p))
    BY DEF ArgsLabel
  <2> HIDE DEF l
  <2>3. l \in CommandLabels => Stage(p, l, e)
    BY <1>1, <2>1, <2>2 DEF Stage, Tested, AllPids, Owned
  <2> QED
    BY <2>1, <2>2, <2>3, Looked DEF Midway
<1>4. CASE StopOwner(p)
  <2> DEFINE l == OwnerLabel(p, "stop_mode")
  <2>1. pc[p] = "stop_owner" /\ Goto(p, l) /\ UNCHANGED <<sys_call_table, table, arg, logged>>
    BY <1>4 DEF StopOwner, UnlockedTest
  <2>2. /\ l \in {"stop_mode", "killed", "EPERM"}
        /\ l = "stop_mode" => Root(p) \/ UidOf[q] = UidOf[p]
    BY DEF OwnerLabel
  <2> HIDE DEF l
  <2>3. l \in CommandLabels => Stage(p, l, e)
    BY <1>1, <2>1, <2>2 DEF Stage, Tested, AllPids, Owned
  <2> QED
    BY <2>1, <2>2, <2>3, Looked DEF Midway
<1>5. CASE StopAllCheck(p)
  <2> DEFINE l == IF e.monitored = 0 THEN "EINVAL" ELSE "stop_all_clear"
  <2>1. pc[p] = "stop_all_check" /\ Goto(p, l) /\ UNCHANGED <<sys_call_table, table, arg, logged>>
    BY <1>5 DEF StopAllCheck, CalltableTest, CalltableSection
  <2>2. l \in CommandLabels => Stage(p, l, e)
    BY <1>1, <2>1 DEF Stage, Tested, AllPids, Owned
  <2> QED
    BY <2>1, <2>2, Looked DEF Midway
<1>6. CASE StopMode(p)
  <2> DEFINE l == CASE e.monitored = 0 -> "EINVAL" [] e.monitored = 1 -> "stop_del"
                    [] OTHER -> "stop_block"
  <2>1. pc[p] = "stop_mode" /\ Goto(p, l) /\ UNCHANGED <<sys_call_table, table, arg, logged>>
    BY <1>6 DEF StopMode, CalltableTest, CalltableSection
  <2>2. /\ l \in {"EINVAL", "stop_del", "stop_block"}
        /\ l = "EINVAL" <=> e.monitored = 0
        /\ l = "stop_del" <=> e.monitored = 1
        /\ l = "stop_block" <=> e.monitored = 2
    BY <1>1, <2>1
  <2> HIDE DEF l
  <2>3. l \in CommandLabels => Stage(p, l, e)
    BY <1>1, <2>1, <2>2 DEF Stage, Tested, AllPids, Owned
  <2> QED
    BY <2>1, <2>2, <2>3, Looked DEF Midway
<1>7. CASE StopAllClear(p)
  <2>1. /\ pc[p] = "stop_all_clear" /\ Goto(p, "OK")
        /\ UNCHANGED <<sys_call_table, arg, logged>> /\ SetEntry(s, DestroyList(e))
    BY <1>7 DEF StopAllClear, PidlistSection
  <2> QED
    BY <2>1, DestroyListWatch
<1>8. CASE StopDel(p)
  <2>1. pc[p] = "stop_del" /\ UNCHANGED <<sys_call_table, arg, logged>>
    BY <1>8 DEF StopDel, PidlistSection
  <2>2. CASE InList(e, q)
    BY <1>8, <2>1, <2>2, DelPidSyscWatch DEF StopDel
  <2>3. CASE ~ InList(e, q)
    BY <1>8, <2>1, <2>3, Looked DEF StopDel, Midway
  <2> QED
    BY <2>2, <2>3
<1>9. CASE StopBlock(p)
  <2>1. pc[p] = "stop_block" /\ UNCHANGED <<sys_call_table, arg, logged>>
    BY <1>9 DEF StopBlock, PidlistSection
  <2>2. CASE InList(e, q)
    BY <1>9, <2>1, <2>2, Looked DEF StopBlock, Midway
  <2>3. CASE ~ InList(e, q)
    BY <1>9, <2>1, <2>3, AddOrFailWatch DEF StopBlock, Owned, OnePid
  <2> QED
    BY <2>2, <2>3
<1> QED
  BY <1>2, <1>3, <1>4, <1>5, <1>6, <1>7, <1>8, <1>9 DEF StopStep

\* INTERCEPT and RELEASE watch nobody more; the two steps that write the system
\* call table hook a slot that is not hooked, and unhook one that is.
RootStep(p) == LET s == arg[p].sys
                   w == WatchOf(table[s])
                   v == WatchOf(table'[s]) IN
  /\ \E l : CommandMove(p, l)
  /\ \/ /\ v = w /\ Progress(p)' = Progress(p)
        /\ UNCHANGED sys_call_table
     \/ /\ v = w /\ ~ Hooked(s)
        /\ sys_call_table' = [sys_call_table EXCEPT ![s] = interceptor]
        /\ arg[p].cmd = "INTERCEPT" /\ Progress(p) = "asked" /\ Progress(p)' = "done"
     \/ /\ v = {} /\ Hooked(s)
        /\ sys_call_table' = [sys_call_table EXCEPT ![s] = Underlying(s)]
        /\ arg[p].cmd = "RELEASE" /\ Progress(p) = "asked" /\ Progress(p)' = "done"
  /\ pc'[p] = "OK" =>
       /\ UNCHANGED sys_call_table
       /\ \/ pc[p] = "intercept_mark" /\ arg[p].cmd = "INTERCEPT"
          \/ pc[p] = "release_clear" /\ arg[p].cmd = "RELEASE" /\ v = {}

\* INTERCEPT and RELEASE change a slot only when nobody is watched there.
LEMMA RootWatch ==
  ASSUME TurnInv, NEW p \in Pid, InterceptStep(p) \/ ReleaseStep(p)
  PROVE  RootStep(p)
<1> DEFINE s == arg[p].sys
           e == table[s]
<1> USE DEF CommandLabels, CallLabels, CalltableSections, PidlistSections, Unlocked, Results
<1>1. ASSUME pc[p] \in CommandLabels
      PROVE  /\ s \in 1 .. NR_syscalls /\ s \in Slot /\ e \in EntryType /\ Single(e)
             /\ Stage(p, pc[p], e) /\ table \in [Slot -> EntryType]
             /\ pc[p] \in InterceptLabels => arg[p].cmd = "INTERCEPT"
             /\ pc[p] \in ReleaseLabels => arg[p].cmd = "RELEASE"
  BY <1>1, AtStage DEF TurnInv, TypeInv, TypeOK, Permit
<1>2. CASE InterceptCheck(p) \/ ReleaseCheck(p)
  <2>1. /\ pc[p] \in {"intercept_check", "release_check"}
        /\ UNCHANGED <<sys_call_table, table, arg, logged>>
        /\ \E l \in {"EBUSY", "intercept_hook", "EINVAL", "release_unhook"} : Goto(p, l)
    BY <1>2 DEF InterceptCheck, ReleaseCheck, PidlistTest, PidlistSection
  <2>2. PICK l \in {"EBUSY", "intercept_hook", "EINVAL", "release_unhook"} : Goto(p, l)
    BY <2>1
  <2>3. l \in CommandLabels => Stage(p, l, e)
    BY <1>1, <2>1 DEF Stage, Tested, AllPids, Owned
  <2>4. /\ l \in CommandLabels \cup Results /\ pc[p] \in CommandLabels
        /\ {l, pc[p]} \cap (Midway \cup {"OK"}) = {}
    BY <2>1 DEF Midway
  <2>5. CommandStep(p)
    BY <2>1, <2>2, <2>3, <2>4, Looked
  <2>6. Progress(p)' = Progress(p) /\ pc'[p] = l
    <3>1. pc'[p] = l
      BY <2>2, <2>4, LabelsApart, GotoType DEF TurnInv, TypeInv, TypeOK
    <3> QED
      BY <2>1, <2>4, <3>1, AtStage, ProgressThen DEF Stands
  <2> QED
    BY <2>1, <2>4, <2>5, <2>6 DEF CommandStep, RootStep
<1>3. CASE InterceptHook(p)
  <2> DEFINE d == [e EXCEPT !.f = sys_call_table[s]]
  <2>1. /\ pc[p] = "intercept_hook" /\ Goto(p, "intercept_mark") /\ UNCHANGED <<arg, logged>>
        /\ table' = [table EXCEPT ![s].f = sys_call_table[s]]
        /\ sys_call_table' = [sys_call_table EXCEPT ![s] = interceptor]
    BY <1>3 DEF InterceptHook, CalltableSection
  <2>2. SetEntry(s, d)
    BY <2>1 DEF SetEntry
  <2>3. d.my_list = e.my_list /\ d.monitored = e.monitored
    BY <1>1, <2>1 DEF EntryType
  <2> HIDE DEF d
  <2>4. Single(d) /\ Quiet(d) /\ WatchOf(d) = WatchOf(e)
    BY <1>1, <2>1, <2>3 DEF Single, Quiet, Unlisted, InList, WatchOf, Stage
  <2>5. Stage(p, "intercept_mark", d)
    BY <2>4 DEF Stage, Tested, AllPids, Owned
  <2>6. /\ CommandMove(p, "intercept_mark") /\ table'[s] = d /\ pc'[p] = "intercept_mark"
        /\ Progress(p) = "asked" /\ Progress(p)' = "done"
    BY <2>1, <2>2, <2>4, <2>5, Replaced DEF Stands, Midway
  <2>7. ~ Hooked(s)
    BY <2>1 DEF TurnInv, HookInv, FlagFollowsHook
  <2> QED
    BY <1>1, <2>1, <2>4, <2>6, <2>7 DEF RootStep, InterceptLabels
<1>4. CASE InterceptMark(p)
  <2> DEFINE d == [e EXCEPT !.intercepted = 1]
  <2>1. /\ pc[p] = "intercept_mark" /\ Goto(p, "OK") /\ UNCHANGED <<sys_call_table, arg, logged>>
        /\ table' = [table EXCEPT ![s].intercepted = 1]
    BY <1>4 DEF InterceptMark, PidlistSection
  <2>2. SetEntry(s, d)
    BY <2>1 DEF SetEntry
  <2>3. d.my_list = e.my_list /\ d.monitored = e.monitored
    BY <1>1, <2>1 DEF EntryType
  <2> HIDE DEF d
  <2>4. Single(d) /\ Quiet(d) /\ WatchOf(d) = WatchOf(e)
    BY <1>1, <2>1, <2>3 DEF Single, Quiet, Unlisted, InList, WatchOf, Stage
  <2>5. /\ CommandMove(p, "OK") /\ table'[s] = d /\ pc'[p] = "OK"
        /\ Progress(p) = "done" /\ Progress(p)' = "done"
    BY <2>1, <2>2, <2>4, Replaced DEF Stands
  <2> QED
    BY <1>1, <2>1, <2>4, <2>5 DEF RootStep, InterceptLabels
<1>5. CASE ReleaseUnhook(p)
  <2> DEFINE d == [e EXCEPT !.monitored = 0]
  <2>1. /\ pc[p] = "release_unhook" /\ Goto(p, "release_clear") /\ UNCHANGED <<arg, logged>>
        /\ table' = [table EXCEPT ![s].monitored = 0]
        /\ sys_call_table' = [sys_call_table EXCEPT ![s] = e.f]
    BY <1>5 DEF ReleaseUnhook, CalltableSection
  <2>2. SetEntry(s, d)
    BY <2>1 DEF SetEntry
  <2>3. d.my_list = e.my_list /\ d.monitored = 0
    BY <1>1, <2>1 DEF EntryType
  <2> HIDE DEF d
  <2>4. Single(d) /\ WatchOf(d) = {}
    BY <1>1, <2>1, <2>3 DEF Single, WatchOf
  <2>5. Stage(p, "release_clear", d)
    BY <2>3 DEF Stage, Tested, AllPids, Owned
  <2>6. /\ CommandMove(p, "release_clear") /\ table'[s] = d /\ pc'[p] = "release_clear"
        /\ Progress(p) = "asked" /\ Progress(p)' = "done"
    BY <2>1, <2>2, <2>4, <2>5, Replaced DEF Stands, Midway
  <2>7. Hooked(s)
    BY <2>1 DEF TurnInv, HookInv, FlagFollowsHook
  <2>8. e.f = Underlying(s)
    BY <1>1, <2>1, <2>7 DEF TurnInv, HookInv, HookIntegrity, Hooked
  <2> QED
    BY <1>1, <2>1, <2>4, <2>6, <2>7, <2>8 DEF RootStep, ReleaseLabels
<1>6. CASE ReleaseClear(p)
  <2> DEFINE c == DestroyList(e)
             d == [c EXCEPT !.intercepted = 0]
  <2>1. /\ pc[p] = "release_clear" /\ Goto(p, "OK") /\ UNCHANGED <<sys_call_table, arg, logged>>
        /\ SetEntry(s, d)
    BY <1>6 DEF ReleaseClear, PidlistSection
  <2>2. e.monitored = 0
    BY <1>1, <2>1 DEF Stage
  <2>3. c \in EntryType /\ Single(c) /\ Unlisted(c) /\ c.monitored = 0
    BY <1>1, <2>1, Emptied
  <2> HIDE DEF c
  <2>4. d.my_list = c.my_list /\ d.monitored = 0
    BY <2>3 DEF EntryType
  <2> HIDE DEF d
  <2>5. Single(d) /\ Quiet(d) /\ WatchOf(d) = {} /\ WatchOf(e) = {}
    BY <2>2, <2>3, <2>4 DEF Single, Quiet, Unlisted, InList, WatchOf
  <2>6. /\ CommandMove(p, "OK") /\ table'[s] = d /\ pc'[p] = "OK"
        /\ Progress(p) = "done" /\ Progress(p)' = "done"
    BY <2>1, <2>5, Replaced DEF Stands
  <2> QED
    BY <1>1, <2>1, <2>5, <2>6 DEF RootStep, ReleaseLabels
<1> QED
  BY <1>2, <1>3, <1>4, <1>5, <1>6 DEF InterceptStep, ReleaseStep

-----------------------------------------------------------------------------
(* Calls and exits. *)

\* An exit takes the pid out of every list: it alone may be watched less or more.
LEMMA ExitWatch ==
  ASSUME TurnInv, NEW p \in Pid, table' = DelPid(p)
  PROVE  \A s \in Slot :
           /\ table'[s] \in EntryType /\ Single(table'[s])
           /\ table'[s].monitored = table[s].monitored /\ table'[s].intercepted = table[s].intercepted
           /\ \A r \in Pid : InList(table'[s], r) => InList(table[s], r)
           /\ \A r \in Pid \ {p} : InList(table'[s], r) <=> InList(table[s], r)
           /\ WatchOf(table'[s]) \ {p} = WatchOf(table[s]) \ {p}
<1> SUFFICES ASSUME NEW s \in Slot
             PROVE  /\ table'[s] \in EntryType /\ Single(table'[s])
                    /\ table'[s].monitored = table[s].monitored
                    /\ table'[s].intercepted = table[s].intercepted
                    /\ \A r \in Pid : InList(table'[s], r) => InList(table[s], r)
                    /\ \A r \in Pid \ {p} : InList(table'[s], r) <=> InList(table[s], r)
                    /\ WatchOf(table'[s]) \ {p} = WatchOf(table[s]) \ {p}
  OBVIOUS
<1> DEFINE e == table[s]
           d == DelCopies(e, p, e.my_list[p])
<1>1. e \in EntryType /\ Single(e) /\ CountedTwice(e)
  BY DEF TurnInv, TypeInv, TypeOK, Stages, AllCountedTwice
<1>2. /\ d \in EntryType /\ Single(d)
      /\ d.monitored = e.monitored /\ d.intercepted = e.intercepted
      /\ \A r \in Pid : InList(d, r) <=> InList(e, r) /\ r # p
  BY <1>1, DeletedOne
<1>3. table'[s] = d \/ table'[s] = e
  BY DEF DelPid
<1> HIDE DEF d
<1>4. /\ table'[s] \in EntryType /\ Single(table'[s])
      /\ table'[s].monitored = e.monitored /\ table'[s].intercepted = e.intercepted
      /\ \A r \in Pid : InList(table'[s], r) => InList(e, r)
      /\ \A r \in Pid \ {p} : InList(table'[s], r) <=> InList(e, r)
  BY <1>1, <1>2, <1>3
<1>5. WatchOf(table'[s]) \ {p} = WatchOf(e) \ {p}
  BY <1>4 DEF WatchOf
<1> QED
  BY <1>4, <1>5

\* So what commands know of their entries outlasts an exit.
LEMMA ExitKeepsStages ==
  ASSUME TurnInv, NEW p \in Pid, table' = DelPid(p), arg' = arg,
         \A q \in Pid : /\ pc'[q] \in CommandLabels <=> pc[q] \in CommandLabels
                        /\ pc[q] \in CommandLabels => pc'[q] = pc[q]
  PROVE  Stages'
<1>1. \A s \in Slot : /\ Single(table'[s])
                      /\ table'[s].monitored = table[s].monitored
                      /\ table'[s].intercepted = table[s].intercepted
                      /\ \A r \in Pid : InList(table'[s], r) => InList(table[s], r)
  BY ExitWatch
<1>2. \A s \in Slot : Quiet(table[s]) => Quiet(table'[s])
  BY <1>1 DEF Quiet, Unlisted
<1>3. ASSUME NEW q \in Pid, pc'[q] \in CommandLabels
      PROVE  Stage(q, pc[q], table'[arg[q].sys])
  <2>1. arg[q].sys \in Slot /\ Stage(q, pc[q], table[arg[q].sys])
    BY <1>3, AtStage
  <2> QED
    BY <1>1, <1>2, <2>1 DEF Stage, Unlisted
<1>4. \A q \in Pid : (pc[q] \in CommandLabels => Stage(q, pc[q], table[arg[q].sys]))'
  BY <1>3 DEF Stage
<1>5. \A s \in Slot : Quiet(table'[s]) \/ \E q \in Pid : pc'[q] \in CommandLabels /\ arg'[q].sys = s
  BY <1>2 DEF TurnInv, Stages
<1> QED
  BY <1>1, <1>4, <1>5 DEF Stages

\* A step that leaves the table and the commands alone.
LEMMA OthersKeepStages ==
  ASSUME TurnInv, UNCHANGED table,
         \A q \in Pid : /\ pc'[q] \in CommandLabels <=> pc[q] \in CommandLabels
                        /\ pc[q] \in CommandLabels => pc'[q] = pc[q] /\ arg'[q] = arg[q]
  PROVE  Stages'
<1>1. ASSUME NEW q \in Pid, pc'[q] \in CommandLabels
      PROVE  Stage(q, pc[q], table[arg[q].sys]) /\ arg'[q] = arg[q] /\ pc'[q] = pc[q]
  BY <1>1 DEF TurnInv, Stages
<1>2. \A q \in Pid : (pc[q] \in CommandLabels => Stage(q, pc[q], table[arg[q].sys]))'
  BY <1>1 DEF Stage
<1>3. \A s \in Slot : Quiet(table'[s]) \/ \E q \in Pid : pc'[q] \in CommandLabels /\ arg'[q].sys = s
  BY DEF TurnInv, Stages
<1> QED
  BY <1>2, <1>3 DEF TurnInv, Stages

-----------------------------------------------------------------------------
(* Monitor's state. *)

\* Who is watched is a set of pids.
LEMMA WatchTyped == \A e : WatchOf(e) \in SUBSET Pid
BY DEF WatchOf

\* What a step of p means: to Monitor, and to whoever gets p's answer.
Acknowledged(p) ==
  arg[p].cmd # "none" /\ pc[p] # "OK" /\ pc'[p] = "OK" => Accomplished(p)
Meaning(p) ==
  /\ \A r \in Pid \ {p} : pc'[r] = pc[r]
  /\ Abstract!Next \/ UNCHANGED Abstract!vars
  /\ Acknowledged(p)

\* A step that p's command takes on its own.
LEMMA CommandFrame ==
  ASSUME TurnInv, NEW p \in Pid, NEW l, CommandMove(p, l)
  PROVE  LET s == arg[p].sys IN
         /\ s \in Slot
         /\ \A r \in Pid \ {p} : pc'[r] = pc[r]
         /\ Turns' /\ Stages'
         /\ UNCHANGED <<arg, logged>>
         /\ [q \in Pid |-> Progress(q)]' = [[q \in Pid |-> Progress(q)] EXCEPT ![p] = Progress(p)']
         /\ [q \in Pid |-> pc[q] \in {"log_outer", "log_inner"}]'
              = [q \in Pid |-> pc[q] \in {"log_outer", "log_inner"}]
         /\ [t \in Slot |-> Watch(t)]' = [[t \in Slot |-> Watch(t)] EXCEPT ![s] = WatchOf(table'[s])]
<1> DEFINE s == arg[p].sys
<1>1. /\ pc[p] \in CommandLabels /\ l \in CommandLabels \cup Results /\ l \in Label
      /\ Goto(p, l) /\ UNCHANGED <<arg, logged>>
      /\ \A t \in Slot \ {s} : table'[t] = table[t]
  BY LabelsApart DEF CommandMove
<1>2. pc'[p] = l /\ \A r \in Pid \ {p} : pc'[r] = pc[r]
  BY <1>1, GotoType DEF TurnInv, TypeInv, TypeOK
<1>3. s \in Slot
  BY <1>1, AtStage
<1>4. Turns' /\ Stages'
  BY CommandKeepsTurns, CommandKeepsStages DEF TurnInv
<1>5. [q \in Pid |-> Progress(q)]' = [[q \in Pid |-> Progress(q)] EXCEPT ![p] = Progress(p)']
  <2>1. \A q \in Pid \ {p} : arg[q].cmd = "none"
    BY <1>1 DEF TurnInv, Turns
  <2>2. \A q \in Pid \ {p} : Progress(q)' = Progress(q)
    BY <1>1, <2>1 DEF Progress
  <2> QED
    BY <2>2
<1>6. \A q \in Pid : (pc'[q] \in {"log_outer", "log_inner"}) = (pc[q] \in {"log_outer", "log_inner"})
  BY <1>1, <1>2, LabelsApart DEF CallLabels
<1>7. [q \in Pid |-> pc[q] \in {"log_outer", "log_inner"}]'
        = [q \in Pid |-> pc[q] \in {"log_outer", "log_inner"}]
  BY <1>6
<1>8. [t \in Slot |-> Watch(t)]' = [[t \in Slot |-> Watch(t)] EXCEPT ![s] = WatchOf(table'[s])]
  <2>1. \A t \in Slot : Watch(t)' = IF t = s THEN WatchOf(table'[s]) ELSE Watch(t)
    BY <1>1, WatchIsOf, WatchThen
  <2> QED
    BY <2>1
<1> QED
  BY <1>1, <1>2, <1>3, <1>4, <1>5, <1>7, <1>8

\* An effect on the hooks and the watched is a step of Monitor.
LEMMA EffectIsNext ==
  ASSUME NEW p \in Pid, NEW s \in Slot, Abstract!Effect(p, s)
  PROVE  Abstract!Next
BY DEF Abstract!Next

\* START and STOP.
LEMMA CommandMeans ==
  ASSUME TurnInv, NEW p \in Pid, CommandStep(p), UNCHANGED sys_call_table,
         pc[p] \in StartLabels \cup StopLabels
  PROVE  Turns' /\ Stages' /\ Meaning(p)
<1> DEFINE s == arg[p].sys
           q == arg[p].pid
           w == Watch(s)
           v == WatchOf(table'[s])
           W == [t \in Slot |-> Watch(t)]
           H == [t \in Slot |-> sys_call_table[t] = interceptor]
           P == [o \in Pid |-> Progress(o)]
           D == [o \in Pid |-> pc[o] \in {"log_outer", "log_inner"}]
<1>1. PICK l : CommandMove(p, l)
  BY DEF CommandStep
<1>2. /\ s \in Slot
      /\ \A r \in Pid \ {p} : pc'[r] = pc[r]
      /\ Turns' /\ Stages'
      /\ UNCHANGED <<arg, logged>>
      /\ P' = [P EXCEPT ![p] = Progress(p)']
      /\ D' = D
      /\ W' = [W EXCEPT ![s] = v]
  BY <1>1, CommandFrame
<1>3. W[s] = w /\ H' = H /\ w = WatchOf(table[s]) /\ P[p] = Progress(p)
  BY <1>2, WatchIsOf
<1>4. pc[p] \in Tested => H[s]
  <2> SUFFICES ASSUME pc[p] \in Tested, ~ Hooked(s) PROVE FALSE
    BY <1>2 DEF Hooked
  <2>1. pc[p] \in CommandLabels
    BY <1>1 DEF CommandMove
  <2>2. s \in 1 .. NR_syscalls /\ Marked(s)
    BY <2>1, AtStage DEF Stage, Marked
  <2>3. PICK r \in Pid : pc[r] = "release_clear"
    BY <2>2 DEF TurnInv, HookInv, FlagFollowsHook
  <2>4. "release_clear" \in CommandLabels
    BY DEF CommandLabels, CallLabels, PidlistSections
  <2>5. arg[r].cmd # "none" /\ arg[p].cmd # "none"
    BY <2>1, <2>3, <2>4 DEF TurnInv, Turns
  <2>6. r = p
    BY <2>5 DEF TurnInv, Turns
  <2> QED
    BY <2>3, <2>6 DEF Tested, AllPids, Owned
<1>5. Watch(s)' = v
  BY <1>2 DEF Watch, WatchOf, Monitored
<1>6. Acknowledged(p)
  <2> SUFFICES ASSUME pc'[p] = "OK" PROVE Accomplished(p)
    BY DEF Acknowledged
  <2>1. pc[p] \notin {"OK", "intercept_mark", "release_clear"} /\ arg[p].cmd # "none"
    BY DEF StartLabels, StopLabels, TurnInv, Permitted, Permit
  <2>2. Progress(p) # "done" /\ Progress(p)' = "done"
    <3>1. Progress(p)' = "done"
      BY <1>2, <2>1, ProgressThen DEF Stands
    <3>2. Progress(p) # "done"
      BY <2>1 DEF Progress, CommandProgress
    <3> QED
      BY <3>1, <3>2
  <2>3. \/ arg[p].cmd = "START" /\ q \in Pid /\ q \in v
        \/ arg[p].cmd = "START" /\ q \in Pid /\ Progress(p) = "overtaken"
        \/ arg[p].cmd = "START" /\ q = NoPid /\ v = Pid
        \/ arg[p].cmd = "STOP" /\ q \in Pid /\ q \notin v
        \/ arg[p].cmd = "STOP" /\ q = NoPid /\ v = {}
    <3> HIDE DEF v, w, q
    <3>1. w \in SUBSET Pid
      BY <1>3, WatchTyped
    <3> QED
      BY <1>3, <2>2, <3>1 DEF CommandStep, Rewatched, v, q
  <2>4. Pid \subseteq Nat \ {0}
    BY ConstantsAssumption
  <2> QED
    BY <1>2, <1>5, <2>3, <2>4 DEF Accomplished
<1>7. Abstract!Next \/ UNCHANGED Abstract!vars
  <2> DEFINE Goes(cmd, from, to) == arg[p].cmd = cmd /\ P[p] = from /\ P' = [P EXCEPT ![p] = to]
             Rest == s \in Slot /\ H[s] /\ H' = H /\ arg' = arg /\ logged' = logged /\ D' = D
  <2>1. CASE v = w /\ Progress(p)' = Progress(p)
    <3>1. W' = W /\ P' = P
      BY <1>2, <1>3, <2>1
    <3> QED
      BY <1>2, <1>3, <3>1 DEF Abstract!vars
  <2>2. ASSUME pc[p] \in Tested PROVE Rest
    BY <1>2, <1>3, <1>4, <2>2
  <2>3. ASSUME NEW cmd, NEW from, NEW to, pc[p] \in Tested,
               arg[p].cmd = cmd, Progress(p) = from, Progress(p)' = to
        PROVE  Abstract!Act(p, cmd, s, from, to)
    BY <1>2, <1>3, <2>2, <2>3 DEF Abstract!Act
  <2>4. ASSUME NEW Q, pc[p] \in Tested, v = Q PROVE Abstract!Rewatch(s, Q)
    BY <1>2, <2>2, <2>4 DEF Abstract!Rewatch
  <2>5. CASE pc[p] \in Tested
    <3> DEFINE c == arg[p].cmd
               f == Progress(p)
               g == Progress(p)'
    <3>1. CASE c = "START" /\ f = "asked" /\ g = "done" /\ q \in Pid \ w /\ v = w \cup {q}
      <4>1. Abstract!StartOne(p, s)
        BY <1>3, <2>3, <2>4, <2>5, <3>1 DEF Abstract!StartOne
      <4> QED
        BY <1>2, <4>1, EffectIsNext DEF Abstract!Effect
    <3>2. CASE c = "STOP" /\ f = "asked" /\ g = "done" /\ q \in w /\ v = w \ {q}
      <4>1. Abstract!StopOne(p, s)
        BY <1>3, <2>3, <2>4, <2>5, <3>2 DEF Abstract!StopOne
      <4> QED
        BY <1>2, <4>1, EffectIsNext DEF Abstract!Effect
    <3>3. CASE c = "STOP" /\ f = "asked" /\ g = "done" /\ q = NoPid /\ v = {}
      <4>1. Abstract!StopAll(p, s)
        BY <2>3, <2>4, <2>5, <3>3 DEF Abstract!StopAll
      <4> QED
        BY <1>2, <4>1, EffectIsNext DEF Abstract!Effect
    <3>4. CASE c = "START" /\ f = "asked" /\ g = "emptied" /\ q = NoPid /\ v = {}
      <4>1. Abstract!Empty(p, s)
        BY <2>3, <2>4, <2>5, <3>4 DEF Abstract!Empty
      <4> QED
        BY <1>2, <4>1, EffectIsNext DEF Abstract!Effect
    <3>5. CASE c = "START" /\ f = "emptied" /\ g = "done" /\ q = NoPid /\ v = Pid
      <4>1. Abstract!Fill(p, s)
        BY <2>3, <2>4, <2>5, <3>5 DEF Abstract!Fill
      <4> QED
        BY <1>2, <4>1, EffectIsNext DEF Abstract!Effect
    <3>6. CASE c = "START" /\ f = "asked" /\ g = "taken" /\ q \in Pid /\ w = {} /\ v = {}
      <4>1. Abstract!Take(p, s)
        BY <1>3, <2>3, <2>4, <2>5, <3>6 DEF Abstract!Take
      <4> QED
        BY <1>2, <4>1, EffectIsNext DEF Abstract!Effect
    <3>7. CASE c = "START" /\ f = "taken" /\ g = "done" /\ q \in Pid /\ v = {q}
      <4>1. Abstract!Finish(p, s)
        BY <2>3, <2>4, <2>5, <3>7 DEF Abstract!Finish
      <4> QED
        BY <1>2, <4>1, EffectIsNext DEF Abstract!Effect
    <3>8. CASE c = "START" /\ f = "overtaken" /\ g = "done" /\ q \in Pid /\ v = {}
      <4>1. Abstract!Finish(p, s)
        BY <2>3, <2>4, <2>5, <3>8 DEF Abstract!Finish
      <4> QED
        BY <1>2, <4>1, EffectIsNext DEF Abstract!Effect
    <3>9. w = WatchOf(table[s])
      BY <1>3
    <3> QED
      BY <2>1, <3>1, <3>2, <3>3, <3>4, <3>5, <3>6, <3>7, <3>8, <3>9 DEF CommandStep, Rewatched
  <2>6. CASE pc[p] \notin Tested
    BY <1>3, <2>1, <2>6 DEF CommandStep, Rewatched
  <2> QED
    BY <2>5, <2>6
<1> QED
  BY <1>2, <1>6, <1>7 DEF Meaning

\* INTERCEPT and RELEASE.
LEMMA RootMeans ==
  ASSUME TurnInv, NEW p \in Pid, RootStep(p)
  PROVE  Turns' /\ Stages' /\ Meaning(p)
<1> DEFINE s == arg[p].sys
           v == WatchOf(table'[s])
           W == [t \in Slot |-> Watch(t)]
           H == [t \in Slot |-> sys_call_table[t] = interceptor]
           P == [o \in Pid |-> Progress(o)]
           D == [o \in Pid |-> pc[o] \in {"log_outer", "log_inner"}]
<1>1. PICK l : CommandMove(p, l)
  BY DEF RootStep
<1>2. /\ s \in Slot
      /\ \A r \in Pid \ {p} : pc'[r] = pc[r]
      /\ Turns' /\ Stages'
      /\ UNCHANGED <<arg, logged>>
      /\ P' = [P EXCEPT ![p] = Progress(p)']
      /\ D' = D
      /\ W' = [W EXCEPT ![s] = v]
  BY <1>1, CommandFrame
<1>3. Watch(s) = WatchOf(table[s]) /\ Watch(s)' = v
  BY <1>2, WatchIsOf DEF Watch, WatchOf, Monitored
<1>4. Acknowledged(p)
  <2> SUFFICES ASSUME pc'[p] = "OK" PROVE Accomplished(p)
    BY DEF Acknowledged
  <2>1. UNCHANGED sys_call_table
    BY DEF RootStep
  <2>2. CASE pc[p] = "intercept_mark" /\ arg[p].cmd = "INTERCEPT"
    <3>1. Hooked(s)
      BY <2>2 DEF TurnInv, HookInv, FlagFollowsHook
    <3> QED
      BY <1>2, <2>1, <2>2, <3>1 DEF Accomplished, Hooked
  <2>3. CASE pc[p] = "release_clear" /\ arg[p].cmd = "RELEASE" /\ v = {}
    <3>1. ~ Hooked(s)
      BY <2>3 DEF TurnInv, HookInv, FlagFollowsHook
    <3> QED
      BY <1>2, <1>3, <2>1, <2>3, <3>1 DEF Accomplished, Hooked
  <2> QED
    BY <2>2, <2>3 DEF RootStep
<1>5. sys_call_table \in [Slot -> Function]
  BY DEF TurnInv, TypeInv, TypeOK
<1>6. Abstract!Next \/ UNCHANGED Abstract!vars
  <2>1. CASE v = Watch(s) /\ Progress(p)' = Progress(p) /\ UNCHANGED sys_call_table
    <3>1. W' = W /\ H' = H /\ P' = P
      BY <1>2, <2>1
    <3> QED
      BY <1>2, <3>1 DEF Abstract!vars
  <2>2. CASE /\ v = Watch(s) /\ ~ Hooked(s)
             /\ sys_call_table' = [sys_call_table EXCEPT ![s] = interceptor]
             /\ arg[p].cmd = "INTERCEPT" /\ Progress(p) = "asked" /\ Progress(p)' = "done"
    <3>1. W' = W /\ H' = [H EXCEPT ![s] = TRUE] /\ ~ H[s]
      BY <1>2, <1>5, <2>2 DEF Hooked
    <3>2. Abstract!Hook(p, s)
      BY <1>2, <2>2, <3>1 DEF Abstract!Hook, Abstract!Act
    <3>3. Abstract!Effect(p, s)
      BY <3>2 DEF Abstract!Effect
    <3> QED
      BY <1>2, <3>3, EffectIsNext
  <2>3. CASE /\ v = {} /\ Hooked(s)
             /\ sys_call_table' = [sys_call_table EXCEPT ![s] = Underlying(s)]
             /\ arg[p].cmd = "RELEASE" /\ Progress(p) = "asked" /\ Progress(p)' = "done"
    <3>1. Underlying(s) # interceptor
      BY <1>2, UnderlyingFunction
    <3>2. W' = [W EXCEPT ![s] = {}] /\ H' = [H EXCEPT ![s] = FALSE] /\ H[s]
      BY <1>2, <1>5, <2>3, <3>1 DEF Hooked
    <3>3. Abstract!Unhook(p, s)
      BY <1>2, <2>3, <3>2 DEF Abstract!Unhook, Abstract!Act
    <3>4. Abstract!Effect(p, s)
      BY <3>3 DEF Abstract!Effect
    <3> QED
      BY <1>2, <3>4, EffectIsNext
  <2> QED
    BY <1>3, <2>1, <2>2, <2>3 DEF RootStep
<1> QED
  BY <1>2, <1>4, <1>6 DEF Meaning

\* A step of a process that is in no command is no answer, and if the table stays
\* the same it touches nobody's standing.
LEMMA Aside ==
  ASSUME TurnInv, NEW p \in Pid, pc[p] \notin CommandLabels, arg[p].cmd = "none" \/ pc'[p] # "OK"
  PROVE  /\ Acknowledged(p)
         /\ UNCHANGED table => [t \in Slot |-> Watch(t)]' = [t \in Slot |-> Watch(t)]
<1>1. Acknowledged(p)
  BY DEF Acknowledged
<1>2. UNCHANGED table => \A t : Watch(t)' = Watch(t)
  BY WatchIsOf, WatchThen
<1> QED
  BY <1>1, <1>2

\* Nor does it move another's command.
LEMMA OthersProgress ==
  ASSUME NEW p \in Pid, UNCHANGED table,
         \A r \in Pid \ {p} : pc'[r] = pc[r] /\ arg'[r] = arg[r]
  PROVE  \A r \in Pid \ {p} : Progress(r)' = Progress(r)
BY DEF Progress, InList

\* Only an exit_group goes through my_exit_group.
LEMMA ExitLabel ==
  /\ \A s \in 1 .. NR_syscalls : AfterCall(Underlying(s)) = "exit_del" => s = NR_exit_group
  /\ AfterCall(interceptor) # "exit_del"
BY ConstantsAssumption
   DEF AfterCall, Underlying, interceptor, my_exit_group, my_syscall, NULL, MY_CUSTOM_SYSCALL

\* A step inside a call.
LEMMA CallFrame ==
  ASSUME TurnInv, NEW p \in Pid, pc[p] \in CallLabels, NEW l \in CallLabels \cup Results, Goto(p, l),
         UNCHANGED arg, \A q \in Pid \ {p} : logged'[q] = logged[q],
         l = "exit_del" => arg[p].sys = NR_exit_group
  PROVE  /\ Turns'
         /\ pc'[p] = l /\ \A r \in Pid \ {p} : pc'[r] = pc[r]
         /\ \A q \in Pid : /\ pc'[q] \in CommandLabels <=> pc[q] \in CommandLabels
                           /\ pc[q] \in CommandLabels => pc'[q] = pc[q] /\ arg'[q] = arg[q]
         /\ UNCHANGED table => [q \in Pid |-> Progress(q)]' = [q \in Pid |-> Progress(q)]
<1>1. pc'[p] = l /\ \A r \in Pid \ {p} : pc'[r] = pc[r]
  BY LabelsApart, GotoType DEF TurnInv, TypeInv, TypeOK
<1>2. Turns'
  BY <1>1, LabelsApart DEF TurnInv, Turns
<1>3. \A q \in Pid : /\ pc'[q] \in CommandLabels <=> pc[q] \in CommandLabels
                     /\ pc[q] \in CommandLabels => pc'[q] = pc[q] /\ arg'[q] = arg[q]
  BY <1>1, LabelsApart
<1>4. ASSUME UNCHANGED table
      PROVE  [q \in Pid |-> Progress(q)]' = [q \in Pid |-> Progress(q)]
  <2>1. Progress(p)' = Progress(p)
    BY DEF TurnInv, Turns, Progress
  <2>2. \A q \in Pid \ {p} : Progress(q)' = Progress(q)
    BY <1>1, <1>4, OthersProgress
  <2> QED
    BY <2>1, <2>2
<1> QED
  BY <1>1, <1>2, <1>3, <1>4

\* The interceptor, my_exit_group and the return to the process.
LEMMA CallMeans ==
  ASSUME TurnInv, NEW p \in Pid, CallStep(p)
  PROVE  Turns' /\ Stages' /\ Meaning(p)
<1> DEFINE s == arg[p].sys
           W == [t \in Slot |-> Watch(t)]
           H == [t \in Slot |-> sys_call_table[t] = interceptor]
           P == [q \in Pid |-> Progress(q)]
           D == [q \in Pid |-> pc[q] \in {"log_outer", "log_inner"}]
<1>1. /\ logged \in [Pid -> BOOLEAN] /\ arg \in [Pid -> [cmd : Command \cup {"none"}, sys : Target \cup Slot, pid : PidArg]]
      /\ pc \in [Pid -> Label]
  BY DEF TurnInv, TypeInv, TypeOK
<1>2. ASSUME pc[p] \in CallLabels
      PROVE  /\ pc[p] \notin CommandLabels /\ pc[p] \notin Results
             /\ arg[p].cmd = "none" /\ s \in 1 .. NR_syscalls - 1 /\ s \in Slot
  BY <1>2, LabelsApart DEF TurnInv, Turns, Slot
<1>3. CASE LogOuter(p)
  <2>1. /\ pc[p] = "log_outer" /\ Goto(p, "log_inner")
        /\ UNCHANGED <<sys_call_table, table, arg, logged>>
    BY <1>3 DEF LogOuter
  <2>2. pc[p] \in CallLabels /\ "log_inner" \in CallLabels
    BY <2>1 DEF CallLabels
  <2>3. /\ Turns' /\ P' = P
        /\ pc'[p] = "log_inner" /\ \A r \in Pid \ {p} : pc'[r] = pc[r]
    BY <2>1, <2>2, CallFrame
  <2>4. Stages'
    BY <2>1, <2>2, CallFrame, OthersKeepStages
  <2>5. D' = D
    BY <2>1, <2>3
  <2>6. W' = W /\ H' = H /\ Acknowledged(p)
    BY <1>2, <2>1, <2>2, Aside
  <2> QED
    BY <2>1, <2>3, <2>4, <2>5, <2>6 DEF Meaning, Abstract!vars
<1>4. CASE LogInner(p)
  <2>1. /\ pc[p] = "log_inner" /\ Goto(p, "call")
        /\ UNCHANGED <<sys_call_table, table, arg>>
        /\ logged' = [logged EXCEPT ![p] = Monitored(s, p)]
    BY <1>4 DEF LogInner
  <2>2. pc[p] \in CallLabels /\ "call" \in CallLabels
    BY <2>1 DEF CallLabels
  <2>3. \A q \in Pid \ {p} : logged'[q] = logged[q]
    BY <1>1, <2>1
  <2>4. /\ Turns' /\ P' = P
        /\ pc'[p] = "call" /\ \A r \in Pid \ {p} : pc'[r] = pc[r]
    BY <2>1, <2>2, <2>3, CallFrame
  <2>5. Stages'
    BY <2>1, <2>2, <2>3, CallFrame, OthersKeepStages
  <2>6. D' = [D EXCEPT ![p] = FALSE] /\ D[p]
    <3>1. (pc'[p] \in {"log_outer", "log_inner"}) = FALSE
      BY <2>4
    <3>2. \A q \in Pid \ {p} : (pc'[q] \in {"log_outer", "log_inner"})
                               = (pc[q] \in {"log_outer", "log_inner"})
      BY <2>4
    <3> QED
      BY <2>1, <3>1, <3>2
  <2>7. W' = W /\ H' = H /\ Acknowledged(p)
    BY <1>2, <2>1, <2>2, Aside
  <2>8. Monitored(s, p) = (p \in W[s])
    <3>1. W[s] = Watch(s)
      BY <1>2, <2>2
    <3>2. Monitored(s, p) \in BOOLEAN
      BY DEF Monitored
    <3>3. p \in Watch(s) <=> Monitored(s, p)
      BY DEF Watch
    <3> HIDE DEF W
    <3> QED
      BY <3>1, <3>2, <3>3
  <2>9. logged' = [logged EXCEPT ![p] = p \in W[s]]
    BY <2>1, <2>8
  <2>10. Abstract!Record(p)
    BY <2>1, <2>4, <2>6, <2>7, <2>9 DEF Abstract!Record
  <2>11. Abstract!Next
    BY <2>10 DEF Abstract!Next
  <2> QED
    BY <2>4, <2>5, <2>7, <2>11 DEF Meaning
<1>5. CASE CallOriginal(p)
  <2> DEFINE l == AfterCall(table[s].f)
  <2>1. /\ pc[p] = "call" /\ Goto(p, l)
        /\ UNCHANGED <<sys_call_table, table, arg, logged>>
    BY <1>5 DEF CallOriginal, UnlockedTest
  <2>2. pc[p] \in CallLabels
    BY <2>1 DEF CallLabels
  <2>3. table[s].f = Underlying(s) /\ Underlying(s) # interceptor
    BY <1>2, <2>1, <2>2, UnderlyingFunction DEF TurnInv, HookInv, HookIntegrity, Intercepted
  <2>4. l \in {"exit_del", "killed", "OK"}
    BY <2>3 DEF AfterCall
  <2>5. l = "exit_del" => s = NR_exit_group
    BY <1>2, <2>2, <2>3, ExitLabel DEF Slot
  <2> HIDE DEF l
  <2>6. l \in CallLabels \cup Results
    BY <2>4 DEF CallLabels, Results
  <2>7. /\ Turns' /\ P' = P
        /\ pc'[p] = l /\ \A r \in Pid \ {p} : pc'[r] = pc[r]
    BY <2>1, <2>2, <2>6, <2>5, CallFrame
  <2>8. Stages'
    BY <2>1, <2>2, <2>6, <2>5, CallFrame, OthersKeepStages
  <2>9. D' = D
    BY <2>1, <2>4, <2>7
  <2>10. W' = W /\ H' = H /\ Acknowledged(p)
    BY <1>2, <2>1, <2>2, Aside
  <2> QED
    BY <2>1, <2>7, <2>8, <2>9, <2>10 DEF Meaning, Abstract!vars
<1>6. CASE ExitDel(p)
  <2>1. /\ pc[p] = "exit_del" /\ Goto(p, "exit_call")
        /\ UNCHANGED <<sys_call_table, arg, logged>> /\ table' = DelPid(p)
    BY <1>6 DEF ExitDel, PidlistSection
  <2>2. pc[p] \in CallLabels /\ "exit_call" \in CallLabels
    BY <2>1 DEF CallLabels
  <2>3. /\ Turns'
        /\ pc'[p] = "exit_call" /\ \A r \in Pid \ {p} : pc'[r] = pc[r]
    BY <2>1, <2>2, CallFrame
  <2>4. Stages'
    BY <2>1, <2>2, CallFrame, ExitKeepsStages
  <2>5. D' = D
    BY <2>1, <2>3
  <2>6. \A t \in Slot : WatchOf(table'[t]) \ {p} = WatchOf(table[t]) \ {p}
    BY <2>1, ExitWatch
  <2>7. \A t \in Slot : Watch(t)' \ {p} = Watch(t) \ {p} /\ Watch(t)' \in SUBSET Pid
    BY <2>6, WatchIsOf, WatchThen, WatchTyped
  <2>8. Acknowledged(p) /\ arg[p].cmd = "none" /\ arg[p].sys = NR_exit_group
    BY <1>2, <2>1, <2>2, Aside DEF TurnInv, Turns
  <2>9. W' \in [Slot -> SUBSET Pid] /\ \A t \in Slot : W'[t] \ {p} = W[t] \ {p}
    BY <2>7
  <2>10. H' = H
    BY <2>1
  <2>11. \A t \in Slot, q \in Pid :
           /\ InList(table'[t], q) => InList(table[t], q)
           /\ q # p => (InList(table'[t], q) <=> InList(table[t], q))
    <3> HIDE DEF W, H, P, D, s
    <3> QED
      BY <2>1, ExitWatch
  <2>12. ASSUME NEW r \in Pid
         PROVE  \/ Progress(r)' = Progress(r)
                \/ Progress(r) = "taken" /\ Progress(r)' = "overtaken" /\ arg[r].pid = p
    <3> DEFINE t == arg[r].sys
               q == arg[r].pid
    <3>1. CASE arg[r].cmd = "none"
      BY <2>1, <3>1 DEF Progress
    <3>2. CASE arg[r].cmd # "none"
      <4>1. pc'[r] = pc[r]
        BY <2>3, <2>8, <3>2
      <4>2. CASE pc[r] = "start_first_set"
        <5>1. pc[r] \in CommandLabels
          BY <4>2 DEF CommandLabels, CallLabels, CalltableSections
        <5>2. t \in Slot /\ q \in Pid
          BY <4>2, <5>1, AtStage DEF TurnInv, Permitted, Permit, Owned
        <5>3. /\ InList(table'[t], q) => InList(table[t], q)
              /\ q # p => (InList(table'[t], q) <=> InList(table[t], q))
          BY <2>11, <5>2
        <5>4. /\ Stands(pc[r], InList(table[t], q), Progress(r))
              /\ Stands(pc'[r], InList(table'[t], q), Progress(r)')
          BY <2>1, <3>2, ProgressThen
        <5> QED
          BY <4>1, <4>2, <5>3, <5>4 DEF Stands
      <4>3. CASE pc[r] # "start_first_set"
        BY <2>1, <3>2, <4>1, <4>3 DEF Progress, CommandProgress
      <4> QED
        BY <4>2, <4>3
    <3> QED
      BY <3>1, <3>2
  <2> DEFINE R == {r \in Pid : P[r] = "taken" /\ P'[r] = "overtaken" /\ arg[r].pid = p}
  <2>13. P' = [r \in Pid |-> IF r \in R THEN "overtaken" ELSE P[r]]
    BY <2>12
  <2>14. R \in SUBSET {r \in Pid : P[r] = "taken" /\ arg[r].pid = p}
    OBVIOUS
  <2> HIDE DEF R
  <2>15. ~ D[p]
    BY <2>1
  <2>16. Abstract!Forget(p)
    BY <2>1, <2>5, <2>8, <2>9, <2>10, <2>13, <2>14, <2>15 DEF Abstract!Forget
  <2>17. Abstract!Next
    BY <2>16 DEF Abstract!Next
  <2> QED
    BY <2>3, <2>4, <2>8, <2>17 DEF Meaning
<1>7. CASE ExitCall(p)
  <2>1. AfterCall(orig_exit_group) = "OK"
    BY DEF AfterCall, orig_exit_group, interceptor, my_exit_group, NULL
  <2>2. /\ pc[p] = "exit_call" /\ Goto(p, "OK")
        /\ UNCHANGED <<sys_call_table, table, arg, logged>>
    BY <1>7, <2>1 DEF ExitCall, UnlockedTest
  <2>3. pc[p] \in CallLabels /\ "OK" \in Results
    BY <2>2 DEF CallLabels, Results
  <2>4. /\ Turns' /\ P' = P
        /\ pc'[p] = "OK" /\ \A r \in Pid \ {p} : pc'[r] = pc[r]
    BY <2>2, <2>3, CallFrame
  <2>5. Stages'
    BY <2>2, <2>3, CallFrame, OthersKeepStages
  <2>6. D' = D
    BY <2>2, <2>4
  <2>7. W' = W /\ H' = H /\ Acknowledged(p)
    BY <1>2, <2>2, <2>3, Aside
  <2> QED
    BY <2>2, <2>4, <2>5, <2>6, <2>7 DEF Meaning, Abstract!vars
<1>8. CASE Return(p)
  <2>1. /\ pc[p] \in Results /\ UNCHANGED <<sys_call_table, table>>
        /\ Goto(p, IF pc[p] = "killed" THEN "dead" ELSE "idle")
        /\ arg' = [arg EXCEPT ![p] = NoCall] /\ logged' = [logged EXCEPT ![p] = FALSE]
    BY <1>8 DEF Return
  <2>2. /\ pc'[p] \in {"idle", "dead"} /\ \A r \in Pid \ {p} : pc'[r] = pc[r]
        /\ arg'[p] = NoCall /\ \A r \in Pid \ {p} : arg'[r] = arg[r]
        /\ ~ logged'[p] /\ \A r \in Pid \ {p} : logged'[r] = logged[r]
    BY <1>1, <2>1 DEF Goto
  <2>3. /\ pc[p] \notin CommandLabels /\ pc'[p] \notin CommandLabels
        /\ pc[p] \notin {"idle", "dead"} \cup CallLabels
    BY <2>1, <2>2, LabelsApart
  <2>4. Turns'
    <3>1. NoCall.cmd = "none"
      BY DEF NoCall
    <3> QED
      BY <2>2, <2>3, <3>1, LabelsApart DEF TurnInv, Turns
  <2>5. Stages'
    BY <2>1, <2>2, <2>3, OthersKeepStages
  <2>6. \A q \in Pid : (pc'[q] \in {"log_outer", "log_inner"}) = (pc[q] \in {"log_outer", "log_inner"})
    BY <2>1, <2>2 DEF Results
  <2>7. D' = D /\ ~ D[p]
    BY <2>1, <2>6 DEF Results
  <2>8. W' = W /\ H' = H /\ Acknowledged(p)
    BY <2>1, <2>2, <2>3, Aside
  <2>9. P' = [P EXCEPT ![p] = "idle"]
    <3>1. \A r \in Pid \ {p} : Progress(r)' = Progress(r)
      BY <2>1, <2>2, OthersProgress
    <3>2. Progress(p)' = "idle"
      BY <2>2 DEF Progress, NoCall
    <3> QED
      BY <3>1, <3>2
  <2>10. CASE arg[p].cmd = "none"
    <3>1. s \in 1 .. NR_syscalls - 1 /\ P[p] = "idle"
      BY <2>3, <2>10 DEF TurnInv, Turns, Progress
    <3>2. arg[p] # NoCall
      BY <3>1 DEF NoCall, MY_CUSTOM_SYSCALL
    <3>3. P' = P
      BY <2>9, <3>1
    <3>4. Abstract!Leave(p)
      BY <2>1, <2>7, <2>8, <2>10, <3>2, <3>3 DEF Abstract!Leave
    <3>5. Abstract!Next
      BY <3>4 DEF Abstract!Next
    <3> QED
      BY <2>2, <2>4, <2>5, <2>8, <3>5 DEF Meaning
  <2>11. CASE arg[p].cmd # "none"
    <3>1. ~ logged[p]
      BY <2>11 DEF TurnInv, Turns
    <3>2. logged' = logged
      BY <1>1, <2>1, <3>1
    <3>3. P[p] \in {"asked", "done"}
      BY <2>1, <2>11 DEF Progress, CommandProgress, Results
    <3>4. Abstract!Answer(p)
      BY <2>1, <2>7, <2>8, <2>9, <3>2, <3>3 DEF Abstract!Answer
    <3>5. Abstract!Next
      BY <3>4 DEF Abstract!Next
    <3> QED
      BY <2>2, <2>4, <2>5, <2>8, <3>5 DEF Meaning
  <2> QED
    BY <2>10, <2>11
<1> QED
  BY <1>3, <1>4, <1>5, <1>6, <1>7, <1>8 DEF CallStep

-----------------------------------------------------------------------------
(* Users and the scheduler. *)

\* System calls, exits, deaths and new processes are steps of Monitor.
LEMMA EnvironmentMeans ==
  ASSUME MaxInFlight = 1, TurnInv, NEW p \in Pid, Environment(p)
  PROVE  Turns' /\ Stages' /\ Meaning(p)
<1> DEFINE W == [t \in Slot |-> Watch(t)]
           H == [t \in Slot |-> sys_call_table[t] = interceptor]
           P == [q \in Pid |-> Progress(q)]
           D == [q \in Pid |-> pc[q] \in {"log_outer", "log_inner"}]
<1>1. /\ arg \in [Pid -> [cmd : Command \cup {"none"}, sys : Target \cup Slot, pid : PidArg]]
      /\ pc \in [Pid -> Label] /\ sys_call_table \in [Slot -> Function]
  BY DEF TurnInv, TypeInv, TypeOK
<1>2. ASSUME pc[p] \in {"idle", "dead"}
      PROVE  /\ pc[p] \notin CommandLabels \cup CallLabels \cup Results
             /\ arg[p] = NoCall /\ arg[p].cmd = "none" /\ ~ logged[p] /\ P[p] = "idle"
  BY <1>2, LabelsApart DEF TurnInv, Turns, Progress, NoCall
<1>3. ASSUME NEW s \in 1 .. NR_syscalls - 1, Dispatch(p, s) PROVE Turns' /\ Stages' /\ Meaning(p)
  <2> DEFINE l == AfterCall(sys_call_table[s])
  <2>1. /\ pc[p] = "idle" /\ UNCHANGED <<sys_call_table, table, logged>>
        /\ Goto(p, l) /\ arg' = [arg EXCEPT ![p].sys = s]
    BY <1>3 DEF Dispatch
  <2>2. s \in Slot /\ l \in {"log_outer", "exit_del", "killed", "OK"}
    BY <1>1, AfterCallLabel DEF Slot
  <2>3. (l = "log_outer") = (sys_call_table[s] = interceptor)
    <3>1. interceptor \notin {my_exit_group, NULL, NR_exit_group}
      BY ConstantsAssumption DEF interceptor, my_exit_group, NULL, Slot
    <3>2. \A fn \in Function : (AfterCall(fn) = "log_outer") = (fn = interceptor)
      BY <3>1 DEF AfterCall
    <3> QED
      BY <1>1, <2>2, <3>2
  <2>4. l = "exit_del" => s = NR_exit_group
    <3>1. s \in 1 .. NR_syscalls /\ sys_call_table[s] \in {Underlying(s), interceptor}
      BY ConstantsAssumption DEF TurnInv, HookInv, HookIntegrity
    <3> QED
      BY <3>1, ExitLabel
  <2> HIDE DEF l
  <2>5. /\ arg'[p].cmd = "none" /\ arg'[p].sys = s /\ \A r \in Pid \ {p} : arg'[r] = arg[r]
    BY <1>1, <1>2, <2>1 DEF NoCall
  <2>6. pc'[p] = l /\ \A r \in Pid \ {p} : pc'[r] = pc[r]
    BY <1>1, <2>1 DEF Goto
  <2>7. l \in CallLabels \cup Results /\ l \notin CommandLabels \cup {"idle", "dead"}
    BY <2>2, LabelsApart DEF CallLabels, Results
  <2>8. Turns'
    BY <1>2, <2>1, <2>5, <2>6, <2>7, <2>4 DEF TurnInv, Turns
  <2>9. Stages'
    BY <1>2, <2>1, <2>5, <2>6, <2>7, OthersKeepStages
  <2>10. W' = W /\ H' = H /\ Acknowledged(p)
    BY <1>2, <2>1, Aside
  <2>11. P' = P
    <3>1. \A r \in Pid \ {p} : Progress(r)' = Progress(r)
      BY <2>1, <2>5, <2>6, OthersProgress
    <3>2. Progress(p)' = Progress(p)
      BY <1>2, <2>1, <2>5 DEF Progress
    <3> QED
      BY <3>1, <3>2
  <2>12. D' = [D EXCEPT ![p] = H[s]]
    <3>1. (pc'[p] \in {"log_outer", "log_inner"}) = (sys_call_table[s] = interceptor)
      <4>1. (l \in {"log_outer", "log_inner"}) = (l = "log_outer")
        BY <2>2
      <4> QED
        BY <2>3, <2>6, <4>1
    <3>2. \A q \in Pid : (pc'[q] \in {"log_outer", "log_inner"})
                         = IF q = p THEN sys_call_table[s] = interceptor
                                    ELSE pc[q] \in {"log_outer", "log_inner"}
      BY <2>6, <3>1
    <3> QED
      BY <2>2, <3>2
  <2>13. Abstract!Enter(p, s)
    BY <1>2, <2>1, <2>10, <2>11, <2>12 DEF Abstract!Enter
  <2>14. Abstract!Next
    BY <2>2, <2>13 DEF Abstract!Next
  <2> QED
    BY <2>6, <2>8, <2>9, <2>10, <2>14 DEF Meaning
<1>4. ASSUME NEW cmd \in Command, NEW s \in Target, NEW o \in PidArg, MySyscall(p, cmd, s, o)
      PROVE  Turns' /\ Stages' /\ Meaning(p)
  <2> DEFINE l == FirstLabel(p, cmd, s)
             a == [cmd |-> cmd, sys |-> s, pid |-> IF cmd \in {"START", "STOP"} THEN o ELSE NoPid]
  <2>1. /\ pc[p] = "idle" /\ UNCHANGED <<sys_call_table, table, logged>>
        /\ Goto(p, l) /\ arg' = [arg EXCEPT ![p] = a]
        /\ Cardinality(InFlight) < MaxInFlight
    BY <1>4 DEF MySyscall
  <2>2. \A q \in Pid : arg[q].cmd = "none" /\ pc[q] \notin CommandLabels
    BY <2>1, NoneInFlight DEF TurnInv, Turns
  <2>3. cmd # "none"
    BY DEF Request
  <2>4. /\ l \in {"EINVAL", "EPERM", "intercept_check", "release_check", "start_check", "stop_check"}
        /\ s \notin 1 .. NR_syscalls => l = "EINVAL"
    BY DEF FirstLabel
  <2>5. a.cmd = cmd /\ a.sys = s
    OBVIOUS
  <2> HIDE DEF l, a
  <2>6. arg'[p] = a /\ \A r \in Pid \ {p} : arg'[r] = arg[r]
    BY <1>1, <2>1
  <2>7. pc'[p] = l /\ \A r \in Pid \ {p} : pc'[r] = pc[r]
    BY <1>1, <2>1 DEF Goto
  <2>8. l \notin CallLabels \cup {"idle", "dead"} /\ "EINVAL" \notin CommandLabels
    BY <2>4, LabelsApart DEF CallLabels, Results
  <2>9. Turns'
    <3>1. ~ logged'[p]
      BY <1>2, <2>1
    <3>2. l # "exit_del"
      BY <2>4
    <3> QED
      BY <2>1, <2>2, <2>3, <2>5, <2>6, <2>7, <2>8, <3>1, <3>2 DEF TurnInv, Turns
  <2>10. \A t \in Slot : Quiet(table[t])
    BY <2>2 DEF TurnInv, Stages
  <2>11. l \in CommandLabels => s \in Slot
    BY <2>4, <2>8 DEF Slot
  <2>12. \A q \in Pid : pc'[q] \in CommandLabels => q = p
    BY <2>2, <2>7
  <2>13. l \in CommandLabels => Stage(p, l, table[s])
    BY <2>4, <2>10, <2>11 DEF Stage, Tested, AllPids, Owned
  <2>14. \A q \in Pid : (pc[q] \in CommandLabels => Stage(q, pc[q], table[arg[q].sys]))'
    <3> SUFFICES ASSUME pc'[p] \in CommandLabels
                 PROVE  Stage(p, pc[p], table[arg[p].sys])'
      BY <2>12
    <3>1. pc'[p] = l /\ arg'[p].sys = s /\ table' = table
      BY <2>1, <2>5, <2>6, <2>7
    <3>2. Stage(p, l, table[s])
      BY <2>13, <3>1
    <3>3. l \in {"intercept_check", "release_check", "start_check", "stop_check"}
      BY <2>4, <2>8, <3>1, LabelsApart DEF Results
    <3> QED
      BY <3>1, <3>2, <3>3 DEF Stage, Tested, AllPids, Owned
  <2>15. Stages'
    BY <2>1, <2>10, <2>14 DEF TurnInv, Stages
  <2>16. W' = W /\ H' = H /\ Acknowledged(p)
    BY <1>2, <2>1, Aside
  <2>17. P' = [P EXCEPT ![p] = "asked"]
    <3>1. \A r \in Pid \ {p} : Progress(r)' = Progress(r)
      BY <2>1, <2>6, <2>7, OthersProgress
    <3>2. Progress(p)' = "asked"
      BY <2>3, <2>4, <2>5, <2>6, <2>7 DEF Progress, CommandProgress
    <3> QED
      BY <3>1, <3>2
  <2>18. D' = D
    <3>1. \A q \in Pid : (pc'[q] \in {"log_outer", "log_inner"})
                         = (pc[q] \in {"log_outer", "log_inner"})
      BY <2>1, <2>4, <2>7
    <3> QED
      BY <3>1
  <2>19. a \in [cmd : Command, sys : Target, pid : PidArg]
    BY DEF a, PidArg
  <2>20. Abstract!Ask(p, a)
    BY <1>2, <2>1, <2>2, <2>16, <2>17, <2>18 DEF Abstract!Ask
  <2>21. Abstract!Next
    BY <2>19, <2>20 DEF Abstract!Next
  <2> QED
    BY <2>7, <2>9, <2>15, <2>16, <2>21 DEF Meaning
<1>5. CASE Die(p) \/ Spawn(p)
  <2>1. /\ pc[p] \in {"idle", "dead"} /\ UNCHANGED <<sys_call_table, table, arg, logged>>
        /\ \E l \in {"idle", "dead"} : Goto(p, l)
    BY <1>5 DEF Die, Spawn
  <2>2. pc'[p] \in {"idle", "dead"} /\ \A r \in Pid \ {p} : pc'[r] = pc[r]
    BY <1>1, <2>1 DEF Goto
  <2>3. pc'[p] \notin CommandLabels \cup CallLabels
    BY <2>2, LabelsApart
  <2>4. Turns'
    BY <1>2, <2>1, <2>2, <2>3 DEF TurnInv, Turns
  <2>5. Stages'
    BY <1>2, <2>1, <2>2, <2>3, OthersKeepStages
  <2>6. W' = W /\ H' = H /\ Acknowledged(p)
    BY <1>2, <2>1, Aside
  <2>7. P' = P
    <3>1. \A r \in Pid \ {p} : Progress(r)' = Progress(r)
      BY <2>1, <2>2, OthersProgress
    <3>2. Progress(p)' = Progress(p)
      BY <1>2, <2>1 DEF Progress
    <3> QED
      BY <3>1, <3>2
  <2>8. D' = D
    <3>1. \A q \in Pid : (pc'[q] \in {"log_outer", "log_inner"})
                         = (pc[q] \in {"log_outer", "log_inner"})
      BY <2>1, <2>2
    <3> QED
      BY <3>1
  <2> QED
    BY <2>1, <2>2, <2>4, <2>5, <2>6, <2>7, <2>8 DEF Meaning, Abstract!vars
<1> QED
  BY <1>3, <1>4, <1>5 DEF Environment

\* Taking a lock means nothing to anybody.
LEMMA LockMeans ==
  ASSUME TurnInv, UNCHANGED <<sys_call_table, table, pc, arg, logged>>
  PROVE  Turns' /\ Stages' /\ \A p \in Pid : Meaning(p)
<1>1. Turns' /\ Stages'
  BY OthersKeepStages DEF TurnInv, Turns
<1>2. \A t : Watch(t)' = Watch(t)
  BY WatchIsOf, WatchThen
<1>3. UNCHANGED Abstract!vars
  BY <1>2 DEF Abstract!vars, Progress, InList
<1>4. ASSUME NEW p \in Pid PROVE Meaning(p)
  BY <1>3 DEF Meaning, Acknowledged
<1> QED
  BY <1>1, <1>4

-----------------------------------------------------------------------------
(* The theorems. *)

\* The invariant is inductive, and with it every step has its meaning.
LEMMA TurnStep ==
  ASSUME MaxInFlight = 1, TurnInv, [Next]_vars
  PROVE  /\ TurnInv'
         /\ UNCHANGED vars \/ \E p \in Pid : Meaning(p)
<1>1. AloneInRoot
  <2>1. RootOnly \subseteq CommandLabels
    BY DEF RootOnly, CommandLabels, CallLabels, CalltableSections, PidlistSections
  <2> QED
    BY <2>1 DEF AloneInRoot, TurnInv, Turns
<1>2. TypeInv' /\ HookInv' /\ AllCountedTwice' /\ Permitted'
  BY <1>1, TypeStep, HookStep, CountStep, PermitStep DEF TurnInv
<1>3. CASE UNCHANGED vars
  <2>1. Turns' /\ Stages'
    BY <1>3, LockMeans DEF vars
  <2> QED
    BY <1>2, <1>3, <2>1 DEF TurnInv
<1>4. ASSUME NEW p \in Pid, Step(p) \/ SpinLockCalltable(p) \/ SpinLockPidlist(p) \/ Environment(p)
      PROVE  Turns' /\ Stages' /\ Meaning(p)
  <2>1. CASE SpinLockCalltable(p) \/ SpinLockPidlist(p)
    BY <2>1, LockMeans DEF SpinLockCalltable, SpinLockPidlist
  <2>2. CASE InterceptStep(p) \/ ReleaseStep(p)
    BY <2>2, RootWatch, RootMeans
  <2>3. CASE StartStep(p) \/ StopStep(p)
    <3>1. pc[p] \in StartLabels \cup StopLabels
      BY <2>3 DEF StartStep, StopStep, StartCheck, StartArgs, StartOwner, StartAllCheck,
                  StartAllClear, StartAllSet, StartMode, StartUnblock, StartAdd, StartFirst,
                  StartFirstSet, StopCheck, StopArgs, StopOwner, StopAllCheck, StopAllClear,
                  StopMode, StopDel, StopBlock, PidlistTest, CalltableTest, UnlockedTest,
                  PidlistSection, CalltableSection, StartLabels, StopLabels
    <3> QED
      BY <2>3, <3>1, StartWatch, StopWatch, CommandMeans
  <2>4. CASE CallStep(p)
    BY <2>4, CallMeans
  <2>5. CASE Environment(p)
    BY <2>5, EnvironmentMeans
  <2> QED
    BY <1>4, <2>1, <2>2, <2>3, <2>4, <2>5 DEF Step
<1>5. CASE Next
  <2>1. PICK p \in Pid :
          Step(p) \/ SpinLockCalltable(p) \/ SpinLockPidlist(p) \/ Environment(p)
    BY <1>5 DEF Next
  <2> QED
    BY <1>2, <1>4, <2>1 DEF TurnInv
<1> QED
  BY <1>3, <1>5

\* The invariant holds when the module has been loaded.
LEMMA TurnInit == Init => TurnInv
<1> SUFFICES ASSUME Init PROVE TurnInv
  OBVIOUS
<1>1. TypeInv /\ HookInv /\ AllCountedTwice /\ Permitted
  BY TypeInit, HookInit, PermitInit, EmptyEntryCounts DEF Init, AllCountedTwice
<1>2. \A p \in Pid : pc[p] = "idle" /\ arg[p] = NoCall /\ ~ logged[p]
  BY DEF Init
<1>3. \A s \in Slot : Single(table[s]) /\ Quiet(table[s])
  <2>1. \A s \in Slot : table[s] = EmptyEntry
    BY DEF Init
  <2>2. Single(EmptyEntry) /\ Quiet(EmptyEntry)
    BY EmptyEntryCounts DEF Single, Quiet, Unlisted, InList
  <2> QED
    BY <2>1, <2>2
<1>4. Turns /\ Stages
  BY <1>2, <1>3, LabelsApart DEF Turns, Stages, NoCall
<1> QED
  BY <1>1, <1>4 DEF TurnInv

\* When commands take turns, what they and the exits and calls of any number of
\* processes do to hooks, modes, lists and locks is Monitor: every command changes
\* what it was asked to change and nothing else, at one moment but for START of all
\* processes, whose gap is between lines 427 and 430, and the calls of a hooked
\* system call are logged for exactly the processes that are watched.
THEOREM MonitorImplemented ==
  ASSUME MaxInFlight = 1
  PROVE  Spec => ImplementsMonitor
<1>1. Init => Abstract!Init
  <2> SUFFICES ASSUME Init PROVE Abstract!Init
    OBVIOUS
  <2>1. \A s \in Slot : (sys_call_table[s] = interceptor) = FALSE
    BY UnderlyingFunction DEF Init
  <2>2. \A s \in Slot : Watch(s) = {}
    BY DEF Init, Watch, Monitored, EmptyEntry
  <2>3. \A q \in Pid : arg[q] = NoCall /\ Progress(q) = "idle" /\ pc[q] = "idle"
    BY DEF Init, Progress, NoCall
  <2>4. [s \in Slot |-> sys_call_table[s] = interceptor] = [s \in Slot |-> FALSE]
    BY <2>1, Zenon
  <2>5. [s \in Slot |-> Watch(s)] = [s \in Slot |-> {}]
    BY <2>2, Zenon
  <2>6. [q \in Pid |-> Progress(q)] = [q \in Pid |-> "idle"]
    BY <2>3, Zenon
  <2>7. [q \in Pid |-> pc[q] \in {"log_outer", "log_inner"}] = [q \in Pid |-> FALSE]
    <3>1. \A q \in Pid : (pc[q] \in {"log_outer", "log_inner"}) = FALSE
      BY <2>3
    <3> QED
      BY <3>1, Zenon
  <2>8. logged = [q \in Pid |-> FALSE] /\ arg = [q \in Pid |-> NoCall]
    BY DEF Init
  <2> QED
    BY <2>4, <2>5, <2>6, <2>7, <2>8 DEF Abstract!Init
<1>2. TurnInv /\ [Next]_vars => TurnInv' /\ [Abstract!Next]_(Abstract!vars)
  <2> SUFFICES ASSUME TurnInv, [Next]_vars PROVE TurnInv' /\ (Abstract!Next \/ UNCHANGED Abstract!vars)
    OBVIOUS
  <2>1. CASE UNCHANGED vars
    <3>1. \A t : Watch(t)' = Watch(t)
      BY <2>1, WatchIsOf, WatchThen DEF vars
    <3>2. UNCHANGED Abstract!vars
      BY <2>1, <3>1 DEF vars, Abstract!vars, Progress, InList
    <3> QED
      BY <3>2, TurnStep
  <2>2. CASE \E p \in Pid : Meaning(p)
    BY <2>2, TurnStep DEF Meaning
  <2> QED
    BY <2>1, <2>2, TurnStep
<1> QED
  BY <1>1, <1>2, TurnInit, PTL DEF Spec, ImplementsMonitor, Abstract!Spec

\* When commands take turns, an answer of 0 is true, whichever return it comes from,
\* although a command acts on what it read under locks it has released since: the
\* system call is hooked or not, the pid watched or not, as the command asked.  Only
\* a first START can say 0 of a process that has gone through my_exit_group in the
\* meantime and is not watched.
THEOREM AcksHold ==
  ASSUME MaxInFlight = 1
  PROVE  Spec => AcksAreTrue
<1> DEFINE A == \A p \in Pid : Acknowledged(p)
<1>1. TurnInv /\ [Next]_vars => TurnInv' /\ [A]_vars
  <2> SUFFICES ASSUME TurnInv, [Next]_vars PROVE TurnInv' /\ (A \/ UNCHANGED vars)
    OBVIOUS
  <2>1. ASSUME NEW r \in Pid, Meaning(r) PROVE A
    <3>1. \A p \in Pid : Acknowledged(p)
      BY <2>1 DEF Meaning, Acknowledged
    <3> QED
      BY <3>1
  <2> QED
    BY <2>1, TurnStep
<1>2. A => \A p \in Pid :
             arg[p].cmd # "none" /\ pc[p] # "OK" /\ pc'[p] = "OK" => Accomplished(p)
  BY DEF Acknowledged
<1> HIDE DEF A
<1> QED
  BY <1>1, <1>2, TurnInit, PTL DEF Spec, AcksAreTrue
=============================================================================
