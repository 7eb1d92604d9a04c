-------------------------- MODULE Interceptor_proofs --------------------------
(* Proofs about Interceptor for any processes, users, system calls, commands  *)
(* and number of commands in flight.                                          *)
EXTENDS Interceptor, Sums_proofs

USE ConstantsAssumption DEF MY_CUSTOM_SYSCALL, NoPid

-----------------------------------------------------------------------------
(* What the list operations make of a table entry. *)

\* Replacing an entry's list, count or mode keeps it an entry.
LEMMA ListUpdate ==
  ASSUME NEW e \in EntryType, NEW l \in [Pid -> Nat], NEW c \in Int
  PROVE  [e EXCEPT !.my_list = l, !.listcount = c] \in EntryType
BY DEF EntryType

\* An entry stays well-formed when its list, count and mode are replaced,
LEMMA ModeUpdate ==
  ASSUME NEW e \in EntryType, NEW l \in [Pid -> Nat], NEW c \in Int, NEW m \in 0 .. 2
  PROVE  [e EXCEPT !.my_list = l, !.listcount = c, !.monitored = m] \in EntryType
BY DEF EntryType

\* and when its count is.
LEMMA CountUpdate ==
  ASSUME NEW e \in EntryType, NEW c \in Int
  PROVE  [e EXCEPT !.listcount = c] \in EntryType
BY DEF EntryType

\* add_pid_sysc and the second increment keep an entry well-formed and leave
\* what concerns interception alone.
LEMMA AddPidType ==
  ASSUME NEW e \in EntryType, NEW q \in Pid
  PROVE  LET n == [AddPid(e, q) EXCEPT !.listcount = @ + 1] IN
         n \in EntryType /\ n.f = e.f /\ n.intercepted = e.intercepted
<1>1. [e.my_list EXCEPT ![q] = @ + 1] \in [Pid -> Nat] /\ e.listcount + 1 \in Int
  BY DEF EntryType
<1>2. AddPid(e, q) \in EntryType
  BY <1>1, ListUpdate, Zenon DEF AddPid
<1>3. AddPid(e, q).f = e.f /\ AddPid(e, q).intercepted = e.intercepted
  BY DEF AddPid, EntryType
<1>4. AddPid(e, q).listcount + 1 \in Int
  BY <1>2 DEF EntryType
<1>5. [AddPid(e, q) EXCEPT !.listcount = @ + 1] \in EntryType
  BY <1>2, <1>4, CountUpdate, Zenon
<1> QED
  BY <1>2, <1>3, <1>5 DEF EntryType

\* Deleting no more copies than there are does the same.
LEMMA DelCopiesType ==
  ASSUME NEW e \in EntryType, NEW q \in Pid, NEW n \in Nat, n <= e.my_list[q]
  PROVE  LET d == DelCopies(e, q, n) IN
         d \in EntryType /\ d.f = e.f /\ d.intercepted = e.intercepted
<1> DEFINE m == IF e.monitored = 1 /\ e.listcount \in 1 .. n THEN 0 ELSE e.monitored
<1>1. /\ [e.my_list EXCEPT ![q] = @ - n] \in [Pid -> Nat]
      /\ e.listcount - n \in Int
      /\ m \in 0 .. 2
  BY DEF EntryType
<1>2. DelCopies(e, q, n) \in EntryType
  BY <1>1, ModeUpdate, Zenon DEF DelCopies
<1> QED
  BY <1>2 DEF DelCopies, EntryType

\* del_pid_sysc on a listed pid, and the caller's second decrement.
LEMMA DelPidSyscType ==
  ASSUME NEW e \in EntryType, NEW q \in Pid, InList(e, q)
  PROVE  LET d == [DelPidSysc(e, q) EXCEPT !.listcount = @ - 1] IN
         d \in EntryType /\ d.f = e.f /\ d.intercepted = e.intercepted
<1>1. 1 <= e.my_list[q]
  BY DEF InList, EntryType
<1>2. /\ DelPidSysc(e, q) \in EntryType
      /\ DelPidSysc(e, q).f = e.f
      /\ DelPidSysc(e, q).intercepted = e.intercepted
  BY <1>1, DelCopiesType DEF DelPidSysc
<1>3. DelPidSysc(e, q).listcount - 1 \in Int
  BY <1>2 DEF EntryType
<1>4. [DelPidSysc(e, q) EXCEPT !.listcount = @ - 1] \in EntryType
  BY <1>2, <1>3, CountUpdate, Zenon
<1> QED
  BY <1>2, <1>4 DEF EntryType

\* destroy_list keeps an entry well-formed, and all but what it resets.
LEMMA DestroyListType ==
  ASSUME NEW e \in EntryType
  PROVE  LET d == DestroyList(e) IN
         d \in EntryType /\ d.f = e.f /\ d.intercepted = e.intercepted
<1>1. [q \in Pid |-> 0] \in [Pid -> Nat] /\ 0 \in Int /\ 0 \in 0 .. 2
  OBVIOUS
<1>2. DestroyList(e) \in EntryType
  BY <1>1, ModeUpdate, Zenon DEF DestroyList
<1> QED
  BY <1>2 DEF DestroyList, EntryType

\* A call through any function pointer leads to a label of the model.
LEMMA AfterCallLabel ==
  ASSUME NEW fn \in Function
  PROVE  AfterCall(fn) \in {"log_outer", "exit_del", "killed", "OK"}
BY DEF AfterCall

-----------------------------------------------------------------------------
(* Types. *)

\* What a step of the program counter does.
LEMMA GotoType ==
  ASSUME pc \in [Pid -> Label], NEW p \in Pid, NEW l \in Label, Goto(p, l)
  PROVE  /\ pc' \in [Pid -> Label]
         /\ pc'[p] = l
         /\ \A q \in Pid : q # p => pc'[q] = pc[q]
BY DEF Goto

\* A step of p that leaves the data alone, its arguments in place.
LEMMA TypeMove ==
  ASSUME TypeInv, NEW p \in Pid, NEW l \in Label, Goto(p, l),
         UNCHANGED <<sys_call_table, table, arg, logged>>,
         calltable_lock' \in {calltable_lock, NoPid},
         pidlist_lock' \in {pidlist_lock, NoPid},
         l \notin Results => pc[p] \notin Results \cup {"idle", "dead"},
         l \notin {"idle", "dead"},
         l \in OnePid => arg[p].pid \in Pid
  PROVE  TypeInv'
<1>1. TypeOK'
  BY GotoType DEF TypeInv, TypeOK
<1>2. ArgsChecked'
  BY GotoType DEF TypeInv, TypeOK, ArgsChecked
<1> QED
  BY <1>1, <1>2 DEF TypeInv

\* The same step when it also replaces an entry or a slot of the table.
LEMMA TypeUpdate ==
  ASSUME TypeInv, NEW p \in Pid, NEW l \in Label, Goto(p, l),
         UNCHANGED <<arg, logged>>,
         sys_call_table' \in [Slot -> Function],
         table' \in [Slot -> EntryType],
         calltable_lock' \in {calltable_lock, NoPid},
         pidlist_lock' \in {pidlist_lock, NoPid},
         pc[p] \notin Results \cup {"idle", "dead"},
         l \notin {"idle", "dead"},
         l \in OnePid => arg[p].pid \in Pid
  PROVE  TypeInv'
<1>1. TypeOK'
  BY GotoType DEF TypeInv, TypeOK
<1>2. ArgsChecked'
  BY GotoType DEF TypeInv, TypeOK, ArgsChecked
<1> QED
  BY <1>1, <1>2 DEF TypeInv

\* The single-field assignments of the locked sections.
LEMMA SavedType ==
  ASSUME table \in [Slot -> EntryType], NEW s \in Slot, NEW fn \in Function,
         table' = [table EXCEPT ![s].f = fn]
  PROVE  table' \in [Slot -> EntryType]
BY DEF EntryType

\* Marking and unmarking a slot keeps the table well-formed,
LEMMA InterceptedType ==
  ASSUME table \in [Slot -> EntryType], NEW s \in Slot, NEW b \in {0, 1},
         table' = [table EXCEPT ![s].intercepted = b]
  PROVE  table' \in [Slot -> EntryType]
BY DEF EntryType

\* and so does setting its mode.
LEMMA MonitoredType ==
  ASSUME table \in [Slot -> EntryType], NEW s \in Slot, NEW m \in {0, 1, 2},
         table' = [table EXCEPT ![s].monitored = m]
  PROVE  table' \in [Slot -> EntryType]
BY DEF EntryType

\* INTERCEPT keeps the types.
LEMMA TypeIntercept ==
  ASSUME TypeInv, NEW p \in Pid, InterceptStep(p)
  PROVE  TypeInv'
<1> DEFINE s == arg[p].sys
<1> USE DEF Label, CalltableSections, PidlistSections, Unlocked, Results, OnePid
<1>1. CASE InterceptCheck(p)
  BY <1>1, TypeMove DEF InterceptCheck, PidlistTest, PidlistSection
<1>2. CASE InterceptHook(p)
  <2>1. s \in Slot
    BY <1>2 DEF InterceptHook, CalltableSection, TypeInv, ArgsChecked, Slot
  <2>2. table' \in [Slot -> EntryType]
    BY <1>2, <2>1, SavedType DEF InterceptHook, TypeInv, TypeOK
  <2>3. sys_call_table' \in [Slot -> Function]
    BY <1>2, <2>1 DEF InterceptHook, TypeInv, TypeOK, Function, interceptor, NULL
  <2> QED
    BY <1>2, <2>2, <2>3, TypeUpdate DEF InterceptHook, CalltableSection
<1>3. CASE InterceptMark(p)
  <2>1. s \in Slot
    BY <1>3 DEF InterceptMark, PidlistSection, TypeInv, ArgsChecked, Slot
  <2>2. table' \in [Slot -> EntryType]
    BY <1>3, <2>1, InterceptedType DEF InterceptMark, TypeInv, TypeOK
  <2> QED
    BY <1>3, <2>2, TypeUpdate DEF InterceptMark, PidlistSection, TypeInv, TypeOK
<1> QED
  BY <1>1, <1>2, <1>3 DEF InterceptStep

\* Inside a command, the entry the command works on.
LEMMA CommandEntry ==
  ASSUME TypeInv, NEW p \in Pid, pc[p] \notin Results \cup {"idle", "dead"}
  PROVE  /\ arg[p].sys \in 1 .. NR_syscalls
         /\ arg[p].sys \in Slot
         /\ table[arg[p].sys] \in EntryType
BY DEF TypeInv, TypeOK, ArgsChecked, Slot

\* The table afterwards differs in lists, counts and modes only.
KeepsHooks == \A t \in Slot : /\ table'[t].f = table[t].f
                              /\ table'[t].intercepted = table[t].intercepted

\* A list operation writes one entry; interception is not concerned unless the
\* entry says so.
LEMMA SetEntryType ==
  ASSUME TypeInv, NEW s \in Slot, NEW e \in EntryType, SetEntry(s, e)
  PROVE  /\ table' \in [Slot -> EntryType]
         /\ e.f = table[s].f /\ e.intercepted = table[s].intercepted => KeepsHooks
BY DEF SetEntry, TypeInv, TypeOK, KeepsHooks

\* add_pid_sysc or -ENOMEM, whatever label follows.
LEMMA AddOrFailType ==
  ASSUME TypeInv, NEW p \in Pid, NEW l, AddOrFail(p, l), arg[p].pid \in Pid,
         arg[p].sys \in Slot
  PROVE  /\ table' \in [Slot -> EntryType]
         /\ KeepsHooks
         /\ Goto(p, l) \/ Goto(p, "ENOMEM")
<1> DEFINE e == table[arg[p].sys]
           n == [AddPid(e, arg[p].pid) EXCEPT !.listcount = @ + 1]
<1>1. CASE SetEntry(arg[p].sys, n) /\ Goto(p, l)
  <2>1. e \in EntryType
    BY DEF TypeInv, TypeOK
  <2>2. n \in EntryType /\ n.f = e.f /\ n.intercepted = e.intercepted
    BY <2>1, AddPidType
  <2> HIDE DEF n
  <2> QED
    BY <1>1, <2>2, SetEntryType
<1>2. CASE UNCHANGED table /\ Goto(p, "ENOMEM")
  BY <1>2 DEF TypeInv, TypeOK, KeepsHooks
<1> QED
  BY <1>1, <1>2 DEF AddOrFail

\* destroy_list.
LEMMA DestroyListStep ==
  ASSUME TypeInv, NEW s \in Slot, SetEntry(s, DestroyList(table[s]))
  PROVE  table' \in [Slot -> EntryType] /\ KeepsHooks
<1>1. table[s] \in EntryType
  BY DEF TypeInv, TypeOK
<1> QED
  BY <1>1, DestroyListType, SetEntryType

\* del_pid_sysc and the second decrement.
LEMMA DelPidSyscStep ==
  ASSUME TypeInv, NEW s \in Slot, NEW q \in Pid, InList(table[s], q),
         SetEntry(s, [DelPidSysc(table[s], q) EXCEPT !.listcount = @ - 1])
  PROVE  table' \in [Slot -> EntryType] /\ KeepsHooks
<1> DEFINE d == [DelPidSysc(table[s], q) EXCEPT !.listcount = @ - 1]
<1>1. table[s] \in EntryType
  BY DEF TypeInv, TypeOK
<1>2. d \in EntryType /\ d.f = table[s].f /\ d.intercepted = table[s].intercepted
  BY <1>1, DelPidSyscType
<1>3. SetEntry(s, d)
  OBVIOUS
<1> HIDE DEF d
<1> QED
  BY <1>2, <1>3, SetEntryType

\* del_pid.
LEMMA DelPidStep ==
  ASSUME TypeInv, NEW q \in Pid, table' = DelPid(q)
  PROVE  table' \in [Slot -> EntryType] /\ KeepsHooks
<1>1. ASSUME NEW s \in Slot
      PROVE  LET d == DelCopies(table[s], q, table[s].my_list[q]) IN
             d \in EntryType /\ d.f = table[s].f /\ d.intercepted = table[s].intercepted
  <2>1. table[s] \in EntryType
    BY DEF TypeInv, TypeOK
  <2>2. table[s].my_list[q] \in Nat
    BY <2>1 DEF EntryType
  <2> QED
    BY <2>1, <2>2, DelCopiesType
<1>2. table \in [Slot -> EntryType]
  BY DEF TypeInv, TypeOK
<1> QED
  BY <1>1, <1>2 DEF DelPid, KeepsHooks

\* RELEASE keeps the types.
LEMMA TypeRelease ==
  ASSUME TypeInv, NEW p \in Pid, ReleaseStep(p)
  PROVE  TypeInv'
<1> DEFINE s == arg[p].sys
<1> USE DEF Label, CalltableSections, PidlistSections, Unlocked, Results, OnePid
<1>1. CASE ReleaseCheck(p)
  BY <1>1, TypeMove DEF ReleaseCheck, PidlistTest, PidlistSection
<1>2. CASE ReleaseUnhook(p)
  <2>1. s \in Slot /\ table[s] \in EntryType
    BY <1>2, CommandEntry DEF ReleaseUnhook, CalltableSection
  <2>2. table' \in [Slot -> EntryType]
    BY <1>2, <2>1, MonitoredType DEF ReleaseUnhook, TypeInv, TypeOK
  <2>3. sys_call_table' \in [Slot -> Function]
    BY <1>2, <2>1 DEF ReleaseUnhook, TypeInv, TypeOK, EntryType
  <2> QED
    BY <1>2, <2>2, <2>3, TypeUpdate DEF ReleaseUnhook, CalltableSection
<1>3. CASE ReleaseClear(p)
  <2> DEFINE d == DestroyList(table[s])
             e == [d EXCEPT !.intercepted = 0]
  <2>1. s \in Slot /\ table[s] \in EntryType
    BY <1>3, CommandEntry DEF ReleaseClear, PidlistSection
  <2>2. d \in EntryType
    BY <2>1, DestroyListType
  <2>3. SetEntry(s, e)
    BY <1>3 DEF ReleaseClear
  <2> HIDE DEF d
  <2>4. e \in EntryType
    BY <2>2 DEF EntryType
  <2> HIDE DEF e
  <2>5. table' \in [Slot -> EntryType]
    BY <2>1, <2>3, <2>4, SetEntryType
  <2> QED
    BY <1>3, <2>5, TypeUpdate DEF ReleaseClear, PidlistSection, TypeInv, TypeOK
<1> QED
  BY <1>1, <1>2, <1>3 DEF ReleaseStep

\* START, each of its three modes and START(0), keeps the types.
LEMMA TypeStart ==
  ASSUME TypeInv, NEW p \in Pid, StartStep(p)
  PROVE  TypeInv'
<1> DEFINE s == arg[p].sys
           q == arg[p].pid
<1> USE DEF Label, CalltableSections, PidlistSections, Unlocked, Results, OnePid
<1>1. CASE StartCheck(p)
  BY <1>1, TypeMove DEF StartCheck, PidlistTest, PidlistSection
<1>2. CASE StartArgs(p)
  BY <1>2, TypeMove DEF StartArgs, ArgsLabel, UnlockedTest, locks
<1>3. CASE StartOwner(p)
  BY <1>3, TypeMove DEF StartOwner, OwnerLabel, UnlockedTest, locks, TypeInv, ArgsChecked
<1>4. CASE StartAllCheck(p)
  BY <1>4, TypeMove DEF StartAllCheck, CalltableTest, CalltableSection
<1>5. CASE StartAllClear(p)
  <2>1. s \in Slot
    BY <1>5, CommandEntry DEF StartAllClear, PidlistSection
  <2>2. table' \in [Slot -> EntryType]
    BY <1>5, <2>1, DestroyListStep DEF StartAllClear
  <2> QED
    BY <1>5, <2>2, TypeUpdate DEF StartAllClear, PidlistSection, TypeInv, TypeOK
<1>6. CASE StartAllSet(p)
  <2>1. s \in Slot
    BY <1>6, CommandEntry DEF StartAllSet, CalltableSection
  <2>2. table' \in [Slot -> EntryType]
    BY <1>6, <2>1, MonitoredType DEF StartAllSet, TypeInv, TypeOK
  <2> QED
    BY <1>6, <2>2, TypeUpdate DEF StartAllSet, CalltableSection, TypeInv, TypeOK
<1>7. CASE StartMode(p)
  BY <1>7, TypeMove DEF StartMode, CalltableTest, CalltableSection, TypeInv, ArgsChecked
<1>8. CASE StartUnblock(p)
  <2>1. s \in Slot /\ q \in Pid
    BY <1>8, CommandEntry DEF StartUnblock, PidlistSection, TypeInv, ArgsChecked
  <2>2. CASE InList(table[s], q)
    <3>1. table' \in [Slot -> EntryType]
      BY <1>8, <2>1, <2>2, DelPidSyscStep DEF StartUnblock
    <3> QED
      BY <1>8, <2>2, <3>1, TypeUpdate DEF StartUnblock, PidlistSection, TypeInv, TypeOK
  <2>3. CASE ~ InList(table[s], q)
    BY <1>8, <2>3, TypeMove DEF StartUnblock, PidlistSection
  <2> QED
    BY <2>2, <2>3
<1>9. CASE StartAdd(p)
  <2>1. s \in Slot /\ q \in Pid
    BY <1>9, CommandEntry DEF StartAdd, PidlistSection, TypeInv, ArgsChecked
  <2>2. CASE AddOrFail(p, "OK")
    <3>1. table' \in [Slot -> EntryType] /\ (Goto(p, "OK") \/ Goto(p, "ENOMEM"))
      BY <2>1, <2>2, AddOrFailType
    <3> QED
      BY <1>9, <3>1, TypeUpdate DEF StartAdd, PidlistSection, TypeInv, TypeOK
  <2>3. CASE Goto(p, "EBUSY") /\ UNCHANGED table
    BY <1>9, <2>3, TypeMove DEF StartAdd, PidlistSection
  <2> QED
    BY <1>9, <2>2, <2>3 DEF StartAdd
<1>10. CASE StartFirst(p)
  <2>1. s \in Slot /\ q \in Pid
    BY <1>10, CommandEntry DEF StartFirst, PidlistSection, TypeInv, ArgsChecked
  <2>2. table' \in [Slot -> EntryType] /\ (Goto(p, "start_first_set") \/ Goto(p, "ENOMEM"))
    BY <1>10, <2>1, AddOrFailType DEF StartFirst
  <2> QED
    BY <1>10, <2>2, TypeUpdate DEF StartFirst, PidlistSection, TypeInv, TypeOK
<1>11. CASE StartFirstSet(p)
  <2>1. s \in Slot
    BY <1>11, CommandEntry DEF StartFirstSet, CalltableSection
  <2>2. table' \in [Slot -> EntryType]
    BY <1>11, <2>1, MonitoredType DEF StartFirstSet, TypeInv, TypeOK
  <2> QED
    BY <1>11, <2>2, TypeUpdate DEF StartFirstSet, CalltableSection, TypeInv, TypeOK
<1> QED
  BY <1>1, <1>2, <1>3, <1>4, <1>5, <1>6, <1>7, <1>8, <1>9, <1>10, <1>11 DEF StartStep

\* STOP, each of its modes and STOP(0), keeps the types.
LEMMA TypeStop ==
  ASSUME TypeInv, NEW p \in Pid, StopStep(p)
  PROVE  TypeInv'
<1> DEFINE s == arg[p].sys
           q == arg[p].pid
<1> USE DEF Label, CalltableSections, PidlistSections, Unlocked, Results, OnePid
<1>1. CASE StopCheck(p)
  BY <1>1, TypeMove DEF StopCheck, PidlistTest, PidlistSection
<1>2. CASE StopArgs(p)
  BY <1>2, TypeMove DEF StopArgs, ArgsLabel, UnlockedTest, locks
<1>3. CASE StopOwner(p)
  BY <1>3, TypeMove DEF StopOwner, OwnerLabel, UnlockedTest, locks, TypeInv, ArgsChecked
<1>4. CASE StopAllCheck(p)
  BY <1>4, TypeMove DEF StopAllCheck, CalltableTest, CalltableSection
<1>5. CASE StopAllClear(p)
  <2>1. s \in Slot
    BY <1>5, CommandEntry DEF StopAllClear, PidlistSection
  <2>2. table' \in [Slot -> EntryType]
    BY <1>5, <2>1, DestroyListStep DEF StopAllClear
  <2> QED
    BY <1>5, <2>2, TypeUpdate DEF StopAllClear, PidlistSection, TypeInv, TypeOK
<1>6. CASE StopMode(p)
  BY <1>6, TypeMove DEF StopMode, CalltableTest, CalltableSection, TypeInv, ArgsChecked
<1>7. CASE StopDel(p)
  <2>1. s \in Slot /\ q \in Pid
    BY <1>7, CommandEntry DEF StopDel, PidlistSection, TypeInv, ArgsChecked
  <2>2. CASE InList(table[s], q)
    <3>1. table' \in [Slot -> EntryType]
      BY <1>7, <2>1, <2>2, DelPidSyscStep DEF StopDel
    <3> QED
      BY <1>7, <2>2, <3>1, TypeUpdate DEF StopDel, PidlistSection, TypeInv, TypeOK
  <2>3. CASE ~ InList(table[s], q)
    BY <1>7, <2>3, TypeMove DEF StopDel, PidlistSection
  <2> QED
    BY <2>2, <2>3
<1>8. CASE StopBlock(p)
  <2>1. s \in Slot /\ q \in Pid
    BY <1>8, CommandEntry DEF StopBlock, PidlistSection, TypeInv, ArgsChecked
  <2>2. CASE AddOrFail(p, "OK")
    <3>1. table' \in [Slot -> EntryType] /\ (Goto(p, "OK") \/ Goto(p, "ENOMEM"))
      BY <2>1, <2>2, AddOrFailType
    <3> QED
      BY <1>8, <3>1, TypeUpdate DEF StopBlock, PidlistSection, TypeInv, TypeOK
  <2>3. CASE Goto(p, "EINVAL") /\ UNCHANGED table
    BY <1>8, <2>3, TypeMove DEF StopBlock, PidlistSection
  <2> QED
    BY <1>8, <2>2, <2>3 DEF StopBlock
<1> QED
  BY <1>1, <1>2, <1>3, <1>4, <1>5, <1>6, <1>7, <1>8 DEF StopStep

\* Intercepted calls, exits and returns keep the types.
LEMMA TypeCall ==
  ASSUME TypeInv, NEW p \in Pid, CallStep(p)
  PROVE  TypeInv'
<1> DEFINE s == arg[p].sys
<1> USE DEF Label, CalltableSections, PidlistSections, Unlocked, Results, OnePid
<1>1. CASE LogOuter(p)
  BY <1>1, TypeMove DEF LogOuter, locks
<1>2. CASE LogInner(p)
  <2>1. TypeOK'
    BY <1>2, GotoType DEF LogInner, TypeInv, TypeOK, Monitored
  <2>2. ArgsChecked'
    BY <1>2, GotoType DEF LogInner, TypeInv, TypeOK, ArgsChecked
  <2> QED
    BY <2>1, <2>2 DEF TypeInv
<1>3. CASE CallOriginal(p)
  <2>1. table[s].f \in Function
    BY <1>3, CommandEntry DEF CallOriginal, UnlockedTest, EntryType
  <2>2. AfterCall(table[s].f) \in {"log_outer", "exit_del", "killed", "OK"}
    BY <2>1, AfterCallLabel
  <2> QED
    BY <1>3, <2>2, TypeMove DEF CallOriginal, UnlockedTest, locks
<1>4. CASE ExitDel(p)
  <2>1. table' \in [Slot -> EntryType]
    BY <1>4, DelPidStep DEF ExitDel
  <2> QED
    BY <1>4, <2>1, TypeUpdate DEF ExitDel, PidlistSection, TypeInv, TypeOK
<1>5. CASE ExitCall(p)
  <2>1. orig_exit_group \in Function
    BY DEF orig_exit_group, Function, NULL
  <2>2. AfterCall(orig_exit_group) \in {"log_outer", "exit_del", "killed", "OK"}
    BY <2>1, AfterCallLabel
  <2> QED
    BY <1>5, <2>2, TypeMove DEF ExitCall, UnlockedTest, locks
<1>6. CASE Return(p)
  <2>1. TypeOK'
    BY <1>6, GotoType DEF Return, TypeInv, TypeOK, NoCall, PidArg, Slot, locks
  <2>2. ArgsChecked'
    BY <1>6, GotoType DEF Return, TypeInv, TypeOK, ArgsChecked
  <2> QED
    BY <2>1, <2>2 DEF TypeInv
<1> QED
  BY <1>1, <1>2, <1>3, <1>4, <1>5, <1>6 DEF CallStep

\* Issuing a call, dying and being created keep the types.
LEMMA TypeEnvironment ==
  ASSUME TypeInv, NEW p \in Pid, Environment(p)
  PROVE  TypeInv'
<1> USE DEF Label, CalltableSections, PidlistSections, Unlocked, Results, OnePid
<1>1. ASSUME NEW s \in 1 .. NR_syscalls - 1, Dispatch(p, s) PROVE TypeInv'
  <2>1. sys_call_table[s] \in Function /\ s \in Slot
    BY DEF TypeInv, TypeOK, Slot
  <2>2. AfterCall(sys_call_table[s]) \in {"log_outer", "exit_del", "killed", "OK"}
    BY <2>1, AfterCallLabel
  <2>a. /\ arg' \in [Pid -> [cmd : Command \cup {"none"}, sys : Target \cup Slot, pid : PidArg]]
        /\ arg'[p].sys = s
        /\ \A o \in Pid : o # p => arg'[o] = arg[o]
    BY <1>1, <2>1 DEF Dispatch, TypeInv, TypeOK
  <2>b. /\ pc' \in [Pid -> Label]
        /\ pc'[p] \in {"log_outer", "exit_del", "killed", "OK"}
        /\ \A o \in Pid : o # p => pc'[o] = pc[o]
    BY <1>1, <2>2 DEF Dispatch, Goto, TypeInv, TypeOK
  <2>3. TypeOK'
    BY <1>1, <2>a, <2>b DEF Dispatch, TypeInv, TypeOK, locks
  <2>4. ArgsChecked'
    BY <2>a, <2>b DEF TypeInv, ArgsChecked
  <2> QED
    BY <2>3, <2>4 DEF TypeInv
<1>2. ASSUME NEW cmd \in Command, NEW s \in Target, NEW q \in PidArg, MySyscall(p, cmd, s, q)
      PROVE  TypeInv'
  <2> DEFINE l == FirstLabel(p, cmd, s)
  <2>1. /\ l \in Label \ OnePid
        /\ l \notin Results => s \in 1 .. NR_syscalls
    <3>1. CASE s \notin 1 .. NR_syscalls
      BY <3>1 DEF FirstLabel
    <3>2. CASE s \in 1 .. NR_syscalls
      <4>1. l \in {"EINVAL", "EPERM", "intercept_check", "release_check", "start_check", "stop_check"}
        BY <3>2 DEF FirstLabel, Root
      <4> QED
        BY <3>2, <4>1
    <3> QED
      BY <3>1, <3>2
  <2>2. /\ arg' \in [Pid -> [cmd : Command \cup {"none"}, sys : Target \cup Slot, pid : PidArg]]
        /\ arg'[p].sys = s
        /\ \A o \in Pid : o # p => arg'[o] = arg[o]
    BY <1>2 DEF MySyscall, TypeInv, TypeOK, PidArg
  <2>3. Goto(p, l)
    BY <1>2 DEF MySyscall
  <2> HIDE DEF l
  <2>4. TypeOK'
    BY <1>2, <2>1, <2>2, <2>3, GotoType DEF MySyscall, TypeInv, TypeOK, locks
  <2>5. ArgsChecked'
    BY <2>1, <2>2, <2>3, GotoType DEF TypeInv, TypeOK, ArgsChecked
  <2> QED
    BY <2>4, <2>5 DEF TypeInv
<1>3. CASE Die(p)
  BY <1>3, GotoType DEF Die, TypeInv, TypeOK, ArgsChecked, locks
<1>4. CASE Spawn(p)
  BY <1>4, GotoType DEF Spawn, TypeInv, TypeOK, ArgsChecked, locks
<1> QED
  BY <1>1, <1>2, <1>3, <1>4 DEF Environment

\* What init_function leaves is well typed.
LEMMA TypeInit == Init => TypeInv
<1> SUFFICES ASSUME Init PROVE TypeInv
  OBVIOUS
<1>1. \A s \in Slot : Underlying(s) \in Function
  BY DEF Slot, Underlying, Function, my_syscall, my_exit_group, NULL
<1>2. EmptyEntry \in EntryType
  BY DEF EmptyEntry, EntryType, Function, NULL
<1>3. NoCall \in [cmd : Command \cup {"none"}, sys : Target \cup Slot, pid : PidArg]
  BY DEF NoCall, Slot, PidArg
<1>4. TypeOK
  BY <1>1, <1>2, <1>3 DEF Init, TypeOK, Label
<1>5. ArgsChecked
  BY DEF Init, ArgsChecked, OnePid
<1> QED
  BY <1>4, <1>5 DEF TypeInv

\* Every step keeps the types.
LEMMA TypeStep == TypeInv /\ [Next]_vars => TypeInv'
<1> SUFFICES ASSUME TypeInv, [Next]_vars PROVE TypeInv'
  OBVIOUS
<1>1. CASE UNCHANGED vars
  BY <1>1 DEF vars, TypeInv, TypeOK, ArgsChecked
<1>2. ASSUME NEW p \in Pid, Step(p) PROVE TypeInv'
  BY <1>2, TypeIntercept, TypeRelease, TypeStart, TypeStop, TypeCall DEF Step
<1>3. ASSUME NEW p \in Pid, SpinLockCalltable(p) \/ SpinLockPidlist(p) PROVE TypeInv'
  BY <1>3 DEF SpinLockCalltable, SpinLockPidlist, TypeInv, TypeOK, ArgsChecked
<1>4. ASSUME NEW p \in Pid, Environment(p) PROVE TypeInv'
  BY <1>4, TypeEnvironment
<1> QED
  BY <1>1, <1>2, <1>3, <1>4 DEF Next

\* Types, and arguments that stay within the table once checked.
THEOREM TypesCorrect == Spec => [](TypeOK /\ ArgsChecked)
<1>1. TypeInv => TypeOK /\ ArgsChecked
  BY DEF TypeInv
<1> QED
  BY <1>1, TypeInit, TypeStep, PTL DEF Spec

-----------------------------------------------------------------------------
(* Locks. *)

\* Who holds nothing: a process outside the sections of a lock.
LEMMA NotHolder ==
  ASSUME LockDiscipline, NEW p \in Pid
  PROVE  /\ pc[p] \notin CalltableSections \cup {"log_inner"} => calltable_lock # p
         /\ pc[p] \notin PidlistSections => pidlist_lock # p
BY DEF LockDiscipline

\* A step after which p holds no lock, and no other process gains or loses one.
LEMMA LockMove ==
  ASSUME TypeInv, LockDiscipline, NEW p \in Pid, NEW l \in Label, l # "log_inner", Goto(p, l),
         calltable_lock' = IF calltable_lock = p THEN NoPid ELSE calltable_lock,
         pidlist_lock' = IF pidlist_lock = p THEN NoPid ELSE pidlist_lock
  PROVE  LockDiscipline'
BY GotoType DEF LockDiscipline, TypeInv, TypeOK

\* The two kinds of section end like that.
LEMMA LockSection ==
  ASSUME TypeInv, LockDiscipline, NEW p \in Pid, NEW l, NEW m \in Label, m # "log_inner",
         Goto(p, m),
         \/ CalltableSection(p, l) /\ l \in CalltableSections
         \/ PidlistSection(p, l) /\ l \in PidlistSections \ {"log_inner"}
  PROVE  LockDiscipline'
<1>1. CASE CalltableSection(p, l) /\ l \in CalltableSections
  <2>1. pidlist_lock # p
    BY <1>1, NotHolder DEF CalltableSection, CalltableSections, PidlistSections
  <2> QED
    BY <1>1, <2>1, LockMove DEF CalltableSection
<1>2. CASE PidlistSection(p, l) /\ l \in PidlistSections \ {"log_inner"}
  <2>1. calltable_lock # p
    BY <1>2, NotHolder DEF PidlistSection, CalltableSections, PidlistSections
  <2> QED
    BY <1>2, <2>1, LockMove DEF PidlistSection
<1> QED
  BY <1>1, <1>2

\* And a step taken at a label outside both.
LEMMA LockUnlocked ==
  ASSUME TypeInv, LockDiscipline, NEW p \in Pid, NEW l \in Label, l # "log_inner", Goto(p, l),
         pc[p] \notin CalltableSections \cup PidlistSections,
         UNCHANGED locks
  PROVE  LockDiscipline'
<1>1. calltable_lock # p /\ pidlist_lock # p
  BY NotHolder DEF PidlistSections
<1> QED
  BY <1>1, LockMove DEF locks

\* The four commands give their locks back at the end of each section.
LEMMA LockCommands ==
  ASSUME TypeInv, LockDiscipline, NEW p \in Pid,
         InterceptStep(p) \/ ReleaseStep(p) \/ StartStep(p) \/ StopStep(p)
  PROVE  LockDiscipline'
<1> USE DEF Label, CalltableSections, PidlistSections, Unlocked, Results
<1>1. CASE InterceptStep(p)
  BY <1>1, LockSection DEF InterceptStep, InterceptCheck, InterceptHook, InterceptMark, PidlistTest
<1>2. CASE ReleaseStep(p)
  BY <1>2, LockSection DEF ReleaseStep, ReleaseCheck, ReleaseUnhook, ReleaseClear, PidlistTest
<1>3. CASE StartStep(p)
  <2>1. CASE StartCheck(p) \/ StartAllCheck(p) \/ StartMode(p)
    BY <2>1, LockSection DEF StartCheck, StartAllCheck, StartMode, PidlistTest, CalltableTest
  <2>2. CASE StartArgs(p)
    BY <2>2, LockUnlocked DEF StartArgs, ArgsLabel, UnlockedTest
  <2>3. CASE StartOwner(p)
    BY <2>3, LockUnlocked DEF StartOwner, OwnerLabel, UnlockedTest
  <2>4. CASE StartAllClear(p) \/ StartAllSet(p) \/ StartFirstSet(p)
    BY <2>4, LockSection DEF StartAllClear, StartAllSet, StartFirstSet
  <2>5. CASE StartUnblock(p)
    BY <2>5, LockSection DEF StartUnblock
  <2>6. CASE StartAdd(p) \/ StartFirst(p)
    BY <2>6, LockSection DEF StartAdd, StartFirst, AddOrFail
  <2> QED
    BY <1>3, <2>1, <2>2, <2>3, <2>4, <2>5, <2>6 DEF StartStep
<1>4. CASE StopStep(p)
  <2>1. CASE StopCheck(p) \/ StopAllCheck(p) \/ StopMode(p)
    BY <2>1, LockSection DEF StopCheck, StopAllCheck, StopMode, PidlistTest, CalltableTest
  <2>2. CASE StopArgs(p)
    BY <2>2, LockUnlocked DEF StopArgs, ArgsLabel, UnlockedTest
  <2>3. CASE StopOwner(p)
    BY <2>3, LockUnlocked DEF StopOwner, OwnerLabel, UnlockedTest
  <2>4. CASE StopAllClear(p) \/ StopDel(p)
    BY <2>4, LockSection DEF StopAllClear, StopDel
  <2>5. CASE StopBlock(p)
    BY <2>5, LockSection DEF StopBlock, AddOrFail
  <2> QED
    BY <1>4, <2>1, <2>2, <2>3, <2>4, <2>5 DEF StopStep
<1> QED
  BY <1>1, <1>2, <1>3, <1>4

\* interceptor takes pidlist_lock inside calltable_lock and gives both back.
LEMMA LockCall ==
  ASSUME TypeInv, LockDiscipline, NEW p \in Pid, CallStep(p)
  PROVE  LockDiscipline'
<1> USE DEF Label, CalltableSections, PidlistSections, Unlocked, Results
<1>1. CASE LogOuter(p)
  <2>1. pidlist_lock # p
    BY <1>1, NotHolder DEF LogOuter
  <2> QED
    BY <1>1, <2>1, GotoType DEF LogOuter, LockDiscipline, TypeInv, TypeOK, locks
<1>2. CASE LogInner(p)
  <2>1. calltable_lock = p
    BY <1>2 DEF LogInner, LockDiscipline
  <2> QED
    BY <1>2, <2>1, LockMove DEF LogInner
<1>3. CASE CallOriginal(p)
  <2>1. AfterCall(table[arg[p].sys].f) \in Label \ {"log_inner"}
    BY <1>3, CommandEntry, AfterCallLabel DEF CallOriginal, UnlockedTest, EntryType
  <2> QED
    BY <1>3, <2>1, LockUnlocked DEF CallOriginal, UnlockedTest
<1>4. CASE ExitDel(p)
  BY <1>4, LockSection DEF ExitDel
<1>5. CASE ExitCall(p)
  <2>1. AfterCall(orig_exit_group) \in Label \ {"log_inner"}
    BY AfterCallLabel DEF orig_exit_group, Function, NULL
  <2> QED
    BY <1>5, <2>1, LockUnlocked DEF ExitCall, UnlockedTest
<1>6. CASE Return(p)
  BY <1>6, LockUnlocked DEF Return
<1> QED
  BY <1>1, <1>2, <1>3, <1>4, <1>5, <1>6 DEF CallStep

\* A process that issues a call, dies or is created holds no lock.
LEMMA LockEnvironment ==
  ASSUME TypeInv, LockDiscipline, NEW p \in Pid, Environment(p)
  PROVE  LockDiscipline'
<1> USE DEF Label, CalltableSections, PidlistSections, Unlocked, Results
<1>1. ASSUME NEW s \in 1 .. NR_syscalls - 1, Dispatch(p, s) PROVE LockDiscipline'
  <2>1. AfterCall(sys_call_table[s]) \in Label \ {"log_inner"}
    BY AfterCallLabel DEF TypeInv, TypeOK, Slot
  <2> QED
    BY <1>1, <2>1, LockUnlocked DEF Dispatch
<1>2. ASSUME NEW cmd \in Command, NEW s \in Target, NEW q \in PidArg, MySyscall(p, cmd, s, q)
      PROVE  LockDiscipline'
  BY <1>2, LockUnlocked DEF MySyscall, FirstLabel
<1>3. CASE Die(p) \/ Spawn(p)
  BY <1>3, LockUnlocked DEF Die, Spawn
<1> QED
  BY <1>1, <1>2, <1>3 DEF Environment

\* Every step keeps the discipline.
LEMMA LockStep == TypeInv /\ LockDiscipline /\ [Next]_vars => LockDiscipline'
<1> SUFFICES ASSUME TypeInv, LockDiscipline, [Next]_vars PROVE LockDiscipline'
  OBVIOUS
<1>1. CASE UNCHANGED vars
  BY <1>1 DEF vars, LockDiscipline
<1>2. ASSUME NEW p \in Pid, Step(p) PROVE LockDiscipline'
  BY <1>2, LockCommands, LockCall DEF Step
<1>3. ASSUME NEW p \in Pid, SpinLockCalltable(p) PROVE LockDiscipline'
  BY <1>3 DEF SpinLockCalltable, LockDiscipline, TypeInv, TypeOK
<1>4. ASSUME NEW p \in Pid, SpinLockPidlist(p) PROVE LockDiscipline'
  BY <1>4 DEF SpinLockPidlist, LockDiscipline
<1>5. ASSUME NEW p \in Pid, Environment(p) PROVE LockDiscipline'
  BY <1>5, LockEnvironment
<1> QED
  BY <1>1, <1>2, <1>3, <1>4, <1>5 DEF Next

\* Every path gives back the locks it takes, and the two locks are only nested
\* one way, for any number of processes.
THEOREM LocksGivenBack == Spec => []LockDiscipline
<1>1. Init => LockDiscipline
  BY DEF Init, LockDiscipline
<1> QED
  BY <1>1, TypeInit, TypeStep, LockStep, PTL DEF Spec

-----------------------------------------------------------------------------
(* The system call table. *)

HookInv == HookIntegrity /\ FlagFollowsHook

\* No kernel or module function that a slot starts with is the interceptor.
LEMMA UnderlyingFunction ==
  ASSUME NEW s \in Slot
  PROVE  Underlying(s) # interceptor
BY DEF Underlying, interceptor, my_syscall, my_exit_group, Slot

\* A step that changes neither slots nor what `table` says of them, and is not
\* the last step of an INTERCEPT or a RELEASE.
LEMMA HookMove ==
  ASSUME TypeInv, HookInv, NEW p \in Pid, NEW l \in Label, Goto(p, l),
         UNCHANGED <<sys_call_table, arg>>, KeepsHooks,
         l \notin RootOnly,
         pc[p] \notin {"intercept_mark", "release_clear"},
         l \in Intercepted => pc[p] \in Intercepted
  PROVE  HookInv'
<1>1. \A s \in 1 .. NR_syscalls : /\ table'[s].f = table[s].f
                                  /\ table'[s].intercepted = table[s].intercepted
  BY DEF KeepsHooks, Slot
<1>2. \A q \in Pid : pc[q] \notin Results \cup {"idle", "dead"} => arg[q].sys \in 1 .. NR_syscalls
  BY DEF TypeInv, ArgsChecked
<1>3. /\ pc'[p] = l
      /\ \A q \in Pid : q # p => pc'[q] = pc[q]
  BY GotoType DEF TypeInv, TypeOK
<1>4. HookIntegrity'
  BY <1>1, <1>2, <1>3 DEF HookInv, HookIntegrity, Intercepted, Results
<1>5. FlagFollowsHook'
  BY <1>1, <1>2, <1>3 DEF HookInv, FlagFollowsHook, RootOnly, Hooked, Marked, Results, Root
<1> QED
  BY <1>4, <1>5 DEF HookInv

\* Nothing of the table changes.
LEMMA KeepsTable == UNCHANGED table => KeepsHooks
BY DEF KeepsHooks

\* The assignments to `monitored`.
LEMMA KeepsMonitored ==
  ASSUME TypeInv, NEW s \in Slot, NEW m, table' = [table EXCEPT ![s].monitored = m]
  PROVE  KeepsHooks
BY DEF KeepsHooks, TypeInv, TypeOK, EntryType

\* START changes neither slots nor marks, and stays out of root's sections.
LEMMA HookStart ==
  ASSUME TypeInv, HookInv, NEW p \in Pid, StartStep(p)
  PROVE  HookInv'
<1> DEFINE s == arg[p].sys
           q == arg[p].pid
<1> USE DEF Label, CalltableSections, PidlistSections, Unlocked, Results, OnePid, RootOnly, Intercepted
<1>1. CASE StartCheck(p) \/ StartAllCheck(p) \/ StartMode(p)
  BY <1>1, HookMove, KeepsTable DEF StartCheck, StartAllCheck, StartMode, PidlistTest, CalltableTest,
     PidlistSection, CalltableSection
<1>2. CASE StartArgs(p)
  BY <1>2, HookMove, KeepsTable DEF StartArgs, ArgsLabel, UnlockedTest
<1>3. CASE StartOwner(p)
  BY <1>3, HookMove, KeepsTable DEF StartOwner, OwnerLabel, UnlockedTest
<1>4. CASE StartAllClear(p)
  <2>1. KeepsHooks
    BY <1>4, CommandEntry, DestroyListStep DEF StartAllClear, PidlistSection
  <2> QED
    BY <1>4, <2>1, HookMove DEF StartAllClear, PidlistSection
<1>5. CASE StartAllSet(p)
  <2>1. KeepsHooks
    BY <1>5, CommandEntry, KeepsMonitored DEF StartAllSet, CalltableSection
  <2> QED
    BY <1>5, <2>1, HookMove DEF StartAllSet, CalltableSection
<1>6. CASE StartFirstSet(p)
  <2>1. KeepsHooks
    BY <1>6, CommandEntry, KeepsMonitored DEF StartFirstSet, CalltableSection
  <2> QED
    BY <1>6, <2>1, HookMove DEF StartFirstSet, CalltableSection
<1>7. CASE StartUnblock(p)
  <2>1. s \in Slot /\ q \in Pid
    BY <1>7, CommandEntry DEF StartUnblock, PidlistSection, TypeInv, ArgsChecked
  <2>2. KeepsHooks
    BY <1>7, <2>1, DelPidSyscStep, KeepsTable DEF StartUnblock
  <2> QED
    BY <1>7, <2>2, HookMove DEF StartUnblock, PidlistSection
<1>8. CASE StartAdd(p) \/ StartFirst(p)
  <2>1. s \in Slot /\ q \in Pid
    BY <1>8, CommandEntry DEF StartAdd, StartFirst, PidlistSection, TypeInv, ArgsChecked
  <2>2. \E l \in {"OK", "EBUSY", "ENOMEM", "start_first_set"} : Goto(p, l) /\ KeepsHooks
    BY <1>8, <2>1, AddOrFailType, KeepsTable DEF StartAdd, StartFirst
  <2> QED
    BY <1>8, <2>2, HookMove DEF StartAdd, StartFirst, PidlistSection
<1> QED
  BY <1>1, <1>2, <1>3, <1>4, <1>5, <1>6, <1>7, <1>8 DEF StartStep

\* STOP changes neither slots nor marks, and stays out of root's sections.
LEMMA HookStop ==
  ASSUME TypeInv, HookInv, NEW p \in Pid, StopStep(p)
  PROVE  HookInv'
<1> DEFINE s == arg[p].sys
           q == arg[p].pid
<1> USE DEF Label, CalltableSections, PidlistSections, Unlocked, Results, OnePid, RootOnly, Intercepted
<1>1. CASE StopCheck(p) \/ StopAllCheck(p) \/ StopMode(p)
  BY <1>1, HookMove, KeepsTable DEF StopCheck, StopAllCheck, StopMode, PidlistTest, CalltableTest,
     PidlistSection, CalltableSection
<1>2. CASE StopArgs(p)
  BY <1>2, HookMove, KeepsTable DEF StopArgs, ArgsLabel, UnlockedTest
<1>3. CASE StopOwner(p)
  BY <1>3, HookMove, KeepsTable DEF StopOwner, OwnerLabel, UnlockedTest
<1>4. CASE StopAllClear(p)
  <2>1. KeepsHooks
    BY <1>4, CommandEntry, DestroyListStep DEF StopAllClear, PidlistSection
  <2> QED
    BY <1>4, <2>1, HookMove DEF StopAllClear, PidlistSection
<1>5. CASE StopDel(p)
  <2>1. s \in Slot /\ q \in Pid
    BY <1>5, CommandEntry DEF StopDel, PidlistSection, TypeInv, ArgsChecked
  <2>2. KeepsHooks
    BY <1>5, <2>1, DelPidSyscStep, KeepsTable DEF StopDel
  <2> QED
    BY <1>5, <2>2, HookMove DEF StopDel, PidlistSection
<1>6. CASE StopBlock(p)
  <2>1. s \in Slot /\ q \in Pid
    BY <1>6, CommandEntry DEF StopBlock, PidlistSection, TypeInv, ArgsChecked
  <2>2. \E l \in {"OK", "EINVAL", "ENOMEM"} : Goto(p, l) /\ KeepsHooks
    BY <1>6, <2>1, AddOrFailType, KeepsTable DEF StopBlock
  <2> QED
    BY <1>6, <2>2, HookMove DEF StopBlock, PidlistSection
<1> QED
  BY <1>1, <1>2, <1>3, <1>4, <1>5, <1>6 DEF StopStep

\* Calls and exits change neither slots nor marks, and go on to the slot's own
\* function.
LEMMA HookCall ==
  ASSUME TypeInv, HookInv, NEW p \in Pid, CallStep(p)
  PROVE  HookInv'
<1> DEFINE s == arg[p].sys
<1> USE DEF Label, CalltableSections, PidlistSections, Unlocked, Results, RootOnly, Intercepted
<1>1. CASE LogOuter(p)
  BY <1>1, HookMove, KeepsTable DEF LogOuter
<1>2. CASE LogInner(p)
  BY <1>2, HookMove, KeepsTable DEF LogInner
<1>3. CASE CallOriginal(p)
  <2>1. AfterCall(table[s].f) \in {"log_outer", "exit_del", "killed", "OK"}
    BY <1>3, CommandEntry, AfterCallLabel DEF CallOriginal, UnlockedTest, EntryType
  <2> QED
    BY <1>3, <2>1, HookMove, KeepsTable DEF CallOriginal, UnlockedTest
<1>4. CASE ExitDel(p)
  <2>1. KeepsHooks
    BY <1>4, DelPidStep DEF ExitDel
  <2> QED
    BY <1>4, <2>1, HookMove DEF ExitDel, PidlistSection
<1>5. CASE ExitCall(p)
  <2>1. AfterCall(orig_exit_group) = "OK"
    BY DEF AfterCall, orig_exit_group, interceptor, my_exit_group, NULL
  <2> QED
    BY <1>5, <2>1, HookMove, KeepsTable DEF ExitCall, UnlockedTest
<1>6. CASE Return(p)
  <2>1. \E l \in {"idle", "dead"} : Goto(p, l)
    BY <1>6 DEF Return
  <2>2. /\ pc[p] \in Results /\ pc'[p] \in {"idle", "dead"}
        /\ \A q \in Pid : q # p => pc'[q] = pc[q] /\ arg'[q] = arg[q]
        /\ UNCHANGED <<sys_call_table, table>>
    BY <1>6, <2>1, GotoType DEF Return, TypeInv, TypeOK
  <2>3. HookIntegrity'
    BY <2>2 DEF HookInv, HookIntegrity
  <2>4. FlagFollowsHook'
    BY <2>2 DEF HookInv, FlagFollowsHook, Hooked, Marked, Root
  <2> QED
    BY <2>3, <2>4 DEF HookInv
<1> QED
  BY <1>1, <1>2, <1>3, <1>4, <1>5, <1>6 DEF CallStep

\* A step in which only p's call begins.
LEMMA HookEnter ==
  ASSUME TypeInv, HookInv, NEW p \in Pid, NEW l \in Label, Goto(p, l),
         UNCHANGED <<sys_call_table, table>>,
         pc[p] \in {"idle", "dead"},
         \A q \in Pid : q # p => arg'[q] = arg[q],
         l \in RootOnly => l \in {"intercept_check", "release_check"} /\ Root(p),
         l \in Intercepted => table[arg'[p].sys].f = Underlying(arg'[p].sys)
  PROVE  HookInv'
<1>1. /\ pc'[p] = l
      /\ \A q \in Pid : q # p => pc'[q] = pc[q]
  BY GotoType DEF TypeInv, TypeOK
<1>2. HookIntegrity'
  BY <1>1 DEF HookInv, HookIntegrity
<1>3. FlagFollowsHook'
  BY <1>1 DEF HookInv, FlagFollowsHook, Hooked, Marked, RootOnly, Root
<1> QED
  BY <1>2, <1>3 DEF HookInv

\* A call enters the interceptor only through a hooked slot, and only root enters
\* INTERCEPT and RELEASE.
LEMMA HookEnvironment ==
  ASSUME TypeInv, HookInv, NEW p \in Pid, Environment(p)
  PROVE  HookInv'
<1> USE DEF Label, CalltableSections, PidlistSections, Unlocked, Results, RootOnly, Intercepted
<1>1. ASSUME NEW s \in 1 .. NR_syscalls - 1, Dispatch(p, s) PROVE HookInv'
  <2> DEFINE l == AfterCall(sys_call_table[s])
  <2>1. l \in {"log_outer", "exit_del", "killed", "OK"}
    BY AfterCallLabel DEF TypeInv, TypeOK, Slot
  <2>2. l = "log_outer" => table[s].f = Underlying(s)
    BY DEF AfterCall, HookInv, HookIntegrity
  <2>3. arg'[p].sys = s /\ \A q \in Pid : q # p => arg'[q] = arg[q]
    BY <1>1 DEF Dispatch, TypeInv, TypeOK
  <2>4. Goto(p, l) /\ UNCHANGED <<sys_call_table, table>> /\ pc[p] = "idle"
    BY <1>1 DEF Dispatch
  <2> HIDE DEF l
  <2> QED
    BY <2>1, <2>2, <2>3, <2>4, HookEnter
<1>2. ASSUME NEW cmd \in Command, NEW s \in Target, NEW q \in PidArg, MySyscall(p, cmd, s, q)
      PROVE  HookInv'
  <2> DEFINE l == FirstLabel(p, cmd, s)
  <2>1. /\ l \in {"EINVAL", "EPERM", "intercept_check", "release_check", "start_check", "stop_check"}
        /\ l \in {"intercept_check", "release_check"} => Root(p)
    BY DEF FirstLabel, Root
  <2>2. \A o \in Pid : o # p => arg'[o] = arg[o]
    BY <1>2 DEF MySyscall, TypeInv, TypeOK
  <2>3. Goto(p, l) /\ UNCHANGED <<sys_call_table, table>> /\ pc[p] = "idle"
    BY <1>2 DEF MySyscall
  <2> HIDE DEF l
  <2> QED
    BY <2>1, <2>2, <2>3, HookEnter
<1>3. CASE Die(p) \/ Spawn(p)
  BY <1>3, HookEnter DEF Die, Spawn
<1> QED
  BY <1>1, <1>2, <1>3 DEF Environment

\* One process at most is between an INTERCEPT or RELEASE and its end: so it is
\* when one is root.
AloneInRoot == \A p, q \in Pid : pc[p] \in RootOnly /\ pc[q] \in RootOnly => p = q

\* A single root is alone between the sections of INTERCEPT and RELEASE.
LEMMA RootIsAlone == SingleRoot /\ HookInv => AloneInRoot
BY DEF SingleRoot, HookInv, FlagFollowsHook, AloneInRoot

\* INTERCEPT: when root is alone, a slot whose flag is clear is not hooked when the
\* flag has been tested, and still is not when the slot is overwritten.
LEMMA HookIntercept ==
  ASSUME AloneInRoot, TypeInv, HookInv, NEW p \in Pid, InterceptStep(p)
  PROVE  HookInv'
<1> DEFINE s == arg[p].sys
<1> USE DEF Label, CalltableSections, PidlistSections, Unlocked, Results, RootOnly, Intercepted
<1>1. CASE InterceptCheck(p)
  <2> DEFINE l == IF table[s].intercepted = 1 THEN "EBUSY" ELSE "intercept_hook"
  <2>1. /\ pc[p] = "intercept_check" /\ Goto(p, l)
        /\ UNCHANGED <<sys_call_table, table, arg>>
    BY <1>1 DEF InterceptCheck, PidlistTest, PidlistSection
  <2>2. s \in 1 .. NR_syscalls
    BY <2>1, CommandEntry
  <2>3. CASE Marked(s)
    BY <2>1, <2>3, HookMove, KeepsTable DEF Marked
  <2>4. CASE ~ Marked(s)
    <3>1. ~ Hooked(s)
      BY <2>1, <2>2, <2>4 DEF HookInv, FlagFollowsHook, AloneInRoot
    <3>2. pc'[p] = "intercept_hook" /\ \A q \in Pid : q # p => pc'[q] = pc[q]
      BY <2>1, <2>4, GotoType DEF Marked, TypeInv, TypeOK
    <3>3. HookIntegrity'
      BY <2>1, <3>2 DEF HookInv, HookIntegrity
    <3>4. FlagFollowsHook'
      BY <2>1, <2>4, <3>1, <3>2 DEF HookInv, FlagFollowsHook, Hooked, Marked, Root
    <3> QED
      BY <3>3, <3>4 DEF HookInv
  <2> QED
    BY <2>3, <2>4
<1>2. CASE InterceptHook(p)
  <2>1. /\ pc[p] = "intercept_hook" /\ Goto(p, "intercept_mark") /\ UNCHANGED arg
        /\ table' = [table EXCEPT ![s].f = sys_call_table[s]]
        /\ sys_call_table' = [sys_call_table EXCEPT ![s] = interceptor]
    BY <1>2 DEF InterceptHook, CalltableSection
  <2>2. s \in 1 .. NR_syscalls /\ s \in Slot
    BY <2>1, CommandEntry
  <2>3. ~ Hooked(s) /\ ~ Marked(s) /\ sys_call_table[s] = Underlying(s)
    BY <2>1, <2>2 DEF HookInv, FlagFollowsHook, HookIntegrity, Hooked
  <2>4. /\ table'[s].f = Underlying(s)
        /\ table'[s].intercepted = table[s].intercepted
        /\ sys_call_table'[s] = interceptor
        /\ \A t \in Slot : t # s => table'[t] = table[t] /\ sys_call_table'[t] = sys_call_table[t]
    BY <2>1, <2>2, <2>3 DEF TypeInv, TypeOK, EntryType
  <2>5. pc'[p] = "intercept_mark" /\ \A q \in Pid : q # p => pc'[q] = pc[q]
    BY <2>1, GotoType DEF TypeInv, TypeOK
  <2>6. \A q \in Pid : pc[q] \notin Results \cup {"idle", "dead"} => arg[q].sys \in Slot
    BY CommandEntry
  <2>7. HookIntegrity'
    BY <2>1, <2>2, <2>4, <2>5, <2>6 DEF HookInv, HookIntegrity, Slot
  <2>8. \A q \in Pid : q # p => pc[q] \notin RootOnly
    BY <2>1 DEF HookInv, FlagFollowsHook, AloneInRoot
  <2>9. FlagFollowsHook'
    <3>1. \A q \in Pid : pc'[q] \in RootOnly => Root(q)
      BY <2>1, <2>5 DEF HookInv, FlagFollowsHook, Root
    <3>2. \A q \in Pid : q # p => pc'[q] \notin RootOnly
      BY <2>5, <2>8
    <3>3. pc'[p] = "intercept_mark" /\ arg'[p].sys = s
      BY <2>1, <2>5
    <3>a. \A q \in Pid : pc[q] \notin {"intercept_mark", "release_clear"}
      BY <2>1, <2>8 DEF RootOnly
    <3>b. \A t \in 1 .. NR_syscalls : Hooked(t) <=> Marked(t)
      BY <3>a DEF HookInv, FlagFollowsHook
    <3>c. \A t \in 1 .. NR_syscalls : t # s =>
            (Hooked(t)' <=> Hooked(t)) /\ (Marked(t)' <=> Marked(t))
      BY <2>4 DEF Hooked, Marked, Slot
    <3>4. \A t \in 1 .. NR_syscalls : t # s => (Hooked(t)' <=> Marked(t)')
      BY <3>b, <3>c
    <3>5. Hooked(s)' /\ ~ Marked(s)'
      BY <2>1, <2>2, <2>3, <2>4 DEF Hooked, Marked, Slot
    <3> QED
      BY <3>1, <3>2, <3>3, <3>4, <3>5 DEF FlagFollowsHook, RootOnly
  <2> QED
    BY <2>7, <2>9 DEF HookInv
<1>3. CASE InterceptMark(p)
  <2>1. /\ pc[p] = "intercept_mark" /\ Goto(p, "OK") /\ UNCHANGED <<arg, sys_call_table>>
        /\ table' = [table EXCEPT ![s].intercepted = 1]
    BY <1>3 DEF InterceptMark, PidlistSection
  <2>2. s \in 1 .. NR_syscalls /\ s \in Slot
    BY <2>1, CommandEntry
  <2>3. /\ \A t \in Slot : table'[t].f = table[t].f
        /\ table'[s].intercepted = 1
        /\ \A t \in Slot : t # s => table'[t] = table[t]
    BY <2>1, <2>2 DEF TypeInv, TypeOK, EntryType
  <2>4. pc'[p] = "OK" /\ \A q \in Pid : q # p => pc'[q] = pc[q]
    BY <2>1, GotoType DEF TypeInv, TypeOK
  <2>5. \A q \in Pid : pc[q] \notin Results \cup {"idle", "dead"} => arg[q].sys \in Slot
    BY CommandEntry
  <2>6. HookIntegrity'
    BY <2>1, <2>3, <2>4, <2>5 DEF HookInv, HookIntegrity, Slot
  <2>7. \A q \in Pid : q # p => pc[q] \notin RootOnly
    BY <2>1 DEF HookInv, FlagFollowsHook, AloneInRoot
  <2>8. Hooked(s)
    BY <2>1 DEF HookInv, FlagFollowsHook
  <2>9. FlagFollowsHook'
    BY <2>1, <2>2, <2>3, <2>4, <2>7, <2>8 DEF HookInv, FlagFollowsHook, Hooked, Marked, Root, Slot
  <2> QED
    BY <2>6, <2>9 DEF HookInv
<1> QED
  BY <1>1, <1>2, <1>3 DEF InterceptStep

\* RELEASE: when root is alone, a slot whose flag is set is hooked when the flag has
\* been tested, so what is written back is what the slot started with.
LEMMA HookRelease ==
  ASSUME AloneInRoot, TypeInv, HookInv, NEW p \in Pid, ReleaseStep(p)
  PROVE  HookInv'
<1> DEFINE s == arg[p].sys
<1> USE DEF Label, CalltableSections, PidlistSections, Unlocked, Results, RootOnly, Intercepted
<1>1. CASE ReleaseCheck(p)
  <2> DEFINE l == IF table[s].intercepted = 0 THEN "EINVAL" ELSE "release_unhook"
  <2>1. /\ pc[p] = "release_check" /\ Goto(p, l)
        /\ UNCHANGED <<sys_call_table, table, arg>>
    BY <1>1 DEF ReleaseCheck, PidlistTest, PidlistSection
  <2>2. s \in 1 .. NR_syscalls /\ table[s].intercepted \in {0, 1}
    BY <2>1, CommandEntry DEF EntryType
  <2>3. CASE ~ Marked(s)
    BY <2>1, <2>2, <2>3, HookMove, KeepsTable DEF Marked
  <2>4. CASE Marked(s)
    <3>1. Hooked(s)
      <4>1. SUFFICES ASSUME ~ Hooked(s) PROVE FALSE
        OBVIOUS
      <4>2. PICK q \in Pid : pc[q] = "release_clear"
        BY <2>2, <2>4, <4>1 DEF HookInv, FlagFollowsHook
      <4> QED
        BY <2>1, <4>2 DEF AloneInRoot
    <3>2. pc'[p] = "release_unhook" /\ \A q \in Pid : q # p => pc'[q] = pc[q]
      BY <2>1, <2>4, GotoType DEF Marked, TypeInv, TypeOK
    <3>3. HookIntegrity'
      BY <2>1, <3>2 DEF HookInv, HookIntegrity
    <3>4. FlagFollowsHook'
      BY <2>1, <2>4, <3>1, <3>2 DEF HookInv, FlagFollowsHook, Hooked, Marked, Root
    <3> QED
      BY <3>3, <3>4 DEF HookInv
  <2> QED
    BY <2>3, <2>4
<1>2. CASE ReleaseUnhook(p)
  <2>1. /\ pc[p] = "release_unhook" /\ Goto(p, "release_clear") /\ UNCHANGED arg
        /\ table' = [table EXCEPT ![s].monitored = 0]
        /\ sys_call_table' = [sys_call_table EXCEPT ![s] = table[s].f]
    BY <1>2 DEF ReleaseUnhook, CalltableSection
  <2>2. s \in 1 .. NR_syscalls /\ s \in Slot
    BY <2>1, CommandEntry
  <2>3. Hooked(s) /\ Marked(s) /\ table[s].f = Underlying(s) /\ Underlying(s) # interceptor
    BY <2>1, <2>2, UnderlyingFunction DEF HookInv, FlagFollowsHook, HookIntegrity, Hooked
  <2>4. /\ KeepsHooks
        /\ sys_call_table'[s] = Underlying(s)
        /\ \A t \in Slot : t # s => sys_call_table'[t] = sys_call_table[t]
    BY <2>1, <2>2, <2>3, KeepsMonitored DEF TypeInv, TypeOK
  <2>5. pc'[p] = "release_clear" /\ \A q \in Pid : q # p => pc'[q] = pc[q]
    BY <2>1, GotoType DEF TypeInv, TypeOK
  <2>6. \A q \in Pid : pc[q] \notin Results \cup {"idle", "dead"} => arg[q].sys \in Slot
    BY CommandEntry
  <2>7. HookIntegrity'
    BY <2>1, <2>2, <2>3, <2>4, <2>5, <2>6 DEF HookInv, HookIntegrity, Slot, KeepsHooks
  <2>8. \A q \in Pid : q # p => pc[q] \notin RootOnly
    BY <2>1 DEF HookInv, FlagFollowsHook, AloneInRoot
  <2>9. FlagFollowsHook'
    <3>1. \A q \in Pid : pc'[q] \in RootOnly => Root(q)
      BY <2>1, <2>5 DEF HookInv, FlagFollowsHook, Root
    <3>2. \A q \in Pid : q # p => pc'[q] \notin RootOnly
      BY <2>5, <2>8
    <3>3. pc'[p] = "release_clear" /\ arg'[p].sys = s
      BY <2>1, <2>5
    <3>a. \A q \in Pid : pc[q] \notin {"intercept_mark", "release_clear"}
      BY <2>1, <2>8 DEF RootOnly
    <3>b. \A t \in 1 .. NR_syscalls : Hooked(t) <=> Marked(t)
      BY <3>a DEF HookInv, FlagFollowsHook
    <3>c. \A t \in 1 .. NR_syscalls : t # s =>
            (Hooked(t)' <=> Hooked(t)) /\ (Marked(t)' <=> Marked(t))
      BY <2>4 DEF Hooked, Marked, Slot, KeepsHooks
    <3>4. \A t \in 1 .. NR_syscalls : t # s => (Hooked(t)' <=> Marked(t)')
      BY <3>b, <3>c
    <3>5. ~ Hooked(s)' /\ Marked(s)'
      BY <2>1, <2>2, <2>3, <2>4 DEF Hooked, Marked, Slot, KeepsHooks
    <3> QED
      BY <3>1, <3>2, <3>3, <3>4, <3>5 DEF FlagFollowsHook, RootOnly
  <2> QED
    BY <2>7, <2>9 DEF HookInv
<1>3. CASE ReleaseClear(p)
  <2> DEFINE d == DestroyList(table[s])
             e == [d EXCEPT !.intercepted = 0]
  <2>1. /\ pc[p] = "release_clear" /\ Goto(p, "OK") /\ UNCHANGED <<arg, sys_call_table>>
        /\ SetEntry(s, e)
    BY <1>3 DEF ReleaseClear, PidlistSection
  <2>2. s \in 1 .. NR_syscalls /\ s \in Slot /\ table[s] \in EntryType
    BY <2>1, CommandEntry
  <2>3. d \in EntryType /\ d.f = table[s].f
    BY <2>2, DestroyListType
  <2> HIDE DEF d
  <2>4. e.f = table[s].f /\ e.intercepted = 0
    BY <2>3 DEF EntryType
  <2> HIDE DEF e
  <2>5. /\ \A t \in Slot : table'[t].f = table[t].f
        /\ table'[s].intercepted = 0
        /\ \A t \in Slot : t # s => table'[t] = table[t]
    BY <2>1, <2>2, <2>4 DEF SetEntry, TypeInv, TypeOK
  <2>6. pc'[p] = "OK" /\ \A q \in Pid : q # p => pc'[q] = pc[q]
    BY <2>1, GotoType DEF TypeInv, TypeOK
  <2>7. \A q \in Pid : pc[q] \notin Results \cup {"idle", "dead"} => arg[q].sys \in Slot
    BY CommandEntry
  <2>8. HookIntegrity'
    BY <2>1, <2>5, <2>6, <2>7 DEF HookInv, HookIntegrity, Slot
  <2>9. \A q \in Pid : q # p => pc[q] \notin RootOnly
    BY <2>1 DEF HookInv, FlagFollowsHook, AloneInRoot
  <2>10. ~ Hooked(s)
    BY <2>1 DEF HookInv, FlagFollowsHook
  <2>11. FlagFollowsHook'
    BY <2>1, <2>2, <2>5, <2>6, <2>9, <2>10 DEF HookInv, FlagFollowsHook, Hooked, Marked, Root, Slot
  <2> QED
    BY <2>8, <2>11 DEF HookInv
<1> QED
  BY <1>1, <1>2, <1>3 DEF ReleaseStep

\* Every step keeps hooks and marks in agreement.
LEMMA HookStep == AloneInRoot /\ TypeInv /\ HookInv /\ [Next]_vars => HookInv'
<1> SUFFICES ASSUME AloneInRoot, TypeInv, HookInv, [Next]_vars PROVE HookInv'
  OBVIOUS
<1>1. CASE UNCHANGED vars
  BY <1>1 DEF vars, HookInv, HookIntegrity, FlagFollowsHook, Hooked, Marked, Root
<1>2. ASSUME NEW p \in Pid, Step(p) PROVE HookInv'
  BY <1>2, HookIntercept, HookRelease, HookStart, HookStop, HookCall DEF Step
<1>3. ASSUME NEW p \in Pid, SpinLockCalltable(p) \/ SpinLockPidlist(p) PROVE HookInv'
  BY <1>3 DEF SpinLockCalltable, SpinLockPidlist, HookInv, HookIntegrity, FlagFollowsHook,
     Hooked, Marked, Root
<1>4. ASSUME NEW p \in Pid, Environment(p) PROVE HookInv'
  BY <1>4, HookEnvironment
<1> QED
  BY <1>1, <1>2, <1>3, <1>4 DEF Next

\* At the start no slot is hooked and none is marked.
LEMMA HookInit == Init => HookInv
<1> SUFFICES ASSUME Init PROVE HookInv
  OBVIOUS
<1>1. \A s \in Slot : sys_call_table[s] = Underlying(s) /\ ~ Hooked(s) /\ ~ Marked(s)
  BY UnderlyingFunction DEF Init, Hooked, Marked, EmptyEntry
<1>2. HookIntegrity
  BY <1>1 DEF Init, HookIntegrity, Hooked, Intercepted, Slot
<1>3. FlagFollowsHook
  BY <1>1 DEF Init, FlagFollowsHook, RootOnly, Slot
<1> QED
  BY <1>2, <1>3 DEF HookInv

\* The two invariants hold together: INTERCEPT's section may only save a slot
\* that the mark says is free, and marks are right only while slots are.
LEMMA HookInvariant ==
  ASSUME SingleRoot
  PROVE  Spec => []HookInv
<1>1. TypeInv /\ HookInv /\ [Next]_vars => HookInv'
  BY HookStep, RootIsAlone
<1> QED
  BY <1>1, TypeInit, TypeStep, HookInit, PTL DEF Spec

\* If one process at most is root, then whatever commands and calls overlap, a
\* slot holds its own function or the interceptor, and line 291 of interceptor
\* goes on to the function the slot started with.
THEOREM HooksIntact ==
  ASSUME SingleRoot
  PROVE  Spec => []HookIntegrity
<1>1. HookInv => HookIntegrity
  BY DEF HookInv
<1> QED
  BY <1>1, HookInvariant, PTL

\* If one process at most is root, `intercepted` disagrees with the system call
\* table only while root is between the two sections of INTERCEPT or RELEASE.
THEOREM MarksFollowHooks ==
  ASSUME SingleRoot
  PROVE  Spec => []FlagFollowsHook
<1>1. HookInv => FlagFollowsHook
  BY DEF HookInv
<1> QED
  BY <1>1, HookInvariant, PTL

-----------------------------------------------------------------------------
(* Counts.  A pid that is added is counted twice and one that a command takes  *)
(* off is uncounted twice, but an exit uncounts once: listcount is at least    *)
(* twice the length of the list, and that is inductive.                        *)

CountedTwice(e) == e.listcount >= 2 * Entries(e)
AllCountedTwice == \A s \in Slot : CountedTwice(table[s])

\* Entries is the sum of the list's multiplicities, and no pid is listed more often.
LEMMA EntriesTotal ==
  ASSUME NEW e \in EntryType
  PROVE  /\ Entries(e) = Total(e.my_list, Pid)
         /\ Entries(e) \in Nat
         /\ \A q \in Pid : e.my_list[q] <= Entries(e)
<1>1. e.my_list \in [Pid -> Nat] /\ e.my_list \in [Pid -> Int]
  BY DEF EntryType
<1>2. Entries(e) = Total(e.my_list, Pid)
  BY TotalIsMapThenSumSet DEF Entries
<1>3. /\ Total(e.my_list, Pid) \in Int /\ Total(e.my_list, Pid) >= 0
      /\ \A q \in Pid : Total(e.my_list, Pid) >= e.my_list[q]
  BY <1>1, TotalIsInt, TotalBounds
<1> HIDE DEF Entries
<1>4. Entries(e) \in Nat
  <2> DEFINE n == Total(e.my_list, Pid)
  <2>1. n \in Int /\ n >= 0
    BY <1>3
  <2> HIDE DEF n
  <2>2. n \in Nat
    BY <2>1
  <2> QED
    BY <1>2, <2>2 DEF n
<1>5. ASSUME NEW q \in Pid PROVE e.my_list[q] <= Entries(e)
  <2> DEFINE n == Total(e.my_list, Pid)
             k == e.my_list[q]
  <2>1. n \in Int /\ n >= k /\ k \in Int
    BY <1>1, <1>3
  <2> HIDE DEF n, k
  <2>2. k <= n
    BY <2>1
  <2> QED
    BY <1>2, <2>2 DEF n, k
<1> QED
  BY <1>2, <1>4, <1>5

\* A list that changes at q changes the sum by as much.
LEMMA ListTotal ==
  \A old, new \in [Pid -> Int] : \A x \in Pid :
    (\A r \in Pid \ {x} : new[r] = old[r])
      => Total(new, Pid) = Total(old, Pid) - old[x] + new[x]
BY TotalChanges

\* Only the list matters.
LEMMA EntriesSame ==
  ASSUME NEW e, NEW d, d.my_list = e.my_list
  PROVE  Entries(d) = Entries(e)
BY DEF Entries

\* add_pid_sysc adds one entry.
LEMMA AddPidCounts ==
  ASSUME NEW e \in EntryType, NEW q \in Pid, CountedTwice(e)
  PROVE  CountedTwice([AddPid(e, q) EXCEPT !.listcount = @ + 1])
<1> DEFINE d == [AddPid(e, q) EXCEPT !.listcount = @ + 1]
<1>1. d \in EntryType
  BY AddPidType
<1>2. d.my_list = [e.my_list EXCEPT ![q] = @ + 1] /\ d.listcount = e.listcount + 2
  BY DEF AddPid, EntryType
<1>3. e.my_list \in [Pid -> Int] /\ d.my_list \in [Pid -> Int] /\ e.listcount \in Int
  BY <1>1 DEF EntryType
<1> HIDE DEF d
<1>4. \A r \in Pid \ {q} : d.my_list[r] = e.my_list[r]
  BY <1>2, <1>3
<1>5. \A x \in Pid : (\A r \in Pid \ {x} : d.my_list[r] = e.my_list[r])
        => Total(d.my_list, Pid) = Total(e.my_list, Pid) - e.my_list[x] + d.my_list[x]
  BY <1>3, ListTotal, Zenon
<1>a. Total(d.my_list, Pid) = Total(e.my_list, Pid) - e.my_list[q] + d.my_list[q]
  BY <1>4, <1>5, Zenon
<1>b. d.my_list[q] = e.my_list[q] + 1
  BY <1>2, <1>3
<1>c. /\ Entries(e) = Total(e.my_list, Pid) /\ Entries(d) = Total(d.my_list, Pid)
      /\ Entries(e) \in Nat /\ Entries(d) \in Nat
  BY <1>1, EntriesTotal
<1>6. Entries(d) = Entries(e) + 1
  BY <1>3, <1>a, <1>b, <1>c
<1>7. CountedTwice(d)
  BY <1>2, <1>3, <1>6, EntriesTotal DEF CountedTwice
<1> QED
  BY <1>7 DEF d

\* Deleting copies of a pid takes as many off the list as off the count.
LEMMA DelCopiesCounts ==
  ASSUME NEW e \in EntryType, NEW q \in Pid, NEW n \in Nat, n <= e.my_list[q]
  PROVE  LET d == DelCopies(e, q, n) IN
         Entries(d) = Entries(e) - n /\ d.listcount = e.listcount - n /\ d \in EntryType
<1> DEFINE d == DelCopies(e, q, n)
<1>1. d \in EntryType
  BY DelCopiesType
<1>2. d.my_list = [e.my_list EXCEPT ![q] = @ - n] /\ d.listcount = e.listcount - n
  BY DEF DelCopies, EntryType
<1>3. e.my_list \in [Pid -> Int] /\ d.my_list \in [Pid -> Int] /\ e.listcount \in Int
  BY <1>1 DEF EntryType
<1> HIDE DEF d
<1>4. \A r \in Pid \ {q} : d.my_list[r] = e.my_list[r]
  BY <1>2, <1>3
<1>5. \A x \in Pid : (\A r \in Pid \ {x} : d.my_list[r] = e.my_list[r])
        => Total(d.my_list, Pid) = Total(e.my_list, Pid) - e.my_list[x] + d.my_list[x]
  BY <1>3, ListTotal, Zenon
<1>a. Total(d.my_list, Pid) = Total(e.my_list, Pid) - e.my_list[q] + d.my_list[q]
  BY <1>4, <1>5, Zenon
<1>b. d.my_list[q] = e.my_list[q] - n
  BY <1>2, <1>3
<1>c. /\ Entries(e) = Total(e.my_list, Pid) /\ Entries(d) = Total(d.my_list, Pid)
      /\ Entries(e) \in Nat /\ Entries(d) \in Nat
  BY <1>1, EntriesTotal
<1>6. Entries(d) = Entries(e) - n
  BY <1>3, <1>a, <1>b, <1>c
<1> QED
  BY <1>1, <1>2, <1>6 DEF d

\* del_pid uncounts each entry once.
LEMMA DelPidCounts ==
  ASSUME NEW e \in EntryType, NEW q \in Pid, CountedTwice(e)
  PROVE  CountedTwice(DelCopies(e, q, e.my_list[q]))
<1>1. e.my_list[q] \in Nat /\ e.listcount \in Int
  BY DEF EntryType
<1> QED
  BY <1>1, DelCopiesCounts, EntriesTotal DEF CountedTwice

\* del_pid_sysc and its caller uncount an entry twice.
LEMMA DelPidSyscCounts ==
  ASSUME NEW e \in EntryType, NEW q \in Pid, InList(e, q), CountedTwice(e)
  PROVE  CountedTwice([DelPidSysc(e, q) EXCEPT !.listcount = @ - 1])
<1> DEFINE c == DelPidSysc(e, q)
           d == [c EXCEPT !.listcount = @ - 1]
<1>1. 1 <= e.my_list[q] /\ e.listcount \in Int
  BY DEF InList, EntryType
<1>2. Entries(c) = Entries(e) - 1 /\ c.listcount = e.listcount - 1 /\ c \in EntryType
  BY <1>1, DelCopiesCounts DEF DelPidSysc
<1> HIDE DEF c
<1>3. d.my_list = c.my_list /\ d.listcount = e.listcount - 2
  BY <1>1, <1>2 DEF EntryType
<1>4. Entries(d) = Entries(e) - 1
  BY <1>2, <1>3, EntriesSame
<1> HIDE DEF d
<1>5. CountedTwice(d)
  BY <1>1, <1>3, <1>4, EntriesTotal DEF CountedTwice
<1> QED
  BY <1>5 DEF c, d

\* Nothing in the list is nothing to count.
LEMMA EmptyCounts ==
  ASSUME NEW e \in EntryType, \A q \in Pid : e.my_list[q] = 0
  PROVE  Entries(e) = 0 /\ (e.listcount = 0 => CountedTwice(e))
<1>1. e.my_list = [q \in Pid |-> 0]
  BY DEF EntryType
<1>2. Entries(e) = Total(e.my_list, Pid)
  BY EntriesTotal
<1>3. Entries(e) = 0
  BY <1>1, <1>2, TotalOfZeros
<1> QED
  BY <1>3 DEF CountedTwice

\* destroy_list leaves nothing to count.
LEMMA DestroyListCounts ==
  ASSUME NEW e \in EntryType
  PROVE  CountedTwice(DestroyList(e)) /\ \A q \in Pid : DestroyList(e).my_list[q] = 0
<1> DEFINE d == DestroyList(e)
<1>1. d \in EntryType
  BY DestroyListType
<1>2. (\A q \in Pid : d.my_list[q] = 0) /\ d.listcount = 0
  BY DEF DestroyList, EntryType
<1> HIDE DEF d
<1>3. CountedTwice(d)
  BY <1>1, <1>2, EmptyCounts
<1> QED
  BY <1>2, <1>3 DEF d

\* A fresh entry.
LEMMA EmptyEntryCounts ==
  /\ EmptyEntry \in EntryType /\ CountedTwice(EmptyEntry) /\ EmptyEntry.intercepted = 0
  /\ \A q \in Pid : EmptyEntry.my_list[q] = 0
<1>1. EmptyEntry \in EntryType
  <2>1. NULL \in Function /\ [q \in Pid |-> 0] \in [Pid -> Nat]
    BY DEF Function, NULL
  <2> QED
    BY <2>1 DEF EmptyEntry, EntryType
<1>2. /\ \A q \in Pid : EmptyEntry.my_list[q] = 0
      /\ EmptyEntry.listcount = 0 /\ EmptyEntry.intercepted = 0
  BY DEF EmptyEntry
<1> QED
  BY <1>1, <1>2, EmptyCounts

-----------------------------------------------------------------------------
\* A step that leaves every list and every count alone.
LEMMA CountsKept ==
  ASSUME AllCountedTwice,
         \A t \in Slot : /\ table'[t].my_list = table[t].my_list
                         /\ table'[t].listcount = table[t].listcount
  PROVE  AllCountedTwice'
<1>1. ASSUME NEW t \in Slot PROVE CountedTwice(table'[t])
  BY EntriesSame DEF AllCountedTwice, CountedTwice
<1> QED
  BY <1>1 DEF AllCountedTwice

\* A step that replaces one entry.
LEMMA CountsReplaced ==
  ASSUME TypeInv, AllCountedTwice, NEW s \in Slot, NEW e, CountedTwice(e), SetEntry(s, e)
  PROVE  AllCountedTwice'
<1>1. ASSUME NEW t \in Slot PROVE table'[t] = IF t = s THEN e ELSE table[t]
  BY DEF SetEntry, TypeInv, TypeOK
<1> QED
  BY <1>1 DEF AllCountedTwice

\* add_pid_sysc and the second increment, or -ENOMEM.
LEMMA AddOrFailCounts ==
  ASSUME TypeInv, AllCountedTwice, NEW p \in Pid, NEW l, AddOrFail(p, l),
         arg[p].pid \in Pid, arg[p].sys \in Slot
  PROVE  AllCountedTwice'
<1> DEFINE e == table[arg[p].sys]
           n == [AddPid(e, arg[p].pid) EXCEPT !.listcount = @ + 1]
<1>1. e \in EntryType /\ CountedTwice(e)
  BY DEF TypeInv, TypeOK, AllCountedTwice
<1>2. CountedTwice(n)
  BY <1>1, AddPidCounts
<1>3. SetEntry(arg[p].sys, n) \/ UNCHANGED table
  BY DEF AddOrFail
<1> HIDE DEF n
<1> QED
  BY <1>2, <1>3, CountsReplaced, CountsKept

\* del_pid_sysc and the second decrement, or nothing.
LEMMA DelPidSyscStepCounts ==
  ASSUME TypeInv, AllCountedTwice, NEW s \in Slot, NEW q \in Pid, InList(table[s], q),
         SetEntry(s, [DelPidSysc(table[s], q) EXCEPT !.listcount = @ - 1])
  PROVE  AllCountedTwice'
<1> DEFINE d == [DelPidSysc(table[s], q) EXCEPT !.listcount = @ - 1]
<1>1. table[s] \in EntryType /\ CountedTwice(table[s])
  BY DEF TypeInv, TypeOK, AllCountedTwice
<1>2. CountedTwice(d)
  BY <1>1, DelPidSyscCounts
<1>3. SetEntry(s, d)
  OBVIOUS
<1> HIDE DEF d
<1> QED
  BY <1>2, <1>3, CountsReplaced

\* destroy_list.
LEMMA DestroyListStepCounts ==
  ASSUME TypeInv, AllCountedTwice, NEW s \in Slot, SetEntry(s, DestroyList(table[s]))
  PROVE  AllCountedTwice'
<1>1. CountedTwice(DestroyList(table[s]))
  BY DestroyListCounts DEF TypeInv, TypeOK
<1> QED
  BY <1>1, CountsReplaced

\* del_pid.
LEMMA DelPidStepCounts ==
  ASSUME TypeInv, AllCountedTwice, NEW q \in Pid, table' = DelPid(q)
  PROVE  AllCountedTwice'
<1>1. ASSUME NEW s \in Slot PROVE CountedTwice(table'[s])
  <2>1. table[s] \in EntryType /\ CountedTwice(table[s])
    BY DEF TypeInv, TypeOK, AllCountedTwice
  <2>2. CountedTwice(DelCopies(table[s], q, table[s].my_list[q]))
    BY <2>1, DelPidCounts
  <2> QED
    BY <2>1, <2>2 DEF DelPid
<1> QED
  BY <1>1 DEF AllCountedTwice

\* INTERCEPT and RELEASE.
LEMMA CountIntercept ==
  ASSUME TypeInv, AllCountedTwice, NEW p \in Pid, InterceptStep(p) \/ ReleaseStep(p)
  PROVE  AllCountedTwice'
<1> DEFINE s == arg[p].sys
<1> USE DEF Results
<1>1. CASE InterceptCheck(p) \/ ReleaseCheck(p)
  BY <1>1, CountsKept DEF InterceptCheck, ReleaseCheck, PidlistTest
<1>2. CASE InterceptHook(p) \/ InterceptMark(p) \/ ReleaseUnhook(p)
  BY <1>2, CountsKept DEF InterceptHook, InterceptMark, ReleaseUnhook, TypeInv, TypeOK, EntryType
<1>3. CASE ReleaseClear(p)
  <2> DEFINE d == DestroyList(table[s])
             e == [d EXCEPT !.intercepted = 0]
  <2>1. s \in Slot /\ table[s] \in EntryType
    BY <1>3, CommandEntry DEF ReleaseClear, PidlistSection
  <2>2. d \in EntryType /\ CountedTwice(d)
    BY <2>1, DestroyListType, DestroyListCounts
  <2>3. SetEntry(s, e)
    BY <1>3 DEF ReleaseClear
  <2> HIDE DEF d
  <2>4. e.my_list = d.my_list /\ e.listcount = d.listcount
    BY <2>2 DEF EntryType
  <2> HIDE DEF e
  <2>5. CountedTwice(e)
    BY <2>2, <2>4, EntriesSame DEF CountedTwice
  <2> QED
    BY <2>1, <2>3, <2>5, CountsReplaced
<1> QED
  BY <1>1, <1>2, <1>3 DEF InterceptStep, ReleaseStep

\* START.
LEMMA CountStart ==
  ASSUME TypeInv, AllCountedTwice, NEW p \in Pid, StartStep(p)
  PROVE  AllCountedTwice'
<1> DEFINE s == arg[p].sys
           q == arg[p].pid
<1> USE DEF Results, OnePid
<1>1. CASE StartCheck(p) \/ StartArgs(p) \/ StartOwner(p) \/ StartAllCheck(p) \/ StartMode(p)
  BY <1>1, CountsKept DEF StartCheck, StartArgs, StartOwner, StartAllCheck, StartMode,
                          PidlistTest, CalltableTest, UnlockedTest
<1>2. CASE StartAllSet(p) \/ StartFirstSet(p)
  <2>1. s \in Slot /\ table \in [Slot -> EntryType]
    BY <1>2, CommandEntry DEF StartAllSet, StartFirstSet, CalltableSection, TypeInv, TypeOK
  <2>2. \E m : table' = [table EXCEPT ![s].monitored = m]
    BY <1>2, Zenon DEF StartAllSet, StartFirstSet
  <2>3. \A t \in Slot : /\ table'[t].my_list = table[t].my_list
                       /\ table'[t].listcount = table[t].listcount
    BY <2>1, <2>2 DEF EntryType
  <2> QED
    BY <2>3, CountsKept
<1>3. CASE StartAllClear(p)
  <2>1. s \in Slot
    BY <1>3, CommandEntry DEF StartAllClear, PidlistSection
  <2> QED
    BY <1>3, <2>1, DestroyListStepCounts DEF StartAllClear
<1>4. CASE StartUnblock(p)
  <2>1. s \in Slot /\ q \in Pid
    BY <1>4, CommandEntry DEF StartUnblock, PidlistSection, TypeInv, ArgsChecked
  <2>2. CASE InList(table[s], q)
    BY <1>4, <2>1, <2>2, DelPidSyscStepCounts DEF StartUnblock
  <2>3. CASE UNCHANGED table
    BY <2>3, CountsKept
  <2> QED
    BY <1>4, <2>2, <2>3 DEF StartUnblock
<1>5. CASE StartAdd(p) \/ StartFirst(p)
  <2>1. s \in Slot /\ q \in Pid
    BY <1>5, CommandEntry DEF StartAdd, StartFirst, PidlistSection, TypeInv, ArgsChecked
  <2>2. UNCHANGED table \/ \E l : AddOrFail(p, l)
    BY <1>5 DEF StartAdd, StartFirst
  <2> QED
    BY <2>1, <2>2, AddOrFailCounts, CountsKept
<1> QED
  BY <1>1, <1>2, <1>3, <1>4, <1>5 DEF StartStep

\* STOP.
LEMMA CountStop ==
  ASSUME TypeInv, AllCountedTwice, NEW p \in Pid, StopStep(p)
  PROVE  AllCountedTwice'
<1> DEFINE s == arg[p].sys
           q == arg[p].pid
<1> USE DEF Results, OnePid
<1>1. CASE StopCheck(p) \/ StopArgs(p) \/ StopOwner(p) \/ StopAllCheck(p) \/ StopMode(p)
  BY <1>1, CountsKept DEF StopCheck, StopArgs, StopOwner, StopAllCheck, StopMode,
                          PidlistTest, CalltableTest, UnlockedTest
<1>2. CASE StopAllClear(p)
  <2>1. s \in Slot
    BY <1>2, CommandEntry DEF StopAllClear, PidlistSection
  <2> QED
    BY <1>2, <2>1, DestroyListStepCounts DEF StopAllClear
<1>3. CASE StopDel(p)
  <2>1. s \in Slot /\ q \in Pid
    BY <1>3, CommandEntry DEF StopDel, PidlistSection, TypeInv, ArgsChecked
  <2>2. CASE InList(table[s], q)
    BY <1>3, <2>1, <2>2, DelPidSyscStepCounts DEF StopDel
  <2>3. CASE UNCHANGED table
    BY <2>3, CountsKept
  <2> QED
    BY <1>3, <2>2, <2>3 DEF StopDel
<1>4. CASE StopBlock(p)
  <2>1. s \in Slot /\ q \in Pid
    BY <1>4, CommandEntry DEF StopBlock, PidlistSection, TypeInv, ArgsChecked
  <2>2. UNCHANGED table \/ AddOrFail(p, "OK")
    BY <1>4 DEF StopBlock
  <2> QED
    BY <2>1, <2>2, AddOrFailCounts, CountsKept
<1> QED
  BY <1>1, <1>2, <1>3, <1>4 DEF StopStep

\* Every step.
LEMMA CountStep ==
  ASSUME TypeInv, AllCountedTwice, [Next]_vars
  PROVE  AllCountedTwice'
<1>1. ASSUME NEW p \in Pid, CallStep(p) PROVE AllCountedTwice'
  <2>1. table' = DelPid(p) \/ UNCHANGED table
    BY <1>1 DEF CallStep, LogOuter, LogInner, CallOriginal, ExitDel, ExitCall, Return, UnlockedTest
  <2> QED
    BY <2>1, DelPidStepCounts, CountsKept
<1>2. ASSUME NEW p \in Pid, SpinLockCalltable(p) \/ SpinLockPidlist(p) \/ Environment(p)
      PROVE  AllCountedTwice'
  <2>1. UNCHANGED table
    BY <1>2 DEF SpinLockCalltable, SpinLockPidlist, Environment, Dispatch, MySyscall, Die, Spawn
  <2> QED
    BY <2>1, CountsKept
<1>3. CASE UNCHANGED vars
  BY <1>3, CountsKept DEF vars
<1> QED
  BY <1>1, <1>2, <1>3, CountIntercept, CountStart, CountStop DEF Next, Step

\* Twice as many are as many.
LEMMA CountedSuffices == TypeInv /\ AllCountedTwice => ListedIsCounted
<1> SUFFICES ASSUME TypeInv, AllCountedTwice, NEW s \in Slot
             PROVE  table[s].listcount >= Entries(table[s])
  BY DEF ListedIsCounted
<1>1. table[s] \in EntryType /\ CountedTwice(table[s])
  BY DEF TypeInv, TypeOK, AllCountedTwice
<1>2. table[s].listcount \in Int
  BY <1>1 DEF EntryType
<1> QED
  BY <1>1, <1>2, EntriesTotal DEF CountedTwice

\* Whatever adds, deletions and exits overlap, listcount stays no less than the
\* length of the list (by AllCountedTwice, than twice that), so the automatic stop
\* never cuts off a pid that is still listed.
THEOREM CountsCoverLists == Spec => []ListedIsCounted
<1>1. Init => AllCountedTwice
  BY EmptyEntryCounts DEF Init, AllCountedTwice
<1> QED
  BY <1>1, CountedSuffices, CountStep, TypeInit, TypeStep, PTL DEF Spec

=============================================================================
