------------------------- MODULE RMSchedulerProofs -------------------------
(***************************************************************************)
(* Theorems about RMScheduler on one processor (Preemptible = FALSE), for  *)
(* every set of applications, every task set and every bound on time: the  *)
(* safety properties, that it implements RateMonotonic, that the load of   *)
(* the admitted tasks is bounded, and that the calls of admission_control  *)
(* are atomic.                                                             *)
(***************************************************************************)
EXTENDS RMSchedulerInvariant, RMRefinement

(***************************************************************************)
(* The invariant implies the safety properties.                            *)
(***************************************************************************)
LEMMA InvSafety ==
  ASSUME Inv
  PROVE  NoDangling /\ RunningIsCurrent /\ NoOrphanSleeper /\ OnlyCurrentAtRTPriority
<1>a. /\ HEAD \in Seq(Apps) /\ curr_tsk \in Apps \cup {NULL} /\ pc \in [Apps -> AppPcs]
      /\ Exclusive /\ Lifecycle /\ Membership /\ Fields /\ Current /\ Choice /\ Scan
  BY Zenon DEF Inv, TypeOK, AppType
<1> USE AppsAssumption, <1>a
<1>b. Linked \subseteq Apps
  BY RangeFact, Zenon DEF Linked
<1>c. Passing => \A p \in Apps : ~Held(p)
  BY Zenon DEF Exclusive
<1>1. ASSUME dpc = "scan" PROVE Usable(itr) /\ (tmp # NULL => tmp \in Linked)
  <2>1. PICK i \in 1..Len(HEAD) :
          itr = HEAD[i] /\ tmp = IF i < Len(HEAD) THEN HEAD[i + 1] ELSE NULL
    BY <1>1, Zenon DEF Scan
  <2>2. itr \in Linked /\ (tmp # NULL => tmp \in Linked)
    BY <2>1, RangeFact DEF Linked
  <2> QED BY <1>1, <1>b, <1>c, <2>2, Zenon DEF Usable, Passing, Held
<1>2. /\ (dpc \in {"scan", "decide"} \/ Choosing) /\ next # NULL => Usable(next)
      /\ dpc = "old" => Usable(old)
      /\ curr_tsk # NULL => Usable(curr_tsk)
  BY Zenon DEF Choice, Current, CurrentOf, Usable, Choosing
<1>3. \A p \in Apps : tm[p] # 0 => Usable(p)
  BY Zenon DEF Fields, FieldsOf, Membership, InHandler, Usable
<1>4. NoDangling
  BY <1>1, <1>2, <1>3, Zenon DEF NoDangling, Choosing
<1>5. RunningIsCurrent
  BY <1>b, Zenon DEF RunningIsCurrent, Current, CurrentOf, Managed
<1>6. NoOrphanSleeper
  <2> SUFFICES ASSUME NEW p \in Apps, pc[p] = "schedule", lstate[p] = "UNINTERRUPTIBLE"
               PROVE  /\ Usable(p) /\ p # curr_tsk
                      /\ (state[p] = SLEEPING /\ tm[p] # 0) \/ state[p] = READY
    BY Zenon DEF NoOrphanSleeper
  <2>1. FieldsOf(p) /\ CurrentOf(p) /\ p \in Linked
    BY Zenon DEF Fields, Current, Membership, InHandler
  <2> QED BY <2>1, Zenon DEF FieldsOf, CurrentOf, Usable
<1>7. OnlyCurrentAtRTPriority
  <2> SUFFICES ASSUME mod = "live", NEW p \in Linked, pc[p] = "user", policy[p] = "FIFO"
               PROVE  p = curr_tsk \/ (dpc = "new_curr" /\ p = next)
    BY Zenon DEF OnlyCurrentAtRTPriority
  <2>1. FieldsOf(p) /\ CurrentOf(p)
    BY <1>b, Zenon DEF Fields, Current
  <2>2. lstate[p] = "RUNNING"
    BY <2>1, <1>b, Zenon DEF FieldsOf, Inv, TypeOK, LinuxType
  <2> QED BY <2>1, <2>2, Zenon DEF CurrentOf, Managed
<1> QED BY <1>4, <1>5, <1>6, <1>7, Zenon

(***************************************************************************)
(* From a state of the invariant only set_old_task (mp2.c:342) takes a     *)
(* task from RUNNING to READY, and then the chosen task has a period that  *)
(* is not longer.                                                          *)
(***************************************************************************)
LEMMA PreemptsStep == ASSUME Inv, [Next]_vars, ~Preemptible PROVE [Preempts]_vars
<1> SUFFICES ASSUME NEW q \in Linked, state[q] = RUNNING, state'[q] = READY,
                    pc[q] # "reg_fill", Next
             PROVE  Period[next] <= Period[q]
  BY Zenon DEF Preempts
<1>a. /\ HEAD \in Seq(Apps) /\ state \in [Apps -> States] /\ min_period \in Nat
      /\ next \in Apps \cup {NULL}
      /\ Exclusive /\ Lifecycle /\ Membership /\ Fields /\ Choice /\ Scan
  BY Zenon DEF Inv, TypeOK, RecordType, ScanType
<1>b. q \in Apps
  BY <1>a, RangeFact, Zenon DEF Linked
<1> USE AppsAssumption, <1>a, <1>b DEF SLEEPING, READY, RUNNING, record
<1>1. CASE set_old_task
  <2>1. dpc = "old" /\ next # NULL
    BY <1>1, Zenon DEF set_old_task, Choice, Choosing
  <2>2. min_period = Period[next] /\ min_period <= Period[q]
    BY <2>1, Zenon DEF Scan, Choosing
  <2> QED BY <2>2, Zenon
<1>2. ASSUME NEW p \in Apps, yield_entry(p) PROVE FALSE
  <2>1. q = p /\ next_period[p] = 0 /\ pc[p] = "user"
    BY <1>2, Zenon DEF yield_entry
  <2> QED BY <2>1, Zenon DEF Fields, FieldsOf
<1>3. ASSUME NEW p \in Apps, reg_link(p) PROVE FALSE
  <2>1. q = p /\ pc[p] = "reg_link"
    BY <1>3, Zenon DEF reg_link
  <2> QED BY <2>1, Zenon DEF Membership
<1>4. ASSUME new_run \/ state' = state PROVE FALSE
  BY <1>4, Zenon DEF new_run
<1>5. ASSUME NEW p \in Apps, reg_fill(p) \/ sleep_state(p) \/ tm_callback(p) PROVE FALSE
  BY <1>5, Zenon DEF reg_fill, sleep_state, tm_callback
<1>6. ASSUME mp2_init \/ proc_remove \/ mp2_exit \/ Tick PROVE state' = state
  BY <1>6, Zenon DEF mp2_init, proc_remove, mp2_exit, freeall, free_next, kthread_stop,
              cache_destroy, Tick
<1>7. ASSUME \/ dispatch_top \/ dispatch_scan \/ dispatch_decide \/ new_wake \/ new_curr
             \/ dispatch_sleep
      PROVE  state' = state
  BY <1>7, Zenon DEF dispatch_top, dispatch_scan, dispatch_decide, new_wake, new_curr, dispatch_sleep
<1>8. ASSUME NEW p \in Apps,
             \/ reg_check(p) \/ reg_write(p) \/ check(p) \/ sleep_curr(p) \/ sleep_block(p)
             \/ yield_arm(p) \/ yield_wake(p) \/ resume(p)
             \/ dereg_entry(p) \/ dereg_read(p) \/ dereg_write(p) \/ dereg_free(p)
             \/ dereg_wake(p) \/ write_fails(p)
      PROVE  state' = state
  BY <1>8, Zenon DEF reg_check, reg_write, check, sleep_curr, sleep_block, yield_arm, yield_wake,
     resume, dereg_entry, dereg_read, dereg_write, dereg_free, dereg_wake, write_fails
<1> QED BY <1>1, <1>2, <1>3, <1>4, <1>5, <1>6, <1>7, <1>8 DEF Next, userapp, dispatch_fn

(***************************************************************************)
(* Every variable of the module keeps its type: what the handlers, the     *)
(* dispatcher, the timers and rmmod store is what the others read.         *)
(***************************************************************************)
THEOREM TypesKept == ASSUME ~Preemptible PROVE Spec => []TypeOK
<1>1. Inv => TypeOK
  BY Zenon DEF Inv
<1> QED BY Invariance, <1>1, PTL

(***************************************************************************)
(* On one processor no pass of the dispatcher, no yield and no removal     *)
(* follows a record that is freed or not filled in yet, although no lock   *)
(* is taken (mp2.c:157-264, 348-395).                                      *)
(***************************************************************************)
THEOREM NothingDangles == ASSUME ~Preemptible PROVE Spec => []NoDangling
<1>1. Inv => NoDangling
  BY InvSafety, Zenon
<1> QED BY Invariance, <1>1, PTL

(***************************************************************************)
(* On one processor the task that is RUNNING is curr_tsk whenever no code  *)
(* of the module is in the middle of changing that (set_old_task,          *)
(* set_new_task, set_task_sleep, mp2.c:198-210, 325-345).                  *)
(***************************************************************************)
THEOREM CurrentRuns == ASSUME ~Preemptible PROVE Spec => []RunningIsCurrent
<1>1. Inv => RunningIsCurrent
  BY InvSafety, Zenon
<1> QED BY Invariance, <1>1, PTL

(***************************************************************************)
(* On one processor a process that blocks in its yield can still be woken, *)
(* by its timer or by the dispatcher (yield_entry and tm_callback,         *)
(* mp2.c:95-105, 215-247).                                                 *)
(***************************************************************************)
THEOREM SleepersWake == ASSUME ~Preemptible PROVE Spec => []NoOrphanSleeper
<1>1. Inv => NoOrphanSleeper
  BY InvSafety, Zenon
<1> QED BY Invariance, <1>1, PTL

(***************************************************************************)
(* On one processor only the task in curr_tsk executes jobs at real-time   *)
(* priority (set_old_task and set_new_task, mp2.c:325-345).                *)
(***************************************************************************)
THEOREM OneAtRTPriority == ASSUME ~Preemptible PROVE Spec => []OnlyCurrentAtRTPriority
<1>1. Inv => OnlyCurrentAtRTPriority
  BY InvSafety, Zenon
<1> QED BY Invariance, <1>1, PTL

(***************************************************************************)
(* On one processor a RUNNING task is preempted only for a task whose      *)
(* period is not longer: the pass of dispatch_fn over the list             *)
(* (mp2.c:364-384) compares against every RUNNING task although timers     *)
(* change states during it.                                                *)
(***************************************************************************)
THEOREM Preemption == ASSUME ~Preemptible PROVE Spec => PreemptsByPriority
<1>1. Inv /\ [Next]_vars => [Preempts]_vars
  BY PreemptsStep, Zenon
<1> QED BY Invariance, <1>1, PTL DEF Spec, PreemptsByPriority
-----------------------------------------------------------------------------
(***************************************************************************)
(* A process gets into a job only through its first yield or by the wake-  *)
(* up of set_new_task, and its task is not SLEEPING then; set_task_sleep   *)
(* blocks the process of a task it puts to sleep.                          *)
(***************************************************************************)
LEMMA AwakeStep ==
  ASSUME Inv, Awake, [Next]_vars, ~Preemptible PROVE Awake'
<1>a. /\ HEAD \in Seq(Apps) /\ state \in [Apps -> States] /\ pc \in [Apps -> AppPcs]
      /\ lstate \in [Apps -> {"RUNNING", "UNINTERRUPTIBLE"}] /\ next_period \in [Apps -> Nat]
      /\ next \in Apps \cup {NULL}
  BY Zenon DEF Inv, RInv, TypeOK, RecordType, LinuxType, AppType, ThreadType, ScanType
<1> USE AppsAssumption, <1>a DEF CanRun, Hold, Release, Goto, Awake, InJob,
    Managed, SLEEPING, READY, RUNNING, record, account, linux, app, thread,
    scan
<1>b. Linked \subseteq Apps /\ (HEAD' = HEAD => Linked' = Linked)
  BY LinkedFacts, Zenon
<1> USE <1>b
<1>1. CASE mp2_init
  BY <1>1, LinkedFacts, Zenon DEF mp2_init
<1>2. CASE proc_remove
  BY <1>2, Zenon DEF proc_remove
<1>3. CASE freeall
  BY <1>3, Zenon DEF freeall
<1>4. CASE free_next
  BY <1>4, Zenon DEF free_next, freeone
<1>5. CASE kthread_stop
  BY <1>5, Zenon DEF kthread_stop
<1>6. CASE cache_destroy
  BY <1>6, Zenon DEF cache_destroy
<1>7. CASE dispatch_top
  BY <1>7, Zenon DEF dispatch_top
<1>8. CASE dispatch_scan
  BY <1>8, Zenon DEF dispatch_scan
<1>9. CASE dispatch_decide
  BY <1>9, Zenon DEF dispatch_decide
<1>10. CASE set_old_task
  BY <1>10, Zenon DEF set_old_task
<1>11. CASE new_wake
  BY <1>11, Zenon DEF new_wake, Inv, Choice, Choosing
<1>12. CASE new_run
  BY <1>12, Zenon DEF new_run
<1>13. CASE new_curr
  BY <1>13, Zenon DEF new_curr
<1>14. CASE dispatch_sleep
  BY <1>14, Zenon DEF dispatch_sleep
<1>15. CASE Tick
  BY <1>15, Zenon DEF Tick
<1>16. ASSUME NEW p \in Apps, reg_check(p) PROVE Awake'
  BY <1>16 DEF reg_check
<1>17. ASSUME NEW p \in Apps, reg_write(p) PROVE Awake'
  BY <1>17, Zenon DEF reg_write
<1>18. ASSUME NEW p \in Apps, reg_link(p) PROVE Awake'
  <2>1. HEAD' = Append(HEAD, p) /\ Linked' = Linked \cup {p}
    BY <1>18, LinkedAppend, Zenon DEF reg_link
  <2> QED BY <1>18, <2>1 DEF reg_link
<1>19. ASSUME NEW p \in Apps, reg_fill(p) PROVE Awake'
  BY <1>19, Zenon DEF reg_fill
<1>20. ASSUME NEW p \in Apps, check(p) PROVE Awake'
  BY <1>20 DEF check, Inv, Fields, FieldsOf
<1>21. ASSUME NEW p \in Apps, yield_entry(p) PROVE Awake'
  BY <1>21, ZenonT(60) DEF yield_entry
<1>22. ASSUME NEW p \in Apps, sleep_curr(p) PROVE Awake'
  BY <1>22, Zenon DEF sleep_curr
<1>23. ASSUME NEW p \in Apps, sleep_state(p) PROVE Awake'
  BY <1>23, Zenon DEF sleep_state
<1>24. ASSUME NEW p \in Apps, sleep_block(p) PROVE Awake'
  BY <1>24, Zenon DEF sleep_block
<1>25. ASSUME NEW p \in Apps, yield_arm(p) PROVE Awake'
  BY <1>25, Zenon DEF yield_arm, Inv, Fields, FieldsOf
<1>26. ASSUME NEW p \in Apps, yield_wake(p) PROVE Awake'
  BY <1>26, Zenon DEF yield_wake, WakeDispatcher, AppPcs
<1>27. ASSUME NEW p \in Apps, resume(p) PROVE Awake'
  BY <1>27, Zenon DEF resume
<1>28. ASSUME NEW p \in Apps, dereg_entry(p) PROVE Awake'
  BY <1>28, Zenon DEF dereg_entry
<1>29. ASSUME NEW p \in Apps, dereg_read(p) PROVE Awake'
  BY <1>29, Zenon DEF dereg_read
<1>30. ASSUME NEW p \in Apps, dereg_write(p) PROVE Awake'
  BY <1>30, Zenon DEF dereg_write
<1>31. ASSUME NEW p \in Apps, dereg_free(p) PROVE Awake'
  <2>1. Linked' = Linked \ {p}
    BY <1>31, LinkedRemove, Zenon DEF dereg_free, freeone, Inv, Membership, InHandler
  <2> QED BY <1>31, <2>1, Zenon DEF dereg_free
<1>32. ASSUME NEW p \in Apps, dereg_wake(p) PROVE Awake'
  BY <1>32, Zenon DEF dereg_wake, WakeDispatcher
<1>33. ASSUME NEW p \in Apps, write_fails(p) PROVE Awake'
  BY <1>33 DEF write_fails
<1>34. ASSUME NEW p \in Apps, tm_callback(p) PROVE Awake'
  BY <1>34, Zenon DEF tm_callback, WakeDispatcher
<1>35. CASE UNCHANGED vars
  BY <1>35, Zenon DEF vars
<1> QED BY <1>1, <1>2, <1>3, <1>4, <1>5, <1>6, <1>7, <1>8, <1>9, <1>10, <1>11,
    <1>12, <1>13, <1>14, <1>15, <1>16, <1>17, <1>18, <1>19, <1>20, <1>21,
    <1>22, <1>23, <1>24, <1>25, <1>26, <1>27, <1>28, <1>29, <1>30, <1>31,
    <1>32, <1>33, <1>34, <1>35, Zenon
    DEF Next, userapp, dispatch_fn, mp2_exit

(***************************************************************************)
(* The scan passes no process that could run with a shorter period than    *)
(* its best one, and none becomes able to run behind its cursor: a timer   *)
(* only releases tasks whose process is blocked.                           *)
(***************************************************************************)
LEMMA BestStep ==
  ASSUME Inv, RInv, [Next]_vars, ~Preemptible PROVE Best'
<1>a. /\ HEAD \in Seq(Apps) /\ state \in [Apps -> States] /\ min_period \in Nat
      /\ lstate \in [Apps -> {"RUNNING", "UNINTERRUPTIBLE"}]
      /\ Exclusive /\ Lifecycle /\ Membership /\ Scan /\ Best
  BY Zenon DEF Inv, RInv, TypeOK, RecordType, LinuxType, AppType, ThreadType, ScanType
<1> USE AppsAssumption, <1>a DEF CanRun, Hold, Release, Goto, Best, Runnable,
    Passing, SLEEPING, READY, RUNNING, record, account, linux, app, thread,
    scan
<1>b. HEAD' = HEAD => Linked' = Linked
  BY LinkedFacts, Zenon
<1>c. /\ Linked \subseteq Apps /\ (HEAD' = <<>> => Linked' = {})
      /\ \A i \in 1..Len(HEAD) : HEAD[i] \in Linked /\ HEAD[i] \in Apps
      /\ \A x \in Linked : \E i \in 1..Len(HEAD) : HEAD[i] = x
  BY LinkedFacts, Zenon
<1>e. (Passing <=> cpu = "kth") /\ (mod = "absent" => dpc = "none")
  BY Zenon DEF Exclusive, Lifecycle
<1> USE <1>b, <1>e
<1>1. CASE mp2_init
  BY <1>1, Zenon DEF mp2_init
<1>2. CASE proc_remove
  BY <1>2, Zenon DEF proc_remove
<1>3. CASE freeall
  BY <1>3, Zenon DEF freeall
<1>4. CASE free_next
  BY <1>4, Zenon DEF free_next, freeone
<1>5. CASE kthread_stop
  BY <1>5, Zenon DEF kthread_stop
<1>6. CASE cache_destroy
  BY <1>6, Zenon DEF cache_destroy
<1>7. CASE dispatch_top
  <2>1. CASE dpc' = "scan"
    <3>1. HEAD # <<>> /\ itr' = HEAD[1] /\ HEAD' = HEAD /\ 1 \in 1..Len(HEAD)
      BY <1>7, <2>1 DEF dispatch_top
    <3>2. ASSUME NEW i \in 1..Len(HEAD), itr' = HEAD[i] PROVE i = 1
      BY <3>1, <3>2, Zenon DEF Membership, NoDup
    <3> QED BY <2>1, <3>1, <3>2
  <2>2. CASE dpc' # "scan"
    BY <1>7, <2>2, <1>c, Zenon DEF dispatch_top
  <2> QED BY <2>1, <2>2, Zenon
<1>8. CASE dispatch_scan
  <2>1. PICK i \in 1..Len(HEAD) :
          itr = HEAD[i] /\ tmp = IF i < Len(HEAD) THEN HEAD[i + 1] ELSE NULL
    BY <1>8, Zenon DEF dispatch_scan, Scan
  <2>L. Len(HEAD) \in Nat
    OBVIOUS
  <2>2. \A j \in 1..(i - 1) : Runnable(HEAD[j]) => min_period <= Period[HEAD[j]]
    BY <1>8, <2>1, Zenon DEF dispatch_scan
  <2>3. itr \in Apps /\ \A x \in Apps : Period[x] \in Nat
    BY <2>1, <1>c, Zenon
  <2>4. /\ HEAD' = HEAD /\ state' = state /\ lstate' = lstate
        /\ \/ min_period' = Period[itr] /\ Period[itr] < min_period
           \/ min_period' = min_period /\ (state[itr] = SLEEPING \/ ~(Period[itr] < min_period))
    BY <1>8, Zenon DEF dispatch_scan
  <2>5. /\ min_period' \in Nat /\ min_period' <= min_period
        /\ Runnable(itr) => min_period' <= Period[itr]
    BY <2>3, <2>4
  <2>6. ASSUME NEW j \in 1..i, Runnable(HEAD[j]) PROVE min_period' <= Period[HEAD[j]]
    <3>1. HEAD[j] \in Apps /\ Period[HEAD[j]] \in Nat
      BY <1>c, <2>3
    <3>2. CASE j = i
      BY <2>1, <2>5, <2>6, <3>2, Zenon
    <3>3. CASE j \in 1..(i - 1)
      <4>1. min_period <= Period[HEAD[j]]
        BY ONLY <2>2, <2>6, <3>3, Zenon
      <4> QED BY ONLY <4>1, <2>5, <3>1, <1>a
    <3> QED BY ONLY <3>2, <3>3
  <2>7. CASE i = Len(HEAD)
    <3>1. dpc' = "decide"
      BY <1>8, <2>1, <2>7 DEF dispatch_scan
    <3>2. \A p \in Linked : Runnable(p) => min_period' <= Period[p]
      BY <2>6, <2>7, <1>c, Zenon
    <3> QED BY <3>1, <3>2, <2>4, Zenon
  <2>8. CASE i < Len(HEAD)
    <3>0. i + 1 \in 1..Len(HEAD)
      BY ONLY <2>8, <2>L, i \in 1..Len(HEAD)
    <3>1. i + 1 \in 1..Len(HEAD) /\ tmp = HEAD[i + 1] /\ tmp # NULL
      BY ONLY <2>1, <2>8, <1>c, <3>0, AppsAssumption
    <3>2. dpc' = "scan" /\ itr' = HEAD[i + 1]
      BY <1>8, <3>1, Zenon DEF dispatch_scan
    <3>3. ASSUME NEW k \in 1..Len(HEAD), itr' = HEAD[k] PROVE k = i + 1
      BY <3>1, <3>2, <3>3, Zenon DEF Membership, NoDup
    <3>4. \A k \in 1..Len(HEAD) : itr' = HEAD[k] =>
            \A j \in 1..(k - 1) : Runnable(HEAD[j]) => min_period' <= Period[HEAD[j]]
      <4> SUFFICES ASSUME NEW k \in 1..Len(HEAD), itr' = HEAD[k],
                          NEW j \in 1..(k - 1), Runnable(HEAD[j])
                   PROVE  min_period' <= Period[HEAD[j]]
        BY Zenon
      <4>1. k = i + 1
        BY <3>3, Zenon
      <4>2. j \in 1..i
        BY ONLY <4>1, <2>L, i \in 1..Len(HEAD), j \in 1..(k - 1)
      <4> QED BY <4>2, <2>6, Zenon
    <3> QED BY <3>2, <3>4, <2>4, Zenon
  <2> QED BY <2>7, <2>8
<1>9. CASE dispatch_decide
  BY <1>9, Zenon DEF dispatch_decide
<1>10. CASE set_old_task
  <2>1. \A p \in Linked : Runnable(p)' => Runnable(p)
    BY <1>10, <1>c, Zenon DEF set_old_task
  <2> QED BY <1>10, <2>1, Zenon DEF set_old_task
<1>11. CASE new_wake
  BY <1>11, Zenon DEF new_wake
<1>12. CASE new_run
  BY <1>12, Zenon DEF new_run
<1>13. CASE new_curr
  BY <1>13, Zenon DEF new_curr
<1>14. CASE dispatch_sleep
  BY <1>14, Zenon DEF dispatch_sleep
<1>15. CASE Tick
  BY <1>15, Zenon DEF Tick
<1>16. ASSUME NEW p \in Apps, reg_check(p) PROVE Best'
  <2>1. /\ pc[p] = "start" /\ mod = "live" /\ cpu \in {"idle", p}
        /\ UNCHANGED <<mod, HEAD, record, account, curr_tsk, linux, left, thread, scan, jiffies>>
    BY <1>16, Zenon DEF reg_check
  <2> QED BY <2>1, Zenon
<1>17. ASSUME NEW p \in Apps, reg_write(p) PROVE Best'
  BY <1>17, Zenon DEF reg_write
<1>18. ASSUME NEW p \in Apps, reg_link(p) PROVE Best'
  BY <1>18 DEF reg_link
<1>19. ASSUME NEW p \in Apps, reg_fill(p) PROVE Best'
  BY <1>19, Zenon DEF reg_fill
<1>20. ASSUME NEW p \in Apps, check(p) PROVE Best'
  BY <1>20, Zenon DEF check
<1>21. ASSUME NEW p \in Apps, yield_entry(p) PROVE Best'
  BY <1>21 DEF yield_entry
<1>22. ASSUME NEW p \in Apps, sleep_curr(p) PROVE Best'
  BY <1>22, Zenon DEF sleep_curr
<1>23. ASSUME NEW p \in Apps, sleep_state(p) PROVE Best'
  BY <1>23, Zenon DEF sleep_state
<1>24. ASSUME NEW p \in Apps, sleep_block(p) PROVE Best'
  BY <1>24, Zenon DEF sleep_block
<1>25. ASSUME NEW p \in Apps, yield_arm(p) PROVE Best'
  BY <1>25, Zenon DEF yield_arm
<1>26. ASSUME NEW p \in Apps, yield_wake(p) PROVE Best'
  BY <1>26, Zenon DEF yield_wake, WakeDispatcher
<1>27. ASSUME NEW p \in Apps, resume(p) PROVE Best'
  BY <1>27, Zenon DEF resume
<1>28. ASSUME NEW p \in Apps, dereg_entry(p) PROVE Best'
  BY <1>28, Zenon DEF dereg_entry
<1>29. ASSUME NEW p \in Apps, dereg_read(p) PROVE Best'
  BY <1>29, Zenon DEF dereg_read
<1>30. ASSUME NEW p \in Apps, dereg_write(p) PROVE Best'
  BY <1>30, Zenon DEF dereg_write
<1>31. ASSUME NEW p \in Apps, dereg_free(p) PROVE Best'
  BY <1>31, Zenon DEF dereg_free, freeone
<1>32. ASSUME NEW p \in Apps, dereg_wake(p) PROVE Best'
  BY <1>32, Zenon DEF dereg_wake, WakeDispatcher
<1>33. ASSUME NEW p \in Apps, write_fails(p) PROVE Best'
  BY <1>33, Zenon DEF write_fails
<1>34. ASSUME NEW p \in Apps, tm_callback(p) PROVE Best'
  <2>1. lstate[p] = "UNINTERRUPTIBLE" /\ lstate' = lstate
    BY <1>34, Zenon DEF tm_callback, Inv, Fields, FieldsOf
  <2>2. \A q \in Apps : Runnable(q)' => Runnable(q)
    BY <1>34, <2>1, Zenon DEF tm_callback
  <2>3. UNCHANGED <<HEAD, dpc, scan>> /\ Linked' = Linked
    BY <1>34, Zenon DEF tm_callback, WakeDispatcher
  <2>4. dpc = "scan" => \A i \in 1..Len(HEAD) : itr = HEAD[i] =>
          \A j \in 1..(i - 1) : Runnable(HEAD[j])' => min_period <= Period[HEAD[j]]
    <3> SUFFICES ASSUME dpc = "scan", NEW i \in 1..Len(HEAD), itr = HEAD[i],
                        NEW j \in 1..(i - 1), Runnable(HEAD[j])'
                 PROVE  min_period <= Period[HEAD[j]]
      BY <2>3, Zenon
    <3>1. j \in 1..Len(HEAD)
      OBVIOUS
    <3>2. HEAD[j] \in Apps
      BY <3>1, <1>c, Zenon
    <3>3. Runnable(HEAD[j])
      BY <2>2, <2>3, <3>2, Zenon
    <3> QED BY <3>3, Zenon
  <2> QED BY <2>2, <2>3, <2>4, <1>c, Zenon
<1>35. CASE UNCHANGED vars
  BY <1>35, Zenon DEF vars
<1> QED BY <1>1, <1>2, <1>3, <1>4, <1>5, <1>6, <1>7, <1>8, <1>9, <1>10, <1>11,
    <1>12, <1>13, <1>14, <1>15, <1>16, <1>17, <1>18, <1>19, <1>20, <1>21,
    <1>22, <1>23, <1>24, <1>25, <1>26, <1>27, <1>28, <1>29, <1>30, <1>31,
    <1>32, <1>33, <1>34, <1>35, Zenon
    DEF Next, userapp, dispatch_fn, mp2_exit

(***************************************************************************)
(* A step the abstract scheduler does not see: membership, release,        *)
(* blocking and choice stay what they were.                                *)
(***************************************************************************)
Kept(p) ==
  /\ p \in Linked' /\ pc'[p] \notin Departing <=> p \in Linked /\ pc[p] \notin Departing
  /\ p \in Linked /\ pc[p] \notin Departing =>
       /\ state'[p] # SLEEPING /\ pc'[p] # "sleep_state" <=>
          state[p] # SLEEPING /\ pc[p] # "sleep_state"
       /\ lstate'[p] = "UNINTERRUPTIBLE" \/ pc'[p] \in {"sleep_state", "sleep_block"} <=>
          lstate[p] = "UNINTERRUPTIBLE" \/ pc[p] \in {"sleep_state", "sleep_block"}
Silent == /\ Managed' <=> Managed
          /\ Managed => \A p \in Apps : Kept(p)
          /\ Chosen' = Chosen

(***************************************************************************)
(* Such a step is a stuttering step of RateMonotonic.                      *)
(***************************************************************************)
LEMMA SilentStutters ==
  ASSUME Linked \subseteq Apps, Linked' \subseteq Apps, Silent PROVE UNCHANGED RM!vars
<1>1. Member' = Member
  BY Zenon DEF Silent, Kept, Member
<1>2. Released' = Released
  BY <1>1, Zenon DEF Silent, Kept, Member, Released
<1>3. Blocked' = Blocked
  BY <1>1, Zenon DEF Silent, Kept, Member, Blocked
<1> QED BY <1>1, <1>2, <1>3, Zenon DEF Silent, RM!vars

(***************************************************************************)
(* A set that changes by p at most.                                        *)
(***************************************************************************)
LEMMA ByOne ==
  ASSUME NEW S, NEW T, NEW p, T \ {p} = S \ {p}
  PROVE  /\ p \in T => T = S \cup {p}
         /\ p \notin T => T = S \ {p}
         /\ (p \in T <=> p \in S) => T = S
  OBVIOUS

(***************************************************************************)
(* When only p changes its part, the three sets change by p at most.       *)
(***************************************************************************)
LEMMA OthersKept ==
  ASSUME Linked \subseteq Apps, Linked' \subseteq Apps, Managed, Managed', NEW p \in Apps,
         \A q \in Apps \ {p} : Kept(q)
  PROVE  /\ Member' \ {p} = Member \ {p} /\ Released' \ {p} = Released \ {p}
         /\ Blocked' \ {p} = Blocked \ {p}
<1>1. Member' \ {p} = Member \ {p}
  BY Zenon DEF Kept, Member
<1>2. Released' \ {p} = Released \ {p}
  BY <1>1, Zenon DEF Kept, Member, Released
<1>3. Blocked' \ {p} = Blocked \ {p}
  BY <1>1, Zenon DEF Kept, Member, Blocked
<1> QED BY <1>1, <1>2, <1>3, Zenon

(***************************************************************************)
(* Every step of a handler, the dispatcher, a timer or rmmod is a step of  *)
(* RateMonotonic or changes nothing RateMonotonic can see.                 *)
(***************************************************************************)
LEMMA Simulation ==
  ASSUME Inv, RInv, [Next]_vars, ~Preemptible PROVE [RM!Next]_RM!vars
<1>a. /\ HEAD \in Seq(Apps) /\ state \in [Apps -> States] /\ pc \in [Apps -> AppPcs]
      /\ lstate \in [Apps -> {"RUNNING", "UNINTERRUPTIBLE"}]
      /\ next \in Apps \cup {NULL} /\ curr_tsk \in Apps \cup {NULL} /\ Awake
  BY Zenon DEF Inv, RInv, TypeOK, RecordType, LinuxType, AppType, ThreadType, ScanType
<1> USE AppsAssumption, <1>a DEF CanRun, Hold, Release, Goto, Managed,
    Departing, Chosen, SLEEPING, READY, RUNNING, record, account, linux, app,
    thread, scan
<1>t. HEAD' \in Seq(Apps)
  BY InvNext, Zenon DEF Inv, TypeOK
<1>b. Linked \subseteq Apps /\ Linked' \subseteq Apps /\ (HEAD' = HEAD => Linked' = Linked)
  BY <1>t, LinkedFacts, RangeFact, Zenon DEF Linked
<1>s. Silent => [RM!Next]_RM!vars
  BY <1>b, SilentStutters, Zenon
<1> USE <1>b
<1>1. CASE mp2_init
  <2>1. Member = {} /\ Member' = {}
    BY <1>1, LinkedFacts, Zenon DEF mp2_init, Member
  <2>2. Chosen = NULL /\ Chosen' = NULL
    BY <1>1, Zenon DEF mp2_init, Inv, Lifecycle
  <2> QED BY <2>1, <2>2, Zenon DEF RM!vars, Released, Blocked
<1>2. CASE proc_remove
  <2>1. Silent
    BY <1>2, Zenon DEF proc_remove, Silent, Kept
  <2> QED BY <2>1, <1>s, Zenon
<1>3. CASE freeall
  <2>1. Blocked = {}
    BY <1>3, Zenon DEF freeall, Blocked, Member, InHandler, Inv, Fields, FieldsOf
  <2>2. Member' = {}
    BY <1>3, Zenon DEF freeall, Member
  <2>3. Released' = {} /\ Blocked' = {}
    BY <2>2, Zenon DEF Released, Blocked
  <2>4. Chosen' = NULL
    BY <1>3, Zenon DEF freeall, Inv, Exclusive, Passing
  <2>5. RM!Stop
    BY <2>1, <2>2, <2>3, <2>4, Zenon DEF RM!Stop
  <2> QED BY <2>5, Zenon DEF RM!Next
<1>4. CASE free_next
  <2>1. Silent
    BY <1>4, Zenon DEF free_next, freeone, Silent, Kept
  <2> QED BY <2>1, <1>s
<1>5. CASE kthread_stop
  <2>1. Silent
    BY <1>5, Zenon DEF kthread_stop, Silent, Kept
  <2> QED BY <2>1, <1>s
<1>6. CASE cache_destroy
  <2>1. Silent
    BY <1>6, Zenon DEF cache_destroy, Silent, Kept
  <2> QED BY <2>1, <1>s
<1>7. CASE dispatch_top
  <2>1. Silent
    BY <1>7, Zenon DEF dispatch_top, Silent, Kept
  <2> QED BY <2>1, <1>s
<1>8. CASE dispatch_scan
  <2>1. Silent
    BY <1>8, Zenon DEF dispatch_scan, Silent, Kept
  <2> QED BY <2>1, <1>s
<1>9. CASE dispatch_decide
  <2>1. Silent
    BY <1>9, Zenon DEF dispatch_decide, Silent, Kept
  <2> QED BY <2>1, <1>s
<1>10. CASE set_old_task
  <2>1. Silent
    BY <1>10, Zenon DEF set_old_task, Silent, Kept
  <2> QED BY <2>1, <1>s
<1>11. CASE new_wake
  <2>1. /\ next \in Linked /\ next # curr_tsk /\ Managed /\ cpu = "kth" /\ dpc = "new_wake"
        /\ pc[next] \notin Departing \cup {"sleep_state", "sleep_block"}
        /\ state[next] # SLEEPING /\ min_period = Period[next]
    BY <1>11 DEF new_wake, Inv, Choice, Choosing, Lifecycle, Passing, Exclusive, Held, Scan
  <2>2. /\ UNCHANGED <<mod, HEAD, pc, state, curr_tsk, next>> /\ Linked' = Linked
        /\ lstate' = [lstate EXCEPT ![next] = "RUNNING"] /\ dpc' = "new_run"
    BY <1>11, Zenon DEF new_wake
  <2>3. Member' = Member /\ Released' = Released /\ next \in Released
    BY <2>1, <2>2, Zenon DEF Member, Released
  <2>4. Blocked' = Blocked \ {next}
    BY <2>1, <2>2, <2>3, Zenon DEF Blocked, Member
  <2>5. Chosen' = next /\ next # Chosen
    BY <2>1, <2>2, Zenon
  <2>6. \A q \in Released \ Blocked : Period[next] <= Period[q]
    BY <2>1, Zenon DEF Released, Blocked, Member, RInv, Best, Runnable
  <2>7. RM!Choose(next)
    BY <2>3, <2>4, <2>5, <2>6, Zenon DEF RM!Choose
  <2> QED BY <2>1, <2>7, Zenon DEF RM!Next
<1>12. CASE new_run
  <2>1. Silent
    BY <1>12, Zenon DEF new_run, Silent, Kept, Inv, Choice, Choosing
  <2> QED BY <2>1, <1>s
<1>13. CASE new_curr
  <2>1. Silent
    BY <1>13, Zenon DEF new_curr, Silent, Kept
  <2> QED BY <2>1, <1>s
<1>14. CASE dispatch_sleep
  <2>1. Silent
    BY <1>14, Zenon DEF dispatch_sleep, Silent, Kept
  <2> QED BY <2>1, <1>s
<1>15. CASE Tick
  <2>1. Silent
    BY <1>15, Zenon DEF Tick, Silent, Kept
  <2> QED BY <2>1, <1>s
<1>16. ASSUME NEW p \in Apps, reg_check(p) PROVE [RM!Next]_RM!vars
  <2>1. /\ pc[p] = "start" /\ p \notin Linked
        /\ UNCHANGED <<mod, HEAD, state, curr_tsk, lstate, dpc, next>>
        /\ \E l \in {"reg_write", "check"} : pc' = [pc EXCEPT ![p] = l]
    BY <1>16, Zenon DEF reg_check, Inv, Membership
  <2>2. Silent
    BY <2>1, Zenon DEF Silent, Kept
  <2> QED BY <2>2, <1>s, Zenon
<1>17. ASSUME NEW p \in Apps, reg_write(p) PROVE [RM!Next]_RM!vars
  <2>1. Silent
    BY <1>17, Zenon DEF reg_write, Silent, Kept, Inv, Membership
  <2> QED BY <2>1, <1>s
<1>18. ASSUME NEW p \in Apps, reg_link(p) PROVE [RM!Next]_RM!vars
  <2>1. Linked' = Linked \cup {p} /\ p \notin Linked
    BY <1>18, LinkedAppend, Zenon DEF reg_link, Inv, Membership
  <2>2. Silent
    BY <1>18, <2>1, Zenon DEF reg_link, Silent, Kept
  <2> QED BY <2>2, <1>s
<1>19. ASSUME NEW p \in Apps, reg_fill(p) PROVE [RM!Next]_RM!vars
  <2>1. pc[p] = "reg_fill" /\ p \in Linked /\ Managed /\ lstate[p] = "RUNNING"
    BY <1>19, Zenon DEF reg_fill,
       Inv, Lifecycle, Membership, Fields, FieldsOf, InHandler
  <2>2. Linked' = Linked /\ mod' = mod /\ Chosen' = Chosen
    BY <1>19, <2>1, Zenon DEF reg_fill, Passing
  <2>3. \A q \in Apps \ {p} : Kept(q)
    BY <1>19, <2>2, Zenon DEF reg_fill, Kept
  <2>4. /\ Member' \ {p} = Member \ {p} /\ Released' \ {p} = Released \ {p}
        /\ Blocked' \ {p} = Blocked \ {p}
    BY <2>1, <2>2, <2>3, <1>b, OthersKept, Zenon
  <2>5. /\ p \notin Member /\ p \in Member'
        /\ p \notin Released \cup Released' \cup Blocked \cup Blocked'
    BY <1>19, <2>1, <2>2, Zenon DEF reg_fill, Member, Released, Blocked
  <2>6. Member' = Member \cup {p} /\ Released' = Released /\ Blocked' = Blocked
    BY ONLY <2>4, <2>5, ByOne
  <2>7. RM!Join(p)
    BY ONLY <2>2, <2>5, <2>6, Zenon DEF RM!Join
  <2> QED BY <2>7, Zenon DEF RM!Next
<1>20. ASSUME NEW p \in Apps, check(p) PROVE [RM!Next]_RM!vars
  <2>1. Silent
    BY <1>20, Zenon DEF check, Silent, Kept
  <2> QED BY <2>1, <1>s
<1>21. ASSUME NEW p \in Apps, yield_entry(p) PROVE [RM!Next]_RM!vars
  <2>a. CASE next_period[p] # 0
    <3>1. Silent
      BY <1>21, <2>a, ZenonT(60) DEF yield_entry, Silent, Kept
    <3> QED BY <3>1, <1>s
  <2>b. CASE next_period[p] = 0
    <3>1. pc[p] = "user" /\ p \in Linked /\ Managed /\ lstate[p] = "RUNNING" /\ state[p] = SLEEPING
      BY <1>21, <2>b, Zenon DEF yield_entry,
         Inv, Membership, Fields, FieldsOf
    <3>2. Linked' = Linked /\ mod' = mod /\ Chosen' = Chosen
      BY <1>21, <2>b, <3>1, Zenon DEF yield_entry, Passing
    <3>3. \A q \in Apps \ {p} : Kept(q)
      BY <1>21, <2>b, <3>2, Zenon DEF yield_entry, Kept
    <3>4. /\ Member' \ {p} = Member \ {p} /\ Released' \ {p} = Released \ {p}
          /\ Blocked' \ {p} = Blocked \ {p}
      BY <3>1, <3>2, <3>3, <1>b, OthersKept, Zenon
    <3>5. /\ p \in Member \ Released /\ p \in Member' /\ p \in Released'
          /\ p \notin Blocked \cup Blocked'
      BY <1>21, <2>b, <3>1, <3>2, Zenon DEF yield_entry, Member, Released, Blocked
    <3>6. Member' = Member /\ Released' = Released \cup {p} /\ Blocked' = Blocked
      BY ONLY <3>4, <3>5, ByOne
    <3>7. RM!Release(p)
      BY ONLY <3>2, <3>5, <3>6, Zenon DEF RM!Release
    <3> QED BY <3>7, Zenon DEF RM!Next
  <2> QED BY <2>a, <2>b, Zenon
<1>22. ASSUME NEW p \in Apps, sleep_curr(p) PROVE [RM!Next]_RM!vars
  <2>1. /\ pc[p] = "sleep_curr" /\ p \in Linked /\ Managed /\ lstate[p] = "RUNNING"
        /\ state[p] # SLEEPING /\ ~Passing
    BY <1>22, Zenon DEF sleep_curr,
       Inv, Exclusive, Held, Lifecycle, Membership, Fields, FieldsOf, InHandler, Awake, InJob
  <2>2. Linked' = Linked /\ mod' = mod /\ Chosen' = IF Chosen = p THEN NULL ELSE Chosen
    BY <1>22, <2>1, Zenon DEF sleep_curr, Passing
  <2>3. \A q \in Apps \ {p} : Kept(q)
    BY <1>22, <2>2, Zenon DEF sleep_curr, Kept
  <2>4. /\ Member' \ {p} = Member \ {p} /\ Released' \ {p} = Released \ {p}
        /\ Blocked' \ {p} = Blocked \ {p}
    BY <2>1, <2>2, <2>3, <1>b, OthersKept, Zenon
  <2>5. /\ p \in Released \ Blocked /\ p \in Member /\ p \in Member'
        /\ p \notin Released' /\ p \in Blocked'
    BY <1>22, <2>1, <2>2, Zenon DEF sleep_curr, Member, Released, Blocked
  <2>6. Member' = Member /\ Released' = Released \ {p} /\ Blocked' = Blocked \cup {p}
    BY ONLY <2>4, <2>5, ByOne
  <2>7. RM!Yield(p)
    BY ONLY <2>2, <2>5, <2>6, Zenon DEF RM!Yield, RM!Forget
  <2> QED BY <2>7, Zenon DEF RM!Next
<1>23. ASSUME NEW p \in Apps, sleep_state(p) PROVE [RM!Next]_RM!vars
  <2>1. Silent
    BY <1>23, Zenon DEF sleep_state, Silent, Kept
  <2> QED BY <2>1, <1>s
<1>24. ASSUME NEW p \in Apps, sleep_block(p) PROVE [RM!Next]_RM!vars
  <2>1. Silent
    BY <1>24, Zenon DEF sleep_block, Silent, Kept
  <2> QED BY <2>1, <1>s
<1>25. ASSUME NEW p \in Apps, yield_arm(p) PROVE [RM!Next]_RM!vars
  <2>1. Silent
    BY <1>25, Zenon DEF yield_arm, Silent, Kept
  <2> QED BY <2>1, <1>s
<1>26. ASSUME NEW p \in Apps, yield_wake(p) PROVE [RM!Next]_RM!vars
  <2>1. Silent
    BY <1>26, Zenon DEF yield_wake, WakeDispatcher, Silent, Kept
  <2> QED BY <2>1, <1>s
<1>27. ASSUME NEW p \in Apps, resume(p) PROVE [RM!Next]_RM!vars
  <2>1. Silent
    BY <1>27, Zenon DEF resume, Silent, Kept
  <2> QED BY <2>1, <1>s
<1>28. ASSUME NEW p \in Apps, dereg_entry(p) PROVE [RM!Next]_RM!vars
  <2>1. pc[p] = "user" /\ p \in Linked /\ Managed /\ lstate[p] = "RUNNING" /\ ~Passing
    BY <1>28, Zenon DEF dereg_entry,
       Inv, Exclusive, Membership, Fields, FieldsOf
  <2>2. Linked' = Linked /\ mod' = mod /\ Chosen' = IF Chosen = p THEN NULL ELSE Chosen
    BY <1>28, <2>1, Zenon DEF dereg_entry, Passing
  <2>3. \A q \in Apps \ {p} : Kept(q)
    BY <1>28, <2>2, Zenon DEF dereg_entry, Kept
  <2>4. /\ Member' \ {p} = Member \ {p} /\ Released' \ {p} = Released \ {p}
        /\ Blocked' \ {p} = Blocked \ {p}
    BY <2>1, <2>2, <2>3, <1>b, OthersKept, Zenon
  <2>5. p \in Member \ Blocked /\ p \notin Member' /\ p \notin Released' /\ p \notin Blocked'
    BY <1>28, <2>1, <2>2, Zenon DEF dereg_entry, Member, Released, Blocked
  <2>6. Member' = Member \ {p} /\ Released' = Released \ {p} /\ Blocked' = Blocked
    BY ONLY <2>4, <2>5, ByOne
  <2>7. RM!Leave(p)
    BY ONLY <2>2, <2>5, <2>6, Zenon DEF RM!Leave, RM!Forget
  <2> QED BY <2>7, Zenon DEF RM!Next
<1>29. ASSUME NEW p \in Apps, dereg_read(p) PROVE [RM!Next]_RM!vars
  <2>1. Silent
    BY <1>29, Zenon DEF dereg_read, Silent, Kept
  <2> QED BY <2>1, <1>s
<1>30. ASSUME NEW p \in Apps, dereg_write(p) PROVE [RM!Next]_RM!vars
  <2>1. Silent
    BY <1>30, Zenon DEF dereg_write, Silent, Kept
  <2> QED BY <2>1, <1>s
<1>31. ASSUME NEW p \in Apps, dereg_free(p) PROVE [RM!Next]_RM!vars
  <2>1. Linked' = Linked \ {p}
    BY <1>31, LinkedRemove, Zenon DEF dereg_free, freeone, Inv, Membership, InHandler
  <2>2. Silent
    BY <1>31, <2>1, Zenon DEF dereg_free, Silent, Kept
  <2> QED BY <2>2, <1>s
<1>32. ASSUME NEW p \in Apps, dereg_wake(p) PROVE [RM!Next]_RM!vars
  <2>1. Silent
    BY <1>32, Zenon DEF dereg_wake, WakeDispatcher, Silent, Kept, Inv, Membership
  <2> QED BY <2>1, <1>s
<1>33. ASSUME NEW p \in Apps, write_fails(p) PROVE [RM!Next]_RM!vars
  <2>1. Silent
    BY <1>33 DEF write_fails, Silent, Kept
  <2> QED BY <2>1, <1>s
<1>34. ASSUME NEW p \in Apps, tm_callback(p) PROVE [RM!Next]_RM!vars
  <2>1. /\ pc[p] \in {"yield_wake", "schedule"} /\ p \in Linked /\ Managed
        /\ lstate[p] = "UNINTERRUPTIBLE" /\ state[p] = SLEEPING
    BY <1>34, Zenon DEF tm_callback, WakeDispatcher,
       Inv, Lifecycle, Membership, Fields, FieldsOf, InHandler
  <2>2. Linked' = Linked /\ mod' = mod /\ Chosen' = Chosen
    BY <1>34, <2>1, Zenon DEF tm_callback, WakeDispatcher, Passing
  <2>3. \A q \in Apps \ {p} : Kept(q)
    BY <1>34, <2>2, Zenon DEF tm_callback, WakeDispatcher, Kept
  <2>4. /\ Member' \ {p} = Member \ {p} /\ Released' \ {p} = Released \ {p}
        /\ Blocked' \ {p} = Blocked \ {p}
    BY <2>1, <2>2, <2>3, <1>b, OthersKept, Zenon
  <2>5. /\ p \in Member \ Released /\ p \in Member' /\ p \in Released'
        /\ p \in Blocked /\ p \in Blocked'
    BY <1>34, <2>1, <2>2, Zenon DEF tm_callback, WakeDispatcher, Member, Released, Blocked
  <2>6. Member' = Member /\ Released' = Released \cup {p} /\ Blocked' = Blocked
    BY ONLY <2>4, <2>5, ByOne
  <2>7. RM!Release(p)
    BY ONLY <2>2, <2>5, <2>6, Zenon DEF RM!Release
  <2> QED BY <2>7 DEF RM!Next
<1>35. CASE UNCHANGED vars
  <2>1. Silent
    BY <1>35, Zenon DEF vars, Silent, Kept
  <2> QED BY <2>1, <1>s
<1> QED BY <1>1, <1>2, <1>3, <1>4, <1>5, <1>6, <1>7, <1>8, <1>9, <1>10, <1>11,
    <1>12, <1>13, <1>14, <1>15, <1>16, <1>17, <1>18, <1>19, <1>20, <1>21,
    <1>22, <1>23, <1>24, <1>25, <1>26, <1>27, <1>28, <1>29, <1>30, <1>31,
    <1>32, <1>33, <1>34, <1>35, Zenon
    DEF Next, userapp, dispatch_fn, mp2_exit

(***************************************************************************)
(* RInv holds at every step, and every step is one of RateMonotonic.       *)
(***************************************************************************)
THEOREM BestChoice == ASSUME ~Preemptible PROVE Spec => []RInv
<1>1. Init => RInv
  BY DEF Init, RInv, Awake, Best, Linked, Range
<1>2. Inv /\ RInv /\ [Next]_vars => RInv'
  BY AwakeStep, BestStep, Zenon DEF RInv
<1> QED BY Invariance, <1>1, <1>2, PTL DEF Spec

(***************************************************************************)
(* On one processor mp2.c implements the abstract rate-monotonic           *)
(* scheduler, for any number of applications with any periods and any      *)
(* timing of their yields, timers and exits and of rmmod.                  *)
(***************************************************************************)
THEOREM Refinement == ASSUME ~Preemptible PROVE Spec => ImplementsRateMonotonic
<1>1. Init => RM!Init
  <2>1. Init => Linked = {} /\ Chosen = NULL
    BY DEF Init, Linked, Range, Chosen
  <2> QED BY <2>1, Zenon DEF RM!Init, Member, Released, Blocked
<1>2. Inv /\ RInv /\ [Next]_vars => [RM!Next]_RM!vars
  BY Simulation, Zenon
<1> QED BY Invariance, BestChoice, <1>1, <1>2, PTL DEF Spec, ImplementsRateMonotonic, RM!Spec
-----------------------------------------------------------------------------
(***************************************************************************)
(* The load.  The account that admission_control keeps is the exact load   *)
(* of the tasks it has charged, and that load is within the bound.         *)
(***************************************************************************)
\* The exact load of a set of applications, as a fraction, and the bound on it.
LoadN(S)   == Sum(Period, Computation, S)
LoadD(S)   == Prod(Period, S)
Bounded(S) == 1000 * LoadN(S) <= 693 * LoadD(S)

(***************************************************************************)
(* The load of no application is 0/1.                                      *)
(***************************************************************************)
LEMMA LoadType ==
  ASSUME NEW S \in SUBSET Apps
  PROVE  LoadD(S) \in Nat \ {0} /\ LoadN(S) \in Nat /\ (S = {} => LoadD(S) = 1 /\ LoadN(S) = 0)
<1>1. IsFiniteSet(S)
  BY FS_Subset, AppsAssumption, Zenon
<1>2. Positive(Period, S) /\ Natural(Computation, S)
  BY AppsAssumption, Zenon DEF Positive, Natural
<1> QED BY <1>1, <1>2, UseType, Zenon DEF LoadN, LoadD

(***************************************************************************)
(* The load with one application more.                                     *)
(***************************************************************************)
LEMMA LoadAdd ==
  ASSUME NEW S \in SUBSET Apps, NEW p \in Apps, p \notin S
  PROVE  /\ LoadD(S \cup {p}) = Period[p] * LoadD(S)
         /\ LoadN(S \cup {p}) = Computation[p] * LoadD(S) + Period[p] * LoadN(S)
<1>1. IsFiniteSet(S)
  BY FS_Subset, AppsAssumption, Zenon
<1>2. Positive(Period, S \cup {p}) /\ Natural(Computation, S \cup {p})
  BY AppsAssumption, Zenon DEF Positive, Natural
<1>3. Agree(Period, Period, S) /\ Agree(Computation, Computation, S)
  BY Zenon DEF Agree
<1>4. /\ Prod(Period, S \cup {p}) = Period[p] * Prod(Period, S)
      /\ Sum(Period, Computation, S \cup {p})
           = Computation[p] * Prod(Period, S) + Period[p] * Sum(Period, Computation, S)
  BY <1>1, <1>2, <1>3, UseAdd, SMT
<1> QED BY <1>4, Zenon DEF LoadN, LoadD

(***************************************************************************)
(* Of applications within the bound, all but one are within it.            *)
(***************************************************************************)
LEMMA BoundedButOne ==
  ASSUME NEW S \in SUBSET Apps, NEW p \in Apps, p \notin S, Bounded(S \cup {p})
  PROVE  Bounded(S)
<1> DEFINE u == LoadD(S)
           v == LoadN(S)
           P == Period[p]
           C == Computation[p]
<1>1. u \in Nat /\ v \in Nat /\ P \in Nat \ {0} /\ C \in Nat
  BY LoadType, AppsAssumption, Zenon
<1>2. 1000 * (C * u + P * v) <= 693 * (P * u)
  BY LoadAdd DEF Bounded
<1> HIDE DEF u, v, P, C
<1>3. C * u \in Nat /\ P * v \in Nat /\ P * u \in Nat
  BY <1>1, ProdNat, Zenon
<1>4. 1000 * (P * v) <= 693 * (P * u)
  <2> DEFINE a == C * u
             b == P * v
             e == P * u
  <2> HIDE DEF a, b, e
  <2>1. a \in Nat /\ b \in Nat /\ e \in Nat /\ 1000 * (a + b) <= 693 * e
    BY <1>2, <1>3 DEF a, b, e
  <2>2. 1000 * b <= 693 * e
    BY <2>1
  <2> QED BY <2>2 DEF b, e
<1>5. (1000 * v) * P <= (693 * u) * P
  BY <1>1, <1>4
<1>6. 1000 * v \in Int /\ 693 * u \in Int
  BY <1>1
<1>7. 1000 * v <= 693 * u
  BY <1>1, <1>5, <1>6, Cancel
<1> QED BY <1>7 DEF Bounded, u, v

(***************************************************************************)
(* Of applications within the bound, any are within it.                    *)
(***************************************************************************)
LEMMA BoundedPart ==
  ASSUME NEW T \in SUBSET Apps, Bounded(T), NEW S \in SUBSET T
  PROVE  Bounded(S)
<1> DEFINE B == {s \in SUBSET T : ~Bounded(T \ s)}
<1>1. ASSUME B # {} PROVE FALSE
  <2>1. PICK s \in B : \A r \in B : r \subseteq s => r = s
    <3>1. IsFiniteSet(T) /\ B \in SUBSET SUBSET T
      BY FS_Subset, AppsAssumption, Zenon
    <3> HIDE DEF B
    <3> QED BY <1>1, <3>1, Smallest, SMT
  <2>2. s \in SUBSET T /\ ~Bounded(T \ s)
    BY <2>1, Zenon
  <2>3. PICK x : x \in s
    <3>1. T \ {} = T
      BY Zenon
    <3> QED BY <2>2, <3>1, Zenon
  <2>4. s \ {x} \in SUBSET T /\ s \ {x} \subseteq s /\ s \ {x} # s
    BY <2>2, <2>3, Zenon
  <2>5. Bounded(T \ (s \ {x}))
    <3> HIDE DEF Bounded
    <3> QED BY <2>1, <2>4, Zenon
  <2>6. T \ (s \ {x}) = (T \ s) \cup {x} /\ x \notin T \ s /\ x \in Apps /\ T \ s \in SUBSET Apps
    BY <2>2, <2>3, Zenon
  <2>7. Bounded((T \ s) \cup {x})
    BY <2>5, <2>6, Zenon
  <2> QED BY <2>2, <2>6, <2>7, BoundedButOne, Zenon
<1>2. T \ S \in SUBSET T /\ T \ (T \ S) = S
  BY Zenon
<1> HIDE DEF Bounded
<1>3. Bounded(T \ (T \ S))
  BY <1>1, <1>2, Zenon
<1> QED BY <1>2, <1>3, Zenon

\* No product of any call of admission_control wraps.
NoWrap == \A p \in Apps : InRange(numerator, denominator, Period[p], Computation[p])

\* What a handler has read of the account is still true of it.
Granting(p) ==
  pc[p] = "reg_write" =>
    /\ Fits(numerator, denominator, Period[p], Computation[p])
    /\ loc[p].n = AdmitN(numerator, denominator, Period[p], Computation[p])
    /\ loc[p].d = AdmitD(numerator, denominator, Period[p], Computation[p])
Returning(p) ==
  pc[p] = "dereg_write" =>
    /\ loc[p].n = ReleaseN(numerator, denominator, Period[p], Computation[p])
    /\ loc[p].d = ReleaseD(numerator, denominator, Period[p], Computation[p])
Reads == \A p \in Apps : Granting(p) /\ Returning(p)

LoadInv ==
  /\ Managed => Records(numerator, denominator, LoadN(Charged), LoadD(Charged))
  /\ Bounded(Linked \cup Granted)

\* A step of p that neither begins nor ends a change of the account.
Moves(p) ==
  \E l \in AppPcs \ {"reg_write", "reg_link", "dereg_write", "dereg_free"} :
    pc[p] \notin {"reg_link", "dereg_free"} /\ pc' = [pc EXCEPT ![p] = l]

\* A step that has nothing to do with the list or the account, and the steps
\* of p that have.
Quiet ==
  /\ HEAD' = HEAD /\ numerator' = numerator /\ denominator' = denominator /\ loc' = loc
  /\ Managed' <=> Managed
  /\ pc' = pc \/ \E p \in Apps : Moves(p)
Looks(p) == reg_check(p) \/ dereg_read(p) \/ reg_link(p) \/ dereg_free(p)

(***************************************************************************)
(* Every step is quiet, or one of those that touch list or account.        *)
(***************************************************************************)
LEMMA StepKinds ==
  ASSUME [Next]_vars
  PROVE  \/ Quiet \/ mp2_init \/ freeall \/ free_next
         \/ \E p \in Apps : reg_write(p) \/ dereg_write(p) \/ Looks(p)
<1> USE DEF record, account, linux, app, thread, scan
<1>1. CASE proc_remove
  BY <1>1, Zenon DEF proc_remove, Quiet, Managed
<1>2. CASE kthread_stop
  BY <1>2, Zenon DEF kthread_stop, Quiet, Managed
<1>3. CASE cache_destroy
  BY <1>3, Zenon DEF cache_destroy, Quiet, Managed
<1>4. CASE dispatch_top
  BY <1>4, Zenon DEF dispatch_top, Quiet, Managed
<1>5. CASE dispatch_scan
  BY <1>5, Zenon DEF dispatch_scan, Quiet, Managed
<1>6. CASE dispatch_decide
  BY <1>6, Zenon DEF dispatch_decide, Quiet, Managed
<1>7. CASE set_old_task
  BY <1>7, Zenon DEF set_old_task, Quiet, Managed
<1>8. CASE new_wake
  BY <1>8, Zenon DEF new_wake, Quiet, Managed
<1>9. CASE new_run
  BY <1>9, Zenon DEF new_run, Quiet, Managed
<1>10. CASE new_curr
  BY <1>10, Zenon DEF new_curr, Quiet, Managed
<1>11. CASE dispatch_sleep
  BY <1>11, Zenon DEF dispatch_sleep, Quiet, Managed
<1>12. CASE Tick
  BY <1>12, Zenon DEF Tick, Quiet, Managed
<1>13. ASSUME NEW p \in Apps, reg_fill(p) PROVE Quiet
  <2>1. HEAD' = HEAD /\ numerator' = numerator /\ denominator' = denominator /\ loc' = loc
        /\ (Managed' <=> Managed) /\ pc[p] = "reg_fill"
        /\ pc' = [pc EXCEPT ![p] = "check"]
    BY <1>13, Zenon DEF reg_fill, Goto, Managed
  <2>2. Moves(p)
    BY <2>1, Zenon DEF Moves, AppPcs
  <2> QED BY <2>1, <2>2, Zenon DEF Quiet
<1>14. ASSUME NEW p \in Apps, check(p) PROVE Quiet
  <2>1. HEAD' = HEAD /\ numerator' = numerator /\ denominator' = denominator /\ loc' = loc
        /\ (Managed' <=> Managed) /\ pc[p] = "check"
        /\ (pc' = [pc EXCEPT ![p] = "user"] \/ pc' = [pc EXCEPT ![p] = "done"])
    BY <1>14, Zenon DEF check, Goto, Managed
  <2>2. Moves(p)
    BY <2>1, Zenon DEF Moves, AppPcs
  <2> QED BY <2>1, <2>2, Zenon DEF Quiet
<1>15. ASSUME NEW p \in Apps, yield_entry(p) PROVE Quiet
  <2>1. HEAD' = HEAD /\ numerator' = numerator /\ denominator' = denominator /\ loc' = loc
        /\ (Managed' <=> Managed) /\ pc[p] = "user"
        /\ (pc' = [pc EXCEPT ![p] = "yield_wake"] \/ pc' = [pc EXCEPT ![p] = "sleep_curr"])
    BY <1>15, Zenon DEF yield_entry, Goto, Managed
  <2>2. Moves(p)
    BY <2>1, Zenon DEF Moves, AppPcs
  <2> QED BY <2>1, <2>2, Zenon DEF Quiet
<1>16. ASSUME NEW p \in Apps, sleep_curr(p) PROVE Quiet
  <2>1. HEAD' = HEAD /\ numerator' = numerator /\ denominator' = denominator /\ loc' = loc
        /\ (Managed' <=> Managed) /\ pc[p] = "sleep_curr"
        /\ pc' = [pc EXCEPT ![p] = "sleep_state"]
    BY <1>16, Zenon DEF sleep_curr, Goto, Managed
  <2>2. Moves(p)
    BY <2>1, Zenon DEF Moves, AppPcs
  <2> QED BY <2>1, <2>2, Zenon DEF Quiet
<1>17. ASSUME NEW p \in Apps, sleep_state(p) PROVE Quiet
  <2>1. HEAD' = HEAD /\ numerator' = numerator /\ denominator' = denominator /\ loc' = loc
        /\ (Managed' <=> Managed) /\ pc[p] = "sleep_state"
        /\ pc' = [pc EXCEPT ![p] = "sleep_block"]
    BY <1>17, Zenon DEF sleep_state, Goto, Managed
  <2>2. Moves(p)
    BY <2>1, Zenon DEF Moves, AppPcs
  <2> QED BY <2>1, <2>2, Zenon DEF Quiet
<1>18. ASSUME NEW p \in Apps, sleep_block(p) PROVE Quiet
  <2>1. HEAD' = HEAD /\ numerator' = numerator /\ denominator' = denominator /\ loc' = loc
        /\ (Managed' <=> Managed) /\ pc[p] = "sleep_block"
        /\ pc' = [pc EXCEPT ![p] = "yield_arm"]
    BY <1>18, Zenon DEF sleep_block, Goto, Managed
  <2>2. Moves(p)
    BY <2>1, Zenon DEF Moves, AppPcs
  <2> QED BY <2>1, <2>2, Zenon DEF Quiet
<1>19. ASSUME NEW p \in Apps, yield_arm(p) PROVE Quiet
  <2>1. HEAD' = HEAD /\ numerator' = numerator /\ denominator' = denominator /\ loc' = loc
        /\ (Managed' <=> Managed) /\ pc[p] = "yield_arm"
        /\ pc' = [pc EXCEPT ![p] = "yield_wake"]
    BY <1>19, Zenon DEF yield_arm, Goto, Managed
  <2>2. Moves(p)
    BY <2>1, Zenon DEF Moves, AppPcs
  <2> QED BY <2>1, <2>2, Zenon DEF Quiet
<1>20. ASSUME NEW p \in Apps, yield_wake(p) PROVE Quiet
  <2>1. HEAD' = HEAD /\ numerator' = numerator /\ denominator' = denominator /\ loc' = loc
        /\ (Managed' <=> Managed) /\ pc[p] = "yield_wake"
        /\ pc' = [pc EXCEPT ![p] = "schedule"]
    BY <1>20, Zenon DEF yield_wake, WakeDispatcher, Goto, Managed
  <2>2. Moves(p)
    BY <2>1, Zenon DEF Moves, AppPcs
  <2> QED BY <2>1, <2>2, Zenon DEF Quiet
<1>21. ASSUME NEW p \in Apps, resume(p) PROVE Quiet
  <2>1. HEAD' = HEAD /\ numerator' = numerator /\ denominator' = denominator /\ loc' = loc
        /\ (Managed' <=> Managed) /\ pc[p] = "schedule"
        /\ pc' = [pc EXCEPT ![p] = "user"]
    BY <1>21, Zenon DEF resume, Goto, Managed
  <2>2. Moves(p)
    BY <2>1, Zenon DEF Moves, AppPcs
  <2> QED BY <2>1, <2>2, Zenon DEF Quiet
<1>22. ASSUME NEW p \in Apps, dereg_entry(p) PROVE Quiet
  <2>1. HEAD' = HEAD /\ numerator' = numerator /\ denominator' = denominator /\ loc' = loc
        /\ (Managed' <=> Managed) /\ pc[p] = "user"
        /\ pc' = [pc EXCEPT ![p] = "dereg_read"]
    BY <1>22, Zenon DEF dereg_entry, Goto, Managed
  <2>2. Moves(p)
    BY <2>1, Zenon DEF Moves, AppPcs
  <2> QED BY <2>1, <2>2, Zenon DEF Quiet
<1>23. ASSUME NEW p \in Apps, dereg_wake(p) PROVE Quiet
  <2>1. HEAD' = HEAD /\ numerator' = numerator /\ denominator' = denominator /\ loc' = loc
        /\ (Managed' <=> Managed) /\ pc[p] = "dereg_wake"
        /\ pc' = [pc EXCEPT ![p] = "done"]
    BY <1>23, Zenon DEF dereg_wake, WakeDispatcher, Goto, Managed
  <2>2. Moves(p)
    BY <2>1, Zenon DEF Moves, AppPcs
  <2> QED BY <2>1, <2>2, Zenon DEF Quiet
<1>24. ASSUME NEW p \in Apps, write_fails(p) PROVE Quiet
  <2>1. HEAD' = HEAD /\ numerator' = numerator /\ denominator' = denominator /\ loc' = loc
        /\ (Managed' <=> Managed)
        /\ \/ pc' = pc
           \/ pc[p] \in {"start", "user"} /\ pc' = [pc EXCEPT ![p] = "done"]
    BY <1>24, Zenon DEF write_fails, Goto, Managed
  <2>2. Moves(p) \/ pc' = pc
    BY <2>1, Zenon DEF Moves, AppPcs
  <2> QED BY <2>1, <2>2, Zenon DEF Quiet
<1>25. ASSUME NEW p \in Apps, tm_callback(p) PROVE Quiet
  BY <1>25, Zenon DEF tm_callback, WakeDispatcher, Quiet, Managed
<1>26. CASE UNCHANGED vars
  BY <1>26, Zenon DEF vars, Quiet, Managed
<1> QED BY <1>1, <1>2, <1>3, <1>4, <1>5, <1>6, <1>7, <1>8, <1>9, <1>10,
    <1>11, <1>12, <1>13, <1>14, <1>15, <1>16, <1>17, <1>18, <1>19, <1>20,
    <1>21, <1>22, <1>23, <1>24, <1>25, <1>26, Zenon
    DEF Next, userapp, dispatch_fn, mp2_exit, Looks

(***************************************************************************)
(* While p runs module code nobody else is in the middle of any.           *)
(***************************************************************************)
LEMMA Alone ==
  ASSUME Inv, ~Preemptible, NEW p \in Apps, CanRun(p)
  PROVE  \A q \in Apps : q # p =>
           pc[q] \notin {"reg_write", "dereg_read", "dereg_write", "dereg_free"}
<1>1. \A q \in Apps : q # p => q # cpu
  BY AppsAssumption, Zenon DEF CanRun
<1>2. \A q \in Apps : Held(q) => cpu = q
  BY Zenon DEF Inv, Exclusive
<1>3. \A q \in Apps : q # p => ~Held(q)
  BY <1>1, <1>2, Zenon
<1> QED BY <1>3, Zenon DEF Held

(***************************************************************************)
(* Nothing is to be shown of a handler that is not between read and write. *)
(***************************************************************************)
LEMMA NotChanging ==
  ASSUME NEW q \in Apps, pc'[q] \notin {"reg_write", "dereg_write"}
  PROVE  Granting(q)' /\ Returning(q)'
  BY Zenon DEF Granting, Returning

(***************************************************************************)
(* A step that leaves the account alone leaves what was read of it true.   *)
(***************************************************************************)
LEMMA ReadsStay ==
  ASSUME Reads, numerator' = numerator, denominator' = denominator, loc' = loc,
         \A q \in Apps : pc'[q] \in {"reg_write", "dereg_write"} => pc'[q] = pc[q]
  PROVE  Reads'
<1> SUFFICES ASSUME NEW q \in Apps PROVE Granting(q)' /\ Returning(q)'
  BY Zenon DEF Reads
<1>1. Granting(q) /\ Returning(q)
  BY Zenon DEF Reads
<1>2. Granting(q)'
  <2> SUFFICES ASSUME pc'[q] = "reg_write"
               PROVE  /\ Fits(numerator', denominator', Period[q], Computation[q])
                      /\ loc'[q].n = AdmitN(numerator', denominator', Period[q], Computation[q])
                      /\ loc'[q].d = AdmitD(numerator', denominator', Period[q], Computation[q])
    BY Zenon DEF Granting
  <2> QED BY <1>1, Zenon DEF Granting
<1>3. Returning(q)'
  <2> SUFFICES ASSUME pc'[q] = "dereg_write"
               PROVE  /\ loc'[q].n = ReleaseN(numerator', denominator', Period[q], Computation[q])
                      /\ loc'[q].d = ReleaseD(numerator', denominator', Period[q], Computation[q])
    BY Zenon DEF Returning
  <2> QED BY <1>1, Zenon DEF Returning
<1> QED BY <1>2, <1>3, Zenon

(***************************************************************************)
(* reg_check: what has just been read is true.                             *)
(***************************************************************************)
LEMMA ReadsCheck == ASSUME Inv, ~Preemptible, NEW p \in Apps, reg_check(p) PROVE Reads'
<1> DEFINE r == admission_control(numerator, denominator, Period[p], Computation[p], 0)
<1>a. pc \in [Apps -> AppPcs] /\ loc \in [Apps -> [n : Nat, d : Nat]] /\ CanRun(p)
  BY Zenon DEF Inv, TypeOK, AppType, reg_check
<1>1. numerator' = numerator /\ denominator' = denominator
  BY Zenon DEF reg_check, account
<1>2. \/ r.ret = 0 /\ pc' = [pc EXCEPT ![p] = "reg_write"]
         /\ loc' = [loc EXCEPT ![p] = [n |-> r.n, d |-> r.d]]
      \/ pc' = [pc EXCEPT ![p] = "check"]
  BY Zenon DEF reg_check, Goto
<1>3. pc'[p] \in {"reg_write", "check"} /\ \A q \in Apps : q # p => pc'[q] = pc[q]
  BY <1>a, <1>2, Zenon
<1>4. ASSUME NEW q \in Apps PROVE Granting(q)' /\ Returning(q)'
  <2>1. CASE q # p
    BY <1>a, <1>3, <2>1, Alone, NotChanging, Zenon
  <2>2. CASE q = p /\ pc'[p] = "reg_write"
    <3>1. r.ret = 0 /\ loc' = [loc EXCEPT ![p] = [n |-> r.n, d |-> r.d]]
      BY <1>a, <1>2, <2>2, Zenon
    <3>2. Fits(numerator, denominator, Period[p], Computation[p])
      <4>1. ~Fits(numerator, denominator, Period[p], Computation[p]) => r.ret = 1
        BY Zenon DEF admission_control
      <4> QED BY <3>1, <4>1
    <3>3. r = [ret |-> 0, n |-> AdmitN(numerator, denominator, Period[p], Computation[p]),
                          d |-> AdmitD(numerator, denominator, Period[p], Computation[p])]
      <4>1. 0 # 1
        BY ONLY SMT
      <4> QED BY ONLY <3>2, <4>1, Zenon DEF admission_control
    <3>4. /\ r.n = AdmitN(numerator, denominator, Period[p], Computation[p])
          /\ r.d = AdmitD(numerator, denominator, Period[p], Computation[p])
      BY ONLY <3>3, SMT
    <3> HIDE DEF r
    <3>5. loc'[p].n = r.n /\ loc'[p].d = r.d
      BY <1>a, <3>1, Zenon
    <3> QED BY <1>1, <2>2, <3>2, <3>4, <3>5, Zenon DEF Granting, Returning
  <2>3. CASE q = p /\ pc'[p] = "check"
    BY <2>3, NotChanging, Zenon
  <2> QED BY <1>3, <2>1, <2>2, <2>3, Zenon
<1> QED BY <1>4, Zenon DEF Reads

(***************************************************************************)
(* dereg_read: what has just been read is true.                            *)
(***************************************************************************)
LEMMA ReadsRead == ASSUME Inv, ~Preemptible, NEW p \in Apps, dereg_read(p) PROVE Reads'
<1> DEFINE r == admission_control(numerator, denominator, Period[p], Computation[p], 1)
<1>a. pc \in [Apps -> AppPcs] /\ loc \in [Apps -> [n : Nat, d : Nat]] /\ CanRun(p)
  BY Zenon DEF Inv, TypeOK, AppType, dereg_read
<1>1. numerator' = numerator /\ denominator' = denominator
      /\ pc' = [pc EXCEPT ![p] = "dereg_write"]
      /\ loc' = [loc EXCEPT ![p] = [n |-> r.n, d |-> r.d]]
  BY Zenon DEF dereg_read, account, Goto
<1>2. pc'[p] = "dereg_write" /\ \A q \in Apps : q # p => pc'[q] = pc[q]
  BY <1>a, <1>1, Zenon
<1>3. ASSUME NEW q \in Apps PROVE Granting(q)' /\ Returning(q)'
  <2>1. CASE q # p
    BY <1>a, <1>2, <2>1, Alone, NotChanging, Zenon
  <2>2. CASE q = p
    <3>1. /\ r.n = ReleaseN(numerator, denominator, Period[p], Computation[p])
          /\ r.d = ReleaseD(numerator, denominator, Period[p], Computation[p])
      BY Zenon DEF admission_control
    <3> HIDE DEF r
    <3>2. loc'[p].n = r.n /\ loc'[p].d = r.d
      BY ONLY <1>a, <1>1, Zenon
    <3> QED BY <1>1, <1>2, <2>2, <3>1, <3>2, Zenon DEF Granting, Returning
  <2> QED BY <2>1, <2>2, Zenon
<1> QED BY <1>3, Zenon DEF Reads

(***************************************************************************)
(* Nobody else writes the account between the read and the write of        *)
(* admission_control (mp2.c:120-154).                                      *)
(***************************************************************************)
LEMMA ReadsStep == ASSUME Inv, Reads, [Next]_vars, ~Preemptible PROVE Reads'
<1>a. pc \in [Apps -> AppPcs]
  BY Zenon DEF Inv, TypeOK, AppType
<1>n. ASSUME \A q \in Apps : pc'[q] \notin {"reg_write", "dereg_write"} PROVE Reads'
  BY <1>n, NotChanging, Zenon DEF Reads
<1>1. CASE Quiet
  <2>1. \A q \in Apps : pc'[q] \in {"reg_write", "dereg_write"} => pc'[q] = pc[q]
    BY <1>a, <1>1, Zenon DEF Quiet, Moves
  <2> QED BY <1>1, <2>1, ReadsStay, Zenon DEF Quiet
<1>2. CASE mp2_init
  <2>1. \A q \in Apps : pc'[q] = "start"
    BY <1>2, Zenon DEF Inv, Lifecycle, mp2_init, app
  <2> QED BY <1>n, <2>1, Zenon
<1>3. CASE freeall
  BY <1>3, ReadsStay, Zenon DEF freeall, account, app
<1>4. CASE free_next
  BY <1>4, ReadsStay, Zenon DEF free_next, account, app
<1>5. ASSUME NEW p \in Apps, reg_write(p) \/ dereg_write(p) \/ reg_link(p) \/ dereg_free(p)
      PROVE  Reads'
  <2>1. CanRun(p) /\ \E l \in {"reg_link", "dereg_free", "reg_fill", "dereg_wake"} :
                       pc' = [pc EXCEPT ![p] = l]
    BY <1>5, Zenon DEF reg_write, dereg_write, reg_link, dereg_free, Goto
  <2>2. pc'[p] \notin {"reg_write", "dereg_write"} /\ \A q \in Apps : q # p => pc'[q] = pc[q]
    BY <1>a, <2>1, Zenon
  <2> QED BY <1>n, <2>1, <2>2, Alone, Zenon
<1>6. ASSUME NEW p \in Apps, reg_check(p) PROVE Reads'
  BY <1>6, ReadsCheck, Zenon
<1>7. ASSUME NEW p \in Apps, dereg_read(p) PROVE Reads'
  BY <1>7, ReadsRead, Zenon
<1> QED BY <1>1, <1>2, <1>3, <1>4, <1>5, <1>6, <1>7, StepKinds, Zenon DEF Looks

(***************************************************************************)
(* On one processor what a handler of mp2.c has read of the account when   *)
(* it decides is still true when it writes, with no reservation about the  *)
(* size of the words.                                                      *)
(***************************************************************************)
THEOREM ReadsStayTrue == ASSUME ~Preemptible PROVE Spec => []Reads
<1>1. Init => Reads
  BY Zenon DEF Init, Reads, Granting, Returning
<1>2. Inv /\ Reads /\ [Next]_vars => Reads'
  BY ReadsStep, Zenon
<1> QED BY <1>1, <1>2, Invariance, PTL DEF Spec

(***************************************************************************)
(* Who is charged.  A quiet step changes nothing of it.                    *)
(***************************************************************************)
LEMMA ChargedQuiet ==
  ASSUME pc \in [Apps -> AppPcs], Quiet
  PROVE  Charged' = Charged /\ (Linked \cup Granted)' = Linked \cup Granted
<1>1. \A q \in Apps : /\ pc'[q] \in {"reg_link", "dereg_free"} => pc'[q] = pc[q]
                      /\ pc[q] \in {"reg_link", "dereg_free"} => pc'[q] = pc[q]
  BY Zenon DEF Quiet, Moves
<1>2. Granted' = Granted /\ Returned' = Returned /\ Linked' = Linked
  BY <1>1, Zenon DEF Granted, Returned, Linked, Quiet
<1> QED BY <1>2, Zenon DEF Charged

(***************************************************************************)
(* Nor does reading the account, linking a task that is charged or freeing *)
(* one that is not.                                                        *)
(***************************************************************************)
LEMMA ChargedLooks ==
  ASSUME Inv, ~Preemptible, NEW p \in Apps, Looks(p)
  PROVE  /\ numerator' = numerator /\ denominator' = denominator /\ (Managed' <=> Managed)
         /\ Charged' = Charged /\ (Linked \cup Granted)' \subseteq Linked \cup Granted
<1>a. pc \in [Apps -> AppPcs] /\ HEAD \in Seq(Apps) /\ NoDup(HEAD)
  BY Zenon DEF Inv, TypeOK, AppType, Membership
<1>1. numerator' = numerator /\ denominator' = denominator /\ (Managed' <=> Managed) /\ CanRun(p)
  BY Zenon DEF Looks, reg_check, dereg_read, reg_link, dereg_free, account, Managed
<1>2. CASE reg_check(p) \/ dereg_read(p)
  <2>1. /\ pc[p] \in {"start", "dereg_read"} /\ HEAD' = HEAD
        /\ \E l \in {"reg_write", "check", "dereg_write"} : pc' = [pc EXCEPT ![p] = l]
    BY <1>2, Zenon DEF reg_check, dereg_read, Goto
  <2>2. \A q \in Apps : /\ pc'[q] = "reg_link" <=> pc[q] = "reg_link"
                        /\ pc'[q] = "dereg_free" <=> pc[q] = "dereg_free"
    BY <1>a, <2>1, Zenon
  <2>3. Granted' = Granted /\ Returned' = Returned /\ Linked' = Linked
    BY <2>1, <2>2, Zenon DEF Granted, Returned, Linked
  <2> QED BY <1>1, <2>3, Zenon DEF Charged
<1>3. CASE reg_link(p)
  <2>1. HEAD' = Append(HEAD, p) /\ pc[p] = "reg_link" /\ pc' = [pc EXCEPT ![p] = "reg_fill"]
    BY <1>3, Zenon DEF reg_link, Goto
  <2>2. pc'[p] = "reg_fill" /\ \A q \in Apps : q # p => pc'[q] = pc[q]
    BY <1>a, <2>1, Zenon
  <2>3. Linked' = Linked \cup {p}
    BY <1>a, <2>1, LinkedAppend, Zenon
  <2>4. Granted' = Granted \ {p} /\ p \in Granted
    BY <2>1, <2>2, Zenon DEF Granted
  <2>5. Returned' = Returned
    BY <2>1, <2>2, Zenon DEF Returned
  <2>6. Linked' \cup Granted' = Linked \cup Granted
    BY <2>3, <2>4, Zenon
  <2> QED BY <1>1, <2>5, <2>6, Zenon DEF Charged
<1>4. CASE dereg_free(p)
  <2>1. HEAD' = Without(HEAD, p) /\ pc[p] = "dereg_free" /\ pc' = [pc EXCEPT ![p] = "dereg_wake"]
    BY <1>4, Zenon DEF dereg_free, freeone, Goto
  <2>2. pc'[p] = "dereg_wake" /\ \A q \in Apps : q # p => pc'[q] = pc[q] /\ pc[q] # "dereg_free"
    BY <1>a, <1>1, <2>1, Alone, Zenon
  <2>3. p \in Linked
    BY <2>1, Zenon DEF Inv, Membership, InHandler
  <2>4. Linked' = Linked \ {p}
    BY <1>a, <2>1, <2>3, LinkedRemove, Zenon
  <2>5. Granted' = Granted /\ p \notin Granted
    BY <2>1, <2>2, Zenon DEF Granted
  <2>6. Returned' = {}
    BY <2>2, Zenon DEF Returned
  <2>7. Returned = {p}
    BY <2>1, <2>2, Zenon DEF Returned
  <2> QED BY <1>1, <2>4, <2>5, <2>6, <2>7, Zenon DEF Charged
<1> QED BY <1>2, <1>3, <1>4, Zenon DEF Looks

(***************************************************************************)
(* The admission is written: p is charged, as the account stands.          *)
(***************************************************************************)
LEMMA ChargedGrant ==
  ASSUME Inv, Reads, ~Preemptible, NEW p \in Apps, reg_write(p)
  PROVE  /\ Managed /\ Managed' /\ Charged \in SUBSET Apps /\ p \notin Charged
         /\ Charged' = Charged \cup {p} /\ Linked' \cup Granted' = Charged \cup {p}
         /\ Fits(numerator, denominator, Period[p], Computation[p])
         /\ numerator' = AdmitN(numerator, denominator, Period[p], Computation[p])
         /\ denominator' = AdmitD(numerator, denominator, Period[p], Computation[p])
<1>a. pc \in [Apps -> AppPcs] /\ HEAD \in Seq(Apps) /\ CanRun(p)
  BY Zenon DEF Inv, TypeOK, AppType, reg_write
<1>1. HEAD' = HEAD /\ numerator' = loc[p].n /\ denominator' = loc[p].d /\ mod' = mod
      /\ pc[p] = "reg_write" /\ pc' = [pc EXCEPT ![p] = "reg_link"]
  BY Zenon DEF reg_write, Goto
<1>2. /\ Fits(numerator, denominator, Period[p], Computation[p])
      /\ loc[p].n = AdmitN(numerator, denominator, Period[p], Computation[p])
      /\ loc[p].d = AdmitD(numerator, denominator, Period[p], Computation[p])
  BY <1>1, Zenon DEF Reads, Granting
<1>3. pc'[p] = "reg_link" /\ \A q \in Apps : q # p => pc'[q] = pc[q] /\ pc[q] # "dereg_free"
  BY <1>a, <1>1, Alone, Zenon
<1>4. Linked' = Linked
  BY <1>1, Zenon DEF Linked
<1>5. Granted' = Granted \cup {p}
  BY <1>3, Zenon DEF Granted
<1>6. Returned = {} /\ Returned' = {}
  BY <1>1, <1>3, Zenon DEF Returned
<1>7. p \notin Linked /\ p \notin Granted /\ Managed /\ Managed'
  BY <1>1, Zenon DEF Inv, Membership, Lifecycle, InHandler, Granted, Managed
<1>8. Charged \in SUBSET Apps /\ p \notin Charged
  BY <1>a, <1>7, LinkedFacts, Zenon DEF Charged, Granted
<1>9. Charged' = Charged \cup {p} /\ Linked' \cup Granted' = Charged \cup {p}
  BY <1>4, <1>5, <1>6, Zenon DEF Charged
<1> QED BY <1>1, <1>2, <1>7, <1>8, <1>9, Zenon

(***************************************************************************)
(* The release is written: p is no longer charged.                         *)
(***************************************************************************)
LEMMA ChargedReturn ==
  ASSUME Inv, Reads, ~Preemptible, NEW p \in Apps, dereg_write(p)
  PROVE  /\ Managed /\ Managed' /\ Charged \in SUBSET Apps /\ p \in Charged
         /\ Charged' = Charged \ {p} /\ Linked' \cup Granted' = Linked \cup Granted
         /\ numerator' = ReleaseN(numerator, denominator, Period[p], Computation[p])
         /\ denominator' = ReleaseD(numerator, denominator, Period[p], Computation[p])
<1>a. pc \in [Apps -> AppPcs] /\ HEAD \in Seq(Apps) /\ CanRun(p)
  BY Zenon DEF Inv, TypeOK, AppType, dereg_write
<1>1. HEAD' = HEAD /\ numerator' = loc[p].n /\ denominator' = loc[p].d /\ mod' = mod
      /\ pc[p] = "dereg_write" /\ pc' = [pc EXCEPT ![p] = "dereg_free"]
  BY Zenon DEF dereg_write, Goto
<1>2. /\ loc[p].n = ReleaseN(numerator, denominator, Period[p], Computation[p])
      /\ loc[p].d = ReleaseD(numerator, denominator, Period[p], Computation[p])
  BY <1>1, Zenon DEF Reads, Returning
<1>3. pc'[p] = "dereg_free" /\ \A q \in Apps : q # p => pc'[q] = pc[q] /\ pc[q] # "dereg_free"
  BY <1>a, <1>1, Alone, Zenon
<1>4. Linked' = Linked
  BY <1>1, Zenon DEF Linked
<1>5. Granted' = Granted
  BY <1>1, <1>3, Zenon DEF Granted
<1>6. Returned = {}
  BY <1>1, <1>3, Zenon DEF Returned
<1>7. Returned' = {p}
  BY <1>3, Zenon DEF Returned
<1>8. p \in Linked /\ Managed /\ Managed'
  BY <1>1, Zenon DEF Inv, Membership, Lifecycle, InHandler, Managed
<1>9. Charged \in SUBSET Apps /\ p \in Charged
  BY <1>a, <1>6, <1>8, LinkedFacts, Zenon DEF Charged, Granted
<1>10. Charged' = Charged \ {p} /\ Linked' \cup Granted' = Linked \cup Granted
  BY <1>4, <1>5, <1>6, <1>7, Zenon DEF Charged
<1> QED BY <1>1, <1>2, <1>8, <1>9, <1>10, Zenon

(***************************************************************************)
(* mp2_init: nobody is charged.                                            *)
(***************************************************************************)
LEMMA ChargedInit ==
  ASSUME Inv, mp2_init
  PROVE  /\ ~Managed /\ numerator' = 0 /\ denominator' = 0
         /\ Charged' = {} /\ Linked' \cup Granted' = {}
<1>1. \A q \in Apps : pc'[q] = "start"
  BY Zenon DEF Inv, Lifecycle, mp2_init, app
<1>2. /\ HEAD \in Seq(Apps) /\ HEAD' = <<>> /\ numerator' = 0 /\ denominator' = 0 /\ ~Managed
  BY Zenon DEF Inv, TypeOK, mp2_init, Managed
<1>3. Linked' = {} /\ Granted' = {}
  BY <1>1, <1>2, LinkedFacts, Zenon DEF Granted
<1> QED BY <1>2, <1>3, Zenon DEF Charged

(***************************************************************************)
(* The exact load of no task is within the bound.                          *)
(***************************************************************************)
LEMMA NoLoad == Bounded({}) /\ Records(0, 0, LoadN({}), LoadD({}))
<1>1. {} \in SUBSET Apps
  BY Zenon
<1>2. LoadN({}) = 0 /\ LoadD({}) = 1
  BY <1>1, LoadType, Zenon
<1> QED BY <1>2 DEF Records, Bounded

(***************************************************************************)
(* What stays charged stays within the bound.                              *)
(***************************************************************************)
LEMMA LoadStays ==
  ASSUME Inv, LoadInv, numerator' = numerator, denominator' = denominator, Managed' => Managed,
         Managed' => Charged' = Charged, (Linked \cup Granted)' \subseteq Linked \cup Granted
  PROVE  LoadInv'
<1>1. Linked \cup Granted \in SUBSET Apps
  BY LinkedFacts, Zenon DEF Inv, TypeOK, Granted
<1>2. Bounded(Linked \cup Granted)
  BY Zenon DEF LoadInv
<1>3. PICK T \in SUBSET Apps : T = Linked \cup Granted
  BY <1>1, Zenon
<1> PICK S \in SUBSET T : S = Linked' \cup Granted'
  BY <1>3, Zenon
<1>4. Bounded(Linked' \cup Granted')
  BY <1>2, <1>3, BoundedPart, Zenon
<1>5. Managed' => Records(numerator', denominator', LoadN(Charged'), LoadD(Charged'))
  BY Zenon DEF LoadInv
<1> QED BY <1>4, <1>5, Zenon DEF LoadInv

(***************************************************************************)
(* The admission is written: one more is charged, within the bound.        *)
(***************************************************************************)
LEMMA LoadGrant ==
  ASSUME Inv, Reads, LoadInv, NoWrap, ~Preemptible, NEW p \in Apps, reg_write(p)
  PROVE  LoadInv'
<1>a. numerator \in Nat /\ denominator \in Nat
  BY Zenon DEF Inv, TypeOK, AccountType
<1>b. /\ Managed /\ Charged \in SUBSET Apps /\ p \notin Charged
      /\ Charged' = Charged \cup {p} /\ Linked' \cup Granted' = Charged \cup {p}
      /\ Fits(numerator, denominator, Period[p], Computation[p])
      /\ numerator' = AdmitN(numerator, denominator, Period[p], Computation[p])
      /\ denominator' = AdmitD(numerator, denominator, Period[p], Computation[p])
  BY ChargedGrant, Zenon
<1>9. Records(numerator, denominator, LoadN(Charged), LoadD(Charged))
  BY <1>b, Zenon DEF LoadInv
<1>10. /\ LoadD(Charged \cup {p}) = Period[p] * LoadD(Charged)
       /\ LoadN(Charged \cup {p}) = Computation[p] * LoadD(Charged) + Period[p] * LoadN(Charged)
       /\ LoadD(Charged) \in Nat \ {0} /\ LoadN(Charged) \in Nat
  <2>1. PICK S \in SUBSET Apps : S = Charged
    BY <1>b, Zenon
  <2>2. p \notin S
    BY <1>b, <2>1, Zenon
  <2>3. /\ LoadD(S \cup {p}) = Period[p] * LoadD(S)
        /\ LoadN(S \cup {p}) = Computation[p] * LoadD(S) + Period[p] * LoadN(S)
        /\ LoadD(S) \in Nat \ {0} /\ LoadN(S) \in Nat
    BY <2>2, LoadAdd, LoadType, Zenon
  <2> QED BY <2>1, <2>3, Zenon
<1>11. Period[p] \in Nat \ {0} /\ Computation[p] \in Nat
       /\ InRange(numerator, denominator, Period[p], Computation[p])
  BY AppsAssumption, Zenon DEF NoWrap
<1> DEFINE P == Period[p]
           C == Computation[p]
<1>12. PICK n \in Nat, d \in Nat, u \in Nat \ {0}, v \in Nat :
         n = numerator /\ d = denominator /\ u = LoadD(Charged) /\ v = LoadN(Charged)
  BY <1>a, <1>10, Zenon
<1>13. Records(n, d, v, u) /\ InRange(n, d, P, C) /\ Fits(n, d, P, C)
  BY <1>b, <1>9, <1>11, <1>12, Zenon
<1>14. Records(AdmitN(n, d, P, C), AdmitD(n, d, P, C), C * u + P * v, P * u)
  BY <1>11, <1>13, AdmitExact, Zenon
<1>15. 1000 * (C * u + P * v) <= 693 * (P * u)
  <2> HIDE DEF P, C
  <2>1. P \in Nat \ {0} /\ C \in Nat
    BY <1>11, Zenon DEF P, C
  <2>2. Fits(n, d, P, C) <=> 1000 * (C * u + P * v) <= 693 * (P * u)
    BY <1>13, <2>1, FitsExact, SMT
  <2> QED BY <1>13, <2>2, SMT
<1>16. LoadD(Charged') = P * u /\ LoadN(Charged') = C * u + P * v
  BY <1>b, <1>10, <1>12, Zenon
<1>17. Records(numerator', denominator', LoadN(Charged'), LoadD(Charged'))
  BY <1>b, <1>12, <1>14, <1>16, Zenon
<1>18. Bounded(Linked' \cup Granted')
  <2>1. Linked' \cup Granted' = Charged'
    BY <1>b, Zenon
  <2>2. 1000 * LoadN(Charged') <= 693 * LoadD(Charged')
    BY ONLY <1>15, <1>16, SMT
  <2> QED BY ONLY <2>1, <2>2, SMT DEF Bounded
<1> QED BY <1>17, <1>18, Zenon DEF LoadInv

(***************************************************************************)
(* The release is written: one less is charged.                            *)
(***************************************************************************)
LEMMA LoadReturn ==
  ASSUME Inv, Reads, LoadInv, NoWrap, ~Preemptible, NEW p \in Apps, dereg_write(p)
  PROVE  LoadInv'
<1>a. numerator \in Nat /\ denominator \in Nat
  BY Zenon DEF Inv, TypeOK, AccountType
<1>b. /\ Managed /\ Charged \in SUBSET Apps /\ p \in Charged
      /\ Charged' = Charged \ {p} /\ Linked' \cup Granted' = Linked \cup Granted
      /\ numerator' = ReleaseN(numerator, denominator, Period[p], Computation[p])
      /\ denominator' = ReleaseD(numerator, denominator, Period[p], Computation[p])
  BY ChargedReturn, Zenon
<1>9. Records(numerator, denominator, LoadN(Charged), LoadD(Charged))
  BY <1>b, Zenon DEF LoadInv
<1>10. PICK S \in SUBSET Apps : S = Charged \ {p} /\ p \notin S /\ Charged = S \cup {p}
  <2>1. Charged \ {p} \in SUBSET Apps /\ p \notin Charged \ {p} /\ Charged = (Charged \ {p}) \cup {p}
    BY <1>b, Zenon
  <2> QED BY <2>1, Zenon
<1>11. Period[p] \in Nat \ {0} /\ Computation[p] \in Nat
       /\ InRange(numerator, denominator, Period[p], Computation[p])
  BY AppsAssumption, Zenon DEF NoWrap
<1> DEFINE P == Period[p]
           C == Computation[p]
           u == LoadD(S)
           v == LoadN(S)
<1>12. PICK n \in Nat, d \in Nat : n = numerator /\ d = denominator
  BY <1>a, Zenon
<1>13. u \in Nat \ {0} /\ v \in Nat
       /\ LoadD(S \cup {p}) = P * u /\ LoadN(S \cup {p}) = C * u + P * v
  BY <1>10, LoadAdd, LoadType, Zenon
<1>14. Records(n, d, C * u + P * v, P * u) /\ InRange(n, d, P, C)
  BY <1>9, <1>10, <1>11, <1>12, <1>13, Zenon
<1>15. Records(ReleaseN(n, d, P, C), ReleaseD(n, d, P, C), v, u)
  <2> HIDE DEF u, v, P, C
  <2>1. P \in Nat \ {0} /\ C \in Nat
    BY <1>11, Zenon DEF P, C
  <2> QED BY <1>13, <1>14, <2>1, ReleaseExact, Zenon
<1>16. Records(numerator', denominator', LoadN(Charged'), LoadD(Charged'))
  BY <1>b, <1>10, <1>12, <1>15, Zenon
<1>17. Bounded(Linked' \cup Granted')
  BY <1>b, Zenon DEF LoadInv
<1> QED BY <1>16, <1>17, Zenon DEF LoadInv

(***************************************************************************)
(* Every step keeps the account exact and the charged load bounded.        *)
(***************************************************************************)
LEMMA LoadStep == ASSUME Inv, Reads, LoadInv, NoWrap, [Next]_vars, ~Preemptible PROVE LoadInv'
<1>a. pc \in [Apps -> AppPcs] /\ HEAD \in Seq(Apps) /\ NoDup(HEAD)
  BY Zenon DEF Inv, TypeOK, AppType, Membership
<1>1. CASE Quiet
  BY <1>a, <1>1, ChargedQuiet, LoadStays, Zenon DEF Quiet
<1>2. CASE mp2_init
  <2>1. Records(numerator', denominator', LoadN(Charged'), LoadD(Charged'))
        /\ Bounded(Linked' \cup Granted')
    BY <1>2, ChargedInit, NoLoad, Zenon
  <2> QED BY <2>1, Zenon DEF LoadInv
<1>3. CASE freeall
  <2>1. HEAD' = HEAD /\ pc' = pc /\ numerator' = numerator /\ denominator' = denominator /\ ~Managed'
    BY <1>3, Zenon DEF freeall, account, app, Managed
  <2>2. (Linked \cup Granted)' = Linked \cup Granted
    BY <2>1, Zenon DEF Linked, Granted
  <2> QED BY <2>1, <2>2, LoadStays, Zenon
<1>4. CASE free_next
  <2>1. /\ HEAD # <<>> /\ HEAD' = Without(HEAD, Head(HEAD)) /\ pc' = pc
        /\ numerator' = numerator /\ denominator' = denominator /\ ~Managed'
    BY <1>4, Zenon DEF free_next, freeone, account, app, Managed
  <2>2. Head(HEAD) \in Linked
    BY <1>a, <2>1, LinkedFacts
  <2>3. PICK h \in Linked : h = Head(HEAD)
    BY <2>2, Zenon
  <2>4. HEAD' = Without(HEAD, h)
    BY <2>1, <2>3, Zenon
  <2>5. Linked' = Linked \ {h}
    BY <1>a, <2>4, LinkedRemove, Zenon
  <2>6. Granted' = Granted
    BY <2>1, Zenon DEF Granted
  <2>7. (Linked \cup Granted)' \subseteq Linked \cup Granted
    BY <2>5, <2>6, Zenon
  <2> QED BY <2>1, <2>7, LoadStays, Zenon
<1>5. ASSUME NEW p \in Apps, reg_write(p) PROVE LoadInv'
  BY <1>5, LoadGrant, Zenon
<1>6. ASSUME NEW p \in Apps, dereg_write(p) PROVE LoadInv'
  BY <1>6, LoadReturn, Zenon
<1>7. ASSUME NEW p \in Apps, Looks(p) PROVE LoadInv'
  BY <1>7, ChargedLooks, LoadStays, Zenon
<1> QED BY <1>1, <1>2, <1>3, <1>4, <1>5, <1>6, <1>7, StepKinds, Zenon

(***************************************************************************)
(* What admission control is for (mp2.c:120-154), in the running system:   *)
(* on one processor, as long as no product of a call wraps, the tasks in   *)
(* the list use at most 0.693 of the processor, whatever the interleaving  *)
(* of registrations and deregistrations, the moments included at which a   *)
(* task is charged and not yet linked, or returned and not yet freed.      *)
(***************************************************************************)
THEOREM LoadBounded == ASSUME ~Preemptible PROVE Spec /\ []NoWrap => []UtilizationBound
<1>1. Init => LoadInv
  <2> SUFFICES ASSUME Init PROVE LoadInv
    BY Zenon
  <2>1. HEAD = <<>> /\ mod = "absent" /\ \A q \in Apps : pc[q] = "start"
    BY Zenon DEF Init
  <2>2. Linked = {}
    BY <2>1 DEF Linked, Range
  <2>3. Linked \cup Granted = {} /\ ~Managed
    BY <2>1, <2>2, Zenon DEF Granted, Managed
  <2>4. Bounded(Linked \cup Granted)
    BY <2>3, NoLoad, Zenon
  <2> QED BY <2>3, <2>4, Zenon DEF LoadInv
<1>2. Inv /\ Reads /\ LoadInv /\ NoWrap /\ [Next]_vars => LoadInv'
  BY LoadStep, Zenon
<1>3. Inv /\ LoadInv => UtilizationBound
  <2> SUFFICES ASSUME Inv, LoadInv PROVE Bounded(Linked)
    BY ZenonT(60) DEF UtilizationBound, Bounded, LoadN, LoadD
  <2>1. Linked \subseteq Apps
    BY LinkedFacts, Zenon DEF Inv, TypeOK
  <2>2. Linked \cup Granted \in SUBSET Apps /\ Linked \in SUBSET (Linked \cup Granted)
    BY <2>1, Zenon DEF Granted
  <2> QED BY <2>2, BoundedPart, Zenon DEF LoadInv
<1> QED BY <1>1, <1>2, <1>3, Invariance, ReadsStayTrue, PTL DEF Spec
-----------------------------------------------------------------------------
(***************************************************************************)
(* The account as AdmissionControl has it.  Its arithmetic is the same.    *)
(***************************************************************************)
LEMMA SameCall ==
  ASSUME NEW n, NEW d, NEW P, NEW C, NEW flag
  PROVE  AC!admission_control(n, d, P, C, flag) = admission_control(n, d, P, C, flag)
  BY Zenon DEF AC!admission_control, AC!Fits, AC!AdmitN, AC!AdmitD, AC!ReleaseN, AC!ReleaseD,
     AC!CurrN, AC!CurrDen, AC!Scaled, AC!Share, AC!ULong, AC!UInt,
     admission_control, Fits, AdmitN, AdmitD, ReleaseN, ReleaseD,
     CurrN, CurrDen, Scaled, Share, ULong, UInt

(***************************************************************************)
(* A step that leaves the account and the charged tasks as they are is no  *)
(* step of AdmissionControl.                                               *)
(***************************************************************************)
LEMMA AccountStays ==
  ASSUME Managed' <=> Managed,
         Managed => numerator' = numerator /\ denominator' = denominator /\ Charged' = Charged
  PROVE  UNCHANGED AC!core
<1>1. Recorded(numerator)' = Recorded(numerator) /\ Recorded(denominator)' = Recorded(denominator)
  BY Zenon DEF Recorded
<1>2. Admitted' = Admitted
  BY Zenon DEF Admitted
<1> QED BY <1>1, <1>2, Zenon DEF AC!core

(***************************************************************************)
(* Writing an admission is a registration, all of it.                      *)
(***************************************************************************)
LEMMA GrantIsRegistration ==
  ASSUME Inv, Reads, ~Preemptible, NEW p \in Apps, reg_write(p)
  PROVE  AC!reg_entry(p, Period[p], Computation[p])
<1>b. /\ Managed /\ Managed' /\ Charged \in SUBSET Apps /\ p \notin Charged
      /\ Charged' = Charged \cup {p}
      /\ Fits(numerator, denominator, Period[p], Computation[p])
      /\ numerator' = AdmitN(numerator, denominator, Period[p], Computation[p])
      /\ denominator' = AdmitD(numerator, denominator, Period[p], Computation[p])
  BY ChargedGrant, Zenon
<1>1. /\ Recorded(numerator) = numerator /\ Recorded(denominator) = denominator
      /\ Recorded(numerator)' = numerator' /\ Recorded(denominator)' = denominator'
  BY <1>b, Zenon DEF Recorded
<1>2. Admitted[p] = NoTask
  BY <1>b, Zenon DEF Admitted
<1>3. Admitted' = [Admitted EXCEPT ![p] = [P |-> Period[p], C |-> Computation[p]]]
  BY <1>b, Zenon DEF Admitted
<1>4. PICK r : r = AC!admission_control(numerator, denominator, Period[p], Computation[p], 0)
  BY ONLY Zenon
<1>5. r = [ret |-> 0, n |-> AdmitN(numerator, denominator, Period[p], Computation[p]),
                      d |-> AdmitD(numerator, denominator, Period[p], Computation[p])]
  <2>1. 0 # 1
    BY ONLY SMT
  <2>2. r = admission_control(numerator, denominator, Period[p], Computation[p], 0)
    BY ONLY <1>4, SameCall, Zenon
  <2> QED BY ONLY <1>b, <2>1, <2>2, Zenon DEF admission_control
<1>6. r.ret = 0 /\ r.n = numerator' /\ r.d = denominator'
  BY ONLY <1>b, <1>5, Zenon
<1> QED BY ONLY <1>1, <1>2, <1>3, <1>4, <1>6, Zenon DEF AC!reg_entry, AC!Account

(***************************************************************************)
(* Writing a release is a deregistration, all of it.                       *)
(***************************************************************************)
LEMMA ReturnIsDeregistration ==
  ASSUME Inv, Reads, ~Preemptible, NEW p \in Apps, dereg_write(p)
  PROVE  AC!dereg_entry(p)
<1>b. /\ Managed /\ Managed' /\ Charged \in SUBSET Apps /\ p \in Charged
      /\ Charged' = Charged \ {p}
      /\ numerator' = ReleaseN(numerator, denominator, Period[p], Computation[p])
      /\ denominator' = ReleaseD(numerator, denominator, Period[p], Computation[p])
  BY ChargedReturn, Zenon
<1>1. /\ Recorded(numerator) = numerator /\ Recorded(denominator) = denominator
      /\ Recorded(numerator)' = numerator' /\ Recorded(denominator)' = denominator'
  BY <1>b, Zenon DEF Recorded
<1>2. Admitted[p] = [P |-> Period[p], C |-> Computation[p]]
  BY <1>b, Zenon DEF Admitted
<1>3. Admitted[p].P = Period[p] /\ Admitted[p].C = Computation[p]
  BY ONLY <1>2, SMT
<1>4. Admitted[p] # NoTask
  <2>1. Period[p] # 0
    BY AppsAssumption, Zenon
  <2>2. NoTask.P = 0
    BY ONLY Zenon DEF NoTask
  <2> QED BY ONLY <1>3, <2>1, <2>2, Zenon
<1>5. Admitted' = [Admitted EXCEPT ![p] = NoTask]
  BY <1>b, Zenon DEF Admitted
<1>6. PICK r : r = AC!admission_control(numerator, denominator, Period[p], Computation[p], 1)
  BY ONLY Zenon
<1>7. r.n = numerator' /\ r.d = denominator'
  <2>1. r = admission_control(numerator, denominator, Period[p], Computation[p], 1)
    BY ONLY <1>6, SameCall, Zenon
  <2>2. r = [ret |-> 1, n |-> ReleaseN(numerator, denominator, Period[p], Computation[p]),
                        d |-> ReleaseD(numerator, denominator, Period[p], Computation[p])]
    BY ONLY <2>1, Zenon DEF admission_control
  <2> QED BY ONLY <1>b, <2>2, Zenon
<1> QED BY ONLY <1>1, <1>3, <1>4, <1>5, <1>6, <1>7, Zenon DEF AC!dereg_entry, AC!Account

(***************************************************************************)
(* Every step of the scheduler is a step of AdmissionControl or none.      *)
(***************************************************************************)
LEMMA AdmissionSimulation ==
  ASSUME Inv, Reads, [Next]_vars, ~Preemptible
  PROVE  \/ AC!Reload
         \/ \E p \in Apps : \/ \E P \in Range(Period), C \in Range(Computation) : AC!reg_entry(p, P, C)
                            \/ AC!dereg_entry(p)
         \/ UNCHANGED AC!core
<1>a. pc \in [Apps -> AppPcs]
  BY Zenon DEF Inv, TypeOK, AppType
<1>1. CASE Quiet
  BY <1>a, <1>1, ChargedQuiet, AccountStays, Zenon DEF Quiet
<1>2. CASE mp2_init
  <2>1. /\ ~Managed /\ numerator' = 0 /\ denominator' = 0 /\ Charged' = {}
    BY <1>2, ChargedInit, Zenon
  <2>2. Recorded(numerator)' = Recorded(numerator) /\ Recorded(denominator)' = Recorded(denominator)
    BY <2>1, Zenon DEF Recorded
  <2>3. Admitted' = Admitted
    BY <2>1, Zenon DEF Admitted
  <2> QED BY <2>2, <2>3, Zenon DEF AC!core
<1>3. CASE freeall
  <2>1. ~Managed'
    BY <1>3, Zenon DEF freeall, Managed
  <2> QED BY <2>1, Zenon DEF AC!Reload, Recorded, Admitted
<1>4. CASE free_next
  <2>1. ~Managed /\ ~Managed'
    BY <1>4, Zenon DEF free_next, Managed
  <2> QED BY <2>1, AccountStays, Zenon
<1>5. ASSUME NEW p \in Apps, reg_write(p)
      PROVE  \E P \in Range(Period), C \in Range(Computation) : AC!reg_entry(p, P, C)
  <2>1. Period[p] \in Range(Period) /\ Computation[p] \in Range(Computation)
    BY AppsAssumption, Zenon DEF Range
  <2> QED BY <1>5, <2>1, GrantIsRegistration, Zenon
<1>6. ASSUME NEW p \in Apps, dereg_write(p) PROVE AC!dereg_entry(p)
  BY <1>6, ReturnIsDeregistration, Zenon
<1>7. ASSUME NEW p \in Apps, Looks(p) PROVE UNCHANGED AC!core
  BY <1>7, ChargedLooks, AccountStays, Zenon
<1> QED BY <1>1, <1>2, <1>3, <1>4, <1>5, <1>6, <1>7, StepKinds, Zenon

(***************************************************************************)
(* On one processor the calls of admission_control (mp2.c:120-154) are     *)
(* atomic without the lock that LOCK_FREE takes away: reading the account  *)
(* at one step and writing it at another, the handlers of mp2.c implement  *)
(* the account whose every call is one step, for every task set and word   *)
(* size, whatever else happens in between.                                 *)
(***************************************************************************)
THEOREM AdmissionIsAtomic == ASSUME ~Preemptible PROVE Spec => ImplementsAdmission
<1>1. Init => AC!Empty
  <2> SUFFICES ASSUME Init PROVE AC!Empty
    BY Zenon
  <2>1. ~Managed
    BY Zenon DEF Init, Managed
  <2> QED BY <2>1, Zenon DEF AC!Empty, Recorded, Admitted
<1>2. Inv /\ Reads /\ [Next]_vars =>
        [\/ AC!Reload
         \/ \E p \in Apps : \/ \E P \in Range(Period), C \in Range(Computation) : AC!reg_entry(p, P, C)
                            \/ AC!dereg_entry(p)]_AC!core
  BY AdmissionSimulation, Zenon
<1> QED BY <1>1, <1>2, Invariance, ReadsStayTrue, PTL DEF Spec, ImplementsAdmission, AC!Atomic
=============================================================================
