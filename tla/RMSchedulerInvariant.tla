------------------------ MODULE RMSchedulerInvariant ------------------------
(***************************************************************************)
(* The inductive invariant Inv of RMScheduler on one processor             *)
(* (Preemptible = FALSE), for every set of applications, every task set    *)
(* and every bound on time.  First come facts about the task list HEAD and *)
(* its traversal, for lists of any length; then one lemma per conjunct of  *)
(* Inv, with one proof step per action: the types, who runs module code,   *)
(* the life of the module, which records are linked and what they hold,    *)
(* curr_tsk, the dispatcher's choice and its scan.  Last, what else is     *)
(* invariant of the timers, and that nobody is woken too early.            *)
(***************************************************************************)
EXTENDS RMScheduler, AdmissionFacts

(***************************************************************************)
(* The linked records are applications' records; the list has none when it *)
(* is empty, and the same ones as long as it does not change.              *)
(***************************************************************************)
LEMMA LinkedFacts ==
  ASSUME HEAD \in Seq(Apps)
  PROVE  /\ Linked \subseteq Apps /\ (HEAD = <<>> => Linked = {})
         /\ (HEAD' = HEAD => Linked' = Linked) /\ (HEAD' = <<>> => Linked' = {})
         /\ \A i \in 1..Len(HEAD) : HEAD[i] \in Linked /\ HEAD[i] \in Apps
         /\ \A x \in Linked : \E i \in 1..Len(HEAD) : HEAD[i] = x
<1>1. Linked \subseteq Apps
  BY RangeFact, Zenon DEF Linked
<1>2. (HEAD = <<>> => Linked = {}) /\ (HEAD' = <<>> => Linked' = {})
  BY DEF Linked, Range
<1>3. HEAD' = HEAD => Linked' = Linked
  BY Zenon DEF Linked
<1>4. \A i \in 1..Len(HEAD) : HEAD[i] \in Linked /\ HEAD[i] \in Apps
  BY RangeFact, Zenon DEF Linked
<1>5. \A x \in Linked : \E i \in 1..Len(HEAD) : HEAD[i] = x
  BY RangeFact, Zenon DEF Linked
<1> QED BY <1>1, <1>2, <1>3, <1>4, <1>5, Zenon

(***************************************************************************)
(* list_add_tail: the record joins the list, which stays free of           *)
(* duplicates if the record was not linked before.                         *)
(***************************************************************************)
LEMMA LinkedAppend ==
  ASSUME HEAD \in Seq(Apps), NEW p \in Apps, HEAD' = Append(HEAD, p)
  PROVE  /\ HEAD' \in Seq(Apps) /\ Linked' = Linked \cup {p}
         /\ NoDup(HEAD) /\ p \notin Linked => NoDup(HEAD')
<1>1. HEAD' \in Seq(Apps) /\ Len(HEAD') = Len(HEAD) + 1
  OBVIOUS
<1>2. (\A i \in 1..Len(HEAD) : HEAD'[i] = HEAD[i]) /\ HEAD'[Len(HEAD) + 1] = p
  OBVIOUS
<1>3. Linked' = Linked \cup {p}
  BY <1>1, <1>2 DEF Linked, Range
<1>4. ASSUME NoDup(HEAD), p \notin Linked PROVE NoDup(HEAD')
  <2>1. \A i \in 1..Len(HEAD) : HEAD[i] # p
    BY <1>4, LinkedFacts, Zenon
  <2> QED BY <2>1, <1>1, <1>2, <1>4 DEF NoDup
<1> QED BY <1>1, <1>3, <1>4, Zenon

(***************************************************************************)
(* The place of a record in a list without duplicates.                     *)
(***************************************************************************)
LEMMA IndexFact ==
  ASSUME HEAD \in Seq(Apps), NoDup(HEAD), NEW i \in 1..Len(HEAD)
  PROVE  Index(HEAD, HEAD[i]) = i
<1> DEFINE c == CHOOSE k \in 1..Len(HEAD) : HEAD[k] = HEAD[i]
<1>1. c \in 1..Len(HEAD) /\ HEAD[c] = HEAD[i]
  BY Zenon
<1>2. c = i
  BY <1>1, Zenon DEF NoDup
<1> QED BY <1>2, Zenon DEF Index

(***************************************************************************)
(* list_del: the record leaves the list and the others stay.               *)
(***************************************************************************)
LEMMA LinkedRemove ==
  ASSUME HEAD \in Seq(Apps), NoDup(HEAD), NEW p \in Linked, HEAD' = Without(HEAD, p)
  PROVE  HEAD' \in Seq(Apps) /\ Linked' = Linked \ {p} /\ NoDup(HEAD')
<1>1. PICK k \in 1..Len(HEAD) : HEAD[k] = p
  BY LinkedFacts, Zenon
<1>2. Index(HEAD, p) = k
  BY <1>1, IndexFact, Zenon
<1> DEFINE r == [i \in 1..(Len(HEAD) - 1) |-> IF i < k THEN HEAD[i] ELSE HEAD[i + 1]]
<1>3. HEAD' = r
  BY <1>2, Zenon DEF Without
<1>4. \A i \in 1..Len(HEAD) : HEAD[i] \in Apps /\ HEAD[i] \in Linked
  BY LinkedFacts, Zenon
<1>5. \A i \in 1..(Len(HEAD) - 1) : r[i] \in Apps
  BY <1>4
<1>6. r \in Seq(Apps) /\ Len(r) = Len(HEAD) - 1
  BY <1>1, <1>5
<1>7. \A i \in 1..(Len(HEAD) - 1) : r[i] = IF i < k THEN HEAD[i] ELSE HEAD[i + 1]
  BY Zenon
<1> HIDE DEF r
<1>8. NoDup(r)
  BY <1>1, <1>6, <1>7 DEF NoDup
<1>9. ASSUME NEW x \in Range(r) PROVE x \in Linked /\ x # p
  <2>1. PICK i \in 1..Len(r) : r[i] = x
    BY <1>6, RangeFact, Zenon
  <2>2. PICK j \in 1..Len(HEAD) : j # k /\ HEAD[j] = x
    <3>1. CASE i < k
      BY <2>1, <3>1, <1>1, <1>6, <1>7
    <3>2. CASE i >= k
      <4>1. i + 1 \in 1..Len(HEAD) /\ i + 1 # k /\ HEAD[i + 1] = x
        BY <2>1, <3>2, <1>1, <1>6, <1>7
      <4> QED BY <4>1, Zenon
    <3> QED BY <3>1, <3>2, <1>1, <1>6
  <2> QED BY <2>2, <1>1, <1>4, Zenon DEF NoDup
<1>10. ASSUME NEW x \in Linked, x # p PROVE x \in Range(r)
  <2>1. PICK i \in 1..Len(HEAD) : HEAD[i] = x
    BY LinkedFacts, Zenon
  <2>2. PICK j \in 1..Len(r) : r[j] = x
    <3>1. CASE i < k
      BY <2>1, <3>1, <1>1, <1>6, <1>7
    <3>2. CASE i > k
      <4>1. i - 1 \in 1..Len(r) /\ r[i - 1] = x
        BY <2>1, <3>2, <1>1, <1>6, <1>7
      <4> QED BY <4>1, Zenon
    <3> QED BY <2>1, <3>1, <3>2, <1>10, <1>1
  <2> QED BY <2>2, <1>6, RangeFact, Zenon
<1>11. Range(r) = Linked \ {p}
  BY <1>9, <1>10, Zenon
<1> QED BY <1>3, <1>6, <1>8, <1>11, Zenon DEF Linked

(***************************************************************************)
(* The successor of the i-th record is the next one, or none: what         *)
(* list_for_each_entry_safe (mp2.c:364) saves before it looks at a record. *)
(***************************************************************************)
LEMMA NextOfFact ==
  ASSUME HEAD \in Seq(Apps), NoDup(HEAD), NEW i \in 1..Len(HEAD)
  PROVE  NextOf(HEAD[i]) = IF i < Len(HEAD) THEN HEAD[i + 1] ELSE NULL
  BY IndexFact, LinkedFacts, Zenon DEF NextOf

(***************************************************************************)
(* The successor of a record is a record or NULL.                          *)
(***************************************************************************)
LEMMA NextOfType ==
  ASSUME HEAD \in Seq(Apps), NoDup(HEAD), NEW p PROVE NextOf(p) \in Apps \cup {NULL}
<1>1. CASE p \in Linked
  <2>1. PICK i \in 1..Len(HEAD) : HEAD[i] = p
    BY <1>1, LinkedFacts, Zenon
  <2>2. i < Len(HEAD) => HEAD[i + 1] \in Apps
    BY LinkedFacts
  <2> QED BY <2>1, <2>2, NextOfFact, Zenon
<1>2. CASE p \notin Linked
  BY <1>2, Zenon DEF NextOf
<1> QED BY <1>1, <1>2, Zenon

(***************************************************************************)
(* A period has a natural number of jiffies (mp2.c:230).                   *)
(***************************************************************************)
LEMMA TicksNat == \A p \in Apps : Ticks(p) \in Nat
<1> SUFFICES ASSUME NEW p \in Apps PROVE Ticks(p) \in Nat
  BY Zenon
<1>1. Period[p] * USER_HZ \in Nat
  BY AppsAssumption, PlatformAssumption
<1>2. \A x \in Nat : x \div 1000 \in Nat
  OBVIOUS
<1> QED BY <1>1, <1>2 DEF Ticks
-----------------------------------------------------------------------------
(***************************************************************************)
(* Every step keeps every variable in its type.                            *)
(***************************************************************************)
LEMMA TypeOKStep ==
  ASSUME Inv, [Next]_vars, ~Preemptible PROVE TypeOK'
<1>a. TypeOK /\ Membership /\ Scan
  BY Zenon DEF Inv
<1> USE <1>a DEF CanRun, Hold, Release, Goto, TypeOK, SLEEPING, READY, RUNNING
<1>f. /\ UNCHANGED record => RecordType'
      /\ UNCHANGED account => AccountType'
      /\ UNCHANGED linux => LinuxType'
      /\ UNCHANGED app => AppType'
      /\ UNCHANGED thread => ThreadType'
      /\ UNCHANGED scan => ScanType'
  <2>1. UNCHANGED record => RecordType'
    BY Zenon DEF record, RecordType
  <2>2. UNCHANGED account => AccountType'
    BY Zenon DEF account, AccountType
  <2>3. UNCHANGED linux => LinuxType'
    BY Zenon DEF linux, LinuxType
  <2>4. UNCHANGED app => AppType'
    BY Zenon DEF app, AppType
  <2>5. UNCHANGED thread => ThreadType'
    BY Zenon DEF thread, ThreadType
  <2>6. UNCHANGED scan => ScanType'
    BY Zenon DEF scan, ScanType
  <2> QED BY <2>1, <2>2, <2>3, <2>4, <2>5, <2>6, Zenon
<1> USE <1>f
<1>1. CASE mp2_init
  <2>1. HEAD' \in Seq(Apps)
    BY <1>1 DEF mp2_init
  <2> QED BY <1>1, <2>1, Zenon DEF mp2_init, AccountType, ThreadType, DispatchPcs
<1>2. CASE proc_remove
  BY <1>2, Zenon DEF proc_remove
<1>3. CASE freeall
  BY <1>3, Zenon DEF freeall
<1>4. CASE free_next
  <2>0. HEAD' = Without(HEAD, Head(HEAD)) /\ Head(HEAD) \in Linked
    BY <1>4, LinkedFacts DEF free_next, freeone, Membership, InHandler
  <2>1. HEAD' \in Seq(Apps)
    BY <2>0, LinkedRemove, Zenon DEF Membership
  <2> QED BY <1>4, <2>1, Zenon DEF free_next, freeone, RecordType
<1>5. CASE kthread_stop
  BY <1>5, Zenon DEF kthread_stop, ThreadType, DispatchPcs, thread
<1>6. CASE cache_destroy
  BY <1>6, Zenon DEF cache_destroy
<1>7. CASE dispatch_top
  <2>1. HEAD # <<>> => Head(HEAD) \in Apps
    OBVIOUS
  <2>2. NextOf(Head(HEAD)) \in Apps \cup {NULL}
    BY NextOfType, Zenon DEF Membership
  <2> QED BY <1>7, <2>1, <2>2, PlatformAssumption
          DEF dispatch_top, ThreadType, DispatchPcs, ScanType
<1>8. CASE dispatch_scan
  <2>1. NextOf(tmp) \in Apps \cup {NULL}
    BY NextOfType, Zenon DEF Membership
  <2>2. itr \in Apps /\ Period[itr] \in Nat
    BY <1>8, LinkedFacts, AppsAssumption DEF Scan, dispatch_scan
  <2> QED BY <1>8, <2>1, <2>2 DEF dispatch_scan, ThreadType, DispatchPcs, ScanType
<1>9. CASE dispatch_decide
  BY <1>9 DEF dispatch_decide, ThreadType, DispatchPcs, thread, ScanType, scan
<1>10. CASE set_old_task
  BY <1>10, Zenon DEF set_old_task, ThreadType, DispatchPcs, thread, RecordType, States,
     record, LinuxType, linux
<1>11. CASE new_wake
  BY <1>11, Zenon DEF new_wake, ThreadType, DispatchPcs, thread, LinuxType, linux
<1>12. CASE new_run
  BY <1>12, Zenon DEF new_run, ThreadType, DispatchPcs, thread, RecordType, States,
     record, LinuxType, linux
<1>13. CASE new_curr
  BY <1>13, Zenon DEF new_curr, ThreadType, DispatchPcs, ScanType
<1>14. CASE dispatch_sleep
  BY <1>14, Zenon DEF dispatch_sleep, ThreadType, DispatchPcs, thread
<1>15. CASE Tick
  BY <1>15 DEF Tick
<1>16. ASSUME NEW p \in Apps, reg_check(p) PROVE TypeOK'
  <2>1. loc' \in [Apps -> [n : Nat, d : Nat]]
    <3> DEFINE r == admission_control(numerator, denominator, Period[p], Computation[p], 0)
    <3>0. numerator \in Nat /\ denominator \in Nat /\ Period[p] \in Nat /\ Computation[p] \in Nat
      BY AppsAssumption, Zenon DEF AccountType
    <3>1. r.n \in Nat /\ r.d \in Nat
      BY <3>0, CallType, Zenon
    <3> HIDE DEF r
    <3>2. [loc EXCEPT ![p] = [n |-> r.n, d |-> r.d]] \in [Apps -> [n : Nat, d : Nat]]
      BY <3>1, Zenon DEF AppType
    <3> QED BY <1>16, <3>2, Zenon DEF reg_check, r, AppType
  <2>2. pc' \in [Apps -> AppPcs]
    BY <1>16, Zenon DEF reg_check, AppType, AppPcs
  <2> QED BY <1>16, <2>1, <2>2, Zenon DEF reg_check, AppType
<1>17. ASSUME NEW p \in Apps, reg_write(p) PROVE TypeOK'
  BY <1>17, Zenon DEF reg_write, AccountType, account, AppType, AppPcs, app
<1>18. ASSUME NEW p \in Apps, reg_link(p) PROVE TypeOK'
  <2>1. HEAD' \in Seq(Apps)
    BY <1>18, LinkedAppend, Zenon DEF reg_link
  <2> QED BY <1>18, <2>1 DEF reg_link, RecordType, States, AppType, AppPcs
<1>19. ASSUME NEW p \in Apps, reg_fill(p) PROVE TypeOK'
  BY <1>19, Zenon DEF reg_fill, RecordType, States, record, AppType, AppPcs, app
<1>20. ASSUME NEW p \in Apps, check(p) PROVE TypeOK'
  BY <1>20, Zenon DEF check, AppType, AppPcs, app
<1>21. ASSUME NEW p \in Apps, yield_entry(p) PROVE TypeOK'
  <2>0. jiffies \in Nat /\ next_period[p] \in Nat /\ Ticks(p) \in Nat
    BY TicksNat, Zenon DEF RecordType
  <2>1. jiffies + Ticks(p) \in Nat /\ next_period[p] + Ticks(p) \in Nat
    BY ONLY <2>0
  <2>2. RecordType'
    BY <1>21, <2>1, Zenon DEF yield_entry, RecordType, States
  <2>a. left' \in [Apps -> Nat]
    <3>1. left[p] \in Nat /\ left \in [Apps -> Nat]
      BY Zenon DEF AppType
    <3>2. \A x \in Nat : x > 0 => x - 1 \in Nat
      OBVIOUS
    <3>3. left[p] > 0 => [left EXCEPT ![p] = left[p] - 1] \in [Apps -> Nat]
      BY <3>1, <3>2, Zenon
    <3>4. left' = left \/ (left[p] > 0 /\ left' = [left EXCEPT ![p] = left[p] - 1])
      BY <1>21, Zenon DEF yield_entry
    <3> QED BY <3>1, <3>3, <3>4, Zenon
  <2>3. pc' \in [Apps -> AppPcs]
    BY <1>21, Zenon DEF yield_entry, AppType, AppPcs
  <2> QED BY <1>21, <2>a, <2>2, <2>3, Zenon DEF yield_entry, AppType
<1>22. ASSUME NEW p \in Apps, sleep_curr(p) PROVE TypeOK'
  BY <1>22, Zenon DEF sleep_curr, AppType, AppPcs, app
<1>23. ASSUME NEW p \in Apps, sleep_state(p) PROVE TypeOK'
  BY <1>23, Zenon DEF sleep_state, RecordType, States, record, AppType, AppPcs, app
<1>24. ASSUME NEW p \in Apps, sleep_block(p) PROVE TypeOK'
  BY <1>24, Zenon DEF sleep_block, LinuxType, linux, AppType, AppPcs, app
<1>25. ASSUME NEW p \in Apps, yield_arm(p) PROVE TypeOK'
  <2>1. next_period[p] + Ticks(p) \in Nat
    BY TicksNat DEF RecordType
  <2>2. RecordType'
    BY <1>25, <2>1, Zenon DEF yield_arm, RecordType
  <2>3. AppType'
    BY <1>25, Zenon DEF yield_arm, AppType, AppPcs
  <2> QED BY <1>25, <2>2, <2>3, Zenon DEF yield_arm
<1>26. ASSUME NEW p \in Apps, yield_wake(p) PROVE TypeOK'
  BY <1>26 DEF yield_wake, WakeDispatcher, AppType, AppPcs, app, ThreadType,
     DispatchPcs, thread
<1>27. ASSUME NEW p \in Apps, resume(p) PROVE TypeOK'
  BY <1>27, Zenon DEF resume, AppType, AppPcs, app
<1>28. ASSUME NEW p \in Apps, dereg_entry(p) PROVE TypeOK'
  BY <1>28, Zenon DEF dereg_entry, AppType, AppPcs, app
<1>29. ASSUME NEW p \in Apps, dereg_read(p) PROVE TypeOK'
  <2>1. loc' \in [Apps -> [n : Nat, d : Nat]]
    <3> DEFINE r == admission_control(numerator, denominator, Period[p], Computation[p], 1)
    <3>0. numerator \in Nat /\ denominator \in Nat /\ Period[p] \in Nat /\ Computation[p] \in Nat
      BY AppsAssumption DEF AccountType
    <3>1. r.n \in Nat /\ r.d \in Nat
      BY <3>0, CallType, Zenon
    <3> HIDE DEF r
    <3>2. [loc EXCEPT ![p] = [n |-> r.n, d |-> r.d]] \in [Apps -> [n : Nat, d : Nat]]
      BY <3>1 DEF AppType
    <3> QED BY <1>29, <3>2, Zenon DEF dereg_read, r, AppType
  <2>2. pc' \in [Apps -> AppPcs]
    BY <1>29, Zenon DEF dereg_read, AppType, AppPcs
  <2> QED BY <1>29, <2>1, <2>2, Zenon DEF dereg_read, AppType
<1>30. ASSUME NEW p \in Apps, dereg_write(p) PROVE TypeOK'
  BY <1>30, Zenon DEF dereg_write, AccountType, account, AppType, AppPcs, app
<1>31. ASSUME NEW p \in Apps, dereg_free(p) PROVE TypeOK'
  <2>0. HEAD' = Without(HEAD, p) /\ p \in Linked
    BY <1>31, LinkedFacts, Zenon DEF dereg_free, freeone, Membership, InHandler
  <2>1. HEAD' \in Seq(Apps)
    BY <2>0, LinkedRemove, Zenon DEF Membership
  <2> QED BY <1>31, <2>1, Zenon DEF dereg_free, freeone, RecordType, AppType, AppPcs
<1>32. ASSUME NEW p \in Apps, dereg_wake(p) PROVE TypeOK'
  BY <1>32 DEF dereg_wake, WakeDispatcher, AppType, AppPcs, app, ThreadType,
     DispatchPcs, thread
<1>33. ASSUME NEW p \in Apps, write_fails(p) PROVE TypeOK'
  <2>1. left' \in [Apps -> Nat]
    <3>1. left[p] \in Nat /\ left \in [Apps -> Nat]
      BY DEF AppType
    <3>2. \A x \in Nat : x > 0 => x - 1 \in Nat
      OBVIOUS
    <3>3. left[p] > 0 => [left EXCEPT ![p] = left[p] - 1] \in [Apps -> Nat]
      BY <3>1, <3>2
    <3>4. left' = left \/ (left[p] > 0 /\ left' = [left EXCEPT ![p] = left[p] - 1])
      BY <1>33, Zenon DEF write_fails
    <3> QED BY <3>1, <3>3, <3>4
  <2>2. pc' \in [Apps -> AppPcs]
    BY <1>33, Zenon DEF write_fails, AppType, AppPcs
  <2> QED BY <1>33, <2>1, <2>2, Zenon DEF write_fails, AppType
<1>34. ASSUME NEW p \in Apps, tm_callback(p) PROVE TypeOK'
  BY <1>34 DEF tm_callback, WakeDispatcher, RecordType, States, record,
     ThreadType, DispatchPcs, thread
<1>35. CASE UNCHANGED vars
  BY <1>35, Zenon DEF vars
<1> QED BY <1>1, <1>2, <1>3, <1>4, <1>5, <1>6, <1>7, <1>8, <1>9, <1>10, <1>11,
    <1>12, <1>13, <1>14, <1>15, <1>16, <1>17, <1>18, <1>19, <1>20, <1>21,
    <1>22, <1>23, <1>24, <1>25, <1>26, <1>27, <1>28, <1>29, <1>30, <1>31,
    <1>32, <1>33, <1>34, <1>35, Zenon
    DEF Next, userapp, dispatch_fn, mp2_exit

(***************************************************************************)
(* Every step keeps module code to one process at a time: the one that     *)
(* holds the processor (non-preemptible kernel; LOCK_FREE, mp2.c:16).      *)
(***************************************************************************)
LEMMA ExclusiveStep ==
  ASSUME Inv, [Next]_vars, ~Preemptible PROVE Exclusive'
<1>a. pc \in [Apps -> AppPcs] /\ Exclusive /\ Lifecycle
  BY Zenon DEF Inv, TypeOK, RecordType, LinuxType, AppType, ThreadType, ScanType
<1> USE AppsAssumption, <1>a DEF CanRun, Hold, Release, Goto, Exclusive,
    Lifecycle, Held, Passing, Managed, InHandler, record, account, linux, app,
    thread, scan
<1>1. CASE mp2_init
  BY <1>1, Zenon DEF mp2_init
<1>2. CASE proc_remove
  BY <1>2, Zenon DEF proc_remove
<1>3. CASE freeall
  BY <1>3, Zenon DEF freeall
<1>4. CASE free_next
  BY <1>4, Zenon DEF free_next, freeone
<1>5. CASE kthread_stop
  BY <1>5, Zenon DEF kthread_stop
<1>6. CASE cache_destroy
  BY <1>6, Zenon DEF cache_destroy
<1>7. CASE dispatch_top
  BY <1>7 DEF dispatch_top
<1>8. CASE dispatch_scan
  BY <1>8, Zenon DEF dispatch_scan
<1>9. CASE dispatch_decide
  BY <1>9, Zenon DEF dispatch_decide
<1>10. CASE set_old_task
  BY <1>10, Zenon DEF set_old_task
<1>11. CASE new_wake
  BY <1>11, Zenon DEF new_wake
<1>12. CASE new_run
  BY <1>12, Zenon DEF new_run
<1>13. CASE new_curr
  BY <1>13, Zenon DEF new_curr
<1>14. CASE dispatch_sleep
  BY <1>14, Zenon DEF dispatch_sleep
<1>15. CASE Tick
  BY <1>15, Zenon DEF Tick
<1>16. ASSUME NEW p \in Apps, reg_check(p) PROVE Exclusive'
  <2>1. \/ pc' = [pc EXCEPT ![p] = "reg_write"] /\ cpu' = p
        \/ pc' = [pc EXCEPT ![p] = "check"] /\ cpu' = "idle"
    BY <1>16, Zenon DEF reg_check
  <2>2. /\ pc[p] = "start" /\ mod = "live" /\ cpu \in {"idle", p}
        /\ UNCHANGED <<mod, HEAD, record, account, curr_tsk, linux, left, thread, scan, jiffies>>
    BY <1>16, Zenon DEF reg_check
  <2> QED BY <2>1, <2>2
<1>17. ASSUME NEW p \in Apps, reg_write(p) PROVE Exclusive'
  BY <1>17, Zenon DEF reg_write
<1>18. ASSUME NEW p \in Apps, reg_link(p) PROVE Exclusive'
  BY <1>18 DEF reg_link
<1>19. ASSUME NEW p \in Apps, reg_fill(p) PROVE Exclusive'
  BY <1>19, Zenon DEF reg_fill
<1>20. ASSUME NEW p \in Apps, check(p) PROVE Exclusive'
  BY <1>20, Zenon DEF check
<1>21. ASSUME NEW p \in Apps, yield_entry(p) PROVE Exclusive'
  BY <1>21 DEF yield_entry
<1>22. ASSUME NEW p \in Apps, sleep_curr(p) PROVE Exclusive'
  BY <1>22, Zenon DEF sleep_curr
<1>23. ASSUME NEW p \in Apps, sleep_state(p) PROVE Exclusive'
  BY <1>23, Zenon DEF sleep_state
<1>24. ASSUME NEW p \in Apps, sleep_block(p) PROVE Exclusive'
  BY <1>24, Zenon DEF sleep_block
<1>25. ASSUME NEW p \in Apps, yield_arm(p) PROVE Exclusive'
  BY <1>25, Zenon DEF yield_arm
<1>26. ASSUME NEW p \in Apps, yield_wake(p) PROVE Exclusive'
  BY <1>26, Zenon DEF yield_wake, WakeDispatcher
<1>27. ASSUME NEW p \in Apps, resume(p) PROVE Exclusive'
  BY <1>27, Zenon DEF resume
<1>28. ASSUME NEW p \in Apps, dereg_entry(p) PROVE Exclusive'
  BY <1>28 DEF dereg_entry
<1>29. ASSUME NEW p \in Apps, dereg_read(p) PROVE Exclusive'
  BY <1>29, Zenon DEF dereg_read
<1>30. ASSUME NEW p \in Apps, dereg_write(p) PROVE Exclusive'
  BY <1>30, Zenon DEF dereg_write
<1>31. ASSUME NEW p \in Apps, dereg_free(p) PROVE Exclusive'
  BY <1>31, Zenon DEF dereg_free, freeone
<1>32. ASSUME NEW p \in Apps, dereg_wake(p) PROVE Exclusive'
  BY <1>32, Zenon DEF dereg_wake, WakeDispatcher
<1>33. ASSUME NEW p \in Apps, write_fails(p) PROVE Exclusive'
  <2>1. /\ pc[p] \in {"start", "user"} /\ mod \notin {"absent", "live"}
        /\ pc' = pc \/ pc' = [pc EXCEPT ![p] = "done"]
        /\ UNCHANGED <<mod, HEAD, record, account, curr_tsk, linux, thread, scan, cpu, jiffies>>
    BY <1>33, Zenon DEF write_fails
  <2> QED BY <2>1
<1>34. ASSUME NEW p \in Apps, tm_callback(p) PROVE Exclusive'
  BY <1>34, Zenon DEF tm_callback, WakeDispatcher
<1>35. CASE UNCHANGED vars
  BY <1>35, Zenon DEF vars
<1> QED BY <1>1, <1>2, <1>3, <1>4, <1>5, <1>6, <1>7, <1>8, <1>9, <1>10, <1>11,
    <1>12, <1>13, <1>14, <1>15, <1>16, <1>17, <1>18, <1>19, <1>20, <1>21,
    <1>22, <1>23, <1>24, <1>25, <1>26, <1>27, <1>28, <1>29, <1>30, <1>31,
    <1>32, <1>33, <1>34, <1>35, Zenon
    DEF Next, userapp, dispatch_fn, mp2_exit

(***************************************************************************)
(* Every step keeps handlers and dispatcher passes within the life of the  *)
(* module: proc_remove waits for the handlers before freeall               *)
(* (mp2.c:474-477).                                                        *)
(***************************************************************************)
LEMMA LifecycleStep ==
  ASSUME Inv, [Next]_vars, ~Preemptible PROVE Lifecycle'
<1>a. pc \in [Apps -> AppPcs] /\ Exclusive /\ Lifecycle
      /\ mod \in {"absent", "live", "rundown", "freeing", "stopping", "gone"}
  BY Zenon DEF Inv, TypeOK, RecordType, LinuxType, AppType, ThreadType, ScanType
<1> USE AppsAssumption, <1>a DEF CanRun, Hold, Release, Goto, Exclusive,
    Lifecycle, Held, Passing, Managed, InHandler, record, account, linux, app,
    thread, scan
<1>1. CASE mp2_init
  BY <1>1, Zenon DEF mp2_init
<1>2. CASE proc_remove
  BY <1>2, Zenon DEF proc_remove
<1>3. CASE freeall
  BY <1>3, Zenon DEF freeall
<1>4. CASE free_next
  BY <1>4, Zenon DEF free_next, freeone
<1>5. CASE kthread_stop
  BY <1>5, Zenon DEF kthread_stop
<1>6. CASE cache_destroy
  BY <1>6, Zenon DEF cache_destroy
<1>7. CASE dispatch_top
  BY <1>7, Zenon DEF dispatch_top
<1>8. CASE dispatch_scan
  BY <1>8, Zenon DEF dispatch_scan
<1>9. CASE dispatch_decide
  BY <1>9, Zenon DEF dispatch_decide
<1>10. CASE set_old_task
  BY <1>10, Zenon DEF set_old_task
<1>11. CASE new_wake
  BY <1>11, Zenon DEF new_wake
<1>12. CASE new_run
  BY <1>12, Zenon DEF new_run
<1>13. CASE new_curr
  BY <1>13, Zenon DEF new_curr
<1>14. CASE dispatch_sleep
  BY <1>14, Zenon DEF dispatch_sleep
<1>15. CASE Tick
  BY <1>15, Zenon DEF Tick
<1>16. ASSUME NEW p \in Apps, reg_check(p) PROVE Lifecycle'
  <2>1. \/ pc' = [pc EXCEPT ![p] = "reg_write"] /\ cpu' = p
        \/ pc' = [pc EXCEPT ![p] = "check"] /\ cpu' = "idle"
    BY <1>16, Zenon DEF reg_check
  <2>2. /\ pc[p] = "start" /\ mod = "live" /\ cpu \in {"idle", p}
        /\ UNCHANGED <<mod, HEAD, record, account, curr_tsk, linux, left, thread, scan, jiffies>>
    BY <1>16, Zenon DEF reg_check
  <2> QED BY <2>1, <2>2, Zenon
<1>17. ASSUME NEW p \in Apps, reg_write(p) PROVE Lifecycle'
  BY <1>17, Zenon DEF reg_write
<1>18. ASSUME NEW p \in Apps, reg_link(p) PROVE Lifecycle'
  BY <1>18, Zenon DEF reg_link
<1>19. ASSUME NEW p \in Apps, reg_fill(p) PROVE Lifecycle'
  BY <1>19, Zenon DEF reg_fill
<1>20. ASSUME NEW p \in Apps, check(p) PROVE Lifecycle'
  BY <1>20, Zenon DEF check
<1>21. ASSUME NEW p \in Apps, yield_entry(p) PROVE Lifecycle'
  BY <1>21, Zenon DEF yield_entry
<1>22. ASSUME NEW p \in Apps, sleep_curr(p) PROVE Lifecycle'
  BY <1>22, Zenon DEF sleep_curr
<1>23. ASSUME NEW p \in Apps, sleep_state(p) PROVE Lifecycle'
  BY <1>23, Zenon DEF sleep_state
<1>24. ASSUME NEW p \in Apps, sleep_block(p) PROVE Lifecycle'
  BY <1>24, Zenon DEF sleep_block
<1>25. ASSUME NEW p \in Apps, yield_arm(p) PROVE Lifecycle'
  BY <1>25, Zenon DEF yield_arm
<1>26. ASSUME NEW p \in Apps, yield_wake(p) PROVE Lifecycle'
  BY <1>26, Zenon DEF yield_wake, WakeDispatcher
<1>27. ASSUME NEW p \in Apps, resume(p) PROVE Lifecycle'
  BY <1>27, Zenon DEF resume
<1>28. ASSUME NEW p \in Apps, dereg_entry(p) PROVE Lifecycle'
  BY <1>28, Zenon DEF dereg_entry
<1>29. ASSUME NEW p \in Apps, dereg_read(p) PROVE Lifecycle'
  BY <1>29, Zenon DEF dereg_read
<1>30. ASSUME NEW p \in Apps, dereg_write(p) PROVE Lifecycle'
  BY <1>30, Zenon DEF dereg_write
<1>31. ASSUME NEW p \in Apps, dereg_free(p) PROVE Lifecycle'
  BY <1>31, Zenon DEF dereg_free, freeone
<1>32. ASSUME NEW p \in Apps, dereg_wake(p) PROVE Lifecycle'
  BY <1>32, Zenon DEF dereg_wake, WakeDispatcher
<1>33. ASSUME NEW p \in Apps, write_fails(p) PROVE Lifecycle'
  <2>1. /\ pc[p] \in {"start", "user"} /\ mod \notin {"absent", "live"}
        /\ pc' = pc \/ pc' = [pc EXCEPT ![p] = "done"]
        /\ UNCHANGED <<mod, HEAD, record, account, curr_tsk, linux, thread, scan, cpu, jiffies>>
    BY <1>33, Zenon DEF write_fails
  <2> QED BY <2>1, Zenon
<1>34. ASSUME NEW p \in Apps, tm_callback(p) PROVE Lifecycle'
  BY <1>34, Zenon DEF tm_callback, WakeDispatcher
<1>35. CASE UNCHANGED vars
  BY <1>35, Zenon DEF vars
<1> QED BY <1>1, <1>2, <1>3, <1>4, <1>5, <1>6, <1>7, <1>8, <1>9, <1>10, <1>11,
    <1>12, <1>13, <1>14, <1>15, <1>16, <1>17, <1>18, <1>19, <1>20, <1>21,
    <1>22, <1>23, <1>24, <1>25, <1>26, <1>27, <1>28, <1>29, <1>30, <1>31,
    <1>32, <1>33, <1>34, <1>35, Zenon
    DEF Next, userapp, dispatch_fn, mp2_exit

(***************************************************************************)
(* Every step keeps each record linked exactly once, from reg_entry to     *)
(* freeone, and only while its owner is registered.                        *)
(***************************************************************************)
LEMMA MembershipStep ==
  ASSUME Inv, [Next]_vars, ~Preemptible PROVE Membership'
<1>a. HEAD \in Seq(Apps) /\ pc \in [Apps -> AppPcs]
      /\ Exclusive /\ Lifecycle /\ Membership
  BY Zenon DEF Inv, TypeOK, RecordType, LinuxType, AppType, ThreadType, ScanType
<1> USE AppsAssumption, <1>a DEF CanRun, Hold, Release, Goto, Exclusive,
    Lifecycle, Membership, Held, Passing, Managed, InHandler, record, account,
    linux, app, thread, scan
<1>b. HEAD' = HEAD => Linked' = Linked
  BY LinkedFacts, Zenon
<1>c. Linked \subseteq Apps /\ (HEAD = <<>> => Linked = {}) /\ (HEAD' = <<>> => Linked' = {})
  BY LinkedFacts, Zenon
<1>d. NoDup(HEAD) /\ (HEAD' = HEAD => NoDup(HEAD)') /\ (HEAD' = <<>> => NoDup(HEAD)')
  BY SMTT(30) DEF NoDup
<1> USE <1>b, <1>c, <1>d
<1>1. CASE mp2_init
  BY <1>1, Zenon DEF mp2_init
<1>2. CASE proc_remove
  BY <1>2, Zenon DEF proc_remove
<1>3. CASE freeall
  BY <1>3, Zenon DEF freeall
<1>4. CASE free_next
  <2>1. HEAD' = Without(HEAD, Head(HEAD)) /\ Head(HEAD) \in Linked
    BY <1>4, LinkedFacts DEF free_next, freeone, Membership, InHandler
  <2>2. NoDup(HEAD') /\ Linked' = Linked \ {Head(HEAD)}
    BY <2>1, <1>d, LinkedRemove, Zenon
  <2> QED BY <1>4, <2>2, Zenon DEF free_next
<1>5. CASE kthread_stop
  BY <1>5, Zenon DEF kthread_stop
<1>6. CASE cache_destroy
  BY <1>6, Zenon DEF cache_destroy
<1>7. CASE dispatch_top
  BY <1>7, Zenon DEF dispatch_top
<1>8. CASE dispatch_scan
  BY <1>8, Zenon DEF dispatch_scan
<1>9. CASE dispatch_decide
  BY <1>9, Zenon DEF dispatch_decide
<1>10. CASE set_old_task
  BY <1>10, Zenon DEF set_old_task
<1>11. CASE new_wake
  BY <1>11, Zenon DEF new_wake
<1>12. CASE new_run
  BY <1>12, Zenon DEF new_run
<1>13. CASE new_curr
  BY <1>13, Zenon DEF new_curr
<1>14. CASE dispatch_sleep
  BY <1>14, Zenon DEF dispatch_sleep
<1>15. CASE Tick
  BY <1>15, Zenon DEF Tick
<1>16. ASSUME NEW p \in Apps, reg_check(p) PROVE Membership'
  <2>1. \/ pc' = [pc EXCEPT ![p] = "reg_write"] /\ cpu' = p
        \/ pc' = [pc EXCEPT ![p] = "check"] /\ cpu' = "idle"
    BY <1>16, Zenon DEF reg_check
  <2>2. /\ pc[p] = "start" /\ mod = "live" /\ cpu \in {"idle", p}
        /\ UNCHANGED <<mod, HEAD, record, account, curr_tsk, linux, left, thread, scan, jiffies>>
    BY <1>16, Zenon DEF reg_check
  <2>3. p \notin Linked
    BY <2>2, Zenon
  <2>4. HEAD' = HEAD /\ Linked' = Linked /\ mod' = mod
    BY <2>2, Zenon
  <2>5. \A q \in Apps : q # p => pc'[q] = pc[q]
    BY <2>1, Zenon
  <2>6. pc'[p] \in {"reg_write", "check"}
    BY <2>1, Zenon
  <2>7. \A q \in Linked' : /\ pc'[q] \notin {"start", "reg_write", "reg_link", "dereg_wake"}
                           /\ pc'[q] = "done" => mod' # "live"
    BY <2>3, <2>4, <2>5
  <2>8. \A q \in Apps :
          /\ InHandler(q)' /\ pc'[q] \notin {"reg_write", "reg_link", "dereg_wake"} => q \in Linked'
          /\ pc'[q] = "user" /\ Managed' => q \in Linked'
    BY <2>4, <2>5, <2>6, Zenon
  <2>9. NoDup(HEAD)'
    BY <2>4, Zenon
  <2> QED BY <2>9, <2>7, <2>8, Zenon
<1>17. ASSUME NEW p \in Apps, reg_write(p) PROVE Membership'
  BY <1>17 DEF reg_write
<1>18. ASSUME NEW p \in Apps, reg_link(p) PROVE Membership'
  <2>1. HEAD' = Append(HEAD, p) /\ p \notin Linked
    BY <1>18, Zenon DEF reg_link
  <2>2. NoDup(HEAD') /\ Linked' = Linked \cup {p}
    BY <2>1, <1>d, LinkedAppend, Zenon
  <2>3. \A q \in Apps : pc'[q] = IF q = p THEN "reg_fill" ELSE pc[q]
    BY <1>18, Zenon DEF reg_link
  <2>4. mod' = mod /\ Managed
    BY <1>18, Zenon DEF reg_link
  <2>5. \A q \in Linked' : /\ pc'[q] \notin {"start", "reg_write", "reg_link", "dereg_wake"}
                           /\ pc'[q] = "done" => mod' # "live"
    BY <2>2, <2>3, <2>4, Zenon
  <2>6. \A q \in Apps :
          /\ InHandler(q)' /\ pc'[q] \notin {"reg_write", "reg_link", "dereg_wake"} => q \in Linked'
          /\ pc'[q] = "user" /\ Managed' => q \in Linked'
    BY <2>2, <2>3, <2>4, Zenon
  <2> QED BY <2>2, <2>5, <2>6, Zenon
<1>19. ASSUME NEW p \in Apps, reg_fill(p) PROVE Membership'
  BY <1>19, Zenon DEF reg_fill
<1>20. ASSUME NEW p \in Apps, check(p) PROVE Membership'
  BY <1>20 DEF check
<1>21. ASSUME NEW p \in Apps, yield_entry(p) PROVE Membership'
  BY <1>21, Zenon DEF yield_entry
<1>22. ASSUME NEW p \in Apps, sleep_curr(p) PROVE Membership'
  BY <1>22, Zenon DEF sleep_curr
<1>23. ASSUME NEW p \in Apps, sleep_state(p) PROVE Membership'
  BY <1>23, Zenon DEF sleep_state
<1>24. ASSUME NEW p \in Apps, sleep_block(p) PROVE Membership'
  BY <1>24, Zenon DEF sleep_block
<1>25. ASSUME NEW p \in Apps, yield_arm(p) PROVE Membership'
  BY <1>25, Zenon DEF yield_arm
<1>26. ASSUME NEW p \in Apps, yield_wake(p) PROVE Membership'
  BY <1>26, Zenon DEF yield_wake, WakeDispatcher
<1>27. ASSUME NEW p \in Apps, resume(p) PROVE Membership'
  BY <1>27, Zenon DEF resume
<1>28. ASSUME NEW p \in Apps, dereg_entry(p) PROVE Membership'
  BY <1>28, Zenon DEF dereg_entry
<1>29. ASSUME NEW p \in Apps, dereg_read(p) PROVE Membership'
  BY <1>29, Zenon DEF dereg_read
<1>30. ASSUME NEW p \in Apps, dereg_write(p) PROVE Membership'
  BY <1>30, Zenon DEF dereg_write
<1>31. ASSUME NEW p \in Apps, dereg_free(p) PROVE Membership'
  <2>1. HEAD' = Without(HEAD, p) /\ p \in Linked
    BY <1>31, LinkedFacts, Zenon DEF dereg_free, freeone, Membership, InHandler
  <2>2. NoDup(HEAD') /\ Linked' = Linked \ {p}
    BY <2>1, <1>d, LinkedRemove, Zenon
  <2> QED BY <1>31, <2>2, Zenon DEF dereg_free
<1>32. ASSUME NEW p \in Apps, dereg_wake(p) PROVE Membership'
  BY <1>32, Zenon DEF dereg_wake, WakeDispatcher
<1>33. ASSUME NEW p \in Apps, write_fails(p) PROVE Membership'
  <2>1. /\ pc[p] \in {"start", "user"} /\ mod \notin {"absent", "live"}
        /\ pc' = pc \/ pc' = [pc EXCEPT ![p] = "done"]
        /\ UNCHANGED <<mod, HEAD, record, account, curr_tsk, linux, thread, scan, cpu, jiffies>>
    BY <1>33, Zenon DEF write_fails
  <2> QED BY <2>1, SMTT(30)
<1>34. ASSUME NEW p \in Apps, tm_callback(p) PROVE Membership'
  BY <1>34, Zenon DEF tm_callback, WakeDispatcher
<1>35. CASE UNCHANGED vars
  BY <1>35, Zenon DEF vars
<1> QED BY <1>1, <1>2, <1>3, <1>4, <1>5, <1>6, <1>7, <1>8, <1>9, <1>10, <1>11,
    <1>12, <1>13, <1>14, <1>15, <1>16, <1>17, <1>18, <1>19, <1>20, <1>21,
    <1>22, <1>23, <1>24, <1>25, <1>26, <1>27, <1>28, <1>29, <1>30, <1>31,
    <1>32, <1>33, <1>34, <1>35, Zenon
    DEF Next, userapp, dispatch_fn, mp2_exit

(***************************************************************************)
(* Every step keeps the fields of a record in agreement with what its      *)
(* owner is doing; in particular a blocked owner has a pending timer or is *)
(* READY.                                                                  *)
(***************************************************************************)
LEMMA FieldsStep ==
  ASSUME Inv, [Next]_vars, ~Preemptible PROVE Fields'
<1>a. /\ HEAD \in Seq(Apps) /\ curr_tsk \in Apps \cup {NULL}
      /\ state \in [Apps -> States] /\ next_period \in [Apps -> Nat]
      /\ tm \in [Apps -> Nat] /\ pc \in [Apps -> AppPcs] /\ policy \in [Apps -> {"NORMAL", "FIFO"}]
      /\ lstate \in [Apps -> {"RUNNING", "UNINTERRUPTIBLE"}] /\ jiffies \in Nat \ {0}
      /\ Exclusive /\ Lifecycle /\ Membership /\ Fields /\ Current /\ Choice
  BY Zenon DEF Inv, TypeOK, RecordType, LinuxType, AppType, ThreadType, ScanType
<1> USE AppsAssumption, <1>a DEF CanRun, Hold, Release, Goto, FieldsOf, Held,
    Passing, Managed, InHandler, States, SLEEPING, READY, RUNNING, record,
    account, linux, app, thread, scan
<1>b. HEAD' = HEAD => Linked' = Linked
  BY LinkedFacts, Zenon
<1>c. Linked \subseteq Apps /\ (HEAD = <<>> => Linked = {}) /\ (HEAD' = <<>> => Linked' = {})
  BY LinkedFacts, Zenon
<1>t. \A q \in Apps : Ticks(q) \in Nat
  BY TicksNat, Zenon
<1> SUFFICES ASSUME NEW q \in Apps PROVE FieldsOf(q)'
  BY Zenon DEF Fields
<1>q. /\ FieldsOf(q) /\ (Held(q) <=> cpu = q) /\ (Passing <=> cpu = "kth")
      /\ (InHandler(q) => Managed)
      /\ (q \in Linked => pc[q] \notin {"start", "reg_write", "reg_link", "dereg_wake"})
  BY Zenon DEF Exclusive, Lifecycle, Membership, Fields
<1> USE <1>b, <1>q
<1>1. CASE mp2_init
  BY <1>1, <1>c, Zenon DEF mp2_init
<1>2. CASE proc_remove
  BY <1>2, Zenon DEF proc_remove
<1>3. CASE freeall
  BY <1>3, Zenon DEF freeall
<1>4. CASE free_next
  <2>1. HEAD # <<>> /\ HEAD' = Without(HEAD, Head(HEAD))
    BY <1>4, Zenon DEF free_next, freeone
  <2>2. Head(HEAD) \in Linked
    BY ONLY <2>1, <1>a, LinkedFacts
  <2>3. Linked' = Linked \ {Head(HEAD)}
    BY ONLY <2>1, <2>2, <1>a, LinkedRemove, Zenon DEF Membership
  <2> QED BY <1>4, <2>3, Zenon DEF free_next, freeone
<1>5. CASE kthread_stop
  BY <1>5, Zenon DEF kthread_stop
<1>6. CASE cache_destroy
  BY <1>6, Zenon DEF cache_destroy
<1>7. CASE dispatch_top
  BY <1>7, Zenon DEF dispatch_top
<1>8. CASE dispatch_scan
  BY <1>8, Zenon DEF dispatch_scan
<1>9. CASE dispatch_decide
  BY <1>9, Zenon DEF dispatch_decide
<1>10. CASE set_old_task
  <2>1. old = curr_tsk /\ old \in Apps
    BY <1>10, Zenon DEF Choice, set_old_task
  <2>2. old \in Linked /\ lstate[old] = "RUNNING" /\ pc[old] \notin {"reg_fill", "check"}
    BY <2>1, Zenon DEF Current, CurrentOf
  <2> QED BY <1>10, <2>2, Zenon DEF set_old_task
<1>11. CASE new_wake
  <2>1. next \in Linked /\ state[next] # SLEEPING /\ ~Held(next)
    BY <1>11, <1>c, ZenonT(60) DEF Choice, Choosing, Exclusive, new_wake
  <2> QED BY <1>11, <2>1 DEF new_wake
<1>12. CASE new_run
  <2>1. /\ next \in Linked /\ state[next] # SLEEPING /\ ~Held(next)
        /\ lstate[next] = "RUNNING" /\ pc[next] \notin {"reg_fill", "check"}
    BY <1>12, <1>c, ZenonT(60) DEF Choice, Choosing, Exclusive, Membership, new_run
  <2> QED BY <1>12, <2>1 DEF new_run
<1>13. CASE new_curr
  BY <1>13, Zenon DEF new_curr
<1>14. CASE dispatch_sleep
  BY <1>14, Zenon DEF dispatch_sleep
<1>15. CASE Tick
  BY <1>15, Zenon DEF Tick
<1>16. ASSUME NEW p \in Apps, reg_check(p) PROVE FieldsOf(q)'
  <2>1. \/ pc' = [pc EXCEPT ![p] = "reg_write"] /\ cpu' = p
        \/ pc' = [pc EXCEPT ![p] = "check"] /\ cpu' = "idle"
    BY <1>16, Zenon DEF reg_check
  <2>2. /\ pc[p] = "start" /\ mod = "live" /\ cpu \in {"idle", p}
        /\ UNCHANGED <<mod, HEAD, record, account, curr_tsk, linux, left, thread, scan, jiffies>>
    BY <1>16, Zenon DEF reg_check
  <2>3. CASE q # p
    BY <2>1, <2>2, <2>3, ZenonT(60)
  <2>4. CASE q = p
    BY <2>1, <2>2, <2>4
  <2> QED BY <2>3, <2>4, Zenon
<1>17. ASSUME NEW p \in Apps, reg_write(p) PROVE FieldsOf(q)'
  BY <1>17, Zenon DEF reg_write
<1>18. ASSUME NEW p \in Apps, reg_link(p) PROVE FieldsOf(q)'
  <2>1. HEAD' = Append(HEAD, p)
    BY <1>18, Zenon DEF reg_link
  <2>2. Linked' = Linked \cup {p}
    BY <2>1, LinkedAppend, Zenon
  <2> QED BY <1>18, <2>2 DEF reg_link
<1>19. ASSUME NEW p \in Apps, reg_fill(p) PROVE FieldsOf(q)'
  BY <1>19, Zenon DEF reg_fill
<1>20. ASSUME NEW p \in Apps, check(p) PROVE FieldsOf(q)'
  BY <1>20, ZenonT(60) DEF check
<1>21. ASSUME NEW p \in Apps, yield_entry(p) PROVE FieldsOf(q)'
  <2>1. /\ pc[p] = "user" /\ UNCHANGED <<HEAD, tm, lstate, policy>>
        /\ \A x \in Apps : x # p => /\ pc'[x] = pc[x] /\ state'[x] = state[x]
                                    /\ next_period'[x] = next_period[x]
    BY <1>21, ZenonT(30) DEF yield_entry
  <2>2. /\ pc'[p] = "sleep_curr" \/ (pc'[p] = "yield_wake" /\ state'[p] \in {state[p], READY})
        /\ pc'[p] = "sleep_curr" => state'[p] = state[p]
    BY <1>21, ZenonT(60) DEF yield_entry
  <2>3. next_period'[p] # 0
    <3>1. Ticks(p) \in Nat /\ next_period[p] \in Nat
      BY <1>t, Zenon
    <3>2. next_period'[p] \in {jiffies + Ticks(p), next_period[p] + Ticks(p), next_period[p]}
          /\ (next_period[p] = 0 => next_period'[p] = jiffies + Ticks(p))
      BY <1>21, Zenon DEF yield_entry
    <3> QED BY <3>1, <3>2, SMTT(30)
  <2>4. CASE q # p
    BY <2>1, <2>4, Zenon
  <2>5. CASE q = p
    BY <2>1, <2>2, <2>3, <2>5, Zenon
  <2> QED BY <2>4, <2>5, ZenonT(60)
<1>22. ASSUME NEW p \in Apps, sleep_curr(p) PROVE FieldsOf(q)'
  BY <1>22, Zenon DEF sleep_curr
<1>23. ASSUME NEW p \in Apps, sleep_state(p) PROVE FieldsOf(q)'
  BY <1>23, ZenonT(60) DEF sleep_state
<1>24. ASSUME NEW p \in Apps, sleep_block(p) PROVE FieldsOf(q)'
  BY <1>24, ZenonT(60) DEF sleep_block
<1>25. ASSUME NEW p \in Apps, yield_arm(p) PROVE FieldsOf(q)'
  <2>1. /\ pc[p] = "yield_arm" /\ UNCHANGED <<HEAD, state, lstate, policy>>
        /\ \A x \in Apps : x # p => /\ pc'[x] = pc[x] /\ tm'[x] = tm[x]
                                    /\ next_period'[x] = next_period[x]
        /\ pc'[p] = "yield_wake" /\ tm'[p] = next_period[p]
        /\ next_period'[p] = next_period[p] + Ticks(p)
    BY <1>25, Zenon DEF yield_arm
  <2>2. CASE q # p
    BY <2>1, <2>2, ZenonT(60)
  <2>3. CASE q = p
    <3>1. next_period[p] \in Nat \ {0} /\ Ticks(p) \in Nat
      BY <1>t, <2>1, <2>3, Zenon
    <3>a. \A a, b \in Nat : a # 0 => a + b # 0
      BY ONLY SMT
    <3>2. tm'[p] # 0 /\ next_period'[p] # 0
      BY ONLY <2>1, <3>1, <3>a, Zenon
    <3> QED BY <2>1, <2>3, <3>2, Zenon
  <2> QED BY <2>2, <2>3, ZenonT(60)
<1>26. ASSUME NEW p \in Apps, yield_wake(p) PROVE FieldsOf(q)'
  BY <1>26, Zenon DEF yield_wake, WakeDispatcher
<1>27. ASSUME NEW p \in Apps, resume(p) PROVE FieldsOf(q)'
  BY <1>27, Zenon DEF resume
<1>28. ASSUME NEW p \in Apps, dereg_entry(p) PROVE FieldsOf(q)'
  BY <1>28, Zenon DEF dereg_entry
<1>29. ASSUME NEW p \in Apps, dereg_read(p) PROVE FieldsOf(q)'
  BY <1>29, Zenon DEF dereg_read
<1>30. ASSUME NEW p \in Apps, dereg_write(p) PROVE FieldsOf(q)'
  BY <1>30, Zenon DEF dereg_write
<1>31. ASSUME NEW p \in Apps, dereg_free(p) PROVE FieldsOf(q)'
  <2>1. HEAD' = Without(HEAD, p) /\ p \in Linked
    BY <1>31, LinkedFacts, Zenon DEF dereg_free, freeone, Membership, InHandler
  <2>2. Linked' = Linked \ {p}
    BY <2>1, LinkedRemove, Zenon DEF Membership
  <2> QED BY <1>31, <2>2, Zenon DEF dereg_free, freeone
<1>32. ASSUME NEW p \in Apps, dereg_wake(p) PROVE FieldsOf(q)'
  BY <1>32, ZenonT(60) DEF dereg_wake, WakeDispatcher
<1>33. ASSUME NEW p \in Apps, write_fails(p) PROVE FieldsOf(q)'
  <2>1. /\ pc[p] \in {"start", "user"} /\ mod \notin {"absent", "live"}
        /\ pc' = pc \/ pc' = [pc EXCEPT ![p] = "done"]
        /\ UNCHANGED <<mod, HEAD, record, account, curr_tsk, linux, thread, scan, cpu, jiffies>>
    BY <1>33, Zenon DEF write_fails
  <2> QED BY <2>1, SMTT(90)
<1>34. ASSUME NEW p \in Apps, tm_callback(p) PROVE FieldsOf(q)'
  BY <1>34, Zenon DEF tm_callback, WakeDispatcher
<1>35. CASE UNCHANGED vars
  BY <1>35, Zenon DEF vars
<1> QED BY <1>1, <1>2, <1>3, <1>4, <1>5, <1>6, <1>7, <1>8, <1>9, <1>10, <1>11,
    <1>12, <1>13, <1>14, <1>15, <1>16, <1>17, <1>18, <1>19, <1>20, <1>21,
    <1>22, <1>23, <1>24, <1>25, <1>26, <1>27, <1>28, <1>29, <1>30, <1>31,
    <1>32, <1>33, <1>34, <1>35, Zenon
    DEF Next, userapp, dispatch_fn, mp2_exit

(***************************************************************************)
(* Every step keeps curr_tsk on a linked record of a process that is not   *)
(* blocked, and the RUNNING and real-time tasks on curr_tsk.               *)
(***************************************************************************)
LEMMA CurrentStep ==
  ASSUME Inv, [Next]_vars, ~Preemptible PROVE Current'
<1>a. /\ HEAD \in Seq(Apps) /\ curr_tsk \in Apps \cup {NULL}
      /\ state \in [Apps -> States] /\ next_period \in [Apps -> Nat]
      /\ tm \in [Apps -> Nat] /\ pc \in [Apps -> AppPcs] /\ policy \in [Apps -> {"NORMAL", "FIFO"}]
      /\ lstate \in [Apps -> {"RUNNING", "UNINTERRUPTIBLE"}] /\ jiffies \in Nat \ {0}
      /\ Exclusive /\ Lifecycle /\ Membership /\ Fields /\ Current /\ Choice
  BY Zenon DEF Inv, TypeOK, RecordType, LinuxType, AppType, ThreadType, ScanType
<1> USE AppsAssumption, <1>a DEF CanRun, Hold, Release, Goto, FieldsOf,
    CurrentOf, Held, Passing, Managed, InHandler, States, SLEEPING, READY,
    RUNNING, record, account, linux, app, thread, scan
<1>b. HEAD' = HEAD => Linked' = Linked
  BY LinkedFacts, Zenon
<1>c. Linked \subseteq Apps /\ (HEAD = <<>> => Linked = {}) /\ (HEAD' = <<>> => Linked' = {})
  BY LinkedFacts, Zenon
<1> SUFFICES ASSUME NEW q \in Apps PROVE CurrentOf(q)'
  BY Zenon DEF Current
<1>q. /\ FieldsOf(q) /\ CurrentOf(q)
      /\ (Held(q) <=> cpu = q) /\ (Passing <=> cpu = "kth")
      /\ (InHandler(q) => Managed) /\ (~Managed => curr_tsk = NULL)
      /\ (q \in Linked => pc[q] \notin {"start", "reg_write", "reg_link", "dereg_wake"})
  BY Zenon DEF Exclusive, Lifecycle, Membership, Fields, Current
<1> USE <1>b, <1>q
<1>1. CASE mp2_init
  BY <1>1, <1>c, Zenon DEF mp2_init
<1>2. CASE proc_remove
  BY <1>2, Zenon DEF proc_remove
<1>3. CASE freeall
  BY <1>3, Zenon DEF freeall
<1>4. CASE free_next
  <2>1. HEAD # <<>> /\ HEAD' = Without(HEAD, Head(HEAD))
    BY <1>4, Zenon DEF free_next, freeone
  <2>2. Head(HEAD) \in Linked
    BY ONLY <2>1, <1>a, LinkedFacts
  <2>3. Linked' = Linked \ {Head(HEAD)}
    BY ONLY <2>1, <2>2, <1>a, LinkedRemove, Zenon DEF Membership
  <2> QED BY <1>4, <2>3, Zenon DEF free_next, freeone
<1>5. CASE kthread_stop
  BY <1>5, Zenon DEF kthread_stop
<1>6. CASE cache_destroy
  BY <1>6, Zenon DEF cache_destroy
<1>7. CASE dispatch_top
  BY <1>7, Zenon DEF dispatch_top
<1>8. CASE dispatch_scan
  BY <1>8, Zenon DEF dispatch_scan
<1>9. CASE dispatch_decide
  BY <1>9, Zenon DEF dispatch_decide
<1>10. CASE set_old_task
  BY <1>10 DEF set_old_task
<1>11. CASE new_wake
  <2>1. next \in Linked /\ next # curr_tsk
    BY <1>11, <1>c, Zenon DEF Choice, Choosing, new_wake
  <2> QED BY <1>11, <2>1, <1>c, Zenon DEF new_wake
<1>12. CASE new_run
  BY <1>12, Zenon DEF new_run
<1>13. CASE new_curr
  <2>1. dpc = "new_curr" /\ next # NULL /\ next \in Linked /\ next \in Apps
    BY <1>13, <1>c, Zenon DEF Choice, Choosing, new_curr
  <2>2. /\ lstate[next] = "RUNNING" /\ pc[next] \notin {"reg_fill", "check"} /\ ~Held(next)
    BY <2>1 DEF Choice, Choosing, Exclusive
  <2>3. curr_tsk # NULL => state[curr_tsk] # RUNNING /\ policy[curr_tsk] = "NORMAL"
    BY <2>1, Zenon DEF Choice
  <2> QED BY <1>13, <2>1, <2>2, <2>3, ZenonT(60) DEF new_curr
<1>14. CASE dispatch_sleep
  BY <1>14, Zenon DEF dispatch_sleep
<1>15. CASE Tick
  BY <1>15, Zenon DEF Tick
<1>16. ASSUME NEW p \in Apps, reg_check(p) PROVE CurrentOf(q)'
  <2>1. \/ pc' = [pc EXCEPT ![p] = "reg_write"] /\ cpu' = p
        \/ pc' = [pc EXCEPT ![p] = "check"] /\ cpu' = "idle"
    BY <1>16, Zenon DEF reg_check
  <2>2. /\ pc[p] = "start" /\ mod = "live" /\ cpu \in {"idle", p}
        /\ UNCHANGED <<mod, HEAD, record, account, curr_tsk, linux, left, thread, scan, jiffies>>
    BY <1>16, Zenon DEF reg_check
  <2> QED BY <2>1, <2>2, Zenon
<1>17. ASSUME NEW p \in Apps, reg_write(p) PROVE CurrentOf(q)'
  BY <1>17, Zenon DEF reg_write
<1>18. ASSUME NEW p \in Apps, reg_link(p) PROVE CurrentOf(q)'
  <2>1. HEAD' = Append(HEAD, p)
    BY <1>18, Zenon DEF reg_link
  <2>2. Linked' = Linked \cup {p}
    BY <2>1, LinkedAppend, Zenon
  <2> QED BY <1>18, <2>2, ZenonT(60) DEF reg_link
<1>19. ASSUME NEW p \in Apps, reg_fill(p) PROVE CurrentOf(q)'
  BY <1>19, Zenon DEF reg_fill
<1>20. ASSUME NEW p \in Apps, check(p) PROVE CurrentOf(q)'
  BY <1>20, ZenonT(60) DEF check
<1>21. ASSUME NEW p \in Apps, yield_entry(p) PROVE CurrentOf(q)'
  BY <1>21, ZenonT(60) DEF yield_entry
<1>22. ASSUME NEW p \in Apps, sleep_curr(p) PROVE CurrentOf(q)'
  BY <1>22, ZenonT(60) DEF sleep_curr
<1>23. ASSUME NEW p \in Apps, sleep_state(p) PROVE CurrentOf(q)'
  BY <1>23, Zenon DEF sleep_state
<1>24. ASSUME NEW p \in Apps, sleep_block(p) PROVE CurrentOf(q)'
  BY <1>24, ZenonT(60) DEF sleep_block
<1>25. ASSUME NEW p \in Apps, yield_arm(p) PROVE CurrentOf(q)'
  BY <1>25, ZenonT(60) DEF yield_arm
<1>26. ASSUME NEW p \in Apps, yield_wake(p) PROVE CurrentOf(q)'
  BY <1>26, Zenon DEF yield_wake, WakeDispatcher
<1>27. ASSUME NEW p \in Apps, resume(p) PROVE CurrentOf(q)'
  BY <1>27, Zenon DEF resume
<1>28. ASSUME NEW p \in Apps, dereg_entry(p) PROVE CurrentOf(q)'
  BY <1>28, ZenonT(60) DEF dereg_entry
<1>29. ASSUME NEW p \in Apps, dereg_read(p) PROVE CurrentOf(q)'
  BY <1>29, Zenon DEF dereg_read
<1>30. ASSUME NEW p \in Apps, dereg_write(p) PROVE CurrentOf(q)'
  BY <1>30, Zenon DEF dereg_write
<1>31. ASSUME NEW p \in Apps, dereg_free(p) PROVE CurrentOf(q)'
  <2>1. HEAD' = Without(HEAD, p) /\ p \in Linked
    BY <1>31, LinkedFacts, Zenon DEF dereg_free, freeone, Membership, InHandler
  <2>2. Linked' = Linked \ {p}
    BY <2>1, LinkedRemove, Zenon DEF Membership
  <2> QED BY <1>31, <2>2, ZenonT(60) DEF dereg_free, freeone
<1>32. ASSUME NEW p \in Apps, dereg_wake(p) PROVE CurrentOf(q)'
  BY <1>32, Zenon DEF dereg_wake, WakeDispatcher
<1>33. ASSUME NEW p \in Apps, write_fails(p) PROVE CurrentOf(q)'
  <2>1. /\ pc[p] \in {"start", "user"} /\ mod \notin {"absent", "live"}
        /\ pc' = pc \/ pc' = [pc EXCEPT ![p] = "done"]
        /\ UNCHANGED <<mod, HEAD, record, account, curr_tsk, linux, thread, scan, cpu, jiffies>>
    BY <1>33, Zenon DEF write_fails
  <2> QED BY <2>1, ZenonT(60)
<1>34. ASSUME NEW p \in Apps, tm_callback(p) PROVE CurrentOf(q)'
  BY <1>34, Zenon DEF tm_callback, WakeDispatcher
<1>35. CASE UNCHANGED vars
  BY <1>35, Zenon DEF vars
<1> QED BY <1>1, <1>2, <1>3, <1>4, <1>5, <1>6, <1>7, <1>8, <1>9, <1>10, <1>11,
    <1>12, <1>13, <1>14, <1>15, <1>16, <1>17, <1>18, <1>19, <1>20, <1>21,
    <1>22, <1>23, <1>24, <1>25, <1>26, <1>27, <1>28, <1>29, <1>30, <1>31,
    <1>32, <1>33, <1>34, <1>35, Zenon
    DEF Next, userapp, dispatch_fn, mp2_exit

(***************************************************************************)
(* Every step keeps the task the dispatcher chose linked and not SLEEPING  *)
(* until set_new_task is through with it.                                  *)
(***************************************************************************)
LEMMA ChoiceStep ==
  ASSUME Inv, [Next]_vars, ~Preemptible PROVE Choice'
<1>a. /\ HEAD \in Seq(Apps) /\ curr_tsk \in Apps \cup {NULL}
      /\ state \in [Apps -> States] /\ next_period \in [Apps -> Nat]
      /\ tm \in [Apps -> Nat] /\ pc \in [Apps -> AppPcs] /\ policy \in [Apps -> {"NORMAL", "FIFO"}]
      /\ lstate \in [Apps -> {"RUNNING", "UNINTERRUPTIBLE"}] /\ jiffies \in Nat \ {0}
      /\ Exclusive /\ Lifecycle /\ Membership /\ Fields /\ Choice /\ Scan
  BY Zenon DEF Inv, TypeOK, RecordType, LinuxType, AppType, ThreadType, ScanType
<1> USE AppsAssumption, <1>a DEF CanRun, Hold, Release, Goto, Choice,
    Choosing, Held, Passing, States, SLEEPING, READY, RUNNING, record,
    account, linux, app, thread, scan
<1>b. HEAD' = HEAD => Linked' = Linked
  BY LinkedFacts, Zenon
<1>c. Linked \subseteq Apps /\ (HEAD = <<>> => Linked = {}) /\ (HEAD' = <<>> => Linked' = {})
  BY LinkedFacts, Zenon
<1>e. (Passing <=> cpu = "kth") /\ (mod = "absent" => dpc = "none")
  BY Zenon DEF Exclusive, Lifecycle
<1>f. curr_tsk # NULL => curr_tsk \in Apps
  BY Zenon DEF Inv, TypeOK
<1> USE <1>b, <1>e, <1>f
<1>1. CASE mp2_init
  BY <1>1, Zenon DEF mp2_init, WakeDispatcher
<1>2. CASE proc_remove
  BY <1>2, Zenon DEF proc_remove, WakeDispatcher
<1>3. CASE freeall
  BY <1>3, Zenon DEF freeall, WakeDispatcher
<1>4. CASE free_next
  BY <1>4, Zenon DEF free_next, WakeDispatcher
<1>5. CASE kthread_stop
  BY <1>5, Zenon DEF kthread_stop, WakeDispatcher
<1>6. CASE cache_destroy
  BY <1>6, Zenon DEF cache_destroy, WakeDispatcher
<1>7. CASE dispatch_top
  BY <1>7, Zenon DEF dispatch_top
<1>8. CASE dispatch_scan
  <2>0. PICK i \in 1..Len(HEAD) : itr = HEAD[i]
    BY <1>8, Zenon DEF Scan, dispatch_scan
  <2>a. itr \in Linked
    BY <2>0, LinkedFacts, Zenon
  <2>1. itr \in Linked /\ ~Held(itr)
    BY <1>8, <2>a, <1>c DEF Exclusive, dispatch_scan
  <2>2. state[itr] # SLEEPING => pc[itr] \notin {"reg_fill", "check"}
    BY <2>1, <1>c, Zenon DEF Fields, FieldsOf
  <2> QED BY <1>8, <2>1, <2>2, Zenon DEF dispatch_scan
<1>9. CASE dispatch_decide
  BY <1>9, Zenon DEF dispatch_decide
<1>10. CASE set_old_task
  BY <1>10 DEF set_old_task
<1>11. CASE new_wake
  BY <1>11, <1>c, Zenon DEF new_wake
<1>12. CASE new_run
  BY <1>12 DEF new_run
<1>13. CASE new_curr
  BY <1>13, Zenon DEF new_curr
<1>14. CASE dispatch_sleep
  BY <1>14, Zenon DEF dispatch_sleep
<1>15. CASE Tick
  BY <1>15, Zenon DEF Tick
<1>16. ASSUME NEW p \in Apps, reg_check(p) PROVE Choice'
  <2>1. \/ pc' = [pc EXCEPT ![p] = "reg_write"] /\ cpu' = p
        \/ pc' = [pc EXCEPT ![p] = "check"] /\ cpu' = "idle"
    BY <1>16, Zenon DEF reg_check
  <2>2. /\ pc[p] = "start" /\ mod = "live" /\ cpu \in {"idle", p}
        /\ UNCHANGED <<mod, HEAD, record, account, curr_tsk, linux, left, thread, scan, jiffies>>
    BY <1>16, Zenon DEF reg_check
  <2> QED BY <2>1, <2>2
<1>17. ASSUME NEW p \in Apps, reg_write(p) PROVE Choice'
  BY <1>17 DEF reg_write, WakeDispatcher
<1>18. ASSUME NEW p \in Apps, reg_link(p) PROVE Choice'
  BY <1>18 DEF reg_link, WakeDispatcher
<1>19. ASSUME NEW p \in Apps, reg_fill(p) PROVE Choice'
  BY <1>19, Zenon DEF reg_fill, WakeDispatcher
<1>20. ASSUME NEW p \in Apps, check(p) PROVE Choice'
  BY <1>20, Zenon DEF check, WakeDispatcher
<1>21. ASSUME NEW p \in Apps, yield_entry(p) PROVE Choice'
  <2>1. ~Passing /\ dpc' = dpc
    BY <1>21, Zenon DEF yield_entry
  <2> QED BY <2>1, Zenon
<1>22. ASSUME NEW p \in Apps, sleep_curr(p) PROVE Choice'
  BY <1>22 DEF sleep_curr, WakeDispatcher
<1>23. ASSUME NEW p \in Apps, sleep_state(p) PROVE Choice'
  BY <1>23, Zenon DEF sleep_state, WakeDispatcher
<1>24. ASSUME NEW p \in Apps, sleep_block(p) PROVE Choice'
  BY <1>24, Zenon DEF sleep_block, WakeDispatcher
<1>25. ASSUME NEW p \in Apps, yield_arm(p) PROVE Choice'
  BY <1>25 DEF yield_arm, WakeDispatcher
<1>26. ASSUME NEW p \in Apps, yield_wake(p) PROVE Choice'
  BY <1>26 DEF yield_wake, WakeDispatcher
<1>27. ASSUME NEW p \in Apps, resume(p) PROVE Choice'
  BY <1>27 DEF resume, WakeDispatcher
<1>28. ASSUME NEW p \in Apps, dereg_entry(p) PROVE Choice'
  BY <1>28 DEF dereg_entry, WakeDispatcher
<1>29. ASSUME NEW p \in Apps, dereg_read(p) PROVE Choice'
  BY <1>29, Zenon DEF dereg_read, WakeDispatcher
<1>30. ASSUME NEW p \in Apps, dereg_write(p) PROVE Choice'
  BY <1>30, Zenon DEF dereg_write, WakeDispatcher
<1>31. ASSUME NEW p \in Apps, dereg_free(p) PROVE Choice'
  BY <1>31 DEF dereg_free, WakeDispatcher
<1>32. ASSUME NEW p \in Apps, dereg_wake(p) PROVE Choice'
  BY <1>32 DEF dereg_wake, WakeDispatcher
<1>33. ASSUME NEW p \in Apps, write_fails(p) PROVE Choice'
  <2>1. /\ pc[p] \in {"start", "user"} /\ mod \notin {"absent", "live"}
        /\ pc' = pc \/ pc' = [pc EXCEPT ![p] = "done"]
        /\ UNCHANGED <<mod, HEAD, record, account, curr_tsk, linux, thread, scan, cpu, jiffies>>
    BY <1>33, Zenon DEF write_fails
  <2> QED BY <2>1, <1>c, Zenon
<1>34. ASSUME NEW p \in Apps, tm_callback(p) PROVE Choice'
  BY <1>34, SMTT(30) DEF tm_callback, WakeDispatcher
<1>35. CASE UNCHANGED vars
  BY <1>35, Zenon DEF vars
<1> QED BY <1>1, <1>2, <1>3, <1>4, <1>5, <1>6, <1>7, <1>8, <1>9, <1>10, <1>11,
    <1>12, <1>13, <1>14, <1>15, <1>16, <1>17, <1>18, <1>19, <1>20, <1>21,
    <1>22, <1>23, <1>24, <1>25, <1>26, <1>27, <1>28, <1>29, <1>30, <1>31,
    <1>32, <1>33, <1>34, <1>35, Zenon
    DEF Next, userapp, dispatch_fn, mp2_exit

(***************************************************************************)
(* Every step keeps the cursor in the list and min_period a lower bound of *)
(* the periods of the RUNNING tasks already seen.                          *)
(***************************************************************************)
LEMMA ScanStep ==
  ASSUME Inv, [Next]_vars, ~Preemptible PROVE Scan'
<1>a. /\ HEAD \in Seq(Apps) /\ state \in [Apps -> States] /\ min_period \in Nat
      /\ Exclusive /\ Lifecycle /\ Membership /\ Scan
  BY Zenon DEF Inv, TypeOK, RecordType, LinuxType, AppType, ThreadType, ScanType
<1> USE AppsAssumption, <1>a DEF CanRun, Hold, Release, Goto, Scan, Choosing,
    Passing, States, SLEEPING, READY, RUNNING, record, account, linux, app,
    thread, scan
<1>b. HEAD' = HEAD => Linked' = Linked
  BY LinkedFacts, Zenon
<1>c. Linked \subseteq Apps /\ (HEAD = <<>> => Linked = {}) /\ (HEAD' = <<>> => Linked' = {})
  BY LinkedFacts, Zenon
<1>e. (Passing <=> cpu = "kth") /\ (mod = "absent" => dpc = "none")
  BY Zenon DEF Exclusive, Lifecycle
<1> USE <1>b, <1>e
<1>1. CASE mp2_init
  BY <1>1, Zenon DEF mp2_init, WakeDispatcher
<1>2. CASE proc_remove
  BY <1>2, Zenon DEF proc_remove, WakeDispatcher
<1>3. CASE freeall
  BY <1>3, Zenon DEF freeall, WakeDispatcher
<1>4. CASE free_next
  BY <1>4, Zenon DEF free_next, WakeDispatcher
<1>5. CASE kthread_stop
  BY <1>5, Zenon DEF kthread_stop, WakeDispatcher
<1>6. CASE cache_destroy
  BY <1>6, Zenon DEF cache_destroy, WakeDispatcher
<1>7. CASE dispatch_top
  <2>1. CASE dpc' = "scan"
    <3>1. HEAD # <<>> /\ itr' = HEAD[1] /\ tmp' = NextOf(HEAD[1]) /\ 1 \in 1..Len(HEAD)
      BY <1>7, <2>1 DEF dispatch_top
    <3>2. tmp' = IF 1 < Len(HEAD) THEN HEAD[2] ELSE NULL
      BY <3>1, NextOfFact DEF Membership
    <3>3. HEAD' = HEAD /\ next' = NULL
      BY <1>7, <2>1, Zenon DEF dispatch_top
    <3> QED BY <2>1, <3>1, <3>2, <3>3
  <2>2. CASE dpc' # "scan"
    BY <1>7, <2>2, <1>c, Zenon DEF dispatch_top
  <2> QED BY <2>1, <2>2, Zenon
<1>8. CASE dispatch_scan
  <2>1. PICK i \in 1..Len(HEAD) :
          /\ itr = HEAD[i] /\ tmp = IF i < Len(HEAD) THEN HEAD[i + 1] ELSE NULL
          /\ \A j \in 1..(i - 1) : state[HEAD[j]] = RUNNING => min_period <= Period[HEAD[j]]
    BY <1>8, Zenon DEF dispatch_scan
  <2>L. Len(HEAD) \in Nat
    OBVIOUS
  <2>a. \A j \in 1..Len(HEAD) : HEAD[j] \in Apps
    BY LinkedFacts, Zenon
  <2>2. itr \in Apps /\ \A x \in Apps : Period[x] \in Nat
    BY <2>1, <2>a, Zenon
  <2>b. /\ HEAD' = HEAD /\ state' = state
        /\ \/ min_period' = Period[itr] /\ Period[itr] < min_period
           \/ min_period' = min_period /\ (state[itr] = SLEEPING \/ ~(Period[itr] < min_period))
    BY <1>8, Zenon DEF dispatch_scan
  <2>3. /\ HEAD' = HEAD /\ state' = state /\ min_period' \in Nat /\ min_period' <= min_period
        /\ state[itr] = RUNNING => min_period' <= Period[itr]
    BY <2>2, <2>b
  <2>4. ASSUME NEW j \in 1..i, state[HEAD[j]] = RUNNING PROVE min_period' <= Period[HEAD[j]]
    <3>1. HEAD[j] \in Apps /\ Period[HEAD[j]] \in Nat
      <4>1. j \in 1..Len(HEAD)
        BY ONLY <2>L, SMT
      <4> QED BY ONLY <2>a, <2>2, <4>1, Zenon
    <3>2. CASE j = i
      BY <2>1, <2>3, <2>4, <3>2, Zenon
    <3>3. CASE j \in 1..(i - 1)
      <4>1. min_period <= Period[HEAD[j]]
        BY ONLY <2>1, <2>4, <3>3, Zenon
      <4> QED BY ONLY <4>1, <2>3, <3>1, <1>a
    <3> QED BY ONLY <3>2, <3>3, <2>L
  <2>5. next' # NULL => min_period' = Period[next']
    BY <1>8, Zenon DEF dispatch_scan
  <2>6. CASE i = Len(HEAD)
    <3>1. dpc' = "decide"
      <4>1. tmp = NULL
        BY ONLY <2>1, <2>6, <2>L, SMT
      <4> QED BY <1>8, <4>1, Zenon DEF dispatch_scan
    <3>2. \A p \in Linked : state[p] = RUNNING => min_period' <= Period[p]
      BY <2>4, <2>6, LinkedFacts
    <3> QED BY <3>1, <3>2, <2>3, <2>5, Zenon
  <2>7. CASE i < Len(HEAD)
    <3>1. /\ i + 1 \in 1..Len(HEAD) /\ tmp = HEAD[i + 1] /\ tmp # NULL
      BY <2>1, <2>2, <2>7, SMTT(60)
    <3>2. dpc' = "scan" /\ itr' = HEAD[i + 1] /\ tmp' = NextOf(HEAD[i + 1])
      BY <1>8, <3>1, Zenon DEF dispatch_scan
    <3>3. tmp' = IF i + 1 < Len(HEAD) THEN HEAD[(i + 1) + 1] ELSE NULL
      BY <3>1, <3>2, NextOfFact, Zenon DEF Membership
    <3> DEFINE k == i + 1
    <3>4. \A j \in 1..(k - 1) : state[HEAD[j]] = RUNNING => min_period' <= Period[HEAD[j]]
      BY <2>4
    <3> HIDE DEF k
    <3>5. \E m \in 1..Len(HEAD) :
            /\ itr' = HEAD[m] /\ tmp' = IF m < Len(HEAD) THEN HEAD[m + 1] ELSE NULL
            /\ \A j \in 1..(m - 1) : state[HEAD[j]] = RUNNING => min_period' <= Period[HEAD[j]]
      <4>1. k \in 1..Len(HEAD) /\ itr' = HEAD[k]
            /\ tmp' = IF k < Len(HEAD) THEN HEAD[k + 1] ELSE NULL
        BY <3>1, <3>2, <3>3, Zenon DEF k
      <4> QED BY <4>1, <3>4, Zenon
    <3> QED BY <3>2, <3>5, <2>3, <2>5, Zenon
  <2>8. i = Len(HEAD) \/ i < Len(HEAD)
    BY ONLY <2>L, SMT
  <2> QED BY <2>6, <2>7, <2>8, Zenon
<1>9. CASE dispatch_decide
  BY <1>9, Zenon DEF dispatch_decide
<1>10. CASE set_old_task
  BY <1>10, Zenon DEF set_old_task
<1>11. CASE new_wake
  BY <1>11, Zenon DEF new_wake
<1>12. CASE new_run
  BY <1>12, Zenon DEF new_run
<1>13. CASE new_curr
  BY <1>13, Zenon DEF new_curr
<1>14. CASE dispatch_sleep
  BY <1>14, Zenon DEF dispatch_sleep
<1>15. CASE Tick
  BY <1>15, Zenon DEF Tick
<1>16. ASSUME NEW p \in Apps, reg_check(p) PROVE Scan'
  <2>1. \/ pc' = [pc EXCEPT ![p] = "reg_write"] /\ cpu' = p
        \/ pc' = [pc EXCEPT ![p] = "check"] /\ cpu' = "idle"
    BY <1>16, Zenon DEF reg_check
  <2>2. /\ pc[p] = "start" /\ mod = "live" /\ cpu \in {"idle", p}
        /\ UNCHANGED <<mod, HEAD, record, account, curr_tsk, linux, left, thread, scan, jiffies>>
    BY <1>16, Zenon DEF reg_check
  <2> QED BY <2>1, <2>2, Zenon
<1>17. ASSUME NEW p \in Apps, reg_write(p) PROVE Scan'
  BY <1>17, Zenon DEF reg_write, WakeDispatcher
<1>18. ASSUME NEW p \in Apps, reg_link(p) PROVE Scan'
  BY <1>18, Zenon DEF reg_link, WakeDispatcher
<1>19. ASSUME NEW p \in Apps, reg_fill(p) PROVE Scan'
  BY <1>19, Zenon DEF reg_fill, WakeDispatcher
<1>20. ASSUME NEW p \in Apps, check(p) PROVE Scan'
  BY <1>20, Zenon DEF check, WakeDispatcher
<1>21. ASSUME NEW p \in Apps, yield_entry(p) PROVE Scan'
  <2>1. ~Passing /\ dpc' = dpc
    BY <1>21, Zenon DEF yield_entry
  <2> QED BY <2>1, Zenon
<1>22. ASSUME NEW p \in Apps, sleep_curr(p) PROVE Scan'
  BY <1>22, Zenon DEF sleep_curr, WakeDispatcher
<1>23. ASSUME NEW p \in Apps, sleep_state(p) PROVE Scan'
  BY <1>23, Zenon DEF sleep_state, WakeDispatcher
<1>24. ASSUME NEW p \in Apps, sleep_block(p) PROVE Scan'
  BY <1>24, Zenon DEF sleep_block, WakeDispatcher
<1>25. ASSUME NEW p \in Apps, yield_arm(p) PROVE Scan'
  BY <1>25, Zenon DEF yield_arm, WakeDispatcher
<1>26. ASSUME NEW p \in Apps, yield_wake(p) PROVE Scan'
  BY <1>26, Zenon DEF yield_wake, WakeDispatcher
<1>27. ASSUME NEW p \in Apps, resume(p) PROVE Scan'
  BY <1>27, Zenon DEF resume, WakeDispatcher
<1>28. ASSUME NEW p \in Apps, dereg_entry(p) PROVE Scan'
  BY <1>28, Zenon DEF dereg_entry, WakeDispatcher
<1>29. ASSUME NEW p \in Apps, dereg_read(p) PROVE Scan'
  BY <1>29, Zenon DEF dereg_read, WakeDispatcher
<1>30. ASSUME NEW p \in Apps, dereg_write(p) PROVE Scan'
  BY <1>30, Zenon DEF dereg_write, WakeDispatcher
<1>31. ASSUME NEW p \in Apps, dereg_free(p) PROVE Scan'
  BY <1>31, Zenon DEF dereg_free, WakeDispatcher
<1>32. ASSUME NEW p \in Apps, dereg_wake(p) PROVE Scan'
  BY <1>32, Zenon DEF dereg_wake, WakeDispatcher
<1>33. ASSUME NEW p \in Apps, write_fails(p) PROVE Scan'
  <2>1. /\ pc[p] \in {"start", "user"} /\ mod \notin {"absent", "live"}
        /\ pc' = pc \/ pc' = [pc EXCEPT ![p] = "done"]
        /\ UNCHANGED <<mod, HEAD, record, account, curr_tsk, linux, thread, scan, cpu, jiffies>>
    BY <1>33, Zenon DEF write_fails
  <2> QED BY <2>1, Zenon
<1>34. ASSUME NEW p \in Apps, tm_callback(p) PROVE Scan'
  <2>1. \A x \in Apps : state'[x] = RUNNING => state[x] = RUNNING
    BY <1>34, Zenon DEF tm_callback
  <2>2. UNCHANGED <<HEAD, dpc, scan>>
    BY <1>34, Zenon DEF tm_callback, WakeDispatcher
  <2>3. Len(HEAD) \in Nat /\ \A j \in 1..Len(HEAD) : HEAD[j] \in Apps
    BY LinkedFacts
  <2>4. CASE dpc = "scan"
    <3>1. PICK i \in 1..Len(HEAD) :
            /\ itr = HEAD[i] /\ tmp = IF i < Len(HEAD) THEN HEAD[i + 1] ELSE NULL
            /\ \A j \in 1..(i - 1) : state[HEAD[j]] = RUNNING => min_period <= Period[HEAD[j]]
      BY <2>4, Zenon
    <3>2. \A j \in 1..(i - 1) : state'[HEAD[j]] = RUNNING => min_period <= Period[HEAD[j]]
      <4> SUFFICES ASSUME NEW j \in 1..(i - 1), state'[HEAD[j]] = RUNNING
                   PROVE  min_period <= Period[HEAD[j]]
        BY Zenon
      <4>1. j \in 1..Len(HEAD)
        BY ONLY <2>3
      <4>2. state[HEAD[j]] = RUNNING
        BY ONLY <4>1, <2>1, <2>3, state'[HEAD[j]] = RUNNING, Zenon
      <4> QED BY ONLY <4>2, <3>1, Zenon
    <3> QED BY <2>2, <2>4, <3>1, <3>2, Zenon
  <2>5. CASE dpc # "scan"
    BY <1>c, <2>1, <2>2, <2>5, Zenon
  <2> QED BY <2>4, <2>5, Zenon
<1>35. CASE UNCHANGED vars
  BY <1>35, Zenon DEF vars
<1> QED BY <1>1, <1>2, <1>3, <1>4, <1>5, <1>6, <1>7, <1>8, <1>9, <1>10, <1>11,
    <1>12, <1>13, <1>14, <1>15, <1>16, <1>17, <1>18, <1>19, <1>20, <1>21,
    <1>22, <1>23, <1>24, <1>25, <1>26, <1>27, <1>28, <1>29, <1>30, <1>31,
    <1>32, <1>33, <1>34, <1>35, Zenon
    DEF Next, userapp, dispatch_fn, mp2_exit

(***************************************************************************)
(* The state before insmod satisfies the invariant.                        *)
(***************************************************************************)
LEMMA InitInv == Init => Inv
<1> SUFFICES ASSUME Init PROVE Inv
  BY Zenon
<1> USE AppsAssumption, PlatformAssumption DEF Init, SLEEPING, READY, RUNNING
<1>1. Linked = {}
  BY DEF Linked, Range
<1>2. TypeOK
  <2>1. /\ HEAD \in Seq(Apps) /\ state \in [Apps -> States]
        /\ next_period \in [Apps -> Nat] /\ tm \in [Apps -> Nat] /\ left \in [Apps -> Nat]
        /\ lstate \in [Apps -> {"RUNNING", "UNINTERRUPTIBLE"}]
        /\ policy \in [Apps -> {"NORMAL", "FIFO"}]
    BY DEF States
  <2>2. pc \in [Apps -> AppPcs] /\ loc \in [Apps -> [n : Nat, d : Nat]] /\ dpc \in DispatchPcs
    BY Zenon DEF AppPcs, DispatchPcs
  <2>3. RecordType /\ AccountType /\ LinuxType
    BY <2>1, Zenon DEF RecordType, AccountType, LinuxType
  <2>4. AppType /\ ThreadType /\ ScanType
    BY <2>1, <2>2, Zenon DEF AppType, ThreadType, ScanType
  <2> QED BY <2>1, <2>3, <2>4, SMTT(30) DEF TypeOK
<1>3. Exclusive
  BY Zenon DEF Exclusive, Held, Passing
<1>4. Lifecycle
  BY Zenon DEF Lifecycle, InHandler, Passing, Managed
<1>5. Membership
  BY <1>1 DEF Membership, InHandler, NoDup
<1>6. Fields
  BY <1>1, Zenon DEF Fields, FieldsOf
<1>7. Current
  BY <1>1, Zenon DEF Current, CurrentOf, Managed
<1>8. Choice /\ Scan
  BY Zenon DEF Choice, Scan, Choosing
<1> QED BY <1>2, <1>3, <1>4, <1>5, <1>6, <1>7, <1>8, Zenon DEF Inv

(***************************************************************************)
(* Every step preserves the invariant.                                     *)
(***************************************************************************)
LEMMA InvNext == ASSUME Inv, [Next]_vars, ~Preemptible PROVE Inv'
  BY TypeOKStep, ExclusiveStep, LifecycleStep, MembershipStep, FieldsStep,
     CurrentStep, ChoiceStep, ScanStep, Zenon DEF Inv

(***************************************************************************)
(* Inv, and with it TypeOK, holds in every state of the module's life on   *)
(* one processor: the control points of the handlers, the dispatcher and   *)
(* rmmod (mp2.c:157-264, 348-395, 447-483) agree with the list, the        *)
(* records and curr_tsk.                                                   *)
(***************************************************************************)
THEOREM Invariance == ASSUME ~Preemptible PROVE Spec => []Inv
<1>1. Inv /\ [Next]_vars => Inv'
  BY InvNext, Zenon
<1> QED BY InitInv, <1>1, PTL DEF Spec
-----------------------------------------------------------------------------
(***************************************************************************)
(* Time.  Who sleeps in its yield sleeps until its timer has expired.      *)
(***************************************************************************)
Yielding == {"sleep_curr", "sleep_state", "sleep_block", "yield_arm", "yield_wake", "schedule"}
Asleep   == {"yield_wake", "schedule"}

\* A pending timer expires one period before the next one ends, and a sleeper
\* without a timer is one whose timer has expired.
TimedOf(p) ==
  /\ left[p] <= Times[p] /\ (pc[p] \in Yielding => left[p] < Times[p])
  /\ tm[p] # 0 => tm[p] + Ticks(p) = next_period[p]
  /\ lstate[p] = "UNINTERRUPTIBLE" /\ pc[p] \in Asleep /\ tm[p] = 0
       => next_period[p] <= jiffies + Ticks(p)
Timed == \A p \in Apps : TimedOf(p)

Same(q) == /\ left'[q] = left[q] /\ next_period'[q] = next_period[q] /\ tm'[q] = tm[q]
           /\ pc'[q] \in Yielding => pc[q] \in Yielding
           /\ pc'[q] \in Asleep => pc[q] \in Asleep
                /\ (lstate'[q] = "UNINTERRUPTIBLE" => lstate[q] = "UNINTERRUPTIBLE")

(***************************************************************************)
(* A step that leaves the times of q alone.                                *)
(***************************************************************************)
LEMMA TimedSame == ASSUME NEW q \in Apps, TimedOf(q), Same(q), jiffies' = jiffies PROVE TimedOf(q)'
<1>1. Ticks(q)' = Ticks(q)
  BY Zenon DEF Ticks
<1> QED BY <1>1, Zenon DEF TimedOf, Same

(***************************************************************************)
(* A step on the times of p only.                                          *)
(***************************************************************************)
LEMMA TimedOther ==
  ASSUME Timed, NEW p \in Apps, jiffies' = jiffies, TimedOf(p)',
         \A q \in Apps : q # p => Same(q)
  PROVE  Timed'
  BY TimedSame, Zenon DEF Timed

(***************************************************************************)
(* yield_entry: the first yield, a sleep, or a period that has begun.      *)
(***************************************************************************)
LEMMA TimedEntry == ASSUME Inv, Timed, NEW p \in Apps, yield_entry(p) PROVE Timed'
<1>a. pc \in [Apps -> AppPcs] /\ left \in [Apps -> Nat] /\ next_period \in [Apps -> Nat] /\ FieldsOf(p)
  BY Zenon DEF Inv, TypeOK, AppType, RecordType, Fields
<1>1. pc[p] = "user" /\ left[p] > 0 /\ left' = [left EXCEPT ![p] = @ - 1]
      /\ tm' = tm /\ lstate' = lstate /\ jiffies' = jiffies
  BY Zenon DEF yield_entry, linux
<1>2. \/ pc' = [pc EXCEPT ![p] = "yield_wake"]
           /\ \E t : next_period' = [next_period EXCEPT ![p] = t]
      \/ pc' = [pc EXCEPT ![p] = "sleep_curr"] /\ next_period' = next_period
  BY Zenon DEF yield_entry, Goto
<1>3. \A q \in Apps : q # p => Same(q)
  BY <1>a, <1>1, <1>2, Zenon DEF Same
<1>4. tm[p] = 0 /\ lstate[p] # "UNINTERRUPTIBLE"
  BY <1>a, <1>1, Zenon DEF FieldsOf
<1>5. left'[p] < Times[p]
  <2>1. left'[p] = left[p] - 1 /\ left[p] \in Nat /\ left[p] <= Times[p] /\ Times[p] \in Nat
    <3>1. left'[p] = left[p] - 1
      BY <1>a, <1>1, Zenon
    <3> QED BY <1>a, <3>1, AppsAssumption DEF Timed, TimedOf
  <2> QED BY <2>1
<1>6. left'[p] <= Times[p]
  <2>1. left'[p] \in Nat /\ Times[p] \in Nat
    <3>1. left'[p] = left[p] - 1 /\ left[p] \in Nat /\ left[p] > 0
      BY <1>a, <1>1, Zenon
    <3>2. Times[p] \in Nat
      BY AppsAssumption, Zenon
    <3> QED BY <3>1, <3>2
  <2> QED BY <1>5, <2>1
<1>7. TimedOf(p)'
  BY <1>1, <1>4, <1>5, <1>6, Zenon DEF TimedOf
<1> QED BY <1>1, <1>3, <1>7, TimedOther, Zenon

(***************************************************************************)
(* The timer is armed for the period that follows.                         *)
(***************************************************************************)
LEMMA TimedArm == ASSUME Inv, Timed, NEW p \in Apps, yield_arm(p) PROVE Timed'
<1>a. pc \in [Apps -> AppPcs] /\ next_period \in [Apps -> Nat] /\ tm \in [Apps -> Nat] /\ FieldsOf(p) /\ TimedOf(p)
  BY Zenon DEF Inv, TypeOK, AppType, RecordType, Fields, Timed
<1>1. pc[p] = "yield_arm" /\ tm' = [tm EXCEPT ![p] = next_period[p]]
      /\ next_period' = [next_period EXCEPT ![p] = @ + Ticks(p)]
      /\ pc' = [pc EXCEPT ![p] = "yield_wake"]
      /\ left' = left /\ lstate' = lstate /\ jiffies' = jiffies
  BY Zenon DEF yield_arm, Goto, linux
<1>3. \A q \in Apps : q # p => Same(q)
  BY <1>a, <1>1, Zenon DEF Same
<1>4. tm'[p] = next_period[p] /\ next_period'[p] = next_period[p] + Ticks(p) /\ pc'[p] = "yield_wake"
  BY <1>a, <1>1, Zenon
<1>5. next_period[p] # 0 /\ left[p] < Times[p] /\ left[p] <= Times[p]
  BY <1>a, <1>1, Zenon DEF FieldsOf, TimedOf, Yielding
<1>6. Ticks(p)' = Ticks(p)
  BY Zenon DEF Ticks
<1>7. TimedOf(p)'
  BY <1>1, <1>4, <1>5, <1>6, Zenon DEF TimedOf
<1> QED BY <1>1, <1>3, <1>7, TimedOther, Zenon

(***************************************************************************)
(* The timer expires.                                                      *)
(***************************************************************************)
LEMMA TimedFires == ASSUME Inv, Timed, NEW p \in Apps, tm_callback(p) PROVE Timed'
<1>a. tm \in [Apps -> Nat] /\ TimedOf(p) /\ next_period \in [Apps -> Nat] /\ jiffies \in Nat
  BY Zenon DEF Inv, TypeOK, RecordType, Timed
<1>1. tm[p] # 0 /\ tm[p] <= jiffies /\ tm' = [tm EXCEPT ![p] = 0]
      /\ next_period' = next_period /\ pc' = pc
      /\ left' = left /\ lstate' = lstate /\ jiffies' = jiffies
  BY Zenon DEF tm_callback, linux, app
<1>3. \A q \in Apps : q # p => Same(q)
  BY <1>a, <1>1, Zenon DEF Same
<1>4. tm'[p] = 0
  BY <1>a, <1>1, Zenon
<1>5. tm[p] + Ticks(p) = next_period[p]
  BY <1>a, <1>1, Zenon DEF TimedOf
<1>6. next_period[p] <= jiffies + Ticks(p)
  <2>1. tm[p] \in Nat /\ Ticks(p) \in Nat /\ jiffies \in Nat
    BY <1>a, TicksNat
  <2> HIDE DEF Ticks
  <2> QED BY <1>1, <1>5, <2>1
<1>7. Ticks(p)' = Ticks(p)
  BY Zenon DEF Ticks
<1>8. TimedOf(p)'
  BY <1>a, <1>1, <1>4, <1>6, <1>7, Zenon DEF TimedOf
<1> QED BY <1>1, <1>3, <1>8, TimedOther, Zenon

(***************************************************************************)
(* A record is filled in or freed: no timer, and no sleeper.               *)
(***************************************************************************)
LEMMA TimedClear ==
  ASSUME Inv, Timed, NEW p \in Apps, pc'[p] \notin Yielding,
         tm' = [tm EXCEPT ![p] = 0], next_period' = next_period \/ next_period' = [next_period EXCEPT ![p] = 0],
         left' = left, lstate' = lstate, jiffies' = jiffies,
         pc' = pc \/ \E l : pc' = [pc EXCEPT ![p] = l]
  PROVE  Timed'
<1>a. pc \in [Apps -> AppPcs] /\ next_period \in [Apps -> Nat] /\ tm \in [Apps -> Nat] /\ TimedOf(p)
  BY Zenon DEF Inv, TypeOK, AppType, RecordType, Timed
<1>1. \A q \in Apps : q # p => Same(q)
  BY <1>a, Zenon DEF Same
<1>2. tm'[p] = 0 /\ left'[p] = left[p] /\ pc'[p] \notin Asleep
  BY <1>a, Zenon DEF Asleep, Yielding
<1>3. TimedOf(p)'
  BY <1>a, <1>2, Zenon DEF TimedOf
<1> QED BY <1>1, <1>3, TimedOther, Zenon

(***************************************************************************)
(* The application goes on without the module.                             *)
(***************************************************************************)
LEMMA TimedFails == ASSUME Inv, Timed, NEW p \in Apps, write_fails(p) PROVE Timed'
<1>a. pc \in [Apps -> AppPcs] /\ left \in [Apps -> Nat] /\ TimedOf(p)
  BY Zenon DEF Inv, TypeOK, AppType, Timed
<1>1. /\ pc[p] \in {"start", "user"} /\ tm' = tm /\ next_period' = next_period
      /\ lstate' = lstate /\ jiffies' = jiffies
      /\ \/ pc' = pc /\ left' = [left EXCEPT ![p] = @ - 1] /\ left[p] > 0
         \/ pc' = [pc EXCEPT ![p] = "done"] /\ left' = left
  BY Zenon DEF write_fails, Goto, record, linux
<1>2. \A q \in Apps : q # p => Same(q)
  BY <1>a, <1>1, Zenon DEF Same
<1>3. pc'[p] \in {"start", "user", "done"}
  BY <1>a, <1>1, Zenon
<1>4. left'[p] <= Times[p]
  <2>1. left[p] \in Nat /\ left[p] <= Times[p] /\ Times[p] \in Nat
    BY <1>a, AppsAssumption DEF TimedOf
  <2>2. left'[p] = left[p] \/ left'[p] = left[p] - 1
    BY <1>a, <1>1
  <2> QED BY <2>1, <2>2
<1>5. pc'[p] \notin Yielding /\ pc'[p] \notin Asleep
  BY <1>3, Zenon DEF Yielding, Asleep
<1>6. Ticks(p)' = Ticks(p)
  BY Zenon DEF Ticks
<1>7. TimedOf(p)'
  BY <1>a, <1>1, <1>4, <1>5, <1>6, Zenon DEF TimedOf
<1> QED BY <1>1, <1>2, <1>7, TimedOther, Zenon

(***************************************************************************)
(* Time passes.                                                            *)
(***************************************************************************)
LEMMA TimedTick == ASSUME Inv, Timed, Tick PROVE Timed'
<1>1. jiffies \in Nat /\ jiffies' = jiffies + 1 /\ next_period \in [Apps -> Nat] /\ pc' = pc /\ left' = left /\ lstate' = lstate /\ tm' = tm
      /\ next_period' = next_period
  BY Zenon DEF Inv, TypeOK, RecordType, Tick, record, linux, app
<1> SUFFICES ASSUME NEW p \in Apps PROVE TimedOf(p)'
  BY Zenon DEF Timed
<1>2. TimedOf(p)
  BY Zenon DEF Timed
<1>3. next_period[p] <= jiffies + Ticks(p) => next_period[p] <= (jiffies + 1) + Ticks(p)
  <2>1. next_period[p] \in Nat /\ Ticks(p) \in Nat
    BY <1>1, TicksNat
  <2> QED BY <1>1, <2>1
<1>4. Ticks(p)' = Ticks(p)
  BY Zenon DEF Ticks
<1> QED BY <1>1, <1>2, <1>3, <1>4, Zenon DEF TimedOf

(***************************************************************************)
(* Every step keeps the times.                                             *)
(***************************************************************************)
LEMMA TimedStep == ASSUME Inv, Timed, [Next]_vars PROVE Timed'
<1>a. /\ pc \in [Apps -> AppPcs] /\ lstate \in [Apps -> {"RUNNING", "UNINTERRUPTIBLE"}]
      /\ tm \in [Apps -> Nat] /\ HEAD \in Seq(Apps)
  BY Zenon DEF Inv, TypeOK, AppType, LinuxType, RecordType
<1>b. ASSUME jiffies' = jiffies, \A q \in Apps : Same(q) PROVE Timed'
  BY <1>b, TimedSame, Zenon DEF Timed
<1> USE DEF record, account, linux, app, thread, scan
<1>1. ASSUME mp2_init PROVE Timed'
  <2>1. /\ left' = left /\ next_period' = next_period /\ tm' = tm /\ jiffies' = jiffies
        /\ lstate' = lstate /\ pc' = pc
    BY <1>1, Zenon DEF mp2_init
  <2>2. \A q \in Apps : Same(q)
    BY <1>a, <2>1, Zenon DEF Same, Yielding, Asleep
  <2> QED BY <1>b, <2>1, <2>2, Zenon
<1>2. ASSUME proc_remove PROVE Timed'
  <2>1. /\ left' = left /\ next_period' = next_period /\ tm' = tm /\ jiffies' = jiffies
        /\ lstate' = lstate /\ pc' = pc
    BY <1>2, Zenon DEF proc_remove
  <2>2. \A q \in Apps : Same(q)
    BY <1>a, <2>1, Zenon DEF Same, Yielding, Asleep
  <2> QED BY <1>b, <2>1, <2>2, Zenon
<1>3. ASSUME freeall PROVE Timed'
  <2>1. /\ left' = left /\ next_period' = next_period /\ tm' = tm /\ jiffies' = jiffies
        /\ lstate' = lstate /\ pc' = pc
    BY <1>3, Zenon DEF freeall
  <2>2. \A q \in Apps : Same(q)
    BY <1>a, <2>1, Zenon DEF Same, Yielding, Asleep
  <2> QED BY <1>b, <2>1, <2>2, Zenon
<1>4. ASSUME free_next PROVE Timed'
  <2>1. /\ pc' = pc /\ tm' = [tm EXCEPT ![Head(HEAD)] = 0] /\ HEAD # <<>> /\ mod = "freeing"
        /\ next_period' = next_period /\ left' = left /\ lstate' = lstate /\ jiffies' = jiffies
    BY <1>4, Zenon DEF free_next, freeone
  <2>2. Head(HEAD) \in Apps
    BY ONLY <1>a, <2>1
  <2>3. PICK p \in Apps : p = Head(HEAD)
    BY <2>2, Zenon
  <2>4. tm' = [tm EXCEPT ![p] = 0]
    BY <2>1, <2>3, Zenon
  <2>5. ~InHandler(p)
    BY <2>1, Zenon DEF Inv, Lifecycle, Managed
  <2>6. pc'[p] \notin Yielding
    BY <2>1, <2>5, Zenon DEF Yielding, InHandler
  <2> QED BY <2>1, <2>4, <2>6, TimedClear, Zenon
<1>5. ASSUME kthread_stop PROVE Timed'
  <2>1. /\ left' = left /\ next_period' = next_period /\ tm' = tm /\ jiffies' = jiffies
        /\ lstate' = lstate /\ pc' = pc
    BY <1>5, Zenon DEF kthread_stop
  <2>2. \A q \in Apps : Same(q)
    BY <1>a, <2>1, Zenon DEF Same, Yielding, Asleep
  <2> QED BY <1>b, <2>1, <2>2, Zenon
<1>6. ASSUME cache_destroy PROVE Timed'
  <2>1. /\ left' = left /\ next_period' = next_period /\ tm' = tm /\ jiffies' = jiffies
        /\ lstate' = lstate /\ pc' = pc
    BY <1>6, Zenon DEF cache_destroy
  <2>2. \A q \in Apps : Same(q)
    BY <1>a, <2>1, Zenon DEF Same, Yielding, Asleep
  <2> QED BY <1>b, <2>1, <2>2, Zenon
<1>7. ASSUME dispatch_top PROVE Timed'
  <2>1. /\ left' = left /\ next_period' = next_period /\ tm' = tm /\ jiffies' = jiffies
        /\ lstate' = lstate /\ pc' = pc
    BY <1>7, Zenon DEF dispatch_top
  <2>2. \A q \in Apps : Same(q)
    BY <1>a, <2>1, Zenon DEF Same, Yielding, Asleep
  <2> QED BY <1>b, <2>1, <2>2, Zenon
<1>8. ASSUME dispatch_scan PROVE Timed'
  <2>1. /\ left' = left /\ next_period' = next_period /\ tm' = tm /\ jiffies' = jiffies
        /\ lstate' = lstate /\ pc' = pc
    BY <1>8, Zenon DEF dispatch_scan
  <2>2. \A q \in Apps : Same(q)
    BY <1>a, <2>1, Zenon DEF Same, Yielding, Asleep
  <2> QED BY <1>b, <2>1, <2>2, Zenon
<1>9. ASSUME dispatch_decide PROVE Timed'
  <2>1. /\ left' = left /\ next_period' = next_period /\ tm' = tm /\ jiffies' = jiffies
        /\ lstate' = lstate /\ pc' = pc
    BY <1>9, Zenon DEF dispatch_decide
  <2>2. \A q \in Apps : Same(q)
    BY <1>a, <2>1, Zenon DEF Same, Yielding, Asleep
  <2> QED BY <1>b, <2>1, <2>2, Zenon
<1>10. ASSUME set_old_task PROVE Timed'
  <2>1. /\ left' = left /\ next_period' = next_period /\ tm' = tm /\ jiffies' = jiffies
        /\ lstate' = lstate /\ pc' = pc
    BY <1>10, Zenon DEF set_old_task
  <2>2. \A q \in Apps : Same(q)
    BY <1>a, <2>1, Zenon DEF Same, Yielding, Asleep
  <2> QED BY <1>b, <2>1, <2>2, Zenon
<1>11. ASSUME new_wake PROVE Timed'
  <2>1. /\ left' = left /\ next_period' = next_period /\ tm' = tm /\ jiffies' = jiffies
        /\ (\A q \in Apps : lstate'[q] = "UNINTERRUPTIBLE" => lstate[q] = "UNINTERRUPTIBLE") /\ pc' = pc
    BY <1>a, <1>11, Zenon DEF new_wake
  <2>2. \A q \in Apps : Same(q)
    BY <1>a, <2>1, Zenon DEF Same, Yielding, Asleep
  <2> QED BY <1>b, <2>1, <2>2, Zenon
<1>12. ASSUME new_run PROVE Timed'
  <2>1. /\ left' = left /\ next_period' = next_period /\ tm' = tm /\ jiffies' = jiffies
        /\ lstate' = lstate /\ pc' = pc
    BY <1>12, Zenon DEF new_run
  <2>2. \A q \in Apps : Same(q)
    BY <1>a, <2>1, Zenon DEF Same, Yielding, Asleep
  <2> QED BY <1>b, <2>1, <2>2, Zenon
<1>13. ASSUME new_curr PROVE Timed'
  <2>1. /\ left' = left /\ next_period' = next_period /\ tm' = tm /\ jiffies' = jiffies
        /\ lstate' = lstate /\ pc' = pc
    BY <1>13, Zenon DEF new_curr
  <2>2. \A q \in Apps : Same(q)
    BY <1>a, <2>1, Zenon DEF Same, Yielding, Asleep
  <2> QED BY <1>b, <2>1, <2>2, Zenon
<1>14. ASSUME dispatch_sleep PROVE Timed'
  <2>1. /\ left' = left /\ next_period' = next_period /\ tm' = tm /\ jiffies' = jiffies
        /\ lstate' = lstate /\ pc' = pc
    BY <1>14, Zenon DEF dispatch_sleep
  <2>2. \A q \in Apps : Same(q)
    BY <1>a, <2>1, Zenon DEF Same, Yielding, Asleep
  <2> QED BY <1>b, <2>1, <2>2, Zenon
<1>15. ASSUME Tick PROVE Timed'
  BY <1>15, TimedTick, Zenon
<1>16. ASSUME NEW p \in Apps, reg_check(p) PROVE Timed'
  <2>1. /\ left' = left /\ next_period' = next_period /\ tm' = tm /\ jiffies' = jiffies
        /\ lstate' = lstate /\ pc[p] = "start" /\ (pc' = [pc EXCEPT ![p] = "reg_write"] \/ pc' = [pc EXCEPT ![p] = "check"])
    BY <1>16, Zenon DEF reg_check, Goto
  <2>2. \A q \in Apps : Same(q)
    BY <1>a, <2>1, Zenon DEF Same, Yielding, Asleep
  <2> QED BY <1>b, <2>1, <2>2, Zenon
<1>17. ASSUME NEW p \in Apps, reg_write(p) PROVE Timed'
  <2>1. /\ left' = left /\ next_period' = next_period /\ tm' = tm /\ jiffies' = jiffies
        /\ lstate' = lstate /\ pc[p] = "reg_write" /\ pc' = [pc EXCEPT ![p] = "reg_link"]
    BY <1>17, Zenon DEF reg_write, Goto
  <2>2. \A q \in Apps : Same(q)
    BY <1>a, <2>1, Zenon DEF Same, Yielding, Asleep
  <2> QED BY <1>b, <2>1, <2>2, Zenon
<1>18. ASSUME NEW p \in Apps, reg_link(p) PROVE Timed'
  <2>1. /\ left' = left /\ next_period' = next_period /\ tm' = tm /\ jiffies' = jiffies
        /\ lstate' = lstate /\ pc[p] = "reg_link" /\ pc' = [pc EXCEPT ![p] = "reg_fill"]
    BY <1>18, Zenon DEF reg_link, Goto
  <2>2. \A q \in Apps : Same(q)
    BY <1>a, <2>1, Zenon DEF Same, Yielding, Asleep
  <2> QED BY <1>b, <2>1, <2>2, Zenon
<1>19. ASSUME NEW p \in Apps, reg_fill(p) PROVE Timed'
  <2>1. /\ pc' = [pc EXCEPT ![p] = "check"] /\ tm' = [tm EXCEPT ![p] = 0]
        /\ next_period' = [next_period EXCEPT ![p] = 0] /\ left' = left /\ lstate' = lstate /\ jiffies' = jiffies
    BY <1>19, Zenon DEF reg_fill, Goto
  <2>2. pc'[p] \notin Yielding
    BY <1>a, <2>1, Zenon DEF Yielding
  <2> QED BY <2>1, <2>2, TimedClear, Zenon
<1>20. ASSUME NEW p \in Apps, check(p) PROVE Timed'
  <2>1. /\ left' = left /\ next_period' = next_period /\ tm' = tm /\ jiffies' = jiffies
        /\ lstate' = lstate /\ pc[p] = "check" /\ (pc' = [pc EXCEPT ![p] = "user"] \/ pc' = [pc EXCEPT ![p] = "done"])
    BY <1>20, Zenon DEF check, Goto
  <2>2. \A q \in Apps : Same(q)
    BY <1>a, <2>1, Zenon DEF Same, Yielding, Asleep
  <2> QED BY <1>b, <2>1, <2>2, Zenon
<1>21. ASSUME NEW p \in Apps, yield_entry(p) PROVE Timed'
  BY <1>21, TimedEntry, Zenon
<1>22. ASSUME NEW p \in Apps, sleep_curr(p) PROVE Timed'
  <2>1. /\ left' = left /\ next_period' = next_period /\ tm' = tm /\ jiffies' = jiffies
        /\ lstate' = lstate /\ pc[p] = "sleep_curr" /\ pc' = [pc EXCEPT ![p] = "sleep_state"]
    BY <1>22, Zenon DEF sleep_curr, Goto
  <2>2. \A q \in Apps : Same(q)
    BY <1>a, <2>1, Zenon DEF Same, Yielding, Asleep
  <2> QED BY <1>b, <2>1, <2>2, Zenon
<1>23. ASSUME NEW p \in Apps, sleep_state(p) PROVE Timed'
  <2>1. /\ left' = left /\ next_period' = next_period /\ tm' = tm /\ jiffies' = jiffies
        /\ lstate' = lstate /\ pc[p] = "sleep_state" /\ pc' = [pc EXCEPT ![p] = "sleep_block"]
    BY <1>23, Zenon DEF sleep_state, Goto
  <2>2. \A q \in Apps : Same(q)
    BY <1>a, <2>1, Zenon DEF Same, Yielding, Asleep
  <2> QED BY <1>b, <2>1, <2>2, Zenon
<1>24. ASSUME NEW p \in Apps, sleep_block(p) PROVE Timed'
  <2>1. /\ left' = left /\ next_period' = next_period /\ tm' = tm /\ jiffies' = jiffies
        /\ lstate' = [lstate EXCEPT ![p] = "UNINTERRUPTIBLE"] /\ pc[p] = "sleep_block" /\ pc' = [pc EXCEPT ![p] = "yield_arm"]
    BY <1>24, Zenon DEF sleep_block, Goto
  <2>2. \A q \in Apps : Same(q)
    BY <1>a, <2>1, Zenon DEF Same, Yielding, Asleep
  <2> QED BY <1>b, <2>1, <2>2, Zenon
<1>25. ASSUME NEW p \in Apps, yield_arm(p) PROVE Timed'
  BY <1>25, TimedArm, Zenon
<1>26. ASSUME NEW p \in Apps, yield_wake(p) PROVE Timed'
  <2>1. /\ left' = left /\ next_period' = next_period /\ tm' = tm /\ jiffies' = jiffies
        /\ lstate' = lstate /\ pc[p] = "yield_wake" /\ pc' = [pc EXCEPT ![p] = "schedule"]
    BY <1>26, Zenon DEF yield_wake, WakeDispatcher, Goto
  <2>2. \A q \in Apps : Same(q)
    BY <1>a, <2>1, Zenon DEF Same, Yielding, Asleep
  <2> QED BY <1>b, <2>1, <2>2, Zenon
<1>27. ASSUME NEW p \in Apps, resume(p) PROVE Timed'
  <2>1. /\ left' = left /\ next_period' = next_period /\ tm' = tm /\ jiffies' = jiffies
        /\ lstate' = lstate /\ pc[p] = "schedule" /\ pc' = [pc EXCEPT ![p] = "user"]
    BY <1>27, Zenon DEF resume, Goto
  <2>2. \A q \in Apps : Same(q)
    BY <1>a, <2>1, Zenon DEF Same, Yielding, Asleep
  <2> QED BY <1>b, <2>1, <2>2, Zenon
<1>28. ASSUME NEW p \in Apps, dereg_entry(p) PROVE Timed'
  <2>1. /\ left' = left /\ next_period' = next_period /\ tm' = tm /\ jiffies' = jiffies
        /\ lstate' = lstate /\ pc[p] = "user" /\ pc' = [pc EXCEPT ![p] = "dereg_read"]
    BY <1>28, Zenon DEF dereg_entry, Goto
  <2>2. \A q \in Apps : Same(q)
    BY <1>a, <2>1, Zenon DEF Same, Yielding, Asleep
  <2> QED BY <1>b, <2>1, <2>2, Zenon
<1>29. ASSUME NEW p \in Apps, dereg_read(p) PROVE Timed'
  <2>1. /\ left' = left /\ next_period' = next_period /\ tm' = tm /\ jiffies' = jiffies
        /\ lstate' = lstate /\ pc[p] = "dereg_read" /\ pc' = [pc EXCEPT ![p] = "dereg_write"]
    BY <1>29, Zenon DEF dereg_read, Goto
  <2>2. \A q \in Apps : Same(q)
    BY <1>a, <2>1, Zenon DEF Same, Yielding, Asleep
  <2> QED BY <1>b, <2>1, <2>2, Zenon
<1>30. ASSUME NEW p \in Apps, dereg_write(p) PROVE Timed'
  <2>1. /\ left' = left /\ next_period' = next_period /\ tm' = tm /\ jiffies' = jiffies
        /\ lstate' = lstate /\ pc[p] = "dereg_write" /\ pc' = [pc EXCEPT ![p] = "dereg_free"]
    BY <1>30, Zenon DEF dereg_write, Goto
  <2>2. \A q \in Apps : Same(q)
    BY <1>a, <2>1, Zenon DEF Same, Yielding, Asleep
  <2> QED BY <1>b, <2>1, <2>2, Zenon
<1>31. ASSUME NEW p \in Apps, dereg_free(p) PROVE Timed'
  <2>1. /\ pc' = [pc EXCEPT ![p] = "dereg_wake"] /\ tm' = [tm EXCEPT ![p] = 0]
        /\ next_period' = next_period /\ left' = left /\ lstate' = lstate /\ jiffies' = jiffies
    BY <1>31, Zenon DEF dereg_free, freeone, Goto
  <2>2. pc'[p] \notin Yielding
    BY <1>a, <2>1, Zenon DEF Yielding
  <2> QED BY <2>1, <2>2, TimedClear, Zenon
<1>32. ASSUME NEW p \in Apps, dereg_wake(p) PROVE Timed'
  <2>1. /\ left' = left /\ next_period' = next_period /\ tm' = tm /\ jiffies' = jiffies
        /\ lstate' = lstate /\ pc[p] = "dereg_wake" /\ pc' = [pc EXCEPT ![p] = "done"]
    BY <1>32, Zenon DEF dereg_wake, WakeDispatcher, Goto
  <2>2. \A q \in Apps : Same(q)
    BY <1>a, <2>1, Zenon DEF Same, Yielding, Asleep
  <2> QED BY <1>b, <2>1, <2>2, Zenon
<1>33. ASSUME NEW p \in Apps, write_fails(p) PROVE Timed'
  BY <1>33, TimedFails, Zenon
<1>34. ASSUME NEW p \in Apps, tm_callback(p) PROVE Timed'
  BY <1>34, TimedFires, Zenon
<1>35. CASE UNCHANGED vars
  <2>1. jiffies' = jiffies /\ \A q \in Apps : Same(q)
    BY <1>35, Zenon DEF vars, Same
  <2> QED BY <1>b, <2>1, Zenon
<1> QED BY <1>1, <1>2, <1>3, <1>4, <1>5, <1>6, <1>7, <1>8, <1>9, <1>10, <1>11,
    <1>12, <1>13, <1>14, <1>15, <1>16, <1>17, <1>18, <1>19, <1>20, <1>21,
    <1>22, <1>23, <1>24, <1>25, <1>26, <1>27, <1>28, <1>29, <1>30, <1>31,
    <1>32, <1>33, <1>34, <1>35, Zenon
    DEF Next, userapp, dispatch_fn, mp2_exit


\* Jiffies are counted as the code counts them: a period in ticks is not
\* shorter than the period in milliseconds.
FullTicks == \A p \in Apps : Ticks(p) * 1000 >= Period[p] * HZ

(***************************************************************************)
(* Only the dispatcher wakes a sleeping process, and one whose timer has   *)
(* expired.                                                                *)
(***************************************************************************)
LEMMA WokenInTime ==
  ASSUME Inv, Timed, [Next]_vars, NEW p \in Apps,
         lstate[p] = "UNINTERRUPTIBLE", lstate'[p] = "RUNNING"
  PROVE  left[p] < Times[p] /\ next_period[p] <= jiffies + Ticks(p)
<1>1. lstate' # lstate
  BY Zenon
<1>2. new_wake \/ \E q \in Apps : sleep_block(q)
  BY <1>1, ZenonT(60) DEF Next, userapp, dispatch_fn, mp2_exit, vars, mp2_init, proc_remove, freeall,
     free_next, kthread_stop, cache_destroy, dispatch_top, dispatch_scan, dispatch_decide,
     set_old_task, new_run, new_curr, dispatch_sleep, Tick, reg_check, reg_write, reg_link,
     reg_fill, check, yield_entry, sleep_curr, sleep_state, yield_arm, yield_wake,
     resume, dereg_entry, dereg_read, dereg_write, dereg_free, dereg_wake, write_fails,
     tm_callback, linux
<1>3. lstate \in [Apps -> {"RUNNING", "UNINTERRUPTIBLE"}] /\ FieldsOf(p) /\ TimedOf(p)
  BY Zenon DEF Inv, TypeOK, LinuxType, Fields, Timed
<1>4. ASSUME NEW q \in Apps, sleep_block(q) PROVE FALSE
  <2>1. lstate' = [lstate EXCEPT ![q] = "UNINTERRUPTIBLE"]
    BY <1>4, Zenon DEF sleep_block
  <2> QED BY <1>3, <2>1, Zenon
<1>5. dpc = "new_wake" /\ lstate' = [lstate EXCEPT ![next] = "RUNNING"]
  BY <1>2, <1>4, Zenon DEF new_wake
<1>6. p = next
  BY <1>3, <1>5, Zenon
<1>7. state[p] # SLEEPING
  BY <1>5, <1>6, Zenon DEF Inv, Choice, Choosing
<1>8. pc[p] \in Asleep /\ tm[p] = 0
  BY <1>3, <1>7, Zenon DEF FieldsOf, Asleep
<1>9. pc[p] \in Yielding
  BY <1>8, Zenon DEF Asleep, Yielding
<1> QED BY <1>3, <1>8, <1>9, Zenon DEF TimedOf

(***************************************************************************)
(* No job before its period (mp2.c:226-243, 364-384): on one processor,    *)
(* and when a period is at least as long in jiffies as in milliseconds     *)
(* (jiffies counted at the rate of the kernel's HZ, no fraction cut off),  *)
(* a process that sleeps in its yield is woken only after its timer, hence *)
(* not before the period of its next job has begun.                        *)
(***************************************************************************)
THEOREM WakesOnTime == ASSUME ~Preemptible, FullTicks PROVE Spec => NotBeforePeriod
<1> DEFINE Due(p) == (jiffies - Activation(p)) * 1000 >= JobsBefore(p) * Period[p] * HZ
           OnTime == \A p \in Apps : lstate[p] = "UNINTERRUPTIBLE" /\ lstate'[p] = "RUNNING"
                       => Due(p)
<1>1. Init => Timed
  <2> SUFFICES ASSUME Init, NEW p \in Apps PROVE TimedOf(p)
    BY Zenon DEF Timed
  <2>1. left[p] = Times[p] /\ Times[p] \in Nat /\ pc[p] = "start" /\ tm[p] = 0
    BY AppsAssumption, Zenon DEF Init
  <2>2. left[p] <= Times[p]
    BY <2>1
  <2> QED BY <2>1, <2>2, Zenon DEF TimedOf, Yielding, Asleep
<1>2. Inv /\ Timed /\ [Next]_vars => Timed'
  BY TimedStep, Zenon
<1>3. Inv /\ Timed /\ [Next]_vars => OnTime
  <2> SUFFICES ASSUME Inv, Timed, [Next]_vars, NEW p \in Apps,
                      lstate[p] = "UNINTERRUPTIBLE", lstate'[p] = "RUNNING"
               PROVE  Due(p)
    <3> HIDE DEF Due
    <3> QED BY Zenon
  <2>1. left[p] < Times[p] /\ next_period[p] <= jiffies + Ticks(p)
    BY WokenInTime, Zenon
  <2>2. /\ left[p] \in Nat /\ Times[p] \in Nat /\ next_period[p] \in Nat /\ jiffies \in Nat
        /\ Period[p] \in Nat /\ HZ \in Nat
    BY AppsAssumption, PlatformAssumption, Zenon DEF Inv, TypeOK, AppType, RecordType
  <2>3. PICK T \in Nat : T = Ticks(p)
    BY TicksNat, Zenon
  <2>4. PICK k \in Nat : k = Times[p] - left[p] - 1
    <3>1. Times[p] - left[p] - 1 \in Nat
      BY <2>1, <2>2
    <3> QED BY <3>1, Zenon
  <2>5. PICK f \in Nat : f = Period[p] * HZ
    BY <2>2, ProdNat, Zenon
  <2>6. f <= T * 1000
    <3>1. Ticks(p) * 1000 >= Period[p] * HZ
      BY DEF FullTicks
    <3> QED BY <2>3, <2>5, <3>1
  <2>7. Times[p] - left[p] = k + 1
    BY <2>2, <2>4
  <2>8. Activation(p) = next_period[p] - (k + 1) * T /\ JobsBefore(p) = k
    BY <2>3, <2>4, <2>7, Zenon DEF Activation, JobsBefore
  <2>9. (k + 1) * T = k * T + T /\ k * T \in Nat /\ k * f \in Nat
    BY ProdNat
  <2>10. jiffies - Activation(p) >= k * T
    <3> DEFINE x == k * T
    <3> HIDE DEF x
    <3>1. x \in Nat /\ Activation(p) = next_period[p] - (x + T)
      BY <2>8, <2>9, Zenon DEF x
    <3>2. jiffies - Activation(p) >= x
      BY <2>1, <2>2, <2>3, <3>1
    <3> QED BY <3>2, Zenon DEF x
  <2>11. k * f <= k * (T * 1000)
    BY <2>6
  <2>12. k * (T * 1000) = (k * T) * 1000
    OBVIOUS
  <2>13. JobsBefore(p) * Period[p] * HZ = k * f
    <3>1. (k * Period[p]) * HZ = k * (Period[p] * HZ)
      BY <2>2
    <3> QED BY <2>5, <2>8, <3>1, Zenon
  <2>14. (jiffies - Activation(p)) * 1000 >= k * f
    <3> DEFINE x == k * T
               y == k * f
               z == jiffies - Activation(p)
    <3>1. z \in Int
      <4>1. Activation(p) \in Int
        BY <2>2, <2>8, <2>9
      <4> QED BY <2>2, <4>1
    <3> HIDE DEF x, y, z
    <3>2. x \in Nat /\ y \in Nat /\ y <= x * 1000 /\ z >= x
      BY <2>9, <2>10, <2>11, <2>12 DEF x, y, z
    <3>3. z * 1000 >= y
      BY <3>1, <3>2
    <3> QED BY <3>3 DEF y, z
  <2> QED BY <2>13, <2>14
<1>4. NotBeforePeriod <=> [][OnTime]_vars
  BY Zenon DEF NotBeforePeriod
<1> QED BY <1>1, <1>2, <1>3, <1>4, Invariance, PTL DEF Spec
=============================================================================
