# Verification of the CS 423 kernel modules

TLA+ models of the Linux kernel modules in this repository, TLC instances that
check them, and TLAPS proofs about the scheduler and its admission control, the
CPU-time monitor, the page-fault profiler and the access control module.
`PROJECT.json` holds the map from definitions to source lines, the runs, the
mutants, the findings, the hazards and the theorems.

## 1. The system

| Part | Source | State | What runs concurrently |
|---|---|---|---|
| MP1, CPU-time monitor | `MP1/mp1.c`, `mp1_given.h`, `userapp.c` | list of pids with times, `size`, timer, workqueue, spinlock | write and read handlers, timer interrupt, workers, rmmod |
| MP2, rate-monotonic scheduler | `MP2/mp2.c`, `mp2_given.h`, `userapp.c` | task list, `curr_tsk`, utilisation fraction, one timer per task, dispatcher thread | write handlers, timer interrupts, dispatcher, rmmod |
| MP3, page-fault profiler | `MP3/mp3.c`, `mp3_given.h`, `work.c`, `monitor.c` | list of pids with counters, delayed work, sample buffer shared by mmap | write handlers, work callback, page faults, monitor process, rmmod |
| MP4, access control | `MP4/mp4.c`, `mp4_given.h`, `test.perm` | labels of credentials and inodes | LSM hooks in every process, delayed release of credentials, relabelling |

The parts do not interact with each other; each module interacts with its
applications through `/proc` (MP3 also through a mapped device), MP4 with every
process through the hooks the kernel calls.

MP2 is the core: its locks are macros that expand to nothing
(`LOCK_FREE`, mp2.c:16-23), so its correctness rests on the interleavings that
the processor allows. It was designed "for a Single-Core Processor" (MP2.pdf).

## 2. Modules

| Module | Models |
|---|---|
| `LinuxList` | the kernel's linked lists, as MP1, MP2 and MP3 use them |
| `Admission` | the arithmetic of `admission_control`, with word sizes |
| `AdmissionControl` | the account over any sequence of calls, each of them one step |
| `RMScheduler` | mp2.c with its applications |
| `RateMonotonic` | what a rate-monotonic scheduler promises, abstractly |
| `RMRefinement` | the mappings under which `RMScheduler` implements it and the account |
| `CpuMonitor` | mp1.c with its applications |
| `Profiler` | mp3.c with `work` and `monitor` |
| `AccessControl` | mp4.c with the kernel operations that call its hooks |
| `MCAdmission`, `MCScheduler`, `MCCpuMonitor`, `MCProfiler`, `MCAccessControl` | instances for TLC |
| `DataFacts` | lemmas about lists, folds and sums over finite sets |
| `AdmissionFacts`, `AdmissionProofs` | proofs about the account |
| `RMSchedulerInvariant` | the inductive invariant of the scheduler, and of its timers |
| `RMSchedulerProofs` | what follows: safety, the two refinements, the load |
| `CpuMonitorProofs`, `ProfilerProofs`, `AccessControlProofs` | proofs about MP1, MP3 and MP4 |

Operators named `<action>_<something>` directly before an action are plausible
faulty versions of it; each property of each passing run is violated by one of
them.

### RMScheduler

A step is one access to shared memory. `cpu` says who runs module code:

* `Preemptible = FALSE`: one processor, non-preemptible kernel. A handler, the
  dispatcher or rmmod keeps the processor until it sleeps or returns. Timers
  still fire between any two steps.
* `Preemptible = TRUE`: everything interleaves.

| Code | Actions |
|---|---|
| `reg_entry` | `reg_check` (read the account), `reg_write`, `reg_link` (after an allocation that may sleep), `reg_fill` |
| `check` of userapp.c, `myread` | `check` |
| `yield_entry`, `set_task_sleep` | `yield_entry`, `sleep_curr`, `sleep_state`, `sleep_block`, `yield_arm`, `yield_wake`, `resume` |
| `dereg_entry`, `freeone` | `dereg_entry`, `dereg_read`, `dereg_write`, `dereg_free`, `dereg_wake` |
| `dispatch_fn`, `set_old_task`, `set_new_task` | `dispatch_top` ... `dispatch_sleep` |
| `tm_callback` | `tm_callback`; `Tick` is the clock |
| `mp2_exit`, `freeall` | `proc_remove`, `freeall`, `free_next`, `kthread_stop`, `cache_destroy` |

A record is named by its owner and is allocated while it is linked; a record
just linked holds an undefined state. `proc_remove` refuses new calls and waits
for running handlers, as the kernel does. Registration, yields and
deregistration come in the order of `userapp.c`: one first yield, `Times - 1`
more, then deregistration.

### RateMonotonic and RMRefinement

`RateMonotonic` has four variables: the registered tasks, those with a job to run,
those whose process is blocked in its yield, and the task chosen last. A task is
chosen only if no process that could run has a shorter period; a blocked process
goes on only when its task is chosen, after a release; the module goes only when
nobody is blocked. In mp2.c each of these takes several steps, and takes effect at
one of them:

| `RateMonotonic` | takes effect in |
|---|---|
| `Join` | `reg_fill`, when the record is complete (mp2.c:179) |
| `Release` | `tm_callback`, or the first yield |
| `Yield` | `sleep_curr`, where `curr_tsk` is cleared (mp2.c:204); the state, the block and the timer follow |
| `Choose` | `new_wake` (mp2.c:329); `curr_tsk` follows two steps later |
| `Leave` | `dereg_entry` (mp2.c:258); the record goes three steps later |
| `Stop` | the beginning of `freeall` |

All other steps are stutters. On several processors the mapping does not hold:
a task is in the list before it has joined (run `smp_memory`), and section 3 has
other reasons.

A second mapping is to `AdmissionControl!Atomic`, the account without the history
variables that its properties use. There a registration, a deregistration or a
reload of the module is one step; in `RMScheduler` a handler reads the account in
one step (`reg_check`, `dereg_read`) and writes it in another. A registration takes
effect in `reg_write`, before its record is linked, a deregistration in
`dereg_write`, before its record is freed, a reload in `freeall`, after which
nobody looks at the account until `mp2_init` clears it; a request that is refused
changes nothing. `ImplementsAdmission` says that the account is never written from
a value that is out of date, which is what the removed lock was for.

### CpuMonitor and Profiler

Both are modelled on several processors, where their spinlocks are real. What a
lock holder does in one step nobody can see in parts; unlocked accesses
(`size` at mp1.c:47, `BUFFER_FILLED_UP` at mp3.c:88, the clearing of counters at
mp3_given.h:40, every element the monitor reads) are steps of their own.
`del_timer_sync`, `destroy_workqueue` and `cancel_delayed_work_sync` wait for
running callbacks. An open device keeps MP3 loaded. In `Profiler` a sample
element is a number that tells its sample and its place, so that mixed or stale
rows can be recognised; the minor fault count stands for all the counters; a
fresh entry holds an undefined count, and the buffer what `vmalloc` returned
(`Garbage`). As in `MP3/test.sh`, the monitor runs when the processes of an
experiment have ended and before the next ones begin; it may run with or without
new samples, any number of times, and nothing else about it depends on what was
recorded. A process may be started before the module is loaded: its registration
fails, and the unregistration at its end is the one that finds no entry
(mp3.c:205-208). `reg_no_task` is the other early return, for a process that was
killed while the shell that `work.c` starts was writing its pid (mp3.c:183).

`recorded` and `listed` are history: the samples that no monitor has read and
none has overwritten, and the processes that have registered.

### AccessControl

Every process interleaves with every other and with relabelling. A hook has a step
for each dentry or buffer it takes; every early return is an alternative with the
`dput` and `kfree` calls of its own exit path, and every allocation may fail.

| Code | Actions |
|---|---|
| `mp4_cred_prepare`, `mp4_cred_alloc_blank` | operators of `prepare_creds` (fork, exec, setuid, blank credentials), with their failure |
| `mp4_cred_free` | `mp4_cred_free`, some time after the last user is gone |
| `mp4_inode_permission`, `mp4_has_permission`, `mp4_should_skip_path` | `mp4_inode_permission` (up to `d_find_alias`), `check_mask` (up to the allocation of `path_buff`), `check_path` (up to the call of `get_inode_sid`), `decide` after it |
| `get_inode_sid` | `get_inode_sid` (up to `d_find_alias`), `alloc_ctx`, `getxattr` (conversion, return to either caller) |
| `mp4_bprm_set_creds` | `mp4_bprm_set_creds`, then `get_inode_sid`; the label is written in `Found` |
| `mp4_inode_init_security` | operator of `create` |
| `test.perm` | `setfattr` |

`fork`, `clone_thread`, `open`, `open_exec`, `commit_creds`, `abort_creds` and `exit`
are the kernel around the hooks: threads share a credential, an exec checks the
program, then sets credentials, may do both again for an interpreter, and may
still fail afterwards. Masks are sets of bits, labels the texts of the attribute
(one text stands for all unknown ones), a path is one that is skipped or not.
`ran` and `hit` are history: what the process and its ancestors have executed.

## 3. Runs

Passing runs:

| Run | Instance | Shows |
|---|---|---|
| `admission` | 3 tasks, periods 2, 3, 5, 7 calls, reloads among them | the fraction is the exact sum of C/P, bounded by 0.693, and decides each request exactly |
| `scheduler` | 3 tasks of which 2 fit, 3, 2 and 2 jobs, 4 jiffies | no dangling record, RUNNING = `curr_tsk`, sleepers can be woken and not before their period, only the current task has real-time priority, preemption by priority, the admission bound, the inductive invariant of the proofs |
| `progress` | 2 tasks, 2 jobs each, 5 jiffies, fair | mp2.c implements `RateMonotonic` (with the invariant that takes) and the atomic account, removal ends, released jobs that the dispatcher will look for run |
| `monitor` | 2 processes, 2 workers, fair | cursors, membership, times, clean removal, the inductive invariant; dead entries go, times catch up, an undisturbed removal ends |
| `profiler` | 2 processes, 3 samples, monitor reads 2, fair | the buffer holds the samples whole (`Contents`) and they are read back in order, whatever was in it before; no fault is counted twice, registered processes are sampled |
| `profiler_crash` | 2 processes that may die, 2 samples, monitor reads 1 | lock holder, life of the work, buffer bounds, the inductive invariant |
| `access` | 2 processes, 3 credentials, 3 blocks, a skipped program and a file, each unlabelled or a target | ownership of label blocks, labels follow the programs executed, references balance at each exit of the hooks, decisions are those documented, the inductive invariant |

Violation runs (each with a finding in `PROJECT.json`):

| Run | Shows |
|---|---|
| `admission_wrap` | the fraction is never reduced and wraps |
| `lost_wakeup` | a timer between scan and sleep wakes nobody (one processor) |
| `smp_memory` | on several processors the dispatcher's scan reaches a record that is linked and not filled in: `reg_entry` sets the fields (mp2.c:169-174) after the section in which it links the record (160-168), so it would also with real locks |
| `profiler_cancel` | a write that never returns |
| `profiler_wide_long` | 8-byte longs in a buffer made for 4-byte ones |

Other limits of the code, which the models contain and the passing runs exclude
by a constant or by the statement of the property:

* MP2 on several processors (`Preemptible = TRUE`): two registrations read the
  same account and both get in (mp2.c:145); a process falls asleep as `curr_tsk`,
  which the dispatcher never wakes (204, 381); `kthread_stop` comes between the
  test at 352 and the sleep at 391.
* `HZ` other than `USER_HZ`: periods converted with `USER_HZ` (mp2.c:229, 242) are too
  short in jiffies and jobs are released early.
* The first yield does not block (mp2.c:246) although 174 says it waits a round.
* Unregistering a pid that is not in MP3's list returns with the lock held
  (mp3.c:208), and every later call waits. The runs contain it: `LockHasHolder`
  says that only a process that has never registered does that, and
  `RegisteredIsSampled` and `CallsReturn` end where it has happened (`Left`).
* A monitor that finds no new samples prints what else is in the buffer: what
  `vmalloc` returned, or samples behind the last element an earlier monitor has
  read. `SamplesReadBack` is about monitors started with unread samples.
* `Crashing`: the counters left in the entry of a dead process are added again in
  every sample (mp3.c:102), and sampling goes on while the monitor reads.
* A fault between the reading and the clearing of its counter is in no sample
  (mp3_given.h:35, 41): `NotOvercounted` is one-sided.
* `BUFFER_FILLED_UP` is never reset: after one full buffer nothing is sampled.
* `mp1_exit` holds the lock while `proc_remove` and `destroy_workqueue` wait
  (mp1.c:240): a handler or a work item that waits for the lock then is waited for
  for ever. `QuietUnload` states the case in which removal ends. `mp3_exit` does
  the same, and does not free the entries that are left.
* `mp4_inode_init_security` returns `-EOPNOTSUPP` on every path (mp4.c:258), so a
  created file has no label; mp4.pdf says that inodes "created by a target process"
  should "always be labeled with the read-write attribute". No property is stated.
* Code and `mp4_given.h` differ on two labels: on "exec" every mask is granted
  (mp4.c:303), on "write-only" none (mp4.c:332). `DecidesAsDocumented` leaves out
  the direction that fails.
* A label that cannot be read at exec or at an access counts as `MP4_NO_ACCESS`
  (mp4.c:36-54).

The comment at mp2.c:119 ("return 1 for possible, return 0 for impossible") is
the other way round: the code returns 0 for an admitted task, and the model
follows the code.

### Bounds

* `MaxJiffies`, `LastStart`: applications activate in the first jiffies, in every
  phase to each other; a task of period 1 that starts by then still has all its
  releases, those of period 2 their first. Time stops there, nothing else does.
* Periods of 10, 20 and 20 ms (`scheduler`) and of 20 and 30 ms (`progress`) are
  1 to 3 jiffies: releases coincide and alternate, and two tasks of the same
  period compete. The loads lie on both sides of 0.693, as in the test cases of
  `MP2/test.sh`.
* `MaxCalls = 7` in `admission` lets every task come, go and come again; in
  `admission_wrap` words are small so that wrapping takes few calls (with 64-bit
  words it takes more of the same calls).
* Two workers and two queued items are the least with which walks overlap.
* In `access` two processes are enough for a parent and a child or for two threads
  of one credential, and the third credential and block for the one in
  preparation or waiting to be freed; allocations may fail at any time anyway.
  Credentials and blocks are symmetric. The instance has few labels and masks
  because `DecidesAsDocumented` quantifies over all of them in every state in
  which a decision is due.
* The profiler's buffer holds 2 or 3 samples and the monitor reads one less: full
  buffer, wrap-around and shorter experiments all occur. `MCGarbage` is one buffer
  in which undefined elements and terminators alternate, so that a monitor that
  finds no samples skips some and prints others.

Deadlock is not checked: applications end, the module is removed, and nobody has
to load it. That calls return and removal ends is stated as liveness instead.

### Fairness

Weak fairness of the dispatcher, the handlers that have begun, the applications'
jobs (MP2), timers, time, workers, and rmmod once begun. Runnable threads get the
processor (Linux leaves time to normal threads next to real-time ones), timers
expire and spinlocks are granted. In MP1 an allocation for a work item succeeds
again and again. Nobody has to load or remove a module; MP1 and MP3 processes
need not compute, exit or unregister.

## 4. Proofs

Each theorem holds for every value of the constants that the named assumptions
allow; a condition beyond them is an `ASSUME` or a hypothesis of the theorem.
The type invariants are theorems too (`TypesKept`; that of the scheduler is not
checked by itself but as a conjunct of `Inv`).

### Lists, folds and sums

The prover cannot instantiate the induction theorems of its library. `DataFacts`
argues with a least counterexample instead: `Least` (of a set of naturals) and
`Smallest` (of a family of subsets of a finite set) follow from the library's facts
about finite sets. `FoldExists` shows with `Least` that the function a fold over
subsets defines exists; `SumRec`, `SumRemove`, `SumUpdate`, `SumScale` and `SumNat`
say what `SumFunctionOnSet` does when an element goes, comes or changes. The other
half says what appending to a list and `list_del` do to its entries and places.

### Admission control

For every finite set of tasks, positive periods, computation times and word sizes:

* `AdmissionInvariant` and `TypesKept`: `TypeOK` and `RecordedBound`. `Exact` shows that within
  range the words hold the exact products, `CallBound` that one call keeps the
  bound.
* `AccountIsExact`: `Accounted`, the fraction equals the sum of C/P over the
  registered tasks until a product wraps. `Records(n, d, v, u)` says that n/d and
  v/u are the same number; `AdmitExact` and `ReleaseExact` say that a call keeps
  that when v/u is the sum with one task more or less (`UseAdd`), the reset of an
  empty account included (mp2.c:126).
* `DecisionsAreExact`: `DecisionExact`, a request gets in exactly if it fits.
* `UtilizationBounded`: until a product wraps, `UtilizationBound`. After one it
  does not hold: that is the run `admission_wrap`.

### The scheduler

`Invariance` (RMSchedulerInvariant) and, from it, `NothingDangles`, `CurrentRuns`,
`SleepersWake`, `OneAtRTPriority` and `Preemption` (RMSchedulerProofs): for
`~Preemptible` and any finite set of applications, periods, job counts and tick
rates, `Inv` is an invariant, and with it `NoDangling`, `RunningIsCurrent`,
`NoOrphanSleeper`, `OnlyCurrentAtRTPriority` and the action property
`PreemptsByPriority`. Assumptions: `AppsAssumption` (names are distinct, periods
positive and below `INT_MAX`), `PlatformAssumption`, `WidthAssumption`.

None of these properties is inductive: that `curr_tsk` is not freed depends on
where every handler and the dispatcher are. `Inv` says it:

* `Exclusive`: at most one process is in the middle of module code, the one that
  `cpu` names. This is where one processor is used.
* `Lifecycle`: handlers and passes of the dispatcher exist only before `freeall`.
* `Membership`: which records are linked, by what their owners are doing.
* `Fields`: state, timer and Linux state of a record, by what its owner is doing.
* `Current`: `curr_tsk` is linked and awake; RUNNING and real-time tasks are current.
* `Choice`, `Scan`: what the dispatcher has in hand between scan and sleep, and
  that no RUNNING task seen so far has a shorter period than the best one.

Each conjunct has a lemma with one step per action, `TypeOKStep` to `ScanStep`.

`BestChoice` and `Refinement`: on one processor `RMScheduler!Spec` implies
`ImplementsRateMonotonic`, for any number of tasks. It takes two facts beyond `Inv`: `Awake`, a process in the middle of a job has a task
that is not SLEEPING (so that a yield is a step of a released task), and `Best`,
the shortest period found so far is not longer than that of any process behind the
cursor that could run. `Best` survives the timers that fire during the scan only
because a task made READY by a timer is one whose process is still blocked: such
tasks are the ones `RateMonotonic!Choose` does not compare with.

`LoadBounded`: on one processor `Spec /\ []NoWrap` implies `[]UtilizationBound`,
where `NoWrap` says that no product of a call wraps. The account and the list
disagree while a task is admitted and its record not yet linked, and while its share
is returned and its record not yet freed. `LoadInv` therefore says that the account
is the exact load of `Charged`, the linked and granted tasks without the returned
ones, and that the linked and the granted tasks together are within the bound. Tasks
that go keep the rest within it (`BoundedPart`, with `Smallest`).

`ReadsStayTrue` is what both this and the next theorem rest on: on one processor
`Reads`, that what a handler has read of the account is still true when it writes
(`Granting`, `Returning`). It uses `Exclusive` through `Alone`: while one process runs
module code nobody else is between reading and writing. `StepKinds` sorts the steps
once for all these proofs: a quiet step touches neither the list nor the account.

`AdmissionIsAtomic`: on one processor `Spec` implies `ImplementsAdmission`, for every
task set and word size and without `NoWrap`. `ChargedGrant`, `ChargedReturn`,
`ChargedLooks`, `ChargedInit` and `ChargedQuiet` say how each kind of step changes
`Charged`; `GrantIsRegistration` and `ReturnIsDeregistration` turn the two writes into
calls of `AdmissionControl`.

`WakesOnTime` (RMSchedulerInvariant): on one processor `NotBeforePeriod`, if
`FullTicks`: a period is not shorter in jiffies than in milliseconds. That is so
when `HZ` is `USER_HZ` and periods are whole jiffies; otherwise the property fails
(section 3). `Timed` says that a pending timer expires one period before
`next_period`, and that a process asleep without a timer is one whose timer has
expired; `WokenInTime`, that only `new_wake` wakes a process, and by `Choice` and
`Fields` none with a timer pending. Both hypotheses, `NoWrap` and `FullTicks`, hold
in the instance of `scheduler`.

### The CPU-time monitor

`Invariance` (CpuMonitorProofs), for any sets of processes and workers and any
bounds, from `MonitorAssumption` (names are distinct). `Inv` has five conjuncts
besides the types: `Locking` (the lock is held by the worker that walks or by
rmmod, from its stage on), `Entries` (each registered process is in the list once,
and counted), `Cursor` (a walk is at an entry and has saved its successor in the
list as it is now), `Stages` (what has ended by which stage of removal) and
`Times`. `WalkGoesOn` is the core: when the entry a walk is at is removed, the one
it has saved is still in the list and has the same successor as before. From `Inv`
follow `WalksStayInList` (`CursorInList`), `RegisteredAreKept` (`KeptWhileAlive`),
`UnloadLeavesNothing` (`NothingLeft`) and `UsageIsMonotone` (the action property
`UsageFollows`).

### The page-fault profiler

`Invariance` (ProfilerProofs), for any finite set of processes, any number of faults
and any size of the buffer, and smaller part of it that the monitor reads, that are
multiples of a sample's four elements, and any contents of the buffer at load
(`ProfilerAssumption`). Processes may end without unregistering and may unregister
without having registered. `Inv` has three conjuncts besides the types: `Locking`
(who has the lock, and what each stage of the removal has left), `Membership` (who is
in the list, by what it is doing) and `Filling` (where the callback is in the list and
in the buffer, and that an empty list has an idle work). From it follow

* `WorkNeedsTasks` (`WorkOnlyWithTasks`) and `LockIsHeld` (`LockHasHolder`): the path
  at mp3.c:205-208 is the only one that leaves the lock behind, because `Membership`
  has every process that has registered in the list until it unregisters;
* `WritesInBounds` (`InBounds`), if `VM_ELEMENT_SIZE <= VM_ELEMENTS`; the other case
  is the run `profiler_wide_long`;
* `FaultsCountedOnce` (`NotOvercounted`), if `~Crashing`: the sum of the counters
  that are still to be sampled changes by what one step adds or takes
  (`RestChanges`, from `SumUpdate`);
* `SamplesStayWhole` (`Contents`) and from it `SamplesAreReadBack`
  (`SamplesReadBack`), if `~Crashing` and the buffer is large enough. `Contents` is
  inductive together with `Inv`: `Stored` (the recorded samples are whole and
  terminated, and so is what is written of the next one) and `Reading` (the elements
  before the monitor's cursor are printed and erased, those behind it are still the
  recorded ones, and nobody writes).

### The access control module

`Invariance` (AccessControlProofs), for any sets of processes, credentials, blocks
and files, from `ACAssumption`; from it `BlocksAreOwned` (`BlobsOwned`),
`LabelsFollow` (`LabelFollowsExec`), `ReferencesBalance` (`RefsBalanced`) and
`DecidesRight` (`DecidesAsDocumented`). `BlobsOwned` and `LabelFollowsExec` are
conjuncts of `Inv`; they are not inductive without `Control` (what a process is
doing agrees with its credentials), `Private` (a credential in preparation has one
user), `NewLabels` (its block already holds the label the process will have) and
`Subject` (the label read before `get_inode_sid` sleeps is still right after it).
`Refs` says how many dentries and buffers a process holds by how far its hooks have
got, those of `mp4_inode_permission` and of the `get_inode_sid` it has called counted
apart. `ReturnRefs` and `FoundRefs` say that each exit of the one and of the other
puts back what was taken on the way to it, `TakenRefs` what the steps between take;
`HeldTypes` uses the same counts to show that nothing is put back that is not held.

### What is only model-checked

Liveness (the prover has no fairness): `UnloadCompletes`, `SeenJobRuns`,
`DeadAreDropped`, `UsageCatchesUp`, `QuietUnload`, `RegisteredIsSampled`. All safety
properties of the passing runs are proved, under the conditions named above.

## 5. Not modelled

* `MP2/mp2_dump.c` (a backup that is not built); `MP3/test.c` and the plots.
* Parsing and printing of proc text; page tables (`mmap_callback`,
  `vm_reserved`) and the unused `myread` of MP3; failing allocations in MP1-MP3
  (except the work item of MP1); writes during insmod; pids that never registered
  calling yield (`userapp.c` checks first).
* Processes of MP2 that die without deregistering: their records keep a pointer to
  a `task_struct` (mp2.c:172) whose reuse the model would have to describe.
* In MP4: paths longer than the 256-byte buffer; what blank credentials are used
  for after they are made; the credential `init_cred`, which never gets a block,
  except as the one the first process starts with; the end of sibling threads at
  an exec; the log messages.
