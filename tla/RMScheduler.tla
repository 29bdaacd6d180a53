----------------------------- MODULE RMScheduler -----------------------------
(***************************************************************************)
(* The rate-monotonic scheduler module MP2/mp2.c together with the         *)
(* processes that use it (MP2/userapp.c).                                  *)
(*                                                                         *)
(* Three kinds of process run module code: an application in the write     *)
(* handler of /proc/mp2/status, the dispatcher kernel thread and rmmod.    *)
(* Wake-up timers run in interrupt context.  LOCK_FREE is defined at the   *)
(* top of mp2.c, so spin_lock and spin_unlock expand to nothing and only   *)
(* the processor keeps processes apart: with Preemptible = FALSE (one      *)
(* processor, non-preemptible kernel) a process runs module code until it  *)
(* sleeps or returns, while timers still fire between any two steps; with  *)
(* Preemptible = TRUE (several processors, or a preemptible kernel) every  *)
(* step interleaves.  One step is one access to shared memory.             *)
(*                                                                         *)
(* A record mp2_task_struct is named by the application it belongs to; it  *)
(* is allocated exactly while it is linked into HEAD.                      *)
(***************************************************************************)
EXTENDS Admission, LinuxList, FiniteSets

CONSTANTS Apps, NULL,
          Period, Computation,   \* what each application registers with (ms)
          Times,                 \* number of its jobs
          HZ, USER_HZ,           \* ticks per second: of jiffies, of the code
          INT_MAX,
          Preemptible,
          LastStart,             \* bound: applications activate by this jiffy
          MaxJiffies             \* bound on time

SLEEPING == "SLEEPING"
READY    == "READY"
RUNNING  == "RUNNING"
States   == {SLEEPING, READY, RUNNING}

ASSUME AppsAssumption ==
  /\ IsFiniteSet(Apps) /\ NULL \notin Apps /\ Apps \cap {"idle", "kth", "rmmod"} = {}
  /\ Period \in [Apps -> Nat \ {0}] /\ Computation \in [Apps -> Nat]
  /\ Times \in [Apps -> Nat \ {0}]
  /\ \A p \in Apps : Period[p] < INT_MAX
ASSUME PlatformAssumption ==
  /\ HZ \in Nat \ {0} /\ USER_HZ \in Nat \ {0} /\ INT_MAX \in Nat
  /\ Preemptible \in BOOLEAN /\ LastStart \in Nat /\ MaxJiffies \in Nat

VARIABLES
  mod,                       \* life of the module
  HEAD,                      \* the task list
  state, next_period, tm,    \* fields of the records; tm = 0: not pending
  numerator, denominator, curr_tsk,
  lstate, policy,            \* Linux task state and scheduling class
  pc, left, loc,             \* applications: control, jobs left, locals
  dpc, dstate, should_stop,  \* the dispatcher thread
  itr, tmp, next, min_period, old,
  cpu,                       \* who runs module code
  jiffies

record == <<state, next_period, tm>>
account == <<numerator, denominator>>
linux  == <<lstate, policy>>
app    == <<pc, left, loc>>
thread == <<dpc, dstate, should_stop>>
scan   == <<itr, tmp, next, min_period, old>>
vars == <<mod, HEAD, record, account, curr_tsk, linux, app, thread, scan, cpu, jiffies>>

Linked == Range(HEAD)

(***************************************************************************)
(* The processor.  A process enters or goes on with module code only when  *)
(* no other process is inside it, unless the kernel preempts.              *)
(***************************************************************************)
CanRun(x) == Preemptible \/ cpu \in {"idle", x}
Hold(x)   == cpu' = IF Preemptible THEN "idle" ELSE x
Release   == cpu' = "idle"

\* wake_up_process(dispatch_kth)
WakeDispatcher == dstate' = "RUNNING" /\ UNCHANGED <<dpc, should_stop>>

\* (period * USER_HZ) / 1000, the length of a period in jiffies
Ticks(p) == (Period[p] * USER_HZ) \div 1000

\* The successor of p's record, which list_for_each_entry_safe saves.
NextOf(p) ==
  IF p \in Linked /\ Index(HEAD, p) < Len(HEAD) THEN HEAD[Index(HEAD, p) + 1] ELSE NULL
-----------------------------------------------------------------------------
Init ==
  /\ mod = "absent" /\ HEAD = <<>>
  /\ state = [p \in Apps |-> SLEEPING]
  /\ next_period = [p \in Apps |-> 0] /\ tm = [p \in Apps |-> 0]
  /\ numerator = 0 /\ denominator = 0 /\ curr_tsk = NULL
  /\ lstate = [p \in Apps |-> "RUNNING"] /\ policy = [p \in Apps |-> "NORMAL"]
  /\ pc = [p \in Apps |-> "start"] /\ left = Times
  /\ loc = [p \in Apps |-> [n |-> 0, d |-> 0]]
  /\ dpc = "none" /\ dstate = "RUNNING" /\ should_stop = FALSE
  /\ itr = NULL /\ tmp = NULL /\ next = NULL /\ min_period = INT_MAX /\ old = NULL
  /\ cpu = "idle" /\ jiffies = 1

(***************************************************************************)
(* mp2_init: applications are started after insmod has returned.           *)
(***************************************************************************)
mp2_init ==
  /\ mod = "absent"
  /\ mod' = "live" /\ HEAD' = <<>> /\ curr_tsk' = NULL
  /\ numerator' = 0 /\ denominator' = 0
  /\ dpc' = "idle" /\ dstate' = "RUNNING" /\ should_stop' = FALSE
  /\ UNCHANGED <<record, linux, app, scan, cpu, jiffies>>
-----------------------------------------------------------------------------
(***************************************************************************)
(* Registration: reg_entry, called through mywrite.  admission_control     *)
(* reads the account and, if the task fits, writes it back; then the       *)
(* record is allocated (which may sleep), linked, and only then filled in. *)
(***************************************************************************)
Goto(p, l) == pc' = [pc EXCEPT ![p] = l]

\* The processor is given up between reading the account and writing it.
reg_check_yields(p) ==
  LET r == admission_control(numerator, denominator, Period[p], Computation[p], 0)
  IN  /\ pc[p] = "start" /\ mod = "live" /\ CanRun(p) /\ Release
      /\ \/ r.ret = 0 /\ Goto(p, "reg_write")
            /\ loc' = [loc EXCEPT ![p] = [n |-> r.n, d |-> r.d]]
         \/ r.ret = 1 /\ Goto(p, "check") /\ UNCHANGED loc
      /\ UNCHANGED <<mod, HEAD, record, account, curr_tsk, linux, left, thread, scan, jiffies>>

reg_check(p) ==
  LET r == admission_control(numerator, denominator, Period[p], Computation[p], 0)
  IN  /\ pc[p] = "start" /\ mod = "live" /\ CanRun(p)
      /\ \/ r.ret = 0 /\ Goto(p, "reg_write") /\ Hold(p)
            /\ loc' = [loc EXCEPT ![p] = [n |-> r.n, d |-> r.d]]
         \/ r.ret = 1 /\ Goto(p, "check") /\ Release /\ UNCHANGED loc
      /\ UNCHANGED <<mod, HEAD, record, account, curr_tsk, linux, left, thread, scan, jiffies>>

reg_write(p) ==
  /\ pc[p] = "reg_write" /\ CanRun(p)
  /\ numerator' = loc[p].n /\ denominator' = loc[p].d
  /\ Goto(p, "reg_link") /\ Release
  /\ UNCHANGED <<mod, HEAD, record, curr_tsk, linux, left, loc, thread, scan, jiffies>>

\* A fresh record holds whatever its memory held before.
reg_link(p) ==
  /\ pc[p] = "reg_link" /\ CanRun(p)
  /\ HEAD' = Append(HEAD, p)
  /\ \E s \in States : state' = [state EXCEPT ![p] = s]
  /\ Goto(p, "reg_fill") /\ Hold(p)
  /\ UNCHANGED <<mod, next_period, tm, account, curr_tsk, linux, left, loc, thread, scan, jiffies>>

\* The state of the new record is never set.
reg_fill_leaves_state(p) ==
  /\ pc[p] = "reg_fill" /\ CanRun(p)
  /\ next_period' = [next_period EXCEPT ![p] = 0]
  /\ tm' = [tm EXCEPT ![p] = 0]
  /\ Goto(p, "check") /\ Release
  /\ UNCHANGED <<mod, HEAD, state, account, curr_tsk, linux, left, loc, thread, scan, jiffies>>

reg_fill(p) ==
  /\ pc[p] = "reg_fill" /\ CanRun(p)
  /\ state' = [state EXCEPT ![p] = SLEEPING]
  /\ next_period' = [next_period EXCEPT ![p] = 0]
  /\ tm' = [tm EXCEPT ![p] = 0]
  /\ Goto(p, "check") /\ Release
  /\ UNCHANGED <<mod, HEAD, account, curr_tsk, linux, left, loc, thread, scan, jiffies>>

\* check() of userapp.c, through myread: is my pid in the list?
check(p) ==
  /\ pc[p] = "check" /\ CanRun(p)
  /\ Goto(p, IF mod = "live" /\ p \in Linked THEN "user" ELSE "done")
  /\ UNCHANGED <<mod, HEAD, record, account, curr_tsk, linux, left, loc, thread, scan, cpu, jiffies>>
-----------------------------------------------------------------------------
(***************************************************************************)
(* A yield: yield_entry.  The first one activates the task; a later one    *)
(* puts it to sleep until its next period unless that has begun already.   *)
(***************************************************************************)
yield_entry(p) ==
  /\ pc[p] = "user" /\ left[p] > 0 /\ mod = "live" /\ CanRun(p)
  /\ left' = [left EXCEPT ![p] = @ - 1] /\ Hold(p)
  /\ \/ /\ next_period[p] = 0
        /\ next_period' = [next_period EXCEPT ![p] = jiffies + Ticks(p)]
        /\ state' = [state EXCEPT ![p] = READY]
        /\ Goto(p, "yield_wake")
     \/ /\ next_period[p] # 0 /\ jiffies < next_period[p]
        /\ Goto(p, "sleep_curr") /\ UNCHANGED <<state, next_period>>
     \/ /\ next_period[p] # 0 /\ jiffies >= next_period[p]
        /\ next_period' = [next_period EXCEPT ![p] = @ + Ticks(p)]
        /\ Goto(p, "yield_wake") /\ UNCHANGED state
  /\ UNCHANGED <<mod, HEAD, tm, account, curr_tsk, linux, loc, thread, scan, jiffies>>

\* A task that goes to sleep stays curr_tsk.
sleep_curr_keeps(p) ==
  /\ pc[p] = "sleep_curr" /\ CanRun(p)
  /\ Goto(p, "sleep_state") /\ Hold(p)
  /\ UNCHANGED <<mod, HEAD, record, account, curr_tsk, linux, left, loc, thread, scan, jiffies>>

\* set_task_sleep, in its three accesses
sleep_curr(p) ==
  /\ pc[p] = "sleep_curr" /\ CanRun(p)
  /\ curr_tsk' = IF curr_tsk = p THEN NULL ELSE curr_tsk
  /\ Goto(p, "sleep_state") /\ Hold(p)
  /\ UNCHANGED <<mod, HEAD, record, account, linux, left, loc, thread, scan, jiffies>>

sleep_state(p) ==
  /\ pc[p] = "sleep_state" /\ CanRun(p)
  /\ state' = [state EXCEPT ![p] = SLEEPING]
  /\ Goto(p, "sleep_block") /\ Hold(p)
  /\ UNCHANGED <<mod, HEAD, next_period, tm, account, curr_tsk, linux, left, loc, thread, scan, jiffies>>

sleep_block(p) ==
  /\ pc[p] = "sleep_block" /\ CanRun(p)
  /\ lstate' = [lstate EXCEPT ![p] = "UNINTERRUPTIBLE"]
  /\ Goto(p, "yield_arm") /\ Hold(p)
  /\ UNCHANGED <<mod, HEAD, record, account, curr_tsk, policy, left, loc, thread, scan, jiffies>>

yield_arm(p) ==
  /\ pc[p] = "yield_arm" /\ CanRun(p)
  /\ tm' = [tm EXCEPT ![p] = next_period[p]]
  /\ next_period' = [next_period EXCEPT ![p] = @ + Ticks(p)]
  /\ Goto(p, "yield_wake") /\ Hold(p)
  /\ UNCHANGED <<mod, HEAD, state, account, curr_tsk, linux, left, loc, thread, scan, jiffies>>

\* wake_up_process(dispatch_kth); schedule()
yield_wake(p) ==
  /\ pc[p] = "yield_wake" /\ CanRun(p)
  /\ WakeDispatcher
  /\ Goto(p, "schedule") /\ Release
  /\ UNCHANGED <<mod, HEAD, record, account, curr_tsk, linux, left, loc, scan, jiffies>>

\* schedule() returns, and with it the write, once Linux runs the process
resume(p) ==
  /\ pc[p] = "schedule" /\ lstate[p] = "RUNNING" /\ CanRun(p)
  /\ Goto(p, "user")
  /\ UNCHANGED <<mod, HEAD, record, account, curr_tsk, linux, left, loc, thread, scan, cpu, jiffies>>
-----------------------------------------------------------------------------
(***************************************************************************)
(* Deregistration: dereg_entry, with freeone.                              *)
(***************************************************************************)
\* A task that is freed stays curr_tsk.
dereg_entry_keeps(p) ==
  /\ pc[p] = "user" /\ left[p] = 0 /\ mod = "live" /\ CanRun(p)
  /\ Goto(p, "dereg_read") /\ Hold(p)
  /\ UNCHANGED <<mod, HEAD, record, account, curr_tsk, linux, left, loc, thread, scan, jiffies>>

dereg_entry(p) ==
  /\ pc[p] = "user" /\ left[p] = 0 /\ mod = "live" /\ CanRun(p)
  /\ curr_tsk' = IF curr_tsk = p THEN NULL ELSE curr_tsk
  /\ Goto(p, "dereg_read") /\ Hold(p)
  /\ UNCHANGED <<mod, HEAD, record, account, linux, left, loc, thread, scan, jiffies>>

dereg_read(p) ==
  /\ pc[p] = "dereg_read" /\ CanRun(p)
  /\ LET r == admission_control(numerator, denominator, Period[p], Computation[p], 1)
     IN  loc' = [loc EXCEPT ![p] = [n |-> r.n, d |-> r.d]]
  /\ Goto(p, "dereg_write") /\ Hold(p)
  /\ UNCHANGED <<mod, HEAD, record, account, curr_tsk, linux, left, thread, scan, jiffies>>

dereg_write(p) ==
  /\ pc[p] = "dereg_write" /\ CanRun(p)
  /\ numerator' = loc[p].n /\ denominator' = loc[p].d
  /\ Goto(p, "dereg_free") /\ Hold(p)
  /\ UNCHANGED <<mod, HEAD, record, curr_tsk, linux, left, loc, thread, scan, jiffies>>

\* freeone: del_timer_sync, list_del, kmem_cache_free
freeone(p) == /\ tm' = [tm EXCEPT ![p] = 0]
              /\ HEAD' = Without(HEAD, p)

dereg_free(p) ==
  /\ pc[p] = "dereg_free" /\ CanRun(p)
  /\ freeone(p)
  /\ Goto(p, "dereg_wake") /\ Hold(p)
  /\ UNCHANGED <<mod, state, next_period, account, curr_tsk, linux, left, loc, thread, scan, jiffies>>

dereg_wake(p) ==
  /\ pc[p] = "dereg_wake" /\ CanRun(p)
  /\ WakeDispatcher
  /\ Goto(p, "done") /\ Release
  /\ UNCHANGED <<mod, HEAD, record, account, curr_tsk, linux, left, loc, scan, jiffies>>

\* Once the proc entry is gone every call fails and the application goes on
\* through its jobs to its end.
write_fails(p) ==
  /\ pc[p] \in {"start", "user"} /\ mod \notin {"absent", "live"}
  /\ IF pc[p] = "user" /\ left[p] > 0
     THEN left' = [left EXCEPT ![p] = @ - 1] /\ UNCHANGED pc
     ELSE Goto(p, "done") /\ UNCHANGED left
  /\ UNCHANGED <<mod, HEAD, record, account, curr_tsk, linux, loc, thread, scan, cpu, jiffies>>
-----------------------------------------------------------------------------
(***************************************************************************)
(* The dispatcher thread, dispatch_fn.                                     *)
(***************************************************************************)
dispatch_top ==
  /\ dpc = "idle" /\ dstate = "RUNNING" /\ CanRun("kth")
  /\ \/ /\ should_stop
        /\ dpc' = "exited" /\ Release /\ UNCHANGED <<itr, tmp, next, min_period>>
     \/ /\ ~should_stop
        /\ next' = NULL /\ min_period' = INT_MAX
        /\ IF HEAD = <<>>
           THEN dpc' = "decide" /\ itr' = NULL /\ tmp' = NULL
           ELSE dpc' = "scan" /\ itr' = Head(HEAD) /\ tmp' = NextOf(Head(HEAD))
        /\ Hold("kth")
  /\ UNCHANGED <<mod, HEAD, record, account, curr_tsk, linux, app, dstate, should_stop, old, jiffies>>

\* Sleeping tasks are candidates too.
dispatch_scan_sleeping ==
  /\ dpc = "scan" /\ CanRun("kth")
  /\ IF Period[itr] < min_period
     THEN min_period' = Period[itr] /\ next' = itr
     ELSE UNCHANGED <<min_period, next>>
  /\ itr' = tmp /\ tmp' = IF tmp = NULL THEN NULL ELSE NextOf(tmp)
  /\ dpc' = IF tmp = NULL THEN "decide" ELSE "scan"
  /\ Hold("kth")
  /\ UNCHANGED <<mod, HEAD, record, account, curr_tsk, linux, app, dstate, should_stop, old, jiffies>>
\* The best period so far is not kept, so the last candidate wins.
dispatch_scan_last ==
  /\ dpc = "scan" /\ CanRun("kth")
  /\ next' = IF state[itr] # SLEEPING /\ Period[itr] < min_period THEN itr ELSE next
  /\ itr' = tmp /\ tmp' = IF tmp = NULL THEN NULL ELSE NextOf(tmp)
  /\ dpc' = IF tmp = NULL THEN "decide" ELSE "scan"
  /\ Hold("kth")
  /\ UNCHANGED <<mod, HEAD, record, account, curr_tsk, linux, app, dstate, should_stop, old,
                 min_period, jiffies>>

\* one iteration of list_for_each_entry_safe
dispatch_scan ==
  /\ dpc = "scan" /\ CanRun("kth")
  /\ IF state[itr] # SLEEPING /\ Period[itr] < min_period
     THEN min_period' = Period[itr] /\ next' = itr
     ELSE UNCHANGED <<min_period, next>>
  /\ itr' = tmp /\ tmp' = IF tmp = NULL THEN NULL ELSE NextOf(tmp)
  /\ dpc' = IF tmp = NULL THEN "decide" ELSE "scan"
  /\ Hold("kth")
  /\ UNCHANGED <<mod, HEAD, record, account, curr_tsk, linux, app, dstate, should_stop, old, jiffies>>

dispatch_decide ==
  /\ dpc = "decide" /\ CanRun("kth")
  /\ old' = curr_tsk
  /\ dpc' = IF next = NULL \/ curr_tsk = next THEN "sleep"
            ELSE IF curr_tsk = NULL THEN "new_wake" ELSE "old"
  /\ Hold("kth")
  /\ UNCHANGED <<mod, HEAD, record, account, curr_tsk, linux, app, dstate, should_stop,
                 itr, tmp, next, min_period, jiffies>>

\* The preempted task stays RUNNING.
set_old_task_keeps_state ==
  /\ dpc = "old" /\ CanRun("kth")
  /\ policy' = [policy EXCEPT ![old] = "NORMAL"]
  /\ dpc' = "new_wake" /\ Hold("kth")
  /\ UNCHANGED <<mod, HEAD, record, account, curr_tsk, lstate, app, dstate,
                 should_stop, scan, jiffies>>
\* The preempted task keeps its real-time priority.
set_old_task_keeps_priority ==
  /\ dpc = "old" /\ CanRun("kth")
  /\ state' = [state EXCEPT ![old] = IF @ = RUNNING THEN READY ELSE @]
  /\ dpc' = "new_wake" /\ Hold("kth")
  /\ UNCHANGED <<mod, HEAD, next_period, tm, account, curr_tsk, linux, app, dstate,
                 should_stop, scan, jiffies>>

set_old_task ==
  /\ dpc = "old" /\ CanRun("kth")
  /\ state' = [state EXCEPT ![old] = IF @ = RUNNING THEN READY ELSE @]
  /\ policy' = [policy EXCEPT ![old] = "NORMAL"]
  /\ dpc' = "new_wake" /\ Hold("kth")
  /\ UNCHANGED <<mod, HEAD, next_period, tm, account, curr_tsk, lstate, app, dstate,
                 should_stop, scan, jiffies>>

\* set_new_task, in its three accesses
new_wake ==
  /\ dpc = "new_wake" /\ CanRun("kth")
  /\ lstate' = [lstate EXCEPT ![next] = "RUNNING"]
  /\ dpc' = "new_run" /\ Hold("kth")
  /\ UNCHANGED <<mod, HEAD, record, account, curr_tsk, policy, app, dstate, should_stop, scan, jiffies>>

new_run ==
  /\ dpc = "new_run" /\ CanRun("kth")
  /\ state' = [state EXCEPT ![next] = RUNNING]
  /\ policy' = [policy EXCEPT ![next] = "FIFO"]
  /\ dpc' = "new_curr" /\ Hold("kth")
  /\ UNCHANGED <<mod, HEAD, next_period, tm, account, curr_tsk, lstate, app, dstate,
                 should_stop, scan, jiffies>>

new_curr ==
  /\ dpc = "new_curr" /\ CanRun("kth")
  /\ curr_tsk' = next
  /\ dpc' = "sleep" /\ Hold("kth")
  /\ UNCHANGED <<mod, HEAD, record, account, linux, app, dstate, should_stop, scan, jiffies>>

\* set_current_state(TASK_INTERRUPTIBLE); schedule()
dispatch_sleep ==
  /\ dpc = "sleep" /\ CanRun("kth")
  /\ dstate' = "INTERRUPTIBLE" /\ dpc' = "idle" /\ Release
  /\ UNCHANGED <<mod, HEAD, record, account, curr_tsk, linux, app, should_stop, scan, jiffies>>

dispatch_fn == \/ dispatch_top \/ dispatch_scan \/ dispatch_decide \/ set_old_task
               \/ new_wake \/ new_run \/ new_curr \/ dispatch_sleep
-----------------------------------------------------------------------------
(***************************************************************************)
(* Time and the wake-up timers (interrupt context: never held off).        *)
(***************************************************************************)
Tick ==
  /\ jiffies < MaxJiffies
  /\ jiffies < LastStart \/ \A p \in Apps : pc[p] = "done" \/ next_period[p] # 0
  /\ jiffies' = jiffies + 1
  /\ UNCHANGED <<mod, HEAD, record, account, curr_tsk, linux, app, thread, scan, cpu>>

tm_callback(p) ==
  /\ tm[p] # 0 /\ tm[p] <= jiffies
  /\ tm' = [tm EXCEPT ![p] = 0]
  /\ state' = [state EXCEPT ![p] = IF @ = SLEEPING THEN READY ELSE @]
  /\ WakeDispatcher
  /\ UNCHANGED <<mod, HEAD, next_period, account, curr_tsk, linux, app, scan, cpu, jiffies>>
-----------------------------------------------------------------------------
(***************************************************************************)
(* rmmod: mp2_exit, with freeall.  proc_remove refuses new calls and waits *)
(* for the handlers that are running, a blocked yield included.            *)
(***************************************************************************)
InHandler(p) == pc[p] \notin {"start", "check", "user", "done"}

proc_remove ==
  /\ mod = "live" /\ CanRun("rmmod")
  /\ mod' = "rundown"
  /\ UNCHANGED <<HEAD, record, account, curr_tsk, linux, app, thread, scan, cpu, jiffies>>

freeall ==
  /\ mod = "rundown" /\ CanRun("rmmod") /\ \A p \in Apps : ~InHandler(p)
  /\ mod' = "freeing" /\ curr_tsk' = NULL /\ Hold("rmmod")
  /\ UNCHANGED <<HEAD, record, account, linux, app, thread, scan, jiffies>>

free_next ==
  /\ mod = "freeing" /\ HEAD # <<>> /\ CanRun("rmmod")
  /\ freeone(Head(HEAD)) /\ Hold("rmmod")
  /\ UNCHANGED <<mod, state, next_period, account, curr_tsk, linux, app, thread, scan, jiffies>>

\* The flag is set but the thread is not woken.
kthread_stop_silent ==
  /\ mod = "freeing" /\ HEAD = <<>> /\ CanRun("rmmod")
  /\ mod' = "stopping" /\ should_stop' = TRUE /\ Release
  /\ UNCHANGED <<HEAD, record, account, curr_tsk, linux, app, dpc, dstate, scan, jiffies>>

\* kthread_stop sets the flag, wakes the thread and waits for it to exit
kthread_stop ==
  /\ mod = "freeing" /\ HEAD = <<>> /\ CanRun("rmmod")
  /\ mod' = "stopping" /\ should_stop' = TRUE /\ dstate' = "RUNNING" /\ Release
  /\ UNCHANGED <<HEAD, record, account, curr_tsk, linux, app, dpc, scan, jiffies>>

cache_destroy ==
  /\ mod = "stopping" /\ dpc = "exited" /\ CanRun("rmmod")
  /\ mod' = "gone"
  /\ UNCHANGED <<HEAD, record, account, curr_tsk, linux, app, thread, scan, cpu, jiffies>>

mp2_exit == freeall \/ free_next \/ kthread_stop \/ cache_destroy
-----------------------------------------------------------------------------
userapp(p) ==
  \/ reg_check(p) \/ reg_write(p) \/ reg_link(p) \/ reg_fill(p) \/ check(p)
  \/ yield_entry(p) \/ sleep_curr(p) \/ sleep_state(p) \/ sleep_block(p)
  \/ yield_arm(p) \/ yield_wake(p) \/ resume(p)
  \/ dereg_entry(p) \/ dereg_read(p) \/ dereg_write(p) \/ dereg_free(p) \/ dereg_wake(p)
  \/ write_fails(p)

Next == \/ mp2_init \/ proc_remove \/ mp2_exit \/ dispatch_fn \/ Tick
        \/ \E p \in Apps : userapp(p) \/ tm_callback(p)

(***************************************************************************)
(* Applications finish their jobs, the dispatcher gets the processor (the  *)
(* real-time throttle leaves time to normal threads), timers expire, time  *)
(* passes, and rmmod goes on once it has begun.  Nobody has to load or     *)
(* unload the module.                                                      *)
(***************************************************************************)
Fairness == /\ WF_vars(dispatch_fn) /\ WF_vars(mp2_exit) /\ WF_vars(Tick)
            /\ \A p \in Apps : WF_vars(userapp(p)) /\ WF_vars(tm_callback(p))

Spec == Init /\ [][Next]_vars
FairSpec == Spec /\ Fairness
-----------------------------------------------------------------------------
AppPcs == {"start", "reg_write", "reg_link", "reg_fill", "check", "user",
           "sleep_curr", "sleep_state", "sleep_block", "yield_arm", "yield_wake",
           "schedule", "dereg_read", "dereg_write", "dereg_free", "dereg_wake", "done"}
DispatchPcs == {"none", "idle", "scan", "decide", "old", "new_wake", "new_run",
                "new_curr", "sleep", "exited"}

RecordType  == /\ state \in [Apps -> States]
               /\ next_period \in [Apps -> Nat] /\ tm \in [Apps -> Nat]
AccountType == numerator \in Nat /\ denominator \in Nat
LinuxType   == /\ lstate \in [Apps -> {"RUNNING", "UNINTERRUPTIBLE"}]
               /\ policy \in [Apps -> {"NORMAL", "FIFO"}]
AppType     == /\ pc \in [Apps -> AppPcs] /\ left \in [Apps -> Nat]
               /\ loc \in [Apps -> [n : Nat, d : Nat]]
ThreadType  == /\ dpc \in DispatchPcs /\ dstate \in {"RUNNING", "INTERRUPTIBLE"}
               /\ should_stop \in BOOLEAN
ScanType    == /\ itr \in Apps \cup {NULL} /\ tmp \in Apps \cup {NULL}
               /\ next \in Apps \cup {NULL} /\ old \in Apps \cup {NULL}
               /\ min_period \in Nat

\* Every variable keeps its type: what the handlers, the dispatcher, the
\* timers and rmmod store is what the others expect to read.
TypeOK ==
  /\ mod \in {"absent", "live", "rundown", "freeing", "stopping", "gone"}
  /\ HEAD \in Seq(Apps) /\ curr_tsk \in Apps \cup {NULL}
  /\ RecordType /\ AccountType /\ LinuxType /\ AppType /\ ThreadType /\ ScanType
  /\ cpu \in Apps \cup {"idle", "kth", "rmmod"} /\ jiffies \in Nat \ {0}

\* A record may be read when it is allocated and its fields are filled in.
Usable(p) == p \in Linked /\ pc[p] # "reg_fill"

\* No pointer the module will follow leads to a record that is freed or not
\* yet filled in: the dispatcher's cursor and its saved successor (mp2.c:364),
\* the task it chose, the one it preempts, curr_tsk, and the argument of a
\* pending timer (mp2.c:175).
NoDangling ==
  /\ dpc = "scan" => Usable(itr) /\ (tmp # NULL => tmp \in Linked)
  /\ dpc \in {"scan", "decide", "old", "new_wake", "new_run", "new_curr"} /\ next # NULL
       => Usable(next)
  /\ dpc = "old" => Usable(old)
  /\ curr_tsk # NULL => Usable(curr_tsk)
  /\ \A p \in Apps : tm[p] # 0 => Usable(p)

\* At most one task is RUNNING, and it is curr_tsk, except while a handler or
\* the dispatcher is between the two assignments (mp2.c:204-208, 331-333).
RunningIsCurrent ==
  mod = "live" =>
    \A p \in Linked : state[p] = RUNNING =>
      \/ p = curr_tsk
      \/ dpc = "new_curr" /\ p = next
      \/ pc[p] \in {"reg_fill", "sleep_state", "dereg_read", "dereg_write", "dereg_free"}

\* A process that sleeps in its yield can still be woken: its record exists,
\* it is not taken for the running task (which mp2.c:381 would never wake),
\* and either its timer is pending or the timer has made it READY.
NoOrphanSleeper ==
  \A p \in Apps : pc[p] = "schedule" /\ lstate[p] = "UNINTERRUPTIBLE" =>
    /\ Usable(p) /\ p # curr_tsk
    /\ (state[p] = SLEEPING /\ tm[p] # 0) \/ state[p] = READY

\* While the module is in charge, a registered process that executes a job
\* with real-time priority is the one the dispatcher chose last: a preempted
\* one has been put back to SCHED_NORMAL (mp2.c:343).
OnlyCurrentAtRTPriority ==
  mod = "live" =>
    \A p \in Linked : pc[p] = "user" /\ policy[p] = "FIFO" =>
      p = curr_tsk \/ (dpc = "new_curr" /\ p = next)

Preempts == \A p \in Linked : state[p] = RUNNING /\ state'[p] = READY /\ pc[p] # "reg_fill"
                                => Period[next] <= Period[p]
\* A RUNNING task is made READY only for one whose period is not longer: "a
\* task with a higher priority will always preempt a task with a lower
\* priority" and no other preemption happens (mp2.c:364-384).
PreemptsByPriority == [][Preempts]_vars

\* The time p called yield first, and the number of periods its next job is
\* to be released after that.
Activation(p) == next_period[p] - (Times[p] - left[p]) * Ticks(p)
JobsBefore(p) == Times[p] - left[p] - 1

\* A process asleep in its yield is not woken before its next period has
\* begun, in milliseconds since its activation (yield_entry, mp2.c:226-243:
\* the module "does not allow the job of any application to run before its
\* period", MP2.pdf).
NotBeforePeriod ==
  [][\A p \in Apps : lstate[p] = "UNINTERRUPTIBLE" /\ lstate'[p] = "RUNNING"
       => (jiffies - Activation(p)) * 1000 >= JobsBefore(p) * Period[p] * HZ]_vars

\* The registered tasks use at most 0.693 of the processor (mp2.c:133).
UtilizationBound ==
  1000 * Sum(Period, Computation, Linked) <= 693 * Prod(Period, Linked)

\* Once rmmod frees the records it also gets to the end: the dispatcher is
\* woken and exits (mp2.c:478).
UnloadCompletes == mod = "freeing" ~> mod = "gone"

\* A sleeping process whose task is READY when the dispatcher begins a pass
\* over the list runs again, unless the module is removed meanwhile (then a
\* task that can no longer yield keeps curr_tsk).
SeenJobRuns ==
  \A p \in Apps :
    pc[p] = "schedule" /\ state[p] = READY /\ dpc = "idle" /\ dstate = "RUNNING" /\ cpu = "idle"
      ~> pc[p] # "schedule" \/ mod # "live"

\* The same for every job released by its timer, whatever the dispatcher is
\* doing at that moment: "when timer is expired, set the state of task to
\* READY and wake up the dispatch thread" (mp2.c:95).
ReleasedJobRuns ==
  \A p \in Apps : pc[p] = "schedule" /\ state[p] = READY
                    ~> pc[p] # "schedule" \/ mod # "live"
-----------------------------------------------------------------------------
(***************************************************************************)
(* The inductive invariant of the one-processor system (Preemptible =      *)
(* FALSE), on which the proofs rest.                                       *)
(***************************************************************************)
Held(p) == pc[p] \in {"reg_write", "reg_fill", "sleep_curr", "sleep_state", "sleep_block",
                      "yield_arm", "yield_wake", "dereg_read", "dereg_write",
                      "dereg_free", "dereg_wake"}
Passing == dpc \in {"scan", "decide", "old", "new_wake", "new_run", "new_curr", "sleep"}
Choosing == dpc \in {"old", "new_wake", "new_run", "new_curr"}
Managed == mod \in {"live", "rundown"}

\* Module code runs under the name of the process that holds the processor.
Exclusive ==
  /\ \A p \in Apps : Held(p) <=> cpu = p
  /\ Passing <=> cpu = "kth"
  /\ mod = "freeing" <=> cpu = "rmmod"

Lifecycle ==
  /\ \A p \in Apps : InHandler(p) => Managed
  /\ Passing => Managed
  /\ mod \in {"absent", "stopping", "gone"} => HEAD = <<>>
  /\ ~Managed => curr_tsk = NULL
  /\ mod = "absent" => dpc = "none" /\ \A p \in Apps : pc[p] = "start"
  /\ mod \in {"stopping", "gone"} => should_stop

\* Which records are in the list, by what their owners are doing.
NoDup(s) == \A i, j \in 1..Len(s) : s[i] = s[j] => i = j
Membership ==
  /\ NoDup(HEAD)
  /\ \A p \in Linked : /\ pc[p] \notin {"start", "reg_write", "reg_link", "dereg_wake"}
                       /\ pc[p] = "done" => mod # "live"
  /\ \A p \in Apps : /\ InHandler(p) /\ pc[p] \notin {"reg_write", "reg_link", "dereg_wake"}
                          => p \in Linked
                     /\ pc[p] = "user" /\ Managed => p \in Linked

\* What a record holds, by what its owner is doing.
FieldsOf(p) ==
  /\ pc[p] \in {"start", "reg_write", "reg_link", "reg_fill", "check"}
       => policy[p] = "NORMAL"
  /\ p \in Linked /\ pc[p] = "check" => next_period[p] = 0
  /\ p \in Linked /\ pc[p] \in {"check", "user"} /\ next_period[p] = 0
       => state[p] = SLEEPING
  /\ pc[p] \in {"sleep_curr", "sleep_state", "sleep_block", "yield_arm",
                "yield_wake", "schedule"} => next_period[p] # 0
  /\ pc[p] = "sleep_block" => state[p] = SLEEPING
  /\ pc[p] = "yield_arm" => lstate[p] = "UNINTERRUPTIBLE"
  /\ tm[p] # 0 => /\ lstate[p] = "UNINTERRUPTIBLE" /\ state[p] = SLEEPING
                  /\ pc[p] \in {"yield_wake", "schedule"}
  /\ lstate[p] = "UNINTERRUPTIBLE" =>
       \/ pc[p] = "yield_arm" /\ state[p] = SLEEPING
       \/ pc[p] \in {"yield_wake", "schedule"} /\ state[p] = SLEEPING /\ tm[p] # 0
       \/ pc[p] \in {"yield_wake", "schedule"} /\ state[p] = READY
Fields == \A p \in Apps : FieldsOf(p)

\* What is known of curr_tsk, and of the RUNNING and the real-time tasks.
CurrentOf(p) ==
  /\ curr_tsk = p =>
       /\ p \in Linked /\ lstate[p] = "RUNNING"
       /\ pc[p] \notin {"reg_fill", "check", "sleep_state", "sleep_block", "yield_arm",
                        "dereg_read", "dereg_write", "dereg_free"}
  /\ Managed /\ p \in Linked =>
       /\ state[p] = RUNNING =>
            \/ p = curr_tsk
            \/ dpc = "new_curr" /\ p = next
            \/ pc[p] \in {"reg_fill", "sleep_state", "dereg_read", "dereg_write", "dereg_free"}
       /\ policy[p] = "FIFO" /\ lstate[p] = "RUNNING"
            /\ pc[p] \in {"user", "schedule", "sleep_curr", "yield_wake"} =>
              \/ p = curr_tsk
              \/ dpc = "new_curr" /\ p = next
              \/ dpc = "new_run" /\ p = next /\ pc[p] # "user"
Current == \A p \in Apps : CurrentOf(p)

\* What the dispatcher has in hand between its scan and its sleep.
Choice ==
  /\ (dpc \in {"scan", "decide"} \/ Choosing) /\ next # NULL =>
       /\ next \in Linked /\ pc[next] \notin {"reg_fill", "check"}
       /\ state[next] # SLEEPING
  /\ Choosing => next # NULL /\ next # curr_tsk
  /\ dpc = "old" => old = curr_tsk /\ old # NULL
  /\ dpc \in {"new_wake", "new_run", "new_curr"} /\ curr_tsk # NULL =>
       state[curr_tsk] # RUNNING /\ policy[curr_tsk] = "NORMAL"
  /\ dpc \in {"new_run", "new_curr"} => lstate[next] = "RUNNING"

\* The scan: the cursor is at place i, and no RUNNING task before it has a
\* shorter period than the best one so far.
Scan ==
  /\ dpc = "scan" =>
       \E i \in 1..Len(HEAD) :
         /\ itr = HEAD[i] /\ tmp = IF i < Len(HEAD) THEN HEAD[i + 1] ELSE NULL
         /\ \A j \in 1..(i - 1) : state[HEAD[j]] = RUNNING => min_period <= Period[HEAD[j]]
  /\ dpc \in {"decide", "old"} =>
       \A p \in Linked : state[p] = RUNNING => min_period <= Period[p]
  /\ (dpc \in {"scan", "decide"} \/ Choosing) /\ next # NULL => min_period = Period[next]

\* All of it together: what the handlers, the dispatcher, the timers and rmmod
\* of mp2.c leave true of the list, the records, curr_tsk and each other's
\* locals at every step.
Inv == /\ TypeOK /\ Exclusive /\ Lifecycle /\ Membership /\ Fields
       /\ Current /\ Choice /\ Scan
=============================================================================
