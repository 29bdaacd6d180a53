------------------------------ MODULE CpuMonitor ------------------------------
(***************************************************************************)
(* The CPU-time monitor module MP1/mp1.c with the processes that register  *)
(* with it (MP1/userapp.c), on several processors.                         *)
(*                                                                         *)
(* A process writes its pid, computes, reads the list and exits.  Every    *)
(* period the timer allocates and queues a work item; the workers of the   *)
(* workqueue run wq_callback, which walks the list under the spinlock,     *)
(* refreshes the times and drops the entries of processes that are gone.   *)
(* rmmod takes the lock for the whole of the clean-up.  Whatever one       *)
(* holder of the lock does in one step, no other holder sees in parts.     *)
(***************************************************************************)
EXTENDS LinuxList

CONSTANTS Apps, Workers, NULL,
          MaxTime,      \* bound: CPU time a process uses
          MaxQueued     \* bound: work items that wait at the same time

ASSUME MonitorAssumption ==
  /\ Apps \cap Workers = {} /\ NULL \notin Apps \cup Workers
  /\ "rmmod" \notin Apps \cup Workers /\ NULL # "rmmod"
  /\ MaxTime \in Nat /\ MaxQueued \in Nat \ {0}

VARIABLES mod,          \* life of the module
          lock,         \* who holds the spinlock
          list, size,
          cpu_usage,    \* field of the entries
          armed,        \* the timer is pending
          queued,       \* work items waiting for a worker
          wpc, curr, tmp,
          pc, utime     \* applications: control, CPU time used

lists  == <<list, size, cpu_usage>>
worker == <<wpc, curr, tmp>>
app    == <<pc, utime>>
vars == <<mod, lock, lists, armed, queued, worker, app>>

spin_lock(x) == lock = NULL /\ lock' = x

\* the successor in the list, saved by list_for_each_entry_safe
NextIn(s, p) == IF p \in Range(s) /\ Index(s, p) < Len(s) THEN s[Index(s, p) + 1] ELSE NULL

Init ==
  /\ mod = "absent" /\ lock = NULL /\ list = <<>> /\ size = 0
  /\ cpu_usage = [p \in Apps |-> 0] /\ armed = FALSE /\ queued = 0
  /\ wpc = [w \in Workers |-> "idle"]
  /\ curr = [w \in Workers |-> NULL] /\ tmp = [w \in Workers |-> NULL]
  /\ pc = [p \in Apps |-> "start"] /\ utime = [p \in Apps |-> 0]

\* applications are started after insmod has returned
mp1_init ==
  /\ mod = "absent"
  /\ mod' = "live" /\ size' = 0 /\ list' = <<>> /\ armed' = TRUE
  /\ UNCHANGED <<lock, cpu_usage, queued, worker, app>>
-----------------------------------------------------------------------------
(***************************************************************************)
(* An application: mywrite, work, myread, exit.                            *)
(***************************************************************************)
Goto(p, l) == pc' = [pc EXCEPT ![p] = l]
InHandler(p) == pc[p] \in {"mywrite", "myread"}
Alive(p) == pc[p] # "dead"

\* The pid is parsed and the entry filled in before the lock is taken.
mywrite(p) ==
  \/ /\ pc[p] = "start" /\ mod # "absent"
     /\ IF mod \in {"live", "timerless", "locked"}
        THEN Goto(p, "mywrite") /\ cpu_usage' = [cpu_usage EXCEPT ![p] = 0]
        ELSE Goto(p, "work") /\ UNCHANGED cpu_usage
     /\ UNCHANGED <<mod, lock, list, size, armed, queued, worker, utime>>
  \/ /\ pc[p] = "mywrite" /\ lock = NULL
     /\ list' = Append(list, p) /\ size' = size + 1
     /\ Goto(p, "work")
     /\ UNCHANGED <<mod, lock, cpu_usage, armed, queued, worker, utime>>

compute(p) ==
  /\ pc[p] = "work" /\ utime[p] < MaxTime
  /\ utime' = [utime EXCEPT ![p] = @ + 1]
  /\ UNCHANGED <<mod, lock, lists, armed, queued, worker, pc>>

\* size is looked at without the lock; "dead" is the end of the process.
myread(p) ==
  \/ /\ pc[p] = "work"
     /\ Goto(p, IF mod \in {"live", "timerless", "locked"} /\ size # 0 THEN "myread" ELSE "dead")
     /\ UNCHANGED <<mod, lock, lists, armed, queued, worker, utime>>
  \/ /\ pc[p] = "myread" /\ lock = NULL
     /\ Goto(p, "dead")
     /\ UNCHANGED <<mod, lock, lists, armed, queued, worker, utime>>

userapp(p) == mywrite(p) \/ compute(p) \/ myread(p)
-----------------------------------------------------------------------------
(***************************************************************************)
(* The two halves of the periodic update.                                  *)
(***************************************************************************)
\* The timer is not armed again.
tm_callback_once ==
  /\ armed /\ queued < MaxQueued
  /\ queued' = queued + 1 /\ armed' = FALSE
  /\ UNCHANGED <<mod, lock, lists, worker, app>>

\* The timer is armed again first; then a new work item is queued.  When
\* kmalloc fails nothing changes.
tm_callback ==
  /\ armed /\ queued < MaxQueued
  /\ queued' = queued + 1
  /\ UNCHANGED <<mod, lock, lists, armed, worker, app>>

Move(w, p) == /\ curr' = [curr EXCEPT ![w] = p]
              /\ tmp' = [tmp EXCEPT ![w] = NextIn(list, p)]

wq_begin(w) ==
  /\ wpc[w] = "idle" /\ queued > 0
  /\ queued' = queued - 1 /\ wpc' = [wpc EXCEPT ![w] = "lock"]
  /\ UNCHANGED <<mod, lock, lists, armed, curr, tmp, app>>

\* The walk does not take the lock.
wq_lock_unlocked(w) ==
  /\ wpc[w] = "lock"
  /\ wpc' = [wpc EXCEPT ![w] = "scan"]
  /\ Move(w, IF list = <<>> THEN NULL ELSE Head(list))
  /\ UNCHANGED <<mod, lock, lists, armed, queued, app>>

wq_lock(w) ==
  /\ wpc[w] = "lock" /\ spin_lock(w)
  /\ wpc' = [wpc EXCEPT ![w] = "scan"]
  /\ Move(w, IF list = <<>> THEN NULL ELSE Head(list))
  /\ UNCHANGED <<mod, lists, armed, queued, app>>

\* An entry goes without being counted, or is counted without going; times
\* are added up; the result of get_cpu_use is ignored.
wq_entry_forgets_size(w) ==
  /\ wpc[w] = "scan" /\ curr[w] # NULL
  /\ IF Alive(curr[w])
     THEN /\ cpu_usage' = [cpu_usage EXCEPT ![curr[w]] = utime[curr[w]]]
          /\ UNCHANGED list
     ELSE list' = Without(list, curr[w]) /\ UNCHANGED cpu_usage
  /\ Move(w, tmp[w])
  /\ UNCHANGED <<mod, lock, size, armed, queued, wpc, app>>
wq_entry_counts_only(w) ==
  /\ wpc[w] = "scan" /\ curr[w] # NULL
  /\ IF Alive(curr[w])
     THEN /\ cpu_usage' = [cpu_usage EXCEPT ![curr[w]] = utime[curr[w]]]
          /\ UNCHANGED size
     ELSE size' = size - 1 /\ UNCHANGED cpu_usage
  /\ Move(w, tmp[w])
  /\ UNCHANGED <<mod, lock, list, armed, queued, wpc, app>>
wq_entry_adds(w) ==
  /\ wpc[w] = "scan" /\ curr[w] # NULL
  /\ IF Alive(curr[w])
     THEN /\ cpu_usage' = [cpu_usage EXCEPT ![curr[w]] = @ + utime[curr[w]]]
          /\ UNCHANGED <<list, size>>
     ELSE /\ list' = Without(list, curr[w]) /\ size' = size - 1
          /\ UNCHANGED cpu_usage
  /\ Move(w, tmp[w])
  /\ UNCHANGED <<mod, lock, armed, queued, wpc, app>>
wq_entry_ignores_result(w) ==
  /\ wpc[w] = "scan" /\ curr[w] # NULL
  /\ cpu_usage' = [cpu_usage EXCEPT ![curr[w]] = utime[curr[w]]]
  /\ Move(w, tmp[w])
  /\ UNCHANGED <<mod, lock, list, size, armed, queued, wpc, app>>

\* one iteration: get_cpu_use, and removal when it fails
wq_entry(w) ==
  /\ wpc[w] = "scan" /\ curr[w] # NULL
  /\ IF Alive(curr[w])
     THEN /\ cpu_usage' = [cpu_usage EXCEPT ![curr[w]] = utime[curr[w]]]
          /\ UNCHANGED <<list, size>>
     ELSE /\ list' = Without(list, curr[w]) /\ size' = size - 1
          /\ UNCHANGED cpu_usage
  /\ Move(w, tmp[w])
  /\ UNCHANGED <<mod, lock, armed, queued, wpc, app>>

\* spin_unlock, and the end of the work item
wq_end(w) ==
  /\ wpc[w] = "scan" /\ curr[w] = NULL
  /\ lock' = NULL /\ wpc' = [wpc EXCEPT ![w] = "idle"]
  /\ UNCHANGED <<mod, lists, armed, queued, curr, tmp, app>>

wq_callback(w) == wq_begin(w) \/ wq_lock(w) \/ wq_entry(w) \/ wq_end(w)
-----------------------------------------------------------------------------
(***************************************************************************)
(* rmmod: mp1_exit.  proc_remove refuses new calls and waits for the ones  *)
(* that are running; destroy_workqueue waits for all work items.           *)
(***************************************************************************)
\* The timer is left running.
del_timer_sync_forgotten ==
  /\ mod = "live"
  /\ mod' = "timerless"
  /\ UNCHANGED <<lock, lists, armed, queued, worker, app>>

del_timer_sync ==
  /\ mod = "live"
  /\ mod' = "timerless" /\ armed' = FALSE
  /\ UNCHANGED <<lock, lists, queued, worker, app>>

exit_lock ==
  /\ mod = "timerless" /\ spin_lock("rmmod")
  /\ mod' = "locked"
  /\ UNCHANGED <<lists, armed, queued, worker, app>>

proc_remove ==
  \/ mod = "locked" /\ mod' = "removing"
     /\ UNCHANGED <<lock, lists, armed, queued, worker, app>>
  \/ mod = "removing" /\ (\A p \in Apps : ~InHandler(p)) /\ mod' = "removed"
     /\ UNCHANGED <<lock, lists, armed, queued, worker, app>>

\* The items that wait are not run out.
destroy_workqueue_at_once ==
  /\ mod = "removed" /\ \A w \in Workers : wpc[w] = "idle"
  /\ mod' = "workless"
  /\ UNCHANGED <<lock, lists, armed, queued, worker, app>>

destroy_workqueue ==
  /\ mod = "removed" /\ queued = 0 /\ \A w \in Workers : wpc[w] = "idle"
  /\ mod' = "workless"
  /\ UNCHANGED <<lock, lists, armed, queued, worker, app>>

\* freell and spin_unlock
freell ==
  /\ mod = "workless"
  /\ mod' = "gone" /\ list' = <<>> /\ lock' = NULL
  /\ UNCHANGED <<size, cpu_usage, armed, queued, worker, app>>

mp1_exit == exit_lock \/ proc_remove \/ destroy_workqueue \/ freell
-----------------------------------------------------------------------------
Next == \/ mp1_init \/ del_timer_sync \/ mp1_exit \/ tm_callback
        \/ \E p \in Apps : userapp(p)
        \/ \E w \in Workers : wq_callback(w)

(***************************************************************************)
(* The timer expires again and again and memory for a work item is found   *)
(* then, workers run the items, spinlocks are granted to those who wait,   *)
(* and a removal goes on once begun.  Nobody has to load or remove the     *)
(* module, and a process need not use CPU time or exit.                    *)
(***************************************************************************)
Fairness == /\ WF_vars(tm_callback) /\ WF_vars(mp1_exit)
            /\ \A w \in Workers : WF_vars(wq_callback(w))
            /\ \A p \in Apps : WF_vars(pc[p] \in {"mywrite", "myread"} /\ userapp(p))

Spec == Init /\ [][Next]_vars
FairSpec == Spec /\ Fairness
-----------------------------------------------------------------------------
\* Every variable keeps its type; in particular size, which wq_callback
\* decrements (mp1.c:165), does not fall below zero.
TypeOK ==
  /\ mod \in {"absent", "live", "timerless", "locked", "removing", "removed",
              "workless", "gone"}
  /\ lock \in {NULL, "rmmod"} \cup Workers
  /\ list \in Seq(Apps) /\ size \in Nat /\ cpu_usage \in [Apps -> Nat]
  /\ armed \in BOOLEAN /\ queued \in 0..MaxQueued
  /\ wpc \in [Workers -> {"idle", "lock", "scan"}]
  /\ curr \in [Workers -> Apps \cup {NULL}] /\ tmp \in [Workers -> Apps \cup {NULL}]
  /\ pc \in [Apps -> {"start", "mywrite", "work", "myread", "dead"}]
  /\ utime \in [Apps -> 0..MaxTime]

\* The entry a worker is at and the one it has saved as the next (mp1.c:152)
\* are in the list as long as it walks it, although walks of other workers
\* remove entries and rmmod frees them all.
CursorInList ==
  \A w \in Workers : wpc[w] = "scan" =>
    {curr[w], tmp[w]} \ {NULL} \subseteq Range(list)

\* A registered process that is alive stays in the list until the module is
\* removed, once, and size counts it: its own read (mp1.c:47) never reports
\* that no pid is registered.
KeptWhileAlive ==
  mod \in {"live", "timerless"} =>
    /\ IsInjective(list) /\ size = Len(list)
    /\ \A p \in Apps : pc[p] \in {"work", "myread"} => p \in Range(list)

\* The time the list shows for a process never runs back and is never ahead
\* of the time the process has used.
UsageFollows ==
  [][\A p \in Apps : cpu_usage'[p] >= cpu_usage[p] /\ cpu_usage'[p] <= utime'[p]]_vars

\* When the module is gone nothing of it is left that could still run or be
\* used: no timer, no work item, no handler, no entry, no held lock.
NothingLeft ==
  mod = "gone" =>
    /\ ~armed /\ queued = 0 /\ lock = NULL /\ list = <<>>
    /\ \A w \in Workers : wpc[w] = "idle"
    /\ \A p \in Apps : ~InHandler(p)

(***************************************************************************)
(* The inductive invariant on which the proofs rest.                       *)
(***************************************************************************)
\* The lock is held by the worker that walks the list, or by rmmod.
Locking ==
  /\ \A w \in Workers : wpc[w] = "scan" <=> lock = w
  /\ lock = "rmmod" <=> mod \in {"locked", "removing", "removed", "workless"}

\* The list holds each process that has registered once, up to the walk that
\* finds it dead.
Entries ==
  /\ IsInjective(list) /\ (mod # "gone" => size = Len(list)) /\ (mod = "gone" => list = <<>>)
  /\ \A p \in Range(list) : pc[p] \notin {"start", "mywrite"}
  /\ mod \in {"live", "timerless", "locked"} =>
       \A p \in Apps : pc[p] \in {"work", "myread"} => p \in Range(list)

\* A walk is at an entry, whose successor it has saved, or at its end.
Cursor ==
  \A w \in Workers : wpc[w] = "scan" =>
    curr[w] \in Range(list) \cup {NULL} /\ tmp[w] = NextIn(list, curr[w])

\* What has ended by which stage of the removal, and has not begun before
\* the module is loaded.
Stages ==
  /\ armed => mod = "live"
  /\ mod = "absent" => \A p \in Apps : pc[p] = "start"
  /\ mod \in {"removed", "workless", "gone"} => \A p \in Apps : ~InHandler(p)
  /\ mod \in {"absent", "workless", "gone"} => queued = 0 /\ \A w \in Workers : wpc[w] = "idle"

\* An entry shows a time its process has used, and none before it is filled in.
Times ==
  \A p \in Apps :
    /\ cpu_usage[p] <= utime[p]
    /\ pc[p] \in {"start", "mywrite"} => cpu_usage[p] = 0

\* All of it together: what the handlers, the timer, the workers and the
\* removal of mp1.c leave true at every step.
Inv == TypeOK /\ Locking /\ Entries /\ Cursor /\ Stages /\ Times

\* "If a registered process terminates, get_cpu_use will return -1.  In this
\* case, the registered process should be removed from the linked list": it
\* is, while the module stays (mp1.c:160-166).
DeadAreDropped ==
  \A p \in Apps : pc[p] = "dead" ~> p \notin Range(list) \/ mod # "live"

\* The list catches up with the time a registered process has used.
UsageCatchesUp ==
  \A p \in Apps, t \in 1..MaxTime :
    pc[p] = "work" /\ utime[p] = t ~> cpu_usage[p] >= t \/ pc[p] = "dead" \/ mod # "live"

\* Removal completes if no handler and no work item is under way when mp1_exit
\* has taken the lock.
QuietUnload ==
  (/\ mod = "removing" /\ queued = 0 /\ \A w \in Workers : wpc[w] = "idle"
   /\ \A p \in Apps : ~InHandler(p)) ~> mod = "gone"
=============================================================================
