------------------------------- MODULE Profiler -------------------------------
(***************************************************************************)
(* The page-fault profiler module MP3/mp3.c with the processes it samples  *)
(* (MP3/work.c) and the one that reads the samples (MP3/monitor.c), on     *)
(* several processors.                                                     *)
(*                                                                         *)
(* While the list of registered processes is not empty a delayed work item *)
(* runs periodically: under the spinlock it adds up the fault counters of  *)
(* the processes, resets them, and appends a sample of four elements and a *)
(* terminator to a buffer that the monitor maps.  The four elements of a   *)
(* sample are told apart by sample number and place; the minor fault count *)
(* stands for all the counters.  As in MP3/test.sh the monitor runs when   *)
(* the processes of an experiment have ended, and before the next ones     *)
(* begin, whether or not the experiment has left samples, and any number   *)
(* of times.  A process that starts before the module is loaded fails to   *)
(* register and still unregisters at its end.                              *)
(***************************************************************************)
EXTENDS LinuxList, Integers, FiniteSets

CONSTANTS Works, NULL,
          VM_ELEMENT_SIZE,  \* elements the module means to fill
          VM_ELEMENTS,      \* elements there are: VM_SIZE / sizeof(unsigned long)
          BUFD_MAX,         \* elements the monitor reads
          Garbage,          \* what the elements may hold that vmalloc returns
          Crashing,         \* processes may end without unregistering
          MaxFaults         \* bound: faults of all processes

\* The values of an element: undefined, the terminator -1, the k-th element
\* of the n-th sample.
JUNK == 0
END  == -1
Element(n, k) == 4 * n + k

ASSUME ProfilerAssumption ==
  /\ IsFiniteSet(Works) /\ NULL \notin Works \cup {"wq", "rmmod"}
  /\ Works \cap {"wq", "rmmod"} = {}
  /\ VM_ELEMENT_SIZE \in Nat /\ VM_ELEMENTS \in Nat /\ BUFD_MAX \in Nat
  /\ VM_ELEMENT_SIZE % 4 = 0
  /\ BUFD_MAX % 4 = 0 /\ BUFD_MAX > 0 /\ BUFD_MAX < VM_ELEMENT_SIZE
  /\ Garbage \subseteq [0..(VM_ELEMENTS - 1) -> {JUNK, END}]
  /\ Crashing \in BOOLEAN /\ MaxFaults \in Nat

VARIABLES
  mod, lock,
  HEAD, minor_pf,            \* the list, a field of its entries
  pending,                   \* the delayed work waits for its time
  wpc, itr, tmps, index,     \* the work callback: control and locals
  vm, offset, BUFFER_FILLED_UP,
  pc, min_flt,               \* processes: control, fault counter of the task
  mpc, mindex, printed,      \* the monitor: control, index, elements printed
  faults, counted, samples, recorded, listed  \* what happened: faults, faults in
                             \* samples, samples, those not read and not overwritten,
                             \* processes that have registered

entry   == <<HEAD, minor_pf>>
callback == <<wpc, itr, tmps, index>>
buffer  == <<vm, offset, BUFFER_FILLED_UP>>
proc    == <<pc, min_flt>>
monitor == <<mpc, mindex, printed>>
history == <<faults, counted, samples, recorded, listed>>
vars == <<mod, lock, entry, pending, callback, buffer, proc, monitor, history>>

NextSample == samples + 1

Init ==
  /\ mod = "absent" /\ lock = NULL /\ HEAD = <<>> /\ minor_pf = [p \in Works |-> 0]
  /\ pending = FALSE /\ wpc = "idle" /\ itr = 1 /\ tmps = 0 /\ index = 0
  /\ vm \in Garbage /\ offset = 0 /\ BUFFER_FILLED_UP = FALSE
  /\ pc = [p \in Works |-> "start"]
  /\ min_flt = [p \in Works |-> 0]
  /\ mpc = "closed" /\ mindex = 0 /\ printed = <<>>
  /\ faults = 0 /\ counted = 0 /\ samples = 0 /\ recorded = <<>> /\ listed = {}

mp3_init ==
  /\ mod = "absent"
  /\ mod' = "live" /\ HEAD' = <<>> /\ offset' = 0 /\ BUFFER_FILLED_UP' = FALSE
  /\ UNCHANGED <<lock, minor_pf, pending, callback, vm, proc, monitor, history>>
-----------------------------------------------------------------------------
(***************************************************************************)
(* A process that is profiled.  A write while there is no proc entry fails *)
(* and the process goes on.                                                *)
(***************************************************************************)
Goto(p, l) == pc' = [pc EXCEPT ![p] = l]
Open == mod \in {"live", "locked"}
InHandler(p) == pc[p] \in {"reg", "unreg", "cancel"}

\* mywrite, up to the lock: the entry is allocated, its counters undefined.
mywrite(p) ==
  /\ pc[p] \in {"start", "run"} /\ mpc = "closed"
  /\ Goto(p, IF pc[p] = "start" THEN (IF Open THEN "reg" ELSE "run")
             ELSE IF Open THEN "unreg" ELSE "done")
  /\ IF pc[p] = "start" THEN \E v \in 0..1 : minor_pf' = [minor_pf EXCEPT ![p] = v]
                        ELSE UNCHANGED minor_pf
  /\ UNCHANGED <<mod, lock, HEAD, pending, callback, buffer, min_flt, monitor, history>>

\* reg_entry before the lock: the process was killed while its shell was
\* writing, there is no task with its pid, and the handler gives up.
reg_no_task(p) ==
  /\ pc[p] = "reg" /\ Crashing
  /\ Goto(p, "dead")
  /\ UNCHANGED <<mod, lock, entry, pending, callback, buffer, min_flt, monitor, history>>

\* Whether the list is empty is looked at after the insertion.
reg_entry_late_check(p) ==
  /\ pc[p] = "reg" /\ lock = NULL
  /\ HEAD' = Append(HEAD, p) /\ listed' = listed \cup {p} /\ Goto(p, "run")
  /\ pending' = (pending \/ HEAD' = <<>>)
  /\ UNCHANGED <<mod, lock, minor_pf, callback, buffer, min_flt, monitor, faults, counted,
                 samples, recorded>>

\* The first process starts the delayed work.
reg_entry(p) ==
  /\ pc[p] = "reg" /\ lock = NULL
  /\ pending' = (pending \/ HEAD = <<>>)
  /\ HEAD' = Append(HEAD, p) /\ listed' = listed \cup {p} /\ Goto(p, "run")
  /\ UNCHANGED <<mod, lock, minor_pf, callback, buffer, min_flt, monitor, faults, counted,
                 samples, recorded>>

\* The work is not cancelled with the last process.
unreg_entry_keeps_work(p) ==
  /\ pc[p] = "unreg" /\ lock = NULL
  /\ HEAD' = Without(HEAD, p)
  /\ offset' = IF HEAD' = <<>> THEN 0 ELSE offset
  /\ Goto(p, "done")
  /\ UNCHANGED <<mod, lock, minor_pf, pending, callback, vm, BUFFER_FILLED_UP, min_flt, monitor,
                 history>>

\* The buffer is not begun anew when the last process goes.
unreg_entry_keeps_offset(p) ==
  /\ pc[p] = "unreg" /\ lock = NULL
  /\ HEAD' = Without(HEAD, p)
  /\ IF HEAD' = <<>> THEN lock' = p /\ Goto(p, "cancel")
                     ELSE Goto(p, "done") /\ UNCHANGED lock
  /\ UNCHANGED <<mod, minor_pf, pending, callback, buffer, min_flt, monitor, history>>

\* When the process is not in the list the handler returns with the lock;
\* when it was the last one the work is cancelled before the lock is free.
unreg_entry(p) ==
  /\ pc[p] = "unreg" /\ lock = NULL
  /\ IF p \in Range(HEAD)
     THEN /\ HEAD' = Without(HEAD, p)
          /\ IF HEAD' = <<>>
             THEN offset' = 0 /\ lock' = p /\ Goto(p, "cancel")
             ELSE Goto(p, "done") /\ UNCHANGED <<offset, lock>>
     ELSE lock' = p /\ Goto(p, "done") /\ UNCHANGED <<HEAD, offset>>
  /\ UNCHANGED <<mod, minor_pf, pending, callback, vm, BUFFER_FILLED_UP, min_flt, monitor, history>>

\* cancel_delayed_work_sync waits for a callback that runs; kfree, unlock.
unreg_cancel(p) ==
  /\ pc[p] = "cancel" /\ wpc = "idle"
  /\ pending' = FALSE /\ lock' = NULL /\ Goto(p, "done")
  /\ UNCHANGED <<mod, entry, callback, buffer, min_flt, monitor, history>>

fault(p) ==
  /\ pc[p] = "run" /\ faults < MaxFaults
  /\ min_flt' = [min_flt EXCEPT ![p] = @ + 1] /\ faults' = faults + 1
  /\ UNCHANGED <<mod, lock, entry, pending, callback, buffer, pc, monitor, counted,
                 samples, recorded, listed>>

\* The process ends without unregistering (work.c:80-85, or a signal).
crash(p) ==
  /\ Crashing /\ pc[p] = "run"
  /\ Goto(p, "dead")
  /\ UNCHANGED <<mod, lock, entry, pending, callback, buffer, min_flt, monitor, history>>

calls(p) == \/ mywrite(p) \/ reg_no_task(p) \/ reg_entry(p)
            \/ unreg_entry(p) \/ unreg_cancel(p)
-----------------------------------------------------------------------------
(***************************************************************************)
(* The work callback.                                                      *)
(***************************************************************************)
wq_begin ==
  /\ pending /\ wpc = "idle"
  /\ pending' = FALSE /\ wpc' = "check"
  /\ UNCHANGED <<mod, lock, entry, itr, tmps, index, buffer, proc, monitor, history>>

\* BUFFER_FILLED_UP is read without the lock.
wq_check ==
  /\ wpc = "check" /\ wpc' = IF BUFFER_FILLED_UP THEN "idle" ELSE "lock"
  /\ UNCHANGED <<mod, lock, entry, pending, itr, tmps, index, buffer, proc, monitor, history>>

Visit(i) == /\ itr' = i /\ wpc' = IF i <= Len(HEAD) THEN "read" ELSE "write"

wq_lock ==
  /\ wpc = "lock" /\ lock = NULL /\ lock' = "wq"
  /\ Visit(1) /\ tmps' = 0 /\ index' = 0
  /\ UNCHANGED <<mod, entry, pending, buffer, proc, monitor, history>>

\* The counters of the task are not cleared.
get_cpu_use_keeps ==
  LET p == HEAD[itr] IN
  /\ wpc = "read"
  /\ minor_pf' = [minor_pf EXCEPT ![p] = min_flt[p]]
  /\ tmps' = tmps + min_flt[p] /\ Visit(itr + 1)
  /\ UNCHANGED <<mod, lock, HEAD, pending, index, buffer, proc, monitor, history>>

\* get_cpu_use reads the counters of a task that exists, then clears them;
\* its result is ignored, so the old values of the entry count otherwise.
get_cpu_use ==
  LET p == HEAD[itr] IN
  \/ /\ wpc = "read" /\ pc[p] # "dead"
     /\ minor_pf' = [minor_pf EXCEPT ![p] = min_flt[p]]
     /\ tmps' = tmps + min_flt[p] /\ wpc' = "clear"
     /\ UNCHANGED <<mod, lock, HEAD, pending, itr, index, buffer, proc, monitor, history>>
  \/ /\ wpc = "read" /\ pc[p] = "dead"
     /\ tmps' = tmps + minor_pf[p] /\ Visit(itr + 1)
     /\ UNCHANGED <<mod, lock, entry, pending, index, buffer, proc, monitor, history>>
  \/ /\ wpc = "clear"
     /\ min_flt' = [min_flt EXCEPT ![p] = 0] /\ Visit(itr + 1)
     /\ UNCHANGED <<mod, lock, entry, pending, tmps, index, buffer, pc, monitor, history>>

wq_write ==
  /\ wpc = "write"
  /\ vm' = [vm EXCEPT ![offset + index] = Element(NextSample, index)]
  /\ index' = index + 1 /\ wpc' = IF index = 3 THEN "end" ELSE "write"
  /\ UNCHANGED <<mod, lock, entry, pending, itr, tmps, offset, BUFFER_FILLED_UP, proc, monitor,
                 history>>

Finish == /\ offset' = offset + 4 /\ pending' = TRUE /\ wpc' = "idle"
          /\ counted' = counted + tmps /\ samples' = NextSample
          /\ recorded' = IF offset = 0 THEN <<NextSample>> ELSE Append(recorded, NextSample)
          /\ UNCHANGED <<mod, entry, itr, tmps, index, proc, monitor, faults, listed>>

\* The end of the buffer is noticed one sample late; the terminator is not
\* written; the lock is kept.
wq_end_late ==
  /\ wpc = "end" /\ Finish
  /\ IF offset' > VM_ELEMENT_SIZE
     THEN BUFFER_FILLED_UP' = TRUE /\ UNCHANGED vm
     ELSE vm' = [vm EXCEPT ![offset'] = END] /\ UNCHANGED BUFFER_FILLED_UP
  /\ lock' = NULL
wq_end_unterminated ==
  /\ wpc = "end" /\ Finish
  /\ BUFFER_FILLED_UP' = (offset' >= VM_ELEMENT_SIZE) /\ UNCHANGED vm
  /\ lock' = NULL
wq_end_keeps_lock ==
  /\ wpc = "end" /\ Finish
  /\ IF offset' >= VM_ELEMENT_SIZE
     THEN BUFFER_FILLED_UP' = TRUE /\ UNCHANGED vm
     ELSE vm' = [vm EXCEPT ![offset'] = END] /\ UNCHANGED BUFFER_FILLED_UP
  /\ UNCHANGED lock

\* The terminator, unless the buffer is full; the work is queued again.
wq_end ==
  /\ wpc = "end" /\ Finish
  /\ IF offset' >= VM_ELEMENT_SIZE
     THEN BUFFER_FILLED_UP' = TRUE /\ UNCHANGED vm
     ELSE vm' = [vm EXCEPT ![offset'] = END] /\ UNCHANGED BUFFER_FILLED_UP
  /\ lock' = NULL

workqueue_callback == \/ wq_begin \/ wq_check \/ wq_lock \/ get_cpu_use
                      \/ wq_write \/ wq_end
-----------------------------------------------------------------------------
(***************************************************************************)
(* The monitor: it skips to the first element that is not -1, prints up to *)
(* the next -1 in rows of four, and leaves -1 behind.  With no samples to  *)
(* read it prints what else is in the buffer.                              *)
(***************************************************************************)
buf_init ==
  /\ mpc = "closed" /\ mod = "live"
  /\ \A p \in Works : pc[p] \in {"start", "done", "dead"}
  /\ mpc' = "skip"
  /\ UNCHANGED <<mod, lock, entry, pending, callback, buffer, proc, mindex, printed, history>>

mon_skip ==
  /\ mpc = "skip"
  /\ IF mindex < BUFD_MAX /\ vm[mindex] = END
     THEN mindex' = mindex + 1 /\ UNCHANGED mpc
     ELSE mpc' = "read" /\ UNCHANGED mindex
  /\ UNCHANGED <<mod, lock, entry, pending, callback, buffer, proc, printed, history>>

mon_read ==
  /\ mpc = "read" /\ (Len(printed) % 4 # 0 \/ vm[mindex] # END)
  /\ printed' = Append(printed, vm[mindex])
  /\ vm' = [vm EXCEPT ![mindex] = END]
  /\ mindex' = IF mindex + 1 >= BUFD_MAX THEN 0 ELSE mindex + 1
  /\ UNCHANGED <<mod, lock, entry, pending, callback, offset, BUFFER_FILLED_UP, proc, mpc, history>>

buf_exit ==
  /\ mpc = "read" /\ Len(printed) % 4 = 0 /\ vm[mindex] = END
  /\ mpc' = "closed" /\ mindex' = 0 /\ printed' = <<>> /\ recorded' = <<>>
  /\ UNCHANGED <<mod, lock, entry, pending, callback, buffer, proc, faults, counted, samples,
                 listed>>
-----------------------------------------------------------------------------
(***************************************************************************)
(* rmmod: mp3_exit, refused while the device is open.  proc_remove refuses *)
(* new calls and waits for the ones that run.                              *)
(***************************************************************************)
exit_lock ==
  /\ mod = "live" /\ mpc = "closed" /\ lock = NULL
  /\ mod' = "locked" /\ lock' = "rmmod"
  /\ UNCHANGED <<entry, pending, callback, buffer, proc, monitor, history>>

proc_remove ==
  /\ \/ mod = "locked" /\ mod' = "removing"
     \/ mod = "removing" /\ (\A p \in Works : ~InHandler(p)) /\ mod' = "removed"
  /\ UNCHANGED <<lock, entry, pending, callback, buffer, proc, monitor, history>>

\* cancel_delayed_work_sync, destroy_workqueue, vfree, spin_unlock
exit_cancel ==
  /\ mod = "removed" /\ wpc = "idle"
  /\ mod' = "gone" /\ pending' = FALSE /\ lock' = NULL
  /\ UNCHANGED <<entry, callback, buffer, proc, monitor, history>>

mp3_exit == exit_lock \/ proc_remove \/ exit_cancel
-----------------------------------------------------------------------------
Next == \/ mp3_init \/ mp3_exit \/ workqueue_callback
        \/ buf_init \/ mon_skip \/ mon_read \/ buf_exit
        \/ \E p \in Works : calls(p) \/ fault(p) \/ crash(p)

(***************************************************************************)
(* The delayed work runs when its time has come and the handlers go on.    *)
(* Nobody has to register, to unregister or to load the module.            *)
(***************************************************************************)
Fairness == /\ WF_vars(workqueue_callback) /\ WF_vars(proc_remove \/ exit_cancel)
            /\ WF_vars(mon_skip \/ mon_read \/ buf_exit)
            /\ \A p \in Works : WF_vars(InHandler(p) /\ calls(p))

Spec == Init /\ [][Next]_vars
FairSpec == Spec /\ Fairness
-----------------------------------------------------------------------------
\* Every variable keeps its type; in particular offset does not pass the end
\* of the buffer (mp3.c:108-122).
TypeOK ==
  /\ mod \in {"absent", "live", "locked", "removing", "removed", "gone"}
  /\ lock \in Works \cup {NULL, "wq", "rmmod"}
  /\ HEAD \in Seq(Works) /\ minor_pf \in [Works -> Nat] /\ pending \in BOOLEAN
  /\ wpc \in {"idle", "check", "lock", "read", "clear", "write", "end"}
  /\ itr \in Nat /\ tmps \in Nat /\ index \in 0..4
  /\ DOMAIN vm = 0..(VM_ELEMENTS - 1) /\ offset \in 0..VM_ELEMENT_SIZE
  /\ BUFFER_FILLED_UP \in BOOLEAN
  /\ pc \in [Works -> {"start", "reg", "run", "unreg", "cancel", "done", "dead"}]
  /\ min_flt \in [Works -> Nat]
  /\ mpc \in {"closed", "skip", "read"} /\ mindex \in 0..BUFD_MAX
  /\ faults \in 0..MaxFaults /\ counted \in Nat /\ samples \in Nat
  /\ listed \subseteq Works

\* The work is idle whenever the list is empty and nobody holds the lock, so
\* that the first registration may initialise it (mp3.c:190), and a callback
\* in the list finds it locked and not empty.
WorkOnlyWithTasks ==
  /\ HEAD = <<>> /\ lock = NULL => ~pending /\ wpc = "idle"
  /\ wpc \in {"read", "clear", "write", "end"} => lock = "wq" /\ HEAD # <<>>

\* The lock is held by the callback, by rmmod at work or by a call that has
\* not returned.  A call leaves it behind only on the path at mp3.c:205-208,
\* and only for a process that has never registered.
LockHasHolder ==
  /\ lock \in Works => InHandler(lock) \/ lock \notin listed
  /\ lock = "wq" <=> wpc \in {"read", "clear", "write", "end"}
  /\ lock = "rmmod" <=> mod \in {"locked", "removing", "removed"}

\* The lock has been left behind.
Left == lock \in Works /\ ~InHandler(lock)

\* Every element the callback writes, the terminator included, is one of the
\* buffer: "32 K sample * 16 Bytes of the four unsigned long data" fill
\* VM_SIZE (mp3.c:31).
InBounds ==
  /\ wpc = "write" => offset + index < VM_ELEMENTS
  /\ wpc = "end" /\ offset + 4 < VM_ELEMENT_SIZE => offset + 4 < VM_ELEMENTS

\* When a monitor ends that was started with samples nobody has read, it has
\* printed the samples recorded since the buffer was last begun from its
\* start, each one whole and in order, up to the number it is made for, and
\* nothing that earlier experiments or readers have left (monitor.c:97-122).
SamplesReadBack ==
  mpc = "read" /\ recorded # <<>> /\ Len(printed) % 4 = 0 /\ vm[mindex] = END =>
    LET rows == Len(printed) \div 4
    IN  /\ rows = IF 4 * Len(recorded) < BUFD_MAX THEN Len(recorded) ELSE BUFD_MAX \div 4
        /\ \A i \in 1..rows, k \in 0..3 : printed[4 * (i - 1) + k + 1] = Element(recorded[i], k)

\* the faults of p that are still to be sampled
Pending(p) == IF wpc = "clear" /\ HEAD[itr] = p THEN 0 ELSE min_flt[p]

\* No fault is counted twice: the samples and the counters that are still to
\* be sampled together hold at most the faults there were (get_cpu_use clears
\* what it has read, mp3_given.h:27-48).
NotOvercounted ==
  counted + (IF wpc \in {"read", "clear", "write", "end"} THEN tmps ELSE 0)
    + SumFunctionOnSet([p \in Works |-> Pending(p)], Works) <= faults

\* A registered process is sampled, or has called again, as long as the
\* buffer has room, the module stays and the lock is not left behind.
RegisteredIsSampled ==
  \A p \in Works, n \in 0..(VM_ELEMENT_SIZE \div 4) :
    pc[p] = "run" /\ p \in Range(HEAD) /\ offset = 4 * n
      ~> offset # 4 * n \/ pc[p] # "run" \/ BUFFER_FILLED_UP \/ mod # "live" \/ Left

\* A call returns, unless the lock was left behind before: "mywrite will
\* finish normally without return 0" (mp3.c:273).
CallsReturn == \A p \in Works : InHandler(p) ~> ~InHandler(p) \/ mod # "live" \/ Left
-----------------------------------------------------------------------------
(***************************************************************************)
(* The inductive invariant of the processes, the lock, the work and the    *)
(* buffer, on which the proofs rest.                                       *)
(***************************************************************************)
InList == wpc \in {"read", "clear", "write", "end"}

\* Who has the lock, and which stages of the removal have been passed.
Locking ==
  /\ lock = "wq" <=> InList
  /\ lock = "rmmod" <=> mod \in {"locked", "removing", "removed"}
  /\ \A p \in Works : /\ pc[p] = "cancel" => lock = p
                      /\ lock = p => pc[p] = "cancel" \/ (pc[p] = "done" /\ p \notin listed)
  /\ mod \in {"removed", "gone"} => \A p \in Works : ~InHandler(p)
  /\ mod = "absent" => /\ HEAD = <<>> /\ wpc = "idle" /\ ~pending
                       /\ listed = {} /\ recorded = <<>>
                       /\ \A p \in Works : ~InHandler(p)
  /\ mod = "gone" => wpc = "idle" /\ ~pending
  /\ mpc # "closed" => mod = "live"

\* Which processes are in the list, by what they are doing.
Membership ==
  /\ IsInjective(HEAD) /\ Range(HEAD) \subseteq listed
  /\ \A p \in Works :
       /\ pc[p] \in {"start", "reg"} => p \notin listed
       /\ p \in listed => /\ pc[p] = "unreg" => p \in Range(HEAD)
                          /\ pc[p] = "run" /\ Open => p \in Range(HEAD)
                          /\ pc[p] \in {"cancel", "done"} /\ Open => p \notin Range(HEAD)
       /\ pc[p] = "cancel" => HEAD = <<>> /\ p \in listed

\* Where the callback is in the list and in the buffer.
Filling ==
  /\ HEAD = <<>> /\ (\A p \in Works : pc[p] # "cancel") => ~pending /\ wpc = "idle"
  /\ InList => HEAD # <<>>
  /\ HEAD = <<>> => offset = 0
  /\ wpc \in {"read", "clear"} => itr \in 1..Len(HEAD) /\ index = 0
  /\ wpc = "write" => index \in 0..3
  /\ wpc = "end" => index = 4
  /\ offset % 4 = 0 /\ (~BUFFER_FILLED_UP => offset < VM_ELEMENT_SIZE)
  /\ wpc = "lock" \/ InList => ~BUFFER_FILLED_UP

\* All of it together: what mywrite, the callback and mp3_exit leave true of
\* the list, the lock, the work and the buffer at every step.
Inv == TypeOK /\ Locking /\ Membership /\ Filling

\* The callback is in the middle of a sample.
Busy == wpc \in {"write", "end"} /\ index > 0
Whole(n) == \A i \in 1..n, k \in 0..3 : vm[4 * (i - 1) + k] = Element(recorded[i], k)

\* What the buffer holds while the monitor is not reading: the recorded
\* samples from its start, a terminator if there is room, and the part of the
\* sample that is being written.
Stored ==
  /\ recorded \in Seq(Nat) /\ 4 * Len(recorded) <= VM_ELEMENT_SIZE
  /\ offset # 0 => offset = 4 * Len(recorded)
  /\ Busy => \A k \in 0..(index - 1) : vm[offset + k] = Element(NextSample, k)
  /\ mpc # "read" =>
       /\ offset # 0 \/ ~Busy => Whole(Len(recorded))
       /\ ~Busy /\ recorded # <<>> /\ 4 * Len(recorded) < VM_ELEMENT_SIZE
            => vm[4 * Len(recorded)] = END

\* Of the recorded samples the first t elements have been printed, and a
\* terminator left for each; the others are in the buffer.
ReadUpTo(t) ==
  \A i \in 1..Len(recorded), k \in 0..3 :
    LET j == 4 * (i - 1) + k
    IN  IF j < t THEN printed[j + 1] = Element(recorded[i], k) /\ vm[j] = END
                 ELSE vm[j] = Element(recorded[i], k)

\* How far the monitor has got if there was something to read, and what is
\* left of the buffer.
Reading ==
  /\ mpc # "closed" => /\ HEAD = <<>> /\ wpc = "idle" /\ ~pending
                       /\ \A p \in Works : pc[p] \in {"start", "done"}
  /\ mpc = "closed" \/ (mpc = "skip" /\ recorded # <<>>) => mindex = 0 /\ printed = <<>>
  /\ mpc = "read" /\ recorded # <<>> =>
       /\ printed \in Seq(Int) /\ Len(printed) <= BUFD_MAX /\ Len(printed) <= 4 * Len(recorded)
       /\ mindex = IF Len(printed) = BUFD_MAX THEN 0 ELSE Len(printed)
       /\ ReadUpTo(Len(printed))
       /\ 4 * Len(recorded) < VM_ELEMENT_SIZE => vm[4 * Len(recorded)] = END

\* What the callback and the monitor leave true of the buffer when no process
\* ends without unregistering: the samples stay whole until they are read.
Contents == Stored /\ Reading /\ \A p \in Works : pc[p] # "dead"
=============================================================================
