---------------------------- MODULE RMRefinement ----------------------------
(***************************************************************************)
(* RMScheduler on one processor implements RateMonotonic and the account   *)
(* of AdmissionControl.  Each handler of mp2.c takes effect at one of its  *)
(* steps.  For RateMonotonic: a registration when its record is filled in, *)
(* a yield when set_task_sleep clears curr_tsk, a switch when the next     *)
(* task is woken, a deregistration when it clears curr_tsk, the removal of *)
(* the module when freeall begins.  For the account: a registration and a  *)
(* deregistration when admission_control writes it.                        *)
(***************************************************************************)
EXTENDS RMScheduler

Departing == {"reg_fill", "dereg_read", "dereg_write", "dereg_free"}
Member    == IF Managed THEN {p \in Linked : pc[p] \notin Departing} ELSE {}
Released  == {p \in Member : state[p] # SLEEPING /\ pc[p] # "sleep_state"}
Blocked   == {p \in Member : \/ lstate[p] = "UNINTERRUPTIBLE"
                             \/ pc[p] \in {"sleep_state", "sleep_block"}}
Chosen    == IF dpc \in {"new_run", "new_curr"} THEN next ELSE curr_tsk

RM == INSTANCE RateMonotonic WITH Tasks <- Apps, None <- NULL, member <- Member,
        released <- Released, blocked <- Blocked, chosen <- Chosen

\* A process that is in a job has a task that is not SLEEPING.
InJob(p) == /\ lstate[p] = "RUNNING" /\ next_period[p] # 0
            /\ pc[p] \in {"user", "sleep_curr", "sleep_state", "yield_wake", "schedule",
                         "dereg_read", "dereg_write", "dereg_free"}
Awake == \A p \in Linked : Managed /\ InJob(p) => state[p] # SLEEPING

\* No process that could run has a shorter period than the best task the scan
\* has found in the part of the list behind its cursor.
Runnable(p) == state[p] # SLEEPING /\ lstate[p] = "RUNNING"
Best ==
  /\ dpc = "scan" => \A i \in 1..Len(HEAD) : itr = HEAD[i] =>
       \A j \in 1..(i - 1) : Runnable(HEAD[j]) => min_period <= Period[HEAD[j]]
  /\ dpc \in {"decide", "old", "new_wake"} =>
       \A p \in Linked : Runnable(p) => min_period <= Period[p]

\* What the refinement needs beyond Inv: every wake-up finds its task released
\* (mp2.c:381-384), and the dispatcher's choice is as good as its scan of the
\* list (mp2.c:364-374), although timers fire during the scan.
RInv == Awake /\ Best

\* Handlers, dispatcher, timers and rmmod of mp2.c together behave like the
\* abstract rate-monotonic scheduler: jobs are released only for registered
\* tasks, a process that yields stays blocked until its task is chosen after a
\* release, a task is chosen only if no process that could run has a shorter
\* period, and nobody is blocked when the module goes.
ImplementsRateMonotonic == RM!Spec
-----------------------------------------------------------------------------
\* Whose load the account holds: a task is charged when its admission is
\* written, before it is linked, and returned before it is freed.
Granted  == {p \in Apps : pc[p] = "reg_link"}
Returned == {p \in Apps : pc[p] = "dereg_free"}
Charged  == (Linked \cup Granted) \ Returned

\* The account as the calls see it: it is empty while the module does not
\* manage any task, and nobody registers with a period of 0.
NoTask       == [P |-> 0, C |-> 0]
Admitted     == [p \in Apps |-> IF Managed /\ p \in Charged
                                THEN [P |-> Period[p], C |-> Computation[p]] ELSE NoTask]
Recorded(v)  == IF Managed THEN v ELSE 0

AC == INSTANCE AdmissionControl WITH Pids <- Apps, None <- NoTask, MaxCalls <- 0,
        Periods <- Range(Period), Computations <- Range(Computation),
        numerator <- Recorded(numerator), denominator <- Recorded(denominator),
        task <- Admitted, wrapped <- FALSE, calls <- 0

\* The calls of admission_control are atomic (mp2.c:120-154, 161, 259): a
\* handler reads the account at one step and writes it at a later one, and yet
\* every admission and every release takes effect on the account as it is at
\* that moment, and on exactly the task it is about.
ImplementsAdmission == AC!Atomic
=============================================================================
