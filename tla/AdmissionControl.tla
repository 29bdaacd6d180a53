--------------------------- MODULE AdmissionControl ---------------------------
(***************************************************************************)
(* The life of the utilisation account: reg_entry() and dereg_entry() of   *)
(* MP2/mp2.c seen from admission_control() alone.  Here every call is one  *)
(* step; RMScheduler interleaves the accesses of the handlers, and is      *)
(* shown to implement Atomic on one processor (RMRefinement).              *)
(***************************************************************************)
EXTENDS Admission, FiniteSets

CONSTANTS Pids, Periods, Computations,
          None,        \* not registered
          MaxCalls     \* bound on the number of calls explored

ASSUME RequestAssumption ==
  /\ Periods \subseteq Nat \ {0} /\ Computations \subseteq Nat
  /\ IsFiniteSet(Pids) /\ MaxCalls \in Nat
  /\ None \notin [P : Periods, C : Computations]

VARIABLES numerator, denominator,
          task,        \* task[p]: the period and computation p registered with
          wrapped,     \* history: some call has left the range of its words
          calls        \* number of calls so far

core == <<numerator, denominator, task>>
vars == <<core, wrapped, calls>>

Task == [P : Periods, C : Computations]

Empty == /\ numerator = 0 /\ denominator = 0
         /\ task = [p \in Pids |-> None]

Account(P, C, flag) ==
  LET r == admission_control(numerator, denominator, P, C, flag)
  IN  numerator' = r.n /\ denominator' = r.d

reg_entry(p, P, C) ==
  /\ task[p] = None
  /\ Account(P, C, 0)
  /\ IF admission_control(numerator, denominator, P, C, 0).ret = 0
     THEN task' = [task EXCEPT ![p] = [P |-> P, C |-> C]]
     ELSE UNCHANGED task

\* The account is left alone when a task leaves.
dereg_entry_keeps_share(p) ==
  /\ task[p] # None
  /\ task' = [task EXCEPT ![p] = None]
  /\ UNCHANGED <<numerator, denominator>>

dereg_entry(p) ==
  /\ task[p] # None
  /\ Account(task[p].P, task[p].C, 1)
  /\ task' = [task EXCEPT ![p] = None]

\* rmmod frees every record; the next insmod begins with an empty account.
Reload == /\ numerator' = 0 /\ denominator' = 0
          /\ task' = [p \in Pids |-> None]

\* What the module promises about the account, whatever its handlers do in
\* between: every call takes effect at once.
Atomic == Empty /\ [][\/ Reload
                       \/ \E p \in Pids : \/ \E P \in Periods, C \in Computations : reg_entry(p, P, C)
                                          \/ dereg_entry(p)]_core
-----------------------------------------------------------------------------
(***************************************************************************)
(* The same with the history that the properties speak of.                 *)
(***************************************************************************)
Init == Empty /\ wrapped = FALSE /\ calls = 0

Counted == calls < MaxCalls /\ calls' = calls + 1
Noted(P, C) == Counted /\ wrapped' = (wrapped \/ ~InRange(numerator, denominator, P, C))

Register(p, P, C) == reg_entry(p, P, C) /\ Noted(P, C)
Deregister(p)     == dereg_entry(p) /\ Noted(task[p].P, task[p].C)
Restart           == Reload /\ Counted /\ wrapped' = FALSE

Next == \/ Restart
        \/ \E p \in Pids : \/ \E P \in Periods, C \in Computations : Register(p, P, C)
                           \/ Deregister(p)

Spec == Init /\ [][Next]_vars
-----------------------------------------------------------------------------
(***************************************************************************)
(* The reference: the exact sum of C/P over the tasks of t, as the         *)
(* fraction UsedN(t) / UsedD(t).                                           *)
(***************************************************************************)
In(t) == {p \in Pids : t[p] # None}
PeriodsOf(t)      == [p \in In(t) |-> t[p].P]
ComputationsOf(t) == [p \in In(t) |-> t[p].C]
UsedD(t) == Prod(PeriodsOf(t), In(t))
UsedN(t) == Sum(PeriodsOf(t), ComputationsOf(t), In(t))

\* The account is a pair of naturals and every task is absent or one of the
\* requests: a release (mp2.c:126-131) never takes away more than there is.
TypeOK == /\ numerator \in Nat /\ denominator \in Nat
          /\ task \in [Pids -> Task \cup {None}]
          /\ wrapped \in BOOLEAN /\ calls \in 0..MaxCalls

\* The recorded fraction never exceeds 693/1000, whatever tasks came and
\* went, as long as no call has wrapped (admission_control, mp2.c:133-151).
RecordedBound == ~wrapped => 1000 * numerator <= 693 * denominator

\* numerator/denominator is exactly the sum of C/P of the registered tasks:
\* the releases of dereg_entry undo the additions of reg_entry, the reset at
\* mp2.c:126 included, as long as no call has wrapped.
Accounted ==
  ~wrapped => /\ numerator * UsedD(task) = denominator * UsedN(task)
              /\ denominator = 0 => UsedN(task) = 0

\* Any request made now is admitted exactly when the sum of C/P with it is at
\* most 0.693 (mp2.c:133), as long as no product wraps: nothing admissible is
\* refused and nothing else gets in.
DecisionExact ==
  ~wrapped =>
    \A p \in Pids \ In(task), P \in Periods, C \in Computations :
      InRange(numerator, denominator, P, C) =>
        LET t == [task EXCEPT ![p] = [P |-> P, C |-> C]]
        IN  (admission_control(numerator, denominator, P, C, 0).ret = 0)
              <=> 1000 * UsedN(t) <= 693 * UsedD(t)

\* The condition the account is kept for, with no reservation: the registered
\* tasks together use at most 0.693 of the processor (mp2.c:133).
UtilizationBound == 1000 * UsedN(task) <= 693 * UsedD(task)
=============================================================================
