--------------------------- MODULE AdmissionProofs ---------------------------
(***************************************************************************)
(* Proofs about AdmissionControl for every set of tasks, every positive    *)
(* period, every computation time and every word size.                     *)
(***************************************************************************)
EXTENDS AdmissionControl, AdmissionFacts

(***************************************************************************)
(* Every step of the account, written once for both kinds of request.      *)
(***************************************************************************)
LEMMA AccountStep ==
  ASSUME NEW P \in Nat, NEW C \in Nat, NEW flag, TypeOK, RecordedBound,
         Account(P, C, flag), Noted(P, C)
  PROVE  /\ numerator' \in Nat /\ denominator' \in Nat
         /\ wrapped' \in BOOLEAN /\ calls' \in 0..MaxCalls /\ RecordedBound'
<1>1. numerator' \in Nat /\ denominator' \in Nat
  BY CallType, Zenon DEF TypeOK, Account
<1>2. wrapped' \in BOOLEAN
  BY Zenon DEF TypeOK, Noted
<1>3. calls' \in 0..MaxCalls
  BY RequestAssumption DEF TypeOK, Noted, Counted
<1>4. ASSUME ~wrapped' PROVE 1000 * numerator' <= 693 * denominator'
  <2>1. ~wrapped /\ InRange(numerator, denominator, P, C)
    BY <1>4, Zenon DEF Noted, TypeOK
  <2> QED BY <2>1, CallBound DEF RecordedBound, TypeOK, Account
<1>5. RecordedBound'
  BY <1>4, Zenon DEF RecordedBound
<1> QED BY <1>1, <1>2, <1>3, <1>5, Zenon

(***************************************************************************)
(* Whatever tasks register and leave, in whatever order, the fraction that *)
(* admission_control (mp2.c:120-154) records stays at or below 693/1000 as *)
(* long as no product has wrapped.                                         *)
(***************************************************************************)
THEOREM AdmissionInvariant == Spec => [](TypeOK /\ RecordedBound)
<1>1. Init => TypeOK /\ RecordedBound
  <2>1. ASSUME Init PROVE /\ numerator \in Nat /\ denominator \in Nat
                          /\ calls \in 0..MaxCalls /\ 1000 * numerator <= 693 * denominator
    BY <2>1, RequestAssumption DEF Init, Empty
  <2>2. ASSUME Init PROVE task \in [Pids -> Task \cup {None}] /\ wrapped \in BOOLEAN
    BY <2>2, Zenon DEF Init, Empty
  <2> QED BY <2>1, <2>2 DEF TypeOK, RecordedBound
<1>2. TypeOK /\ RecordedBound /\ [Next]_vars => (TypeOK /\ RecordedBound)'
  <2> SUFFICES ASSUME TypeOK, RecordedBound, [Next]_vars
               PROVE  (TypeOK /\ RecordedBound)'
    BY Zenon
  <2>1. ASSUME NEW p \in Pids, NEW P \in Periods, NEW C \in Computations,
               Register(p, P, C)
        PROVE  (TypeOK /\ RecordedBound)'
    <3>1. P \in Nat /\ C \in Nat
      BY RequestAssumption, Zenon
    <3>2. task' \in [Pids -> Task \cup {None}]
      BY <2>1 DEF Register, reg_entry, TypeOK, Task
    <3>3. Account(P, C, 0) /\ Noted(P, C)
      BY <2>1, Zenon DEF Register, reg_entry
    <3> QED BY <3>1, <3>2, <3>3, AccountStep, Zenon DEF TypeOK
  <2>2. ASSUME NEW p \in Pids, Deregister(p)
        PROVE  (TypeOK /\ RecordedBound)'
    <3>1. task[p].P \in Nat /\ task[p].C \in Nat
      BY <2>2, RequestAssumption, Zenon DEF Deregister, dereg_entry, TypeOK, Task
    <3>2. task' \in [Pids -> Task \cup {None}]
      BY <2>2, Zenon DEF Deregister, dereg_entry, TypeOK
    <3>3. Account(task[p].P, task[p].C, 1) /\ Noted(task[p].P, task[p].C)
      BY <2>2, Zenon DEF Deregister, dereg_entry
    <3> QED BY <3>1, <3>2, <3>3, AccountStep, Zenon DEF TypeOK
  <2>3. CASE Restart
    <3>1. numerator' \in Nat /\ denominator' \in Nat /\ calls' \in 0..MaxCalls
      BY <2>3, RequestAssumption DEF Restart, Reload, Counted, TypeOK
    <3>2. task' \in [Pids -> Task \cup {None}] /\ wrapped' \in BOOLEAN
      BY <2>3, Zenon DEF Restart, Reload
    <3>3. numerator' = 0 /\ denominator' = 0
      BY <2>3, Zenon DEF Restart, Reload
    <3>4. ASSUME ~wrapped' PROVE 1000 * numerator' <= 693 * denominator'
      BY ONLY <3>3, SMT
    <3>5. RecordedBound'
      BY <3>4, Zenon DEF RecordedBound
    <3> QED BY ONLY <3>1, <3>2, <3>5, Zenon DEF TypeOK
  <2>4. CASE UNCHANGED vars
    BY <2>4 DEF vars, core, TypeOK, RecordedBound
  <2> QED BY <2>1, <2>2, <2>3, <2>4, Zenon DEF Next
<1> QED BY <1>1, <1>2, PTL DEF Spec

(***************************************************************************)
(* The unsigned account of mp2.c:120-154 stays a pair of naturals and the  *)
(* list holds only tasks that were admitted, whatever came, left and was   *)
(* refused, the calls that wrapped included.                               *)
(***************************************************************************)
THEOREM TypesKept == Spec => []TypeOK
  BY AdmissionInvariant, PTL

-----------------------------------------------------------------------------
(***************************************************************************)
(* The periods and computation times of registered tasks are in range, and *)
(* there are finitely many.                                                *)
(***************************************************************************)
LEMMA TasksFacts ==
  ASSUME NEW t \in [Pids -> Task \cup {None}]
  PROVE  /\ IsFiniteSet(In(t)) /\ In(t) \in SUBSET Pids
         /\ Positive(PeriodsOf(t), In(t)) /\ Natural(ComputationsOf(t), In(t))
         /\ UsedD(t) \in Nat \ {0} /\ UsedN(t) \in Nat
<1>1. In(t) \in SUBSET Pids
  BY Zenon DEF In
<1>2. IsFiniteSet(In(t))
  BY <1>1, FS_Subset, RequestAssumption, Zenon
<1>3. ASSUME NEW p \in In(t) PROVE t[p].P \in Nat \ {0} /\ t[p].C \in Nat
  <2>1. t[p] \in Task
    BY Zenon DEF In
  <2> QED BY <2>1, RequestAssumption, Zenon DEF Task
<1>4. Positive(PeriodsOf(t), In(t)) /\ Natural(ComputationsOf(t), In(t))
  BY <1>3, Zenon DEF PeriodsOf, ComputationsOf, Positive, Natural
<1>5. UsedD(t) \in Nat \ {0} /\ UsedN(t) \in Nat
  BY <1>2, <1>4, UseType, Zenon DEF UsedD, UsedN
<1> QED BY <1>1, <1>2, <1>4, <1>5, Zenon

\* t2 is t with the task r of p.
Adds(t, p, r, t2) ==
  /\ t \in [Pids -> Task \cup {None}] /\ p \in Pids /\ t[p] = None
  /\ r \in Task /\ t2 = [t EXCEPT ![p] = r]

(***************************************************************************)
(* The exact sum with one task more.                                       *)
(***************************************************************************)
LEMMA UsedAdd ==
  ASSUME NEW t, NEW p, NEW r, NEW t2, Adds(t, p, r, t2)
  PROVE  /\ UsedD(t2) = r.P * UsedD(t)
         /\ UsedN(t2) = r.C * UsedD(t) + r.P * UsedN(t)
<1>0. /\ t \in [Pids -> Task \cup {None}] /\ p \in Pids /\ t[p] = None
      /\ r \in Task /\ t2 = [t EXCEPT ![p] = r]
  BY Zenon DEF Adds
<1>1. r # None
  BY <1>0, RequestAssumption, Zenon DEF Task
<1>2. In(t2) = In(t) \cup {p} /\ p \notin In(t)
  BY <1>0, <1>1, Zenon DEF In
<1>3. t2 \in [Pids -> Task \cup {None}]
  BY <1>0, Zenon
<1>4. IsFiniteSet(In(t)) /\ Positive(PeriodsOf(t2), In(t2)) /\ Natural(ComputationsOf(t2), In(t2))
  BY <1>0, <1>3, TasksFacts, Zenon
<1>5. \A y \in In(t) : /\ PeriodsOf(t)[y] = PeriodsOf(t2)[y]
                       /\ ComputationsOf(t)[y] = ComputationsOf(t2)[y]
  <2> SUFFICES ASSUME NEW y \in In(t)
               PROVE  t2[y] = t[y] /\ y \in In(t2)
    BY Zenon DEF PeriodsOf, ComputationsOf
  <2> QED BY <1>0, <1>2, Zenon DEF In
<1>6. PeriodsOf(t2)[p] = r.P /\ ComputationsOf(t2)[p] = r.C
  <2>1. t2[p] = r /\ p \in In(t2)
    BY <1>0, <1>2, Zenon
  <2> QED BY <2>1, Zenon DEF PeriodsOf, ComputationsOf
<1> DEFINE S == In(t)
           P2 == PeriodsOf(t2)
           C2 == ComputationsOf(t2)
           P1 == PeriodsOf(t)
           C1 == ComputationsOf(t)
<1>7. /\ IsFiniteSet(S) /\ p \notin S /\ Positive(P2, S \cup {p}) /\ Natural(C2, S \cup {p})
      /\ Agree(P1, P2, S) /\ Agree(C1, C2, S)
  BY <1>2, <1>4, <1>5, Zenon DEF Agree
<1> HIDE DEF S, P1, P2, C1, C2
<1>8. /\ Prod(P2, S \cup {p}) = P2[p] * Prod(P1, S)
      /\ Sum(P2, C2, S \cup {p}) = C2[p] * Prod(P1, S) + P2[p] * Sum(P1, C1, S)
  BY <1>7, UseAdd, SMT
<1> QED BY <1>2, <1>6, <1>8, Zenon DEF S, P1, P2, C1, C2, UsedD, UsedN

(***************************************************************************)
(* 0/0 records the load of no task.                                        *)
(***************************************************************************)
LEMMA EmptyRecord ==
  ASSUME NEW t, t = [p \in Pids |-> None]
  PROVE  Records(0, 0, UsedN(t), UsedD(t))
<1>1. t \in [Pids -> Task \cup {None}] /\ In(t) = {}
  BY Zenon DEF In
<1>2. UsedN(t) = 0
  BY <1>1, TasksFacts, UseType, Zenon DEF UsedN
<1>3. UsedD(t) \in Nat
  BY <1>1, TasksFacts, Zenon
<1> QED BY <1>2, <1>3 DEF Records

(***************************************************************************)
(* numerator/denominator (mp2.c:120-154) is exactly the sum of C/P over    *)
(* the registered tasks, whatever tasks register and leave, in whatever    *)
(* order and number, as long as no product has wrapped.                    *)
(***************************************************************************)
THEOREM AccountIsExact == Spec => []Accounted
<1> DEFINE R == ~wrapped => Records(numerator, denominator, UsedN(task), UsedD(task))
<1>1. Init => R
  BY EmptyRecord, Zenon DEF Init, Empty
<1>2. TypeOK /\ TypeOK' /\ R /\ [Next]_vars => R'
  <2> SUFFICES ASSUME TypeOK, TypeOK', R, [Next]_vars, ~wrapped'
               PROVE  Records(numerator', denominator', UsedN(task'), UsedD(task'))
    BY Zenon
  <2> DEFINE n == numerator
             d == denominator
             t == task
  <2>1. n \in Nat /\ d \in Nat /\ t \in [Pids -> Task \cup {None}] /\ wrapped \in BOOLEAN
        /\ task' \in [Pids -> Task \cup {None}]
    BY Zenon DEF TypeOK
  <2>2. UsedD(t) \in Nat \ {0} /\ UsedN(t) \in Nat /\ UsedD(task') \in Nat \ {0} /\ UsedN(task') \in Nat
    BY <2>1, TasksFacts, Zenon
  <2>3. ASSUME NEW p \in Pids, NEW P \in Periods, NEW C \in Computations, Register(p, P, C)
        PROVE  Records(numerator', denominator', UsedN(task'), UsedD(task'))
    <3> DEFINE r == [P |-> P, C |-> C]
    <3>1. P \in Nat \ {0} /\ C \in Nat /\ r \in Task /\ r.P = P /\ r.C = C
      BY RequestAssumption, Zenon DEF Task
    <3>2. ~wrapped /\ InRange(n, d, P, C) /\ t[p] = None
      BY <2>1, <2>3, Zenon DEF Register, reg_entry, Noted
    <3>3. Records(n, d, UsedN(t), UsedD(t))
      BY <3>2, Zenon
    <3>4. CASE Fits(n, d, P, C)
      <4>1. numerator' = AdmitN(n, d, P, C) /\ denominator' = AdmitD(n, d, P, C)
            /\ task' = [t EXCEPT ![p] = r]
        BY <2>3, <3>4 DEF Register, reg_entry, Account, admission_control
      <4>2. UsedD(task') = P * UsedD(t) /\ UsedN(task') = C * UsedD(t) + P * UsedN(t)
        <5>1. Adds(t, p, r, task')
          BY <2>1, <3>1, <3>2, <4>1, Zenon DEF Adds
        <5> QED BY <3>1, <5>1, UsedAdd, Zenon
      <4>3. PICK N, D, v, u : N = n /\ D = d /\ v = UsedN(t) /\ u = UsedD(t)
        BY ONLY Zenon
      <4>4. Records(AdmitN(N, D, P, C), AdmitD(N, D, P, C), C * u + P * v, P * u)
        <5>1. N \in Nat /\ D \in Nat /\ v \in Nat /\ u \in Nat \ {0} /\ Records(N, D, v, u)
              /\ InRange(N, D, P, C)
          BY ONLY <2>1, <2>2, <3>2, <3>3, <4>3, Zenon
        <5> QED BY ONLY <3>1, <5>1, AdmitExact, Zenon
      <4> QED BY ONLY <4>1, <4>2, <4>3, <4>4, Zenon
    <3>5. CASE ~Fits(n, d, P, C)
      <4>1. numerator' = n /\ denominator' = d /\ task' = t
        BY <2>3, <3>5 DEF Register, reg_entry, Account, admission_control
      <4> QED BY <3>3, <4>1, Zenon
    <3> QED BY <3>4, <3>5, Zenon
  <2>4. ASSUME NEW p \in Pids, Deregister(p)
        PROVE  Records(numerator', denominator', UsedN(task'), UsedD(task'))
    <3> DEFINE r == t[p]
    <3>1. r \in Task /\ r.P \in Nat \ {0} /\ r.C \in Nat
      <4>1. r \in Task
        BY <2>1, <2>4, Zenon DEF Deregister, dereg_entry
      <4> QED BY <4>1, RequestAssumption, Zenon DEF Task
    <3>2. ~wrapped /\ InRange(n, d, r.P, r.C)
      BY <2>1, <2>4, Zenon DEF Deregister, dereg_entry, Noted
    <3>3. Records(n, d, UsedN(t), UsedD(t))
      BY <3>2, Zenon
    <3>4. numerator' = ReleaseN(n, d, r.P, r.C) /\ denominator' = ReleaseD(n, d, r.P, r.C)
      BY <2>4, Zenon DEF Deregister, dereg_entry, Account, admission_control
    <3>5. task'[p] = None /\ t = [task' EXCEPT ![p] = r]
      BY <2>1, <2>4, Zenon DEF Deregister, dereg_entry
    <3>6. UsedD(t) = r.P * UsedD(task') /\ UsedN(t) = r.C * UsedD(task') + r.P * UsedN(task')
      <4>1. Adds(task', p, r, t)
        BY <2>1, <3>1, <3>5, Zenon DEF Adds
      <4> QED BY <4>1, UsedAdd, Zenon
    <3> QED BY <2>1, <2>2, <3>1, <3>2, <3>3, <3>4, <3>6, ReleaseExact, Zenon
  <2>5. CASE Restart
    BY <2>5, EmptyRecord, Zenon DEF Restart, Reload
  <2>6. CASE UNCHANGED vars
    BY <2>1, <2>6, Zenon DEF vars, core
  <2> QED BY <2>3, <2>4, <2>5, <2>6, Zenon DEF Next
<1>3. R => Accounted
  BY Zenon DEF Records, Accounted
<1>4. Spec => []TypeOK
  BY AdmissionInvariant, PTL
<1> HIDE DEF R
<1> QED BY <1>1, <1>2, <1>3, <1>4, PTL DEF Spec

(***************************************************************************)
(* The answer reg_entry acts on (mp2.c:133) is the right one in every      *)
(* reachable state: a request is admitted exactly when the sum with it is  *)
(* at most 0.693, as long as no product wraps.                             *)
(***************************************************************************)
THEOREM DecisionsAreExact == Spec => []DecisionExact
<1>1. TypeOK /\ Accounted => DecisionExact
  <2> SUFFICES ASSUME TypeOK, Accounted, ~wrapped,
                      NEW p \in Pids \ In(task), NEW P \in Periods, NEW C \in Computations,
                      InRange(numerator, denominator, P, C),
                      NEW t, t = [task EXCEPT ![p] = [P |-> P, C |-> C]]
               PROVE  (admission_control(numerator, denominator, P, C, 0).ret = 0)
                        <=> 1000 * UsedN(t) <= 693 * UsedD(t)
    BY DEF DecisionExact
  <2> DEFINE r == [P |-> P, C |-> C]
  <2>1. P \in Nat \ {0} /\ C \in Nat /\ r \in Task /\ r.P = P /\ r.C = C
    BY RequestAssumption, Zenon DEF Task
  <2>2. /\ numerator \in Nat /\ denominator \in Nat /\ task \in [Pids -> Task \cup {None}]
        /\ task[p] = None
    BY Zenon DEF TypeOK, In
  <2>3. UsedD(task) \in Nat \ {0} /\ UsedN(task) \in Nat
    BY <2>2, TasksFacts, Zenon
  <2>4. Records(numerator, denominator, UsedN(task), UsedD(task))
    BY Zenon DEF Accounted, Records
  <2>5. UsedD(t) = P * UsedD(task) /\ UsedN(t) = C * UsedD(task) + P * UsedN(task)
    <3>1. Adds(task, p, r, t)
      BY <2>1, <2>2, Zenon DEF Adds
    <3> QED BY <2>1, <3>1, UsedAdd, Zenon
  <2>6. Fits(numerator, denominator, P, C) <=>
          1000 * (C * UsedD(task) + P * UsedN(task)) <= 693 * (P * UsedD(task))
    <3> DEFINE u == UsedD(task)
               v == UsedN(task)
               n == numerator
               d == denominator
    <3>1. /\ n \in Nat /\ d \in Nat /\ u \in Nat \ {0} /\ v \in Nat /\ Records(n, d, v, u)
          /\ InRange(n, d, P, C)
      BY <2>2, <2>3, <2>4, Zenon
    <3> HIDE DEF u, v, n, d
    <3>2. Fits(n, d, P, C) <=> 1000 * (C * u + P * v) <= 693 * (P * u)
      BY <2>1, <3>1, FitsExact
    <3> QED BY <3>2, Zenon DEF u, v, n, d
  <2>7. (admission_control(numerator, denominator, P, C, 0).ret = 0)
          <=> Fits(numerator, denominator, P, C)
    BY DEF admission_control
  <2> QED BY <2>5, <2>6, <2>7
<1> QED BY <1>1, AdmissionInvariant, AccountIsExact, PTL

(***************************************************************************)
(* What admission control is for (mp2.c:133): until a product wraps, the   *)
(* registered tasks together use at most 0.693 of the processor.           *)
(***************************************************************************)
THEOREM UtilizationBounded == Spec => [](~wrapped => UtilizationBound)
<1>1. TypeOK /\ RecordedBound /\ Accounted => (~wrapped => UtilizationBound)
  <2> SUFFICES ASSUME TypeOK, RecordedBound, Accounted, ~wrapped PROVE UtilizationBound
    BY Zenon
  <2> DEFINE n == numerator
             d == denominator
             u == UsedD(task)
             v == UsedN(task)
  <2>1. n \in Nat /\ d \in Nat /\ u \in Nat \ {0} /\ v \in Nat
    BY TasksFacts, Zenon DEF TypeOK
  <2>2. 1000 * n <= 693 * d /\ n * u = d * v /\ (d = 0 => v = 0)
    BY DEF RecordedBound, Accounted
  <2> HIDE DEF n, d, u, v
  <2>3. CASE d = 0
    BY <2>1, <2>2, <2>3 DEF UtilizationBound, u, v
  <2>4. CASE d # 0
    <3>1. (1000 * n) * u <= (693 * d) * u
      BY <2>1, <2>2, ScaleLeq
    <3>2. (1000 * n) * u = 1000 * (n * u) /\ (693 * d) * u = d * (693 * u)
      BY <2>1, SMT
    <3>3. 1000 * (d * v) = d * (1000 * v)
      BY <2>1, SMT
    <3>4. d * (1000 * v) <= d * (693 * u)
      BY <2>2, <3>1, <3>2, <3>3, SMT
    <3> DEFINE a == 1000 * v
               b == 693 * u
    <3>5. a \in Int /\ b \in Int /\ d \in Nat \ {0} /\ d * a <= d * b
      BY <2>1, <2>4, <3>4
    <3> HIDE DEF a, b
    <3>6. a <= b
      BY <3>5, Cancel, Zenon
    <3> QED BY <3>6 DEF a, b, u, v, UtilizationBound
  <2> QED BY <2>3, <2>4, Zenon
<1> QED BY <1>1, AdmissionInvariant, AccountIsExact, PTL
=============================================================================
