-------------------------- MODULE CpuMonitorProofs --------------------------
(***************************************************************************)
(* Proofs about CpuMonitor, for any number of processes and workers.       *)
(***************************************************************************)
EXTENDS CpuMonitor, DataFacts

(***************************************************************************)
(* What list_for_each_entry_safe saves as the next entry.                  *)
(***************************************************************************)
LEMMA NextFact ==
  ASSUME NEW S, NEW s \in Seq(S), IsInjective(s)
  PROVE  /\ \A k \in 1..Len(s) : NextIn(s, s[k]) = IF k < Len(s) THEN s[k + 1] ELSE NULL
         /\ \A x : x \notin Range(s) => NextIn(s, x) = NULL
<1>1. ASSUME NEW k \in 1..Len(s) PROVE NextIn(s, s[k]) = IF k < Len(s) THEN s[k + 1] ELSE NULL
  <2>1. Index(s, s[k]) = k
    BY DEF IsInjective, Index
  <2>2. s[k] \in Range(s)
    BY RangeFact, Zenon
  <2> QED BY <2>1, <2>2, Zenon DEF NextIn
<1>2. ASSUME NEW x, x \notin Range(s) PROVE NextIn(s, x) = NULL
  BY <1>2, Zenon DEF NextIn
<1> QED BY <1>1, <1>2, Zenon

(***************************************************************************)
(* The next entry is one of the list, or there is none.                    *)
(***************************************************************************)
LEMMA NextInList ==
  ASSUME NEW S, NEW s \in Seq(S), IsInjective(s), NEW x
  PROVE  NextIn(s, x) \in Range(s) \cup {NULL}
<1>1. CASE x \in Range(s)
  <2>1. PICK k \in 1..Len(s) : s[k] = x
    BY <1>1, RangeFact, Zenon
  <2>2. CASE k < Len(s)
    <3>1. k + 1 \in 1..Len(s) /\ NextIn(s, x) = s[k + 1]
      BY <2>1, <2>2, NextFact
    <3> QED BY <3>1, RangeFact
  <2>3. CASE ~ k < Len(s)
    BY <2>1, <2>3, NextFact, Zenon
  <2> QED BY <2>2, <2>3, Zenon
<1>2. CASE x \notin Range(s)
  BY <1>2, NextFact, Zenon
<1> QED BY <1>1, <1>2, Zenon

(***************************************************************************)
(* The removal of an entry leaves the walk intact: what it has saved as    *)
(* the next entry stays in the list and keeps its successor.               *)
(***************************************************************************)
LEMMA WalkGoesOn ==
  ASSUME NEW S, NULL \notin S, NEW s \in Seq(S), IsInjective(s), NEW x \in Range(s),
         NEW t, t = Without(s, x), NEW y, y = NextIn(s, x)
  PROVE  /\ t \in Seq(S) /\ Len(t) = Len(s) - 1 /\ Len(s) > 0
         /\ IsInjective(t) /\ Range(t) = Range(s) \ {x}
         /\ y \in Range(t) \cup {NULL} /\ NextIn(t, y) = NextIn(s, y)
<1>0. PICK k \in 1..Len(s) : s[k] = x
  BY RangeFact, Zenon
<1>1. /\ t \in Seq(S) /\ Len(t) = Len(s) - 1
      /\ \A i \in k..(Len(s) - 1) : t[i] = s[i + 1]
  BY <1>0, RemoveFact
<1>2. IsInjective(t) /\ Range(t) = Range(s) \ {x}
  BY RemoveRange, Zenon
<1>3. Len(s) > 0
  OBVIOUS
<1>4. CASE k < Len(s)
  <2>1. y = s[k + 1] /\ k + 1 \in 1..Len(s) /\ k \in 1..Len(t) /\ t[k] = y
    BY <1>0, <1>1, <1>4, NextFact
  <2>2. NextIn(t, y) = IF k < Len(t) THEN t[k + 1] ELSE NULL
    BY <1>1, <1>2, <2>1, NextFact
  <2>3. NextIn(s, y) = IF k + 1 < Len(s) THEN s[(k + 1) + 1] ELSE NULL
    BY <2>1, NextFact, Zenon
  <2>4. k < Len(t) => t[k + 1] = s[(k + 1) + 1]
    BY <1>1
  <2>5. NextIn(t, y) = NextIn(s, y)
    BY <1>1, <2>2, <2>3, <2>4
  <2>6. y \in Range(t)
    BY <1>1, <2>1, RangeFact
  <2> QED BY <1>1, <1>2, <1>3, <2>5, <2>6, Zenon
<1>5. CASE ~ k < Len(s)
  <2>1. y = NULL
    BY <1>0, <1>5, NextFact, Zenon
  <2>2. NULL \notin Range(s) /\ NULL \notin Range(t)
    BY <1>1, RangeFact, Zenon
  <2>3. NextIn(t, y) = NULL /\ NextIn(s, y) = NULL
    BY <1>1, <1>2, <2>1, <2>2, NextFact, Zenon
  <2> QED BY <1>1, <1>2, <1>3, <2>1, <2>3, Zenon
<1> QED BY <1>4, <1>5, Zenon

(***************************************************************************)
(* The lock is taken and left by those who walk the list and by rmmod.     *)
(***************************************************************************)
LEMMA LockingStep == ASSUME Inv, [Next]_vars PROVE Locking'
<1>a. TypeOK /\ Locking /\ Stages
  BY Zenon DEF Inv
<1> USE MonitorAssumption, <1>a DEF TypeOK, Locking, lists, worker, app
<1>1. ASSUME mp1_init PROVE Locking'
  BY <1>1, Zenon DEF mp1_init
<1>2. ASSUME del_timer_sync PROVE Locking'
  BY <1>2, Zenon DEF del_timer_sync
<1>3. ASSUME exit_lock PROVE Locking'
  BY <1>3, Zenon DEF exit_lock, spin_lock
<1>4. ASSUME proc_remove PROVE Locking'
  BY <1>4, Zenon DEF proc_remove
<1>5. ASSUME destroy_workqueue PROVE Locking'
  BY <1>5, Zenon DEF destroy_workqueue
<1>6. ASSUME freell PROVE Locking'
  BY <1>6 DEF freell
<1>7. ASSUME tm_callback PROVE Locking'
  BY <1>7, Zenon DEF tm_callback
<1>8. ASSUME NEW p \in Apps, mywrite(p) PROVE Locking'
  BY <1>8, Zenon DEF mywrite, Goto
<1>9. ASSUME NEW p \in Apps, compute(p) PROVE Locking'
  BY <1>9, Zenon DEF compute
<1>10. ASSUME NEW p \in Apps, myread(p) PROVE Locking'
  BY <1>10, Zenon DEF myread, Goto
<1>11. ASSUME NEW w \in Workers, wq_begin(w) PROVE Locking'
  BY <1>11, Zenon DEF wq_begin
<1>12. ASSUME NEW w \in Workers, wq_lock(w) PROVE Locking'
  BY <1>12, Zenon DEF wq_lock, spin_lock, Move
<1>13. ASSUME NEW w \in Workers, wq_entry(w) PROVE Locking'
  BY <1>13, Zenon DEF wq_entry, Move
<1>14. ASSUME NEW w \in Workers, wq_end(w) PROVE Locking'
  BY <1>14, Zenon DEF wq_end
<1>15. CASE UNCHANGED vars
  BY <1>15, Zenon DEF vars
<1> QED BY <1>1, <1>2, <1>3, <1>4, <1>5, <1>6, <1>7, <1>8, <1>9, <1>10, <1>11,
    <1>12, <1>13, <1>14, <1>15, Zenon DEF Next, userapp, mp1_exit, wq_callback

(***************************************************************************)
(* No stage of the removal is passed before what it waits for has ended.   *)
(***************************************************************************)
LEMMA StagesStep == ASSUME Inv, [Next]_vars PROVE Stages'
<1>a. TypeOK /\ Locking /\ Stages
  BY DEF Inv
<1> USE MonitorAssumption, <1>a DEF TypeOK, Locking, Stages, InHandler, lists,
    worker, app
<1>1. ASSUME mp1_init PROVE Stages'
  BY <1>1, Zenon DEF mp1_init
<1>2. ASSUME del_timer_sync PROVE Stages'
  BY <1>2, Zenon DEF del_timer_sync
<1>3. ASSUME exit_lock PROVE Stages'
  BY <1>3, Zenon DEF exit_lock, spin_lock
<1>4. ASSUME proc_remove PROVE Stages'
  BY <1>4 DEF proc_remove
<1>5. ASSUME destroy_workqueue PROVE Stages'
  BY <1>5, Zenon DEF destroy_workqueue
<1>6. ASSUME freell PROVE Stages'
  BY <1>6, Zenon DEF freell
<1>7. ASSUME tm_callback PROVE Stages'
  BY <1>7, Zenon DEF tm_callback
<1>8. ASSUME NEW p \in Apps, mywrite(p) PROVE Stages'
  BY <1>8 DEF mywrite, Goto
<1>9. ASSUME NEW p \in Apps, compute(p) PROVE Stages'
  BY <1>9, Zenon DEF compute
<1>10. ASSUME NEW p \in Apps, myread(p) PROVE Stages'
  BY <1>10 DEF myread, Goto
<1>11. ASSUME NEW w \in Workers, wq_begin(w) PROVE Stages'
  BY <1>11 DEF wq_begin
<1>12. ASSUME NEW w \in Workers, wq_lock(w) PROVE Stages'
  BY <1>12, Zenon DEF wq_lock, spin_lock, Move
<1>13. ASSUME NEW w \in Workers, wq_entry(w) PROVE Stages'
  BY <1>13, Zenon DEF wq_entry, Move
<1>14. ASSUME NEW w \in Workers, wq_end(w) PROVE Stages'
  BY <1>14, Zenon DEF wq_end
<1>15. CASE UNCHANGED vars
  BY <1>15, Zenon DEF vars
<1> QED BY <1>1, <1>2, <1>3, <1>4, <1>5, <1>6, <1>7, <1>8, <1>9, <1>10, <1>11,
    <1>12, <1>13, <1>14, <1>15, Zenon DEF Next, userapp, mp1_exit, wq_callback

(***************************************************************************)
(* The entry a walk is at is a process that has registered, and the next   *)
(* one is in the list.                                                     *)
(***************************************************************************)
LEMMA AtEntry == ASSUME Inv, NEW w \in Workers, wpc[w] = "scan", curr[w] # NULL
                 PROVE  /\ list \in Seq(Apps) /\ IsInjective(list) /\ NULL \notin Apps
                        /\ curr[w] \in Range(list) /\ curr[w] \in Apps
                        /\ pc[curr[w]] \notin {"start", "mywrite"}
                        /\ tmp[w] = NextIn(list, curr[w])
                        /\ tmp[w] \in Range(list) \cup {NULL} /\ tmp[w] \in Apps \cup {NULL}
<1>1. list \in Seq(Apps) /\ IsInjective(list) /\ NULL \notin Apps
  BY MonitorAssumption, Zenon DEF Inv, TypeOK, Entries
<1>2. curr[w] \in Range(list) /\ tmp[w] = NextIn(list, curr[w])
  BY Zenon DEF Inv, Cursor
<1>3. curr[w] \in Apps /\ pc[curr[w]] \notin {"start", "mywrite"}
  BY <1>1, <1>2, RangeFact, Zenon DEF Inv, Entries
<1>4. tmp[w] \in Range(list) \cup {NULL}
  BY <1>1, <1>2, NextInList, Zenon
<1>5. tmp[w] \in Apps \cup {NULL}
  BY Zenon DEF Inv, TypeOK
<1> QED BY <1>1, <1>2, <1>3, <1>4, <1>5, Zenon

(***************************************************************************)
(* The list a walk leaves when the entry it is at goes.                    *)
(***************************************************************************)
LEMMA EntryGoes == ASSUME Inv, NEW w \in Workers, wpc[w] = "scan", curr[w] # NULL,
                          list' = Without(list, curr[w])
                   PROVE  /\ list' \in Seq(Apps) /\ Len(list') = Len(list) - 1 /\ Len(list) > 0
                          /\ IsInjective(list') /\ Range(list') = Range(list) \ {curr[w]}
                          /\ tmp[w] \in Range(list') \cup {NULL}
                          /\ NextIn(list', tmp[w]) = NextIn(list, tmp[w])
<1>1. /\ list \in Seq(Apps) /\ IsInjective(list) /\ NULL \notin Apps
      /\ curr[w] \in Range(list) /\ tmp[w] = NextIn(list, curr[w])
  BY AtEntry, Zenon
<1> QED BY <1>1, WalkGoesOn

(***************************************************************************)
(* The list a process leaves that registers.                               *)
(***************************************************************************)
LEMMA EntryComes == ASSUME Inv, NEW p \in Apps, pc[p] = "mywrite", list' = Append(list, p)
                    PROVE  /\ list' \in Seq(Apps) /\ Range(list') = Range(list) \cup {p}
                           /\ Len(list') = Len(list) + 1 /\ IsInjective(list')
                           /\ Range(list) \subseteq Apps
<1>1. list \in Seq(Apps) /\ IsInjective(list)
  BY Zenon DEF Inv, TypeOK, Entries
<1>2. p \notin Range(list)
  BY Zenon DEF Inv, Entries
<1>3. /\ list' \in Seq(Apps) /\ Len(list') = Len(list) + 1
      /\ DOMAIN list' = 1..(Len(list) + 1) /\ DOMAIN list = 1..Len(list)
      /\ (\A i \in 1..Len(list) : list'[i] = list[i]) /\ list'[Len(list) + 1] = p
  BY <1>1
<1>5. Range(list') = Range(list) \cup {p}
  BY <1>1, <1>3 DEF Range
<1>6. IsInjective(list')
  BY <1>1, <1>2, <1>3, RangeFact DEF IsInjective
<1>4. Range(list) \subseteq Apps
  BY <1>1, RangeFact, Zenon
<1> QED BY <1>3, <1>4, <1>5, <1>6, Zenon

(***************************************************************************)
(* A walk begins at an entry of the list, or the list is empty.            *)
(***************************************************************************)
LEMMA AtHead == ASSUME Inv, NEW h, h = IF list = <<>> THEN NULL ELSE Head(list)
                PROVE  /\ h \in Range(list) \cup {NULL} /\ h \in Apps \cup {NULL}
                       /\ NextIn(list, h) \in Apps \cup {NULL}
<1>1. list \in Seq(Apps) /\ IsInjective(list)
  BY Zenon DEF Inv, TypeOK, Entries
<1>2. h \in Range(list) \cup {NULL}
  <2>1. CASE list = <<>>
    BY <2>1, Zenon
  <2>2. CASE list # <<>>
    <3>1. h = list[1] /\ 1 \in 1..Len(list)
      BY <1>1, <2>2
    <3> QED BY <1>1, <3>1, RangeFact
  <2> QED BY <2>1, <2>2, Zenon
<1>3. NextIn(list, h) \in Range(list) \cup {NULL}
  BY <1>1, NextInList, Zenon
<1> QED BY <1>1, <1>2, <1>3, RangeFact, Zenon

(***************************************************************************)
(* The time an entry shows is the time used at the last walk.              *)
(***************************************************************************)
LEMMA TimesStep == ASSUME Inv, [Next]_vars PROVE Times'
<1>a. TypeOK /\ Times
  BY Zenon DEF Inv
<1> USE MonitorAssumption, <1>a DEF TypeOK, Times, lists, worker, app
<1>1. ASSUME mp1_init PROVE Times'
  BY <1>1, Zenon DEF mp1_init
<1>2. ASSUME del_timer_sync PROVE Times'
  BY <1>2, Zenon DEF del_timer_sync
<1>3. ASSUME exit_lock PROVE Times'
  BY <1>3, Zenon DEF exit_lock, spin_lock
<1>4. ASSUME proc_remove PROVE Times'
  BY <1>4, Zenon DEF proc_remove
<1>5. ASSUME destroy_workqueue PROVE Times'
  BY <1>5, Zenon DEF destroy_workqueue
<1>6. ASSUME freell PROVE Times'
  BY <1>6, Zenon DEF freell
<1>7. ASSUME tm_callback PROVE Times'
  BY <1>7, Zenon DEF tm_callback
<1>8. ASSUME NEW p \in Apps, mywrite(p) PROVE Times'
  BY <1>8 DEF mywrite, Goto
<1>9. ASSUME NEW p \in Apps, compute(p) PROVE Times'
  BY <1>9 DEF compute
<1>10. ASSUME NEW p \in Apps, myread(p) PROVE Times'
  BY <1>10 DEF myread, Goto
<1>11. ASSUME NEW w \in Workers, wq_begin(w) PROVE Times'
  BY <1>11, Zenon DEF wq_begin
<1>12. ASSUME NEW w \in Workers, wq_lock(w) PROVE Times'
  BY <1>12, Zenon DEF wq_lock, spin_lock, Move
<1>13. ASSUME NEW w \in Workers, wq_entry(w) PROVE Times'
  <2>0. wpc[w] = "scan" /\ curr[w] # NULL
    BY <1>13, Zenon DEF wq_entry
  <2>1. /\ list \in Seq(Apps) /\ IsInjective(list) /\ NULL \notin Apps
        /\ curr[w] \in Range(list) /\ curr[w] \in Apps
        /\ pc[curr[w]] \notin {"start", "mywrite"}
        /\ tmp[w] = NextIn(list, curr[w])
        /\ tmp[w] \in Range(list) \cup {NULL} /\ tmp[w] \in Apps \cup {NULL}
    BY <2>0, AtEntry, Zenon
  <2>2. /\ cpu_usage' = cpu_usage \/ cpu_usage' = [cpu_usage EXCEPT ![curr[w]] = utime[curr[w]]]
        /\ UNCHANGED <<pc, utime>>
    BY <1>13, Zenon DEF wq_entry
  <2>3. ASSUME NEW q \in Apps
        PROVE  cpu_usage'[q] <= utime'[q] /\ (pc'[q] \in {"start", "mywrite"} => cpu_usage'[q] = 0)
    <3>1. /\ utime[q] \in Nat /\ cpu_usage[q] <= utime[q]
          /\ (pc[q] \in {"start", "mywrite"} => cpu_usage[q] = 0)
      OBVIOUS
    <3>2. cpu_usage'[q] = cpu_usage[q] \/ (q = curr[w] /\ cpu_usage'[q] = utime[q])
      BY <2>1, <2>2
    <3>3. CASE cpu_usage'[q] = cpu_usage[q]
      BY <2>2, <3>1, <3>3, Zenon
    <3>4. CASE q = curr[w] /\ cpu_usage'[q] = utime[q]
      BY <2>1, <2>2, <3>1, <3>4
    <3> QED BY <3>2, <3>3, <3>4, Zenon
  <2> QED BY <2>3, Zenon
<1>14. ASSUME NEW w \in Workers, wq_end(w) PROVE Times'
  BY <1>14, Zenon DEF wq_end
<1>15. CASE UNCHANGED vars
  BY <1>15, Zenon DEF vars
<1> QED BY <1>1, <1>2, <1>3, <1>4, <1>5, <1>6, <1>7, <1>8, <1>9, <1>10, <1>11,
    <1>12, <1>13, <1>14, <1>15, Zenon DEF Next, userapp, mp1_exit, wq_callback

(***************************************************************************)
(* No action takes a variable out of its type.                             *)
(***************************************************************************)
LEMMA TypeStep == ASSUME Inv, [Next]_vars PROVE TypeOK'
<1>a. TypeOK /\ Entries
  BY Zenon DEF Inv
<1> USE MonitorAssumption, <1>a DEF TypeOK, lists, worker, app
<1>1. ASSUME mp1_init PROVE TypeOK'
  BY <1>1 DEF mp1_init
<1>2. ASSUME del_timer_sync PROVE TypeOK'
  BY <1>2, Zenon DEF del_timer_sync
<1>3. ASSUME exit_lock PROVE TypeOK'
  BY <1>3, Zenon DEF exit_lock, spin_lock
<1>4. ASSUME proc_remove PROVE TypeOK'
  BY <1>4, Zenon DEF proc_remove
<1>5. ASSUME destroy_workqueue PROVE TypeOK'
  BY <1>5, Zenon DEF destroy_workqueue
<1>6. ASSUME freell PROVE TypeOK'
  BY <1>6 DEF freell
<1>7. ASSUME tm_callback PROVE TypeOK'
  BY <1>7 DEF tm_callback
<1>8. ASSUME NEW p \in Apps, mywrite(p) PROVE TypeOK'
  <2>1. CASE pc[p] = "start"
    <3>1. cpu_usage' \in [Apps -> Nat]
      BY <1>8, <2>1 DEF mywrite
    <3>2. pc' = [pc EXCEPT ![p] = "mywrite"] \/ pc' = [pc EXCEPT ![p] = "work"]
      BY <1>8, <2>1, Zenon DEF mywrite, Goto
    <3>3. pc' \in [Apps -> {"start", "mywrite", "work", "myread", "dead"}]
      BY <3>2, Zenon
    <3> QED BY <1>8, <2>1, <3>1, <3>3, Zenon DEF mywrite
  <2>2. CASE pc[p] = "mywrite"
    <3>1. list' = Append(list, p) /\ size + 1 \in Nat
      BY <1>8, <2>2 DEF mywrite
    <3>2. list' \in Seq(Apps)
      BY <2>2, <3>1, EntryComes, Zenon
    <3> QED BY <1>8, <2>2, <3>1, <3>2, Zenon DEF mywrite, Goto
  <2> QED BY <1>8, <2>1, <2>2, Zenon DEF mywrite
<1>9. ASSUME NEW p \in Apps, compute(p) PROVE TypeOK'
  BY <1>9 DEF compute
<1>10. ASSUME NEW p \in Apps, myread(p) PROVE TypeOK'
  BY <1>10, Zenon DEF myread, Goto
<1>11. ASSUME NEW w \in Workers, wq_begin(w) PROVE TypeOK'
  BY <1>11 DEF wq_begin
<1>12. ASSUME NEW w \in Workers, wq_lock(w) PROVE TypeOK'
  <2> DEFINE h == IF list = <<>> THEN NULL ELSE Head(list)
  <2>1. h \in Apps \cup {NULL} /\ NextIn(list, h) \in Apps \cup {NULL}
    BY AtHead, Zenon
  <2> HIDE DEF h
  <2>2. curr' = [curr EXCEPT ![w] = h] /\ tmp' = [tmp EXCEPT ![w] = NextIn(list, h)]
    BY <1>12, Zenon DEF wq_lock, Move, h
  <2> QED BY <1>12, <2>1, <2>2, Zenon DEF wq_lock, spin_lock
<1>13. ASSUME NEW w \in Workers, wq_entry(w) PROVE TypeOK'
  <2>0. wpc[w] = "scan" /\ curr[w] # NULL
    BY <1>13, Zenon DEF wq_entry
  <2>1. /\ list \in Seq(Apps) /\ IsInjective(list) /\ NULL \notin Apps
        /\ curr[w] \in Range(list) /\ curr[w] \in Apps
        /\ pc[curr[w]] \notin {"start", "mywrite"}
        /\ tmp[w] = NextIn(list, curr[w])
        /\ tmp[w] \in Range(list) \cup {NULL} /\ tmp[w] \in Apps \cup {NULL}
    BY <2>0, AtEntry, Zenon
  <2>4. NextIn(list, tmp[w]) \in Apps \cup {NULL}
    <3>1. NextIn(list, tmp[w]) \in Range(list) \cup {NULL}
      BY <2>1, NextInList, Zenon
    <3> QED BY <2>1, <3>1, RangeFact
  <2>2. CASE Alive(curr[w])
    <3>1. utime[curr[w]] \in Nat /\ cpu_usage' = [cpu_usage EXCEPT ![curr[w]] = utime[curr[w]]]
      BY <1>13, <2>1, <2>2 DEF wq_entry
    <3>2. cpu_usage' \in [Apps -> Nat]
      BY <2>1, <3>1, Zenon
    <3> QED BY <1>13, <2>1, <2>2, <2>4, <3>2, Zenon DEF wq_entry, Move
  <2>3. CASE ~Alive(curr[w])
    <3>1. list' = Without(list, curr[w])
      BY <1>13, <2>3, Zenon DEF wq_entry
    <3>2. /\ list' \in Seq(Apps) /\ Len(list') = Len(list) - 1 /\ Len(list) > 0
          /\ IsInjective(list') /\ Range(list') = Range(list) \ {curr[w]}
          /\ tmp[w] \in Range(list') \cup {NULL} /\ NextIn(list', tmp[w]) = NextIn(list, tmp[w])
      BY <2>0, <3>1, EntryGoes, Zenon
    <3>3. size - 1 \in Nat
      <4>1. size = Len(list) \/ mod = "gone"
        BY Zenon DEF Entries
      <4>2. mod # "gone"
        BY <2>0, Zenon DEF Inv, Stages
      <4> QED BY <2>1, <3>2, <4>1, <4>2
    <3> QED BY <1>13, <2>1, <2>3, <2>4, <3>2, <3>3, Zenon DEF wq_entry, Move
  <2> QED BY <2>2, <2>3, Zenon
<1>14. ASSUME NEW w \in Workers, wq_end(w) PROVE TypeOK'
  BY <1>14, Zenon DEF wq_end
<1>15. CASE UNCHANGED vars
  BY <1>15, Zenon DEF vars
<1> QED BY <1>1, <1>2, <1>3, <1>4, <1>5, <1>6, <1>7, <1>8, <1>9, <1>10, <1>11,
    <1>12, <1>13, <1>14, <1>15, Zenon DEF Next, userapp, mp1_exit, wq_callback

(***************************************************************************)
(* The list holds each registered process once and size counts its         *)
(* entries.                                                                *)
(***************************************************************************)
LEMMA EntriesStep == ASSUME Inv, [Next]_vars PROVE Entries'
<1>a. TypeOK /\ Entries /\ Stages /\ Locking
  BY Zenon DEF Inv
<1> USE MonitorAssumption, <1>a DEF TypeOK, Entries, lists, worker, app
<1>1. ASSUME mp1_init PROVE Entries'
  <2>1. list' = <<>> /\ size' = 0 /\ mod' = "live" /\ pc' = pc
    BY <1>1, Zenon DEF mp1_init
  <2>2. Range(list') = {} /\ Len(list') = 0 /\ IsInjective(list')
    BY <2>1 DEF Range, IsInjective
  <2>3. \A p \in Apps : pc[p] = "start"
    BY <1>1, Zenon DEF mp1_init, Stages
  <2> QED BY <2>1, <2>2, <2>3, Zenon
<1>2. ASSUME del_timer_sync PROVE Entries'
  BY <1>2, Zenon DEF del_timer_sync
<1>3. ASSUME exit_lock PROVE Entries'
  BY <1>3, Zenon DEF exit_lock, spin_lock
<1>4. ASSUME proc_remove PROVE Entries'
  BY <1>4, Zenon DEF proc_remove
<1>5. ASSUME destroy_workqueue PROVE Entries'
  BY <1>5, Zenon DEF destroy_workqueue, Stages
<1>6. ASSUME freell PROVE Entries'
  <2>1. list' = <<>> /\ mod' = "gone" /\ pc' = pc
    BY <1>6, Zenon DEF freell
  <2>2. Range(list') = {} /\ IsInjective(list')
    BY <2>1 DEF Range, IsInjective
  <2> QED BY <2>1, <2>2, Zenon
<1>7. ASSUME tm_callback PROVE Entries'
  BY <1>7, Zenon DEF tm_callback
<1>8. ASSUME NEW p \in Apps, mywrite(p) PROVE Entries'
  <2>1. CASE pc[p] = "start"
    <3>1. /\ list' = list /\ size' = size /\ mod' = mod
          /\ \/ pc' = [pc EXCEPT ![p] = "mywrite"]
             \/ pc' = [pc EXCEPT ![p] = "work"] /\ mod \notin {"live", "timerless", "locked"}
      BY <1>8, <2>1, Zenon DEF mywrite, Goto
    <3>2. Range(list) \subseteq Apps /\ p \notin Range(list)
      BY <2>1, RangeFact, Zenon
    <3>3. \A q \in Apps : q # p => pc'[q] = pc[q]
      BY <3>1, Zenon
    <3>4. pc'[p] = "mywrite" \/ mod \notin {"live", "timerless", "locked"}
      BY <3>1, Zenon
    <3>5. \A q \in Range(list') : pc'[q] \notin {"start", "mywrite"}
      BY <3>1, <3>2, <3>3, Zenon
    <3>6. mod' \in {"live", "timerless", "locked"} =>
            \A q \in Apps : pc'[q] \in {"work", "myread"} => q \in Range(list')
      BY <3>1, <3>3, <3>4, Zenon
    <3> QED BY <3>1, <3>5, <3>6, Zenon
  <2>2. CASE pc[p] = "mywrite"
    <3>1. list' = Append(list, p) /\ size' = size + 1 /\ mod' = mod /\ pc' = [pc EXCEPT ![p] = "work"]
      BY <1>8, <2>2, Zenon DEF mywrite, Goto
    <3>3. /\ Range(list') = Range(list) \cup {p} /\ Len(list') = Len(list) + 1
          /\ IsInjective(list') /\ Range(list) \subseteq Apps
      BY <2>2, <3>1, EntryComes, Zenon
    <3>4. mod # "gone"
      BY <2>2, Zenon DEF Stages, InHandler
    <3>5. \A q \in Apps : pc'[q] = IF q = p THEN "work" ELSE pc[q]
      BY <3>1, Zenon
    <3> QED BY <3>1, <3>3, <3>4, <3>5
  <2> QED BY <1>8, <2>1, <2>2, Zenon DEF mywrite
<1>9. ASSUME NEW p \in Apps, compute(p) PROVE Entries'
  BY <1>9, Zenon DEF compute
<1>10. ASSUME NEW p \in Apps, myread(p) PROVE Entries'
  <2>1. Range(list) \subseteq Apps
    BY RangeFact, Zenon
  <2> QED BY <1>10, <2>1 DEF myread, Goto
<1>11. ASSUME NEW w \in Workers, wq_begin(w) PROVE Entries'
  BY <1>11, Zenon DEF wq_begin
<1>12. ASSUME NEW w \in Workers, wq_lock(w) PROVE Entries'
  BY <1>12, Zenon DEF wq_lock, spin_lock, Move
<1>13. ASSUME NEW w \in Workers, wq_entry(w) PROVE Entries'
  <2>0. wpc[w] = "scan" /\ curr[w] # NULL
    BY <1>13, Zenon DEF wq_entry
  <2>1. /\ list \in Seq(Apps) /\ IsInjective(list) /\ NULL \notin Apps
        /\ curr[w] \in Range(list) /\ curr[w] \in Apps
        /\ pc[curr[w]] \notin {"start", "mywrite"}
        /\ tmp[w] = NextIn(list, curr[w])
        /\ tmp[w] \in Range(list) \cup {NULL} /\ tmp[w] \in Apps \cup {NULL}
    BY <2>0, AtEntry, Zenon
  <2>2. CASE Alive(curr[w])
    BY <1>13, <2>2, Zenon DEF wq_entry
  <2>3. CASE ~Alive(curr[w])
    <3>1. list' = Without(list, curr[w])
      BY <1>13, <2>3, Zenon DEF wq_entry
    <3>2. /\ list' \in Seq(Apps) /\ Len(list') = Len(list) - 1 /\ Len(list) > 0
          /\ IsInjective(list') /\ Range(list') = Range(list) \ {curr[w]}
          /\ tmp[w] \in Range(list') \cup {NULL} /\ NextIn(list', tmp[w]) = NextIn(list, tmp[w])
      BY <2>0, <3>1, EntryGoes, Zenon
    <3>3. size' = size - 1 /\ mod' = mod /\ pc' = pc
      BY <1>13, <2>3, Zenon DEF wq_entry
    <3>4. mod # "gone"
      BY <2>0, Zenon DEF Stages
    <3>5. pc[curr[w]] = "dead"
      BY <2>3, Zenon DEF Alive
    <3> QED BY <3>2, <3>3, <3>4, <3>5, Zenon
  <2> QED BY <2>2, <2>3, Zenon
<1>14. ASSUME NEW w \in Workers, wq_end(w) PROVE Entries'
  BY <1>14, Zenon DEF wq_end
<1>15. CASE UNCHANGED vars
  BY <1>15, Zenon DEF vars
<1> QED BY <1>1, <1>2, <1>3, <1>4, <1>5, <1>6, <1>7, <1>8, <1>9, <1>10, <1>11,
    <1>12, <1>13, <1>14, <1>15, Zenon DEF Next, userapp, mp1_exit, wq_callback

(***************************************************************************)
(* A walk stays at an entry of the list, or has reached the end, whoever   *)
(* else wants to change the list.                                          *)
(***************************************************************************)
LEMMA CursorStep == ASSUME Inv, [Next]_vars PROVE Cursor'
<1>a. TypeOK /\ Cursor /\ Stages /\ Locking
  BY Zenon DEF Inv
<1> USE MonitorAssumption, <1>a DEF TypeOK, Cursor, lists, worker, app
<1>1. ASSUME mp1_init PROVE Cursor'
  BY <1>1, Zenon DEF mp1_init, Stages
<1>2. ASSUME del_timer_sync PROVE Cursor'
  BY <1>2, Zenon DEF del_timer_sync
<1>3. ASSUME exit_lock PROVE Cursor'
  BY <1>3, Zenon DEF exit_lock, spin_lock
<1>4. ASSUME proc_remove PROVE Cursor'
  BY <1>4, Zenon DEF proc_remove
<1>5. ASSUME destroy_workqueue PROVE Cursor'
  BY <1>5, Zenon DEF destroy_workqueue
<1>6. ASSUME freell PROVE Cursor'
  BY <1>6, Zenon DEF freell, Stages
<1>7. ASSUME tm_callback PROVE Cursor'
  BY <1>7, Zenon DEF tm_callback
<1>8. ASSUME NEW p \in Apps, mywrite(p) PROVE Cursor'
  <2>1. CASE UNCHANGED list
    BY <1>8, <2>1, Zenon DEF mywrite
  <2>2. CASE lock = NULL
    BY <1>8, <2>2, Zenon DEF mywrite, Locking
  <2> QED BY <1>8, <2>1, <2>2, Zenon DEF mywrite
<1>9. ASSUME NEW p \in Apps, compute(p) PROVE Cursor'
  BY <1>9, Zenon DEF compute
<1>10. ASSUME NEW p \in Apps, myread(p) PROVE Cursor'
  BY <1>10, Zenon DEF myread, Goto
<1>11. ASSUME NEW w \in Workers, wq_begin(w) PROVE Cursor'
  BY <1>11, Zenon DEF wq_begin
<1>12. ASSUME NEW w \in Workers, wq_lock(w) PROVE Cursor'
  <2> DEFINE h == IF list = <<>> THEN NULL ELSE Head(list)
  <2>1. h \in Range(list) \cup {NULL}
    BY AtHead, Zenon
  <2> HIDE DEF h
  <2>2. curr' = [curr EXCEPT ![w] = h] /\ tmp' = [tmp EXCEPT ![w] = NextIn(list, h)] /\ list' = list
    BY <1>12, Zenon DEF wq_lock, Move, h
  <2> QED BY <1>12, <2>1, <2>2, Zenon DEF wq_lock
<1>13. ASSUME NEW w \in Workers, wq_entry(w) PROVE Cursor'
  <2>0. wpc[w] = "scan" /\ curr[w] # NULL
    BY <1>13, Zenon DEF wq_entry
  <2>1. /\ list \in Seq(Apps) /\ IsInjective(list) /\ NULL \notin Apps
        /\ curr[w] \in Range(list) /\ curr[w] \in Apps
        /\ pc[curr[w]] \notin {"start", "mywrite"}
        /\ tmp[w] = NextIn(list, curr[w])
        /\ tmp[w] \in Range(list) \cup {NULL} /\ tmp[w] \in Apps \cup {NULL}
    BY <2>0, AtEntry, Zenon
  <2>4. curr' = [curr EXCEPT ![w] = tmp[w]] /\ tmp' = [tmp EXCEPT ![w] = NextIn(list, tmp[w])] /\ wpc' = wpc
    BY <1>13, Zenon DEF wq_entry, Move
  <2>5. curr'[w] = tmp[w] /\ tmp'[w] = NextIn(list, tmp[w])
    BY <2>4, Zenon
  <2>6. \A v \in Workers : wpc'[v] = "scan" => v = w
    BY <2>0, <2>4, Zenon DEF Locking
  <2>2. CASE Alive(curr[w])
    <3>1. list' = list
      BY <1>13, <2>2, Zenon DEF wq_entry
    <3> QED BY <2>1, <2>5, <2>6, <3>1, Zenon
  <2>3. CASE ~Alive(curr[w])
    <3>1. list' = Without(list, curr[w])
      BY <1>13, <2>3, Zenon DEF wq_entry
    <3>2. /\ list' \in Seq(Apps) /\ Len(list') = Len(list) - 1 /\ Len(list) > 0
          /\ IsInjective(list') /\ Range(list') = Range(list) \ {curr[w]}
          /\ tmp[w] \in Range(list') \cup {NULL} /\ NextIn(list', tmp[w]) = NextIn(list, tmp[w])
      BY <2>0, <3>1, EntryGoes, Zenon
    <3> QED BY <2>5, <2>6, <3>2, Zenon
  <2> QED BY <2>2, <2>3, Zenon
<1>14. ASSUME NEW w \in Workers, wq_end(w) PROVE Cursor'
  BY <1>14, Zenon DEF wq_end
<1>15. CASE UNCHANGED vars
  BY <1>15, Zenon DEF vars
<1> QED BY <1>1, <1>2, <1>3, <1>4, <1>5, <1>6, <1>7, <1>8, <1>9, <1>10, <1>11,
    <1>12, <1>13, <1>14, <1>15, Zenon DEF Next, userapp, mp1_exit, wq_callback

\* no step sets the time of an entry back
UsageGrows == \A q \in Apps : cpu_usage'[q] >= cpu_usage[q]

(***************************************************************************)
(* A walk sets the time of an entry to the time used by now, and an entry  *)
(* is filled in before its process has used any.                           *)
(***************************************************************************)
LEMMA UsageStep == ASSUME Inv, [Next]_vars PROVE UsageGrows
<1>a. TypeOK /\ Times
  BY DEF Inv
<1> USE MonitorAssumption, <1>a DEF TypeOK, Times, UsageGrows, lists, worker,
    app
<1>1. ASSUME mp1_init PROVE UsageGrows
  BY <1>1 DEF mp1_init
<1>2. ASSUME del_timer_sync PROVE UsageGrows
  BY <1>2 DEF del_timer_sync
<1>3. ASSUME exit_lock PROVE UsageGrows
  BY <1>3 DEF exit_lock, spin_lock
<1>4. ASSUME proc_remove PROVE UsageGrows
  BY <1>4 DEF proc_remove
<1>5. ASSUME destroy_workqueue PROVE UsageGrows
  BY <1>5 DEF destroy_workqueue
<1>6. ASSUME freell PROVE UsageGrows
  BY <1>6 DEF freell
<1>7. ASSUME tm_callback PROVE UsageGrows
  BY <1>7 DEF tm_callback
<1>8. ASSUME NEW p \in Apps, mywrite(p) PROVE UsageGrows
  <2>1. cpu_usage' = cpu_usage \/ (pc[p] = "start" /\ cpu_usage' = [cpu_usage EXCEPT ![p] = 0])
    BY <1>8, Zenon DEF mywrite
  <2>2. pc[p] = "start" => cpu_usage[p] = 0
    BY Zenon
  <2> QED BY <2>1, <2>2
<1>9. ASSUME NEW p \in Apps, compute(p) PROVE UsageGrows
  BY <1>9 DEF compute
<1>10. ASSUME NEW p \in Apps, myread(p) PROVE UsageGrows
  BY <1>10 DEF myread, Goto
<1>11. ASSUME NEW w \in Workers, wq_begin(w) PROVE UsageGrows
  BY <1>11 DEF wq_begin
<1>12. ASSUME NEW w \in Workers, wq_lock(w) PROVE UsageGrows
  BY <1>12 DEF wq_lock, spin_lock, Move
<1>13. ASSUME NEW w \in Workers, wq_entry(w) PROVE UsageGrows
  <2>0. wpc[w] = "scan" /\ curr[w] # NULL
    BY <1>13 DEF wq_entry
  <2>1. /\ list \in Seq(Apps) /\ IsInjective(list) /\ NULL \notin Apps
        /\ curr[w] \in Range(list) /\ curr[w] \in Apps
        /\ pc[curr[w]] \notin {"start", "mywrite"}
        /\ tmp[w] = NextIn(list, curr[w])
        /\ tmp[w] \in Range(list) \cup {NULL} /\ tmp[w] \in Apps \cup {NULL}
    BY <2>0, AtEntry
  <2>2. cpu_usage' = cpu_usage \/ cpu_usage' = [cpu_usage EXCEPT ![curr[w]] = utime[curr[w]]]
    BY <1>13, Zenon DEF wq_entry
  <2>3. \A q \in Apps : cpu_usage[q] \in Nat /\ utime[q] \in Nat /\ cpu_usage[q] <= utime[q]
    OBVIOUS
  <2>4. \A q \in Apps : cpu_usage'[q] \in {cpu_usage[q], utime[q]}
    BY <2>1, <2>2
  <2>5. ASSUME NEW q \in Apps PROVE cpu_usage'[q] >= cpu_usage[q]
    <3>1. cpu_usage[q] \in Nat /\ utime[q] \in Nat /\ cpu_usage[q] <= utime[q]
      BY <2>3, Zenon
    <3>2. CASE cpu_usage'[q] = cpu_usage[q]
      BY <3>1, <3>2
    <3>3. CASE cpu_usage'[q] = utime[q]
      BY <3>1, <3>3, Zenon
    <3> QED BY <2>4, <3>2, <3>3, Zenon
  <2> QED BY <2>5, Zenon
<1>14. ASSUME NEW w \in Workers, wq_end(w) PROVE UsageGrows
  BY <1>14 DEF wq_end
<1>15. CASE UNCHANGED vars
  BY <1>15 DEF vars
<1> QED BY <1>1, <1>2, <1>3, <1>4, <1>5, <1>6, <1>7, <1>8, <1>9, <1>10, <1>11,
    <1>12, <1>13, <1>14, <1>15, Zenon DEF Next, userapp, mp1_exit, wq_callback

(***************************************************************************)
(* The inductive invariant of mp1.c: the lock, the list and its count, the *)
(* walks, the stages of the removal and the times, for any number of       *)
(* processes and workers.                                                  *)
(***************************************************************************)
THEOREM Invariance == Spec => []Inv
<1>1. Init => Inv
  <2> SUFFICES ASSUME Init PROVE Inv
    BY Zenon
  <2> USE MonitorAssumption DEF Init
  <2>1. TypeOK
    <3>1. list \in Seq(Apps) /\ size \in Nat
      OBVIOUS
    <3>2. queued \in 0..MaxQueued /\ utime \in [Apps -> 0..MaxTime] /\ cpu_usage \in [Apps -> Nat]
      OBVIOUS
    <3> QED BY <3>1, <3>2, Zenon DEF TypeOK
  <2>2. Entries
    BY DEF Entries, IsInjective, Range
  <2>3. Locking /\ Cursor
    BY Zenon DEF Locking, Cursor
  <2>4. Stages
    BY Zenon DEF Stages, InHandler
  <2>5. Times
    BY DEF Times
  <2> QED BY <2>1, <2>2, <2>3, <2>4, <2>5, Zenon DEF Inv
<1>2. Inv /\ [Next]_vars => Inv'
  BY TypeStep, LockingStep, EntriesStep, CursorStep, StagesStep, TimesStep, Zenon DEF Inv
<1> QED BY <1>1, <1>2, PTL DEF Spec

(***************************************************************************)
(* The list, the lock, the queued work items and the stored times of mp1.c *)
(* keep their types; at most MaxQueued work items are queued.              *)
(***************************************************************************)
THEOREM TypesKept == Spec => []TypeOK
<1>1. Inv => TypeOK
  BY Zenon DEF Inv
<1> QED BY Invariance, <1>1, PTL

(***************************************************************************)
(* What wq_callback has saved of the list (mp1.c:152) stays in the list    *)
(* while it walks, whoever else adds, removes or frees entries.            *)
(***************************************************************************)
THEOREM WalksStayInList == Spec => []CursorInList
<1>1. Inv => CursorInList
  <2> SUFFICES ASSUME Inv, NEW w \in Workers, wpc[w] = "scan"
               PROVE  {curr[w], tmp[w]} \ {NULL} \subseteq Range(list)
    BY Zenon DEF CursorInList
  <2>1. list \in Seq(Apps) /\ IsInjective(list)
    BY Zenon DEF Inv, TypeOK, Entries
  <2>2. curr[w] \in Range(list) \cup {NULL} /\ tmp[w] = NextIn(list, curr[w])
    BY Zenon DEF Inv, Cursor
  <2>3. tmp[w] \in Range(list) \cup {NULL}
    BY <2>1, <2>2, NextInList, Zenon
  <2> QED BY <2>2, <2>3, Zenon
<1> QED BY <1>1, Invariance, PTL

(***************************************************************************)
(* A registered process stays in the list once as long as it lives and the *)
(* module is not being removed, and size, which myread tests without the   *)
(* lock (mp1.c:47), is the number of entries.                              *)
(***************************************************************************)
THEOREM RegisteredAreKept == Spec => []KeptWhileAlive
<1>1. Inv => KeptWhileAlive
  BY Zenon DEF Inv, Entries, KeptWhileAlive
<1> QED BY <1>1, Invariance, PTL

(***************************************************************************)
(* After mp1_exit has returned no timer, work item, handler or entry of    *)
(* the module is left and the lock is free.                                *)
(***************************************************************************)
THEOREM UnloadLeavesNothing == Spec => []NothingLeft
<1>1. Inv => NothingLeft
  <2> SUFFICES ASSUME Inv, mod = "gone" PROVE NothingLeft
    BY Zenon DEF NothingLeft
  <2>1. ~armed /\ queued = 0 /\ (\A w \in Workers : wpc[w] = "idle") /\ \A p \in Apps : ~InHandler(p)
    BY Zenon DEF Inv, Stages
  <2>2. list = <<>>
    BY Zenon DEF Inv, Entries
  <2>3. lock = NULL
    BY <2>1, Zenon DEF Inv, TypeOK, Locking
  <2> QED BY <2>1, <2>2, <2>3, Zenon DEF NothingLeft
<1> QED BY <1>1, Invariance, PTL

(***************************************************************************)
(* The time shown for a process (mp1.c:158) never runs back and is never   *)
(* ahead of the time the process has used.                                 *)
(***************************************************************************)
THEOREM UsageIsMonotone == Spec => UsageFollows
<1> DEFINE Good == \A p \in Apps : cpu_usage'[p] >= cpu_usage[p] /\ cpu_usage'[p] <= utime'[p]
<1>1. Inv /\ Inv' /\ [Next]_vars => [Good]_vars
  <2> SUFFICES ASSUME Inv, Inv', [Next]_vars PROVE Good
    BY Zenon
  <2>1. UsageGrows
    BY UsageStep, Zenon
  <2>2. \A p \in Apps : cpu_usage'[p] <= utime'[p]
    <3>1. Times'
      BY Zenon DEF Inv
    <3> QED BY <3>1, Zenon DEF Times
  <2> QED BY <2>1, <2>2, Zenon DEF UsageGrows
<1> QED BY <1>1, Invariance, PTL DEF Spec, UsageFollows
=============================================================================
