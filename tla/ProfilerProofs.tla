--------------------------- MODULE ProfilerProofs ---------------------------
(***************************************************************************)
(* Proofs about Profiler, for any number of processes, registered or not,  *)
(* any sizes of the buffer and anything it may hold at first.              *)
(***************************************************************************)
EXTENDS Profiler, DataFacts

(***************************************************************************)
(* The list when the entry of a process comes to its end.                  *)
(***************************************************************************)
LEMMA EntryComes == ASSUME Inv, NEW p \in Works, pc[p] = "reg", HEAD' = Append(HEAD, p)
                    PROVE  /\ HEAD' \in Seq(Works) /\ HEAD' # <<>> /\ IsInjective(HEAD')
                           /\ Range(HEAD') = Range(HEAD) \cup {p}
<1>1. HEAD \in Seq(Works) /\ IsInjective(HEAD) /\ p \notin Range(HEAD)
  BY Zenon DEF Inv, TypeOK, Membership
<1>2. HEAD' \in Seq(Works) /\ HEAD' # <<>>
  BY <1>1
<1> QED BY <1>1, <1>2, AppendRange, Zenon

(***************************************************************************)
(* The list when the entry of a process is taken out.                      *)
(***************************************************************************)
LEMMA EntryGoes == ASSUME Inv, NEW p \in Range(HEAD), HEAD' = Without(HEAD, p)
                   PROVE  /\ HEAD' \in Seq(Works) /\ IsInjective(HEAD')
                          /\ Range(HEAD') = Range(HEAD) \ {p}
<1>1. HEAD \in Seq(Works) /\ IsInjective(HEAD)
  BY Zenon DEF Inv, TypeOK, Membership
<1>2. HEAD' \in Seq(Works)
  BY <1>1, RemoveFact, Zenon
<1> QED BY <1>1, <1>2, RemoveRange, Zenon

(***************************************************************************)
(* A sample fits where the buffer is not at its end: the sizes are         *)
(* multiples of four.                                                      *)
(***************************************************************************)
LEMMA Fours == ASSUME NEW a \in Nat, NEW b \in Nat, a % 4 = 0, b % 4 = 0
               PROVE  (a < b => a + 4 <= b) /\ (a + 4) % 4 = 0
  OBVIOUS

(***************************************************************************)
(* The callback is at an entry of the list while it walks.                 *)
(***************************************************************************)
LEMMA AtEntry == ASSUME Inv, wpc \in {"read", "clear"}
                 PROVE  HEAD[itr] \in Works
  BY DEF Inv, TypeOK, Filling

(***************************************************************************)
(* Every step keeps the types; the offset stays a multiple of four below   *)
(* the end until the buffer is full.                                       *)
(***************************************************************************)
LEMMA TypeStep == ASSUME Inv, [Next]_vars PROVE TypeOK'
<1>a. TypeOK /\ Locking /\ Membership /\ Filling
  BY Zenon DEF Inv
<1> USE ProfilerAssumption, <1>a DEF TypeOK, entry, callback, buffer, proc,
    monitor, history
<1>1. ASSUME mp3_init PROVE TypeOK'
  <2>1. <<>> \in Seq(Works) /\ 0 \in 0..VM_ELEMENT_SIZE
    OBVIOUS
  <2> QED BY <1>1, <2>1, Zenon DEF mp3_init
<1>2. ASSUME exit_lock PROVE TypeOK'
  BY <1>2, Zenon DEF exit_lock
<1>3. ASSUME proc_remove PROVE TypeOK'
  BY <1>3 DEF proc_remove
<1>4. ASSUME exit_cancel PROVE TypeOK'
  BY <1>4, Zenon DEF exit_cancel
<1>5. ASSUME wq_begin PROVE TypeOK'
  BY <1>5, Zenon DEF wq_begin
<1>6. ASSUME wq_check PROVE TypeOK'
  BY <1>6 DEF wq_check
<1>7. ASSUME wq_lock PROVE TypeOK'
  BY <1>7 DEF wq_lock, Visit
<1>8. ASSUME get_cpu_use PROVE TypeOK'
  <2>1. HEAD[itr] \in Works
    BY <1>8, AtEntry, Zenon DEF get_cpu_use
  <2>2. itr + 1 \in Nat /\ min_flt[HEAD[itr]] \in Nat /\ minor_pf[HEAD[itr]] \in Nat
    BY <2>1
  <2>3. tmps + min_flt[HEAD[itr]] \in Nat /\ tmps + minor_pf[HEAD[itr]] \in Nat
    <3>1. \A a, b \in Nat : a + b \in Nat
      OBVIOUS
    <3> QED BY <2>2, <3>1, Zenon
  <2>4. /\ itr' \in Nat /\ tmps' \in Nat
        /\ wpc' \in {"idle", "check", "lock", "read", "clear", "write", "end"}
    BY <1>8, <2>2, <2>3, Zenon DEF get_cpu_use, Visit
  <2>5. minor_pf' \in [Works -> Nat] /\ min_flt' \in [Works -> Nat]
    <3>1. /\ [minor_pf EXCEPT ![HEAD[itr]] = min_flt[HEAD[itr]]] \in [Works -> Nat]
          /\ [min_flt EXCEPT ![HEAD[itr]] = 0] \in [Works -> Nat]
      <4> DEFINE e == HEAD[itr]
      <4>1. e \in Works /\ min_flt[e] \in Nat /\ 0 \in Nat
        BY <2>1, <2>2, Zenon
      <4> HIDE DEF e
      <4> QED BY <4>1, Zenon DEF e
    <3> QED BY <1>8, <3>1, Zenon DEF get_cpu_use
  <2>6. /\ mod' = mod /\ lock' = lock /\ HEAD' = HEAD /\ pending' = pending /\ index' = index
        /\ vm' = vm /\ offset' = offset /\ BUFFER_FILLED_UP' = BUFFER_FILLED_UP /\ pc' = pc
        /\ mpc' = mpc /\ mindex' = mindex /\ faults' = faults /\ counted' = counted
        /\ samples' = samples /\ listed' = listed
    BY <1>8, Zenon DEF get_cpu_use
  <2> QED BY <1>a, <2>4, <2>5, <2>6, Zenon
<1>9. ASSUME wq_write PROVE TypeOK'
  <2>1. index' \in 0..4 /\ DOMAIN vm' = DOMAIN vm
    BY <1>9 DEF wq_write, Filling
  <2> QED BY <1>9, <2>1, Zenon DEF wq_write
<1>10. ASSUME wq_end PROVE TypeOK'
  <2>1. offset' \in 0..VM_ELEMENT_SIZE
    <3>1. offset % 4 = 0 /\ offset < VM_ELEMENT_SIZE /\ offset \in Nat /\ offset' = offset + 4
      BY <1>10 DEF wq_end, Finish, Filling, InList
    <3>2. offset + 4 <= VM_ELEMENT_SIZE
      BY <3>1, Fours, Zenon
    <3> QED BY <3>1, <3>2
  <2>2. counted' \in Nat /\ samples' \in Nat
    BY <1>10 DEF wq_end, Finish, NextSample
  <2>3. DOMAIN vm' = DOMAIN vm
    BY <1>10, Zenon DEF wq_end
  <2>4. BUFFER_FILLED_UP' \in BOOLEAN /\ pending' \in BOOLEAN
    BY <1>10, Zenon DEF wq_end, Finish
  <2> QED BY <1>10, <2>1, <2>2, <2>3, <2>4, Zenon DEF wq_end, Finish
<1>11. ASSUME buf_init PROVE TypeOK'
  BY <1>11 DEF buf_init
<1>12. ASSUME mon_skip PROVE TypeOK'
  BY <1>12 DEF mon_skip
<1>13. ASSUME mon_read PROVE TypeOK'
  BY <1>13 DEF mon_read
<1>14. ASSUME buf_exit PROVE TypeOK'
  BY <1>14 DEF buf_exit
<1>15. ASSUME NEW p \in Works, mywrite(p) PROVE TypeOK'
  <2>1. minor_pf' \in [Works -> Nat]
    <3>1. minor_pf' = minor_pf \/ \E v \in 0..1 : minor_pf' = [minor_pf EXCEPT ![p] = v]
      BY <1>15, Zenon DEF mywrite
    <3>2. \A v \in 0..1 : v \in Nat
      BY ONLY SMT
    <3> QED BY ONLY <1>a, <3>1, <3>2, Zenon DEF TypeOK
  <2>2. pc' \in [Works -> {"start", "reg", "run", "unreg", "cancel", "done", "dead"}]
    BY <1>15, Zenon DEF mywrite, Goto
  <2>3. /\ mod' = mod /\ lock' = lock /\ HEAD' = HEAD /\ pending' = pending /\ wpc' = wpc
        /\ itr' = itr /\ tmps' = tmps /\ index' = index /\ vm' = vm /\ offset' = offset
        /\ BUFFER_FILLED_UP' = BUFFER_FILLED_UP /\ min_flt' = min_flt /\ mpc' = mpc
        /\ mindex' = mindex /\ faults' = faults /\ counted' = counted /\ samples' = samples
        /\ listed' = listed
    BY <1>15, Zenon DEF mywrite
  <2> QED BY <1>a, <2>1, <2>2, <2>3, SMTT(30)
<1>16. ASSUME NEW p \in Works, reg_entry(p) PROVE TypeOK'
  <2>1. /\ HEAD' \in Seq(Works) /\ HEAD' # <<>> /\ IsInjective(HEAD')
        /\ Range(HEAD') = Range(HEAD) \cup {p}
    BY <1>16, EntryComes, Zenon DEF reg_entry
  <2> QED BY <1>16, <2>1 DEF reg_entry, Goto
<1>17. ASSUME NEW p \in Works, unreg_entry(p) PROVE TypeOK'
  <2>1. HEAD' \in Seq(Works)
    <3>1. HEAD' = HEAD \/ (p \in Range(HEAD) /\ HEAD' = Without(HEAD, p))
      BY <1>17, Zenon DEF unreg_entry
    <3> QED BY <3>1, EntryGoes, Zenon
  <2>2. offset' \in 0..VM_ELEMENT_SIZE /\ lock' \in Works \cup {NULL, "wq", "rmmod"}
    <3>1. 0 \in 0..VM_ELEMENT_SIZE
      OBVIOUS
    <3> QED BY <1>17, <3>1, Zenon DEF unreg_entry
  <2>3. pc' \in [Works -> {"start", "reg", "run", "unreg", "cancel", "done", "dead"}]
    BY <1>17, Zenon DEF unreg_entry, Goto
  <2> QED BY <1>17, <2>1, <2>2, <2>3, Zenon DEF unreg_entry
<1>18. ASSUME NEW p \in Works, unreg_cancel(p) PROVE TypeOK'
  BY <1>18, Zenon DEF unreg_cancel, Goto
<1>19. ASSUME NEW p \in Works, fault(p) PROVE TypeOK'
  BY <1>19 DEF fault
<1>20. ASSUME NEW p \in Works, crash(p) PROVE TypeOK'
  BY <1>20 DEF crash, Goto
<1>21. CASE UNCHANGED vars
  BY <1>21 DEF vars
<1>22. ASSUME NEW p \in Works, reg_no_task(p) PROVE TypeOK'
  BY <1>22 DEF reg_no_task, Goto
<1> QED BY <1>1, <1>2, <1>3, <1>4, <1>5, <1>6, <1>7, <1>8, <1>9, <1>10, <1>11,
    <1>12, <1>13, <1>14, <1>15, <1>16, <1>17, <1>18, <1>19, <1>20, <1>21, <1>22,
    Zenon DEF Next, mp3_exit, workqueue_callback, calls
(***************************************************************************)
(* The lock is taken and left by a call that cancels the work, by the      *)
(* callback and by rmmod.                                                  *)
(***************************************************************************)
LEMMA LockingStep == ASSUME Inv, [Next]_vars PROVE Locking'
<1>a. TypeOK /\ Locking /\ Membership /\ Filling
  BY Zenon DEF Inv
<1> USE ProfilerAssumption, <1>a DEF TypeOK, Locking, InHandler, InList, entry, callback, buffer, proc,
    monitor, history
<1>1. ASSUME mp3_init PROVE Locking'
  BY <1>1, Zenon DEF mp3_init
<1>2. ASSUME exit_lock PROVE Locking'
  BY <1>2, Zenon DEF exit_lock
<1>3. ASSUME proc_remove PROVE Locking'
  BY <1>3, Zenon DEF proc_remove
<1>4. ASSUME exit_cancel PROVE Locking'
  BY <1>4, Zenon DEF exit_cancel
<1>5. ASSUME wq_begin PROVE Locking'
  BY <1>5, Zenon DEF wq_begin
<1>6. ASSUME wq_check PROVE Locking'
  BY <1>6, Zenon DEF wq_check
<1>7. ASSUME wq_lock PROVE Locking'
  BY <1>7, Zenon DEF wq_lock, Visit
<1>8. ASSUME get_cpu_use PROVE Locking'
  BY <1>8, Zenon DEF get_cpu_use, Visit
<1>9. ASSUME wq_write PROVE Locking'
  BY <1>9, Zenon DEF wq_write
<1>10. ASSUME wq_end PROVE Locking'
  BY <1>10, Zenon DEF wq_end, Finish
<1>11. ASSUME buf_init PROVE Locking'
  BY <1>11, Zenon DEF buf_init
<1>12. ASSUME mon_skip PROVE Locking'
  BY <1>12, Zenon DEF mon_skip
<1>13. ASSUME mon_read PROVE Locking'
  BY <1>13, Zenon DEF mon_read
<1>14. ASSUME buf_exit PROVE Locking'
  BY <1>14, Zenon DEF buf_exit
<1>15. ASSUME NEW p \in Works, mywrite(p) PROVE Locking'
  BY <1>15, Zenon DEF mywrite, Goto, Open
<1>16. ASSUME NEW p \in Works, reg_entry(p) PROVE Locking'
  <2>1. /\ HEAD' \in Seq(Works) /\ HEAD' # <<>> /\ IsInjective(HEAD')
        /\ Range(HEAD') = Range(HEAD) \cup {p}
    BY <1>16, EntryComes, Zenon DEF reg_entry
  <2> QED BY <1>16, <2>1, Zenon DEF reg_entry, Goto
<1>17. ASSUME NEW p \in Works, unreg_entry(p) PROVE Locking'
  <2>1. /\ pc[p] = "unreg" /\ lock = NULL /\ mod' = mod /\ pending' = pending /\ wpc' = wpc
        /\ mpc' = mpc /\ recorded' = recorded /\ listed' = listed /\ index' = index
        /\ BUFFER_FILLED_UP' = BUFFER_FILLED_UP
        /\ p # NULL /\ p # "wq" /\ p # "rmmod" /\ NULL # "wq" /\ NULL # "rmmod"
    BY <1>17, Zenon DEF unreg_entry
  <2>2. CASE p \in Range(HEAD)
    <3>1. /\ Range(HEAD') = Range(HEAD) \ {p} /\ IsInjective(HEAD')
          /\ \/ HEAD' = <<>> /\ offset' = 0 /\ lock' = p /\ pc' = [pc EXCEPT ![p] = "cancel"]
             \/ HEAD' # <<>> /\ offset' = offset /\ lock' = lock /\ pc' = [pc EXCEPT ![p] = "done"]
      BY <1>17, <2>2, EntryGoes, Zenon DEF unreg_entry, Goto
    <3>2. p \in listed
      BY <2>2, Zenon DEF Membership
    <3>3. CASE HEAD' = <<>> /\ lock' = p /\ pc' = [pc EXCEPT ![p] = "cancel"]
      BY <2>1, <3>2, <3>3, Zenon
    <3>4. CASE lock' = lock /\ pc' = [pc EXCEPT ![p] = "done"]
      BY <2>1, <3>2, <3>4, Zenon
    <3> QED BY <3>1, <3>3, <3>4, Zenon
  <2>3. CASE p \notin Range(HEAD)
    <3>1. /\ HEAD' = HEAD /\ offset' = offset /\ lock' = p /\ pc' = [pc EXCEPT ![p] = "done"]
          /\ p \notin listed
      BY <1>17, <2>1, <2>3, Zenon DEF unreg_entry, Goto, Membership
    <3> QED BY <2>1, <3>1, Zenon
  <2> QED BY <2>2, <2>3, Zenon
<1>18. ASSUME NEW p \in Works, unreg_cancel(p) PROVE Locking'
  BY <1>18, Zenon DEF unreg_cancel, Goto
<1>19. ASSUME NEW p \in Works, fault(p) PROVE Locking'
  BY <1>19, Zenon DEF fault
<1>20. ASSUME NEW p \in Works, crash(p) PROVE Locking'
  BY <1>20, Zenon DEF crash, Goto
<1>21. CASE UNCHANGED vars
  BY <1>21, Zenon DEF vars
<1>22. ASSUME NEW p \in Works, reg_no_task(p) PROVE Locking'
  BY <1>22, Zenon DEF reg_no_task, Goto
<1> QED BY <1>1, <1>2, <1>3, <1>4, <1>5, <1>6, <1>7, <1>8, <1>9, <1>10, <1>11,
    <1>12, <1>13, <1>14, <1>15, <1>16, <1>17, <1>18, <1>19, <1>20, <1>21, <1>22,
    Zenon DEF Next, mp3_exit, workqueue_callback, calls
(***************************************************************************)
(* A process is in the list from its registration to its deregistration.   *)
(***************************************************************************)
LEMMA MembershipStep == ASSUME Inv, [Next]_vars PROVE Membership'
<1>a. TypeOK /\ Locking /\ Membership /\ Filling
  BY Zenon DEF Inv
<1> USE ProfilerAssumption, <1>a DEF TypeOK, Locking, Membership, Open, entry, callback, buffer, proc,
    monitor, history
<1>1. ASSUME mp3_init PROVE Membership'
  BY <1>1, Zenon DEF mp3_init
<1>2. ASSUME exit_lock PROVE Membership'
  BY <1>2, Zenon DEF exit_lock
<1>3. ASSUME proc_remove PROVE Membership'
  BY <1>3, Zenon DEF proc_remove
<1>4. ASSUME exit_cancel PROVE Membership'
  BY <1>4, Zenon DEF exit_cancel
<1>5. ASSUME wq_begin PROVE Membership'
  BY <1>5, Zenon DEF wq_begin
<1>6. ASSUME wq_check PROVE Membership'
  BY <1>6, Zenon DEF wq_check
<1>7. ASSUME wq_lock PROVE Membership'
  BY <1>7, Zenon DEF wq_lock, Visit
<1>8. ASSUME get_cpu_use PROVE Membership'
  BY <1>8, Zenon DEF get_cpu_use, Visit
<1>9. ASSUME wq_write PROVE Membership'
  BY <1>9, Zenon DEF wq_write
<1>10. ASSUME wq_end PROVE Membership'
  BY <1>10, Zenon DEF wq_end, Finish
<1>11. ASSUME buf_init PROVE Membership'
  BY <1>11, Zenon DEF buf_init
<1>12. ASSUME mon_skip PROVE Membership'
  BY <1>12, Zenon DEF mon_skip
<1>13. ASSUME mon_read PROVE Membership'
  BY <1>13, Zenon DEF mon_read
<1>14. ASSUME buf_exit PROVE Membership'
  BY <1>14, Zenon DEF buf_exit
<1>15. ASSUME NEW p \in Works, mywrite(p) PROVE Membership'
  BY <1>15 DEF mywrite, Goto
<1>16. ASSUME NEW p \in Works, reg_entry(p) PROVE Membership'
  <2>1. /\ HEAD' \in Seq(Works) /\ HEAD' # <<>> /\ IsInjective(HEAD')
        /\ Range(HEAD') = Range(HEAD) \cup {p}
    BY <1>16, EntryComes, Zenon DEF reg_entry
  <2> QED BY <1>16, <2>1, Zenon DEF reg_entry, Goto
<1>17. ASSUME NEW p \in Works, unreg_entry(p) PROVE Membership'
  <2>1. /\ pc[p] = "unreg" /\ lock = NULL /\ mod' = mod /\ pending' = pending /\ wpc' = wpc
        /\ mpc' = mpc /\ recorded' = recorded /\ listed' = listed /\ index' = index
        /\ BUFFER_FILLED_UP' = BUFFER_FILLED_UP
        /\ p # NULL /\ p # "wq" /\ p # "rmmod" /\ NULL # "wq" /\ NULL # "rmmod"
    BY <1>17, Zenon DEF unreg_entry
  <2>2. CASE p \in Range(HEAD)
    <3>1. /\ Range(HEAD') = Range(HEAD) \ {p} /\ IsInjective(HEAD')
          /\ \/ HEAD' = <<>> /\ offset' = 0 /\ lock' = p /\ pc' = [pc EXCEPT ![p] = "cancel"]
             \/ HEAD' # <<>> /\ offset' = offset /\ lock' = lock /\ pc' = [pc EXCEPT ![p] = "done"]
      BY <1>17, <2>2, EntryGoes, Zenon DEF unreg_entry, Goto
    <3>2. p \in listed /\ pc \in [Works -> {"start", "reg", "run", "unreg", "cancel", "done", "dead"}]
      BY <2>2, Zenon
    <3>3. \A q \in Works : q # p => (q \in Range(HEAD') <=> q \in Range(HEAD)) /\ pc'[q] = pc[q]
      BY <3>1, <3>2, Zenon
    <3>4. /\ pc'[p] = "done" \/ (pc'[p] = "cancel" /\ HEAD' = <<>>)
          /\ p \notin Range(HEAD') /\ Range(HEAD') \subseteq listed
      BY <3>1, <3>2, Zenon
    <3>5. \A q \in Works : q # p => pc[q] # "cancel"
      BY <2>1, Zenon
    <3> QED BY <2>1, <3>1, <3>2, <3>3, <3>4, <3>5, Zenon
  <2>3. CASE p \notin Range(HEAD)
    <3>1. /\ HEAD' = HEAD /\ offset' = offset /\ lock' = p /\ pc' = [pc EXCEPT ![p] = "done"]
          /\ p \notin listed
      BY <1>17, <2>1, <2>3, Zenon DEF unreg_entry, Goto, Membership
    <3> QED BY <2>1, <2>3, <3>1, Zenon
  <2> QED BY <2>2, <2>3, Zenon
<1>18. ASSUME NEW p \in Works, unreg_cancel(p) PROVE Membership'
  BY <1>18, Zenon DEF unreg_cancel, Goto
<1>19. ASSUME NEW p \in Works, fault(p) PROVE Membership'
  BY <1>19, Zenon DEF fault
<1>20. ASSUME NEW p \in Works, crash(p) PROVE Membership'
  BY <1>20, Zenon DEF crash, Goto
<1>21. CASE UNCHANGED vars
  BY <1>21, Zenon DEF vars
<1>22. ASSUME NEW p \in Works, reg_no_task(p) PROVE Membership'
  BY <1>22, Zenon DEF reg_no_task, Goto
<1> QED BY <1>1, <1>2, <1>3, <1>4, <1>5, <1>6, <1>7, <1>8, <1>9, <1>10, <1>11,
    <1>12, <1>13, <1>14, <1>15, <1>16, <1>17, <1>18, <1>19, <1>20, <1>21, <1>22,
    Zenon DEF Next, mp3_exit, workqueue_callback, calls
(***************************************************************************)
(* The work runs while the list is not empty, and not beyond the buffer.   *)
(***************************************************************************)
LEMMA FillingStep == ASSUME Inv, [Next]_vars PROVE Filling'
<1>a. TypeOK /\ Locking /\ Membership /\ Filling
  BY Zenon DEF Inv
<1> USE ProfilerAssumption, <1>a DEF TypeOK, Locking, Filling, InList, entry, callback, buffer, proc,
    monitor, history
<1>1. ASSUME mp3_init PROVE Filling'
  BY <1>1 DEF mp3_init
<1>2. ASSUME exit_lock PROVE Filling'
  BY <1>2, Zenon DEF exit_lock
<1>3. ASSUME proc_remove PROVE Filling'
  BY <1>3, Zenon DEF proc_remove
<1>4. ASSUME exit_cancel PROVE Filling'
  BY <1>4, Zenon DEF exit_cancel
<1>5. ASSUME wq_begin PROVE Filling'
  BY <1>5, Zenon DEF wq_begin
<1>6. ASSUME wq_check PROVE Filling'
  BY <1>6, Zenon DEF wq_check
<1>7. ASSUME wq_lock PROVE Filling'
  BY <1>7 DEF wq_lock, Visit
<1>8. ASSUME get_cpu_use PROVE Filling'
  <2>1. HEAD' = HEAD /\ lock' = lock /\ pending' = pending /\ offset' = offset /\ index' = index
        /\ BUFFER_FILLED_UP' = BUFFER_FILLED_UP /\ HEAD # <<>> /\ index = 0
        /\ ~BUFFER_FILLED_UP /\ wpc \in {"read", "clear"}
    BY <1>8, Zenon DEF get_cpu_use
  <2>2. itr \in 1..Len(HEAD) /\ Len(HEAD) \in Nat
    BY <2>1
  <2>3. \/ wpc' = "clear" /\ itr' = itr
        \/ itr' = itr + 1 /\ wpc' = IF itr + 1 <= Len(HEAD) THEN "read" ELSE "write"
    BY <1>8, Zenon DEF get_cpu_use, Visit
  <2>4. /\ wpc' \in {"clear", "read", "write"}
        /\ wpc' \in {"clear", "read"} => itr' \in 1..Len(HEAD)
    BY <2>2, <2>3
  <2>5. index \in 0..3
    BY <2>1
  <2> QED BY <2>1, <2>4, <2>5, Zenon
<1>9. ASSUME wq_write PROVE Filling'
  BY <1>9 DEF wq_write
<1>10. ASSUME wq_end PROVE Filling'
  BY <1>10 DEF wq_end, Finish
<1>11. ASSUME buf_init PROVE Filling'
  BY <1>11, Zenon DEF buf_init
<1>12. ASSUME mon_skip PROVE Filling'
  BY <1>12, Zenon DEF mon_skip
<1>13. ASSUME mon_read PROVE Filling'
  BY <1>13, Zenon DEF mon_read
<1>14. ASSUME buf_exit PROVE Filling'
  BY <1>14, Zenon DEF buf_exit
<1>15. ASSUME NEW p \in Works, mywrite(p) PROVE Filling'
  BY <1>15, Zenon DEF mywrite, Goto, Open
<1>16. ASSUME NEW p \in Works, reg_entry(p) PROVE Filling'
  <2>1. /\ HEAD' \in Seq(Works) /\ HEAD' # <<>> /\ IsInjective(HEAD')
        /\ Range(HEAD') = Range(HEAD) \cup {p}
    BY <1>16, EntryComes, Zenon DEF reg_entry
  <2> QED BY <1>16, <2>1, Zenon DEF reg_entry, Goto
<1>17. ASSUME NEW p \in Works, unreg_entry(p) PROVE Filling'
  <2>1. /\ pc[p] = "unreg" /\ lock = NULL /\ mod' = mod /\ pending' = pending /\ wpc' = wpc
        /\ mpc' = mpc /\ recorded' = recorded /\ listed' = listed /\ index' = index
        /\ BUFFER_FILLED_UP' = BUFFER_FILLED_UP
        /\ p # NULL /\ p # "wq" /\ p # "rmmod" /\ NULL # "wq" /\ NULL # "rmmod"
    BY <1>17, Zenon DEF unreg_entry
  <2>2. CASE p \in Range(HEAD)
    <3>1. /\ Range(HEAD') = Range(HEAD) \ {p} /\ IsInjective(HEAD')
          /\ \/ HEAD' = <<>> /\ offset' = 0 /\ lock' = p /\ pc' = [pc EXCEPT ![p] = "cancel"]
             \/ HEAD' # <<>> /\ offset' = offset /\ lock' = lock /\ pc' = [pc EXCEPT ![p] = "done"]
      BY <1>17, <2>2, EntryGoes, Zenon DEF unreg_entry, Goto
    <3>2. ~InList /\ 0 % 4 = 0 /\ 0 < VM_ELEMENT_SIZE
      BY <2>1
    <3> QED BY <2>1, <3>1, <3>2, Zenon
  <2>3. CASE p \notin Range(HEAD)
    <3>1. /\ HEAD' = HEAD /\ offset' = offset /\ lock' = p /\ pc' = [pc EXCEPT ![p] = "done"]
          /\ p \notin listed
      BY <1>17, <2>1, <2>3, Zenon DEF unreg_entry, Goto, Membership
    <3>2. ~InList
      BY <2>1, Zenon
    <3> QED BY <2>1, <3>1, <3>2, Zenon
  <2> QED BY <2>2, <2>3, Zenon
<1>18. ASSUME NEW p \in Works, unreg_cancel(p) PROVE Filling'
  BY <1>18, Zenon DEF unreg_cancel, Goto
<1>19. ASSUME NEW p \in Works, fault(p) PROVE Filling'
  BY <1>19, Zenon DEF fault
<1>20. ASSUME NEW p \in Works, crash(p) PROVE Filling'
  BY <1>20, Zenon DEF crash, Goto
<1>21. CASE UNCHANGED vars
  BY <1>21, Zenon DEF vars
<1>22. ASSUME NEW p \in Works, reg_no_task(p) PROVE Filling'
  BY <1>22, Zenon DEF reg_no_task, Goto
<1> QED BY <1>1, <1>2, <1>3, <1>4, <1>5, <1>6, <1>7, <1>8, <1>9, <1>10, <1>11,
    <1>12, <1>13, <1>14, <1>15, <1>16, <1>17, <1>18, <1>19, <1>20, <1>21, <1>22,
    Zenon DEF Next, mp3_exit, workqueue_callback, calls
(***************************************************************************)
(* The inductive invariant of mp3.c: the lock, the list, the work and the  *)
(* place in the buffer (mp3.c:86-130, 180-270, 350-380), for any number of *)
(* processes, some of which may end without unregistering.                 *)
(***************************************************************************)
THEOREM Invariance == Spec => []Inv
<1>1. Init => Inv
  <2> SUFFICES ASSUME Init PROVE Inv
    BY Zenon
  <2> USE ProfilerAssumption DEF Init
  <2>1. \A p \in Works : pc[p] = "start"
    BY Zenon
  <2>2. TypeOK
    <3>1. HEAD \in Seq(Works) /\ minor_pf \in [Works -> Nat] /\ min_flt \in [Works -> Nat]
      OBVIOUS
    <3>2. itr \in Nat /\ tmps \in Nat /\ index \in 0..4 /\ offset \in 0..VM_ELEMENT_SIZE
      OBVIOUS
    <3>3. mindex \in 0..BUFD_MAX /\ faults \in 0..MaxFaults /\ counted \in Nat /\ samples \in Nat
      OBVIOUS
    <3>4. pc \in [Works -> {"start", "reg", "run", "unreg", "cancel", "done", "dead"}]
      BY Zenon
    <3>5. DOMAIN vm = 0..(VM_ELEMENTS - 1) /\ listed \subseteq Works
      BY Zenon
    <3> QED BY <3>1, <3>2, <3>3, <3>4, <3>5, Zenon DEF TypeOK
  <2>3. Locking
    BY <2>1, Zenon DEF Locking, InList, InHandler
  <2>4. Membership
    BY <2>1 DEF Membership, IsInjective, Range
  <2>5. Filling
    BY DEF Filling, InList
  <2> QED BY <2>2, <2>3, <2>4, <2>5, Zenon DEF Inv
<1>2. Inv /\ [Next]_vars => Inv'
  BY TypeStep, LockingStep, MembershipStep, FillingStep, Zenon DEF Inv
<1> QED BY <1>1, <1>2, PTL DEF Spec

(***************************************************************************)
(* The list, the lock, the work item, the buffer and the offsets of mp3.c  *)
(* keep their types, and the write offset of the callback its range.       *)
(***************************************************************************)
THEOREM TypesKept == Spec => []TypeOK
<1>1. Inv => TypeOK
  BY Zenon DEF Inv
<1> QED BY Invariance, <1>1, PTL

(***************************************************************************)
(* The work is queued or runs only while a process is registered or a call *)
(* has the lock: the first registration (mp3.c:190) initialises a work     *)
(* item that is idle, and the callback never walks an empty list.          *)
(***************************************************************************)
THEOREM WorkNeedsTasks == Spec => []WorkOnlyWithTasks
<1>1. Inv => WorkOnlyWithTasks
  <2>1. Inv /\ lock = NULL => \A p \in Works : pc[p] # "cancel"
    BY ProfilerAssumption, Zenon DEF Inv, Locking
  <2> QED BY <2>1, Zenon DEF Inv, Locking, Filling, InList, WorkOnlyWithTasks
<1> QED BY <1>1, Invariance, PTL

(***************************************************************************)
(* The spinlock has a holder that is at work (mp3.c:86-130, 180-270, 350-  *)
(* 380), or was left behind by a process that has never registered and     *)
(* asked to be taken out of the list (mp3.c:205-208).                      *)
(***************************************************************************)
THEOREM LockIsHeld == Spec => []LockHasHolder
<1>1. Inv => LockHasHolder
  BY Zenon DEF Inv, Locking, InList, LockHasHolder, InHandler
<1> QED BY <1>1, Invariance, PTL

(***************************************************************************)
(* With a buffer of at least VM_ELEMENT_SIZE elements no element is        *)
(* written outside of it (mp3.c:108-122), however often it is begun again. *)
(***************************************************************************)
THEOREM WritesInBounds ==
  ASSUME VM_ELEMENT_SIZE <= VM_ELEMENTS PROVE Spec => []InBounds
<1>1. Inv => InBounds
  <2> SUFFICES ASSUME Inv PROVE InBounds
    BY Zenon
  <2>0. offset \in Nat /\ index \in Nat /\ offset % 4 = 0
    BY DEF Inv, TypeOK, Filling
  <2>1. ASSUME wpc = "write" PROVE offset + index < VM_ELEMENTS
    <3>1. offset < VM_ELEMENT_SIZE /\ index <= 3
      BY <2>1 DEF Inv, Filling, InList
    <3>2. offset + 4 <= VM_ELEMENT_SIZE
      BY <2>0, <3>1, Fours, ProfilerAssumption, Zenon
    <3> QED BY <2>0, <3>1, <3>2, ProfilerAssumption
  <2>2. offset + 4 < VM_ELEMENT_SIZE => offset + 4 < VM_ELEMENTS
    BY <2>0, ProfilerAssumption
  <2> QED BY <2>1, <2>2, Zenon DEF InBounds
<1> QED BY <1>1, Invariance, PTL

-----------------------------------------------------------------------------
\* The two sides of the account of faults: sampled, and still in the counters.
Tally == counted + (IF wpc \in {"read", "clear", "write", "end"} THEN tmps ELSE 0)
Rest  == SumFunctionOnSet([p \in Works |-> Pending(p)], Works)
NobodyDead == \A p \in Works : pc[p] # "dead"

(***************************************************************************)
(* What is still to be sampled are natural numbers, and so is their sum.   *)
(***************************************************************************)
LEMMA RestNat == ASSUME TypeOK
                 PROVE  (\A p \in Works : Pending(p) \in Nat) /\ Rest \in Nat /\ Tally \in Nat
<1>1. \A p \in Works : Pending(p) \in Nat
  BY Zenon DEF TypeOK, Pending
<1>2. Rest \in Nat
  <2> DEFINE f == [p \in Works |-> Pending(p)]
  <2>1. \A p \in Works : f[p] \in Nat
    BY <1>1, Zenon
  <2> HIDE DEF f
  <2>2. SumFunctionOnSet(f, Works) \in Nat
    BY <2>1, SumNat, ProfilerAssumption, Zenon
  <2> QED BY <2>2, Zenon DEF f, Rest
<1>3. Tally \in Nat
  BY DEF TypeOK, Tally
<1> QED BY <1>1, <1>2, <1>3, Zenon

(***************************************************************************)
(* The counter of one process changes, or is taken into the sample.        *)
(***************************************************************************)
LEMMA RestChanges ==
  ASSUME TypeOK, TypeOK', NEW x \in Works, \A p \in Works \ {x} : Pending(p)' = Pending(p)
  PROVE  Rest' = Rest - Pending(x) + Pending(x)'
<1> DEFINE f == [p \in Works |-> Pending(p)]
           g == [p \in Works |-> Pending(p)']
<1>1. (\A p \in Works : f[p] \in Nat) /\ (\A p \in Works : g[p] \in Nat)
  <2>1. \A p \in Works : Pending(p) \in Nat
    BY RestNat, Zenon
  <2>2. \A p \in Works : Pending(p)' \in Nat
    BY Zenon DEF TypeOK, Pending
  <2> QED BY <2>1, <2>2, Zenon
<1>2. (\A p \in Works : f[p] \in Int) /\ (\A p \in Works : g[p] \in Int)
  BY <1>1
<1>3. \A p \in Works \ {x} : g[p] = f[p]
  BY Zenon
<1>4. f[x] = Pending(x) /\ g[x] = Pending(x)'
  BY Zenon
<1>5. Rest = SumFunctionOnSet(f, Works) /\ Rest' = SumFunctionOnSet(g, Works)
  BY Zenon DEF Rest
<1> HIDE DEF f, g
<1>6. SumFunctionOnSet(g, Works) = SumFunctionOnSet(f, Works) - f[x] + g[x]
  <2>1. IsFiniteSet(Works)
    BY ProfilerAssumption, Zenon
  <2>2. Integral(f, Works) /\ Integral(g, Works) /\ SameBut(f, g, Works, x)
    BY <1>2, <1>3, Zenon DEF Integral, SameBut
  <2>3. PICK F, G : F = f /\ G = g
    BY ONLY Zenon
  <2>4. Integral(F, Works) /\ Integral(G, Works) /\ SameBut(F, G, Works, x)
    BY ONLY <2>2, <2>3, Zenon
  <2>5. SumFunctionOnSet(G, Works) = SumFunctionOnSet(F, Works) - F[x] + G[x]
    BY ONLY <2>1, <2>4, x \in Works, SumUpdate, SMTT(30)
  <2> QED BY ONLY <2>3, <2>5, Zenon
<1> QED BY <1>4, <1>5, <1>6, Zenon

(***************************************************************************)
(* A step that leaves the counters alone, and does not enter or leave the  *)
(* place between reading and clearing one, keeps what is to be sampled.    *)
(***************************************************************************)
LEMMA RestStays ==
  ASSUME min_flt' = min_flt,
         \/ wpc # "clear" /\ wpc' # "clear"
         \/ wpc' = wpc /\ HEAD' = HEAD /\ itr' = itr
  PROVE  Rest' = Rest
<1>1. \A p \in Works : Pending(p)' = Pending(p)
  BY Zenon DEF Pending
<1> QED BY <1>1, Zenon DEF Rest

(***************************************************************************)
(* Every step keeps the account of faults.                                 *)
(***************************************************************************)
LEMMA CountStep == ASSUME Inv, Inv', NobodyDead, NotOvercounted, [Next]_vars PROVE NotOvercounted'
<1>a. TypeOK /\ TypeOK' /\ Locking /\ Filling
  BY Zenon DEF Inv
<1>b. NotOvercounted <=> Tally + Rest <= faults
  BY Zenon DEF NotOvercounted, Tally, Rest
<1>c. NotOvercounted' <=> (Tally + Rest <= faults)'
  BY Zenon DEF NotOvercounted, Tally, Rest
<1>d. Tally \in Nat /\ Rest \in Nat /\ faults \in Nat
  <2>1. Rest \in Nat
    BY <1>a, RestNat, Zenon
  <2>2. counted \in Nat /\ tmps \in Nat /\ faults \in Nat
    BY <1>a DEF TypeOK
  <2> QED BY <2>1, <2>2 DEF Tally
<1>e. ASSUME Tally' = Tally, Rest' = Rest, faults' = faults PROVE NotOvercounted'
  BY <1>b, <1>c, <1>e, Zenon
<1> USE DEF entry, callback, buffer, proc, monitor, history
<1>1. ASSUME mp3_init PROVE NotOvercounted'
  <2>1. wpc = "idle" /\ wpc' = wpc
        /\ counted' = counted /\ faults' = faults /\ min_flt' = min_flt
    BY <1>1, <1>a, Zenon DEF mp3_init, Locking, InList
  <2>2. Rest' = Rest
    BY <2>1, RestStays, Zenon
  <2>3. Tally' = Tally
    BY <2>1, Zenon DEF Tally
  <2> QED BY <1>e, <2>1, <2>2, <2>3, Zenon
<1>2. ASSUME exit_lock PROVE NotOvercounted'
  <2>1. wpc' = wpc /\ HEAD' = HEAD /\ itr' = itr /\ tmps' = tmps
        /\ counted' = counted /\ faults' = faults /\ min_flt' = min_flt
    BY <1>2, Zenon DEF exit_lock
  <2>2. Rest' = Rest
    BY <2>1, RestStays, Zenon
  <2>3. Tally' = Tally
    BY <2>1, Zenon DEF Tally
  <2> QED BY <1>e, <2>1, <2>2, <2>3, Zenon
<1>3. ASSUME proc_remove PROVE NotOvercounted'
  <2>1. wpc' = wpc /\ HEAD' = HEAD /\ itr' = itr /\ tmps' = tmps
        /\ counted' = counted /\ faults' = faults /\ min_flt' = min_flt
    BY <1>3, Zenon DEF proc_remove
  <2>2. Rest' = Rest
    BY <2>1, RestStays, Zenon
  <2>3. Tally' = Tally
    BY <2>1, Zenon DEF Tally
  <2> QED BY <1>e, <2>1, <2>2, <2>3, Zenon
<1>4. ASSUME exit_cancel PROVE NotOvercounted'
  <2>1. wpc' = wpc /\ HEAD' = HEAD /\ itr' = itr /\ tmps' = tmps
        /\ counted' = counted /\ faults' = faults /\ min_flt' = min_flt
    BY <1>4, Zenon DEF exit_cancel
  <2>2. Rest' = Rest
    BY <2>1, RestStays, Zenon
  <2>3. Tally' = Tally
    BY <2>1, Zenon DEF Tally
  <2> QED BY <1>e, <2>1, <2>2, <2>3, Zenon
<1>5. ASSUME wq_begin PROVE NotOvercounted'
  <2>1. wpc = "idle" /\ wpc' = "check"
        /\ counted' = counted /\ faults' = faults /\ min_flt' = min_flt
    BY <1>5, Zenon DEF wq_begin
  <2>2. Rest' = Rest
    BY <2>1, RestStays, Zenon
  <2>3. Tally' = Tally
    BY <2>1, Zenon DEF Tally
  <2> QED BY <1>e, <2>1, <2>2, <2>3, Zenon
<1>6. ASSUME wq_check PROVE NotOvercounted'
  <2>1. wpc = "check" /\ wpc' \in {"idle", "lock"}
        /\ counted' = counted /\ faults' = faults /\ min_flt' = min_flt
    BY <1>6, Zenon DEF wq_check
  <2>2. Rest' = Rest
    BY <2>1, RestStays, Zenon
  <2>3. Tally' = Tally
    BY <2>1, Zenon DEF Tally
  <2> QED BY <1>e, <2>1, <2>2, <2>3, Zenon
<1>7. ASSUME wq_lock PROVE NotOvercounted'
  <2>1. wpc = "lock" /\ wpc' \in {"read", "write"} /\ tmps' = 0 /\ counted' = counted
        /\ faults' = faults /\ min_flt' = min_flt
    BY <1>7, Zenon DEF wq_lock, Visit
  <2>2. Rest' = Rest
    BY <2>1, RestStays, Zenon
  <2>3. Tally' = Tally
    BY <2>1, Zenon DEF Tally
  <2> QED BY <1>e, <2>1, <2>2, <2>3, Zenon
<1>8. ASSUME get_cpu_use PROVE NotOvercounted'
  <2>0. wpc \in {"read", "clear"} /\ faults' = faults /\ counted' = counted
    BY <1>8, Zenon DEF get_cpu_use
  <2>e. PICK e \in Works : e = HEAD[itr]
    BY <2>0, AtEntry, Zenon
  <2>1. pc[e] # "dead" /\ min_flt[e] \in Nat
    BY <1>a, Zenon DEF NobodyDead, TypeOK
  <2>2. CASE wpc = "read"
    <3>1. wpc' = "clear" /\ HEAD' = HEAD /\ itr' = itr /\ min_flt' = min_flt
          /\ tmps' = tmps + min_flt[e]
      BY <1>8, <2>e, <2>1, <2>2, Zenon DEF get_cpu_use
    <3>2. \A p \in Works \ {e} : Pending(p)' = Pending(p)
      BY <2>e, <2>2, <3>1, Zenon DEF Pending
    <3>3. Pending(e) = min_flt[e] /\ Pending(e)' = 0
      BY <2>e, <2>2, <3>1, Zenon DEF Pending
    <3>4. Rest' = Rest - min_flt[e] + 0
      <4> QED BY <1>a, <2>1, <3>2, <3>3, RestChanges, Zenon
    <3>5. Tally' = Tally + min_flt[e]
      <4>1. Tally = counted + tmps /\ Tally' = counted + (tmps + min_flt[e])
        BY <2>0, <2>2, <3>1, Zenon DEF Tally
      <4>2. counted \in Nat /\ tmps \in Nat
        BY <1>a, Zenon DEF TypeOK
      <4> QED BY <2>1, <4>1, <4>2
    <3> QED BY <1>b, <1>c, <1>d, <2>0, <2>1, <3>4, <3>5
  <2>3. CASE wpc = "clear"
    <3>1. wpc' \in {"read", "write"} /\ tmps' = tmps /\ min_flt' = [min_flt EXCEPT ![e] = 0]
      BY <1>8, <2>e, <2>3, Zenon DEF get_cpu_use, Visit
    <3>2. \A p \in Works : min_flt'[p] = IF p = e THEN 0 ELSE min_flt[p]
      BY <1>a, <3>1, Zenon DEF TypeOK
    <3>3. \A p \in Works : Pending(p)' = Pending(p)
      BY <2>e, <2>3, <3>1, <3>2, Zenon DEF Pending
    <3>4. Rest' = Rest
      BY <3>3, Zenon DEF Rest
    <3>5. Tally' = Tally
      BY <2>0, <2>3, <3>1, Zenon DEF Tally
    <3> QED BY <1>e, <2>0, <3>4, <3>5, Zenon
  <2> QED BY <2>0, <2>2, <2>3, Zenon
<1>9. ASSUME wq_write PROVE NotOvercounted'
  <2>1. wpc = "write" /\ wpc' \in {"write", "end"} /\ tmps' = tmps
        /\ counted' = counted /\ faults' = faults /\ min_flt' = min_flt
    BY <1>9, Zenon DEF wq_write
  <2>2. Rest' = Rest
    BY <2>1, RestStays, Zenon
  <2>3. Tally' = Tally
    BY <2>1, Zenon DEF Tally
  <2> QED BY <1>e, <2>1, <2>2, <2>3, Zenon
<1>10. ASSUME wq_end PROVE NotOvercounted'
  <2>1. wpc = "end" /\ wpc' = "idle" /\ counted' = counted + tmps /\ faults' = faults
        /\ min_flt' = min_flt
    BY <1>10, Zenon DEF wq_end, Finish
  <2>2. Rest' = Rest
    BY <2>1, RestStays, Zenon
  <2>3. Tally = counted + tmps /\ Tally' = (counted + tmps) + 0
    BY <2>1, Zenon DEF Tally
  <2>4. Tally' = Tally
    BY <1>a, <2>3 DEF TypeOK
  <2> QED BY <1>e, <2>1, <2>2, <2>4, Zenon
<1>11. ASSUME buf_init PROVE NotOvercounted'
  <2>1. wpc' = wpc /\ HEAD' = HEAD /\ itr' = itr /\ tmps' = tmps
        /\ counted' = counted /\ faults' = faults /\ min_flt' = min_flt
    BY <1>11, Zenon DEF buf_init
  <2>2. Rest' = Rest
    BY <2>1, RestStays, Zenon
  <2>3. Tally' = Tally
    BY <2>1, Zenon DEF Tally
  <2> QED BY <1>e, <2>1, <2>2, <2>3, Zenon
<1>12. ASSUME mon_skip PROVE NotOvercounted'
  <2>1. wpc' = wpc /\ HEAD' = HEAD /\ itr' = itr /\ tmps' = tmps
        /\ counted' = counted /\ faults' = faults /\ min_flt' = min_flt
    BY <1>12, Zenon DEF mon_skip
  <2>2. Rest' = Rest
    BY <2>1, RestStays, Zenon
  <2>3. Tally' = Tally
    BY <2>1, Zenon DEF Tally
  <2> QED BY <1>e, <2>1, <2>2, <2>3, Zenon
<1>13. ASSUME mon_read PROVE NotOvercounted'
  <2>1. wpc' = wpc /\ HEAD' = HEAD /\ itr' = itr /\ tmps' = tmps
        /\ counted' = counted /\ faults' = faults /\ min_flt' = min_flt
    BY <1>13, Zenon DEF mon_read
  <2>2. Rest' = Rest
    BY <2>1, RestStays, Zenon
  <2>3. Tally' = Tally
    BY <2>1, Zenon DEF Tally
  <2> QED BY <1>e, <2>1, <2>2, <2>3, Zenon
<1>14. ASSUME buf_exit PROVE NotOvercounted'
  <2>1. wpc' = wpc /\ HEAD' = HEAD /\ itr' = itr /\ tmps' = tmps
        /\ counted' = counted /\ faults' = faults /\ min_flt' = min_flt
    BY <1>14, Zenon DEF buf_exit
  <2>2. Rest' = Rest
    BY <2>1, RestStays, Zenon
  <2>3. Tally' = Tally
    BY <2>1, Zenon DEF Tally
  <2> QED BY <1>e, <2>1, <2>2, <2>3, Zenon
<1>15. ASSUME NEW p \in Works, mywrite(p) PROVE NotOvercounted'
  <2>1. wpc' = wpc /\ HEAD' = HEAD /\ itr' = itr /\ tmps' = tmps
        /\ counted' = counted /\ faults' = faults /\ min_flt' = min_flt
    BY <1>15, Zenon DEF mywrite
  <2>2. Rest' = Rest
    BY <2>1, RestStays, Zenon
  <2>3. Tally' = Tally
    BY <2>1, Zenon DEF Tally
  <2> QED BY <1>e, <2>1, <2>2, <2>3, Zenon
<1>16. ASSUME NEW p \in Works, reg_entry(p) PROVE NotOvercounted'
  <2>1. wpc \notin {"read", "clear", "write", "end"} /\ wpc' = wpc
        /\ counted' = counted /\ faults' = faults /\ min_flt' = min_flt
    <3>1. lock = NULL /\ lock # "wq"
      BY <1>16, ProfilerAssumption, Zenon DEF reg_entry
    <3> QED BY <1>16, <1>a, <3>1, Zenon DEF reg_entry, Locking, InList
  <2>2. Rest' = Rest
    BY <2>1, RestStays, Zenon
  <2>3. Tally' = Tally
    BY <2>1, Zenon DEF Tally
  <2> QED BY <1>e, <2>1, <2>2, <2>3, Zenon
<1>17. ASSUME NEW p \in Works, unreg_entry(p) PROVE NotOvercounted'
  <2>1. wpc \notin {"read", "clear", "write", "end"} /\ wpc' = wpc
        /\ counted' = counted /\ faults' = faults /\ min_flt' = min_flt
    <3>1. lock = NULL /\ lock # "wq"
      BY <1>17, ProfilerAssumption, Zenon DEF unreg_entry
    <3> QED BY <1>17, <1>a, <3>1, Zenon DEF unreg_entry, Locking, InList
  <2>2. Rest' = Rest
    BY <2>1, RestStays, Zenon
  <2>3. Tally' = Tally
    BY <2>1, Zenon DEF Tally
  <2> QED BY <1>e, <2>1, <2>2, <2>3, Zenon
<1>18. ASSUME NEW p \in Works, unreg_cancel(p) PROVE NotOvercounted'
  <2>1. wpc' = wpc /\ HEAD' = HEAD /\ itr' = itr /\ tmps' = tmps
        /\ counted' = counted /\ faults' = faults /\ min_flt' = min_flt
    BY <1>18, Zenon DEF unreg_cancel
  <2>2. Rest' = Rest
    BY <2>1, RestStays, Zenon
  <2>3. Tally' = Tally
    BY <2>1, Zenon DEF Tally
  <2> QED BY <1>e, <2>1, <2>2, <2>3, Zenon
<1>19. ASSUME NEW p \in Works, fault(p) PROVE NotOvercounted'
  <2>1. wpc' = wpc /\ HEAD' = HEAD /\ itr' = itr /\ tmps' = tmps /\ counted' = counted
        /\ faults' = faults + 1
    BY <1>19, Zenon DEF fault
  <2>2. \A q \in Works : min_flt'[q] = IF q = p THEN min_flt[p] + 1 ELSE min_flt[q]
    BY <1>a, <1>19, Zenon DEF TypeOK, fault
  <2>3. \A q \in Works \ {p} : Pending(q)' = Pending(q)
    BY <2>1, <2>2, Zenon DEF Pending
  <2>4. Rest' = Rest - Pending(p) + Pending(p)'
    BY <1>a, <2>3, RestChanges, Zenon
  <2>5. Pending(p) \in Nat /\ (Pending(p)' = Pending(p) \/ Pending(p)' = Pending(p) + 1)
    BY <1>a, <2>1, <2>2, RestNat, Zenon DEF Pending
  <2>6. Tally' = Tally
    BY <2>1, Zenon DEF Tally
  <2>7. Rest' = Rest \/ Rest' = Rest + 1
    <3> DEFINE a == Pending(p)  b == Pending(p)'
    <3> HIDE DEF a, b
    <3>1. Rest' = Rest - a + b /\ a \in Nat /\ (b = a \/ b = a + 1)
      BY <2>4, <2>5, Zenon DEF a, b
    <3> QED BY <1>d, <3>1
  <2> QED BY <1>b, <1>c, <1>d, <2>1, <2>6, <2>7
<1>20. ASSUME NEW p \in Works, crash(p) PROVE NotOvercounted'
  <2>1. wpc' = wpc /\ HEAD' = HEAD /\ itr' = itr /\ tmps' = tmps
        /\ counted' = counted /\ faults' = faults /\ min_flt' = min_flt
    BY <1>20, Zenon DEF crash
  <2>2. Rest' = Rest
    BY <2>1, RestStays, Zenon
  <2>3. Tally' = Tally
    BY <2>1, Zenon DEF Tally
  <2> QED BY <1>e, <2>1, <2>2, <2>3, Zenon
<1>21. CASE UNCHANGED vars
  <2>1. wpc' = wpc /\ HEAD' = HEAD /\ itr' = itr /\ tmps' = tmps
        /\ counted' = counted /\ faults' = faults /\ min_flt' = min_flt
    BY <1>21, Zenon DEF vars
  <2>2. Rest' = Rest
    BY <2>1, RestStays, Zenon
  <2>3. Tally' = Tally
    BY <2>1, Zenon DEF Tally
  <2> QED BY <1>e, <2>1, <2>2, <2>3, Zenon
<1>22. ASSUME NEW p \in Works, reg_no_task(p) PROVE NotOvercounted'
  <2>1. wpc' = wpc /\ HEAD' = HEAD /\ itr' = itr /\ tmps' = tmps
        /\ counted' = counted /\ faults' = faults /\ min_flt' = min_flt
    BY <1>22, Zenon DEF reg_no_task
  <2>2. Rest' = Rest
    BY <2>1, RestStays, Zenon
  <2>3. Tally' = Tally
    BY <2>1, Zenon DEF Tally
  <2> QED BY <1>e, <2>1, <2>2, <2>3, Zenon
<1> QED BY <1>1, <1>2, <1>3, <1>4, <1>5, <1>6, <1>7, <1>8, <1>9, <1>10, <1>11,
    <1>12, <1>13, <1>14, <1>15, <1>16, <1>17, <1>18, <1>19, <1>20, <1>21, <1>22,
    Zenon DEF Next, mp3_exit, workqueue_callback, calls

(***************************************************************************)
(* No process is gone from the list's point of view if none may crash.     *)
(***************************************************************************)
LEMMA AliveStep == ASSUME ~Crashing, Inv, NobodyDead, [Next]_vars PROVE NobodyDead'
<1>1. pc \in [Works -> {"start", "reg", "run", "unreg", "cancel", "done", "dead"}]
  BY Zenon DEF Inv, TypeOK
<1>2. CASE pc' = pc
  BY <1>2, Zenon DEF NobodyDead
<1>3. CASE mp3_init \/ mp3_exit
  BY <1>2, <1>3, Zenon DEF mp3_init, mp3_exit, exit_lock, proc_remove, exit_cancel, proc
<1>4. CASE workqueue_callback
  <2>1. CASE get_cpu_use
    BY <1>2, <2>1, Zenon DEF get_cpu_use, proc
  <2>2. CASE wq_begin \/ wq_check \/ wq_lock
    BY <1>2, <2>2, Zenon DEF wq_begin, wq_check, wq_lock, proc
  <2>3. CASE wq_write \/ wq_end
    BY <1>2, <2>3, Zenon DEF wq_write, wq_end, Finish, proc
  <2> QED BY <1>4, <2>1, <2>2, <2>3, Zenon DEF workqueue_callback
<1>5. CASE buf_init \/ mon_skip \/ mon_read \/ buf_exit
  BY <1>2, <1>5, Zenon DEF buf_init, mon_skip, mon_read, buf_exit, proc
<1>6. ASSUME NEW p \in Works, calls(p) PROVE NobodyDead'
  <2>1. \E l \in {"reg", "run", "unreg", "cancel", "done"} : pc' = [pc EXCEPT ![p] = l]
    <3>1. CASE mywrite(p) \/ reg_no_task(p)
      BY <3>1, Zenon DEF mywrite, reg_no_task, Goto
    <3>2. CASE reg_entry(p) \/ unreg_cancel(p)
      BY <3>2, Zenon DEF reg_entry, unreg_cancel, Goto
    <3>3. CASE unreg_entry(p)
      BY <3>3, Zenon DEF unreg_entry, Goto
    <3> QED BY <1>6, <3>1, <3>2, <3>3, Zenon DEF calls
  <2> QED BY <1>1, <2>1, Zenon DEF NobodyDead
<1>7. ASSUME NEW p \in Works, fault(p) \/ crash(p) PROVE NobodyDead'
  BY <1>2, <1>7, Zenon DEF fault, crash
<1>8. CASE UNCHANGED vars
  BY <1>2, <1>8, Zenon DEF vars, proc
<1> QED BY <1>3, <1>4, <1>5, <1>6, <1>7, <1>8, Zenon DEF Next

(***************************************************************************)
(* No page fault is counted in two samples (mp3_given.h:27-48, mp3.c:86-   *)
(* 130), whatever faults come between the reading of a counter and its     *)
(* clearing, for any number of processes that end in the regular way.      *)
(***************************************************************************)
THEOREM FaultsCountedOnce ==
  ASSUME ~Crashing PROVE Spec => []NotOvercounted
<1>1. Init => NobodyDead /\ NotOvercounted
  <2> SUFFICES ASSUME Init PROVE NobodyDead /\ NotOvercounted
    BY Zenon
  <2>1. NobodyDead
    BY Zenon DEF Init, NobodyDead
  <2> DEFINE f == [p \in Works |-> Pending(p)]
  <2>2. \A p \in Works : f[p] = 0
    BY Zenon DEF Init, Pending
  <2>3. Rest = SumFunctionOnSet(f, Works) /\ (NotOvercounted <=> Tally + Rest <= faults)
    BY Zenon DEF NotOvercounted, Tally, Rest
  <2> HIDE DEF f
  <2>4. SumFunctionOnSet(f, Works) = 0 * SumFunctionOnSet(f, Works)
    <3>1. IsFiniteSet(Works) /\ 0 \in Int /\ (\A p \in Works : f[p] \in Int)
          /\ \A p \in Works : f[p] = 0 * f[p]
      BY <2>2, ProfilerAssumption
    <3> QED BY <3>1, SumScale, Zenon
  <2>5. SumFunctionOnSet(f, Works) \in Nat
    <3>1. IsFiniteSet(Works) /\ \A p \in Works : f[p] \in Nat
      BY <2>2, ProfilerAssumption
    <3> QED BY <3>1, SumNat, Zenon
  <2>6. Rest = 0
    BY <2>3, <2>4, <2>5
  <2>7. Tally = 0 + 0 /\ faults = 0
    BY Zenon DEF Init, Tally
  <2>8. NotOvercounted
    BY <2>3, <2>6, <2>7
  <2> QED BY <2>1, <2>8, Zenon
<1>2. Inv /\ Inv' /\ NobodyDead /\ NotOvercounted /\ [Next]_vars => NobodyDead' /\ NotOvercounted'
  BY AliveStep, CountStep, Zenon
<1> QED BY <1>1, <1>2, Invariance, PTL DEF Spec

-----------------------------------------------------------------------------
(***************************************************************************)
(* A step that touches neither the buffer nor the record of the samples.   *)
(***************************************************************************)
LEMMA StoredStays ==
  ASSUME Stored, vm' = vm, offset' = offset, recorded' = recorded, samples' = samples,
         mpc' = "read" <=> mpc = "read", Busy' <=> Busy, Busy => index' = index
  PROVE  Stored'
  BY Zenon DEF Stored, Whole, Element, NextSample

(***************************************************************************)
(* What the buffer is when the callback writes to it: there is room for a  *)
(* sample at the offset, and the recorded samples end there.               *)
(***************************************************************************)
LEMMA AtOffset ==
  ASSUME Inv, Contents, VM_ELEMENT_SIZE <= VM_ELEMENTS, wpc \in {"write", "end"}
  PROVE  /\ offset \in Nat /\ index \in Nat /\ offset + 4 <= VM_ELEMENT_SIZE /\ mpc = "closed"
         /\ DOMAIN vm = 0..(VM_ELEMENTS - 1)
         /\ offset # 0 => offset = 4 * Len(recorded) /\ Whole(Len(recorded))
         /\ Len(recorded) \in Nat
         /\ \A j \in 0..(offset + 3) : j \in DOMAIN vm
<1> USE ProfilerAssumption
<1>1. /\ index \in Nat /\ offset \in Nat /\ offset % 4 = 0 /\ offset < VM_ELEMENT_SIZE
      /\ DOMAIN vm = 0..(VM_ELEMENTS - 1)
  BY DEF Inv, TypeOK, Filling, InList
<1>2. offset + 4 <= VM_ELEMENT_SIZE
  BY <1>1, Fours, Zenon
<1>3. mpc = "closed" /\ recorded \in Seq(Nat)
  BY Zenon DEF Contents, Reading, Stored
<1>4. offset # 0 => offset = 4 * Len(recorded) /\ Whole(Len(recorded))
  BY <1>3, Zenon DEF Contents, Stored
<1>5. \A j \in 0..(offset + 3) : j \in DOMAIN vm
  BY <1>1, <1>2
<1>6. Len(recorded) \in Nat
  BY <1>3
<1> QED BY <1>1, <1>2, <1>3, <1>4, <1>5, <1>6, Zenon

(***************************************************************************)
(* One element of a sample is written: the elements before it, and the     *)
(* samples before this one, stay.                                          *)
(***************************************************************************)
LEMMA StoredWrite ==
  ASSUME Inv, Contents, VM_ELEMENT_SIZE <= VM_ELEMENTS, wq_write PROVE Stored'
<1>1. /\ wpc = "write" /\ vm' = [vm EXCEPT ![offset + index] = Element(NextSample, index)]
      /\ index' = index + 1 /\ wpc' \in {"write", "end"} /\ offset' = offset
      /\ recorded' = recorded /\ samples' = samples /\ mpc' = mpc
  BY Zenon DEF wq_write, buffer, monitor, history
<1>2. /\ offset \in Nat /\ index \in Nat /\ offset + 4 <= VM_ELEMENT_SIZE /\ mpc = "closed"
      /\ offset # 0 => offset = 4 * Len(recorded) /\ Whole(Len(recorded))
      /\ Len(recorded) \in Nat
      /\ \A j \in 0..(offset + 3) : j \in DOMAIN vm
  BY <1>1, AtOffset, Zenon
<1>3. index \in 0..3
  BY <1>1, Zenon DEF Inv, Filling
<1>4. \A j \in 0..(offset + 3) :
        vm'[j] = IF j = offset + index THEN Element(NextSample, index) ELSE vm[j]
  BY <1>1, <1>2, Zenon
<1>5. recorded \in Seq(Nat) /\ 4 * Len(recorded) <= VM_ELEMENT_SIZE
  BY Zenon DEF Contents, Stored
<1>6. ASSUME NEW k \in 0..(index' - 1) PROVE vm'[offset + k] = Element(NextSample, k)
  <2>1. k \in 0..index /\ offset + k \in 0..(offset + 3) /\ (offset + k = offset + index <=> k = index)
    BY <1>1, <1>2, <1>3
  <2>2. CASE k = index
    BY <1>4, <2>1, <2>2, Zenon
  <2>3. CASE k # index
    <3>1. k \in 0..(index - 1) /\ index > 0
      BY <1>2, <2>1, <2>3
    <3>2. vm[offset + k] = Element(NextSample, k)
      BY <1>1, <3>1, Zenon DEF Contents, Stored, Busy
    <3> QED BY <1>4, <2>1, <2>3, <3>2, Zenon
  <2> QED BY <2>2, <2>3, Zenon
<1>7. ASSUME offset # 0, NEW i \in 1..Len(recorded), NEW k \in 0..3
      PROVE  vm'[4 * (i - 1) + k] = Element(recorded[i], k)
  <2>1. 4 * (i - 1) + k \in 0..(offset + 3) /\ 4 * (i - 1) + k # offset + index
    BY <1>2, <1>7
  <2>2. vm[4 * (i - 1) + k] = Element(recorded[i], k)
    BY <1>2, <1>7, Zenon DEF Whole
  <2> QED BY <1>4, <2>1, <2>2, Zenon
<1>8. Busy'
  BY <1>1, <1>2 DEF Busy
<1>9. NextSample' = NextSample
  BY <1>1, Zenon DEF NextSample
<1>10. \A k \in 0..(index' - 1) : vm'[offset' + k] = Element(NextSample', k)
  BY <1>1, <1>6, <1>9, Zenon
<1>11. offset' # 0 => Whole(Len(recorded))'
  BY <1>1, <1>7, Zenon DEF Whole, Element
<1> HIDE DEF Busy, Whole
<1> QED BY <1>1, <1>2, <1>5, <1>8, <1>10, <1>11, Zenon DEF Stored, Element

(***************************************************************************)
(* The sample is complete: it is the last one recorded, and a terminator   *)
(* follows unless the buffer is full.                                      *)
(***************************************************************************)
LEMMA StoredEnd ==
  ASSUME Inv, Inv', Contents, VM_ELEMENT_SIZE <= VM_ELEMENTS, wq_end PROVE Stored'
<1>1. /\ wpc = "end" /\ wpc' = "idle" /\ offset' = offset + 4 /\ mpc' = mpc
      /\ recorded' = IF offset = 0 THEN <<NextSample>> ELSE Append(recorded, NextSample)
      /\ IF offset' >= VM_ELEMENT_SIZE THEN vm' = vm ELSE vm' = [vm EXCEPT ![offset'] = END]
  BY Zenon DEF wq_end, Finish, monitor
<1>2. /\ offset \in Nat /\ index \in Nat /\ offset + 4 <= VM_ELEMENT_SIZE /\ mpc = "closed"
      /\ DOMAIN vm = 0..(VM_ELEMENTS - 1)
      /\ offset # 0 => offset = 4 * Len(recorded) /\ Whole(Len(recorded))
      /\ Len(recorded) \in Nat
      /\ \A j \in 0..(offset + 3) : j \in DOMAIN vm
  BY <1>1, AtOffset, Zenon
<1>3. index = 4 /\ NextSample \in Nat /\ recorded \in Seq(Nat)
  BY <1>1 DEF Inv, TypeOK, Filling, NextSample, Contents, Stored
<1>4. \A j \in 0..(offset + 3) : vm'[j] = vm[j]
  <2>1. \A j \in 0..(offset + 3) : j # offset'
    BY <1>1, <1>2
  <2> QED BY <1>1, <1>2, <2>1, Zenon
<1>5. \A k \in 0..3 : vm'[offset + k] = Element(NextSample, k)
  <2>1. \A k \in 0..3 : k \in 0..(index - 1) /\ offset + k \in 0..(offset + 3) /\ index > 0
    BY <1>2, <1>3
  <2>2. \A k \in 0..3 : vm[offset + k] = Element(NextSample, k)
    BY <1>1, <2>1, Zenon DEF Contents, Stored, Busy
  <2> QED BY <1>4, <2>1, <2>2, Zenon
<1> DEFINE m == Len(recorded')
<1>6. /\ recorded' \in Seq(Nat) /\ m \in Nat \ {0} /\ 4 * m = offset' /\ recorded'[m] = NextSample
      /\ \A i \in 1..(m - 1) : recorded'[i] = recorded[i] /\ i \in 1..Len(recorded) /\ offset # 0
  <2>1. CASE offset = 0
    <3>1. recorded' = <<NextSample>>
      BY <1>1, <2>1, Zenon
    <3> QED BY <1>1, <1>3, <2>1, <3>1
  <2>2. CASE offset # 0
    <3>1. recorded' = Append(recorded, NextSample) /\ offset = 4 * Len(recorded)
      BY <1>1, <1>2, <2>2, Zenon
    <3> QED BY <1>1, <1>2, <1>3, <2>2, <3>1
  <2> QED BY <2>1, <2>2, Zenon
<1> HIDE DEF m
<1>7. ASSUME NEW i \in 1..m, NEW k \in 0..3
      PROVE  vm'[4 * (i - 1) + k] = Element(recorded'[i], k)
  <2>1. CASE i = m
    <3>1. 4 * (i - 1) + k = offset + k
      BY <1>1, <1>2, <1>6, <2>1
    <3> QED BY <1>5, <1>6, <2>1, <3>1, Zenon
  <2>2. CASE i # m
    <3>1. i \in 1..(m - 1) /\ 4 * (i - 1) + k \in 0..(offset + 3)
      BY <1>1, <1>2, <1>6, <2>2
    <3>2. recorded'[i] = recorded[i] /\ i \in 1..Len(recorded) /\ offset # 0
      BY <1>6, <3>1, Zenon
    <3>3. vm[4 * (i - 1) + k] = Element(recorded[i], k)
      BY <1>2, <3>2, Zenon DEF Whole
    <3> QED BY <1>4, <3>1, <3>2, <3>3, Zenon
  <2> QED BY <2>1, <2>2, Zenon
<1>8. Whole(Len(recorded))'
  BY <1>7, Zenon DEF Whole, Element, m
<1>9. ~Busy'
  BY <1>1, Zenon DEF Busy
<1>10. offset' <= VM_ELEMENT_SIZE
  BY <1>1, <1>2, Zenon
<1>11. ASSUME offset' < VM_ELEMENT_SIZE PROVE vm'[offset'] = END
  <2>1. ~(offset' >= VM_ELEMENT_SIZE) /\ offset' \in DOMAIN vm
    BY <1>1, <1>2, <1>11, ProfilerAssumption
  <2> QED BY <1>1, <2>1, Zenon
<1> HIDE DEF Busy, Whole
<1> QED BY <1>6, <1>8, <1>9, <1>10, <1>11, Zenon DEF Stored, m

(***************************************************************************)
(* Every step keeps the recorded samples whole until the monitor reads.    *)
(***************************************************************************)
LEMMA StoredStep ==
  ASSUME Inv, Inv', Contents, VM_ELEMENT_SIZE <= VM_ELEMENTS, [Next]_vars PROVE Stored'
<1>a. TypeOK /\ Locking /\ Filling /\ Stored /\ Reading
  BY Zenon DEF Inv, Contents
<1> USE DEF entry, callback, buffer, proc, monitor, history
<1>1. ASSUME mp3_init PROVE Stored'
  <2>1. vm' = vm /\ offset' = offset /\ recorded' = recorded /\ samples' = samples
        /\ mpc' = mpc /\ wpc' = wpc /\ index' = index
    BY <1>a, <1>1, Zenon DEF mp3_init, Locking, Filling
  <2> QED BY <1>a, <2>1, StoredStays, Zenon DEF Busy
<1>2. ASSUME exit_lock PROVE Stored'
  <2>1. vm' = vm /\ offset' = offset /\ recorded' = recorded /\ samples' = samples
        /\ mpc' = mpc /\ wpc' = wpc /\ index' = index
    BY <1>2, Zenon DEF exit_lock
  <2> QED BY <1>a, <2>1, StoredStays, Zenon DEF Busy
<1>3. ASSUME proc_remove PROVE Stored'
  <2>1. vm' = vm /\ offset' = offset /\ recorded' = recorded /\ samples' = samples
        /\ mpc' = mpc /\ wpc' = wpc /\ index' = index
    BY <1>3, Zenon DEF proc_remove
  <2> QED BY <1>a, <2>1, StoredStays, Zenon DEF Busy
<1>4. ASSUME exit_cancel PROVE Stored'
  <2>1. vm' = vm /\ offset' = offset /\ recorded' = recorded /\ samples' = samples
        /\ mpc' = mpc /\ wpc' = wpc /\ index' = index
    BY <1>4, Zenon DEF exit_cancel
  <2> QED BY <1>a, <2>1, StoredStays, Zenon DEF Busy
<1>5. ASSUME wq_begin PROVE Stored'
  <2>1. vm' = vm /\ offset' = offset /\ recorded' = recorded /\ samples' = samples
        /\ mpc' = mpc /\ wpc = "idle" /\ wpc' = "check" /\ index' = index
    BY <1>5, Zenon DEF wq_begin
  <2> QED BY <1>a, <2>1, StoredStays, Zenon DEF Busy
<1>6. ASSUME wq_check PROVE Stored'
  <2>1. vm' = vm /\ offset' = offset /\ recorded' = recorded /\ samples' = samples
        /\ mpc' = mpc /\ wpc = "check" /\ wpc' \in {"idle", "lock"} /\ index' = index
    BY <1>6, Zenon DEF wq_check
  <2> QED BY <1>a, <2>1, StoredStays, Zenon DEF Busy
<1>7. ASSUME wq_lock PROVE Stored'
  <2>1. vm' = vm /\ offset' = offset /\ recorded' = recorded /\ samples' = samples
        /\ mpc' = mpc /\ wpc = "lock" /\ index' = 0
    BY <1>7, Zenon DEF wq_lock
  <2>2. ~Busy /\ ~Busy'
    BY <2>1 DEF Busy
  <2> QED BY <1>a, <2>1, <2>2, StoredStays, Zenon
<1>8. ASSUME get_cpu_use PROVE Stored'
  <2>1. vm' = vm /\ offset' = offset /\ recorded' = recorded /\ samples' = samples
        /\ mpc' = mpc /\ wpc \in {"read", "clear"} /\ index' = index
    BY <1>8, Zenon DEF get_cpu_use
  <2>2. index = 0
    BY <1>a, <2>1, Zenon DEF Filling
  <2>3. ~Busy /\ ~Busy'
    BY <2>1, <2>2 DEF Busy
  <2> QED BY <1>a, <2>1, <2>3, StoredStays, Zenon
<1>9. ASSUME wq_write PROVE Stored'
  BY <1>9, StoredWrite, Zenon
<1>10. ASSUME wq_end PROVE Stored'
  BY <1>10, StoredEnd, Zenon
<1>11. ASSUME buf_init PROVE Stored'
  <2>1. vm' = vm /\ offset' = offset /\ recorded' = recorded /\ samples' = samples
        /\ mpc = "closed" /\ mpc' = "skip" /\ wpc' = wpc /\ index' = index
    BY <1>11, Zenon DEF buf_init
  <2> QED BY <1>a, <2>1, StoredStays, Zenon DEF Busy
<1>12. ASSUME mon_skip PROVE Stored'
  <2>1. vm' = vm /\ offset' = offset /\ recorded' = recorded /\ samples' = samples
        /\ mpc = "skip" /\ wpc' = wpc /\ index' = index /\ ~Busy
    BY <1>a, <1>12, Zenon DEF mon_skip, Reading, Busy
  <2>2. ~Busy'
    BY <2>1, Zenon DEF Busy
  <2> QED BY <1>a, <2>1, <2>2, Zenon DEF Stored, Whole, Element
<1>13. ASSUME mon_read PROVE Stored'
  <2>1. mpc' = "read" /\ offset' = offset /\ recorded' = recorded /\ wpc' = wpc /\ wpc = "idle"
    BY <1>a, <1>13, Zenon DEF mon_read, Reading
  <2>2. ~Busy'
    BY <2>1, Zenon DEF Busy
  <2> QED BY <1>a, <2>1, <2>2, Zenon DEF Stored
<1>14. ASSUME buf_exit PROVE Stored'
  <2>1. recorded' = <<>> /\ offset' = offset /\ wpc' = wpc /\ wpc = "idle" /\ HEAD = <<>>
    BY <1>a, <1>14, Zenon DEF buf_exit, Reading
  <2>2. ~Busy' /\ offset' = 0
    BY <1>a, <2>1, Zenon DEF Busy, Filling
  <2>3. recorded' \in Seq(Nat) /\ 4 * Len(recorded') <= VM_ELEMENT_SIZE
    BY <2>1, ProfilerAssumption
  <2>4. Whole(Len(recorded))'
    BY <2>1 DEF Whole
  <2> HIDE DEF Busy, Whole
  <2> QED BY <2>1, <2>2, <2>3, <2>4, Zenon DEF Stored
<1>15. ASSUME NEW p \in Works, mywrite(p) PROVE Stored'
  <2>1. vm' = vm /\ offset' = offset /\ recorded' = recorded /\ samples' = samples
        /\ mpc' = mpc /\ wpc' = wpc /\ index' = index
    BY <1>15, Zenon DEF mywrite
  <2> QED BY <1>a, <2>1, StoredStays, Zenon DEF Busy
<1>16. ASSUME NEW p \in Works, reg_entry(p) PROVE Stored'
  <2>1. vm' = vm /\ offset' = offset /\ recorded' = recorded /\ samples' = samples
        /\ mpc' = mpc /\ wpc' = wpc /\ index' = index
    BY <1>16, Zenon DEF reg_entry
  <2> QED BY <1>a, <2>1, StoredStays, Zenon DEF Busy
<1>17. ASSUME NEW p \in Works, unreg_entry(p) PROVE Stored'
  <2>1. vm' = vm /\ recorded' = recorded /\ samples' = samples /\ mpc' = mpc /\ wpc' = wpc
        /\ lock = NULL /\ (offset' = 0 \/ offset' = offset)
    BY <1>17, Zenon DEF unreg_entry
  <2>2. ~Busy /\ ~Busy'
    <3>1. lock # "wq"
      BY <2>1, ProfilerAssumption, Zenon
    <3> QED BY <1>a, <2>1, <3>1, Zenon DEF Locking, InList, Busy
  <2>3. Whole(Len(recorded))' <=> Whole(Len(recorded))
    BY <2>1, Zenon DEF Whole, Element
  <2> HIDE DEF Busy, Whole
  <2> QED BY <1>a, <2>1, <2>2, <2>3, Zenon DEF Stored
<1>18. ASSUME NEW p \in Works, unreg_cancel(p) PROVE Stored'
  <2>1. vm' = vm /\ offset' = offset /\ recorded' = recorded /\ samples' = samples
        /\ mpc' = mpc /\ wpc' = wpc /\ index' = index
    BY <1>18, Zenon DEF unreg_cancel
  <2> QED BY <1>a, <2>1, StoredStays, Zenon DEF Busy
<1>19. ASSUME NEW p \in Works, fault(p) PROVE Stored'
  <2>1. vm' = vm /\ offset' = offset /\ recorded' = recorded /\ samples' = samples
        /\ mpc' = mpc /\ wpc' = wpc /\ index' = index
    BY <1>19, Zenon DEF fault
  <2> QED BY <1>a, <2>1, StoredStays, Zenon DEF Busy
<1>20. ASSUME NEW p \in Works, crash(p) PROVE Stored'
  <2>1. vm' = vm /\ offset' = offset /\ recorded' = recorded /\ samples' = samples
        /\ mpc' = mpc /\ wpc' = wpc /\ index' = index
    BY <1>20, Zenon DEF crash
  <2> QED BY <1>a, <2>1, StoredStays, Zenon DEF Busy
<1>21. CASE UNCHANGED vars
  <2>1. vm' = vm /\ offset' = offset /\ recorded' = recorded /\ samples' = samples
        /\ mpc' = mpc /\ wpc' = wpc /\ index' = index
    BY <1>21, Zenon DEF vars
  <2> QED BY <1>a, <2>1, StoredStays, Zenon DEF Busy
<1>22. ASSUME NEW p \in Works, reg_no_task(p) PROVE Stored'
  <2>1. vm' = vm /\ offset' = offset /\ recorded' = recorded /\ samples' = samples
        /\ mpc' = mpc /\ wpc' = wpc /\ index' = index
    BY <1>22, Zenon DEF reg_no_task
  <2> QED BY <1>a, <2>1, StoredStays, Zenon DEF Busy
<1> QED BY <1>1, <1>2, <1>3, <1>4, <1>5, <1>6, <1>7, <1>8, <1>9, <1>10, <1>11,
    <1>12, <1>13, <1>14, <1>15, <1>16, <1>17, <1>18, <1>19, <1>20, <1>21, <1>22,
    Zenon DEF Next, mp3_exit, workqueue_callback, calls

(***************************************************************************)
(* No element of a sample is a terminator.                                 *)
(***************************************************************************)
LEMMA NotEnd == \A n \in Nat, k \in 0..3 : Element(n, k) \in Int /\ Element(n, k) # END
  BY DEF Element, END

(***************************************************************************)
(* When the monitor starts, the processes have ended: the list is empty    *)
(* and the work does not run.                                              *)
(***************************************************************************)
LEMMA Opened == ASSUME Inv, Contents, buf_init PROVE Reading'
<1>1. mod = "live" /\ \A p \in Works : pc[p] \in {"start", "done"}
  BY Zenon DEF buf_init, Contents
<1>2. HEAD = <<>>
  <2>1. \A p \in Works : p \notin Range(HEAD)
    BY <1>1, Zenon DEF Inv, Membership, Open
  <2>2. HEAD \in Seq(Works)
    BY Zenon DEF Inv, TypeOK
  <2>3. \A i \in 1..Len(HEAD) : FALSE
    <3>1. Range(HEAD) \subseteq Works /\ \A i \in 1..Len(HEAD) : HEAD[i] \in Range(HEAD)
      BY <2>2, RangeFact, Zenon
    <3> QED BY <2>1, <3>1, Zenon
  <2> QED BY <2>2, <2>3
<1>3. ~pending /\ wpc = "idle"
  BY <1>1, <1>2, Zenon DEF Inv, Filling
<1>4. /\ mpc = "closed" /\ mpc' = "skip" /\ mindex' = mindex /\ printed' = printed
      /\ HEAD' = HEAD /\ wpc' = wpc /\ pending' = pending /\ pc' = pc
  BY Zenon DEF buf_init, entry, callback, proc
<1>5. mindex = 0 /\ printed = <<>>
  BY <1>4, Zenon DEF Contents, Reading
<1> QED BY <1>1, <1>2, <1>3, <1>4, <1>5, Zenon DEF Reading

(***************************************************************************)
(* If there are samples the monitor finds the first one at the start of    *)
(* the buffer and has nothing to skip.                                     *)
(***************************************************************************)
LEMMA Skipped == ASSUME Inv, Contents, mon_skip PROVE Reading'
<1>a. /\ mpc = "skip" /\ wpc = "idle" /\ mpc' \in {"skip", "read"} /\ recorded' = recorded
      /\ HEAD' = HEAD /\ wpc' = wpc /\ pending' = pending /\ pc' = pc
      /\ HEAD = <<>> /\ ~pending /\ \A p \in Works : pc[p] \in {"start", "done"}
  BY Zenon DEF mon_skip, Contents, Reading, entry, callback, proc, history
<1> SUFFICES ASSUME recorded # <<>> PROVE Reading'
  BY <1>a, Zenon DEF Reading
<1>1. /\ mpc = "skip" /\ mindex = 0 /\ printed = <<>> /\ recorded # <<>> /\ wpc = "idle"
      /\ HEAD = <<>> /\ ~pending /\ \A p \in Works : pc[p] \in {"start", "done"}
  BY <1>a, Zenon DEF Contents, Reading
<1>2. ~Busy
  BY <1>1, Zenon DEF Busy
<1>3. /\ recorded \in Seq(Nat) /\ Whole(Len(recorded))
      /\ 4 * Len(recorded) < VM_ELEMENT_SIZE => vm[4 * Len(recorded)] = END
  BY <1>1, <1>2, Zenon DEF Contents, Stored
<1>4. vm[0] # END
  <2>1. 1 \in 1..Len(recorded) /\ 0 \in 0..3 /\ recorded[1] \in Nat /\ 4 * (1 - 1) + 0 = 0
    BY <1>1, <1>3
  <2>2. vm[4 * (1 - 1) + 0] = Element(recorded[1], 0)
    BY <1>3, <2>1, Zenon DEF Whole
  <2> QED BY <2>1, <2>2, NotEnd, Zenon
<1>5. /\ mpc' = "read" /\ mindex' = 0 /\ printed' = <<>> /\ recorded' = recorded /\ vm' = vm
      /\ HEAD' = HEAD /\ wpc' = wpc /\ pending' = pending /\ pc' = pc
  BY <1>1, <1>4, Zenon DEF mon_skip, entry, callback, buffer, proc, history
<1>6. /\ printed' \in Seq(Int) /\ Len(printed') = 0 /\ 0 <= BUFD_MAX /\ 0 # BUFD_MAX
      /\ 0 <= 4 * Len(recorded)
  BY <1>3, <1>5, ProfilerAssumption
<1>7. ASSUME NEW i \in 1..Len(recorded), NEW k \in 0..3
      PROVE  ~(4 * (i - 1) + k < 0) /\ vm[4 * (i - 1) + k] = Element(recorded[i], k)
  <2>1. ~(4 * (i - 1) + k < 0)
    OBVIOUS
  <2> QED BY <1>3, <2>1, Zenon DEF Whole
<1>8. ReadUpTo(Len(printed))'
  <2> SUFFICES ASSUME NEW i \in 1..Len(recorded'), NEW k \in 0..3
               PROVE  IF 4 * (i - 1) + k < Len(printed')
                      THEN /\ printed'[(4 * (i - 1) + k) + 1] = Element(recorded'[i], k)
                           /\ vm'[4 * (i - 1) + k] = END
                      ELSE vm'[4 * (i - 1) + k] = Element(recorded'[i], k)
    BY Zenon DEF ReadUpTo, Element, END
  <2>1. recorded' = recorded /\ vm' = vm /\ Len(printed') = 0
    BY <1>5, <1>6, Zenon
  <2>2. ~(4 * (i - 1) + k < 0) /\ vm[4 * (i - 1) + k] = Element(recorded[i], k)
    BY <1>7, <2>1, Zenon
  <2> QED BY <2>1, <2>2, Zenon
<1>9. /\ Len(printed') <= BUFD_MAX /\ Len(printed') <= 4 * Len(recorded')
      /\ mindex' = IF Len(printed') = BUFD_MAX THEN 0 ELSE Len(printed')
      /\ 4 * Len(recorded') < VM_ELEMENT_SIZE => vm'[4 * Len(recorded')] = END
  <2>1. recorded' = recorded /\ vm' = vm /\ mindex' = 0
    BY <1>5, Zenon
  <2> QED BY <1>3, <1>6, <2>1, Zenon
<1>10. /\ mpc' = "read" /\ recorded' # <<>> /\ HEAD' = <<>> /\ wpc' = "idle" /\ ~pending'
       /\ \A p \in Works : pc'[p] \in {"start", "done"}
  BY <1>1, <1>5, Zenon
<1> QED BY <1>6, <1>8, <1>9, <1>10, Zenon DEF Reading

(***************************************************************************)
(* What is left to read, and when there is none: the monitor stops at the  *)
(* terminator, or at the start of the buffer when it has wrapped.          *)
(***************************************************************************)
LEMMA WhatIsLeft ==
  ASSUME Contents, mpc = "read", recorded # <<>>,
         NEW t, t = Len(printed), NEW n, n = Len(recorded)
  PROVE  /\ t \in Nat /\ n \in Nat \ {0} /\ t <= BUFD_MAX /\ t <= 4 * n
         /\ t < BUFD_MAX /\ t < 4 * n => mindex = t /\ vm[t] \in Int /\ vm[t] # END
         /\ t = BUFD_MAX \/ t = 4 * n => t % 4 = 0 /\ vm[mindex] = END
<1> USE ProfilerAssumption
<1>1. /\ printed \in Seq(Int) /\ t <= BUFD_MAX /\ t <= 4 * n
      /\ mindex = (IF t = BUFD_MAX THEN 0 ELSE t)
      /\ recorded \in Seq(Nat) /\ recorded # <<>>
      /\ 4 * n < VM_ELEMENT_SIZE => vm[4 * n] = END
  BY Zenon DEF Contents, Stored, Reading
<1>2. \A i \in 1..n, k \in 0..3 :
        IF 4 * (i - 1) + k < t THEN vm[4 * (i - 1) + k] = END
        ELSE vm[4 * (i - 1) + k] = Element(recorded[i], k)
  BY Zenon DEF Contents, Reading, ReadUpTo
<1>3. t \in Nat /\ n \in Nat \ {0}
  BY <1>1
<1>4. ASSUME t < BUFD_MAX, t < 4 * n PROVE mindex = t /\ vm[t] \in Int /\ vm[t] # END
  <2> DEFINE i == t \div 4 + 1
             k == t % 4
  <2>1. i \in 1..n /\ k \in 0..3 /\ 4 * (i - 1) + k = t
    BY <1>3, <1>4
  <2> HIDE DEF i, k
  <2>2. ~(t < t) /\ t # BUFD_MAX /\ recorded[i] \in Nat
    BY <1>1, <1>3, <1>4, <2>1
  <2>3. vm[t] = Element(recorded[i], k)
    BY <1>2, <2>1, <2>2, Zenon
  <2> QED BY <1>1, <2>1, <2>2, <2>3, NotEnd, Zenon
<1>5. ASSUME t = BUFD_MAX PROVE t % 4 = 0 /\ vm[mindex] = END
  <2>1. 1 \in 1..n /\ 0 \in 0..3 /\ 4 * (1 - 1) + 0 = 0 /\ 0 < t /\ t % 4 = 0
    BY <1>3, <1>5
  <2>2. PICK i \in 1..n, k \in 0..3 : 4 * (i - 1) + k = 0
    BY ONLY <2>1
  <2>3. i \in 1..n /\ k \in 0..3 /\ 4 * (i - 1) + k < t
    BY ONLY <2>1, <2>2
  <2>4. vm[4 * (i - 1) + k] = END
    BY ONLY <1>2, <2>3, Zenon
  <2>5. vm[0] = END
    BY ONLY <2>2, <2>4
  <2> QED BY <1>1, <1>5, <2>1, <2>5, Zenon
<1>6. ASSUME t = 4 * n, t # BUFD_MAX PROVE t % 4 = 0 /\ vm[mindex] = END
  <2>1. t % 4 = 0 /\ 4 * n < VM_ELEMENT_SIZE
    <3>1. \A m \in Nat : (4 * m) % 4 = 0
      OBVIOUS
    <3>2. 4 * n < VM_ELEMENT_SIZE
      BY ONLY <1>1, <1>3, <1>6, ProfilerAssumption
    <3> QED BY <1>3, <1>6, <3>1, <3>2, Zenon
  <2> QED BY <1>1, <1>6, <2>1, Zenon
<1> QED BY <1>1, <1>3, <1>4, <1>5, <1>6, Zenon

(***************************************************************************)
(* The monitor prints the next element and leaves a terminator for it.     *)
(***************************************************************************)
LEMMA ReadOne ==
  ASSUME Inv, Contents, VM_ELEMENT_SIZE <= VM_ELEMENTS, mon_read PROVE Reading'
<1>a. /\ mpc = "read" /\ mpc' = mpc /\ recorded' = recorded
      /\ HEAD' = HEAD /\ wpc' = wpc /\ pending' = pending /\ pc' = pc
      /\ HEAD = <<>> /\ wpc = "idle" /\ ~pending /\ \A p \in Works : pc[p] \in {"start", "done"}
  BY Zenon DEF mon_read, Contents, Reading, entry, callback, proc, history
<1> SUFFICES ASSUME recorded # <<>> PROVE Reading'
  BY <1>a, Zenon DEF Reading
<1> DEFINE t == Len(printed)  n == Len(recorded)
<1>1. /\ mpc = "read" /\ (t % 4 # 0 \/ vm[mindex] # END)
      /\ printed' = Append(printed, vm[mindex]) /\ vm' = [vm EXCEPT ![mindex] = END]
      /\ mindex' = IF mindex + 1 >= BUFD_MAX THEN 0 ELSE mindex + 1
      /\ mpc' = mpc /\ recorded' = recorded
      /\ HEAD' = HEAD /\ wpc' = wpc /\ pending' = pending /\ pc' = pc
  BY Zenon DEF mon_read, entry, callback, proc, history
<1>2. /\ recorded # <<>> /\ HEAD = <<>> /\ wpc = "idle" /\ ~pending
      /\ \A p \in Works : pc[p] \in {"start", "done"}
      /\ printed \in Seq(Int) /\ recorded \in Seq(Nat) /\ 4 * n <= VM_ELEMENT_SIZE
      /\ 4 * n < VM_ELEMENT_SIZE => vm[4 * n] = END
  BY <1>1, Zenon DEF Contents, Stored, Reading
<1>3. \A i \in 1..n, k \in 0..3 :
        IF 4 * (i - 1) + k < t
        THEN printed[(4 * (i - 1) + k) + 1] = Element(recorded[i], k) /\ vm[4 * (i - 1) + k] = END
        ELSE vm[4 * (i - 1) + k] = Element(recorded[i], k)
  BY <1>1, Zenon DEF Contents, Reading, ReadUpTo
<1>4. /\ t \in Nat /\ n \in Nat \ {0} /\ t <= BUFD_MAX /\ t <= 4 * n
      /\ t < BUFD_MAX /\ t < 4 * n => mindex = t /\ vm[t] \in Int /\ vm[t] # END
      /\ t = BUFD_MAX \/ t = 4 * n => t % 4 = 0 /\ vm[mindex] = END
  BY <1>1, WhatIsLeft, Zenon
<1>d. DOMAIN vm = 0..(VM_ELEMENTS - 1)
  BY Zenon DEF Inv, TypeOK
<1> HIDE DEF n, t
<1>5. t < BUFD_MAX /\ t < 4 * n /\ mindex = t /\ vm[t] \in Int
  <2>1. t # BUFD_MAX /\ t # 4 * n
    BY <1>1, <1>4, Zenon
  <2>2. t < BUFD_MAX /\ t < 4 * n
    BY <1>4, <2>1, ProfilerAssumption
  <2> QED BY <1>4, <2>2, Zenon
<1>6. /\ printed' \in Seq(Int) /\ Len(printed') = t + 1 /\ printed'[t + 1] = vm[t]
      /\ \A j \in 1..t : printed'[j] = printed[j]
  BY <1>1, <1>2, <1>5 DEF t
<1>7. \A j \in 0..(4 * n - 1) : vm'[j] = IF j = t THEN END ELSE vm[j]
  <2>1. \A j \in 0..(4 * n - 1) : j \in DOMAIN vm
    BY <1>2, <1>4, <1>d, ProfilerAssumption
  <2> QED BY <1>1, <1>5, <2>1, Zenon
<1>8. ASSUME NEW i \in 1..n, NEW k \in 0..3
      PROVE  IF 4 * (i - 1) + k < t + 1
             THEN printed'[(4 * (i - 1) + k) + 1] = Element(recorded[i], k) /\ vm'[4 * (i - 1) + k] = END
             ELSE vm'[4 * (i - 1) + k] = Element(recorded[i], k)
  <2> DEFINE j == 4 * (i - 1) + k
  <2>1. j \in 0..(4 * n - 1)
    BY <1>4
  <2>2. IF j < t THEN printed[j + 1] = Element(recorded[i], k) /\ vm[j] = END
        ELSE vm[j] = Element(recorded[i], k)
    BY <1>3, Zenon
  <2>3. vm'[j] = IF j = t THEN END ELSE vm[j]
    BY <1>7, <2>1, Zenon
  <2>4. IF j < t + 1 THEN printed'[j + 1] = Element(recorded[i], k) /\ vm'[j] = END
        ELSE vm'[j] = Element(recorded[i], k)
    <3> HIDE DEF j
    <3>1. CASE j < t
      <4>1. j + 1 \in 1..t /\ j # t /\ j < t + 1
        BY <1>4, <2>1, <3>1
      <4> QED BY <1>6, <2>2, <2>3, <3>1, <4>1, Zenon
    <3>2. CASE j = t
      <4>1. j < t + 1 /\ ~(j < t)
        BY <1>4, <3>2
      <4> QED BY <1>6, <2>2, <2>3, <3>2, <4>1, Zenon
    <3>3. CASE ~(j < t) /\ j # t
      <4>1. ~(j < t + 1)
        BY <1>4, <2>1, <3>3
      <4> QED BY <2>2, <2>3, <3>3, <4>1, Zenon
    <3> QED BY <3>1, <3>2, <3>3, Zenon
  <2> QED BY <2>4, Zenon
<1>9. ASSUME 4 * n < VM_ELEMENT_SIZE PROVE vm'[4 * n] = END
  <2>1. 4 * n # t /\ 4 * n \in DOMAIN vm
    BY <1>4, <1>5, <1>9, <1>d, ProfilerAssumption
  <2> QED BY <1>1, <1>2, <1>5, <1>9, <2>1, Zenon DEF n
<1>10. t + 1 <= BUFD_MAX /\ t + 1 <= 4 * n /\ mindex' = IF t + 1 = BUFD_MAX THEN 0 ELSE t + 1
  BY <1>1, <1>4, <1>5, ProfilerAssumption
<1>11. Len(recorded') = n /\ Len(printed') = t + 1 /\ mpc' # "skip"
  BY <1>1, <1>6, Zenon DEF n
<1>12. ReadUpTo(Len(printed))'
  <2> SUFFICES ASSUME NEW i \in 1..Len(recorded'), NEW k \in 0..3
               PROVE  IF 4 * (i - 1) + k < Len(printed')
                      THEN /\ printed'[(4 * (i - 1) + k) + 1] = Element(recorded'[i], k)
                           /\ vm'[4 * (i - 1) + k] = END
                      ELSE vm'[4 * (i - 1) + k] = Element(recorded'[i], k)
    BY Zenon DEF ReadUpTo, Element, END
  <2>1. recorded' = recorded /\ Len(printed') = t + 1 /\ i \in 1..n
    BY <1>1, <1>11, Zenon
  <2> QED BY <1>8, <2>1, Zenon
<1> QED BY <1>1, <1>2, <1>6, <1>9, <1>10, <1>11, <1>12, Zenon DEF Reading

(***************************************************************************)
(* While the monitor has the device open only the monitor goes on, and it  *)
(* reads the samples in order.                                             *)
(***************************************************************************)
LEMMA ReadingStep ==
  ASSUME Inv, Contents, VM_ELEMENT_SIZE <= VM_ELEMENTS, [Next]_vars PROVE Reading'
<1>a. Locking /\ Reading /\ (mpc # "closed" => mod = "live")
  BY Zenon DEF Inv, Contents, Locking
<1>b. ASSUME mpc = "closed", mpc' = mpc, mindex' = mindex, printed' = printed PROVE Reading'
  BY <1>a, <1>b, Zenon DEF Reading
<1>c. ASSUME mpc # "closed"
      PROVE  /\ mod = "live" /\ wpc = "idle" /\ ~pending
             /\ \A p \in Works : pc[p] \in {"start", "done"}
  BY <1>a, <1>c, Zenon DEF Reading
<1> USE DEF entry, callback, buffer, proc, monitor, history
<1>1. ASSUME mp3_init PROVE Reading'
  BY <1>b, <1>c, <1>1, Zenon DEF mp3_init
<1>2. ASSUME exit_lock PROVE Reading'
  BY <1>b, <1>c, <1>2, Zenon DEF exit_lock
<1>3. ASSUME proc_remove PROVE Reading'
  BY <1>b, <1>c, <1>3, Zenon DEF proc_remove
<1>4. ASSUME exit_cancel PROVE Reading'
  BY <1>b, <1>c, <1>4, Zenon DEF exit_cancel
<1>5. ASSUME wq_begin PROVE Reading'
  BY <1>b, <1>c, <1>5, Zenon DEF wq_begin
<1>6. ASSUME wq_check PROVE Reading'
  BY <1>b, <1>c, <1>6, Zenon DEF wq_check
<1>7. ASSUME wq_lock PROVE Reading'
  BY <1>b, <1>c, <1>7, Zenon DEF wq_lock
<1>8. ASSUME get_cpu_use PROVE Reading'
  BY <1>b, <1>c, <1>8, Zenon DEF get_cpu_use
<1>9. ASSUME wq_write PROVE Reading'
  BY <1>b, <1>c, <1>9, Zenon DEF wq_write
<1>10. ASSUME wq_end PROVE Reading'
  BY <1>b, <1>c, <1>10, Zenon DEF wq_end, Finish
<1>11. ASSUME buf_init PROVE Reading'
  BY <1>11, Opened, Zenon
<1>12. ASSUME mon_skip PROVE Reading'
  BY <1>12, Skipped, Zenon
<1>13. ASSUME mon_read PROVE Reading'
  BY <1>13, ReadOne, Zenon
<1>14. ASSUME buf_exit PROVE Reading'
  BY <1>14, Zenon DEF buf_exit, Reading
<1>15. ASSUME NEW p \in Works, mywrite(p) PROVE Reading'
  BY <1>b, <1>c, <1>15, Zenon DEF mywrite
<1>16. ASSUME NEW p \in Works, reg_entry(p) PROVE Reading'
  BY <1>b, <1>c, <1>16, Zenon DEF reg_entry
<1>17. ASSUME NEW p \in Works, unreg_entry(p) PROVE Reading'
  BY <1>b, <1>c, <1>17, Zenon DEF unreg_entry
<1>18. ASSUME NEW p \in Works, unreg_cancel(p) PROVE Reading'
  BY <1>b, <1>c, <1>18, Zenon DEF unreg_cancel
<1>19. ASSUME NEW p \in Works, fault(p) PROVE Reading'
  BY <1>b, <1>c, <1>19, Zenon DEF fault
<1>20. ASSUME NEW p \in Works, crash(p) PROVE Reading'
  BY <1>b, <1>c, <1>20, Zenon DEF crash
<1>21. CASE UNCHANGED vars
  BY <1>a, <1>21, Zenon DEF vars, Reading, ReadUpTo, Element
<1>22. ASSUME NEW p \in Works, reg_no_task(p) PROVE Reading'
  BY <1>b, <1>c, <1>22, Zenon DEF reg_no_task
<1> QED BY <1>1, <1>2, <1>3, <1>4, <1>5, <1>6, <1>7, <1>8, <1>9, <1>10, <1>11,
    <1>12, <1>13, <1>14, <1>15, <1>16, <1>17, <1>18, <1>19, <1>20, <1>21, <1>22,
    Zenon DEF Next, mp3_exit, workqueue_callback, calls

(***************************************************************************)
(* What the callback has stored (mp3.c:86-130) stays whole in the shared   *)
(* buffer until the monitor (monitor.c:95-125) has printed and erased it,  *)
(* element by element, if no process ends without unregistering.           *)
(***************************************************************************)
THEOREM SamplesStayWhole ==
  ASSUME ~Crashing, VM_ELEMENT_SIZE <= VM_ELEMENTS PROVE Spec => []Contents
<1>1. Init => Contents
  <2> SUFFICES ASSUME Init PROVE Contents
    BY Zenon
  <2>1. /\ recorded = <<>> /\ offset = 0 /\ wpc = "idle" /\ mpc = "closed"
        /\ mindex = 0 /\ printed = <<>>
        /\ \A p \in Works : pc[p] # "dead"
    BY Zenon DEF Init
  <2>2. Reading
    BY <2>1, Zenon DEF Reading
  <2>3. recorded \in Seq(Nat) /\ 4 * Len(recorded) <= VM_ELEMENT_SIZE /\ Whole(Len(recorded))
    BY <2>1, ProfilerAssumption DEF Whole
  <2>4. ~Busy
    BY <2>1, Zenon DEF Busy
  <2>5. Stored
    BY <2>1, <2>3, <2>4, Zenon DEF Stored
  <2> QED BY <2>1, <2>2, <2>5, Zenon DEF Contents
<1>2. Inv /\ Inv' /\ Contents /\ [Next]_vars => Contents'
  <2> SUFFICES ASSUME Inv, Inv', Contents, [Next]_vars PROVE Contents'
    BY Zenon
  <2>1. Stored' /\ Reading'
    BY StoredStep, ReadingStep, Zenon
  <2>2. NobodyDead'
    <3>1. NobodyDead
      BY Zenon DEF Contents, NobodyDead
    <3> QED BY <3>1, AliveStep, Zenon
  <2> QED BY <2>1, <2>2, Zenon DEF Contents, NobodyDead
<1> QED BY <1>1, <1>2, Invariance, PTL DEF Spec

(***************************************************************************)
(* What the monitor prints (monitor.c:95-125) are the samples the callback *)
(* has recorded since the buffer was last begun (mp3.c:86-130), whole and  *)
(* in order, for any sizes of the buffer that VM_SIZE has room for.        *)
(***************************************************************************)
THEOREM SamplesAreReadBack ==
  ASSUME ~Crashing, VM_ELEMENT_SIZE <= VM_ELEMENTS PROVE Spec => []SamplesReadBack
<1>1. Contents => SamplesReadBack
  <2> DEFINE t == Len(printed)  n == Len(recorded)
  <2> SUFFICES ASSUME Contents, mpc = "read", recorded # <<>>, t % 4 = 0, vm[mindex] = END
               PROVE  /\ t \div 4 = IF 4 * n < BUFD_MAX THEN n ELSE BUFD_MAX \div 4
                      /\ \A i \in 1..(t \div 4), k \in 0..3 :
                           printed[4 * (i - 1) + k + 1] = Element(recorded[i], k)
    BY Zenon DEF SamplesReadBack
  <2>1. /\ t \in Nat /\ n \in Nat \ {0} /\ t <= BUFD_MAX /\ t <= 4 * n
        /\ t < BUFD_MAX /\ t < 4 * n => mindex = t /\ vm[t] \in Int /\ vm[t] # END
    BY WhatIsLeft, Zenon
  <2>2. \A i \in 1..n, k \in 0..3 : 4 * (i - 1) + k < t =>
          printed[(4 * (i - 1) + k) + 1] = Element(recorded[i], k)
    BY Zenon DEF Contents, Reading, ReadUpTo
  <2> HIDE DEF t, n
  <2>3. ~(t < BUFD_MAX /\ t < 4 * n)
    BY <2>1, Zenon
  <2>4. t \div 4 = IF 4 * n < BUFD_MAX THEN n ELSE BUFD_MAX \div 4
    BY <2>1, <2>3, ProfilerAssumption
  <2>5. ASSUME NEW i \in 1..(t \div 4), NEW k \in 0..3
        PROVE  printed[4 * (i - 1) + k + 1] = Element(recorded[i], k)
    <3>1. i \in 1..n /\ 4 * (i - 1) + k < t
      BY <2>1
    <3> QED BY <2>2, <3>1, Zenon
  <2> QED BY <2>4, <2>5, Zenon
<1> QED BY <1>1, SamplesStayWhole, PTL
=============================================================================
