------------------------- MODULE AccessControlProofs -------------------------
(***************************************************************************)
(* Proofs about AccessControl, for any number of processes, credentials,   *)
(* blocks and files.                                                       *)
(***************************************************************************)
EXTENDS AccessControl, TLAPS

(***************************************************************************)
(* A job of a process, whatever the kernel is doing for it, has the fields *)
(* it needs.                                                               *)
(***************************************************************************)
LEMMA JobFacts ==
  ASSUME NEW j \in Jobs
  PROVE  /\ NoJob \in Jobs
         /\ \A i \in Inodes, m \in Masks : [NoJob EXCEPT !.op = "open", !.i = i, !.m = m] \in Jobs
         /\ \A op \in {"fork", "exec", "setuid", "blank"} : [NoJob EXCEPT !.op = op] \in Jobs
         /\ \A i \in Inodes : [j EXCEPT !.i = i, !.m = {"EXEC"}] \in Jobs
         /\ [j EXCEPT !.caller = "set_creds"] \in Jobs
         /\ \A s \in Sids : [j EXCEPT !.caller = "permission", !.ssid = s] \in Jobs
         /\ \A s \in Sids : [j EXCEPT !.osid = s] \in Jobs
         /\ \A h \in BOOLEAN : [j EXCEPT !.cred_prepared = TRUE, !.hit = h] \in Jobs
<1>1. NoJob \in Jobs
  BY DEF NoJob, Jobs, Sids
<1>2. ASSUME NEW i \in Inodes, NEW m \in Masks
      PROVE  [NoJob EXCEPT !.op = "open", !.i = i, !.m = m] \in Jobs
  BY <1>1, Zenon DEF Jobs
<1>3. ASSUME NEW op \in {"fork", "exec", "setuid", "blank"}
      PROVE  [NoJob EXCEPT !.op = op] \in Jobs
  BY <1>1, Zenon DEF Jobs
<1>4. ASSUME NEW i \in Inodes PROVE [j EXCEPT !.i = i, !.m = {"EXEC"}] \in Jobs
  BY Zenon DEF Jobs
<1>5. /\ [j EXCEPT !.caller = "set_creds"] \in Jobs
      /\ \A s \in Sids : [j EXCEPT !.caller = "permission", !.ssid = s] \in Jobs
  BY Zenon DEF Jobs
<1>6. ASSUME NEW s \in Sids PROVE [j EXCEPT !.osid = s] \in Jobs
  BY Zenon DEF Jobs
<1>7. ASSUME NEW h \in BOOLEAN PROVE [j EXCEPT !.cred_prepared = TRUE, !.hit = h] \in Jobs
  BY Zenon DEF Jobs
<1> QED BY <1>1, <1>2, <1>3, <1>4, <1>5, <1>6, <1>7, Zenon

(***************************************************************************)
(* A text of the attribute is converted to a label.                        *)
(***************************************************************************)
LEMMA SidType == \A text : Cred_ctx_to_sid(text) \in Sids
  BY DEF Cred_ctx_to_sid, Sids, MP4_NO_ACCESS, MP4_READ_OBJ, MP4_READ_WRITE, MP4_WRITE_OBJ,
         MP4_EXEC_OBJ, MP4_READ_DIR, MP4_RW_DIR, MP4_TARGET_SID

(***************************************************************************)
(* The label of a process that exists is one of the labels.                *)
(***************************************************************************)
LEMMA SubjectSid == ASSUME Inv, NEW p \in Procs, pc[p] # "none" PROVE Sid(p) \in Sids
<1>1. task[p] \in Creds
  BY Zenon DEF Inv, TypeOK, Control, ControlOf
<1>2. /\ security[task[p]] \in Blobs \cup {NULL}
      /\ security[task[p]] # NULL => blob[security[task[p]]] \in Sids
  BY <1>1, ACAssumption DEF Inv, TypeOK, BlobsOwned, Live, InUse
<1> QED BY <1>2 DEF Sid, Sids, MP4_NO_ACCESS

(***************************************************************************)
(* What get_inode_sid and its callers may change when the label has been   *)
(* read.                                                                   *)
(***************************************************************************)
FoundTypes == pc \in [Procs -> Pcs] /\ job \in [Procs -> Jobs] /\ blob \in [Blobs -> Sids \cup {NULL}]

(***************************************************************************)
(* The label is converted and goes to the caller, or to the block of the   *)
(* credential that is being prepared.                                      *)
(***************************************************************************)
LEMMA FoundStep ==
  ASSUME Inv, NEW p \in Procs, NEW text, Found(p, text) PROVE FoundTypes'
<1>1. job[p] \in Jobs /\ TypeOK /\ MP4_TARGET_SID \in Sids
  BY DEF Inv, TypeOK, Sids, MP4_TARGET_SID
<1>2. pc' \in [Procs -> Pcs]
  BY <1>1, Zenon DEF Found, Goto, TypeOK, Pcs
<1>3. blob' \in [Blobs -> Sids \cup {NULL}]
  BY <1>1, SidType DEF Found, TypeOK
<1>4. \/ \E s \in Sids : job' = [job EXCEPT ![p] = [job[p] EXCEPT !.osid = s]]
      \/ \E h \in BOOLEAN : job' = [job EXCEPT ![p] = [job[p] EXCEPT !.cred_prepared = TRUE, !.hit = h]]
  BY SidType, Zenon DEF Found
<1>j. /\ \A s \in Sids : [job[p] EXCEPT !.osid = s] \in Jobs
      /\ \A h \in BOOLEAN : [job[p] EXCEPT !.cred_prepared = TRUE, !.hit = h] \in Jobs
  BY <1>1, JobFacts, Zenon
<1>5. job' \in [Procs -> Jobs]
  BY <1>1, <1>4, <1>j, Zenon DEF TypeOK
<1> QED BY <1>2, <1>3, <1>5, Zenon DEF FoundTypes

(***************************************************************************)
(* What a process holds is never put back twice.                           *)
(***************************************************************************)
LEMMA HeldTypes ==
  ASSUME Inv, NEW p \in Procs,
         \/ dentries' = dentries \/ dget(p)
         \/ dput(p) /\ pc[p] \in {"alias", "path", "ctx", "getxattr", "decide"},
         \/ buffers' = buffers \/ kzalloc(p)
         \/ kfree(p) /\ pc[p] \in {"path", "getxattr", "decide"}
  PROVE  dentries' \in [Procs -> Nat] /\ buffers' \in [Procs -> Nat]
<1>1. /\ dentries \in [Procs -> Nat] /\ buffers \in [Procs -> Nat]
      /\ dentries[p] = DentriesOf(p) /\ buffers[p] = BuffersOf(p)
  BY Zenon DEF Inv, TypeOK, Refs
<1>2. pc[p] \in {"alias", "path", "ctx", "getxattr", "decide"} => dentries[p] > 0
  BY <1>1 DEF DentriesOf, Count, Asked
<1>3. pc[p] \in {"path", "getxattr", "decide"} => buffers[p] > 0
  BY <1>1 DEF BuffersOf, Count, Asked
<1>4. dentries' \in [Procs -> Nat]
  BY <1>1, <1>2 DEF dget, dput
<1>5. buffers' \in [Procs -> Nat]
  BY <1>1, <1>3 DEF kzalloc, kfree
<1> QED BY <1>4, <1>5, Zenon

(***************************************************************************)
(* Every hook and every step of the kernel around it keeps the types.      *)
(***************************************************************************)
LEMMA TypeStep == ASSUME Inv, [Next]_vars PROVE TypeOK'
<1>a. TypeOK /\ Control
  BY Zenon DEF Inv
<1> USE ACAssumption, <1>a DEF creds, held, Goto, TypeOK
<1>j. \A p \in Procs : job[p] \in Jobs
  BY Zenon
<1>p. Creds \cap {NULL} = {} /\ MP4_NO_ACCESS \in Sids /\ MP4_TARGET_SID \in Sids
  BY DEF Sids, MP4_NO_ACCESS, MP4_TARGET_SID
<1>n. NoJob \in Jobs
  BY <1>j, JobFacts, Zenon
<1> HIDE DEF Jobs, NoJob, Sids
<1>1. ASSUME NEW p \in Procs, prepare_creds(p) PROVE TypeOK'
  <2>1. PICK c \in Creds, op \in {"fork", "exec", "setuid", "blank"} :
          \/ /\ mp4_cred_alloc_blank(c) \/ mp4_cred_prepare(c, task[p])
             /\ new' = [new EXCEPT ![p] = c] /\ Goto(p, "prepared")
             /\ job' = [job EXCEPT ![p] = [NoJob EXCEPT !.op = op]] /\ UNCHANGED dying
          \/ NoMemory(c) /\ UNCHANGED <<new, pc, job>>
    BY <1>1, Zenon DEF prepare_creds
  <2>j. [NoJob EXCEPT !.op = op] \in Jobs
    BY <1>j, JobFacts, Zenon
  <2>2. job' \in [Procs -> Jobs]
    BY <2>1, <2>j, Zenon
  <2>3. /\ task' = task /\ pc' \in [Procs -> Pcs] /\ new' \in [Procs -> Creds \cup {NULL}]
        /\ dying' \subseteq Creds /\ UNCHANGED <<held, xattr, ran>>
    BY <1>1, <2>1 DEF prepare_creds, NoMemory, Pcs
  <2>4. task[p] # NULL /\ task[p] \in Creds
    BY <1>1, Zenon DEF prepare_creds, Control, ControlOf
  <2>5. security' \in [Creds -> Blobs \cup {NULL, POISON}]
    BY <2>1 DEF NoMemory, mp4_cred_prepare, mp4_cred_alloc_blank
  <2>6. blob' \in [Blobs -> Sids \cup {NULL}]
    <3>1. CASE mp4_cred_alloc_blank(c) \/ NoMemory(c)
      BY <3>1, <1>p, ZenonT(60) DEF mp4_cred_alloc_blank, NoMemory
    <3>2. CASE mp4_cred_prepare(c, task[p])
      <4>1. security[task[p]] # NULL => security[task[p]] \in Blobs
        BY <2>4 DEF Inv, BlobsOwned, Live, InUse
      <4> QED BY <3>2, <4>1, <1>p DEF mp4_cred_prepare
    <3> QED BY <2>1, <3>1, <3>2, Zenon
  <2> QED BY <2>2, <2>3, <2>5, <2>6, Zenon
<1>2. ASSUME NEW p \in Procs, abort_creds(p) PROVE TypeOK'
  BY <1>2, <1>n DEF abort_creds, Pcs, ControlOf, Control
<1>3. ASSUME NEW p \in Procs, commit_creds(p) PROVE TypeOK'
  <2>1. /\ ran' \in [Procs -> BOOLEAN]
    BY <1>3, <1>j, Zenon DEF commit_creds, Jobs
  <2> QED BY <1>3, <2>1, <1>n DEF commit_creds, Put, Pcs, ControlOf, Control
<1>4. ASSUME NEW p \in Procs, exit(p) PROVE TypeOK'
  BY <1>4 DEF exit, Put, Pcs, ControlOf, Control
<1>5. ASSUME NEW p \in Procs, NEW q \in Procs, fork(p, q) PROVE TypeOK'
  BY <1>5, <1>n, Zenon DEF fork, Pcs
<1>6. ASSUME NEW p \in Procs, NEW q \in Procs, clone_thread(p, q) PROVE TypeOK'
  BY <1>6, Zenon DEF clone_thread, Pcs
<1>7. ASSUME NEW p \in Procs, NEW i \in Inodes, NEW m \in Masks, open(p, i, m) PROVE TypeOK'
  BY <1>7, <1>j, JobFacts, Zenon DEF open, Pcs
<1>8. ASSUME NEW p \in Procs, NEW i \in Inodes, open_exec(p, i) PROVE TypeOK'
  <2>1. job' = [job EXCEPT ![p] = [job[p] EXCEPT !.i = i, !.m = {"EXEC"}]]
    BY <1>8, Zenon DEF open_exec
  <2>2. job' \in [Procs -> Jobs]
    BY <2>1, <1>j, JobFacts, Zenon
  <2> QED BY <1>8, <2>2, Zenon DEF open_exec, Pcs
<1>9. ASSUME NEW p \in Procs, NEW i \in Inodes, create(p, i) PROVE TypeOK'
  <2>1. xattr' \in [Inodes -> Texts]
    BY <1>9, Zenon DEF create, mp4_inode_init_security, Texts
  <2> QED BY <1>9, <2>1, Zenon DEF create
<1>r. ASSUME NEW p \in Procs, NEW granted, Return(p, granted)
      PROVE  job' \in [Procs -> Jobs] /\ pc' \in [Procs -> Pcs]
  <2>1. job' = job \/ job' = [job EXCEPT ![p] = NoJob]
    BY <1>r, Zenon DEF Return
  <2>2. pc' \in [Procs -> Pcs]
    BY <1>r, Zenon DEF Return, Pcs
  <2>3. job' \in [Procs -> Jobs]
    BY <1>n, <2>1
  <2> QED BY <2>2, <2>3, Zenon
<1>10. ASSUME NEW p \in Procs, mp4_inode_permission(p) PROVE TypeOK'
  <2>1. job' \in [Procs -> Jobs] /\ pc' \in [Procs -> Pcs]
    BY <1>10, <1>r, Zenon DEF mp4_inode_permission, Pcs
  <2>2. dentries' \in [Procs -> Nat] /\ buffers' \in [Procs -> Nat]
    BY <1>10, HeldTypes, Zenon DEF mp4_inode_permission
  <2> QED BY <1>10, <2>1, <2>2, Zenon DEF mp4_inode_permission
<1>11. ASSUME NEW p \in Procs, get_inode_sid(p) PROVE TypeOK'
  <2>1. dentries' \in [Procs -> Nat] /\ buffers' \in [Procs -> Nat]
    BY <1>11, HeldTypes, Zenon DEF get_inode_sid
  <2>2. Found(p, "none") => FoundTypes'
    BY <1>11, FoundStep, Zenon DEF get_inode_sid
  <2>3. FoundTypes'
    BY <1>11, <2>2, Zenon DEF get_inode_sid, FoundTypes, Pcs
  <2> QED BY <1>11, <2>1, <2>3, Zenon DEF get_inode_sid, FoundTypes
<1>12. ASSUME NEW p \in Procs, getxattr(p) PROVE TypeOK'
  <2>1. FoundTypes'
    BY <1>12, FoundStep, Zenon DEF getxattr
  <2>2. dentries' \in [Procs -> Nat] /\ buffers' \in [Procs -> Nat]
    BY <1>12, HeldTypes, Zenon DEF getxattr
  <2> QED BY <1>12, <2>1, <2>2, Zenon DEF getxattr, FoundTypes
<1>13. ASSUME NEW p \in Procs, decide(p) PROVE TypeOK'
  <2>1. job' \in [Procs -> Jobs] /\ pc' \in [Procs -> Pcs]
    BY <1>13, <1>r, Zenon DEF decide
  <2>2. dentries' \in [Procs -> Nat] /\ buffers' \in [Procs -> Nat]
    BY <1>13, HeldTypes, Zenon DEF decide
  <2> QED BY <1>13, <2>1, <2>2, Zenon DEF decide
<1>14. ASSUME NEW p \in Procs, mp4_bprm_set_creds(p) PROVE TypeOK'
  <2>1. /\ \/ job' = job
           \/ job' = [job EXCEPT ![p] = [job[p] EXCEPT !.caller = "set_creds"]]
        /\ pc' \in [Procs -> Pcs] /\ UNCHANGED <<creds, held, xattr, ran>>
    BY <1>14 DEF mp4_bprm_set_creds, Pcs
  <2>j. [job[p] EXCEPT !.caller = "set_creds"] \in Jobs
    BY <1>j, JobFacts, Zenon
  <2>2. job' \in [Procs -> Jobs]
    BY <2>1, <2>j, ZenonT(60)
  <2> QED BY <2>1, <2>2, Zenon
<1>15. ASSUME NEW c \in Creds, mp4_cred_free(c) PROVE TypeOK'
  <2>1. security[c] # NULL => security[c] \in Blobs
    BY <1>15, Zenon DEF mp4_cred_free
  <2> QED BY <1>15, <2>1, Zenon DEF mp4_cred_free
<1>16. ASSUME NEW i \in Inodes, setfattr(i) PROVE TypeOK'
  BY <1>16 DEF setfattr
<1>17. CASE UNCHANGED vars
  BY <1>17, Zenon DEF vars
<1>18. ASSUME NEW p \in Procs, check_mask(p) PROVE TypeOK'
  <2>1. job' \in [Procs -> Jobs] /\ pc' \in [Procs -> Pcs]
    BY <1>18, <1>r, Zenon DEF check_mask, Pcs
  <2>2. dentries' \in [Procs -> Nat] /\ buffers' \in [Procs -> Nat]
    BY <1>18, HeldTypes, Zenon DEF check_mask
  <2> QED BY <1>18, <2>1, <2>2, Zenon DEF check_mask
<1>19. ASSUME NEW p \in Procs, check_path(p) PROVE TypeOK'
  <2>s. Sid(p) \in Sids
    BY <1>19, SubjectSid, Zenon DEF check_path
  <2>j. [job[p] EXCEPT !.caller = "permission", !.ssid = Sid(p)] \in Jobs
    BY <1>j, <2>s, JobFacts, Zenon
  <2>1. \/ \E granted \in BOOLEAN : Return(p, granted)
        \/ /\ Goto(p, "get_inode_sid")
           /\ job' = [job EXCEPT ![p] = [job[p] EXCEPT !.caller = "permission", !.ssid = Sid(p)]]
    BY <1>19, Zenon DEF check_path
  <2>2. Goto(p, "get_inode_sid") => pc' \in [Procs -> Pcs]
    BY Zenon DEF Pcs
  <2>u. \A J \in Jobs : [job EXCEPT ![p] = J] \in [Procs -> Jobs]
    OBVIOUS
  <2>t. job' = [job EXCEPT ![p] = [job[p] EXCEPT !.caller = "permission", !.ssid = Sid(p)]]
          => job' \in [Procs -> Jobs]
    BY ONLY <2>j, <2>u, Zenon
  <2>3. job' \in [Procs -> Jobs] /\ pc' \in [Procs -> Pcs]
    BY <1>r, <2>1, <2>2, <2>t, Zenon
  <2>4. dentries' \in [Procs -> Nat] /\ buffers' \in [Procs -> Nat]
    BY <1>19, HeldTypes, Zenon DEF check_path
  <2> QED BY <1>19, <2>3, <2>4, Zenon DEF check_path
<1>20. ASSUME NEW p \in Procs, alloc_ctx(p) PROVE TypeOK'
  <2>1. dentries' \in [Procs -> Nat] /\ buffers' \in [Procs -> Nat]
    BY <1>20, HeldTypes, Zenon DEF alloc_ctx
  <2>2. Found(p, "none") => FoundTypes'
    BY <1>20, FoundStep, Zenon DEF alloc_ctx
  <2>3. FoundTypes'
    BY <1>20, <2>2, Zenon DEF alloc_ctx, FoundTypes, Pcs
  <2> QED BY <1>20, <2>1, <2>3, Zenon DEF alloc_ctx, FoundTypes
<1> QED BY <1>1, <1>2, <1>3, <1>4, <1>5, <1>6, <1>7, <1>8, <1>9, <1>10, <1>11,
    <1>12, <1>13, <1>14, <1>15, <1>16, <1>17, <1>18, <1>19, <1>20, Zenon DEF Next, Process

(***************************************************************************)
(* mp4_inode_permission returns to open or to execve.                      *)
(***************************************************************************)
LEMMA ReturnControl ==
  ASSUME Inv, NEW p \in Procs, NEW granted, Return(p, granted),
         pc[p] \in {"permission", "alias", "path", "decide"},
         UNCHANGED <<task, new>>
  PROVE  Control'
<1>a. /\ task \in [Procs -> Creds \cup {NULL}] /\ new \in [Procs -> Creds \cup {NULL}]
      /\ pc \in [Procs -> Pcs] /\ job \in [Procs -> Jobs] /\ \A r \in Procs : ControlOf(r)
  BY Zenon DEF Inv, TypeOK, Control
<1>1. CASE job[p].op = "open"
  <2>1. pc' = [pc EXCEPT ![p] = "user"] /\ job' = [job EXCEPT ![p] = NoJob]
    BY <1>1, Zenon DEF Return, Goto
  <2>2. job'[p].op = "none" /\ job'[p].hit = FALSE
    BY <1>a, <2>1, Zenon DEF NoJob
  <2>3. ControlOf(p)'
    BY <1>a, <1>1, <2>1, <2>2, Zenon DEF ControlOf, Checking, Reading
  <2>4. \A r \in Procs \ {p} : ControlOf(r)'
    BY <1>a, <2>1 DEF ControlOf
  <2> QED BY <2>3, <2>4, Zenon DEF Control
<1>2. CASE job[p].op # "open"
  <2>1. job' = job /\ \E l \in {"set_creds", "failed"} : pc' = [pc EXCEPT ![p] = l]
    BY <1>2, Zenon DEF Return, Goto
  <2>2. ControlOf(p)'
    BY <1>a, <1>2, <2>1, Zenon DEF ControlOf, Checking, Reading
  <2>3. \A r \in Procs \ {p} : ControlOf(r)'
    BY <1>a, <2>1 DEF ControlOf
  <2> QED BY <2>2, <2>3 DEF Control
<1> QED BY <1>1, <1>2, Zenon

(***************************************************************************)
(* get_inode_sid returns to mp4_inode_permission or, through               *)
(* mp4_bprm_set_creds, to execve.                                          *)
(***************************************************************************)
LEMMA FoundControl ==
  ASSUME Inv, NEW p \in Procs, NEW text, Found(p, text), pc[p] \in Reading,
         UNCHANGED <<task, new>>
  PROVE  Control'
<1>a. /\ task \in [Procs -> Creds \cup {NULL}] /\ new \in [Procs -> Creds \cup {NULL}]
      /\ pc \in [Procs -> Pcs] /\ job \in [Procs -> Jobs] /\ \A r \in Procs : ControlOf(r)
  BY Zenon DEF Inv, TypeOK, Control
<1>1. CASE job[p].caller = "permission"
  <2>1. /\ pc' = [pc EXCEPT ![p] = "decide"]
        /\ job' = [job EXCEPT ![p] = [job[p] EXCEPT !.osid = Cred_ctx_to_sid(text)]]
    BY <1>1, Zenon DEF Found, Goto
  <2>2. /\ job'[p].caller = "permission" /\ job'[p].op = job[p].op /\ job'[p].i = job[p].i
        /\ job'[p].cred_prepared = job[p].cred_prepared /\ job'[p].hit = job[p].hit
    BY <1>a, <1>1, <2>1, Zenon DEF Jobs
  <2>3. ControlOf(p)'
    BY <1>a, <2>1, <2>2, Zenon DEF ControlOf, Checking, Reading
  <2>4. \A r \in Procs \ {p} : ControlOf(r)'
    BY <1>a, <2>1 DEF ControlOf
  <2> QED BY <2>3, <2>4, Zenon DEF Control
<1>2. CASE job[p].caller # "permission"
  <2>1. /\ pc' = [pc EXCEPT ![p] = "loaded"] /\ job[p].caller = "set_creds"
        /\ job' = [job EXCEPT ![p] = [job[p] EXCEPT !.cred_prepared = TRUE,
                                                    !.hit = (text = "target")]]
    BY <1>2, Zenon DEF Found, Goto
  <2>2. /\ job'[p].op = job[p].op /\ job'[p].cred_prepared
    BY <1>a, <2>1, Zenon DEF Jobs
  <2>3. ControlOf(p)'
    BY <1>a, <2>1, <2>2, Zenon DEF ControlOf, Checking, Reading
  <2>4. \A r \in Procs \ {p} : ControlOf(r)'
    BY <1>a, <2>1 DEF ControlOf
  <2> QED BY <2>3, <2>4 DEF Control
<1> QED BY <1>1, <1>2, Zenon

(***************************************************************************)
(* What a process is doing, its credentials and its locals change          *)
(* together.                                                               *)
(***************************************************************************)
LEMMA ControlStep == ASSUME Inv, [Next]_vars PROVE Control'
<1>a. /\ task \in [Procs -> Creds \cup {NULL}] /\ new \in [Procs -> Creds \cup {NULL}]
      /\ pc \in [Procs -> Pcs] /\ job \in [Procs -> Jobs] /\ \A r \in Procs : ControlOf(r)
  BY Zenon DEF Inv, TypeOK, Control
<1> USE ACAssumption, <1>a DEF creds, held, Goto, Jobs
<1>1. ASSUME NEW p \in Procs, prepare_creds(p) PROVE Control'
  <2>0. PICK c \in Creds, op \in {"fork", "exec", "setuid", "blank"} :
          \/ /\ new' = [new EXCEPT ![p] = c] /\ pc' = [pc EXCEPT ![p] = "prepared"]
             /\ job' = [job EXCEPT ![p] = [NoJob EXCEPT !.op = op]]
          \/ new' = new /\ pc' = pc /\ job' = job
    BY <1>1, ZenonT(30) DEF prepare_creds
  <2>1. ControlOf(p)'
    BY <1>1, <2>0 DEF prepare_creds, ControlOf, NoJob, Checking, Reading
  <2>2. \A r \in Procs \ {p} : ControlOf(r)'
    BY <1>1 DEF prepare_creds, mp4_cred_prepare, mp4_cred_alloc_blank, NoMemory, ControlOf
  <2> QED BY <2>1, <2>2, Zenon DEF Control
<1>2. ASSUME NEW p \in Procs, abort_creds(p) PROVE Control'
  <2>1. ControlOf(p)'
    BY <1>2 DEF abort_creds, ControlOf, NoJob, Checking, Reading
  <2>2. \A r \in Procs \ {p} : ControlOf(r)'
    BY <1>2 DEF abort_creds, ControlOf
  <2> QED BY <2>1, <2>2 DEF Control
<1>3. ASSUME NEW p \in Procs, commit_creds(p) PROVE Control'
  <2>1. ControlOf(p)'
    BY <1>3 DEF commit_creds, Put, ControlOf, NoJob, Checking, Reading
  <2>2. \A r \in Procs \ {p} : ControlOf(r)'
    BY <1>3 DEF commit_creds, Put, ControlOf
  <2> QED BY <2>1, <2>2 DEF Control
<1>4. ASSUME NEW p \in Procs, exit(p) PROVE Control'
  <2>1. ControlOf(p)'
    BY <1>4 DEF exit, Put, ControlOf, NoJob, Checking, Reading
  <2>2. \A r \in Procs \ {p} : ControlOf(r)'
    BY <1>4 DEF exit, Put, ControlOf
  <2> QED BY <2>1, <2>2 DEF Control
<1>5. ASSUME NEW p \in Procs, NEW q \in Procs, fork(p, q) PROVE Control'
  <2>1. ControlOf(p)' /\ ControlOf(q)'
    BY <1>5 DEF fork, ControlOf, NoJob, Checking, Reading
  <2>2. \A r \in Procs \ {p, q} : ControlOf(r)'
    BY <1>5 DEF fork, ControlOf
  <2> QED BY <2>1, <2>2, Zenon DEF Control
<1>6. ASSUME NEW p \in Procs, NEW q \in Procs, clone_thread(p, q) PROVE Control'
  <2>1. ControlOf(q)'
    BY <1>6 DEF clone_thread, ControlOf, NoJob, Checking, Reading
  <2>2. \A r \in Procs \ {q} : ControlOf(r)'
    BY <1>6 DEF clone_thread, ControlOf
  <2> QED BY <2>1, <2>2, Zenon DEF Control
<1>7. ASSUME NEW p \in Procs, NEW i \in Inodes, NEW m \in Masks, open(p, i, m) PROVE Control'
  <2>1. ControlOf(p)'
    BY <1>7 DEF open, ControlOf, NoJob, Checking, Reading
  <2>2. \A r \in Procs \ {p} : ControlOf(r)'
    BY <1>7 DEF open, ControlOf
  <2> QED BY <2>1, <2>2, Zenon DEF Control
<1>8. ASSUME NEW p \in Procs, NEW i \in Inodes, open_exec(p, i) PROVE Control'
  <2>1. ControlOf(p)'
    BY <1>8 DEF open_exec, ControlOf, NoJob, Checking, Reading
  <2>2. \A r \in Procs \ {p} : ControlOf(r)'
    BY <1>8 DEF open_exec, ControlOf
  <2> QED BY <2>1, <2>2, Zenon DEF Control
<1>9. ASSUME NEW p \in Procs, NEW i \in Inodes, create(p, i) PROVE Control'
  BY <1>9, Zenon DEF create, Control, ControlOf
<1>g. ASSUME NEW p \in Procs, NEW l \in {"alias", "path", "ctx", "getxattr"}, Goto(p, l),
             UNCHANGED <<task, new, job>>,
             \/ l \in {"alias", "path"} /\ pc[p] \in {"permission", "alias"}
             \/ l \in {"ctx", "getxattr"} /\ pc[p] \in {"get_inode_sid", "ctx"}
      PROVE  Control'
  <2>0. pc'[p] = l /\ UNCHANGED <<task, new, job>>
    BY <1>g, Zenon
  <2>c. /\ pc[p] \in Checking /\ pc'[p] \in Checking
        /\ pc'[p] \in Reading => pc[p] \in Reading
        /\ pc'[p] \notin {"none", "prepared", "set_creds", "loaded", "failed", "decide"}
        /\ pc[p] \notin {"none", "prepared", "set_creds", "loaded", "failed", "decide"}
    BY <1>g, <2>0 DEF Checking, Reading
  <2>1. ControlOf(p)'
    BY <2>0, <2>c, Zenon DEF ControlOf
  <2>o. \A r \in Procs \ {p} : pc'[r] = pc[r]
    BY <1>g, Zenon
  <2>2. \A r \in Procs \ {p} : ControlOf(r)'
    BY <2>0, <2>o DEF ControlOf
  <2> QED BY <2>1, <2>2, Zenon DEF Control
<1>10. ASSUME NEW p \in Procs, mp4_inode_permission(p) PROVE Control'
  <2>1. CASE Return(p, FALSE)
    BY <1>10, <2>1, ReturnControl, Zenon DEF mp4_inode_permission
  <2>2. CASE Goto(p, "alias") /\ UNCHANGED job
    BY <1>10, <2>2, <1>g, Zenon DEF mp4_inode_permission
  <2> QED BY <1>10, <2>1, <2>2, Zenon DEF mp4_inode_permission
<1>11. ASSUME NEW p \in Procs, get_inode_sid(p) PROVE Control'
  <2>1. CASE Found(p, "none")
    BY <1>11, <2>1, FoundControl, Zenon DEF get_inode_sid, Reading
  <2>2. CASE Goto(p, "ctx") /\ UNCHANGED job
    BY <1>11, <2>2, <1>g, Zenon DEF get_inode_sid
  <2> QED BY <1>11, <2>1, <2>2, Zenon DEF get_inode_sid
<1>12. ASSUME NEW p \in Procs, getxattr(p) PROVE Control'
  BY <1>12, FoundControl, Zenon DEF getxattr, Reading
<1>13. ASSUME NEW p \in Procs, decide(p) PROVE Control'
  BY <1>13, ReturnControl, Zenon DEF decide
<1>14. ASSUME NEW p \in Procs, mp4_bprm_set_creds(p) PROVE Control'
  <2>0. security[new[p]] # NULL
    BY <1>14 DEF mp4_bprm_set_creds, ControlOf, Inv, NewLabels
  <2>1. CASE job[p].cred_prepared
    <3>1. pc' = [pc EXCEPT ![p] = "loaded"] /\ UNCHANGED <<task, new, job>>
      BY <1>14, <2>0, <2>1, Zenon DEF mp4_bprm_set_creds
    <3> QED BY <1>14, <3>1 DEF mp4_bprm_set_creds, Control, ControlOf, Checking, Reading
  <2>2. CASE ~job[p].cred_prepared
    <3>1. /\ pc' = [pc EXCEPT ![p] = "get_inode_sid"] /\ UNCHANGED <<task, new>>
          /\ job' = [job EXCEPT ![p] = [job[p] EXCEPT !.caller = "set_creds"]]
      BY <1>14, <2>0, <2>2, Zenon DEF mp4_bprm_set_creds
    <3>2. /\ job'[p].caller = "set_creds" /\ job'[p].op = job[p].op /\ job'[p].i = job[p].i
          /\ job'[p].cred_prepared = job[p].cred_prepared /\ job'[p].hit = job[p].hit
      BY <3>1
    <3>3. ControlOf(p)'
      BY <1>14, <2>2, <3>1, <3>2 DEF mp4_bprm_set_creds, ControlOf, Checking, Reading
    <3>4. \A r \in Procs \ {p} : ControlOf(r)'
      BY <3>1 DEF ControlOf
    <3> QED BY <3>3, <3>4 DEF Control
  <2> QED BY <2>1, <2>2, Zenon
<1>15. ASSUME NEW c \in Creds, mp4_cred_free(c) PROVE Control'
  BY <1>15, Zenon DEF mp4_cred_free, Control, ControlOf
<1>16. ASSUME NEW i \in Inodes, setfattr(i) PROVE Control'
  BY <1>16, Zenon DEF setfattr, Control, ControlOf
<1>17. CASE UNCHANGED vars
  BY <1>17, Zenon DEF vars, Control, ControlOf
<1>18. ASSUME NEW p \in Procs, check_mask(p) PROVE Control'
  <2>1. CASE \E granted \in BOOLEAN : Return(p, granted)
    BY <1>18, <2>1, ReturnControl, Zenon DEF check_mask
  <2>2. CASE Goto(p, "path") /\ UNCHANGED job
    BY <1>18, <2>2, <1>g, Zenon DEF check_mask
  <2> QED BY <1>18, <2>1, <2>2, Zenon DEF check_mask
<1>19. ASSUME NEW p \in Procs, check_path(p) PROVE Control'
  <2>1. CASE \E granted \in BOOLEAN : Return(p, granted)
    BY <1>19, <2>1, ReturnControl, Zenon DEF check_path
  <2>2. CASE /\ Goto(p, "get_inode_sid")
             /\ job' = [job EXCEPT ![p].caller = "permission", ![p].ssid = Sid(p)]
    <3>1. /\ job'[p].caller = "permission" /\ job'[p].op = job[p].op /\ job'[p].i = job[p].i
          /\ job'[p].cred_prepared = job[p].cred_prepared /\ job'[p].hit = job[p].hit
      BY <2>2
    <3>2. pc[p] = "path" /\ UNCHANGED <<task, new>>
      BY <1>19, Zenon DEF check_path
    <3>3. ControlOf(p)'
      BY <2>2, <3>1, <3>2 DEF ControlOf, Checking, Reading
    <3>4. \A r \in Procs \ {p} : ControlOf(r)'
      BY <2>2, <3>2 DEF ControlOf
    <3> QED BY <3>3, <3>4 DEF Control
  <2> QED BY <1>19, <2>1, <2>2, Zenon DEF check_path
<1>20. ASSUME NEW p \in Procs, alloc_ctx(p) PROVE Control'
  <2>1. CASE Found(p, "none")
    BY <1>20, <2>1, FoundControl, Zenon DEF alloc_ctx, Reading
  <2>2. CASE Goto(p, "getxattr") /\ UNCHANGED job
    BY <1>20, <2>2, <1>g, Zenon DEF alloc_ctx
  <2> QED BY <1>20, <2>1, <2>2, Zenon DEF alloc_ctx
<1> QED BY <1>1, <1>2, <1>3, <1>4, <1>5, <1>6, <1>7, <1>8, <1>9, <1>10, <1>11,
    <1>12, <1>13, <1>14, <1>15, <1>16, <1>17, <1>18, <1>19, <1>20, Zenon DEF Next, Process

(***************************************************************************)
(* Only the process whose hook runs takes or puts back anything.           *)
(***************************************************************************)
Holding == {"alias", "path", "get_inode_sid", "ctx", "getxattr", "decide"}
Elsewhere(p) == \A r \in Procs \ {p} : /\ pc'[r] = pc[r] /\ job'[r] = job[r]
                                       /\ dentries'[r] = dentries[r] /\ buffers'[r] = buffers[r]

(***************************************************************************)
(* The references of one process decide.                                   *)
(***************************************************************************)
LEMMA RefsOfOne ==
  ASSUME Inv, NEW p \in Procs, Elsewhere(p),
         dentries'[p] = DentriesOf(p)', buffers'[p] = BuffersOf(p)'
  PROVE  Refs'
<1>1. \A r \in Procs \ {p} : DentriesOf(r)' = DentriesOf(r) /\ BuffersOf(r)' = BuffersOf(r)
  BY Zenon DEF Elsewhere, DentriesOf, BuffersOf, Asked
<1> QED BY <1>1, Zenon DEF Inv, Refs, Elsewhere

(***************************************************************************)
(* The references when mp4_inode_permission returns, by the exits it has.  *)
(***************************************************************************)
LEMMA ReturnRefs ==
  ASSUME Inv, NEW p \in Procs, NEW granted, Return(p, granted),
         \/ pc[p] = "permission" /\ UNCHANGED held
         \/ pc[p] = "alias" /\ dput(p) /\ UNCHANGED buffers
         \/ pc[p] \in {"path", "decide"} /\ dput(p) /\ kfree(p)
  PROVE  Refs'
<1>a. /\ pc \in [Procs -> Pcs] /\ job \in [Procs -> Jobs]
      /\ dentries \in [Procs -> Nat] /\ buffers \in [Procs -> Nat]
      /\ dentries[p] = DentriesOf(p) /\ buffers[p] = BuffersOf(p)
  BY Zenon DEF Inv, TypeOK, Refs
<1>1. /\ \E l \in {"user", "set_creds", "failed"} : pc' = [pc EXCEPT ![p] = l]
      /\ \/ job' = job \/ job' = [job EXCEPT ![p] = NoJob]
  BY Zenon DEF Return, Goto
<1>2. /\ pc'[p] \in {"user", "set_creds", "failed"}
      /\ \A r \in Procs \ {p} : pc'[r] = pc[r] /\ job'[r] = job[r]
  BY <1>a, <1>1, Zenon
<1>3. Elsewhere(p)
  BY <1>a, <1>2, Zenon DEF Elsewhere, dput, kfree, held
<1>4. DentriesOf(p)' = 0 /\ BuffersOf(p)' = 0
  BY <1>2 DEF DentriesOf, BuffersOf, Asked, Reading, Count
<1>5. dentries'[p] = 0 /\ buffers'[p] = 0
  <2>1. CASE pc[p] = "permission" /\ UNCHANGED held
    BY <1>a, <2>1 DEF DentriesOf, BuffersOf, Asked, Reading, Count, held
  <2>2. CASE pc[p] = "alias" /\ dput(p) /\ UNCHANGED buffers
    BY <1>a, <2>2 DEF DentriesOf, BuffersOf, Asked, Reading, Count, dput
  <2>3. CASE pc[p] \in {"path", "decide"} /\ dput(p) /\ kfree(p)
    BY <1>a, <2>3 DEF DentriesOf, BuffersOf, Asked, Reading, Count, dput, kfree
  <2> QED BY <2>1, <2>2, <2>3, Zenon
<1> QED BY <1>3, <1>4, <1>5, RefsOfOne, Zenon

(***************************************************************************)
(* The references when get_inode_sid returns, by the exits it has: its own *)
(* are put back, those of its caller are not touched.                      *)
(***************************************************************************)
LEMMA FoundRefs ==
  ASSUME Inv, NEW p \in Procs, NEW text, Found(p, text),
         \/ pc[p] = "get_inode_sid" /\ UNCHANGED held
         \/ pc[p] = "ctx" /\ dput(p) /\ UNCHANGED buffers
         \/ pc[p] = "getxattr" /\ dput(p) /\ kfree(p)
  PROVE  Refs'
<1>a. /\ pc \in [Procs -> Pcs] /\ job \in [Procs -> Jobs]
      /\ dentries \in [Procs -> Nat] /\ buffers \in [Procs -> Nat]
      /\ dentries[p] = DentriesOf(p) /\ buffers[p] = BuffersOf(p)
  BY Zenon DEF Inv, TypeOK, Refs
<1>1. /\ pc'[p] = IF job[p].caller = "permission" THEN "decide" ELSE "loaded"
      /\ \A r \in Procs \ {p} : pc'[r] = pc[r] /\ job'[r] = job[r]
  BY <1>a, Zenon DEF Found, Goto
<1>2. Elsewhere(p)
  BY <1>a, <1>1, Zenon DEF Elsewhere, dput, kfree, held
<1> DEFINE n == IF job[p].caller = "permission" THEN 1 ELSE 0
<1>3. DentriesOf(p)' = n /\ BuffersOf(p)' = n
  BY <1>1 DEF DentriesOf, BuffersOf, Asked, Reading, Count
<1>4. dentries'[p] = n /\ buffers'[p] = n
  <2>1. CASE pc[p] = "get_inode_sid" /\ UNCHANGED held
    BY <1>a, <2>1 DEF DentriesOf, BuffersOf, Asked, Reading, Count, held
  <2>2. CASE pc[p] = "ctx" /\ dput(p) /\ UNCHANGED buffers
    BY <1>a, <2>2 DEF DentriesOf, BuffersOf, Asked, Reading, Count, dput
  <2>3. CASE pc[p] = "getxattr" /\ dput(p) /\ kfree(p)
    BY <1>a, <2>3 DEF DentriesOf, BuffersOf, Asked, Reading, Count, dput, kfree
  <2> QED BY <2>1, <2>2, <2>3, Zenon
<1> QED BY <1>2, <1>3, <1>4, RefsOfOne, Zenon

(***************************************************************************)
(* A hook takes a reference or a buffer and goes on.                       *)
(***************************************************************************)
LEMMA TakenRefs ==
  ASSUME Inv, NEW p \in Procs, job' = job,
         \/ pc[p] = "permission" /\ dget(p) /\ UNCHANGED buffers /\ Goto(p, "alias")
         \/ pc[p] = "alias" /\ kzalloc(p) /\ UNCHANGED dentries /\ Goto(p, "path")
         \/ pc[p] = "get_inode_sid" /\ dget(p) /\ UNCHANGED buffers /\ Goto(p, "ctx")
         \/ pc[p] = "ctx" /\ kzalloc(p) /\ UNCHANGED dentries /\ Goto(p, "getxattr")
  PROVE  Refs'
<1>a. /\ pc \in [Procs -> Pcs] /\ job \in [Procs -> Jobs]
      /\ dentries \in [Procs -> Nat] /\ buffers \in [Procs -> Nat]
      /\ dentries[p] = DentriesOf(p) /\ buffers[p] = BuffersOf(p)
  BY Zenon DEF Inv, TypeOK, Refs
<1>1. Elsewhere(p)
  BY <1>a, Zenon DEF Elsewhere, dget, kzalloc, Goto
<1> USE DEF DentriesOf, BuffersOf, Asked, Reading, Count, Goto, dget, kzalloc
<1>2. dentries'[p] = DentriesOf(p)' /\ buffers'[p] = BuffersOf(p)'
  <2>1. CASE pc[p] = "permission" /\ dget(p) /\ UNCHANGED buffers /\ Goto(p, "alias")
    BY <1>a, <2>1
  <2>2. CASE pc[p] = "alias" /\ kzalloc(p) /\ UNCHANGED dentries /\ Goto(p, "path")
    BY <1>a, <2>2
  <2>3. CASE pc[p] = "get_inode_sid" /\ dget(p) /\ UNCHANGED buffers /\ Goto(p, "ctx")
    BY <1>a, <2>3
  <2>4. CASE pc[p] = "ctx" /\ kzalloc(p) /\ UNCHANGED dentries /\ Goto(p, "getxattr")
    BY <1>a, <2>4
  <2> QED BY <2>1, <2>2, <2>3, <2>4, Zenon
<1> QED BY <1>1, <1>2, RefsOfOne, Zenon

(***************************************************************************)
(* Every exit of the two hooks puts back what was taken on the way to it.  *)
(***************************************************************************)
LEMMA RefsStep == ASSUME Inv, [Next]_vars PROVE Refs'
<1>a. /\ pc \in [Procs -> Pcs] /\ job \in [Procs -> Jobs] /\ Refs /\ Control
      /\ dentries \in [Procs -> Nat] /\ buffers \in [Procs -> Nat]
  BY Zenon DEF Inv, TypeOK
<1> USE ACAssumption, <1>a DEF creds, held
<1>s. ASSUME dentries' = dentries, buffers' = buffers,
             \A r \in Procs : \/ pc'[r] = pc[r] /\ job'[r] = job[r]
                              \/ pc[r] \notin Holding /\ pc'[r] \notin Holding
      PROVE  Refs'
  <2>1. \A r \in Procs : DentriesOf(r)' = DentriesOf(r) /\ BuffersOf(r)' = BuffersOf(r)
    BY <1>s DEF DentriesOf, BuffersOf, Asked, Reading, Holding
  <2> QED BY <1>s, <2>1, Zenon DEF Refs
<1> USE DEF Goto, Holding
<1>1. ASSUME NEW p \in Procs, prepare_creds(p) PROVE Refs'
  BY <1>1, <1>s DEF prepare_creds
<1>2. ASSUME NEW p \in Procs, abort_creds(p) PROVE Refs'
  BY <1>2, <1>s DEF abort_creds
<1>3. ASSUME NEW p \in Procs, commit_creds(p) PROVE Refs'
  BY <1>3, <1>s DEF commit_creds
<1>4. ASSUME NEW p \in Procs, exit(p) PROVE Refs'
  BY <1>4, <1>s DEF exit
<1>5. ASSUME NEW p \in Procs, NEW q \in Procs, fork(p, q) PROVE Refs'
  BY <1>5, <1>s DEF fork
<1>6. ASSUME NEW p \in Procs, NEW q \in Procs, clone_thread(p, q) PROVE Refs'
  BY <1>6, <1>s DEF clone_thread
<1>7. ASSUME NEW p \in Procs, NEW i \in Inodes, NEW m \in Masks, open(p, i, m) PROVE Refs'
  BY <1>7, <1>s DEF open
<1>8. ASSUME NEW p \in Procs, NEW i \in Inodes, open_exec(p, i) PROVE Refs'
  BY <1>8, <1>s DEF open_exec
<1>9. ASSUME NEW p \in Procs, NEW i \in Inodes, create(p, i) PROVE Refs'
  BY <1>9, <1>s DEF create
<1>10. ASSUME NEW p \in Procs, mp4_inode_permission(p) PROVE Refs'
  BY <1>10, ReturnRefs, TakenRefs, Zenon DEF mp4_inode_permission
<1>11. ASSUME NEW p \in Procs, get_inode_sid(p) PROVE Refs'
  BY <1>11, FoundRefs, TakenRefs, Zenon DEF get_inode_sid
<1>12. ASSUME NEW p \in Procs, getxattr(p) PROVE Refs'
  BY <1>12, FoundRefs, Zenon DEF getxattr
<1>13. ASSUME NEW p \in Procs, decide(p) PROVE Refs'
  BY <1>13, ReturnRefs, Zenon DEF decide
<1>14. ASSUME NEW p \in Procs, mp4_bprm_set_creds(p) PROVE Refs'
  <2>1. UNCHANGED held /\ pc[p] = "set_creds" /\ Elsewhere(p)
    BY <1>14, Zenon DEF mp4_bprm_set_creds, Elsewhere
  <2>2. \/ pc'[p] \in {"failed", "loaded"}
        \/ pc'[p] = "get_inode_sid" /\ job'[p].caller = "set_creds"
    BY <1>14 DEF mp4_bprm_set_creds, Jobs
  <2>3. dentries[p] = 0 /\ buffers[p] = 0
    BY <2>1 DEF Refs, DentriesOf, BuffersOf, Asked, Reading, Count
  <2>4. DentriesOf(p)' = 0 /\ BuffersOf(p)' = 0
    BY <2>2 DEF DentriesOf, BuffersOf, Asked, Reading, Count
  <2> QED BY <2>1, <2>3, <2>4, RefsOfOne, Zenon
<1>15. ASSUME NEW c \in Creds, mp4_cred_free(c) PROVE Refs'
  BY <1>15, <1>s, Zenon DEF mp4_cred_free
<1>16. ASSUME NEW i \in Inodes, setfattr(i) PROVE Refs'
  BY <1>16, <1>s, Zenon DEF setfattr
<1>17. CASE UNCHANGED vars
  BY <1>17, <1>s, Zenon DEF vars
<1>18. ASSUME NEW p \in Procs, check_mask(p) PROVE Refs'
  BY <1>18, ReturnRefs, TakenRefs, Zenon DEF check_mask
<1>19. ASSUME NEW p \in Procs, check_path(p) PROVE Refs'
  <2>1. CASE dput(p) /\ kfree(p) /\ \E granted \in BOOLEAN : Return(p, granted)
    BY <1>19, <2>1, ReturnRefs, Zenon DEF check_path
  <2>2. CASE /\ Goto(p, "get_inode_sid") /\ UNCHANGED held
             /\ job' = [job EXCEPT ![p].caller = "permission", ![p].ssid = Sid(p)]
    <3>1. Elsewhere(p) /\ pc[p] = "path" /\ pc'[p] = "get_inode_sid"
      BY <1>19, <2>2, Zenon DEF check_path, Elsewhere
    <3>2. job'[p].caller = "permission"
      BY <2>2 DEF Jobs
    <3>3. dentries[p] = 1 /\ buffers[p] = 1
      BY <3>1 DEF Refs, DentriesOf, BuffersOf, Asked, Reading, Count
    <3>4. DentriesOf(p)' = 1 /\ BuffersOf(p)' = 1
      BY <3>1, <3>2 DEF DentriesOf, BuffersOf, Asked, Reading, Count
    <3> QED BY <2>2, <3>1, <3>3, <3>4, RefsOfOne, Zenon
  <2> QED BY <1>19, <2>1, <2>2, Zenon DEF check_path
<1>20. ASSUME NEW p \in Procs, alloc_ctx(p) PROVE Refs'
  BY <1>20, FoundRefs, TakenRefs, Zenon DEF alloc_ctx
<1> QED BY <1>1, <1>2, <1>3, <1>4, <1>5, <1>6, <1>7, <1>8, <1>9, <1>10, <1>11,
    <1>12, <1>13, <1>14, <1>15, <1>16, <1>17, <1>18, <1>19, <1>20, Zenon DEF Next, Process

(***************************************************************************)
(* A credential in preparation is passed on, to the process or its child,  *)
(* or dropped; it is not shared.                                           *)
(***************************************************************************)
LEMMA PrivateStep == ASSUME Inv, [Next]_vars PROVE Private'
<1>a. /\ task \in [Procs -> Creds \cup {NULL}] /\ new \in [Procs -> Creds \cup {NULL}] /\ Private
  BY Zenon DEF Inv, TypeOK
<1> USE ACAssumption, <1>a DEF creds, held, Goto, Private
<1>1. ASSUME NEW p \in Procs, prepare_creds(p) PROVE Private'
  <2>1. /\ task' = task
        /\ new' = new \/ \E c \in Creds : ~InUse(c) /\ new' = [new EXCEPT ![p] = c]
    BY <1>1, Zenon DEF prepare_creds
  <2> QED BY <2>1 DEF InUse
<1>2. ASSUME NEW p \in Procs, abort_creds(p) PROVE Private'
  BY <1>2, Zenon DEF abort_creds
<1>3. ASSUME NEW p \in Procs, commit_creds(p) PROVE Private'
  BY <1>3, Zenon DEF commit_creds, Put
<1>4. ASSUME NEW p \in Procs, exit(p) PROVE Private'
  BY <1>4, Zenon DEF exit, Put
<1>5. ASSUME NEW p \in Procs, NEW q \in Procs, fork(p, q) PROVE Private'
  BY <1>5, Zenon DEF fork
<1>6. ASSUME NEW p \in Procs, NEW q \in Procs, clone_thread(p, q) PROVE Private'
  BY <1>6, Zenon DEF clone_thread
<1>7. ASSUME NEW p \in Procs, NEW i \in Inodes, NEW m \in Masks, open(p, i, m) PROVE Private'
  BY <1>7, Zenon DEF open
<1>8. ASSUME NEW p \in Procs, NEW i \in Inodes, open_exec(p, i) PROVE Private'
  BY <1>8, Zenon DEF open_exec
<1>9. ASSUME NEW p \in Procs, NEW i \in Inodes, create(p, i) PROVE Private'
  BY <1>9, Zenon DEF create
<1>10. ASSUME NEW p \in Procs, mp4_inode_permission(p) PROVE Private'
  BY <1>10, Zenon DEF mp4_inode_permission
<1>11. ASSUME NEW p \in Procs, get_inode_sid(p) PROVE Private'
  BY <1>11, Zenon DEF get_inode_sid
<1>12. ASSUME NEW p \in Procs, getxattr(p) PROVE Private'
  BY <1>12, Zenon DEF getxattr
<1>13. ASSUME NEW p \in Procs, decide(p) PROVE Private'
  BY <1>13, Zenon DEF decide
<1>14. ASSUME NEW p \in Procs, mp4_bprm_set_creds(p) PROVE Private'
  BY <1>14, Zenon DEF mp4_bprm_set_creds
<1>15. ASSUME NEW c \in Creds, mp4_cred_free(c) PROVE Private'
  BY <1>15, Zenon DEF mp4_cred_free
<1>16. ASSUME NEW i \in Inodes, setfattr(i) PROVE Private'
  BY <1>16, Zenon DEF setfattr
<1>17. CASE UNCHANGED vars
  BY <1>17, Zenon DEF vars
<1>18. ASSUME NEW p \in Procs, check_mask(p) PROVE Private'
  BY <1>18, Zenon DEF check_mask
<1>19. ASSUME NEW p \in Procs, check_path(p) PROVE Private'
  BY <1>19, Zenon DEF check_path
<1>20. ASSUME NEW p \in Procs, alloc_ctx(p) PROVE Private'
  BY <1>20, Zenon DEF alloc_ctx
<1> QED BY <1>1, <1>2, <1>3, <1>4, <1>5, <1>6, <1>7, <1>8, <1>9, <1>10, <1>11,
    <1>12, <1>13, <1>14, <1>15, <1>16, <1>17, <1>18, <1>19, <1>20, Zenon DEF Next, Process

(***************************************************************************)
(* As long as the same credentials live and the same blocks are allocated, *)
(* ownership stays.                                                        *)
(***************************************************************************)
LEMMA OwnedKept ==
  ASSUME security \in [Creds -> Blobs \cup {NULL, POISON}], BlobsOwned, security' = security,
         \A c \in Creds : Live(c)' <=> Live(c), \A c \in dying' : ~InUse(c)',
         \A b \in Blobs : blob'[b] = NULL <=> blob[b] = NULL
  PROVE  BlobsOwned'
  BY Zenon DEF BlobsOwned

(***************************************************************************)
(* mp4_bprm_set_creds writes to the block of the credential in             *)
(* preparation, which is allocated.                                        *)
(***************************************************************************)
LEMMA FoundOwned ==
  ASSUME Inv, NEW p \in Procs, NEW text, Found(p, text), pc[p] \in Reading,
         UNCHANGED <<task, security, dying, new>>
  PROVE  BlobsOwned'
<1>a. /\ new \in [Procs -> Creds \cup {NULL}] /\ blob \in [Blobs -> Sids \cup {NULL}]
      /\ security \in [Creds -> Blobs \cup {NULL, POISON}] /\ BlobsOwned
  BY Zenon DEF Inv, TypeOK
<1>1. \A c \in Creds : (Live(c)' <=> Live(c)) /\ (InUse(c)' <=> InUse(c))
  BY Zenon DEF Live, InUse
<1>2. \/ blob' = blob
      \/ new[p] # NULL /\ blob' = [blob EXCEPT ![security[new[p]]] = MP4_TARGET_SID]
  BY Zenon DEF Found, Inv, Control, ControlOf, Checking, Reading
<1>3. \A b \in Blobs : blob'[b] = NULL <=> blob[b] = NULL
  <2>1. new[p] # NULL => security[new[p]] \in Blobs /\ blob[security[new[p]]] # NULL
    BY <1>a, ACAssumption, SMTT(60) DEF Inv, NewLabels, BlobsOwned, Live, InUse
  <2> QED BY <1>a, <1>2, <2>1, ACAssumption DEF Sids, MP4_TARGET_SID
<1>4. \A c \in dying' : ~InUse(c)'
  BY <1>a, <1>1, Zenon DEF Inv, TypeOK, BlobsOwned
<1> QED BY <1>a, <1>1, <1>3, <1>4, OwnedKept, Zenon

(***************************************************************************)
(* Every credential that lives has a block of its own, or none, and every  *)
(* block an owner.                                                         *)
(***************************************************************************)
LEMMA OwnedStep == ASSUME Inv, [Next]_vars PROVE BlobsOwned'
<1>a. /\ task \in [Procs -> Creds \cup {NULL}] /\ new \in [Procs -> Creds \cup {NULL}]
      /\ security \in [Creds -> Blobs \cup {NULL, POISON}] /\ dying \subseteq Creds
      /\ blob \in [Blobs -> Sids \cup {NULL}] /\ Private /\ BlobsOwned
  BY Zenon DEF Inv, TypeOK
<1> USE ACAssumption, <1>a DEF creds, held, Goto
<1>s. ASSUME UNCHANGED creds PROVE BlobsOwned'
  BY <1>s DEF BlobsOwned, Live, InUse
<1>1. ASSUME NEW p \in Procs, prepare_creds(p) PROVE BlobsOwned'
  <2>1. PICK c \in Creds :
          /\ ~InUse(c) /\ c \notin dying /\ task' = task
          /\ \/ /\ mp4_cred_alloc_blank(c) \/ mp4_cred_prepare(c, task[p])
                /\ new' = [new EXCEPT ![p] = c] /\ UNCHANGED dying
             \/ NoMemory(c) /\ UNCHANGED new
    BY <1>1, Zenon DEF prepare_creds
  <2>2. task[p] \in Creds /\ new[p] = NULL
    BY <1>1 DEF prepare_creds, Inv, Control, ControlOf, Checking, Reading
  <2>3. CASE NoMemory(c) /\ UNCHANGED new
    <3>1. \A x \in Creds : Live(x)' <=> Live(x) \/ x = c
      BY <2>1, <2>3, Zenon DEF NoMemory, Live, InUse
    <3>2. \A x \in dying' : ~InUse(x)'
      BY <2>1, <2>3, Zenon DEF NoMemory, InUse, BlobsOwned
    <3>3. /\ \A x \in Creds \ {c} : security'[x] = security[x]
          /\ security'[c] = NULL /\ blob' = blob /\ ~Live(c)
      BY <2>1, <2>3, Zenon DEF NoMemory, Live
    <3> QED BY <3>1, <3>2, <3>3, SMTT(60) DEF BlobsOwned
  <2>4. CASE /\ mp4_cred_alloc_blank(c) \/ mp4_cred_prepare(c, task[p])
             /\ new' = [new EXCEPT ![p] = c] /\ UNCHANGED dying
    <3>1. \A x \in Creds : Live(x)' <=> Live(x) \/ x = c
      BY <2>1, <2>2, <2>4, Zenon DEF Live, InUse
    <3>2. \A x \in dying' : ~InUse(x)'
      BY <2>1, <2>2, <2>4, SMTT(60) DEF InUse, BlobsOwned
    <3>3. security[task[p]] # NULL => blob[security[task[p]]] # NULL
      BY <2>2, Zenon DEF BlobsOwned, Live, InUse
    <3>4. PICK b \in Blobs :
            /\ blob[b] = NULL /\ security' = [security EXCEPT ![c] = b]
            /\ \/ blob' = [blob EXCEPT ![b] = MP4_NO_ACCESS]
               \/ blob' = [blob EXCEPT ![b] = blob[security[task[p]]]] /\ security[task[p]] # NULL
      BY <2>4, Zenon DEF mp4_cred_alloc_blank, mp4_cred_prepare
    <3>5. blob'[b] # NULL /\ \A x \in Blobs : x # b => blob'[x] = blob[x]
      BY <3>3, <3>4 DEF Sids, MP4_NO_ACCESS
    <3>6. ~Live(c) /\ \A x \in Creds : Live(x) => security[x] # b
      BY <2>1, <3>4, Zenon DEF BlobsOwned, Live
    <3>7. security'[c] = b /\ \A x \in Creds \ {c} : security'[x] = security[x]
      BY <3>4, Zenon
    <3> QED BY <3>1, <3>2, <3>4, <3>5, <3>6, <3>7, SMTT(60) DEF BlobsOwned
  <2> QED BY <2>1, <2>3, <2>4, Zenon
<1>2. ASSUME NEW p \in Procs, abort_creds(p) PROVE BlobsOwned'
  <2>1. /\ new[p] \in Creds /\ new' = [new EXCEPT ![p] = NULL] /\ dying' = dying \cup {new[p]}
        /\ UNCHANGED <<task, security, blob>>
    BY <1>2, Zenon DEF abort_creds, Inv, Control, ControlOf
  <2>2. \A c \in Creds : InUse(c)' <=> InUse(c) /\ c # new[p]
    BY <2>1, Zenon DEF InUse, Private
  <2>3. /\ \A c \in Creds : Live(c)' <=> Live(c)
        /\ \A c \in dying' : ~InUse(c)'
    BY <2>1, <2>2, Zenon DEF Live, InUse, BlobsOwned
  <2> QED BY <2>1, <2>3, OwnedKept, Zenon
<1>3. ASSUME NEW p \in Procs, commit_creds(p) PROVE BlobsOwned'
  <2>1. /\ new[p] \in Creds /\ task[p] \in Creds /\ Put(p) /\ UNCHANGED <<security, blob>>
        /\ task' = [task EXCEPT ![p] = new[p]] /\ new' = [new EXCEPT ![p] = NULL]
    BY <1>3 DEF commit_creds, Inv, Control, ControlOf
  <2>2. \A c \in Creds : InUse(c)' <=>
          InUse(c) /\ (c = task[p] => \E q \in Procs \ {p} : task[q] = task[p])
    BY <2>1, Zenon DEF InUse, Private
  <2>3. /\ \A c \in Creds : Live(c)' <=> Live(c)
        /\ \A c \in dying' : ~InUse(c)'
    BY <2>1, <2>2 DEF Put, Live, InUse, BlobsOwned
  <2> QED BY <2>1, <2>3, OwnedKept, Zenon
<1>4. ASSUME NEW p \in Procs, exit(p) PROVE BlobsOwned'
  <2>1. /\ task[p] \in Creds /\ Put(p) /\ UNCHANGED <<security, blob, new>>
        /\ task' = [task EXCEPT ![p] = NULL]
    BY <1>4, Zenon DEF exit, Inv, Control, ControlOf
  <2>2. \A c \in Creds : InUse(c)' <=>
          InUse(c) /\ (c = task[p] => \E q \in Procs \ {p} : task[q] = task[p])
    BY <2>1, Zenon DEF InUse, Private
  <2>3. /\ \A c \in Creds : Live(c)' <=> Live(c)
        /\ \A c \in dying' : ~InUse(c)'
    BY <2>1, <2>2, ZenonT(60) DEF Put, Live, InUse, BlobsOwned
  <2> QED BY <2>1, <2>3, OwnedKept, Zenon
<1>5. ASSUME NEW p \in Procs, NEW q \in Procs, fork(p, q) PROVE BlobsOwned'
  <2>1. /\ new[p] \in Creds /\ task[q] = NULL /\ UNCHANGED <<security, blob, dying>>
        /\ task' = [task EXCEPT ![q] = new[p]] /\ new' = [new EXCEPT ![p] = NULL]
    BY <1>5 DEF fork, Inv, Control, ControlOf
  <2>2. \A c \in Creds : InUse(c)' <=> InUse(c)
    BY <2>1, Zenon DEF InUse
  <2>3. /\ \A c \in Creds : Live(c)' <=> Live(c)
        /\ \A c \in dying' : ~InUse(c)'
    BY <2>1, <2>2, Zenon DEF Live, BlobsOwned
  <2> QED BY <2>1, <2>3, OwnedKept, Zenon
<1>6. ASSUME NEW p \in Procs, NEW q \in Procs, clone_thread(p, q) PROVE BlobsOwned'
  <2>1. /\ task[p] \in Creds /\ task[q] = NULL /\ UNCHANGED <<security, blob, dying, new>>
        /\ task' = [task EXCEPT ![q] = task[p]]
    BY <1>6 DEF clone_thread, Inv, Control, ControlOf
  <2>2. \A c \in Creds : InUse(c)' <=> InUse(c)
    BY <2>1, Zenon DEF InUse
  <2> QED BY <2>1, <2>2, OwnedKept, Zenon DEF Live, BlobsOwned
<1>7. ASSUME NEW p \in Procs, NEW i \in Inodes, NEW m \in Masks, open(p, i, m) PROVE BlobsOwned'
  BY <1>7, <1>s, Zenon DEF open
<1>8. ASSUME NEW p \in Procs, NEW i \in Inodes, open_exec(p, i) PROVE BlobsOwned'
  BY <1>8, <1>s, Zenon DEF open_exec
<1>9. ASSUME NEW p \in Procs, NEW i \in Inodes, create(p, i) PROVE BlobsOwned'
  BY <1>9, <1>s, Zenon DEF create
<1>10. ASSUME NEW p \in Procs, mp4_inode_permission(p) PROVE BlobsOwned'
  BY <1>10, <1>s, Zenon DEF mp4_inode_permission
<1>11. ASSUME NEW p \in Procs, get_inode_sid(p) PROVE BlobsOwned'
  <2>1. CASE Found(p, "none")
    BY <1>11, <2>1, FoundOwned, Zenon DEF get_inode_sid, Reading
  <2>2. CASE blob' = blob
    BY <1>11, <2>2, <1>s, Zenon DEF get_inode_sid
  <2> QED BY <1>11, <2>1, <2>2, Zenon DEF get_inode_sid
<1>12. ASSUME NEW p \in Procs, getxattr(p) PROVE BlobsOwned'
  BY <1>12, FoundOwned, Zenon DEF getxattr, Reading
<1>13. ASSUME NEW p \in Procs, decide(p) PROVE BlobsOwned'
  BY <1>13, <1>s, Zenon DEF decide
<1>14. ASSUME NEW p \in Procs, mp4_bprm_set_creds(p) PROVE BlobsOwned'
  BY <1>14, <1>s, Zenon DEF mp4_bprm_set_creds
<1>15. ASSUME NEW c \in Creds, mp4_cred_free(c) PROVE BlobsOwned'
  <2>1. c \in dying /\ dying' = dying \ {c} /\ UNCHANGED <<task, new>>
    BY <1>15, Zenon DEF mp4_cred_free
  <2>2. /\ \A x \in Creds : InUse(x)' <=> InUse(x)
        /\ \A x \in Creds : Live(x)' <=> Live(x) /\ x # c
        /\ \A x \in dying' : ~InUse(x)'
    BY <2>1, Zenon DEF Live, InUse, BlobsOwned
  <2>3. CASE security[c] = NULL
    <3>1. UNCHANGED <<security, blob>>
      BY <1>15, <2>3, Zenon DEF mp4_cred_free
    <3> QED BY <2>2, <2>3, <3>1, SMTT(60) DEF BlobsOwned
  <2>4. CASE security[c] # NULL
    <3>1. /\ security[c] \in Blobs /\ security' = [security EXCEPT ![c] = POISON]
          /\ blob' = [blob EXCEPT ![security[c]] = NULL]
      BY <1>15, <2>4, Zenon DEF mp4_cred_free
    <3>2. \A x \in Creds : Live(x) /\ x # c => security'[x] = security[x] /\ security[x] # security[c]
      BY <2>1, <2>4, <3>1, SMTT(60) DEF BlobsOwned, Live
    <3>3. \A x \in Creds : Live(x)' => /\ security'[x] # POISON
                                       /\ security'[x] # NULL => blob'[security'[x]] # NULL
      BY <2>2, <3>1, <3>2, SMTT(60) DEF BlobsOwned
    <3>4. \A b \in Blobs : blob'[b] # NULL => \E x \in Creds : Live(x)' /\ security'[x] = b
      BY <2>2, <3>1, <3>2, SMTT(60) DEF BlobsOwned
    <3>5. \A x, y \in Creds : Live(x)' /\ Live(y)' /\ security'[x] # NULL
                                /\ security'[x] = security'[y] => x = y
      BY <2>2, <3>2, SMTT(60) DEF BlobsOwned
    <3> QED BY <2>2, <3>3, <3>4, <3>5, Zenon DEF BlobsOwned
  <2> QED BY <2>3, <2>4, Zenon
<1>16. ASSUME NEW i \in Inodes, setfattr(i) PROVE BlobsOwned'
  BY <1>16, <1>s, Zenon DEF setfattr
<1>17. CASE UNCHANGED vars
  BY <1>17, <1>s, Zenon DEF vars
<1>18. ASSUME NEW p \in Procs, check_mask(p) PROVE BlobsOwned'
  BY <1>18, <1>s, Zenon DEF check_mask
<1>19. ASSUME NEW p \in Procs, check_path(p) PROVE BlobsOwned'
  BY <1>19, <1>s, Zenon DEF check_path
<1>20. ASSUME NEW p \in Procs, alloc_ctx(p) PROVE BlobsOwned'
  <2>1. CASE Found(p, "none")
    BY <1>20, <2>1, FoundOwned, Zenon DEF alloc_ctx, Reading
  <2>2. CASE blob' = blob
    BY <1>20, <2>2, <1>s, Zenon DEF alloc_ctx
  <2> QED BY <1>20, <2>1, <2>2, Zenon DEF alloc_ctx
<1> QED BY <1>1, <1>2, <1>3, <1>4, <1>5, <1>6, <1>7, <1>8, <1>9, <1>10, <1>11,
    <1>12, <1>13, <1>14, <1>15, <1>16, <1>17, <1>18, <1>19, <1>20, Zenon DEF Next, Process

(***************************************************************************)
(* A credential whose block carries the target label, and NewLabels for    *)
(* one process.                                                            *)
(***************************************************************************)
Marked(c) == security[c] # NULL /\ blob[security[c]] = MP4_TARGET_SID
NewLabelOf(p) ==
  new[p] # NULL => /\ security[new[p]] \in Blobs
                   /\ job[p].op # "blank" => (Marked(new[p]) <=> ran[p] \/ job[p].hit)
Labelled == /\ \A p \in Procs : pc[p] # "none" => (Marked(task[p]) <=> ran[p])
            /\ \A p \in Procs : NewLabelOf(p)

(***************************************************************************)
(* The two forms say the same.                                             *)
(***************************************************************************)
LEMMA LabelForms ==
  /\ LabelFollowsExec /\ NewLabels => Labelled
  /\ Labelled' => LabelFollowsExec' /\ NewLabels'
<1>1. \A p \in Procs : (Sid(p) = MP4_TARGET_SID <=> Marked(task[p]))
  BY DEF Sid, Marked, MP4_NO_ACCESS, MP4_TARGET_SID
<1>2. \A p \in Procs : (Sid(p)' = MP4_TARGET_SID <=> Marked(task[p])')
  BY DEF Sid, Marked, MP4_NO_ACCESS, MP4_TARGET_SID
<1>3. LabelFollowsExec /\ NewLabels => Labelled
  BY <1>1, ACAssumption DEF LabelFollowsExec, NewLabels, NewLabelOf, Labelled, Marked
<1>4. Labelled' => LabelFollowsExec' /\ NewLabels'
  BY <1>2, ACAssumption, Zenon DEF LabelFollowsExec, NewLabels, NewLabelOf, Labelled, Marked
<1> QED BY <1>3, <1>4, Zenon

(***************************************************************************)
(* Writing to a block that is free, or belongs to one live credential,     *)
(* leaves the labels of the other live credentials alone.                  *)
(***************************************************************************)
LEMMA OthersMarked ==
  ASSUME security \in [Creds -> Blobs \cup {NULL, POISON}], BlobsOwned,
         blob \in [Blobs -> Sids \cup {NULL}], NEW b \in Blobs, NEW v, NEW d \in Creds,
         blob' = [blob EXCEPT ![b] = v], \A c \in Creds \ {d} : security'[c] = security[c],
         blob[b] = NULL \/ (Live(d) /\ security[d] = b)
  PROVE  \A c \in Creds \ {d} : Live(c) => (Marked(c)' <=> Marked(c))
<1> SUFFICES ASSUME NEW c \in Creds \ {d}, Live(c) PROVE Marked(c)' <=> Marked(c)
  BY Zenon
<1>1. security'[c] = security[c] /\ security[c] \in Blobs \cup {NULL} /\ security[c] # b
  BY ACAssumption, SMTT(60) DEF BlobsOwned
<1> QED BY <1>1, Zenon DEF Marked

(***************************************************************************)
(* mp4_bprm_set_creds marks the credential in preparation exactly when the *)
(* program is a target.                                                    *)
(***************************************************************************)
LEMMA FoundLabels ==
  ASSUME Inv, NEW p \in Procs, NEW text, Found(p, text), pc[p] \in Reading,
         UNCHANGED <<task, security, dying, new, ran>>
  PROVE  Labelled'
<1>a. /\ task \in [Procs -> Creds \cup {NULL}] /\ new \in [Procs -> Creds \cup {NULL}]
      /\ security \in [Creds -> Blobs \cup {NULL, POISON}] /\ dying \subseteq Creds
      /\ blob \in [Blobs -> Sids \cup {NULL}] /\ pc \in [Procs -> Pcs] /\ job \in [Procs -> Jobs]
      /\ ran \in [Procs -> BOOLEAN] /\ Control /\ Private /\ BlobsOwned
  BY Zenon DEF Inv, TypeOK
<1>l. /\ \A r \in Procs : pc[r] # "none" => (Marked(task[r]) <=> ran[r])
      /\ \A r \in Procs : NewLabelOf(r)
  BY LabelForms, Zenon DEF Inv, Labelled
<1> USE ACAssumption, <1>a
<1>t. Cred_ctx_to_sid(text) = MP4_TARGET_SID <=> text = "target"
  BY DEF Cred_ctx_to_sid, MP4_NO_ACCESS, MP4_READ_OBJ, MP4_READ_WRITE, MP4_WRITE_OBJ,
         MP4_EXEC_OBJ, MP4_READ_DIR, MP4_RW_DIR, MP4_TARGET_SID
<1>0. /\ pc'[p] # "none" /\ pc[p] # "none"
      /\ \A r \in Procs \ {p} : pc'[r] = pc[r] /\ job'[r] = job[r]
  BY Zenon DEF Found, Goto, Reading
<1>1. CASE job[p].caller = "permission"
  <2>1. blob' = blob /\ job'[p].op = job[p].op /\ job'[p].hit = job[p].hit
    BY <1>1 DEF Found, Jobs
  <2>2. \A c : Marked(c)' <=> Marked(c)
    BY <2>1, Zenon DEF Marked
  <2> QED BY <1>0, <1>l, <2>1, <2>2, Zenon DEF Labelled, NewLabelOf
<1>2. CASE job[p].caller # "permission"
  <2>1. /\ job[p].op = "exec" /\ ~job[p].cred_prepared /\ new[p] \in Creds
    BY <1>2 DEF Control, ControlOf, Checking, Reading
  <2>2. /\ job'[p].op = "exec" /\ (job'[p].hit <=> text = "target")
        /\ blob' = IF text = "target" THEN [blob EXCEPT ![security[new[p]]] = MP4_TARGET_SID] ELSE blob
    BY <1>2, <1>t, <2>1 DEF Found, Jobs
  <2>3. ~job[p].hit
    BY <2>1, Zenon DEF Control, ControlOf
  <2>4. security[new[p]] \in Blobs /\ (Marked(new[p]) <=> ran[p])
    BY <1>l, <2>1, <2>3, Zenon DEF NewLabelOf
  <2>5. \A c \in Creds \ {new[p]} : Live(c) => (Marked(c)' <=> Marked(c))
    <3>1. CASE text = "target"
      BY <2>1, <2>2, <2>4, <3>1, OthersMarked, Zenon DEF Live, InUse
    <3>2. CASE text # "target"
      BY <2>2, <3>2, Zenon DEF Marked
    <3> QED BY <3>1, <3>2, Zenon
  <2>6. Marked(new[p])' <=> ran[p] \/ text = "target"
    BY <2>2, <2>4, Zenon DEF Marked
  <2>7. NewLabelOf(p)'
    BY <2>1, <2>2, <2>4, <2>6, Zenon DEF NewLabelOf
  <2>8. \A r \in Procs \ {p} : NewLabelOf(r)'
    <3>1. \A r \in Procs \ {p} : new[r] # NULL => new[r] \in Creds \ {new[p]} /\ Live(new[r])
      BY <2>1 DEF Private, Live, InUse
    <3>2. \A r \in Procs \ {p} : new[r] # NULL => (Marked(new[r])' <=> Marked(new[r]))
      BY <2>5, <3>1, Zenon DEF Marked
    <3> QED BY <1>0, <1>l, <3>2, Zenon DEF NewLabelOf
  <2>9. \A r \in Procs : pc'[r] # "none" => (Marked(task[r])' <=> ran'[r])
    <3>1. \A r \in Procs : pc[r] # "none" => task[r] \in Creds \ {new[p]} /\ Live(task[r])
      BY <2>1, SMTT(60) DEF Control, ControlOf, Private, Live, InUse
    <3> QED BY <1>0, <1>l, <2>5, <3>1, Zenon
  <2> QED BY <2>7, <2>8, <2>9, Zenon DEF Labelled
<1> QED BY <1>1, <1>2, Zenon

(***************************************************************************)
(* Labels follow the programs that are executed.                           *)
(***************************************************************************)
LEMMA LabelStep == ASSUME Inv, [Next]_vars PROVE Labelled'
<1>a. /\ task \in [Procs -> Creds \cup {NULL}] /\ new \in [Procs -> Creds \cup {NULL}]
      /\ security \in [Creds -> Blobs \cup {NULL, POISON}] /\ dying \subseteq Creds
      /\ blob \in [Blobs -> Sids \cup {NULL}] /\ pc \in [Procs -> Pcs] /\ job \in [Procs -> Jobs]
      /\ ran \in [Procs -> BOOLEAN] /\ Control /\ Private /\ BlobsOwned
  BY Zenon DEF Inv, TypeOK
<1>l. /\ \A r \in Procs : pc[r] # "none" => (Marked(task[r]) <=> ran[r])
      /\ \A r \in Procs : NewLabelOf(r)
  BY LabelForms, Zenon DEF Inv, Labelled
<1> USE ACAssumption, <1>a DEF creds, held, Goto
<1>s. ASSUME UNCHANGED <<creds, ran>>,
             \A r \in Procs : /\ pc'[r] # "none" => pc[r] # "none"
                              /\ new[r] # NULL => /\ job'[r].op = job[r].op
                                                  /\ job'[r].hit = job[r].hit
      PROVE  Labelled'
  <2>1. \A c : Marked(c)' <=> Marked(c)
    BY <1>s, Zenon DEF Marked
  <2>2. \A r \in Procs : NewLabelOf(r)'
    BY <1>s, <1>l, <2>1, Zenon DEF NewLabelOf
  <2>3. \A r \in Procs : pc'[r] # "none" => (Marked(task[r])' <=> ran'[r])
    BY <1>s, <1>l, <2>1, Zenon
  <2> QED BY <2>2, <2>3, Zenon DEF Labelled
<1>u. \A r \in Procs : /\ pc[r] # "none" => task[r] \in Creds /\ Live(task[r])
                       /\ new[r] # NULL => new[r] \in Creds /\ Live(new[r])
  BY DEF Control, ControlOf, Live, InUse
<1>1. ASSUME NEW p \in Procs, prepare_creds(p) PROVE Labelled'
  <2>1. PICK c \in Creds, op \in {"fork", "exec", "setuid", "blank"} :
          /\ ~InUse(c) /\ c \notin dying /\ UNCHANGED <<task, ran>>
          /\ \/ /\ IF op = "blank" THEN mp4_cred_alloc_blank(c) ELSE mp4_cred_prepare(c, task[p])
                /\ new' = [new EXCEPT ![p] = c] /\ pc' = [pc EXCEPT ![p] = "prepared"]
                /\ job' = [job EXCEPT ![p] = [NoJob EXCEPT !.op = op]]
             \/ NoMemory(c) /\ UNCHANGED <<new, pc, job>>
    BY <1>1, Zenon DEF prepare_creds
  <2>2. pc[p] = "user" /\ task[p] \in Creds /\ ~Live(c)
    BY <1>1, <1>u, <2>1, Zenon DEF prepare_creds, Live
  <2>3. CASE NoMemory(c) /\ UNCHANGED <<new, pc, job>>
    <3>1. \A x \in Creds : Live(x) => (Marked(x)' <=> Marked(x)) /\ security'[x] = security[x]
      BY <2>2, <2>3, Zenon DEF NoMemory, Marked
    <3> QED BY <2>1, <2>3, <3>1, <1>u, <1>l, Zenon DEF Labelled, NewLabelOf
  <2>4. CASE /\ IF op = "blank" THEN mp4_cred_alloc_blank(c) ELSE mp4_cred_prepare(c, task[p])
             /\ new' = [new EXCEPT ![p] = c] /\ pc' = [pc EXCEPT ![p] = "prepared"]
             /\ job' = [job EXCEPT ![p] = [NoJob EXCEPT !.op = op]]
    <3>1. PICK b \in Blobs :
            /\ blob[b] = NULL /\ security' = [security EXCEPT ![c] = b]
            /\ \E v : blob' = [blob EXCEPT ![b] = v]
            /\ op # "blank" =>
                 blob' = [blob EXCEPT ![b] = IF security[task[p]] = NULL THEN MP4_NO_ACCESS
                                             ELSE blob[security[task[p]]]]
      BY <2>4, Zenon DEF mp4_cred_alloc_blank, mp4_cred_prepare
    <3>2. \A x \in Creds \ {c} : Live(x) => (Marked(x)' <=> Marked(x))
      BY <3>1, OthersMarked, Zenon
    <3>3. security'[c] = b /\ b # NULL /\ \A x \in Creds \ {c} : security'[x] = security[x]
      BY <3>1, Zenon
    <3>4. op # "blank" => (Marked(c)' <=> Marked(task[p]))
      BY <3>1, <3>3, SMTT(60) DEF Marked, MP4_NO_ACCESS, MP4_TARGET_SID
    <3>5. job'[p].op = op /\ job'[p].hit = FALSE
      BY <2>4, Zenon DEF NoJob
    <3>6. NewLabelOf(p)'
      BY <2>1, <2>2, <2>4, <3>3, <3>4, <3>5, <1>l, Zenon DEF NewLabelOf
    <3>7. \A r \in Procs \ {p} : NewLabelOf(r)'
      BY <2>1, <2>2, <2>4, <3>2, <3>3, <1>u, <1>l DEF NewLabelOf
    <3>8. \A r \in Procs : pc'[r] # "none" => (Marked(task[r])' <=> ran'[r])
      BY <2>1, <2>2, <2>4, <3>2, <1>u, <1>l
    <3> QED BY <3>6, <3>7, <3>8, Zenon DEF Labelled
  <2> QED BY <2>1, <2>3, <2>4, Zenon
<1>2. ASSUME NEW p \in Procs, abort_creds(p) PROVE Labelled'
  <2>1. /\ UNCHANGED <<task, security, blob, ran>> /\ new' = [new EXCEPT ![p] = NULL]
        /\ \A r \in Procs : pc'[r] # "none" => pc[r] # "none"
        /\ \A r \in Procs \ {p} : job'[r] = job[r]
    BY <1>2, Zenon DEF abort_creds
  <2>2. \A c : Marked(c)' <=> Marked(c)
    BY <2>1, Zenon DEF Marked
  <2> QED BY <2>1, <2>2, <1>l, Zenon DEF Labelled, NewLabelOf
<1>3. ASSUME NEW p \in Procs, commit_creds(p) PROVE Labelled'
  <2>1. /\ UNCHANGED <<security, blob>> /\ new' = [new EXCEPT ![p] = NULL]
        /\ task' = [task EXCEPT ![p] = new[p]] /\ new[p] # NULL /\ job[p].op # "blank"
        /\ ran' = [ran EXCEPT ![p] = ran[p] \/ job[p].hit]
        /\ \A r \in Procs \ {p} : job'[r] = job[r] /\ pc'[r] = pc[r]
    BY <1>3, Zenon DEF commit_creds, Control, ControlOf
  <2>2. \A c : Marked(c)' <=> Marked(c)
    BY <2>1, Zenon DEF Marked
  <2>3. Marked(task[p])' <=> ran'[p]
    BY <2>1, <2>2, <1>l, Zenon DEF NewLabelOf
  <2>4. \A r \in Procs : NewLabelOf(r)'
    BY <2>1, <2>2, <1>l, Zenon DEF NewLabelOf
  <2>5. \A r \in Procs \ {p} : pc'[r] # "none" => (Marked(task[r])' <=> ran'[r])
    BY <2>1, <2>2, <1>l, Zenon
  <2> QED BY <2>3, <2>4, <2>5, Zenon DEF Labelled
<1>4. ASSUME NEW p \in Procs, exit(p) PROVE Labelled'
  <2>1. /\ UNCHANGED <<security, blob, new, job>> /\ new[p] = NULL
        /\ \A r \in Procs \ {p} : pc'[r] = pc[r] /\ task'[r] = task[r] /\ ran'[r] = ran[r]
        /\ pc'[p] = "none"
    BY <1>4 DEF exit, Control, ControlOf, Checking, Reading
  <2>2. \A c : Marked(c)' <=> Marked(c)
    BY <2>1, Zenon DEF Marked
  <2> QED BY <2>1, <2>2, <1>l, Zenon DEF Labelled, NewLabelOf
<1>5. ASSUME NEW p \in Procs, NEW q \in Procs, fork(p, q) PROVE Labelled'
  <2>1. /\ UNCHANGED <<security, blob>> /\ new' = [new EXCEPT ![p] = NULL]
        /\ task' = [task EXCEPT ![q] = new[p]] /\ new[p] # NULL /\ new[q] = NULL
        /\ ran' = [ran EXCEPT ![q] = ran[p]] /\ p # q
        /\ job[p].op # "blank" /\ ~job[p].hit
        /\ \A r \in Procs \ {p, q} : pc'[r] = pc[r]
        /\ \A r \in Procs \ {p} : job'[r] = job[r]
        /\ pc[p] # "none"
    BY <1>5, Zenon DEF fork, Control, ControlOf, Checking, Reading
  <2>2. \A c : Marked(c)' <=> Marked(c)
    BY <2>1, Zenon DEF Marked
  <2>3. Marked(task[q])' <=> ran'[q]
    BY <2>1, <2>2, <1>l, Zenon DEF NewLabelOf
  <2>4. \A r \in Procs : NewLabelOf(r)'
    BY <2>1, <2>2, <1>l, Zenon DEF NewLabelOf
  <2>5. \A r \in Procs \ {q} : pc'[r] # "none" => (Marked(task[r])' <=> ran'[r])
    BY <2>1, <2>2, <1>l, Zenon
  <2> QED BY <2>3, <2>4, <2>5, Zenon DEF Labelled
<1>6. ASSUME NEW p \in Procs, NEW q \in Procs, clone_thread(p, q) PROVE Labelled'
  <2>1. /\ UNCHANGED <<security, blob, new, job>> /\ new[q] = NULL
        /\ task' = [task EXCEPT ![q] = task[p]] /\ ran' = [ran EXCEPT ![q] = ran[p]]
        /\ pc[p] # "none" /\ p # q /\ \A r \in Procs \ {q} : pc'[r] = pc[r]
    BY <1>6, Zenon DEF clone_thread, Control, ControlOf, Checking, Reading
  <2>2. \A c : Marked(c)' <=> Marked(c)
    BY <2>1, Zenon DEF Marked
  <2>3. \A r \in Procs : NewLabelOf(r)'
    BY <2>1, <2>2, <1>l, Zenon DEF NewLabelOf
  <2>4. \A r \in Procs : pc'[r] # "none" => (Marked(task[r])' <=> ran'[r])
    BY <2>1, <2>2, <1>l, Zenon
  <2> QED BY <2>3, <2>4, Zenon DEF Labelled
<1>7. ASSUME NEW p \in Procs, NEW i \in Inodes, NEW m \in Masks, open(p, i, m) PROVE Labelled'
  <2>1. /\ UNCHANGED <<creds, ran>>
        /\ \A r \in Procs : /\ pc'[r] # "none" => pc[r] # "none"
                            /\ new[r] # NULL => /\ job'[r].op = job[r].op
                                                /\ job'[r].hit = job[r].hit
    BY <1>7, Zenon DEF open, Jobs, Control, ControlOf, Checking, Reading
  <2> QED BY <2>1, <1>s, Zenon
<1>8. ASSUME NEW p \in Procs, NEW i \in Inodes, open_exec(p, i) PROVE Labelled'
  <2>1. /\ UNCHANGED <<creds, ran>>
        /\ \A r \in Procs : /\ pc'[r] # "none" => pc[r] # "none"
                            /\ new[r] # NULL => /\ job'[r].op = job[r].op
                                                /\ job'[r].hit = job[r].hit
    BY <1>8 DEF open_exec, Jobs, Control, ControlOf, Checking, Reading
  <2> QED BY <2>1, <1>s, Zenon
<1>9. ASSUME NEW p \in Procs, NEW i \in Inodes, create(p, i) PROVE Labelled'
  <2>1. /\ UNCHANGED <<creds, ran>>
        /\ \A r \in Procs : /\ pc'[r] # "none" => pc[r] # "none"
                            /\ new[r] # NULL => /\ job'[r].op = job[r].op
                                                /\ job'[r].hit = job[r].hit
    BY <1>9, Zenon DEF create, Jobs, Control, ControlOf, Checking, Reading
  <2> QED BY <2>1, <1>s, Zenon
<1>r. ASSUME NEW p \in Procs, NEW granted, Return(p, granted), UNCHANGED <<creds, ran>>,
             pc[p] \in {"permission", "alias", "path", "decide"}
      PROVE  Labelled'
  <2>1. job[p].op = "open" => new[p] = NULL
    BY <1>r, Zenon DEF Control, ControlOf, Checking, Reading
  <2>2. \A r \in Procs : new[r] # NULL => job'[r].op = job[r].op /\ job'[r].hit = job[r].hit
    BY <1>r, <2>1, Zenon DEF Return
  <2>3. \A r \in Procs : pc'[r] # "none" => pc[r] # "none"
    BY <1>r, Zenon DEF Return
  <2> QED BY <1>r, <2>2, <2>3, <1>s, Zenon
<1>g. ASSUME NEW p \in Procs, NEW l \in Pcs, Goto(p, l), pc[p] # "none", UNCHANGED <<creds, job, ran>>
      PROVE  Labelled'
  BY <1>g, <1>s, Zenon
<1>10. ASSUME NEW p \in Procs, mp4_inode_permission(p) PROVE Labelled'
  <2>1. CASE Return(p, FALSE)
    BY <1>10, <2>1, <1>r, Zenon DEF mp4_inode_permission
  <2>2. CASE Goto(p, "alias") /\ UNCHANGED job
    BY <1>10, <2>2, <1>g, Zenon DEF mp4_inode_permission, Pcs
  <2> QED BY <1>10, <2>1, <2>2, Zenon DEF mp4_inode_permission
<1>11. ASSUME NEW p \in Procs, get_inode_sid(p) PROVE Labelled'
  <2>1. CASE Found(p, "none")
    BY <1>11, <2>1, FoundLabels, Zenon DEF get_inode_sid, Reading
  <2>2. CASE Goto(p, "ctx") /\ UNCHANGED <<blob, job>>
    BY <1>11, <2>2, <1>g, Zenon DEF get_inode_sid, Pcs
  <2> QED BY <1>11, <2>1, <2>2, Zenon DEF get_inode_sid
<1>12. ASSUME NEW p \in Procs, getxattr(p) PROVE Labelled'
  BY <1>12, FoundLabels, Zenon DEF getxattr, Reading
<1>13. ASSUME NEW p \in Procs, decide(p) PROVE Labelled'
  BY <1>13, <1>r, Zenon DEF decide
<1>14. ASSUME NEW p \in Procs, mp4_bprm_set_creds(p) PROVE Labelled'
  <2>1. UNCHANGED <<creds, ran>> /\ \A r \in Procs : pc'[r] # "none" => pc[r] # "none"
    BY <1>14, Zenon DEF mp4_bprm_set_creds
  <2>2. job' = job \/ job' = [job EXCEPT ![p] = [job[p] EXCEPT !.caller = "set_creds"]]
    BY <1>14, Zenon DEF mp4_bprm_set_creds
  <2>3. \A r \in Procs : job'[r].op = job[r].op /\ job'[r].hit = job[r].hit
    BY <2>2 DEF Jobs
  <2> QED BY <2>1, <2>3, <1>s, Zenon
<1>15. ASSUME NEW c \in Creds, mp4_cred_free(c) PROVE Labelled'
  <2>1. /\ c \in dying /\ UNCHANGED <<task, new, pc, job, ran>>
        /\ \/ UNCHANGED <<security, blob>>
           \/ /\ security[c] \in Blobs /\ security' = [security EXCEPT ![c] = POISON]
              /\ blob' = [blob EXCEPT ![security[c]] = NULL]
    BY <1>15, Zenon DEF mp4_cred_free
  <2>2. \A x \in Creds \ {c} : Live(x) =>
          (Marked(x)' <=> Marked(x)) /\ security'[x] = security[x]
    <3>1. CASE UNCHANGED <<security, blob>>
      BY <3>1, Zenon DEF Marked
    <3>2. CASE /\ security[c] \in Blobs /\ security' = [security EXCEPT ![c] = POISON]
               /\ blob' = [blob EXCEPT ![security[c]] = NULL]
      BY <2>1, <3>2, OthersMarked, Zenon DEF Live
    <3> QED BY <2>1, <3>1, <3>2, Zenon
  <2>3. \A r \in Procs : task[r] # c /\ new[r] # c
    BY <2>1, Zenon DEF BlobsOwned, InUse
  <2> QED BY <2>1, <2>2, <2>3, <1>u, <1>l, Zenon DEF Labelled, NewLabelOf
<1>16. ASSUME NEW i \in Inodes, setfattr(i) PROVE Labelled'
  <2>1. /\ UNCHANGED <<creds, ran>>
        /\ \A r \in Procs : /\ pc'[r] # "none" => pc[r] # "none"
                            /\ new[r] # NULL => /\ job'[r].op = job[r].op
                                                /\ job'[r].hit = job[r].hit
    BY <1>16, Zenon DEF setfattr, Jobs, Control, ControlOf, Checking, Reading
  <2> QED BY <2>1, <1>s, Zenon
<1>17. CASE UNCHANGED vars
  <2>1. /\ UNCHANGED <<creds, ran>>
        /\ \A r \in Procs : /\ pc'[r] # "none" => pc[r] # "none"
                            /\ new[r] # NULL => /\ job'[r].op = job[r].op
                                                /\ job'[r].hit = job[r].hit
    BY <1>17, Zenon DEF vars, Jobs, Control, ControlOf, Checking, Reading
  <2> QED BY <2>1, <1>s, Zenon
<1>18. ASSUME NEW p \in Procs, check_mask(p) PROVE Labelled'
  <2>1. CASE \E granted \in BOOLEAN : Return(p, granted)
    BY <1>18, <2>1, <1>r, Zenon DEF check_mask
  <2>2. CASE Goto(p, "path") /\ UNCHANGED job
    BY <1>18, <2>2, <1>g, Zenon DEF check_mask, Pcs
  <2> QED BY <1>18, <2>1, <2>2, Zenon DEF check_mask
<1>19. ASSUME NEW p \in Procs, check_path(p) PROVE Labelled'
  <2>1. CASE \E granted \in BOOLEAN : Return(p, granted)
    BY <1>19, <2>1, <1>r, Zenon DEF check_path
  <2>2. CASE /\ Goto(p, "get_inode_sid")
             /\ job' = [job EXCEPT ![p] = [job[p] EXCEPT !.caller = "permission", !.ssid = Sid(p)]]
    <3>1. job'[p] = [job[p] EXCEPT !.caller = "permission", !.ssid = Sid(p)]
      BY <2>2, Zenon
    <3>2. job'[p].op = job[p].op /\ job'[p].hit = job[p].hit
      BY <3>1 DEF Jobs
    <3>3. \A r \in Procs : /\ job'[r].op = job[r].op /\ job'[r].hit = job[r].hit
                           /\ pc'[r] # "none" => pc[r] # "none"
      BY <1>19, <2>2, <3>2, Zenon DEF check_path
    <3> QED BY <1>19, <3>3, <1>s, Zenon DEF check_path
  <2> QED BY <1>19, <2>1, <2>2, Zenon DEF check_path
<1>20. ASSUME NEW p \in Procs, alloc_ctx(p) PROVE Labelled'
  <2>1. CASE Found(p, "none")
    BY <1>20, <2>1, FoundLabels, Zenon DEF alloc_ctx, Reading
  <2>2. CASE Goto(p, "getxattr") /\ UNCHANGED <<blob, job>>
    BY <1>20, <2>2, <1>g, Zenon DEF alloc_ctx, Pcs
  <2> QED BY <1>20, <2>1, <2>2, Zenon DEF alloc_ctx
<1> QED BY <1>1, <1>2, <1>3, <1>4, <1>5, <1>6, <1>7, <1>8, <1>9, <1>10, <1>11,
    <1>12, <1>13, <1>14, <1>15, <1>16, <1>17, <1>18, <1>19, <1>20, Zenon DEF Next, Process

(***************************************************************************)
(* What Subject says of one process, and a process that a step leaves      *)
(* alone.                                                                  *)
(***************************************************************************)
SubjectOf(p) == Asked(p) => (job[p].ssid = MP4_TARGET_SID <=> ran[p])
Same(p) == pc'[p] = pc[p] /\ job'[p] = job[p] /\ ran'[p] = ran[p]

(***************************************************************************)
(* get_inode_sid returns: its caller finds the label of the process as it  *)
(* has read it.                                                            *)
(***************************************************************************)
LEMMA FoundSubject ==
  ASSUME Inv, NEW p \in Procs, NEW text, Found(p, text), pc[p] \in Reading, ran' = ran
  PROVE  Subject'
<1>a. /\ pc \in [Procs -> Pcs] /\ job \in [Procs -> Jobs] /\ ran \in [Procs -> BOOLEAN]
      /\ \A r \in Procs : SubjectOf(r)
  BY Zenon DEF Inv, TypeOK, Subject, SubjectOf
<1>1. \A r \in Procs \ {p} : SubjectOf(r)'
  <2>1. \A r \in Procs \ {p} : pc'[r] = pc[r] /\ job'[r] = job[r]
    BY <1>a, Zenon DEF Found, Goto
  <2> QED BY <1>a, <2>1, Zenon DEF SubjectOf, Asked
<1>2. CASE job[p].caller = "permission"
  <2>1. job' = [job EXCEPT ![p] = [job[p] EXCEPT !.osid = Cred_ctx_to_sid(text)]]
    BY <1>2, Zenon DEF Found
  <2>2. job'[p].ssid = job[p].ssid
    BY <1>a, <2>1 DEF Jobs
  <2>3. SubjectOf(p)'
    BY <1>a, <1>2, <2>2, Zenon DEF SubjectOf, Asked
  <2> QED BY <1>1, <2>3, Zenon DEF Subject, SubjectOf
<1>3. CASE job[p].caller # "permission"
  <2>1. pc'[p] = "loaded"
    BY <1>a, <1>3, Zenon DEF Found, Goto
  <2>2. SubjectOf(p)'
    BY <2>1, Zenon DEF SubjectOf, Asked, Reading
  <2> QED BY <1>1, <2>2, Zenon DEF Subject, SubjectOf
<1> QED BY <1>2, <1>3, Zenon

(***************************************************************************)
(* The label of the process that mp4_inode_permission has read stays right *)
(* while get_inode_sid sleeps: only the process itself changes which       *)
(* programs it has executed.                                               *)
(***************************************************************************)
LEMMA SubjectStep == ASSUME Inv, [Next]_vars PROVE Subject'
<1>a. /\ pc \in [Procs -> Pcs] /\ job \in [Procs -> Jobs] /\ ran \in [Procs -> BOOLEAN]
      /\ \A r \in Procs : SubjectOf(r)
  BY Zenon DEF Inv, TypeOK, Subject, SubjectOf
<1>s. ASSUME \A r \in Procs : Same(r) \/ pc'[r] \notin {"get_inode_sid", "ctx", "getxattr", "decide"}
      PROVE  Subject'
  BY <1>a, <1>s, Zenon DEF Subject, SubjectOf, Same, Asked, Reading
<1> USE ACAssumption, <1>a DEF creds, held, Goto, Same
<1>1. ASSUME NEW p \in Procs, prepare_creds(p) PROVE Subject'
  <2>1. \A r \in Procs : Same(r) \/ pc'[r] \notin {"get_inode_sid", "ctx", "getxattr", "decide"}
    BY <1>1 DEF prepare_creds, mp4_cred_prepare, mp4_cred_alloc_blank, NoMemory
  <2> QED BY <2>1, <1>s, Zenon
<1>2. ASSUME NEW p \in Procs, abort_creds(p) PROVE Subject'
  <2>1. \A r \in Procs : Same(r) \/ pc'[r] \notin {"get_inode_sid", "ctx", "getxattr", "decide"}
    BY <1>2, Zenon DEF abort_creds
  <2> QED BY <2>1, <1>s, Zenon
<1>3. ASSUME NEW p \in Procs, commit_creds(p) PROVE Subject'
  <2>1. \A r \in Procs : Same(r) \/ pc'[r] \notin {"get_inode_sid", "ctx", "getxattr", "decide"}
    BY <1>3, Zenon DEF commit_creds, Put
  <2> QED BY <2>1, <1>s, Zenon
<1>4. ASSUME NEW p \in Procs, exit(p) PROVE Subject'
  <2>1. \A r \in Procs : Same(r) \/ pc'[r] \notin {"get_inode_sid", "ctx", "getxattr", "decide"}
    BY <1>4, Zenon DEF exit, Put
  <2> QED BY <2>1, <1>s, Zenon
<1>5. ASSUME NEW p \in Procs, NEW q \in Procs, fork(p, q) PROVE Subject'
  <2>1. \A r \in Procs : Same(r) \/ pc'[r] \notin {"get_inode_sid", "ctx", "getxattr", "decide"}
    BY <1>5, Zenon DEF fork
  <2> QED BY <2>1, <1>s, Zenon
<1>6. ASSUME NEW p \in Procs, NEW q \in Procs, clone_thread(p, q) PROVE Subject'
  <2>1. \A r \in Procs : Same(r) \/ pc'[r] \notin {"get_inode_sid", "ctx", "getxattr", "decide"}
    BY <1>6, Zenon DEF clone_thread
  <2> QED BY <2>1, <1>s, Zenon
<1>7. ASSUME NEW p \in Procs, NEW i \in Inodes, NEW m \in Masks, open(p, i, m) PROVE Subject'
  <2>1. \A r \in Procs : Same(r) \/ pc'[r] \notin {"get_inode_sid", "ctx", "getxattr", "decide"}
    BY <1>7, Zenon DEF open
  <2> QED BY <2>1, <1>s, Zenon
<1>8. ASSUME NEW p \in Procs, NEW i \in Inodes, open_exec(p, i) PROVE Subject'
  <2>1. \A r \in Procs : Same(r) \/ pc'[r] \notin {"get_inode_sid", "ctx", "getxattr", "decide"}
    BY <1>8, Zenon DEF open_exec
  <2> QED BY <2>1, <1>s, Zenon
<1>9. ASSUME NEW p \in Procs, NEW i \in Inodes, create(p, i) PROVE Subject'
  <2>1. \A r \in Procs : Same(r) \/ pc'[r] \notin {"get_inode_sid", "ctx", "getxattr", "decide"}
    BY <1>9, Zenon DEF create
  <2> QED BY <2>1, <1>s, Zenon
<1>r. ASSUME NEW p \in Procs, NEW granted, Return(p, granted), ran' = ran PROVE Subject'
  <2>1. \A r \in Procs : Same(r) \/ pc'[r] \notin {"get_inode_sid", "ctx", "getxattr", "decide"}
    BY <1>r, Zenon DEF Return
  <2> QED BY <2>1, <1>s, Zenon
<1>10. ASSUME NEW p \in Procs, mp4_inode_permission(p) PROVE Subject'
  <2>1. CASE Return(p, FALSE)
    BY <1>10, <2>1, <1>r, Zenon DEF mp4_inode_permission
  <2>2. CASE Goto(p, "alias") /\ UNCHANGED job
    BY <1>10, <2>2, <1>s, Zenon DEF mp4_inode_permission
  <2> QED BY <1>10, <2>1, <2>2, Zenon DEF mp4_inode_permission
<1>11. ASSUME NEW p \in Procs, get_inode_sid(p) PROVE Subject'
  <2>1. CASE Found(p, "none")
    BY <1>11, <2>1, FoundSubject, Zenon DEF get_inode_sid, Reading
  <2>2. CASE Goto(p, "ctx") /\ job' = job
    <3>1. pc[p] = "get_inode_sid" /\ ran' = ran
      BY <1>11, Zenon DEF get_inode_sid
    <3> QED BY <2>2, <3>1, Zenon DEF Subject, SubjectOf, Asked, Reading
  <2> QED BY <1>11, <2>1, <2>2, Zenon DEF get_inode_sid
<1>12. ASSUME NEW p \in Procs, getxattr(p) PROVE Subject'
  BY <1>12, FoundSubject, Zenon DEF getxattr, Reading
<1>13. ASSUME NEW p \in Procs, decide(p) PROVE Subject'
  BY <1>13, <1>r, Zenon DEF decide
<1>14. ASSUME NEW p \in Procs, mp4_bprm_set_creds(p) PROVE Subject'
  <2>1. pc[p] = "set_creds" /\ ran' = ran
    BY <1>14, Zenon DEF mp4_bprm_set_creds
  <2>2. CASE Goto(p, "get_inode_sid") /\ job' = [job EXCEPT ![p].caller = "set_creds"]
    <3>1. job'[p].caller = "set_creds" /\ pc'[p] = "get_inode_sid"
      BY <2>2 DEF Jobs
    <3>2. \A r \in Procs \ {p} : SubjectOf(r)'
      BY <2>1, <2>2, Zenon DEF SubjectOf, Asked
    <3> QED BY <3>1, <3>2, Zenon DEF Subject, SubjectOf, Asked
  <2>3. CASE (Goto(p, "loaded") \/ Goto(p, "failed")) /\ job' = job
    <3>1. \A r \in Procs : Same(r) \/ pc'[r] \in {"loaded", "failed"}
      BY <2>1, <2>3, Zenon
    <3> QED BY <3>1, <1>s, Zenon
  <2> QED BY <1>14, <2>2, <2>3, Zenon DEF mp4_bprm_set_creds
<1>15. ASSUME NEW c \in Creds, mp4_cred_free(c) PROVE Subject'
  <2>1. \A r \in Procs : Same(r) \/ pc'[r] \notin {"get_inode_sid", "ctx", "getxattr", "decide"}
    BY <1>15, Zenon DEF mp4_cred_free
  <2> QED BY <2>1, <1>s, Zenon
<1>16. ASSUME NEW i \in Inodes, setfattr(i) PROVE Subject'
  <2>1. \A r \in Procs : Same(r) \/ pc'[r] \notin {"get_inode_sid", "ctx", "getxattr", "decide"}
    BY <1>16, Zenon DEF setfattr
  <2> QED BY <2>1, <1>s, Zenon
<1>17. CASE UNCHANGED vars
  <2>1. \A r \in Procs : Same(r)
    BY <1>17, Zenon DEF vars
  <2> QED BY <2>1, <1>s, Zenon
<1>18. ASSUME NEW p \in Procs, check_mask(p) PROVE Subject'
  <2>1. CASE \E granted \in BOOLEAN : Return(p, granted)
    BY <1>18, <2>1, <1>r, Zenon DEF check_mask
  <2>2. CASE Goto(p, "path") /\ UNCHANGED job
    BY <1>18, <2>2, <1>s, Zenon DEF check_mask
  <2> QED BY <1>18, <2>1, <2>2, Zenon DEF check_mask
<1>19. ASSUME NEW p \in Procs, check_path(p) PROVE Subject'
  <2>1. CASE \E granted \in BOOLEAN : Return(p, granted)
    BY <1>19, <2>1, <1>r, Zenon DEF check_path
  <2>2. CASE /\ Goto(p, "get_inode_sid")
             /\ job' = [job EXCEPT ![p].caller = "permission", ![p].ssid = Sid(p)]
    <3>1. pc[p] = "path" /\ ran' = ran
      BY <1>19, Zenon DEF check_path
    <3>2. job'[p].ssid = Sid(p) /\ (Sid(p) = MP4_TARGET_SID <=> ran[p])
      BY <2>2, <3>1 DEF Jobs, Inv, LabelFollowsExec
    <3>3. SubjectOf(p)'
      BY <3>1, <3>2, Zenon DEF SubjectOf
    <3>4. \A r \in Procs \ {p} : SubjectOf(r)'
      BY <2>2, <3>1, Zenon DEF SubjectOf, Asked
    <3> QED BY <3>3, <3>4, Zenon DEF Subject, SubjectOf
  <2> QED BY <1>19, <2>1, <2>2, Zenon DEF check_path
<1>20. ASSUME NEW p \in Procs, alloc_ctx(p) PROVE Subject'
  <2>1. CASE Found(p, "none")
    BY <1>20, <2>1, FoundSubject, Zenon DEF alloc_ctx, Reading
  <2>2. CASE Goto(p, "getxattr") /\ job' = job
    <3>1. pc[p] = "ctx" /\ ran' = ran
      BY <1>20, Zenon DEF alloc_ctx
    <3> QED BY <2>2, <3>1, Zenon DEF Subject, SubjectOf, Asked, Reading
  <2> QED BY <1>20, <2>1, <2>2, Zenon DEF alloc_ctx
<1> QED BY <1>1, <1>2, <1>3, <1>4, <1>5, <1>6, <1>7, <1>8, <1>9, <1>10, <1>11,
    <1>12, <1>13, <1>14, <1>15, <1>16, <1>17, <1>18, <1>19, <1>20, Zenon DEF Next, Process

(***************************************************************************)
(* At boot there is one process, without a block, and no label has been    *)
(* read.                                                                   *)
(***************************************************************************)
LEMMA InitInv == Init => Inv
<1> SUFFICES ASSUME Init PROVE Inv
  BY Zenon
<1> USE ACAssumption
<1>1. PICK c \in Creds : /\ task = [p \in Procs |-> IF p = Boot THEN c ELSE NULL]
                         /\ security = [x \in Creds |-> NULL]
  BY Zenon DEF Init
<1>2. NoJob \in Jobs /\ NoJob.op = "none" /\ NoJob.hit = FALSE
  <2>1. 0 \in Sids
    BY ONLY SMT DEF Sids
  <2> QED BY ONLY <2>1, Zenon DEF NoJob, Jobs
<1> HIDE DEF NoJob
<1>3. TypeOK
  BY <1>1, <1>2, Zenon DEF Init, TypeOK, Pcs
<1>4. Control
  BY <1>1, <1>2, Zenon DEF Init, Control, ControlOf, Checking, Reading
<1>5. Refs /\ Private /\ NewLabels
  <2>1. \A p \in Procs : pc[p] \in {"user", "none"} /\ dentries[p] = 0 /\ buffers[p] = 0
    BY Zenon DEF Init
  <2>2. Refs
    BY <2>1 DEF Refs, DentriesOf, BuffersOf, Asked, Reading, Count
  <2> QED BY <2>2, Zenon DEF Init, Private, NewLabels
<1>6. BlobsOwned
  BY <1>1, Zenon DEF Init, BlobsOwned, Live
<1>8. Subject
  BY Zenon DEF Init, Subject, Asked, Reading
<1>7. LabelFollowsExec
  <2>1. \A p \in Procs : pc[p] # "none" => security[task[p]] = NULL /\ ran[p] = FALSE
    BY <1>1, Zenon DEF Init
  <2> QED BY <2>1 DEF LabelFollowsExec, Sid, MP4_NO_ACCESS, MP4_TARGET_SID
<1> QED BY <1>3, <1>4, <1>5, <1>6, <1>7, <1>8, Zenon DEF Inv

(***************************************************************************)
(* Inv holds at every step of the hooks of mp4.c (36-259, 350-444) and of  *)
(* the kernel around them, for any number of processes, credentials,       *)
(* blocks and whichever allocation fails.                                  *)
(***************************************************************************)
THEOREM Invariance == Spec => []Inv
<1>1. Inv /\ [Next]_vars => Inv'
  <2> SUFFICES ASSUME Inv, [Next]_vars PROVE Inv'
    BY Zenon
  <2>1. LabelFollowsExec' /\ NewLabels'
    BY LabelStep, LabelForms, Zenon
  <2> QED BY <2>1, TypeStep, ControlStep, RefsStep, PrivateStep, OwnedStep,
            SubjectStep, Zenon DEF Inv
<1> QED BY InitInv, <1>1, PTL DEF Spec

(***************************************************************************)
(* Credentials, label blocks and the labels of mp4.c keep their types      *)
(* whichever hook runs and whichever allocation fails.                     *)
(***************************************************************************)
THEOREM TypesKept == Spec => []TypeOK
<1>1. Inv => TypeOK
  BY Zenon DEF Inv
<1> QED BY Invariance, <1>1, PTL

(***************************************************************************)
(* No block is shared, lost, freed twice or used after it was freed        *)
(* (mp4_cred_prepare, mp4_cred_alloc_blank, mp4_cred_free, mp4.c:115-193). *)
(***************************************************************************)
THEOREM BlocksAreOwned == Spec => []BlobsOwned
<1>1. Inv => BlobsOwned
  BY Zenon DEF Inv
<1> QED BY Invariance, <1>1, PTL

(***************************************************************************)
(* A process carries the target label exactly if its line has executed a   *)
(* target program (mp4_bprm_set_creds and mp4_cred_prepare, mp4.c:79-106,  *)
(* 164-193).                                                               *)
(***************************************************************************)
THEOREM LabelsFollow == Spec => []LabelFollowsExec
<1>1. Inv => LabelFollowsExec
  BY Zenon DEF Inv
<1> QED BY Invariance, <1>1, PTL

(***************************************************************************)
(* Outside the hooks no dentry reference and no buffer is held, whichever  *)
(* of the fourteen exits they were left by: each puts back what was taken  *)
(* on the way to it (mp4.c:39-69 and 353-443).                             *)
(***************************************************************************)
THEOREM ReferencesBalance == Spec => []RefsBalanced
<1>1. Inv => RefsBalanced
  BY DEF Inv, Refs, DentriesOf, BuffersOf, Count, Asked, Reading, RefsBalanced
<1> QED BY Invariance, <1>1, PTL

(***************************************************************************)
(* On a text other than "exec" nothing is granted beyond what the label    *)
(* means, and on a text other than "write-only" nothing less               *)
(* (mp4_has_permission, mp4.c:271-337).                                    *)
(***************************************************************************)
LEMMA DecisionFact ==
  ASSUME NEW ssid \in Sids, NEW text \in Texts, NEW dir \in BOOLEAN, NEW m \in Requests
  PROVE  /\ text # "exec" => (Granted(ssid, Cred_ctx_to_sid(text), dir, m)
                                => Documented(ssid = MP4_TARGET_SID, text, dir, m))
         /\ text # "write-only" => (Documented(ssid = MP4_TARGET_SID, text, dir, m)
                                => Granted(ssid, Cred_ctx_to_sid(text), dir, m))
<1>m. m # {} /\ m \subseteq Bits
  BY Zenon DEF Requests
<1> USE <1>m DEF Granted, Documented, Cred_ctx_to_sid, mp4_has_permission, MP4_NO_ACCESS,
    MP4_READ_OBJ, MP4_READ_WRITE, MP4_WRITE_OBJ, MP4_EXEC_OBJ, MP4_READ_DIR, MP4_RW_DIR,
    MP4_TARGET_SID
<1>1. CASE text = "none"
  BY <1>1
<1>2. CASE text = "foo"
  BY <1>2
<1>3. CASE text = "read-only"
  BY <1>3
<1>4. CASE text = "read-write"
  BY <1>4
<1>5. CASE text = "exec"
  BY <1>5, Zenon
<1>6. CASE text = "target"
  BY <1>6
<1>7. CASE text = "write-only"
  BY <1>7
<1>8. CASE text = "dir"
  BY <1>8 DEF Bits
<1>9. CASE text = "dir-write"
  BY <1>9, Zenon
<1> QED BY <1>1, <1>2, <1>3, <1>4, <1>5, <1>6, <1>7, <1>8, <1>9, Zenon DEF Texts

(***************************************************************************)
(* What is decided for a process is what the label means for its history,  *)
(* with the two exceptions.                                                *)
(***************************************************************************)
THEOREM DecidesRight == Spec => []DecidesAsDocumented
<1>1. Inv => DecidesAsDocumented
  <2> SUFFICES ASSUME Inv, NEW p \in Deciding, NEW text \in Texts, NEW dir \in BOOLEAN,
                      NEW m \in Requests
               PROVE  /\ text # "exec" => (Decision(p, text, dir, m)
                                             => Documented(ran[p], text, dir, m))
                      /\ text # "write-only" => (Documented(ran[p], text, dir, m)
                                                   => Decision(p, text, dir, m))
    BY Zenon DEF DecidesAsDocumented
  <2>1. p \in Procs /\ pc[p] = "decide"
    BY Zenon DEF Deciding
  <2>2. job[p].ssid \in Sids
    BY <2>1, Zenon DEF Inv, TypeOK, Jobs
  <2>3. ran[p] = (job[p].ssid = MP4_TARGET_SID)
    <3>1. (job[p].ssid = MP4_TARGET_SID <=> ran[p]) /\ ran[p] \in BOOLEAN
      BY <2>1, Zenon DEF Inv, TypeOK, Subject, Asked
    <3> QED BY <3>1, Zenon
  <2> QED BY <2>2, <2>3, DecisionFact, Zenon DEF Decision
<1> QED BY Invariance, <1>1, PTL
=============================================================================
