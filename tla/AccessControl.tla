---------------------------- MODULE AccessControl ----------------------------
(***************************************************************************)
(* The security module MP4/mp4.c: labels of processes, kept in a block of  *)
(* memory (struct mp4_security) that every credential points to; labels of *)
(* inodes, kept as text in an extended attribute; and the check of every   *)
(* access.                                                                 *)
(*                                                                         *)
(* Processes run on several processors and interleave; administrators      *)
(* relabel files at any time (test.perm).  Hooks sleep in kzalloc and in   *)
(* getxattr, and both may fail.  What the kernel does around the hooks     *)
(* (fork, exec, setuid, exit, put_cred after a grace period) is external.  *)
(***************************************************************************)
EXTENDS Naturals, FiniteSets

CONSTANTS Procs, Boot,      \* processes; the first one, whose label is NULL
          Creds, Blobs,     \* addresses of struct cred, struct mp4_security
          Inodes, Dirs, Skipped, Labels, \* files; what each may be labelled
          Masks,            \* the access masks that are requested
          NULL, POISON      \* POISON is (void *) 0x7UL

MP4_NO_ACCESS  == 0
MP4_READ_OBJ   == 1
MP4_READ_WRITE == 2
MP4_WRITE_OBJ  == 3
MP4_EXEC_OBJ   == 4
MP4_READ_DIR   == 5
MP4_RW_DIR     == 6
MP4_TARGET_SID == 7
Sids == 0..7

\* Texts of the attribute; "foo" stands for any other text, "none" for none.
Texts == {"none", "foo", "read-only", "read-write", "exec", "target", "write-only",
          "dir", "dir-write"}

ASSUME ACAssumption ==
  /\ Boot \in Procs /\ Dirs \subseteq Inodes /\ Skipped \subseteq Inodes
  /\ NULL \notin Procs \cup Creds \cup Blobs \cup Inodes \cup Sids
  /\ POISON \notin Blobs /\ POISON # NULL /\ Creds # {}
  /\ \A i \in Inodes : Labels[i] \subseteq Texts

Cred_ctx_to_sid(ctx) ==
  CASE ctx = "read-only"  -> MP4_READ_OBJ   [] ctx = "read-write" -> MP4_READ_WRITE
    [] ctx = "exec"       -> MP4_EXEC_OBJ   [] ctx = "target"     -> MP4_TARGET_SID
    [] ctx = "write-only" -> MP4_WRITE_OBJ  [] ctx = "dir"        -> MP4_READ_DIR
    [] ctx = "dir-write"  -> MP4_RW_DIR     [] OTHER              -> MP4_NO_ACCESS

\* The bits of a mask the module looks at; other bits ("OPEN") are dropped.
Bits == {"EXEC", "WRITE", "READ", "APPEND", "ACCESS"}

\* A read-write object is writable by everybody.
mp4_has_permission_open(ssid, osid, mask) ==
  \/ mask = {}
  \/ osid = MP4_NO_ACCESS /\ ssid # MP4_TARGET_SID
  \/ osid = MP4_READ_WRITE /\ mask \subseteq {"READ", "WRITE", "APPEND"}
  \/ osid = MP4_READ_OBJ /\ mask = {"READ"}
  \/ osid = MP4_EXEC_OBJ
  \/ osid = MP4_READ_DIR /\ mask \subseteq {"READ", "EXEC", "ACCESS"}
  \/ osid = MP4_RW_DIR

\* TRUE: access is granted (0).  For MP4_EXEC_OBJ the condition in the code
\* groups as (... == MAY_EXEC) | MAY_READ, which is never 0.
mp4_has_permission(ssid, osid, mask) ==
  \/ mask = {}
  \/ osid = MP4_NO_ACCESS /\ ssid # MP4_TARGET_SID
  \/ /\ osid = MP4_READ_WRITE
     /\ mask = {"READ"} \/ (mask \subseteq {"READ", "WRITE", "APPEND"} /\ ssid = MP4_TARGET_SID)
  \/ osid = MP4_READ_OBJ /\ mask = {"READ"}
  \/ osid = MP4_EXEC_OBJ
  \/ osid = MP4_READ_DIR /\ mask \subseteq {"READ", "EXEC", "ACCESS"}
  \/ osid = MP4_RW_DIR

VARIABLES
  task,          \* the credential of each process; NULL: no such process
  security,      \* cred->security
  blob,          \* mp4_flags of each block; NULL: not allocated
  dying,         \* credentials without users, to be freed
  pc, job,       \* what each process is doing, and its locals
  new,           \* the credential it is preparing
  dentries, buffers, \* references and buffers its hooks hold
  xattr,         \* the attribute of each inode
  ran            \* its line has executed a target program (history)

creds == <<task, security, blob, dying, new>>
held  == <<dentries, buffers>>
vars  == <<creds, pc, job, held, xattr, ran>>

\* op: what the kernel is doing for the process; i, m: the inode and the mask
\* in question; caller: the hook that calls get_inode_sid; cred_prepared: that
\* field of bprm; ssid, osid: the labels of the process and of the inode, as
\* read; hit (history): this exec has found a target program.
NoJob == [op |-> "none", i |-> NULL, m |-> {}, caller |-> "none",
          cred_prepared |-> FALSE, ssid |-> 0, osid |-> 0, hit |-> FALSE]

Init ==
  /\ \E c \in Creds :
       /\ task = [p \in Procs |-> IF p = Boot THEN c ELSE NULL]
       /\ security = [x \in Creds |-> NULL]
  /\ blob = [b \in Blobs |-> NULL] /\ dying = {}
  /\ pc = [p \in Procs |-> IF p = Boot THEN "user" ELSE "none"]
  /\ job = [p \in Procs |-> NoJob] /\ new = [p \in Procs |-> NULL]
  /\ dentries = [p \in Procs |-> 0] /\ buffers = [p \in Procs |-> 0]
  /\ xattr \in [Inodes -> Texts] /\ \A i \in Inodes : xattr[i] \in Labels[i]
  /\ ran = [p \in Procs |-> FALSE]

Goto(p, l) == pc' = [pc EXCEPT ![p] = l]
InUse(c)   == \E p \in Procs : task[p] = c \/ new[p] = c
Live(c)    == InUse(c) \/ c \in dying
\* put_cred by p of its own credential: freed when no other process uses it
Put(p) == dying' = IF \E q \in Procs \ {p} : task[q] = task[p]
                   THEN dying ELSE dying \cup {task[p]}
Sid(p) == IF security[task[p]] = NULL THEN MP4_NO_ACCESS ELSE blob[security[task[p]]]
-----------------------------------------------------------------------------
(***************************************************************************)
(* Credentials: the hooks cred_prepare, cred_alloc_blank and cred_free.    *)
(* The kernel gives a new credential security = NULL before the hook.      *)
(***************************************************************************)
\* mp4_cred_prepare hands the parent's block to the child.
mp4_cred_prepare_shares(c, old) ==
  \/ /\ security[old] # NULL
     /\ security' = [security EXCEPT ![c] = security[old]] /\ UNCHANGED blob
  \/ /\ security[old] = NULL
     /\ \E b \in Blobs : /\ blob[b] = NULL
                         /\ blob' = [blob EXCEPT ![b] = MP4_NO_ACCESS]
                         /\ security' = [security EXCEPT ![c] = b]

\* A copied credential begins without a label, like a blank one.
mp4_cred_prepare_forgets(c, old) ==
  \E b \in Blobs :
    /\ blob[b] = NULL
    /\ blob' = [blob EXCEPT ![b] = MP4_NO_ACCESS]
    /\ security' = [security EXCEPT ![c] = b]

\* mp4_cred_prepare when its allocation succeeds
mp4_cred_prepare(c, old) ==
  \E b \in Blobs :
    /\ blob[b] = NULL
    /\ blob' = [blob EXCEPT ![b] = IF security[old] = NULL THEN MP4_NO_ACCESS
                                   ELSE blob[security[old]]]
    /\ security' = [security EXCEPT ![c] = b]

\* mp4_cred_alloc_blank when its allocation succeeds
mp4_cred_alloc_blank(c) ==
  \E b \in Blobs :
    /\ blob[b] = NULL
    /\ blob' = [blob EXCEPT ![b] = MP4_NO_ACCESS]
    /\ security' = [security EXCEPT ![c] = b]

\* Either hook returns -ENOMEM: the kernel gives the credential up at once.
NoMemory(c) == /\ security' = [security EXCEPT ![c] = NULL]
               /\ dying' = dying \cup {c} /\ UNCHANGED blob

\* fork, execve and setuid begin with a copy of the credential; KEYCTL
\* operations ask for a blank one.
prepare_creds(p) ==
  /\ pc[p] = "user"
  /\ \E c \in Creds, op \in {"fork", "exec", "setuid", "blank"} :
       /\ ~InUse(c) /\ c \notin dying
       /\ \/ /\ IF op = "blank" THEN mp4_cred_alloc_blank(c)
                                ELSE mp4_cred_prepare(c, task[p])
             /\ new' = [new EXCEPT ![p] = c] /\ Goto(p, "prepared")
             /\ job' = [job EXCEPT ![p] = [NoJob EXCEPT !.op = op]]
             /\ UNCHANGED dying
          \/ NoMemory(c) /\ UNCHANGED <<new, pc, job>>
  /\ UNCHANGED <<task, held, xattr, ran>>

\* the kernel drops a prepared credential: a later step failed, or it was only
\* needed for a while
abort_creds(p) ==
  /\ pc[p] \in {"prepared", "loaded", "failed"}
  /\ dying' = dying \cup {new[p]} /\ new' = [new EXCEPT ![p] = NULL]
  /\ Goto(p, "user") /\ job' = [job EXCEPT ![p] = NoJob]
  /\ UNCHANGED <<task, security, blob, held, xattr, ran>>

fork(p, q) ==
  /\ pc[p] = "prepared" /\ job[p].op = "fork" /\ pc[q] = "none"
  /\ task' = [task EXCEPT ![q] = new[p]] /\ new' = [new EXCEPT ![p] = NULL]
  /\ pc' = [pc EXCEPT ![p] = "user", ![q] = "user"]
  /\ job' = [job EXCEPT ![p] = NoJob] /\ ran' = [ran EXCEPT ![q] = ran[p]]
  /\ UNCHANGED <<security, blob, dying, held, xattr>>

\* clone(CLONE_THREAD): the new thread uses the same credential
clone_thread(p, q) ==
  /\ pc[p] = "user" /\ pc[q] = "none"
  /\ task' = [task EXCEPT ![q] = task[p]]
  /\ pc' = [pc EXCEPT ![q] = "user"] /\ ran' = [ran EXCEPT ![q] = ran[p]]
  /\ UNCHANGED <<security, blob, dying, new, job, held, xattr>>

\* commit_creds, at the end of an exec or of setuid
commit_creds(p) ==
  /\ pc[p] = "loaded" \/ (pc[p] = "prepared" /\ job[p].op = "setuid")
  /\ Put(p) /\ task' = [task EXCEPT ![p] = new[p]] /\ new' = [new EXCEPT ![p] = NULL]
  /\ ran' = [ran EXCEPT ![p] = @ \/ job[p].hit]
  /\ Goto(p, "user") /\ job' = [job EXCEPT ![p] = NoJob]
  /\ UNCHANGED <<security, blob, held, xattr>>

exit(p) ==
  /\ pc[p] = "user"
  /\ Put(p) /\ task' = [task EXCEPT ![p] = NULL] /\ Goto(p, "none")
  /\ ran' = [ran EXCEPT ![p] = FALSE]
  /\ UNCHANGED <<security, blob, new, job, held, xattr>>

\* mp4_cred_free, after the grace period; BUG_ON stops it at a poisoned one
mp4_cred_free(c) ==
  /\ c \in dying /\ security[c] # POISON /\ dying' = dying \ {c}
  /\ IF security[c] = NULL THEN UNCHANGED <<security, blob>>
     ELSE /\ security' = [security EXCEPT ![c] = POISON]
          /\ blob' = [blob EXCEPT ![security[c]] = NULL]
  /\ UNCHANGED <<task, new, pc, job, held, xattr, ran>>
-----------------------------------------------------------------------------
(***************************************************************************)
(* Access: mp4_inode_permission, called for open and for the program of    *)
(* an exec, with get_inode_sid, where it sleeps.                           *)
(***************************************************************************)
open(p, i, m) ==
  /\ pc[p] = "user" /\ Goto(p, "permission")
  /\ job' = [job EXCEPT ![p] = [NoJob EXCEPT !.op = "open", !.i = i, !.m = m]]
  /\ UNCHANGED <<creds, held, xattr, ran>>

\* execve opens the program (a regular file) or, for a script, its interpreter
open_exec(p, i) ==
  /\ i \notin Dirs /\ (pc[p] = "loaded" \/ (pc[p] = "prepared" /\ job[p].op = "exec"))
  /\ Goto(p, "permission")
  /\ job' = [job EXCEPT ![p].i = i, ![p].m = {"EXEC"}]
  /\ UNCHANGED <<creds, held, xattr, ran>>

Return(p, granted) ==
  IF job[p].op = "open"
  THEN Goto(p, "user") /\ job' = [job EXCEPT ![p] = NoJob]
  ELSE Goto(p, IF granted THEN "set_creds" ELSE "failed") /\ UNCHANGED job

\* The path of the inode begins with one of a list of prefixes.
mp4_should_skip_path(i) == i \in Skipped

dget(p)    == dentries' = [dentries EXCEPT ![p] = @ + 1]
dput(p)    == dentries' = [dentries EXCEPT ![p] = @ - 1]
kzalloc(p) == buffers' = [buffers EXCEPT ![p] = @ + 1]
kfree(p)   == buffers' = [buffers EXCEPT ![p] = @ - 1]

\* mp4_inode_permission up to d_find_alias, which may find none
mp4_inode_permission(p) ==
  /\ pc[p] = "permission"
  /\ \/ Return(p, FALSE) /\ UNCHANGED held
     \/ dget(p) /\ Goto(p, "alias") /\ UNCHANGED <<job, buffers>>
  /\ UNCHANGED <<creds, xattr, ran>>

\* up to the allocation of path_buff, which may fail: the dentry goes back
check_mask(p) ==
  LET m == job[p].m \cap Bits
  IN  /\ pc[p] = "alias"
      /\ \/ (task[p] = NULL \/ m # {}) /\ dput(p) /\ UNCHANGED buffers /\ Return(p, FALSE)
         \/ m = {} /\ dput(p) /\ UNCHANGED buffers /\ Return(p, TRUE)
         \/ m # {} /\ kzalloc(p) /\ Goto(p, "path") /\ UNCHANGED <<job, dentries>>
      /\ UNCHANGED <<creds, xattr, ran>>

\* The exit for a path that is not checked forgets the buffer.
check_path_leaks(p) ==
  LET skip == mp4_should_skip_path(job[p].i)
      sec == security[task[p]]
  IN  /\ pc[p] = "path"
      /\ \/ dput(p) /\ kfree(p) /\ Return(p, FALSE)
         \/ skip /\ dput(p) /\ UNCHANGED buffers /\ Return(p, TRUE)
         \/ ~skip /\ sec = NULL /\ dput(p) /\ kfree(p) /\ Return(p, FALSE)
         \/ /\ ~skip /\ sec # NULL /\ Goto(p, "get_inode_sid") /\ UNCHANGED held
            /\ job' = [job EXCEPT ![p].caller = "permission", ![p].ssid = Sid(p)]
      /\ UNCHANGED <<creds, xattr, ran>>

\* up to the call of get_inode_sid; each exit, the first one for a dentry
\* without a path, gives back the dentry and the buffer
check_path(p) ==
  LET skip == mp4_should_skip_path(job[p].i)
      sec == security[task[p]]
  IN  /\ pc[p] = "path"
      /\ \/ dput(p) /\ kfree(p) /\ Return(p, FALSE)
         \/ skip /\ dput(p) /\ kfree(p) /\ Return(p, TRUE)
         \/ ~skip /\ sec = NULL /\ dput(p) /\ kfree(p) /\ Return(p, FALSE)
         \/ /\ ~skip /\ sec # NULL /\ Goto(p, "get_inode_sid") /\ UNCHANGED held
            /\ job' = [job EXCEPT ![p].caller = "permission", ![p].ssid = Sid(p)]
      /\ UNCHANGED <<creds, xattr, ran>>

\* The program's label is put on the credential in use.
Found_current(p, text) ==
  LET sid == Cred_ctx_to_sid(text)
  IN  \/ /\ job[p].caller = "permission" /\ Goto(p, "decide")
         /\ job' = [job EXCEPT ![p].osid = sid] /\ UNCHANGED blob
      \/ /\ job[p].caller = "set_creds" /\ Goto(p, "loaded")
         /\ blob' = IF sid = MP4_TARGET_SID /\ security[task[p]] # NULL
                    THEN [blob EXCEPT ![security[task[p]]] = sid] ELSE blob
         /\ job' = [job EXCEPT ![p].cred_prepared = TRUE, ![p].hit = (text = "target")]

\* get_inode_sid converts the text and returns to its caller:
\* mp4_inode_permission goes on to decide; mp4_bprm_set_creds marks the new
\* credential, and the kernel sets cred_prepared when it returns
Found(p, text) ==
  LET sid == Cred_ctx_to_sid(text)
  IN  \/ /\ job[p].caller = "permission" /\ Goto(p, "decide")
         /\ job' = [job EXCEPT ![p].osid = sid] /\ UNCHANGED blob
      \/ /\ job[p].caller = "set_creds" /\ Goto(p, "loaded")
         /\ blob' = IF sid = MP4_TARGET_SID
                    THEN [blob EXCEPT ![security[new[p]]] = sid] ELSE blob
         /\ job' = [job EXCEPT ![p].cred_prepared = TRUE, ![p].hit = (text = "target")]

\* get_inode_sid up to d_find_alias: without xattr support or alias, as at
\* each of its later exits, the label counts as MP4_NO_ACCESS
get_inode_sid(p) ==
  /\ pc[p] = "get_inode_sid"
  /\ \/ Found(p, "none") /\ UNCHANGED held
     \/ dget(p) /\ Goto(p, "ctx") /\ UNCHANGED <<blob, job, buffers>>
  /\ UNCHANGED <<task, security, dying, new, xattr, ran>>

\* the allocation of ctx, which may fail
alloc_ctx(p) ==
  /\ pc[p] = "ctx"
  /\ \/ dput(p) /\ UNCHANGED buffers /\ Found(p, "none")
     \/ kzalloc(p) /\ Goto(p, "getxattr") /\ UNCHANGED <<blob, job, dentries>>
  /\ UNCHANGED <<task, security, dying, new, xattr, ran>>

\* There is no attribute or reading it fails; or its text is converted.
getxattr(p) ==
  /\ pc[p] = "getxattr"
  /\ \/ kfree(p) /\ dput(p) /\ Found(p, "none")
     \/ xattr[job[p].i] # "none" /\ dput(p) /\ kfree(p) /\ Found(p, xattr[job[p].i])
  /\ UNCHANGED <<task, security, dying, new, xattr, ran>>

\* the end of mp4_inode_permission
Granted(ssid, osid, dir, m) ==
  IF ssid = MP4_TARGET_SID THEN mp4_has_permission(ssid, osid, m)
  ELSE dir \/ mp4_has_permission(ssid, osid, m)

\* The common exit puts the dentry once more.
decide_puts_twice(p) ==
  /\ pc[p] = "decide"
  /\ dentries' = [dentries EXCEPT ![p] = @ - 2] /\ buffers' = [buffers EXCEPT ![p] = @ - 1]
  /\ Return(p, Granted(job[p].ssid, job[p].osid, job[p].i \in Dirs, job[p].m \cap Bits))
  /\ UNCHANGED <<creds, xattr, ran>>

decide(p) ==
  /\ pc[p] = "decide" /\ dput(p) /\ kfree(p)
  /\ Return(p, Granted(job[p].ssid, job[p].osid, job[p].i \in Dirs, job[p].m \cap Bits))
  /\ UNCHANGED <<creds, xattr, ran>>

\* mp4_bprm_set_creds: without a block it fails; for an interpreter the
\* credential is prepared already
mp4_bprm_set_creds(p) ==
  /\ pc[p] = "set_creds"
  /\ IF security[new[p]] = NULL THEN Goto(p, "failed") /\ UNCHANGED job
     ELSE IF job[p].cred_prepared THEN Goto(p, "loaded") /\ UNCHANGED job
     ELSE Goto(p, "get_inode_sid") /\ job' = [job EXCEPT ![p].caller = "set_creds"]
  /\ UNCHANGED <<creds, held, xattr, ran>>
-----------------------------------------------------------------------------
(***************************************************************************)
(* Files: creation with the hook inode_init_security, and setfattr.        *)
(***************************************************************************)
\* The hook fills in a value for a target process, and returns -EOPNOTSUPP.
mp4_inode_init_security(ssid, dir) ==
  [ret   |-> "-EOPNOTSUPP",
   value |-> IF ssid # MP4_TARGET_SID THEN "none" ELSE IF dir THEN "dir-write" ELSE "read-write"]

\* unlink and create: the file is another one afterwards.  The kernel attaches
\* the value only when the hook returns 0.
create(p, i) ==
  /\ pc[p] = "user"
  /\ LET r == mp4_inode_init_security(Sid(p), i \in Dirs)
     IN  xattr' = [xattr EXCEPT ![i] = IF r.ret = "0" THEN r.value ELSE "none"]
  /\ UNCHANGED <<creds, pc, job, held, ran>>

setfattr(i) ==
  /\ \E text \in Labels[i] : xattr' = [xattr EXCEPT ![i] = text]
  /\ UNCHANGED <<creds, pc, job, held, ran>>
-----------------------------------------------------------------------------
Process(p) ==
  \/ prepare_creds(p) \/ abort_creds(p) \/ commit_creds(p) \/ exit(p)
  \/ \E q \in Procs : fork(p, q) \/ clone_thread(p, q)
  \/ \E i \in Inodes : (\E m \in Masks : open(p, i, m)) \/ open_exec(p, i) \/ create(p, i)
  \/ mp4_inode_permission(p) \/ check_mask(p) \/ check_path(p) \/ decide(p)
  \/ get_inode_sid(p) \/ alloc_ctx(p) \/ getxattr(p)
  \/ mp4_bprm_set_creds(p)

Next == \/ \E p \in Procs : Process(p)
        \/ \E c \in Creds : mp4_cred_free(c)
        \/ \E i \in Inodes : setfattr(i)

Spec == Init /\ [][Next]_vars
-----------------------------------------------------------------------------
Pcs == {"none", "user", "prepared", "permission", "alias", "path", "get_inode_sid",
        "ctx", "getxattr", "decide", "set_creds", "loaded", "failed"}
Jobs == [op : {"none", "open", "fork", "exec", "setuid", "blank"},
         i : Inodes \cup {NULL}, m : Masks \cup {{}, {"EXEC"}},
         caller : {"none", "permission", "set_creds"}, cred_prepared : BOOLEAN,
         ssid : Sids, osid : Sids, hit : BOOLEAN]

\* Every variable keeps its type: credentials, blocks, files and the locals of
\* the hooks of mp4.c.
TypeOK ==
  /\ task \in [Procs -> Creds \cup {NULL}] /\ new \in [Procs -> Creds \cup {NULL}]
  /\ security \in [Creds -> Blobs \cup {NULL, POISON}] /\ dying \subseteq Creds
  /\ blob \in [Blobs -> Sids \cup {NULL}]
  /\ pc \in [Procs -> Pcs] /\ job \in [Procs -> Jobs]
  /\ dentries \in [Procs -> Nat] /\ buffers \in [Procs -> Nat]
  /\ xattr \in [Inodes -> Texts]
  /\ ran \in [Procs -> BOOLEAN]

\* A credential that is used or waits to be freed has a block of its own, or
\* none; the block is allocated; and every allocated block belongs to such a
\* credential.  So no hook touches a freed block, none is freed twice (the
\* BUG_ON at mp4.c:148 never fires) and none is lost, whichever allocation
\* fails (mp4_cred_prepare, mp4_cred_alloc_blank, mp4_cred_free).
BlobsOwned ==
  /\ \A c \in Creds : Live(c) => /\ security[c] # POISON
                                 /\ security[c] # NULL => blob[security[c]] # NULL
  /\ \A c, d \in Creds : Live(c) /\ Live(d) /\ security[c] # NULL /\ security[c] = security[d]
                           => c = d
  /\ \A b \in Blobs : blob[b] # NULL => \E c \in Creds : Live(c) /\ security[c] = b
  /\ \A c \in dying : ~InUse(c)

\* A process carries the target label exactly if it, or an ancestor before it
\* forked, has executed a program that was labelled as target when
\* mp4_bprm_set_creds read its label.  Execs that fail later, execs of other
\* programs, interpreters, threads and setuid change nothing (mp4.c:79-106,
\* 164-193).
LabelFollowsExec == \A p \in Procs : pc[p] # "none" => (Sid(p) = MP4_TARGET_SID <=> ran[p])

\* Outside the hooks a process holds no dentry reference and no buffer: every
\* exit of mp4_inode_permission and of get_inode_sid gives back what was taken
\* on the way to it, and no more
\* ("you MUST always put a dentry structure back", mp4.pdf).
RefsBalanced ==
  \A p \in Procs :
    pc[p] \notin {"alias", "path", "get_inode_sid", "ctx", "getxattr", "decide"}
      => dentries[p] = 0 /\ buffers[p] = 0

(***************************************************************************)
(* The inductive invariant on which the proofs rest.                       *)
(***************************************************************************)
\* What a process is doing agrees with its credentials and its locals.
Reading  == {"get_inode_sid", "ctx", "getxattr"}
Checking == {"permission", "alias", "path", "decide"} \cup Reading
ControlOf(p) ==
  /\ pc[p] = "none" <=> task[p] = NULL
  /\ new[p] # NULL <=> \/ pc[p] \in {"prepared", "set_creds", "loaded", "failed"}
                       \/ pc[p] \in Checking /\ job[p].op = "exec"
  /\ pc[p] \in Checking => job[p].op \in {"open", "exec"}
  /\ pc[p] \in Checking \cup {"set_creds"} => job[p].i \in Inodes
  /\ pc[p] \in {"set_creds", "loaded", "failed"} => job[p].op = "exec"
  /\ pc[p] \in Reading =>
       \/ job[p].caller = "permission"
       \/ job[p].caller = "set_creds" /\ job[p].op = "exec" /\ ~job[p].cred_prepared
  /\ pc[p] = "decide" => job[p].caller = "permission"
  /\ job[p].hit => job[p].op = "exec" /\ job[p].cred_prepared
  /\ pc[p] = "prepared" => ~job[p].cred_prepared
Control == \A p \in Procs : ControlOf(p)

\* The references and buffers a process holds, by how far its hooks have got:
\* mp4_inode_permission may have called get_inode_sid, which takes its own.
Asked(p) == pc[p] = "decide" \/ (pc[p] \in Reading /\ job[p].caller = "permission")
Count(holds) == IF holds THEN 1 ELSE 0
DentriesOf(p) == Count(pc[p] \in {"alias", "path"} \/ Asked(p)) + Count(pc[p] \in {"ctx", "getxattr"})
BuffersOf(p)  == Count(pc[p] = "path" \/ Asked(p)) + Count(pc[p] = "getxattr")
Refs == \A p \in Procs : dentries[p] = DentriesOf(p) /\ buffers[p] = BuffersOf(p)

\* Nobody else uses a credential that is being prepared, and its block holds
\* the label the process will have with it.
Private == \A p, q \in Procs : new[p] # NULL => new[p] # task[q] /\ (new[p] = new[q] => p = q)
NewLabels ==
  \A p \in Procs : new[p] # NULL =>
    /\ security[new[p]] \in Blobs
    /\ job[p].op # "blank" =>
         (blob[security[new[p]]] = MP4_TARGET_SID <=> ran[p] \/ job[p].hit)

\* The label that mp4_inode_permission has read of the process is still right
\* when get_inode_sid, where it may sleep, has returned.
Subject ==
  \A p \in Procs : Asked(p) => (job[p].ssid = MP4_TARGET_SID <=> ran[p])

\* All of it together: what the hooks of mp4.c and the kernel around them
\* leave true of credentials, blocks, labels and references at every step.
Inv == /\ TypeOK /\ Control /\ Refs /\ Private /\ BlobsOwned /\ NewLabels
       /\ LabelFollowsExec /\ Subject

(***************************************************************************)
(* The semantics of the labels, as mp4_given.h:11-27 defines them: which   *)
(* masks a subject may be granted on a file or directory that carries the  *)
(* text.  Directories are checked for the target only.                     *)
(***************************************************************************)
Documented(target, text, dir, m) ==
  IF dir /\ ~target THEN TRUE
  ELSE CASE text \in {"none", "foo"} -> ~target
         [] text = "read-only"       -> m \subseteq {"READ"}
         [] text = "read-write"      -> m \subseteq IF target THEN {"READ", "WRITE", "APPEND"}
                                                    ELSE {"READ"}
         [] text = "write-only"      -> m \subseteq IF target THEN {"WRITE", "APPEND"} ELSE {"READ"}
         [] text = "exec"            -> m \subseteq {"READ", "EXEC"}
         [] text = "dir"             -> m \subseteq {"READ", "EXEC", "ACCESS"}
         [] text = "dir-write"       -> TRUE
         [] OTHER                    -> FALSE

Requests == (SUBSET Bits) \ {{}}
Decision(p, text, dir, m) == Granted(job[p].ssid, Cred_ctx_to_sid(text), dir, m)
Deciding == {p \in Procs : pc[p] = "decide"}

\* What mp4_inode_permission decides for a process is what the label of the
\* object means for the history of that process, whatever the mask, the label
\* and the kind of object; except that more than documented may be granted on
\* "exec", and less on "write-only" (mp4.c:303, 332).
DecidesAsDocumented ==
  \A p \in Deciding, text \in Texts, dir \in BOOLEAN, m \in Requests :
    LET doc == Documented(ran[p], text, dir, m)
    IN  /\ text # "exec" => (Decision(p, text, dir, m) => doc)
        /\ text # "write-only" => (doc => Decision(p, text, dir, m))
=============================================================================
