---------------------------- MODULE RateMonotonic ----------------------------
(***************************************************************************)
(* What the scheduler of MP2 promises its applications, without lists,     *)
(* locks, timers or threads.  Tasks join and leave; a task has a job to    *)
(* run from its release until it yields; a process that has yielded is     *)
(* blocked until the scheduler chooses its task; and the scheduler chooses *)
(* a task only if no process that could run has a shorter period.          *)
(***************************************************************************)
EXTENDS Naturals

CONSTANTS Tasks, Period, None

VARIABLES member,    \* the registered tasks
          released,  \* those with a job to run
          blocked,   \* those whose process waits in its yield
          chosen     \* the task the scheduler has given the processor to

vars == <<member, released, blocked, chosen>>

Init == member = {} /\ released = {} /\ blocked = {} /\ chosen = None

Join(p) == /\ p \notin member
           /\ member' = member \cup {p} /\ UNCHANGED <<released, blocked, chosen>>

Release(p) == /\ p \in member \ released
              /\ released' = released \cup {p} /\ UNCHANGED <<member, blocked, chosen>>

Choose(p) == /\ p \in released /\ p # chosen
             /\ \A q \in released \ blocked : Period[p] <= Period[q]
             /\ chosen' = p /\ blocked' = blocked \ {p} /\ UNCHANGED <<member, released>>

Forget(p) == chosen' = IF chosen = p THEN None ELSE chosen

Yield(p) == /\ p \in released \ blocked /\ Forget(p)
            /\ released' = released \ {p} /\ blocked' = blocked \cup {p} /\ UNCHANGED member

Leave(p) == /\ p \in member \ blocked /\ Forget(p)
            /\ member' = member \ {p} /\ released' = released \ {p} /\ UNCHANGED blocked

Stop == /\ blocked = {}
        /\ member' = {} /\ released' = {} /\ chosen' = None /\ UNCHANGED blocked

Next == Stop \/ \E p \in Tasks : Join(p) \/ Release(p) \/ Choose(p) \/ Yield(p) \/ Leave(p)

Spec == Init /\ [][Next]_vars
=============================================================================
