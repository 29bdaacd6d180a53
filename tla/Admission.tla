------------------------------ MODULE Admission ------------------------------
(***************************************************************************)
(* The utilisation arithmetic of admission_control() in MP2/mp2.c.         *)
(*                                                                         *)
(* The module keeps the total utilisation of the admitted tasks, the sum   *)
(* of C/P, as one fraction numerator/denominator of two unsigned longs     *)
(* that is never reduced.  period and computation are unsigned ints.  The  *)
(* two word sizes are the constants ULONG (2^64 on the target) and UINT    *)
(* (2^32); TLC uses smaller powers of two, the proofs arbitrary ones.      *)
(***************************************************************************)
EXTENDS Integers, Functions

CONSTANTS UINT, ULONG

ASSUME WidthAssumption == UINT \in Nat \ {0} /\ ULONG \in Nat \ {0}

UInt(x)  == x % UINT
ULong(x) == x % ULONG

(***************************************************************************)
(* The two products of the 64-bit branches.                                *)
(***************************************************************************)
Scaled(n, P) == ULong(n * P)                 \* numerator * period
Share(d, C)  == ULong(C * d)                 \* computation * denominator
CurrDen(d, P) == ULong(d * P)
CurrN(n, d, P, C) == ULong(Scaled(n, P) + Share(d, C))

(***************************************************************************)
(* flag == 0: the request fits iff the sum, the newcomer included, is at   *)
(* most 693/1000.  An empty fraction is compared in unsigned int.          *)
(***************************************************************************)
Fits(n, d, P, C) ==
  IF n = 0 THEN UInt(C * 1000) <= UInt(693 * P)
           ELSE ULong(CurrN(n, d, P, C) * 1000) <= ULong(693 * CurrDen(d, P))

AdmitN(n, d, P, C) == IF n = 0 THEN C ELSE CurrN(n, d, P, C)
AdmitD(n, d, P, C) == IF n = 0 THEN P ELSE CurrDen(d, P)

(***************************************************************************)
(* flag == 1: subtract C/P, or reset the numerator when nothing would be   *)
(* left of it (the denominator then keeps its value).                      *)
(***************************************************************************)
\* The operands of the subtraction are swapped.
ReleaseN_swapped(n, d, P, C) ==
  IF Scaled(n, P) <= Share(d, C) THEN 0 ELSE Share(d, C) - Scaled(n, P)

ReleaseN(n, d, P, C) ==
  IF Scaled(n, P) <= Share(d, C) THEN 0 ELSE Scaled(n, P) - Share(d, C)
ReleaseD(n, d, P, C) ==
  IF Scaled(n, P) <= Share(d, C) THEN d ELSE CurrDen(d, P)

(***************************************************************************)
(* The function itself: its result and the fraction it leaves behind.      *)
(* ret = 0 means admitted.                                                 *)
(***************************************************************************)
\* A newcomer replaces the fraction instead of being added to it.
admission_control_forgets(n, d, P, C, flag) ==
  IF flag = 1 THEN [ret |-> 1, n |-> ReleaseN(n, d, P, C), d |-> ReleaseD(n, d, P, C)]
  ELSE IF Fits(n, d, P, C) THEN [ret |-> 0, n |-> C, d |-> P]
  ELSE [ret |-> 1, n |-> n, d |-> d]
\* The fraction is updated although the request is turned down.
admission_control_eager(n, d, P, C, flag) ==
  IF flag = 1 THEN [ret |-> 1, n |-> ReleaseN(n, d, P, C), d |-> ReleaseD(n, d, P, C)]
  ELSE [ret |-> IF Fits(n, d, P, C) THEN 0 ELSE 1,
        n |-> AdmitN(n, d, P, C), d |-> AdmitD(n, d, P, C)]

admission_control(n, d, P, C, flag) ==
  IF flag = 1 THEN [ret |-> 1, n |-> ReleaseN(n, d, P, C), d |-> ReleaseD(n, d, P, C)]
  ELSE IF Fits(n, d, P, C)
       THEN [ret |-> 0, n |-> AdmitN(n, d, P, C), d |-> AdmitD(n, d, P, C)]
       ELSE [ret |-> 1, n |-> n, d |-> d]

(***************************************************************************)
(* InRange: no product of one call with these arguments wraps.             *)
(***************************************************************************)
InRange(n, d, P, C) ==
  /\ 1000 * C < UINT /\ 693 * P < UINT
  /\ 1000 * (n * P + C * d) < ULONG
  /\ 693 * (d * P) < ULONG

(***************************************************************************)
(* The reference: the exact sum of C[p]/P[p] over the tasks p of S is      *)
(* Sum(P, C, S) / Prod(P, S).                                              *)
(***************************************************************************)
Prod(P, S)   == FoldFunctionOnSet(LAMBDA x, y : x * y, 1, P, S)
Sum(P, C, S) == SumFunctionOnSet([p \in S |-> C[p] * Prod(P, S \ {p})], S)
=============================================================================
