----------------------------- MODULE MCScheduler -----------------------------
(***************************************************************************)
(* Small instances of RMScheduler.  Periods are multiples of the 10 ms     *)
(* that one tick of USER_HZ lasts; light and heavy task sets lie on the    *)
(* two sides of the admission bound.                                       *)
(***************************************************************************)
EXTENDS RMRefinement, TLC

CONSTANTS a, b, c

Word16 == 2^16
Word30 == 2^30

PeriodAB == a :> 20 @@ b :> 30
LightAB  == a :> 5  @@ b :> 9
Jobs22   == a :> 2  @@ b :> 2

PeriodABC == a :> 10 @@ b :> 20 @@ c :> 20
LoadABC   == a :> 2  @@ b :> 6  @@ c :> 5
Jobs322   == a :> 3  @@ b :> 2  @@ c :> 2
=============================================================================
