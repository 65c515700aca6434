---------------------------- MODULE MCSfcParity ----------------------------
(***************************************************************************)
(* Instances of SfcParity for TLC: a chart with a choice by priority and   *)
(* two simultaneous branches, its associations chosen by the run.          *)
(***************************************************************************)
EXTENDS SfcParity, TLC

CONSTANTS start, left, right, stop,   \* steps
          act, other, third           \* actions

On(s, q, d) == [step |-> s, qualifier |-> q, duration |-> d]
Go(f, t, p) == [from |-> f, to |-> t, priority |-> p]

MCStep    == {start, left, right, stop}
MCInitial == {start}
MCAction  == <<act, other, third>>

MCTransition ==
  <<Go({start}, {left, right}, 5), Go({left, right}, {start}, 5),
    Go({start}, {stop}, 1), Go({stop}, {start}, 5)>>

\* Timers, edges and stored state together, on one action.
MixedAssociation ==
  (act :> <<On(start, "P", 0), On(left, "SD", 2), On(stop, "R", 0)>>)
    @@ (other :> <<On(start, "L", 1), On(left, "D", 2), On(right, "P0", 0)>>)
    @@ (third :> <<On(start, "R", 0), On(left, "DS", 1), On(right, "S", 0),
                   On(stop, "N", 0)>>)

\* One stored and limited action on two steps.
SharedAssociation ==
  (act :> <<On(start, "SL", 1), On(stop, "SL", 1)>>) @@ (other :> << >>) @@ (third :> << >>)

PlainAssociation ==
  (act :> <<On(start, "N", 0)>>) @@ (other :> <<On(start, "N", 0)>>) @@ (third :> << >>)

NoReturn   == {}
SomeReturn == {act}
=============================================================================
