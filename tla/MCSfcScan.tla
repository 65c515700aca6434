----------------------------- MODULE MCSfcScan -----------------------------
(***************************************************************************)
(* Instances of SfcScan for TLC: a chart with a choice by priority and two *)
(* simultaneous branches, and an action for each qualifier.                *)
(***************************************************************************)
EXTENDS SfcScan, TLC

CONSTANTS start, left, right, halt,               \* steps
          pulse, falling, limited, delayed, \* actions
          storedDelayed, stored

On(s, q, d) == [step |-> s, qualifier |-> q, duration |-> d]
Go(f, t, p) == [from |-> f, to |-> t, priority |-> p]

MCStep    == {start, left, right, halt}
MCInitial == {start}

\* start forks into left and right, which join again; halt has the priority.
MCTransition ==
  <<Go({start}, {left, right}, 5), Go({left, right}, {start}, 5),
    Go({start}, {halt}, 1), Go({halt}, {start}, 5)>>

MCAction == <<pulse, falling, limited, delayed, storedDelayed, stored>>

MCAssociation ==
  (pulse :> <<On(left, "P", 0)>>) @@ (falling :> <<On(left, "P0", 0)>>)
    @@ (limited :> <<On(left, "L", 2)>>) @@ (delayed :> <<On(right, "D", 2)>>)
    @@ (storedDelayed :> <<On(left, "SD", 2)>>)
    @@ (stored :> <<On(start, "N", 0), On(left, "S", 0), On(halt, "R", 0),
                    On(right, "R", 0)>>)

None == {}
AllReturn == {pulse, stored}
=============================================================================
