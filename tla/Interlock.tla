------------------------------ MODULE Interlock ------------------------------
(***************************************************************************)
(* What a safety gate promises, with neither scan cycles nor watchdogs in  *)
(* sight: the outputs in the field move only while the interlock is        *)
(* enabled, a trip may happen at any time and never needs a reason, and    *)
(* nothing but an acknowledgement by the operator, while no stop is        *)
(* requested, or a power-up leaves it.                                     *)
(***************************************************************************)
CONSTANTS
  RequireOperatorEnable,   \* the enable input must be held
  Output,                  \* the gated outputs
  Signal                   \* the values an output can have

VARIABLES
  panel,   \* the operator's inputs
  mode,    \* "disabled", "enabled" or "tripped"
  field    \* the outputs as the field sees them

ivars == <<panel, mode, field>>

Panel ==
  [emergency_stop  : BOOLEAN, protective_stop : BOOLEAN,
   operator_enable : BOOLEAN, reset           : BOOLEAN]

Released ==
  [emergency_stop  |-> FALSE, protective_stop |-> FALSE,
   operator_enable |-> FALSE, reset           |-> FALSE]

NoStop == ~panel.emergency_stop /\ ~panel.protective_stop

Ready == NoStop /\ (RequireOperatorEnable => panel.operator_enable)

Init ==
  /\ panel = Released
  /\ mode = "disabled"
  /\ field \in [Output -> Signal]

Operate ==
  /\ panel' \in Panel
  /\ UNCHANGED <<mode, field>>

Trip ==
  /\ mode' = "tripped"
  /\ UNCHANGED <<panel, field>>

Acknowledge ==
  /\ mode = "tripped"
  /\ panel.reset
  /\ NoStop
  /\ mode' = IF Ready THEN "enabled" ELSE "disabled"
  /\ UNCHANGED <<panel, field>>

Enable ==
  /\ mode = "disabled"
  /\ Ready
  /\ mode' = "enabled"
  /\ UNCHANGED <<panel, field>>

Disable ==
  /\ mode = "enabled"
  /\ ~Ready
  /\ mode' = "disabled"
  /\ UNCHANGED <<panel, field>>

Drive ==
  /\ mode = "enabled"
  /\ field' \in [Output -> Signal]
  /\ UNCHANGED <<panel, mode>>

PowerUp ==
  /\ panel' = Released
  /\ mode' = "disabled"
  /\ UNCHANGED field

Next ==
  Operate \/ Trip \/ Acknowledge \/ Enable \/ Disable \/ Drive \/ PowerUp

Spec == Init /\ [][Next]_ivars
=============================================================================
