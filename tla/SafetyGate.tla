----------------------------- MODULE SafetyGate -----------------------------
(***************************************************************************)
(* The safety gate of crates/rbcpp_target/src/lib.rs: the record it keeps, *)
(* the evaluation it makes of the safety inputs (SafetyGate::update) and   *)
(* the answer it gives to a write (SafetyGate::check_output_write).        *)
(***************************************************************************)
CONSTANT RequireOperatorEnable    \* SafetyGate::new(require_operator_enable)

ASSUME RequireOperatorEnableAssumption == RequireOperatorEnable \in BOOLEAN

IoDirection == {"Input", "Output", "Memory", "Unknown"}

SafetyInputs ==
  [emergency_stop  : BOOLEAN, protective_stop : BOOLEAN,
   operator_enable : BOOLEAN, reset           : BOOLEAN]

SafetyState ==
  [emergency_stop   : BOOLEAN, protective_stop : BOOLEAN,
   watchdog_expired : BOOLEAN, fault_latched   : BOOLEAN,
   outputs_enabled  : BOOLEAN]

DefaultInputs ==
  [emergency_stop  |-> FALSE, protective_stop |-> FALSE,
   operator_enable |-> FALSE, reset           |-> FALSE]

DefaultState ==
  [emergency_stop   |-> FALSE, protective_stop |-> FALSE,
   watchdog_expired |-> FALSE, fault_latched   |-> FALSE,
   outputs_enabled  |-> FALSE]

StopRequested(inputs) == inputs.emergency_stop \/ inputs.protective_stop

ActiveTrip(inputs, expired) == StopRequested(inputs) \/ expired

(***************************************************************************)
(* SafetyGate::update.  A trip latches; only an evaluation that finds no   *)
(* trip and the reset input held releases the latch.                       *)
(***************************************************************************)
\* Mutants of Latched: the latch is not kept; the watchdog does not latch.
LatchNotKept(gate, inputs, expired) == ActiveTrip(inputs, expired)
LatchWithoutWatchdog(gate, inputs, expired) ==
  StopRequested(inputs) \/ (gate.fault_latched /\ ~inputs.reset)

Latched(gate, inputs, expired) ==
  \/ ActiveTrip(inputs, expired)
  \/ gate.fault_latched /\ ~inputs.reset

Enabled(inputs) == RequireOperatorEnable => inputs.operator_enable

Update(gate, inputs, expired) ==
  [emergency_stop   |-> inputs.emergency_stop,
   protective_stop  |-> inputs.protective_stop,
   watchdog_expired |-> expired,
   fault_latched    |-> Latched(gate, inputs, expired),
   outputs_enabled  |-> ~Latched(gate, inputs, expired) /\ Enabled(inputs)]

(***************************************************************************)
(* SafetyGate::check_output_write.  Inputs and memory are never gated;     *)
(* which of the SafetyTrip reasons a refusal carries is abstracted.        *)
(***************************************************************************)
AdmitsWrite(gate, direction) ==
  direction = "Output" => /\ ~gate.emergency_stop
                          /\ ~gate.protective_stop
                          /\ ~gate.watchdog_expired
                          /\ ~gate.fault_latched
                          /\ gate.outputs_enabled
=============================================================================
