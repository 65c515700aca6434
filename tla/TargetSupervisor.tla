-------------------------- MODULE TargetSupervisor --------------------------
(***************************************************************************)
(* TargetSupervisor of crates/rbcpp_target/src/lib.rs: the scan-cycle      *)
(* supervisor that ties together the safety gate, the cycle watchdog, the  *)
(* VAR_ACCESS bindings, the HAL outputs and the retained-state store.      *)
(*                                                                         *)
(* Every public operation is an action that the integrator may call in any *)
(* order, time passes between any two of them, I/O may fail, and the       *)
(* process may crash at any point and be started again.  end_cycle is      *)
(* split where it reads the clock and at each file it writes, because time *)
(* and crashes fall between those points.                                  *)
(***************************************************************************)
EXTENDS Integers, FiniteSets, SafetyGate, RetainStore

CONSTANTS
  Features,     \* which with_* builders were called
  Timeout,      \* CycleWatchdog::timeout, in clock ticks
  MaxCycles,    \* bound on cycle_count
  InputSet,     \* the safety inputs the integrator presents
  Retained,     \* targets marked with mark_retained
  InitialValue, \* the values the integrator sets before the first scan
  Symbol,       \* the I/O symbols of the HAL
  DirectionOf,  \* IoSymbol::direction
  StateAccess,  \* writable (READ_WRITE) access paths to state, as targets
  IoAccess,     \* writable access paths to I/O, as symbols
  StateInput,   \* the values written to state
  IoInput       \* the values written to I/O

ASSUME FeaturesAssumption ==
  Features \subseteq {"retain_store", "watchdog", "safety_gate"}
ASSUME TimeoutAssumption == Timeout \in Nat /\ None \notin Nat
ASSUME MaxCyclesAssumption == MaxCycles \in Nat
ASSUME InputSetAssumption == InputSet \subseteq SafetyInputs
ASSUME TargetAssumption ==
  /\ Retained \subseteq Target
  /\ InitialValue \in [Target -> Value \cup {None}]
  /\ StateAccess \subseteq Target
  /\ StateInput \subseteq Value
ASSUME SymbolAssumption ==
  /\ DirectionOf \in [Symbol -> IoDirection]
  /\ IoAccess \subseteq Symbol
  /\ IoInput \subseteq Value

HasStore    == "retain_store" \in Features
HasWatchdog == "watchdog" \in Features
HasGate     == "safety_gate" \in Features

(***************************************************************************)
(* Times are ages, in ticks, and stop at Overdue: the code only compares   *)
(* them with the timeout.                                                  *)
(***************************************************************************)
Overdue == Timeout + 1
Age     == 0 .. Overdue

Older(age) == IF age < Overdue THEN age + 1 ELSE Overdue

Report ==
  [cycle : 1 .. MaxCycles, elapsed : Age, watchdog_expired : BOOLEAN,
   retained_saved : BOOLEAN, safety_state : SafetyState \cup {None}]

ASSUME NoReportAssumption == None \notin Report

VARIABLES
  safety_inputs,   \* TargetSupervisor.safety_inputs
  gate,            \* SafetyGate.state
  petAge,          \* age of CycleWatchdog.last_pet
  cycleAge,        \* age of cycle_started_at, or None
  cycle_count,     \* TargetSupervisor.cycle_count
  values,          \* TargetState.values
  io,              \* what the HAL last accepted for each symbol
  store,           \* the files of the retain store
  phase,           \* how far end_cycle has come; "idle" outside of it
  draft,           \* the locals of end_cycle: elapsed and watchdog_expired
  pending,         \* retained targets end_cycle has still to save
  report           \* what the last call returned

(* History variables: they record what happened and guard nothing.         *)
VARIABLES
  evaluated,       \* safety_inputs have been evaluated since they were set
  idleAge,         \* age of the last completed cycle or successful start
  restarted,       \* a start was made inside the running cycle
  acked,           \* the retained values of the last reported cycle
  clean            \* no save was started and cut short since that report

system  == <<safety_inputs, gate, petAge, cycleAge, cycle_count, values, io,
             store, phase, draft, pending, report>>
history == <<evaluated, idleAge, restarted, acked, clean>>
vars    == <<system, history>>

NoDraft == [elapsed |-> 0, expired |-> FALSE]

TypeOK ==
  /\ safety_inputs \in SafetyInputs
  /\ gate \in SafetyState
  /\ petAge \in Age
  /\ cycleAge \in Age \cup {None}
  /\ cycle_count \in 0 .. MaxCycles
  /\ values \in [Target -> Value \cup {None}]
  /\ io \in [Symbol -> Value \cup {None}]
  /\ store \in [File -> Raw \cup {None}]
  /\ phase \in {"idle", "refresh", "save"}
  /\ draft \in [elapsed : Age, expired : BOOLEAN]
  /\ pending \in SUBSET Retained
  /\ report \in Report \cup {None}
  /\ evaluated \in BOOLEAN
  /\ idleAge \in Age
  /\ restarted \in BOOLEAN
  /\ acked \in [Target -> Value \cup {None}]
  /\ clean \in BOOLEAN

\* The locals of end_cycle exist only while it runs.
EndCycleOK ==
  /\ phase # "idle" => cycle_count < MaxCycles
  /\ phase # "save" => pending = {}
  /\ \A t \in pending : HasStore /\ values[t] # None
-----------------------------------------------------------------------------
\* Mutant of WatchdogExpired: one tick late.
WatchdogExpiredLate == HasWatchdog /\ petAge > Timeout + 1
WatchdogExpired == HasWatchdog /\ petAge > Timeout

Pet == petAge' = IF HasWatchdog THEN 0 ELSE petAge

\* Mutant of RefreshSafetyState: an enabled gate is not evaluated again.
RefreshOnce ==
  /\ gate' = IF HasGate /\ ~gate.outputs_enabled
             THEN Update(gate, safety_inputs, WatchdogExpired) ELSE gate
  /\ evaluated' = TRUE

\* refresh_safety_state: re-evaluate the gate with the inputs last set.
RefreshSafetyState ==
  /\ gate' = IF HasGate THEN Update(gate, safety_inputs, WatchdogExpired) ELSE gate
  /\ evaluated' = TRUE

Init ==
  /\ safety_inputs = DefaultInputs
  /\ gate = DefaultState
  /\ petAge = 0
  /\ cycleAge = None
  /\ cycle_count = 0
  /\ values = InitialValue
  /\ phase = "idle"
  /\ draft = NoDraft
  /\ pending = {}
  /\ report = None
  /\ evaluated = FALSE
  /\ idleAge = 0
  /\ restarted = FALSE
  /\ io = [s \in Symbol |-> None]
  /\ store = [f \in File |-> None]
  /\ acked = [t \in Target |-> None]
  /\ clean = TRUE

\* A call returns no report unless it is the end of end_cycle.
Returns == phase = "idle" /\ report' = None

SetSafetyInputs(inputs) ==
  /\ Returns
  /\ safety_inputs' = inputs
  /\ evaluated' = (evaluated /\ inputs = safety_inputs)
  /\ UNCHANGED <<gate, petAge, cycleAge, cycle_count, values, io, store, phase,
                 draft, pending, idleAge, restarted, acked, clean>>

(***************************************************************************)
(* cold_start (warm_start is the same function).  load_retained reads the  *)
(* retained targets one by one and stops at the first read error, keeping  *)
(* what it has loaded: any subset may have been restored then.             *)
(***************************************************************************)
Stored(t) == HasStore /\ store[FileOf[t]] # None

Restored(targets) ==
  [t \in Target |-> IF t \in targets /\ Stored(t)
                    THEN DecodeTypedValue(store[FileOf[t]])
                    ELSE values[t]]

ColdStart ==
  /\ Returns
  /\ values' = Restored(Retained)
  /\ Pet
  /\ idleAge' = 0
  /\ restarted' = (restarted \/ cycleAge # None)
  /\ UNCHANGED <<safety_inputs, gate, cycleAge, cycle_count, io, store, phase,
                 draft, pending, evaluated, acked, clean>>

ColdStartFails(loaded) ==
  /\ Returns
  /\ \E t \in Retained \ loaded : Stored(t)
  /\ values' = Restored(loaded)
  /\ UNCHANGED <<safety_inputs, gate, petAge, cycleAge, cycle_count, io, store,
                 phase, draft, pending, history>>

\* Mutant of BeginCycle: the beginning of a scan pets the watchdog.
BeginCyclePets ==
  /\ Returns
  /\ cycleAge' = 0
  /\ restarted' = FALSE
  /\ Pet
  /\ RefreshSafetyState
  /\ UNCHANGED <<safety_inputs, cycle_count, values, io, store, phase, draft,
                 pending, idleAge, acked, clean>>

BeginCycle ==
  /\ Returns
  /\ cycleAge' = 0
  /\ restarted' = FALSE
  /\ RefreshSafetyState
  /\ UNCHANGED <<safety_inputs, petAge, cycle_count, values, io, store, phase,
                 draft, pending, idleAge, acked, clean>>

(***************************************************************************)
(* write_access to a state target, or to I/O through the gate and the HAL. *)
(* The READ_ONLY and unknown paths are refused before anything changes; a  *)
(* HAL that fails, or has no binding for the symbol, changes nothing.      *)
(***************************************************************************)
WriteState(t, v) ==
  /\ Returns
  /\ t \in StateAccess
  /\ values' = [values EXCEPT ![t] = v]
  /\ UNCHANGED <<safety_inputs, gate, petAge, cycleAge, cycle_count, io, store,
                 phase, draft, pending, history>>

WriteIo(s, v) ==
  /\ Returns
  /\ s \in IoAccess
  /\ HasGate => AdmitsWrite(gate, DirectionOf[s])
  /\ io' = [io EXCEPT ![s] = v]
  /\ UNCHANGED <<safety_inputs, gate, petAge, cycleAge, cycle_count, values,
                 store, phase, draft, pending, history>>
-----------------------------------------------------------------------------
(***************************************************************************)
(* end_cycle: read the cycle's duration and the watchdog, evaluate the     *)
(* gate (which reads the watchdog a second time), save the retained        *)
(* targets, and only then pet the watchdog and count the cycle.            *)
(***************************************************************************)
EndCycle ==
  /\ phase = "idle"
  /\ cycle_count < MaxCycles
  /\ draft' = [elapsed |-> IF cycleAge = None THEN 0 ELSE cycleAge,
               expired |-> WatchdogExpired]
  /\ cycleAge' = None
  /\ phase' = "refresh"
  /\ report' = None
  /\ UNCHANGED <<safety_inputs, gate, petAge, cycle_count, values, io, store,
                 pending, history>>

\* Mutant of ToSave: a target that has a file is not saved again.
ToSaveOnce == {t \in Retained : HasStore /\ values[t] # None /\ store[FileOf[t]] = None}

\* save_retained: the retained targets that have a value.
ToSave == {t \in Retained : HasStore /\ values[t] # None}

EndCycleRefresh ==
  /\ phase = "refresh"
  /\ RefreshSafetyState
  /\ phase' = "save"
  /\ pending' = ToSave
  /\ UNCHANGED <<safety_inputs, petAge, cycleAge, cycle_count, values, io, store,
                 draft, report, idleAge, restarted, acked, clean>>

\* The code saves in key order; nothing depends on the order.
SaveRetained(t) ==
  /\ phase = "save"
  /\ t \in pending
  /\ store' = [store EXCEPT ![FileOf[t]] = EncodeTypedValue(values[t])]
  /\ pending' = pending \ {t}
  /\ clean' = FALSE
  /\ UNCHANGED <<safety_inputs, gate, petAge, cycleAge, cycle_count, values, io,
                 phase, draft, report, evaluated, idleAge, restarted, acked>>

\* The `?' of end_cycle: the error leaves before the pet and the count.
SaveFails(t) ==
  /\ phase = "save"
  /\ t \in pending
  /\ \/ UNCHANGED <<store, clean>>
     \/ /\ store' = [store EXCEPT ![FileOf[t]] = EmptyFile]
        /\ clean' = FALSE
  /\ phase' = "idle"
  /\ pending' = {}
  /\ draft' = NoDraft
  /\ UNCHANGED <<safety_inputs, gate, petAge, cycleAge, cycle_count, values, io,
                 report, evaluated, idleAge, restarted, acked>>

EndCycleReturns ==
  /\ phase = "save"
  /\ pending = {}
  /\ Pet
  /\ cycle_count' = cycle_count + 1
  /\ report' = [cycle            |-> cycle_count + 1,
                elapsed          |-> draft.elapsed,
                watchdog_expired |-> draft.expired,
                retained_saved   |-> HasStore,
                safety_state     |-> IF HasGate THEN gate ELSE None]
  /\ phase' = "idle"
  /\ draft' = NoDraft
  /\ idleAge' = 0
  /\ acked' = IF HasStore
              THEN [t \in Target |-> IF t \in Retained THEN values[t] ELSE None]
              ELSE acked
  /\ clean' = (clean \/ HasStore)
  /\ UNCHANGED <<safety_inputs, gate, cycleAge, values, io, store, pending,
                 evaluated, restarted>>
-----------------------------------------------------------------------------
\* The monotonic clock.
Tick ==
  /\ petAge' = Older(petAge)
  /\ cycleAge' = IF cycleAge = None THEN None ELSE Older(cycleAge)
  /\ idleAge' = Older(idleAge)
  /\ UNCHANGED <<safety_inputs, gate, cycle_count, values, io, store, phase,
                 draft, pending, report, evaluated, restarted, acked, clean>>

(***************************************************************************)
(* The process dies and is started again with new objects.  The device     *)
(* keeps its outputs and the disk its files; a crash inside fs::write      *)
(* leaves the file being written empty.                                    *)
(***************************************************************************)
Crash ==
  /\ safety_inputs' = DefaultInputs
  /\ gate' = DefaultState
  /\ petAge' = 0
  /\ cycleAge' = None
  /\ cycle_count' = 0
  /\ values' = InitialValue
  /\ phase' = "idle"
  /\ draft' = NoDraft
  /\ pending' = {}
  /\ report' = None
  /\ evaluated' = FALSE
  /\ idleAge' = 0
  /\ restarted' = FALSE
  /\ \/ UNCHANGED <<store, clean>>
     \/ \E t \in pending :
          /\ store' = [store EXCEPT ![FileOf[t]] = EmptyFile]
          /\ clean' = FALSE
  /\ UNCHANGED <<io, acked>>

Next ==
  \/ \E inputs \in InputSet : SetSafetyInputs(inputs)
  \/ ColdStart
  \/ \E loaded \in SUBSET Retained : ColdStartFails(loaded)
  \/ BeginCycle
  \/ \E t \in StateAccess, v \in StateInput : WriteState(t, v)
  \/ \E s \in IoAccess, v \in IoInput : WriteIo(s, v)
  \/ EndCycle
  \/ EndCycleRefresh
  \/ \E t \in Retained : SaveRetained(t) \/ SaveFails(t)
  \/ EndCycleReturns
  \/ Tick
  \/ Crash

Spec == Init /\ [][Next]_vars

(***************************************************************************)
(* Time passes, and the scan loop around the supervisor keeps calling      *)
(* begin_cycle and lets a started end_cycle run to its return.             *)
(***************************************************************************)
Fairness ==
  /\ WF_vars(Tick)
  /\ WF_vars(BeginCycle)
  /\ WF_vars(EndCycleRefresh)
  /\ WF_vars(EndCycleReturns \/ \E t \in Retained : SaveRetained(t) \/ SaveFails(t))

FairSpec == Spec /\ Fairness
-----------------------------------------------------------------------------
(***************************************************************************)
(* The promise the integrator relies on, module Interlock: outputs move    *)
(* only while enabled, and a trip is left only by a reset with no stop     *)
(* requested, evaluated at a scan boundary, or by a power-up.              *)
(***************************************************************************)
OutputSymbol == {s \in Symbol : DirectionOf[s] = "Output"}

Mode == IF gate.fault_latched THEN "tripped"
        ELSE IF gate.outputs_enabled THEN "enabled" ELSE "disabled"

Field == [s \in OutputSymbol |-> io[s]]

Promise == INSTANCE Interlock
  WITH Output <- OutputSymbol,
       Signal <- Value \cup {None},
       panel  <- safety_inputs,
       mode   <- Mode,
       field  <- Field

\* The supervisor with a gate keeps the promise of the interlock.
ImplementsInterlock == Promise!Spec

\* A physical output moves in this step.
OutputMoves == \E s \in OutputSymbol : io'[s] # io[s]

\* set_safety_inputs only stores the inputs; begin_cycle and end_cycle
\* evaluate them.  A stop request is therefore effective from the first scan
\* boundary after it was set: no output moves under a stop request that a
\* boundary has evaluated.
StopBlocksFromNextBoundary ==
  [][OutputMoves /\ HasGate => ~(evaluated /\ StopRequested(safety_inputs))]_vars

\* A scan boundary reached more than the timeout after the last completed
\* cycle or start trips the gate, whatever was called in between: failed
\* saves, repeated begin_cycle calls and failed starts never feed the watchdog.
StarvedBoundaryTrips ==
  [][(BeginCycle \/ EndCycleRefresh) /\ HasGate /\ HasWatchdog /\ idleAge > Timeout
     => gate'.fault_latched /\ ~gate'.outputs_enabled]_vars

\* end_cycle reads the watchdog twice, for the report and for the gate, and
\* time passes in between: a report of an expired watchdog never comes with a
\* safety state that leaves the outputs enabled.
ReportedExpiryIsTripped ==
  report # None /\ HasGate =>
    (report.watchdog_expired => /\ report.safety_state.fault_latched
                                /\ ~report.safety_state.outputs_enabled)

\* A scan that took longer than the timeout is reported as a watchdog expiry,
\* unless cold_start or warm_start petted the watchdog inside that scan.
OverrunIsReported ==
  report # None /\ HasWatchdog /\ report.elapsed > Timeout
    => report.watchdog_expired \/ restarted

\* What a report said was saved stays on disk until the next save starts,
\* through failed saves of other targets, failed starts and crashes.
AckedIsDurable ==
  clean => \A t \in Retained :
             acked[t] # None /\ SoleOwner(t, Retained)
               => store[FileOf[t]] = EncodeTypedValue(acked[t])

\* After a crash outside of a save, a successful start gives every retained
\* target the value of the last reported cycle.
RestartRecoversLastReport ==
  [][ColdStart /\ clean => \A t \in Retained :
       acked[t] # None /\ SoleOwner(t, Retained) /\ Faithful(acked[t])
         => values'[t] = acked[t]]_vars

\* If no cycle completes any more, then the outputs end up disabled for good,
\* although boundaries go on.
StarvedOutputsStayOff ==
  HasGate /\ HasWatchdog => (<>[](idleAge # 0) => <>[](~gate.outputs_enabled))
=============================================================================
