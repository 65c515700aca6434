----------------------- MODULE TargetSupervisorProofs -----------------------
(***************************************************************************)
(* Theorems of TargetSupervisor, for every set of targets, symbols, files  *)
(* and features and every timeout.                                         *)
(***************************************************************************)
EXTENDS TargetSupervisor, TLAPS

(***************************************************************************)
(* Operators.                                                              *)
(***************************************************************************)
LEMMA AgeFacts ==
  /\ 0 \in Age
  /\ Overdue \in Age
  /\ \A x \in Age : Older(x) \in Age /\ x \in Nat
BY TimeoutAssumption, SMT DEF Age, Overdue, Older

\* Values are encoded to file contents, and file contents decoded to values.
LEMMA CodecTypes ==
  /\ \A v \in Value : EncodeTypedValue(v) \in Raw
  /\ \A r \in Raw : DecodeTypedValue(r) \in Value
  /\ EmptyFile \in Raw
BY TextAssumption DEF Value, Raw, Kind, ScalarKind, CompositeKind,
   EncodeTypedValue, DecodeTypedValue, EmptyFile

\* Retaining a faithful value and loading it again gives the value back.
LEMMA FaithfulRoundTrip ==
  \A v \in Value : Faithful(v) => DecodeTypedValue(EncodeTypedValue(v)) = v
BY DEF Value, Faithful, Kind, ScalarKind, CompositeKind, EncodeTypedValue,
   DecodeTypedValue

\* SafetyGate::update keeps the type of the gate.
LEMMA UpdateType ==
  ASSUME NEW g \in SafetyState, NEW in \in SafetyInputs, NEW e \in BOOLEAN
  PROVE  /\ Update(g, in, e) \in SafetyState
         /\ Latched(g, in, e) \in BOOLEAN
BY RequireOperatorEnableAssumption
   DEF SafetyState, SafetyInputs, Update, Latched, ActiveTrip, StopRequested,
       Enabled

\* The defaults of the safety inputs and of the gate have their types.
LEMMA Defaults == DefaultInputs \in SafetyInputs /\ DefaultState \in SafetyState
BY DEF DefaultInputs, DefaultState, SafetyInputs, SafetyState

\* load_retained puts values into the state, whatever the files hold.
LEMMA RestoredType ==
  ASSUME TypeOK, NEW S \in SUBSET Target
  PROVE  Restored(S) \in [Target -> Value \cup {None}]
BY FileOfAssumption, NoneAssumption, CodecTypes DEF TypeOK, EndCycleOK, Restored, Stored

(***************************************************************************)
(* Type correctness.                                                       *)
(***************************************************************************)

\* end_cycle leaves locals of the right type behind.
LEMMA NoDraftType == NoDraft \in [elapsed : Age, expired : BOOLEAN]
BY AgeFacts DEF NoDraft

\* A new supervisor has its types, and no end_cycle is running.
LEMMA InitType == Init => TypeOK /\ EndCycleOK
<1> SUFFICES ASSUME Init PROVE TypeOK /\ EndCycleOK
  OBVIOUS
<1>1. cycle_count \in 0 .. MaxCycles
  BY MaxCyclesAssumption, SMT DEF Init
<1>2. TypeOK
  BY <1>1, AgeFacts, Defaults, NoDraftType, TargetAssumption DEF Init, TypeOK
<1>3. EndCycleOK
  BY DEF Init, EndCycleOK
<1>4. QED
  BY <1>2, <1>3

\* Every operation, the clock and a crash keep the types.
LEMMA NextType == TypeOK /\ EndCycleOK /\ [Next]_vars => TypeOK' /\ EndCycleOK'
<1> SUFFICES ASSUME TypeOK, EndCycleOK, [Next]_vars
               PROVE  TypeOK' /\ EndCycleOK'
  OBVIOUS
<1> USE AgeFacts, Defaults, CodecTypes, FileOfAssumption, TargetAssumption,
        SymbolAssumption
<1>1. ASSUME NEW inputs \in InputSet, SetSafetyInputs(inputs)
      PROVE  TypeOK' /\ EndCycleOK'
  BY InputSetAssumption, <1>1 DEF TypeOK, EndCycleOK, SetSafetyInputs, Returns
<1>2. CASE ColdStart
  BY RestoredType, <1>2 DEF TypeOK, EndCycleOK, ColdStart, Returns, Pet
<1>3. ASSUME NEW loaded \in SUBSET Retained, ColdStartFails(loaded)
      PROVE  TypeOK' /\ EndCycleOK'
  BY RestoredType, <1>3 DEF TypeOK, EndCycleOK, ColdStartFails, Returns, history
<1>4. CASE BeginCycle
  BY UpdateType, <1>4 DEF TypeOK, EndCycleOK, BeginCycle, Returns, RefreshSafetyState, WatchdogExpired, HasWatchdog
<1>5. ASSUME NEW t \in StateAccess, NEW v \in StateInput, WriteState(t, v)
      PROVE  TypeOK' /\ EndCycleOK'
  BY <1>5 DEF TypeOK, EndCycleOK, WriteState, Returns, history
<1>6. ASSUME NEW s \in IoAccess, NEW v \in IoInput, WriteIo(s, v)
      PROVE  TypeOK' /\ EndCycleOK'
  BY <1>6 DEF TypeOK, EndCycleOK, WriteIo, Returns, history
<1>7. CASE EndCycle
  BY <1>7 DEF TypeOK, EndCycleOK, EndCycle, WatchdogExpired, HasWatchdog, history
<1>8. CASE EndCycleRefresh
  BY UpdateType, <1>8 DEF TypeOK, EndCycleOK, EndCycleRefresh, RefreshSafetyState, WatchdogExpired, HasWatchdog, ToSave
<1>9. ASSUME NEW t \in Retained, SaveRetained(t)
      PROVE  TypeOK' /\ EndCycleOK'
  BY <1>9 DEF TypeOK, EndCycleOK, SaveRetained
<1>10. ASSUME NEW t \in Retained, SaveFails(t)
      PROVE  TypeOK' /\ EndCycleOK'
  <2>1. store' \in [File -> Raw \cup {None}]
    <3>1. CASE UNCHANGED <<store, clean>>
      BY <3>1 DEF TypeOK
    <3>2. CASE store' = [store EXCEPT ![FileOf[t]] = EmptyFile]
      BY <3>2 DEF TypeOK
    <3>3. QED
      BY <1>10, <3>1, <3>2 DEF SaveFails
  <2>2. clean' \in BOOLEAN
    BY <1>10 DEF TypeOK, SaveFails
  <2>3. QED
    BY <1>10, <2>1, <2>2, NoDraftType DEF TypeOK, EndCycleOK, SaveFails
<1>11. CASE EndCycleReturns
  BY MaxCyclesAssumption, <1>11 DEF TypeOK, EndCycleOK, EndCycleReturns, Pet, NoDraft, HasStore, Report
<1>12. CASE Tick
  BY <1>12 DEF TypeOK, EndCycleOK, Tick
<1>13. CASE Crash
  <2>1. store' \in [File -> Raw \cup {None}]
    <3>1. CASE UNCHANGED <<store, clean>>
      BY <3>1 DEF TypeOK
    <3>2. ASSUME NEW t \in pending, store' = [store EXCEPT ![FileOf[t]] = EmptyFile]
          PROVE  store' \in [File -> Raw \cup {None}]
      BY <3>2 DEF TypeOK
    <3>3. QED
      BY <1>13, <3>1, <3>2 DEF Crash
  <2>2. clean' \in BOOLEAN
    BY <1>13 DEF TypeOK, Crash
  <2>3. cycle_count' \in 0 .. MaxCycles
    BY <1>13, MaxCyclesAssumption, SMT DEF Crash
  <2>4. QED
    BY <1>13, <2>1, <2>2, <2>3, NoDraftType DEF TypeOK, EndCycleOK, Crash
<1>14. CASE UNCHANGED vars
  BY <1>14 DEF TypeOK, EndCycleOK, vars, system, history
<1>15. QED
  BY <1>1, <1>2, <1>3, <1>4, <1>5, <1>6, <1>7, <1>8, <1>9, <1>10, <1>11, <1>12, <1>13, <1>14 DEF Next

\* Every variable keeps its type, whatever the sizes and features.
THEOREM TypeCorrect == Spec => [](TypeOK /\ EndCycleOK)
<1>1. QED
  BY InitType, NextType, PTL DEF Spec
-----------------------------------------------------------------------------
(***************************************************************************)
(* The inductive invariant behind the safety properties.                   *)
(***************************************************************************)
\* A gate that knows of a trip has latched it, and a latched gate is closed.
GateClosed ==
  /\ gate.emergency_stop \/ gate.protective_stop \/ gate.watchdog_expired
       => gate.fault_latched
  /\ gate.fault_latched => ~gate.outputs_enabled

\* Evaluated inputs are the ones the gate was computed from.
StopsEvaluated ==
  evaluated /\ HasGate =>
    /\ gate.emergency_stop = safety_inputs.emergency_stop
    /\ gate.protective_stop = safety_inputs.protective_stop

\* A scan that was not restarted began after the last pet, and the watchdog
\* is petted by completed cycles and successful starts only.
ClockInv ==
  /\ HasWatchdog => petAge = idleAge
  /\ phase # "idle" => cycleAge = None
  /\ HasWatchdog /\ cycleAge # None /\ ~restarted => cycleAge <= petAge

\* What end_cycle has read stays true while it runs: nothing else pets.
DraftInv ==
  phase # "idle" =>
    /\ draft.expired => HasWatchdog /\ petAge > Timeout
    /\ HasWatchdog /\ ~restarted /\ draft.elapsed > Timeout => draft.expired
    /\ phase = "save" /\ HasGate /\ draft.expired
         => gate.fault_latched /\ ~gate.outputs_enabled

SafetyInv ==
  /\ GateClosed
  /\ StopsEvaluated
  /\ ClockInv
  /\ DraftInv
  /\ ReportedExpiryIsTripped
  /\ OverrunIsReported
LEMMA UpdateFacts ==
  ASSUME NEW g \in SafetyState, NEW in \in SafetyInputs, NEW e \in BOOLEAN
  PROVE  /\ Update(g, in, e).emergency_stop = in.emergency_stop
         /\ Update(g, in, e).protective_stop = in.protective_stop
         /\ Update(g, in, e).watchdog_expired = e
         /\ in.emergency_stop \/ in.protective_stop \/ e
              => Update(g, in, e).fault_latched
         /\ Update(g, in, e).fault_latched => ~Update(g, in, e).outputs_enabled
BY DEF SafetyState, SafetyInputs, Update, Latched, ActiveTrip, StopRequested

\* A tick keeps the order of ages, and what is overdue overdue.
LEMMA OlderFacts ==
  /\ \A x, y \in Age : x <= y => Older(x) <= Older(y)
  /\ \A x \in Age : x > Timeout => Older(x) > Timeout
BY TimeoutAssumption, SMT DEF Age, Overdue, Older

\* The watchdog has expired or it has not.
LEMMA ExpiredType == TypeOK => WatchdogExpired \in BOOLEAN
BY DEF WatchdogExpired

\* Refreshing the gate closes it on a trip, whatever it was before.
LEMMA RefreshFacts ==
  ASSUME TypeOK, RefreshSafetyState, safety_inputs' = safety_inputs, GateClosed
  PROVE  /\ GateClosed'
         /\ StopsEvaluated'
         /\ HasGate /\ WatchdogExpired
              => gate'.fault_latched /\ ~gate'.outputs_enabled
<1>1. CASE HasGate
  <2>1. gate' = Update(gate, safety_inputs, WatchdogExpired)
    BY <1>1 DEF RefreshSafetyState
  <2>2. gate \in SafetyState /\ safety_inputs \in SafetyInputs
    BY DEF TypeOK
  <2>3. WatchdogExpired \in BOOLEAN
    BY DEF WatchdogExpired
  <2>4. QED
    BY <2>1, <2>2, <2>3, UpdateFacts DEF GateClosed, StopsEvaluated
<1>2. CASE ~HasGate
  BY <1>2 DEF RefreshSafetyState, GateClosed, StopsEvaluated, HasGate
<1>3. QED
  BY <1>1, <1>2

\* A new supervisor satisfies the safety invariant.
LEMMA SafetyInit == Init => SafetyInv
<1> SUFFICES ASSUME Init PROVE SafetyInv
  OBVIOUS
<1>1. GateClosed /\ StopsEvaluated
  BY DEF Init, GateClosed, StopsEvaluated, DefaultState
<1>2. ClockInv /\ DraftInv
  BY DEF Init, ClockInv, DraftInv
<1>3. ReportedExpiryIsTripped /\ OverrunIsReported
  BY DEF Init, ReportedExpiryIsTripped, OverrunIsReported
<1>4. QED
  BY <1>1, <1>2, <1>3 DEF SafetyInv

\* Every operation, the clock and a crash keep the safety invariant.
LEMMA SafetyNext ==
  TypeOK /\ TypeOK' /\ SafetyInv /\ [Next]_vars => SafetyInv'
<1> SUFFICES ASSUME TypeOK, TypeOK', SafetyInv, [Next]_vars
             PROVE  SafetyInv'
  OBVIOUS
<1> USE DEF SafetyInv
\* Actions that change neither the gate nor a clock.
<1>1. CASE UNCHANGED <<gate, petAge, cycleAge, phase, draft, idleAge, restarted>>
           /\ (report' = None \/ report' = report)
           /\ (evaluated' => evaluated /\ safety_inputs' = safety_inputs)
  BY <1>1 DEF GateClosed, StopsEvaluated, ClockInv, DraftInv,
     ReportedExpiryIsTripped, OverrunIsReported, HasGate, HasWatchdog
<1>2. ASSUME NEW inputs \in InputSet, SetSafetyInputs(inputs)
      PROVE  SafetyInv'
  <2>1. evaluated' => evaluated /\ safety_inputs' = safety_inputs
    BY <1>2 DEF SetSafetyInputs
  <2>2. QED
    BY <1>1, <1>2, <2>1 DEF SetSafetyInputs, Returns
<1>3. CASE ColdStart
  <2>1. GateClosed' /\ StopsEvaluated'
    BY <1>3 DEF ColdStart, GateClosed, StopsEvaluated, HasGate
  <2>2. phase = "idle" /\ phase' = "idle" /\ report' = None
    BY <1>3 DEF ColdStart, Returns
  <2>3. ClockInv'
    BY <1>3, <2>2 DEF ColdStart, ClockInv, Pet, HasWatchdog, TypeOK
  <2>4. QED
    BY <2>1, <2>2, <2>3 DEF DraftInv, ReportedExpiryIsTripped, OverrunIsReported
<1>4. ASSUME NEW loaded \in SUBSET Retained, ColdStartFails(loaded)
      PROVE  SafetyInv'
  BY <1>1, <1>4 DEF ColdStartFails, Returns, history
<1>5. CASE BeginCycle
  <2>1. phase = "idle" /\ phase' = "idle" /\ report' = None
    BY <1>5 DEF BeginCycle, Returns
  <2>2. GateClosed' /\ StopsEvaluated'
    BY <1>5, RefreshFacts DEF BeginCycle
  <2>3. ClockInv'
    BY <1>5, <2>1, AgeFacts, SMT DEF BeginCycle, ClockInv, TypeOK, HasWatchdog
  <2>4. QED
    BY <2>1, <2>2, <2>3 DEF DraftInv, ReportedExpiryIsTripped, OverrunIsReported
<1>6. ASSUME NEW t \in StateAccess, NEW v \in StateInput, WriteState(t, v)
      PROVE  SafetyInv'
  BY <1>1, <1>6 DEF WriteState, Returns, history
<1>7. ASSUME NEW s \in IoAccess, NEW v \in IoInput, WriteIo(s, v)
      PROVE  SafetyInv'
  BY <1>1, <1>7 DEF WriteIo, Returns, history
<1>8. CASE EndCycle
  <2>1. GateClosed' /\ StopsEvaluated'
    BY <1>8 DEF EndCycle, GateClosed, StopsEvaluated, HasGate, history
  <2>2. ClockInv'
    BY <1>8 DEF EndCycle, ClockInv, HasWatchdog, history
  <2>3. draft'.expired = WatchdogExpired
        /\ draft'.elapsed = (IF cycleAge = None THEN 0 ELSE cycleAge)
    BY <1>8 DEF EndCycle
  <2>4. petAge \in Nat /\ (cycleAge = None \/ cycleAge \in Nat) /\ Timeout \in Nat
    BY AgeFacts, TimeoutAssumption DEF TypeOK
  <2>5. HasWatchdog /\ ~restarted /\ draft'.elapsed > Timeout => draft'.expired
    <3>1. SUFFICES ASSUME HasWatchdog, ~restarted, draft'.elapsed > Timeout
                   PROVE  WatchdogExpired
      BY <2>3
    <3>2. cycleAge # None /\ cycleAge > Timeout
      BY <2>3, <2>4, <3>1, SMT
    <3>3. cycleAge <= petAge
      BY <3>1, <3>2 DEF ClockInv
    <3>4. petAge > Timeout
      BY <2>4, <3>2, <3>3, SMT
    <3>5. QED
      BY <3>1, <3>4 DEF WatchdogExpired
  <2>6. DraftInv'
    BY <1>8, <2>3, <2>5 DEF EndCycle, DraftInv, WatchdogExpired, HasWatchdog, history
  <2>7. QED
    BY <1>8, <2>1, <2>2, <2>6 DEF EndCycle, ReportedExpiryIsTripped, OverrunIsReported
<1>9. CASE EndCycleRefresh
  <2>1. /\ GateClosed' /\ StopsEvaluated'
        /\ HasGate /\ WatchdogExpired => gate'.fault_latched /\ ~gate'.outputs_enabled
    BY <1>9, RefreshFacts DEF EndCycleRefresh
  <2>2. phase = "refresh" /\ phase' = "save" /\ draft' = draft /\ petAge' = petAge
        /\ report' = report /\ restarted' = restarted
    BY <1>9 DEF EndCycleRefresh
  <2>3. ClockInv'
    BY <1>9 DEF EndCycleRefresh, ClockInv, HasWatchdog
  <2>4. DraftInv'
    BY <2>1, <2>2 DEF DraftInv, WatchdogExpired, HasWatchdog, HasGate
  <2>5. QED
    BY <2>1, <2>2, <2>3, <2>4
       DEF ReportedExpiryIsTripped, OverrunIsReported, HasGate, HasWatchdog
<1>10. ASSUME NEW t \in Retained, SaveRetained(t)
       PROVE  SafetyInv'
  BY <1>1, <1>10 DEF SaveRetained
<1>11. ASSUME NEW t \in Retained, SaveFails(t)
       PROVE  SafetyInv'
  BY <1>11 DEF SaveFails, GateClosed, StopsEvaluated, ClockInv, DraftInv,
     ReportedExpiryIsTripped, OverrunIsReported, HasGate, HasWatchdog
<1>12. CASE EndCycleReturns
  <2>1. phase = "save" /\ phase' = "idle" /\ gate' = gate /\ restarted' = restarted
        /\ idleAge' = 0 /\ cycleAge' = cycleAge
        /\ petAge' = (IF HasWatchdog THEN 0 ELSE petAge)
    BY <1>12 DEF EndCycleReturns, Pet
  <2>2. report'.elapsed = draft.elapsed /\ report'.watchdog_expired = draft.expired
        /\ (HasGate => report'.safety_state = gate)
    BY <1>12 DEF EndCycleReturns
  <2>3. GateClosed' /\ StopsEvaluated' /\ ClockInv' /\ DraftInv'
    BY <1>12, <2>1 DEF EndCycleReturns, GateClosed, StopsEvaluated, ClockInv,
       DraftInv, HasGate, HasWatchdog
  <2>4. QED
    BY <2>1, <2>2, <2>3
       DEF DraftInv, ReportedExpiryIsTripped, OverrunIsReported, HasGate, HasWatchdog
<1>13. CASE Tick
  <2>1. GateClosed' /\ StopsEvaluated'
    BY <1>13 DEF Tick, GateClosed, StopsEvaluated, HasGate
  <2>2. ReportedExpiryIsTripped' /\ OverrunIsReported'
    BY <1>13 DEF Tick, ReportedExpiryIsTripped, OverrunIsReported, HasGate, HasWatchdog
  <2>3. petAge \in Age /\ (cycleAge = None \/ cycleAge \in Age) /\ None \notin Age
    BY TimeoutAssumption, AgeFacts DEF TypeOK
  <2>4. ClockInv'
    BY <1>13, <2>3, AgeFacts, OlderFacts DEF Tick, ClockInv, HasWatchdog
  <2>5. DraftInv'
    BY <1>13, <2>3, OlderFacts DEF Tick, DraftInv, HasGate, HasWatchdog
  <2>6. QED
    BY <2>1, <2>2, <2>4, <2>5
<1>14. CASE Crash
  <2>1. GateClosed' /\ StopsEvaluated'
    BY <1>14 DEF Crash, GateClosed, StopsEvaluated, DefaultState
  <2>2. ClockInv' /\ DraftInv' /\ ReportedExpiryIsTripped' /\ OverrunIsReported'
    BY <1>14 DEF Crash, ClockInv, DraftInv, ReportedExpiryIsTripped, OverrunIsReported
  <2>3. QED
    BY <2>1, <2>2
<1>15. CASE UNCHANGED vars
  BY <1>1, <1>15 DEF vars, system, history
<1>16. QED
  BY <1>2, <1>3, <1>4, <1>5, <1>6, <1>7, <1>8, <1>9, <1>10, <1>11, <1>12, <1>13,
     <1>14, <1>15 DEF Next

\* The safety invariant holds in every run: the gate is closed on every trip it
\* saw, and the ages of the watchdog, the cycle and the report keep their order.
THEOREM SafetyCorrect == Spec => []SafetyInv
<1>1. Init /\ [][Next]_vars /\ [](TypeOK /\ EndCycleOK) => []SafetyInv
  BY SafetyInit, SafetyNext, PTL
<1>2. QED
  BY <1>1, TypeCorrect, PTL DEF Spec

\* A report of an expired watchdog never comes with enabled outputs, although
\* end_cycle reads the watchdog twice.
THEOREM ReportedExpiryTrips == Spec => []ReportedExpiryIsTripped
BY SafetyCorrect, PTL DEF SafetyInv

\* A scan longer than the timeout is reported, unless it was restarted.
THEOREM OverrunReported == Spec => []OverrunIsReported
BY SafetyCorrect, PTL DEF SafetyInv
\* Only a gated write moves an output.
LEMMA OnlyWritesMoveOutputs ==
  ASSUME TypeOK, [Next]_vars, NEW o \in OutputSymbol, io'[o] # io[o]
  PROVE  \E s \in IoAccess, v \in IoInput : WriteIo(s, v) /\ s = o
<1>1. ASSUME NEW s \in IoAccess, NEW v \in IoInput, WriteIo(s, v)
      PROVE  s = o
  BY <1>1 DEF WriteIo, TypeOK, OutputSymbol
<1>2. io' # io
  OBVIOUS
<1>3. \E s \in IoAccess, v \in IoInput : WriteIo(s, v)
  BY <1>2 DEF Next, SetSafetyInputs, ColdStart, ColdStartFails, BeginCycle, WriteState,
     EndCycle, EndCycleRefresh, SaveRetained, SaveFails, EndCycleReturns, Tick,
     Crash, vars, system, history
<1>4. QED
  BY <1>1, <1>3

\* No output moves under a stop request that a scan boundary has evaluated.
THEOREM StopBlocks == Spec => StopBlocksFromNextBoundary
<1>1. TypeOK /\ SafetyInv /\ [Next]_vars =>
        [OutputMoves /\ HasGate => ~(evaluated /\ StopRequested(safety_inputs))]_vars
  <2> SUFFICES ASSUME TypeOK, SafetyInv, [Next]_vars, HasGate, evaluated,
                      NEW o \in OutputSymbol, io'[o] # io[o]
               PROVE  ~StopRequested(safety_inputs)
    BY DEF OutputMoves
  <2>1. PICK s \in IoAccess, v \in IoInput : WriteIo(s, v) /\ s = o
    BY OnlyWritesMoveOutputs
  <2>2. AdmitsWrite(gate, "Output")
    BY <2>1 DEF WriteIo, OutputSymbol
  <2>3. ~gate.emergency_stop /\ ~gate.protective_stop
    BY <2>2 DEF AdmitsWrite
  <2>4. QED
    BY <2>3 DEF SafetyInv, StopsEvaluated, StopRequested
<1>2. QED
  BY <1>1, TypeCorrect, SafetyCorrect, PTL DEF Spec, StopBlocksFromNextBoundary

\* A boundary reached too late trips the gate, whatever happened before it.
THEOREM StarvedTrips == Spec => StarvedBoundaryTrips
<1>1. TypeOK /\ SafetyInv =>
        [(BeginCycle \/ EndCycleRefresh) /\ HasGate /\ HasWatchdog
           /\ idleAge > Timeout
         => gate'.fault_latched /\ ~gate'.outputs_enabled]_vars
  <2> SUFFICES ASSUME TypeOK, SafetyInv, BeginCycle \/ EndCycleRefresh, HasGate,
                      HasWatchdog, idleAge > Timeout
               PROVE  gate'.fault_latched /\ ~gate'.outputs_enabled
    OBVIOUS
  <2>1. WatchdogExpired
    BY DEF SafetyInv, ClockInv, WatchdogExpired
  <2>2. RefreshSafetyState /\ safety_inputs' = safety_inputs
    BY DEF BeginCycle, EndCycleRefresh
  <2>3. QED
    BY <2>1, <2>2, RefreshFacts DEF SafetyInv
<1>2. QED
  BY <1>1, TypeCorrect, SafetyCorrect, PTL DEF Spec, StarvedBoundaryTrips
-----------------------------------------------------------------------------
(***************************************************************************)
(* The retain store.                                                       *)
(***************************************************************************)
\* What end_cycle has saved so far is on disk, under any interleaving of the
\* files, and only a supervisor with a store reports saved values.
SavedInv ==
  /\ \A t \in Target : acked[t] # None => HasStore
  /\ phase = "save" =>
       \A t \in ToSave \ pending : SoleOwner(t, Retained) =>
          store[FileOf[t]] = EncodeTypedValue(values[t])

StoreInv == AckedIsDurable /\ SavedInv

\* A new supervisor has reported nothing that could be lost.
LEMMA StoreInit == Init => StoreInv
BY TargetAssumption DEF Init, StoreInv, AckedIsDurable, SavedInv

\* Every operation, a failed save and a crash keep what was reported as saved.
LEMMA StoreNext == TypeOK /\ TypeOK' /\ EndCycleOK /\ StoreInv /\ [Next]_vars => StoreInv'
<1> SUFFICES ASSUME TypeOK, TypeOK', EndCycleOK, StoreInv, [Next]_vars
             PROVE  StoreInv'
  OBVIOUS
<1> USE TargetAssumption, FileOfAssumption DEF StoreInv
\* Steps outside of the saving phase that touch neither the disk nor a report.
<1>1. CASE UNCHANGED <<store, acked, clean>> /\ phase' # "save"
  BY <1>1 DEF AckedIsDurable, SavedInv, HasStore
<1>2. ASSUME NEW inputs \in InputSet, SetSafetyInputs(inputs)
      PROVE  StoreInv'
  BY <1>1, <1>2 DEF SetSafetyInputs, Returns
<1>3. CASE ColdStart
  BY <1>1, <1>3 DEF ColdStart, Returns
<1>4. ASSUME NEW loaded \in SUBSET Retained, ColdStartFails(loaded)
      PROVE  StoreInv'
  BY <1>1, <1>4 DEF ColdStartFails, Returns, history
<1>5. CASE BeginCycle
  BY <1>1, <1>5 DEF BeginCycle, Returns
<1>6. ASSUME NEW t \in StateAccess, NEW v \in StateInput, WriteState(t, v)
      PROVE  StoreInv'
  BY <1>1, <1>6 DEF WriteState, Returns, history
<1>7. ASSUME NEW s \in IoAccess, NEW v \in IoInput, WriteIo(s, v)
      PROVE  StoreInv'
  BY <1>1, <1>7 DEF WriteIo, Returns, history
<1>8. CASE EndCycle
  BY <1>1, <1>8 DEF EndCycle, history
<1>9. CASE EndCycleRefresh
  BY <1>9 DEF EndCycleRefresh, AckedIsDurable, SavedInv, ToSave, HasStore
<1>10. ASSUME NEW t \in Retained, SaveRetained(t)
       PROVE  StoreInv'
  <2>1. AckedIsDurable'
    BY <1>10 DEF SaveRetained, AckedIsDurable
  <2>2. \A u \in Target : acked'[u] # None => HasStore'
    BY <1>10 DEF SaveRetained, SavedInv, HasStore
  <2>3. ASSUME NEW u \in ToSave' \ pending', SoleOwner(u, Retained)
        PROVE  store'[FileOf[u]] = EncodeTypedValue(values'[u])
    <3>1. u \in ToSave /\ u \in Retained /\ values' = values
      BY <1>10, <2>3 DEF SaveRetained, ToSave, HasStore
    <3>2. CASE u = t
      BY <1>10, <3>1, <3>2 DEF SaveRetained, TypeOK
    <3>3. CASE u # t
      <4>1. FileOf[t] # FileOf[u]
        BY <2>3, <3>3 DEF SoleOwner
      <4>2. u \in ToSave \ pending
        BY <1>10, <2>3, <3>1, <3>3 DEF SaveRetained
      <4>3. store[FileOf[u]] = EncodeTypedValue(values[u])
        BY <1>10, <2>3, <4>2 DEF SavedInv, SaveRetained
      <4>4. QED
        BY <1>10, <3>1, <4>1, <4>3 DEF SaveRetained, TypeOK
    <3>4. QED
      BY <3>2, <3>3
  <2>4. QED
    BY <2>1, <2>2, <2>3 DEF SavedInv
<1>11. ASSUME NEW t \in Retained, SaveFails(t)
       PROVE  StoreInv'
  <2>1. phase' = "idle" /\ acked' = acked /\ (UNCHANGED <<store, clean>> \/ ~clean')
    BY <1>11 DEF SaveFails
  <2>2. QED
    BY <2>1 DEF AckedIsDurable, SavedInv, HasStore
<1>12. CASE EndCycleReturns
  <2>1. phase = "save" /\ pending = {} /\ phase' = "idle" /\ store' = store
    BY <1>12 DEF EndCycleReturns
  <2>2. CASE HasStore
    <3>1. acked' = [t \in Target |-> IF t \in Retained THEN values[t] ELSE None]
      BY <1>12, <2>2 DEF EndCycleReturns
    <3>2. ASSUME NEW t \in Retained, acked'[t] # None, SoleOwner(t, Retained)
          PROVE  store'[FileOf[t]] = EncodeTypedValue(acked'[t])
      <4>1. acked'[t] = values[t]
        BY <3>1
      <4>2. t \in ToSave
        BY <2>2, <3>2, <4>1 DEF ToSave
      <4>3. QED
        BY <2>1, <3>2, <4>1, <4>2 DEF SavedInv
    <3>3. QED
      BY <2>1, <2>2, <3>2 DEF AckedIsDurable, SavedInv, HasStore
  <2>3. CASE ~HasStore
    BY <1>1, <1>12, <2>1, <2>3, Zenon DEF EndCycleReturns, TypeOK, AckedIsDurable, SavedInv, HasStore
  <2>4. QED
    BY <2>2, <2>3
<1>13. CASE Tick
  BY <1>13 DEF Tick, AckedIsDurable, SavedInv, ToSave, HasStore
<1>14. CASE Crash
  <2>1. phase' = "idle" /\ acked' = acked /\ (UNCHANGED <<store, clean>> \/ ~clean')
    BY <1>14 DEF Crash
  <2>2. QED
    BY <2>1 DEF AckedIsDurable, SavedInv, HasStore
<1>15. CASE UNCHANGED vars
  BY <1>15 DEF vars, system, history, AckedIsDurable, SavedInv, ToSave, HasStore
<1>16. QED
  BY <1>2, <1>3, <1>4, <1>5, <1>6, <1>7, <1>8, <1>9, <1>10, <1>11, <1>12, <1>13,
     <1>14, <1>15 DEF Next

\* The invariant of the retain store holds in every run.
LEMMA StoreCorrect == Spec => []StoreInv
<1>1. QED
  BY StoreInit, StoreNext, TypeCorrect, PTL DEF Spec

\* What a report said was saved stays on disk until the next save starts.
THEOREM AckedDurable == Spec => []AckedIsDurable
BY StoreCorrect, PTL DEF StoreInv

\* A start gives every faithful retained value of the last report back.
THEOREM RestartRecovers == Spec => RestartRecoversLastReport
<1>1. TypeOK /\ StoreInv =>
        [ColdStart /\ clean => \A t \in Retained :
           acked[t] # None /\ SoleOwner(t, Retained) /\ Faithful(acked[t])
             => values'[t] = acked[t]]_vars
  <2> SUFFICES ASSUME TypeOK, StoreInv, ColdStart, clean, NEW t \in Retained,
                      acked[t] # None, SoleOwner(t, Retained), Faithful(acked[t])
               PROVE  values'[t] = acked[t]
    OBVIOUS
  <2>1. t \in Target /\ acked[t] \in Value
    BY TargetAssumption DEF TypeOK
  <2>2. store[FileOf[t]] = EncodeTypedValue(acked[t])
    BY DEF StoreInv, AckedIsDurable
  <2>3. Stored(t)
    BY <2>1, <2>2, CodecTypes, NoneAssumption DEF StoreInv, SavedInv, Stored
  <2>4. values'[t] = DecodeTypedValue(EncodeTypedValue(acked[t]))
    BY <2>1, <2>2, <2>3 DEF ColdStart, Restored
  <2>5. QED
    BY <2>1, <2>4, FaithfulRoundTrip
<1>2. QED
  BY <1>1, TypeCorrect, StoreCorrect, PTL DEF Spec, RestartRecoversLastReport
-----------------------------------------------------------------------------
(***************************************************************************)
(* The supervisor with a gate implements the interlock.                    *)
(***************************************************************************)
\* A step that changes neither the inputs, the gate nor the outputs.
LEMMA InterlockStutter ==
  UNCHANGED <<safety_inputs, gate, io>> => UNCHANGED Promise!ivars
BY DEF Promise!ivars, Mode, Field

\* An evaluation of the gate is one step of the interlock: a trip, or what the
\* inputs allow from the mode it was in.
LEMMA RefreshRefines ==
  ASSUME TypeOK, HasGate, RefreshSafetyState, UNCHANGED <<safety_inputs, io>>
  PROVE  Promise!Next \/ UNCHANGED Promise!ivars
<1> DEFINE e == WatchdogExpired
<1>1. gate' = Update(gate, safety_inputs, e)
  BY DEF RefreshSafetyState
<1>2. safety_inputs \in SafetyInputs
  BY DEF TypeOK
<1>3. Field' = Field
  BY DEF Field
<1>4. /\ gate'.fault_latched = Latched(gate, safety_inputs, e)
      /\ gate'.outputs_enabled = (~Latched(gate, safety_inputs, e) /\ Enabled(safety_inputs))
  BY <1>1 DEF Update
<1>5. CASE Latched(gate, safety_inputs, e)
  <2>1. Mode' = "tripped"
    BY <1>4, <1>5 DEF Mode
  <2>2. Promise!Trip
    BY <1>3, <2>1 DEF Promise!Trip
  <2>3. QED
    BY <2>2 DEF Promise!Next
<1>6. CASE ~Latched(gate, safety_inputs, e)
  <2>1. Promise!NoStop /\ (gate.fault_latched => safety_inputs.reset)
    BY <1>6 DEF Latched, ActiveTrip, StopRequested, Promise!NoStop
  <2>2. Promise!Ready <=> Enabled(safety_inputs)
    BY <2>1 DEF Promise!Ready, Enabled
  <2>3. Mode' = IF Promise!Ready THEN "enabled" ELSE "disabled"
    BY <1>4, <1>6, <2>2 DEF Mode
  <2>4. CASE gate.fault_latched
    <3>1. Mode = "tripped"
      BY <2>4 DEF Mode
    <3>2. Promise!Acknowledge
      BY <1>3, <2>1, <2>3, <2>4, <3>1 DEF Promise!Acknowledge
    <3>3. QED
      BY <3>2 DEF Promise!Next
  <2>5. CASE ~gate.fault_latched
    <3>1. Mode = IF gate.outputs_enabled THEN "enabled" ELSE "disabled"
      BY <2>5 DEF Mode
    <3>2. CASE Mode' = Mode
      BY <1>3, <3>2 DEF Promise!ivars
    <3>3. CASE Mode' # Mode
      <4>1. Promise!Enable \/ Promise!Disable
        BY <1>3, <2>3, <3>1, <3>3 DEF Promise!Enable, Promise!Disable
      <4>2. QED
        BY <4>1 DEF Promise!Next
    <3>4. QED
      BY <3>2, <3>3
  <2>6. QED
    BY <2>4, <2>5
<1>7. QED
  BY <1>5, <1>6

\* A new supervisor is a released and disabled interlock.
LEMMA InterlockInit == TypeOK /\ Init => Promise!Init
<1> SUFFICES ASSUME TypeOK, Init PROVE Promise!Init
  OBVIOUS
<1>1. safety_inputs = Promise!Released
  BY DEF Init, DefaultInputs, Promise!Released
<1>2. Mode = "disabled"
  BY DEF Init, DefaultState, Mode
<1>3. Field \in [OutputSymbol -> Value \cup {None}]
  BY DEF TypeOK, Field, OutputSymbol
<1>4. QED
  BY <1>1, <1>2, <1>3 DEF Promise!Init

\* Every step of the supervisor is a step of the interlock or a stutter.
LEMMA InterlockNext ==
  ASSUME TypeOK, TypeOK', SafetyInv, HasGate, [Next]_vars
  PROVE  Promise!Next \/ UNCHANGED Promise!ivars
<1>1. ASSUME NEW inputs \in InputSet, SetSafetyInputs(inputs)
      PROVE  Promise!Next
  <2>1. safety_inputs' \in Promise!Panel
    BY DEF TypeOK, SafetyInputs, Promise!Panel
  <2>2. Promise!Operate
    BY <1>1, <2>1 DEF SetSafetyInputs, Promise!Operate, Mode, Field
  <2>3. QED
    BY <2>2 DEF Promise!Next
<1>2. CASE ColdStart
  BY <1>2, InterlockStutter DEF ColdStart
<1>3. ASSUME NEW loaded \in SUBSET Retained, ColdStartFails(loaded)
      PROVE  UNCHANGED Promise!ivars
  BY <1>3, InterlockStutter DEF ColdStartFails
<1>4. CASE BeginCycle
  BY <1>4, RefreshRefines DEF BeginCycle
<1>5. ASSUME NEW t \in StateAccess, NEW v \in StateInput, WriteState(t, v)
      PROVE  UNCHANGED Promise!ivars
  BY <1>5, InterlockStutter DEF WriteState
<1>6. ASSUME NEW s \in IoAccess, NEW v \in IoInput, WriteIo(s, v)
      PROVE  Promise!Next \/ UNCHANGED Promise!ivars
  <2>1. safety_inputs' = safety_inputs /\ gate' = gate /\ Mode' = Mode
    BY <1>6 DEF WriteIo, Mode
  <2>2. CASE s \in OutputSymbol
    <3>1. AdmitsWrite(gate, "Output")
      BY <1>6, <2>2 DEF WriteIo, OutputSymbol
    <3>2. Mode = "enabled"
      BY <3>1 DEF AdmitsWrite, Mode
    <3>3. Field' \in [OutputSymbol -> Value \cup {None}]
      BY DEF TypeOK, Field, OutputSymbol
    <3>4. Promise!Drive
      BY <2>1, <3>2, <3>3 DEF Promise!Drive
    <3>5. QED
      BY <3>4 DEF Promise!Next
  <2>3. CASE s \notin OutputSymbol
    <3>1. \A o \in OutputSymbol : io'[o] = io[o]
      BY <1>6, <2>3 DEF WriteIo, OutputSymbol, TypeOK
    <3>2. Field' = Field
      BY <3>1 DEF Field
    <3>3. QED
      BY <2>1, <3>2 DEF Promise!ivars
  <2>4. QED
    BY <2>2, <2>3
<1>7. CASE EndCycle
  BY <1>7, InterlockStutter DEF EndCycle
<1>8. CASE EndCycleRefresh
  BY <1>8, RefreshRefines DEF EndCycleRefresh
<1>9. ASSUME NEW t \in Retained, SaveRetained(t)
      PROVE  UNCHANGED Promise!ivars
  BY <1>9, InterlockStutter DEF SaveRetained
<1>10. ASSUME NEW t \in Retained, SaveFails(t)
       PROVE  UNCHANGED Promise!ivars
  BY <1>10, InterlockStutter DEF SaveFails
<1>11. CASE EndCycleReturns
  BY <1>11, InterlockStutter DEF EndCycleReturns
<1>12. CASE Tick
  BY <1>12, InterlockStutter DEF Tick
<1>13. CASE Crash
  <2>1. safety_inputs' = Promise!Released
    BY <1>13 DEF Crash, DefaultInputs, Promise!Released
  <2>2. Mode' = "disabled"
    BY <1>13 DEF Crash, DefaultState, Mode
  <2>3. Field' = Field
    BY <1>13 DEF Crash, Field
  <2>4. QED
    BY <2>1, <2>2, <2>3 DEF Promise!PowerUp, Promise!Next
<1>14. CASE UNCHANGED vars
  BY <1>14, InterlockStutter DEF vars, system
<1>15. QED
  BY <1>1, <1>2, <1>3, <1>4, <1>5, <1>6, <1>7, <1>8, <1>9, <1>10, <1>11, <1>12,
     <1>13, <1>14 DEF Next

\* The supervisor with a gate keeps the promise of the interlock: outputs move
\* only while enabled, and nothing but a reset or a power-up leaves a trip.
THEOREM GateIsInterlock ==
  ASSUME HasGate
  PROVE  Spec => ImplementsInterlock
<1>1. TypeOK /\ Init => Promise!Init
  BY InterlockInit
<1>2. TypeOK /\ TypeOK' /\ SafetyInv /\ [Next]_vars => [Promise!Next]_(Promise!ivars)
  BY InterlockNext
<1>3. QED
  BY <1>1, <1>2, TypeCorrect, SafetyCorrect, PTL DEF Spec, ImplementsInterlock, Promise!Spec
=============================================================================
