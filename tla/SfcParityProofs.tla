--------------------------- MODULE SfcParityProofs ---------------------------
(***************************************************************************)
(* The two back ends agree on every chart with neither stored and limited  *)
(* associations, nor RETURN in an action, nor two durations for one        *)
(* qualifier of an action.                                                 *)
(***************************************************************************)
EXTENDS SfcParity, SfcActionControlProofs, TLAPS

(***************************************************************************)
(* The two runs, step by step.                                             *)
(***************************************************************************)
\* What the interpreter's side keeps of its types.
ParityTypeOK ==
  /\ icontrol \in [I!ActionName -> Control]
  /\ icursor \in Nat \ {0}
  /\ icandidates \subseteq DOMAIN Transition
  /\ truth \subseteq DOMAIN Transition
  /\ returning \subseteq Returning

\* Up to the first contention, both engines are in the same state.
Lockstep == ~idiagnosed => iengine = gengine

\* The engines' operators are those of SfcActionControl.
LEMMA SameInterpreter ==
  \A inputs, c : I!InterpreterDecides(inputs, c) = InterpreterDecides(inputs, c)
<1>1. \A inputs, q : I!Active(inputs, q) = Active(inputs, q)
  BY DEF I!Active, Active
<1>2. \A inputs, q : I!Has(inputs, q) = Has(inputs, q)
  BY DEF I!Has, Has
<1>3. \A e : I!Advance(e) = Advance(e)
  BY DEF I!Advance, Advance
<1>4. \A inputs, q : I!ActiveDuration(inputs, q) = ActiveDuration(inputs, q)
  BY <1>1 DEF I!ActiveDuration, ActiveDuration
<1>5. \A inputs : I!Contention(inputs) = Contention(inputs)
  BY DEF I!Contention, Contention, I!ActiveTimed, ActiveTimed, I!TimedQualifier, TimedQualifier
<1>6. \A inputs, c : I!Untimed(inputs, c) = Untimed(inputs, c)
  BY <1>1, <1>2 DEF I!Untimed, Untimed
<1>7. \A inputs, c : I!Prepared(inputs, c) = Prepared(inputs, c)
  <2>1. \A inputs, c : I!Reset(inputs, c) = Reset(inputs, c)
    BY <1>1 DEF I!Reset, Reset
  <2>2. \A inputs, c : I!Remember(inputs, c) = Remember(inputs, c)
    BY <1>1 DEF I!Remember, Remember
  <2>3. \A inputs, c : I!Set(inputs, c) = Set(inputs, c)
    BY <1>1 DEF I!Set, Set
  <2>4. QED
    BY <2>1, <2>2, <2>3 DEF I!Prepared, Prepared
<1>8. \A inputs, c : I!InterpreterTimer(inputs, c) = InterpreterTimer(inputs, c)
  BY <1>1, <1>3, <1>4, Zenon DEF I!InterpreterTimer, InterpreterTimer
<1>9. \A inputs, c : I!InterpreterRuns(inputs, c) = InterpreterRuns(inputs, c)
  BY <1>1, <1>4 DEF I!InterpreterRuns, InterpreterRuns
<1>10. ASSUME NEW inputs, NEW c
       PROVE  I!InterpreterDecides(inputs, c) = InterpreterDecides(inputs, c)
  <2> DEFINE p == InterpreterTimer(inputs, Prepared(inputs, c))
  <2>1. I!InterpreterTimer(inputs, I!Prepared(inputs, c)) = p
    BY <1>7, <1>8
  <2>2. /\ I!Active(inputs, "R") = Active(inputs, "R") /\ I!Has(inputs, "SL") = Has(inputs, "SL")
        /\ I!ActiveDuration(inputs, "SL") = ActiveDuration(inputs, "SL")
        /\ I!Contention(inputs) = Contention(inputs) /\ I!Untimed(inputs, c) = Untimed(inputs, c)
    BY <1>1, <1>2, <1>4, <1>5, <1>6
  <2> HIDE DEF p
  <2>3. /\ I!Advance(p.elapsed) = Advance(p.elapsed)
        /\ I!InterpreterRuns(inputs, p) = InterpreterRuns(inputs, p)
    BY <1>3, <1>9
  <2>4. QED
    BY <2>1, <2>2, <2>3, Zenon DEF I!InterpreterDecides, InterpreterDecides, p
<1>11. QED
  BY <1>10

\* The same for the generated C.
LEMMA SameGenerated ==
  \A inputs, c : G!GeneratedDecides(inputs, c) = GeneratedDecides(inputs, c)
<1>1. \A inputs, q : G!Active(inputs, q) = Active(inputs, q)
  BY DEF G!Active, Active
<1>2. \A inputs, q : G!Has(inputs, q) = Has(inputs, q)
  BY DEF G!Has, Has
<1>3. \A e : G!Advance(e) = Advance(e)
  BY DEF G!Advance, Advance
<1>4. \A inputs, q : G!FirstDuration(inputs, q) = FirstDuration(inputs, q)
  BY <1>2 DEF G!FirstDuration, FirstDuration
<1>5. \A inputs, c : G!Untimed(inputs, c) = Untimed(inputs, c)
  BY <1>1, <1>2 DEF G!Untimed, Untimed
<1>6. \A inputs, c : G!Prepared(inputs, c) = Prepared(inputs, c)
  <2>1. \A inputs, c : G!Reset(inputs, c) = Reset(inputs, c)
    BY <1>1 DEF G!Reset, Reset
  <2>2. \A inputs, c : G!Remember(inputs, c) = Remember(inputs, c)
    BY <1>1 DEF G!Remember, Remember
  <2>3. \A inputs, c : G!Set(inputs, c) = Set(inputs, c)
    BY <1>1 DEF G!Set, Set
  <2>4. QED
    BY <2>1, <2>2, <2>3 DEF G!Prepared, Prepared
<1>7. \A inputs, q, c : G!Timed(inputs, q, c) = Timed(inputs, q, c)
  BY <1>1, <1>3 DEF G!Timed, Timed
<1>8. \A inputs, q, c : G!Delayed(inputs, q, c) = Delayed(inputs, q, c)
  BY <1>1, <1>4, <1>7, Zenon DEF G!Delayed, Delayed
<1>9. \A inputs, c : G!Relatches(inputs, c) = Relatches(inputs, c)
  BY DEF G!Relatches, Relatches, G!ActiveInputs, ActiveInputs
<1>10. \A inputs, c : G!StopTimer(inputs, c) = StopTimer(inputs, c)
  BY DEF G!StopTimer, StopTimer, G!ActiveTimed, ActiveTimed, G!TimedQualifier, TimedQualifier
<1>11. \A inputs, c : G!Latched(inputs, c) = Latched(inputs, c)
  BY <1>9 DEF G!Latched, Latched
<1>12. \A inputs, c : G!Limited(inputs, c) = Limited(inputs, c)
  BY <1>2, <1>3, <1>4 DEF G!Limited, Limited
<1>13. ASSUME NEW inputs, NEW c
       PROVE  G!GeneratedDecides(inputs, c) = GeneratedDecides(inputs, c)
  <2> DEFINE l    == Timed(inputs, "L", Prepared(inputs, c))
             d    == Timed(inputs, "D", l)
             ds   == Delayed(inputs, "DS", Delayed(inputs, "SD", d))
             end  == Limited(inputs, Latched(inputs, ds))
             gl   == G!Timed(inputs, "L", G!Prepared(inputs, c))
             gd   == G!Timed(inputs, "D", gl)
             gds  == G!Delayed(inputs, "DS", G!Delayed(inputs, "SD", gd))
             gend == G!Limited(inputs, G!Latched(inputs, gds))
             run  == (\/ Untimed(inputs, c)
                      \/ Active(inputs, "L") /\ l.elapsed <= FirstDuration(inputs, "L")
                      \/ Active(inputs, "D") /\ d.elapsed >= FirstDuration(inputs, "D")
                      \/ end.stored) /\ ~Active(inputs, "R")
             grun == (\/ G!Untimed(inputs, c)
                      \/ G!Active(inputs, "L") /\ gl.elapsed <= G!FirstDuration(inputs, "L")
                      \/ G!Active(inputs, "D") /\ gd.elapsed >= G!FirstDuration(inputs, "D")
                      \/ gend.stored) /\ ~G!Active(inputs, "R")
  <2>1. GeneratedDecides(inputs, c) =
          [control |-> StopTimer(inputs, end),
           execute |-> run, diagnosed |-> FALSE]
    BY DEF GeneratedDecides
  <2>2. G!GeneratedDecides(inputs, c) =
          [control |-> G!StopTimer(inputs, gend),
           execute |-> grun, diagnosed |-> FALSE]
    BY DEF G!GeneratedDecides
  <2> HIDE DEF run, grun
  <2>3. gl = l
    BY <1>6, <1>7
  <2> HIDE DEF l, gl
  <2>4. gd = d
    BY <1>7, <2>3
  <2> HIDE DEF d, gd
  <2>5. gds = ds
    BY <1>8, <2>4
  <2> HIDE DEF ds, gds
  <2>6. gend = end
    BY <1>11, <1>12, <2>5
  <2> HIDE DEF end, gend
  <2>7. /\ G!Untimed(inputs, c) = Untimed(inputs, c)
        /\ G!StopTimer(inputs, end) = StopTimer(inputs, end)
        /\ \A q : G!Active(inputs, q) = Active(inputs, q)
        /\ \A q : G!FirstDuration(inputs, q) = FirstDuration(inputs, q)
    BY <1>1, <1>4, <1>5, <1>10
  <2>8. grun = run
    BY <2>3, <2>4, <2>6, <2>7 DEF run, grun
  <2>9. QED
    BY <2>1, <2>2, <2>6, <2>7, <2>8, Zenon
<1>14. QED
  BY <1>13

\* In an ordinary chart the inputs of an action without contention are ordinary.
LEMMA InputsAreOrdinary ==
  ASSUME OrdinaryChart, NEW a \in I!ActionName
  PROVE  /\ I!Inputs(a) \in Seq(Input)
         /\ ~Contention(I!Inputs(a)) => Ordinary(I!Inputs(a))
<1>1. Association[a] \in Seq([step : Step, qualifier : Qualifier, duration : 0 .. Horizon - 1])
  BY ParityAssumption DEF I!WellFormedChart, I!Qualifier, Qualifier, I!TimedQualifier,
    TimedQualifier
<1>2. I!Inputs(a) \in Seq(Input)
  <2>1. \A i \in DOMAIN Association[a] :
          /\ Association[a][i].qualifier \in Qualifier
          /\ Association[a][i].duration \in 0 .. Horizon
    <3>1. \A i \in DOMAIN Association[a] :
            Association[a][i] \in
              [step : Step, qualifier : Qualifier, duration : 0 .. Horizon - 1]
      BY <1>1, Elements, Zenon
    <3>2. 0 .. Horizon - 1 \subseteq 0 .. Horizon
      BY TimeAssumption
    <3>3. QED
      BY <3>1, <3>2
  <2>2. \A i \in DOMAIN Association[a] : I!Inputs(a)[i] \in Input
    BY <2>1 DEF I!Inputs, Input
  <2>3. Len(Association[a]) \in Nat /\ DOMAIN Association[a] = 1 .. Len(Association[a])
    BY <1>1
  <2>4. I!Inputs(a) \in [1 .. Len(Association[a]) -> Input]
    BY <2>2, <2>3 DEF I!Inputs
  <2>5. QED
    BY <2>3, <2>4
<1>3. DOMAIN I!Inputs(a) = DOMAIN Association[a]
  BY DEF I!Inputs
<1>4. \A i \in DOMAIN Association[a] :
        /\ I!Inputs(a)[i].qualifier = Association[a][i].qualifier
        /\ I!Inputs(a)[i].duration = Association[a][i].duration
  BY DEF I!Inputs
<1>5. ~Contention(I!Inputs(a)) => Ordinary(I!Inputs(a))
  BY <1>3, <1>4 DEF Ordinary, Has, OrdinaryChart
<1>6. QED
  BY <1>2, <1>5

\* The action under the cursor is a declared one.
LEMMA ActionFacts ==
  ASSUME ParityTypeOK, icursor <= Len(Action)
  PROVE  Action[icursor] \in I!ActionName
BY ParityAssumption DEF I!WellFormedChart, I!ActionName, ParityTypeOK

\* There is one first candidate.
LEMMA FirstIsUnique ==
  ASSUME ParityTypeOK, NEW i \in icandidates, NEW j \in icandidates,
         I!First(i), I!First(j)
  PROVE  i = j
<1>1. Transition[i].priority \in Nat /\ Transition[j].priority \in Nat
      /\ i \in Nat /\ j \in Nat
  <2>1. Transition \in Seq([from : SUBSET Step, to : SUBSET Step, priority : Nat])
        /\ i \in DOMAIN Transition /\ j \in DOMAIN Transition
    BY ParityAssumption DEF I!WellFormedChart, ParityTypeOK
  <2>2. \A k \in DOMAIN Transition :
          k \in Nat /\ Transition[k] \in [from : SUBSET Step, to : SUBSET Step, priority : Nat]
    BY <2>1, Elements, Zenon
  <2>3. QED
    BY <2>1, <2>2
<1>2. i # j => I!Precedes(i, j) /\ I!Precedes(j, i)
  BY DEF I!First
<1>3. QED
  BY <1>1, <1>2 DEF I!Precedes

\* Both engines start with their types and in the same state.
LEMMA InitInvariant == Init => ParityTypeOK /\ Lockstep
<1> SUFFICES ASSUME Init PROVE ParityTypeOK /\ Lockstep
  OBVIOUS
<1> USE DEF Init, I!InitEngine, G!InitEngine, I!InitScan
<1>1. I!InitialControl \in Control
  BY TimeAssumption DEF I!InitialControl, Control
<1>2. ParityTypeOK
  BY <1>1 DEF ParityTypeOK
<1>3. iengine = gengine
  BY DEF iengine, gengine, I!InitialControl, G!InitialControl, I!ActionName, G!ActionName
<1>4. QED
  BY <1>2, <1>3 DEF Lockstep

\* Every step of a scan, in one engine or in both, keeps the types of both.
LEMMA TypeStep ==
  ASSUME ParityTypeOK, [Next]_vars
  PROVE  ParityTypeOK'
<1> USE DEF ParityTypeOK
<1>1. ASSUME NEW T \in SUBSET DOMAIN Transition, NEW R \in SUBSET Returning, Begin(T, R)
      PROVE  ParityTypeOK'
  BY <1>1 DEF Begin, I!BeginScan
<1>2. ASSUME I!RunAction, UNCHANGED <<truth, returning>>
      PROVE  ParityTypeOK'
  <2> DEFINE a == Action[icursor]
  <2>1. a \in I!ActionName
    BY <1>2, ActionFacts DEF I!RunAction
  <2>2. I!Decision(a).control \in Control
    BY <2>1, SameInterpreter, InterpreterType DEF I!Decision
  <2>3. icontrol' = [icontrol EXCEPT ![a] = I!Decision(a).control]
    BY <1>2 DEF I!RunAction
  <2>4. icontrol' \in [I!ActionName -> Control]
    BY <2>2, <2>3
  <2>5. icursor' \in Nat \ {0} /\ icandidates' = icandidates
    BY <1>2 DEF I!RunAction
  <2>6. QED
    BY <1>2, <2>4, <2>5
<1>3. ASSUME I!EvaluateTransitions, UNCHANGED <<truth, returning>>
      PROVE  ParityTypeOK'
  BY <1>3 DEF I!EvaluateTransitions
<1>4. ASSUME I!ApplyTransition, UNCHANGED <<truth, returning>>
      PROVE  ParityTypeOK'
  BY <1>4 DEF I!ApplyTransition
<1>5. ASSUME I!EndScan, UNCHANGED <<truth, returning>>
      PROVE  ParityTypeOK'
  BY <1>5 DEF I!EndScan
<1>6. ASSUME UNCHANGED iengine, UNCHANGED <<truth, returning>>
      PROVE  ParityTypeOK'
  BY <1>6 DEF iengine
<1>7. QED
  BY <1>1, <1>2, <1>3, <1>4, <1>5, <1>6 DEF Next, Advance2, I!Advances, vars

\* An action decided alike, while the engines are in the same state.
LEMMA RunsAgree ==
  ASSUME OrdinaryChart, ParityTypeOK, Lockstep, ~idiagnosed,
         I!RunAction, G!RunAction, ~idiagnosed'
  PROVE  iengine' = gengine'
<1> DEFINE a == Action[icursor]
<1>1. /\ isteps = gsteps /\ icontrol = gcontrol /\ iphase = gphase /\ icursor = gcursor
      /\ icandidates = gcandidates /\ iconsumed = gconsumed /\ iran = gran
      /\ idiagnosed = gdiagnosed
  BY DEF Lockstep, iengine, gengine
<1>2. a \in I!ActionName
  BY ActionFacts DEF I!RunAction
<1>3. icontrol[a] \in Control
  BY <1>2 DEF ParityTypeOK
<1>4. I!Inputs(a) = G!Inputs(a)
  BY <1>1 DEF I!Inputs, G!Inputs
<1>5. I!Decision(a) = InterpreterDecides(I!Inputs(a), icontrol[a])
  BY SameInterpreter DEF I!Decision
<1>6. G!Decision(a) = GeneratedDecides(I!Inputs(a), icontrol[a])
  BY <1>1, <1>4, SameGenerated DEF G!Decision
<1>7. ~I!Decision(a).diagnosed
  BY DEF I!RunAction
<1>8. ~Contention(I!Inputs(a))
  BY <1>5, <1>7 DEF InterpreterDecides
<1>9. I!Decision(a) = G!Decision(a)
  BY <1>2, <1>3, <1>5, <1>6, <1>8, InputsAreOrdinary, DecisionsAgree
<1>10. ~I!LeavesScan(a) /\ ~G!LeavesScan(a)
  BY DEF I!LeavesScan, G!LeavesScan, OrdinaryChart, ParityTypeOK
<1>11. /\ icontrol' = gcontrol' /\ iran' = gran' /\ iphase' = gphase'
       /\ idiagnosed' = gdiagnosed'
  BY <1>1, <1>9, <1>10, Zenon DEF I!RunAction, G!RunAction
<1>12. /\ icursor' = gcursor' /\ isteps' = gsteps' /\ icandidates' = gcandidates'
       /\ iconsumed' = gconsumed'
  BY <1>1 DEF I!RunAction, G!RunAction
<1>13. QED
  BY <1>11, <1>12 DEF iengine, gengine

\* The same first candidate is applied by both.
LEMMA ApplicationsAgree ==
  ASSUME ParityTypeOK, Lockstep, ~idiagnosed, I!ApplyTransition, G!ApplyTransition
  PROVE  iengine' = gengine'
<1>1. /\ isteps = gsteps /\ icontrol = gcontrol /\ iphase = gphase /\ icursor = gcursor
      /\ icandidates = gcandidates /\ iconsumed = gconsumed /\ iran = gran
      /\ idiagnosed = gdiagnosed
  BY DEF Lockstep, iengine, gengine
<1>2. PICK i \in icandidates :
        /\ I!First(i)
        /\ icandidates' = icandidates \ {i}
        /\ IF Transition[i].from \cap iconsumed = {}
           THEN /\ isteps' = (isteps \ Transition[i].from) \cup Transition[i].to
                /\ iconsumed' = iconsumed \cup Transition[i].from
           ELSE UNCHANGED <<isteps, iconsumed>>
  BY DEF I!ApplyTransition
<1>3. PICK j \in gcandidates :
        /\ G!First(j)
        /\ gcandidates' = gcandidates \ {j}
        /\ IF Transition[j].from \cap gconsumed = {}
           THEN /\ gsteps' = (gsteps \ Transition[j].from) \cup Transition[j].to
                /\ gconsumed' = gconsumed \cup Transition[j].from
           ELSE UNCHANGED <<gsteps, gconsumed>>
  BY DEF G!ApplyTransition
<1>4. I!First(j)
  BY <1>1, <1>3 DEF I!First, G!First, I!Precedes, G!Precedes
<1>5. i = j
  BY <1>1, <1>2, <1>3, <1>4, FirstIsUnique
<1>6. icandidates' = gcandidates' /\ isteps' = gsteps' /\ iconsumed' = gconsumed'
  BY <1>1, <1>2, <1>3, <1>5
<1>7. /\ icontrol' = gcontrol' /\ iphase' = gphase' /\ icursor' = gcursor' /\ iran' = gran'
      /\ idiagnosed' = gdiagnosed'
  BY <1>1 DEF I!ApplyTransition, G!ApplyTransition
<1>8. QED
  BY <1>6, <1>7 DEF iengine, gengine

\* Engines in the same state take the same step, or the interpreter diagnoses.
LEMMA LockstepStep ==
  ASSUME OrdinaryChart, ParityTypeOK, Lockstep, [Next]_vars
  PROVE  Lockstep'
<1> SUFFICES ASSUME ~idiagnosed' PROVE iengine' = gengine'
  BY DEF Lockstep
<1>1. ASSUME NEW T, NEW R, Begin(T, R)
      PROVE  iengine' = gengine'
  <2>1. iengine = gengine
    BY <1>1 DEF Begin, I!BeginScan, Lockstep
  <2>2. QED
    BY <1>1, <2>1 DEF Begin, I!BeginScan, G!BeginScan, iengine, gengine
<1>2. ASSUME I!Advances, G!Advances
      PROVE  iengine' = gengine'
  <2>1. ~idiagnosed
    BY <1>2, Zenon DEF I!Advances, I!RunAction, I!EvaluateTransitions, I!ApplyTransition, I!EndScan
  <2>2. /\ isteps = gsteps /\ icontrol = gcontrol /\ iphase = gphase /\ icursor = gcursor
        /\ icandidates = gcandidates /\ iconsumed = gconsumed /\ iran = gran
        /\ idiagnosed = gdiagnosed
    BY <2>1 DEF Lockstep, iengine, gengine
  <2>3. CASE I!RunAction
    <3>1. iphase = "actions" /\ icursor <= Len(Action)
      BY <2>3 DEF I!RunAction
    <3>2. G!RunAction
      <4>1. ~(icursor > Len(Action))
        <5>1. icursor \in Nat /\ Len(Action) \in Nat
          BY ParityAssumption DEF ParityTypeOK, I!WellFormedChart
        <5>2. QED
          BY <3>1, <5>1
      <4>2. QED
        BY <1>2, <2>2, <3>1, <4>1
          DEF G!Advances, G!EvaluateTransitions, G!ApplyTransition, G!EndScan
    <3>3. QED
      BY <2>1, <2>3, <3>2, RunsAgree
  <2>4. CASE I!EvaluateTransitions
    <3>1. iphase = "actions" /\ icursor > Len(Action)
      BY <2>4 DEF I!EvaluateTransitions
    <3>2. G!EvaluateTransitions
      <4>1. ~(icursor <= Len(Action))
        <5>1. icursor \in Nat /\ Len(Action) \in Nat
          BY ParityAssumption DEF ParityTypeOK, I!WellFormedChart
        <5>2. QED
          BY <3>1, <5>1
      <4>2. QED
        BY <1>2, <2>2, <3>1, <4>1 DEF G!Advances, G!RunAction, G!ApplyTransition, G!EndScan
    <3>3. QED
      BY <2>2, <2>4, <3>2
        DEF I!EvaluateTransitions, G!EvaluateTransitions, I!Enabled, G!Enabled, iengine, gengine
  <2>5. CASE I!ApplyTransition
    <3>1. iphase = "transitions" /\ icandidates # {}
      BY <2>5 DEF I!ApplyTransition
    <3>2. G!ApplyTransition
      BY <1>2, <2>2, <3>1 DEF G!Advances, G!RunAction, G!EvaluateTransitions, G!EndScan
    <3>3. QED
      BY <2>1, <2>5, <3>2, ApplicationsAgree
  <2>6. CASE I!EndScan
    <3>1. iphase = "transitions" /\ icandidates = {}
      BY <2>6 DEF I!EndScan
    <3>2. G!EndScan
      BY <1>2, <2>2, <3>1 DEF G!Advances, G!RunAction, G!EvaluateTransitions, G!ApplyTransition
    <3>3. QED
      BY <2>2, <2>6, <3>2 DEF I!EndScan, G!EndScan, iengine, gengine
  <2>7. QED
    BY <1>2, <2>3, <2>4, <2>5, <2>6 DEF I!Advances
<1>3. ASSUME I!Advances, gphase = "idle", UNCHANGED gengine
      PROVE  FALSE
  <2>1. ~idiagnosed
    BY <1>3, Zenon DEF I!Advances, I!RunAction, I!EvaluateTransitions, I!ApplyTransition, I!EndScan
  <2>2. iphase = "idle"
    BY <1>3, <2>1 DEF Lockstep, iengine, gengine
  <2>3. QED
    BY <1>3, <2>2
      DEF I!Advances, I!RunAction, I!EvaluateTransitions, I!ApplyTransition, I!EndScan
<1>4. ASSUME iphase = "idle", UNCHANGED iengine, G!Advances
      PROVE  FALSE
  <2>1. gphase = "idle"
    BY <1>4 DEF Lockstep, iengine, gengine
  <2>2. QED
    BY <1>4, <2>1
      DEF G!Advances, G!RunAction, G!EvaluateTransitions, G!ApplyTransition, G!EndScan
<1>5. ASSUME UNCHANGED vars
      PROVE  iengine' = gengine'
  BY <1>5 DEF vars, Lockstep, iengine, gengine
<1>6. QED
  BY <1>1, <1>2, <1>3, <1>4, <1>5 DEF Next, Advance2

\* On every ordinary chart, whatever the conditions do and however long the
\* program runs, the generated C of emit_sfc_scan runs the actions and leaves
\* the steps that execute_sfc does, up to the first diagnosed contention.
THEOREM OrdinaryChartsAgree ==
  ASSUME OrdinaryChart
  PROVE  Spec => []EnginesAgree
<1>1. Init => ParityTypeOK /\ Lockstep
  BY InitInvariant
<1>2. ParityTypeOK /\ Lockstep /\ [Next]_vars => (ParityTypeOK /\ Lockstep)'
  BY TypeStep, LockstepStep
<1>3. Lockstep => EnginesAgree
  BY DEF Lockstep, EnginesAgree, iengine, gengine
<1>4. QED
  BY <1>1, <1>2, <1>3, PTL DEF Spec
=============================================================================
