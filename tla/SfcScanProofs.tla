---------------------------- MODULE SfcScanProofs ----------------------------
(***************************************************************************)
(* Types and evolution of the scans of one chart, for both engines and     *)
(* every well-formed chart.                                                *)
(***************************************************************************)
EXTENDS SfcScan, SfcActionControlProofs, WellFoundedInduction, TLAPS

\* The elements of a chart have the types check_sfc gives them.
LEMMA ChartTypes ==
  /\ \A i \in DOMAIN Action : i \in 1 .. Len(Action) /\ Action[i] \in ActionName
  /\ Len(Action) \in Nat
  /\ \A i \in DOMAIN Transition :
       /\ i \in Nat
       /\ Transition[i].from \subseteq Step /\ Transition[i].from # {}
       /\ Transition[i].to \subseteq Step
       /\ Transition[i].priority \in Nat
<1>1. Transition \in Seq([from : SUBSET Step, to : SUBSET Step, priority : Nat])
  BY ChartAssumption DEF WellFormedChart
<1>2. \A i \in DOMAIN Transition :
        i \in Nat /\ Transition[i] \in [from : SUBSET Step, to : SUBSET Step, priority : Nat]
  BY <1>1, Elements, Zenon
<1>3. Len(Action) \in Nat /\ DOMAIN Action = 1 .. Len(Action)
  BY ChartAssumption DEF WellFormedChart
<1>4. QED
  BY <1>2, <1>3, ChartAssumption DEF WellFormedChart, ActionName

\* Both engines decide within the types of an action's control.
LEMMA DecisionType ==
  ASSUME NEW a \in ActionName, TypeOK
  PROVE  Decision(a).control \in Control /\ Decision(a).diagnosed \in BOOLEAN
<1>1. control[a] \in Control
  BY DEF TypeOK
<1>2. InterpreterDecides(Inputs(a), control[a]).diagnosed \in BOOLEAN
  BY DEF InterpreterDecides
<1>3. GeneratedDecides(Inputs(a), control[a]).diagnosed \in BOOLEAN
  BY DEF GeneratedDecides
<1>4. QED
  BY <1>1, <1>2, <1>3, InterpreterType, GeneratedType DEF Decision

\* A scan starts from the declared initial steps, with every control cleared.
LEMMA InitType == Init => ScanTypeOK
<1> SUFFICES ASSUME Init PROVE ScanTypeOK
  OBVIOUS
<1> USE DEF Init, InitEngine, InitScan
<1>1. InitialControl \in Control /\ 0 \in 0 .. Horizon
  BY TimeAssumption DEF InitialControl, Control
<1>2. 1 \in 1 .. Len(Action) + 1
  BY ChartTypes
<1>3. TypeOK
  BY <1>1, <1>2, ChartAssumption DEF TypeOK, WellFormedChart
<1>4. HistoryOK
  BY <1>1 DEF HistoryOK
<1>5. QED
  BY <1>3, <1>4 DEF ScanTypeOK

\* Every step of a scan keeps the types.
LEMMA ScanTypeStep ==
  ASSUME ScanTypeOK, [Next]_vars
  PROVE  ScanTypeOK'
<1> USE DEF ScanTypeOK, TypeOK, HistoryOK
<1>1. ASSUME NEW T \in SUBSET DOMAIN Transition, NEW R \in SUBSET Returning, Begin(T, R)
      PROVE  ScanTypeOK'
  <2>1. age' \in [Step -> 0 .. Horizon]
    <3>1. \A s \in Step : age[s] \in 0 .. Horizon
      OBVIOUS
    <3>2. \A s \in Step : Advance(age[s]) \in 0 .. Horizon
      BY <3>1, AdvanceType
    <3>3. 0 \in 0 .. Horizon
      BY TimeAssumption
    <3>4. QED
      BY <1>1, <3>2, <3>3 DEF Begin
  <2>2. cursor' \in 1 .. Len(Action) + 1
    BY <1>1, ChartTypes DEF Begin, BeginScan
  <2>3. QED
    BY <1>1, <2>1, <2>2, ReturningAssumption DEF Begin, BeginScan
<1>2. ASSUME Act
      PROVE  ScanTypeOK'
  <2> DEFINE a == Action[cursor]
  <2>1. cursor \in DOMAIN Action /\ cursor' \in 1 .. Len(Action) + 1
    <3>1. DOMAIN Action = 1 .. Len(Action)
      BY ChartAssumption DEF WellFormedChart
    <3>2. QED
      BY <1>2, <3>1, ChartTypes DEF Act, RunAction
  <2>2. a \in ActionName
    BY <2>1, ChartTypes
  <2>3. Decision(a).control \in Control /\ Decision(a).diagnosed \in BOOLEAN
    BY <2>2, DecisionType
  <2>4. control' \in [ActionName -> Control] /\ diagnosed' \in BOOLEAN
    BY <1>2, <2>3 DEF Act, RunAction
  <2>5. ran' \in SUBSET ActionName /\ phase' \in {"idle", "actions", "transitions"}
    BY <1>2, <2>2 DEF Act, RunAction
  <2>6. held' \in [ActionName -> BOOLEAN]
    <3> DEFINE h == \/ Active(Inputs(a), "S") \/ DelayPassed(a)
                    \/ held[a] /\ ~Active(Inputs(a), "R")
    <3>1. h \in BOOLEAN
      OBVIOUS
    <3>2. held' = [held EXCEPT ![a] = h]
      BY <1>2 DEF Act
    <3>3. QED
      BY <3>1, <3>2
  <2>7. /\ UNCHANGED <<steps, candidates, consumed>>
        /\ UNCHANGED <<truth, returning, age, before, offered, fired>>
    BY <1>2 DEF Act, RunAction, scan
  <2>8. QED
    BY <2>1, <2>4, <2>5, <2>6, <2>7
<1>3. ASSUME Evaluate
      PROVE  ScanTypeOK'
  BY <1>3 DEF Evaluate, EvaluateTransitions, scan
<1>4. ASSUME Apply
      PROVE  ScanTypeOK'
  <2>1. PICK i \in candidates :
          /\ candidates' = candidates \ {i}
          /\ IF Transition[i].from \cap consumed = {}
             THEN /\ steps' = (steps \ Transition[i].from) \cup Transition[i].to
                  /\ consumed' = consumed \cup Transition[i].from
             ELSE UNCHANGED <<steps, consumed>>
    BY <1>4 DEF Apply, ApplyTransition
  <2>2. Transition[i].from \subseteq Step /\ Transition[i].to \subseteq Step
    BY ChartTypes
  <2>3. steps' \in SUBSET Step /\ consumed' \in SUBSET Step
        /\ candidates' \in SUBSET DOMAIN Transition
    BY <2>1, <2>2
  <2>4. fired' \in SUBSET DOMAIN Transition
    BY <1>4 DEF Apply
  <2>5. /\ UNCHANGED <<control, phase, cursor, ran, diagnosed>>
        /\ UNCHANGED <<truth, returning, age, before, held, offered>>
    BY <1>4 DEF Apply, ApplyTransition, scan
  <2>6. QED
    BY <2>3, <2>4, <2>5
<1>5. ASSUME End
      PROVE  ScanTypeOK'
  BY <1>5 DEF End, EndScan, scan, history
<1>6. ASSUME UNCHANGED vars
      PROVE  ScanTypeOK'
  BY <1>6 DEF vars, engine, scan, history
<1>7. QED
  BY <1>1, <1>2, <1>3, <1>4, <1>5, <1>6 DEF Next

\* The controls, candidates and consumed steps of a scan keep their types, in
\* the interpreter and in the generated C, on every well-formed chart.
THEOREM ScanTypeCorrect == Spec => []ScanTypeOK
<1>1. ScanTypeOK /\ [Next]_vars => ScanTypeOK'
  BY ScanTypeStep
<1>2. QED
  BY <1>1, InitType, PTL DEF Spec
-----------------------------------------------------------------------------
(***************************************************************************)
(* Evolution.  The enabledness of a candidate is tested before the first   *)
(* transition is applied, and never again: what keeps the test good is     *)
(* that a step that was left is consumed.                                  *)
(***************************************************************************)
\* A candidate none of whose steps was consumed is still enabled.
CandidatesStayEnabled ==
  phase = "transitions" =>
    \A i \in candidates : Transition[i].from \cap consumed = {} => Enabled(i)

\* What was consumed was consumed by a transition that fired, and every
\* transition that fired precedes every one still to come.
FiredPrecede ==
  phase = "transitions" =>
    /\ \A s \in consumed : \E j \in fired : s \in Transition[j].from
    /\ \A j \in fired, i \in candidates : Precedes(j, i)

\* A transition that is enabled and true when the transitions are evaluated is
\* passed over only for one that precedes it by priority, then by position, and
\* takes one of its steps: independent transitions fire in the same scan.
ConflictsGoToPriority ==
  phase = "transitions" =>
    \A i \in offered \ (candidates \cup fired) :
      \E j \in fired : /\ Precedes(j, i)
                       /\ Transition[i].from \cap Transition[j].from # {}

Evolution ==
  /\ CandidatesStayEnabled
  /\ FiredPrecede
  /\ BranchKeepsOneToken
  /\ ConflictsGoToPriority

\* A branch that is conserved still holds one token when a transition all of
\* whose predecessors are active is applied.
LEMMA TokenMoves ==
  ASSUME ScanTypeOK, BranchKeepsOneToken, NEW i \in DOMAIN Transition,
         Transition[i].from \subseteq steps,
         steps' = (steps \ Transition[i].from) \cup Transition[i].to
  PROVE  BranchKeepsOneToken'
<1> SUFFICES ASSUME NEW P \in SUBSET Step, Conserved(P)
             PROVE  \E s \in P : steps' \cap P = {s}
  BY DEF BranchKeepsOneToken, Conserved
<1>1. PICK s \in P : steps \cap P = {s}
  BY DEF BranchKeepsOneToken
<1>2. CASE Transition[i].from \cap P = {} /\ Transition[i].to \cap P = {}
  BY <1>1, <1>2
<1>3. CASE \E f, t \in P : Transition[i].from \cap P = {f} /\ Transition[i].to \cap P = {t}
  <2>1. PICK f, t \in P : Transition[i].from \cap P = {f} /\ Transition[i].to \cap P = {t}
    BY <1>3
  <2>2. f = s
    BY <1>1, <2>1
  <2>3. steps' \cap P = {t}
    BY <1>1, <2>1, <2>2
  <2>4. QED
    BY <2>3
<1>4. QED
  BY <1>2, <1>3 DEF Conserved

\* The scan starts with one token in every conserved branch.
LEMMA InitEvolution == Init => Evolution
BY DEF Init, InitEngine, Evolution, CandidatesStayEnabled, FiredPrecede,
  BranchKeepsOneToken, ConflictsGoToPriority, Conserved

\* The next candidate is applied, or passed over for one that fired before.
LEMMA ApplyEvolution ==
  ASSUME ScanTypeOK, Evolution, Apply
  PROVE  Evolution'
<1> USE DEF Evolution
<1>1. phase = "transitions" /\ phase' = "transitions" /\ offered' = offered
  BY DEF Apply, ApplyTransition
<1>2. PICK i \in candidates :
        /\ First(i)
        /\ candidates' = candidates \ {i}
        /\ IF Transition[i].from \cap consumed = {}
           THEN /\ steps' = (steps \ Transition[i].from) \cup Transition[i].to
                /\ consumed' = consumed \cup Transition[i].from
           ELSE UNCHANGED <<steps, consumed>>
  BY DEF Apply, ApplyTransition
<1>3. i \in DOMAIN Transition /\ Transition[i].from # {}
  BY ChartTypes DEF ScanTypeOK, TypeOK
<1>4. \A j \in candidates' : Precedes(i, j)
  BY <1>2 DEF First
<1>5. CASE Transition[i].from \cap consumed = {}
  <2>1. /\ steps' = (steps \ Transition[i].from) \cup Transition[i].to
        /\ consumed' = consumed \cup Transition[i].from
    BY <1>2, <1>5
  <2>2. fired' = fired \cup {i}
    <3>1. consumed' # consumed
      BY <1>3, <1>5, <2>1
    <3>2. candidates \ candidates' = {i}
      BY <1>2
    <3>3. QED
      BY <3>1, <3>2 DEF Apply
  <2>3. CandidatesStayEnabled'
    BY <1>1, <1>2, <2>1 DEF CandidatesStayEnabled, Enabled
  <2>4. FiredPrecede'
    BY <1>1, <1>2, <1>4, <2>1, <2>2 DEF FiredPrecede, Precedes
  <2>5. BranchKeepsOneToken'
    <3>1. Transition[i].from \subseteq steps
      BY <1>1, <1>2, <1>5 DEF CandidatesStayEnabled, Enabled
    <3>2. QED
      BY <1>3, <2>1, <3>1, TokenMoves
  <2>6. ConflictsGoToPriority'
    BY <1>1, <1>2, <2>2 DEF ConflictsGoToPriority, Precedes
  <2>7. QED
    BY <2>3, <2>4, <2>5, <2>6
<1>6. CASE Transition[i].from \cap consumed # {}
  <2>1. UNCHANGED <<steps, consumed>>
    BY <1>2, <1>6
  <2>2. fired' = fired
    BY <2>1 DEF Apply
  <2>3. PICK j \in fired : Transition[i].from \cap Transition[j].from # {}
    BY <1>1, <1>6 DEF FiredPrecede
  <2>4. Precedes(j, i)
    BY <1>1, <1>2 DEF FiredPrecede
  <2>5. CandidatesStayEnabled' /\ FiredPrecede' /\ BranchKeepsOneToken'
    BY <1>1, <1>2, <2>1, <2>2
      DEF CandidatesStayEnabled, Enabled, FiredPrecede, Precedes, BranchKeepsOneToken, Conserved
  <2>6. ConflictsGoToPriority'
    BY <1>1, <1>2, <2>2, <2>3, <2>4 DEF ConflictsGoToPriority, Precedes
  <2>7. QED
    BY <2>5, <2>6
<1>7. QED
  BY <1>5, <1>6

\* Every step of a scan keeps the evolution's invariants.
LEMMA EvolutionStep ==
  ASSUME ScanTypeOK, Evolution, [Next]_vars
  PROVE  Evolution'
<1> USE DEF Evolution
<1>1. ASSUME UNCHANGED steps, phase' # "transitions"
      PROVE  Evolution'
  BY <1>1 DEF CandidatesStayEnabled, FiredPrecede, BranchKeepsOneToken,
    ConflictsGoToPriority, Conserved
<1>2. ASSUME NEW T, NEW R, Begin(T, R)
      PROVE  Evolution'
  BY <1>1, <1>2 DEF Begin, BeginScan
<1>3. ASSUME Act
      PROVE  Evolution'
  BY <1>1, <1>3 DEF Act, RunAction
<1>4. ASSUME Evaluate
      PROVE  Evolution'
  <2>1. /\ steps' = steps /\ consumed' = {} /\ fired' = {} /\ offered' = candidates'
        /\ \A i \in candidates' : Enabled(i)
    BY <1>4 DEF Evaluate, EvaluateTransitions
  <2>2. BranchKeepsOneToken'
    BY <2>1 DEF BranchKeepsOneToken, Conserved
  <2>3. QED
    BY <2>1, <2>2 DEF CandidatesStayEnabled, Enabled, FiredPrecede, ConflictsGoToPriority
<1>5. ASSUME Apply
      PROVE  Evolution'
  BY <1>5, ApplyEvolution
<1>6. ASSUME End
      PROVE  Evolution'
  BY <1>1, <1>6 DEF End, EndScan
<1>7. ASSUME UNCHANGED vars
      PROVE  Evolution'
  BY <1>7 DEF vars, engine, history, CandidatesStayEnabled, Enabled, FiredPrecede,
    Precedes, BranchKeepsOneToken, ConflictsGoToPriority, Conserved
<1>8. QED
  BY <1>2, <1>3, <1>4, <1>5, <1>6, <1>7 DEF Next

\* The invariants of the evolution, together.
LEMMA EvolutionCorrect == Spec => []Evolution
<1>1. ScanTypeOK /\ Evolution /\ [Next]_vars => Evolution'
  BY EvolutionStep
<1>2. QED
  BY <1>1, InitEvolution, ScanTypeCorrect, PTL DEF Spec

\* Every branch that no transition opens or closes on one side only holds
\* exactly one active step at every moment, on every well-formed chart, in the
\* interpreter and in the generated C, although several transitions are applied
\* in one scan and their steps were tested before the first was applied.
THEOREM BranchesKeepOneToken == Spec => []BranchKeepsOneToken
<1>1. Evolution => BranchKeepsOneToken
  BY DEF Evolution
<1>2. QED
  BY <1>1, EvolutionCorrect, PTL

\* A transition found enabled and true loses to an earlier one only, and only
\* for a step they share, on every well-formed chart and in both back ends.
THEOREM PriorityResolvesConflicts == Spec => []ConflictsGoToPriority
<1>1. Evolution => ConflictsGoToPriority
  BY DEF Evolution
<1>2. QED
  BY <1>1, EvolutionCorrect, PTL
-----------------------------------------------------------------------------
(***************************************************************************)
(* The chart as a net.  Until the scan ends the net stands at the marking  *)
(* the scan found; what was applied so far is what the net fires.          *)
(***************************************************************************)
\* The candidates were the transitions the net is able to fire.
OfferedIsAble ==
  /\ offered = Net!Able(before, truth)
  /\ candidates \subseteq offered
  /\ fired \subseteq offered \ candidates

\* A transition that had its turn precedes every one still to come, and fired
\* unless it lost a step to one that fired before.
DecidedInOrder ==
  \A i \in offered \ candidates :
    /\ \A j \in candidates : Precedes(i, j)
    /\ i \in fired <=> ~ \E j \in fired : Precedes(j, i) /\ Net!InConflict(j, i)

\* The steps are what the net makes of the transitions that fired.
StepsAreAfter ==
  /\ consumed = Net!Taken(fired)
  /\ steps = Net!After(before, fired)

NetInv ==
  phase = "transitions" =>
    /\ OfferedIsAble
    /\ DecidedInOrder
    /\ StepsAreAfter

\* The engine's order and the net's are one.
LEMMA SameOrder ==
  \A i, j : Net!Precedes(i, j) <=> Precedes(i, j)
BY DEF Precedes, Net!Precedes

\* The order of two transitions is strict, and any two are ordered.
LEMMA StrictOrder ==
  /\ \A i \in DOMAIN Transition : ~Precedes(i, i)
  /\ \A i, j \in DOMAIN Transition : Precedes(i, j) => ~Precedes(j, i)
  /\ \A i, j \in DOMAIN Transition : i # j => Precedes(i, j) \/ Precedes(j, i)
<1>1. \A i \in DOMAIN Transition : i \in Nat /\ Transition[i].priority \in Nat
  BY ChartTypes
<1>2. QED
  BY <1>1 DEF Precedes

\* Applying one more transition, preceded by all that fired, is firing it with
\* them: what it takes it takes from the markings of the others too.
LEMMA AfterOneMore ==
  ASSUME NEW M, NEW F, NEW i, F \cup {i} \subseteq DOMAIN Transition,
         \A j \in F : Precedes(j, i)
  PROVE  /\ Net!Taken(F \cup {i}) = Net!Taken(F) \cup Transition[i].from
         /\ Net!After(M, F \cup {i}) =
              (Net!After(M, F) \ Transition[i].from) \cup Transition[i].to
<1>1. Net!Taken(F \cup {i}) = Net!Taken(F) \cup Transition[i].from
  BY DEF Net!Taken
<1>2. \A j \in F \cup {i} : ~Net!Precedes(i, j)
  BY StrictOrder, SameOrder
<1>3. \A k \in F : Net!Precedes(k, i)
  BY SameOrder
<1>4. Net!Put(F \cup {i}) = (Net!Put(F) \ Transition[i].from) \cup Transition[i].to
  <2>1. ASSUME NEW s \in Net!Put(F \cup {i})
        PROVE  s \in Transition[i].to \/ (s \in Net!Put(F) /\ s \notin Transition[i].from)
    <3>1. PICK k \in F \cup {i} :
            /\ s \in Transition[k].to
            /\ \A j \in F \cup {i} : Net!Precedes(k, j) => s \notin Transition[j].from
      BY <2>1 DEF Net!Put
    <3>2. CASE k = i
      BY <3>1, <3>2
    <3>3. CASE k \in F
      <4>1. s \notin Transition[i].from
        BY <1>3, <3>1, <3>3
      <4>2. s \in Net!Put(F)
        BY <3>1, <3>3 DEF Net!Put
      <4>3. QED
        BY <4>1, <4>2
    <3>4. QED
      BY <3>2, <3>3
  <2>2. ASSUME NEW s \in Transition[i].to
        PROVE  s \in Net!Put(F \cup {i})
    BY <1>2 DEF Net!Put
  <2>3. ASSUME NEW s \in Net!Put(F), s \notin Transition[i].from
        PROVE  s \in Net!Put(F \cup {i})
    <3>1. PICK k \in F :
            /\ s \in Transition[k].to
            /\ \A j \in F : Net!Precedes(k, j) => s \notin Transition[j].from
      BY DEF Net!Put
    <3>2. \A j \in F \cup {i} : Net!Precedes(k, j) => s \notin Transition[j].from
      BY <2>3, <3>1
    <3>3. QED
      BY <3>1, <3>2 DEF Net!Put
  <2>4. QED
    BY <2>1, <2>2, <2>3
<1>5. QED
  BY <1>1, <1>4 DEF Net!After

\* Nothing fired yet: the net stands where it stood.
LEMMA AfterNone ==
  ASSUME NEW M
  PROVE  Net!Taken({}) = {} /\ Net!After(M, {}) = M
BY DEF Net!Taken, Net!Put, Net!After

\* The next candidate is fired with the others, or loses a step to one of them.
LEMMA ApplyNet ==
  ASSUME ScanTypeOK, NetInv, Apply
  PROVE  NetInv'
<1>1. /\ phase = "transitions" /\ phase' = "transitions"
      /\ offered' = offered /\ before' = before /\ truth' = truth
  BY DEF Apply, ApplyTransition, scan
<1>2. OfferedIsAble /\ DecidedInOrder /\ StepsAreAfter
  BY <1>1 DEF NetInv
<1>3. PICK i \in candidates :
        /\ First(i)
        /\ candidates' = candidates \ {i}
        /\ IF Transition[i].from \cap consumed = {}
           THEN /\ steps' = (steps \ Transition[i].from) \cup Transition[i].to
                /\ consumed' = consumed \cup Transition[i].from
           ELSE UNCHANGED <<steps, consumed>>
  BY DEF Apply, ApplyTransition
<1>4. /\ i \in DOMAIN Transition /\ fired \subseteq DOMAIN Transition
      /\ offered \subseteq DOMAIN Transition /\ Transition[i].from # {}
  BY ChartTypes DEF ScanTypeOK, TypeOK, HistoryOK
<1>5. /\ i \in offered /\ i \notin fired
      /\ offered \ candidates' = (offered \ candidates) \cup {i}
  BY <1>2, <1>3 DEF OfferedIsAble
<1>6. \A j \in offered \ candidates : Precedes(j, i) /\ ~Precedes(i, j)
  BY <1>2, <1>4, StrictOrder DEF DecidedInOrder
<1>7. \A j \in fired : j \in offered \ candidates /\ Precedes(j, i)
  BY <1>2, <1>6 DEF OfferedIsAble
<1>8. \A j \in candidates' : Precedes(i, j)
  BY <1>3 DEF First
<1>9. (\E j \in fired : Precedes(j, i) /\ Net!InConflict(j, i))
        <=> Transition[i].from \cap consumed # {}
  <2>1. Transition[i].from \cap consumed # {}
          <=> \E j \in fired : Transition[j].from \cap Transition[i].from # {}
    BY <1>2 DEF StepsAreAfter, Net!Taken
  <2>2. QED
    BY <1>7, <2>1 DEF Net!InConflict
<1>10. CASE Transition[i].from \cap consumed = {}
  <2>1. /\ steps' = (steps \ Transition[i].from) \cup Transition[i].to
        /\ consumed' = consumed \cup Transition[i].from
    BY <1>3, <1>10
  <2>2. fired' = fired \cup {i}
    <3>1. consumed' # consumed
      BY <1>4, <1>10, <2>1
    <3>2. candidates \ candidates' = {i}
      BY <1>3
    <3>3. QED
      BY <3>1, <3>2 DEF Apply
  <2>3. OfferedIsAble'
    BY <1>1, <1>2, <1>3, <1>5, <2>2 DEF OfferedIsAble, Net!Able
  <2>4. DecidedInOrder'
    <3> SUFFICES ASSUME NEW k \in (offered \ candidates) \cup {i}
                 PROVE  /\ \A j \in candidates' : Precedes(k, j)
                        /\ k \in fired' <=>
                             ~ \E j \in fired' : Precedes(j, k) /\ Net!InConflict(j, k)
      BY <1>1, <1>5 DEF DecidedInOrder, Precedes, Net!InConflict
    <3>1. CASE k = i
      <4>1. ~Precedes(i, i)
        BY <1>4, StrictOrder
      <4>2. ~ \E j \in fired : Precedes(j, i) /\ Net!InConflict(j, i)
        BY <1>9, <1>10
      <4>3. QED
        BY <1>8, <2>2, <3>1, <4>1, <4>2
    <3>2. CASE k \in offered \ candidates
      <4>1. k # i /\ ~Precedes(i, k)
        BY <1>3, <1>6, <3>2
      <4>2. /\ \A j \in candidates : Precedes(k, j)
            /\ k \in fired <=> ~ \E j \in fired : Precedes(j, k) /\ Net!InConflict(j, k)
        BY <1>2, <3>2 DEF DecidedInOrder
      <4>3. QED
        BY <1>3, <2>2, <4>1, <4>2
    <3>3. QED
      BY <3>1, <3>2
  <2>5. StepsAreAfter'
    <3>1. /\ Net!Taken(fired \cup {i}) = Net!Taken(fired) \cup Transition[i].from
          /\ Net!After(before, fired \cup {i}) =
               (Net!After(before, fired) \ Transition[i].from) \cup Transition[i].to
      BY <1>4, <1>7, AfterOneMore
    <3>2. /\ consumed' = Net!Taken(fired \cup {i})
          /\ steps' = Net!After(before, fired \cup {i})
      BY <1>2, <2>1, <3>1 DEF StepsAreAfter
    <3>3. QED
      BY <1>1, <2>2, <3>2 DEF StepsAreAfter, Net!Taken, Net!After, Net!Put, Net!Precedes
  <2>6. QED
    BY <2>3, <2>4, <2>5 DEF NetInv
<1>11. CASE Transition[i].from \cap consumed # {}
  <2>1. UNCHANGED <<steps, consumed>>
    BY <1>3, <1>11
  <2>2. fired' = fired
    BY <2>1 DEF Apply
  <2>3. OfferedIsAble'
    BY <1>1, <1>2, <1>3, <1>5, <2>2 DEF OfferedIsAble, Net!Able
  <2>4. DecidedInOrder'
    <3> SUFFICES ASSUME NEW k \in (offered \ candidates) \cup {i}
                 PROVE  /\ \A j \in candidates' : Precedes(k, j)
                        /\ k \in fired <=>
                             ~ \E j \in fired : Precedes(j, k) /\ Net!InConflict(j, k)
      BY <1>1, <1>5, <2>2 DEF DecidedInOrder, Precedes, Net!InConflict
    <3>1. CASE k = i
      BY <1>5, <1>8, <1>9, <1>11, <3>1
    <3>2. CASE k \in offered \ candidates
      BY <1>2, <1>3, <3>2 DEF DecidedInOrder
    <3>3. QED
      BY <3>1, <3>2
  <2>5. StepsAreAfter'
    BY <1>1, <1>2, <2>1, <2>2 DEF StepsAreAfter, Net!Taken, Net!After, Net!Put, Net!Precedes
  <2>6. QED
    BY <2>3, <2>4, <2>5 DEF NetInv
<1>12. QED
  BY <1>10, <1>11

\* Every step of a scan keeps the net's account of it.
LEMMA NetInvStep ==
  ASSUME ScanTypeOK, NetInv, [Next]_vars
  PROVE  NetInv'
<1>1. ASSUME phase' # "transitions"
      PROVE  NetInv'
  BY <1>1 DEF NetInv
<1>2. ASSUME NEW T, NEW R, Begin(T, R)
      PROVE  NetInv'
  BY <1>1, <1>2 DEF Begin, BeginScan
<1>3. ASSUME Act
      PROVE  NetInv'
  BY <1>1, <1>3 DEF Act, RunAction
<1>4. ASSUME Evaluate
      PROVE  NetInv'
  <2>1. /\ steps' = steps /\ consumed' = {} /\ fired' = {} /\ before' = steps
        /\ truth' = truth /\ offered' = candidates'
        /\ candidates' = {i \in truth : Enabled(i)}
    BY <1>4 DEF Evaluate, EvaluateTransitions, scan
  <2>2. OfferedIsAble'
    BY <2>1 DEF OfferedIsAble, Net!Able, Enabled
  <2>3. DecidedInOrder'
    BY <2>1 DEF DecidedInOrder
  <2>4. StepsAreAfter'
    BY <2>1 DEF StepsAreAfter, Net!Taken, Net!After, Net!Put
  <2>5. QED
    BY <2>2, <2>3, <2>4 DEF NetInv
<1>5. ASSUME Apply
      PROVE  NetInv'
  BY <1>5, ApplyNet
<1>6. ASSUME End
      PROVE  NetInv'
  BY <1>1, <1>6 DEF End, EndScan
<1>7. ASSUME UNCHANGED vars
      PROVE  NetInv'
  BY <1>7 DEF vars, engine, scan, history, NetInv, OfferedIsAble, DecidedInOrder,
    StepsAreAfter, Precedes, Net!Able, Net!InConflict, Net!Taken, Net!After, Net!Put,
    Net!Precedes
<1>8. QED
  BY <1>2, <1>3, <1>4, <1>5, <1>6, <1>7 DEF Next

\* Every step of an engine is a step of the net or none at all.
LEMMA NetStep ==
  ASSUME ScanTypeOK, NetInv, returning \subseteq Returning, [Next]_vars
  PROVE  [Net!Next]_(Net!nvars)
<1> USE DEF Net!nvars
<1>1. ASSUME NEW T \in SUBSET DOMAIN Transition, NEW R, Begin(T, R)
      PROVE  Net!Scan
  BY <1>1 DEF Begin, BeginScan, Net!Scan
<1>2. ASSUME Act
      PROVE  Net!Abandon \/ UNCHANGED Net!nvars
  <2> DEFINE a == Action[cursor]
  <2>1. /\ phase = "actions" /\ steps' = steps /\ truth' = truth
        /\ phase' = IF Decision(a).execute /\ LeavesScan(a) THEN "idle" ELSE phase
    BY <1>2 DEF Act, RunAction, scan
  <2>2. CASE Decision(a).execute /\ LeavesScan(a)
    BY <2>1, <2>2 DEF LeavesScan, Net!Abandon
  <2>3. CASE ~(Decision(a).execute /\ LeavesScan(a))
    BY <2>1, <2>3
  <2>4. QED
    BY <2>2, <2>3
<1>3. ASSUME Evaluate
      PROVE  UNCHANGED Net!nvars
  BY <1>3 DEF Evaluate, EvaluateTransitions, scan
<1>4. ASSUME Apply
      PROVE  UNCHANGED Net!nvars
  BY <1>4 DEF Apply, ApplyTransition, scan
<1>5. ASSUME End
      PROVE  Net!Fire
  <2>1. /\ phase = "transitions" /\ candidates = {} /\ phase' = "idle"
        /\ steps' = steps /\ truth' = truth
    BY <1>5 DEF End, EndScan, scan
  <2>2. OfferedIsAble /\ DecidedInOrder /\ steps = Net!After(before, fired)
    BY <2>1 DEF NetInv, StepsAreAfter
  <2>3. fired \subseteq truth
    BY <2>2 DEF OfferedIsAble, Net!Able
  <2>4. Net!Fires(before, truth, fired)
    BY <2>1, <2>2, SameOrder DEF OfferedIsAble, DecidedInOrder, Net!Fires
  <2>5. QED
    BY <2>1, <2>2, <2>3, <2>4 DEF Net!Fire
<1>6. ASSUME UNCHANGED vars
      PROVE  UNCHANGED Net!nvars
  BY <1>6 DEF vars, engine, scan, history
<1>7. QED
  BY <1>1, <1>2, <1>3, <1>4, <1>5, <1>6 DEF Next, Net!Next

\* What returns in a scan is what may return.
LEMMA ReturningCorrect == Spec => [](returning \subseteq Returning)
<1>1. Init => returning \subseteq Returning
  BY DEF Init, InitScan
<1>2. returning \subseteq Returning /\ [Next]_vars => (returning \subseteq Returning)'
  BY DEF Next, vars, scan, Begin, Act, Evaluate, Apply, End
<1>3. QED
  BY <1>1, <1>2, PTL DEF Spec

\* The net's account of a scan holds throughout.
LEMMA NetInvCorrect == Spec => []NetInv
<1>1. Init => NetInv
  BY DEF Init, InitEngine, NetInv
<1>2. ScanTypeOK /\ NetInv /\ [Next]_vars => NetInv'
  BY NetInvStep
<1>3. QED
  BY <1>1, <1>2, ScanTypeCorrect, PTL DEF Spec

\* On every well-formed chart both engines do what the net does: testing once,
\* sorting, and applying the candidates one after the other while they use up
\* steps is one firing from the marking the scan found.  Only a generated scan
\* that an action body left fires nothing.
THEOREM ChartsFireAsANet == Spec => FiresAsANet
<1>1. Init => Net!Init
  BY DEF Init, InitEngine, InitScan, Net!Init
<1>2. ScanTypeOK /\ NetInv /\ returning \subseteq Returning /\ [Next]_vars
        => [Net!Next]_(Net!nvars)
  BY NetStep
<1>3. QED
  BY <1>1, <1>2, ScanTypeCorrect, NetInvCorrect, ReturningCorrect, PTL
    DEF Spec, FiresAsANet, Net!Spec

\* Any set of transitions holds one that precedes all the others.
LEMMA FirstOfAny ==
  ASSUME NEW S \in SUBSET DOMAIN Transition, S # {}
  PROVE  \E i \in S : \A j \in S \ {i} : Precedes(i, j)
<1> DEFINE Rank == {Transition[i].priority : i \in S}
<1>1. \A i \in S : i \in Nat /\ Transition[i].priority \in Nat
  BY ChartTypes
<1>2. PICK p \in Rank : \A q \in Rank : ~ (<<q, p>> \in OpToRel(<, Nat))
  <2>1. Rank \subseteq Nat /\ Rank # {}
    BY <1>1
  <2> HIDE DEF Rank
  <2>2. QED
    BY <2>1, NatLessThanWellFounded, WFMin
<1> DEFINE Best == {i \in S : Transition[i].priority = p}
<1>3. PICK i \in Best : \A j \in Best : ~ (<<j, i>> \in OpToRel(<, Nat))
  <2>1. Best \subseteq Nat /\ Best # {}
    BY <1>1
  <2> HIDE DEF Best
  <2>2. QED
    BY <2>1, NatLessThanWellFounded, WFMin
<1>4. ASSUME NEW j \in S \ {i}
      PROVE  Precedes(i, j)
  <2>1. i \in Nat /\ j \in Nat /\ p \in Nat /\ Transition[j].priority \in Nat
    BY <1>1, <1>3
  <2>2. ~ (Transition[j].priority < p)
    BY <1>2, <2>1 DEF OpToRel
  <2>3. Transition[j].priority = p => ~ (j < i)
    BY <1>3, <2>1 DEF OpToRel
  <2>4. Transition[i].priority = p /\ j # i
    BY <1>3, <1>4
  <2>5. QED
    BY <2>1, <2>2, <2>3, <2>4 DEF Precedes
<1>5. QED
  BY <1>3, <1>4

\* The net has no choice: from one marking, with the same conditions true, two
\* sets that fire are one.
LEMMA FiringIsUnique ==
  ASSUME NEW M, NEW T \in SUBSET DOMAIN Transition, NEW F, NEW G,
         Net!Fires(M, T, F), Net!Fires(M, T, G)
  PROVE  F = G
<1> SUFFICES ASSUME F # G
             PROVE  FALSE
  OBVIOUS
<1> DEFINE D == (F \ G) \cup (G \ F)
<1>1. F \subseteq Net!Able(M, T) /\ G \subseteq Net!Able(M, T) /\ Net!Able(M, T) \subseteq T
  BY DEF Net!Fires, Net!Able
<1>2. D \in SUBSET DOMAIN Transition /\ D # {}
  BY <1>1
<1>3. PICK i \in D : \A j \in D \ {i} : Precedes(i, j)
  <2> HIDE DEF D
  <2>1. QED
    BY <1>2, FirstOfAny
<1>4. \A j \in F \cup G : Precedes(j, i) => j \in F /\ j \in G
  <2>1. i \in DOMAIN Transition
    BY <1>2, <1>3
  <2>2. ASSUME NEW j \in D, Precedes(j, i)
        PROVE  FALSE
    <3>1. j \in DOMAIN Transition
      BY <1>2
    <3> HIDE DEF D
    <3>2. QED
      BY <1>3, <2>1, <2>2, <3>1, StrictOrder
  <2>3. QED
    BY <2>2
<1>5. /\ i \in F <=> ~ \E j \in F : Net!Precedes(j, i) /\ Net!InConflict(j, i)
      /\ i \in G <=> ~ \E j \in G : Net!Precedes(j, i) /\ Net!InConflict(j, i)
  <2>1. i \in Net!Able(M, T)
    BY <1>1, <1>3
  <2>2. QED
    BY <2>1 DEF Net!Fires
<1>6. i \in F <=> i \in G
  BY <1>4, <1>5, SameOrder
<1>7. QED
  BY <1>3, <1>6

\* When a scan has no candidate left, what it applied is the one set the net
\* fires from the steps the scan found and the conditions that were true, and the
\* steps are what firing that set leaves.
ScanHasOneOutcome ==
  phase = "transitions" /\ candidates = {} =>
    /\ \A F : Net!Fires(before, truth, F) <=> F = fired
    /\ steps = Net!After(before, fired)

\* The outcome of a scan is settled by the steps active before it and by the
\* conditions that are true, whichever engine applies the candidates one after
\* the other: neither keeps anything from earlier scans, and no other set of
\* transitions would do.
THEOREM ScansHaveOneOutcome == Spec => []ScanHasOneOutcome
<1>1. ScanTypeOK /\ NetInv => ScanHasOneOutcome
  <2> SUFFICES ASSUME ScanTypeOK, NetInv, phase = "transitions", candidates = {}
               PROVE  /\ \A F : Net!Fires(before, truth, F) <=> F = fired
                      /\ steps = Net!After(before, fired)
    BY DEF ScanHasOneOutcome
  <2>1. OfferedIsAble /\ DecidedInOrder /\ steps = Net!After(before, fired)
    BY DEF NetInv, StepsAreAfter
  <2>2. Net!Fires(before, truth, fired)
    BY <2>1, SameOrder DEF OfferedIsAble, DecidedInOrder, Net!Fires
  <2>3. truth \in SUBSET DOMAIN Transition
    BY DEF ScanTypeOK, TypeOK
  <2>4. \A F : Net!Fires(before, truth, F) => F = fired
    BY <2>2, <2>3, FiringIsUnique
  <2>5. QED
    BY <2>1, <2>2, <2>4
<1>2. QED
  BY <1>1, ScanTypeCorrect, NetInvCorrect, PTL

\* The whole chart is made of branches that keep one token.
Covered == \A s \in Step : \E P \in SUBSET Step : s \in P /\ Conserved(P)

\* The marking the scan found keeps one token in each branch.
BeforeKeepsOneToken ==
  phase = "transitions" =>
    \A P \in SUBSET Step : Conserved(P) => \E s \in P : before \cap P = {s}

\* What was applied so far has taken all its tokens and put all its tokens.
FiredAtOnce ==
  phase = "transitions" =>
    steps = (before \ Net!Taken(fired)) \cup UNION {Transition[i].to : i \in fired}

\* The scan looks at the marking once and leaves it alone.
LEMMA BeforeStep ==
  ASSUME BranchKeepsOneToken, BeforeKeepsOneToken, [Next]_vars
  PROVE  BeforeKeepsOneToken'
<1>1. ASSUME phase' # "transitions"
      PROVE  BeforeKeepsOneToken'
  BY <1>1 DEF BeforeKeepsOneToken
<1>2. ASSUME Evaluate
      PROVE  BeforeKeepsOneToken'
  BY <1>2 DEF Evaluate, BranchKeepsOneToken, BeforeKeepsOneToken, Conserved
<1>3. ASSUME phase' = phase, before' = before
      PROVE  BeforeKeepsOneToken'
  BY <1>3 DEF BeforeKeepsOneToken, Conserved
<1>4. QED
  BY <1>1, <1>2, <1>3 DEF Next, Begin, BeginScan, Act, RunAction, Apply, ApplyTransition,
    End, EndScan, vars, engine, history

\* In a chart made of branches, no transition that fires leaves a step another
\* one enters in the same scan: both would need the token of that branch.
LEMMA NothingPutIsTaken ==
  ASSUME ScanTypeOK, Covered, NetInv, BeforeKeepsOneToken, phase = "transitions",
         NEW i \in fired, NEW j \in fired, Precedes(i, j), NEW s \in Transition[i].to
  PROVE  s \notin Transition[j].from
<1> SUFFICES ASSUME s \in Transition[j].from
             PROVE  FALSE
  OBVIOUS
<1>1. OfferedIsAble /\ DecidedInOrder
  BY DEF NetInv
<1>2. /\ i \in DOMAIN Transition /\ j \in DOMAIN Transition
      /\ Transition[i].from \subseteq before /\ Transition[j].from \subseteq before
      /\ j \in offered \ candidates
  BY <1>1 DEF ScanTypeOK, HistoryOK, OfferedIsAble, Net!Able
<1>3. Transition[i].from \cap Transition[j].from = {}
  BY <1>1, <1>2 DEF DecidedInOrder, Net!InConflict
<1>4. s \in Step
  BY <1>2, ChartTypes
<1>5. PICK P \in SUBSET Step : s \in P /\ Conserved(P)
  BY <1>4 DEF Covered
<1>6. PICK f, t \in P : Transition[i].from \cap P = {f} /\ Transition[i].to \cap P = {t}
  BY <1>2, <1>5 DEF Conserved
<1>7. PICK x \in P : before \cap P = {x}
  BY <1>5 DEF BeforeKeepsOneToken
<1>8. f = x /\ s = x
  BY <1>2, <1>5, <1>6, <1>7
<1>9. QED
  BY <1>3, <1>6, <1>8

\* Where nothing put is taken, the order of application leaves no trace.
LEMMA AllAtOnce ==
  ASSUME ScanTypeOK, Covered, NetInv, BeforeKeepsOneToken
  PROVE  FiredAtOnce
<1> SUFFICES ASSUME phase = "transitions"
             PROVE  steps = (before \ Net!Taken(fired)) \cup UNION {Transition[i].to : i \in fired}
  BY DEF FiredAtOnce
<1>1. steps = (before \ Net!Taken(fired)) \cup Net!Put(fired)
  BY DEF NetInv, StepsAreAfter, Net!After
<1>2. ASSUME NEW i \in fired, NEW s \in Transition[i].to
      PROVE  s \in Net!Put(fired)
  <2>1. \A j \in fired : Net!Precedes(i, j) => s \notin Transition[j].from
    BY <1>2, NothingPutIsTaken, SameOrder
  <2>2. QED
    BY <1>2, <2>1 DEF Net!Put
<1>3. Net!Put(fired) = UNION {Transition[i].to : i \in fired}
  BY <1>2 DEF Net!Put
<1>4. QED
  BY <1>1, <1>3

\* In a chart made of branches that keep one token, however its forks, joins and
\* choices are laid out, the order in which an engine applies the transitions of
\* a scan is immaterial: the scan takes every token of the transitions that fire
\* and puts every token they put.
THEOREM BranchedChartsFireAtOnce ==
  ASSUME Covered
  PROVE  Spec => []FiredAtOnce
<1>1. Init => BeforeKeepsOneToken
  BY DEF Init, InitEngine, BeforeKeepsOneToken
<1>2. BranchKeepsOneToken /\ BeforeKeepsOneToken /\ [Next]_vars => BeforeKeepsOneToken'
  BY BeforeStep
<1>3. ScanTypeOK /\ NetInv /\ BeforeKeepsOneToken => FiredAtOnce
  BY AllAtOnce
<1>4. QED
  BY <1>1, <1>2, <1>3, ScanTypeCorrect, NetInvCorrect, BranchesKeepOneToken, PTL DEF Spec
-----------------------------------------------------------------------------
(***************************************************************************)
(* Action control.  The engines keep a stored bit, the input of the last   *)
(* scan and an elapsed time for each action; the qualifiers are told by    *)
(* how long the steps have been active.  The two meet in every scan when   *)
(* the action has had its turn.                                            *)
(***************************************************************************)
\* Every scan comes to its transitions: no body returns from the scan function.
WholeScans == Engine = "interpreter" \/ Returning = {}

\* The action has been decided in this scan, or no scan is under way.
Turned(a) == phase = "actions" => \E i \in 1 .. cursor - 1 : Action[i] = a

Ruled(a) ==
  \/ \E q \in {"P", "P0", "L", "D", "SD", "DS"} : Single(a, q)
  \/ Only(a, {"N", "S", "R"})

\* What is stored is what was set, or delayed long enough, and not reset since.
StoredIsHeld ==
  \A a \in ActionName : Ruled(a) => (control[a].stored <=> held[a])

\* Without S, SD and DS nothing is held.
PlainIsNotHeld ==
  \A a \in ActionName : \A q \in {"P", "P0", "L", "D"} : Single(a, q) => ~held[a]

\* An edge action remembers whether its step was active in its last scan.
MemoryIsBefore ==
  \A a \in ActionName : \A q \in {"P", "P0"} :
    Single(a, q) =>
      (control[a].previous <=>
         Step1(a) \in IF phase = "actions" /\ Turned(a) THEN steps ELSE before)

\* The timer of an action that is not stored is the age of its step; before its
\* turn it is one cycle behind.
TimerIsAge ==
  \A a \in ActionName : \A q \in {"L", "D", "SD", "DS"} :
    Single(a, q) /\ ~control[a].stored =>
      age[Step1(a)] = IF Turned(a) THEN control[a].elapsed
                      ELSE IF Step1(a) \in steps THEN Advance(control[a].elapsed) ELSE 0

\* Only actions that had their turn have run.
RanHadTheirTurn == \A a \in ran : Turned(a)

QualifierInv ==
  /\ StoredIsHeld
  /\ PlainIsNotHeld
  /\ MemoryIsBefore
  /\ TimerIsAge
  /\ RanHadTheirTurn
  /\ returning \subseteq Returning

\* The inputs of an action are inputs, one for each association.
LEMMA InputsType ==
  ASSUME NEW a \in ActionName
  PROVE  /\ Inputs(a) \in Seq(Input) /\ DOMAIN Inputs(a) = DOMAIN Association[a]
         /\ \A i \in DOMAIN Association[a] :
              Association[a][i] \in [step : Step, qualifier : Qualifier, duration : 0 .. Horizon - 1]
<1>1. Association[a] \in Seq([step : Step, qualifier : Qualifier, duration : 0 .. Horizon - 1])
  BY ChartAssumption DEF WellFormedChart
<1>2. PICK n \in Nat : DOMAIN Association[a] = 1 .. n
  BY <1>1
<1>3. \A i \in DOMAIN Association[a] :
        Association[a][i] \in [step : Step, qualifier : Qualifier, duration : 0 .. Horizon - 1]
  BY <1>1, Elements, Zenon
<1>4. \A i \in 1 .. n : Inputs(a)[i] \in Input
  BY <1>2, <1>3, TimeAssumption DEF Inputs, Input
<1>5. DOMAIN Inputs(a) = 1 .. n /\ Inputs(a) = [i \in 1 .. n |-> Inputs(a)[i]]
  BY <1>2 DEF Inputs
<1>6. Inputs(a) \in [1 .. n -> Input]
  BY <1>4, <1>5
<1>7. Inputs(a) \in Seq(Input)
  BY <1>6
<1>8. QED
  BY <1>2, <1>3, <1>5, <1>7

\* An action with a single association, not SL, is decided alike by both
\* engines, from whether its step is active.
LEMMA SingleDecision ==
  ASSUME TypeOK, NEW a \in ActionName, NEW q \in Qualifier \ {"SL"}, Single(a, q)
  PROVE  /\ OneInput(Inputs(a), q, Step1(a) \in steps, Duration1(a))
         /\ Decision(a) = InterpreterDecides(Inputs(a), control[a])
         /\ Step1(a) \in Step /\ Duration1(a) \in Nat
<1>1. DOMAIN Association[a] = {1}
  <2>1. Association[a] \in Seq([step : Step, qualifier : Qualifier, duration : 0 .. Horizon - 1])
    BY ChartAssumption DEF WellFormedChart
  <2>2. QED
    BY <2>1 DEF Single
<1>2. /\ Inputs(a) \in Seq(Input)
      /\ DOMAIN Inputs(a) = {1}
      /\ Association[a][1] \in [step : Step, qualifier : Qualifier, duration : 0 .. Horizon - 1]
  BY <1>1, InputsType
<1>3. /\ Inputs(a)[1].qualifier = q
      /\ Inputs(a)[1].duration = Duration1(a)
      /\ Inputs(a)[1].active <=> Step1(a) \in steps
  BY <1>1 DEF Inputs, Single, Step1, Duration1
<1>4. /\ \A r : Active(Inputs(a), r) <=> r = q /\ Step1(a) \in steps
      /\ \A r : Has(Inputs(a), r) <=> r = q
  BY <1>2, <1>3 DEF Active, Has
<1>5. ~Contention(Inputs(a))
  BY <1>2 DEF Contention, ActiveTimed
<1>6. Step1(a) \in steps => ActiveDuration(Inputs(a), q) = Duration1(a)
  BY <1>2, <1>3 DEF ActiveDuration, Active
<1>7. Ordinary(Inputs(a))
  BY <1>2, <1>4, <1>5 DEF Ordinary
<1>8. control[a] \in Control
  BY DEF TypeOK
<1>9. Decision(a) = InterpreterDecides(Inputs(a), control[a])
  BY <1>2, <1>7, <1>8, DecisionsAgree DEF Decision
<1>10. QED
  BY <1>2, <1>4, <1>5, <1>6, <1>9, TimeAssumption DEF OneInput, Step1, Duration1

\* The decision an action's qualifiers ask for, of the invariant before it.
LEMMA HonouredDecision ==
  ASSUME ScanTypeOK, QualifierInv, NEW a \in ActionName, phase = "actions", ~Turned(a),
         NEW d, d = Decision(a),
         NEW h \in BOOLEAN,
         h <=> \/ Active(Inputs(a), "S")
               \/ DelayPassed(a)
               \/ held[a] /\ ~Active(Inputs(a), "R")
  PROVE  /\ Ruled(a) => (d.control.stored <=> h)
         /\ \A q \in {"P", "P0", "L", "D"} : Single(a, q) => ~h
         /\ \A q \in {"P", "P0"} :
              Single(a, q) =>
                /\ d.control.previous <=> Step1(a) \in steps
                /\ d.execute <=> IF q = "P" THEN Step1(a) \in steps /\ Step1(a) \notin before
                                 ELSE Step1(a) \notin steps /\ Step1(a) \in before
         /\ \A q \in {"L", "D", "SD", "DS"} :
              Single(a, q) /\ ~d.control.stored => age[Step1(a)] = d.control.elapsed
         /\ \A q \in {"L", "D"} :
              Single(a, q) =>
                (d.execute <=> /\ Step1(a) \in steps
                               /\ IF q = "L" THEN age[Step1(a)] <= Duration1(a)
                                  ELSE age[Step1(a)] >= Duration1(a))
         /\ Single(a, "SD") \/ Single(a, "DS") => (d.execute <=> h)
         /\ Only(a, {"N", "S", "R"}) =>
              (d.execute <=> /\ Active(Inputs(a), "N") \/ h
                             /\ ~Active(Inputs(a), "R"))
<1> USE DEF ScanTypeOK, QualifierInv
<1> DEFINE c  == control[a]
           on == Step1(a) \in steps
<1>1. c \in Control
  BY DEF TypeOK
<1>2. \A q : Single(a, q) => \A r : Single(a, r) => r = q
  BY DEF Single
<1>3. ASSUME NEW q \in {"P", "P0"}, Single(a, q)
      PROVE  /\ ~d.control.stored /\ ~h
             /\ d.control.previous <=> on
             /\ d.execute <=> IF q = "P" THEN on /\ Step1(a) \notin before
                              ELSE ~on /\ Step1(a) \in before
  <2>1. OneInput(Inputs(a), q, on, Duration1(a)) /\ d = InterpreterDecides(Inputs(a), c)
    BY <1>3, SingleDecision DEF Qualifier, TimedQualifier
  <2>2. ~held[a] /\ ~c.stored
    BY <1>3 DEF PlainIsNotHeld, StoredIsHeld, Ruled
  <2>3. ~h
    BY <1>3, <2>1, <2>2 DEF DelayPassed, OneInput, Single, Has, Inputs
  <2>4. c.previous <=> Step1(a) \in before
    BY <1>3 DEF MemoryIsBefore
  <2>5. on \in BOOLEAN
    OBVIOUS
  <2>6. /\ ~d.control.stored
        /\ d.control.previous <=> on
        /\ d.execute <=> IF q = "P" THEN on /\ ~c.previous ELSE ~on /\ c.previous
    <3> HIDE DEF on, c
    <3>1. QED
      BY <1>1, <2>1, <2>2, <2>5, EdgeDecision
  <2>7. QED
    BY <2>3, <2>4, <2>6
<1>4. ASSUME NEW q \in {"L", "D", "SD", "DS"}, Single(a, q), ~c.stored
      PROVE  age[Step1(a)] = IF on THEN Advance(c.elapsed) ELSE 0
  BY <1>4 DEF TimerIsAge
<1>5. ASSUME NEW q \in {"L", "D"}, Single(a, q)
      PROVE  /\ ~d.control.stored /\ ~h
             /\ age[Step1(a)] = d.control.elapsed
             /\ d.execute <=> /\ on
                              /\ IF q = "L" THEN age[Step1(a)] <= Duration1(a)
                                 ELSE age[Step1(a)] >= Duration1(a)
  <2>1. OneInput(Inputs(a), q, on, Duration1(a)) /\ d = InterpreterDecides(Inputs(a), c)
    BY <1>5, SingleDecision DEF Qualifier, TimedQualifier
  <2>2. ~held[a] /\ ~c.stored
    BY <1>5 DEF PlainIsNotHeld, StoredIsHeld, Ruled
  <2>3. ~h
    BY <1>5, <2>1, <2>2 DEF DelayPassed, OneInput, Single, Has, Inputs
  <2>4. on \in BOOLEAN
    OBVIOUS
  <2>5. LET e == Advance(c.elapsed)
        IN  /\ ~d.control.stored
            /\ d.control.elapsed = IF on THEN e ELSE 0
            /\ d.execute <=> on /\ IF q = "L" THEN e <= Duration1(a) ELSE e >= Duration1(a)
    <3> HIDE DEF on, c
    <3>1. QED
      BY <1>1, <2>1, <2>2, <2>4, TimerDecision
  <2>6. age[Step1(a)] = IF on THEN Advance(c.elapsed) ELSE 0
    BY <1>4, <1>5, <2>2
  <2>7. QED
    BY <2>3, <2>5, <2>6
<1>6. ASSUME NEW q \in {"SD", "DS"}, Single(a, q)
      PROVE  /\ d.control.stored <=> h
             /\ ~d.control.stored => age[Step1(a)] = d.control.elapsed
             /\ d.execute <=> h
  <2>1. OneInput(Inputs(a), q, on, Duration1(a)) /\ d = InterpreterDecides(Inputs(a), c)
    BY <1>6, SingleDecision DEF Qualifier, TimedQualifier
  <2>2. c.stored <=> held[a]
    BY <1>6 DEF StoredIsHeld, Ruled
  <2>3. h <=> held[a] \/ (on /\ age[Step1(a)] >= Duration1(a))
    <3>1. ~Active(Inputs(a), "S") /\ ~Active(Inputs(a), "R")
      BY <2>1 DEF OneInput
    <3>2. DOMAIN Association[a] = {1}
      <4>1. Association[a] \in Seq([step : Step, qualifier : Qualifier, duration : 0 .. Horizon - 1])
        BY ChartAssumption DEF WellFormedChart
      <4>2. QED
        BY <1>6, <4>1 DEF Single
    <3>3. DelayPassed(a) <=> on /\ age[Step1(a)] >= Duration1(a)
      BY <1>6, <3>2 DEF DelayPassed, Single, Step1, Duration1
    <3>4. QED
      BY <3>1, <3>3
  <2>4. on \in BOOLEAN
    OBVIOUS
  <2>5. LET e == Advance(c.elapsed)
        IN  /\ d.control.stored <=> c.stored \/ (on /\ e >= Duration1(a))
            /\ ~d.control.stored => d.control.elapsed = IF on THEN e ELSE 0
            /\ d.execute <=> d.control.stored
    <3> HIDE DEF on, c
    <3>1. QED
      BY <1>1, <2>1, <2>4, DelayDecision
  <2>6. ~c.stored => age[Step1(a)] = IF on THEN Advance(c.elapsed) ELSE 0
    BY <1>4, <1>6
  <2>7. QED
    BY <2>2, <2>3, <2>5, <2>6
<1>7. ASSUME Only(a, {"N", "S", "R"})
      PROVE  /\ d.control.stored <=> h
             /\ d.execute <=> /\ Active(Inputs(a), "N") \/ h
                              /\ ~Active(Inputs(a), "R")
  <2>1. \A i \in DOMAIN Inputs(a) : Inputs(a)[i].qualifier \in {"N", "S", "R"}
    BY <1>7 DEF Only, Inputs
  <2>2. d \in {InterpreterDecides(Inputs(a), c), GeneratedDecides(Inputs(a), c)}
    BY DEF Decision
  <2>3. /\ d.control.stored <=> Active(Inputs(a), "S") \/ (c.stored /\ ~Active(Inputs(a), "R"))
        /\ d.execute <=> /\ Active(Inputs(a), "N") \/ d.control.stored
                         /\ ~Active(Inputs(a), "R")
    BY <1>1, <2>1, <2>2, PlainDecision
  <2>4. ~DelayPassed(a)
    BY <1>7 DEF DelayPassed, Only
  <2>5. c.stored <=> held[a]
    BY <1>7 DEF StoredIsHeld, Ruled
  <2>6. QED
    BY <2>3, <2>4, <2>5
<1>8. Ruled(a) => (d.control.stored <=> h)
  BY <1>3, <1>5, <1>6, <1>7 DEF Ruled
<1>9. QED
  BY <1>3, <1>5, <1>6, <1>7, <1>8

\* Nothing is held, remembered or timed before the first scan.
LEMMA InitQualifier == Init => QualifierInv
<1> SUFFICES ASSUME Init PROVE QualifierInv
  OBVIOUS
<1>1. /\ \A a \in ActionName : control[a] = InitialControl /\ ~held[a]
      /\ phase = "idle" /\ before = {} /\ ran = {} /\ returning = {}
      /\ \A s \in Step : age[s] = 0
  BY DEF Init, InitEngine, InitScan
<1>2. ~InitialControl.stored /\ ~InitialControl.previous /\ InitialControl.elapsed = 0
  BY DEF InitialControl
<1>3. TimerIsAge
  <2> SUFFICES ASSUME NEW a \in ActionName, NEW q \in {"L", "D", "SD", "DS"}, Single(a, q)
               PROVE  age[Step1(a)] = control[a].elapsed
    BY <1>1 DEF TimerIsAge, Turned
  <2>1. TypeOK
    BY InitType DEF ScanTypeOK
  <2>2. Step1(a) \in Step
    BY <2>1, SingleDecision DEF Qualifier, TimedQualifier
  <2>3. QED
    BY <1>1, <1>2, <2>2
<1>4. StoredIsHeld /\ PlainIsNotHeld /\ MemoryIsBefore /\ RanHadTheirTurn
  BY <1>1, <1>2 DEF StoredIsHeld, PlainIsNotHeld, MemoryIsBefore, RanHadTheirTurn
<1>5. QED
  BY <1>1, <1>3, <1>4 DEF QualifierInv

\* When a scan begins every step's age is that of its timers plus one cycle.
LEMMA BeginQualifier ==
  ASSUME ScanTypeOK, QualifierInv, NEW T, NEW R \in SUBSET Returning, Begin(T, R)
  PROVE  QualifierInv'
<1> USE DEF QualifierInv
<1>1. /\ phase = "idle" /\ phase' = "actions" /\ cursor' = 1 /\ ran' = {}
      /\ steps' = steps /\ control' = control /\ before' = before /\ held' = held
      /\ age' = [s \in Step |-> IF s \in steps THEN Advance(age[s]) ELSE 0]
      /\ returning' = R
  BY DEF Begin, BeginScan
<1>2. \A a : Turned(a) /\ ~Turned(a)'
  BY <1>1 DEF Turned
<1>3. StoredIsHeld' /\ PlainIsNotHeld' /\ RanHadTheirTurn'
  BY <1>1 DEF StoredIsHeld, PlainIsNotHeld, RanHadTheirTurn
<1>4. MemoryIsBefore'
  BY <1>1, <1>2 DEF MemoryIsBefore
<1>5. TimerIsAge'
  <2> SUFFICES ASSUME NEW a \in ActionName, NEW q \in {"L", "D", "SD", "DS"}, Single(a, q),
                      ~control[a].stored
               PROVE  age'[Step1(a)] =
                        IF Step1(a) \in steps THEN Advance(control[a].elapsed) ELSE 0
    BY <1>1, <1>2 DEF TimerIsAge
  <2>1. Step1(a) \in Step
    BY SingleDecision DEF Qualifier, TimedQualifier, ScanTypeOK
  <2>2. age[Step1(a)] = control[a].elapsed
    BY <1>2 DEF TimerIsAge
  <2>3. QED
    BY <1>1, <2>1, <2>2
<1>6. QED
  BY <1>1, <1>3, <1>4, <1>5

\* The action whose turn it is: not decided yet in this scan, and afterwards it
\* is; the others are where they were.
LEMMA Turn ==
  ASSUME WholeScans, ScanTypeOK, QualifierInv, Act,
         NEW a, a = Action[cursor], NEW d, d = Decision(a)
  PROVE  /\ a \in ActionName /\ phase = "actions" /\ phase' = "actions"
         /\ ~Turned(a) /\ Turned(a)' /\ a \notin ran
         /\ \A b \in ActionName \ {a} : Turned(b)' <=> Turned(b)
         /\ control' = [control EXCEPT ![a] = d.control]
         /\ ran' = IF d.execute THEN ran \cup {a} ELSE ran
         /\ steps' = steps
         /\ returning' = returning /\ age' = age /\ before' = before
<1>1. /\ phase = "actions" /\ cursor \in Nat /\ cursor <= Len(Action)
      /\ cursor' = cursor + 1
      /\ control' = [control EXCEPT ![a] = d.control]
      /\ ran' = IF d.execute THEN ran \cup {a} ELSE ran
      /\ phase' = IF d.execute /\ LeavesScan(a) THEN "idle" ELSE phase
      /\ steps' = steps
  BY ChartTypes DEF Act, RunAction, ScanTypeOK, TypeOK
<1>2. returning' = returning /\ age' = age /\ before' = before
  BY DEF Act, scan
<1>3. DOMAIN Action = 1 .. Len(Action) /\ Len(Action) \in Nat /\ cursor \in 1 .. Len(Action)
  BY <1>1, ChartAssumption DEF WellFormedChart, ScanTypeOK, TypeOK
<1>4. a \in ActionName
  BY <1>3 DEF ActionName
<1>5. ~LeavesScan(a)
  BY DEF LeavesScan, WholeScans, QualifierInv
<1>6. phase' = "actions"
  BY <1>1, <1>5
<1>7. ~Turned(a)
  <2> SUFFICES ASSUME NEW i \in 1 .. cursor - 1, Action[i] = a
               PROVE  FALSE
    BY <1>1 DEF Turned
  <2>1. i \in DOMAIN Action /\ cursor \in DOMAIN Action /\ i # cursor
    BY <1>3
  <2>2. QED
    BY <2>1, ChartAssumption DEF WellFormedChart
<1>8. Turned(a)'
  <2>1. cursor \in 1 .. cursor' - 1
    BY <1>1, <1>3
  <2>2. QED
    BY <1>6, <2>1 DEF Turned
<1>9. \A b \in ActionName \ {a} : Turned(b)' <=> Turned(b)
  <2>1. 1 .. cursor' - 1 = (1 .. cursor - 1) \cup {cursor}
    BY <1>1, <1>3
  <2>2. QED
    BY <1>1, <1>6, <2>1 DEF Turned
<1>10. a \notin ran
  BY <1>7 DEF QualifierInv, RanHadTheirTurn
<1>11. QED
  BY <1>1, <1>2, <1>4, <1>6, <1>7, <1>8, <1>9, <1>10

\* What Act makes of the action whose turn it is.
LEMMA ActTurn ==
  ASSUME WholeScans, ScanTypeOK, QualifierInv, Act, NEW a, a = Action[cursor]
  PROVE  /\ held' = [held EXCEPT ![a] = held'[a]]
         /\ held'[a] \in BOOLEAN
         /\ held'[a] <=> \/ Active(Inputs(a), "S")
                         \/ DelayPassed(a)
                         \/ held[a] /\ ~Active(Inputs(a), "R")
<1> DEFINE h == \/ Active(Inputs(a), "S")
                \/ DelayPassed(a)
                \/ held[a] /\ ~Active(Inputs(a), "R")
<1>1. held' = [held EXCEPT ![a] = h] /\ h \in BOOLEAN
  BY DEF Act
<1>2. held \in [ActionName -> BOOLEAN] /\ a \in ActionName
  BY Turn DEF ScanTypeOK, HistoryOK
<1> HIDE DEF h
<1>3. held'[a] = h /\ held' = [held EXCEPT ![a] = held'[a]]
  BY <1>1, <1>2
<1>4. QED
  BY <1>1, <1>3 DEF h

\* A decision keeps the stored bits, edge memories and timers with the history.
LEMMA ActQualifier ==
  ASSUME WholeScans, ScanTypeOK, QualifierInv, Act
  PROVE  QualifierInv'
<1> SUFFICES ASSUME NEW a, a = Action[cursor], NEW d, d = Decision(a)
             PROVE  QualifierInv'
  OBVIOUS
<1>1. /\ a \in ActionName /\ phase = "actions" /\ phase' = "actions"
      /\ ~Turned(a) /\ Turned(a)' /\ a \notin ran
      /\ \A b \in ActionName \ {a} : Turned(b)' <=> Turned(b)
      /\ control' = [control EXCEPT ![a] = d.control]
      /\ ran' = IF d.execute THEN ran \cup {a} ELSE ran
      /\ steps' = steps
      /\ returning' = returning /\ age' = age /\ before' = before
  BY Turn
<1>2. /\ held' = [held EXCEPT ![a] = held'[a]]
      /\ held'[a] \in BOOLEAN
      /\ held'[a] <=> \/ Active(Inputs(a), "S")
                      \/ DelayPassed(a)
                      \/ held[a] /\ ~Active(Inputs(a), "R")
  BY ActTurn
<1>3. /\ Ruled(a) => (d.control.stored <=> held'[a])
      /\ \A q \in {"P", "P0", "L", "D"} : Single(a, q) => ~held'[a]
      /\ \A q \in {"P", "P0"} : Single(a, q) => (d.control.previous <=> Step1(a) \in steps)
      /\ \A q \in {"L", "D", "SD", "DS"} :
           Single(a, q) /\ ~d.control.stored => age[Step1(a)] = d.control.elapsed
  BY <1>1, <1>2, HonouredDecision
<1>4. /\ control'[a] = d.control
      /\ \A b \in ActionName \ {a} : control'[b] = control[b] /\ held'[b] = held[b]
  BY <1>1, <1>2 DEF ScanTypeOK, TypeOK, HistoryOK
<1>5. StoredIsHeld'
  BY <1>3, <1>4 DEF StoredIsHeld, QualifierInv
<1>6. PlainIsNotHeld'
  BY <1>3, <1>4 DEF PlainIsNotHeld, QualifierInv
<1>7. MemoryIsBefore'
  BY <1>1, <1>3, <1>4 DEF MemoryIsBefore, QualifierInv, Turned
<1>8. TimerIsAge'
  BY <1>1, <1>3, <1>4 DEF TimerIsAge, QualifierInv, Turned
<1>9. RanHadTheirTurn'
  BY <1>1 DEF RanHadTheirTurn, QualifierInv, ScanTypeOK, TypeOK, Turned
<1>10. QED
  BY <1>1, <1>5, <1>6, <1>7, <1>8, <1>9 DEF QualifierInv

\* Every step of a scan keeps the engines' memories with the history.
LEMMA QualifierStep ==
  ASSUME WholeScans, ScanTypeOK, QualifierInv, [Next]_vars
  PROVE  QualifierInv'
<1> USE DEF QualifierInv
<1>1. ASSUME NEW T \in SUBSET DOMAIN Transition, NEW R \in SUBSET Returning, Begin(T, R)
      PROVE  QualifierInv'
  BY <1>1, BeginQualifier
<1>2. ASSUME Act
      PROVE  QualifierInv'
  BY <1>2, ActQualifier
<1>3. ASSUME Evaluate
      PROVE  QualifierInv'
  <2>1. /\ phase = "actions" /\ phase' = "transitions" /\ cursor > Len(Action)
        /\ before' = steps
        /\ UNCHANGED <<steps, control, cursor, ran, returning, age, held>>
    BY <1>3 DEF Evaluate, EvaluateTransitions, scan
  <2>2. \A a \in ActionName : Turned(a) /\ Turned(a)'
    <3> SUFFICES ASSUME NEW i \in DOMAIN Action
                 PROVE  i \in 1 .. cursor - 1
      BY <2>1 DEF Turned, ActionName
    <3>1. QED
      BY <2>1, ChartTypes DEF ScanTypeOK, TypeOK
  <2>3. StoredIsHeld' /\ PlainIsNotHeld'
    BY <2>1 DEF StoredIsHeld, PlainIsNotHeld
  <2>4. MemoryIsBefore'
    BY <2>1, <2>2 DEF MemoryIsBefore
  <2>5. TimerIsAge'
    BY <2>1, <2>2 DEF TimerIsAge
  <2>6. RanHadTheirTurn'
    BY <2>1, <2>2 DEF RanHadTheirTurn, ScanTypeOK, TypeOK
  <2>7. QED
    BY <2>1, <2>3, <2>4, <2>5, <2>6
<1>4. ASSUME phase = "transitions", phase' # "actions",
             UNCHANGED <<control, ran, returning, age, before, held>>
      PROVE  QualifierInv'
  <2>1. \A a \in ActionName : Turned(a) /\ Turned(a)'
    BY <1>4 DEF Turned
  <2>2. StoredIsHeld' /\ PlainIsNotHeld'
    BY <1>4 DEF StoredIsHeld, PlainIsNotHeld
  <2>3. MemoryIsBefore'
    BY <1>4, <2>1 DEF MemoryIsBefore
  <2>4. TimerIsAge'
    BY <1>4, <2>1 DEF TimerIsAge
  <2>5. RanHadTheirTurn'
    BY <1>4, <2>1 DEF RanHadTheirTurn, ScanTypeOK, TypeOK
  <2>6. QED
    BY <1>4, <2>2, <2>3, <2>4, <2>5
<1>5. ASSUME Apply
      PROVE  QualifierInv'
  BY <1>4, <1>5 DEF Apply, ApplyTransition, scan
<1>6. ASSUME End
      PROVE  QualifierInv'
  BY <1>4, <1>6 DEF End, EndScan, scan, history
<1>7. ASSUME UNCHANGED vars
      PROVE  QualifierInv'
  BY <1>7 DEF vars, engine, scan, history, StoredIsHeld, PlainIsNotHeld, MemoryIsBefore,
    TimerIsAge, RanHadTheirTurn, Turned
<1>8. QED
  BY <1>1, <1>2, <1>3, <1>5, <1>6, <1>7 DEF Next

\* The action whose turn it is runs exactly when its qualifiers ask for it.
LEMMA HonouredStep ==
  ASSUME WholeScans, ScanTypeOK, QualifierInv, [Next]_vars, RunAction, vars' # vars
  PROVE  HonoursQualifiers
<1> DEFINE a == Action[cursor]
           d == Decision(a)
<1>1. Act
  <2>1. phase = "actions" /\ cursor <= Len(Action)
    BY DEF RunAction
  <2>2. ~ (cursor > Len(Action))
    BY <2>1, ChartTypes DEF ScanTypeOK, TypeOK
  <2>3. QED
    BY <2>1, <2>2 DEF Next, Begin, BeginScan, Evaluate, EvaluateTransitions, Apply,
      ApplyTransition, End, EndScan
<1>2. /\ a \in ActionName /\ phase = "actions" /\ ~Turned(a) /\ a \notin ran
      /\ ran' = IF d.execute THEN ran \cup {a} ELSE ran
  BY <1>1, Turn
<1>3. /\ held'[a] \in BOOLEAN
      /\ held'[a] <=> \/ Active(Inputs(a), "S")
                      \/ DelayPassed(a)
                      \/ held[a] /\ ~Active(Inputs(a), "R")
  BY <1>1, ActTurn
<1>4. a \in ran' <=> d.execute
  BY <1>2
<1>5. /\ \A q \in {"P", "P0"} :
           Single(a, q) =>
             (d.execute <=> IF q = "P" THEN Step1(a) \in steps /\ Step1(a) \notin before
                            ELSE Step1(a) \notin steps /\ Step1(a) \in before)
      /\ \A q \in {"L", "D"} :
           Single(a, q) =>
             (d.execute <=> /\ Step1(a) \in steps
                            /\ IF q = "L" THEN age[Step1(a)] <= Duration1(a)
                               ELSE age[Step1(a)] >= Duration1(a))
      /\ Single(a, "SD") \/ Single(a, "DS") => (d.execute <=> held'[a])
      /\ Only(a, {"N", "S", "R"}) =>
           (d.execute <=> /\ Active(Inputs(a), "N") \/ held'[a]
                          /\ ~Active(Inputs(a), "R"))
  BY <1>2, <1>3, HonouredDecision
<1> HIDE DEF a, d
<1>6. QED
  BY <1>4, <1>5 DEF a, HonoursQualifiers

\* Every action runs exactly when its qualifiers ask for it, told by how long
\* the steps have been active and not by what the engine stored, in every scan
\* of every well-formed chart: in the interpreter, and in the generated C when
\* no action body returns.
THEOREM QualifiersHonoured ==
  ASSUME WholeScans
  PROVE  Spec => QualifiersAreHonoured
<1>1. ScanTypeOK /\ QualifierInv /\ [Next]_vars => QualifierInv'
  BY QualifierStep
<1>2. Spec => []QualifierInv
  BY <1>1, InitQualifier, ScanTypeCorrect, PTL DEF Spec
<1>3. ScanTypeOK /\ QualifierInv /\ [Next]_vars => [RunAction => HonoursQualifiers]_vars
  BY HonouredStep
<1>4. QED
  BY <1>2, <1>3, ScanTypeCorrect, PTL DEF Spec, QualifiersAreHonoured
=============================================================================
