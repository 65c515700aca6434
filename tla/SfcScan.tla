------------------------------- MODULE SfcScan -------------------------------
(***************************************************************************)
(* The scans of one chart on one engine, with the history that says what   *)
(* the qualifiers of an action ask for.                                    *)
(***************************************************************************)
EXTENDS SfcEngine

CONSTANT Returning   \* the actions whose body may reach a RETURN

ASSUME ReturningAssumption == Returning \subseteq ActionName

(* History variables: they guard nothing.                                  *)
VARIABLES
  age,       \* how long each step has been active without a break
  before,    \* the steps active in the last scan
  held,      \* actions set, or whose delay was reached, and not reset since
  offered,   \* the candidates of this scan
  fired      \* the transitions applied in this scan

history == <<age, before, held, offered, fired>>
vars    == <<engine, scan, history>>

HistoryOK ==
  /\ age \in [Step -> 0 .. Horizon]
  /\ before \in SUBSET Step
  /\ held \in [ActionName -> BOOLEAN]
  /\ offered \in SUBSET DOMAIN Transition
  /\ fired \in SUBSET DOMAIN Transition

ScanTypeOK == TypeOK /\ HistoryOK

Init ==
  /\ InitEngine
  /\ InitScan
  /\ age = [s \in Step |-> 0]
  /\ before = {}
  /\ held = [a \in ActionName |-> FALSE]
  /\ offered = {}
  /\ fired = {}

\* A scan begins: the program's variables settle what is true and what returns.
Begin(T, R) ==
  /\ BeginScan
  /\ truth' = T
  /\ returning' = R
  /\ age' = [s \in Step |-> IF s \in steps THEN Advance(age[s]) ELSE 0]
  /\ UNCHANGED <<before, held, offered, fired>>

\* The delay of a stored and delayed association of a has passed.
DelayPassed(a) ==
  \E i \in DOMAIN Association[a] :
    /\ Association[a][i].qualifier \in {"SD", "DS"}
    /\ Association[a][i].step \in steps
    /\ age[Association[a][i].step] >= Association[a][i].duration

Act ==
  /\ RunAction
  /\ LET a == Action[cursor]
     IN  held' = [held EXCEPT ![a] =
                    \/ Active(Inputs(a), "S")
                    \/ DelayPassed(a)
                    \/ @ /\ ~Active(Inputs(a), "R")]
  /\ UNCHANGED <<scan, age, before, offered, fired>>

Evaluate ==
  /\ EvaluateTransitions
  /\ before' = steps
  /\ offered' = candidates'
  /\ fired' = {}
  /\ UNCHANGED <<scan, age, held>>

Apply ==
  /\ ApplyTransition
  /\ fired' = IF consumed' = consumed THEN fired
              ELSE fired \cup (candidates \ candidates')
  /\ UNCHANGED <<scan, age, before, held, offered>>

End ==
  /\ EndScan
  /\ UNCHANGED <<scan, history>>

Next ==
  \/ \E T \in SUBSET DOMAIN Transition, R \in SUBSET Returning : Begin(T, R)
  \/ Act
  \/ Evaluate
  \/ Apply
  \/ End

Spec == Init /\ [][Next]_vars

\* The program is scanned for ever.
FairSpec == Spec /\ WF_vars(Next)
-----------------------------------------------------------------------------
(***************************************************************************)
(* Evolution.                                                              *)
(***************************************************************************)
\* P holds one token at first, and every transition that takes a token out of
\* P puts one back.
Conserved(P) ==
  /\ \E s \in P : InitialSteps \cap P = {s}
  /\ \A i \in DOMAIN Transition :
       \/ Transition[i].from \cap P = {} /\ Transition[i].to \cap P = {}
       \/ \E f, t \in P : Transition[i].from \cap P = {f} /\ Transition[i].to \cap P = {t}

\* Each branch of a chart keeps exactly one active step, in the middle of a
\* scan too, however many transitions are true at once: a step is used up by one
\* transition of the scan only, and simultaneous branches join only together.
BranchKeepsOneToken ==
  \A P \in SUBSET Step : Conserved(P) => \E s \in P : steps \cap P = {s}

\* The chart as a net whose marking changes once in a scan: while transitions are
\* applied one after the other it still stands where the scan found it.
Net == INSTANCE SfcNet
  WITH Abandons <- Engine = "generated" /\ Returning # {},
       marking  <- IF phase = "transitions" THEN before ELSE steps,
       scanning <- phase # "idle"

\* Testing the predecessors once, sorting, and applying the candidates one by one
\* while they use up steps amounts to firing in a single step, from the marking
\* the scan found: every conflict goes to the transition that precedes, by
\* priority and then by position, a loser takes nothing from anyone, and
\* independent transitions fire in the same scan.
FiresAsANet == Net!Spec

(***************************************************************************)
(* Action control.                                                         *)
(***************************************************************************)
Single(a, q) == Len(Association[a]) = 1 /\ Association[a][1].qualifier = q
Only(a, Q)   == \A i \in DOMAIN Association[a] : Association[a][i].qualifier \in Q
Step1(a)     == Association[a][1].step
Duration1(a) == Association[a][1].duration

\* What an action's qualifiers ask for, told by the history of the steps and
\* not by the stored bits, edge memories and timers the engines keep: P runs in
\* the first scan of an activation, P0 in the first scan after it, L for the
\* duration, D from the duration on, SD and DS from the duration until a reset,
\* S from a set to a reset, and R keeps the action from running.
HonoursQualifiers ==
  LET a == Action[cursor]
      Runs == a \in ran'
      On == Step1(a) \in steps
  IN  /\ Single(a, "P")  => (Runs <=> On /\ Step1(a) \notin before)
      /\ Single(a, "P0") => (Runs <=> ~On /\ Step1(a) \in before)
      /\ Single(a, "L")  => (Runs <=> On /\ age[Step1(a)] <= Duration1(a))
      /\ Single(a, "D")  => (Runs <=> On /\ age[Step1(a)] >= Duration1(a))
      /\ Single(a, "SD") \/ Single(a, "DS") => (Runs <=> held'[a])
      /\ Only(a, {"N", "S", "R"}) =>
           (Runs <=> /\ Active(Inputs(a), "N") \/ held'[a]
                     /\ ~Active(Inputs(a), "R"))

QualifiersAreHonoured == [][RunAction => HonoursQualifiers]_vars

\* A delayed action whose step stays active runs again and again, as long as
\* the program is scanned.
DelayedActionsRun ==
  \A i \in DOMAIN Action :
    Single(Action[i], "D") =>
      (<>[](Step1(Action[i]) \in steps) => []<>(Action[i] \in ran))
=============================================================================
