------------------------------ MODULE SfcEngine ------------------------------
(***************************************************************************)
(* One scan after the other of a Sequential Function Chart: first every    *)
(* declared action, then the transitions.  The same chart is run by the    *)
(* interpreter (execute_sfc of crates/iec_runtime/src/runtime.rs) or as    *)
(* generated C (emit_sfc_scan of crates/iec_c/src/functions.rs).           *)
(*                                                                         *)
(* What the action bodies and the transition conditions compute is left    *)
(* open: `truth' holds the transitions whose condition is true in a scan,  *)
(* `returning' the actions whose body reaches a RETURN.                    *)
(***************************************************************************)
EXTENDS SfcActionControl, FiniteSets

CONSTANTS
  Engine,        \* "interpreter" or "generated"
  Step,
  InitialSteps,  \* the steps declared INITIAL_STEP
  Action,        \* the declared actions, in order
  Association,   \* for each action, its associations in the order of the steps
  Transition     \* the transitions: from, to and priority, in order

ActionName == {Action[i] : i \in DOMAIN Action}

ASSUME EngineAssumption == Engine \in {"interpreter", "generated"}

\* What check_sfc admits: an initial step, transitions with both ends, timed
\* associations with a duration, actions of different names.
WellFormedChart ==
  /\ InitialSteps \subseteq Step /\ InitialSteps # {}
  /\ Action \in Seq(ActionName)
  /\ \A i, j \in DOMAIN Action : Action[i] = Action[j] => i = j
  /\ Association \in [ActionName ->
       Seq([step : Step, qualifier : Qualifier, duration : 0 .. Horizon - 1])]
  /\ Transition \in Seq([from : SUBSET Step, to : SUBSET Step, priority : Nat])
  /\ \A i \in DOMAIN Transition : Transition[i].from # {} /\ Transition[i].to # {}

ASSUME ChartAssumption == WellFormedChart

VARIABLES
  steps,       \* the active steps
  control,     \* the action control of each action
  phase,       \* "idle", "actions" or "transitions"
  cursor,      \* the action to decide next
  candidates,  \* transitions found enabled and true, not yet applied
  consumed,    \* steps used up by a transition of this scan
  ran,         \* the actions that ran in this scan
  diagnosed,   \* a contention was reported, in this scan or before
  truth,       \* transitions whose condition is true in this scan
  returning    \* actions whose body returns in this scan

engine == <<steps, control, phase, cursor, candidates, consumed, ran, diagnosed>>
scan   == <<truth, returning>>

TypeOK ==
  /\ steps \in SUBSET Step
  /\ control \in [ActionName -> Control]
  /\ phase \in {"idle", "actions", "transitions"}
  /\ cursor \in 1 .. Len(Action) + 1
  /\ candidates \in SUBSET DOMAIN Transition
  /\ consumed \in SUBSET Step
  /\ ran \in SUBSET ActionName
  /\ diagnosed \in BOOLEAN
  /\ truth \in SUBSET DOMAIN Transition
  /\ returning \in SUBSET ActionName
-----------------------------------------------------------------------------
\* The inputs of an action's control: its associations, active with their step.
Inputs(a) ==
  [i \in DOMAIN Association[a] |->
     [qualifier |-> Association[a][i].qualifier,
      duration  |-> Association[a][i].duration,
      active    |-> Association[a][i].step \in steps]]

Decision(a) ==
  IF Engine = "interpreter" THEN InterpreterDecides(Inputs(a), control[a])
  ELSE GeneratedDecides(Inputs(a), control[a])

\* Mutant of Enabled: one active predecessor is enough.
EnabledByOne(i) == Transition[i].from \cap steps # {}
Enabled(i) == Transition[i].from \subseteq steps

\* Sorted by priority, then by position.
Precedes(i, j) ==
  \/ Transition[i].priority < Transition[j].priority
  \/ Transition[i].priority = Transition[j].priority /\ i < j

\* Mutant of First: the declaration order alone.
FirstDeclared(i) == i \in candidates /\ \A j \in candidates \ {i} : i < j
First(i) == i \in candidates /\ \A j \in candidates \ {i} : Precedes(i, j)

InitEngine ==
  /\ steps = InitialSteps
  /\ control = [a \in ActionName |-> InitialControl]
  /\ phase = "idle"
  /\ cursor = 1
  /\ candidates = {}
  /\ consumed = {}
  /\ ran = {}
  /\ diagnosed = FALSE

InitScan == truth = {} /\ returning = {}

BeginScan ==
  /\ phase = "idle"
  /\ phase' = "actions"
  /\ cursor' = 1
  /\ ran' = {}
  /\ UNCHANGED <<steps, control, candidates, consumed, diagnosed>>

(***************************************************************************)
(* Decide the next action and run it.  A RETURN in the body ends the       *)
(* action in the interpreter; the generated C prints it as the `return' of *)
(* the function that holds the whole scan.                                 *)
(***************************************************************************)
LeavesScan(a) == Engine = "generated" /\ a \in returning

RunAction ==
  /\ phase = "actions"
  /\ cursor <= Len(Action)
  /\ LET a == Action[cursor]
         d == Decision(a)
     IN  /\ control' = [control EXCEPT ![a] = d.control]
         /\ diagnosed' = (diagnosed \/ d.diagnosed)
         /\ ran' = IF d.execute THEN ran \cup {a} ELSE ran
         /\ phase' = IF d.execute /\ LeavesScan(a) THEN "idle" ELSE phase
  /\ cursor' = cursor + 1
  /\ UNCHANGED <<steps, candidates, consumed>>

EvaluateTransitions ==
  /\ phase = "actions"
  /\ cursor > Len(Action)
  /\ candidates' = {i \in truth : Enabled(i)}
  /\ consumed' = {}
  /\ phase' = "transitions"
  /\ UNCHANGED <<steps, control, cursor, ran, diagnosed>>

\* Mutant of ApplyTransition: two transitions may use the same step.
ApplyUnconsumed ==
  /\ phase = "transitions"
  /\ \E i \in candidates :
       /\ First(i)
       /\ candidates' = candidates \ {i}
       /\ steps' = (steps \ Transition[i].from) \cup Transition[i].to
       /\ consumed' = consumed \cup Transition[i].from
  /\ UNCHANGED <<control, phase, cursor, ran, diagnosed>>

\* Apply the next candidate, unless one of its steps was used up before.
ApplyTransition ==
  /\ phase = "transitions"
  /\ \E i \in candidates :
       /\ First(i)
       /\ candidates' = candidates \ {i}
       /\ IF Transition[i].from \cap consumed = {}
          THEN /\ steps' = (steps \ Transition[i].from) \cup Transition[i].to
               /\ consumed' = consumed \cup Transition[i].from
          ELSE UNCHANGED <<steps, consumed>>
  /\ UNCHANGED <<control, phase, cursor, ran, diagnosed>>

EndScan ==
  /\ phase = "transitions"
  /\ candidates = {}
  /\ phase' = "idle"
  /\ UNCHANGED <<steps, control, cursor, candidates, consumed, ran, diagnosed>>

Advances == RunAction \/ EvaluateTransitions \/ ApplyTransition \/ EndScan
=============================================================================
