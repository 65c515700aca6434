-------------------------- MODULE SfcActionControl --------------------------
(***************************************************************************)
(* The action control of a Sequential Function Chart: whether an action    *)
(* runs in this scan, from the qualifiers of its associations.  The chart  *)
(* interpreter (crates/iec_runtime) decides it in                          *)
(* sfc_action_should_execute, the generated C in the code printed by       *)
(* emit_sfc_action_execution (crates/iec_c).                               *)
(***************************************************************************)
EXTENDS Integers, Sequences

CONSTANTS
  Cycle,     \* cycle_time_ms, RBCPP_CYCLE_MS
  Horizon    \* bound on elapsed times, above every duration

ASSUME TimeAssumption == Cycle \in Nat \ {0} /\ Horizon \in Nat

TimedQualifier == {"L", "D", "SD", "DS", "SL"}
Qualifier      == {"N", "S", "R", "P", "P0"} \cup TimedQualifier

\* What one association contributes in one scan.
Input   == [qualifier : Qualifier, duration : 0 .. Horizon, active : BOOLEAN]
\* What an action keeps from scan to scan.
Control == [stored : BOOLEAN, previous : BOOLEAN, elapsed : 0 .. Horizon]

InitialControl == [stored |-> FALSE, previous |-> FALSE, elapsed |-> 0]

ActiveInputs(inputs, q) ==
  {i \in DOMAIN inputs : inputs[i].active /\ inputs[i].qualifier = q}

Has(inputs, q)    == \E i \in DOMAIN inputs : inputs[i].qualifier = q
Active(inputs, q) == \E i \in DOMAIN inputs : inputs[i].active /\ inputs[i].qualifier = q

ActiveTimed(inputs) ==
  {i \in DOMAIN inputs : inputs[i].active /\ inputs[i].qualifier \in TimedQualifier}

Advance(elapsed) == IF elapsed + Cycle > Horizon THEN Horizon ELSE elapsed + Cycle

(***************************************************************************)
(* What the two back ends share: R clears the stored state, S sets it,     *)
(* and N and the edges of P and P0 run the action.  P and P0 share one     *)
(* memory of the previous scan.                                            *)
(***************************************************************************)
Reset(inputs, c) ==
  IF Active(inputs, "R") THEN [c EXCEPT !.stored = FALSE, !.elapsed = 0] ELSE c

Remember(inputs, c) ==
  [c EXCEPT !.previous = Active(inputs, "P") \/ Active(inputs, "P0")]

Set(inputs, c) ==
  IF Active(inputs, "S") THEN [c EXCEPT !.stored = TRUE] ELSE c

\* Mutant of Untimed: a P action runs as long as its step is active.
UntimedLevel(inputs, c) ==
  \/ Active(inputs, "N") \/ Active(inputs, "P")
  \/ Has(inputs, "P0") /\ ~Active(inputs, "P0") /\ c.previous

Untimed(inputs, c) ==
  \/ Active(inputs, "N")
  \/ Active(inputs, "P") /\ ~c.previous
  \/ Has(inputs, "P0") /\ ~Active(inputs, "P0") /\ c.previous

Prepared(inputs, c) == Set(inputs, Remember(inputs, Reset(inputs, c)))
-----------------------------------------------------------------------------
(***************************************************************************)
(* The interpreter.  More than one active timed input is diagnosed, and    *)
(* then nothing else happens to the action.                                *)
(***************************************************************************)
Contention(inputs) == \E i, j \in ActiveTimed(inputs) : i # j

\* The duration of the active input with this qualifier; none is zero.
ActiveDuration(inputs, q) ==
  IF Active(inputs, q)
  THEN LET i == CHOOSE i \in DOMAIN inputs :
                  inputs[i].active /\ inputs[i].qualifier = q
       IN inputs[i].duration
  ELSE 0

\* Advance the timer of the active timed input, or stop it.
InterpreterTimer(inputs, c) ==
  LET e == Advance(c.elapsed)
      Reached(q) == Active(inputs, q) /\ e >= ActiveDuration(inputs, q)
  IN  IF \E q \in {"L", "D"} : Active(inputs, q)
      THEN [c EXCEPT !.elapsed = e]
      ELSE IF \E q \in {"SD", "DS"} : Active(inputs, q)
      THEN [c EXCEPT !.elapsed = e,
                     !.stored = @ \/ Reached("SD") \/ Reached("DS")]
      ELSE IF c.stored THEN c
      ELSE [c EXCEPT !.elapsed = 0, !.stored = Active(inputs, "SL")]

\* Mutant of InterpreterRuns: D runs in the one scan its duration ends in.
InterpreterRunsOnce(inputs, c) ==
  \/ Active(inputs, "L") /\ c.elapsed <= ActiveDuration(inputs, "L")
  \/ Active(inputs, "D") /\ c.elapsed = ActiveDuration(inputs, "D")
  \/ c.stored

\* L and D run the action by the timer; a stored action runs.
InterpreterRuns(inputs, c) ==
  \/ Active(inputs, "L") /\ c.elapsed <= ActiveDuration(inputs, "L")
  \/ Active(inputs, "D") /\ c.elapsed >= ActiveDuration(inputs, "D")
  \/ c.stored

InterpreterDecides(inputs, c) ==
  LET p    == InterpreterTimer(inputs, Prepared(inputs, c))
      e    == Advance(p.elapsed)
      runs == Untimed(inputs, c) \/ InterpreterRuns(inputs, p)
      SL   == Has(inputs, "SL") /\ p.stored
      kept == e <= ActiveDuration(inputs, "SL")
  IN  IF Contention(inputs)
      THEN [control |-> c, execute |-> FALSE, diagnosed |-> TRUE]
      ELSE [control   |-> IF SL THEN [p EXCEPT !.elapsed = e, !.stored = kept] ELSE p,
            execute   |-> (IF SL THEN kept ELSE runs) /\ ~Active(inputs, "R"),
            diagnosed |-> FALSE]
-----------------------------------------------------------------------------
(***************************************************************************)
(* The generated C.  Each timed qualifier has an `if' of its own, the      *)
(* duration is that of the first association with the qualifier, active or *)
(* not, and nothing looks for contention.                                  *)
(***************************************************************************)
FirstDuration(inputs, q) ==
  IF Has(inputs, q)
  THEN LET i == CHOOSE i \in DOMAIN inputs :
                  /\ inputs[i].qualifier = q
                  /\ \A j \in DOMAIN inputs : inputs[j].qualifier = q => i <= j
       IN inputs[i].duration
  ELSE 0

Timed(inputs, q, c) ==
  IF Active(inputs, q) THEN [c EXCEPT !.elapsed = Advance(@)] ELSE c

Delayed(inputs, q, c) ==
  LET t == Timed(inputs, q, c)
  IN  [t EXCEPT !.stored = @ \/ /\ Active(inputs, q)
                                /\ t.elapsed >= FirstDuration(inputs, q)]

\* `if (a || b && !stored)': the negation binds to the last SL step only.
Relatches(inputs, c) ==
  \E i \in ActiveInputs(inputs, "SL") :
    \/ \E j \in DOMAIN inputs : j > i /\ inputs[j].qualifier = "SL"
    \/ ~c.stored

Latched(inputs, c) ==
  IF Relatches(inputs, c) THEN [c EXCEPT !.stored = TRUE, !.elapsed = 0] ELSE c

\* A stored action with a limited input is kept for the duration.
Limited(inputs, c) ==
  IF Has(inputs, "SL") /\ c.stored
  THEN [c EXCEPT !.elapsed = Advance(@),
                 !.stored  = Advance(c.elapsed) <= FirstDuration(inputs, "SL")]
  ELSE c

\* Mutant of StopTimer: the timer runs on when its step is left.
StopTimerNever(inputs, c) == c

StopTimer(inputs, c) ==
  IF ActiveTimed(inputs) = {} /\ ~c.stored THEN [c EXCEPT !.elapsed = 0] ELSE c

GeneratedDecides(inputs, c) ==
  LET l    == Timed(inputs, "L", Prepared(inputs, c))
      d    == Timed(inputs, "D", l)
      ds   == Delayed(inputs, "DS", Delayed(inputs, "SD", d))
      end  == Limited(inputs, Latched(inputs, ds))
      runs == \/ Untimed(inputs, c)
              \/ Active(inputs, "L") /\ l.elapsed <= FirstDuration(inputs, "L")
              \/ Active(inputs, "D") /\ d.elapsed >= FirstDuration(inputs, "D")
              \/ end.stored
  IN  [control   |-> StopTimer(inputs, end),
       execute   |-> runs /\ ~Active(inputs, "R"),
       diagnosed |-> FALSE]
-----------------------------------------------------------------------------
\* Where the back ends are meant to agree: at most one active timed input,
\* one duration per qualifier, and no stored and limited input.
Ordinary(inputs) ==
  /\ ~Contention(inputs)
  /\ ~Has(inputs, "SL")
  /\ \A i, j \in DOMAIN inputs :
       inputs[i].qualifier = inputs[j].qualifier => inputs[i].duration = inputs[j].duration
=============================================================================
