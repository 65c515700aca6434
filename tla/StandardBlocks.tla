---------------------------- MODULE StandardBlocks ----------------------------
(***************************************************************************)
(* The standard function blocks: bistables, edge detectors, counters and   *)
(* timers, as the interpreter runs them (execute_fb_call of                *)
(* crates/iec_runtime) and as crates/iec_c emits them.                     *)
(***************************************************************************)
EXTENDS Integers

CONSTANTS
  Cycle,        \* cycle_time_ms, RBCPP_CYCLE_MS: the time of one call
  Truth(_, _),  \* the value of a condition, on what an argument sees
  Value(_, _)   \* the value of an amount

ASSUME CycleAssumption == Cycle \in Nat \ {0}

Kind == {"SR", "RS", "R_TRIG", "F_TRIG", "CTU", "CTD", "CTUD", "TON", "TOF", "TP"}

(***************************************************************************)
(* The values a call gives a block: S1, S, CLK, CU, CD or IN in a, the CD  *)
(* of CTUD in b, R or R1 in r, LD in ld, PV or PT in preset.               *)
(***************************************************************************)
Inputs == [a : BOOLEAN, b : BOOLEAN, r : BOOLEAN, ld : BOOLEAN, preset : Int]

(***************************************************************************)
(* What a block keeps: Q, Q1 or QU, QD, the inputs of the last call (_IN,  *)
(* M, _CU, _CD), _RUN, ET and CV.                                          *)
(***************************************************************************)
Block == [q : BOOLEAN, qd : BOOLEAN, was : BOOLEAN, wasB : BOOLEAN, run : BOOLEAN,
          et : Int, cv : Int]

FreshBlock == [q |-> FALSE, qd |-> FALSE, was |-> FALSE, wasB |-> FALSE, run |-> FALSE,
               et |-> 0, cv |-> 0]

(***************************************************************************)
(* The arguments of a call are expressions without effects.  They may read *)
(* the outputs of the instance itself, as in IN := NOT t.Q.                *)
(***************************************************************************)
Seen(s) == [q |-> s.q, qd |-> s.qd, et |-> s.et, cv |-> s.cv]

Holds(e, s)  == Truth(e, Seen(s))
Amount(e, s) == Value(e, Seen(s))

\* The interpreter evaluates each argument once, on the fields before the call.
Given(c, s) == [a |-> Holds(c.a, s), b |-> Holds(c.b, s), r |-> Holds(c.r, s),
                ld |-> Holds(c.ld, s), preset |-> Amount(c.preset, s)]

Least(m, n) == IF m <= n THEN m ELSE n
-----------------------------------------------------------------------------
(***************************************************************************)
(* Bistables and edges: the two back ends compute one expression.          *)
(***************************************************************************)
SR(s, x)    == [s EXCEPT !.q = x.a \/ (@ /\ ~x.r)]
RS(s, x)    == [s EXCEPT !.q = (@ \/ x.a) /\ ~x.r]
RTrig(s, x) == [s EXCEPT !.q = x.a /\ ~s.was, !.was = x.a]
FTrig(s, x) == [s EXCEPT !.q = ~x.a /\ s.was, !.was = x.a]
-----------------------------------------------------------------------------
(***************************************************************************)
(* The interpreter.  The edge memory of a counter stands still while the   *)
(* counter is reset or loaded.                                             *)
(***************************************************************************)
\* Mutant of CTU: the edge memory follows the input under a reset too.
CTUTracking(s, x) ==
  LET v == IF x.r THEN 0 ELSE IF x.a /\ ~s.was THEN s.cv + 1 ELSE s.cv
  IN  [s EXCEPT !.cv = v, !.was = x.a, !.q = v >= x.preset]

CTU(s, x) ==
  LET v == IF x.r THEN 0 ELSE IF x.a /\ ~s.was THEN s.cv + 1 ELSE s.cv
  IN  [s EXCEPT !.cv = v, !.was = IF x.r THEN @ ELSE x.a, !.q = v >= x.preset]

CTD(s, x) ==
  LET v == IF x.ld THEN x.preset ELSE IF x.a /\ ~s.was THEN s.cv - 1 ELSE s.cv
  IN  [s EXCEPT !.cv = v, !.was = IF x.ld THEN @ ELSE x.a, !.q = v <= 0]

CTUD(s, x) ==
  LET up   == x.a /\ ~s.was
      down == x.b /\ ~s.wasB
      held == x.r \/ x.ld
      v    == IF x.r THEN 0
              ELSE IF x.ld THEN x.preset
              ELSE IF up /\ ~down THEN s.cv + 1
              ELSE IF down /\ ~up THEN s.cv - 1
              ELSE s.cv
  IN  [s EXCEPT !.cv = v, !.q = v >= x.preset, !.qd = v <= 0,
                !.was = IF held THEN @ ELSE x.a, !.wasB = IF held THEN @ ELSE x.b]

\* PT, never below zero.
Preset(x) == IF x.preset < 0 THEN 0 ELSE x.preset

TON(s, x) ==
  LET e == Least(s.et + Cycle, Preset(x))
  IN  [s EXCEPT !.et = IF x.a THEN e ELSE 0, !.q = x.a /\ e >= Preset(x), !.was = x.a]

\* Mutant of TOF: the elapsed time is kept when the input comes back.
TOFUncleared(s, x) ==
  LET e == Least(s.et + Cycle, Preset(x))
  IN  [s EXCEPT !.et = IF ~x.a /\ s.q THEN e ELSE @,
                !.q = x.a \/ (@ /\ e < Preset(x)),
                !.was = x.a]

TOF(s, x) ==
  LET e == Least(s.et + Cycle, Preset(x))
  IN  [s EXCEPT !.et = IF x.a THEN 0 ELSE IF s.q THEN e ELSE @,
                !.q = x.a \/ (@ /\ e < Preset(x)),
                !.was = x.a]

\* Mutant of TP: a rise starts the pulse again.
TPRetriggered(s, x) ==
  LET rises == x.a /\ ~s.was
      runs  == rises \/ s.run
      e     == Least((IF rises THEN 0 ELSE s.et) + Cycle, Preset(x))
  IN  [s EXCEPT !.et = IF runs THEN e ELSE @, !.q = runs /\ e < Preset(x),
                !.run = runs /\ e < Preset(x), !.was = x.a]

\* A rise starts a pulse unless one is running.
TP(s, x) ==
  LET rises == x.a /\ ~s.was /\ ~s.run
      runs  == rises \/ s.run
      e     == Least((IF rises THEN 0 ELSE s.et) + Cycle, Preset(x))
  IN  [s EXCEPT !.et = IF runs THEN e ELSE @, !.q = runs /\ e < Preset(x),
                !.run = runs /\ e < Preset(x), !.was = x.a]

Interpreted(k, s, x) ==
  CASE k = "SR" -> SR(s, x)
    [] k = "RS" -> RS(s, x)
    [] k = "R_TRIG" -> RTrig(s, x)
    [] k = "F_TRIG" -> FTrig(s, x)
    [] k = "CTU" -> CTU(s, x)
    [] k = "CTD" -> CTD(s, x)
    [] k = "CTUD" -> CTUD(s, x)
    [] k = "TON" -> TON(s, x)
    [] k = "TOF" -> TOF(s, x)
    [] k = "TP" -> TP(s, x)
-----------------------------------------------------------------------------
(***************************************************************************)
(* The generated C, statement after statement; PT is not bounded below.    *)
(* The text of an argument stands wherever it is needed and is evaluated   *)
(* there, on the fields as they are by then.                               *)
(***************************************************************************)
EmittedCTU(s, c) ==
  LET up == Holds(c.a, s)
      v  == IF Holds(c.r, s) THEN [s EXCEPT !.cv = 0]
            ELSE [s EXCEPT !.cv = IF up /\ ~s.was THEN @ + 1 ELSE @, !.was = up]
  IN  [v EXCEPT !.q = v.cv >= Amount(c.preset, v)]

EmittedCTD(s, c) ==
  LET down == Holds(c.a, s)
      v    == IF Holds(c.ld, s) THEN [s EXCEPT !.cv = Amount(c.preset, s)]
              ELSE [s EXCEPT !.cv = IF down /\ ~s.was THEN @ - 1 ELSE @, !.was = down]
  IN  [v EXCEPT !.q = v.cv <= 0]

\* Mutant of EmittedCTUD: `if up, else if down'.
EmittedCTUDUpFirst(s, c) ==
  LET x    == Given(c, s)
      up   == x.a /\ ~s.was
      down == x.b /\ ~s.wasB
      v    == IF x.r THEN [s EXCEPT !.cv = 0]
              ELSE IF x.ld THEN [s EXCEPT !.cv = x.preset]
              ELSE [s EXCEPT !.was = x.a, !.wasB = x.b,
                             !.cv = IF up THEN @ + 1 ELSE IF down THEN @ - 1 ELSE @]
  IN  [v EXCEPT !.q = v.cv >= Amount(c.preset, v), !.qd = v.cv <= 0]

EmittedCTUD(s, c) ==
  LET x    == Given(c, s)   \* CU, CD, R, LD and the PV of a load
      up   == x.a /\ ~s.was
      down == x.b /\ ~s.wasB
      v    == IF x.r THEN [s EXCEPT !.cv = 0]
              ELSE IF x.ld THEN [s EXCEPT !.cv = x.preset]
              ELSE [s EXCEPT !.was = x.a, !.wasB = x.b,
                             !.cv = IF up /\ ~down THEN @ + 1
                                    ELSE IF down /\ ~up THEN @ - 1 ELSE @]
  IN  [v EXCEPT !.q = v.cv >= Amount(c.preset, v), !.qd = v.cv <= 0]

\* Both timers: ET moves on to the PT of before, Q is decided by the PT of after.
Elapse(s, c) == [s EXCEPT !.et = Least(@ + Cycle, Amount(c.preset, s))]
Due(s, c)    == s.et >= Amount(c.preset, s)

EmittedTON(s, c) ==
  LET e == Elapse(s, c)
      t == IF ~Holds(c.a, s) THEN [s EXCEPT !.q = FALSE, !.et = 0]
           ELSE [e EXCEPT !.q = Due(e, c)]
  IN  [t EXCEPT !.was = Holds(c.a, t)]

EmittedTOF(s, c) ==
  LET e == Elapse(s, c)
      t == IF Holds(c.a, s) THEN [s EXCEPT !.q = TRUE, !.et = 0]
           ELSE IF s.q THEN [e EXCEPT !.q = ~Due(e, c)]
           ELSE s
  IN  [t EXCEPT !.was = Holds(c.a, t)]

EmittedTP(s, c) ==
  LET in == Holds(c.a, s)
      i  == IF in /\ ~s.was /\ ~s.run THEN [s EXCEPT !.run = TRUE, !.et = 0, !.q = TRUE]
            ELSE s
      e  == Elapse(i, c)
      t  == IF i.run THEN [e EXCEPT !.run = ~Due(e, c), !.q = ~Due(e, c)]
            ELSE [i EXCEPT !.q = FALSE]
  IN  [t EXCEPT !.was = in]

Emitted(k, s, c) ==
  CASE k = "SR" -> SR(s, Given(c, s))
    [] k = "RS" -> RS(s, Given(c, s))
    [] k = "R_TRIG" -> RTrig(s, Given(c, s))
    [] k = "F_TRIG" -> FTrig(s, Given(c, s))
    [] k = "CTU" -> EmittedCTU(s, c)
    [] k = "CTD" -> EmittedCTD(s, c)
    [] k = "CTUD" -> EmittedCTUD(s, c)
    [] k = "TON" -> EmittedTON(s, c)
    [] k = "TOF" -> EmittedTOF(s, c)
    [] k = "TP" -> EmittedTP(s, c)
=============================================================================
