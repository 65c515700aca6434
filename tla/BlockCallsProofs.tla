-------------------------- MODULE BlockCallsProofs --------------------------
(***************************************************************************)
(* The standard function blocks for every cycle time, preset and sequence  *)
(* of calls.                                                               *)
(***************************************************************************)
EXTENDS BlockCalls, TLAPS

\* The inputs a call may have.
Offered == [a : BOOLEAN, b : BOOLEAN, r : BOOLEAN, ld : BOOLEAN, preset : Presets]

\* A preset on offer is a natural number below the horizon.
LEMMA PresetType ==
  ASSUME NEW y \in Offered
  PROVE  y.preset \in Nat /\ y.preset < Horizon /\ Preset(y) = y.preset
<1>1. y.preset \in Presets
  BY DEF Offered
<1>2. y.preset \in Nat /\ y.preset < Horizon
  BY <1>1, BoundsAssumption
<1>3. QED
  BY <1>2 DEF Preset

\* Inputs on offer are inputs.
LEMMA OfferedType == ASSUME NEW y \in Offered PROVE y \in Inputs /\ y.preset \in Presets
<1>1. y.preset \in Presets /\ y.preset \in Int
  BY PresetType DEF Offered
<1>2. y = [a |-> y.a, b |-> y.b, r |-> y.r, ld |-> y.ld, preset |-> y.preset]
  BY DEF Offered
<1>3. y.a \in BOOLEAN /\ y.b \in BOOLEAN /\ y.r \in BOOLEAN /\ y.ld \in BOOLEAN
  BY DEF Offered
<1>4. QED
  BY <1>1, <1>2, <1>3 DEF Inputs

(***************************************************************************)
(* The timers, field by field.                                             *)
(***************************************************************************)
\* The elapsed time after one more call, bounded by the preset.
Elapsed(t, y) == Least(t + Cycle, y.preset)

\* It is a time of the history.
LEMMA ElapsedType ==
  ASSUME NEW t \in Time, NEW y \in Offered
  PROVE  Elapsed(t, y) \in Time /\ 0 \in Time /\ Time \subseteq Int
BY PresetType, CycleAssumption, BoundsAssumption DEF Elapsed, Time, Least

\* A delay after a call: its time, its output and its memory of IN.
Delayed(s, e, q, w) == [s EXCEPT !.et = e, !.q = q, !.was = w]

\* What TON and TOF compute; p is the PT their time is compared with.
OnTime(s, y)    == IF y.a THEN Elapsed(s.et, y) ELSE 0
OnOut(s, y, p)  == y.a /\ Elapsed(s.et, y) >= p
OffTime(s, y)   == IF y.a THEN 0 ELSE IF s.q THEN Elapsed(s.et, y) ELSE s.et
OffOut(s, y, p) == y.a \/ (s.q /\ ~(Elapsed(s.et, y) >= p))

\* A pulse after a call.
Pulsing(s, e, q, w) == [s EXCEPT !.et = e, !.q = q, !.run = q, !.was = w]

\* A call that starts a pulse, and one a pulse is on in.
Starts(s, y) == y.a /\ ~s.was /\ ~s.run
Pulses(s, y) == Starts(s, y) \/ s.run
Pulsed(s, y) == Elapsed(IF Starts(s, y) THEN 0 ELSE s.et, y)

\* What TP computes from the time of the pulse and from whether it is over.
PulseTime(s, y, e) == IF Pulses(s, y) THEN e ELSE s.et
PulseOut(s, y, d)  == Pulses(s, y) /\ ~d

\* The times of a block are numbers.
LEMMA ElapsedNumber ==
  ASSUME NEW s \in Block, NEW y \in Offered
  PROVE  /\ Elapsed(s.et, y) \in Int /\ Pulsed(s, y) \in Int /\ y.preset \in Int
         /\ Preset(y) = y.preset
BY PresetType, CycleAssumption DEF Elapsed, Pulsed, Least, Block

\* The timers of the interpreter in one record each.
LEMMA TimerFields ==
  ASSUME NEW s \in Block, NEW y \in Offered
  PROVE  /\ TON(s, y) = Delayed(s, OnTime(s, y), OnOut(s, y, y.preset), y.a)
         /\ TOF(s, y) = Delayed(s, OffTime(s, y), OffOut(s, y, y.preset), y.a)
         /\ TP(s, y) = Pulsing(s, PulseTime(s, y, Pulsed(s, y)),
                               PulseOut(s, y, Pulsed(s, y) >= y.preset), y.a)
<1>1. TON(s, y) = Delayed(s, OnTime(s, y), OnOut(s, y, y.preset), y.a)
  BY ElapsedNumber DEF TON, Elapsed, Delayed, OnTime, OnOut
<1>2. TOF(s, y) = Delayed(s, OffTime(s, y), OffOut(s, y, y.preset), y.a)
  <2> DEFINE e == Elapsed(s.et, y)
  <2>1. TOF(s, y) = [s EXCEPT !.et = OffTime(s, y), !.q = y.a \/ (s.q /\ e < y.preset), !.was = y.a]
    BY ElapsedNumber DEF TOF, Elapsed, OffTime
  <2>2. (e < y.preset) = ~(e >= y.preset)
    BY ElapsedNumber
  <2> HIDE DEF e
  <2>3. (y.a \/ (s.q /\ e < y.preset)) = (y.a \/ (s.q /\ ~(e >= y.preset)))
    BY <2>2
  <2>4. QED
    BY <2>1, <2>3 DEF Delayed, OffOut, e
<1>3. TP(s, y) = Pulsing(s, PulseTime(s, y, Pulsed(s, y)),
                         PulseOut(s, y, Pulsed(s, y) >= y.preset), y.a)
  <2> DEFINE e == Pulsed(s, y)
             q == Pulses(s, y) /\ e < y.preset
  <2>1. TP(s, y) = [s EXCEPT !.et = PulseTime(s, y, e), !.q = q, !.run = q, !.was = y.a]
    BY ElapsedNumber DEF TP, Elapsed, Starts, Pulses, Pulsed, PulseTime
  <2>2. (e < y.preset) = ~(e >= y.preset)
    BY ElapsedNumber
  <2> HIDE DEF e
  <2>3. q = PulseOut(s, y, e >= y.preset)
    BY <2>2 DEF PulseOut
  <2> HIDE DEF q
  <2>4. QED
    BY <2>1, <2>3 DEF Pulsing, e
<1>4. QED
  BY <1>1, <1>2, <1>3

\* The fields of the timers after a call.
LEMMA TimerValues ==
  ASSUME NEW s \in Block, NEW y \in Offered
  PROVE  /\ TON(s, y).et = IF y.a THEN Elapsed(s.et, y) ELSE 0
         /\ TON(s, y).q <=> y.a /\ Elapsed(s.et, y) >= y.preset
         /\ TOF(s, y).et = IF y.a THEN 0 ELSE IF s.q THEN Elapsed(s.et, y) ELSE s.et
         /\ TOF(s, y).q <=> y.a \/ (s.q /\ Elapsed(s.et, y) < y.preset)
         /\ TP(s, y).et = IF Pulses(s, y) THEN Pulsed(s, y) ELSE s.et
         /\ TP(s, y).q <=> Pulses(s, y) /\ Pulsed(s, y) < y.preset
         /\ TP(s, y).run <=> Pulses(s, y) /\ Pulsed(s, y) < y.preset
         /\ TP(s, y).was <=> y.a
<1>1. ASSUME NEW e, NEW q, NEW w
      PROVE  /\ Delayed(s, e, q, w).et = e /\ Delayed(s, e, q, w).q = q
             /\ Pulsing(s, e, q, w).et = e /\ Pulsing(s, e, q, w).q = q
             /\ Pulsing(s, e, q, w).run = q /\ Pulsing(s, e, q, w).was = w
  BY DEF Delayed, Pulsing, Block
<1>2. /\ TON(s, y).et = OnTime(s, y) /\ TON(s, y).q = OnOut(s, y, y.preset)
      /\ TOF(s, y).et = OffTime(s, y) /\ TOF(s, y).q = OffOut(s, y, y.preset)
  BY <1>1, TimerFields
<1>3. /\ TP(s, y).et = PulseTime(s, y, Pulsed(s, y))
      /\ TP(s, y).q = PulseOut(s, y, Pulsed(s, y) >= y.preset)
      /\ TP(s, y).run = PulseOut(s, y, Pulsed(s, y) >= y.preset)
      /\ TP(s, y).was = y.a
  BY <1>1, TimerFields
<1>4. /\ ~(Elapsed(s.et, y) >= y.preset) <=> Elapsed(s.et, y) < y.preset
      /\ ~(Pulsed(s, y) >= y.preset) <=> Pulsed(s, y) < y.preset
  BY ElapsedNumber
<1>5. /\ TON(s, y).et = IF y.a THEN Elapsed(s.et, y) ELSE 0
      /\ TON(s, y).q <=> y.a /\ Elapsed(s.et, y) >= y.preset
  BY <1>2 DEF OnTime, OnOut
<1>6. /\ TOF(s, y).et = IF y.a THEN 0 ELSE IF s.q THEN Elapsed(s.et, y) ELSE s.et
      /\ TOF(s, y).q <=> y.a \/ (s.q /\ Elapsed(s.et, y) < y.preset)
  BY <1>2, <1>4 DEF OffTime, OffOut
<1>7. /\ TP(s, y).et = IF Pulses(s, y) THEN Pulsed(s, y) ELSE s.et
      /\ TP(s, y).q <=> Pulses(s, y) /\ Pulsed(s, y) < y.preset
      /\ TP(s, y).run <=> Pulses(s, y) /\ Pulsed(s, y) < y.preset
      /\ TP(s, y).was <=> y.a
  BY <1>3, <1>4 DEF PulseTime, PulseOut
<1>8. QED
  BY <1>5, <1>6, <1>7
-----------------------------------------------------------------------------
(***************************************************************************)
(* Types.                                                                  *)
(***************************************************************************)
\* Timers keep their types with times and outputs of the right ones.
LEMMA FieldsType ==
  ASSUME NEW s \in Block, NEW e \in Time, NEW q \in BOOLEAN, NEW w \in BOOLEAN
  PROVE  /\ Delayed(s, e, q, w) \in Block /\ Delayed(s, e, q, w).et = e
         /\ Pulsing(s, e, q, w) \in Block /\ Pulsing(s, e, q, w).et = e
<1>1. e \in Int
  BY BoundsAssumption DEF Time
<1>2. Delayed(s, e, q, w) \in Block /\ Delayed(s, e, q, w).et = e
  BY <1>1 DEF Delayed, Block
<1>3. Pulsing(s, e, q, w) \in Block /\ Pulsing(s, e, q, w).et = e
  BY <1>1 DEF Pulsing, Block
<1>4. QED
  BY <1>2, <1>3

\* What timers compute has the right types.
LEMMA ComputedType ==
  ASSUME NEW s \in Block, s.et \in Time, NEW y \in Offered
  PROVE  /\ OnTime(s, y) \in Time /\ OffTime(s, y) \in Time /\ y.a \in BOOLEAN
         /\ \A p : OnOut(s, y, p) \in BOOLEAN /\ OffOut(s, y, p) \in BOOLEAN
         /\ \A e \in Time : PulseTime(s, y, e) \in Time
         /\ \A d : PulseOut(s, y, d) \in BOOLEAN
         /\ Pulsed(s, y) \in Time
<1>1. Elapsed(s.et, y) \in Time /\ Elapsed(0, y) \in Time /\ 0 \in Time
  BY ElapsedType
<1>2. Pulsed(s, y) \in Time
  BY <1>1 DEF Pulsed
<1>3. y.a \in BOOLEAN
  BY DEF Offered
<1>4. QED
  BY <1>1, <1>2, <1>3 DEF OnTime, OffTime, OnOut, OffOut, PulseTime, PulseOut

\* A call of a timer keeps the types and bounds the elapsed time.
LEMMA TimerType ==
  ASSUME NEW s \in Block, s.et \in Time, NEW y \in Offered, NEW t,
         t \in {TON(s, y), TOF(s, y), TP(s, y)}
  PROVE  t \in Block /\ t.et \in Time
<1>0. y.a \in BOOLEAN /\ Pulsed(s, y) \in Time
  BY ComputedType
<1>1. CASE t = TON(s, y)
  <2> DEFINE e == OnTime(s, y)
             q == OnOut(s, y, y.preset)
  <2>1. e \in Time /\ q \in BOOLEAN
    BY ComputedType
  <2>2. t = Delayed(s, e, q, y.a)
    BY <1>1, TimerFields
  <2> HIDE DEF e, q
  <2>3. Delayed(s, e, q, y.a) \in Block /\ Delayed(s, e, q, y.a).et = e
    BY <1>0, <2>1, FieldsType
  <2>4. QED
    BY <2>1, <2>2, <2>3
<1>2. CASE t = TOF(s, y)
  <2> DEFINE e == OffTime(s, y)
             q == OffOut(s, y, y.preset)
  <2>1. e \in Time /\ q \in BOOLEAN
    BY ComputedType
  <2>2. t = Delayed(s, e, q, y.a)
    BY <1>2, TimerFields
  <2> HIDE DEF e, q
  <2>3. Delayed(s, e, q, y.a) \in Block /\ Delayed(s, e, q, y.a).et = e
    BY <1>0, <2>1, FieldsType
  <2>4. QED
    BY <2>1, <2>2, <2>3
<1>3. CASE t = TP(s, y)
  <2> DEFINE e == PulseTime(s, y, Pulsed(s, y))
             q == PulseOut(s, y, Pulsed(s, y) >= y.preset)
  <2>1. e \in Time /\ q \in BOOLEAN
    BY <1>0, ComputedType
  <2>2. t = Pulsing(s, e, q, y.a)
    BY <1>3, TimerFields
  <2> HIDE DEF e, q
  <2>3. Pulsing(s, e, q, y.a) \in Block /\ Pulsing(s, e, q, y.a).et = e
    BY <1>0, <2>1, FieldsType
  <2>4. QED
    BY <2>1, <2>2, <2>3
<1>4. QED
  BY <1>1, <1>2, <1>3

\* A call of a counter keeps the types.
LEMMA CounterType ==
  ASSUME NEW s \in Block, NEW y \in Offered, NEW c,
         c \in {CTU(s, y), CTD(s, y), CTUD(s, y)}
  PROVE  c \in Block /\ c.et = s.et
<1>1. y.preset \in Int /\ y.a \in BOOLEAN /\ y.b \in BOOLEAN
  BY PresetType DEF Offered
<1>2. CASE c = CTU(s, y)
  <2> DEFINE v == IF y.r THEN 0 ELSE IF y.a /\ ~s.was THEN s.cv + 1 ELSE s.cv
  <2>1. v \in Int
    BY DEF Block
  <2> HIDE DEF v
  <2>2. (v >= y.preset) \in BOOLEAN /\ (IF y.r THEN s.was ELSE y.a) \in BOOLEAN
    BY <1>1 DEF Block
  <2>3. c = [s EXCEPT !.cv = v, !.was = IF y.r THEN s.was ELSE y.a, !.q = v >= y.preset]
    BY <1>2 DEF CTU, v
  <2>4. QED
    BY <2>1, <2>2, <2>3 DEF Block
<1>3. CASE c = CTD(s, y)
  <2> DEFINE v == IF y.ld THEN y.preset ELSE IF y.a /\ ~s.was THEN s.cv - 1 ELSE s.cv
  <2>1. v \in Int
    BY <1>1 DEF Block
  <2> HIDE DEF v
  <2>2. (v <= 0) \in BOOLEAN /\ (IF y.ld THEN s.was ELSE y.a) \in BOOLEAN
    BY <1>1 DEF Block
  <2>3. c = [s EXCEPT !.cv = v, !.was = IF y.ld THEN s.was ELSE y.a, !.q = v <= 0]
    BY <1>3 DEF CTD, v
  <2>4. QED
    BY <2>1, <2>2, <2>3 DEF Block
<1>4. CASE c = CTUD(s, y)
  <2> DEFINE up   == y.a /\ ~s.was
             down == y.b /\ ~s.wasB
             held == y.r \/ y.ld
             v    == IF y.r THEN 0 ELSE IF y.ld THEN y.preset
                     ELSE IF up /\ ~down THEN s.cv + 1
                     ELSE IF down /\ ~up THEN s.cv - 1 ELSE s.cv
  <2>1. v \in Int
    BY <1>1 DEF Block
  <2>2. c = [s EXCEPT !.cv = v, !.q = v >= y.preset, !.qd = v <= 0,
                      !.was = IF held THEN s.was ELSE y.a,
                      !.wasB = IF held THEN s.wasB ELSE y.b]
    BY <1>4 DEF CTUD
  <2> HIDE DEF v, held
  <2>3. /\ (v >= y.preset) \in BOOLEAN /\ (v <= 0) \in BOOLEAN
        /\ (IF held THEN s.was ELSE y.a) \in BOOLEAN
        /\ (IF held THEN s.wasB ELSE y.b) \in BOOLEAN
    BY <1>1 DEF Block
  <2>4. QED
    BY <2>1, <2>2, <2>3 DEF Block
<1>5. QED
  BY <1>2, <1>3, <1>4

\* A call of a bistable or of an edge detector keeps the types.
LEMMA FlagType ==
  ASSUME NEW s \in Block, NEW y \in Offered, NEW f,
         f \in {SR(s, y), RS(s, y), RTrig(s, y), FTrig(s, y)}
  PROVE  f \in Block /\ f.et = s.et
<1>1. /\ (y.a \/ (s.q /\ ~y.r)) \in BOOLEAN /\ ((s.q \/ y.a) /\ ~y.r) \in BOOLEAN
      /\ (y.a /\ ~s.was) \in BOOLEAN /\ (~y.a /\ s.was) \in BOOLEAN
      /\ y.a \in BOOLEAN
  BY DEF Offered
<1>2. QED
  BY <1>1 DEF SR, RS, RTrig, FTrig, Block

\* Which block runs is told by the kind.
LEMMA Dispatch ==
  ASSUME NEW k \in Kind, NEW s, NEW y
  PROVE  Interpreted(k, s, y) \in
           {SR(s, y), RS(s, y), RTrig(s, y), FTrig(s, y), CTU(s, y), CTD(s, y),
            CTUD(s, y), TON(s, y), TOF(s, y), TP(s, y)}
BY DEF Interpreted, Kind

\* A call keeps a block's types and bounds its elapsed time.
LEMMA InterpretedType ==
  ASSUME NEW k \in Kind, NEW s \in Block, s.et \in Time, NEW y \in Offered
  PROVE  Interpreted(k, s, y) \in Block /\ Interpreted(k, s, y).et \in Time
BY Dispatch, FlagType, CounterType, TimerType
-----------------------------------------------------------------------------
(***************************************************************************)
(* Arguments.                                                              *)
(***************************************************************************)
Sound(s) == s \in Block /\ s.et \in Time /\ s.cv \in Count

\* An argument sees the outputs of a sound block.
LEMMA SeenType == ASSUME NEW s, Sound(s) PROVE Seen(s) \in Outputs
BY DEF Sound, Seen, Outputs, Block

\* The arguments of a call have values.
LEMMA ArgumentType ==
  ASSUME NEW c \in Arguments, NEW s, Sound(s)
  PROVE  /\ Holds(c.a, s) \in BOOLEAN
         /\ Amount(c.preset, s) \in Presets
         /\ Given(c, s) \in Offered
<1>1. /\ c.a \in Condition /\ c.b \in Condition /\ c.r \in Condition /\ c.ld \in Condition
      /\ c.preset \in Amounts
  BY ArgumentAssumption DEF Arguments, For
<1>2. Seen(s) \in Outputs
  BY SeenType
<1>3. /\ Holds(c.a, s) \in BOOLEAN /\ Holds(c.b, s) \in BOOLEAN
      /\ Holds(c.r, s) \in BOOLEAN /\ Holds(c.ld, s) \in BOOLEAN
      /\ Amount(c.preset, s) \in Presets
  BY <1>1, <1>2, ArgumentAssumption DEF Holds, Amount
<1>4. QED
  BY <1>3 DEF Given, Offered

\* The text of an amount is worth the same as long as what it reads is.
LEMMA SameText ==
  ASSUME NEW c \in Arguments, NEW s, NEW t, Sound(s), Sound(t), NEW F,
         Reads(c.preset) \cap F = {},
         \A f \in {"q", "qd", "et", "cv"} \ F : Seen(s)[f] = Seen(t)[f]
  PROVE  Amount(c.preset, s) = Amount(c.preset, t)
<1>1. c.preset \in Amounts /\ Seen(s) \in Outputs /\ Seen(t) \in Outputs
  BY SeenType DEF Arguments
<1>2. \A f \in Reads(c.preset) : Seen(s)[f] = Seen(t)[f]
  BY <1>1, ArgumentAssumption
<1>3. QED
  BY <1>1, <1>2, ArgumentAssumption DEF Amount
-----------------------------------------------------------------------------
(***************************************************************************)
(* The generated C, field by field: what is computed with the PV or PT of  *)
(* before the call, and with the one of after.                             *)
(***************************************************************************)
\* ET after the call, and the block PT is evaluated on for the second time.
LEMMA ElapseFields ==
  ASSUME NEW c \in Arguments, NEW s, Sound(s)
  PROVE  /\ Elapse(s, c) = [s EXCEPT !.et = Elapsed(s.et, Given(c, s))]
         /\ Sound(Elapse(s, c))
         /\ Due(Elapse(s, c), c) =
              (Elapsed(s.et, Given(c, s)) >= Amount(c.preset, Elapse(s, c)))
<1> DEFINE e == Elapsed(s.et, Given(c, s))
<1>1. e \in Time /\ e \in Int
  BY ArgumentType, ElapsedType DEF Sound
<1>2. Elapse(s, c) = [s EXCEPT !.et = e]
  BY DEF Elapse, Elapsed, Given
<1> HIDE DEF e
<1>3. Sound([s EXCEPT !.et = e]) /\ [s EXCEPT !.et = e].et = e
  BY <1>1 DEF Sound, Block
<1>4. QED
  BY <1>2, <1>3 DEF Due, e

\* TON and TOF.
LEMMA EmittedDelayFields ==
  ASSUME NEW c \in Arguments, NEW s, Sound(s)
  PROVE  /\ \E w \in BOOLEAN :
              EmittedTON(s, c) =
                Delayed(s, OnTime(s, Given(c, s)),
                        OnOut(s, Given(c, s), Amount(c.preset, Elapse(s, c))), w)
         /\ \E w \in BOOLEAN :
              EmittedTOF(s, c) =
                Delayed(s, OffTime(s, Given(c, s)),
                        OffOut(s, Given(c, s), Amount(c.preset, Elapse(s, c))), w)
<1> DEFINE y == Given(c, s)
           p == Amount(c.preset, Elapse(s, c))
           e == Elapsed(s.et, y)
           q == e >= p
<1>1. y \in Offered /\ y.a = Holds(c.a, s) /\ y.a \in BOOLEAN /\ s \in Block
  BY ArgumentType DEF Given, Sound
<1>2. Elapse(s, c) = [s EXCEPT !.et = e] /\ Due(Elapse(s, c), c) = q /\ q \in BOOLEAN
  BY ElapseFields
<1>3. /\ e \in Time /\ 0 \in Time /\ s.q \in BOOLEAN /\ s.cv \in Count
      /\ s.et \in Time
  BY <1>1, ElapsedType DEF Sound, Block
<1>4. /\ OnTime(s, y) = (IF y.a THEN e ELSE 0) /\ OnOut(s, y, p) = (y.a /\ q)
      /\ OffTime(s, y) = (IF y.a THEN 0 ELSE IF s.q THEN e ELSE s.et)
      /\ OffOut(s, y, p) = (y.a \/ (s.q /\ ~q))
  BY DEF OnTime, OnOut, OffTime, OffOut
<1> HIDE DEF y, p, e, q
<1>5. ASSUME NEW f \in Time, NEW o \in BOOLEAN
      PROVE  Holds(c.a, [s EXCEPT !.et = f, !.q = o]) \in BOOLEAN
  <2>1. f \in Int
    BY <1>5, BoundsAssumption DEF Time
  <2>2. Sound([s EXCEPT !.et = f, !.q = o])
    BY <1>1, <1>3, <1>5, <2>1 DEF Sound, Block
  <2>3. QED
    BY <2>2, ArgumentType
<1>6. \E w \in BOOLEAN : EmittedTON(s, c) = Delayed(s, OnTime(s, y), OnOut(s, y, p), w)
  <2> DEFINE t == [s EXCEPT !.et = IF y.a THEN e ELSE 0, !.q = y.a /\ q]
             w == Holds(c.a, t)
  <2>1. (IF y.a THEN e ELSE 0) \in Time /\ (y.a /\ q) \in BOOLEAN
    BY <1>1, <1>3
  <2>2. w \in BOOLEAN
    BY <1>5, <2>1
  <2>3. t = IF ~y.a THEN [s EXCEPT !.q = FALSE, !.et = 0] ELSE [[s EXCEPT !.et = e] EXCEPT !.q = q]
    <3>1. CASE y.a
      <4>1. (y.a /\ q) = q
        BY <1>2, <3>1
      <4>2. QED
        BY <1>1, <3>1, <4>1 DEF Block
    <3>2. CASE ~y.a
      <4>1. (y.a /\ q) = FALSE
        BY <3>2
      <4>2. QED
        BY <1>1, <3>2, <4>1 DEF Block
    <3>3. QED
      BY <3>1, <3>2
  <2>4. EmittedTON(s, c) = [t EXCEPT !.was = w]
    <3> HIDE DEF t
    <3>1. QED
      BY <1>1, <1>2, <2>3 DEF EmittedTON
  <2> HIDE DEF w
  <2>5. [t EXCEPT !.was = w] = Delayed(s, IF y.a THEN e ELSE 0, y.a /\ q, w)
    BY <1>1 DEF Delayed, Block
  <2>6. QED
    BY <1>4, <2>2, <2>4, <2>5
<1>7. \E w \in BOOLEAN : EmittedTOF(s, c) = Delayed(s, OffTime(s, y), OffOut(s, y, p), w)
  <2> DEFINE f == IF y.a THEN 0 ELSE IF s.q THEN e ELSE s.et
             o == y.a \/ (s.q /\ ~q)
             t == [s EXCEPT !.et = f, !.q = o]
             w == Holds(c.a, t)
  <2>1. f \in Time /\ o \in BOOLEAN
    BY <1>1, <1>3
  <2>2. w \in BOOLEAN
    BY <1>5, <2>1
  <2>3. t = IF y.a THEN [s EXCEPT !.q = TRUE, !.et = 0]
            ELSE IF s.q THEN [[s EXCEPT !.et = e] EXCEPT !.q = ~q]
            ELSE s
    <3>1. CASE y.a
      <4>1. o = TRUE /\ f = 0
        BY <3>1
      <4> HIDE DEF o, f
      <4>2. QED
        BY <1>1, <3>1, <4>1 DEF Block
    <3>2. CASE ~y.a /\ s.q
      <4>1. o = ~q /\ f = e
        BY <1>2, <3>2
      <4> HIDE DEF o, f
      <4>2. QED
        BY <1>1, <3>2, <4>1 DEF Block
    <3>3. CASE ~y.a /\ ~s.q
      <4>1. o = s.q /\ f = s.et
        BY <1>3, <3>3
      <4> HIDE DEF o, f
      <4>2. QED
        BY <1>1, <3>3, <4>1 DEF Block
    <3>4. QED
      BY <3>1, <3>2, <3>3
  <2>4. EmittedTOF(s, c) = [t EXCEPT !.was = w]
    <3> HIDE DEF t
    <3>1. QED
      BY <1>1, <1>2, <2>3 DEF EmittedTOF
  <2>5. OffTime(s, y) = f /\ OffOut(s, y, p) = o
    BY <1>4
  <2> HIDE DEF w, f, o
  <2>6. [t EXCEPT !.was = w] = Delayed(s, f, o, w)
    BY <1>1 DEF Delayed, Block
  <2>7. QED
    BY <2>2, <2>4, <2>5, <2>6
<1>8. QED
  BY <1>6, <1>7 DEF y, p

\* The block a pulse goes on from, and the one PT is evaluated on again.
Started(s, y)  == IF Starts(s, y) THEN [s EXCEPT !.run = TRUE, !.et = 0, !.q = TRUE] ELSE s
Moved(s, y, c) == Elapse(Started(s, y), c)

\* Both are sound, and a pulse is on in the one that goes on.
LEMMA MovedType ==
  ASSUME NEW c \in Arguments, NEW s, Sound(s), NEW y
  PROVE  /\ Sound(Started(s, y)) /\ Sound(Moved(s, y, c))
         /\ Started(s, y).run <=> Pulses(s, y)
<1>1. 0 \in Time /\ Time \subseteq Int
  BY BoundsAssumption DEF Time
<1>2. Sound(Started(s, y))
  BY <1>1 DEF Started, Sound, Block
<1>3. Started(s, y).run <=> Pulses(s, y)
  BY DEF Started, Pulses, Sound, Block
<1>4. QED
  BY <1>2, <1>3, ElapseFields DEF Moved

\* TP.
LEMMA EmittedTPFields ==
  ASSUME NEW c \in Arguments, NEW s, Sound(s), NEW y, y = Given(c, s)
  PROVE  EmittedTP(s, c) =
           Pulsing(s, PulseTime(s, y, Moved(s, y, c).et),
                   PulseOut(s, y, Due(Moved(s, y, c), c)), y.a)
<1> DEFINE i == Started(s, y)
           m == Moved(s, y, c)
           q == Due(m, c)
           t == IF i.run THEN [m EXCEPT !.run = ~q, !.q = ~q]
                ELSE [i EXCEPT !.q = FALSE]
<1>1. /\ y.a = Holds(c.a, s) /\ y.a \in BOOLEAN /\ s \in Block
      /\ s.run \in BOOLEAN /\ s.q \in BOOLEAN
  BY ArgumentType DEF Given, Sound, Block
<1>2. (i.run <=> Pulses(s, y)) /\ Sound(i) /\ Sound(m) /\ q \in BOOLEAN
  BY MovedType DEF Due
<1>3. EmittedTP(s, c) = [t EXCEPT !.was = y.a]
  BY <1>1 DEF EmittedTP, Started, Starts, Moved
<1>4. CASE Pulses(s, y)
  <2>1. PulseTime(s, y, m.et) = m.et /\ PulseOut(s, y, q) = ~q
    BY <1>2, <1>4 DEF PulseTime, PulseOut
  <2>2. t = [m EXCEPT !.run = ~q, !.q = ~q]
    BY <1>2, <1>4
  <2>3. m = [i EXCEPT !.et = m.et]
    BY <1>2 DEF Moved, Elapse, Sound, Block
  <2> HIDE DEF m, q, t
  <2>4. [t EXCEPT !.was = y.a] = Pulsing(s, m.et, ~q, y.a)
    <3>1. CASE Starts(s, y)
      BY <1>1, <2>2, <2>3, <3>1 DEF Started, Pulsing, Block
    <3>2. CASE ~Starts(s, y)
      BY <1>1, <2>2, <2>3, <3>2 DEF Started, Pulsing, Block
    <3>3. QED
      BY <3>1, <3>2
  <2>5. QED
    BY <1>3, <2>1, <2>4 DEF m, q
<1>5. CASE ~Pulses(s, y)
  <2>1. PulseTime(s, y, m.et) = s.et /\ PulseOut(s, y, q) = FALSE /\ s.run = FALSE /\ i = s
    BY <1>1, <1>5 DEF Pulses, Started, PulseTime, PulseOut
  <2>2. t = [s EXCEPT !.q = FALSE]
    BY <1>2, <1>5, <2>1
  <2> HIDE DEF t
  <2>3. [t EXCEPT !.was = y.a] = Pulsing(s, s.et, FALSE, y.a)
    BY <1>1, <2>1, <2>2 DEF Pulsing, Block
  <2>4. QED
    BY <1>3, <2>1, <2>3
<1>6. QED
  BY <1>4, <1>5

\* A counter before its count is compared.
Counted(k, s, y) ==
  LET up   == y.a /\ ~s.was
      down == y.b /\ ~s.wasB
  IN  IF k = "CTU"
      THEN IF y.r THEN [s EXCEPT !.cv = 0]
           ELSE [s EXCEPT !.cv = IF up THEN @ + 1 ELSE @, !.was = y.a]
      ELSE IF y.r THEN [s EXCEPT !.cv = 0]
      ELSE IF y.ld THEN [s EXCEPT !.cv = y.preset]
      ELSE [s EXCEPT !.was = y.a, !.wasB = y.b,
                     !.cv = IF up /\ ~down THEN @ + 1 ELSE IF down /\ ~up THEN @ - 1 ELSE @]

\* A counter after its count has been compared with PV.
Compared(u, p)     == [u EXCEPT !.q = u.cv >= p]
ComparedBoth(u, p) == [u EXCEPT !.q = u.cv >= p, !.qd = u.cv <= 0]

\* Comparing keeps types and count.
LEMMA ComparedType ==
  ASSUME NEW u \in Block, NEW p
  PROVE  /\ Compared(u, p) \in Block /\ Compared(u, p).et = u.et /\ Compared(u, p).cv = u.cv
         /\ ComparedBoth(u, p) \in Block /\ ComparedBoth(u, p).et = u.et
         /\ ComparedBoth(u, p).cv = u.cv
<1>1. (u.cv >= p) \in BOOLEAN /\ (u.cv <= 0) \in BOOLEAN
  OBVIOUS
<1>2. QED
  BY <1>1 DEF Compared, ComparedBoth, Block

\* The counters: one and the same count, compared with a PV of before or of after.
LEMMA CounterFields ==
  ASSUME NEW c \in Arguments, NEW s, Sound(s), NEW y, y = Given(c, s)
  PROVE  /\ CTU(s, y) = Compared(Counted("CTU", s, y), y.preset)
         /\ EmittedCTU(s, c) =
              Compared(Counted("CTU", s, y), Amount(c.preset, Counted("CTU", s, y)))
         /\ CTUD(s, y) = ComparedBoth(Counted("CTUD", s, y), y.preset)
         /\ EmittedCTUD(s, c) =
              ComparedBoth(Counted("CTUD", s, y), Amount(c.preset, Counted("CTUD", s, y)))
         /\ EmittedCTD(s, c) = CTD(s, y)
         /\ \A k \in {"CTU", "CTUD"} :
              /\ Counted(k, s, y) \in Block /\ Counted(k, s, y).et = s.et
              /\ Counted(k, s, y).q = s.q /\ Counted(k, s, y).qd = s.qd
<1>1. /\ y \in Offered /\ y.preset \in Int /\ y.a \in BOOLEAN /\ y.b \in BOOLEAN
      /\ y.a = Holds(c.a, s) /\ y.r = Holds(c.r, s) /\ y.ld = Holds(c.ld, s)
      /\ y.preset = Amount(c.preset, s)
  BY ArgumentType, PresetType DEF Given, Offered
<1>2. s \in Block
  BY DEF Sound
<1>3. /\ CTU(s, y) = Compared(Counted("CTU", s, y), y.preset)
      /\ Counted("CTU", s, y) \in Block /\ Counted("CTU", s, y).et = s.et
      /\ Counted("CTU", s, y).q = s.q /\ Counted("CTU", s, y).qd = s.qd
  <2> DEFINE v == IF y.r THEN 0 ELSE IF y.a /\ ~s.was THEN s.cv + 1 ELSE s.cv
             w == IF y.r THEN s.was ELSE y.a
  <2>1. v \in Int /\ w \in BOOLEAN
    BY <1>1, <1>2 DEF Block
  <2>2. Counted("CTU", s, y) = [s EXCEPT !.cv = v, !.was = w]
    BY <1>2 DEF Counted, Block
  <2>3. CTU(s, y) = [s EXCEPT !.cv = v, !.was = w, !.q = v >= y.preset]
    BY DEF CTU
  <2> HIDE DEF v, w
  <2>4. [s EXCEPT !.cv = v, !.was = w].cv = v
    BY <1>2 DEF Block
  <2>5. CTU(s, y) = [Counted("CTU", s, y) EXCEPT !.q = v >= y.preset]
    BY <1>2, <2>2, <2>3 DEF Block
  <2>6. QED
    BY <1>2, <2>1, <2>2, <2>4, <2>5 DEF Block, Compared
<1>4. EmittedCTU(s, c) =
        Compared(Counted("CTU", s, y), Amount(c.preset, Counted("CTU", s, y)))
  BY <1>1 DEF EmittedCTU, Counted, Compared
<1>5. /\ CTUD(s, y) = ComparedBoth(Counted("CTUD", s, y), y.preset)
      /\ Counted("CTUD", s, y) \in Block /\ Counted("CTUD", s, y).et = s.et
      /\ Counted("CTUD", s, y).q = s.q /\ Counted("CTUD", s, y).qd = s.qd
  <2> DEFINE up   == y.a /\ ~s.was
             down == y.b /\ ~s.wasB
             held == y.r \/ y.ld
             v    == IF y.r THEN 0 ELSE IF y.ld THEN y.preset
                     ELSE IF up /\ ~down THEN s.cv + 1
                     ELSE IF down /\ ~up THEN s.cv - 1 ELSE s.cv
             w    == IF held THEN s.was ELSE y.a
             wb   == IF held THEN s.wasB ELSE y.b
  <2>1. v \in Int /\ w \in BOOLEAN /\ wb \in BOOLEAN
    BY <1>1, <1>2 DEF Block
  <2>2. Counted("CTUD", s, y) = [s EXCEPT !.cv = v, !.was = w, !.wasB = wb]
    <3>1. CASE y.r
      BY <1>2, <3>1 DEF Counted, Block
    <3>2. CASE ~y.r /\ y.ld
      BY <1>2, <3>2 DEF Counted, Block
    <3>3. CASE ~y.r /\ ~y.ld
      BY <1>2, <3>3 DEF Counted, Block
    <3>4. QED
      BY <3>1, <3>2, <3>3
  <2>3. CTUD(s, y) = [s EXCEPT !.cv = v, !.q = v >= y.preset, !.qd = v <= 0,
                               !.was = w, !.wasB = wb]
    BY DEF CTUD
  <2> HIDE DEF v, w, wb
  <2>4. [s EXCEPT !.cv = v, !.was = w, !.wasB = wb].cv = v
    BY <1>2 DEF Block
  <2>5. CTUD(s, y) = [Counted("CTUD", s, y) EXCEPT !.q = v >= y.preset, !.qd = v <= 0]
    BY <1>2, <2>2, <2>3 DEF Block
  <2>6. QED
    BY <1>2, <2>1, <2>2, <2>4, <2>5 DEF Block, ComparedBoth
<1>7. EmittedCTUD(s, c) =
        ComparedBoth(Counted("CTUD", s, y), Amount(c.preset, Counted("CTUD", s, y)))
  BY <1>1 DEF EmittedCTUD, Counted, ComparedBoth
<1>8. EmittedCTD(s, c) = CTD(s, y)
  BY <1>1, <1>2 DEF EmittedCTD, CTD, Block
<1>9. QED
  BY <1>3, <1>4, <1>5, <1>7, <1>8
-----------------------------------------------------------------------------
(***************************************************************************)
(* The back ends.                                                          *)
(***************************************************************************)
\* A call of the generated C keeps the types and bounds the elapsed time, whatever
\* its arguments read.
LEMMA EmittedType ==
  ASSUME NEW k \in Kind, NEW s, Sound(s), NEW c \in Arguments
  PROVE  Emitted(k, s, c) \in Block /\ Emitted(k, s, c).et \in Time
<1> DEFINE y == Given(c, s)
<1>1. y \in Offered /\ y.a \in BOOLEAN /\ s \in Block /\ s.et \in Time
  BY ArgumentType DEF Offered, Sound
<1>2. CASE k = "TON"
  <2>1. \E w \in BOOLEAN :
          EmittedTON(s, c) = Delayed(s, OnTime(s, y),
                                     OnOut(s, y, Amount(c.preset, Elapse(s, c))), w)
    BY EmittedDelayFields
  <2> DEFINE e == OnTime(s, y)
             q == OnOut(s, y, Amount(c.preset, Elapse(s, c)))
  <2>2. e \in Time /\ q \in BOOLEAN
    BY <1>1, ComputedType
  <2> HIDE DEF e, q
  <2>3. PICK w \in BOOLEAN : EmittedTON(s, c) = Delayed(s, e, q, w)
    BY <2>1 DEF e, q
  <2>4. Delayed(s, e, q, w) \in Block /\ Delayed(s, e, q, w).et = e
    BY <1>1, <2>2, FieldsType
  <2>5. EmittedTON(s, c) \in Block /\ EmittedTON(s, c).et \in Time
    BY <2>2, <2>3, <2>4
  <2>6. QED
    BY <1>2, <2>5 DEF Emitted
<1>3. CASE k = "TOF"
  <2>1. \E w \in BOOLEAN :
          EmittedTOF(s, c) = Delayed(s, OffTime(s, y),
                                     OffOut(s, y, Amount(c.preset, Elapse(s, c))), w)
    BY EmittedDelayFields
  <2> DEFINE e == OffTime(s, y)
             q == OffOut(s, y, Amount(c.preset, Elapse(s, c)))
  <2>2. e \in Time /\ q \in BOOLEAN
    BY <1>1, ComputedType
  <2> HIDE DEF e, q
  <2>3. PICK w \in BOOLEAN : EmittedTOF(s, c) = Delayed(s, e, q, w)
    BY <2>1 DEF e, q
  <2>4. Delayed(s, e, q, w) \in Block /\ Delayed(s, e, q, w).et = e
    BY <1>1, <2>2, FieldsType
  <2>5. EmittedTOF(s, c) \in Block /\ EmittedTOF(s, c).et \in Time
    BY <2>2, <2>3, <2>4
  <2>6. QED
    BY <1>3, <2>5 DEF Emitted
<1>4. CASE k = "TP"
  <2>1. EmittedTP(s, c) = Pulsing(s, PulseTime(s, y, Moved(s, y, c).et),
                                  PulseOut(s, y, Due(Moved(s, y, c), c)), y.a)
    BY EmittedTPFields
  <2>2. Moved(s, y, c).et \in Time
    BY MovedType DEF Sound
  <2> DEFINE e == PulseTime(s, y, Moved(s, y, c).et)
             q == PulseOut(s, y, Due(Moved(s, y, c), c))
  <2>3. e \in Time /\ q \in BOOLEAN
    BY <1>1, <2>2, ComputedType
  <2>4. EmittedTP(s, c) = Pulsing(s, e, q, y.a)
    BY <2>1
  <2> HIDE DEF e, q, y
  <2>5. Pulsing(s, e, q, y.a) \in Block /\ Pulsing(s, e, q, y.a).et = e
    BY <1>1, <2>3, FieldsType
  <2>6. EmittedTP(s, c) \in Block /\ EmittedTP(s, c).et \in Time
    BY <2>3, <2>4, <2>5
  <2>7. QED
    BY <1>4, <2>6 DEF Emitted
<1>5. CASE k = "CTU"
  <2> DEFINE u == Counted("CTU", s, y)
  <2>1. u \in Block /\ u.et = s.et /\ EmittedCTU(s, c) = Compared(u, Amount(c.preset, u))
    BY CounterFields
  <2> HIDE DEF u
  <2>2. EmittedCTU(s, c) \in Block /\ EmittedCTU(s, c).et = s.et
    BY <2>1, ComparedType
  <2>3. QED
    BY <1>1, <1>5, <2>2 DEF Emitted
<1>6. CASE k = "CTUD"
  <2> DEFINE u == Counted("CTUD", s, y)
  <2>1. u \in Block /\ u.et = s.et /\ EmittedCTUD(s, c) = ComparedBoth(u, Amount(c.preset, u))
    BY CounterFields
  <2> HIDE DEF u
  <2>2. EmittedCTUD(s, c) \in Block /\ EmittedCTUD(s, c).et = s.et
    BY <2>1, ComparedType
  <2>3. QED
    BY <1>1, <1>6, <2>2 DEF Emitted
<1>7. CASE k = "CTD"
  <2>1. EmittedCTD(s, c) = CTD(s, y)
    BY CounterFields
  <2> HIDE DEF y
  <2>2. CTD(s, y) \in Block /\ CTD(s, y).et = s.et
    BY <1>1, CounterType
  <2>3. QED
    BY <1>1, <1>7, <2>1, <2>2 DEF Emitted
<1>8. CASE k \in {"SR", "RS", "R_TRIG", "F_TRIG"}
  <2>1. Emitted(k, s, c) \in {SR(s, y), RS(s, y), RTrig(s, y), FTrig(s, y)}
    BY <1>8 DEF Emitted
  <2> HIDE DEF y
  <2>2. QED
    BY <1>1, <2>1, FlagType
<1>9. QED
  BY <1>2, <1>3, <1>4, <1>5, <1>6, <1>7, <1>8 DEF Kind

\* What a timer has but the input of its last call.
Alike(s, t) == [s EXCEPT !.was = FALSE] = [t EXCEPT !.was = FALSE]

\* On timers that are alike, TON and TOF compute alike.
LEMMA DelaysAlike ==
  ASSUME NEW s \in Block, NEW t \in Block, Alike(s, t), NEW y \in Offered
  PROVE  Alike(TON(s, y), TON(t, y)) /\ Alike(TOF(s, y), TOF(t, y))
<1>1. /\ t.q = s.q /\ t.qd = s.qd /\ t.wasB = s.wasB /\ t.run = s.run
      /\ t.et = s.et /\ t.cv = s.cv
  BY DEF Alike, Block
<1>2. ASSUME NEW e, NEW q, NEW w PROVE Alike(Delayed(s, e, q, w), Delayed(t, e, q, w))
  BY <1>1 DEF Alike, Delayed, Block
<1>3. OnTime(t, y) = OnTime(s, y) /\ OnOut(t, y, y.preset) = OnOut(s, y, y.preset)
  BY <1>1 DEF OnTime, OnOut
<1>4. OffTime(t, y) = OffTime(s, y) /\ OffOut(t, y, y.preset) = OffOut(s, y, y.preset)
  BY <1>1 DEF OffTime, OffOut
<1>5. QED
  BY <1>2, <1>3, <1>4, TimerFields

\* A TON or TOF whose PT does not read ET is printed as it is interpreted, but for
\* its memory of IN.
LEMMA DelaysAgree ==
  ASSUME NEW c \in Arguments, NEW s, Sound(s), Reads(c.preset) \cap {"et"} = {}
  PROVE  /\ Alike(EmittedTON(s, c), TON(s, Given(c, s)))
         /\ Alike(EmittedTOF(s, c), TOF(s, Given(c, s)))
<1> DEFINE y == Given(c, s)
<1>1. Amount(c.preset, Elapse(s, c)) = y.preset
  <2>1. Sound(Elapse(s, c)) /\ Elapse(s, c) = [s EXCEPT !.et = Elapse(s, c).et]
    BY ElapseFields DEF Elapse, Sound, Block
  <2>2. \A f \in {"q", "qd", "et", "cv"} \ {"et"} : Seen(Elapse(s, c))[f] = Seen(s)[f]
    BY <2>1 DEF Seen, Sound, Block
  <2>3. Amount(c.preset, Elapse(s, c)) = Amount(c.preset, s)
    BY <2>1, <2>2, SameText
  <2>4. QED
    BY <2>3 DEF Given
<1>2. y \in Offered /\ s \in Block
  BY ArgumentType DEF Sound
<1>3. \E w \in BOOLEAN :
        EmittedTON(s, c) = Delayed(s, OnTime(s, y), OnOut(s, y, y.preset), w)
  BY <1>1, EmittedDelayFields
<1>4. \E w \in BOOLEAN :
        EmittedTOF(s, c) = Delayed(s, OffTime(s, y), OffOut(s, y, y.preset), w)
  BY <1>1, EmittedDelayFields
<1>5. ASSUME NEW e, NEW q, NEW v, NEW w PROVE Alike(Delayed(s, e, q, v), Delayed(s, e, q, w))
  BY <1>2 DEF Alike, Delayed, Block
<1> HIDE DEF y
<1>6. Alike(EmittedTON(s, c), TON(s, y)) /\ Alike(EmittedTOF(s, c), TOF(s, y))
  BY <1>2, <1>3, <1>4, <1>5, TimerFields
<1>7. QED
  BY <1>6 DEF y

\* A TP whose PT reads neither ET nor Q is printed as it is interpreted.
LEMMA PulsesAgree ==
  ASSUME NEW c \in Arguments, NEW s, Sound(s), Reads(c.preset) \cap {"q", "et"} = {}
  PROVE  EmittedTP(s, c) = TP(s, Given(c, s))
<1> DEFINE y == Given(c, s)
           i == Started(s, y)
           m == Moved(s, y, c)
<1>1. /\ y \in Offered /\ s \in Block /\ Sound(i) /\ Sound(m) /\ i \in Block
      /\ y.preset = Amount(c.preset, s)
  BY ArgumentType, MovedType DEF Sound, Given
<1>2. Amount(c.preset, i) = y.preset /\ Amount(c.preset, m) = y.preset
  <2>1. /\ \A f \in {"q", "qd", "et", "cv"} \ {"q", "et"} : Seen(i)[f] = Seen(s)[f]
        /\ \A f \in {"q", "qd", "et", "cv"} \ {"q", "et"} : Seen(m)[f] = Seen(s)[f]
    BY <1>1 DEF Started, Moved, Elapse, Seen, Block
  <2> HIDE DEF i, m, y
  <2>2. ASSUME NEW v, Sound(v),
               \A f \in {"q", "qd", "et", "cv"} \ {"q", "et"} : Seen(v)[f] = Seen(s)[f]
        PROVE  Amount(c.preset, v) = Amount(c.preset, s)
    BY <2>2, SameText
  <2>3. Amount(c.preset, i) = Amount(c.preset, s)
    BY <1>1, <2>1, <2>2
  <2>4. Amount(c.preset, m) = Amount(c.preset, s)
    BY <1>1, <2>1, <2>2
  <2>5. QED
    BY <1>1, <2>3, <2>4
<1>3. i.et = IF Starts(s, y) THEN 0 ELSE s.et
  BY <1>1 DEF Started, Block
<1>4. m.et = Pulsed(s, y)
  <2>1. m = [i EXCEPT !.et = Least(i.et + Cycle, y.preset)]
    BY <1>2 DEF Moved, Elapse
  <2>2. m.et = Least(i.et + Cycle, y.preset)
    BY <1>1, <2>1 DEF Block
  <2>3. QED
    BY <1>3, <2>2 DEF Pulsed, Elapsed
<1>5. Due(m, c) = (Pulsed(s, y) >= y.preset)
  BY <1>2, <1>4 DEF Due
<1>6. EmittedTP(s, c) = Pulsing(s, PulseTime(s, y, m.et), PulseOut(s, y, Due(m, c)), y.a)
  BY EmittedTPFields
<1> HIDE DEF y, m
<1>7. EmittedTP(s, c) = TP(s, y)
  BY <1>1, <1>4, <1>5, <1>6, TimerFields
<1>8. QED
  BY <1>7 DEF y

\* A counter whose PV does not read CV is printed as it is interpreted.
LEMMA CountersAgree ==
  ASSUME NEW c \in Arguments, NEW s, Sound(s), Reads(c.preset) \cap {"cv"} = {}
  PROVE  /\ CTU(s, Given(c, s)).cv \in Count => EmittedCTU(s, c) = CTU(s, Given(c, s))
         /\ CTUD(s, Given(c, s)).cv \in Count => EmittedCTUD(s, c) = CTUD(s, Given(c, s))
<1> DEFINE y == Given(c, s)
<1>1. ASSUME NEW v \in Block, v.cv \in Count, v.et = s.et, v.q = s.q, v.qd = s.qd
      PROVE  Amount(c.preset, v) = y.preset
  <2>1. Sound(v)
    BY <1>1 DEF Sound
  <2>2. \A f \in {"q", "qd", "et", "cv"} \ {"cv"} : Seen(v)[f] = Seen(s)[f]
    BY <1>1 DEF Seen
  <2> HIDE DEF y
  <2>3. Amount(c.preset, v) = Amount(c.preset, s)
    BY <2>1, <2>2, SameText
  <2>4. QED
    BY <2>3 DEF Given, y
<1>2. ASSUME CTU(s, y).cv \in Count PROVE EmittedCTU(s, c) = CTU(s, y)
  <2> DEFINE v == Counted("CTU", s, y)
  <2>1. v \in Block /\ v.et = s.et /\ v.q = s.q /\ v.qd = s.qd
        /\ CTU(s, y) = Compared(v, y.preset)
        /\ EmittedCTU(s, c) = Compared(v, Amount(c.preset, v))
    BY CounterFields
  <2> HIDE DEF v, y
  <2>2. v.cv \in Count
    BY <1>2, <2>1, ComparedType
  <2>3. QED
    BY <1>1, <2>1, <2>2
<1>3. ASSUME CTUD(s, y).cv \in Count PROVE EmittedCTUD(s, c) = CTUD(s, y)
  <2> DEFINE v == Counted("CTUD", s, y)
  <2>1. v \in Block /\ v.et = s.et /\ v.q = s.q /\ v.qd = s.qd
        /\ CTUD(s, y) = ComparedBoth(v, y.preset)
        /\ EmittedCTUD(s, c) = ComparedBoth(v, Amount(c.preset, v))
    BY CounterFields
  <2> HIDE DEF v, y
  <2>2. v.cv \in Count
    BY <1>3, <2>1, ComparedType
  <2>3. QED
    BY <1>1, <2>1, <2>2
<1>4. QED
  BY <1>2, <1>3

\* A settled call leaves both back ends with the same fields, if it found them so.
LEMMA CallAgrees ==
  ASSUME TypeOK, NEW c \in Arguments, Call(c), Shown(interpreted) = Shown(generated),
         Reads(c.preset) \cap Changed = {}
  PROVE  Shown(interpreted)' = Shown(generated)'
<1> DEFINE y == Given(c, interpreted)
<1>1. /\ kind \in Kind /\ Sound(interpreted) /\ Sound(generated)
      /\ interpreted \in Block /\ generated \in Block
  BY DEF TypeOK, Sound
<1>2. /\ interpreted' = Interpreted(kind, interpreted, y) /\ interpreted'.cv \in Count
      /\ generated' = Emitted(kind, generated, c) /\ kind' = kind
  BY DEF Call
<1>3. Given(c, generated) = y /\ y \in Offered
  <2>1. Seen(generated) = Seen(interpreted)
    <3>1. CASE kind \in {"TON", "TOF"}
      <4>1. [interpreted EXCEPT !.was = FALSE] = [generated EXCEPT !.was = FALSE]
        BY <3>1 DEF Shown
      <4>2. QED
        BY <1>1, <4>1 DEF Seen, Block
    <3>2. CASE kind \notin {"TON", "TOF"}
      BY <3>2 DEF Shown
    <3>3. QED
      BY <3>1, <3>2
  <2>2. QED
    BY <1>1, <2>1, ArgumentType DEF Given, Holds, Amount
<1>4. CASE kind \in {"TON", "TOF"}
  <2>1. Alike(interpreted, generated)
    BY <1>4 DEF Shown, Alike
  <2>2. Reads(c.preset) \cap {"et"} = {}
    BY <1>4 DEF Changed
  <2> HIDE DEF y
  <2>3. Alike(interpreted', generated')
    <3>1. CASE kind = "TON"
      <4>1. interpreted' = TON(interpreted, y) /\ generated' = EmittedTON(generated, c)
        BY <1>2, <3>1 DEF Interpreted, Emitted
      <4>2. Alike(EmittedTON(generated, c), TON(generated, y))
        BY <1>1, <1>3, <2>2, DelaysAgree
      <4>3. Alike(TON(interpreted, y), TON(generated, y))
        BY <1>1, <1>3, <2>1, DelaysAlike
      <4>4. QED
        BY <4>1, <4>2, <4>3 DEF Alike
    <3>2. CASE kind = "TOF"
      <4>1. interpreted' = TOF(interpreted, y) /\ generated' = EmittedTOF(generated, c)
        BY <1>2, <3>2 DEF Interpreted, Emitted
      <4>2. Alike(EmittedTOF(generated, c), TOF(generated, y))
        BY <1>1, <1>3, <2>2, DelaysAgree
      <4>3. Alike(TOF(interpreted, y), TOF(generated, y))
        BY <1>1, <1>3, <2>1, DelaysAlike
      <4>4. QED
        BY <4>1, <4>2, <4>3 DEF Alike
    <3>3. QED
      BY <1>4, <3>1, <3>2
  <2>4. QED
    BY <1>2, <1>4, <2>3 DEF Shown, Alike
<1>5. CASE kind \notin {"TON", "TOF"}
  <2>1. interpreted = generated
    BY <1>5 DEF Shown
  <2>2. kind = "TP" => Reads(c.preset) \cap {"q", "et"} = {}
    BY DEF Changed
  <2>3. kind \in {"CTU", "CTUD"} => Reads(c.preset) \cap {"cv"} = {}
    BY DEF Changed
  <2> HIDE DEF y
  <2>4. Emitted(kind, generated, c) = Interpreted(kind, interpreted, y)
    <3>1. CASE kind = "TP"
      BY <1>1, <1>3, <2>1, <2>2, <3>1, PulsesAgree DEF Emitted, Interpreted
    <3>2. CASE kind = "CTU"
      BY <1>1, <1>2, <1>3, <2>1, <2>3, <3>2, CountersAgree DEF Emitted, Interpreted
    <3>3. CASE kind = "CTUD"
      BY <1>1, <1>2, <1>3, <2>1, <2>3, <3>3, CountersAgree DEF Emitted, Interpreted
    <3>4. CASE kind = "CTD"
      <4>1. EmittedCTD(generated, c) = CTD(generated, Given(c, generated))
        BY <1>1, CounterFields
      <4>2. QED
        BY <1>3, <2>1, <3>4, <4>1 DEF Emitted, Interpreted
    <3>5. CASE kind \in {"SR", "RS", "R_TRIG", "F_TRIG"}
      BY <1>3, <2>1, <3>5 DEF Emitted, Interpreted
    <3>6. QED
      BY <1>1, <1>5, <3>1, <3>2, <3>3, <3>4, <3>5 DEF Kind
  <2>5. QED
    BY <1>2, <2>4 DEF Shown
<1>6. QED
  BY <1>4, <1>5
-----------------------------------------------------------------------------
(***************************************************************************)
(* The invariant.                                                          *)
(***************************************************************************)
OnDelayInv ==
  kind = "TON" /\ steady =>
    /\ interpreted.et = Least(high, preset)
    /\ interpreted.q <=> high > 0 /\ high >= preset

OffDelayInv ==
  kind = "TOF" /\ steady =>
    /\ interpreted.q <=> high > 0 \/ (low > 0 /\ low < preset)
    /\ interpreted.q => interpreted.et = low

PulseInv ==
  kind = "TP" =>
    /\ interpreted.q <=> interpreted.run
    /\ interpreted.was <=> high > 0
    /\ interpreted.q => interpreted.et = on
    /\ ~interpreted.q => on = 0

CounterInv ==
  /\ kind \in {"CTU", "CTD", "CTUD"} =>
       interpreted.cv = net /\ (interpreted.was <=> lastA)
  /\ kind = "CTUD" => (interpreted.wasB <=> lastB)

BlocksInv ==
  /\ TypeOK /\ BlocksAgree
  /\ OnDelayInv /\ OffDelayInv /\ PulseInv /\ CounterInv
  /\ high = 0 \/ low = 0

\* A fresh block has counted nothing and waited for nothing.
LEMMA InitBlocks == Init => BlocksInv
<1> SUFFICES ASSUME Init PROVE BlocksInv
  OBVIOUS
<1>1. preset \in Presets /\ preset \in Nat
  BY BoundsAssumption DEF Init
<1>2. /\ interpreted.et = 0 /\ interpreted.cv = 0 /\ interpreted.q = FALSE
      /\ interpreted.run = FALSE /\ interpreted.was = FALSE /\ interpreted.wasB = FALSE
  BY DEF Init, FreshBlock
<1>3. TypeOK
  <2>1. /\ 0 \in Time /\ 0 \in Int /\ 0 \in Count
        /\ FreshBlock \in Block /\ FreshBlock.et = 0 /\ FreshBlock.cv = 0
    BY BoundsAssumption DEF Time, Count, FreshBlock, Block
  <2>2. QED
    BY <1>1, <2>1, Zenon DEF Init, TypeOK
<1>4. OnDelayInv /\ OffDelayInv /\ PulseInv
  BY <1>1, <1>2 DEF Init, OnDelayInv, OffDelayInv, PulseInv, Least
<1>5. CounterInv /\ BlocksAgree
  BY <1>2 DEF Init, CounterInv, BlocksAgree, Shown
<1>6. QED
  BY <1>3, <1>4, <1>5 DEF BlocksInv, Init

\* A call keeps the types and the agreement.
LEMMA CallTypes ==
  ASSUME TypeOK, BlocksAgree, NEW c \in Arguments, Call(c)
  PROVE  TypeOK' /\ BlocksAgree'
<1> DEFINE y == Given(c, interpreted)
<1>1. BlocksAgree'
  BY CallAgrees DEF BlocksAgree, Call
<1>2. Sound(interpreted) /\ Sound(generated) /\ kind \in Kind
  BY DEF TypeOK, Sound
<1>3. y \in Offered
  BY <1>2, ArgumentType
<1>4. interpreted' \in Block /\ interpreted'.et \in Time /\ interpreted'.cv \in Count
  BY <1>2, <1>3, InterpretedType DEF Call, Sound
<1>5. generated' \in Block /\ generated'.et \in Time /\ generated'.cv \in Count
  BY <1>2, EmittedType DEF Call
<1>6. high' \in Time /\ low' \in Time /\ on' \in Time
  BY CycleAssumption, BoundsAssumption DEF Call, TypeOK, Time, Longer, Least
<1>7. preset' \in Presets
  BY <1>3 DEF Call, Offered
<1>8. /\ kind' \in Kind /\ settled' \in BOOLEAN /\ steady' \in BOOLEAN
      /\ lastA' \in BOOLEAN /\ lastB' \in BOOLEAN
  BY <1>3 DEF Call, TypeOK, Offered
<1>9. net' \in Int
  <2>1. net' = Net(y) /\ y.preset \in Int /\ net \in Int
    BY <1>3, PresetType DEF Call, TypeOK
  <2> HIDE DEF y
  <2>2. QED
    BY <2>1 DEF Net, Change, One
<1>10. QED
  BY <1>1, <1>4, <1>5, <1>6, <1>7, <1>8, <1>9 DEF TypeOK

\* An on-delay keeps time.
LEMMA CallTON ==
  ASSUME BlocksInv, NEW c \in Arguments, Call(c), NEW y \in Offered,
         y = Given(c, interpreted), kind = "TON"
  PROVE  OnDelayInv'
<1> SUFFICES ASSUME steady' PROVE OnDelayInv'
  BY DEF OnDelayInv
<1>1. interpreted' = TON(interpreted, y)
  BY DEF Call, Interpreted
<1>2. /\ interpreted'.et = IF y.a THEN Elapsed(interpreted.et, y) ELSE 0
      /\ interpreted'.q <=> y.a /\ Elapsed(interpreted.et, y) >= y.preset
  <2>1. interpreted \in Block
    BY DEF BlocksInv, TypeOK
  <2>2. QED
    BY <1>1, <2>1, TimerValues
<1>3. preset' = y.preset /\ y.preset = preset /\ interpreted.et = Least(high, y.preset)
  BY DEF Call, BlocksInv, OnDelayInv
<1>4. high \in 0 .. Horizon /\ high' = IF y.a THEN Least(high + Cycle, Horizon) ELSE 0
  BY DEF BlocksInv, TypeOK, Call, In, Longer, Time
<1>5. QED
  BY <1>2, <1>3, <1>4, PresetType, CycleAssumption, BoundsAssumption
  DEF OnDelayInv, Elapsed, Least

\* An off-delay keeps time.
LEMMA CallTOF ==
  ASSUME BlocksInv, NEW c \in Arguments, Call(c), NEW y \in Offered,
         y = Given(c, interpreted), kind = "TOF"
  PROVE  OffDelayInv'
<1> SUFFICES ASSUME steady' PROVE OffDelayInv'
  BY DEF OffDelayInv
<1>1. interpreted' = TOF(interpreted, y)
  BY DEF Call, Interpreted
<1>2. /\ interpreted'.et = IF y.a THEN 0
                           ELSE IF interpreted.q THEN Elapsed(interpreted.et, y)
                           ELSE interpreted.et
      /\ interpreted'.q <=>
           y.a \/ (interpreted.q /\ Elapsed(interpreted.et, y) < y.preset)
  <2>1. interpreted \in Block
    BY DEF BlocksInv, TypeOK
  <2>2. QED
    BY <1>1, <2>1, TimerValues
<1>3. /\ preset' = y.preset /\ y.preset = preset
      /\ interpreted.q <=> high > 0 \/ (low > 0 /\ low < y.preset)
      /\ interpreted.q => interpreted.et = low
      /\ high = 0 \/ low = 0
  BY DEF Call, BlocksInv, OffDelayInv
<1>4. /\ high \in 0 .. Horizon /\ low \in 0 .. Horizon
      /\ high' = IF y.a THEN Least(high + Cycle, Horizon) ELSE 0
      /\ low' = IF y.a \/ (high = 0 /\ low = 0) THEN 0 ELSE Least(low + Cycle, Horizon)
  BY DEF BlocksInv, TypeOK, Call, In, Longer, Time
<1>5. CASE y.a
  BY <1>2, <1>3, <1>4, <1>5, PresetType, CycleAssumption, BoundsAssumption
  DEF OffDelayInv, Least
<1>6. CASE ~y.a /\ interpreted.q
  <2>1. interpreted'.et = Least(low + Cycle, y.preset)
    BY <1>2, <1>3, <1>6 DEF Elapsed
  <2>2. interpreted'.q <=> Least(low + Cycle, y.preset) < y.preset
    BY <1>2, <1>3, <1>6 DEF Elapsed
  <2>3. high' = 0 /\ low' = Least(low + Cycle, Horizon)
    BY <1>3, <1>4, <1>6
  <2>4. y.preset \in Nat /\ y.preset < Horizon /\ Horizon \in Nat /\ Cycle \in Nat \ {0}
    BY PresetType, CycleAssumption, BoundsAssumption
  <2>5. interpreted'.q <=> low + Cycle < y.preset
    BY <1>4, <2>2, <2>4 DEF Least
  <2>6. low' > 0 /\ (low' < y.preset <=> low + Cycle < y.preset)
    BY <1>4, <2>3, <2>4 DEF Least
  <2>7. low + Cycle < y.preset => interpreted'.et = low'
    BY <1>4, <2>1, <2>3, <2>4 DEF Least
  <2>8. QED
    BY <1>3, <2>3, <2>5, <2>6, <2>7 DEF OffDelayInv
<1>7. CASE ~y.a /\ ~interpreted.q
  BY <1>2, <1>3, <1>4, <1>7, PresetType, CycleAssumption, BoundsAssumption
  DEF OffDelayInv, Least
<1>8. QED
  BY <1>5, <1>6, <1>7

\* What a call of TP does to the output, with one preset.
LEMMA CallPulse ==
  ASSUME BlocksInv, NEW c \in Arguments, Call(c), NEW y \in Offered,
         y = Given(c, interpreted), kind = "TP"
  PROVE  /\ PulseInv'
         /\ IF interpreted.q THEN interpreted'.q <=> on + Cycle < y.preset
            ELSE interpreted'.q <=> high = 0 /\ high' > 0 /\ Cycle < y.preset
<1>1. interpreted' = TP(interpreted, y)
  BY DEF Call, Interpreted
<1>2. /\ interpreted'.et = IF Pulses(interpreted, y) THEN Pulsed(interpreted, y)
                           ELSE interpreted.et
      /\ interpreted'.q <=> Pulses(interpreted, y) /\ Pulsed(interpreted, y) < y.preset
      /\ interpreted'.run <=> Pulses(interpreted, y) /\ Pulsed(interpreted, y) < y.preset
      /\ interpreted'.was <=> y.a
  <2>1. interpreted \in Block
    BY DEF BlocksInv, TypeOK
  <2>2. QED
    BY <1>1, <2>1, TimerValues
<1>3. /\ interpreted.q <=> interpreted.run
      /\ interpreted.was <=> high > 0
      /\ interpreted.q => interpreted.et = on
      /\ ~interpreted.q => on = 0
  BY DEF BlocksInv, PulseInv
<1>4. /\ high \in 0 .. Horizon /\ on \in 0 .. Horizon
      /\ high' = IF y.a THEN Least(high + Cycle, Horizon) ELSE 0
      /\ on' = IF interpreted'.q THEN Least(on + Cycle, Horizon) ELSE 0
  BY DEF BlocksInv, TypeOK, Call, In, Longer, Time
<1>5. y.a <=> high' > 0
  BY <1>4, PresetType, CycleAssumption, BoundsAssumption DEF Least
<1>6. preset' = y.preset /\ y.preset \in Nat /\ y.preset < Horizon
  BY PresetType DEF Call
<1>7. CASE interpreted.q
  <2>1. Pulses(interpreted, y) /\ Pulsed(interpreted, y) = Least(on + Cycle, y.preset)
    BY <1>3, <1>7 DEF Pulses, Pulsed, Starts, Elapsed
  <2>2. QED
    BY <1>2, <1>3, <1>4, <1>5, <1>6, <1>7, <2>1, CycleAssumption, BoundsAssumption
    DEF PulseInv, Least
<1>8. CASE ~interpreted.q
  <2>1. Pulses(interpreted, y) <=> high = 0 /\ high' > 0
    BY <1>3, <1>4, <1>5, <1>8 DEF Pulses, Starts
  <2>2. Pulses(interpreted, y) => Pulsed(interpreted, y) = Least(Cycle, y.preset)
    BY <1>3, <1>8, CycleAssumption DEF Pulses, Pulsed, Elapsed
  <2>3. QED
    BY <1>2, <1>3, <1>4, <1>5, <1>6, <1>8, <2>1, <2>2, CycleAssumption, BoundsAssumption
    DEF PulseInv, Least
<1>9. QED
  BY <1>7, <1>8

\* The count and the edge memories of the counters after a call.
LEMMA CounterValues ==
  ASSUME NEW s \in Block, NEW y \in Offered
  PROVE  /\ CTU(s, y).cv = IF y.r THEN 0 ELSE IF y.a /\ ~s.was THEN s.cv + 1 ELSE s.cv
         /\ CTU(s, y).was = IF y.r THEN s.was ELSE y.a
         /\ CTD(s, y).cv = IF y.ld THEN y.preset
                           ELSE IF y.a /\ ~s.was THEN s.cv - 1 ELSE s.cv
         /\ CTD(s, y).was = IF y.ld THEN s.was ELSE y.a
         /\ CTUD(s, y).cv = IF y.r THEN 0 ELSE IF y.ld THEN y.preset
                            ELSE s.cv + One(y.a /\ ~s.was) - One(y.b /\ ~s.wasB)
         /\ CTUD(s, y).was = IF y.r \/ y.ld THEN s.was ELSE y.a
         /\ CTUD(s, y).wasB = IF y.r \/ y.ld THEN s.wasB ELSE y.b
<1>1. CTU(s, y).cv = (IF y.r THEN 0 ELSE IF y.a /\ ~s.was THEN s.cv + 1 ELSE s.cv)
      /\ CTU(s, y).was = IF y.r THEN s.was ELSE y.a
  BY DEF CTU, Block
<1>2. CTD(s, y).cv = (IF y.ld THEN y.preset ELSE IF y.a /\ ~s.was THEN s.cv - 1 ELSE s.cv)
      /\ CTD(s, y).was = IF y.ld THEN s.was ELSE y.a
  BY DEF CTD, Block
<1>3. /\ CTUD(s, y).cv = IF y.r THEN 0 ELSE IF y.ld THEN y.preset
                         ELSE s.cv + One(y.a /\ ~s.was) - One(y.b /\ ~s.wasB)
      /\ CTUD(s, y).was = IF y.r \/ y.ld THEN s.was ELSE y.a
      /\ CTUD(s, y).wasB = IF y.r \/ y.ld THEN s.wasB ELSE y.b
  BY DEF CTUD, Block, One
<1>4. QED
  BY <1>1, <1>2, <1>3

\* A counter counts the rises.
LEMMA CallCounter ==
  ASSUME BlocksInv, NEW c \in Arguments, Call(c), NEW y \in Offered,
         y = Given(c, interpreted)
  PROVE  CounterInv'
<1>1. interpreted \in Block /\ net \in Int /\ y.preset \in Nat
  BY PresetType DEF BlocksInv, TypeOK
<1>2. kind' = kind /\ net' = Net(y)
      /\ lastA' = (IF Counts(y) THEN y.a ELSE lastA)
      /\ lastB' = (IF Counts(y) THEN y.b ELSE lastB)
  BY DEF Call
<1>3. CASE kind = "CTU"
  <2>1. interpreted' = CTU(interpreted, y)
    BY <1>3 DEF Call, Interpreted
  <2>2. interpreted.cv = net /\ (interpreted.was <=> lastA)
    BY <1>3 DEF BlocksInv, CounterInv
  <2>3. QED
    BY <1>1, <1>2, <1>3, <2>1, <2>2, CounterValues
    DEF CounterInv, Net, Resets, Loads, Counts, Change, One
<1>4. CASE kind = "CTD"
  <2>1. interpreted' = CTD(interpreted, y)
    BY <1>4 DEF Call, Interpreted
  <2>2. interpreted.cv = net /\ (interpreted.was <=> lastA)
    BY <1>4 DEF BlocksInv, CounterInv
  <2>3. QED
    BY <1>1, <1>2, <1>4, <2>1, <2>2, CounterValues
    DEF CounterInv, Net, Resets, Loads, Counts, Change, One
<1>5. CASE kind = "CTUD"
  <2>1. interpreted' = CTUD(interpreted, y)
    BY <1>5 DEF Call, Interpreted
  <2>2. interpreted.cv = net /\ (interpreted.was <=> lastA) /\ (interpreted.wasB <=> lastB)
    BY <1>5 DEF BlocksInv, CounterInv
  <2>3. QED
    BY <1>1, <1>2, <1>5, <2>1, <2>2, CounterValues
    DEF CounterInv, Net, Resets, Loads, Counts, Change, One
<1>6. CASE kind \notin {"CTU", "CTD", "CTUD"}
  BY <1>2, <1>6 DEF CounterInv
<1>7. QED
  BY <1>3, <1>4, <1>5, <1>6

\* Every call keeps the invariant.
LEMMA CallBlocks ==
  ASSUME BlocksInv, NEW c \in Arguments, Call(c)
  PROVE  BlocksInv'
<1> DEFINE y == Given(c, interpreted)
<1>1. TypeOK' /\ BlocksAgree'
  BY CallTypes DEF BlocksInv
<1>2. kind' = kind /\ y \in Offered
  BY ArgumentType DEF Call, BlocksInv, TypeOK, Sound
<1>3. OnDelayInv'
  BY <1>2, CallTON DEF OnDelayInv
<1>4. OffDelayInv'
  BY <1>2, CallTOF DEF OffDelayInv
<1>5. PulseInv'
  BY <1>2, CallPulse DEF PulseInv
<1>6. CounterInv'
  BY <1>2, CallCounter
<1>7. high' = 0 \/ low' = 0
  BY DEF Call
<1>8. QED
  BY <1>1, <1>3, <1>4, <1>5, <1>6, <1>7 DEF BlocksInv

\* The invariant holds after every call.
LEMMA BlocksInvariant == Spec => []BlocksInv
<1>1. BlocksInv /\ [Next]_vars => BlocksInv'
  <2>1. BlocksInv /\ Next => BlocksInv'
    BY CallBlocks DEF Next
  <2>2. BlocksInv /\ UNCHANGED vars => BlocksInv'
    BY DEF BlocksInv, TypeOK, BlocksAgree, Shown, OnDelayInv, OffDelayInv, PulseInv, CounterInv,
           vars, history
  <2>3. QED
    BY <2>1, <2>2
<1>2. QED
  BY <1>1, InitBlocks, PTL DEF Spec
-----------------------------------------------------------------------------
\* Blocks keep their types, and no elapsed time passes the bound of the presets.
THEOREM BlockTypes == Spec => []TypeOK
<1>1. BlocksInv => TypeOK
  BY DEF BlocksInv
<1>2. QED
  BY <1>1, BlocksInvariant, PTL

\* Interpreter and generated C agree on every standard block after every call.
THEOREM BlocksNeverDiffer == Spec => []BlocksAgree
<1>1. BlocksInv => BlocksAgree
  BY DEF BlocksInv
<1>2. QED
  BY <1>1, BlocksInvariant, PTL

\* TON and TOF switch when their input has been stable for PT.
THEOREM DelaysAreExact == Spec => []DelaysKeepTime
<1>1. BlocksInv => DelaysKeepTime
  BY DEF BlocksInv, OnDelayInv, OffDelayInv, DelaysKeepTime
<1>2. QED
  BY <1>1, BlocksInvariant, PTL

\* Counters hold the rises since their last reset or load.
THEOREM CountersAreExact == Spec => []CountersCountRises
<1>1. BlocksInv => CountersCountRises
  BY DEF BlocksInv, CounterInv, CountersCountRises
<1>2. QED
  BY <1>1, BlocksInvariant, PTL

\* Pulses of TP have one length and are not retriggered.
THEOREM PulsesAreExact == Spec => PulsesHaveOneLength
<1>1. BlocksInv /\ [Next]_vars
        => [steady' /\ kind = "TP" =>
              IF interpreted.q
              THEN interpreted'.q <=> on + Cycle < preset
              ELSE interpreted'.q <=> high = 0 /\ high' > 0 /\ Cycle < preset]_vars
  <2> SUFFICES ASSUME BlocksInv, Next, steady', kind = "TP"
               PROVE  IF interpreted.q
                      THEN interpreted'.q <=> on + Cycle < preset
                      ELSE interpreted'.q <=> high = 0 /\ high' > 0 /\ Cycle < preset
    OBVIOUS
  <2>1. PICK c \in Arguments : Call(c)
    BY DEF Next
  <2>2. Given(c, interpreted) \in Offered
    BY ArgumentType DEF BlocksInv, TypeOK, Sound
  <2>3. Given(c, interpreted).preset = preset
    BY <2>1 DEF Call
  <2>4. QED
    BY <2>1, <2>2, <2>3, CallPulse
<1>2. QED
  BY <1>1, BlocksInvariant, PTL DEF Spec, PulsesHaveOneLength
=============================================================================
