----------------------------- MODULE BlockCalls -----------------------------
(***************************************************************************)
(* One instance of a standard function block, called again and again with  *)
(* any arguments, in the interpreter and in the generated C.  A call lasts *)
(* one cycle; a scan that does not reach it does not count.                *)
(***************************************************************************)
EXTENDS StandardBlocks

CONSTANTS
  Condition,  \* the arguments on offer that are Booleans
  Missing,    \* the one of them that stands for an argument left out
  Amounts,    \* and those for PV and PT
  Reads(_),   \* the outputs of the instance an amount reads
  Presets,    \* the values amounts take
  Horizon,    \* bound on the times of the history, above every preset
  Limit       \* bound on the counts

Time    == 0 .. Horizon
Count   == -Limit .. Limit
Outputs == [q : BOOLEAN, qd : BOOLEAN, et : Time, cv : Count]

ASSUME BoundsAssumption ==
  /\ Presets \subseteq Nat
  /\ Horizon \in Nat /\ \A p \in Presets : p < Horizon
  /\ Limit \in Nat

ASSUME ArgumentAssumption ==
  /\ Missing \in Condition
  /\ \A e \in Condition, o \in Outputs : Truth(e, o) \in BOOLEAN
  /\ \A e \in Amounts, o \in Outputs : Value(e, o) \in Presets
  /\ \A e \in Amounts, o, p \in Outputs :
       (\A f \in Reads(e) : o[f] = p[f]) => Value(e, o) = Value(e, p)
  /\ \A e \in Amounts : Reads(e) \subseteq {"q", "qd", "et", "cv"}

VARIABLES
  kind,         \* the type of the instance
  interpreted,  \* its fields in the interpreter
  generated     \* and in the generated C

(* History variables: they guard nothing.                                  *)
VARIABLES
  settled,  \* no PV or PT so far read what its call had changed by then
  preset,   \* the value of PV or PT in the last call
  steady,   \* which was the same in all calls
  high,     \* how long IN of a timer has been TRUE
  low,      \* how long it has been FALSE since it was TRUE
  on,       \* how long Q of TP has been TRUE
  net,      \* rises up minus rises down, from the last reset or load
  lastA, lastB   \* the inputs at the last call that may count

history == <<settled, preset, steady, high, low, on, net, lastA, lastB>>
vars    == <<kind, interpreted, generated, history>>

TypeOK ==
  /\ kind \in Kind
  /\ interpreted \in Block /\ interpreted.et \in Time /\ interpreted.cv \in Count
  /\ generated \in Block /\ generated.et \in Time /\ generated.cv \in Count
  /\ settled \in BOOLEAN
  /\ preset \in Presets
  /\ steady \in BOOLEAN
  /\ high \in Time /\ low \in Time /\ on \in Time
  /\ net \in Int
  /\ lastA \in BOOLEAN /\ lastB \in BOOLEAN

Init ==
  /\ kind \in Kind
  /\ interpreted = FreshBlock
  /\ generated = FreshBlock
  /\ settled = TRUE
  /\ preset \in Presets
  /\ steady = TRUE
  /\ high = 0 /\ low = 0 /\ on = 0
  /\ net = 0
  /\ lastA = FALSE /\ lastB = FALSE

\* What a call has changed when the generated C evaluates PT or PV again: ET at
\* least, Q where a pulse has started; the count before it is compared.
Changed ==
  CASE kind \in {"TON", "TOF"} -> {"et"}
    [] kind = "TP" -> {"q", "et"}
    [] kind \in {"CTU", "CTUD"} -> {"cv"}
    [] OTHER -> {}

Longer(t) == Least(t + Cycle, Horizon)
One(b)    == IF b THEN 1 ELSE 0

\* What a call holds at a value: a reset to 0, or a load.
Resets(y) == kind \in {"CTU", "CTUD"} /\ y.r
Loads(y)  == kind \in {"CTD", "CTUD"} /\ y.ld
Counts(y) == kind \in {"CTU", "CTD", "CTUD"} /\ ~Resets(y) /\ ~Loads(y)

Change(y) ==
  LET a == One(y.a /\ ~lastA)
      b == One(y.b /\ ~lastB)
  IN  IF kind = "CTU" THEN a ELSE IF kind = "CTD" THEN -a ELSE a - b

Net(y) ==
  IF Resets(y) THEN 0
  ELSE IF Loads(y) THEN y.preset
  ELSE IF Counts(y) THEN net + Change(y)
  ELSE net

In(y) == kind \in {"TON", "TOF", "TP"} /\ y.a

Call(c) ==
  LET y == Given(c, interpreted)
  IN  /\ interpreted' = Interpreted(kind, interpreted, y)
      /\ generated' = Emitted(kind, generated, c)
      /\ interpreted'.cv \in Count /\ generated'.cv \in Count
      /\ settled' = (settled /\ Reads(c.preset) \cap Changed = {})
      /\ preset' = y.preset
      /\ steady' = (steady /\ y.preset = preset)
      /\ high' = IF In(y) THEN Longer(high) ELSE 0
      /\ low' = IF In(y) \/ (high = 0 /\ low = 0) THEN 0 ELSE Longer(low)
      /\ on' = IF kind = "TP" /\ interpreted'.q THEN Longer(on) ELSE 0
      /\ net' = Net(y)
      /\ lastA' = IF Counts(y) THEN y.a ELSE lastA
      /\ lastB' = IF Counts(y) THEN y.b ELSE lastB
      /\ UNCHANGED kind

\* An argument for each input the block has.
For(kinds) == IF kind \in kinds THEN Condition ELSE {Missing}

Arguments ==
  [a : Condition, b : For({"CTUD"}), r : For({"SR", "RS", "CTU", "CTUD"}),
   ld : For({"CTD", "CTUD"}), preset : Amounts]

Next == \E c \in Arguments : Call(c)

Spec == Init /\ [][Next]_vars
-----------------------------------------------------------------------------
\* _IN of TON and TOF, which no call reads; the C sets it to what the text of IN
\* is worth after Q has changed.
Shown(s) == IF kind \in {"TON", "TOF"} THEN [s EXCEPT !.was = FALSE] ELSE s

\* The interpreter and the generated C hold the same fields after every call,
\* however PV and PT change between the calls and whatever outputs of the block
\* itself the arguments read, although the C evaluates the text of an argument
\* wherever it stands: unless a PV or PT read what its call had changed by then.
BlocksAgree == settled => Shown(interpreted) = Shown(generated)

\* On- and off-delay: with one PT, TON is on when its input has been TRUE for PT
\* without a break, TOF is off when it has been FALSE for PT without a break.
DelaysKeepTime ==
  steady =>
    /\ kind = "TON" => (interpreted.q <=> high > 0 /\ high >= preset)
    /\ kind = "TOF" => (interpreted.q <=> high > 0 \/ (low > 0 /\ low < preset))

\* With one PT all pulses of TP have one length, the last call before PT has
\* passed, whatever the input does meanwhile; a rise starts one unless a pulse
\* is on, or PT is no longer than a call.
PulsesHaveOneLength ==
  [][steady' /\ kind = "TP" =>
       IF interpreted.q
       THEN interpreted'.q <=> on + Cycle < preset
       ELSE interpreted'.q <=> high = 0 /\ high' > 0 /\ Cycle < preset]_vars

\* A counter holds the rises since its last reset or load, each counted once; a
\* rise while it is held is counted when it is released, and rises up and down
\* in one call cancel.
CountersCountRises ==
  kind \in {"CTU", "CTD", "CTUD"} => interpreted.cv = net
=============================================================================
