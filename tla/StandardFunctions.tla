-------------------------- MODULE StandardFunctions --------------------------
(***************************************************************************)
(* The standard functions as the interpreter computes them                 *)
(* (crates/iec_stdlib): numbers, times, selection, comparison, bit strings *)
(* and the conversions.  Functions of REALs, strings and dates are left    *)
(* out.                                                                    *)
(*                                                                         *)
(* A function is named by a sequence: <<"ADD">>, or <<"TO", from, to>>,    *)
(* <<"BCD_TO", from, to>> and <<"TO_BCD", from, to>> for a conversion.     *)
(* The arithmetic is that of a build without overflow checks; with them    *)
(* the program stops where it wraps here.                                  *)
(***************************************************************************)
EXTENDS Language

Fold2      == {"ADD", "MUL", "MIN", "MAX", "AND", "OR", "XOR"}
Chained    == {"GT", "GE", "EQ", "NE", "LE", "LT"}
Shifts     == {"SHL", "SHR", "ROL", "ROR"}
TimeResult == {"ADD_TIME", "SUB_TIME", "MUL_TIME", "DIV_TIME"}
Conversion == {"TO", "BCD_TO", "TO_BCD"}
StandardNames ==
  Fold2 \cup Chained \cup Shifts \cup TimeResult \cup Conversion
    \cup {"ABS", "MOVE", "NOT", "SUB", "DIV", "MOD", "LIMIT", "SEL", "MUX"}

IsStandard(f) == f[1] \in StandardNames

\* IN, IN1, IN2, ... as an extensible input
NthInput(name) == CASE name \in {"IN", "IN1"} -> 0 [] name = "IN2" -> 1 [] name = "IN3" -> 2
                    [] OTHER -> None

\* The place of a named argument; None for a name the function does not have.
InputIndex(f, name) ==
  LET places ==
        CASE f[1] = "SEL"   -> <<"G", "IN0", "IN1">>
          [] f[1] = "MUX"   -> <<"K", "IN0", "IN1", "IN2">>
          [] f[1] = "LIMIT" -> <<"MN", "IN", "MX">>
          [] f[1] \in Shifts -> <<"IN", "N">>
          [] f[1] \in {"ABS", "MOVE", "NOT"} \cup Conversion -> <<"IN">>
          [] OTHER -> <<>>
      nth == NthInput(name)
  IN  IF places # <<>>
      THEN IF name \in Range(places) THEN (CHOOSE k \in DOMAIN places : places[k] = name) - 1
           ELSE None
      ELSE IF nth # None /\ (f[1] \in (Fold2 \cup Chained) \ {"NE"} \/ nth < 2) THEN nth ELSE None

\* The program stops: a panic no build setting removes.
Panic == [v |-> 0, t |-> "panic"]

(***************************************************************************)
(* The pieces of eval_standard_function.  None is a failed call.           *)
(***************************************************************************)
AllNumbers(args) == \A k \in DOMAIN args : HasNumber(args[k])
AllFlags(args)   == \A k \in DOMAIN args : args[k].t = "bool"
SomeTime(args)   == \E k \in DOMAIN args : args[k].t = "time"
\* value_time_ms: the milliseconds of a TIME, or a whole number
Timed(x)         == x.t \in {"bool", "int", "time"}

Machine(n) == Num(WrappedS(n, WideBits))
Larger(a, b)  == IF a > b THEN a ELSE b
Smaller(a, b) == IF a < b THEN a ELSE b

\* What the function called op makes of two numbers
Applied(op, a, b) ==
  CASE op = "ADD" -> WrappedS(a + b, WideBits)
    [] op = "SUB" -> WrappedS(a - b, WideBits)
    [] op = "MUL" -> WrappedS(a * b, WideBits)
    [] op = "DIV" -> Quotient(a, b)
    [] op = "MOD" -> Remainder(a, b)
    [] op = "MIN" -> Smaller(a, b)
    [] op = "MAX" -> Larger(a, b)
    [] op = "AND" -> BitAnd(a, b)
    [] op = "OR"  -> BitOr(a, b)
    [] op = "XOR" -> BitXor(a, b)
AppliedToAll(op, args) == FoldLeft(LAMBDA acc, x : Applied(op, acc, x.v), args[1].v, Tail(args))

FoldNumbers(op, args) ==
  IF args # <<>> /\ AllNumbers(args) THEN Num(AppliedToAll(op, args)) ELSE None

PairOf(op, args) ==
  IF Len(args) >= 2 /\ AllNumbers(SubSeq(args, 1, 2)) THEN Num(Applied(op, args[1].v, args[2].v)) ELSE None

Divides(op, args) ==
  IF ~(Len(args) >= 2 /\ AllNumbers(SubSeq(args, 1, 2))) \/ args[2].v = 0 THEN None
  ELSE IF args[1].v = WideMin /\ args[2].v = -1 THEN Panic
  ELSE Num(Applied(op, args[1].v, args[2].v))

\* The order of two values is what the comparison called op asks for.
Holding(op, order) ==
  CASE op = "GT" -> order > 0  [] op = "GE" -> order >= 0 [] op = "EQ" -> order = 0
    [] op = "NE" -> order # 0  [] op = "LE" -> order <= 0 [] op = "LT" -> order < 0

\* bit_bool_fold: on Booleans while all of them are
BitFold(op, args) ==
  LET Of(folded) == IF folded # None /\ AllFlags(args) THEN Flag(folded.v = 1) ELSE folded
  IN  Of(FoldNumbers(op, args))

CompareChain(op, args) ==
  LET Of(orders, stops) ==
        IF stops = {} THEN Flag(TRUE)
        ELSE IF orders[CHOOSE k \in stops : \A j \in stops : k <= j] = None THEN None ELSE Flag(FALSE)
      Each(orders) == Of(orders, {k \in DOMAIN orders : orders[k] = None \/ ~Holding(op, orders[k])})
  IN  IF Len(args) < 2 THEN None ELSE Each([k \in 1..Len(args) - 1 |-> Compare(args[k], args[k + 1])])

\* min_max and limit: on times when one of the arguments is a TIME, else on
\* numbers (Booleans become whole numbers).
Chosen(op, args) ==
  IF args = <<>> THEN None
  ELSE IF SomeTime(args)
  THEN IF \A k \in DOMAIN args : Timed(args[k])
       THEN Time(AppliedToAll(op, args)) ELSE None
  ELSE FoldNumbers(op, args)

Limited(args) ==
  LET kept == Smaller(Larger(args[2].v, args[1].v), args[3].v) IN
  IF Len(args) # 3 \/ ~(\A k \in 1..3 : Timed(args[k])) THEN None
  ELSE IF SomeTime(args) THEN Time(kept) ELSE Num(kept)

\* MUX: the selector is cast to an unsigned index, and one is added to it.
Selected(args) ==
  IF args = <<>> \/ ~HasNumber(args[1]) THEN None
  ELSE LET at == Wrapped(Wrapped(args[1].v, WideBits) + 1, WideBits) + 1
       IN  IF at \in DOMAIN args THEN args[at] ELSE None

\* Shifts and rotations work on all the bits of the interpreter's integer,
\* whatever the type of the argument; the count is cast to 32 bits by a shift.
Shifted(args, right) ==
  LET bits  == Wrapped(args[1].v, WideBits)
      count == Wrapped(args[2].v, IntBits)
  IN  IF Len(args) < 2 \/ ~AllNumbers(args) \/ args[2].v < 0 THEN None
      ELSE IF count >= WideBits THEN Num(0)
      ELSE Machine(IF right THEN bits \div Pow2(count) ELSE bits * Pow2(count))

Rotated(args, right) ==
  LET bits == Wrapped(args[1].v, WideBits)
      n    == args[2].v % WideBits
      left == IF right THEN (WideBits - n) % WideBits ELSE n
  IN  IF Len(args) < 2 \/ ~AllNumbers(args) \/ args[2].v < 0 THEN None
      ELSE Machine(bits * Pow2(left) + bits \div Pow2(WideBits - left))

\* Times have twice the width of numbers and do not wrap.
AppliedToTimes(name, a, b) ==
  CASE name = "ADD_TIME" -> a + b [] name = "SUB_TIME" -> a - b
    [] name = "MUL_TIME" -> a * b [] name = "DIV_TIME" -> Quotient(a, b)

TimePair(name, args) ==
  IF Len(args) >= 2 /\ Timed(args[1]) /\ Timed(args[2]) THEN Time(AppliedToTimes(name, args[1].v, args[2].v)) ELSE None

TimeScale(name, args) ==
  IF Len(args) >= 2 /\ Timed(args[1]) /\ HasNumber(args[2])
  THEN Time(AppliedToTimes(name, args[1].v, args[2].v)) ELSE None

(***************************************************************************)
(* Conversions                                                             *)
(***************************************************************************)
Digits(type) == TypeBits(type) \div 4

RECURSIVE BcdDigits(_), DecimalDigits(_)
BcdDigits(n)     == IF n = 0 THEN <<>> ELSE <<n % 16>> \o BcdDigits(n \div 16)
DecimalDigits(n) == IF n = 0 THEN <<>> ELSE <<n % 10>> \o DecimalDigits(n \div 10)

Positional(digits, base) == FoldRight(LAMBDA d, acc : d + base * acc, digits, 0)

BcdToInt(n, type) ==
  LET digits == BcdDigits(n) IN
  IF n < 0 \/ n >= Pow2(4 * Digits(type)) \/ \E k \in DOMAIN digits : digits[k] > 9 THEN None
  ELSE Num(Positional(digits, 10))

IntToBcd(n, type) ==
  LET digits == DecimalDigits(n) IN
  IF n < 0 \/ Len(digits) > Digits(type) THEN None ELSE Num(Positional(digits, 16))

\* eval_conversion_function: a value outside the target type fails.  A TIME is
\* converted through its milliseconds.
Converted(x, to) ==
  CASE ~Timed(x)   -> None
    [] to = "BOOL" -> Flag(x.v # 0)
    [] to = "TIME" -> Time(x.v)
    [] OTHER       -> IF x.v \in Low(to)..High(to) THEN Num(x.v) ELSE None

\* A BCD_TO conversion that fails is tried again as a plain conversion: its name
\* ends in _TO_ and a type as well.
Conversions(f, args) ==
  LET bcd == CASE args = <<>> \/ ~HasNumber(args[1]) -> None
               [] f[1] = "BCD_TO" -> BcdToInt(args[1].v, f[2])
               [] f[1] = "TO_BCD" -> IntToBcd(args[1].v, f[3])
               [] OTHER -> None
  IN  IF bcd # None THEN bcd
      ELSE IF args = <<>> \/ f[1] = "TO_BCD" THEN None ELSE Converted(args[1], f[3])

Std(f, args) ==
  LET name == f[1] IN
  CASE name \in Conversion -> Conversions(f, args)
    [] name = "ABS"  -> IF args # <<>> /\ HasNumber(args[1]) THEN Machine(Magnitude(args[1].v)) ELSE None
    [] name = "MOVE" -> IF args # <<>> THEN args[1] ELSE None
    [] name \in {"ADD", "MUL"} -> FoldNumbers(name, args)
    [] name = "SUB"  -> PairOf(name, args)
    [] name \in {"DIV", "MOD"} -> Divides(name, args)
    [] name \in {"MIN", "MAX"} -> Chosen(name, args)
    [] name = "LIMIT" -> Limited(args)
    [] name = "SEL"  -> IF args = <<>> \/ ~HasNumber(args[1]) \/ Len(args) < (IF IsTrue(args[1]) THEN 3 ELSE 2)
                        THEN None ELSE args[IF IsTrue(args[1]) THEN 3 ELSE 2]
    [] name = "MUX"  -> Selected(args)
    [] name \in Chained -> CompareChain(name, args)
    [] name = "SHL"  -> Shifted(args, FALSE)
    [] name = "SHR"  -> Shifted(args, TRUE)
    [] name = "ROL"  -> Rotated(args, FALSE)
    [] name = "ROR"  -> Rotated(args, TRUE)
    [] name \in {"AND", "OR", "XOR"} -> BitFold(name, args)
    [] name = "NOT"  -> CASE args = <<>> \/ ~HasNumber(args[1]) -> None
                          [] args[1].t = "bool" -> Flag(args[1].v = 0)
                          [] OTHER -> Num(BitNot(args[1].v))
    [] name \in {"ADD_TIME", "SUB_TIME"} -> TimePair(name, args)
    [] name = "MUL_TIME" -> TimeScale(name, args)
    [] name = "DIV_TIME" -> IF Len(args) >= 2 /\ HasNumber(args[2]) /\ args[2].v # 0
                            THEN TimeScale(name, args) ELSE None

\* disabled_standard_function_value: what a call with EN = FALSE gives
DisabledValue(f) ==
  CASE f[1] \in Chained \/ (f[1] \in Conversion /\ f[3] = "BOOL") -> Flag(FALSE)
    [] f[1] \in TimeResult -> Time(0)
    [] OTHER -> Num(0)
=============================================================================
