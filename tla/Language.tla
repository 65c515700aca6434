------------------------------ MODULE Language ------------------------------
(***************************************************************************)
(* The programs of crates/iec_ir: values, types and the tree a parsed body *)
(* is, as the checker (ProgramCheck), the interpreter (Interpreter) and    *)
(* the generated C (EmittedC) see them.                                    *)
(*                                                                         *)
(* Integers come in three widths instead of four: narrower than an int of  *)
(* the C compiler (8 and 16 bits in the code), as wide as one (32) and as  *)
(* wide as the i64 the interpreter computes with (64).  REAL, strings and  *)
(* dates are left out.                                                     *)
(***************************************************************************)
EXTENDS Integers, Sequences, FiniteSets, SequencesExt, Bitwise

CONSTANTS
  ShortBits, IntBits, WideBits,  \* the three widths
  MantissaBits,    \* an f64 holds whole numbers of so many bits exactly (53)
  None,            \* Option::None
  Named,           \* the data types of the project, by name
  Functions,       \* its functions, by name: [inputs, locals, returns, body]
  FunctionBlocks   \* its function blocks, by name: [fields, body]

ASSUME WidthAssumption ==
  /\ ShortBits \in Nat \ {0} /\ IntBits \in Nat /\ WideBits \in Nat
  /\ ShortBits < IntBits /\ IntBits < WideBits
  /\ MantissaBits \in IntBits..WideBits

Pow2(n) == 2 ^ n

(***************************************************************************)
(* Values.  Numbers, Booleans, times and ordinals carry an integer.        *)
(***************************************************************************)
Flag(b)    == [v |-> IF b THEN 1 ELSE 0, t |-> "bool"]
Num(n)     == [v |-> n, t |-> "int"]
Time(ms)   == [v |-> ms, t |-> "time"]
Array(seq) == [v |-> 0, t |-> "array", elements |-> seq]
Struct(fs) == [fields |-> fs, v |-> 0, t |-> "struct"]
Unit       == [v |-> 0, t |-> "unit"]

\* as_bool, as_i64 and as_f64: a TIME is none of them
HasNumber(x) == x # None /\ x.t \in {"bool", "int"}
IsTrue(x)    == HasNumber(x) /\ x.v # 0
NumberOr(x, default) == IF HasNumber(x) THEN x.v ELSE default

WideMin == -Pow2(WideBits - 1)
WideMax == Pow2(WideBits - 1) - 1
Wide    == WideMin .. WideMax

\* n wrapped into bits bits, with and without a sign
Wrapped(n, bits)  == n % Pow2(bits)
WrappedS(n, bits) == ((n + Pow2(bits - 1)) % Pow2(bits)) - Pow2(bits - 1)

\* Division that rounds towards zero, as in Rust and C
Sign(n)         == IF n < 0 THEN -1 ELSE 1
Magnitude(n)    == IF n < 0 THEN -n ELSE n
Quotient(a, b)  == Sign(a) * Sign(b) * (Magnitude(a) \div Magnitude(b))
Remainder(a, b) == a - b * Quotient(a, b)

\* The f64 nearest to n: n itself, or a multiple of a power of two, ties to the even one.
Float(n) ==
  LET big(e) == Magnitude(n) > Pow2(MantissaBits + e)
      Nearest(unit, whole, rest) ==
        unit * (IF 2 * rest > unit \/ (2 * rest = unit /\ whole % 2 = 1) THEN whole + 1 ELSE whole)
      To(unit) == Nearest(unit, n \div unit, n % unit)
  IN  To(Pow2(CHOOSE e \in 0..WideBits : ~big(e) /\ (e = 0 \/ big(e - 1))))

\* compare_values on numbers: -1, 0, 1, or None when one of them is not a number.
\* Whole numbers are compared as f64.
Order(a, b)   == IF a = b THEN 0 ELSE IF a < b THEN -1 ELSE 1
Compare(l, r) == IF HasNumber(l) /\ HasNumber(r) THEN Order(Float(l.v), Float(r.v)) ELSE None

\* Bitwise operations on two's complement numbers of the widest type
BitAnd(a, b) == WrappedS(Wrapped(a, WideBits) & Wrapped(b, WideBits), WideBits)
BitOr(a, b)  == WrappedS(Wrapped(a, WideBits) | Wrapped(b, WideBits), WideBits)
BitXor(a, b) == WrappedS(Wrapped(a, WideBits) ^^ Wrapped(b, WideBits), WideBits)
BitNot(a)    == -a - 1

(***************************************************************************)
(* Types.  A type is the name of an elementary type or of an element of    *)
(* Named: an alias, a subrange, an enumeration, an array or a structure,   *)
(* with its fields [name, type, init].                                     *)
(***************************************************************************)
SignedType   == {"SINT", "DINT", "LINT"}
UnsignedType == {"USINT", "UDINT", "ULINT"}
BitsType     == {"BYTE", "DWORD", "LWORD"}
IntegerType  == SignedType \cup UnsignedType \cup BitsType
Elementary   == IntegerType \cup {"BOOL", "TIME"}

TypeBits(type) == CASE type \in {"SINT", "USINT", "BYTE"}  -> ShortBits
                    [] type \in {"DINT", "UDINT", "DWORD"} -> IntBits
                    [] OTHER                               -> WideBits

\* elementary_integer_range: the widest unsigned types hold no more than an i64
Low(type)  == IF type \in SignedType THEN -Pow2(TypeBits(type) - 1) ELSE 0
High(type) == IF type \in SignedType \/ TypeBits(type) = WideBits
              THEN Pow2(TypeBits(type) - 1) - 1 ELSE Pow2(TypeBits(type)) - 1

RECURSIVE Resolved(_)
\* resolve_named_spec
Resolved(type) ==
  IF type \in DOMAIN Named
  THEN IF Named[type].kind = "alias" THEN Resolved(Named[type].of) ELSE Named[type]
  ELSE [kind |-> IF type \in Elementary THEN "elementary" ELSE "block", name |-> type]

EnumTypes == {type \in DOMAIN Named : Named[type].kind = "enum"}
\* The values of an enumeration are names of the project, whatever the scope.
EnumNames == UNION {Range(Named[type].values) : type \in EnumTypes}
Ordinal(name) ==
  LET type == CHOOSE ty \in EnumTypes : name \in Range(Named[ty].values)
  IN  (CHOOSE k \in DOMAIN Named[type].values : Named[type].values[k] = name) - 1

FieldNames(type) == {f.name : f \in Range(Resolved(type).fields)}
FieldNamed(type, name) == CHOOSE f \in Range(Resolved(type).fields) : f.name = name
\* The type of a field of a structure; None: there is no such field
FieldType(type, name) ==
  IF Resolved(type).kind = "struct" /\ name \in FieldNames(type) THEN FieldNamed(type, name).type ELSE None

RECURSIVE TypeAt(_, _), ValueAt(_, _), ValueWith(_, _, _)
\* The type and the value at a path of field names inside a value, and the value with
\* y there.
TypeAt(type, path) ==
  IF path = <<>> \/ type = None THEN type ELSE TypeAt(FieldType(type, path[1]), Tail(path))
ValueAt(x, path) ==
  IF path = <<>> THEN x
  ELSE IF x.t = "struct" /\ path[1] \in DOMAIN x.fields THEN ValueAt(x.fields[path[1]], Tail(path))
  ELSE None
ValueWith(x, path, y) ==
  IF path = <<>> THEN y ELSE [x EXCEPT !.fields[path[1]] = ValueWith(@, Tail(path), y)]

RECURSIVE Default(_)
\* default_value: a subrange without zero starts at its lower bound
Default(type) ==
  LET spec == Resolved(type) IN
  CASE spec.kind = "array"    -> Array([k \in 1..spec.high - spec.low + 1 |-> Default(spec.of)])
    [] spec.kind = "struct"   -> Struct([name \in FieldNames(type) |->
                                   LET f == FieldNamed(type, name)
                                   IN  IF f.init = None THEN Default(f.type) ELSE f.init.x])
    [] spec.kind = "enum"     -> Num(0)
    [] spec.kind = "subrange" -> Num(IF spec.low <= 0 /\ spec.high >= 0 THEN 0 ELSE spec.low)
    [] spec.kind = "block"    -> Num(0)
    [] spec.name = "BOOL"     -> Flag(FALSE)
    [] spec.name = "TIME"     -> Time(0)
    [] OTHER                  -> Num(0)

RECURSIVE Holds(_, _)
\* x is a value of the type, within its range.
Holds(x, type) ==
  LET spec == Resolved(type) IN
  CASE spec.kind = "array"    -> /\ x.t = "array" /\ Len(x.elements) = spec.high - spec.low + 1
                                 /\ \A k \in DOMAIN x.elements : Holds(x.elements[k], spec.of)
    [] spec.kind = "struct"   -> /\ x.t = "struct" /\ DOMAIN x.fields = FieldNames(type)
                                 /\ \A f \in Range(spec.fields) : Holds(x.fields[f.name], f.type)
    [] spec.kind = "enum"     -> x.t = "int" /\ x.v \in 0..Len(spec.values) - 1
    [] spec.kind = "subrange" -> x.t = "int" /\ x.v \in spec.low..spec.high
    [] spec.kind = "block"    -> x = Num(0)
    [] spec.name = "BOOL"     -> x.t = "bool"
    [] spec.name = "TIME"     -> x.t = "time"
    [] OTHER                  -> x.t = "int" /\ x.v \in Low(spec.name)..High(spec.name)

(***************************************************************************)
(* Trees.  A variable is a path of names, with a subscript (elem) or       *)
(* without (var), or a location of the process image (at); an argument is  *)
(* [name, output, negated, e, var].                                        *)
(***************************************************************************)
Lit(x)          == [k |-> "lit", x |-> x]
Var(name)       == [k |-> "var", path |-> <<name>>]
Field(inst, f)  == [k |-> "var", path |-> <<inst, f>>]
Direct(location) == [k |-> "at", path |-> <<location>>]
Elem(name, at)  == [k |-> "elem", path |-> <<name>>, at |-> at]
Un(op, e)       == [k |-> "un", op |-> op, e |-> e]
Bin(op, l, r)   == [k |-> "bin", op |-> op, l |-> l, r |-> r]
Call(f, args)   == [k |-> "call", f |-> f, args |-> args]

In(name, e)     == [name |-> name, output |-> FALSE, negated |-> FALSE, e |-> e, var |-> None]
Out(name, var)  == [name |-> name, output |-> TRUE, negated |-> FALSE, e |-> None, var |-> var]

Assign(to, e)   == [k |-> "assign", to |-> to, e |-> e]
If(branches, els)  == [k |-> "if", branches |-> branches, els |-> els]
Case(sel, cases, els) == [k |-> "case", sel |-> sel, cases |-> cases, els |-> els]
For(control, from, to, by, body) ==
  [k |-> "for", control |-> control, from |-> from, to |-> to, by |-> by, body |-> body]
While(c, body)  == [k |-> "while", c |-> c, body |-> body]
Repeat(body, c) == [k |-> "repeat", c |-> c, body |-> body]
Il(op, e)       == [k |-> "il", op |-> op, e |-> e]
Label(l)        == [k |-> "label", l |-> l]
Exit            == [k |-> "exit"]
Return          == [k |-> "return"]
FbCall(inst, args) == [k |-> "fb", inst |-> inst, args |-> args]

IsVariable(e) == e.k \in {"var", "elem", "at"}
IsInput(arg) == ~arg.output /\ arg.name # "EN"
IsEno(arg)   == arg.output /\ arg.name = "ENO"

\* The value of EN, or None; the arguments that bind inputs
EnOf(args)     == LET ens == SelectSeq(args, LAMBDA a : ~a.output /\ a.name = "EN")
                  IN  IF ens = <<>> THEN None ELSE ens[1].e
InputsOf(args) == SelectSeq(args, IsInput)

\* The input an argument binds: by its name, or by its place among the unnamed ones
\* (None: there is none).
Target(names, args, k) ==
  IF args[k].name # None
  THEN IF args[k].name \in Range(names) THEN args[k].name ELSE None
  ELSE LET place == Cardinality({j \in 1..k : args[j].name = None /\ IsInput(args[j])})
       IN  IF place <= Len(names) THEN names[place] ELSE None

BlockInputs(block) ==
  LET fields == SelectSeq(FunctionBlocks[block].fields, LAMBDA f : f.kind \in {"IN", "INOUT"})
  IN  [k \in DOMAIN fields |-> fields[k].name]
FieldOf(block, name) ==
  LET fields == FunctionBlocks[block].fields
  IN  fields[CHOOSE k \in DOMAIN fields : fields[k].name = name]
InputNames(function) ==
  [k \in DOMAIN Functions[function].inputs |-> Functions[function].inputs[k].name]
=============================================================================
