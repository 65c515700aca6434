----------------------------- MODULE ProgramCheck -----------------------------
(***************************************************************************)
(* What crates/iec_semantics rejects: the types, ranges and calls of the   *)
(* bodies of programs, functions and function blocks.  A check that        *)
(* reports an error is a condition that does not hold; warnings are left   *)
(* out.  (Configurations, SFC networks and the names and counts of a       *)
(* project are not checked here.)                                          *)
(*                                                                         *)
(* Types are told apart no finer than SimpleType: every integer type is    *)
(* "integer", every bit string is "bits", and an instance of a function    *)
(* block is "unknown".  `types' gives the declared type of a variable.     *)
(***************************************************************************)
EXTENDS StandardFunctions

CONSTANTS
  MaxStatementDepth, MaxExpressionDepth  \* implementation.max_statement_depth, max_expression_depth

ASSUME DepthAssumption == MaxStatementDepth \in Nat /\ MaxExpressionDepth \in Nat

(***************************************************************************)
(* Types of expressions                                                    *)
(***************************************************************************)
\* type_of_spec
Simple(type) ==
  LET spec == Resolved(type) IN
  CASE spec.kind \in {"array", "struct"} -> "aggregate"
    [] spec.kind = "enum"     -> "enum"
    [] spec.kind = "subrange" -> "integer"
    [] spec.kind = "block"    -> "unknown"
    [] spec.name = "BOOL"     -> "bool"
    [] spec.name = "TIME"     -> "time"
    [] OTHER -> IF spec.name \in BitsType THEN "bits" ELSE "integer"

\* types_are_assignable and types_have_common_value_type
Takes(expected, actual) ==
  \/ expected = actual
  \/ "unknown" \in {expected, actual}
  \/ {expected, actual} = {"bits", "integer"}
Common(s1, s2) == Takes(s1, s2) \/ Takes(s2, s1)

\* The type of a field of an instance or of a structure; None: there is no such field
MemberType(type, name) ==
  IF type \notin DOMAIN FunctionBlocks THEN FieldType(type, name)
  ELSE IF \E f \in Range(FunctionBlocks[type].fields) : f.name = name THEN FieldOf(type, name).type ELSE None
RECURSIVE MemberAt(_, _)
MemberAt(type, path) ==
  IF path = <<>> \/ type = None THEN type ELSE MemberAt(MemberType(type, path[1]), Tail(path))

\* variable_type; None for a variable or a field that does not exist
ElementOf(var, type) ==
  CASE type = None \/ var.k = "var"    -> type
    [] Resolved(type).kind = "array"   -> Resolved(type).of
    [] OTHER                           -> None
VariableType(types, var) ==
  IF var.k = "at" \/ var.path[1] \notin DOMAIN types THEN None
  ELSE ElementOf(var, MemberAt(types[var.path[1]], Tail(var.path)))

Number(s) == IF s \in {"integer", "unknown"} THEN s ELSE "unknown"

\* A mutant: in the order they are written
InputsAsWritten(f, args) == LET given == InputsOf(args) IN [k \in DOMAIN given |-> given[k].e]
\* The inputs of a standard function in the order of its parameters
OrderedInputs(f, args) ==
  LET given  == InputsOf(args)
      Unnamed(k) == Cardinality({j \in 1..k - 1 : given[j].name = None})
      At(k, at) == [at |-> IF at = None THEN 100 + k ELSE at, k |-> k]
      Place(k) == At(k, IF given[k].name = None THEN Unnamed(k) ELSE InputIndex(f, given[k].name))
      InOrder(places) == [k \in DOMAIN places |-> given[places[k].k].e]
  IN  InOrder(SortSeq([k \in DOMAIN given |-> Place(k)],
                      LAMBDA x, y : x.at < y.at \/ (x.at = y.at /\ x.k < y.k)))

\* standard_function_return_type, from the types of the inputs
ConversionType(f) ==
  CASE f[1] = "BCD_TO" -> "integer" [] f[1] = "TO_BCD" -> "bits" [] OTHER -> Simple(f[3])
ReturnType(f, ins) ==
  LET Nth(k) == IF k \in DOMAIN ins THEN ins[k] ELSE "unknown"
      unknown == \E k \in DOMAIN ins : ins[k] = "unknown"
  IN  CASE f[1] \in Conversion -> ConversionType(f)
        [] f[1] \in {"MOVE", "NOT"} -> Nth(1)
        [] f[1] = "ABS"        -> Number(Nth(1))
        [] f[1] \in {"ADD", "SUB", "MUL", "DIV", "MOD"} -> IF unknown THEN "unknown" ELSE "integer"
        [] f[1] \in {"MIN", "MAX"} -> IF unknown THEN "unknown" ELSE Nth(1)
        [] f[1] \in {"LIMIT", "MUX"} -> Nth(2)
        [] f[1] = "SEL"        -> Nth(3)
        [] f[1] \in Chained    -> "bool"
        [] f[1] \in Shifts     -> "integer"
        [] f[1] \in TimeResult -> "time"
        [] f[1] \in {"AND", "OR", "XOR"} ->
             IF \A k \in DOMAIN ins : ins[k] = "bool" THEN "bool" ELSE "bits"

RECURSIVE TypeOf(_, _)
InputTypes(types, f, args) ==
  LET Each(ins) == [k \in DOMAIN ins |-> TypeOf(types, ins[k])] IN Each(OrderedInputs(f, args))

\* type_of_expr
UnaryType(op, x)  == IF op = "-" THEN Number(x) ELSE IF x \in {"bool", "unknown"} THEN x ELSE "bits"
BinaryType(op, l, r) ==
  CASE op \in {"=", "<>", "<", "<=", ">", ">="} -> "bool"
    [] op \in {"AND", "OR", "XOR"} /\ l = "bool" /\ r = "bool" -> "bool"
    [] op \in {"+", "-"} /\ l = "time" /\ r = "time" -> "time"
    [] OTHER -> CASE "unknown" \in {l, r} -> "unknown"
                  [] op \in {"AND", "OR", "XOR"} -> "bits"
                  [] OTHER -> "integer"
TypeOf(types, e) ==
  LET Storage(declared) == IF declared # None THEN Simple(declared)
                           ELSE IF e.path[1] \in EnumNames THEN "enum" ELSE "unknown"
  IN  CASE e.k = "lit"  -> IF e.x.t = "int" THEN "integer" ELSE e.x.t
        [] IsVariable(e) -> Storage(VariableType(types, e))
        [] e.k = "un"   -> UnaryType(e.op, TypeOf(types, e.e))
        [] e.k = "bin"  -> BinaryType(e.op, TypeOf(types, e.l), TypeOf(types, e.r))
        [] e.k = "call" -> IF e.f[1] \in DOMAIN Functions THEN Simple(Functions[e.f[1]].returns)
                           ELSE IF IsStandard(e.f) THEN ReturnType(e.f, InputTypes(types, e.f, e.args))
                           ELSE "unknown"

(***************************************************************************)
(* Constant expressions                                                    *)
(***************************************************************************)
RECURSIVE ConstValue(_), Const(_, _)
\* const_i64 (within the widest type) and const_integer_i128 (wide = FALSE, where only
\* the calls of standard functions stay within it); None: not constant
Kept(wide, n) == IF ~wide \/ n \in Wide THEN n ELSE None
ConstBinary(op, wide, l, r) ==
  CASE None \in {l, r} \/ (op \in {"/", "MOD"} /\ r = 0) -> None
    [] op = "+"   -> Kept(wide, l + r)
    [] op = "-"   -> Kept(wide, l - r)
    [] op = "*"   -> Kept(wide, l * r)
    [] op = "/"   -> Kept(wide, Quotient(l, r))
    [] op = "MOD" -> Remainder(l, r)
    [] OTHER      -> None
Const(e, wide) ==
  LET Negative(x) == IF x = None THEN None ELSE Kept(wide, -x)
      Whole(x)    == IF HasNumber(x) THEN x.v ELSE None
  IN  CASE e.k = "lit"  -> Whole(e.x)
        [] e.k = "un" /\ e.op = "-" -> Negative(Const(e.e, wide))
        [] e.k = "bin"  -> ConstBinary(e.op, wide, Const(e.l, wide), Const(e.r, wide))
        [] e.k = "call" -> Whole(ConstValue(e))
        [] OTHER -> None

\* const_standard_value.  EN is not looked at.
ConstValue(e) ==
  LET Negative(x) == IF x # None /\ x.t \in {"int", "time"} THEN [x EXCEPT !.v = -x.v] ELSE None
      Number_(n)  == IF n = None THEN None ELSE Num(n)
      Result(xs)  == IF None \notin Range(xs) THEN Std(e.f, xs) ELSE None
      Each(ins)   == [k \in DOMAIN ins |-> ConstValue(ins[k])]
  IN  CASE e.k = "lit"  -> e.x
        [] e.k = "un" /\ e.op = "-" -> Negative(ConstValue(e.e))
        [] e.k = "bin"  -> Number_(Const(e, TRUE))
        [] e.k = "call" /\ IsStandard(e.f) -> Result(Each(OrderedInputs(e.f, e.args)))
        [] OTHER -> None

\* const_conversion_i128: a TIME is its milliseconds
ConstConversion(e) == IF e.k = "lit" THEN e.x.v ELSE Const(e, TRUE)

(***************************************************************************)
(* Assignments                                                             *)
(***************************************************************************)
RECURSIVE EnumRoot(_)
EnumRoot(type) ==
  CASE type \notin DOMAIN Named -> None
    [] Named[type].kind = "enum"  -> type
    [] Named[type].kind = "alias" -> EnumRoot(Named[type].of)
    [] OTHER -> None

\* enum_selection_data_args: the data inputs of SEL and MUX
SelectionArgs(e) ==
  LET given == InputsOf(e.args)
      named == SelectSeq(given, LAMBDA a : a.name \in {"IN0", "IN1", "IN2"})
      rest  == SelectSeq(given, LAMBDA a : a.name = None)
      data  == IF named # <<>> THEN named ELSE IF rest = <<>> THEN <<>> ELSE Tail(rest)
  IN  {data[k].e : k \in DOMAIN data}

RECURSIVE EnumValue(_, _, _)
\* enum_expr_matches_expected: a value of the type by its name, a variable of the
\* type, or a selection between such expressions
EnumValue(types, root, e) ==
  \/ e.k = "var" /\ Len(e.path) = 1 /\ e.path[1] \in Range(Named[root].values)
  \/ e.k \in {"var", "elem"} /\ VariableType(types, e) # None /\ EnumRoot(VariableType(types, e)) = root
  \/ /\ e.k = "call" /\ e.f[1] \in {"SEL", "MUX"}
     /\ SelectionArgs(e) # {}
     /\ \A d \in SelectionArgs(e) : EnumValue(types, root, d)

RECURSIVE SameShape(_, _)
\* array_specs_assignable, struct_specs_assignable
SameShape(t1, t2) ==
  LET s1 == Resolved(t1)
      s2 == Resolved(t2)
  IN  IF s1.kind = "array" /\ s2.kind = "array"
      THEN s1.low = s2.low /\ s1.high = s2.high /\ SameShape(s1.of, s2.of)
      ELSE IF s1.kind = "struct" /\ s2.kind = "struct"
      THEN /\ Len(s1.fields) = Len(s2.fields)
           /\ \A k \in DOMAIN s1.fields : /\ s1.fields[k].name = s2.fields[k].name
                                         /\ SameShape(s1.fields[k].type, s2.fields[k].type)
      ELSE Takes(Simple(t1), Simple(t2))

\* expr_data_spec
SpecOf(types, e) ==
  CASE e.k \in {"var", "elem"} -> VariableType(types, e)
    [] e.k = "call" /\ e.f[1] \in DOMAIN Functions -> Functions[e.f[1]].returns
    [] OTHER -> None

\* check_initialization_constraints: constants within the range, values of the
\* enumeration, arrays of the same shape
Shaped(expected, kind, actual) ==
  actual # None /\ SameShape(expected, actual) /\ Resolved(actual).kind = kind
Fits(types, expected, e) ==
  LET Within(spec, n) == n = None \/ n \in (IF spec.kind = "subrange" THEN spec.low..spec.high
                                            ELSE Low(spec.name)..High(spec.name))
      As_(spec) ==
        CASE spec.kind = "enum"     -> EnumValue(types, EnumRoot(expected), e)
          [] spec.kind \in {"array", "struct"} -> Shaped(expected, spec.kind, SpecOf(types, e))
          [] spec.kind = "subrange" \/ (spec.kind = "elementary" /\ spec.name \in IntegerType) ->
               Within(spec, Const(e, FALSE))
          [] OTHER -> TRUE
  IN  As_(Resolved(expected))

\* The checks of a tree lead to the checks of the trees inside it: Fit is the one
\* recursion, and these are the ways into it.
RECURSIVE Fit(_, _)
ExprFits(types, e)       == Fit(types, [check |-> "expression", e |-> e])
VariableFits(types, var) == Fit(types, [check |-> "variable", var |-> var])
Accepts(types, expected, e) == Fit(types, [check |-> "value", expected |-> expected, e |-> e])
StatementFits(types, constants, s, loop) ==
  Fit(types, [check |-> "statement", constants |-> constants, s |-> s, loop |-> loop])
PouFits(globals, result, vars, constants, body) ==
  Fit(globals, [check |-> "pou", result |-> result, vars |-> vars, constants |-> constants, body |-> body])

\* check_assignment_type and check_initialization_constraints
ValueChecked(types, expected, e) == Takes(Simple(expected), TypeOf(types, e)) /\ Fits(types, expected, e)

(***************************************************************************)
(* Expressions                                                             *)
(***************************************************************************)
UnaryFits(op, s) == s \in {"integer", "unknown"} \cup (IF op = "NOT" THEN {"bool", "bits"} ELSE {})

BinaryFits(op, l, r) ==
  LET numbers == l = "integer" /\ r = "integer" IN
  CASE "unknown" \in {l, r} -> TRUE
    [] op \in {"+", "-"}    -> numbers \/ (l = "time" /\ r = "time")
    [] op \in {"*", "/", "MOD"} -> numbers
    [] op \in {"AND", "OR", "XOR"} ->
         \/ l = "bool" /\ r = "bool"
         \/ {l, r} \subseteq {"integer", "bits"}
    [] op \in {"=", "<>"}   -> "aggregate" \notin {l, r} /\ Common(l, r)
    [] OTHER                -> numbers \/ (l = "time" /\ r = "time")

\* The arguments of the standard functions: how many, and of which families
Families(f, n) ==
  LET bits == {"bool", "integer", "bits"}
      magnitude == {"integer", "time"}
      any  == {"bool", "integer", "bits", "time", "enum", "aggregate"}
      All(family) == [k \in 1..n |-> family]
  IN  CASE f[1] = "BCD_TO" -> <<{"bits"}>>
        [] f[1] = "TO_BCD" -> <<{"integer"}>>
        [] f[1] = "TO"     -> <<{Simple(f[2])}>>
        [] f[1] \in {"ABS", "ADD", "SUB", "MUL", "DIV", "MOD"} -> All({"integer"})
        [] f[1] \in {"MIN", "MAX", "LIMIT"} -> All(magnitude)
        [] f[1] = "MOVE"   -> All(any)
        [] f[1] = "SEL"    -> <<{"bool"}, any, any>>
        [] f[1] = "MUX"    -> <<{"integer"}>> \o [k \in 1..n - 1 |-> any]
        [] f[1] \in Chained -> All(any \ {"aggregate"})
        [] f[1] \in Shifts -> <<bits, {"integer"}>>
        [] f[1] \in {"AND", "OR", "XOR", "NOT"} -> All(bits)
        [] f[1] \in {"ADD_TIME", "SUB_TIME"} -> <<{"time"}, {"time"}>>
        [] f[1] \in {"MUL_TIME", "DIV_TIME"} -> <<{"time"}, {"integer"}>>

ArityFits(f, n) ==
  CASE f[1] \in {"ADD", "MUL", "MIN", "MAX", "MUX", "AND", "OR", "XOR"} \cup (Chained \ {"NE"}) -> n >= 2
    [] f[1] \in {"LIMIT", "SEL"} -> n = 3
    [] f[1] \in {"ABS", "MOVE", "NOT"} \cup Conversion -> n = 1
    [] OTHER -> n = 2

\* check_standard_compatible_data_args: every input from the given one on is like it
DataFrom(f) == CASE f[1] \in {"MIN", "MAX", "LIMIT"} \cup Chained -> 1
                 [] f[1] \in {"SEL", "MUX"} -> 2
                 [] OTHER -> None

\* check_standard_function_call_args
StandardFits(types, f, args) ==
  LET given == InputsOf(args)
      Place(k) == IF given[k].name # None THEN InputIndex(f, given[k].name)
                  ELSE Cardinality({j \in 1..k - 1 : given[j].name = None})
      Apart(places) == \A k \in DOMAIN places :
                         places[k] # None /\ \A j \in DOMAIN places \ {k} : places[j] # places[k]
      Typed(tys, fams, start) ==
        /\ \A k \in DOMAIN tys \cap DOMAIN fams : tys[k] = "unknown" \/ tys[k] \in fams[k]
        /\ start \in DOMAIN tys /\ tys[start] # "unknown" =>
             \A k \in DOMAIN tys : k > start => Common(tys[start], tys[k])
      Limits(n) == [k |-> IF f[1] = "MUX" THEN 1 ELSE 2, high |-> IF f[1] = "MUX" THEN n - 2 ELSE WideMax]
      Within(n, high) == n = None \/ n \in 0..high
      Limited_(ins, limits) ==
        limits.k \in DOMAIN ins => Within(Const(ins[limits.k], TRUE), limits.high)
      Counted(ins) == ArityFits(f, Len(ins)) /\ (f[1] \in Shifts \cup {"MUX"} => Limited_(ins, Limits(Len(ins))))
  IN  /\ \A k \in DOMAIN args : args[k].output => IsEno(args[k])
      /\ Apart([k \in DOMAIN given |-> Place(k)])
      /\ Counted(OrderedInputs(f, args))
      /\ Typed(InputTypes(types, f, args), Families(f, Len(given)), DataFrom(f))

\* check_conversion_range and check_bcd_conversion_range: a constant within the type
\* converted to, and for a BCD conversion with the digits it can have
ConversionFits(f, args) ==
  LET given == InputsOf(args)
      Of(n) == n # None =>
                 /\ f[1] # "TO_BCD" /\ f[3] \in IntegerType => n \in Low(f[3])..High(f[3])
                 /\ f[1] = "BCD_TO" => BcdToInt(n, f[2]) # None
                 /\ f[1] = "TO_BCD" => IntToBcd(n, f[3]) # None
  IN  f[1] \in Conversion /\ given # <<>> => Of(ConstConversion(given[1].e))

\* check_implicit_call_controls
ControlsFit(types, args) ==
  /\ \A name \in {"EN", "ENO"} : Cardinality({k \in DOMAIN args : args[k].name = name}) <= 1
  /\ \A k \in DOMAIN args :
       /\ args[k].name = "EN" => ~args[k].output /\ Takes("bool", TypeOf(types, args[k].e))
       /\ args[k].name = "ENO" =>
            /\ args[k].output
            /\ VariableType(types, args[k].var) # None => Simple(VariableType(types, args[k].var)) = "bool"

\* check_function_call_args: every input is bound once, by its name or in its place
UserFits(types, name, args) ==
  LET names == InputNames(name)
      given == InputsOf(args)
      Expected(input) == Functions[name].inputs[CHOOSE k \in DOMAIN names : names[k] = input].type
  IN  /\ \A k \in DOMAIN args : args[k].output => IsEno(args[k])
      /\ \A k \in DOMAIN given :
           LET input == Target(names, given, k) IN
           /\ input # None /\ Accepts(types, Expected(input), given[k].e)
           /\ \A j \in DOMAIN given \ {k} : Target(names, given, j) # input
      /\ \A input \in Range(names) : \E k \in DOMAIN given : Target(names, given, k) = input

\* check_variable
VariableChecked(types, var) ==
  LET root == var.path[1]
      Inside(n, spec) == n = None \/ n \in spec.low..spec.high
  IN  \/ var.k = "at"
      \/ var.k = "var" /\ Len(var.path) = 1 /\ root \in EnumNames
      \/ /\ root \in DOMAIN types
         /\ VariableType(types, var) # None
         /\ var.k = "elem" => /\ ExprFits(types, var.at)
                              /\ TypeOf(types, var.at) \in {"integer", "unknown"}
                              /\ Inside(Const(var.at, TRUE), Resolved(MemberAt(types[root], Tail(var.path))))

ArgFits(types, a) ==
  /\ a.e # None => ExprFits(types, a.e)
  /\ a.var # None => VariableFits(types, a.var)

CallFits(types, f, args) ==
  /\ IsStandard(f) \/ f[1] \in DOMAIN Functions
  /\ ControlsFit(types, args)
  /\ f[1] \in DOMAIN Functions => UserFits(types, f[1], args)
  /\ IsStandard(f) => StandardFits(types, f, args)
  /\ ConversionFits(f, args)
  /\ \A k \in DOMAIN args : ArgFits(types, args[k])

\* check_expr
ExprChecked(types, e) ==
  CASE e.k = "lit"  -> TRUE
    [] e.k = "un"   -> ExprFits(types, e.e) /\ UnaryFits(e.op, TypeOf(types, e.e))
    [] e.k = "bin"  -> /\ ExprFits(types, e.l) /\ ExprFits(types, e.r)
                       /\ BinaryFits(e.op, TypeOf(types, e.l), TypeOf(types, e.r))
    [] e.k = "call" -> CallFits(types, e.f, e.args)
    [] OTHER        -> VariableFits(types, e)

\* expr_depth: subscripts do not count
RECURSIVE ExprDepth(_)
ExprDepth(e) ==
  CASE e.k = "un"   -> 1 + ExprDepth(e.e)
    [] e.k = "bin"  -> 1 + Larger(ExprDepth(e.l), ExprDepth(e.r))
    [] e.k = "call" -> 1 + FoldLeft(LAMBDA acc, a : IF a.e = None THEN acc ELSE Larger(acc, ExprDepth(a.e)),
                                    0, e.args)
    [] OTHER        -> 1

(***************************************************************************)
(* Calls of function blocks                                                *)
(***************************************************************************)
OfKind(block, kinds) == {f.name : f \in {g \in Range(FunctionBlocks[block].fields) : g.kind \in kinds}}

\* check_function_block_call_args: outputs by name and at most once; inputs at most
\* once; the actual of a VAR_IN_OUT is a variable
BlockArgsFit(types, block, args) ==
  LET given  == InputsOf(args)
      outs   == SelectSeq(args, LAMBDA a : a.output /\ a.name \notin {"EN", "ENO", None})
      To(k)  == Target(BlockInputs(block), given, k)
  IN  /\ \A k \in DOMAIN outs :
           LET actual == VariableType(types, outs[k].var) IN
           /\ outs[k].name \in OfKind(block, {"OUT", "INOUT"})
           /\ \A j \in DOMAIN outs \ {k} : outs[j].name # outs[k].name
           /\ actual # None => Takes(Simple(actual), Simple(FieldOf(block, outs[k].name).type))
      /\ \A k \in DOMAIN given :
           /\ To(k) # None /\ Accepts(types, FieldOf(block, To(k)).type, given[k].e)
           /\ \A j \in DOMAIN given \ {k} : To(j) # To(k)
           /\ FieldOf(block, To(k)).kind = "INOUT" => IsVariable(given[k].e)

\* The name of a call statement is an instance.
BlockCallFits(types, inst, args) ==
  /\ inst \in DOMAIN types /\ ~IsStandard(<<inst>>) /\ inst \notin DOMAIN Functions
  /\ types[inst] \in DOMAIN FunctionBlocks => BlockArgsFit(types, types[inst], args)
  /\ ControlsFit(types, args)
  /\ \A k \in DOMAIN args : ArgFits(types, args[k])

(***************************************************************************)
(* Statements                                                              *)
(***************************************************************************)
\* check_il_call_operand: the arguments of a CAL are expressions, and no more is checked
IlCallFits(types, e) ==
  /\ e # None /\ e.k \in {"call", "var"}
  /\ IF e.k = "var" THEN VariableFits(types, e)
     ELSE /\ VariableFits(types, Var(e.f[1]))
          /\ \A k \in DOMAIN e.args : ArgFits(types, e.args[k])

\* check_il_store_operand
IlStoreFits(types, op, e) ==
  /\ e # None /\ IsVariable(e) /\ VariableFits(types, e)
  /\ op # "ST" => Takes("bool", TypeOf(types, e))

\* The constant labels of a CASE, as ranges in the order they are written
Labels(types, s) ==
  LET all  == FoldLeft(LAMBDA acc, c : acc \o c.labels, <<>>, s.cases)
      Ends(label) == <<label.low, IF label.high # None THEN label.high ELSE label.low>>
      Of(enum, es) == [k \in {1, 2} |-> IF enum THEN Ordinal(es[k].path[1]) ELSE Const(es[k], FALSE)]
      Each(enum)   == [k \in DOMAIN all |-> Of(enum /\ all[k].high = None, Ends(all[k]))]
  IN  Each(TypeOf(types, s.sel) = "enum")

LabelFits(types, sel, label) ==
  LET enum  == TypeOf(types, sel) = "enum"
      Root(type) == IF type # None THEN EnumRoot(type) ELSE None
      known == IF sel.k \in {"var", "elem"} THEN Root(VariableType(types, sel)) ELSE None
      Whole(e) == ExprFits(types, e) /\ (enum \/ TypeOf(types, e) \in {"integer", "unknown"})
  IN  /\ Whole(label.low)
      /\ label.high # None => ~enum /\ Whole(label.high)
      /\ enum => known # None /\ label.low.k = "var" /\ label.low.path[1] \in Range(Named[known].values)

CaseFits(types, s) ==
  LET Apart(at) ==
        \A k \in DOMAIN at : None \notin Range(at[k]) =>
          /\ at[k][1] <= at[k][2]
          /\ \A j \in 1..k - 1 : None \in Range(at[j]) \/ at[k][1] > at[j][2] \/ at[k][2] < at[j][1]
  IN
  /\ ExprFits(types, s.sel) /\ TypeOf(types, s.sel) \in {"integer", "enum", "unknown"}
  /\ \A k \in DOMAIN s.cases : \A j \in DOMAIN s.cases[k].labels : LabelFits(types, s.sel, s.cases[k].labels[j])
  /\ Apart(Labels(types, s))

Condition(types, e) == ExprFits(types, e) /\ Takes("bool", TypeOf(types, e))
Whole(types, e) == ExprFits(types, e) /\ TypeOf(types, e) \in {"integer", "unknown"}

\* The bodies inside a statement, and its expressions
BodiesOf(s) ==
  CASE s.k = "if"   -> {s.branches[k].body : k \in DOMAIN s.branches} \cup {s.els}
    [] s.k = "case" -> {s.cases[k].body : k \in DOMAIN s.cases} \cup {s.els}
    [] s.k \in {"for", "while", "repeat"} -> {s.body}
    [] OTHER -> {}
ExpressionsOf(s) ==
  (CASE s.k = "assign" -> {s.e}
     [] s.k = "if"     -> {s.branches[k].c : k \in DOMAIN s.branches}
     [] s.k = "case"   -> {s.sel} \cup UNION {{label.low, label.high} : label \in
                                               UNION {Range(c.labels) : c \in Range(s.cases)}}
     [] s.k = "for"    -> {s.from, s.to, s.by}
     [] s.k \in {"while", "repeat"} -> {s.c}
     [] s.k = "il"     -> {s.e}
     [] s.k = "fb"     -> {a.e : a \in Range(s.args)}
     [] OTHER          -> {}) \ {None}

\* check_statement_in_context.  Only an assignment looks at CONSTANT.
StatementChecked(types, constants, s, loop) ==
  /\ CASE s.k = "assign" ->
            /\ VariableFits(types, s.to) /\ s.to.path[1] \notin constants
            /\ ExprFits(types, s.e)
            /\ VariableType(types, s.to) # None => Accepts(types, VariableType(types, s.to), s.e)
       [] s.k = "if"     -> \A k \in DOMAIN s.branches : Condition(types, s.branches[k].c)
       [] s.k = "case"   -> CaseFits(types, s)
       [] s.k = "for"    ->
            /\ s.control \in DOMAIN types /\ Simple(types[s.control]) \in {"integer", "unknown"}
            /\ Whole(types, s.from) /\ Whole(types, s.to)
            /\ s.by # None => Whole(types, s.by) /\ Const(s.by, TRUE) # 0
       [] s.k \in {"while", "repeat"} -> Condition(types, s.c)
       [] s.k = "fb"     -> BlockCallFits(types, s.inst, s.args)
       [] s.k = "exit"   -> loop
       [] s.k = "il"     ->
            CASE s.op \in {"JMP", "JMPC", "JMPCN"} -> TRUE
              [] s.op \in {"CAL", "CALC", "CALCN"} -> IlCallFits(types, s.e)
              [] s.op \in {"ST", "STN", "S", "R"}  -> IlStoreFits(types, s.op, s.e)
              [] OTHER -> s.e # None => ExprFits(types, s.e)
       [] OTHER -> TRUE
  /\ \A body \in BodiesOf(s) : \A k \in DOMAIN body :
       StatementFits(types, constants, body[k], loop \/ s.k \in {"for", "while", "repeat"})

RECURSIVE LimitsFit(_, _)
\* check_statement_limits
LimitsFit(s, depth) ==
  /\ depth <= MaxStatementDepth
  /\ \A e \in ExpressionsOf(s) : ExprDepth(e) <= MaxExpressionDepth
  /\ \A body \in BodiesOf(s) : \A k \in DOMAIN body : LimitsFit(body[k], depth + 1)

\* A mutant: the label of a jump is not looked for.
LabelsOnce(body) ==
  \A j, k \in DOMAIN body : body[j].k = "label" /\ body[k].k = "label" /\ body[j].l = body[k].l => j = k
\* check_il_labels: of the statements that are not inside another one
LabelsFit(body) ==
  LET At(l) == {k \in DOMAIN body : body[k].k = "label" /\ body[k].l = l} IN
  \A k \in DOMAIN body :
    /\ body[k].k = "label" => Cardinality(At(body[k].l)) = 1
    /\ body[k].k = "il" /\ body[k].op \in {"JMP", "JMPC", "JMPCN"} =>
         /\ body[k].e # None /\ body[k].e.k = "var" /\ Len(body[k].e.path) = 1
         /\ At(body[k].e.path[1]) # {}

(***************************************************************************)
(* Declarations and bodies                                                 *)
(***************************************************************************)
\* check_type_spec
TypeFits(type) ==
  \/ type \in Elementary \cup DOMAIN FunctionBlocks
  \/ /\ type \in DOMAIN Named
     /\ Named[type].kind = "struct" =>
          \A j, k \in DOMAIN Named[type].fields : Named[type].fields[j].name = Named[type].fields[k].name => j = k
     /\ Named[type].kind \in {"subrange", "array"} => Named[type].low <= Named[type].high
     /\ Named[type].kind = "subrange" => /\ Named[type].base \in IntegerType
                                         /\ Low(Named[type].base) <= Named[type].low
                                         /\ Named[type].high <= High(Named[type].base)

\* The variables of a body as check_pou sees them, declared one after the other
Declared(vars) == [name \in {vars[k].name : k \in DOMAIN vars} |->
                     vars[CHOOSE k \in DOMAIN vars : vars[k].name = name].type]
InitialFits(types, var) ==
  var.init # None =>
    /\ ExprDepth(var.init) <= MaxExpressionDepth
    /\ ExprFits(types, var.init) /\ Accepts(types, var.type, var.init)
VariablesFit(globals, vars) ==
  \A k \in DOMAIN vars :
    /\ \A j \in DOMAIN vars \ {k} : vars[j].name # vars[k].name
    /\ TypeFits(vars[k].type)
    /\ InitialFits(Declared(SubSeq(vars, 1, k)) @@ globals, vars[k])

BodyFits(types, constants, body) ==
  /\ LabelsFit(body)
  /\ \A k \in DOMAIN body : LimitsFit(body[k], 1) /\ StatementFits(types, constants, body[k], FALSE)

\* check_pou: the variables, and the body with the result of a function among them
PouChecked(globals, result, vars, constants, body) ==
  VariablesFit(globals, vars) /\ BodyFits(result @@ Declared(vars) @@ globals, constants, body)

Fit(types, task) ==
  CASE task.check = "expression" -> ExprChecked(types, task.e)
    [] task.check = "variable"   -> VariableChecked(types, task.var)
    [] task.check = "value"      -> ValueChecked(types, task.expected, task.e)
    [] task.check = "statement"  -> StatementChecked(types, task.constants, task.s, task.loop)
    [] task.check = "pou"        -> PouChecked(types, task.result, task.vars, task.constants, task.body)

\* collect_function_calls: the functions a body calls.  Those called in a subscript
\* are not collected.
RECURSIVE CallsIn(_), CallsOf(_)
CallsIn(e) ==
  CASE e.k = "un"   -> CallsIn(e.e)
    [] e.k = "bin"  -> CallsIn(e.l) \cup CallsIn(e.r)
    [] e.k = "call" -> ({e.f[1]} \cap DOMAIN Functions)
                         \cup UNION {CallsIn(a.e) : a \in {b \in Range(e.args) : b.e # None}}
    [] OTHER        -> {}
CallsOf(body) ==
  UNION {UNION {CallsIn(e) : e \in ExpressionsOf(s)} \cup UNION {CallsOf(b) : b \in BodiesOf(s)}
         : s \in Range(body)}

\* check_function_recursion
RECURSIVE Reached(_)
Reached(names) ==
  LET more == names \cup UNION {CallsOf(Functions[f].body) : f \in names}
  IN  IF more = names THEN names ELSE Reached(more)
NoRecursion == \A f \in DOMAIN Functions : f \notin Reached(CallsOf(Functions[f].body))

\* ... for the functions and the function blocks of the project
FunctionFits(name) ==
  LET f == Functions[name]
      vars == f.inputs \o f.locals
  IN  TypeFits(f.returns) /\ PouFits(<<>>, name :> f.returns, vars, {}, f.body)
BlockFits(name) ==
  LET vars == FunctionBlocks[name].fields IN
  /\ \A k \in DOMAIN vars : vars[k].edge # None => vars[k].kind = "IN" /\ Simple(vars[k].type) = "bool"
  /\ PouFits(<<>>, <<>>, vars, {}, FunctionBlocks[name].body)

ProjectFits ==
  NoRecursion /\ (\A f \in DOMAIN Functions : FunctionFits(f)) /\ (\A b \in DOMAIN FunctionBlocks : BlockFits(b))

\* ... and for a program: its own variables hide the globals of the project.
ConstantsOf(vars) == {vars[k].name : k \in {j \in DOMAIN vars : vars[j].constant}}
ProgramFits(globals, vars, body) == PouFits(globals, <<>>, vars, ConstantsOf(vars), body)
=============================================================================
