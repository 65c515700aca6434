------------------------------- MODULE EmittedC -------------------------------
(***************************************************************************)
(* What the C that crates/iec_c prints for a body computes.  A program, a  *)
(* function and an inlined function block have three printers that print   *)
(* most of a tree the same way; `cx' says which one is at work:            *)
(*                                                                         *)
(*   [kind   "program", "function" or "block",                             *)
(*    at     the path of the instance a block is inlined for,              *)
(*    types  the declared types of the variables by name,                  *)
(*    typed  whether the printer knows these types]                        *)
(*                                                                         *)
(* A C expression has a value and a type: "int", "i64" (int64_t) or "u64"  *)
(* (uint64_t).  The machine is [env, acc, bad, fuel]: the variables, the   *)
(* accumulator, what C leaves undefined that has happened, and how many    *)
(* iterations, jumps and calls are left before the run is called endless.  *)
(* Operands are evaluated from left to right.  Functions are taken as      *)
(* declared before their first call; locations of the process image, which *)
(* GeneratedScan has, are left out.                                        *)
(***************************************************************************)
EXTENDS Interpreter, ProgramCheck

C(ty, v)          == [ty |-> ty, v |-> v]
Bool01(b)         == C("int", IF b THEN 1 ELSE 0)
Undefined(m, why) == [m EXCEPT !.bad = @ \cup {why}]
Yields(m, x)      == [m |-> m, v |-> x]
Leaves(m, control) == [m |-> m, c |-> control]

(***************************************************************************)
(* Arithmetic                                                              *)
(***************************************************************************)
\* The usual arithmetic conversions
Joined(s1, s2) == IF "u64" \in {s1, s2} THEN "u64" ELSE IF "i64" \in {s1, s2} THEN "i64" ELSE "int"
As(x, ty)      == C(ty, IF ty = "u64" THEN Wrapped(x.v, WideBits) ELSE x.v)
\* A conversion to int64_t
Signed(x)      == C("i64", WrappedS(x.v, WideBits))

\* n as the result of an operation in the type: unsigned wraps, signed must fit
Fitting(m, ty, n) ==
  LET bits == IF ty = "int" THEN IntBits ELSE WideBits IN
  IF ty = "u64" THEN Yields(m, C(ty, Wrapped(n, WideBits)))
  ELSE Yields(IF n \in -Pow2(bits - 1)..Pow2(bits - 1) - 1 THEN m ELSE Undefined(m, "overflow"),
              C(ty, WrappedS(n, bits)))

\* binary_op_to_c, on operands that have been evaluated
CCombined(m, op, ty, a, b) ==
  CASE op \in {"/", "MOD"} /\ b = 0 -> Yields(Undefined(m, "zero"), C(ty, 0))
    [] op \in {"=", "<>"}   -> Yields(m, Bool01((a = b) = (op = "=")))
    [] op \in {"<", "<=", ">", ">="} -> Yields(m, Bool01(Relates(op, a - b)))
    [] OTHER ->
         Fitting(IF op \in {"/", "MOD"} /\ Quotient(a, b) > WideMax /\ ty = "i64" THEN Undefined(m, "overflow") ELSE m, ty,
                 CASE op = "+"   -> a + b
                   [] op = "-"   -> a - b
                   [] op = "*"   -> a * b
                   [] op = "/"   -> Quotient(a, b)
                   [] op = "MOD" -> Remainder(a, b)
                   [] op = "AND" -> BitAnd(a, b)
                   [] op = "OR"  -> BitOr(a, b)
                   [] op = "XOR" -> BitXor(a, b))
CConverted(m, op, x, y, ty) == CCombined(m, op, ty, As(x, ty).v, As(y, ty).v)
CBinary(m, op, x, y) ==
  CConverted(m, op, x, y, Joined(x.ty, y.ty))

CNot(x) == Bool01(x.v = 0)
CComplement(m, x) == Fitting(m, x.ty, BitNot(x.v))

(***************************************************************************)
(* Storage                                                                 *)
(***************************************************************************)
\* c_type: bit strings are uint64_t, BOOL is bool (an int in an expression), and all
\* the rest is int64_t
Loaded(x, type) ==
  LET spec == Resolved(type) IN
  C(IF spec.kind = "elementary" /\ spec.name = "BOOL" THEN "int"
    ELSE IF spec.kind = "elementary" /\ spec.name \in BitsType THEN "u64" ELSE "i64", x.v)

\* The conversion an assignment makes
ToStorage(x, type) ==
  LET spec == Resolved(type) IN
  CASE spec.kind = "elementary" /\ spec.name = "BOOL"     -> Flag(x.v # 0)
    [] spec.kind = "elementary" /\ spec.name \in BitsType -> Num(Wrapped(x.v, WideBits))
    [] spec.kind = "elementary" /\ spec.name = "TIME"     -> Time(Signed(x).v)
    [] OTHER                                              -> Num(Signed(x).v)

\* user_fb_var_to_c_typed: the variables of a block live in its instance
PathOf(cx, var) == cx.at \o var.path

\* expr_is_bool_for_c: what the printer takes for a BOOL.  Fields of instances, calls of
\* functions and of AND, SEL, MOVE... are not.
RECURSIVE IsBool(_, _)
IsBool(cx, e) ==
  CASE e.k = "lit"  -> e.x.t = "bool"
    [] e.k \in {"var", "elem"} ->
         /\ Len(e.path) = 1 /\ e.path[1] \in DOMAIN cx.types
         /\ TypeOf(cx.types, e) = "bool"
    [] e.k = "un"   -> e.op = "NOT" /\ IsBool(cx, e.e)
    [] e.k = "bin"  -> \/ e.op \in {"=", "<>", "<", "<=", ">", ">="}
                       \/ e.op \in {"AND", "OR", "XOR"} /\ IsBool(cx, e.l) /\ IsBool(cx, e.r)
    [] e.k = "call" -> \/ e.f[1] \in Chained \/ (e.f[1] = "TO" /\ e.f[3] = "BOOL")
                       \/ e.f[1] = "NOT" /\ IsBool(cx, OrderedInputs(e.f, e.args)[1])

\* compare_chain_to_c joins the comparisons of more than two arguments by && without
\* parentheses: as an operand, the comparison next to the operator is taken by it.
ChainOf(e) ==
  IF e.k = "call" /\ e.f[1] \in Chained /\ EnOf(e.args) = None /\ ~\E a \in Range(e.args) : a.output
  THEN LET Pairs(ins) == [k \in 1..Len(ins) - 1 |-> Call(e.f, <<In(None, ins[k]), In(None, ins[k + 1])>>)]
       IN  Pairs(OrderedInputs(e.f, e.args))
  ELSE <<e>>
AllOf(es) == FoldLeft(LAMBDA acc, e : Bin("AND", acc, e), es[1], Tail(es))
Regrouped(op, l, r) ==
  LET Joint(left, right) ==
        IF op \in {"AND", "OR"} \/ (Len(left) = 1 /\ Len(right) = 1) THEN Bin(op, l, r)
        ELSE AllOf(Front(left) \o <<Bin(op, Last(left), right[1])>> \o Tail(right))
  IN  Joint(ChainOf(l), ChainOf(r))

(***************************************************************************)
(* Expressions                                                             *)
(***************************************************************************)
\* What is printed of a tree leads to what is printed of the trees inside it: CDo is the
\* one recursion, and these are the ways into it.
RECURSIVE CDo(_, _, _)
CEval(m, cx, e)             == CDo(m, cx, [do |-> "eval", e |-> e])
CAll(m, cx, es)             == CDo(m, cx, [do |-> "all", es |-> es])
CStore(m, cx, var, x)       == CDo(m, cx, [do |-> "store", var |-> var, x |-> x])
CFunction(m, cx, name, xs)  == CDo(m, cx, [do |-> "function", name |-> name, xs |-> xs])
CCallBlock(m, cx, inst, args) == CDo(m, cx, [do |-> "block", inst |-> inst, args |-> args])
CExecute(m, cx, s)          == CDo(m, cx, [do |-> "execute", s |-> s])
CRunBlock(m, cx, body)      == CDo(m, cx, [do |-> "body", body |-> body])
CRunList(m, cx, body, at)   == CDo(m, cx, [do |-> "list", body |-> body, at |-> at])

\* append_indices_to_c: the element, unchecked.  The printer without types takes every
\* array to start at 1.
CPlace(at, size) ==
  IF at.v.v \in 0..size - 1 THEN Yields(at.m, at.v.v + 1) ELSE Yields(Undefined(at.m, "subscript"), 1)
COffset(i, cx, spec) ==
  CPlace(CBinary(i.m, "-", i.v, C("int", IF cx.typed THEN spec.low ELSE 1)), spec.high - spec.low + 1)
CElement(m, cx, var) ==
  COffset(CEval(m, cx, var.at), cx, Resolved(cx.types[var.path[1]]))

\* var_to_c_state, local_var_to_c_typed
CLoad(x, type)     == Yields(x.m, Loaded(x.v, type))
CValueAt(at, path) == Yields(at.m, at.m.env[path].elements[at.v])
CRead(m, cx, var) ==
  CASE var.path[1] \in EnumNames -> Yields(m, C("int", Ordinal(var.path[1])))
    [] var.k = "var" -> CLoad(Yields(m, m.env[PathOf(cx, var)]), VariableType(cx.types, var))
    [] OTHER -> CLoad(CValueAt(CElement(m, cx, var), PathOf(cx, var)), VariableType(cx.types, var))

CSet(at, path, y) == [at.m EXCEPT !.env[path].elements[at.v] = y]
CPut(m, cx, var, y) ==
  IF var.k = "var" THEN [m EXCEPT !.env = (PathOf(cx, var) :> y) @@ @]
  ELSE CSet(CElement(m, cx, var), PathOf(cx, var), y)
CStored(m, cx, var, x) ==
  CPut(m, cx, var, ToStorage(x, VariableType(cx.types, var)))

\* a ? b : c, where only the branch taken is evaluated
Ternary(m, test, yes, no) ==
  Yields(IF test THEN yes.m ELSE no.m, As(IF test THEN yes.v ELSE no.v, Joined(yes.v.ty, no.v.ty)))

\* && and ||
CLogic(m, cx, op, l, r) ==
  LET Truth(x) == Yields(x.m, Bool01(x.v.v # 0))
      Left(x)  == IF (op = "AND") = (x.v.v = 0) THEN Truth(x) ELSE Truth(CEval(x.m, cx, r))
  IN  Left(CEval(m, cx, l))

\* Operands one after the other, and a left fold of a binary operation over them
CEach(m, cx, es) ==
  LET Add(vs, x) == Yields(x.m, Append(vs, x.v))
  IN  FoldLeft(LAMBDA acc, e : Add(acc.v, CEval(acc.m, cx, e)), Yields(m, <<>>), es)
\* fold_binary_operator
CFold(m, op, xs) == FoldLeft(LAMBDA acc, x : CBinary(acc.m, op, acc.v, x), Yields(m, xs[1]), Tail(xs))
\* RBCPP_MIN and RBCPP_MAX
CPick(m, op, x, y) ==
  Ternary(m, CBinary(m, op, x, y).v.v = 1, Yields(m, x), Yields(m, y))
CPickAll(m, op, xs) == FoldLeft(LAMBDA acc, x : CPick(acc.m, op, acc.v, x), Yields(m, xs[1]), Tail(xs))

\* A mutant: the first input has place 1.
CMuxFromOne(m, cx, ins) ==
  LET By(k) == FoldRight(LAMBDA j, rest : Ternary(k.m, k.v.v = j - 1, CEval(k.m, cx, ins[j]), rest),
                         [j \in 1..Len(ins) - 2 |-> j + 1], CEval(k.m, cx, Last(ins)))
  IN  By(CEval(m, cx, ins[1]))
\* mux_to_c: the last input unless the index is the place of another one
CMux(m, cx, ins) ==
  LET By(k) == FoldRight(LAMBDA j, rest : Ternary(k.m, k.v.v = j - 2, CEval(k.m, cx, ins[j]), rest),
                         [j \in 1..Len(ins) - 2 |-> j + 1], CEval(k.m, cx, Last(ins)))
  IN  By(CEval(m, cx, ins[1]))

\* rbcpp_shl64, rbcpp_shr64, rbcpp_rol64, rbcpp_ror64
CShift(f, x, n) ==
  LET bits  == Wrapped(x.v, WideBits)
      count == Signed(n).v
      turn  == IF f = "ROL" THEN count % WideBits ELSE (-count) % WideBits
  IN  CASE count < 0 \/ (f \in {"SHL", "SHR"} /\ count >= WideBits) -> C("i64", 0)
        [] f = "SHL" -> Signed(C("u64", bits * Pow2(count)))
        [] f = "SHR" -> Signed(C("u64", bits \div Pow2(count)))
        [] OTHER     -> Signed(C("u64", bits * Pow2(turn) + bits \div Pow2(WideBits - turn)))

\* rbcpp_bcd_to_int and rbcpp_int_to_bcd: as many digits as there are, 0 for what is none
CBcd(f, x) ==
  LET n      == Signed(x).v
      digits == BcdDigits(n)
  IN  IF n < 0 \/ (f = "BCD_TO" /\ \E k \in DOMAIN digits : digits[k] > 9) THEN C("i64", 0)
      ELSE Signed(C("i64", IF f = "BCD_TO" THEN Positional(digits, 10) ELSE Positional(DecimalDigits(n), 16)))

\* standard_call_to_c_state: the call of a standard function, of the operands xs
COperators ==
  [ADD |-> "+", SUB |-> "-", MUL |-> "*", DIV |-> "/", MOD |-> "MOD", AND |-> "AND", OR |-> "OR", XOR |-> "XOR",
   ADD_TIME |-> "+", SUB_TIME |-> "-", MUL_TIME |-> "*", DIV_TIME |-> "/",
   GT |-> ">", GE |-> ">=", EQ |-> "=", NE |-> "<>", LE |-> "<=", LT |-> "<"]
CBelow(low, x) == CPick(low.m, "<", low.v, x)
COf(m, f, xs, bool) ==
  LET name == f[1]
      x    == xs[1]
  IN  CASE name \in {"BCD_TO", "TO_BCD"} -> Yields(m, CBcd(name, x))
        [] name = "TO"    -> Yields(m, IF f[3] = "BOOL" THEN Bool01(x.v # 0) ELSE Signed(x))
        [] name = "ABS"   -> IF CBinary(m, "<", x, C("int", 0)).v.v = 1 THEN Fitting(m, x.ty, -x.v) ELSE Yields(m, x)
        [] name = "MOVE"  -> Yields(m, x)
        [] name \in {"MIN", "MAX"} -> CPickAll(m, IF name = "MIN" THEN "<" ELSE ">", xs)
        [] name = "LIMIT" -> CBelow(CPick(m, ">", xs[2], x), xs[3])
        [] name \in Shifts -> Yields(m, CShift(name, x, xs[2]))
        [] name = "NOT"   -> IF bool THEN Yields(m, CNot(x)) ELSE CComplement(m, x)
        [] OTHER          -> CFold(m, COperators[name], xs)
CApplied(all, f, bool) == COf(all.m, f, all.v, bool)
CSelected(g, cx, ins)  == Ternary(g.m, g.v.v # 0, CEval(g.m, cx, ins[3]), CEval(g.m, cx, ins[2]))
CPair(two, op)         == CBinary(two.m, op, two.v[1], two.v[2])
CStandard(m, cx, f, ins) ==
  CASE f[1] = "SEL"     -> CSelected(CEval(m, cx, ins[1]), cx, ins)
    [] f[1] = "MUX"     -> CMux(m, cx, ins)
    [] f[1] \in Chained ->
         FoldLeft(LAMBDA acc, k : IF acc.v.v = 0 THEN acc
                                  ELSE CPair(CAll(acc.m, cx, SubSeq(ins, k, k + 1)), COperators[f[1]]),
                  Yields(m, Bool01(TRUE)), [k \in 1..Len(ins) - 1 |-> k])
    [] OTHER            -> CApplied(CAll(m, cx, ins), f, cx.typed /\ IsBool(cx, ins[1]))

\* ordered_user_function_call_input_args
CArguments(name, args) ==
  LET given == InputsOf(args)
      names == InputNames(name)
      Of(input) == CHOOSE k \in DOMAIN given : Target(names, given, k) = input
  IN  [k \in DOMAIN names |-> given[Of(names[k])].e]

\* disabled_call_default_to_c_project
DisabledC(f) ==
  IF f[1] \in DOMAIN Functions THEN C("int", Default(Functions[f[1]].returns).v) ELSE C("int", 0)

\* The call without its EN and ENO
CMade(m, cx, f, args) ==
  IF IsStandard(f) THEN CStandard(m, cx, f, OrderedInputs(f, args))
  ELSE LET Of(xs) == CFunction(xs.m, cx, f[1], xs.v) IN Of(CAll(m, cx, CArguments(f[1], args)))

\* ENO, when it is connected
CEno(m, cx, args, b) ==
  LET enos == SelectSeq(args, LAMBDA a : IsEno(a) /\ a.var # None)
  IN  IF enos = <<>> THEN m ELSE CStore(m, cx, enos[1].var, Bool01(b # enos[1].negated))

\* wrap_call_controls_to_c: EN makes the call conditional, and ENO is set before it.  In
\* a function the printer of EN and ENO does not know the types.
Untyped(cx) == [cx EXCEPT !.typed = @ /\ cx.kind # "function"]
CGuarded(on, cx, f, args, made) ==
  IF on.v = None THEN made
  ELSE Ternary(on.m, on.v.v # 0, made, Yields(CEno(on.m, Untyped(cx), args, FALSE), DisabledC(f)))
CUnder(on, cx, f, args) == CGuarded(on, cx, f, args, CMade(CEno(on.m, Untyped(cx), args, TRUE), cx, f, args))
CCall(m, cx, f, args) ==
  CUnder(IF EnOf(args) = None THEN Yields(m, None) ELSE CEval(m, Untyped(cx), EnOf(args)), cx, f, args)

\* - and NOT; without types NOT is !
CInverted(x, op, bool) ==
  CASE op = "-" -> Fitting(x.m, x.v.ty, -x.v.v)
    [] bool     -> Yields(x.m, CNot(x.v))
    [] OTHER    -> CComplement(x.m, x.v)
CUnary(m, cx, op, e) == CInverted(CEval(m, cx, e), op, ~cx.typed \/ IsBool(cx, e))

\* A binary operator between two trees: &&, || and != on BOOLs that are known to be
\* such, the bitwise ones else
COperated(m, cx, tree, bool) ==
  IF bool /\ tree.op \in {"AND", "OR"} THEN CLogic(m, cx, tree.op, tree.l, tree.r)
  ELSE CPair(CAll(m, cx, <<tree.l, tree.r>>), IF bool /\ tree.op = "XOR" THEN "<>" ELSE tree.op)
CBinaryTree(m, cx, tree) == COperated(m, cx, tree, cx.typed /\ \A e \in {tree.l, tree.r} : IsBool(cx, e))

\* expr_to_c_state, expr_to_c_local_typed, expr_to_c_for_user_fb
CEvaluated(m, cx, e) ==
  CASE e.k = "lit"  -> Yields(m, C(IF e.x.t = "bool" \/ e.x.v < Pow2(IntBits - 1) THEN "int" ELSE "i64", e.x.v))
    [] e.k \in {"var", "elem"} -> CRead(m, cx, e)
    [] e.k = "un"   -> CUnary(m, cx, e.op, e.e)
    [] e.k = "call" -> CCall(m, cx, e.f, e.args)
    [] e.k = "bin"  -> CBinaryTree(m, cx, Regrouped(e.op, e.l, e.r))

(***************************************************************************)
(* Functions and function blocks                                           *)
(***************************************************************************)
Burnt(m) == IF m.fuel = 0 THEN Undefined(m, "endless") ELSE [m EXCEPT !.fuel = @ - 1]
Spent(m) == m.fuel = 0 \/ "endless" \in m.bad

\* emit_function_pou: the locals start anew in every call, the accumulator at 0
CFunctionRun(m, cx, name, xs) ==
  LET function == Functions[name]
      vars  == function.inputs \o function.locals
      inner == [kind |-> "function", at |-> <<>>, typed |-> TRUE, types |-> (name :> function.returns) @@ Declared(vars)]
      Given(var, k) == IF k <= Len(xs) THEN ToStorage(xs[k], var.type) ELSE Default(var.type)
      Set(var, x)   == CStore(x.m, inner, Var(var.name), x.v)
      begun == FoldLeft(LAMBDA acc, k :
                          IF k > Len(xs) /\ vars[k].init # None THEN Set(vars[k], CEval(acc, inner, vars[k].init))
                          ELSE Put(acc, <<vars[k].name>>, Given(vars[k], k)),
                        [m EXCEPT !.env = <<name>> :> Default(function.returns), !.acc = C("i64", 0)],
                        [k \in DOMAIN vars |-> k])
      Result(run) == Yields([run.m EXCEPT !.env = m.env, !.acc = m.acc],
                            Loaded(run.m.env[<<name>>], function.returns))
  IN  IF Spent(m) THEN Yields(Undefined(m, "endless"), C("i64", 0))
      ELSE Result(CRunList(Burnt(begun), inner, function.body, 1))

\* What a call of a block in the instance at the path looks like from inside
Inside(cx, inst, block) ==
  [kind |-> "block", at |-> cx.at \o <<inst>>, typed |-> TRUE, types |-> Declared(FunctionBlocks[block].fields)]

\* emit_user_fb_call, emit_nested_user_fb_call: inputs are assigned one after the other.  The
\* call of a nested instance does not look at R_EDGE and F_EDGE.
CBind(m, cx, inst, block, args) ==
  LET given == InputsOf(args)
      inner == Inside(cx, inst, block)
      Sensed(x, input, edge, memory) ==
        [x.m EXCEPT !.env = (memory :> Flag(x.v.v # 0))
                              @@ (inner.at \o <<input>> :> Edge(edge, x.v.v # 0, IsTrue(x.m.env[memory]))) @@ @]
      Set(input, x) ==
        IF FieldOf(block, input).edge = None \/ cx.kind = "block" THEN CStore(x.m, inner, Var(input), x.v)
        ELSE Sensed(x, input, FieldOf(block, input).edge, inner.at \o EdgeOf(input))
      To(acc, input, e) == IF input = None THEN acc ELSE Set(input, CEval(acc, cx, e))
  IN  FoldLeft(LAMBDA acc, k : To(acc, Target(BlockInputs(block), given, k), given[k].e), m, [k \in DOMAIN given |-> k])

\* A VAR_IN_OUT and then the outputs are copied to the variables of the call.
CCopyBack(m, cx, inst, block, args) ==
  LET given == InputsOf(args)
      inner == Inside(cx, inst, block)
      none  == [field |-> None, var |-> None]
      InOut(input, e) == IF input # None /\ FieldOf(block, input).kind = "INOUT" THEN [field |-> input, var |-> e] ELSE none
      back  == [k \in DOMAIN given |-> InOut(Target(BlockInputs(block), given, k), given[k].e)]
                 \o [k \in DOMAIN args |-> IF args[k].output /\ args[k].name # "ENO"
                                             THEN [field |-> args[k].name, var |-> args[k].var] ELSE none]
  IN  FoldLeft(LAMBDA acc, copy : IF copy.field = None \/ copy.var = None THEN acc
                                  ELSE CStore(acc, cx, copy.var, CEval(acc, inner, Var(copy.field)).v),
               m, back)

\* The body is inlined between the two; it has an accumulator of its own.
CUserBlock(m, cx, inst, block, args) ==
  LET Run(bound) == CRunList([Burnt(bound) EXCEPT !.acc = C("i64", 0)], Inside(cx, inst, block),
                             FunctionBlocks[block].body, 1)
  IN  CCopyBack([Run(CBind(m, cx, inst, block, args)).m EXCEPT !.acc = m.acc], cx, inst, block, args)

\* emit_fb_call: a call under EN; ENO is set after it.
CBlockUnder(on, cx, inst, args) ==
  CEno(IF on.v.v = 0 THEN on.m ELSE CUserBlock(on.m, cx, inst, cx.types[inst], args), cx, args, on.v.v # 0)
CBlockCalled(m, cx, inst, args) ==
  IF cx.types[inst] \notin DOMAIN FunctionBlocks THEN m
  ELSE CBlockUnder(IF EnOf(args) = None THEN Yields(m, Bool01(TRUE)) ELSE CEval(m, cx, EnOf(args)), cx, inst, args)

(***************************************************************************)
(* Instruction lists                                                       *)
(***************************************************************************)
\* The accumulator is an int64_t; && and || leave the operand alone when it decides.
CAccumulated(m, op, x) ==
  LET on  == m.acc.v # 0
      yes == x.v.v # 0
      Acc(n, y)      == Leaves([n EXCEPT !.acc = Signed(y)], Continue)
      Logic(stop, b) == IF on = stop THEN Acc(m, Bool01(stop)) ELSE Acc(x.m, Bool01(b))
      Of(y)          == Acc(y.m, y.v)
  IN  CASE op = "LD"   -> Of(x)
        [] op = "LDN"  -> Acc(x.m, CNot(x.v))
        [] op = "NOT"  -> Acc(m, CNot(m.acc))
        [] op \in {"AND", "ANDN"} -> Logic(FALSE, yes = (op = "AND"))
        [] op \in {"OR", "ORN"}   -> Logic(TRUE, yes = (op = "OR"))
        [] op \in {"XOR", "XORN"} -> Acc(x.m, Bool01((on # yes) = (op = "XOR")))
        [] OTHER -> Of(CBinary(x.m, IlBinary[op], m.acc, x.v))
CAccumulate(m, ix, op, e) ==
  CAccumulated(m, op, IF e = None THEN Yields(m, C("int", 0)) ELSE CEval(m, ix, e))

\* Jumps, calls and returns.  A function calls no function block, and returns by a
\* RET without its value.
CTransfer(m, cx, op, e) ==
  LET on    == m.acc.v # 0
      taken == CASE op \in {"JMP", "CAL", "RET"} -> TRUE
                 [] op \in {"JMPC", "CALC", "RETC"} -> on
                 [] OTHER -> ~on
  IN  CASE ~taken -> Leaves(m, Continue)
        [] op \in {"JMP", "JMPC", "JMPCN"} ->
             Leaves(m, IF e # None /\ e.k = "var" /\ Len(e.path) = 1 THEN Jump(e.path[1]) ELSE Continue)
        [] op \in {"CAL", "CALC", "CALCN"} ->
             Leaves(IF cx.kind = "function" \/ e = None \/ e.k \notin {"call", "var"} THEN m
                    ELSE CCallBlock(m, cx, IF e.k = "call" THEN e.f[1] ELSE e.path[1],
                                    IF e.k = "call" THEN e.args ELSE <<>>), Continue)
        [] OTHER -> Leaves(IF cx.kind = "function" THEN Undefined(m, "novalue") ELSE m,
                           [k |-> "return", label |-> None])

\* emit_il_instruction, emit_local_il_instruction, emit_user_fb_il_instruction
CInstruction(m, cx, op, e) ==
  LET ix    == [cx EXCEPT !.typed = @ /\ cx.kind # "function"]
      To(y) == Leaves(IF e # None /\ e.k \in {"var", "elem"} THEN CStore(m, ix, e, y) ELSE m, Continue)
  IN  CASE op \in {"S", "R"} /\ m.acc.v = 0 -> Leaves(m, Continue)
        [] op \in {"ST", "STN", "S", "R"} ->
             To(CASE op = "ST" -> m.acc [] op = "STN" -> CNot(m.acc) [] OTHER -> Bool01(op = "S"))
        [] op \in {"LD", "LDN", "NOT"} \cup DOMAIN IlLogic \cup DOMAIN IlBinary -> CAccumulate(m, ix, op, e)
        [] OTHER -> CTransfer(m, cx, op, e)

(***************************************************************************)
(* Statements                                                              *)
(***************************************************************************)
\* An array is copied whole, everything else is converted.
CAssign(m, cx, to, e) ==
  LET Set(x) == CStore(x.m, cx, to, x.v)
      whole == to.k = "var" /\ e.k = "var" /\ e.path[1] \in DOMAIN cx.types
                 /\ Resolved(VariableType(cx.types, to)).kind = "array"
  IN  IF whole THEN Put(m, PathOf(cx, to), m.env[PathOf(cx, e)]) ELSE Set(CEval(m, cx, e))

RECURSIVE CIfFrom(_, _, _, _, _), CLoop(_, _, _, _)
CIfFrom(m, cx, branches, els, k) ==
  LET On(c) == IF c.v.v # 0 THEN CRunBlock(c.m, cx, branches[k].body) ELSE CIfFrom(c.m, cx, branches, els, k + 1)
  IN  IF k > Len(branches) THEN CRunBlock(m, cx, els) ELSE On(CEval(m, cx, branches[k].c))

\* case_label_to_c, emit_case_statement: a chain of conditions that repeat the selector
CLabel(sel, label) ==
  IF label.high = None THEN Bin("=", sel, label.low)
  ELSE Bin("AND", Bin(">=", sel, label.low), Bin("<=", sel, label.high))
CCase(m, cx, s) ==
  CIfFrom(m, cx,
          [k \in DOMAIN s.cases |->
             [c |-> FoldLeft(LAMBDA acc, label : Bin("OR", acc, CLabel(s.sel, label)),
                             CLabel(s.sel, s.cases[k].labels[1]), Tail(s.cases[k].labels)),
              body |-> s.cases[k].body]],
          s.els, 1)

\* The limit of a FOR is computed again for every iteration, and the control is stored
\* with the conversion of its type; the step is computed once.
Truth(x) == Yields(x.m, x.v.v # 0)
CWithin(m, cx, s, by) ==
  Truth(CPair(CAll(m, cx, <<Var(s.control), s.to>>), IF by.v >= 0 THEN "<=" ELSE ">="))
CMoved(next, cx, control) == CStore(next.m, cx, Var(control), next.v)
CStep(m, cx, s, by) == CMoved(CBinary(m, "+", CEval(m, cx, Var(s.control)).v, by), cx, s.control)
Test(m, cx, e) == Truth(CEval(m, cx, e))

\* for, while and do, from the test before the body to the next iteration
CAgain(until, cx, s, by) ==
  IF s.k = "repeat" /\ until.v THEN Leaves(until.m, Continue)
  ELSE CLoop(IF s.k = "for" THEN CStep(until.m, cx, s, by) ELSE until.m, cx, s, by)
CAfter(run, cx, s, by) ==
  CASE run.c.k = "exit" -> Leaves(run.m, Continue)
    [] run.c.k \in {"return", "jump"} -> run
    [] OTHER -> CAgain(IF s.k = "repeat" THEN Test(run.m, cx, s.c) ELSE Yields(run.m, TRUE), cx, s, by)
CAround(c, cx, s, by) ==
  IF c.v THEN CAfter(CRunBlock(Burnt(c.m), cx, s.body), cx, s, by) ELSE Leaves(c.m, Continue)
CLoop(m, cx, s, by) ==
  IF Spent(m) THEN Leaves(Undefined(m, "endless"), Continue)
  ELSE CAround(CASE s.k = "for"    -> CWithin(m, cx, s, by)
                 [] s.k = "while"  -> Test(m, cx, s.c)
                 [] s.k = "repeat" -> Yields(m, TRUE),
               cx, s, by)

CBegun(xs, cx, s) == CLoop(CStore(xs.m, cx, Var(s.control), xs.v[2]), cx, s, Signed(xs.v[1]))
CFor(m, cx, s) ==
  CBegun(CAll(m, cx, <<IF s.by = None THEN Lit(Num(1)) ELSE s.by, s.from>>), cx, s)

\* emit_statement, emit_function_statement, emit_user_fb_statement
CExecuted(m, cx, s) ==
  CASE s.k = "assign" -> Leaves(CAssign(m, cx, s.to, s.e), Continue)
    [] s.k = "if"     -> CIfFrom(m, cx, s.branches, s.els, 1)
    [] s.k = "case"   -> CCase(m, cx, s)
    [] s.k = "for"    -> CFor(m, cx, s)
    [] s.k \in {"while", "repeat"} -> CLoop(m, cx, s, C("i64", 0))
    [] s.k = "il"     -> CInstruction(m, cx, s.op, s.e)
    [] s.k = "label"  -> Leaves(m, Continue)
    [] s.k = "fb"     -> Leaves(IF cx.kind = "function" THEN m ELSE CCallBlock(m, cx, s.inst, s.args), Continue)
    [] s.k \in {"exit", "return"} -> Leaves(m, [k |-> s.k, label |-> None])

CBlockRun(m, cx, body) ==
  FoldLeft(LAMBDA acc, s : IF acc.c.k = "continue" THEN CExecute(acc.m, cx, s) ELSE acc, Leaves(m, Continue), body)
CListRun(m, cx, body, at) ==
  LET To(n, labels) ==
        CASE labels = {} -> Leaves(Undefined(n, "label"), Continue)
          [] Spent(n)    -> Leaves(Undefined(n, "endless"), Continue)
          [] OTHER       -> CRunList(Burnt(n), cx, body, CHOOSE k \in labels : TRUE)
      After(run) == CASE run.c.k = "return" -> run
                      [] run.c.k = "jump"   -> To(run.m, LabelAt(body, run.c.label))
                      [] OTHER              -> CRunList(run.m, cx, body, at + 1)
  IN  IF at > Len(body) THEN Leaves(m, Continue) ELSE After(CExecute(m, cx, body[at]))

CDo(m, cx, task) ==
  CASE task.do = "eval"     -> CEvaluated(m, cx, task.e)
    [] task.do = "all"      -> CEach(m, cx, task.es)
    [] task.do = "store"    -> CStored(m, cx, task.var, task.x)
    [] task.do = "function" -> CFunctionRun(m, cx, task.name, task.xs)
    [] task.do = "block"    -> CBlockCalled(m, cx, task.inst, task.args)
    [] task.do = "execute"  -> CExecuted(m, cx, task.s)
    [] task.do = "body"     -> CBlockRun(m, cx, task.body)
    [] task.do = "list"     -> CListRun(m, cx, task.body, task.at)

(***************************************************************************)
(* A program                                                               *)
(***************************************************************************)
InProgram(vars) == [kind |-> "program", at |-> <<>>, typed |-> TRUE, types |-> Declared(vars)]

\* initializer_expr_to_c: the printer that does not know the types
CInitial(m, vars, init) == CEval(m, [InProgram(vars) EXCEPT !.typed = FALSE], init)

\* emit_state_initialization
CDeclare(m, vars, var) ==
  LET Set(x) == CStore(x.m, InProgram(vars), Var(var.name), x.v) IN
  IF var.type \in DOMAIN FunctionBlocks THEN InitialFields(Put(m, <<var.name>>, Num(0)), <<var.name>>, var.type)
  ELSE IF var.init = None THEN Put(m, <<var.name>>, Default(var.type))
  ELSE Set(CInitial(m, vars, var.init))

CInitialize(m, vars) == FoldLeft(LAMBDA acc, var : CDeclare(acc, vars, var), m, vars)

\* The scan function: the VAR_TEMPs and the accumulator start anew.
CCycle(m, vars, body, fuel) ==
  LET begun == CInitialize([m EXCEPT !.acc = C("i64", 0), !.fuel = fuel], SelectSeq(vars, LAMBDA var : var.temp))
  IN  CRunList(begun, InProgram(vars), body, 1).m
=============================================================================
