----------------------------- MODULE Interpreter -----------------------------
(***************************************************************************)
(* The interpreter of crates/iec_runtime: expressions, assignments,        *)
(* statements, instruction lists, calls of functions and of user function  *)
(* blocks.  (The standard function blocks and the SFC engine have modules  *)
(* of their own.)                                                          *)
(*                                                                         *)
(* A runtime is [env, types, acc, diags, depth]: the values by path, the   *)
(* types by name, the accumulator, the kinds of the diagnostics so far and *)
(* the depth of the call.  An expression gives [rt, v], with v = None when *)
(* it has no value; a statement gives [rt, c], with c the control.         *)
(***************************************************************************)
EXTENDS StandardFunctions

CONSTANTS
  MaxIterations,  \* options.max_loop_iterations
  MaxDepth        \* 64: the deepest call of a function

ASSUME LimitAssumption == MaxIterations \in Nat /\ MaxDepth \in Nat \ {0}

Said(rt, kind)   == [rt EXCEPT !.diags = @ \cup {kind}]
Gives(rt, x)     == [rt |-> rt, v |-> x]
Fails(rt, kind)  == Gives(Said(rt, kind), None)
Put(rt, path, x) == [rt EXCEPT !.env = (path :> x) @@ @]
Has(rt, path)    == path \in DOMAIN rt.env

Continue == [k |-> "continue", label |-> None]
Jump(l)  == [k |-> "jump", label |-> l]
Goes(rt, control) == [rt |-> rt, c |-> control]

\* A body must not end by an EXIT or a jump.
Ended(run) == IF run.c.k \in {"exit", "jump"} THEN Said(run.rt, run.c.k) ELSE run.rt

(***************************************************************************)
(* Operators                                                               *)
(***************************************************************************)
\* A mutant: the bits of two BOOLs are a number.
BitNumber(op, l, r) ==
  IF ~(HasNumber(l) /\ HasNumber(r)) THEN None
  ELSE Num(CASE op = "AND" -> BitAnd(l.v, r.v) [] op = "OR" -> BitOr(l.v, r.v) [] op = "XOR" -> BitXor(l.v, r.v))
BitBool(op, l, r) ==
  LET n == CASE op = "AND" -> BitAnd(l.v, r.v) [] op = "OR" -> BitOr(l.v, r.v)
             [] op = "XOR" -> BitXor(l.v, r.v)
  IN  IF ~(HasNumber(l) /\ HasNumber(r)) THEN None
      ELSE IF l.t = "bool" /\ r.t = "bool" THEN Flag(n = 1) ELSE Num(n)

Relates(op, o) ==
  CASE op = "<" -> o < 0 [] op = "<=" -> o <= 0 [] op = ">" -> o > 0 [] op = ">=" -> o >= 0

\* A sum, difference or product; the interpreter notices an overflow of its integers.
Arithmetic(rt, op, l, r) ==
  LET n == CASE op = "+" -> l.v + r.v [] op = "-" -> l.v - r.v [] op = "*" -> l.v * r.v
  IN  IF op \in {"+", "-"} /\ l.t = "time" /\ r.t = "time" THEN Gives(rt, Time(n))
      ELSE IF ~(HasNumber(l) /\ HasNumber(r)) THEN Gives(rt, None)
      ELSE IF n \in Wide THEN Gives(rt, Num(n)) ELSE Fails(rt, "overflow")

Division(rt, op, l, r) ==
  IF HasNumber(r) /\ r.v = 0 THEN Fails(rt, "zero")
  ELSE IF ~(HasNumber(l) /\ HasNumber(r)) THEN Gives(rt, None)
  ELSE IF l.v = WideMin /\ r.v = -1 THEN Fails(rt, "overflow")
  ELSE Gives(rt, Num(IF op = "/" THEN Quotient(l.v, r.v) ELSE Remainder(l.v, r.v)))

EvalBinary(rt, op, l, r) ==
  CASE op \in {"AND", "OR", "XOR"} -> Gives(rt, BitBool(op, l, r))
    [] op = "="  -> Gives(rt, Flag(Compare(l, r) = 0))
    [] op = "<>" -> Gives(rt, Flag(Compare(l, r) # 0))
    [] op \in {"<", "<=", ">", ">="} ->
         Gives(rt, IF Compare(l, r) = None THEN None ELSE Flag(Relates(op, Compare(l, r))))
    [] op \in {"+", "-", "*"} -> Arithmetic(rt, op, l, r)
    [] op \in {"/", "MOD"}    -> Division(rt, op, l, r)

EvalUnary(rt, op, x) ==
  CASE op = "NOT" /\ x.t = "bool" -> Gives(rt, Flag(x.v = 0))
    [] ~HasNumber(x)              -> Gives(rt, None)
    [] op = "NOT"                 -> Gives(rt, Num(BitNot(x.v)))
    [] OTHER -> IF x.v = WideMin THEN Fails(rt, "overflow") ELSE Gives(rt, Num(-x.v))

(***************************************************************************)
(* Stores                                                                  *)
(***************************************************************************)
RECURSIVE OutOfRange(_, _)
\* A mutant: only elementary types have a range.
OutOfElementaryRange(x, type) ==
  LET spec == Resolved(type) IN
  spec.kind = "elementary" /\ spec.name \in IntegerType /\ HasNumber(x) /\ x.v \notin Low(spec.name)..High(spec.name)
\* constrain_value: a value outside the range of its type is reported, and stored.
OutOfRange(x, type) ==
  LET spec == Resolved(type) IN
  CASE spec.kind = "array"    -> x.t = "array" /\ \E k \in DOMAIN x.elements : OutOfRange(x.elements[k], spec.of)
    [] spec.kind = "struct"   -> x.t = "struct" /\ \E f \in Range(spec.fields) :
                                   f.name \in DOMAIN x.fields /\ OutOfRange(x.fields[f.name], f.type)
    [] spec.kind = "subrange" -> HasNumber(x) /\ x.v \notin spec.low..spec.high
    [] spec.kind = "elementary" /\ spec.name \in IntegerType ->
         HasNumber(x) /\ x.v \notin Low(spec.name)..High(spec.name)
    [] OTHER -> FALSE
Constrained(rt, x, type) == IF OutOfRange(x, type) THEN Said(rt, "range") ELSE rt

\* The paths of the values an instance keeps: those of its fields, and for an
\* input declared R_EDGE or F_EDGE what it was.
EdgeOf(name) == <<"$EDGE", name>>
RECURSIVE InstancePaths(_)
InstancePaths(block) ==
  LET fields == Range(FunctionBlocks[block].fields) IN
  UNION {IF f.type \in DOMAIN FunctionBlocks
         THEN {<<f.name>> \o p : p \in InstancePaths(f.type)}
         ELSE {<<f.name>>} \cup (IF f.edge = None THEN {} ELSE {EdgeOf(f.name)}) : f \in fields}

RECURSIVE InitialAt(_, _)
\* What a path inside an instance starts with: the literal its declaration
\* gives, or the default of its type.
InitialAt(block, path) ==
  LET field == FieldOf(block, path[1]) IN
  IF path[1] = "$EDGE" THEN Flag(FALSE)
  ELSE IF Len(path) > 1 THEN InitialAt(field.type, Tail(path))
  ELSE IF field.init = None THEN Default(field.type) ELSE field.init.x

\* The interpreter calls itself through Do: it evaluates an expression, executes a statement,
\* the body of a branch or of a loop, or a list from a place on.
RECURSIVE Do(_, _)
Eval(rt, e)        == Do(rt, [do |-> "evaluate", e |-> e])
Execute(rt, s)     == Do(rt, [do |-> "execute", s |-> s])
RunBlock(rt, body) == Do(rt, [do |-> "block", body |-> body])
RunList(rt, body, at, done) == Do(rt, [do |-> "list", body |-> body, at |-> at, done |-> done])
AssignTo(rt, var, x) == Do(rt, [do |-> "assign", to |-> var, x |-> x])

\* array_offset: the place of an element, or None
OffsetOf(rt, spec, at) ==
  LET i == Eval(rt, at) IN
  IF ~HasNumber(i.v) THEN Gives(i.rt, None)
  ELSE IF i.v.v \notin spec.low..spec.high THEN Fails(i.rt, "subscript")
  ELSE Gives(i.rt, i.v.v - spec.low + 1)

\* resolve: the values of an enumeration come before the variables, the fields of an
\* instance before those of a structure.
Resolve(rt, var) ==
  LET root == var.path[1]
      type == TypeAt(rt.types[root], Tail(var.path))
      x    == ValueAt(rt.env[<<root>>], Tail(var.path))
      at   == OffsetOf(rt, Resolved(type), var.at)
  IN  CASE var.k = "at" -> Gives(rt, IF Has(rt, var.path) THEN rt.env[var.path] ELSE Num(0))
        [] root \in EnumNames -> Gives(rt, Num(Ordinal(root)))
        [] var.k = "var" /\ Has(rt, var.path) /\ (Len(var.path) > 1 \/ root \in DOMAIN rt.types) ->
             Gives(rt, rt.env[var.path])
        [] ~Has(rt, <<root>>) -> Fails(rt, "storage")
        [] root \notin DOMAIN rt.types -> Gives(rt, None)
        [] type = None -> Fails(rt, "structure")
        [] x = None \/ var.k = "var" -> Gives(rt, x)
        [] Resolved(type).kind # "array" -> Gives(rt, None)
        [] OTHER -> Gives(at.rt, IF at.v = None \/ x.t # "array" THEN None ELSE x.elements[at.v])

\* assign: the field of an instance is stored as it is, the rest after constrain_value.
Assigned(rt, var, x) ==
  LET root  == var.path[1]
      rest  == Tail(var.path)
      type  == TypeAt(rt.types[root], rest)
      spec  == Resolved(type)
      old   == ValueAt(rt.env[<<root>>], rest)
      at    == OffsetOf(rt, spec, var.at)
      Store(to, y) == Put(to, <<root>>, ValueWith(rt.env[<<root>>], rest, y))
  IN  CASE var.k = "at" \/ (var.k = "var" /\ rest # <<>> /\ Has(rt, var.path)) -> Put(rt, var.path, x)
        [] root \notin DOMAIN rt.types \/ ~Has(rt, <<root>>) -> rt
        [] type = None \/ old = None -> rt
        [] var.k = "var" -> Store(Constrained(rt, x, type), x)
        [] spec.kind # "array" \/ old.t # "array" -> rt
        [] OTHER -> IF at.v = None THEN at.rt
                    ELSE Store(Constrained(at.rt, x, spec.of), [old EXCEPT !.elements[at.v] = x])

\* assign_function_eno
AssignEno(rt, args, b) ==
  FoldLeft(LAMBDA acc, a : IF IsEno(a) /\ a.var # None
                           THEN AssignTo(acc, a.var, Flag(IF a.negated THEN ~b ELSE b)) ELSE acc,
           rt, args)

\* initial_value_for_spec and default_value
Initial(rt, type, init) ==
  LET kind == Resolved(type).kind
      Value(x)    == IF x.v # None THEN x.v ELSE IF kind = "elementary" THEN Default(type) ELSE Num(0)
      Checked(n, y) == Gives(IF kind = "enum" THEN n ELSE Constrained(n, y, type), y)
      From(x)     == Checked(x.rt, Value(x))
  IN  IF init = None \/ kind \in {"array", "struct"} THEN Gives(rt, Default(type)) ELSE From(Eval(rt, init))

\* initialize_function_block_instance
InitialFields(rt, path, block) ==
  LET inner == InstancePaths(block) IN
  [rt EXCEPT !.env = [p \in {path \o q : q \in inner} |->
                        InitialAt(block, SubSeq(p, Len(path) + 1, Len(p)))] @@ @]

\* Runtime::initialize.  A warm start keeps the RETAIN variables there are.
PutGiven(x, path) == Put(x.rt, path, x.v)
Declare(rt, var, warm) ==
  LET typed == [rt EXCEPT !.types = (var.name :> var.type) @@ @]
      Inside(put) == IF var.type \in DOMAIN FunctionBlocks THEN InitialFields(put, <<var.name>>, var.type) ELSE put
  IN  IF warm /\ var.retain /\ Has(rt, <<var.name>>) THEN typed
      ELSE Inside(PutGiven(Initial(typed, var.type, var.init), <<var.name>>))

Empty(depth) == [env |-> <<>>, types |-> <<>>, acc |-> Unit, diags |-> {}, depth |-> depth]
Initialize(rt, vars, warm) ==
  LET kept == IF warm THEN [rt EXCEPT !.acc = Unit] ELSE Empty(rt.depth)
  IN  FoldLeft(LAMBDA acc, var : Declare(acc, var, warm), kept, vars)

(***************************************************************************)
(* Calls                                                                   *)
(***************************************************************************)
\* function_call_enabled: a call without EN, or whose EN has no value, is made.
Enabled(rt, args) ==
  LET en == Eval(rt, EnOf(args)) IN
  IF EnOf(args) = None THEN Gives(rt, TRUE)
  ELSE Gives(en.rt, IF HasNumber(en.v) THEN IsTrue(en.v) ELSE TRUE)

\* The values of the arguments, in the order they are written: [rt, v].
EvalArgs(rt, args) ==
  FoldLeft(LAMBDA acc, a : LET x == Eval(acc.rt, a.e) IN Gives(x.rt, Append(acc.v, x.v)),
           Gives(rt, <<>>), InputsOf(args))

\* eval_standard_function_inputs: an argument without a value is left out, and
\* the ones behind it move up; an unknown name goes to the end.
InputPlace(f, given, kept, k) ==
  LET Known(at) == IF at = None THEN 100 + k ELSE at IN
  IF given[k].name # None THEN Known(InputIndex(f, given[k].name))
  ELSE Cardinality({j \in Range(kept) : j < k /\ given[j].name = None})
InOrderOf(xs, places) ==
  LET sorted == SortSeq([k \in DOMAIN places |-> k],
                        LAMBDA j, k : places[j].at < places[k].at \/ (places[j].at = places[k].at /\ j < k))
  IN  [k \in DOMAIN sorted |-> xs[places[sorted[k]].k]]
StandardInputs(rt, f, args) ==
  LET given  == InputsOf(args)
      Placed(kept) == [n \in DOMAIN kept |-> [k |-> kept[n], at |-> InputPlace(f, given, kept, kept[n])]]
      From(xs) == Gives(xs.rt, InOrderOf(xs.v, Placed(SelectSeq([k \in DOMAIN given |-> k], LAMBDA k : xs.v[k] # None))))
  IN  From(EvalArgs(rt, args))

\* bind_function_inputs: the arguments without a name go to the inputs no
\* argument names, in their order; values are stored as they are.
BindFunction(rt, inputs, given, xs) ==
  LET Named_(input)  == {k \in DOMAIN given : given[k].name = input}
      unnamed        == SelectSeq([k \in DOMAIN given |-> k], LAMBDA k : given[k].name = None)
      Place(j)       == Cardinality({i \in 1..j : Named_(inputs[i]) = {}})
      Source(j)      == IF Named_(inputs[j]) # {} THEN CHOOSE k \in Named_(inputs[j]) :
                                                         \A i \in Named_(inputs[j]) : i <= k
                        ELSE IF Place(j) \in DOMAIN unnamed THEN unnamed[Place(j)] ELSE 0
  IN  FoldLeft(LAMBDA acc, j :
                 IF Source(j) = 0 THEN acc
                 ELSE Put(acc, <<inputs[j]>>, IF xs[Source(j)] = None THEN Unit ELSE xs[Source(j)]),
               rt, [j \in DOMAIN inputs |-> j])

\* eval_user_function: the body runs in a runtime of its own; the value is what the
\* name of the function holds in the end.
FunctionRuntime(depth, name) ==
  FoldLeft(LAMBDA acc, var : Declare(acc, var, FALSE),
           Put([Empty(depth) EXCEPT !.types = (name :> Functions[name].returns)],
               <<name>>, Default(Functions[name].returns)),
           Functions[name].inputs \o Functions[name].locals)
UserFunction(rt, name, args) ==
  LET Returned(xs, run) ==
        Gives(AssignEno([xs.rt EXCEPT !.diags = @ \cup Ended(run).diags], args, TRUE), run.rt.env[<<name>>])
      Run(xs) ==
        Returned(xs, RunList(BindFunction(FunctionRuntime(rt.depth + 1, name), InputNames(name), InputsOf(args), xs.v),
                             Functions[name].body, 1, 0))
  IN  IF rt.depth >= MaxDepth THEN Gives(Said(Said(rt, "depth"), "unsupported"), Unit)
      ELSE Run(EvalArgs(rt, args))

\* The value of a standard function, or what is said when it has none
StandardCall(rt, args, x) ==
  CASE x = Panic -> Fails(rt, "panic")
    [] x = None  -> Fails(AssignEno(rt, args, FALSE), "failed")
    [] OTHER     -> Gives(AssignEno(rt, args, TRUE), x)
Applies(inputs, f, args) ==
  IF IsStandard(f) THEN StandardCall(inputs.rt, args, Std(f, inputs.v))
  ELSE IF f[1] \in DOMAIN Functions THEN UserFunction(inputs.rt, f[1], args)
  ELSE Gives(Said(inputs.rt, "unsupported"), Unit)
DisabledCall(f) ==
  IF IsStandard(f) THEN DisabledValue(f)
  ELSE IF f[1] \in DOMAIN Functions THEN Default(Functions[f[1]].returns) ELSE Num(0)

EvalCall(rt, f, args) ==
  LET on == Enabled(rt, args) IN
  IF on.v THEN Applies(StandardInputs(on.rt, f, args), f, args)
  ELSE Gives(AssignEno(on.rt, args, FALSE), DisabledCall(f))

Evaluated(rt, e) ==
  LET l == Eval(rt, e.l)
      r == Eval(l.rt, e.r)
      x == Eval(rt, e.e)
  IN  CASE e.k = "lit"  -> Gives(rt, e.x)
        [] IsVariable(e) -> Resolve(rt, e)
        [] e.k = "un"   -> IF x.v = None THEN x ELSE EvalUnary(x.rt, e.op, x.v)
        [] e.k = "call" -> EvalCall(rt, e.f, e.args)
        [] e.k = "bin"  ->
             IF l.v = None THEN l
             ELSE IF l.v = Flag(FALSE) /\ e.op = "AND" THEN Gives(l.rt, Flag(FALSE))
             ELSE IF l.v = Flag(TRUE) /\ e.op = "OR" THEN Gives(l.rt, Flag(TRUE))
             ELSE IF r.v = None THEN r ELSE EvalBinary(r.rt, e.op, l.v, r.v)

(***************************************************************************)
(* Function blocks                                                         *)
(***************************************************************************)
\* The inputs of a user function block, stored in the order of the arguments;
\* those declared with an edge are TRUE for one call.
Edge(edge, now, before) == Flag(IF edge = "R" THEN now /\ ~before ELSE ~now /\ before)
StoreInput(rt, inst, field, x) ==
  LET memory == <<inst>> \o EdgeOf(field.name) IN
  IF field.edge = None THEN Put(rt, <<inst, field.name>>, x)
  ELSE Put(Put(rt, memory, Flag(IsTrue(x))), <<inst, field.name>>,
           Edge(field.edge, IsTrue(x), IsTrue(rt.env[memory])))
BindInputs(rt, inst, block, args) ==
  LET given == InputsOf(args)
      Store(x, input) == StoreInput(x.rt, inst, FieldOf(block, input), IF x.v = None THEN Unit ELSE x.v)
      Bind(acc, e, input) == IF input = None THEN acc ELSE Store(Eval(acc, e), input)
  IN  FoldLeft(LAMBDA acc, k : Bind(acc, given[k].e, Target(BlockInputs(block), given, k)),
               rt, [k \in DOMAIN given |-> k])

\* The actuals of the VAR_IN_OUTs and of the outputs are assigned after the call;
\* the negation of an output is not made.
CopyInOuts(rt, inst, block, args) ==
  LET given == InputsOf(args)
      Back(acc, e, input) ==
        IF input = None \/ FieldOf(block, input).kind # "INOUT" THEN acc
        ELSE IF IsVariable(e) THEN AssignTo(acc, e, acc.env[<<inst, input>>]) ELSE Said(acc, "inout")
  IN  FoldLeft(LAMBDA acc, k : Back(acc, given[k].e, Target(BlockInputs(block), given, k)),
               rt, [k \in DOMAIN given |-> k])
CopyOutputs(rt, inst, args) ==
  FoldLeft(LAMBDA acc, a :
             IF ~a.output \/ a.name \in {None, "ENO"} \/ a.var = None THEN acc
             ELSE AssignTo(acc, a.var, IF Has(acc, <<inst, a.name>>) THEN acc.env[<<inst, a.name>>] ELSE Unit),
           rt, args)

\* execute_user_function_block: the body runs in a runtime of its own, on a
\* copy of the instance.
InstanceRuntime(rt, inst, block) ==
  [Empty(rt.depth + 1) EXCEPT
     !.env = [p \in InstancePaths(block) |-> rt.env[<<inst>> \o p]],
     !.types = [f \in {g.name : g \in Range(FunctionBlocks[block].fields)} |-> FieldOf(block, f).type]]
UserBlock(rt, inst, block, args) ==
  LET Saved(bound, run) ==
        [bound EXCEPT !.diags = @ \cup Ended(run).diags,
                      !.env = [p \in {<<inst>> \o q : q \in InstancePaths(block)} |-> run.rt.env[Tail(p)]] @@ @]
      Ran(bound) == Saved(bound, RunList(InstanceRuntime(bound, inst, block), FunctionBlocks[block].body, 1, 0))
  IN  CopyOutputs(CopyInOuts(Ran(BindInputs(rt, inst, block, args)), inst, block, args), inst, args)

\* execute_fb_call, for the blocks of the project
CallBlock(rt, inst, args) ==
  LET Known(inputs, block) ==
        IF block \notin DOMAIN FunctionBlocks THEN AssignEno(Said(inputs.rt, "unsupported"), args, FALSE)
        ELSE AssignEno(UserBlock(inputs.rt, inst, block, args), args, TRUE)
      Called(on) == IF on.v THEN Known(EvalArgs(on.rt, args), rt.types[inst]) ELSE AssignEno(on.rt, args, FALSE)
  IN  IF inst \notin DOMAIN rt.types \/ rt.types[inst] \in Elementary THEN Said(rt, "unsupported")
      ELSE Called(Enabled(rt, args))

(***************************************************************************)
(* Instruction lists                                                       *)
(***************************************************************************)
IlBinary == [ADD |-> "+", SUB |-> "-", MUL |-> "*", DIV |-> "/", MOD |-> "MOD",
             GT |-> ">", GE |-> ">=", EQ |-> "=", NE |-> "<>", LE |-> "<=", LT |-> "<"]
IlLogic  == [AND |-> "AND", ANDN |-> "AND", OR |-> "OR", ORN |-> "OR", XOR |-> "XOR", XORN |-> "XOR"]
Inverted(x) == Flag(~IsTrue(x))

\* A binary instruction whose operator has no value leaves the accumulator as it was.
Accumulated(y) == Goes(IF y.v = None THEN y.rt ELSE [y.rt EXCEPT !.acc = y.v], Continue)
Combine(rt, op, x) ==
  LET Operand(default) == IF x = None THEN default ELSE x
      right == CASE op \in {"AND", "OR", "XOR"}    -> Operand(Flag(FALSE))
                 [] op \in {"ANDN", "ORN", "XORN"} -> Inverted(Operand(Flag(FALSE)))
                 [] OTHER                          -> Operand(Num(0))
  IN  Accumulated(EvalBinary(rt, (IlLogic @@ IlBinary)[op], rt.acc, right))

\* A CAL calls the instance its operand names.
CallOperand(rt, e) ==
  IF e = None \/ ~(e.k \in {"call", "var"}) THEN Said(rt, "operand")
  ELSE CallBlock(rt, IF e.k = "call" THEN e.f[1] ELSE e.path[1], IF e.k = "call" THEN e.args ELSE <<>>)

Instruction(rt, op, e) ==
  LET on == IsTrue(rt.acc)
      x  == Eval(rt, e)
      loaded == IF x.v = None THEN Unit ELSE x.v
      To(y) == IF e # None /\ IsVariable(e) THEN AssignTo(rt, e, y) ELSE rt
      Taken == CASE op \in {"JMP", "CAL", "RET"} -> TRUE
                 [] op \in {"JMPC", "CALC", "RETC"} -> on
                 [] OTHER -> ~on
  IN  CASE op = "LD"  -> Goes([x.rt EXCEPT !.acc = loaded], Continue)
        [] op = "LDN" -> Goes([x.rt EXCEPT !.acc = Inverted(loaded)], Continue)
        [] op = "ST"  -> Goes(To(rt.acc), Continue)
        [] op = "STN" -> Goes(To(Inverted(rt.acc)), Continue)
        [] op \in {"S", "R"} -> Goes(IF on THEN To(Flag(op = "S")) ELSE rt, Continue)
        [] op = "NOT" -> Goes([rt EXCEPT !.acc = Inverted(@)], Continue)
        [] op \in DOMAIN (IlLogic @@ IlBinary) -> Combine(x.rt, op, x.v)
        [] op \in {"JMP", "JMPC", "JMPCN"} ->
             IF ~Taken THEN Goes(rt, Continue)
             ELSE IF e # None /\ e.k = "var" /\ Len(e.path) = 1 THEN Goes(rt, Jump(e.path[1]))
             ELSE Goes(Said(rt, "label"), Continue)
        [] op \in {"CAL", "CALC", "CALCN"} ->
             Goes(IF Taken THEN CallOperand(rt, e) ELSE rt, Continue)
        [] op \in {"RET", "RETC", "RETCN"} ->
             Goes(rt, IF Taken THEN [k |-> "return", label |-> None] ELSE Continue)

(***************************************************************************)
(* Statements                                                              *)
(***************************************************************************)
\* case_label_matches: a label is [low, high], with high = None for a single value.
Matches(rt, label, x) ==
  LET low  == Eval(rt, label.low)
      high == Eval(low.rt, label.high)
  IN  IF label.high = None THEN Gives(low.rt, low.v # None /\ Compare(low.v, x) = 0)
      ELSE Gives(high.rt, /\ HasNumber(low.v) /\ HasNumber(high.v) /\ HasNumber(x)
                          /\ low.v.v <= x.v /\ x.v <= high.v.v)

\* The first label of the cases that matches: [rt, v], v the case or None
FirstCase(rt, cases, x) ==
  FoldLeft(LAMBDA acc, k :
             FoldLeft(LAMBDA a, label : IF a.v # None THEN a
                                        ELSE LET m == Matches(a.rt, label, x)
                                             IN  Gives(m.rt, IF m.v THEN k ELSE None),
                      acc, cases[k].labels),
           Gives(rt, None), [k \in DOMAIN cases |-> k])

RECURSIVE IfFrom(_, _, _, _), ForFrom(_, _, _, _, _, _), WhileFrom(_, _, _), RepeatFrom(_, _, _)

IfFrom(rt, branches, els, k) ==
  LET c == Eval(rt, branches[k].c) IN
  IF k > Len(branches) THEN RunBlock(rt, els)
  ELSE IF IsTrue(c.v) THEN RunBlock(c.rt, branches[k].body)
  ELSE IfFrom(c.rt, branches, els, k + 1)

\* A mutant: a loop that is cut off is not reported.
AfterBodyQuiet(run, n, again) ==
  CASE run.c.k = "exit" -> Goes(run.rt, Continue)
    [] run.c.k \in {"return", "jump"} -> run
    [] n + 1 > MaxIterations -> Goes(run.rt, Continue)
    [] OTHER -> again

\* What a loop does after its body: leaves with the control, or goes on after
\* one more iteration unless that is one too many.
AfterBody(run, n, again) ==
  CASE run.c.k = "exit" -> Goes(run.rt, Continue)
    [] run.c.k \in {"return", "jump"} -> run
    [] n + 1 > MaxIterations -> Goes(Said(run.rt, "limit"), Continue)
    [] OTHER -> again

\* FOR: the bounds are computed once; the control is stored as it is, and the
\* step is added before the limit is looked at.
ForFrom(rt, s, n, end, step, done) ==
  LET run == RunBlock(Put(rt, <<s.control>>, Num(n)), s.body) IN
  IF (step > 0 /\ n > end) \/ (step < 0 /\ n < end) THEN Goes(rt, Continue)
  ELSE AfterBody(run, done, ForFrom(run.rt, s, WrappedS(n + step, WideBits), end, step, done + 1))

WhileFrom(rt, s, done) ==
  LET c   == Eval(rt, s.c)
      run == RunBlock(c.rt, s.body)
  IN  IF ~IsTrue(c.v) THEN Goes(c.rt, Continue)
      ELSE AfterBody(run, done, WhileFrom(run.rt, s, done + 1))

RepeatFrom(rt, s, done) ==
  LET run == RunBlock(rt, s.body)
      c   == Eval(run.rt, s.c)
  IN  IF run.c.k # "continue" THEN AfterBody(run, done, run)
      ELSE IF IsTrue(c.v) THEN Goes(c.rt, Continue)
      ELSE AfterBody(Goes(c.rt, Continue), done, RepeatFrom(c.rt, s, done + 1))

Executed(rt, s) ==
  LET x    == Eval(rt, s.e)
      sel  == Eval(rt, s.sel)
      hit  == IF sel.v = None THEN sel ELSE FirstCase(sel.rt, s.cases, sel.v)
      from == Eval(rt, s.from)
      to   == Eval(from.rt, s.to)
      by   == IF s.by = None THEN Gives(to.rt, Num(1)) ELSE Eval(to.rt, s.by)
      step == NumberOr(by.v, 1)
  IN  CASE s.k = "assign" -> Goes(IF x.v = None THEN x.rt ELSE AssignTo(x.rt, s.to, x.v), Continue)
        [] s.k = "if"     -> IfFrom(rt, s.branches, s.els, 1)
        [] s.k = "case"   -> RunBlock(hit.rt, IF hit.v = None THEN s.els ELSE s.cases[hit.v].body)
        [] s.k = "for"    ->
             IF step = 0 THEN Goes(Said(by.rt, "step"), Continue)
             ELSE ForFrom(by.rt, s, NumberOr(from.v, 0), NumberOr(to.v, 0), step, 0)
        [] s.k = "while"  -> WhileFrom(rt, s, 0)
        [] s.k = "repeat" -> RepeatFrom(rt, s, 0)
        [] s.k = "il"     -> Instruction(rt, s.op, s.e)
        [] s.k = "label"  -> Goes(rt, Continue)
        [] s.k = "fb"     -> Goes(CallBlock(rt, s.inst, s.args), Continue)
        [] s.k \in {"exit", "return"} -> Goes(rt, [k |-> s.k, label |-> None])

\* execute_block: the body of a branch or of a loop
BlockRun(rt, body) ==
  FoldLeft(LAMBDA acc, s : IF acc.c.k = "continue" THEN Execute(acc.rt, s) ELSE acc,
           Goes(rt, Continue), body)

\* execute_statement_list: a body of a program, a function or a function block.
\* Only here a jump finds its label, wherever it was taken.
LabelAt(body, l) == {k \in DOMAIN body : body[k].k = "label" /\ body[k].l = l}
ListRun(rt, body, at, done) ==
  LET run == Execute(rt, body[at])
      to  == LabelAt(body, run.c.label)
  IN  CASE at > Len(body) -> Goes(rt, Continue)
        [] run.c.k \in {"exit", "return"} \/ (run.c.k = "jump" /\ to = {}) -> run
        [] done + 1 > MaxIterations -> Goes(Said(run.rt, "limit"), Continue)
        [] OTHER -> RunList(run.rt, body,
                            IF run.c.k = "jump" THEN CHOOSE k \in to : \A j \in to : j <= k ELSE at + 1,
                            done + 1)

Do(rt, what) ==
  CASE what.do = "evaluate" -> Evaluated(rt, what.e)
    [] what.do = "execute"  -> Executed(rt, what.s)
    [] what.do = "assign"   -> Assigned(rt, what.to, what.x)
    [] what.do = "block"    -> BlockRun(rt, what.body)
    [] what.do = "list"     -> ListRun(rt, what.body, what.at, what.done)

\* One cycle of a program body: the VAR_TEMPs are reset, the list is executed.
Cycle(rt, vars, body) ==
  LET reset == FoldLeft(LAMBDA acc, var : Declare(acc, var, FALSE), rt,
                        SelectSeq(vars, LAMBDA var : var.temp))
  IN  Ended(RunList(reset, body, 1, 0))
=============================================================================
