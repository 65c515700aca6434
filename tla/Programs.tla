------------------------------- MODULE Programs -------------------------------
(***************************************************************************)
(* A program from the checker to both of its runs: what ProgramCheck       *)
(* accepts is scanned by the Interpreter and by the C of EmittedC, with    *)
(* the same inputs, scan after scan, and restarted.                        *)
(***************************************************************************)
EXTENDS EmittedC

CONSTANTS
  Sources,      \* the programs written: [vars, body]
  Inputs,       \* the variables the environment sets before a scan
  InputValues,  \* what it sets them to
  Fuel,         \* how long the C may run in a scan
  MaxScans,     \* scans after a start
  MaxRestarts

VARIABLES
  program,   \* the program that runs
  rt,        \* its runtime in the interpreter
  m,         \* the state of its C
  scans, restarts

vars == <<program, rt, m, scans, restarts>>

\* Only what the checker accepts runs.
Accepted(sources) == {p \in sources : ProjectFits /\ ProgramFits(<<>>, p.vars, p.body)}
ASSUME SourcesAssumption == Accepted(Sources) = Sources

Nothing(bad) == [env |-> <<>>, acc |-> C("i64", 0), bad |-> bad, fuel |-> Fuel]

Init ==
  /\ program \in Sources
  /\ rt = Initialize(Empty(0), program.vars, FALSE)
  /\ m = CInitialize(Nothing({}), program.vars)
  /\ scans = 0 /\ restarts = 0

\* sync_inputs; an input the program does not declare is nothing to it.
Given(env, xs) == [path \in DOMAIN env |-> IF path[1] \in Inputs THEN xs[path[1]] ELSE env[path]]

\* One cycle of run_program, which ends with the first diagnostic, and the scan function
Scan ==
  /\ scans < MaxScans /\ rt.diags = {}
  /\ scans' = scans + 1
  /\ \E xs \in [Inputs -> InputValues] :
       /\ rt' = Cycle([rt EXCEPT !.env = Given(@, xs)], program.vars, program.body)
       /\ m'  = CCycle([m EXCEPT !.env = Given(@, xs)], program.vars, program.body, Fuel)
  /\ UNCHANGED <<program, restarts>>

\* Runtime::initialize, and the init or the warm_restart function: a warm restart keeps
\* the RETAIN variables.
Restart(warm) ==
  /\ restarts < MaxRestarts /\ scans > 0 /\ rt.diags = {}
  /\ rt' = Initialize(rt, program.vars, warm)
  /\ m'  = CInitialize(IF warm THEN m ELSE Nothing(m.bad),
                        SelectSeq(program.vars, LAMBDA var : ~(warm /\ var.retain)))
  /\ scans' = 0 /\ restarts' = restarts + 1
  /\ UNCHANGED program

Next == Scan \/ \E warm \in BOOLEAN : Restart(warm)
Spec == Init /\ [][Next]_vars

-----------------------------------------------------------------------------
(***************************************************************************)
(* Where the two runs are known to differ, or the interpreter to leave the *)
(* type of a variable, without a word; the README tells each one.          *)
(***************************************************************************)
RECURSIVE PartsOf(_), StatementsOf(_)
\* An expression and the ones inside it; the statements of a body and of those inside it
PartsOf(e) ==
  {e} \cup CASE e.k = "un"   -> PartsOf(e.e)
             [] e.k = "bin"  -> PartsOf(e.l) \cup PartsOf(e.r)
             [] e.k = "call" -> UNION {PartsOf(a.e) : a \in {b \in Range(e.args) : b.e # None}}
             [] e.k = "elem" -> PartsOf(e.at)
             [] OTHER        -> {}
StatementsOf(body) == UNION {{s} \cup UNION {StatementsOf(b) : b \in BodiesOf(s)} : s \in Range(body)}

HasType(types, e, tags) == TypeOf(types, e) \in tags
\* Times are compared by the C alone; signed and bit strings are compared as unsigned by it.
MixedComparison(types, e) ==
  LET ins == IF e.k = "bin" THEN {e.l, e.r} ELSE {a.e : a \in Range(InputsOf(e.args))} IN
  /\ \/ e.k = "bin" /\ e.op \in {"=", "<>", "<", "<=", ">", ">="}
     \/ e.k = "call" /\ e.f[1] \in Chained
  /\ \/ \E x \in ins : HasType(types, x, {"time"})
     \/ \E x, y \in ins : HasType(types, x, {"integer"}) /\ HasType(types, y, {"bits"})
\* The C complements what it does not take for a BOOL.
UntypedNegation(types, e) ==
  /\ e.k = "un" /\ e.op = "NOT" /\ HasType(types, e.e, {"bool"})
  /\ ~IsBool([types |-> types], e.e)
\* A call that EN keeps from being made gives the number 0 for AND, SEL, ...
ControlledCall(e) == e.k = "call" /\ EnOf(e.args) # None /\ DisabledValue(e.f) = Num(0)
\* An instance taken for a value is accepted; it is the number 0, and the C does not compile.
InstanceValue(types, e) == e.k = "var" /\ HasType(types, e, {"unknown"})
\* Three arguments compared inside a comparison
NakedChain(e) == e.k = "bin" /\ Len(ChainOf(e.l) \o ChainOf(e.r)) > 2
\* The C leaves the control of a FOR one step further than the interpreter, which stores
\* it without a look at its range, and computes the limit again for every iteration.
Controls(body) == {s.control : s \in {x \in StatementsOf(body) : x.k = "for"}}
ReadsOf(s) == {e.path[1] : e \in {x \in UNION {PartsOf(e) : e \in ExpressionsOf(s)} : IsVariable(x)}}
\* It never leaves a loop whose limit is less than a step away from the end of the type.
Overruns(types, s) ==
  /\ s.k = "for"
  /\ ~Holds(Num(Const(s.to, TRUE) + (IF s.by = None THEN 1 ELSE Const(s.by, TRUE))), types[s.control])
LooseFor(body, s) ==
  /\ s.k = "for"
  /\ \/ \E e \in {s.to, s.by} \ {None} : Const(e, TRUE) = None
     \/ \E other \in StatementsOf(body) \ ({s} \cup StatementsOf(s.body)) : s.control \in ReadsOf(other)
\* The accumulator of the interpreter lives on and keeps any type; that of the C is a whole
\* number that starts at 0, and its logic instructions are those of BOOLs.
LooseList(types, body) ==
  LET il == {k \in DOMAIN body : body[k].k = "il"} IN
  /\ il # {}
  /\ \/ body[CHOOSE k \in il : \A j \in il : k <= j].op \notin {"LD", "LDN", "JMP"}
     \/ \E k \in il : body[k].e # None /\ HasType(types, body[k].e, {"time"})
     \/ \E j, k \in il : body[j].op \in DOMAIN IlLogic /\ HasType(types, body[k].e, {"integer", "bits"})
\* The C forgets the edges of an instance inside an instance.
NestedEdge(types, s) ==
  /\ s.k = "fb"
  /\ \E inner \in StatementsOf(FunctionBlocks[types[s.inst]].body) :
       inner.k = "fb" /\ \E a \in Range(InputsOf(inner.args)) :
                           FieldOf(FieldOf(types[s.inst], inner.inst).type, a.name).edge # None

\* The operand of a CAL needs not be an instance.
LooseCall(types, body) ==
  \E s \in StatementsOf(body) :
    /\ s.k = "il" /\ s.op \in {"CAL", "CALC", "CALCN"}
    /\ types[IF s.e.k = "call" THEN s.e.f[1] ELSE s.e.path[1]] \notin DOMAIN FunctionBlocks

KnownDifference(types, body) ==
  \/ LooseList(types, body)
  \/ \E s \in StatementsOf(body) :
       \/ LooseFor(body, s) \/ Overruns(types, s) \/ NestedEdge(types, s)
       \/ \E e \in UNION {PartsOf(x) : x \in ExpressionsOf(s)} :
            \/ MixedComparison(types, e) \/ UntypedNegation(types, e) \/ ControlledCall(e)
            \/ NakedChain(e) \/ InstanceValue(types, e)
Regular == ~KnownDifference(Declared(program.vars), program.body)

-----------------------------------------------------------------------------
(* An operand that cannot be found, a jump without its label, an EXIT      *)
(* outside a loop, an operand that is no variable, a construct the         *)
(* interpreter does not know: what the checker is there to exclude never   *)
(* happens in a program it accepts, save for the operand of a CAL          *)
(* (runtime.rs:1462-1528, 564-601, 1988-2011).                             *)
WentWrong == {"storage", "structure", "label", "operand", "inout", "unsupported", "jump", "exit"}
AcceptedProgramsDoNotGoWrong ==
  rt.diags \cap WentWrong # {} => LooseCall(Declared(program.vars), program.body)

(* What the checker folds to a constant is what the interpreter computes   *)
(* for it, whenever that reports nothing and no EN is in it                *)
(* (support.rs:1175-1305 and runtime.rs:1000-1106).                        *)
ConstantsFoldAsTheyRun ==
  scans = 0 =>
    \A s \in Range(program.body) : \A e \in UNION {PartsOf(x) : x \in ExpressionsOf(s)} :
      LET controlled == \E part \in PartsOf(e) : part.k = "call" /\ EnOf(part.args) # None
          Same(x, n) == n # None /\ ~controlled /\ HasNumber(x.v) /\ x.rt.diags = rt.diags => x.v.v = n
      IN  Same(Eval(rt, e), Const(e, TRUE))

Unreported == rt.diags = {}
Besides(env, names) == [place \in {p \in DOMAIN env : p[1] \notin names} |-> env[place]]
(* What neither run complains about leaves the same values behind, but for *)
(* the controls of loops (runtime.rs:603-998 and iec_c/src/expressions.rs, *)
(* functions.rs, fb.rs).                                                   *)
ProgramsAgree ==
  LET Left(env) == Besides(env, Controls(program.body)) IN
  Unreported /\ m.bad = {} /\ Left(rt.env) # Left(m.env) => ~Regular

(* A loop, a jump or a call that goes on for ever in the C is one the      *)
(* interpreter cut off, and it says so (runtime.rs:591, 915-990), save for *)
(* a FOR that runs up to the end of its type.                              *)
EndlessIsReported ==
  "endless" \in m.bad /\ Unreported =>
    \E s \in StatementsOf(program.body) : LooseFor(program.body, s) \/ Overruns(Declared(program.vars), s)

Tags == [bool |-> {"bool"}, integer |-> {"int"}, bits |-> {"int"}, time |-> {"time"}, enum |-> {"int"},
         aggregate |-> {"array", "struct"}, unknown |-> {"bool", "int", "time", "array", "struct", "unit"}]
Of(x, type) == x = None \/ x.t \in Tags[type]
Typed(types) ==
  /\ \A s \in Range(program.body) : \A e \in ExpressionsOf(s) : Of(Eval(rt, e).v, TypeOf(types, e))
  /\ \A name \in DOMAIN types : rt.env[<<name>>].t \in Tags[Simple(types[name])]
(* A value has the type the checker gave the expression it is the value    *)
(* of, and a variable one of its own type (types.rs:126-207).              *)
TypesPredictValues ==
  \/ Typed(Declared(program.vars))
  \/ KnownDifference(Declared(program.vars), program.body)

(* Unless something was reported every variable but the control of a loop  *)
(* is within its range (runtime.rs:1738-1810).                             *)
RangesHold ==
  Unreported /\ (\E name \in DOMAIN rt.types \ Controls(program.body) : ~Holds(rt.env[<<name>>], rt.types[name])) => ~Regular

(* A variable declared CONSTANT keeps its value: "Writes to constant       *)
(* variables are diagnosed." (iec_profile/src/lib.rs:758)                  *)
ConstantsKeepTheirValues ==
  [][\A name \in ConstantsOf(program.vars) : rt'.env[<<name>>] = rt.env[<<name>>]]_vars

(* Both runs give a BOOL its negation: the C uses "logical NOT for BOOL"   *)
(* (iec_profile/src/lib.rs:766).                                           *)
NegationsAgree == Unreported /\ m.bad = {} => rt.env = m.env
=============================================================================
