-------------------------- MODULE ConfigurationRunner --------------------------
(***************************************************************************)
(* Running a configuration in crates/iec_runtime: the shared state of the  *)
(* configuration and of its resources, the instances in the order they are *)
(* scheduled, and the access paths and output bindings between them.       *)
(* (TaskScheduler has the times at which tasks are due; here the values    *)
(* are told apart.)                                                        *)
(*                                                                         *)
(* A world is [conf, res, direct, progs, diags]: a runtime of the          *)
(* interpreter for the variables of the configuration and, by name, one    *)
(* for those of each resource, the values at the locations, the instances  *)
(*   [resource, name, inst, task, vars, body, rt, previous]                *)
(* and the diagnostics that end the run.  An operator that looks for a     *)
(* target gives [w, done], one that reads gives [w, v].                    *)
(***************************************************************************)
EXTENDS ConfigurationCheck, Interpreter

CONSTANTS
  CycleTime    \* options.cycle_time_ms

(***************************************************************************)
(* Initial values                                                          *)
(***************************************************************************)
RECURSIVE LiteralValue(_), GlobalInitial(_, _)
\* literal_standard_call_args: a gap, an unknown name or an output and there are none.
LiteralArgs(f, args) ==
  LET named == {k \in DOMAIN args : args[k].name # None}
      Place(k) == IF k \in named THEN InputIndex(f, args[k].name) ELSE Cardinality((1..k - 1) \ named)
      Last_(ks) == Max(IF ks \cap named # {} THEN ks \cap named ELSE ks)
      InPlaces(xs, place) ==
        IF \/ \E k \in DOMAIN args : args[k].output
           \/ None \in Range(xs) \/ None \in Range(place) \/ Range(place) # 0..Cardinality(Range(place)) - 1 THEN None
        ELSE [n \in 1..Cardinality(Range(place)) |-> xs[Last_({k \in DOMAIN args : place[k] = n - 1})]]
  IN  InPlaces([k \in DOMAIN args |-> LiteralValue(args[k].e)], [k \in DOMAIN args |-> Place(k)])

\* expr_literal_value
LiteralValue(e) ==
  LET Result(xs) == IF xs = None THEN None ELSE Std(e.f, xs) IN
  CASE e.k = "lit" -> e.x
    [] e.k = "call" /\ IsStandard(e.f) -> Result(LiteralArgs(e.f, e.args))
    [] OTHER -> None

\* A mutant: a field starts with the default of its type.
GlobalZero(type, init) == Default(type)
\* global_initial_value_for_spec, with default_value_for_type: an initial value that is
\* no literal, and the bounds of a subrange, are not looked at.
GlobalInitial(type, init) ==
  LET Of(field) == GlobalInitial(field.type, field.init)
      Otherwise(x, spec) == IF x # None THEN x ELSE IF spec.kind = "elementary" THEN Default(type) ELSE Num(0)
      As_(spec) ==
        CASE spec.kind = "array"  -> Array([k \in 1..spec.high - spec.low + 1 |-> GlobalInitial(spec.of, None)])
          [] spec.kind = "struct" -> Struct([name \in FieldNames(type) |-> Of(FieldNamed(type, name))])
          [] spec.kind = "enum" /\ init # None /\ init.k = "var" /\ init.path[1] \in EnumNames ->
               Num(Ordinal(init.path[1]))
          [] OTHER -> Otherwise(IF init = None THEN None ELSE LiteralValue(init), spec)
  IN  As_(Resolved(type))

\* GlobalState::from_blocks
StateFrom(vars) ==
  LET types == TypesOf(vars) IN
  [Empty(0) EXCEPT !.types = types,
                   !.env = [path \in {<<name>> : name \in DOMAIN types} |->
                              GlobalInitial(types[path[1]], FindNamed(vars, path[1]).init)]]

\* apply_program_instance_args
BindArgs(rt, args) ==
  LET Bound(x, name) == IF x.v = None THEN Said(x.rt, "input") ELSE AssignTo(x.rt, Var(name), x.v) IN
  FoldLeft(LAMBDA acc, arg : IF arg.output THEN acc ELSE Bound(Eval(acc, arg.e), arg.name), rt, args)

\* task_interval_ms and task_priority.  None: the task is due on its event only.
Interval(task) ==
  CASE task = None -> Larger(CycleTime, 1)
    [] task # None /\ task.interval # None /\ Milliseconds(task.interval) -> Larger(task.interval.x.v, 1)
    [] OTHER -> IF task.single = None THEN Larger(CycleTime, 1) ELSE None
LowestPriority == Pow2(WideBits)
Priority(task) ==
  IF task # None /\ task.priority # None /\ task.priority.k = "lit" /\ task.priority.x.t = "int"
     /\ task.priority.x.v >= 0
  THEN task.priority.x.v ELSE LowestPriority

Instance(source, r, inst) ==
  LET program == ProgramTypes[inst.program] IN
  [resource |-> r.name, name |-> inst.name, inst |-> inst, task |-> FindNamed(r.tasks, inst.task),
   vars |-> program.vars, body |-> program.body, previous |-> FALSE,
   rt |-> BindArgs(Initialize(Empty(0), GlobalsOf(source) \o program.vars, FALSE), inst.args)]

\* run_configuration_with_runtime_services, up to the first cycle
Comes(p, q) ==
  \/ Priority(p.task) < Priority(q.task)
  \/ Priority(p.task) = Priority(q.task) /\ p.inst.rank < q.inst.rank
World(c, all) ==
  LET order == SortSeq([k \in DOMAIN all |-> k],
                       LAMBDA j, k : Comes(all[j], all[k]) \/ (~Comes(all[k], all[j]) /\ j < k))
  IN  [conf   |-> StateFrom(c.vars),
       res    |-> [name \in Range(NamesOf(c.resources)) |-> StateFrom(FindNamed(c.resources, name).vars)],
       direct |-> <<>>,
       progs  |-> [k \in DOMAIN order |-> all[order[k]]],
       diags  |-> UNION {all[k].rt.diags : k \in DOMAIN all}]
Started(source) ==
  World(source[1],
        FlattenSeq([k \in DOMAIN source[1].resources |->
                      [j \in DOMAIN source[1].resources[k].instances |->
                         Instance(source, source[1].resources[k], source[1].resources[k].instances[j])]]))

(***************************************************************************)
(* Targets                                                                 *)
(***************************************************************************)
Tried(w, done) == [w |-> w, done |-> done]
Ends(w, kind) == [w EXCEPT !.diags = @ \cup {kind}]
ProgramAt(w, r, name) ==
  LET hits == {k \in DOMAIN w.progs : w.progs[k].resource = r /\ w.progs[k].name = name}
  IN  IF hits = {} THEN 0 ELSE Min(hits)

RECURSIVE ValueMatches(_, _)
\* runtime_value_matches_spec: a BOOL is a number of a subrange
ValueMatches(x, type) ==
  LET spec == Resolved(type) IN
  CASE spec.kind = "array"    -> /\ x.t = "array" /\ Len(x.elements) = spec.high - spec.low + 1
                                 /\ \A k \in DOMAIN x.elements : ValueMatches(x.elements[k], spec.of)
    [] spec.kind = "struct"   -> x.t = "struct" /\ \A f \in Range(spec.fields) :
                                   f.name \in DOMAIN x.fields /\ ValueMatches(x.fields[f.name], f.type)
    [] spec.kind = "subrange" -> HasNumber(x) /\ x.v \in spec.low..spec.high
    [] spec.kind = "enum"     -> x.t = "int"
    [] spec.kind = "block"    -> TRUE
    [] OTHER -> x.t = (CASE spec.name = "BOOL" -> "bool" [] spec.name = "TIME" -> "time" [] OTHER -> "int")

\* GlobalState::access_value and assign: a variable or a field of a structure; None: no such place
StateValue(st, path) ==
  IF path[1] \notin DOMAIN st.types \/ TypeAt(st.types[path[1]], Tail(path)) = None THEN None
  ELSE ValueAt(st.env[<<path[1]>>], Tail(path))

\* A state that takes x at var, or not: [st, done].  A path is stored as it is; a subscript
\* is evaluated, and its value stored, as an assignment of the state would.
StateStore(st, var, x) ==
  LET root == var.path[1] IN
  IF StateValue(st, var.path) = None THEN [st |-> st, done |-> FALSE]
  ELSE [st   |-> IF var.k = "elem" THEN AssignTo(st, var, x)
                 ELSE Put(st, <<root>>, ValueWith(st.env[<<root>>], Tail(var.path), x)),
        done |-> TRUE]
\* The diagnostics of a state end the run.
WithState(w, name, st) ==
  LET quiet == [st EXCEPT !.diags = {}] IN
  IF name = None THEN [w EXCEPT !.conf = quiet, !.diags = @ \cup st.diags]
  ELSE [w EXCEPT !.res[name] = quiet, !.diags = @ \cup st.diags]

Inside(var) == [var EXCEPT !.path = Tail(@)]

\* assign_access_target: a variable of an instance.  A value that does not match the type is
\* refused, if the type can be told.
InstanceStore(w, k, var, x) ==
  LET rt   == w.progs[k].rt
      type == IF var.path[1] \in DOMAIN rt.types THEN TypeAt(rt.types[var.path[1]], Tail(var.path)) ELSE None
      With(to) == [w EXCEPT !.progs[k].rt = to]
  IN  IF var.k = "var" /\ type # None /\ ~ValueMatches(x, type) THEN Tried(With(Said(rt, "mismatch")), FALSE)
      ELSE Tried(With(AssignTo(rt, var, x)), TRUE)

\* assign_resource_access_target, assign_resource_output_variable_target: an instance,
\* when the resource itself has no such place
InResource(w, r, var, x) ==
  LET k == ProgramAt(w, r, var.path[1]) IN
  IF k = 0 THEN Tried(w, FALSE)
  ELSE IF Len(var.path) > 1 THEN InstanceStore(w, k, Inside(var), x)
  ELSE Tried(IF var.k = "elem" THEN w ELSE [w EXCEPT !.progs[k].rt = Said(@, "path")], FALSE)

\* What a name may stand for, in the order it is tried: [in, path], in a resource or, with
\* in = None, in the configuration
Place(in, path) == [in |-> in, path |-> path]
Outward(w, path) == <<Place(None, path)>> \o (IF path[1] \in DOMAIN w.res THEN <<Place(path[1], Tail(path))>> ELSE <<>>)
InOwn(r, path) == IF r = None THEN <<>> ELSE <<Place(r, path)>>

StoreIn(w, place, var, x) ==
  LET Kept_(state) == IF state.done THEN Tried(WithState(w, place.in, state.st), TRUE)
                      ELSE IF place.in = None THEN Tried(w, FALSE) ELSE InResource(w, place.in, var, x)
  IN  IF place.path = <<>> THEN Tried(w, FALSE)
      ELSE Kept_(StateStore(IF place.in = None THEN w.conf ELSE w.res[place.in], var, x))

\* assign_configuration_access_target, assign_configuration_output_variable_target: what is
\* called r in the resource r comes before it.
TargetStore(w, r, var, x) ==
  LET places == (IF r = var.path[1] THEN <<Place(r, Tail(var.path))>> ELSE <<>>)
                  \o InOwn(r, var.path) \o Outward(w, var.path)
      Result(tried) == IF tried.done THEN tried.w ELSE Ends(tried.w, "target")
  IN  IF var.path[1] \in Locations THEN [w EXCEPT !.direct = (var.path :> x) @@ @]
      ELSE Result(FoldLeft(LAMBDA acc, place :
                             IF acc.done THEN acc ELSE StoreIn(acc.w, place, [var EXCEPT !.path = place.path], x),
                           Tried(w, FALSE), places))

\* resource_access_value, and the value of a variable of the configuration; a variable an
\* instance does not have is reported to it.
InstanceRead(w, k, path) ==
  LET Heard(y) == [w |-> [w EXCEPT !.progs[k].rt = y.rt], v |-> y.v] IN
  IF k = 0 \/ Len(path) = 1 THEN [w |-> w, v |-> None]
  ELSE Heard(Eval(w.progs[k].rt, [k |-> "var", path |-> Tail(path)]))
ReadIn(w, place) ==
  LET x == StateValue(IF place.in = None THEN w.conf ELSE w.res[place.in], place.path) IN
  IF place.path = <<>> THEN [w |-> w, v |-> None]
  ELSE IF x # None \/ place.in = None THEN [w |-> w, v |-> x]
  ELSE InstanceRead(w, ProgramAt(w, place.in, place.path[1]), place.path)

\* configuration_access_value
TargetRead(w, r, path) ==
  LET places == IF r = path[1] THEN <<Place(r, Tail(path))>> ELSE InOwn(r, path) \o Outward(w, path) IN
  IF path[1] \in Locations THEN [w |-> w, v |-> IF path \in DOMAIN w.direct THEN w.direct[path] ELSE Num(0)]
  ELSE FoldLeft(LAMBDA acc, place : IF acc.v # None THEN acc ELSE ReadIn(acc.w, place), [w |-> w, v |-> None], places)

(***************************************************************************)
(* Access paths                                                            *)
(***************************************************************************)
\* configuration_access_bindings: [resource, a], those of the configuration first
Bindings(c) ==
  LET Of(r, access) == [k \in DOMAIN access |-> [resource |-> r, a |-> access[k]]]
  IN  Of(None, c.access) \o FlattenSeq([k \in DOMAIN c.resources |->
                                          Of(c.resources[k].name, c.resources[k].access)])
Qualified(b) == IF b.resource = None THEN <<b.a.name>> ELSE <<b.resource, b.a.name>>

\* The bindings a written name may mean: by the name alone, or with its resource
Meant(c, name) == SelectSeq(Bindings(c), LAMBDA b : name \in {Qualified(b), <<b.a.name>>})

\* apply_configuration_access_writes, for one write
Written(w, c, name, x) ==
  LET hits == Meant(c, name)
      b    == hits[1]
  IN  CASE hits = <<>> -> Ends(w, "unknown")
        [] Len(hits) > 1 /\ Qualified(b) # name -> Ends(w, "ambiguous")
        [] hits # <<>> /\ ~b.a.writable -> Ends(w, "readonly")
        [] OTHER -> IF ValueMatches(x, b.a.type)
                    THEN TargetStore(w, b.resource, [k |-> "var", path |-> b.a.path], x)
                    ELSE Ends(w, "type")

\* configuration_access_snapshot
Snapshot(w, c) == FoldLeft(LAMBDA acc, b : TargetRead(acc, b.resource, b.a.path).w, w, Bindings(c))

(***************************************************************************)
(* The turn of an instance                                                 *)
(***************************************************************************)
\* A mutant: an event is looked for among the variables of the configuration.
ConfigurationEnvironment(w, r) == w.conf
\* task_event_environment
EventEnvironment(w, r) ==
  [w.conf EXCEPT !.env = w.res[r].env @@ @, !.types = w.res[r].types @@ @]

\* scheduled_task_single_due: [rt, v]
SingleDue(w, p) ==
  LET Seen(now, told) ==
        IF now.v # None /\ now.v.t # "bool" THEN Gives(Said(told, "single"), FALSE)
        ELSE Gives(told, now.v # None /\ now.v.v = 1)
      Heard(now) == Seen(now, [p.rt EXCEPT !.diags = @ \cup now.rt.diags])
  IN  IF p.task = None \/ p.task.single = None THEN Gives(p.rt, FALSE)
      ELSE Heard(Eval(EventEnvironment(w, p.resource), p.task.single))

OutputsOf(inst) == SelectSeq(inst.args, LAMBDA arg : arg.output)

\* sync_direct_state, the cycle, export_direct_state and the reading of the outputs: [rt, v]
RunOnce(w, p, rt) ==
  LET Add(acc, y) == Gives(y.rt, Append(acc.v, y.v))
      Read(ran) == IF ran.diags # {} THEN Gives(ran, <<>>)
                   ELSE FoldLeft(LAMBDA acc, arg : Add(acc, Eval(acc.rt, Var(arg.name))),
                                 Gives(ran, <<>>), OutputsOf(p.inst))
  IN  Read(Cycle([rt EXCEPT !.env = w.direct @@ @], p.vars, p.body))
Exported(direct, rt) == [path \in {q \in DOMAIN rt.env : q[1] \in Locations} |-> rt.env[path]] @@ direct

\* apply_program_instance_output_writes
Outputs(w, p, xs) ==
  LET outs == OutputsOf(p.inst) IN
  FoldLeft(LAMBDA acc, k : TargetStore(acc, p.resource, outs[k].var, xs[k]), w, [k \in DOMAIN outs |-> k])

\* The diagnostics of an instance end the run before anything of its turn is seen.
TurnOf(w, k, elapsed) ==
  LET p == w.progs[k]
      Due(event) == \/ Interval(p.task) # None /\ elapsed % Interval(p.task) = 0
                    \/ event.v /\ ~p.previous
      Turned(rt, event) == [w EXCEPT !.progs[k].rt = rt, !.progs[k].previous = event.v, !.diags = rt.diags]
      Finish(run, event) ==
        IF run.rt.diags # {} THEN Turned(run.rt, event)
        ELSE Outputs([Turned(run.rt, event) EXCEPT !.direct = Exported(w.direct, run.rt)], p, run.v)
      After(event) == IF event.rt.diags # {} \/ ~Due(event) THEN Turned(event.rt, event)
                      ELSE Finish(RunOnce(w, p, event.rt), event)
  IN  After(SingleDue(w, p))
====================================================================================
