# RoboC++ in TLA+

Models, model-checking runs and proofs for RoboC++, an IEC 61131-3 tool chain:
a front end for the five PLC languages, a deterministic interpreter, a
generator of C, a target runtime with a safety gate, and a web IDE with a
bridge to a target. The models follow the source; paths below are relative to
`src/crates/` unless they begin with `ide/` or `docs/`. `PROJECT.json` maps
every definition to the lines it stands for.

Contents: [1 the system](#1-the-system) · [2 modules](#2-modules) ·
[3 runs](#3-runs) · [4 proofs](#4-proofs) ·
[5 disagreements found](#5-disagreements-found) ·
[6 what is not modelled](#6-what-is-not-modelled) · [7 what is left](#7-what-is-left)

## 1 The system

How the parts meet:

```
 text, PLCopen XML -> iec_syntax / iec_plcopen -> iec_ir -> iec_semantics
                                                    |
                +-----------------------------------+------------------+
                v                                                      v
   iec_runtime (interpreter)  <-- traces compared -->        iec_c (generated C)
   scan of one program, SFC, blocks,                         scan function, hooks
   configuration runner                                                |
                ^                                                      v
   language service, WASM, CLI                    rbcpp_target: supervisor, gate,
                ^                                 watchdog, retain store, HALs
                |                                                      ^
   IDE (ide/web)  ---- HTTP ---->  rbcpp_target_bridge session --------+
```

### 1.1 Target supervisor (`rbcpp_target/src/lib.rs`)

* **State.** The safety inputs last set; the `SafetyGate` record (two stops,
  watchdog bit, fault latch, outputs enabled); `CycleWatchdog.last_pet`;
  `cycle_started_at`; the cycle count; the values of state targets and which of
  them are retained; the files of `RetainStore`; the outputs the HAL accepted.
* **Operations.** `set_safety_inputs`, `cold_start`/`warm_start`,
  `begin_cycle`, `write_access`, `end_cycle`, `mark_retained` and the `with_*`
  builders.
* **Interaction.** The integrator's scan loop calls the operations; the gate is
  asked at each write of an access path, and evaluated at scan boundaries
  only; the store is a directory of files shared with the next process.
* **Hard.** Time passes anywhere, also between the two watchdog reads of
  `end_cycle`; a failing save leaves `end_cycle` by `?` before the pet; a crash
  may cut a file short; two names may share a file.
* **Correct if** outputs move only under an enabled gate and a trip is left
  only by an acknowledged reset; a starved loop trips and stays off; reports
  agree with the gate; what a report called saved survives and comes back.

### 1.2 SFC engines (`iec_runtime/src/runtime.rs`, `iec_c/src/functions.rs`)

* **State.** One bit per step; per action a stored bit, an edge memory and an
  elapsed time.
* **Operations.** A scan decides and runs every action in order, then
  evaluates all transitions, sorts the enabled ones by priority and applies
  them, each consuming its steps.
* **Interaction.** The scan is part of a program's scan. The same chart is
  compiled to C, and the two traces are compared by the differential
  validation (`validation/differential/README.md`).
* **Hard.** Ten qualifiers share three fields; transitions conflict; the two
  engines are written independently; a body may `RETURN`.
* **Correct if** each branch keeps one active step, a scan fires like a net,
  qualifiers do what they say over whole histories, and the engines agree.

### 1.3 Configuration runner (`iec_runtime/src/lib.rs`, `configuration.rs`, `state.rs`)

* **State.** The elapsed time, configuration and resource globals, direct
  locations, and per program instance an environment of its own and the last
  sample of its `SINGLE` event.
* **Operations.** Per cycle: access-path writes; then one turn per instance in
  priority order: is it due, copy locations in, run the body, copy locations
  out, write the bound outputs.
* **Hard.** Events are sampled at each turn, while earlier turns change them;
  copies of shared places may be stale; intervals are tested by `%` at cycle
  boundaries.
* **Correct if** no periodic run is early or missed, one rise runs a task once,
  nobody reads a stale location, and priority orders the turns.

### 1.4 Standard function blocks (`runtime.rs`, `iec_c/src/fb.rs`)

* **State.** The fields of one instance: outputs, `ET`, `CV`, the last inputs.
* **Operations.** One call with inputs; a call counts as one cycle of time.
* **Hard.** Edge memories while a counter is held; presets that change between
  calls or are no whole number of cycles; two implementations, of which the
  interpreter evaluates each argument once and the printed C wherever its text
  stands, after fields that it may read have changed.
* **Correct if** delays, pulses and counts are exact and both back ends hold
  the same fields.

### 1.5 Generated scan and field buses (`iec_c/src/lib.rs`, `state.rs`; `rbcpp_target/src/lib.rs`)

* **State.** The fields of the state struct, the cycle count, the installed
  hooks; the process images of Modbus and EtherCAT, files and topics; the
  store of retained values.
* **Operations.** `init`, `set_target_hooks`, `warm_restart`, `load_retained`,
  `save_retained`, the access-path services, `scan`; read and write of a point.
* **Interaction.** The scan takes inputs and hands outputs out through hooks,
  one by one; the host binds them to the adapters; other masters write to the
  same bus.
* **Hard.** A point of EtherCAT is written by reading the bytes around it and
  writing them back; power may fail between any two hooks; each bus is
  implemented twice, in memory and over a transport.
* **Correct if** the field shows what the scan computed, bytes of others
  survive, both implementations agree, and a loaded program is what a warm
  restart leaves.

### 1.6 Bridge session and the IDE's connection (`rbcpp_target_bridge/src/session.rs`; `ide/web/src/app/App.tsx`, `features/target`)

* **State.** Bridge: mode, bindings, program and deploy hashes, run state, the
  simulated image, the files of the workspace. IDE: the connection shown, its
  copy in `localStorage`, the I/O snapshot.
* **Operations.** Connect, disconnect, deploy, control, read and write; the
  IDE's action handler, the restoring after a reload, the forcing of a value.
* **Interaction.** HTTP; the bridge serves one request at a time, the IDE has
  up to three handlers that wait for answers.
* **Hard.** A handler fails half-way; an answer is spread over a connection
  captured before the await; the page or the bridge is restarted in between.
* **Correct if** the session is always one thing or the other, an acknowledged
  deploy is whole, an acknowledged write is read back, and a wrong display has
  a cause.

### 1.7 Programs: checker, interpreter, generated C (`iec_semantics`, `iec_runtime`, `iec_stdlib`, `iec_c`)

* **State.** The variables by path, the IL accumulator, the diagnostics, the
  depth of calls; in the C the state struct.
* **Operations.** The check of a project; a cold or warm start; one scan.
* **Interaction.** What the checker accepts is run by the interpreter and by
  the generated C; their traces are compared.
* **Hard.** Four implementations of one language (checker, constant folder,
  interpreter, C printer, the last with three printers of its own) must agree
  on arguments, types, ranges, jumps and returns.
* **Correct if** nothing accepted goes wrong, both runs leave the same values,
  constants fold as they run, a run cut off says so, and types and ranges hold.

### 1.8 Values of a configuration (`iec_runtime/src/configuration.rs`, `state.rs`; `iec_semantics/src/configuration.rs`)

* **State.** The variables of the configuration, of each resource and of each
  program instance; the image of direct locations.
* **Operations.** Start, write through an access path, the turn of an instance.
* **Hard.** A target is searched by four pieces of code; names hide one another;
  initial values are computed twice.
* **Correct if** what the checker accepted is found, a write reaches the place
  the checker resolved, places hold values of their types, and globals start
  alike.

### 1.9 Parts that are not modelled

| Part | State | Why not |
| --- | --- | --- |
| Language service, WASM (`iec_language_service`) | an incremental cache | its correctness is that cross-document diagnostics follow dependency edges, which is a statement about the whole analysis |
| Editor, graph view, project storage (`ide/web`) | one document, its edit history | pure edits in one thread; layout |
| Communication blocks (`runtime.rs`, `fb.rs`) | none | a call is handed to a hook of the host and answered in the same call |
| Textual front end (`iec_syntax`) | none between calls | a pure function of a text; the models begin with its tree |
| PLCopen import and export (`iec_plcopen`) | none | a pure conversion of documents |
| Command line, build tasks, profile (`rbcpp_cli`, `xtask`, `iec_profile`) | none | arguments, files, a table |

## 2 Modules

| Module | Models |
| --- | --- |
| `SafetyGate` | `SafetyGate::update`, `check_output_write` as operators on records |
| `RetainStore` | `path_for`, `encode_typed_value`, `decode_typed_value`: which target is kept in which file, and what a value loses on the way |
| `TargetSupervisor` | the supervisor: extends the two above, one action per operation |
| `Interlock` | what a gate promises, without cycles and watchdogs: the abstract specification |
| `SfcActionControl` | the decision on one action, as the interpreter and as the generated C take it: pure operators |
| `SfcEngine` | one engine: scan phases, actions, transitions; the constant `Engine` selects the decision and what a `RETURN` does |
| `SfcScan` | one engine scanned for ever, with the history its properties are told by |
| `SfcNet` | the evolution a chart promises, as a net that fires once in a scan: the abstract specification of `SfcScan` |
| `SfcParity` | two `SfcEngine` instances with the same conditions in each scan |
| `TaskScheduler` | the configuration runner, its times |
| `StandardBlocks` | the ten blocks, in both back ends: pure operators |
| `BlockCalls` | one instance called for ever, in both back ends |
| `FieldBus` | the adapters of files, Modbus, EtherCAT and ROS 2, in memory and over a transport: pure operators |
| `GeneratedScan` | the C of a program with its hooks, bound to `FieldBus`, a second master and a store; loss of power |
| `BridgeSession` | the handlers of the bridge, each as an operator from a world to the set of its outcomes |
| `TargetConnection` | the IDE's handlers composed with `BridgeSession` |
| `Language` | values, types and trees of `iec_ir`; arithmetic in three widths |
| `StandardFunctions` | the standard functions as `iec_stdlib` computes them |
| `Interpreter` | expressions, statements, lists and calls as `iec_runtime` runs them |
| `ProgramCheck` | what `iec_semantics` rejects of types and bodies |
| `EmittedC` | what the C of `iec_c` computes for a body |
| `Programs` | a program from the checker to both of its runs |
| `ConfigurationCheck` | what `iec_semantics` rejects of a configuration |
| `ConfigurationRunner` | the values of a configuration, from start to turn |
| `Configurations` | a configuration from the checker to its run |
| `MC*` | the instances for TLC |
| `*Proofs` | the theorems |

How they extend one another, beyond the pairs the table names:

```
 SfcActionControl <- SfcEngine <- SfcScan <- SfcScanProofs;  SfcScan instantiates SfcNet
 FieldBus <- GeneratedScan <- GeneratedScanProofs
 FieldBus <- BridgeSession <- TargetConnection <- TargetConnectionProofs
 Language <- StandardFunctions <- Interpreter, ProgramCheck
 Interpreter, ProgramCheck <- EmittedC <- Programs
 ProgramCheck <- ConfigurationCheck;  + Interpreter <- ConfigurationRunner <- Configurations
```

**How state and actions correspond to the code.**

*TargetSupervisor.* Variables carry the names of the fields. Times are ages
(`petAge`, `cycleAge`) that stop one tick above the timeout: the code only
compares them with the timeout, so nothing is lost. `end_cycle` is four
actions, `EndCycle` (durations and first watchdog read), `EndCycleRefresh`
(gate, second read), `SaveRetained`/`SaveFails` per file, `EndCycleReturns`
(pet, count, report), because time and crashes fall between them; no other
operation is enabled meanwhile, since it borrows the supervisor mutably.
`SaveFails` and `Crash` leave the file either as it was or empty, the two things
`fs::write` can leave of a short text. `ColdStartFails` restores any subset.
Saves follow key order in the code and any order in the model. Refused writes
change nothing and are no steps. `evaluated`, `idleAge`, `restarted`, `acked`
and `clean` are history: no guard reads them.

*SfcEngine.* `BeginScan`, `RunAction` for each action in declaration order,
`EvaluateTransitions` (all conditions, before any is applied),
`ApplyTransition` for each candidate in sorted order, `EndScan`. Which
conditions are true and which bodies return is chosen anew in every scan:
variables of the program are abstracted to that choice. In the interpreter the
priorities sort a list (`runtime.rs:661`); `First` picks its head. The generated
C emits its transitions in the same order, with candidate and consumed flags.

*SfcNet.* `Scan` settles which conditions are true, `Fire` decides all conflicts
of one marking and changes it in a single step, `Abandon` ends a scan without
firing, which only generated charts with a returning body may do. Its marking is
`before` while `SfcScan` applies transitions one after the other, and `steps`
otherwise, so that every `ApplyTransition` is a stutter and `EndScan` is the
firing. Which conditions are true is a variable of the net and the same in both:
if the net chose them for itself, a wrong winner of a conflict would pass for
the only true transition. A step one transition enters and a later one leaves
(`Put`) has a trace of the order only where two tokens meet.

*SfcActionControl.* `Prepared` is what the engines share (reset, edge memory,
set). Afterwards the interpreter looks for the active timed input and takes
its branch (`InterpreterTimer`, `InterpreterRuns`, then SL), while the C runs
one `if` per qualifier (`Timed`, `Delayed`, `Latched`, `Limited`,
`StopTimer`). `Relatches` is the C condition `a || b && !stored` as C parses
it. Elapsed time stops at `Horizon`, which is above every duration.

*TaskScheduler.* `AccessWrites` begins a cycle, `Skip` and `Run` are the turn
of an instance, `EndCycle` advances time. A body assigns its locations, globals
and located variables any values, and its outputs have any values. `Fail` is
the early return on any diagnostic, which really ends the run; therefore the
runs switch deadlock detection off. Elapsed time is kept modulo a common
multiple of all intervals, which is all `%` can see.

*StandardBlocks.* Each block is written twice: as the interpreter computes it, a
function from fields and the values of the arguments (`Given`, evaluated once) to
fields, and as the printed C computes it, from fields and the texts of the
arguments, statement after statement. A text is a member of `Condition` or
`Amounts` in `BlockCalls`, and has a value for what it may read of the instance
(`Seen`), which are the outputs; `Holds` and `Amount` evaluate it on the fields as
they are where it stands, so PT is evaluated on the ET of before (`Elapse`) and on
the ET of after (`Due`), IN of TON and TOF a second time after Q was set, PV after
the count. `BlocksAgree` leaves out what then really differs: `Shown` the field
`_IN` of TON and TOF, and `settled` the instances one of whose calls had a PV or PT
that reads (`Reads`) what the call had changed (`Changed`) before the C evaluated
it again. Arguments have no effects.

*FieldBus.* An operation returns whether it was done and the image it left. A
byte has `ByteBits` bits, so that a register and a word fit into TLC's integers;
types are so many bytes wide, signed or not. Mapping files are sequences of
lines, bound line by line (`Loaded`), the later for a key replacing the earlier.

*GeneratedScan.* `fields` is the state struct leaf by leaf (a leaf is a scalar,
a field of a structure or block, or the edge memory of an input). `pc` says
where in a service the program is. A scan is `BeginScan`, `SyncInput` per entry
of the I/O table, `Body` (which gives temporaries their initial values, assigns
one of `Results` and may `RETURN` out of the scan), `SyncOutput` per entry and
`EndScan`. For a point of EtherCAT `SyncOutput` only reads the bytes around it
and `WriteBack` writes them. The rival master writes through a HAL of its own in
the same two steps, `RivalReads` and `RivalWritesBack`, and the steps of the two
interleave in every order.
`CallInit`, `SetTargetHooks`, `WarmRestart`, `CallLoad`, `CallSave` with
`SaveEntry` per variable and `WriteAccessPath` are the other services.
`PowerLoss` leaves `fields` as garbage until `init`; only the store survives.
`Locations` lists the direct locations in the order of their texts, which is the
order the code sorts them in. What lies at a location is a scalar.
`OutputsShowTheScan` is about points that are `Alone`: no other bound point and
no point of the other master shares a bit with them. A byte shared by the two
masters is another matter: if the rival reads it before a write back of the program
and writes it back after, the program's older bits are on the field again. The
history `work.overwritten` notes the bytes to which just that happened in a scan,
and the property holds for all others; without the exemption TLC refutes it.

*BridgeSession.* A world is `[session, disk, device]`, where
`session` carries the fields of `SessionState`. `Handled(c)` is the set of worlds
and answers a request can end with: each file operation and each exchange with
the device may fail, and the handler leaves what it had done so far. Partial
deploys are the sequence of writes in `deploy`, cut off anywhere.

*TargetConnection.* `calls` has one place per handler that may be waiting, and
one for a request whose page was reloaded (`orphan`). `Start*` is the handler
up to its first await; it keeps the connection it saw in `seen`. `Serve` is the
bridge's turn; `ActionAnswered`, `RestoreAnswered`, `ForceAnswered` are the
handlers from the await on, which patch the connection in `seen`, not the one
shown, and may go on to a follow-up request. `Reload` and `BridgeRestart` may
happen anywhere. `trace` is history: whether the display has been overtaken, the
last deploy that was acknowledged, and for every symbol the value whose write was
acknowledged (`written`). `ServedWrites` keeps an entry through everything but a
write that is tried at the same place (`SamePlace`: the file or the point of a
device, under whatever symbol), a reset of the simulator that holds it, and the
end of the session. A write of which the answer is lost counts as tried.

*Interpreter.* A runtime is `[env, types, acc, diags, depth]`. Expressions give
a runtime and a value (or none), statements a runtime and a control
(`continue`, `exit`, `return`, `jump`). `Initialize` is the start, warm or cold.
Function blocks run on the same `env` under the path of their instance.

*ProgramCheck.* One condition for each group of errors; what the code reports
as an error makes it false. `TypeOf` is the inference of `SimpleType`, `Const`
the folding of constants.

*EmittedC.* The C is not printed but evaluated as printed: an expression has a
value and one of the types `int`, `int64_t`, `uint64_t`, with the usual
conversions; overflow and division by zero are recorded in `bad`. `cx` says
which of the three printers is at work and which types it knows, because what is
printed for `NOT`, `AND` and comparisons depends on it.

*Programs.* `Scan` sets inputs, runs one cycle of the interpreter and one call
of the scan function; restarts are warm or cold, in both. *Configurations.*
`Write`, `Begin`, then one turn per instance in the order of the runner. In
both, the sources run are the ones the checker accepts; TLC verifies this when
it evaluates `SourcesAssumption`.

## 3 Runs

Every property of a passing run has a mutant of the code that violates it.

| Run | Question |
| --- | --- |
| `supervisor_gate` | all 16 combinations of safety inputs, ticks between any two steps: does the supervisor refine `Interlock` (`ImplementsInterlock`); do stops act from the next boundary (`StopBlocksFromNextBoundary`); do late boundaries trip (`StarvedBoundaryTrips`); does the report agree with the gate although the clock is read twice (`ReportedExpiryIsTripped`); is an overrun reported (`OverrunIsReported`); do the outputs end up off when cycles stop completing (`StarvedOutputsStayOff`) |
| `supervisor_retain` | failing saves and starts, crashes, two targets in one file, values that do not round-trip: does what a report called saved stay on disk (`AckedIsDurable`) and come back (`RestartRecoversLastReport`) |
| `sfc_interpreter` | on a chart with a choice by priority, a fork and a join: does each branch keep one token (`BranchKeepsOneToken`), does the scan refine `SfcNet` (`FiresAsANet`), are the qualifiers honoured (`QualifiersAreHonoured`); does a D action run again and again while its step stays active (`DelayedActionsRun`) |
| `sfc_parity_mixed` | do both engines agree on mixed edges, timers, sets and resets (`EnginesAgree`) |
| `scheduler_tasks` | `NoPeriodicRunIsMissed`, `PeriodicRunsKeepTheirRate`, `OneRunPerRise`, `LocationsAreShared`, `UrgentProgramsRunFirst` |
| `scheduler_external` | a statement of the documentation the runner does not keep (section 5) |
| `blocks` | all ten blocks, called with arguments that are constant or read the block's own outputs: do the back ends agree although one evaluates arguments again (`BlocksAgree`), are delays, pulses and counts exact (`DelaysKeepTime`, `PulsesHaveOneLength`, `CountersCountRises`) |
| `studio` | three requests in every order of sending, serving and answering, with failures, reloads and restarts: is the session one or the other (`SessionIsWhole`), an acknowledged deploy whole (`DeployIsWhole`), every acknowledged write read back until its place is written again (`AcknowledgedWriteIsReadBack`); has a wrong display a cause (`DisplayIsTrueOrOutdated`) |
| `target_scan` | with a rival that reads and writes back as the program does, and loss of power between any two hooks: does the field show the scan, but for bytes the rival wrote back out of date (`OutputsShowTheScan`), do bytes of others survive (`OtherBytesAreKept`), do the two implementations of each bus agree on every state of the bytes (`AdaptersAgree`), does a loaded program equal a warm restart (`LoadedLikeWarmRestart`) |
| `programs` | 2557 accepted programs: does one go wrong (`AcceptedProgramsDoNotGoWrong`), do both runs leave the same values (`ProgramsAgree`), is a constant folded to what it runs to (`ConstantsFoldAsTheyRun`), does a run cut off say so (`EndlessIsReported`), do types and ranges hold (`TypesPredictValues`, `RangesHold`) |
| `program_negations` | a statement of the profile the C does not keep (section 5) |
| `configurations` | 332 accepted sources: is everything found at run time (`AcceptedConfigurationsRun`), does a write reach its target and nothing else (`WritesReachTheirTarget`), do values match types (`PlacesMatchTheirTypes`), do globals start alike (`GlobalsStartAlike`) |

Four more configurations refute a statement and belong to no run; they document
section 5: `SfcParityShared.cfg` (`MCSfcParity`),
`SchedulerLocated.cfg` (`MCTaskScheduler`), `StudioMismatch.cfg`
(`MCTargetConnection`), `ProgramConstants.cfg` (`MCPrograms`).

**Bounds and why they suffice.**

* *Supervisor.* `MaxCycles` = 2 completed cycles: the cycle number guards
  nothing in the code, and two reports allow every order of a report, a failure,
  a crash, a start and a second report. `Timeout` = 1 tick gives ages below, at
  and above the limit. Three targets: one alone in its file, two sharing one.
  Texts: two different ones, one that loses its line end, the empty one. The
  gate run has no retained targets and the retain run no gate: their fields are
  disjoint and meet only where a failed save skips the pet, which
  `StarvedBoundaryTrips` and its theorem have: a cycle that does not complete is
  one that does not pet, whatever stopped it.
* *SFC.* `Cycle` = 1, durations up to 2, `Horizon` = 3 above them; every subset
  of transitions is true in every scan. One action per qualifier suffices,
  because actions share nothing; the parity chart adds actions with three
  associations.
* *Scheduler.* Three instances: in every cycle, on an event, on an event and an
  interval of 3 ms in cycles of 2 ms, hence due every 6 ms. The event is raised
  and lowered by access paths before all turns, by one program between the
  turns of the two that watch it, and by another after both. Values are
  Booleans: the code copies them and looks at none but the event.
* *Blocks.* Conditions are FALSE, TRUE and `NOT t.Q`; amounts are 0, 1 and 2½
  cycles, or one of two by Q, by ET or by CV, changing between calls. `Horizon`
  lies above the longest preset and `Limit` = 6 counts in either direction
  suffice to cross 0 and every preset.
* *Studio.* `MaxRequests` = 3: an answer of one handler arrives during a
  request of another, with a third in between. Three mappings: a file and a
  register, two symbols on one coil, the same file read as a number. Values
  below, within and above a register of two bits. About a million states.
* *Target scan.* Two scans, bytes of two bits, and one disturbance, either a
  write of the rival (reading and writing back at any two places, also of
  different scans) or a loss of power: each is harmful alone.
  `AdaptersAgree` quantifies over every state of the bytes.
* *Programs.* Widths of 4, 8 and 10 bits for those below, at and above a C
  `int`, an `f64` that holds 9 bits exactly: every boundary is crossed by
  literals in the programs. Sources: every operation on two leaves of any type
  assigned to a variable of any type, calls of the standard functions with
  named, missing and EN arguments, and bodies with loops, jumps, calls and
  lists. `MaxIterations` = 8 and `MaxDepth` = 3 are the interpreter's limits,
  small; `Fuel` = 24 lies above what any run that ends uses. Two scans and a
  restart, since state that lives on over one scan boundary lives on over all.
* *Configurations.* Two resources, three instances of two programs, names used
  twice; two writes, three cycles; a second configuration that is only
  declared, because its globals are visible to the checker.

**Deadlock** is switched off where a run ends by a bound of its model
(`MaxRequests`, `MaxScans`, `MaxCycles`) or by a diagnostic, as the code does.

**Fairness.** Two liveness properties are checked. `StarvedOutputsStayOff`
assumes that the clock ticks, that the integrator's scan loop goes on calling
`begin_cycle` (what a scan loop is; nothing else is assumed of it), and that a
started `end_cycle` comes to its return or its error: it is sequential code
without waiting. `DelayedActionsRun` assumes that the program is scanned for
ever. No fairness is assumed of operators, storage, crashes, conditions or
bodies.

Bounds matter for liveness: the supervisor stops completing cycles at
`MaxCycles`. `StarvedOutputsStayOff` is conditional on just that (no cycle
completes any more), so the bound makes its premise true and not its
conclusion.

**Conditions in the properties.** `ProgramsAgree`, `RangesHold` and others hold
but for the differences section 5 lists; each difference is an operator of its own
(`MixedComparison`, `UntypedNegation`, `LooseFor`, `OutOfReach`, ...), written
as narrowly as the difference is, and everything outside is covered.

## 4 Proofs

All proofs are checked by tlapm with Z3, Zenon and LS4. They hold for every
value of the constants that satisfies the named assumptions of the modules,
which are typings, `FileOf` being a function of the target, times being natural
and cycles positive, positions of instances being distinct, the hyper-period
being a multiple of the cycle and the intervals, charts being well-formed
as `check_sfc` demands, bindings having an encoding or an area, and typed values
being Booleans or integers. Of a generated program they are `BlocksAssumption`
(the variables have different names and those at locations are scalars),
`TypeAssumption` (initial values, and what a body assigns, are values of the
variable's type), `BusAssumption` (a line binds a point of one of the three
buses, with a bit below the width of a byte; the other master writes bits that
are there; the output bytes are bytes) and `NoneAssumption` (None is no
binding). Of the calls of blocks `ArgumentAssumption` says that arguments have
values of their types and that an amount depends on no more of the block's outputs
than it reads; evaluating them changes nothing. Nothing is assumed of powers of two: `PowerType` and `PowerSum` count
subsets. TLC evaluates each of them.

| Theorem | States | Argument |
| --- | --- | --- |
| `TypeCorrect` | `TypeOK` of the supervisor | inductive with `EndCycleOK`: what is left to save has a value and a store |
| `ReportedExpiryTrips`, `OverrunReported` | report properties | `SafetyInv` |
| `StopBlocks`, `StarvedTrips` | action properties | `SafetyInv`, then one step per action |
| `GateIsInterlock` | refinement of `Interlock` | every action maps to an action of the interlock or a stutter |
| `AckedDurable`, `RestartRecovers` | retained state | `StoreInv` |
| `DecisionsAgree` | the two decisions on one action are equal for ordinary inputs | at most one timer is active (`OneTimer`), all associations of a qualifier have one duration (`SameDuration`), then per qualifier |
| `OrdinaryChartsAgree` | `EnginesAgree` for every chart without SL, returns and differing durations | `Lockstep`: until a contention is diagnosed the two engines are in equal states |
| `ScanTypeCorrect`, `BranchesKeepOneToken`, `PriorityResolvesConflicts` | the engine's state, for both engines | `Evolution` |
| `ChartsFireAsANet` | refinement of `SfcNet`, for both engines | `NetInv`; `AfterOneMore` fires one more transition with those that precede it |
| `ScansHaveOneOutcome` | the transitions a scan has applied are the one set the net fires from the steps it found, and its steps follow | `NetInv`; uniqueness by the first transition on which two sets differ (`FirstOfAny`, from the well-foundedness of the naturals) |
| `BranchedChartsFireAtOnce` | the order of application leaves no trace in charts made of conserved branches (`Covered`) | `NothingPutIsTaken`: what leaves a step another transition enters would need the same token |
| `QualifiersHonoured` | `QualifiersAreHonoured`, for both engines (in the C when no body returns) | `QualifierInv`, with a lemma per qualifier on the decision |
| `SchedulerTypes`, `NoStaleLocation`, `EventsRunOnce`, `PriorityOrdersTurns` | the runner | `SchedulerInv` = `Published /\ Remembered /\ Ordered` |
| `NoRunIsMissed`, `RunsKeepTheirRate` | the rate of periodic tasks, for every interval and cycle | `RateInv`, with lemmas on multiples |
| `BlockTypes`, `BlocksNeverDiffer`, `DelaysAreExact`, `PulsesAreExact`, `CountersAreExact` | all blocks, presets and cycle times | `BlocksInv`, one part per timer and one for counters |
| `SessionsAreWhole`, `DeploysAreWhole` | the bridge, for all mappings and any number of requests | `SessionInv`, with a lemma per handler and per place it can fail |
| `DisplayIsTrue` | the display of the IDE | `DisplayInv` |
| `WritesAreReadBack` | acknowledged writes, symbol by symbol, through every encoding and area | `WriteInv` |
| `TypeCorrect` (of `GeneratedScan`) | `TypeOK`, for every program, mapping, second master and width of a byte | `Typed` |
| `AdaptersAlwaysAgree` | `AdaptersAgree`: memory and transport do the same, a write changes the bits of its point only | the arithmetic of bytes and bits, then `Typed` for the image |
| `OtherBytesStay` | `OtherBytesAreKept` | inductive with `Typed` and `Current` |
| `OutputsAreShown` | `OutputsShowTheScan` | `Showing` |
| `RetainedComesBack` | `LoadedLikeWarmRestart` | `Retaining` |

The inductive invariants say what the properties leave out:

* `SafetyInv`: a latched gate has its outputs disabled (`GateClosed`); evaluated
  inputs are the ones the gate was computed from (`StopsEvaluated`); the
  watchdog is as old as the last completed cycle or start, and a scan that was
  not restarted is no older than it (`ClockInv`); what `end_cycle` has read
  stays true while it runs, because nothing else pets (`DraftInv`).
* `StoreInv`: besides `AckedIsDurable`, what `end_cycle` has saved so far is in
  the files (`SavedInv`), so that the report may acknowledge it.
* `Lockstep`: `~idiagnosed => iengine = gengine`. Equality of what ran is not
  inductive by itself, because the controls decide what runs later.
* `Evolution`: a candidate none of whose steps was consumed is still enabled,
  so that applying it moves a token that is there; what was consumed was
  consumed by a transition that fired, and those precede all still to come.
* `NetInv`: the candidates and what was decided are what the net is able to fire
  (`OfferedIsAble`); what was decided precedes what is to come, and each fired
  unless it lost a step to one that fired before (`DecidedInOrder`); the steps
  and the consumed ones are what the net makes of those (`StepsAreAfter`). The
  last part is about a set of transitions, the code goes through a list: that
  the list is in order is what makes them equal.
* `SchedulerInv`: the shared locations hold what was given to them last
  (`Published`); an event that is still up and was served since it rose is
  remembered as sampled (`Remembered`); what ran precedes what is to come
  (`Ordered`).
* `RateInv`: elapsed times are whole cycles (`WholeCycles`); the time since the
  last periodic run and the elapsed time leave the same remainder (`InPhase`), so
  that the next multiple of the interval is the next common one, which is not
  passed before the instance's turn in that cycle (`OnTime`).
* `BlocksInv`: both back ends hold the same fields, `Shown` and `settled` apart
  (`BlocksAgree`), because the texts that are evaluated again read nothing that
  changed (`SameText`); while the preset is constant, `ET` and `Q` are functions of how
  long the input has been stable; a pulse's `ET` is the time `Q` has been on; a
  counter's edge memories are the inputs of its last counting call.
* `SessionInv`: besides the two properties, every waiting request is one the
  IDE sends, with the arguments it sends (`CallsOK`), and the history is one of
  what was acknowledged (`TraceOK`).
* `DisplayInv`: an answer that was served and not overtaken describes the
  session as it still is (`FreshAnswers`); what is shown is true, outdated or
  about to be replaced (`ShownInv`).
* `WriteInv`: the session's bindings are ones a mapping can have, so that
  reading is the inverse of writing as far as `Keeps` says; and a write or reset
  elsewhere leaves what a symbol reads (`OthersReadBack`).
* `QualifierInv`: the memories the engines keep (stored bits, edge memories,
  timers) are what the ages of the steps and the sets and resets so far say,
  apart from the action whose turn it is.
* `Typed`: besides types, that a segment in hand was read for an entry that is
  written, and has the length of its point (`Modifying`); without it a write
  back could reach into bytes beyond.
* `Current`: of a byte no point of the program has a part in, the other master
  holds, between its read and its write back, what is on the bus.
* `Showing`: the entries before the one in turn are on the field, each that is
  the last so far of its point (`Shown`); and the segment in hand still has, of
  the bits beside its point, those that nobody else writes (`Undisturbed`); both
  for points that are `Safe`: alone, and not in a byte written back out of date.
  Without the second part a write back could bring back an older neighbour. That
  is what happens to a neighbour another master writes, and to the program's when
  the other master writes back; hence the two exemptions of the property.
* `Retaining`: a save in progress has stored the entries before the one in turn
  from the fields as they are, for nothing changes them (`Saving`); after a whole
  one the store holds what was saved until the next begins (`SavedOK`); fields
  no entry stores keep their initial values until a scan or a write (`FreshOK`).

**The arithmetic of `AdaptersAlwaysAgree`.** There are `2^n` sets of bits, which
gives the laws of powers without recursion. `Splits(n, p, e, s, r)` cuts a number at
a bit, `n = p * (2 * e + s) + r`, and determines the bit `s`; setting a bit changes
`s` and leaves the cuts at all others (`WithBitSets`). `TwoDigits` cuts a remainder
at a byte, from which `BytesRoundTrip` follows: little-endian bytes of a number
give back its remainder. The induction over the bytes is over a set of naturals
(`AllNaturals`), since the induction theorems of the library are out of reach.
`LimitsFit` says that a number cut to its type survives the remainder, with its
sign and with the cut of unsigned 64-bit numbers to `i64`.

Only model-checked: `StarvedOutputsStayOff` and `DelayedActionsRun` (liveness
is out of the prover's reach); the properties of `programs` and
`configurations`, whose modules define evaluation by `RECURSIVE` operators over
trees and use `Bitwise`, so that every statement about them is an induction over
data; and the violations of section 5. Of `DelayedActionsRun` the safety half is
proved: when the action has its turn it runs if its step was active for the
duration (`QualifiersHonoured`). What is left to fairness is that the program is
scanned and that its scans end.

## 5 Disagreements found

**With a document.**

* `scheduler_external`: `CONFORMANCE.md` says configurations keep shared
  globals, `iec_profile/src/lib.rs:755` that externals bind to them; a program
  under a configuration has a private copy (`iec_runtime/src/runtime.rs:83`)
  that writes never reach.
* `program_negations`: `iec_profile/src/lib.rs:766` says the generated C uses
  logical NOT for BOOL; `NOT fb.Q` and `NOT F(x)` are printed with `~`, and are
  true always (`iec_c/src/addressing.rs:90`).
* `SchedulerLocated.cfg`: `CONFORMANCE.md` says located outputs are published; a
  variable declared `AT %QX0.0` is not, only the literal location is
  (`iec_runtime/src/runtime.rs:385`).
* `SfcParityShared.cfg` with `Association <- PlainAssociation` and `Returning <-
  SomeReturn`: a `RETURN` in an action body is printed as `return;`
  (`iec_c/src/functions.rs:325`) inside the function that holds the whole scan:
  later actions and all transitions are skipped, and in a program body outputs,
  watchdog and cycle count. In the interpreter it ends the action. The profile
  (`:784`) says that the generated C matches the interpreter's scan cycle, and
  the differential validation compares their traces
  (`validation/differential/README.md:12`).
* `ProgramConstants.cfg`: `iec_profile/src/lib.rs:758` says writes to constants
  are diagnosed; FOR, IL, outputs, ENO and VAR_IN_OUT write them unnoticed.
* `StudioMismatch.cfg`: `TARGET_BRIDGE.md` names a source changed after download
  as the cause of a mismatch; a project edited while the bridge answered is
  shown as matching (`TargetConnectionBar.tsx:199`).

**Between interpreter and generated C**, settled by no document, and excluded by
the operators named:

* `OrdinaryChart`: SL with two associations is printed as `a || b && !stored`
  and restarts its timer in every scan (`functions.rs:720`,
  `SfcParityShared.cfg`); differing durations of one qualifier; SL steps left
  early; contention of timers, diagnosed by the interpreter alone.
* Negative presets of timers are raised to 0 by the interpreter only.
* The C prints the text of an argument of a standard block wherever it needs it,
  the interpreter evaluates it once (`runtime.rs:2096`). A PT that reads ET (for
  TP also Q) of its own instance is another after ET has moved (`fb.rs:1589`,
  `:1629`, `:1683`), a PV that reads CV another after the count (`:1746`, `:1853`):
  `ctu(CU := x, PV := ctu.CV + 1)` sets Q where it counts in the interpreter, and
  never in the C (`settled`). `_IN` of TON and TOF is set from
  the text of IN after Q has changed (`:1596`, `:1641`), and differs for `IN := NOT
  t.Q` when the time is over (`Shown`): no call reads it, but a program may
  (`iec_semantics/src/types.rs:34`). Arguments that call functions with outputs
  take effect as often as they are printed.
* `MixedComparison`: a TIME compared with a TIME has no value under `<`, is
  FALSE under `=` and TRUE under `<>` in the interpreter, and is compared by the
  C; signed and bit strings are compared as unsigned by the C.
* `NakedChain`: a comparison of three arguments inside another is printed
  without parentheses.
* `ControlledCall`: AND, SEL, ... switched off by EN give the number 0, also
  where a BOOL is expected.
* `LooseFor`, `Overruns`: the C evaluates TO in every iteration, and leaves the
  control one step further; FOR up to the end of its type ends in the interpreter
  and never in the C. The control bypasses the ranges of its type (profile
  `:749`), as do inputs of functions and blocks.
* `LooseList`: the accumulator lives on over scans in the interpreter; AND and OR
  of whole numbers in IL are bitwise in one and logical in the other.
* `NestedEdge`: edges of an instance inside an instance are not kept in C.
* `InstanceValue`, `LooseCall`: an instance as a value, and CAL of a plain
  variable, are accepted.
* Numbers written as literals are `int` in C; whole numbers are compared as
  `f64` in the interpreter; `DIV` and `MOD` of the least number by -1 and FOR
  near the limits of 64 bits overflow; digits of BCD that are none; `MUX` out of
  range fails in one and takes the last in the other; a function called before
  it is declared does not compile; `RET` in a list of a C function prints
  `return;`; NOT of a bit string is reported as out of range by the interpreter.

**Between checker and run.**

* Recursion through a subscript or through instances of blocks is not found.
* The folder ignores EN of standard functions, and a BCD conversion is compared
  with its raw value.
* `OutOfReach`: events, bindings and access paths may name what another
  resource or configuration declares, and fields of instances; they fail at run
  time. Output bindings with the name of a resource are rejected although the
  runner would resolve them.
* `LooseTypes`: access paths and bindings are compared by `SimpleType`, and
  locations have no type; outputs bound to subranges and access writes to
  globals are not checked for range.
* `Literal`: the shared state takes only literal initial values, and starts a
  subrange at 0; an instance computes them.
* PRIORITY may be a constant expression to the checker; only literals count at
  run time, everything else is least urgent. CONSTANT globals can be written by
  access paths.

Met while reading the front end, which is not modelled: `NOT` before an actual
argument is read for outputs only (`runtime.rs:1313`, `fb.rs:2270`), and the
export of PLCopen drops subscripts (`export.rs:948`).

## 6 What is not modelled

* REAL, strings and dates, arrays of several dimensions, VAR_EXTERNAL and
  VAR_ACCESS inside of programs: they repeat the control of what is modelled with
  other data. TLA+ has no floating point.
* Field widths of blocks: `CV` and elapsed times are 64-bit in the code and far
  from their ends in any run of a controller; they are integers here. A build
  with overflow checks, where the interpreter panics instead of wrapping.
* Names, comments, the wording of diagnostics, warnings, the layout of traces,
  manifests and C types, which no property is about.
* `hal_mut`, which gives the integrator the HAL without the gate: nothing holds
  of writes that take this way, and the properties are about `write_access`.
* The order in which directory entries reach the disk: `fs::write` is not
  synced, and a loss of power may lose more than a crash of the process does.
  The models of supervisor and bridge know the second kind.
* HTTP, sockets and the frames of Modbus TCP, apart from their failing.
* The parts of section 1.9. Those with state worth a model are the incremental
  cache and the simulator and analysis of the IDE's open file; the others are
  functions of a text or of a document.

## 7 What is left

In order of what a failure would cost:

1. The incremental cache of the language service against a full analysis, and
   the order of analyses in the IDE (`App.tsx:301`).
2. `VAR_EXTERNAL` under a configuration in `ConfigurationRunner`, once globals
   are shared.
3. A composition of `GeneratedScan` with `SfcEngine`: what a chart does after a
   loss of power, when its variables come back and its steps do not.
