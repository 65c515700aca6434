---------------------------- MODULE GeneratedScan ----------------------------
(***************************************************************************)
(* The C that rbcpp build-c prints for a program (crates/iec_c): the state *)
(* struct, init, set_target_hooks, warm_restart, load_retained,            *)
(* save_retained, the access-path services and scan, with the hooks of the *)
(* target called one by one.  The hooks are those of a host that binds     *)
(* them to the field-bus adapters of crates/rbcpp_target and to a store of *)
(* retained values; between two hooks the field and other masters of the   *)
(* bus go on, and at any time the power may fail.                          *)
(*                                                                         *)
(* What the body of the program computes is left open: it assigns one of   *)
(* Results, and ends early at a RETURN or not.                             *)
(***************************************************************************)
EXTENDS FieldBus, FiniteSets

CONSTANTS
  Blocks,       \* the variable blocks: [kind, retain, vars] in their order, globals first
  Locations,    \* the locations of the project, in the order of their texts
  Named,        \* those the body names
  Area,         \* Area[location]: "I", "Q", "M" or another letter
  Results,      \* what a run of the body may assign: functions from leaves to values
  RangeOf,      \* RangeOf[leaf]: the values a leaf may hold
  Lines,        \* the lines of the mapping file
  Rival,        \* another master's points in the output bytes
  Inputs,       \* what the field may hold in the input bytes
  InitialOutputs,  \* what the output bytes hold at first
  HookTables,   \* the tables of hooks a host installs
  MaxScans,     \* bound: scans
  MaxWork       \* bound: writes of the rival and losses of power

(***************************************************************************)
(* Storage.  A leaf is a scalar field of the state struct, named by a      *)
(* path; a variable is a scalar, a structure or a function block, whose    *)
(* inputs with an edge qualifier have one more leaf, the edge memory.      *)
(***************************************************************************)
Flat(seqs) == FlattenSeq(seqs)

\* The elements of a sequence at some of its positions, in their order
Kept(seq, positions) == Flat([k \in DOMAIN seq |-> IF k \in positions THEN <<seq[k]>> ELSE <<>>])

EdgeMemory(var, field) == <<var.name, field.name, "edge">>

LeavesOf(var) ==
  IF var.kind = "scalar" THEN {<<var.name>>}
  ELSE {<<var.name, var.fields[k].name>> : k \in DOMAIN var.fields}
       \cup {EdgeMemory(var, var.fields[k]) : k \in {j \in DOMAIN var.fields :
               var.kind = "user" /\ var.fields[j].edge}}

\* emit_state_initialization: the value of a leaf
InitialOf(var, leaf) ==
  CASE Len(leaf) = 1 -> var.init
    [] Len(leaf) = 2 -> LET k == CHOOSE j \in DOMAIN var.fields : var.fields[j].name = leaf[2]
                        IN  var.fields[k].init
    [] OTHER -> Flag(FALSE)

\* program_vars_with_retain, each with the RETAIN of its block
VarsWithRetain ==
  Flat([k \in DOMAIN Blocks |->
    IF Blocks[k].kind \in {"ACCESS", "EXTERNAL"} THEN <<>>
    ELSE [j \in DOMAIN Blocks[k].vars |-> [var |-> Blocks[k].vars[j], retain |-> Blocks[k].retain]]])

AccessVars == Flat([k \in DOMAIN Blocks |->
                      IF Blocks[k].kind = "ACCESS" THEN Blocks[k].vars ELSE <<>>])

VarNamed(name) ==
  {VarsWithRetain[k].var : k \in {j \in DOMAIN VarsWithRetain : VarsWithRetain[j].var.name = name}}

\* direct_variable_refs_for_program: named in the body or by an access path
DirectRefs ==
  LET Addressed == {AccessVars[k].path[1] : k \in DOMAIN AccessVars}
  IN  Kept(Locations, {k \in DOMAIN Locations : Locations[k] \in Named \cup Addressed})

Declared       == {VarsWithRetain[k].var : k \in DOMAIN VarsWithRetain}
DeclaredLeaves == UNION {LeavesOf(var) : var \in Declared}
DirectLeaves   == {<<at>> : at \in Range(DirectRefs)}
Leaves         == DeclaredLeaves \cup DirectLeaves

Initials == [leaf \in DeclaredLeaves |->
               InitialOf(CHOOSE var \in Declared : leaf \in LeavesOf(var), leaf)]

\* What init writes are the declared leaves: no direct location is among them.
\* What warm_restart writes
WarmLeaves ==
  UNION {LeavesOf(VarsWithRetain[k].var) : k \in {j \in DOMAIN VarsWithRetain :
                                                    ~VarsWithRetain[j].retain}}

WithInitials(f, leaves) == [leaf \in DOMAIN f |-> IF leaf \in leaves THEN Initials[leaf] ELSE f[leaf]]

(***************************************************************************)
(* Tables of entries                                                       *)
(***************************************************************************)
\* io_entries_for_program: located variables first, then direct locations
IoEntries ==
  LET located == Kept(VarsWithRetain, {k \in DOMAIN VarsWithRetain :
                                         VarsWithRetain[k].var.location # NoValue})
  IN  [k \in DOMAIN located |-> [leaf |-> <<located[k].var.name>>, name |-> located[k].var.name,
                                 location |-> located[k].var.location]]
      \o [k \in DOMAIN DirectRefs |-> [leaf |-> <<DirectRefs[k]>>, name |-> DirectRefs[k],
                                       location |-> DirectRefs[k]]]

ShouldRead(entry)  == Area[entry.location] # "Q"
ShouldWrite(entry) == Area[entry.location] \in {"Q", "M"}

\* state_storage_entries_for_var: a function block is stored field by field, the edge
\* memories are not stored.
StorageEntries(var) ==
  IF var.kind \in {"standard", "user"}
  THEN [k \in DOMAIN var.fields |-> {<<var.name, var.fields[k].name>>}]
  ELSE <<LeavesOf(var)>>

RetainEntries ==
  Flat([k \in DOMAIN VarsWithRetain |->
    IF VarsWithRetain[k].retain THEN StorageEntries(VarsWithRetain[k].var) ELSE <<>>])

\* access_path_storage_entry: the leaves a path leads to, or NoValue
Resolved(path) ==
  CASE path[1] \in DOMAIN Area -> {<<path[1]>>}
    [] VarNamed(path[1]) = {}  -> NoValue
    [] Len(path) = 1           -> UNION {LeavesOf(var) : var \in VarNamed(path[1])}
    [] OTHER -> IF \E var \in VarNamed(path[1]) : path \in LeavesOf(var) THEN {path} ELSE NoValue

AccessEntries ==
  Kept([k \in DOMAIN AccessVars |-> [name |-> AccessVars[k].name,
                                     writable |-> AccessVars[k].writable,
                                     leaves |-> Resolved(AccessVars[k].path)]],
       {k \in DOMAIN AccessVars : Resolved(AccessVars[k].path) # NoValue})

(***************************************************************************)
(* What is known of the constants.                                         *)
(***************************************************************************)
\* The members of the struct have different names.  What lies at a location is a scalar: an
\* array or structure handed to a hook as a whole is not modelled.
WellFormedBlocks ==
  /\ Blocks \in Seq(Range(Blocks))
  /\ \A k \in DOMAIN Blocks : /\ Blocks[k].retain \in BOOLEAN
                              /\ Blocks[k].vars \in Seq(Range(Blocks[k].vars))
  /\ \A j, k \in DOMAIN VarsWithRetain :
       VarsWithRetain[j].var.name = VarsWithRetain[k].var.name => j = k
  /\ \A var \in Declared : var.location # NoValue => var.kind = "scalar"
  /\ \A var \in Declared : var.kind # "scalar" => var.fields \in Seq(Range(var.fields))
  /\ Locations \in Seq(Range(Locations))

ASSUME BlocksAssumption == WellFormedBlocks

IsValue(x) == \/ x \in [kind : {"BOOL"}, v : BOOLEAN]
              \/ x \in [kind : {"INT"}, v : Int]
              \/ x = Text(x.v)

\* Leaves hold values of their types: initial values are, and what a body assigns.
WellTyped ==
  /\ \A leaf \in Leaves : \A x \in RangeOf[leaf] : IsValue(x)
  /\ \A leaf \in DeclaredLeaves : Initials[leaf] \in RangeOf[leaf]
  /\ \A result \in Results : \A leaf \in Leaves \cap DOMAIN result : result[leaf] \in RangeOf[leaf]
  /\ \A k \in DOMAIN RetainEntries :
       NoValue \notin [RetainEntries[k] -> UNION {RangeOf[leaf] : leaf \in RetainEntries[k]}]

ASSUME TypeAssumption == WellTyped

(***************************************************************************)
(* The points a mapping line binds: bits of a byte, no location and no     *)
(* name twice.                                                             *)
(***************************************************************************)
PdoPoint    == [bus : {"ethercat"}, area : {"Input", "Output"}, byte : Nat, bit : 0..ByteBits - 1,
                type : PdoType]
ModbusPoint == [bus : {"modbus"}, area : ModbusArea, address : Nat]
RosPoint    == [bus : {"ros"}, direction : {"Publish", "Subscribe", "Parameter"}, name : STRING]

LineAssumption ==
  /\ Lines \in Seq(Range(Lines))
  /\ \A k \in DOMAIN Lines :
       Lines[k] # NoValue => Lines[k].point \in PdoPoint \cup ModbusPoint \cup RosPoint

\* The other master writes bits of the output bytes.
RivalAssumption ==
  \A p \in Rival : /\ p \in PdoPoint /\ p.area = "Output" /\ p.type = "BOOL"
                   /\ p.byte < Len(InitialOutputs)

\* Option::None is no binding of a file.
ASSUME NoneAssumption == NoValue \notin [path : {"file"}, encoding : Encoding]

ASSUME BusAssumption ==
  /\ LineAssumption /\ RivalAssumption
  /\ InitialOutputs \in Seq(0..Pow2(ByteBits) - 1)

(***************************************************************************)
(* State                                                                   *)
(***************************************************************************)
VARIABLES
  fields,     \* the state struct
  cycle,      \* rbcpp_cycle
  hooks,      \* the hooks installed
  pc,         \* where the call in progress stands: [at, k]
  bus,        \* input and output bytes, Modbus image, ROS 2 tables
  store,      \* the retained values, by entry
  done,       \* history: hooks called, what was saved, whether the fields are as synced
  work        \* counts scans and disturbances, for the bounds; the writes of the rival

vars == <<fields, cycle, hooks, pc, bus, store, done, work>>

At(label, k) == [at |-> label, k |-> k, segment |-> <<>>]
Idle == At("idle", 0)
Values(leaves) == UNION {RangeOf[leaf] : leaf \in leaves}

\* What memory may hold before init; of declared leaves, which init writes, one content
\* stands for all.
Garbage ==
  LET direct == {f \in [DirectLeaves -> Values(DirectLeaves)] :
                   \A leaf \in DirectLeaves : f[leaf] \in RangeOf[leaf]}
  IN  {[leaf \in Leaves |-> IF leaf \in DeclaredLeaves THEN CHOOSE x \in RangeOf[leaf] : TRUE
                           ELSE f[leaf]] : f \in direct}

\* synced: the fields are what the last scan handed over; fresh: they are what init,
\* warm_restart and load_retained made of them.
NothingDone == [saved |-> NoValue, synced |-> FALSE, fresh |-> FALSE]

Changed(isFresh) == done' = [done EXCEPT !.synced = FALSE, !.fresh = isFresh]

Bindings == Loaded(Lines)

OutputImages == [DOMAIN InitialOutputs -> 0..Pow2(ByteBits) - 1]

\* A write of the other master between its reading and its writing back
RivalWrite == [point : Rival, value : {Flag(on) : on \in BOOLEAN},
               segment : Seq(0..Pow2(ByteBits) - 1)]

TypeOK ==
  /\ fields \in [Leaves -> Values(Leaves)]
  /\ \A leaf \in Leaves : fields[leaf] \in RangeOf[leaf]
  /\ pc \in [at : {"off", "idle", "save", "inputs", "outputs", "modify"}, k : Nat,
             segment : Seq(0..Pow2(ByteBits) - 1)]
  /\ DOMAIN bus = {"inputs", "outputs", "modbus", "ros"}
  /\ bus.outputs \in OutputImages
  /\ DOMAIN bus.ros = {"values", "published"}
  /\ DOMAIN store = DOMAIN RetainEntries
  /\ \A k \in DOMAIN RetainEntries : store[k] # NoValue =>
       \A leaf \in RetainEntries[k] : store[k][leaf] \in RangeOf[leaf]
  /\ DOMAIN done = {"saved", "synced", "fresh"}
  /\ done.synced \in BOOLEAN /\ done.fresh \in BOOLEAN
  /\ DOMAIN work = {"scans", "steps", "rival", "pending", "overwritten"}
  /\ DOMAIN work.rival \subseteq Rival
  /\ work.pending \subseteq RivalWrite /\ \A p, q \in work.pending : p = q

Init ==
  /\ fields \in Garbage
  /\ cycle = 0 /\ hooks = {} /\ pc = At("off", 0)
  /\ bus = [inputs |-> CHOOSE bytes \in Inputs : TRUE, outputs |-> InitialOutputs,
            modbus |-> <<>>, ros |-> [values |-> <<>>, published |-> <<>>]]
  /\ store = [k \in DOMAIN RetainEntries |-> NoValue]
  /\ done = NothingDone
  /\ work = [scans |-> 0, steps |-> 0, rival |-> <<>>, pending |-> {}, overwritten |-> {}]

(***************************************************************************)
(* Calls of the host                                                       *)
(***************************************************************************)
CallInit ==
  /\ pc.at = "off" /\ pc' = Idle
  /\ fields' = WithInitials(fields, DeclaredLeaves)
  /\ cycle' = 0 /\ hooks' = {} /\ Changed(TRUE)
  /\ UNCHANGED <<bus, store, work>>

SetTargetHooks(table) ==
  /\ pc = Idle /\ hooks # table
  /\ hooks' = table
  /\ UNCHANGED <<fields, cycle, pc, bus, store, done, work>>

WarmRestart ==
  /\ pc = Idle
  /\ fields' = WithInitials(fields, WarmLeaves)
  /\ Changed(done.fresh)
  /\ UNCHANGED <<cycle, hooks, pc, bus, store, work>>

\* Mutant of StartSave: saving starts with the second entry.
StartSaveLate == pc = Idle /\ "retain_save" \in hooks /\ pc' = At("save", 2)
StartSave == pc = Idle /\ "retain_save" \in hooks /\ pc' = At("save", 1)

CallSave ==
  /\ StartSave
  /\ done' = [done EXCEPT !.saved = NoValue]
  /\ UNCHANGED <<fields, cycle, hooks, bus, store, work>>

SaveEntry ==
  /\ pc.at = "save"
  /\ IF pc.k > Len(RetainEntries)
     THEN /\ pc' = Idle
          /\ done' = [done EXCEPT !.saved = fields]
          /\ UNCHANGED store
     ELSE /\ pc' = At("save", pc.k + 1)
          /\ store' = [store EXCEPT ![pc.k] = [leaf \in RetainEntries[pc.k] |-> fields[leaf]]]
          /\ UNCHANGED done
  /\ UNCHANGED <<fields, cycle, hooks, bus, work>>

\* load_retained; a value that is not in the store leaves the field as it is.
CallLoad ==
  /\ pc = Idle /\ "retain_load" \in hooks
  /\ fields' = [leaf \in Leaves |->
       LET from == {k \in DOMAIN RetainEntries : leaf \in RetainEntries[k] /\ store[k] # NoValue}
       IN  IF from = {} THEN fields[leaf] ELSE store[CHOOSE k \in from : TRUE][leaf]]
  /\ Changed(done.fresh)
  /\ UNCHANGED <<cycle, hooks, pc, bus, store, work>>

Allowed(entry) == entry.writable

\* write_access_path; read_access_path changes nothing.
WriteAccessPath(k, leaf, x) ==
  /\ pc = Idle /\ Allowed(AccessEntries[k])
  /\ leaf \in AccessEntries[k].leaves /\ x \in RangeOf[leaf]
  /\ fields' = [fields EXCEPT ![leaf] = x]
  /\ Changed(FALSE)
  /\ UNCHANGED <<cycle, hooks, pc, bus, store, work>>

(***************************************************************************)
(* The scan                                                                *)
(***************************************************************************)
Binding(entry) == PointFor(Bindings, entry)

\* What the target reads for a symbol: NoValue and errors leave the field as it is.
HalRead(entry) ==
  LET point == Binding(entry) IN
  IF point = NoValue THEN NoValue
  ELSE CASE point.bus = "ethercat"  ->
              LET x == TransportRead(IF point.area = "Input" THEN bus.inputs ELSE bus.outputs, point)
              IN  IF x.kind = "ERROR" THEN NoValue ELSE x
         [] point.bus = "modbus"    -> ModbusRead(bus.modbus, point)
         [] point.bus = "ros"       -> RosRead(bus.ros.values, point)

HalWrite(b, entry, x) ==
  LET point == Binding(entry) IN
  IF point = NoValue THEN b
  ELSE CASE point.bus = "ethercat"  -> [b EXCEPT !.outputs = TransportWrite(@, point, x).bytes]
         [] point.bus = "modbus"    -> [b EXCEPT !.modbus = ModbusWrite(@, point, x).image]
         [] point.bus = "ros"       -> [b EXCEPT !.ros = RosWrite(@, point, x).ros]

\* The hooks begin_scan, watchdog_pet and end_scan are the host's: they change nothing here.
BeginScan ==
  /\ pc = Idle /\ work.scans < MaxScans
  /\ pc' = At("inputs", 1)
  /\ work' = [work EXCEPT !.scans = @ + 1, !.overwritten = {}]
  /\ Changed(FALSE)
  /\ UNCHANGED <<fields, cycle, hooks, bus, store>>

SyncInput ==
  /\ pc.at = "inputs" /\ "io_read" \in hooks /\ pc.k <= Len(IoEntries)
  /\ LET entry == IoEntries[pc.k]
         x     == HalRead(entry)
     IN  fields' = IF ShouldRead(entry) /\ x \in RangeOf[entry.leaf]
                   THEN [fields EXCEPT ![entry.leaf] = x] ELSE fields
  /\ pc' = At("inputs", pc.k + 1)
  /\ UNCHANGED <<cycle, hooks, bus, store, done, work>>

Temporaries == UNION {LeavesOf(var) : var \in
  UNION {Range(Blocks[k].vars) : k \in {j \in DOMAIN Blocks : Blocks[j].kind = "TEMP"}}}

\* Temporary variables get their initial values, then the body runs.
Body ==
  /\ pc.at = "inputs" /\ ("io_read" \notin hooks \/ pc.k > Len(IoEntries))
  /\ \E result \in Results :
       fields' = [leaf \in Leaves |-> IF leaf \in DOMAIN result THEN result[leaf]
                                     ELSE WithInitials(fields, Temporaries)[leaf]]
  /\ \E returned \in BOOLEAN : pc' = IF returned THEN Idle ELSE At("outputs", 1)
  /\ UNCHANGED <<cycle, hooks, bus, store, done, work>>

\* A bit or number of the bus is written in two steps: the bytes around it are read
\* from the transport, changed, and written back.
ReadsFirst(point) ==
  point # NoValue /\ point.bus = "ethercat" /\ point.area = "Output" /\ Fits(bus.outputs, point)

SyncOutput ==
  /\ pc.at = "outputs" /\ "io_write" \in hooks /\ pc.k <= Len(IoEntries)
  /\ LET entry == IoEntries[pc.k]
         point == Binding(entry)
     IN  IF ShouldWrite(entry) /\ ReadsFirst(point)
         THEN /\ pc' = [At("modify", pc.k) EXCEPT !.segment = Segment(bus.outputs, point)]
              /\ UNCHANGED bus
         ELSE /\ pc' = At("outputs", pc.k + 1)
              /\ bus' = IF ShouldWrite(entry) THEN HalWrite(bus, entry, fields[entry.leaf])
                        ELSE bus
  /\ UNCHANGED <<fields, cycle, hooks, store, done, work>>

WriteBack ==
  /\ pc.at = "modify"
  /\ LET entry == IoEntries[pc.k]
         point == Binding(entry)
         changed == WritePdo(pc.segment, Local(point), fields[entry.leaf]).bytes
     IN  bus' = [bus EXCEPT !.outputs = Replaced(@, point.byte, changed)]
  /\ pc' = At("outputs", pc.k + 1)
  /\ UNCHANGED <<fields, cycle, hooks, store, done, work>>

EndScan ==
  /\ pc.at = "outputs" /\ ("io_write" \notin hooks \/ pc.k > Len(IoEntries))
  /\ pc' = Idle /\ cycle' = cycle + 1
  /\ done' = [done EXCEPT !.synced = "io_write" \in hooks]
  /\ UNCHANGED <<fields, hooks, bus, store, work>>

(***************************************************************************)
(* The world around                                                        *)
(***************************************************************************)
\* The inputs matter only while they are read.
FieldChanges ==
  /\ pc.at = "inputs"
  /\ \E bytes \in Inputs : bytes # bus.inputs /\ bus' = [bus EXCEPT !.inputs = bytes]
  /\ UNCHANGED <<fields, cycle, hooks, pc, store, done, work>>

\* Another master writes a point of its own through a transport HAL of its own: it reads
\* the byte of the point, changes the bit and, some time later, writes the byte back.
RivalReads(point, x) ==
  /\ work.pending = {} /\ work.steps < MaxWork
  /\ work' = [work EXCEPT !.steps = @ + 1,
                          !.pending = {[point |-> point, value |-> x,
                                        segment |-> Segment(bus.outputs, point)]}]
  /\ UNCHANGED <<fields, cycle, hooks, pc, bus, store, done>>

BytesOf(point) == point.byte .. point.byte + ByteLen(point.type) - 1

\* overwritten: what was written there in between is lost.
RivalWritesBack(p) ==
  /\ bus' = [bus EXCEPT !.outputs = Replaced(@, p.point.byte,
                                      WritePdo(p.segment, Local(p.point), p.value).bytes)]
  /\ work' = [work EXCEPT !.pending = {}, !.rival = Stored(@, p.point, p.value),
                          !.overwritten = IF p.segment = Segment(bus.outputs, p.point) THEN @
                                          ELSE @ \cup BytesOf(p.point)]
  /\ UNCHANGED <<fields, cycle, hooks, pc, store, done>>

\* The owner of the bridge takes what was published (Ros2Bridge::take_published).
TakePublished ==
  /\ pc = Idle /\ bus.ros.published # <<>>
  /\ bus' = [bus EXCEPT !.ros.published = <<>>]
  /\ UNCHANGED <<fields, cycle, hooks, pc, store, done, work>>

PowerLoss ==
  /\ pc.at # "off" /\ work.steps < MaxWork /\ work' = [work EXCEPT !.steps = @ + 1]
  /\ pc' = At("off", 0) /\ hooks' = {} /\ cycle' = 0
  /\ fields' \in Garbage
  /\ done' = [NothingDone EXCEPT !.saved = done.saved]
  /\ UNCHANGED <<bus, store>>

Host ==
  \/ CallInit \/ WarmRestart \/ CallSave \/ CallLoad
  \/ \E table \in HookTables : SetTargetHooks(table)
  \/ \E k \in DOMAIN AccessEntries, leaf \in Leaves : \E x \in RangeOf[leaf] :
       WriteAccessPath(k, leaf, x)

Scan == BeginScan \/ SyncInput \/ Body \/ SyncOutput \/ WriteBack \/ EndScan

Next ==
  \/ Host \/ SaveEntry \/ Scan \/ FieldChanges \/ TakePublished \/ PowerLoss
  \/ \E point \in Rival, on \in BOOLEAN : RivalReads(point, Flag(on))
  \/ \E p \in work.pending : RivalWritesBack(p)

Spec == Init /\ [][Next]_vars
-----------------------------------------------------------------------------
Writes == {k \in DOMAIN IoEntries : ShouldWrite(IoEntries[k]) /\ Binding(IoEntries[k]) # NoValue}
LastFor(point) == CHOOSE k \in Writes :
  /\ Binding(IoEntries[k]) = point
  /\ \A j \in Writes : Binding(IoEntries[j]) = point => j <= k

\* The last message of a topic that is not taken yet: none or one
LastOf(published, topic) ==
  {m \in DOMAIN published : /\ published[m].topic = topic
                            /\ \A n \in DOMAIN published : published[n].topic = topic => n <= m}

\* In the state b of the buses, the point shows x, as far as it can.
Shows(b, point, x) ==
  CASE point.bus = "ethercat" ->
         LET read == ReadPdo(b.outputs, point) IN
         \/ point.area = "Input" \/ read = NoValue
         \/ point.type = "BOOL" /\ read = Flag(Truth(x))
         \/ point.type # "BOOL" /\ read.v = Clamp(Number(x), TypeMin(point.type), TypeMax(point.type))
    [] point.bus = "modbus" ->
         Writable(point.area) =>
           Number(b.modbus[point]) = IF IsBit(point.area) THEN Number(Flag(Truth(x)))
                                       ELSE Clamp(Number(x), 0, RegisterMax)
    [] point.bus = "ros" ->
         CASE point.direction = "Publish" ->
                \A m \in LastOf(b.ros.published, point.name) : b.ros.published[m].value = x
           [] point.direction = "Parameter" -> b.ros.values[point.name] = x
           [] OTHER -> TRUE

InOutputs(point) == point.bus = "ethercat" /\ point.area = "Output"

\* Two points share no bit of the output bytes.
Apart(p, q) ==
  \/ ~InOutputs(p) \/ ~InOutputs(q)
  \/ BytesOf(p) \cap BytesOf(q) = {}
  \/ p.type = "BOOL" /\ q.type = "BOOL" /\ p.bit # q.bit

\* Nobody else writes a bit of the point.
Alone(point) ==
  /\ \A k \in Writes : Binding(IoEntries[k]) # point => Apart(point, Binding(IoEntries[k]))
  /\ \A p \in Rival : Apart(point, p)

\* Since the scan began the other master wrote a byte of the point back out of date.
Overwritten(point) == InOutputs(point) /\ BytesOf(point) \cap work.overwritten # {}

(***************************************************************************)
(* From the end of a scan to the next call of the host, every point of the *)
(* field shows what the scan computed for it, whatever other bits of its   *)
(* byte the program and another master wrote in between; if several        *)
(* symbols lead to one point, the last of the table.  Only where the other *)
(* master read a byte before a write of the program and wrote it back      *)
(* after it, the older content may come back (write_symbol).               *)
(***************************************************************************)
OutputsShowTheScan ==
  pc = Idle /\ done.synced =>
    \A k \in Writes : LET point == Binding(IoEntries[k])
                     IN  Alone(point) /\ ~Overwritten(point) =>
                           Shows(bus, point, fields[IoEntries[LastFor(point)].leaf])

(***************************************************************************)
(* The read-modify-write of a point disturbs no byte but its own: what     *)
(* another master wrote into other bytes stays there.  Of a byte the two   *)
(* share, the older content may come back (write_symbol reads, then        *)
(* writes).                                                                *)
(***************************************************************************)
OtherBytesAreKept ==
  \A point \in DOMAIN work.rival :
    (\A k \in Writes : LET own == Binding(IoEntries[k]) IN
        InOutputs(own) => BytesOf(own) \cap BytesOf(point) = {})
    => ReadPdo(bus.outputs, point) = work.rival[point]

PdoPoints == {point \in Range(Bindings) : point.bus = "ethercat"} \cup Rival
PdoValues == (UNION {RangeOf[IoEntries[k].leaf] : k \in Writes}) \cup {Text(NoValue)}

Exact(bytes) ==
  \A point \in PdoPoints, x \in PdoValues :
    LET image     == ImageWrite(bytes, point, x)
        transport == TransportWrite(bytes, point, x)
        first     == point.byte * ByteBits + (IF point.type = "BOOL" THEN point.bit ELSE 0)
        width     == IF point.type = "BOOL" THEN 1 ELSE ByteBits * ByteLen(point.type)
        bit(b, n) == BitSet(b[n \div ByteBits + 1], n % ByteBits)
    IN  /\ image.bytes = transport.bytes
        /\ image.done = "Done" <=> transport.done = "Done"
        /\ image.done = "Done" =>
             /\ ReadPdo(image.bytes, point) =
                  IF point.type = "BOOL" THEN Flag(Truth(x))
                  ELSE Num(Clamp(Number(x), TypeMin(point.type), TypeMax(point.type)))
             /\ TransportRead(image.bytes, point) = ReadPdo(image.bytes, point)
             /\ \A n \in 0..ByteBits * Len(bytes) - 1 :
                  n \notin first..first + width - 1 => bit(image.bytes, n) = bit(bytes, n)

AllExact == \A bytes \in OutputImages : Exact(bytes)

\* In memory and over a transport
ModbusAgrees ==
  \A area \in ModbusArea, x, y \in PdoValues :
    LET point == [area |-> area, address |-> 0]
        image == ModbusWrite(<<>>, point, y).image
    IN  /\ ModbusWrite(image, point, x) = TransportModbusWrite(image, point, x)
        /\ ModbusRead(image, point) = TransportModbusRead(image, point)

RosAgrees ==
  \A direction \in {"Publish", "Subscribe", "Parameter"}, x \in PdoValues :
    LET point == [direction |-> direction, name |-> "topic"]
        ros   == [values |-> [name \in {"topic"} |-> x], published |-> <<>>]
    IN  /\ RosWrite(ros, point, x) = TransportRosWrite(ros, point, x)
        /\ RosRead(ros.values, point) = TransportRosRead(ros.values, point)

\* A file gives back the truth of a value, its number, or a text of it.
FilesReturn ==
  \A encoding \in Encoding, x \in PdoValues :
    LET point == [path |-> "file", encoding |-> encoding]
        read  == FileRead(FileWrite(<<>>, point, x).files, point)
    IN  CASE encoding = "Bool01"  -> read = Flag(Truth(x))
          [] encoding = "Decimal" -> read = Num(Number(x))
          [] encoding = "Text"    -> read.kind = "TEXT" /\ read.v = x.v

AllAgree == AllExact /\ ModbusAgrees /\ RosAgrees /\ FilesReturn

(***************************************************************************)
(* The adapters that work in memory and those that work over a transport   *)
(* do the same, for every point and value, and, for EtherCAT, in every     *)
(* state of the bytes: there a write changes no bit but those of its       *)
(* point, and a reading gives the value cut to the type.                   *)
(***************************************************************************)
AdaptersAgree == bus.outputs \in OutputImages /\ AllAgree

(***************************************************************************)
(* Save, lose the power, init and load: every declared field is then as a  *)
(* warm restart in place would have left it, except for edge memories,     *)
(* which are not stored.  A save cut off by the loss promises nothing.     *)
(***************************************************************************)
LoadsAsWarmRestart ==
  CallLoad /\ done.fresh /\ done.saved # NoValue =>
    \A leaf \in DeclaredLeaves :
      Len(leaf) < 3 => fields'[leaf] = WithInitials(done.saved, WarmLeaves)[leaf]

\* load_retained after save_retained and a new start is as good as a warm restart.
LoadedLikeWarmRestart == [][LoadsAsWarmRestart]_vars

=============================================================================
