---------------------------- MODULE BridgeSession ----------------------------
(***************************************************************************)
(* The session of crates/rbcpp_target_bridge: what connect, deploy,        *)
(* control, read_io, write_io and disconnect make of it, with every early  *)
(* return.  The bridge serves one request at a time under a lock, so a     *)
(* handler is an operator from the world it finds to the set of outcomes   *)
(* it can have: file operations and the network may fail at every step.    *)
(*                                                                         *)
(* A world is [session, disk, device]: the session, the files below the    *)
(* workspace root and the Modbus device behind the endpoint.               *)
(***************************************************************************)
EXTENDS FieldBus, FiniteSets

CONSTANTS
  Mapping,     \* mapping texts
  Files,       \* Files[m]: the file bindings of m, from symbols to encodings
  Points,      \* Points[m]: its Modbus bindings, from symbols to points
  PathOf       \* the file a symbol of a file binding is kept in

ASSUME BindingsAssumption ==
  \A m \in Mapping :
    /\ \A symbol \in DOMAIN Files[m] : Files[m][symbol] \in Encoding
    /\ \A symbol \in DOMAIN Points[m] : Points[m][symbol].area \in ModbusArea

NoImage == <<>>      \* ModbusImage::default()
None    == <<>>      \* the simulator's image, an Option of it
Some(x) == <<x>>

Mode == {"Offline", "File", "ModbusSim", "ModbusTcp", "HybridFileModbus"}

\* SessionState::default; disconnect goes back to it.
Default ==
  [mode |-> "Offline", mapping |-> NoValue, files |-> <<>>, points |-> <<>>,
   program |-> FALSE, deployed |-> FALSE, running |-> FALSE,
   sim |-> None, tcp |-> FALSE]

EmptyDisk == [io |-> <<>>, mapping |-> NoValue, generated |-> NoValue, package |-> NoValue]

Outcome(w, ok) == [world |-> w, ok |-> ok, values |-> <<>>]
Failed(w)      == Outcome(w, FALSE)

(***************************************************************************)
(* I/O.  A read or write reaches the file of a symbol bound to a file,     *)
(* else its point in the simulator's image or in the device.               *)
(***************************************************************************)
ImageOf(w) == IF w.session.tcp THEN w.device ELSE w.session.sim[1]
WithImage(w, image) ==
  IF w.session.tcp THEN [w EXCEPT !.device = image] ELSE [w EXCEPT !.session.sim = Some(image)]

HasTransport(s) == s.tcp \/ s.sim # None

ReadSymbol(w, symbol) ==
  IF symbol \in DOMAIN w.session.files
  THEN Decoded(w.session.files[symbol], w.disk.io[PathOf[symbol]])
  ELSE ModbusRead(ImageOf(w), w.session.points[symbol])

Bound(s) == DOMAIN s.files \cup DOMAIN s.points

\* read_io: a file that is missing or a session without a transport is an error
CanReadIo(w) ==
  /\ \A symbol \in DOMAIN w.session.files : PathOf[symbol] \in DOMAIN w.disk.io
  /\ DOMAIN w.session.points # {} => HasTransport(w.session)

\* The network may fail at any Modbus request to a device.
MayFail(w) == w.session.tcp

ReadIo(w) ==
  IF CanReadIo(w)
  THEN {[world |-> w, ok |-> TRUE,
         values |-> [symbol \in Bound(w.session) |-> ReadSymbol(w, symbol)]]}
       \cup {o \in {Failed(w)} : MayFail(w)}
  ELSE {Failed(w)}

\* json_to_value and write_point: what a raw JSON value is taken for
FileValue(encoding, raw) ==
  CASE encoding = "Bool01"  -> Flag(raw.kind = "BOOL" /\ raw.v)
    [] encoding = "Decimal" ->             \* a text that displays a number counts as one
         IF raw.kind \in {"INT", "TEXT"} /\ raw.v \in Int THEN Num(raw.v) ELSE NoValue
    [] encoding = "Text"    -> raw

\* Mutant of PointValue: a number written to a register is not limited.
PointValueUnlimited(point, raw) ==
  IF IsBit(point.area) THEN Flag(raw.kind = "BOOL" /\ raw.v)
  ELSE Num(IF raw.kind = "INT" THEN raw.v % Pow2(ByteBits) ELSE 0)
PointValue(point, raw) ==
  IF IsBit(point.area) THEN Flag(raw.kind = "BOOL" /\ raw.v)
  ELSE Num(IF raw.kind = "INT" THEN Register(raw.v) ELSE 0)

WriteFile(w, symbol, x) ==
  [w EXCEPT !.disk.io = Stored(@, PathOf[symbol], Encoded(w.session.files[symbol], x))]

\* A device may have taken the value although its answer is lost.
WriteIo(w, symbol, raw) ==
  LET x     == FileValue(w.session.files[symbol], raw)
      point == w.session.points[symbol]
      image == ModbusWrite(ImageOf(w), point, PointValue(point, raw)).image
  IN  IF symbol \in DOMAIN w.session.files
      THEN {Failed(w)} \cup (IF x = NoValue THEN {} ELSE {Outcome(WriteFile(w, symbol, x), TRUE)})
      ELSE IF /\ symbol \in DOMAIN w.session.points
              /\ HasTransport(w.session) /\ Writable(point.area)
      THEN {Outcome(WithImage(w, image), TRUE)}
           \cup {o \in {Failed(w), Failed(WithImage(w, image))} : MayFail(w)}
      ELSE {Failed(w)}

(***************************************************************************)
(* connect.  The old session is gone before anything is tried; the new one *)
(* stands before its missing files are seeded and its values are read.     *)
(***************************************************************************)
Cleared(s) == Default

SessionMode(m, simulate) ==
  IF DOMAIN Points[m] = {}     THEN "File"
  ELSE IF DOMAIN Files[m] # {} THEN "HybridFileModbus"
  ELSE IF simulate             THEN "ModbusSim"
  ELSE "ModbusTcp"

\* Mutant of Opened: the simulator is made whether there are points or not.
OpenedSimulated(s, m, program, simulate) ==
  [s EXCEPT !.mode = SessionMode(m, simulate), !.mapping = m,
            !.files = Files[m], !.points = Points[m], !.program = program,
            !.sim = IF simulate THEN Some(NoImage) ELSE None,
            !.tcp = DOMAIN Points[m] # {} /\ ~simulate]
Opened(s, m, program, simulate) ==
  [s EXCEPT !.mode = SessionMode(m, simulate), !.mapping = m,
            !.files = Files[m], !.points = Points[m],
            !.program = program, !.running = FALSE,
            !.sim = IF DOMAIN Points[m] # {} /\ simulate THEN Some(NoImage) ELSE None,
            !.tcp = DOMAIN Points[m] # {} /\ ~simulate]

SeedValue(encoding) == CASE encoding = "Bool01"  -> Flag(FALSE)
                         [] encoding = "Decimal" -> Num(0)
                         [] encoding = "Text"    -> Text(NoValue)

Missing(w) == {symbol \in DOMAIN w.session.files : PathOf[symbol] \notin DOMAIN w.disk.io}

\* seed_missing_file_bindings stops at the first file it cannot write; which files
\* come first depends on the names of the symbols.
Seeded(w, written) ==
  LET paths == {PathOf[symbol] : symbol \in written}
      first(path) == CHOOSE symbol \in written : PathOf[symbol] = path
      seed(path)  == Encoded(w.session.files[first(path)],
                             SeedValue(w.session.files[first(path)]))
  IN  [w EXCEPT !.disk.io = [path \in DOMAIN @ \cup paths |->
                               IF path \in paths THEN seed(path) ELSE @[path]]]

Connect(w, m, program, simulate) ==
  LET cleared == [w EXCEPT !.session = Cleared(@)]
      opened  == [cleared EXCEPT !.session = Opened(@, m, program, simulate)]
      whole   == Seeded(opened, Missing(opened))
  IN  {Failed(cleared)}       \* no workspace root, no binding, no answer to the probe
      \cup {Failed(Seeded(opened, part)) : part \in {p \in SUBSET Missing(opened) :
                Bound(opened.session) # {} /\ p # Missing(opened)}}
      \cup {o \in ReadIo(whole) : Bound(opened.session) # {}}

Disconnect(w) == {Outcome([w EXCEPT !.session = Default], TRUE)}

(***************************************************************************)
(* control                                                                 *)
(***************************************************************************)
Reset(s) ==
  [s EXCEPT !.running = FALSE, !.sim = IF s.sim = None THEN None ELSE Some(NoImage)]

Control(w, action) ==
  IF w.session.mode = "Offline" THEN {Failed(w)}
  ELSE CASE action = "run"   -> {Outcome([w EXCEPT !.session.running = TRUE], TRUE)}
         [] action = "stop"  -> {Outcome([w EXCEPT !.session.running = FALSE], TRUE)}
         [] action = "reset" -> {Outcome([w EXCEPT !.session = Reset(@)], TRUE)}

(***************************************************************************)
(* deploy number d: the mapping, the C file and the package are written    *)
(* one after the other; the session takes the deploy over when all are.    *)
(* It may come at any time, in a session or not, running or not.           *)
(***************************************************************************)
\* Mutant of Written: the package goes to disk before the C file.
WrittenOutOfOrder(disk, d, m, parts, upto) ==
  [disk EXCEPT !.mapping   = IF upto >= 1 THEN [of |-> d, text |-> m] ELSE @,
               !.package   = IF upto >= 2 /\ "package" \in parts THEN d ELSE @,
               !.generated = IF upto >= 4 /\ "generated" \in parts THEN d ELSE @]
Written(disk, d, m, parts, upto) ==
  [disk EXCEPT !.mapping   = IF upto >= 1 THEN [of |-> d, text |-> m] ELSE @,
               !.generated = IF upto >= 2 /\ "generated" \in parts THEN d ELSE @,
               !.package   = IF upto >= 3 /\ "package" \in parts THEN d ELSE @]

Deploy(w, d, m, parts) ==
  {Failed([w EXCEPT !.disk = Written(@, d, m, parts, upto)]) : upto \in 0..2}
  \cup {Outcome([w EXCEPT !.disk = Written(@, d, m, parts, 3),
                          !.session.deployed = TRUE, !.session.program = TRUE,
                          !.session.mapping = m], TRUE)}

\* connection_state
ConnectionState(s) ==
  CASE s.mode = "Offline" -> "offline"
    [] s.mode # "Offline" /\ s.running -> "running"
    [] OTHER -> "online"
=============================================================================
