------------------------------- MODULE FieldBus -------------------------------
(***************************************************************************)
(* The field-bus adapters of crates/rbcpp_target/src/lib.rs: what a value  *)
(* becomes in a Modbus image, in the bytes of an EtherCAT process image,   *)
(* in a file and on a ROS 2 topic, and what is read back.                  *)
(*                                                                         *)
(* An image is a function or a sequence, an operation on it an operator    *)
(* that returns whether it was done and the image it left.  The byte has   *)
(* ByteBits bits (8 in the code), so that all widths fit into TLC's        *)
(* integers on a small instance.                                           *)
(***************************************************************************)
EXTENDS Integers, Sequences, SequencesExt

CONSTANTS
  ByteBits,      \* bits of a byte
  NoValue        \* Option::None: no binding, no message, nothing readable

ASSUME ByteBitsAssumption == ByteBits \in Nat \ {0}

(***************************************************************************)
(* iec_ir::Value.  TEXT stands for every value that is neither a number    *)
(* nor a Boolean: as_bool and as_i64 give None for it.                     *)
(***************************************************************************)
Flag(b)   == [kind |-> "BOOL", v |-> b]
Num(n)    == [kind |-> "INT", v |-> n]
Text(t)   == [kind |-> "TEXT", v |-> t]

Truth(x)  == \/ x.kind = "BOOL" /\ x.v          \* as_bool().unwrap_or(false)
             \/ x.kind = "INT" /\ x.v # 0
Number(x) == CASE x.kind = "BOOL" -> IF x.v THEN 1 ELSE 0   \* as_i64().unwrap_or(0)
               [] x.kind = "INT"  -> x.v
               [] OTHER           -> 0

Clamp(n, low, high) == IF n < low THEN low ELSE IF n > high THEN high ELSE n

Pow2(n) == 2 ^ n

\* io::Error
ReadError == [kind |-> "ERROR", v |-> NoValue]

(***************************************************************************)
(* Symbols are bound by location or by name: the location wins.  A mapping *)
(* file binds line by line: a line that does not parse (NoValue) is passed *)
(* over, a later line for a key replaces the earlier one.                  *)
(***************************************************************************)
PointFor(bindings, symbol) ==
  IF symbol.location \in DOMAIN bindings  THEN bindings[symbol.location]
  ELSE IF symbol.name \in DOMAIN bindings THEN bindings[symbol.name]
  ELSE NoValue

Loaded(lines) ==
  LET bound == {i \in DOMAIN lines : lines[i] # NoValue}
      Latest(key) == CHOOSE i \in bound :
                       lines[i].key = key /\ \A j \in bound : lines[j].key = key => j <= i
  IN  [key \in {lines[i].key : i \in bound} |-> lines[Latest(key)].point]

(***************************************************************************)
(* Modbus.  An image holds the coils and registers that were written; one  *)
(* that never was reads as FALSE or 0.                                     *)
(***************************************************************************)
ModbusArea  == {"Coil", "DiscreteInput", "HoldingRegister", "InputRegister"}
Writable(area) == area \in {"Coil", "HoldingRegister"}
IsBit(area)    == area \in {"Coil", "DiscreteInput"}
RegisterMax    == Pow2(2 * ByteBits) - 1

ModbusRead(image, point) ==
  IF point \in DOMAIN image THEN image[point]
  ELSE IF IsBit(point.area) THEN Flag(FALSE) ELSE Num(0)

Register(n) == Clamp(n, 0, RegisterMax)

Stored(image, point, value) ==
  [p \in DOMAIN image \cup {point} |-> IF p = point THEN value ELSE image[p]]

ModbusWrite(image, point, x) ==
  IF Writable(point.area)
  THEN [done |-> "Done",
        image |-> Stored(image, point,
                    IF IsBit(point.area) THEN Flag(Truth(x)) ELSE Num(Register(Number(x))))]
  ELSE [done |-> "Refused", image |-> image]

\* ModbusTransportHal over an image: one function of the transport for every area.
TransportModbusRead(image, point) ==
  IF IsBit(point.area) THEN Flag(Truth(ModbusRead(image, point)))
  ELSE Num(Register(Number(ModbusRead(image, point))))

TransportModbusWrite(image, point, x) ==
  CASE point.area = "Coil"            -> ModbusWrite(image, point, Flag(Truth(x)))
    [] point.area = "HoldingRegister" -> ModbusWrite(image, point, Num(Register(Number(x))))
    [] OTHER                          -> [done |-> "Refused", image |-> image]

(***************************************************************************)
(* EtherCAT.  A point lies in the input or the output bytes of the process *)
(* image, at a byte and, for BOOL, a bit; numbers are little-endian.       *)
(***************************************************************************)
PdoType == {"BOOL", "U8", "I8", "U16", "I16", "U32", "I32", "U64", "I64"}
ByteLen(type) == CASE type \in {"BOOL", "U8", "I8"} -> 1
                   [] type \in {"U16", "I16"}       -> 2
                   [] type \in {"U32", "I32"}       -> 4
                   [] type \in {"U64", "I64"}       -> 8
Signed(type)  == type \in {"I8", "I16", "I32", "I64"}
I64Max        == Pow2(8 * ByteBits - 1) - 1

TypeMin(type) == IF Signed(type) THEN -Pow2(ByteBits * ByteLen(type) - 1) ELSE 0
TypeMax(type) ==                        \* a Value holds no more than an i64
  CASE Signed(type)  -> Pow2(ByteBits * ByteLen(type) - 1) - 1
    [] type = "U64"  -> I64Max
    [] OTHER         -> Pow2(ByteBits * ByteLen(type)) - 1

ToBytes(n, len) ==
  [k \in 1..len |-> (n \div Pow2(ByteBits * (k - 1))) % Pow2(ByteBits)]
FromBytes(bytes) ==
  LET upTo[k \in 0..Len(bytes)] ==
        IF k = 0 THEN 0 ELSE upTo[k - 1] + Pow2(ByteBits * (k - 1)) * bytes[k]
  IN  upTo[Len(bytes)]

Fits(bytes, point) == point.byte + ByteLen(point.type) <= Len(bytes)
BitSet(byte, bit)  == (byte \div Pow2(bit)) % 2 = 1
Segment(bytes, point) == SubSeq(bytes, point.byte + 1, point.byte + ByteLen(point.type))

\* read_pdo_value
ReadPdo(bytes, point) ==
  LET raw == FromBytes(Segment(bytes, point))
      two == Pow2(ByteBits * ByteLen(point.type))
  IN  IF ~Fits(bytes, point) THEN NoValue
      ELSE CASE point.type = "BOOL" -> Flag(BitSet(bytes[point.byte + 1], point.bit))
             [] Signed(point.type)  -> Num(IF 2 * raw >= two THEN raw - two ELSE raw)
             [] OTHER               -> Num(IF raw > I64Max THEN I64Max ELSE raw)

\* Mutant of WithBit: the byte is set to the bit alone.
WithBitAlone(byte, bit, on) == IF on THEN Pow2(bit) ELSE 0
WithBit(byte, bit, on) ==
  byte + (IF on THEN Pow2(bit) ELSE 0) - (IF BitSet(byte, bit) THEN Pow2(bit) ELSE 0)

\* Mutant of Replaced: the rest of the bytes is cleared.
ReplacedToTheEnd(bytes, at, part) ==
  [k \in 1..Len(bytes) |-> IF k <= at THEN bytes[k] ELSE IF k <= at + Len(part) THEN part[k - at] ELSE 0]
Replaced(bytes, at, part) ==
  [k \in 1..Len(bytes) |-> IF k > at /\ k <= at + Len(part) THEN part[k - at] ELSE bytes[k]]

\* write_pdo_value
WritePdo(bytes, point, x) ==
  IF ~Fits(bytes, point) THEN [done |-> "Refused", bytes |-> bytes]
  ELSE [done  |-> "Done",
        bytes |-> IF point.type = "BOOL"
                  THEN [bytes EXCEPT ![point.byte + 1] = WithBit(@, point.bit, Truth(x))]
                  ELSE Replaced(bytes, point.byte,
                         ToBytes(Clamp(Number(x), TypeMin(point.type), TypeMax(point.type)),
                                 ByteLen(point.type)))]

\* EtherCatHal: the process image itself; only the output area is written.
ImageWrite(outputs, point, x) ==
  IF point.area = "Output" THEN WritePdo(outputs, point, x)
  ELSE [done |-> "Refused", bytes |-> outputs]

(***************************************************************************)
(* EtherCatTransportHal: the segment of the point is read from the         *)
(* transport, changed, and written back as a whole; in between, the point  *)
(* is looked at in the segment.                                            *)
(***************************************************************************)
\* Mutant of Local: the bit offset is dropped with the byte offset.
LocalWithoutBit(point) == [point EXCEPT !.byte = 0, !.bit = 0]
Local(point) == [point EXCEPT !.byte = 0]

TransportRead(bytes, point) ==
  IF Fits(bytes, point) THEN ReadPdo(Segment(bytes, point), Local(point)) ELSE ReadError

TransportWrite(outputs, point, x) ==
  IF point.area # "Output" THEN [done |-> "Refused", bytes |-> outputs]
  ELSE IF ~Fits(outputs, point) THEN [done |-> "Error", bytes |-> outputs]
  ELSE [done  |-> "Done",
        bytes |-> Replaced(outputs, point.byte,
                    WritePdo(Segment(outputs, point), Local(point), x).bytes)]

(***************************************************************************)
(* Files.  The text of a file is abstracted to the value it displays, and  *)
(* to Text of something that is no number.                                 *)
(***************************************************************************)
Encoding == {"Bool01", "Decimal", "Text"}

\* encode_value, the line end it appends left out
Encoded(encoding, x) ==
  CASE encoding = "Bool01"  -> Num(IF Truth(x) THEN 1 ELSE 0)
    [] encoding = "Decimal" -> Num(Number(x))
    [] encoding = "Text"    -> x

\* decode_value; the words of decode_value's list are displayed Booleans and 1
Decoded(encoding, x) ==
  CASE encoding = "Bool01"  -> Flag(x = Num(1) \/ x = Flag(TRUE))
    [] encoding = "Decimal" -> IF x.kind = "INT" THEN x ELSE Num(0)
    [] encoding = "Text"    -> [x EXCEPT !.kind = "TEXT"]

(***************************************************************************)
(* ROS 2.  Messages received and parameters share one table; what is       *)
(* published goes to a queue of its own and is never read back.            *)
(***************************************************************************)
Readable(direction) == direction \in {"Subscribe", "Parameter"}

RosRead(values, point) ==
  IF Readable(point.direction) /\ point.name \in DOMAIN values
  THEN values[point.name] ELSE NoValue

RosWrite(ros, point, x) ==
  CASE point.direction = "Parameter" ->
         [done |-> "Done", ros |-> [ros EXCEPT !.values = Stored(@, point.name, x)]]
    [] point.direction = "Publish" ->
         [done |-> "Done",
          ros |-> [ros EXCEPT !.published = Append(@, [topic |-> point.name, value |-> x])]]
    [] OTHER -> [done |-> "Refused", ros |-> ros]

\* Ros2TransportHal over a bridge: a function of the transport for every direction.
TransportRosRead(values, point) ==
  IF point.direction # "Publish" /\ point.name \in DOMAIN values THEN values[point.name] ELSE NoValue

\* Mutant of TransportRosWrite: a parameter is published.
TransportRosPublishes(ros, point, x) == RosWrite(ros, [point EXCEPT !.direction = "Publish"], x)
TransportRosWrite(ros, point, x) ==
  CASE point.direction = "Publish" ->
         [done |-> "Done",
          ros |-> [ros EXCEPT !.published = @ \o <<[topic |-> point.name, value |-> x]>>]]
    [] point.direction = "Parameter" ->
         [done |-> "Done", ros |-> [ros EXCEPT !.values = Stored(@, point.name, x)]]
    [] point.direction = "Subscribe" -> [done |-> "Refused", ros |-> ros]

(***************************************************************************)
(* FileBackedHal: a file that is missing is an error, an unbound symbol    *)
(* has no value.  A point is [path, encoding].                             *)
(***************************************************************************)
FileRead(files, point) ==
  IF point = NoValue THEN NoValue
  ELSE IF point.path \in DOMAIN files THEN Decoded(point.encoding, files[point.path])
  ELSE ReadError

FileWrite(files, point, x) ==
  IF point = NoValue THEN [done |-> "Refused", files |-> files]
  ELSE [done |-> "Done", files |-> Stored(files, point.path, Encoded(point.encoding, x))]
=============================================================================
