----------------------------- MODULE RetainStore -----------------------------
(***************************************************************************)
(* The file-backed retained-state store of crates/rbcpp_target/src/lib.rs: *)
(* the file a target's value lives in (RetainStore::path_for) and the text *)
(* form of a value (encode_typed_value, decode_typed_value).               *)
(***************************************************************************)
CONSTANTS
  Target,      \* canonical names of state targets (keys of TargetState.values)
  File,        \* file names below the store's root
  FileOf,      \* path_for: safe_file_component may send two names to one file
  Text,        \* the printed forms of values
  EmptyText,   \* the printed form of the empty string
  Trim,        \* a text without its trailing line ends (trim_end_matches)
  None         \* Option::None: no value, no file, no time, no report

ASSUME FileOfAssumption == FileOf \in [Target -> File]
ASSUME TextAssumption ==
  EmptyText \in Text /\ Trim \in [Text -> Text] /\ Trim[EmptyText] = EmptyText

\* The variants of iec_ir::Value that a state target can hold.
ScalarKind    == {"BOOL", "INT", "REAL", "STRING", "WSTRING", "TIME"}
CompositeKind == {"ARRAY", "STRUCT"}
Kind          == ScalarKind \cup CompositeKind

Value == [kind : Kind, text : Text]
Raw   == [tag : ScalarKind, text : Text]

ASSUME NoneAssumption == None \notin Value /\ None \notin Raw

(***************************************************************************)
(* Arrays and structures have no tag of their own: they are written as the *)
(* STRING that displays them, and read back as that string.                *)
(***************************************************************************)
EncodeTypedValue(v) ==
  [tag |-> IF v.kind \in CompositeKind THEN "STRING" ELSE v.kind,
   text |-> v.text]

\* Mutant of DecodeTypedValue: no arm for BOOL.
DecodeWithoutBool(raw) ==
  [kind |-> IF raw.tag = "BOOL" THEN "STRING" ELSE raw.tag, text |-> Trim[raw.text]]

\* RetainStore::load strips the line end that save appended, and any other.
DecodeTypedValue(raw) == [kind |-> raw.tag, text |-> Trim[raw.text]]

(***************************************************************************)
(* fs::write truncates the file and then writes it.  What is left between  *)
(* the two is an empty file, which decode_typed_value reads as STRING ''.  *)
(***************************************************************************)
EmptyFile == [tag |-> "STRING", text |-> EmptyText]

\* No other retained target is kept in the same file as t.
SoleOwner(t, retained) ==
  \A u \in retained : FileOf[u] = FileOf[t] => u = t

\* Retaining v loses nothing: it is no composite and ends in no line end.
Faithful(v) == v.kind \in ScalarKind /\ Trim[v.text] = v.text
=============================================================================
