--------------------------- MODULE TargetConnection ---------------------------
(***************************************************************************)
(* The target connection of the IDE (TargetConnectionBar.tsx, App.tsx)     *)
(* and the bridge session it talks to.  The IDE runs in one thread, but    *)
(* three handlers can be waiting for the bridge at once: an action of the  *)
(* connection bar, the restoring of the session after the page was loaded, *)
(* and the forcing of a value.  Requests are served one at a time, in any  *)
(* order, and answers can be handled in another.                           *)
(*                                                                         *)
(* An action writes the connection it saw when it was started, changed by  *)
(* the answer: what happened to the connection in between is lost.         *)
(***************************************************************************)
EXTENDS BridgeSession

CONSTANTS
  Typed,        \* what the user can type for a value
  Parts,        \* what a deploy brings besides the mapping
  Simulate,     \* whether the simulator is asked for
  MaxRequests   \* bound: requests the IDE sends

ASSUME SimulateAssumption == Simulate \subseteq BOOLEAN
ASSUME TypedAssumption ==
  \A x \in Typed : \/ x.kind = "BOOL" /\ x = Flag(x.v) /\ x.v \in BOOLEAN
                   \/ x.kind = "INT" /\ x = Num(x.v) /\ x.v \in Int

VARIABLES
  world,      \* the bridge's session, its disk and the device
  ui,         \* the connection shown: kind, state, deployHash, editorMatchesTarget
  persisted,  \* the connection kept in localStorage
  snapshot,   \* targetIoValues
  project,    \* dirty: changed since it was saved; changed: since it was deployed
  calls,      \* the handlers waiting for an answer
  sent,       \* requests sent so far
  trace       \* history: outdated, the last deploy, what was written

vars == <<world, ui, persisted, snapshot, project, calls, sent, trace>>

Caller == {"action", "restore", "force", "orphan"}
State  == {"offline", "connecting", "online", "running", "stopped", "simulated", "error"}

Idle == [step |-> "idle"]
Sent(op, arg, seen) == [step |-> "sent", op |-> op, arg |-> arg, seen |-> seen]

HardwareTarget  == [kind |-> "hardware", state |-> "offline", deployed |-> "null", match |-> FALSE]
SimulatorTarget == [kind |-> "simulator", state |-> "simulated", deployed |-> "null", match |-> TRUE]

\* hardwareOnline
ShownOnline == ui.kind = "hardware" /\ ui.state \notin {"offline", "error", "connecting"}

Busy == calls["action"].step # "idle"

Init ==
  /\ world = [session |-> Default, disk |-> EmptyDisk, device |-> NoImage]
  /\ ui = SimulatorTarget /\ persisted = SimulatorTarget
  /\ snapshot = <<>> /\ project = [dirty |-> FALSE, changed |-> FALSE]
  /\ calls = [c \in Caller |-> Idle]
  /\ sent = 0
  /\ trace = [outdated |-> FALSE, deploy |-> NoValue, written |-> <<>>]

(***************************************************************************)
(* The user                                                                *)
(***************************************************************************)
\* update and selectTarget: the connection is replaced and persisted; JSON has no
\* undefined, and readTargetConnection takes what is missing for null.
Show(connection) ==
  /\ ui' = connection
  /\ persisted' = [connection EXCEPT !.deployed = IF @ = "set" THEN "set" ELSE "null"]

SelectTarget(target) ==
  /\ sent < MaxRequests
  /\ Show(target)
  /\ UNCHANGED <<world, snapshot, project, calls, sent, trace>>

Send(caller, op, arg) ==
  /\ sent < MaxRequests
  /\ sent' = sent + 1
  /\ calls' = [calls EXCEPT ![caller] =
                 Sent(op, arg, IF caller = "action" THEN ui ELSE NoValue)]

StartConnect(m, simulate) ==
  /\ ui.kind = "hardware" /\ ~Busy
  /\ Send("action", "connect", [mapping |-> m, simulate |-> simulate])
  /\ Show([ui EXCEPT !.state = "connecting"])
  /\ UNCHANGED <<world, snapshot, project, trace>>

StartDeploy(m, parts) ==
  /\ ui.kind = "hardware" /\ ~Busy
  /\ Send("action", "download", [mapping |-> m, parts |-> parts, number |-> sent + 1])
  /\ project' = [project EXCEPT !.changed = FALSE]
  /\ UNCHANGED <<world, ui, persisted, snapshot, trace>>

StartAction(op) ==
  /\ ui.kind = "hardware" /\ ~Busy
  /\ Send("action", op, NoValue)
  /\ UNCHANGED <<world, ui, persisted, snapshot, project, trace>>

\* coerceWriteValue: "1" and "0" become Booleans, whatever the symbol is; a negative
\* number stays a text unless the symbol is known to hold a number.
Coerced(typed, current) ==
  IF typed.kind = "INT" /\ typed.v \in {0, 1}   THEN Flag(typed.v = 1)
  ELSE IF typed.kind = "BOOL"                   THEN typed
  ELSE IF current.kind = "BOOL"                 THEN Flag(FALSE)
  ELSE IF typed.v < 0 /\ current.kind # "INT"   THEN Text(typed.v)
  ELSE typed

Shown(symbol) == IF symbol \in DOMAIN snapshot THEN snapshot[symbol] ELSE Text(NoValue)

StartForce(symbol, typed) ==
  /\ ShownOnline /\ calls["force"].step = "idle"
  /\ Send("force", "write", [symbol |-> symbol, raw |-> Coerced(typed, Shown(symbol))])
  /\ UNCHANGED <<world, ui, persisted, snapshot, project, trace>>

(***************************************************************************)
(* The page is loaded again: its handlers are gone, and the request of an  *)
(* action that was on its way is served without anybody waiting for it.    *)
(***************************************************************************)
Reload ==
  /\ sent < MaxRequests /\ sent' = sent + 1
  /\ ui' = persisted /\ snapshot' = <<>>
  /\ calls' = [c \in Caller |->
       CASE c = "restore" /\ persisted.kind = "hardware" -> Sent("status", NoValue, NoValue)
         [] c = "orphan" /\ calls["action"].step = "sent" -> calls["action"]
         [] OTHER -> Idle]
  /\ trace' = [trace EXCEPT !.outdated = TRUE]
  /\ UNCHANGED <<world, persisted, project>>

\* The effect of App.tsx that follows isProjectDirty and the hash of the project.
Rated(dirty) == Show([ui EXCEPT !.match = ~dirty /\ ui.deployed # "null"])

Edit ==
  /\ ~(project.dirty /\ project.changed) /\ sent < MaxRequests
  /\ project' = [dirty |-> TRUE, changed |-> TRUE]
  /\ Rated(TRUE)
  /\ UNCHANGED <<world, snapshot, calls, sent, trace>>

\* Saving by hand, or the autosave three seconds after the last change.
Save ==
  /\ project.dirty
  /\ project' = [project EXCEPT !.dirty = FALSE]
  /\ Rated(FALSE)
  /\ UNCHANGED <<world, snapshot, calls, sent, trace>>

(***************************************************************************)
(* The bridge serves a request.                                            *)
(***************************************************************************)
Handled(c) ==
  CASE c.op = "connect"    -> Connect(world, c.arg.mapping, TRUE, c.arg.simulate)
    [] c.op = "disconnect" -> Disconnect(world)
    [] c.op = "download"   -> Deploy(world, c.arg.number, c.arg.mapping, c.arg.parts)
    [] c.op = "write"      -> WriteIo(world, c.arg.symbol, c.arg.raw)
    [] c.op = "refresh"    -> ReadIo(world)
    [] c.op = "status"     -> {Outcome(world, world.session.mode # "Offline")}
    [] OTHER               -> Control(world, c.op)

\* An answer not yet handled that a later request makes out of date.
Overtaken(c) == IF c.step = "served" THEN [c EXCEPT !.outdated = TRUE] ELSE c

\* Two symbols are bound to one file, or to one point.
SamePlace(s, a, b) ==
  \/ a \in DOMAIN s.files /\ b \in DOMAIN s.files /\ PathOf[a] = PathOf[b]
  \/ /\ a \notin DOMAIN s.files /\ b \notin DOMAIN s.files
     /\ a \in DOMAIN s.points /\ b \in DOMAIN s.points /\ s.points[a] = s.points[b]

\* The value acknowledged last for each symbol; a write tried at the same place, the end
\* of the session, and for points of the simulator its reset, end what it promises.
ServedWrites(c, ok) ==
  LET s         == world.session
      elsewhere == {a \in DOMAIN trace.written : a # c.arg.symbol /\ ~SamePlace(s, a, c.arg.symbol)}
      lasting   == {a \in DOMAIN trace.written : s.tcp \/ a \in DOMAIN s.files}
  IN  CASE c.op = "write" /\ ok  -> Stored(Restrict(trace.written, elsewhere), c.arg.symbol, c.arg.raw)
        [] c.op = "write" /\ ~ok -> Restrict(trace.written, elsewhere)
        [] c.op = "reset"        -> Restrict(trace.written, lasting)
        [] c.op \in {"connect", "disconnect"} -> <<>>
        [] OTHER -> trace.written

ServedDeploy(c, ok) ==
  CASE c.op = "download" /\ ok  -> c.arg
    [] c.op = "download" /\ ~ok -> NoValue
    [] c.op \in {"connect", "disconnect"} /\ trace.deploy # NoValue ->
         [trace.deploy EXCEPT !.mapping = NoValue]
    [] OTHER -> trace.deploy

\* What an answer says of the session, as far as the IDE looks at it.
Answer(s) == [state |-> ConnectionState(s), program |-> s.program, deployed |-> s.deployed]

\* The handler gets an answer, and has still to handle it.
Served(c, outcome) ==
  [step |-> "served", op |-> c.op, arg |-> c.arg, seen |-> c.seen, ok |-> outcome.ok,
   session |-> Answer(outcome.world.session), values |-> outcome.values, outdated |-> FALSE]

\* The step changes what the bridge would say of its state.
Changed == ConnectionState(world'.session) # ConnectionState(world.session)

Serve(caller) ==
  /\ calls[caller].step = "sent"
  /\ \E outcome \in Handled(calls[caller]) :
       /\ world' = outcome.world
       /\ calls' = [c \in Caller |->
            CASE c = caller -> IF c = "orphan" THEN Idle ELSE Served(calls[c], outcome)
              [] c # caller -> IF Changed THEN Overtaken(calls[c]) ELSE calls[c]]
       /\ trace' = [trace EXCEPT !.outdated = @ \/ (caller = "orphan" /\ Changed),
                                 !.written = ServedWrites(calls[caller], outcome.ok),
                                 !.deploy = ServedDeploy(calls[caller], outcome.ok)]
  /\ UNCHANGED <<ui, persisted, snapshot, project, sent>>

\* The bridge process ends and is started again: its session is lost.
BridgeRestart ==
  /\ sent < MaxRequests /\ sent' = sent + 1
  /\ world' = [world EXCEPT !.session = Default]
  /\ calls' = [c \in Caller |-> Overtaken(calls[c])]
  /\ trace' = [trace EXCEPT !.outdated = TRUE, !.written = <<>>,
                            !.deploy = IF @ = NoValue THEN @ ELSE [@ EXCEPT !.mapping = NoValue]]
  /\ UNCHANGED <<ui, persisted, snapshot, project>>

(***************************************************************************)
(* The IDE handles an answer.                                              *)
(***************************************************************************)
Done(caller) == calls' = [calls EXCEPT ![caller] = Idle]
FollowUp(caller, op) == calls' = [calls EXCEPT ![caller] = Sent(op, NoValue, @.seen)]

Marked(c) == trace' = [trace EXCEPT !.outdated = c.outdated]

\* Mutant of Patched: a request that failed leaves the state that was shown.
PatchedIfDone(c) ==
  IF ~c.ok THEN c.seen
  ELSE IF c.op = "disconnect" THEN HardwareTarget
  ELSE [c.seen EXCEPT !.state = c.session.state]

\* The patch an answer of the bridge makes on the connection the handler saw.
Patched(c) ==
  IF ~c.ok THEN [c.seen EXCEPT !.state = "error"]
  ELSE CASE c.op = "connect"    -> [c.seen EXCEPT !.state = c.session.state,
                                                  !.deployed = "undefined", !.match = FALSE]
         [] c.op = "disconnect" -> HardwareTarget
         [] c.op = "download"   -> [c.seen EXCEPT !.state = "stopped", !.deployed = "set",
                                                  !.match = TRUE]
         [] OTHER               -> [c.seen EXCEPT !.state = c.session.state]

ActionAnswered ==
  LET c == calls["action"] IN
  /\ c.step = "served"
  /\ IF c.ok /\ c.op = "refresh"
     THEN UNCHANGED <<ui, persisted, trace>>
     ELSE Show(Patched(c)) /\ Marked(c)
  /\ snapshot' = CASE c.ok /\ c.op \in {"connect", "refresh"} -> c.values
                   [] c.ok /\ c.op = "disconnect" -> <<>>
                   [] OTHER -> snapshot
  /\ IF c.ok /\ c.op \in {"run", "reset"} THEN FollowUp("action", "refresh") ELSE Done("action")
  /\ UNCHANGED <<world, project, sent>>

\* Restoring writes the state of the session into whatever is shown by then.
RestoreAnswered ==
  LET c == calls["restore"] IN
  /\ c.step = "served"
  /\ IF c.ok /\ c.op = "status"
     THEN /\ ui' = [ui EXCEPT !.state = c.session.state, !.match = c.session.program,
                              !.deployed = IF c.session.deployed THEN "set" ELSE "null"]
          /\ Marked(c)
     ELSE UNCHANGED <<ui, trace>>
  /\ snapshot' = IF c.ok /\ c.op = "refresh" THEN c.values ELSE snapshot
  /\ IF c.ok /\ c.op = "status" THEN FollowUp("restore", "refresh") ELSE Done("restore")
  /\ UNCHANGED <<world, persisted, project, sent>>

ForceAnswered ==
  LET c == calls["force"] IN
  /\ c.step = "served"
  /\ snapshot' = IF c.ok /\ c.op = "refresh" THEN c.values ELSE snapshot
  /\ IF c.ok /\ c.op = "write" THEN FollowUp("force", "refresh") ELSE Done("force")
  /\ UNCHANGED <<world, ui, persisted, project, sent, trace>>

Symbol == UNION {DOMAIN Files[m] \cup DOMAIN Points[m] : m \in Mapping}

User ==
  \/ \E target \in {HardwareTarget, SimulatorTarget} : SelectTarget(target)
  \/ \E m \in Mapping, simulate \in Simulate : StartConnect(m, simulate)
  \/ \E m \in Mapping, parts \in Parts : StartDeploy(m, parts)
  \/ \E op \in {"disconnect", "refresh", "run", "stop", "reset"} : StartAction(op)
  \/ \E symbol \in Symbol, typed \in Typed : StartForce(symbol, typed)
  \/ Edit \/ Save

Handler == ActionAnswered \/ RestoreAnswered \/ ForceAnswered

Next ==
  \/ User \/ Reload \/ BridgeRestart \/ Handler
  \/ \E caller \in Caller : Serve(caller)

Spec == Init /\ [][Next]_vars
-----------------------------------------------------------------------------
(***************************************************************************)
(* Whatever connect, control and deploy did and wherever they failed, the  *)
(* session is one or the other: offline with nothing bound and nothing     *)
(* running, or online with a transport exactly if it has points to reach.  *)
(***************************************************************************)
SessionIsWhole ==
  LET s == world.session IN
  /\ s.mode = "Offline" <=> Bound(s) = {}
  /\ s.mode = "Offline" => ~s.running
  /\ HasTransport(s) <=> DOMAIN s.points # {}
  /\ ~(s.tcp /\ s.sim # None)
  /\ s.mode = "File" => DOMAIN s.points = {}
  /\ s.mode \in {"ModbusSim", "ModbusTcp"} => DOMAIN s.files = {}

(***************************************************************************)
(* A deploy that was answered ok is whole on disk until the next is tried: *)
(* the files are all of it, and as long as the session lasts it holds the  *)
(* mapping that is on disk.  A deploy that fails half-way may mix two.     *)
(***************************************************************************)
DeployIsWhole ==
  LET d == trace.deploy IN
  d # NoValue =>
    /\ world.disk.mapping.of = d.number
    /\ "generated" \in d.parts => world.disk.generated = d.number
    /\ "package" \in d.parts => world.disk.package = d.number
    /\ d.mapping # NoValue => /\ world.session.deployed
                             /\ world.session.mapping = world.disk.mapping.text

\* x is what raw comes to where the types agree: itself, its number, or the nearest register.
Keeps(s, symbol, raw, x) ==
  IF symbol \in DOMAIN s.files
  THEN CASE s.files[symbol] = "Bool01"  -> raw.kind = "BOOL" => x = raw
         [] s.files[symbol] = "Decimal" -> x = Num(raw.v)
         [] s.files[symbol] = "Text"    -> x.v = raw.v
  ELSE IF IsBit(s.points[symbol].area) THEN raw.kind = "BOOL" => x = raw
  ELSE raw.kind = "INT" => /\ x.v \in 0..RegisterMax
                           /\ raw.v \in 0..RegisterMax => x.v = raw.v
                           /\ raw.v > RegisterMax => x.v = RegisterMax
                           /\ raw.v < 0 => x.v = 0

(***************************************************************************)
(* What write_io acknowledged for a symbol is what read_io reads for it,   *)
(* through file or register, until a write of it or of another symbol of   *)
(* the same file or point is tried, the simulator it lies in is reset, or  *)
(* the session ends; no write elsewhere, no deploy, no run or stop and no  *)
(* request that fails disturbs it.                                         *)
(***************************************************************************)
AcknowledgedWriteIsReadBack ==
  \A symbol \in DOMAIN trace.written :
    /\ symbol \in Bound(world.session)
    /\ Keeps(world.session, symbol, trace.written[symbol], ReadSymbol(world, symbol))

(***************************************************************************)
(* What the connection bar shows as online or running is so, unless an     *)
(* answer is still to be handled, the bridge or the page was started       *)
(* again, or the answer shown was overtaken by a later request.            *)
(***************************************************************************)
DisplayIsTrueOrOutdated ==
  LET pending == \E c \in {"action", "restore"} : calls[c].step = "served" IN
  ui.kind = "hardware" /\ ui.state \in {"online", "running"} =>
    pending \/ trace.outdated \/ ui.state = ConnectionState(world.session)
(***************************************************************************)
(* TARGET_BRIDGE.md names as the cause of an editor/target mismatch that   *)
(* the source changed after download: a changed source is not shown as     *)
(* matching the target.                                                    *)
(***************************************************************************)
ChangedSourceIsShown ==
  ui.kind = "hardware" /\ project.changed => ~ui.match
=============================================================================
