----------------------- MODULE TargetConnectionProofs -----------------------
(***************************************************************************)
(* Theorems of TargetConnection, for every set of mappings, their files    *)
(* and points, and any number of requests.                                 *)
(***************************************************************************)
EXTENDS TargetConnection, FiniteSetTheorems, TLAPS

(***************************************************************************)
(* The fields of records.                                                  *)
(***************************************************************************)
IsWorld(w)   == DOMAIN w = {"session", "disk", "device"}
IsSession(s) == DOMAIN s = {"mode", "mapping", "files", "points", "program", "deployed",
                            "running", "sim", "tcp"}
IsDisk(d)    == DOMAIN d = {"io", "mapping", "generated", "package"}

Whole(s) ==
  /\ s.mode = "Offline" <=> Bound(s) = {}
  /\ s.mode = "Offline" => ~s.running
  /\ HasTransport(s) <=> DOMAIN s.points # {}
  /\ ~(s.tcp /\ s.sim # None)
  /\ s.mode = "File" => DOMAIN s.points = {}
  /\ s.mode \in {"ModbusSim", "ModbusTcp"} => DOMAIN s.files = {}

Good(w) == IsWorld(w) /\ IsSession(w.session) /\ IsDisk(w.disk) /\ Whole(w.session)

\* What a deploy leaves on disk, what the session took over of it, and the session's state.
SameDeploy(v, w) ==
  /\ v.disk.mapping = w.disk.mapping /\ v.disk.generated = w.disk.generated
  /\ v.disk.package = w.disk.package
SameSession(v, w) ==
  v.session.deployed = w.session.deployed /\ v.session.mapping = w.session.mapping
SameState(v, w) == v.session.mode = w.session.mode /\ v.session.running = w.session.running

(***************************************************************************)
(* The session.                                                            *)
(***************************************************************************)
\* A simulated image that is there is not the absent one (session.rs:47).
LEMMA SomeIsNotNone == \A x : Some(x) # None
BY DEF Some, None

\* The session a bridge starts with is whole (session.rs:68-73).
LEMMA DefaultIsWhole == IsSession(Default) /\ Whole(Default)
BY DEF Default, IsSession, Whole, Bound, HasTransport, None

\* What connect leaves is a whole session, whatever was bound before (session.rs:94-198).
LEMMA OpenedIsWhole ==
  ASSUME NEW m, NEW program, NEW simulate \in BOOLEAN,
         Bound(Opened(Default, m, program, simulate)) # {}
  PROVE  LET s == Opened(Default, m, program, simulate) IN IsSession(s) /\ Whole(s)
<1> DEFINE s == Opened(Default, m, program, simulate)
<1>1. /\ IsSession(s) /\ Bound(s) # {}
      /\ s.mode = SessionMode(m, simulate) /\ s.files = Files[m] /\ s.points = Points[m]
      /\ ~s.running
      /\ s.sim = IF DOMAIN Points[m] # {} /\ simulate THEN Some(NoImage) ELSE None
      /\ s.tcp <=> DOMAIN Points[m] # {} /\ ~simulate
  BY DEF Default, Opened, IsSession
<1>2. Whole(s)
  <2> HIDE DEF s
  <2>1. s.mode # "Offline" /\ Bound(s) # {}
    BY <1>1 DEF SessionMode
  <2>2. HasTransport(s) <=> DOMAIN s.points # {}
    BY <1>1, SomeIsNotNone DEF HasTransport
  <2>3. ~(s.tcp /\ s.sim # None)
    BY <1>1
  <2>4. /\ s.mode = "File" => DOMAIN s.points = {}
        /\ s.mode \in {"ModbusSim", "ModbusTcp"} => DOMAIN s.files = {}
    <3>1. CASE DOMAIN Points[m] = {}
      BY <1>1, <3>1 DEF SessionMode
    <3>2. CASE DOMAIN Points[m] # {} /\ DOMAIN Files[m] # {}
      BY <1>1, <3>2 DEF SessionMode
    <3>3. CASE DOMAIN Points[m] # {} /\ DOMAIN Files[m] = {}
      BY <1>1, <3>3 DEF SessionMode
    <3> QED BY <3>1, <3>2, <3>3
  <2> QED BY <2>1, <2>2, <2>3, <2>4 DEF Whole
<1> QED BY <1>1, <1>2

\* What a control request leaves is a whole session (session.rs:229-245).
LEMMA ControlledIsWhole ==
  ASSUME NEW s, IsSession(s), Whole(s), s.mode # "Offline"
  PROVE  /\ \A b \in BOOLEAN : LET t == [s EXCEPT !.running = b] IN IsSession(t) /\ Whole(t)
         /\ IsSession(Reset(s)) /\ Whole(Reset(s))
BY SomeIsNotNone DEF Reset, IsSession, Whole, Bound, HasTransport, None

(***************************************************************************)
(* The handlers.                                                           *)
(***************************************************************************)
\* Reading I/O changes neither the session nor the files.
LEMMA ReadOutcome ==
  ASSUME NEW w, NEW o \in ReadIo(w)
  PROVE  o.world = w
BY DEF ReadIo, Failed, Outcome

\* Writing I/O changes the image or the device, and neither the mode nor the bindings.
LEMMA WriteOutcome ==
  ASSUME NEW w, Good(w), NEW symbol, NEW raw, NEW o \in WriteIo(w, symbol, raw)
  PROVE  Good(o.world) /\ SameDeploy(o.world, w) /\ SameSession(o.world, w) /\ SameState(o.world, w)
<1>1. CASE o.world = w
  BY <1>1 DEF Good, SameDeploy, SameSession, SameState
<1>2. ASSUME NEW x, o.world = WriteFile(w, symbol, x)
      PROVE  Good(o.world) /\ SameDeploy(o.world, w) /\ SameSession(o.world, w) /\ SameState(o.world, w)
  <2>1. o.world.session = w.session /\ IsWorld(o.world) /\ IsDisk(o.world.disk) /\ SameDeploy(o.world, w)
    BY <1>2 DEF Good, WriteFile, IsWorld, IsDisk, SameDeploy
  <2> QED BY <2>1 DEF Good, SameSession, SameState
<1>3. ASSUME NEW image, HasTransport(w.session), o.world = WithImage(w, image)
      PROVE  Good(o.world) /\ SameDeploy(o.world, w) /\ SameSession(o.world, w) /\ SameState(o.world, w)
  <2>1. CASE w.session.tcp
    BY <1>3, <2>1 DEF Good, WithImage, IsWorld, SameDeploy, SameSession, SameState
  <2>2. CASE ~w.session.tcp
    <3> DEFINE s == o.world.session
    <3>1. /\ o.world.disk = w.disk /\ IsWorld(o.world) /\ IsSession(s)
          /\ s = [w.session EXCEPT !.sim = Some(image)]
      BY <1>3, <2>2 DEF Good, WithImage, IsWorld, IsSession
    <3>2. Whole(s) /\ SameSession(o.world, w) /\ SameState(o.world, w)
      BY <1>3, <2>2, <3>1, SomeIsNotNone DEF Good, Whole, Bound, IsSession, HasTransport, SameSession, SameState
    <3> QED BY <3>1, <3>2 DEF Good, SameDeploy
  <2> QED BY <2>1, <2>2
<1>4. \/ o.world = w
      \/ \E x : o.world = WriteFile(w, symbol, x)
      \/ HasTransport(w.session) /\ \E image : o.world = WithImage(w, image)
  BY DEF WriteIo, Failed, Outcome
<1> QED BY <1>1, <1>2, <1>3, <1>4

\* A control request leaves a good world and the deploy alone, or fails.
LEMMA ControlOutcome ==
  ASSUME NEW w, Good(w), NEW action \in {"run", "stop", "reset"}, NEW o \in Control(w, action)
  PROVE  Good(o.world) /\ SameDeploy(o.world, w) /\ SameSession(o.world, w)
<1>1. CASE o.world = w
  BY <1>1 DEF Good, SameDeploy, SameSession
<1>2. ASSUME NEW s, IsSession(s), Whole(s), s.deployed = w.session.deployed, s.mapping = w.session.mapping,
             o.world = [w EXCEPT !.session = s]
      PROVE  Good(o.world) /\ SameDeploy(o.world, w) /\ SameSession(o.world, w)
  BY <1>2 DEF Good, IsWorld, SameDeploy, SameSession
<1>3. CASE w.session.mode # "Offline"
  <2> DEFINE run(b) == [w.session EXCEPT !.running = b]
  <2>1. \/ \E b \in BOOLEAN : o.world = [w EXCEPT !.session = run(b)]
        \/ o.world = [w EXCEPT !.session = Reset(w.session)]
    <3>1. CASE action = "run"
      <4>1. o.world = [w EXCEPT !.session.running = TRUE]
        BY <1>3, <3>1 DEF Control, Outcome
      <4> QED BY <4>1
    <3>2. CASE action = "stop"
      <4>1. o.world = [w EXCEPT !.session.running = FALSE]
        BY <1>3, <3>2 DEF Control, Outcome
      <4> QED BY <4>1
    <3>3. CASE action = "reset"
      BY <1>3, <3>3 DEF Control, Outcome
    <3> QED BY <3>1, <3>2, <3>3
  <2>2. \A b \in BOOLEAN : /\ IsSession(run(b)) /\ Whole(run(b))
                           /\ run(b).deployed = w.session.deployed /\ run(b).mapping = w.session.mapping
    BY <1>3, ControlledIsWhole DEF Good, IsSession
  <2>3. /\ IsSession(Reset(w.session)) /\ Whole(Reset(w.session))
        /\ Reset(w.session).deployed = w.session.deployed /\ Reset(w.session).mapping = w.session.mapping
    BY <1>3, ControlledIsWhole DEF Good, IsSession, Reset
  <2> HIDE DEF run
  <2> QED BY <1>2, <2>1, <2>2, <2>3
<1>4. CASE w.session.mode = "Offline"
  BY <1>1, <1>4 DEF Control, Failed, Outcome
<1> QED BY <1>3, <1>4

\* Seeding the file bindings keeps the world good, also when it stops half-way.
LEMMA SeededIsGood ==
  ASSUME NEW w, Good(w), NEW written
  PROVE  Good(Seeded(w, written)) /\ SameDeploy(Seeded(w, written), w)
<1> DEFINE v == Seeded(w, written)
<1>1. v.session = w.session /\ IsWorld(v) /\ IsDisk(v.disk) /\ SameDeploy(v, w)
  BY DEF Good, Seeded, IsWorld, IsDisk, SameDeploy
<1> QED BY <1>1 DEF Good

\* Connect leaves a good world, on success and on each of its errors.
LEMMA ConnectOutcome ==
  ASSUME NEW w, Good(w), NEW m, NEW program, NEW simulate \in BOOLEAN,
         NEW o \in Connect(w, m, program, simulate)
  PROVE  Good(o.world) /\ SameDeploy(o.world, w)
<1> DEFINE cleared == [w EXCEPT !.session = Default]
           opened  == [cleared EXCEPT !.session = Opened(Default, m, program, simulate)]
           whole   == Seeded(opened, Missing(opened))
<1>1. Good(cleared) /\ SameDeploy(cleared, w)
  BY DefaultIsWhole DEF Good, IsWorld, SameDeploy
<1>2. Bound(opened.session) # {} => Good(opened) /\ SameDeploy(opened, w)
  BY OpenedIsWhole DEF Good, IsWorld, SameDeploy
<1>3. \/ o.world = cleared
      \/ Bound(opened.session) # {} /\ \E written : o.world = Seeded(opened, written)
  <2>1. [[w EXCEPT !.session = Cleared(@)] EXCEPT !.session = Opened(@, m, program, simulate)] = opened
    BY DEF Cleared, Good, IsWorld
  <2>2. [w EXCEPT !.session = Cleared(@)] = cleared
    BY DEF Cleared
  <2>3. \/ o \in {Failed(cleared)}
        \/ o \in {Failed(Seeded(opened, part)) : part \in {p \in SUBSET Missing(opened) :
                                     Bound(opened.session) # {} /\ p # Missing(opened)}}
        \/ o \in {r \in ReadIo(whole) : Bound(opened.session) # {}}
    BY <2>1, <2>2, Zenon DEF Connect
  <2> HIDE DEF cleared, opened
  <2>4. o \in {r \in ReadIo(whole) : Bound(opened.session) # {}} => Bound(opened.session) # {} /\ o.world = whole
    BY ReadOutcome
  <2> QED BY <2>3, <2>4 DEF Failed, Outcome
<1> HIDE DEF cleared, opened
<1>4. ASSUME NEW written, Good(opened), SameDeploy(opened, w), o.world = Seeded(opened, written)
      PROVE  Good(o.world) /\ SameDeploy(o.world, w)
  BY <1>4, SeededIsGood DEF SameDeploy
<1> QED BY <1>1, <1>2, <1>3, <1>4

\* Disconnect leaves the default session, which is good.
LEMMA DisconnectOutcome ==
  ASSUME NEW w, Good(w), NEW o \in Disconnect(w)
  PROVE  Good(o.world) /\ SameDeploy(o.world, w)
BY DefaultIsWhole DEF Disconnect, Outcome, Good, IsWorld, SameDeploy

\* Deploy leaves a good world: the hashes of the session change only after all three files are written.
LEMMA DeployOutcome ==
  ASSUME NEW w, Good(w), NEW d, NEW m, NEW parts, NEW o \in Deploy(w, d, m, parts)
  PROVE  /\ Good(o.world)
         /\ o.ok => /\ o.world.disk.mapping = [of |-> d, text |-> m]
                    /\ "generated" \in parts => o.world.disk.generated = d
                    /\ "package" \in parts => o.world.disk.package = d
                    /\ o.world.session.deployed /\ o.world.session.mapping = m
<1> DEFINE disk(upto) == Written(w.disk, d, m, parts, upto)
<1>1. \A upto \in 0..3 : IsDisk(disk(upto))
  BY DEF Good, IsDisk, Written
<1>2. CASE \E upto \in 0..2 : o = Failed([w EXCEPT !.disk = disk(upto)])
  <2> PICK upto \in 0..2 : o = Failed([w EXCEPT !.disk = disk(upto)])
    BY <1>2
  <2> HIDE DEF disk
  <2> QED BY <1>1 DEF Failed, Outcome, Good, IsWorld
<1>3. CASE o = Outcome([w EXCEPT !.disk = disk(3), !.session.deployed = TRUE,
                                 !.session.program = TRUE, !.session.mapping = m], TRUE)
  <2>1. /\ disk(3).mapping = [of |-> d, text |-> m]
        /\ "generated" \in parts => disk(3).generated = d
        /\ "package" \in parts => disk(3).package = d
    BY DEF Good, IsDisk, Written
  <2> HIDE DEF disk
  <2> DEFINE s == [w.session EXCEPT !.deployed = TRUE, !.program = TRUE, !.mapping = m]
  <2>2. o.world.disk = disk(3) /\ o.world.session = s /\ IsWorld(o.world)
    BY <1>3 DEF Outcome, Good, IsWorld
  <2>3. IsSession(s) /\ s.deployed /\ s.mapping = m
    BY DEF Good, IsSession
  <2>4. Whole(s)
    BY DEF Good, IsSession, Whole, Bound, HasTransport
  <2> HIDE DEF s
  <2> QED BY <1>1, <2>1, <2>2, <2>3, <2>4 DEF Good
<1> QED BY <1>2, <1>3 DEF Deploy
(***************************************************************************)
(* The inductive invariant of the session and of deploys: requests carry   *)
(* what their handlers look for, and a deploy remembered by the history is *)
(* described by what is on disk.                                           *)
(***************************************************************************)
Ops == {"connect", "disconnect", "download", "refresh", "run", "stop", "reset", "write", "status"}
IsDeploy(d) == DOMAIN d = {"mapping", "parts", "number"}

\* What write_io may be sent: a truth value, a number, or a text that displays one.
IsRaw(x) ==
  \/ x = Flag(x.v) /\ x.v \in BOOLEAN
  \/ x \in {Num(x.v), Text(x.v)} /\ x.v \in Int

CallOK(c) ==
  /\ c.step \in {"idle", "sent", "served"}
  /\ c.step # "idle" => c.op \in Ops
  /\ c.step = "sent" /\ c.op = "connect" => c.arg.simulate \in BOOLEAN /\ c.arg.mapping \in Mapping
  /\ c.step = "sent" /\ c.op = "write" => IsRaw(c.arg.raw)
  /\ c.step = "sent" /\ c.op = "download" => IsDeploy(c.arg)
  /\ c.step = "served" =>
       DOMAIN c = {"step", "op", "arg", "seen", "ok", "session", "values", "outdated"}

\* Who sends what; nobody waits for the answer to an orphan.
Role(k, c) ==
  /\ k = "restore" /\ c.step # "idle" => c.op \in {"status", "refresh"}
  /\ k = "force" /\ c.step # "idle" => c.op \in {"write", "refresh"}
  /\ k = "orphan" => c.step # "served"

CallsOK == DOMAIN calls = Caller /\ \A k \in Caller : CallOK(calls[k]) /\ Role(k, calls[k])

TraceOK ==
  /\ DOMAIN trace = {"outdated", "deploy", "written"}
  /\ trace.deploy # NoValue => IsDeploy(trace.deploy)

SessionInv == Good(world) /\ CallsOK /\ TraceOK /\ DeployIsWhole

(***************************************************************************)
(* And that of the display: an answer not overtaken is still true, and     *)
(* what is shown is true, outdated, or about to be replaced.               *)
(***************************************************************************)
IsTarget(c) == DOMAIN c = {"kind", "state", "deployed", "match"}

TargetsOK ==
  /\ IsTarget(ui) /\ IsTarget(persisted)
  /\ calls["action"].step # "idle" => IsTarget(calls["action"].seen)

FreshAnswers ==
  \A k \in {"action", "restore"} :
    calls[k].step = "served" /\ ~calls[k].outdated =>
      calls[k].session.state = ConnectionState(world.session)

ShownInv ==
  ui.kind = "hardware" /\ ui.state \in {"online", "running"} =>
    \/ trace.outdated
    \/ ui.state = ConnectionState(world.session)
    \/ calls["action"].step = "served" /\ calls["action"].op # "refresh"

DisplayInv == TargetsOK /\ FreshAnswers /\ ShownInv

\* A handler leaves a whole session, and changes a deploy only as a deploy.
LEMMA HandledOutcome ==
  ASSUME SessionInv, NEW c, CallOK(c), c.step = "sent", NEW o \in Handled(c)
  PROVE  /\ Good(o.world)
         /\ c.op # "download" => SameDeploy(o.world, world)
         /\ c.op \notin {"download", "connect", "disconnect"} => SameSession(o.world, world)
         /\ c.op \in {"write", "refresh", "status"} => SameState(o.world, world)
         /\ c.op = "download" /\ o.ok =>
              /\ o.world.disk.mapping = [of |-> c.arg.number, text |-> c.arg.mapping]
              /\ "generated" \in c.arg.parts => o.world.disk.generated = c.arg.number
              /\ "package" \in c.arg.parts => o.world.disk.package = c.arg.number
              /\ o.world.session.deployed /\ o.world.session.mapping = c.arg.mapping
<1>0. Good(world) /\ c.op \in Ops
  BY DEF SessionInv, CallOK
<1>1. CASE c.op = "connect"
  <2>1. o \in Connect(world, c.arg.mapping, TRUE, c.arg.simulate) /\ c.arg.simulate \in BOOLEAN
    BY <1>1 DEF Handled, CallOK
  <2> QED BY <1>0, <1>1, <2>1, ConnectOutcome
<1>2. CASE c.op = "disconnect"
  <2>1. o \in Disconnect(world)
    BY <1>2 DEF Handled
  <2> QED BY <1>0, <1>2, <2>1, DisconnectOutcome
<1>3. CASE c.op = "download"
  <2>1. o \in Deploy(world, c.arg.number, c.arg.mapping, c.arg.parts)
    BY <1>3 DEF Handled
  <2> QED BY <1>0, <1>3, <2>1, DeployOutcome
<1>4. CASE c.op = "write"
  <2>1. o \in WriteIo(world, c.arg.symbol, c.arg.raw)
    BY <1>4 DEF Handled
  <2> QED BY <1>0, <1>4, <2>1, WriteOutcome
<1>5. CASE c.op \in {"refresh", "status"}
  <2>1. o \in ReadIo(world) \/ o = Outcome(world, world.session.mode # "Offline")
    BY <1>5 DEF Handled
  <2>2. o.world = world
    BY <2>1, ReadOutcome DEF Outcome
  <2> QED BY <1>0, <1>5, <2>2 DEF SameDeploy, SameSession, SameState
<1>6. CASE c.op \in {"run", "stop", "reset"}
  <2>1. o \in Control(world, c.op)
    BY <1>6 DEF Handled
  <2> QED BY <1>0, <1>6, <2>1, ControlOutcome
<1> QED BY <1>0, <1>1, <1>2, <1>3, <1>4, <1>5, <1>6 DEF Ops

(***************************************************************************)
(* The calls.                                                              *)
(***************************************************************************)
\* An answer that a later request makes out of date keeps the calls in order.
LEMMA OvertakenCall ==
  ASSUME NEW k, NEW c, CallOK(c), Role(k, c)
  PROVE  /\ CallOK(Overtaken(c)) /\ Role(k, Overtaken(c))
         /\ Overtaken(c).step = c.step
         /\ c.step # "idle" => Overtaken(c).op = c.op
         /\ c.step = "served" => Overtaken(c).outdated /\ Overtaken(c).seen = c.seen
<1>1. CASE c.step = "served"
  <2> DEFINE d == [c EXCEPT !.outdated = TRUE]
  <2>1. DOMAIN d = DOMAIN c /\ d.step = c.step /\ d.op = c.op /\ d.seen = c.seen /\ d.outdated
    BY <1>1 DEF CallOK
  <2>2. Overtaken(c) = d
    BY <1>1 DEF Overtaken
  <2> HIDE DEF d
  <2> QED BY <1>1, <2>1, <2>2 DEF CallOK, Role
<1>2. CASE c.step # "served"
  BY <1>2 DEF Overtaken
<1> QED BY <1>1, <1>2

\* The answer the bridge gives to a waiting call is one that call may get.
LEMMA ServedCall ==
  ASSUME NEW k \in Caller, k # "orphan", NEW c, CallOK(c), Role(k, c), c.step = "sent", NEW o
  PROVE  LET d == Served(c, o) IN
         /\ CallOK(d) /\ Role(k, d) /\ d.step = "served" /\ d.op = c.op /\ d.seen = c.seen
         /\ d.session.state = ConnectionState(o.world.session)
BY DEF Served, CallOK, Role, Answer, Caller

\* Sending one request, or ending the handling of an answer, keeps the calls in order.
LEMMA OneCall ==
  ASSUME CallsOK, NEW k \in Caller, NEW c, CallOK(c), Role(k, c), calls' = [calls EXCEPT ![k] = c]
  PROVE  CallsOK'
BY DEF CallsOK

\* A call that is not under way is in order.
LEMMA IdleCall == \A k : CallOK(Idle) /\ Role(k, Idle)
BY DEF CallOK, Role, Idle

\* A call just sent by a handler of the IDE is in order.
LEMMA SentCall ==
  ASSUME NEW k, NEW op \in Ops, NEW arg, NEW seen,
         op = "connect" => arg.simulate \in BOOLEAN /\ arg.mapping \in Mapping,
         op = "write" => IsRaw(arg.raw),
         op = "download" => IsDeploy(arg),
         k = "restore" => op \in {"status", "refresh"},
         k = "force" => op \in {"write", "refresh"}
  PROVE  CallOK(Sent(op, arg, seen)) /\ Role(k, Sent(op, arg, seen))
BY DEF CallOK, Role, Sent

\* What the IDE makes of a typed value is one of the three (App.tsx).
LEMMA CoercedValue ==
  ASSUME NEW typed \in Typed, NEW current
  PROVE  IsRaw(Coerced(typed, current))
<1>1. CASE typed = Flag(typed.v) /\ typed.v \in BOOLEAN
  BY <1>1 DEF Coerced, IsRaw, Flag
<1>2. CASE typed = Num(typed.v) /\ typed.v \in Int
  BY <1>2 DEF Coerced, IsRaw, Flag, Num, Text
<1> QED BY <1>1, <1>2, TypedAssumption

\* Every step keeps the calls in order.
LEMMA CallsStep == SessionInv /\ [Next]_vars => CallsOK'
<1> SUFFICES ASSUME SessionInv, [Next]_vars PROVE CallsOK'
  OBVIOUS
<1>0. CallsOK
  BY DEF SessionInv
<1>1. CASE UNCHANGED calls
  BY <1>0, <1>1 DEF CallsOK
<1>2. ASSUME NEW k \in {"action", "force"}, NEW op \in Ops, NEW arg, Send(k, op, arg),
             op = "connect" => arg.simulate \in BOOLEAN /\ arg.mapping \in Mapping,
             op = "write" => IsRaw(arg.raw),
             op = "download" => IsDeploy(arg), k = "force" => op = "write"
      PROVE  CallsOK'
  <2> DEFINE c == Sent(op, arg, IF k = "action" THEN ui ELSE NoValue)
  <2>1. calls' = [calls EXCEPT ![k] = c]
    BY <1>2 DEF Send
  <2>2. CallOK(c) /\ Role(k, c)
    BY <1>2, SentCall
  <2> HIDE DEF c
  <2> QED BY <1>0, <2>1, <2>2, OneCall DEF Caller
<1>3. ASSUME NEW m \in Mapping, NEW simulate \in Simulate, StartConnect(m, simulate) PROVE CallsOK'
  <2>1. simulate \in BOOLEAN
    BY SimulateAssumption
  <2> QED BY <1>2, <1>3, <2>1 DEF StartConnect, Ops
<1>4. ASSUME NEW m \in Mapping, NEW parts \in Parts, StartDeploy(m, parts) PROVE CallsOK'
  BY <1>2, <1>4 DEF StartDeploy, Ops, IsDeploy
<1>5. ASSUME NEW op \in {"disconnect", "refresh", "run", "stop", "reset"}, StartAction(op) PROVE CallsOK'
  BY <1>2, <1>5 DEF StartAction, Ops
<1>6. ASSUME NEW symbol \in Symbol, NEW typed \in Typed, StartForce(symbol, typed) PROVE CallsOK'
  <2> DEFINE raw == Coerced(typed, Shown(symbol))
  <2>1. IsRaw(raw)
    BY CoercedValue
  <2>2. Send("force", "write", [symbol |-> symbol, raw |-> raw])
    BY <1>6 DEF StartForce
  <2> HIDE DEF raw
  <2> QED BY <1>2, <2>1, <2>2 DEF Ops
<1>7. CASE User
  BY <1>1, <1>3, <1>4, <1>5, <1>6, <1>7 DEF User, SelectTarget, Edit, Save
<1>8. CASE Reload
  <2>1. CallOK(Sent("status", NoValue, NoValue)) /\ Role("restore", Sent("status", NoValue, NoValue))
    BY SentCall DEF Ops
  <2>2. calls["action"].step = "sent" => CallOK(calls["action"]) /\ Role("orphan", calls["action"])
    BY <1>0 DEF CallsOK, Role, Caller
  <2>3. /\ DOMAIN calls' = Caller
        /\ \A k \in Caller : \/ k = "restore" /\ calls'[k] = Sent("status", NoValue, NoValue)
                             \/ k = "orphan" /\ calls["action"].step = "sent" /\ calls'[k] = calls["action"]
                             \/ calls'[k] = Idle
    BY <1>8 DEF Reload
  <2> QED BY <2>1, <2>2, <2>3, IdleCall DEF CallsOK
<1>9. CASE BridgeRestart
  <2>1. calls' = [k \in Caller |-> Overtaken(calls[k])]
    BY <1>9 DEF BridgeRestart
  <2>2. \A k \in Caller : CallOK(Overtaken(calls[k])) /\ Role(k, Overtaken(calls[k]))
    BY <1>0, OvertakenCall DEF CallsOK
  <2> QED BY <2>1, <2>2 DEF CallsOK
<1>10. ASSUME NEW k \in {"action", "restore", "force"}, Done(k) PROVE CallsOK'
  BY <1>0, <1>10, IdleCall, OneCall DEF Done, Caller
<1>11. ASSUME NEW k \in {"action", "restore", "force"}, FollowUp(k, "refresh") PROVE CallsOK'
  <2> DEFINE c == Sent("refresh", NoValue, calls[k].seen)
  <2>1. calls' = [calls EXCEPT ![k] = c]
    BY <1>11 DEF FollowUp
  <2>2. CallOK(c) /\ Role(k, c)
    BY SentCall DEF Ops
  <2> HIDE DEF c
  <2> QED BY <1>0, <2>1, <2>2, OneCall DEF Caller
<1>12. CASE Handler
  BY <1>10, <1>11, <1>12 DEF Handler, ActionAnswered, RestoreAnswered, ForceAnswered
<1>13. ASSUME NEW k \in Caller, Serve(k) PROVE CallsOK'
  <2>1. calls[k].step = "sent"
    BY <1>13 DEF Serve
  <2>2. PICK o : calls' = [c \in Caller |->
            CASE c = k -> IF c = "orphan" THEN Idle ELSE Served(calls[c], o)
              [] c # k -> IF Changed THEN Overtaken(calls[c]) ELSE calls[c]]
    BY <1>13 DEF Serve
  <2>3. CallOK(calls'[k]) /\ Role(k, calls'[k])
    <3>1. calls'[k] = IF k = "orphan" THEN Idle ELSE Served(calls[k], o)
      BY <2>2
    <3> QED BY <1>0, <2>1, <3>1, ServedCall, IdleCall DEF CallsOK
  <2>4. ASSUME NEW c \in Caller, c # k PROVE CallOK(calls'[c]) /\ Role(c, calls'[c])
    <3>1. calls'[c] = IF Changed THEN Overtaken(calls[c]) ELSE calls[c]
      BY <2>2, <2>4
    <3> QED BY <1>0, <3>1, OvertakenCall DEF CallsOK
  <2>5. DOMAIN calls' = Caller
    BY <2>2
  <2> QED BY <2>3, <2>4, <2>5 DEF CallsOK
<1> QED BY <1>1, <1>7, <1>8, <1>9, <1>12, <1>13 DEF Next, vars

(***************************************************************************)
(* Sessions and deploys.                                                   *)
(***************************************************************************)
\* The session invariant holds when bridge and IDE start.
LEMMA SessionInit == Init => SessionInv
<1> SUFFICES ASSUME Init PROVE SessionInv
  OBVIOUS
<1>1. Good(world)
  BY DefaultIsWhole DEF Init, Good, IsWorld, IsDisk, EmptyDisk
<1>2. CallsOK
  BY IdleCall DEF Init, CallsOK
<1>3. TraceOK /\ DeployIsWhole
  BY DEF Init, TraceOK, DeployIsWhole
<1> QED BY <1>1, <1>2, <1>3 DEF SessionInv

\* A step that leaves the bridge and its last deploy alone
LEMMA QuietStep ==
  ASSUME SessionInv, CallsOK', world' = world,
         trace'.deploy = trace.deploy, DOMAIN trace' = DOMAIN trace
  PROVE  SessionInv'
BY DEF SessionInv, Good, TraceOK, DeployIsWhole

\* Every step of bridge and IDE keeps the session invariant.
LEMMA SessionStep == SessionInv /\ [Next]_vars => SessionInv'
<1> SUFFICES ASSUME SessionInv, [Next]_vars PROVE SessionInv'
  OBVIOUS
<1>0. CallsOK' /\ Good(world) /\ TraceOK /\ DeployIsWhole /\ CallsOK
  BY CallsStep DEF SessionInv
<1>1. ASSUME world' = world, UNCHANGED trace \/ \E b : trace' = [trace EXCEPT !.outdated = b]
      PROVE  SessionInv'
  <2>1. trace'.deploy = trace.deploy /\ DOMAIN trace' = DOMAIN trace
    BY <1>0, <1>1 DEF TraceOK
  <2> QED BY <1>0, <1>1, <2>1, QuietStep
<1>2. CASE UNCHANGED vars
  BY <1>1, <1>2 DEF vars
<1>3. CASE User
  BY <1>1, <1>3 DEF User, SelectTarget, StartConnect, StartDeploy, StartAction, StartForce, Edit, Save
<1>4. CASE Reload
  BY <1>1, <1>4 DEF Reload
<1>5. CASE Handler
  BY <1>1, <1>5 DEF Handler, ActionAnswered, RestoreAnswered, ForceAnswered, Marked
<1>6. CASE BridgeRestart
  <2>1. Good(world') /\ SameDeploy(world', world)
    BY <1>0, <1>6, DefaultIsWhole DEF BridgeRestart, Good, IsWorld, SameDeploy
  <2>2. /\ DOMAIN trace' = DOMAIN trace
        /\ trace'.deploy = IF trace.deploy = NoValue THEN NoValue ELSE [trace.deploy EXCEPT !.mapping = NoValue]
    BY <1>0, <1>6 DEF BridgeRestart, TraceOK
  <2>3. TraceOK' /\ DeployIsWhole'
    BY <1>0, <2>1, <2>2 DEF TraceOK, IsDeploy, DeployIsWhole, SameDeploy
  <2> QED BY <1>0, <2>1, <2>3 DEF SessionInv
<1>7. ASSUME NEW k \in Caller, Serve(k) PROVE SessionInv'
  <2> DEFINE c == calls[k]
  <2>1. c.step = "sent" /\ CallOK(c)
    BY <1>0, <1>7 DEF Serve, CallsOK
  <2>2. PICK o \in Handled(c) :
          /\ world' = o.world
          /\ trace' = [trace EXCEPT !.outdated = @ \/ (k = "orphan" /\ Changed),
                                    !.written = ServedWrites(c, o.ok),
                                    !.deploy = ServedDeploy(c, o.ok)]
    BY <1>7 DEF Serve
  <2>3. DOMAIN trace' = DOMAIN trace /\ trace'.deploy = ServedDeploy(c, o.ok)
    BY <1>0, <2>2 DEF TraceOK
  <2> HIDE DEF c
  <2>4. TraceOK' /\ DeployIsWhole'
    <3>1. CASE c.op = "download" /\ o.ok
      <4>1. trace'.deploy = c.arg /\ IsDeploy(c.arg)
        BY <2>1, <2>3, <3>1 DEF ServedDeploy, CallOK
      <4>2. TraceOK'
        BY <1>0, <2>3, <4>1 DEF TraceOK
      <4>3. DeployIsWhole'
        <5>1. /\ world'.disk.mapping = [of |-> c.arg.number, text |-> c.arg.mapping]
              /\ "generated" \in c.arg.parts => world'.disk.generated = c.arg.number
              /\ "package" \in c.arg.parts => world'.disk.package = c.arg.number
              /\ world'.session.deployed /\ world'.session.mapping = c.arg.mapping
          BY <2>1, <2>2, <3>1, HandledOutcome
        <5> QED BY <4>1, <5>1 DEF DeployIsWhole
      <4> QED BY <4>2, <4>3
    <3>2. CASE c.op = "download" /\ ~o.ok
      <4>1. trace'.deploy = NoValue
        BY <2>3, <3>2 DEF ServedDeploy
      <4> QED BY <1>0, <2>3, <4>1 DEF TraceOK, DeployIsWhole
    <3>3. CASE c.op \in {"connect", "disconnect"}
      <4>1. SameDeploy(world', world)
        BY <2>1, <2>2, <3>3, HandledOutcome
      <4>2. trace'.deploy = IF trace.deploy = NoValue THEN NoValue ELSE [trace.deploy EXCEPT !.mapping = NoValue]
        BY <2>3, <3>3 DEF ServedDeploy
      <4> QED BY <1>0, <2>3, <4>1, <4>2 DEF TraceOK, IsDeploy, DeployIsWhole, SameDeploy
    <3>4. CASE c.op \notin {"download", "connect", "disconnect"}
      <4>1. SameDeploy(world', world) /\ SameSession(world', world)
        BY <2>1, <2>2, <3>4, HandledOutcome
      <4>2. trace'.deploy = trace.deploy
        BY <2>3, <3>4 DEF ServedDeploy
      <4> QED BY <1>0, <2>3, <4>1, <4>2 DEF TraceOK, DeployIsWhole, SameDeploy, SameSession
    <3> QED BY <3>1, <3>2, <3>3, <3>4
  <2>5. Good(world')
    BY <2>1, <2>2, HandledOutcome
  <2> QED BY <1>0, <2>4, <2>5 DEF SessionInv
<1> QED BY <1>2, <1>3, <1>4, <1>5, <1>6, <1>7 DEF Next

\* The session invariant always holds.
LEMMA SessionInvariant == Spec => []SessionInv
BY SessionInit, SessionStep, PTL DEF Spec

(***************************************************************************)
(* However connect, control, deploy, reads and writes fail, the bridge's   *)
(* session is offline with nothing bound and nothing running, or online    *)
(* with a transport exactly if it has points (session.rs:94-243).          *)
(***************************************************************************)
THEOREM SessionsAreWhole == Spec => []SessionIsWhole
<1>1. SessionInv => SessionIsWhole
  BY DEF SessionInv, Good, Whole, SessionIsWhole
<1> QED BY <1>1, SessionInvariant, PTL

(***************************************************************************)
(* The disk and the session describe one deploy from the moment it is      *)
(* acknowledged until the next one is tried (session.rs:247-286).          *)
(***************************************************************************)
THEOREM DeploysAreWhole == Spec => []DeployIsWhole
<1>1. SessionInv => DeployIsWhole
  BY DEF SessionInv
<1> QED BY <1>1, SessionInvariant, PTL

(***************************************************************************)
(* Writes that were acknowledged.                                          *)
(***************************************************************************)
IsBound(s) ==
  /\ \A symbol \in DOMAIN s.files : s.files[symbol] \in Encoding
  /\ \A symbol \in DOMAIN s.points : s.points[symbol].area \in ModbusArea

ReadsBack(w, symbol, raw) ==
  /\ symbol \in Bound(w.session)
  /\ symbol \in DOMAIN w.session.files => PathOf[symbol] \in DOMAIN w.disk.io
  /\ Keeps(w.session, symbol, raw, ReadSymbol(w, symbol))

\* What w promises of other symbols, v still gives.
OthersReadBack(v, w, symbol) ==
  \A a, x : ReadsBack(w, a, x) /\ a # symbol /\ ~SamePlace(w.session, a, symbol)
              => ReadsBack(v, a, x)

SameIo(v, w) ==
  /\ v.session.files = w.session.files /\ v.session.points = w.session.points
  /\ v.session.sim = w.session.sim /\ v.session.tcp = w.session.tcp
  /\ v.disk.io = w.disk.io /\ v.device = w.device

WriteInv ==
  /\ IsBound(world.session)
  /\ \A symbol \in DOMAIN trace.written : ReadsBack(world, symbol, trace.written[symbol])

\* Where bindings and what is read are the same, so is the promise.
LEMMA SameReading ==
  ASSUME NEW v, NEW w, NEW a, NEW x, ReadsBack(w, a, x),
         v.session.files = w.session.files, v.session.points = w.session.points,
         ReadSymbol(v, a) = ReadSymbol(w, a), DOMAIN w.disk.io \subseteq DOMAIN v.disk.io
  PROVE  ReadsBack(v, a, x)
BY DEF ReadsBack, Keeps, Bound

\* What reading gives depends on bindings, files, image and device alone.
LEMMA SameIoReads ==
  ASSUME NEW v, NEW w, SameIo(v, w)
  PROVE  /\ IsBound(w.session) => IsBound(v.session)
         /\ \A symbol, raw : ReadsBack(w, symbol, raw) => ReadsBack(v, symbol, raw)
<1>1. IsBound(w.session) => IsBound(v.session)
  BY DEF SameIo, IsBound
<1>2. \A symbol : ReadSymbol(v, symbol) = ReadSymbol(w, symbol)
  BY DEF SameIo, ReadSymbol, ImageOf
<1>3. \A symbol, raw, x : Keeps(w.session, symbol, raw, x) => Keeps(v.session, symbol, raw, x)
  <2>1. w.session.files = v.session.files /\ w.session.points = v.session.points
    BY DEF SameIo
  <2> SUFFICES ASSUME NEW symbol, NEW raw, NEW x
               PROVE  Keeps(w.session, symbol, raw, x) = Keeps(v.session, symbol, raw, x)
    BY Zenon
  <2> QED BY <2>1 DEF Keeps
<1>4. Bound(v.session) = Bound(w.session)
  BY DEF SameIo, Bound
<1> QED BY <1>1, <1>2, <1>3, <1>4 DEF ReadsBack, SameIo

\* A file gives back what was encoded into it (lib.rs:1874-1904, session.rs:500-524).
LEMMA FileKeeps ==
  ASSUME NEW encoding \in Encoding, NEW raw, IsRaw(raw), FileValue(encoding, raw) # NoValue
  PROVE  LET x == Decoded(encoding, Encoded(encoding, FileValue(encoding, raw))) IN
         CASE encoding = "Bool01"  -> raw.kind = "BOOL" => x = raw
           [] encoding = "Decimal" -> x = Num(raw.v)
           [] encoding = "Text"    -> x.v = raw.v
<1>1. CASE encoding = "Bool01"
  <2>1. ASSUME raw.kind = "BOOL" PROVE raw = Flag(raw.v) /\ raw.v \in BOOLEAN
    BY <2>1 DEF IsRaw, Num, Text
  <2>2. ASSUME raw.kind = "BOOL"
        PROVE  Decoded(encoding, Encoded(encoding, FileValue(encoding, raw))) = raw
    <3>1. FileValue(encoding, raw) = Flag(raw.v)
      BY <1>1, <2>1, <2>2 DEF FileValue
    <3>2. CASE raw.v
      BY <1>1, <2>1, <2>2, <3>1, <3>2 DEF Encoded, Decoded, Flag, Num, Truth
    <3>3. CASE ~raw.v
      BY <1>1, <2>1, <2>2, <3>1, <3>3 DEF Encoded, Decoded, Flag, Num, Truth
    <3> QED BY <3>2, <3>3
  <2> QED BY <1>1, <2>2
<1>2. CASE encoding = "Decimal"
  <2>1. raw.v \in Int /\ FileValue(encoding, raw) = Num(raw.v)
    BY <1>2 DEF FileValue, IsRaw, Flag, Num, Text
  <2> QED BY <1>2, <2>1 DEF Encoded, Decoded, Num, Number
<1>3. CASE encoding = "Text"
  <2>1. FileValue(encoding, raw) = raw
    BY <1>3 DEF FileValue
  <2> QED BY <1>3, <2>1 DEF Encoded, Decoded, IsRaw, Flag, Num, Text
<1> QED BY <1>1, <1>2, <1>3 DEF Encoding

\* The largest value of a register is a natural (hal.rs: u16::MAX): a register of n bits
\* has as many contents as there are sets of bits.
LEMMA RegisterMaxType == RegisterMax \in Nat
<1> DEFINE n == 2 * ByteBits
<1>1. n \in Nat
  BY ByteBitsAssumption
<1>2. IsFiniteSet(1..n) /\ Cardinality(1..n) = n
  BY <1>1, FS_Interval
<1>3. IsFiniteSet(SUBSET (1..n)) /\ Cardinality(SUBSET (1..n)) = 2 ^ n
  BY <1>2, FS_SUBSET
<1>4. 2 ^ n \in Nat
  BY <1>3, FS_CardinalityType
<1>5. 2 ^ n # 0
  <2>1. {} \in SUBSET (1..n)
    OBVIOUS
  <2> QED BY <2>1, <1>3, FS_EmptySet
<1> HIDE DEF n
<1>6. 2 ^ n - 1 \in Nat
  BY <1>4, <1>5
<1> QED BY <1>6 DEF n, RegisterMax, Pow2

\* A coil or register gives back what was written to it, cut to its range.
LEMMA PointKeeps ==
  ASSUME NEW point, point.area \in ModbusArea, NEW raw, IsRaw(raw), NEW image, Writable(point.area)
  PROVE  LET written == ModbusWrite(image, point, PointValue(point, raw)).image
             x       == ModbusRead(written, point)
         IN  IF IsBit(point.area) THEN raw.kind = "BOOL" => x = raw
             ELSE raw.kind = "INT" => /\ x.v \in 0..RegisterMax
                                      /\ raw.v \in 0..RegisterMax => x.v = raw.v
                                      /\ raw.v > RegisterMax => x.v = RegisterMax
                                      /\ raw.v < 0 => x.v = 0
<1> DEFINE value == PointValue(point, raw)
           kept  == IF IsBit(point.area) THEN Flag(Truth(value)) ELSE Num(Register(Number(value)))
           x     == ModbusRead(ModbusWrite(image, point, value).image, point)
<1>1. x = kept
  <2>1. ModbusWrite(image, point, value).image = Stored(image, point, kept)
    BY DEF ModbusWrite
  <2> HIDE DEF kept, value
  <2> QED BY <2>1 DEF ModbusRead, Stored
<1>2. CASE IsBit(point.area)
  <2>1. ASSUME raw.kind = "BOOL" PROVE x = raw
    <3>1. raw = Flag(raw.v) /\ raw.v \in BOOLEAN
      BY <2>1 DEF IsRaw, Num, Text
    <3>2. value = Flag(raw.v)
      BY <1>2, <2>1, <3>1 DEF PointValue
    <3>3. kept = Flag(Truth(value))
      BY <1>2
    <3> HIDE DEF kept, value, x
    <3>4. Truth(value) <=> raw.v
      BY <3>1, <3>2 DEF Truth, Flag
    <3>5. Truth(value) \in BOOLEAN
      BY <3>2 DEF Truth, Flag
    <3>6. Truth(value) = raw.v
      BY <3>1, <3>4, <3>5
    <3> QED BY <1>1, <3>1, <3>3, <3>6
  <2> QED BY <1>2, <2>1
<1>3. CASE ~IsBit(point.area)
  <2>1. ASSUME raw.kind = "INT"
        PROVE  /\ x.v \in 0..RegisterMax
               /\ raw.v \in 0..RegisterMax => x.v = raw.v
               /\ raw.v > RegisterMax => x.v = RegisterMax
               /\ raw.v < 0 => x.v = 0
    <3>1. raw.v \in Int
      BY <2>1 DEF IsRaw, Flag, Text
    <3>2. value = Num(Register(raw.v)) /\ kept = Num(Register(Number(value)))
      BY <1>3, <2>1 DEF PointValue
    <3>3. Number(value) = Register(raw.v)
      BY <3>2 DEF Number, Num
    <3>4. x.v = Register(Register(raw.v))
      <4> HIDE DEF kept, value, x
      <4> QED BY <1>1, <3>2, <3>3 DEF Num
    <3> HIDE DEF kept, value, x
    <3> QED BY <3>1, <3>4, RegisterMaxType DEF Register, Clamp
  <2> QED BY <1>3, <2>1
<1> QED BY <1>2, <1>3

\* What write_io acknowledged is read back at once, and what it says nothing of is read as before.
LEMMA WriteReadsBack ==
  ASSUME NEW w, Good(w), IsBound(w.session), NEW symbol, NEW raw, IsRaw(raw),
         NEW o \in WriteIo(w, symbol, raw)
  PROVE  /\ IsBound(o.world.session) /\ OthersReadBack(o.world, w, symbol)
         /\ o.ok => ReadsBack(o.world, symbol, raw)
<1> DEFINE s     == w.session
           value == FileValue(s.files[symbol], raw)
           point == s.points[symbol]
           image == ModbusWrite(ImageOf(w), point, PointValue(point, raw)).image
<1>1. CASE o = Failed(w)
  <2>1. o.world = w /\ ~o.ok
    BY <1>1 DEF Failed, Outcome
  <2>2. OthersReadBack(w, w, symbol)
    BY DEF OthersReadBack
  <2> QED BY <2>1, <2>2
<1>2. CASE symbol \in DOMAIN s.files /\ value # NoValue /\ o = Outcome(WriteFile(w, symbol, value), TRUE)
  <2> DEFINE content == Encoded(s.files[symbol], value)
  <2>1. s.files[symbol] \in Encoding
    BY <1>2 DEF IsBound
  <2>2. /\ o.world.session = s /\ o.world.device = w.device
        /\ o.world.disk.io = Stored(w.disk.io, PathOf[symbol], content)
    BY <1>2 DEF Outcome, WriteFile, Good, IsWorld, IsDisk
  <2>3. ReadSymbol(o.world, symbol) = Decoded(s.files[symbol], content)
    <3> HIDE DEF content
    <3> QED BY <1>2, <2>2 DEF ReadSymbol, Stored
  <2>4. Keeps(s, symbol, raw, Decoded(s.files[symbol], content))
    BY <1>2, <2>1, FileKeeps DEF Keeps
  <2> HIDE DEF content, value
  <2>5. DOMAIN o.world.disk.io = DOMAIN w.disk.io \cup {PathOf[symbol]}
    BY <2>2 DEF Stored
  <2>6. ASSUME NEW a, NEW x, ReadsBack(w, a, x), a # symbol, ~SamePlace(s, a, symbol)
        PROVE  ReadsBack(o.world, a, x)
    <3>1. CASE a \in DOMAIN s.files
      <4>1. PathOf[a] # PathOf[symbol] /\ PathOf[a] \in DOMAIN w.disk.io
        BY <1>2, <2>6, <3>1 DEF SamePlace, ReadsBack
      <4>2. o.world.disk.io[PathOf[a]] = w.disk.io[PathOf[a]]
        BY <2>2, <4>1 DEF Stored
      <4>3. ReadSymbol(o.world, a) = ReadSymbol(w, a)
        BY <2>2, <3>1, <4>2 DEF ReadSymbol
      <4> QED BY <2>2, <2>5, <2>6, <4>3, SameReading
    <3>2. CASE a \notin DOMAIN s.files
      <4>1. ReadSymbol(o.world, a) = ReadSymbol(w, a)
        BY <2>2, <3>2 DEF ReadSymbol, ImageOf
      <4> QED BY <2>2, <2>5, <2>6, <4>1, SameReading
    <3> QED BY <3>1, <3>2
  <2>7. OthersReadBack(o.world, w, symbol)
    BY <2>6 DEF OthersReadBack
  <2>8. ReadsBack(o.world, symbol, raw)
    BY <1>2, <2>2, <2>3, <2>4, <2>5 DEF ReadsBack, Bound
  <2> QED BY <2>2, <2>7, <2>8
<1>3. CASE /\ symbol \notin DOMAIN s.files /\ symbol \in DOMAIN s.points
           /\ HasTransport(s) /\ Writable(point.area)
           /\ \E ok \in BOOLEAN : o = Outcome(WithImage(w, image), ok)
  <2>1. point.area \in ModbusArea
    BY <1>3 DEF IsBound
  <2>2. /\ ImageOf(o.world) = image /\ o.world.disk = w.disk
        /\ o.world.session.files = s.files /\ o.world.session.points = s.points
    <3> HIDE DEF image
    <3>1. o.world = WithImage(w, image)
      BY <1>3 DEF Outcome
    <3>2. CASE s.tcp
      <4>1. o.world = [w EXCEPT !.device = image]
        BY <3>1, <3>2 DEF WithImage
      <4>2. o.world.session = s /\ o.world.device = image /\ o.world.disk = w.disk
        BY <4>1 DEF Good, IsWorld
      <4> QED BY <3>2, <4>2 DEF ImageOf
    <3>3. CASE ~s.tcp
      <4>1. o.world = [w EXCEPT !.session.sim = Some(image)]
        BY <3>1, <3>3 DEF WithImage
      <4>2. /\ o.world.session.sim = Some(image) /\ o.world.session.tcp = s.tcp
            /\ o.world.session.files = s.files /\ o.world.session.points = s.points
            /\ o.world.disk = w.disk
        BY <4>1 DEF Good, IsWorld, IsSession
      <4> QED BY <3>3, <4>2 DEF ImageOf, Some
    <3> QED BY <3>2, <3>3
  <2>3. ReadSymbol(o.world, symbol) = ModbusRead(image, point)
    <3> HIDE DEF image
    <3> QED BY <1>3, <2>2 DEF ReadSymbol
  <2>4. Keeps(s, symbol, raw, ModbusRead(image, point))
    BY <1>3, <2>1, PointKeeps DEF Keeps
  <2>5. PICK kept : image = Stored(ImageOf(w), point, kept)
    BY <1>3 DEF ModbusWrite
  <2> HIDE DEF image, point
  <2>6. Keeps(o.world.session, symbol, raw, ReadSymbol(o.world, symbol))
    BY <2>2, <2>3, <2>4 DEF Keeps
  <2>7. ASSUME NEW a, NEW x, ReadsBack(w, a, x), a # symbol, ~SamePlace(s, a, symbol)
        PROVE  ReadsBack(o.world, a, x)
    <3>1. CASE a \in DOMAIN s.files
      <4>1. ReadSymbol(o.world, a) = ReadSymbol(w, a)
        BY <2>2, <3>1 DEF ReadSymbol
      <4> QED BY <2>2, <2>7, <4>1, SameReading
    <3>2. CASE a \notin DOMAIN s.files
      <4>1. s.points[a] # point
        BY <1>3, <2>7, <3>2 DEF SamePlace, ReadsBack, Bound, point
      <4>2. ModbusRead(image, s.points[a]) = ModbusRead(ImageOf(w), s.points[a])
        BY <2>5, <4>1 DEF ModbusRead, Stored
      <4>3. ReadSymbol(o.world, a) = ReadSymbol(w, a)
        BY <2>2, <3>2, <4>2 DEF ReadSymbol
      <4> QED BY <2>2, <2>7, <4>3, SameReading
    <3> QED BY <3>1, <3>2
  <2>8. OthersReadBack(o.world, w, symbol)
    BY <2>7 DEF OthersReadBack
  <2>9. ReadsBack(o.world, symbol, raw)
    BY <1>3, <2>2, <2>6 DEF ReadsBack, Bound
  <2>10. IsBound(o.world.session)
    BY <2>2 DEF IsBound
  <2> QED BY <2>8, <2>9, <2>10
<1> QED BY <1>1, <1>2, <1>3 DEF WriteIo, Failed

\* A session that connect opens has bindings of its mapping, one that it gave up has none.
LEMMA ConnectBinds ==
  ASSUME NEW w, Good(w), NEW m \in Mapping, NEW simulate \in BOOLEAN,
         NEW o \in Connect(w, m, TRUE, simulate)
  PROVE  IsBound(o.world.session)
<1> DEFINE cleared == [w EXCEPT !.session = Cleared(@)]
           opened  == [cleared EXCEPT !.session = Opened(@, m, TRUE, simulate)]
           s       == Opened(Default, m, TRUE, simulate)
<1>1. cleared.session = Default /\ opened.session = s
  BY DEF Good, IsWorld, Cleared
<1>2. IsBound(Default)
  BY DEF IsBound, Default
<1>3. IsBound(s)
  <2>1. s.files = Files[m] /\ s.points = Points[m]
    BY DEF Opened, Default
  <2> HIDE DEF s
  <2> QED BY <2>1, BindingsAssumption DEF IsBound
<1>4. DOMAIN opened = {"session", "disk", "device"}
  BY DEF Good, IsWorld
<1>5. \A written : Seeded(opened, written).session = opened.session
  <2> HIDE DEF opened
  <2> QED BY <1>4 DEF Seeded
<1>6. \/ o.world = cleared
      \/ \E written : o.world = Seeded(opened, written)
  <2>1. CASE o = Failed(cleared)
    BY <2>1 DEF Failed, Outcome
  <2>2. CASE \E written : o = Failed(Seeded(opened, written))
    BY <2>2 DEF Failed, Outcome
  <2>3. CASE o \in ReadIo(Seeded(opened, Missing(opened)))
    BY <2>3, ReadOutcome
  <2> QED BY <2>1, <2>2, <2>3 DEF Connect
<1> HIDE DEF cleared, opened, s
<1> QED BY <1>1, <1>2, <1>3, <1>5, <1>6

\* A deploy leaves the files of the bindings and the bindings alone.
LEMMA DeployIo ==
  ASSUME NEW w, Good(w), NEW d, NEW m, NEW parts, NEW o \in Deploy(w, d, m, parts)
  PROVE  SameIo(o.world, w)
<1>1. \A upto : Written(w.disk, d, m, parts, upto).io = w.disk.io
  BY DEF Good, IsDisk, Written
<1>2. PICK upto \in 0..3 :
        /\ o.world.disk = Written(w.disk, d, m, parts, upto) /\ o.world.device = w.device
        /\ \/ o.world.session = w.session
           \/ o.world.session = [w.session EXCEPT !.deployed = TRUE, !.program = TRUE, !.mapping = m]
  <2>1. CASE \E upto \in 0..2 : o = Failed([w EXCEPT !.disk = Written(@, d, m, parts, upto)])
    <3> PICK upto \in 0..2 : o = Failed([w EXCEPT !.disk = Written(@, d, m, parts, upto)])
      BY <2>1
    <3>1. /\ o.world.disk = Written(w.disk, d, m, parts, upto)
          /\ o.world.device = w.device /\ o.world.session = w.session
      BY DEF Failed, Outcome, Good, IsWorld
    <3> QED BY <3>1
  <2>2. CASE o = Outcome([w EXCEPT !.disk = Written(@, d, m, parts, 3), !.session.deployed = TRUE,
                                   !.session.program = TRUE, !.session.mapping = m], TRUE)
    <3>1. /\ o.world.disk = Written(w.disk, d, m, parts, 3) /\ o.world.device = w.device
          /\ o.world.session =
               [w.session EXCEPT !.deployed = TRUE, !.program = TRUE, !.mapping = m]
      BY <2>2 DEF Outcome, Good, IsWorld
    <3> QED BY <3>1
  <2> QED BY <2>1, <2>2 DEF Deploy
<1> QED BY <1>1, <1>2 DEF SameIo, Good, IsSession

\* run and stop leave the bindings and the image alone; reset clears the simulator's image.
LEMMA ControlIo ==
  ASSUME NEW w, Good(w), IsBound(w.session), NEW action \in {"run", "stop", "reset"},
         NEW o \in Control(w, action)
  PROVE  /\ IsBound(o.world.session)
         /\ \A a, x : /\ ReadsBack(w, a, x)
                      /\ action = "reset" => w.session.tcp \/ a \in DOMAIN w.session.files
                      => ReadsBack(o.world, a, x)
<1>1. CASE o.world = w
  BY <1>1
<1>2. CASE \E b \in BOOLEAN : o.world = [w EXCEPT !.session.running = b]
  <2>1. SameIo(o.world, w)
    BY <1>2 DEF SameIo, Good, IsWorld, IsSession
  <2> QED BY <2>1, SameIoReads
<1>3. CASE action = "reset" /\ o.world = [w EXCEPT !.session = Reset(@)]
  <2>1. /\ o.world.session = Reset(w.session)
        /\ o.world.disk = w.disk /\ o.world.device = w.device
    BY <1>3 DEF Good, IsWorld
  <2>2. /\ o.world.session.files = w.session.files /\ o.world.session.points = w.session.points
        /\ o.world.session.tcp = w.session.tcp
    BY <2>1 DEF Reset, Good, IsSession
  <2>3. ASSUME NEW a, NEW x, ReadsBack(w, a, x), w.session.tcp \/ a \in DOMAIN w.session.files
        PROVE  ReadsBack(o.world, a, x)
    <3>1. ReadSymbol(o.world, a) = ReadSymbol(w, a)
      BY <2>1, <2>2, <2>3 DEF ReadSymbol, ImageOf
    <3> QED BY <2>1, <2>2, <2>3, <3>1, SameReading
  <2> QED BY <1>3, <2>2, <2>3 DEF IsBound
<1>4. CASE w.session.mode = "Offline"
  BY <1>1, <1>4 DEF Control, Failed, Outcome
<1>5. CASE w.session.mode # "Offline" /\ action = "run"
  <2>1. o.world = [w EXCEPT !.session.running = TRUE]
    BY <1>5 DEF Control, Outcome
  <2> QED BY <1>2, <2>1, Zenon
<1>6. CASE w.session.mode # "Offline" /\ action = "stop"
  <2>1. o.world = [w EXCEPT !.session.running = FALSE]
    BY <1>6 DEF Control, Outcome
  <2> QED BY <1>2, <2>1, Zenon
<1>7. CASE w.session.mode # "Offline" /\ action = "reset"
  BY <1>3, <1>7 DEF Control, Outcome
<1> QED BY <1>4, <1>5, <1>6, <1>7

\* The requests that end what was promised for symbol a.
Ends(c, a) ==
  \/ c.op \in {"connect", "disconnect"}
  \/ c.op = "write" /\ (a = c.arg.symbol \/ SamePlace(world.session, a, c.arg.symbol))
  \/ c.op = "reset" /\ ~world.session.tcp /\ a \notin DOMAIN world.session.files

\* A handler keeps the bindings in order and every promise it does not end.
LEMMA HandledIo ==
  ASSUME SessionInv, IsBound(world.session), NEW c, CallOK(c), c.step = "sent", NEW o \in Handled(c)
  PROVE  /\ IsBound(o.world.session)
         /\ c.op = "write" /\ o.ok => ReadsBack(o.world, c.arg.symbol, c.arg.raw)
         /\ \A a, x : ReadsBack(world, a, x) /\ ~Ends(c, a) => ReadsBack(o.world, a, x)
<1>0. Good(world) /\ c.op \in Ops
  BY DEF SessionInv, CallOK
<1>1. CASE c.op = "connect"
  <2>1. /\ o \in Connect(world, c.arg.mapping, TRUE, c.arg.simulate)
        /\ c.arg.simulate \in BOOLEAN /\ c.arg.mapping \in Mapping
    BY <1>1 DEF Handled, CallOK
  <2> QED BY <1>0, <1>1, <2>1, ConnectBinds DEF Ends
<1>2. CASE c.op = "disconnect"
  <2>1. o \in Disconnect(world)
    BY <1>2 DEF Handled
  <2>2. o.world.session = Default
    BY <1>0, <2>1 DEF Disconnect, Outcome, Good, IsWorld
  <2> QED BY <1>2, <2>2 DEF IsBound, Default, Ends
<1>3. CASE c.op = "download"
  <2>1. o \in Deploy(world, c.arg.number, c.arg.mapping, c.arg.parts)
    BY <1>3 DEF Handled
  <2>2. SameIo(o.world, world)
    BY <1>0, <2>1, DeployIo
  <2> QED BY <1>3, <2>2, SameIoReads
<1>4. CASE c.op = "write"
  <2>1. o \in WriteIo(world, c.arg.symbol, c.arg.raw) /\ IsRaw(c.arg.raw)
    BY <1>4 DEF Handled, CallOK
  <2>2. /\ IsBound(o.world.session) /\ OthersReadBack(o.world, world, c.arg.symbol)
        /\ o.ok => ReadsBack(o.world, c.arg.symbol, c.arg.raw)
    BY <1>0, <2>1, WriteReadsBack
  <2> QED BY <1>4, <2>2 DEF OthersReadBack, Ends
<1>5. CASE c.op \in {"refresh", "status"}
  <2>1. o \in ReadIo(world) \/ o = Outcome(world, world.session.mode # "Offline")
    BY <1>5 DEF Handled
  <2>2. o.world = world
    BY <2>1, ReadOutcome DEF Outcome
  <2> QED BY <1>5, <2>2
<1>6. CASE c.op \in {"run", "stop", "reset"}
  <2>1. o \in Control(world, c.op)
    BY <1>6 DEF Handled
  <2>2. /\ IsBound(o.world.session)
        /\ \A a, x : /\ ReadsBack(world, a, x)
                     /\ c.op = "reset" => world.session.tcp \/ a \in DOMAIN world.session.files
                     => ReadsBack(o.world, a, x)
    BY <1>0, <1>6, <2>1, ControlIo
  <2> QED BY <1>6, <2>2 DEF Ends
<1> QED BY <1>0, <1>1, <1>2, <1>3, <1>4, <1>5, <1>6 DEF Ops

\* The history keeps what was promised and not ended, and takes up what is acknowledged.
LEMMA WritesServed ==
  ASSUME NEW c, NEW ok, NEW a \in DOMAIN ServedWrites(c, ok)
  PROVE  \/ /\ c.op = "write" /\ ok /\ a = c.arg.symbol
            /\ ServedWrites(c, ok)[a] = c.arg.raw
         \/ /\ a \in DOMAIN trace.written /\ ~Ends(c, a)
            /\ ServedWrites(c, ok)[a] = trace.written[a]
<1> DEFINE new       == ServedWrites(c, ok)
           elsewhere == {b \in DOMAIN trace.written :
                           b # c.arg.symbol /\ ~SamePlace(world.session, b, c.arg.symbol)}
           lasting   == {b \in DOMAIN trace.written :
                           world.session.tcp \/ b \in DOMAIN world.session.files}
<1>1. CASE c.op = "write" /\ ok
  <2>1. new = Stored(Restrict(trace.written, elsewhere), c.arg.symbol, c.arg.raw)
    BY <1>1 DEF ServedWrites
  <2> HIDE DEF new
  <2>2. /\ a \in elsewhere \cup {c.arg.symbol}
        /\ new[a] = IF a = c.arg.symbol THEN c.arg.raw ELSE trace.written[a]
    BY <2>1 DEF Stored, Restrict, new
  <2> QED BY <1>1, <2>2 DEF Ends, new
<1>2. CASE c.op = "write" /\ ~ok
  <2>1. new = Restrict(trace.written, elsewhere)
    BY <1>2 DEF ServedWrites
  <2> QED BY <1>2, <2>1 DEF Restrict, Ends
<1>3. CASE c.op = "reset"
  <2>1. new = Restrict(trace.written, lasting)
    BY <1>3 DEF ServedWrites
  <2> QED BY <1>3, <2>1 DEF Restrict, Ends
<1>4. CASE c.op \in {"connect", "disconnect"}
  <2>1. new = <<>>
    BY <1>4 DEF ServedWrites
  <2> QED BY <2>1
<1>5. CASE c.op \notin {"write", "reset", "connect", "disconnect"}
  <2>1. new = trace.written
    BY <1>5 DEF ServedWrites
  <2> QED BY <1>5, <2>1 DEF Ends
<1> QED BY <1>1, <1>2, <1>3, <1>4, <1>5

\* Nothing is acknowledged when bridge and IDE start.
LEMMA WriteInit == Init => WriteInv
BY DEF Init, WriteInv, IsBound, Default

\* Every step of bridge and IDE keeps what was acknowledged.
LEMMA WriteStep == SessionInv /\ WriteInv /\ [Next]_vars => WriteInv'
<1> SUFFICES ASSUME SessionInv, WriteInv, [Next]_vars PROVE WriteInv'
  OBVIOUS
<1>1. CASE UNCHANGED world /\ trace'.written = trace.written
  BY <1>1 DEF WriteInv
<1>2. CASE User \/ Reload \/ UNCHANGED vars
  <2>1. UNCHANGED world /\ trace'.written = trace.written
    BY <1>2 DEF User, SelectTarget, StartConnect, StartDeploy, StartAction, StartForce,
                Edit, Save, Reload, vars, SessionInv, TraceOK
  <2> QED BY <1>1, <2>1
<1>3. CASE Handler
  <2>1. UNCHANGED world /\ trace'.written = trace.written
    BY <1>3 DEF Handler, ActionAnswered, RestoreAnswered, ForceAnswered, Marked, SessionInv, TraceOK
  <2> QED BY <1>1, <2>1
<1>4. CASE BridgeRestart
  <2>1. world'.session = Default /\ trace'.written = <<>>
    BY <1>4 DEF BridgeRestart, SessionInv, TraceOK, Good, IsWorld
  <2> QED BY <2>1 DEF WriteInv, IsBound, Default
<1>5. ASSUME NEW k \in Caller, Serve(k) PROVE WriteInv'
  <2> DEFINE c == calls[k]
  <2>1. PICK o \in Handled(c) : world' = o.world /\ trace'.written = ServedWrites(c, o.ok)
    BY <1>5 DEF Serve, SessionInv, TraceOK
  <2>2. CallOK(c) /\ c.step = "sent"
    BY <1>5 DEF Serve, SessionInv, CallsOK
  <2> HIDE DEF c
  <2>3. /\ IsBound(world'.session)
        /\ c.op = "write" /\ o.ok => ReadsBack(world', c.arg.symbol, c.arg.raw)
        /\ \A a, x : ReadsBack(world, a, x) /\ ~Ends(c, a) => ReadsBack(world', a, x)
    BY <2>1, <2>2, HandledIo DEF WriteInv
  <2>4. ASSUME NEW a \in DOMAIN ServedWrites(c, o.ok)
        PROVE  ReadsBack(world', a, ServedWrites(c, o.ok)[a])
    <3>1. CASE c.op = "write" /\ o.ok /\ a = c.arg.symbol /\ ServedWrites(c, o.ok)[a] = c.arg.raw
      BY <2>3, <3>1
    <3>2. CASE /\ a \in DOMAIN trace.written /\ ~Ends(c, a)
               /\ ServedWrites(c, o.ok)[a] = trace.written[a]
      <4>1. ReadsBack(world, a, trace.written[a])
        BY <3>2 DEF WriteInv
      <4> QED BY <2>3, <3>2, <4>1
    <3> QED BY <3>1, <3>2, WritesServed
  <2> QED BY <2>1, <2>3, <2>4 DEF WriteInv
<1> QED BY <1>2, <1>3, <1>4, <1>5 DEF Next

(***************************************************************************)
(* What write_io acknowledged for a symbol is what read_io gives for it,   *)
(* cut to the range of a register, until a write to the same file or point *)
(* is tried, the simulator it lies in is reset, or the session ends        *)
(* (session.rs:237-243, 288-339).                                          *)
(***************************************************************************)
THEOREM WritesAreReadBack == Spec => []AcknowledgedWriteIsReadBack
<1>1. SessionInv /\ WriteInv /\ [Next]_vars => WriteInv'
  BY WriteStep
<1>2. WriteInv => AcknowledgedWriteIsReadBack
  BY DEF WriteInv, ReadsBack, AcknowledgedWriteIsReadBack
<1> QED BY <1>1, <1>2, WriteInit, SessionInvariant, PTL DEF Spec

(***************************************************************************)
(* The display.                                                            *)
(***************************************************************************)
\* The state a status describes is the state of the session it was taken from (session.rs:341-349).
LEMMA StateOfSession ==
  ASSUME NEW v, NEW w, SameState(v, w)
  PROVE  ConnectionState(v.session) = ConnectionState(w.session)
BY DEF SameState, ConnectionState

\* What the bar shows of an answer is a target (targetConnection.ts).
LEMMA ShownTarget ==
  ASSUME NEW connection, IsTarget(connection), Show(connection)
  PROVE  ui' = connection /\ IsTarget(ui') /\ IsTarget(persisted')
BY DEF Show, IsTarget

\* The display invariant holds when the IDE starts: nothing is shown as online.
LEMMA DisplayInit == Init => DisplayInv
BY DEF Init, DisplayInv, TargetsOK, FreshAnswers, ShownInv, IsTarget, SimulatorTarget, Idle, Caller

\* A step of the IDE that handles no answer of the bar and shows nothing new as online
LEMMA CalmStep ==
  ASSUME DisplayInv, world' = world, trace' = trace, IsTarget(ui'), IsTarget(persisted'),
         calls'["restore"] = calls["restore"],
         \/ calls'["action"] = calls["action"]
         \/ calls["action"].step = "idle" /\ calls'["action"].step = "sent" /\ IsTarget(calls'["action"].seen),
         \/ ui'.kind = ui.kind /\ ui'.state = ui.state
         \/ ui'.state \notin {"online", "running"}
  PROVE  DisplayInv'
<1>1. TargetsOK'
  BY DEF DisplayInv, TargetsOK
<1>2. FreshAnswers'
  BY DEF DisplayInv, FreshAnswers
<1>3. ShownInv'
  BY DEF DisplayInv, ShownInv
<1> QED BY <1>1, <1>2, <1>3 DEF DisplayInv

\* What the user starts in the bar and the editor keeps the display invariant.
LEMMA UserKeepsDisplay == SessionInv /\ DisplayInv /\ User => DisplayInv'
<1> SUFFICES ASSUME SessionInv, DisplayInv, User PROVE DisplayInv'
  OBVIOUS
<1>0. IsTarget(ui) /\ IsTarget(persisted) /\ DOMAIN calls = Caller
  BY DEF SessionInv, CallsOK, DisplayInv, TargetsOK
<1>1. ASSUME NEW target \in {HardwareTarget, SimulatorTarget}, SelectTarget(target) PROVE DisplayInv'
  <2>1. IsTarget(target) /\ target.state \notin {"online", "running"}
    BY <1>1 DEF HardwareTarget, SimulatorTarget, IsTarget
  <2> QED BY <1>1, <2>1, ShownTarget, CalmStep DEF SelectTarget
<1>2. ASSUME NEW op, NEW arg, Send("action", op, arg), ~Busy
      PROVE  /\ calls'["restore"] = calls["restore"]
             /\ calls["action"].step = "idle" /\ calls'["action"].step = "sent" /\ IsTarget(calls'["action"].seen)
  <2>1. calls' = [calls EXCEPT !["action"] = Sent(op, arg, ui)]
    BY <1>2 DEF Send
  <2> QED BY <1>0, <1>2, <2>1 DEF Busy, Sent, Caller
<1>3. ASSUME NEW m \in Mapping, NEW simulate \in Simulate, StartConnect(m, simulate) PROVE DisplayInv'
  <2> DEFINE c == [ui EXCEPT !.state = "connecting"]
  <2>1. IsTarget(c) /\ c.state = "connecting"
    BY <1>0 DEF IsTarget
  <2>2. Show(c) /\ UNCHANGED <<world, trace>>
    BY <1>3 DEF StartConnect
  <2>3. /\ calls'["restore"] = calls["restore"]
        /\ calls["action"].step = "idle" /\ calls'["action"].step = "sent" /\ IsTarget(calls'["action"].seen)
    BY <1>2, <1>3 DEF StartConnect
  <2> HIDE DEF c
  <2> QED BY <2>1, <2>2, <2>3, ShownTarget, CalmStep
<1>4. ASSUME NEW m \in Mapping, NEW parts \in Parts, StartDeploy(m, parts) PROVE DisplayInv'
  <2>1. /\ calls'["restore"] = calls["restore"]
        /\ calls["action"].step = "idle" /\ calls'["action"].step = "sent" /\ IsTarget(calls'["action"].seen)
    BY <1>2, <1>4 DEF StartDeploy
  <2> QED BY <1>0, <1>4, <2>1, CalmStep DEF StartDeploy
<1>5. ASSUME NEW op \in {"disconnect", "refresh", "run", "stop", "reset"}, StartAction(op) PROVE DisplayInv'
  <2>1. /\ calls'["restore"] = calls["restore"]
        /\ calls["action"].step = "idle" /\ calls'["action"].step = "sent" /\ IsTarget(calls'["action"].seen)
    BY <1>2, <1>5 DEF StartAction
  <2> QED BY <1>0, <1>5, <2>1, CalmStep DEF StartAction
<1>6. ASSUME NEW symbol \in Symbol, NEW typed \in Typed, StartForce(symbol, typed) PROVE DisplayInv'
  <2>1. calls'["restore"] = calls["restore"] /\ calls'["action"] = calls["action"]
    BY <1>0, <1>6 DEF StartForce, Send, Caller
  <2> QED BY <1>0, <1>6, <2>1, CalmStep DEF StartForce
<1>7. CASE Edit \/ Save
  <2>1. PICK b : Rated(b) /\ UNCHANGED <<world, calls, trace>>
    BY <1>7 DEF Edit, Save
  <2> DEFINE c == [ui EXCEPT !.match = ~b /\ ui.deployed # "null"]
  <2>2. IsTarget(c) /\ c.kind = ui.kind /\ c.state = ui.state
    BY <1>0 DEF IsTarget
  <2>3. Show(c)
    BY <2>1 DEF Rated
  <2> HIDE DEF c
  <2> QED BY <2>1, <2>2, <2>3, ShownTarget, CalmStep
<1> QED BY <1>1, <1>3, <1>4, <1>5, <1>6, <1>7 DEF User

\* The page or the bridge is started again: what is shown counts as outdated.
LEMMA RestartsKeepDisplay == SessionInv /\ DisplayInv /\ (Reload \/ BridgeRestart) => DisplayInv'
<1> SUFFICES ASSUME SessionInv, DisplayInv, Reload \/ BridgeRestart PROVE DisplayInv'
  OBVIOUS
<1>0. TargetsOK /\ TraceOK /\ CallsOK
  BY DEF SessionInv, DisplayInv
<1>1. trace'.outdated
  BY <1>0 DEF Reload, BridgeRestart, TraceOK
<1>2. ASSUME Reload PROVE TargetsOK' /\ FreshAnswers'
  <2>1. \A k \in Caller : calls'[k].step \in {"idle", "sent"} /\ calls'["action"].step = "idle"
    BY <1>2 DEF Reload, Sent, Idle, Caller
  <2>2. ui' = persisted /\ persisted' = persisted
    BY <1>2 DEF Reload
  <2> QED BY <1>0, <2>1, <2>2 DEF TargetsOK, FreshAnswers, Caller
<1>3. ASSUME BridgeRestart PROVE TargetsOK' /\ FreshAnswers'
  <2>1. /\ UNCHANGED <<ui, persisted>>
        /\ \A k \in Caller : calls'[k] = Overtaken(calls[k])
    BY <1>3 DEF BridgeRestart
  <2>2. \A k \in Caller : /\ calls'[k].step = calls[k].step
                          /\ calls[k].step = "served" => calls'[k].outdated /\ calls'[k].seen = calls[k].seen
                          /\ calls[k].step = "sent" => calls'[k] = calls[k]
    <3>1. ASSUME NEW k \in Caller PROVE CallOK(calls[k]) /\ Role(k, calls[k])
      BY <1>0 DEF CallsOK
    <3>2. \A c : c.step = "sent" => Overtaken(c) = c
      BY DEF Overtaken
    <3>3. ASSUME NEW k \in Caller
          PROVE  /\ calls'[k].step = calls[k].step
                 /\ calls[k].step = "served" => calls'[k].outdated /\ calls'[k].seen = calls[k].seen
                 /\ calls[k].step = "sent" => calls'[k] = calls[k]
      <4> DEFINE c == calls[k]
      <4>1. calls'[k] = Overtaken(c) /\ CallOK(c) /\ Role(k, c)
        BY <2>1, <3>1
      <4> HIDE DEF c
      <4>2. /\ Overtaken(c).step = c.step
            /\ c.step = "served" => Overtaken(c).outdated /\ Overtaken(c).seen = c.seen
        BY <4>1, OvertakenCall
      <4> QED BY <3>2, <4>1, <4>2 DEF c
    <3> QED BY <3>3
  <2>3. calls["action"].step \in {"idle", "sent", "served"}
    BY <1>0 DEF CallsOK, CallOK, Caller
  <2>4. TargetsOK'
    BY <1>0, <2>1, <2>2, <2>3 DEF TargetsOK, Caller
  <2>5. FreshAnswers'
    BY <2>2 DEF FreshAnswers, Caller
  <2> QED BY <2>4, <2>5
<1> QED BY <1>1, <1>2, <1>3 DEF DisplayInv, ShownInv

\* The handling of an answer, with every patch it makes of the display, keeps the display invariant.
LEMMA HandlersKeepDisplay == SessionInv /\ DisplayInv /\ Handler => DisplayInv'
<1> SUFFICES ASSUME SessionInv, DisplayInv, Handler PROVE DisplayInv'
  OBVIOUS
<1>0. TargetsOK /\ FreshAnswers /\ ShownInv /\ TraceOK /\ CallsOK
  BY DEF SessionInv, DisplayInv
<1>1. ASSUME NEW k \in Caller, Done(k) \/ FollowUp(k, "refresh")
      PROVE  /\ \A j \in Caller : j # k => calls'[j] = calls[j]
             /\ calls'[k].step \in {"idle", "sent"}
             /\ calls'[k].step # "idle" => calls'[k].seen = calls[k].seen
  BY <1>0, <1>1 DEF Done, FollowUp, Idle, Sent, CallsOK
<1>2. CASE ActionAnswered
  <2> DEFINE c == calls["action"]
  <2>1. c.step = "served" /\ IsTarget(c.seen) /\ world' = world
    BY <1>0, <1>2 DEF ActionAnswered, TargetsOK
  <2>2. /\ \A j \in Caller : j # "action" => calls'[j] = calls[j]
        /\ calls'["action"].step \in {"idle", "sent"}
        /\ calls'["action"].step # "idle" => calls'["action"].seen = c.seen
    BY <1>1, <1>2 DEF ActionAnswered, Caller
  <2>3. FreshAnswers'
    BY <1>0, <2>1, <2>2 DEF FreshAnswers, Caller
  <2>4. CASE c.ok /\ c.op = "refresh"
    <3>1. UNCHANGED <<ui, persisted, trace>>
      BY <1>2, <2>4 DEF ActionAnswered
    <3>2. TargetsOK' /\ ShownInv'
      BY <1>0, <2>1, <2>2, <2>4, <3>1 DEF TargetsOK, ShownInv
    <3> QED BY <2>3, <3>2 DEF DisplayInv
  <2>5. CASE ~(c.ok /\ c.op = "refresh")
    <3>1. Show(Patched(c)) /\ Marked(c)
      BY <1>2, <2>5 DEF ActionAnswered
    <3>2. /\ IsTarget(Patched(c))
          /\ Patched(c).state \in {"online", "running"} => Patched(c).state = c.session.state
      BY <2>1, <2>5 DEF Patched, IsTarget, HardwareTarget
    <3>3. trace'.outdated <=> c.outdated
      BY <1>0, <3>1 DEF Marked, TraceOK
    <3>4. ui' = Patched(c) /\ IsTarget(ui') /\ IsTarget(persisted')
      BY <3>1, <3>2, ShownTarget
    <3>5. ~c.outdated => c.session.state = ConnectionState(world.session)
      BY <1>0, <2>1 DEF FreshAnswers
    <3> HIDE DEF c
    <3>6. TargetsOK'
      BY <2>1, <2>2, <3>4 DEF TargetsOK
    <3>7. ShownInv'
      BY <2>1, <3>2, <3>3, <3>4, <3>5 DEF ShownInv
    <3> QED BY <2>3, <3>6, <3>7 DEF DisplayInv
  <2> QED BY <2>4, <2>5
<1>3. CASE RestoreAnswered
  <2> DEFINE c == calls["restore"]
  <2>1. c.step = "served" /\ world' = world /\ persisted' = persisted
    BY <1>3 DEF RestoreAnswered
  <2>2. /\ \A j \in Caller : j # "restore" => calls'[j] = calls[j]
        /\ calls'["restore"].step \in {"idle", "sent"}
    BY <1>1, <1>3 DEF RestoreAnswered, Caller
  <2>3. FreshAnswers'
    BY <1>0, <2>1, <2>2 DEF FreshAnswers, Caller
  <2>4. CASE c.ok /\ c.op = "status"
    <3>1. ui' = [ui EXCEPT !.state = c.session.state, !.match = c.session.program,
                           !.deployed = IF c.session.deployed THEN "set" ELSE "null"] /\ Marked(c)
      BY <1>3, <2>4 DEF RestoreAnswered
    <3>2. IsTarget(ui') /\ ui'.state = c.session.state
      BY <1>0, <3>1 DEF TargetsOK, IsTarget
    <3>3. trace'.outdated <=> c.outdated
      BY <1>0, <3>1 DEF Marked, TraceOK
    <3>4. ~c.outdated => c.session.state = ConnectionState(world.session)
      BY <1>0, <2>1 DEF FreshAnswers
    <3>5. TargetsOK'
      BY <1>0, <2>1, <2>2, <3>2 DEF TargetsOK, Caller
    <3> HIDE DEF c
    <3>6. ShownInv'
      BY <2>1, <3>2, <3>3, <3>4 DEF ShownInv
    <3> QED BY <2>3, <3>5, <3>6 DEF DisplayInv
  <2>5. CASE ~(c.ok /\ c.op = "status")
    <3>1. UNCHANGED <<ui, trace>>
      BY <1>3, <2>5 DEF RestoreAnswered
    <3>2. TargetsOK' /\ ShownInv'
      BY <1>0, <2>1, <2>2, <3>1 DEF TargetsOK, ShownInv, Caller
    <3> QED BY <2>3, <3>2 DEF DisplayInv
  <2> QED BY <2>4, <2>5
<1>4. CASE ForceAnswered
  <2>1. /\ \A j \in Caller : j # "force" => calls'[j] = calls[j]
        /\ UNCHANGED <<world, ui, persisted, trace>>
    BY <1>1, <1>4 DEF ForceAnswered, Caller
  <2> QED BY <1>0, <2>1, CalmStep DEF TargetsOK, Caller
<1> QED BY <1>2, <1>3, <1>4 DEF Handler

\* A request that the bridge serves keeps the display invariant: an answer under way is no older than the session.
LEMMA ServingKeepsDisplay ==
  ASSUME SessionInv, DisplayInv, NEW k \in Caller, Serve(k)
  PROVE  DisplayInv'
<1> DEFINE c == calls[k]
<1>0. TargetsOK /\ FreshAnswers /\ ShownInv /\ TraceOK /\ CallsOK
  BY DEF SessionInv, DisplayInv
<1>1. c.step = "sent" /\ CallOK(c) /\ Role(k, c) /\ UNCHANGED <<ui, persisted>>
  BY <1>0 DEF Serve, CallsOK
<1>2. PICK o \in Handled(c) :
        /\ world' = o.world
        /\ calls' = [j \in Caller |->
             CASE j = k -> IF j = "orphan" THEN Idle ELSE Served(calls[j], o)
               [] j # k -> IF Changed THEN Overtaken(calls[j]) ELSE calls[j]]
        /\ trace' = [trace EXCEPT !.outdated = @ \/ (k = "orphan" /\ Changed),
                                  !.written = ServedWrites(c, o.ok),
                                  !.deploy = ServedDeploy(c, o.ok)]
  BY DEF Serve
<1>3. trace'.outdated <=> trace.outdated \/ (k = "orphan" /\ Changed)
  BY <1>0, <1>2 DEF TraceOK
<1>4. /\ k = "orphan" => calls'[k] = Idle
      /\ k # "orphan" => /\ calls'[k].step = "served" /\ calls'[k].op = c.op /\ calls'[k].seen = c.seen
                         /\ calls'[k].session.state = ConnectionState(world'.session)
  <2>1. calls'[k] = IF k = "orphan" THEN Idle ELSE Served(c, o)
    BY <1>2
  <2> QED BY <1>1, <1>2, <2>1, ServedCall
<1>5. \A j \in Caller : j # k =>
        /\ calls'[j].step = calls[j].step
        /\ ~Changed => calls'[j] = calls[j]
        /\ calls[j].step = "sent" => calls'[j] = calls[j]
        /\ calls[j].step = "served" =>
             /\ calls'[j].op = calls[j].op /\ calls'[j].seen = calls[j].seen
             /\ Changed => calls'[j].outdated
  <2> TAKE j \in Caller
  <2> HAVE j # k
  <2>1. calls'[j] = IF Changed THEN Overtaken(calls[j]) ELSE calls[j]
    BY <1>2
  <2>2. CallOK(calls[j]) /\ Role(j, calls[j])
    BY <1>0 DEF CallsOK
  <2>3. calls[j].step # "served" => Overtaken(calls[j]) = calls[j]
    BY DEF Overtaken
  <2> QED BY <2>1, <2>2, <2>3, OvertakenCall
<1>6. Changed => k \in {"action", "orphan"} /\ c.op # "refresh"
  <2>1. SUFFICES ASSUME c.op \in {"write", "refresh", "status"} PROVE ~Changed
    BY <1>1 DEF Role, Caller
  <2>2. SameState(world', world)
    BY <1>1, <1>2, <2>1, HandledOutcome
  <2> QED BY <2>2, StateOfSession DEF Changed
<1> HIDE DEF c
<1>7. TargetsOK'
  <2>1. CASE k = "action"
    BY <1>0, <1>1, <1>4, <2>1 DEF TargetsOK, c
  <2>2. CASE k # "action"
    BY <1>0, <1>1, <1>5, <2>2 DEF TargetsOK, CallsOK, CallOK, Caller
  <2> QED BY <2>1, <2>2
<1>8. FreshAnswers'
  <2> SUFFICES ASSUME NEW j \in {"action", "restore"}, calls'[j].step = "served", ~calls'[j].outdated
               PROVE  calls'[j].session.state = ConnectionState(world'.session)
    BY DEF FreshAnswers
  <2>1. CASE j = k
    BY <1>4, <2>1
  <2>2. CASE j # k
    <3>1. calls[j].step = "served" /\ ~Changed /\ calls'[j] = calls[j]
      BY <1>5, <2>2 DEF Caller
    <3> QED BY <1>0, <3>1 DEF FreshAnswers, Changed
  <2> QED BY <2>1, <2>2
<1>9. ShownInv'
  <2>1. CASE Changed
    <3>1. CASE k = "orphan"
      BY <1>3, <2>1, <3>1 DEF ShownInv
    <3>2. CASE k = "action"
      BY <1>4, <1>6, <2>1, <3>2 DEF ShownInv
    <3> QED BY <1>6, <2>1, <3>1, <3>2
  <2>2. CASE ~Changed
    <3>1. ConnectionState(world'.session) = ConnectionState(world.session)
      BY <2>2 DEF Changed
    <3>2. CASE k = "action"
      BY <1>0, <1>1, <1>3, <3>1, <3>2 DEF ShownInv, c
    <3>3. CASE k # "action"
      <4>1. calls'["action"] = calls["action"]
        BY <1>5, <2>2, <3>3 DEF Caller
      <4> QED BY <1>0, <1>1, <1>3, <3>1, <4>1 DEF ShownInv
    <3> QED BY <3>2, <3>3
  <2> QED BY <2>1, <2>2
<1> QED BY <1>7, <1>8, <1>9 DEF DisplayInv

\* Every step of bridge and IDE keeps the display invariant.
LEMMA DisplayStep == SessionInv /\ DisplayInv /\ [Next]_vars => DisplayInv'
<1> SUFFICES ASSUME SessionInv, DisplayInv, [Next]_vars PROVE DisplayInv'
  OBVIOUS
<1>1. CASE UNCHANGED vars
  BY <1>1 DEF vars, DisplayInv, TargetsOK, FreshAnswers, ShownInv
<1> QED BY <1>1, UserKeepsDisplay, RestartsKeepDisplay, HandlersKeepDisplay, ServingKeepsDisplay DEF Next

(***************************************************************************)
(* Whatever the order in which requests are served and answers handled,    *)
(* the bar shows a target as online or running only if it is, or an answer *)
(* is still to be handled, or the one shown was overtaken                  *)
(* (TargetConnectionBar.tsx:115-247).                                      *)
(***************************************************************************)
THEOREM DisplayIsTrue == Spec => []DisplayIsTrueOrOutdated
<1>1. DisplayInv => DisplayIsTrueOrOutdated
  BY DEF DisplayInv, ShownInv, DisplayIsTrueOrOutdated
<1> QED BY <1>1, SessionInvariant, DisplayInit, DisplayStep, PTL DEF Spec
=============================================================================
