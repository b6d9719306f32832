---------------------------- MODULE Systems_proofs ----------------------------
(***************************************************************************)
(* Theorems about Systems, for any systems, ports, settings, API clients   *)
(* and requests: type correctness; that the two halves of an update are    *)
(* carried out in order, each once; that success is said of a request that *)
(* is carried out as a whole, on the one system it names; and that only    *)
(* 502 leaves anything open.                                               *)
(***************************************************************************)
EXTENDS Systems, SequenceTheorems, TLAPS

UfmCallSet == [what : Actions, set : Settings]

-----------------------------------------------------------------------------
(***************************************************************************)
(* What the proofs need to know of the calls a request is translated to.   *)
(***************************************************************************)

LEMMA SettingsTypes ==
  /\ NoSettings \in Settings
  /\ \A set \in Settings : \A fields : Part(set, fields) \in Settings
BY DEF NoSettings, Settings, Part

LEMMA OneElement ==
  ASSUME NEW S, NEW e \in S
  PROVE  << e >> \in Seq(S) /\ Len(<< e >>) = 1
OBVIOUS

LEMMA SettingCallType ==
  ASSUME NEW what \in Actions, NEW set \in Settings, NEW fields
  PROVE  SettingCall(what, set, fields) \in Seq(UfmCallSet)
<1> DEFINE u == [what |-> what, set |-> Part(set, fields)]
<1>1. u \in UfmCallSet
  BY SettingsTypes DEF UfmCallSet
<1>2. SettingCall(what, set, fields) \in { << >>, << u >> }
  BY DEF SettingCall
<1> HIDE DEF u
<1> QED
  BY <1>1, <1>2, OneElement, EmptySeq

LEMMA UfmCallOfType ==
  ASSUME NEW what \in Actions
  PROVE  << UfmCallOf(what) >> \in Seq(UfmCallSet) /\ Len(<< UfmCallOf(what) >>) = 1
<1>1. UfmCallOf(what) \in UfmCallSet
  BY SettingsTypes DEF UfmCallOf, UfmCallSet
<1> QED
  BY <1>1, OneElement

(* Every handler but that of UpdateSystem makes one call of UFM.           *)
LEMMA UfmCallsType ==
  ASSUME NEW req \in Inputs
  PROVE  /\ UfmCalls(req) \in Seq(UfmCallSet)
         /\ req.op # "UpdateSystem" => Len(UfmCalls(req)) = 1
<1>1. req.op \in Operations /\ req.set \in Settings
  BY InputsAssumption
<1>2. CASE req.op = "UpdateSystem"
  <2>1. UfmCalls(req) = SettingCall("PUT system", req.set, Basics)
                          \o SettingCall("PUT properties", req.set, Properties)
    BY <1>2 DEF UfmCalls, UpdateCalls
  <2>2. /\ SettingCall("PUT system", req.set, Basics) \in Seq(UfmCallSet)
        /\ SettingCall("PUT properties", req.set, Properties) \in Seq(UfmCallSet)
    BY <1>1, SettingCallType DEF Actions
  <2>3. UfmCalls(req) \in Seq(UfmCallSet)
    BY <2>1, <2>2, ConcatProperties
  <2> QED
    BY <1>2, <2>3
<1>3. CASE req.op # "UpdateSystem"
  <2>1. PICK what \in Actions : UfmCalls(req) = << UfmCallOf(what) >>
    <3>1. CASE req.op \in {"RebootSystem", "SetSystemHealth"}
      BY <3>1 DEF Actions, UfmCalls
    <3>2. CASE req.op \in {"UpgradeSystemFirmware", "UpgradeSystemSoftware", "CollectSystemDump"}
      BY <3>2 DEF Actions, UfmCalls
    <3>3. CASE req.op \in PortOperations
      BY <3>3 DEF Actions, UfmCalls, PortOperations
    <3> QED
      BY <1>1, <1>3, <3>1, <3>2, <3>3 DEF Operations, Bodiless
  <2> QED
    BY <1>3, <2>1, UfmCallOfType
<1> QED
  BY <1>2, <1>3

-----------------------------------------------------------------------------
(***************************************************************************)
(* Type correctness.                                                       *)
(***************************************************************************)
CallType(k, reqs) ==
  /\ k \in Calls
  /\ k.number \in 0..Len(reqs)
  /\ k.pc # "idle" => k.number # 0
  /\ k.pc \in {"sent", "answered"} => k.step \in 1..Len(UfmCalls(reqs[k.number]))

WireType(r, reqs) ==
  r \in Wired /\ r.number \in 1..Len(reqs) /\ r.step \in 1..Len(UfmCalls(reqs[r.number]))

HandlersType == call \in [Callers -> Calls] /\ \A c \in Callers : CallType(call[c], asked)

UfmType ==
  /\ systems \in [Guids -> [set : Settings, healthy : BOOLEAN]]
  /\ enabled \subseteq Ports
  /\ done \in Seq(Seq(Changes)) /\ Len(done) = Len(asked)

LEMMA TypeParts ==
  TypeOK <=> /\ UfmType /\ HandlersType
             /\ asked \in Seq(Inputs) /\ Len(asked) <= MaxRequests
             /\ \A r \in wire : WireType(r, asked)
BY DEF TypeOK, UfmType, HandlersType, CallType, WireType

LEMMA TypePartsNext ==
  ASSUME UfmType', HandlersType', asked' \in Seq(Inputs), Len(asked') <= MaxRequests,
         \A r \in wire' : WireType(r, asked')
  PROVE  TypeOK'
BY DEF TypeOK, UfmType, HandlersType, CallType, WireType

(* No handler answers with a status of its own but these.                  *)
LEMMA StatusType ==
  ASSUME NEW resp, NEW op
  PROVE  Answered(resp, FALSE, Success(op)) \in {0, 202, 204, BadGateway} \cup PassedOn
<1>1. PICK err : err = do(resp, FALSE)
  OBVIOUS
<1>2. PICK success : success = Success(op)
  OBVIOUS
<1>3. success \in {202, 204}
  BY <1>2 DEF Success
<1>4. handleUFMError(err) \in {BadGateway} \cup PassedOn
  BY DEF handleUFMError
<1>5. PICK status : status = Answered(resp, FALSE, Success(op))
  OBVIOUS
<1>6. status = IF err = NoError THEN success ELSE handleUFMError(err)
  BY <1>1, <1>2, <1>5 DEF Answered
<1>7. status \in {0, 202, 204, BadGateway} \cup PassedOn
  BY <1>3, <1>4, <1>6
<1> QED
  BY <1>5, <1>7

LEMMA ResponseType ==
  Silence \in Responses /\ \A s \in Nat : Response(s) \in Responses
BY DEF Silence, Response, Responses

LEMMA NoCallType == NoCall \in Calls
BY ResponseType DEF NoCall, Calls

(* Changing one handler's state to another well-typed one.                 *)
LEMMA CallUpdate ==
  ASSUME HandlersType, asked' = asked, NEW c \in Callers, NEW k, CallType(k, asked),
         call' = [call EXCEPT ![c] = k]
  PROVE  HandlersType'
BY DEF HandlersType, CallType

(* An answer of UFM that reaches a handler leaves the handlers well typed. *)
LEMMA DeliverType ==
  ASSUME HandlersType, asked' = asked, NEW r, WireType(r, asked), NEW s \in Nat, Deliver(r, s)
  PROVE  HandlersType'
<1>1. r.caller \in Callers
  BY DEF WireType, Wired
<1>2. CASE call' = call
  BY <1>2 DEF HandlersType, CallType
<1>3. CASE /\ call[r.caller].pc = "sent"
           /\ call' = [call EXCEPT ![r.caller].pc = "answered", ![r.caller].resp = Response(s)]
  <2>1. PICK k : k = [call[r.caller] EXCEPT !.pc = "answered", !.resp = Response(s)]
    OBVIOUS
  <2>2. CallType(k, asked)
    <3>1. CallType(call[r.caller], asked)
      BY <1>1 DEF HandlersType
    <3> QED
      BY <1>3, <2>1, <3>1, ResponseType DEF CallType, Calls
  <2>3. call' = [call EXCEPT ![r.caller] = k]
    BY <1>3, <2>1
  <2> QED
    BY <1>1, <2>2, <2>3, CallUpdate
<1> QED
  BY <1>2, <1>3 DEF Deliver

(* What UFM may do with a request of the wire: carry out its call and say  *)
(* so, or refuse it.                                                       *)
CarriesOut(r) ==
  /\ \E e \in Changes : /\ e.what = CallOf(r).what /\ e.set = CallOf(r).set
                        /\ done' = [done EXCEPT ![r.number] = Append(@, e)]
  /\ Deliver(r, 200)

Declines(r) == done' = done /\ \E s \in 400..599 : Deliver(r, s)

LEMMA CallOfType ==
  ASSUME TypeOK, NEW r \in wire
  PROVE  CallOf(r) \in UfmCallSet
<1>1. r.number \in 1..Len(asked) /\ r.step \in 1..Len(UfmCalls(asked[r.number]))
  BY DEF TypeOK
<1>2. asked[r.number] \in Inputs
  BY <1>1 DEF TypeOK
<1> QED
  BY <1>1, <1>2, UfmCallsType, ElementOfSeq DEF CallOf

(* The handlers of ports make the three calls about ports.                 *)
LEMMA PortCall ==
  ASSUME TypeOK, NEW r \in wire, asked[r.number].op \in PortOperations
  PROVE  CallOf(r).what \in {"port_enable", "port_disable", "port_reset"}
<1>1. PICK req \in Inputs : req = asked[r.number]
  BY DEF TypeOK
<1>2. req.op \in PortOperations /\ req.op # "UpdateSystem"
  BY <1>1 DEF PortOperations
<1>3. r.step = 1
  <2>1. Len(UfmCalls(req)) = 1
    BY <1>2, UfmCallsType
  <2>2. r.step \in 1..Len(UfmCalls(req))
    BY <1>1, TypeParts DEF WireType
  <2> QED
    BY <2>1, <2>2
<1>4. PICK what \in {"port_enable", "port_disable", "port_reset"} : UfmCalls(req) = << UfmCallOf(what) >>
  BY <1>2 DEF UfmCalls, PortOperations
<1> QED
  BY <1>1, <1>3, <1>4 DEF CallOf, UfmCallOf

LEMMA Handling ==
  ASSUME TypeOK, NEW r \in wire, UfmHandles(r)
  PROVE  /\ wire' = wire \ {r} /\ asked' = asked
         /\ systems' \in [Guids -> [set : Settings, healthy : BOOLEAN]]
         /\ enabled' \subseteq Ports
         /\ CarriesOut(r) \/ Declines(r)
<1>1. wire' = wire \ {r} /\ asked' = asked
  BY DEF UfmHandles
<1>2. CallOf(r) \in UfmCallSet
  BY CallOfType
<1>3. systems \in [Guids -> [set : Settings, healthy : BOOLEAN]] /\ enabled \subseteq Ports
  BY DEF TypeOK
<1>4. ASSUME NEW on \in Guids \cup Ports, Records(r, on), Deliver(r, 200)
      PROVE  CarriesOut(r)
  <2>1. PICK e : e = [what |-> CallOf(r).what, set |-> CallOf(r).set, on |-> on]
    OBVIOUS
  <2>2. e \in Changes /\ e.what = CallOf(r).what /\ e.set = CallOf(r).set
    BY <1>2, <2>1 DEF Changes, UfmCallSet
  <2>3. done' = [done EXCEPT ![r.number] = Append(@, e)]
    BY <1>4, <2>1 DEF Records
  <2> QED
    BY <1>4, <2>2, <2>3 DEF CarriesOut
<1>5. CASE UfmChangesSystem(r)
  <2>1. PICK g \in Guids :
          /\ LET u == CallOf(r) IN
               systems' = [systems EXCEPT
                 ![g].set = [f \in DOMAIN @ |-> IF u.set[f] = Unset THEN @[f] ELSE u.set[f]],
                 ![g].healthy = CASE u.what = "mark_unhealthy"  -> FALSE
                                  [] u.what = "restore_healthy" -> TRUE
                                  [] OTHER -> @]
          /\ Records(r, g)
    BY <1>5 DEF UfmChangesSystem, Addressed
  <2>2. PICK set : set = [f \in Basics \cup Properties |->
                            IF CallOf(r).set[f] = Unset THEN systems[g].set[f] ELSE CallOf(r).set[f]]
    OBVIOUS
  <2>3. set \in Settings
    BY <1>2, <1>3, <2>2 DEF UfmCallSet, Settings
  <2>4. DOMAIN systems[g].set = Basics \cup Properties
    BY <1>3 DEF Settings
  <2>5. PICK healthy \in BOOLEAN :
          systems' = [systems EXCEPT ![g].set = set, ![g].healthy = healthy]
    <3>1. CASE CallOf(r).what = "mark_unhealthy"
      BY <1>3, <2>1, <2>2, <2>4, <3>1
    <3>2. CASE CallOf(r).what = "restore_healthy"
      BY <1>3, <2>1, <2>2, <2>4, <3>2
    <3>3. CASE CallOf(r).what \notin {"mark_unhealthy", "restore_healthy"}
      BY <1>3, <2>1, <2>2, <2>4, <3>3
    <3> QED
      BY <3>1, <3>2, <3>3
  <2>6. systems' \in [Guids -> [set : Settings, healthy : BOOLEAN]]
    BY <1>3, <2>3, <2>5
  <2>7. enabled' \subseteq Ports /\ CarriesOut(r)
    BY <1>3, <1>4, <1>5, <2>1 DEF UfmChangesSystem
  <2> QED
    BY <1>1, <2>6, <2>7
<1>6. CASE UfmChangesPort(r)
  <2>1. enabled' \subseteq Ports
    <3>1. CallOf(r).what \in {"port_enable", "port_disable", "port_reset"}
      BY <1>6, PortCall DEF UfmChangesPort
    <3> QED
      BY <1>3, <1>6, <3>1 DEF UfmChangesPort
  <2>2. systems' = systems /\ CarriesOut(r)
    BY <1>4, <1>6 DEF UfmChangesPort
  <2> QED
    BY <1>1, <1>3, <2>1, <2>2
<1>7. CASE UfmFindsNothing(r) \/ UfmRefuses(r)
  <2>1. Declines(r) /\ systems' = systems /\ enabled' = enabled
    BY <1>7, SystemsAssumption DEF UfmFindsNothing, UfmRefuses, Declines, ufmVars
  <2> QED
    BY <1>1, <1>3, <2>1
<1> QED
  BY <1>5, <1>6, <1>7 DEF UfmHandles

LEMMA TypeInit == Init => TypeOK
<1> SUFFICES ASSUME Init PROVE TypeOK
  OBVIOUS
<1>1. systems \in [Guids -> [set : Settings, healthy : BOOLEAN]]
  <2>1. \A g \in Guids : [NoSettings EXCEPT !["name"] = FirstName[g]] \in Settings
    BY SystemsAssumption DEF NoSettings, Settings
  <2> QED
    BY <2>1 DEF Init
<1>2. UfmType
  BY <1>1, EmptySeq DEF Init, UfmType
<1>3. HandlersType
  <2>1. \A c \in Callers : call[c] = NoCall
    BY DEF Init
  <2>2. asked = <<>> /\ Len(asked) = 0
    BY DEF Init
  <2>3. CallType(NoCall, asked)
    BY <2>2, NoCallType DEF CallType, NoCall
  <2> QED
    BY <2>1, <2>3, NoCallType DEF Init, HandlersType
<1>4. asked \in Seq(Inputs) /\ Len(asked) <= MaxRequests
  BY SystemsAssumption, EmptySeq DEF Init
<1> QED
  BY <1>2, <1>3, <1>4, TypeParts DEF Init

(* The sequences of asked and of done, one longer.                         *)
LEMMA Longer ==
  ASSUME NEW S, NEW s \in Seq(S), NEW e \in S
  PROVE  /\ Append(s, e) \in Seq(S) /\ Len(Append(s, e)) = Len(s) + 1
         /\ \A i \in 1..Len(s) : Append(s, e)[i] = s[i]
         /\ Append(s, e)[Len(s) + 1] = e
OBVIOUS

LEMMA TypeReceive ==
  ASSUME TypeOK, NEW c \in Callers, NEW req \in Inputs, Receive(c, req)
  PROVE  TypeOK'
<1>0. asked \in Seq(Inputs) /\ done \in Seq(Seq(Changes)) /\ Len(done) = Len(asked)
  BY DEF TypeOK
<1>1. /\ asked' \in Seq(Inputs) /\ Len(asked') = Len(asked) + 1
      /\ \A i \in 1..Len(asked) : asked'[i] = asked[i]
      /\ asked'[Len(asked) + 1] = req
  BY <1>0, Longer DEF Receive
<1>2. done' \in Seq(Seq(Changes)) /\ Len(done') = Len(asked')
  <2>1. <<>> \in Seq(Changes)
    BY EmptySeq
  <2> QED
    BY <1>0, <1>1, <2>1, Longer DEF Receive
<1>3. Len(asked') <= MaxRequests
  BY <1>0, <1>1, SystemsAssumption DEF Receive
<1>4. UfmType'
  BY <1>2 DEF Receive, UfmType, TypeOK
<1>5. PICK n : n = Len(asked) + 1
  OBVIOUS
<1>6. n \in Nat /\ n # 0 /\ n \in 1..Len(asked')
  BY <1>0, <1>1, <1>5
<1>7. \A d \in Callers : CallType(call[d], asked')
  <2> SUFFICES ASSUME NEW d \in Callers PROVE CallType(call[d], asked')
    OBVIOUS
  <2>1. CallType(call[d], asked)
    BY TypeParts DEF HandlersType
  <2> QED
    BY <1>0, <1>1, <2>1 DEF CallType
<1>8. \A r \in wire : WireType(r, asked')
  BY <1>0, <1>1, TypeParts DEF WireType
<1>9. CASE Bindable(req) /\ UfmCalls(req) # <<>>
  <2>1. PICK k : k = [NoCall EXCEPT !.pc = "sent", !.number = n, !.step = 1]
    OBVIOUS
  <2>2. 1 \in 1..Len(UfmCalls(req))
    BY <1>9, UfmCallsType, EmptySeq
  <2>3. CallType(k, asked')
    <3>1. k \in Calls /\ k.number = n /\ k.step = 1
      BY <1>6, <2>1, NoCallType DEF NoCall, Calls
    <3> QED
      BY <1>1, <1>5, <1>6, <2>2, <3>1 DEF CallType
  <2>4. call' = [call EXCEPT ![c] = k] /\ wire' = wire \cup {OnWire(c, n, 1)}
    BY <1>5, <1>9, <2>1 DEF Receive
  <2>5. HandlersType'
    BY <1>7, <2>3, <2>4, TypeParts DEF HandlersType, CallType
  <2>6. WireType(OnWire(c, n, 1), asked')
    BY <1>1, <1>5, <1>6, <2>2 DEF WireType, Wired, OnWire
  <2> QED
    BY <1>1, <1>3, <1>4, <1>8, <2>4, <2>5, <2>6, TypePartsNext
<1>10. CASE ~(Bindable(req) /\ UfmCalls(req) # <<>>)
  <2> DEFINE status == IF Bindable(req) THEN Success(req.op) ELSE BadRequest
  <2>0. status \in {0, 202, 204, BadGateway} \cup PassedOn
    BY DEF Success, BadRequest, PassedOn
  <2>1. PICK k : k = [NoCall EXCEPT !.pc = "replied", !.number = n, !.status = status]
    OBVIOUS
  <2>2. CallType(k, asked')
    <3> HIDE DEF status
    <3>1. k \in Calls /\ k.number = n /\ k.pc = "replied"
      BY <1>6, <2>0, <2>1, NoCallType DEF NoCall, Calls
    <3> QED
      BY <1>6, <3>1 DEF CallType
  <2>3. call' = [call EXCEPT ![c] = k] /\ wire' = wire
    BY <1>5, <1>10, <2>1 DEF Receive
  <2>4. HandlersType'
    BY <1>7, <2>2, <2>3, TypeParts DEF HandlersType, CallType
  <2> QED
    BY <1>1, <1>3, <1>4, <1>8, <2>3, <2>4, TypePartsNext, TypeParts
<1> QED
  BY <1>9, <1>10

(* A step of a handler that is at work leaves UFM and the requests alone.  *)
LEMMA TypeHandler ==
  ASSUME TypeOK, NEW c \in Callers, GiveUp(c) \/ Continue(c) \/ Reply(c)
  PROVE  TypeOK'
<1>1. call[c].pc \in {"sent", "answered"} /\ asked' = asked /\ UNCHANGED ufmVars
  BY DEF GiveUp, Continue, Reply
<1>2. CallType(call[c], asked) /\ HandlersType
  BY TypeParts DEF HandlersType
<1>3. asked[call[c].number] \in Inputs
  BY <1>1, <1>2 DEF CallType, TypeOK
<1>4. Len(UfmCalls(asked[call[c].number])) \in Nat
  BY <1>3, UfmCallsType, LenProperties
<1>5. UfmType'
  BY <1>1 DEF ufmVars, UfmType, TypeOK
<1>6. SUFFICES HandlersType' /\ \A r \in wire' : WireType(r, asked)
  BY <1>1, <1>5, <1>6, TypeParts, TypePartsNext
<1>7. CASE GiveUp(c)
  <2>1. PICK k : k = [call[c] EXCEPT !.pc = "answered", !.resp = Silence]
    OBVIOUS
  <2>2. CallType(k, asked)
    BY <1>1, <1>2, <2>1, ResponseType DEF CallType, Calls
  <2>3. call' = [call EXCEPT ![c] = k] /\ wire' = wire
    BY <1>7, <2>1 DEF GiveUp
  <2> QED
    BY <1>1, <1>2, <2>2, <2>3, CallUpdate, TypeParts
<1>8. CASE Continue(c)
  <2>1. PICK k : k = [call[c] EXCEPT !.pc = "sent", !.step = call[c].step + 1, !.resp = Silence]
    OBVIOUS
  <2>2. call[c].step \in Nat /\ call[c].step + 1 \in 1..Len(UfmCalls(asked[call[c].number]))
    BY <1>1, <1>2, <1>4, <1>8 DEF CallType, Continue, Last
  <2>3. CallType(k, asked) /\ k.number = call[c].number
    <3>1. call[c] \in Calls /\ call[c].number # 0 /\ call[c].step + 1 \in Nat
      BY <1>1, <1>2, <2>2 DEF CallType
    <3>2. k \in Calls /\ k.number = call[c].number /\ k.step = call[c].step + 1
      BY <2>1, <3>1, ResponseType DEF Calls
    <3> QED
      BY <1>2, <2>2, <3>1, <3>2 DEF CallType
  <2>4. call' = [call EXCEPT ![c] = k]
    BY <1>8, <2>1 DEF Continue
  <2>5. wire' = wire \cup {OnWire(c, call[c].number, call[c].step + 1)}
    BY <1>8 DEF Continue
  <2>6. WireType(OnWire(c, call[c].number, call[c].step + 1), asked)
    BY <1>1, <1>2, <2>2 DEF WireType, Wired, OnWire, CallType
  <2> QED
    BY <1>1, <1>2, <2>3, <2>4, <2>5, <2>6, CallUpdate, TypeParts
<1>9. CASE Reply(c)
  <2>1. PICK status : status = Answered(call[c].resp, FALSE, Success(asked[call[c].number].op))
    OBVIOUS
  <2>2. status \in {0, 202, 204, BadGateway} \cup PassedOn
    BY <2>1, StatusType
  <2>3. PICK k : k = [call[c] EXCEPT !.pc = "replied", !.resp = Silence, !.status = status]
    OBVIOUS
  <2>4. CallType(k, asked)
    BY <1>1, <1>2, <2>2, <2>3, ResponseType DEF CallType, Calls
  <2>5. call' = [call EXCEPT ![c] = k] /\ wire' = wire
    BY <1>9, <2>1, <2>3 DEF Reply
  <2> QED
    BY <1>1, <1>2, <2>4, <2>5, CallUpdate, TypeParts
<1> QED
  BY <1>7, <1>8, <1>9

LEMMA TypeHandles ==
  ASSUME TypeOK, NEW r \in wire, UfmHandles(r)
  PROVE  TypeOK'
<1>1. /\ wire' = wire \ {r} /\ asked' = asked
      /\ systems' \in [Guids -> [set : Settings, healthy : BOOLEAN]]
      /\ enabled' \subseteq Ports
      /\ CarriesOut(r) \/ Declines(r)
  BY Handling
<1>2. WireType(r, asked)
  BY TypeParts
<1>3. HandlersType'
  <2>1. \E s \in Nat : Deliver(r, s)
    <3>1. 200 \in Nat /\ 400..599 \subseteq Nat
      OBVIOUS
    <3> QED
      BY <1>1, <3>1 DEF CarriesOut, Declines
  <2> QED
    BY <1>1, <1>2, <2>1, DeliverType, TypeParts
<1>4. done' \in Seq(Seq(Changes)) /\ Len(done') = Len(asked')
  <2>1. CASE CarriesOut(r)
    <3>1. PICK e \in Changes : done' = [done EXCEPT ![r.number] = Append(@, e)]
      BY <2>1 DEF CarriesOut
    <3>2. r.number \in 1..Len(done) /\ done[r.number] \in Seq(Changes) /\ done \in Seq(Seq(Changes))
      BY <1>2 DEF TypeOK, WireType
    <3>3. Append(done[r.number], e) \in Seq(Changes)
      BY <3>2, Longer
    <3>4. done' = [done EXCEPT ![r.number] = Append(done[r.number], e)]
      BY <3>1
    <3> QED
      BY <1>1, <3>2, <3>3, <3>4, ExceptSeq DEF TypeOK
  <2>2. CASE Declines(r)
    BY <1>1, <2>2 DEF Declines, TypeOK
  <2> QED
    BY <1>1, <2>1, <2>2
<1>5. \A w \in wire' : WireType(w, asked')
  BY <1>1, TypeParts
<1> QED
  <2>1. UfmType'
    BY <1>1, <1>4 DEF UfmType
  <2> QED
    BY <1>1, <1>3, <1>5, <2>1, TypeParts, TypePartsNext

LEMMA TypeStep ==
  ASSUME TypeOK, [Next]_vars
  PROVE  TypeOK'
<1>1. ASSUME NEW r \in wire, WireLoses(r) PROVE TypeOK'
  BY <1>1 DEF WireLoses, TypeOK
<1>2. CASE UNCHANGED vars
  BY <1>2 DEF vars, TypeOK
<1> QED
  BY <1>1, <1>2, TypeReceive, TypeHandler, TypeHandles DEF Next

(* Every variable holds a value of its kind, and handlers and calls on the *)
(* wire belong to requests that were made and to calls these consist of.   *)
THEOREM TypeCorrect == Spec => []TypeOK
<1>1. Init => TypeOK
  BY TypeInit
<1>2. TypeOK /\ [Next]_vars => TypeOK'
  BY TypeStep
<1> QED
  BY <1>1, <1>2, PTL DEF Spec

-----------------------------------------------------------------------------
(***************************************************************************)
(* The inductive invariant.  A request has one handler, and one call on    *)
(* the wire at most, which is the one its handler has come to; the calls   *)
(* before that one, and no others, are carried out, each as asked for.     *)
(***************************************************************************)
OneHandler ==
  \A c, d \in Callers : call[c].number = call[d].number /\ call[c].number # 0 => c = d

OneCallOut ==
  \A r \in wire :
    /\ Len(done[r.number]) = r.step - 1
    /\ \A s \in wire : s.number = r.number => s = r
    /\ \A c \in Callers : call[c].number = r.number => r.caller = c /\ r.step = call[c].step

AsAsked(did, calls) ==
  /\ Len(did) <= Len(calls)
  /\ \A i \in 1..Len(did) : did[i].what = calls[i].what /\ did[i].set = calls[i].set

DoneAsAsked == \A n \in 1..Len(asked) : AsAsked(done[n], UfmCalls(asked[n]))

Outstanding(n) == \E r \in wire : r.number = n

(* What a handler's state k says of its request req: how many of its calls *)
(* are carried out (did), and whether one is still outstanding (out).      *)
Knows(k, req, did, out) ==
  /\ k.pc = "sent" => did = k.step - 1
  /\ k.pc = "answered" => did \in {k.step - 1, k.step}
  /\ k.pc = "answered" /\ k.resp.got =>
       ~out /\ did = IF k.resp.status < 400 THEN k.step ELSE k.step - 1
  /\ k.pc = "replied" /\ k.status # BadGateway =>
       /\ ~out
       /\ k.status < 400 => did = Len(UfmCalls(req))
       /\ k.status >= 400 /\ Bindable(req) => did < Len(UfmCalls(req))

HandlerKnows(c) ==
  Knows(call[c], asked[call[c].number], Len(done[call[c].number]), Outstanding(call[c].number))

SystemsInv == OneHandler /\ OneCallOut /\ DoneAsAsked /\ \A c \in Callers : HandlerKnows(c)

LEMMA InvInit == Init => SystemsInv
BY DEF Init, NoCall, SystemsInv, OneHandler, OneCallOut, DoneAsAsked, HandlerKnows, Knows

(* A call succeeds when UFM answers with a status of success.              *)
LEMMA DoSucceeds ==
  ASSUME NEW resp \in Responses
  PROVE  do(resp, FALSE) = NoError <=> (resp.got /\ resp.status < 400)
BY DEF do, NoError, APIError, OtherError, Responses

(* What a status a handler answers with says of UFM's answer.              *)
LEMMA Answers ==
  ASSUME NEW resp \in Responses, NEW op
  PROVE  \A status : status = Answered(resp, FALSE, Success(op)) =>
           /\ status \in Nat
           /\ status < 400 <=> (resp.got /\ resp.status < 400)
           /\ status # BadGateway => resp.got
<1> SUFFICES ASSUME NEW status, status = Answered(resp, FALSE, Success(op))
             PROVE  /\ status \in Nat
                    /\ status < 400 <=> (resp.got /\ resp.status < 400)
                    /\ status # BadGateway => resp.got
  OBVIOUS
<1>1. PICK err : err = do(resp, FALSE)
  OBVIOUS
<1>2. PICK success : success = Success(op)
  OBVIOUS
<1>3. success \in Nat /\ success < 400
  BY <1>2 DEF Success
<1>4. PICK h : h = handleUFMError(err)
  OBVIOUS
<1>5. h \in Nat /\ ~(h < 400)
  BY <1>4 DEF handleUFMError, PassedOn, BadGateway
<1>6. status = IF err = NoError THEN success ELSE h
  BY <1>1, <1>2, <1>4 DEF Answered
<1>7. err = NoError <=> (resp.got /\ resp.status < 400)
  BY <1>1, DoSucceeds
<1>8. ~resp.got => err = OtherError
  BY <1>1 DEF do
<1>9. ~resp.got => h = BadGateway
  BY <1>4, <1>8 DEF handleUFMError, OtherError
<1>10. CASE err = NoError
  <2>1. status = success
    BY <1>6, <1>10
  <2> QED
    BY <1>3, <1>7, <1>10, <2>1
<1>11. CASE err # NoError
  <2>1. status = h
    BY <1>6, <1>11
  <2> QED
    BY <1>5, <1>7, <1>9, <1>11, <2>1
<1> QED
  BY <1>10, <1>11

(* A handler's knowledge stays true while its request is left alone.       *)
LEMMA KnowsStays ==
  ASSUME NEW d \in Callers, HandlerKnows(d), call'[d] = call[d],
         call[d].pc # "idle" => /\ asked'[call[d].number] = asked[call[d].number]
                                /\ done'[call[d].number] = done[call[d].number]
                                /\ Outstanding(call[d].number)' => Outstanding(call[d].number)
  PROVE  HandlerKnows(d)'
<1>1. CASE call[d].pc = "idle"
  BY <1>1 DEF HandlerKnows, Knows
<1>2. CASE call[d].pc # "idle"
  BY <1>2 DEF HandlerKnows, Knows
<1> QED
  BY <1>1, <1>2

LEMMA InvReceive ==
  ASSUME TypeOK, SystemsInv, NEW c \in Callers, NEW req \in Inputs, Receive(c, req)
  PROVE  SystemsInv'
<1>0. asked \in Seq(Inputs) /\ done \in Seq(Seq(Changes)) /\ Len(done) = Len(asked)
  BY DEF TypeOK
<1>1. PICK n : n = Len(asked) + 1
  OBVIOUS
<1>2. n \in Nat /\ n # 0 /\ n \notin 0..Len(asked)
  BY <1>0, <1>1
<1>3. /\ Len(asked') = n
      /\ \A i \in 1..Len(asked) : asked'[i] = asked[i]
      /\ asked'[n] = req
  BY <1>0, <1>1, Longer DEF Receive
<1>4. (\A i \in 1..Len(asked) : done'[i] = done[i]) /\ done'[n] = <<>>
  <2>1. <<>> \in Seq(Changes)
    BY EmptySeq
  <2> QED
    BY <1>0, <1>1, <2>1, Longer DEF Receive
<1>5. Len(done'[n]) = 0 /\ Len(UfmCalls(req)) \in Nat
  BY <1>4, UfmCallsType, LenProperties
<1>6. DoneAsAsked'
  <2>1. AsAsked(done'[n], UfmCalls(asked'[n]))
    BY <1>3, <1>5 DEF AsAsked
  <2>2. \A i \in 1..Len(asked) : AsAsked(done'[i], UfmCalls(asked'[i]))
    BY <1>3, <1>4 DEF SystemsInv, DoneAsAsked
  <2>3. \A i \in 1..Len(asked') : i = n \/ i \in 1..Len(asked)
    BY <1>0, <1>1, <1>3
  <2> QED
    BY <2>1, <2>2, <2>3 DEF DoneAsAsked
<1>7. PICK k : /\ call' = [call EXCEPT ![c] = k] /\ k.number = n
               /\ \/ k.pc = "sent" /\ k.step = 1 /\ wire' = wire \cup {OnWire(c, n, 1)}
                  \/ /\ k.pc = "replied" /\ wire' = wire
                     /\ k.status < 400 => UfmCalls(req) = <<>>
                     /\ k.status >= 400 => ~Bindable(req)
  <2>1. CASE Bindable(req) /\ UfmCalls(req) # <<>>
    <3>1. PICK k : k = [NoCall EXCEPT !.pc = "sent", !.number = n, !.step = 1]
      OBVIOUS
    <3>2. call' = [call EXCEPT ![c] = k] /\ wire' = wire \cup {OnWire(c, n, 1)}
      BY <1>1, <2>1, <3>1 DEF Receive
    <3>3. k.number = n /\ k.pc = "sent" /\ k.step = 1
      BY <3>1 DEF NoCall
    <3> QED
      BY <3>2, <3>3
  <2>2. CASE ~(Bindable(req) /\ UfmCalls(req) # <<>>)
    <3>1. PICK status : status = IF Bindable(req) THEN Success(req.op) ELSE BadRequest
      OBVIOUS
    <3>2. PICK k : k = [NoCall EXCEPT !.pc = "replied", !.number = n, !.status = status]
      OBVIOUS
    <3>3. call' = [call EXCEPT ![c] = k] /\ wire' = wire
      BY <1>1, <2>2, <3>1, <3>2 DEF Receive
    <3>4. k.number = n /\ k.pc = "replied" /\ k.status = status
      BY <3>2 DEF NoCall
    <3>5. (status < 400 => UfmCalls(req) = <<>>) /\ (status >= 400 => ~Bindable(req))
      BY <2>2, <3>1 DEF Success, BadRequest
    <3> QED
      BY <3>3, <3>4, <3>5
  <2> QED
    BY <2>1, <2>2
<1>8. call \in [Callers -> Calls] /\ \A d \in Callers : call[d].number \in 0..Len(asked)
  BY DEF TypeOK
<1>9. OneHandler'
  BY <1>2, <1>7, <1>8 DEF SystemsInv, OneHandler
<1>10. \A r \in wire : r.number \in 1..Len(asked)
  BY DEF TypeOK
<1>11. OneCallOut'
  <2>1. ASSUME NEW r \in wire
        PROVE  /\ Len(done'[r.number]) = r.step - 1
               /\ \A s \in wire' : s.number = r.number => s = r
               /\ \A d \in Callers : call'[d].number = r.number =>
                    r.caller = d /\ r.step = call'[d].step
    <3>1. Len(done'[r.number]) = r.step - 1
      BY <1>4, <1>10 DEF SystemsInv, OneCallOut
    <3>2. \A s \in wire' : s \in wire \/ s.number = n
      BY <1>7 DEF OnWire
    <3>3. r.number # n
      BY <1>2, <1>10
    <3>4. \A s \in wire' : s.number = r.number => s = r
      BY <3>2, <3>3 DEF SystemsInv, OneCallOut
    <3>5. \A d \in Callers : call'[d].number = r.number => r.caller = d /\ r.step = call'[d].step
      BY <1>7, <1>8, <3>3 DEF SystemsInv, OneCallOut
    <3> QED
      BY <3>1, <3>4, <3>5
  <2>2. ASSUME k.step = 1, wire' = wire \cup {OnWire(c, n, 1)}
        PROVE  LET r == OnWire(c, n, 1) IN
               /\ Len(done'[r.number]) = r.step - 1
               /\ \A s \in wire' : s.number = r.number => s = r
               /\ \A d \in Callers : call'[d].number = r.number =>
                    r.caller = d /\ r.step = call'[d].step
    <3>1. PICK r : r = OnWire(c, n, 1)
      OBVIOUS
    <3>2. r.number = n /\ r.step = 1 /\ r.caller = c
      BY <3>1 DEF OnWire
    <3>3. \A s \in wire' : s.number = n => s = r
      BY <1>2, <1>10, <2>2, <3>1
    <3>4. \A d \in Callers : call'[d].number = n => d = c
      BY <1>2, <1>7, <1>8
    <3> QED
      BY <1>5, <1>7, <1>8, <2>2, <3>1, <3>2, <3>3, <3>4
  <2> QED
    BY <1>7, <2>1, <2>2 DEF OneCallOut
<1>12. \A d \in Callers : HandlerKnows(d)'
  <2> SUFFICES ASSUME NEW d \in Callers PROVE HandlerKnows(d)'
    OBVIOUS
  <2>1. CASE d # c
    <3>1. call'[d] = call[d]
      BY <1>7, <1>8, <2>1
    <3>2. CASE call[d].pc = "idle"
      BY <3>1, <3>2, KnowsStays DEF SystemsInv
    <3>3. CASE call[d].pc # "idle"
      <4>1. call[d].number \in 1..Len(asked)
        BY <1>0, <3>3 DEF TypeOK
      <4>2. \A s \in wire' : s \in wire \/ s.number = n
        BY <1>7 DEF OnWire
      <4>3. Outstanding(call[d].number)' => Outstanding(call[d].number)
        BY <1>2, <3>1, <4>1, <4>2 DEF Outstanding
      <4> QED
        BY <1>3, <1>4, <3>1, <4>1, <4>3, KnowsStays DEF SystemsInv
    <3> QED
      BY <3>2, <3>3
  <2>2. CASE d = c
    <3>1. call'[c] = k
      BY <1>7, <1>8
    <3>2. CASE k.pc = "sent" /\ k.step = 1
      <4>1. Knows(k, req, 0, Outstanding(n)')
        BY <3>2 DEF Knows
      <4> QED
        BY <1>3, <1>5, <1>7, <2>2, <3>1, <4>1 DEF HandlerKnows, Outstanding
    <3>3. CASE /\ k.pc = "replied" /\ wire' = wire
               /\ k.status < 400 => UfmCalls(req) = <<>>
               /\ k.status >= 400 => ~Bindable(req)
      <4>1. ~Outstanding(n)'
        BY <1>2, <1>10, <3>3 DEF Outstanding
      <4>2. k.status < 400 => Len(UfmCalls(req)) = 0
        BY <3>3
      <4>3. Knows(k, req, 0, Outstanding(n)')
        BY <3>3, <4>1, <4>2 DEF Knows
      <4> QED
        BY <1>3, <1>5, <1>7, <2>2, <3>1, <4>3 DEF HandlerKnows, Outstanding
    <3> QED
      BY <1>7, <3>2, <3>3
  <2> QED
    BY <2>1, <2>2
<1> QED
  BY <1>6, <1>9, <1>11, <1>12 DEF SystemsInv

(* What a step that moves only the handler of c leaves to be shown.        *)
LEMMA InvHandler ==
  ASSUME TypeOK, SystemsInv, NEW c \in Callers, NEW k, call' = [call EXCEPT ![c] = k],
         k.number = call[c].number, call[c].pc # "idle", asked' = asked, done' = done,
         \/ wire' = wire /\ k.step = call[c].step
         \/ /\ wire' = wire \cup {OnWire(c, k.number, k.step)} /\ ~Outstanding(k.number)
            /\ Len(done[k.number]) = k.step - 1,
         Knows(k, asked[k.number], Len(done[k.number]), Outstanding(k.number)')
  PROVE  SystemsInv'
<1>1. call \in [Callers -> Calls] /\ call[c].number # 0
  BY DEF TypeOK
<1>2. OneHandler'
  BY <1>1 DEF SystemsInv, OneHandler
<1>3. \A d \in Callers : call[d].number = k.number => d = c
  BY <1>1 DEF SystemsInv, OneHandler
<1>4. \A d \in Callers : call'[d].number = k.number => d = c
  BY <1>1, <1>3
<1>5. OneCallOut'
  <2>1. CASE wire' = wire /\ k.step = call[c].step
    BY <1>1, <2>1 DEF SystemsInv, OneCallOut
  <2>2. CASE /\ wire' = wire \cup {OnWire(c, k.number, k.step)} /\ ~Outstanding(k.number)
             /\ Len(done[k.number]) = k.step - 1
    <3>1. ASSUME NEW r \in wire
          PROVE  /\ Len(done'[r.number]) = r.step - 1
                 /\ \A s \in wire' : s.number = r.number => s = r
                 /\ \A d \in Callers : call'[d].number = r.number =>
                      r.caller = d /\ r.step = call'[d].step
      <4>1. r.number # k.number
        BY <2>2 DEF Outstanding
      <4>2. \A s \in wire' : s \in wire \/ s.number = k.number
        BY <2>2 DEF OnWire
      <4>3. \A d \in Callers : call'[d].number = r.number =>
              r.caller = d /\ r.step = call'[d].step
        BY <1>1, <4>1 DEF SystemsInv, OneCallOut
      <4> QED
        BY <4>1, <4>2, <4>3 DEF SystemsInv, OneCallOut
    <3>2. PICK r : r = OnWire(c, k.number, k.step)
      OBVIOUS
    <3>3. r.number = k.number /\ r.step = k.step /\ r.caller = c
      BY <3>2 DEF OnWire
    <3>4. \A s \in wire' : s.number = r.number => s = r
      BY <2>2, <3>2, <3>3 DEF Outstanding
    <3>5. \A d \in Callers : call'[d].number = r.number => r.caller = d /\ r.step = call'[d].step
      BY <1>1, <1>4, <3>3
    <3>6. Len(done'[r.number]) = r.step - 1
      BY <2>2, <3>3
    <3> QED
      BY <2>2, <3>1, <3>2, <3>4, <3>5, <3>6 DEF OneCallOut
  <2> QED
    BY <2>1, <2>2
<1>6. \A d \in Callers : HandlerKnows(d)'
  <2> SUFFICES ASSUME NEW d \in Callers PROVE HandlerKnows(d)'
    OBVIOUS
  <2>1. CASE d = c
    <3>1. call'[c] = k
      BY <1>1
    <3> QED
      BY <2>1, <3>1 DEF HandlerKnows, Outstanding
  <2>2. CASE d # c
    <3>1. call'[d] = call[d] /\ call[d].number # k.number
      BY <1>1, <1>3, <2>2
    <3>2. \A s \in wire' : s \in wire \/ s.number = k.number
      BY DEF OnWire
    <3>3. Outstanding(call[d].number)' => Outstanding(call[d].number)
      BY <3>1, <3>2 DEF Outstanding
    <3> QED
      BY <3>1, <3>3, KnowsStays DEF SystemsInv
  <2> QED
    BY <2>1, <2>2
<1> QED
  BY <1>2, <1>5, <1>6 DEF SystemsInv, DoneAsAsked


LEMMA InvGiveUp ==
  ASSUME TypeOK, SystemsInv, NEW c \in Callers, GiveUp(c)
  PROVE  SystemsInv'
<1>1. PICK k : k = [call[c] EXCEPT !.pc = "answered", !.resp = Silence]
  OBVIOUS
<1>2. call[c] \in Calls /\ call[c].pc \in {"sent", "answered"} /\ HandlerKnows(c)
  BY DEF GiveUp, SystemsInv, TypeOK
<1>3. /\ k.number = call[c].number /\ k.step = call[c].step
      /\ k.pc = "answered" /\ k.resp.got = FALSE /\ k.step \in Nat
  BY <1>1, <1>2 DEF Calls, Silence
<1>4. Len(done[k.number]) \in {k.step - 1, k.step}
  BY <1>2, <1>3 DEF HandlerKnows, Knows
<1>5. Knows(k, asked[k.number], Len(done[k.number]), Outstanding(k.number)')
  BY <1>3, <1>4 DEF Knows
<1>6. /\ call' = [call EXCEPT ![c] = k] /\ wire' = wire
      /\ asked' = asked /\ done' = done
  BY <1>1 DEF GiveUp, ufmVars
<1> QED
  BY <1>2, <1>3, <1>5, <1>6, InvHandler

LEMMA InvContinue ==
  ASSUME TypeOK, SystemsInv, NEW c \in Callers, Continue(c)
  PROVE  SystemsInv'
<1>1. PICK k : k = [call[c] EXCEPT !.pc = "sent", !.step = call[c].step + 1, !.resp = Silence]
  OBVIOUS
<1>2. call[c] \in Calls /\ call[c].pc = "answered" /\ HandlerKnows(c)
  BY DEF Continue, SystemsInv, TypeOK
<1>3. k.number = call[c].number /\ k.step = call[c].step + 1 /\ k.pc = "sent"
  BY <1>1, <1>2 DEF Calls
<1>4. call[c].resp.got /\ call[c].resp.status < 400
  <2>1. call[c].resp \in Responses /\ do(call[c].resp, FALSE) = NoError
    BY <1>2 DEF Continue, Calls
  <2> QED
    BY <2>1, DoSucceeds
<1>5. Len(done[k.number]) = k.step - 1 /\ ~Outstanding(k.number)
  <2>1. call[c].step \in Nat
    BY <1>2 DEF Calls
  <2> QED
    BY <1>2, <1>3, <1>4, <2>1 DEF HandlerKnows, Knows
<1>6. Knows(k, asked[k.number], Len(done[k.number]), Outstanding(k.number)')
  BY <1>3, <1>5 DEF Knows
<1>7. /\ call' = [call EXCEPT ![c] = k] /\ wire' = wire \cup {OnWire(c, k.number, k.step)}
      /\ asked' = asked /\ done' = done
  BY <1>1, <1>3 DEF Continue, ufmVars
<1> QED
  BY <1>2, <1>3, <1>5, <1>6, <1>7, InvHandler

LEMMA InvReply ==
  ASSUME TypeOK, SystemsInv, NEW c \in Callers, Reply(c)
  PROVE  SystemsInv'
<1>1. PICK status : status = Answered(call[c].resp, FALSE, Success(asked[call[c].number].op))
  OBVIOUS
<1>2. PICK k : k = [call[c] EXCEPT !.pc = "replied", !.resp = Silence, !.status = status]
  OBVIOUS
<1>3. /\ call[c] \in Calls /\ call[c].pc = "answered" /\ HandlerKnows(c)
      /\ call[c].resp \in Responses
  BY DEF Reply, SystemsInv, TypeOK, Calls
<1>4. k.number = call[c].number /\ k.step = call[c].step /\ k.pc = "replied" /\ k.status = status
  BY <1>2, <1>3 DEF Calls
<1>5. /\ call' = [call EXCEPT ![c] = k] /\ wire' = wire
      /\ asked' = asked /\ done' = done
  BY <1>1, <1>2 DEF Reply, ufmVars
<1>6. PICK did : did = Len(done[k.number])
  OBVIOUS
<1>7. PICK goal : goal = Len(UfmCalls(asked[k.number]))
  OBVIOUS
<1>8. goal \in Nat /\ k.step \in 1..goal
  <2>1. asked[k.number] \in Inputs /\ k.step \in 1..goal
    BY <1>3, <1>4, <1>7 DEF TypeOK
  <2> QED
    BY <1>7, <2>1, UfmCallsType, LenProperties
<1>9. /\ status \in Nat
      /\ status < 400 <=> (call[c].resp.got /\ call[c].resp.status < 400)
      /\ status # BadGateway => call[c].resp.got
  <2>1. PICK op : op = asked[call[c].number].op
    OBVIOUS
  <2>2. PICK resp \in Responses : resp = call[c].resp
    BY <1>3
  <2>3. PICK said : said = Answered(resp, FALSE, Success(op))
    OBVIOUS
  <2>4. /\ said \in Nat
        /\ said < 400 <=> (resp.got /\ resp.status < 400)
        /\ said # BadGateway => resp.got
    <3>1. \A s : s = Answered(resp, FALSE, Success(op)) =>
            /\ s \in Nat
            /\ s < 400 <=> (resp.got /\ resp.status < 400)
            /\ s # BadGateway => resp.got
      BY Answers
    <3> QED
      BY <2>3, <3>1
  <2>5. status = said
    BY <1>1, <2>1, <2>2, <2>3
  <2> QED
    BY <2>2, <2>4, <2>5
<1>10. call[c].resp.got =>
         /\ ~Outstanding(k.number)
         /\ did = IF call[c].resp.status < 400 THEN k.step ELSE k.step - 1
  BY <1>3, <1>4, <1>6 DEF HandlerKnows, Knows
<1>11. Outstanding(k.number)' = Outstanding(k.number)
  BY <1>2, <1>5 DEF Outstanding
<1>12. call[c].resp.got /\ call[c].resp.status < 400 => k.step = goal
  BY <1>3, <1>4, <1>7, DoSucceeds DEF Reply, Last
<1>13. status # BadGateway /\ status < 400 => did = goal
  BY <1>9, <1>10, <1>12
<1>14. status # BadGateway /\ ~(status < 400) => did < goal
  BY <1>8, <1>9, <1>10
<1>15. Knows(k, asked[k.number], did, Outstanding(k.number)')
  BY <1>4, <1>7, <1>9, <1>10, <1>11, <1>13, <1>14 DEF Knows
<1> QED
  BY <1>3, <1>4, <1>5, <1>6, <1>15, InvHandler

(* A step that takes r from the wire leaves nothing of its request there.  *)
LEMMA TakenFromWire ==
  ASSUME SystemsInv, NEW r \in wire, wire' = wire \ {r}
  PROVE  /\ ~Outstanding(r.number)'
         /\ \A n : Outstanding(n)' => Outstanding(n)
BY DEF SystemsInv, OneCallOut, Outstanding

LEMMA InvLoses ==
  ASSUME TypeOK, SystemsInv, NEW r \in wire, WireLoses(r)
  PROVE  SystemsInv'
<1>1. wire' = wire \ {r} /\ call' = call /\ asked' = asked /\ done' = done
  BY DEF WireLoses
<1>2. \A d \in Callers : HandlerKnows(d)'
  <2> SUFFICES ASSUME NEW d \in Callers PROVE HandlerKnows(d)'
    OBVIOUS
  <2>1. Outstanding(call[d].number)' => Outstanding(call[d].number)
    BY <1>1 DEF Outstanding
  <2> QED
    BY <1>1, <2>1, KnowsStays DEF SystemsInv
<1> QED
  BY <1>1, <1>2 DEF SystemsInv, OneHandler, OneCallOut, DoneAsAsked

(* UFM's answer to a call changes one handler, and that only if it waits.  *)
LEMMA Delivered ==
  ASSUME TypeOK, NEW r \in wire, NEW s \in Nat, Deliver(r, s)
  PROVE  /\ \A d \in Callers : call'[d].number = call[d].number /\ call'[d].step = call[d].step
         /\ \A d \in Callers : call[d].number # r.number => call'[d] = call[d]
         /\ \A d \in Callers : call[d].pc # "sent" => call'[d] = call[d]
         /\ \A d \in Callers : d = r.caller /\ call[d].pc = "sent" /\ call[d].number = r.number
                                 /\ call[d].step = r.step =>
                call'[d].pc = "answered" /\ call'[d].resp = Response(s)
<1>1. call \in [Callers -> Calls]
  BY DEF TypeOK
<1>2. CASE ~(call[r.caller].pc = "sent" /\ call[r.caller].number = r.number
                                        /\ call[r.caller].step = r.step)
  <2>1. call' = call
    BY <1>2 DEF Deliver
  <2> QED
    BY <1>2, <2>1
<1>3. CASE call[r.caller].pc = "sent" /\ call[r.caller].number = r.number
                                      /\ call[r.caller].step = r.step
  <2>1. PICK k : k = [call[r.caller] EXCEPT !.pc = "answered", !.resp = Response(s)]
    OBVIOUS
  <2>2. call' = [call EXCEPT ![r.caller] = k]
    BY <1>3, <2>1 DEF Deliver
  <2>3. \A d \in Callers : call'[d] = IF d = r.caller THEN k ELSE call[d]
    BY <1>1, <2>2
  <2>4. r.caller \in Callers => /\ k.number = call[r.caller].number /\ k.step = call[r.caller].step
                                /\ k.pc = "answered" /\ k.resp = Response(s)
    BY <1>1, <2>1 DEF Calls
  <2> QED
    BY <1>3, <2>1, <2>3, <2>4
<1> QED
  BY <1>2, <1>3

LEMMA InvHandles ==
  ASSUME TypeOK, SystemsInv, NEW r \in wire, UfmHandles(r)
  PROVE  SystemsInv'
<1>1. wire' = wire \ {r} /\ asked' = asked /\ (CarriesOut(r) \/ Declines(r))
  BY Handling
<1>2. PICK s \in Nat : /\ Deliver(r, s)
                       /\ IF s < 400 THEN CarriesOut(r) ELSE Declines(r)
  <2>1. CASE CarriesOut(r)
    <3>1. Deliver(r, 200)
      BY <2>1 DEF CarriesOut
    <3> QED
      BY <2>1, <3>1
  <2>2. CASE Declines(r)
    <3>1. PICK s \in 400..599 : Deliver(r, s)
      BY <2>2 DEF Declines
    <3> QED
      BY <2>2, <3>1
  <2> QED
    BY <1>1, <2>1, <2>2
<1>3. PICK n : n = r.number
  OBVIOUS
<1>4. /\ n \in 1..Len(asked) /\ r.step \in 1..Len(UfmCalls(asked[n])) /\ asked[n] \in Inputs
      /\ done \in Seq(Seq(Changes)) /\ Len(done) = Len(asked) /\ r.step \in Nat
  BY <1>3 DEF TypeOK, Wired
<1>5. Len(done[n]) = r.step - 1 /\ AsAsked(done[n], UfmCalls(asked[n])) /\ done[n] \in Seq(Changes)
  BY <1>3, <1>4 DEF SystemsInv, OneCallOut, DoneAsAsked
<1>6. \A m \in 1..Len(asked) : m # n => done'[m] = done[m]
  <2>1. CASE s < 400
    <3>1. PICK e \in Changes : done' = [done EXCEPT ![n] = Append(@, e)]
      BY <1>2, <1>3, <2>1 DEF CarriesOut
    <3> QED
      BY <3>1, <1>4
  <2>2. CASE ~(s < 400)
    <3>1. done' = done
      BY <1>2, <2>2 DEF Declines
    <3> QED
      BY <3>1
  <2> QED
    BY <2>1, <2>2
<1>7. /\ Len(done'[n]) = IF s < 400 THEN r.step ELSE r.step - 1
      /\ AsAsked(done'[n], UfmCalls(asked[n]))
  <2>1. CASE s < 400
    <3>1. PICK e \in Changes : /\ e.what = CallOf(r).what /\ e.set = CallOf(r).set
                               /\ done' = [done EXCEPT ![r.number] = Append(@, e)]
      BY <1>2, <2>1 DEF CarriesOut
    <3>2. done'[n] = Append(done[n], e)
      BY <1>3, <1>4, <3>1
    <3>3. /\ Len(done'[n]) = r.step
          /\ \A i \in 1..Len(done[n]) : done'[n][i] = done[n][i]
          /\ done'[n][r.step] = e
      BY <1>4, <1>5, <3>2, Longer
    <3>4. e.what = UfmCalls(asked[n])[r.step].what /\ e.set = UfmCalls(asked[n])[r.step].set
      BY <1>3, <3>1 DEF CallOf
    <3>5. Len(UfmCalls(asked[n])) \in Nat
      BY <1>4, UfmCallsType, LenProperties
    <3>6. \A i \in 1..r.step : i = r.step \/ i \in 1..Len(done[n])
      BY <1>4, <1>5
    <3>7. \A i \in 1..r.step : /\ done'[n][i].what = UfmCalls(asked[n])[i].what
                               /\ done'[n][i].set = UfmCalls(asked[n])[i].set
      BY <1>5, <3>3, <3>4, <3>6 DEF AsAsked
    <3>8. r.step <= Len(UfmCalls(asked[n]))
      BY <1>4, <3>5
    <3> QED
      BY <2>1, <3>3, <3>7, <3>8 DEF AsAsked
  <2>2. CASE ~(s < 400)
    BY <1>2, <1>5, <2>2 DEF Declines
  <2> QED
    BY <2>1, <2>2
<1>8. \A d \in Callers : call'[d].number = call[d].number /\ call'[d].step = call[d].step
  BY <1>2, Delivered
<1>9. OneHandler'
  BY <1>8 DEF SystemsInv, OneHandler
<1>10. OneCallOut'
  <2>1. \A w \in wire' : w \in wire /\ w.number # n /\ w.number \in 1..Len(asked)
    BY <1>1, <1>3 DEF SystemsInv, OneCallOut, TypeOK
  <2>2. ASSUME NEW w \in wire'
        PROVE  /\ Len(done'[w.number]) = w.step - 1
               /\ \A v \in wire' : v.number = w.number => v = w
               /\ \A d \in Callers : call'[d].number = w.number =>
                    w.caller = d /\ w.step = call'[d].step
    <3>1. Len(done'[w.number]) = w.step - 1
      BY <1>6, <2>1 DEF SystemsInv, OneCallOut
    <3>2. \A v \in wire' : v.number = w.number => v = w
      BY <2>1 DEF SystemsInv, OneCallOut
    <3>3. \A d \in Callers : call'[d].number = w.number => w.caller = d /\ w.step = call'[d].step
      BY <1>8, <2>1 DEF SystemsInv, OneCallOut
    <3> QED
      BY <3>1, <3>2, <3>3
  <2> QED
    BY <2>2 DEF OneCallOut
<1>11. DoneAsAsked'
  BY <1>1, <1>6, <1>7 DEF SystemsInv, DoneAsAsked
<1>12. ~Outstanding(n)' /\ Outstanding(n) /\ \A m : Outstanding(m)' => Outstanding(m)
  BY <1>1, <1>3, TakenFromWire DEF Outstanding
<1>13. \A d \in Callers : HandlerKnows(d)'
  <2> SUFFICES ASSUME NEW d \in Callers PROVE HandlerKnows(d)'
    OBVIOUS
  <2>0. call[d] \in Calls /\ HandlerKnows(d)
    BY DEF TypeOK, SystemsInv
  <2>1. CASE call[d].number # n
    <3>1. call'[d] = call[d]
      BY <1>2, <1>3, <2>1, Delivered
    <3>2. call[d].pc # "idle" => call[d].number \in 1..Len(asked)
      BY <1>4 DEF TypeOK
    <3> QED
      BY <1>1, <1>6, <1>12, <2>0, <2>1, <3>1, <3>2, KnowsStays
  <2>2. CASE call[d].number = n
    <3>1. d = r.caller /\ call[d].step = r.step
      BY <1>3, <2>2 DEF SystemsInv, OneCallOut
    <3>2. PICK did : did = Len(done'[n])
      OBVIOUS
    <3>3. did = IF s < 400 THEN r.step ELSE r.step - 1
      BY <1>7, <3>2
    <3>4. ASSUME Knows(call'[d], asked[n], did, FALSE) PROVE HandlerKnows(d)'
      <4>1. call'[d].number = n /\ asked'[n] = asked[n] /\ Outstanding(n)' = FALSE
        BY <1>1, <1>8, <1>12, <2>2
      <4> QED
        BY <3>2, <3>4, <4>1 DEF HandlerKnows, Outstanding
    <3>5. CASE call[d].pc = "sent"
      <4>1. call'[d].pc = "answered" /\ call'[d].resp = Response(s)
        BY <1>2, <1>3, <2>2, <3>1, <3>5, Delivered
      <4>2. call'[d].step = r.step /\ call'[d].resp.status = s
        BY <1>8, <3>1, <4>1 DEF Response
      <4>3. Knows(call'[d], asked[n], did, FALSE)
        BY <1>4, <3>3, <4>1, <4>2 DEF Knows
      <4> QED
        BY <3>4, <4>3
    <3>6. CASE call[d].pc # "sent"
      <4>1. call'[d] = call[d]
        BY <1>2, <3>6, Delivered
      <4>2. Knows(call[d], asked[n], Len(done[n]), TRUE)
        BY <1>12, <2>0, <2>2 DEF HandlerKnows
      <4>3. Knows(call[d], asked[n], did, FALSE)
        BY <1>4, <3>1, <3>3, <3>6, <4>2 DEF Knows
      <4> QED
        BY <3>4, <4>1, <4>3
    <3> QED
      BY <3>5, <3>6
  <2> QED
    BY <2>1, <2>2
<1> QED
  BY <1>9, <1>10, <1>11, <1>13 DEF SystemsInv

LEMMA InvStep ==
  ASSUME TypeOK, SystemsInv, [Next]_vars
  PROVE  SystemsInv'
<1>1. CASE UNCHANGED vars
  BY <1>1 DEF vars, SystemsInv, OneHandler, OneCallOut, DoneAsAsked, HandlerKnows, Outstanding
<1> QED
  BY <1>1, InvReceive, InvGiveUp, InvContinue, InvReply, InvLoses, InvHandles DEF Next

(* Every request has one handler, and UFM and the wire are as far with it  *)
(* as its handler knows.                                                   *)
THEOREM SystemsInvCorrect == Spec => [](TypeOK /\ SystemsInv)
<1>1. Init => TypeOK /\ SystemsInv
  BY TypeInit, InvInit
<1>2. TypeOK /\ SystemsInv /\ [Next]_vars => (TypeOK /\ SystemsInv)'
  BY TypeStep, InvStep
<1> QED
  BY <1>1, <1>2, PTL DEF Spec

-----------------------------------------------------------------------------
(***************************************************************************)
(* AnswersAreFinal.  A request that is answered with anything but 502 has  *)
(* no call outstanding, and only a call of the wire is carried out.        *)
(***************************************************************************)
LEMMA DoneOnlyFromWire ==
  ASSUME TypeOK, [Next]_vars, NEW n \in 1..Len(asked), ~Outstanding(n)
  PROVE  done'[n] = done[n]
<1>0. asked \in Seq(Inputs) /\ done \in Seq(Seq(Changes)) /\ Len(done) = Len(asked)
  BY DEF TypeOK
<1>1. ASSUME NEW c \in Callers, NEW req \in Inputs, Receive(c, req) PROVE done'[n] = done[n]
  <2>1. <<>> \in Seq(Changes)
    BY EmptySeq
  <2>2. done' = Append(done, <<>>)
    BY <1>1 DEF Receive
  <2> QED
    BY <1>0, <2>1, <2>2, Longer
<1>2. ASSUME NEW c \in Callers, GiveUp(c) \/ Continue(c) \/ Reply(c) PROVE done'[n] = done[n]
  BY <1>2 DEF GiveUp, Continue, Reply, ufmVars
<1>3. ASSUME NEW r \in wire, UfmHandles(r) PROVE done'[n] = done[n]
  <2>1. r.number # n
    BY DEF Outstanding
  <2>2. CarriesOut(r) \/ Declines(r)
    BY <1>3, Handling
  <2> QED
    BY <1>0, <2>1, <2>2 DEF CarriesOut, Declines
<1>4. ASSUME NEW r \in wire, WireLoses(r) PROVE done'[n] = done[n]
  BY <1>4 DEF WireLoses
<1>5. CASE UNCHANGED vars
  BY <1>5 DEF vars
<1> QED
  BY <1>1, <1>2, <1>3, <1>4, <1>5 DEF Next

(* Once a request is answered with another status than 502 nothing is      *)
(* carried out for it any more, and if that status is an error its last    *)
(* call has not been carried out.                                          *)
THEOREM FinalCorrect == Spec => AnswersAreFinal
<1>1. TypeOK /\ SystemsInv /\ [Next]_vars =>
        \A c \in Callers :
          call[c].pc = "replied" /\ call[c].status # BadGateway =>
            LET n == call[c].number IN
              /\ done'[n] = done[n]
              /\ call[c].status >= 400 /\ Bindable(asked[n]) => Len(done[n]) < Len(UfmCalls(asked[n]))
  <2> SUFFICES ASSUME TypeOK, SystemsInv, [Next]_vars, NEW c \in Callers,
                      call[c].pc = "replied", call[c].status # BadGateway
               PROVE  LET n == call[c].number IN
                        /\ done'[n] = done[n]
                        /\ call[c].status >= 400 /\ Bindable(asked[n]) =>
                             Len(done[n]) < Len(UfmCalls(asked[n]))
    OBVIOUS
  <2>1. HandlerKnows(c)
    BY DEF SystemsInv
  <2>2. PICK n \in 1..Len(asked) : n = call[c].number
    <3>1. call[c].number \in 0..Len(asked) /\ call[c].number # 0 /\ Len(asked) \in Nat
      BY DEF TypeOK
    <3> QED
      BY <3>1
  <2>3. ~Outstanding(n)
    BY <2>1, <2>2 DEF HandlerKnows, Knows
  <2>4. done'[n] = done[n]
    BY <2>3, DoneOnlyFromWire
  <2> QED
    BY <2>1, <2>2, <2>4 DEF HandlerKnows, Knows
<1> QED
  BY <1>1, SystemsInvCorrect, PTL DEF Spec, AnswersAreFinal

-----------------------------------------------------------------------------
(***************************************************************************)
(* HalvesInOrder and SuccessIsComplete follow from the invariant by what   *)
(* UpdateCalls makes of an update: a call for the basics, a call for the   *)
(* properties, each if there is something to set.                          *)
(***************************************************************************)
(* The calls an update is made of: len of them, for basics and properties. *)
Halves(req, basics, properties, len) ==
  \/ len = 0 /\ Given(basics) = {} /\ Given(properties) = {}
  \/ len = 1 /\ Given(basics) # {} /\ Given(properties) = {} /\ UfmCalls(req)[1].set = basics
  \/ len = 1 /\ Given(basics) = {} /\ Given(properties) # {} /\ UfmCalls(req)[1].set = properties
  \/ /\ len = 2 /\ Given(basics) # {} /\ Given(properties) # {}
     /\ UfmCalls(req)[1].set = basics /\ UfmCalls(req)[2].set = properties

LEMMA UpdateShape ==
  ASSUME NEW req \in Inputs, req.op = "UpdateSystem",
         NEW basics, basics = Part(req.set, Basics),
         NEW properties, properties = Part(req.set, Properties),
         NEW len, len = Len(UfmCalls(req))
  PROVE  /\ Given(basics) = Given(req.set) \cap Basics
         /\ Given(properties) = Given(req.set) \cap Properties
         /\ \A f \in Given(basics) : basics[f] = req.set[f]
         /\ \A f \in Given(properties) : properties[f] = req.set[f]
         /\ Halves(req, basics, properties, len)
<1>1. req.set \in Settings
  BY InputsAssumption
<1>2. /\ Given(basics) = Given(req.set) \cap Basics
      /\ Given(properties) = Given(req.set) \cap Properties
      /\ \A f \in Given(basics) : basics[f] = req.set[f]
      /\ \A f \in Given(properties) : properties[f] = req.set[f]
  BY DEF Given, Part
<1>3. Given(req.set) \subseteq Basics \cup Properties
  BY DEF Given
<1>4. PICK B : B = [what |-> "PUT system", set |-> basics]
  OBVIOUS
<1>5. PICK P : P = [what |-> "PUT properties", set |-> properties]
  OBVIOUS
<1>6. B \in UfmCallSet /\ P \in UfmCallSet /\ B.set = basics /\ P.set = properties
  BY <1>1, <1>4, <1>5, SettingsTypes DEF UfmCallSet, Actions
<1>7. UfmCalls(req) = (IF Given(basics) = {} THEN <<>> ELSE << B >>)
                        \o (IF Given(properties) = {} THEN <<>> ELSE << P >>)
  BY <1>2, <1>4, <1>5 DEF UfmCalls, UpdateCalls, SettingCall
<1>8. << B >> \in Seq(UfmCallSet) /\ << P >> \in Seq(UfmCallSet) /\ <<>> \in Seq(UfmCallSet)
  BY <1>6, OneElement, EmptySeq
<1>9. CASE Given(basics) = {} /\ Given(properties) = {}
  <2>1. UfmCalls(req) = <<>>
    BY <1>7, <1>8, <1>9, ConcatEmptySeq
  <2> QED
    BY <1>2, <1>3, <1>9, <2>1 DEF Halves
<1>10. CASE Given(basics) # {} /\ Given(properties) = {}
  <2>1. UfmCalls(req) = << B >>
    BY <1>7, <1>8, <1>10, ConcatEmptySeq
  <2> QED
    BY <1>2, <1>6, <1>10, <2>1 DEF Halves
<1>11. CASE Given(basics) = {} /\ Given(properties) # {}
  <2>1. UfmCalls(req) = << P >>
    BY <1>7, <1>8, <1>11, ConcatEmptySeq
  <2> QED
    BY <1>2, <1>6, <1>11, <2>1 DEF Halves
<1>12. CASE Given(basics) # {} /\ Given(properties) # {}
  <2>1. UfmCalls(req) = << B >> \o << P >>
    BY <1>7, <1>12
  <2>2. Len(UfmCalls(req)) = 2 /\ UfmCalls(req)[1] = B /\ UfmCalls(req)[2] = P
    BY <1>8, <2>1, ConcatProperties
  <2> QED
    BY <1>2, <1>6, <1>12, <2>2 DEF Halves
<1> QED
  BY <1>9, <1>10, <1>11, <1>12

LEMMA HalvesFollow ==
  ASSUME NEW req \in Inputs, NEW did \in Seq(Changes), AsAsked(did, UfmCalls(req))
  PROVE  InHalves(req, did)
<1>1. UfmCalls(req) \in Seq(UfmCallSet) /\ (req.op # "UpdateSystem" => Len(UfmCalls(req)) = 1)
  BY UfmCallsType
<1>2. DOMAIN did = 1..Len(did) /\ Len(did) \in Nat /\ Len(did) <= Len(UfmCalls(req))
  BY LenProperties DEF AsAsked
<1>3. CASE req.op # "UpdateSystem"
  BY <1>1, <1>2, <1>3 DEF InHalves
<1>4. CASE req.op = "UpdateSystem"
  <2>1. PICK basics : basics = Part(req.set, Basics)
    OBVIOUS
  <2>2. PICK properties : properties = Part(req.set, Properties)
    OBVIOUS
  <2>3. PICK len : len = Len(UfmCalls(req))
    OBVIOUS
  <2>4. SetBefore(did, 1) = {}
    BY DEF SetBefore
  <2>5. SetBefore(did, 2) = Given(did[1].set)
    BY DEF SetBefore
  <2>6. /\ Given(basics) = Given(req.set) \cap Basics
        /\ Given(properties) = Given(req.set) \cap Properties
        /\ \A f \in Given(basics) : basics[f] = req.set[f]
        /\ \A f \in Given(properties) : properties[f] = req.set[f]
        /\ Halves(req, basics, properties, len)
    BY <1>4, <2>1, <2>2, <2>3, UpdateShape
  <2>7. Basics \cap Properties = {}
    BY DEF Basics, Properties
  <2> SUFFICES ASSUME NEW i \in 1..Len(did), NEW set, set = did[i].set
               PROVE  /\ Given(set) # {} /\ Given(set) \cap SetBefore(did, i) = {}
                      /\ \A f \in Given(set) : set[f] = req.set[f]
                      /\ Given(set) \cap Properties # {} =>
                           Given(req.set) \cap Basics \subseteq SetBefore(did, i)
    BY <1>2, <1>4 DEF InHalves
  <2>8. \A j \in 1..Len(did) : did[j].set = UfmCalls(req)[j].set
    BY DEF AsAsked
  <2>9. CASE len = 1
    <3>1. i = 1 /\ set = UfmCalls(req)[1].set
      BY <1>2, <2>3, <2>8, <2>9
    <3>2. \/ Given(properties) = {} /\ Given(basics) # {} /\ set = basics
          \/ Given(basics) = {} /\ Given(properties) # {} /\ set = properties
      BY <2>6, <2>9, <3>1 DEF Halves
    <3> QED
      BY <2>4, <2>6, <2>7, <3>1, <3>2
  <2>10. CASE len = 2
    <3>1. /\ UfmCalls(req)[1].set = basics /\ UfmCalls(req)[2].set = properties
          /\ Given(basics) # {} /\ Given(properties) # {}
      BY <2>6, <2>10 DEF Halves
    <3>2. CASE i = 1
      BY <2>4, <2>6, <2>7, <2>8, <3>1, <3>2
    <3>3. CASE i = 2
      <4>1. did[1].set = basics /\ set = properties
        BY <1>2, <2>8, <3>1, <3>3
      <4> QED
        BY <2>5, <2>6, <2>7, <3>1, <3>3, <4>1
    <3> QED
      BY <1>2, <2>3, <2>10, <3>2, <3>3
  <2>11. len # 0
    BY <1>2, <2>3
  <2> QED
    BY <2>6, <2>9, <2>10, <2>11 DEF Halves
<1> QED
  BY <1>3, <1>4

(* What is carried out for a request is a beginning of what it asks for,   *)
(* in order and each thing once, however late or lost its calls are.       *)
THEOREM HalvesCorrect == Spec => []HalvesInOrder
<1>1. TypeOK /\ SystemsInv => HalvesInOrder
  <2> SUFFICES ASSUME TypeOK, SystemsInv, NEW n \in DOMAIN done
               PROVE  InHalves(asked[n], done[n])
    BY DEF HalvesInOrder
  <2>1. n \in 1..Len(asked) /\ asked[n] \in Inputs /\ done[n] \in Seq(Changes)
    BY DEF TypeOK
  <2>2. AsAsked(done[n], UfmCalls(asked[n]))
    BY <2>1 DEF SystemsInv, DoneAsAsked
  <2> QED
    BY <2>1, <2>2, HalvesFollow
<1> QED
  BY <1>1, SystemsInvCorrect, PTL

(* The one call of every handler but that of UpdateSystem is for the       *)
(* action its operation is named for.                                      *)
LEMMA CallIsWanted ==
  ASSUME NEW req \in Inputs, req.op # "UpdateSystem"
  PROVE  UfmCalls(req)[1].what = Wanted(req)
<1>1. req.op \in Operations
  BY InputsAssumption
<1>2. CASE req.op \in {"RebootSystem", "SetSystemHealth"}
  BY <1>2 DEF UfmCalls, Wanted, UfmCallOf
<1>3. CASE req.op \in {"UpgradeSystemFirmware", "UpgradeSystemSoftware", "CollectSystemDump"}
  BY <1>3 DEF UfmCalls, Wanted, UfmCallOf
<1>4. CASE req.op \in PortOperations
  BY <1>4 DEF UfmCalls, Wanted, UfmCallOf, PortOperations
<1> QED
  BY <1>1, <1>2, <1>3, <1>4 DEF Operations, Bodiless

LEMMA CompleteFollows ==
  ASSUME NEW req \in Inputs, NEW did \in Seq(Changes), AsAsked(did, UfmCalls(req)),
         Len(did) = Len(UfmCalls(req))
  PROVE  Complete(req, did)
<1>1. DOMAIN did = 1..Len(did)
  BY LenProperties
<1>2. CASE req.op # "UpdateSystem"
  <2>1. Len(did) = 1
    BY <1>2, UfmCallsType
  <2>2. did[1].what = Wanted(req)
    BY <1>2, <2>1, CallIsWanted DEF AsAsked
  <2> QED
    BY <1>1, <1>2, <2>1, <2>2 DEF Complete
<1>3. CASE req.op = "UpdateSystem"
  <2>1. PICK basics : basics = Part(req.set, Basics)
    OBVIOUS
  <2>2. PICK properties : properties = Part(req.set, Properties)
    OBVIOUS
  <2>3. PICK len : len = Len(UfmCalls(req))
    OBVIOUS
  <2>4. Halves(req, basics, properties, len)
    BY <1>3, <2>1, <2>2, <2>3, UpdateShape
  <2>5. Given(req.set) = Given(basics) \cup Given(properties)
    <3>1. Given(req.set) \subseteq Basics \cup Properties
      BY DEF Given
    <3>2. Given(basics) = Given(req.set) \cap Basics /\ Given(properties) = Given(req.set) \cap Properties
      BY <1>3, <2>1, <2>2, UpdateShape
    <3> QED
      BY <3>1, <3>2
  <2>6. \A j \in 1..len : did[j].set = UfmCalls(req)[j].set
    BY <2>3 DEF AsAsked
  <2>7. Given(req.set) = UNION {Given(did[i].set) : i \in 1..len}
    <3>1. CASE len = 0
      BY <2>4, <2>5, <3>1 DEF Halves
    <3>2. CASE len = 1
      <4>1. Given(did[1].set) = Given(req.set)
        BY <2>4, <2>5, <2>6, <3>2 DEF Halves
      <4> QED
        BY <3>2, <4>1
    <3>3. CASE len = 2
      <4>1. did[1].set = basics /\ did[2].set = properties
        BY <2>4, <2>6, <3>3 DEF Halves
      <4> QED
        BY <2>5, <3>3, <4>1
    <3> QED
      BY <2>4, <3>1, <3>2, <3>3 DEF Halves
  <2> QED
    BY <1>1, <1>3, <2>3, <2>7 DEF Complete
<1> QED
  BY <1>2, <1>3

-----------------------------------------------------------------------------
(***************************************************************************)
(* SuccessIsComplete.  Every name a system has is its first one or was     *)
(* given to it by a call that UFM carried out; so what a request is        *)
(* carried out on is what it names, or another request has interfered.     *)
(***************************************************************************)
NameGiven(g) ==
  \/ systems[g].set["name"] = FirstName[g]
  \/ \E m \in DOMAIN done : \E i \in DOMAIN done[m] :
       done[m][i].on = g /\ done[m][i].set["name"] = systems[g].set["name"]

NamesInv ==
  /\ \A g \in Guids : NameGiven(g)
  /\ \A n \in DOMAIN done : \A i \in DOMAIN done[n] : MayBeAbout(n, done[n][i].on)

(* What is done stays done, and a request stays as it was asked.           *)
DoneGrows ==
  /\ DOMAIN done \subseteq DOMAIN done'
  /\ \A m \in DOMAIN done :
       /\ asked'[m] = asked[m] /\ DOMAIN done[m] \subseteq DOMAIN done'[m]
       /\ \A i \in DOMAIN done[m] : done'[m][i] = done[m][i]

LEMMA AboutStays ==
  ASSUME DoneGrows, NEW n \in DOMAIN done, NEW g, MayBeAbout(n, g)
  PROVE  MayBeAbout(n, g)'
BY DEF DoneGrows, MayBeAbout, NamedByAnother

LEMMA NameStays ==
  ASSUME DoneGrows, NEW g, NameGiven(g), systems'[g].set["name"] = systems[g].set["name"]
  PROVE  NameGiven(g)'
BY DEF DoneGrows, NameGiven

(* Nothing is carried out and no name changes.                             *)
LEMMA NamesRest ==
  ASSUME NamesInv, DoneGrows, systems' = systems,
         \A m \in DOMAIN done' : \A i \in DOMAIN done'[m] : m \in DOMAIN done /\ i \in DOMAIN done[m]
  PROVE  NamesInv'
<1>1. ASSUME NEW g \in Guids PROVE NameGiven(g)'
  BY <1>1, NameStays DEF NamesInv
<1>2. ASSUME NEW n \in DOMAIN done', NEW i \in DOMAIN done'[n] PROVE MayBeAbout(n, done[n][i].on)'
  <2>1. n \in DOMAIN done /\ i \in DOMAIN done[n]
    BY <1>2
  <2>2. PICK g : g = done[n][i].on
    OBVIOUS
  <2>3. MayBeAbout(n, g) /\ done'[n][i].on = g
    BY <2>1, <2>2 DEF NamesInv, DoneGrows
  <2>4. MayBeAbout(n, g)'
    BY <2>1, <2>3, AboutStays
  <2> QED
    BY <2>3, <2>4
<1> QED
  BY <1>1, <1>2 DEF NamesInv

(* UFM carries out a call on what MayBeAbout says, and the name of a       *)
(* system changes only to the one the call gives it.                       *)
LEMMA NamesRecorded ==
  ASSUME TypeOK, NamesInv, NEW n \in DOMAIN done, NEW e \in Changes,
         done' = [done EXCEPT ![n] = Append(@, e)], asked' = asked, MayBeAbout(n, e.on),
         \A g \in Guids : \/ systems'[g].set["name"] = systems[g].set["name"]
                          \/ g = e.on /\ systems'[g].set["name"] = e.set["name"]
  PROVE  NamesInv'
<1>0. done \in Seq(Seq(Changes)) /\ DOMAIN done = 1..Len(done) /\ done[n] \in Seq(Changes)
  BY DEF TypeOK
<1>1. PICK did \in Seq(Changes) : did = done[n]
  BY <1>0
<1>2. PICK more \in Seq(Changes) : more = Append(did, e)
  BY <1>1, Longer
<1>3. /\ DOMAIN did = 1..Len(did) /\ DOMAIN more = 1..(Len(did) + 1) /\ Len(did) \in Nat
      /\ \A i \in 1..Len(did) : more[i] = did[i]
      /\ more[Len(did) + 1] = e
  BY <1>2, Longer, LenProperties
<1>4. done' = [done EXCEPT ![n] = more]
  BY <1>0, <1>1, <1>2
<1>5. DOMAIN done' = DOMAIN done /\ done'[n] = more /\ \A m \in DOMAIN done \ {n} : done'[m] = done[m]
  BY <1>0, <1>4
<1>6. DoneGrows
  BY <1>1, <1>3, <1>5 DEF DoneGrows
<1>7. ASSUME NEW g \in Guids PROVE NameGiven(g)'
  <2>1. CASE systems'[g].set["name"] = systems[g].set["name"]
    BY <1>6, <2>1, NameStays DEF NamesInv
  <2>2. CASE g = e.on /\ systems'[g].set["name"] = e.set["name"]
    <3>1. PICK i \in 1..(Len(did) + 1) : i = Len(did) + 1
      BY <1>3
    <3>2. i \in DOMAIN done'[n] /\ done'[n][i] = e /\ n \in DOMAIN done'
      BY <1>3, <1>5, <3>1
    <3> QED
      BY <2>2, <3>2 DEF NameGiven
  <2> QED
    BY <2>1, <2>2
<1>8. ASSUME NEW m \in DOMAIN done', NEW i \in DOMAIN done'[m] PROVE MayBeAbout(m, done[m][i].on)'
  <2>0. m \in DOMAIN done
    BY <1>5
  <2>1. PICK g : g = done'[m][i].on
    OBVIOUS
  <2>2. MayBeAbout(m, g)
    <3>1. CASE m = n /\ i = Len(did) + 1
      BY <1>3, <1>5, <2>1, <3>1
    <3>2. CASE ~(m = n /\ i = Len(did) + 1)
      <4>1. i \in DOMAIN done[m] /\ done'[m][i] = done[m][i]
        BY <1>1, <1>3, <1>5, <2>0, <3>2
      <4> QED
        BY <2>0, <2>1, <4>1 DEF NamesInv
    <3> QED
      BY <3>1, <3>2
  <2>3. MayBeAbout(m, g)'
    BY <1>6, <2>0, <2>2, AboutStays
  <2> QED
    BY <2>1, <2>3
<1> QED
  BY <1>7, <1>8 DEF NamesInv

(* The system a call finds under the id of its request may be the one the  *)
(* request is about.                                                       *)
LEMMA AddressedIsNamed ==
  ASSUME TypeOK, NamesInv, NEW n \in DOMAIN done, NEW g \in Addressed(asked[n].id)
  PROVE  MayBeAbout(n, g)
<1>1. g \in Guids /\ (g = asked[n].id \/ systems[g].set["name"] = asked[n].id)
  BY DEF Addressed
<1>2. CASE g = asked[n].id
  BY <1>2 DEF MayBeAbout
<1>3. CASE FirstName[g] = asked[n].id
  BY <1>1, <1>3 DEF MayBeAbout
<1>4. CASE g # asked[n].id /\ FirstName[g] # asked[n].id
  <2>1. PICK m \in DOMAIN done : \E i \in DOMAIN done[m] :
          done[m][i].on = g /\ done[m][i].set["name"] = asked[n].id
    BY <1>1, <1>4 DEF NamesInv, NameGiven
  <2>2. PICK i \in DOMAIN done[m] : done[m][i].on = g /\ done[m][i].set["name"] = asked[n].id
    BY <2>1
  <2>3. CASE m = n
    BY <2>2, <2>3 DEF NamesInv
  <2>4. CASE m # n
    BY <2>2, <2>4 DEF MayBeAbout, NamedByAnother
  <2> QED
    BY <2>3, <2>4
<1> QED
  BY <1>2, <1>3, <1>4

LEMMA NamesHandled ==
  ASSUME TypeOK, NamesInv, NEW r \in wire, UfmHandles(r)
  PROVE  NamesInv'
<1>0. /\ r.number \in DOMAIN done /\ asked' = asked /\ CallOf(r) \in UfmCallSet
      /\ systems \in [Guids -> [set : Settings, healthy : BOOLEAN]]
  BY CallOfType DEF TypeOK, UfmHandles
<1>1. ASSUME NEW on \in Guids \cup Ports, Records(r, on), MayBeAbout(r.number, on),
             \A g \in Guids : \/ systems'[g].set["name"] = systems[g].set["name"]
                              \/ g = on /\ systems'[g].set["name"] = CallOf(r).set["name"]
      PROVE  NamesInv'
  <2>1. PICK e : e = [what |-> CallOf(r).what, set |-> CallOf(r).set, on |-> on]
    OBVIOUS
  <2>2. e \in Changes /\ e.on = on /\ e.set = CallOf(r).set
    BY <1>0, <2>1 DEF Changes, UfmCallSet
  <2>3. done' = [done EXCEPT ![r.number] = Append(@, e)]
    BY <1>1, <2>1 DEF Records
  <2>4. MayBeAbout(r.number, e.on)
    BY <1>1, <2>2
  <2>5. \A g \in Guids : \/ systems'[g].set["name"] = systems[g].set["name"]
                         \/ g = e.on /\ systems'[g].set["name"] = e.set["name"]
    BY <1>1, <2>2
  <2> QED
    BY <1>0, <2>2, <2>3, <2>4, <2>5, NamesRecorded
<1>2. CASE UfmChangesSystem(r)
  <2>1. PICK g \in Addressed(IdOf(r)) :
          /\ LET u == CallOf(r) IN
               systems' = [systems EXCEPT
                 ![g].set = [f \in DOMAIN @ |-> IF u.set[f] = Unset THEN @[f] ELSE u.set[f]],
                 ![g].healthy = CASE u.what = "mark_unhealthy"  -> FALSE
                                  [] u.what = "restore_healthy" -> TRUE
                                  [] OTHER -> @]
          /\ Records(r, g)
    BY <1>2 DEF UfmChangesSystem
  <2>2. g \in Guids /\ MayBeAbout(r.number, g)
    BY <1>0, <2>1, AddressedIsNamed DEF Addressed, IdOf
  <2>3. ASSUME NEW h \in Guids
        PROVE  \/ systems'[h].set["name"] = systems[h].set["name"]
               \/ h = g /\ systems'[h].set["name"] = CallOf(r).set["name"]
    <3>1. CASE h # g
      BY <1>0, <2>1, <3>1
    <3>2. CASE h = g
      <4>1. PICK old : old = systems[g].set
        OBVIOUS
      <4>2. "name" \in DOMAIN old
        BY <1>0, <2>2, <4>1 DEF Settings, Basics
      <4>3. systems'[g].set = [f \in DOMAIN old |-> IF CallOf(r).set[f] = Unset THEN old[f] ELSE CallOf(r).set[f]]
        BY <1>0, <2>1, <2>2, <4>1
      <4> QED
        BY <3>2, <4>1, <4>2, <4>3
    <3> QED
      BY <3>1, <3>2
  <2> QED
    BY <1>1, <2>1, <2>2, <2>3
<1>3. CASE UfmChangesPort(r)
  <2>1. IdOf(r) \in Ports /\ Records(r, IdOf(r)) /\ systems' = systems
    BY <1>3 DEF UfmChangesPort
  <2>2. MayBeAbout(r.number, IdOf(r))
    BY DEF MayBeAbout, IdOf
  <2> QED
    BY <1>1, <2>1, <2>2
<1>4. CASE UfmFindsNothing(r) \/ UfmRefuses(r)
  <2>1. done' = done /\ systems' = systems
    BY <1>4 DEF UfmFindsNothing, UfmRefuses, ufmVars
  <2>2. DoneGrows
    BY <1>0, <2>1 DEF DoneGrows
  <2> QED
    BY <2>1, <2>2, NamesRest
<1> QED
  BY <1>2, <1>3, <1>4 DEF UfmHandles

LEMMA NamesReceive ==
  ASSUME TypeOK, NamesInv, NEW c \in Callers, NEW req \in Inputs, Receive(c, req)
  PROVE  NamesInv'
<1>0. /\ asked \in Seq(Inputs) /\ done \in Seq(Seq(Changes)) /\ Len(done) = Len(asked)
      /\ asked' = Append(asked, req) /\ done' = Append(done, <<>>) /\ systems' = systems
  BY DEF TypeOK, Receive
<1>1. <<>> \in Seq(Changes) /\ DOMAIN <<>> = {}
  BY EmptySeq
<1>2. /\ DOMAIN done = 1..Len(done) /\ DOMAIN done' = 1..(Len(done) + 1)
      /\ \A m \in 1..Len(done) : done'[m] = done[m] /\ asked'[m] = asked[m]
      /\ done'[Len(done) + 1] = <<>>
  <2>1. /\ done' \in Seq(Seq(Changes)) /\ Len(done') = Len(done) + 1
        /\ \A m \in 1..Len(done) : done'[m] = done[m]
        /\ done'[Len(done) + 1] = <<>>
    BY <1>0, <1>1, Longer
  <2>2. \A m \in 1..Len(asked) : asked'[m] = asked[m]
    BY <1>0, Longer
  <2> QED
    BY <1>0, <2>1, <2>2, LenProperties
<1>3. Len(done) \in Nat
  BY <1>0, LenProperties
<1>4. DoneGrows
  BY <1>2, <1>3 DEF DoneGrows
<1>5. \A m \in DOMAIN done' : \A i \in DOMAIN done'[m] : m \in DOMAIN done /\ i \in DOMAIN done[m]
  <2> SUFFICES ASSUME NEW m \in DOMAIN done', NEW i \in DOMAIN done'[m]
               PROVE  m \in DOMAIN done /\ i \in DOMAIN done[m]
    OBVIOUS
  <2>1. m # Len(done) + 1
    BY <1>1, <1>2
  <2>2. m \in 1..Len(done)
    BY <1>2, <1>3, <2>1
  <2> QED
    BY <1>2, <2>2
<1> QED
  BY <1>0, <1>4, <1>5, NamesRest

LEMMA NamesInit == Init => NamesInv
<1> SUFFICES ASSUME Init PROVE NamesInv
  OBVIOUS
<1>1. DOMAIN done = {}
  BY EmptySeq DEF Init
<1>2. ASSUME NEW g \in Guids PROVE systems[g].set["name"] = FirstName[g]
  BY <1>2 DEF Init, NoSettings, Basics
<1> QED
  BY <1>1, <1>2 DEF NamesInv, NameGiven

LEMMA NamesStep == TypeOK /\ NamesInv /\ [Next]_vars => NamesInv'
<1> SUFFICES ASSUME TypeOK, NamesInv, [Next]_vars PROVE NamesInv'
  OBVIOUS
<1>1. CASE UNCHANGED <<systems, done, asked>>
  <2>1. DoneGrows
    BY <1>1 DEF DoneGrows
  <2> QED
    BY <1>1, <2>1, NamesRest
<1>2. ASSUME NEW c \in Callers, GiveUp(c) \/ Continue(c) \/ Reply(c)
      PROVE  UNCHANGED <<systems, done, asked>>
  BY <1>2 DEF GiveUp, Continue, Reply, ufmVars
<1>3. ASSUME NEW r \in wire, WireLoses(r) PROVE UNCHANGED <<systems, done, asked>>
  BY <1>3 DEF WireLoses
<1> QED
  BY <1>1, <1>2, <1>3, NamesHandled, NamesReceive DEF Next, vars

(* Two systems that may be what a request is about are one, unless another *)
(* request has given one of them the name.                                 *)
LEMMA OneSystemNamed ==
  ASSUME NEW n, NEW g \in Guids \cup Ports, NEW h \in Guids \cup Ports,
         MayBeAbout(n, g), MayBeAbout(n, h)
  PROVE  g = h \/ NamedByAnother(n, g) \/ NamedByAnother(n, h)
BY FirstNamesAssumption DEF MayBeAbout

(* A request answered with success is carried out as a whole, and on the   *)
(* one system or port it names, unless another request has given its name  *)
(* to a system.                                                            *)
THEOREM SuccessCorrect == Spec => []SuccessIsComplete
<1>1. TypeOK /\ SystemsInv /\ NamesInv => SuccessIsComplete
  <2> SUFFICES ASSUME TypeOK, SystemsInv, NamesInv, NEW c \in Callers,
                      call[c].pc = "replied", call[c].status < 400,
                      NEW n, n = call[c].number
               PROVE  Complete(asked[n], done[n]) /\ OnWhatItNames(n)
    BY DEF SuccessIsComplete
  <2>1. n \in 1..Len(asked) /\ n \in DOMAIN done
    <3>1. /\ call[c].number \in 0..Len(asked) /\ call[c].number # 0 /\ Len(asked) \in Nat
          /\ DOMAIN done = 1..Len(asked)
      BY DEF TypeOK
    <3> QED
      BY <3>1
  <2>2. asked[n] \in Inputs /\ done[n] \in Seq(Changes)
    BY <2>1 DEF TypeOK
  <2>3. AsAsked(done[n], UfmCalls(asked[n]))
    BY <2>1 DEF SystemsInv, DoneAsAsked
  <2>4. Len(done[n]) = Len(UfmCalls(asked[n]))
    <3>1. HandlerKnows(c) /\ call[c].status # BadGateway
      BY DEF SystemsInv, BadGateway
    <3> QED
      BY <2>1, <3>1 DEF HandlerKnows, Knows
  <2>5. Complete(asked[n], done[n])
    BY <2>2, <2>3, <2>4, CompleteFollows
  <2>6. \A i \in DOMAIN done[n] : MayBeAbout(n, done[n][i].on) /\ done[n][i].on \in Guids \cup Ports
    <3> SUFFICES ASSUME NEW i \in DOMAIN done[n]
                 PROVE  MayBeAbout(n, done[n][i].on) /\ done[n][i].on \in Guids \cup Ports
      OBVIOUS
    <3>1. MayBeAbout(n, done[n][i].on)
      BY <2>1 DEF NamesInv
    <3>2. done[n][i] \in Changes
      BY <2>2
    <3> QED
      BY <3>1, <3>2 DEF Changes
  <2>7. OnWhatItNames(n)
    BY <2>6, OneSystemNamed DEF OnWhatItNames
  <2> QED
    BY <2>5, <2>7
<1>2. Init => TypeOK /\ NamesInv
  BY TypeInit, NamesInit
<1>3. TypeOK /\ NamesInv /\ [Next]_vars => (TypeOK /\ NamesInv)'
  BY TypeStep, NamesStep
<1> QED
  BY <1>1, <1>2, <1>3, SystemsInvCorrect, PTL DEF Spec
=============================================================================
