------------------------------- MODULE Systems -------------------------------
(***************************************************************************)
(* The handlers that change systems and ports (internal/handler/server.go: *)
(* UpdateSystem, RebootSystem, UpgradeSystemFirmware, UpgradeSystemSoft-   *)
(* ware, SetSystemHealth, CollectSystemDump, EnablePort, DisablePort,      *)
(* ResetPort) on top of pkg/ufmclient/systems.go and actions.go.           *)
(*                                                                         *)
(* UpdateSystem is the one handler of the facade that may call UFM twice,  *)
(* once for name and address and once for URL and script.  The calls are   *)
(* no transaction: one may fail, and others change the system in between.  *)
(* As in Jobs, a request may be carried out after its handler gave up.     *)
(*                                                                         *)
(* UFM is external: it is modelled by what the code asks of it.            *)
(***************************************************************************)
EXTENDS UfmCall, Sequences

CONSTANTS
  Guids,       \* the systems
  Names,       \* names a system may have
  Texts,       \* addresses, URLs, scripts
  Ports,       \* port names
  FirstName,   \* FirstName[g]: the name of system g in the beginning
  Callers,     \* API clients of the facade, one request at a time each
  Inputs,      \* the requests they may make
  Refusals,    \* statuses UFM may refuse any request with
  MaxRequests  \* bound: requests made altogether

ASSUME SystemsAssumption ==
  /\ FirstName \in [Guids -> Names]
  /\ Refusals \subseteq 400..599
  /\ MaxRequests \in Nat

(* In the beginning a name, like a GUID or a port, stands for one thing.   *)
ASSUME FirstNamesAssumption ==
  \A g, h \in Guids : FirstName[g] \notin Guids \cup Ports /\ (FirstName[g] = FirstName[h] => g = h)

VARIABLES
  systems,  \* UFM: the settings and the health of system g
  enabled,  \* UFM: the ports that are enabled
  wire,     \* requests of the facade on their way to UFM
  call,     \* call[c]: the latest request of caller c and its handling
  asked,    \* history: all requests of API clients; a request's number is
            \*   its place here
  done      \* history: done[n]: what UFM has carried out for request n

vars == <<systems, enabled, wire, call, asked, done>>
ufmVars == <<systems, enabled, done>>

-----------------------------------------------------------------------------
(* Requests of API clients, with the fields the operations do not have at  *)
(* their default.  id is a path parameter: a GUID or a name, or a port.    *)
Basics     == {"name", "ip"}
Properties == {"url", "script"}
Unset      == "unset"
NoSettings == [f \in Basics \cup Properties |-> Unset]
Settings   == [Basics \cup Properties -> Names \cup Texts \cup {Unset}]

Given(set) == {f \in Basics \cup Properties : set[f] # Unset}

Bodies == {"present", "missing", "malformed"}

Request(op, id) == [op |-> op, id |-> id, body |-> "present", set |-> NoSettings,
                    inBand |-> FALSE, healthy |-> FALSE]

PortOperations == {"EnablePort", "DisablePort", "ResetPort"}
Bodiless       == PortOperations \cup {"CollectSystemDump"}
Operations     == Bodiless \cup {"UpdateSystem", "RebootSystem", "SetSystemHealth",
                                 "UpgradeSystemFirmware", "UpgradeSystemSoftware"}

ASSUME InputsAssumption ==
  \A req \in Inputs : req.op \in Operations /\ req.set \in Settings

(* ctx.Bind: a body nobody can read is an error, which RebootSystem does   *)
(* not look at; for one that is missing the struct keeps its zero values.  *)
Bindable(req) == req.op \in Bodiless \cup {"RebootSystem"} \/ req.body # "malformed"

-----------------------------------------------------------------------------
(* The calls each handler makes of UFM when all goes well, in order.       *)

UfmCallOf(what) == [what |-> what, set |-> NoSettings]

Part(set, fields) == [f \in Basics \cup Properties |-> IF f \in fields THEN set[f] ELSE Unset]

SettingCall(what, set, fields) ==
  IF Given(set) \cap fields = {} THEN <<>>
  ELSE << [what |-> what, set |-> Part(set, fields)] >>

(* Mutated form of UpdateCalls: properties are sent only without basics.   *)
UpdateCallsEitherOr(req) ==
  SettingCall(IF Given(req.set) \cap Basics # {} THEN "PUT system" ELSE "PUT properties", req.set,
              IF Given(req.set) \cap Basics # {} THEN Basics ELSE Properties)

UpdateCalls(req) ==
  SettingCall("PUT system", req.set, Basics) \o SettingCall("PUT properties", req.set, Properties)

UfmCalls(req) ==
  CASE req.op = "UpdateSystem" -> UpdateCalls(req)
    [] req.op = "RebootSystem" -> << UfmCallOf(IF req.inBand THEN "inband_reboot" ELSE "reboot") >>
    [] req.op = "SetSystemHealth" ->
         << UfmCallOf(IF req.healthy THEN "restore_healthy" ELSE "mark_unhealthy") >>
    [] req.op = "UpgradeSystemFirmware" -> << UfmCallOf("firmware_upgrade") >>
    [] req.op = "UpgradeSystemSoftware" -> << UfmCallOf("software_upgrade") >>
    [] req.op = "CollectSystemDump"     -> << UfmCallOf("system_dump") >>
    [] req.op = "EnablePort"            -> << UfmCallOf("port_enable") >>
    [] req.op = "DisablePort"           -> << UfmCallOf("port_disable") >>
    [] req.op = "ResetPort"             -> << UfmCallOf("port_reset") >>

Success(op) == IF op \in {"UpdateSystem", "SetSystemHealth"} THEN 204 ELSE 202

BadRequest == 400

-----------------------------------------------------------------------------
NoCall == [pc |-> "idle", number |-> 0, step |-> 0, resp |-> Silence, status |-> 0]

Init ==
  /\ systems = [g \in Guids |-> [set |-> [NoSettings EXCEPT !["name"] = FirstName[g]],
                                 healthy |-> TRUE]]
  /\ enabled = Ports
  /\ wire = {}
  /\ call = [c \in Callers |-> NoCall]
  /\ asked = <<>>
  /\ done = <<>>

(* Call number step of request n, made by the handler of c.                *)
OnWire(c, n, step) == [caller |-> c, number |-> n, step |-> step]

(* A handler is entered.  It answers at once when it cannot read the body  *)
(* or has nothing to do, else it makes its first call.                     *)
Receive(c, req) ==
  /\ call[c].pc \in {"idle", "replied"}
  /\ Len(asked) < MaxRequests
  /\ asked' = Append(asked, req)
  /\ done' = Append(done, <<>>)
  /\ LET n == Len(asked) + 1
         Replied(status) == [NoCall EXCEPT !.pc = "replied", !.number = n, !.status = status]
     IN IF Bindable(req) /\ UfmCalls(req) # <<>>
        THEN /\ call' = [call EXCEPT ![c] = [NoCall EXCEPT !.pc = "sent", !.number = n, !.step = 1]]
             /\ wire' = wire \cup {OnWire(c, n, 1)}
        ELSE /\ call' = [call EXCEPT ![c] = Replied(IF Bindable(req) THEN Success(req.op) ELSE BadRequest)]
             /\ wire' = wire
  /\ UNCHANGED <<systems, enabled>>

(* UFM's answer reaches its handler, if that still waits for it.           *)
Deliver(r, status) ==
  call' = IF call[r.caller].pc = "sent" /\ call[r.caller].number = r.number
                                        /\ call[r.caller].step = r.step
          THEN [call EXCEPT ![r.caller].pc = "answered", ![r.caller].resp = Response(status)]
          ELSE call

CallOf(r) == UfmCalls(asked[r.number])[r.step]
IdOf(r)   == asked[r.number].id

(* A system is addressed by its GUID or by its name of the moment.         *)
Addressed(id) == {g \in Guids : g = id \/ systems[g].set["name"] = id}

Records(r, on) ==
  done' = [done EXCEPT ![r.number] = Append(@, [what |-> CallOf(r).what, set |-> CallOf(r).set, on |-> on])]

(* UFM carries out a call about a system.                                  *)
UfmChangesSystem(r) ==
  /\ asked[r.number].op \notin PortOperations
  /\ \E g \in Addressed(IdOf(r)) :
       /\ LET u == CallOf(r) IN
            systems' = [systems EXCEPT
              ![g].set = [f \in DOMAIN @ |-> IF u.set[f] = Unset THEN @[f] ELSE u.set[f]],
              ![g].healthy = CASE u.what = "mark_unhealthy"  -> FALSE
                               [] u.what = "restore_healthy" -> TRUE
                               [] OTHER -> @]
       /\ Records(r, g)
  /\ Deliver(r, 200)
  /\ UNCHANGED enabled

(* UFM carries out a call about a port.                                    *)
UfmChangesPort(r) ==
  /\ asked[r.number].op \in PortOperations /\ IdOf(r) \in Ports
  /\ enabled' = CASE CallOf(r).what = "port_enable"  -> enabled \cup {IdOf(r)}
                  [] CallOf(r).what = "port_disable" -> enabled \ {IdOf(r)}
                  [] CallOf(r).what = "port_reset"   -> enabled
  /\ Records(r, IdOf(r))
  /\ Deliver(r, 200)
  /\ UNCHANGED systems

UfmFindsNothing(r) ==
  /\ Addressed(IdOf(r)) = {} /\ IdOf(r) \notin Ports
  /\ Deliver(r, 404)
  /\ UNCHANGED ufmVars

UfmRefuses(r) ==
  /\ \E s \in Refusals : Deliver(r, s)
  /\ UNCHANGED ufmVars

UfmHandles(r) ==
  /\ UfmChangesSystem(r) \/ UfmChangesPort(r) \/ UfmFindsNothing(r) \/ UfmRefuses(r)
  /\ wire' = wire \ {r}
  /\ UNCHANGED asked

(* A call never arrives.                                                   *)
WireLoses(r) ==
  /\ wire' = wire \ {r}
  /\ UNCHANGED <<systems, enabled, call, asked, done>>

(* Mutated form of GiveUp: the HTTP client has no timeout.                 *)
GiveUpWithoutTimeout(c) ==
  /\ call[c].pc = "answered"
  /\ call' = [call EXCEPT ![c].resp = Silence]
  /\ UNCHANGED <<ufmVars, wire, asked>>

(* Mutated form of GiveUp: a call without an answer is made once more.     *)
GiveUpAndResend(c) ==
  /\ call[c].pc \in {"sent", "answered"}
  /\ wire' = wire \cup {OnWire(c, call[c].number, call[c].step)}
  /\ call' = [call EXCEPT ![c].pc = "sent", ![c].resp = Silence]
  /\ UNCHANGED <<ufmVars, asked>>

(* The handler gets no answer, before or after UFM acted.                  *)
GiveUp(c) ==
  /\ call[c].pc \in {"sent", "answered"}
  /\ call' = [call EXCEPT ![c].pc = "answered", ![c].resp = Silence]
  /\ UNCHANGED <<ufmVars, wire, asked>>

Last(c) == call[c].step = Len(UfmCalls(asked[call[c].number]))

(* Mutated form of Continue: the second call is made whatever the first    *)
(* one came to.                                                            *)
ContinueRegardless(c) ==
  /\ call[c].pc = "answered" /\ ~Last(c)
  /\ call' = [call EXCEPT ![c].pc = "sent", ![c].step = @ + 1, ![c].resp = Silence]
  /\ wire' = wire \cup {OnWire(c, call[c].number, call[c].step + 1)}
  /\ UNCHANGED <<ufmVars, asked>>

(* The first call of UpdateSystem succeeded and there is another to make.  *)
Continue(c) ==
  /\ call[c].pc = "answered" /\ ~Last(c) /\ do(call[c].resp, FALSE) = NoError
  /\ call' = [call EXCEPT ![c].pc = "sent", ![c].step = @ + 1, ![c].resp = Silence]
  /\ wire' = wire \cup {OnWire(c, call[c].number, call[c].step + 1)}
  /\ UNCHANGED <<ufmVars, asked>>

(* The handler answers its client, at the first error or at the end.       *)
Reply(c) ==
  /\ call[c].pc = "answered"
  /\ Last(c) \/ do(call[c].resp, FALSE) # NoError
  /\ call' = [call EXCEPT ![c].pc = "replied", ![c].resp = Silence,
       ![c].status = Answered(call[c].resp, FALSE, Success(asked[call[c].number].op))]
  /\ UNCHANGED <<ufmVars, wire, asked>>

Next ==
  \/ \E c \in Callers : GiveUp(c) \/ Continue(c) \/ Reply(c) \/ \E req \in Inputs : Receive(c, req)
  \/ \E r \in wire : UfmHandles(r) \/ WireLoses(r)

Spec == Init /\ [][Next]_vars

(* A handler whose answer is there goes on, and the HTTP client ends every *)
(* call after its timeout.  Nothing is assumed of UFM or of the wire.      *)
FairSpec ==
  Spec /\ \A c \in Callers : WF_vars(GiveUp(c) /\ call[c].pc = "sent") /\ WF_vars(Continue(c) \/ Reply(c))

-----------------------------------------------------------------------------
Calls == [pc : {"idle", "sent", "answered", "replied"}, number : Nat, step : Nat,
          resp : Responses, status : {0, 202, 204, BadGateway} \cup PassedOn]

Wired == [caller : Callers, number : Nat, step : Nat]

Actions == {"PUT system", "PUT properties", "reboot", "inband_reboot", "mark_unhealthy",
            "restore_healthy", "firmware_upgrade", "software_upgrade", "system_dump",
            "port_enable", "port_disable", "port_reset"}

Changes == [what : Actions, set : Settings, on : Guids \cup Ports]

(* Every variable holds a value of its kind; a handler, and every call on  *)
(* the wire, works on a request that was made and on one of its calls; and *)
(* the statuses are the six passed on, 502 and those of success.           *)
TypeOK ==
  /\ systems \in [Guids -> [set : Settings, healthy : BOOLEAN]]
  /\ enabled \subseteq Ports
  /\ asked \in Seq(Inputs) /\ Len(asked) <= MaxRequests
  /\ done \in Seq(Seq(Changes)) /\ Len(done) = Len(asked)
  /\ wire \subseteq Wired
  /\ \A r \in wire : /\ r.number \in 1..Len(asked)
                     /\ r.step \in 1..Len(UfmCalls(asked[r.number]))
  /\ call \in [Callers -> Calls]
  /\ \A c \in Callers :
       /\ call[c].number \in 0..Len(asked)
       /\ call[c].pc # "idle" => call[c].number # 0
       /\ call[c].pc \in {"sent", "answered"} =>
            call[c].step \in 1..Len(UfmCalls(asked[call[c].number]))

(* What the calls before the i-th of did have set.                         *)
SetBefore(did, i) == UNION {Given(did[j].set) : j \in 1..(i - 1)}

InHalves(req, did) ==
  IF req.op # "UpdateSystem" THEN Len(did) <= 1
  ELSE \A i \in DOMAIN did :
         LET set == did[i].set IN
           /\ Given(set) # {} /\ Given(set) \cap SetBefore(did, i) = {}
           /\ \A f \in Given(set) : set[f] = req.set[f]
           /\ Given(set) \cap Properties # {} => Given(req.set) \cap Basics \subseteq SetBefore(did, i)

(* What is carried out for a request is a beginning of what it asks for,   *)
(* in order and each thing once: an action is carried out at most once, a  *)
(* setting is set at most once and to the value asked for, and URL and     *)
(* script are not touched before the name and the address asked for are    *)
(* set; even when calls are late, lost or refused.                         *)
HalvesInOrder == \A n \in DOMAIN done : InHalves(asked[n], done[n])

(* The action that api/openapi.yaml names for a request.                   *)
Wanted(req) ==
  CASE req.op = "RebootSystem"    -> IF req.inBand THEN "inband_reboot" ELSE "reboot"
    [] req.op = "SetSystemHealth" -> IF req.healthy THEN "restore_healthy" ELSE "mark_unhealthy"
    [] req.op = "UpgradeSystemFirmware" -> "firmware_upgrade"
    [] req.op = "UpgradeSystemSoftware" -> "software_upgrade"
    [] req.op = "CollectSystemDump" -> "system_dump"
    [] req.op = "EnablePort"  -> "port_enable"
    [] req.op = "DisablePort" -> "port_disable"
    [] req.op = "ResetPort"   -> "port_reset"

Complete(req, did) ==
  IF req.op = "UpdateSystem" THEN Given(req.set) = UNION {Given(did[i].set) : i \in DOMAIN did}
  ELSE \E i \in DOMAIN did : did[i].what = Wanted(req)

(* Another request has given system g the name that request n goes by.     *)
NamedByAnother(n, g) ==
  \E m \in DOMAIN done \ {n} : \E i \in DOMAIN done[m] :
    done[m][i].on = g /\ done[m][i].set["name"] = asked[n].id

(* Request n may be about g: the port, or the system of that GUID or name. *)
MayBeAbout(n, g) ==
  g = asked[n].id \/ (g \in Guids /\ FirstName[g] = asked[n].id) \/ NamedByAnother(n, g)

OnWhatItNames(n) ==
  \A i, k \in DOMAIN done[n] :
    LET g == done[n][i].on
        h == done[n][k].on
    IN MayBeAbout(n, g) /\ (g = h \/ NamedByAnother(n, g) \/ NamedByAnother(n, h))

(* An answer of success is true of the whole request: UFM has set every    *)
(* setting of an update, by one call or by two, and carried out the action *)
(* of any other operation; and it has done so on the port or the system    *)
(* the request names, both halves of an update on the same one.  The       *)
(* exception is a name that another request has given to a system: then    *)
(* the second call (server.go:544) may find another system under it.       *)
SuccessIsComplete ==
  \A c \in Callers :
    call[c].pc = "replied" /\ call[c].status < 400 =>
      LET n == call[c].number IN Complete(asked[n], done[n]) /\ OnWhatItNames(n)

(* Only 502 leaves open what will happen: once a request is answered with  *)
(* another status nothing is carried out for it any more, and if that      *)
(* status is an error its last call has not been carried out.              *)
AnswersAreFinal ==
  [][\A c \in Callers :
       call[c].pc = "replied" /\ call[c].status # BadGateway =>
         LET n == call[c].number IN
           /\ done'[n] = done[n]
           /\ call[c].status >= 400 /\ Bindable(asked[n]) => Len(done[n]) < Len(UfmCalls(asked[n]))]_vars

(* Every request is answered, also one that takes two calls.               *)
CallsAreAnswered ==
  \A c \in Callers : call[c].pc = "sent" ~> call[c].pc = "replied"

(* NotFound is documented as "Resource not found.": when nothing else is   *)
(* going on, an update answered 404 has changed nothing.                   *)
NotFoundChangesNothing ==
  \A c \in Callers :
    call[c].pc = "replied" /\ call[c].status = 404 => done[call[c].number] = <<>>
=============================================================================
