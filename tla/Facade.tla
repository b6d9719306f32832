------------------------------- MODULE Facade --------------------------------
(***************************************************************************)
(* One call of the API from end to end: the generated client makes the     *)
(* request, the generated server routes it to a handler, the handler calls *)
(* methods of the raw client, UFM carries them out, and the answer goes    *)
(* back the same way.  The five tables this module puts together are       *)
(* written by hand or generated apart from each other in the code; that    *)
(* they fit is what is checked here, for all operations, while other calls *)
(* come in between, answers are lost, callers give up and the facade is    *)
(* stopped.                                                                *)
(*                                                                         *)
(* UFM is external: it has resources, by path, and of those a request      *)
(* names it requires what the effect of the request needs.                 *)
(***************************************************************************)
EXTENDS ApiRequests, ApiRoutes, ApiResponses, ApiHandlers, UfmMethods, UfmCall

CONSTANTS
  Names,      \* the names of resources
  Initial,    \* what UFM may have at first: sets of paths
  Scripts,    \* the calls that are made, in any order: sequences of requests
  Refusals    \* the statuses UFM may refuse any request with

(* The paths of resources: segments the document fixes, and names.         *)
Paths == Seq(STRING \cup Names)

ASSUME InitialAssumption == \A set \in Initial : set \subseteq Paths

ASSUME RefusalsAssumption == Refusals \subseteq 400..599 \ {404, 409}

(* The tables cover the same operations, and the handlers know their       *)
(* methods.                                                                *)
ASSUME TablesAssumption ==
  /\ Operations = DOMAIN Wrappers
  /\ Operations = DOMAIN Handlers
  /\ Operations = DOMAIN Readers
  /\ Operations = UNION {Range(Routes[p]) : p \in DOMAIN Routes}
  /\ \A op \in Operations : \A plan \in Range(Handlers[op].plans) :
       \A step \in Range(plan) : step.method \in DOMAIN Methods

(* A call a program makes of the client.  names are the arguments for the  *)
(* path, named is what the body names, plan which of its handler's plans   *)
(* the content of the request chooses.  Only a body that is sent can be    *)
(* unreadable.                                                             *)
Request == [op : Operations, names : [Parameters -> Names], query : SUBSET STRING,
            body : {"readable", "unreadable"}, named : Names, plan : Nat]

ASSUME ScriptsAssumption ==
  \A script \in Scripts :
    /\ script \in Seq(Request)
    /\ \A c \in DOMAIN script : /\ script[c].query \subseteq Requests[script[c].op].query
                                /\ script[c].plan \in DOMAIN Handlers[script[c].op].plans
                                /\ script[c].body = "unreadable" => Requests[script[c].op].body

(* Some path fits both patterns.                                           *)
Overlap(p, q) ==
  /\ Len(p) = Len(q)
  /\ \A i \in DOMAIN p : p[i] = q[i] \/ p[i] \in Parameters \/ q[i] \in Parameters

(* What is said of the tables only, for each operation: its request has a  *)
(* route, and no other route with its method fits a path of the request    *)
(* but those of GetSystem and ListSystemsPower each other's; its wrapper   *)
(* takes what its request has, and its handler uses it.                    *)
ASSUME RoutesAssumption ==
  /\ Requests["GetSystem"].method = "GET" /\ Requests["GetSystem"].path = <<"systems", P1>>
  /\ Requests["ListSystemsPower"].method = "GET" /\ Requests["ListSystemsPower"].path = <<"systems", "power">>
  /\ DOMAIN Routes \subseteq Seq(STRING) /\ {"GetSystem", "ListSystemsPower"} \subseteq Operations
  /\ \A op \in Operations :
       LET asks  == Requests[op]
           takes == Wrappers[op]
       IN /\ asks.path \in Seq(STRING) /\ LastParameter(asks.path) \in 0..Len(asks.path)
          /\ asks.path \in DOMAIN Routes /\ asks.method \in DOMAIN Routes[asks.path]
          /\ Routes[asks.path][asks.method] = op
          /\ \A q \in DOMAIN Routes \ {asks.path} :
               asks.method \in DOMAIN Routes[q] /\ Overlap(asks.path, q) =>
                 \/ op = "GetSystem" /\ q = Requests["ListSystemsPower"].path
                 \/ op = "ListSystemsPower" /\ q = Requests["GetSystem"].path
          /\ takes.names \in Seq(Parameters) /\ Len(takes.names) = Cardinality(Range(asks.path) \cap Parameters)
          /\ \A i \in DOMAIN takes.names : /\ i \in 1..2 /\ takes.names[i] = <<P1, P2>>[i]
                                           /\ takes.names[i] \in Range(asks.path)
          /\ takes.required \cup takes.optional = asks.query
          /\ op # "GetSystem" => asks.query \subseteq Handlers[op].uses

(* Likewise of the handlers: a success is a 2xx; the calls of a plan are   *)
(* methods with names the wrapper takes; every method reports an error of  *)
(* UFM but the last (and only) one of RunFabricValidationTest.             *)
ASSUME HandlersAssumption ==
  /\ DOMAIN Handlers["GetSystem"].plans = DOMAIN Handlers["ListSystemsPower"].plans
  /\ \A op \in Operations :
       /\ Handlers[op].status \in 200..299
       /\ Handlers[op].plans # <<>>
       /\ Handlers[op].plans \in Seq(Seq([method : DOMAIN Methods, args : Seq({P1, P2, Body})]))
       /\ \A n \in DOMAIN Handlers[op].plans :
            LET plan == Handlers[op].plans[n]
            IN  \A k \in DOMAIN plan :
                  /\ Methods[plan[k].method].on \in Seq(STRING)
                  /\ Methods[plan[k].method].checked \/ (op = "RunFabricValidationTest" /\ k = Len(plan))
                  /\ Len(plan[k].args) \in 0..2
                  /\ \A i \in DOMAIN plan[k].args :
                       \/ plan[k].args[i] = Body
                       \/ plan[k].args[i] = P1 /\ 1 \in DOMAIN Wrappers[op].names
                       \/ plan[k].args[i] = P2 /\ 2 \in DOMAIN Wrappers[op].names

VARIABLES
  exists,   \* the paths of what UFM has
  wire,     \* requests on their way to UFM: [call, step]
  calls     \* the calls of the script

vars == <<exists, wire, calls>>

-----------------------------------------------------------------------------
(* The path on the wire, and what the router and the wrapper make of it:   *)
(* the operation, the names and the query parameters the handler is given. *)
PathOf(asked) == Filled(Requests[asked.op].path, asked.names)

Routed(asked) ==
  LET method  == Requests[asked.op].method
      pattern == Matched(method, PathOf(asked))
      op      == Routes[pattern][method]
      takes   == Wrappers[op]
      names   == Captured(pattern, PathOf(asked))
  IN [op       |-> op,
      names    |-> [i \in DOMAIN takes.names |-> names[takes.names[i]]],
      query    |-> asked.query \cap (takes.required \cup takes.optional),
      complete |-> takes.required \subseteq asked.query]

(* Mutated form of Steps: two arguments of a method are swapped.           *)
StepsSwapped(asked, given) ==
  LET plans     == Handlers[given.op].plans
      plan      == IF asked.body = "unreadable" THEN plans[1] ELSE plans[asked.plan]
      Value(a)  == CASE a = P1 -> given.names[1] [] a = P2 -> given.names[2] [] a = Body -> asked.named
      On(step)  == Filled(Methods[step.method].on,
                          [p \in {<<A1, A2>>[i] : i \in DOMAIN step.args} |->
                             Value(step.args[IF p = A1 THEN Len(step.args) ELSE 1])])
  IN [k \in DOMAIN plan |-> [method |-> plan[k].method, on |-> On(plan[k])]]

(* The calls of the raw client a handler makes for what it is given.       *)
Steps(asked, given) ==
  LET plans     == Handlers[given.op].plans
      plan      == IF asked.body = "unreadable" THEN plans[1] ELSE plans[asked.plan]
      Value(a)  == CASE a = P1 -> given.names[1] [] a = P2 -> given.names[2] [] a = Body -> asked.named
      On(step)  == Filled(Methods[step.method].on,
                          [p \in {<<A1, A2>>[i] : i \in DOMAIN step.args} |->
                             Value(step.args[IF p = A1 THEN 1 ELSE 2])])
  IN [k \in DOMAIN plan |-> [method |-> plan[k].method, on |-> On(plan[k])]]

-----------------------------------------------------------------------------
(* A call: what is asked; what its handler is given and its plan; where    *)
(* it stands ("unmade", "sent" a step to UFM, "answered" by UFM, "replied" *)
(* by the handler, "lost" with the facade); the answer to the last step;   *)
(* the steps UFM has carried out; the status of the reply; what the caller *)
(* sees; and of what it names, what was there and what was missing at some *)
(* time since the call was made.                                           *)
Unmade(asked) ==
  LET given == Routed(asked)
  IN [asked |-> asked, given |-> given, plan |-> Steps(asked, given), pc |-> "unmade", step |-> 1,
      resp |-> Silence, did |-> <<>>, status |-> 0, seen |-> Waiting, there |-> {}, missing |-> {}]

(* What the path of a request names, and what a body adds to it.           *)
Owner(asked) ==
  SubSeq(PathOf(asked), 1, LastParameter(Requests[asked.op].path))

Made(asked) == Append(PathOf(asked), asked.named)

Present(path) == path = <<>> \/ path \in exists

(* The calls cs with what they have seen of UFM once it has what set says. *)
Watched(cs, set) ==
  LET Has(path)   == path = <<>> \/ path \in set
      About(call) == {Owner(call.asked), Made(call.asked)}
  IN [c \in DOMAIN cs |->
        IF cs[c].pc \in {"sent", "answered"}
        THEN [cs[c] EXCEPT !.there   = @ \cup {path \in About(cs[c]) : Has(path)},
                           !.missing = @ \cup {path \in About(cs[c]) : ~Has(path)}]
        ELSE cs[c]]

(* The shapes the body of a handler's success may have.                    *)
ShapesOf(shape) ==
  CASE shape = "any"  -> {"object", "list"}
    [] OTHER          -> {shape}

(* Mutated form of Replied: the caller gets no body of an error.           *)
RepliedUnseen(call, status, shape) ==
  [call EXCEPT !.pc = "replied", !.status = status,
               !.seen = IF @ = Waiting /\ shape # "error"
                        THEN ParseResponse(call.asked.op, status, shape) ELSE @]

Replied(call, status, shape) ==
  [call EXCEPT !.pc = "replied", !.status = status,
               !.seen = IF @ = Waiting THEN ParseResponse(call.asked.op, status, shape) ELSE @]

BadRequest == 400

Refused(call) ==
  \/ ~call.given.complete
  \/ Handlers[call.given.op].binds /\ call.asked.body = "unreadable"

-----------------------------------------------------------------------------
Init ==
  /\ exists \in Initial
  /\ wire = {}
  /\ \E script \in Scripts : calls = [c \in DOMAIN script |-> Unmade(script[c])]

(* The caller's request reaches the facade and its handler makes its first *)
(* call.                                                                   *)
Call(c) ==
  /\ calls[c].pc = "unmade"
  /\ ~Refused(calls[c])
  /\ calls[c].plan # <<>>
  /\ wire' = wire \cup {[call |-> c, step |-> 1]}
  /\ calls' = Watched([calls EXCEPT ![c].pc = "sent"], exists)
  /\ UNCHANGED exists

(* The wrapper or the handler refuses what it cannot read.                 *)
CallRefused(c) ==
  /\ calls[c].pc = "unmade"
  /\ Refused(calls[c])
  /\ calls' = [calls EXCEPT ![c] = Replied(@, BadRequest, "error")]
  /\ UNCHANGED <<exists, wire>>

(* A handler that finds nothing to do answers at once.                     *)
CallNothing(c) ==
  /\ calls[c].pc = "unmade"
  /\ ~Refused(calls[c])
  /\ calls[c].plan = <<>>
  /\ LET h == Handlers[calls[c].given.op]
     IN  calls' = [calls EXCEPT ![c] = Replied(@, h.status, h.shape)]
  /\ UNCHANGED <<exists, wire>>

-----------------------------------------------------------------------------
(* UFM.  An effect on an item needs the item; what makes an item, or is    *)
(* about a collection, needs what that is in.                              *)
StepOf(m)   == calls[m.call].plan[m.step]
MethodOf(m) == Methods[StepOf(m).method]

IsItem(pattern) == Last(pattern) \in Parameters

(* How much of what a method is about has to be there.                     *)
Required(method) ==
  IF IsItem(method.on) /\ method.effect \notin {"create", "start", "put"}
  THEN Len(method.on) ELSE LastParameter(Front(method.on))

Needed(m) == SubSeq(StepOf(m).on, 1, Required(MethodOf(m)))

Conflict(m) == MethodOf(m).effect = "create" /\ StepOf(m).on \in exists

(* What UFM may have once m is carried out.                                *)
Effect(m) ==
  LET on == StepOf(m).on
  IN CASE MethodOf(m).effect \in {"create", "put"} -> {exists \cup {on}}
       [] MethodOf(m).effect = "start" ->
            {exists \cup {path} : path \in {Filled(on, [p \in {A1} |-> n]) : n \in Names} \ exists}
       [] MethodOf(m).effect = "delete" -> {{path \in exists : ~IsPrefix(on, path)}}
       [] OTHER -> {exists}

(* The answer to m reaches the handler if that still waits for it.         *)
Delivered(m, resp) ==
  IF calls[m.call].pc = "sent" /\ calls[m.call].step = m.step
  THEN [calls EXCEPT ![m.call].pc = "answered", ![m.call].resp = resp]
  ELSE calls

UfmDoes(m) ==
  /\ Present(Needed(m))
  /\ ~Conflict(m)
  /\ wire' = wire \ {m}
  /\ exists' \in Effect(m)
  /\ \E resp \in {Response(200)} \cup (IF MethodOf(m).wants THEN {Unreadable(200)} ELSE {}) :
       calls' = Watched([Delivered(m, resp) EXCEPT ![m.call].did = Append(@, StepOf(m))], exists')

UfmAnswers(m, status) ==
  /\ wire' = wire \ {m}
  /\ calls' = Delivered(m, Response(status))
  /\ UNCHANGED exists

UfmFindsNothing(m) == ~Present(Needed(m)) /\ UfmAnswers(m, 404)

UfmFindsItThere(m) == Present(Needed(m)) /\ Conflict(m) /\ UfmAnswers(m, 409)

UfmRefuses(m) == \E status \in Refusals : UfmAnswers(m, status)

(* A validation test that is running is not started again.                 *)
UfmIsBusy(m) == StepOf(m).method = "RunFabricValidationTest" /\ UfmAnswers(m, 409)

(* A request is lost on its way.  That an answer is lost is the case of a  *)
(* request carried out after its call has been given up.                   *)
WireLoses(m) ==
  /\ wire' = wire \ {m}
  /\ UNCHANGED <<exists, calls>>

-----------------------------------------------------------------------------
(* Mutated form of GiveUp: only a connection that is used can be cut.      *)
GiveUpWithoutTimeout(c) ==
  /\ calls[c].pc = "sent" /\ \E m \in wire : m.call = c
  /\ calls' = [calls EXCEPT ![c].pc = "answered", ![c].resp = Silence]
  /\ UNCHANGED <<exists, wire>>

(* The connection is cut or the time of a call to UFM is over.             *)
GiveUp(c) ==
  /\ calls[c].pc = "sent"
  /\ calls' = [calls EXCEPT ![c].pc = "answered", ![c].resp = Silence]
  /\ UNCHANGED <<exists, wire>>

(* The error value of the step that was answered.                          *)
ErrorOf(call) ==
  LET m == Methods[call.plan[call.step].method]
  IN  IF m.checked THEN do(call.resp, m.wants)
      ELSE IF ~call.resp.got THEN OtherError
      ELSE IF call.resp.status = 409 THEN APIError(409) ELSE NoError

(* A handler that makes a second call makes it after the first succeeded.  *)
Continue(c) ==
  /\ calls[c].pc = "answered"
  /\ ErrorOf(calls[c]) = NoError
  /\ calls[c].step < Len(calls[c].plan)
  /\ calls' = [calls EXCEPT ![c].pc = "sent", ![c].step = @ + 1]
  /\ wire' = wire \cup {[call |-> c, step |-> calls[c].step + 1]}
  /\ UNCHANGED exists

Reply(c) ==
  /\ calls[c].pc = "answered"
  /\ LET err == ErrorOf(calls[c])
         h   == Handlers[calls[c].given.op]
     IN IF err # NoError
        THEN calls' = [calls EXCEPT ![c] = Replied(@, handleUFMError(err), "error")]
        ELSE /\ calls[c].step = Len(calls[c].plan)
             /\ \E shape \in ShapesOf(h.shape) :
                  calls' = [calls EXCEPT ![c] = Replied(@, h.status, shape)]
  /\ UNCHANGED <<exists, wire>>

(* The caller's context ends; the handler goes on or gives up in turn.     *)
Abandon(c) ==
  /\ calls[c].pc \in {"sent", "answered"}
  /\ calls[c].seen = Waiting
  /\ calls' = [calls EXCEPT ![c].seen = NoAnswer]
  /\ UNCHANGED <<exists, wire>>

(* The facade stops and is started again.  It keeps nothing; what it has   *)
(* sent to UFM is still on its way.                                        *)
Restart ==
  /\ \E c \in DOMAIN calls : calls[c].pc \in {"sent", "answered"}
  /\ calls' = [c \in DOMAIN calls |->
       IF calls[c].pc \in {"sent", "answered"}
       THEN [calls[c] EXCEPT !.pc = "lost", !.seen = NoAnswer] ELSE calls[c]]
  /\ UNCHANGED <<exists, wire>>

Next ==
  \/ \E c \in DOMAIN calls : \/ Call(c) \/ CallRefused(c) \/ CallNothing(c)
                             \/ GiveUp(c) \/ Continue(c) \/ Reply(c) \/ Abandon(c)
  \/ \E m \in wire : \/ UfmDoes(m) \/ UfmFindsNothing(m) \/ UfmFindsItThere(m)
                     \/ UfmRefuses(m) \/ UfmIsBusy(m) \/ WireLoses(m)
  \/ Restart

Spec == Init /\ [][Next]_vars

(* A call to UFM ends, by the timeout of the HTTP client if by nothing     *)
(* else, and a handler that runs goes on to its end.                       *)
Progress(c) == c \in DOMAIN calls /\ (GiveUp(c) \/ Continue(c) \/ Reply(c))

CallIds == 1..Max({Len(script) : script \in Scripts})

FairSpec == Spec /\ \A c \in CallIds : WF_vars(Progress(c))

-----------------------------------------------------------------------------
(* What a handler is given, the steps of its plan, and calls.              *)
Givens == [op : Operations, names : Seq(Names), query : SUBSET STRING, complete : BOOLEAN]

PlanSteps == [method : DOMAIN Methods, on : Paths]

Calls ==
  [asked : Request, given : Givens, plan : Seq(PlanSteps),
   pc : {"unmade", "sent", "answered", "replied", "lost"}, step : Nat, resp : Responses,
   did : Seq(PlanSteps), status : Nat, seen : Fields,
   there : SUBSET Paths, missing : SUBSET Paths]

(* The status and what the caller sees go with where the call stands.      *)
InOrder(call) ==
  /\ call.step \in Nat \ {0}
  /\ call.pc \in {"sent", "answered"} => call.step \in DOMAIN call.plan
  /\ (call.status # 0) = (call.pc = "replied")
  /\ call.pc = "unmade" => call.step = 1 /\ call.seen = Waiting /\ call.did = <<>>
  /\ call.pc \in {"replied", "lost"} => call.seen # Waiting

(* Values are of their kinds, and what is on the wire is a step of a call  *)
(* that got that far.                                                      *)
TypeOK ==
  /\ exists \subseteq Paths
  /\ calls \in [DOMAIN calls -> Calls]
  /\ wire \subseteq [call : DOMAIN calls, step : Nat \ {0}]
  /\ \A m \in wire : m.step \in 1..calls[m.call].step /\ m.step \in DOMAIN calls[m.call].plan
  /\ \A c \in DOMAIN calls : InOrder(calls[c])

(* A request reaches the handler of its operation with the names its       *)
(* caller gave, in their order, and every query parameter the caller may   *)
(* set is one the wrapper hands on and the handler uses.  The exceptions:  *)
(* GET /systems/power is the power of all systems, also for a system whose *)
(* id is power; and GetSystem does not use its parameter include           *)
(* (server.go:507).                                                        *)
ReachesItsHandler ==
  \A c \in DOMAIN calls :
    LET asked == calls[c].asked
        given == calls[c].given
    IN IF asked.op = "GetSystem" /\ asked.names[P1] = "power"
       THEN given.op = "ListSystemsPower"
       ELSE /\ given.op = asked.op
            /\ given.names = [i \in DOMAIN given.names |-> asked.names[<<P1, P2>>[i]]]
            /\ Len(given.names) = Cardinality(Range(Requests[asked.op].path) \cap Parameters)
            /\ given.query = asked.query
            /\ asked.op # "GetSystem" => given.query \subseteq Handlers[given.op].uses

(* UFM acts on what the path of the request names, or on something in it,  *)
(* and on nothing if the body cannot be read; the steps of a plan are      *)
(* carried out in their order and once.  The exceptions:                   *)
(* UpdateGlobalNetwork updates the network its body names, whatever the    *)
(* path says (server.go:1264); AbortJob aborts all jobs (830);             *)
(* GetPartitionLastUpdated is not told the partition (377); a system with  *)
(* the id power; CollectLinkDump hands ids of links to a call about        *)
(* systems (730); and RebootSystem reboots whatever the body is (1707).    *)
ByBody     == {"UpdateGlobalNetwork", "CollectLinkDump"}
AboutAll   == {"AbortJob", "GetPartitionLastUpdated"}

(* What a step of a plan is about, in terms of the path and the body of    *)
(* the request.                                                            *)
Subject(step) ==
  LET on == Methods[step.method].on
  IN [i \in DOMAIN on |->
        IF on[i] = A1 /\ 1 \in DOMAIN step.args THEN step.args[1]
        ELSE IF on[i] = A2 /\ 2 \in DOMAIN step.args THEN step.args[2] ELSE on[i]]

(* What is said of the tables only, for each step of each plan.  A method  *)
(* has all its arguments, unless UFM chooses the name.                     *)
Complete(step) ==
  LET method == Methods[step.method]
  IN /\ method.on # <<>> /\ Body \notin Range(method.on)
     /\ method.effect # "start" =>
          \A i \in DOMAIN method.on :
            /\ method.on[i] = A1 => 1 \in DOMAIN step.args
            /\ method.on[i] = A2 => 2 \in DOMAIN step.args

(* It is about what owns the path of the request, or is in it, and needs   *)
(* the owner, unless it puts it there.                                     *)
Belongs(op, step) ==
  LET path   == Requests[op].path
      owner  == LastParameter(path)
      method == Methods[step.method]
      about  == Subject(step)
  IN /\ Required(method) \in 0..Len(method.on)
     /\ op # "CollectLinkDump" => method.on[1] = path[1]
     /\ op \in AboutAll => Required(method) = 0
     /\ op \notin ByBody \cup AboutAll =>
          /\ owner <= Len(about) /\ \A i \in 1..owner : about[i] = path[i]
          /\ \/ Required(method) = owner
             \/ Required(method) = 0 /\ method.effect = "put" /\ Len(about) = owner

(* What it makes, puts or starts is what a POST names, and what it deletes *)
(* what a DELETE does.                                                     *)
Changes(op, step) ==
  LET asks   == Requests[op]
      owner  == LastParameter(asks.path)
      made   == Append(asks.path, Body)
      method == Methods[step.method]
      about  == Subject(step)
  IN /\ method.effect \in {"create", "put", "start"} => asks.method = "POST"
     /\ method.effect = "create" => about = made
     /\ method.effect = "put" => about = made \/ about = SubSeq(asks.path, 1, owner)
     /\ method.effect = "start" =>
          /\ op = "CreateMonitoringSession" /\ step.args = <<>>
          /\ method.on = Append(asks.path, A1) /\ Range(asks.path) \cap Parameters = {}
     /\ method.effect = "delete" =>
          /\ asks.method = "DELETE" /\ Len(asks.path) <= Len(about)
          /\ \A i \in DOMAIN asks.path : about[i] = asks.path[i]
     /\ step.method = "RunFabricValidationTest" => op = "RunFabricValidationTest"

Suits(op, step) == Complete(step) /\ Belongs(op, step) /\ Changes(op, step)

(* A path begins with a segment of its own, no GET has a body, and only    *)
(* RebootSystem takes a body it cannot read.                               *)
ASSUME SubjectsAssumption ==
  \A op \in Operations :
    LET asks == Requests[op]
    IN /\ asks.path # <<>> /\ asks.path[1] \notin Parameters /\ Body \notin Range(asks.path)
       /\ asks.body => asks.method # "GET" /\ (Handlers[op].binds \/ op = "RebootSystem")
       /\ \A n \in DOMAIN Handlers[op].plans :
            \A k \in DOMAIN Handlers[op].plans[n] : Suits(op, Handlers[op].plans[n][k])

ActsOnWhatIsNamed ==
  \A c \in DOMAIN calls :
    LET call == calls[c]
        op   == call.asked.op
    IN /\ IsPrefix(call.did, call.plan)
       /\ call.asked.body = "unreadable" /\ call.did # <<>> => op = "RebootSystem"
       /\ \A step \in Range(call.did) :
            /\ op # "CollectLinkDump" => Head(step.on) = Head(PathOf(call.asked))
            /\ \/ IsPrefix(Owner(call.asked), step.on)
               \/ op \in ByBody \cup AboutAll
               \/ op # call.given.op

(* An answer of success is given only after the whole plan was carried     *)
(* out, and one of refusal only if it was not.  The exception:             *)
(* RunFabricValidationTest takes every status but 409 for success          *)
(* (misc.go:136).                                                          *)
SuccessIsDone ==
  \A c \in DOMAIN calls :
    LET call == calls[c]
    IN  call.pc = "replied" /\ call.asked.op # "RunFabricValidationTest" =>
          /\ call.status < 400 => call.did = call.plan
          /\ call.status \in PassedOn /\ call.plan # <<>> => call.did # call.plan

(* What a status says of the resources is true of some moment of the call, *)
(* whatever other calls change: 404 that what the path names is missing,   *)
(* 409 that what is to be made is there, success that what the path names  *)
(* is there.  The exceptions are those of ActsOnWhatIsNamed and            *)
(* SuccessIsDone, and UpdateSystem with an empty body, which is a success  *)
(* for a system that is not there (server.go:518).                         *)
StatusIsTrue ==
  \A c \in DOMAIN calls :
    LET call == calls[c]
        op   == call.asked.op
    IN  call.pc = "replied" =>
          /\ call.status = 404 /\ op \notin ByBody => Owner(call.asked) \in call.missing
          /\ call.status = 409 /\ op # "RunFabricValidationTest" => Made(call.asked) \in call.there
          /\ call.status < 400 =>
               \/ Owner(call.asked) \in call.there
               \/ op \in ByBody \cup AboutAll \cup {"RunFabricValidationTest"}
               \/ op # call.given.op
               \/ call.plan = <<>>

(* After an answer, unless that is 502, nothing more is done for a call.   *)
AnswerIsFinal ==
  [][\A c \in DOMAIN calls :
       calls[c].pc = "replied" /\ calls[c].status # BadGateway =>
         calls'[c].did = calls[c].did]_vars

(* A resource appears only where a call that was made puts it, and         *)
(* disappears only with what a DELETE names, also when answers are late,   *)
(* callers are gone or the facade was stopped.  UFM names the sessions     *)
(* of monitoring.                                                          *)
MayAdd(asked, path) ==
  /\ Requests[asked.op].method = "POST"
  /\ \/ path \in {Made(asked), Owner(asked)}
     \/ asked.op = "CreateMonitoringSession" /\ Front(path) = PathOf(asked)

MayRemove(asked, path) ==
  Requests[asked.op].method = "DELETE" /\ IsPrefix(PathOf(asked), path)

OnlyAsAsked ==
  [][LET asked == {calls[c].asked : c \in {d \in DOMAIN calls : calls[d].pc # "unmade"}}
     IN /\ \A path \in exists' \ exists : \E a \in asked : MayAdd(a, path)
        /\ \A path \in exists \ exists' : \E a \in asked : MayRemove(a, path)]_vars

(* Where what a handler sends and what the document has it send differ.    *)
(* Ten operations are to answer with a body and send none, three send a    *)
(* body of another status than the document gives one, or of a success it  *)
(* gives none; and what UFM answers to others is handed on as it is.       *)
SentWithoutBody ==
  {"ReplacePartition", "UpdatePartitionQoS", "UpdateSystem", "RebootSystem", "CollectSystemDump",
   "CollectLinkDump", "UpgradeSystemFirmware", "UpgradeSystemSoftware", "ExecuteTemplate",
   "CreateMonitoringTemplate"}

ReadAsErrors == {"CreateGlobalNetwork", "CreateLocalNetwork", "CreateToken"}

PassedOnAsIs ==
  {"GetInventorySummary", "GetInventoryCount", "ListMonitoringAttributes", "GetCongestionMap",
   "GetPerformanceCounters", "GetPortGroupMetrics", "GetMonitoringSessionData",
   "CreateMonitoringSnapshot", "GetReport", "GetLatestReport", "GetHistoryTelemetry",
   "GetTopTelemetry"}

(* The document gives a success of op a body.                              *)
HasSuccessBody(op) == \E status \in Readers[op].statuses : status < 400

(* What is said of the tables only: these are all that differ.             *)
ASSUME ReadersAssumption ==
  \A op \in Operations :
    LET h == Handlers[op]
        r == Readers[op]
    IN /\ h.shape \in {"none", "object", "page", "list", "any"}
       /\ op \in SentWithoutBody => h.shape = "none"
       /\ op \in ReadAsErrors => h.shape = "object" /\ h.status \notin r.statuses
       /\ op \in PassedOnAsIs <=> h.shape = "any"
       /\ h.shape = "any" => \A n \in DOMAIN h.plans : h.plans[n] # <<>>
       /\ op \notin SentWithoutBody \cup ReadAsErrors =>
            /\ HasSuccessBody(op) = (h.shape # "none")
            /\ h.shape # "none" => h.status \in r.statuses /\ r.list = (h.shape = "list")

(* A caller that has the answer to a success finds its body in the field   *)
(* for its status if the document gives a success of the operation a body, *)
(* and no field set if not.  The exceptions: ten operations that are to    *)
(* send a body may send none (as UpdateSystem, 204 in server.go:549 and    *)
(* 200 with the system in the document); JSONDefault, the field for        *)
(* errors, may be where a caller finds a network or a token it made        *)
(* (server.go:1253); and of a list that is handed on as UFM gave it, where *)
(* an object is expected, it gets an error instead.                        *)
SuccessIsReadWhereKnown ==
  \A c \in DOMAIN calls :
    LET call == calls[c]
        op   == call.given.op
    IN  call.pc = "replied" /\ call.status < 400 /\ call.asked.op = op /\ call.seen # NoAnswer =>
          \/ call.seen = IF HasSuccessBody(op) THEN "typed" ELSE "nothing"
          \/ op \in SentWithoutBody /\ call.seen = "nothing"
          \/ op \in ReadAsErrors /\ call.seen = "default"
          \/ op \in PassedOnAsIs /\ call.seen = GoError

(* The document has JSONDefault for errors (api/openapi.yaml): the body of *)
(* a success is read into the field for its status.                        *)
SuccessBodyIsTyped ==
  \A c \in DOMAIN calls :
    calls[c].pc = "replied" /\ calls[c].status < 400 => calls[c].seen # "default"

(* Every call of the client returns.                                       *)
Waits(c) == c \in DOMAIN calls /\ calls[c].pc # "unmade" /\ calls[c].seen = Waiting

CallsReturn == \A c \in CallIds : Waits(c) ~> ~Waits(c)
=============================================================================
