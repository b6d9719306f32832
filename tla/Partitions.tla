----------------------------- MODULE Partitions -----------------------------
(***************************************************************************)
(* The partition handlers of the facade (internal/handler/server.go,       *)
(* CreatePartition to UpdatePartitionSHARP) on top of the partition calls  *)
(* of pkg/ufmclient/partitions.go.  Handlers of several API clients run at *)
(* the same time; each binds its body, makes one request to UFM, and       *)
(* answers from what comes back.  As in Jobs, a request may be carried out *)
(* after its handler has given up, or never.                               *)
(*                                                                         *)
(* UFM is external: it is modelled by what the code asks of it.            *)
(***************************************************************************)
EXTENDS PartitionData, UfmCall

CONSTANTS
  Callers,     \* API clients of the facade, one request at a time each
  Inputs,      \* the requests they may make
  Refusals,    \* statuses UFM may refuse any request with
  MaxRequests, \* bound: requests made altogether
  Loads        \* bound: [inputs, requests], which are made and how many at most

ASSUME LoadsAssumption ==
  /\ MaxRequests \in Nat
  /\ Loads \subseteq [inputs : SUBSET Inputs, requests : 0..MaxRequests]

ASSUME RefusalsAssumption == Refusals \subseteq 400..599 \ {404, 409}

ASSUME InputsAssumption ==
  /\ Inputs \subseteq Requests
  /\ \A req \in Inputs : req.op \in Bodiless => req.body = "present"

VARIABLES
  parts,     \* UFM: parts[p] of partition p
  hostJobs,  \* UFM: accepted additions of hosts that are still to be done
  wire,      \* requests of the facade on their way to UFM
  call,      \* call[c]: the latest request of caller c and its handling
  requests,  \* history: the number of requests made so far
  load       \* the load of this behaviour

vars == <<parts, hostJobs, wire, call, requests, load>>

-----------------------------------------------------------------------------
(* ctx.Bind: a body nobody can read is an error; for one that is missing   *)
(* the bound struct keeps its zero values.                                 *)
Bindable(req) == req.op \in Bodiless \/ req.body # "malformed"

(* Mutated form of Membership: a member without membership stays so.       *)
MembershipAsGiven(members) == members

Membership(members) == FullUnlessGiven(members)

(* The value of a QoS setting in the request of UpdatePKeyQoS, whose       *)
(* fields are no pointers: zero if left out.                               *)
ZeroUnlessGiven(qos) == [f \in QosFields |-> IF qos[f] = Unset THEN 0 ELSE qos[f]]

UfmRequest(method, req) ==
  [call |-> method, pkey |-> req.pkey, members |-> NoMembers, guids |-> {}, hosts |-> {},
   membership |-> "full", qos |-> NoQos, enable |-> FALSE, guidsData |-> FALSE]

(* The one request each handler makes.                                     *)
Translated(req) ==
  CASE req.op = "CreatePartition" /\ Listed(req.members) # {} ->
         [UfmRequest("POST pkeys", req) EXCEPT !.members = Membership(req.members)]
    [] req.op = "CreatePartition" /\ Listed(req.members) = {} ->
         [UfmRequest("POST pkeys/add", req) EXCEPT !.qos = req.qos]
    [] req.op = "DeletePartition" -> UfmRequest("DELETE pkey", req)
    [] req.op = "GetPartition" ->
         [UfmRequest("GET pkey", req) EXCEPT !.guidsData = "members" \in req.include]
    [] req.op = "ListPartitionMembers" ->
         [UfmRequest("GET pkey", req) EXCEPT !.guidsData = TRUE]
    [] req.op = "ReplacePartition" ->
         [UfmRequest("PUT pkeys", req) EXCEPT !.members = Membership(req.members), !.qos = req.qos]
    [] req.op = "AddPartitionMembers" ->
         [UfmRequest("POST pkeys", req) EXCEPT !.members = Membership(req.members)]
    [] req.op = "RemovePartitionMembers" ->
         [UfmRequest("DELETE pkey/guids", req) EXCEPT !.guids = req.guids]
    [] req.op = "AddPartitionHosts" ->
         [UfmRequest("POST pkeys/hosts", req) EXCEPT !.hosts = req.hosts,
            !.membership = IF req.membership = "unset" THEN "full" ELSE req.membership]
    [] req.op = "RemovePartitionHosts" ->
         [UfmRequest("DELETE pkey/hosts", req) EXCEPT !.hosts = req.hosts]
    [] req.op = "UpdatePartitionQoS" ->
         [UfmRequest("PUT qos_conf", req) EXCEPT !.qos = ZeroUnlessGiven(req.qos)]
    [] req.op = "UpdatePartitionSHARP" ->
         [UfmRequest("PUT sharp-reservation", req) EXCEPT !.enable = req.enabled]

WantsResult(op) == op \in Reads \cup {"AddPartitionHosts"}

Success(op) ==
  CASE op = "CreatePartition"   -> 201
    [] op \in Reads             -> 200
    [] op = "AddPartitionHosts" -> 202
    [] OTHER                    -> 204

(* translatePartition as GetPartition calls it, and the list of members:   *)
(* no QoS settings, and the members UFM sent.                              *)
Translation(q) == [q EXCEPT !.qos = NoQos]

-----------------------------------------------------------------------------
NoCall == [pc |-> "idle", number |-> 0, req |-> Request("none", "none"),
           resp |-> Silence, shown |-> Absent, status |-> 0]

Init ==
  /\ parts \in [Pkeys -> Held]
  /\ hostJobs = {}
  /\ wire = {}
  /\ call = [c \in Callers |-> NoCall]
  /\ requests = 0
  /\ load \in Loads

BadRequest == 400

(* A handler is entered, binds its body and sends its request; or answers  *)
(* at once that it cannot read the body.                                   *)
Receive(c, req) ==
  /\ call[c].pc \in {"idle", "replied"}
  /\ requests < load.requests
  /\ requests' = requests + 1
  /\ IF Bindable(req)
     THEN /\ call' = [call EXCEPT ![c] =
               [NoCall EXCEPT !.pc = "sent", !.number = requests + 1, !.req = req]]
          /\ wire' = wire \cup {[caller |-> c, number |-> requests + 1, of |-> req,
                                 ufm |-> Translated(req)]}
     ELSE /\ call' = [call EXCEPT ![c] =
               [NoCall EXCEPT !.pc = "replied", !.number = requests + 1, !.req = req,
                              !.status = BadRequest]]
          /\ wire' = wire
  /\ UNCHANGED <<parts, hostJobs, load>>

Awaited(r) == call[r.caller].pc = "sent" /\ call[r.caller].number = r.number

(* UFM's answer to r reaches its handler, if that still waits for it.      *)
Deliver(r, resp, shown) ==
  call' = IF Awaited(r)
          THEN [call EXCEPT ![r.caller].pc = "answered", ![r.caller].resp = resp,
                            ![r.caller].shown = shown]
          ELSE call

Store(r, q, status) ==
  /\ parts' = [parts EXCEPT ![r.ufm.pkey] = q]
  /\ Deliver(r, Response(status), Absent)
  /\ UNCHANGED hostJobs

(* UFM creates a partition unless it exists.                               *)
UfmCreates(r) ==
  /\ r.ufm.call = "POST pkeys/add"
  /\ LET q == parts[r.ufm.pkey] IN
       IF q.exists THEN Store(r, q, 409)
       ELSE Store(r, [Absent EXCEPT !.exists = TRUE, !.qos = Overlaid(DefaultQos, r.ufm.qos)], 200)

(* UFM adds GUIDs to an existing or a new partition.                       *)
UfmAddsGuids(r) ==
  /\ r.ufm.call = "POST pkeys"
  /\ LET q == parts[r.ufm.pkey]
         base == IF q.exists THEN q ELSE [Absent EXCEPT !.exists = TRUE, !.qos = DefaultQos]
     IN Store(r, [base EXCEPT !.members = Joined(@, r.ufm.members)], 200)

(* UFM changes a partition, if it exists.                                  *)
Changed(u, q) ==
  CASE u.call = "DELETE pkey"       -> Absent
    [] u.call = "PUT pkeys"         -> [q EXCEPT !.members = u.members, !.qos = Overlaid(@, u.qos)]
    [] u.call = "DELETE pkey/guids" -> [q EXCEPT !.members = Without(@, u.guids)]
    [] u.call = "DELETE pkey/hosts" -> [q EXCEPT !.members = Without(@, PortsOfAll(u.hosts))]
    [] u.call = "PUT qos_conf"      -> [q EXCEPT !.qos = u.qos]
    [] u.call = "PUT sharp-reservation" -> [q EXCEPT !.sharp = u.enable]

UfmChanges(r) ==
  /\ r.ufm.call \in {"DELETE pkey", "PUT pkeys", "DELETE pkey/guids", "DELETE pkey/hosts",
                     "PUT qos_conf", "PUT sharp-reservation"}
  /\ LET q == parts[r.ufm.pkey] IN
       IF q.exists THEN Store(r, Changed(r.ufm, q), 200) ELSE Store(r, q, 404)

(* UFM shows a partition, with its members only if asked for them.         *)
UfmShows(r) ==
  /\ r.ufm.call = "GET pkey"
  /\ LET q == parts[r.ufm.pkey] IN
       IF q.exists
       THEN Deliver(r, Response(200),
                    Translation(IF r.ufm.guidsData THEN q ELSE [q EXCEPT !.members = NoMembers]))
       ELSE Deliver(r, Response(404), Absent)
  /\ UNCHANGED <<parts, hostJobs>>

(* UFM accepts the addition of hosts as a job, and the job ends.           *)
UfmAcceptsHosts(r) ==
  /\ r.ufm.call = "POST pkeys/hosts"
  /\ IF parts[r.ufm.pkey].exists
     THEN /\ hostJobs' = hostJobs \cup {[number |-> r.number, pkey |-> r.ufm.pkey,
                            hosts |-> r.ufm.hosts, membership |-> r.ufm.membership]}
          /\ Deliver(r, Response(200), Absent)
     ELSE hostJobs' = hostJobs /\ Deliver(r, Response(404), Absent)
  /\ UNCHANGED parts

UfmEndsHostJob(j) ==
  /\ hostJobs' = hostJobs \ {j}
  /\ parts' = IF parts[j.pkey].exists
              THEN [parts EXCEPT ![j.pkey].members =
                      [g \in Guids |-> IF g \in PortsOfAll(j.hosts) THEN j.membership ELSE @[g]]]
              ELSE parts
  /\ UNCHANGED <<wire, call, requests, load>>

UfmRefuses(r) ==
  /\ \E s \in Refusals : Deliver(r, Response(s), Absent)
  /\ UNCHANGED <<parts, hostJobs>>

UfmHandles(r) ==
  /\ \/ UfmCreates(r) \/ UfmAddsGuids(r) \/ UfmChanges(r) \/ UfmShows(r)
     \/ UfmAcceptsHosts(r) \/ UfmRefuses(r)
  /\ wire' = wire \ {r}
  /\ UNCHANGED <<requests, load>>

(* A request never arrives.                                                *)
WireLoses(r) ==
  /\ wire' = wire \ {r}
  /\ UNCHANGED <<parts, hostJobs, call, requests, load>>

(* Mutated form of GiveUp: the HTTP client has no timeout.                 *)
GiveUpWithoutTimeout(c) ==
  /\ call[c].pc = "answered"
  /\ call' = [call EXCEPT ![c].resp = Silence, ![c].shown = Absent]
  /\ UNCHANGED <<parts, hostJobs, wire, requests, load>>

(* Mutated form of GiveUp: a request without an answer is sent once more.  *)
GiveUpAndResend(c) ==
  /\ call[c].pc \in {"sent", "answered"}
  /\ wire' = wire \cup {[caller |-> c, number |-> call[c].number, of |-> call[c].req,
                         ufm |-> Translated(call[c].req)]}
  /\ call' = [call EXCEPT ![c].pc = "sent", ![c].resp = Silence, ![c].shown = Absent]
  /\ UNCHANGED <<parts, hostJobs, requests, load>>

(* The handler gets no answer, before or after UFM acted; or it gets one   *)
(* it cannot decode.                                                       *)
GiveUp(c) ==
  /\ call[c].pc \in {"sent", "answered"}
  /\ \/ call' = [call EXCEPT ![c].pc = "answered", ![c].resp = Silence, ![c].shown = Absent]
     \/ /\ call[c].pc = "answered" /\ call[c].resp.got
        /\ call' = [call EXCEPT ![c].resp.decodes = FALSE]
  /\ UNCHANGED <<parts, hostJobs, wire, requests, load>>

(* The handler answers its client.                                         *)
Reply(c) ==
  /\ call[c].pc = "answered"
  /\ LET op == call[c].req.op
         status == Answered(call[c].resp, WantsResult(op), Success(op))
     IN call' = [call EXCEPT ![c].pc = "replied", ![c].status = status, ![c].resp = Silence,
                   ![c].shown = IF status = Success(op) THEN @ ELSE Absent]
  /\ UNCHANGED <<parts, hostJobs, wire, requests, load>>

Next ==
  \/ \E c \in Callers : GiveUp(c) \/ Reply(c) \/ \E req \in load.inputs : Receive(c, req)
  \/ \E r \in wire : UfmHandles(r) \/ WireLoses(r)
  \/ \E j \in hostJobs : UfmEndsHostJob(j)

Spec == Init /\ [][Next]_vars

(* A handler whose answer is there goes on, and the HTTP client ends every *)
(* call after its timeout.  Nothing is assumed of UFM or of the wire.      *)
FairSpec == Spec /\ \A c \in Callers : WF_vars(GiveUp(c) /\ call[c].pc = "sent") /\ WF_vars(Reply(c))

-----------------------------------------------------------------------------
NoRequest == Request("none", "none")

Statuses == {0, 200, 201, 202, 204, BadGateway} \cup PassedOn

Calls == [pc : {"idle", "sent", "answered", "replied"}, number : Nat, req : Inputs \cup {NoRequest},
          resp : Responses, shown : Partition, status : Statuses]

Wired == [caller : Callers, number : Nat, of : Inputs, ufm : {Translated(req) : req \in Inputs}]

HostJobs == [number : Nat, pkey : Pkeys, hosts : SUBSET Hosts, membership : Memberships]

(* UFM only ever holds members with a membership of its own vocabulary,    *)
(* never one a client left out; every handler's status is one of those it  *)
(* or handleUFMError can give; and what is on the wire is the translation  *)
(* of a request that was made.                                             *)
TypeOK ==
  /\ parts \in [Pkeys -> Partition]
  /\ hostJobs \subseteq HostJobs /\ \A j \in hostJobs : j.number \in 1..requests
  /\ wire \subseteq Wired
  /\ \A r \in wire : r.number \in 1..requests /\ r.ufm = Translated(r.of)
  /\ call \in [Callers -> Calls]
  /\ \A c \in Callers : /\ call[c].number \in 0..requests
                        /\ call[c].pc # "idle" => call[c].number # 0 /\ call[c].req \in Inputs
  /\ load \in Loads /\ requests \in 0..load.requests

(* What a status says of the request: done, not done for a reason, or, for *)
(* 502 only, that nobody knows.                                            *)
Meaning(status) ==
  CASE status < 400          -> "done"
    [] status = 404          -> "missing"
    [] status = 409          -> "exists"
    [] status = BadGateway   -> "unclear"
    [] status \in PassedOn \ {404, 409} -> "refused"

OnItsWay(c) == \E r \in wire : r.caller = c /\ r.number = call[c].number

(* The session of PartitionService a handler's state stands for, where its *)
(* request is or is not on its way.                                        *)
SessionFor(k, onItsWay) ==
  LET answer == CASE k.pc = "idle"     -> "none"
                  [] k.pc = "sent"     -> IF onItsWay THEN "none" ELSE "unclear"
                  [] k.pc = "answered" ->
                       Meaning(Answered(k.resp, WantsResult(k.req.op), Success(k.req.op)))
                  [] k.pc = "replied"  -> Meaning(k.status)
  IN [pc |-> CASE k.pc = "sent"     -> IF onItsWay THEN "waiting" ELSE "taken"
               [] k.pc = "answered" -> "taken"
               [] OTHER             -> k.pc,
      number |-> k.number, req |-> k.req, answer |-> answer,
      shown |-> IF answer = "done" THEN k.shown ELSE Absent]

Sessions == [c \in Callers |-> SessionFor(call[c], OnItsWay(c))]

(* The requests of the wire whose handler does not wait for them any more. *)
Unawaited == {r \in wire : ~Awaited(r)}

LateRequest(r) == [number |-> r.number, req |-> r.of]

Late == {LateRequest(r) : r \in Unawaited}

Service == INSTANCE PartitionService WITH session <- Sessions, late <- Late, asked <- requests

(* The handlers implement PartitionService: every request takes effect at  *)
(* most once and at one instant, with the effect of its operation, however *)
(* many clients change the same partition and whatever is lost or late; an *)
(* answer other than 502 says what happened, and what a read shows is what *)
(* the partition was at one instant during the read.                       *)
ImplementsPartitionService == Service!ServiceSpec

(* Every request is answered, whatever becomes of it on its way to UFM.    *)
CallsAreAnswered ==
  \A c \in Callers : call[c].pc = "sent" ~> call[c].pc = "replied"

-----------------------------------------------------------------------------
(* POST /partitions is documented to answer "Partition with this PKEY      *)
(* already exists": carrying out a request of CreatePartition never        *)
(* changes a partition that exists.                                        *)
CreateLeavesExistingAlone ==
  [][\A r \in wire \ wire' :
       r.of.op = "CreatePartition" /\ parts[r.of.pkey].exists =>
         parts'[r.of.pkey] = parts[r.of.pkey]]_vars
=============================================================================
