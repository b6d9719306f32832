-------------------------- MODULE PartitionService --------------------------
(***************************************************************************)
(* What api/openapi.yaml promises of the partition operations, stated for  *)
(* a facade that loses answers and requests: every request takes effect at *)
(* most once, at one instant, as its operation is documented; an answer    *)
(* that says what happened says the truth; and "upstream_error" (502) is   *)
(* the only answer that leaves it open.                                    *)
(***************************************************************************)
EXTENDS PartitionData

CONSTANTS
  Callers,     \* API clients, one request at a time each
  Inputs,      \* the requests they may make
  MaxRequests  \* bound: requests made altogether

VARIABLES
  parts,      \* parts[p]: partition p, Absent if there is none
  session,    \* session[c]: the latest request of c and how far it is
  late,       \* requests without an answer that may still take effect
  hostJobs,   \* accepted additions of hosts that are still to be done
  asked       \* the number of requests made

serviceVars == <<parts, session, late, hostJobs, asked>>

NoSession == [pc |-> "idle", number |-> 0, req |-> Request("none", "none"),
              answer |-> "none", shown |-> Absent]

Made(p) == [part |-> p, answer |-> "done"]

NewMembers(req) == FullUnlessGiven(req.members)

NewPartition(req, qos) == [exists |-> TRUE, members |-> NewMembers(req), qos |-> qos, sharp |-> FALSE]

WithNewMembers(req, q) == [q EXCEPT !.members = Joined(@, NewMembers(req))]

EffectsOfCreate(req, q) ==
  IF q.exists
  THEN {[part |-> q, answer |-> "exists"]} \cup
       IF Listed(NewMembers(req)) = {} THEN {} ELSE {Made(WithNewMembers(req, q))}
  ELSE {Made(NewPartition(req, Overlaid(DefaultQos, req.qos)))} \cup
       IF Listed(NewMembers(req)) = {} THEN {} ELSE {Made(NewPartition(req, DefaultQos))}

EffectsOfAdd(req, q) ==
  {Made(IF q.exists THEN WithNewMembers(req, q) ELSE NewPartition(req, DefaultQos))}

QosUpdates(req, q) ==
  {[q EXCEPT !.qos = Overlaid(s, req.qos)] : s \in {q.qos, DefaultQos, [f \in QosFields |-> 0]}}

(* What the other operations may make of a partition that exists.          *)
Becomes(req, q) ==
  CASE req.op = "DeletePartition"        -> {Absent}
    [] req.op = "ReplacePartition"       ->
         {[q EXCEPT !.members = NewMembers(req), !.qos = Overlaid(@, req.qos)]}
    [] req.op = "RemovePartitionMembers" -> {[q EXCEPT !.members = Without(@, req.guids)]}
    [] req.op = "RemovePartitionHosts"   -> {[q EXCEPT !.members = Without(@, PortsOfAll(req.hosts))]}
    [] req.op = "UpdatePartitionQoS"     -> QosUpdates(req, q)
    [] req.op = "UpdatePartitionSHARP"   -> {[q EXCEPT !.sharp = req.enabled]}
    [] req.op \in Reads \cup {"AddPartitionHosts"} -> {q}

(* What req may do to partition q, and the answer that says so.  Where the *)
(* handlers fall short of api/openapi.yaml the outcome is left open:       *)
(* creating with members a partition that exists, the QoS settings of a    *)
(* partition created with members, and the settings an update leaves out.  *)
Effects(req, q) ==
  IF req.op = "CreatePartition" THEN EffectsOfCreate(req, q)
  ELSE IF req.op = "AddPartitionMembers" THEN EffectsOfAdd(req, q)
  ELSE IF q.exists THEN {Made(p) : p \in Becomes(req, q)}
  ELSE {[part |-> q, answer |-> "missing"]}

(* What a read shows of a partition; the QoS settings are optional.        *)
MayShow(req, q, shown) ==
  IF req.op \notin Reads \/ ~q.exists THEN shown = Absent
  ELSE /\ shown.exists /\ shown.sharp = q.sharp
       /\ shown.members = IF req.op = "ListPartitionMembers" \/ "members" \in req.include
                          THEN q.members ELSE NoMembers
       /\ shown.qos \in {q.qos, NoQos}

HostJob(number, req) ==
  [number |-> number, pkey |-> req.pkey, hosts |-> req.hosts,
   membership |-> IF req.membership = "unset" THEN "full" ELSE req.membership]

-----------------------------------------------------------------------------
ServiceInit ==
  /\ parts \in [Pkeys -> Held]
  /\ session = [c \in Callers |-> NoSession]
  /\ late = {} /\ hostJobs = {} /\ asked = 0

(* A request whose body nobody can read is refused at once.                *)
Ask(c, req) ==
  /\ asked < MaxRequests /\ asked' = asked + 1
  /\ session[c].pc \in {"idle", "replied"}
  /\ session' = [session EXCEPT ![c] =
       [NoSession EXCEPT !.req = req, !.number = asked + 1,
          !.pc = IF req.body = "malformed" THEN "replied" ELSE "waiting",
          !.answer = IF req.body = "malformed" THEN "refused" ELSE "none"]]
  /\ UNCHANGED <<parts, late, hostJobs>>

Happens(req, number, part) ==
  /\ parts' = [parts EXCEPT ![req.pkey] = part]
  /\ hostJobs' = IF req.op = "AddPartitionHosts" /\ parts[req.pkey].exists
                 THEN hostJobs \cup {HostJob(number, req)} ELSE hostJobs

(* What a read may show of q: without its members or its QoS settings.     *)
Views(q) ==
  {Absent, q, [q EXCEPT !.members = NoMembers], [q EXCEPT !.qos = NoQos],
   [q EXCEPT !.members = NoMembers, !.qos = NoQos]}

TakeEffect(c) ==
  LET mine == session[c]
      q    == parts[mine.req.pkey]
  IN /\ mine.pc = "waiting"
     /\ UNCHANGED <<late, asked>>
     /\ \E e \in Effects(mine.req, q) :
          /\ Happens(mine.req, mine.number, e.part)
          /\ \E shown \in Views(q) :
               /\ MayShow(mine.req, q, shown)
               /\ session' = [session EXCEPT ![c].pc = "taken", ![c].shown = shown,
                                             ![c].answer = e.answer]

Refuse(c) ==
  /\ session[c].pc = "waiting"
  /\ UNCHANGED <<parts, late, hostJobs, asked>>
  /\ \E a \in {"refused", "unclear"} :
       session' = [session EXCEPT ![c].pc = "taken", ![c].answer = a]

LoseContact(c) ==
  LET mine == session[c]
  IN /\ mine.pc \in {"waiting", "taken"}
     /\ UNCHANGED <<parts, hostJobs, asked>>
     /\ late' \in IF mine.pc = "waiting"
                  THEN {late, late \cup {[number |-> mine.number, req |-> mine.req]}}
                  ELSE {late}
     /\ session' = [session EXCEPT ![c].pc = "taken", ![c].answer = "unclear", ![c].shown = Absent]

Reply(c) ==
  /\ session[c].pc = "taken"
  /\ UNCHANGED <<parts, late, hostJobs, asked>>
  /\ session' = [session EXCEPT ![c].pc = "replied"]

TakeLateEffect(r) ==
  /\ late' = late \ {r}
  /\ \E e \in Effects(r.req, parts[r.req.pkey]) : Happens(r.req, r.number, e.part)
  /\ UNCHANGED <<session, asked>>

Forget(r) ==
  /\ late' = late \ {r}
  /\ UNCHANGED <<parts, session, hostJobs, asked>>

(* The ports of the hosts join, if the partition is still there.           *)
HostJobEnds(j) ==
  /\ hostJobs' = hostJobs \ {j}
  /\ parts' = IF parts[j.pkey].exists
              THEN [parts EXCEPT ![j.pkey].members =
                      [g \in Guids |-> IF g \in PortsOfAll(j.hosts) THEN j.membership ELSE @[g]]]
              ELSE parts
  /\ UNCHANGED <<session, late, asked>>

ServiceNext ==
  \/ \E c \in Callers : \/ \E req \in Inputs : Ask(c, req)
                        \/ TakeEffect(c) \/ Refuse(c) \/ LoseContact(c) \/ Reply(c)
  \/ \E r \in late : TakeLateEffect(r) \/ Forget(r)
  \/ \E j \in hostJobs : HostJobEnds(j)

ServiceSpec == ServiceInit /\ [][ServiceNext]_serviceVars
=============================================================================
