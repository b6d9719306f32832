-------------------------- MODULE Partitions_proofs ---------------------------
(***************************************************************************)
(* Theorems about Partitions, for any partitions, hosts, API clients,      *)
(* requests and refusals: type correctness, and that the handlers          *)
(* implement PartitionService.                                             *)
(***************************************************************************)
EXTENDS Partitions, TLAPS

-----------------------------------------------------------------------------
(***************************************************************************)
(* The data: memberships and QoS settings.                                 *)
(***************************************************************************)
MemberMaps == [Guids -> Memberships \cup {"none"}]

QosMaps == [QosFields -> Int]

UfmMethodNames ==
  {"POST pkeys/add", "POST pkeys", "GET pkey", "DELETE pkey", "PUT pkeys", "DELETE pkey/guids",
   "POST pkeys/hosts", "DELETE pkey/hosts", "PUT qos_conf", "PUT sharp-reservation"}

UfmRequests ==
  [call : UfmMethodNames, pkey : Pkeys, members : MemberMaps, guids : SUBSET Guids,
   hosts : SUBSET Hosts, membership : Memberships, qos : QosMaps, enable : BOOLEAN,
   guidsData : BOOLEAN]

LEMMA PlainTypes ==
  /\ NoMembers \in MemberMaps /\ NoQos \in QosMaps /\ DefaultQos \in QosMaps
  /\ Absent \in Partition /\ Absent.exists = FALSE
<1>1. NoMembers \in MemberMaps
  BY DEF NoMembers, MemberMaps
<1>2. NoQos \in QosMaps
  BY DEF NoQos, QosMaps, Unset
<1>3. DefaultQos \in QosMaps
  BY DEF DefaultQos, QosMaps, QosFields
<1> QED
  BY <1>1, <1>2, <1>3 DEF Absent, Partition, MemberMaps, QosMaps

LEMMA PartitionParts ==
  Partition = [exists : BOOLEAN, members : MemberMaps, qos : QosMaps, sharp : BOOLEAN]
BY DEF Partition, MemberMaps, QosMaps

LEMMA MapTypes ==
  /\ \A m, n \in MemberMaps : Joined(m, n) \in MemberMaps
  /\ \A m \in MemberMaps : \A guids : Without(m, guids) \in MemberMaps
  /\ \A q, s \in QosMaps : Overlaid(q, s) \in QosMaps
  /\ \A m \in [Guids -> Memberships \cup {"none", "unset"}] : FullUnlessGiven(m) \in MemberMaps
<1>1. \A m, n \in MemberMaps : Joined(m, n) \in MemberMaps
  BY DEF MemberMaps, Joined
<1>2. \A m \in MemberMaps : \A guids : Without(m, guids) \in MemberMaps
  BY DEF MemberMaps, Without
<1>3. \A q, s \in QosMaps : Overlaid(q, s) \in QosMaps
  BY DEF QosMaps, Overlaid
<1>4. \A m \in [Guids -> Memberships \cup {"none", "unset"}] : FullUnlessGiven(m) \in MemberMaps
  BY DEF MemberMaps, FullUnlessGiven, Memberships
<1> QED
  BY <1>1, <1>2, <1>3, <1>4

LEMMA PlainRequest ==
  ASSUME NEW req \in Requests, NEW name \in UfmMethodNames, NEW u, u = UfmRequest(name, req)
  PROVE  u \in UfmRequests /\ u.pkey = req.pkey
<1>1. req.pkey \in Pkeys
  BY DEF Requests
<1>2. "full" \in Memberships
  BY DEF Memberships
<1> QED
  BY <1>1, <1>2, PlainTypes DEF UfmRequest, UfmRequests

(* A handler's request to UFM has memberships of UFM's own vocabulary.     *)
LEMMA TranslatedType ==
  ASSUME NEW req \in Requests
  PROVE  Translated(req) \in UfmRequests /\ Translated(req).pkey = req.pkey
<1>1. req.op \in Operations
  BY DEF Requests
<1>2. Membership(req.members) \in MemberMaps
  BY MapTypes DEF Membership, Requests
<1>3. req.qos \in QosMaps /\ ZeroUnlessGiven(req.qos) \in QosMaps
  BY DEF Requests, QosMaps, ZeroUnlessGiven
<1>4. req.guids \subseteq Guids /\ req.hosts \subseteq Hosts /\ req.enabled \in BOOLEAN
  BY DEF Requests
<1>5. (IF req.membership = "unset" THEN "full" ELSE req.membership) \in Memberships
  BY DEF Requests, Memberships
<1>6. CASE req.op = "CreatePartition" /\ Listed(req.members) # {}
  <2>1. PICK u : u = UfmRequest("POST pkeys", req)
    OBVIOUS
  <2>2. u \in UfmRequests /\ u.pkey = req.pkey
    BY <2>1, PlainRequest DEF UfmMethodNames
  <2>3. Translated(req) = [u EXCEPT !.members = Membership(req.members)]
    BY <1>6, <2>1 DEF Translated
  <2> QED
    BY <1>2, <2>2, <2>3 DEF UfmRequests
<1>7. CASE req.op = "CreatePartition" /\ Listed(req.members) = {}
  <2>1. PICK u : u = UfmRequest("POST pkeys/add", req)
    OBVIOUS
  <2>2. u \in UfmRequests /\ u.pkey = req.pkey
    BY <2>1, PlainRequest DEF UfmMethodNames
  <2>3. Translated(req) = [u EXCEPT !.qos = req.qos]
    BY <1>7, <2>1 DEF Translated
  <2> QED
    BY <1>3, <2>2, <2>3 DEF UfmRequests
<1>8. CASE req.op = "DeletePartition"
  <2>1. PICK u : u = UfmRequest("DELETE pkey", req)
    OBVIOUS
  <2>2. u \in UfmRequests /\ u.pkey = req.pkey
    BY <2>1, PlainRequest DEF UfmMethodNames
  <2>3. Translated(req) = u
    BY <1>8, <2>1 DEF Translated
  <2> QED
    BY <2>2, <2>3 DEF UfmRequests
<1>9. CASE req.op = "GetPartition"
  <2>1. PICK u : u = UfmRequest("GET pkey", req)
    OBVIOUS
  <2>2. u \in UfmRequests /\ u.pkey = req.pkey
    BY <2>1, PlainRequest DEF UfmMethodNames
  <2>3. Translated(req) = [u EXCEPT !.guidsData = "members" \in req.include]
    BY <1>9, <2>1 DEF Translated
  <2>4. ASSUME NEW b \in BOOLEAN, NEW v, v = [u EXCEPT !.guidsData = b]
        PROVE  v \in UfmRequests /\ v.pkey = req.pkey
    BY <2>2, <2>4 DEF UfmRequests
  <2>5. ("members" \in req.include) \in BOOLEAN
    OBVIOUS
  <2> QED
    BY <2>3, <2>4, <2>5, Zenon
<1>10. CASE req.op = "ListPartitionMembers"
  <2>1. PICK u : u = UfmRequest("GET pkey", req)
    OBVIOUS
  <2>2. u \in UfmRequests /\ u.pkey = req.pkey
    BY <2>1, PlainRequest DEF UfmMethodNames
  <2>3. Translated(req) = [u EXCEPT !.guidsData = TRUE]
    BY <1>10, <2>1 DEF Translated
  <2> QED
    BY <2>2, <2>3 DEF UfmRequests
<1>11. CASE req.op = "ReplacePartition"
  <2>1. PICK u : u = UfmRequest("PUT pkeys", req)
    OBVIOUS
  <2>2. u \in UfmRequests /\ u.pkey = req.pkey
    BY <2>1, PlainRequest DEF UfmMethodNames
  <2>3. Translated(req) = [u EXCEPT !.members = Membership(req.members), !.qos = req.qos]
    BY <1>11, <2>1 DEF Translated
  <2> QED
    BY <1>2, <1>3, <2>2, <2>3 DEF UfmRequests
<1>12. CASE req.op = "AddPartitionMembers"
  <2>1. PICK u : u = UfmRequest("POST pkeys", req)
    OBVIOUS
  <2>2. u \in UfmRequests /\ u.pkey = req.pkey
    BY <2>1, PlainRequest DEF UfmMethodNames
  <2>3. Translated(req) = [u EXCEPT !.members = Membership(req.members)]
    BY <1>12, <2>1 DEF Translated
  <2> QED
    BY <1>2, <2>2, <2>3 DEF UfmRequests
<1>13. CASE req.op = "RemovePartitionMembers"
  <2>1. PICK u : u = UfmRequest("DELETE pkey/guids", req)
    OBVIOUS
  <2>2. u \in UfmRequests /\ u.pkey = req.pkey
    BY <2>1, PlainRequest DEF UfmMethodNames
  <2>3. Translated(req) = [u EXCEPT !.guids = req.guids]
    BY <1>13, <2>1 DEF Translated
  <2> QED
    BY <1>4, <2>2, <2>3 DEF UfmRequests
<1>14. CASE req.op = "AddPartitionHosts"
  <2>1. PICK u : u = UfmRequest("POST pkeys/hosts", req)
    OBVIOUS
  <2>2. u \in UfmRequests /\ u.pkey = req.pkey
    BY <2>1, PlainRequest DEF UfmMethodNames
  <2>3. Translated(req) = [u EXCEPT !.hosts = req.hosts,
          !.membership = IF req.membership = "unset" THEN "full" ELSE req.membership]
    BY <1>14, <2>1 DEF Translated
  <2> QED
    BY <1>4, <1>5, <2>2, <2>3 DEF UfmRequests
<1>15. CASE req.op = "RemovePartitionHosts"
  <2>1. PICK u : u = UfmRequest("DELETE pkey/hosts", req)
    OBVIOUS
  <2>2. u \in UfmRequests /\ u.pkey = req.pkey
    BY <2>1, PlainRequest DEF UfmMethodNames
  <2>3. Translated(req) = [u EXCEPT !.hosts = req.hosts]
    BY <1>15, <2>1 DEF Translated
  <2> QED
    BY <1>4, <2>2, <2>3 DEF UfmRequests
<1>16. CASE req.op = "UpdatePartitionQoS"
  <2>1. PICK u : u = UfmRequest("PUT qos_conf", req)
    OBVIOUS
  <2>2. u \in UfmRequests /\ u.pkey = req.pkey
    BY <2>1, PlainRequest DEF UfmMethodNames
  <2>3. Translated(req) = [u EXCEPT !.qos = ZeroUnlessGiven(req.qos)]
    BY <1>16, <2>1 DEF Translated
  <2> QED
    BY <1>3, <2>2, <2>3 DEF UfmRequests
<1>17. CASE req.op = "UpdatePartitionSHARP"
  <2>1. PICK u : u = UfmRequest("PUT sharp-reservation", req)
    OBVIOUS
  <2>2. u \in UfmRequests /\ u.pkey = req.pkey
    BY <2>1, PlainRequest DEF UfmMethodNames
  <2>3. Translated(req) = [u EXCEPT !.enable = req.enabled]
    BY <1>17, <2>1 DEF Translated
  <2> QED
    BY <1>4, <2>2, <2>3 DEF UfmRequests
<1> QED
  BY <1>1, <1>6, <1>7, <1>8, <1>9, <1>10, <1>11, <1>12, <1>13, <1>14, <1>15, <1>16, <1>17 DEF Operations, Reads

-----------------------------------------------------------------------------
(***************************************************************************)
(* Type correctness.                                                       *)
(***************************************************************************)
LEMMA ResponseType ==
  Silence \in Responses /\ \A s \in Nat : Response(s) \in Responses
BY DEF Silence, Response, Responses

LEMMA NoCallType == NoCall \in Calls
BY ResponseType, PlainTypes DEF NoCall, Calls, NoRequest, Statuses

CallType(k, count) ==
  /\ k \in Calls /\ k.number \in 0..count
  /\ k.pc # "idle" => k.number # 0 /\ k.req \in Inputs

HandlersType == call \in [Callers -> Calls] /\ \A c \in Callers : CallType(call[c], requests)

WireType(r, count) == r \in Wired /\ r.number \in 1..count /\ r.ufm = Translated(r.of)

UfmType ==
  /\ parts \in [Pkeys -> Partition]
  /\ hostJobs \subseteq HostJobs /\ \A j \in hostJobs : j.number \in 1..requests

LEMMA TypeParts ==
  TypeOK <=> /\ UfmType /\ HandlersType /\ \A r \in wire : WireType(r, requests)
             /\ load \in Loads /\ requests \in 0..load.requests
BY DEF TypeOK, UfmType, HandlersType, CallType, WireType

LEMMA TypePartsNext ==
  ASSUME UfmType', HandlersType', \A r \in wire' : WireType(r, requests'),
         load' \in Loads, requests' \in 0..load'.requests
  PROVE  TypeOK'
BY DEF TypeOK, UfmType, HandlersType, CallType, WireType

LEMMA LoadTypes ==
  ASSUME TypeOK
  PROVE  load.inputs \subseteq Inputs /\ load.requests \in 0..MaxRequests /\ requests \in Nat
<1>1. load \in [inputs : SUBSET Inputs, requests : 0..MaxRequests] /\ requests \in 0..load.requests
  BY LoadsAssumption DEF TypeOK
<1> QED
  BY <1>1

(* Changing one handler's state to another well-typed one.                 *)
LEMMA CallUpdate ==
  ASSUME HandlersType, requests' = requests, NEW c \in Callers, NEW k, CallType(k, requests),
         call' = [call EXCEPT ![c] = k]
  PROVE  HandlersType'
BY DEF HandlersType, CallType

(* An answer of UFM that reaches a handler leaves the handlers well typed. *)
LEMMA DeliverType ==
  ASSUME HandlersType, requests' = requests, NEW r, WireType(r, requests),
         NEW resp \in Responses, NEW shown \in Partition, Deliver(r, resp, shown)
  PROVE  HandlersType'
<1>1. r.caller \in Callers
  BY DEF WireType, Wired
<1>2. CASE call' = call
  BY <1>2 DEF HandlersType, CallType
<1>3. CASE /\ call[r.caller].pc = "sent"
           /\ call' = [call EXCEPT ![r.caller].pc = "answered", ![r.caller].resp = resp,
                                   ![r.caller].shown = shown]
  <2>1. PICK k : k = [call[r.caller] EXCEPT !.pc = "answered", !.resp = resp, !.shown = shown]
    OBVIOUS
  <2>2. CallType(k, requests)
    <3>1. CallType(call[r.caller], requests)
      BY <1>1 DEF HandlersType
    <3> QED
      BY <1>3, <2>1, <3>1 DEF CallType, Calls
  <2>3. call' = [call EXCEPT ![r.caller] = k]
    BY <1>3, <2>1
  <2> QED
    BY <1>1, <2>2, <2>3, CallUpdate
<1> QED
  BY <1>2, <1>3 DEF Deliver, Awaited

-----------------------------------------------------------------------------
(***************************************************************************)
(* PartitionService describes its data in the words of PartitionData, as   *)
(* the handlers do.                                                        *)
(***************************************************************************)
LEMMA ServiceData ==
  /\ Service!Absent = Absent /\ Service!NoMembers = NoMembers /\ Service!NoQos = NoQos
  /\ Service!DefaultQos = DefaultQos /\ Service!Reads = Reads /\ Service!QosFields = QosFields
  /\ \A m : Service!Listed(m) = Listed(m) /\ Service!FullUnlessGiven(m) = FullUnlessGiven(m)
  /\ \A m, n : Service!Joined(m, n) = Joined(m, n)
  /\ \A m, guids : Service!Without(m, guids) = Without(m, guids)
  /\ \A q, s : Service!Overlaid(q, s) = Overlaid(q, s)
  /\ \A hosts : Service!PortsOfAll(hosts) = PortsOfAll(hosts)
BY DEF Service!Absent, Absent, Service!NoMembers, NoMembers, Service!NoQos, NoQos, Service!Unset,
       Unset, Service!DefaultQos, DefaultQos, Service!Reads, Reads, Service!QosFields, QosFields,
       Service!Listed, Listed, Service!FullUnlessGiven, FullUnlessGiven, Service!Joined, Joined,
       Service!Without, Without, Service!Overlaid, Overlaid, Service!PortsOfAll, PortsOfAll

-----------------------------------------------------------------------------
(***************************************************************************)
(* What UFM does with a translated request is an effect of the operation.  *)
(***************************************************************************)
LEMMA TranslatedBy ==
  ASSUME NEW req \in Requests, NEW u, u = Translated(req)
  PROVE  /\ u.call = "POST pkeys/add" =>
              req.op = "CreatePartition" /\ Listed(req.members) = {} /\ u.qos = req.qos
         /\ u.call = "POST pkeys" =>
              /\ req.op = "AddPartitionMembers"
                   \/ (req.op = "CreatePartition" /\ Listed(req.members) # {})
              /\ u.members = FullUnlessGiven(req.members)
         /\ u.call = "GET pkey" => req.op \in Reads
         /\ req.op = "GetPartition" => u.guidsData = ("members" \in req.include)
         /\ req.op = "ListPartitionMembers" => u.guidsData = TRUE
         /\ u.call = "DELETE pkey" => req.op = "DeletePartition"
         /\ u.call = "PUT pkeys" =>
              req.op = "ReplacePartition" /\ u.members = FullUnlessGiven(req.members) /\ u.qos = req.qos
         /\ u.call = "DELETE pkey/guids" => req.op = "RemovePartitionMembers" /\ u.guids = req.guids
         /\ u.call = "DELETE pkey/hosts" => req.op = "RemovePartitionHosts" /\ u.hosts = req.hosts
         /\ u.call = "PUT qos_conf" => req.op = "UpdatePartitionQoS" /\ u.qos = ZeroUnlessGiven(req.qos)
         /\ u.call = "PUT sharp-reservation" =>
              req.op = "UpdatePartitionSHARP" /\ u.enable = req.enabled
         /\ u.call = "POST pkeys/hosts" =>
              /\ req.op = "AddPartitionHosts" /\ u.hosts = req.hosts
              /\ u.membership = IF req.membership = "unset" THEN "full" ELSE req.membership
<1>1. req.op \in Operations
  BY DEF Requests
<1>2. CASE req.op = "CreatePartition" /\ Listed(req.members) # {}
  BY <1>2 DEF Translated, UfmRequest, Membership
<1>3. CASE req.op = "CreatePartition" /\ Listed(req.members) = {}
  BY <1>3 DEF Translated, UfmRequest
<1>4. CASE req.op = "DeletePartition"
  BY <1>4 DEF Translated, UfmRequest
<1>5. CASE req.op = "GetPartition"
  BY <1>5 DEF Translated, UfmRequest, Reads
<1>6. CASE req.op = "ListPartitionMembers"
  BY <1>6 DEF Translated, UfmRequest, Reads
<1>7. CASE req.op = "ReplacePartition"
  BY <1>7 DEF Translated, UfmRequest, Membership
<1>8. CASE req.op = "AddPartitionMembers"
  BY <1>8 DEF Translated, UfmRequest, Membership
<1>9. CASE req.op = "RemovePartitionMembers"
  BY <1>9 DEF Translated, UfmRequest
<1>10. CASE req.op = "AddPartitionHosts"
  BY <1>10 DEF Translated, UfmRequest
<1>11. CASE req.op = "RemovePartitionHosts"
  BY <1>11 DEF Translated, UfmRequest
<1>12. CASE req.op = "UpdatePartitionQoS"
  BY <1>12 DEF Translated, UfmRequest
<1>13. CASE req.op = "UpdatePartitionSHARP"
  BY <1>13 DEF Translated, UfmRequest
<1> QED
  BY <1>1, <1>2, <1>3, <1>4, <1>5, <1>6, <1>7, <1>8, <1>9, <1>10, <1>11, <1>12, <1>13
     DEF Operations, Reads

(* Giving members that have no membership of their own the full one keeps  *)
(* them members.                                                           *)
LEMMA ListedFull ==
  ASSUME NEW m
  PROVE  Listed(FullUnlessGiven(m)) = Listed(m)
BY DEF Listed, FullUnlessGiven

LEMMA NobodyListed ==
  ASSUME NEW m \in MemberMaps, Listed(m) = {}
  PROVE  m = NoMembers
BY DEF MemberMaps, Listed, NoMembers

LEMMA JoinedNobody ==
  ASSUME NEW m \in MemberMaps
  PROVE  Joined(NoMembers, m) = m
BY DEF MemberMaps, Joined, NoMembers

LEMMA SamePartition ==
  ASSUME NEW p \in Partition, NEW q \in Partition, p.exists = q.exists, p.members = q.members,
         p.qos = q.qos, p.sharp = q.sharp
  PROVE  p = q
BY DEF Partition

LEMMA CreateEffect ==
  ASSUME NEW req \in Requests, NEW q \in Partition, req.op = "CreatePartition",
         Listed(req.members) = {}
  PROVE  /\ q.exists => [part |-> q, answer |-> "exists"] \in Service!Effects(req, q)
         /\ ~q.exists =>
              [part |-> [Absent EXCEPT !.exists = TRUE, !.qos = Overlaid(DefaultQos, req.qos)],
               answer |-> "done"] \in Service!Effects(req, q)
<1>1. NoMembers = FullUnlessGiven(req.members)
  <2>1. PICK m \in MemberMaps : m = FullUnlessGiven(req.members)
    BY MapTypes DEF Requests
  <2>2. Listed(m) = {}
    BY <2>1, ListedFull
  <2> QED
    BY <2>1, <2>2, NobodyListed
<1>2. Service!Effects(req, q) = Service!EffectsOfCreate(req, q)
  BY DEF Service!Effects
<1>3. CASE q.exists
  BY <1>2, <1>3 DEF Service!EffectsOfCreate
<1>4. CASE ~q.exists
  <2> PICK s \in QosMaps : s = Overlaid(DefaultQos, req.qos)
    BY MapTypes, PlainTypes DEF Requests, QosMaps
  <2>1. PICK p : p = [exists |-> TRUE, members |-> NoMembers, qos |-> s, sharp |-> FALSE]
    OBVIOUS
  <2>5. PICK n : n = [Absent EXCEPT !.exists = TRUE, !.qos = s]
    OBVIOUS
  <2>2. p = Service!NewPartition(req, Service!Overlaid(Service!DefaultQos, req.qos))
    BY <1>1, <2>1, ServiceData DEF Service!NewPartition, Service!NewMembers
  <2>3. Service!Made(p) \in Service!Effects(req, q)
    BY <1>2, <1>4, <2>2 DEF Service!EffectsOfCreate
  <2>4. n = p
    <3>1. p \in Partition
      BY <2>1, PlainTypes, PartitionParts
    <3>2. n \in Partition
      BY <2>5, PlainTypes, PartitionParts
    <3>3. /\ n.exists = p.exists /\ n.members = p.members
          /\ n.qos = p.qos /\ n.sharp = p.sharp
      BY <2>1, <2>5 DEF Absent
    <3> QED
      BY <3>1, <3>2, <3>3, SamePartition
  <2> QED
    BY <1>4, <2>3, <2>4, <2>5 DEF Service!Made
<1> QED
  BY <1>3, <1>4

LEMMA AddEffect ==
  ASSUME NEW req \in Requests, NEW q \in Partition,
         req.op = "AddPartitionMembers" \/ (req.op = "CreatePartition" /\ Listed(req.members) # {}),
         NEW base, base = IF q.exists THEN q ELSE [Absent EXCEPT !.exists = TRUE, !.qos = DefaultQos],
         NEW p, p = [base EXCEPT !.members = Joined(@, FullUnlessGiven(req.members))]
  PROVE  [part |-> p, answer |-> "done"] \in Service!Effects(req, q)
<1>1. PICK new \in MemberMaps : new = FullUnlessGiven(req.members)
  BY MapTypes DEF Requests
<1>2. p = IF q.exists THEN Service!WithNewMembers(req, q)
          ELSE Service!NewPartition(req, Service!DefaultQos)
  <2>1. CASE q.exists
    BY <2>1, ServiceData DEF Service!WithNewMembers, Service!NewMembers
  <2>2. CASE ~q.exists
    <3>1. p = [exists |-> TRUE, members |-> new, qos |-> DefaultQos, sharp |-> FALSE]
      BY <1>1, <2>2, JoinedNobody DEF Absent
    <3> QED
      BY <1>1, <2>2, <3>1, ServiceData DEF Service!NewPartition, Service!NewMembers
  <2> QED
    BY <2>1, <2>2
<1>3. CASE req.op = "AddPartitionMembers"
  <2>1. Service!Effects(req, q) = Service!EffectsOfAdd(req, q)
    BY <1>3 DEF Service!Effects
  <2> QED
    BY <1>2, <2>1 DEF Service!EffectsOfAdd, Service!Made
<1>4. CASE req.op = "CreatePartition" /\ Listed(req.members) # {}
  <2>1. Service!Effects(req, q) = Service!EffectsOfCreate(req, q)
    BY <1>4 DEF Service!Effects
  <2>2. Service!Listed(Service!NewMembers(req)) # {}
    BY <1>4, ListedFull, ServiceData DEF Service!NewMembers
  <2> QED
    BY <1>2, <2>1, <2>2 DEF Service!EffectsOfCreate, Service!Made
<1> QED
  BY <1>3, <1>4

(* The effects of the other operations on a partition that exists.         *)
LEMMA OtherEffect ==
  ASSUME NEW req, NEW q, q.exists, req.op \notin {"CreatePartition", "AddPartitionMembers"},
         NEW p \in Service!Becomes(req, q)
  PROVE  [part |-> p, answer |-> "done"] \in Service!Effects(req, q)
BY DEF Service!Effects, Service!Made

LEMMA ChangeEffect ==
  ASSUME NEW req \in Requests, NEW q \in Partition, q.exists, NEW u, u = Translated(req),
         u.call \in {"DELETE pkey", "PUT pkeys", "DELETE pkey/guids", "DELETE pkey/hosts",
                     "PUT qos_conf", "PUT sharp-reservation"}
  PROVE  [part |-> Changed(u, q), answer |-> "done"] \in Service!Effects(req, q)
<1> SUFFICES /\ req.op \notin {"CreatePartition", "AddPartitionMembers"}
             /\ Changed(u, q) \in Service!Becomes(req, q)
  BY OtherEffect
<1>1. CASE u.call = "DELETE pkey"
  <2>1. req.op = "DeletePartition"
    BY <1>1, TranslatedBy
  <2>2. Changed(u, q) = Absent
    BY <1>1, TranslatedBy DEF Changed
  <2>3. Service!Becomes(req, q) = {Service!Absent}
    BY <2>1 DEF Service!Becomes, Service!Reads
  <2> QED
    BY <2>1, <2>2, <2>3, ServiceData
<1>2. CASE u.call = "PUT pkeys"
  <2>1. req.op = "ReplacePartition"
    BY <1>2, TranslatedBy
  <2>2. Changed(u, q) = [q EXCEPT !.members = FullUnlessGiven(req.members),
                                    !.qos = Overlaid(@, req.qos)]
    BY <1>2, TranslatedBy DEF Changed
  <2>3. Service!Becomes(req, q) = {[q EXCEPT !.members = Service!NewMembers(req),
                                             !.qos = Service!Overlaid(@, req.qos)]}
    BY <2>1 DEF Service!Becomes, Service!Reads
  <2> QED
    BY <2>1, <2>2, <2>3, ServiceData DEF Service!NewMembers
<1>3. CASE u.call = "DELETE pkey/guids"
  <2>1. req.op = "RemovePartitionMembers"
    BY <1>3, TranslatedBy
  <2>2. Changed(u, q) = [q EXCEPT !.members = Without(@, req.guids)]
    BY <1>3, TranslatedBy DEF Changed
  <2>3. Service!Becomes(req, q) = {[q EXCEPT !.members = Service!Without(@, req.guids)]}
    BY <2>1 DEF Service!Becomes, Service!Reads
  <2> QED
    BY <2>1, <2>2, <2>3, ServiceData
<1>4. CASE u.call = "DELETE pkey/hosts"
  <2>1. req.op = "RemovePartitionHosts"
    BY <1>4, TranslatedBy
  <2>2. Changed(u, q) = [q EXCEPT !.members = Without(@, PortsOfAll(req.hosts))]
    BY <1>4, TranslatedBy DEF Changed
  <2>3. Service!Becomes(req, q) = {[q EXCEPT !.members =
                                     Service!Without(@, Service!PortsOfAll(req.hosts))]}
    BY <2>1 DEF Service!Becomes, Service!Reads
  <2> QED
    BY <2>1, <2>2, <2>3, ServiceData
<1>5. CASE u.call = "PUT sharp-reservation"
  <2>1. req.op = "UpdatePartitionSHARP"
    BY <1>5, TranslatedBy
  <2>2. Changed(u, q) = [q EXCEPT !.sharp = req.enabled]
    BY <1>5, TranslatedBy DEF Changed
  <2>3. Service!Becomes(req, q) = {[q EXCEPT !.sharp = req.enabled]}
    BY <2>1 DEF Service!Becomes, Service!Reads
  <2> QED
    BY <2>1, <2>2, <2>3, ServiceData
<1>6. CASE u.call = "PUT qos_conf"
  <2>1. req.op = "UpdatePartitionQoS" /\ u.qos = ZeroUnlessGiven(req.qos)
    BY <1>6, TranslatedBy
  <2>2. Changed(u, q) = [q EXCEPT !.qos = u.qos]
    BY <1>6 DEF Changed
  <2>3. u.qos = Overlaid([f \in QosFields |-> 0], req.qos)
    BY <2>1 DEF ZeroUnlessGiven, Overlaid
  <2>4. Service!Becomes(req, q) = Service!QosUpdates(req, q)
    BY <2>1 DEF Service!Becomes, Service!Reads
  <2>5. Changed(u, q) \in Service!QosUpdates(req, q)
    BY <2>2, <2>3, ServiceData DEF Service!QosUpdates
  <2> QED
    BY <2>1, <2>4, <2>5
<1> QED
  BY <1>1, <1>2, <1>3, <1>4, <1>5, <1>6

(* A request that makes nothing finds nothing where there is nothing.      *)
LEMMA MissingEffect ==
  ASSUME NEW req \in Requests, NEW q \in Partition, ~q.exists,
         req.op \notin {"CreatePartition", "AddPartitionMembers"}
  PROVE  [part |-> q, answer |-> "missing"] \in Service!Effects(req, q)
BY DEF Service!Effects

LEMMA NoEffect ==
  ASSUME NEW req \in Requests, NEW q \in Partition, q.exists,
         req.op \in Reads \cup {"AddPartitionHosts"}
  PROVE  [part |-> q, answer |-> "done"] \in Service!Effects(req, q)
<1>1. Service!Becomes(req, q) = {q}
  BY ServiceData DEF Service!Becomes, Reads
<1> QED
  BY <1>1, OtherEffect DEF Reads

-----------------------------------------------------------------------------
(***************************************************************************)
(* What a handler's answer says of its request.                            *)
(***************************************************************************)
Says(resp, op) == Meaning(Answered(resp, WantsResult(op), Success(op)))

LEMMA MeaningOf ==
  /\ \A s \in {200, 201, 202, 204} : Meaning(s) = "done"
  /\ Meaning(404) = "missing" /\ Meaning(409) = "exists" /\ Meaning(BadGateway) = "unclear"
  /\ \A s \in {400, 401, 403, 422} : Meaning(s) = "refused"
BY DEF Meaning, BadGateway, PassedOn

LEMMA SuccessType == \A op : Success(op) \in {200, 201, 202, 204}
BY DEF Success

(* A handler answers with its own status of success, or with one of        *)
(* handleUFMError.                                                         *)
LEMMA AnsweredType ==
  ASSUME NEW resp \in Responses, NEW wants \in BOOLEAN, NEW success
  PROVE  Answered(resp, wants, success) \in {success, BadGateway} \cup PassedOn
BY DEF Answered, handleUFMError

LEMMA WantsType == \A op : WantsResult(op) \in BOOLEAN
BY DEF WantsResult

LEMMA SaysOf ==
  ASSUME NEW op
  PROVE  /\ Says(Response(200), op) = "done"
         /\ Says(Response(404), op) = "missing"
         /\ Says(Response(409), op) = "exists"
         /\ Says(Silence, op) = "unclear"
<1>1. Answered(Response(200), WantsResult(op), Success(op)) = Success(op)
  BY DEF Answered, do, Response, NoError
<1>2. Answered(Response(404), WantsResult(op), Success(op)) = 404
  BY DEF Answered, do, Response, NoError, APIError, handleUFMError, PassedOn
<1>3. Answered(Response(409), WantsResult(op), Success(op)) = 409
  BY DEF Answered, do, Response, NoError, APIError, handleUFMError, PassedOn
<1>4. Answered(Silence, WantsResult(op), Success(op)) = BadGateway
  BY DEF Answered, do, Silence, NoError, OtherError, handleUFMError
<1> QED
  BY <1>1, <1>2, <1>3, <1>4, MeaningOf, SuccessType DEF Says

LEMMA SaysRefused ==
  ASSUME NEW op, NEW s \in Refusals
  PROVE  Response(s) \in Responses /\ Says(Response(s), op) \in {"refused", "unclear"}
<1>1. s \in 400..599 \ {404, 409}
  BY RefusalsAssumption
<1>2. Answered(Response(s), WantsResult(op), Success(op)) \in {400, 401, 403, 422, BadGateway}
  BY <1>1 DEF Answered, do, Response, NoError, APIError, handleUFMError, PassedOn
<1>3. Response(s) \in Responses
  BY <1>1, ResponseType
<1> QED
  BY <1>2, <1>3, MeaningOf DEF Says

(* An answer that cannot be decoded is as good as before, or no answer.    *)
LEMMA SaysUndecoded ==
  ASSUME NEW op, NEW resp \in Responses, resp.got
  PROVE  /\ [resp EXCEPT !.decodes = FALSE] \in Responses
         /\ Says([resp EXCEPT !.decodes = FALSE], op) \in {Says(resp, op), "unclear"}
<1>1. PICK bad : bad = [resp EXCEPT !.decodes = FALSE]
  OBVIOUS
<1>2. bad \in Responses /\ bad.got /\ bad.status = resp.status /\ bad.decodes = FALSE
  BY <1>1 DEF Responses
<1>3. do(bad, WantsResult(op)) \in {do(resp, WantsResult(op)), OtherError}
  BY <1>2 DEF do
<1>4. Answered(bad, WantsResult(op), Success(op)) \in
        {Answered(resp, WantsResult(op), Success(op)), BadGateway}
  BY <1>3 DEF Answered, OtherError, NoError, handleUFMError
<1>5. Says(bad, op) \in {Says(resp, op), "unclear"}
  BY <1>4, MeaningOf DEF Says
<1> QED
  BY <1>1, <1>2, <1>5

(* Only success says that a request is done.                               *)
LEMMA DoneIsSuccess ==
  ASSUME NEW op, NEW resp \in Responses
  PROVE  Says(resp, op) = "done" <=> Answered(resp, WantsResult(op), Success(op)) = Success(op)
<1>1. Answered(resp, WantsResult(op), Success(op)) \in {Success(op), BadGateway} \cup PassedOn
  BY AnsweredType, WantsType
<1>2. \A s \in {BadGateway} \cup PassedOn :
        Meaning(s) # "done" /\ s \notin {200, 201, 202, 204}
  BY MeaningOf DEF BadGateway, PassedOn
<1> QED
  BY <1>1, <1>2, SuccessType, MeaningOf DEF Says

-----------------------------------------------------------------------------
(***************************************************************************)
(* UFM carries out a request: part is what becomes of the partition, and   *)
(* the handler, should it get the answer, says so.                         *)
(***************************************************************************)
Fits(req, q, resp, shown, part) ==
  /\ resp \in Responses /\ shown \in Partition /\ part \in Partition
  /\ [part |-> part, answer |-> Says(resp, req.op)] \in Service!Effects(req, q)
  /\ shown \in Service!Views(q) /\ Service!MayShow(req, q, shown)
  /\ shown = Absent \/ Says(resp, req.op) = "done"

(* What UFM does with r is an effect of the request r stands for.          *)
CarriesOut(r) ==
  \E resp \in Responses, shown \in Partition, part \in Partition :
     /\ Fits(r.of, parts[r.of.pkey], resp, shown, part)
     /\ Service!Happens(r.of, r.number, part)
     /\ Deliver(r, resp, shown)

(* An operation that is no read shows nothing.                             *)
LEMMA ShowsNothing ==
  ASSUME NEW req, NEW q, req.op \notin Reads \/ ~q.exists
  PROVE  Absent \in Service!Views(q) /\ Service!MayShow(req, q, Absent)
BY ServiceData DEF Service!Views, Service!MayShow

LEMMA OtherHappens ==
  ASSUME NEW req, NEW number, NEW part, req.op # "AddPartitionHosts",
         parts' = [parts EXCEPT ![req.pkey] = part], hostJobs' = hostJobs
  PROVE  Service!Happens(req, number, part)
BY DEF Service!Happens

(* What is on the wire is a well-typed translation of a client's request.  *)
LEMMA WireRequest ==
  ASSUME TypeOK, NEW r \in wire
  PROVE  /\ r.of \in Requests /\ r.of \in Inputs /\ r.caller \in Callers /\ r.number \in 1..requests
         /\ r.ufm = Translated(r.of) /\ r.ufm \in UfmRequests /\ r.ufm.pkey = r.of.pkey
         /\ r.of.pkey \in Pkeys /\ parts[r.of.pkey] \in Partition
         /\ r = [caller |-> r.caller, number |-> r.number, of |-> r.of, ufm |-> r.ufm]
<1>1. r.of \in Inputs /\ r.caller \in Callers /\ r.number \in 1..requests /\ r.ufm = Translated(r.of)
  BY DEF TypeOK, Wired
<1>2. r.of \in Requests
  BY <1>1, InputsAssumption
<1>3. r.ufm \in UfmRequests /\ r.ufm.pkey = r.of.pkey
  BY <1>1, <1>2, TranslatedType
<1>4. r.of.pkey \in Pkeys
  BY <1>2 DEF Requests
<1>5. parts[r.of.pkey] \in Partition
  BY <1>4 DEF TypeOK
<1>6. r = [caller |-> r.caller, number |-> r.number, of |-> r.of, ufm |-> r.ufm]
  BY DEF TypeOK, Wired
<1> QED
  BY <1>1, <1>2, <1>3, <1>4, <1>5, <1>6

(* Storing a partition carries out a request whose effect that is.         *)
LEMMA StoreCarriesOut ==
  ASSUME TypeOK, NEW r \in wire, NEW part \in Partition, NEW status \in Nat,
         Store(r, part, status), r.of.op # "AddPartitionHosts",
         Fits(r.of, parts[r.of.pkey], Response(status), Absent, part)
  PROVE  CarriesOut(r)
<1>1. r.ufm.pkey = r.of.pkey
  BY WireRequest
<1>2. Response(status) \in Responses /\ Absent \in Partition
  BY ResponseType, PlainTypes
<1>3. Service!Happens(r.of, r.number, part)
  BY <1>1, OtherHappens DEF Store
<1> QED
  BY <1>2, <1>3 DEF CarriesOut, Store

LEMMA CreateCarriesOut ==
  ASSUME TypeOK, NEW r \in wire, UfmCreates(r)
  PROVE  CarriesOut(r)
<1>1. PICK req \in Requests : req = r.of
  BY WireRequest
<1>2. PICK q \in Partition : q = parts[req.pkey] /\ q = parts[r.ufm.pkey]
  BY <1>1, WireRequest
<1>3. r.ufm.call = "POST pkeys/add" /\ r.ufm = Translated(req)
  BY <1>1, WireRequest DEF UfmCreates
<1>4. req.op = "CreatePartition" /\ Listed(req.members) = {} /\ r.ufm.qos = req.qos
  BY <1>3, TranslatedBy
<1>5. CASE q.exists
  <2>1. Store(r, q, 409)
    BY <1>2, <1>5 DEF UfmCreates, Store
  <2>2. [part |-> q, answer |-> "exists"] \in Service!Effects(req, q)
    BY <1>4, <1>5, CreateEffect
  <2>3. Fits(req, q, Response(409), Absent, q)
    BY <1>4, <2>2, ResponseType, PlainTypes, SaysOf, ShowsNothing DEF Fits, Reads
  <2>4. Fits(r.of, parts[r.of.pkey], Response(409), Absent, q)
    BY <1>1, <1>2, <2>3
  <2>5. r.of.op # "AddPartitionHosts"
    BY <1>1, <1>4
  <2> QED
    BY <1>2, <2>1, <2>4, <2>5, StoreCarriesOut
<1>6. CASE ~q.exists
  <2>1. PICK part : part = [Absent EXCEPT !.exists = TRUE, !.qos = Overlaid(DefaultQos, req.qos)]
    OBVIOUS
  <2>2. part \in Partition
    <3>1. Overlaid(DefaultQos, req.qos) \in QosMaps
      BY MapTypes, PlainTypes DEF Requests, QosMaps
    <3> QED
      BY <2>1, <3>1, PlainTypes, PartitionParts
  <2>3. Store(r, part, 200)
    BY <1>2, <1>4, <1>6, <2>1 DEF UfmCreates, Store
  <2>4. [part |-> part, answer |-> "done"] \in Service!Effects(req, q)
    BY <1>4, <1>6, <2>1, CreateEffect
  <2>5. Fits(req, q, Response(200), Absent, part)
    BY <1>4, <2>2, <2>4, ResponseType, PlainTypes, SaysOf, ShowsNothing DEF Fits, Reads
  <2>6. Fits(r.of, parts[r.of.pkey], Response(200), Absent, part)
    BY <1>1, <1>2, <2>5
  <2>7. r.of.op # "AddPartitionHosts"
    BY <1>1, <1>4
  <2> QED
    BY <1>2, <2>2, <2>3, <2>6, <2>7, StoreCarriesOut
<1> QED
  BY <1>5, <1>6

LEMMA AddCarriesOut ==
  ASSUME TypeOK, NEW r \in wire, UfmAddsGuids(r)
  PROVE  CarriesOut(r)
<1>1. PICK req \in Requests : req = r.of
  BY WireRequest
<1>2. PICK q \in Partition : q = parts[req.pkey] /\ q = parts[r.ufm.pkey]
  BY <1>1, WireRequest
<1>3. r.ufm.call = "POST pkeys" /\ r.ufm = Translated(req)
  BY <1>1, WireRequest DEF UfmAddsGuids
<1>4. /\ req.op = "AddPartitionMembers" \/ (req.op = "CreatePartition" /\ Listed(req.members) # {})
      /\ r.ufm.members = FullUnlessGiven(req.members)
  BY <1>3, TranslatedBy
<1>5. PICK base : base = IF q.exists THEN q ELSE [Absent EXCEPT !.exists = TRUE, !.qos = DefaultQos]
  OBVIOUS
<1>6. PICK part : part = [base EXCEPT !.members = Joined(@, FullUnlessGiven(req.members))]
  OBVIOUS
<1>7. part \in Partition
  <2>1. base \in Partition
    BY <1>5, PlainTypes, PartitionParts
  <2>2. FullUnlessGiven(req.members) \in MemberMaps /\ base.members \in MemberMaps
    BY <2>1, MapTypes, PartitionParts DEF Requests
  <2>3. Joined(base.members, FullUnlessGiven(req.members)) \in MemberMaps
    BY <2>2, MapTypes
  <2> QED
    BY <1>6, <2>1, <2>3, PartitionParts
<1>8. Store(r, part, 200)
  BY <1>2, <1>4, <1>5, <1>6 DEF UfmAddsGuids, Store
<1>9. [part |-> part, answer |-> "done"] \in Service!Effects(req, q)
  BY <1>4, <1>5, <1>6, AddEffect
<1>10. Fits(req, q, Response(200), Absent, part)
  BY <1>4, <1>7, <1>9, ResponseType, PlainTypes, SaysOf, ShowsNothing DEF Fits, Reads
<1>11. Fits(r.of, parts[r.of.pkey], Response(200), Absent, part)
  BY <1>1, <1>2, <1>10
<1>12. r.of.op # "AddPartitionHosts"
  BY <1>1, <1>4
<1> QED
  BY <1>2, <1>7, <1>8, <1>11, <1>12, StoreCarriesOut

(* The changes UFM makes are partitions.                                   *)
LEMMA ChangedType ==
  ASSUME NEW u \in UfmRequests, NEW q \in Partition,
         u.call \in {"DELETE pkey", "PUT pkeys", "DELETE pkey/guids", "DELETE pkey/hosts",
                     "PUT qos_conf", "PUT sharp-reservation"}
  PROVE  Changed(u, q) \in Partition
<1>1. q.members \in MemberMaps /\ q.qos \in QosMaps
  BY PartitionParts
<1>2. u.members \in MemberMaps /\ u.qos \in QosMaps /\ u.enable \in BOOLEAN
  BY DEF UfmRequests
<1>3. CASE u.call = "DELETE pkey"
  BY <1>3, PlainTypes DEF Changed
<1>4. CASE u.call = "PUT pkeys"
  <2>1. Overlaid(q.qos, u.qos) \in QosMaps
    BY <1>1, <1>2, MapTypes
  <2>2. Changed(u, q) = [q EXCEPT !.members = u.members, !.qos = Overlaid(@, u.qos)]
    BY <1>4 DEF Changed
  <2> QED
    BY <1>2, <2>1, <2>2, PartitionParts
<1>5. CASE u.call \in {"DELETE pkey/guids", "DELETE pkey/hosts"}
  <2>1. Without(q.members, u.guids) \in MemberMaps
        /\ Without(q.members, PortsOfAll(u.hosts)) \in MemberMaps
    BY <1>1, MapTypes
  <2>2. \/ Changed(u, q) = [q EXCEPT !.members = Without(@, u.guids)]
        \/ Changed(u, q) = [q EXCEPT !.members = Without(@, PortsOfAll(u.hosts))]
    BY <1>5 DEF Changed
  <2> QED
    BY <2>1, <2>2, PartitionParts
<1>6. CASE u.call = "PUT qos_conf"
  <2>1. Changed(u, q) = [q EXCEPT !.qos = u.qos]
    BY <1>6 DEF Changed
  <2> QED
    BY <1>2, <2>1, PartitionParts
<1>7. CASE u.call = "PUT sharp-reservation"
  <2>1. Changed(u, q) = [q EXCEPT !.sharp = u.enable]
    BY <1>7 DEF Changed
  <2> QED
    BY <1>2, <2>1, PartitionParts
<1> QED
  BY <1>3, <1>4, <1>5, <1>6, <1>7

LEMMA ChangeCarriesOut ==
  ASSUME TypeOK, NEW r \in wire, UfmChanges(r)
  PROVE  CarriesOut(r)
<1>1. PICK req \in Requests : req = r.of
  BY WireRequest
<1>2. PICK q \in Partition : q = parts[req.pkey] /\ q = parts[r.ufm.pkey]
  BY <1>1, WireRequest
<1>3. PICK u \in UfmRequests : u = r.ufm /\ u = Translated(req)
  BY <1>1, WireRequest
<1>4. u.call \in {"DELETE pkey", "PUT pkeys", "DELETE pkey/guids", "DELETE pkey/hosts",
                  "PUT qos_conf", "PUT sharp-reservation"}
  BY <1>3 DEF UfmChanges
<1>5. req.op \in {"DeletePartition", "ReplacePartition", "RemovePartitionMembers",
                  "RemovePartitionHosts", "UpdatePartitionQoS", "UpdatePartitionSHARP"}
  BY <1>3, <1>4, TranslatedBy
<1>6. CASE q.exists
  <2>1. PICK part \in Partition : part = Changed(u, q)
    BY <1>4, ChangedType
  <2>2. Store(r, part, 200)
    BY <1>2, <1>3, <1>6, <2>1 DEF UfmChanges, Store
  <2>3. [part |-> part, answer |-> "done"] \in Service!Effects(req, q)
    BY <1>3, <1>4, <1>6, <2>1, ChangeEffect
  <2>4. Fits(req, q, Response(200), Absent, part)
    BY <1>5, <2>3, ResponseType, PlainTypes, SaysOf, ShowsNothing DEF Fits, Reads
  <2>5. Fits(r.of, parts[r.of.pkey], Response(200), Absent, part)
    BY <1>1, <1>2, <2>4
  <2>6. r.of.op # "AddPartitionHosts"
    BY <1>1, <1>5
  <2> QED
    BY <1>2, <2>2, <2>5, <2>6, StoreCarriesOut
<1>7. CASE ~q.exists
  <2>1. Store(r, q, 404)
    BY <1>2, <1>7 DEF UfmChanges, Store
  <2>2. [part |-> q, answer |-> "missing"] \in Service!Effects(req, q)
    BY <1>5, <1>7, MissingEffect
  <2>3. Fits(req, q, Response(404), Absent, q)
    BY <1>5, <2>2, ResponseType, PlainTypes, SaysOf, ShowsNothing DEF Fits, Reads
  <2>4. Fits(r.of, parts[r.of.pkey], Response(404), Absent, q)
    BY <1>1, <1>2, <2>3
  <2>5. r.of.op # "AddPartitionHosts"
    BY <1>1, <1>5
  <2> QED
    BY <1>2, <2>1, <2>4, <2>5, StoreCarriesOut
<1> QED
  BY <1>6, <1>7

(* Leaving a partition as it is.                                           *)
LEMMA SameParts ==
  ASSUME TypeOK, NEW p \in Pkeys, parts' = parts
  PROVE  parts' = [parts EXCEPT ![p] = parts[p]]
BY DEF TypeOK

(* What UFM shows of a partition is a view of it.                          *)
LEMMA ShownView ==
  ASSUME NEW req \in Requests, NEW q \in Partition, q.exists, req.op \in Reads,
         NEW shown, shown = Translation(IF Translated(req).guidsData THEN q
                                        ELSE [q EXCEPT !.members = NoMembers])
  PROVE  shown \in Partition /\ shown \in Service!Views(q) /\ Service!MayShow(req, q, shown)
<1>0. PICK asked : asked = Translated(req).guidsData
  OBVIOUS
<1>1. PICK m \in MemberMaps : m = IF asked THEN q.members ELSE NoMembers
  BY PlainTypes, PartitionParts
<1>2. asked <=> req.op = "ListPartitionMembers" \/ "members" \in req.include
  BY <1>0, TranslatedBy DEF Reads
<1>9. PICK s : s = NoQos
  OBVIOUS
<1>3. PICK n : n = [q EXCEPT !.members = m, !.qos = s]
  OBVIOUS
<1>4. n \in Partition /\ n.exists = q.exists /\ n.sharp = q.sharp /\ n.members = m /\ n.qos = NoQos
  BY <1>3, <1>9, PlainTypes, PartitionParts
<1>5. shown \in Partition /\ shown.exists = q.exists /\ shown.sharp = q.sharp /\ shown.members = m
      /\ shown.qos = NoQos
  <2>1. CASE asked
    BY <1>0, <1>1, <2>1, PlainTypes, PartitionParts DEF Translation
  <2>2. CASE ~asked
    BY <1>0, <1>1, <2>2, PlainTypes, PartitionParts DEF Translation
  <2> QED
    BY <2>1, <2>2
<1>6. shown = n
  BY <1>4, <1>5, SamePartition
<1>7. shown \in Service!Views(q)
  <2>1. CASE asked
    <3>1. q.members = m
      BY <1>1, <2>1
    <3>2. n = [q EXCEPT !.qos = NoQos]
      <4>1. PICK v : v = [q EXCEPT !.qos = NoQos]
        OBVIOUS
      <4>2. /\ v \in Partition /\ v.exists = q.exists /\ v.sharp = q.sharp
            /\ v.members = m /\ v.qos = NoQos
        BY <3>1, <4>1, PlainTypes, PartitionParts
      <4> QED
        BY <1>4, <4>1, <4>2, SamePartition
    <3> QED
      BY <1>6, <3>2, ServiceData DEF Service!Views
  <2>2. CASE ~asked
    BY <1>1, <1>3, <1>6, <1>9, <2>2, ServiceData DEF Service!Views
  <2> QED
    BY <2>1, <2>2
<1>8. Service!MayShow(req, q, shown)
  BY <1>1, <1>2, <1>5, ServiceData DEF Service!MayShow
<1> QED
  BY <1>5, <1>7, <1>8

LEMMA ShowCarriesOut ==
  ASSUME TypeOK, NEW r \in wire, UfmShows(r)
  PROVE  CarriesOut(r)
<1>1. PICK req \in Requests : req = r.of
  BY WireRequest
<1>2. PICK q \in Partition : q = parts[req.pkey] /\ q = parts[r.ufm.pkey]
  BY <1>1, WireRequest
<1>3. r.ufm.call = "GET pkey" /\ r.ufm = Translated(req)
  BY <1>1, WireRequest DEF UfmShows
<1>4. req.op \in Reads
  BY <1>3, TranslatedBy
<1>5. Service!Happens(req, r.number, q)
  <2>1. parts' = [parts EXCEPT ![req.pkey] = q] /\ hostJobs' = hostJobs
    BY <1>1, <1>2, SameParts, WireRequest DEF UfmShows
  <2> QED
    BY <1>4, <2>1, OtherHappens DEF Reads
<1>6. CASE q.exists
  <2>2. PICK shown : shown = Translation(IF Translated(req).guidsData THEN q
                                          ELSE [q EXCEPT !.members = NoMembers])
    OBVIOUS
  <2>1. shown = Translation(IF r.ufm.guidsData THEN parts[r.ufm.pkey]
                            ELSE [parts[r.ufm.pkey] EXCEPT !.members = NoMembers])
    BY <1>2, <1>3, <2>2
  <2>3. Deliver(r, Response(200), shown)
    BY <1>2, <1>6, <2>1 DEF UfmShows, Deliver, Awaited
  <2>4. shown \in Partition /\ shown \in Service!Views(q) /\ Service!MayShow(req, q, shown)
    BY <1>4, <1>6, <2>2, ShownView
  <2>5. [part |-> q, answer |-> "done"] \in Service!Effects(req, q)
    BY <1>4, <1>6, NoEffect
  <2>6. Fits(req, q, Response(200), shown, q)
    BY <2>4, <2>5, ResponseType, SaysOf DEF Fits
  <2> QED
    BY <1>1, <1>2, <1>5, <2>3, <2>4, <2>6, ResponseType DEF CarriesOut
<1>7. CASE ~q.exists
  <2>1. Deliver(r, Response(404), Absent)
    BY <1>2, <1>7 DEF UfmShows
  <2>2. [part |-> q, answer |-> "missing"] \in Service!Effects(req, q)
    BY <1>4, <1>7, MissingEffect DEF Reads
  <2>3. Fits(req, q, Response(404), Absent, q)
    BY <1>7, <2>2, ResponseType, SaysOf, ShowsNothing, PlainTypes DEF Fits
  <2> QED
    BY <1>1, <1>2, <1>5, <2>1, <2>3, ResponseType, PlainTypes DEF CarriesOut
<1> QED
  BY <1>6, <1>7

LEMMA HostsCarriesOut ==
  ASSUME TypeOK, NEW r \in wire, UfmAcceptsHosts(r)
  PROVE  CarriesOut(r)
<1>1. PICK req \in Requests : req = r.of
  BY WireRequest
<1>2. PICK q \in Partition : q = parts[req.pkey] /\ q = parts[r.ufm.pkey]
  BY <1>1, WireRequest
<1>3. r.ufm.call = "POST pkeys/hosts" /\ r.ufm = Translated(req) /\ r.ufm.pkey = req.pkey
  BY <1>1, WireRequest DEF UfmAcceptsHosts
<1>4. /\ req.op = "AddPartitionHosts" /\ r.ufm.hosts = req.hosts
      /\ r.ufm.membership = IF req.membership = "unset" THEN "full" ELSE req.membership
  BY <1>3, TranslatedBy
<1>5. parts' = [parts EXCEPT ![req.pkey] = q]
  BY <1>1, <1>2, SameParts, WireRequest DEF UfmAcceptsHosts
<1>6. CASE q.exists
  <2>1. Deliver(r, Response(200), Absent)
    BY <1>2, <1>6 DEF UfmAcceptsHosts, Deliver, Awaited
  <2>2. hostJobs' = hostJobs \cup {Service!HostJob(r.number, req)}
    BY <1>2, <1>3, <1>4, <1>6 DEF UfmAcceptsHosts, Service!HostJob
  <2>3. Service!Happens(req, r.number, q)
    BY <1>2, <1>4, <1>5, <1>6, <2>2 DEF Service!Happens
  <2>4. [part |-> q, answer |-> "done"] \in Service!Effects(req, q)
    BY <1>4, <1>6, NoEffect
  <2>5. Fits(req, q, Response(200), Absent, q)
    BY <1>4, <2>4, ResponseType, SaysOf, ShowsNothing, PlainTypes DEF Fits, Reads
  <2> QED
    BY <1>1, <1>2, <2>1, <2>3, <2>5, ResponseType, PlainTypes DEF CarriesOut
<1>7. CASE ~q.exists
  <2>1. Deliver(r, Response(404), Absent)
    BY <1>2, <1>7 DEF UfmAcceptsHosts, Deliver, Awaited
  <2>2. Service!Happens(req, r.number, q)
    BY <1>2, <1>5, <1>7 DEF Service!Happens, UfmAcceptsHosts
  <2>3. [part |-> q, answer |-> "missing"] \in Service!Effects(req, q)
    BY <1>4, <1>7, MissingEffect
  <2>4. Fits(req, q, Response(404), Absent, q)
    BY <1>7, <2>3, ResponseType, SaysOf, ShowsNothing, PlainTypes DEF Fits
  <2> QED
    BY <1>1, <1>2, <2>1, <2>2, <2>4, ResponseType, PlainTypes DEF CarriesOut
<1> QED
  BY <1>6, <1>7

(* UFM carries out a request of the wire, or it refuses it.                *)
LEMMA UfmOutcome ==
  ASSUME TypeOK, NEW r \in wire, UfmHandles(r)
  PROVE  CarriesOut(r) \/ UfmRefuses(r)
BY CreateCarriesOut, AddCarriesOut, ChangeCarriesOut, ShowCarriesOut, HostsCarriesOut DEF UfmHandles

-----------------------------------------------------------------------------
(***************************************************************************)
(* Type correctness, step by step.                                         *)
(***************************************************************************)
LEMMA HeldTypes == parts \in [Pkeys -> Held] => parts \in [Pkeys -> Partition]
BY PartitionAssumption

LEMMA TypeInit == Init => TypeOK
<1> SUFFICES ASSUME Init PROVE TypeOK
  OBVIOUS
<1>1. UfmType
  BY HeldTypes DEF Init, UfmType
<1>2. HandlersType
  <2>1. \A c \in Callers : call[c] = NoCall
    BY DEF Init
  <2>2. NoCall.pc = "idle" /\ NoCall.number = 0
    BY DEF NoCall
  <2> QED
    BY <2>1, <2>2, NoCallType DEF Init, HandlersType, CallType
<1>3. load \in Loads /\ requests \in 0..load.requests
  BY LoadsAssumption DEF Init
<1> QED
  BY <1>1, <1>2, <1>3, TypeParts DEF Init

(* A history that grows keeps the host jobs and the handlers well typed.   *)
LEMMA LaterCallType ==
  ASSUME NEW k, NEW count \in Nat, CallType(k, count)
  PROVE  CallType(k, count + 1)
BY DEF CallType

LEMMA TypeReceive ==
  ASSUME TypeOK, NEW c \in Callers, NEW req \in load.inputs, Receive(c, req)
  PROVE  TypeOK'
<1>1. /\ UfmType /\ HandlersType /\ \A r \in wire : WireType(r, requests)
      /\ load \in Loads /\ requests \in 0..load.requests
  BY TypeParts
<1>2. req \in Inputs /\ requests \in Nat /\ load.requests \in Nat
  BY LoadTypes
<1>3. requests' = requests + 1 /\ requests' \in 0..load.requests /\ load' = load
  BY <1>1, <1>2 DEF Receive
<1>4. UfmType'
  BY <1>1, <1>2, <1>3 DEF UfmType, Receive
<1>5. HandlersType'
  <2>1. PICK k : /\ call' = [call EXCEPT ![c] = k]
                 /\ k \in {[NoCall EXCEPT !.pc = "sent", !.number = requests + 1, !.req = req],
                           [NoCall EXCEPT !.pc = "replied", !.number = requests + 1, !.req = req,
                                          !.status = BadRequest]}
    BY DEF Receive
  <2>2. CallType(k, requests + 1)
    <3>1. NoCall \in Calls /\ BadRequest \in Statuses
      BY NoCallType DEF BadRequest, PassedOn, Statuses
    <3>2. k \in Calls
      <4>1. PICK n \in Nat : n = requests + 1
        BY <1>2
      <4>2. k = [NoCall EXCEPT !.pc = "sent", !.number = n, !.req = req]
            \/ k = [NoCall EXCEPT !.pc = "replied", !.number = n, !.req = req, !.status = BadRequest]
        BY <2>1, <4>1
      <4> QED
        BY <1>2, <3>1, <4>2 DEF Calls
    <3>3. k.number = requests + 1 /\ k.req = req
      BY <2>1, <3>1 DEF Calls
    <3> QED
      BY <1>2, <3>2, <3>3 DEF CallType
  <2>3. \A d \in Callers : CallType(call[d], requests + 1)
    BY <1>1, <1>2, LaterCallType DEF HandlersType
  <2>4. call' \in [Callers -> Calls]
    BY <1>1, <2>1, <2>2 DEF HandlersType, CallType
  <2>5. \A d \in Callers : CallType(call'[d], requests')
    BY <1>1, <1>3, <2>1, <2>2, <2>3 DEF HandlersType
  <2> QED
    BY <2>4, <2>5 DEF HandlersType
<1>6. \A r \in wire' : WireType(r, requests')
  <2>1. \A r \in wire : WireType(r, requests')
    BY <1>1, <1>2, <1>3 DEF WireType
  <2>2. PICK new : new = [caller |-> c, number |-> requests + 1, of |-> req, ufm |-> Translated(req)]
    OBVIOUS
  <2>3. WireType(new, requests')
    BY <1>2, <1>3, <2>2 DEF WireType, Wired
  <2>4. wire' = wire \cup {new} \/ wire' = wire
    BY <2>2 DEF Receive
  <2> QED
    BY <2>1, <2>3, <2>4
<1> QED
  BY <1>1, <1>3, <1>4, <1>5, <1>6, TypePartsNext

(* The status of an answer is one of the facade's.                         *)
LEMMA StatusType ==
  ASSUME NEW resp \in Responses, NEW op
  PROVE  Answered(resp, WantsResult(op), Success(op)) \in Statuses
BY AnsweredType, WantsType, SuccessType DEF Statuses

(* The state of a handler after it gives up, or after it answers.          *)
GivenUp(k) == [k EXCEPT !.pc = "answered", !.resp = Silence, !.shown = Absent]

Undecoded(k) == [k EXCEPT !.resp.decodes = FALSE]

Replied(k) ==
  LET status == Answered(k.resp, WantsResult(k.req.op), Success(k.req.op))
  IN [k EXCEPT !.pc = "replied", !.status = status, !.resp = Silence,
               !.shown = IF status = Success(k.req.op) THEN k.shown ELSE Absent]

LEMMA HandlerSteps ==
  ASSUME NEW c \in Callers, HandlersType
  PROVE  /\ GiveUp(c) => \/ call' = [call EXCEPT ![c] = GivenUp(call[c])]
                         \/ /\ call[c].pc = "answered" /\ call[c].resp.got
                            /\ call' = [call EXCEPT ![c] = Undecoded(call[c])]
         /\ Reply(c) => call' = [call EXCEPT ![c] = Replied(call[c])]
<1>1. GiveUp(c) => \/ call' = [call EXCEPT ![c] = GivenUp(call[c])]
                   \/ /\ call[c].pc = "answered" /\ call[c].resp.got
                      /\ call' = [call EXCEPT ![c] = Undecoded(call[c])]
  BY DEF GiveUp, GivenUp, Undecoded
<1>2. Reply(c) => call' = [call EXCEPT ![c] = Replied(call[c])]
  BY DEF Reply, Replied
<1> QED
  BY <1>1, <1>2

LEMMA HandlerStates ==
  ASSUME NEW count, NEW k, CallType(k, count), k.pc \in {"sent", "answered"}
  PROVE  /\ CallType(GivenUp(k), count)
         /\ k.pc = "answered" => CallType(Undecoded(k), count)
         /\ CallType(Replied(k), count)
<1>1. k \in Calls /\ k.number \in 0..count /\ k.number # 0 /\ k.req \in Inputs
  BY DEF CallType
<1>2. CallType(GivenUp(k), count)
  BY <1>1, ResponseType, PlainTypes DEF CallType, GivenUp, Calls
<1>3. ASSUME k.pc = "answered" PROVE CallType(Undecoded(k), count)
  <2>1. PICK resp \in Responses : resp = [k.resp EXCEPT !.decodes = FALSE]
    BY <1>1 DEF Calls, Responses
  <2>2. Undecoded(k) = [k EXCEPT !.resp = resp]
    BY <2>1 DEF Undecoded
  <2> QED
    BY <1>1, <1>3, <2>2 DEF CallType, Calls
<1>4. CallType(Replied(k), count)
  <2>1. PICK status \in Statuses :
          status = Answered(k.resp, WantsResult(k.req.op), Success(k.req.op))
    BY <1>1, StatusType DEF Calls
  <2>2. PICK shown \in Partition : shown = IF status = Success(k.req.op) THEN k.shown ELSE Absent
    BY <1>1, PlainTypes DEF Calls
  <2>3. Replied(k) = [k EXCEPT !.pc = "replied", !.status = status, !.resp = Silence, !.shown = shown]
    BY <2>1, <2>2 DEF Replied
  <2>4. Replied(k) \in Calls
    BY <1>1, <2>3, ResponseType DEF Calls
  <2>5. Replied(k).number = k.number /\ Replied(k).req = k.req
    BY <1>1, <2>3 DEF Calls
  <2> QED
    BY <1>1, <2>4, <2>5 DEF CallType
<1> QED
  BY <1>2, <1>3, <1>4

LEMMA TypeHandler ==
  ASSUME TypeOK, NEW c \in Callers, GiveUp(c) \/ Reply(c)
  PROVE  TypeOK'
<1>1. /\ UfmType /\ HandlersType /\ \A r \in wire : WireType(r, requests)
      /\ load \in Loads /\ requests \in 0..load.requests
  BY TypeParts
<1>2. /\ parts' = parts /\ hostJobs' = hostJobs /\ wire' = wire /\ requests' = requests
      /\ load' = load /\ call[c].pc \in {"sent", "answered"}
  BY DEF GiveUp, Reply
<1>3. CallType(call[c], requests)
  BY <1>1 DEF HandlersType
<1>4. PICK k : call' = [call EXCEPT ![c] = k] /\ CallType(k, requests)
  BY <1>1, <1>2, <1>3, HandlerSteps, HandlerStates
<1>5. HandlersType'
  BY <1>1, <1>2, <1>4, CallUpdate
<1> QED
  BY <1>1, <1>2, <1>5, TypePartsNext DEF UfmType

LEMMA TypeUfmHandles ==
  ASSUME TypeOK, NEW r \in wire, UfmHandles(r)
  PROVE  TypeOK'
<1>1. /\ UfmType /\ HandlersType /\ \A s \in wire : WireType(s, requests)
      /\ load \in Loads /\ requests \in 0..load.requests
  BY TypeParts
<1>2. wire' = wire \ {r} /\ requests' = requests /\ load' = load
  BY DEF UfmHandles
<1>3. CASE CarriesOut(r)
  <2>1. PICK resp \in Responses, shown \in Partition, part \in Partition :
          Service!Happens(r.of, r.number, part) /\ Deliver(r, resp, shown)
    BY <1>3 DEF CarriesOut
  <2>2. HandlersType'
    BY <1>1, <1>2, <2>1, DeliverType
  <2>3. r.of \in Requests /\ r.number \in 1..requests
    BY WireRequest
  <2>4. parts' \in [Pkeys -> Partition]
    BY <1>1, <2>1 DEF Service!Happens, UfmType
  <2>5. Service!HostJob(r.number, r.of) \in HostJobs /\ Service!HostJob(r.number, r.of).number = r.number
    <3>1. (IF r.of.membership = "unset" THEN "full" ELSE r.of.membership) \in Memberships
      BY <2>3 DEF Requests, Memberships
    <3>2. r.of.pkey \in Pkeys /\ r.of.hosts \subseteq Hosts /\ r.number \in Nat
      BY <2>3 DEF Requests
    <3> QED
      BY <3>1, <3>2 DEF Service!HostJob, HostJobs
  <2>6. hostJobs' \subseteq hostJobs \cup {Service!HostJob(r.number, r.of)}
    BY <2>1 DEF Service!Happens
  <2>7. UfmType'
    BY <1>1, <1>2, <2>3, <2>4, <2>5, <2>6 DEF UfmType
  <2> QED
    BY <1>1, <1>2, <2>2, <2>7, TypePartsNext
<1>4. CASE UfmRefuses(r)
  <2>1. PICK s \in Refusals : Deliver(r, Response(s), Absent)
    BY <1>4 DEF UfmRefuses
  <2>2. HandlersType'
    BY <1>1, <1>2, <2>1, DeliverType, SaysRefused, PlainTypes
  <2> QED
    BY <1>1, <1>2, <1>4, <2>2, TypePartsNext DEF UfmRefuses, UfmType
<1> QED
  BY <1>3, <1>4, UfmOutcome

LEMMA TypeElse ==
  ASSUME TypeOK,
         \/ \E r \in wire : WireLoses(r)
         \/ \E j \in hostJobs : UfmEndsHostJob(j)
         \/ UNCHANGED vars
  PROVE  TypeOK'
<1>1. CASE \E r \in wire : WireLoses(r)
  BY <1>1 DEF WireLoses, TypeOK
<1>2. ASSUME NEW j \in hostJobs, UfmEndsHostJob(j) PROVE TypeOK'
  <2>1. j \in HostJobs
    BY DEF TypeOK
  <2>2. PICK m : m = [g \in Guids |-> IF g \in PortsOfAll(j.hosts) THEN j.membership
                                      ELSE parts[j.pkey].members[g]]
    OBVIOUS
  <2>3. parts[j.pkey] \in Partition
    BY <2>1 DEF TypeOK, HostJobs
  <2>4. m \in MemberMaps
    <3>1. parts[j.pkey].members \in MemberMaps
      BY <2>3, PartitionParts
    <3> QED
      BY <2>1, <2>2, <3>1 DEF MemberMaps, HostJobs
  <2>5. [parts[j.pkey] EXCEPT !.members = m] \in Partition
    BY <2>3, <2>4, PartitionParts
  <2>6. parts' \in {[parts EXCEPT ![j.pkey] = [parts[j.pkey] EXCEPT !.members = m]], parts}
    BY <1>2, <2>2 DEF UfmEndsHostJob
  <2>7. parts' \in [Pkeys -> Partition]
    BY <2>5, <2>6 DEF TypeOK
  <2> QED
    BY <1>2, <2>7 DEF UfmEndsHostJob, TypeOK
<1>3. CASE UNCHANGED vars
  BY <1>3 DEF vars, TypeOK
<1> QED
  BY <1>1, <1>2, <1>3

LEMMA TypeStep == TypeOK /\ [Next]_vars => TypeOK'
BY TypeReceive, TypeHandler, TypeUfmHandles, TypeElse DEF Next

(* The values the handlers and UFM compute stay within their types: UFM    *)
(* never holds a membership a client left out, and every status is one of  *)
(* the facade's.                                                           *)
THEOREM TypeCorrect == Spec => []TypeOK
BY TypeInit, TypeStep, PTL DEF Spec

-----------------------------------------------------------------------------
(***************************************************************************)
(* Every request of the wire is the only one of its number, and it is the  *)
(* request of the handler whose number it has.                             *)
(***************************************************************************)
WireInv ==
  /\ \A r, s \in wire : r.number = s.number => r = s
  /\ \A r \in wire, c \in Callers : r.number = call[c].number => r.caller = c /\ r.of = call[c].req

LEMMA WireInit == Init => WireInv
BY DEF Init, WireInv

(* No request is newer than the last one made.                             *)
LEMMA NumbersSoFar ==
  ASSUME TypeOK
  PROVE  /\ requests \in Nat
         /\ \A r \in wire : r.number \in Nat /\ r.number <= requests /\ r.number # 0
         /\ \A c \in Callers : call[c].number \in Nat /\ call[c].number <= requests
<1>1. requests \in Nat
  BY LoadTypes
<1> QED
  BY <1>1 DEF TypeOK

(* A step that neither adds requests nor changes what handlers are about.  *)
LEMMA WireKept ==
  ASSUME WireInv, wire' \subseteq wire,
         \A c \in Callers : call'[c].number = call[c].number /\ call'[c].req = call[c].req
  PROVE  WireInv'
BY DEF WireInv

LEMMA DeliverKeeps ==
  ASSUME TypeOK, NEW r, NEW resp, NEW shown, Deliver(r, resp, shown)
  PROVE  \A c \in Callers : call'[c].number = call[c].number /\ call'[c].req = call[c].req
<1>1. call \in [Callers -> Calls]
  BY DEF TypeOK
<1> QED
  BY <1>1 DEF Deliver, Calls

LEMMA HandlerKeeps ==
  ASSUME TypeOK, NEW c \in Callers, GiveUp(c) \/ Reply(c)
  PROVE  \A d \in Callers : call'[d].number = call[d].number /\ call'[d].req = call[d].req
<1>1. call \in [Callers -> Calls]
  BY DEF TypeOK
<1>2. HandlersType
  BY TypeParts
<1>3. PICK k \in {GivenUp(call[c]), Undecoded(call[c]), Replied(call[c])} :
         call' = [call EXCEPT ![c] = k]
  BY <1>2, HandlerSteps
<1>4. k.number = call[c].number /\ k.req = call[c].req
  BY <1>1, <1>3 DEF GivenUp, Undecoded, Replied, Calls
<1> QED
  BY <1>1, <1>3, <1>4

LEMMA WireReceive ==
  ASSUME TypeOK, WireInv, NEW c \in Callers, NEW req \in load.inputs, Receive(c, req)
  PROVE  WireInv'
<1>1. call \in [Callers -> Calls]
  BY DEF TypeOK
<1>2. PICK new : new = [caller |-> c, number |-> requests + 1, of |-> req, ufm |-> Translated(req)]
  OBVIOUS
<1>3. wire' = wire \/ wire' = wire \cup {new}
  BY <1>2 DEF Receive
<1>4. /\ call'[c].number = requests + 1 /\ call'[c].req = req
      /\ \A d \in Callers \ {c} : call'[d] = call[d]
  <2>1. PICK k : /\ call' = [call EXCEPT ![c] = k]
                 /\ k \in {[NoCall EXCEPT !.pc = "sent", !.number = requests + 1, !.req = req],
                           [NoCall EXCEPT !.pc = "replied", !.number = requests + 1, !.req = req,
                                          !.status = BadRequest]}
    BY DEF Receive
  <2>2. k.number = requests + 1 /\ k.req = req
    BY <2>1, NoCallType DEF Calls
  <2> QED
    BY <1>1, <2>1, <2>2
<1>5. \A r \in wire : r.number # requests + 1
  BY NumbersSoFar
<1>6. \A d \in Callers : call[d].number # requests + 1
  BY NumbersSoFar
<1>7. \A r, s \in wire' : r.number = s.number => r = s
  BY <1>2, <1>3, <1>5 DEF WireInv
<1>8. ASSUME NEW r \in wire', NEW d \in Callers, r.number = call'[d].number
      PROVE  r.caller = d /\ r.of = call'[d].req
  BY <1>2, <1>3, <1>4, <1>5, <1>6, <1>8 DEF WireInv
<1> QED
  BY <1>7, <1>8 DEF WireInv

LEMMA WireStep == TypeOK /\ WireInv /\ [Next]_vars => WireInv'
<1> SUFFICES ASSUME TypeOK, WireInv, [Next]_vars PROVE WireInv'
  OBVIOUS
<1>1. ASSUME NEW c \in Callers, GiveUp(c) \/ Reply(c) PROVE WireInv'
  <2>1. wire' = wire
    BY <1>1 DEF GiveUp, Reply
  <2> QED
    BY <1>1, <2>1, HandlerKeeps, WireKept
<1>2. ASSUME NEW r \in wire, UfmHandles(r) PROVE WireInv'
  <2>1. wire' \subseteq wire
    BY <1>2 DEF UfmHandles
  <2>2. \E resp, shown : Deliver(r, resp, shown)
    BY <1>2, UfmOutcome DEF CarriesOut, UfmRefuses
  <2> QED
    BY <2>1, <2>2, DeliverKeeps, WireKept
<1>3. ASSUME NEW r \in wire, WireLoses(r) PROVE WireInv'
  BY <1>3, WireKept DEF WireLoses
<1>4. ASSUME NEW j \in hostJobs, UfmEndsHostJob(j) PROVE WireInv'
  BY <1>4, WireKept DEF UfmEndsHostJob
<1>5. CASE UNCHANGED vars
  BY <1>5, WireKept DEF vars
<1> QED
  BY <1>1, <1>2, <1>3, <1>4, <1>5, WireReceive DEF Next

PartitionsInv == TypeOK /\ WireInv

(* The inductive invariant: with type correctness, that the requests of    *)
(* the wire are told apart by their numbers.  The refinement rests on it.  *)
THEOREM PartitionsInvCorrect == Spec => []PartitionsInv
<1>1. Init => PartitionsInv
  BY TypeInit, WireInit DEF PartitionsInv
<1>2. PartitionsInv /\ [Next]_vars => PartitionsInv'
  BY TypeStep, WireStep DEF PartitionsInv
<1> QED
  BY <1>1, <1>2, PTL DEF Spec

-----------------------------------------------------------------------------
(***************************************************************************)
(* The sessions and the late requests of PartitionService that the         *)
(* handlers and the wire stand for.                                        *)
(***************************************************************************)
Answers == {"none", "done", "missing", "exists", "unclear", "refused"}

SessionType ==
  [pc : {"idle", "waiting", "taken", "replied"}, number : Nat, req : Inputs \cup {NoRequest},
   answer : Answers, shown : Partition]

SessionAt(pc, k, answer, shown) ==
  [pc |-> pc, number |-> k.number, req |-> k.req, answer |-> answer, shown |-> shown]

Shows(answer, shown) == IF answer = "done" THEN shown ELSE Absent

LEMMA SameSession ==
  ASSUME NEW s \in SessionType, NEW t \in SessionType, s.pc = t.pc, s.number = t.number,
         s.req = t.req, s.answer = t.answer, s.shown = t.shown
  PROVE  s = t
BY DEF SessionType

LEMMA SessionAtType ==
  ASSUME NEW k \in Calls, NEW pc \in {"idle", "waiting", "taken", "replied"},
         NEW answer \in Answers, NEW shown \in Partition
  PROVE  SessionAt(pc, k, answer, shown) \in SessionType
BY DEF SessionAt, SessionType, Calls

LEMMA MeaningType == \A s \in Statuses : Meaning(s) \in Answers
<1>1. Meaning(0) \in Answers
  BY DEF Meaning, Answers
<1>2. \A s \in Statuses : s = 0 \/ s \in {200, 201, 202, 204} \/ s = BadGateway
                            \/ s = 404 \/ s = 409 \/ s \in {400, 401, 403, 422}
  BY DEF Statuses, PassedOn
<1> QED
  BY <1>1, <1>2, MeaningOf DEF Answers

LEMMA SaysType == \A resp \in Responses : \A op : Says(resp, op) \in Answers
BY StatusType, MeaningType DEF Says

LEMMA ShowsType ==
  ASSUME NEW shown \in Partition, NEW answer
  PROVE  Shows(answer, shown) \in Partition
BY PlainTypes DEF Shows

(* The session for a handler at each point of its work.                    *)
LEMMA SessionCases ==
  ASSUME NEW k \in Calls
  PROVE  /\ \A on : k.pc = "idle" => SessionFor(k, on) = SessionAt("idle", k, "none", Absent)
         /\ k.pc = "sent" => /\ SessionFor(k, TRUE) = SessionAt("waiting", k, "none", Absent)
                             /\ SessionFor(k, FALSE) = SessionAt("taken", k, "unclear", Absent)
         /\ \A on : k.pc = "answered" =>
              SessionFor(k, on) = SessionAt("taken", k, Says(k.resp, k.req.op),
                                            Shows(Says(k.resp, k.req.op), k.shown))
         /\ \A on : k.pc = "replied" =>
              SessionFor(k, on) = SessionAt("replied", k, Meaning(k.status),
                                            Shows(Meaning(k.status), k.shown))
<1>1. CASE k.pc = "idle"
  BY <1>1 DEF SessionFor, SessionAt
<1>2. CASE k.pc = "sent"
  BY <1>2 DEF SessionFor, SessionAt
<1>3. CASE k.pc = "answered"
  BY <1>3 DEF SessionFor, SessionAt, Says, Shows
<1>4. CASE k.pc = "replied"
  BY <1>4 DEF SessionFor, SessionAt, Shows
<1>5. k.pc \in {"idle", "sent", "answered", "replied"}
  BY DEF Calls
<1> QED
  BY <1>1, <1>2, <1>3, <1>4, <1>5

LEMMA SessionsUpdate ==
  ASSUME NEW c \in Callers, NEW s, SessionFor(call'[c], OnItsWay(c)') = s,
         \A d \in Callers \ {c} : SessionFor(call'[d], OnItsWay(d)') = SessionFor(call[d], OnItsWay(d))
  PROVE  Sessions' = [Sessions EXCEPT ![c] = s]
BY DEF Sessions

LEMMA SessionsKept ==
  ASSUME \A d \in Callers : SessionFor(call'[d], OnItsWay(d)') = SessionFor(call[d], OnItsWay(d))
  PROVE  Sessions' = Sessions
BY DEF Sessions

LEMMA SessionsAt == \A c \in Callers : Sessions[c] = SessionFor(call[c], OnItsWay(c))
BY DEF Sessions

LEMMA LateKept ==
  ASSUME Unawaited' = Unawaited
  PROVE  Late' = Late
BY DEF Late

LEMMA LateAdds ==
  ASSUME NEW r, Unawaited' = Unawaited \cup {r}
  PROVE  Late' = Late \cup {LateRequest(r)}
BY DEF Late

LEMMA LateDrops ==
  ASSUME WireInv, NEW r \in Unawaited, Unawaited' = Unawaited \ {r}
  PROVE  LateRequest(r) \in Late /\ Late' = Late \ {LateRequest(r)}
<1>1. \A w \in Unawaited : LateRequest(w) = LateRequest(r) => w = r
  BY DEF Unawaited, WireInv, LateRequest
<1> QED
  BY <1>1 DEF Late

(* Contact is lost with the handler of c.                                  *)
LEMMA LoseContactStep ==
  ASSUME NEW c \in Callers, NEW k \in Calls, NEW pc \in {"waiting", "taken"},
         NEW answer \in Answers, NEW shown \in Partition,
         Sessions[c] = SessionAt(pc, k, answer, shown),
         Sessions' = [Sessions EXCEPT ![c] = SessionAt("taken", k, "unclear", Absent)],
         \/ Late' = Late
         \/ pc = "waiting" /\ Late' = Late \cup {[number |-> k.number, req |-> k.req]},
         UNCHANGED <<parts, hostJobs, requests>>
  PROVE  Service!LoseContact(c)
<1>1. PICK s : s = SessionAt(pc, k, answer, shown)
  OBVIOUS
<1>2. s.pc = pc /\ s.number = k.number /\ s.req = k.req
  BY <1>1 DEF SessionAt
<1>3. [s EXCEPT !.pc = "taken", !.answer = "unclear", !.shown = Absent]
        = SessionAt("taken", k, "unclear", Absent)
  <2>1. PICK t : t = [s EXCEPT !.pc = "taken", !.answer = "unclear", !.shown = Absent]
    OBVIOUS
  <2>2. s \in SessionType
    BY <1>1, SessionAtType, PlainTypes DEF Answers
  <2>3. t \in SessionType
    BY <2>1, <2>2, PlainTypes DEF SessionType, Answers
  <2>4. t.pc = "taken" /\ t.number = k.number /\ t.req = k.req /\ t.answer = "unclear" /\ t.shown = Absent
    BY <1>1, <2>1, <2>2 DEF SessionType, SessionAt
  <2>5. PICK u \in SessionType : u = SessionAt("taken", k, "unclear", Absent)
    BY SessionAtType, PlainTypes DEF Answers
  <2>6. t = u
    BY <2>3, <2>4, <2>5, SameSession DEF SessionAt
  <2> QED
    BY <2>1, <2>5, <2>6
<1>4. Sessions' = [Sessions EXCEPT ![c].pc = "taken", ![c].answer = "unclear",
                                   ![c].shown = Service!Absent]
  <2>1. Sessions' = [Sessions EXCEPT ![c] =
                       [Sessions[c] EXCEPT !.pc = "taken", !.answer = "unclear", !.shown = Absent]]
    BY <1>1, <1>3
  <2> QED
    BY <2>1, ServiceData DEF Sessions
<1> QED
  BY <1>1, <1>2, <1>4 DEF Service!LoseContact

LEMMA ReplyStep ==
  ASSUME NEW c \in Callers, NEW k \in Calls, NEW answer \in Answers, NEW shown \in Partition,
         Sessions[c] = SessionAt("taken", k, answer, shown),
         Sessions' = [Sessions EXCEPT ![c] = SessionAt("replied", k, answer, shown)],
         UNCHANGED <<parts, Late, hostJobs, requests>>
  PROVE  Service!Reply(c)
<1>1. PICK s : s = SessionAt("taken", k, answer, shown)
  OBVIOUS
<1>2. s.pc = "taken"
  BY <1>1 DEF SessionAt
<1>3. [s EXCEPT !.pc = "replied"] = SessionAt("replied", k, answer, shown)
  <2>1. PICK t : t = [s EXCEPT !.pc = "replied"]
    OBVIOUS
  <2>2. s \in SessionType
    BY <1>1, SessionAtType, PlainTypes DEF Answers
  <2>3. t \in SessionType
    BY <2>1, <2>2, PlainTypes DEF SessionType, Answers
  <2>4. t.pc = "replied" /\ t.number = k.number /\ t.req = k.req /\ t.answer = answer /\ t.shown = shown
    BY <1>1, <2>1, <2>2 DEF SessionType, SessionAt
  <2>5. PICK u \in SessionType : u = SessionAt("replied", k, answer, shown)
    BY SessionAtType, PlainTypes DEF Answers
  <2>6. t = u
    BY <2>3, <2>4, <2>5, SameSession DEF SessionAt
  <2> QED
    BY <2>1, <2>5, <2>6
<1> QED
  BY <1>1, <1>2, <1>3 DEF Service!Reply, Sessions

LEMMA RefuseStep ==
  ASSUME NEW c \in Callers, NEW k \in Calls, NEW answer \in {"refused", "unclear"},
         Sessions[c] = SessionAt("waiting", k, "none", Absent),
         Sessions' = [Sessions EXCEPT ![c] = SessionAt("taken", k, answer, Absent)],
         UNCHANGED <<parts, Late, hostJobs, requests>>
  PROVE  Service!Refuse(c)
<1>1. PICK s : s = SessionAt("waiting", k, "none", Absent)
  OBVIOUS
<1>2. s.pc = "waiting"
  BY <1>1 DEF SessionAt
<1>3. [s EXCEPT !.pc = "taken", !.answer = answer] = SessionAt("taken", k, answer, Absent)
  <2>1. PICK t : t = [s EXCEPT !.pc = "taken", !.answer = answer]
    OBVIOUS
  <2>2. s \in SessionType
    BY <1>1, SessionAtType, PlainTypes DEF Answers
  <2>3. t \in SessionType
    BY <2>1, <2>2, PlainTypes DEF SessionType, Answers
  <2>4. t.pc = "taken" /\ t.number = k.number /\ t.req = k.req /\ t.answer = answer /\ t.shown = Absent
    BY <1>1, <2>1, <2>2 DEF SessionType, SessionAt
  <2>5. PICK u \in SessionType : u = SessionAt("taken", k, answer, Absent)
    BY SessionAtType, PlainTypes DEF Answers
  <2>6. t = u
    BY <2>3, <2>4, <2>5, SameSession DEF SessionAt
  <2> QED
    BY <2>1, <2>5, <2>6
<1>4. Sessions' = [Sessions EXCEPT ![c].pc = "taken", ![c].answer = answer]
  <2>1. Sessions' = [Sessions EXCEPT ![c] = [Sessions[c] EXCEPT !.pc = "taken", !.answer = answer]]
    BY <1>1, <1>3
  <2> QED
    BY <2>1 DEF Sessions
<1> QED
  BY <1>1, <1>2, <1>4 DEF Service!Refuse

LEMMA TakeEffectStep ==
  ASSUME NEW c \in Callers, NEW k \in Calls, NEW q, q = parts[k.req.pkey],
         NEW shown \in Partition, NEW part, NEW answer \in Answers,
         Sessions[c] = SessionAt("waiting", k, "none", Absent),
         Sessions' = [Sessions EXCEPT ![c] = SessionAt("taken", k, answer, shown)],
         UNCHANGED <<Late, requests>>,
         [part |-> part, answer |-> answer] \in Service!Effects(k.req, q),
         Service!Happens(k.req, k.number, part),
         shown \in Service!Views(q), Service!MayShow(k.req, q, shown)
  PROVE  Service!TakeEffect(c)
<1>1. PICK s : s = SessionAt("waiting", k, "none", Absent)
  OBVIOUS
<1>2. s.pc = "waiting" /\ s.number = k.number /\ s.req = k.req
  BY <1>1 DEF SessionAt
<1>3. [s EXCEPT !.pc = "taken", !.shown = shown, !.answer = answer]
        = SessionAt("taken", k, answer, shown)
  <2>1. PICK t : t = [s EXCEPT !.pc = "taken", !.shown = shown, !.answer = answer]
    OBVIOUS
  <2>2. s \in SessionType
    BY <1>1, SessionAtType, PlainTypes DEF Answers
  <2>3. t \in SessionType
    BY <2>1, <2>2, PlainTypes DEF SessionType, Answers
  <2>4. t.pc = "taken" /\ t.number = k.number /\ t.req = k.req /\ t.answer = answer /\ t.shown = shown
    BY <1>1, <2>1, <2>2 DEF SessionType, SessionAt
  <2>5. PICK u \in SessionType : u = SessionAt("taken", k, answer, shown)
    BY SessionAtType, PlainTypes DEF Answers
  <2>6. t = u
    BY <2>3, <2>4, <2>5, SameSession DEF SessionAt
  <2> QED
    BY <2>1, <2>5, <2>6
<1>4. Sessions' = [Sessions EXCEPT ![c].pc = "taken", ![c].shown = shown, ![c].answer = answer]
  <2>1. Sessions' = [Sessions EXCEPT ![c] =
                       [Sessions[c] EXCEPT !.pc = "taken", !.shown = shown, !.answer = answer]]
    BY <1>1, <1>3
  <2> QED
    BY <2>1 DEF Sessions
<1>5. PICK e \in Service!Effects(k.req, q) : e.part = part /\ e.answer = answer
  OBVIOUS
<1> QED
  BY <1>1, <1>2, <1>4, <1>5 DEF Service!TakeEffect, Service!Happens

-----------------------------------------------------------------------------
(***************************************************************************)
(* What a step leaves as it is.                                            *)
(***************************************************************************)
LEMMA SessionNow ==
  ASSUME NEW c \in Callers, NEW k \in Calls, k = call[c]
  PROVE  /\ k.pc = "idle" => Sessions[c] = SessionAt("idle", k, "none", Absent)
         /\ k.pc = "sent" /\ OnItsWay(c) => Sessions[c] = SessionAt("waiting", k, "none", Absent)
         /\ k.pc = "sent" /\ ~OnItsWay(c) => Sessions[c] = SessionAt("taken", k, "unclear", Absent)
         /\ k.pc = "answered" =>
              Sessions[c] = SessionAt("taken", k, Says(k.resp, k.req.op),
                                      Shows(Says(k.resp, k.req.op), k.shown))
         /\ k.pc = "replied" =>
              Sessions[c] = SessionAt("replied", k, Meaning(k.status), Shows(Meaning(k.status), k.shown))
<1>1. Sessions[c] = SessionFor(k, OnItsWay(c))
  BY SessionsAt
<1>2. OnItsWay(c) => Sessions[c] = SessionFor(k, TRUE)
  BY <1>1, Zenon
<1>3. ASSUME ~OnItsWay(c) PROVE Sessions[c] = SessionFor(k, FALSE)
  <2>1. OnItsWay(c) = FALSE
    BY <1>3 DEF OnItsWay
  <2> QED
    BY <1>1, <2>1, Zenon
<1> QED
  BY <1>2, <1>3, SessionCases

LEMMA SessionNext ==
  ASSUME NEW c \in Callers, NEW k \in Calls, k = call'[c],
         NEW s, s = SessionFor(call'[c], OnItsWay(c)')
  PROVE  /\ k.pc = "idle" => s = SessionAt("idle", k, "none", Absent)
         /\ k.pc = "sent" /\ OnItsWay(c)' => s = SessionAt("waiting", k, "none", Absent)
         /\ k.pc = "sent" /\ ~OnItsWay(c)' => s = SessionAt("taken", k, "unclear", Absent)
         /\ k.pc = "answered" =>
              s = SessionAt("taken", k, Says(k.resp, k.req.op),
                            Shows(Says(k.resp, k.req.op), k.shown))
         /\ k.pc = "replied" =>
              s = SessionAt("replied", k, Meaning(k.status), Shows(Meaning(k.status), k.shown))
<1>1. s = SessionFor(k, OnItsWay(c)')
  OBVIOUS
<1>2. OnItsWay(c)' => s = SessionFor(k, TRUE)
  BY <1>1, Zenon
<1>3. ASSUME ~OnItsWay(c)' PROVE s = SessionFor(k, FALSE)
  <2>1. OnItsWay(c)' = FALSE
    BY <1>3 DEF OnItsWay
  <2> QED
    BY <1>1, <2>1, Zenon
<1> QED
  BY <1>2, <1>3, SessionCases

StaysFor(d) ==
  call'[d] = call[d] /\ (call[d].pc = "sent" => (OnItsWay(d)' <=> OnItsWay(d)))

LEMMA SessionStays ==
  ASSUME TypeOK, NEW d \in Callers, StaysFor(d)
  PROVE  SessionFor(call'[d], OnItsWay(d)') = SessionFor(call[d], OnItsWay(d))
<1>1. PICK k \in Calls : k = call[d] /\ k = call'[d]
  BY DEF TypeOK, StaysFor
<1>2. PICK s : s = SessionFor(call'[d], OnItsWay(d)')
  OBVIOUS
<1>3. k.pc \in {"idle", "sent", "answered", "replied"}
  BY DEF Calls
<1>4. s = Sessions[d]
  <2>1. CASE k.pc = "sent" /\ OnItsWay(d)
    BY <1>1, <1>2, <2>1, SessionNow, SessionNext DEF StaysFor
  <2>2. CASE k.pc = "sent" /\ ~OnItsWay(d)
    BY <1>1, <1>2, <2>2, SessionNow, SessionNext DEF StaysFor
  <2>3. CASE k.pc # "sent"
    BY <1>1, <1>2, <1>3, <2>3, SessionNow, SessionNext
  <2> QED
    BY <2>1, <2>2, <2>3
<1> QED
  BY <1>2, <1>4, SessionsAt

LEMMA OthersStay ==
  ASSUME TypeOK, NEW c \in Callers, \A d \in Callers \ {c} : StaysFor(d),
         NEW s, s = SessionFor(call'[c], OnItsWay(c)')
  PROVE  Sessions' = [Sessions EXCEPT ![c] = s]
BY SessionStays, SessionsUpdate

LEMMA AllStay ==
  ASSUME TypeOK, \A d \in Callers : StaysFor(d)
  PROVE  Sessions' = Sessions
BY SessionStays, SessionsKept

LEMMA SameWire ==
  ASSUME NEW d \in Callers, wire' = wire, call'[d] = call[d]
  PROVE  StaysFor(d)
BY DEF StaysFor, OnItsWay

LEMMA WireWithout ==
  ASSUME NEW d \in Callers, NEW r \in wire, wire' = wire \ {r}, call'[d] = call[d],
         d # r.caller \/ call[d].pc # "sent" \/ call[d].number # r.number
  PROVE  StaysFor(d)
BY DEF StaysFor, OnItsWay

LEMMA WireWith ==
  ASSUME NEW d \in Callers, NEW r, wire' = wire \cup {r}, call'[d] = call[d], d # r.caller
  PROVE  StaysFor(d)
BY DEF StaysFor, OnItsWay

(* When a handler stops waiting, the request it waited for is late.        *)
LEMMA NoLongerAwaited ==
  ASSUME TypeOK, NEW c \in Callers, NEW k, call' = [call EXCEPT ![c] = k], wire' = wire,
         k.pc # "sent"
  PROVE  Unawaited' = Unawaited \cup {r \in wire : r.caller = c /\ Awaited(r)}
<1>1. call \in [Callers -> Calls]
  BY DEF TypeOK
<1>2. \A r \in wire : r.caller \in Callers
  BY WireRequest
<1>3. \A r \in wire : Awaited(r)' <=> Awaited(r) /\ r.caller # c
  BY <1>1, <1>2 DEF Awaited
<1> QED
  BY <1>3 DEF Unawaited

-----------------------------------------------------------------------------
(***************************************************************************)
(* Every step of the handlers, of the wire and of UFM is one of            *)
(* PartitionService, or leaves what it sees as it is.                      *)
(***************************************************************************)
SeesNothing == UNCHANGED <<parts, Sessions, Late, hostJobs, requests>>

LEMMA AwaitedOnItsWay ==
  ASSUME TypeOK, WireInv, NEW r \in wire
  PROVE  /\ Awaited(r) => OnItsWay(r.caller) /\ call[r.caller].pc = "sent"
         /\ Awaited(r) => call[r.caller].number = r.number /\ call[r.caller].req = r.of
         /\ \A w \in wire : w.caller = r.caller /\ Awaited(w) /\ Awaited(r) => w = r
<1>1. r.caller \in Callers
  BY WireRequest
<1>2. Awaited(r) => OnItsWay(r.caller) /\ call[r.caller].pc = "sent"
  BY DEF Awaited, OnItsWay
<1>3. Awaited(r) => call[r.caller].number = r.number /\ call[r.caller].req = r.of
  BY <1>1 DEF Awaited, WireInv
<1>4. \A w \in wire : w.caller = r.caller /\ Awaited(w) /\ Awaited(r) => w = r
  BY DEF Awaited, WireInv
<1> QED
  BY <1>2, <1>3, <1>4

(* A handler gives up, and its request may still arrive.                   *)
LEMMA GiveUpIsLoseContact ==
  ASSUME TypeOK, WireInv, NEW c \in Callers, GiveUp(c), call' = [call EXCEPT ![c] = GivenUp(call[c])]
  PROVE  Service!LoseContact(c)
<1>1. PICK k \in Calls : k = call[c]
  BY DEF TypeOK
<1>2. /\ k.pc \in {"sent", "answered"} /\ wire' = wire
      /\ parts' = parts /\ hostJobs' = hostJobs /\ requests' = requests
  BY <1>1 DEF GiveUp
<1>3. PICK k2 \in Calls : k2 = call'[c] /\ k2 = GivenUp(k)
  <2>1. GivenUp(k) \in Calls
    BY ResponseType, PlainTypes DEF GivenUp, Calls
  <2> QED
    BY <1>1, <2>1 DEF TypeOK
<1>4. k2.pc = "answered" /\ k2.resp = Silence /\ k2.shown = Absent /\ k2.number = k.number /\ k2.req = k.req
  BY <1>3 DEF GivenUp, Calls
<1>5. call' = [call EXCEPT ![c] = k2]
  BY <1>1, <1>3
<1>6. Sessions' = [Sessions EXCEPT ![c] = SessionAt("taken", k, "unclear", Absent)]
  <2>1. PICK s : s = SessionFor(call'[c], OnItsWay(c)')
    OBVIOUS
  <2>2. s = SessionAt("taken", k2, "unclear", Absent)
    <3>1. Says(k2.resp, k2.req.op) = "unclear" /\ Shows("unclear", k2.shown) = Absent
      BY <1>4, SaysOf DEF Shows
    <3> QED
      BY <1>3, <1>4, <2>1, <3>1, SessionNext
  <2>3. s = SessionAt("taken", k, "unclear", Absent)
    BY <1>4, <2>2 DEF SessionAt
  <2>4. \A d \in Callers \ {c} : StaysFor(d)
    BY <1>2, <1>5, SameWire DEF TypeOK
  <2> QED
    BY <2>1, <2>3, <2>4, OthersStay
<1>7. Unawaited' = Unawaited \cup {r \in wire : r.caller = c /\ Awaited(r)}
  BY <1>2, <1>4, <1>5, NoLongerAwaited
<1>8. CASE k.pc = "sent" /\ OnItsWay(c)
  <2>1. PICK r \in wire : r.caller = c /\ r.number = k.number /\ Awaited(r)
    BY <1>1, <1>8 DEF OnItsWay, Awaited
  <2>2. {w \in wire : w.caller = c /\ Awaited(w)} = {r}
    BY <2>1, AwaitedOnItsWay
  <2>3. LateRequest(r) = [number |-> k.number, req |-> k.req]
    BY <1>1, <2>1, AwaitedOnItsWay DEF LateRequest
  <2>4. Late' = Late \cup {[number |-> k.number, req |-> k.req]}
    BY <1>7, <2>2, <2>3, LateAdds
  <2>5. Sessions[c] = SessionAt("waiting", k, "none", Absent)
    BY <1>1, <1>8, SessionNow
  <2> QED
    BY <1>2, <1>6, <2>4, <2>5, LoseContactStep, PlainTypes DEF Answers
<1>9. CASE k.pc = "answered" \/ (k.pc = "sent" /\ ~OnItsWay(c))
  <2>1. {w \in wire : w.caller = c /\ Awaited(w)} = {}
    BY <1>1, <1>9 DEF OnItsWay, Awaited
  <2>2. Late' = Late
    BY <1>7, <2>1, LateKept
  <2>3. PICK answer \in Answers, shown \in Partition : Sessions[c] = SessionAt("taken", k, answer, shown)
    <3>1. CASE k.pc = "answered"
      <4>1. Says(k.resp, k.req.op) \in Answers
        BY SaysType DEF Calls
      <4>2. Shows(Says(k.resp, k.req.op), k.shown) \in Partition
        BY ShowsType DEF Calls
      <4> QED
        BY <1>1, <3>1, <4>1, <4>2, SessionNow
    <3>2. CASE k.pc = "sent" /\ ~OnItsWay(c)
      BY <1>1, <3>2, SessionNow, PlainTypes DEF Answers
    <3> QED
      BY <1>9, <3>1, <3>2
  <2> QED
    BY <1>2, <1>6, <2>2, <2>3, LoseContactStep
<1> QED
  BY <1>2, <1>8, <1>9

(* A handler cannot decode its answer.                                     *)
LEMMA UndecodedStep ==
  ASSUME TypeOK, WireInv, NEW c \in Callers, GiveUp(c), call[c].pc = "answered", call[c].resp.got,
         call' = [call EXCEPT ![c] = Undecoded(call[c])]
  PROVE  Service!LoseContact(c) \/ SeesNothing
<1>1. PICK k \in Calls : k = call[c]
  BY DEF TypeOK
<1>2. /\ wire' = wire /\ parts' = parts /\ hostJobs' = hostJobs /\ requests' = requests
  BY <1>1 DEF GiveUp
<1>3. PICK bad \in Responses : bad = [k.resp EXCEPT !.decodes = FALSE]
  BY <1>1, SaysUndecoded DEF Calls
<1>4. PICK k2 \in Calls : k2 = call'[c] /\ k2 = [k EXCEPT !.resp = bad]
  BY <1>1, <1>3 DEF TypeOK, Undecoded, Calls
<1>5. k2.pc = "answered" /\ k2.resp = bad /\ k2.shown = k.shown /\ k2.number = k.number /\ k2.req = k.req
  BY <1>1, <1>4 DEF Calls
<1>6. call' = [call EXCEPT ![c] = k2]
  BY <1>1, <1>4
<1>7. PICK said \in Answers : said = Says(k.resp, k.req.op)
  BY SaysType DEF Calls
<1>8. PICK says \in {said, "unclear"} : says = Says(bad, k.req.op)
  BY <1>1, <1>3, <1>7, SaysUndecoded DEF Calls
<1>9. Sessions[c] = SessionAt("taken", k, said, Shows(said, k.shown))
  BY <1>1, <1>7, SessionNow
<1>10. Sessions' = [Sessions EXCEPT ![c] = SessionAt("taken", k, says, Shows(says, k.shown))]
  <2>1. PICK s : s = SessionFor(call'[c], OnItsWay(c)')
    OBVIOUS
  <2>2. s = SessionAt("taken", k2, says, Shows(says, k.shown))
    BY <1>4, <1>5, <1>8, <2>1, SessionNext
  <2>3. s = SessionAt("taken", k, says, Shows(says, k.shown))
    BY <1>5, <2>2 DEF SessionAt
  <2>4. \A d \in Callers \ {c} : StaysFor(d)
    BY <1>2, <1>6, SameWire DEF TypeOK
  <2> QED
    BY <2>1, <2>3, <2>4, OthersStay
<1>11. Late' = Late
  <2>1. Unawaited' = Unawaited \cup {r \in wire : r.caller = c /\ Awaited(r)}
    BY <1>2, <1>5, <1>6, NoLongerAwaited
  <2>2. {r \in wire : r.caller = c /\ Awaited(r)} = {}
    BY <1>1 DEF Awaited
  <2> QED
    BY <2>1, <2>2, LateKept
<1>12. CASE says = "unclear"
  <2>1. Shows(says, k.shown) = Absent
    BY <1>12 DEF Shows
  <2>2. Shows(said, k.shown) \in Partition
    BY ShowsType DEF Calls
  <2> QED
    BY <1>2, <1>9, <1>10, <1>11, <1>12, <2>1, <2>2, LoseContactStep
<1>13. CASE says = said
  <2>1. Sessions' = Sessions
    BY <1>9, <1>10, <1>13 DEF Sessions
  <2> QED
    BY <1>2, <1>11, <2>1 DEF SeesNothing
<1> QED
  BY <1>12, <1>13

LEMMA ReplyIsReply ==
  ASSUME TypeOK, WireInv, NEW c \in Callers, Reply(c)
  PROVE  Service!Reply(c)
<1>1. PICK k \in Calls : k = call[c]
  BY DEF TypeOK
<1>2. /\ wire' = wire /\ parts' = parts /\ hostJobs' = hostJobs /\ requests' = requests
      /\ k.pc = "answered"
  BY <1>1 DEF Reply
<1>3. PICK status \in Statuses : status = Answered(k.resp, WantsResult(k.req.op), Success(k.req.op))
  BY StatusType DEF Calls
<1>4. PICK shown \in Partition : shown = IF status = Success(k.req.op) THEN k.shown ELSE Absent
  BY PlainTypes DEF Calls
<1>5. PICK k2 : k2 = [k EXCEPT !.pc = "replied", !.status = status, !.resp = Silence, !.shown = shown]
  OBVIOUS
<1>6. k2 \in Calls
  BY <1>5, ResponseType DEF Calls
<1>7. call' = [call EXCEPT ![c] = k2]
  <2>1. k2 = Replied(call[c])
    BY <1>1, <1>3, <1>4, <1>5 DEF Replied
  <2>2. HandlersType
    BY TypeParts
  <2> QED
    BY <2>1, <2>2, HandlerSteps
<1>8. k2 = call'[c]
  BY <1>7 DEF TypeOK
<1>9. k2.pc = "replied" /\ k2.status = status /\ k2.shown = shown /\ k2.number = k.number /\ k2.req = k.req
  BY <1>5 DEF Calls
<1>10. PICK said \in Answers : said = Says(k.resp, k.req.op) /\ said = Meaning(status)
  BY <1>3, SaysType DEF Calls, Says
<1>11. Shows(said, shown) = Shows(said, k.shown)
  <2>1. said = "done" <=> status = Success(k.req.op)
    BY <1>3, <1>10, DoneIsSuccess DEF Calls
  <2> QED
    BY <1>4, <2>1 DEF Shows
<1>12. Sessions[c] = SessionAt("taken", k, said, Shows(said, k.shown))
  BY <1>1, <1>2, <1>10, SessionNow
<1>13. Sessions' = [Sessions EXCEPT ![c] = SessionAt("replied", k, said, Shows(said, k.shown))]
  <2>1. PICK s : s = SessionFor(call'[c], OnItsWay(c)')
    OBVIOUS
  <2>2. s = SessionAt("replied", k2, said, Shows(said, shown))
    BY <1>6, <1>8, <1>9, <1>10, <2>1, SessionNext
  <2>3. s = SessionAt("replied", k, said, Shows(said, k.shown))
    BY <1>9, <1>11, <2>2 DEF SessionAt
  <2>4. \A d \in Callers \ {c} : StaysFor(d)
    BY <1>2, <1>7, SameWire DEF TypeOK
  <2> QED
    BY <2>1, <2>3, <2>4, OthersStay
<1>14. Late' = Late
  <2>1. Unawaited' = Unawaited \cup {r \in wire : r.caller = c /\ Awaited(r)}
    BY <1>2, <1>7, <1>9, NoLongerAwaited
  <2>2. {r \in wire : r.caller = c /\ Awaited(r)} = {}
    BY <1>1, <1>2 DEF Awaited
  <2> QED
    BY <2>1, <2>2, LateKept
<1>15. Shows(said, k.shown) \in Partition
  BY ShowsType DEF Calls
<1> QED
  BY <1>2, <1>12, <1>13, <1>14, <1>15, ReplyStep

(* UFM's answer reaches the handler that waits for it.                     *)
LEMMA HandledInTime ==
  ASSUME TypeOK, WireInv, NEW r \in wire, Awaited(r),
         NEW resp \in Responses, NEW shown \in Partition, Deliver(r, resp, shown), wire' = wire \ {r},
         NEW k, k = call[r.caller], NEW says, says = Says(resp, r.of.op)
  PROVE  /\ k \in Calls /\ k.number = r.number /\ k.req = r.of
         /\ Sessions[r.caller] = SessionAt("waiting", k, "none", Absent)
         /\ Sessions' = [Sessions EXCEPT ![r.caller] =
                           SessionAt("taken", k, says, Shows(says, shown))]
         /\ Late' = Late
<1>0. PICK c \in Callers : c = r.caller
  BY WireRequest
<1>1. k = call[c] /\ k \in Calls
  BY <1>0 DEF TypeOK
<1>2. k.pc = "sent" /\ OnItsWay(c) /\ k.number = r.number /\ k.req = r.of
  BY <1>0, AwaitedOnItsWay
<1>3. PICK k2 : k2 = [k EXCEPT !.pc = "answered", !.resp = resp, !.shown = shown]
  OBVIOUS
<1>4. k2 \in Calls
  BY <1>1, <1>3 DEF Calls
<1>5. k2.pc = "answered" /\ k2.resp = resp /\ k2.shown = shown /\ k2.number = k.number /\ k2.req = k.req
  BY <1>1, <1>3 DEF Calls
<1>6. call' = [call EXCEPT ![c] = k2]
  BY <1>0, <1>3 DEF Deliver
<1>7. call'[c] = k2 /\ \A d \in Callers \ {c} : call'[d] = call[d]
  BY <1>1, <1>6 DEF TypeOK
<1>8. Sessions[c] = SessionAt("waiting", k, "none", Absent)
  BY <1>1, <1>2, SessionNow
<1>9. Sessions' = [Sessions EXCEPT ![c] = SessionAt("taken", k, says, Shows(says, shown))]
  <2>1. PICK s : s = SessionFor(call'[c], OnItsWay(c)')
    OBVIOUS
  <2>2. s = SessionAt("taken", k2, says, Shows(says, shown))
    BY <1>1, <1>2, <1>4, <1>5, <1>7, <2>1, SessionNext
  <2>3. s = SessionAt("taken", k, says, Shows(says, shown))
    BY <1>5, <2>2 DEF SessionAt
  <2>4. \A d \in Callers \ {c} : StaysFor(d)
    BY <1>0, <1>7, WireWithout
  <2>5. Sessions' = [Sessions EXCEPT ![c] = s]
    BY <2>1, <2>4, OthersStay
  <2> QED
    BY <2>3, <2>5
<1>10. Late' = Late
  <2>1. \A w \in wire : w # r => (Awaited(w)' <=> Awaited(w))
    <3> SUFFICES ASSUME NEW w \in wire, w # r PROVE Awaited(w)' <=> Awaited(w)
      OBVIOUS
    <3>1. w.caller \in Callers
      BY WireRequest
    <3>2. CASE w.caller = c
      <4>1. ~Awaited(w)
        BY <1>0, <3>2, AwaitedOnItsWay
      <4>2. ~Awaited(w)'
        BY <1>5, <1>7, <3>2 DEF Awaited
      <4> QED
        BY <4>1, <4>2
    <3>3. CASE w.caller # c
      BY <1>7, <3>1, <3>3 DEF Awaited
    <3> QED
      BY <3>2, <3>3
  <2>2. Unawaited' = Unawaited
    BY <2>1 DEF Unawaited
  <2> QED
    BY <2>2, LateKept
<1> QED
  BY <1>0, <1>1, <1>2, <1>8, <1>9, <1>10

(* Nobody waits for what UFM does with a late request, or it is lost.      *)
LEMMA HandledLate ==
  ASSUME TypeOK, WireInv, NEW r \in wire, ~Awaited(r), call' = call, wire' = wire \ {r}
  PROVE  /\ Sessions' = Sessions
         /\ LateRequest(r) \in Late /\ Late' = Late \ {LateRequest(r)}
<1>1. Sessions' = Sessions
  <2>1. \A d \in Callers : StaysFor(d)
    BY WireWithout DEF Awaited
  <2> QED
    BY <2>1, AllStay
<1>2. r \in Unawaited
  BY DEF Unawaited
<1>3. Unawaited' = Unawaited \ {r}
  <2>1. \A w \in wire : Awaited(w)' <=> Awaited(w)
    BY DEF Awaited
  <2> QED
    BY <2>1 DEF Unawaited
<1> QED
  BY <1>1, <1>2, <1>3, LateDrops

LEMMA CarriesOutStep ==
  ASSUME TypeOK, WireInv, NEW r \in wire, CarriesOut(r),
         wire' = wire \ {r}, requests' = requests
  PROVE  \/ \E c \in Callers : Service!TakeEffect(c)
         \/ Service!TakeLateEffect(LateRequest(r)) /\ LateRequest(r) \in Late
<1>0. PICK c \in Callers : c = r.caller
  BY WireRequest
<1>1. PICK resp \in Responses, shown \in Partition, part \in Partition :
         /\ Fits(r.of, parts[r.of.pkey], resp, shown, part)
         /\ Service!Happens(r.of, r.number, part)
         /\ Deliver(r, resp, shown)
  BY DEF CarriesOut
<1>2. PICK says \in Answers : says = Says(resp, r.of.op)
  BY SaysType
<1>3. [part |-> part, answer |-> says] \in Service!Effects(r.of, parts[r.of.pkey])
  BY <1>1, <1>2 DEF Fits
<1>4. CASE Awaited(r)
  <2>1. PICK k : k = call[c]
    OBVIOUS
  <2>2. /\ k \in Calls /\ k.number = r.number /\ k.req = r.of
        /\ Sessions[c] = SessionAt("waiting", k, "none", Absent)
        /\ Sessions' = [Sessions EXCEPT ![c] =
                          SessionAt("taken", k, says, Shows(says, shown))]
        /\ Late' = Late
    BY <1>1, <1>2, <1>4, <2>1, <1>0, HandledInTime
  <2>3. Shows(says, shown) = shown
    BY <1>1, <1>2 DEF Fits, Shows
  <2>4. PICK q : q = parts[r.of.pkey]
    OBVIOUS
  <2>5. shown \in Service!Views(q) /\ Service!MayShow(r.of, q, shown)
    BY <1>1, <2>4 DEF Fits
  <2>6. Service!Happens(k.req, k.number, part)
    BY <1>1, <2>2
  <2> QED
    BY <1>3, <2>2, <2>3, <2>4, <2>5, <2>6, TakeEffectStep
<1>5. CASE ~Awaited(r)
  <2>1. call' = call
    BY <1>1, <1>5 DEF Deliver
  <2>2. Sessions' = Sessions /\ LateRequest(r) \in Late /\ Late' = Late \ {LateRequest(r)}
    BY <1>5, <2>1, HandledLate
  <2>3. LateRequest(r).req = r.of /\ LateRequest(r).number = r.number
    BY DEF LateRequest
  <2>4. PICK e \in Service!Effects(r.of, parts[r.of.pkey]) : e.part = part
    BY <1>3
  <2> QED
    BY <1>1, <2>2, <2>3, <2>4 DEF Service!TakeLateEffect
<1> QED
  BY <1>4, <1>5

LEMMA RefusesStep ==
  ASSUME TypeOK, WireInv, NEW r \in wire, UfmRefuses(r),
         wire' = wire \ {r}, requests' = requests
  PROVE  \/ \E c \in Callers : Service!Refuse(c)
         \/ Service!Forget(LateRequest(r)) /\ LateRequest(r) \in Late
<1>0. PICK c \in Callers : c = r.caller
  BY WireRequest
<1>1. PICK s \in Refusals : Deliver(r, Response(s), Absent)
  BY DEF UfmRefuses
<1>2. parts' = parts /\ hostJobs' = hostJobs
  BY DEF UfmRefuses
<1>3. PICK resp \in Responses : resp = Response(s)
  BY SaysRefused
<1>4. PICK says \in {"refused", "unclear"} : says = Says(resp, r.of.op)
  BY <1>3, SaysRefused
<1>5. CASE Awaited(r)
  <2>1. PICK k : k = call[c]
    OBVIOUS
  <2>2. /\ k \in Calls /\ k.number = r.number /\ k.req = r.of
        /\ Sessions[c] = SessionAt("waiting", k, "none", Absent)
        /\ Sessions' = [Sessions EXCEPT ![c] =
                          SessionAt("taken", k, says, Shows(says, Absent))]
        /\ Late' = Late
    BY <1>1, <1>3, <1>4, <1>5, <2>1, <1>0, HandledInTime, PlainTypes
  <2>3. Shows(says, Absent) = Absent
    BY DEF Shows
  <2> QED
    BY <1>2, <2>2, <2>3, RefuseStep
<1>6. CASE ~Awaited(r)
  <2>1. call' = call
    BY <1>1, <1>6 DEF Deliver
  <2>2. Sessions' = Sessions /\ LateRequest(r) \in Late /\ Late' = Late \ {LateRequest(r)}
    BY <1>6, <2>1, HandledLate
  <2> QED
    BY <1>2, <2>2 DEF Service!Forget
<1> QED
  BY <1>5, <1>6

(* A request that is lost: its handler will only learn that by its timeout.*)
LEMMA WireLosesStep ==
  ASSUME TypeOK, WireInv, NEW r \in wire, WireLoses(r)
  PROVE  \/ \E c \in Callers : Service!LoseContact(c)
         \/ Service!Forget(LateRequest(r)) /\ LateRequest(r) \in Late
<1>0. PICK c \in Callers : c = r.caller
  BY WireRequest
<1>1. /\ wire' = wire \ {r} /\ parts' = parts /\ hostJobs' = hostJobs /\ call' = call
      /\ requests' = requests
  BY DEF WireLoses
<1>3. CASE Awaited(r)
  <2>1. PICK k \in Calls : k = call[c] /\ k = call'[c]
    BY <1>1 DEF TypeOK
  <2>2. k.pc = "sent" /\ OnItsWay(c) /\ k.number = r.number
    BY <1>0, <1>3, <2>1, AwaitedOnItsWay
  <2>3. ~OnItsWay(c)'
    BY <1>0, <1>1, <2>1, <2>2 DEF OnItsWay, WireInv
  <2>4. Sessions[c] = SessionAt("waiting", k, "none", Absent)
    BY <2>1, <2>2, SessionNow
  <2>5. Sessions' = [Sessions EXCEPT ![c] = SessionAt("taken", k, "unclear", Absent)]
    <3>1. PICK s : s = SessionFor(call'[c], OnItsWay(c)')
      OBVIOUS
    <3>2. s = SessionAt("taken", k, "unclear", Absent)
      BY <2>1, <2>2, <2>3, <3>1, SessionNext
    <3>3. \A d \in Callers \ {c} : StaysFor(d)
      BY <1>0, <1>1, WireWithout
    <3> QED
      BY <3>1, <3>2, <3>3, OthersStay
  <2>6. Late' = Late
    <3>1. Unawaited' = Unawaited
      BY <1>1, <1>3 DEF Unawaited, Awaited
    <3> QED
      BY <3>1, LateKept
  <2> QED
    BY <1>1, <2>4, <2>5, <2>6, LoseContactStep, PlainTypes DEF Answers
<1>4. CASE ~Awaited(r)
  <2>1. Sessions' = Sessions /\ LateRequest(r) \in Late /\ Late' = Late \ {LateRequest(r)}
    BY <1>1, <1>4, HandledLate
  <2> QED
    BY <1>1, <2>1 DEF Service!Forget
<1> QED
  BY <1>3, <1>4

LEMMA HostJobEndsStep ==
  ASSUME TypeOK, NEW j \in hostJobs, UfmEndsHostJob(j)
  PROVE  Service!HostJobEnds(j)
<1>1. wire' = wire /\ call' = call /\ requests' = requests
  BY DEF UfmEndsHostJob
<1>2. Sessions' = Sessions
  <2>1. \A d \in Callers : StaysFor(d)
    BY <1>1, SameWire
  <2> QED
    BY <2>1, AllStay
<1>3. Late' = Late
  <2>1. Unawaited' = Unawaited
    BY <1>1 DEF Unawaited, Awaited
  <2> QED
    BY <2>1, LateKept
<1>4. hostJobs' = hostJobs \ {j}
  BY DEF UfmEndsHostJob
<1>5. parts' = IF parts[j.pkey].exists
               THEN [parts EXCEPT ![j.pkey].members =
                       [g \in Guids |-> IF g \in PortsOfAll(j.hosts) THEN j.membership ELSE @[g]]]
               ELSE parts
  BY DEF UfmEndsHostJob
<1> QED
  BY <1>1, <1>2, <1>3, <1>4, <1>5, ServiceData DEF Service!HostJobEnds

(* The session of a request just made.                                     *)
NewSession(req, number) ==
  [Service!NoSession EXCEPT !.req = req, !.number = number,
     !.pc = IF req.body = "malformed" THEN "replied" ELSE "waiting",
     !.answer = IF req.body = "malformed" THEN "refused" ELSE "none"]

LEMMA NoSessionIs ==
  Service!NoSession = SessionAt("idle", NoCall, "none", Absent) /\ Service!NoSession \in SessionType
<1>1. Service!Request("none", "none") = Request("none", "none")
  BY ServiceData DEF Service!Request, Request
<1>2. Service!NoSession = SessionAt("idle", NoCall, "none", Absent)
  BY <1>1, ServiceData DEF Service!NoSession, SessionAt, NoCall
<1>3. SessionAt("idle", NoCall, "none", Absent) \in SessionType
  BY NoCallType, PlainTypes, SessionAtType DEF Answers
<1> QED
  BY <1>2, <1>3

LEMMA NewSessionIs ==
  ASSUME NEW req \in Inputs, NEW number \in Nat, NEW k \in Calls, k.number = number, k.req = req,
         NEW s, s = NewSession(req, number)
  PROVE  /\ req.body = "malformed" => s = SessionAt("replied", k, "refused", Absent)
         /\ req.body # "malformed" => s = SessionAt("waiting", k, "none", Absent)
<1>1. PICK pc \in {"replied", "waiting"} : pc = IF req.body = "malformed" THEN "replied" ELSE "waiting"
  OBVIOUS
<1>2. PICK answer \in Answers : answer = IF req.body = "malformed" THEN "refused" ELSE "none"
  BY DEF Answers
<1>3. s = [Service!NoSession EXCEPT !.req = req, !.number = number, !.pc = pc, !.answer = answer]
  BY <1>1, <1>2 DEF NewSession
<1>4. s \in SessionType
  BY <1>3, NoSessionIs DEF SessionType
<1>5. s.pc = pc /\ s.number = number /\ s.req = req /\ s.answer = answer /\ s.shown = Absent
  BY <1>3, NoSessionIs DEF SessionType, SessionAt
<1>6. PICK u \in SessionType : u = SessionAt(pc, k, answer, Absent)
  BY SessionAtType, PlainTypes
<1>7. s = u
  BY <1>4, <1>5, <1>6, SameSession DEF SessionAt
<1> QED
  BY <1>1, <1>2, <1>6, <1>7

LEMMA ReceiveIsAsk ==
  ASSUME TypeOK, WireInv, NEW c \in Callers, NEW req \in load.inputs, Receive(c, req)
  PROVE  req \in Inputs /\ Service!Ask(c, req)
<1>1. req \in Inputs /\ requests \in Nat /\ load.requests \in 0..MaxRequests
  BY LoadTypes
<1>2. /\ requests < load.requests /\ requests' = requests + 1 /\ parts' = parts
      /\ hostJobs' = hostJobs /\ call[c].pc \in {"idle", "replied"}
  BY DEF Receive
<1>3. requests < MaxRequests
  BY <1>1, <1>2, LoadsAssumption
<1>4. PICK number \in Nat : number = requests + 1
  BY <1>1
<1>5. PICK old \in Calls : old = call[c]
  BY DEF TypeOK
<1>6. Sessions[c].pc \in {"idle", "replied"}
  <2>1. CASE old.pc = "idle"
    <3>1. Sessions[c] = SessionAt("idle", old, "none", Absent)
      BY <1>5, <2>1, SessionNow
    <3> QED
      BY <3>1 DEF SessionAt
  <2>2. CASE old.pc = "replied"
    <3>1. Sessions[c] = SessionAt("replied", old, Meaning(old.status), Shows(Meaning(old.status), old.shown))
      BY <1>5, <2>2, SessionNow
    <3> QED
      BY <3>1 DEF SessionAt
  <2> QED
    BY <1>2, <1>5, <2>1, <2>2
<1>7. Bindable(req) <=> req.body # "malformed"
  BY <1>1, InputsAssumption DEF Bindable
<1>8. \A r \in wire : r.number # number
  BY <1>4, NumbersSoFar
<1>9. \A r \in wire : r.caller = c => ~Awaited(r)
  BY <1>2 DEF Awaited
<1>10. PICK new : new = [caller |-> c, number |-> number, of |-> req, ufm |-> Translated(req)]
  OBVIOUS
<1>11. CASE req.body # "malformed"
  <2>1. PICK k : k = [NoCall EXCEPT !.pc = "sent", !.number = number, !.req = req]
    OBVIOUS
  <2>2. k \in Calls /\ k.pc = "sent" /\ k.number = number /\ k.req = req
    BY <1>1, <2>1, NoCallType DEF Calls
  <2>3. call' = [call EXCEPT ![c] = k] /\ wire' = wire \cup {new}
    BY <1>4, <1>7, <1>10, <1>11, <2>1 DEF Receive
  <2>4. call'[c] = k /\ \A d \in Callers \ {c} : call'[d] = call[d]
    BY <2>3 DEF TypeOK
  <2>5. OnItsWay(c)'
    BY <1>10, <2>2, <2>3, <2>4 DEF OnItsWay
  <2>6. PICK s : s = SessionFor(call'[c], OnItsWay(c)')
    OBVIOUS
  <2>7. s = SessionAt("waiting", k, "none", Absent)
    BY <2>2, <2>4, <2>5, <2>6, SessionNext
  <2>8. s = NewSession(req, number)
    BY <1>1, <1>11, <2>2, <2>7, NewSessionIs
  <2>9. \A d \in Callers \ {c} : StaysFor(d)
    BY <1>10, <2>3, <2>4, WireWith
  <2>10. Sessions' = [Sessions EXCEPT ![c] = s]
    BY <2>6, <2>9, OthersStay
  <2>11. Late' = Late
    <3>1. ASSUME NEW r \in wire PROVE Awaited(r)' <=> Awaited(r)
      <4>1. r.caller \in Callers
        BY WireRequest
      <4>2. CASE r.caller = c
        BY <1>8, <1>9, <2>2, <2>4, <4>2 DEF Awaited
      <4>3. CASE r.caller # c
        BY <2>4, <4>1, <4>3 DEF Awaited
      <4> QED
        BY <4>2, <4>3
    <3>2. Awaited(new)'
      BY <1>10, <2>2, <2>4 DEF Awaited
    <3>3. Unawaited' = Unawaited
      BY <2>3, <3>1, <3>2 DEF Unawaited
    <3> QED
      BY <3>3, LateKept
  <2> QED
    BY <1>1, <1>2, <1>3, <1>4, <1>6, <2>8, <2>10, <2>11 DEF Service!Ask, NewSession
<1>12. CASE req.body = "malformed"
  <2>1. PICK k : k = [NoCall EXCEPT !.pc = "replied", !.number = number, !.req = req,
                                    !.status = BadRequest]
    OBVIOUS
  <2>2. /\ k \in Calls /\ k.pc = "replied" /\ k.number = number /\ k.req = req
        /\ k.status = BadRequest
    <3>1. BadRequest \in Statuses
      BY DEF BadRequest, Statuses, PassedOn
    <3> QED
      BY <1>1, <2>1, <3>1, NoCallType DEF Calls
  <2>3. call' = [call EXCEPT ![c] = k] /\ wire' = wire
    BY <1>4, <1>7, <1>12, <2>1 DEF Receive
  <2>4. call'[c] = k /\ \A d \in Callers \ {c} : call'[d] = call[d]
    BY <2>3 DEF TypeOK
  <2>5. Meaning(BadRequest) = "refused" /\ Shows("refused", k.shown) = Absent
    BY MeaningOf DEF BadRequest, Shows
  <2>6. PICK s : s = SessionFor(call'[c], OnItsWay(c)')
    OBVIOUS
  <2>7. s = SessionAt("replied", k, "refused", Absent)
    BY <2>2, <2>4, <2>5, <2>6, SessionNext
  <2>8. s = NewSession(req, number)
    BY <1>1, <1>12, <2>2, <2>7, NewSessionIs
  <2>9. \A d \in Callers \ {c} : StaysFor(d)
    BY <2>3, <2>4, SameWire
  <2>10. Sessions' = [Sessions EXCEPT ![c] = s]
    BY <2>6, <2>9, OthersStay
  <2>11. Late' = Late
    <3>1. Unawaited' = Unawaited \cup {r \in wire : r.caller = c /\ Awaited(r)}
      BY <2>2, <2>3, NoLongerAwaited
    <3>2. {r \in wire : r.caller = c /\ Awaited(r)} = {}
      BY <1>9
    <3> QED
      BY <3>1, <3>2, LateKept
  <2> QED
    BY <1>1, <1>2, <1>3, <1>4, <1>6, <2>8, <2>10, <2>11 DEF Service!Ask, NewSession
<1> QED
  BY <1>1, <1>11, <1>12

LEMMA ServiceStarts == Init => Service!ServiceInit
<1> SUFFICES ASSUME Init PROVE Service!ServiceInit
  OBVIOUS
<1>1. \A c \in Callers : Sessions[c] = Service!NoSession
  <2> SUFFICES ASSUME NEW c \in Callers PROVE Sessions[c] = Service!NoSession
    OBVIOUS
  <2>1. PICK k \in Calls : k = call[c] /\ k = NoCall
    BY NoCallType DEF Init
  <2>2. k.pc = "idle"
    BY <2>1 DEF NoCall
  <2>3. Sessions[c] = SessionAt("idle", k, "none", Absent)
    BY <2>1, <2>2, SessionNow
  <2> QED
    BY <2>1, <2>3, NoSessionIs
<1>2. Sessions = [c \in Callers |-> Service!NoSession]
  BY <1>1 DEF Sessions
<1>3. Late = {}
  BY DEF Init, Late, Unawaited
<1> QED
  BY <1>2, <1>3 DEF Init, Service!ServiceInit

LEMMA ServiceSteps ==
  PartitionsInv /\ [Next]_vars => [Service!ServiceNext]_(Service!serviceVars)
<1> SUFFICES ASSUME TypeOK, WireInv, [Next]_vars
             PROVE  Service!ServiceNext \/ SeesNothing
  BY DEF PartitionsInv, SeesNothing, Service!serviceVars
<1>1. ASSUME NEW c \in Callers, GiveUp(c) PROVE Service!ServiceNext \/ SeesNothing
  <2>1. HandlersType
    BY TypeParts
  <2>2. Service!LoseContact(c) \/ SeesNothing
    BY <1>1, <2>1, HandlerSteps, GiveUpIsLoseContact, UndecodedStep
  <2> QED
    BY <2>2 DEF Service!ServiceNext
<1>2. ASSUME NEW c \in Callers, Reply(c) PROVE Service!ServiceNext
  BY <1>2, ReplyIsReply DEF Service!ServiceNext
<1>3. ASSUME NEW c \in Callers, NEW req \in load.inputs, Receive(c, req) PROVE Service!ServiceNext
  BY <1>3, ReceiveIsAsk DEF Service!ServiceNext
<1>4. ASSUME NEW r \in wire, UfmHandles(r) PROVE Service!ServiceNext
  <2>1. wire' = wire \ {r} /\ requests' = requests
    BY <1>4 DEF UfmHandles
  <2>2. CASE CarriesOut(r)
    BY <2>1, <2>2, CarriesOutStep DEF Service!ServiceNext
  <2>3. CASE UfmRefuses(r)
    BY <2>1, <2>3, RefusesStep DEF Service!ServiceNext
  <2> QED
    BY <1>4, <2>2, <2>3, UfmOutcome
<1>5. ASSUME NEW r \in wire, WireLoses(r) PROVE Service!ServiceNext
  BY <1>5, WireLosesStep DEF Service!ServiceNext
<1>6. ASSUME NEW j \in hostJobs, UfmEndsHostJob(j) PROVE Service!ServiceNext
  BY <1>6, HostJobEndsStep DEF Service!ServiceNext
<1>7. CASE UNCHANGED vars
  <2>1. wire' = wire /\ call' = call
    BY <1>7 DEF vars
  <2>2. \A d \in Callers : StaysFor(d)
    BY <2>1, SameWire
  <2>3. Unawaited' = Unawaited
    BY <2>1 DEF Unawaited, Awaited
  <2> QED
    BY <1>7, <2>2, <2>3, AllStay, LateKept DEF SeesNothing, vars
<1> QED
  BY <1>1, <1>2, <1>3, <1>4, <1>5, <1>6, <1>7 DEF Next

(* The handlers implement PartitionService: for any number of clients that *)
(* use and change the same partitions, and whatever is lost or late, each  *)
(* request takes effect at most once and at one instant, and an answer     *)
(* other than 502 says what happened.                                      *)
THEOREM PartitionsRefine == Spec => ImplementsPartitionService
<1>1. Init => Service!ServiceInit
  BY ServiceStarts
<1>2. PartitionsInv /\ [Next]_vars => [Service!ServiceNext]_(Service!serviceVars)
  BY ServiceSteps
<1> QED
  BY <1>1, <1>2, PartitionsInvCorrect, PTL DEF Spec, ImplementsPartitionService, Service!ServiceSpec
=============================================================================
