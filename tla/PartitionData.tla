---------------------------- MODULE PartitionData ----------------------------
(***************************************************************************)
(* The data of the partition operations: the partitions UFM keeps          *)
(* (pkg/ufmclient/partitions.go) and the requests API clients make for     *)
(* them (PartitionCreate, PartitionReplace, PartitionMembersAdd,           *)
(* PartitionHostsAdd and PartitionQoS of api/openapi.yaml).                *)
(*                                                                         *)
(* A GUID's membership and the QoS settings are kept; names, index0 and    *)
(* ip_over_ib, which the handlers pass on by themselves, are left out.     *)
(***************************************************************************)
EXTENDS Integers

CONSTANTS
  Pkeys,    \* partition keys
  Guids,    \* GUIDs of ports
  PortsOf,  \* PortsOf[h]: the GUIDs of the ports of host h
  Held      \* the partitions (or Absent) UFM may hold when the facade starts

Hosts == DOMAIN PortsOf

Memberships == {"full", "limited"}

QosFields == {"mtu_limit", "service_level", "rate_limit"}

Partition == [exists : BOOLEAN, members : [Guids -> Memberships \cup {"none"}],
              qos : [QosFields -> Int], sharp : BOOLEAN]

ASSUME PartitionAssumption ==
  /\ \A h \in Hosts : PortsOf[h] \subseteq Guids
  /\ Held \subseteq Partition

(* The values a QoS setting may have; rate limits are counted in tenths.   *)
LegalQos == [mtu_limit |-> {2, 4}, service_level |-> 0..15, rate_limit |-> Nat \ {0}]

DefaultQos == [mtu_limit |-> 2, service_level |-> 0, rate_limit |-> 25]

(* An optional field a client left out.                                    *)
Unset == -1

NoQos == [f \in QosFields |-> Unset]

NoMembers == [g \in Guids |-> "none"]

Absent == [exists |-> FALSE, members |-> NoMembers, qos |-> NoQos, sharp |-> FALSE]

(* The members in m and those in added, the latter as added says.          *)
Joined(m, added) == [g \in Guids |-> IF added[g] = "none" THEN m[g] ELSE added[g]]

Without(m, guids) == [g \in Guids |-> IF g \in guids THEN "none" ELSE m[g]]

Listed(m) == {g \in Guids : m[g] # "none"}

Overlaid(q, given) == [f \in QosFields |-> IF given[f] = Unset THEN q[f] ELSE given[f]]

PortsOfAll(hosts) == UNION {PortsOf[h] : h \in hosts}

(* A request of an API client.  body says whether there is one and whether *)
(* it can be read; membership "unset" is a field left out.                 *)
Request(op, pkey) ==
  [op |-> op, pkey |-> pkey, body |-> "present", members |-> NoMembers, guids |-> {},
   hosts |-> {}, membership |-> "unset", qos |-> NoQos, enabled |-> FALSE, include |-> {}]

Reads == {"GetPartition", "ListPartitionMembers"}

Operations == Reads \cup
  {"CreatePartition", "DeletePartition", "ReplacePartition", "AddPartitionMembers",
   "RemovePartitionMembers", "AddPartitionHosts", "RemovePartitionHosts", "UpdatePartitionQoS",
   "UpdatePartitionSHARP"}

Requests ==
  [op : Operations, pkey : Pkeys, body : {"present", "empty", "malformed"},
   members : [Guids -> Memberships \cup {"none", "unset"}], guids : SUBSET Guids,
   hosts : SUBSET Hosts, membership : Memberships \cup {"unset"}, qos : [QosFields -> Int],
   enabled : BOOLEAN, include : SUBSET {"members", "qos"}]

(* DeletePartition and the reads take no body.                             *)
Bodiless == Reads \cup {"DeletePartition"}

(* Memberships are "full" where the client gave none.                      *)
FullUnlessGiven(members) ==
  [g \in Guids |-> IF members[g] = "unset" THEN "full" ELSE members[g]]
=============================================================================
