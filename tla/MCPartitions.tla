---------------------------- MODULE MCPartitions ----------------------------
(* Small instances of Partitions: one partition, two hosts' ports, and one *)
(* or two typical requests of every operation.                             *)
EXTENDS Partitions

CONSTANTS p1, g1, g2, h1

MCPortsOf == [h \in {h1} |-> {g2}]

MCHeld == {Absent, [exists |-> TRUE, members |-> [NoMembers EXCEPT ![g1] = "full"],
                    qos |-> DefaultQos, sharp |-> FALSE]}

Mem(g, m) == [NoMembers EXCEPT ![g] = m]

Create == Request("CreatePartition", p1)
CreateWithMembers == [Create EXCEPT !.members = Mem(g1, "unset"), !.qos["service_level"] = 3]
Replace == [Request("ReplacePartition", p1) EXCEPT !.members = Mem(g1, "full"), !.qos["rate_limit"] = 50]
ReplaceWithoutBody == [Request("ReplacePartition", p1) EXCEPT !.body = "empty"]
AddMember == [Request("AddPartitionMembers", p1) EXCEPT !.members = Mem(g2, "limited")]
RemoveMember == [Request("RemovePartitionMembers", p1) EXCEPT !.guids = {g1}]
AddHost == [Request("AddPartitionHosts", p1) EXCEPT !.hosts = {h1}]
RemoveHost == [Request("RemovePartitionHosts", p1) EXCEPT !.hosts = {h1}]
SetQos == [Request("UpdatePartitionQoS", p1) EXCEPT !.qos["mtu_limit"] = 4]
SetSharp == [Request("UpdatePartitionSHARP", p1) EXCEPT !.enabled = TRUE]
SetSharpMalformed == [SetSharp EXCEPT !.body = "malformed"]
Get == [Request("GetPartition", p1) EXCEPT !.include = {"members", "qos"}]
Members1 == Request("ListPartitionMembers", p1)
Delete == Request("DeletePartition", p1)

MCInputs == {[Create EXCEPT !.qos["service_level"] = 3], CreateWithMembers, Replace,
             ReplaceWithoutBody, AddMember, RemoveMember, AddHost, RemoveHost, SetQos,
             SetSharp, SetSharpMalformed, Get, Members1, Delete}

(* Two requests of any kind, or three that make and remove.               *)
MCLoads == {[inputs |-> MCInputs, requests |-> 2],
            [inputs |-> {CreateWithMembers, Delete}, requests |-> 3]}
=============================================================================
