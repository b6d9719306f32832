----------------------------- MODULE ApiResponses -----------------------------
(***************************************************************************)
(* How the generated Go client reads an answer (the functions               *)
(* Parse...Response of pkg/client/client.gen.go).  A JSON answer goes into  *)
(* the field for its status, if the operation documents a body for that     *)
(* status, and into JSONDefault, the field for errors, if it does not,      *)
(* whatever the status is.  An answer that is not JSON goes nowhere.        *)
(***************************************************************************)
EXTENDS ApiPaths

Typed(statuses) == [statuses |-> statuses, list |-> FALSE]
AList           == [statuses |-> {200}, list |-> TRUE]
ErrorsOnly      == Typed({})

CableImageResponses ==
  [ListCableImages |-> AList, UploadCableImage |-> ErrorsOnly, DeleteCableImage |-> ErrorsOnly]

ConfigResponses ==
  [GetConfig |-> Typed({200}), UpdateConfig |-> ErrorsOnly, ConfigureDumpStorage |-> ErrorsOnly]

DiscoveryResponses ==
  [GetInventorySummary |-> Typed({200}), GetInventoryCount |-> Typed({200}),
   RefreshFabricDiscovery |-> ErrorsOnly]

EnvironmentResponses ==
  [ListEnvironments |-> Typed({200}), CreateEnvironment |-> Typed({201}), DeleteEnvironment |-> ErrorsOnly,
   GetEnvironment |-> Typed({200, 404}), UpdateEnvironment |-> ErrorsOnly]

LocalNetworkResponses ==
  [ListLocalNetworks |-> AList, CreateLocalNetwork |-> ErrorsOnly]

LogicalServerResponses ==
  [ListLogicalServers |-> AList, CreateLogicalServer |-> Typed({201}), DeleteLogicalServer |-> ErrorsOnly,
   GetLogicalServer |-> Typed({200})]

ComputeResponses ==
  [FreeComputes |-> ErrorsOnly, ListComputes |-> AList, AssignComputes |-> ErrorsOnly]

FabricValidationResponses ==
  [ListFabricValidationTests |-> AList, RunFabricValidationTest |-> Typed({202, 409})]

JobResponses ==
  [AbortAllJobs |-> ErrorsOnly, ListJobs |-> Typed({200}), DeleteJob |-> Typed({404}),
   GetJob |-> Typed({200, 404}), AbortJob |-> ErrorsOnly]

LinkResponses ==
  [ListLinks |-> Typed({200}), CollectLinkDump |-> Typed({202})]

MirroringResponses ==
  [CreateMirroringTemplate |-> ErrorsOnly, ExecuteMirroringAction |-> ErrorsOnly,
   DeleteMirroringTemplate |-> ErrorsOnly, GetMirroringTemplate |-> Typed({200}),
   UpdateMirroringTemplate |-> ErrorsOnly]

MonitoringResponses ==
  [ListMonitoringAttributes |-> Typed({200}), GetCongestionMap |-> Typed({200}),
   GetPerformanceCounters |-> Typed({200}), GetPortGroupMetrics |-> Typed({200})]

MonitoringSessionResponses ==
  [CreateMonitoringSession |-> Typed({201}), DeleteMonitoringSession |-> ErrorsOnly,
   GetMonitoringSession |-> Typed({200}), GetMonitoringSessionData |-> Typed({200}),
   CreateMonitoringSnapshot |-> Typed({200})]

MonitoringTemplateResponses ==
  [ListMonitoringTemplates |-> AList, CreateMonitoringTemplate |-> Typed({201}),
   DeleteMonitoringTemplate |-> ErrorsOnly, GetMonitoringTemplate |-> Typed({200}),
   UpdateMonitoringTemplate |-> ErrorsOnly]

NetworkResponses ==
  [ListGlobalNetworks |-> AList, CreateGlobalNetwork |-> ErrorsOnly, DeleteGlobalNetwork |-> ErrorsOnly,
   GetGlobalNetwork |-> Typed({200}), UpdateGlobalNetwork |-> ErrorsOnly]

PartitionResponses ==
  [ListPartitions |-> Typed({200}), CreatePartition |-> Typed({201, 409}),
   DeletePartition |-> Typed({404}), GetPartition |-> Typed({200, 404}),
   ReplacePartition |-> Typed({200, 404})]

PartitionHostResponses ==
  [RemovePartitionHosts |-> ErrorsOnly, AddPartitionHosts |-> Typed({202}),
   GetPartitionLastUpdated |-> Typed({200})]

PartitionMemberResponses ==
  [RemovePartitionMembers |-> ErrorsOnly, ListPartitionMembers |-> Typed({200, 404}),
   AddPartitionMembers |-> ErrorsOnly]

PartitionSettingResponses ==
  [UpdatePartitionQoS |-> Typed({200}), UpdatePartitionSHARP |-> ErrorsOnly]

PortResponses ==
  [ListPorts |-> Typed({200}), GetPort |-> Typed({200, 404}), DisablePort |-> ErrorsOnly,
   EnablePort |-> ErrorsOnly, ResetPort |-> ErrorsOnly]

ReportResponses ==
  [CreateReport |-> Typed({202}), GetLatestReport |-> Typed({200}), DeleteReport |-> ErrorsOnly,
   GetReport |-> Typed({200})]

SystemResponses ==
  [ListSystems |-> Typed({200}), ListSystemsPower |-> AList, GetSystem |-> Typed({200, 404}),
   UpdateSystem |-> Typed({200})]

SystemActionResponses ==
  [CollectSystemDump |-> Typed({202}), UpgradeSystemFirmware |-> Typed({202}),
   SetSystemHealth |-> ErrorsOnly, RebootSystem |-> Typed({202}), UpgradeSystemSoftware |-> Typed({202})]

TelemetryResponses ==
  [GetHistoryTelemetry |-> Typed({200}), GetTopTelemetry |-> Typed({200})]

TemplateResponses ==
  [ListTemplates |-> AList, CreateTemplate |-> ErrorsOnly, RefreshTemplates |-> ErrorsOnly,
   DeleteTemplate |-> ErrorsOnly, GetTemplate |-> Typed({200}), ExecuteTemplate |-> Typed({202})]

RemainingResponses ==
  [CreateToken |-> Typed({200}), GetVersion |-> Typed({200}), ListVirtualPorts |-> Typed({200})]

Readers ==
     CableImageResponses @@ ConfigResponses @@ DiscoveryResponses
   @@ EnvironmentResponses @@ LocalNetworkResponses @@ LogicalServerResponses
   @@ ComputeResponses @@ FabricValidationResponses @@ JobResponses
   @@ LinkResponses @@ MirroringResponses @@ MonitoringResponses
   @@ MonitoringSessionResponses @@ MonitoringTemplateResponses
   @@ NetworkResponses @@ PartitionResponses @@ PartitionHostResponses
   @@ PartitionMemberResponses @@ PartitionSettingResponses @@ PortResponses
   @@ ReportResponses @@ SystemResponses @@ SystemActionResponses
   @@ TelemetryResponses @@ TemplateResponses @@ RemainingResponses

-----------------------------------------------------------------------------
(* The shapes of an answer's body.  A page is an object.                   *)
Objects == {"object", "page", "error"}
Shapes  == {"none", "list"} \cup Objects

(* What a caller holds after its call: the field an answer is in, "typed"  *)
(* or "default"; no field, of an answer without a body; or an error, of an *)
(* answer that does not fit its field, or because there was no answer.     *)
GoError  == "goerror"
NoAnswer == "noanswer"
Waiting  == "waiting"

Fields == {Waiting, NoAnswer, GoError, "nothing", "typed", "default"}

(* Mutated form of ParseResponse: JSON200 is the only field of its kind.   *)
ParseResponseOf200(op, status, shape) ==
  IF shape = "none" THEN "nothing"
  ELSE IF status = 200 /\ status \in Readers[op].statuses THEN "typed" ELSE "default"

(* json.Unmarshal of an array into a struct or a map is an error, and so   *)
(* is an object for a slice.                                               *)
ParseResponse(op, status, shape) ==
  LET documented == status \in Readers[op].statuses
      wantsList  == documented /\ Readers[op].list
  IN CASE shape = "none"                  -> "nothing"
       [] shape = "list" /\ ~wantsList    -> GoError
       [] shape \in Objects /\ wantsList  -> GoError
       [] OTHER -> IF documented THEN "typed" ELSE "default"
=============================================================================
