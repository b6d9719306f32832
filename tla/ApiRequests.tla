----------------------------- MODULE ApiRequests ------------------------------
(***************************************************************************)
(* The requests the generated Go client makes (pkg/client/client.gen.go):   *)
(* for each operation of the API the method, the path, the query parameters *)
(* its caller may set, and whether it has a body.  The builders             *)
(* New...Request put the arguments of a call in this order into the path:   *)
(* the first argument for P1, the second for P2.                            *)
(***************************************************************************)
EXTENDS ApiPaths

Asks(method, path, query, body) ==
  [method |-> method, path |-> path, query |-> query, body |-> body]

Plain(method, path)            == Asks(method, path, {}, FALSE)
WithQuery(method, path, query) == Asks(method, path, query, FALSE)
WithBody(method, path)         == Asks(method, path, {}, TRUE)

-----------------------------------------------------------------------------
(* One table for each group of operations, in the order of the client.     *)

CableImageRequests ==
  [ListCableImages  |-> Plain("GET", <<"cable-images">>),
   UploadCableImage |-> WithBody("POST", <<"cable-images">>),
   DeleteCableImage |-> Plain("DELETE", <<"cable-images", P1>>)]

ConfigRequests ==
  [GetConfig            |-> Plain("GET", <<"config">>),
   UpdateConfig         |-> WithBody("PATCH", <<"config">>),
   ConfigureDumpStorage |-> WithBody("PUT", <<"config", "dump-storage">>)]

DiscoveryRequests ==
  [GetInventorySummary    |-> WithQuery("GET", <<"discovery", "inventory">>, {"include_ports"}),
   GetInventoryCount      |-> Plain("GET", <<"discovery", "inventory", "count">>),
   RefreshFabricDiscovery |-> Plain("POST", <<"discovery", "refresh">>)]

EnvironmentRequests ==
  [ListEnvironments  |-> WithQuery("GET", <<"environments">>, Paging),
   CreateEnvironment |-> WithBody("POST", <<"environments">>),
   DeleteEnvironment |-> Plain("DELETE", <<"environments", P1>>),
   GetEnvironment    |-> Plain("GET", <<"environments", P1>>),
   UpdateEnvironment |-> WithBody("PUT", <<"environments", P1>>)]

LocalNetworkRequests ==
  [ListLocalNetworks  |-> Plain("GET", <<"environments", P1, "networks">>),
   CreateLocalNetwork |-> WithBody("POST", <<"environments", P1, "networks">>)]

LogicalServerRequests ==
  [ListLogicalServers  |-> Plain("GET", <<"environments", P1, "servers">>),
   CreateLogicalServer |-> WithBody("POST", <<"environments", P1, "servers">>),
   DeleteLogicalServer |-> Plain("DELETE", <<"environments", P1, "servers", P2>>),
   GetLogicalServer    |-> Plain("GET", <<"environments", P1, "servers", P2>>)]

ComputeRequests ==
  [FreeComputes   |-> Plain("DELETE", <<"environments", P1, "servers", P2, "computes">>),
   ListComputes   |-> Plain("GET", <<"environments", P1, "servers", P2, "computes">>),
   AssignComputes |-> WithBody("PUT", <<"environments", P1, "servers", P2, "computes">>)]

FabricValidationRequests ==
  [ListFabricValidationTests |-> Plain("GET", <<"fabric-validations">>),
   RunFabricValidationTest   |-> Plain("POST", <<"fabric-validations", P1>>)]

JobRequests ==
  [AbortAllJobs |-> Plain("DELETE", <<"jobs">>),
   ListJobs     |-> WithQuery("GET", <<"jobs">>,
                    Paging \cup {"status", "operation", "parent_only", "system_ids"}),
   DeleteJob    |-> Plain("DELETE", <<"jobs", P1>>),
   GetJob       |-> WithQuery("GET", <<"jobs", P1>>, {"include"}),
   AbortJob     |-> Plain("POST", <<"jobs", P1, "abort">>)]

LinkRequests ==
  [ListLinks       |-> WithQuery("GET", <<"links">>, Paging),
   CollectLinkDump |-> WithBody("POST", <<"links", "dump">>)]

MirroringRequests ==
  [CreateMirroringTemplate |-> WithBody("POST", <<"mirroring">>),
   ExecuteMirroringAction  |-> WithBody("POST", <<"mirroring", "actions">>),
   DeleteMirroringTemplate |-> Plain("DELETE", <<"mirroring", P1>>),
   GetMirroringTemplate    |-> Plain("GET", <<"mirroring", P1>>),
   UpdateMirroringTemplate |-> WithBody("PUT", <<"mirroring", P1>>)]

MonitoringRequests ==
  [ListMonitoringAttributes |-> Plain("GET", <<"monitoring", "attributes">>),
   GetCongestionMap         |-> Plain("GET", <<"monitoring", "congestion">>),
   GetPerformanceCounters   |-> WithBody("POST", <<"monitoring", "counters">>),
   GetPortGroupMetrics      |-> Plain("GET", <<"monitoring", "port-groups">>)]

MonitoringSessionRequests ==
  [CreateMonitoringSession  |-> WithBody("POST", <<"monitoring", "sessions">>),
   DeleteMonitoringSession  |-> Plain("DELETE", <<"monitoring", "sessions", P1>>),
   GetMonitoringSession     |-> Plain("GET", <<"monitoring", "sessions", P1>>),
   GetMonitoringSessionData |-> WithQuery("GET", <<"monitoring", "sessions", P1, "data">>, {"partition"}),
   CreateMonitoringSnapshot |-> WithBody("POST", <<"monitoring", "snapshots">>)]

MonitoringTemplateRequests ==
  [ListMonitoringTemplates  |-> Plain("GET", <<"monitoring", "templates">>),
   CreateMonitoringTemplate |-> WithBody("POST", <<"monitoring", "templates">>),
   DeleteMonitoringTemplate |-> Plain("DELETE", <<"monitoring", "templates", P1>>),
   GetMonitoringTemplate    |-> Plain("GET", <<"monitoring", "templates", P1>>),
   UpdateMonitoringTemplate |-> WithBody("PUT", <<"monitoring", "templates", P1>>)]

NetworkRequests ==
  [ListGlobalNetworks  |-> Plain("GET", <<"networks">>),
   CreateGlobalNetwork |-> WithBody("POST", <<"networks">>),
   DeleteGlobalNetwork |-> Plain("DELETE", <<"networks", P1>>),
   GetGlobalNetwork    |-> Plain("GET", <<"networks", P1>>),
   UpdateGlobalNetwork |-> WithBody("PUT", <<"networks", P1>>)]

PartitionRequests ==
  [ListPartitions   |-> WithQuery("GET", <<"partitions">>, Paging \cup {"include"}),
   CreatePartition  |-> WithBody("POST", <<"partitions">>),
   DeletePartition  |-> Plain("DELETE", <<"partitions", P1>>),
   GetPartition     |-> WithQuery("GET", <<"partitions", P1>>, {"include"}),
   ReplacePartition |-> WithBody("PUT", <<"partitions", P1>>)]

PartitionHostRequests ==
  [RemovePartitionHosts    |-> WithBody("DELETE", <<"partitions", P1, "hosts">>),
   AddPartitionHosts       |-> WithBody("POST", <<"partitions", P1, "hosts">>),
   GetPartitionLastUpdated |-> Plain("GET", <<"partitions", P1, "last-updated">>)]

PartitionMemberRequests ==
  [RemovePartitionMembers |-> WithBody("DELETE", <<"partitions", P1, "members">>),
   ListPartitionMembers   |-> WithQuery("GET", <<"partitions", P1, "members">>, Paging),
   AddPartitionMembers    |-> WithBody("POST", <<"partitions", P1, "members">>)]

PartitionSettingRequests ==
  [UpdatePartitionQoS   |-> WithBody("PUT", <<"partitions", P1, "qos">>),
   UpdatePartitionSHARP |-> WithBody("PUT", <<"partitions", P1, "sharp">>)]

PortRequests ==
  [ListPorts   |-> WithQuery("GET", <<"ports">>,
                   Paging \cup {"system", "system_type", "active", "external", "high_ber",
                              "high_ber_severity", "include"}),
   GetPort     |-> Plain("GET", <<"ports", P1>>),
   DisablePort |-> Plain("POST", <<"ports", P1, "disable">>),
   EnablePort  |-> Plain("POST", <<"ports", P1, "enable">>),
   ResetPort   |-> Plain("POST", <<"ports", P1, "reset">>)]

ReportRequests ==
  [CreateReport    |-> WithBody("POST", <<"reports">>),
   GetLatestReport |-> Plain("GET", <<"reports", "latest", P1>>),
   DeleteReport    |-> Plain("DELETE", <<"reports", P1>>),
   GetReport       |-> Plain("GET", <<"reports", P1>>)]

SystemRequests ==
  [ListSystems      |-> WithQuery("GET", <<"systems">>,
                        Paging \cup {"type", "model", "role", "ip", "rack", "compute_status", "include"}),
   ListSystemsPower |-> Plain("GET", <<"systems", "power">>),
   GetSystem        |-> WithQuery("GET", <<"systems", P1>>, {"include"}),
   UpdateSystem     |-> WithBody("PATCH", <<"systems", P1>>)]

SystemActionRequests ==
  [CollectSystemDump     |-> Plain("POST", <<"systems", P1, "dump">>),
   UpgradeSystemFirmware |-> WithBody("POST", <<"systems", P1, "firmware">>),
   SetSystemHealth       |-> WithBody("PUT", <<"systems", P1, "health">>),
   RebootSystem          |-> WithBody("POST", <<"systems", P1, "reboot">>),
   UpgradeSystemSoftware |-> WithBody("POST", <<"systems", P1, "software">>)]

TelemetryRequests ==
  [GetHistoryTelemetry |-> WithQuery("GET", <<"telemetry", "history">>,
                           {"members_type", "attributes", "members", "start_time", "end_time"}),
   GetTopTelemetry     |-> WithQuery("GET", <<"telemetry", "top">>,
                           {"members_type", "pick_by", "limit", "attributes"})]

TemplateRequests ==
  [ListTemplates    |-> WithQuery("GET", <<"templates">>, {"tags", "profile", "system_type"}),
   CreateTemplate   |-> WithBody("POST", <<"templates">>),
   RefreshTemplates |-> Plain("POST", <<"templates", "refresh">>),
   DeleteTemplate   |-> Plain("DELETE", <<"templates", P1>>),
   GetTemplate      |-> Plain("GET", <<"templates", P1>>),
   ExecuteTemplate  |-> WithBody("POST", <<"templates", P1, "execute">>)]

RemainingRequests ==
  [CreateToken      |-> Plain("POST", <<"tokens">>),
   GetVersion       |-> Plain("GET", <<"version">>),
   ListVirtualPorts |-> WithQuery("GET", <<"virtual-ports">>, Paging \cup {"system", "port"})]

Requests ==
     CableImageRequests @@ ConfigRequests @@ DiscoveryRequests
   @@ EnvironmentRequests @@ LocalNetworkRequests @@ LogicalServerRequests
   @@ ComputeRequests @@ FabricValidationRequests @@ JobRequests
   @@ LinkRequests @@ MirroringRequests @@ MonitoringRequests
   @@ MonitoringSessionRequests @@ MonitoringTemplateRequests
   @@ NetworkRequests @@ PartitionRequests @@ PartitionHostRequests
   @@ PartitionMemberRequests @@ PartitionSettingRequests @@ PortRequests
   @@ ReportRequests @@ SystemRequests @@ SystemActionRequests
   @@ TelemetryRequests @@ TemplateRequests @@ RemainingRequests

Operations == DOMAIN Requests
=============================================================================
