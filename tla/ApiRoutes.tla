------------------------------ MODULE ApiRoutes -------------------------------
(***************************************************************************)
(* The generated server stubs (internal/handler/server.gen.go): the routes  *)
(* that are registered with Echo, and for each operation what its wrapper   *)
(* takes from the request and hands to the handler.  A query parameter that *)
(* is required and not there is answered 400.                               *)
(* Echo's router is external: of the paths that fit and have the method it  *)
(* takes the one with a segment of its own where another has a parameter.   *)
(***************************************************************************)
EXTENDS ApiPaths

(* The handlers that are registered for a path, by method.                 *)
Routes ==
     <<"cable-images">> :> [GET |-> "ListCableImages", POST |-> "UploadCableImage"]
  @@ <<"cable-images", P1>> :> [DELETE |-> "DeleteCableImage"]
  @@ <<"config">> :> [GET |-> "GetConfig", PATCH |-> "UpdateConfig"]
  @@ <<"config", "dump-storage">> :> [PUT |-> "ConfigureDumpStorage"]
  @@ <<"discovery", "inventory">> :> [GET |-> "GetInventorySummary"]
  @@ <<"discovery", "inventory", "count">> :> [GET |-> "GetInventoryCount"]
  @@ <<"discovery", "refresh">> :> [POST |-> "RefreshFabricDiscovery"]
  @@ <<"environments">> :> [GET |-> "ListEnvironments", POST |-> "CreateEnvironment"]
  @@ <<"environments", P1>> :> [DELETE |-> "DeleteEnvironment", GET |-> "GetEnvironment", PUT |-> "UpdateEnvironment"]
  @@ <<"environments", P1, "networks">> :> [GET |-> "ListLocalNetworks", POST |-> "CreateLocalNetwork"]
  @@ <<"environments", P1, "servers">> :> [GET |-> "ListLogicalServers", POST |-> "CreateLogicalServer"]
  @@ <<"environments", P1, "servers", P2>> :> [DELETE |-> "DeleteLogicalServer", GET |-> "GetLogicalServer"]
  @@ <<"environments", P1, "servers", P2, "computes">> :> [DELETE |-> "FreeComputes", GET |-> "ListComputes", PUT |-> "AssignComputes"]
  @@ <<"fabric-validations">> :> [GET |-> "ListFabricValidationTests"]
  @@ <<"fabric-validations", P1>> :> [POST |-> "RunFabricValidationTest"]
  @@ <<"jobs">> :> [DELETE |-> "AbortAllJobs", GET |-> "ListJobs"]
  @@ <<"jobs", P1>> :> [DELETE |-> "DeleteJob", GET |-> "GetJob"]
  @@ <<"jobs", P1, "abort">> :> [POST |-> "AbortJob"]
  @@ <<"links">> :> [GET |-> "ListLinks"]
  @@ <<"links", "dump">> :> [POST |-> "CollectLinkDump"]
  @@ <<"mirroring">> :> [POST |-> "CreateMirroringTemplate"]
  @@ <<"mirroring", "actions">> :> [POST |-> "ExecuteMirroringAction"]
  @@ <<"mirroring", P1>> :> [DELETE |-> "DeleteMirroringTemplate", GET |-> "GetMirroringTemplate", PUT |-> "UpdateMirroringTemplate"]
  @@ <<"monitoring", "attributes">> :> [GET |-> "ListMonitoringAttributes"]
  @@ <<"monitoring", "congestion">> :> [GET |-> "GetCongestionMap"]
  @@ <<"monitoring", "counters">> :> [POST |-> "GetPerformanceCounters"]
  @@ <<"monitoring", "port-groups">> :> [GET |-> "GetPortGroupMetrics"]
  @@ <<"monitoring", "sessions">> :> [POST |-> "CreateMonitoringSession"]
  @@ <<"monitoring", "sessions", P1>> :> [DELETE |-> "DeleteMonitoringSession", GET |-> "GetMonitoringSession"]
  @@ <<"monitoring", "sessions", P1, "data">> :> [GET |-> "GetMonitoringSessionData"]
  @@ <<"monitoring", "snapshots">> :> [POST |-> "CreateMonitoringSnapshot"]
  @@ <<"monitoring", "templates">> :> [GET |-> "ListMonitoringTemplates", POST |-> "CreateMonitoringTemplate"]
  @@ <<"monitoring", "templates", P1>> :> [DELETE |-> "DeleteMonitoringTemplate", GET |-> "GetMonitoringTemplate", PUT |-> "UpdateMonitoringTemplate"]
  @@ <<"networks">> :> [GET |-> "ListGlobalNetworks", POST |-> "CreateGlobalNetwork"]
  @@ <<"networks", P1>> :> [DELETE |-> "DeleteGlobalNetwork", GET |-> "GetGlobalNetwork", PUT |-> "UpdateGlobalNetwork"]
  @@ <<"partitions">> :> [GET |-> "ListPartitions", POST |-> "CreatePartition"]
  @@ <<"partitions", P1>> :> [DELETE |-> "DeletePartition", GET |-> "GetPartition", PUT |-> "ReplacePartition"]
  @@ <<"partitions", P1, "hosts">> :> [DELETE |-> "RemovePartitionHosts", POST |-> "AddPartitionHosts"]
  @@ <<"partitions", P1, "last-updated">> :> [GET |-> "GetPartitionLastUpdated"]
  @@ <<"partitions", P1, "members">> :> [DELETE |-> "RemovePartitionMembers", GET |-> "ListPartitionMembers", POST |-> "AddPartitionMembers"]
  @@ <<"partitions", P1, "qos">> :> [PUT |-> "UpdatePartitionQoS"]
  @@ <<"partitions", P1, "sharp">> :> [PUT |-> "UpdatePartitionSHARP"]
  @@ <<"ports">> :> [GET |-> "ListPorts"]
  @@ <<"ports", P1>> :> [GET |-> "GetPort"]
  @@ <<"ports", P1, "disable">> :> [POST |-> "DisablePort"]
  @@ <<"ports", P1, "enable">> :> [POST |-> "EnablePort"]
  @@ <<"ports", P1, "reset">> :> [POST |-> "ResetPort"]
  @@ <<"reports">> :> [POST |-> "CreateReport"]
  @@ <<"reports", "latest", P1>> :> [GET |-> "GetLatestReport"]
  @@ <<"reports", P1>> :> [DELETE |-> "DeleteReport", GET |-> "GetReport"]
  @@ <<"systems">> :> [GET |-> "ListSystems"]
  @@ <<"systems", "power">> :> [GET |-> "ListSystemsPower"]
  @@ <<"systems", P1>> :> [GET |-> "GetSystem", PATCH |-> "UpdateSystem"]
  @@ <<"systems", P1, "dump">> :> [POST |-> "CollectSystemDump"]
  @@ <<"systems", P1, "firmware">> :> [POST |-> "UpgradeSystemFirmware"]
  @@ <<"systems", P1, "health">> :> [PUT |-> "SetSystemHealth"]
  @@ <<"systems", P1, "reboot">> :> [POST |-> "RebootSystem"]
  @@ <<"systems", P1, "software">> :> [POST |-> "UpgradeSystemSoftware"]
  @@ <<"telemetry", "history">> :> [GET |-> "GetHistoryTelemetry"]
  @@ <<"telemetry", "top">> :> [GET |-> "GetTopTelemetry"]
  @@ <<"templates">> :> [GET |-> "ListTemplates", POST |-> "CreateTemplate"]
  @@ <<"templates", "refresh">> :> [POST |-> "RefreshTemplates"]
  @@ <<"templates", P1>> :> [DELETE |-> "DeleteTemplate", GET |-> "GetTemplate"]
  @@ <<"templates", P1, "execute">> :> [POST |-> "ExecuteTemplate"]
  @@ <<"tokens">> :> [POST |-> "CreateToken"]
  @@ <<"version">> :> [GET |-> "GetVersion"]
  @@ <<"virtual-ports">> :> [GET |-> "ListVirtualPorts"]

Candidates(method, path) == {p \in DOMAIN Routes : Fits(p, path) /\ method \in DOMAIN Routes[p]}

(* Mutated form of Matched: a parameter is preferred.                      *)
MatchedLoosely(method, path) ==
  CHOOSE p \in Candidates(method, path) :
    \A q \in Candidates(method, path) : p = q \/ MoreSpecific(q, p)

Matched(method, path) ==
  CHOOSE p \in Candidates(method, path) :
    \A q \in Candidates(method, path) : p = q \/ MoreSpecific(p, q)

-----------------------------------------------------------------------------
(* What a wrapper takes: path parameters in the order the handler has      *)
(* them, and query parameters it requires or may be given.                 *)
Takes(names, optional) == [names |-> names, required |-> {}, optional |-> optional]

Requires(required, optional) == [names |-> <<>>, required |-> required, optional |-> optional]

NoParameters == Takes(<<>>, {})
OneName      == Takes(<<P1>>, {})
TwoNames     == Takes(<<P1, P2>>, {})

CableImageParameters ==
  [ListCableImages |-> NoParameters, UploadCableImage |-> NoParameters, DeleteCableImage |-> OneName]

ConfigParameters ==
  [GetConfig |-> NoParameters, UpdateConfig |-> NoParameters, ConfigureDumpStorage |-> NoParameters]

DiscoveryParameters ==
  [GetInventorySummary |-> Takes(<<>>, {"include_ports"}), GetInventoryCount |-> NoParameters,
   RefreshFabricDiscovery |-> NoParameters]

EnvironmentParameters ==
  [ListEnvironments |-> Takes(<<>>, Paging), CreateEnvironment |-> NoParameters,
   DeleteEnvironment |-> OneName, GetEnvironment |-> OneName, UpdateEnvironment |-> OneName]

LocalNetworkParameters ==
  [ListLocalNetworks |-> OneName, CreateLocalNetwork |-> OneName]

LogicalServerParameters ==
  [ListLogicalServers |-> OneName, CreateLogicalServer |-> OneName, DeleteLogicalServer |-> TwoNames,
   GetLogicalServer |-> TwoNames]

ComputeParameters ==
  [FreeComputes |-> TwoNames, ListComputes |-> TwoNames, AssignComputes |-> TwoNames]

FabricValidationParameters ==
  [ListFabricValidationTests |-> NoParameters, RunFabricValidationTest |-> OneName]

JobParameters ==
  [AbortAllJobs |-> NoParameters,
   ListJobs |-> Takes(<<>>, Paging \cup {"status", "operation", "parent_only", "system_ids"}),
   DeleteJob |-> OneName, GetJob |-> Takes(<<P1>>, {"include"}), AbortJob |-> OneName]

LinkParameters ==
  [ListLinks |-> Takes(<<>>, Paging), CollectLinkDump |-> NoParameters]

MirroringParameters ==
  [CreateMirroringTemplate |-> NoParameters, ExecuteMirroringAction |-> NoParameters,
   DeleteMirroringTemplate |-> OneName, GetMirroringTemplate |-> OneName,
   UpdateMirroringTemplate |-> OneName]

MonitoringParameters ==
  [ListMonitoringAttributes |-> NoParameters, GetCongestionMap |-> NoParameters,
   GetPerformanceCounters |-> NoParameters, GetPortGroupMetrics |-> NoParameters]

MonitoringSessionParameters ==
  [CreateMonitoringSession |-> NoParameters, DeleteMonitoringSession |-> OneName,
   GetMonitoringSession |-> OneName, GetMonitoringSessionData |-> Takes(<<P1>>, {"partition"}),
   CreateMonitoringSnapshot |-> NoParameters]

MonitoringTemplateParameters ==
  [ListMonitoringTemplates |-> NoParameters, CreateMonitoringTemplate |-> NoParameters,
   DeleteMonitoringTemplate |-> OneName, GetMonitoringTemplate |-> OneName,
   UpdateMonitoringTemplate |-> OneName]

NetworkParameters ==
  [ListGlobalNetworks |-> NoParameters, CreateGlobalNetwork |-> NoParameters,
   DeleteGlobalNetwork |-> OneName, GetGlobalNetwork |-> OneName, UpdateGlobalNetwork |-> OneName]

PartitionParameters ==
  [ListPartitions |-> Takes(<<>>, Paging \cup {"include"}), CreatePartition |-> NoParameters,
   DeletePartition |-> OneName, GetPartition |-> Takes(<<P1>>, {"include"}), ReplacePartition |-> OneName]

PartitionHostParameters ==
  [RemovePartitionHosts |-> OneName, AddPartitionHosts |-> OneName, GetPartitionLastUpdated |-> OneName]

PartitionMemberParameters ==
  [RemovePartitionMembers |-> OneName, ListPartitionMembers |-> Takes(<<P1>>, Paging),
   AddPartitionMembers |-> OneName]

PartitionSettingParameters ==
  [UpdatePartitionQoS |-> OneName, UpdatePartitionSHARP |-> OneName]

PortParameters ==
  [ListPorts |-> Takes(<<>>, Paging \cup {"system", "system_type", "active", "external", "high_ber",
                                 "high_ber_severity", "include"}),
   GetPort |-> OneName, DisablePort |-> OneName, EnablePort |-> OneName, ResetPort |-> OneName]

ReportParameters ==
  [CreateReport |-> NoParameters, GetLatestReport |-> OneName, DeleteReport |-> OneName,
   GetReport |-> OneName]

SystemParameters ==
  [ListSystems |-> Takes(<<>>, Paging \cup {"type", "model", "role", "ip", "rack",
                                   "compute_status", "include"}),
   ListSystemsPower |-> NoParameters, GetSystem |-> Takes(<<P1>>, {"include"}), UpdateSystem |-> OneName]

SystemActionParameters ==
  [CollectSystemDump |-> OneName, UpgradeSystemFirmware |-> OneName, SetSystemHealth |-> OneName,
   RebootSystem |-> OneName, UpgradeSystemSoftware |-> OneName]

TelemetryParameters ==
  [GetHistoryTelemetry |-> Requires({"members_type", "attributes", "members", "start_time", "end_time"}, {}),
   GetTopTelemetry |-> Requires({"members_type", "pick_by"}, {"limit", "attributes"})]

TemplateParameters ==
  [ListTemplates |-> Takes(<<>>, {"tags", "profile", "system_type"}), CreateTemplate |-> NoParameters,
   RefreshTemplates |-> NoParameters, DeleteTemplate |-> OneName, GetTemplate |-> OneName,
   ExecuteTemplate |-> OneName]

RemainingParameters ==
  [CreateToken |-> NoParameters, GetVersion |-> NoParameters,
   ListVirtualPorts |-> Takes(<<>>, Paging \cup {"system", "port"})]

Wrappers ==
     CableImageParameters @@ ConfigParameters @@ DiscoveryParameters
   @@ EnvironmentParameters @@ LocalNetworkParameters
   @@ LogicalServerParameters @@ ComputeParameters
   @@ FabricValidationParameters @@ JobParameters @@ LinkParameters
   @@ MirroringParameters @@ MonitoringParameters
   @@ MonitoringSessionParameters @@ MonitoringTemplateParameters
   @@ NetworkParameters @@ PartitionParameters @@ PartitionHostParameters
   @@ PartitionMemberParameters @@ PartitionSettingParameters
   @@ PortParameters @@ ReportParameters @@ SystemParameters
   @@ SystemActionParameters @@ TelemetryParameters @@ TemplateParameters
   @@ RemainingParameters
=============================================================================
