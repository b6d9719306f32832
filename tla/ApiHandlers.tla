----------------------------- MODULE ApiHandlers -----------------------------
(***************************************************************************)
(* The handlers (internal/handler/server.go): the calls of the raw client  *)
(* each makes when all goes well, with which arguments; the query          *)
(* parameters that take part; whether an unreadable body is refused; and   *)
(* the status and the shape of the answer of success.                      *)
(*                                                                         *)
(* P1 and P2 are the names a handler is given from the path, Body is what  *)
(* the request's body names: what is to be made, or what is to be acted    *)
(* on.  All other content of a request is left out, save that it chooses   *)
(* between the plans of a handler that has several.                        *)
(***************************************************************************)
EXTENDS ApiPaths

Body == "{body}"

Invoke(method, args) == [method |-> method, args |-> args]

(* A handler that does one of several things, depending on the content of  *)
(* the request; the first is what it does of a body that is empty.         *)
Either(plans, status, shape) ==
  [plans |-> plans, uses |-> {}, binds |-> FALSE, status |-> status, shape |-> shape]

Via(method, args, status, shape) == Either(<< <<Invoke(method, args)>> >>, status, shape)

Binding(h)    == [h EXCEPT !.binds = TRUE]
Using(h, set) == [h EXCEPT !.uses = set]

(* What most handlers are like.  Whatever(...) hands on what UFM answered. *)
ThePage(method, args, set) == Using(Via(method, args, 200, "page"), set)
TheList(method, args)      == Via(method, args, 200, "list")
TheObject(method, args)    == Via(method, args, 200, "object")
Whatever(method, args)     == Via(method, args, 200, "any")
Done(method, args)         == Via(method, args, 204, "none")
Accepted(method, args)     == Via(method, args, 202, "none")
AcceptedJob(method, args)  == Via(method, args, 202, "object")
Created(method, args)      == Binding(Via(method, args, 201, "object"))
CreatedSilently(method, args) == Binding(Via(method, args, 201, "none"))

-----------------------------------------------------------------------------
PartitionHandlers ==
  [ListPartitions |->
     Using(Either(<< <<Invoke("ListPKeys", <<>>)>>, <<Invoke("ListPKeysDetailed", <<>>)>> >>, 200, "page"),
           Paging \cup {"include"}),
   CreatePartition |->
     Binding(Either(<< <<Invoke("CreateEmptyPKey", <<Body>>)>>, <<Invoke("AddGUIDsToPKey", <<Body>>)>> >>,
                    201, "object")),
   DeletePartition  |-> Done("DeletePKey", <<P1>>),
   GetPartition     |-> Using(TheObject("GetPKey", <<P1>>), {"include"}),
   ReplacePartition |-> Binding(Done("SetPKeyGUIDs", <<P1>>))]

PartitionMemberHandlers ==
  [ListPartitionMembers    |-> ThePage("GetPKey", <<P1>>, Paging),
   AddPartitionMembers     |-> Binding(Done("AddGUIDsToPKey", <<P1>>)),
   RemovePartitionMembers  |-> Binding(Done("RemoveGUIDsFromPKey", <<P1>>)),
   AddPartitionHosts       |-> Binding(AcceptedJob("AddHostsToPKey", <<P1>>)),
   RemovePartitionHosts    |-> Binding(Done("RemoveHostsFromPKey", <<P1>>)),
   GetPartitionLastUpdated |-> TheObject("GetPKeyLastUpdated", <<>>),
   UpdatePartitionQoS      |-> Binding(Done("UpdatePKeyQoS", <<P1>>)),
   UpdatePartitionSHARP    |-> Binding(Done("SetPKeySHARP", <<P1>>))]

SystemHandlers ==
  LET Basics     == Invoke("UpdateSystem", <<P1>>)
      Properties == Invoke("UpdateSystemProperties", <<P1>>)
  IN [ListSystems |-> ThePage("ListSystems", <<>>,
        Paging \cup {"type", "model", "role", "ip", "rack", "compute_status", "include"}),
      GetSystem    |-> TheObject("GetSystem", <<P1>>),
      UpdateSystem |-> Binding(Either(<< <<>>, <<Basics>>, <<Properties>>, <<Basics, Properties>> >>,
                                      204, "none")),
      ListSystemsPower |-> TheList("GetSystemsPower", <<>>)]

(* GetPort asks for a list of ports and answers 404 itself where that is   *)
(* empty; here the port is not found by UFM.                               *)
PortHandlers ==
  [ListPorts |-> ThePage("ListPorts", <<>>, Paging \cup
     {"system", "system_type", "active", "external", "high_ber", "high_ber_severity", "include"}),
   GetPort     |-> TheObject("GetPorts", <<P1>>),
   DisablePort |-> Accepted("DisablePort", <<P1>>),
   EnablePort  |-> Accepted("EnablePort", <<P1>>),
   ResetPort   |-> Accepted("ResetPort", <<P1>>)]

LinkHandlers ==
  [ListLinks        |-> ThePage("ListLinks", <<>>, Paging),
   CollectLinkDump  |-> Binding(Accepted("CollectSystemDump", <<Body>>)),
   ListVirtualPorts |-> ThePage("ListVirtualPorts", <<>>, Paging \cup {"system", "port"})]

JobHandlers ==
  [ListJobs |-> ThePage("ListJobs", <<>>,
     Paging \cup {"status", "operation", "parent_only", "system_ids"}),
   GetJob       |-> Using(TheObject("GetJob", <<P1>>), {"include"}),
   DeleteJob    |-> Done("DeleteJob", <<P1>>),
   AbortAllJobs |-> Done("AbortAllJobs", <<>>),
   AbortJob     |-> Accepted("AbortAllJobs", <<>>)]

MonitoringHandlers ==
  [ListMonitoringAttributes |-> Whatever("GetMonitoringAttributes", <<>>),
   GetCongestionMap         |-> Whatever("GetCongestion", <<>>),
   GetPerformanceCounters   |-> Binding(Whatever("GetPerformanceCounters", <<>>)),
   GetPortGroupMetrics      |-> Whatever("GetPortGroups", <<>>),
   CreateMonitoringSession  |-> Created("CreateMonitoringSession", <<>>),
   GetMonitoringSession     |-> TheObject("GetMonitoringSession", <<P1>>),
   GetMonitoringSessionData |-> Using(Whatever("GetMonitoringSessionData", <<P1>>), {"partition"}),
   DeleteMonitoringSession  |-> Done("DeleteMonitoringSession", <<P1>>),
   CreateMonitoringSnapshot |-> Binding(Whatever("CreateMonitoringSnapshot", <<>>))]

MonitoringTemplateHandlers ==
  [ListMonitoringTemplates  |-> TheList("ListMonitoringTemplates", <<>>),
   GetMonitoringTemplate    |-> TheObject("GetMonitoringTemplate", <<P1>>),
   CreateMonitoringTemplate |-> CreatedSilently("CreateMonitoringTemplate", <<Body>>),
   UpdateMonitoringTemplate |-> Binding(Done("UpdateMonitoringTemplate", <<P1>>)),
   DeleteMonitoringTemplate |-> Done("DeleteMonitoringTemplate", <<P1>>)]

TelemetryHandlers ==
  [GetHistoryTelemetry |-> Using(Whatever("GetHistoryTelemetry", <<>>),
     {"members_type", "attributes", "members", "start_time", "end_time"}),
   GetTopTelemetry |-> Using(Whatever("GetTopTelemetry", <<>>),
     {"members_type", "pick_by", "limit", "attributes"})]

EnvironmentHandlers ==
  [ListEnvironments  |-> ThePage("ListEnvironments", <<>>, Paging),
   CreateEnvironment |-> Created("CreateEnvironment", <<Body>>),
   GetEnvironment    |-> TheObject("GetEnvironment", <<P1>>),
   UpdateEnvironment |-> Binding(Done("UpdateEnvironment", <<P1>>)),
   DeleteEnvironment |-> Done("DeleteEnvironment", <<P1>>)]

LogicalServerHandlers ==
  [ListLogicalServers  |-> TheList("ListLogicalServers", <<P1>>),
   CreateLogicalServer |-> Created("CreateLogicalServer", <<P1, Body>>),
   GetLogicalServer    |-> TheObject("GetLogicalServer", <<P1, P2>>),
   DeleteLogicalServer |-> Done("DeleteLogicalServer", <<P1, P2>>),
   ListComputes        |-> TheList("ListComputes", <<P1, P2>>),
   AssignComputes      |-> Binding(Done("AllocateComputes", <<P1, P2>>)),
   FreeComputes        |-> Done("FreeComputes", <<P1, P2>>)]

NetworkHandlers ==
  [ListGlobalNetworks  |-> TheList("ListGlobalNetworks", <<>>),
   CreateGlobalNetwork |-> Created("CreateGlobalNetwork", <<Body>>),
   GetGlobalNetwork    |-> TheObject("GetGlobalNetwork", <<P1>>),
   UpdateGlobalNetwork |-> Binding(Done("UpdateGlobalNetwork", <<Body>>)),
   DeleteGlobalNetwork |-> Done("DeleteGlobalNetwork", <<P1>>),
   ListLocalNetworks   |-> TheList("ListLocalNetworks", <<P1>>),
   CreateLocalNetwork  |-> Created("CreateLocalNetwork", <<P1, Body>>)]

MirroringHandlers ==
  [CreateMirroringTemplate |-> CreatedSilently("CreateMirroringTemplate", <<Body>>),
   GetMirroringTemplate    |-> TheObject("GetMirroringTemplate", <<P1>>),
   UpdateMirroringTemplate |-> Binding(Done("UpdateMirroringTemplate", <<P1>>)),
   DeleteMirroringTemplate |-> Done("DeleteMirroringTemplate", <<P1>>),
   ExecuteMirroringAction  |-> Binding(Accepted("ExecuteMirroringAction", <<Body>>))]

TemplateHandlers ==
  [ListTemplates    |-> Using(TheList("ListTemplates", <<>>), {"tags", "profile", "system_type"}),
   GetTemplate      |-> TheObject("GetTemplate", <<P1>>),
   CreateTemplate   |-> CreatedSilently("CreateTemplate", <<Body>>),
   DeleteTemplate   |-> Done("DeleteTemplate", <<P1>>),
   RefreshTemplates |-> Done("RefreshTemplates", <<>>),
   ExecuteTemplate  |-> Binding(Accepted("ExecuteProvisioningTemplate", <<P1>>))]

ReportHandlers ==
  [ListFabricValidationTests |-> TheList("ListFabricValidationTests", <<>>),
   RunFabricValidationTest   |-> AcceptedJob("RunFabricValidationTest", <<P1>>),
   CreateReport              |-> Binding(AcceptedJob("CreateReport", <<>>)),
   GetReport                 |-> Whatever("GetReport", <<P1>>),
   GetLatestReport           |-> Whatever("GetLatestReport", <<P1>>),
   DeleteReport              |-> Done("DeleteReport", <<P1>>)]

DiscoveryHandlers ==
  [GetInventorySummary    |-> Using(Whatever("GetInventory", <<>>), {"include_ports"}),
   GetInventoryCount      |-> Whatever("GetInventoryCount", <<>>),
   RefreshFabricDiscovery |-> Accepted("RefreshFabricDiscovery", <<>>)]

ConfigHandlers ==
  [GetConfig            |-> TheObject("GetConfig", <<>>),
   UpdateConfig         |-> Binding(Done("UpdateConfig", <<>>)),
   ConfigureDumpStorage |-> Binding(Done("ConfigureDumpStorage", <<>>))]

(* A cable image comes as a form; one without its file is refused as well. *)
CableImageHandlers ==
  [ListCableImages  |-> TheList("ListCableImages", <<>>),
   UploadCableImage |-> CreatedSilently("UploadCableImage", <<Body>>),
   DeleteCableImage |-> Done("DeleteCableImage", <<P1>>)]

(* RebootSystem does not look at the error of ctx.Bind.                    *)
ActionHandlers ==
  [RebootSystem |-> Either(<< <<Invoke("RebootSystem", <<P1>>)>>, <<Invoke("InBandRebootSystem", <<P1>>)>> >>,
                           202, "none"),
   UpgradeSystemFirmware |-> Binding(Accepted("UpgradeFirmware", <<P1>>)),
   UpgradeSystemSoftware |-> Binding(Accepted("UpgradeSoftware", <<P1>>)),
   SetSystemHealth |->
     Binding(Either(<< <<Invoke("MarkUnhealthy", <<P1>>)>>, <<Invoke("RestoreHealthy", <<P1>>)>> >>,
                    204, "none")),
   CollectSystemDump |-> Accepted("CollectSystemDump", <<P1>>)]

TokenHandlers ==
  [CreateToken |-> Via("CreateToken", <<>>, 201, "object"),
   GetVersion  |-> TheObject("GetVersion", <<>>)]

Handlers ==
     PartitionHandlers @@ PartitionMemberHandlers @@ SystemHandlers @@ PortHandlers @@ LinkHandlers
  @@ JobHandlers @@ MonitoringHandlers @@ MonitoringTemplateHandlers @@ TelemetryHandlers
  @@ EnvironmentHandlers @@ LogicalServerHandlers @@ NetworkHandlers @@ MirroringHandlers
  @@ TemplateHandlers @@ ReportHandlers @@ DiscoveryHandlers @@ ConfigHandlers
  @@ CableImageHandlers @@ ActionHandlers @@ TokenHandlers
=============================================================================
