----------------------------- MODULE UfmMethods -----------------------------
(***************************************************************************)
(* The methods of the raw client (pkg/ufmclient): what each asks UFM to do *)
(* and on what, and whether it reads a result from the answer.             *)
(*                                                                         *)
(* What UFM has is named by the path it has in the API of this repository; *)
(* A1 and A2 stand for the arguments of the method.  A resource whose name *)
(* ends in an argument is one item, any other is a collection or one of a  *)
(* kind, and always there.  The paths, the bodies and the filters that a   *)
(* method sends to UFM are left out.                                       *)
(***************************************************************************)
EXTENDS ApiPaths

A1 == P1
A2 == P2

(* look shows a collection, read, update, put, delete and act are about    *)
(* what is there; put makes what is not there.  start makes an item whose  *)
(* name UFM chooses.                                                       *)
Effects == {"look", "read", "create", "start", "put", "update", "delete", "act"}

Method(effect, on, wants) == [effect |-> effect, on |-> on, wants |-> wants, checked |-> TRUE]

Looks(on)   == Method("look", on, TRUE)
Reads(on)   == Method("read", on, TRUE)
Creates(on) == Method("create", on, FALSE)
Starts(on)  == Method("start", on, TRUE)
Puts(on)    == Method("put", on, FALSE)
Updates(on) == Method("update", on, FALSE)
Deletes(on) == Method("delete", on, FALSE)
Acts(on)    == Method("act", on, FALSE)
ActsFor(on) == Method("act", on, TRUE)

(* A method that does not use Client.do, and of all statuses takes only    *)
(* 409 for an error.                                                       *)
Unchecked(m) == [m EXCEPT !.checked = FALSE, !.wants = FALSE]

-----------------------------------------------------------------------------
PartitionMethods ==
  LET Partition == <<"partitions", A1>>
  IN [ListPKeys |-> Looks(<<"partitions">>), ListPKeysDetailed |-> Looks(<<"partitions">>),
      GetPKey |-> Reads(Partition), CreateEmptyPKey |-> Creates(Partition),
      AddGUIDsToPKey |-> Puts(Partition), SetPKeyGUIDs |-> Updates(Partition),
      RemoveGUIDsFromPKey |-> Updates(Partition), AddHostsToPKey |-> ActsFor(Partition),
      RemoveHostsFromPKey |-> Updates(Partition), DeletePKey |-> Deletes(Partition),
      UpdatePKeyQoS |-> Updates(Partition), SetPKeySHARP |-> Updates(Partition),
      GetPKeyLastUpdated |-> Looks(<<"partitions">>)]

SystemMethods ==
  LET System == <<"systems", A1>>
  IN [ListSystems |-> Looks(<<"systems">>), GetSystem |-> Reads(System),
      UpdateSystem |-> Updates(System), UpdateSystemProperties |-> Updates(System),
      GetSystemsPower |-> Looks(<<"systems">>)]

PortMethods ==
  [ListPorts |-> Looks(<<"ports">>), GetPorts |-> Reads(<<"ports", A1>>),
   ListVirtualPorts |-> Looks(<<"virtual-ports">>), ListLinks |-> Looks(<<"links">>)]

JobMethods ==
  [ListJobs |-> Looks(<<"jobs">>), GetJob |-> Reads(<<"jobs", A1>>),
   DeleteJob |-> Deletes(<<"jobs", A1>>), AbortAllJobs |-> Acts(<<"jobs">>)]

ActionMethods ==
  LET System == <<"systems", A1>>
      Port   == <<"ports", A1>>
  IN [RebootSystem |-> Acts(System), InBandRebootSystem |-> Acts(System),
      UpgradeFirmware |-> Acts(System), UpgradeSoftware |-> Acts(System),
      EnablePort |-> Acts(Port), DisablePort |-> Acts(Port), ResetPort |-> Acts(Port),
      CollectSystemDump |-> Acts(System),
      MarkUnhealthy |-> Acts(System), RestoreHealthy |-> Acts(System),
      RefreshFabricDiscovery |-> Acts(<<"discovery">>),
      ExecuteProvisioningTemplate |-> Acts(<<"templates", A1>>)]

EnvironmentMethods ==
  LET Environment == <<"environments", A1>>
      Server      == <<"environments", A1, "servers", A2>>
  IN [ListEnvironments |-> Looks(<<"environments">>), GetEnvironment |-> Reads(Environment),
      CreateEnvironment |-> Creates(Environment), UpdateEnvironment |-> Updates(Environment),
      DeleteEnvironment |-> Deletes(Environment),
      ListLogicalServers |-> Looks(<<"environments", A1, "servers">>),
      GetLogicalServer |-> Reads(Server), CreateLogicalServer |-> Creates(Server),
      DeleteLogicalServer |-> Deletes(Server),
      ListComputes |-> Looks(<<"environments", A1, "servers", A2, "computes">>),
      AllocateComputes |-> Acts(Server), FreeComputes |-> Acts(Server)]

NetworkMethods ==
  [ListGlobalNetworks |-> Looks(<<"networks">>), GetGlobalNetwork |-> Reads(<<"networks", A1>>),
   CreateGlobalNetwork |-> Creates(<<"networks", A1>>),
   UpdateGlobalNetwork |-> Updates(<<"networks", A1>>),
   DeleteGlobalNetwork |-> Deletes(<<"networks", A1>>),
   ListLocalNetworks |-> Looks(<<"environments", A1, "networks">>),
   CreateLocalNetwork |-> Creates(<<"environments", A1, "networks", A2>>)]

MirroringMethods ==
  LET Mirroring == <<"mirroring", A1>>
  IN [CreateMirroringTemplate |-> Creates(Mirroring), GetMirroringTemplate |-> Reads(Mirroring),
      UpdateMirroringTemplate |-> Updates(Mirroring), DeleteMirroringTemplate |-> Deletes(Mirroring),
      ExecuteMirroringAction |-> Acts(<<"mirroring">>)]

TemplateMethods ==
  LET Template == <<"templates", A1>>
  IN [ListTemplates |-> Looks(<<"templates">>), GetTemplate |-> Reads(Template),
      CreateTemplate |-> Creates(Template), DeleteTemplate |-> Deletes(Template),
      RefreshTemplates |-> Acts(<<"templates">>)]

ReportMethods ==
  [ListFabricValidationTests |-> Looks(<<"fabric-validations">>),
   RunFabricValidationTest |-> Unchecked(ActsFor(<<"fabric-validations", A1>>)),
   CreateReport |-> ActsFor(<<"reports">>), GetReport |-> Reads(<<"reports", A1>>),
   DeleteReport |-> Deletes(<<"reports", A1>>), GetLatestReport |-> Reads(<<"reports", "latest", A1>>)]

TelemetryMethods ==
  [GetTopTelemetry |-> Looks(<<"telemetry", "top">>),
   GetHistoryTelemetry |-> Looks(<<"telemetry", "history">>)]

CableImageMethods ==
  [ListCableImages |-> Looks(<<"cable-images">>), DeleteCableImage |-> Deletes(<<"cable-images", A1>>)]

UploadMethods == [UploadCableImage |-> Puts(<<"cable-images", A1>>)]

MonitoringSessionMethods ==
  LET Session == <<"monitoring", "sessions", A1>>
  IN [CreateMonitoringSession |-> Starts(Session), GetMonitoringSession |-> Reads(Session),
      GetMonitoringSessionData |-> Reads(Session), DeleteMonitoringSession |-> Deletes(Session),
      CreateMonitoringSnapshot |-> ActsFor(<<"monitoring", "snapshots">>)]

MonitoringMethods ==
  [GetMonitoringAttributes |-> Looks(<<"monitoring", "attributes">>),
   GetCongestion |-> Looks(<<"monitoring", "congestion">>),
   GetPortGroups |-> Looks(<<"monitoring", "port-groups">>),
   GetInventory |-> Looks(<<"discovery", "inventory">>),
   GetInventoryCount |-> Looks(<<"discovery", "inventory", "count">>),
   GetPerformanceCounters |-> Looks(<<"monitoring", "counters">>)]

MonitoringTemplateMethods ==
  LET Template == <<"monitoring", "templates", A1>>
  IN [ListMonitoringTemplates |-> Looks(<<"monitoring", "templates">>),
      GetMonitoringTemplate |-> Reads(Template), CreateMonitoringTemplate |-> Creates(Template),
      UpdateMonitoringTemplate |-> Updates(Template), DeleteMonitoringTemplate |-> Deletes(Template)]

ConfigMethods ==
  [GetConfig |-> Looks(<<"config">>), UpdateConfig |-> Acts(<<"config">>),
   GetVersion |-> Looks(<<"version">>), CreateToken |-> ActsFor(<<"tokens">>),
   ConfigureDumpStorage |-> Acts(<<"config">>)]

Methods ==
     PartitionMethods @@ SystemMethods @@ PortMethods @@ JobMethods @@ ActionMethods
  @@ EnvironmentMethods @@ NetworkMethods @@ MirroringMethods @@ TemplateMethods
  @@ ReportMethods @@ TelemetryMethods @@ CableImageMethods @@ UploadMethods
  @@ MonitoringSessionMethods @@ MonitoringMethods @@ MonitoringTemplateMethods @@ ConfigMethods
=============================================================================
