------------------------------ MODULE MCSystems ------------------------------
(* Small instances of Systems: two systems with a name each and a name to  *)
(* spare, one port, and one or two typical requests of every operation.    *)
EXTENDS Systems, TLC

CONSTANTS g1, g2, n1, n2, n3, x, p1

MCFirstName == (g1 :> n1) @@ (g2 :> n2)

Update(id, fields) ==
  [Request("UpdateSystem", id) EXCEPT !.set =
     [f \in Basics \cup Properties |-> IF f \in DOMAIN fields THEN fields[f] ELSE Unset]]

Rename     == Update(n1, [name |-> n3, url |-> x])
TakeName   == Update(g2, [name |-> n1, ip |-> x])
Everything == Update(g1, [name |-> n3, ip |-> x, url |-> x, script |-> x])
Script     == Update(n1, [script |-> x])
Nothing    == [Update(n1, << >>) EXCEPT !.body = "missing"]

Reboot          == [Request("RebootSystem", n1) EXCEPT !.inBand = TRUE]
RebootMalformed == [Request("RebootSystem", g1) EXCEPT !.body = "malformed"]
Healthy         == [Request("SetSystemHealth", g1) EXCEPT !.healthy = TRUE]
Unhealthy       == [Request("SetSystemHealth", g1) EXCEPT !.body = "missing"]
HealthMalformed == [Healthy EXCEPT !.body = "malformed"]

MCInputs ==
  {Rename, TakeName, Everything, Script, Nothing, Reboot, RebootMalformed, Healthy, Unhealthy,
   HealthMalformed, Request("UpgradeSystemFirmware", g2), Request("UpgradeSystemSoftware", g1),
   Request("CollectSystemDump", n3), Request("EnablePort", p1), Request("DisablePort", p1),
   Request("ResetPort", p1)}

UpdateInputs == {Rename, TakeName, Everything}
=============================================================================
