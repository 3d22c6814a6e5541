-------------------------------- MODULE MCGate --------------------------------
(* EgressGate with three hosts in all their spellings and a configuration for *)
(* each policy.                                                               *)
EXTENDS EgressGate

Api == <<"api", "com">>
SubApi == <<"eu", "api", "com">>
Other == <<"other", "com">>

MCSpellings == [labels : {Api, SubApi, Other}, dot : BOOLEAN, port : BOOLEAN]

Exact(labels) == [wild |-> FALSE, labels |-> labels]
Under(labels) == [wild |-> TRUE, labels |-> labels]
Everything == Under(<<>>)

NoFilter ==
  [policy |-> "none", allowAll |-> FALSE, allowHosts |-> {}, denyHosts |-> {}, allowPorts |-> {80, 443},
   enableMitm |-> TRUE, rateLimitPerMin |-> 0,
   secrets |-> [s \in Secrets |-> IF s = "key" THEN {Exact(Api)} ELSE {Under(Api)}]]

MCConfigs == {
  NoFilter,
  [NoFilter EXCEPT !.enableMitm = FALSE, !.allowPorts = {}],
  [NoFilter EXCEPT !.policy = "denylist", !.denyHosts = {Exact(Api)}],
  [NoFilter EXCEPT !.policy = "denylist", !.denyHosts = {Under(Api)}, !.allowPorts = {443}],
  [NoFilter EXCEPT !.policy = "allowlist", !.allowHosts = {Under(Api)}, !.denyHosts = {Exact(SubApi)}],
  [NoFilter EXCEPT !.policy = "allowlist", !.allowHosts = {Everything}, !.denyHosts = {Exact(Api)}],
  [NoFilter EXCEPT !.policy = "allowlist", !.allowAll = TRUE, !.allowPorts = {443}],
  [NoFilter EXCEPT !.policy = "allowlist", !.allowHosts = {Exact(Other)}, !.rateLimitPerMin = 2]}
=============================================================================
