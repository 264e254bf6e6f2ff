------------------------------ MODULE MCMetrics ------------------------------
(* An instance of Metrics for TLC.                                         *)
EXTENDS Metrics

MCIfType ==
  [interfaces         |-> "Interface",
   access_interfaces  |-> "Access",
   network_interfaces |-> "Network",
   a10nsp_interfaces  |-> "A10NSP"]

\* Two flags that share families; a flag that is listed twice, with an unknown
\* one between.
MCFlagLists ==
  {<<"access_interfaces", "network_interfaces">>, <<"streams", "unknown", "streams">>}

MCNetworkOnly == {<<"network_interfaces">>}
=============================================================================
