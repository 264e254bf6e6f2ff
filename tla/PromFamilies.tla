---------------------------- MODULE PromFamilies ----------------------------
(***************************************************************************)
(* What each metric flag exports: the descriptors of pkg/controller/prom.go *)
(* and the JSON structures of pkg/controller/model.go they are filled from. *)
(*                                                                         *)
(* A family is named by its parts: direction, quantity and class of the    *)
(* traffic, or the parts of the name of a counter of sessions.  A metric   *)
(* is a family with the values of its labels; the registry refuses a       *)
(* second metric of the same family and labels.                            *)
(***************************************************************************)
CONSTANTS
  IfNames,        \* the interfaces of a bngblaster
  IfType,         \* IfType[flag]: the type its reply gives the interfaces of a flag
  Streams         \* its streams, each with its labels: ids, name, direction, type, sub-type

InterfaceFlags == {"interfaces", "access_interfaces", "network_interfaces", "a10nsp_interfaces"}

\* The flags collectInstance has a case for.
Known == {"session_counters", "streams"} \cup InterfaceFlags

\* No interface is in the reply to two commands with one type.
ASSUME PromFamiliesAssumption ==
  /\ DOMAIN IfType = InterfaceFlags
  /\ \A f, g \in InterfaceFlags : IfType[f] = IfType[g] => f = g

-----------------------------------------------------------------------------
(* The families.                                                           *)

SessionFamilies ==
  ({"Sessions"} \X {"All", "PPPoE", "IPoE", "Established", "EstablishedMax", "Terminated", "Flapped"})
    \cup ({"DHCP", "DHCPv6"} \X {"Sessions", "SessionsEstablished", "SessionsEstablishedMax"})
    \cup ({"Setup"} \X {"Time", "Rate", "RateMin", "RateAvg", "RateMax"})
    \cup ({"SessionTraffic", "StreamTraffic"} \X {"Flows", "FlowsVerified"})

Volume      == {"Tx", "Rx"} \X {"Packets", "Bytes"} \X {"All"}
Rate        == {"Tx", "Rx"} \X {"PPS", "Kbps"} \X {"All"}
Sent(c)     == {"Tx"} \X {"Packets", "PPS"} \X {c}
Received(c) == {"Rx"} \X {"Packets", "PPS", "LossPackets"} \X {c}

\* Traffic of sessions and of streams through an interface.
Carried == UNION {Sent(c) \cup Received(c) : c \in {"IPv4", "IPv6", "IPv6PD", "Streams"}}

InterfaceFamilies ==
  Volume \cup Rate \cup Sent("Multicast") \cup Received("Multicast") \cup Carried

StreamFamilies == ({"Tx", "Rx"} \X {"Packets", "Bytes"} \X {"Stream"}) \cup {<<"Rx", "Loss", "Stream">>}

\* The families the registry is told of; any other makes a scrape fail.
Described == SessionFamilies \cup InterfaceFamilies \cup StreamFamilies

-----------------------------------------------------------------------------
(* The replies: for each field the key it is read from.                    *)

SessionCountersResponse  == [f \in SessionFamilies |-> f]
InterfacesResponse       == [f \in Volume |-> f]
AccessInterfacesResponse == [f \in Volume \cup Rate \cup Received("Multicast") \cup Carried |-> f]

\* The two multicast fields are read from the keys of received traffic.
NetworkInterfacesResponse ==
  [f \in Volume \cup Rate \cup Sent("Multicast") \cup Carried |->
     IF f \in Sent("Multicast") THEN <<"Rx", f[2], f[3]>> ELSE f]

A10nspInterfacesResponse == [f \in Volume \cup Rate \cup Carried |-> f]
StreamSummaryResponse    == [f \in StreamFamilies |-> f]

Response ==
  [session_counters   |-> SessionCountersResponse,
   interfaces         |-> InterfacesResponse,
   access_interfaces  |-> AccessInterfacesResponse,
   network_interfaces |-> NetworkInterfacesResponse,
   a10nsp_interfaces  |-> A10nspInterfacesResponse,
   streams            |-> StreamSummaryResponse]

-----------------------------------------------------------------------------
(* The collectors: one metric for each field and each row of the reply.    *)

UntypedLabels(i, flag) == {<<i, name>> : name \in IfNames}  \* mutant: no label interface_type
InterfaceLabels(i, flag) == {<<i, name, IfType[flag]>> : name \in IfNames}

Rows(response, labels) == (DOMAIN response) \X labels

SessionCounters(i)   == Rows(SessionCountersResponse, {<<i>>})
Interfaces(i)        == Rows(InterfacesResponse, InterfaceLabels(i, "interfaces"))
AccessInterfaces(i)  == Rows(AccessInterfacesResponse, InterfaceLabels(i, "access_interfaces"))
NetworkInterfaces(i) == Rows(NetworkInterfacesResponse, InterfaceLabels(i, "network_interfaces"))
A10nspInterfaces(i)  == Rows(A10nspInterfacesResponse, InterfaceLabels(i, "a10nsp_interfaces"))
StreamSummary(i)     == Rows(StreamSummaryResponse, {i} \X Streams)

\* What collectInstance sends for a flag, when the command gives a reply.
Exports(i, flag) ==
  CASE flag = "session_counters"   -> SessionCounters(i)
    [] flag = "interfaces"         -> Interfaces(i)
    [] flag = "access_interfaces"  -> AccessInterfaces(i)
    [] flag = "network_interfaces" -> NetworkInterfaces(i)
    [] flag = "a10nsp_interfaces"  -> A10nspInterfaces(i)
    [] flag = "streams"            -> StreamSummary(i)
=============================================================================
