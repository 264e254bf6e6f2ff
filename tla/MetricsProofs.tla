---------------------------- MODULE MetricsProofs ----------------------------
(***************************************************************************)
(* What holds of Metrics for any instances, lists of flags, interfaces and *)
(* streams, however the instances come and go during the scrape.           *)
(***************************************************************************)
EXTENDS Metrics, FiniteSetTheorems, TLAPS

-----------------------------------------------------------------------------
(* What the collectors send.                                               *)

\* The families of the three kinds of counters, by the parts of their names.
Classes == {"All", "Multicast", "IPv4", "IPv6", "IPv6PD", "Streams"}

LEMMA FamiliesOfKinds ==
  /\ \A f \in SessionFamilies : f[1] \in {"Sessions", "DHCP", "DHCPv6", "Setup", "SessionTraffic", "StreamTraffic"}
  /\ \A f \in InterfaceFamilies : f[1] \in {"Tx", "Rx"} /\ f[3] \in Classes
  /\ \A f \in StreamFamilies : f[1] \in {"Tx", "Rx"} /\ f[3] = "Stream"
<1>1. \A f \in SessionFamilies : f[1] \in {"Sessions", "DHCP", "DHCPv6", "Setup", "SessionTraffic", "StreamTraffic"}
  BY DEF SessionFamilies
<1>2. \A f \in InterfaceFamilies : f[1] \in {"Tx", "Rx"} /\ f[3] \in Classes
  BY DEF InterfaceFamilies, Volume, Rate, Sent, Received, Carried, Classes
<1>3. \A f \in StreamFamilies : f[1] \in {"Tx", "Rx"} /\ f[3] = "Stream"
  BY DEF StreamFamilies
<1> QED
  BY <1>1, <1>2, <1>3

\* Which family a metric of a flag belongs to, and how it is labelled.
LEMMA ExportsOfFlags ==
  ASSUME NEW i, NEW flag \in Known, NEW m \in Exports(i, flag)
  PROVE  /\ m[2][1] = i
         /\ flag = "session_counters" => m[1] \in SessionFamilies
         /\ flag = "streams" => m[1] \in StreamFamilies
         /\ flag \in InterfaceFlags => m[1] \in InterfaceFamilies /\ m[2][3] = IfType[flag]
<1> USE DEF Rows, Exports
<1>1. CASE flag = "session_counters"
  BY <1>1 DEF SessionCounters, SessionCountersResponse, InterfaceFlags
<1>2. CASE flag = "streams"
  BY <1>2 DEF StreamSummary, StreamSummaryResponse, InterfaceFlags
<1>3. CASE flag \in InterfaceFlags
  <2> USE DEF InterfaceFamilies, InterfaceLabels
  <2>1. CASE flag = "interfaces"
    BY <2>1 DEF Interfaces, InterfacesResponse, InterfaceFlags
  <2>2. CASE flag = "access_interfaces"
    BY <2>2 DEF AccessInterfaces, AccessInterfacesResponse, InterfaceFlags
  <2>3. CASE flag = "network_interfaces"
    BY <2>3 DEF NetworkInterfaces, NetworkInterfacesResponse, InterfaceFlags
  <2>4. CASE flag = "a10nsp_interfaces"
    BY <2>4 DEF A10nspInterfaces, A10nspInterfacesResponse, InterfaceFlags
  <2> QED
    BY <1>3, <2>1, <2>2, <2>3, <2>4 DEF InterfaceFlags
<1> QED
  BY <1>1, <1>2, <1>3 DEF Known

\* Every family a collector sends is one of those Describe lists (prom.go:438-818).
THEOREM ExportsAreDescribed ==
  ASSUME NEW i, NEW flag \in Known, NEW m \in Exports(i, flag)
  PROVE  m[1] \in Described
  BY ExportsOfFlags DEF Described, Known

\* No metric is sent for two instances or for two flags: where families are
\* shared the labels differ (prom.go:529-779).
THEOREM ExportsAreApart ==
  ASSUME NEW i, NEW j, NEW f \in Known, NEW g \in Known,
         Exports(i, f) \cap Exports(j, g) # {}
  PROVE  i = j /\ f = g
<1> PICK m : m \in Exports(i, f) /\ m \in Exports(j, g)
  OBVIOUS
<1>1. i = j
  BY ExportsOfFlags
<1>2. f = g
  <2>1. CASE f \in InterfaceFlags /\ g \in InterfaceFlags
    BY <2>1, ExportsOfFlags, PromFamiliesAssumption
  <2>2. CASE f \notin InterfaceFlags \/ g \notin InterfaceFlags
    BY <2>2, ExportsOfFlags, FamiliesOfKinds DEF Known, Classes
  <2> QED
    BY <2>1, <2>2
<1> QED
  BY <1>1, <1>2

\* Nothing is described that no collector sends: each family is exported by some
\* flag, if the reply has a row (prom.go:438-503 and 529-779).
THEOREM DescribedAreExported ==
  ASSUME NEW i, NEW f \in Described, NEW name \in IfNames, NEW s \in Streams
  PROVE  \E flag \in Known : \E m \in Exports(i, flag) : m[1] = f
<1> USE DEF Rows, Exports
<1>1. CASE f \in SessionFamilies
  <2>1. <<f, <<i>>>> \in Exports(i, "session_counters")
    BY <1>1 DEF SessionCounters, SessionCountersResponse
  <2> QED
    BY <2>1 DEF Known
<1>2. CASE f \in StreamFamilies
  <2>1. <<f, <<i, s>>>> \in Exports(i, "streams")
    BY <1>2 DEF StreamSummary, StreamSummaryResponse
  <2> QED
    BY <2>1 DEF Known
<1>3. CASE f \in InterfaceFamilies
  <2> USE DEF InterfaceLabels
  <2>1. CASE f \in Volume \cup Rate \cup Received("Multicast") \cup Carried
    <3>1. <<f, <<i, name, IfType["access_interfaces"]>>>> \in Exports(i, "access_interfaces")
      BY <2>1 DEF AccessInterfaces, AccessInterfacesResponse
    <3> QED
      BY <3>1 DEF Known, InterfaceFlags
  <2>2. CASE f \in Sent("Multicast")
    <3>1. <<f, <<i, name, IfType["network_interfaces"]>>>> \in Exports(i, "network_interfaces")
      BY <2>2 DEF NetworkInterfaces, NetworkInterfacesResponse
    <3> QED
      BY <3>1 DEF Known, InterfaceFlags
  <2> QED
    BY <1>3, <2>1, <2>2 DEF InterfaceFamilies
<1> QED
  BY <1>1, <1>2, <1>3 DEF Described

\* Of all fields of all replies exactly two are read from the key of another
\* counter: multicast sent through network interfaces, packets and PPS
\* (model.go:169-170).
THEOREM OnlyMulticastIsMisread ==
  ASSUME NEW flag \in Known, NEW f \in DOMAIN Response[flag]
  PROVE  Response[flag][f] # f <=> flag = "network_interfaces" /\ f \in Sent("Multicast")
<1> USE DEF Response
<1>1. CASE flag = "network_interfaces"
  <2>1. f \in DOMAIN NetworkInterfacesResponse
    BY <1>1
  <2>2. f \in Sent("Multicast") => f[1] = "Tx"
    BY DEF Sent
  <2>3. Response[flag][f] = IF f \in Sent("Multicast") THEN <<"Rx", f[2], f[3]>> ELSE f
    BY <1>1, <2>1 DEF NetworkInterfacesResponse
  <2> QED
    BY <1>1, <2>2, <2>3
<1>2. CASE flag # "network_interfaces"
  <2>1. Response[flag][f] = f
    BY <1>2 DEF Known, InterfaceFlags, SessionCountersResponse, InterfacesResponse,
                AccessInterfacesResponse, A10nspInterfacesResponse, StreamSummaryResponse
  <2> QED
    BY <1>2, <2>1
<1> QED
  BY <1>1, <1>2

-----------------------------------------------------------------------------
(* The scrape.                                                             *)

Going == {i \in Instances : Active(i)}

LEMMA GoingIsFinite == IsFiniteSet(Going) /\ Cardinality(Going) \in Nat
  BY MetricsAssumption, FS_Subset, FS_CardinalityType DEF Going

LEMMA InitIInv == Init => IInv
<1> SUFFICES ASSUME Init PROVE IInv
  OBVIOUS
<1> USE DEF Init
<1>1. TypeOK
  <2>1. Cardinality(Instances) \in Nat
    BY MetricsAssumption, FS_CardinalityType
  <2>2. served \in [Instances -> Nat] /\ \A i \in Instances : served[i] <= Len(flags[i])
    OBVIOUS
  <2>3. total \in 0..Cardinality(Instances) /\ running \in 0..total /\ wg \in 0..running
    BY <2>1
  <2> QED
    BY <2>2, <2>3 DEF TypeOK, Files
<1>2. Counted
  <2>1. {i \in Instances : Active(i)} = {}
    BY DEF Active
  <2> QED
    BY <2>1, FS_EmptySet DEF Counted
<1>3. Phases /\ Taken
  BY DEF Phases, Taken, Active
<1> QED
  BY <1>1, <1>2, <1>3 DEF IInv

\* What other requests do to an instance is nothing to the collector.
LEMMA HostKeepsIInv ==
  ASSUME IInv, HostStep \/ \E i \in Instances : Overwrite(i)
  PROVE  IInv'
<1>1. UNCHANGED <<collect, routines, registry>>
  BY DEF HostStep, Overwrite
<1>2. life' \in [Instances -> {"absent", "stopped", "running"}] /\ file' \in [Instances -> Files]
  <2>1. CASE HostStep
    BY <2>1 DEF IInv, TypeOK, HostStep, Host!Next, Host!Create, Host!Configure, Host!Start, Host!Delete, Host!Finish
  <2>2. CASE \E i \in Instances : Overwrite(i)
    BY <2>2 DEF IInv, TypeOK, Overwrite
  <2> QED
    BY <2>1, <2>2
<1>3. TypeOK'
  BY <1>1, <1>2 DEF IInv, TypeOK, collect, routines, registry
<1>4. Counted' /\ Phases' /\ Taken'
  BY <1>1 DEF IInv, Counted, Phases, Taken, Active, More, Flag, collect, routines, registry
<1> QED
  BY <1>3, <1>4 DEF IInv

\* Collect and the registry.
LEMMA CollectKeepsIInv ==
  ASSUME IInv, Scrape \/ List \/ Gauges \/ Wait \/ Answer
  PROVE  IInv'
<1>0. TypeOK /\ Counted /\ Phases /\ Taken /\ Cardinality(Instances) \in Nat
  BY MetricsAssumption, FS_CardinalityType DEF IInv
<1> USE <1>0
<1>1. CASE Scrape
  <2>1. {i \in Instances : Active(i)}' = {}
    BY <1>1 DEF Scrape, Active
  <2>2. Counted'
    BY <1>1, <2>1, FS_EmptySet DEF Scrape, Counted
  <2>3. TypeOK'
    <3>1. total' \in 0..Cardinality(Instances) /\ running' \in 0..total' /\ wg' \in 0..running'
      BY <1>1 DEF Scrape
    <3>2. pc' \in [Instances -> {"none", "open", "serve", "send", "done"}]
      BY <1>1 DEF Scrape
    <3> QED
      BY <1>1, <3>1, <3>2 DEF Scrape, TypeOK, env
  <2>4. Phases'
    BY <1>1 DEF Scrape, Phases, Active
  <2>5. Taken'
    BY <1>1 DEF Scrape, Taken, Phases, Active, TypeOK
  <2> QED
    BY <2>2, <2>3, <2>4, <2>5 DEF IInv
<1>2. CASE List
  <2>1. Cardinality(todo') <= Cardinality(Instances) /\ Cardinality(todo') \in Nat
    BY <1>2, MetricsAssumption, FS_Subset, FS_CardinalityType DEF List
  <2>2. TypeOK'
    BY <1>2 DEF List, TypeOK, env, routines, registry
  <2>3. Phases'
    BY <1>2, <2>1 DEF List, Phases, Active, routines, registry
  <2>4. Counted' /\ Taken'
    BY <1>2 DEF List, Counted, Taken, Active, More, Flag, routines, registry
  <2> QED
    BY <2>2, <2>3, <2>4 DEF IInv
<1>3. CASE Gauges
  BY <1>3 DEF Gauges, IInv, TypeOK, Counted, Phases, Taken, Active, More, Flag, env, routines, registry
<1>4. CASE Wait
  <2>1. \A i \in Instances : ~Active(i)
    <3>1. Going = {}
      BY <1>4, GoingIsFinite, FS_EmptySet DEF Wait, Counted, Going
    <3> QED
      BY <3>1 DEF Going
  <2> QED
    BY <1>4, <2>1 DEF Wait, IInv, TypeOK, Counted, Phases, Taken, Active, More, Flag, env, routines
<1>5. CASE Answer
  BY <1>5 DEF Answer, IInv, TypeOK, Counted, Phases, Taken, Active, More, Flag, env, routines
<1> QED
  BY <1>1, <1>2, <1>3, <1>4, <1>5

\* Collect counts the goroutine it spawns.
LEMMA LookKeepsIInv == ASSUME IInv, NEW i \in Instances, Look(i) PROVE IInv'
<1>0. TypeOK /\ Counted /\ Phases /\ Taken /\ Cardinality(Instances) \in Nat
  BY MetricsAssumption, FS_CardinalityType DEF IInv
<1>1. /\ main = "look" /\ main' = main /\ i \in todo /\ todo' = todo \ {i} /\ total' = total + 1
      /\ pc[i] = "none" /\ UNCHANGED <<env, flags, served, registry>>
  BY <1>0 DEF Look, Phases
<1>2. /\ total' + Cardinality(todo') <= Cardinality(Instances)
      /\ Cardinality(todo') \in Nat /\ total' \in 0..Cardinality(Instances)
  <2>1. IsFiniteSet(todo)
    BY <1>0, MetricsAssumption, FS_Subset DEF TypeOK
  <2>2. Cardinality(todo') = Cardinality(todo) - 1 /\ Cardinality(todo) \in Nat /\ Cardinality(todo') \in Nat
    BY <1>1, <2>1, FS_RemoveElement, FS_CardinalityType, FS_Subset
  <2> QED
    BY <1>0, <1>1, <2>2 DEF Phases, TypeOK
<1>3. CASE life[i] = "running"
  <2>1. running' = running + 1 /\ wg' = wg + 1 /\ pc' = [pc EXCEPT ![i] = "open"]
    BY <1>3 DEF Look, Added
  <2>2. Going' = Going \cup {i} /\ i \notin Going
    BY <1>0, <1>1, <2>1 DEF Going, Active, TypeOK
  <2>3. Counted'
    BY <1>0, <2>1, <2>2, GoingIsFinite, FS_AddElement DEF Counted, Going
  <2>4. TypeOK'
    BY <1>0, <1>1, <1>2, <2>1 DEF TypeOK, env, registry
  <2>5. Phases'
    BY <1>0, <1>1, <1>2, <2>1 DEF Phases, TypeOK, registry
  <2>6. Taken'
    BY <1>0, <1>1, <2>1 DEF Taken, TypeOK, More, Flag, registry
  <2> QED
    BY <2>3, <2>4, <2>5, <2>6 DEF IInv
<1>4. CASE life[i] # "running"
  <2>1. UNCHANGED <<running, wg, pc>>
    BY <1>4 DEF Look
  <2>2. TypeOK'
    BY <1>0, <1>1, <1>2, <2>1 DEF TypeOK, env, registry
  <2>3. Phases'
    BY <1>0, <1>1, <1>2, <2>1 DEF Phases, registry
  <2>4. Counted' /\ Taken'
    BY <1>0, <1>1, <2>1 DEF Counted, Taken, Active, More, Flag, registry
  <2> QED
    BY <2>2, <2>3, <2>4 DEF IInv
<1> QED
  BY <1>3, <1>4

\* A goroutine that goes on is still counted, one that is done is not.
LEMMA DoneKeepsIInv ==
  ASSUME IInv, NEW i \in Instances, Active(i), Done(i), UNCHANGED <<env, collect, registry>>
  PROVE  IInv'
<1>0. TypeOK /\ Counted /\ Phases /\ Taken
  BY DEF IInv
<1>1. /\ pc' = [pc EXCEPT ![i] = "done"] /\ wg' = wg - 1
      /\ flags' = [flags EXCEPT ![i] = <<>>] /\ served' = [served EXCEPT ![i] = 0]
  BY DEF Done, Subtracted, Added
<1>2. Going' = Going \ {i} /\ i \in Going
  BY <1>0, <1>1 DEF Going, Active, TypeOK
<1>3. Counted' /\ wg' \in Nat /\ wg \in Nat
  <2>1. Cardinality(Going \ {i}) = Cardinality(Going) - 1 /\ Cardinality(Going \ {i}) \in Nat
    BY <1>2, GoingIsFinite, FS_RemoveElement, FS_CardinalityType, FS_Subset
  <2> QED
    BY <1>0, <1>1, <1>2, <2>1, GoingIsFinite DEF Counted, Going
<1>4. TypeOK'
  <2>1. /\ flags' \in [Instances -> FlagLists \cup {<<>>}]
        /\ served' \in [Instances -> Nat] /\ \A j \in Instances : served'[j] <= Len(flags'[j])
    <3>1. flags'[i] = <<>> /\ served'[i] = 0
      BY <1>0, <1>1 DEF TypeOK
    <3> QED
      BY <1>0, <1>1, <3>1 DEF TypeOK
  <2>2. wg' \in 0..running'
    BY <1>0, <1>1, <1>3 DEF TypeOK, collect
  <2> QED
    BY <1>0, <1>1, <2>1, <2>2 DEF TypeOK, env, collect, registry
<1>5. Phases'
  BY <1>0, <1>1 DEF Phases, Active, TypeOK, collect, registry
<1>6. Taken'
  <2>1. ASSUME NEW j \in Instances
        PROVE  \/ pc'[j] = "done" /\ flags'[j] = <<>> /\ served'[j] = 0
               \/ pc'[j] = pc[j] /\ flags'[j] = flags[j] /\ served'[j] = served[j]
    BY <1>0, <1>1 DEF TypeOK
  <2>2. \A s \in sent : s[1] \in Instances
    BY <1>0 DEF TypeOK
  <2> QED
    BY <1>0, <2>1, <2>2 DEF Taken, More, Flag, registry
<1> QED
  BY <1>3, <1>4, <1>5, <1>6 DEF IInv

\* The collectors of one instance.
LEMMA GoroutineKeepsIInv == ASSUME IInv, NEW i \in Instances, Goroutine(i) PROVE IInv'
<1>0. TypeOK /\ Counted /\ Phases /\ Taken
  BY DEF IInv
<1>a. /\ UNCHANGED <<env, collect, closed, status>>
      /\ Active(i)
  BY DEF Goroutine, ReadFlags, Serve, Send, Active, registry
<1>1. CASE Done(i) /\ UNCHANGED registry
  BY <1>a, <1>1, DoneKeepsIInv
<1>2. CASE /\ UNCHANGED <<wg, registry>> /\ served' = served
           /\ \/ TakeFlags(i) /\ pc[i] = "open" /\ file[i] \in FlagLists
              \/ /\ pc[i] = "serve" /\ More(i) /\ Flag(i) \in Known
                 /\ pc' = [pc EXCEPT ![i] = "send"] /\ UNCHANGED flags
  <2>1. /\ pc'[i] \in {"serve", "send"} /\ Active(i)'
        /\ \A j \in Instances \ {i} : pc'[j] = pc[j] /\ flags'[j] = flags[j]
    BY <1>0, <1>2 DEF TakeFlags, TypeOK, Active
  <2>2. Counted'
    <3>1. Going' = Going
      BY <1>a, <2>1 DEF Going, Active
    <3> QED
      BY <1>0, <1>2, <3>1 DEF Counted, Going
  <2>3. Phases'
    <3>1. main \notin {"idle", "list", "answer"} /\ (main = "look" => i \notin todo)
      BY <1>0, <1>a DEF Phases, Active
    <3> QED
      BY <1>0, <1>a, <1>2, <2>1, <3>1 DEF Phases, TypeOK, collect, registry
  <2>4. Taken'
    <3>1. CASE TakeFlags(i) /\ pc[i] = "open"
      <4>1. \A t \in sent : t[1] # i /\ t[1] \in Instances
        BY <1>0, <3>1 DEF Taken, TypeOK
      <4>2. pc'[i] = "serve"
        BY <1>0, <3>1 DEF TakeFlags, TypeOK
      <4> QED
        BY <1>0, <1>2, <2>1, <4>1, <4>2 DEF Taken, More, Flag, registry
    <3>2. CASE /\ pc[i] = "serve" /\ More(i) /\ Flag(i) \in Known
               /\ pc' = [pc EXCEPT ![i] = "send"] /\ UNCHANGED flags
      BY <1>0, <1>2, <2>1, <3>2 DEF Taken, TypeOK, More, Flag, registry
    <3> QED
      BY <1>2, <3>1, <3>2
  <2>5. TypeOK'
    <3>1. flags' \in [Instances -> FlagLists \cup {<<>>}]
      BY <1>0, <1>2 DEF TakeFlags, TypeOK
    <3>2. \A j \in Instances : served'[j] <= Len(flags'[j])
      <4>1. CASE TakeFlags(i) /\ pc[i] = "open" /\ file[i] \in FlagLists
        <5>1. flags'[i] = file[i] /\ served[i] = 0
          BY <1>0, <4>1 DEF TakeFlags, TypeOK, Taken
        <5>2. 0 <= Len(flags'[i])
          BY <4>1, <5>1, MetricsAssumption
        <5> QED
          BY <1>0, <1>2, <2>1, <5>1, <5>2 DEF TypeOK
      <4>2. CASE UNCHANGED flags
        BY <1>0, <1>2, <4>2 DEF TypeOK
      <4> QED
        BY <1>2, <4>1, <4>2
    <3> QED
      BY <1>0, <1>a, <1>2, <3>1, <3>2 DEF TakeFlags, TypeOK, env, collect, registry
  <2> QED
    BY <2>2, <2>3, <2>4, <2>5 DEF IInv
<1>3. CASE /\ UNCHANGED <<wg, flags>> /\ More(i) /\ Skip(i) /\ pc' = [pc EXCEPT ![i] = "serve"]
           /\ pc[i] \in {"serve", "send"} /\ refused' \in BOOLEAN
           /\ sent' = sent \/ (sent' = sent \cup {<<i, Flag(i)>>} /\ Flag(i) \in Known)
  <2>0. Len(flags[i]) \in Nat
    BY <1>0, MetricsAssumption DEF TypeOK
  <2>1. /\ pc'[i] = "serve" /\ served'[i] = served[i] + 1 /\ served'[i] <= Len(flags[i])
        /\ served[i] \in Nat
        /\ \A j \in Instances \ {i} : pc'[j] = pc[j] /\ served'[j] = served[j]
    BY <1>0, <1>3, <2>0 DEF TypeOK, Skip, More
  <2>2. Counted'
    <3>1. Going' = Going
      BY <1>a, <2>1 DEF Going, Active
    <3> QED
      BY <1>0, <1>3, <3>1 DEF Counted, Going
  <2>3. Phases'
    BY <1>0, <1>a, <1>3, <2>1 DEF Phases, Active, collect
  <2>4. Taken'
    <3>1. ASSUME NEW j \in Instances
          PROVE  /\ pc'[j] \notin {"serve", "send"} => flags'[j] = <<>> /\ served'[j] = 0
                 /\ pc'[j] = "send" => More(j)' /\ Flag(j)' \in Known
      BY <1>0, <1>3, <2>1 DEF Taken, More, Flag
    <3>2. ASSUME NEW t \in sent'
          PROVE  \/ pc'[t[1]] = "done"
                 \/ pc'[t[1]] \in {"serve", "send"} /\ \E k \in 1..served'[t[1]] : flags'[t[1]][k] = t[2]
      <4>1. CASE t \in sent
        <5>1. t[1] \in Instances
          BY <1>0, <4>1 DEF TypeOK
        <5>2. CASE t[1] = i
          <6>1. PICK k \in 1..served[i] : flags[i][k] = t[2]
            BY <1>0, <1>3, <4>1, <5>2 DEF Taken
          <6>2. k \in 1..served'[i]
            BY <2>1
          <6> QED
            BY <1>3, <2>1, <5>2, <6>1, <6>2
        <5>3. CASE t[1] # i
          BY <1>0, <1>3, <2>1, <4>1, <5>1, <5>3 DEF Taken
        <5> QED
          BY <5>2, <5>3
      <4>2. CASE t = <<i, Flag(i)>>
        BY <1>3, <2>1, <4>2 DEF Flag
      <4> QED
        BY <1>3, <4>1, <4>2
    <3> QED
      BY <3>1, <3>2 DEF Taken
  <2>5. TypeOK'
    BY <1>0, <1>a, <1>3, <2>1 DEF TypeOK, Skip, env, collect
  <2> QED
    BY <2>2, <2>3, <2>4, <2>5 DEF IInv
<1> QED
  <2>1. CASE ReadFlags(i)
    BY <1>1, <1>2, <2>1 DEF ReadFlags, TakeFlags, registry
  <2>2. CASE Serve(i)
    <3>1. pc' = pc => pc' = [pc EXCEPT ![i] = pc[i]]
      BY <1>0 DEF TypeOK
    <3>2. CASE /\ More(i) /\ Flag(i) \in Known
               /\ pc' = [pc EXCEPT ![i] = "send"] /\ UNCHANGED <<flags, served, wg>>
      BY <1>2, <2>2, <3>2 DEF Serve, registry
    <3>3. CASE More(i) /\ Skip(i) /\ UNCHANGED <<pc, flags, wg>>
      BY <1>0, <1>3, <2>2, <3>1, <3>3 DEF Serve, registry, TypeOK
    <3>4. CASE Done(i)
      BY <1>1, <2>2, <3>4 DEF Serve
    <3> QED
      BY <2>2, <3>2, <3>3, <3>4 DEF Serve
  <2>3. CASE Send(i)
    <3>1. More(i) /\ Flag(i) \in Known
      BY <1>0, <2>3 DEF Send, Taken
    <3>2. refused' \in BOOLEAN
      BY <1>0, <2>3 DEF Send, TypeOK, Refuses
    <3> QED
      BY <1>3, <2>3, <3>1, <3>2 DEF Send
  <2> QED
    BY <2>1, <2>2, <2>3 DEF Goroutine

LEMMA StepIInv == IInv /\ [Next]_vars => IInv'
<1>1. ASSUME IInv, UNCHANGED vars PROVE IInv'
  BY <1>1 DEF IInv, TypeOK, Counted, Phases, Taken, Active, More, Flag, vars, env, collect, routines, registry
<1>2. ASSUME IInv, Next PROVE IInv'
  BY <1>2, HostKeepsIInv, CollectKeepsIInv, LookKeepsIInv, GoroutineKeepsIInv DEF Next, Collector
<1> QED
  BY <1>1, <1>2

\* The inductive invariant of a scrape holds in every reachable state.
THEOREM Invariance == Spec => []IInv
  BY InitIInv, StepIInv, PTL DEF Spec

\* The types hold: the counter of the wait group is never negative, nor more than
\* the instances that were found to run.
THEOREM TypeCorrect == Spec => []TypeOK
<1>1. IInv => TypeOK
  BY DEF IInv
<1> QED
  BY <1>1, Invariance, PTL

\* No goroutine is left to send on the channel the registry has closed.
THEOREM NobodySendsAfterClose == Spec => []NoSendAfterClose
<1>1. IInv => NoSendAfterClose
  BY DEF IInv, TypeOK, Phases, Active, NoSendAfterClose
<1> QED
  BY <1>1, Invariance, PTL

\* Whatever instances run and whatever flags, interfaces and streams they have, the
\* registry refuses a metric only of an instance that lists a flag twice.
THEOREM OnlyRepeatsAreRefused == Spec => OnlyRepeatsFail
<1> DEFINE Blame == \E i \in Instances : served'[i] # served[i] /\ Repeats(flags[i])
<1>1. IInv /\ [Next]_vars => [refused' /\ ~refused => Blame]_vars
  <2> SUFFICES ASSUME IInv, Next, refused', ~refused
               PROVE  Blame
    OBVIOUS
  <2>0. TypeOK /\ Taken
    BY DEF IInv
  <2>1. PICK i \in Instances : Send(i)
    BY DEF Next, Collector, Goroutine, Scrape, List, Look, Gauges, Wait, Answer, HostStep, Overwrite,
           ReadFlags, Serve, registry
  <2>2. Flag(i) \in Known /\ More(i) /\ Refuses(i, Flag(i)) /\ pc[i] = "send"
    BY <2>0, <2>1 DEF Taken, Send
  <2>3. PICK s \in sent : Exports(i, Flag(i)) \cap Exports(s[1], s[2]) # {}
    BY <2>2, ExportsAreDescribed DEF Refuses
  <2>4. s[1] \in Instances /\ s[2] \in Known
    BY <2>0 DEF TypeOK
  <2>5. s[1] = i /\ s[2] = Flag(i)
    BY <2>2, <2>3, <2>4, ExportsAreApart
  <2>6. PICK k \in 1..served[i] : flags[i][k] = Flag(i)
    BY <2>0, <2>2, <2>5 DEF Taken
  <2>7. /\ served[i] \in Nat /\ Len(flags[i]) \in Nat /\ served[i] < Len(flags[i])
        /\ DOMAIN flags[i] = 1..Len(flags[i])
    BY <2>0, <2>2, MetricsAssumption DEF TypeOK, More
  <2>8. Repeats(flags[i])
    BY <2>2, <2>6, <2>7 DEF Repeats, Flag
  <2>9. served'[i] # served[i]
    BY <2>0, <2>1, <2>7 DEF Send, Skip, TypeOK
  <2> QED
    BY <2>8, <2>9
<1> QED
  BY <1>1, Invariance, PTL DEF Spec, OnlyRepeatsFail

-----------------------------------------------------------------------------
(* The refinement.                                                         *)

\* A step that keeps the stage, the roles and what was sent is none of Gather's.
LEMMA Unseen ==
  ASSUME Stage' = Stage, \A i \in Instances : Role(pc'[i]) = Role(pc[i]), sent' = sent
  PROVE  UNCHANGED Abstract!vars
  BY DEF Abstract!vars

\* A goroutine is spawned: its sender joins.  One that is done leaves.
LEMMA RoleMoves ==
  ASSUME IInv, NEW i \in Instances, NEW label \in {"none", "open", "serve", "send", "done"},
         pc' = [pc EXCEPT ![i] = label]
  PROVE  [j \in Instances |-> Role(pc'[j])] = [[j \in Instances |-> Role(pc[j])] EXCEPT ![i] = Role(label)]
  BY DEF IInv, TypeOK

\* The steps of Collect and of the registry.
LEMMA CollectIsGather ==
  ASSUME IInv, Scrape \/ List \/ Gauges \/ Wait \/ Answer
  PROVE  [Abstract!Next]_(Abstract!vars)
<1> USE DEF Stage
<1>1. CASE Scrape
  <2>1. Abstract!Open
    BY <1>1 DEF Scrape, Abstract!Open, Role
  <2> QED
    BY <2>1 DEF Abstract!Next
<1>2. CASE List
  BY <1>2, Unseen DEF List, routines, registry
<1>3. CASE Gauges
  <2>1. Abstract!Settle
    BY <1>3 DEF Gauges, Abstract!Settle, routines, registry
  <2> QED
    BY <2>1 DEF Abstract!Next
<1>4. CASE Wait
  <2>1. Going = {}
    BY <1>4, GoingIsFinite, FS_EmptySet DEF IInv, Wait, Counted, Going
  <2>2. \A i \in Instances : Role(pc[i]) # "sending"
    BY <2>1 DEF Going, Active, Role, IInv, TypeOK
  <2>3. Abstract!Close
    BY <1>4, <2>2 DEF Wait, Abstract!Close, routines
  <2> QED
    BY <2>3 DEF Abstract!Next
<1>5. CASE Answer
  <2>1. Abstract!Finish
    BY <1>5 DEF Answer, Abstract!Finish, routines
  <2> QED
    BY <2>1 DEF Abstract!Next
<1> QED
  BY <1>1, <1>2, <1>3, <1>4, <1>5

\* A look at a running instance lets it join, once.
LEMMA LookIsGather ==
  ASSUME IInv, NEW i \in Instances, Look(i)
  PROVE  [Abstract!Next]_(Abstract!vars)
<1>1. main = "look" /\ main' = main /\ sent' = sent /\ pc[i] = "none"
  BY DEF Look, registry, IInv, Phases
<1>2. CASE UNCHANGED pc
  BY <1>1, <1>2, Unseen DEF Stage
<1>3. CASE pc' = [pc EXCEPT ![i] = "open"]
  <2>1. Abstract!Join(i)
    BY <1>1, <1>3, RoleMoves DEF Abstract!Join, Stage, Role
  <2> QED
    BY <2>1 DEF Abstract!Next
<1> QED
  BY <1>2, <1>3 DEF Look

\* The steps of a goroutine: it sends for its instance, or leaves.
LEMMA GoroutineIsGather ==
  ASSUME IInv, NEW i \in Instances, Goroutine(i)
  PROVE  [Abstract!Next]_(Abstract!vars)
<1>0. TypeOK /\ Phases /\ Taken
  BY DEF IInv
<1>1. main' = main /\ Active(i)
  BY DEF Goroutine, ReadFlags, Serve, Send, Active, collect
<1>2. Stage' = Stage /\ Stage \in {"listing", "waiting"} /\ Role(pc[i]) = "sending"
  BY <1>0, <1>1 DEF Stage, Role, Phases, Active, TypeOK
<1>3. CASE Done(i) /\ sent' = sent
  <2>1. Abstract!Leave(i)
    BY <1>2, <1>3, RoleMoves DEF Done, Abstract!Leave, Role
  <2> QED
    BY <2>1 DEF Abstract!Next
<1>4. ASSUME NEW label \in {"serve", "send"}, pc' = [pc EXCEPT ![i] = label]
      PROVE  \A j \in Instances : Role(pc'[j]) = Role(pc[j])
  BY <1>0, <1>2, <1>4 DEF Role, TypeOK
<1>5. CASE ReadFlags(i) \/ Serve(i)
  <2>1. sent' = sent
    BY <1>5 DEF ReadFlags, Serve, registry
  <2>2. \/ Done(i) \/ pc' = pc
        \/ pc' = [pc EXCEPT ![i] = "serve"] \/ pc' = [pc EXCEPT ![i] = "send"]
    BY <1>5 DEF ReadFlags, Serve, TakeFlags
  <2> QED
    BY <1>2, <1>3, <1>4, <2>1, <2>2, Unseen
<1>6. CASE Send(i)
  <2>1. Flag(i) \in Known
    BY <1>0, <1>6 DEF Send, Taken
  <2>2. [j \in Instances |-> Role(pc'[j])] = [j \in Instances |-> Role(pc[j])]
    BY <1>4, <1>6 DEF Send
  <2>3. Abstract!Give(i)
    BY <1>2, <1>6, <2>1, <2>2 DEF Send, Abstract!Give
  <2> QED
    BY <2>3 DEF Abstract!Next
<1> QED
  BY <1>5, <1>6 DEF Goroutine

LEMMA GatherStep ==
  ASSUME IInv, [Next]_vars
  PROVE  [Abstract!Next]_(Abstract!vars)
<1>1. CASE HostStep \/ (\E i \in Instances : Overwrite(i)) \/ UNCHANGED vars
  BY <1>1, Unseen DEF HostStep, Overwrite, vars, collect, routines, registry, Stage
<1> QED
  BY <1>1, CollectIsGather, LookIsGather, GoroutineIsGather DEF Next, Collector

\* Collect implements the contract of a collector, for any set of instances and
\* whatever becomes of them and of their run.json meanwhile.
THEOREM GatherIsImplemented == Spec => ImplementsGather
<1>1. Init => Abstract!Init
  BY DEF Init, Abstract!Init, Stage, Role
<1>2. IInv /\ [Next]_vars => [Abstract!Next]_(Abstract!vars)
  BY GatherStep
<1> QED
  BY <1>1, <1>2, Invariance, PTL DEF Spec, ImplementsGather, Abstract!Spec
=============================================================================
