----------------------------- MODULE WebApiProofs -----------------------------
(***************************************************************************)
(* What is proved of a request, for any instances, names, paths and        *)
(* queries, and however often the dbus thread adds, removes and renames    *)
(* instances meanwhile: the types; that the status of a Redfish answer     *)
(* tells of every failure; that either API shows below an interface only   *)
(* its own addresses, unless it left; that a query breaks only when an     *)
(* instance arrived; that a path is resolved as it is spelled; and that a  *)
(* collection lists URIs that resolve.                                     *)
(*                                                                         *)
(* ApiInv is the inductive invariant.  RedfishInv: a request has nothing   *)
(* noted before its getters run, and the instances it has verified are of  *)
(* their node's entity and live or departed.  GraphqlInv: there is one     *)
(* builder for each selection set that is open, and one for the operation  *)
(* below them (OpenIs, VisitInv); without arrivals each of them has an     *)
(* item for all that is live (EntityBuilderOK).  ResolveInv adds what the  *)
(* path has spelled so far (SpellsInv), that a node that is spelled is     *)
(* still ahead while its instances last (SoughtInv), and which instances   *)
(* the parameters found while nothing changed (QuietInv).  The tree is     *)
(* fixed, and DownTheTree goes down it: what its patterns spell is derived *)
(* level by level.                                                         *)
(***************************************************************************)
EXTENDS WebApi, FiniteSetTheorems, SequenceTheorems, TLAPS

----------------------------------------------------------------------------
(* The instances: what a request has seen stays live or is departed.       *)
Seen == live \cup departed

InstancesInv ==
  /\ live \subseteq Instances
  /\ arrived \subseteq Instances
  /\ departed \subseteq Instances
  /\ changes \in 0..MaxChanges

LEMMA InstancesStep ==
  ASSUME InstancesInv, InstancesChange
  PROVE  /\ InstancesInv'
         /\ Seen \subseteq Seen'
         /\ departed \subseteq departed'
         /\ arrived' = {} => arrived = {} /\ live' \subseteq live
<1>1. CASE \E i \in Instances : Arrive(i)
  BY <1>1, InstancesAssumption DEF InstancesInv, Arrive, Seen
<1>2. CASE \E i \in Instances : Depart(i)
  BY <1>2, InstancesAssumption DEF InstancesInv, Depart, Seen
<1>3. CASE \E i \in DOMAIN Renamed : Rename(i)
  BY <1>3, InstancesAssumption DEF InstancesInv, Rename, Seen
<1> QED BY <1>1, <1>2, <1>3 DEF InstancesChange

----------------------------------------------------------------------------
(* The tree, its parameters and what the getters of a node ask for.        *)
LEMMA TreeNodes ==
  Nodes = {"RedfishRootNode", "RedfishV1", "CertificateService", "CertificateLocations",
           "Chassis", "ChassisNode", "Sensors", "SensorNode", "Managers", "BmcManager",
           "NetworkProtocol", "HTTPSCertificates", "HTTPSCertificateEp",
           "EthernetInterfaces", "EthernetInterfaceNode", "VLANs", "VLANNode"}
  BY DEF Nodes, Children

LEMMA ChildIsNode ==
  ASSUME NEW n \in Nodes, NEW k \in DOMAIN Children[n]
  PROVE  Children[n][k] \in Nodes
  BY TreeNodes DEF Children

LEMMA RootHasChild ==
  Root \in Nodes /\ 1 \in DOMAIN Children[Root]
  BY TreeNodes DEF Root, Children

LEMMA FirstChild ==
  ASSUME NEW n \in Nodes, Children[n] # <<>>
  PROVE  1 \in DOMAIN Children[n]
  BY TreeNodes DEF Children

LEMMA NextChild ==
  ASSUME NEW n \in Nodes, NEW k \in DOMAIN Children[n], k < Len(Children[n])
  PROVE  k + 1 \in DOMAIN Children[n]
  BY TreeNodes DEF Children

LEMMA RowsAreAddresses ==
  ASSUME NEW n, NEW g \in Nat \ {0}, g <= Len(FieldsGetters(n))
  PROVE  /\ FieldsGetters(n)[g][1] = "rows" =>
                n = "EthernetInterfaceNode" /\ FieldsGetters(n)[g][2] = "IP"
         /\ FieldsGetters(n)[g][2] = "IP" => FieldsGetters(n)[g][1] = "rows"
<1>1. CASE n \in Collections
  BY <1>1 DEF FieldsGetters, Collections
<1>2. CASE n \in {"RedfishV1", "CertificateLocations", "NetworkProtocol", "ChassisNode"}
  BY <1>2 DEF FieldsGetters, Collections
<1>3. CASE n = "BmcManager"
  BY <1>3 DEF FieldsGetters, Collections
<1>4. CASE n = "EthernetInterfaceNode"
  BY <1>4 DEF FieldsGetters, Collections
<1>5. CASE n \in {"SensorNode", "HTTPSCertificateEp", "VLANNode"}
  BY <1>5 DEF FieldsGetters, Collections, TParameterEntity
<1>6. CASE n \notin Collections \cup {"RedfishV1", "CertificateLocations", "NetworkProtocol",
                      "ChassisNode", "BmcManager", "EthernetInterfaceNode", "SensorNode",
                      "HTTPSCertificateEp", "VLANNode"}
  <2>1. FieldsGetters(n) = <<>>
    BY <1>6 DEF FieldsGetters
  <2> QED BY <2>1
<1> QED BY <1>1, <1>2, <1>3, <1>4, <1>5, <1>6

LEMMA NoneIsNothing ==
  /\ None \notin Instances /\ None \notin Nodes
  /\ None \notin {"uriNotFound", "methodNotAllowed", "internalError"}
  BY RedfishAssumption

(* What getInstances returns is of the entity, and live or verified before.*)
LEMMA GotAre ==
  ASSUME NEW entity, NEW matching, NEW i \in getInstances(entity, matching),
         InstancesInv, parameterCtx \in Instances \cup {None},
         parameterCtx # None => parameterCtx \in Seen
  PROVE  i \in Instances /\ EntityOf[i] = entity /\ i \in Seen
<1>1. \A S : InstancesOf(entity) \cap S \subseteq {j \in Instances : EntityOf[j] = entity /\ j \in Seen}
  BY DEF InstancesInv, InstancesOf, Seen
<1>2. getRelatedInstances(parameterCtx, entity) \subseteq InstancesOf(entity)
  BY DEF getRelatedInstances
<1>3. \/ i \in InstancesOf(entity)
      \/ i = parameterCtx /\ parameterCtx # None /\ EntityOf[parameterCtx] = entity
  BY <1>2, Zenon DEF getInstances
<1> QED BY <1>1, <1>3

(* The instances a getter shows are instances.                             *)
LEMMA SourceAre ==
  ASSUME NEW entity, InstancesInv, target \in Instances \cup {None}
  PROVE  SourceInstances(entity) \subseteq Instances
  BY DEF SourceInstances, InstancesInv, InstancesOf, getRelatedInstances
----------------------------------------------------------------------------
(* The Redfish request.                                                    *)
Untouched == error = None /\ noted = {} /\ body = <<>>

NoTopNote == \A m \in noted : m[1] # "top"

TypedParameters ==
  /\ DOMAIN parameters \subseteq Parameterized
  /\ \A n \in DOMAIN parameters : EntityOf[parameters[n].instance] = TParameterEntity[n]

SeenInstance(i) == i \in Instances \cup {None} /\ (i # None => i \in Seen)

TargetIsOfNode ==
  node \in Parameterized => target \in Instances /\ EntityOf[target] = TParameterEntity[node]

PhaseInv ==
  /\ phase \in {"idle", "resolve", "build"} => Untouched
  /\ phase = "idle" => parent = Root /\ child = 1
  /\ phase = "resolve" => child \in DOMAIN Children[parent]
  /\ phase \in {"build", "get"} => node \in Nodes
  /\ phase = "get" => /\ error = None
                      /\ getter \in Nat \ {0}
                      /\ status \in {"OK", "InternalServerError"}
                      /\ status = "OK" <=> NoTopNote
                      /\ TargetIsOfNode

RedfishParts ==
  /\ phase \in {"idle", "resolve", "build", "get", "done"}
  /\ parent \in Nodes /\ node \in Nodes \cup {None}
  /\ status \in {"none", "BadRequest", "OK", "NotFound", "MethodNotAllowed",
                 "InternalServerError"}
  /\ error \in {None, "uriNotFound", "methodNotAllowed", "internalError"}
  /\ SeenInstance(parameterCtx) /\ SeenInstance(target)
  /\ TypedParameters
  /\ \A k \in DOMAIN body : body[k].of \subseteq Instances

RedfishInv ==
  RedfishParts /\ PhaseInv /\ StatusTellsFailure /\ OwnRows

LEMMA RedfishInitially ==
  ASSUME RedfishInit
  PROVE  RedfishInv
<1>1. RedfishParts
  BY RootHasChild DEF RedfishInit, RedfishParts, SeenInstance, TypedParameters
<1>2. PhaseInv
  BY DEF RedfishInit, PhaseInv, Untouched
<1>3. StatusTellsFailure /\ OwnRows
  BY DEF RedfishInit, StatusTellsFailure, OwnRows
<1> QED BY <1>1, <1>2, <1>3 DEF RedfishInv

(* The dbus thread changes nothing of the request.                         *)
LEMMA RedfishWhileInstancesChange ==
  ASSUME InstancesInv, RedfishInv, InstancesChange, UNCHANGED requestVars
  PROVE  RedfishInv'
<1>1. Seen \subseteq Seen' /\ departed \subseteq departed'
  BY InstancesStep
<1>2. RedfishParts'
  BY <1>1 DEF requestVars, RedfishInv, RedfishParts, SeenInstance, TypedParameters
<1>3. PhaseInv'
  BY DEF requestVars, RedfishInv, PhaseInv, Untouched, NoTopNote, TargetIsOfNode
<1>4. StatusTellsFailure' /\ OwnRows'
  BY <1>1 DEF requestVars, RedfishInv, StatusTellsFailure, OwnRows
<1> QED BY <1>2, <1>3, <1>4 DEF RedfishInv

LEMMA RedfishUnchanged ==
  ASSUME RedfishInv, UNCHANGED requestVars, UNCHANGED instanceVars
  PROVE  RedfishInv'
  BY DEF requestVars, instanceVars, RedfishInv, RedfishParts, SeenInstance, TypedParameters,
         PhaseInv, Untouched, NoTopNote, TargetIsOfNode, StatusTellsFailure, OwnRows, Seen

LEMMA RedfishRuns ==
  ASSUME NEW req, RedfishInv, phase = "idle", RunRedfish(req), UNCHANGED instanceVars
  PROVE  RedfishInv'
<1> USE DEF RunRedfish
<1>1. RedfishParts'
  BY RootHasChild DEF instanceVars, RedfishInv, RedfishParts, SeenInstance, TypedParameters, Seen
<1>2. PhaseInv'
  BY RootHasChild, NoneIsNothing DEF RedfishInv, PhaseInv, Untouched
<1>3. StatusTellsFailure' /\ OwnRows'
  BY DEF instanceVars, RedfishInv, StatusTellsFailure, OwnRows
<1> QED BY <1>1, <1>2, <1>3 DEF RedfishInv

----------------------------------------------------------------------------
(* Resolution keeps the types, and notes nothing.                          *)
LEMMA EnteredChild ==
  ASSUME RedfishInv, phase = "resolve", NEW c \in Nodes, NEW d, EnterChild(c, d)
  PROVE  /\ phase' \in {"resolve", "build", "done"}
         /\ parent' \in Nodes /\ node' \in Nodes \cup {None}
         /\ phase' = "resolve" => child' \in DOMAIN Children[parent']
         /\ phase' = "build" => node' \in Nodes
         /\ phase' # "done" => status' = status /\ error' = error
         /\ phase' = "done" => status' = "NotFound" /\ error' = "uriNotFound"
         /\ UNCHANGED <<request, target, getter, noted, body, count>>
<1>1. UNCHANGED <<request, target, getter, noted, body, count>>
  BY DEF EnterChild
<1>2. CASE matchEntirePattern(d)
  BY <1>1, <1>2 DEF EnterChild, RedfishInv, RedfishParts
<1>3. CASE ~matchEntirePattern(d) /\ Children[c] = <<>>
  BY <1>1, <1>3 DEF EnterChild, Answer, RedfishInv, RedfishParts
<1>4. CASE ~matchEntirePattern(d) /\ Children[c] # <<>>
  BY <1>1, <1>4, FirstChild DEF EnterChild, RedfishInv, RedfishParts
<1> QED BY <1>2, <1>3, <1>4

(* What a step of the resolution may change, and what its context must be. *)
LEMMA ResolvedFurther ==
  ASSUME RedfishInv, phase = "resolve", UNCHANGED instanceVars,
         UNCHANGED <<target, noted, body>>,
         phase' \in {"resolve", "build", "done"},
         parent' \in Nodes, node' \in Nodes \cup {None},
         phase' = "resolve" => child' \in DOMAIN Children[parent'],
         phase' = "build" => node' \in Nodes,
         phase' # "done" => status' = status /\ error' = error,
         phase' = "done" => status' = "NotFound" /\ error' = "uriNotFound",
         SeenInstance(parameterCtx'), TypedParameters'
  PROVE  RedfishInv'
<1>1. RedfishParts'
  BY DEF instanceVars, RedfishInv, RedfishParts, SeenInstance, Seen
<1>2. PhaseInv'
  BY DEF RedfishInv, PhaseInv, Untouched
<1>3. StatusTellsFailure' /\ OwnRows'
  <2>1. phase' = "done" => status' # "OK" /\ error' # None
    BY NoneIsNothing
  <2>2. OwnRows'
    BY DEF RedfishInv, OwnRows, instanceVars
  <2> QED BY <2>1, <2>2 DEF StatusTellsFailure
<1> QED BY <1>1, <1>2, <1>3 DEF RedfishInv

LEMMA RedfishResolves ==
  ASSUME InstancesInv, RedfishInv, nextChildResolver, UNCHANGED instanceVars
  PROVE  RedfishInv'
<1> DEFINE c == Children[parent][child]
<1>1. phase = "resolve" /\ c \in Nodes
  BY ChildIsNode DEF nextChildResolver, RedfishInv, RedfishParts, PhaseInv
<1>2. SeenInstance(parameterCtx) /\ TypedParameters
  BY DEF RedfishInv, RedfishParts
<1>3. \/ EnterStatic(c) \/ EnterParameterized(c)
      \/ NextSibling \/ NodeNotFound
  BY Zenon DEF nextChildResolver
<1> HIDE DEF c
<1>4. CASE EnterStatic(c)
  <2>1. EnterChild(c, BehindPrefix(c)) /\ UNCHANGED <<parameterCtx, parameters>>
    BY <1>4 DEF EnterStatic
  <2>2. SeenInstance(parameterCtx') /\ TypedParameters'
    BY <1>2, <2>1 DEF TypedParameters
  <2>3. UNCHANGED <<target, noted, body>>
    BY <1>1, <2>1, EnteredChild
  <2> QED BY <1>1, <2>1, <2>2, <2>3, EnteredChild, ResolvedFurther
<1>5. CASE EnterParameterized(c)
  <2>1. EnterChild(c, BehindPrefix(c)) /\ c \in Parameterized
    BY <1>5 DEF EnterParameterized
  <2>2. PICK i \in verifyParameter(c, BehindPrefix(c)) :
           /\ parameterCtx' = i
           /\ parameters' = Extended(parameters, c,
                            [instance |-> i, value |-> request.path[BehindPrefix(c) + 1]])
    BY <1>5 DEF EnterParameterized
  <2>3. i \in getInstances(TParameterEntity[c],
                           EntityCondition(c, request.path[BehindPrefix(c) + 1]))
    BY <2>2 DEF verifyParameter
  <2>4. i \in Instances /\ EntityOf[i] = TParameterEntity[c] /\ i \in Seen
    BY <1>2, <2>3, GotAre DEF SeenInstance
  <2>5. SeenInstance(parameterCtx')
    BY <2>2, <2>4 DEF SeenInstance
  <2>6. TypedParameters'
    BY <1>2, <2>1, <2>2, <2>4 DEF TypedParameters, Extended
  <2>7. UNCHANGED <<target, noted, body>>
    BY <1>1, <2>1, EnteredChild
  <2> QED BY <1>1, <2>1, <2>5, <2>6, <2>7, EnteredChild, ResolvedFurther
<1>6. CASE NextSibling
  <2>1. /\ UNCHANGED <<phase, parent, node, target, noted, body, status, error, parameterCtx,
                       parameters>>
        /\ child' = child + 1 /\ child < Len(Children[parent])
    BY <1>6 DEF NextSibling, SiblingLeft
  <2>2. child' \in DOMAIN Children[parent']
    BY <1>1, <2>1, NextChild DEF RedfishInv, RedfishParts, PhaseInv
  <2>3. SeenInstance(parameterCtx') /\ TypedParameters'
    BY <1>2, <2>1 DEF TypedParameters
  <2>4. parent' \in Nodes /\ node' \in Nodes \cup {None}
    BY <2>1 DEF RedfishInv, RedfishParts
  <2> QED BY <1>1, <2>1, <2>2, <2>3, <2>4, ResolvedFurther
<1>7. CASE NodeNotFound
  <2>1. /\ UNCHANGED <<parent, node, target, noted, body, parameterCtx, parameters>>
        /\ phase' = "done" /\ status' = "NotFound" /\ error' = "uriNotFound"
    BY <1>7 DEF NodeNotFound, Answer
  <2>2. SeenInstance(parameterCtx') /\ TypedParameters'
    BY <1>2, <2>1 DEF TypedParameters
  <2>3. parent' \in Nodes /\ node' \in Nodes \cup {None}
    BY <2>1 DEF RedfishInv, RedfishParts
  <2> QED BY <1>1, <2>1, <2>2, <2>3, ResolvedFurther
<1> QED BY <1>3, <1>4, <1>5, <1>6, <1>7
----------------------------------------------------------------------------
(* The node found is processed.                                            *)
LEMMA RedfishProcesses ==
  ASSUME InstancesInv, RedfishInv, ProcessNode, UNCHANGED instanceVars
  PROVE  RedfishInv'
<1>1. /\ UNCHANGED <<request, parent, child, depth, parameterCtx, parameters, node, noted,
                     body, count>>
      /\ phase = "build"
  BY DEF ProcessNode, MethodNotAllowed, MethodGet, NoTarget
<1>2. error = None /\ noted = {} /\ body = <<>> /\ node \in Nodes
  BY <1>1 DEF RedfishInv, PhaseInv, Untouched
<1>3. CASE MethodNotAllowed \/ NoTarget
  <2>1. /\ phase' = "done" /\ UNCHANGED <<target, getter>>
        /\ \/ status' = "MethodNotAllowed" /\ error' = "methodNotAllowed"
           \/ status' = "InternalServerError" /\ error' = "internalError"
    BY <1>3 DEF MethodNotAllowed, NoTarget, Answer
  <2>2. RedfishParts'
    BY <1>1, <2>1 DEF RedfishInv, RedfishParts, SeenInstance, TypedParameters, instanceVars, Seen
  <2>3. PhaseInv'
    BY <2>1 DEF PhaseInv
  <2>4. StatusTellsFailure'
    BY <2>1, NoneIsNothing DEF StatusTellsFailure
  <2>5. OwnRows'
    BY <1>1, <1>2 DEF OwnRows
  <2> QED BY <2>2, <2>3, <2>4, <2>5 DEF RedfishInv
<1>4. CASE MethodGet
  <2>1. /\ phase' = "get" /\ getter' = 1 /\ status' = "OK" /\ error' = None
        /\ target' \in Targets
    BY <1>2, <1>4 DEF MethodGet
  <2>2. /\ SeenInstance(target')
        /\ node \in Parameterized => target' \in Instances /\ EntityOf[target'] = TParameterEntity[node]
    <3>1. CASE node \in Parameterized
      <4>1. target' \in getInstances(TParameterEntity[node],
                                     EntityCondition(node, Last(request.path)))
        BY <2>1, <3>1 DEF Targets
      <4>2. SeenInstance(parameterCtx)
        BY DEF RedfishInv, RedfishParts
      <4> QED BY <4>1, <4>2, GotAre DEF SeenInstance
    <3>2. CASE node \notin Parameterized
      BY <2>1, <3>2 DEF Targets, SeenInstance
    <3> QED BY <3>1, <3>2
  <2>3. RedfishParts'
    BY <1>1, <2>1, <2>2 DEF RedfishInv, RedfishParts, SeenInstance, TypedParameters,
       instanceVars, Seen
  <2>4. PhaseInv'
    BY <1>1, <1>2, <2>1, <2>2 DEF PhaseInv, NoTopNote, TargetIsOfNode
  <2>5. StatusTellsFailure' /\ OwnRows'
    BY <1>1, <1>2, <2>1 DEF StatusTellsFailure, OwnRows
  <2> QED BY <2>3, <2>4, <2>5 DEF RedfishInv
<1> QED BY <1>3, <1>4 DEF ProcessNode

----------------------------------------------------------------------------
(* The getters.  Filling(kind) is what the steps of all kinds have in      *)
(* common: they put at most the member of that kind, and note a failure.   *)
LEMMA GotNext ==
  ASSUME RedfishInv, NEW kind, Current(kind), UNCHANGED instanceVars,
         status' \in {"OK", "InternalServerError"},
         (status' = "OK") <=> NoTopNote',
         \A k \in DOMAIN body' : body'[k].of \subseteq Instances,
         OwnRows'
  PROVE  RedfishInv'
<1>1. /\ phase = "get" /\ phase' = "get" /\ getter' = getter + 1
      /\ UNCHANGED <<request, parent, child, depth, parameterCtx, parameters, node,
                     target, error>>
  BY DEF Current
<1>2. RedfishParts'
  BY <1>1 DEF RedfishInv, RedfishParts, SeenInstance, TypedParameters, instanceVars, Seen
<1>3. PhaseInv'
  BY <1>1 DEF RedfishInv, PhaseInv, TargetIsOfNode
<1>4. StatusTellsFailure'
  BY <1>1 DEF StatusTellsFailure
<1> QED BY <1>2, <1>3, <1>4 DEF RedfishInv

LEMMA StatusKept ==
  ASSUME RedfishInv, phase = "get",
         \/ UNCHANGED <<status, noted>>
         \/ \E k : UNCHANGED status /\ noted' = noted \cup {<<"inner", k>>}
         \/ \E k : status' = "InternalServerError" /\ noted' = noted \cup {<<"top", k>>}
  PROVE  /\ status' \in {"OK", "InternalServerError"}
         /\ (status' = "OK") <=> NoTopNote'
<1>1. status \in {"OK", "InternalServerError"} /\ ((status = "OK") <=> NoTopNote)
  BY DEF RedfishInv, PhaseInv
<1>2. CASE UNCHANGED <<status, noted>>
  BY <1>1, <1>2 DEF NoTopNote
<1>3. CASE \E k : UNCHANGED status /\ noted' = noted \cup {<<"inner", k>>}
  BY <1>1, <1>3 DEF NoTopNote
<1>4. CASE \E k : status' = "InternalServerError" /\ noted' = noted \cup {<<"top", k>>}
  <2>1. PICK k : status' = "InternalServerError" /\ noted' = noted \cup {<<"top", k>>}
    BY <1>4
  <2>2. <<"top", k>> \in noted' /\ <<"top", k>>[1] = "top"
    BY <2>1
  <2>3. ~NoTopNote'
    BY <2>2 DEF NoTopNote
  <2> QED BY <2>1, <2>3
<1> QED BY <1>2, <1>3, <1>4

(* A member that is no row changes no row; every member shows instances.   *)
LEMMA MemberPut ==
  ASSUME RedfishInv, NEW kind, Current(kind), kind # "rows", UNCHANGED instanceVars,
         NEW shown \in SUBSET Instances, NEW uris, body' = Put(Key, shown, uris)
  PROVE  (\A k \in DOMAIN body' : body'[k].of \subseteq Instances) /\ OwnRows'
<1>1. Key # "IP" /\ UNCHANGED <<target, departed>>
  <2>1. /\ getter \in Nat \ {0} /\ getter <= Len(FieldsGetters(node))
        /\ FieldsGetters(node)[getter][1] = kind
    BY DEF RedfishInv, PhaseInv, Current
  <2>2. Key # "IP"
    BY <2>1, RowsAreAddresses DEF Key
  <2> QED BY <2>2 DEF Current, instanceVars
<1>2. body' = Extended(body, Key, [of |-> shown, uris |-> uris])
  BY DEF Put
<1>3. \A k \in DOMAIN body : body[k].of \subseteq Instances
  BY DEF RedfishInv, RedfishParts
<1>4. OwnRows
  BY DEF RedfishInv
<1> HIDE DEF Key
<1>5. \A k \in DOMAIN body' : k \in DOMAIN body \cup {Key}
      /\ body'[k] = IF k = Key THEN [of |-> shown, uris |-> uris] ELSE body[k]
  BY <1>2 DEF Extended
<1>6. OwnRows'
  BY <1>1, <1>4, <1>5 DEF OwnRows
<1> QED BY <1>3, <1>5, <1>6

LEMMA NothingPut ==
  ASSUME RedfishInv, NEW kind, Current(kind), UNCHANGED instanceVars, UNCHANGED body
  PROVE  (\A k \in DOMAIN body' : body'[k].of \subseteq Instances) /\ OwnRows'
  BY DEF RedfishInv, RedfishParts, OwnRows, Current, instanceVars

(* The rows of an interface are its addresses, unless it departed.         *)
LEMMA RowsPut ==
  ASSUME InstancesInv, RedfishInv, Current("rows"), UNCHANGED instanceVars,
         body' = Put(Key, SourceInstances(Key), {})
  PROVE  (\A k \in DOMAIN body' : body'[k].of \subseteq Instances) /\ OwnRows'
<1>1. /\ getter \in Nat \ {0} /\ getter <= Len(FieldsGetters(node))
      /\ FieldsGetters(node)[getter][1] = "rows"
  BY DEF RedfishInv, PhaseInv, Current
<1>2. node = "EthernetInterfaceNode" /\ Key = "IP"
  BY <1>1, RowsAreAddresses DEF Key
<1>3. target \in Instances /\ EntityOf[target] = "Ethernet"
  BY <1>2 DEF Current, RedfishInv, PhaseInv, TargetIsOfNode, Parameterized, TParameterEntity
<1>4. target \in Seen /\ UNCHANGED <<target, departed>>
  BY <1>3, NoneIsNothing DEF RedfishInv, RedfishParts, SeenInstance, Current, instanceVars
<1>5. SourceInstances("IP") = getRelatedInstances(target, "IP")
  BY <1>3, NoneIsNothing DEF SourceInstances, Related
<1>6. \A r \in getRelatedInstances(target, "IP") :
         r \in Instances /\ (Owner[r] = target \/ target \in departed)
  BY <1>4 DEF getRelatedInstances, InstancesOf, GetConditions, Linked, relationToIp, Seen,
     InstancesInv
<1>7. \A k \in DOMAIN body : body[k].of \subseteq Instances
  BY DEF RedfishInv, RedfishParts
<1>8. body' = Extended(body, "IP", [of |-> SourceInstances("IP"), uris |-> {}])
  BY <1>2 DEF Put
<1> QED BY <1>4, <1>5, <1>6, <1>7, <1>8 DEF OwnRows, Extended

LEMMA RedfishGets ==
  ASSUME InstancesInv, RedfishInv, UNCHANGED instanceVars,
         \/ GetMembers \/ GetCount \/ GetField \/ GetObject \/ GetRows \/ GetLink \/ GetLinks
  PROVE  RedfishInv'
<1>1. target \in Instances \cup {None} /\ SeenInstance(parameterCtx)
  BY DEF RedfishInv, RedfishParts, SeenInstance
<1>2. CASE GetMembers
  <2>1. /\ Current("members") /\ UNCHANGED <<status, noted>>
        /\ body' = Put(Key, getAllSegmentValues,
                       {MemberUri(MemberNode, i) : i \in getAllSegmentValues})
    BY <1>2 DEF GetMembers
  <2>2. getAllSegmentValues \in SUBSET Instances
    BY <1>1, GotAre DEF getAllSegmentValues, SeenInstance
  <2> QED BY <2>1, <2>2, MemberPut, StatusKept, GotNext DEF Current
<1>3. CASE GetCount
  <2>1. Current("count") /\ UNCHANGED <<status, noted, body>>
    BY <1>3 DEF GetCount
  <2> QED BY <2>1, NothingPut, StatusKept, GotNext DEF Current
<1>4. CASE GetField
  <2>1. Current("field")
    BY <1>4 DEF GetField
  <2>2. CASE NotesTop /\ UNCHANGED body
    <3>1. status' = "InternalServerError" /\ noted' = noted \cup {<<"top", Key>>}
      BY <2>2 DEF NotesTop
    <3> QED BY <2>1, <2>2, <3>1, NothingPut, StatusKept, GotNext DEF Current
  <2>3. ASSUME NEW i \in SourceInstances(Key),
               body' = Put(Key, {i}, {}) /\ UNCHANGED <<status, noted>>
        PROVE  RedfishInv'
    <3>1. {i} \in SUBSET Instances
      BY <1>1, SourceAre
    <3> QED BY <2>1, <2>3, <3>1, MemberPut, StatusKept, GotNext DEF Current
  <2> QED BY <1>4, <2>2, <2>3 DEF GetField
<1>5. CASE GetObject
  <2>1. Current("object") /\ UNCHANGED status
    BY <1>5 DEF GetObject
  <2>2. CASE noted' = noted \cup {<<"inner", Key>>} /\ body' = Put(Key, {}, {})
    <3>1. {} \in SUBSET Instances
      OBVIOUS
    <3> QED BY <2>1, <2>2, <3>1, MemberPut, StatusKept, GotNext DEF Current
  <2>3. ASSUME NEW i \in SourceInstances(Key), body' = Put(Key, {i}, {}) /\ UNCHANGED noted
        PROVE  RedfishInv'
    <3>1. {i} \in SUBSET Instances
      BY <1>1, SourceAre
    <3> QED BY <2>1, <2>3, <3>1, MemberPut, StatusKept, GotNext DEF Current
  <2> QED BY <1>5, <2>2, <2>3 DEF GetObject
<1>6. CASE GetRows
  <2>1. /\ Current("rows") /\ UNCHANGED <<status, noted>>
        /\ body' = Put(Key, SourceInstances(Key), {})
    BY <1>6 DEF GetRows
  <2> QED BY <2>1, RowsPut, StatusKept, GotNext DEF Current
<1>7. CASE GetLink
  <2>1. Current("link") /\ UNCHANGED status
    BY <1>7 DEF GetLink
  <2>2. {} \in SUBSET Instances
    OBVIOUS
  <2>3. CASE noted' = noted \cup {<<"inner", Key>>} /\ body' = Put(Key, {}, {})
    BY <2>1, <2>2, <2>3, MemberPut, StatusKept, GotNext DEF Current
  <2>4. ASSUME NEW u, body' = Put(Key, {}, {u}) /\ UNCHANGED noted
        PROVE  RedfishInv'
    BY <2>1, <2>2, <2>4, MemberPut, StatusKept, GotNext DEF Current
  <2> QED BY <1>7, <2>3, <2>4 DEF GetLink
<1>8. CASE GetLinks
  <2>1. /\ Current("links") /\ UNCHANGED <<status, noted>>
        /\ body' = Put(Key, {}, resolveTemplate(Key))
    BY <1>8 DEF GetLinks
  <2>2. {} \in SUBSET Instances
    OBVIOUS
  <2> QED BY <2>1, <2>2, MemberPut, StatusKept, GotNext DEF Current
<1> QED BY <1>2, <1>3, <1>4, <1>5, <1>6, <1>7, <1>8

LEMMA RedfishEnds ==
  ASSUME RedfishInv, FlashPayload, UNCHANGED instanceVars
  PROVE  RedfishInv'
<1>1. phase = "get" /\ phase' = "done"
      /\ UNCHANGED <<parent, child, parameterCtx, parameters, node, target, status, error,
                     noted, body>>
  BY DEF FlashPayload
<1>2. RedfishParts'
  BY <1>1 DEF RedfishInv, RedfishParts, SeenInstance, TypedParameters, instanceVars, Seen
<1>3. PhaseInv' /\ StatusTellsFailure'
  BY <1>1 DEF RedfishInv, PhaseInv, StatusTellsFailure, NoTopNote
<1>4. OwnRows'
  BY <1>1 DEF RedfishInv, OwnRows, instanceVars
<1> QED BY <1>2, <1>3, <1>4 DEF RedfishInv

LEMMA RedfishSteps ==
  ASSUME InstancesInv, RedfishInv, RedfishStep, UNCHANGED instanceVars
  PROVE  RedfishInv'
  BY RedfishResolves, RedfishProcesses, RedfishGets, RedfishEnds DEF RedfishStep
----------------------------------------------------------------------------
(* The tree from below: the parent of a node, its level, what is under it. *)
Up ==
  [RedfishV1 |-> "RedfishRootNode", CertificateService |-> "RedfishV1",
   CertificateLocations |-> "CertificateService", Chassis |-> "RedfishV1",
   ChassisNode |-> "Chassis", Sensors |-> "ChassisNode", SensorNode |-> "Sensors",
   Managers |-> "RedfishV1", BmcManager |-> "Managers", NetworkProtocol |-> "BmcManager",
   HTTPSCertificates |-> "NetworkProtocol", HTTPSCertificateEp |-> "HTTPSCertificates",
   EthernetInterfaces |-> "BmcManager", EthernetInterfaceNode |-> "EthernetInterfaces",
   VLANs |-> "EthernetInterfaceNode", VLANNode |-> "VLANs"]

Level ==
  [RedfishRootNode |-> 0, RedfishV1 |-> 1, CertificateService |-> 2,
   CertificateLocations |-> 3, Chassis |-> 2, ChassisNode |-> 3, Sensors |-> 4,
   SensorNode |-> 5, Managers |-> 2, BmcManager |-> 3, NetworkProtocol |-> 4,
   HTTPSCertificates |-> 5, HTTPSCertificateEp |-> 6, EthernetInterfaces |-> 4,
   EthernetInterfaceNode |-> 5, VLANs |-> 6, VLANNode |-> 7]

LEMMA UpIs ==
  ASSUME NEW n \in Nodes, n # Root
  PROVE  Up[n] \in Nodes /\ n \in Range(Children[Up[n]]) /\ Level[n] = Level[Up[n]] + 1
<1>1. /\ Up[n] \in Nodes /\ Level[n] = Level[Up[n]] + 1
  BY TreeNodes DEF Up, Level, Root
<1>2. \E k \in DOMAIN Children[Up[n]] : n = Children[Up[n]][k]
  BY TreeNodes DEF Up, Root, Children
<1> QED BY <1>1, <1>2 DEF Range

LEMMA ChildUp ==
  ASSUME NEW p \in Nodes, NEW k \in DOMAIN Children[p]
  PROVE  Children[p][k] # Root /\ Up[Children[p][k]] = p
  BY TreeNodes DEF Children, Up, Root

LEMMA ParentIsUp ==
  ASSUME NEW n \in Nodes, n # Root
  PROVE  ParentOf(n) = Up[n]
<1>1. ParentOf(n) \in Nodes /\ n \in Range(Children[ParentOf(n)])
  BY UpIs DEF ParentOf
<1>2. PICK k \in DOMAIN Children[ParentOf(n)] : n = Children[ParentOf(n)][k]
  BY <1>1 DEF Range
<1> QED BY <1>1, <1>2, ChildUp

LEMMA Levels ==
  /\ Level \in [Nodes -> 0..7]
  /\ \A n \in Nodes : Level[n] = 0 <=> n = Root
  BY TreeNodes DEF Level, Root

(* What holds of the root and of every child whose parent it holds of.     *)
LEMMA DownTheTree ==
  ASSUME NEW S, Root \in S, \A n \in Nodes : n # Root /\ Up[n] \in S => n \in S
  PROVE  Nodes \subseteq S
<1>0. \A n \in Nodes : n # Root => Up[n] \in Nodes /\ Level[n] = Level[Up[n]] + 1
  BY UpIs
<1> DEFINE Upto(k) == \A n \in Nodes : Level[n] <= k => n \in S
<1>1. Upto(0)
  BY Levels
<1>2. ASSUME NEW k \in Nat, Upto(k)
      PROVE  Upto(k + 1)
  BY <1>0, <1>2, Levels
<1> HIDE DEF Upto
<1>3. Upto(1) /\ Upto(2) /\ Upto(3) /\ Upto(4)
  <2>1. Upto(0 + 1)
    BY <1>1, <1>2
  <2>2. Upto(1 + 1)
    BY <2>1, <1>2
  <2>3. Upto(2 + 1)
    BY <2>2, <1>2
  <2>4. Upto(3 + 1)
    BY <2>3, <1>2
  <2> QED BY <2>1, <2>2, <2>3, <2>4
<1>4. Upto(5) /\ Upto(6) /\ Upto(7)
  <2>1. Upto(4 + 1)
    BY <1>3, <1>2
  <2>2. Upto(5 + 1)
    BY <2>1, <1>2
  <2>3. Upto(6 + 1)
    BY <2>2, <1>2
  <2> QED BY <2>1, <2>2, <2>3
<1> QED BY <1>4, Levels DEF Upto
(* The patterns are made from the root down: what the recursion needs of a *)
(* level is there after as many rounds, and the tree has eight levels.     *)
Slotted(n, g) == IF n = Root THEN Slots(n) ELSE g[ParentOf(n)] \o Slots(n)
Round(g) == [n \in Nodes |-> Slotted(n, g)]

Alike(g, h, k) == \A n \in Nodes : Level[n] <= k => g[n] = h[n]

LEMMA RoundsAlike ==
  ASSUME NEW g, NEW h, NEW k \in Nat, Alike(g, h, k)
  PROVE  Alike(Round(g), Round(h), k + 1)
<1> SUFFICES ASSUME NEW n \in Nodes, Level[n] <= k + 1
             PROVE  Round(g)[n] = Round(h)[n]
  BY DEF Alike
<1>1. Round(g)[n] = Slotted(n, g) /\ Round(h)[n] = Slotted(n, h)
  BY DEF Round
<1>2. CASE n = Root
  BY <1>1, <1>2 DEF Slotted
<1>3. CASE n # Root
  <2>1. ParentOf(n) = Up[n] /\ Up[n] \in Nodes /\ Level[n] = Level[Up[n]] + 1
    BY <1>3, ParentIsUp, UpIs
  <2>2. g[ParentOf(n)] = h[ParentOf(n)]
    BY <2>1, Levels DEF Alike
  <2> QED BY <1>1, <1>3, <2>2 DEF Slotted
<1> QED BY <1>2, <1>3

LEMMA FixedRound == \E g : g = Round(g)
<1> DEFINE g0 == Round(<<>>)
           g1 == Round(g0)
           g2 == Round(g1)
           g3 == Round(g2)
           g4 == Round(g3)
           g5 == Round(g4)
           g6 == Round(g5)
           g7 == Round(g6)
           g8 == Round(g7)
<1>1. Alike(g1, g0, 0)
  <2>1. \A g : Round(g)[Root] = Slots(Root)
    BY TreeNodes DEF Round, Slotted, Root
  <2> QED BY <2>1, Levels DEF Alike
<1> HIDE DEF g0
<1>2. Alike(g2, g1, 0 + 1)
  BY <1>1, RoundsAlike
<1> HIDE DEF g1
<1>3. Alike(g3, g2, 1 + 1)
  BY <1>2, RoundsAlike
<1> HIDE DEF g2
<1>4. Alike(g4, g3, 2 + 1)
  BY <1>3, RoundsAlike
<1> HIDE DEF g3
<1>5. Alike(g5, g4, 3 + 1)
  BY <1>4, RoundsAlike
<1> HIDE DEF g4
<1>6. Alike(g6, g5, 4 + 1)
  BY <1>5, RoundsAlike
<1> HIDE DEF g5
<1>7. Alike(g7, g6, 5 + 1)
  BY <1>6, RoundsAlike
<1>8. Alike(g8, g7, 6 + 1)
  <2> HIDE DEF g6
  <2> QED BY <1>7, RoundsAlike
<1>9. g7 = [n \in Nodes |-> g7[n]] /\ g8 = [n \in Nodes |-> g8[n]]
  BY DEF Round
<1> HIDE DEF g6, g7, g8
<1>10. \A n \in Nodes : g8[n] = g7[n]
  BY <1>8, Levels DEF Alike
<1>11. g8 = g7
  BY <1>9, <1>10
<1> QED BY <1>11 DEF g8

LEMMA PatternIs ==
  /\ Pattern[Root] = Slots(Root)
  /\ \A n \in Nodes : n # Root => Pattern[n] = Pattern[Up[n]] \o Slots(n)
<1>1. Pattern = CHOOSE g : g = Round(g)
  BY DEF Pattern, Round, Slotted
<1>2. Pattern = Round(Pattern)
  BY <1>1, FixedRound
<1>3. Root \in Nodes
  BY TreeNodes DEF Root
<1>4. \A n \in Nodes : Pattern[n] = Slotted(n, Pattern)
  BY <1>2 DEF Round
<1> QED BY <1>3, <1>4, ParentIsUp DEF Slotted
----------------------------------------------------------------------------
(* What a node adds to the pattern of its parent: its prefix, its segment  *)
(* or parameter.                                                           *)
Https == "HTTPSCertificates"

Slot == UNION {Range(Slots(n)) : n \in Nodes}

LEMMA SlotsAre ==
  ASSUME NEW n \in Nodes
  PROVE  /\ n \in Parameterized => Slots(n) = << [node |-> n, segment |-> None] >>
         /\ n = Https => Slots(n) = << [node |-> None, segment |-> <<"HTTPS">>],
                                       [node |-> None, segment |-> <<"Certificates">>] >>
         /\ n \notin Parameterized /\ n # Https =>
               Slots(n) = << [node |-> None, segment |-> Segment(n)] >>
<1>1. Https \notin Parameterized
  BY DEF Https, Parameterized, TParameterEntity
<1>2. CASE n = Https
  <2> DEFINE f == [k \in DOMAIN << <<"HTTPS">> >> |->
                      [node |-> None, segment |-> << <<"HTTPS">> >>[k]]]
  <2>1. f = << [node |-> None, segment |-> <<"HTTPS">>] >>
    OBVIOUS
  <2>2. Segment(n) = <<"Certificates">>
    BY <1>2 DEF Https, Segment, Root
  <2>3. Slots(n) = f \o << [node |-> None, segment |-> <<"Certificates">>] >>
    BY <1>1, <1>2, <2>2, Zenon DEF Slots, uriPrefix, Https
  <2> HIDE DEF f
  <2> DEFINE a == [node |-> None, segment |-> <<"HTTPS">>]
             b == [node |-> None, segment |-> <<"Certificates">>]
  <2> HIDE DEF a, b
  <2>4. ASSUME NEW x, NEW y
        PROVE  <<x>> \o <<y>> = <<x, y>>
    <3> DEFINE T == {x, y}
               s == <<x>>
               t == <<y>>
               u == <<x, y>>
    <3>1. /\ s \in Seq(T) /\ t \in Seq(T) /\ u \in Seq(T)
          /\ Len(s) = 1 /\ Len(t) = 1 /\ Len(u) = 2
          /\ s[1] = x /\ t[1] = y /\ u[1] = x /\ u[2] = y
      OBVIOUS
    <3> HIDE DEF s, t, u, T
    <3>2. /\ s \o t \in Seq(T) /\ Len(s \o t) = Len(s) + Len(t)
          /\ \A k \in 1..(Len(s) + Len(t)) :
                (s \o t)[k] = IF k <= Len(s) THEN s[k] ELSE t[k - Len(s)]
      BY <3>1, ConcatProperties
    <3>3. \A k \in 1..2 : (s \o t)[k] = u[k]
      <4>1. Len(s \o t) = 2 /\ (s \o t)[1] = s[1] /\ (s \o t)[2] = t[2 - 1]
        BY <3>1, <3>2
      <4> QED BY <3>1, <4>1
    <3>4. s \o t = u
      BY <3>1, <3>2, <3>3, SeqEqual
    <3> QED BY <3>4 DEF s, t, u
  <2>5. Slots(n) = <<a, b>>
    BY <2>1, <2>3, <2>4, Zenon DEF a, b
  <2> QED BY <1>1, <1>2, <2>5 DEF a, b
<1>3. CASE n # Https
  <2> DEFINE f == [k \in DOMAIN <<>> |-> [node |-> None, segment |-> <<>>[k]]]
             s == IF n \in Parameterized THEN [node |-> n, segment |-> None]
                                         ELSE [node |-> None, segment |-> Segment(n)]
  <2>1. f = <<>>
    OBVIOUS
  <2>2. Slots(n) = f \o <<s>>
    BY <1>3, Zenon DEF Slots, uriPrefix, Https
  <2>3. Slots(n) = <<s>>
    <3> HIDE DEF s, f
    <3>1. \A x : <<>> \o <<x>> = <<x>>
      OBVIOUS
    <3> QED BY <2>1, <2>2, <3>1, Zenon
  <2> QED BY <1>3, <2>3
<1> QED BY <1>2, <1>3

LEMMA SlotsType ==
  ASSUME NEW n \in Nodes
  PROVE  /\ Slots(n) \in Seq(Slot)
         /\ Len(Slots(n)) = IF n = Https THEN 2 ELSE 1
<1>1. Https \notin Parameterized
  BY DEF Https, Parameterized, TParameterEntity
<1>2. \A x : <<x>> \in Seq({x}) /\ Len(<<x>>) = 1
  OBVIOUS
<1>3. \A x, y : <<x, y>> \in Seq({x, y}) /\ Len(<<x, y>>) = 2
  OBVIOUS
<1>4. (\E T : Slots(n) \in Seq(T)) /\ Len(Slots(n)) = IF n = Https THEN 2 ELSE 1
  <2>1. CASE n = Https
    <3>1. PICK x, y : Slots(n) = <<x, y>>
      BY <2>1, SlotsAre
    <3>2. Slots(n) \in Seq({x, y}) /\ Len(Slots(n)) = 2
      BY <1>3, <3>1, Zenon
    <3> QED BY <2>1, <3>2
  <2>2. CASE n # Https
    <3>1. PICK x : Slots(n) = <<x>>
      BY <2>2, SlotsAre
    <3> QED BY <1>2, <2>2, <3>1
  <2> QED BY <2>1, <2>2
<1>5. PICK T : Slots(n) \in Seq(T)
  BY <1>4
<1>6. \A k \in 1..Len(Slots(n)) : Slots(n)[k] \in Slot
  BY <1>5, LenProperties DEF Slot, Range
<1>7. Slots(n) \in Seq(Slot)
  BY <1>5, <1>6, LenProperties, IsASeq
<1> QED BY <1>4, <1>7

LEMMA PatternType == \A n \in Nodes : Pattern[n] \in Seq(Slot)
<1> DEFINE S == {n \in Nodes : Pattern[n] \in Seq(Slot)}
<1>1. Root \in S
  BY TreeNodes, PatternIs, SlotsType DEF Root
<1>2. ASSUME NEW n \in Nodes, n # Root, Up[n] \in S
      PROVE  n \in S
  <2>1. Pattern[n] = Pattern[Up[n]] \o Slots(n)
    BY <1>2, PatternIs
  <2>2. \A s, t \in Seq(Slot) : s \o t \in Seq(Slot)
    OBVIOUS
  <2> QED BY <1>2, <2>1, <2>2, SlotsType, Zenon
<1>3. Nodes \subseteq S
  BY <1>1, <1>2, DownTheTree
<1> QED BY <1>3

(* What a child appends.                                                   *)
LEMMA PatternExtends ==
  ASSUME NEW n \in Nodes, n # Root
  PROVE  /\ Up[n] \in Nodes
         /\ Len(Pattern[Up[n]]) \in Nat
         /\ Len(Pattern[n]) = Len(Pattern[Up[n]]) + Len(Slots(n))
         /\ \A k \in 1..Len(Pattern[Up[n]]) : Pattern[n][k] = Pattern[Up[n]][k]
         /\ \A k \in 1..Len(Slots(n)) : Pattern[n][Len(Pattern[Up[n]]) + k] = Slots(n)[k]
<1> DEFINE s == Pattern[Up[n]]
           t == Slots(n)
<1>1. Up[n] \in Nodes /\ Pattern[n] = s \o t /\ s \in Seq(Slot) /\ t \in Seq(Slot)
  BY UpIs, PatternIs, PatternType, SlotsType
<1> HIDE DEF s, t
<1>2. /\ Len(s) \in Nat /\ Len(t) \in Nat /\ Len(s \o t) = Len(s) + Len(t)
      /\ \A k \in 1..Len(s) : (s \o t)[k] = s[k]
      /\ \A k \in 1..Len(t) : (s \o t)[Len(s) + k] = t[k]
  BY <1>1
<1> QED BY <1>1, <1>2 DEF s, t

----------------------------------------------------------------------------
(* The nodes under a node, itself included.                                *)
Under ==
  [RedfishRootNode |-> Nodes, RedfishV1 |-> Nodes \ {Root},
   CertificateService |-> {"CertificateService", "CertificateLocations"},
   CertificateLocations |-> {"CertificateLocations"},
   Chassis |-> {"Chassis", "ChassisNode", "Sensors", "SensorNode"},
   ChassisNode |-> {"ChassisNode", "Sensors", "SensorNode"},
   Sensors |-> {"Sensors", "SensorNode"}, SensorNode |-> {"SensorNode"},
   Managers |-> {"Managers", "BmcManager", "NetworkProtocol", "HTTPSCertificates",
                 "HTTPSCertificateEp", "EthernetInterfaces", "EthernetInterfaceNode",
                 "VLANs", "VLANNode"},
   BmcManager |-> {"BmcManager", "NetworkProtocol", "HTTPSCertificates",
                   "HTTPSCertificateEp", "EthernetInterfaces", "EthernetInterfaceNode",
                   "VLANs", "VLANNode"},
   NetworkProtocol |-> {"NetworkProtocol", "HTTPSCertificates", "HTTPSCertificateEp"},
   HTTPSCertificates |-> {"HTTPSCertificates", "HTTPSCertificateEp"},
   HTTPSCertificateEp |-> {"HTTPSCertificateEp"},
   EthernetInterfaces |-> {"EthernetInterfaces", "EthernetInterfaceNode", "VLANs", "VLANNode"},
   EthernetInterfaceNode |-> {"EthernetInterfaceNode", "VLANs", "VLANNode"},
   VLANs |-> {"VLANs", "VLANNode"}, VLANNode |-> {"VLANNode"}]

LEMMA UnderUp ==
  ASSUME NEW c \in Nodes, NEW n \in Under[c]
  PROVE  /\ n \in Nodes
         /\ n = Root => c = Root
         /\ n # c => n # Root /\ Up[n] \in Under[c]
  BY TreeNodes DEF Under, Up, Root

LEMMA UnderChild ==
  ASSUME NEW c \in Nodes, NEW n \in Under[c], n # c
  PROVE  \E k \in DOMAIN Children[c] : n \in Under[Children[c][k]]
  BY TreeNodes DEF Under, Children, Root

(* A node spells what the nodes above it spell, and more.                  *)
Begins(c, n) ==
  /\ Len(Pattern[c]) <= Len(Pattern[n])
  /\ n # c => Len(Pattern[c]) < Len(Pattern[n])
  /\ \A k \in 1..Len(Pattern[c]) : Pattern[n][k] = Pattern[c][k]

LEMMA UnderBegins == \A n \in Nodes : \A c \in Nodes : n \in Under[c] => Begins(c, n)
<1> DEFINE S == {n \in Nodes : \A c \in Nodes : n \in Under[c] => Begins(c, n)}
<1>1. Root \in S
  <2>1. \A c \in Nodes : Root \in Under[c] => c = Root
    BY UnderUp
  <2>2. Root \in Nodes /\ Len(Pattern[Root]) \in Nat
    BY TreeNodes, PatternType DEF Root
  <2>3. Begins(Root, Root)
    BY <2>2 DEF Begins
  <2> QED BY <2>1, <2>2, <2>3
<1>2. ASSUME NEW n \in Nodes, n # Root, Up[n] \in S
      PROVE  n \in S
  <2> SUFFICES ASSUME NEW c \in Nodes, n \in Under[c]
               PROVE  Begins(c, n)
    OBVIOUS
  <2>1. /\ Up[n] \in Nodes /\ Len(Pattern[Up[n]]) \in Nat
        /\ Len(Pattern[n]) = Len(Pattern[Up[n]]) + Len(Slots(n))
        /\ \A k \in 1..Len(Pattern[Up[n]]) : Pattern[n][k] = Pattern[Up[n]][k]
    BY <1>2, PatternExtends
  <2>2. Len(Slots(n)) \in {1, 2}
    BY SlotsType
  <2>3. CASE n = c
    <3>1. Len(Pattern[n]) \in Nat
      BY <2>1, <2>2
    <3> QED BY <2>3, <3>1 DEF Begins
  <2>4. CASE n # c
    <3>1. Begins(c, Up[n])
      BY <1>2, <2>4, UnderUp
    <3>2. Len(Pattern[c]) \in Nat
      BY PatternType
    <3> DEFINE lc == Len(Pattern[c])
               lu == Len(Pattern[Up[n]])
               ln == Len(Pattern[n])
    <3>3. lc \in Nat /\ lu \in Nat /\ lc <= lu /\ lu < ln
      <4>1. lc <= lu
        BY <3>1, Zenon DEF Begins
      <4>2. ln = lu + 1 \/ ln = lu + 2
        BY <2>1, <2>2
      <4>3. lc \in Nat /\ lu \in Nat
        BY <2>1, <3>2
      <4> HIDE DEF lc, lu, ln
      <4> QED BY <4>1, <4>2, <4>3
    <3>4. ASSUME NEW k \in 1..lc
          PROVE  Pattern[n][k] = Pattern[c][k]
      <4>1. Pattern[Up[n]][k] = Pattern[c][k]
        BY <3>1 DEF Begins
      <4>2. k \in 1..lu
        BY <3>3
      <4> QED BY <2>1, <4>1, <4>2
    <3>5. ln \in Nat
      BY <2>1, <2>2
    <3>6. lc <= ln /\ lc < ln
      BY <3>3, <3>5
    <3> QED BY <3>4, <3>6 DEF Begins
  <2> QED BY <2>3, <2>4
<1>3. Nodes \subseteq S
  BY <1>1, <1>2, DownTheTree
<1> QED BY <1>3

----------------------------------------------------------------------------
(* Sequences whose elements are of no fixed type: the builders hold        *)
(* fragments that hold the fragments of other builders.                    *)
IsSeq(s) == \E T : s \in Seq(T)

LEMMA SeqIs ==
  ASSUME NEW s, IsSeq(s)
  PROVE  Len(s) \in Nat /\ DOMAIN s = 1..Len(s)
<1>1. PICK T : s \in Seq(T)
  BY DEF IsSeq
<1> QED BY <1>1

LEMMA SeqWider ==
  ASSUME NEW T, NEW s \in Seq(T), NEW U, T \subseteq U
  PROVE  s \in Seq(U)
<1>1. \A k \in 1..Len(s) : s[k] \in U
  BY ElementOfSeq
<1> QED BY <1>1, IsASeq, LenProperties

LEMMA SeqAppend ==
  ASSUME NEW s, IsSeq(s), NEW x
  PROVE  /\ IsSeq(Append(s, x))
         /\ Len(Append(s, x)) = Len(s) + 1
         /\ \A k \in 1..Len(s) : Append(s, x)[k] = s[k]
         /\ Append(s, x)[Len(s) + 1] = x
<1>1. PICK T : s \in Seq(T)
  BY DEF IsSeq
<1>2. s \in Seq(T \cup {x})
  BY <1>1, SeqWider
<1>3. Append(s, x) \in Seq(T \cup {x})
  BY <1>2
<1> QED BY <1>2, <1>3 DEF IsSeq

LEMMA SeqFront ==
  ASSUME NEW s, IsSeq(s), Len(s) > 0
  PROVE  /\ IsSeq(Front(s))
         /\ Len(Front(s)) = Len(s) - 1
         /\ \A k \in 1..(Len(s) - 1) : Front(s)[k] = s[k]
<1>1. PICK T : s \in Seq(T)
  BY DEF IsSeq
<1> DEFINE n == Len(s) - 1
<1>2. n \in Nat /\ \A k \in 1..n : s[k] \in T
  BY <1>1, ElementOfSeq
<1>3. Front(s) = SubSeq(s, 1, n)
  BY DEF Front
<1> HIDE DEF n
<1>4. /\ SubSeq(s, 1, n) \in Seq(T)
      /\ Len(SubSeq(s, 1, n)) = IF 1 <= n THEN n - 1 + 1 ELSE 0
      /\ \A k \in 1..(n - 1 + 1) : SubSeq(s, 1, n)[k] = s[1 + k - 1]
  BY <1>2, SubSeqProperties
<1>5. Len(Front(s)) = n /\ \A k \in 1..n : Front(s)[k] = s[k]
  BY <1>2, <1>3, <1>4
<1> QED BY <1>3, <1>4, <1>5 DEF IsSeq, n

LEMMA SeqReplace ==
  ASSUME NEW s, IsSeq(s), NEW n \in 1..Len(s), NEW x
  PROVE  /\ IsSeq(ReplaceAt(s, n, x))
         /\ Len(ReplaceAt(s, n, x)) = Len(s)
         /\ \A k \in 1..Len(s) : ReplaceAt(s, n, x)[k] = IF k = n THEN x ELSE s[k]
<1>1. PICK T : s \in Seq(T)
  BY DEF IsSeq
<1>2. s \in Seq(T \cup {x})
  BY <1>1, SeqWider
<1>3. [s EXCEPT ![n] = x] \in Seq(T \cup {x})
  BY <1>2, ExceptSeq
<1> QED BY <1>2, <1>3, ExceptSeq DEF IsSeq, ReplaceAt

----------------------------------------------------------------------------
(* Resolution: what the path has spelled of the pattern so far, and which  *)
(* instance the parameters on the way to a parent have left in the context.*)
GoodPath(p) == p \in Seq(Seq(STRING)) /\ Len(p) > 0 /\ p[1] = Segment(Root)

FitsSlot(slot, segment) == slot.node = None => slot.segment = segment

SpelledTo(n) ==
  \A k \in 1..Len(Pattern[n]) : FitsSlot(Pattern[n][k], request.path[k])

CtxEntity ==
  [ChassisNode |-> "Server", Sensors |-> "Server", BmcManager |-> "BmcManager",
   NetworkProtocol |-> "BmcManager", HTTPSCertificates |-> "BmcManager",
   EthernetInterfaces |-> "BmcManager", EthernetInterfaceNode |-> "Ethernet",
   VLANs |-> "Ethernet"]

CtxOK(n, i) ==
  IF n \in DOMAIN CtxEntity THEN i \in Instances /\ EntityOf[i] = CtxEntity[n] ELSE i = None

SpellsInv ==
  /\ phase # "idle" => GoodPath(request.path)
  /\ phase = "idle" => node = None /\ parameterCtx = None
  /\ phase = "resolve" => /\ node = None
                          /\ depth = Len(Pattern[parent]) /\ depth < Len(request.path)
                          /\ SpelledTo(parent)
                          /\ CtxOK(parent, parameterCtx)
  /\ node # None => Spells(request.path, node)

(* A node that is spelled and whose instances lasted is still to be found. *)
Sought(n) == Spells(request.path, n) /\ Named(request.path, n, Lasting)

Ahead(n) == \E k \in DOMAIN Children[parent] : k >= child /\ n \in Under[Children[parent][k]]

SoughtInv ==
  /\ phase = "idle" => status # "NotFound"
  /\ phase # "idle" => \A n \in Nodes : Sought(n) =>
      status # "NotFound" /\ (phase = "resolve" => Ahead(n))

NameInv ==
  /\ DOMAIN name = Instances
  /\ \A i \in Instances : name[i] = InitialName[i] \/ (i \in DOMAIN Renamed /\ name[i] = Renamed[i])

----------------------------------------------------------------------------
(* The tree once more: contexts, and siblings that differ.                 *)
LEMMA CtxOfChild ==
  ASSUME NEW p \in Nodes, NEW k \in DOMAIN Children[p], Children[Children[p][k]] # <<>>
  PROVE  LET c == Children[p][k]
         IN  /\ c \in Parameterized => c \in DOMAIN CtxEntity /\ CtxEntity[c] = TParameterEntity[c]
             /\ c \notin Parameterized =>
                   /\ c \in DOMAIN CtxEntity <=> p \in DOMAIN CtxEntity
                   /\ c \in DOMAIN CtxEntity => CtxEntity[c] = CtxEntity[p]
  BY TreeNodes DEF Children, Parameterized, TParameterEntity, CtxEntity

LEMMA CtxOfParameter ==
  ASSUME NEW p \in Nodes, NEW k \in DOMAIN Children[p], Children[p][k] \in Parameterized
  PROVE  LET c == Children[p][k]
         IN  /\ TParameterEntity[c] # "IP"
             /\ p \in DOMAIN CtxEntity /\ CtxEntity[p] = TParameterEntity[c] =>
                   TParameterEntity[c] = "Ethernet"
  BY TreeNodes DEF Children, Parameterized, TParameterEntity, CtxEntity

LEMMA ChildIndex ==
  ASSUME NEW p \in Nodes, NEW k \in DOMAIN Children[p]
  PROVE  k \in Nat \ {0} /\ k <= Len(Children[p])
  BY TreeNodes DEF Children

LEMMA SiblingsDiffer ==
  ASSUME NEW p \in Nodes, NEW k \in DOMAIN Children[p], NEW j \in DOMAIN Children[p], k # j
  PROVE  /\ Children[p][k] \notin Parameterized /\ Children[p][k] # Https
         /\ Segment(Children[p][k]) # Segment(Children[p][j])
<1> DEFINE c == Children[p][k]
           d == Children[p][j]
<1>1. /\ c \notin Parameterized /\ c # Https /\ c # d
      /\ {c, d} \subseteq {"CertificateService", "Chassis", "Managers", "NetworkProtocol",
                            "EthernetInterfaces"}
  BY TreeNodes DEF Children, Parameterized, TParameterEntity, Https
<1> HIDE DEF c, d
<1>2. Segment(c) = <<c>> /\ Segment(d) = <<d>>
  BY <1>1 DEF Segment, Root
<1>3. <<c>> # <<d>>
  <2>1. <<c>>[1] = c /\ <<d>>[1] = d
    OBVIOUS
  <2> QED BY <1>1, <2>1
<1> QED BY <1>1, <1>2, <1>3 DEF c, d

----------------------------------------------------------------------------
(* The prefix of a child and what is behind it.                            *)
LEMMA PrefixIs ==
  ASSUME RedfishInv, SpellsInv, phase = "resolve", NEW c \in Nodes
  PROVE  /\ depth \in Nat /\ Len(request.path) \in Nat /\ depth < Len(request.path)
         /\ c # Https => PrefixMatches(c)
         /\ c = Https => (PrefixMatches(c) <=> request.path[depth + 1] = <<"HTTPS">>)
         /\ PrefixMatches(c) => BehindPrefix(c) + 1 = depth + Len(Slots(c))
<1> DEFINE P == request.path
           t == SubSeq(P, depth + 1, Len(P))
           T == Seq(STRING) \cup {<<"HTTPS">>}
<1>1. P \in Seq(T) /\ depth = Len(Pattern[parent]) /\ depth < Len(P)
  BY SeqWider DEF SpellsInv, GoodPath
<1>2. depth \in Nat /\ Len(P) \in Nat
  BY <1>1, PatternType DEF RedfishInv, RedfishParts
<1>3. t \in Seq(T) /\ Len(t) >= 1 /\ t[1] = P[depth + 1]
  <2> DEFINE m == depth + 1
             n == Len(P)
  <2>1. m \in Int /\ n \in Int /\ m <= n /\ \A i \in m..n : P[i] \in T
    BY <1>1, <1>2, ElementOfSeq
  <2>2. /\ SubSeq(P, m, n) \in Seq(T) /\ Len(SubSeq(P, m, n)) = n - m + 1
        /\ \A i \in 1..(n - m + 1) : SubSeq(P, m, n)[i] = P[m + i - 1]
    <3> HIDE DEF m, n, P
    <3> QED BY <2>1, SubSeqProperties
  <2> HIDE DEF P
  <2>3. 1 \in 1..(n - m + 1) /\ m + 1 - 1 = m /\ n - m + 1 >= 1
    BY <1>2, <2>1
  <2> QED BY <2>2, <2>3
<1>4. CASE c # Https
  <2>1. uriPrefix(c) = <<>> /\ Len(<<>>) = 0
    BY <1>4 DEF uriPrefix, Https
  <2>2. SubSeq(<<>>, 1, 0) = <<>> /\ SubSeq(t, 1, 0) = <<>>
    BY SubSeqEmpty
  <2>3. PrefixMatches(c)
    <3> HIDE DEF t
    <3>1. IsPrefix(<<>>, t)
      BY <1>3, <2>1, <2>2 DEF IsPrefix
    <3> QED BY <2>1, <3>1 DEF PrefixMatches, t
  <2>4. Len(Slots(c)) = 1 /\ BehindPrefix(c) = depth
    BY <1>2, <1>4, <2>1, <2>3, SlotsType DEF BehindPrefix
  <2> QED BY <1>1, <1>2, <1>4, <2>3, <2>4
<1>5. CASE c = Https
  <2> DEFINE h == << <<"HTTPS">> >>
  <2>1. uriPrefix(c) = h /\ Len(h) = 1 /\ h[1] = <<"HTTPS">> /\ h \in Seq(T)
    <3>1. h \in Seq(T)
      OBVIOUS
    <3>2. uriPrefix(c) = h
      BY <1>5, Zenon DEF uriPrefix, Https
    <3> QED BY <3>1, <3>2
  <2>2. SubSeq(h, 1, 1) = h
    BY <2>1, SubSeqFull
  <2>3. /\ SubSeq(t, 1, 1) \in Seq(T) /\ Len(SubSeq(t, 1, 1)) = 1
        /\ SubSeq(t, 1, 1)[1] = t[1]
    <3> HIDE DEF t
    <3>1. \A i \in 1..1 : t[i] \in T
      BY <1>3, ElementOfSeq
    <3>2. /\ SubSeq(t, 1, 1) \in Seq(T)
          /\ Len(SubSeq(t, 1, 1)) = IF 1 <= 1 THEN 1 - 1 + 1 ELSE 0
          /\ \A i \in 1..(1 - 1 + 1) : SubSeq(t, 1, 1)[i] = t[1 + i - 1]
      BY <3>1, SubSeqProperties
    <3> QED BY <3>2
  <2> HIDE DEF h, t
  <2>4. SubSeq(t, 1, 1) = h <=> t[1] = <<"HTTPS">>
    <3>1. ASSUME t[1] = <<"HTTPS">>
          PROVE  SubSeq(t, 1, 1) = h
      <4>1. \A k \in 1..Len(h) : SubSeq(t, 1, 1)[k] = h[k]
        BY <2>1, <2>3, <3>1
      <4> QED BY <2>1, <2>3, <4>1, SeqEqual
    <3> QED BY <2>1, <2>3, <3>1
  <2>5. IsPrefix(h, t) <=> t[1] = <<"HTTPS">>
    BY <1>3, <2>1, <2>2, <2>4 DEF IsPrefix
  <2>6. PrefixMatches(c) <=> P[depth + 1] = <<"HTTPS">>
    BY <1>3, <2>1, <2>5 DEF PrefixMatches, t
  <2>7. PrefixMatches(c) => BehindPrefix(c) = depth + 1
    BY <2>1 DEF BehindPrefix
  <2>8. Len(Slots(c)) = 2
    BY <1>5, SlotsType
  <2> QED BY <1>1, <1>2, <1>5, <2>6, <2>7, <2>8
<1> QED BY <1>4, <1>5

----------------------------------------------------------------------------
(* A child is entered when what it adds to the pattern fits the path.      *)
FitsHere(c) ==
  /\ depth + Len(Slots(c)) <= Len(request.path)
  /\ \A k \in 1..Len(Slots(c)) : FitsSlot(Slots(c)[k], request.path[depth + k])

LEMMA StaticFits ==
  ASSUME RedfishInv, SpellsInv, phase = "resolve", NEW c \in Nodes, c \notin Parameterized
  PROVE  SegmentMatches(c, BehindPrefix(c)) <=> FitsHere(c)
<1> DEFINE P == request.path
           l == Len(P)
<1>1. /\ depth \in Nat /\ l \in Nat /\ depth < l
      /\ c # Https => PrefixMatches(c)
      /\ c = Https => (PrefixMatches(c) <=> P[depth + 1] = <<"HTTPS">>)
      /\ PrefixMatches(c) => BehindPrefix(c) + 1 = depth + Len(Slots(c))
  BY PrefixIs
<1>2. PrefixMatches(c) => BehindPrefix(c) \in Nat
  <2>1. depth + Len(uriPrefix(c)) \in Nat
    BY <1>1 DEF uriPrefix
  <2> QED BY <1>1, <2>1 DEF BehindPrefix
<1>3. SegmentMatches(c, BehindPrefix(c)) <=>
         PrefixMatches(c) /\ BehindPrefix(c) < l /\ P[BehindPrefix(c) + 1] = Segment(c)
  BY DEF SegmentMatches
<1>4. CASE c # Https
  <2>1. Slots(c) = << [node |-> None, segment |-> Segment(c)] >>
    BY <1>4, SlotsAre
  <2>2. Len(Slots(c)) = 1 /\ Slots(c)[1].node = None /\ Slots(c)[1].segment = Segment(c)
    BY <2>1
  <2>3. BehindPrefix(c) = depth
    BY <1>1, <1>2, <1>4, <2>2
  <2> HIDE DEF P, l
  <2>4. FitsHere(c) <=> Segment(c) = P[depth + 1]
    BY <1>1, <2>2 DEF FitsHere, FitsSlot, P, l
  <2> QED BY <1>1, <1>3, <1>4, <2>3, <2>4
<1>5. CASE c = Https
  <2>1. Slots(c) = << [node |-> None, segment |-> <<"HTTPS">>],
                      [node |-> None, segment |-> <<"Certificates">>] >>
    BY <1>5, SlotsAre
  <2>2. /\ Len(Slots(c)) = 2
        /\ Slots(c)[1].node = None /\ Slots(c)[1].segment = <<"HTTPS">>
        /\ Slots(c)[2].node = None /\ Slots(c)[2].segment = <<"Certificates">>
    BY <2>1
  <2>3. Segment(c) = <<"Certificates">>
    BY <1>5 DEF Segment, Https, Root
  <2>4. PrefixMatches(c) => BehindPrefix(c) = depth + 1
    BY <1>1, <1>2, <2>2
  <2> HIDE DEF P, l
  <2>5. FitsHere(c) <=> /\ depth + 2 <= l
                        /\ P[depth + 1] = <<"HTTPS">> /\ P[depth + 2] = <<"Certificates">>
    <3>1. 1..2 = {1, 2}
      OBVIOUS
    <3>2. FitsHere(c) <=> /\ depth + 2 <= l
                          /\ FitsSlot(Slots(c)[1], P[depth + 1])
                          /\ FitsSlot(Slots(c)[2], P[depth + 2])
      BY <2>2, <3>1 DEF FitsHere, P, l
    <3> QED BY <2>2, <3>2 DEF FitsSlot
  <2>6. depth + 1 < l <=> depth + 2 <= l
    BY <1>1
  <2>7. depth + 1 + 1 = depth + 2
    BY <1>1
  <2> QED BY <1>1, <1>3, <1>5, <2>3, <2>4, <2>5, <2>6, <2>7
<1> QED BY <1>4, <1>5

LEMMA ParameterFits ==
  ASSUME RedfishInv, SpellsInv, phase = "resolve", NEW c \in Nodes, c \in Parameterized
  PROVE  FitsHere(c) /\ PrefixMatches(c) /\ BehindPrefix(c) = depth
<1>1. /\ depth \in Nat /\ Len(request.path) \in Nat /\ depth < Len(request.path)
      /\ c # Https => PrefixMatches(c)
      /\ PrefixMatches(c) => BehindPrefix(c) + 1 = depth + Len(Slots(c))
  BY PrefixIs
<1>2. c # Https
  BY DEF Parameterized, TParameterEntity, Https
<1>3. Slots(c) = << [node |-> c, segment |-> None] >>
  BY SlotsAre
<1>4. Len(Slots(c)) = 1 /\ Slots(c)[1].node = c /\ c # None
  BY <1>3, NoneIsNothing
<1>5. BehindPrefix(c) = depth
  <2>1. uriPrefix(c) = <<>> /\ Len(<<>>) = 0
    BY <1>2 DEF uriPrefix, Https
  <2> QED BY <1>1, <2>1 DEF BehindPrefix
<1> QED BY <1>1, <1>2, <1>4, <1>5 DEF FitsHere, FitsSlot

(* A child that is entered spells its own pattern, and the other way round.*)
LEMMA FittingSpells ==
  ASSUME RedfishInv, SpellsInv, phase = "resolve",
         NEW k \in DOMAIN Children[parent], NEW c, c = Children[parent][k]
  PROVE  /\ c \in Nodes /\ Len(Pattern[c]) = depth + Len(Slots(c)) /\ Len(Pattern[c]) \in Nat
         /\ FitsHere(c) <=> Len(Pattern[c]) <= Len(request.path) /\ SpelledTo(c)
<1>1. parent \in Nodes
  BY DEF RedfishInv, RedfishParts
<1>2. c \in Nodes /\ c # Root /\ Up[c] = parent
  BY <1>1, ChildIsNode, ChildUp
<1>3. depth = Len(Pattern[parent]) /\ SpelledTo(parent)
  BY DEF SpellsInv
<1> DEFINE n == Len(Slots(c))
           m == Len(Pattern[c])
           l == Len(request.path)
<1>4. /\ depth \in Nat
      /\ m = depth + n
      /\ \A j \in 1..depth : Pattern[c][j] = Pattern[parent][j]
      /\ \A j \in 1..n : Pattern[c][depth + j] = Slots(c)[j]
  <2>1. /\ Len(Pattern[Up[c]]) \in Nat
        /\ m = Len(Pattern[Up[c]]) + n
        /\ \A j \in 1..Len(Pattern[Up[c]]) : Pattern[c][j] = Pattern[Up[c]][j]
        /\ \A j \in 1..n : Pattern[c][Len(Pattern[Up[c]]) + j] = Slots(c)[j]
    BY <1>2, PatternExtends
  <2>2. Len(Pattern[Up[c]]) = depth
    BY <1>2, <1>3
  <2> HIDE DEF m, n
  <2> QED BY <1>2, <2>1, <2>2
<1>5. n \in Nat
  BY <1>2, SlotsType
<1> HIDE DEF n, m, l
<1>6. SpelledTo(c) <=> \A j \in 1..n : FitsSlot(Slots(c)[j], request.path[depth + j])
  <2>1. SpelledTo(c) <=> \A j \in 1..m : FitsSlot(Pattern[c][j], request.path[j])
    BY DEF SpelledTo, m
  <2>2. \A j \in 1..depth : FitsSlot(Pattern[parent][j], request.path[j])
    BY <1>3 DEF SpelledTo
  <2>3. ASSUME \A j \in 1..m : FitsSlot(Pattern[c][j], request.path[j]), NEW j \in 1..n
        PROVE  FitsSlot(Slots(c)[j], request.path[depth + j])
    <3>1. depth + j \in 1..m
      BY <1>4, <1>5
    <3> QED BY <1>4, <2>3, <3>1
  <2>4. ASSUME \A j \in 1..n : FitsSlot(Slots(c)[j], request.path[depth + j]), NEW j \in 1..m
        PROVE  FitsSlot(Pattern[c][j], request.path[j])
    <3>1. CASE j <= depth
      <4>1. j \in 1..depth
        BY <1>4, <3>1
      <4> QED BY <1>4, <2>2, <4>1
    <3>2. CASE j > depth
      <4> DEFINE i == j - depth
      <4>1. i \in 1..n /\ depth + i = j
        BY <1>4, <1>5, <3>2
      <4> HIDE DEF i
      <4>2. Pattern[c][depth + i] = Slots(c)[i]
        BY <1>4, <4>1
      <4>3. FitsSlot(Slots(c)[i], request.path[depth + i])
        BY <2>4, <4>1
      <4> QED BY <4>1, <4>2, <4>3
    <3> QED BY <1>4, <1>5, <3>1, <3>2
  <2> QED BY <2>1, <2>3, <2>4
<1>7. m \in Nat
  BY <1>4, <1>5
<1> QED BY <1>2, <1>4, <1>6, <1>7 DEF FitsHere, n, m, l

(* Whoever spells a node spells all the nodes above it.                    *)
LEMMA SpellsAbove ==
  ASSUME NEW c \in Nodes, NEW n \in Under[c], Spells(request.path, n), GoodPath(request.path)
  PROVE  /\ n \in Nodes
         /\ Len(Pattern[c]) <= Len(request.path) /\ SpelledTo(c)
         /\ Len(Pattern[c]) = Len(request.path) <=> n = c
         /\ \A k \in 1..Len(Pattern[c]) :
               /\ k \in DOMAIN request.path
               /\ Pattern[n][k] = Pattern[c][k]
<1>1. n \in Nodes
  BY UnderUp
<1>2. Begins(c, n)
  BY <1>1, UnderBegins
<1>3. Len(Pattern[c]) \in Nat /\ Len(Pattern[n]) \in Nat
  BY <1>1, PatternType
<1>4. /\ Len(request.path) = Len(Pattern[n])
      /\ \A k \in DOMAIN request.path : FitsSlot(Pattern[n][k], request.path[k])
      /\ DOMAIN request.path = 1..Len(request.path)
  BY DEF Spells, FitsSlot, GoodPath
<1> DEFINE m == Len(Pattern[c])
           l == Len(request.path)
<1>5. m <= l /\ (n # c => m < l) /\ (n = c => m = l)
  BY <1>2, <1>4 DEF Begins
<1>6. \A k \in 1..m : k \in DOMAIN request.path /\ Pattern[n][k] = Pattern[c][k]
  <2>1. \A k \in 1..m : k \in 1..l
    <3> HIDE DEF m, l
    <3>1. m \in Nat /\ l \in Nat /\ m <= l
      BY <1>3, <1>4, <1>5 DEF m, l
    <3> QED BY <3>1
  <2> QED BY <1>2, <1>4, <2>1 DEF Begins
<1>7. SpelledTo(c)
  BY <1>4, <1>6 DEF SpelledTo
<1>8. m = l <=> n = c
  <2> HIDE DEF m, l
  <2>1. m \in Nat /\ l \in Nat
    BY <1>3, <1>4 DEF m, l
  <2> QED BY <1>5, <2>1
<1> QED BY <1>1, <1>5, <1>6, <1>7, <1>8

(* A node that is spelled is under the child that fits, and no other.      *)
LEMMA SpelledBelow ==
  ASSUME RedfishInv, SpellsInv, phase = "resolve", NEW k \in DOMAIN Children[parent],
         NEW n \in Under[Children[parent][k]], Spells(request.path, n)
  PROVE  FitsHere(Children[parent][k])
<1>1. Children[parent][k] \in Nodes
  BY ChildIsNode DEF RedfishInv, RedfishParts
<1> DEFINE c == Children[parent][k]
<1>2. GoodPath(request.path)
  BY DEF SpellsInv
<1>3. Len(Pattern[c]) <= Len(request.path) /\ SpelledTo(c)
  BY <1>1, <1>2, SpellsAbove
<1> HIDE DEF c
<1>4. FitsHere(c)
  BY <1>3, FittingSpells DEF c
<1> QED BY <1>4 DEF c

LEMMA OneFits ==
  ASSUME RedfishInv, SpellsInv, phase = "resolve",
         NEW k \in DOMAIN Children[parent], FitsHere(Children[parent][k]),
         NEW j \in DOMAIN Children[parent], FitsHere(Children[parent][j])
  PROVE  j = k
<1>1. SUFFICES ASSUME j # k
               PROVE  FALSE
  OBVIOUS
<1>2. parent \in Nodes
  BY DEF RedfishInv, RedfishParts
<1>3. \A i \in {j, k} : FitsHere(Children[parent][i]) =>
         request.path[depth + 1] = Segment(Children[parent][i])
  <2> TAKE i \in {j, k}
  <2> DEFINE c == Children[parent][i]
  <2>1. c \in Nodes /\ c \notin Parameterized /\ c # Https
    BY <1>1, <1>2, SiblingsDiffer, ChildIsNode
  <2>2. Slots(c) = << [node |-> None, segment |-> Segment(c)] >>
    BY <2>1, SlotsAre
  <2>3. Len(Slots(c)) = 1 /\ Slots(c)[1].node = None /\ Slots(c)[1].segment = Segment(c)
    BY <2>2
  <2> HIDE DEF c
  <2>4. FitsHere(c) => request.path[depth + 1] = Segment(c)
    BY <2>3 DEF FitsHere, FitsSlot
  <2> QED BY <2>4 DEF c
<1> QED BY <1>1, <1>2, <1>3, SiblingsDiffer

(* The child above a node that is sought is not rejected.                  *)
LEMMA SoughtIsTaken ==
  ASSUME InstancesInv, RedfishInv, SpellsInv, phase = "resolve",
         NEW k \in DOMAIN Children[parent],
         NEW n \in Under[Children[parent][k]], Sought(n)
  PROVE  ~Rejected(Children[parent][k])
<1> DEFINE c == Children[parent][k]
<1>1. parent \in Nodes /\ c \in Nodes /\ GoodPath(request.path)
  BY ChildIsNode DEF RedfishInv, RedfishParts, SpellsInv
<1>2. FitsHere(c)
  BY SpelledBelow DEF Sought
<1>3. CASE c \notin Parameterized
  <2> HIDE DEF c
  <2> QED BY <1>1, <1>2, <1>3, StaticFits DEF Rejected, c
<1>4. CASE c \in Parameterized
  <2> DEFINE d == depth + 1
             e == TParameterEntity[c]
             S == EntityCondition(c, request.path[d])
  <2>1. Slots(c) = << [node |-> c, segment |-> None] >>
    BY <1>1, <1>4, SlotsAre
  <2>2. Len(Slots(c)) = 1 /\ Slots(c)[1].node = c /\ c # None
    BY <1>1, <2>1, NoneIsNothing
  <2>3. depth \in Nat /\ depth < Len(request.path) /\ Len(Pattern[c]) = d
    BY <1>1, <2>2, FittingSpells, PrefixIs
  <2>4. Pattern[c][d] = Slots(c)[1]
    <3>1. c # Root /\ Up[c] = parent /\ depth = Len(Pattern[parent])
      BY <1>1, ChildUp DEF SpellsInv
    <3>2. 1 \in 1..Len(Slots(c))
      BY <2>2
    <3> HIDE DEF c, d
    <3>3. \A i \in 1..Len(Slots(c)) : Pattern[c][Len(Pattern[Up[c]]) + i] = Slots(c)[i]
      BY <1>1, <3>1, PatternExtends
    <3>4. Pattern[c][depth + 1] = Slots(c)[1]
      BY <3>1, <3>2, <3>3
    <3> QED BY <3>4 DEF d
  <2>5. d \in DOMAIN request.path /\ Pattern[n][d].node = c
    <3>1. d \in 1..Len(Pattern[c])
      BY <2>3
    <3> QED BY <1>1, <2>2, <2>4, <3>1, SpellsAbove DEF Sought
  <2>6. PICK i \in Lasting : EntityOf[i] = e /\ i \in S
    BY <2>2, <2>5 DEF Sought, Named
  <2>7. i \in InstancesOf(e)
    BY <2>6 DEF Lasting, InstancesOf
  <2>8. e # "IP" /\ (parent \in DOMAIN CtxEntity /\ CtxEntity[parent] = e => e = "Ethernet")
    BY <1>1, <1>4, CtxOfParameter
  <2>9. CtxOK(parent, parameterCtx)
    BY DEF SpellsInv
  <2> HIDE DEF c, d, e, S
  <2>10. getInstances(e, S) # {}
    <3>1. CASE parameterCtx = None
      BY <2>6, <2>7, <3>1 DEF getInstances
    <3>2. CASE parameterCtx # None /\ Related(parameterCtx, e)
      <4>1. EntityOf[parameterCtx] = e
        BY <2>8, <3>2 DEF Related
      <4> QED BY <3>2, <4>1, Zenon DEF getInstances
    <3>3. CASE parameterCtx # None /\ ~Related(parameterCtx, e) /\ EntityOf[parameterCtx] = e
      <4>1. parent \in DOMAIN CtxEntity /\ CtxEntity[parent] = e
        BY <2>9, <3>3 DEF CtxOK
      <4> QED BY <2>8, <3>3, <4>1 DEF Related
    <3>4. CASE parameterCtx # None /\ ~Related(parameterCtx, e) /\ EntityOf[parameterCtx] # e
      BY <2>6, <2>7, <3>4 DEF getInstances
    <3> QED BY <3>1, <3>2, <3>3, <3>4
  <2>11. BehindPrefix(c) = depth
    BY <1>1, <1>4, ParameterFits DEF c
  <2>12. verifyParameter(c, BehindPrefix(c)) = getInstances(e, S)
    BY <2>3, <2>11 DEF verifyParameter, e, S, d
  <2> QED BY <1>4, <2>10, <2>12 DEF Rejected, c
<1> QED BY <1>3, <1>4

----------------------------------------------------------------------------
(* The steps of a request keep what is spelled and what is sought.         *)
SoughtIsSame == \A n \in Nodes : Sought(n)' => Sought(n)

LEMMA SoughtUnchanged ==
  ASSUME UNCHANGED request, UNCHANGED instanceVars
  PROVE  SoughtIsSame
  BY DEF instanceVars, SoughtIsSame, Sought, Spells, Named, Lasting, EntityCondition,
         StaticConditions, ParameterField, VlanName, relationToVLAN

(* Everything that is sought is below the child that fits.                 *)
LEMMA SoughtBelow ==
  ASSUME RedfishInv, SpellsInv, SoughtInv, phase = "resolve",
         child \in DOMAIN Children[parent], FitsHere(Children[parent][child]),
         NEW n \in Nodes, Sought(n)
  PROVE  n \in Under[Children[parent][child]]
<1>1. PICK k \in DOMAIN Children[parent] : n \in Under[Children[parent][k]]
  BY DEF SoughtInv, Ahead
<1>2. FitsHere(Children[parent][k])
  BY <1>1, SpelledBelow DEF Sought
<1>3. k = child
  BY <1>2, OneFits
<1> QED BY <1>1, <1>3

LEMMA EnteredSpells ==
  ASSUME InstancesInv, RedfishInv, SpellsInv, SoughtInv, phase = "resolve",
         child \in DOMAIN Children[parent], NEW c, c = Children[parent][child],
         NEW d, d + 1 = depth + Len(Slots(c)), d \in Nat,
         FitsHere(c), EnterChild(c, d), UNCHANGED instanceVars,
         Children[c] # <<>> => CtxOK(c, parameterCtx')
  PROVE  SpellsInv' /\ SoughtInv'
<1>1. /\ c \in Nodes /\ Len(Pattern[c]) = d + 1
      /\ Len(Pattern[c]) <= Len(request.path) /\ SpelledTo(c)
  BY FittingSpells
<1>2. GoodPath(request.path) /\ node = None /\ Len(request.path) \in Nat
  BY DEF SpellsInv, GoodPath
<1>3. /\ request' = request /\ depth' = d + 1 /\ SoughtIsSame
  BY SoughtUnchanged DEF EnterChild
<1>4. matchEntirePattern(d) <=> Len(Pattern[c]) = Len(request.path)
  <2> DEFINE l == Len(request.path)
             m == Len(Pattern[c])
  <2>1. m = d + 1 /\ l \in Nat
    BY <1>1, <1>2
  <2> HIDE DEF l, m
  <2>2. d = l - 1 <=> m = l
    BY <2>1
  <2> QED BY <2>2 DEF matchEntirePattern, l, m
<1>5. \A n \in Nodes : Sought(n) =>
         /\ n \in Under[c] /\ status # "NotFound"
         /\ n = c <=> matchEntirePattern(d)
  BY <1>1, <1>2, <1>4, SoughtBelow, SpellsAbove DEF Sought, SoughtInv
<1>6. CASE matchEntirePattern(d)
  <2>1. phase' = "build" /\ node' = c /\ status' = status
    BY <1>6 DEF EnterChild
  <2>2. Spells(request.path, c)
    <3>1. DOMAIN request.path = 1..Len(Pattern[c]) /\ Len(request.path) = Len(Pattern[c])
      BY <1>2, <1>4, <1>6 DEF GoodPath
    <3> QED BY <1>1, <3>1 DEF Spells, SpelledTo, FitsSlot
  <2>3. SpellsInv'
    BY <1>2, <1>3, <2>1, <2>2, NoneIsNothing DEF SpellsInv, Spells
  <2>4. SoughtInv'
    BY <1>3, <1>5, <2>1 DEF SoughtInv, SoughtIsSame
  <2> QED BY <2>3, <2>4
<1>7. CASE ~matchEntirePattern(d) /\ Children[c] = <<>>
  <2>1. phase' = "done" /\ node' = None
    BY <1>2, <1>7 DEF EnterChild, Answer
  <2>2. \A n \in Nodes : ~Sought(n)
    <3> SUFFICES ASSUME NEW n \in Nodes, Sought(n)
                 PROVE  FALSE
      OBVIOUS
    <3>1. n \in Under[c] /\ n # c
      BY <1>5, <1>7
    <3>2. PICK k \in DOMAIN Children[c] : TRUE
      BY <1>1, <3>1, UnderChild
    <3> QED BY <1>7, <3>2
  <2>3. SpellsInv'
    BY <1>2, <1>3, <2>1 DEF SpellsInv
  <2>4. SoughtInv'
    BY <1>3, <2>1, <2>2 DEF SoughtInv, SoughtIsSame
  <2> QED BY <2>3, <2>4
<1>8. CASE ~matchEntirePattern(d) /\ Children[c] # <<>>
  <2>1. parent' = c /\ child' = 1 /\ UNCHANGED <<node, phase, status>>
    BY <1>8 DEF EnterChild
  <2>2. Len(Pattern[c]) < Len(request.path)
    <3> DEFINE l == Len(request.path)
               m == Len(Pattern[c])
    <3>1. m \in Nat /\ l \in Nat /\ m <= l /\ m # l
      BY <1>1, <1>2, <1>4, <1>8
    <3> HIDE DEF l, m
    <3>2. m < l
      BY <3>1
    <3> QED BY <3>2 DEF l, m
  <2>3. SpelledTo(c)'
    BY <1>1, <1>3 DEF SpelledTo
  <2>4. SpellsInv'
    BY <1>1, <1>2, <1>3, <1>8, <2>1, <2>2, <2>3 DEF SpellsInv, CtxOK
  <2>5. \A n \in Nodes : Sought(n) => Ahead(n)'
    <3> SUFFICES ASSUME NEW n \in Nodes, Sought(n)
                 PROVE  Ahead(n)'
      OBVIOUS
    <3>1. n \in Under[c] /\ n # c
      BY <1>5, <1>8
    <3>2. PICK k \in DOMAIN Children[c] : n \in Under[Children[c][k]]
      BY <1>1, <3>1, UnderChild
    <3>3. k >= 1
      BY <1>1, <3>2, ChildIndex
    <3> QED BY <2>1, <3>2, <3>3 DEF Ahead
  <2>6. SoughtInv'
    BY <1>3, <1>5, <2>1, <2>5 DEF SoughtInv, SoughtIsSame
  <2> QED BY <2>4, <2>6
<1> QED BY <1>6, <1>7, <1>8

LEMMA SpellsResolving ==
  ASSUME InstancesInv, RedfishInv, SpellsInv, SoughtInv, nextChildResolver,
         UNCHANGED instanceVars
  PROVE  SpellsInv' /\ SoughtInv'
<1> DEFINE c == Children[parent][child]
<1>1. /\ phase = "resolve" /\ parent \in Nodes /\ child \in DOMAIN Children[parent]
      /\ c \in Nodes /\ SeenInstance(parameterCtx)
  BY ChildIsNode DEF nextChildResolver, RedfishInv, RedfishParts, PhaseInv
<1>2. \/ EnterStatic(c)
      \/ EnterParameterized(c)
      \/ Rejected(c) /\ NextSibling
      \/ Rejected(c) /\ NoSiblingLeft /\ NodeNotFound
  BY Zenon DEF nextChildResolver
<1>3. CtxOK(parent, parameterCtx) /\ depth \in Nat
  BY <1>1, RootHasChild, PrefixIs DEF SpellsInv
<1>4. /\ Len(Slots(c)) \in Nat
      /\ PrefixMatches(c) => BehindPrefix(c) + 1 = depth + Len(Slots(c)) /\ BehindPrefix(c) \in Nat
  <2>1. Len(uriPrefix(c)) \in Nat
    BY DEF uriPrefix
  <2>2. PrefixMatches(c) => BehindPrefix(c) + 1 = depth + Len(Slots(c))
    BY <1>1, PrefixIs
  <2>3. Len(Slots(c)) \in Nat
    BY <1>1, SlotsType
  <2> HIDE DEF c
  <2>4. BehindPrefix(c) \in Nat
    BY <1>3, <2>1 DEF BehindPrefix
  <2> QED BY <2>2, <2>3, <2>4
<1>5. Children[c] # <<>> =>
         /\ c \in Parameterized => c \in DOMAIN CtxEntity /\ CtxEntity[c] = TParameterEntity[c]
         /\ c \notin Parameterized =>
               /\ c \in DOMAIN CtxEntity <=> parent \in DOMAIN CtxEntity
               /\ c \in DOMAIN CtxEntity => CtxEntity[c] = CtxEntity[parent]
  BY <1>1, CtxOfChild
<1>6. \A n \in Nodes : Sought(n) /\ Rejected(c) =>
         status # "NotFound" /\ \E k \in DOMAIN Children[parent] :
                        k > child /\ n \in Under[Children[parent][k]]
  <2> SUFFICES ASSUME NEW n \in Nodes, Sought(n), Rejected(c)
               PROVE  status # "NotFound" /\ \E k \in DOMAIN Children[parent] :
                         k > child /\ n \in Under[Children[parent][k]]
    OBVIOUS
  <2>1. status # "NotFound" /\ Ahead(n)
    BY <1>1 DEF SoughtInv
  <2>2. PICK k \in DOMAIN Children[parent] : k >= child /\ n \in Under[Children[parent][k]]
    BY <2>1 DEF Ahead
  <2>3. k # child
    BY <1>1, <2>2, SoughtIsTaken
  <2>4. k \in Nat /\ child \in Nat
    BY <1>1, ChildIndex
  <2>5. k > child
    BY <2>2, <2>3, <2>4
  <2> QED BY <2>1, <2>2, <2>5
<1> HIDE DEF c
<1>7. CASE EnterStatic(c)
  <2>1. /\ c \notin Parameterized /\ SegmentMatches(c, BehindPrefix(c))
        /\ EnterChild(c, BehindPrefix(c)) /\ parameterCtx' = parameterCtx
    BY <1>7 DEF EnterStatic
  <2>2. FitsHere(c) /\ PrefixMatches(c)
    BY <1>1, <2>1, StaticFits DEF SegmentMatches
  <2>3. Children[c] # <<>> => CtxOK(c, parameterCtx')
    BY <1>3, <1>5, <2>1 DEF CtxOK
  <2> QED BY <1>1, <1>4, <2>1, <2>2, <2>3, EnteredSpells DEF c
<1>8. CASE EnterParameterized(c)
  <2>1. /\ c \in Parameterized /\ EnterChild(c, BehindPrefix(c))
        /\ \E i \in verifyParameter(c, BehindPrefix(c)) : parameterCtx' = i
    BY <1>8 DEF EnterParameterized
  <2>2. FitsHere(c) /\ PrefixMatches(c)
    BY <1>1, <2>1, ParameterFits
  <2>3. parameterCtx' \in getInstances(TParameterEntity[c],
                                       EntityCondition(c, request.path[BehindPrefix(c) + 1]))
    BY <2>1 DEF verifyParameter
  <2>4. parameterCtx' \in Instances /\ EntityOf[parameterCtx'] = TParameterEntity[c]
    BY <1>1, <2>3, GotAre DEF SeenInstance
  <2>5. Children[c] # <<>> => CtxOK(c, parameterCtx')
    BY <1>5, <2>1, <2>4 DEF CtxOK
  <2> QED BY <1>1, <1>4, <2>1, <2>2, <2>5, EnteredSpells DEF c
<1>9. CASE Rejected(c) /\ NextSibling
  <2>1. /\ UNCHANGED <<request, phase, parent, parameterCtx, node, status>>
        /\ child < Len(Children[parent]) /\ child' = child + 1
        /\ depth' = BehindPrefix(c)
    BY <1>9 DEF NextSibling, SiblingLeft, c
  <2>2. child + 1 \in DOMAIN Children[parent] /\ child \in Nat
    BY <1>1, <2>1, NextChild, ChildIndex
  <2>3. c # Https
    BY <1>1, <2>2, SiblingsDiffer DEF c
  <2>4. depth' = depth
    <3>1. uriPrefix(c) = <<>> /\ Len(<<>>) = 0
      BY <2>3 DEF uriPrefix, Https
    <3> QED BY <1>3, <2>1, <3>1 DEF BehindPrefix
  <2>5. SpellsInv'
    BY <2>1, <2>4 DEF SpellsInv, SpelledTo, Spells, CtxOK
  <2>6. SoughtIsSame
    BY <2>1, SoughtUnchanged
  <2>7. \A n \in Nodes : Sought(n) => Ahead(n)'
    <3> SUFFICES ASSUME NEW n \in Nodes, Sought(n)
                 PROVE  Ahead(n)'
      OBVIOUS
    <3>1. PICK k \in DOMAIN Children[parent] : k > child /\ n \in Under[Children[parent][k]]
      BY <1>6, <1>9
    <3>2. k >= child + 1
      BY <1>1, <2>2, <3>1, ChildIndex
    <3> QED BY <2>1, <3>1, <3>2 DEF Ahead
  <2>8. SoughtInv'
    BY <1>1, <2>1, <2>6, <2>7 DEF SoughtInv, SoughtIsSame
  <2> QED BY <2>5, <2>8
<1>10. CASE Rejected(c) /\ NoSiblingLeft /\ NodeNotFound
  <2>1. /\ UNCHANGED <<request, parent, node>> /\ phase' = "done"
        /\ child = Len(Children[parent])
    BY <1>10 DEF NodeNotFound, Answer, NoSiblingLeft
  <2>2. \A n \in Nodes : ~Sought(n)
    <3> SUFFICES ASSUME NEW n \in Nodes, Sought(n)
                 PROVE  FALSE
      OBVIOUS
    <3>1. PICK k \in DOMAIN Children[parent] : k > child /\ n \in Under[Children[parent][k]]
      BY <1>6, <1>10
    <3> QED BY <1>1, <2>1, <3>1, ChildIndex
  <2>3. SoughtIsSame
    BY <2>1, SoughtUnchanged
  <2>4. SpellsInv'
    BY <1>1, <2>1 DEF SpellsInv
  <2>5. SoughtInv'
    BY <2>1, <2>2, <2>3 DEF SoughtInv, SoughtIsSame
  <2> QED BY <2>4, <2>5
<1> QED BY <1>2, <1>7, <1>8, <1>9, <1>10

(* The root is the node of its own path, and above every other one.        *)
LEMMA SpellsRunning ==
  ASSUME RedfishInv, SpellsInv, phase = "idle", NEW req, RunRedfish(req), GoodPath(req.path)
  PROVE  SpellsInv' /\ SoughtInv'
<1>1. parent = Root /\ child = 1 /\ node = None /\ parameterCtx = None
  BY DEF RedfishInv, PhaseInv, SpellsInv
<1>2. /\ request'.path = req.path /\ depth' = 1 /\ status' = "BadRequest"
      /\ UNCHANGED <<parent, child, parameterCtx>>
      /\ phase' = IF Len(req.path) = 1 THEN "build" ELSE "resolve"
      /\ node' = IF Len(req.path) = 1 THEN Root ELSE None
  BY DEF RunRedfish
<1>3. Slots(Root) = << [node |-> None, segment |-> Segment(Root)] >>
  BY RootHasChild, SlotsAre DEF Parameterized, TParameterEntity, Https, Root
<1>4. /\ Pattern[Root] = Slots(Root) /\ Len(Pattern[Root]) = 1
      /\ \A k \in 1..1 : Pattern[Root][k].segment = Segment(Root) /\ k = 1
  BY <1>3, PatternIs
<1>5. SpelledTo(Root)'
  BY <1>2, <1>4 DEF SpelledTo, FitsSlot, GoodPath
<1>6. CASE Len(req.path) = 1
  <2>1. DOMAIN req.path = 1..1
    BY <1>6 DEF GoodPath
  <2>2. Spells(req.path, Root)
    BY <1>4, <1>6, <2>1 DEF Spells, GoodPath
  <2> QED BY <1>2, <1>4, <1>6, <2>2 DEF SpellsInv, SoughtInv, Spells
<1>7. CASE Len(req.path) # 1
  <2>1. 1 < Len(req.path)
    <3> DEFINE l == Len(req.path)
    <3>1. l \in Nat /\ l > 0 /\ l # 1
      BY <1>7 DEF GoodPath
    <3> HIDE DEF l
    <3>2. 1 < l
      BY <3>1
    <3> QED BY <3>2 DEF l
  <2>2. Root \notin DOMAIN CtxEntity
    BY DEF Root, CtxEntity
  <2>3. SpellsInv'
    BY <1>1, <1>2, <1>4, <1>5, <1>7, <2>1, <2>2 DEF SpellsInv, CtxOK
  <2>4. \A n \in Nodes : Sought(n)' => Ahead(n)'
    <3> SUFFICES ASSUME NEW n \in Nodes, Spells(req.path, n)
                 PROVE  Ahead(n)'
      BY <1>2 DEF Sought, Spells
    <3>1. n # Root
      BY <1>4, <1>7 DEF Spells
    <3>2. n \in Under[Root] /\ Root \in Nodes
      BY RootHasChild DEF Under, Root
    <3>3. PICK k \in DOMAIN Children[Root] : n \in Under[Children[Root][k]]
      BY <3>1, <3>2, UnderChild
    <3>4. k >= 1
      BY <3>2, <3>3, ChildIndex
    <3> QED BY <1>1, <1>2, <3>3, <3>4 DEF Ahead
  <2>5. SoughtInv'
    BY <1>2, <1>7, <2>4 DEF SoughtInv
  <2> QED BY <2>3, <2>5
<1> QED BY <1>6, <1>7

(* Once the node is found it stays, and what follows answers no NotFound.  *)
LEMMA SpellsFound ==
  ASSUME SpellsInv, SoughtInv, phase \notin {"idle", "resolve"}, phase' \notin {"idle", "resolve"},
         UNCHANGED <<request, node>>, UNCHANGED instanceVars,
         status' = status \/ status' # "NotFound"
  PROVE  SpellsInv' /\ SoughtInv'
<1>1. SoughtIsSame
  BY SoughtUnchanged
<1>2. SpellsInv'
  BY DEF SpellsInv, Spells
<1>3. SoughtInv'
  BY <1>1 DEF SoughtInv, SoughtIsSame
<1> QED BY <1>2, <1>3

LEMMA SpellsSteps ==
  ASSUME InstancesInv, RedfishInv, SpellsInv, SoughtInv, RedfishStep, UNCHANGED instanceVars
  PROVE  SpellsInv' /\ SoughtInv'
<1>1. CASE nextChildResolver
  BY <1>1, SpellsResolving
<1>2. CASE ProcessNode
  BY <1>2, SpellsFound DEF ProcessNode, MethodNotAllowed, MethodGet, NoTarget, Answer
<1>3. CASE GetMembers \/ GetCount \/ GetField \/ GetObject \/ GetRows \/ GetLink \/ GetLinks
  <2>1. \E kind : Current(kind)
    BY <1>3 DEF GetMembers, GetCount, GetField, GetObject, GetRows, GetLink, GetLinks
  <2>2. status' = status \/ status' = "InternalServerError"
    BY <1>3 DEF GetMembers, GetCount, GetField, GetObject, GetRows, GetLink, GetLinks, NotesTop
  <2> QED BY <2>1, <2>2, SpellsFound DEF Current
<1>4. CASE FlashPayload
  BY <1>4, SpellsFound DEF FlashPayload
<1> QED BY <1>1, <1>2, <1>3, <1>4 DEF RedfishStep

LEMMA SpellsUnchanged ==
  ASSUME SpellsInv, SoughtInv, UNCHANGED requestVars, UNCHANGED instanceVars
  PROVE  SpellsInv' /\ SoughtInv'
<1>1. SoughtIsSame /\ UNCHANGED <<request, phase, parent, child, depth, parameterCtx, node, status>>
  BY SoughtUnchanged DEF requestVars
<1>2. SpellsInv'
  BY <1>1 DEF SpellsInv, Spells, SpelledTo, CtxOK
<1>3. SoughtInv'
  BY <1>1 DEF SoughtInv, SoughtIsSame, Ahead
<1> QED BY <1>2, <1>3

(* What lasts after a change did so before it, under the same name.        *)
LEMMA LastingBefore ==
  ASSUME NameInv, InstancesChange
  PROVE  /\ NameInv'
         /\ \A i \in Lasting' : i \in Lasting /\ name'[i] = name[i]
<1>1. CASE \E i \in Instances : Arrive(i)
  BY <1>1 DEF NameInv, Arrive, Lasting
<1>2. CASE \E i \in Instances : Depart(i)
  BY <1>2 DEF NameInv, Depart, Lasting
<1>3. CASE \E i \in DOMAIN Renamed : Rename(i)
  <2>1. PICK i \in DOMAIN Renamed : Rename(i)
    BY <1>3
  <2>2. /\ i \in Instances /\ DOMAIN name = Instances
        /\ name' = [name EXCEPT ![i] = Renamed[i]] /\ name[i] # Renamed[i]
        /\ UNCHANGED <<live, arrived>>
    BY <2>1, InstancesAssumption DEF Rename, NameInv
  <2>3. DOMAIN name' = Instances /\ \A j \in Instances :
           name'[j] = IF j = i THEN Renamed[i] ELSE name[j]
    BY <2>2
  <2>4. NameInv'
    BY <2>1, <2>3 DEF NameInv
  <2>5. name[i] = InitialName[i]
    BY <2>2 DEF NameInv
  <2>6. i \notin Lasting'
    BY <2>2, <2>3, <2>5 DEF Lasting
  <2>7. \A j : j # i => name'[j] = name[j]
    BY <2>2
  <2> QED BY <2>2, <2>4, <2>6, <2>7 DEF Lasting
<1> QED BY <1>1, <1>2, <1>3 DEF InstancesChange

LEMMA NamedBefore ==
  ASSUME NameInv, InstancesChange, UNCHANGED request, NEW n, Sought(n)'
  PROVE  Sought(n)
<1>1. \A i \in Lasting' : i \in Lasting /\ name'[i] = name[i]
  BY LastingBefore
<1>2. Spells(request.path, n)
  BY DEF Sought, Spells
<1>3. ASSUME NEW k \in DOMAIN request.path, Pattern[n][k].node # None
      PROVE  LET p == Pattern[n][k].node IN
             \E i \in Lasting :
                /\ EntityOf[i] = TParameterEntity[p]
                /\ i \in EntityCondition(p, request.path[k])
                /\ p = "VLANNode" => \E e \in Lasting :
                      /\ EntityOf[e] = "Ethernet" /\ ~IsVlan(e)
                      /\ name[e] = decodeUriSegment(request.path[k - 2])
                      /\ relationToVLAN(e, i)
  <2> DEFINE p == Pattern[n][k].node
  <2>1. PICK i \in Lasting' :
           /\ EntityOf[i] = TParameterEntity[p]
           /\ (i \in EntityCondition(p, request.path[k]))'
           /\ p = "VLANNode" => \E e \in Lasting' :
                 /\ EntityOf[e] = "Ethernet" /\ ~IsVlan(e)
                 /\ name'[e] = decodeUriSegment(request.path[k - 2])
                 /\ relationToVLAN(e, i)'
    BY <1>3 DEF Sought, Named
  <2> HIDE DEF p
  <2>2. i \in EntityCondition(p, request.path[k])
    BY <1>1, <2>1 DEF EntityCondition, ParameterField, VlanName, StaticConditions
  <2>3. p = "VLANNode" => \E e \in Lasting :
           /\ EntityOf[e] = "Ethernet" /\ ~IsVlan(e)
           /\ name[e] = decodeUriSegment(request.path[k - 2])
           /\ relationToVLAN(e, i)
    BY <1>1, <2>1 DEF relationToVLAN
  <2> QED BY <1>1, <2>1, <2>2, <2>3 DEF p
<1> QED BY <1>2, <1>3 DEF Sought, Named

LEMMA SpellsWhileInstancesChange ==
  ASSUME SpellsInv, SoughtInv, NameInv, InstancesChange, UNCHANGED requestVars
  PROVE  SpellsInv' /\ SoughtInv' /\ NameInv'
<1>1. UNCHANGED <<request, phase, parent, child, depth, parameterCtx, node, status>>
  BY DEF requestVars
<1>2. SpellsInv'
  BY <1>1 DEF SpellsInv, Spells, SpelledTo, CtxOK
<1>3. \A n \in Nodes : Sought(n)' => Sought(n)
  BY <1>1, NamedBefore
<1>4. SoughtInv'
  BY <1>1, <1>3 DEF SoughtInv, Ahead
<1> QED BY <1>2, <1>4, LastingBefore

----------------------------------------------------------------------------
(* While nothing changes: the parameters on the way to a parent have found *)
(* live instances, and a collection lists what its member node accepts.    *)
NamedSlot(p, segment) ==
  p # None => /\ p # "VLANNode"
              /\ \E i \in live : EntityOf[i] = TParameterEntity[p] /\ i \in EntityCondition(p, segment)

Bound(n) ==
  /\ CtxOK(n, parameterCtx)
  /\ \A k \in 1..Len(Pattern[n]) : NamedSlot(Pattern[n][k].node, request.path[k])
  /\ n \in {"EthernetInterfaceNode", "VLANs"} =>
        /\ parameterCtx \in live /\ ~IsVlan(parameterCtx)
        /\ name[parameterCtx] = decodeUriSegment(request.path[6])

MemberFound(u, i) ==
  \/ {"_", "/"} \cap Range(name[i]) # {}
  \/ MemberNode = "VLANNode" /\ ~IsVlan(i)
  \/ Spells(u, MemberNode) /\ Named(u, MemberNode, live)

MembersOK ==
  "Members" \in DOMAIN body => \A i \in body["Members"].of : MemberFound(MemberUri(MemberNode, i), i)

QuietInv ==
  changes = 0 => /\ phase = "resolve" => Bound(parent)
                 /\ node \in Nodes /\ Children[node] # <<>> => Bound(node)
                 /\ MembersOK

(* An interface is spelled by six segments.                                *)
LEMMA InterfaceLength ==
  Len(Pattern["EthernetInterfaceNode"]) = 6 /\ Len(Pattern["VLANs"]) = 7
<1>1. \A n \in Nodes : n # Root /\ n # Https => Len(Pattern[n]) = Len(Pattern[Up[n]]) + 1
  BY PatternExtends, SlotsType
<1>2. Len(Pattern[Root]) = 1
  BY RootHasChild, PatternIs, SlotsType DEF Root, Https
<1>3. {"RedfishV1", "Managers", "BmcManager", "EthernetInterfaces", "EthernetInterfaceNode",
       "VLANs"} \subseteq Nodes
  BY TreeNodes
<1> DEFINE L(n) == Len(Pattern[n])
<1>4. /\ L("RedfishV1") = L(Root) + 1 /\ L("Managers") = L("RedfishV1") + 1
      /\ L("BmcManager") = L("Managers") + 1
      /\ L("EthernetInterfaces") = L("BmcManager") + 1
      /\ L("EthernetInterfaceNode") = L("EthernetInterfaces") + 1
      /\ L("VLANs") = L("EthernetInterfaceNode") + 1
  BY <1>1, <1>3 DEF Up, Root, Https
<1> HIDE DEF L
<1>5. L("EthernetInterfaceNode") = 6 /\ L("VLANs") = 7
  BY <1>2, <1>4 DEF L
<1> QED BY <1>5 DEF L

(* A static child adds no parameter and leaves the context alone; the      *)
(* interfaces' collection is below an interface and nowhere else.          *)
LEMMA BoundStatic ==
  ASSUME RedfishInv, SpellsInv, phase = "resolve", NEW k \in DOMAIN Children[parent],
         NEW c, c = Children[parent][k], c \notin Parameterized, Children[c] # <<>>,
         Bound(parent)
  PROVE  Bound(c)
<1>1. parent \in Nodes /\ c \in Nodes /\ c # Root /\ Up[c] = parent
  BY ChildIsNode, ChildUp DEF RedfishInv, RedfishParts
<1>2. CtxOK(c, parameterCtx)
  BY <1>1, CtxOfChild DEF Bound, CtxOK
<1>3. c # "EthernetInterfaceNode" /\ (c = "VLANs" => parent = "EthernetInterfaceNode")
  BY <1>1 DEF Parameterized, TParameterEntity, Up
<1>4. \A j \in 1..Len(Slots(c)) : Slots(c)[j].node = None
  BY <1>1, SlotsAre
<1> DEFINE m == Len(Pattern[parent])
           n == Len(Slots(c))
           l == Len(Pattern[c])
<1>5. /\ m \in Nat /\ l = m + n
      /\ \A j \in 1..m : Pattern[c][j] = Pattern[parent][j]
      /\ \A j \in 1..n : Pattern[c][m + j] = Slots(c)[j]
  <2>1. /\ Len(Pattern[Up[c]]) \in Nat
        /\ l = Len(Pattern[Up[c]]) + n
        /\ \A j \in 1..Len(Pattern[Up[c]]) : Pattern[c][j] = Pattern[Up[c]][j]
        /\ \A j \in 1..n : Pattern[c][Len(Pattern[Up[c]]) + j] = Slots(c)[j]
    BY <1>1, PatternExtends
  <2>2. Len(Pattern[Up[c]]) = m
    BY <1>1
  <2> HIDE DEF m, n, l
  <2> QED BY <1>1, <2>1, <2>2
<1>6. n \in Nat
  BY <1>1, SlotsType
<1> HIDE DEF m, n, l
<1>7. ASSUME NEW j \in 1..l
      PROVE  NamedSlot(Pattern[c][j].node, request.path[j])
  <2>1. CASE j <= m
    <3>1. j \in 1..m
      BY <1>5, <2>1
    <3> QED BY <1>5, <3>1 DEF Bound, m
  <2>2. CASE j > m
    <3> DEFINE i == j - m
    <3>1. i \in 1..n /\ m + i = j
      BY <1>5, <1>6, <2>2
    <3> HIDE DEF i
    <3>2. Pattern[c][m + i] = Slots(c)[i] /\ Slots(c)[i].node = None
      BY <1>4, <1>5, <3>1 DEF n
    <3>3. Pattern[c][j].node = None
      BY <3>1, <3>2
    <3> QED BY <3>3 DEF NamedSlot
  <2> QED BY <1>5, <1>6, <2>1, <2>2
<1> QED BY <1>2, <1>3, <1>7 DEF Bound, l

(* A parameter with children finds what is live and of that name.          *)
LEMMA ContextAbove ==
  ASSUME NEW p \in Nodes, NEW k \in DOMAIN Children[p],
         Children[p][k] \in Parameterized, Children[Children[p][k]] # <<>>
  PROVE  LET c == Children[p][k]
         IN  /\ p \in DOMAIN CtxEntity => CtxEntity[p] = "BmcManager"
             /\ p \in DOMAIN CtxEntity => TParameterEntity[c] # "BmcManager"
             /\ c # "VLANNode"
             /\ c = "EthernetInterfaceNode" => TParameterEntity[c] = "Ethernet"
  BY TreeNodes DEF Children, Parameterized, TParameterEntity, CtxEntity

LEMMA BoundParameter ==
  ASSUME InstancesInv, RedfishInv, SpellsInv, phase = "resolve", UNCHANGED instanceVars,
         NEW k \in DOMAIN Children[parent],
         NEW c, c = Children[parent][k], EnterParameterized(c), Children[c] # <<>>,
         Bound(parent)
  PROVE  Bound(c)'
<1>1. parent \in Nodes /\ c \in Nodes /\ c # Root /\ Up[c] = parent /\ c \in Parameterized
  BY ChildIsNode, ChildUp DEF RedfishInv, RedfishParts, EnterParameterized
<1> DEFINE d == depth + 1
           e == TParameterEntity[c]
           S == EntityCondition(c, request.path[d])
<1>2. BehindPrefix(c) = depth /\ depth \in Nat /\ request' = request
  BY <1>1, ParameterFits, PrefixIs DEF EnterParameterized, EnterChild
<1>3. parameterCtx' \in getInstances(e, S)
  BY <1>2 DEF EnterParameterized, verifyParameter
<1>4. CtxOK(parent, parameterCtx) /\ depth = Len(Pattern[parent])
  BY DEF SpellsInv
<1>5. /\ parent \in DOMAIN CtxEntity => CtxEntity[parent] = "BmcManager" /\ e # "BmcManager"
      /\ c # "VLANNode" /\ (c = "EthernetInterfaceNode" => e = "Ethernet")
  BY <1>1, ContextAbove
<1>6. c \in DOMAIN CtxEntity /\ CtxEntity[c] = e
  BY <1>1, CtxOfChild
<1> HIDE DEF e, S
<1>7. parameterCtx' \in InstancesOf(e) \cap S
  <2>1. CASE parameterCtx = None
    BY <1>3, <2>1 DEF getInstances
  <2>2. CASE parameterCtx # None
    <3>1. EntityOf[parameterCtx] = "BmcManager" /\ e # "BmcManager"
      BY <1>4, <1>5, <2>2 DEF CtxOK
    <3> QED BY <1>3, <2>2, <3>1 DEF getInstances, Related
  <2> QED BY <2>1, <2>2
<1> DEFINE i == parameterCtx'
<1>8. i \in live /\ i \in Instances /\ EntityOf[i] = e /\ i \in S
  BY <1>7 DEF InstancesOf, InstancesInv
<1> HIDE DEF i
<1>9. UNCHANGED <<live, name>>
  BY DEF instanceVars
<1>10. Slots(c) = << [node |-> c, segment |-> None] >>
  BY <1>1, SlotsAre
<1>11. Len(Slots(c)) = 1 /\ Slots(c)[1].node = c
  BY <1>10
<1>12. /\ Len(Pattern[c]) = d
       /\ \A j \in 1..depth : Pattern[c][j] = Pattern[parent][j]
       /\ Pattern[c][d] = Slots(c)[1]
  <2>1. /\ Len(Pattern[Up[c]]) \in Nat
        /\ Len(Pattern[c]) = Len(Pattern[Up[c]]) + Len(Slots(c))
        /\ \A j \in 1..Len(Pattern[Up[c]]) : Pattern[c][j] = Pattern[Up[c]][j]
        /\ \A j \in 1..Len(Slots(c)) : Pattern[c][Len(Pattern[Up[c]]) + j] = Slots(c)[j]
    BY <1>1, PatternExtends
  <2> QED BY <1>1, <1>4, <1>11, <2>1
<1>13. ASSUME NEW j \in 1..d
       PROVE  NamedSlot(Pattern[c][j].node, request.path[j])
  <2>1. CASE j = d
    BY <1>5, <1>8, <1>11, <1>12, <2>1 DEF NamedSlot, e, S
  <2>2. CASE j # d
    <3>1. j \in 1..depth
      BY <1>2, <2>2
    <3> QED BY <1>4, <1>12, <3>1 DEF Bound
  <2> QED BY <2>1, <2>2
<1>14. ASSUME c \in {"EthernetInterfaceNode", "VLANs"}
       PROVE  ~IsVlan(i) /\ name[i] = decodeUriSegment(request.path[6])
  <2>1. c = "EthernetInterfaceNode"
    BY <1>1, <1>14 DEF Parameterized, TParameterEntity
  <2>2. d = 6
    BY <1>12, <2>1, InterfaceLength
  <2> HIDE DEF d
  <2> QED BY <1>8, <2>1, <2>2 DEF S, EntityCondition, StaticConditions, ParameterField
<1>15. \A j \in 1..Len(Pattern[c]) : NamedSlot(Pattern[c][j].node, request.path[j])'
  BY <1>2, <1>9, <1>12, <1>13 DEF NamedSlot, EntityCondition, StaticConditions, ParameterField,
     VlanName
<1>16. CtxOK(c, i)
  BY <1>6, <1>8 DEF CtxOK
<1> QED BY <1>2, <1>8, <1>9, <1>14, <1>15, <1>16 DEF Bound, CtxOK, i

----------------------------------------------------------------------------
(* A name without separators reads the same after both conversions.        *)
LEMMA NameRestored ==
  ASSUME NEW n \in Seq(STRING), "_" \notin Range(n)
  PROVE  decodeUriSegment(encodeUriSegment(n)) = n
<1> DEFINE e == encodeUriSegment(n)
           d == decodeUriSegment(e)
<1>1. DOMAIN e = DOMAIN n /\ DOMAIN d = DOMAIN n
  BY DEF encodeUriSegment, decodeUriSegment, Replaced
<1>2. \A k \in DOMAIN n : n[k] # "_"
  BY DEF Range
<1>3. \A k \in DOMAIN n : d[k] = n[k]
  BY <1>2 DEF encodeUriSegment, decodeUriSegment, Replaced
<1>4. d = [k \in DOMAIN n |-> d[k]]
  BY <1>1 DEF decodeUriSegment, Replaced
<1>5. n = [k \in DOMAIN n |-> n[k]]
  <2>1. PICK m \in Nat : n \in [1..m -> STRING]
    <3>1. n \in UNION {[1..m -> STRING] : m \in Nat}
      BY SeqDef, Zenon
    <3> QED BY <3>1
  <2>2. \A D, R : \A g \in [D -> R] : g = [k \in DOMAIN g |-> g[k]]
    OBVIOUS
  <2> QED BY <2>1, <2>2, Zenon
<1> HIDE DEF d
<1>6. d = n
  BY <1>3, <1>4, <1>5
<1> QED BY <1>6 DEF d

LEMMA OneSegment ==
  ASSUME NEW n, "/" \notin Range(n)
  PROVE  Segments(encodeUriSegment(n)) = << encodeUriSegment(n) >>
<1>1. \A k \in DOMAIN n : n[k] # "/"
  BY DEF Range
<1>2. "/" \notin Range(encodeUriSegment(n))
  BY <1>1 DEF Range, encodeUriSegment, Replaced
<1> QED BY <1>2 DEF Segments

LEMMA OneMore ==
  ASSUME NEW T, NEW p \in Seq(T), NEW x
  PROVE  LET u == p \o <<>> \o <<x>>
         IN  /\ Len(u) = Len(p) + 1 /\ Len(p) \in Nat
             /\ DOMAIN u = 1..(Len(p) + 1)
             /\ \A k \in 1..Len(p) : u[k] = p[k]
             /\ u[Len(p) + 1] = x
<1> DEFINE U == T \cup {x}
           t == <<x>>
           u == p \o t
<1>1. p \in Seq(U) /\ t \in Seq(U) /\ Len(t) = 1 /\ t[1] = x
  BY SeqWider
<1>2. p \o <<>> = p
  BY ConcatEmptySeq
<1> HIDE DEF t
<1>3. /\ u \in Seq(U) /\ Len(u) = Len(p) + Len(t)
      /\ \A k \in 1..(Len(p) + Len(t)) : u[k] = IF k <= Len(p) THEN p[k] ELSE t[k - Len(p)]
  BY <1>1, ConcatProperties
<1> DEFINE l == Len(p)
<1>4. l \in Nat /\ DOMAIN u = 1..Len(u)
  BY <1>3
<1> HIDE DEF l, u, U
<1>5. /\ Len(u) = l + 1 /\ DOMAIN u = 1..(l + 1)
      /\ \A k \in 1..l : u[k] = p[k]
      /\ u[l + 1] = x
  BY <1>1, <1>3, <1>4 DEF l
<1> QED BY <1>2, <1>4, <1>5 DEF l, u, t

(* What a collection and its member node are.                              *)
LEMMA CollectionIs ==
  ASSUME NEW n \in Collections
  PROVE  LET m == Children[n][1]
         IN  /\ n \in Nodes /\ Children[n] # <<>> /\ 1 \in DOMAIN Children[n]
             /\ m \in Parameterized /\ m # Https
             /\ m = "VLANNode" <=> n = "VLANs"
             /\ n = "VLANs" => TParameterEntity[m] = "Ethernet" /\ CtxEntity[n] = "Ethernet"
                               /\ n \in DOMAIN CtxEntity
             /\ n # "VLANs" /\ n \in DOMAIN CtxEntity =>
                   CtxEntity[n] # "Ethernet" /\ TParameterEntity[m] # CtxEntity[n]
  BY TreeNodes DEF Collections, Children, Parameterized, TParameterEntity, CtxEntity, Https

LEMMA MembersAre ==
  ASSUME NEW n, NEW g \in Nat \ {0}, g <= Len(FieldsGetters(n))
  PROVE  /\ FieldsGetters(n)[g][1] = "members" => n \in Collections /\ FieldsGetters(n)[g][2] = "Members"
         /\ FieldsGetters(n)[g][2] = "Members" => FieldsGetters(n)[g][1] \in {"members", "count"}
<1>1. CASE n \in Collections
  BY <1>1 DEF FieldsGetters, Collections
<1>2. CASE n \in {"RedfishV1", "CertificateLocations", "NetworkProtocol", "ChassisNode"}
  BY <1>2 DEF FieldsGetters, Collections
<1>3. CASE n = "BmcManager"
  BY <1>3 DEF FieldsGetters, Collections
<1>4. CASE n = "EthernetInterfaceNode"
  BY <1>4 DEF FieldsGetters, Collections
<1>5. CASE n \in {"SensorNode", "HTTPSCertificateEp", "VLANNode"}
  BY <1>5 DEF FieldsGetters, Collections, TParameterEntity
<1>6. CASE n \notin Collections \cup {"RedfishV1", "CertificateLocations", "NetworkProtocol",
                      "ChassisNode", "BmcManager", "EthernetInterfaceNode", "SensorNode",
                      "HTTPSCertificateEp", "VLANNode"}
  <2>1. FieldsGetters(n) = <<>>
    BY <1>6 DEF FieldsGetters
  <2> QED BY <2>1
<1> QED BY <1>1, <1>2, <1>3, <1>4, <1>5, <1>6

(* What a collection lists is live and meets the conditions of its member  *)
(* node; a VLAN belongs to the interface, which else lists itself.         *)
LEMMA ListedAre ==
  ASSUME InstancesInv, node \in Collections, Bound(node), NEW i \in getAllSegmentValues
  PROVE  \/ MemberNode = "VLANNode" /\ ~IsVlan(i)
         \/ /\ i \in live /\ i \in StaticConditions(MemberNode)
            /\ EntityOf[i] = TParameterEntity[MemberNode]
            /\ MemberNode = "VLANNode" => relationToVLAN(parameterCtx, i)
<1> DEFINE m == MemberNode
           e == TParameterEntity[m]
           S == StaticConditions(m)
<1>1. i \in getInstances(e, S)
  BY DEF getAllSegmentValues
<1>2. CtxOK(node, parameterCtx)
  BY DEF Bound
<1>3. /\ m \in Parameterized /\ (m = "VLANNode" <=> node = "VLANs")
      /\ node = "VLANs" => e = "Ethernet" /\ CtxEntity[node] = "Ethernet" /\ node \in DOMAIN CtxEntity
      /\ node # "VLANs" /\ node \in DOMAIN CtxEntity =>
            CtxEntity[node] # "Ethernet" /\ e # CtxEntity[node]
  BY CollectionIs DEF MemberNode
<1> HIDE DEF m, e, S
<1>4. CASE node # "VLANs"
  <2>1. parameterCtx = None \/ (EntityOf[parameterCtx] # e /\ ~Related(parameterCtx, e))
    BY <1>2, <1>3, <1>4 DEF CtxOK, Related
  <2>2. i \in InstancesOf(e) \cap S
    BY <1>1, <2>1 DEF getInstances
  <2> QED BY <1>3, <1>4, <2>2 DEF InstancesOf, m, e, S
<1>5. CASE node = "VLANs"
  <2>1. /\ parameterCtx \in live /\ ~IsVlan(parameterCtx) /\ EntityOf[parameterCtx] = "Ethernet"
        /\ parameterCtx # None /\ e = "Ethernet" /\ m = "VLANNode"
    BY <1>2, <1>3, <1>5, NoneIsNothing DEF Bound, CtxOK
  <2>2. i = parameterCtx \/ i \in getRelatedInstances(parameterCtx, e) \cap S
    BY <1>1, <2>1 DEF getInstances, Related
  <2>3. CASE i = parameterCtx
    BY <2>1, <2>3 DEF m
  <2>4. CASE i \in getRelatedInstances(parameterCtx, e) \cap S
    <3>1. i \in live /\ EntityOf[i] = e /\ Linked(parameterCtx, i) /\ i \in S
      BY <2>1, <2>4 DEF getRelatedInstances, InstancesOf, GetConditions
    <3>2. relationToVLAN(parameterCtx, i)
      BY <2>1, <3>1 DEF Linked
    <3> QED BY <3>1, <3>2 DEF m, e, S
  <2> QED BY <2>2, <2>3, <2>4
<1> QED BY <1>4, <1>5

LEMMA ListedResolves ==
  ASSUME InstancesInv, NameInv, SpellsInv, node \in Collections, phase # "idle", Bound(node),
         NEW i \in getAllSegmentValues
  PROVE  MemberFound(MemberUri(MemberNode, i), i)
<1> DEFINE m == MemberNode
           P == request.path
           l == Len(P)
           f == ParameterField(m, i)
           x == encodeUriSegment(f)
           u == MemberUri(m, i)
<1>1. /\ node \in Nodes /\ m \in Nodes /\ m # Root /\ Up[m] = node
      /\ m \in Parameterized /\ m # Https
      /\ m = "VLANNode" => node = "VLANs"
  BY CollectionIs, ChildIsNode, ChildUp DEF MemberNode
<1>2. SUFFICES ASSUME "_" \notin Range(name[i]), "/" \notin Range(name[i]),
                      m # "VLANNode" \/ IsVlan(i)
               PROVE  Spells(u, m) /\ Named(u, m, live)
  BY DEF MemberFound
<1>3. /\ i \in live /\ i \in StaticConditions(m) /\ EntityOf[i] = TParameterEntity[m]
      /\ m = "VLANNode" => relationToVLAN(parameterCtx, i)
  BY <1>2, ListedAre
<1>4. f = name[i]
  BY <1>2 DEF ParameterField, VlanName
<1>5. name[i] \in Seq(STRING)
  <2>1. i \in Instances
    BY <1>3 DEF InstancesInv
  <2>2. InitialName[i] \in Seq(STRING) /\ (i \in DOMAIN Renamed => Renamed[i] \in Seq(STRING))
    BY <2>1, InstancesAssumption
  <2> QED BY <2>1, <2>2 DEF NameInv
<1>6. P \in Seq(Seq(STRING)) /\ Spells(P, node)
  BY <1>1, NoneIsNothing DEF SpellsInv, GoodPath
<1>7. decodeUriSegment(x) = f /\ Segments(x) = <<x>>
  BY <1>2, <1>4, <1>5, NameRestored, OneSegment
<1>8. u = P \o <<>> \o <<x>>
  <2>1. uriPrefix(m) = <<>>
    BY <1>1 DEF uriPrefix, Https
  <2> QED BY <1>7, <2>1 DEF MemberUri
<1> HIDE DEF m, P, f, x, u
<1>9. /\ Len(u) = Len(P) + 1 /\ Len(P) \in Nat
      /\ DOMAIN u = 1..(Len(P) + 1)
      /\ \A k \in 1..Len(P) : u[k] = P[k]
      /\ u[Len(P) + 1] = x
  BY <1>6, <1>8, OneMore
<1>10. Slots(m) = << [node |-> m, segment |-> None] >>
  BY <1>1, SlotsAre
<1>11. Len(Slots(m)) = 1 /\ Slots(m)[1].node = m /\ m # None
  BY <1>1, <1>10, NoneIsNothing
<1>12. l = Len(Pattern[node]) /\ DOMAIN P = 1..l
  BY <1>6 DEF Spells
<1>13. /\ Len(Pattern[m]) = l + 1
       /\ \A k \in 1..l : Pattern[m][k] = Pattern[node][k]
       /\ Pattern[m][l + 1].node = m
  <2>1. /\ Len(Pattern[Up[m]]) \in Nat
        /\ Len(Pattern[m]) = Len(Pattern[Up[m]]) + Len(Slots(m))
        /\ \A k \in 1..Len(Pattern[Up[m]]) : Pattern[m][k] = Pattern[Up[m]][k]
        /\ \A k \in 1..Len(Slots(m)) : Pattern[m][Len(Pattern[Up[m]]) + k] = Slots(m)[k]
    BY <1>1, PatternExtends
  <2>2. Len(Pattern[Up[m]]) = l
    BY <1>1, <1>12
  <2> HIDE DEF l
  <2> QED BY <1>1, <1>11, <2>1, <2>2
<1>14. l \in Nat
  BY <1>9
<1> HIDE DEF l
<1>15. Spells(u, m)
  <2>1. Len(u) = Len(Pattern[m])
    BY <1>9, <1>13 DEF l
  <2>2. ASSUME NEW k \in DOMAIN u, Pattern[m][k].node = None
        PROVE  Pattern[m][k].segment = u[k]
    <3>1. k # l + 1
      BY <1>11, <1>13, <2>2
    <3>2. k \in 1..l
      BY <1>9, <1>14, <3>1 DEF l
    <3> QED BY <1>6, <1>9, <1>12, <1>13, <2>2, <3>2 DEF Spells, l
  <2> QED BY <2>1, <2>2 DEF Spells
<1>16. i \in EntityCondition(m, x)
  BY <1>2, <1>3, <1>7 DEF EntityCondition, f
<1>17. m = "VLANNode" => /\ parameterCtx \in live /\ EntityOf[parameterCtx] = "Ethernet"
                         /\ ~IsVlan(parameterCtx)
                         /\ name[parameterCtx] = decodeUriSegment(u[l + 1 - 2])
                         /\ relationToVLAN(parameterCtx, i)
  <2> SUFFICES ASSUME m = "VLANNode"
               PROVE  /\ parameterCtx \in live /\ EntityOf[parameterCtx] = "Ethernet"
                      /\ ~IsVlan(parameterCtx)
                      /\ name[parameterCtx] = decodeUriSegment(u[l + 1 - 2])
                      /\ relationToVLAN(parameterCtx, i)
    OBVIOUS
  <2>1. /\ parameterCtx \in live /\ ~IsVlan(parameterCtx)
        /\ name[parameterCtx] = decodeUriSegment(P[6])
        /\ relationToVLAN(parameterCtx, i)
    BY <1>1, <1>3 DEF Bound, P
  <2>2. EntityOf[parameterCtx] = "Ethernet"
    BY <1>1 DEF Bound, CtxOK, CtxEntity
  <2>3. l = 7
    BY <1>1, <1>12, InterfaceLength
  <2>4. u[6] = P[6] /\ l + 1 - 2 = 6
    BY <1>9, <2>3 DEF l
  <2> QED BY <2>1, <2>2, <2>4
<1>18. Named(u, m, live)
  <2> SUFFICES ASSUME NEW k \in DOMAIN u, NEW p, p = Pattern[m][k].node, p # None
               PROVE  \E j \in live :
                         /\ EntityOf[j] = TParameterEntity[p]
                         /\ j \in EntityCondition(p, u[k])
                         /\ p = "VLANNode" => \E e \in live :
                               /\ EntityOf[e] = "Ethernet" /\ ~IsVlan(e)
                               /\ name[e] = decodeUriSegment(u[k - 2])
                               /\ relationToVLAN(e, j)
    BY DEF Named
  <2>1. CASE k = l + 1
    <3>1. p = m /\ u[k] = x
      BY <1>9, <1>13, <2>1 DEF l
    <3>2. m = "VLANNode" => \E e \in live :
             /\ EntityOf[e] = "Ethernet" /\ ~IsVlan(e)
             /\ name[e] = decodeUriSegment(u[k - 2])
             /\ relationToVLAN(e, i)
      <4>1. u[k - 2] = u[l + 1 - 2]
        BY <1>14, <2>1
      <4> QED BY <1>17, <4>1, Zenon
    <3> QED BY <1>3, <1>16, <3>1, <3>2
  <2>2. CASE k # l + 1
    <3>1. k \in 1..l
      BY <1>9, <1>14, <2>2 DEF l
    <3>2. p = Pattern[node][k].node /\ u[k] = P[k]
      BY <1>9, <1>13, <3>1 DEF l
    <3>3. NamedSlot(p, P[k])
      BY <1>12, <3>1, <3>2 DEF Bound, P
    <3> QED BY <3>2, <3>3 DEF NamedSlot
  <2> QED BY <2>1, <2>2
<1> QED BY <1>15, <1>18

----------------------------------------------------------------------------
(* The steps of a request keep what they have found while nothing changes. *)
Quietly == UNCHANGED <<request, node, parameterCtx>> /\ UNCHANGED instanceVars

LEMMA BoundUnchanged ==
  ASSUME UNCHANGED <<request, parameterCtx>>, UNCHANGED instanceVars, NEW n, Bound(n)
  PROVE  Bound(n)'
  BY DEF Bound, CtxOK, NamedSlot, EntityCondition, StaticConditions, ParameterField, VlanName,
     instanceVars

LEMMA FoundUnchanged ==
  ASSUME UNCHANGED <<request, node>>, UNCHANGED instanceVars, NEW i,
         MemberFound(MemberUri(MemberNode, i), i)
  PROVE  MemberFound(MemberUri(MemberNode, i), i)'
<1>1. UNCHANGED <<live, name, MemberNode>>
  BY DEF instanceVars, MemberNode
<1>2. MemberUri(MemberNode, i)' = MemberUri(MemberNode, i)
  BY <1>1 DEF MemberUri, ParameterField, VlanName
<1>3. ASSUME NEW u, MemberFound(u, i)
      PROVE  MemberFound(u, i)'
  <2>1. Named(u, MemberNode, live) => Named(u, MemberNode, live)'
    BY <1>1 DEF Named, EntityCondition, StaticConditions, ParameterField, VlanName, relationToVLAN
  <2> QED BY <1>1, <1>3, <2>1 DEF MemberFound, Spells
<1> HIDE DEF MemberFound, MemberUri
<1> QED BY <1>2, <1>3

LEMMA MembersUnchanged ==
  ASSUME MembersOK, UNCHANGED <<request, node>>, UNCHANGED instanceVars,
         "Members" \in DOMAIN body' => "Members" \in DOMAIN body /\ body'["Members"] = body["Members"]
  PROVE  MembersOK'
<1>1. ASSUME "Members" \in DOMAIN body', NEW i \in body'["Members"].of
      PROVE  MemberFound(MemberUri(MemberNode, i), i)'
  BY <1>1, FoundUnchanged DEF MembersOK
<1> QED BY <1>1 DEF MembersOK

LEMMA QuietUnchanged ==
  ASSUME QuietInv, UNCHANGED requestVars, UNCHANGED instanceVars
  PROVE  QuietInv'
<1>1. UNCHANGED <<request, phase, parent, node, parameterCtx, body, changes>>
  BY DEF requestVars, instanceVars
<1>2. ASSUME changes = 0
      PROVE  MembersOK'
  BY <1>1, <1>2, MembersUnchanged DEF QuietInv
<1> QED BY <1>1, <1>2, BoundUnchanged DEF QuietInv

LEMMA QuietWhileInstancesChange ==
  ASSUME InstancesInv, InstancesChange
  PROVE  QuietInv'
<1>1. changes' = changes + 1 /\ changes \in Nat
  BY InstancesAssumption DEF InstancesInv, InstancesChange, Arrive, Depart, Rename
<1> QED BY <1>1 DEF QuietInv

LEMMA RootIsFree ==
  /\ \A k \in 1..Len(Pattern[Root]) : Pattern[Root][k].node = None
  /\ Root \notin DOMAIN CtxEntity /\ Root \notin {"EthernetInterfaceNode", "VLANs"}
<1>1. Slots(Root) = << [node |-> None, segment |-> Segment(Root)] >>
  BY RootHasChild, SlotsAre DEF Parameterized, TParameterEntity, Https, Root
<1>2. \A k \in 1..Len(Pattern[Root]) : Pattern[Root][k].node = None
  BY <1>1, PatternIs
<1>3. Root \notin DOMAIN CtxEntity /\ Root \notin {"EthernetInterfaceNode", "VLANs"}
  BY DEF Root, CtxEntity
<1> QED BY <1>2, <1>3

LEMMA QuietRunning ==
  ASSUME RedfishInv, SpellsInv, phase = "idle", NEW req, RunRedfish(req)
  PROVE  QuietInv'
<1>1. /\ parent' = Root /\ parameterCtx' = None /\ node' \in {Root, None} /\ DOMAIN body' = {}
  BY DEF RedfishInv, PhaseInv, SpellsInv, RunRedfish, Untouched
<1>2. Bound(Root)'
  BY <1>1, RootIsFree DEF Bound, CtxOK, NamedSlot
<1>3. MembersOK'
  BY <1>1 DEF MembersOK
<1> QED BY <1>1, <1>2, <1>3, NoneIsNothing DEF QuietInv

LEMMA EnteredQuietly ==
  ASSUME RedfishInv, SpellsInv, phase = "resolve", NEW c, NEW d, EnterChild(c, d),
         Children[c] # <<>> => Bound(c)'
  PROVE  /\ phase' = "resolve" => Bound(parent)'
         /\ node' \in Nodes /\ Children[node'] # <<>> => Bound(node)'
<1>1. node = None /\ None \notin Nodes
  BY NoneIsNothing DEF SpellsInv
<1>2. CASE matchEntirePattern(d)
  <2>1. phase' = "build" /\ node' = c
    BY <1>2 DEF EnterChild
  <2> QED BY <2>1 DEF Bound
<1>3. CASE ~matchEntirePattern(d) /\ Children[c] = <<>>
  <2>1. phase' = "done" /\ node' = None
    BY <1>1, <1>3 DEF EnterChild, Answer
  <2> QED BY <1>1, <2>1
<1>4. CASE ~matchEntirePattern(d) /\ Children[c] # <<>>
  <2>1. parent' = c /\ node' = None
    BY <1>1, <1>4 DEF EnterChild
  <2> QED BY <1>1, <1>4, <2>1 DEF Bound
<1> QED BY <1>2, <1>3, <1>4

LEMMA QuietResolving ==
  ASSUME InstancesInv, RedfishInv, SpellsInv, QuietInv, nextChildResolver,
         UNCHANGED instanceVars
  PROVE  QuietInv'
<1>0. PICK c : c = Children[parent][child]
  OBVIOUS
<1>1. /\ phase = "resolve" /\ parent \in Nodes /\ child \in DOMAIN Children[parent]
      /\ c \in Nodes /\ DOMAIN body = {} /\ changes' = changes
  BY <1>0, ChildIsNode DEF nextChildResolver, RedfishInv, RedfishParts, PhaseInv, Untouched, instanceVars
<1>2. SUFFICES ASSUME changes = 0
               PROVE  QuietInv'
  BY <1>1 DEF QuietInv
<1>3. Bound(parent)
  BY <1>1, <1>2 DEF QuietInv
<1>4. node = None /\ None \notin Nodes
  BY <1>1, NoneIsNothing DEF SpellsInv
<1>5. \/ EnterStatic(c)
      \/ EnterParameterized(c)
      \/ NextSibling
      \/ NodeNotFound
  BY <1>0, Zenon DEF nextChildResolver
<1>6. CASE EnterStatic(c)
  <2>1. /\ c \notin Parameterized /\ EnterChild(c, BehindPrefix(c))
        /\ UNCHANGED <<request, parameterCtx, body>>
    BY <1>6 DEF EnterStatic, EnterChild
  <2>2. Children[c] # <<>> => Bound(c)'
    BY <1>1, <1>3, <2>1, BoundStatic, BoundUnchanged, <1>0
  <2>3. MembersOK'
    BY <1>1, <2>1 DEF MembersOK
  <2> QED BY <1>1, <2>1, <2>2, <2>3, EnteredQuietly DEF QuietInv
<1>7. CASE EnterParameterized(c)
  <2>1. EnterChild(c, BehindPrefix(c)) /\ UNCHANGED body
    BY <1>7 DEF EnterParameterized, EnterChild
  <2>2. Children[c] # <<>> => Bound(c)'
    BY <1>1, <1>3, <1>7, <1>0, BoundParameter
  <2>3. MembersOK'
    BY <1>1, <2>1 DEF MembersOK
  <2> QED BY <1>1, <2>1, <2>2, <2>3, EnteredQuietly DEF QuietInv
<1>8. CASE NextSibling \/ NodeNotFound
  <2>1. UNCHANGED <<request, parent, parameterCtx, node, body>>
    BY <1>8 DEF NextSibling, NodeNotFound
  <2>2. Bound(parent)'
    <3>1. Bound(parent)' <=> Bound(parent)
      BY <2>1 DEF Bound, CtxOK, NamedSlot, EntityCondition, StaticConditions, ParameterField,
         VlanName, instanceVars
    <3> QED BY <1>3, <3>1
  <2>3. MembersOK'
    BY <1>1, <2>1 DEF MembersOK
  <2> QED BY <1>4, <2>1, <2>2, <2>3 DEF QuietInv
<1> QED BY <1>5, <1>6, <1>7, <1>8

(* Once the node is found: its members are listed, or left alone.          *)
LEMMA QuietFound ==
  ASSUME QuietInv, phase' # "resolve", UNCHANGED <<request, node, parameterCtx>>,
         UNCHANGED instanceVars,
         changes = 0 /\ MembersOK => MembersOK'
  PROVE  QuietInv'
<1>1. changes' = changes
  BY DEF instanceVars
<1>2. Bound(node) => Bound(node)'
  BY DEF Bound, CtxOK, NamedSlot, EntityCondition, StaticConditions, ParameterField,
     VlanName, instanceVars
<1> QED BY <1>1, <1>2 DEF QuietInv

LEMMA QuietPut ==
  ASSUME RedfishInv, QuietInv, NEW kind, Current(kind), kind \notin {"members", "count"},
         UNCHANGED instanceVars,
         body' = body \/ \E shown, uris : body' = Put(Key, shown, uris)
  PROVE  QuietInv'
<1>1. /\ phase = "get" /\ phase' = phase /\ UNCHANGED <<request, node, parameterCtx>>
      /\ getter \in Nat \ {0} /\ getter <= Len(FieldsGetters(node))
      /\ FieldsGetters(node)[getter][1] = kind
  BY DEF RedfishInv, PhaseInv, Current
<1>2. Key # "Members"
  BY <1>1, MembersAre DEF Key
<1> HIDE DEF Key
<1>3. "Members" \in DOMAIN body' => "Members" \in DOMAIN body /\ body'["Members"] = body["Members"]
  BY <1>2 DEF Put, Extended
<1> QED BY <1>1, <1>3, MembersUnchanged, QuietFound

LEMMA QuietMembers ==
  ASSUME InstancesInv, NameInv, RedfishInv, SpellsInv, QuietInv, GetMembers, UNCHANGED instanceVars
  PROVE  QuietInv'
<1>1. /\ phase = "get" /\ phase' = phase /\ UNCHANGED <<request, node, parameterCtx>>
      /\ getter \in Nat \ {0} /\ getter <= Len(FieldsGetters(node))
      /\ FieldsGetters(node)[getter][1] = "members"
  BY DEF RedfishInv, PhaseInv, GetMembers, Current
<1>2. node \in Collections
  BY <1>1, MembersAre
<1>3. body' = Put(Key, getAllSegmentValues, {MemberUri(MemberNode, i) : i \in getAllSegmentValues})
  BY DEF GetMembers
<1>4. Key = "Members"
  BY <1>1, MembersAre DEF Key
<1>5. body'["Members"].of = getAllSegmentValues
  BY <1>3, <1>4 DEF Put, Extended
<1>6. ASSUME changes = 0, NEW i \in getAllSegmentValues
      PROVE  MemberFound(MemberUri(MemberNode, i), i)'
  <2>1. Bound(node)
    BY <1>2, <1>6, CollectionIs DEF QuietInv
  <2> QED BY <1>1, <1>2, <1>6, <2>1, ListedResolves, FoundUnchanged
<1>7. changes = 0 => MembersOK'
  BY <1>5, <1>6 DEF MembersOK
<1> QED BY <1>1, <1>7, QuietFound

LEMMA QuietSteps ==
  ASSUME InstancesInv, NameInv, RedfishInv, SpellsInv, QuietInv, RedfishStep,
         UNCHANGED instanceVars
  PROVE  QuietInv'
<1>1. CASE nextChildResolver
  BY <1>1, QuietResolving
<1>2. CASE ProcessNode \/ FlashPayload \/ GetCount
  <2>1. phase' # "resolve" /\ UNCHANGED <<request, node, parameterCtx, body>>
    BY <1>2 DEF ProcessNode, MethodNotAllowed, MethodGet, NoTarget, Answer, FlashPayload,
       GetCount, Current
  <2> QED BY <2>1, MembersUnchanged, QuietFound
<1>3. CASE GetMembers
  BY <1>3, QuietMembers
<1>4. CASE GetField \/ GetObject \/ GetRows \/ GetLink \/ GetLinks
  <2>1. \E kind : Current(kind) /\ kind \notin {"members", "count"}
    BY <1>4 DEF GetField, GetObject, GetRows, GetLink, GetLinks
  <2>2. body' = body \/ \E shown, uris : body' = Put(Key, shown, uris)
    BY <1>4 DEF GetField, GetObject, GetRows, GetLink, GetLinks
  <2> QED BY <2>1, <2>2, QuietPut
<1> QED BY <1>1, <1>2, <1>3, <1>4 DEF RedfishStep

----------------------------------------------------------------------------
(* One visit more opens or closes one selection set, or none.              *)
LEMMA VisitsAre ==
  ASSUME NEW q, NEW n \in Nat, NEW kind
  PROVE  /\ Cardinality(Visits(q, n, kind)) \in Nat
         /\ Cardinality(Visits(q, n + 1, kind)) =
               Cardinality(Visits(q, n, kind)) + (IF q[n + 1][1] = kind THEN 1 ELSE 0)
<1> DEFINE S == Visits(q, n, kind)
<1>1. IsFiniteSet(1..n)
  BY FS_Interval
<1>2. S \in SUBSET (1..n)
  BY DEF Visits
<1>3. IsFiniteSet(S)
  BY <1>1, <1>2, FS_Subset
<1>4. Cardinality(S) \in Nat
  BY <1>3, FS_CardinalityType
<1>5. n + 1 \notin S
  BY <1>2
<1>6. Visits(q, n + 1, kind) = IF q[n + 1][1] = kind THEN S \cup {n + 1} ELSE S
  BY DEF Visits
<1> HIDE DEF S
<1>7. Cardinality(S \cup {n + 1}) = Cardinality(S) + 1
  BY <1>3, <1>5, FS_AddElement
<1> QED BY <1>4, <1>6, <1>7 DEF S

LEMMA OpenIs ==
  ASSUME NEW q, NEW n \in Nat
  PROVE  /\ Open(q, n) \in Int
         /\ q[n + 1][1] = "enter" => Open(q, n + 1) = Open(q, n) + 1
         /\ q[n + 1][1] = "leave" => Open(q, n + 1) = Open(q, n) - 1
         /\ q[n + 1][1] = "scalar" => Open(q, n + 1) = Open(q, n)
<1>1. /\ Cardinality(Visits(q, n, "enter")) \in Nat
      /\ Cardinality(Visits(q, n, "leave")) \in Nat
      /\ Cardinality(Visits(q, n + 1, "enter")) =
            Cardinality(Visits(q, n, "enter")) + (IF q[n + 1][1] = "enter" THEN 1 ELSE 0)
      /\ Cardinality(Visits(q, n + 1, "leave")) =
            Cardinality(Visits(q, n, "leave")) + (IF q[n + 1][1] = "leave" THEN 1 ELSE 0)
  BY VisitsAre
<1> HIDE DEF Visits
<1> QED BY <1>1 DEF Open

LEMMA NothingOpen ==
  ASSUME NEW q
  PROVE  Open(q, 0) = 0
<1>1. \A kind : Visits(q, 0, kind) = {}
  BY DEF Visits
<1> QED BY <1>1, FS_EmptySet DEF Open
----------------------------------------------------------------------------
(* The builders: the first one is the operation's, the others are of an    *)
(* entity, and those below the second one go along a relation.  A fragment *)
(* has no items but of instances the query has seen, and, when nothing     *)
(* arrived, all the items the entity may be asked for.                     *)
ItemOK(item, p) ==
  /\ DOMAIN item = {"shape", "members"}
  /\ arrived = {} => item.shape = "object"
  /\ p # Operation /\ "IP" \in DOMAIN item.members =>
        \A r \in DOMAIN item.members["IP"].items : Owner[r] = p \/ p \in departed

FragmentOK(f) == \A p \in DOMAIN f : ItemOK(f[p], p)

EntityBuilderOK(b, k) ==
  /\ b.entity \in Entities
  /\ b.relation <=> k > 2
  /\ DOMAIN b.fragment \subseteq Instances \cap Seen
  /\ arrived = {} => InstancesOf(b.entity) \subseteq DOMAIN b.fragment

BuilderOK(b, k) ==
  /\ DOMAIN b = {"entity", "relation", "fragment"}
  /\ FragmentOK(b.fragment)
  /\ IF k = 1 THEN b.entity = Operation /\ DOMAIN b.fragment = {Operation}
              ELSE EntityBuilderOK(b, k)

BuildersOK ==
  /\ IsSeq(builders)
  /\ \A k \in 1..Len(builders) : BuilderOK(builders[k], k)

VisitInv ==
  /\ outcome \in {"idle", "visit", "throws", "rangeThrows"} \cup Ended
  /\ outcome = "idle" => query = <<>> /\ position = 1 /\ builders = <<>> /\ unpushed = {}
  /\ IsQuery(query)
  /\ position \in 1..(Len(query) + 1)
  /\ outcome # "idle" => Len(builders) = 1 + Open(query, position - 1) /\ Len(builders) >= 1
  /\ unpushed # {} => /\ position <= Len(query) /\ Visit[1] = "leave"
                      /\ Len(builders) > 1 /\ unpushed \subseteq DOMAIN Parent.fragment

NothingBroken == arrived = {} => outcome \notin {"rangeThrows", "escaped", "terminated"}

GraphqlInv == VisitInv /\ BuildersOK /\ NothingBroken

LEMMA NoQuery == IsQuery(<<>>)
<1>1. <<>> \in Seq({"enter", "leave", "scalar"} \X STRING) /\ DOMAIN <<>> = {}
  OBVIOUS
<1> QED BY <1>1 DEF IsQuery

LEMMA GraphqlInitially ==
  ASSUME GraphqlInit
  PROVE  GraphqlInv
<1>1. IsSeq(<<>>) /\ Len(<<>>) = 0
  <2>1. <<>> \in Seq({})
    OBVIOUS
  <2> QED BY <2>1 DEF IsSeq
<1>2. BuildersOK
  BY <1>1 DEF GraphqlInit, BuildersOK
<1>3. VisitInv
  BY NoQuery DEF GraphqlInit, VisitInv
<1> QED BY <1>2, <1>3 DEF GraphqlInv, NothingBroken, GraphqlInit

(* The dbus thread takes nothing away from what the builders have.         *)
LEMMA ItemWhileInstancesChange ==
  ASSUME InstancesInv, InstancesChange, NEW item, NEW p, ItemOK(item, p)
  PROVE  ItemOK(item, p)'
  BY InstancesStep DEF ItemOK

LEMMA BuilderWhileInstancesChange ==
  ASSUME InstancesInv, InstancesChange, NEW b, NEW k, BuilderOK(b, k)
  PROVE  BuilderOK(b, k)'
<1>1. FragmentOK(b.fragment)'
  BY ItemWhileInstancesChange DEF BuilderOK, FragmentOK
<1>2. k # 1 => EntityBuilderOK(b, k)'
  BY InstancesStep DEF BuilderOK, EntityBuilderOK, InstancesOf
<1> QED BY <1>1, <1>2 DEF BuilderOK

LEMMA GraphqlWhileInstancesChange ==
  ASSUME InstancesInv, GraphqlInv, InstancesChange, UNCHANGED queryVars
  PROVE  GraphqlInv'
<1>1. UNCHANGED <<query, outcome, position, builders, unpushed>>
  BY DEF queryVars
<1>2. VisitInv'
  BY <1>1 DEF GraphqlInv, VisitInv, Visit, Parent
<1>3. BuildersOK'
  <2>1. \A k \in 1..Len(builders) : BuilderOK(builders[k], k)
    BY DEF GraphqlInv, BuildersOK
  <2>2. ASSUME NEW B, B = builders
        PROVE  \A k \in 1..Len(B) : BuilderOK(B[k], k)'
    BY <2>1, <2>2, BuilderWhileInstancesChange
  <2>3. \A k \in 1..Len(builders') : BuilderOK(builders[k], k)'
    BY <1>1, <2>2
  <2> QED BY <1>1, <2>3 DEF GraphqlInv, BuildersOK
<1>4. NothingBroken'
  BY <1>1, InstancesStep DEF GraphqlInv, NothingBroken
<1> QED BY <1>2, <1>3, <1>4 DEF GraphqlInv
----------------------------------------------------------------------------
(* Builders that are OK stay so while the instances are the same.          *)
LEMMA BuildersBecome ==
  ASSUME NEW B, builders' = B, IsSeq(B), \A k \in 1..Len(B) : BuilderOK(B[k], k),
         UNCHANGED instanceVars
  PROVE  BuildersOK'
  BY DEF instanceVars, BuildersOK, BuilderOK, FragmentOK, ItemOK, EntityBuilderOK,
         InstancesOf, Seen

LEMMA BuildersUnchanged ==
  ASSUME BuildersOK, UNCHANGED builders, UNCHANGED instanceVars
  PROVE  BuildersOK'
  BY BuildersBecome DEF BuildersOK

LEMMA GraphqlUnchanged ==
  ASSUME GraphqlInv, UNCHANGED queryVars, UNCHANGED instanceVars
  PROVE  GraphqlInv'
<1>1. VisitInv' /\ NothingBroken'
  BY DEF queryVars, instanceVars, GraphqlInv, VisitInv, NothingBroken, Visit, Parent
<1>2. BuildersOK'
  BY BuildersUnchanged DEF GraphqlInv, queryVars
<1> QED BY <1>1, <1>2 DEF GraphqlInv

(* The first builder, and only that one, is the operation's.               *)
LEMMA TopIs ==
  ASSUME BuildersOK, Len(builders) >= 1
  PROVE  /\ Len(builders) \in Nat
         /\ BuilderOK(Top, Len(builders))
         /\ Top.entity = Operation <=> Len(builders) = 1
         /\ Len(builders) > 1 => EntityBuilderOK(Top, Len(builders))
<1>1. Len(builders) \in Nat
  BY SeqIs DEF BuildersOK
<1>2. BuilderOK(Top, Len(builders))
  BY <1>1 DEF BuildersOK, Top
<1>3. Operation \notin Entities
  BY GraphqlAssumption
<1>4. CASE Len(builders) = 1
  BY <1>1, <1>2, <1>4 DEF BuilderOK
<1>5. CASE Len(builders) # 1
  <2>1. EntityBuilderOK(Top, Len(builders))
    BY <1>2, <1>5 DEF BuilderOK
  <2>2. Top.entity \in Entities
    BY <2>1 DEF EntityBuilderOK
  <2> QED BY <1>1, <1>2, <1>3, <1>5, <2>1, <2>2
<1> QED BY <1>4, <1>5

LEMMA ParentIs ==
  ASSUME BuildersOK, Len(builders) > 1
  PROVE  BuilderOK(Parent, Len(builders) - 1)
<1>1. Len(builders) \in Nat
  BY SeqIs DEF BuildersOK
<1> QED BY <1>1 DEF BuildersOK, Parent

LEMMA EmptyObjectOK ==
  ASSUME NEW p
  PROVE  ItemOK(EmptyObject, p)
<1>1. DOMAIN EmptyObject = {"shape", "members"} /\ EmptyObject.shape = "object"
  BY DEF EmptyObject
<1>2. DOMAIN EmptyObject.members = {}
  BY DEF EmptyObject
<1> QED BY <1>1, <1>2 DEF ItemOK

LEMMA NullOK ==
  ASSUME NEW p, arrived # {}
  PROVE  ItemOK(Null, p)
<1>1. DOMAIN Null = {"shape", "members"}
  BY DEF Null
<1>2. DOMAIN Null.members = {}
  BY DEF Null
<1> QED BY <1>1, <1>2 DEF ItemOK

(* A member that is pushed is no list of addresses, or one of the item's.  *)
LEMMA PushedOK ==
  ASSUME NEW item, NEW p, ItemOK(item, p), NEW key, NEW value,
         p # Operation /\ key = "IP" =>
            \A r \in DOMAIN value.items : Owner[r] = p \/ p \in departed
  PROVE  ItemOK(PushBack(item, key, value), p)
<1>1. CASE key \in DOMAIN item.members
  BY <1>1 DEF PushBack
<1>2. CASE key \notin DOMAIN item.members
  <2> DEFINE pushed == PushBack(item, key, value)
  <2>1. pushed = [item EXCEPT !.members = Extended(item.members, key, value)]
    BY <1>2 DEF PushBack
  <2>2. /\ DOMAIN pushed = {"shape", "members"}
        /\ pushed.shape = item.shape
        /\ pushed.members = Extended(item.members, key, value)
    BY <2>1 DEF ItemOK
  <2> HIDE DEF pushed
  <2>3. \A r : r \in DOMAIN pushed.members =>
           pushed.members[r] = IF r = key THEN value ELSE item.members[r]
    BY <2>2 DEF Extended
  <2>4. DOMAIN pushed.members = DOMAIN item.members \cup {key}
    BY <2>2 DEF Extended
  <2>5. ItemOK(pushed, p)
    BY <2>2, <2>3, <2>4 DEF ItemOK
  <2> QED BY <2>5 DEF pushed
<1> QED BY <1>1, <1>2

----------------------------------------------------------------------------
(* A query starts with the builder of its operation.                       *)
LEMMA GraphqlRuns ==
  ASSUME GraphqlInv, outcome = "idle", NEW q, IsQuery(q), RunGraphql(q), UNCHANGED instanceVars
  PROVE  GraphqlInv'
<1>1. /\ query' = q /\ builders' = <<OperationBuilder>> /\ UNCHANGED <<position, unpushed>>
      /\ outcome' \in {"error", "visit"}
  BY DEF RunGraphql
<1>2. position = 1 /\ unpushed = {}
  BY DEF GraphqlInv, VisitInv
<1>3. IsSeq(<<OperationBuilder>>) /\ Len(<<OperationBuilder>>) = 1
  <2>1. <<OperationBuilder>> \in Seq({OperationBuilder})
    OBVIOUS
  <2> QED BY <2>1 DEF IsSeq
<1>4. BuilderOK(OperationBuilder, 1)
  <2>1. /\ DOMAIN OperationBuilder = {"entity", "relation", "fragment"}
        /\ OperationBuilder.entity = Operation
        /\ DOMAIN OperationBuilder.fragment = {Operation}
        /\ OperationBuilder.fragment[Operation] = EmptyObject
    BY DEF OperationBuilder
  <2> QED BY <2>1, EmptyObjectOK DEF BuilderOK, FragmentOK
<1>5. BuildersOK'
  <2>1. \A k \in 1..Len(<<OperationBuilder>>) : BuilderOK(<<OperationBuilder>>[k], k)
    BY <1>4
  <2> QED BY <1>1, <1>3, <2>1, BuildersBecome
<1>6. VisitInv'
  <2>1. Len(q) \in Nat
    BY DEF IsQuery
  <2>2. Len(builders') = 1 + Open(query', position' - 1)
    BY <1>1, <1>2, <1>3, NothingOpen
  <2> QED BY <1>1, <1>2, <1>3, <2>1, <2>2 DEF VisitInv, Ended
<1>7. NothingBroken'
  BY <1>1 DEF NothingBroken
<1> QED BY <1>5, <1>6, <1>7 DEF GraphqlInv

(* An exception leaves everything but the outcome.                         *)
LEMMA GraphqlThrows ==
  ASSUME GraphqlInv, outcome # "idle", NEW exception, Throw(exception), UNCHANGED instanceVars,
         exception \in {"throws", "rangeThrows"} \cup Ended,
         arrived = {} => exception \notin {"rangeThrows", "escaped", "terminated"}
  PROVE  GraphqlInv'
<1>1. outcome' = exception /\ UNCHANGED <<query, position, builders, unpushed>>
  BY DEF Throw
<1>2. VisitInv'
  BY <1>1 DEF GraphqlInv, VisitInv, Ended, Visit, Parent
<1>3. NothingBroken'
  BY <1>1 DEF NothingBroken, instanceVars
<1> QED BY <1>1, <1>2, <1>3, BuildersUnchanged DEF GraphqlInv

LEMMA VisitingIs ==
  ASSUME GraphqlInv, NEW kind, Visiting(kind)
  PROVE  /\ outcome = "visit" /\ unpushed = {}
         /\ Len(query) \in Nat /\ position \in 1..Len(query) /\ query[position][1] = kind
         /\ Len(builders) = 1 + Open(query, position - 1)
         /\ Len(builders) \in Nat /\ Len(builders) >= 1
         /\ IsSeq(builders) /\ BuildersOK
<1>1. Len(query) \in Nat
  BY DEF GraphqlInv, VisitInv, IsQuery
<1>2. Len(builders) \in Nat
  BY SeqIs DEF GraphqlInv, BuildersOK
<1> QED BY <1>1, <1>2 DEF Visiting, Visit, GraphqlInv, VisitInv, BuildersOK

(* After a visit the builders are one for each open selection set.         *)
LEMMA Visited ==
  ASSUME GraphqlInv, outcome = "visit", UNCHANGED instanceVars,
         position <= Len(query), position' = position + 1, unpushed' = {},
         UNCHANGED <<query, outcome>>, BuildersOK',
         Len(builders') = 1 + Open(query, position), Len(builders') >= 1
  PROVE  GraphqlInv'
<1>1. Len(query) \in Nat /\ position \in 1..Len(query)
  BY DEF GraphqlInv, VisitInv, IsQuery
<1>2. position' - 1 = position /\ position' \in 1..(Len(query) + 1)
  BY <1>1
<1>3. VisitInv'
  BY <1>2 DEF GraphqlInv, VisitInv, Ended
<1>4. NothingBroken'
  BY DEF GraphqlInv, NothingBroken, instanceVars
<1> QED BY <1>3, <1>4 DEF GraphqlInv
----------------------------------------------------------------------------
(* A selection set gets a builder with an item for each instance there is. *)
LEMMA NewBuilderOK ==
  ASSUME InstancesInv, NEW entity \in Entities, NEW k \in Nat, k > 1, NEW relation,
         relation <=> k > 2
  PROVE  BuilderOK(Builder(entity, relation), k)
<1> DEFINE b == Builder(entity, relation)
<1>1. /\ DOMAIN b = {"entity", "relation", "fragment"}
      /\ b.entity = entity
      /\ b.relation = relation
      /\ b.fragment = [i \in InstancesOf(entity) |-> EmptyObject]
  BY DEF Builder, EachInstance
<1> HIDE DEF b
<1>2. DOMAIN b.fragment = InstancesOf(entity)
      /\ \A p \in InstancesOf(entity) : b.fragment[p] = EmptyObject
  BY <1>1
<1>3. InstancesOf(entity) \subseteq Instances \cap Seen
  BY DEF InstancesOf, InstancesInv, Seen
<1>4. FragmentOK(b.fragment)
  BY <1>2, EmptyObjectOK DEF FragmentOK
<1>5. b.relation <=> k > 2
  BY <1>1
<1>6. EntityBuilderOK(b, k)
  BY <1>1, <1>2, <1>3, <1>5 DEF EntityBuilderOK
<1>7. BuilderOK(b, k)
  BY <1>1, <1>4, <1>6 DEF BuilderOK
<1> QED BY <1>7 DEF b

LEMMA KnownIsEntity ==
  ASSUME BuildersOK, Len(builders) >= 1, KnownObject
  PROVE  Visit[2] \in Entities
<1>1. CASE Top.entity = Operation
  BY <1>1 DEF KnownObject
<1>2. CASE Top.entity # Operation
  BY <1>2 DEF KnownObject, Related, Entities
<1> QED BY <1>1, <1>2

LEMMA GraphqlEnters ==
  ASSUME InstancesInv, GraphqlInv, VisitObject, UNCHANGED instanceVars
  PROVE  GraphqlInv'
<1>1. Visiting("enter")
  BY DEF VisitObject
<1>2. /\ outcome = "visit" /\ unpushed = {}
      /\ Len(query) \in Nat /\ position \in 1..Len(query) /\ query[position][1] = "enter"
      /\ Len(builders) = 1 + Open(query, position - 1)
      /\ Len(builders) \in Nat /\ Len(builders) >= 1
      /\ IsSeq(builders) /\ BuildersOK
  BY <1>1, VisitingIs
<1>3. CASE KnownObject /\ builders' = Append(builders, Builder(Visit[2], Top.entity # Operation))
           /\ position' = position + 1 /\ UNCHANGED <<query, outcome, unpushed>>
  <2> DEFINE b == Builder(Visit[2], Top.entity # Operation)
             n == Len(builders)
  <2>1. BuilderOK(b, n + 1)
    <3>1. (Top.entity # Operation) <=> (n + 1 > 2)
      BY <1>2, TopIs
    <3>2. n + 1 \in Nat /\ n + 1 > 1
      BY <1>2
    <3>3. Visit[2] \in Entities
      BY <1>2, <1>3, KnownIsEntity
    <3> QED BY <3>1, <3>2, <3>3, NewBuilderOK
  <2> HIDE DEF b
  <2>2. /\ IsSeq(Append(builders, b)) /\ Len(Append(builders, b)) = n + 1
        /\ \A k \in 1..n : Append(builders, b)[k] = builders[k]
        /\ Append(builders, b)[n + 1] = b
    BY <1>2, SeqAppend
  <2>3. \A k \in 1..n : BuilderOK(builders[k], k)
    BY <1>2 DEF BuildersOK
  <2>4. \A k \in 1..Len(Append(builders, b)) : BuilderOK(Append(builders, b)[k], k)
    BY <1>2, <2>1, <2>2, <2>3
  <2>5. builders' = Append(builders, b)
    BY <1>3 DEF b
  <2>6. BuildersOK'
    BY <2>2, <2>4, <2>5, BuildersBecome
  <2>7. Open(query, position) = Open(query, position - 1) + 1 /\ Open(query, position - 1) \in Int
    <3>1. position - 1 \in Nat /\ position - 1 + 1 = position
      BY <1>2
    <3> QED BY <1>2, <3>1, OpenIs
  <2>8. Len(builders') = 1 + Open(query, position) /\ Len(builders') >= 1
    BY <1>2, <2>2, <2>5, <2>7
  <2> QED BY <1>2, <1>3, <2>6, <2>8, Visited
<1>4. CASE GqlError
  BY <1>2, <1>4, GraphqlThrows DEF GqlError
<1> QED BY <1>3, <1>4 DEF VisitObject

(* A scalar field is added to the items of the instances there are now.    *)
LEMMA SupplementedOK ==
  ASSUME InstancesInv, NEW b, NEW k, k # 1, BuilderOK(b, k), NEW field \in Members
  PROVE  BuilderOK([b EXCEPT !.fragment = Supplemented(b, field)], k)
<1> DEFINE f == Supplemented(b, field)
           new == [b EXCEPT !.fragment = f]
<1>1. EntityBuilderOK(b, k) /\ FragmentOK(b.fragment) /\ DOMAIN b = {"entity", "relation", "fragment"}
  BY DEF BuilderOK
<1>2. DOMAIN f = DOMAIN b.fragment \cup InstancesOf(b.entity)
  BY DEF Supplemented
<1>3. ASSUME NEW i \in DOMAIN f
      PROVE  ItemOK(f[i], i)
  <2> DEFINE item == IF i \in DOMAIN b.fragment THEN b.fragment[i] ELSE Null
  <2>1. f[i] = IF i \in InstancesOf(b.entity) THEN PushBack(item, field, i) ELSE item
    BY <1>2, <1>3 DEF Supplemented
  <2>2. ItemOK(item, i)
    <3>1. CASE i \in DOMAIN b.fragment
      BY <1>1, <3>1 DEF FragmentOK
    <3>2. CASE i \notin DOMAIN b.fragment
      <4>1. arrived # {}
        BY <1>1, <1>2, <1>3, <3>2 DEF EntityBuilderOK
      <4> QED BY <3>2, <4>1, NullOK
    <3> QED BY <3>1, <3>2
  <2> HIDE DEF item, f
  <2>3. field # "IP"
    BY DEF Members
  <2>4. ItemOK(PushBack(item, field, i), i)
    BY <2>2, <2>3, PushedOK
  <2> QED BY <2>1, <2>2, <2>4
<1> HIDE DEF f
<1>4. /\ DOMAIN new = {"entity", "relation", "fragment"}
      /\ new.entity = b.entity /\ new.relation = b.relation /\ new.fragment = f
  BY <1>1
<1> HIDE DEF new
<1>5. FragmentOK(new.fragment)
  BY <1>3, <1>4 DEF FragmentOK
<1>6. InstancesOf(b.entity) \subseteq Instances \cap Seen
  BY DEF InstancesOf, InstancesInv, Seen
<1>7. EntityBuilderOK(new, k)
  BY <1>1, <1>2, <1>4, <1>6 DEF EntityBuilderOK
<1>8. BuilderOK(new, k)
  BY <1>4, <1>5, <1>7 DEF BuilderOK
<1> QED BY <1>8 DEF new, f

LEMMA GraphqlScalar ==
  ASSUME InstancesInv, GraphqlInv, VisitScalar, UNCHANGED instanceVars
  PROVE  GraphqlInv'
<1>1. Visiting("scalar")
  BY DEF VisitScalar
<1>2. /\ outcome = "visit" /\ unpushed = {}
      /\ Len(query) \in Nat /\ position \in 1..Len(query) /\ query[position][1] = "scalar"
      /\ Len(builders) = 1 + Open(query, position - 1)
      /\ Len(builders) \in Nat /\ Len(builders) >= 1
      /\ IsSeq(builders) /\ BuildersOK
  BY <1>1, VisitingIs
<1>3. CASE /\ Top.entity # Operation /\ Visit[2] \in Members
           /\ builders' = [builders EXCEPT ![Len(builders)].fragment = Supplemented(Top, Visit[2])]
           /\ position' = position + 1
           /\ UNCHANGED <<query, outcome, unpushed>>
  <2> DEFINE n == Len(builders)
             b == [Top EXCEPT !.fragment = Supplemented(Top, Visit[2])]
             B == ReplaceAt(builders, n, b)
  <2>1. builders' = B
    BY <1>3 DEF Top, ReplaceAt
  <2>2. BuilderOK(Top, n) /\ n # 1
    BY <1>2, <1>3, TopIs
  <2>3. BuilderOK(b, n)
    BY <1>3, <2>2, SupplementedOK
  <2> HIDE DEF b
  <2>4. /\ IsSeq(B) /\ Len(B) = n
        /\ \A k \in 1..n : B[k] = IF k = n THEN b ELSE builders[k]
    <3>1. n \in 1..n
      BY <1>2
    <3> QED BY <1>2, <3>1, SeqReplace
  <2> HIDE DEF B
  <2>5. \A k \in 1..Len(B) : BuilderOK(B[k], k)
    BY <1>2, <2>3, <2>4 DEF BuildersOK
  <2>6. BuildersOK'
    BY <2>1, <2>4, <2>5, BuildersBecome
  <2>7. Open(query, position) = Open(query, position - 1)
    <3>1. position - 1 \in Nat /\ position - 1 + 1 = position
      BY <1>2
    <3> QED BY <1>2, <3>1, OpenIs
  <2>8. Len(builders') = 1 + Open(query, position) /\ Len(builders') >= 1
    BY <1>2, <2>1, <2>4, <2>7
  <2> QED BY <1>2, <1>3, <2>6, <2>8, Visited
<1>4. CASE GqlError
  BY <1>2, <1>4, GraphqlThrows DEF GqlError
<1> QED BY <1>3, <1>4 DEF VisitScalar
----------------------------------------------------------------------------
(* The end of a selection set: what the set has open is more than nothing. *)
LEMMA LeavingIs ==
  ASSUME GraphqlInv, outcome = "visit", position <= Len(query), Visit[1] = "leave"
  PROVE  /\ Len(query) \in Nat /\ position \in 1..Len(query)
         /\ Len(builders) \in Nat /\ Len(builders) > 1
         /\ Len(builders) - 1 = 1 + Open(query, position)
<1>1. /\ IsQuery(query) /\ position \in 1..(Len(query) + 1)
      /\ Len(builders) = 1 + Open(query, position - 1)
  BY DEF GraphqlInv, VisitInv
<1>2. Len(query) \in Nat /\ position \in 1..Len(query) /\ DOMAIN query = 1..Len(query)
  BY <1>1 DEF IsQuery
<1>3. Len(builders) \in Nat
  BY SeqIs DEF GraphqlInv, BuildersOK
<1>4. Open(query, position - 1) > 0
  BY <1>1, <1>2 DEF IsQuery, Visit
<1>5. Open(query, position) = Open(query, position - 1) - 1 /\ Open(query, position - 1) \in Int
  <2>1. position - 1 \in Nat /\ position - 1 + 1 = position
    BY <1>2
  <2> QED BY <2>1, OpenIs DEF Visit
<1> QED BY <1>1, <1>2, <1>3, <1>4, <1>5

(* The builders but the last one are OK when all of them are.              *)
LEMMA FrontOK ==
  ASSUME NEW B, IsSeq(B), Len(B) > 1, \A k \in 1..Len(B) : BuilderOK(B[k], k)
  PROVE  /\ IsSeq(Front(B)) /\ Len(Front(B)) = Len(B) - 1
         /\ \A k \in 1..Len(Front(B)) : BuilderOK(Front(B)[k], k)
<1>1. Len(B) \in Nat
  BY SeqIs
<1>2. /\ IsSeq(Front(B)) /\ Len(Front(B)) = Len(B) - 1
      /\ \A k \in 1..(Len(B) - 1) : Front(B)[k] = B[k]
  BY <1>1, SeqFront
<1> QED BY <1>1, <1>2

LEMMA GraphqlLeaves ==
  ASSUME InstancesInv, GraphqlInv, EndVisitObject, UNCHANGED instanceVars
  PROVE  GraphqlInv'
<1>1. /\ outcome = "visit" /\ unpushed = {} /\ position <= Len(query) /\ Visit[1] = "leave"
      /\ UNCHANGED <<query, outcome>>
  BY DEF EndVisitObject, Visiting
<1>2. /\ Len(query) \in Nat /\ position \in 1..Len(query)
      /\ Len(builders) \in Nat /\ Len(builders) > 1
      /\ Len(builders) - 1 = 1 + Open(query, position)
  BY <1>1, LeavingIs
<1>3. CASE unpushed' = DOMAIN Parent.fragment /\ UNCHANGED <<position, builders>>
  <2>1. VisitInv'
    <3>1. Parent' = Parent /\ Visit' = Visit
      BY <1>1, <1>3 DEF Parent, Visit
    <3> QED BY <1>1, <1>2, <1>3, <3>1 DEF GraphqlInv, VisitInv
  <2>2. NothingBroken'
    BY <1>1 DEF GraphqlInv, NothingBroken, instanceVars
  <2> QED BY <1>3, <2>1, <2>2, BuildersUnchanged DEF GraphqlInv
<1>4. CASE builders' = Front(builders) /\ position' = position + 1 /\ UNCHANGED unpushed
  <2>1. /\ IsSeq(Front(builders)) /\ Len(Front(builders)) = Len(builders) - 1
        /\ \A k \in 1..Len(Front(builders)) : BuilderOK(Front(builders)[k], k)
    BY <1>2, FrontOK DEF GraphqlInv, BuildersOK
  <2>2. BuildersOK'
    BY <1>4, <2>1, BuildersBecome
  <2>3. Len(builders') = 1 + Open(query, position) /\ Len(builders') >= 1
    BY <1>2, <1>4, <2>1
  <2> QED BY <1>1, <1>4, <2>2, <2>3, Visited
<1> QED BY <1>3, <1>4 DEF EndVisitObject

(* What a parent's item gets below the addresses is its own, or it left.   *)
LEMMA OwnAddresses ==
  ASSUME InstancesInv, BuildersOK, Len(builders) > 1, NEW p \in DOMAIN Parent.fragment,
         p # Operation, Top.entity = "IP", NEW r \in FragmentInstances(p)
  PROVE  Owner[r] = p \/ p \in departed
<1>1. Len(builders) \in Nat /\ EntityBuilderOK(Top, Len(builders))
  BY TopIs, SeqIs DEF BuildersOK
<1>2. Len(builders) # 2 /\ EntityBuilderOK(Parent, Len(builders) - 1)
  BY <1>1, ParentIs DEF BuilderOK
<1>3. Top.relation
  <2>1. Top.relation <=> Len(builders) > 2
    BY <1>1, Zenon DEF EntityBuilderOK
  <2>2. \A n \in Nat : n > 1 /\ n # 2 => n > 2
    OBVIOUS
  <2>3. Len(builders) > 2
    BY <1>1, <1>2, <2>2, Zenon
  <2> QED BY <2>1, <2>3, Zenon
<1>4. p \in Seen
  BY <1>2 DEF EntityBuilderOK
<1>5. r \in getRelatedInstances(p, "IP")
  BY <1>3 DEF FragmentInstances
<1> QED BY <1>4, <1>5 DEF getRelatedInstances, InstancesOf, GetConditions, Linked,
       relationToIp, Seen

LEMMA FilledOK ==
  ASSUME NEW b, NEW k, BuilderOK(b, k), NEW p \in DOMAIN b.fragment, NEW item, ItemOK(item, p)
  PROVE  /\ BuilderOK([b EXCEPT !.fragment = [b.fragment EXCEPT ![p] = item]], k)
         /\ DOMAIN [b EXCEPT !.fragment = [b.fragment EXCEPT ![p] = item]].fragment
               = DOMAIN b.fragment
<1> DEFINE f == [b.fragment EXCEPT ![p] = item]
           new == [b EXCEPT !.fragment = f]
<1>1. FragmentOK(b.fragment) /\ DOMAIN b = {"entity", "relation", "fragment"}
  BY DEF BuilderOK
<1>2. DOMAIN f = DOMAIN b.fragment
      /\ \A q \in DOMAIN b.fragment : f[q] = IF q = p THEN item ELSE b.fragment[q]
  OBVIOUS
<1>3. FragmentOK(f)
  BY <1>1, <1>2 DEF FragmentOK
<1> HIDE DEF f
<1>4. /\ DOMAIN new = {"entity", "relation", "fragment"}
      /\ new.entity = b.entity /\ new.relation = b.relation /\ new.fragment = f
  BY <1>1
<1> HIDE DEF new
<1>5. DOMAIN new.fragment = DOMAIN b.fragment
  BY <1>2, <1>4
<1>6. EntityBuilderOK(b, k) => EntityBuilderOK(new, k)
  BY <1>4, <1>5 DEF EntityBuilderOK
<1>7. BuilderOK(new, k)
  BY <1>3, <1>4, <1>5, <1>6 DEF BuilderOK
<1> QED BY <1>5, <1>7 DEF new, f

LEMMA GraphqlPushes ==
  ASSUME InstancesInv, GraphqlInv, outcome = "visit", NEW p \in unpushed,
         PushFragment(p), UNCHANGED instanceVars
  PROVE  GraphqlInv'
<1> DEFINE n == Len(builders)
           S == FragmentInstances(p)
           pushed == PushBack(Parent.fragment[p], Top.entity, FragmentOf(S))
           b == [Parent EXCEPT !.fragment = [Parent.fragment EXCEPT ![p] = pushed]]
           filled == ReplaceAt(builders, n - 1, b)
<1>1. /\ position <= Len(query) /\ Visit[1] = "leave" /\ unpushed \subseteq DOMAIN Parent.fragment
      /\ BuildersOK /\ IsSeq(builders)
  BY DEF GraphqlInv, VisitInv, BuildersOK
<1>2. /\ Len(query) \in Nat /\ position \in 1..Len(query)
      /\ n \in Nat /\ n > 1 /\ n - 1 = 1 + Open(query, position)
  BY <1>1, LeavingIs
<1>3. /\ unpushed' = unpushed \ {p} /\ UNCHANGED <<query, outcome>>
      /\ IF unpushed' = {} THEN builders' = Front(filled) /\ position' = position + 1
                           ELSE builders' = filled /\ UNCHANGED position
  <2>1. [builders EXCEPT ![n - 1].fragment[p] = pushed] = filled
    BY DEF ReplaceAt, Parent
  <2> HIDE DEF filled
  <2> QED BY <2>1 DEF PushFragment
<1>4. BuilderOK(Parent, n - 1)
  BY <1>1, <1>2, ParentIs
<1>5. ItemOK(pushed, p)
  <2>1. ItemOK(Parent.fragment[p], p)
    BY <1>1, <1>4 DEF BuilderOK, FragmentOK
  <2>2. DOMAIN FragmentOf(S).items = S
    BY DEF FragmentOf
  <2>3. p # Operation /\ Top.entity = "IP" =>
           \A r \in DOMAIN FragmentOf(S).items : Owner[r] = p \/ p \in departed
    BY <1>1, <1>2, <2>2, OwnAddresses
  <2> QED BY <2>1, <2>3, PushedOK
<1> HIDE DEF pushed, S
<1>6. BuilderOK(b, n - 1) /\ DOMAIN b.fragment = DOMAIN Parent.fragment
  BY <1>1, <1>4, <1>5, FilledOK
<1> HIDE DEF b
<1>7. /\ IsSeq(filled) /\ Len(filled) = n
      /\ \A k \in 1..n : filled[k] = IF k = n - 1 THEN b ELSE builders[k]
  <2>1. n - 1 \in 1..n
    BY <1>2
  <2> QED BY <1>1, <2>1, SeqReplace
<1> HIDE DEF filled
<1>8. \A k \in 1..Len(filled) : BuilderOK(filled[k], k)
  BY <1>1, <1>6, <1>7 DEF BuildersOK
<1>9. CASE unpushed' = {}
  <2>1. /\ IsSeq(Front(filled)) /\ Len(Front(filled)) = Len(filled) - 1
        /\ \A k \in 1..Len(Front(filled)) : BuilderOK(Front(filled)[k], k)
    BY <1>2, <1>7, <1>8, FrontOK
  <2>2. BuildersOK'
    BY <1>3, <1>9, <2>1, BuildersBecome
  <2>3. Len(builders') = 1 + Open(query, position) /\ Len(builders') >= 1
    BY <1>2, <1>3, <1>7, <1>9, <2>1
  <2> QED BY <1>1, <1>3, <1>9, <2>2, <2>3, Visited
<1>10. CASE unpushed' # {}
  <2>1. builders' = filled /\ UNCHANGED position
    BY <1>3, <1>10
  <2>2. BuildersOK'
    BY <1>7, <1>8, <2>1, BuildersBecome
  <2>3. Parent' = b
    <3>1. Parent' = filled[n - 1]
      BY <1>7, <2>1 DEF Parent
    <3> QED BY <1>2, <1>7, <3>1
  <2>4. VisitInv'
    <3>1. Visit' = Visit /\ Len(builders') = n
      BY <1>3, <1>7, <2>1 DEF Visit
    <3>2. unpushed' \subseteq DOMAIN (Parent').fragment
      BY <1>1, <1>3, <1>6, <2>3
    <3> QED BY <1>1, <1>2, <1>3, <2>1, <3>1, <3>2 DEF GraphqlInv, VisitInv
  <2>5. NothingBroken'
    BY <1>3 DEF GraphqlInv, NothingBroken, instanceVars
  <2> QED BY <2>2, <2>4, <2>5 DEF GraphqlInv
<1> QED BY <1>9, <1>10

(* Nothing is missing while nothing arrived: what is asked for now was     *)
(* there when the builder was made.                                        *)
LEMMA GraphqlMisses ==
  ASSUME InstancesInv, GraphqlInv, outcome = "visit", NEW p \in unpushed,
         MissingItem(p), UNCHANGED instanceVars
  PROVE  GraphqlInv'
<1>1. BuildersOK /\ Len(builders) > 1
  BY DEF GraphqlInv, VisitInv
<1>2. EntityBuilderOK(Top, Len(builders))
  BY <1>1, TopIs, SeqIs DEF BuildersOK
<1>3. FragmentInstances(p) \subseteq InstancesOf(Top.entity)
  BY DEF FragmentInstances, getRelatedInstances
<1>4. arrived # {}
  BY <1>2, <1>3 DEF MissingItem, HasAllItems, EntityBuilderOK
<1> QED BY <1>4, GraphqlThrows DEF MissingItem

LEMMA GraphqlUnwinds ==
  ASSUME InstancesInv, GraphqlInv, Unwind, UNCHANGED instanceVars
  PROVE  GraphqlInv'
<1>1. /\ outcome \in {"throws", "rangeThrows"} /\ BuildersOK /\ Len(builders) >= 1
      /\ UNCHANGED <<query, position, builders, unpushed>>
  BY DEF Unwind, GraphqlInv, VisitInv
<1>2. outcome' \in Ended
  BY DEF Unwind, Ended
<1>3. ASSUME arrived = {}
      PROVE  outcome' = "error"
  <2>1. outcome = "throws"
    BY <1>1, <1>3 DEF GraphqlInv, NothingBroken
  <2>2. Top.entity # Operation => HasAllItems(Top, InstancesOf(Top.entity))
    <3>1. Top.entity # Operation => EntityBuilderOK(Top, Len(builders))
      BY <1>1, TopIs
    <3> QED BY <1>3, <3>1 DEF EntityBuilderOK, HasAllItems
  <2> QED BY <2>1, <2>2 DEF Unwind
<1>4. Throw(outcome')
  BY <1>1 DEF Throw
<1>5. PICK exception : exception = outcome'
  OBVIOUS
<1> QED BY <1>1, <1>2, <1>3, <1>4, <1>5, GraphqlThrows DEF Throw

LEMMA GraphqlEnds ==
  ASSUME GraphqlInv, EndDocument, UNCHANGED instanceVars
  PROVE  GraphqlInv'
<1>1. outcome = "visit" /\ Throw("answered")
  BY DEF EndDocument, Throw
<1> QED BY <1>1, GraphqlThrows DEF Ended

LEMMA GraphqlSteps ==
  ASSUME InstancesInv, GraphqlInv, GraphqlStep, UNCHANGED instanceVars
  PROVE  GraphqlInv'
<1>1. CASE Push
  BY <1>1, GraphqlPushes, GraphqlMisses DEF Push
<1> QED BY <1>1, GraphqlEnters, GraphqlScalar, GraphqlLeaves, GraphqlUnwinds, GraphqlEnds
       DEF GraphqlStep
----------------------------------------------------------------------------
(* The router: a handler is idle until its request runs, and the graphql   *)
(* handler only gets what the parser made.                                 *)
RouterInv ==
  /\ stage \in {"received", "routed", "running", "answered"}
  /\ incoming \in Requests
  /\ stage \in {"received", "routed"} => phase = "idle" /\ outcome = "idle"
  /\ handler = "graphql" => IsQuery(incoming.target)

ApiInv == RouterInv /\ InstancesInv /\ RedfishInv /\ GraphqlInv

LEMMA QueriesAreQueries ==
  ASSUME incoming \in Requests, incoming.uri = "graphql"
  PROVE  IsQuery(incoming.target)
<1>1. incoming.target \in Queries \cup {<<>>}
  BY DEF Requests
<1> QED BY <1>1, QueriesAssumption, NoQuery

LEMMA InvInitially ==
  ASSUME Init
  PROVE  ApiInv
<1>1. RouterInv
  BY DEF Init, RouterInv, RedfishInit, GraphqlInit
<1>2. InstancesInv
  BY InstancesAssumption DEF Init, InstancesInit, InstancesInv
<1>3. RedfishInv /\ GraphqlInv
  BY RedfishInitially, GraphqlInitially DEF Init
<1> QED BY <1>1, <1>2, <1>3 DEF ApiInv

LEMMA InstancesUnchanged ==
  ASSUME InstancesInv, UNCHANGED instanceVars
  PROVE  InstancesInv'
  BY DEF InstancesInv, instanceVars

(* Steps of the router alone.                                              *)
LEMMA InvRouted ==
  ASSUME ApiInv, UNCHANGED <<requestVars, queryVars, instanceVars>>, RouterInv'
  PROVE  ApiInv'
  BY InstancesUnchanged, RedfishUnchanged, GraphqlUnchanged DEF ApiInv

LEMMA IdleUnchanged ==
  ASSUME UNCHANGED <<requestVars, queryVars>>
  PROVE  UNCHANGED <<phase, outcome>>
  BY DEF requestVars, queryVars

LEMMA InvNext ==
  ASSUME ApiInv, [Next]_vars
  PROVE  ApiInv'
<1> USE DEF ApiInv
<1>1. CASE PreHandler /\ UNCHANGED instanceVars
  <2>1. /\ stage' = "routed" /\ UNCHANGED <<incoming, requestVars, queryVars>>
        /\ handler' = "graphql" => incoming.uri = "graphql"
        /\ stage = "received"
    BY <1>1 DEF PreHandler
  <2>2. RouterInv'
    BY <2>1, QueriesAreQueries, IdleUnchanged DEF RouterInv
  <2> QED BY <1>1, <2>1, <2>2, InvRouted
<1>2. CASE Reject /\ UNCHANGED instanceVars
  <2>1. RouterInv'
    BY <1>2 DEF Reject, Unauthorized, NoHandler, Respond, RouterInv
  <2> QED BY <1>2, <2>1, InvRouted DEF Reject
<1>3. CASE Run /\ UNCHANGED instanceVars
  <2>1. /\ stage = "routed" /\ stage' = "running" /\ UNCHANGED <<incoming, handler>>
    BY <1>3 DEF Run
  <2>2. RouterInv' /\ phase = "idle" /\ outcome = "idle" /\ InstancesInv'
    BY <1>3, <2>1, InstancesUnchanged DEF RouterInv
  <2>3. CASE handler = "graphql" /\ RunGraphql(incoming.target) /\ UNCHANGED requestVars
    <3>1. IsQuery(incoming.target)
      BY <2>3 DEF RouterInv
    <3>2. PICK q : q = incoming.target
      OBVIOUS
    <3>3. GraphqlInv'
      BY <1>3, <2>2, <2>3, <3>1, <3>2, GraphqlRuns
    <3> QED BY <1>3, <2>2, <2>3, <3>3, RedfishUnchanged
  <2>4. ASSUME NEW req, RunRedfish(req), UNCHANGED queryVars
        PROVE  ApiInv'
    BY <1>3, <2>2, <2>4, RedfishRuns, GraphqlUnchanged
  <2> QED BY <1>3, <2>3, <2>4 DEF Run
<1>4. CASE Handle /\ UNCHANGED instanceVars
  <2>1. RouterInv' /\ InstancesInv'
    BY <1>4, InstancesUnchanged DEF Handle, RouterInv
  <2>2. CASE GraphqlStep /\ UNCHANGED requestVars
    BY <1>4, <2>1, <2>2, GraphqlSteps, RedfishUnchanged
  <2>3. CASE RedfishStep /\ UNCHANGED queryVars
    BY <1>4, <2>1, <2>3, RedfishSteps, GraphqlUnchanged
  <2> QED BY <1>4, <2>2, <2>3 DEF Handle
<1>5. CASE Reply /\ UNCHANGED instanceVars
  <2>1. RouterInv'
    BY <1>5 DEF Reply, Respond, RouterInv
  <2> QED BY <1>5, <2>1, InvRouted DEF Reply
<1>6. CASE DBusThread
  <2>1. RouterInv'
    BY <1>6 DEF DBusThread, RouterInv
  <2>2. InstancesInv' /\ RedfishInv' /\ GraphqlInv'
    BY <1>6, InstancesStep, RedfishWhileInstancesChange, GraphqlWhileInstancesChange
       DEF DBusThread
  <2> QED BY <2>1, <2>2
<1>7. CASE UNCHANGED vars
  <2>1. UNCHANGED <<requestVars, queryVars, instanceVars, stage, incoming, handler>>
    BY <1>7 DEF vars
  <2>2. RouterInv'
    BY <2>1, IdleUnchanged DEF RouterInv
  <2> QED BY <2>1, <2>2, InvRouted
<1> QED BY <1>1, <1>2, <1>3, <1>4, <1>5, <1>6, <1>7 DEF Next, RequestStep

LEMMA InvHolds == Spec => []ApiInv
<1>1. Init => ApiInv
  BY InvInitially
<1>2. ApiInv /\ [Next]_vars => ApiInv'
  BY InvNext
<1> QED BY <1>1, <1>2, PTL DEF Spec

----------------------------------------------------------------------------
(* What the router passes to the Redfish tree is a path below its root.    *)
ResolveInv ==
  /\ handler = "redfish" => GoodPath(incoming.target)
  /\ NameInv /\ SpellsInv /\ SoughtInv /\ QuietInv

LEMMA PathsArePaths ==
  ASSUME incoming \in Requests, incoming.uri = "tree"
  PROVE  GoodPath(incoming.target)
<1>1. incoming.target \in Paths
  BY DEF Requests
<1> QED BY <1>1, PathsAssumption DEF GoodPath

LEMMA ResolveInitially ==
  ASSUME Init
  PROVE  ResolveInv
<1>1. /\ phase = "idle" /\ node = None /\ parameterCtx = None
      /\ status = "none" /\ handler = "none" /\ DOMAIN body = {}
  BY DEF Init, RedfishInit
<1>2. NameInv
  BY InstancesAssumption DEF Init, InstancesInit, NameInv
<1>3. QuietInv
  BY <1>1, NoneIsNothing DEF QuietInv, MembersOK
<1> QED BY <1>1, <1>2, <1>3 DEF ResolveInv, SpellsInv, SoughtInv

LEMMA NameUnchanged ==
  ASSUME NameInv, UNCHANGED instanceVars
  PROVE  NameInv'
  BY DEF NameInv, instanceVars

LEMMA ResolveNext ==
  ASSUME ApiInv, ResolveInv, [Next]_vars
  PROVE  ResolveInv'
<1> USE DEF ApiInv, ResolveInv
<1>1. CASE PreHandler /\ UNCHANGED instanceVars
  <2>1. /\ UNCHANGED <<incoming, requestVars>>
        /\ handler' = "redfish" => incoming.uri = "tree"
    BY <1>1 DEF PreHandler
  <2>2. handler' = "redfish" => GoodPath(incoming'.target)
    BY <2>1, PathsArePaths DEF RouterInv
  <2> QED BY <1>1, <2>1, <2>2, SpellsUnchanged, QuietUnchanged, NameUnchanged
<1>2. CASE (Reject \/ Reply) /\ UNCHANGED instanceVars
  <2>1. UNCHANGED <<incoming, handler, requestVars>>
    BY <1>2 DEF Reject, Reply
  <2> QED BY <1>2, <2>1, SpellsUnchanged, QuietUnchanged, NameUnchanged
<1>3. CASE Run /\ UNCHANGED instanceVars
  <2>1. /\ phase = "idle" /\ UNCHANGED <<incoming, handler>>
        /\ \/ UNCHANGED requestVars
           \/ /\ handler = "redfish"
              /\ RunRedfish([method |-> incoming.method, path |-> incoming.target])
    BY <1>3 DEF Run, RouterInv
  <2>2. ASSUME NEW req, RunRedfish(req), GoodPath(req.path)
        PROVE  SpellsInv' /\ SoughtInv' /\ QuietInv'
    BY <2>1, <2>2, SpellsRunning, QuietRunning
  <2>3. SpellsInv' /\ SoughtInv' /\ QuietInv'
    BY <1>3, <2>1, <2>2, SpellsUnchanged, QuietUnchanged
  <2> QED BY <1>3, <2>1, <2>3, NameUnchanged
<1>4. CASE Handle /\ UNCHANGED instanceVars
  <2>1. UNCHANGED <<incoming, handler>> /\ (UNCHANGED requestVars \/ RedfishStep)
    BY <1>4 DEF Handle
  <2> QED BY <1>4, <2>1, SpellsSteps, QuietSteps, SpellsUnchanged, QuietUnchanged, NameUnchanged
<1>5. CASE DBusThread
  <2>1. UNCHANGED <<incoming, handler, requestVars>> /\ InstancesChange
    BY <1>5 DEF DBusThread
  <2> QED BY <2>1, SpellsWhileInstancesChange, QuietWhileInstancesChange
<1>6. CASE UNCHANGED vars
  <2>1. UNCHANGED <<requestVars, instanceVars, incoming, handler>>
    BY <1>6 DEF vars
  <2> QED BY <2>1, SpellsUnchanged, QuietUnchanged, NameUnchanged
<1> QED BY <1>1, <1>2, <1>3, <1>4, <1>5, <1>6 DEF Next, RequestStep

LEMMA ResolveHolds == Spec => []ResolveInv
<1>1. Init => ResolveInv
  BY ResolveInitially
<1>2. ApiInv /\ ResolveInv /\ [Next]_vars => ResolveInv'
  BY ResolveNext
<1> QED BY <1>1, <1>2, InvHolds, PTL DEF Spec

----------------------------------------------------------------------------
(* Whatever the tree, the queries and the instances, and however often the *)
(* dbus thread adds, removes and renames instances while a request runs,   *)
(* the state of both handlers is what their code expects: a child index of *)
(* the parent that is resolved, verified instances of the entity of their  *)
(* node, one builder for each open selection set, below the operation's.   *)
THEOREM ApiTypes == Spec => []ApiTypeOK
<1>1. ApiInv => RedfishTypeOK
  BY DEF ApiInv, RedfishInv, RedfishParts, PhaseInv, RedfishTypeOK, TypedParameters, SeenInstance
<1>2. ApiInv => GraphqlTypeOK
  <2> SUFFICES ASSUME ApiInv PROVE GraphqlTypeOK
    OBVIOUS
  <2>1. VisitInv /\ BuildersOK
    BY DEF ApiInv, GraphqlInv
  <2>2. DOMAIN builders = 1..Len(builders)
    BY <2>1, SeqIs DEF BuildersOK
  <2>3. \A k \in DOMAIN builders :
           /\ builders[k].entity \in Entities \cup {Operation}
           /\ DOMAIN builders[k].fragment \subseteq Instances \cup {Operation}
    BY <2>1, <2>2 DEF BuildersOK, BuilderOK, EntityBuilderOK
  <2> QED BY <2>1, <2>3 DEF VisitInv, GraphqlTypeOK
<1>3. ApiInv => ApiTypeOK
  BY <1>1, <1>2 DEF ApiInv, ApiTypeOK, RouterInv, InstancesInv
<1> QED BY <1>3, InvHolds, PTL

(* The status of a Redfish answer is OK exactly when it has no error and   *)
(* no member of its own is annotated, whichever getters of the node failed *)
(* and whatever was filled after them.                                     *)
THEOREM StatusTells == Spec => []StatusTellsFailure
<1>1. ApiInv => StatusTellsFailure
  BY DEF ApiInv, RedfishInv
<1> QED BY <1>1, InvHolds, PTL

(* The addresses either API shows below an interface are its own, unless   *)
(* the interface left the cache while the request was answered.            *)
THEOREM ShowsRelatedOnly == Spec => []RelatedOnly
<1>1. ApiInv => OwnChildren
  <2> SUFFICES ASSUME ApiInv,
                      NEW b \in Range(builders), NEW p \in DOMAIN b.fragment \ {Operation},
                      "IP" \in DOMAIN b.fragment[p].members,
                      NEW r \in DOMAIN b.fragment[p].members["IP"].items
               PROVE  Owner[r] = p \/ p \in departed
    BY DEF OwnChildren
  <2>1. BuildersOK
    BY DEF ApiInv, GraphqlInv
  <2>2. PICK k \in 1..Len(builders) : b = builders[k]
    BY <2>1, SeqIs DEF BuildersOK, Range
  <2>3. ItemOK(b.fragment[p], p)
    BY <2>1, <2>2 DEF BuildersOK, BuilderOK, FragmentOK
  <2> QED BY <2>3 DEF ItemOK
<1>2. ApiInv => RelatedOnly
  BY <1>1 DEF ApiInv, RedfishInv, RelatedOnly
<1> QED BY <1>2, InvHolds, PTL

(* When nothing arrived while a query was answered, it ends in an answer   *)
(* or an error and shows objects only: every builder still has an item for *)
(* each instance its fragment is asked for.                                *)
THEOREM OnlyArrivals == Spec => []OnlyArrivalsBreak
<1>1. ApiInv => OnlyArrivalsBreak
  <2> SUFFICES ASSUME ApiInv, arrived = {}
               PROVE  /\ outcome \notin {"rangeThrows", "escaped", "terminated"}
                      /\ \A item \in Items : item.shape = "object"
    BY DEF OnlyArrivalsBreak
  <2>1. BuildersOK /\ NothingBroken
    BY DEF ApiInv, GraphqlInv
  <2>2. ASSUME NEW item \in Items
        PROVE  item.shape = "object"
    <3>1. PICK b \in Range(builders) : \E i \in DOMAIN b.fragment : item = b.fragment[i]
      BY <2>2 DEF Items
    <3>2. PICK k \in 1..Len(builders) : b = builders[k]
      BY <2>1, <3>1, SeqIs DEF BuildersOK, Range
    <3>3. FragmentOK(b.fragment)
      BY <2>1, <3>2 DEF BuildersOK, BuilderOK
    <3> QED BY <3>1, <3>3 DEF FragmentOK, ItemOK
  <2> QED BY <2>1, <2>2 DEF NothingBroken
<1> QED BY <1>1, InvHolds, PTL

(* The node that answers is one whose whole path, prefix included, is in   *)
(* the URI; and a URI that spells a node is not answered with NotFound     *)
(* when all the instances it names were there, under their names, all the  *)
(* time: what fits at one child fits at none of its siblings, and a node   *)
(* with a prefix has none, so nothing is compared behind a prefix that     *)
(* another child has consumed.                                             *)
THEOREM ResolvesSpelled == Spec => []ResolvesAsSpelled
<1>1. ResolveInv => ResolvesAsSpelled
  BY DEF ResolveInv, SpellsInv, SoughtInv, Sought, ResolvesAsSpelled
<1> QED BY <1>1, ResolveHolds, PTL

(* Every member a collection lists while nothing changes is a URI that     *)
(* resolves: the conversions of a name without underscore and slash cancel *)
(* each other out, what is listed is what the member node accepts, and the *)
(* parameters before it have found what they were compared with.           *)
THEOREM ListedMembersResolve == Spec => []MembersResolve
<1>1. ResolveInv => MembersResolve
  <2> SUFFICES ASSUME ResolveInv, "Members" \in DOMAIN body, changes = 0,
                      NEW u \in body["Members"].uris, NEW i \in body["Members"].of,
                      u = MemberUri(MemberNode, i)
               PROVE  MemberFound(u, i)
    BY DEF MembersResolve, MemberFound
  <2>1. MemberFound(MemberUri(MemberNode, i), i)
    BY DEF ResolveInv, QuietInv, MembersOK
  <2> HIDE DEF MemberFound, MemberUri, MemberNode
  <2> QED BY <2>1
<1> QED BY <1>1, ResolveHolds, PTL
=============================================================================
