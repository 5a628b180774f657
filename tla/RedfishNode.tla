------------------------------ MODULE RedfishNode ------------------------------
(***************************************************************************)
(* One request to the Redfish tree: the path is resolved node by node,     *)
(* parameters are verified against the instances of an entity, then the    *)
(* getters of the node fill the answer one after another.  Instances come  *)
(* and go between the steps.                                               *)
(*                                                                         *)
(* The tree is the part of the generated one with every construct: static  *)
(* segments, a static prefix, parameters of related entities, collections, *)
(* fragments, links.  The other branches repeat these constructs.          *)
(***************************************************************************)
EXTENDS LiveInstances

CONSTANTS None

VARIABLES request,     \* [method, path]
          phase,       \* what RedfishRouter::run is doing
          parent,      \* the node whose children are tried
          child,       \* index of the child that is tried
          depth,       \* the segment it is compared with
          parameterCtx,\* the instance of the last verified parameter
          parameters,  \* parameter node -> verified instance and value
          node,        \* the node found
          target,      \* getTargetInstance of a parameterized node
          getter,      \* index of the getter to process
          status,      \* of the response
          error,       \* the message in its error member
          noted,       \* annotated members: <<"top" or "inner", member>>
          body,        \* member -> the instances and uris it shows
          count        \* Members@odata.count

requestVars == <<request, phase, parent, child, depth, parameterCtx, parameters, node,
                 target, getter, status, error, noted, body, count>>

----------------------------------------------------------------------------
(* The tree.                                                               *)
Root == "RedfishRootNode"

Children ==
    [RedfishRootNode       |-> <<"RedfishV1">>,
     RedfishV1             |-> <<"CertificateService", "Chassis", "Managers">>,
     CertificateService    |-> <<"CertificateLocations">>,
     CertificateLocations  |-> <<>>,
     Chassis               |-> <<"ChassisNode">>,
     ChassisNode           |-> <<"Sensors">>,
     Sensors               |-> <<"SensorNode">>,
     SensorNode            |-> <<>>,
     Managers              |-> <<"BmcManager">>,
     BmcManager            |-> <<"NetworkProtocol", "EthernetInterfaces">>,
     NetworkProtocol       |-> <<"HTTPSCertificates">>,
     HTTPSCertificates     |-> <<"HTTPSCertificateEp">>,
     HTTPSCertificateEp    |-> <<>>,
     EthernetInterfaces    |-> <<"EthernetInterfaceNode">>,
     EthernetInterfaceNode |-> <<"VLANs">>,
     VLANs                 |-> <<"VLANNode">>,
     VLANNode              |-> <<>>]

Nodes == DOMAIN Children

TParameterEntity ==
    [ChassisNode |-> "Server", SensorNode |-> "Sensors", BmcManager |-> "BmcManager",
     HTTPSCertificateEp |-> "HTTPSCertificates", EthernetInterfaceNode |-> "Ethernet",
     VLANNode |-> "Ethernet"]

Parameterized == DOMAIN TParameterEntity
Collections   == {"Chassis", "Sensors", "Managers", "HTTPSCertificates",
                  "EthernetInterfaces", "VLANs"}

Segment(n) == CASE n = Root                -> <<"redfish">>
                [] n = "RedfishV1"         -> <<"v1">>
                [] n = "HTTPSCertificates" -> <<"Certificates">>
                [] OTHER                   -> <<n>>

(* None is no instance, no node and no message.                            *)
ASSUME RedfishAssumption ==
    None \notin Instances \cup Nodes \cup {"uriNotFound", "methodNotAllowed", "internalError"}

uriPrefix(n) == IF n = "HTTPSCertificates" THEN << <<"HTTPS">> >> ELSE <<>>

----------------------------------------------------------------------------
(* Names in an URI: blanks become underscores and back.                    *)
Replaced(n, old, new) == [k \in DOMAIN n |-> IF n[k] = old THEN new ELSE n[k]]
encodeUriSegment(n) == Replaced(n, " ", "_")
KeepsUnderscores(s) == s
decodeUriSegment(s) == Replaced(s, "_", " ")

(* A name with a slash in it makes two segments.                           *)
Segments(n) == IF "/" \in Range(n) THEN << <<Head(n)>>, <<Last(n)>> >> ELSE <<n>>

(* The member a parameter is compared with, and the node's own conditions. *)
ParameterField(n, i) == IF n = "VLANNode" THEN VlanName(i) ELSE name[i]

StaticConditions(n) == {i \in Instances : n = "EthernetInterfaceNode" => ~IsVlan(i)}

EntityCondition(n, value) ==
    {i \in StaticConditions(n) :
        /\ ParameterField(n, i) = decodeUriSegment(value)
        /\ n = "VLANNode" => IsVlan(i)}     \* a null field equals no string

(* RedfishContext::getInstances: through the relation of the verified      *)
(* instance, or the instance itself, or all that meet the condition.       *)
getInstances(entity, matching) ==
    IF parameterCtx = None THEN InstancesOf(entity) \cap matching
    ELSE IF Related(parameterCtx, entity)
    THEN LET found == getRelatedInstances(parameterCtx, entity) \cap matching
         IN  IF found = {} /\ EntityOf[parameterCtx] = entity THEN {parameterCtx} ELSE found
    ELSE IF EntityOf[parameterCtx] = entity THEN {parameterCtx} \cap matching
    ELSE InstancesOf(entity) \cap matching

----------------------------------------------------------------------------
(* Resolution.  Answer(s, e) ends the request with an error message.       *)
Answer(s, e) ==
    /\ phase' = "done" /\ status' = s /\ error' = e

NodeNotFound ==
    /\ Answer("NotFound", "uriNotFound")
    /\ UNCHANGED <<request, parent, child, depth, parameterCtx, parameters, node, target,
                   getter, noted, body, count>>

(* verifyStaticSegments advances the depth when the prefix is there.       *)
PrefixMatches(c) == IsPrefix(uriPrefix(c), SubSeq(request.path, depth + 1, Len(request.path)))

BeforePrefix(c) == depth
BehindPrefix(c) == IF PrefixMatches(c) THEN depth + Len(uriPrefix(c)) ELSE depth

SegmentMatches(c, d) ==
    PrefixMatches(c) /\ d < Len(request.path) /\ request.path[d + 1] = Segment(c)

verifyParameter(c, d) ==
    IF d < Len(request.path)
    THEN getInstances(TParameterEntity[c], EntityCondition(c, request.path[d + 1]))
    ELSE {}

matchEntirePattern(d) == d = Len(request.path) - 1

(* The child is the node, or its children are tried at the next segment.   *)
(* uriResolver of the child validates it once more and finds the same.     *)
EnterChild(c, d) ==
    /\ IF matchEntirePattern(d)
       THEN phase' = "build" /\ node' = c /\ UNCHANGED <<parent, child, status, error>>
       ELSE IF Children[c] = <<>>
       THEN Answer("NotFound", "uriNotFound") /\ UNCHANGED <<node, parent, child>>
       ELSE parent' = c /\ child' = 1 /\ UNCHANGED <<node, phase, status, error>>
    /\ depth' = d + 1
    /\ UNCHANGED <<request, target, getter, noted, body, count>>

EnterStatic(c) ==
    /\ c \notin Parameterized
    /\ SegmentMatches(c, BehindPrefix(c))
    /\ EnterChild(c, BehindPrefix(c))
    /\ UNCHANGED <<parameterCtx, parameters>>

EnterParameterized(c) ==
    /\ c \in Parameterized
    /\ \E i \in verifyParameter(c, BehindPrefix(c)) :
          /\ parameterCtx' = i
          /\ parameters' = Extended(parameters, c, [instance |-> i,
                                        value |-> request.path[BehindPrefix(c) + 1]])
    /\ EnterChild(c, BehindPrefix(c))

Rejected(c) ==
    IF c \in Parameterized THEN verifyParameter(c, BehindPrefix(c)) = {}
                           ELSE ~SegmentMatches(c, BehindPrefix(c))

AnySibling  == TRUE
SiblingLeft == child < Len(Children[parent])

(* The next sibling is compared behind the prefix this one has consumed.   *)
NextSibling ==
    /\ SiblingLeft
    /\ child' = child + 1
    /\ depth' = BehindPrefix(Children[parent][child])
    /\ UNCHANGED <<request, phase, parent, parameterCtx, parameters, node, target, getter,
                   status, error, noted, body, count>>

ForgetsLast   == child > Len(Children[parent])
NoSiblingLeft == child = Len(Children[parent])

nextChildResolver ==
    /\ phase = "resolve"
    /\ LET c == Children[parent][child]
       IN  \/ EnterStatic(c)
           \/ EnterParameterized(c)
           \/ Rejected(c) /\ NextSibling
           \/ Rejected(c) /\ NoSiblingLeft /\ NodeNotFound

(* The root is the node of a path of one segment.                          *)
RunRedfish(req) ==
    /\ phase' = IF Len(req.path) = 1 THEN "build" ELSE "resolve"
    /\ node' = IF Len(req.path) = 1 THEN Root ELSE None
    /\ request' = req
    /\ depth' = 1
    /\ status' = "BadRequest"
    /\ UNCHANGED <<parent, child, parameterCtx, parameters, target, getter, error, noted,
                   body, count>>

----------------------------------------------------------------------------
(* What a node answers, in the order of getFieldsGetters: collections and  *)
(* their size, links, fields of an entity, rows of a collection, objects.  *)
FieldsGetters(n) ==
    CASE n \in Collections          -> << <<"members", "Members">>, <<"count", "Members">> >>
      [] n = "RedfishV1"            -> << <<"field", "Server">> >>
      [] n = "CertificateLocations" -> << <<"links", "Certificates">> >>
      [] n = "NetworkProtocol"      -> << <<"field", "NetworkConfig">> >>
      [] n = "ChassisNode"          -> << <<"links", "ManagedBy">>, <<"field", "Server">> >>
      [] n = "BmcManager"           -> << <<"link", "ManagerInChassis">>,
                                          <<"field", "BmcManager">>, <<"field", "Server">> >>
      [] n = "EthernetInterfaceNode" -> << <<"field", "Ethernet">>, <<"field", "NetworkConfig">>,
                                          <<"rows", "IP">>, <<"object", "NetworkDHCPConfig">> >>
      [] n \in {"SensorNode", "HTTPSCertificateEp", "VLANNode"}
                                    -> << <<"field", TParameterEntity[n]>> >>
      [] OTHER                      -> <<>>

(* EntityGetter::getInstances: the target itself, what is related to it,   *)
(* or, without a target or a relation, every instance of the entity.       *)
SourceInstances(entity) ==
    IF target = None \/ (EntityOf[target] # entity /\ ~Related(target, entity))
    THEN InstancesOf(entity)
    ELSE IF EntityOf[target] = entity THEN {target} ELSE getRelatedInstances(target, entity)

(* The uris a collection or a link shows.                                  *)
MemberUri(n, i) ==
    request.path \o uriPrefix(n) \o Segments(encodeUriSegment(ParameterField(n, i)))

MemberNode == Children[node][1]

getAllSegmentValues ==
    getInstances(TParameterEntity[MemberNode], StaticConditions(MemberNode))

ManagerUri(m) == << <<"redfish">>, <<"v1">>, <<"Managers">> >> \o Segments(encodeUriSegment(name[m]))
ChassisUri(s) == << <<"redfish">>, <<"v1">>, <<"Chassis">> >> \o Segments(encodeUriSegment(name[s]))

AllOf(entity) == getInstances(entity, Instances)

(* Parameters are resolved in the order of their names, CertificateId      *)
(* first; the manager is not related to it, and all of them are taken.     *)
resolveTemplate(link) ==
    CASE link = "Certificates" ->
           {ManagerUri(m) \o << <<"NetworkProtocol">>, <<"HTTPS">>, <<"Certificates">> >>
                \o Segments(encodeUriSegment(name[c]))
              : m \in AllOf("BmcManager"), c \in AllOf("HTTPSCertificates")}
      [] link = "ManagedBy"        -> {ManagerUri(m) : m \in AllOf("BmcManager")}
      [] link = "ManagerInChassis" -> {ChassisUri(s) : s \in AllOf("Server")}

Put(key, shown, uris) == Extended(body, key, [of |-> shown, uris |-> uris])

----------------------------------------------------------------------------
(* process: only GET is implemented.                                       *)
MethodNotAllowed ==
    /\ phase = "build" /\ request.method # "GET"
    /\ Answer("MethodNotAllowed", "methodNotAllowed")
    /\ UNCHANGED <<target, getter>>

(* getFieldsGetters of a parameterized node asks for its target.           *)
Targets ==
    IF node \in Parameterized
    THEN getInstances(TParameterEntity[node], EntityCondition(node, Last(request.path)))
    ELSE {None}

MethodGet ==
    /\ phase = "build" /\ request.method = "GET"
    /\ target' \in Targets
    /\ phase' = "get" /\ getter' = 1 /\ status' = "OK"
    /\ UNCHANGED error

NoTarget ==
    /\ phase = "build" /\ request.method = "GET" /\ Targets = {}
    /\ Answer("InternalServerError", "internalError")
    /\ UNCHANGED <<target, getter>>

ProcessNode ==
    /\ MethodNotAllowed \/ MethodGet \/ NoTarget
    /\ UNCHANGED <<request, parent, child, depth, parameterCtx, parameters, node, noted,
                   body, count>>

Current(kind) ==
    /\ phase = "get" /\ getter <= Len(FieldsGetters(node))
    /\ FieldsGetters(node)[getter][1] = kind
    /\ getter' = getter + 1
    /\ UNCHANGED <<request, phase, parent, child, depth, parameterCtx, parameters, node,
                   target, error>>

Key == FieldsGetters(node)[getter][2]

(* ListReferences and CollectionSizeAnnotation.                            *)
GetMembers ==
    /\ Current("members")
    /\ body' = LET shown == getAllSegmentValues
               IN  Put(Key, shown, {MemberUri(MemberNode, i) : i \in shown})
    /\ UNCHANGED <<status, noted, count>>

PayloadSize == Cardinality(body["Members"].of)

GetCount ==
    /\ Current("count")
    /\ count' = PayloadSize
    /\ UNCHANGED <<status, noted, body>>

(* addGetter: without an instance the member is annotated and left out.    *)
NotesOnly == UNCHANGED status /\ noted' = noted \cup {<<"top", Key>>}
NotesTop  == status' = "InternalServerError" /\ noted' = noted \cup {<<"top", Key>>}

GetField ==
    /\ Current("field")
    /\ \/ /\ SourceInstances(Key) = {}
          /\ NotesTop
          /\ UNCHANGED body
       \/ \E i \in SourceInstances(Key) :
             body' = Put(Key, {i}, {}) /\ UNCHANGED <<status, noted>>
    /\ UNCHANGED count

(* The getters of an object answer into a context of their own, and only   *)
(* its payload is taken over, not its status.                              *)
GetObject ==
    /\ Current("object")
    /\ \/ /\ SourceInstances(Key) = {}
          /\ noted' = noted \cup {<<"inner", Key>>}
          /\ body' = Put(Key, {}, {})
       \/ \E i \in SourceInstances(Key) : body' = Put(Key, {i}, {}) /\ UNCHANGED noted
    /\ UNCHANGED <<status, count>>

GetRows ==
    /\ Current("rows")
    /\ body' = Put(Key, SourceInstances(Key), {})
    /\ UNCHANGED <<status, noted, count>>

(* A LinkObjectGetter shows one uri, a LinkCollectionGetter all of them.   *)
GetLink ==
    /\ Current("link")
    /\ \/ /\ resolveTemplate(Key) = {}
          /\ noted' = noted \cup {<<"inner", Key>>}
          /\ body' = Put(Key, {}, {})
       \/ \E u \in resolveTemplate(Key) : body' = Put(Key, {}, {u}) /\ UNCHANGED noted
    /\ UNCHANGED <<status, count>>

GetLinks ==
    /\ Current("links")
    /\ body' = Put(Key, {}, resolveTemplate(Key))
    /\ UNCHANGED <<status, noted, count>>

FlashPayload ==
    /\ phase = "get" /\ getter > Len(FieldsGetters(node))
    /\ phase' = "done"
    /\ UNCHANGED <<request, parent, child, depth, parameterCtx, parameters, node, target,
                   getter, status, error, noted, body, count>>

RedfishStep ==
    \/ nextChildResolver \/ ProcessNode
    \/ GetMembers \/ GetCount \/ GetField \/ GetObject \/ GetRows \/ GetLink \/ GetLinks
    \/ FlashPayload

RedfishInit ==
    /\ request = None /\ phase = "idle" /\ parent = Root /\ child = 1 /\ depth = 0
    /\ parameterCtx = None /\ parameters = <<>> /\ node = None /\ target = None
    /\ getter = 0 /\ status = "none" /\ error = None /\ noted = {}
    /\ body = <<>> /\ count = 0

----------------------------------------------------------------------------
(* The reference: the tree as a set of patterns, one for each node.        *)
ParentOf(n) == CHOOSE p \in Nodes : n \in Range(Children[p])

(* A static slot has no node, a parameter slot the node it belongs to.     *)
Slots(n) == [k \in DOMAIN uriPrefix(n) |-> [node |-> None, segment |-> uriPrefix(n)[k]]]
            \o IF n \in Parameterized THEN << [node |-> n, segment |-> None] >>
                                      ELSE << [node |-> None, segment |-> Segment(n)] >>

Pattern[n \in Nodes] == IF n = Root THEN Slots(n) ELSE Pattern[ParentOf(n)] \o Slots(n)

Spells(path, n) ==
    /\ Len(path) = Len(Pattern[n])
    /\ \A k \in DOMAIN path :
          Pattern[n][k].node = None => Pattern[n][k].segment = path[k]

(* There is an instance of that name in S for every parameter, a VLAN on   *)
(* the interface that the path names before it.                            *)
Named(path, n, S) ==
    \A k \in DOMAIN path : LET p == Pattern[n][k].node IN
        p # None => \E i \in S :
            /\ EntityOf[i] = TParameterEntity[p]
            /\ i \in EntityCondition(p, path[k])
            /\ p = "VLANNode" => \E e \in S : /\ EntityOf[e] = "Ethernet" /\ ~IsVlan(e)
                                             /\ name[e] = decodeUriSegment(path[k - 2])
                                             /\ relationToVLAN(e, i)

Lasting == {i \in live \ arrived : i \in DOMAIN Renamed => name[i] = InitialName[i]}

----------------------------------------------------------------------------
(* Types of the request's state.                                           *)
RedfishTypeOK ==
    /\ phase \in {"idle", "resolve", "build", "get", "done"}
    /\ parent \in Nodes /\ node \in Nodes \cup {None}
    /\ phase = "resolve" => child \in DOMAIN Children[parent]
    /\ {parameterCtx, target} \subseteq Instances \cup {None}
    /\ DOMAIN parameters \subseteq Parameterized
    /\ \A n \in DOMAIN parameters : EntityOf[parameters[n].instance] = TParameterEntity[n]
    /\ status \in {"none", "BadRequest", "OK", "NotFound", "MethodNotAllowed",
                   "InternalServerError"}
    /\ error \in {None, "uriNotFound", "methodNotAllowed", "internalError"}
    /\ \A k \in DOMAIN body : body[k].of \subseteq Instances

(* The node that answers is one whose whole path, prefix segments          *)
(* included, is spelled in the URI; and a URI that spells a node is found  *)
(* when all the instances it names were there all the time: nextChild-     *)
(* Resolver compares siblings behind a prefix another one has consumed.    *)
ResolvesAsSpelled ==
    /\ node # None => Spells(request.path, node)
    /\ status = "NotFound" =>
          ~ \E n \in Nodes : Spells(request.path, n) /\ Named(request.path, n, Lasting)

(* Every member a collection lists while nothing changes is a URI that     *)
(* resolves: IdReference writes prefix and encoded name, validateSegment   *)
(* reads them.  A name with an underscore is not restored, one with a      *)
(* slash makes two segments, and a physical interface without VLANs lists  *)
(* itself under the name N/A.                                              *)
MembersResolve ==
    phase = "done" /\ "Members" \in DOMAIN body /\ changes = 0 =>
        \A u \in body["Members"].uris, i \in body["Members"].of :
            u = MemberUri(MemberNode, i)
                => \/ {"_", "/"} \cap Range(name[i]) # {}
                   \/ MemberNode = "VLANNode" /\ ~IsVlan(i)
                   \/ Spells(u, MemberNode) /\ Named(u, MemberNode, live)

(* An answer has the status OK exactly when neither an error nor an        *)
(* annotation of a top-level member says otherwise, even when several      *)
(* members fail and others are filled after them.                          *)
StatusTellsFailure ==
    phase = "done" =>
        ((status = "OK") <=> (error = None /\ \A m \in noted : m[1] # "top"))

(* The rows of an interface's page are its own addresses, unless the       *)
(* interface left the cache: its relation then has no condition.           *)
OwnRows ==
    "IP" \in DOMAIN body => \A r \in body["IP"].of : Owner[r] = target \/ target \in departed

(* response.hpp says that verifyParameter returns false when the instance  *)
(* was not found.  A VLAN that is not there verifies as its own interface. *)
VerifiedIsFound ==
    \A n \in DOMAIN parameters \cap {"VLANNode", "EthernetInterfaceNode"} :
        parameters[n].instance \in EntityCondition(n, parameters[n].value)
=============================================================================
