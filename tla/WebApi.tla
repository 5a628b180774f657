-------------------------------- MODULE WebApi --------------------------------
(***************************************************************************)
(* The router between a connection and its two handlers: one request is    *)
(* routed before its body is dropped, authenticated when it is processed,  *)
(* and answered by GraphqlHandler or RedfishNode, while the dbus thread    *)
(* changes the instances both of them read.                                *)
(***************************************************************************)
EXTENDS RedfishNode, GraphqlHandler

CONSTANTS Paths,      \* paths below the Redfish root, as segments
          Queries     \* GraphQL documents, as visits

(* searchRouteHandler takes the URIs below the Redfish root.               *)
ASSUME PathsAssumption ==
    \A p \in Paths : p \in Seq(Seq(STRING)) /\ Len(p) > 0 /\ p[1] = Segment(Root)

ASSUME QueriesAssumption == \A q \in Queries : IsQuery(q)

VARIABLES incoming,   \* the request of the connection
          stage,      \* "received", "routed", "running", "answered"
          handler,    \* Router::handler: "none", "graphql", "redfish"
          reply       \* the status the client gets

vars == <<incoming, stage, handler, reply, requestVars, queryVars, instanceVars>>

(* A PATCH is refused by every node alike and sent to few of them.         *)
Requests ==
    [uri : {"tree"}, method : {"GET"}, target : Paths, user : {TRUE}]
    \cup [uri : {"tree"}, method : {"PATCH"}, target : {p \in Paths : Len(p) = 3}, user : {TRUE}]
    \cup [uri : {"graphql"}, method : {"POST"}, target : Queries, user : {TRUE}]
    \cup [uri : {"graphql", "other"}, method : {"POST"}, target : {<<>>}, user : BOOLEAN]

(* Router::preHandler: static patterns first, then the dynamic ones.       *)
PreHandler ==
    /\ stage = "received"
    /\ stage' = "routed"
    /\ handler' = CASE incoming.uri = "graphql" -> "graphql"
                    [] incoming.uri = "tree"    -> "redfish"
                    [] OTHER                    -> "none"
    /\ UNCHANGED <<incoming, reply, requestVars, queryVars>>

Respond(code) ==
    /\ stage' = "answered" /\ reply' = code

(* Router::process: authentication, a handler, its run.                    *)
Unauthorized == stage = "routed" /\ ~incoming.user /\ Respond("Unauthorized")

NoHandler == stage = "routed" /\ incoming.user /\ handler = "none" /\ Respond("NotFound")

Reject ==
    /\ Unauthorized \/ NoHandler
    /\ UNCHANGED <<incoming, handler, requestVars, queryVars>>

Run ==
    /\ stage = "routed" /\ incoming.user
    /\ stage' = "running"
    /\ \/ /\ handler = "graphql"
          /\ RunGraphql(incoming.target) /\ UNCHANGED requestVars
       \/ /\ handler = "redfish"
          /\ RunRedfish([method |-> incoming.method, path |-> incoming.target])
          /\ UNCHANGED queryVars
    /\ UNCHANGED <<incoming, handler, reply>>

Handle ==
    /\ stage = "running"
    /\ \/ GraphqlStep /\ UNCHANGED requestVars
       \/ RedfishStep /\ UNCHANGED queryVars
    /\ UNCHANGED <<incoming, stage, handler, reply>>

(* GraphqlRouter answers errors with the status OK.                        *)
Reply ==
    /\ stage = "running"
    /\ \/ phase = "done" /\ Respond(status)
       \/ outcome \in {"answered", "error"} /\ Respond("OK")
    /\ UNCHANGED <<incoming, handler, requestVars, queryVars>>

RequestStep == (PreHandler \/ Reject \/ Run \/ Handle \/ Reply) /\ UNCHANGED instanceVars

(* Nothing reads the instances before the handler runs or after it ended.  *)
DBusThread ==
    /\ stage = "running" /\ phase # "done" /\ outcome \notin Ended
    /\ InstancesChange
    /\ UNCHANGED <<incoming, stage, handler, reply, requestVars, queryVars>>

Init ==
    /\ incoming \in Requests
    /\ stage = "received" /\ handler = "none" /\ reply = "none"
    /\ InstancesInit /\ RedfishInit /\ GraphqlInit

Next == RequestStep \/ DBusThread

(* The thread that has the connection goes on until it has answered.       *)
Spec == Init /\ [][Next]_vars /\ WF_vars(RequestStep)

----------------------------------------------------------------------------
(* The types of both handlers and of the router.                           *)
ApiTypeOK ==
    /\ RedfishTypeOK /\ GraphqlTypeOK
    /\ stage \in {"received", "routed", "running", "answered"}
    /\ live \subseteq Instances /\ arrived \cup departed \subseteq Instances
    /\ changes \in 0..MaxChanges

(* What both APIs show below an interface belongs to it.                   *)
RelatedOnly == OwnRows /\ OwnChildren

(* Every request gets an answer, whatever comes and goes meanwhile, but    *)
(* for a query that ends in an exception: resolution goes down the tree or *)
(* to the next sibling, and every getter is processed once.                *)
RequestAnswered == <>(stage = "answered" \/ outcome \in {"escaped", "terminated"})
=============================================================================
