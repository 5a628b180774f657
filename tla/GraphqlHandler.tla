---------------------------- MODULE GraphqlHandler ----------------------------
(***************************************************************************)
(* One GraphQL query: the visitor walks over the fields of the document    *)
(* and keeps a stack of builders, each with a JSON fragment for every      *)
(* instance its entity had when the builder was made.  Each scalar field   *)
(* and each fragment that is handed to the parent asks the entity anew.    *)
(*                                                                         *)
(* A query is the sequence of its visits: <<"enter", entity>> and          *)
(* <<"leave", entity>> around a selection set, <<"scalar", field>>.        *)
(***************************************************************************)
EXTENDS LiveInstances

CONSTANT Operation         \* the builder of the operation, which has no entity

VARIABLES query,      \* the visits, or <<>> when the parser made no AST
          outcome,    \* "idle", "visit", an exception, then how the query ends
          position,   \* the next visit
          builders,   \* fragmentBuilder and its ancestors, the root first
          unpushed    \* items of the parent that wait for the fragment

queryVars == <<query, outcome, position, builders, unpushed>>

Ended == {"answered", "error", "escaped", "terminated"}

(* Server and BmcManager are objects, the others collections.              *)
IsArray(entity) == entity \notin {"Server", "BmcManager"}

Entities == {EntityOf[i] : i \in Instances} \cup {"Ethernet", "IP"}
Members  == {"Name"}

ASSUME GraphqlAssumption == Operation \notin Instances \cup Entities

(* How many selection sets are open after the first n visits: the parser   *)
(* closes only what it has opened.                                         *)
Visits(q, n, kind) == {k \in 1..n : q[k][1] = kind}
Open(q, n) == Cardinality(Visits(q, n, "enter")) - Cardinality(Visits(q, n, "leave"))

IsQuery(q) ==
    /\ q \in Seq({"enter", "leave", "scalar"} \X STRING)
    /\ \A n \in DOMAIN q : q[n][1] = "leave" => Open(q, n - 1) > 0

Top    == builders[Len(builders)]
Parent == builders[Len(builders) - 1]
Visit  == query[position]

(* operator[] of a missing key makes a null, and push_back on a null makes *)
(* an array where push_back on an object adds a member, if it is not there.*)
EmptyObject == [shape |-> "object", members |-> <<>>]
Null        == [shape |-> "array", members |-> <<>>]

PushBack(item, key, value) ==
    IF key \in DOMAIN item.members THEN item
    ELSE [item EXCEPT !.members = Extended(@, key, value)]

NoFragment(entity)   == <<>>
EachInstance(entity) == [i \in InstancesOf(entity) |-> EmptyObject]

Builder(entity, relation) ==
    [entity |-> entity, relation |-> relation, fragment |-> EachInstance(entity)]

OperationBuilder ==
    [entity |-> Operation, relation |-> FALSE, fragment |-> [o \in {Operation} |-> EmptyObject]]

----------------------------------------------------------------------------
(* An exception unwinds visitOperationDefinition, and ~GqlQueryVisitor     *)
(* asks the builder at hand for its fragment again: at() throws inside a   *)
(* destructor when an instance has no item.                                *)
HasAllItems(b, S) == S \subseteq DOMAIN b.fragment

Throw(exception) ==
    /\ outcome' = exception
    /\ UNCHANGED <<query, position, builders, unpushed>>

GqlError == Throw("throws")

Unwind ==
    /\ outcome \in {"throws", "rangeThrows"}
    /\ outcome' = IF Top.entity # Operation /\ ~HasAllItems(Top, InstancesOf(Top.entity))
                  THEN "terminated"
                  ELSE IF outcome = "throws" THEN "error" ELSE "escaped"
    /\ UNCHANGED <<query, position, builders, unpushed>>

(* GraphqlRouter::preHandlers parses; without an AST run answers an error. *)
RunGraphql(q) ==
    /\ query' = q
    /\ outcome' = IF q = <<>> THEN "error" ELSE "visit"
    /\ builders' = <<OperationBuilder>>
    /\ UNCHANGED <<position, unpushed>>

Visiting(kind) ==
    /\ outcome = "visit" /\ unpushed = {}
    /\ position <= Len(query) /\ Visit[1] = kind

(* visitField with a selection set: an entity of that name below the root, *)
(* the destination of a relation below an entity.                          *)
KnownObject == IF Top.entity = Operation THEN Visit[2] \in Entities
               ELSE \E i \in Instances : EntityOf[i] = Top.entity /\ Related(i, Visit[2])

VisitObject ==
    /\ Visiting("enter")
    /\ \/ /\ KnownObject
          /\ builders' = Append(builders, Builder(Visit[2], Top.entity # Operation))
          /\ position' = position + 1
          /\ UNCHANGED <<query, outcome, unpushed>>
       \/ ~KnownObject /\ GqlError

(* GqlObjectBuild::supplement(field).                                      *)
Supplemented(b, field) ==
    [i \in DOMAIN b.fragment \cup InstancesOf(b.entity) |->
        LET item == IF i \in DOMAIN b.fragment THEN b.fragment[i] ELSE Null
        IN  IF i \in InstancesOf(b.entity) THEN PushBack(item, field, i) ELSE item]

VisitScalar ==
    /\ Visiting("scalar")
    /\ \/ /\ Top.entity # Operation /\ Visit[2] \in Members
          /\ builders' = [builders EXCEPT ![Len(builders)].fragment = Supplemented(Top, Visit[2])]
          /\ position' = position + 1
          /\ UNCHANGED <<query, outcome, unpushed>>
       \/ (Top.entity = Operation \/ Visit[2] \notin Members) /\ GqlError

----------------------------------------------------------------------------
(* endVisitField: pushFragmentToParent, one item of the parent at a time.  *)
EndVisitObject ==
    /\ Visiting("leave")
    /\ \/ /\ DOMAIN Parent.fragment # {}
          /\ unpushed' = DOMAIN Parent.fragment
          /\ UNCHANGED <<position, builders>>
       \/ /\ DOMAIN Parent.fragment = {}
          /\ builders' = Front(builders) /\ position' = position + 1
          /\ UNCHANGED unpushed
    /\ UNCHANGED <<query, outcome>>

(* getFragment: the conditions of the relation from the parent's instance. *)
AnyInstances(parent) == InstancesOf(Top.entity)
FragmentInstances(parent) ==
    IF Top.relation THEN getRelatedInstances(parent, Top.entity) ELSE InstancesOf(Top.entity)

FragmentOf(S) == [many |-> IsArray(Top.entity) \/ Cardinality(S) > 1,
                  items |-> [i \in S |-> Top.fragment[i]]]

PushFragment(parent) ==
    LET S      == FragmentInstances(parent)
        pushed == PushBack(Parent.fragment[parent], Top.entity, FragmentOf(S))
        filled == [builders EXCEPT ![Len(builders) - 1].fragment[parent] = pushed]
    IN  /\ HasAllItems(Top, S)
        /\ unpushed' = unpushed \ {parent}
        /\ IF unpushed' = {}
           THEN builders' = Front(filled) /\ position' = position + 1
           ELSE builders' = filled /\ UNCHANGED position
        /\ UNCHANGED <<query, outcome>>

(* nlohmann's out_of_range is not the std::out_of_range that is caught.    *)
MissingItem(parent) ==
    /\ ~HasAllItems(Top, FragmentInstances(parent))
    /\ Throw("rangeThrows")

Push ==
    /\ outcome = "visit"
    /\ \E parent \in unpushed : PushFragment(parent) \/ MissingItem(parent)

(* The visitor is destroyed and hands the root's fragment to the document. *)
EndDocument ==
    /\ outcome = "visit" /\ unpushed = {} /\ position > Len(query)
    /\ outcome' = "answered"
    /\ UNCHANGED <<query, position, builders, unpushed>>

GraphqlStep ==
    VisitObject \/ VisitScalar \/ EndVisitObject \/ Push \/ Unwind \/ EndDocument

GraphqlInit ==
    /\ query = <<>> /\ outcome = "idle" /\ position = 1
    /\ builders = <<>> /\ unpushed = {}

----------------------------------------------------------------------------
(* The builders follow the selection sets the visitor is in.               *)
GraphqlTypeOK ==
    /\ outcome \in {"idle", "visit", "throws", "rangeThrows"} \cup Ended
    /\ position \in 1..(Len(query) + 1)
    /\ \A k \in DOMAIN builders :
          /\ builders[k].entity \in Entities \cup {Operation}
          /\ DOMAIN builders[k].fragment \subseteq Instances \cup {Operation}
    /\ unpushed # {} => Len(builders) > 1 /\ unpushed \subseteq DOMAIN Parent.fragment

Items == UNION {{b.fragment[i] : i \in DOMAIN b.fragment} : b \in Range(builders)}

(* A query neither ends in an exception nobody catches, nor in the end of  *)
(* the process, nor shows an instance as a list instead of an object,      *)
(* unless an instance appeared while it was answered: the fragments of all *)
(* builders, nested ones too, are made before anything asks for them.      *)
OnlyArrivalsBreak ==
    \/ arrived # {}
    \/ /\ outcome \notin {"rangeThrows", "escaped", "terminated"}
       /\ \A item \in Items : item.shape = "object"

(* The addresses shown below an interface are its own, unless the          *)
(* interface left the cache before its fragment was asked for.             *)
OwnChildren ==
    \A b \in Range(builders) : \A p \in DOMAIN b.fragment \ {Operation} :
        "IP" \in DOMAIN b.fragment[p].members =>
            \A r \in DOMAIN b.fragment[p].members["IP"].items : Owner[r] = p \/ p \in departed
=============================================================================
