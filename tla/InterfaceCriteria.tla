-------------------------- MODULE InterfaceCriteria --------------------------
(***************************************************************************)
(* checkCriteria of GetObjectDBusQuery and IntrospectServiceDBusQuery      *)
(* (core/entity/dbus_query.cpp): does a signal about an object with the    *)
(* interfaces `input` concern a query for the interfaces `search`?  The    *)
(* code counts std::set_difference(search, input), which walks both lists  *)
(* once and is specified for ascending lists only.  The lists come as they *)
(* are: search in the order the query declares it (the keys of a map for   *)
(* IntrospectServiceDBusQuery), input in the order the sender of an        *)
(* InterfacesRemoved signal or the mapper's answer has.                    *)
(* Interface names are integers in the order std::less gives them.         *)
(***************************************************************************)
EXTENDS Integers, Sequences

CONSTANTS SearchLists,    \* searchInterfaces(), or the keys of the EP map
          InputLists      \* interfaces named by a signal or the mapper

VARIABLES search, input,
          addressed,      \* the service and the path are those of the query
          i, j,           \* the next element of search and of input
          notMatched,     \* notMatchedInterfaces.size()
          verdict         \* what checkCriteria returns

vars == <<search, input, addressed, i, j, notMatched, verdict>>

Init ==
    /\ search \in SearchLists /\ input \in InputLists
    /\ addressed \in BOOLEAN
    /\ i = 1 /\ j = 1 /\ notMatched = 0
    /\ verdict = "none"

\* The walk has an element of search to look at.
Walking == verdict = "none" /\ addressed /\ i <= Len(search)

Before(a, b) == a < b

\* Another object or another service: false before any walk.
NotAddressed ==
    /\ verdict = "none" /\ ~addressed
    /\ verdict' = "rejected"
    /\ UNCHANGED <<search, input, addressed, i, j, notMatched>>

\* input is used up: what is left of search is in the difference.
KeepRest ==
    /\ Walking /\ j > Len(input)
    /\ i' = i + 1 /\ notMatched' = notMatched + 1
    /\ UNCHANGED <<search, input, addressed, j, verdict>>

\* search[i] is smaller: it is in the difference.
KeepSearch ==
    /\ Walking /\ j <= Len(input)
    /\ Before(search[i], input[j])
    /\ i' = i + 1 /\ notMatched' = notMatched + 1
    /\ UNCHANGED <<search, input, addressed, j, verdict>>

\* input[j] is smaller: it is passed over.
PassInput ==
    /\ Walking /\ j <= Len(input)
    /\ Before(input[j], search[i])
    /\ j' = j + 1
    /\ UNCHANGED <<search, input, addressed, i, notMatched, verdict>>

\* Neither is smaller: both are passed over.
PassBoth ==
    /\ Walking /\ j <= Len(input)
    /\ ~Before(search[i], input[j]) /\ ~Before(input[j], search[i])
    /\ i' = i + 1 /\ j' = j + 1
    /\ UNCHANGED <<search, input, addressed, notMatched, verdict>>

\* notMatchedInterfaces.size() == searchInterfaces().size(): no interface.
Decide ==
    /\ verdict = "none" /\ addressed /\ i = Len(search) + 1
    /\ verdict' = IF notMatched = Len(search) THEN "rejected" ELSE "accepted"
    /\ UNCHANGED <<search, input, addressed, i, j, notMatched>>

Next == NotAddressed \/ KeepRest \/ KeepSearch \/ PassInput \/ PassBoth \/ Decide

Spec == Init /\ [][Next]_vars

-----------------------------------------------------------------------------
\* The interfaces two lists share.
Common(s, t) == {s[k] : k \in DOMAIN s} \cap {t[k] : k \in DOMAIN t}

Ascending(s) == \A a, b \in DOMAIN s : a < b => s[a] < s[b]

\* The comment at the test, "No one interface matched": an addressed object is
\* rejected when, and only when, no interface of it is searched for.
RejectedIffNoneMatches ==
    /\ verdict = "accepted" => addressed /\ Common(search, input) # {}
    /\ verdict = "rejected" /\ addressed => Common(search, input) = {}

\* Element k of a list stands after a greater one.
BehindGreater(s, k) == \E c \in 1..k-1 : s[c] > s[k]

\* What is left of it for lists in any order: what is accepted does share an
\* interface, and a shared interface is missed only where it stands behind a
\* greater one in search or in input.
OnlyHiddenMissed ==
    /\ verdict = "accepted" => addressed /\ Common(search, input) # {}
    /\ verdict = "rejected" /\ addressed =>
          \A a \in DOMAIN search : \A b \in DOMAIN input :
             search[a] = input[b] => BehindGreater(search, a) \/ BehindGreater(input, b)

-----------------------------------------------------------------------------
CriteriaTypeOK ==
    /\ search \in SearchLists /\ input \in InputLists
    /\ addressed \in BOOLEAN
    /\ i \in 1..Len(search) + 1 /\ j \in 1..Len(input) + 1
    /\ notMatched \in 0..Len(search)
    /\ verdict \in {"none", "rejected", "accepted"}

\* An element of search that was passed and not counted is in input.
CountInv ==
    /\ notMatched <= i - 1
    /\ notMatched < i - 1 => Common(search, input) # {}

\* While all that was passed is counted, a shared interface was passed, in either
\* list, only behind a greater one.
PassedInv ==
    notMatched = i - 1 =>
        \A a \in 1..Len(search) : \A b \in 1..Len(input) :
            search[a] = input[b] /\ (a < i \/ b < j) =>
                BehindGreater(search, a) \/ BehindGreater(input, b)

VerdictInv ==
    /\ verdict = "accepted" => /\ addressed /\ i = Len(search) + 1
                               /\ notMatched # Len(search)
    /\ verdict = "rejected" /\ addressed => /\ i = Len(search) + 1
                                            /\ notMatched = Len(search)

WalkInv == CriteriaTypeOK /\ CountInv /\ PassedInv /\ VerdictInv
=============================================================================
