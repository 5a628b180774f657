------------------------- MODULE MCInterfaceCriteria -------------------------
(***************************************************************************)
(* The search lists of the queries as they are declared, against signals   *)
(* that name up to three interfaces of one of them in any order.           *)
(***************************************************************************)
EXTENDS InterfaceCriteria

\* The interfaces in the order std::less gives their names.
AssociationDefinitions == 1
BootClearCmos == 2
BootMode == 3
BootSource == 4
BootType == 5
InventoryItemGlobal == 6
ObjectEnable == 7
UserAccountPolicy == 8
UserManager == 9

\* status_provider.hpp:301-304, server.hpp:587-591 and 664-670,
\* account_settings.hpp:81-84; the other queries search for one interface.
DeclaredLists ==
    {<<InventoryItemGlobal, AssociationDefinitions>>,
     <<BootMode, BootSource, BootType>>,
     <<BootMode, BootSource, BootType, BootClearCmos, ObjectEnable>>,
     <<UserAccountPolicy, UserManager>>}

ListsOf(interfaces) ==
    {l \in UNION {[1..n -> interfaces] : n \in 0..3} :
        \A a, b \in DOMAIN l : a # b => l[a] # l[b]}
NamedLists == UNION {ListsOf({l[k] : k \in DOMAIN l}) : l \in DeclaredLists}
=============================================================================
