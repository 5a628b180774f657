---------------------------- MODULE MCEntityManager ----------------------------
(***************************************************************************)
(* Small instances of EntityManager.                                       *)
(***************************************************************************)
EXTENDS EntityManager

\* A base entity, a provider, and an object whose query does not look for it.
MovedEntities == {"Baseboard", "FirmwareProvider", "SnmpProtocol"}
FailingQueries == {"Server", "PSU", "FirmwareProvider"}
\* A proxy, an entity that relates to itself, one that lives a short time, one
\* that may fail, and one that reads a provider.
RequestedEntities == {"Firmware", "Ethernet", "DomainAccounts", "PSU", "PCIeFunction"}
=============================================================================
