---------------------------- MODULE MCDBusConnect ----------------------------
(***************************************************************************)
(* The connection with its observing thread, two request threads           *)
(* and the main thread.  Errnos: a value that means a corrupt connection  *)
(* and one that does not (ETIMEDOUT).                                      *)
(***************************************************************************)
EXTENDS DBusConnect

CONSTANTS req1, req2

MCThreads == {BusThread, req1, req2}
MCNesting == {BusThread}
MCErrnos == {EIO, 110}
=============================================================================
