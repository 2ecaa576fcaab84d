------------------------------ MODULE Services ------------------------------
(* The in-memory parts of the API: they run in one process and share nothing,  *)
(* so their steps need no interleaving; in a behaviour one part works while    *)
(* the other is as it started.                                                 *)
EXTENDS Cache, WebSocket

Init == CacheInit /\ WsInit

Next ==
  \/ CacheNext /\ WsInit /\ UNCHANGED wsVars
  \/ WsNext /\ CacheInit /\ UNCHANGED cacheVars

\* The types of both parts.
TypeOK == CacheTypeOK /\ WsTypeOK

Spec == Init /\ [][Next]_<<cacheVars, wsVars>> /\ WsFairness
=============================================================================
