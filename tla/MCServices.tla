----------------------------- MODULE MCServices -----------------------------
(* Two of four keys share a prefix.                                           *)
EXTENDS Services

CONSTANTS k1, k2, k3, k4

MCPrefixes == {{k1, k2}}
=============================================================================
