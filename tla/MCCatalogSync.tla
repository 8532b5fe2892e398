--------------------------- MODULE MCCatalogSync ---------------------------
(* Small instances of CatalogSync for TLC. *)
EXTENDS CatalogSync
CONSTANTS s1, s2, a1, a2, m1, m2, k1, k2
=============================================================================
