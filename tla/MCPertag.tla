------------------------------ MODULE MCPertag ------------------------------
(***************************************************************************)
(* An instance of Pertag for TLC.                                          *)
(***************************************************************************)
EXTENDS Pertag

\* The first tag starts with the second layout, as in config.def.h the first
\* two do with the third.
Defaults == [t \in Tag |-> IF t = 0 THEN 1 ELSE 0]
=============================================================================
