----------------------------- MODULE MCPkgExec -----------------------------
(***************************************************************************)
(* Small instances of PkgExec.  The slots are model values.                *)
(***************************************************************************)
EXTENDS PkgExec

CONSTANTS c1, c2

\* Words of every pattern of the script, and one that is none of them.
SomeWords == {"r", "ignore", "i", "Ignore", "a", "Abort"}
=============================================================================
