----------------------------- MODULE MCRuntime -----------------------------
(* Small instances of ApplicationRuntime. *)
EXTENDS ApplicationRuntime

CONSTANTS import1, export

MCImports == {import1}
MCExports == {export}
MCBatches == [t \in MCImports |-> 2]
=============================================================================
