----------------------------- MODULE MCSidebar -----------------------------
(* An instance of Sidebar for TLC: a folder at the root, and a document     *)
(* that is still to be created.                                             *)
EXTENDS Sidebar

CONSTANTS f, n

MCStart == [x \in Nodes |-> IF x = f THEN Root ELSE None]
=============================================================================
