--------------------------- MODULE MCPanelSession ---------------------------
(* Small instances of PanelSession. *)
EXTENDS PanelSession
=============================================================================
