--------------------------- MODULE MCBridgeWatcher ---------------------------
(***************************************************************************)
(* r contains the directory d, which contains the directory e and the file *)
(* g; e contains the file f.                                               *)
(***************************************************************************)
EXTENDS BridgeWatcher

MCParent == [p \in {"d", "e", "f", "g"} |->
                CASE p = "d" -> "r" [] p \in {"e", "g"} -> "d" [] p = "f" -> "e"]
=============================================================================
