----------------------------- MODULE MCConfTool -----------------------------
(***************************************************************************)
(* ConfTool with three clients: c1 asks for everything, c2 for a network   *)
(* without a name, and c3 for the status.                                  *)
(***************************************************************************)
EXTENDS ConfTool

CONSTANTS c1, c2, c3, k1, k2, long

KeysAsked == [c \in Client |-> CASE c = c1 -> k1 [] c = c2 -> k2 [] c = c3 -> long]

SettingsAsked ==
  [c \in Client |-> IF c = c2 THEN {"channel", "bssid"} ELSE Optional]
=============================================================================
