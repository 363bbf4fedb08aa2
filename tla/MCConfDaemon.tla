---------------------------- MODULE MCConfDaemon ----------------------------
(***************************************************************************)
(* ConfDaemon with two clients: c1 asks for everything, c2 for a network   *)
(* without a name.                                                         *)
(***************************************************************************)
EXTENDS ConfDaemon

CONSTANTS c1, c2, k1, k2

KeysAsked == [c \in Client |-> IF c = c1 THEN k1 ELSE k2]

SettingsAsked ==
  [c \in Client |-> IF c = c2 THEN {"channel", "bssid"} ELSE Optional]
=============================================================================
