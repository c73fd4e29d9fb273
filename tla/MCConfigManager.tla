-------------------------- MODULE MCConfigManager --------------------------
(* Small instances of ConfigManager for TLC. *)
EXTENDS ConfigManager

CONSTANTS eb, x, y          \* an event bus server and two peers
CONSTANTS l1                \* a license
CONSTANTS c1, c2, noPeers   \* configurations; the last has no "peers"
CONSTANTS alice             \* who claims the device in c1

MCLicensePeers(l) == {eb}
MCConfigPeers(c) == IF c = c1 THEN {x} ELSE IF c = c2 THEN {x, y} ELSE None
MCOwner(c) == IF c = c1 THEN alice ELSE None
=============================================================================
