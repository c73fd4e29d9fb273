-------------------------- MODULE MCSecurityLayer --------------------------
(* Small instances of SecurityLayer for TLC. *)
EXTENDS SecurityLayer

\* Two devices that allow each other.
MCAllowed == [n \in Node |-> Node \ {n}]

\* Node 2 gains the compression flag at its second boot (an upgrade).
MCFlagsOf(n, b) == IF n = 2 /\ b > 1 THEN 3 ELSE 1
\* Only the second device is ever restarted.
MCOneRestart == [n \in Node |-> IF n = 2 THEN 2 ELSE 1]
MCNoRestart == [n \in Node |-> 1]
\* A hub that two other devices talk to.
MCHub == [n \in Node |-> IF n = 1 THEN Node \ {1} ELSE {1}]

\* Who sends: both devices, or only the first, or only the hub.
MCBothWays == {<<1, 2>>, <<2, 1>>}
MCOneWay == {<<1, 2>>}
MCFromHub == {<<1, 2>>, <<1, 3>>}
MCAllTalk == MCBothWays \cup MCFromHub
=============================================================================
