-------------------------- MODULE MCSessionFaults --------------------------
(***************************************************************************)
(* Device 1 knows devices 2 and 3, which do not know each other.  Two      *)
(* scenarios start from the same state: devices 1 and 2 alone, talking in  *)
(* both directions, with device 2 restarted once; and device 1 talking to  *)
(* both others over a transport that misroutes.  Each is the session layer *)
(* with stricter bounds than the ones its properties are stated for.       *)
(***************************************************************************)
EXTENDS MCSecurityLayer

VARIABLE scenario

Pair == INSTANCE SecurityLayer WITH
            Talk <- MCBothWays, Misrouting <- FALSE, MAX_QUEUED_PACKETS <- 1
Hub == INSTANCE SecurityLayer WITH
            Talk <- MCFromHub, MaxBoot <- MCNoRestart, MaxAccept <- 1

FaultInit == Init /\ scenario \in {"pair", "hub"}

FaultNext ==
    /\ UNCHANGED scenario
    /\ \/ scenario = "pair" /\ Pair!Next
       \/ scenario = "hub" /\ Hub!Next

FaultSpec == FaultInit /\ [][FaultNext]_<<scenario, vars>>
=============================================================================
