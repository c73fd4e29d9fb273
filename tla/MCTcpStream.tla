---------------------------- MODULE MCTcpStream ----------------------------
(***************************************************************************)
(* TcpStream, and beside it HttpClient and IpAddressText: what the readers *)
(* of the daemon make of bytes that come in pieces and of text that can be *)
(* spelled in many ways.  They share no state, so that one run explores    *)
(* one after the other.                                                    *)
(***************************************************************************)
EXTENDS TcpStream

CONSTANTS Status, BodyLength, Undeclared, PostLength, MaxCalls, Block, Octet

ASSUME AnswerAssumption == /\ Status \subseteq Nat /\ Status # {}
                           /\ BodyLength \subseteq Nat /\ BodyLength # {} /\ Undeclared \notin BodyLength
ASSUME OctetAssumption == Octet \subseteq 0..255 /\ Block \subseteq 0..65535

VARIABLES explored,
          client, headers, result, response, unsent, wire, calls,
          meant, text, phase, s, v4, v6, parsed

httpState == <<client, headers, result, response, unsent, wire, calls>>
spelling == <<meant, text, phase, s, v4, v6, parsed>>

Http == INSTANCE HttpClient
Ip == INSTANCE IpAddressText WITH result <- parsed

MCPacket == {<<9>>, <<23, 3, 3, 1, 0, 7>>, <<23, 3, 3, 1, 0, 7, 8, 8>>}

MCInit ==
    /\ StreamInit /\ Http!HttpInit
    /\ \/ /\ explored \in {"frames", "http"}
          /\ meant = <<>> /\ text = <<>> /\ phase = "unused" /\ s = 1
          /\ v4 = <<>> /\ v6 = <<>> /\ parsed = <<>>
       \/ explored = "addresses" /\ Ip!TextInit

MCNext ==
    /\ UNCHANGED explored
    /\ \/ explored = "frames" /\ StreamNext /\ UNCHANGED <<httpState, spelling>>
       \/ explored = "http" /\ Http!HttpNext /\ UNCHANGED <<streamVars, spelling>>
       \/ explored = "addresses" /\ Ip!TextNext /\ UNCHANGED <<streamVars, httpState>>

MCSpec == MCInit /\ [][MCNext]_<<explored, streamVars, httpState, spelling>> /\ StreamFairness

WholeAnswer == Http!WholeAnswer
EverySpelling == Ip!EverySpelling
=============================================================================
