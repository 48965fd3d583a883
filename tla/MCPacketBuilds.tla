---------------------------- MODULE MCPacketBuilds ----------------------------
(***************************************************************************)
(* The two builds of Packet.h for TLC: without DEBUG_LEAK, a packet, its   *)
(* buffer and what is done to its payload; with it, the lists that         *)
(* PACKET_ALLOC, PACKET_FREE and the logs keep.  The buffer is left aside  *)
(* there: it is the same as in the other build.                            *)
(***************************************************************************)
EXTENDS MCPacket, PacketLeakLog, TLC

VARIABLE build

buildVars == <<vars, leakVars, build>>

BuildInit ==
    /\ Init /\ LeakInit
    /\ \/ build = "release"
       \/ build = "DEBUG_LEAK" /\ type = "Net"

BuildNext ==
    /\ \/ build = "release" /\ Next /\ UNCHANGED leakVars
       \/ build = "DEBUG_LEAK" /\ LeakNext /\ UNCHANGED vars
    /\ UNCHANGED build

BuildSpec == BuildInit /\ [][BuildNext]_buildVars

Symmetry == Permutations(Threads) \cup Permutations(Packets) \cup Permutations(Logs)

===============================================================================
