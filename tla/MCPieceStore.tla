---------------------------- MODULE MCPieceStore ----------------------------
(* Small instances of the piece store for TLC: three activities of the      *)
(* client race within one lifetime of the torrent, and two once it has been *)
(* closed and opened again.                                                 *)
EXTENDS PieceStore, TLC

CONSTANT MaxBusyReopened   \* activities at once in a torrent opened again

Busy == {a \in Agents : agent[a].op # "idle"}

MCNext == Next /\ (\A t \in Torrents : lives'[t] <= 1 \/ Cardinality(Busy') <= MaxBusyReopened)

MCSpec == Init /\ [][MCNext]_vars

AgentSymmetry == Permutations(Agents)
=============================================================================
