------------------------- MODULE MCPrimaryAuthority -------------------------
\* PrimaryAuthority for the model checker: users are the numbers of their ids.
EXTENDS PrimaryAuthority

TwoGMs == {1, 2}
OneGM == {1}
NoPlayers == {1, 2}
OnePlayer == {1, 2, 3}
GMAndPlayer == {1, 2}
=============================================================================
