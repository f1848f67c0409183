------------------------ MODULE MCCommandExchange ------------------------
(* Instances of CommandExchange for TLC: unlock (CHECK_USER_TIME, UNLOCK)   *)
(* racing the keep-alive poke (QUERY_STATE), with pushes that echo 0x14,    *)
(* the opcode of QUERY_STATE, or another opcode.                            *)
EXTENDS CommandExchange

CONSTANTS CheckUserTime, Unlock, QueryState, Other

MCCommands == {CheckUserTime, Unlock, QueryState}

MCPrograms == {<<CheckUserTime, Unlock>>, <<QueryState>>}

MCPushEchoes == {QueryState, Other}
=============================================================================
