---------------------------- MODULE MCSquircoApp ----------------------------
(* Small instances of SquircoApp: what the network may deliver in each.    *)
EXTENDS SquircoApp

Msg(c, a, p) == [cmd |-> c, addr |-> a, pan |-> p]

NoMessages  == {}
HubAsks     == {Msg("ls_state", "node", Home), Msg("temperature", Hub, Home),
                Msg("sys_info", Hub, Home), Msg("unknown", Hub, Home)}
JoinTraffic == {Msg("join_chain", Hub, p) : p \in Pans}
SwitchTraffic == {Msg(c, Hub, Home) : c \in {"toggle", "on", "off"}}
NodeTraffic ==
  SwitchTraffic \cup {Msg("ls_state", Hub, Home), Msg("sys_info", Hub, Home),
                      Msg("unknown", Hub, Home)}
=============================================================================
