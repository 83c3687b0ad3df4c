--------------------------- MODULE MCApprovalGate ---------------------------
(***************************************************************************)
(* ApprovalGate for TLC.  The adapters of the repository make three kinds  *)
(* of action: lamp and music are home devices (exact-target, may be        *)
(* scheduled), search is a web search (its preflight reads files), tool is *)
(* an MCP call (its arguments are an encrypted file).                      *)
(***************************************************************************)
EXTENDS ApprovalGate

CONSTANTS lamp, music, search, tool

Nothing    == {}
Home       == {lamp, music}
Lamp       == {lamp}
Search     == {search}
Tool       == {tool}
LampSearch == {lamp, search}
LampTool   == {lamp, tool}
SearchTool == {search, tool}
HomeSearch == {lamp, music, search}
AllKinds   == {lamp, search, tool}
=============================================================================
