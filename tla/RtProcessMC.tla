----------------------------- MODULE RtProcessMC -----------------------------
EXTENDS RtProcess
CONSTANTS k1, k2, daemon, writer, p1, p2
MCCallers == {k1, k2}
MCChildren == {daemon, writer}
MCEndless == {daemon}
MCChatty == {writer}
MCPids == {p1, p2}
=============================================================================
