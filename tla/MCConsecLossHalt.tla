-------------------------- MODULE MCConsecLossHalt --------------------------
EXTENDS ConsecLossHalt

\* a loss, a break-even and a win, in dollars
MCPnls == {-2, 0, 3}
=============================================================================
