----------------------------- MODULE MCSurface -----------------------------
(* Two pictures that nothing tells apart, and a transparent one.            *)
EXTENDS Surface, TLC

CONSTANTS sit, jump

MCPictures == {sit, jump}
MCSymmetry == Permutations(MCPictures)

=============================================================================
