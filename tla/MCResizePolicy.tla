--------------------------- MODULE MCResizePolicy ---------------------------
(* Instances of ResizePolicy for TLC: pages of 4 bytes, a 6-bit usize. *)
EXTENDS ResizePolicy

MCInitialMapSizes == {10, 12, 16}
MCFreeSpaces == {6, 64}
MCHeadrooms == {0, 3, 8, 21, 59}
MCMapSizes == {0, 9, 20}
=============================================================================
