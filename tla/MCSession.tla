----------------------------- MODULE MCSession -----------------------------
EXTENDS Session

(* Two displays that differ in everything, and two that differ from the    *)
(* first in their pixel format alone: one the video processor takes, and   *)
(* the one it does not (HDR, not converted for us).                        *)
Small == [width |-> 1, height |-> 1, format |-> "bgra", hz |-> 60]
Large == [width |-> 2, height |-> 2, format |-> "bgra", hz |-> 120]
Deep  == [Small EXCEPT !.format = "rgb10"]
Float == [Small EXCEPT !.format = "float"]

MCModes == {Small, Large, Deep, Float}
MCFirstModes == {Small, Float}
MCStillDisplay == {Small}
MCConvertible == {"bgra", "rgb10"}
=============================================================================
