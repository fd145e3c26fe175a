------------------------- MODULE MCStandardOperator -------------------------
(* Small instances of StandardOperator for TLC. *)
EXTENDS StandardOperator

Events(edit, evict, kill) == [edit |-> edit, evict |-> evict, kill |-> kill]

ResizeOrFailover == {Events(1, 0, 2), Events(0, 1, 1), Events(0, 2, 0)}
OneEviction == {Events(0, 1, 0)}
TwoEdits == {Events(2, 0, 0)}
=============================================================================
