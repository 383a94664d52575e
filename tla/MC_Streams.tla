---------------------------- MODULE MC_Streams ----------------------------
(* Streams with two nodes, writes of every kind of stream may fail: two events    *)
(* while a node fails, or while the stream is edited, one event over an edit and  *)
(* a failure, and over two edits.                                             *)
EXTENDS Streams

Share == {[events |-> 2, edits |-> 0, trouble |-> 1], [events |-> 2, edits |-> 1, trouble |-> 0],
          [events |-> 1, edits |-> 1, trouble |-> 1], [events |-> 1, edits |-> 2, trouble |-> 0]}
TwoEvents == {[events |-> 2, edits |-> 0, trouble |-> 0]}
=============================================================================
