--------------------------- MODULE MCParallelizer ---------------------------
(* Instances of Parallelizer for TLC. *)
EXTENDS Parallelizer

Plain == [visible |-> TRUE, prepared |-> TRUE, marks |-> TRUE, labels |-> {},
          clear |-> FALSE, blends |-> FALSE, comp_op |-> "none",
          translucent |-> FALSE, direct |-> FALSE, resized |-> FALSE]

\* What makes a difference between the layers of a map.
LayerKinds == {
    Plain,
    [Plain EXCEPT !.visible = FALSE],
    [Plain EXCEPT !.labels = {"a"}, !.clear = TRUE],
    [Plain EXCEPT !.marks = FALSE, !.labels = {"b"}],
    [Plain EXCEPT !.marks = FALSE, !.labels = {"b"}, !.resized = TRUE],
    [Plain EXCEPT !.blends = TRUE],
    [Plain EXCEPT !.comp_op = "src_over", !.translucent = TRUE, !.blends = TRUE],
    [Plain EXCEPT !.comp_op = "other", !.labels = {"a", "b"}],
    [Plain EXCEPT !.comp_op = "other", !.prepared = FALSE],
    [Plain EXCEPT !.prepared = FALSE, !.labels = {"a"}, !.translucent = TRUE],
    [Plain EXCEPT !.direct = TRUE]}

AnyMaps ==
    [background : BOOLEAN, layers : UNION {[1..k -> LayerKinds] : k \in 0..3}]
=============================================================================
