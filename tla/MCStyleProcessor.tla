-------------------------- MODULE MCStyleProcessor --------------------------
(* Instances of StyleProcessor for TLC. *)
EXTENDS PaintersReference

Rule(kind, matches) == [kind |-> kind, matches |-> matches, active |-> TRUE]

PlainStyle ==
    [rules |-> <<Rule("if", {1, 3}), Rule("else", {})>>, filter_first |-> FALSE,
     comp_op |-> FALSE, translucent |-> FALSE, filters |-> <<>>,
     inflate |-> FALSE, radius |-> 0, direct |-> <<>>]

\* Else and also beside two if rules that both match feature 1.
RuleStyle(first) ==
    [PlainStyle EXCEPT
        !.rules = <<Rule("else", {}), Rule("if", {1}), Rule("also", {}),
                    Rule("if", {1, 2}), [Rule("if", {3}) EXCEPT !.active = FALSE]>>,
        !.filter_first = first]

Composed == [PlainStyle EXCEPT !.comp_op = TRUE]
Blurred(r) ==
    [PlainStyle EXCEPT !.filters = <<"demultiplies">>, !.inflate = TRUE, !.radius = r]
BlurredNothing(r) == [Blurred(r) EXCEPT !.rules = <<Rule("if", {})>>]
Filtering ==
    [PlainStyle EXCEPT !.translucent = TRUE, !.filters = <<"premultiplies">>,
                       !.direct = <<"demultiplies">>]
Inactive == [PlainStyle EXCEPT !.rules = <<[Rule("if", {1}) EXCEPT !.active = FALSE]>>]

PlainLayer ==
    [parent |-> 0, visible |-> TRUE, datasource |-> TRUE, extent |-> "inside",
     group_by |-> FALSE, cache_features |-> FALSE, rows |-> <<"a", "a", "b">>,
     null |-> FALSE, comp_op |-> FALSE, translucent |-> FALSE, direct |-> <<>>,
     styles |-> <<PlainStyle>>]

\* One layer: every way to its features, for several lists of styles.
StyleLists ==
    {<<RuleStyle(TRUE), RuleStyle(FALSE)>>, <<Composed, Inactive, PlainStyle>>,
     <<Blurred(2), BlurredNothing(1), Blurred(3)>>, <<Filtering>>, <<>>}
RowLists == {<<>>, <<"a">>, <<"a", "a", "b">>, <<"a", "b", "a">>}
OneLayer ==
    {[PlainLayer EXCEPT !.styles = s, !.rows = r, !.group_by = g,
                        !.cache_features = c, !.null = n, !.extent = e,
                        !.comp_op = o] :
        s \in StyleLists, r \in RowLists, g \in BOOLEAN, c \in BOOLEAN,
        n \in BOOLEAN, e \in {"inside", "outside", "invalid"}, o \in BOOLEAN}

\* Three layers, nested and in a row, isolated or not, one of them without a
\* datasource, out of sight or empty.
Variants ==
    {[PlainLayer EXCEPT !.rows = <<"a">>],
     [PlainLayer EXCEPT !.translucent = TRUE, !.styles = <<Blurred(1), Composed>>],
     [PlainLayer EXCEPT !.comp_op = TRUE, !.datasource = FALSE,
                        !.direct = <<"demultiplies">>],
     [PlainLayer EXCEPT !.styles = <<Blurred(2), PlainStyle>>, !.cache_features = TRUE],
     [PlainLayer EXCEPT !.visible = FALSE],
     [PlainLayer EXCEPT !.styles = <<Inactive>>]}
Nestings == {<<0, 0, 0>>, <<0, 1, 1>>, <<0, 1, 2>>, <<0, 1, 0>>}
ThreeLayers ==
    {<<[a EXCEPT !.parent = p[1]], [b EXCEPT !.parent = p[2]], [c EXCEPT !.parent = p[3]]>> :
        a \in Variants, b \in Variants, c \in Variants, p \in Nestings}

\* Rendered whole, or, the others being nested in it, by the first layer.
LayerLists == {<<l>> : l \in OneLayer} \cup ThreeLayers \cup {<<>>}
AllMaps ==
    {m \in [layers : LayerLists, single : BOOLEAN] :
        m.single => /\ Len(m.layers) = 3
                    /\ m.layers[2].parent # 0 /\ m.layers[3].parent # 0}
=============================================================================
