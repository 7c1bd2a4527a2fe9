------------------------- MODULE PaintersReference -------------------------
(***************************************************************************)
(* What a map should look like, said without buffers, caches and flags:    *)
(* the layers are painted in document order, each layer's styles once per  *)
(* group of its features, each style's features in their order, and what   *)
(* has a compositing operation, an opacity or a filter of its own is       *)
(* painted apart and put down as a whole.                                  *)
(***************************************************************************)
EXTENDS StyleProcessor

\* The features of a layer, cut where the grouping attribute changes.
RECURSIVE Cut(_, _)
Cut(values, from) ==
    IF from > Len(values) THEN <<>>
    ELSE LET change == {k \in from + 1..Len(values) : values[k] # values[k - 1]}
             to == IF change = {} THEN Len(values)
                   ELSE (CHOOSE k \in change : \A l \in change : k <= l) - 1
         IN <<[k \in 1..to - from + 1 |-> from + k - 1]>> \o Cut(values, to + 1)

Groups(l) ==
    IF l.extent # "inside" THEN <<<<>>>>
    ELSE IF l.null /\ Grouped(l) THEN <<>>
    ELSE IF l.null \/ l.rows = <<>> THEN <<<<>>>>
    ELSE IF Grouped(l) THEN Cut(l.rows, 1)
    ELSE <<[k \in 1..Len(l.rows) |-> k]>>

RECURSIVE Concat(_)
Concat(seqs) == IF seqs = <<>> THEN <<>> ELSE Head(seqs) \o Concat(Tail(seqs))

\* The rules of a style that apply to a feature: the if rules it matches, or
\* the first of them alone; else, or also, as the style has them.
Applying(s, f) ==
    LET matching == SelectSeq(RulesOf(s, "if"), LAMBDA r : f \in s.rules[r].matches)
    IN IF matching = <<>> THEN RulesOf(s, "else")
       ELSE IF s.filter_first THEN <<Head(matching)>>
       ELSE matching \o RulesOf(s, "also")

Marks(n, k, features) ==
    Concat([j \in DOMAIN features |->
              LET applying == Applying(Layer(n).styles[k], features[j]) IN
              [r \in DOMAIN applying |-> Mark(<<n, k, applying[r], features[j]>>)]])

\* A canvas with a style painted on it.
PaintStyle(canvas, n, k, features) ==
    LET s == Layer(n).styles[k]
        own == WithFilters(Marks(n, k, features), s.filters, <<n, k>>)
        painted == IF StyleIsolated(s)
                   THEN Append(canvas, Item("style", <<n, k>>, own, TRUE))
                   ELSE canvas \o Marks(n, k, features)
    IN WithFilters(painted, s.direct, <<n, k>>)

RECURSIVE PaintStyles(_, _, _)
PaintStyles(canvas, n, passes) ==
    IF passes = <<>> THEN canvas
    ELSE PaintStyles(PaintStyle(canvas, n, Head(passes)[1], Head(passes)[2]),
                     n, Tail(passes))

\* Every active style for every group.
Passes(l) ==
    IF ~l.datasource THEN <<>>
    ELSE Concat([g \in DOMAIN Groups(l) |->
                   [k \in DOMAIN ActiveStyles(l) |->
                      <<ActiveStyles(l)[k], Groups(l)[g]>>]])

IsPainted(l) == l.visible /\ ~Empty(l)

\* A canvas with the layers nested in n, from the m-th on, painted on it.
RECURSIVE PaintLayers(_, _, _)
PaintLayers(canvas, n, m) ==
    IF m > Len(map.layers) THEN canvas
    ELSE IF Layer(m).parent # n \/ ~IsPainted(Layer(m)) THEN PaintLayers(canvas, n, m + 1)
    ELSE LET base == IF LayerIsolated(Layer(m)) THEN <<>> ELSE canvas
             own == PaintLayers(PaintStyles(base, m, Passes(Layer(m))), m, m + 1)
             put == IF LayerIsolated(Layer(m))
                    THEN Append(canvas, Item("layer", <<m>>, own, TRUE)) ELSE own
         IN PaintLayers(WithFilters(put, Layer(m).direct, <<m>>), n, m + 1)

-----------------------------------------------------------------------------
(* Properties *)

\* The finished image is the one described above: every matching rule has
\* drawn every feature once per style, in the painter's order, in the images
\* of the layers and styles it belongs to, whether the features were read
\* once per style, cached or grouped.
PaintedAsDescribed == pc = "done" => images[Pixmap].content = PaintLayers(<<>>, 0, 1)
=============================================================================
