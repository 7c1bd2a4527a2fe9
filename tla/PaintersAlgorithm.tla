------------------------- MODULE PaintersAlgorithm -------------------------
(***************************************************************************)
(* What rendering a map promises, without queries, featuresets, buffers    *)
(* of features, shared images and flags: the layers are painted in         *)
(* document order, each with the layers nested in it; each layer's active  *)
(* styles once per group of its features; each style's features in their   *)
(* order; of each feature the rules that apply to it.  A layer or a style  *)
(* that is put down as a whole is painted on a canvas of its own.          *)
(***************************************************************************)
EXTENDS RenderedMap

VARIABLES
    map,        \* the map being painted
    canvases,   \* what is painted on each canvas, the last one on top
    open,       \* the layers begun and not ended, each nested in the one before
    begun,      \* the layers that were begun
    phase,      \* "layers", "styles" of a layer, "features" of a style, the end
    from,       \* the first feature of the group at hand
    style,      \* the style at hand, counted in the active ones
    feature,    \* the feature at hand
    due         \* the rules still to be applied to it

vars == <<map, canvases, open, begun, phase, from, style, feature, due>>

Layer(n) == map.layers[n]
Current == open[Len(open)]
TheLayer == Layer(Current)
StyleNumber == ActiveStyles(TheLayer)[style]
TheStyle == TheLayer.styles[StyleNumber]

Idle == from = 1 /\ style = 1 /\ feature = 0 /\ due = {}

Init ==
    /\ map \in Maps
    /\ canvases = <<<<>>>>
    /\ open = <<>>
    /\ begun = {}
    /\ phase = "layers"
    /\ Idle

-----------------------------------------------------------------------------
(* Canvases *)

Without(stack) == SubSeq(stack, 1, Len(stack) - 1)

\* A new canvas on top for what is painted apart.
Opened(apart) == IF apart THEN Append(canvases, <<>>) ELSE canvases

OnTop(stack, content) == [stack EXCEPT ![Len(stack)] = content]

\* The canvas on top is filtered and put down as a whole, if it was painted
\* apart; the direct filters run on what is then on top.
Closed(apart, what, who, filters, direct) ==
    LET top == canvases[Len(canvases)]
        rest == Without(canvases)
        item == Item(what, who, WithFilters(top, filters, who), TRUE)
    IN IF apart
       THEN OnTop(rest, WithFilters(Append(rest[Len(rest)], item), direct, who))
       ELSE OnTop(canvases, WithFilters(top, direct, who))

-----------------------------------------------------------------------------
(* Layers *)

\* The layers to paint next within the one at hand.
Following ==
    {n \in DOMAIN map.layers \ begun :
        /\ Layer(n).visible /\ ~Empty(Layer(n))
        /\ Layer(n).parent = IF open = <<>> THEN 0 ELSE Current}

BeginLayer ==
    /\ phase = "layers"
    /\ \E n \in Following :
          /\ \A m \in Following : n <= m
          /\ canvases' = Opened(LayerIsolated(Layer(n)))
          /\ open' = Append(open, n)
          /\ begun' = begun \cup {n}
    /\ phase' = "styles"
    /\ UNCHANGED <<map, from, style, feature, due>>

EndLayer ==
    /\ phase = "layers"
    /\ Following = {}
    /\ open # <<>>
    /\ canvases' = Closed(LayerIsolated(TheLayer), "layer", <<Current>>, <<>>,
                          TheLayer.direct)
    /\ open' = Without(open)
    /\ UNCHANGED <<map, begun, phase, from, style, feature, due>>

Finish ==
    /\ phase = "layers"
    /\ Following = {}
    /\ open = <<>>
    /\ phase' = "done"
    /\ UNCHANGED <<map, canvases, open, begun, from, style, feature, due>>

-----------------------------------------------------------------------------
(* Styles and groups *)

\* A layer out of the extent has no features, nor has one of whose datasource
\* there is no featureset; with group-by, the latter is not painted at all.
Count(l) ==
    IF l.datasource /\ l.extent = "inside" /\ ~l.null THEN Len(l.rows) ELSE 0
Skipped(l) == l.extent = "inside" /\ l.null /\ Grouped(l)

BeginStyle ==
    /\ phase = "styles"
    /\ ~Skipped(TheLayer)
    /\ style <= Len(ActiveStyles(TheLayer))
    /\ canvases' = Opened(StyleIsolated(TheStyle))
    /\ feature' = from - 1
    /\ phase' = "features"
    /\ UNCHANGED <<map, open, begun, from, style, due>>

\* All styles are painted, and there are features of another group.
NextGroup ==
    /\ phase = "styles"
    /\ style > Len(ActiveStyles(TheLayer))
    /\ feature < Count(TheLayer)
    /\ from' = feature + 1
    /\ style' = 1
    /\ UNCHANGED <<map, canvases, open, begun, phase, feature, due>>

LeaveStyles ==
    /\ phase = "styles"
    /\ style > Len(ActiveStyles(TheLayer)) \/ Skipped(TheLayer)
    /\ feature >= Count(TheLayer)
    /\ phase' = "layers"
    /\ from' = 1 /\ style' = 1 /\ feature' = 0
    /\ UNCHANGED <<map, canvases, open, begun, due>>

-----------------------------------------------------------------------------
(* Features and rules *)

\* Whether the group at hand has a feature after the one at hand.
HasNext ==
    /\ feature < Count(TheLayer)
    /\ Grouped(TheLayer) /\ feature >= from =>
         TheLayer.rows[feature] = TheLayer.rows[feature + 1]

\* The order rules are applied in: the if rules first.
Precedes(s, a, b) ==
    IF (s.rules[a].kind = "if") = (s.rules[b].kind = "if") THEN a < b
    ELSE s.rules[a].kind = "if"

TakeFeature ==
    /\ phase = "features"
    /\ due = {}
    /\ HasNext
    /\ feature' = feature + 1
    /\ due' = Due(TheStyle, feature + 1)
    /\ UNCHANGED <<map, canvases, open, begun, phase, from, style>>

ApplyRule ==
    /\ phase = "features"
    /\ \E r \in due :
          /\ \A q \in due \ {r} : Precedes(TheStyle, r, q)
          /\ canvases' = OnTop(canvases,
                               Append(canvases[Len(canvases)],
                                      Mark(<<Current, StyleNumber, r, feature>>)))
          /\ due' = due \ {r}
    /\ UNCHANGED <<map, open, begun, phase, from, style, feature>>

EndStyle ==
    /\ phase = "features"
    /\ due = {}
    /\ ~HasNext
    /\ canvases' = Closed(StyleIsolated(TheStyle), "style", <<Current, StyleNumber>>,
                          TheStyle.filters, TheStyle.direct)
    /\ style' = style + 1
    /\ phase' = "styles"
    /\ UNCHANGED <<map, open, begun, from, feature, due>>

\* Rendering may be given up while a layer is painted; nothing is taken back.
GiveUp ==
    /\ phase \in {"styles", "features"}
    /\ phase' = "given up"
    /\ from' = 1 /\ style' = 1 /\ feature' = 0 /\ due' = {}
    /\ UNCHANGED <<map, canvases, open, begun>>

-----------------------------------------------------------------------------
Next ==
    \/ BeginLayer \/ EndLayer \/ Finish
    \/ BeginStyle \/ NextGroup \/ LeaveStyles
    \/ TakeFeature \/ ApplyRule \/ EndStyle
    \/ GiveUp

Spec == Init /\ [][Next]_vars
=============================================================================
