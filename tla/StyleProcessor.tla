--------------------------- MODULE StyleProcessor ---------------------------
(***************************************************************************)
(* feature_style_processor (feature_style_processor_impl.hpp), driving the *)
(* buffers of the AGG renderer: the preparing of the visible layers, which *)
(* queries their datasources, and the rendering, which reads the           *)
(* featuresets, applies the rules of the styles and composites.            *)
(***************************************************************************)
EXTENDS AggBuffers

VARIABLES
    map,            \* the map being rendered
    pc,             \* where apply stands in it
    prep,           \* the number of layers prepare_layers has gone past
    stored,         \* the layers whose materials were kept
    queries,        \* [layer, set]: the featuresets, in the order of the calls
    read,           \* how often next was called on each of them
    todo,           \* the materials render_submaterials has not come to
    open,           \* the layers between their start and their end
    style,          \* the style at hand, counted in active_styles
    buffer,         \* featureset_buffer: features_, pos_, end_
    prev,           \* the last feature pushed to the buffer
    ahead,          \* the feature beyond a group boundary
    row,            \* the feature render_style has at hand
    rules,          \* the rules still to be looked at for it
    flags           \* do_else, do_also, was_painted

procVars == <<map, pc, prep, stored, queries, read, todo, open, style, buffer,
              prev, ahead, row, rules, flags>>
vars == <<map, pc, prep, stored, queries, read, todo, open, style, buffer,
          prev, ahead, row, rules, flags, buffers, internals, images, border,
          offset>>

-----------------------------------------------------------------------------
(* Layers and rules *)

Layer(n) == map.layers[n]

\* rule_cache: the active rules of a style by kind, in their order.
RulesOf(s, kind) == InOrder(RulesIn(s, kind))

Caches(l) == l.cache_features /\ Len(ActiveStyles(l)) > 1

\* How many featuresets prepare_layer asks the datasource for.
Featuresets(l) ==
    IF l.extent # "inside" \/ ActiveStyles(l) = <<>> THEN 0
    ELSE IF Grouped(l) \/ Caches(l) THEN 1
    ELSE Len(ActiveStyles(l))

NoBuffer == [features |-> <<>>, pos |-> 0, end |-> 0]
NoFlags == [do_else |-> FALSE, do_also |-> FALSE, was_painted |-> FALSE]

Goto(label) == pc' = label

Init ==
    /\ map \in Maps
    /\ pc = "start"
    /\ prep = 0
    /\ stored = {}
    /\ queries = <<>>
    /\ read = <<>>
    /\ todo = {}
    /\ open = <<>>
    /\ style = 1
    /\ buffer = NoBuffer
    /\ prev = 0
    /\ ahead = 0
    /\ row = 0
    /\ rules = <<>>
    /\ flags = NoFlags
    /\ InitBuffers

StartMapProcessing ==
    /\ pc = "start"
    /\ StartMap
    /\ Goto("prepare")
    /\ UNCHANGED <<map, prep, stored, queries, read, todo, open, style, buffer,
                   prev, ahead, row, rules, flags>>

-----------------------------------------------------------------------------
(* prepare_layers *)

\* Invisible layers are passed over, and so are the layers nested in one that
\* is passed over or empty.  The children of a layer rendered alone are
\* prepared even when it is empty.
Reached(n) ==
    /\ Layer(n).visible
    /\ \/ Layer(n).parent = 0
       \/ Layer(n).parent \in stored
       \/ map.single /\ Layer(n).parent = 1 /\ Layer(1).visible

\* Mutant: the queries are listed from the last layer to the first.
ListedFirst(n) ==
    [j \in 1..Featuresets(Layer(n)) |-> [layer |-> n, set |-> j]] \o queries

\* The queries with those of layer n.
Listed(n) ==
    queries \o [j \in 1..Featuresets(Layer(n)) |-> [layer |-> n, set |-> j]]

\* prepare_layer, and the storing of a material that is not empty.
PrepareLayer ==
    /\ pc = "prepare"
    /\ prep < Len(map.layers)
    /\ prep' = prep + 1
    /\ IF Reached(prep + 1) /\ ~Empty(Layer(prep + 1))
       THEN /\ stored' = stored \cup {prep + 1}
            /\ queries' = Listed(prep + 1)
            /\ read' = read \o [j \in 1..Featuresets(Layer(prep + 1)) |-> 0]
       ELSE UNCHANGED <<stored, queries, read>>
    /\ UNCHANGED <<map, pc, todo, open, style, buffer, prev, ahead, row, rules,
                   flags, aggVars>>

\* The materials within an empty one that is rendered alone are not rendered.
Unrendered == map.single /\ map.layers # <<>> /\ 1 \notin stored

BeginRendering ==
    /\ pc = "prepare"
    /\ prep = Len(map.layers)
    /\ todo' = IF Unrendered THEN {} ELSE stored
    /\ Goto("layers")
    /\ UNCHANGED <<map, prep, stored, queries, read, open, style, buffer, prev,
                   ahead, row, rules, flags, aggVars>>

-----------------------------------------------------------------------------
(* render_submaterials *)

Current == open[Len(open)]
TheLayer == Layer(Current)

\* The next of the materials nested in the one at hand, if there is one.
Nested ==
    {n \in todo : /\ \A m \in todo : n <= m
                  /\ Layer(n).parent = IF open = <<>> THEN 0 ELSE Current}

OpenLayer ==
    /\ pc = "layers"
    /\ \E n \in Nested :
          /\ StartLayer(Layer(n))
          /\ open' = Append(open, n)
          /\ todo' = todo \ {n}
    /\ Goto("material")
    /\ UNCHANGED <<map, prep, stored, queries, read, style, buffer, prev, ahead,
                   row, rules, flags>>

CloseLayer ==
    /\ pc = "layers"
    /\ Nested = {}
    /\ open # <<>>
    /\ EndLayer(TheLayer, <<Current>>)
    /\ open' = Pop(open)
    /\ UNCHANGED <<map, pc, prep, stored, queries, read, todo, style, buffer,
                   prev, ahead, row, rules, flags>>

EndMapProcessing ==
    /\ pc = "layers"
    /\ Nested = {}
    /\ open = <<>>
    /\ EndMap
    /\ Goto("done")
    /\ UNCHANGED <<map, prep, stored, queries, read, todo, open, style, buffer,
                   prev, ahead, row, rules, flags>>

-----------------------------------------------------------------------------
(* render_material *)

\* The featureset of the j-th query of a layer, and its next feature, if any.
QueryOf(n, j) == CHOOSE q \in DOMAIN queries : queries[q] = [layer |-> n, set |-> j]
Remains(n, j) == read[QueryOf(n, j)] < Len(Layer(n).rows)
NextFeature(n, j) == read[QueryOf(n, j)] + 1
Reads(n, j) == read' = [read EXCEPT ![QueryOf(n, j)] = @ + 1]

\* Where the styles of a layer take their features from.  A layer out of the
\* extent was not queried; the datasource may also return no featureset.
Source(l) ==
    IF Featuresets(l) = 0 THEN "none"
    ELSE IF Grouped(l) \/ Caches(l) THEN "buffer"
    ELSE IF l.null THEN "none" ELSE "query"

RenderMaterial ==
    /\ pc = "material"
    /\ style' = 1
    /\ buffer' = NoBuffer
    /\ prev' = 0
    /\ Goto(IF ~TheLayer.datasource THEN "layers"
            ELSE IF Source(TheLayer) # "buffer" THEN "styles"
            ELSE IF ~TheLayer.null THEN "fetch"
            ELSE IF Grouped(TheLayer) THEN "layers" ELSE "styles")
    /\ UNCHANGED <<map, prep, stored, queries, read, todo, open, ahead, row,
                   rules, flags, aggVars>>

\* Whether the next feature is the first of another group.
AtBoundary ==
    /\ Grouped(TheLayer)
    /\ prev # 0
    /\ TheLayer.rows[prev] # TheLayer.rows[NextFeature(Current, 1)]

\* The features are buffered, all of them or up to a group boundary.
Fetch ==
    /\ pc = "fetch"
    /\ Reads(Current, 1)
    /\ \/ /\ Remains(Current, 1) /\ ~AtBoundary
          /\ buffer' = [buffer EXCEPT !.features = Append(@, NextFeature(Current, 1))]
          /\ prev' = NextFeature(Current, 1)
          /\ UNCHANGED <<pc, style, ahead>>
       \/ /\ Remains(Current, 1) /\ AtBoundary
          /\ ahead' = NextFeature(Current, 1)
          /\ style' = 1
          /\ Goto("styles")
          /\ UNCHANGED <<buffer, prev>>
       \/ /\ ~Remains(Current, 1)
          /\ style' = 1
          /\ Goto("styles")
          /\ UNCHANGED <<buffer, prev, ahead>>
    /\ UNCHANGED <<map, prep, stored, queries, todo, open, row, rules, flags,
                   aggVars>>

\* Mutant: the buffer keeps the group that was rendered.
Kept == buffer

\* featureset_buffer::clear, which leaves pos_ and end_ to the next prepare.
Cleared == [buffer EXCEPT !.features = <<>>]

\* All styles are rendered: on with the feature beyond the boundary.
EndPass ==
    /\ pc = "styles"
    /\ style > Len(ActiveStyles(TheLayer))
    /\ IF ahead # 0
       THEN /\ buffer' = [Cleared EXCEPT !.features = Append(@, ahead)]
            /\ prev' = ahead
            /\ Goto("fetch")
       ELSE /\ buffer' = IF Grouped(TheLayer) THEN Cleared ELSE buffer
            /\ Goto("layers")
            /\ UNCHANGED prev
    /\ ahead' = 0
    /\ UNCHANGED <<map, prep, stored, queries, read, todo, open, style, row,
                   rules, flags, aggVars>>

-----------------------------------------------------------------------------
(* render_style *)

StyleNumber == ActiveStyles(TheLayer)[style]
TheStyle == TheLayer.styles[StyleNumber]

\* featureset_buffer::prepare, then the head of render_style.
BeginStyle ==
    /\ pc = "styles"
    /\ style <= Len(ActiveStyles(TheLayer))
    /\ StartStyle(TheStyle)
    /\ buffer' = IF Source(TheLayer) # "buffer" THEN buffer
                 ELSE [buffer EXCEPT !.pos = 0, !.end = Len(buffer.features)]
    /\ flags' = [flags EXCEPT !.was_painted = FALSE]
    /\ Goto("rows")
    /\ UNCHANGED <<map, prep, stored, queries, read, todo, open, style, prev,
                   ahead, row, rules>>

TakesRow(f) ==
    /\ row' = f
    /\ rules' = RulesOf(TheStyle, "if")
    /\ flags' = [flags EXCEPT !.do_else = TRUE, !.do_also = FALSE]
    /\ Goto("if")
    /\ UNCHANGED <<style, aggVars>>

FinishesStyle ==
    /\ EndStyle(TheStyle, <<Current, StyleNumber>>, flags.was_painted)
    /\ style' = style + 1
    /\ Goto("styles")
    /\ UNCHANGED <<row, rules, flags>>

\* features->next(): of the buffer, of the style's own featureset, or none.
NextRow ==
    /\ pc = "rows"
    /\ \/ /\ Source(TheLayer) = "none"
          /\ FinishesStyle
          /\ UNCHANGED <<buffer, read>>
       \/ /\ Source(TheLayer) = "buffer"
          /\ IF buffer.pos # buffer.end
             THEN /\ TakesRow(buffer.features[buffer.pos + 1])
                  /\ buffer' = [buffer EXCEPT !.pos = @ + 1]
             ELSE FinishesStyle /\ UNCHANGED buffer
          /\ UNCHANGED read
       \/ /\ Source(TheLayer) = "query"
          /\ Reads(Current, style)
          /\ IF Remains(Current, style) THEN TakesRow(NextFeature(Current, style))
             ELSE FinishesStyle
          /\ UNCHANGED buffer
    /\ UNCHANGED <<map, prep, stored, queries, todo, open, prev, ahead>>

\* The symbolizers of a rule.
Applies(r) == Process(<<Current, StyleNumber, r, row>>)

IfRule ==
    /\ pc = "if"
    /\ rules # <<>>
    /\ \/ /\ row \in TheStyle.rules[Head(rules)].matches
          /\ Applies(Head(rules))
          /\ flags' = [do_else |-> FALSE, do_also |-> ~TheStyle.filter_first,
                       was_painted |-> TRUE]
          /\ rules' = IF TheStyle.filter_first THEN <<>> ELSE Tail(rules)
       \/ /\ row \notin TheStyle.rules[Head(rules)].matches
          /\ rules' = Tail(rules)
          /\ UNCHANGED <<flags, aggVars>>
    /\ UNCHANGED <<map, pc, prep, stored, queries, read, todo, open, style,
                   buffer, prev, ahead, row>>

\* The if rules are through: the else rules, then the also rules.
ElseAndAlso ==
    /\ pc = "if"
    /\ rules = <<>>
    /\ rules' = (IF flags.do_else THEN RulesOf(TheStyle, "else") ELSE <<>>)
                \o (IF flags.do_also THEN RulesOf(TheStyle, "also") ELSE <<>>)
    /\ Goto("other")
    /\ UNCHANGED <<map, prep, stored, queries, read, todo, open, style, buffer,
                   prev, ahead, row, flags, aggVars>>

OtherRule ==
    /\ pc = "other"
    /\ \/ /\ rules # <<>>
          /\ Applies(Head(rules))
          /\ flags' = [flags EXCEPT !.was_painted = TRUE]
          /\ rules' = Tail(rules)
          /\ UNCHANGED pc
       \/ /\ rules = <<>>
          /\ Goto("rows")
          /\ UNCHANGED <<rules, flags, aggVars>>
    /\ UNCHANGED <<map, prep, stored, queries, read, todo, open, style, buffer,
                   prev, ahead, row>>

\* A featureset or a symbolizer throws; the exception leaves apply, which
\* takes nothing back.
Throws ==
    /\ pc \in {"fetch", "rows", "if", "other"}
    /\ Goto("thrown")
    /\ UNCHANGED <<map, prep, stored, queries, read, todo, open, style, buffer,
                   prev, ahead, row, rules, flags, aggVars>>

-----------------------------------------------------------------------------
Next ==
    \/ StartMapProcessing \/ PrepareLayer \/ BeginRendering
    \/ OpenLayer \/ CloseLayer \/ EndMapProcessing
    \/ RenderMaterial \/ Fetch \/ EndPass
    \/ BeginStyle \/ NextRow \/ IfRule \/ ElseAndAlso \/ OtherRule
    \/ Throws

Spec == Init /\ [][Next]_vars

-----------------------------------------------------------------------------
(* Properties *)

TypeOK ==
    /\ pc \in {"start", "prepare", "layers", "material", "fetch", "styles",
               "rows", "if", "other", "done", "thrown"}
    /\ prep \in 0..Len(map.layers)
    /\ stored \subseteq 1..prep
    /\ \A q \in DOMAIN queries : queries[q].layer \in stored
    /\ read \in Seq(Nat) /\ Len(read) = Len(queries)
    /\ todo \subseteq stored
    /\ open \in Seq(stored)
    /\ style \in Nat \ {0}
    /\ {prev, ahead, row} \subseteq Nat
    /\ buffer.features \in Seq(Nat) /\ {buffer.pos, buffer.end} \subseteq Nat
    /\ rules \in Seq(Nat)
    /\ flags \in [{"do_else", "do_also", "was_painted"} -> BOOLEAN]
    /\ internals \in Nat
    /\ buffers \in Seq(References(internals)) /\ buffers # <<>>
    /\ DOMAIN images = References(internals)
    /\ border \in Nat \cup {-1}
    /\ offset \in Nat

InStyle == pc \in {"rows", "if", "other"}

\* The references and the buffers they stand for keep in step, however layers
\* nest and styles inflate: an open layer draws on the buffer of its innermost
\* isolated layer, a style on that or on one of its own, no buffer is freed
\* while it is referred to, and none is kept.
BuffersMatchLayers ==
    pc # "thrown" =>
        /\ Len(buffers) = 1 + Len(open) + (IF InStyle THEN 1 ELSE 0)
        /\ buffers[1] = Pixmap
        /\ \A d \in DOMAIN open :
              buffers[d + 1] = IF LayerIsolated(Layer(open[d])) THEN buffers[d] + 1
                               ELSE buffers[d]
        /\ LET layers == buffers[Len(open) + 1]
               isolated == InStyle /\ StyleIsolated(TheStyle)
               inflated == isolated /\ TheStyle.inflate
           IN /\ internals = IF isolated /\ ~inflated THEN layers + 1 ELSE layers
              /\ InStyle => Top = IF inflated THEN Inflated ELSE internals

\* What is drawn on and composited is premultiplied all the time, whatever the
\* image filters leave behind: the assertion of composite in a debug build.
DrawnPremultiplied ==
    pc \notin {"start", "done", "thrown"} =>
        \A d \in DOMAIN buffers : images[buffers[d]].premultiplied

\* The featuresets are read one after the other in the order of the queries,
\* each to its end, whatever path a layer takes: what the asynchronous queries
\* of the PostGIS plugin count on.  Only the children of an empty layer that
\* is rendered alone are queried for nothing.
Finished(q) ==
    Layer(queries[q].layer).null \/ read[q] = Len(Layer(queries[q].layer).rows) + 1
ReadAsPrepared ==
    /\ \A q \in DOMAIN read : read[q] > 0 => \A p \in 1..q - 1 : Finished(p)
    /\ pc = "done" /\ ~Unrendered => \A q \in DOMAIN read : Finished(q)

\* The painted flag of the finished image is that of any drawing on it,
\* although the inflated buffer carries its flag from style to style.
PaintedFlagTrue ==
    pc = "done" => images[Pixmap].painted = HasMark(images[Pixmap].content)

-----------------------------------------------------------------------------
(* What the rendering looks like to one who does not know of queries,      *)
(* featuresets, buffers and flags: a painter at work.                      *)

PainterPhase ==
    CASE pc \in {"start", "prepare", "layers"} -> "layers"
      [] pc \in {"material", "fetch", "styles"} -> "styles"
      [] pc \in {"rows", "if", "other"} -> "features"
      [] pc = "done" -> "done"
      [] pc = "thrown" -> "given up"

PainterBegun == IF pc \in {"start", "prepare"} \/ Unrendered THEN {} ELSE stored \ todo

\* The pixmap and the internal buffers, and the inflated one if it is drawn on.
PainterCanvases ==
    [d \in 1..internals + (IF Top = Inflated THEN 2 ELSE 1) |->
        images[IF d = internals + 2 THEN Inflated ELSE d - 1].content]

\* A group starts with the feature the buffer does.
PainterFrom ==
    IF pc \in {"fetch", "styles", "rows", "if", "other"} /\ buffer.features # <<>>
    THEN buffer.features[1] ELSE 1

PainterStyle == IF pc = "styles" \/ InStyle THEN style ELSE 1

\* How many features of its group the style has read, or the one before it.
Taken ==
    IF Source(TheLayer) = "query"
    THEN IF InStyle THEN read[QueryOf(Current, style)] ELSE Len(TheLayer.rows)
    ELSE IF InStyle THEN buffer.pos ELSE Len(buffer.features)
PainterFeature ==
    PainterFrom - 1 + IF InStyle \/ PainterStyle > 1 THEN Taken ELSE 0

\* Of the if rules, those that will apply, with what is to follow them.
PainterDue ==
    LET remaining == {rules[k] : k \in DOMAIN rules}
    IN CASE pc = "if" /\ flags.do_else -> Due(TheStyle, row)
         [] pc = "if" /\ ~flags.do_else ->
              {r \in remaining : row \in TheStyle.rules[r].matches}
              \cup IF flags.do_also THEN RulesIn(TheStyle, "also") ELSE {}
         [] pc = "other" -> remaining
         [] OTHER -> {}

Painter == INSTANCE PaintersAlgorithm WITH
    canvases <- PainterCanvases, begun <- PainterBegun, phase <- PainterPhase,
    from <- PainterFrom, style <- PainterStyle, feature <- PainterFeature,
    due <- PainterDue

\* Every step of the rendering is one of the painter's, or is none of his
\* business: whether features are read once per style, cached or grouped, on
\* whichever buffer they are drawn, every feature is drawn by the rules that
\* apply to it, in its turn, on the canvas of its layer and style.
FollowsPainter == Painter!Spec
=============================================================================
