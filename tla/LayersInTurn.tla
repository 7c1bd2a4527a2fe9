---------------------------- MODULE LayersInTurn ----------------------------
(***************************************************************************)
(* A map as agg_renderer paints it in one thread (feature_style_processor  *)
(* apply, agg_renderer start_map_processing to end_map_processing): the    *)
(* background, then the visible layers in the order of the map, each on    *)
(* what is there already.  It is what mapnik::parallelizer is compared     *)
(* with.  How a layer is painted is StyleProcessor's matter; here a layer  *)
(* only has what makes its place among the others matter.                  *)
(***************************************************************************)
EXTENDS Integers, Sequences

CONSTANTS
    Spots,       \* places where layers put labels
    Maps         \* the maps to render

CompOps == {"none", "src_over", "other"}

LayerType == [
    visible : BOOLEAN,     \* layer::visible at this scale
    prepared : BOOLEAN,    \* an active style, or no datasource at all
    marks : BOOLEAN,       \* its symbolizers draw something but labels
    labels : SUBSET Spots, \* where it would like to put labels
    clear : BOOLEAN,       \* clear-label-cache
    blends : BOOLEAN,      \* a style blends into what is below
    comp_op : CompOps,
    translucent : BOOLEAN, \* opacity below 1
    direct : BOOLEAN,      \* direct image filters
    resized : BOOLEAN]     \* an active scale-factor of its own, which only
                           \* the parallelizer heeds

MapType == [background : BOOLEAN, layers : Seq(LayerType)]

VARIABLES
    map,         \* the map rendered
    next,        \* the layer painted last, 0: none
    content,     \* what is on the image
    straight,    \* the image is not premultiplied any more
    taken,       \* the spots in the label collision detector
    outcome      \* "painting", "finished" or "failed"

turnVars == <<map, next, content, straight, taken, outcome>>

-----------------------------------------------------------------------------
(* What is on an image: a sequence of items, each put down over the ones   *)
(* before it; an item that needs what is below it contains it.             *)
Nothing == <<>>
Background(m) == IF m.background THEN <<[what |-> "background"]>> ELSE Nothing

Isolated(l) == l.comp_op # "none" \/ l.translucent

\* The marks and labels of layer n, the free ones of its spots.
Marks(l, n, free) ==
    IF l.marks \/ free # {}
    THEN <<[what |-> "marks", layer |-> n, labels |-> free]>>
    ELSE Nothing

\* The styles of a layer painted on an image.
Styled(below, l, n, free) ==
    IF l.blends
    THEN <<[what |-> "blend", below |-> below, above |-> Marks(l, n, free)]>>
    ELSE below \o Marks(l, n, free)

\* composite: src_over puts premultiplied images one over the other.
Composited(below, above, l) ==
    IF l.comp_op = "other"
    THEN <<[what |-> "composite", below |-> below, above |-> above,
            faded |-> l.translucent]>>
    ELSE IF l.translucent /\ above # Nothing
    THEN below \o <<[what |-> "faded", above |-> above]>>
    ELSE below \o above

Filtered(image, l) ==
    IF l.direct THEN <<[what |-> "filtered", below |-> image]>> ELSE image

\* start_layer_processing clears the detector, whoever filled it.
Detector(l, spots) == IF l.prepared /\ l.clear THEN {} ELSE spots
Free(l, spots) == l.labels \ Detector(l, spots)

\* A layer with a datasource and no active style is not even composited; one
\* without a datasource is, for the layers in it.
Painted(below, l, n, spots) ==
    IF ~l.prepared THEN below
    ELSE Filtered(IF Isolated(l)
                  THEN Composited(below, Styled(Nothing, l, n, Free(l, spots)), l)
                  ELSE Styled(below, l, n, Free(l, spots)), l)

-----------------------------------------------------------------------------
IsNext(n, from) ==
    /\ n \in from + 1..Len(map.layers)
    /\ map.layers[n].visible
    /\ \A k \in from + 1..n - 1 : ~map.layers[k].visible

TurnInit ==
    /\ map \in Maps
    /\ next = 0
    /\ content = Background(map)
    /\ straight = FALSE
    /\ taken = {}
    /\ outcome = "painting"

PaintLayer(n) ==
    /\ outcome = "painting"
    /\ IsNext(n, next)
    /\ next' = n
    /\ LET l == map.layers[n] IN
       /\ content' = Painted(content, l, n, taken)
       /\ taken' = IF l.prepared THEN Detector(l, taken) \cup l.labels ELSE taken
    /\ UNCHANGED <<map, straight, outcome>>

FinishMap ==
    /\ outcome = "painting"
    /\ \A k \in next + 1..Len(map.layers) : ~map.layers[k].visible
    /\ straight' = TRUE
    /\ outcome' = "finished"
    /\ UNCHANGED <<map, next, content, taken>>

\* An exception leaves the image as far as it got.
GiveUp ==
    /\ outcome = "painting"
    /\ outcome' = "failed"
    /\ UNCHANGED <<map, next, content, straight, taken>>

TurnNext ==
    \/ \E n \in DOMAIN map.layers : PaintLayer(n)
    \/ FinishMap
    \/ GiveUp

TurnSpec == TurnInit /\ [][TurnNext]_turnVars
=============================================================================
