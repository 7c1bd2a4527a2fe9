----------------------------- MODULE AggBuffers -----------------------------
(***************************************************************************)
(* The images agg_renderer draws on (src/agg/agg_renderer.cpp): the pixmap *)
(* of the caller, a stack of internal buffers for the layers and styles    *)
(* that are composited as a whole, one inflated buffer shared by all       *)
(* styles with inflated image filters, and buffers_, the stack of          *)
(* references whose top is drawn on.                                       *)
(*                                                                         *)
(* The content of an image is the sequence of what was drawn on it, so the *)
(* finished pixmap tells the order and nesting of all drawing.             *)
(***************************************************************************)
EXTENDS RenderedMap

VARIABLES
    buffers,    \* buffers_: references, the last one is drawn on
    internals,  \* internal_buffers_.size()
    images,     \* the images references stand for
    border,     \* the offset inflated_buffer_ was allocated for, -1: no buffer
    offset      \* common_.t_.offset()

aggVars == <<buffers, internals, images, border, offset>>

-----------------------------------------------------------------------------
(* References: internal buffers are numbered from the bottom of their stack *)
Pixmap == 0
Inflated == -1
References(n) == Inflated..n

Top == buffers[Len(buffers)]
Below == buffers[Len(buffers) - 1]
Pop(stack) == SubSeq(stack, 1, Len(stack) - 1)

\* premultiplied_alpha_ and painted_ of an image, next to its content.
Blank == [content |-> <<>>, painted |-> FALSE, premultiplied |-> TRUE]

Drawn(image, item) == [image EXCEPT !.content = Append(@, item)]

\* Mutant: the painted flag is not handed down.
CompositedUnpainted(below, image, what, who) ==
    Drawn(below, Item(what, who, image.content,
                      below.premultiplied /\ image.premultiplied))

\* composite, and the merging of the painted flags that follows it.
Composited(below, image, what, who) ==
    [Drawn(below, Item(what, who, image.content,
                       below.premultiplied /\ image.premultiplied))
        EXCEPT !.painted = @ \/ image.painted]

\* Mutant: the filters leave the image as the last of them does.
FilteredOnly(image, filters, who) ==
    IF filters = <<>> THEN image
    ELSE [image EXCEPT !.content = <<Item("filter", who, @, TRUE)>>,
                       !.premultiplied = filters[Len(filters)] = "premultiplies"]

\* apply_filter for each filter, some of which work on demultiplied pixels,
\* then premultiply_alpha.
Filtered(image, filters, who) ==
    IF filters = <<>> THEN image
    ELSE [image EXCEPT !.content = <<Item("filter", who, @, TRUE)>>,
                       !.premultiplied = TRUE]

InitBuffers ==
    /\ buffers = <<Pixmap>>
    /\ internals = 0
    /\ images = [r \in References(0) |->
                   [Blank EXCEPT !.premultiplied = r = Inflated]]
    /\ border = -1
    /\ offset = 0

\* buffers_.emplace(internal_buffers_.push()), premultiplied from the start.
PushInternal ==
    /\ internals' = internals + 1
    /\ images' = [r \in References(internals + 1) |->
                    IF r = internals + 1 THEN Blank ELSE images[r]]
    /\ buffers' = Append(buffers, internals + 1)

PushTop ==
    /\ buffers' = Append(buffers, Top)
    /\ UNCHANGED <<internals, images>>

-----------------------------------------------------------------------------
(* The hooks of the style processor *)

\* start_map_processing: setup fills the pixmap or premultiplies it.
StartMap ==
    /\ images' = [images EXCEPT ![Top].premultiplied = TRUE]
    /\ UNCHANGED <<buffers, internals, border, offset>>

EndMap ==
    /\ images' = [images EXCEPT ![Top].premultiplied = FALSE]
    /\ UNCHANGED <<buffers, internals, border, offset>>

StartLayer(l) ==
    /\ \/ LayerIsolated(l) /\ PushInternal
       \/ ~LayerIsolated(l) /\ PushTop
    /\ UNCHANGED <<border, offset>>

\* A layer with an image of its own is composited and its image freed; the
\* direct filters run on what is below in any case.
EndLayer(l, who) ==
    /\ buffers' = Pop(buffers)
    /\ internals' = IF Top # Below THEN internals - 1 ELSE internals
    /\ LET below == IF Top = Below THEN images[Below]
                    ELSE Composited(images[Below], images[Top], "layer", who)
       IN images' = [r \in References(internals') |->
                       IF r = Below THEN Filtered(below, l.direct, who)
                       ELSE images[r]]
    /\ UNCHANGED <<border, offset>>

Larger(a, b) == IF a >= b THEN a ELSE b

\* Mutant: the inflated buffer is used as the last style left it.
ReusedAsIs(image) == image

\* A buffer filled with transparent colour keeps its painted flag.
Transparent(image) == [image EXCEPT !.content = <<>>, !.premultiplied = TRUE]

\* The inflated buffer is allocated anew when it is too small.
Inflate(s) ==
    LET needed == Larger(offset, s.radius) IN
    /\ offset' = needed
    /\ border' = Larger(border, needed)
    /\ images' = [images EXCEPT ![Inflated] =
                     IF border < needed THEN Blank ELSE Transparent(@)]
    /\ buffers' = Append(buffers, Inflated)
    /\ UNCHANGED internals

StartStyle(s) ==
    \/ StyleIsolated(s) /\ s.inflate /\ Inflate(s)
    \/ /\ \/ StyleIsolated(s) /\ ~s.inflate /\ PushInternal
          \/ ~StyleIsolated(s) /\ PushTop
       /\ offset' = 0
       /\ UNCHANGED border

\* Mutant: the topmost internal buffer is freed, whichever image was used.
FreesTopmost == internals > 0

\* The image of a style is the topmost internal one, not the inflated one.
FreesInternal == internals > 0 /\ Top = internals

\* painted, then end_style_processing: an image of its own is filtered and
\* composited, and the direct filters run on what is below.
EndStyle(s, who, was_painted) ==
    /\ buffers' = Pop(buffers)
    /\ internals' = IF Top # Below /\ FreesInternal THEN internals - 1 ELSE internals
    /\ LET painted == [images[Top] EXCEPT !.painted = @ \/ was_painted]
           image == IF Top = Below THEN painted ELSE Filtered(painted, s.filters, who)
           below == IF Top = Below THEN painted
                    ELSE Composited(images[Below], image, "style", who)
       IN images' = [r \in References(internals') |->
                       CASE r = Below -> Filtered(below, s.direct, who)
                         [] r = Top /\ r # Below -> image
                         [] OTHER -> images[r]]
    /\ UNCHANGED <<border, offset>>

\* A symbolizer of a rule draws a feature on the top image.
Process(who) ==
    /\ images' = [images EXCEPT ![Top] = Drawn(@, Mark(who))]
    /\ UNCHANGED <<buffers, internals, border, offset>>

=============================================================================
