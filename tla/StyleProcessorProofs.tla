------------------------ MODULE StyleProcessorProofs ------------------------
(***************************************************************************)
(* Proofs about StyleProcessor, for every set of maps: the references of   *)
(* the AGG renderer stay in step with its internal buffers, what is drawn  *)
(* on is premultiplied, the featuresets are read in the order of their     *)
(* queries, the variables have their types, and the painted flag of the    *)
(* finished image is that of the drawing on it.                            *)
(***************************************************************************)
EXTENDS StyleProcessor, FiniteSetTheorems, SequenceTheorems, TLAPS

Labels == {"start", "prepare", "layers", "material", "fetch", "styles",
           "rows", "if", "other", "done", "thrown"}
IsImage(image) == DOMAIN image = {"content", "painted", "premultiplied"}

\* The types the argument needs.
Shapes ==
    /\ pc \in Labels
    /\ prep \in Nat
    /\ stored \subseteq Nat
    /\ todo \subseteq Nat
    /\ open \in Seq(Nat)
    /\ internals \in Nat
    /\ buffers \in Seq(Int)
    /\ DOMAIN images = References(internals)
    /\ \A r \in References(internals) : IsImage(images[r])

\* The images of all references are premultiplied, not only those in use: an
\* internal buffer comes into use again when what is above it is freed.
AllPremultiplied ==
    pc \notin {"start", "done", "thrown"} =>
        \A r \in References(internals) : images[r].premultiplied

\* The images of the open layers lie in their order on the internal stack, so
\* that freeing the topmost one takes none of them away.
Ascending ==
    pc # "thrown" =>
        \A c, d \in 1..Len(open) + 1 :
            c <= d => buffers[c] >= 0 /\ buffers[c] <= buffers[d]

\* Before the start there is the pixmap, premultiplied or not.
AtStart ==
    pc = "start" => /\ internals = 0 /\ open = <<>> /\ buffers = <<Pixmap>>
                    /\ images[Inflated].premultiplied

\* The inductive invariant.
IInv == Shapes /\ BuffersMatchLayers /\ Ascending /\ AllPremultiplied /\ AtStart

-----------------------------------------------------------------------------
(* The operations on images *)

LEMMA BlankIsImage == IsImage(Blank) /\ Blank.premultiplied
BY DEF Blank, IsImage

\* Compositing leaves the image below as premultiplied as it was.
LEMMA CompositedKeeps ==
    ASSUME NEW below, NEW image, NEW what, NEW who, IsImage(below)
    PROVE  /\ IsImage(Composited(below, image, what, who))
           /\ Composited(below, image, what, who).premultiplied = below.premultiplied
BY DEF IsImage, Composited, Drawn

\* Filters leave an image premultiplied.
LEMMA FilteredKeeps ==
    ASSUME NEW image, NEW filters, NEW who, IsImage(image)
    PROVE  /\ IsImage(Filtered(image, filters, who))
           /\ image.premultiplied => Filtered(image, filters, who).premultiplied
BY DEF IsImage, Filtered

LEMMA TransparentKeeps ==
    ASSUME NEW image, IsImage(image)
    PROVE  IsImage(Transparent(image)) /\ Transparent(image).premultiplied
BY DEF IsImage, Transparent

-----------------------------------------------------------------------------
(* Every step keeps the invariant *)

LEMMA InitIInv == Init => IInv
<1> SUFFICES ASSUME Init PROVE IInv
  OBVIOUS
<1> USE DEF Init, InitBuffers
<1>1. Shapes
  BY DEF Shapes, Labels, References, Pixmap, Inflated, IsImage, Blank
<1>2. BuffersMatchLayers /\ Ascending
  BY DEF BuffersMatchLayers, Ascending, InStyle, Pixmap
<1>3. AllPremultiplied /\ AtStart
  BY DEF AllPremultiplied, AtStart, Blank, References, Inflated, Pixmap
<1> QED
  BY <1>1, <1>2, <1>3 DEF IInv

\* The style at hand is the same as long as the layer and the number are.
LEMMA SameStyle ==
    ASSUME UNCHANGED <<map, open, style>>
    PROVE  TheStyle' = TheStyle
BY DEF TheStyle, StyleNumber, TheLayer, Layer, Current

\* Steps that touch neither the buffers nor the layers nor the style.
LEMMA KeepsIInv ==
    ASSUME IInv, UNCHANGED <<map, open, aggVars>>, pc' \in Labels,
           pc \notin {"start", "done", "thrown"}, pc' # "start",
           InStyle' = InStyle \/ pc' = "thrown", InStyle => style' = style,
           prep' \in Nat, stored' \subseteq Nat, todo' \subseteq Nat
    PROVE  IInv'
<1> USE DEF IInv, aggVars
<1>1. Shapes'
  BY DEF Shapes, References
<1>2. BuffersMatchLayers' /\ Ascending'
  <2> SUFFICES ASSUME pc' # "thrown" PROVE BuffersMatchLayers' /\ Ascending'
    BY DEF BuffersMatchLayers, Ascending
  <2>1. InStyle' = InStyle
    OBVIOUS
  <2>2. InStyle => TheStyle' = TheStyle
    BY SameStyle
  <2>3. BuffersMatchLayers'
    BY <2>1, <2>2 DEF BuffersMatchLayers, Layer, Top
  <2>4. Ascending'
    BY DEF Ascending
  <2> QED
    BY <2>3, <2>4
<1>3. AllPremultiplied' /\ AtStart'
  BY DEF AllPremultiplied, AtStart, References, Labels
<1> QED
  BY <1>1, <1>2, <1>3

LEMMA PreparationKeeps ==
    ASSUME IInv, PrepareLayer \/ BeginRendering
    PROVE  IInv'
<1>1. CASE PrepareLayer
  <2>1. stored' = stored \cup {prep + 1} \/ stored' = stored
    BY <1>1, Zenon DEF PrepareLayer
  <2>2. prep' = prep + 1 /\ todo' = todo
    BY <1>1, Zenon DEF PrepareLayer
  <2>3. prep' \in Nat /\ stored' \subseteq Nat /\ todo' \subseteq Nat
    <3>1. prep \in Nat /\ stored \subseteq Nat /\ todo \subseteq Nat
      BY Zenon DEF IInv, Shapes
    <3>2. prep + 1 \in Nat
      BY <3>1
    <3> QED
      BY <2>1, <2>2, <3>1, <3>2
  <2> QED
    BY <1>1, <2>3, KeepsIInv, Zenon DEF PrepareLayer, aggVars, Labels, InStyle
<1>2. CASE BeginRendering
  <2>1. prep' \in Nat /\ stored' \subseteq Nat /\ todo' \subseteq Nat
    BY <1>2 DEF IInv, Shapes, BeginRendering
  <2> QED
    BY <1>2, <2>1, KeepsIInv DEF BeginRendering, aggVars, Goto, Labels, InStyle
<1> QED
  BY <1>1, <1>2

\* The steps that read features and choose rules.
LEMMA ReadingKeeps ==
    ASSUME IInv, RenderMaterial \/ Fetch \/ EndPass \/ ElseAndAlso \/ Throws
    PROVE  IInv'
<1>1. prep' \in Nat /\ stored' \subseteq Nat /\ todo' \subseteq Nat
  BY DEF IInv, Shapes, RenderMaterial, Fetch, EndPass, ElseAndAlso, Throws
<1> USE <1>1, KeepsIInv DEF aggVars, Goto, Labels, InStyle
<1>2. CASE RenderMaterial
  BY <1>2 DEF RenderMaterial
<1>3. CASE Fetch
  BY <1>3 DEF Fetch
<1>4. CASE EndPass
  BY <1>4 DEF EndPass
<1>5. CASE ElseAndAlso
  BY <1>5 DEF ElseAndAlso
<1>6. CASE Throws
  BY <1>6 DEF Throws
<1> QED
  BY <1>2, <1>3, <1>4, <1>5, <1>6

LEMMA StartKeeps ==
    ASSUME IInv, StartMapProcessing
    PROVE  IInv'
<1> USE DEF StartMapProcessing, StartMap, Goto
<1>0. /\ internals = 0 /\ open = <<>> /\ buffers = <<Pixmap>>
      /\ images[Inflated].premultiplied
  BY DEF IInv, AtStart
<1>1. /\ internals' = 0 /\ open' = <<>> /\ buffers' = <<Pixmap>>
      /\ pc' = "prepare"
      /\ images' = [images EXCEPT ![0].premultiplied = TRUE]
  <2>1. Top = 0
    BY <1>0 DEF Top, Pixmap
  <2> QED
    BY <1>0, <2>1
<1>2. Shapes'
  BY <1>1 DEF IInv, Shapes, Labels, References, IsImage, Inflated, Pixmap
<1>3. BuffersMatchLayers' /\ Ascending'
  BY <1>1 DEF BuffersMatchLayers, Ascending, InStyle, Pixmap
<1>4. AllPremultiplied' /\ AtStart'
  <2>1. DOMAIN images = {-1, 0} /\ IsImage(images[0]) /\ images[-1].premultiplied
    BY DEF IInv, Shapes, AtStart, References, Inflated
  <2>2. References(internals)' = {-1, 0}
    BY <1>1 DEF References, Inflated
  <2> QED
    BY <1>1, <2>1, <2>2 DEF AllPremultiplied, AtStart, IsImage
<1> QED
  BY <1>2, <1>3, <1>4 DEF IInv

LEMMA EndKeeps ==
    ASSUME IInv, EndMapProcessing
    PROVE  IInv'
<1> USE DEF EndMapProcessing, EndMap, Goto
<1>1. Shapes'
  BY DEF IInv, Shapes, Labels, References, IsImage
<1>2. BuffersMatchLayers' /\ Ascending'
  BY DEF IInv, BuffersMatchLayers, Ascending, InStyle, Layer
<1>3. AllPremultiplied' /\ AtStart'
  BY DEF AllPremultiplied, AtStart
<1> QED
  BY <1>1, <1>2, <1>3 DEF IInv

\* A symbolizer draws on an image without changing what it is.
LEMMA ProcessKeeps ==
    ASSUME IInv, NEW who, Process(who), UNCHANGED <<map, open, style>>,
           pc' = pc, pc \in {"if", "other"}, UNCHANGED <<prep, stored, todo>>
    PROVE  IInv'
<1> USE DEF Process
<1>1. Shapes'
  BY DEF IInv, Shapes, References, IsImage, Drawn
<1>2. BuffersMatchLayers'
  <2>1. TheStyle' = TheStyle
    BY SameStyle
  <2> QED
    BY <2>1 DEF IInv, BuffersMatchLayers, InStyle, Layer, Top
<1>3. Ascending' /\ AtStart'
  BY DEF IInv, Ascending, AtStart
<1>4. AllPremultiplied'
  BY DEF IInv, Shapes, AllPremultiplied, References, IsImage, Drawn
<1> QED
  BY <1>1, <1>2, <1>3, <1>4 DEF IInv

LEMMA RulesKeep ==
    ASSUME IInv, IfRule \/ OtherRule
    PROVE  IInv'
<1> USE DEF InStyle, Labels
<1>1. UNCHANGED <<map, open, style>> /\ UNCHANGED <<prep, stored, todo>>
  BY DEF IfRule, OtherRule
<1>2. prep' \in Nat /\ stored' \subseteq Nat /\ todo' \subseteq Nat
  BY <1>1 DEF IInv, Shapes
<1>3. CASE IfRule
  <2>1. pc' = pc /\ pc = "if"
    BY <1>3 DEF IfRule
  <2>2. Applies(Head(rules)) \/ UNCHANGED aggVars
    BY <1>3 DEF IfRule
  <2> QED
    BY <1>1, <1>2, <2>1, <2>2, ProcessKeeps, KeepsIInv DEF Applies
<1>4. CASE OtherRule
  <2>1. pc = "other"
    BY <1>4 DEF OtherRule
  <2>2. \/ Applies(Head(rules)) /\ pc' = pc
        \/ UNCHANGED aggVars /\ pc' = "rows"
    BY <1>4 DEF OtherRule, Goto
  <2> QED
    BY <1>1, <1>2, <2>1, <2>2, ProcessKeeps, KeepsIInv DEF Applies
<1> QED
  BY <1>3, <1>4

\* Where the buffers stand between two layers: none of a style is left.
LEMMA BetweenLayers ==
    ASSUME IInv, pc \in {"layers", "material", "fetch", "styles"}
    PROVE  /\ Len(buffers) = Len(open) + 1 /\ Top = internals
           /\ buffers[1] = Pixmap
           /\ \A d \in DOMAIN open :
                 buffers[d + 1] = IF LayerIsolated(Layer(open[d])) THEN buffers[d] + 1
                                  ELSE buffers[d]
<1>1. ~InStyle
  BY DEF InStyle
<1>2. Len(buffers) = Len(open) + 1 /\ internals = buffers[Len(open) + 1]
  BY <1>1 DEF IInv, Shapes, BuffersMatchLayers
<1> QED
  BY <1>1, <1>2 DEF IInv, BuffersMatchLayers, Top

LEMMA OpenLayerKeeps ==
    ASSUME IInv, OpenLayer
    PROVE  IInv'
<1> PICK n \in Nested : /\ StartLayer(Layer(n))
                        /\ open' = Append(open, n)
                        /\ todo' = todo \ {n}
  BY DEF OpenLayer
<1>1. n \in Nat /\ open \in Seq(Nat) /\ buffers \in Seq(Int) /\ internals \in Nat
  BY DEF IInv, Shapes, Nested
<1>2. UNCHANGED <<map, style, prep, stored>> /\ pc = "layers" /\ pc' = "material"
  BY DEF OpenLayer, Goto
<1>3. /\ Len(buffers) = Len(open) + 1 /\ Top = internals
      /\ buffers[1] = Pixmap
      /\ \A d \in DOMAIN open :
            buffers[d + 1] = IF LayerIsolated(Layer(open[d])) THEN buffers[d] + 1
                             ELSE buffers[d]
  BY <1>2, BetweenLayers
<1> DEFINE apart == LayerIsolated(Layer(n))
           top == IF apart THEN internals + 1 ELSE internals
<1>4. /\ internals' = top
      /\ buffers' = Append(buffers, top)
      /\ IF apart THEN images' = [r \in References(internals + 1) |->
                                    IF r = internals + 1 THEN Blank ELSE images[r]]
         ELSE images' = images
  BY <1>3 DEF StartLayer, PushInternal, PushTop
<1>5. Shapes'
  BY <1>1, <1>2, <1>4, BlankIsImage
  DEF IInv, Shapes, Labels, References, Inflated
<1>6. BuffersMatchLayers'
  <2>1. ~InStyle' /\ Layer(n)' = Layer(n)
    BY <1>2 DEF InStyle, Layer
  <2>2. Len(buffers') = 1 + Len(open') /\ buffers'[1] = Pixmap
    BY <1>1, <1>3, <1>4
  <2>3. ASSUME NEW d \in DOMAIN open'
        PROVE  (buffers[d + 1] = IF LayerIsolated(Layer(open[d])) THEN buffers[d] + 1
                                 ELSE buffers[d])'
    <3>1. CASE d \in DOMAIN open
      <4>1. open'[d] = open[d] /\ buffers'[d] = buffers[d] /\ buffers'[d + 1] = buffers[d + 1]
        BY <1>1, <1>3, <1>4, <3>1
      <4> QED
        BY <1>2, <1>3, <3>1, <4>1 DEF Layer
    <3>2. CASE d = Len(open) + 1
      <4>1. open'[d] = n /\ buffers'[d] = Top /\ buffers'[d + 1] = top
        BY <1>1, <1>3, <1>4, <3>2 DEF Top
      <4> QED
        BY <1>2, <1>3, <4>1 DEF Layer
    <3> QED
      BY <1>1, <3>1, <3>2
  <2>4. internals' = buffers'[Len(open') + 1]
    BY <1>1, <1>3, <1>4
  <2> QED
    BY <2>1, <2>2, <2>3, <2>4 DEF BuffersMatchLayers
<1>7. Ascending' /\ AtStart'
  <2>1. \A c \in 1..Len(open) + 1 : buffers[c] >= 0 /\ buffers[c] <= internals
    BY <1>1, <1>2, <1>3 DEF IInv, Ascending, Top
  <2>2. Len(open') = Len(open) + 1
    BY <1>1
  <2> QED
    BY <1>1, <1>2, <1>3, <1>4, <2>1, <2>2 DEF IInv, Ascending, AtStart
<1>8. AllPremultiplied'
  <2>1. \A r \in References(internals) : images[r].premultiplied
    BY <1>2 DEF IInv, AllPremultiplied
  <2>2. CASE apart
    <3>1. \A r \in References(internals + 1) : images'[r].premultiplied
      <4> TAKE r \in References(internals + 1)
      <4>1. images'[r] = IF r = internals + 1 THEN Blank ELSE images[r]
        BY <1>4, <2>2
      <4>2. r = internals + 1 \/ r \in References(internals)
        BY <1>1 DEF References, Inflated
      <4> QED
        BY <2>1, <4>1, <4>2, BlankIsImage, Zenon
    <3> QED
      BY <1>4, <2>2, <3>1 DEF AllPremultiplied
  <2>3. CASE ~apart
    BY <1>4, <2>1, <2>3 DEF AllPremultiplied
  <2> QED
    BY <2>2, <2>3
<1> QED
  BY <1>5, <1>6, <1>7, <1>8 DEF IInv

LEMMA CloseLayerKeeps ==
    ASSUME IInv, CloseLayer
    PROVE  IInv'
<1>1. open \in Seq(Nat) /\ open # <<>> /\ buffers \in Seq(Int) /\ internals \in Nat
  BY DEF IInv, Shapes, CloseLayer
<1>2. /\ UNCHANGED <<map, style, prep, stored, todo>>
      /\ pc = "layers" /\ pc' = "layers"
      /\ EndLayer(TheLayer, <<Current>>) /\ open' = Pop(open)
  BY DEF CloseLayer
<1>3. /\ Len(buffers) = Len(open) + 1 /\ Top = internals
      /\ buffers[1] = Pixmap
      /\ \A d \in DOMAIN open :
            buffers[d + 1] = IF LayerIsolated(Layer(open[d])) THEN buffers[d] + 1
                             ELSE buffers[d]
  BY <1>2, BetweenLayers
<1>4. \A c, d \in 1..Len(open) + 1 :
         c <= d => buffers[c] >= 0 /\ buffers[c] <= buffers[d]
  BY <1>2 DEF IInv, Ascending
<1>5. /\ Len(open) \in Nat \ {0}
      /\ Below = buffers[Len(open)] /\ Below \in Int
      /\ Below >= 0 /\ Below <= internals
      /\ Top = Below \/ Top = Below + 1
  BY <1>1, <1>3, <1>4 DEF Below, Top
<1>6. internals' = Below
  BY <1>2, <1>3, <1>5 DEF EndLayer
<1>7. /\ open' \in Seq(Nat) /\ Len(open') = Len(open) - 1
      /\ DOMAIN open' = 1..Len(open) - 1 /\ DOMAIN open = 1..Len(open)
      /\ \A d \in 1..Len(open) - 1 : open'[d] = open[d]
  BY <1>1, <1>2 DEF Pop
<1>8. /\ buffers' \in Seq(Int) /\ Len(buffers') = Len(open)
      /\ \A d \in 1..Len(open) : buffers'[d] = buffers[d]
  BY <1>1, <1>2, <1>3, <1>5 DEF EndLayer, Pop
<1> DEFINE below == IF Top = Below THEN images[Below]
                    ELSE Composited(images[Below], images[Top], "layer", <<Current>>)
<1>9. images' = [r \in References(internals') |->
                   IF r = Below THEN Filtered(below, TheLayer.direct, <<Current>>)
                   ELSE images[r]]
  BY <1>2 DEF EndLayer
<1>10. IsImage(below) /\ (images[Below].premultiplied => below.premultiplied)
  <2>1. IsImage(images[Below])
    BY <1>1, <1>5 DEF IInv, Shapes, References, Inflated
  <2> QED
    BY <2>1, CompositedKeeps
<1>11. \A r \in References(internals') : r \in References(internals)
  BY <1>1, <1>5, <1>6 DEF References, Inflated
<1> HIDE DEF below
<1>12. Shapes'
  <2>1. \A r \in References(internals') : IsImage(images'[r])
    <3> TAKE r \in References(internals')
    <3>1. IsImage(images[r])
      BY <1>11 DEF IInv, Shapes
    <3> QED
      BY <1>9, <1>10, <3>1, FilteredKeeps
  <2>2. DOMAIN images' = References(internals')
    BY <1>9
  <2>3. prep' \in Nat /\ stored' \subseteq Nat /\ todo' \subseteq Nat
    BY <1>2 DEF IInv, Shapes
  <2> QED
    BY <1>2, <1>5, <1>6, <1>7, <1>8, <2>1, <2>2, <2>3 DEF Shapes, Labels, References
<1>13. BuffersMatchLayers'
  <2>1. ~InStyle'
    BY <1>2 DEF InStyle
  <2>2. \A d \in DOMAIN open' :
           (buffers[d + 1] = IF LayerIsolated(Layer(open[d])) THEN buffers[d] + 1
                             ELSE buffers[d])'
    <3> SUFFICES ASSUME NEW d \in DOMAIN open'
                 PROVE  (buffers[d + 1] = IF LayerIsolated(Layer(open[d]))
                                          THEN buffers[d] + 1 ELSE buffers[d])'
      OBVIOUS
    <3>1. /\ d \in 1..Len(open) - 1 /\ d \in DOMAIN open
          /\ d \in 1..Len(open) /\ d + 1 \in 1..Len(open)
      <4>1. d \in 1..Len(open) - 1
        BY <1>7
      <4> QED
        BY <1>5, <1>7, <4>1
    <3>2. /\ open'[d] = open[d] /\ buffers'[d] = buffers[d]
          /\ buffers'[d + 1] = buffers[d + 1]
      BY <1>5, <1>7, <1>8, <3>1
    <3> QED
      BY <1>2, <1>3, <3>1, <3>2 DEF Layer
  <2>3. Len(buffers') = 1 + Len(open') /\ buffers'[1] = Pixmap
    BY <1>1, <1>3, <1>5, <1>7, <1>8
  <2>4. internals' = buffers'[Len(open') + 1]
    BY <1>1, <1>5, <1>6, <1>7, <1>8
  <2> QED
    BY <2>1, <2>2, <2>3, <2>4 DEF BuffersMatchLayers
<1>14. Ascending' /\ AtStart'
  <2>1. \A c, d \in 1..Len(open) :
           c <= d => buffers'[c] >= 0 /\ buffers'[c] <= buffers'[d]
    <3> TAKE c, d \in 1..Len(open)
    <3>1. c \in 1..Len(open) + 1 /\ d \in 1..Len(open) + 1
      BY <1>5
    <3> QED
      BY <1>4, <1>8, <3>1
  <2>2. Len(open') + 1 = Len(open)
    BY <1>5, <1>7
  <2> QED
    BY <1>2, <2>1, <2>2 DEF Ascending, AtStart
<1>15. AllPremultiplied'
  <2>1. \A r \in References(internals) : images[r].premultiplied
    BY <1>2 DEF IInv, AllPremultiplied
  <2>2. \A r \in References(internals') : images'[r].premultiplied
    <3> TAKE r \in References(internals')
    <3>1. Below \in References(internals) /\ r \in References(internals)
      BY <1>1, <1>5, <1>11 DEF References, Inflated
    <3>2. Filtered(below, TheLayer.direct, <<Current>>).premultiplied
      BY <1>10, <2>1, <3>1, FilteredKeeps
    <3>3. images'[r] = IF r = Below THEN Filtered(below, TheLayer.direct, <<Current>>)
                       ELSE images[r]
      BY <1>9
    <3> QED
      BY <2>1, <3>1, <3>2, <3>3, Zenon
  <2> QED
    BY <2>2 DEF AllPremultiplied
<1> QED
  BY <1>12, <1>13, <1>14, <1>15 DEF IInv

LEMMA BeginStyleKeeps ==
    ASSUME IInv, BeginStyle
    PROVE  IInv'
<1>1. /\ open \in Seq(Nat) /\ buffers \in Seq(Int) /\ internals \in Nat
      /\ \A r \in References(internals) : IsImage(images[r])
      /\ DOMAIN images = References(internals)
  BY DEF IInv, Shapes
<1>2. /\ UNCHANGED <<map, open, style, prep, stored, todo>>
      /\ pc = "styles" /\ pc' = "rows"
      /\ StartStyle(TheStyle)
  BY DEF BeginStyle, Goto
<1>3. /\ Len(buffers) = Len(open) + 1 /\ Top = internals
      /\ buffers[1] = Pixmap
      /\ \A d \in DOMAIN open :
            buffers[d + 1] = IF LayerIsolated(Layer(open[d])) THEN buffers[d] + 1
                             ELSE buffers[d]
  BY <1>2, BetweenLayers
<1>4. \A r \in References(internals) : images[r].premultiplied
  BY <1>2 DEF IInv, AllPremultiplied
<1>5. /\ TheStyle' = TheStyle
      /\ InStyle'
  BY <1>2, SameStyle DEF InStyle
<1> DEFINE apart == StyleIsolated(TheStyle)
           inflated == apart /\ TheStyle.inflate
           top == IF inflated THEN Inflated
                  ELSE IF apart THEN internals + 1 ELSE internals
\* The three ways into a style agree on this.
<1>6. /\ buffers' = Append(buffers, top)
      /\ internals' = IF apart /\ ~inflated THEN internals + 1 ELSE internals
      /\ DOMAIN images' = References(internals')
      /\ \A r \in References(internals') :
            IsImage(images'[r]) /\ images'[r].premultiplied
  <2>1. CASE inflated
    <3>1. Inflate(TheStyle)
      BY <1>2, <2>1 DEF StartStyle
    <3>2. buffers' = Append(buffers, Inflated) /\ internals' = internals
      BY <3>1 DEF Inflate
    <3>3. PICK image : /\ images' = [images EXCEPT ![Inflated] = image]
                       /\ image = Blank \/ image = Transparent(images[Inflated])
      BY <3>1 DEF Inflate
    <3>4. IsImage(image) /\ image.premultiplied
      <4>1. Inflated \in References(internals)
        BY <1>1 DEF References, Inflated
      <4> QED
        BY <1>1, <3>3, <4>1, BlankIsImage, TransparentKeeps
    <3>5. \A r \in References(internals) : images'[r] = image \/ images'[r] = images[r]
      BY <1>1, <3>3
    <3>6. \A r \in References(internals) : IsImage(images'[r]) /\ images'[r].premultiplied
      BY <1>1, <1>4, <3>4, <3>5, Zenon
    <3>7. DOMAIN images' = References(internals)
      BY <1>1, <3>3
    <3> QED
      BY <2>1, <3>2, <3>6, <3>7
  <2>2. CASE apart /\ ~inflated
    <3>1. PushInternal
      BY <1>2, <2>2 DEF StartStyle
    <3>2. buffers' = Append(buffers, internals + 1) /\ internals' = internals + 1
      BY <3>1 DEF PushInternal
    <3>3. images' = [r \in References(internals + 1) |->
                       IF r = internals + 1 THEN Blank ELSE images[r]]
      BY <3>1 DEF PushInternal
    <3>4. \A r \in References(internals + 1) :
             \/ images'[r] = Blank
             \/ r \in References(internals) /\ images'[r] = images[r]
      BY <1>1, <3>3 DEF References, Inflated
    <3>5. \A r \in References(internals + 1) :
             IsImage(images'[r]) /\ images'[r].premultiplied
      BY <1>1, <1>4, <3>4, BlankIsImage, Zenon
    <3> QED
      BY <2>2, <3>2, <3>3, <3>5
  <2>3. CASE ~apart
    BY <1>1, <1>2, <1>3, <1>4, <2>3 DEF StartStyle, PushTop
  <2> QED
    BY <2>1, <2>2, <2>3
<1>7. /\ Len(open) \in Nat
      /\ Len(buffers') = Len(open) + 2 /\ buffers' \in Seq(Int) /\ internals' \in Nat
      /\ \A d \in 1..Len(open) + 1 : buffers'[d] = buffers[d]
      /\ buffers'[Len(open) + 2] = top
  BY <1>1, <1>3, <1>6 DEF Inflated
<1> HIDE DEF top
<1>8. Shapes'
  BY <1>1, <1>2, <1>6, <1>7 DEF IInv, Shapes, Labels, References
<1>9. BuffersMatchLayers'
  <2>1. ASSUME NEW d \in DOMAIN open'
        PROVE  (buffers[d + 1] = IF LayerIsolated(Layer(open[d])) THEN buffers[d] + 1
                                 ELSE buffers[d])'
    <3>1. d \in DOMAIN open /\ d \in 1..Len(open) + 1 /\ d + 1 \in 1..Len(open) + 1
      BY <1>1, <1>2
    <3> QED
      BY <1>2, <1>3, <1>7, <3>1 DEF Layer
  <2>2. Len(buffers') = 1 + Len(open') + 1 /\ buffers'[1] = Pixmap
    BY <1>2, <1>3, <1>7
  <2>3. buffers'[Len(open') + 1] = internals
    <3>1. buffers[Len(open) + 1] = internals
      BY <1>3 DEF Top
    <3>2. Len(open) + 1 \in 1..Len(open) + 1
      BY <1>7
    <3> QED
      BY <1>2, <1>7, <3>1, <3>2
  <2>4. Top' = top
    BY <1>7 DEF Top
  <2>5. Top' = IF inflated THEN Inflated ELSE internals'
    BY <1>6, <2>4 DEF top
  <2> QED
    BY <1>5, <1>6, <2>1, <2>2, <2>3, <2>5 DEF BuffersMatchLayers
<1>10. Ascending' /\ AtStart' /\ AllPremultiplied'
  BY <1>2, <1>6, <1>7 DEF IInv, Ascending, AtStart, AllPremultiplied
<1> QED
  BY <1>8, <1>9, <1>10 DEF IInv

LEMMA FinishesStyleKeeps ==
    ASSUME IInv, pc = "rows", FinishesStyle, UNCHANGED <<map, open>>,
           UNCHANGED <<prep, stored, todo>>
    PROVE  IInv'
<1>1. /\ open \in Seq(Nat) /\ buffers \in Seq(Int) /\ internals \in Nat
      /\ \A r \in References(internals) : IsImage(images[r])
      /\ DOMAIN images = References(internals)
  BY DEF IInv, Shapes
<1> DEFINE apart == StyleIsolated(TheStyle)
           inflated == apart /\ TheStyle.inflate
           who == <<Current, StyleNumber>>
           painted == [images[Top] EXCEPT !.painted = @ \/ flags.was_painted]
           image == IF Top = Below THEN painted
                    ELSE Filtered(painted, TheStyle.filters, who)
           below == IF Top = Below THEN painted
                    ELSE Composited(images[Below], image, "style", who)
<1>2. /\ EndStyle(TheStyle, who, flags.was_painted)
      /\ pc' = "styles" /\ InStyle /\ ~InStyle'
  BY DEF FinishesStyle, Goto, InStyle
<1>3. /\ Len(buffers) = Len(open) + 2
      /\ buffers[1] = Pixmap
      /\ \A d \in DOMAIN open :
            buffers[d + 1] = IF LayerIsolated(Layer(open[d])) THEN buffers[d] + 1
                             ELSE buffers[d]
      /\ internals = IF apart /\ ~inflated THEN buffers[Len(open) + 1] + 1
                     ELSE buffers[Len(open) + 1]
      /\ Top = IF inflated THEN Inflated ELSE internals
  BY <1>1, <1>2 DEF IInv, BuffersMatchLayers
<1>4. \A c, d \in 1..Len(open) + 1 :
         c <= d => buffers[c] >= 0 /\ buffers[c] <= buffers[d]
  BY DEF IInv, Ascending
<1>5. \A r \in References(internals) : images[r].premultiplied
  BY DEF IInv, AllPremultiplied
<1>6. /\ Len(open) \in Nat /\ Below = buffers[Len(open) + 1]
      /\ Below \in Nat /\ Below <= internals
      /\ Below \in References(internals) /\ Top \in References(internals)
  <2> HIDE DEF apart, inflated
  <2>1. Len(open) \in Nat /\ Below = buffers[Len(open) + 1] /\ Below \in Int
    BY <1>1, <1>3 DEF Below
  <2>2. Below >= 0
    BY <1>4, <2>1
  <2>3. Below <= internals /\ Top \in {Inflated, internals}
    BY <1>3, <2>1
  <2> QED
    BY <1>1, <2>1, <2>2, <2>3 DEF References, Inflated
<1>7. internals' = Below
  <2> HIDE DEF who
  <2>1. internals' = IF Top # Below /\ FreesInternal THEN internals - 1 ELSE internals
    BY <1>2 DEF EndStyle
  <2> QED
    BY <1>1, <1>3, <1>6, <2>1 DEF FreesInternal, Inflated
<1>8. /\ buffers' \in Seq(Int) /\ Len(buffers') = Len(open) + 1
      /\ \A d \in 1..Len(open) + 1 : buffers'[d] = buffers[d]
  BY <1>1, <1>2, <1>3, <1>6 DEF EndStyle, Pop
<1>9. images' = [r \in References(internals') |->
                   CASE r = Below -> Filtered(below, TheStyle.direct, who)
                     [] r = Top /\ r # Below -> image
                     [] OTHER -> images[r]]
  BY <1>2 DEF EndStyle
<1>10. IsImage(painted) /\ painted.premultiplied = images[Top].premultiplied
  BY <1>1, <1>6 DEF IsImage
<1> HIDE DEF painted
<1>11. IsImage(image) /\ (images[Top].premultiplied => image.premultiplied)
  BY <1>10, FilteredKeeps
<1> HIDE DEF image
<1>12. IsImage(below) /\ below.premultiplied
  BY <1>1, <1>5, <1>6, <1>10, CompositedKeeps
<1> HIDE DEF below
<1>13. \A r \in References(internals') :
          IsImage(images'[r]) /\ images'[r].premultiplied
  <2> TAKE r \in References(internals')
  <2>1. r \in References(internals)
    BY <1>1, <1>6, <1>7 DEF References, Inflated
  <2>2. \/ images'[r] = Filtered(below, TheStyle.direct, who)
        \/ images'[r] = image
        \/ images'[r] = images[r]
    BY <1>9
  <2> QED
    BY <1>1, <1>5, <1>6, <1>11, <1>12, <2>1, <2>2, FilteredKeeps, Zenon
<1>14. Shapes'
  <2>1. DOMAIN images' = References(internals')
    BY <1>9
  <2> QED
    BY <1>2, <1>6, <1>7, <1>8, <1>13, <2>1 DEF IInv, Shapes, Labels, References
<1>15. BuffersMatchLayers'
  <2>1. ASSUME NEW d \in DOMAIN open'
        PROVE  (buffers[d + 1] = IF LayerIsolated(Layer(open[d])) THEN buffers[d] + 1
                                 ELSE buffers[d])'
    <3>1. d \in DOMAIN open /\ d \in 1..Len(open) + 1 /\ d + 1 \in 1..Len(open) + 1
      BY <1>1
    <3> QED
      BY <1>3, <1>8, <3>1 DEF Layer
  <2>2. Len(buffers') = 1 + Len(open') /\ buffers'[1] = Pixmap
    BY <1>3, <1>6, <1>8
  <2>3. internals' = buffers'[Len(open') + 1]
    BY <1>6, <1>7, <1>8
  <2> QED
    BY <1>2, <2>1, <2>2, <2>3 DEF BuffersMatchLayers
<1>16. Ascending' /\ AtStart' /\ AllPremultiplied'
  BY <1>2, <1>4, <1>8, <1>13 DEF Ascending, AtStart, AllPremultiplied
<1> QED
  BY <1>14, <1>15, <1>16 DEF IInv

LEMMA NextRowKeeps ==
    ASSUME IInv, NextRow
    PROVE  IInv'
<1>1. /\ UNCHANGED <<map, open>> /\ UNCHANGED <<prep, stored, todo>>
      /\ pc = "rows"
      /\ FinishesStyle \/ \E f : TakesRow(f)
  BY DEF NextRow
<1>2. CASE FinishesStyle
  BY <1>1, <1>2, FinishesStyleKeeps
<1>3. CASE \E f : TakesRow(f)
  <2>1. UNCHANGED style /\ UNCHANGED aggVars /\ pc' = "if"
    BY <1>3 DEF TakesRow, Goto
  <2>2. prep' \in Nat /\ stored' \subseteq Nat /\ todo' \subseteq Nat
    BY <1>1 DEF IInv, Shapes
  <2> QED
    BY <1>1, <2>1, <2>2, KeepsIInv DEF InStyle, Labels
<1> QED
  BY <1>1, <1>2, <1>3

LEMMA NextKeeps == IInv /\ [Next]_vars => IInv'
<1> SUFFICES ASSUME IInv, [Next]_vars PROVE IInv'
  OBVIOUS
<1>1. CASE UNCHANGED vars
  <2>1. UNCHANGED <<map, open, style>>
    BY <1>1 DEF vars
  <2>2. TheStyle' = TheStyle
    BY <2>1, SameStyle
  <2> QED
    BY <1>1, <2>2
    DEF vars, IInv, Shapes, BuffersMatchLayers, Ascending, AllPremultiplied,
        AtStart, InStyle, Layer, Top, References
<1>2. CASE Next
  BY <1>2, StartKeeps, PreparationKeeps, OpenLayerKeeps, CloseLayerKeeps,
     EndKeeps, ReadingKeeps, BeginStyleKeeps, NextRowKeeps, RulesKeep
  DEF Next
<1> QED
  BY <1>1, <1>2

\* The inductive invariant holds in every rendering of every map.
THEOREM Invariance == Spec => []IInv
BY InitIInv, NextKeeps, PTL DEF Spec

\* However layers nest and styles inflate, the references of the AGG renderer
\* stand for the buffers of the open layers and the style at hand.
THEOREM InStep == Spec => []BuffersMatchLayers
<1>1. IInv => BuffersMatchLayers
  BY DEF IInv
<1> QED
  BY <1>1, Invariance, PTL

\* Whatever is referred to exists.
LEMMA ReferencesExist ==
    ASSUME IInv, pc # "thrown", NEW d \in DOMAIN buffers
    PROVE  buffers[d] \in References(internals)
<1>1. /\ open \in Seq(Nat) /\ buffers \in Seq(Int) /\ internals \in Nat
  BY DEF IInv, Shapes
<1>2. \A c \in 1..Len(open) + 1 : buffers[c] >= 0 /\ buffers[c] <= buffers[Len(open) + 1]
  BY <1>1 DEF IInv, Ascending
<1>3. /\ buffers[Len(open) + 1] <= internals
      /\ d \in 1..Len(open) + 1 \/ buffers[d] = Inflated \/ buffers[d] = internals
  BY <1>1 DEF IInv, BuffersMatchLayers, Top
<1>4. Len(open) \in Nat /\ buffers[d] \in Int /\ buffers[Len(open) + 1] \in Int
  BY <1>1 DEF IInv, BuffersMatchLayers
<1>5. CASE d \in 1..Len(open) + 1
  <2>1. buffers[d] >= 0 /\ buffers[d] <= internals
    BY <1>1, <1>2, <1>3, <1>4, <1>5
  <2> QED
    BY <1>1, <1>4, <2>1 DEF References, Inflated
<1>6. CASE buffers[d] = Inflated \/ buffers[d] = internals
  BY <1>1, <1>6 DEF References, Inflated
<1> QED
  BY <1>3, <1>5, <1>6

\* Everything drawn on and composited is premultiplied: the assertion in
\* composite never fails.
THEOREM AlwaysPremultiplied == Spec => []DrawnPremultiplied
<1>1. IInv => DrawnPremultiplied
  <2> SUFFICES ASSUME IInv, pc \notin {"start", "done", "thrown"},
                      NEW d \in DOMAIN buffers
               PROVE  images[buffers[d]].premultiplied
    BY DEF DrawnPremultiplied
  <2>1. buffers[d] \in References(internals)
    BY ReferencesExist
  <2> QED
    BY <2>1 DEF IInv, AllPremultiplied
<1> QED
  BY <1>1, Invariance, PTL

-----------------------------------------------------------------------------
(* Sequences of chosen positions *)

LEMMA RankIsSurjection ==
    ASSUME NEW S, IsFiniteSet(S), S \subseteq Nat
    PROVE  /\ Cardinality(S) \in Nat
           /\ \A i \in 1..Cardinality(S) :
                 \E k \in S : Cardinality({j \in S : j < k}) = i - 1
           /\ \A k \in S : Cardinality({j \in S : j < k}) \in 0..Cardinality(S) - 1
           /\ \A j, k \in S :
                 j < k => Cardinality({i \in S : i < j}) < Cardinality({i \in S : i < k})
<1> DEFINE below(k) == {j \in S : j < k}
           rank == [k \in S |-> Cardinality(below(k))]
           size == Cardinality(S)
<1>1. size \in Nat
  BY FS_CardinalityType
<1>2. ASSUME NEW k \in S
      PROVE  IsFiniteSet(below(k)) /\ rank[k] \in 0..size - 1
  <2>1. below(k) \in SUBSET (S \ {k})
    OBVIOUS
  <2>2. IsFiniteSet(S \ {k}) /\ Cardinality(S \ {k}) = size - 1
    BY FS_RemoveElement
  <2>3. IsFiniteSet(below(k)) /\ Cardinality(below(k)) <= size - 1
    BY <2>1, <2>2, FS_Subset
  <2>4. Cardinality(below(k)) \in Nat
    BY <2>3, FS_CardinalityType
  <2> HIDE DEF below, size
  <2> QED
    BY <1>1, <2>3, <2>4
<1>3. ASSUME NEW j \in S, NEW k \in S, j < k PROVE rank[j] < rank[k]
  <2>1. below(j) \cup {j} \in SUBSET below(k) /\ j \notin below(j)
    <3>1. \A i \in S : i < j => i < k
      <4> SUFFICES ASSUME NEW i \in S, i < j PROVE i < k
        OBVIOUS
      <4>1. i \in Nat /\ j \in Nat /\ k \in Nat
        OBVIOUS
      <4> QED
        BY <1>3, <4>1
    <3>2. j \in Nat /\ ~(j < j)
      OBVIOUS
    <3> QED
      BY <1>3, <3>1, <3>2
  <2>2. Cardinality(below(j) \cup {j}) = Cardinality(below(j)) + 1
    BY <1>2, <2>1, FS_AddElement
  <2>3. Cardinality(below(j) \cup {j}) <= Cardinality(below(k))
    BY <1>2, <2>1, FS_Subset
  <2> HIDE DEF below
  <2>4. Cardinality(below(j)) + 1 <= Cardinality(below(k))
    BY <2>2, <2>3
  <2>5. Cardinality(below(j)) \in Nat /\ Cardinality(below(k)) \in Nat
    BY <1>2, FS_CardinalityType
  <2> QED
    BY <2>4, <2>5
<1>4. rank \in Injection(S, 0..size - 1)
  <2>1. rank \in [S -> 0..size - 1]
    BY <1>2
  <2>2. ASSUME NEW j \in S, NEW k \in S, rank[j] = rank[k] PROVE j = k
    <3>1. j \in Nat /\ k \in Nat /\ rank[j] \in Nat /\ rank[k] \in Nat
      BY <1>1, <1>2
    <3> HIDE DEF rank
    <3>2. ~(j < k) /\ ~(k < j)
      BY <1>3, <2>2, <3>1
    <3> QED
      BY <3>1, <3>2
  <2> HIDE DEF rank
  <2> QED
    BY <2>1, <2>2 DEF Injection, IsInjective
<1>5. IsFiniteSet(0..size - 1) /\ Cardinality(0..size - 1) = size
  <2> HIDE DEF size
  <2>1. size - 1 \in Int /\ 0 \in Int
    BY <1>1
  <2>2. /\ IsFiniteSet(0..size - 1)
        /\ Cardinality(0..size - 1) = IF 0 > size - 1 THEN 0 ELSE (size - 1) - 0 + 1
    BY <2>1, FS_Interval
  <2> QED
    BY <1>1, <2>2
<1>6. rank \in Surjection(S, 0..size - 1)
  BY <1>4, <1>5, FS_Injection
<1>7. ASSUME NEW i \in 1..size PROVE \E k \in S : Cardinality(below(k)) = i - 1
  <2>1. i - 1 \in 0..size - 1
    BY <1>1
  <2> QED
    BY <1>6, <2>1 DEF Surjection
<1> QED
  BY <1>1, <1>2, <1>3, <1>7

\* The chosen positions, as a sequence of them.
LEMMA InOrderIsSequence ==
    ASSUME NEW S, IsFiniteSet(S), S \subseteq Nat
    PROVE  /\ InOrder(S) \in Seq(S)
           /\ Len(InOrder(S)) = Cardinality(S) /\ Cardinality(S) \in Nat
<1>1. Cardinality(S) \in Nat
  BY RankIsSurjection
<1>2. \A i \in 1..Cardinality(S) :
         (CHOOSE k \in S : Cardinality({j \in S : j < k}) = i - 1) \in S
  BY RankIsSurjection
<1> DEFINE f == [i \in 1..Cardinality(S) |->
                    CHOOSE k \in S : Cardinality({j \in S : j < k}) = i - 1]
<1>3. f \in [1..Cardinality(S) -> S]
  BY <1>2
<1> HIDE DEF f
<1>4. f \in Seq(S) /\ Len(f) = Cardinality(S)
  BY <1>1, <1>3
<1> QED
  BY <1>1, <1>4 DEF InOrder, f

\* Positions in a sequence are finitely many numbers.
LEMMA Positions ==
    ASSUME NEW s, IsSequence(s), NEW S \in SUBSET DOMAIN s
    PROVE  IsFiniteSet(S) /\ S \subseteq Nat
<1>1. DOMAIN s = 1..Len(s) /\ Len(s) \in Nat
  BY DEF IsSequence
<1>2. IsFiniteSet(1..Len(s))
  BY <1>1, FS_Interval
<1> QED
  BY <1>1, <1>2, FS_Subset

\* The rules of a style are listed by their numbers.
LEMMA RulesAreNumbers ==
    ASSUME NEW s, NEW kind, IsSequence(s.rules)
    PROVE  RulesOf(s, kind) \in Seq(Nat)
<1> DEFINE chosen == {k \in DOMAIN s.rules : s.rules[k].active /\ s.rules[k].kind = kind}
<1>1. IsFiniteSet(chosen) /\ chosen \subseteq Nat
  BY Positions
<1>2. InOrder(chosen) \in Seq(chosen)
  BY <1>1, InOrderIsSequence
<1> HIDE DEF chosen
<1>3. InOrder(chosen) \in Seq(Nat)
  BY <1>1, <1>2, SeqMonotonic
<1> QED
  BY <1>3 DEF RulesOf, RulesIn, chosen

\* The active styles are as many as a number says; without a datasource there
\* are none.
LEMMA ActiveStylesCount ==
    ASSUME NEW l, IsSequence(l.styles)
    PROVE  /\ Len(ActiveStyles(l)) \in Nat
           /\ \A k \in 1..Len(ActiveStyles(l)) : ActiveStyles(l)[k] \in DOMAIN l.styles
           /\ ~l.datasource => ActiveStyles(l) = <<>>
           /\ Len(ActiveStyles(l)) = 0 => ActiveStyles(l) = <<>>
<1> DEFINE chosen == {k \in DOMAIN l.styles : IsActive(l, l.styles[k])}
<1>1. IsFiniteSet(chosen) /\ chosen \subseteq Nat
  BY Positions
<1>2. InOrder(chosen) \in Seq(chosen)
  BY <1>1, InOrderIsSequence
<1>3. ~l.datasource => chosen = {}
  BY DEF IsActive
<1>4. chosen \subseteq DOMAIN l.styles
  OBVIOUS
<1> HIDE DEF chosen
<1>5. chosen = {} => InOrder(chosen) = <<>>
  BY <1>2
<1>6. ActiveStyles(l) = InOrder(chosen)
  BY DEF ActiveStyles, chosen
<1>7. Len(InOrder(chosen)) = 0 => InOrder(chosen) = <<>>
  BY <1>2, EmptySeq
<1> QED
  BY <1>2, <1>3, <1>4, <1>5, <1>6, <1>7, LenProperties

LEMMA FeaturesetsCount ==
    ASSUME NEW l, IsSequence(l.styles)
    PROVE  /\ Featuresets(l) \in Nat
           /\ ~l.datasource => Featuresets(l) = 0
           /\ Source(l) = "buffer" => Featuresets(l) = 1
           /\ Source(l) = "query" => Featuresets(l) = Len(ActiveStyles(l)) /\ ~l.null
           /\ Source(l) = "none" => Featuresets(l) = 0 \/ l.null
           /\ Source(l) \in {"none", "buffer", "query"}
<1> HIDE DEF ActiveStyles
<1>1. Len(ActiveStyles(l)) \in Nat /\ (~l.datasource => ActiveStyles(l) = <<>>)
  BY ActiveStylesCount
<1> QED
  BY <1>1 DEF Featuresets, Source

-----------------------------------------------------------------------------
(* The layers: they are opened in the order they were prepared in *)

Reading == pc \in {"material", "fetch", "styles", "rows", "if", "other"}

\* Layers are prepared and opened in document order, and the layer that any
\* layer still to come is nested in is open, or still to come itself.
LayersInv ==
    /\ map \in Maps
    /\ prep \in 0..Len(map.layers)
    /\ stored \subseteq 1..prep
    /\ todo \subseteq stored
    /\ open \in Seq(stored)
    /\ \A n \in stored : \/ Layer(n).parent \in stored \cup {0}
                         \/ map.single /\ Layer(n).parent = 1
    /\ \A d \in DOMAIN open :
          open[d] \notin todo /\ \A c \in 1..d - 1 : open[c] < open[d]
    /\ \A n \in stored \ todo : \A m \in todo : n < m
    /\ \A m \in todo :
          Layer(m).parent \in todo \cup {open[d] : d \in DOMAIN open} \cup {0}
    /\ pc \in {"start", "prepare"} \/ Unrendered => todo = {} /\ open = <<>>
    /\ Reading => open # <<>> /\ \A n \in stored \ todo : n <= Current
    /\ pc = "done" => todo = {} /\ open = <<>>

\* What the document order of the layers gives.
LEMMA DocumentOrder ==
    ASSUME map \in Maps
    PROVE  /\ Len(map.layers) \in Nat /\ DOMAIN map.layers = 1..Len(map.layers)
           /\ \A n \in 1..Len(map.layers) :
                 /\ Layer(n).parent \in 0..n - 1
                 /\ \A k \in Layer(n).parent + 1..n - 1 :
                       Layer(k).parent >= Layer(n).parent
                 /\ IsSequence(Layer(n).rows) /\ IsSequence(Layer(n).styles)
                 /\ \A s \in DOMAIN Layer(n).styles :
                       /\ IsSequence(Layer(n).styles[s].rules)
                       /\ Layer(n).styles[s].radius \in Nat
<1>1. Len(map.layers) \in Nat /\ DOMAIN map.layers = 1..Len(map.layers)
  BY MapsAssumption DEF IsSequence
<1> QED
  BY <1>1, MapsAssumption, Zenon DEF Layer

\* A set of numbers has a least one.
LEMMA LeastNumber ==
    ASSUME NEW S, S \subseteq Nat, S # {}
    PROVE  \E m \in S : \A n \in S : m <= n
<1>1. PICK m \in S : \A n \in S : <<n, m>> \notin OpToRel(<, Nat)
  BY NatLessThanWellFounded, WFMin
<1>2. ASSUME NEW n \in S PROVE m <= n
  <2>1. m \in Nat /\ n \in Nat
    OBVIOUS
  <2>2. ~(n < m)
    BY <1>1, <2>1 DEF OpToRel
  <2> QED
    BY <2>1, <2>2
<1> QED
  BY <1>2

\* While a layer is still to come, so is one that is nested in the layer at
\* hand or in none: the first of them.  A layer between the one at hand and
\* its child would be nested in it, too.
LEMMA NothingLeftOut ==
    ASSUME LayersInv, Nested = {},
           NEW m \in todo, Layer(m).parent = IF open = <<>> THEN 0 ELSE Current
    PROVE  FALSE
<1>1. /\ stored \subseteq Nat \ {0} /\ todo \subseteq stored
      /\ stored \subseteq 1..Len(map.layers)
      /\ open \in Seq(stored)
  BY DocumentOrder DEF LayersInv
<1>2. PICK k \in todo : \A n \in todo : k <= n
  BY <1>1, LeastNumber
<1>3. /\ Layer(k).parent # IF open = <<>> THEN 0 ELSE Current
      /\ k # m /\ k \in Nat \ {0} /\ m \in Nat \ {0} /\ k < m
      /\ k \in 1..Len(map.layers) /\ m \in 1..Len(map.layers)
  BY <1>1, <1>2 DEF Nested
<1>4. /\ Layer(k).parent \in 0..k - 1
      /\ \A n \in Layer(m).parent + 1..m - 1 : Layer(n).parent >= Layer(m).parent
  BY <1>3, DocumentOrder DEF LayersInv
<1>5. Layer(k).parent \notin todo
  BY <1>2, <1>3, <1>4
<1>6. Layer(k).parent \in {open[d] : d \in DOMAIN open} \cup {0}
  BY <1>5 DEF LayersInv
<1>7. CASE open = <<>>
  BY <1>3, <1>6, <1>7
<1>8. CASE open # <<>>
  <2>1. Len(open) \in DOMAIN open /\ Current = open[Len(open)] /\ DOMAIN open = 1..Len(open)
        /\ Len(open) \in Nat
    BY <1>1, <1>8 DEF Current
  <2>2. Current \in stored \ todo /\ Current \in Nat \ {0}
    <3>1. Current \in stored
      BY <1>1, <2>1, ElementOfSeq
    <3>2. Current \notin todo
      BY <2>1 DEF LayersInv
    <3> QED
      BY <1>1, <3>1, <3>2
  <2>3. Current < k
    BY <2>2 DEF LayersInv
  <2>4. Layer(k).parent >= Current
    <3>1. Layer(m).parent = Current
      BY <1>8
    <3>2. k \in Current + 1..m - 1
      BY <1>3, <2>2, <2>3
    <3> QED
      BY <1>4, <3>1, <3>2
  <2>5. Layer(k).parent > Current
    BY <1>3, <1>4, <1>8, <2>2, <2>4
  <2>6. PICK d \in DOMAIN open : open[d] = Layer(k).parent
    BY <1>6, <2>2, <2>5
  <2>7. d = Len(open) \/ (d \in 1..Len(open) - 1)
    BY <2>1
  <2>8. open[d] <= Current
    <3>1. \A c \in 1..Len(open) - 1 : open[c] < open[Len(open)]
      BY <2>1 DEF LayersInv
    <3>2. open[d] \in Nat
      BY <1>1, <2>1, ElementOfSeq
    <3> QED
      BY <2>1, <2>2, <2>7, <3>1, <3>2
  <2> QED
    BY <1>4, <2>2, <2>5, <2>6, <2>8
<1> QED
  BY <1>7, <1>8

LEMMA InitLayers == Init => LayersInv
<1> SUFFICES ASSUME Init PROVE LayersInv
  OBVIOUS
<1>1. map \in Maps
  BY DEF Init
<1>2. Len(map.layers) \in Nat
  BY <1>1, DocumentOrder
<1> QED
  BY <1>1, <1>2 DEF Init, LayersInv, Reading

\* Most steps leave the layers alone.
LEMMA SameLayers ==
    ASSUME LayersInv, UNCHANGED <<map, prep, stored, todo, open>>,
           Reading' => Reading, pc' = "done" => pc = "done",
           pc' \in {"start", "prepare"} => pc \in {"start", "prepare"}
    PROVE  LayersInv'
<1>1. \A n : Layer(n)' = Layer(n)
  BY DEF Layer
<1>2. Unrendered' = Unrendered /\ Current' = Current
  BY DEF Unrendered, Current
<1> QED
  BY <1>1, <1>2 DEF LayersInv

LEMMA LayersPrepared ==
    ASSUME LayersInv, PrepareLayer
    PROVE  LayersInv'
<1>1. /\ UNCHANGED <<map, pc, todo, open>> /\ prep' = prep + 1
      /\ pc = "prepare" /\ prep < Len(map.layers)
  BY DEF PrepareLayer
<1>2. \A n : Layer(n)' = Layer(n)
  BY <1>1 DEF Layer
<1>3. todo = {} /\ open = <<>>
  BY <1>1 DEF LayersInv
<1>4. prep \in Nat /\ Len(map.layers) \in Nat /\ stored \subseteq 1..prep
  BY DocumentOrder DEF LayersInv
<1>5. stored' \subseteq 1..prep'
  <2>1. stored' = stored \cup {prep + 1} \/ stored' = stored
    BY Zenon DEF PrepareLayer
  <2>2. \A n \in 1..prep : n \in 1..prep + 1
    BY <1>4
  <2>3. prep + 1 \in 1..prep + 1
    BY <1>4
  <2> QED
    BY <1>1, <1>4, <2>1, <2>2, <2>3, Zenon
<1>6. ASSUME NEW n \in stored'
      PROVE  \/ Layer(n).parent \in stored' \cup {0}
             \/ map.single /\ Layer(n).parent = 1
  <2>1. stored \subseteq stored'
    BY DEF PrepareLayer
  <2>2. CASE n \in stored
    BY <2>1, <2>2 DEF LayersInv
  <2>3. CASE n \notin stored
    <3>1. n = prep + 1 /\ Reached(n)
      BY <1>6, <2>3 DEF PrepareLayer
    <3> QED
      BY <2>1, <3>1 DEF Reached
  <2> QED
    BY <2>2, <2>3
<1> QED
  BY <1>1, <1>2, <1>3, <1>4, <1>5, <1>6 DEF LayersInv, Reading

LEMMA LayersListed ==
    ASSUME LayersInv, BeginRendering
    PROVE  LayersInv'
<1>1. /\ UNCHANGED <<map, prep, stored, open>> /\ pc' = "layers"
      /\ pc = "prepare"
      /\ todo' = IF Unrendered THEN {} ELSE stored
  BY DEF BeginRendering, Goto
<1>2. \A n : Layer(n)' = Layer(n)
  BY <1>1 DEF Layer
<1>3. open = <<>> /\ Unrendered' = Unrendered
  BY <1>1 DEF LayersInv, Unrendered
<1>4. ASSUME NEW m \in todo'
      PROVE  Layer(m).parent \in todo' \cup {0}
  <2>1. m \in stored /\ ~Unrendered /\ todo' = stored
    BY <1>1, <1>4
  <2>2. map.layers # <<>>
    <3>1. Len(map.layers) \in Nat /\ m \in 1..prep /\ prep \in 0..Len(map.layers)
      BY <2>1, DocumentOrder DEF LayersInv
    <3> QED
      BY <3>1
  <2>3. map.single => 1 \in stored
    BY <2>1, <2>2 DEF Unrendered
  <2> QED
    BY <2>1, <2>3 DEF LayersInv
<1> QED
  BY <1>1, <1>2, <1>3, <1>4 DEF LayersInv, Reading

LEMMA LayersOpened ==
    ASSUME LayersInv, OpenLayer
    PROVE  LayersInv'
<1> PICK n \in Nested : open' = Append(open, n) /\ todo' = todo \ {n}
  BY DEF OpenLayer
<1>1. /\ UNCHANGED <<map, prep, stored>> /\ pc = "layers" /\ pc' = "material"
      /\ n \in todo /\ (\A m \in todo : n <= m)
      /\ Layer(n).parent = IF open = <<>> THEN 0 ELSE Current
  BY DEF OpenLayer, Goto, Nested
<1>2. \A k : Layer(k)' = Layer(k)
  BY <1>1 DEF Layer
<1>3. /\ stored \subseteq Nat /\ todo \subseteq stored /\ open \in Seq(stored)
      /\ n \in stored /\ n \in Nat
  <2>1. stored \subseteq 1..prep /\ todo \subseteq stored /\ open \in Seq(stored)
    BY Zenon DEF LayersInv
  <2> QED
    BY <1>1, <2>1
<1>4. ~Unrendered'
  <2>1. ~Unrendered
    BY <1>1 DEF LayersInv
  <2> QED
    BY <1>1, <2>1 DEF Unrendered
<1>5. /\ open' \in Seq(stored) /\ Len(open') = Len(open) + 1
      /\ DOMAIN open' = 1..Len(open) + 1 /\ DOMAIN open = 1..Len(open)
      /\ Len(open) \in Nat
      /\ \A d \in 1..Len(open) : open'[d] = open[d]
      /\ open'[Len(open) + 1] = n
  BY <1>3
<1>6. ASSUME NEW d \in DOMAIN open'
      PROVE  open'[d] \notin todo' /\ \A c \in 1..d - 1 : open'[c] < open'[d]
  <2>1. CASE d \in 1..Len(open)
    <3>1. \A c \in 1..d - 1 : open'[c] = open[c]
      BY <1>5, <2>1
    <3> QED
      BY <1>5, <2>1, <3>1 DEF LayersInv
  <2>2. CASE d = Len(open) + 1
    <3>1. \A c \in 1..d - 1 : c \in DOMAIN open /\ open'[c] = open[c]
      BY <1>5, <2>2
    <3>2. \A c \in DOMAIN open : open[c] \in stored \ todo
      BY <1>3 DEF LayersInv
    <3>3. \A c \in DOMAIN open : open[c] < n
      BY <1>1, <3>2 DEF LayersInv
    <3> QED
      BY <1>5, <2>2, <3>1, <3>3
  <2> QED
    BY <1>5, <2>1, <2>2
<1>7. ASSUME NEW k \in stored \ todo' PROVE k <= n /\ \A m \in todo' : k < m
  <2>1. \A m \in todo' : n < m /\ m \in todo
    BY <1>1, <1>3
  <2>2. CASE k = n
    BY <1>3, <2>1, <2>2
  <2>3. CASE k # n
    <3>1. k \in stored \ todo
      BY <2>3
    <3> QED
      BY <1>1, <1>3, <2>1, <3>1 DEF LayersInv
  <2> QED
    BY <2>2, <2>3
<1>8. ASSUME NEW m \in todo'
      PROVE  Layer(m).parent \in todo' \cup {open'[d] : d \in DOMAIN open'} \cup {0}
  <2>1. Layer(m).parent \in todo \cup {open[d] : d \in DOMAIN open} \cup {0}
    BY DEF LayersInv
  <2>2. n \in {open'[d] : d \in DOMAIN open'}
    BY <1>5
  <2>3. {open[d] : d \in DOMAIN open} \subseteq {open'[d] : d \in DOMAIN open'}
    BY <1>5
  <2> QED
    BY <2>1, <2>2, <2>3
<1>9. open' # <<>> /\ Current' = n
  BY <1>5 DEF Current
<1> QED
  BY <1>1, <1>2, <1>3, <1>4, <1>5, <1>6, <1>7, <1>8, <1>9 DEF LayersInv

LEMMA LayersClosed ==
    ASSUME LayersInv, CloseLayer
    PROVE  LayersInv'
<1>1. /\ UNCHANGED <<map, prep, stored, todo, pc>> /\ pc = "layers"
      /\ Nested = {} /\ open # <<>> /\ open' = Pop(open)
  BY DEF CloseLayer
<1>2. /\ \A k : Layer(k)' = Layer(k)
      /\ Unrendered' = Unrendered
  BY <1>1 DEF Layer, Unrendered
<1>3. open \in Seq(stored)
  BY DEF LayersInv
<1>4. /\ open' \in Seq(stored) /\ Len(open') = Len(open) - 1
      /\ DOMAIN open' = 1..Len(open) - 1 /\ DOMAIN open = 1..Len(open)
      /\ Len(open) \in Nat \ {0}
      /\ \A d \in 1..Len(open) - 1 : open'[d] = open[d]
  <2>1. Len(open) \in Nat \ {0} /\ DOMAIN open = 1..Len(open)
    BY <1>1, <1>3, LenProperties, EmptySeq
  <2>2. \A d \in 1..Len(open) - 1 : open[d] \in stored
    BY <1>3, <2>1, ElementOfSeq
  <2>3. /\ open' \in Seq(stored)
        /\ Len(open') = IF 1 <= Len(open) - 1 THEN Len(open) - 1 - 1 + 1 ELSE 0
        /\ \A d \in 1..Len(open) - 1 - 1 + 1 : open'[d] = open[1 + d - 1]
    <3>1. open' = SubSeq(open, 1, Len(open) - 1)
      BY <1>1 DEF Pop
    <3>2. 1 \in Int /\ Len(open) - 1 \in Int
      BY <2>1
    <3> QED
      BY <2>2, <3>1, <3>2, SubSeqProperties
  <2> DEFINE L == Len(open)
  <2>0. L \in Nat /\ L # 0
    BY <2>1
  <2> HIDE DEF L
  <2>4. Len(open') = Len(open) - 1
    <3>1. Len(open') = IF 1 <= L - 1 THEN L - 1 - 1 + 1 ELSE 0
      BY <2>3 DEF L
    <3>2. Len(open') = L - 1
      BY <2>0, <3>1
    <3> QED
      BY <3>2 DEF L
  <2>5. DOMAIN open' = 1..Len(open) - 1
    BY <2>3, <2>4, LenProperties
  <2>6. \A d \in 1..Len(open) - 1 : open'[d] = open[d]
    <3>1. \A d \in 1..L - 1 - 1 + 1 : open'[d] = open[1 + d - 1]
      BY <2>3 DEF L
    <3>2. \A d \in 1..L - 1 : d \in 1..L - 1 - 1 + 1 /\ 1 + d - 1 = d
      BY <2>0
    <3> QED
      BY <3>1, <3>2, Zenon DEF L
  <2> QED
    BY <2>1, <2>3, <2>4, <2>5, <2>6
<1>5. ASSUME NEW d \in DOMAIN open'
      PROVE  open'[d] \notin todo /\ \A c \in 1..d - 1 : open'[c] < open'[d]
  <2>1. /\ d \in DOMAIN open /\ open'[d] = open[d]
        /\ \A c \in 1..d - 1 : open'[c] = open[c]
    BY <1>4
  <2> QED
    BY <2>1 DEF LayersInv
<1>6. ASSUME NEW m \in todo
      PROVE  Layer(m).parent \in todo \cup {open'[d] : d \in DOMAIN open'} \cup {0}
  <2>1. Layer(m).parent # Current
    BY <1>1, NothingLeftOut
  <2>2. ASSUME NEW d \in DOMAIN open, open[d] # Current PROVE d \in DOMAIN open'
    BY <1>4, <2>2 DEF Current
  <2>3. Layer(m).parent \in todo \cup {open[d] : d \in DOMAIN open} \cup {0}
    BY DEF LayersInv
  <2>4. \A d \in DOMAIN open' : open'[d] = open[d]
    BY <1>4
  <2> QED
    BY <2>1, <2>2, <2>3, <2>4
<1>7. ~Unrendered
  BY <1>1 DEF LayersInv
<1> QED
  BY <1>1, <1>2, <1>4, <1>5, <1>6, <1>7 DEF LayersInv, Reading

LEMMA LayersDone ==
    ASSUME LayersInv, EndMapProcessing
    PROVE  LayersInv'
<1>1. /\ UNCHANGED <<map, prep, stored, todo, open>> /\ pc' = "done"
      /\ Nested = {} /\ open = <<>>
  BY DEF EndMapProcessing, Goto
<1>2. \A k : Layer(k)' = Layer(k)
  BY <1>1 DEF Layer
<1>3. todo = {}
  <2> SUFFICES ASSUME todo # {} PROVE FALSE
    OBVIOUS
  <2>1. todo \subseteq Nat /\ todo \subseteq 1..Len(map.layers)
    BY DocumentOrder DEF LayersInv
  <2>2. PICK m \in todo : \A n \in todo : m <= n
    BY <2>1, LeastNumber
  <2>3. Layer(m).parent \in 0..m - 1
    BY <2>1, DocumentOrder DEF LayersInv
  <2>4. Layer(m).parent \notin todo
    BY <2>1, <2>2, <2>3
  <2>5. Layer(m).parent = 0
    BY <1>1, <2>4 DEF LayersInv
  <2> QED
    BY <1>1, <2>5, NothingLeftOut
<1> QED
  BY <1>1, <1>2, <1>3 DEF LayersInv, Reading

LEMMA StepLayers == LayersInv /\ [Next]_vars => LayersInv'
<1> SUFFICES ASSUME LayersInv, [Next]_vars PROVE LayersInv'
  OBVIOUS
<1>1. CASE StartMapProcessing
  BY <1>1, SameLayers DEF StartMapProcessing, Goto, Reading
<1>2. CASE RenderMaterial
  BY <1>2, SameLayers DEF RenderMaterial, Goto, Reading
<1>3. CASE Fetch
  BY <1>3, SameLayers DEF Fetch, Goto, Reading
<1>4. CASE EndPass
  BY <1>4, SameLayers DEF EndPass, Goto, Reading
<1>5. CASE BeginStyle
  BY <1>5, SameLayers DEF BeginStyle, Goto, Reading
<1>6. CASE NextRow
  <2>1. /\ UNCHANGED <<map, prep, stored, todo, open>> /\ pc = "rows"
        /\ FinishesStyle \/ \E f : TakesRow(f)
    BY <1>6 DEF NextRow
  <2> QED
    BY <2>1, SameLayers DEF FinishesStyle, TakesRow, Goto, Reading
<1>7. CASE IfRule \/ ElseAndAlso \/ OtherRule \/ Throws
  BY <1>7, SameLayers DEF IfRule, ElseAndAlso, OtherRule, Throws, Goto, Reading
<1>8. CASE UNCHANGED vars
  BY <1>8, SameLayers DEF vars, Reading
<1> QED
  BY <1>1, <1>2, <1>3, <1>4, <1>5, <1>6, <1>7, <1>8, LayersPrepared, LayersListed,
     LayersOpened, LayersClosed, LayersDone DEF Next

-----------------------------------------------------------------------------
(* The queries: those of the stored layers, in the order of the layers *)

Before(a, b) == a.layer < b.layer \/ (a.layer = b.layer /\ a.set < b.set)

QueriesInv ==
    /\ queries \in Seq([layer : Nat, set : Nat])
    /\ read \in Seq(Nat) /\ Len(read) = Len(queries)
    /\ \A q \in DOMAIN queries :
          /\ queries[q].layer \in stored
          /\ queries[q].set \in 1..Featuresets(Layer(queries[q].layer))
          /\ \A p \in 1..q - 1 : Before(queries[p], queries[q])
    /\ \A n \in stored : \A j \in 1..Featuresets(Layer(n)) :
          \E q \in DOMAIN queries : queries[q] = [layer |-> n, set |-> j]

\* Each featureset has one query, and the queries before it are those of the
\* layers before, and of the same layer before.
LEMMA QueryFound ==
    ASSUME QueriesInv, LayersInv,
           NEW n \in stored, NEW j \in 1..Featuresets(Layer(n))
    PROVE  /\ QueryOf(n, j) \in DOMAIN queries /\ QueryOf(n, j) \in DOMAIN read
           /\ read[QueryOf(n, j)] \in Nat
           /\ queries[QueryOf(n, j)] = [layer |-> n, set |-> j]
           /\ \A q \in DOMAIN queries :
                 queries[q].layer = n /\ queries[q].set = j => q = QueryOf(n, j)
           /\ \A p \in 1..QueryOf(n, j) - 1 :
                 /\ p \in DOMAIN queries
                 /\ queries[p].layer < n \/ (queries[p].layer = n /\ queries[p].set < j)
<1> DEFINE Q == QueryOf(n, j)
<1>1. Q \in DOMAIN queries /\ queries[Q] = [layer |-> n, set |-> j]
  BY DEF QueriesInv, QueryOf
<1> HIDE DEF Q
<1>2. /\ DOMAIN queries = 1..Len(queries) /\ Len(queries) \in Nat
      /\ DOMAIN read = DOMAIN queries /\ \A q \in DOMAIN read : read[q] \in Nat
      /\ \A q \in DOMAIN queries : queries[q] \in [layer : Nat, set : Nat]
  <2>1. queries \in Seq([layer : Nat, set : Nat]) /\ read \in Seq(Nat)
        /\ Len(read) = Len(queries)
    BY DEF QueriesInv
  <2> QED
    BY <2>1, LenProperties
<1>3. ASSUME NEW q \in DOMAIN queries, queries[q].layer = n, queries[q].set = j
      PROVE  q = Q
  <2>1. q \in Nat /\ Q \in Nat /\ n \in Nat /\ j \in Nat
    BY <1>1, <1>2, <1>3
  <2>2. CASE q < Q
    <3>1. q \in 1..Q - 1
      BY <1>2, <2>1, <2>2
    <3>2. Before(queries[q], queries[Q])
      BY <1>1, <3>1 DEF QueriesInv
    <3> QED
      BY <1>1, <1>3, <2>1, <3>2 DEF Before
  <2>3. CASE Q < q
    <3>1. Q \in 1..q - 1
      BY <1>1, <1>2, <2>1, <2>3
    <3>2. Before(queries[Q], queries[q])
      BY <1>3, <3>1 DEF QueriesInv
    <3> QED
      BY <1>1, <1>3, <2>1, <3>2 DEF Before
  <2> QED
    BY <2>1, <2>2, <2>3
<1>4. ASSUME NEW p \in 1..Q - 1
      PROVE  /\ p \in DOMAIN queries
             /\ queries[p].layer < n \/ (queries[p].layer = n /\ queries[p].set < j)
  <2>1. p \in DOMAIN queries
    BY <1>1, <1>2
  <2>2. Before(queries[p], queries[Q])
    BY <1>1 DEF QueriesInv
  <2> QED
    BY <1>1, <2>1, <2>2 DEF Before
<1> QED
  BY <1>1, <1>2, <1>3, <1>4 DEF Q

\* The layer at hand.
LEMMA AtLayer ==
    ASSUME LayersInv, open # <<>>
    PROVE  /\ Current \in stored \ todo /\ Current \in Nat \ {0}
           /\ Current \in 1..Len(map.layers)
           /\ IsSequence(TheLayer.styles) /\ IsSequence(TheLayer.rows)
           /\ Len(TheLayer.rows) \in Nat
           /\ ~Unrendered
<1>1. open \in Seq(stored) /\ Len(open) \in 1..Len(open) /\ DOMAIN open = 1..Len(open)
  BY EmptySeq, LenProperties DEF LayersInv
<1>2. Current \in stored /\ Current \notin todo
  BY <1>1, ElementOfSeq DEF Current, LayersInv
<1>3. stored \subseteq 1..Len(map.layers) /\ Len(map.layers) \in Nat
  BY DocumentOrder DEF LayersInv
<1>4. IsSequence(TheLayer.styles) /\ IsSequence(TheLayer.rows)
  BY <1>2, <1>3, DocumentOrder DEF LayersInv, TheLayer
<1>5. Len(TheLayer.rows) \in Nat
  BY <1>4 DEF IsSequence
<1>6. ~Unrendered
  BY DEF LayersInv
<1>7. Current \in Nat \ {0}
  BY <1>2, <1>3
<1> QED
  BY <1>2, <1>3, <1>4, <1>5, <1>6, <1>7

LEMMA InitQueries == Init => QueriesInv
BY DEF Init, QueriesInv

\* Reading changes no more than a count.
LEMMA SameQueries ==
    ASSUME QueriesInv, UNCHANGED <<map, stored, queries>>,
           read' = read \/ \E n, j : Reads(n, j)
    PROVE  QueriesInv'
<1>1. read' \in Seq(Nat) /\ Len(read') = Len(read)
  <2>1. CASE \E n, j : Reads(n, j)
    <3>1. PICK q : read' = [read EXCEPT ![q] = @ + 1]
      BY <2>1 DEF Reads
    <3>2. read \in Seq(Nat) /\ DOMAIN read = 1..Len(read)
      BY LenProperties DEF QueriesInv
    <3>3. CASE q \in 1..Len(read)
      <4>1. read[q] + 1 \in Nat
        BY <3>2, <3>3, ElementOfSeq
      <4>2. read' = [read EXCEPT ![q] = read[q] + 1]
        BY <3>1
      <4> QED
        BY <3>2, <3>3, <4>1, <4>2, ExceptSeq
    <3>4. CASE q \notin 1..Len(read)
      <4>1. read' = read
        BY <3>1, <3>2, <3>4
      <4> QED
        BY <3>2, <4>1
    <3> QED
      BY <3>3, <3>4
  <2> QED
    BY <2>1 DEF QueriesInv
<1>2. \A n : Layer(n)' = Layer(n)
  BY DEF Layer
<1>3. ASSUME NEW q \in DOMAIN queries'
      PROVE  /\ queries'[q].layer \in stored'
             /\ queries'[q].set \in 1..Featuresets(Layer(queries[q].layer))'
             /\ \A p \in 1..q - 1 : Before(queries'[p], queries'[q])
  BY <1>2 DEF QueriesInv
<1>4. ASSUME NEW n \in stored', NEW j \in 1..Featuresets(Layer(n))'
      PROVE  \E q \in DOMAIN queries' : queries'[q] = [layer |-> n, set |-> j]
  BY <1>2 DEF QueriesInv
<1>5. queries' \in Seq([layer : Nat, set : Nat]) /\ Len(queries') = Len(queries)
  BY DEF QueriesInv
<1> QED
  BY <1>1, <1>3, <1>4, <1>5 DEF QueriesInv

LEMMA QueriesListed ==
    ASSUME QueriesInv, LayersInv, PrepareLayer
    PROVE  QueriesInv'
<1> DEFINE n == prep + 1
           count == Featuresets(Layer(n))
           zeros == [j \in 1..count |-> 0]
           new == [j \in 1..count |-> [layer |-> n, set |-> j]]
<1>1. map' = map /\ \A m : Layer(m)' = Layer(m)
  BY Zenon DEF PrepareLayer, Layer
<1>2. /\ prep \in Nat /\ Len(map.layers) \in Nat /\ prep < Len(map.layers)
      /\ stored \subseteq 1..prep
  BY DocumentOrder DEF LayersInv, PrepareLayer
<1>3. n \in 1..Len(map.layers) /\ n \in Nat /\ n \notin stored /\ \A m \in stored : m < n
  BY <1>2
<1>4. count \in Nat
  BY <1>3, DocumentOrder, FeaturesetsCount DEF LayersInv
<1>5. CASE UNCHANGED <<stored, queries, read>>
  BY <1>1, <1>5, SameQueries
<1>6. CASE /\ stored' = stored \cup {n}
           /\ queries' = Listed(n)
           /\ read' = read \o zeros
  <2> HIDE DEF n, count
  <2>1. new \in Seq([layer : Nat, set : Nat]) /\ Len(new) = count
    BY <1>3, <1>4
  <2>2. zeros \in Seq(Nat) /\ Len(zeros) = count
    BY <1>4
  <2> HIDE DEF zeros
  <2>3. queries' = queries \o new
    BY <1>6 DEF Listed, count
  <2> HIDE DEF new
  <2>4. /\ queries' \in Seq([layer : Nat, set : Nat])
        /\ Len(queries') = Len(queries) + count
        /\ \A q \in 1..Len(queries) + count :
              queries'[q] = IF q <= Len(queries) THEN queries[q]
                            ELSE new[q - Len(queries)]
    BY <2>1, <2>3, ConcatProperties DEF QueriesInv
  <2>5. read' \in Seq(Nat) /\ Len(read') = Len(read) + count
    <3>1. read \in Seq(Nat)
      BY DEF QueriesInv
    <3> QED
      BY <1>6, <2>2, <3>1, ConcatProperties
  <2>6. /\ Len(queries) \in Nat /\ DOMAIN queries = 1..Len(queries)
        /\ DOMAIN queries' = 1..Len(queries) + count
    BY <2>4, LenProperties DEF QueriesInv
  <2>7. \A q \in DOMAIN queries : q \in DOMAIN queries' /\ queries'[q] = queries[q]
    BY <1>4, <2>4, <2>6
  <2>8. ASSUME NEW j \in 1..count
        PROVE  /\ Len(queries) + j \in DOMAIN queries'
               /\ queries'[Len(queries) + j] = [layer |-> n, set |-> j]
    <3>1. /\ Len(queries) + j \in 1..Len(queries) + count
          /\ ~(Len(queries) + j <= Len(queries))
          /\ Len(queries) + j - Len(queries) = j
      BY <1>4, <2>6
    <3>2. new[j] = [layer |-> n, set |-> j]
      BY DEF new
    <3> QED
      BY <2>4, <2>6, <3>1, <3>2
  <2>9. ASSUME NEW q \in DOMAIN queries'
        PROVE  q \in DOMAIN queries \/ \E j \in 1..count : q = Len(queries) + j
    <3>1. q \in DOMAIN queries \/ q - Len(queries) \in 1..count
      BY <1>4, <2>6
    <3>2. q = Len(queries) + (q - Len(queries))
      BY <1>4, <2>6
    <3> QED
      BY <3>1, <3>2
  <2>10. ASSUME NEW q \in DOMAIN queries'
         PROVE  /\ queries'[q].layer \in stored'
                /\ queries'[q].set \in 1..Featuresets(Layer(queries'[q].layer))
                /\ \A p \in 1..q - 1 : Before(queries'[p], queries'[q])
    <3>1. CASE q \in DOMAIN queries
      <4>1. \A p \in 1..q - 1 : p \in DOMAIN queries
        BY <2>6, <3>1
      <4> QED
        BY <1>6, <2>7, <3>1, <4>1 DEF QueriesInv
    <3>2. ASSUME NEW j \in 1..count, q = Len(queries) + j
          PROVE  /\ queries'[q].layer \in stored'
                 /\ queries'[q].set \in 1..Featuresets(Layer(queries'[q].layer))
                 /\ \A p \in 1..q - 1 : Before(queries'[p], queries'[q])
      <4>1. queries'[q] = [layer |-> n, set |-> j]
        BY <2>8, <3>2
      <4>2. ASSUME NEW p \in 1..q - 1 PROVE Before(queries'[p], queries'[q])
        <5>1. p \in DOMAIN queries'
          BY <1>4, <2>6, <3>2
        <5>2. CASE p \in DOMAIN queries
          <6>1. queries[p].layer < n
            BY <1>3, <5>2 DEF QueriesInv
          <6> QED
            BY <2>7, <4>1, <5>2, <6>1 DEF Before
        <5>3. ASSUME NEW i \in 1..count, p = Len(queries) + i
              PROVE  Before(queries'[p], queries'[q])
          <6>1. queries'[p] = [layer |-> n, set |-> i]
            BY <2>8, <5>3
          <6>2. i < j
            BY <1>4, <2>6, <3>2, <5>3
          <6> QED
            BY <4>1, <6>1, <6>2 DEF Before
        <5> QED
          BY <2>9, <5>1, <5>2, <5>3
      <4> QED
        BY <1>6, <4>1, <4>2 DEF count
    <3> QED
      BY <2>9, <3>1, <3>2
  <2>11. ASSUME NEW m \in stored', NEW j \in 1..Featuresets(Layer(m))
         PROVE  \E q \in DOMAIN queries' : queries'[q] = [layer |-> m, set |-> j]
    <3>1. CASE m \in stored
      BY <2>7, <3>1 DEF QueriesInv
    <3>2. CASE m = n
      BY <2>8, <3>2 DEF count
    <3> QED
      BY <1>6, <3>1, <3>2
  <2> QED
    BY <1>1, <2>4, <2>5, <2>10, <2>11 DEF QueriesInv
<1> QED
  BY <1>5, <1>6, Zenon DEF PrepareLayer

LEMMA StepQueries == LayersInv /\ QueriesInv /\ [Next]_vars => QueriesInv'
<1> SUFFICES ASSUME LayersInv, QueriesInv, [Next]_vars PROVE QueriesInv'
  OBVIOUS
<1>1. CASE PrepareLayer
  BY <1>1, QueriesListed
<1>2. CASE \/ StartMapProcessing \/ BeginRendering \/ OpenLayer \/ CloseLayer
           \/ EndMapProcessing \/ RenderMaterial \/ EndPass \/ BeginStyle
           \/ IfRule \/ ElseAndAlso \/ OtherRule \/ Throws \/ UNCHANGED vars
  <2>1. UNCHANGED <<map, stored, queries>> /\ read' = read
    BY <1>2, Zenon DEF StartMapProcessing, BeginRendering, OpenLayer, CloseLayer,
       EndMapProcessing, RenderMaterial, EndPass, BeginStyle, IfRule,
       ElseAndAlso, OtherRule, Throws, vars
  <2> QED
    BY <2>1, SameQueries
<1>3. CASE Fetch \/ NextRow
  <2>1. /\ UNCHANGED <<map, stored, queries>>
        /\ read' = read \/ \E n, j : Reads(n, j)
    BY <1>3, Zenon DEF Fetch, NextRow
  <2> QED
    BY <2>1, SameQueries
<1> QED
  BY <1>1, <1>2, <1>3 DEF Next

-----------------------------------------------------------------------------
(* How far the featuresets have been read *)

AtWork == pc \notin {"start", "prepare", "thrown"} /\ ~Unrendered

\* One after the other, each to its end.
InTurn == \A q \in DOMAIN read : read[q] > 0 => \A p \in 1..q - 1 : Finished(p)

\* What is still to come has not been touched; what is behind is finished.
Untouched ==
    /\ pc \in {"start", "prepare"} \/ Unrendered => \A q \in DOMAIN read : read[q] = 0
    /\ \A q \in DOMAIN queries : queries[q].layer \in todo => read[q] = 0
Behind ==
    AtWork =>
        \A q \in DOMAIN queries :
            queries[q].layer \notin todo /\ ~(Reading /\ queries[q].layer = Current)
                => Finished(q)

\* The featuresets of the layer at hand, on the way they are read.
Half == Source(TheLayer) = "buffer" /\ ~TheLayer.null
AtHand(q) ==
    /\ pc = "material" => read[q] = 0
    /\ pc = "fetch" => read[q] <= Len(TheLayer.rows)
    /\ pc \in {"styles", "rows", "if", "other"} =>
         /\ Half => IF ahead = 0 THEN read[q] = Len(TheLayer.rows) + 1
                    ELSE read[q] <= Len(TheLayer.rows)
         /\ Source(TheLayer) = "query" =>
               /\ queries[q].set < style => read[q] = Len(TheLayer.rows) + 1
               /\ queries[q].set > style => read[q] = 0
               /\ queries[q].set = style =>
                     IF pc = "styles" THEN read[q] = 0
                     ELSE read[q] <= Len(TheLayer.rows)
AllAtHand ==
    Reading => \A q \in DOMAIN queries : queries[q].layer = Current => AtHand(q)

\* Where apply stands in a layer goes with the way its features are read.
Standing ==
    /\ style \in Nat \ {0}
    /\ ahead # 0 /\ pc # "thrown" => pc \in {"styles", "rows", "if", "other"} /\ Half
    /\ pc = "fetch" => Half
    /\ InStyle => style <= Len(ActiveStyles(TheLayer))

ReadInv == InTurn /\ Untouched /\ Behind /\ AllAtHand /\ Standing

LEMMA InitReads == Init => ReadInv
<1> SUFFICES ASSUME Init PROVE ReadInv
  OBVIOUS
<1> USE DEF Init
<1>1. InTurn /\ Untouched /\ Behind
  BY DEF InTurn, Untouched, Behind, AtWork
<1>2. AllAtHand /\ Standing
  BY DEF AllAtHand, Reading, Standing, InStyle
<1> QED
  BY <1>1, <1>2 DEF ReadInv

\* What follows from the layers and the queries being the same.
LEMMA SameView ==
    ASSUME UNCHANGED <<map, open>>
    PROVE  /\ \A n : Layer(n)' = Layer(n)
           /\ Current' = Current /\ TheLayer' = TheLayer
           /\ Half' = Half
           /\ Source(TheLayer)' = Source(TheLayer)
           /\ ActiveStyles(TheLayer)' = ActiveStyles(TheLayer)
<1>1. \A n : Layer(n)' = Layer(n)
  BY DEF Layer
<1>2. Current' = Current
  BY DEF Current
<1>3. TheLayer' = TheLayer
  BY <1>2 DEF TheLayer, Layer
<1> QED
  BY <1>1, <1>2, <1>3 DEF Half

LEMMA SameFinished ==
    ASSUME UNCHANGED <<map, queries>>, NEW q, read'[q] = read[q], Finished(q)
    PROVE  Finished(q)'
BY DEF Finished, Layer

\* Steps between the layers read nothing.
LEMMA BetweenKeepsReads ==
    ASSUME ReadInv, LayersInv, QueriesInv, LayersInv',
           \/ StartMapProcessing \/ BeginRendering \/ OpenLayer
           \/ CloseLayer \/ EndMapProcessing \/ Throws
    PROVE  ReadInv'
<1>1. UNCHANGED <<map, stored, queries, read, style, ahead>>
  BY Zenon DEF StartMapProcessing, BeginRendering, OpenLayer, CloseLayer,
     EndMapProcessing, Throws
<1>2. Unrendered' = Unrendered
  BY <1>1 DEF Unrendered
<1>3. InTurn'
  BY <1>1, SameFinished DEF ReadInv, InTurn
<1>4. DOMAIN queries = DOMAIN read /\ DOMAIN queries' = DOMAIN queries
  BY <1>1, LenProperties DEF QueriesInv
<1>5. \A q \in DOMAIN queries : queries[q].layer \in stored
  BY DEF QueriesInv
<1>6. CASE StartMapProcessing
  <2>1. pc = "start" /\ pc' = "prepare" /\ UNCHANGED <<open, todo>>
    BY <1>6, Zenon DEF StartMapProcessing, Goto
  <2> QED
    BY <1>1, <1>2, <1>3, <1>4, <2>1 DEF ReadInv, Untouched, Behind, AllAtHand,
      Standing, AtWork, Reading, InStyle
<1>7. CASE BeginRendering
  <2>1. /\ pc = "prepare" /\ pc' = "layers" /\ UNCHANGED open
        /\ todo' = IF Unrendered THEN {} ELSE stored
    BY <1>7, Zenon DEF BeginRendering, Goto
  <2>2. Untouched' /\ AllAtHand' /\ Standing'
    BY <1>1, <1>2, <1>4, <2>1 DEF ReadInv, Untouched, AllAtHand, Standing,
      Reading, InStyle
  <2>3. Behind'
    BY <1>1, <1>2, <1>4, <1>5, <2>1 DEF Behind, AtWork
  <2> QED
    BY <1>3, <2>2, <2>3 DEF ReadInv
<1>8. CASE OpenLayer
  <2> PICK n \in Nested : open' = Append(open, n) /\ todo' = todo \ {n}
    BY <1>8 DEF OpenLayer
  <2>1. pc = "layers" /\ pc' = "material" /\ n \in todo
    BY <1>8, Zenon DEF OpenLayer, Goto, Nested
  <2>2. Current' = n
    <3>1. open \in Seq(stored) /\ n \in stored
      BY <2>1 DEF LayersInv
    <3> QED
      BY <3>1 DEF Current
  <2>3. Untouched' /\ Standing'
    <3>1. ~Unrendered
      BY <2>1 DEF LayersInv
    <3>2. ahead = 0
      BY <2>1 DEF ReadInv, Standing
    <3> QED
      BY <1>1, <1>2, <1>4, <2>1, <3>1, <3>2 DEF ReadInv, Untouched, Standing, InStyle
  <2>4. AllAtHand'
    BY <1>1, <1>4, <2>1, <2>2 DEF ReadInv, Untouched, AllAtHand, AtHand
  <2>5. Behind'
    <3> SUFFICES ASSUME AtWork', NEW q \in DOMAIN queries,
                        queries[q].layer \notin todo', queries[q].layer # n
                 PROVE  Finished(q)'
      BY <1>1, <1>4, <2>1, <2>2 DEF Behind, Reading
    <3>1. AtWork /\ ~Reading /\ queries[q].layer \notin todo
      BY <1>2, <2>1 DEF AtWork, Reading
    <3>2. Finished(q)
      BY <3>1 DEF ReadInv, Behind
    <3> QED
      BY <1>1, <3>2, SameFinished
  <2> QED
    BY <1>3, <2>3, <2>4, <2>5 DEF ReadInv
<1>9. CASE CloseLayer \/ EndMapProcessing
  <2>1. /\ pc = "layers" /\ pc' \in {"layers", "done"} /\ UNCHANGED todo
    BY <1>9, Zenon DEF CloseLayer, EndMapProcessing, Goto
  <2>2. Untouched' /\ AllAtHand' /\ Standing'
    BY <1>1, <1>2, <1>4, <2>1 DEF ReadInv, Untouched, AllAtHand, Standing,
      Reading, InStyle
  <2>3. Behind'
    <3> SUFFICES ASSUME AtWork', NEW q \in DOMAIN queries, queries[q].layer \notin todo
                 PROVE  Finished(q)'
      BY <1>1, <1>4, <2>1 DEF Behind
    <3>1. AtWork /\ ~Reading
      BY <1>2, <2>1 DEF AtWork, Reading
    <3>2. Finished(q)
      BY <3>1 DEF ReadInv, Behind
    <3> QED
      BY <1>1, <3>2, SameFinished
  <2> QED
    BY <1>3, <2>2, <2>3 DEF ReadInv
<1>10. CASE Throws
  <2>1. /\ pc' = "thrown" /\ UNCHANGED todo
        /\ pc \notin {"start", "prepare"}
    BY <1>10, Zenon DEF Throws, Goto
  <2> QED
    BY <1>1, <1>2, <1>3, <1>4, <2>1 DEF ReadInv, Untouched, Behind, AllAtHand,
      Standing, AtWork, Reading, InStyle
<1> QED
  BY <1>6, <1>7, <1>8, <1>9, <1>10

\* A layer that is prepared adds featuresets nobody has read.
LEMMA PreparingKeepsReads ==
    ASSUME ReadInv, LayersInv, QueriesInv, QueriesInv', PrepareLayer
    PROVE  ReadInv'
<1>1. /\ UNCHANGED <<map, pc, todo, open, style, ahead>> /\ pc = "prepare"
      /\ \/ UNCHANGED read
         \/ read' = read \o [j \in 1..Featuresets(Layer(prep + 1)) |-> 0]
  BY Zenon DEF PrepareLayer
<1>2. todo = {}
  BY <1>1 DEF LayersInv
<1>3. \A q \in DOMAIN read' : read'[q] = 0
  <2>1. \A q \in DOMAIN read : read[q] = 0
    BY <1>1 DEF ReadInv, Untouched
  <2>2. CASE read' = read \o [j \in 1..Featuresets(Layer(prep + 1)) |-> 0]
    <3> DEFINE count == Featuresets(Layer(prep + 1))
               zeros == [j \in 1..count |-> 0]
    <3>1. count \in Nat
      <4>1. prep + 1 \in 1..Len(map.layers)
        BY DocumentOrder DEF PrepareLayer, LayersInv
      <4> QED
        BY <4>1, DocumentOrder, FeaturesetsCount DEF LayersInv
    <3> HIDE DEF count
    <3>2. zeros \in Seq(Nat) /\ Len(zeros) = count
      BY <3>1
    <3>3. \A j \in 1..count : zeros[j] = 0
      OBVIOUS
    <3> HIDE DEF zeros
    <3>4. read \in Seq(Nat)
      BY DEF QueriesInv
    <3>5. read' = read \o zeros
      BY <2>2 DEF zeros, count
    <3>6. /\ read' \in Seq(Nat) /\ Len(read') = Len(read) + count
          /\ \A q \in 1..Len(read) + count :
                read'[q] = IF q <= Len(read) THEN read[q] ELSE zeros[q - Len(read)]
      BY <3>2, <3>4, <3>5, ConcatProperties
    <3>7. DOMAIN read' = 1..Len(read) + count /\ DOMAIN read = 1..Len(read)
          /\ Len(read) \in Nat
      BY <3>4, <3>6, LenProperties
    <3> TAKE q \in DOMAIN read'
    <3>8. CASE q <= Len(read)
      <4>1. q \in DOMAIN read /\ read'[q] = read[q]
        BY <3>6, <3>7, <3>8
      <4> QED
        BY <2>1, <4>1
    <3>9. CASE ~(q <= Len(read))
      <4>1. q - Len(read) \in 1..count /\ read'[q] = zeros[q - Len(read)]
        BY <3>1, <3>6, <3>7, <3>9
      <4> QED
        BY <3>3, <4>1
    <3> QED
      BY <3>8, <3>9
  <2> QED
    BY <1>1, <2>1, <2>2
<1>4. InTurn' /\ Untouched'
  BY <1>1, <1>2, <1>3 DEF InTurn, Untouched
<1>5. Behind' /\ AllAtHand' /\ Standing'
  BY <1>1 DEF ReadInv, Behind, AllAtHand, Standing, AtWork, Reading, InStyle
<1> QED
  BY <1>4, <1>5 DEF ReadInv

\* Steps that read nothing, within a layer.
LEMMA NothingRead ==
    ASSUME ReadInv, LayersInv, QueriesInv, Reading, pc' \notin {"start", "prepare"},
           UNCHANGED <<map, stored, queries, read, todo, open>>
    PROVE  /\ InTurn' /\ Untouched'
           /\ \A q \in DOMAIN queries :
                 queries[q].layer \notin todo /\ queries[q].layer # Current => Finished(q)'
<1>1. ~Unrendered /\ ~Unrendered'
  BY DEF LayersInv, Reading, Unrendered
<1>2. InTurn'
  BY SameFinished DEF ReadInv, InTurn
<1>3. Untouched'
  BY <1>1 DEF ReadInv, Untouched
<1>4. AtWork
  BY <1>1 DEF AtWork, Reading
<1>5. \A q \in DOMAIN queries :
         queries[q].layer \notin todo /\ queries[q].layer # Current => Finished(q)
  BY <1>4 DEF ReadInv, Behind
<1> QED
  BY <1>2, <1>3, <1>5, SameFinished

\* A step that calls next on the j-th featureset of the layer at hand, when
\* those before it are finished and it is not.
LEMMA OneRead ==
    ASSUME ReadInv, LayersInv, QueriesInv, Reading, pc' \notin {"start", "prepare"},
           UNCHANGED <<map, stored, queries, todo, open>>,
           NEW j \in 1..Featuresets(TheLayer), ~TheLayer.null, Reads(Current, j),
           read[QueryOf(Current, j)] <= Len(TheLayer.rows),
           \A q \in DOMAIN queries :
              queries[q].layer = Current /\ queries[q].set < j => Finished(q)
    PROVE  /\ InTurn' /\ Untouched'
           /\ \A q \in DOMAIN queries :
                 queries[q].layer \notin todo /\ queries[q].layer # Current => Finished(q)'
           /\ \A q \in DOMAIN queries :
                 queries[q].layer = Current =>
                    read'[q] = IF queries[q].set = j THEN NextFeature(Current, j)
                               ELSE read[q]
           /\ NextFeature(Current, j) \in Nat \ {0}
<1> DEFINE Q == QueryOf(Current, j)
<1>1. open # <<>> /\ \A n \in stored \ todo : n <= Current
  BY DEF LayersInv
<1>2. /\ Current \in stored \ todo /\ Current \in Nat
      /\ ~Unrendered /\ ~Unrendered' /\ Len(TheLayer.rows) \in Nat
  BY <1>1, AtLayer DEF Unrendered
<1>3. /\ Q \in DOMAIN queries /\ Q \in DOMAIN read /\ read[Q] \in Nat
      /\ queries[Q] = [layer |-> Current, set |-> j]
      /\ \A q \in DOMAIN queries :
            queries[q].layer = Current /\ queries[q].set = j => q = Q
      /\ \A p \in 1..Q - 1 :
            /\ p \in DOMAIN queries
            /\ queries[p].layer < Current \/ (queries[p].layer = Current /\ queries[p].set < j)
  BY <1>2, QueryFound DEF TheLayer
<1>4. /\ read' = [read EXCEPT ![Q] = @ + 1]
      /\ NextFeature(Current, j) = read[Q] + 1
      /\ read[Q] <= Len(TheLayer.rows)
  BY DEF Reads, NextFeature
<1> HIDE DEF Q
<1>5. /\ DOMAIN queries = DOMAIN read /\ DOMAIN read' = DOMAIN read
      /\ \A q \in DOMAIN queries : queries[q].layer \in stored /\ q \in Nat
      /\ \A q \in DOMAIN queries : queries[q].layer \in Nat
  <2>1. /\ queries \in Seq([layer : Nat, set : Nat]) /\ read \in Seq(Nat)
        /\ Len(read) = Len(queries)
    BY DEF QueriesInv
  <2>2. /\ DOMAIN queries = 1..Len(queries) /\ DOMAIN read = 1..Len(read)
        /\ \A q \in DOMAIN queries : queries[q] \in [layer : Nat, set : Nat]
    BY <2>1, LenProperties
  <2>3. \A q \in DOMAIN queries : queries[q].layer \in stored
    BY DEF QueriesInv
  <2> QED
    BY <1>4, <2>1, <2>2, <2>3
<1>6. /\ read'[Q] = read[Q] + 1
      /\ \A q \in DOMAIN read : q # Q => read'[q] = read[q]
  BY <1>3, <1>4
<1>7. ~Finished(Q)
  BY <1>2, <1>3, <1>4 DEF Finished, TheLayer
<1>8. \A q \in DOMAIN queries : Finished(q) => Finished(q)'
  BY <1>5, <1>6, <1>7, SameFinished
<1>9. AtWork
  BY <1>2 DEF AtWork, Reading
<1>10. \A q \in DOMAIN queries :
          queries[q].layer \notin todo /\ queries[q].layer # Current => Finished(q)
  BY <1>9 DEF ReadInv, Behind
<1>11. ASSUME NEW p \in 1..Q - 1 PROVE p \in DOMAIN queries /\ Finished(p)
  <2>1. p \in DOMAIN queries
    BY <1>3
  <2>2. CASE queries[p].layer < Current
    <3>1. queries[p].layer \notin todo
      BY <1>2, <1>5, <2>1, <2>2 DEF LayersInv
    <3>2. queries[p].layer # Current
      BY <1>2, <1>5, <2>1, <2>2
    <3> QED
      BY <1>10, <2>1, <3>1, <3>2
  <2> QED
    BY <1>3, <2>1, <2>2
<1>12. InTurn'
  <2> SUFFICES ASSUME NEW q \in DOMAIN read, read'[q] > 0, NEW p \in 1..q - 1
               PROVE  Finished(p)'
    BY <1>5 DEF InTurn
  <2>1. p \in DOMAIN queries
    <3>1. DOMAIN queries = 1..Len(queries) /\ Len(queries) \in Nat
      BY LenProperties DEF QueriesInv
    <3> QED
      BY <1>5, <3>1
  <2>2. CASE q = Q
    BY <1>8, <1>11, <2>2
  <2>3. CASE q # Q
    <3>1. read[q] > 0
      BY <1>6, <2>3
    <3>2. Finished(p)
      BY <3>1 DEF ReadInv, InTurn
    <3> QED
      BY <1>8, <2>1, <3>2
  <2> QED
    BY <2>2, <2>3
<1>13. Untouched'
  <2> SUFFICES ASSUME NEW q \in DOMAIN queries, queries[q].layer \in todo
               PROVE  read'[q] = 0
    BY <1>2 DEF Untouched
  <2>1. q # Q
    BY <1>2, <1>3
  <2> QED
    BY <1>5, <1>6, <2>1 DEF ReadInv, Untouched
<1>14. \A q \in DOMAIN queries :
          queries[q].layer \notin todo /\ queries[q].layer # Current => Finished(q)'
  BY <1>8, <1>10
<1>15. \A q \in DOMAIN queries :
          queries[q].layer = Current =>
             read'[q] = IF queries[q].set = j THEN NextFeature(Current, j) ELSE read[q]
  <2> SUFFICES ASSUME NEW q \in DOMAIN queries, queries[q].layer = Current
               PROVE  read'[q] = IF queries[q].set = j THEN NextFeature(Current, j)
                                 ELSE read[q]
    OBVIOUS
  <2>1. CASE queries[q].set = j
    BY <1>3, <1>4, <1>6, <2>1
  <2>2. CASE queries[q].set # j
    BY <1>3, <1>5, <1>6, <2>2
  <2> QED
    BY <2>1, <2>2
<1> QED
  BY <1>3, <1>4, <1>12, <1>13, <1>14, <1>15

\* The parts put together again, for a step that goes on in the layer, and
\* for one that leaves it finished.
LEMMA GoesOn ==
    ASSUME UNCHANGED <<map, stored, queries, todo, open>>,
           InTurn', Untouched', Standing',
           \A q \in DOMAIN queries :
              queries[q].layer \notin todo /\ queries[q].layer # Current => Finished(q)',
           pc' \in {"fetch", "styles", "rows", "if", "other"},
           \A q \in DOMAIN queries : queries[q].layer = Current => AtHand(q)'
    PROVE  ReadInv'
<1>1. Current' = Current /\ Reading'
  BY SameView DEF Reading
<1> QED
  BY <1>1 DEF ReadInv, Behind, AllAtHand

LEMMA LeavesLayer ==
    ASSUME UNCHANGED <<map, stored, queries, todo, open>>,
           InTurn', Untouched', Standing',
           \A q \in DOMAIN queries :
              queries[q].layer \notin todo /\ queries[q].layer # Current => Finished(q)',
           pc' = "layers",
           \A q \in DOMAIN queries : queries[q].layer = Current => Finished(q)'
    PROVE  ReadInv'
BY DEF ReadInv, Behind, AllAtHand, Reading

\* Facts about the layer at hand used by all its steps.
LEMMA InLayer ==
    ASSUME LayersInv, QueriesInv, Reading
    PROVE  /\ Current \in stored \ todo /\ Len(TheLayer.rows) \in Nat
           /\ Layer(Current) = TheLayer
           /\ Featuresets(TheLayer) \in Nat /\ Len(ActiveStyles(TheLayer)) \in Nat
           /\ ~TheLayer.datasource => Featuresets(TheLayer) = 0
           /\ Source(TheLayer) = "buffer" => Featuresets(TheLayer) = 1
           /\ Source(TheLayer) = "query" =>
                Featuresets(TheLayer) = Len(ActiveStyles(TheLayer)) /\ ~TheLayer.null
           /\ Source(TheLayer) = "none" => Featuresets(TheLayer) = 0 \/ TheLayer.null
           /\ Source(TheLayer) \in {"none", "buffer", "query"}
           /\ \A q \in DOMAIN queries :
                 /\ queries[q].layer = Current => queries[q].set \in 1..Featuresets(TheLayer)
                 /\ read[q] \in Nat /\ q \in DOMAIN read
<1>1. open # <<>>
  BY DEF LayersInv
<1>2. \A q \in DOMAIN queries : read[q] \in Nat /\ q \in DOMAIN read
  <2>1. read \in Seq(Nat) /\ Len(read) = Len(queries) /\ DOMAIN queries = 1..Len(queries)
    BY LenProperties DEF QueriesInv
  <2> QED
    BY <2>1, LenProperties
<1>3. \A q \in DOMAIN queries :
         queries[q].layer = Current => queries[q].set \in 1..Featuresets(TheLayer)
  BY DEF QueriesInv, TheLayer
<1>4. IsSequence(TheLayer.styles)
  BY <1>1, AtLayer
<1> QED
  BY <1>1, <1>2, <1>3, <1>4, AtLayer, FeaturesetsCount, ActiveStylesCount DEF TheLayer

\* A featureset of the layer at hand that is finished.
LEMMA FinishedHere ==
    ASSUME NEW q, queries[q].layer = Current,
           TheLayer.null \/ read[q] = Len(TheLayer.rows) + 1
    PROVE  Finished(q)
BY DEF Finished, TheLayer

LEMMA RenderMaterialKeepsReads ==
    ASSUME ReadInv, LayersInv, QueriesInv, RenderMaterial
    PROVE  ReadInv'
<1>1. /\ pc = "material" /\ Reading /\ style' = 1
      /\ UNCHANGED <<map, stored, queries, read, todo, open, ahead>>
      /\ pc' = IF ~TheLayer.datasource THEN "layers"
               ELSE IF Source(TheLayer) # "buffer" THEN "styles"
               ELSE IF ~TheLayer.null THEN "fetch"
               ELSE IF Grouped(TheLayer) THEN "layers" ELSE "styles"
  BY Zenon DEF RenderMaterial, Goto, Reading
<1>2. /\ InTurn' /\ Untouched'
      /\ \A q \in DOMAIN queries :
            queries[q].layer \notin todo /\ queries[q].layer # Current => Finished(q)'
  BY <1>1, NothingRead
<1>3. \A q \in DOMAIN queries : queries[q].layer = Current => read[q] = 0
  BY <1>1 DEF ReadInv, AllAtHand, AtHand
<1>4. /\ Current' = Current /\ TheLayer' = TheLayer /\ (Half' <=> Half)
      /\ Source(TheLayer)' = Source(TheLayer)
  BY <1>1, SameView
<1>5. ahead = 0
  BY <1>1 DEF ReadInv, Standing
<1>6. Standing'
  BY <1>1, <1>4, <1>5 DEF Standing, InStyle, Half
<1>7. CASE pc' = "layers"
  <2>1. ASSUME NEW q \in DOMAIN queries, queries[q].layer = Current
        PROVE  Finished(q)'
    <3>1. queries[q].set \in 1..Featuresets(TheLayer)
      BY <1>1, <2>1, InLayer
    <3>2. TheLayer.null
      BY <1>1, <1>7, <3>1, InLayer
    <3> QED
      BY <1>1, <2>1, <3>2, FinishedHere, SameFinished
  <2> QED
    BY <1>1, <1>2, <1>6, <1>7, <2>1, LeavesLayer
<1>8. CASE pc' \in {"styles", "fetch"}
  <2>1. ASSUME NEW q \in DOMAIN queries, queries[q].layer = Current
        PROVE  AtHand(q)'
    <3>1. read'[q] = 0 /\ queries[q].set \in 1..Featuresets(TheLayer)
      BY <1>1, <1>3, <2>1, InLayer
    <3>2. Len(TheLayer.rows) \in Nat
      BY <1>1, InLayer
    <3>3. pc' = "styles" => ~Half
      BY <1>1 DEF Half
    <3>4. Featuresets(TheLayer) \in Nat
      BY <1>1, InLayer
    <3> QED
      BY <1>1, <1>4, <1>8, <3>1, <3>2, <3>3, <3>4 DEF AtHand
  <2> QED
    BY <1>1, <1>2, <1>6, <1>8, <2>1, GoesOn
<1> QED
  BY <1>1, <1>7, <1>8

LEMMA FetchKeepsReads ==
    ASSUME ReadInv, LayersInv, QueriesInv, Fetch
    PROVE  ReadInv'
<1>1. /\ pc = "fetch" /\ Reading /\ Reads(Current, 1)
      /\ UNCHANGED <<map, stored, queries, todo, open>>
      /\ pc' \in {"fetch", "styles"}
  BY Zenon DEF Fetch, Goto, Reading
<1>2. Half /\ ahead = 0 /\ style \in Nat \ {0}
  BY <1>1 DEF ReadInv, Standing
<1>3. /\ Featuresets(TheLayer) = 1 /\ ~TheLayer.null
      /\ 1 \in 1..Featuresets(TheLayer)
      /\ Current \in stored /\ Layer(Current) = TheLayer
      /\ Len(TheLayer.rows) \in Nat
  BY <1>1, <1>2, InLayer DEF Half
<1> DEFINE Q == QueryOf(Current, 1)
<1>4. /\ Q \in DOMAIN queries /\ queries[Q] = [layer |-> Current, set |-> 1]
      /\ read[Q] \in Nat
  BY <1>3, QueryFound
<1>5. read[Q] <= Len(TheLayer.rows)
  BY <1>1, <1>4 DEF ReadInv, AllAtHand, AtHand
<1>6. \A q \in DOMAIN queries : queries[q].layer = Current => queries[q].set = 1
  BY <1>1, <1>3, InLayer
<1>7. /\ InTurn' /\ Untouched'
      /\ \A q \in DOMAIN queries :
            queries[q].layer \notin todo /\ queries[q].layer # Current => Finished(q)'
      /\ \A q \in DOMAIN queries :
            queries[q].layer = Current => read'[q] = NextFeature(Current, 1)
      /\ NextFeature(Current, 1) \in Nat \ {0}
  BY <1>1, <1>3, <1>5, <1>6, OneRead
<1>8. NextFeature(Current, 1) = read[Q] + 1 /\ (Remains(Current, 1) <=> read[Q] < Len(TheLayer.rows))
  BY <1>3 DEF NextFeature, Remains
<1>9. /\ Current' = Current /\ TheLayer' = TheLayer /\ (Half' <=> Half)
      /\ Source(TheLayer)' = Source(TheLayer)
  BY <1>1, SameView
<1> HIDE DEF Q
<1>10. \/ pc' = "fetch" /\ ahead' = 0 /\ style' = style /\ read[Q] < Len(TheLayer.rows)
       \/ pc' = "styles" /\ ahead' # 0 /\ style' = 1 /\ read[Q] < Len(TheLayer.rows)
       \/ pc' = "styles" /\ ahead' = 0 /\ style' = 1 /\ read[Q] = Len(TheLayer.rows)
  <2>1. \/ Remains(Current, 1) /\ UNCHANGED <<pc, style, ahead>>
        \/ /\ Remains(Current, 1) /\ ahead' = NextFeature(Current, 1)
           /\ style' = 1 /\ pc' = "styles"
        \/ ~Remains(Current, 1) /\ style' = 1 /\ pc' = "styles" /\ ahead' = ahead
    BY Zenon DEF Fetch, Goto
  <2>2. CASE Remains(Current, 1)
    BY <1>1, <1>2, <1>7, <1>8, <2>1, <2>2
  <2>3. CASE ~Remains(Current, 1)
    BY <1>2, <1>3, <1>4, <1>5, <1>8, <2>1, <2>3
  <2> QED
    BY <2>2, <2>3
<1>11. Standing'
  BY <1>2, <1>9, <1>10 DEF Standing, InStyle
<1>12. ASSUME NEW q \in DOMAIN queries, queries[q].layer = Current
       PROVE  AtHand(q)'
  <2>1. read'[q] = read[Q] + 1
    BY <1>7, <1>8, <1>12
  <2>2. Source(TheLayer) # "query"
    BY <1>2 DEF Half
  <2> QED
    BY <1>3, <1>4, <1>9, <1>10, <2>1, <2>2 DEF AtHand
<1> QED
  BY <1>1, <1>7, <1>11, <1>12, GoesOn

LEMMA EndPassKeepsReads ==
    ASSUME ReadInv, LayersInv, QueriesInv, EndPass
    PROVE  ReadInv'
<1>1. /\ pc = "styles" /\ Reading /\ style > Len(ActiveStyles(TheLayer))
      /\ UNCHANGED <<map, stored, queries, read, todo, open, style>>
      /\ pc' = IF ahead # 0 THEN "fetch" ELSE "layers"
      /\ ahead' = 0
  BY Zenon DEF EndPass, Goto, Reading
<1>2. /\ InTurn' /\ Untouched'
      /\ \A q \in DOMAIN queries :
            queries[q].layer \notin todo /\ queries[q].layer # Current => Finished(q)'
  BY <1>1, NothingRead
<1>3. /\ Current' = Current /\ TheLayer' = TheLayer /\ (Half' <=> Half)
      /\ Source(TheLayer)' = Source(TheLayer)
  BY <1>1, SameView
<1>4. \A q \in DOMAIN queries : queries[q].layer = Current => AtHand(q)
  BY <1>1 DEF ReadInv, AllAtHand
<1>5. Standing'
  BY <1>1, <1>3 DEF ReadInv, Standing, InStyle
<1>6. CASE ahead # 0
  <2>1. Half
    BY <1>1, <1>6 DEF ReadInv, Standing
  <2>2. ASSUME NEW q \in DOMAIN queries, queries[q].layer = Current
        PROVE  AtHand(q)'
    BY <1>1, <1>3, <1>4, <1>6, <2>1, <2>2 DEF AtHand
  <2> QED
    BY <1>1, <1>2, <1>5, <1>6, <2>2, GoesOn
<1>7. CASE ahead = 0
  <2>1. ASSUME NEW q \in DOMAIN queries, queries[q].layer = Current
        PROVE  Finished(q)'
    <3>1. queries[q].set \in 1..Featuresets(TheLayer) /\ Featuresets(TheLayer) \in Nat
      BY <1>1, <2>1, InLayer
    <3>2. TheLayer.null \/ read[q] = Len(TheLayer.rows) + 1
      <4>1. CASE Source(TheLayer) = "none"
        BY <1>1, <3>1, <4>1, InLayer
      <4>2. CASE Source(TheLayer) = "buffer"
        BY <1>1, <1>4, <1>7, <2>1, <4>2 DEF AtHand, Half
      <4>3. CASE Source(TheLayer) = "query"
        <5>1. Featuresets(TheLayer) = Len(ActiveStyles(TheLayer)) /\ style \in Nat
          BY <1>1, <4>3, InLayer DEF ReadInv, Standing
        <5>2. queries[q].set < style
          BY <1>1, <3>1, <5>1
        <5> QED
          BY <1>1, <1>4, <2>1, <4>3, <5>2 DEF AtHand
      <4> QED
        BY <1>1, <4>1, <4>2, <4>3, InLayer
    <3> QED
      BY <1>1, <2>1, <3>2, FinishedHere, SameFinished
  <2> QED
    BY <1>1, <1>2, <1>5, <1>7, <2>1, LeavesLayer
<1> QED
  BY <1>6, <1>7

\* Steps within a style that read nothing and stay in it.
LEMMA RulesKeepReads ==
    ASSUME ReadInv, LayersInv, QueriesInv,
           BeginStyle \/ IfRule \/ ElseAndAlso \/ OtherRule
    PROVE  ReadInv'
<1>1. /\ UNCHANGED <<map, stored, queries, read, todo, open, style, ahead>>
      /\ pc \in {"styles", "if", "other"} /\ Reading
      /\ pc' \in {"rows", "if", "other"}
      /\ pc = "styles" => style <= Len(ActiveStyles(TheLayer))
  BY Zenon DEF BeginStyle, IfRule, ElseAndAlso, OtherRule, Goto, Reading
<1>2. /\ InTurn' /\ Untouched'
      /\ \A q \in DOMAIN queries :
            queries[q].layer \notin todo /\ queries[q].layer # Current => Finished(q)'
  BY <1>1, NothingRead
<1>3. /\ Current' = Current /\ TheLayer' = TheLayer /\ (Half' <=> Half)
      /\ Source(TheLayer)' = Source(TheLayer)
      /\ ActiveStyles(TheLayer)' = ActiveStyles(TheLayer)
  BY <1>1, SameView
<1>4. \A q \in DOMAIN queries : queries[q].layer = Current => AtHand(q)
  BY <1>1 DEF ReadInv, AllAtHand
<1>5. Standing'
  BY <1>1, <1>3 DEF ReadInv, Standing, InStyle
<1>6. ASSUME NEW q \in DOMAIN queries, queries[q].layer = Current
      PROVE  AtHand(q)'
  <2>1. Len(TheLayer.rows) \in Nat
    BY <1>1, InLayer
  <2> QED
    BY <1>1, <1>3, <1>4, <1>6, <2>1 DEF AtHand
<1> QED
  BY <1>1, <1>2, <1>5, <1>6, GoesOn

LEMMA NextRowKeepsReads ==
    ASSUME ReadInv, LayersInv, QueriesInv, NextRow
    PROVE  ReadInv'
<1>1. /\ pc = "rows" /\ Reading
      /\ UNCHANGED <<map, stored, queries, todo, open, ahead>>
  BY Zenon DEF NextRow, Reading
<1>2. /\ Current' = Current /\ TheLayer' = TheLayer /\ (Half' <=> Half)
      /\ Source(TheLayer)' = Source(TheLayer)
      /\ ActiveStyles(TheLayer)' = ActiveStyles(TheLayer)
  BY <1>1, SameView
<1>3. \A q \in DOMAIN queries : queries[q].layer = Current => AtHand(q)
  BY <1>1 DEF ReadInv, AllAtHand
<1>4. /\ style \in Nat \ {0} /\ style <= Len(ActiveStyles(TheLayer))
      /\ ahead # 0 => Half
      /\ Len(ActiveStyles(TheLayer)) \in Nat /\ Len(TheLayer.rows) \in Nat
  BY <1>1, InLayer DEF ReadInv, Standing, InStyle
\* A row is taken, or the style is finished.
<1>5. \/ pc' = "if" /\ style' = style
      \/ pc' = "styles" /\ style' = style + 1
  BY Zenon DEF NextRow, TakesRow, FinishesStyle, Goto
<1>6. Standing'
  BY <1>1, <1>2, <1>4, <1>5 DEF Standing, InStyle
<1>7. CASE Source(TheLayer) # "query"
  <2>1. read' = read
    BY <1>7, Zenon DEF NextRow
  <2>2. pc' \notin {"start", "prepare"}
    BY <1>5
  <2>3. /\ InTurn' /\ Untouched'
        /\ \A q \in DOMAIN queries :
              queries[q].layer \notin todo /\ queries[q].layer # Current => Finished(q)'
    BY <1>1, <2>1, <2>2, NothingRead
  <2>4. ASSUME NEW q \in DOMAIN queries, queries[q].layer = Current
        PROVE  AtHand(q)'
    BY <1>1, <1>2, <1>3, <1>5, <1>7, <2>1, <2>4 DEF AtHand
  <2> QED
    BY <1>1, <1>5, <1>6, <2>3, <2>4, GoesOn
<1>8. CASE Source(TheLayer) = "query"
  <2>1. /\ Reads(Current, style)
        /\ IF Remains(Current, style) THEN pc' = "if" /\ style' = style
           ELSE pc' = "styles" /\ style' = style + 1
    BY <1>8, Zenon DEF NextRow, TakesRow, FinishesStyle, Goto
  <2>2. /\ Featuresets(TheLayer) = Len(ActiveStyles(TheLayer)) /\ ~TheLayer.null
        /\ Current \in stored /\ Layer(Current) = TheLayer /\ ~Half
    BY <1>1, <1>8, InLayer DEF Half
  <2>3. style \in 1..Featuresets(TheLayer)
    BY <1>4, <2>2
  <2> DEFINE Q == QueryOf(Current, style)
  <2>4. /\ Q \in DOMAIN queries /\ queries[Q] = [layer |-> Current, set |-> style]
        /\ read[Q] \in Nat
    BY <2>2, <2>3, QueryFound
  <2>5. read[Q] <= Len(TheLayer.rows)
    BY <1>1, <1>3, <1>8, <2>4 DEF AtHand
  <2>6. ASSUME NEW q \in DOMAIN queries, queries[q].layer = Current,
               queries[q].set < style
        PROVE  Finished(q)
    BY <1>1, <1>3, <1>8, <2>6, FinishedHere DEF AtHand
  <2>7. pc' \notin {"start", "prepare"}
    BY <1>5
  <2>8. /\ InTurn' /\ Untouched'
        /\ \A q \in DOMAIN queries :
              queries[q].layer \notin todo /\ queries[q].layer # Current => Finished(q)'
        /\ \A q \in DOMAIN queries :
              queries[q].layer = Current =>
                 read'[q] = IF queries[q].set = style THEN NextFeature(Current, style)
                            ELSE read[q]
    BY <1>1, <2>1, <2>2, <2>3, <2>5, <2>6, <2>7, OneRead
  <2>9. /\ NextFeature(Current, style) = read[Q] + 1
        /\ Remains(Current, style) <=> read[Q] < Len(TheLayer.rows)
    BY <2>2 DEF NextFeature, Remains
  <2> HIDE DEF Q
  <2>10. ASSUME NEW q \in DOMAIN queries, queries[q].layer = Current
         PROVE  AtHand(q)'
    <3>1. /\ queries[q].set \in 1..Featuresets(TheLayer)
          /\ queries[q].set \in Nat
      BY <1>1, <1>4, <2>2, <2>10, InLayer
    <3>2. read'[q] = IF queries[q].set = style THEN read[Q] + 1 ELSE read[q]
      BY <2>8, <2>9, <2>10
    <3>3. /\ queries[q].set < style => read[q] = Len(TheLayer.rows) + 1
          /\ queries[q].set > style => read[q] = 0
      BY <1>1, <1>3, <1>8, <2>10 DEF AtHand
    <3>4. CASE pc' = "if" /\ style' = style /\ read[Q] < Len(TheLayer.rows)
      BY <1>1, <1>2, <1>4, <1>8, <2>2, <2>4, <3>1, <3>2, <3>3, <3>4 DEF AtHand
    <3>5. CASE pc' = "styles" /\ style' = style + 1 /\ read[Q] = Len(TheLayer.rows)
      BY <1>1, <1>2, <1>4, <1>8, <2>2, <2>4, <3>1, <3>2, <3>3, <3>5 DEF AtHand
    <3> QED
      BY <1>4, <2>1, <2>4, <2>5, <2>9, <3>4, <3>5
  <2> QED
    BY <1>1, <1>5, <1>6, <2>8, <2>10, GoesOn
<1> QED
  BY <1>7, <1>8

LEMMA StepReads ==
    LayersInv /\ QueriesInv /\ ReadInv /\ [Next]_vars => ReadInv'
<1> SUFFICES ASSUME LayersInv, QueriesInv, ReadInv, [Next]_vars PROVE ReadInv'
  OBVIOUS
<1>1. LayersInv' /\ QueriesInv'
  BY StepLayers, StepQueries
<1>2. CASE UNCHANGED vars
  <2>1. UNCHANGED <<map, pc, stored, queries, read, todo, open, style, ahead>>
    BY <1>2 DEF vars
  <2>2. /\ Current' = Current /\ TheLayer' = TheLayer /\ (Half' <=> Half)
        /\ Source(TheLayer)' = Source(TheLayer)
        /\ ActiveStyles(TheLayer)' = ActiveStyles(TheLayer)
    BY <2>1, SameView
  <2>3. InTurn' /\ Behind'
    BY <2>1, <2>2, SameFinished DEF ReadInv, InTurn, Behind, AtWork, Reading, Unrendered
  <2>4. Untouched' /\ AllAtHand' /\ Standing'
    BY <2>1, <2>2 DEF ReadInv, Untouched, AllAtHand, AtHand, Standing, Reading,
      InStyle, Unrendered
  <2> QED
    BY <2>3, <2>4 DEF ReadInv
<1> QED
  BY <1>1, <1>2, BetweenKeepsReads, PreparingKeepsReads, RenderMaterialKeepsReads,
     FetchKeepsReads, EndPassKeepsReads, RulesKeepReads, NextRowKeepsReads
  DEF Next

\* The invariant about the reading of features holds in every rendering.
THEOREM ReadingInvariance == Spec => [](LayersInv /\ QueriesInv /\ ReadInv)
BY InitLayers, InitQueries, InitReads, StepLayers, StepQueries, StepReads, PTL DEF Spec

\* For maps of any depth and on every path to the features, the featuresets
\* are read in the order in which they were asked for, each to its end.
THEOREM ReadsInOrder == Spec => []ReadAsPrepared
<1>1. LayersInv /\ QueriesInv /\ ReadInv => ReadAsPrepared
  <2> SUFFICES ASSUME LayersInv, QueriesInv, ReadInv PROVE ReadAsPrepared
    OBVIOUS
  <2>1. DOMAIN queries = DOMAIN read
    BY LenProperties DEF QueriesInv
  <2>2. ASSUME pc = "done", ~Unrendered, NEW q \in DOMAIN read PROVE Finished(q)
    <3>1. AtWork /\ ~Reading /\ todo = {}
      BY <2>2 DEF AtWork, Reading, LayersInv
    <3> QED
      BY <2>1, <3>1 DEF ReadInv, Behind
  <2> QED
    BY <2>2 DEF ReadInv, InTurn, ReadAsPrepared
<1> QED
  BY <1>1, ReadingInvariance, PTL

-----------------------------------------------------------------------------
(* The features and the rules at hand, and the stack of references *)

\* What was read are numbers, and while a style is at work, the buffer it reads
\* from ends where its features do.
HandInv ==
    /\ prev \in Nat /\ ahead \in Nat /\ row \in Nat
    /\ buffer \in [features : Seq(Nat), pos : Nat, end : Nat]
    /\ InStyle /\ Source(TheLayer) = "buffer" =>
         buffer.pos <= buffer.end /\ buffer.end = Len(buffer.features)

RulesInv ==
    /\ rules \in Seq(Nat)
    /\ flags \in [{"do_else", "do_also", "was_painted"} -> BOOLEAN]

\* Nothing refers to a buffer there is not, also when an exception has left the
\* stack as it was.
StackInv ==
    /\ pc = "thrown" => buffers \in Seq(References(internals)) /\ buffers # <<>>
    /\ border \in Nat \cup {-1}
    /\ offset \in Nat

\* What the assignments to the fields of the two records leave them.
LEMMA FlagRecords ==
    ASSUME NEW a \in BOOLEAN, NEW b \in BOOLEAN, NEW c \in BOOLEAN
    PROVE  [do_else |-> a, do_also |-> b, was_painted |-> c]
              \in [{"do_else", "do_also", "was_painted"} -> BOOLEAN]
OBVIOUS

LEMMA FlagsSet ==
    ASSUME NEW f \in [{"do_else", "do_also", "was_painted"} -> BOOLEAN],
           NEW b \in BOOLEAN
    PROVE  /\ [f EXCEPT !.was_painted = b]
                 \in [{"do_else", "do_also", "was_painted"} -> BOOLEAN]
           /\ [f EXCEPT !.do_else = TRUE, !.do_also = FALSE]
                 \in [{"do_else", "do_also", "was_painted"} -> BOOLEAN]
OBVIOUS

LEMMA BufferPushed ==
    ASSUME NEW b \in [features : Seq(Nat), pos : Nat, end : Nat], NEW n \in Nat
    PROVE  [b EXCEPT !.features = Append(@, n)]
              \in [features : Seq(Nat), pos : Nat, end : Nat]
<1>1. Append(b.features, n) \in Seq(Nat)
  OBVIOUS
<1> QED
  BY <1>1

LEMMA BufferCleared ==
    ASSUME NEW b \in [features : Seq(Nat), pos : Nat, end : Nat]
    PROVE  [b EXCEPT !.features = <<>>]
              \in [features : Seq(Nat), pos : Nat, end : Nat]
<1>1. <<>> \in Seq(Nat)
  OBVIOUS
<1> QED
  BY <1>1

LEMMA BufferPrepared ==
    ASSUME NEW b \in [features : Seq(Nat), pos : Nat, end : Nat], NEW n \in Nat
    PROVE  LET c == [b EXCEPT !.pos = 0, !.end = n]
           IN /\ c \in [features : Seq(Nat), pos : Nat, end : Nat]
              /\ c.pos = 0 /\ c.end = n /\ c.features = b.features
OBVIOUS

LEMMA InitHand == Init => HandInv /\ RulesInv /\ StackInv
<1> SUFFICES ASSUME Init PROVE HandInv /\ RulesInv /\ StackInv
  OBVIOUS
<1> USE DEF Init
<1>1. HandInv
  BY EmptySeq DEF HandInv, NoBuffer, InStyle
<1>2. RulesInv
  <2>1. flags = NoFlags /\ NoFlags \in [{"do_else", "do_also", "was_painted"} -> BOOLEAN]
    BY FlagRecords DEF NoFlags
  <2> QED
    BY <2>1, EmptySeq DEF RulesInv
<1>3. StackInv
  BY DEF StackInv, InitBuffers, References, Pixmap, Inflated
<1> QED
  BY <1>1, <1>2, <1>3

\* The style at hand is one of its layer.
LEMMA AtStyle ==
    ASSUME LayersInv, QueriesInv, Reading,
           style \in 1..Len(ActiveStyles(TheLayer))
    PROVE  IsSequence(TheStyle.rules) /\ TheStyle.radius \in Nat
<1>1. open # <<>>
  BY DEF LayersInv
<1>2. /\ Current \in 1..Len(map.layers) /\ map \in Maps
      /\ IsSequence(TheLayer.styles)
  BY <1>1, AtLayer DEF LayersInv
<1>3. StyleNumber \in DOMAIN TheLayer.styles
  BY <1>2, ActiveStylesCount DEF StyleNumber
<1> QED
  BY <1>2, <1>3, DocumentOrder DEF TheStyle, TheLayer

\* How often a featureset was read is a number.
LEMMA NextIsNumber ==
    ASSUME LayersInv, QueriesInv, Reading, NEW j \in 1..Featuresets(TheLayer)
    PROVE  NextFeature(Current, j) \in Nat
<1>1. Current \in stored /\ Layer(Current) = TheLayer
  BY InLayer
<1>2. read[QueryOf(Current, j)] \in Nat
  BY <1>1, QueryFound
<1> QED
  BY <1>2 DEF NextFeature

LEMMA FetchKeepsHand ==
    ASSUME HandInv, ReadInv, LayersInv, QueriesInv, Fetch
    PROVE  HandInv'
<1>1. pc = "fetch" /\ Reading /\ Half
  BY DEF Fetch, Reading, ReadInv, Standing
<1>2. NextFeature(Current, 1) \in Nat
  BY <1>1, InLayer, NextIsNumber DEF Half
<1>3. /\ row' = row /\ ~InStyle'
      /\ ahead' \in {ahead, NextFeature(Current, 1)}
      /\ prev' \in {prev, NextFeature(Current, 1)}
      /\ \/ buffer' = buffer
         \/ buffer' = [buffer EXCEPT !.features = Append(@, NextFeature(Current, 1))]
  BY <1>1 DEF Fetch, Goto, InStyle
<1>4. [buffer EXCEPT !.features = Append(@, NextFeature(Current, 1))]
         \in [features : Seq(Nat), pos : Nat, end : Nat]
  <2> HIDE DEF NextFeature
  <2> QED
    BY <1>2, BufferPushed DEF HandInv
<1> QED
  BY <1>2, <1>3, <1>4 DEF HandInv

LEMMA NextRowKeepsHand ==
    ASSUME HandInv, ReadInv, LayersInv, QueriesInv, NextRow
    PROVE  HandInv'
<1>1. /\ pc = "rows" /\ Reading /\ InStyle
      /\ UNCHANGED <<map, open, prev, ahead>>
  BY DEF NextRow, Reading, InStyle
<1>2. /\ style \in 1..Len(ActiveStyles(TheLayer)) /\ Source(TheLayer)' = Source(TheLayer)
      /\ Source(TheLayer) = "query" => style \in 1..Featuresets(TheLayer)
  BY <1>1, InLayer, SameView DEF ReadInv, Standing
<1>3. CASE FinishesStyle
  <2>1. ~InStyle' /\ buffer' = buffer /\ row' = row
    BY <1>3, Zenon DEF FinishesStyle, TakesRow, NextRow, Goto, InStyle
  <2> QED
    BY <1>1, <2>1 DEF HandInv
<1>4. CASE /\ Source(TheLayer) = "buffer" /\ buffer.pos # buffer.end
           /\ TakesRow(buffer.features[buffer.pos + 1])
           /\ buffer' = [buffer EXCEPT !.pos = @ + 1]
  <2>1. row' = buffer.features[buffer.pos + 1]
    BY <1>4 DEF TakesRow
  <2>2. /\ buffer.features \in Seq(Nat) /\ buffer.pos \in Nat
        /\ buffer.pos + 1 \in 1..Len(buffer.features)
        /\ buffer.end = Len(buffer.features)
    BY <1>1, <1>4 DEF HandInv
  <2>3. row' \in Nat
    BY <2>1, <2>2, ElementOfSeq
  <2>4. /\ buffer' \in [features : Seq(Nat), pos : Nat, end : Nat]
        /\ buffer'.pos <= buffer'.end /\ buffer'.end = Len(buffer'.features)
    BY <1>4, <2>2 DEF HandInv
  <2> QED
    BY <1>1, <2>3, <2>4 DEF HandInv
<1>5. CASE /\ Source(TheLayer) = "query" /\ buffer' = buffer
           /\ TakesRow(NextFeature(Current, style))
  <2>1. row' \in Nat
    BY <1>1, <1>2, <1>5, NextIsNumber DEF TakesRow
  <2> QED
    BY <1>1, <1>2, <1>5, <2>1 DEF HandInv
<1> QED
  BY <1>3, <1>4, <1>5, Zenon DEF NextRow

LEMMA StepHand ==
    HandInv /\ ReadInv /\ LayersInv /\ QueriesInv /\ [Next]_vars => HandInv'
<1> SUFFICES ASSUME HandInv, ReadInv, LayersInv, QueriesInv, [Next]_vars
             PROVE  HandInv'
  OBVIOUS
<1>1. CASE \/ StartMapProcessing \/ PrepareLayer \/ BeginRendering \/ OpenLayer
           \/ CloseLayer \/ EndMapProcessing \/ Throws
  <2>1. UNCHANGED <<prev, ahead, row, buffer>>
    BY <1>1, Zenon DEF StartMapProcessing, PrepareLayer, BeginRendering, OpenLayer,
       CloseLayer, EndMapProcessing, Throws
  <2>2. ~InStyle'
    BY <1>1, Zenon DEF StartMapProcessing, PrepareLayer, BeginRendering, OpenLayer,
       CloseLayer, EndMapProcessing, Throws, Goto, InStyle
  <2> QED
    BY <2>1, <2>2 DEF HandInv
<1>2. CASE IfRule \/ ElseAndAlso \/ OtherRule \/ UNCHANGED vars
  <2>1. UNCHANGED <<prev, ahead, row, buffer, map, open>> /\ (InStyle' => InStyle)
    BY <1>2, Zenon DEF IfRule, ElseAndAlso, OtherRule, Goto, InStyle, vars
  <2> QED
    BY <2>1, SameView DEF HandInv
<1>3. CASE RenderMaterial
  BY <1>3, EmptySeq DEF RenderMaterial, HandInv, NoBuffer, Goto, InStyle
<1>4. CASE EndPass
  <2>1. /\ ~InStyle' /\ row' = row /\ prev' \in {prev, ahead} /\ ahead' = 0
        /\ buffer' \in {buffer, Cleared,
                        [Cleared EXCEPT !.features = Append(@, ahead)]}
    BY <1>4 DEF EndPass, Goto, InStyle
  <2>2. Cleared \in [features : Seq(Nat), pos : Nat, end : Nat]
    BY BufferCleared DEF Cleared, HandInv
  <2>3. [Cleared EXCEPT !.features = Append(@, ahead)]
           \in [features : Seq(Nat), pos : Nat, end : Nat]
    <3> HIDE DEF Cleared
    <3> QED
      BY <2>2, BufferPushed DEF HandInv
  <2> QED
    BY <2>1, <2>2, <2>3 DEF HandInv
<1>5. CASE BeginStyle
  <2>1. /\ UNCHANGED <<prev, ahead, row, map, open>>
        /\ buffer' = IF Source(TheLayer) # "buffer" THEN buffer
                     ELSE [buffer EXCEPT !.pos = 0, !.end = Len(buffer.features)]
    BY <1>5 DEF BeginStyle
  <2>2. Source(TheLayer)' = Source(TheLayer)
    BY <2>1, SameView
  <2>3. CASE Source(TheLayer) # "buffer"
    BY <2>1, <2>2, <2>3 DEF HandInv
  <2>4. CASE Source(TheLayer) = "buffer"
    <3>1. /\ buffer' \in [features : Seq(Nat), pos : Nat, end : Nat]
          /\ buffer'.pos = 0 /\ buffer'.end = Len(buffer.features)
          /\ buffer'.features = buffer.features
      <4>1. Len(buffer.features) \in Nat
        BY LenProperties DEF HandInv
      <4> QED
        BY <2>1, <2>4, <4>1, BufferPrepared DEF HandInv
    <3>2. buffer'.pos <= buffer'.end
      BY <3>1
    <3> QED
      BY <2>1, <3>1, <3>2 DEF HandInv
  <2> QED
    BY <2>3, <2>4
<1> QED
  BY <1>1, <1>2, <1>3, <1>4, <1>5, FetchKeepsHand, NextRowKeepsHand DEF Next

LEMMA StepRules ==
    RulesInv /\ ReadInv /\ LayersInv /\ QueriesInv /\ [Next]_vars => RulesInv'
<1> SUFFICES ASSUME RulesInv, ReadInv, LayersInv, QueriesInv, [Next]_vars
             PROVE  RulesInv'
  OBVIOUS
<1>1. CASE \/ StartMapProcessing \/ PrepareLayer \/ BeginRendering \/ OpenLayer
           \/ CloseLayer \/ EndMapProcessing \/ RenderMaterial \/ Fetch
           \/ EndPass \/ Throws \/ UNCHANGED vars
  <2>1. UNCHANGED <<rules, flags>>
    BY <1>1, Zenon DEF StartMapProcessing, PrepareLayer, BeginRendering, OpenLayer,
       CloseLayer, EndMapProcessing, RenderMaterial, Fetch, EndPass, Throws, vars
  <2> QED
    BY <2>1 DEF RulesInv
<1>2. CASE BeginStyle
  BY <1>2 DEF BeginStyle, RulesInv
<1>3. ASSUME InStyle
      PROVE  \A kind : RulesOf(TheStyle, kind) \in Seq(Nat)
  <2>1. style \in 1..Len(ActiveStyles(TheLayer)) /\ Reading
    BY <1>3, InLayer DEF ReadInv, Standing, InStyle, Reading
  <2> QED
    BY <2>1, AtStyle, RulesAreNumbers
<1>4. CASE NextRow
  <2>1. InStyle
    BY <1>4 DEF NextRow, InStyle
  <2>2. \/ UNCHANGED <<rules, flags>>
        \/ /\ rules' = RulesOf(TheStyle, "if")
           /\ flags' = [flags EXCEPT !.do_else = TRUE, !.do_also = FALSE]
    BY <1>4, Zenon DEF NextRow, FinishesStyle, TakesRow
  <2> QED
    BY <1>3, <2>1, <2>2 DEF RulesInv
<1>5. CASE IfRule
  <2>1. rules' \in {<<>>, Tail(rules)} /\ rules # <<>>
    BY <1>5 DEF IfRule
  <2>2. \/ flags' = flags
        \/ flags' = [do_else |-> FALSE, do_also |-> ~TheStyle.filter_first,
                     was_painted |-> TRUE]
    BY <1>5, Zenon DEF IfRule
  <2>3. rules' \in Seq(Nat)
    BY <2>1, EmptySeq, HeadTailProperties DEF RulesInv
  <2>4. flags' \in [{"do_else", "do_also", "was_painted"} -> BOOLEAN]
    <3>1. (~TheStyle.filter_first) \in BOOLEAN
      BY Zenon
    <3>2. [do_else |-> FALSE, do_also |-> ~TheStyle.filter_first, was_painted |-> TRUE]
             \in [{"do_else", "do_also", "was_painted"} -> BOOLEAN]
      BY <3>1, FlagRecords
    <3> QED
      BY <2>2, <3>2 DEF RulesInv
  <2> QED
    BY <2>3, <2>4 DEF RulesInv
<1>6. CASE ElseAndAlso
  <2>1. /\ flags' = flags /\ InStyle
        /\ rules' = (IF flags.do_else THEN RulesOf(TheStyle, "else") ELSE <<>>)
                    \o (IF flags.do_also THEN RulesOf(TheStyle, "also") ELSE <<>>)
    BY <1>6 DEF ElseAndAlso, InStyle
  <2>2. rules' \in Seq(Nat)
    BY <1>3, <2>1, EmptySeq, ConcatProperties
  <2> QED
    BY <2>1, <2>2 DEF RulesInv
<1>7. CASE OtherRule
  <2>1. \/ UNCHANGED <<rules, flags>>
        \/ /\ flags' = [flags EXCEPT !.was_painted = TRUE]
           /\ rules' = Tail(rules) /\ rules # <<>>
    BY <1>7, Zenon DEF OtherRule
  <2>2. rules # <<>> => Tail(rules) \in Seq(Nat)
    BY HeadTailProperties DEF RulesInv
  <2> QED
    BY <2>1, <2>2 DEF RulesInv
<1> QED
  BY <1>1, <1>2, <1>4, <1>5, <1>6, <1>7 DEF Next

\* The stack is made of references to what there is.
LEMMA StackStands ==
    ASSUME IInv, pc # "thrown"
    PROVE  buffers \in Seq(References(internals)) /\ buffers # <<>>
<1>1. buffers \in Seq(Int) /\ Len(buffers) \in Nat /\ DOMAIN buffers = 1..Len(buffers)
  BY LenProperties DEF IInv, Shapes
<1>2. \A d \in 1..Len(buffers) : buffers[d] \in References(internals)
  BY <1>1, ReferencesExist
<1>3. Len(buffers) >= 1
  <2>1. Len(open) \in Nat
    BY LenProperties DEF IInv, Shapes
  <2> QED
    BY <1>1, <2>1 DEF IInv, BuffersMatchLayers
<1>4. buffers = [d \in 1..Len(buffers) |-> buffers[d]]
  BY <1>1
<1>5. buffers \in Seq(References(internals))
  BY <1>1, <1>2, <1>4
<1> QED
  BY <1>1, <1>3, <1>5

LEMMA StepStack ==
    StackInv /\ IInv /\ ReadInv /\ LayersInv /\ QueriesInv /\ [Next]_vars => StackInv'
<1> SUFFICES ASSUME StackInv, IInv, ReadInv, LayersInv, QueriesInv, [Next]_vars
             PROVE  StackInv'
  OBVIOUS
<1>1. CASE pc = "thrown" \/ Throws \/ UNCHANGED vars
  <2>1. pc = "thrown" => ~Next
    BY DEF Next, StartMapProcessing, PrepareLayer, BeginRendering, OpenLayer,
       CloseLayer, EndMapProcessing, RenderMaterial, Fetch, EndPass, BeginStyle,
       NextRow, IfRule, ElseAndAlso, OtherRule, Throws
  <2>2. UNCHANGED <<buffers, internals, border, offset>>
    BY <1>1, <2>1 DEF Throws, vars, aggVars
  <2>3. buffers \in Seq(References(internals)) /\ buffers # <<>>
    BY StackStands DEF StackInv
  <2> QED
    BY <2>2, <2>3 DEF StackInv, References
<1>2. CASE pc # "thrown" /\ ~Throws /\ Next
  <2>1. pc' # "thrown"
    BY <1>2, Zenon DEF Next, StartMapProcessing, PrepareLayer, BeginRendering,
       OpenLayer, CloseLayer, EndMapProcessing, RenderMaterial, Fetch, EndPass,
       BeginStyle, NextRow, IfRule, ElseAndAlso, OtherRule, Goto, TakesRow,
       FinishesStyle
  <2>2. border' \in Nat \cup {-1} /\ offset' \in Nat
    <3>1. CASE UNCHANGED <<border, offset>>
      BY <3>1 DEF StackInv
    <3>2. CASE BeginStyle
      <4>1. TheStyle.radius \in Nat
        <5>1. Reading /\ style \in 1..Len(ActiveStyles(TheLayer))
          BY <3>2, InLayer DEF BeginStyle, Reading, ReadInv, Standing
        <5> QED
          BY <5>1, AtStyle
      <4>2. CASE Inflate(TheStyle)
        <5>1. Larger(offset, TheStyle.radius) \in Nat
          BY <4>1 DEF StackInv, Larger
        <5>2. /\ offset' = Larger(offset, TheStyle.radius)
              /\ border' = Larger(border, offset')
          BY <4>2 DEF Inflate
        <5> QED
          BY <5>1, <5>2 DEF StackInv, Larger
      <4>3. CASE offset' = 0 /\ border' = border
        BY <4>3 DEF StackInv
      <4> QED
        BY <3>2, <4>2, <4>3 DEF BeginStyle, StartStyle
    <3>3. BeginStyle \/ UNCHANGED <<border, offset>>
      BY <1>2, Zenon DEF Next, StartMapProcessing, PrepareLayer, BeginRendering,
         OpenLayer, CloseLayer, EndMapProcessing, RenderMaterial, Fetch, EndPass,
         NextRow, IfRule, ElseAndAlso, OtherRule, TakesRow, FinishesStyle, StartMap,
         StartLayer, EndLayer, EndMap, EndStyle, Applies, Process, aggVars
    <3> QED
      BY <3>1, <3>2, <3>3
  <2> QED
    BY <2>1, <2>2 DEF StackInv
<1> QED
  BY <1>1, <1>2

\* What is kept between the steps: features, rules and references.
THEOREM DataInvariance == Spec => [](HandInv /\ RulesInv /\ StackInv)
BY InitHand, StepHand, StepRules, StepStack, Invariance, ReadingInvariance, PTL
DEF Spec

\* The variables have their types at every step, in renderings of maps of any
\* depth, also of those that an exception ends.
THEOREM TypeCorrect == Spec => []TypeOK
<1>1. /\ IInv /\ LayersInv /\ QueriesInv /\ ReadInv
      /\ HandInv /\ RulesInv /\ StackInv
      => TypeOK
  <2> SUFFICES ASSUME IInv, LayersInv, QueriesInv, ReadInv, HandInv, RulesInv, StackInv
               PROVE  TypeOK
    OBVIOUS
  <2>1. /\ pc \in {"start", "prepare", "layers", "material", "fetch", "styles",
                   "rows", "if", "other", "done", "thrown"}
        /\ internals \in Nat /\ DOMAIN images = References(internals)
    BY Zenon DEF IInv, Shapes, Labels
  <2>2. /\ prep \in 0..Len(map.layers) /\ stored \subseteq 1..prep
        /\ todo \subseteq stored /\ open \in Seq(stored)
    BY Zenon DEF LayersInv
  <2>3. /\ \A q \in DOMAIN queries : queries[q].layer \in stored
        /\ read \in Seq(Nat) /\ Len(read) = Len(queries)
    BY Zenon DEF QueriesInv
  <2>4. style \in Nat \ {0}
    BY DEF ReadInv, Standing
  <2>5. /\ {prev, ahead, row} \subseteq Nat
        /\ buffer.features \in Seq(Nat) /\ {buffer.pos, buffer.end} \subseteq Nat
    BY DEF HandInv
  <2>6. buffers \in Seq(References(internals)) /\ buffers # <<>>
    BY StackStands DEF StackInv
  <2> QED
    BY <2>1, <2>2, <2>3, <2>4, <2>5, <2>6, Zenon DEF TypeOK, RulesInv, StackInv
<1> QED
  BY <1>1, Invariance, ReadingInvariance, DataInvariance, PTL

-----------------------------------------------------------------------------
(* The painted flags *)

\* An image with a content that can be added to.
IsPicture(image) ==
    IsImage(image) /\ IsSequence(image.content) /\ image.painted \in BOOLEAN

Marked(r) == HasMark(images[r].content)

\* What a symbolizer has drawn on an image is marked in its painted flag, or
\* will be when the style at hand is finished.  A flag that is set, also the
\* one the inflated buffer keeps, stands for drawing that has come down to a
\* buffer still on the stack.
PaintInv ==
    /\ \A r \in References(internals) : IsPicture(images[r])
    /\ pc # "thrown" =>
         /\ \A r \in References(internals) :
               Marked(r) => \/ images[r].painted
                            \/ InStyle /\ r = Top /\ flags.was_painted
         /\ \/ \E r \in References(internals) : images[r].painted
            \/ InStyle /\ flags.was_painted
            => \E d \in DOMAIN buffers : Marked(buffers[d])

LEMMA SequenceOfItself ==
    ASSUME NEW S, NEW s \in Seq(S)
    PROVE  IsSequence(s)
<1>1. Len(s) \in Nat /\ s \in [1..Len(s) -> S]
  OBVIOUS
<1>2. s \in [1..Len(s) -> {s[k] : k \in DOMAIN s}]
  BY <1>1
<1> QED
  BY <1>1, <1>2 DEF IsSequence

\* What is drawn on an image is marked if the item is, or the image was.
LEMMA DrawnMarks ==
    ASSUME NEW image, IsPicture(image), NEW item, item.marked \in BOOLEAN
    PROVE  /\ IsPicture(Drawn(image, item))
           /\ Drawn(image, item).painted = image.painted
           /\ HasMark(Drawn(image, item).content) <=>
                 HasMark(image.content) \/ item.marked
<1> DEFINE c == image.content
           d == Append(c, item)
           S == {c[k] : k \in DOMAIN c} \cup {item}
<1>1. /\ IsImage(Drawn(image, item)) /\ Drawn(image, item).content = d
      /\ Drawn(image, item).painted = image.painted
  BY DEF Drawn, IsPicture, IsImage
<1>2. c \in Seq({c[k] : k \in DOMAIN c})
  BY DEF IsPicture, IsSequence
<1>3. c \in Seq(S)
  <2>1. {c[k] : k \in DOMAIN c} \subseteq S
    OBVIOUS
  <2> QED
    BY <1>2, <2>1, SeqMonotonic, Zenon
<1>4. /\ d \in Seq(S) /\ Len(c) \in Nat /\ DOMAIN c = 1..Len(c)
      /\ DOMAIN d = 1..Len(c) + 1 /\ d[Len(c) + 1] = item
      /\ \A k \in 1..Len(c) : d[k] = c[k]
  <2>1. item \in S
    OBVIOUS
  <2> HIDE DEF S, c
  <2> QED
    BY <1>3, <2>1
<1>5. IsSequence(d)
  BY <1>4, SequenceOfItself, Zenon
<1>6. HasMark(d) <=> HasMark(c) \/ item.marked
  <2> HIDE DEF c, d, S
  <2> QED
    BY <1>4 DEF HasMark
<1> QED
  BY <1>1, <1>5, <1>6 DEF IsPicture

LEMMA CompositedMarks ==
    ASSUME NEW below, NEW image, NEW what, NEW who, what # "mark",
           IsPicture(below), image.painted \in BOOLEAN
    PROVE  LET new == Composited(below, image, what, who)
           IN /\ IsPicture(new)
              /\ new.painted = (below.painted \/ image.painted)
              /\ HasMark(new.content) <=> HasMark(below.content) \/ HasMark(image.content)
<1> DEFINE item == Item(what, who, image.content,
                        below.premultiplied /\ image.premultiplied)
           drawn == Drawn(below, item)
           new == Composited(below, image, what, who)
<1>1. item.marked = HasMark(image.content) /\ item.marked \in BOOLEAN
  BY DEF Item, HasMark
<1> HIDE DEF item
<1>2. /\ IsPicture(drawn) /\ drawn.painted = below.painted
      /\ HasMark(drawn.content) <=> HasMark(below.content) \/ HasMark(image.content)
  BY <1>1, DrawnMarks
<1>3. new = [drawn EXCEPT !.painted = @ \/ image.painted]
  BY DEF Composited, item
<1> HIDE DEF drawn, new
<1>4. IsImage(new) /\ new.content = drawn.content /\ new.painted = (below.painted \/ image.painted)
  BY <1>2, <1>3 DEF IsPicture, IsImage
<1>5. new.painted \in BOOLEAN
  BY <1>4 DEF IsPicture
<1> QED
  BY <1>2, <1>4, <1>5 DEF IsPicture, new

LEMMA FilteredMarks ==
    ASSUME NEW image, NEW filters, NEW who, IsPicture(image)
    PROVE  LET new == Filtered(image, filters, who)
           IN /\ IsPicture(new)
              /\ new.painted = image.painted
              /\ HasMark(new.content) <=> HasMark(image.content)
<1> DEFINE item == Item("filter", who, image.content, TRUE)
           new == Filtered(image, filters, who)
<1>1. item.marked = HasMark(image.content)
  BY DEF Item, HasMark
<1> HIDE DEF item
<1>2. IsSequence(<<item>>) /\ (HasMark(<<item>>) <=> item.marked)
  <2>1. <<item>> \in Seq({item})
    OBVIOUS
  <2>2. IsSequence(<<item>>)
    BY <2>1, SequenceOfItself, Zenon
  <2>3. HasMark(<<item>>) <=> item.marked
    BY DEF HasMark
  <2> QED
    BY <2>2, <2>3
<1>3. CASE filters = <<>>
  BY <1>3 DEF Filtered
<1>4. CASE filters # <<>>
  <2>1. new = [image EXCEPT !.content = <<item>>, !.premultiplied = TRUE]
    BY <1>4 DEF Filtered, item
  <2> HIDE DEF new
  <2>2. IsImage(new) /\ new.content = <<item>> /\ new.painted = image.painted
    BY <2>1 DEF IsPicture, IsImage
  <2> QED
    BY <1>1, <1>2, <2>2 DEF IsPicture, new
<1> QED
  BY <1>3, <1>4

\* An image that is made or emptied has nothing drawn on it.
LEMMA EmptyUnmarked ==
    /\ IsPicture(Blank) /\ ~HasMark(Blank.content) /\ ~Blank.painted
    /\ \A image : IsPicture(image) =>
          LET new == Transparent(image)
          IN IsPicture(new) /\ new.painted = image.painted /\ ~HasMark(new.content)
<1>1. IsSequence(<<>>) /\ ~HasMark(<<>>)
  <2>1. <<>> \in Seq({}) /\ ~HasMark(<<>>)
    BY DEF HasMark
  <2> QED
    BY <2>1, SequenceOfItself, Zenon
<1>2. IsPicture(Blank) /\ ~HasMark(Blank.content) /\ ~Blank.painted
  BY <1>1 DEF IsPicture, IsImage, Blank
<1>3. ASSUME NEW image, IsPicture(image)
      PROVE  LET new == Transparent(image)
             IN IsPicture(new) /\ new.painted = image.painted /\ ~HasMark(new.content)
  <2> DEFINE new == Transparent(image)
  <2>1. IsImage(new) /\ new.content = <<>> /\ new.painted = image.painted
    BY <1>3 DEF IsPicture, IsImage, Transparent
  <2> QED
    BY <1>1, <1>3, <2>1 DEF IsPicture
<1> QED
  BY <1>2, <1>3

LEMMA InitPaint == Init => PaintInv
<1> SUFFICES ASSUME Init PROVE PaintInv
  OBVIOUS
<1>1. /\ pc = "start" /\ ~InStyle
      /\ \A r \in References(internals) :
            images[r] = [Blank EXCEPT !.premultiplied = r = Inflated]
  BY DEF Init, InitBuffers, InStyle
<1>2. \A r \in References(internals) :
         IsPicture(images[r]) /\ ~Marked(r) /\ ~images[r].painted
  <2> TAKE r \in References(internals)
  <2>1. /\ IsImage(images[r]) /\ images[r].content = Blank.content
        /\ images[r].painted = Blank.painted
    BY <1>1 DEF IsImage, Blank
  <2> QED
    BY <2>1, EmptyUnmarked DEF IsPicture, Marked
<1> QED
  BY <1>1, <1>2 DEF PaintInv

\* Steps that do not touch the images.
LEMMA SamePaint ==
    ASSUME PaintInv, UNCHANGED aggVars,
           \/ pc' = "thrown"
           \/ /\ pc # "thrown" /\ InStyle' = InStyle
              /\ InStyle => flags'.was_painted = flags.was_painted
    PROVE  PaintInv'
<1>1. UNCHANGED <<buffers, internals, images>> /\ Top' = Top
  BY DEF aggVars, Top
<1>2. References(internals') = References(internals) /\ \A r : Marked(r)' = Marked(r)
  BY <1>1 DEF Marked
<1>3. \A r \in References(internals') : IsPicture(images'[r])
  BY <1>1 DEF PaintInv
<1>4. CASE pc' = "thrown"
  BY <1>3, <1>4 DEF PaintInv
<1>5. CASE /\ pc # "thrown" /\ InStyle' = InStyle
           /\ InStyle => flags'.was_painted = flags.was_painted
  BY <1>1, <1>2, <1>3, <1>5, Zenon DEF PaintInv
<1> QED
  BY <1>4, <1>5

\* Steps that only say whether an image is premultiplied.
LEMMA PremultipliedPaint ==
    ASSUME PaintInv, IInv, StartMapProcessing \/ EndMapProcessing
    PROVE  PaintInv'
<1>1. /\ UNCHANGED <<buffers, internals>> /\ pc # "thrown" /\ pc' # "thrown"
      /\ ~InStyle /\ ~InStyle'
      /\ \E b \in BOOLEAN : images' = [images EXCEPT ![Top].premultiplied = b]
  BY DEF StartMapProcessing, EndMapProcessing, StartMap, EndMap, Goto, InStyle
<1>2. \A r \in References(internals) :
         /\ IsPicture(images'[r]) /\ images'[r].painted = images[r].painted
         /\ images'[r].content = images[r].content
  BY <1>1 DEF IInv, Shapes, PaintInv, IsPicture, IsImage
<1>3. \A r \in References(internals) : Marked(r)' = Marked(r)
  BY <1>2 DEF Marked
<1>4. \A d \in DOMAIN buffers : Marked(buffers[d])' = Marked(buffers[d])
  BY <1>1, <1>3, ReferencesExist
<1> QED
  BY <1>1, <1>2, <1>3, <1>4, Zenon DEF PaintInv, References

\* A symbolizer draws on the image of the style, and has the style remember it.
LEMMA ProcessPaint ==
    ASSUME PaintInv, IInv, NEW who, Process(who), InStyle, InStyle', flags'.was_painted
    PROVE  PaintInv'
<1>1. /\ UNCHANGED <<buffers, internals>> /\ Top' = Top
      /\ images' = [images EXCEPT ![Top] = Drawn(@, Mark(who))]
      /\ pc # "thrown" /\ pc' # "thrown"
  BY DEF Process, Top, InStyle
<1>2. /\ Top \in References(internals) /\ Len(buffers) \in DOMAIN buffers
      /\ DOMAIN images = References(internals)
  <2>1. buffers \in Seq(References(internals)) /\ buffers # <<>>
    BY <1>1, StackStands
  <2> QED
    BY <2>1 DEF Top, IInv, Shapes
<1>3. Mark(who).marked = TRUE
  BY DEF Mark, Item
<1>4. /\ images'[Top] = Drawn(images[Top], Mark(who))
      /\ \A r \in References(internals) : r # Top => images'[r] = images[r]
  BY <1>1, <1>2
<1>5. IsPicture(images'[Top]) /\ HasMark(images'[Top].content)
  <2> DEFINE item == Mark(who)
  <2>1. IsPicture(images[Top]) /\ item.marked = TRUE /\ item.marked \in BOOLEAN
    BY <1>2, <1>3 DEF PaintInv
  <2>2. images'[Top] = Drawn(images[Top], item)
    BY <1>4
  <2> HIDE DEF item
  <2>3. /\ IsPicture(Drawn(images[Top], item))
        /\ HasMark(Drawn(images[Top], item).content)
    BY <2>1, DrawnMarks
  <2> QED
    BY <2>2, <2>3
<1>6. /\ \A r \in References(internals) : IsPicture(images'[r])
      /\ \A r \in References(internals) : r # Top /\ Marked(r)' => images'[r].painted
  BY <1>1, <1>4, <1>5 DEF PaintInv, Marked
<1>7. \E d \in DOMAIN buffers' : Marked(buffers[d])'
  BY <1>1, <1>2, <1>5 DEF Marked, Top
<1> QED
  BY <1>1, <1>6, <1>7, Zenon DEF PaintInv, References

\* An image of its own begins blank; what was drawn before stays where it is.
LEMMA OpenPaint ==
    ASSUME PaintInv, IInv, pc # "thrown", pc' # "thrown", ~InStyle, ~flags'.was_painted \/ ~InStyle',
           PushInternal \/ PushTop
    PROVE  PaintInv'
<1>1. internals \in Nat /\ DOMAIN images = References(internals)
  BY DEF IInv, Shapes
<1>2. buffers \in Seq(References(internals)) /\ buffers # <<>>
  BY StackStands
<1>3. PICK top : buffers' = Append(buffers, top)
  BY DEF PushInternal, PushTop
<1>4. \A d \in DOMAIN buffers : d \in DOMAIN buffers' /\ buffers'[d] = buffers[d]
  BY <1>2, <1>3
<1>5. \A r \in References(internals) : r \in References(internals') /\ images'[r] = images[r]
  BY <1>1 DEF PushInternal, PushTop, References, Inflated
<1>6. \A r \in References(internals') : r \in References(internals) \/ images'[r] = Blank
  BY <1>1 DEF PushInternal, PushTop, References, Inflated
<1>7. \A r \in References(internals') : IsPicture(images'[r])
  BY <1>5, <1>6, EmptyUnmarked DEF PaintInv
<1>8. \A r \in References(internals') : Marked(r)' => images'[r].painted
  <2> TAKE r \in References(internals')
  <2>1. CASE r \in References(internals)
    BY <1>5, <2>1 DEF PaintInv, Marked
  <2>2. CASE images'[r] = Blank
    BY <2>2, EmptyUnmarked DEF Marked
  <2> QED
    BY <1>6, <2>1, <2>2
<1>9. ASSUME NEW r \in References(internals'), images'[r].painted
      PROVE  \E d \in DOMAIN buffers' : Marked(buffers[d])'
  <2>1. r \in References(internals) /\ images[r].painted
    BY <1>5, <1>6, <1>9, EmptyUnmarked
  <2>2. PICK d \in DOMAIN buffers : Marked(buffers[d])
    BY <2>1 DEF PaintInv
  <2>3. buffers[d] \in References(internals)
    BY <1>2, ElementOfSeq
  <2> QED
    BY <1>4, <1>5, <2>2, <2>3 DEF Marked
<1> QED
  BY <1>7, <1>8, <1>9, Zenon DEF PaintInv

\* The inflated buffer is emptied, and nothing on the stack is in it.
LEMMA InflatePaint ==
    ASSUME PaintInv, IInv, pc = "styles", pc' = "rows", ~flags'.was_painted,
           NEW s, Inflate(s)
    PROVE  PaintInv'
<1>1. internals \in Nat /\ DOMAIN images = References(internals) /\ ~InStyle
  BY DEF IInv, Shapes, InStyle
<1>2. buffers \in Seq(References(internals)) /\ Len(buffers) = Len(open) + 1
  BY StackStands, BetweenLayers
<1>3. \A d \in DOMAIN buffers : buffers[d] # Inflated /\ buffers[d] \in References(internals)
  <2> TAKE d \in DOMAIN buffers
  <2>1. d \in 1..Len(open) + 1
    BY <1>2
  <2> QED
    BY <1>2, <2>1, ElementOfSeq DEF IInv, Ascending, Inflated
<1>4. PICK image : /\ images' = [images EXCEPT ![Inflated] = image]
                   /\ image = Blank \/ image = Transparent(images[Inflated])
  BY DEF Inflate
<1>5. /\ internals' = internals /\ Inflated \in References(internals)
      /\ buffers' = Append(buffers, Inflated)
  BY <1>1 DEF Inflate, References, Inflated
<1>6. /\ images'[Inflated] = image
      /\ \A r \in References(internals) : r # Inflated => images'[r] = images[r]
  BY <1>1, <1>4, <1>5
<1>7. /\ IsPicture(image) /\ ~HasMark(image.content)
      /\ image.painted => images[Inflated].painted
  BY <1>4, <1>5, EmptyUnmarked DEF PaintInv
<1>8. \A r \in References(internals) :
         /\ IsPicture(images'[r])
         /\ Marked(r)' => images'[r].painted
         /\ images'[r].painted => images[r].painted
  <2> TAKE r \in References(internals)
  <2>1. CASE r = Inflated
    BY <1>6, <1>7, <2>1 DEF Marked
  <2>2. CASE r # Inflated
    BY <1>1, <1>6, <2>2 DEF PaintInv, Marked
  <2> QED
    BY <2>1, <2>2
<1>9. ASSUME NEW r \in References(internals), images'[r].painted
      PROVE  \E d \in DOMAIN buffers' : Marked(buffers[d])'
  <2>1. PICK d \in DOMAIN buffers : Marked(buffers[d])
    BY <1>8, <1>9 DEF PaintInv
  <2>2. d \in DOMAIN buffers' /\ buffers'[d] = buffers[d]
    BY <1>2, <1>5
  <2> QED
    BY <1>3, <1>6, <2>1, <2>2 DEF Marked
<1> QED
  BY <1>5, <1>8, <1>9, Zenon DEF PaintInv, References

\* Popping the stack frees what is above the buffer that is drawn on then.
LEMMA TopAndBelow ==
    ASSUME IInv, IInv', pc # "thrown", pc' # "thrown", ~InStyle', buffers' = Pop(buffers)
    PROVE  /\ internals' = Below /\ Below \in References(internals')
           /\ References(internals') \subseteq References(internals)
           /\ Top \in References(internals) /\ Below \in References(internals)
           /\ \E e \in DOMAIN buffers' : buffers'[e] = Below
           /\ \A d \in DOMAIN buffers :
                 \/ buffers[d] = Top
                 \/ d \in DOMAIN buffers' /\ buffers'[d] = buffers[d]
           /\ \A d \in DOMAIN buffers' : buffers'[d] \in References(internals')
<1>1. /\ buffers \in Seq(References(internals)) /\ buffers # <<>> /\ internals \in Nat
      /\ Len(buffers) \in Nat \ {0} /\ DOMAIN buffers = 1..Len(buffers)
  <2>1. buffers \in Seq(References(internals)) /\ buffers # <<>>
    BY StackStands
  <2> QED
    BY <2>1 DEF IInv, Shapes
<1>2. /\ Len(buffers') = Len(buffers) - 1 /\ DOMAIN buffers' = 1..Len(buffers) - 1
      /\ \A d \in 1..Len(buffers) - 1 : buffers'[d] = buffers[d]
  BY <1>1 DEF Pop
<1>3. Len(open') \in Nat /\ internals' \in Nat
  BY LenProperties DEF IInv, Shapes
<1>4. Len(buffers') = Len(open') + 1 /\ internals' = buffers'[Len(open') + 1]
  BY <1>3 DEF IInv, BuffersMatchLayers
<1>5. internals' = Below /\ Len(buffers) - 1 \in 1..Len(buffers) - 1
  BY <1>1, <1>2, <1>3, <1>4 DEF Below
<1>6. Top \in References(internals) /\ Below \in References(internals)
  BY <1>1, <1>5 DEF Top, Below
<1>7. internals' \in References(internals') /\ References(internals') \subseteq References(internals)
  BY <1>1, <1>3, <1>5, <1>6 DEF References, Inflated
<1>8. \A d \in DOMAIN buffers' : buffers'[d] \in References(internals')
  <2> TAKE d \in DOMAIN buffers'
  <2>1. /\ d \in 1..Len(open') + 1 /\ Len(open') + 1 \in 1..Len(open') + 1
        /\ d <= Len(open') + 1
    BY <1>1, <1>2, <1>3, <1>4
  <2>2. buffers'[d] >= 0 /\ buffers'[d] <= internals'
    BY <1>4, <2>1 DEF IInv, Ascending
  <2>3. buffers'[d] \in Int
    BY <1>1, <1>2 DEF References, Inflated
  <2> QED
    BY <1>3, <2>2, <2>3 DEF References, Inflated
<1> QED
  BY <1>1, <1>2, <1>5, <1>6, <1>7, <1>8 DEF Top, Below

\* What was drawn on the image at the top comes down to the one below, and so
\* does its flag.
LEMMA PopPaint ==
    ASSUME PaintInv, IInv, IInv', pc # "thrown", pc' # "thrown", ~InStyle',
           buffers' = Pop(buffers),
           NEW image, IsPicture(image),
           HasMark(image.content) <=> Marked(Top),
           image.painted <=> images[Top].painted \/ (InStyle /\ flags.was_painted),
           IsPicture(images'[Below]),
           HasMark(images'[Below].content) <=> Marked(Below) \/ Marked(Top),
           images'[Below].painted <=> images[Below].painted \/ image.painted,
           \A r \in References(internals') :
              r # Below => \/ r = Top /\ images'[r] = image
                           \/ r # Top /\ images'[r] = images[r]
    PROVE  PaintInv'
<1>1. /\ internals' = Below /\ Below \in References(internals')
      /\ References(internals') \subseteq References(internals)
      /\ Top \in References(internals) /\ Below \in References(internals)
      /\ \E e \in DOMAIN buffers' : buffers'[e] = Below
      /\ \A d \in DOMAIN buffers :
            \/ buffers[d] = Top
            \/ d \in DOMAIN buffers' /\ buffers'[d] = buffers[d]
      /\ \A d \in DOMAIN buffers' : buffers'[d] \in References(internals')
  BY TopAndBelow
<1>2. /\ \A r \in References(internals) :
            Marked(r) => images[r].painted \/ (InStyle /\ r = Top /\ flags.was_painted)
      /\ (\E r \in References(internals) : images[r].painted) \/ (InStyle /\ flags.was_painted)
         => \E d \in DOMAIN buffers : Marked(buffers[d])
      /\ \A r \in References(internals) : IsPicture(images[r])
  BY Zenon DEF PaintInv
<1>3. \A r \in References(internals') : Marked(r)' <=> HasMark(images'[r].content)
  BY DEF Marked
<1>4. \A r \in References(internals') : IsPicture(images'[r])
  BY <1>1, <1>2, Zenon
<1>5. ASSUME NEW r \in References(internals'), Marked(r)'
      PROVE  images'[r].painted
  <2>1. CASE r = Below
    <3>1. Marked(Below) \/ Marked(Top)
      BY <1>3, <1>5, <2>1
    <3> QED
      BY <1>1, <1>2, <2>1, <3>1
  <2>2. CASE r # Below /\ r = Top
    BY <1>1, <1>2, <1>3, <1>5, <2>2
  <2>3. CASE r # Below /\ r # Top
    <3>1. images'[r] = images[r] /\ r \in References(internals)
      BY <1>1, <2>3
    <3> QED
      BY <1>2, <1>5, <2>3, <3>1 DEF Marked
  <2> QED
    BY <2>1, <2>2, <2>3
<1>6. ASSUME NEW r \in References(internals'), images'[r].painted
      PROVE  \E d \in DOMAIN buffers' : Marked(buffers[d])'
  <2>1. (\E q \in References(internals) : images[q].painted) \/ (InStyle /\ flags.was_painted)
    BY <1>1, <1>6, Zenon
  <2>2. PICK d \in DOMAIN buffers : Marked(buffers[d])
    BY <1>2, <2>1, Zenon
  <2>3. CASE buffers[d] = Top \/ buffers[d] = Below
    <3>1. HasMark(images'[Below].content)
      BY <2>2, <2>3
    <3>2. PICK e \in DOMAIN buffers' : buffers'[e] = Below
      BY <1>1
    <3> QED
      BY <3>1, <3>2 DEF Marked
  <2>4. CASE buffers[d] # Top /\ buffers[d] # Below
    <3>1. d \in DOMAIN buffers' /\ buffers'[d] = buffers[d]
      BY <1>1, <2>4
    <3>2. images'[buffers'[d]] = images[buffers[d]]
      BY <1>1, <2>4, <3>1
    <3> QED
      BY <2>2, <3>1, <3>2 DEF Marked
  <2> QED
    BY <2>3, <2>4
<1> QED
  BY <1>4, <1>5, <1>6, Zenon DEF PaintInv

LEMMA CloseLayerPaint ==
    ASSUME PaintInv, IInv, IInv', CloseLayer
    PROVE  PaintInv'
<1>1. /\ pc = "layers" /\ pc' = "layers" /\ EndLayer(TheLayer, <<Current>>)
      /\ ~InStyle /\ ~InStyle'
  BY DEF CloseLayer, InStyle
<1>2. buffers' = Pop(buffers)
  BY <1>1 DEF EndLayer
<1>3. /\ internals' = Below /\ Below \in References(internals')
      /\ Top \in References(internals) /\ Below \in References(internals)
      /\ References(internals') \subseteq References(internals)
  BY <1>1, <1>2, TopAndBelow
<1>4. IsPicture(images[Top]) /\ IsPicture(images[Below])
  BY <1>3 DEF PaintInv
<1> DEFINE below == IF Top = Below THEN images[Below]
                    ELSE Composited(images[Below], images[Top], "layer", <<Current>>)
           new == Filtered(below, TheLayer.direct, <<Current>>)
<1>5. /\ IsPicture(below)
      /\ HasMark(below.content) <=> Marked(Below) \/ Marked(Top)
      /\ below.painted <=> images[Below].painted \/ images[Top].painted
  <2>1. CASE Top = Below
    BY <1>4, <2>1 DEF Marked
  <2>2. CASE Top # Below
    <3>1. images[Top].painted \in BOOLEAN /\ "layer" # "mark"
      BY <1>4 DEF IsPicture
    <3>2. below = Composited(images[Below], images[Top], "layer", <<Current>>)
      BY <2>2
    <3> HIDE DEF below
    <3> QED
      BY <1>4, <3>1, <3>2, CompositedMarks DEF Marked
  <2> QED
    BY <2>1, <2>2
<1>6. images' = [r \in References(internals') |-> IF r = Below THEN new ELSE images[r]]
  BY <1>1 DEF EndLayer
<1> HIDE DEF below
<1>7. /\ IsPicture(new)
      /\ HasMark(new.content) <=> Marked(Below) \/ Marked(Top)
      /\ new.painted <=> images[Below].painted \/ images[Top].painted
  BY <1>5, FilteredMarks
<1> HIDE DEF new
<1>8. /\ images'[Below] = new
      /\ \A r \in References(internals') : r # Below => images'[r] = images[r]
  BY <1>3, <1>6
<1>9. \A r \in References(internals') :
         r # Below => \/ r = Top /\ images'[r] = images[Top]
                      \/ r # Top /\ images'[r] = images[r]
  BY <1>8
<1>10. HasMark(images[Top].content) <=> Marked(Top)
  BY DEF Marked
<1>11. images[Top].painted <=> images[Top].painted \/ (InStyle /\ flags.was_painted)
  BY <1>1
<1> QED
  BY <1>1, <1>2, <1>4, <1>7, <1>8, <1>9, <1>10, <1>11, PopPaint

LEMMA FinishesStylePaint ==
    ASSUME PaintInv, RulesInv, IInv, IInv', pc = "rows", FinishesStyle
    PROVE  PaintInv'
<1> DEFINE who == <<Current, StyleNumber>>
           painted == [images[Top] EXCEPT !.painted = @ \/ flags.was_painted]
           image == IF Top = Below THEN painted
                    ELSE Filtered(painted, TheStyle.filters, who)
           below == IF Top = Below THEN painted
                    ELSE Composited(images[Below], image, "style", who)
           new == Filtered(below, TheStyle.direct, who)
<1>1. /\ EndStyle(TheStyle, who, flags.was_painted)
      /\ pc' = "styles" /\ InStyle /\ ~InStyle'
  BY DEF FinishesStyle, Goto, InStyle
<1>2. /\ buffers' = Pop(buffers)
      /\ images' = [r \in References(internals') |->
                      CASE r = Below -> new
                        [] r = Top /\ r # Below -> image
                        [] OTHER -> images[r]]
  BY <1>1 DEF EndStyle
<1>3. /\ internals' = Below /\ Below \in References(internals')
      /\ Top \in References(internals) /\ Below \in References(internals)
      /\ References(internals') \subseteq References(internals)
  BY <1>1, <1>2, TopAndBelow
<1>4. IsPicture(images[Top]) /\ IsPicture(images[Below]) /\ flags.was_painted \in BOOLEAN
  BY <1>3 DEF PaintInv, RulesInv
<1>5. /\ IsPicture(painted)
      /\ HasMark(painted.content) <=> Marked(Top)
      /\ painted.painted <=> images[Top].painted \/ flags.was_painted
  BY <1>4 DEF IsPicture, IsImage, Marked
<1> HIDE DEF painted
<1>6. /\ IsPicture(image)
      /\ HasMark(image.content) <=> Marked(Top)
      /\ image.painted <=> images[Top].painted \/ flags.was_painted
  BY <1>5, FilteredMarks
<1>7. /\ IsPicture(below)
      /\ HasMark(below.content) <=> Marked(Below) \/ Marked(Top)
      /\ below.painted <=> images[Below].painted \/ image.painted
  <2>1. CASE Top = Below
    BY <1>5, <2>1 DEF Marked
  <2>2. CASE Top # Below
    <3> HIDE DEF image
    <3>1. image.painted \in BOOLEAN /\ "style" # "mark"
      BY <1>6 DEF IsPicture
    <3>2. below = Composited(images[Below], image, "style", who)
      BY <2>2
    <3> HIDE DEF below
    <3>3. /\ IsPicture(below)
          /\ HasMark(below.content) <=> HasMark(images[Below].content) \/ HasMark(image.content)
          /\ below.painted <=> images[Below].painted \/ image.painted
      BY <1>4, <3>1, <3>2, CompositedMarks
    <3> QED
      BY <1>6, <3>3 DEF Marked
  <2> QED
    BY <2>1, <2>2
<1> HIDE DEF image, below
<1>8. /\ IsPicture(new)
      /\ HasMark(new.content) <=> Marked(Below) \/ Marked(Top)
      /\ new.painted <=> images[Below].painted \/ image.painted
  BY <1>7, FilteredMarks
<1> HIDE DEF new
<1>9. images'[Below] = new
  BY <1>2, <1>3
<1>10. \A r \in References(internals') :
          r # Below => \/ r = Top /\ images'[r] = image
                       \/ r # Top /\ images'[r] = images[r]
  BY <1>2
<1>11. image.painted <=> images[Top].painted \/ (InStyle /\ flags.was_painted)
  BY <1>1, <1>6
<1> QED
  BY <1>1, <1>2, <1>6, <1>8, <1>9, <1>10, <1>11, PopPaint

LEMMA StepPaint == PaintInv /\ RulesInv /\ IInv /\ [Next]_vars => PaintInv'
<1> SUFFICES ASSUME PaintInv, RulesInv, IInv, [Next]_vars PROVE PaintInv'
  OBVIOUS
<1>1. IInv'
  BY NextKeeps
<1>2. CASE \/ PrepareLayer \/ BeginRendering \/ RenderMaterial \/ Fetch
           \/ EndPass \/ ElseAndAlso \/ Throws
  <2>1. UNCHANGED aggVars /\ UNCHANGED flags
    BY <1>2, Zenon DEF PrepareLayer, BeginRendering, RenderMaterial, Fetch, EndPass,
       ElseAndAlso, Throws
  <2>2. CASE PrepareLayer
    <3>1. pc' = pc /\ pc = "prepare"
      BY <2>2, Zenon DEF PrepareLayer
    <3> QED
      BY <2>1, <3>1, SamePaint DEF InStyle
  <2>3. CASE BeginRendering \/ RenderMaterial \/ Fetch \/ EndPass \/ ElseAndAlso \/ Throws
    <3>1. pc' = "thrown" \/ (pc # "thrown" /\ InStyle' = InStyle)
      <4>1. CASE BeginRendering \/ Throws
        BY <4>1 DEF BeginRendering, Throws, Goto, InStyle
      <4>2. CASE RenderMaterial \/ Fetch \/ EndPass
        <5>1. /\ pc \in {"material", "fetch", "styles"}
              /\ pc' \in {"layers", "fetch", "styles"}
          BY <4>2 DEF RenderMaterial, Fetch, EndPass, Goto
        <5> QED
          BY <5>1 DEF InStyle
      <4>3. CASE ElseAndAlso
        <5>1. pc = "if" /\ pc' = "other"
          BY <4>3, Zenon DEF ElseAndAlso, Goto
        <5> QED
          BY <5>1 DEF InStyle
      <4> QED
        BY <2>3, <4>1, <4>2, <4>3
    <3> QED
      BY <2>1, <3>1, SamePaint
  <2> QED
    BY <1>2, <2>2, <2>3
<1>3. CASE UNCHANGED vars
  <2>1. UNCHANGED aggVars /\ UNCHANGED <<flags, pc>> /\ InStyle' = InStyle
    BY <1>3 DEF vars, aggVars, InStyle
  <2> QED
    BY <2>1, SamePaint
<1>4. CASE OpenLayer
  <2>1. /\ PushInternal \/ PushTop
        /\ pc # "thrown" /\ pc' # "thrown" /\ ~InStyle /\ ~InStyle'
    BY <1>4 DEF OpenLayer, StartLayer, Goto, InStyle
  <2> QED
    BY <2>1, OpenPaint
<1>5. CASE BeginStyle
  <2>1. /\ pc = "styles" /\ pc' = "rows" /\ ~InStyle /\ StartStyle(TheStyle)
        /\ flags' = [flags EXCEPT !.was_painted = FALSE]
    BY <1>5 DEF BeginStyle, Goto, InStyle
  <2>2. flags'.was_painted = FALSE
    BY <2>1 DEF RulesInv
  <2>3. Inflate(TheStyle) \/ PushInternal \/ PushTop
    BY <2>1 DEF StartStyle
  <2> QED
    BY <2>1, <2>2, <2>3, InflatePaint, OpenPaint
<1>6. CASE IfRule \/ OtherRule
  <2>1. \/ /\ \E who : Process(who)
           /\ InStyle /\ InStyle' /\ flags'.was_painted
        \/ /\ UNCHANGED aggVars /\ UNCHANGED flags
           /\ InStyle' = InStyle /\ pc # "thrown"
    BY <1>6 DEF IfRule, OtherRule, Applies, Goto, InStyle, RulesInv
  <2> QED
    BY <2>1, ProcessPaint, SamePaint
<1>7. CASE NextRow
  <2>1. pc = "rows" /\ (FinishesStyle \/ \E f : TakesRow(f))
    BY <1>7 DEF NextRow
  <2>2. ASSUME NEW f, TakesRow(f)
        PROVE  /\ UNCHANGED aggVars /\ InStyle' = InStyle
               /\ flags'.was_painted = flags.was_painted
    BY <2>1, <2>2 DEF TakesRow, Goto, InStyle, RulesInv
  <2> QED
    BY <1>1, <2>1, <2>2, FinishesStylePaint, SamePaint
<1> QED
  BY <1>1, <1>2, <1>3, <1>4, <1>5, <1>6, <1>7, PremultipliedPaint, CloseLayerPaint
  DEF Next

\* The painted flags follow the drawing through every image there is.
THEOREM PaintInvariance == Spec => []PaintInv
<1>1. PaintInv /\ IInv /\ RulesInv /\ [Next]_vars => PaintInv'
  BY StepPaint
<1> QED
  BY <1>1, InitPaint, Invariance, DataInvariance, PTL DEF Spec

\* The finished image is said to be painted exactly when a symbolizer has drawn
\* on it, through layers of any depth and although the inflated buffer carries
\* its flag from style to style.
THEOREM PaintedFlags == Spec => []PaintedFlagTrue
<1>1. PaintInv /\ IInv /\ LayersInv /\ RulesInv => PaintedFlagTrue
  <2> SUFFICES ASSUME PaintInv, IInv, LayersInv, pc = "done"
               PROVE  images[Pixmap].painted = HasMark(images[Pixmap].content)
    BY DEF PaintedFlagTrue
  <2>1. ~InStyle /\ open = <<>>
    BY DEF InStyle, LayersInv
  <2>2. Len(buffers) = 1 /\ buffers[1] = Pixmap /\ internals \in Nat
    BY <2>1 DEF IInv, BuffersMatchLayers, Shapes
  <2>3. \A d \in DOMAIN buffers : buffers[d] = Pixmap
    BY <2>2 DEF IInv, Shapes
  <2>4. Pixmap \in References(internals)
    BY <2>2 DEF References, Pixmap, Inflated
  <2>5. images[Pixmap].painted \in BOOLEAN
    BY <2>4 DEF PaintInv, IsPicture
  <2>6. Marked(Pixmap) => images[Pixmap].painted
    BY <2>1, <2>4 DEF PaintInv
  <2>7. images[Pixmap].painted => Marked(Pixmap)
    BY <2>3, <2>4 DEF PaintInv
  <2>8. HasMark(images[Pixmap].content) \in BOOLEAN
    BY DEF HasMark
  <2> QED
    BY <2>5, <2>6, <2>7, <2>8 DEF Marked
<1> QED
  BY <1>1, PaintInvariance, Invariance, ReadingInvariance, DataInvariance, PTL
=============================================================================
