--------------------------- MODULE PainterProofs ---------------------------
(***************************************************************************)
(* That StyleProcessor implements PaintersAlgorithm, for every set of      *)
(* maps.  The argument rests on three invariants: exactly the layers that  *)
(* are to be painted are prepared; the buffer holds consecutive features   *)
(* of one group, and the feature ahead is the first of the next; no rule   *)
(* that matches is passed over.  Then each action of the processor is an   *)
(* action of the painter or leaves what he sees as it is.                  *)
(***************************************************************************)
EXTENDS StyleProcessorProofs

-----------------------------------------------------------------------------
(* What the painter's work rests on *)

\* Exactly the layers that are to be painted are prepared.
AllPrepared ==
    /\ \A n \in 1..prep : n \in stored <=> Reached(n) /\ ~Empty(Layer(n))
    /\ pc \notin {"start", "prepare"} => prep = Len(map.layers)

\* The last feature in the buffer; the one before the first when it is empty.
LastBuffered == PainterFrom + Len(buffer.features) - 1

\* The buffer holds consecutive features of one group, and so far as the
\* layer has been read: up to the feature ahead, which is of another group, or
\* up to the last one.
GroupInv ==
    pc \in {"fetch", "styles", "rows", "if", "other"} =>
        /\ ~Painter!Skipped(TheLayer)
        /\ PainterFrom >= 1
        /\ \A k \in DOMAIN buffer.features : buffer.features[k] = PainterFrom + k - 1
        /\ Grouped(TheLayer) =>
             \A k \in PainterFrom..LastBuffered - 1 :
                TheLayer.rows[k] = TheLayer.rows[k + 1]
        /\ ~Half => buffer.features = <<>> /\ buffer.pos = 0
        /\ pc = "fetch" => /\ prev = LastBuffered
                           /\ read[QueryOf(Current, 1)] = LastBuffered
        /\ pc # "fetch" /\ Half =>
             IF ahead = 0 THEN LastBuffered = Len(TheLayer.rows)
             ELSE /\ Grouped(TheLayer)
                  /\ ahead = LastBuffered + 1 /\ ahead <= Len(TheLayer.rows)
                  /\ read[QueryOf(Current, 1)] = ahead
                  /\ buffer.features # <<>>
                  /\ TheLayer.rows[LastBuffered] # TheLayer.rows[ahead]
        /\ pc \in {"if", "other"} => row = PainterFeature

\* The rules still to be looked at are in their order, and none that matches
\* has been passed over.
MatchInv ==
    pc \in {"if", "other"} =>
        /\ \A i, j \in DOMAIN rules : i < j => rules[i] < rules[j]
        /\ pc = "if" =>
             /\ \A k \in DOMAIN rules : rules[k] \in RulesIn(TheStyle, "if")
             /\ flags.do_else =>
                  /\ ~flags.do_also
                  /\ \A r \in RulesIn(TheStyle, "if") :
                        row \in TheStyle.rules[r].matches =>
                            \E k \in DOMAIN rules : rules[k] = r
             /\ ~flags.do_else =>
                  IF TheStyle.filter_first THEN rules = <<>> /\ ~flags.do_also
                  ELSE flags.do_also
        /\ pc = "other" =>
             \A k \in DOMAIN rules : TheStyle.rules[rules[k]].kind # "if"

\* The positions are listed in their order, and all of them.
LEMMA InOrderAscends ==
    ASSUME NEW S, IsFiniteSet(S), S \subseteq Nat
    PROVE  /\ \A i \in 1..Cardinality(S) : InOrder(S)[i] \in S
           /\ \A i, j \in 1..Cardinality(S) :
                 i < j => InOrder(S)[i] < InOrder(S)[j]
           /\ \A k \in S : \E i \in 1..Cardinality(S) : InOrder(S)[i] = k
<1> DEFINE rank(k) == Cardinality({j \in S : j < k})
           size == Cardinality(S)
<1>1. /\ size \in Nat
      /\ \A i \in 1..size : \E k \in S : rank(k) = i - 1
      /\ \A k \in S : rank(k) \in 0..size - 1
      /\ \A j, k \in S : j < k => rank(j) < rank(k)
  BY RankIsSurjection
<1>2. \A i \in 1..size : InOrder(S)[i] = CHOOSE k \in S : rank(k) = i - 1
  BY DEF InOrder
<1> HIDE DEF rank, size
<1>3. \A i \in 1..size : InOrder(S)[i] \in S /\ rank(InOrder(S)[i]) = i - 1
  BY <1>1, <1>2
<1>4. ASSUME NEW i \in 1..size, NEW j \in 1..size, i < j
      PROVE  InOrder(S)[i] < InOrder(S)[j]
  <2>1. InOrder(S)[i] \in S /\ InOrder(S)[j] \in S
        /\ rank(InOrder(S)[i]) = i - 1 /\ rank(InOrder(S)[j]) = j - 1
    BY <1>3
  <2> DEFINE a == InOrder(S)[i]
             b == InOrder(S)[j]
  <2>2. a \in S /\ b \in S /\ a \in Nat /\ b \in Nat
    BY <2>1
  <2>3. rank(a) < rank(b)
    BY <1>1, <1>4, <2>1
  <2> HIDE DEF a, b
  <2>4. ~(b <= a)
    <3> SUFFICES ASSUME b <= a PROVE FALSE
      OBVIOUS
    <3>1. b = a \/ b < a
      BY <2>2
    <3>2. rank(b) <= rank(a) /\ rank(a) \in Nat /\ rank(b) \in Nat
      BY <1>1, <2>2, <3>1
    <3> QED
      BY <2>3, <3>2
  <2> QED
    BY <2>2, <2>4 DEF a, b
<1>5. ASSUME NEW k \in S PROVE \E i \in 1..size : InOrder(S)[i] = k
  <2>1. rank(k) \in 0..size - 1 /\ rank(k) + 1 \in 1..size
    BY <1>1
  <2>2. InOrder(S)[rank(k) + 1] \in S /\ rank(InOrder(S)[rank(k) + 1]) = rank(k)
    BY <1>1, <1>3, <2>1
  <2> DEFINE a == InOrder(S)[rank(k) + 1]
  <2> HIDE DEF a
  <2>3. a \in S /\ a \in Nat /\ k \in Nat /\ rank(a) = rank(k) /\ rank(k) \in Nat
    <3>1. a \in S /\ rank(a) = rank(k)
      BY <2>2, Zenon DEF a
    <3>2. rank(k) \in Nat
      BY <1>1, <2>1
    <3> QED
      BY <3>1, <3>2
  <2>4. ~(a < k) /\ ~(k < a)
    BY <1>1, <2>3
  <2>5. a = k
    BY <2>3, <2>4
  <2> QED
    BY <2>1, <2>5 DEF a
<1> QED
  BY <1>3, <1>4, <1>5 DEF size

\* The rules of a style are listed in their order, and all of a kind.
LEMMA RulesInOrder ==
    ASSUME NEW s, NEW kind, IsSequence(s.rules)
    PROVE  /\ RulesOf(s, kind) \in Seq(Nat)
           /\ \A k \in DOMAIN RulesOf(s, kind) : RulesOf(s, kind)[k] \in RulesIn(s, kind)
           /\ \A i, j \in DOMAIN RulesOf(s, kind) :
                 i < j => RulesOf(s, kind)[i] < RulesOf(s, kind)[j]
           /\ \A r \in RulesIn(s, kind) :
                 \E k \in DOMAIN RulesOf(s, kind) : RulesOf(s, kind)[k] = r
           /\ RulesIn(s, kind) \subseteq Nat
<1> DEFINE S == RulesIn(s, kind)
<1>1. IsFiniteSet(S) /\ S \subseteq Nat
  BY Positions DEF RulesIn
<1> HIDE DEF S
<1>2. /\ InOrder(S) \in Seq(S) /\ Len(InOrder(S)) = Cardinality(S)
      /\ DOMAIN InOrder(S) = 1..Cardinality(S)
  BY <1>1, InOrderIsSequence, LenProperties
<1>3. InOrder(S) \in Seq(Nat)
  BY <1>1, <1>2, SeqMonotonic
<1> QED
  BY <1>1, <1>2, <1>3, InOrderAscends DEF RulesOf, S

-----------------------------------------------------------------------------
(* The layers to be painted are those that are prepared *)

\* Nothing is prepared at the start.
LEMMA InitPrepared == Init => AllPrepared
BY DEF Init, AllPrepared

\* Steps after the preparation.
LEMMA SamePrepared ==
    ASSUME AllPrepared, UNCHANGED <<map, prep, stored>>,
           pc' \notin {"start", "prepare"} => prep = Len(map.layers)
    PROVE  AllPrepared'
BY DEF AllPrepared, Reached, Layer

\* Every layer gone past is prepared if it is to be painted, and only then.
LEMMA StepPrepared == AllPrepared /\ LayersInv /\ [Next]_vars => AllPrepared'
<1> SUFFICES ASSUME AllPrepared, LayersInv, [Next]_vars PROVE AllPrepared'
  OBVIOUS
<1>1. CASE PrepareLayer
  <2>1. /\ pc = "prepare" /\ prep < Len(map.layers) /\ prep' = prep + 1
        /\ map' = map /\ pc' = pc
        /\ stored' = IF Reached(prep + 1) /\ ~Empty(Layer(prep + 1))
                     THEN stored \cup {prep + 1} ELSE stored
    BY <1>1, Zenon DEF PrepareLayer
  <2>2. /\ prep \in Nat /\ Len(map.layers) \in Nat /\ stored \subseteq 1..prep
        /\ \A n \in 1..Len(map.layers) : Layer(n).parent \in 0..n - 1
    BY DocumentOrder DEF LayersInv
  <2>3. \A n : Layer(n)' = Layer(n)
    BY <2>1 DEF Layer
  <2>4. \A n \in 1..prep + 1 : Reached(n)' <=> Reached(n)
    <3> SUFFICES ASSUME NEW n \in 1..prep + 1 PROVE Reached(n)' <=> Reached(n)
      OBVIOUS
    <3>1. Layer(n).parent \in 0..n - 1
      BY <2>1, <2>2
    <3>2. Layer(n).parent # prep + 1
      BY <2>2, <3>1
    <3>3. Layer(n).parent \in stored' <=> Layer(n).parent \in stored
      BY <2>1, <3>2
    <3> QED
      BY <2>1, <3>3 DEF Reached, Layer
  <2>5. prep + 1 \notin stored
    BY <2>2
  <2>6. \A n \in 1..prep + 1 : n \in 1..prep \/ n = prep + 1
    BY <2>2
  <2> HIDE DEF Reached, Empty
  <2>7. ASSUME NEW n \in 1..prep + 1
        PROVE  n \in stored' <=> Reached(n)' /\ ~Empty(Layer(n))'
    <3>1. n \in stored' <=> Reached(n) /\ ~Empty(Layer(n))
      BY <2>1, <2>2, <2>5, <2>6 DEF AllPrepared
    <3> QED
      BY <2>3, <2>4, <3>1
  <2> QED
    BY <2>1, <2>7 DEF AllPrepared
<1>2. CASE BeginRendering
  <2>1. UNCHANGED <<map, prep, stored>> /\ prep = Len(map.layers)
    BY <1>2, Zenon DEF BeginRendering
  <2> QED
    BY <2>1, SamePrepared
<1>3. CASE StartMapProcessing
  <2>1. UNCHANGED <<map, prep, stored>> /\ pc' = "prepare"
    BY <1>3, Zenon DEF StartMapProcessing, Goto
  <2> QED
    BY <2>1, SamePrepared
<1>4. CASE \/ OpenLayer \/ CloseLayer \/ EndMapProcessing \/ RenderMaterial
           \/ Fetch \/ EndPass \/ BeginStyle \/ NextRow \/ IfRule \/ ElseAndAlso
           \/ OtherRule \/ Throws
  <2>1. UNCHANGED <<map, prep, stored>> /\ pc \notin {"start", "prepare"}
    BY <1>4 DEF OpenLayer, CloseLayer, EndMapProcessing, RenderMaterial,
       Fetch, EndPass, BeginStyle, NextRow, IfRule, ElseAndAlso, OtherRule, Throws
  <2> QED
    BY <2>1, SamePrepared DEF AllPrepared
<1>5. CASE UNCHANGED vars
  <2>1. UNCHANGED <<map, prep, stored, pc>>
    BY <1>5 DEF vars
  <2> QED
    BY <2>1, SamePrepared DEF AllPrepared
<1> QED
  BY <1>1, <1>2, <1>3, <1>4, <1>5 DEF Next

-----------------------------------------------------------------------------
(* The features at hand are those of the group at hand *)

Working == pc \in {"fetch", "styles", "rows", "if", "other"}

\* The buffer as it stands.
LEMMA FromBuffer ==
    ASSUME HandInv, Working
    PROVE  /\ PainterFrom = IF buffer.features # <<>> THEN buffer.features[1] ELSE 1
           /\ PainterFrom \in Nat /\ Len(buffer.features) \in Nat
           /\ DOMAIN buffer.features = 1..Len(buffer.features)
           /\ LastBuffered \in Int
           /\ buffer.features = <<>> <=> Len(buffer.features) = 0
<1>1. buffer.features \in Seq(Nat)
  BY DEF HandInv
<1>2. /\ Len(buffer.features) \in Nat /\ DOMAIN buffer.features = 1..Len(buffer.features)
      /\ buffer.features = <<>> <=> Len(buffer.features) = 0
  BY <1>1, LenProperties, EmptySeq
<1>3. PainterFrom = IF buffer.features # <<>> THEN buffer.features[1] ELSE 1
  BY DEF PainterFrom, Working
<1>4. PainterFrom \in Nat
  <2>1. CASE buffer.features # <<>>
    <3>1. 1 \in 1..Len(buffer.features)
      BY <1>2, <2>1
    <3> QED
      BY <1>1, <1>3, <2>1, <3>1, ElementOfSeq
  <2> QED
    BY <1>3, <2>1
<1> QED
  BY <1>2, <1>3, <1>4 DEF LastBuffered

\* There are no features at hand at the start.
LEMMA InitGroup == Init => GroupInv
BY DEF Init, GroupInv

\* The layer at hand is not an empty one.
LEMMA LayerToPaint ==
    ASSUME LayersInv, AllPrepared, open # <<>>
    PROVE  TheLayer.visible /\ ~Empty(TheLayer)
<1>1. Current \in stored /\ stored \subseteq 1..prep
  BY AtLayer DEF LayersInv
<1> HIDE DEF Empty
<1> QED
  BY <1>1 DEF AllPrepared, Reached, TheLayer

\* The last query read on the way to the buffer is the only one of the layer.
LEMMA HalfQuery ==
    ASSUME LayersInv, QueriesInv, Reading, Half
    PROVE  /\ QueryOf(Current, 1) \in DOMAIN queries /\ QueryOf(Current, 1) \in DOMAIN read
           /\ read[QueryOf(Current, 1)] \in Nat
           /\ queries[QueryOf(Current, 1)].layer = Current
           /\ queries[QueryOf(Current, 1)].set = 1
<1>1. 1 \in 1..Featuresets(TheLayer) /\ Current \in stored /\ Layer(Current) = TheLayer
  BY InLayer DEF Half
<1>2. 1 \in 1..Featuresets(Layer(Current))
  BY <1>1
<1>3. /\ QueryOf(Current, 1) \in DOMAIN queries /\ QueryOf(Current, 1) \in DOMAIN read
      /\ read[QueryOf(Current, 1)] \in Nat
      /\ queries[QueryOf(Current, 1)] = [layer |-> Current, set |-> 1]
  BY <1>1, <1>2, QueryFound
<1> QED
  BY <1>3

\* A layer at hand has no features buffered yet.
LEMMA RenderMaterialGroup ==
    ASSUME ReadInv, LayersInv, QueriesInv, AllPrepared, RenderMaterial
    PROVE  GroupInv'
<1>1. /\ pc = "material" /\ Reading /\ style' = 1 /\ buffer' = NoBuffer /\ prev' = 0
      /\ UNCHANGED <<map, queries, read, open, ahead>>
      /\ pc' = IF ~TheLayer.datasource THEN "layers"
               ELSE IF Source(TheLayer) # "buffer" THEN "styles"
               ELSE IF ~TheLayer.null THEN "fetch"
               ELSE IF Grouped(TheLayer) THEN "layers" ELSE "styles"
  BY Zenon DEF RenderMaterial, Goto, Reading
<1> SUFFICES ASSUME Working' PROVE GroupInv'
  BY DEF GroupInv, Working
<1>2. pc' \in {"fetch", "styles"} /\ TheLayer.datasource
  BY <1>1 DEF Working
<1>3. /\ TheLayer' = TheLayer /\ (Half' <=> Half) /\ Current' = Current
      /\ QueryOf(Current, 1)' = QueryOf(Current, 1)
  <2>1. TheLayer' = TheLayer /\ (Half' <=> Half) /\ Current' = Current
    BY <1>1, SameView
  <2> QED
    BY <1>1, <2>1 DEF QueryOf
<1>4. /\ buffer'.features = <<>> /\ buffer'.pos = 0
      /\ PainterFrom' = 1 /\ LastBuffered' = 0
  BY <1>1 DEF NoBuffer, PainterFrom, LastBuffered
<1>5. ~Painter!Skipped(TheLayer)
  <2>1. open # <<>>
    BY <1>1 DEF LayersInv
  <2>2. ~Empty(TheLayer)
    BY <2>1, LayerToPaint
  <2> HIDE DEF ActiveStyles
  <2>3. ActiveStyles(TheLayer) # <<>>
    BY <1>2, <2>2 DEF Empty
  <2>4. TheLayer.extent = "inside" /\ Grouped(TheLayer) => Source(TheLayer) = "buffer"
    BY <2>3 DEF Source, Featuresets
  <2> QED
    BY <1>1, <1>2, <2>4 DEF Painter!Skipped, Painter!Grouped, Grouped
<1>6. pc' = "fetch" <=> Half
  BY <1>1, <1>2 DEF Half
<1>7. Half => read[QueryOf(Current, 1)] = 0
  <2> SUFFICES ASSUME Half PROVE read[QueryOf(Current, 1)] = 0
    OBVIOUS
  <2>1. /\ QueryOf(Current, 1) \in DOMAIN queries
        /\ queries[QueryOf(Current, 1)].layer = Current
    BY <1>1, HalfQuery
  <2> QED
    BY <1>1, <2>1 DEF ReadInv, AllAtHand, AtHand
<1>8. (~Painter!Skipped(TheLayer))'
  BY <1>3, <1>5 DEF Painter!Skipped, Painter!Grouped
<1>9. pc' = "fetch" => prev' = LastBuffered' /\ read'[QueryOf(Current, 1)'] = LastBuffered'
  BY <1>1, <1>3, <1>4, <1>6, <1>7
<1>10. \A k \in DOMAIN buffer'.features : FALSE
  BY <1>4
<1>11. \A k \in PainterFrom'..LastBuffered' - 1 : FALSE
  BY <1>4
<1> QED
  BY <1>2, <1>3, <1>4, <1>6, <1>8, <1>9, <1>10, <1>11 DEF GroupInv

\* A feature pushed to a buffer.
LEMMA RunGrows ==
    ASSUME NEW F \in Seq(Nat), NEW from \in Nat, NEW n \in Nat,
           from = IF F # <<>> THEN F[1] ELSE 1,
           \A k \in DOMAIN F : F[k] = from + k - 1,
           n = from + Len(F)
    PROVE  /\ Append(F, n) # <<>> /\ Append(F, n)[1] = from
           /\ Len(Append(F, n)) = Len(F) + 1
           /\ \A k \in DOMAIN Append(F, n) : Append(F, n)[k] = from + k - 1
<1> DEFINE G == Append(F, n)
<1>1. /\ Len(G) = Len(F) + 1 /\ Len(F) \in Nat /\ DOMAIN F = 1..Len(F)
      /\ DOMAIN G = 1..Len(F) + 1 /\ G \in Seq(Nat) /\ G # <<>>
      /\ \A k \in 1..Len(F) : G[k] = F[k]
      /\ G[Len(F) + 1] = n
  BY AppendProperties, LenProperties
<1> HIDE DEF G
<1>2. \A k \in DOMAIN G : G[k] = from + k - 1
  <2> SUFFICES ASSUME NEW k \in DOMAIN G PROVE G[k] = from + k - 1
    OBVIOUS
  <2>1. k \in 1..Len(F) \/ k = Len(F) + 1
    BY <1>1
  <2> QED
    BY <1>1, <2>1
<1>3. G[1] = from
  <2>1. 1 \in DOMAIN G
    BY <1>1
  <2> QED
    BY <1>2, <2>1
<1> QED
  BY <1>1, <1>2, <1>3 DEF G

\* The fields of the buffer after each of its operations.
LEMMA FeaturesPushed ==
    ASSUME NEW b \in [features : Seq(Nat), pos : Nat, end : Nat], NEW n
    PROVE  /\ [b EXCEPT !.features = Append(@, n)].features = Append(b.features, n)
           /\ [b EXCEPT !.features = Append(@, n)].pos = b.pos
           /\ [b EXCEPT !.pos = 0, !.end = n].features = b.features
           /\ [b EXCEPT !.pos = 0, !.end = n].pos = 0
           /\ [b EXCEPT !.pos = @ + 1].features = b.features
           /\ [b EXCEPT !.pos = @ + 1].pos = b.pos + 1
OBVIOUS

\* Reading a featureset on counts it, and leaves the others.
LEMMA FirstRead ==
    ASSUME LayersInv, QueriesInv, Reading, Half, UNCHANGED <<map, open, queries>>
    PROVE  /\ QueryOf(Current, 1)' = QueryOf(Current, 1)
           /\ Reads(Current, 1) =>
                read'[QueryOf(Current, 1)] = read[QueryOf(Current, 1)] + 1
<1>1. Current' = Current
  BY SameView
<1>2. QueryOf(Current, 1)' = QueryOf(Current, 1)
  BY <1>1 DEF QueryOf
<1>3. /\ QueryOf(Current, 1) \in DOMAIN read /\ read \in Seq(Nat)
  BY HalfQuery DEF QueriesInv
<1> QED
  BY <1>2, <1>3 DEF Reads

\* A feature read is pushed to the buffer, or is the first of the next group.
LEMMA FetchGroup ==
    ASSUME GroupInv, HandInv, ReadInv, LayersInv, QueriesInv, Fetch
    PROVE  GroupInv'
<1>1. /\ pc = "fetch" /\ Reading /\ Reads(Current, 1) /\ Working
      /\ UNCHANGED <<map, open, queries>>
  BY Zenon DEF Fetch, Reading, Working
<1>2. Half /\ ahead = 0 /\ TheLayer' = TheLayer /\ Half' /\ Current' = Current
      /\ Len(TheLayer.rows) \in Nat
  BY <1>1, SameView, InLayer DEF ReadInv, Standing
<1> DEFINE n == NextFeature(Current, 1)
           Q == QueryOf(Current, 1)
           F == buffer.features
           rows == TheLayer.rows
<1>3. /\ Q \in DOMAIN queries /\ read[Q] \in Nat /\ read[Q] <= Len(rows)
      /\ n = read[Q] + 1
  BY <1>1, <1>2, HalfQuery DEF NextFeature, ReadInv, AllAtHand, AtHand
<1>4. Q' = Q /\ read'[Q] = n
  BY <1>1, <1>2, <1>3, FirstRead
<1>5. /\ PainterFrom = IF F # <<>> THEN F[1] ELSE 1
      /\ PainterFrom \in Nat /\ Len(F) \in Nat
      /\ DOMAIN F = 1..Len(F) /\ F \in Seq(Nat)
      /\ LastBuffered \in Int /\ (F = <<>> <=> Len(F) = 0)
  BY <1>1, FromBuffer DEF HandInv
<1>6. /\ ~Painter!Skipped(TheLayer) /\ PainterFrom >= 1
      /\ \A k \in DOMAIN F : F[k] = PainterFrom + k - 1
      /\ Grouped(TheLayer) =>
           \A k \in PainterFrom..LastBuffered - 1 : rows[k] = rows[k + 1]
      /\ prev = LastBuffered /\ read[Q] = LastBuffered
      /\ LastBuffered = PainterFrom + Len(F) - 1
  BY <1>1 DEF GroupInv, LastBuffered
<1>7. (~Painter!Skipped(TheLayer))'
  BY <1>2, <1>6 DEF Painter!Skipped, Painter!Grouped
<1>8. Remains(Current, 1) <=> read[Q] < Len(rows)
  BY <1>1, InLayer DEF Remains
<1>9. CASE /\ Remains(Current, 1) /\ ~AtBoundary
           /\ buffer' = [buffer EXCEPT !.features = Append(@, n)]
           /\ prev' = n /\ UNCHANGED <<pc, style, ahead>>
  <2>1. buffer'.features = Append(F, n)
    <3> HIDE DEF n
    <3> QED
      BY <1>9, FeaturesPushed DEF HandInv
  <2>2. /\ buffer'.features # <<>> /\ buffer'.features[1] = PainterFrom
        /\ Len(buffer'.features) = Len(F) + 1
        /\ \A k \in DOMAIN buffer'.features : buffer'.features[k] = PainterFrom + k - 1
    <3>1. n \in Nat /\ n = PainterFrom + Len(F)
      BY <1>3, <1>5, <1>6
    <3>2. /\ F \in Seq(Nat) /\ PainterFrom \in Nat
          /\ PainterFrom = IF F # <<>> THEN F[1] ELSE 1
          /\ \A k \in DOMAIN F : F[k] = PainterFrom + k - 1
      BY <1>5, <1>6
    <3> HIDE DEF n, F
    <3>3. /\ Append(F, n) # <<>> /\ Append(F, n)[1] = PainterFrom
          /\ Len(Append(F, n)) = Len(F) + 1
          /\ \A k \in DOMAIN Append(F, n) : Append(F, n)[k] = PainterFrom + k - 1
      BY <3>1, <3>2, RunGrows
    <3> QED
      BY <2>1, <3>3
  <2>3. PainterFrom' = PainterFrom /\ LastBuffered' = n
    <3>1. PainterFrom' = PainterFrom
      BY <1>1, <1>9, <2>2 DEF PainterFrom
    <3> QED
      BY <1>3, <1>5, <1>6, <2>2, <3>1 DEF LastBuffered
  <2>4. ASSUME Grouped(TheLayer), NEW k \in PainterFrom..n - 1
        PROVE  rows[k] = rows[k + 1]
    <3>1. CASE k \in PainterFrom..LastBuffered - 1
      BY <1>6, <2>4, <3>1
    <3>2. CASE k = LastBuffered
      <4>1. prev # 0 /\ prev = k
        BY <1>5, <1>6, <2>4, <3>2
      <4>2. rows[prev] = rows[n]
        BY <1>9, <2>4, <4>1 DEF AtBoundary
      <4>3. n = k + 1
        BY <1>3, <1>6, <3>2
      <4> QED
        BY <4>1, <4>2, <4>3
    <3> QED
      BY <1>3, <1>5, <1>6, <2>4, <3>1, <3>2
  <2>5. (Grouped(TheLayer) =>
           \A k \in PainterFrom..LastBuffered - 1 :
              TheLayer.rows[k] = TheLayer.rows[k + 1])'
    <3> HIDE DEF n
    <3> QED
      BY <1>2, <2>3, <2>4 DEF Grouped
  <2>6. pc' = "fetch" /\ prev' = LastBuffered' /\ read'[Q'] = LastBuffered'
    BY <1>1, <1>4, <1>9, <2>3
  <2>7. (\A k \in DOMAIN buffer.features : buffer.features[k] = PainterFrom + k - 1)'
    BY <2>2, <2>3
  <2>8. PainterFrom' >= 1
    BY <1>6, <2>3
  <2> HIDE DEF n, F
  <2> QED
    BY <1>2, <1>7, <2>5, <2>6, <2>7, <2>8 DEF GroupInv
<1>10. ASSUME pc' = "styles", buffer' = buffer, prev' = prev,
              \/ ahead' = 0 /\ LastBuffered = Len(rows)
              \/ /\ ahead' = LastBuffered + 1 /\ ahead' <= Len(rows)
                 /\ ahead' = n /\ F # <<>> /\ Grouped(TheLayer)
                 /\ rows[LastBuffered] # rows[ahead']
       PROVE  GroupInv'
  <2>1. PainterFrom' = PainterFrom
    BY <1>1, <1>10 DEF PainterFrom
  <2>2. LastBuffered' = LastBuffered
    BY <1>10, <2>1 DEF LastBuffered
  <2>3. (Grouped(TheLayer) =>
           \A k \in PainterFrom..LastBuffered - 1 :
              TheLayer.rows[k] = TheLayer.rows[k + 1])'
    BY <1>2, <1>6, <2>1, <2>2 DEF Grouped
  <2>4. (\A k \in DOMAIN buffer.features : buffer.features[k] = PainterFrom + k - 1)'
    BY <1>6, <1>10, <2>1
  <2>5. (IF ahead = 0 THEN LastBuffered = Len(TheLayer.rows)
         ELSE /\ Grouped(TheLayer)
              /\ ahead = LastBuffered + 1 /\ ahead <= Len(TheLayer.rows)
              /\ read[QueryOf(Current, 1)] = ahead
              /\ buffer.features # <<>>
              /\ TheLayer.rows[LastBuffered] # TheLayer.rows[ahead])'
    <3> HIDE DEF n
    <3>1. ahead' # 0 => read'[Q'] = ahead'
      BY <1>4, <1>5, <1>6, <1>10
    <3> QED
      BY <1>2, <1>5, <1>6, <1>10, <2>2, <3>1 DEF Grouped
  <2>6. pc' # "fetch" /\ pc' \notin {"if", "other"} /\ PainterFrom' >= 1
    BY <1>6, <1>10, <2>1
  <2> HIDE DEF n, F
  <2> QED
    BY <1>2, <1>7, <2>3, <2>4, <2>5, <2>6 DEF GroupInv
<1>11. CASE /\ Remains(Current, 1) /\ AtBoundary /\ ahead' = n
            /\ pc' = "styles" /\ UNCHANGED <<buffer, prev>>
  <2>1. /\ Grouped(TheLayer) /\ prev # 0 /\ rows[prev] # rows[n]
    BY <1>11 DEF AtBoundary
  <2>2. n = LastBuffered + 1 /\ n <= Len(rows) /\ F # <<>>
    BY <1>2, <1>3, <1>5, <1>6, <1>8, <1>11, <2>1
  <2> QED
    BY <1>6, <1>10, <1>11, <2>1, <2>2
<1>12. CASE /\ ~Remains(Current, 1) /\ pc' = "styles"
            /\ UNCHANGED <<buffer, prev, ahead>>
  <2>1. LastBuffered = Len(rows)
    BY <1>2, <1>3, <1>6, <1>8, <1>12
  <2> QED
    BY <1>2, <1>10, <1>12, <2>1
<1> HIDE DEF n
<1> QED
  BY <1>9, <1>11, <1>12, Zenon DEF Fetch, Goto, n

\* Steps of the styles leave the group as it is.
LEMMA SameGroup ==
    ASSUME GroupInv, pc \in {"styles", "rows", "if", "other"},
           pc' \in {"styles", "rows", "if", "other"},
           UNCHANGED <<map, open, queries, ahead>>,
           buffer'.features = buffer.features,
           Half => read' = read, ~Half => buffer'.pos = 0,
           pc' \in {"if", "other"} => row' = PainterFeature'
    PROVE  GroupInv'
<1>1. /\ TheLayer' = TheLayer /\ (Half' <=> Half) /\ Current' = Current
      /\ QueryOf(Current, 1)' = QueryOf(Current, 1)
  <2>1. TheLayer' = TheLayer /\ (Half' <=> Half) /\ Current' = Current
    BY SameView
  <2> QED
    BY <2>1 DEF QueryOf
<1>2. PainterFrom' = PainterFrom /\ LastBuffered' = LastBuffered
  BY DEF PainterFrom, LastBuffered
<1>3. /\ ~Painter!Skipped(TheLayer) /\ PainterFrom >= 1
      /\ \A k \in DOMAIN buffer.features : buffer.features[k] = PainterFrom + k - 1
      /\ Grouped(TheLayer) =>
           \A k \in PainterFrom..LastBuffered - 1 :
              TheLayer.rows[k] = TheLayer.rows[k + 1]
      /\ ~Half => buffer.features = <<>> /\ buffer.pos = 0
      /\ Half => IF ahead = 0 THEN LastBuffered = Len(TheLayer.rows)
                 ELSE /\ Grouped(TheLayer)
                      /\ ahead = LastBuffered + 1 /\ ahead <= Len(TheLayer.rows)
                      /\ read[QueryOf(Current, 1)] = ahead
                      /\ buffer.features # <<>>
                      /\ TheLayer.rows[LastBuffered] # TheLayer.rows[ahead]
  BY Zenon DEF GroupInv
<1>4. (~Painter!Skipped(TheLayer) /\ PainterFrom >= 1)'
  BY <1>1, <1>2, <1>3 DEF Painter!Skipped, Painter!Grouped
<1>5. (/\ \A k \in DOMAIN buffer.features : buffer.features[k] = PainterFrom + k - 1
       /\ Grouped(TheLayer) =>
            \A k \in PainterFrom..LastBuffered - 1 :
               TheLayer.rows[k] = TheLayer.rows[k + 1])'
  BY <1>1, <1>2, <1>3 DEF Grouped
<1>6. (/\ ~Half => buffer.features = <<>> /\ buffer.pos = 0
       /\ Half => IF ahead = 0 THEN LastBuffered = Len(TheLayer.rows)
                  ELSE /\ Grouped(TheLayer)
                       /\ ahead = LastBuffered + 1 /\ ahead <= Len(TheLayer.rows)
                       /\ read[QueryOf(Current, 1)] = ahead
                       /\ buffer.features # <<>>
                       /\ TheLayer.rows[LastBuffered] # TheLayer.rows[ahead])'
  BY <1>1, <1>2, <1>3 DEF Grouped
<1>7. pc' # "fetch"
  OBVIOUS
<1> QED
  BY <1>4, <1>5, <1>6, <1>7, Zenon DEF GroupInv

\* A buffer of one feature.
LEMMA SingleFeature ==
    ASSUME NEW n \in Nat
    PROVE  /\ Append(<<>>, n) = <<n>> /\ <<n>> # <<>> /\ Len(<<n>>) = 1
           /\ DOMAIN <<n>> = {1} /\ <<n>>[1] = n
OBVIOUS

\* A cleared buffer that the feature ahead is pushed to.
LEMMA BufferRestarted ==
    ASSUME NEW b \in [features : Seq(Nat), pos : Nat, end : Nat], NEW n \in Nat
    PROVE  [[b EXCEPT !.features = <<>>] EXCEPT !.features = Append(@, n)].features = <<n>>
BY SingleFeature

\* The feature ahead is the first of the group that begins with it.
LEMMA EndPassGroup ==
    ASSUME GroupInv, HandInv, ReadInv, LayersInv, QueriesInv, EndPass
    PROVE  GroupInv'
<1>1. /\ pc = "styles" /\ Reading /\ Working
      /\ UNCHANGED <<map, open, queries, read>>
  BY Zenon DEF EndPass, Reading, Working
<1> SUFFICES ASSUME Working' PROVE GroupInv'
  BY DEF GroupInv, Working
<1>2. /\ ahead # 0 /\ pc' = "fetch" /\ prev' = ahead
      /\ buffer' = [Cleared EXCEPT !.features = Append(@, ahead)]
  BY DEF EndPass, Goto, Working
<1>3. Half /\ TheLayer' = TheLayer /\ (Half' <=> Half) /\ Current' = Current
  BY <1>1, <1>2, SameView DEF ReadInv, Standing
<1>4. QueryOf(Current, 1)' = QueryOf(Current, 1)
  BY <1>1, <1>3 DEF QueryOf
<1>5. /\ ~Painter!Skipped(TheLayer) /\ PainterFrom >= 1
      /\ ahead = LastBuffered + 1 /\ ahead <= Len(TheLayer.rows)
      /\ read[QueryOf(Current, 1)] = ahead
  BY <1>1, <1>2, <1>3 DEF GroupInv
<1>6. ahead \in Nat
  BY DEF HandInv
<1>7. /\ buffer'.features = <<ahead>>
  BY <1>2, <1>6, BufferRestarted DEF HandInv, Cleared
<1>8. PainterFrom' = ahead /\ LastBuffered' = ahead /\ ahead >= 1
  <2>1. PainterFrom' = ahead
    BY <1>2, <1>6, <1>7, SingleFeature DEF PainterFrom
  <2>2. LastBuffered' = ahead
    BY <1>6, <1>7, <2>1, SingleFeature DEF LastBuffered
  <2> QED
    BY <1>2, <1>6, <2>1, <2>2
<1>9. (~Painter!Skipped(TheLayer))'
  BY <1>3, <1>5 DEF Painter!Skipped, Painter!Grouped
<1>10. (\A k \in DOMAIN buffer.features : buffer.features[k] = PainterFrom + k - 1)'
  BY <1>6, <1>7, <1>8, SingleFeature
<1>11. \A k \in PainterFrom'..LastBuffered' - 1 : FALSE
  BY <1>6, <1>8
<1>12. (prev = LastBuffered /\ read[QueryOf(Current, 1)] = LastBuffered)'
  BY <1>1, <1>2, <1>4, <1>5, <1>8
<1>13. PainterFrom' >= 1
  BY <1>8
<1> QED
  BY <1>2, <1>3, <1>9, <1>10, <1>11, <1>12, <1>13 DEF GroupInv

\* A style begins with the first feature of the group.
LEMMA BeginStyleGroup ==
    ASSUME GroupInv, HandInv, BeginStyle
    PROVE  GroupInv'
<1>1. /\ pc = "styles" /\ pc' = "rows" /\ UNCHANGED <<map, open, queries, ahead, read>>
      /\ buffer' = IF Source(TheLayer) # "buffer" THEN buffer
                   ELSE [buffer EXCEPT !.pos = 0, !.end = Len(buffer.features)]
  BY Zenon DEF BeginStyle, Goto
<1>2. Len(buffer.features) \in Nat
  BY LenProperties DEF HandInv
<1> DEFINE c == [buffer EXCEPT !.pos = 0, !.end = Len(buffer.features)]
<1>5. c.pos = 0 /\ c.features = buffer.features
  BY <1>2, FeaturesPushed DEF HandInv
<1> HIDE DEF c
<1>3. buffer'.features = buffer.features
  BY <1>1, <1>5 DEF c
<1>4. ~Half => buffer'.pos = 0
  <2>1. Source(TheLayer) = "buffer" => buffer'.pos = 0
    BY <1>1, <1>5 DEF c
  <2>2. ~Half => buffer.pos = 0
    BY <1>1 DEF GroupInv
  <2> QED
    BY <1>1, <2>1, <2>2
<1> QED
  BY <1>1, <1>3, <1>4, SameGroup

\* The feature a style takes is the next one.
LEMMA NextRowGroup ==
    ASSUME GroupInv, HandInv, ReadInv, LayersInv, QueriesInv, NextRow
    PROVE  GroupInv'
<1>1. /\ pc = "rows" /\ Reading /\ Working /\ InStyle
      /\ UNCHANGED <<map, open, queries, ahead>>
  BY Zenon DEF NextRow, Reading, Working, InStyle
<1>2. ~Half => buffer.features = <<>> /\ buffer.pos = 0
  BY <1>1 DEF GroupInv
<1>3. CASE FinishesStyle
  <2>1. pc' = "styles" /\ buffer' = buffer /\ (Source(TheLayer) # "query" => read' = read)
    BY <1>3 DEF FinishesStyle, TakesRow, NextRow, Goto
  <2>2. Half => Source(TheLayer) # "query"
    BY DEF Half
  <2> QED
    BY <1>1, <1>2, <2>1, <2>2, SameGroup
<1>4. Source(TheLayer)' = Source(TheLayer) /\ Current' = Current
  BY <1>1, SameView
<1>5. CASE /\ Source(TheLayer) = "buffer" /\ buffer.pos # buffer.end
           /\ TakesRow(buffer.features[buffer.pos + 1])
           /\ buffer' = [buffer EXCEPT !.pos = @ + 1]
           /\ read' = read
  <2>1. /\ pc' = "if" /\ row' = buffer.features[buffer.pos + 1]
    BY <1>5, Zenon DEF TakesRow, Goto
  <2>2. /\ buffer'.features = buffer.features /\ buffer'.pos = buffer.pos + 1
    BY <1>5, FeaturesPushed DEF HandInv
  <2>3. /\ buffer.pos \in Nat /\ buffer.pos + 1 \in DOMAIN buffer.features
        /\ buffer.features # <<>>
    <3>1. /\ buffer.features \in Seq(Nat) /\ buffer.pos \in Nat
          /\ buffer.pos <= buffer.end /\ buffer.end = Len(buffer.features)
          /\ buffer.end \in Nat
      BY <1>1, <1>5 DEF HandInv
    <3>2. buffer.pos + 1 \in 1..Len(buffer.features)
      BY <1>5, <3>1
    <3> QED
      BY <3>1, <3>2, LenProperties, EmptySeq
  <2>4. Half
    BY <1>2, <2>3
  <2>5. row' = PainterFrom + (buffer.pos + 1) - 1 /\ PainterFrom \in Nat
    BY <1>1, <2>1, <2>3, FromBuffer DEF GroupInv
  <2>6. PainterFrom' = PainterFrom
    BY <1>1, <2>1, <2>2 DEF PainterFrom
  <2>7. PainterFeature' = PainterFrom - 1 + (buffer.pos + 1)
    <3>1. InStyle' /\ Taken' = buffer'.pos
      BY <1>4, <1>5, <2>1 DEF InStyle, Taken
    <3> QED
      BY <2>2, <2>6, <3>1 DEF PainterFeature
  <2>8. row' = PainterFeature'
    BY <2>3, <2>5, <2>7
  <2> QED
    BY <1>1, <1>5, <2>1, <2>2, <2>4, <2>8, SameGroup
<1>6. CASE /\ Source(TheLayer) = "query" /\ buffer' = buffer
           /\ Reads(Current, style)
           /\ TakesRow(NextFeature(Current, style))
  <2>1. pc' = "if" /\ row' = NextFeature(Current, style) /\ style' = style
    BY <1>6, Zenon DEF TakesRow, Goto
  <2>2. ~Half
    BY <1>6 DEF Half
  <2>3. PainterFrom' = 1
    BY <1>2, <1>6, <2>1, <2>2 DEF PainterFrom
  <2>4. QueryOf(Current, style)' = QueryOf(Current, style)
    BY <1>1, <1>4, <2>1 DEF QueryOf
  <2>5. QueryOf(Current, style) \in DOMAIN read /\ read[QueryOf(Current, style)] \in Nat
    <3>1. style \in 1..Featuresets(TheLayer) /\ Current \in stored
          /\ Layer(Current) = TheLayer
      BY <1>1, <1>6, InLayer DEF ReadInv, Standing
    <3>2. style \in 1..Featuresets(Layer(Current))
      BY <3>1
    <3> QED
      BY <3>1, <3>2, QueryFound
  <2>6. read'[QueryOf(Current, style)] = NextFeature(Current, style)
    BY <1>6, <2>5 DEF Reads, NextFeature, QueriesInv
  <2>7. PainterFeature' = NextFeature(Current, style)
    <3>1. InStyle' /\ Taken' = read'[QueryOf(Current, style)]
      BY <1>4, <1>6, <2>1, <2>4 DEF InStyle, Taken
    <3>2. NextFeature(Current, style) \in Nat
      BY <2>5 DEF NextFeature
    <3> QED
      BY <2>3, <2>6, <3>1, <3>2 DEF PainterFeature
  <2> QED
    BY <1>1, <1>2, <1>6, <2>1, <2>2, <2>7, SameGroup
<1> QED
  BY <1>3, <1>5, <1>6, Zenon DEF NextRow

\* The rules are applied to the feature at hand.
LEMMA RulesKeepGroup ==
    ASSUME GroupInv, IfRule \/ ElseAndAlso \/ OtherRule
    PROVE  /\ GroupInv'
           /\ PainterFrom' = PainterFrom /\ PainterFeature' = PainterFeature
           /\ PainterStyle' = PainterStyle
<1>1. /\ pc \in {"if", "other"} /\ pc' \in {"rows", "if", "other"} /\ InStyle /\ InStyle'
      /\ UNCHANGED <<map, open, queries, ahead, read, buffer, row, style>>
  BY DEF IfRule, ElseAndAlso, OtherRule, Goto, InStyle
<1>2. PainterFrom' = PainterFrom /\ PainterStyle' = PainterStyle
  BY <1>1 DEF PainterFrom, PainterStyle
<1>3. /\ Source(TheLayer)' = Source(TheLayer) /\ Current' = Current
      /\ TheLayer' = TheLayer
  BY <1>1, SameView
<1>4. QueryOf(Current, style)' = QueryOf(Current, style)
  BY <1>1, <1>3 DEF QueryOf
<1>5. Taken' = Taken
  BY <1>1, <1>3, <1>4 DEF Taken
<1>6. PainterFeature' = PainterFeature
  BY <1>1, <1>2, <1>5, Zenon DEF PainterFeature
<1>7. ~Half => buffer.pos = 0
  BY <1>1 DEF GroupInv
<1>8. row = PainterFeature
  BY <1>1 DEF GroupInv
<1>9. GroupInv'
  BY <1>1, <1>6, <1>7, <1>8, SameGroup
<1> QED
  BY <1>2, <1>6, <1>9

\* Every step keeps the buffer to one group of consecutive features.
LEMMA StepGroup ==
    GroupInv /\ AllPrepared /\ HandInv /\ ReadInv /\ LayersInv /\ QueriesInv
        /\ [Next]_vars => GroupInv'
<1> SUFFICES ASSUME GroupInv, AllPrepared, HandInv, ReadInv, LayersInv, QueriesInv,
                    [Next]_vars
             PROVE  GroupInv'
  OBVIOUS
<1>1. CASE \/ StartMapProcessing \/ PrepareLayer \/ BeginRendering \/ OpenLayer
           \/ CloseLayer \/ EndMapProcessing \/ Throws
  <2>1. ~Working'
    BY <1>1 DEF StartMapProcessing, PrepareLayer, BeginRendering, OpenLayer,
       CloseLayer, EndMapProcessing, Throws, Goto, Working
  <2> QED
    BY <2>1 DEF GroupInv, Working
<1>2. CASE UNCHANGED vars
  BY <1>2 DEF vars, GroupInv, PainterFrom, LastBuffered, TheLayer, Layer, Current,
     QueryOf, Half, PainterFeature, PainterStyle, Taken, InStyle, Painter!Skipped,
     Painter!Grouped, Source, Featuresets, Grouped, Caches
<1> QED
  BY <1>1, <1>2, RenderMaterialGroup, FetchGroup, EndPassGroup, BeginStyleGroup,
     NextRowGroup, RulesKeepGroup DEF Next

-----------------------------------------------------------------------------
(* The rules are looked at in their order *)

\* Where the rules are after the first of them was looked at.
LEMMA TailShifts ==
    ASSUME NEW s \in Seq(Nat), s # <<>>
    PROVE  /\ Head(s) = s[1] /\ 1 \in DOMAIN s /\ Tail(s) \in Seq(Nat)
           /\ DOMAIN s = 1..Len(s) /\ Len(s) \in Nat
           /\ DOMAIN Tail(s) = 1..Len(s) - 1
           /\ \A k \in DOMAIN Tail(s) : Tail(s)[k] = s[k + 1] /\ k + 1 \in DOMAIN s
           /\ \A k \in DOMAIN s :
                 k = 1 \/ (k - 1 \in DOMAIN Tail(s) /\ Tail(s)[k - 1] = s[k])
<1>1. /\ Head(s) = s[1] /\ Tail(s) \in Seq(Nat) /\ Len(Tail(s)) = Len(s) - 1
      /\ \A k \in 1..Len(Tail(s)) : Tail(s)[k] = s[k + 1]
  BY HeadTailProperties
<1>2. /\ DOMAIN s = 1..Len(s) /\ Len(s) \in Nat /\ Len(s) # 0
      /\ DOMAIN Tail(s) = 1..Len(Tail(s))
  BY <1>1, LenProperties, EmptySeq
<1>3. \A k \in DOMAIN Tail(s) : Tail(s)[k] = s[k + 1] /\ k + 1 \in DOMAIN s
  BY <1>1, <1>2
<1>4. ASSUME NEW k \in DOMAIN s, k # 1
      PROVE  k - 1 \in DOMAIN Tail(s) /\ Tail(s)[k - 1] = s[k]
  <2>1. k - 1 \in 1..Len(Tail(s)) /\ (k - 1) + 1 = k
    BY <1>1, <1>2, <1>4
  <2>2. Tail(s)[k - 1] = s[(k - 1) + 1]
    BY <1>1, <2>1
  <2> QED
    BY <1>2, <2>1, <2>2
<1>5. 1 \in DOMAIN s
  BY <1>2
<1> QED
  BY <1>1, <1>2, <1>3, <1>4, <1>5

\* What is left of an ascending list ascends, and is above its head.
LEMMA TailAscends ==
    ASSUME NEW s \in Seq(Nat), s # <<>>,
           \A i, j \in DOMAIN s : i < j => s[i] < s[j]
    PROVE  /\ \A i, j \in DOMAIN Tail(s) : i < j => Tail(s)[i] < Tail(s)[j]
           /\ \A k \in DOMAIN Tail(s) : Head(s) < Tail(s)[k]
           /\ \A k \in DOMAIN Tail(s) : \E j \in DOMAIN s : Tail(s)[k] = s[j]
<1>1. /\ Head(s) = s[1] /\ 1 \in DOMAIN s /\ DOMAIN s = 1..Len(s) /\ Len(s) \in Nat
      /\ DOMAIN Tail(s) = 1..Len(s) - 1
      /\ \A k \in DOMAIN Tail(s) : Tail(s)[k] = s[k + 1] /\ k + 1 \in DOMAIN s
  BY TailShifts
<1>2. ASSUME NEW i \in DOMAIN Tail(s), NEW j \in DOMAIN Tail(s), i < j
      PROVE  Tail(s)[i] < Tail(s)[j]
  <2>1. i + 1 \in DOMAIN s /\ j + 1 \in DOMAIN s /\ i + 1 < j + 1
    BY <1>1, <1>2
  <2> QED
    BY <1>1, <2>1
<1>3. ASSUME NEW k \in DOMAIN Tail(s) PROVE Head(s) < Tail(s)[k]
  <2>1. k + 1 \in DOMAIN s /\ 1 < k + 1
    BY <1>1
  <2> QED
    BY <1>1, <2>1
<1> QED
  BY <1>1, <1>2, <1>3

\* What the assignments to the flags leave them.
LEMMA FlagsRead ==
    ASSUME NEW f \in [{"do_else", "do_also", "was_painted"} -> BOOLEAN], NEW b
    PROVE  /\ [f EXCEPT !.do_else = TRUE, !.do_also = FALSE].do_else = TRUE
           /\ [f EXCEPT !.do_else = TRUE, !.do_also = FALSE].do_also = FALSE
           /\ [f EXCEPT !.was_painted = b].do_else = f.do_else
           /\ [f EXCEPT !.was_painted = b].do_also = f.do_also
           /\ f.do_else \in BOOLEAN /\ f.do_also \in BOOLEAN
OBVIOUS

\* The rules at hand are those of a style at hand.
LEMMA StyleInOrder ==
    ASSUME ReadInv, LayersInv, QueriesInv, InStyle, NEW kind
    PROVE  /\ RulesOf(TheStyle, kind) \in Seq(Nat)
           /\ \A k \in DOMAIN RulesOf(TheStyle, kind) :
                 RulesOf(TheStyle, kind)[k] \in RulesIn(TheStyle, kind)
           /\ \A i, j \in DOMAIN RulesOf(TheStyle, kind) :
                 i < j => RulesOf(TheStyle, kind)[i] < RulesOf(TheStyle, kind)[j]
           /\ \A r \in RulesIn(TheStyle, kind) :
                 \E k \in DOMAIN RulesOf(TheStyle, kind) : RulesOf(TheStyle, kind)[k] = r
           /\ RulesIn(TheStyle, kind) \subseteq Nat
<1>1. style \in 1..Len(ActiveStyles(TheLayer)) /\ Reading
  BY InLayer DEF ReadInv, Standing, InStyle, Reading
<1>2. IsSequence(TheStyle.rules)
  BY <1>1, AtStyle
<1> QED
  BY <1>2, RulesInOrder

\* No rule is looked at at the start.
LEMMA InitMatch == Init => MatchInv
BY DEF Init, MatchInv

\* A rule that matches is applied, and one that does not is passed over.
LEMMA IfRuleMatch ==
    ASSUME MatchInv, RulesInv, IfRule
    PROVE  MatchInv'
<1>1. /\ pc = "if" /\ pc' = "if" /\ rules # <<>> /\ UNCHANGED <<map, open, style, row>>
  BY Zenon DEF IfRule
<1>2. TheStyle' = TheStyle
  BY <1>1, SameStyle
<1>3. /\ \A i, j \in DOMAIN rules : i < j => rules[i] < rules[j]
      /\ \A k \in DOMAIN rules : rules[k] \in RulesIn(TheStyle, "if")
      /\ flags.do_else =>
            /\ ~flags.do_also
            /\ \A r \in RulesIn(TheStyle, "if") :
                  row \in TheStyle.rules[r].matches => \E k \in DOMAIN rules : rules[k] = r
      /\ ~flags.do_else =>
            IF TheStyle.filter_first THEN rules = <<>> /\ ~flags.do_also
            ELSE flags.do_also
  BY <1>1 DEF MatchInv
<1>4. /\ \A i, j \in DOMAIN Tail(rules) : i < j => Tail(rules)[i] < Tail(rules)[j]
      /\ \A k \in DOMAIN Tail(rules) : Tail(rules)[k] \in RulesIn(TheStyle, "if")
  BY <1>1, <1>3, TailAscends DEF RulesInv
<1>5. CASE /\ row \in TheStyle.rules[Head(rules)].matches
           /\ flags' = [do_else |-> FALSE, do_also |-> ~TheStyle.filter_first,
                        was_painted |-> TRUE]
           /\ rules' = IF TheStyle.filter_first THEN <<>> ELSE Tail(rules)
  <2>1. ~flags'.do_else
        /\ (IF TheStyle.filter_first THEN rules' = <<>> /\ ~flags'.do_also
            ELSE flags'.do_also)
    BY <1>5
  <2>2. \A k \in DOMAIN rules' : rules'[k] \in RulesIn(TheStyle, "if")
    BY <1>4, <1>5
  <2>3. \A i, j \in DOMAIN rules' : i < j => rules'[i] < rules'[j]
    BY <1>4, <1>5
  <2>4. (\A k \in DOMAIN rules : rules[k] \in RulesIn(TheStyle, "if"))'
    BY <1>2, <2>2 DEF RulesIn
  <2> QED
    BY <1>1, <1>2, <2>1, <2>3, <2>4 DEF MatchInv
<1>6. CASE /\ row \notin TheStyle.rules[Head(rules)].matches
           /\ rules' = Tail(rules) /\ flags' = flags
  <2>1. (\A k \in DOMAIN rules : rules[k] \in RulesIn(TheStyle, "if"))'
    BY <1>2, <1>4, <1>6 DEF RulesIn
  <2>2. \A i, j \in DOMAIN rules' : i < j => rules'[i] < rules'[j]
    BY <1>4, <1>6
  <2>3. ASSUME flags.do_else, NEW r \in RulesIn(TheStyle, "if"),
               row \in TheStyle.rules[r].matches
        PROVE  \E k \in DOMAIN rules' : rules'[k] = r
    <3>1. PICK k \in DOMAIN rules : rules[k] = r
      BY <1>3, <2>3
    <3>2. Head(rules) = rules[1] /\ (k = 1 \/ (k - 1 \in DOMAIN Tail(rules)
                                               /\ Tail(rules)[k - 1] = rules[k]))
      BY <1>1, <3>1, TailShifts DEF RulesInv
    <3>3. k # 1
      BY <1>6, <2>3, <3>1, <3>2
    <3> QED
      BY <1>6, <3>1, <3>2, <3>3
  <2>4. (flags.do_else =>
            /\ ~flags.do_also
            /\ \A r \in RulesIn(TheStyle, "if") :
                  row \in TheStyle.rules[r].matches => \E k \in DOMAIN rules : rules[k] = r)'
    BY <1>1, <1>2, <1>3, <1>6, <2>3 DEF RulesIn
  <2>5. (~flags.do_else =>
            IF TheStyle.filter_first THEN rules = <<>> /\ ~flags.do_also
            ELSE flags.do_also)'
    BY <1>1, <1>2, <1>3, <1>6
  <2> QED
    BY <1>1, <2>1, <2>2, <2>4, <2>5 DEF MatchInv
<1> QED
  BY <1>5, <1>6, Zenon DEF IfRule

\* All if rules are still to be looked at for a new feature.
LEMMA TakesRowMatch ==
    ASSUME ReadInv, LayersInv, QueriesInv, RulesInv, InStyle,
           UNCHANGED <<map, open>>, NEW f, TakesRow(f)
    PROVE  MatchInv'
<1>1. /\ pc' = "if" /\ rules' = RulesOf(TheStyle, "if") /\ style' = style
      /\ flags' = [flags EXCEPT !.do_else = TRUE, !.do_also = FALSE]
  BY Zenon DEF TakesRow, Goto
<1>2. TheStyle' = TheStyle
  BY <1>1, SameStyle
<1>3. flags'.do_else = TRUE /\ flags'.do_also = FALSE
  BY <1>1, FlagsRead DEF RulesInv
<1>4. /\ \A k \in DOMAIN rules' : rules'[k] \in RulesIn(TheStyle, "if")
      /\ \A i, j \in DOMAIN rules' : i < j => rules'[i] < rules'[j]
      /\ \A r \in RulesIn(TheStyle, "if") : \E k \in DOMAIN rules' : rules'[k] = r
  BY <1>1, StyleInOrder
<1>5. RulesIn(TheStyle, "if")' = RulesIn(TheStyle, "if")
  BY <1>2 DEF RulesIn
<1> HIDE DEF RulesIn
<1> QED
  BY <1>1, <1>3, <1>4, <1>5 DEF MatchInv

\* What follows the if rules is a list of rules of one kind.
LEMMA WhatFollows ==
    ASSUME RulesInv, ReadInv, LayersInv, QueriesInv, InStyle, ~flags.do_else \/ ~flags.do_also,
           NEW R, R = (IF flags.do_else THEN RulesOf(TheStyle, "else") ELSE <<>>)
                      \o (IF flags.do_also THEN RulesOf(TheStyle, "also") ELSE <<>>)
    PROVE  R = IF flags.do_else THEN RulesOf(TheStyle, "else")
               ELSE IF flags.do_also THEN RulesOf(TheStyle, "also") ELSE <<>>
<1> DEFINE E == RulesOf(TheStyle, "else")
           A == RulesOf(TheStyle, "also")
<1>1. E \in Seq(Nat) /\ A \in Seq(Nat)
  BY StyleInOrder
<1> HIDE DEF E, A
<1>2. E \o <<>> = E /\ <<>> \o A = A /\ <<>> \o <<>> = <<>>
  BY <1>1, ConcatEmptySeq, EmptySeq
<1> QED
  BY <1>2 DEF E, A

\* What follows the if rules is in its order, too.
LEMMA ElseAndAlsoMatch ==
    ASSUME MatchInv, ReadInv, LayersInv, QueriesInv, RulesInv, ElseAndAlso
    PROVE  MatchInv'
<1>1. /\ pc = "if" /\ pc' = "other" /\ InStyle /\ UNCHANGED <<map, open, style, flags>>
      /\ rules' = (IF flags.do_else THEN RulesOf(TheStyle, "else") ELSE <<>>)
                   \o (IF flags.do_also THEN RulesOf(TheStyle, "also") ELSE <<>>)
  BY Zenon DEF ElseAndAlso, Goto, InStyle
<1>2. TheStyle' = TheStyle
  BY <1>1, SameStyle
<1>3. ~flags.do_else \/ ~flags.do_also
  BY <1>1 DEF MatchInv
<1>4. rules' = IF flags.do_else THEN RulesOf(TheStyle, "else")
               ELSE IF flags.do_also THEN RulesOf(TheStyle, "also") ELSE <<>>
  BY <1>1, <1>3, WhatFollows
<1>5. CASE rules' = <<>>
  <2>1. \A k \in DOMAIN rules' : FALSE
    BY <1>5
  <2> QED
    BY <1>1, <2>1 DEF MatchInv
<1>6. ASSUME NEW kind \in {"else", "also"}, rules' = RulesOf(TheStyle, kind)
      PROVE  MatchInv'
  <2>1. /\ \A k \in DOMAIN rules' : rules'[k] \in RulesIn(TheStyle, kind)
        /\ \A i, j \in DOMAIN rules' : i < j => rules'[i] < rules'[j]
    BY <1>1, <1>6, StyleInOrder
  <2>2. \A k \in DOMAIN rules' : TheStyle.rules[rules'[k]].kind # "if"
    BY <1>6, <2>1 DEF RulesIn
  <2> QED
    BY <1>1, <1>2, <2>1, <2>2 DEF MatchInv
<1> QED
  BY <1>4, <1>5, <1>6

\* The else rules and the also rules are applied one after the other.
LEMMA OtherRuleMatch ==
    ASSUME MatchInv, RulesInv, OtherRule
    PROVE  MatchInv'
<1>1. /\ pc = "other" /\ UNCHANGED <<map, open, style>>
      /\ \/ pc' = "other" /\ rules # <<>> /\ rules' = Tail(rules)
         \/ pc' = "rows"
  BY Zenon DEF OtherRule, Goto
<1>2. CASE pc' = "rows"
  BY <1>2 DEF MatchInv
<1>3. CASE pc' = "other" /\ rules # <<>> /\ rules' = Tail(rules)
  <2>1. TheStyle' = TheStyle
    BY <1>1, SameStyle
  <2>2. /\ \A i, j \in DOMAIN rules : i < j => rules[i] < rules[j]
        /\ \A k \in DOMAIN rules : TheStyle.rules[rules[k]].kind # "if"
    BY <1>1 DEF MatchInv
  <2>3. /\ \A i, j \in DOMAIN rules' : i < j => rules'[i] < rules'[j]
        /\ \A k \in DOMAIN rules' : \E j \in DOMAIN rules : rules'[k] = rules[j]
    BY <1>3, <2>2, TailAscends DEF RulesInv
  <2>4. \A k \in DOMAIN rules' : TheStyle.rules[rules'[k]].kind # "if"
    BY <2>2, <2>3
  <2> QED
    BY <1>3, <2>1, <2>3, <2>4 DEF MatchInv
<1> QED
  BY <1>1, <1>2, <1>3

\* Every step keeps the rules in their order and passes over none that
\* matches.
LEMMA StepMatch ==
    MatchInv /\ RulesInv /\ ReadInv /\ LayersInv /\ QueriesInv /\ [Next]_vars => MatchInv'
<1> SUFFICES ASSUME MatchInv, RulesInv, ReadInv, LayersInv, QueriesInv, [Next]_vars
             PROVE  MatchInv'
  OBVIOUS
<1>1. CASE \/ StartMapProcessing \/ PrepareLayer \/ BeginRendering \/ OpenLayer
           \/ CloseLayer \/ EndMapProcessing \/ RenderMaterial \/ Fetch
           \/ EndPass \/ BeginStyle \/ Throws
  <2>1. pc' \notin {"if", "other"}
    BY <1>1 DEF StartMapProcessing, PrepareLayer, BeginRendering, OpenLayer,
       CloseLayer, EndMapProcessing, RenderMaterial, Fetch, EndPass, BeginStyle,
       Throws, Goto
  <2> QED
    BY <2>1 DEF MatchInv
<1>2. CASE NextRow
  <2>1. /\ InStyle /\ UNCHANGED <<map, open>>
        /\ pc' = "styles" \/ \E f : TakesRow(f)
    BY <1>2 DEF NextRow, InStyle, FinishesStyle, Goto
  <2>2. CASE pc' = "styles"
    BY <2>2 DEF MatchInv
  <2> QED
    BY <2>1, <2>2, TakesRowMatch
<1>3. CASE UNCHANGED vars
  <2>1. UNCHANGED <<map, open, style, pc, rules, flags, row>>
    BY <1>3 DEF vars
  <2>2. TheStyle' = TheStyle
    BY <2>1, SameStyle
  <2> QED
    BY <2>1, <2>2 DEF MatchInv, RulesIn
<1> QED
  BY <1>1, <1>2, <1>3, IfRuleMatch, ElseAndAlsoMatch, OtherRuleMatch DEF Next

-----------------------------------------------------------------------------
(* The painter's canvases *)

\* The painter reads the same map.
LEMMA PainterReads ==
    /\ \A l : Painter!ActiveStyles(l) = ActiveStyles(l)
    /\ \A l : Painter!Empty(l) <=> Empty(l)
    /\ \A l : Painter!LayerIsolated(l) <=> LayerIsolated(l)
    /\ \A s : Painter!StyleIsolated(s) <=> StyleIsolated(s)
    /\ \A s, f : Painter!Due(s, f) = Due(s, f)
    /\ \A who : Painter!Mark(who) = Mark(who)
    /\ \A what, who, content, ok :
          Painter!Item(what, who, content, ok) = Item(what, who, content, ok)
    /\ \A content, filters, who :
          Painter!WithFilters(content, filters, who) = WithFilters(content, filters, who)
    /\ \A n : Painter!Layer(n) = Layer(n)
    /\ Painter!Current = Current /\ Painter!TheLayer = TheLayer
<1>1. \A l : Painter!ActiveStyles(l) = ActiveStyles(l)
  <2> TAKE l
  <2>1. \A s : Painter!IsActive(l, s) <=> IsActive(l, s)
    BY DEF Painter!IsActive, IsActive, Painter!StyleActive, StyleActive
  <2> HIDE DEF IsActive
  <2>2. {k \in DOMAIN l.styles : Painter!IsActive(l, l.styles[k])}
        = {k \in DOMAIN l.styles : IsActive(l, l.styles[k])}
    BY <2>1
  <2>3. \A S : Painter!InOrder(S) = InOrder(S)
    BY Zenon DEF Painter!InOrder, InOrder, Painter!Cardinality, Cardinality
  <2> QED
    BY <2>2, <2>3, Zenon DEF Painter!ActiveStyles, ActiveStyles
<1>2. \A l : Painter!Empty(l) <=> Empty(l)
  BY <1>1 DEF Painter!Empty, Empty
<1>3. /\ \A l : Painter!LayerIsolated(l) <=> LayerIsolated(l)
      /\ \A s : Painter!StyleIsolated(s) <=> StyleIsolated(s)
  BY DEF Painter!LayerIsolated, LayerIsolated, Painter!StyleIsolated, StyleIsolated
<1>4. \A s, f : Painter!Due(s, f) = Due(s, f)
  BY DEF Painter!Due, Due, Painter!RulesIn, RulesIn
<1>5. \A what, who, content, ok :
         Painter!Item(what, who, content, ok) = Item(what, who, content, ok)
  BY DEF Painter!Item, Item, Painter!HasMark, HasMark
<1>6. /\ \A who : Painter!Mark(who) = Mark(who)
      /\ \A content, filters, who :
            Painter!WithFilters(content, filters, who) = WithFilters(content, filters, who)
  BY <1>5 DEF Painter!Mark, Mark, Painter!WithFilters, WithFilters
<1>7. \A n : Painter!Layer(n) = Layer(n)
  BY DEF Painter!Layer, Layer
<1>8. Painter!Current = Current /\ Painter!TheLayer = TheLayer
  BY <1>7 DEF Painter!Current, Current, Painter!TheLayer, TheLayer
<1> QED
  BY <1>1, <1>2, <1>3, <1>4, <1>5, <1>6, <1>7, <1>8

\* A list given entry by entry, which is a sequence.
IsList(c, n) == c = [d \in 1..n |-> c[d]]

\* Such a list has the length it is given with.
LEMMA ListOf ==
    ASSUME NEW c, NEW N \in Nat, IsList(c, N)
    PROVE  IsSequence(c) /\ Len(c) = N /\ DOMAIN c = 1..N
<1> DEFINE S == {c[d] : d \in DOMAIN c}
<1>1. DOMAIN c = 1..N
  BY DEF IsList
<1>2. c \in [1..N -> S]
  BY <1>1 DEF IsList
<1>3. c \in Seq(S)
  <2> HIDE DEF S
  <2> QED
    BY <1>2
<1>4. Len(c) = N
  <2> HIDE DEF S
  <2> QED
    BY <1>1, <1>3, LenProperties
<1> QED
  BY <1>1, <1>3, <1>4 DEF IsSequence

\* Another canvas on the stack.
LEMMA CanvasAdded ==
    ASSUME NEW N \in Nat, NEW c, IsList(c, N),
           NEW e, IsList(e, N + 1), \A d \in 1..N : e[d] = c[d]
    PROVE  e = Append(c, e[N + 1])
<1>1. IsSequence(c) /\ Len(c) = N
  BY ListOf
<1> DEFINE S == {c[d] : d \in DOMAIN c} \cup {e[N + 1]}
<1>2. c \in Seq(S) /\ e[N + 1] \in S
  <2>1. c \in Seq({c[d] : d \in DOMAIN c})
    BY <1>1 DEF IsSequence
  <2> QED
    BY <2>1, SeqMonotonic
<1> DEFINE a == Append(c, e[N + 1])
<1>3. /\ a \in Seq(S) /\ Len(a) = N + 1 /\ \A d \in 1..N : a[d] = c[d]
      /\ a[N + 1] = e[N + 1]
  BY <1>1, <1>2, AppendProperties
<1>4. e \in Seq(S) /\ Len(e) = N + 1
  <2>1. \A d \in 1..N + 1 : e[d] \in S
    <3> SUFFICES ASSUME NEW d \in 1..N + 1 PROVE e[d] \in S
      OBVIOUS
    <3>1. DOMAIN c = 1..N
      BY ListOf
    <3>2. d \in 1..N \/ d = N + 1
      OBVIOUS
    <3> QED
      BY <3>1, <3>2
  <2>2. e \in [1..N + 1 -> S]
    BY <2>1 DEF IsList
  <2> HIDE DEF S
  <2> QED
    BY <2>2
<1> HIDE DEF a, S
<1>5. \A d \in 1..Len(a) : a[d] = e[d]
  <2> SUFFICES ASSUME NEW d \in 1..Len(a) PROVE a[d] = e[d]
    OBVIOUS
  <2>1. d \in 1..N \/ d = N + 1
    BY <1>3
  <2> QED
    BY <1>3, <2>1
<1>6. a = e
  BY <1>3, <1>4, <1>5, SeqEqual
<1> QED
  BY <1>6 DEF a

\* The canvas on top is another.
LEMMA CanvasChanged ==
    ASSUME NEW N \in Nat \ {0}, NEW c, IsList(c, N),
           NEW e, IsList(e, N), \A d \in 1..N - 1 : e[d] = c[d]
    PROVE  e = Painter!OnTop(c, e[N]) /\ c[Len(c)] = c[N]
<1>1. Len(c) = N /\ DOMAIN c = 1..N
  BY ListOf
<1>2. \A d \in 1..N : d \in 1..N - 1 \/ d = N
  OBVIOUS
<1>3. e = [c EXCEPT ![N] = e[N]]
  BY <1>1, <1>2 DEF IsList
<1> QED
  BY <1>1, <1>3 DEF Painter!OnTop

\* The canvas on top is gone, and the one below is another.
LEMMA CanvasPutDown ==
    ASSUME NEW N \in Nat \ {0}, NEW c, IsList(c, N + 1),
           NEW e, IsList(e, N), \A d \in 1..N - 1 : e[d] = c[d]
    PROVE  LET rest == Painter!Without(c) IN
           /\ e = Painter!OnTop(rest, e[N])
           /\ rest[Len(rest)] = c[N] /\ c[Len(c)] = c[N + 1]
<1> DEFINE rest == Painter!Without(c)
<1>1. Len(c) = N + 1
  BY ListOf
<1>2. rest = [d \in 1..N |-> c[d]]
  BY <1>1 DEF Painter!Without
<1> HIDE DEF rest
<1>3. rest = [d \in 1..N |-> rest[d]] /\ \A d \in 1..N : rest[d] = c[d]
  BY <1>2
<1>4. e = Painter!OnTop(rest, e[N]) /\ rest[Len(rest)] = rest[N]
  <2>1. \A d \in 1..N - 1 : d \in 1..N
    OBVIOUS
  <2>2. \A d \in 1..N - 1 : e[d] = rest[d]
    BY <1>3, <2>1, Zenon
  <2>3. IsList(rest, N)
    BY <1>3 DEF IsList
  <2> QED
    BY <2>2, <2>3, CanvasChanged
<1> QED
  BY <1>1, <1>3, <1>4 DEF rest

\* The canvases of n internal buffers, top being drawn on.
Height(n, top) == n + (IF top = Inflated THEN 2 ELSE 1)
CanvasList(n, top, im) ==
    [d \in 1..Height(n, top) |-> im[IF d = n + 2 THEN Inflated ELSE d - 1].content]

Shows(c, n, top, im) ==
    /\ IsList(c, Height(n, top))
    /\ c[Height(n, top)] = im[top].content
    /\ \A d \in 1..n + 1 : c[d] = im[d - 1].content

\* The internal buffers, up to the n-th, show the same but for one of them.
Alike(im, im2, other, n) ==
    \A r \in 0..n : r # other => im2[r].content = im[r].content

\* The canvases as a list.
LEMMA ListedCanvases ==
    ASSUME NEW n \in Nat, NEW top \in {n, Inflated}, NEW im
    PROVE  Height(n, top) \in Nat \ {0} /\ Shows(CanvasList(n, top, im), n, top, im)
<1>1. /\ Height(n, top) \in Nat \ {0}
      /\ Height(n, top) = IF top = Inflated THEN n + 2 ELSE n + 1
  BY DEF Height, Inflated
<1>2. \A d \in 1..Height(n, top) :
         CanvasList(n, top, im)[d] = im[IF d = n + 2 THEN Inflated ELSE d - 1].content
  BY <1>1 DEF CanvasList
<1>3. IsList(CanvasList(n, top, im), Height(n, top))
  BY DEF IsList, CanvasList
<1>4. \A d \in 1..n + 1 : d \in 1..Height(n, top) /\ d # n + 2
  BY <1>1
<1>5. \A d \in 1..n + 1 : CanvasList(n, top, im)[d] = im[d - 1].content
  BY <1>2, <1>4
<1>6. CanvasList(n, top, im)[Height(n, top)] = im[top].content
  <2>1. Height(n, top) \in 1..Height(n, top)
    BY <1>1
  <2>2. CASE top = Inflated
    BY <1>1, <1>2, <2>1, <2>2
  <2>3. CASE top # Inflated
    <3>1. Height(n, top) = n + 1 /\ n + 1 - 1 = top /\ n + 1 \in 1..n + 1
      BY <1>1, <2>3
    <3> QED
      BY <1>5, <3>1
  <2> QED
    BY <2>2, <2>3
<1> QED
  BY <1>1, <1>3, <1>5, <1>6 DEF Shows

\* Pushing an internal buffer or the inflated one adds a canvas.
LEMMA PushedList ==
    ASSUME NEW n \in Nat, NEW im, NEW im2, NEW n2, NEW top2,
           (n2 = n /\ top2 = Inflated) \/ (n2 = n + 1 /\ top2 = n + 1),
           Alike(im, im2, top2, n)
    PROVE  CanvasList(n2, top2, im2) = Append(CanvasList(n, n, im), im2[top2].content)
<1> DEFINE c == CanvasList(n, n, im)
           e == CanvasList(n2, top2, im2)
<1>1. Height(n, n) = n + 1 /\ Height(n2, top2) = n + 2 /\ top2 \in {n2, Inflated}
      /\ n2 \in Nat /\ n \in {n, Inflated} /\ n + 1 \in Nat /\ n + 1 + 1 = n + 2
  BY DEF Height, Inflated
<1>2. /\ IsList(c, n + 1) /\ \A d \in 1..n + 1 : c[d] = im[d - 1].content
  <2>1. Shows(c, n, n, im)
    BY <1>1, ListedCanvases
  <2> QED
    BY <1>1, <2>1, Zenon DEF Shows
<1>3. /\ IsList(e, n + 2) /\ \A d \in 1..n2 + 1 : e[d] = im2[d - 1].content
      /\ e[n + 2] = im2[top2].content
  <2>1. Shows(e, n2, top2, im2)
    BY <1>1, ListedCanvases
  <2> QED
    BY <1>1, <2>1, Zenon DEF Shows
<1> HIDE DEF c, e
<1>4. \A d \in 1..n + 1 : d \in 1..n2 + 1 /\ d - 1 \in 0..n
  OBVIOUS
<1>5. \A d \in 1..n + 1 : e[d] = c[d]
  <2>1. \A r \in 0..n : im2[r].content = im[r].content
    BY DEF Alike, Inflated
  <2> QED
    BY <1>2, <1>3, <1>4, <2>1
<1>6. e = Append(c, e[n + 1 + 1])
  <2>1. IsList(e, n + 1 + 1)
    BY <1>1, <1>3
  <2> QED
    BY <1>1, <1>2, <1>5, <2>1, CanvasAdded
<1> QED
  BY <1>1, <1>3, <1>6 DEF c, e

\* Drawing changes the canvas on top.
LEMMA DrawnList ==
    ASSUME NEW n \in Nat, NEW top \in {n, Inflated}, NEW im, NEW im2,
           Alike(im, im2, top, n)
    PROVE  /\ CanvasList(n, top, im2)
                = Painter!OnTop(CanvasList(n, top, im), im2[top].content)
           /\ CanvasList(n, top, im)[Len(CanvasList(n, top, im))] = im[top].content
<1> DEFINE c == CanvasList(n, top, im)
           e == CanvasList(n, top, im2)
           h == Height(n, top)
<1>1. /\ h \in Nat \ {0} /\ IsList(c, h) /\ c[h] = im[top].content
      /\ \A d \in 1..n + 1 : c[d] = im[d - 1].content
  <2>1. h \in Nat \ {0} /\ Shows(c, n, top, im)
    BY ListedCanvases
  <2> QED
    BY <2>1, Zenon DEF Shows
<1>2. /\ IsList(e, h) /\ e[h] = im2[top].content
      /\ \A d \in 1..n + 1 : e[d] = im2[d - 1].content
  <2>1. Shows(e, n, top, im2)
    BY ListedCanvases
  <2> QED
    BY <2>1, Zenon DEF Shows
<1>3. \A d \in 1..h - 1 : d \in 1..n + 1 /\ d - 1 \in 0..n /\ d - 1 # top
  BY DEF Height, Inflated
<1> HIDE DEF c, e, h
<1>4. \A d \in 1..h - 1 : e[d] = c[d]
  BY <1>1, <1>2, <1>3 DEF Alike
<1>5. e = Painter!OnTop(c, e[h]) /\ c[Len(c)] = c[h]
  BY <1>1, <1>2, <1>4, CanvasChanged
<1> QED
  BY <1>1, <1>2, <1>5 DEF c, e, h

\* Popping the buffer that was drawn on for a style or a layer takes its canvas
\* away and changes the one below.
LEMMA PoppedList ==
    ASSUME NEW n \in Nat, NEW top \in {n, Inflated}, NEW im, NEW im2,
           NEW below \in Nat, top # below,
           n = IF top = Inflated THEN below ELSE below + 1,
           Alike(im, im2, below, below)
    PROVE  /\ CanvasList(below, below, im2)
                = Painter!OnTop(Painter!Without(CanvasList(n, top, im)), im2[below].content)
           /\ Painter!Without(CanvasList(n, top, im))
                [Len(Painter!Without(CanvasList(n, top, im)))] = im[below].content
           /\ CanvasList(n, top, im)[Len(CanvasList(n, top, im))] = im[top].content
<1> DEFINE c == CanvasList(n, top, im)
           e == CanvasList(below, below, im2)
           N == below + 1
<1>1. /\ Height(n, top) = N + 1 /\ Height(below, below) = N /\ N \in Nat \ {0}
      /\ below \in {below, Inflated} /\ N - 1 = below /\ N \in 1..n + 1 /\ N \in 1..N
  BY DEF Height, Inflated
<1>2. /\ IsList(c, N + 1) /\ c[N + 1] = im[top].content
      /\ \A d \in 1..n + 1 : c[d] = im[d - 1].content
  <2>1. Shows(c, n, top, im)
    BY ListedCanvases
  <2> QED
    BY <1>1, <2>1, Zenon DEF Shows
<1>3. /\ IsList(e, N) /\ e[N] = im2[below].content
      /\ \A d \in 1..N : e[d] = im2[d - 1].content
  <2>1. Shows(e, below, below, im2)
    BY <1>1, ListedCanvases
  <2> QED
    BY <1>1, <2>1, Zenon DEF Shows
<1>4. \A d \in 1..N - 1 : d \in 1..n + 1 /\ d - 1 \in 0..below - 1 /\ d \in 1..N
  BY DEF Inflated
<1> HIDE DEF c, e
<1>5. \A d \in 1..N - 1 : e[d] = c[d]
  <2>1. \A r \in 0..below - 1 : r \in 0..below /\ r # below
    OBVIOUS
  <2>2. \A r \in 0..below - 1 : im2[r].content = im[r].content
    BY <2>1 DEF Alike
  <2> QED
    BY <1>2, <1>3, <1>4, <2>2
<1>6. /\ e = Painter!OnTop(Painter!Without(c), e[N])
      /\ Painter!Without(c)[Len(Painter!Without(c))] = c[N] /\ c[Len(c)] = c[N + 1]
  <2> HIDE DEF N
  <2> QED
    BY <1>1, <1>2, <1>3, <1>5, CanvasPutDown
<1>7. c[N] = im[below].content
  BY <1>1, <1>2
<1> QED
  BY <1>2, <1>3, <1>6, <1>7 DEF c, e

-----------------------------------------------------------------------------
(* What a step does to the canvases *)

\* What filters and compositing leave on an image.
LEMMA FilteredContent ==
    ASSUME NEW image, NEW filters, NEW who, IsImage(image)
    PROVE  Filtered(image, filters, who).content = WithFilters(image.content, filters, who)
BY DEF IsImage, Filtered, WithFilters

IsPremultiplied(image) == IsImage(image) /\ image.premultiplied

Whole(what, who, content) == Item(what, who, content, TRUE)

\* What is composited is put on top of what is below, as a whole.
LEMMA CompositedContent ==
    ASSUME NEW below, NEW image, NEW what, NEW who,
           IsPremultiplied(below), IsPremultiplied(image)
    PROVE  Composited(below, image, what, who).content
              = Append(below.content, Whole(what, who, image.content))
<1>1. (below.premultiplied /\ image.premultiplied) = TRUE
  BY DEF IsPremultiplied
<1> DEFINE item == Item(what, who, image.content, below.premultiplied /\ image.premultiplied)
<1>2. item = Whole(what, who, image.content)
  BY <1>1 DEF Whole
<1> HIDE DEF item
<1>3. Composited(below, image, what, who)
         = [Drawn(below, item) EXCEPT !.painted = @ \/ image.painted]
  BY DEF Composited, item
<1>4. /\ Drawn(below, item).content = Append(below.content, item)
      /\ DOMAIN Drawn(below, item) = {"content", "painted", "premultiplied"}
  BY DEF Drawn, IsPremultiplied, IsImage
<1> HIDE DEF Drawn, Item
<1> QED
  BY <1>2, <1>3, <1>4

\* The painted flag says nothing of the content.
LEMMA PaintedContent ==
    ASSUME NEW image, NEW b, IsImage(image)
    PROVE  /\ IsImage([image EXCEPT !.painted = @ \/ b])
           /\ [image EXCEPT !.painted = @ \/ b].content = image.content
           /\ [image EXCEPT !.painted = @ \/ b].premultiplied = image.premultiplied
BY DEF IsImage

\* The canvases stand for the images.
LEMMA CanvasesNow ==
    /\ PainterCanvases = CanvasList(internals, Top, images)
    /\ PainterCanvases' = CanvasList(internals', Top', images')
BY DEF PainterCanvases, CanvasList, Height

\* Where the next symbolizer draws.
LEMMA TopNow ==
    ASSUME IInv, pc # "thrown"
    PROVE  /\ internals \in Nat /\ Top \in {internals, Inflated}
           /\ ~InStyle => Top = internals
<1>1. internals \in Nat /\ Len(open) \in Nat
  BY LenProperties DEF IInv, Shapes
<1>2. CASE InStyle
  BY <1>1, <1>2 DEF IInv, BuffersMatchLayers
<1>3. CASE ~InStyle
  <2>1. Len(buffers) = Len(open) + 1 /\ internals = buffers[Len(open) + 1]
    BY <1>1, <1>3 DEF IInv, BuffersMatchLayers
  <2> QED
    BY <1>1, <2>1 DEF Top
<1> QED
  BY <1>1, <1>2, <1>3

\* After a step to where no style is at hand.
LEMMA TopAfter ==
    ASSUME IInv', pc' # "thrown", ~InStyle'
    PROVE  internals' \in Nat /\ Top' = internals'
<1>1. internals' \in Nat /\ Len(open') \in Nat
  BY LenProperties DEF IInv, Shapes
<1>2. Len(buffers') = Len(open') + 1 /\ internals' = buffers'[Len(open') + 1]
  BY <1>1 DEF IInv, BuffersMatchLayers
<1> QED
  BY <1>1, <1>2 DEF Top

\* The reference pushed is drawn on.
LEMMA PushedTop ==
    ASSUME IInv, NEW r, buffers' = Append(buffers, r), r \in Int
    PROVE  Top' = r
<1>1. buffers \in Seq(Int)
  BY DEF IInv, Shapes
<1>2. Len(buffers') = Len(buffers) + 1 /\ buffers'[Len(buffers) + 1] = r
  BY <1>1, AppendProperties
<1> QED
  BY <1>2 DEF Top

\* A buffer pushed is a canvas opened, a reference pushed again is not.
LEMMA PushedCanvas ==
    ASSUME IInv, pc # "thrown", ~InStyle
    PROVE  /\ PushInternal => PainterCanvases' = Append(PainterCanvases, <<>>)
           /\ PushTop => PainterCanvases' = PainterCanvases
           /\ \A s : Inflate(s) => PainterCanvases' = Append(PainterCanvases, <<>>)
<1>1. internals \in Nat /\ Top = internals /\ internals + 1 \in Int /\ Top \in Int
  BY TopNow
<1>2. ASSUME PushInternal PROVE PainterCanvases' = Append(PainterCanvases, <<>>)
  <2>1. /\ internals' = internals + 1 /\ buffers' = Append(buffers, internals + 1)
        /\ images' = [r \in References(internals + 1) |->
                        IF r = internals + 1 THEN Blank ELSE images[r]]
    BY <1>2 DEF PushInternal
  <2>2. Top' = internals + 1
    BY <1>1, <2>1, PushedTop
  <2>3. /\ internals + 1 \in References(internals + 1)
        /\ \A r \in 0..internals : r \in References(internals + 1) /\ r # internals + 1
    BY <1>1 DEF References, Inflated
  <2>4. /\ images'[internals + 1] = Blank
        /\ \A r \in 0..internals : images'[r] = images[r]
    BY <2>1, <2>3
  <2>5. images'[internals + 1].content = <<>>
    BY <2>4 DEF Blank
  <2>6. CanvasList(internals + 1, internals + 1, images')
           = Append(CanvasList(internals, internals, images),
                    images'[internals + 1].content)
    <3>1. Alike(images, images', internals + 1, internals)
      BY <1>1, <2>4 DEF Alike
    <3> QED
      BY <1>1, <3>1, PushedList
  <2> QED
    BY <1>1, <2>1, <2>2, <2>5, <2>6, CanvasesNow
<1>3. ASSUME PushTop PROVE PainterCanvases' = PainterCanvases
  <2>1. Top' = Top /\ internals' = internals /\ images' = images
    BY <1>1, <1>3, PushedTop DEF PushTop
  <2> QED
    BY <2>1, CanvasesNow
<1>4. ASSUME NEW s, Inflate(s) PROVE PainterCanvases' = Append(PainterCanvases, <<>>)
  <2> DEFINE needed == Larger(offset, s.radius)
  <2>1. /\ internals' = internals /\ buffers' = Append(buffers, Inflated)
        /\ images' = [images EXCEPT ![Inflated] =
                         IF border < needed THEN Blank ELSE Transparent(images[Inflated])]
    BY <1>4 DEF Inflate
  <2> HIDE DEF needed
  <2>2. Top' = Inflated
    BY <2>1, PushedTop DEF Inflated
  <2>3. /\ Inflated \in References(internals) /\ DOMAIN images = References(internals)
        /\ IsImage(images[Inflated])
        /\ \A r \in 0..internals : r # Inflated
    BY <1>1 DEF References, Inflated, IInv, Shapes
  <2>4. Blank.content = <<>> /\ Transparent(images[Inflated]).content = <<>>
    BY <2>3 DEF Blank, Transparent, IsImage
  <2>5. /\ images'[Inflated].content = <<>>
        /\ \A r \in 0..internals : images'[r] = images[r]
    BY <2>1, <2>3, <2>4
  <2>6. CanvasList(internals, Inflated, images')
           = Append(CanvasList(internals, internals, images), images'[Inflated].content)
    <3>1. Alike(images, images', Inflated, internals)
      BY <1>1, <2>5 DEF Alike
    <3> QED
      BY <1>1, <3>1, PushedList
  <2> QED
    BY <1>1, <2>1, <2>2, <2>5, <2>6, CanvasesNow
<1> QED
  BY <1>2, <1>3, <1>4

\* A layer begun opens a canvas exactly when it is isolated.
LEMMA StartedLayer ==
    ASSUME IInv, pc # "thrown", ~InStyle, NEW l, StartLayer(l)
    PROVE  PainterCanvases' = Painter!Opened(LayerIsolated(l))
<1>1. \/ LayerIsolated(l) /\ PushInternal
      \/ ~LayerIsolated(l) /\ PushTop
  BY DEF StartLayer
<1> QED
  BY <1>1, PushedCanvas, Zenon DEF Painter!Opened

\* A style begun opens a canvas exactly when it is isolated.
LEMMA StartedStyle ==
    ASSUME IInv, pc # "thrown", ~InStyle, NEW s, StartStyle(s)
    PROVE  PainterCanvases' = Painter!Opened(StyleIsolated(s))
<1>1. \/ StyleIsolated(s) /\ (Inflate(s) \/ PushInternal)
      \/ ~StyleIsolated(s) /\ PushTop
  BY Zenon DEF StartStyle
<1> QED
  BY <1>1, PushedCanvas, Zenon DEF Painter!Opened

\* A symbolizer draws on the canvas on top.
LEMMA DrawnCanvas ==
    ASSUME IInv, IInv', pc # "thrown", NEW who, Process(who)
    PROVE  PainterCanvases' = Painter!OnTop(PainterCanvases,
              Append(PainterCanvases[Len(PainterCanvases)], Mark(who)))
<1>1. /\ internals \in Nat /\ Top \in {internals, Inflated}
  BY TopNow
<1>2. /\ internals' = internals /\ Top' = Top
      /\ images' = [images EXCEPT ![Top] = Drawn(images[Top], Mark(who))]
  BY DEF Process, Top
<1>3. /\ Top \in References(internals) /\ DOMAIN images = References(internals)
      /\ IsImage(images[Top]) /\ \A r \in 0..internals : r \in References(internals)
  BY <1>1 DEF References, Inflated, IInv, Shapes
<1>4. Drawn(images[Top], Mark(who)).content = Append(images[Top].content, Mark(who))
  BY <1>3 DEF Drawn, IsImage
<1>5. /\ images'[Top].content = Append(images[Top].content, Mark(who))
      /\ Alike(images, images', Top, internals)
  BY <1>2, <1>3, <1>4 DEF Alike
<1>6. /\ CanvasList(internals, Top, images')
            = Painter!OnTop(CanvasList(internals, Top, images), images'[Top].content)
      /\ CanvasList(internals, Top, images)[Len(CanvasList(internals, Top, images))]
            = images[Top].content
  BY <1>1, <1>5, DrawnList
<1> QED
  BY <1>2, <1>5, <1>6, CanvasesNow

\* An image apart is the one above that of what it is put down on, or is the
\* inflated one.
LEMMA TopApart ==
    ASSUME IInv, pc # "thrown", InStyle \/ open # <<>>
    PROVE  /\ Below \in Nat /\ Below \in References(internals) /\ Top \in References(internals)
           /\ InStyle => (Top # Below <=> StyleIsolated(TheStyle))
           /\ ~InStyle => (Top # Below <=> LayerIsolated(TheLayer))
           /\ internals = IF Top = Below \/ Top = Inflated THEN Below ELSE Below + 1
           /\ Top \in {internals, Inflated}
<1>1. /\ internals \in Nat /\ Len(open) \in Nat /\ buffers \in Seq(Int)
      /\ DOMAIN open = 1..Len(open) /\ DOMAIN buffers = 1..Len(buffers)
      /\ open = <<>> <=> Len(open) = 0
  BY LenProperties, EmptySeq DEF IInv, Shapes
<1>2. \A d \in 1..Len(open) + 1 : buffers[d] >= 0
  <2>1. Len(open) + 1 \in 1..Len(open) + 1 /\ \A d \in 1..Len(open) + 1 : d <= Len(open) + 1
    BY <1>1
  <2> QED
    BY <2>1 DEF IInv, Ascending
<1>3. Top \in {internals, Inflated} /\ (~InStyle => Top = internals)
  BY TopNow
<1>4. CASE InStyle
  <2>1. Len(buffers) = 1 + Len(open) + 1
    BY <1>4 DEF IInv, BuffersMatchLayers
  <2>2. Below = buffers[Len(open) + 1]
    BY <1>1, <2>1 DEF Below
  <2>3. Below \in Nat
    <3>1. Len(open) + 1 \in 1..Len(open) + 1 /\ Len(open) + 1 \in DOMAIN buffers
      BY <1>1, <2>1
    <3> QED
      BY <1>1, <1>2, <2>2, <3>1
  <2>4. /\ internals = IF StyleIsolated(TheStyle) /\ ~TheStyle.inflate THEN Below + 1
                       ELSE Below
        /\ Top = IF StyleIsolated(TheStyle) /\ TheStyle.inflate THEN Inflated
                 ELSE internals
    BY <1>4, <2>2 DEF IInv, BuffersMatchLayers
  <2> HIDE DEF StyleIsolated
  <2>5. Top # Below <=> StyleIsolated(TheStyle)
    BY <1>1, <2>3, <2>4 DEF Inflated
  <2>6. internals = IF Top = Below \/ Top = Inflated THEN Below ELSE Below + 1
    BY <1>1, <2>3, <2>4 DEF Inflated
  <2> QED
    BY <1>1, <1>3, <1>4, <2>3, <2>5, <2>6 DEF References, Inflated
<1>5. CASE ~InStyle
  <2>1. Len(open) \in DOMAIN open /\ Len(open) # 0
    BY <1>1, <1>5
  <2>2. Len(buffers) = Len(open) + 1 /\ Top = internals
    BY <1>1, <1>3, <1>5 DEF IInv, BuffersMatchLayers
  <2>3. Top = buffers[Len(open) + 1] /\ Below = buffers[Len(open)]
    BY <1>1, <2>2 DEF Top, Below
  <2>4. Below \in Nat
    <3>1. Len(open) \in 1..Len(open) + 1 /\ Len(open) \in DOMAIN buffers
      BY <1>1, <2>1, <2>2
    <3> QED
      BY <1>1, <1>2, <2>3, <3>1
  <2> HIDE DEF LayerIsolated
  <2>5. Top = IF LayerIsolated(TheLayer) THEN Below + 1 ELSE Below
    <3>1. buffers[Len(open) + 1] = IF LayerIsolated(Layer(open[Len(open)]))
                                   THEN buffers[Len(open)] + 1 ELSE buffers[Len(open)]
      BY <2>1 DEF IInv, BuffersMatchLayers
    <3> QED
      BY <2>3, <3>1 DEF TheLayer, Current
  <2>6. Top # Below <=> LayerIsolated(TheLayer)
    BY <2>4, <2>5
  <2>7. internals = IF Top = Below \/ Top = Inflated THEN Below ELSE Below + 1
    BY <1>1, <2>2, <2>4, <2>5 DEF Inflated
  <2> QED
    BY <1>1, <1>3, <1>5, <2>2, <2>4, <2>6, <2>7 DEF References, Inflated
<1> QED
  BY <1>4, <1>5

\* A buffer popped is a canvas put down if it was one of its own.
LEMMA PoppedCanvas ==
    ASSUME IInv, IInv', pc # "thrown", pc' # "thrown", ~InStyle',
           InStyle \/ open # <<>>, buffers' = Pop(buffers),
           Alike(images, images', Below, Below)
    PROVE  /\ PainterCanvases[Len(PainterCanvases)] = images[Top].content
           /\ Top = Below =>
                PainterCanvases' = Painter!OnTop(PainterCanvases, images'[Below].content)
           /\ Top # Below =>
                /\ PainterCanvases' = Painter!OnTop(Painter!Without(PainterCanvases),
                                                    images'[Below].content)
                /\ Painter!Without(PainterCanvases)[Len(Painter!Without(PainterCanvases))]
                      = images[Below].content
<1>1. internals' = Below /\ Top' = internals'
  BY TopAndBelow, TopAfter
<1>2. PainterCanvases' = CanvasList(Below, Below, images')
  BY <1>1, CanvasesNow
<1>3. /\ Below \in Nat /\ Top \in {internals, Inflated} /\ internals \in Nat
      /\ internals = IF Top = Below \/ Top = Inflated THEN Below ELSE Below + 1
  BY TopApart, TopNow
<1>4. PainterCanvases = CanvasList(internals, Top, images)
  BY CanvasesNow
<1>5. CASE Top = Below
  <2>1. internals = Below /\ Below \in {Below, Inflated}
    BY <1>3, <1>5
  <2>2. /\ CanvasList(Below, Below, images')
              = Painter!OnTop(CanvasList(Below, Below, images), images'[Below].content)
        /\ CanvasList(Below, Below, images)[Len(CanvasList(Below, Below, images))]
              = images[Below].content
    BY <1>3, <2>1, DrawnList
  <2> QED
    BY <1>2, <1>4, <1>5, <2>1, <2>2
<1>6. CASE Top # Below
  <2>1. internals = IF Top = Inflated THEN Below ELSE Below + 1
    BY <1>3, <1>6
  <2> DEFINE c == CanvasList(internals, Top, images)
  <2>2. /\ CanvasList(Below, Below, images')
              = Painter!OnTop(Painter!Without(c), images'[Below].content)
        /\ Painter!Without(c)[Len(Painter!Without(c))] = images[Below].content
        /\ c[Len(c)] = images[Top].content
    BY <1>3, <1>6, <2>1, PoppedList
  <2> HIDE DEF c
  <2>3. PainterCanvases = c
    BY <1>4 DEF c
  <2> QED
    BY <1>2, <1>6, <2>2, <2>3
<1> QED
  BY <1>5, <1>6

\* A layer ended puts its canvas down, if it has one.
LEMMA EndedLayer ==
    ASSUME IInv, IInv', CloseLayer
    PROVE  PainterCanvases' = Painter!Closed(LayerIsolated(TheLayer), "layer", <<Current>>,
                                             <<>>, TheLayer.direct)
<1>1. /\ pc = "layers" /\ pc' = "layers" /\ EndLayer(TheLayer, <<Current>>)
      /\ ~InStyle /\ ~InStyle' /\ open # <<>>
  BY Zenon DEF CloseLayer, InStyle
<1>2. buffers' = Pop(buffers)
  BY <1>1 DEF EndLayer
<1>3. /\ Below \in Nat /\ Below \in References(internals) /\ Top \in References(internals)
      /\ (Top # Below <=> LayerIsolated(TheLayer))
  BY <1>1, TopApart
<1>4. internals' = Below /\ Below \in References(internals')
  BY <1>1, <1>2, TopAndBelow
<1> DEFINE who == <<Current>>
           direct == TheLayer.direct
           below == IF Top = Below THEN images[Below]
                    ELSE Composited(images[Below], images[Top], "layer", who)
<1>5. images' = [r \in References(internals') |->
                   IF r = Below THEN Filtered(below, direct, who) ELSE images[r]]
  BY <1>1, Zenon DEF EndLayer
<1>6. /\ IsImage(images[Below]) /\ IsImage(images[Top])
      /\ images[Below].premultiplied /\ images[Top].premultiplied
  BY <1>1, <1>3 DEF IInv, Shapes, AllPremultiplied
<1>7. /\ IsImage(below)
      /\ below.content = IF Top = Below THEN images[Below].content
                         ELSE Append(images[Below].content,
                                     Whole("layer", who, images[Top].content))
  <2>1. CASE Top = Below
    BY <1>6, <2>1
  <2>2. CASE Top # Below
    <3> DEFINE put == Composited(images[Below], images[Top], "layer", who)
    <3>1. put.content = Append(images[Below].content,
                               Whole("layer", who, images[Top].content))
      <4>1. IsPremultiplied(images[Below]) /\ IsPremultiplied(images[Top])
        BY <1>6 DEF IsPremultiplied
      <4> QED
        BY <4>1, CompositedContent
    <3>2. IsImage(put)
      BY <1>6, CompositedKeeps
    <3>3. below = put
      BY <2>2
    <3> HIDE DEF put, below
    <3> QED
      BY <2>2, <3>1, <3>2, <3>3
  <2> QED
    BY <2>1, <2>2
<1> HIDE DEF below, who, direct
<1>8. images'[Below].content = WithFilters(below.content, direct, who)
  <2>1. images'[Below] = Filtered(below, direct, who)
    BY <1>4, <1>5
  <2> QED
    BY <1>7, <2>1, FilteredContent
<1>9. Alike(images, images', Below, Below)
  <2>1. \A r \in 0..Below : r \in References(internals')
    BY <1>3, <1>4 DEF References, Inflated
  <2> QED
    BY <1>5, <2>1 DEF Alike
<1>10. /\ PainterCanvases[Len(PainterCanvases)] = images[Top].content
       /\ Top = Below =>
            PainterCanvases' = Painter!OnTop(PainterCanvases, images'[Below].content)
       /\ Top # Below =>
            /\ PainterCanvases' = Painter!OnTop(Painter!Without(PainterCanvases),
                                                images'[Below].content)
            /\ Painter!Without(PainterCanvases)[Len(Painter!Without(PainterCanvases))]
                  = images[Below].content
  BY <1>1, <1>2, <1>9, PoppedCanvas
<1> DEFINE item == Whole("layer", who, images[Top].content)
<1>11. Painter!Closed(LayerIsolated(TheLayer), "layer", who, <<>>, direct)
         = IF LayerIsolated(TheLayer)
           THEN Painter!OnTop(Painter!Without(PainterCanvases),
                   WithFilters(Append(images[Below].content, item), direct, who))
           ELSE Painter!OnTop(PainterCanvases, WithFilters(images[Top].content, direct, who))
  <2>1. Painter!WithFilters(images[Top].content, <<>>, who) = images[Top].content
    BY DEF Painter!WithFilters
  <2>2. Painter!Item("layer", who, images[Top].content, TRUE) = item
    BY PainterReads DEF Whole
  <2> HIDE DEF item
  <2>3. CASE LayerIsolated(TheLayer)
    <3>1. Painter!Without(PainterCanvases)[Len(Painter!Without(PainterCanvases))]
             = images[Below].content
      BY <1>3, <1>10, <2>3
    <3>2. Painter!WithFilters(Append(images[Below].content, item), direct, who)
             = WithFilters(Append(images[Below].content, item), direct, who)
      BY PainterReads, Zenon
    <3> QED
      BY <1>10, <2>1, <2>2, <2>3, <3>1, <3>2, Zenon DEF Painter!Closed
  <2>4. CASE ~LayerIsolated(TheLayer)
    <3>1. Painter!WithFilters(images[Top].content, direct, who)
             = WithFilters(images[Top].content, direct, who)
      BY PainterReads, Zenon
    <3> QED
      BY <1>10, <2>4, <3>1, Zenon DEF Painter!Closed
  <2> QED
    BY <2>3, <2>4
<1>12. CASE Top = Below
  BY <1>3, <1>7, <1>8, <1>10, <1>11, <1>12, Zenon DEF who, direct
<1>13. CASE Top # Below
  BY <1>3, <1>7, <1>8, <1>10, <1>11, <1>13, Zenon DEF who, direct
<1> QED
  BY <1>12, <1>13

\* A style ended filters its canvas and puts it down, if it has one.
LEMMA EndedStyle ==
    ASSUME IInv, IInv', pc = "rows", FinishesStyle
    PROVE  PainterCanvases' = Painter!Closed(StyleIsolated(TheStyle), "style",
                                 <<Current, StyleNumber>>, TheStyle.filters, TheStyle.direct)
<1> DEFINE who == <<Current, StyleNumber>>
           filters == TheStyle.filters
           direct == TheStyle.direct
           painted == [images[Top] EXCEPT !.painted = @ \/ flags.was_painted]
           image == IF Top = Below THEN painted ELSE Filtered(painted, filters, who)
           below == IF Top = Below THEN painted
                    ELSE Composited(images[Below], image, "style", who)
<1>1. /\ pc' = "styles" /\ EndStyle(TheStyle, who, flags.was_painted)
      /\ InStyle /\ ~InStyle'
  BY DEF FinishesStyle, Goto, InStyle
<1>2. /\ buffers' = Pop(buffers)
      /\ images' = [r \in References(internals') |->
                      CASE r = Below -> Filtered(below, direct, who)
                        [] r = Top /\ r # Below -> image
                        [] OTHER -> images[r]]
  BY <1>1, Zenon DEF EndStyle
<1>3. /\ Below \in Nat /\ Below \in References(internals) /\ Top \in References(internals)
      /\ (Top # Below <=> StyleIsolated(TheStyle))
      /\ internals = IF Top = Below \/ Top = Inflated THEN Below ELSE Below + 1
      /\ Top \in {internals, Inflated}
  BY <1>1, TopApart
<1>4. internals' = Below /\ Below \in References(internals')
  BY <1>1, <1>2, TopAndBelow
<1>5. /\ IsImage(images[Below]) /\ IsImage(images[Top])
      /\ images[Below].premultiplied /\ images[Top].premultiplied
  BY <1>1, <1>3 DEF IInv, Shapes, AllPremultiplied
<1>6. IsImage(painted) /\ painted.content = images[Top].content /\ painted.premultiplied
  BY <1>5, PaintedContent
<1> HIDE DEF painted, who, filters, direct
<1>7. Top # Below =>
         /\ IsImage(image) /\ image.premultiplied
         /\ image.content = WithFilters(images[Top].content, filters, who)
  <2> SUFFICES ASSUME Top # Below
               PROVE  /\ IsImage(image) /\ image.premultiplied
                      /\ image.content = WithFilters(images[Top].content, filters, who)
    OBVIOUS
  <2> DEFINE filtered == Filtered(painted, filters, who)
  <2>1. IsImage(filtered) /\ filtered.premultiplied
    BY <1>6, FilteredKeeps
  <2>2. filtered.content = WithFilters(painted.content, filters, who)
    BY <1>6, FilteredContent
  <2>3. image = filtered
    OBVIOUS
  <2> HIDE DEF filtered, image
  <2> QED
    BY <1>6, <2>1, <2>2, <2>3
<1> DEFINE item == Whole("style", who, WithFilters(images[Top].content, filters, who))
<1>8. /\ IsImage(below)
      /\ below.content = IF Top = Below THEN images[Top].content
                         ELSE Append(images[Below].content, item)
  <2> HIDE DEF image
  <2>1. CASE Top = Below
    BY <1>6, <2>1
  <2>2. CASE Top # Below
    <3> DEFINE put == Composited(images[Below], image, "style", who)
    <3>1. put.content = Append(images[Below].content,
                               Whole("style", who, image.content))
      <4>1. IsPremultiplied(images[Below]) /\ IsPremultiplied(image)
        BY <1>5, <1>7, <2>2 DEF IsPremultiplied
      <4> QED
        BY <4>1, CompositedContent
    <3>2. IsImage(put)
      BY <1>5, CompositedKeeps
    <3>3. below = put
      BY <2>2
    <3>4. Whole("style", who, image.content) = item
      BY <1>7, <2>2
    <3> HIDE DEF put, below, item
    <3> QED
      BY <2>2, <3>1, <3>2, <3>3, <3>4
  <2> QED
    BY <2>1, <2>2
<1> HIDE DEF below, image
<1>9. images'[Below].content = WithFilters(below.content, direct, who)
  <2>1. images'[Below] = Filtered(below, direct, who)
    BY <1>2, <1>4
  <2> QED
    BY <1>8, <2>1, FilteredContent
<1>10. Alike(images, images', Below, Below)
  <2>1. \A r \in 0..Below : r \in References(internals') /\ r # Inflated
    BY <1>3, <1>4 DEF References, Inflated
  <2>2. \A r \in 0..Below : r # Below => r # Top
    BY <1>3, <2>1
  <2>3. \A r \in 0..Below : r # Below => images'[r] = images[r]
    BY <1>2, <2>1, <2>2
  <2> QED
    BY <2>3 DEF Alike
<1>11. /\ PainterCanvases[Len(PainterCanvases)] = images[Top].content
       /\ Top = Below =>
            PainterCanvases' = Painter!OnTop(PainterCanvases, images'[Below].content)
       /\ Top # Below =>
            /\ PainterCanvases' = Painter!OnTop(Painter!Without(PainterCanvases),
                                                images'[Below].content)
            /\ Painter!Without(PainterCanvases)[Len(Painter!Without(PainterCanvases))]
                  = images[Below].content
  BY <1>1, <1>2, <1>10, PoppedCanvas
<1> HIDE DEF item
<1>12. Painter!Closed(StyleIsolated(TheStyle), "style", who, filters, direct)
         = IF StyleIsolated(TheStyle)
           THEN Painter!OnTop(Painter!Without(PainterCanvases),
                   WithFilters(Append(images[Below].content, item), direct, who))
           ELSE Painter!OnTop(PainterCanvases, WithFilters(images[Top].content, direct, who))
  <2>1. Painter!Item("style", who, Painter!WithFilters(images[Top].content, filters, who), TRUE)
           = item
    <3>1. Painter!WithFilters(images[Top].content, filters, who)
             = WithFilters(images[Top].content, filters, who)
      BY PainterReads, Zenon
    <3> QED
      BY <3>1, PainterReads DEF item, Whole
  <2>2. CASE StyleIsolated(TheStyle)
    <3>1. Painter!Without(PainterCanvases)[Len(Painter!Without(PainterCanvases))]
             = images[Below].content
      BY <1>3, <1>11, <2>2
    <3>2. Painter!WithFilters(Append(images[Below].content, item), direct, who)
             = WithFilters(Append(images[Below].content, item), direct, who)
      BY PainterReads, Zenon
    <3> QED
      BY <1>11, <2>1, <2>2, <3>1, <3>2, Zenon DEF Painter!Closed
  <2>3. CASE ~StyleIsolated(TheStyle)
    <3>1. Painter!WithFilters(images[Top].content, direct, who)
             = WithFilters(images[Top].content, direct, who)
      BY PainterReads, Zenon
    <3> QED
      BY <1>11, <2>3, <3>1, Zenon DEF Painter!Closed
  <2> QED
    BY <2>2, <2>3
<1>13. CASE Top = Below
  BY <1>3, <1>8, <1>9, <1>11, <1>12, <1>13, Zenon DEF who, filters, direct
<1>14. CASE Top # Below
  BY <1>3, <1>8, <1>9, <1>11, <1>12, <1>14, Zenon DEF who, filters, direct
<1> QED
  BY <1>13, <1>14

-----------------------------------------------------------------------------
(* The painter's work on the layers *)

\* Between the layers, and before and after, the painter is idle.
Between == {"start", "prepare", "layers", "material", "done", "thrown"}

\* Between the styles of a layer and those of the next nothing is at hand.
LEMMA IdleBetween ==
    /\ pc \in Between =>
          PainterFrom = 1 /\ PainterStyle = 1 /\ PainterFeature = 0 /\ PainterDue = {}
    /\ pc' \in Between =>
          PainterFrom' = 1 /\ PainterStyle' = 1 /\ PainterFeature' = 0 /\ PainterDue' = {}
<1> USE DEF Between, InStyle
<1>1. pc \in Between => PainterFrom = 1 /\ PainterStyle = 1
  BY DEF PainterFrom, PainterStyle
<1>2. pc' \in Between => PainterFrom' = 1 /\ PainterStyle' = 1
  BY DEF PainterFrom, PainterStyle
<1>3. pc \in Between => PainterFeature = 0
  BY <1>1 DEF PainterFeature
<1>4. pc' \in Between => PainterFeature' = 0
  BY <1>2 DEF PainterFeature
<1>5. (pc \in Between => PainterDue = {}) /\ (pc' \in Between => PainterDue' = {})
  BY DEF PainterDue
<1> QED
  BY <1>1, <1>2, <1>3, <1>4, <1>5

\* The rendering starts as the painter does.
LEMMA InitPainter == Init => Painter!Init
<1> SUFFICES ASSUME Init PROVE Painter!Init
  OBVIOUS
<1>1. /\ map \in Maps /\ pc = "start" /\ open = <<>> /\ InitBuffers
  BY DEF Init
<1>2. PainterCanvases = <<<<>>>>
  <2>1. Top = 0 /\ internals = 0 /\ 0 \in References(0)
    BY <1>1 DEF InitBuffers, Top, Pixmap, References, Inflated
  <2>2. images[0] = [Blank EXCEPT !.premultiplied = 0 = Inflated]
    BY <1>1, <2>1 DEF InitBuffers
  <2>3. images[0].content = <<>>
    BY <2>2 DEF Blank
  <2>4. PainterCanvases = [d \in 1..1 |-> images[d - 1].content]
    BY <2>1 DEF PainterCanvases, Inflated
  <2>5. PainterCanvases = [d \in 1..1 |-> <<>>]
    BY <2>3, <2>4
  <2> QED
    BY <2>5
<1>3. PainterBegun = {} /\ PainterPhase = "layers"
  BY <1>1 DEF PainterBegun, PainterPhase
<1>4. Painter!Idle
  BY <1>1, IdleBetween DEF Between, Painter!Idle
<1> QED
  BY <1>1, <1>2, <1>3, <1>4 DEF Painter!Init

\* Marking an image as premultiplied is not seen.
LEMMA SameCanvases ==
    ASSUME IInv, pc # "thrown", UNCHANGED <<buffers, internals>>,
           NEW b, images' = [images EXCEPT ![Top].premultiplied = b]
    PROVE  PainterCanvases' = PainterCanvases
<1>1. /\ internals \in Nat /\ Top \in {internals, Inflated}
      /\ DOMAIN images = References(internals) /\ Top' = Top
      /\ Top \in References(internals) /\ IsImage(images[Top])
  <2>1. internals \in Nat /\ Top \in {internals, Inflated} /\ DOMAIN images = References(internals)
    BY TopNow DEF IInv, Shapes
  <2>2. Top \in References(internals)
    BY <2>1 DEF References, Inflated
  <2> QED
    BY <2>1, <2>2 DEF IInv, Shapes, Top
<1>2. \A r \in References(internals) : images'[r].content = images[r].content
  <2>1. images' = [images EXCEPT ![Top] = [images[Top] EXCEPT !.premultiplied = b]]
    OBVIOUS
  <2>2. [images[Top] EXCEPT !.premultiplied = b].content = images[Top].content
    BY <1>1 DEF IsImage
  <2> QED
    BY <1>1, <2>1, <2>2
<1> DEFINE at(d) == IF d = internals + 2 THEN Inflated ELSE d - 1
<1>3. \A d \in 1..Height(internals, Top) : at(d) \in References(internals)
  BY <1>1 DEF Height, References, Inflated
<1>4. \A d \in 1..Height(internals, Top) : images'[at(d)].content = images[at(d)].content
  BY <1>2, <1>3
<1>5. CanvasList(internals, Top, images') = CanvasList(internals, Top, images)
  BY <1>4 DEF CanvasList
<1> QED
  BY <1>1, <1>5, CanvasesNow

\* The layers the painter sees following are those still to be rendered.
LEMMA FollowingTodo ==
    ASSUME LayersInv, AllPrepared, pc = "layers"
    PROVE  Painter!Following
              = {n \in todo : Layer(n).parent = IF open = <<>> THEN 0 ELSE Current}
<1> DEFINE parent == IF open = <<>> THEN 0 ELSE Current
<1>1. /\ prep = Len(map.layers) /\ stored \subseteq 1..prep /\ todo \subseteq stored
      /\ DOMAIN map.layers = 1..prep /\ Len(map.layers) \in Nat
      /\ \A n \in 1..prep : n \in stored <=> Reached(n) /\ ~Empty(Layer(n))
  BY DocumentOrder DEF LayersInv, AllPrepared
<1>2. Painter!Following
         = {n \in (1..prep) \ PainterBegun :
              Layer(n).visible /\ ~Empty(Layer(n)) /\ Layer(n).parent = parent}
  <2>1. /\ \A n : Painter!Layer(n) = Layer(n)
        /\ \A l : Painter!Empty(l) <=> Empty(l)
        /\ Painter!Current = Current
    BY PainterReads
  <2> HIDE DEF Empty
  <2> QED
    BY <1>1, <2>1 DEF Painter!Following
<1> HIDE DEF Empty
<1>3. CASE Unrendered
  <2>1. todo = {} /\ open = <<>> /\ parent = 0
    BY <1>3 DEF LayersInv
  <2>2. map.single /\ 1 \notin stored /\ map \in Maps
    BY <1>3 DEF Unrendered, LayersInv
  <2>3. ASSUME NEW n \in 1..prep, Layer(n).visible, ~Empty(Layer(n)), Layer(n).parent = 0
        PROVE  FALSE
    <3>1. n \in DOMAIN map.layers
      BY <1>1
    <3>2. n # 1 => map.layers[n].parent # 0
      BY <2>2, <3>1, MapsAssumption
    <3>3. n = 1
      BY <2>3, <3>2 DEF Layer
    <3> QED
      BY <1>1, <2>2, <2>3, <3>3 DEF Reached
  <2> QED
    BY <1>2, <2>1, <2>3
<1>4. CASE ~Unrendered
  <2>1. PainterBegun = stored \ todo
    BY <1>4 DEF PainterBegun
  <2>2. open # <<>> => Current \in stored
    BY AtLayer
  <2>3. ASSUME NEW n \in 1..prep, n \notin PainterBegun, Layer(n).visible,
               ~Empty(Layer(n)), Layer(n).parent = parent
        PROVE  n \in todo
    <3>1. Reached(n)
      BY <2>2, <2>3 DEF Reached
    <3> QED
      BY <1>1, <2>1, <2>3, <3>1
  <2>4. ASSUME NEW n \in todo
        PROVE  n \in 1..prep /\ n \notin PainterBegun /\ Layer(n).visible /\ ~Empty(Layer(n))
    BY <1>1, <2>1, <2>4 DEF Reached
  <2> HIDE DEF parent
  <2>5. Painter!Following = {n \in todo : Layer(n).parent = parent}
    BY <1>2, <2>3, <2>4
  <2> QED
    BY <2>5 DEF parent
<1> QED
  BY <1>3, <1>4

\* A layer is opened in its turn.
LEMMA OpenLayerPainted ==
    ASSUME IInv, LayersInv, AllPrepared, OpenLayer
    PROVE  Painter!BeginLayer
<1> PICK n \in Nested : /\ StartLayer(Layer(n))
                        /\ open' = Append(open, n)
                        /\ todo' = todo \ {n}
  BY Zenon DEF OpenLayer
<1>1. /\ pc = "layers" /\ pc' = "material" /\ UNCHANGED <<map, stored>> /\ ~InStyle
  BY Zenon DEF OpenLayer, Goto, InStyle
<1>2. /\ n \in todo /\ (\A m \in todo : n <= m)
      /\ Layer(n).parent = IF open = <<>> THEN 0 ELSE Current
  BY DEF Nested
<1>3. n \in Painter!Following /\ \A m \in Painter!Following : n <= m
  BY <1>1, <1>2, FollowingTodo
<1>4. PainterCanvases' = Painter!Opened(Painter!LayerIsolated(Painter!Layer(n)))
  <2>1. PainterCanvases' = Painter!Opened(LayerIsolated(Layer(n)))
    BY <1>1, StartedLayer
  <2>2. Painter!Layer(n) = Layer(n) /\ Painter!LayerIsolated(Layer(n)) = LayerIsolated(Layer(n))
    <3>1. Painter!Layer(n) = Layer(n)
      BY PainterReads
    <3> QED
      BY <3>1 DEF Painter!LayerIsolated, LayerIsolated
  <2> QED
    BY <2>1, <2>2
<1>5. PainterBegun' = PainterBegun \cup {n}
  <2>1. ~Unrendered /\ todo \subseteq stored
    BY <1>2 DEF LayersInv
  <2>2. PainterBegun = stored \ todo
    BY <1>1, <2>1 DEF PainterBegun
  <2>3. PainterBegun' = stored \ todo'
    BY <1>1, <2>1 DEF PainterBegun, Unrendered
  <2> QED
    BY <1>2, <2>1, <2>2, <2>3
<1>6. PainterPhase = "layers" /\ PainterPhase' = "styles"
  BY <1>1 DEF PainterPhase
<1>7. UNCHANGED <<map, PainterFrom, PainterStyle, PainterFeature, PainterDue>>
  BY <1>1, IdleBetween DEF Between
<1> QED
  BY <1>3, <1>4, <1>5, <1>6, <1>7, Zenon DEF Painter!BeginLayer

\* A layer is closed when all that is nested in it is painted.
LEMMA CloseLayerPainted ==
    ASSUME IInv, IInv', LayersInv, AllPrepared, CloseLayer
    PROVE  Painter!EndLayer
<1>1. /\ pc = "layers" /\ pc' = "layers" /\ UNCHANGED <<map, stored, todo>>
      /\ open # <<>> /\ Nested = {} /\ open' = Pop(open)
  BY Zenon DEF CloseLayer
<1>2. Painter!Following = {}
  BY <1>1, FollowingTodo, NothingLeftOut
<1>3. PainterCanvases' = Painter!Closed(Painter!LayerIsolated(Painter!TheLayer), "layer",
                            <<Painter!Current>>, <<>>, Painter!TheLayer.direct)
  <2>1. Painter!TheLayer = TheLayer /\ Painter!Current = Current
    BY PainterReads
  <2>2. Painter!LayerIsolated(TheLayer) = LayerIsolated(TheLayer)
    BY DEF Painter!LayerIsolated, LayerIsolated
  <2>3. PainterCanvases' = Painter!Closed(LayerIsolated(TheLayer), "layer", <<Current>>,
                                          <<>>, TheLayer.direct)
    BY EndedLayer
  <2> QED
    BY <2>1, <2>2, <2>3
<1>4. open' = Painter!Without(open)
  BY <1>1 DEF Pop, Painter!Without
<1>5. PainterPhase = "layers" /\ PainterPhase' = "layers" /\ PainterBegun' = PainterBegun
  BY <1>1 DEF PainterPhase, PainterBegun, Unrendered
<1>6. UNCHANGED <<PainterFrom, PainterStyle, PainterFeature, PainterDue>>
  BY <1>1, IdleBetween DEF Between
<1> QED
  BY <1>1, <1>2, <1>3, <1>4, <1>5, <1>6, Zenon DEF Painter!EndLayer

\* The map is done when no layer is left to paint.
LEMMA EndMapPainted ==
    ASSUME IInv, LayersInv, AllPrepared, EndMapProcessing
    PROVE  Painter!Finish
<1>1. /\ pc = "layers" /\ pc' = "done" /\ UNCHANGED <<map, stored, todo, open>>
      /\ open = <<>> /\ Nested = {} /\ EndMap
  BY Zenon DEF EndMapProcessing, Goto
<1>2. Painter!Following = {}
  BY <1>1, FollowingTodo, NothingLeftOut
<1>3. PainterCanvases' = PainterCanvases
  BY <1>1, SameCanvases DEF EndMap
<1>4. PainterPhase = "layers" /\ PainterPhase' = "done" /\ PainterBegun' = PainterBegun
  BY <1>1 DEF PainterPhase, PainterBegun, Unrendered
<1>5. UNCHANGED <<PainterFrom, PainterStyle, PainterFeature, PainterDue>>
  BY <1>1, IdleBetween DEF Between
<1> QED
  BY <1>1, <1>2, <1>3, <1>4, <1>5, Zenon DEF Painter!Finish

-----------------------------------------------------------------------------
(* The painter's work on a layer *)

\* Steps that draw nothing leave the canvases.
LEMMA CanvasesKept ==
    ASSUME UNCHANGED aggVars
    PROVE  PainterCanvases' = PainterCanvases
BY DEF aggVars, PainterCanvases, Top

\* Steps within a layer begin no other.
LEMMA BegunKept ==
    ASSUME UNCHANGED <<map, stored, todo>>,
           pc \notin {"start", "prepare"}, pc' \notin {"start", "prepare"}
    PROVE  PainterBegun' = PainterBegun
BY DEF PainterBegun, Unrendered

\* The preparing of the layers is none of the painter's business.
LEMMA PreparingUnseen ==
    ASSUME IInv, LayersInv, StartMapProcessing \/ PrepareLayer \/ BeginRendering
    PROVE  UNCHANGED Painter!vars
<1>1. /\ pc \in {"start", "prepare"} /\ pc' \in {"prepare", "layers"}
      /\ UNCHANGED <<map, open>>
  BY DEF StartMapProcessing, PrepareLayer, BeginRendering, Goto
<1>2. PainterCanvases' = PainterCanvases
  <2>1. CASE StartMapProcessing
    <3>1. pc = "start" /\ StartMap
      BY <2>1, Zenon DEF StartMapProcessing
    <3> QED
      BY <3>1, SameCanvases DEF StartMap
  <2>2. CASE PrepareLayer \/ BeginRendering
    <3>1. UNCHANGED aggVars
      BY <2>2, Zenon DEF PrepareLayer, BeginRendering
    <3> QED
      BY <3>1, CanvasesKept
  <2> QED
    BY <2>1, <2>2
<1>3. PainterBegun = {} /\ PainterBegun' = {}
  <2>1. PainterBegun = {} /\ (pc' = "prepare" => PainterBegun' = {})
    BY <1>1 DEF PainterBegun
  <2>2. CASE BeginRendering
    <3>1. /\ UNCHANGED <<map, stored>> /\ pc' = "layers"
          /\ todo' = IF Unrendered THEN {} ELSE stored
      BY <2>2 DEF BeginRendering, Goto
    <3>2. Unrendered' = Unrendered
      BY <3>1 DEF Unrendered
    <3>3. ~Unrendered => stored' \ todo' = {}
      BY <3>1
    <3> QED
      BY <2>1, <3>1, <3>2, <3>3 DEF PainterBegun
  <2>3. CASE StartMapProcessing \/ PrepareLayer
    <3>1. pc' = "prepare"
      BY <2>3 DEF StartMapProcessing, PrepareLayer, Goto
    <3> QED
      BY <2>1, <3>1
  <2> QED
    BY <2>2, <2>3
<1>4. PainterPhase = "layers" /\ PainterPhase' = "layers"
  BY <1>1 DEF PainterPhase
<1>5. UNCHANGED <<PainterFrom, PainterStyle, PainterFeature, PainterDue>>
  BY <1>1, IdleBetween DEF Between
<1> QED
  BY <1>1, <1>2, <1>3, <1>4, <1>5, Zenon DEF Painter!vars

\* An exception leaves what was painted.
LEMMA ThrowPainted ==
    ASSUME Throws
    PROVE  Painter!GiveUp
<1>1. /\ pc \in {"fetch", "rows", "if", "other"} /\ pc' = "thrown"
      /\ UNCHANGED <<map, stored, todo, open, aggVars>>
  BY Zenon DEF Throws, Goto
<1>2. PainterCanvases' = PainterCanvases /\ PainterBegun' = PainterBegun
  BY <1>1, CanvasesKept, BegunKept
<1>3. PainterPhase \in {"styles", "features"} /\ PainterPhase' = "given up"
  BY <1>1 DEF PainterPhase
<1>4. PainterFrom' = 1 /\ PainterStyle' = 1 /\ PainterFeature' = 0 /\ PainterDue' = {}
  BY <1>1, IdleBetween DEF Between
<1> QED
  BY <1>1, <1>2, <1>3, <1>4, Zenon DEF Painter!GiveUp

\* How many features the painter counts, on each of the ways they are read.
LEMMA FeaturesCounted ==
    ASSUME LayersInv, QueriesInv, AllPrepared, Reading
    PROVE  /\ Half => /\ Painter!Count(TheLayer) = Len(TheLayer.rows)
                      /\ Len(ActiveStyles(TheLayer)) # 0
           /\ Source(TheLayer) = "query" => /\ Painter!Count(TheLayer) = Len(TheLayer.rows)
                                            /\ Len(ActiveStyles(TheLayer)) # 0
                                            /\ ~Grouped(TheLayer)
           /\ ~Half /\ Source(TheLayer) # "query" => Painter!Count(TheLayer) = 0
<1>1. open # <<>> /\ ~Empty(TheLayer) /\ IsSequence(TheLayer.styles)
  BY LayerToPaint, AtLayer DEF LayersInv
<1>2. ~TheLayer.datasource => ActiveStyles(TheLayer) = <<>>
  BY <1>1, ActiveStylesCount
<1>3. Len(ActiveStyles(TheLayer)) \in Nat
  BY <1>1, ActiveStylesCount
<1>4. Len(ActiveStyles(TheLayer)) = 0 => ActiveStyles(TheLayer) = <<>>
  BY <1>1, ActiveStylesCount
<1> HIDE DEF ActiveStyles
<1>5. CASE Source(TheLayer) \in {"buffer", "query"}
  <2>1. TheLayer.extent = "inside" /\ ActiveStyles(TheLayer) # <<>>
    BY <1>5 DEF Source, Featuresets
  <2>2. Source(TheLayer) = "query" => ~Grouped(TheLayer) /\ ~TheLayer.null
    BY DEF Source
  <2> QED
    BY <1>2, <1>4, <1>5, <2>1, <2>2 DEF Half, Painter!Count
<1>6. CASE Source(TheLayer) = "none"
  <2>1. Painter!Count(TheLayer) = 0
    <3>1. CASE TheLayer.null \/ TheLayer.extent # "inside" \/ ~TheLayer.datasource
      BY <3>1 DEF Painter!Count
    <3>2. CASE ~TheLayer.null /\ TheLayer.extent = "inside" /\ TheLayer.datasource
      <4>1. ActiveStyles(TheLayer) # <<>>
        BY <1>1, <3>2 DEF Empty
      <4>2. Featuresets(TheLayer) # 0
        BY <1>3, <1>4, <3>2, <4>1 DEF Featuresets
      <4> QED
        BY <1>6, <3>2, <4>2 DEF Source
    <3> QED
      BY <3>1, <3>2
  <2> QED
    BY <1>6, <2>1 DEF Half
<1> QED
  BY <1>5, <1>6 DEF Source

\* A layer that has nothing to read features from is left, as the painter
\* leaves it.
LEMMA RenderMaterialPainted ==
    ASSUME LayersInv, QueriesInv, AllPrepared, RenderMaterial
    PROVE  Painter!LeaveStyles \/ UNCHANGED Painter!vars
<1>1. /\ pc = "material" /\ style' = 1 /\ buffer' = NoBuffer
      /\ UNCHANGED <<map, stored, todo, open, aggVars>>
      /\ pc' = IF ~TheLayer.datasource THEN "layers"
               ELSE IF Source(TheLayer) # "buffer" THEN "styles"
               ELSE IF ~TheLayer.null THEN "fetch"
               ELSE IF Grouped(TheLayer) THEN "layers" ELSE "styles"
  BY Zenon DEF RenderMaterial, Goto
<1>2. PainterCanvases' = PainterCanvases /\ PainterBegun' = PainterBegun
  BY <1>1, CanvasesKept, BegunKept
<1>3. /\ PainterFrom = 1 /\ PainterStyle = 1 /\ PainterFeature = 0 /\ PainterDue = {}
      /\ PainterPhase = "styles"
  BY <1>1, IdleBetween DEF Between, PainterPhase
<1>4. open # <<>> /\ Reading
  BY <1>1 DEF LayersInv, Reading
<1>5. CASE pc' = "layers"
  <2>1. \/ ~TheLayer.datasource
        \/ Source(TheLayer) = "buffer" /\ TheLayer.null /\ Grouped(TheLayer)
    BY <1>1, <1>5
  <2>2. PainterStyle > Len(ActiveStyles(TheLayer)) \/ Painter!Skipped(TheLayer)
    <3>1. CASE ~TheLayer.datasource
      <4>1. ActiveStyles(TheLayer) = <<>>
        BY <1>4, <3>1, AtLayer, ActiveStylesCount
      <4>2. Len(ActiveStyles(TheLayer)) = 0
        BY <4>1
      <4> QED
        BY <1>3, <4>2
    <3>2. CASE Source(TheLayer) = "buffer" /\ TheLayer.null /\ Grouped(TheLayer)
      <4>1. TheLayer.extent = "inside"
        BY <3>2, Zenon DEF Source, Featuresets
      <4> QED
        BY <3>2, <4>1 DEF Painter!Skipped, Painter!Grouped, Grouped
    <3> QED
      BY <2>1, <3>1, <3>2
  <2>3. Painter!Count(TheLayer) = 0
    BY <2>1 DEF Painter!Count
  <2>4. /\ PainterFrom' = 1 /\ PainterStyle' = 1 /\ PainterFeature' = 0 /\ PainterDue' = {}
        /\ PainterPhase' = "layers"
    BY <1>5, IdleBetween DEF Between, PainterPhase
  <2>5. /\ Painter!TheLayer = TheLayer
        /\ Painter!ActiveStyles(TheLayer) = ActiveStyles(TheLayer)
    BY PainterReads
  <2>6. PainterFeature >= Painter!Count(TheLayer)
    BY <1>3, <2>3
  <2> QED
    BY <1>1, <1>2, <1>3, <2>2, <2>4, <2>5, <2>6, Zenon DEF Painter!LeaveStyles
<1>6. CASE pc' \in {"styles", "fetch"}
  <2>1. PainterFrom' = 1 /\ PainterStyle' = 1
    BY <1>1, <1>6 DEF NoBuffer, PainterFrom, PainterStyle, InStyle
  <2>2. PainterFeature' = 0
    BY <1>6, <2>1 DEF PainterFeature, InStyle
  <2>3. PainterDue' = {} /\ PainterPhase' = "styles"
    BY <1>6 DEF PainterDue, PainterPhase
  <2> QED
    BY <1>1, <1>2, <1>3, <2>1, <2>2, <2>3, Zenon DEF Painter!vars
<1> QED
  BY <1>1, <1>5, <1>6

\* Buffering features draws nothing.
LEMMA FetchUnseen ==
    ASSUME GroupInv, GroupInv', HandInv, HandInv', ReadInv, LayersInv, QueriesInv, Fetch
    PROVE  UNCHANGED Painter!vars
<1>1. /\ pc = "fetch" /\ pc' \in {"fetch", "styles"} /\ Reads(Current, 1) /\ Reading
      /\ UNCHANGED <<map, stored, queries, todo, open, aggVars>>
      /\ pc' = "styles" => style' = 1 /\ buffer' = buffer
      /\ pc' = "fetch" => buffer' = [buffer EXCEPT !.features =
                                       Append(@, NextFeature(Current, 1))]
  BY DEF Fetch, Goto, Reading
<1>2. PainterCanvases' = PainterCanvases /\ PainterBegun' = PainterBegun
  BY <1>1, CanvasesKept, BegunKept
<1>3. PainterStyle = 1 /\ PainterStyle' = 1
  BY <1>1 DEF PainterStyle, InStyle
<1>4. PainterFrom' = PainterFrom
  <2>1. CASE pc' = "styles"
    BY <1>1, <2>1 DEF PainterFrom
  <2>2. CASE pc' = "fetch"
    <3>1. Half /\ QueryOf(Current, 1)' = QueryOf(Current, 1)
      BY <1>1, FirstRead DEF ReadInv, Standing
    <3>2. read'[QueryOf(Current, 1)] = read[QueryOf(Current, 1)] + 1
      BY <1>1, <3>1, FirstRead
    <3>3. read[QueryOf(Current, 1)] = LastBuffered
      BY <1>1 DEF GroupInv
    <3>4. read'[QueryOf(Current, 1)] = LastBuffered'
      BY <2>2, <3>1 DEF GroupInv
    <3>5. /\ PainterFrom \in Nat /\ Len(buffer.features) \in Nat
          /\ LastBuffered = PainterFrom + Len(buffer.features) - 1
      BY <1>1, FromBuffer DEF Working, LastBuffered
    <3>6. PainterFrom' \in Nat
      <4>1. buffer'.features \in Seq(Nat) /\ Len(buffer'.features) \in Nat
            /\ (buffer'.features = <<>> <=> Len(buffer'.features) = 0)
        BY LenProperties, EmptySeq DEF HandInv
      <4>2. buffer'.features # <<>> => buffer'.features[1] \in Nat
        <5> SUFFICES ASSUME buffer'.features # <<>> PROVE buffer'.features[1] \in Nat
          OBVIOUS
        <5>1. 1 \in 1..Len(buffer'.features)
          BY <4>1
        <5> QED
          BY <4>1, <5>1, ElementOfSeq
      <4> QED
        BY <4>2 DEF PainterFrom
    <3>7. Len(buffer'.features) = Len(buffer.features) + 1
      <4> DEFINE n == NextFeature(Current, 1)
      <4>1. buffer'.features = Append(buffer.features, n)
        <5>1. buffer' = [buffer EXCEPT !.features = Append(@, n)]
          BY <1>1, <2>2
        <5> HIDE DEF n
        <5> QED
          BY <5>1, FeaturesPushed DEF HandInv
      <4>2. buffer.features \in Seq(Nat)
        BY DEF HandInv
      <4> HIDE DEF n
      <4>3. buffer.features \in Seq(Nat \cup {n}) /\ n \in Nat \cup {n}
        BY <4>2, SeqMonotonic
      <4> QED
        BY <4>1, <4>3, AppendProperties
    <3> QED
      BY <3>2, <3>3, <3>4, <3>5, <3>6, <3>7 DEF LastBuffered
  <2> QED
    BY <1>1, <2>1, <2>2
<1>5. PainterFeature' = PainterFeature
  BY <1>1, <1>3, <1>4 DEF PainterFeature, InStyle
<1>6. /\ PainterDue = {} /\ PainterDue' = {}
      /\ PainterPhase = "styles" /\ PainterPhase' = "styles"
  BY <1>1 DEF PainterDue, PainterPhase
<1> QED
  BY <1>1, <1>2, <1>3, <1>4, <1>5, <1>6, Zenon DEF Painter!vars

\* What the painter has drawn when the features at hand are through.
LEMMA GroupThrough ==
    ASSUME GroupInv, HandInv, Working, pc # "fetch", Half
    PROVE  /\ PainterFrom \in Nat /\ Len(buffer.features) \in Nat
           /\ LastBuffered = PainterFrom + Len(buffer.features) - 1
           /\ IF ahead = 0 THEN LastBuffered = Len(TheLayer.rows)
              ELSE /\ ahead = LastBuffered + 1 /\ ahead <= Len(TheLayer.rows)
                   /\ Grouped(TheLayer) /\ Len(buffer.features) # 0
                   /\ TheLayer.rows[LastBuffered] # TheLayer.rows[ahead]
BY FromBuffer DEF GroupInv, Working, LastBuffered

\* The styles are gone through again exactly when features of another group
\* follow.
LEMMA EndPassPainted ==
    ASSUME GroupInv, HandInv, ReadInv, LayersInv, QueriesInv, AllPrepared, EndPass
    PROVE  Painter!NextGroup \/ Painter!LeaveStyles
<1>1. /\ pc = "styles" /\ Reading /\ Working /\ ~InStyle
      /\ UNCHANGED <<map, stored, todo, open, aggVars, style>>
      /\ style > Len(ActiveStyles(TheLayer))
      /\ pc' = IF ahead # 0 THEN "fetch" ELSE "layers"
      /\ ahead # 0 => buffer' = [Cleared EXCEPT !.features = Append(@, ahead)]
  BY DEF EndPass, Goto, Reading, Working, InStyle
<1>2. PainterCanvases' = PainterCanvases /\ PainterBegun' = PainterBegun
  BY <1>1, CanvasesKept, BegunKept
<1>3. /\ Painter!TheLayer = TheLayer
      /\ Painter!ActiveStyles(TheLayer) = ActiveStyles(TheLayer)
  BY PainterReads
<1>4. /\ Len(ActiveStyles(TheLayer)) \in Nat /\ style \in Nat /\ Len(TheLayer.rows) \in Nat
  BY <1>1, InLayer DEF ReadInv, Standing
<1>5. /\ PainterPhase = "styles" /\ PainterStyle = style /\ PainterDue = {}
      /\ PainterFeature = PainterFrom - 1 +
                          IF style > 1 THEN IF Source(TheLayer) = "query"
                                            THEN Len(TheLayer.rows)
                                            ELSE Len(buffer.features)
                          ELSE 0
  BY <1>1 DEF PainterPhase, PainterStyle, PainterDue, PainterFeature, Taken, InStyle
<1>6. PainterFrom \in Nat /\ ~Painter!Skipped(TheLayer)
      /\ (~Half => buffer.features = <<>> /\ PainterFrom = 1)
  BY <1>1, FromBuffer DEF GroupInv, Working
<1>7. CASE ahead # 0
  <2>1. Half /\ ahead \in Nat
    BY <1>1, <1>7 DEF ReadInv, Standing, HandInv
  <2>2. /\ LastBuffered = PainterFrom + Len(buffer.features) - 1 /\ Len(buffer.features) \in Nat
        /\ ahead = LastBuffered + 1 /\ ahead <= Len(TheLayer.rows)
    BY <1>1, <1>7, <2>1, GroupThrough
  <2>3. /\ Painter!Count(TheLayer) = Len(TheLayer.rows) /\ Len(ActiveStyles(TheLayer)) # 0
    BY <1>1, <2>1, FeaturesCounted
  <2>4. PainterFeature = LastBuffered
    <3>1. style > 1 /\ Source(TheLayer) = "buffer"
      BY <1>1, <1>4, <2>1, <2>3 DEF Half
    <3> QED
      BY <1>5, <1>6, <2>2, <3>1
  <2>5. PainterFrom' = ahead
    <3>1. buffer'.features = <<ahead>>
      BY <1>1, <1>7, <2>1, BufferRestarted DEF HandInv, Cleared
    <3>2. <<ahead>> # <<>> /\ <<ahead>>[1] = ahead
      BY <2>1, SingleFeature
    <3> QED
      BY <1>1, <1>7, <3>1, <3>2 DEF PainterFrom
  <2>6. PainterStyle' = 1
    BY <1>1, <1>7 DEF PainterStyle, InStyle
  <2>7. PainterFeature' = PainterFeature
    <3>1. PainterFeature' = ahead - 1
      BY <1>1, <1>7, <2>1, <2>5, <2>6 DEF PainterFeature, InStyle
    <3> QED
      BY <1>6, <2>2, <2>4, <3>1
  <2>8. PainterDue' = PainterDue /\ PainterPhase' = PainterPhase
    BY <1>1, <1>5, <1>7 DEF PainterPhase, PainterDue
  <2>9. PainterFeature < Painter!Count(TheLayer) /\ PainterFrom' = PainterFeature + 1
    BY <1>4, <1>6, <2>2, <2>3, <2>4, <2>5
  <2>10. Painter!NextGroup
    BY <1>1, <1>2, <1>3, <1>5, <2>6, <2>7, <2>8, <2>9, Zenon DEF Painter!NextGroup
  <2> QED
    BY <2>10
<1>8. CASE ahead = 0
  <2>1. PainterFeature >= Painter!Count(TheLayer)
    <3>1. CASE Half
      <4>1. /\ LastBuffered = PainterFrom + Len(buffer.features) - 1
            /\ LastBuffered = Len(TheLayer.rows) /\ Len(buffer.features) \in Nat
        BY <1>1, <1>8, <3>1, GroupThrough
      <4>2. /\ Painter!Count(TheLayer) = Len(TheLayer.rows)
            /\ Len(ActiveStyles(TheLayer)) # 0
        BY <1>1, <3>1, FeaturesCounted
      <4>3. style > 1 /\ Source(TheLayer) = "buffer"
        BY <1>1, <1>4, <3>1, <4>2 DEF Half
      <4> QED
        BY <1>4, <1>5, <1>6, <4>1, <4>2, <4>3
    <3>2. CASE ~Half /\ Source(TheLayer) = "query"
      <4>1. /\ Painter!Count(TheLayer) = Len(TheLayer.rows)
            /\ Len(ActiveStyles(TheLayer)) # 0
        BY <1>1, <3>2, FeaturesCounted
      <4>2. style > 1
        BY <1>1, <1>4, <4>1
      <4> QED
        BY <1>4, <1>5, <1>6, <3>2, <4>1, <4>2
    <3>3. CASE ~Half /\ Source(TheLayer) # "query"
      <4>1. Painter!Count(TheLayer) = 0
        BY <1>1, <3>3, FeaturesCounted
      <4>2. Len(buffer.features) = 0 /\ PainterFrom = 1
        BY <1>6, <3>3
      <4> QED
        BY <1>5, <3>3, <4>1, <4>2
    <3> QED
      BY <3>1, <3>2, <3>3
  <2>2. /\ PainterFrom' = 1 /\ PainterStyle' = 1 /\ PainterFeature' = 0 /\ PainterDue' = {}
        /\ PainterPhase' = "layers"
    BY <1>1, <1>8, IdleBetween DEF Between, PainterPhase
  <2>3. Painter!LeaveStyles
    BY <1>1, <1>2, <1>3, <1>5, <2>1, <2>2, Zenon DEF Painter!LeaveStyles
  <2> QED
    BY <2>3
<1> QED
  BY <1>7, <1>8

\* The style the painter has at hand is that of the processor.
LEMMA StyleRead ==
    ASSUME PainterStyle = style
    PROVE  /\ Painter!StyleNumber = StyleNumber /\ Painter!TheStyle = TheStyle
           /\ Painter!StyleIsolated(TheStyle) = StyleIsolated(TheStyle)
<1>1. Painter!TheLayer = TheLayer /\ Painter!ActiveStyles(TheLayer) = ActiveStyles(TheLayer)
  BY PainterReads
<1>2. Painter!StyleNumber = StyleNumber
  BY <1>1, Zenon DEF Painter!StyleNumber, StyleNumber
<1>3. Painter!TheStyle = TheStyle
  BY <1>1, <1>2, Zenon DEF Painter!TheStyle, TheStyle
<1>4. Painter!StyleIsolated(TheStyle) = StyleIsolated(TheStyle)
  BY DEF Painter!StyleIsolated, StyleIsolated
<1> QED
  BY <1>2, <1>3, <1>4

\* The query of the style at hand, on its way.
LEMMA StyleQuery ==
    ASSUME ReadInv, LayersInv, QueriesInv, Reading, Source(TheLayer) = "query",
           style <= Len(ActiveStyles(TheLayer)), pc \in {"styles", "rows", "if", "other"}
    PROVE  /\ QueryOf(Current, style) \in DOMAIN read
           /\ read[QueryOf(Current, style)] \in Nat
           /\ IF pc = "styles" THEN read[QueryOf(Current, style)] = 0
              ELSE read[QueryOf(Current, style)] <= Len(TheLayer.rows)
<1>1. /\ style \in 1..Featuresets(TheLayer) /\ Current \in stored
      /\ Layer(Current) = TheLayer
  BY InLayer DEF ReadInv, Standing
<1>2. style \in 1..Featuresets(Layer(Current))
  BY <1>1
<1> DEFINE Q == QueryOf(Current, style)
<1>3. /\ Q \in DOMAIN queries /\ Q \in DOMAIN read /\ read[Q] \in Nat
      /\ queries[Q] = [layer |-> Current, set |-> style]
  BY <1>1, <1>2, QueryFound
<1>4. queries[Q].layer = Current /\ queries[Q].set = style
  BY <1>3
<1>5. AtHand(Q)
  BY <1>3, <1>4 DEF ReadInv, AllAtHand
<1> HIDE DEF Q
<1>6. IF pc = "styles" THEN read[Q] = 0 ELSE read[Q] <= Len(TheLayer.rows)
  BY <1>4, <1>5 DEF AtHand
<1> QED
  BY <1>3, <1>6 DEF Q

\* A style is begun at the first feature of the group, on its canvas.
LEMMA BeginStylePainted ==
    ASSUME IInv, GroupInv, HandInv, ReadInv, LayersInv, QueriesInv, BeginStyle
    PROVE  Painter!BeginStyle
<1>1. /\ pc = "styles" /\ pc' = "rows" /\ Reading /\ Working /\ ~InStyle /\ InStyle'
      /\ UNCHANGED <<map, stored, queries, read, todo, open, style>>
      /\ style <= Len(ActiveStyles(TheLayer)) /\ StartStyle(TheStyle)
      /\ buffer' = IF Source(TheLayer) # "buffer" THEN buffer
                   ELSE [buffer EXCEPT !.pos = 0, !.end = Len(buffer.features)]
  BY DEF BeginStyle, Goto, Reading, Working, InStyle
<1>2. PainterCanvases' = Painter!Opened(StyleIsolated(TheStyle))
  BY <1>1, StartedStyle
<1>3. PainterBegun' = PainterBegun
  BY <1>1, BegunKept
<1>4. /\ PainterPhase = "styles" /\ PainterPhase' = "features"
      /\ PainterStyle = style /\ PainterStyle' = style
      /\ PainterDue = {} /\ PainterDue' = {}
  BY <1>1 DEF PainterPhase, PainterStyle, PainterDue, InStyle
<1>5. /\ Painter!TheLayer = TheLayer
      /\ Painter!ActiveStyles(TheLayer) = ActiveStyles(TheLayer)
      /\ Painter!TheStyle = TheStyle
      /\ Painter!StyleIsolated(TheStyle) = StyleIsolated(TheStyle)
  BY <1>4, PainterReads, StyleRead
<1>6. /\ buffer'.features = buffer.features
      /\ Source(TheLayer) = "buffer" => buffer'.pos = 0
  BY <1>1, FeaturesPushed DEF HandInv
<1>7. PainterFrom' = PainterFrom
  BY <1>1, <1>6 DEF PainterFrom
<1>8. Source(TheLayer) = "none" => buffer'.pos = 0
  BY <1>1 DEF GroupInv, Half
<1>9. Taken' = 0
  <2>1. /\ TheLayer' = TheLayer /\ Source(TheLayer)' = Source(TheLayer)
        /\ Current' = Current /\ QueryOf(Current, style)' = QueryOf(Current, style)
    <3>1. /\ TheLayer' = TheLayer /\ Source(TheLayer)' = Source(TheLayer)
          /\ Current' = Current
      BY <1>1, SameView
    <3> QED
      BY <1>1, <3>1 DEF QueryOf
  <2>2. CASE Source(TheLayer) = "query"
    <3>1. read[QueryOf(Current, style)] = 0
      BY <1>1, <2>2, StyleQuery
    <3> QED
      BY <1>1, <2>1, <2>2, <3>1 DEF Taken
  <2>3. CASE Source(TheLayer) # "query"
    <3>1. buffer'.pos = 0
      BY <1>1, <1>6, <1>8, <2>3, InLayer
    <3> QED
      BY <1>1, <2>1, <2>3, <3>1 DEF Taken
  <2> QED
    BY <2>2, <2>3
<1>10. PainterFeature' = PainterFrom - 1
  <2>1. PainterFrom \in Nat
    BY <1>1, FromBuffer
  <2> QED
    BY <1>1, <1>7, <1>9, <2>1 DEF PainterFeature
<1>11. ~Painter!Skipped(TheLayer)
  BY <1>1 DEF GroupInv
<1> QED
  BY <1>1, <1>2, <1>3, <1>4, <1>5, <1>7, <1>10, <1>11, Zenon DEF Painter!BeginStyle

\* What the painter has at hand when the processor asks for the next feature.
LEMMA RowsRead ==
    ASSUME GroupInv, HandInv, ReadInv, LayersInv, QueriesInv, AllPrepared, pc = "rows"
    PROVE  /\ PainterPhase = "features" /\ PainterStyle = style /\ PainterDue = {}
           /\ PainterFrom \in Nat \ {0} /\ PainterFeature \in Nat
           /\ style \in Nat \ {0} /\ Len(TheLayer.rows) \in Nat
           /\ Source(TheLayer) = "query" =>
                /\ PainterFrom = 1 /\ PainterFeature = read[QueryOf(Current, style)]
                /\ PainterFeature <= Len(TheLayer.rows)
                /\ Painter!Count(TheLayer) = Len(TheLayer.rows) /\ ~Grouped(TheLayer)
           /\ Source(TheLayer) # "query" => PainterFeature = PainterFrom - 1 + buffer.pos
           /\ ~Half /\ Source(TheLayer) # "query" =>
                /\ PainterFrom = 1 /\ PainterFeature = 0 /\ Len(buffer.features) = 0
                /\ Painter!Count(TheLayer) = 0 /\ buffer.pos = 0
           /\ Half => Painter!Count(TheLayer) = Len(TheLayer.rows)
<1>1. Reading /\ Working /\ InStyle
  BY DEF Reading, Working, InStyle
<1>2. /\ PainterPhase = "features" /\ PainterStyle = style /\ PainterDue = {}
  BY <1>1 DEF PainterPhase, PainterStyle, PainterDue
<1>3. /\ style \in Nat \ {0} /\ Len(TheLayer.rows) \in Nat
      /\ style <= Len(ActiveStyles(TheLayer))
  BY <1>1, InLayer DEF ReadInv, Standing
<1>4. /\ PainterFrom \in Nat \ {0} /\ buffer.pos \in Nat
      /\ (~Half => buffer.features = <<>> /\ buffer.pos = 0 /\ PainterFrom = 1)
  BY <1>1, FromBuffer DEF GroupInv, HandInv, Working
<1>5. PainterFeature = PainterFrom - 1 + IF Source(TheLayer) = "query"
                                         THEN read[QueryOf(Current, style)]
                                         ELSE buffer.pos
  BY <1>1 DEF PainterFeature, Taken
<1>6. CASE Source(TheLayer) = "query"
  <2>1. /\ read[QueryOf(Current, style)] \in Nat
        /\ read[QueryOf(Current, style)] <= Len(TheLayer.rows)
    BY <1>1, <1>3, <1>6, StyleQuery
  <2>2. Painter!Count(TheLayer) = Len(TheLayer.rows) /\ ~Grouped(TheLayer)
    BY <1>1, <1>6, FeaturesCounted
  <2>3. ~Half /\ PainterFrom = 1
    BY <1>4, <1>6 DEF Half
  <2>4. PainterFeature = read[QueryOf(Current, style)]
    BY <1>5, <1>6, <2>1, <2>3
  <2> QED
    BY <1>2, <1>3, <1>4, <1>6, <2>1, <2>2, <2>3, <2>4
<1>7. CASE Source(TheLayer) # "query"
  <2>1. PainterFeature = PainterFrom - 1 + buffer.pos
    BY <1>5, <1>7
  <2>2. CASE Half
    <3>1. Painter!Count(TheLayer) = Len(TheLayer.rows)
      BY <1>1, <2>2, FeaturesCounted
    <3> QED
      BY <1>2, <1>3, <1>4, <1>7, <2>1, <2>2, <3>1
  <2>3. CASE ~Half
    <3>1. Painter!Count(TheLayer) = 0 /\ Len(buffer.features) = 0
      BY <1>1, <1>4, <1>7, <2>3, FeaturesCounted
    <3> QED
      BY <1>2, <1>3, <1>4, <1>7, <2>1, <2>3, <3>1
  <2> QED
    BY <2>2, <2>3
<1> QED
  BY <1>6, <1>7

\* Whether there is a feature to hand to the style.
Left ==
    \/ Source(TheLayer) = "buffer" /\ buffer.pos # buffer.end
    \/ Source(TheLayer) = "query" /\ Remains(Current, style)

\* The painter finds a next feature in the group exactly then.
LEMMA RowsLeft ==
    ASSUME GroupInv, HandInv, ReadInv, LayersInv, QueriesInv, AllPrepared, pc = "rows"
    PROVE  Painter!HasNext <=> Left
<1> DEFINE group == Grouped(TheLayer) /\ PainterFeature >= PainterFrom =>
                       TheLayer.rows[PainterFeature] = TheLayer.rows[PainterFeature + 1]
<1>1. Painter!HasNext <=> PainterFeature < Painter!Count(TheLayer) /\ group
  <2>1. Painter!TheLayer = TheLayer
    BY PainterReads
  <2> QED
    BY <2>1 DEF Painter!HasNext, Painter!Grouped, Grouped
<1>2. /\ PainterFrom \in Nat \ {0} /\ PainterFeature \in Nat /\ Len(TheLayer.rows) \in Nat
      /\ Source(TheLayer) = "query" =>
           /\ PainterFeature = read[QueryOf(Current, style)]
           /\ Painter!Count(TheLayer) = Len(TheLayer.rows) /\ ~Grouped(TheLayer)
      /\ Source(TheLayer) # "query" => PainterFeature = PainterFrom - 1 + buffer.pos
      /\ ~Half /\ Source(TheLayer) # "query" =>
           /\ PainterFeature = 0 /\ Len(buffer.features) = 0
           /\ Painter!Count(TheLayer) = 0 /\ buffer.pos = 0
      /\ Half => Painter!Count(TheLayer) = Len(TheLayer.rows)
  BY RowsRead
<1>3. Working /\ InStyle /\ pc # "fetch"
  BY DEF Working, InStyle
<1>4. CASE Source(TheLayer) = "query"
  <2>1. Remains(Current, style) <=> read[QueryOf(Current, style)] < Len(TheLayer.rows)
    BY DEF Remains, TheLayer
  <2> QED
    BY <1>1, <1>2, <1>4, <2>1 DEF Left
<1>5. CASE Source(TheLayer) # "query" /\ ~Half
  <2>1. Source(TheLayer) = "buffer" => buffer.pos = buffer.end
    BY <1>2, <1>3, <1>5 DEF HandInv
  <2>2. ~(PainterFeature < Painter!Count(TheLayer))
    BY <1>2, <1>5
  <2> QED
    BY <1>1, <1>5, <2>1, <2>2 DEF Left
<1>6. CASE Half
  <2>1. /\ Source(TheLayer) = "buffer" /\ buffer.pos \in Nat
        /\ buffer.pos <= Len(buffer.features) /\ buffer.end = Len(buffer.features)
    BY <1>3, <1>6 DEF Half, HandInv
  <2>2. /\ Len(buffer.features) \in Nat
        /\ LastBuffered = PainterFrom + Len(buffer.features) - 1
        /\ IF ahead = 0 THEN LastBuffered = Len(TheLayer.rows)
           ELSE /\ ahead = LastBuffered + 1 /\ ahead <= Len(TheLayer.rows)
                /\ Grouped(TheLayer) /\ Len(buffer.features) # 0
                /\ TheLayer.rows[LastBuffered] # TheLayer.rows[ahead]
    BY <1>3, <1>6, GroupThrough
  <2>3. PainterFeature = PainterFrom - 1 + buffer.pos
    BY <1>2, <2>1
  <2> DEFINE at == buffer.pos
             number == Len(buffer.features)
  <2>8. /\ at \in Nat /\ number \in Nat /\ at <= number /\ PainterFrom \in Nat
        /\ PainterFrom >= 1 /\ PainterFeature \in Nat
        /\ PainterFeature = PainterFrom - 1 + at
        /\ LastBuffered = PainterFrom + number - 1
        /\ (at < number <=> buffer.pos < Len(buffer.features))
    BY <1>2, <2>1, <2>2, <2>3
  <2>4. Left <=> buffer.pos < Len(buffer.features)
    BY <2>1, <2>2 DEF Left
  <2>5. Painter!Count(TheLayer) = Len(TheLayer.rows)
    BY <1>2, <1>6
  <2> HIDE DEF at, number
  <2>6. CASE buffer.pos < Len(buffer.features)
    <3>1. PainterFeature < Len(TheLayer.rows) /\ PainterFeature <= LastBuffered - 1
      <4>1. LastBuffered <= Len(TheLayer.rows)
        BY <1>2, <2>2
      <4> QED
        BY <1>2, <2>6, <2>8, <4>1
    <3>2. group
      <4> SUFFICES ASSUME Grouped(TheLayer), PainterFeature >= PainterFrom
                   PROVE  TheLayer.rows[PainterFeature] = TheLayer.rows[PainterFeature + 1]
        OBVIOUS
      <4>1. \A k \in PainterFrom..LastBuffered - 1 :
               TheLayer.rows[k] = TheLayer.rows[k + 1]
        BY <1>3 DEF GroupInv, Working
      <4>2. PainterFeature \in PainterFrom..LastBuffered - 1
        BY <1>2, <2>2, <3>1
      <4> QED
        BY <4>1, <4>2
    <3> HIDE DEF group
    <3> QED
      BY <1>1, <2>4, <2>5, <2>6, <3>1, <3>2
  <2>7. CASE ~(buffer.pos < Len(buffer.features))
    <3>1. PainterFeature = LastBuffered
      BY <2>7, <2>8
    <3>2. CASE ahead = 0
      <4>1. ~(PainterFeature < Len(TheLayer.rows))
        BY <1>2, <2>2, <3>1, <3>2
      <4> QED
        BY <1>1, <2>4, <2>5, <2>7, <4>1
    <3>3. CASE ahead # 0
      <4>1. /\ ahead = PainterFeature + 1 /\ Grouped(TheLayer) /\ PainterFeature >= PainterFrom
            /\ TheLayer.rows[PainterFeature] # TheLayer.rows[ahead]
        <5>1. number # 0
          BY <2>2, <3>3 DEF number
        <5>2. PainterFeature >= PainterFrom
          BY <2>7, <2>8, <5>1
        <5> QED
          BY <2>2, <3>1, <3>3, <5>2
      <4>2. ~group
        BY <4>1
      <4> HIDE DEF group
      <4> QED
        BY <1>1, <2>4, <2>7, <4>2
    <3> QED
      BY <3>2, <3>3
  <2> QED
    BY <2>6, <2>7
<1> QED
  BY <1>4, <1>5, <1>6

\* A style is through: the painter, too, has no feature left in the group.
LEMMA FinishesStylePainted ==
    ASSUME IInv, IInv', GroupInv, HandInv, ReadInv, LayersInv, QueriesInv, AllPrepared,
           pc = "rows", FinishesStyle, buffer' = buffer, ~Left,
           Source(TheLayer) # "query" => read' = read,
           UNCHANGED <<map, stored, queries, todo, open>>
    PROVE  Painter!EndStyle
<1>1. /\ pc' = "styles" /\ style' = style + 1 /\ ~InStyle' /\ InStyle /\ Reading /\ Working
  BY DEF FinishesStyle, Goto, InStyle, Reading, Working
<1>2. PainterCanvases' = Painter!Closed(StyleIsolated(TheStyle), "style",
                            <<Current, StyleNumber>>, TheStyle.filters, TheStyle.direct)
  BY EndedStyle
<1>3. PainterBegun' = PainterBegun
  BY <1>1, BegunKept
<1>4. /\ PainterPhase = "features" /\ PainterStyle = style /\ PainterDue = {}
      /\ PainterFrom \in Nat \ {0} /\ PainterFeature \in Nat
      /\ style \in Nat \ {0} /\ Len(TheLayer.rows) \in Nat
      /\ Source(TheLayer) = "query" =>
           /\ PainterFrom = 1 /\ PainterFeature = read[QueryOf(Current, style)]
           /\ PainterFeature <= Len(TheLayer.rows)
      /\ Source(TheLayer) # "query" => PainterFeature = PainterFrom - 1 + buffer.pos
      /\ ~Half /\ Source(TheLayer) # "query" =>
           Len(buffer.features) = 0 /\ buffer.pos = 0
  BY RowsRead
<1>5. /\ PainterPhase' = "styles" /\ PainterStyle' = style + 1 /\ PainterDue' = {}
  BY <1>1 DEF PainterPhase, PainterStyle, PainterDue
<1>6. PainterFrom' = PainterFrom
  BY <1>1 DEF PainterFrom
<1>7. /\ TheLayer' = TheLayer /\ Source(TheLayer)' = Source(TheLayer)
  BY SameView
<1>8. PainterFeature' = PainterFrom - 1 + IF Source(TheLayer) = "query"
                                          THEN Len(TheLayer.rows)
                                          ELSE Len(buffer.features)
  <2>1. style + 1 > 1
    BY <1>4
  <2>2. Taken' = IF Source(TheLayer) = "query" THEN Len(TheLayer.rows)
                 ELSE Len(buffer.features)
    BY <1>1, <1>7 DEF Taken
  <2> QED
    BY <1>5, <1>6, <2>1, <2>2 DEF PainterFeature
<1>9. PainterFeature' = PainterFeature
  <2>1. CASE Source(TheLayer) = "query"
    <3>1. ~(read[QueryOf(Current, style)] < Len(TheLayer.rows))
      BY <2>1 DEF Left, Remains, TheLayer
    <3> QED
      BY <1>4, <1>8, <2>1, <3>1
  <2>2. CASE Source(TheLayer) = "buffer"
    <3>1. buffer.pos = Len(buffer.features)
      BY <1>1, <2>2 DEF Left, HandInv
    <3> QED
      BY <1>4, <1>8, <2>2, <3>1
  <2>3. CASE Source(TheLayer) = "none"
    BY <1>4, <1>8, <2>3 DEF Half
  <2> QED
    BY <2>1, <2>2, <2>3 DEF Source
<1>10. ~Painter!HasNext
  BY RowsLeft
<1>11. /\ Painter!Current = Current /\ Painter!StyleNumber = StyleNumber
       /\ Painter!TheStyle = TheStyle
       /\ Painter!StyleIsolated(TheStyle) = StyleIsolated(TheStyle)
  BY <1>4, PainterReads, StyleRead
<1> QED
  BY <1>2, <1>3, <1>4, <1>5, <1>6, <1>9, <1>10, <1>11, Zenon DEF Painter!EndStyle

\* The feature that a style takes is the painter's next one.
LEMMA TakesRowPainted ==
    ASSUME GroupInv, GroupInv', HandInv, RulesInv, ReadInv, LayersInv, QueriesInv,
           AllPrepared, pc = "rows", NEW f, TakesRow(f), Left,
           Source(TheLayer) = "buffer" =>
              buffer' = [buffer EXCEPT !.pos = @ + 1] /\ read' = read,
           Source(TheLayer) = "query" => buffer' = buffer /\ Reads(Current, style),
           UNCHANGED <<map, stored, queries, todo, open>>
    PROVE  Painter!TakeFeature
<1>1. /\ pc' = "if" /\ style' = style /\ row' = f /\ UNCHANGED aggVars
      /\ flags' = [flags EXCEPT !.do_else = TRUE, !.do_also = FALSE]
      /\ InStyle /\ InStyle' /\ Reading /\ Working
  BY Zenon DEF TakesRow, Goto, InStyle, Reading, Working
<1>2. PainterCanvases' = PainterCanvases /\ PainterBegun' = PainterBegun
  BY <1>1, CanvasesKept, BegunKept
<1>3. /\ PainterPhase = "features" /\ PainterStyle = style /\ PainterDue = {}
      /\ PainterFrom \in Nat \ {0} /\ PainterFeature \in Nat
      /\ Source(TheLayer) = "query" =>
           /\ PainterFrom = 1 /\ PainterFeature = read[QueryOf(Current, style)]
      /\ Source(TheLayer) # "query" => PainterFeature = PainterFrom - 1 + buffer.pos
  BY RowsRead
<1>4. PainterPhase' = "features" /\ PainterStyle' = style
  BY <1>1 DEF PainterPhase, PainterStyle
<1>5. buffer'.features = buffer.features
      /\ (Source(TheLayer) = "buffer" => buffer'.pos = buffer.pos + 1)
  BY FeaturesPushed DEF HandInv, Left
<1>6. PainterFrom' = PainterFrom
  BY <1>1, <1>5 DEF PainterFrom
<1>7. /\ TheLayer' = TheLayer /\ Source(TheLayer)' = Source(TheLayer)
      /\ Current' = Current
  BY SameView
<1>8. QueryOf(Current, style)' = QueryOf(Current, style)
  BY <1>1, <1>7 DEF QueryOf
<1>9. PainterFeature' = PainterFeature + 1
  <2>1. CASE Source(TheLayer) = "query"
    <3>1. /\ QueryOf(Current, style) \in DOMAIN read
          /\ read[QueryOf(Current, style)] \in Nat
      BY <1>1, <2>1, StyleQuery DEF ReadInv, Standing
    <3>2. read'[QueryOf(Current, style)] = read[QueryOf(Current, style)] + 1
      BY <2>1, <3>1 DEF Reads, QueriesInv
    <3>3. Taken' = read[QueryOf(Current, style)] + 1
      BY <1>1, <1>7, <1>8, <2>1, <3>2 DEF Taken
    <3> QED
      BY <1>1, <1>3, <1>6, <2>1, <3>1, <3>3 DEF PainterFeature
  <2>2. CASE Source(TheLayer) = "buffer"
    <3>1. Taken' = buffer.pos + 1 /\ buffer.pos \in Nat
      BY <1>1, <1>5, <1>7, <2>2 DEF Taken, HandInv
    <3> QED
      BY <1>1, <1>3, <1>6, <2>2, <3>1 DEF PainterFeature
  <2> QED
    BY <2>1, <2>2 DEF Left
<1>10. row' = PainterFeature + 1
  BY <1>1, <1>9 DEF GroupInv
<1>11. TheStyle' = TheStyle /\ flags'.do_else = TRUE
  BY <1>1, SameStyle, FlagsRead DEF RulesInv
<1>12. Due(TheStyle, row)' = Due(TheStyle, PainterFeature + 1)
  BY <1>10, <1>11 DEF Due, RulesIn
<1>13. PainterDue' = Due(TheStyle, PainterFeature + 1)
  BY <1>1, <1>11, <1>12 DEF PainterDue
<1>14. Painter!HasNext
  BY RowsLeft
<1>15. /\ Painter!TheStyle = TheStyle
       /\ Painter!Due(TheStyle, PainterFeature + 1) = Due(TheStyle, PainterFeature + 1)
  BY <1>3, PainterReads, StyleRead
<1> QED
  BY <1>2, <1>3, <1>4, <1>6, <1>9, <1>13, <1>14, <1>15, Zenon DEF Painter!TakeFeature

\* A style takes the next feature of the group or, after the last, is through.
LEMMA NextRowPainted ==
    ASSUME IInv, IInv', GroupInv, GroupInv', HandInv, RulesInv, ReadInv, LayersInv,
           QueriesInv, AllPrepared, NextRow
    PROVE  Painter!EndStyle \/ Painter!TakeFeature
<1>1. pc = "rows" /\ UNCHANGED <<map, stored, queries, todo, open>>
  BY Zenon DEF NextRow
<1>2. CASE FinishesStyle /\ buffer' = buffer /\ ~Left
           /\ (Source(TheLayer) # "query" => read' = read)
  BY <1>1, <1>2, FinishesStylePainted
<1>3. CASE \E f : /\ TakesRow(f) /\ Left
                  /\ Source(TheLayer) = "buffer" =>
                       buffer' = [buffer EXCEPT !.pos = @ + 1] /\ read' = read
                  /\ Source(TheLayer) = "query" =>
                       buffer' = buffer /\ Reads(Current, style)
  <2>1. PICK f : /\ TakesRow(f) /\ Left
                 /\ Source(TheLayer) = "buffer" =>
                      buffer' = [buffer EXCEPT !.pos = @ + 1] /\ read' = read
                 /\ Source(TheLayer) = "query" =>
                      buffer' = buffer /\ Reads(Current, style)
    BY <1>3
  <2> QED
    BY <1>1, <2>1, TakesRowPainted
<1>4. CASE Source(TheLayer) = "none"
  <2>1. FinishesStyle /\ buffer' = buffer /\ read' = read
    BY <1>4, Zenon DEF NextRow
  <2> QED
    BY <1>2, <1>4, <2>1 DEF Left
<1>5. CASE Source(TheLayer) = "buffer"
  <2>1. /\ read' = read
        /\ IF buffer.pos # buffer.end
           THEN /\ TakesRow(buffer.features[buffer.pos + 1])
                /\ buffer' = [buffer EXCEPT !.pos = @ + 1]
           ELSE FinishesStyle /\ UNCHANGED buffer
    BY <1>5, Zenon DEF NextRow
  <2> QED
    BY <1>2, <1>3, <1>5, <2>1, Zenon DEF Left
<1>6. CASE Source(TheLayer) = "query"
  <2>1. /\ Reads(Current, style) /\ buffer' = buffer
        /\ IF Remains(Current, style) THEN TakesRow(NextFeature(Current, style))
           ELSE FinishesStyle
    BY <1>6, Zenon DEF NextRow
  <2> QED
    BY <1>2, <1>3, <1>6, <2>1 DEF Left
<1> QED
  BY <1>4, <1>5, <1>6 DEF Source

-----------------------------------------------------------------------------
(* The rules due *)

Listing(s) == {s[k] : k \in DOMAIN s}

\* The first of an ascending list is the least, and the others are the rest.
LEMMA TailListing ==
    ASSUME NEW s \in Seq(Nat), s # <<>>,
           \A i, j \in DOMAIN s : i < j => s[i] < s[j]
    PROVE  /\ Head(s) \in Listing(s) /\ Listing(s) \subseteq Nat
           /\ Listing(Tail(s)) = Listing(s) \ {Head(s)}
           /\ \A q \in Listing(s) \ {Head(s)} : Head(s) < q
<1>1. /\ Head(s) = s[1] /\ 1 \in DOMAIN s /\ DOMAIN s = 1..Len(s)
      /\ \A k \in DOMAIN Tail(s) : Tail(s)[k] = s[k + 1] /\ k + 1 \in DOMAIN s
      /\ \A k \in DOMAIN s :
            k = 1 \/ (k - 1 \in DOMAIN Tail(s) /\ Tail(s)[k - 1] = s[k])
  BY TailShifts
<1>2. \A k \in DOMAIN Tail(s) : Head(s) < Tail(s)[k]
  BY TailAscends
<1>3. \A k \in DOMAIN s : s[k] \in Nat
  BY <1>1, ElementOfSeq
<1>4. ASSUME NEW q \in Listing(s), q # Head(s) PROVE q \in Listing(Tail(s))
  <2>1. PICK k \in DOMAIN s : q = s[k]
    BY <1>4 DEF Listing
  <2>2. k - 1 \in DOMAIN Tail(s) /\ Tail(s)[k - 1] = q
    BY <1>1, <1>4, <2>1
  <2> QED
    BY <2>2 DEF Listing
<1>5. \A q \in Listing(Tail(s)) : q \in Listing(s) /\ Head(s) < q
  BY <1>1, <1>2 DEF Listing
<1>6. Head(s) \in Listing(s) /\ Listing(s) \subseteq Nat
  BY <1>1, <1>3 DEF Listing
<1>7. \A q \in Listing(Tail(s)) : q # Head(s)
  BY <1>5, <1>6
<1>8. Listing(Tail(s)) = Listing(s) \ {Head(s)}
  BY <1>4, <1>5, <1>7
<1> QED
  BY <1>5, <1>6, <1>8

\* What is due, as the loop over the rules stands.
LEMMA DueNow ==
    /\ pc = "if" /\ flags.do_else => PainterDue = Due(TheStyle, row)
    /\ pc = "if" /\ ~flags.do_else =>
         PainterDue = {r \in Listing(rules) : row \in TheStyle.rules[r].matches}
                      \cup IF flags.do_also THEN RulesIn(TheStyle, "also") ELSE {}
    /\ pc = "other" => PainterDue = Listing(rules)
BY DEF PainterDue, Listing

\* The same of the state that follows.
LEMMA DueNext ==
    ASSUME UNCHANGED <<map, open, style, row>>
    PROVE  /\ pc' = "if" /\ flags'.do_else => PainterDue' = Due(TheStyle, row)
           /\ pc' = "if" /\ ~flags'.do_else =>
                PainterDue' = {r \in Listing(rules') : row \in TheStyle.rules[r].matches}
                              \cup IF flags'.do_also THEN RulesIn(TheStyle, "also") ELSE {}
           /\ pc' = "other" => PainterDue' = Listing(rules')
           /\ pc' = "rows" => PainterDue' = {}
<1>1. TheStyle' = TheStyle
  BY SameStyle
<1>2. /\ Due(TheStyle, row)' = Due(TheStyle, row)
      /\ RulesIn(TheStyle, "also")' = RulesIn(TheStyle, "also")
  BY <1>1 DEF Due, RulesIn
<1> HIDE DEF Due, RulesIn
<1> QED
  BY <1>1, <1>2 DEF PainterDue, Listing

\* A rule that is applied, if it is the first due.
LEMMA RuleApplied ==
    ASSUME IInv, IInv', GroupInv, IfRule \/ OtherRule, NEW r, Applies(r), r \in PainterDue,
           \A q \in PainterDue \ {r} : Painter!Precedes(TheStyle, r, q),
           PainterDue' = PainterDue \ {r}, pc' # "rows"
    PROVE  Painter!ApplyRule
<1>1. /\ pc \in {"if", "other"} /\ pc' \in {"if", "other"} /\ InStyle
      /\ UNCHANGED <<map, stored, todo, open>>
  BY DEF IfRule, OtherRule, Goto, InStyle
<1>2. PainterBegun' = PainterBegun
  BY <1>1, BegunKept
<1>3. PainterPhase = "features" /\ PainterPhase' = "features" /\ PainterStyle = style
  BY <1>1 DEF PainterPhase, PainterStyle
<1>4. /\ PainterFrom' = PainterFrom /\ PainterFeature' = PainterFeature
      /\ PainterStyle' = PainterStyle
  BY RulesKeepGroup
<1>5. row = PainterFeature
  BY <1>1 DEF GroupInv
<1> DEFINE who == <<Current, StyleNumber, r, PainterFeature>>
<1>6. PainterCanvases' = Painter!OnTop(PainterCanvases,
         Append(PainterCanvases[Len(PainterCanvases)], Mark(who)))
  <2>1. Process(who)
    BY <1>5, Zenon DEF Applies
  <2> QED
    BY <1>1, <2>1, DrawnCanvas
<1>7. /\ Painter!Current = Current /\ Painter!StyleNumber = StyleNumber
      /\ Painter!TheStyle = TheStyle /\ Painter!Mark(who) = Mark(who)
  BY <1>3, PainterReads, StyleRead
<1>8. PainterCanvases' = Painter!OnTop(PainterCanvases,
         Append(PainterCanvases[Len(PainterCanvases)],
                Painter!Mark(<<Painter!Current, Painter!StyleNumber, r, PainterFeature>>)))
  BY <1>6, <1>7, Zenon
<1>9. \A q \in PainterDue \ {r} : Painter!Precedes(Painter!TheStyle, r, q)
  BY <1>7, Zenon
<1> QED
  BY <1>1, <1>2, <1>3, <1>4, <1>8, <1>9, Zenon DEF Painter!ApplyRule

\* Steps that apply no rule.
LEMMA NoRuleApplied ==
    ASSUME GroupInv, IfRule \/ ElseAndAlso \/ OtherRule, UNCHANGED aggVars,
           PainterDue' = PainterDue
    PROVE  UNCHANGED Painter!vars
<1>1. /\ pc \in {"if", "other"} /\ pc' \in {"rows", "if", "other"}
      /\ UNCHANGED <<map, stored, todo, open>>
  BY DEF IfRule, ElseAndAlso, OtherRule, Goto
<1>2. /\ PainterBegun' = PainterBegun /\ PainterCanvases' = PainterCanvases
  BY <1>1, BegunKept, CanvasesKept
<1>3. PainterPhase = "features" /\ PainterPhase' = "features"
  BY <1>1 DEF PainterPhase
<1>4. /\ PainterFrom' = PainterFrom /\ PainterFeature' = PainterFeature
      /\ PainterStyle' = PainterStyle
  BY RulesKeepGroup
<1> QED
  BY <1>1, <1>2, <1>3, <1>4, Zenon DEF Painter!vars

\* The if rules of a style that a feature matches.
Matching(s, f) == {k \in RulesIn(s, "if") : f \in s.rules[k].matches}

\* What is due of a feature, case by case.
LEMMA DueByKind ==
    ASSUME NEW s, NEW f
    PROVE  /\ Matching(s, f) = {} => Due(s, f) = RulesIn(s, "else")
           /\ Matching(s, f) # {} /\ ~s.filter_first =>
                Due(s, f) = Matching(s, f) \cup RulesIn(s, "also")
           /\ \A h : /\ h \in Matching(s, f) /\ s.filter_first /\ RulesIn(s, "if") \subseteq Nat
                     /\ \A q \in Matching(s, f) \ {h} : h < q
                     => Due(s, f) = {h}
<1>1. \A h : /\ h \in Matching(s, f) /\ s.filter_first /\ RulesIn(s, "if") \subseteq Nat
             /\ \A q \in Matching(s, f) \ {h} : h < q
             => Due(s, f) = {h}
  <2> SUFFICES ASSUME NEW h \in Matching(s, f), s.filter_first,
                      RulesIn(s, "if") \subseteq Nat,
                      \A q \in Matching(s, f) \ {h} : h < q
               PROVE  Due(s, f) = {h}
    OBVIOUS
  <2>1. Due(s, f) = {k \in Matching(s, f) : \A j \in Matching(s, f) : k <= j}
    BY Zenon DEF Due, Matching
  <2>2. Matching(s, f) \subseteq Nat
    BY DEF Matching
  <2> HIDE DEF Matching
  <2>3. \A j \in Matching(s, f) : h <= j
    BY <2>2
  <2>4. \A k \in Matching(s, f) : k # h => ~(k <= h)
    BY <2>2
  <2> QED
    BY <2>1, <2>3, <2>4
<1>2. Matching(s, f) = {} => Due(s, f) = RulesIn(s, "else")
  BY Zenon DEF Due, Matching
<1>3. Matching(s, f) # {} /\ ~s.filter_first =>
         Due(s, f) = Matching(s, f) \cup RulesIn(s, "also")
  BY Zenon DEF Due, Matching
<1> QED
  BY <1>1, <1>2, <1>3

\* The if rules still to come that match are due, and before any other.
LEMMA IfRulesDue ==
    ASSUME MatchInv, RulesInv, ReadInv, LayersInv, QueriesInv, pc = "if"
    PROVE  /\ Listing(rules) \subseteq RulesIn(TheStyle, "if")
           /\ RulesIn(TheStyle, "if") \subseteq Nat
           /\ flags.do_else =>
                /\ ~flags.do_also
                /\ Matching(TheStyle, row)
                      = {r \in Listing(rules) : row \in TheStyle.rules[r].matches}
           /\ ~flags.do_else /\ rules # <<>> => ~TheStyle.filter_first /\ flags.do_also
           /\ rules = <<>> => Listing(rules) = {}
<1>1. /\ \A k \in DOMAIN rules : rules[k] \in RulesIn(TheStyle, "if")
      /\ flags.do_else =>
            /\ ~flags.do_also
            /\ \A r \in RulesIn(TheStyle, "if") :
                  row \in TheStyle.rules[r].matches => \E k \in DOMAIN rules : rules[k] = r
      /\ ~flags.do_else =>
            IF TheStyle.filter_first THEN rules = <<>> /\ ~flags.do_also
            ELSE flags.do_also
  BY DEF MatchInv
<1>2. RulesIn(TheStyle, "if") \subseteq Nat
  BY StyleInOrder DEF InStyle
<1> HIDE DEF RulesIn
<1>3. Listing(rules) \subseteq RulesIn(TheStyle, "if")
  BY <1>1 DEF Listing
<1>4. flags.do_else => Matching(TheStyle, row)
         = {r \in Listing(rules) : row \in TheStyle.rules[r].matches}
  BY <1>1 DEF Listing, Matching
<1>5. rules = <<>> => Listing(rules) = {}
  BY DEF Listing
<1> QED
  BY <1>1, <1>2, <1>3, <1>4, <1>5

\* An if rule is applied if it is the first due, or is not due.
LEMMA IfRulePainted ==
    ASSUME IInv, IInv', GroupInv, MatchInv, RulesInv, ReadInv, LayersInv, QueriesInv, IfRule
    PROVE  Painter!ApplyRule \/ UNCHANGED Painter!vars
<1>1. /\ pc = "if" /\ pc' = "if" /\ rules # <<>>
      /\ UNCHANGED <<map, open, style, row>> /\ rules \in Seq(Nat)
  BY DEF IfRule, RulesInv
<1> DEFINE h == Head(rules)
           Matched(S) == {r \in S : row \in TheStyle.rules[r].matches}
<1>2. /\ h \in Listing(rules) /\ Listing(Tail(rules)) = Listing(rules) \ {h}
      /\ \A q \in Listing(rules) \ {h} : h < q
  BY <1>1, TailListing DEF MatchInv
<1>3. /\ Listing(rules) \subseteq RulesIn(TheStyle, "if")
      /\ RulesIn(TheStyle, "if") \subseteq Nat
      /\ flags.do_else =>
           ~flags.do_also /\ Matching(TheStyle, row) = Matched(Listing(rules))
      /\ ~flags.do_else => ~TheStyle.filter_first /\ flags.do_also
  BY <1>1, IfRulesDue
<1>4. \A r \in RulesIn(TheStyle, "if") : r \notin RulesIn(TheStyle, "also")
                                        /\ TheStyle.rules[r].kind = "if"
  BY DEF RulesIn
<1>5. \A r \in RulesIn(TheStyle, "also") : TheStyle.rules[r].kind # "if"
  BY DEF RulesIn
<1>6. CASE /\ row \in TheStyle.rules[h].matches
           /\ Applies(h)
           /\ flags' = [do_else |-> FALSE, do_also |-> ~TheStyle.filter_first,
                        was_painted |-> TRUE]
           /\ rules' = IF TheStyle.filter_first THEN <<>> ELSE Tail(rules)
  <2>1. flags'.do_else = FALSE /\ flags'.do_also = ~TheStyle.filter_first
    BY <1>6
  <2>2. PainterDue' = Matched(Listing(rules')) \cup
                      IF flags'.do_also THEN RulesIn(TheStyle, "also") ELSE {}
    BY <1>1, <2>1, DueNext
  <2> HIDE DEF h
  <2>3. /\ h \in Matched(Listing(rules)) /\ h \notin RulesIn(TheStyle, "also")
        /\ TheStyle.rules[h].kind = "if"
    BY <1>2, <1>3, <1>4, <1>6
  <2>4. CASE TheStyle.filter_first
    <3>1. flags.do_else /\ PainterDue = Due(TheStyle, row)
          /\ Matching(TheStyle, row) = Matched(Listing(rules))
      BY <1>1, <1>3, <2>4, DueNow
    <3>2. \A q \in Matching(TheStyle, row) \ {h} : h < q
      BY <1>2, <3>1
    <3>3. PainterDue = {h}
      BY <1>3, <2>3, <2>4, <3>1, <3>2, DueByKind
    <3>4. PainterDue' = {}
      <4>1. Listing(rules') = {}
        BY <1>6, <2>4 DEF Listing
      <4> QED
        BY <2>1, <2>2, <2>4, <4>1
    <3> QED
      BY <1>1, <1>6, <3>3, <3>4, RuleApplied
  <2>5. CASE ~TheStyle.filter_first
    <3>1. PainterDue = Matched(Listing(rules)) \cup RulesIn(TheStyle, "also")
      <4>1. CASE flags.do_else
        <5>1. /\ PainterDue = Due(TheStyle, row)
              /\ Matching(TheStyle, row) = Matched(Listing(rules))
              /\ Matching(TheStyle, row) # {}
          BY <1>1, <1>3, <2>3, <4>1, DueNow
        <5>2. Due(TheStyle, row) = Matching(TheStyle, row) \cup RulesIn(TheStyle, "also")
          BY <2>5, <5>1, DueByKind
        <5> HIDE DEF Matched
        <5> QED
          BY <5>1, <5>2
      <4>2. CASE ~flags.do_else
        BY <1>1, <1>3, <4>2, DueNow
      <4> QED
        BY <4>1, <4>2
    <3>2. PainterDue' = Matched(Listing(Tail(rules))) \cup RulesIn(TheStyle, "also")
      BY <1>6, <2>1, <2>2, <2>5
    <3>3. PainterDue' = PainterDue \ {h} /\ h \in PainterDue
      BY <1>2, <2>3, <3>1, <3>2
    <3>4. \A q \in PainterDue \ {h} : Painter!Precedes(TheStyle, h, q)
      <4> SUFFICES ASSUME NEW q \in PainterDue, q # h
                   PROVE  Painter!Precedes(TheStyle, h, q)
        OBVIOUS
      <4>1. CASE q \in RulesIn(TheStyle, "also")
        BY <1>5, <2>3, <4>1 DEF Painter!Precedes
      <4>2. CASE q \in Listing(rules)
        BY <1>2, <1>3, <1>4, <2>3, <4>2 DEF Painter!Precedes
      <4> QED
        BY <3>1, <4>1, <4>2
    <3> QED
      BY <1>1, <1>6, <3>3, <3>4, RuleApplied
  <2> QED
    BY <2>4, <2>5
<1>7. CASE /\ row \notin TheStyle.rules[h].matches
           /\ rules' = Tail(rules) /\ UNCHANGED <<flags, aggVars>>
  <2> HIDE DEF h
  <2>1. Matched(Listing(rules')) = Matched(Listing(rules))
    BY <1>2, <1>7
  <2>2. PainterDue' = PainterDue
    <3>1. CASE flags.do_else
      BY <1>1, <1>7, <3>1, DueNow, DueNext
    <3>2. CASE ~flags.do_else
      <4>1. /\ PainterDue = Matched(Listing(rules)) \cup
                            IF flags.do_also THEN RulesIn(TheStyle, "also") ELSE {}
            /\ PainterDue' = Matched(Listing(rules')) \cup
                            IF flags.do_also THEN RulesIn(TheStyle, "also") ELSE {}
        BY <1>1, <1>7, <3>2, DueNow, DueNext
      <4> QED
        BY <2>1, <4>1
    <3> QED
      BY <3>1, <3>2
  <2> QED
    BY <1>7, <2>2, NoRuleApplied
<1> QED
  BY <1>6, <1>7, Zenon DEF IfRule

\* What follows the if rules are the else rules or the also rules that are due.
LEMMA ElseAndAlsoPainted ==
    ASSUME GroupInv, MatchInv, RulesInv, ReadInv, LayersInv, QueriesInv, ElseAndAlso
    PROVE  UNCHANGED Painter!vars
<1>1. /\ pc = "if" /\ pc' = "other" /\ rules = <<>> /\ InStyle
      /\ UNCHANGED <<map, open, style, row, aggVars>>
      /\ rules' = (IF flags.do_else THEN RulesOf(TheStyle, "else") ELSE <<>>)
                   \o (IF flags.do_also THEN RulesOf(TheStyle, "also") ELSE <<>>)
  BY Zenon DEF ElseAndAlso, Goto, InStyle
<1>2. /\ Listing(rules) = {}
      /\ flags.do_else =>
           /\ ~flags.do_also
           /\ Matching(TheStyle, row)
                 = {r \in Listing(rules) : row \in TheStyle.rules[r].matches}
  BY <1>1, IfRulesDue
<1>3. rules' = IF flags.do_else THEN RulesOf(TheStyle, "else")
               ELSE IF flags.do_also THEN RulesOf(TheStyle, "also") ELSE <<>>
  BY <1>1, <1>2, WhatFollows
<1>4. ASSUME NEW kind PROVE Listing(RulesOf(TheStyle, kind)) = RulesIn(TheStyle, kind)
  <2>1. /\ \A k \in DOMAIN RulesOf(TheStyle, kind) :
              RulesOf(TheStyle, kind)[k] \in RulesIn(TheStyle, kind)
        /\ \A r \in RulesIn(TheStyle, kind) :
              \E k \in DOMAIN RulesOf(TheStyle, kind) : RulesOf(TheStyle, kind)[k] = r
    BY <1>1, StyleInOrder
  <2> HIDE DEF RulesOf, RulesIn
  <2> QED
    BY <2>1 DEF Listing
<1>5. PainterDue' = Listing(rules')
  BY <1>1, DueNext
<1>6. CASE flags.do_else
  <2>1. PainterDue = Due(TheStyle, row) /\ Matching(TheStyle, row) = {}
    BY <1>1, <1>2, <1>6, DueNow
  <2>2. Due(TheStyle, row) = RulesIn(TheStyle, "else")
    BY <2>1, DueByKind
  <2>3. PainterDue' = RulesIn(TheStyle, "else")
    BY <1>3, <1>4, <1>5, <1>6
  <2> QED
    BY <1>1, <2>1, <2>2, <2>3, NoRuleApplied
<1>7. CASE ~flags.do_else
  <2>1. PainterDue = IF flags.do_also THEN RulesIn(TheStyle, "also") ELSE {}
    <3>1. PainterDue = {r \in Listing(rules) : row \in TheStyle.rules[r].matches}
                       \cup IF flags.do_also THEN RulesIn(TheStyle, "also") ELSE {}
      BY <1>1, <1>7, DueNow
    <3> QED
      BY <1>2, <3>1
  <2>2. PainterDue' = IF flags.do_also THEN RulesIn(TheStyle, "also") ELSE {}
    <3>1. Listing(<<>>) = {}
      BY DEF Listing
    <3> QED
      BY <1>3, <1>4, <1>5, <1>7, <3>1
  <2> QED
    BY <1>1, <2>1, <2>2, NoRuleApplied
<1> QED
  BY <1>6, <1>7

\* The rules that follow are applied in their order, until none is due.
LEMMA OtherRulePainted ==
    ASSUME IInv, IInv', GroupInv, MatchInv, RulesInv, OtherRule
    PROVE  Painter!ApplyRule \/ UNCHANGED Painter!vars
<1>1. /\ pc = "other" /\ UNCHANGED <<map, open, style, row>> /\ rules \in Seq(Nat)
      /\ PainterDue = Listing(rules)
  BY DueNow DEF OtherRule, RulesInv
<1>2. CASE rules # <<>> /\ Applies(Head(rules)) /\ rules' = Tail(rules) /\ pc' = pc
  <2>1. /\ Head(rules) \in Listing(rules) /\ Listing(rules) \subseteq Nat
        /\ Listing(Tail(rules)) = Listing(rules) \ {Head(rules)}
        /\ \A q \in Listing(rules) \ {Head(rules)} : Head(rules) < q
    BY <1>1, <1>2, TailListing DEF MatchInv
  <2> DEFINE h == Head(rules)
  <2>2. \A q \in Listing(rules) : TheStyle.rules[q].kind # "if"
    BY <1>1 DEF MatchInv, Listing
  <2>3. PainterDue' = Listing(rules')
    BY <1>1, <1>2, DueNext
  <2> HIDE DEF h
  <2>4. PainterDue' = PainterDue \ {h} /\ h \in PainterDue
    BY <1>1, <1>2, <2>1, <2>3 DEF h
  <2>5. \A q \in PainterDue \ {h} : Painter!Precedes(TheStyle, h, q)
    BY <1>1, <2>1, <2>2 DEF Painter!Precedes, h
  <2>6. Applies(h) /\ pc' # "rows"
    BY <1>1, <1>2 DEF h
  <2> QED
    BY <2>4, <2>5, <2>6, RuleApplied
<1>3. CASE rules = <<>> /\ pc' = "rows" /\ UNCHANGED <<rules, flags, aggVars>>
  <2>1. PainterDue = {} /\ PainterDue' = {}
    BY <1>1, <1>3, DueNext DEF Listing
  <2> QED
    BY <1>3, <2>1, NoRuleApplied
<1> QED
  BY <1>2, <1>3, Zenon DEF OtherRule, Goto

\* Where nothing changes the painter rests.
LEMMA UnchangedUnseen ==
    ASSUME UNCHANGED vars
    PROVE  UNCHANGED Painter!vars
<1>1. /\ UNCHANGED <<map, pc, stored, todo, open, style, buffer, row, rules, flags>>
      /\ UNCHANGED <<queries, read>> /\ UNCHANGED aggVars
  BY DEF vars, aggVars
<1>2. /\ PainterCanvases' = PainterCanvases
  BY <1>1, CanvasesKept
<1>3. PainterBegun' = PainterBegun /\ PainterPhase' = PainterPhase
  BY <1>1 DEF PainterBegun, PainterPhase, Unrendered
<1>4. PainterFrom' = PainterFrom /\ PainterStyle' = PainterStyle
  BY <1>1 DEF PainterFrom, PainterStyle, InStyle
<1>5. PainterFeature' = PainterFeature
  <2>1. TheLayer' = TheLayer /\ Source(TheLayer)' = Source(TheLayer) /\ Current' = Current
    BY <1>1, SameView
  <2>2. QueryOf(Current, style)' = QueryOf(Current, style)
    BY <1>1, <2>1 DEF QueryOf
  <2>3. Taken' = Taken
    BY <1>1, <2>1, <2>2 DEF Taken, InStyle
  <2> QED
    BY <1>1, <1>4, <2>3 DEF PainterFeature, InStyle
<1>6. PainterDue' = PainterDue
  <2>1. TheStyle' = TheStyle
    BY <1>1, SameStyle
  <2> QED
    BY <1>1, <2>1 DEF PainterDue, Due, RulesIn
<1> QED
  BY <1>1, <1>2, <1>3, <1>4, <1>5, <1>6, Zenon DEF Painter!vars

PainterInv == AllPrepared /\ GroupInv /\ MatchInv

\* What the refinement rests on holds of every rendering: the buffer holds
\* consecutive features of one group and the feature ahead is the first of the
\* next, and no rule that matches the feature at hand is passed over.
THEOREM PainterInvariance == Spec => []PainterInv
<1>1. Init => PainterInv
  BY InitPrepared, InitGroup, InitMatch DEF PainterInv
<1>2. /\ PainterInv /\ [Next]_vars
      /\ LayersInv /\ QueriesInv /\ ReadInv /\ HandInv /\ RulesInv
      => PainterInv'
  BY StepPrepared, StepGroup, StepMatch DEF PainterInv
<1> QED
  BY <1>1, <1>2, ReadingInvariance, DataInvariance, PTL DEF Spec

\* Every step of the processor is one of the painter's, or is none of his
\* business.
LEMMA StepPainted ==
    ASSUME IInv, IInv', LayersInv, QueriesInv, ReadInv, HandInv, HandInv', RulesInv,
           PainterInv, PainterInv', [Next]_vars
    PROVE  [Painter!Next]_(Painter!vars)
<1> USE DEF PainterInv
<1>1. CASE StartMapProcessing \/ PrepareLayer \/ BeginRendering
  BY <1>1, PreparingUnseen
<1>2. CASE OpenLayer \/ CloseLayer \/ EndMapProcessing
  <2>1. Painter!BeginLayer \/ Painter!EndLayer \/ Painter!Finish
    BY <1>2, OpenLayerPainted, CloseLayerPainted, EndMapPainted
  <2> QED
    BY <2>1, Zenon DEF Painter!Next
<1>3. CASE RenderMaterial \/ Fetch \/ EndPass
  <2>1. \/ Painter!LeaveStyles \/ Painter!NextGroup
        \/ UNCHANGED Painter!vars
    BY <1>3, RenderMaterialPainted, FetchUnseen, EndPassPainted
  <2> QED
    BY <2>1, Zenon DEF Painter!Next
<1>4. CASE BeginStyle \/ NextRow
  <2>1. Painter!BeginStyle \/ Painter!EndStyle \/ Painter!TakeFeature
    BY <1>4, BeginStylePainted, NextRowPainted
  <2> QED
    BY <2>1, Zenon DEF Painter!Next
<1>5. CASE IfRule \/ ElseAndAlso \/ OtherRule
  <2>1. Painter!ApplyRule \/ UNCHANGED Painter!vars
    BY <1>5, IfRulePainted, ElseAndAlsoPainted, OtherRulePainted
  <2> QED
    BY <2>1, Zenon DEF Painter!Next
<1>6. CASE Throws
  <2>1. Painter!GiveUp
    BY <1>6, ThrowPainted
  <2> QED
    BY <2>1, Zenon DEF Painter!Next
<1>7. CASE UNCHANGED vars
  BY <1>7, UnchangedUnseen
<1> QED
  BY <1>1, <1>2, <1>3, <1>4, <1>5, <1>6, <1>7, Zenon DEF Next

\* For every map: whichever way the features are read, buffered and grouped,
\* and on whichever buffers they are drawn, the rendering is the work of the
\* painter, who knows of none of this.
THEOREM ImplementsPainter == Spec => FollowsPainter
<1>1. /\ IInv /\ IInv' /\ LayersInv /\ QueriesInv /\ ReadInv /\ HandInv /\ HandInv'
      /\ RulesInv /\ PainterInv /\ PainterInv' /\ [Next]_vars
      => [Painter!Next]_(Painter!vars)
  BY StepPainted
<1> QED
  BY <1>1, InitPainter, Invariance, ReadingInvariance, DataInvariance, PainterInvariance,
     PTL DEF Spec, FollowsPainter, Painter!Spec
=============================================================================
