------------------------ MODULE LabelPlacementProofs ------------------------
(***************************************************************************)
(* What LabelPlacement promises, for every set of labels, every key, every *)
(* extent and every canvas.  The argument: the detectors hold exactly what *)
(* was placed under their keys since they were last cleared, so a box that *)
(* the detectors call free is free of everything placed that they know.    *)
(***************************************************************************)
EXTENDS LabelPlacement, SequenceTheorems, TLAPS

(***************************************************************************)
(* What each step does.                                                    *)
(***************************************************************************)
\* Every box of a placement was free when it was tested.
Tested(boxes) ==
    ~Candidate.overlap =>
        \A b \in boxes : HasPlacement(b, MarginOf(label.kind, Candidate), Candidate.text,
                                      RepeatOf(label.kind, Candidate), Candidate.detect)

Place == PlaceText \/ PlaceLine \/ PlaceShield \/ PlaceMarker \/ PlaceCollision

\* A test that did not call a box a collision has seen it free.
LEMMA FreeIfNoOverlap ==
    ASSUME NEW boxes, \A b \in boxes : ~Overlaps(label.kind, Candidate, b)
    PROVE  Tested(boxes)
  BY DEF Tested, Overlaps

LEMMA FreeIfNoCollision ==
    ASSUME NEW boxes, \A b \in boxes : ~Collision(label.kind, Candidate, b)
    PROVE  Tested(boxes)
  <1>1. \A b \in boxes : ~Overlaps(label.kind, Candidate, b)
    BY DEF Collision
  <1> QED BY <1>1, FreeIfNoOverlap

\* A text that was placed has only glyphs that passed the test.
LEMMA TextBoxesTested ==
    ASSUME NEW glyphs, TextPlaced(label.kind, Candidate, glyphs)
    PROVE  \A b \in TextBoxes(label.kind, Candidate, glyphs) :
               ~Collision(label.kind, Candidate, b)
  BY DEF TextPlaced, TextBoxes, GlyphsFit, Range

LEMMA LineBoxesTested ==
    ASSUME NEW spot, LineFits(Candidate, spot)
    PROVE  \A b \in LineBoxes(spot) : ~Collision("line", Candidate, b)
  BY DEF LineFits, LineBoxes

\* A step that tries a spot either refuses it and changes nothing, or
\* places boxes that were all free.
LEMMA PlaceRefusesOrSucceeds ==
    ASSUME Place
    PROVE  AtSpot /\ (Refuse \/ \E boxes, entries : Tested(boxes) /\ Succeed(boxes, entries))
  <1>1. CASE PlaceText
    <2>1. CASE TextPlaced("text", Candidate, Spot.glyphs)
      <3>1. Tested(TextBoxes("text", Candidate, Spot.glyphs))
        BY <1>1, <2>1, TextBoxesTested, FreeIfNoCollision DEF PlaceText
      <3> QED BY <1>1, <2>1, <3>1 DEF PlaceText
    <2> QED BY <1>1, <2>1 DEF PlaceText
  <1>2. CASE PlaceLine
    <2>1. CASE LineFits(Candidate, Spot)
      <3>1. Tested(LineBoxes(Spot))
        BY <1>2, <2>1, LineBoxesTested, FreeIfNoCollision DEF PlaceLine
      <3> QED BY <1>2, <2>1, <3>1 DEF PlaceLine
    <2> QED BY <1>2, <2>1 DEF PlaceLine
  <1>3. CASE PlaceShield
    <2> DEFINE c == Candidate
               marker == Range(Spot.marker)
               skips == MarkerSkips(c, marker)
               boxes == IF skips THEN {} ELSE TextBoxes("shield", c, Spot.glyphs)
               image == IF skips THEN {} ELSE marker
               fits == /\ TextPlaced("shield", c, Spot.glyphs)
                       /\ skips \/ \A b \in marker : ~Collision("shield", c, b)
    <2>0. AtSpot /\ label.kind = "shield"
      BY <1>3 DEF PlaceShield
    <2>1. CASE fits
      <3>1. \A b \in boxes : ~Collision("shield", c, b)
        BY <2>0, <2>1, TextBoxesTested
      <3>2. \A b \in image : ~Collision("shield", c, b)
        BY <2>1
      <3>3. Tested(boxes \cup image)
        BY <2>0, <3>1, <3>2, FreeIfNoCollision
      <3>4. Succeed(boxes \cup image, Entries(boxes, c.text) \cup Entries(image, NoText))
        BY <1>3, <2>1 DEF PlaceShield
      <3> QED BY <2>0, <3>3, <3>4
    <2>2. CASE ~fits
      BY <1>3, <2>2 DEF PlaceShield
    <2> QED BY <2>1, <2>2
  <1>4. CASE PlaceMarker
    <2> DEFINE boxes == Range(Spot.glyphs)
               fits == /\ ~Spot.stuck
                       /\ \A b \in boxes : /\ Candidate.edges => Inside(Extent, b)
                                           /\ ~Overlaps("marker", Candidate, b)
    <2>1. CASE fits
      <3>1. Tested(boxes)
        BY <1>4, <2>1, FreeIfNoOverlap DEF PlaceMarker
      <3> QED BY <1>4, <2>1, <3>1 DEF PlaceMarker
    <2>2. CASE ~fits
      BY <1>4, <2>2 DEF PlaceMarker
    <2> QED BY <2>1, <2>2
  <1>5. CASE PlaceCollision
    <2>1. CASE \A b \in Range(Spot.glyphs) : ~Overlaps("collision", Candidate, b)
      <3>1. Tested(Range(Spot.glyphs))
        BY <1>5, <2>1, FreeIfNoOverlap DEF PlaceCollision
      <3> QED BY <1>5, <2>1, <3>1 DEF PlaceCollision
    <2> QED BY <1>5, <2>1 DEF PlaceCollision
  <1> QED BY <1>1, <1>2, <1>3, <1>4, <1>5 DEF Place

\* The history grows at its end.
LEMMA HistoryGrows ==
    ASSUME NEW s, s \in Seq(Range(s)), NEW e
    PROVE  /\ Append(s, e) \in Seq(Range(Append(s, e)))
           /\ Len(s) \in Nat /\ DOMAIN s = 1 .. Len(s)
           /\ DOMAIN Append(s, e) = 1 .. Len(s) + 1
           /\ \A i \in 1 .. Len(s) : Append(s, e)[i] = s[i]
           /\ Append(s, e)[Len(s) + 1] = e
  <1> DEFINE S == Range(s) \cup {e}
             t == Append(s, e)
  <1>1. s \in Seq(S)
    BY SMT
  <1>2. /\ t \in Seq(S) /\ Len(t) = Len(s) + 1 /\ DOMAIN s = 1 .. Len(s)
        /\ \A i \in 1 .. Len(s) : t[i] = s[i]
        /\ t[Len(s) + 1] = e
    BY <1>1, AppendProperties
  <1>3. Len(s) \in Nat /\ DOMAIN t = 1 .. Len(s) + 1
    BY <1>1, <1>2
  <1>4. t \in Seq(Range(t))
    <2>1. \A i \in 1 .. Len(t) : t[i] \in Range(t)
      BY <1>2, <1>3 DEF Range
    <2> QED BY <1>2, <2>1
  <1> QED BY <1>2, <1>3, <1>4

(***************************************************************************)
(* The history and the detectors.                                          *)
(***************************************************************************)
HistoryOK ==
    /\ placed \in Seq(Range(placed))
    /\ calls \in Nat /\ epoch \in Nat
    /\ \A i \in DOMAIN placed :
         /\ placed[i].label \in Labels
         /\ placed[i].epoch \in Nat /\ placed[i].epoch <= epoch
         /\ placed[i].call \in Nat /\ placed[i].call <= calls
    /\ label \in Labels \cup {NoLabel}
    /\ DOMAIN detectors = Keys

\* The placements a detector holds.
In(k) == {n \in DOMAIN placed : /\ k \in Effective(placed[n].label.insert)
                                /\ k # Default \/ placed[n].epoch = epoch}

\* What a step can do to the detectors and to the history.
LEMMA Steps ==
    ASSUME Next
    PROVE  \/ AtSpot /\ \E boxes, entries : Tested(boxes) /\ Succeed(boxes, entries)
           \/ StartClearingLayer
           \/ \E l \in Labels : Symbolize(l)
           \/ UNCHANGED <<detectors, epoch, calls, placed>> /\ label' \in {label, NoLabel}
  <1>1. CASE Place
    BY <1>1, PlaceRefusesOrSucceeds DEF Refuse, Move
  <1>2. CASE LeavePosition
    BY <1>2 DEF LeavePosition
  <1>3. CASE NextCandidate
    BY <1>3 DEF NextCandidate
  <1>4. CASE EndSymbolizer
    BY <1>4 DEF EndSymbolizer
  <1> QED BY <1>1, <1>2, <1>3, <1>4 DEF Next, Place

LEMMA HistoryInit == Init => HistoryOK
  <1> SUFFICES ASSUME Init PROVE HistoryOK
    OBVIOUS
  <1>1. placed = <<>> /\ calls = 0 /\ epoch = 0 /\ label = NoLabel
    BY DEF Init
  <1>2. placed \in Seq(Range(placed)) /\ DOMAIN placed = {}
    BY <1>1
  <1>3. DOMAIN detectors = Keys
    BY DEF Init
  <1> QED BY <1>1, <1>2, <1>3 DEF HistoryOK

LEMMA HistoryKept == HistoryOK /\ [Next]_vars => HistoryOK'
  <1> SUFFICES ASSUME HistoryOK, [Next]_vars PROVE HistoryOK'
    OBVIOUS
  <1>0. /\ placed \in Seq(Range(placed))
        /\ calls \in Nat /\ epoch \in Nat
        /\ \A i \in DOMAIN placed :
             /\ placed[i].label \in Labels
             /\ placed[i].epoch \in Nat /\ placed[i].epoch <= epoch
             /\ placed[i].call \in Nat /\ placed[i].call <= calls
        /\ label \in Labels \cup {NoLabel}
        /\ DOMAIN detectors = Keys
    BY DEF HistoryOK
  <1>1. ASSUME AtSpot, NEW boxes, NEW entries, Succeed(boxes, entries)
        PROVE  HistoryOK'
    <2> DEFINE e == [call |-> calls, label |-> label, cand |-> cand, pos |-> Position,
                     boxes |-> boxes, entries |-> entries, epoch |-> epoch]
    <2>1. placed' = Append(placed, e) /\ calls' = calls /\ epoch' = epoch /\ label' = label
      BY <1>1 DEF Succeed, Move
    <2>2. label \in Labels
      BY <1>0, <1>1 DEF AtSpot
    <2>3. e.label = label /\ e.epoch = epoch /\ e.call = calls
      OBVIOUS
    <2> HIDE DEF e
    <2>4. /\ Append(placed, e) \in Seq(Range(Append(placed, e)))
          /\ Len(placed) \in Nat /\ DOMAIN placed = 1 .. Len(placed)
          /\ DOMAIN Append(placed, e) = 1 .. Len(placed) + 1
          /\ \A i \in 1 .. Len(placed) : Append(placed, e)[i] = placed[i]
          /\ Append(placed, e)[Len(placed) + 1] = e
      BY <1>0, HistoryGrows
    <2>5. placed' \in Seq(Range(placed'))
      BY <2>1, <2>4
    <2>6. \A i \in DOMAIN placed' : (i \in DOMAIN placed /\ placed'[i] = placed[i])
                                    \/ placed'[i] = e
      BY <2>1, <2>4
    <2>7. \A i \in DOMAIN placed' :
             /\ placed'[i].label \in Labels
             /\ placed'[i].epoch \in Nat /\ placed'[i].epoch <= epoch'
             /\ placed'[i].call \in Nat /\ placed'[i].call <= calls'
      BY <1>0, <2>1, <2>2, <2>3, <2>6
    <2>8. (Range(placed))' = Range(placed')
      BY DEF Range
    <2>9. DOMAIN detectors' = Keys
      BY <1>1 DEF Succeed, Push
    <2> QED BY <1>0, <2>1, <2>5, <2>7, <2>8, <2>9 DEF HistoryOK
  <1>2. CASE StartClearingLayer
    <2>1. placed' = placed /\ calls' = calls /\ epoch' = epoch + 1 /\ label' = label
          /\ DOMAIN detectors' = DOMAIN detectors
      BY <1>2 DEF StartClearingLayer
    <2> QED BY <1>0, <2>1 DEF HistoryOK, Range
  <1>3. ASSUME NEW l \in Labels, Symbolize(l)
        PROVE  HistoryOK'
    <2>1. placed' = placed /\ calls' = calls + 1 /\ epoch' = epoch /\ label' = l
          /\ detectors' = detectors
      BY <1>3 DEF Symbolize
    <2> QED BY <1>0, <2>1 DEF HistoryOK, Range
  <1>4. CASE UNCHANGED <<detectors, epoch, calls, placed>> /\ label' \in {label, NoLabel}
    BY <1>0, <1>4 DEF HistoryOK, Range
  <1>5. CASE UNCHANGED vars
    BY <1>0, <1>5 DEF HistoryOK, Range, vars
  <1> QED BY <1>1, <1>2, <1>3, <1>4, <1>5, Steps

\* What was placed under a key and not cleared since is in its detector.
LEMMA KnownIsHeld ==
    ASSUME HistoryOK, NothingButThePlaced,
           NEW i \in DOMAIN placed, NEW k \in Effective(placed[i].label.insert),
           k # Default \/ placed[i].epoch = epoch
    PROVE  Kept(placed[i].entries) \subseteq detectors[k]
  <1>1. placed[i].label \in Labels
    BY DEF HistoryOK
  <1>2. k \in Keys
    BY <1>1, LabelsAssumption DEF Effective
  <1> QED BY <1>2 DEF NothingButThePlaced

LEMMA HeldInit == Init => NothingButThePlaced
  BY DEF Init, NothingButThePlaced

LEMMA HeldKept ==
    HistoryOK /\ NothingButThePlaced /\ [Next]_vars => NothingButThePlaced'
  <1> SUFFICES ASSUME HistoryOK, NothingButThePlaced, [Next]_vars
               PROVE  NothingButThePlaced'
    OBVIOUS
  <1>0. /\ placed \in Seq(Range(placed)) /\ epoch \in Nat
        /\ \A i \in DOMAIN placed : placed[i].epoch \in Nat /\ placed[i].epoch <= epoch
    BY DEF HistoryOK
  <1>a. \A k \in Keys : detectors[k] = UNION {Kept(placed[n].entries) : n \in In(k)}
    BY DEF NothingButThePlaced, In
  <1>b. DOMAIN detectors = Keys
    BY DEF HistoryOK
  <1> SUFFICES ASSUME NEW k \in Keys
               PROVE  detectors'[k] = UNION {Kept(placed'[n].entries) : n \in In(k)'}
    BY DEF NothingButThePlaced, In, Kept
  <1>1. ASSUME AtSpot, NEW boxes, NEW entries, Succeed(boxes, entries)
        PROVE  detectors'[k] = UNION {Kept(placed'[n].entries) : n \in In(k)'}
    <2> DEFINE e == [call |-> calls, label |-> label, cand |-> cand, pos |-> Position,
                     boxes |-> boxes, entries |-> entries, epoch |-> epoch]
               new == IF k \in Effective(label.insert) THEN Kept(entries) ELSE {}
    <2>1. placed' = Append(placed, e) /\ epoch' = epoch
      BY <1>1 DEF Succeed, Move
    <2>2. detectors'[k] = detectors[k] \cup new
      BY <1>1 DEF Succeed, Push
    <2>3. e.label = label /\ e.epoch = epoch /\ e.entries = entries
      OBVIOUS
    <2> HIDE DEF e
    <2>4. /\ Len(placed) \in Nat /\ DOMAIN placed = 1 .. Len(placed)
          /\ DOMAIN placed' = 1 .. Len(placed) + 1
          /\ \A i \in 1 .. Len(placed) : placed'[i] = placed[i]
          /\ placed'[Len(placed) + 1] = e
      BY <1>0, <2>1, HistoryGrows
    <2>5. \A n \in 1 .. Len(placed) : n \in In(k)' <=> n \in In(k)
      BY <2>1, <2>4 DEF In
    <2>6. Len(placed) + 1 \in In(k)' <=> k \in Effective(label.insert)
      BY <2>1, <2>3, <2>4 DEF In
    <2>7. \A n \in In(k)' : n \in 1 .. Len(placed) \/ n = Len(placed) + 1
      BY <2>4 DEF In
    <2>8. In(k) \subseteq 1 .. Len(placed)
      BY <2>4 DEF In
    <2>9. ASSUME NEW x
          PROVE  x \in detectors[k] \cup new
                 <=> \E n \in In(k)' : x \in Kept(placed'[n].entries)
      <3>1. x \in detectors[k] <=> \E n \in In(k) : x \in Kept(placed[n].entries)
        BY <1>a
      <3>2. x \in new <=> Len(placed) + 1 \in In(k)'
                          /\ x \in Kept(placed'[Len(placed) + 1].entries)
        BY <2>3, <2>4, <2>6
      <3>3. ASSUME x \in detectors[k]
            PROVE  \E n \in In(k)' : x \in Kept(placed'[n].entries)
        BY <2>4, <2>5, <2>8, <3>1, <3>3
      <3>4. ASSUME NEW n \in In(k)', x \in Kept(placed'[n].entries)
            PROVE  x \in detectors[k] \cup new
        <4>1. CASE n \in 1 .. Len(placed)
          BY <2>4, <2>5, <3>1, <3>4, <4>1
        <4>2. CASE n = Len(placed) + 1
          BY <3>2, <3>4, <4>2
        <4> QED BY <2>7, <3>4, <4>1, <4>2
      <3> QED BY <3>2, <3>3, <3>4
    <2> QED BY <2>2, <2>9
  <1>2. CASE StartClearingLayer
    <2>1. placed' = placed /\ epoch' = epoch + 1
          /\ detectors' = [detectors EXCEPT ![Default] = {}]
      BY <1>2 DEF StartClearingLayer
    <2>2. CASE k = Default
      <3>1. In(k)' = {}
        BY <1>0, <2>1, <2>2 DEF In
      <3>2. detectors'[k] = {}
        BY <1>b, <2>1, <2>2
      <3> QED BY <3>1, <3>2
    <2>3. CASE k # Default
      <3>1. In(k)' = In(k)
        BY <2>1, <2>3 DEF In
      <3>2. detectors'[k] = detectors[k]
        BY <2>1, <2>3
      <3> QED BY <1>a, <2>1, <3>1, <3>2
    <2> QED BY <2>2, <2>3
  <1>3. ASSUME UNCHANGED <<detectors, epoch, placed>>
        PROVE  detectors'[k] = UNION {Kept(placed'[n].entries) : n \in In(k)'}
    <2>1. In(k)' = In(k)
      BY <1>3 DEF In
    <2> QED BY <1>3, <1>a, <2>1
  <1>4. ASSUME NEW l \in Labels, Symbolize(l)
        PROVE  UNCHANGED <<detectors, epoch, placed>>
    BY <1>4 DEF Symbolize
  <1> QED BY <1>1, <1>2, <1>3, <1>4, Steps DEF vars

(***************************************************************************)
(* What two placements owe each other.  Both promises are about the same   *)
(* fact: a box that was tested under a key is free of what the detector of *)
(* that key holds.                                                         *)
(***************************************************************************)
Apart(p, q) ==
    ~Props(q).overlap /\ Knew(q, p) =>
        \A b \in q.boxes :
            Free(Kept(p.entries), b, MarginFor(q), Props(q).text, RepeatFor(q))

AllApart == \A i, j \in DOMAIN placed : i < j => Apart(placed[i], placed[j])

LEMMA ApartInit == Init => AllApart
  BY DEF Init, AllApart

\* Fewer entries are free of at least as much.
LEMMA FreeOfFewer ==
    ASSUME NEW some, NEW more, some \subseteq more,
           NEW b, NEW margin, NEW text, NEW repeat, Free(more, b, margin, text, repeat)
    PROVE  Free(some, b, margin, text, repeat)
  BY DEF Free

LEMMA ApartKept ==
    HistoryOK /\ NothingButThePlaced /\ AllApart /\ [Next]_vars => AllApart'
  <1> SUFFICES ASSUME HistoryOK, NothingButThePlaced, AllApart, [Next]_vars
               PROVE  AllApart'
    OBVIOUS
  <1>1. ASSUME AtSpot, NEW boxes, NEW entries, Tested(boxes), Succeed(boxes, entries)
        PROVE  AllApart'
    <2> DEFINE e == [call |-> calls, label |-> label, cand |-> cand, pos |-> Position,
                     boxes |-> boxes, entries |-> entries, epoch |-> epoch]
    <2>1. placed' = Append(placed, e)
      BY <1>1 DEF Succeed
    <2>2. /\ Props(e) = Candidate /\ e.epoch = epoch /\ e.boxes = boxes
          /\ MarginFor(e) = MarginOf(label.kind, Candidate)
          /\ RepeatFor(e) = RepeatOf(label.kind, Candidate)
      BY DEF Props, MarginFor, RepeatFor, Candidate
    <2> HIDE DEF e
    <2>3. /\ Len(placed) \in Nat /\ DOMAIN placed = 1 .. Len(placed)
          /\ DOMAIN placed' = 1 .. Len(placed) + 1
          /\ \A i \in 1 .. Len(placed) : placed'[i] = placed[i]
          /\ placed'[Len(placed) + 1] = e
      BY <2>1, HistoryGrows DEF HistoryOK
    <2>4. ASSUME NEW i \in DOMAIN placed
          PROVE  Apart(placed[i], e)
      <3> SUFFICES ASSUME ~Candidate.overlap, Knew(e, placed[i]), NEW b \in boxes
                   PROVE  Free(Kept(placed[i].entries), b, MarginOf(label.kind, Candidate),
                               Candidate.text, RepeatOf(label.kind, Candidate))
        BY <2>2 DEF Apart
      <3>1. PICK k \in Effective(Candidate.detect) \cap Effective(placed[i].label.insert) :
                k # Default \/ placed[i].epoch = epoch
        BY <2>2 DEF Knew
      <3>2. Kept(placed[i].entries) \subseteq detectors[k]
        BY <3>1, KnownIsHeld
      <3>3. HasPlacement(b, MarginOf(label.kind, Candidate), Candidate.text,
                         RepeatOf(label.kind, Candidate), Candidate.detect)
        BY <1>1 DEF Tested
      <3>4. Free(detectors[k], b, MarginOf(label.kind, Candidate),
                 Candidate.text, RepeatOf(label.kind, Candidate))
        BY <3>1, <3>3 DEF HasPlacement
      <3> QED BY <3>2, <3>4, FreeOfFewer
    <2>5. ASSUME NEW i \in DOMAIN placed', NEW j \in DOMAIN placed', i < j
          PROVE  Apart(placed'[i], placed'[j])
      <3>1. i \in DOMAIN placed /\ placed'[i] = placed[i]
        BY <2>3, <2>5
      <3>2. CASE j \in DOMAIN placed
        BY <2>3, <2>5, <3>1, <3>2 DEF AllApart
      <3>3. CASE j = Len(placed) + 1
        BY <2>3, <2>4, <3>1, <3>3
      <3> QED BY <2>3, <3>2, <3>3
    <2> QED BY <2>5 DEF AllApart
  <1>2. ASSUME placed' = placed
        PROVE  AllApart'
    BY <1>2 DEF AllApart
  <1>3. StartClearingLayer => placed' = placed
    BY DEF StartClearingLayer
  <1>4. ASSUME NEW l \in Labels
        PROVE  Symbolize(l) => placed' = placed
    BY DEF Symbolize
  <1> QED BY <1>1, <1>2, <1>3, <1>4, Steps DEF vars

LEMMA SafetyHolds == Spec => [](HistoryOK /\ NothingButThePlaced /\ AllApart)
  <1>1. Init => HistoryOK /\ NothingButThePlaced /\ AllApart
    BY HistoryInit, HeldInit, ApartInit
  <1>2. HistoryOK /\ NothingButThePlaced /\ AllApart /\ [Next]_vars
        => (HistoryOK /\ NothingButThePlaced /\ AllApart)'
    BY HistoryKept, HeldKept, ApartKept
  <1> QED BY <1>1, <1>2, PTL DEF Spec

\* Nothing is left behind by what was refused, and nothing placed is
\* forgotten before its key is cleared (collision_cache.hpp, push and clear;
\* the try_placement functions).
THEOREM DetectorsHoldThePlaced == Spec => []NothingButThePlaced
  BY SafetyHolds, PTL

\* No label that may not overlap touches, within its margin, what its
\* detectors know to be there.
THEOREM LabelsStandClear == Spec => []NoForbiddenOverlap
  <1>1. AllApart => NoForbiddenOverlap
    BY DEF AllApart, Apart, Free, NoForbiddenOverlap
  <1> QED BY SafetyHolds, <1>1, PTL

\* Equal texts keep their repeat-distance.
THEOREM RepeatsStandApart == Spec => []RepeatApart
  <1>1. AllApart => RepeatApart
    BY DEF AllApart, Apart, Free, RepeatApart
  <1> QED BY SafetyHolds, <1>1, PTL

(***************************************************************************)
(* The cursor, and the alternatives of one position.                       *)
(***************************************************************************)
LEMMA RemoveAtFacts ==
    ASSUME NEW S, NEW s \in Seq(S), NEW i \in 1 .. Len(s)
    PROVE  /\ RemoveAt(s, i) \in Seq(S)
           /\ Len(RemoveAt(s, i)) = Len(s) - 1
           /\ \A j \in 1 .. Len(s) - 1 :
                RemoveAt(s, i)[j] = IF j < i THEN s[j] ELSE s[j + 1]
  <1> DEFINE a == SubSeq(s, 1, i - 1)
             b == SubSeq(s, i + 1, Len(s))
             t == a \o b
  <1>0. Len(s) \in Nat /\ \A j \in 1 .. Len(s) : s[j] \in S
    OBVIOUS
  <1>1. /\ a \in Seq(S) /\ Len(a) = i - 1
        /\ \A j \in 1 .. i - 1 : a[j] = s[j]
    <2>1. \A j \in 1 .. i - 1 : s[j] \in S
      BY <1>0
    <2>2. /\ a \in Seq(S)
          /\ Len(a) = IF 1 <= i - 1 THEN i - 1 - 1 + 1 ELSE 0
          /\ \A j \in 1 .. i - 1 - 1 + 1 : a[j] = s[1 + j - 1]
      BY <2>1, SubSeqProperties
    <2> QED BY <2>2
  <1>2. /\ b \in Seq(S) /\ Len(b) = Len(s) - i
        /\ \A j \in 1 .. Len(s) - i : b[j] = s[i + j]
    <2>1. \A j \in i + 1 .. Len(s) : s[j] \in S
      BY <1>0
    <2>2. /\ b \in Seq(S)
          /\ Len(b) = IF i + 1 <= Len(s) THEN Len(s) - (i + 1) + 1 ELSE 0
          /\ \A j \in 1 .. Len(s) - (i + 1) + 1 : b[j] = s[i + 1 + j - 1]
      BY <1>0, <2>1, SubSeqProperties
    <2> QED BY <1>0, <2>2
  <1>3. /\ t \in Seq(S) /\ Len(t) = Len(a) + Len(b)
        /\ \A j \in 1 .. Len(a) + Len(b) :
             t[j] = IF j <= Len(a) THEN a[j] ELSE b[j - Len(a)]
    BY <1>1, <1>2, ConcatProperties
  <1>4. RemoveAt(s, i) = t
    BY DEF RemoveAt
  <1> HIDE DEF a, b, t
  <1>5. \A j \in 1 .. Len(s) - 1 : t[j] = IF j < i THEN s[j] ELSE s[j + 1]
    <2> TAKE j \in 1 .. Len(s) - 1
    <2>1. CASE j < i
      <3>1. j \in 1 .. i - 1 /\ j \in 1 .. Len(a) + Len(b) /\ j <= Len(a)
        BY <1>0, <1>1, <1>2, <2>1
      <3>2. t[j] = a[j]
        BY <1>3, <3>1
      <3> QED BY <1>1, <2>1, <3>1, <3>2
    <2>2. CASE j >= i
      <3>1. j - (i - 1) \in 1 .. Len(s) - i /\ i + (j - (i - 1)) = j + 1
        BY <1>0, <2>2
      <3>2. j \in 1 .. Len(a) + Len(b) /\ ~(j <= Len(a))
        BY <1>0, <1>1, <1>2, <2>2
      <3>3. t[j] = b[j - (i - 1)]
        BY <1>1, <1>3, <3>2
      <3>4. b[j - (i - 1)] = s[j + 1]
        BY <1>2, <3>1
      <3> QED BY <2>2, <3>3, <3>4
    <2> QED BY <1>0, <2>1, <2>2
  <1> QED BY <1>0, <1>1, <1>2, <1>3, <1>4, <1>5

\* The positions still offered are distinct, and the ones where something
\* was placed are not among them, but for the one being visited.
OfferedOnce ==
    /\ left \in Seq(Nat)
    /\ label # NoLabel =>
         /\ here \in 1 .. Len(left) + 1
         /\ \A a, b \in 1 .. Len(left) : left[a] = left[b] => a = b
         /\ \A i \in DOMAIN placed :
              placed[i].call = calls =>
                \/ \A a \in 1 .. Len(left) : placed[i].pos # left[a]
                \/ /\ here <= Len(left) /\ placed[i].pos = left[here]
                   /\ hit /\ placed[i].cand = cand

LEMMA OfferedInit == Init => OfferedOnce /\ OnePerPosition
  <1> SUFFICES ASSUME Init PROVE OfferedOnce /\ OnePerPosition
    OBVIOUS
  <1>1. left = <<>> /\ placed = <<>> /\ label = NoLabel
    BY DEF Init
  <1>2. left \in Seq(Nat)
    BY <1>1
  <1> QED BY <1>1, <1>2 DEF OfferedOnce, OnePerPosition

\* A success at the visited position: what this call placed there before is
\* of the same candidate.
LEMMA OfferedAfterSuccess ==
    ASSUME HistoryOK, OfferedOnce, OnePerPosition,
           AtSpot, NEW boxes, NEW entries, Succeed(boxes, entries)
    PROVE  (OfferedOnce /\ OnePerPosition)'
  <1> DEFINE e == [call |-> calls, label |-> label, cand |-> cand, pos |-> Position,
                   boxes |-> boxes, entries |-> entries, epoch |-> epoch]
  <1>1. /\ placed' = Append(placed, e)
        /\ UNCHANGED <<calls, label, cand, left, here>> /\ hit' = TRUE
    BY DEF Succeed, Move
  <1>2. e.call = calls /\ e.pos = left[here] /\ e.cand = cand
    BY DEF Position
  <1> HIDE DEF e
  <1>3. /\ Len(placed) \in Nat /\ DOMAIN placed = 1 .. Len(placed)
        /\ DOMAIN placed' = 1 .. Len(placed) + 1
        /\ \A i \in 1 .. Len(placed) : placed'[i] = placed[i]
        /\ placed'[Len(placed) + 1] = e
    BY <1>1, HistoryGrows DEF HistoryOK
  <1>4. label # NoLabel /\ here <= Len(left) /\ left \in Seq(Nat)
        /\ here \in 1 .. Len(left) + 1 /\ Len(left) \in Nat
    BY DEF AtSpot, OfferedOnce
  <1>5. here \in 1 .. Len(left)
    BY <1>4
  <1>6. \A i \in DOMAIN placed :
            placed[i].call = calls =>
              \/ \A a \in 1 .. Len(left) : placed[i].pos # left[a]
              \/ placed[i].pos = left[here] /\ hit /\ placed[i].cand = cand
    BY <1>4 DEF OfferedOnce
  <1>7. \A i \in DOMAIN placed :
            placed[i].call = e.call /\ placed[i].pos = e.pos => placed[i].cand = e.cand
    BY <1>2, <1>5, <1>6
  <1>8. \A i \in DOMAIN placed' : (i \in DOMAIN placed /\ placed'[i] = placed[i])
                                  \/ placed'[i] = e
    BY <1>3
  <1>9. OnePerPosition'
    <2> SUFFICES ASSUME NEW i \in DOMAIN placed', NEW j \in DOMAIN placed',
                        placed'[i].call = placed'[j].call, placed'[i].pos = placed'[j].pos
                 PROVE  placed'[i].cand = placed'[j].cand
      BY DEF OnePerPosition
    <2>1. CASE placed'[i] = e /\ placed'[j] = e
      BY <2>1
    <2>2. CASE placed'[i] = e /\ j \in DOMAIN placed /\ placed'[j] = placed[j]
      BY <1>7, <2>2
    <2>3. CASE placed'[j] = e /\ i \in DOMAIN placed /\ placed'[i] = placed[i]
      BY <1>7, <2>3
    <2>4. CASE /\ i \in DOMAIN placed /\ placed'[i] = placed[i]
               /\ j \in DOMAIN placed /\ placed'[j] = placed[j]
      BY <2>4 DEF OnePerPosition
    <2> QED BY <1>8, <2>1, <2>2, <2>3, <2>4
  <1>10. OfferedOnce'
    <2>1. \A i \in DOMAIN placed' :
              placed'[i].call = calls' =>
                \/ \A a \in 1 .. Len(left') : placed'[i].pos # left'[a]
                \/ here' <= Len(left') /\ placed'[i].pos = left'[here'] /\ hit'
                   /\ placed'[i].cand = cand'
      BY <1>1, <1>2, <1>4, <1>6, <1>8
    <2>2. \A a, b \in 1 .. Len(left) : left[a] = left[b] => a = b
      BY <1>4 DEF OfferedOnce
    <2> QED BY <1>1, <1>4, <2>1, <2>2 DEF OfferedOnce
  <1> QED BY <1>9, <1>10

LEMMA OfferedAfterLeaving ==
    ASSUME OfferedOnce, LeavePosition
    PROVE  OfferedOnce'
  <1>1. label # NoLabel /\ here <= Len(left) /\ left \in Seq(Nat)
        /\ here \in 1 .. Len(left) + 1 /\ Len(left) \in Nat
    BY DEF LeavePosition, OfferedOnce
  <1>2. /\ \A a, b \in 1 .. Len(left) : left[a] = left[b] => a = b
        /\ \A i \in DOMAIN placed :
             placed[i].call = calls =>
               \/ \A a \in 1 .. Len(left) : placed[i].pos # left[a]
               \/ placed[i].pos = left[here] /\ hit
    BY <1>1 DEF OfferedOnce
  <1>3. UNCHANGED <<calls, label, cand, placed>>
    BY DEF LeavePosition
  <1>4. CASE hit
    <2>1. left' = RemoveAt(left, here) /\ here' = here
      BY <1>4 DEF LeavePosition
    <2>2. here \in 1 .. Len(left)
      BY <1>1
    <2>3. /\ left' \in Seq(Nat) /\ Len(left') = Len(left) - 1
          /\ \A j \in 1 .. Len(left) - 1 :
               left'[j] = IF j < here THEN left[j] ELSE left[j + 1]
      BY <1>1, <2>1, <2>2, RemoveAtFacts
    <2>4. here' \in 1 .. Len(left') + 1
      BY <1>1, <2>1, <2>2, <2>3
    <2>5. \A a \in 1 .. Len(left') :
              \E b \in 1 .. Len(left) : /\ b # here /\ left'[a] = left[b]
                                        /\ b = IF a < here THEN a ELSE a + 1
      <3> TAKE a \in 1 .. Len(left')
      <3>1. CASE a < here
        BY <1>1, <2>2, <2>3, <3>1
      <3>2. CASE ~(a < here)
        <4>1. a + 1 \in 1 .. Len(left) /\ a + 1 # here /\ a \in 1 .. Len(left) - 1
          BY <1>1, <2>2, <2>3, <3>2
        <4>2. left'[a] = left[a + 1]
          BY <2>3, <3>2, <4>1
        <4> QED BY <3>2, <4>1, <4>2
      <3> QED BY <3>1, <3>2
    <2>6. ASSUME NEW a \in 1 .. Len(left'), NEW b \in 1 .. Len(left'), left'[a] = left'[b]
          PROVE  a = b
      <3>1. PICK c \in 1 .. Len(left) : /\ left'[a] = left[c]
                                        /\ c = IF a < here THEN a ELSE a + 1
        BY <2>5
      <3>2. PICK d \in 1 .. Len(left) : /\ left'[b] = left[d]
                                        /\ d = IF b < here THEN b ELSE b + 1
        BY <2>5
      <3>3. c = d
        BY <1>2, <2>6, <3>1, <3>2
      <3> QED BY <1>1, <3>1, <3>2, <3>3
    <2>7. ASSUME NEW i \in DOMAIN placed, placed[i].call = calls,
                 NEW a \in 1 .. Len(left')
          PROVE  placed[i].pos # left'[a]
      <3>1. PICK b \in 1 .. Len(left) : b # here /\ left'[a] = left[b]
        BY <2>5
      <3> QED BY <1>2, <2>2, <2>7, <3>1
    <2> QED BY <1>3, <2>3, <2>4, <2>6, <2>7 DEF OfferedOnce
  <1>5. CASE ~hit
    <2>1. left' = left /\ here' = here + 1
      BY <1>5 DEF LeavePosition
    <2>2. here' \in 1 .. Len(left') + 1
      BY <1>1, <2>1
    <2> QED BY <1>1, <1>2, <1>3, <1>5, <2>1, <2>2 DEF OfferedOnce
  <1> QED BY <1>4, <1>5

LEMMA OfferedKept ==
    HistoryOK /\ OfferedOnce /\ OnePerPosition /\ [Next]_vars
        => (OfferedOnce /\ OnePerPosition)'
  <1> SUFFICES ASSUME HistoryOK, OfferedOnce, OnePerPosition, [Next]_vars
               PROVE  (OfferedOnce /\ OnePerPosition)'
    OBVIOUS
  <1>0. placed' = placed => OnePerPosition'
    BY DEF OnePerPosition
  <1>1. CASE Place
    <2>1. CASE Refuse
      <3>1. UNCHANGED <<placed, calls, label, cand, left, here>> /\ (hit => hit')
        BY <2>1 DEF Refuse, Move
      <3> QED BY <1>0, <3>1 DEF OfferedOnce
    <2> QED BY <1>1, <2>1, PlaceRefusesOrSucceeds, OfferedAfterSuccess
  <1>2. CASE LeavePosition
    BY <1>0, <1>2, OfferedAfterLeaving DEF LeavePosition
  <1>3. CASE NextCandidate
    <2>1. UNCHANGED <<placed, calls, label, left, hit>> /\ here' = 1
          /\ label # NoLabel /\ here > Len(left)
      BY <1>3 DEF NextCandidate
    <2>2. left \in Seq(Nat) /\ Len(left) \in Nat /\ here \in 1 .. Len(left) + 1
      BY <2>1 DEF OfferedOnce
    <2>3. /\ \A a, b \in 1 .. Len(left) : left[a] = left[b] => a = b
          /\ \A i \in DOMAIN placed :
               placed[i].call = calls => \A a \in 1 .. Len(left) : placed[i].pos # left[a]
      BY <2>1, <2>2 DEF OfferedOnce
    <2>4. here' \in 1 .. Len(left') + 1
      BY <2>1, <2>2
    <2> QED BY <1>0, <2>1, <2>2, <2>3, <2>4 DEF OfferedOnce
  <1>4. CASE EndSymbolizer
    BY <1>0, <1>4 DEF EndSymbolizer, OfferedOnce, cursor
  <1>5. ASSUME NEW l \in Labels, Symbolize(l)
        PROVE  (OfferedOnce /\ OnePerPosition)'
    <2>1. /\ placed' = placed /\ calls' = calls + 1 /\ here' = 1
          /\ left' = [p \in DOMAIN l.spots[1] |-> p]
      BY <1>5 DEF Symbolize
    <2>2. 1 \in DOMAIN l.candidates /\ DOMAIN l.spots = DOMAIN l.candidates
      BY LabelsAssumption DEF IsSeq
    <2>3. Len(l.spots[1]) \in Nat /\ DOMAIN l.spots[1] = 1 .. Len(l.spots[1])
      BY <2>2, LabelsAssumption DEF IsSeq
    <2>4. left' \in Seq(Nat) /\ \A a \in 1 .. Len(left') : left'[a] = a
      BY <2>1, <2>3
    <2>5. \A i \in DOMAIN placed : placed[i].call # calls'
      BY <2>1 DEF HistoryOK
    <2>6. here' \in 1 .. Len(left') + 1
      BY <2>1, <2>4
    <2> QED BY <1>0, <2>1, <2>4, <2>5, <2>6 DEF OfferedOnce
  <1>6. CASE StartClearingLayer
    BY <1>0, <1>6 DEF StartClearingLayer, OfferedOnce, cursor
  <1>7. CASE UNCHANGED vars
    BY <1>0, <1>7 DEF vars, OfferedOnce, cursor
  <1> QED BY <1>1, <1>2, <1>3, <1>4, <1>5, <1>6, <1>7 DEF Next, Place

\* The candidates of a placement list are alternatives: a position that one
\* of them used is not offered to the next (text_layout_iterator.hpp).
THEOREM CandidatesAreAlternatives == Spec => []OnePerPosition
  <1>1. Init => HistoryOK /\ OfferedOnce /\ OnePerPosition
    BY HistoryInit, OfferedInit
  <1>2. HistoryOK /\ OfferedOnce /\ OnePerPosition /\ [Next]_vars
        => (HistoryOK /\ OfferedOnce /\ OnePerPosition)'
    BY HistoryKept, OfferedKept
  <1> QED BY <1>1, <1>2, PTL DEF Spec

(***************************************************************************)
(* Types.                                                                  *)
(***************************************************************************)
\* What every label offers.
LEMMA LabelFacts ==
    ASSUME NEW l \in Labels
    PROVE  /\ l # NoLabel /\ l.insert \subseteq Keys
           /\ Len(l.candidates) \in Nat /\ Len(l.candidates) > 0
           /\ DOMAIN l.candidates = 1 .. Len(l.candidates)
           /\ \A c \in DOMAIN l.candidates :
                DOMAIN l.spots[c] = DOMAIN l.spots[1]
           /\ Len(l.spots[1]) \in Nat /\ DOMAIN l.spots[1] = 1 .. Len(l.spots[1])
  <1>1. /\ IsSeq(l.candidates) /\ Len(l.candidates) > 0
        /\ DOMAIN l.spots = DOMAIN l.candidates /\ l.insert \subseteq Keys
        /\ \A c \in DOMAIN l.spots : IsSeq(l.spots[c]) /\ DOMAIN l.spots[c] = DOMAIN l.spots[1]
    BY LabelsAssumption
  <1>2. l # NoLabel
    BY LabelsAssumption
  <1>3. 1 \in DOMAIN l.spots
    BY <1>1 DEF IsSeq
  <1> QED BY <1>1, <1>2, <1>3 DEF IsSeq

\* The places of a position, each with its alternatives.
Places(G) ==
    /\ Len(G) \in Nat
    /\ \A g \in 1 .. Len(G) :
         Len(G[g]) \in Nat /\ Len(G[g]) > 0 /\ DOMAIN G[g] = 1 .. Len(G[g])

LEMMA PlacesFacts ==
    ASSUME NEW l \in Labels, NEW c \in DOMAIN l.candidates, NEW p \in DOMAIN l.spots[c]
    PROVE  Places(l.spots[c][p])
  <1>1. c \in DOMAIN l.spots
    BY LabelsAssumption
  <1>2. /\ IsSeq(l.spots[c][p])
        /\ \A g \in DOMAIN l.spots[c][p] :
             IsSeq(l.spots[c][p][g]) /\ Len(l.spots[c][p][g]) > 0
    BY <1>1, LabelsAssumption
  <1> QED BY <1>2 DEF IsSeq, Places

\* The detectors' and the counters' part of TypeOK.
StoreOK ==
    /\ DOMAIN detectors = Keys
    /\ \A k \in Keys : \A e \in detectors[k] : Intersects(Extent, e.box)
    /\ epoch \in 0 .. MaxClears /\ calls \in 0 .. MaxCalls

\* The cursor's part.
CursorOK ==
    /\ hit \in BOOLEAN /\ left \in Seq(Nat)
    /\ label \in Labels \cup {NoLabel}
    /\ label # NoLabel =>
         /\ cand \in DOMAIN label.candidates
         /\ Range(left) \subseteq DOMAIN label.spots[cand]
         /\ here \in 1 .. Len(left) + 1
         /\ here <= Len(left) => group \in 1 .. Len(Groups) + 1
         /\ AtSpot => alt \in DOMAIN Groups[group]

LEMMA TypeParts == TypeOK <=> StoreOK /\ CursorOK
  BY DEF TypeOK, StoreOK, CursorOK

LEMMA TypeInit == Init => TypeOK
  <1> SUFFICES ASSUME Init PROVE TypeOK
    OBVIOUS
  <1>1. StoreOK
    BY LabelsAssumption DEF Init, StoreOK
  <1>2. left \in Seq(Nat)
    BY DEF Init
  <1>3. CursorOK
    BY <1>2 DEF Init, CursorOK, AtSpot
  <1> QED BY <1>1, <1>3, TypeParts

LEMMA StoreKept == TypeOK /\ [Next]_vars => StoreOK'
  <1> SUFFICES ASSUME StoreOK, [Next]_vars PROVE StoreOK'
    BY TypeParts
  <1>1. ASSUME AtSpot, NEW boxes, NEW entries, Succeed(boxes, entries)
        PROVE  StoreOK'
    <2>1. UNCHANGED <<epoch, calls>>
      BY <1>1 DEF Succeed, Move
    <2>2. detectors' = [k \in Keys |->
             IF k \in Effective(label.insert) THEN detectors[k] \cup Kept(entries)
                                              ELSE detectors[k]]
      BY <1>1 DEF Succeed, Push
    <2>3. \A e \in Kept(entries) : Intersects(Extent, e.box)
      BY DEF Kept
    <2> QED BY <2>1, <2>2, <2>3 DEF StoreOK
  <1>2. CASE StartClearingLayer
    <2>1. detectors' = [detectors EXCEPT ![Default] = {}] /\ epoch' = epoch + 1
          /\ epoch < MaxClears /\ calls' = calls
      BY <1>2 DEF StartClearingLayer
    <2> QED BY <2>1, LabelsAssumption DEF StoreOK
  <1>3. ASSUME NEW l \in Labels, Symbolize(l)
        PROVE  StoreOK'
    BY <1>3, LabelsAssumption DEF Symbolize, StoreOK
  <1>4. CASE UNCHANGED <<detectors, epoch, calls>>
    BY <1>4 DEF StoreOK
  <1> QED BY <1>1, <1>2, <1>3, <1>4, Steps DEF vars

\* Moving from spot to spot within a position.
LEMMA MoveKeepsCursor ==
    ASSUME CursorOK, AtSpot, Move(TRUE) \/ Move(FALSE)
    PROVE  CursorOK'
  <1>1. /\ label \in Labels /\ cand \in DOMAIN label.candidates
        /\ left \in Seq(Nat) /\ hit \in BOOLEAN
        /\ Range(left) \subseteq DOMAIN label.spots[cand]
        /\ here \in 1 .. Len(left) + 1 /\ here <= Len(left)
        /\ group \in 1 .. Len(Groups) + 1 /\ group <= Len(Groups)
        /\ alt \in DOMAIN Groups[group]
    BY DEF CursorOK, AtSpot
  <1>2. left[here] \in DOMAIN label.spots[cand]
    BY <1>1 DEF Range
  <1>3. Places(Groups)
    BY <1>1, <1>2, PlacesFacts DEF Groups, Position
  <1>4. UNCHANGED <<label, cand, left, here>> /\ hit' \in BOOLEAN
    BY DEF Move
  <1>5. Groups' = Groups
    BY <1>4 DEF Groups, Position
  <1>6. group' \in 1 .. Len(Groups) + 1 /\ (group' <= Len(Groups) => alt' \in DOMAIN Groups[group'])
    <2>1. group \in 1 .. Len(Groups) /\ alt \in 1 .. Len(Groups[group])
          /\ Len(Groups[group]) \in Nat
      BY <1>1, <1>3 DEF Places
    <2>2. \/ group' = group + 1 /\ alt' = 1
          \/ group' = group /\ alt' = alt + 1 /\ alt # Len(Groups[group])
      BY DEF Move
    <2>3. CASE group' = group + 1 /\ alt' = 1
      <3>1. CASE group + 1 \in 1 .. Len(Groups)
        BY <1>3, <2>1, <2>3, <3>1 DEF Places
      <3>2. CASE ~(group + 1 \in 1 .. Len(Groups))
        BY <1>3, <2>1, <2>3, <3>2 DEF Places
      <3> QED BY <3>1, <3>2
    <2>4. CASE group' = group /\ alt' = alt + 1 /\ alt # Len(Groups[group])
      <3>1. alt + 1 \in 1 .. Len(Groups[group]) /\ DOMAIN Groups[group] = 1 .. Len(Groups[group])
        BY <1>3, <2>1, <2>4 DEF Places
      <3> QED BY <1>3, <2>1, <2>4, <3>1 DEF Places
    <2> QED BY <2>2, <2>3, <2>4
  <1>7. AtSpot' => group' <= Len(Groups)
    BY <1>5 DEF AtSpot
  <1> QED BY <1>1, <1>4, <1>5, <1>6, <1>7 DEF CursorOK

\* Arriving at a position, its first place and that one's first alternative
\* are there.
LEMMA FirstPlace ==
    ASSUME NEW l \in Labels, NEW c \in DOMAIN l.candidates, NEW p \in DOMAIN l.spots[c]
    PROVE  /\ 1 \in 1 .. Len(l.spots[c][p]) + 1
           /\ 1 <= Len(l.spots[c][p]) => 1 \in DOMAIN l.spots[c][p][1]
  <1> DEFINE G == l.spots[c][p]
  <1>1. Places(G)
    BY PlacesFacts
  <1> HIDE DEF G
  <1>2. 1 \in 1 .. Len(G) + 1 /\ (1 <= Len(G) => 1 \in DOMAIN G[1])
    <2>1. ASSUME 1 <= Len(G) PROVE 1 \in DOMAIN G[1]
      <3>1. 1 \in 1 .. Len(G)
        BY <1>1, <2>1 DEF Places
      <3>2. Len(G[1]) \in Nat /\ Len(G[1]) > 0 /\ DOMAIN G[1] = 1 .. Len(G[1])
        BY <1>1, <3>1 DEF Places
      <3> QED BY <3>2
    <2> QED BY <1>1, <2>1 DEF Places
  <1> QED BY <1>2 DEF G

LEMMA ArriveKeepsCursor ==
    ASSUME label' \in Labels, cand' \in DOMAIN label'.candidates, left' \in Seq(Nat),
           hit' \in BOOLEAN, Range(left') \subseteq DOMAIN label'.spots[cand'],
           here' \in 1 .. Len(left') + 1, group' = 1, alt' = 1
    PROVE  CursorOK'
  <1>1. ASSUME here' <= Len(left')
        PROVE  /\ group' \in 1 .. Len(Groups') + 1
               /\ group' <= Len(Groups') => alt' \in DOMAIN Groups'[group']
    <2>1. left'[here'] \in DOMAIN label'.spots[cand']
      BY <1>1 DEF Range
    <2>2. Groups' = label'.spots[cand'][left'[here']]
      BY DEF Groups, Position
    <2> QED BY <2>1, <2>2, FirstPlace
  <1>2. AtSpot' => here' <= Len(left') /\ group' <= Len(Groups')
    BY DEF AtSpot
  <1> QED BY <1>1, <1>2 DEF CursorOK

LEMMA CursorKept == CursorOK /\ [Next]_vars => CursorOK'
  <1> SUFFICES ASSUME CursorOK, [Next]_vars PROVE CursorOK'
    OBVIOUS
  <1>0. /\ hit \in BOOLEAN /\ left \in Seq(Nat) /\ Len(left) \in Nat
        /\ label \in Labels \cup {NoLabel}
        /\ label # NoLabel =>
             /\ cand \in DOMAIN label.candidates
             /\ Range(left) \subseteq DOMAIN label.spots[cand]
             /\ here \in 1 .. Len(left) + 1
    BY DEF CursorOK
  <1>1. CASE Place
    <2>1. AtSpot /\ (Move(TRUE) \/ Move(FALSE))
      BY <1>1, PlaceRefusesOrSucceeds DEF Refuse, Succeed
    <2> QED BY <2>1, MoveKeepsCursor
  <1>2. CASE LeavePosition
    <2>1. /\ label \in Labels /\ here \in 1 .. Len(left)
          /\ UNCHANGED <<label, cand>> /\ group' = 1 /\ alt' = 1
      BY <1>0, <1>2 DEF LeavePosition
    <2>4. hit' \in BOOLEAN
      BY <1>2 DEF LeavePosition
    <2>2. /\ left' \in Seq(Nat) /\ here' \in 1 .. Len(left') + 1
          /\ Range(left') \subseteq Range(left)
      <3>1. CASE hit
        <4>1. left' = RemoveAt(left, here) /\ here' = here
          BY <1>2, <3>1 DEF LeavePosition
        <4>2. /\ left' \in Seq(Nat) /\ Len(left') = Len(left) - 1
              /\ \A j \in 1 .. Len(left) - 1 :
                   left'[j] = IF j < here THEN left[j] ELSE left[j + 1]
          BY <1>0, <2>1, <4>1, RemoveAtFacts
        <4>3. \A j \in 1 .. Len(left') : \E i \in 1 .. Len(left) : left'[j] = left[i]
          <5> TAKE j \in 1 .. Len(left')
          <5>1. j \in 1 .. Len(left) /\ j + 1 \in 1 .. Len(left) /\ j \in 1 .. Len(left) - 1
            BY <1>0, <4>2
          <5>2. left'[j] = left[j] \/ left'[j] = left[j + 1]
            BY <4>2, <5>1
          <5> QED BY <5>1, <5>2
        <4>4. DOMAIN left = 1 .. Len(left) /\ DOMAIN left' = 1 .. Len(left')
          BY <1>0, <4>2
        <4>5. here' \in 1 .. Len(left') + 1
          BY <1>0, <2>1, <4>1, <4>2
        <4>6. Range(left') \subseteq Range(left)
          BY <4>3, <4>4 DEF Range
        <4> QED BY <4>2, <4>5, <4>6
      <3>2. CASE ~hit
        <4>1. left' = left /\ here' = here + 1
          BY <1>2, <3>2 DEF LeavePosition
        <4> QED BY <1>0, <2>1, <4>1
      <3> QED BY <3>1, <3>2
    <2>3. label # NoLabel
      BY <2>1, LabelFacts
    <2> QED BY <1>0, <2>1, <2>2, <2>3, <2>4, ArriveKeepsCursor
  <1>3. CASE NextCandidate
    <2>1. /\ label # NoLabel /\ label \in Labels /\ here > Len(left)
          /\ cand < Len(label.candidates) /\ cand' = cand + 1 /\ here' = 1
          /\ group' = 1 /\ alt' = 1 /\ UNCHANGED <<label, left, hit>>
      BY <1>0, <1>3 DEF NextCandidate, MoreCandidates
    <2>2. cand' \in DOMAIN label.candidates
      BY <1>0, <2>1, LabelFacts
    <2>3. DOMAIN label.spots[cand'] = DOMAIN label.spots[cand]
      BY <1>0, <2>1, <2>2, LabelFacts
    <2>4. here' \in 1 .. Len(left') + 1
      BY <1>0, <2>1
    <2> QED BY <1>0, <2>1, <2>2, <2>3, <2>4, ArriveKeepsCursor
  <1>4. CASE EndSymbolizer
    BY <1>0, <1>4 DEF EndSymbolizer, cursor, CursorOK, AtSpot
  <1>5. ASSUME NEW l \in Labels, Symbolize(l)
        PROVE  CursorOK'
    <2>1. /\ label' = l /\ cand' = 1 /\ here' = 1 /\ group' = 1 /\ alt' = 1 /\ hit' = FALSE
          /\ left' = [p \in DOMAIN l.spots[1] |-> p]
      BY <1>5 DEF Symbolize
    <2>2. left' \in Seq(Nat) /\ Range(left') = DOMAIN l.spots[1] /\ Len(left') \in Nat
      BY <2>1, LabelFacts DEF Range
    <2>3. 1 \in DOMAIN l.candidates
      BY LabelFacts
    <2>4. here' \in 1 .. Len(left') + 1
      BY <2>1, <2>2
    <2>5. hit' \in BOOLEAN
      BY <2>1
    <2> QED BY <2>1, <2>2, <2>3, <2>4, <2>5, ArriveKeepsCursor
  <1>6. CASE StartClearingLayer
    BY <1>0, <1>6 DEF StartClearingLayer, cursor, CursorOK, AtSpot
  <1>7. CASE UNCHANGED vars
    BY <1>7 DEF vars, cursor, CursorOK, AtSpot, Groups, Position
  <1> QED BY <1>1, <1>2, <1>3, <1>4, <1>5, <1>6, <1>7 DEF Next, Place

\* The detectors only hold boxes within their extent, and the cursor stays
\* within what the label offers.
THEOREM LabelTypes == Spec => []TypeOK
  <1>1. TypeOK /\ [Next]_vars => TypeOK'
    <2>1. TypeOK /\ [Next]_vars => StoreOK' /\ CursorOK'
      BY StoreKept, CursorKept, TypeParts
    <2>2. StoreOK' /\ CursorOK' => TypeOK'
      BY DEF TypeOK, StoreOK, CursorOK
    <2> QED BY <2>1, <2>2
  <1> QED BY <1>1, TypeInit, PTL DEF Spec

=============================================================================
