--------------------------- MODULE LabelPlacement ---------------------------
(***************************************************************************)
(* How labels find a free place on the map.  The renderer keeps one cache  *)
(* of collision detectors for a whole map (collision_cache.hpp): the       *)
(* default detector and one detector per key a style names.  A symbolizer  *)
(* that places something (a text at a point, a text along a line, a shield *)
(* of a text and an image, a marker, or a bare collision box) visits the   *)
(* positions its geometry offers, asks the detectors whether the boxes are *)
(* free, and enters the boxes of what it placed.                           *)
(*                                                                         *)
(* A label is data here: the boxes its glyphs would take are a field of    *)
(* each spot, as the shaping of text and the walk along a line compute     *)
(* them before the detectors are asked.  A box is [x1, y1, x2, y2]; the    *)
(* detectors that do not exist yet answer as empty ones do, so a detector  *)
(* is a set for every key.  One thread renders a map (each job of the      *)
(* parallelizer has detectors of its own), so a try_placement is one step. *)
(***************************************************************************)
EXTENDS Integers, SequencesExt

CONSTANTS
    Labels,      \* the placing symbolizers applied to features
    Keys,        \* the collision cache keys, "default" among them
    Extent,      \* the detectors' extent: the canvas and its buffer
    Canvas,      \* params_.dims: the pixels of the image
    NoLabel,     \* no symbolizer is being processed
    MaxCalls,    \* bound: symbolizers processed in one rendering
    MaxClears    \* bound: layers with clear-label-cache

Default == "default"
NoText == ""

Kinds == {"text", "line", "shield", "marker", "collision"}

IsSeq(s) == Len(s) \in Nat /\ DOMAIN s = 1 .. Len(s)

\* Every candidate is tried at the same positions; a place on a line has at
\* least one alternative, the place itself.
ASSUME LabelsAssumption ==
    /\ Default \in Keys
    /\ NoLabel \notin Labels
    /\ MaxCalls \in Nat /\ MaxClears \in Nat
    /\ \A l \in Labels :
         /\ l.kind \in Kinds /\ l.insert \subseteq Keys
         /\ IsSeq(l.candidates) /\ Len(l.candidates) > 0
         /\ DOMAIN l.spots = DOMAIN l.candidates
         /\ \A c \in DOMAIN l.spots :
              /\ IsSeq(l.spots[c]) /\ DOMAIN l.spots[c] = DOMAIN l.spots[1]
              /\ \A p \in DOMAIN l.spots[c] :
                   /\ IsSeq(l.spots[c][p])
                   /\ \A g \in DOMAIN l.spots[c][p] :
                        IsSeq(l.spots[c][p][g]) /\ Len(l.spots[c][p][g]) > 0

VARIABLES
    detectors,   \* per key, the entries [box, text] of its detector
    epoch,       \* how often the default detector was cleared
    calls,       \* symbolizers processed so far
    label,       \* the one being processed, or NoLabel
    cand,        \* the candidate of the placement list being tried
    left,        \* the positions (geoms) no candidate has used yet
    here,        \* index in left of the position being tried
    group,       \* the place along the position's line
    alt,         \* the alternative, by tolerance, of that place
    hit,         \* did the candidate succeed at this position?
    placed       \* history: what succeeded, in order

cursor == <<cand, left, here, group, alt, hit>>
vars == <<detectors, epoch, calls, label, cursor, placed>>

(***************************************************************************)
(* Boxes and detectors.                                                    *)
(***************************************************************************)
Intersects(a, b) ==
    a.x1 <= b.x2 /\ b.x1 <= a.x2 /\ a.y1 <= b.y2 /\ b.y1 <= a.y2

Inside(outer, b) ==
    outer.x1 <= b.x1 /\ b.x2 <= outer.x2 /\ outer.y1 <= b.y1 /\ b.y2 <= outer.y2

Grow(b, d) ==
    IF d > 0 THEN [x1 |-> b.x1 - d, y1 |-> b.y1 - d, x2 |-> b.x2 + d, y2 |-> b.y2 + d]
             ELSE b

\* No keys stand for the default detector.
Effective(keys) == IF keys = {} THEN {Default} ELSE keys

\* One detector's answer; a text is only compared when it may not come
\* back closer than a distance beyond the margin.
Free(entries, box, margin, text, repeat) ==
    /\ \A e \in entries : ~Intersects(e.box, Grow(box, margin))
    /\ text # NoText /\ repeat > margin =>
         \A e \in entries : e.text = text => ~Intersects(e.box, Grow(box, repeat))

AnyHasPlacement(box, margin, text, repeat, keys) ==
    \E k \in Effective(keys) : Free(detectors[k], box, margin, text, repeat)

HasPlacement(box, margin, text, repeat, keys) ==
    \A k \in Effective(keys) : Free(detectors[k], box, margin, text, repeat)

Kept(entries) == {e \in entries : Intersects(Extent, e.box)}

PushUnnamed(keys, entries) ==
    detectors' = [k \in Keys |->
                    IF k \in Effective(keys)
                      THEN detectors[k] \cup {[e EXCEPT !.text = NoText] : e \in Kept(entries)}
                      ELSE detectors[k]]

Push(keys, entries) ==
    detectors' = [k \in Keys |->
                    IF k \in Effective(keys) THEN detectors[k] \cup Kept(entries)
                                             ELSE detectors[k]]

(***************************************************************************)
(* The test of one box against canvas and detectors.  A text at a point    *)
(* takes minimum-distance for a missing margin, a text along a line takes  *)
(* it for a missing repeat-distance.                                       *)
(***************************************************************************)
MarginOf(kind, c) ==
    IF kind \in {"text", "shield"} /\ c.margin = 0 THEN c.distance ELSE c.margin

RepeatOf(kind, c) ==
    IF kind = "line" /\ c.repeat = 0 THEN c.distance ELSE c.repeat

Overlaps(kind, c, box) ==
    /\ ~c.overlap
    /\ ~HasPlacement(box, MarginOf(kind, c), c.text, RepeatOf(kind, c), c.detect)

Collision(kind, c, box) ==
    \/ c.edges /\ ~Inside(Canvas, box)
    \/ c.padding > 0 /\ ~Inside(Canvas, Grow(box, c.padding))
    \/ Overlaps(kind, c, box)

\* Beyond the right or the lower edge, or wholly beyond one of the others:
\* the position counts as done though nothing is placed.
AvoidEdgesSkip(c, box) ==
    c.edges /\ \/ box.x2 > Canvas.x2 \/ box.y2 > Canvas.y2
               \/ box.x2 < 0 \/ box.y2 < 0

Entries(boxes, text) == {[box |-> b, text |-> text] : b \in boxes}

(***************************************************************************)
(* The glyphs of a text at a point are tested one after the other: the     *)
(* first one to skip or to collide decides.                                *)
(***************************************************************************)
GlyphsSkip(kind, c, glyphs) ==
    \E i \in DOMAIN glyphs :
        /\ AvoidEdgesSkip(c, glyphs[i])
        /\ \A j \in 1 .. i - 1 : ~Collision(kind, c, glyphs[j])

GlyphsFit(kind, c, glyphs) ==
    \A i \in DOMAIN glyphs :
        ~AvoidEdgesSkip(c, glyphs[i]) /\ ~Collision(kind, c, glyphs[i])

TextPlaced(kind, c, glyphs) == GlyphsSkip(kind, c, glyphs) \/ GlyphsFit(kind, c, glyphs)

TextBoxes(kind, c, glyphs) ==
    IF GlyphsSkip(kind, c, glyphs) THEN {} ELSE Range(glyphs)

(***************************************************************************)
(* Along a line: out of the detectors' reach a label "succeeds" with no    *)
(* glyph; an upside down one is tried again, turned; the walk may get      *)
(* stuck (the end of the line, too sharp an angle).                        *)
(***************************************************************************)
Reachable(spot) == Intersects(Extent, spot.around)

LineFits(c, spot) ==
    \/ ~Reachable(spot)
    \/ /\ ~spot.stuck
       /\ \A b \in Range(spot.glyphs) : ~Collision("line", c, b)
       /\ \A t \in Range(spot.turned) : \A b \in Range(t) : ~Collision("line", c, b)

LineBoxes(spot) ==
    IF ~Reachable(spot) THEN {}
    ELSE IF spot.turned = <<>> THEN Range(spot.glyphs)
    ELSE UNION {Range(t) : t \in Range(spot.turned)}

(***************************************************************************)
(* The cursor.                                                             *)
(***************************************************************************)
Candidate == label.candidates[cand]
Position == left[here]
Groups == label.spots[cand][Position]
Spot == Groups[group][alt]

AtSpot == label # NoLabel /\ here <= Len(left) /\ group <= Len(Groups)

\* The first success leaves the alternatives of this place.
Move(success) ==
    /\ IF success \/ alt = Len(Groups[group])
         THEN group' = group + 1 /\ alt' = 1
         ELSE alt' = alt + 1 /\ UNCHANGED group
    /\ hit' = (hit \/ success)
    /\ UNCHANGED <<epoch, calls, label, cand, left, here>>

Refuse == UNCHANGED <<detectors, placed>> /\ Move(FALSE)

\* A success: entries are pushed under the insert keys, boxes are what the
\* success covers.
Succeed(boxes, entries) ==
    /\ Push(label.insert, entries)
    /\ placed' = Append(placed,
         [call |-> calls, label |-> label, cand |-> cand, pos |-> Position,
          boxes |-> boxes, entries |-> entries, epoch |-> epoch])
    /\ Move(TRUE)

(***************************************************************************)
(* One try_placement of each kind.                                         *)
(***************************************************************************)
PlaceText ==
    /\ AtSpot /\ label.kind = "text"
    /\ LET c == Candidate
           boxes == TextBoxes("text", c, Spot.glyphs)
       IN IF TextPlaced("text", c, Spot.glyphs)
            THEN Succeed(boxes, Entries(boxes, c.text))
            ELSE Refuse

PlaceLine ==
    /\ AtSpot /\ label.kind = "line"
    /\ IF LineFits(Candidate, Spot)
         THEN Succeed(LineBoxes(Spot), Entries(LineBoxes(Spot), Candidate.text))
         ELSE Refuse

\* The image is tested after the text and before anything is entered.  An
\* image beyond the edge clears the glyphs too; an image may stay alone
\* when the text was skipped.
MarkerSkips(c, marker) == \E b \in marker : AvoidEdgesSkip(c, b)

ShieldTextFirst ==
    /\ AtSpot /\ label.kind = "shield"
    /\ LET c == Candidate
           marker == Range(Spot.marker)
           boxes == TextBoxes("shield", c, Spot.glyphs)
       IN IF TextPlaced("shield", c, Spot.glyphs)
            THEN IF \A b \in marker : ~Collision("shield", c, b)
                   THEN Succeed(boxes \cup marker,
                                Entries(boxes, c.text) \cup Entries(marker, NoText))
                   ELSE Push(label.insert, Entries(boxes, c.text)) /\ Move(FALSE)
                        /\ UNCHANGED placed
            ELSE Refuse

PlaceShield ==
    /\ AtSpot /\ label.kind = "shield"
    /\ LET c == Candidate
           marker == Range(Spot.marker)
           skips == MarkerSkips(c, marker)
           boxes == IF skips THEN {} ELSE TextBoxes("shield", c, Spot.glyphs)
           image == IF skips THEN {} ELSE marker
       IN IF /\ TextPlaced("shield", c, Spot.glyphs)
             /\ skips \/ \A b \in marker : ~Collision("shield", c, b)
            THEN Succeed(boxes \cup image, Entries(boxes, c.text) \cup Entries(image, NoText))
            ELSE Refuse

\* A marker keeps clear of the edges of the detectors' extent, not of the
\* canvas; with ignore-placement it is tested but not entered.
PlaceMarker ==
    /\ AtSpot /\ label.kind = "marker"
    /\ LET c == Candidate
           boxes == Range(Spot.glyphs)
       IN IF /\ ~Spot.stuck
             /\ \A b \in boxes : /\ c.edges => Inside(Extent, b)
                                 /\ ~Overlaps("marker", c, b)
            THEN Succeed(boxes, IF label.ignore THEN {} ELSE Entries(boxes, c.text))
            ELSE Refuse

PlaceCollision ==
    /\ AtSpot /\ label.kind = "collision"
    /\ LET boxes == Range(Spot.glyphs)
       IN IF \A b \in boxes : ~Overlaps("collision", Candidate, b)
            THEN Succeed(boxes, Entries(boxes, NoText))
            ELSE Refuse

(***************************************************************************)
(* The loops around it.                                                    *)
(***************************************************************************)
LeaveOffered ==
    /\ label # NoLabel /\ here <= Len(left) /\ group > Len(Groups)
    /\ here' = here + 1 /\ group' = 1 /\ alt' = 1 /\ hit' = FALSE
    /\ UNCHANGED <<detectors, epoch, calls, label, cand, left, placed>>

\* Positions where the candidate succeeded are no longer offered.
LeavePosition ==
    /\ label # NoLabel /\ here <= Len(left) /\ group > Len(Groups)
    /\ IF hit THEN left' = RemoveAt(left, here) /\ UNCHANGED here
              ELSE here' = here + 1 /\ UNCHANGED left
    /\ group' = 1 /\ alt' = 1 /\ hit' = FALSE
    /\ UNCHANGED <<detectors, epoch, calls, label, cand, placed>>

OneTooMany == left # <<>> /\ cand <= Len(label.candidates)

MoreCandidates == left # <<>> /\ cand < Len(label.candidates)

NextCandidate ==
    /\ label # NoLabel /\ here > Len(left) /\ MoreCandidates
    /\ cand' = cand + 1 /\ here' = 1 /\ group' = 1 /\ alt' = 1
    /\ UNCHANGED <<detectors, epoch, calls, label, left, hit, placed>>

EndSymbolizer ==
    /\ label # NoLabel /\ here > Len(left) /\ ~MoreCandidates
    /\ label' = NoLabel
    /\ UNCHANGED <<detectors, epoch, calls, cursor, placed>>

Symbolize(l) ==
    /\ label = NoLabel /\ calls < MaxCalls
    /\ label' = l /\ calls' = calls + 1
    /\ cand' = 1 /\ here' = 1 /\ group' = 1 /\ alt' = 1 /\ hit' = FALSE
    /\ left' = [p \in DOMAIN l.spots[1] |-> p]
    /\ UNCHANGED <<detectors, epoch, placed>>

\* A layer with clear-label-cache: only the default detector is cleared.
StartClearingLayer ==
    /\ label = NoLabel /\ epoch < MaxClears
    /\ detectors' = [detectors EXCEPT ![Default] = {}]
    /\ epoch' = epoch + 1
    /\ UNCHANGED <<calls, label, cursor, placed>>

Init ==
    /\ detectors = [k \in Keys |-> {}]
    /\ epoch = 0 /\ calls = 0 /\ label = NoLabel
    /\ cand = 1 /\ left = <<>> /\ here = 1 /\ group = 1 /\ alt = 1 /\ hit = FALSE
    /\ placed = <<>>

Next ==
    \/ PlaceText \/ PlaceLine \/ PlaceShield \/ PlaceMarker \/ PlaceCollision
    \/ LeavePosition \/ NextCandidate \/ EndSymbolizer
    \/ \E l \in Labels : Symbolize(l)
    \/ StartClearingLayer

Spec == Init /\ [][Next]_vars

-----------------------------------------------------------------------------
Props(p) == p.label.candidates[p.cand]
MarginFor(p) == MarginOf(p.label.kind, Props(p))
RepeatFor(p) == RepeatOf(p.label.kind, Props(p))

\* Under one of its detect keys, q's test still knew what p had entered.
Knew(q, p) ==
    \E k \in Effective(Props(q).detect) \cap Effective(p.label.insert) :
        k # Default \/ p.epoch = q.epoch

\* The variables hold what their declarations say: a detector holds boxes
\* its extent touches, and the cursor stays within the candidates,
\* positions and places of the label being processed.
TypeOK ==
    /\ DOMAIN detectors = Keys
    /\ \A k \in Keys : \A e \in detectors[k] : Intersects(Extent, e.box)
    /\ epoch \in 0 .. MaxClears /\ calls \in 0 .. MaxCalls
    /\ hit \in BOOLEAN /\ left \in Seq(Nat)
    /\ label \in Labels \cup {NoLabel}
    /\ label # NoLabel =>
         /\ cand \in DOMAIN label.candidates
         /\ Range(left) \subseteq DOMAIN label.spots[cand]
         /\ here \in 1 .. Len(left) + 1
         /\ here <= Len(left) => group \in 1 .. Len(Groups) + 1
         /\ AtSpot => alt \in DOMAIN Groups[group]

\* A label that may not overlap stands clear, by its margin, of everything
\* placed before it that its detectors know: whichever kinds the two are,
\* whatever was refused, skipped or placed beside them in between, and
\* across layers until the cache of the default key is cleared.
NoForbiddenOverlap ==
    \A i, j \in DOMAIN placed :
        i < j /\ ~Props(placed[j]).overlap /\ Knew(placed[j], placed[i]) =>
            \A e \in Kept(placed[i].entries), b \in placed[j].boxes :
                ~Intersects(e.box, Grow(b, MarginFor(placed[j])))

\* The same text (or the same marker image) does not come back within its
\* repeat-distance, as far as the detectors know.
RepeatApart ==
    \A i, j \in DOMAIN placed :
        /\ i < j /\ ~Props(placed[j]).overlap /\ Knew(placed[j], placed[i])
        /\ Props(placed[j]).text # NoText
        /\ RepeatFor(placed[j]) > MarginFor(placed[j])
        => \A e \in Kept(placed[i].entries), b \in placed[j].boxes :
               e.text = Props(placed[j]).text =>
                   ~Intersects(e.box, Grow(b, RepeatFor(placed[j])))

\* The candidates of a placement list are alternatives: at one position of
\* one feature, only the first candidate that succeeds is placed.
OnePerPosition ==
    \A i, j \in DOMAIN placed :
        placed[i].call = placed[j].call /\ placed[i].pos = placed[j].pos =>
            placed[i].cand = placed[j].cand

\* The detectors hold what was placed and nothing else: a candidate that
\* was refused (a shield whose text fits and whose image does not, a line
\* whose last glyph collides) leaves nothing behind, and what was placed
\* stays under each of its keys until that key is cleared.
NothingButThePlaced ==
    \A k \in Keys :
        detectors[k] = UNION {Kept(placed[i].entries) : i \in
            {n \in DOMAIN placed : /\ k \in Effective(placed[n].label.insert)
                                   /\ k # Default \/ placed[n].epoch = epoch}}

=============================================================================
