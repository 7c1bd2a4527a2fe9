-------------------------- MODULE MCLabelPlacement --------------------------
(***************************************************************************)
(* Eight symbolizers on a strip of map, chosen so that each kind collides  *)
(* with the others, reaches an edge, and shares or misses a key.           *)
(***************************************************************************)
EXTENDS LabelPlacement

Box(a, b) == [x1 |-> a, y1 |-> 1, x2 |-> b, y2 |-> 2]

TheCanvas == [x1 |-> 0, y1 |-> 0, x2 |-> 12, y2 |-> 4]
TheExtent == [x1 |-> -3, y1 |-> -3, x2 |-> 15, y2 |-> 7]
TheKeys == {Default, "roads"}

Plain == [text |-> NoText, margin |-> 0, repeat |-> 0, distance |-> 0,
          overlap |-> FALSE, edges |-> FALSE, padding |-> 0, detect |-> {}]

At(glyphs) == [glyphs |-> glyphs, marker |-> <<>>, around |-> Box(0, 12),
               turned |-> <<>>, stuck |-> FALSE]
One(spot) == <<<<spot>>>>

\* Two positions, two candidates: the long text, then a short one.
City == [kind |-> "text", insert |-> {}, ignore |-> FALSE,
    candidates |-> <<[Plain EXCEPT !.text = "city", !.distance = 1],
                     [Plain EXCEPT !.text = "c", !.margin = 1, !.repeat = 4]>>,
    spots |-> <<<<One(At(<<Box(2, 3), Box(4, 5)>>)), One(At(<<Box(8, 8), Box(9, 11)>>))>>,
                <<One(At(<<Box(3, 3)>>)), One(At(<<Box(8, 8)>>))>>>>]

\* Avoids edges: one position reaches over the right edge, one over the left.
Edge == [kind |-> "text", insert |-> {Default, "roads"}, ignore |-> FALSE,
    candidates |-> <<[Plain EXCEPT !.text = "edge", !.edges = TRUE],
                     [Plain EXCEPT !.text = "e", !.padding = 1]>>,
    spots |-> <<<<One(At(<<Box(10, 11), Box(12, 13)>>)), One(At(<<Box(-1, 1)>>))>>,
                <<One(At(<<Box(11, 11)>>)), One(At(<<Box(1, 1)>>))>>>>]

\* Along a line: alternatives, a stuck walk, a turned text, one out of reach.
Road == [kind |-> "line", insert |-> {"roads"}, ignore |-> FALSE,
    candidates |-> <<[Plain EXCEPT !.text = "road", !.distance = 3, !.detect = {"roads"}]>>,
    spots |-> <<<<<<<<At(<<Box(4, 5)>>), At(<<Box(7, 8)>>)>>,
                    <<[At(<<Box(9, 9)>>) EXCEPT !.stuck = TRUE],
                      [At(<<Box(9, 9)>>) EXCEPT !.turned = <<<<Box(10, 10)>>>>]>>,
                    <<[At(<<>>) EXCEPT !.around = Box(20, 30)]>>>>>>>>]

\* A text right of an image.
Shield == [kind |-> "shield", insert |-> {}, ignore |-> FALSE,
    candidates |-> <<[Plain EXCEPT !.text = "D1", !.repeat = 5, !.edges = TRUE]>>,
    spots |-> <<<<One([At(<<Box(7, 7)>>) EXCEPT !.marker = <<Box(5, 6)>>]),
                  One([At(<<Box(13, 13)>>) EXCEPT !.marker = <<Box(12, 12)>>]),
                  One([At(<<Box(11, 11)>>) EXCEPT !.marker = <<Box(12, 13)>>])>>>>]

\* An image that the others must respect, and one they need not.
Marker == [kind |-> "marker", insert |-> {"roads"}, ignore |-> FALSE,
    candidates |-> <<[Plain EXCEPT !.text = "pin", !.repeat = 3, !.edges = TRUE,
                                   !.detect = {Default, "roads"}]>>,
    spots |-> <<<<One(At(<<Box(6, 6)>>)), One(At(<<Box(9, 9)>>)), One(At(<<Box(14, 16)>>))>>>>]

Ghost == [Marker EXCEPT !.ignore = TRUE, !.candidates = <<Plain>>]

Area == [kind |-> "collision", insert |-> {}, ignore |-> FALSE,
    candidates |-> <<[Plain EXCEPT !.overlap = TRUE]>>,
    spots |-> <<<<One(At(<<Box(4, 8)>>))>>>>]

Strict == [Area EXCEPT !.candidates = <<Plain>>, !.spots = <<<<One(At(<<Box(0, 4)>>))>>>>]

TheLabels == {City, Edge, Road, Shield, Marker, Ghost, Area, Strict}

=============================================================================
