---------------------------- MODULE RenderedMap ----------------------------
(***************************************************************************)
(* A map as the renderers read it, and what is drawn of it.  A map is a    *)
(* sequence of layers in document order, each with the number of the layer *)
(* it is nested in (0: the map).  Filters are the sets of features they    *)
(* match.                                                                  *)
(*                                                                         *)
(* What was drawn on an image is a sequence of items: the marks of the     *)
(* symbolizers, and what was composited or filtered, which carries the     *)
(* content it was made of.                                                 *)
(***************************************************************************)
EXTENDS Integers, Sequences, FiniteSets

CONSTANT Maps       \* [layers, single]: maps; single: the first layer alone

IsSequence(s) == s \in Seq({s[k] : k \in DOMAIN s})

\* Layers, rows, styles and rules are sequences, radii numbers.  The numbers
\* of the layers are those of the document: a layer comes after the one it is
\* nested in, and everything between the two is nested in that one, too.  A
\* layer rendered alone is the first one, and the others are nested in it.
ASSUME MapsAssumption ==
    \A m \in Maps :
        /\ IsSequence(m.layers)
        /\ \A n \in DOMAIN m.layers :
              LET l == m.layers[n] IN
              /\ l.parent \in 0..n - 1
              /\ m.single /\ n # 1 => l.parent # 0
              /\ \A k \in l.parent + 1..n - 1 : m.layers[k].parent >= l.parent
              /\ IsSequence(l.rows) /\ IsSequence(l.styles)
              /\ \A s \in DOMAIN l.styles :
                    /\ IsSequence(l.styles[s].rules)
                    /\ l.styles[s].radius \in Nat

-----------------------------------------------------------------------------
(* Layers and styles *)

\* What push_back collects in a loop: the chosen positions in their order.
InOrder(chosen) ==
    [i \in 1..Cardinality(chosen) |->
       CHOOSE k \in chosen : Cardinality({j \in chosen : j < k}) = i - 1]

RulesIn(s, kind) ==
    {k \in DOMAIN s.rules : s.rules[k].active /\ s.rules[k].kind = kind}
StyleActive(s) == \E k \in DOMAIN s.rules : s.rules[k].active

\* active_styles: for a layer out of the extent those that composite (which
\* collect_styles_with_comp_op keeps), else those with an active rule.
IsActive(l, s) ==
    /\ l.datasource /\ l.extent # "invalid"
    /\ StyleActive(s)
    /\ l.extent = "outside" => s.comp_op \/ s.filters # <<>>
ActiveStyles(l) ==
    InOrder({k \in DOMAIN l.styles : IsActive(l, l.styles[k])})

Empty(l) == l.datasource /\ ActiveStyles(l) = <<>>
Grouped(l) == l.group_by

\* What is drawn on an image of its own and put down as a whole.
LayerIsolated(l) == l.comp_op \/ l.translucent
StyleIsolated(s) == s.comp_op \/ s.filters # <<>> \/ s.translucent

\* The rules of a style that apply to a feature: the if rules it matches, or
\* the first of them alone; else, or also, as the style has them.
Due(s, f) ==
    LET matching == {k \in RulesIn(s, "if") : f \in s.rules[k].matches}
    IN IF matching = {} THEN RulesIn(s, "else")
       ELSE IF s.filter_first THEN {k \in matching : \A j \in matching : k <= j}
       ELSE matching \cup RulesIn(s, "also")

-----------------------------------------------------------------------------
(* What is drawn *)

\* Whether a symbolizer has drawn anything of a content.
HasMark(content) == \E k \in DOMAIN content : content[k].marked

\* ok: both images were premultiplied, as composite asserts.
Item(what, who, content, ok) ==
    [what |-> what, who |-> who, content |-> content, ok |-> ok,
     marked |-> what = "mark" \/ HasMark(content)]
Mark(who) == Item("mark", who, <<>>, TRUE)

\* A content after image filters, if there are any.
WithFilters(content, filters, who) ==
    IF filters = <<>> THEN content ELSE <<Item("filter", who, content, TRUE)>>
=============================================================================
