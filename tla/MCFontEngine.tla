---------------------------- MODULE MCFontEngine ----------------------------
(* Instances of FontEngine for TLC. *)
EXTENDS FontEngine, TLC

\* Two faces in one file; an icon font that lost its face; a font that is
\* hidden and one that is not.
FontFiles ==
    [sans |-> <<"Sans Book", "Sans Bold">>,
     icons |-> <<"Icons">>,
     serif |-> <<".LastResort", "Serif">>,
     mono |-> <<"Mono">>]

AllNames == {"Sans Book", "Sans Bold", "Icons", "Serif", "Mono"}
AllFiles == DOMAIN FontFiles

\* What registering sans and mono leaves.
SansAndMono ==
    ("Sans Book" :> Face("sans", 1)) @@ ("Sans Bold" :> Face("sans", 2))
        @@ ("Mono" :> Face("mono", 1))

\* A map with fonts of its own: one it has read, one it leaves to the engine.
FontsOfMap ==
    ("Icons" :> Face("icons", 1)) @@ ("Sans Bold" :> Face("sans", 2))

IconsLost == {<<"icons", 1>>}

\* The fonts of this instance meet the conditions of the properties.
ASSUME ConditionsMet == Stable /\ LostApart
=============================================================================
