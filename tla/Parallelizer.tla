---------------------------- MODULE Parallelizer ----------------------------
(***************************************************************************)
(* mapnik::parallelizer::render (src/util/parallelizer.cpp): every visible *)
(* layer of a map is rendered by a thread of its own into an image of its  *)
(* own, the first one with the background under it, and the images are     *)
(* composited in the order of the layers.                                  *)
(*                                                                         *)
(* The jobs share nothing that changes but the caches of the process; they *)
(* refer to the layers of the caller's map, which must outlive them.       *)
(***************************************************************************)
EXTENDS Integers, Sequences

CONSTANTS
    Spots, Maps, \* as in LayersInTurn
    MaxLayers    \* the length of the longest map

VARIABLES
    map,         \* the map rendered
    pc,          \* "launch", "join", "unwind", "returned", "thrown"
    at,          \* the layers the launching loop is through
    jobs,        \* layer_jobs: the layer and the state of each
    joined,      \* the jobs composited
    image        \* img: content, painted and premultiplied

vars == <<map, pc, at, jobs, joined, image>>

\* The label spots of the layers composited, as one detector for all of
\* them would have them.
TakenSoFar ==
    {s \in Spots : \E i \in 1..joined :
        /\ map.layers[jobs[i].layer].prepared
        /\ s \in map.layers[jobs[i].layer].labels
        /\ \A j \in i + 1..joined :
            ~ (map.layers[jobs[j].layer].prepared /\ map.layers[jobs[j].layer].clear)}

OneThread == INSTANCE LayersInTurn WITH
    next <- IF joined = 0 THEN 0 ELSE jobs[joined].layer,
    content <- IF joined = 0 /\ pc # "returned"
               THEN IF map.background THEN <<[what |-> "background"]>> ELSE <<>>
               ELSE image.content,
    straight <- ~image.premultiplied,
    taken <- TakenSoFar,
    outcome <- CASE pc = "returned" -> "finished"
                 [] pc \in {"unwind", "thrown"} -> "failed"
                 [] OTHER -> "painting"

ASSUME MapsAssumption ==
    /\ Maps \subseteq OneThread!MapType
    /\ MaxLayers \in Nat
    /\ \A m \in Maps : Len(m.layers) <= MaxLayers

-----------------------------------------------------------------------------
JobStates == {"running", "done", "failed", "joined"}
Layer(n) == map.layers[n]

\* Mutant: the index of a job is that of its layer.
CountingLayers(k) == jobs[k].layer - 1

\* The jobs are numbered from 0, invisible layers not counted.
IndexOf(k) == k - 1

\* Mutant: images over others are not marked as premultiplied.
RenderedPlain(n, index) ==
    LET l == Layer(n)
        below == IF index = 0 THEN OneThread!Background(map) ELSE <<>>
    IN [content |-> IF l.prepared
                    THEN OneThread!Filtered(OneThread!Styled(below, l, n, l.labels), l)
                    ELSE below,
        painted |-> l.prepared /\ (l.marks \/ l.labels # {}),
        premultiplied |-> index = 0]

\* The image a job ends with.  render_layer: a copy of the layer without
\* comp_op and opacity, painted by a renderer with a label detector of its own.
Rendered(n, index) ==
    LET l == Layer(n)
        below == IF index = 0 THEN OneThread!Background(map) ELSE <<>>
    IN [content |-> IF l.prepared
                    THEN OneThread!Filtered(OneThread!Styled(below, l, n, l.labels), l)
                    ELSE below,
        painted |-> l.prepared /\ (l.marks \/ l.labels # {}),
        premultiplied |-> TRUE]

\* A blend takes the pixels of both images for premultiplied.
AsPremultiplied(img) ==
    IF img.premultiplied THEN img.content
    ELSE <<[what |-> "straight", above |-> img.content]>>

\* Drawn at another scale factor than the map, and then resampled.
Resampled(c) == IF c = <<>> THEN <<>> ELSE <<[what |-> "resampled", above |-> c]>>

\* Mutant: the image scaled is a new one, painted or not.
ScaledUnpainted(l, img) ==
    IF l.resized
    THEN [content |-> Resampled(img.content), painted |-> FALSE, premultiplied |-> TRUE]
    ELSE img

\* scale_if_needed: a new image, premultiplied, that takes the painted flag.
Scaled(l, img) ==
    IF l.resized
    THEN [content |-> Resampled(img.content), painted |-> img.painted,
          premultiplied |-> TRUE]
    ELSE img

Init ==
    /\ map \in Maps
    /\ pc = "launch"
    /\ at = 0
    /\ jobs = <<>>
    /\ joined = 0
    /\ image = [content |-> <<>>, painted |-> FALSE, premultiplied |-> TRUE]

-----------------------------------------------------------------------------
(* The thread that called render *)

SkipLayer ==
    /\ pc = "launch"
    /\ at < Len(map.layers)
    /\ ~Layer(at + 1).visible
    /\ at' = at + 1
    /\ UNCHANGED <<map, pc, jobs, joined, image>>

LaunchJob ==
    /\ pc = "launch"
    /\ at < Len(map.layers)
    /\ Layer(at + 1).visible
    /\ at' = at + 1
    /\ jobs' = Append(jobs, [layer |-> at + 1, state |-> "running"])
    /\ UNCHANGED <<map, pc, joined, image>>

\* Mutant: the exception is passed on at once.
AsyncThrowsAtOnce ==
    /\ pc = "launch"
    /\ at < Len(map.layers)
    /\ Layer(at + 1).visible
    /\ pc' = "thrown"
    /\ UNCHANGED <<map, at, jobs, joined, image>>

\* std::async finds no thread for the job.
AsyncThrows ==
    /\ pc = "launch"
    /\ at < Len(map.layers)
    /\ Layer(at + 1).visible
    /\ pc' = "unwind"
    /\ UNCHANGED <<map, at, jobs, joined, image>>

AllLaunched ==
    /\ pc = "launch"
    /\ at = Len(map.layers)
    /\ pc' = "join"
    /\ UNCHANGED <<map, at, jobs, joined, image>>

\* Mutant: an off-by-one in the loop over the jobs.
JoinNext(k) ==
    /\ pc = "join"
    /\ k = joined + 2
    /\ k <= Len(jobs)
    /\ jobs[k].state = "done"

\* future.get returns.
Join(k) ==
    /\ pc = "join"
    /\ k = joined + 1
    /\ jobs[k].state = "done"

CompositeLayer(k) ==
    /\ Join(k)
    /\ LET l == Layer(jobs[k].layer)
           layer_img == Scaled(l, Rendered(jobs[k].layer, IndexOf(k)))
       IN image' = [image EXCEPT
                       !.content = OneThread!Composited(@, AsPremultiplied(layer_img), l),
                       !.painted = @ \/ layer_img.painted]
    /\ jobs' = [jobs EXCEPT ![k].state = "joined"]
    /\ joined' = joined + 1
    /\ UNCHANGED <<map, pc, at>>

\* future.get rethrows what the job has thrown.
GetThrows ==
    /\ pc = "join"
    /\ joined < Len(jobs)
    /\ jobs[joined + 1].state = "failed"
    /\ pc' = "unwind"
    /\ UNCHANGED <<map, at, jobs, joined, image>>

Return ==
    /\ pc = "join"
    /\ joined = Len(jobs)
    /\ image' = [image EXCEPT !.premultiplied = FALSE]
    /\ pc' = "returned"
    /\ UNCHANGED <<map, at, jobs, joined>>

\* The destructor of layer_jobs waits for the jobs that still run.
Unwound ==
    /\ pc = "unwind"
    /\ \A k \in DOMAIN jobs : jobs[k].state # "running"
    /\ pc' = "thrown"
    /\ UNCHANGED <<map, at, jobs, joined, image>>

-----------------------------------------------------------------------------
(* The jobs *)

RenderLayer(k) ==
    /\ jobs[k].state = "running"
    /\ jobs' = [jobs EXCEPT ![k].state = "done"]
    /\ UNCHANGED <<map, pc, at, joined, image>>

RenderThrows(k) ==
    /\ jobs[k].state = "running"
    /\ jobs' = [jobs EXCEPT ![k].state = "failed"]
    /\ UNCHANGED <<map, pc, at, joined, image>>

Main ==
    \/ SkipLayer \/ LaunchJob \/ AsyncThrows \/ AllLaunched
    \/ \E k \in DOMAIN jobs : CompositeLayer(k)
    \/ GetThrows \/ Return \/ Unwound

Job(k) == k \in DOMAIN jobs /\ (RenderLayer(k) \/ RenderThrows(k))

Next == Main \/ \E k \in DOMAIN jobs : Job(k)

Spec == Init /\ [][Next]_vars

\* The threads run.
FairSpec == Spec /\ WF_vars(Main) /\ \A k \in 1..MaxLayers : WF_vars(Job(k))

-----------------------------------------------------------------------------
(* Maps that can be rendered so *)

FirstVisible(m, n) ==
    m.layers[n].visible /\ \A k \in 1..n - 1 : ~m.layers[k].visible

\* One thread does not heed the scale factor of a layer.  The first job paints
\* on the background, as one thread does, so only its compositing can go
\* wrong; the others paint on nothing.
Separable(m, n) ==
    LET l == m.layers[n] IN
    \/ ~l.visible
    \/ /\ ~l.resized
       /\ \/ FirstVisible(m, n) /\ ~OneThread!Isolated(l)
          \/ /\ ~l.direct
             /\ l.prepared \/ l.comp_op # "other"
             /\ OneThread!Isolated(l) \/ ~l.blends
             /\ FirstVisible(m, n) /\ m.background
                  => l.comp_op # "other" /\ ~l.translucent /\ ~l.blends

\* Each job has a label detector of its own.
LabelsApart(m) ==
    \A j, k \in DOMAIN m.layers :
        j # k /\ m.layers[j].visible /\ m.layers[k].visible
            => m.layers[j].labels \cap m.layers[k].labels = {}

\* Without a visible layer nobody paints the background.
Parallelizable(m) ==
    /\ \A n \in DOMAIN m.layers : Separable(m, n)
    /\ LabelsApart(m)
    /\ m.background => \E n \in DOMAIN m.layers : m.layers[n].visible

-----------------------------------------------------------------------------
(* Properties *)

TypeOK ==
    /\ map \in Maps
    /\ pc \in {"launch", "join", "unwind", "returned", "thrown"}
    /\ at \in 0..Len(map.layers)
    /\ joined \in 0..Len(jobs)
    /\ \A k \in DOMAIN jobs :
        /\ jobs[k].layer \in 1..at
        /\ jobs[k].state \in JobStates
        /\ jobs[k].state = "joined" <=> k <= joined
    /\ image.painted \in BOOLEAN /\ image.premultiplied \in BOOLEAN

\* However the threads are scheduled, the image of a map that is
\* Parallelizable goes through the states in which one thread paints the map,
\* and render returns the image that thread returns: for such maps render
\* implements OneThread!TurnSpec.
PaintsInTurn ==
    /\ OneThread!TurnInit
    /\ [][Parallelizable(map) => OneThread!TurnNext]_(OneThread!turnVars)

\* Of any map the painted flag tells whether some layer drew something.
PaintedFlagTrue ==
    pc = "returned" =>
        (image.painted <=> \E n \in DOMAIN map.layers :
                              /\ Layer(n).visible
                              /\ Layer(n).prepared
                              /\ Layer(n).marks \/ Layer(n).labels # {})

\* No thread reads the caller's map any more once render has returned or
\* thrown.
NothingLeftRunning ==
    pc \in {"returned", "thrown"} =>
        \A k \in DOMAIN jobs : jobs[k].state # "running"

\* render ends, with an exception or without, also when jobs fail.
RenderEnds == <>(pc \in {"returned", "thrown"})
=============================================================================
