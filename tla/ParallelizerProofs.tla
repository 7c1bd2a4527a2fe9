------------------------- MODULE ParallelizerProofs -------------------------
(***************************************************************************)
(* Proofs about Parallelizer, for maps of any length: what is launched and *)
(* joined, and that of a map that is Parallelizable render makes what one  *)
(* thread makes.                                                           *)
(***************************************************************************)
EXTENDS Parallelizer, TLAPS

(* Contents are sequences; nothing else need be known of their items.      *)
IsContent(c) == \E S : c \in Seq(S)

LEMMA NothingIsContent == IsContent(<<>>)
  BY DEF IsContent

LEMMA ItemIsContent ==
    ASSUME NEW item
    PROVE  IsContent(<<item>>)
<1>1. <<item>> \in Seq({item})
  OBVIOUS
<1> QED
  BY <1>1 DEF IsContent

LEMMA ConcatIsContent ==
    ASSUME NEW c, NEW d, IsContent(c), IsContent(d)
    PROVE  IsContent(c \o d)
<1>1. PICK S : c \in Seq(S)
  BY DEF IsContent
<1>2. PICK T : d \in Seq(T)
  BY DEF IsContent
<1>3. c \in Seq(S \cup T) /\ d \in Seq(S \cup T)
  BY <1>1, <1>2
<1>4. c \o d \in Seq(S \cup T)
  BY <1>3
<1> QED
  BY <1>4 DEF IsContent

\* Nothing is the unit of \o.
LEMMA ConcatNothing ==
    ASSUME NEW c, IsContent(c)
    PROVE  <<>> \o c = c /\ c \o <<>> = c
<1>1. PICK S : c \in Seq(S)
  BY DEF IsContent
<1> QED
  BY <1>1

-----------------------------------------------------------------------------
(* The inductive invariant: the jobs are the visible layers the loop is    *)
(* through, in their order, and what is joined is a prefix of them.        *)

JobRecords == [layer : Nat, state : JobStates]

JobsAreLayers ==
    /\ \A k \in 1..Len(jobs) :
        /\ jobs[k].layer \in 1..at
        /\ map.layers[jobs[k].layer].visible
    /\ \A j, k \in 1..Len(jobs) : j < k => jobs[j].layer < jobs[k].layer
    /\ \A n \in 1..at : map.layers[n].visible =>
        \E k \in 1..Len(jobs) : jobs[k].layer = n

JoinedArePrefix ==
    /\ joined \in 0..Len(jobs)
    /\ \A k \in 1..Len(jobs) : jobs[k].state = "joined" <=> k <= joined
    /\ pc = "launch" => joined = 0
    /\ pc \in {"join", "returned"} => at = Len(map.layers)
    /\ pc = "returned" => joined = Len(jobs)

ImageSoFar ==
    /\ image = [content |-> image.content, painted |-> image.painted,
                premultiplied |-> image.premultiplied]
    /\ image.painted \in BOOLEAN
    /\ image.premultiplied \in BOOLEAN
    /\ image.premultiplied <=> pc # "returned"
    /\ joined = 0 => image.content = <<>>
    /\ IsContent(image.content)

Invariant ==
    /\ map \in Maps
    /\ pc \in {"launch", "join", "unwind", "returned", "thrown"}
    /\ at \in 0..Len(map.layers)
    /\ jobs \in Seq(JobRecords)
    /\ JobsAreLayers
    /\ JoinedArePrefix
    /\ ImageSoFar
    /\ NothingLeftRunning

\* What a job ends with is premultiplied content with a painted flag, and only
\* the content of a layer with a scale factor of its own is another one.
LEMMA RenderedIsImage ==
    ASSUME map \in Maps, NEW n \in DOMAIN map.layers, NEW index
    PROVE  /\ IsContent(AsPremultiplied(Scaled(Layer(n), Rendered(n, index))))
           /\ Scaled(Layer(n), Rendered(n, index)).painted \in BOOLEAN
           /\ ~Layer(n).resized =>
                AsPremultiplied(Scaled(Layer(n), Rendered(n, index)))
                  = Rendered(n, index).content
           /\ Scaled(Layer(n), Rendered(n, index)).painted
                = Rendered(n, index).painted
<1> DEFINE l == Layer(n)
           below == IF index = 0 THEN OneThread!Background(map) ELSE <<>>
           styled == OneThread!Styled(below, l, n, l.labels)
           marks == OneThread!Marks(l, n, l.labels)
<1>1. l \in OneThread!LayerType
  BY MapsAssumption DEF Layer, OneThread!MapType
<1>2. IsContent(below)
  BY NothingIsContent, ItemIsContent DEF OneThread!Background, OneThread!Nothing
<1>3. IsContent(marks)
  BY NothingIsContent, ItemIsContent DEF OneThread!Marks, OneThread!Nothing
<1>4. IsContent(styled)
  <2> HIDE DEF below
  <2> QED
    BY <1>2, <1>3, ItemIsContent, ConcatIsContent DEF OneThread!Styled
<1>5. IsContent(OneThread!Filtered(styled, l))
  BY <1>4, ItemIsContent DEF OneThread!Filtered
<1>6. IsContent(Rendered(n, index).content)
  BY <1>2, <1>5 DEF Rendered
<1>7. /\ ~l.resized => Scaled(l, Rendered(n, index)).content = Rendered(n, index).content
      /\ Scaled(l, Rendered(n, index)).painted = Rendered(n, index).painted
      /\ Scaled(l, Rendered(n, index)).premultiplied = TRUE
  BY DEF Scaled, Rendered
<1>a. IsContent(Scaled(l, Rendered(n, index)).content)
  <2>1. ASSUME NEW c, IsContent(c) PROVE IsContent(Resampled(c))
    BY <2>1, NothingIsContent, ItemIsContent DEF Resampled
  <2>2. \/ Scaled(l, Rendered(n, index)).content = Resampled(Rendered(n, index).content)
        \/ Scaled(l, Rendered(n, index)).content = Rendered(n, index).content
    BY DEF Scaled
  <2> QED
    BY <1>6, <2>1, <2>2
<1>8. Rendered(n, index).painted \in BOOLEAN
  BY <1>1 DEF Rendered, OneThread!LayerType
<1> QED
  BY <1>7, <1>8, <1>a DEF AsPremultiplied

LEMMA CompositedIsContent ==
    ASSUME NEW below, NEW above, NEW l, IsContent(below), IsContent(above)
    PROVE  IsContent(OneThread!Composited(below, above, l))
<1> QED
  BY ItemIsContent, ConcatIsContent DEF OneThread!Composited

LEMMA InitInvariant == Init => Invariant
<1> SUFFICES ASSUME Init PROVE Invariant
  OBVIOUS
<1>1. Len(map.layers) \in Nat
  BY MapsAssumption DEF Init, OneThread!MapType
<1> QED
  BY <1>1, NothingIsContent
  DEF Init, Invariant, JobsAreLayers, JoinedArePrefix, ImageSoFar,
      NothingLeftRunning, JobStates

\* What changing the state of a job leaves alone.
LEMMA StateChanged ==
    ASSUME jobs \in Seq(JobRecords), NEW k \in DOMAIN jobs, NEW s \in JobStates,
           jobs' = [jobs EXCEPT ![k].state = s]
    PROVE  /\ jobs' \in Seq(JobRecords)
           /\ Len(jobs') = Len(jobs)
           /\ DOMAIN jobs' = DOMAIN jobs
           /\ \A j \in DOMAIN jobs :
               /\ jobs'[j].layer = jobs[j].layer
               /\ jobs'[j].state = IF j = k THEN s ELSE jobs[j].state
<1>1. Len(jobs) \in Nat /\ DOMAIN jobs = 1..Len(jobs) /\ jobs \in [1..Len(jobs) -> JobRecords]
  OBVIOUS
<1>2. [jobs[k] EXCEPT !.state = s] \in JobRecords
  <2>1. jobs[k] \in JobRecords
    BY <1>1
  <2> QED
    BY <2>1 DEF JobRecords
<1>3. jobs' = [j \in 1..Len(jobs) |-> IF j = k THEN [jobs[k] EXCEPT !.state = s] ELSE jobs[j]]
  BY <1>1
<1>4. jobs' \in [1..Len(jobs) -> JobRecords]
  BY <1>1, <1>2, <1>3
<1>5. jobs' \in Seq(JobRecords) /\ Len(jobs') = Len(jobs)
  BY <1>1, <1>4
<1>6. \A j \in DOMAIN jobs : jobs[j] \in JobRecords
  BY <1>1
<1>7. \A j \in DOMAIN jobs :
        /\ jobs'[j].layer = jobs[j].layer
        /\ jobs'[j].state = IF j = k THEN s ELSE jobs[j].state
  BY <1>1, <1>3, <1>6 DEF JobRecords
<1> QED
  BY <1>1, <1>3, <1>5, <1>7

\* The jobs stay the layers while only their states change.
LEMMA SameLayers ==
    ASSUME JobsAreLayers, map' = map, at' = at, Len(jobs') = Len(jobs),
           \A j \in 1..Len(jobs) : jobs'[j].layer = jobs[j].layer
    PROVE  JobsAreLayers'
<1> QED
  BY DEF JobsAreLayers

LEMMA NextInvariant == Invariant /\ [Next]_vars => Invariant'
<1> SUFFICES ASSUME Invariant, [Next]_vars PROVE Invariant'
  OBVIOUS
<1>0. /\ map \in Maps
      /\ pc \in {"launch", "join", "unwind", "returned", "thrown"}
      /\ at \in 0..Len(map.layers)
      /\ jobs \in Seq(JobRecords)
      /\ Len(jobs) \in Nat
      /\ DOMAIN jobs = 1..Len(jobs)
      /\ JobsAreLayers
      /\ JoinedArePrefix
      /\ ImageSoFar
      /\ NothingLeftRunning
  BY DEF Invariant
<1>a. /\ Len(map.layers) \in Nat
      /\ DOMAIN map.layers = 1..Len(map.layers)
  BY <1>0, MapsAssumption DEF OneThread!MapType
<1>1. CASE SkipLayer
  <2>1. /\ pc = "launch" /\ at < Len(map.layers) /\ ~map.layers[at + 1].visible
        /\ at' = at + 1 /\ UNCHANGED <<map, pc, jobs, joined, image>>
    BY <1>1 DEF SkipLayer, Layer
  <2>2. JobsAreLayers'
    BY <1>0, <1>a, <2>1 DEF JobsAreLayers
  <2>3. JoinedArePrefix'
    BY <1>0, <2>1 DEF JoinedArePrefix
  <2>4. ImageSoFar' /\ NothingLeftRunning'
    BY <1>0, <2>1 DEF ImageSoFar, NothingLeftRunning, IsContent
  <2> QED
    BY <1>0, <1>a, <2>1, <2>2, <2>3, <2>4 DEF Invariant
<1>2. CASE LaunchJob
  <2> DEFINE job == [layer |-> at + 1, state |-> "running"]
  <2>1. /\ pc = "launch" /\ at < Len(map.layers) /\ map.layers[at + 1].visible
        /\ at' = at + 1 /\ UNCHANGED <<map, pc, joined, image>>
        /\ jobs' = Append(jobs, job)
    BY <1>2 DEF LaunchJob, Layer
  <2>2. /\ jobs' \in Seq(JobRecords)
        /\ Len(jobs') = Len(jobs) + 1
        /\ DOMAIN jobs' = 1..Len(jobs) + 1
        /\ \A k \in 1..Len(jobs) : jobs'[k] = jobs[k]
        /\ jobs'[Len(jobs) + 1].layer = at + 1
        /\ jobs'[Len(jobs) + 1].state = "running"
    <3>1. /\ job \in JobRecords /\ job.layer = at + 1 /\ job.state = "running"
      BY <1>0, <1>a DEF JobStates, JobRecords
    <3> HIDE DEF job
    <3> QED
      BY <1>0, <2>1, <3>1
  <2> HIDE DEF job
  <2>3. joined = 0
    BY <1>0, <2>1 DEF JoinedArePrefix
  <2>4. JobsAreLayers'
    <3>1. \A j \in 1..Len(jobs') :
            /\ jobs'[j].layer \in 1..at'
            /\ map'.layers[jobs'[j].layer].visible
      BY <1>0, <1>a, <2>1, <2>2 DEF JobsAreLayers
    <3>2. \A i, j \in 1..Len(jobs') : i < j => jobs'[i].layer < jobs'[j].layer
      BY <1>0, <1>a, <2>1, <2>2 DEF JobsAreLayers
    <3>3. ASSUME NEW n \in 1..at', map'.layers[n].visible
          PROVE  \E j \in 1..Len(jobs') : jobs'[j].layer = n
      <4>1. CASE n = at + 1
        BY <1>0, <2>2, <4>1
      <4>2. CASE n # at + 1
        <5>1. n \in 1..at /\ map.layers[n].visible
          BY <1>0, <1>a, <2>1, <3>3, <4>2
        <5>2. PICK j \in 1..Len(jobs) : jobs[j].layer = n
          BY <1>0, <5>1 DEF JobsAreLayers
        <5> QED
          BY <1>0, <2>2, <5>2
      <4> QED
        BY <4>1, <4>2
    <3> QED
      BY <3>1, <3>2, <3>3 DEF JobsAreLayers
  <2>5. JoinedArePrefix'
    <3>1. \A j \in 1..Len(jobs) : jobs[j].state # "joined"
      BY <1>0, <2>3 DEF JoinedArePrefix
    <3>2. \A j \in 1..Len(jobs') : jobs'[j].state # "joined"
      BY <1>0, <2>2, <3>1
    <3> QED
      BY <1>0, <2>1, <2>2, <2>3, <3>2 DEF JoinedArePrefix
  <2>6. ImageSoFar' /\ NothingLeftRunning'
    BY <1>0, <2>1 DEF ImageSoFar, NothingLeftRunning, IsContent
  <2> QED
    BY <1>0, <1>a, <2>1, <2>2, <2>4, <2>5, <2>6 DEF Invariant
<1>3. CASE AsyncThrows
  BY <1>0, <1>3
  DEF AsyncThrows, Invariant, JobsAreLayers, JoinedArePrefix, ImageSoFar,
      NothingLeftRunning, IsContent
<1>4. CASE AllLaunched
  BY <1>0, <1>4
  DEF AllLaunched, Invariant, JobsAreLayers, JoinedArePrefix, ImageSoFar,
      NothingLeftRunning, IsContent
<1>5. ASSUME NEW k \in DOMAIN jobs, CompositeLayer(k) PROVE Invariant'
  <2> DEFINE n == jobs[k].layer
             img == Scaled(Layer(n), Rendered(n, IndexOf(k)))
  <2>1. /\ k \in 1..Len(jobs) /\ pc = "join" /\ k = joined + 1
        /\ joined' = joined + 1 /\ pc' = pc /\ at' = at /\ map' = map
        /\ jobs' = [jobs EXCEPT ![k].state = "joined"]
        /\ image' = [image EXCEPT
                        !.content = OneThread!Composited(@, AsPremultiplied(img), Layer(n)),
                        !.painted = @ \/ img.painted]
    BY <1>0, <1>5 DEF CompositeLayer, Join
  <2>2. /\ jobs' \in Seq(JobRecords)
        /\ Len(jobs') = Len(jobs)
        /\ DOMAIN jobs' = DOMAIN jobs
        /\ \A j \in 1..Len(jobs) :
            /\ jobs'[j].layer = jobs[j].layer
            /\ jobs'[j].state = IF j = k THEN "joined" ELSE jobs[j].state
    <3>1. "joined" \in JobStates
      BY DEF JobStates
    <3>2. DOMAIN jobs = 1..Len(jobs) /\ jobs \in Seq(JobRecords) /\ k \in DOMAIN jobs
      BY <1>0, <2>1
    <3>3. /\ jobs' \in Seq(JobRecords)
          /\ Len(jobs') = Len(jobs)
          /\ DOMAIN jobs' = DOMAIN jobs
          /\ \A j \in DOMAIN jobs :
               /\ jobs'[j].layer = jobs[j].layer
               /\ jobs'[j].state = IF j = k THEN "joined" ELSE jobs[j].state
      BY ONLY <2>1, <3>1, <3>2, StateChanged, Zenon
    <3> QED
      BY <3>2, <3>3
  <2>3. n \in DOMAIN map.layers
    <3>1. jobs[k].layer \in 1..at
      BY <1>0, <2>1 DEF JobsAreLayers
    <3> QED
      BY <1>0, <1>a, <3>1
  <2>5. IsContent(AsPremultiplied(img)) /\ img.painted \in BOOLEAN
    BY <1>0, <2>3, RenderedIsImage
  <2> HIDE DEF img, IsContent
  <2>6. IsContent(OneThread!Composited(image.content, AsPremultiplied(img), Layer(n)))
    BY <1>0, <2>5, CompositedIsContent DEF ImageSoFar
  <2>7. ImageSoFar'
    <3>1. /\ image'.content
               = OneThread!Composited(image.content, AsPremultiplied(img), Layer(n))
          /\ image'.painted = (image.painted \/ img.painted)
          /\ image'.premultiplied = image.premultiplied
          /\ image' = [content |-> image'.content, painted |-> image'.painted,
                       premultiplied |-> image'.premultiplied]
      BY <1>0, <2>1 DEF ImageSoFar
    <3>2. joined' # 0
      BY <1>0, <2>1 DEF JoinedArePrefix
    <3>3. IsContent(image'.content)
      BY <2>6, <3>1
    <3> QED
      BY <1>0, <2>1, <2>5, <3>1, <3>2, <3>3 DEF ImageSoFar
  <2>8. JobsAreLayers'
    BY <1>0, <2>1, <2>2, SameLayers
  <2>9. JoinedArePrefix' /\ NothingLeftRunning'
    BY <1>0, <2>1, <2>2 DEF JoinedArePrefix, NothingLeftRunning
  <2> QED
    BY <1>0, <2>1, <2>2, <2>7, <2>8, <2>9 DEF Invariant
<1>6. CASE GetThrows
  BY <1>0, <1>6
  DEF GetThrows, Invariant, JobsAreLayers, JoinedArePrefix, ImageSoFar,
      NothingLeftRunning, IsContent
<1>7. CASE Return
  <2>1. /\ image' = [image EXCEPT !.premultiplied = FALSE]
        /\ pc = "join" /\ pc' = "returned" /\ joined = Len(jobs)
        /\ UNCHANGED <<map, at, jobs, joined>>
    BY <1>7 DEF Return
  <2>2. ImageSoFar'
    <3>1. /\ image'.content = image.content /\ image'.painted = image.painted
          /\ image'.premultiplied = FALSE
          /\ image' = [content |-> image'.content, painted |-> image'.painted,
                       premultiplied |-> image'.premultiplied]
      BY <1>0, <2>1 DEF ImageSoFar
    <3>2. IsContent(image'.content)
      BY <1>0, <3>1 DEF ImageSoFar
    <3> HIDE DEF IsContent
    <3> QED
      BY <1>0, <2>1, <3>1, <3>2 DEF ImageSoFar
  <2>3. JobsAreLayers'
    BY <1>0, <2>1, SameLayers
  <2>4. /\ JoinedArePrefix'
        /\ NothingLeftRunning'
    <3>1. \A k \in 1..Len(jobs) : jobs[k].state = "joined"
      BY <1>0, <2>1 DEF JoinedArePrefix
    <3> QED
      BY <1>0, <2>1, <3>1 DEF JoinedArePrefix, NothingLeftRunning
  <2> QED
    BY <1>0, <2>1, <2>2, <2>3, <2>4 DEF Invariant
<1>8. CASE Unwound
  BY <1>0, <1>8
  DEF Unwound, Invariant, JobsAreLayers, JoinedArePrefix, ImageSoFar,
      NothingLeftRunning, IsContent
<1>9. ASSUME NEW k \in DOMAIN jobs, Job(k) PROVE Invariant'
  <2>1. PICK s \in {"done", "failed"} : jobs' = [jobs EXCEPT ![k].state = s]
    BY <1>9 DEF Job, RenderLayer, RenderThrows
  <2>2. /\ jobs[k].state = "running" /\ k \in 1..Len(jobs)
        /\ UNCHANGED <<map, pc, at, joined, image>>
    BY <1>0, <1>9 DEF Job, RenderLayer, RenderThrows
  <2>3. /\ jobs' \in Seq(JobRecords)
        /\ Len(jobs') = Len(jobs)
        /\ DOMAIN jobs' = DOMAIN jobs
        /\ \A j \in 1..Len(jobs) :
            /\ jobs'[j].layer = jobs[j].layer
            /\ jobs'[j].state = IF j = k THEN s ELSE jobs[j].state
    <3>1. s \in JobStates /\ k \in DOMAIN jobs
      BY <1>0, <2>2 DEF JobStates
    <3>2. DOMAIN jobs = 1..Len(jobs) /\ jobs \in Seq(JobRecords)
      BY <1>0
    <3>3. /\ jobs' \in Seq(JobRecords)
          /\ Len(jobs') = Len(jobs)
          /\ DOMAIN jobs' = DOMAIN jobs
          /\ \A j \in DOMAIN jobs :
               /\ jobs'[j].layer = jobs[j].layer
               /\ jobs'[j].state = IF j = k THEN s ELSE jobs[j].state
      BY ONLY <2>1, <3>1, <3>2, StateChanged, Zenon
    <3> QED
      BY <3>2, <3>3
  <2>4. JobsAreLayers'
    BY <1>0, <2>2, <2>3, SameLayers
  <2>5. JoinedArePrefix'
    BY <1>0, <2>1, <2>2, <2>3 DEF JoinedArePrefix
  <2>6. NothingLeftRunning' /\ ImageSoFar'
    BY <1>0, <2>1, <2>2, <2>3 DEF ImageSoFar, NothingLeftRunning, IsContent
  <2> QED
    BY <1>0, <2>2, <2>3, <2>4, <2>5, <2>6 DEF Invariant
<1>10. CASE UNCHANGED vars
  BY <1>0, <1>10
  DEF vars, Invariant, JobsAreLayers, JoinedArePrefix, ImageSoFar,
      NothingLeftRunning, IsContent
<1> QED
  BY <1>1, <1>2, <1>3, <1>4, <1>5, <1>6, <1>7, <1>8, <1>9, <1>10 DEF Next, Main

THEOREM AlwaysInvariant == Spec => []Invariant
<1> QED
  BY InitInvariant, NextInvariant, PTL DEF Spec

\* Every job is a visible layer of the map, and what is joined is the first
\* jobs, in their order.
THEOREM TypeCorrect == Spec => []TypeOK
<1>1. ASSUME Invariant PROVE TypeOK
  <2>1. /\ jobs \in Seq(JobRecords)
        /\ Len(jobs) \in Nat
        /\ DOMAIN jobs = 1..Len(jobs)
    BY <1>1 DEF Invariant
  <2>2. \A k \in DOMAIN jobs : jobs[k] \in JobRecords
    BY <2>1
  <2>3. \A k \in DOMAIN jobs : jobs[k].state \in JobStates
    BY <2>2 DEF JobRecords
  <2> QED
    BY <1>1, <2>1, <2>3
    DEF Invariant, JobsAreLayers, JoinedArePrefix, ImageSoFar, TypeOK
<1> QED
  BY <1>1, AlwaysInvariant, PTL

\* render never leaves a thread behind that reads the map of its caller,
\* however many layers fail or cannot be launched.
THEOREM AllThreadsDone == Spec => []NothingLeftRunning
<1>1. Invariant => NothingLeftRunning
  BY DEF Invariant
<1> QED
  BY <1>1, AlwaysInvariant, PTL

-----------------------------------------------------------------------------
(* The painted flag                                                        *)

Draws(n) == Layer(n).prepared /\ (Layer(n).marks \/ Layer(n).labels # {})
PaintedSoFar == image.painted <=> \E k \in 1..joined : Draws(jobs[k].layer)

LEMMA PaintedStep ==
    ASSUME Invariant, PaintedSoFar, [Next]_vars
    PROVE  PaintedSoFar'
<1>0. /\ joined \in 0..Len(jobs) /\ Len(jobs) \in Nat /\ DOMAIN jobs = 1..Len(jobs)
      /\ map \in Maps /\ jobs \in Seq(JobRecords)
  BY DEF Invariant, JoinedArePrefix
<1>1. ASSUME map' = map, joined' = joined, image'.painted = image.painted,
             \A j \in 1..joined : jobs'[j].layer = jobs[j].layer
      PROVE  PaintedSoFar'
  BY <1>0, <1>1 DEF PaintedSoFar, Draws, Layer
<1>2. CASE SkipLayer \/ AsyncThrows \/ AllLaunched \/ GetThrows \/ Unwound
           \/ UNCHANGED vars
  BY <1>1, <1>2 DEF SkipLayer, AsyncThrows, AllLaunched, GetThrows, Unwound, vars
<1>3. CASE LaunchJob
  <2>1. joined = 0
    BY <1>3 DEF LaunchJob, Invariant, JoinedArePrefix
  <2> QED
    BY <1>1, <1>3, <2>1 DEF LaunchJob
<1>4. CASE Return
  <2>1. image'.painted = image.painted
    BY <1>4 DEF Return, Invariant, ImageSoFar
  <2> QED
    BY <1>1, <1>4, <2>1 DEF Return
<1>5. ASSUME NEW k \in DOMAIN jobs, Job(k) PROVE PaintedSoFar'
  <2>1. PICK s \in {"done", "failed"} : jobs' = [jobs EXCEPT ![k].state = s]
    BY <1>5 DEF Job, RenderLayer, RenderThrows
  <2>2. s \in JobStates
    BY DEF JobStates
  <2>3. \A j \in DOMAIN jobs : jobs'[j].layer = jobs[j].layer
    BY <1>0, <2>1, <2>2, StateChanged
  <2> QED
    BY <1>0, <1>1, <1>5, <2>3 DEF Job, RenderLayer, RenderThrows
<1>6. ASSUME NEW k \in DOMAIN jobs, CompositeLayer(k) PROVE PaintedSoFar'
  <2> DEFINE n == jobs[k].layer
             img == Scaled(Layer(n), Rendered(n, IndexOf(k)))
  <2>1. /\ k \in 1..Len(jobs) /\ k = joined + 1 /\ joined' = joined + 1 /\ map' = map
        /\ jobs' = [jobs EXCEPT ![k].state = "joined"]
        /\ image' = [image EXCEPT
                        !.content = OneThread!Composited(@, AsPremultiplied(img), Layer(n)),
                        !.painted = @ \/ img.painted]
    BY <1>0, <1>6 DEF CompositeLayer, Join
  <2>2. image'.painted = (image.painted \/ img.painted)
    <3> HIDE DEF img
    <3> QED
      BY <2>1 DEF Invariant, ImageSoFar
  <2>3. "joined" \in JobStates
    BY DEF JobStates
  <2>4. \A j \in 1..Len(jobs) : jobs'[j].layer = jobs[j].layer
    BY <1>0, <2>1, <2>3, StateChanged
  <2>5. n \in DOMAIN map.layers
    BY <1>0, <2>1, MapsAssumption DEF Invariant, JobsAreLayers, OneThread!MapType
  <2>6. img.painted = Rendered(n, IndexOf(k)).painted
    BY <1>0, <2>5, RenderedIsImage
  <2>7. img.painted = Draws(n)
    BY <2>6 DEF Rendered, Draws
  <2> HIDE DEF img
  <2>8. \A j \in 1..Len(jobs) : Draws(jobs[j].layer)' <=> Draws(jobs[j].layer)
    BY <2>1, <2>4 DEF Draws, Layer
  <2> DEFINE D(j) == Draws(jobs[j].layer)
  <2>9. (\E j \in 1..joined + 1 : D(j)) <=> (\E j \in 1..joined : D(j)) \/ D(joined + 1)
    <3> HIDE DEF D
    <3> QED
      BY <1>0
  <2>10. PaintedSoFar' <=> (image'.painted <=> \E j \in 1..joined + 1 : D(j))
    BY <1>0, <2>1, <2>8 DEF PaintedSoFar
  <2> QED
    BY <2>1, <2>2, <2>7, <2>9, <2>10 DEF PaintedSoFar
<1> QED
  BY <1>2, <1>3, <1>4, <1>5, <1>6 DEF Next, Main

\* Of any map the painted flag of the image tells whether a layer drew
\* something, also of layers that were scaled.
THEOREM PaintedFlagIsTrue == Spec => []PaintedFlagTrue
<1>1. Init => PaintedSoFar
  BY DEF Init, PaintedSoFar
<1>2. Invariant /\ PaintedSoFar /\ [Next]_vars => PaintedSoFar'
  BY PaintedStep
<1>3. ASSUME Invariant, PaintedSoFar PROVE PaintedFlagTrue
  <2> SUFFICES ASSUME pc = "returned"
               PROVE  image.painted <=> \E n \in DOMAIN map.layers :
                                            Layer(n).visible /\ Draws(n)
    BY DEF PaintedFlagTrue, Draws
  <2>1. /\ joined = Len(jobs) /\ at = Len(map.layers)
        /\ DOMAIN map.layers = 1..Len(map.layers)
    BY <1>3, MapsAssumption DEF Invariant, JoinedArePrefix, OneThread!MapType
  <2>2. /\ \A k \in 1..Len(jobs) : jobs[k].layer \in 1..at /\ Layer(jobs[k].layer).visible
        /\ \A n \in 1..at : Layer(n).visible => \E k \in 1..Len(jobs) : jobs[k].layer = n
    BY <1>3 DEF Invariant, JobsAreLayers, Layer
  <2>3. image.painted <=> \E k \in 1..Len(jobs) : Draws(jobs[k].layer)
    BY <1>3, <2>1 DEF PaintedSoFar
  <2> QED
    BY <2>1, <2>2, <2>3
<1> QED
  BY <1>1, <1>2, <1>3, AlwaysInvariant, PTL DEF Spec

-----------------------------------------------------------------------------
(* One thread: the mapped image                                            *)

TurnNumber == IF joined = 0 THEN 0 ELSE jobs[joined].layer
TurnContent ==
    IF joined = 0 /\ pc # "returned" THEN OneThread!Background(map) ELSE image.content
TurnOutcome ==
    CASE pc = "returned" -> "finished"
      [] pc \in {"unwind", "thrown"} -> "failed"
      [] OTHER -> "painting"

\* A job's layer painted apart and composited is the layer painted in turn.
LEMMA PaintedApart ==
    ASSUME map \in Maps, Parallelizable(map), NEW n \in DOMAIN map.layers,
           map.layers[n].visible, joined \in Nat,
           joined = 0 <=> FirstVisible(map, n),
           IsContent(image.content), joined = 0 => image.content = <<>>,
           map.layers[n].labels \cap TakenSoFar = {}
    PROVE  OneThread!Composited(image.content, Rendered(n, joined).content, map.layers[n])
             = OneThread!Painted(IF joined = 0 THEN OneThread!Background(map)
                                 ELSE image.content, map.layers[n], n, TakenSoFar)
<1> DEFINE l == map.layers[n]
           marks == OneThread!Marks(l, n, l.labels)
           bg == OneThread!Background(map)
           below == image.content
           index == joined
           spots == TakenSoFar
<1>1. OneThread!Free(l, spots) = l.labels
  BY DEF OneThread!Free, OneThread!Detector
<1>2. l \in OneThread!LayerType
  BY MapsAssumption DEF OneThread!MapType
<1>3. l.comp_op \in {"none", "src_over", "other"}
  BY <1>2 DEF OneThread!LayerType, OneThread!CompOps
<1>4. IsContent(marks) /\ IsContent(bg)
  BY NothingIsContent, ItemIsContent
  DEF OneThread!Marks, OneThread!Background, OneThread!Nothing
<1>5. Separable(map, n)
  BY DEF Parallelizable
<1>6. Layer(n) = l
  BY DEF Layer
<1>7. <<>> \o marks = marks /\ <<>> \o bg = bg /\ below \o <<>> = below
  BY <1>4, ConcatNothing DEF below
<1> HIDE DEF l, marks, bg, below, index, spots
<1>8. ~map.background => bg = <<>>
  BY DEF bg, OneThread!Background, OneThread!Nothing
<1>9. CASE index = 0 /\ ~OneThread!Isolated(l)
  <2>1. below = <<>> /\ l.comp_op = "none" /\ ~l.translucent
    BY <1>9 DEF OneThread!Isolated, below, index
  <2>2. \A above : OneThread!Composited(below, above, l) = <<>> \o above
    BY <2>1 DEF OneThread!Composited
  <2>3. Rendered(n, index).content
          = IF l.prepared THEN OneThread!Filtered(OneThread!Styled(bg, l, n, l.labels), l)
            ELSE bg
    BY <1>6, <1>9 DEF Rendered, bg
  <2>4. IsContent(OneThread!Styled(bg, l, n, l.labels))
    BY <1>4, ItemIsContent, ConcatIsContent DEF OneThread!Styled, marks
  <2>5. IsContent(Rendered(n, index).content)
    BY <1>4, <2>3, <2>4, ItemIsContent DEF OneThread!Filtered
  <2>6. OneThread!Painted(bg, l, n, spots) = Rendered(n, index).content
    BY <1>1, <1>9, <2>3 DEF OneThread!Painted
  <2> QED
    BY <1>9, <2>2, <2>5, <2>6, ConcatNothing DEF l, bg, below, index, spots
<1>10. CASE index # 0 \/ OneThread!Isolated(l)
  <2>1. /\ ~l.direct
        /\ l.prepared \/ l.comp_op # "other"
        /\ OneThread!Isolated(l) \/ ~l.blends
        /\ index = 0 /\ map.background
             => l.comp_op # "other" /\ ~l.translucent /\ ~l.blends
    BY <1>5, <1>10 DEF Separable, l, index
  <2>2. \A image_ : OneThread!Filtered(image_, l) = image_
    BY <2>1 DEF OneThread!Filtered
  <2> DEFINE under == IF index = 0 THEN bg ELSE <<>>
             onto == IF index = 0 THEN bg ELSE below
             own == OneThread!Styled(<<>>, l, n, l.labels)
  <2>3. Rendered(n, index).content
          = IF l.prepared THEN OneThread!Styled(under, l, n, l.labels) ELSE under
    BY <1>6, <2>2 DEF Rendered, bg
  <2>4. OneThread!Painted(onto, l, n, spots)
          = IF ~l.prepared THEN onto
            ELSE IF OneThread!Isolated(l) THEN OneThread!Composited(onto, own, l)
            ELSE OneThread!Styled(onto, l, n, l.labels)
    BY <1>1, <2>2 DEF OneThread!Painted, OneThread!Nothing
  <2>5. under = <<>> => below = onto
    BY DEF under, onto, below, index
  <2>6. ~l.blends => \A c : OneThread!Styled(c, l, n, l.labels) = c \o marks
    BY DEF OneThread!Styled, marks
  <2>a. IsContent(onto) /\ onto \o <<>> = onto
    BY <1>4, ConcatNothing DEF onto, below
  <2> HIDE DEF under, onto, own
  <2>7. CASE under = <<>>
    <3>1. CASE ~l.prepared
      <4>1. OneThread!Composited(below, <<>>, l) = below \o <<>>
        BY <2>1, <3>1 DEF OneThread!Composited, OneThread!Nothing
      <4> QED
        BY <1>7, <2>3, <2>4, <2>5, <2>7, <3>1, <4>1 DEF onto, l, bg, below, index, spots
    <3>2. CASE l.prepared /\ OneThread!Isolated(l)
      BY <2>3, <2>4, <2>5, <2>7, <3>2 DEF own, onto, l, bg, below, index, spots
    <3>3. CASE l.prepared /\ ~OneThread!Isolated(l)
      <4>1. OneThread!Composited(below, marks, l) = below \o marks
        BY <3>3 DEF OneThread!Composited, OneThread!Isolated
      <4>2. Rendered(n, index).content = marks
        BY <1>7, <2>1, <2>3, <2>6, <2>7, <3>3
      <4>3. OneThread!Painted(onto, l, n, spots) = onto \o marks
        BY <2>1, <2>4, <2>6, <3>3
      <4> QED
        BY <2>5, <2>7, <4>1, <4>2, <4>3 DEF onto, l, bg, below, index, spots
    <3> QED
      BY <3>1, <3>2, <3>3
  <2>8. CASE under # <<>>
    <3>1. /\ index = 0 /\ map.background /\ below = <<>>
          /\ under = bg /\ onto = bg
          /\ l.comp_op # "other" /\ ~l.translucent /\ ~l.blends
      BY <1>8, <2>1, <2>8 DEF under, onto, below, index
    <3>2. \A b, above : OneThread!Composited(b, above, l) = b \o above
      BY <3>1 DEF OneThread!Composited
    <3>3. own = marks
      BY <1>7, <2>6, <3>1 DEF own
    <3>4. OneThread!Painted(onto, l, n, spots) = IF ~l.prepared THEN bg ELSE bg \o marks
      BY <2>4, <2>6, <3>1, <3>2, <3>3
    <3>5. Rendered(n, index).content = IF l.prepared THEN bg \o marks ELSE bg
      BY <2>3, <2>6, <3>1
    <3>6. <<>> \o (bg \o marks) = bg \o marks
      BY <1>4, ConcatIsContent, ConcatNothing
    <3>7. \A above : OneThread!Composited(below, above, l) = <<>> \o above
      BY <3>1, <3>2
    <3>8. <<>> \o Rendered(n, index).content = Rendered(n, index).content
      BY <1>7, <3>5, <3>6
    <3>9. OneThread!Painted(onto, l, n, spots) = Rendered(n, index).content
      BY <3>4, <3>5
    <3> QED
      BY <3>7, <3>8, <3>9 DEF onto, l, bg, below, index, spots
  <2> QED
    BY <2>7, <2>8
<1> QED
  BY <1>9, <1>10

\* The layer of the next job is the next visible layer of the map.
LEMMA NextJobIsNextLayer ==
    ASSUME Invariant, pc = "join", joined + 1 \in 1..Len(jobs)
    PROVE  /\ OneThread!IsNext(jobs[joined + 1].layer, TurnNumber)
           /\ jobs[joined + 1].layer \in DOMAIN map.layers
           /\ joined = 0 <=> FirstVisible(map, jobs[joined + 1].layer)
<1> DEFINE n == jobs[joined + 1].layer
<1>1. /\ joined \in Nat /\ Len(jobs) \in Nat /\ Len(map.layers) \in Nat
      /\ DOMAIN map.layers = 1..Len(map.layers)
      /\ at = Len(map.layers)
      /\ joined <= Len(jobs)
  BY MapsAssumption DEF Invariant, JoinedArePrefix, OneThread!MapType
<1>2. \A k \in 1..Len(jobs) : jobs[k].layer \in 1..at /\ map.layers[jobs[k].layer].visible
  BY DEF Invariant, JobsAreLayers
<1>3. \A j, k \in 1..Len(jobs) : j < k => jobs[j].layer < jobs[k].layer
  BY DEF Invariant, JobsAreLayers
<1>4. ASSUME NEW i \in 1..at, map.layers[i].visible
      PROVE  \E k \in 1..Len(jobs) : jobs[k].layer = i
  BY <1>4 DEF Invariant, JobsAreLayers
<1>5. n \in 1..Len(map.layers) /\ map.layers[n].visible
  BY <1>1, <1>2
<1>6. TurnNumber \in 0..n - 1
  <2>1. CASE joined = 0
    BY <1>5, <2>1 DEF TurnNumber
  <2>2. CASE joined # 0
    <3>1. joined \in 1..Len(jobs)
      BY <1>1, <2>2
    <3>2. jobs[joined].layer \in 1..Len(map.layers) /\ jobs[joined].layer < n
      BY <1>1, <1>2, <1>3, <3>1
    <3> QED
      BY <1>5, <2>2, <3>2 DEF TurnNumber
  <2> QED
    BY <2>1, <2>2
<1>7. ASSUME NEW i \in TurnNumber + 1..n - 1 PROVE ~map.layers[i].visible
  <2> SUFFICES ASSUME map.layers[i].visible PROVE FALSE
    OBVIOUS
  <2>1. i \in 1..at /\ TurnNumber < i /\ i < n
    BY <1>1, <1>5, <1>6
  <2>2. PICK k \in 1..Len(jobs) : jobs[k].layer = i
    BY <1>4, <2>1
  <2>3. CASE k <= joined
    <3>1. joined \in 1..Len(jobs) /\ joined # 0
      BY <1>1, <2>2, <2>3
    <3>2. jobs[k].layer <= jobs[joined].layer
      BY <1>1, <1>2, <1>3, <2>2, <2>3, <3>1
    <3> QED
      BY <1>1, <1>2, <2>1, <2>2, <3>1, <3>2 DEF TurnNumber
  <2>4. CASE k > joined
    <3>1. n <= jobs[k].layer
      BY <1>1, <1>2, <1>3, <2>2, <2>4
    <3> QED
      BY <1>5, <2>1, <2>2, <3>1
  <2> QED
    BY <1>1, <2>2, <2>3, <2>4
<1>8. n \in TurnNumber + 1..Len(map.layers)
  BY <1>1, <1>5, <1>6
<1>9. OneThread!IsNext(n, TurnNumber)
  BY <1>5, <1>7, <1>8 DEF OneThread!IsNext
<1>10. ASSUME joined = 0 PROVE FirstVisible(map, n)
  BY <1>5, <1>7, <1>10 DEF FirstVisible, TurnNumber
<1>11. ASSUME joined # 0 PROVE ~FirstVisible(map, n)
  <2>1. 1 \in 1..Len(jobs) /\ 1 < joined + 1
    BY <1>1, <1>11
  <2>2. jobs[1].layer < n /\ jobs[1].layer \in 1..Len(map.layers)
    BY <1>1, <1>2, <1>3, <2>1
  <2>3. jobs[1].layer \in 1..n - 1 /\ map.layers[jobs[1].layer].visible
    BY <1>2, <1>5, <2>1, <2>2
  <2> QED
    BY <2>3 DEF FirstVisible
<1> QED
  BY <1>1, <1>5, <1>9, <1>10, <1>11

\* Compositing the image of a job is one thread painting its layer.
LEMMA CompositeIsPaint ==
    ASSUME Parallelizable(map), Invariant, NEW k \in DOMAIN jobs, CompositeLayer(k),
           Invariant'
    PROVE  /\ OneThread!IsNext(jobs[k].layer, TurnNumber)
           /\ jobs[k].layer \in DOMAIN map.layers
           /\ map' = map /\ TurnOutcome = "painting" /\ TurnOutcome' = "painting"
           /\ image'.premultiplied = image.premultiplied
           /\ TurnNumber' = jobs[k].layer
           /\ TurnContent' = OneThread!Painted(TurnContent, map.layers[jobs[k].layer],
                                               jobs[k].layer, TakenSoFar)
           /\ TakenSoFar' =
                LET l == map.layers[jobs[k].layer] IN
                IF l.prepared THEN OneThread!Detector(l, TakenSoFar) \cup l.labels
                ELSE TakenSoFar
<1> DEFINE n == jobs[k].layer
           l == map.layers[n]
<1>1. /\ pc = "join" /\ pc' = "join" /\ k = joined + 1 /\ joined' = joined + 1
      /\ map' = map /\ k \in 1..Len(jobs)
      /\ jobs \in Seq(JobRecords)
      /\ jobs' = [jobs EXCEPT ![k].state = "joined"]
      /\ image' = [image EXCEPT
                      !.content = OneThread!Composited(@,
                          AsPremultiplied(Scaled(Layer(n), Rendered(n, IndexOf(k)))), Layer(n)),
                      !.painted = @ \/ Scaled(Layer(n), Rendered(n, IndexOf(k))).painted]
  BY DEF Invariant, CompositeLayer, Join
<1>2. \A j \in 1..Len(jobs) : jobs'[j].layer = jobs[j].layer
  <2>1. "joined" \in JobStates /\ DOMAIN jobs = 1..Len(jobs)
    BY <1>1 DEF JobStates
  <2> QED
    BY <1>1, <2>1, StateChanged
<1>3. joined \in 0..Len(jobs) /\ Len(jobs) \in Nat
  BY <1>1 DEF Invariant, JoinedArePrefix
<1>4. /\ OneThread!IsNext(n, TurnNumber)
      /\ n \in DOMAIN map.layers
      /\ joined = 0 <=> FirstVisible(map, n)
  BY <1>1, <1>3, NextJobIsNextLayer
<1>5. map \in Maps /\ map.layers[n].visible
  BY <1>1 DEF Invariant, JobsAreLayers
<1>6. /\ image'.content = OneThread!Composited(image.content, Rendered(n, IndexOf(k)).content, l)
      /\ image'.premultiplied = image.premultiplied
  <2>a. ~Layer(n).resized
    BY <1>4, <1>5 DEF Parallelizable, Separable, Layer
  <2>1. AsPremultiplied(Scaled(Layer(n), Rendered(n, IndexOf(k))))
          = Rendered(n, IndexOf(k)).content
    BY <1>4, <1>5, <2>a, RenderedIsImage
  <2>2. /\ image'.content = OneThread!Composited(image.content,
                AsPremultiplied(Scaled(Layer(n), Rendered(n, IndexOf(k)))), Layer(n))
        /\ image'.premultiplied = image.premultiplied
    BY <1>1 DEF Invariant, ImageSoFar
  <2> QED
    BY <2>1, <2>2 DEF Layer
<1>7. /\ IsContent(image.content)
      /\ joined = 0 => image.content = <<>>
  BY DEF Invariant, ImageSoFar
<1>8. IndexOf(k) = joined /\ IndexOf(k) \in Nat
  BY <1>1, <1>3 DEF IndexOf
<1>9. l.labels \cap TakenSoFar = {}
  <2> SUFFICES ASSUME NEW s \in l.labels, s \in TakenSoFar PROVE FALSE
    OBVIOUS
  <2>1. PICK i \in 1..joined : s \in map.layers[jobs[i].layer].labels
    BY DEF TakenSoFar
  <2>2. i \in 1..Len(jobs) /\ i < k
    BY <1>1, <1>3
  <2>3. /\ jobs[i].layer < n
        /\ jobs[i].layer \in 1..at
        /\ map.layers[jobs[i].layer].visible
    BY <1>1, <2>2 DEF Invariant, JobsAreLayers
  <2>4. jobs[i].layer \in DOMAIN map.layers /\ jobs[i].layer # n
    BY <2>3, <1>4, <1>5, MapsAssumption DEF Invariant, OneThread!MapType
  <2> QED
    BY <1>4, <1>5, <2>1, <2>3, <2>4 DEF Parallelizable, LabelsApart
<1>10. TurnContent = IF IndexOf(k) = 0 THEN OneThread!Background(map) ELSE image.content
  BY <1>1, <1>8 DEF TurnContent
<1>11. TurnContent' = image'.content
  BY <1>1, <1>3 DEF TurnContent
<1>12. TurnContent' = OneThread!Painted(TurnContent, l, n, TakenSoFar)
  <2>1. OneThread!Composited(image.content, Rendered(n, joined).content, l)
          = OneThread!Painted(IF joined = 0 THEN OneThread!Background(map)
                              ELSE image.content, l, n, TakenSoFar)
    BY <1>3, <1>4, <1>5, <1>7, <1>9, PaintedApart
  <2> QED
    BY <1>6, <1>8, <1>10, <1>11, <2>1
<1>13. TurnNumber' = n
  <2>1. joined' # 0 /\ joined' = k
    BY <1>1, <1>3
  <2> QED
    BY <1>1, <1>2, <2>1 DEF TurnNumber
<1>14. TurnOutcome = "painting" /\ TurnOutcome' = "painting"
  BY <1>1 DEF TurnOutcome
<1>15. TakenSoFar' = IF l.prepared THEN OneThread!Detector(l, TakenSoFar) \cup l.labels
                     ELSE TakenSoFar
  <2>1. l.labels \subseteq Spots /\ l.prepared \in BOOLEAN /\ l.clear \in BOOLEAN
    <3>1. map.layers \in Seq(OneThread!LayerType)
      BY <1>5, MapsAssumption DEF OneThread!MapType
    <3>2. l \in OneThread!LayerType
      BY <1>4, <3>1
    <3> HIDE DEF l
    <3> QED
      BY <3>2 DEF OneThread!LayerType
  <2> DEFINE Has(i, s) == /\ map.layers[jobs[i].layer].prepared
                          /\ s \in map.layers[jobs[i].layer].labels
             Clears(i) == map.layers[jobs[i].layer].prepared
                          /\ map.layers[jobs[i].layer].clear
  <2>2. TakenSoFar = {s \in Spots : \E i \in 1..joined :
                        Has(i, s) /\ \A j \in i + 1..joined : ~Clears(j)}
    BY DEF TakenSoFar
  <2>3. TakenSoFar' = {s \in Spots : \E i \in 1..joined + 1 :
                        Has(i, s) /\ \A j \in i + 1..joined + 1 : ~Clears(j)}
    <3>1. \A i \in 1..joined + 1 : jobs'[i].layer = jobs[i].layer
      BY <1>1, <1>2, <1>3
    <3>2. \A i \in 1..joined + 1 : \A j \in i + 1..joined + 1 :
            jobs'[j].layer = jobs[j].layer
      BY <1>3, <3>1
    <3>3. TakenSoFar' = {s \in Spots : \E i \in 1..joined + 1 :
            /\ map.layers[jobs'[i].layer].prepared
            /\ s \in map.layers[jobs'[i].layer].labels
            /\ \A j \in i + 1..joined + 1 :
                ~ (map.layers[jobs'[j].layer].prepared /\ map.layers[jobs'[j].layer].clear)}
      BY <1>1 DEF TakenSoFar
    <3>4. ASSUME NEW s \in Spots, NEW i \in 1..joined + 1
          PROVE  (/\ map.layers[jobs'[i].layer].prepared
                  /\ s \in map.layers[jobs'[i].layer].labels
                  /\ \A j \in i + 1..joined + 1 :
                      ~ (map.layers[jobs'[j].layer].prepared /\ map.layers[jobs'[j].layer].clear))
                 <=> Has(i, s) /\ \A j \in i + 1..joined + 1 : ~Clears(j)
      BY <3>1, <3>2
    <3> HIDE DEF Has, Clears
    <3> QED
      BY <3>3, <3>4
  <2>4. \A s : Has(joined + 1, s) <=> l.prepared /\ s \in l.labels
    BY <1>1
  <2>5. Clears(joined + 1) <=> l.prepared /\ l.clear
    BY <1>1
  <2> HIDE DEF Has, Clears, l
  <2>6. ASSUME NEW s \in Spots
        PROVE  (\E i \in 1..joined + 1 : Has(i, s) /\ \A j \in i + 1..joined + 1 : ~Clears(j))
               <=> \/ Has(joined + 1, s)
                   \/ /\ ~Clears(joined + 1)
                      /\ \E i \in 1..joined : Has(i, s) /\ \A j \in i + 1..joined : ~Clears(j)
    <3>1. ASSUME NEW i \in 1..joined + 1, Has(i, s),
                 \A j \in i + 1..joined + 1 : ~Clears(j)
          PROVE  \/ Has(joined + 1, s)
                 \/ /\ ~Clears(joined + 1)
                    /\ \E h \in 1..joined : Has(h, s) /\ \A j \in h + 1..joined : ~Clears(j)
      <4>1. CASE i = joined + 1
        BY <3>1, <4>1
      <4>2. CASE i # joined + 1
        <5>1. i \in 1..joined /\ joined + 1 \in i + 1..joined + 1
          BY <1>3, <4>2
        <5>2. \A j \in i + 1..joined : ~Clears(j)
          BY <1>3, <3>1
        <5> QED
          BY <3>1, <5>1, <5>2
      <4> QED
        BY <4>1, <4>2
    <3>2. ASSUME Has(joined + 1, s)
          PROVE  \E i \in 1..joined + 1 : Has(i, s) /\ \A j \in i + 1..joined + 1 : ~Clears(j)
      BY <1>3, <3>2
    <3>3. ASSUME ~Clears(joined + 1), NEW i \in 1..joined, Has(i, s),
                 \A j \in i + 1..joined : ~Clears(j)
          PROVE  \E h \in 1..joined + 1 : Has(h, s) /\ \A j \in h + 1..joined + 1 : ~Clears(j)
      <4>1. i \in 1..joined + 1
        BY <1>3
      <4>2. \A j \in i + 1..joined + 1 : ~Clears(j)
        BY <1>3, <3>3
      <4> QED
        BY <3>3, <4>1, <4>2
    <3> QED
      BY <3>1, <3>2, <3>3
  <2>7. \A s \in Spots : s \in TakenSoFar' <=>
            Has(joined + 1, s) \/ (~Clears(joined + 1) /\ s \in TakenSoFar)
    BY <2>2, <2>3, <2>6
  <2>8. TakenSoFar \subseteq Spots /\ TakenSoFar' \subseteq Spots
    BY <2>2, <2>3
  <2> QED
    BY <2>1, <2>4, <2>5, <2>7, <2>8 DEF OneThread!Detector
<1> HIDE DEF TakenSoFar
<1> QED
  BY <1>1, <1>4, <1>6, <1>12, <1>13, <1>14, <1>15

LEMMA InitInTurn == Init => OneThread!TurnInit
<1> SUFFICES ASSUME Init PROVE OneThread!TurnInit
  OBVIOUS
<1>1. TakenSoFar = {}
  BY DEF Init, TakenSoFar
<1> QED
  BY <1>1 DEF Init, OneThread!TurnInit, OneThread!Background, OneThread!Nothing

\* What the other steps leave of the mapped image.
LEMMA KeepsTurn ==
    ASSUME Invariant, map' = map, joined' = joined, image' = image,
           \A j \in 1..joined : jobs'[j].layer = jobs[j].layer,
           pc # "returned", pc' # "returned"
    PROVE  /\ TurnNumber' = TurnNumber
           /\ TurnContent' = TurnContent
           /\ TakenSoFar' = TakenSoFar
<1>1. joined \in Nat
  BY DEF Invariant, JoinedArePrefix
<1>2. TurnNumber' = TurnNumber
  BY <1>1 DEF TurnNumber
<1>3. TurnContent' = TurnContent
  BY DEF TurnContent
<1>4. \A i \in 1..joined : \A j \in i + 1..joined : jobs'[j].layer = jobs[j].layer
  BY <1>1
<1>5. TakenSoFar' = TakenSoFar
  BY <1>1, <1>4 DEF TakenSoFar
<1> QED
  BY <1>2, <1>3, <1>5

LEMMA StepInTurn ==
    ASSUME Parallelizable(map), Invariant, Invariant', [Next]_vars
    PROVE  [OneThread!TurnNext]_(OneThread!turnVars)
<1> DEFINE Same == /\ map' = map /\ TurnNumber' = TurnNumber
                   /\ TurnContent' = TurnContent /\ TakenSoFar' = TakenSoFar
                   /\ image'.premultiplied = image.premultiplied
<1>0. /\ Parallelizable(map)
      /\ Len(jobs) \in Nat /\ DOMAIN jobs = 1..Len(jobs) /\ joined \in 0..Len(jobs)
      /\ pc \in {"launch", "join", "unwind", "returned", "thrown"}
  BY DEF Invariant, JoinedArePrefix
<1>a. ASSUME Same, TurnOutcome' = TurnOutcome
      PROVE  UNCHANGED OneThread!turnVars
  BY <1>a
  DEF OneThread!turnVars, TurnNumber, TurnContent, TurnOutcome,
      OneThread!Background, OneThread!Nothing
<1>b. ASSUME Same, TurnOutcome = "painting", TurnOutcome' = "failed"
      PROVE  OneThread!GiveUp
  BY <1>b
  DEF OneThread!GiveUp, TurnNumber, TurnContent, TurnOutcome,
      OneThread!Background, OneThread!Nothing
<1>1. CASE SkipLayer
  <2>1. Same
    BY <1>1, KeepsTurn DEF SkipLayer
  <2>2. TurnOutcome' = TurnOutcome
    BY <1>1 DEF SkipLayer, TurnOutcome
  <2> QED
    BY <1>a, <2>1, <2>2
<1>2. CASE LaunchJob
  <2>1. joined = 0
    BY <1>2 DEF LaunchJob, Invariant, JoinedArePrefix
  <2>2. Same
    BY <1>2, <2>1, KeepsTurn DEF LaunchJob
  <2>3. TurnOutcome' = TurnOutcome
    BY <1>2 DEF LaunchJob, TurnOutcome
  <2> QED
    BY <1>a, <2>2, <2>3
<1>3. CASE AsyncThrows
  <2>1. Same
    BY <1>3, KeepsTurn DEF AsyncThrows
  <2>2. TurnOutcome = "painting" /\ TurnOutcome' = "failed"
    BY <1>3 DEF AsyncThrows, TurnOutcome
  <2> QED
    BY <1>b, <2>1, <2>2 DEF OneThread!TurnNext
<1>4. CASE AllLaunched
  <2>1. Same
    BY <1>4, KeepsTurn DEF AllLaunched
  <2>2. TurnOutcome' = TurnOutcome
    BY <1>4 DEF AllLaunched, TurnOutcome
  <2> QED
    BY <1>a, <2>1, <2>2
<1>5. ASSUME NEW k \in DOMAIN jobs, CompositeLayer(k)
      PROVE  [OneThread!TurnNext]_(OneThread!turnVars)
  <2> DEFINE n == jobs[k].layer
  <2>1. /\ OneThread!IsNext(n, TurnNumber)
        /\ n \in DOMAIN map.layers
        /\ map' = map /\ TurnOutcome = "painting" /\ TurnOutcome' = "painting"
        /\ image'.premultiplied = image.premultiplied
        /\ TurnNumber' = n
        /\ TurnContent' = OneThread!Painted(TurnContent, map.layers[n], n, TakenSoFar)
        /\ TakenSoFar' =
             LET l == map.layers[n] IN
             IF l.prepared THEN OneThread!Detector(l, TakenSoFar) \cup l.labels
             ELSE TakenSoFar
    BY <1>0, <1>5, CompositeIsPaint
  <2> HIDE DEF n
  <2>2. OneThread!PaintLayer(n)
    BY <2>1
    DEF OneThread!PaintLayer, TurnNumber, TurnContent, TurnOutcome,
        OneThread!Background, OneThread!Nothing
  <2> QED
    BY <2>1, <2>2 DEF OneThread!TurnNext
<1>6. CASE GetThrows
  <2>1. Same
    BY <1>6, KeepsTurn DEF GetThrows
  <2>2. TurnOutcome = "painting" /\ TurnOutcome' = "failed"
    BY <1>6 DEF GetThrows, TurnOutcome
  <2> QED
    BY <1>b, <2>1, <2>2 DEF OneThread!TurnNext
<1>7. CASE Return
  <2>1. /\ pc = "join" /\ pc' = "returned" /\ joined = Len(jobs)
        /\ image'.content = image.content /\ image'.premultiplied = FALSE
        /\ image.premultiplied = TRUE
        /\ UNCHANGED <<map, at, jobs, joined>>
    BY <1>7 DEF Return, Invariant, ImageSoFar
  <2>2. at = Len(map.layers) /\ at \in Nat
    BY <2>1, MapsAssumption DEF Invariant, JoinedArePrefix, OneThread!MapType
  <2>3. TurnNumber \in Nat
    BY <1>0, <2>2 DEF TurnNumber, Invariant, JobsAreLayers
  <2>4. ASSUME NEW i \in TurnNumber + 1..Len(map.layers) PROVE ~map.layers[i].visible
    <3> SUFFICES ASSUME map.layers[i].visible PROVE FALSE
      OBVIOUS
    <3>1. i \in 1..at /\ i > TurnNumber
      BY <2>2, <2>3
    <3>2. PICK k \in 1..Len(jobs) : jobs[k].layer = i
      BY <3>1 DEF Invariant, JobsAreLayers
    <3>3. joined \in 1..Len(jobs) /\ k <= joined /\ joined # 0
      BY <1>0, <2>1, <3>2
    <3>4. /\ \A j \in 1..Len(jobs) : jobs[j].layer \in 1..at
          /\ \A h, j \in 1..Len(jobs) : h < j => jobs[h].layer < jobs[j].layer
      BY DEF Invariant, JobsAreLayers
    <3>5. jobs[k].layer <= jobs[joined].layer
      BY <1>0, <2>2, <3>2, <3>3, <3>4
    <3> QED
      BY <2>2, <2>3, <3>1, <3>2, <3>3, <3>4, <3>5 DEF TurnNumber
  <2>5. TurnContent' = TurnContent
    <3>1. CASE joined # 0
      BY <2>1, <3>1 DEF TurnContent
    <3>2. CASE joined = 0
      <4>1. \A i \in DOMAIN map.layers : ~map.layers[i].visible
        BY <2>4, <3>2, MapsAssumption DEF TurnNumber, Invariant, OneThread!MapType
      <4>2. ~map.background
        BY <1>0, <4>1 DEF Parallelizable
      <4>3. image.content = <<>>
        BY <3>2 DEF Invariant, ImageSoFar
      <4> QED
        BY <2>1, <3>2, <4>2, <4>3
        DEF TurnContent, OneThread!Background, OneThread!Nothing
    <3> QED
      BY <3>1, <3>2
  <2>6. TurnNumber' = TurnNumber /\ TakenSoFar' = TakenSoFar
    BY <2>1 DEF TurnNumber, TakenSoFar
  <2>7. OneThread!FinishMap
    BY <2>1, <2>4, <2>5, <2>6
    DEF OneThread!FinishMap, TurnNumber, TurnContent, OneThread!Background,
        OneThread!Nothing
  <2> QED
    BY <2>7 DEF OneThread!TurnNext
<1>8. CASE Unwound
  <2>1. Same
    BY <1>8, KeepsTurn DEF Unwound
  <2>2. TurnOutcome' = TurnOutcome
    BY <1>8 DEF Unwound, TurnOutcome
  <2> QED
    BY <1>a, <2>1, <2>2
<1>9. ASSUME NEW k \in DOMAIN jobs, Job(k)
      PROVE  [OneThread!TurnNext]_(OneThread!turnVars)
  <2>1. PICK s \in {"done", "failed"} : jobs' = [jobs EXCEPT ![k].state = s]
    BY <1>9 DEF Job, RenderLayer, RenderThrows
  <2>2. /\ jobs[k].state = "running" /\ UNCHANGED <<map, pc, at, joined, image>>
        /\ jobs \in Seq(JobRecords)
    BY <1>9 DEF Job, RenderLayer, RenderThrows, Invariant
  <2>3. \A j \in DOMAIN jobs : jobs'[j].layer = jobs[j].layer
    <3>1. s \in JobStates
      BY DEF JobStates
    <3> QED
      BY <2>1, <2>2, <3>1, StateChanged
  <2>4. CASE pc # "returned"
    <3>1. \A j \in 1..joined : jobs'[j].layer = jobs[j].layer
      BY <1>0, <2>3
    <3>2. Same
      BY <2>2, <2>4, <3>1, KeepsTurn
    <3>3. TurnOutcome' = TurnOutcome
      BY <2>2 DEF TurnOutcome
    <3> QED
      BY <1>a, <3>2, <3>3
  <2>5. CASE pc = "returned"
    BY <2>2, <2>5 DEF Invariant, NothingLeftRunning
  <2> QED
    BY <2>4, <2>5
<1>10. CASE UNCHANGED vars
  <2>1. Same /\ TurnOutcome' = TurnOutcome
    BY <1>10 DEF vars, TurnNumber, TurnContent, TakenSoFar, TurnOutcome
  <2> QED
    BY <1>a, <2>1
<1> QED
  BY <1>1, <1>2, <1>3, <1>4, <1>5, <1>6, <1>7, <1>8, <1>9, <1>10 DEF Next, Main

\* Of a map that is Parallelizable, of any length and with any layers, render
\* makes the image that one thread makes by painting the layers in turn, and
\* goes through the same images on the way.
THEOREM ImplementsTurns == Spec => PaintsInTurn
<1>1. Invariant /\ Invariant' /\ [Next]_vars
        => [Parallelizable(map) => OneThread!TurnNext]_(OneThread!turnVars)
  <2>1. CASE Parallelizable(map)
    BY <2>1, StepInTurn
  <2>2. CASE ~Parallelizable(map)
    BY <2>2
  <2> QED
    BY <2>1, <2>2
<1> QED
  BY <1>1, InitInTurn, AlwaysInvariant, PTL DEF Spec, PaintsInTurn
=============================================================================
