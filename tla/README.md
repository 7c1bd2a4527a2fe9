# Verification of mapnik: connections, rendering, labels, fonts, threads

TLA+ models of the parts of mapnik in which several threads, several requests
or several images have to agree with each other, TLC runs that check them on
small instances, and TLAPS proofs for every value of their parameters. Paths
are relative to the repository (its own C++ directory is `src/`, the headers
are in `include/mapnik/`, the plugins in `plugins/input/`).

Contents: 1 the system, 2 the modules, 3 the runs, 4 the proofs, 5 what the
sources say and the code does not do, 6 what is not modelled, 7 the plan.

## 1. The system

A program that renders calls `feature_style_processor::apply` of a renderer,
once per map and usually in several threads at a time. Everything below
happens in such a call.

| part | state | operations | hard about it |
|---|---|---|---|
| connection pool (`util/connection_pool.hpp`, `plugins/input/postgis/connection_manager.hpp`) | `holders_` with a connection and `is_free` each, `initial_size_`, `max_size_`, a mutex, a condition variable | `borrow`, handle destructor (`give_back`), `set_initial_size`, `set_max_size`, `registerPool` | threads interleave between unlock and wait; wake-ups; broken connections; failures of `connect` in each place |
| PostgreSQL connection (`connection.hpp`) | the state libpq reports, `closed_`, `pending_` | `executeQuery`, `executeAsyncQuery`, `getAsyncResult`, `close` | a lost connection is noticed late |
| PostGIS queries (`postgis_datasource.cpp`, `asyncresultset.hpp`, `cursorresultset.hpp`) | a context per rendering and plugin: `num_async_requests_`, the queue `q_`; a result set per query | `features_with_context`, `next`, `close`, `prepare_next`, the destructors | queries are sent in one order and read much later; connections of a shared pool are held while more are asked for; exceptions anywhere |
| feature style processor (`feature_style_processor_impl.hpp`, `util/featureset_buffer.hpp`, `rule_cache.hpp`) | the tree of materials, the feature buffer and its two iterators, flags per feature | `apply` for a map or a layer, `prepare_layers`, `render_submaterials`, `render_material`, `render_style` | four ways to the features; groups and their boundaries; styles that composite without features |
| AGG renderer buffers (`src/agg/agg_renderer.cpp`, `agg_renderer.hpp`) | `buffers_`, `internal_buffers_`, `inflated_buffer_`, the offset of the transform; the content, painted and premultiplied flags of the images | the start/end hooks of map, layer and style | buffers are told apart by address; one inflated buffer serves all styles and is reused |
| chunked parallelism (`util/parallelize.hpp`, used by compositing, scaling, blur) | futures and the chunk bounds | `parallelize`, `jobs_by_image_size` | remainders; a task that throws while others write |
| parallelizer of layers (`src/util/parallelizer.cpp`) | `layer_jobs`: one future and one image per visible layer; the caller's image | `render`, `render_layer` | jobs end in any order and may throw; each paints as if it were alone; the background; the premultiplied flag |
| font engine (`src/font_engine_freetype.cpp`) | `global_font_file_mapping_`, `global_memory_fonts_`, `mutex_`; `face_cache_` per rendering; the fonts of a map | `register_font`, `create_face`, `face_manager::get_face`, `Map::load_fonts` | look-ups outside the mutex, data referred to by faces and erased by other renderings |
| label placement (`collision_cache.hpp`, `label_placements/`, `text/point_layout.cpp`, `marker_layout.cpp`, ...) | one collision detector per key: the boxes placed so far with their texts | `try_placement` of texts, lines, shields, markers, collision boxes; the loops over candidates, positions, places; `clear-label-cache` | margins and repeat distances of different symbolizers against each other; partial failures; keys |
| singletons, plugin registry, shared caches | global objects and maps, each under one mutex | `instance`, `register_datasources`, `create`, `find`, `insert` | destruction at exit |

How they interact: `apply` first prepares all visible layers, which calls
`features_with_context` of their datasources, and then renders them, which
calls `next` of the featuresets and the hooks of the renderer. A PostGIS
datasource borrows its connections from the pool that all threads share; a
result set that was read to its end gives its connection back and sends the
next queued query of its context. The renderer's hooks composite and filter
images, for which they call `parallelize`. Symbolizers that place something ask
the collision cache of the rendering, and those that draw text the font engine
of the process. `parallelizer::render` calls `apply` for one layer in each of
its threads, with a renderer, and so a collision cache, of its own.

What makes each part correct: a connection is lent to one thread at a time and
nobody sleeps beside a free one; a query is sent before it is read, within
`max_async_connection`, and nothing is left behind; a rendering never waits for
itself; every matching feature is drawn once per style, in painter's order, in
the buffer it belongs to; a chunked work is done once and is over when the call
is; layers painted in threads give the image of the layers painted in turn, for
the maps for which they can; a face is the one its name stands for and its data
lives as long as it does; labels that may not overlap do not. The hazards, each
at its line and with the properties that watch over it, are listed in
PROJECT.json.

## 2. The modules

**LendingPool** - the abstract pool: connections with numbers, loans, a cap.
No flags, no mutex, no failures.

**ConnectionPool** - `connection_pool` as it is. One critical section of
`mutex_` is one step, what lies between two of them are two. `pc` says where a
thread stands: `unlocked` is the gap in `borrow` between the failed
`try_borrow` and the `wait`, `notifying` the one in `give_back` between the
unlock and `notify_one`, `raising` the one in `registerPool` between
`set_initial_size` and `set_max_size`. A connection is `live`, `stale` (the
server dropped it and libpq has not seen that), `bad` or `closed`; the server
may stop and start at any time, every connect may throw, and `borrow`,
`borrow` after the wait, `grow` and their callers do then what the exception
does to them. `unannounced` is a history variable: free holders no
`notify_one` is due for. `MCConnectionPool` holds the instances.

**ConnectionPoolProofs** - its proofs (section 4).

**PostgisAsync** - renderings over several pools. A map is a sequence of
queries in the order of `prepare_layers`, each with its pool, its plugin (the
key of the context) and its mode: asynchronous, cursor, plain, or the query for
the extent of a datasource that has no `extent` parameter (`envelope`, which
`prepare_layer` calls before it asks for features, and once more when it could
not be told). An extent and a plain query are answered at once and let go of
their connection while the map is prepared. A cursor keeps its one: `next`
closes a cursor only if it had no rows at all, one that had rows stays open
(`fetched`) until its destructor sends `CLOSE`. Each result set is in one of
twelve states, and a thread is preparing, rendering, between `close` and
`prepare_next` (`closed`, `sending`), or letting its result sets die: after the
last layer (`done`), as a layer alone is not rendered (`unread`), or as an
exception leaves `apply` (`unwind`). `Destroy` is one destructor, `Leave` the
end of `apply`. A pool is what LendingPool promises: the connections on loan are
counted, and `borrow` waits while they are `MaxSize`. That is what
*LendsAsPromised* of ConnectionPool entitles to. `features()` is a map of one
query with a context of its own; `features_at_point` is a map of one plain
query. **MCPostgisAsync**, **PostgisAsyncProofs**.

**RenderedMap** - the map as the renderers read it: which layers and styles are
active, isolated, empty or grouped, and which rules of a style are due for a
feature (`Due`). The map is a value with all that the control flow depends on:
nesting, visibility, the outcome of the projections and clippings (`extent`:
inside, outside, invalid), grouping and caching, the grouping attribute of each
feature, the styles with their rules, filters and compositing. What the code
collects with `push_back` in a loop (the rules of a kind, the active styles) is
the chosen positions in their order (`InOrder`, by rank), a form without
recursion that can be proved about. `MapsAssumption` says what a map is: layers,
rows, styles and rules are sequences, and the number of a layer is its place in
the document, so that what is nested in a layer follows it before anything else
does. `Item` is what a drawn, composited or filtered content leaves on an image.

**AggBuffers** (extends RenderedMap) - the buffers of the AGG renderer. An image
is the sequence of what was drawn on it; a composited or filtered item carries
the content it was made of, so that the finished pixmap tells the order and the
nesting of all drawing. Internal buffers are numbered from the bottom of their
stack, 0 is the caller's pixmap, -1 the inflated buffer; "the same address" is
"the same number". Filters say only whether they leave pixels premultiplied.
`marked` of an item is not in the code: it records, when the item is made,
whether a symbolizer has drawn any of it, which the content also tells by
recursion.

**StyleProcessor** (extends AggBuffers) - `apply` for a whole map or for its
first layer (`single`). Preparing is one step per layer, rendering one step per
call of `next`, per rule and per hook.

**PaintersAlgorithm** (extends RenderedMap) - the abstract specification of a
rendering: a painter who takes the layers in document order, each with those
nested in it, goes through the active styles once per group of features, and
applies to each feature the rules due, on the canvas on top. What is put down as
a whole has a canvas of its own. He knows of no queries, featuresets, buffers of
features, flags, image stack or shared inflated image. Each of his actions says
what the code adds up to, and StyleProcessor's `Painter` gives the mapping: the
canvases are the pixmap, the internal buffers and, while a style draws on it,
the inflated one (`PainterCanvases`); the group starts with the first feature
in the buffer (`PainterFrom`); the feature at hand is the number of those the
style has read from its featureset or the buffer (`PainterFeature`); the rules
due (`PainterDue`) are, as long as no if rule has matched, those `Due` names,
and then what of them the loops have not come to.

**PaintersReference** (extends StyleProcessor) - what the image should be,
defined by recursion over the map, without buffers, flags and iterators, and
the property that compares the two. **MCStyleProcessor** holds the maps.
**StyleProcessorProofs** proves about StyleProcessor, and **PainterProofs**
that it implements PaintersAlgorithm.

**Parallelize** - the caller and the tasks of `parallelize`, for one or more
calls in a row; a step of a task is one index. `std::async` may fail to start a
thread, tasks may throw, a single chunk is deferred, the destructor of a future
joins its task. **MCParallelize**, **ParallelizeProofs**.

**LayersInTurn** - the abstract specification of the next one: a map painted in
one thread, layer after layer, each step being what a layer does to the image:
marks over what is there, labels in the spots that are still free, blending,
compositing with operator and opacity, direct filters, the background first.
The image is the nested record of what was put down on what.

**Parallelizer** - `parallelizer::render`. The main thread launches a job for
each visible layer, takes their images in order, scales and composites them
(`pc`: `launch`, `join`, then `returned`, or `unwind` and `thrown` while the
destructors of the futures wait); a job is `running`, `done`, `failed` or
`joined`. A layer with an active `scale-factor` of its own is drawn at that
scale and resampled (`Resampled`); one thread ignores the parameter.
*Parallelizable* says for which maps the result is to be that of one
thread: every layer is *Separable* (it has no direct filter and no scale factor
of its own, blends into nothing but its own image, and if it lies on the
background it composites plainly), the
layers want different label spots (*LabelsApart*), and a background has a
visible layer to paint it. *PaintsInTurn* is the refinement: `next`, `content`,
`straight`, `taken` and `outcome` of LayersInTurn are computed from the images
composited so far. **MCParallelizer**, **ParallelizerProofs**.

**FontEngine** - threads that ask for faces and one that registers fonts
meanwhile. `create_face` reads the registry entry up to four times, mostly
without the mutex: each of the two look-ups, the opening of the file, the
insertion under the mutex and the making of the face are steps of their own. A
look-up while another thread links or unlinks a node of the same map
(`changing`) may miss an entry that is there. Buffers are numbered, so that
`freed` tells the erased ones; what `Map::load_fonts` read is never erased. Two
conditions on the fonts appear in the properties: *Stable* (no name is
registered for another face) and *LostApart* (a registered face can be made).
**MCFontEngine**, **FontEngineProofs**.

**LabelPlacement** - one rendering's collision cache and the symbolizers that
use it. The shaping of text is done before the detectors are asked, so the boxes
of a label at each place are data; a detector is the set of entries (box and
text) of its key. A step is one `try_placement`, with the order in which glyphs
are tested, skipped at edges and given up; a cursor (`cand`, `left`, `here`,
`group`, `alt`, `hit`) goes through the candidates of the placement list, the
positions that are left, the places along a line and the alternatives of each.
`placed` is a history of what succeeded. **MCLabelPlacement**,
**LabelPlacementProofs**.

How the pieces fit: PostgisAsync assumes of a pool what ConnectionPool is proved
to do, and of the style processor that featuresets are read in the order of
their queries and each to its end, which *ReadAsPrepared* checks of
StyleProcessor. There is one exception to the latter, in the code and in the
property: a layer rendered alone whose own styles are all inactive queries its
nested layers and never renders them (`Unrendered`, and `LeaveUnread` of
PostgisAsync). Parallelizer takes over
from StyleProcessor that a layer is painted as described, and says what several
of them do to one image. LabelPlacement is the detector of one renderer, so each
job of the parallelizer has one; FontEngine is what all of them share.

## 3. The runs

| run | checks | instance |
|---|---|---|
| `pool_safety` | *TypeOK*, *ExclusiveLending*, *NoLostWakeup*, *LentConnectionKept*, *LendsAsPromised* | 3 threads, one handle each, two borrows each (`MaxBorrows`), registrations (0,1) and (2,2), pings, failing server |
| `pool_liveness` | *SleeperReturns*, *NobodyBlocks* | 3 threads, one handle each, two borrows each, registrations (1,1) and (0,3): fewer connections than threads, then as many |
| `async_safety` | *TypeOK*, *SentBeforeRead*, *WithinMaxAsync*, *NothingLeftBehind* | 2 threads, two renderings each (`Renderings`), pool of 3, three maps of 4 to 6 queries of all modes and both plugins, every database call may fail |
| `async_sized` | *NeverWaits*, *RenderingEnds* | 2 threads, two databases, pools of 8, two maps of asynchronous layers with a cursor and extents, failures |
| `style_rendering` | *TypeOK*, *BuffersMatchLayers*, *DrawnPremultiplied*, *ReadAsPrepared*, *PaintedAsDescribed*, *PaintedFlagTrue*, *FollowsPainter* | some 2200 maps: one layer with each of five lists of styles, four lists of features, grouped, cached, without a featureset, inside, outside and invalid extents; three layers of six kinds in four nestings, whole or the first one alone |
| `parallelize` | *TypeOK*, *NeverTwice*, *CompleteBeforeNext*, *NothingLeftRunning*, *CallsEnd* | images from 0 x 1 to 3 x 4 and 1 x 8 with a million pixels scaled down to four, and 0 to 4 jobs for 0 to 5 indices |
| `fonts` | *TypeOK*, *DataStaysAlive*, *FaceAsNamed*, *OneCopyPerFile*, *NothingMissed*, *CallsReturn* | 2 threads with two calls each and a registrar; a file of two faces, registered again meanwhile, a file that is new, one that is gone, a font of the map that lost its face and one that is also registered |
| `parallelizer` | *PaintedFlagTrue*, *NothingLeftRunning*, *PaintsInTurn*, *RenderEnds* | all maps of 0 to 3 layers of eleven kinds, with and without background, every job may throw and every start of a thread fail |
| `labels` | *TypeOK*, *NoForbiddenOverlap*, *RepeatApart*, *OnePerPosition*, *NothingButThePlaced* | eight symbolizers of all kinds on a strip of map, any four of them in a row (`MaxCalls`), one cleared cache (`MaxClears`), two keys |
| `async_mixed`, `async_steal`, `async_noted` | one refuted property each | section 5 |

What they show. *pool_safety*: in every interleaving a connection is behind one
handle at most and is not reconnected while it is; the pool keeps to
`max_size_` (the cap of *LendsAsPromised*), although `registerPool` grows before
it raises the limit; and as
many wake-ups are due or under way as there are free holders beside a sleeping
thread. The last one holds up to the holders `grow` adds without notifying and
the wake-ups that a thread takes with it when its reconnect throws after the
wait: these are counted in `unannounced`, and the sleeper stays asleep until the
next `give_back`. *pool_liveness*: a sleeper returns; and once `max_size_` is
threads times handles, the rule of the datasource's constructor, nobody begins
to wait, whatever the pool was before.
*async_safety*: the exception for reading a query that was never sent is
unreachable, the limit holds through closing and popping, and a rendering that
has gone through its layers has read everything and broken the cycle of shared
pointers between a context and its queued result sets; the only connections it
leaves to destructors are those of cursors that had rows. (After an exception,
and when a layer alone is not rendered, queued requests leak with their context;
the model has that, and no property forbids it.) *async_sized*: nobody waits,
and every rendering ends, when each pool covers for each thread the largest
`max_async_connection`, the cursors of a map, and one query answered at once.
*style_rendering*: however a layer gets its
features, the image is the one of the reference, and it comes about as the
painter paints it, step by step, also when an exception ends it half way.
*parallelize*: chunks cover the
work, and no task outlives the call. *fonts*: whatever the look-ups outside the
mutex see, a rendering gets the face it named, from data that stays, and at
worst reads a file twice; that holds of fonts that can be made (section 5).
*parallelizer*: in whatever order the jobs end, the image of a *Parallelizable*
map goes through the images one thread would paint; of any map the painted flag
is right and no job outlives the call, also when another one failed. *labels*:
no label that may not overlap comes within its margin of one placed before,
whichever kinds the two are; candidates are alternatives; and the detectors hold
just what was placed, so that a refused shield or line leaves nothing behind.

Bounds. Two actors are enough for most pool hazards; three make a thread steal
the connection another one was woken for. Two borrows let each thread meet the
pool empty, filled and grown. Maps of five queries with a limit of two need a
queue of three, so that `prepare_next` runs from a result set that was itself
queued; contexts of two plugins and pools of two databases cross their counts.
In `async_safety` each map can be rendered by one thread alone with the pool of
3; what happens when it cannot is the finding of `async_mixed` and of
`async_noted`. The pools of `async_sized` are exactly as large as *Sized* asks
for: two threads, and for each of them 3 asynchronous queries and an extent, or
2, a cursor and an extent. Lists of three
features with one or two group changes give a first, a middle and a last pass,
the lists without features the pass after the loop; three layers nest two deep
or stand beside each other. In `fonts` two threads are what it takes for one to
erase or insert between two steps of the other, the registrar relinks nodes
under both, and the second call meets what the first one left. In `parallelizer`
three layers have a first, a middle and a last one, and any of the first two may
be invisible. In `labels` the four calls may be of one symbolizer or of four;
three are enough for two labels that meet across a clearing with one that is
refused between them. Together the runs reach every action.

Deadlock checking is off where the system may really stop: borrows, calls and
renderings are bounded, `apply`, `parallelize` and `render` return, and threads
that wait for each other's connections are the subject of properties of their
own.

Fairness. *pool_liveness*: a thread inside the pool goes on (weak fairness of
its step there, the scheduler's promise; a wake-up or the right to the mutex is
not promised to anybody), and a thread destroys its handles in the end (strong
fairness of giving back: handles are members of the objects of one rendering,
but other actions of the same thread come in between). `MaxBorrows` matters
here: the condition variable has no queue, so threads that borrow again and
again may overtake a sleeper for ever; the property is that it returns once the
others let go. *async_sized*: weak fairness of the work of each rendering
thread: it is scheduled and the server answers. *parallelize*: started threads
run, and so does the caller. *parallelizer*: the same of the main thread and of
each job. *fonts*: weak fairness of each thread's calls and of the registrar;
calls are bounded, so that no thread is overtaken at the mutex for ever. The
safety runs assume no fairness.

## 4. The proofs

Each theorem holds for every value of the constants that meets the named
assumptions: `ConfigsAssumption`, `ThreadsAssumption`, `BoundsAssumption`
(ConnectionPool), `PoolsAssumption`, `MapsAssumption`, `RunAssumption`
(PostgisAsync), `UsesAssumption` (Parallelize), `MapsAssumption` (Parallelizer
and StyleProcessor), `FontsAssumption` (FontEngine), `LabelsAssumption`
(LabelPlacement). TLC evaluates each of them on its instances.

- **ConnectionPoolProofs**: *TypeCorrect*, *LendsOnce*, *NeverOutgrows*,
  *LentIsLeftAlone*, *ImplementsLending*. The inductive invariant is types,
  *ExclusiveLending* and *WithinMaxSize* (the pool is never above `max_size_`;
  *NeverOutgrows* states it) together: that a free holder is in
  nobody's hands (from `is_free`) is what lets a loan be exclusive, and that
  loans are exclusive is what lets `give_back` set `is_free`.
  *NoWakeupIsLost* (*NoLostWakeup*) is a balance of cardinalities: each kind of
  step changes the number of free holders by no more than the number of wake-ups
  due, delivered or waived (`Balance`). A lending takes a holder and at most the
  wake-up of its thread; a return adds a holder and a `notify_one` that is due;
  the call of it turns a sleeper into a woken thread, or finds nobody asleep;
  and a thread goes to sleep only when no holder is free (`NoneFree`).
  *ImplementsLending* maps each step to a loan, a return, a growth, a raised
  cap or a stutter of LendingPool (`cap`, `slots`, `loans` are `maxSize`,
  `size` and the pairs in `held`); reconnects, waits and wake-ups stutter.
  *SizingRuleSuffices* (*NobodyBlocks*): the invariant adds a count. The lent
  holders are a disjoint union of at most `MaxHeld` per thread, so a thread that
  asks has fewer than its share and either a holder is free or the pool is below
  `max_size_`. The argument is by cardinalities.
- **PostgisAsyncProofs**: *TypeCorrect*, *NeverReadUnsent* (*SentBeforeRead*),
  *LimitIsKept* (*WithinMaxAsync*), *AllIsRead* (*NothingLeftBehind*),
  *SizedNeverWaits* (*NeverWaits*), for every list of pools, maps and threads.
  Renderings meet only at the pools, so the invariant is one of each thread
  (`Rendered`) with the typing of what they share. Its parts: a queue holds
  exactly the result sets in state "queued" of its context, in the order of the
  map (`Queued`); the j-th query in a queue has at least j unread asynchronous
  queries of its context before it, each of which sends one when it is read
  (`EnoughBefore`), so it is sent in time; the states a result set may have on
  either side of the one being read (`States`); and the handles of a context,
  counted, are `num_async_requests_`, which is within the limit, or one fewer
  while the place of a query just read is vacant (`Counted`); and of the queries
  that are answered at once only the one at hand has a handle, while the map is
  prepared (`Alone`). *NeverWaits* follows by cardinalities: the shares of the
  threads are disjoint, each holds no more than the limit, its cursors and one
  besides, and the one that asks has less than its own. *AllIsRead* allows a
  handle behind the last layer to cursors that had rows, and to nothing else.
- **ParallelizeProofs**: *TypeCorrect*, *NoIndexTwice*, *NothingLeftOut*,
  *NoTaskOutlives*. Four lemmas are about the chunks alone: they fit in the
  work (*ChunksFit*), their bounds are ordered (*ChunkBounds*), they are
  disjoint (*ChunksDisjoint*) and cover it (*ChunksCover*), for every size and
  every number of jobs. The invariant says of each index that it was processed
  once exactly if its task has gone past it, and that tasks joined so far are
  done.
- **StyleProcessorProofs**, for every set of maps, in four invariants, each
  resting on those before it:
  - *InStep* (*BuffersMatchLayers*), *AlwaysPremultiplied*
    (*DrawnPremultiplied*), from `IInv`: the buffers of the open layers ascend
    on the internal stack (freeing the topmost never takes one that a layer
    below refers to), and the images of all references are premultiplied, the
    unused inflated buffer too. They need no assumption on maps: the hooks are
    paired by the processor's control flow alone.
  - *ReadsInOrder* (*ReadAsPrepared*), from `LayersInv`, `QueriesInv` and
    `ReadInv`. Layers are opened in document order, and the layer that one still
    to come is nested in is open or still to come itself, so that a layer is
    closed only when nothing nested in it is left (`NothingLeftOut`: if
    something is, then by the document order the first layer still to come is
    nested in it, too). The queries are listed by layer and style, each once. Then
    what belongs to layers to come is untouched, what belongs to layers behind
    is finished, and the featuresets of the layer at hand are as far as `pc`,
    `style` and `ahead` say (`AtHand`), on each of the ways features are read:
    one query per style, cached, grouped, or none. `OneRead` is the step they
    share: `next` on a featureset with everything before it finished.
  - *TypeCorrect* (*TypeOK*), from these and from `HandInv` (the buffer that a
    style reads from ends where its features do), `RulesInv` and `StackInv`
    (no reference without a buffer, also after an exception).
  - *PaintedFlags* (*PaintedFlagTrue*), from `PaintInv`: what has been drawn on
    any image is in its flag or, on the image of the style at hand, in
    `was_painted`; and a flag that is set, also one the emptied inflated buffer
    has kept, stands for drawing that is in a buffer on the stack by now.
    The lemmas before it say what compositing, filters and emptying do to the
    marks and the flag of an image; `PopPaint` is the step shared by the end of
    a layer and of a style.
- **PainterProofs**, for every set of maps: *ImplementsPainter*
  (*FollowsPainter*), that StyleProcessor implements PaintersAlgorithm. It uses
  the invariants of StyleProcessorProofs and, in *PainterInvariance*, three
  more. `AllPrepared`: a layer gone past is prepared exactly if it is to be
  painted. `GroupInv`: the buffer holds consecutive features of one group; when
  the styles are rendered the feature ahead is the next one and of another
  group, or there is none and the buffer ends with the last; so a style is
  through (`pos` is `end`) exactly where the painter's group ends (*RowsLeft*),
  and the styles are gone through again exactly when features follow
  (*EndPassPainted*). `MatchInv`: the rules left are in ascending order and,
  while none has matched, are all that match; so the flags that the loops set
  one rule at a time add up to `Due` (*IfRulePainted*, *ElseAndAlsoPainted*).
  The image stack is turned into the list of canvases once for each way it
  changes (*PushedCanvas*, *DrawnCanvas*, *PoppedCanvas*): that the inflated
  image, allocated anew or emptied, is as good as a new canvas, and that a
  style that draws on it leaves the internal buffers alone, is in there. Then
  each action is an action of the painter or leaves what he sees: the preparing
  of the layers, the buffering of features and the changes of flags are none of
  his business.
- **ParallelizerProofs**: *ImplementsTurns* (*PaintsInTurn*), *TypeCorrect*,
  *AllThreadsDone* (*NothingLeftRunning*), *PaintedFlagIsTrue*
  (*PaintedFlagTrue*), for maps of any length. The invariant: the jobs are the
  visible layers so far, in order and each once; the joined ones are the first
  ones; and for a *Parallelizable* map the image is what painting in turn gives
  up to the layer joined last (`ImageSoFar`). The steps between two joins map
  to stutters, a composition to the painting of its layer and of the invisible
  ones before it.
- **FontEngineProofs**: *FontTypes*, *FacesAreTheNamed* (*FaceAsNamed*),
  *WhatIsThereIsFound* (*NothingMissed*), *FacesKeepTheirData*
  (*DataStaysAlive*), *OneCopyOfAFile* (*OneCopyPerFile*). Registry entries are
  replaced and never erased, so that with *Stable*, or before anything is
  registered, the several readings of an entry agree (`DataOK`); with
  *LostApart* only buffers of lost files are erased, which no face has
  (`FreedOK`), and what is in the cache of a thread is in the shared map
  (`CopiesOK`).
- **LabelPlacementProofs**: *DetectorsHoldThePlaced* (*NothingButThePlaced*),
  *LabelsStandClear* (*NoForbiddenOverlap*), *RepeatsStandApart*
  (*RepeatApart*), *CandidatesAreAlternatives* (*OnePerPosition*),
  *LabelTypes*, for all labels, keys and bounds. That the detectors hold
  exactly what was placed under their keys since they were cleared is inductive
  by itself; it turns a test of the detectors into a statement about all labels
  placed before. *OnePerPosition* needs that a position where something was
  placed is not among those left for later candidates.

Model-checked only: liveness, which is out of the prover's reach
(*SleeperReturns*, *RenderingEnds*, *CallsEnd*, *CallsReturn*, *RenderEnds*);
and *PaintedAsDescribed*: the reference it compares with is defined by recursion
over the tree of layers, and the prover can neither expand a recursive operator
nor instantiate the induction that would define one as a function. What is
proved of the image is *FollowsPainter*: that the steps of the painter add up to
the recursive reference is what the run checks on its maps. Every other property
of a passing run is a theorem.

## 5. Where the sources disagree with themselves

- `async_mixed` refutes *BorrowAnswers*. The plain query of
  `features_with_context` throws "All connections from the pool have been taken.
  You can enlarge pool size ..." when `borrow` returns nothing
  (`postgis_datasource.cpp:777-782`). `borrow` never does: it waits. A map with
  as many asynchronous queries as the pool has connections and a plain query
  of the same database waits for itself for ever, in one thread.
- `async_steal` refutes *NextFindsConnection*. `prepare_next` is there to
  "ensure cnx pool has unused cnx" (`asyncresultset.hpp:223`): the connection
  was given back a moment before, and another thread may have taken it.
  `async_sized` shows when this cannot happen.
- `async_noted` refutes *NotedSizeSuffices*. "NOTE: In multithread environment,
  pool_max_size_ should be max_async_connections_ * num_threads"
  (`postgis_datasource.cpp:123-124`). The note does not count the connection that
  `envelope` borrows (1041) when the extent is not known, in the middle of
  preparing, while earlier layers hold theirs: with one thread and `max_size` =
  `max_async_connection` = 2, a layer of two styles and then one without an
  extent wait for themselves. What the pools have to cover is in *Sized*.

Others have no run, as no single sentence promises what the code does not do.

Queries and connections. `close` aborts "a pending connection"
(`asyncresultset.hpp:65`), but `pending_` is set by `executeAsyncQuery`
(`connection.hpp:189`) and reset on errors only, so every asynchronous connection
is closed after use (`LastRow` ends in `dropped`) and the pool reconnects for
each query. `render_material` says "We only have a single style
and no grouping" (`feature_style_processor_impl.hpp:779`) of a branch that
renders any number of styles; and `borrow` passes its `ping` argument on only
after a wait, while a ping of a healthy connection fails too, `execute`
accepting only `PGRES_COMMAND_OK` (`connection.hpp:92-114`).

Fonts. `create_face` looks into the shared font data without the mutex
(`font_engine_freetype.cpp:347-352`) while "the map and its font_cache must be
immutable during rendering for predictable thread safety" (340-341) and the
library "is intended to play fair in a multi-threaded environment"
(`README.md:28`). "We can't load font, erase it" (383) erases data that another
rendering may have found and be using: it is enough that two threads ask at
once for a registered font whose only face cannot be made. And an entry
that `register_font` replaces between the opening of the file (368) and the
insertion (374) files the data of one font under the name of another. The
properties are stated for *Stable* and *LostApart* fonts for these reasons.

Labels. `avoid-edges` of markers is to "avoid placing markers that intersect
with tile boundaries" (`docs/api-reference/reference.json:775`), but
`marker_layout.cpp` tests the extent of the detectors, which includes the buffer
around the tile. `clear-label-cache` is to "clear the collision detector cache"
(`reference.json:450-454`), but clears the default detector only
(`collision_cache.hpp`, `clear`), although styles may use others
(`docs/features/keyed-collision-caches.md`). A text that avoids edges counts as
placed, without being drawn, when it reaches over the right or the lower edge,
and is refused when it reaches over the left or the upper one
(`point_layout.cpp:176-204`): in the former case no later candidate is tried.

Layers in threads. Nothing promises that `parallelizer::render` gives the image
of one thread; `test/unit/util/parallelizer.cpp` compares some maps. The images
differ where *Parallelizable* fails: a `scale-factor` of a layer, which one
thread ignores (the test of it, at lines 122-131, compares with
a map rendered small and scaled), label spots that two layers want, a
`comp-op` or opacity of the first layer, which also hits the background, direct
filters, styles of a plain layer that blend with what is below, a layer with a
`comp-op` that has nothing to render, and a map without a visible layer, whose
background is never drawn. Flattening a `src-over` layer is exact up to the
rounding of 8 bits, which the model leaves out. When a job throws, the
caller's image stays premultiplied and partial, while an image that is returned
is demultiplied.

## 6. What is not modelled

Left out of modelled parts: `connection_pool::close` and
`ConnectionManager::close`, which nothing calls; the SQL text, the decoding of
rows, the metadata queries of the datasource's constructor; projections and
extents but for their outcome; query attributes, variables and statistics;
drawing itself, pixels, clip boxes and gamma; what a chunk does to its pixels;
`set_layer_buffer_size`; the boxes of labels, which the shaping computes, and
the older detectors of `label_collision_detector.hpp` with the quad tree below
them; the search for fonts in directories, which calls `register_font` for each
file. A look-up in a `std::map` while it changes is undefined; the model has
the outcome that an entry is missed, not a crash. An exception that leaves
`apply` ends the rendering; using the same renderer again, with its buffers as
they were left, is not modelled. A cursor sends `CLOSE` from its destructor,
and when that fails, as it does when the connection is lost, the exception ends
the program: the model stops there (`crashed`), as nothing is promised about
it. `marker_line_policy::forward` makes the later places along a line depend on
whether the last one was taken; `Groups` of LabelPlacement are fixed, and its
properties hold of any places. An image so small that resizing leaves its size
as it is would be drawn at another scale and not resampled; `resized` stands
for a size that changes.

Not modelled at all: the Cairo, grid and SVG renderers (the same hooks, another
backend); the other input plugins (readers of a file in one thread); pgraster's
copy of the asynchronous code, but for its context in PostgisAsync; text
shaping; grammars, XML and image codecs; geometry; the caches of
markers and mapped memory (each call is one critical section and the cached
objects are immutable); singletons (`instance` creates the object under a mutex
after a check with acquire order, once for the process; what is left is the
destruction at exit, after all that is modelled); the plugin registry (one
mutex around each call); the build, the demos and vendored code, which includes
the Python sources of SCons, the tool that builds mapnik.

## 7. The plan

Done: the pool and its abstract specification, the asynchronous queries over
it, the style processor and the renderer's buffers as an implementation of the
abstract painter, chunked parallelism, layers in threads and their abstract
specification, the font engine, label placement, and the proofs of section 4.
What would come next:

1. Liveness of a rendering: that the painter finishes, which needs an order on
   maps, features and rules that TLC can only check on instances.
2. A renderer that is used again after an exception left `apply`: which buffers
   it starts from.
3. **Singleton** and the plugin registry at exit: who may still call whom.
4. The quad tree of the detectors as an implementation of a set of boxes.
