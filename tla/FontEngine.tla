----------------------------- MODULE FontEngine -----------------------------
(***************************************************************************)
(* mapnik::freetype_engine (src/font_engine_freetype.cpp): the registry of *)
(* fonts and the font data in memory that all renderings of a process      *)
(* share, and face_manager, which each rendering has for itself.           *)
(*                                                                         *)
(* create_face looks into both shared maps without the mutex and takes it  *)
(* only to add to the font data.  A look-up while another thread links or  *)
(* unlinks a node of the same std::map may miss an entry that is there:    *)
(* that outcome is in the model; that it may also crash is not.            *)
(***************************************************************************)
EXTENDS Integers, Sequences

CONSTANTS
    Threads,     \* the rendering threads, each with its own face_manager
    Registrar,   \* the thread that calls register_font meanwhile
    Names,       \* face names: family and style
    Files,
    Disk,        \* [file -> the names of its faces, in order]
    Registered,  \* [name -> face]: what earlier register_font calls left
    Late,        \* the files the registrar registers, once each
    MapFonts,    \* [name -> face]: what Map::register_fonts found
    LoadFonts,   \* whether Map::load_fonts was called
    Gone,        \* files that cannot be opened any more
    Lost,        \* faces <<file, index>> their files have no more
    MaxCalls     \* bound: calls of get_face per thread that miss face_cache_

Faces == [file : Files, index : Nat]
NoFile == "no file"

ASSUME FontsAssumption ==
    /\ Registrar \notin Threads
    /\ "free" \notin Threads \cup {Registrar}
    /\ Names # {} /\ NoFile \notin Files
    /\ \A f \in Files : Disk[f] \in Seq(STRING)
    /\ Late \subseteq Files /\ Gone \subseteq Files
    /\ \A n \in DOMAIN Registered : n \in Names /\ Registered[n] \in Faces
    /\ \A n \in DOMAIN MapFonts : n \in Names /\ MapFonts[n] \in Faces
    /\ MaxCalls \in Nat

VARIABLES
    mapping,     \* global_font_file_mapping_: name -> face
    memory,      \* global_memory_fonts_: file -> buffer
    mutex,       \* mutex_: its owner, or "free"
    changing,    \* the map whose nodes are being relinked, or "none"
    freed,       \* history: the buffers erased
    loads,       \* history: how many buffers were read from files
    todo,        \* files the registrar has not registered yet
    job,         \* the file it registers and how many faces it is through
    pc, name,    \* per thread: where it stands, the face asked for,
    held,        \*   the font data it refers to,
    opened,      \*   and the file it has open
    faces,       \* face_cache_ of its face_manager: name -> face and data
    missing,     \* history: names create_face returned nothing for
    calls        \* history: calls that missed face_cache_

shared == <<mapping, memory, mutex, changing, freed, loads>>
registrar == <<todo, job>>
thread == <<pc, name, held, opened, faces, missing, calls>>
vars == <<shared, registrar, thread>>

-----------------------------------------------------------------------------
Buffers == [data : Files, no : Int]
NoBuffer == [data |-> NoFile, no |-> 0]

\* Map::load_fonts: the files of the map's own fonts, but of those the
\* engine knows by the same file.
LoadedByMap ==
    IF ~LoadFonts THEN {}
    ELSE {MapFonts[n].file :
            n \in {m \in DOMAIN MapFonts :
                    ~ (m \in DOMAIN Registered /\
                       Registered[m].file = MapFonts[m].file)}} \ Gone
MapBuffer(f) == [data |-> f, no |-> -1]

\* FT_New_Memory_Face succeeds.
Usable(buffer, index) ==
    /\ index \in DOMAIN Disk[buffer.data]
    /\ <<buffer.data, index>> \notin Lost

\* What the iterator of create_face points to: an entry of the map's own
\* fonts or else of the registry.  Entries are replaced but never erased.
Entry(n) == IF n \in DOMAIN MapFonts THEN MapFonts[n] ELSE mapping[n]

With(map, key, value) ==
    [k \in DOMAIN map \cup {key} |-> IF k = key THEN value ELSE map[k]]
Without(map, key) == [k \in DOMAIN map \ {key} |-> map[k]]

Init ==
    /\ mapping = Registered
    /\ memory = [f \in {} |-> NoBuffer]
    /\ mutex = "free"
    /\ changing = "none"
    /\ freed = {}
    /\ loads = 0
    /\ todo = Late
    /\ job = [file |-> NoFile, done |-> 0]
    /\ pc = [t \in Threads |-> "idle"]
    /\ name = [t \in Threads |-> CHOOSE n \in Names : TRUE]
    /\ held = [t \in Threads |-> NoBuffer]
    /\ opened = [t \in Threads |-> NoFile]
    /\ faces = [t \in Threads |-> [n \in {} |-> NoBuffer]]
    /\ missing = [t \in Threads |-> {}]
    /\ calls = [t \in Threads |-> 0]

-----------------------------------------------------------------------------
(* A rendering thread: face_manager::get_face and create_face *)

Goto(t, where) == pc' = [pc EXCEPT ![t] = where]

\* create_face returned a face made from the given data, or nothing.
ReturnFace(t, n, index, buffer) ==
    /\ faces' = [faces EXCEPT ![t] =
                    With(@, n, [index |-> index, buffer |-> buffer])]
    /\ Goto(t, "idle")
    /\ UNCHANGED missing
ReturnNothing(t) ==
    /\ missing' = [missing EXCEPT ![t] = @ \cup {name[t]}]
    /\ Goto(t, "idle")
    /\ UNCHANGED faces

\* A name that is not in face_cache_.  The map's fonts and the data it holds
\* of them do not change during a rendering.
GetFace(t, n) ==
    /\ pc[t] = "idle"
    /\ calls[t] < MaxCalls
    /\ n \notin DOMAIN faces[t]
    /\ calls' = [calls EXCEPT ![t] = @ + 1]
    /\ name' = [name EXCEPT ![t] = n]
    /\ IF n \notin DOMAIN MapFonts THEN Goto(t, "look up") /\ UNCHANGED <<faces, missing>>
       ELSE LET face == MapFonts[n] IN
            IF face.file \in LoadedByMap /\ Usable(MapBuffer(face.file), face.index)
            THEN ReturnFace(t, n, face.index, MapBuffer(face.file))
            ELSE Goto(t, "open") /\ UNCHANGED <<faces, missing>>
    /\ UNCHANGED <<shared, registrar, held, opened>>

\* global_font_file_mapping.find, without the mutex.
LookUp(t) ==
    /\ pc[t] = "look up"
    /\ \/ /\ name[t] \in DOMAIN mapping
          /\ Goto(t, "look in memory")
          /\ UNCHANGED <<faces, missing>>
       \/ /\ name[t] \notin DOMAIN mapping \/ changing = "mapping"
          /\ ReturnNothing(t)
    /\ UNCHANGED <<shared, registrar, name, held, opened, calls>>

\* Mutant: fonts are expected to be in memory.
LookInMemoryOnly(t) ==
    /\ pc[t] = "look in memory"
    /\ LET file == Entry(name[t]).file IN
       \/ /\ file \in DOMAIN memory
          /\ held' = [held EXCEPT ![t] = memory[file]]
          /\ Goto(t, "use")
          /\ UNCHANGED <<faces, missing>>
       \/ /\ changing = "memory"
          /\ ReturnNothing(t)
          /\ UNCHANGED held
       \/ /\ file \notin DOMAIN memory
          /\ Goto(t, "open")
          /\ UNCHANGED <<held, faces, missing>>
    /\ UNCHANGED <<shared, registrar, name, opened, calls>>

\* global_memory_fonts.find, without the mutex.
LookInMemory(t) ==
    /\ pc[t] = "look in memory"
    /\ LET file == Entry(name[t]).file IN
       \/ /\ file \in DOMAIN memory
          /\ held' = [held EXCEPT ![t] = memory[file]]
          /\ Goto(t, "use")
       \/ /\ file \notin DOMAIN memory \/ changing = "memory"
          /\ Goto(t, "open")
          /\ UNCHANGED held
    /\ UNCHANGED <<shared, registrar, name, opened, faces, missing, calls>>

\* A face from the data found there; if that fails, it is read again.
Use(t) ==
    /\ pc[t] = "use"
    /\ LET index == Entry(name[t]).index IN
       IF Usable(held[t], index)
       THEN ReturnFace(t, name[t], index, held[t])
       ELSE Goto(t, "open") /\ UNCHANGED <<faces, missing>>
    /\ held' = [held EXCEPT ![t] = NoBuffer]
    /\ UNCHANGED <<shared, registrar, name, opened, calls>>

Open(t) ==
    /\ pc[t] = "open"
    /\ LET file == Entry(name[t]).file IN
       IF file \in Gone
       THEN ReturnNothing(t) /\ UNCHANGED opened
       ELSE /\ opened' = [opened EXCEPT ![t] = file]
            /\ Goto(t, "lock")
            /\ UNCHANGED <<faces, missing>>
    /\ UNCHANGED <<shared, registrar, name, held, calls>>

\* Mutant: a second thread puts its own data into the entry of the first.
LockAndAssign(t) ==
    /\ pc[t] = "lock"
    /\ mutex = "free"
    /\ mutex' = t
    /\ changing' = "memory"
    /\ freed' = freed \cup {memory[f] : f \in DOMAIN memory \cap {Entry(name[t]).file}}
    /\ Goto(t, "insert")
    /\ UNCHANGED <<mapping, memory, loads, registrar, name, held, opened,
                   faces, missing, calls>>

\* emplace: an entry that is there already is kept, the data read for it
\* dropped.
Lock(t) ==
    /\ pc[t] = "lock"
    /\ mutex = "free"
    /\ mutex' = t
    /\ LET file == Entry(name[t]).file IN
       IF file \in DOMAIN memory
       THEN /\ held' = [held EXCEPT ![t] = memory[file]]
            /\ Goto(t, "make")
            /\ UNCHANGED changing
       ELSE /\ changing' = "memory"
            /\ Goto(t, "insert")
            /\ UNCHANGED held
    /\ UNCHANGED <<mapping, memory, freed, loads, registrar, name, opened,
                   faces, missing, calls>>

\* The key is what the entry says now, the data what was opened before.
Insert(t) ==
    /\ pc[t] = "insert"
    /\ LET buffer == [data |-> opened[t], no |-> loads] IN
       /\ memory' = With(memory, Entry(name[t]).file, buffer)
       /\ held' = [held EXCEPT ![t] = buffer]
    /\ loads' = loads + 1
    /\ changing' = "none"
    /\ Goto(t, "make")
    /\ UNCHANGED <<mapping, mutex, freed, registrar, name, opened,
                   faces, missing, calls>>

\* Mutant: the mutex is not released.
MakeKeepingMutex(t) ==
    /\ pc[t] = "make"
    /\ LET index == Entry(name[t]).index IN
       /\ Usable(held[t], index)
       /\ ReturnFace(t, name[t], index, held[t])
    /\ held' = [held EXCEPT ![t] = NoBuffer]
    /\ opened' = [opened EXCEPT ![t] = NoFile]
    /\ UNCHANGED <<mapping, memory, mutex, changing, freed, loads, registrar, name, calls>>

Make(t) ==
    /\ pc[t] = "make"
    /\ LET index == Entry(name[t]).index IN
       /\ Usable(held[t], index)
       /\ ReturnFace(t, name[t], index, held[t])
    /\ mutex' = "free"
    /\ held' = [held EXCEPT ![t] = NoBuffer]
    /\ opened' = [opened EXCEPT ![t] = NoFile]
    /\ UNCHANGED <<mapping, memory, changing, freed, loads, registrar, name, calls>>

\* Mutant: the failure is taken for granted.
MakeNothing(t) ==
    /\ pc[t] = "make"
    /\ changing' = "memory"
    /\ Goto(t, "erase")
    /\ UNCHANGED <<mapping, memory, mutex, freed, loads, registrar, name, held,
                   opened, faces, missing, calls>>

MakeFails(t) ==
    /\ pc[t] = "make"
    /\ ~Usable(held[t], Entry(name[t]).index)
    /\ changing' = "memory"
    /\ Goto(t, "erase")
    /\ UNCHANGED <<mapping, memory, mutex, freed, loads, registrar, name, held,
                   opened, faces, missing, calls>>

Erase(t) ==
    /\ pc[t] = "erase"
    /\ memory' = Without(memory, Entry(name[t]).file)
    /\ freed' = freed \cup {held[t]}
    /\ changing' = "none"
    /\ mutex' = "free"
    /\ held' = [held EXCEPT ![t] = NoBuffer]
    /\ opened' = [opened EXCEPT ![t] = NoFile]
    /\ ReturnNothing(t)
    /\ UNCHANGED <<mapping, loads, registrar, name, calls>>

-----------------------------------------------------------------------------
(* The registrar: freetype_engine::register_font *)

Register(f) ==
    /\ mutex = "free"
    /\ f \in todo
    /\ mutex' = Registrar
    /\ todo' = todo \ {f}
    /\ job' = [file |-> f, done |-> 0]
    /\ UNCHANGED <<mapping, memory, changing, freed, loads, thread>>

NextName == Disk[job.file][job.done + 1]

\* Mutant: FreeType counts the faces of a file from one.
NextFaceFromOne == [file |-> job.file, index |-> job.done + 2]

NextFace == [file |-> job.file, index |-> job.done + 1]

\* Mutant: system fonts are registered too.
SkippedNever(n) == FALSE

\* Faces without names and those that begin with a dot are not in Names.
Skipped(n) == n \notin Names

Registering == mutex = Registrar /\ job.done < Len(Disk[job.file])
FaceDone == job' = [job EXCEPT !.done = @ + 1]

SkipFace ==
    /\ Registering
    /\ Skipped(NextName)
    /\ FaceDone
    /\ UNCHANGED <<shared, todo, thread>>

\* The name was registered before: the value of its entry is replaced.
ReplaceFace ==
    /\ Registering
    /\ NextName \in DOMAIN mapping
    /\ mapping' = [mapping EXCEPT ![NextName] = NextFace]
    /\ FaceDone
    /\ UNCHANGED <<memory, mutex, changing, freed, loads, todo, thread>>

BeginAddingFace ==
    /\ Registering
    /\ ~Skipped(NextName)
    /\ NextName \notin DOMAIN mapping
    /\ changing = "none"
    /\ changing' = "mapping"
    /\ UNCHANGED <<mapping, memory, mutex, freed, loads, registrar, thread>>

AddFace ==
    /\ Registering
    /\ changing = "mapping"
    /\ mapping' = With(mapping, NextName, NextFace)
    /\ changing' = "none"
    /\ FaceDone
    /\ UNCHANGED <<memory, mutex, freed, loads, todo, thread>>

FileRegistered ==
    /\ mutex = Registrar
    /\ job.done = Len(Disk[job.file])
    /\ mutex' = "free"
    /\ job' = [file |-> NoFile, done |-> 0]
    /\ UNCHANGED <<mapping, memory, changing, freed, loads, todo, thread>>

Create(t) ==
    \/ LookUp(t) \/ LookInMemory(t) \/ Use(t) \/ Open(t)
    \/ Lock(t) \/ Insert(t) \/ Make(t) \/ MakeFails(t) \/ Erase(t)

RegisterFaces ==
    \/ SkipFace \/ ReplaceFace \/ BeginAddingFace \/ AddFace \/ FileRegistered

Next ==
    \/ \E t \in Threads : Create(t) \/ \E n \in Names : GetFace(t, n)
    \/ \E f \in Late : Register(f)
    \/ RegisterFaces

Spec == Init /\ [][Next]_vars

\* Threads that are in a call run.  Calls are bounded, so that no thread is
\* overtaken at the mutex for ever.
Fairness ==
    /\ \A t \in Threads : WF_vars(Create(t))
    /\ WF_vars(RegisterFaces)
FairSpec == Spec /\ Fairness

-----------------------------------------------------------------------------
(* Properties *)

InUse(t) == pc[t] \in {"use", "make", "erase"}

TypeOK ==
    /\ DOMAIN mapping \subseteq Names
    /\ \A n \in DOMAIN mapping : mapping[n] \in Faces
    /\ DOMAIN memory \subseteq Files
    /\ \A f \in DOMAIN memory : memory[f] \in Buffers
    /\ mutex \in Threads \cup {Registrar, "free"}
    /\ changing \in {"none", "memory", "mapping"}
    /\ freed \subseteq Buffers
    /\ loads \in Nat
    /\ todo \subseteq Late
    /\ job \in [file : Files \cup {NoFile}, done : Nat]
    /\ pc \in [Threads -> {"idle", "look up", "look in memory", "use", "open",
                           "lock", "insert", "make", "erase"}]
    /\ name \in [Threads -> Names]
    /\ held \in [Threads -> Buffers \cup {NoBuffer}]
    /\ opened \in [Threads -> Files \cup {NoFile}]
    /\ missing \in [Threads -> SUBSET Names]
    /\ calls \in [Threads -> 0..MaxCalls]
    /\ DOMAIN faces = Threads
    /\ \A t \in Threads :
        /\ DOMAIN faces[t] \subseteq Names
        /\ \A n \in DOMAIN faces[t] : faces[t][n] \in [index : Nat, buffer : Buffers]

Face(f, i) == [file |-> f, index |-> i]
Named(map) == {<<n, map[n]>> : n \in DOMAIN map}

\* What the registry may ever hold, as <<name, face>>.
InRegistry ==
    Named(Registered) \cup UNION {{<<Disk[f][i], Face(f, i)>> : i \in DOMAIN Disk[f]} : f \in Late}

\* A face that can be made once its file is read.
Sound(face) == face.index \in DOMAIN Disk[face.file] /\ <<face.file, face.index>> \notin Lost

\* register_font never gives a name to another face: fonts are registered
\* again, as they were.
Stable == \A a, b \in InRegistry : a[1] = b[1] => a[2] = b[2]

\* What is registered can be made; of the map's own fonts, a file that lost
\* one lost all of those the map names.
LostApart ==
    /\ \A a \in InRegistry : Sound(a[2])
    /\ \A a, b \in InRegistry \cup Named(MapFonts) :
           a[2].file = b[2].file => (Sound(a[2]) <=> Sound(b[2]))

\* FreeType reads the data of a face for as long as the face lives, and the
\* face lives in face_cache_: whatever other renderings do to the shared font
\* data, the data of a face is never freed, nor is the data a thread found by
\* its unlocked look-up.  It takes fonts that can be made: the erasure of
\* create_face spares nobody.
DataStaysAlive ==
    Stable /\ LostApart =>
        \A t \in Threads :
            /\ \A n \in DOMAIN faces[t] : faces[t][n].buffer \notin freed
            /\ pc[t] = "use" => held[t] \notin freed

\* A face is the one the map, or else the registry, has for its name, and it
\* is made from the data of that file, although the entry is read four times
\* on the way, mostly without the mutex.
FaceAsNamed ==
    Stable =>
        \A t \in Threads : \A n \in DOMAIN faces[t] :
            /\ faces[t][n].index = Entry(n).index
            /\ faces[t][n].buffer.data = Entry(n).file

\* Two renderings that load the same file at a time end up with one copy.
OneCopyPerFile ==
    Stable /\ LostApart =>
        \A t, u \in Threads : \A n \in DOMAIN faces[t], m \in DOMAIN faces[u] :
            LET a == faces[t][n].buffer
                b == faces[u][m].buffer
            IN  a.data = b.data /\ a.no # -1 /\ b.no # -1 => a = b

\* create_face finds every face that is registered and can be read, but for
\* those it asks for while register_font is at work, or was.  Looking into the
\* font data while it changes costs a second reading of the file and nothing
\* else.
NothingMissed ==
    todo = Late =>
        \A t \in Threads : \A n \in missing[t] :
            n \in DOMAIN MapFonts \cup DOMAIN mapping =>
                Entry(n).file \in Gone \/ ~Sound(Entry(n))

\* Every call of create_face returns.
CallsReturn == \A t \in Threads : pc[t] # "idle" ~> pc[t] = "idle"
=============================================================================
