-------------------------- MODULE FontEngineProofs --------------------------
(***************************************************************************)
(* What the font engine guarantees, for all fonts, threads and maps.  The  *)
(* registry may be read at any moment, because its entries are replaced    *)
(* and never erased: with Stable, what a thread reads of an entry it knows *)
(* never changes.  The font data is added to and erased under the mutex.   *)
(***************************************************************************)
EXTENDS FontEngine, TLAPS

Known == DOMAIN MapFonts \cup DOMAIN mapping

InMutex == {"insert", "make", "erase"}

RegistryOK(map) ==
    \A n \in DOMAIN map : n \in Names /\ map[n] \in Faces /\ <<n, map[n]>> \in InRegistry

MemoryOK(map) == \A f \in DOMAIN map : f \in Files /\ map[f] \in Buffers

\* A face is only made for a name that is known.
FacesOK(cache, known) ==
    /\ DOMAIN cache = Threads
    /\ \A t \in Threads : \A n \in DOMAIN cache[t] :
           n \in known \cap Names /\ cache[t][n] \in [index : Nat, buffer : Buffers]

ScalarsOK ==
    /\ mutex \in Threads \cup {Registrar, "free"}
    /\ changing \in {"none", "memory", "mapping"}
    /\ freed \subseteq Buffers
    /\ loads \in Nat
    /\ todo \subseteq Late
    /\ job \in [file : Files \cup {NoFile}, done : Nat]

\* A thread that has found an entry goes on from it.
ThreadsOK ==
    /\ pc \in [Threads -> {"idle", "look up", "look in memory", "use", "open",
                           "lock", "insert", "make", "erase"}]
    /\ name \in [Threads -> Names]
    /\ held \in [Threads -> Buffers \cup {NoBuffer}]
    /\ opened \in [Threads -> Files \cup {NoFile}]
    /\ missing \in [Threads -> SUBSET Names]
    /\ calls \in [Threads -> 0..MaxCalls]
    /\ \A t \in Threads :
         /\ pc[t] \notin {"idle", "look up"} => name[t] \in Known
         /\ pc[t] \in {"look up", "look in memory", "use"} => name[t] \notin DOMAIN MapFonts
         /\ pc[t] \in {"lock", "insert", "make", "erase"} => opened[t] \in Files
         /\ pc[t] \in {"use", "make", "erase"} => held[t] \in Buffers

\* The mutex is held by whoever adds or erases; while a name is being added
\* to the registry it is not there yet.
MutexOK ==
    /\ \A t \in Threads : pc[t] \in InMutex <=> mutex = t
    /\ mutex = Registrar => job.file \in Late
    /\ todo = Late => mutex # Registrar
    /\ changing = "mapping" =>
         /\ mutex = Registrar /\ job.done < Len(Disk[job.file])
         /\ NextName \in Names /\ NextName \notin DOMAIN mapping

Basics ==
    /\ RegistryOK(mapping) /\ MemoryOK(memory) /\ FacesOK(faces, Known)
    /\ ScalarsOK /\ ThreadsOK /\ MutexOK

LEMMA BasicsTyped == Basics => TypeOK
  <1> SUFFICES ASSUME Basics PROVE TypeOK
    OBVIOUS
  <1>1. RegistryOK(mapping) /\ MemoryOK(memory) /\ FacesOK(faces, Known) /\ ScalarsOK /\ ThreadsOK
    BY DEF Basics
  <1>2. DOMAIN mapping \subseteq Names /\ \A n \in DOMAIN mapping : mapping[n] \in Faces
    BY <1>1 DEF RegistryOK
  <1>3. DOMAIN memory \subseteq Files /\ \A f \in DOMAIN memory : memory[f] \in Buffers
    BY <1>1 DEF MemoryOK
  <1>4. /\ DOMAIN faces = Threads
        /\ \A t \in Threads :
            /\ DOMAIN faces[t] \subseteq Names
            /\ \A n \in DOMAIN faces[t] : faces[t][n] \in [index : Nat, buffer : Buffers]
    BY <1>1 DEF FacesOK
  <1> QED BY <1>1, <1>2, <1>3, <1>4 DEF TypeOK, ScalarsOK, ThreadsOK

LEMMA ConstantFacts ==
    /\ Registrar \notin Threads /\ "free" \notin Threads /\ Registrar # "free"
    /\ NoFile \notin Files /\ Late \subseteq Files
    /\ \A f \in Files : Len(Disk[f]) \in Nat /\ DOMAIN Disk[f] = 1 .. Len(Disk[f])
    /\ \A n \in DOMAIN Registered : n \in Names /\ Registered[n] \in Faces
    /\ \A n \in DOMAIN MapFonts : n \in Names /\ MapFonts[n] \in Faces
  <1>1. \A f \in Files : Disk[f] \in Seq(STRING)
    BY FontsAssumption
  <1>2. \A f \in Files : Len(Disk[f]) \in Nat /\ DOMAIN Disk[f] = 1 .. Len(Disk[f])
    BY <1>1
  <1> QED BY <1>2, FontsAssumption

\* The face that register_font is at is one the registry may hold.
LEMMA NextIsRegistrable ==
    ASSUME Basics, Registering
    PROVE  /\ <<NextName, NextFace>> \in InRegistry
           /\ NextFace \in Faces
           /\ job.done + 1 \in Nat
  <1>1. job.file \in Late /\ job.done \in Nat /\ job.done < Len(Disk[job.file])
    BY DEF Basics, MutexOK, ScalarsOK, Registering
  <1>2. job.done + 1 \in DOMAIN Disk[job.file] /\ job.file \in Files
    BY <1>1, ConstantFacts
  <1>3. NextFace = Face(job.file, job.done + 1)
    BY DEF NextFace, Face
  <1>4. <<NextName, NextFace>> \in
          {<<Disk[job.file][i], Face(job.file, i)>> : i \in DOMAIN Disk[job.file]}
    BY <1>2, <1>3 DEF NextName
  <1>5. <<NextName, NextFace>> \in InRegistry
    BY <1>1, <1>4 DEF InRegistry
  <1> QED BY <1>1, <1>2, <1>3, <1>5 DEF Faces, Face

LEMMA EntryTyped ==
    ASSUME Basics, NEW n \in Known
    PROVE  Entry(n) \in Faces
  BY ConstantFacts DEF Basics, RegistryOK, Known, Entry

LEMMA ReturnFaceFacts ==
    ASSUME Basics, NEW t \in Threads, NEW n, NEW index, NEW buffer,
           ReturnFace(t, n, index, buffer)
    PROVE  /\ DOMAIN faces' = Threads
           /\ DOMAIN faces'[t] = DOMAIN faces[t] \cup {n}
           /\ faces'[t][n] = [index |-> index, buffer |-> buffer]
           /\ \A m \in DOMAIN faces[t] : m # n => faces'[t][m] = faces[t][m]
           /\ \A u \in Threads : u # t => faces'[u] = faces[u]
           /\ pc' = [pc EXCEPT ![t] = "idle"]
           /\ missing' = missing
  <1> DEFINE value == [index |-> index, buffer |-> buffer]
  <1>1. DOMAIN faces = Threads
    BY DEF Basics, FacesOK
  <1>2. faces' = [faces EXCEPT ![t] = With(@, n, value)]
    BY DEF ReturnFace
  <1>3. /\ DOMAIN faces' = Threads
        /\ faces'[t] = With(faces[t], n, value)
        /\ \A u \in Threads : u # t => faces'[u] = faces[u]
    BY <1>1, <1>2
  <1>4. pc' = [pc EXCEPT ![t] = "idle"] /\ missing' = missing
    BY DEF ReturnFace, Goto
  <1> HIDE DEF value
  <1>5. /\ DOMAIN faces'[t] = DOMAIN faces[t] \cup {n}
        /\ faces'[t][n] = value
        /\ \A m \in DOMAIN faces[t] : m # n => faces'[t][m] = faces[t][m]
    BY <1>3 DEF With
  <1> QED BY <1>3, <1>4, <1>5 DEF value

LEMMA InitBasics == Init => Basics
  <1> SUFFICES ASSUME Init PROVE Basics
    OBVIOUS
  <1> USE DEF Init
  <1>1. RegistryOK(mapping)
    BY ConstantFacts DEF RegistryOK, InRegistry, Named
  <1>2. MemoryOK(memory) /\ FacesOK(faces, Known)
    BY DEF MemoryOK, FacesOK
  <1>3. ScalarsOK /\ MutexOK
    BY ConstantFacts DEF ScalarsOK, MutexOK, InMutex
  <1>4. (CHOOSE n \in Names : TRUE) \in Names /\ MaxCalls \in Nat
    BY FontsAssumption
  <1>5. ThreadsOK
    BY <1>4 DEF ThreadsOK
  <1> QED BY <1>1, <1>2, <1>3, <1>5 DEF Basics

LEMMA ReturnNothingFacts ==
    ASSUME Basics, NEW t \in Threads, ReturnNothing(t)
    PROVE  /\ missing' \in [Threads -> SUBSET Names]
           /\ pc' = [pc EXCEPT ![t] = "idle"]
           /\ faces' = faces
  <1>1. missing \in [Threads -> SUBSET Names] /\ name[t] \in Names
    BY DEF Basics, ThreadsOK
  <1>2. missing' = [missing EXCEPT ![t] = @ \cup {name[t]}]
    BY DEF ReturnNothing
  <1>3. missing[t] \cup {name[t]} \in SUBSET Names
    BY <1>1
  <1>4. missing' \in [Threads -> SUBSET Names]
    BY <1>1, <1>2, <1>3
  <1> QED BY <1>4 DEF ReturnNothing, Goto

\* A step of a thread that does not hold the mutex and does not take it.
LEMMA AsideFacts ==
    ASSUME Basics, NEW t \in Threads, UNCHANGED <<shared, registrar>>,
           NEW where, where \notin InMutex, pc[t] \notin InMutex,
           pc' = [pc EXCEPT ![t] = where],
           ThreadsOK', FacesOK(faces, Known)'
    PROVE  Basics'
  <1>1. RegistryOK(mapping) /\ MemoryOK(memory) /\ ScalarsOK /\ ThreadsOK /\ MutexOK
    BY DEF Basics
  <1>2. UNCHANGED <<mapping, memory, mutex, changing, freed, loads, todo, job>>
    BY DEF shared, registrar
  <1>3. RegistryOK(mapping)' /\ MemoryOK(memory)'
    BY <1>1, <1>2
  <1>4. ScalarsOK'
    BY <1>1, <1>2 DEF ScalarsOK
  <1>5. \A u \in Threads : pc'[u] \in InMutex <=> pc[u] \in InMutex
    BY <1>1 DEF ThreadsOK
  <1>6. MutexOK'
    BY <1>1, <1>2, <1>5 DEF MutexOK, NextName
  <1> QED BY <1>3, <1>4, <1>6 DEF Basics

LEMMA LookingStepsBasics ==
    ASSUME Basics, NEW t \in Threads, LookUp(t) \/ LookInMemory(t) \/ Open(t)
    PROVE  Basics'
  <1>1. MemoryOK(memory) /\ ThreadsOK /\ FacesOK(faces, Known)
    BY DEF Basics
  <1>2. UNCHANGED <<shared, registrar>> /\ Known' = Known
    BY DEF LookUp, LookInMemory, Open, shared, Known
  <1>3. faces' = faces /\ FacesOK(faces, Known)'
    BY <1>1, <1>2 DEF LookUp, LookInMemory, Open, ReturnNothing
  <1>4. ASSUME NEW where, where \notin InMutex, pc[t] \notin InMutex,
               pc' = [pc EXCEPT ![t] = where], ThreadsOK'
        PROVE  Basics'
    BY <1>2, <1>3, <1>4, AsideFacts
  <1>5. pc[t] \notin InMutex
    BY DEF LookUp, LookInMemory, Open, InMutex
  <1>6. ASSUME ReturnNothing(t), UNCHANGED <<name, held, opened, calls>>
        PROVE  Basics'
    <2>1. /\ missing' \in [Threads -> SUBSET Names]
          /\ pc' = [pc EXCEPT ![t] = "idle"]
      BY <1>6, ReturnNothingFacts
    <2>2. ThreadsOK'
      BY <1>1, <1>2, <1>6, <2>1 DEF ThreadsOK
    <2> QED BY <1>4, <1>5, <2>1, <2>2 DEF InMutex
  <1>7. CASE LookUp(t)
    <2>1. CASE ReturnNothing(t)
      BY <1>6, <1>7, <2>1 DEF LookUp
    <2>2. CASE name[t] \in DOMAIN mapping /\ Goto(t, "look in memory") /\ missing' = missing
      <3>1. ThreadsOK'
        BY <1>1, <1>2, <1>7, <2>2 DEF LookUp, Goto, ThreadsOK, Known
      <3> QED BY <1>4, <1>5, <2>2, <3>1 DEF Goto, InMutex
    <2> QED BY <1>7, <2>1, <2>2 DEF LookUp
  <1>8. CASE LookInMemory(t)
    <2>1. PICK where \in {"use", "open"} : pc' = [pc EXCEPT ![t] = where]
      BY <1>8 DEF LookInMemory, Goto
    <2>2. ThreadsOK'
      BY <1>1, <1>2, <1>8 DEF LookInMemory, Goto, ThreadsOK, MemoryOK
    <2> QED BY <1>4, <1>5, <2>1, <2>2 DEF InMutex
  <1>9. CASE Open(t)
    <2>1. CASE Entry(name[t]).file \in Gone
      BY <1>6, <1>9, <2>1 DEF Open
    <2>2. CASE Entry(name[t]).file \notin Gone
      <3>1. name[t] \in Known /\ Entry(name[t]).file \in Files
        BY <1>1, <1>9, EntryTyped DEF Open, ThreadsOK, Faces
      <3>2. ThreadsOK'
        BY <1>1, <1>2, <1>9, <2>2, <3>1 DEF Open, Goto, ThreadsOK
      <3> QED BY <1>4, <1>5, <1>9, <2>2, <3>2 DEF Open, Goto, InMutex
    <2> QED BY <2>1, <2>2
  <1> QED BY <1>7, <1>8, <1>9

LEMMA FacesReturned ==
    ASSUME Basics, NEW t \in Threads, NEW n \in Known \cap Names, NEW index \in Nat,
           NEW buffer \in Buffers, ReturnFace(t, n, index, buffer), Known' = Known
    PROVE  FacesOK(faces, Known)'
  <1>1. FacesOK(faces, Known)
    BY DEF Basics
  <1>2. [index |-> index, buffer |-> buffer] \in [index : Nat, buffer : Buffers]
    OBVIOUS
  <1>3. /\ DOMAIN faces' = Threads
        /\ DOMAIN faces'[t] = DOMAIN faces[t] \cup {n}
        /\ faces'[t][n] = [index |-> index, buffer |-> buffer]
        /\ \A m \in DOMAIN faces[t] : m # n => faces'[t][m] = faces[t][m]
        /\ \A u \in Threads : u # t => faces'[u] = faces[u]
    BY ReturnFaceFacts
  <1>4. SUFFICES ASSUME NEW u \in Threads, NEW m \in DOMAIN faces'[u]
                 PROVE  /\ m \in Known \cap Names
                        /\ faces'[u][m] \in [index : Nat, buffer : Buffers]
    BY <1>3 DEF FacesOK
  <1>5. CASE u = t /\ m = n
    BY <1>2, <1>3, <1>5
  <1>6. CASE ~ (u = t /\ m = n)
    <2>1. m \in DOMAIN faces[u] /\ faces'[u][m] = faces[u][m]
      BY <1>3, <1>4, <1>6
    <2> QED BY <1>1, <2>1 DEF FacesOK
  <1> QED BY <1>5, <1>6

LEMMA MapBuffers ==
    \A f \in LoadedByMap : MapBuffer(f) \in Buffers /\ MapBuffer(f) = [data |-> f, no |-> -1]
  BY ConstantFacts DEF LoadedByMap, MapBuffer, Buffers, Faces

LEMMA UseBasics ==
    ASSUME Basics, NEW t \in Threads, Use(t)
    PROVE  Basics'
  <1>1. ThreadsOK /\ FacesOK(faces, Known)
    BY DEF Basics
  <1>2. UNCHANGED <<shared, registrar, name, opened, calls>> /\ Known' = Known
    BY DEF Use, shared, Known
  <1>3. /\ name[t] \in Known \cap Names /\ held[t] \in Buffers
        /\ Entry(name[t]).index \in Nat
    BY <1>1, EntryTyped DEF Use, ThreadsOK, Faces
  <1>4. PICK where \in {"idle", "open"} : pc' = [pc EXCEPT ![t] = where]
    BY ReturnFaceFacts DEF Use, Goto
  <1>5. missing' = missing
    BY DEF Use, ReturnFace
  <1>6. ThreadsOK'
    BY <1>1, <1>2, <1>4, <1>5 DEF Use, ThreadsOK
  <1>7. FacesOK(faces, Known)'
    <2>1. CASE Usable(held[t], Entry(name[t]).index)
      BY <1>2, <1>3, <2>1, FacesReturned DEF Use
    <2>2. CASE ~Usable(held[t], Entry(name[t]).index)
      BY <1>1, <1>2, <2>2 DEF Use
    <2> QED BY <2>1, <2>2
  <1> QED BY <1>2, <1>4, <1>6, <1>7, AsideFacts DEF Use, InMutex

LEMMA GetFaceBasics ==
    ASSUME Basics, NEW t \in Threads, NEW n \in Names, GetFace(t, n)
    PROVE  Basics'
  <1>1. ThreadsOK /\ FacesOK(faces, Known)
    BY DEF Basics
  <1>2. UNCHANGED <<shared, registrar, held, opened>> /\ Known' = Known
    BY DEF GetFace, shared, Known
  <1>3. n \in DOMAIN MapFonts =>
          n \in Known /\ MapFonts[n].index \in Nat /\ MapFonts[n].file \in Files
    BY ConstantFacts DEF Known, Faces
  <1>a. calls[t] \in 0..MaxCalls /\ calls[t] < MaxCalls /\ MaxCalls \in Nat
    BY <1>1, FontsAssumption DEF GetFace, ThreadsOK
  <1>b. calls[t] + 1 \in 0..MaxCalls
    BY <1>a
  <1>4. /\ calls' \in [Threads -> 0..MaxCalls]
        /\ name' = [name EXCEPT ![t] = n]
        /\ pc[t] = "idle"
    BY <1>1, <1>b DEF GetFace, ThreadsOK
  <1> DEFINE face == MapFonts[n]
             loaded == /\ n \in DOMAIN MapFonts /\ face.file \in LoadedByMap
                       /\ Usable(MapBuffer(face.file), face.index)
  <1>5. CASE loaded
    <2>1. ReturnFace(t, n, face.index, MapBuffer(face.file))
      BY <1>5 DEF GetFace
    <2> HIDE DEF face
    <2>2. pc' = [pc EXCEPT ![t] = "idle"] /\ missing' = missing
      BY <2>1, ReturnFaceFacts
    <2>3. ThreadsOK'
      BY <1>1, <1>2, <1>4, <2>2 DEF ThreadsOK
    <2>4. FacesOK(faces, Known)'
      BY <1>2, <1>3, <1>5, <2>1, MapBuffers, FacesReturned DEF face
    <2> QED BY <1>2, <1>4, <2>2, <2>3, <2>4, AsideFacts DEF InMutex
  <1>6. CASE ~loaded
    <2>1. PICK where \in {"look up", "open"} :
            /\ pc' = [pc EXCEPT ![t] = where]
            /\ where = "look up" <=> n \notin DOMAIN MapFonts
      BY <1>6 DEF GetFace, Goto
    <2>2. UNCHANGED <<faces, missing>>
      BY <1>6 DEF GetFace
    <2>3. ThreadsOK'
      BY <1>1, <1>2, <1>3, <1>4, <2>1, <2>2 DEF ThreadsOK
    <2>4. FacesOK(faces, Known)'
      BY <1>1, <1>2, <2>2
    <2> QED BY <1>2, <1>4, <2>1, <2>3, <2>4, AsideFacts DEF InMutex
  <1> QED BY <1>5, <1>6

\* A step of a thread that takes the mutex, holds it or gives it back.
LEMMA InsideFacts ==
    ASSUME Basics, NEW t \in Threads, UNCHANGED <<mapping, registrar>>,
           mutex \in {t, "free"}, NEW where, pc' = [pc EXCEPT ![t] = where],
           \/ where \in InMutex /\ mutex' = t
           \/ where \notin InMutex /\ mutex' = "free",
           changing' \in {"none", "memory", changing},
           freed' \subseteq Buffers, loads' \in Nat,
           ThreadsOK', MemoryOK(memory)', FacesOK(faces, Known)'
    PROVE  Basics'
  <1>1. RegistryOK(mapping) /\ ScalarsOK /\ ThreadsOK /\ MutexOK
    BY DEF Basics
  <1>2. UNCHANGED <<mapping, todo, job>>
    BY DEF registrar
  <1>3. Registrar \notin Threads /\ "free" \notin Threads /\ Registrar # "free"
    BY ConstantFacts
  <1>4. RegistryOK(mapping)'
    BY <1>1, <1>2
  <1>5. changing # "mapping" /\ changing' \in {"none", "memory"}
    BY <1>1, <1>3 DEF MutexOK, ScalarsOK
  <1>6. ScalarsOK'
    BY <1>1, <1>2, <1>5 DEF ScalarsOK
  <1>7. \A u \in Threads : pc'[u] \in InMutex <=> mutex' = u
    <2>1. pc'[t] = where /\ \A u \in Threads : u # t => pc'[u] = pc[u]
      BY <1>1 DEF ThreadsOK
    <2>2. \A u \in Threads : u # t => pc[u] \notin InMutex
      BY <1>1, <1>3 DEF MutexOK
    <2> QED BY <1>3, <2>1, <2>2
  <1>8. MutexOK'
    BY <1>2, <1>3, <1>5, <1>7 DEF MutexOK
  <1> QED BY <1>4, <1>6, <1>8 DEF Basics

LEMMA MemoryStepsBasics ==
    ASSUME Basics, NEW t \in Threads,
           Lock(t) \/ Insert(t) \/ MakeFails(t) \/ Make(t) \/ Erase(t)
    PROVE  Basics'
  <1>1. MemoryOK(memory) /\ ScalarsOK /\ ThreadsOK /\ MutexOK /\ FacesOK(faces, Known)
    BY DEF Basics
  <1>2. name[t] \in Known
    BY <1>1 DEF Lock, Insert, MakeFails, Make, Erase, ThreadsOK
  <1>3. Entry(name[t]).file \in Files /\ Entry(name[t]).index \in Nat
    BY <1>2, EntryTyped DEF Faces
  <1>4. UNCHANGED <<mapping, registrar, name, calls>> /\ Known' = Known
    BY DEF Lock, Insert, MakeFails, Make, Erase, Known
  <1>5. mutex \in {t, "free"}
    BY <1>1 DEF Lock, Insert, MakeFails, Make, Erase, MutexOK, InMutex
  <1>6. faces' = faces => FacesOK(faces, Known)'
    BY <1>1, <1>4
  <1>7. memory' = memory => MemoryOK(memory)'
    BY <1>1
  <1>8. freed \subseteq Buffers /\ loads \in Nat
    BY <1>1 DEF ScalarsOK
  <1>10. CASE Lock(t)
    <2>1. PICK where \in {"make", "insert"} : pc' = [pc EXCEPT ![t] = where]
      BY <1>10 DEF Lock, Goto
    <2>2. ThreadsOK'
      BY <1>1, <1>4, <1>10 DEF Lock, Goto, ThreadsOK, MemoryOK
    <2>3. /\ mutex' = t /\ changing' \in {"memory", changing}
          /\ UNCHANGED <<memory, freed, loads, faces>>
      BY <1>10 DEF Lock
    <2> QED BY <1>4, <1>5, <1>6, <1>7, <1>8, <2>1, <2>2, <2>3, InsideFacts DEF InMutex
  <1>11. CASE Insert(t)
    <2> DEFINE file == Entry(name[t]).file
               buffer == [data |-> opened[t], no |-> loads]
    <2>1. memory' = With(memory, file, buffer) /\ held' = [held EXCEPT ![t] = buffer]
      BY <1>11 DEF Insert
    <2>2. buffer \in Buffers
      <3>1. opened[t] \in Files
        BY <1>1, <1>11 DEF Insert, ThreadsOK
      <3> QED BY <1>8, <3>1 DEF Buffers
    <2> HIDE DEF file, buffer
    <2>3. MemoryOK(memory)'
      BY <1>1, <1>3, <2>1, <2>2 DEF MemoryOK, With, file
    <2>4. ThreadsOK'
      BY <1>1, <1>4, <1>11, <2>1, <2>2 DEF Insert, Goto, ThreadsOK
    <2>5. /\ mutex' = t /\ changing' = "none" /\ pc' = [pc EXCEPT ![t] = "make"]
          /\ freed' = freed /\ faces' = faces /\ loads' \in Nat
      BY <1>1, <1>8, <1>11 DEF Insert, Goto, MutexOK, InMutex
    <2> QED BY <1>4, <1>5, <1>6, <1>8, <2>3, <2>4, <2>5, InsideFacts DEF InMutex
  <1>12. CASE MakeFails(t)
    <2>1. ThreadsOK'
      BY <1>1, <1>4, <1>12 DEF MakeFails, Goto, ThreadsOK
    <2>2. /\ mutex' = t /\ changing' = "memory" /\ pc' = [pc EXCEPT ![t] = "erase"]
          /\ UNCHANGED <<memory, freed, loads, faces>>
      BY <1>1, <1>12 DEF MakeFails, Goto, MutexOK, InMutex
    <2> QED BY <1>4, <1>5, <1>6, <1>7, <1>8, <2>1, <2>2, InsideFacts DEF InMutex
  <1>13. CASE Make(t)
    <2>1. ReturnFace(t, name[t], Entry(name[t]).index, held[t])
      BY <1>13 DEF Make
    <2>2. pc' = [pc EXCEPT ![t] = "idle"] /\ missing' = missing
      BY <2>1, ReturnFaceFacts
    <2>3. ThreadsOK'
      BY <1>1, <1>4, <1>13, <2>2 DEF Make, ThreadsOK
    <2>4. name[t] \in Known \cap Names /\ held[t] \in Buffers
      BY <1>1, <1>2, <1>13 DEF Make, ThreadsOK
    <2>5. FacesOK(faces, Known)'
      BY <1>3, <1>4, <2>1, <2>4, FacesReturned
    <2>6. mutex' = "free" /\ UNCHANGED <<memory, changing, freed, loads>>
      BY <1>13 DEF Make
    <2> QED BY <1>4, <1>5, <1>7, <1>8, <2>2, <2>3, <2>5, <2>6, InsideFacts DEF InMutex
  <1>14. CASE Erase(t)
    <2>1. ReturnNothing(t)
      BY <1>14 DEF Erase
    <2>2. ThreadsOK'
      <3>1. /\ missing' \in [Threads -> SUBSET Names]
            /\ pc' = [pc EXCEPT ![t] = "idle"]
        BY <2>1, ReturnNothingFacts
      <3>2. /\ held' = [held EXCEPT ![t] = NoBuffer]
            /\ opened' = [opened EXCEPT ![t] = NoFile]
        BY <1>14 DEF Erase
      <3> QED BY <1>1, <1>4, <3>1, <3>2 DEF ThreadsOK
    <2>3. MemoryOK(memory)'
      BY <1>1, <1>14 DEF Erase, MemoryOK, Without
    <2>4. held[t] \in Buffers
      BY <1>1, <1>14 DEF Erase, ThreadsOK
    <2>5. /\ mutex' = "free" /\ changing' = "none" /\ loads' = loads
          /\ freed' \subseteq Buffers /\ faces' = faces
          /\ pc' = [pc EXCEPT ![t] = "idle"]
      BY <1>8, <1>14, <2>1, <2>4, ReturnNothingFacts DEF Erase
    <2> QED BY <1>4, <1>5, <1>6, <1>8, <2>2, <2>3, <2>5, InsideFacts DEF InMutex
  <1> QED BY <1>10, <1>11, <1>12, <1>13, <1>14

\* A step of register_font: the threads stay where they are, and the registry
\* loses no name.
LEMMA RegistrarFacts ==
    ASSUME Basics, UNCHANGED <<thread, memory, freed, loads>>,
           DOMAIN mapping \subseteq DOMAIN mapping',
           RegistryOK(mapping)', ScalarsOK', MutexOK'
    PROVE  Basics'
  <1>1. MemoryOK(memory) /\ ThreadsOK /\ FacesOK(faces, Known)
    BY DEF Basics
  <1>2. UNCHANGED <<pc, name, held, opened, faces, missing, calls, memory>>
    BY DEF thread
  <1>3. Known \subseteq Known'
    BY DEF Known
  <1>4. ThreadsOK'
    BY <1>1, <1>2, <1>3 DEF ThreadsOK
  <1>5. FacesOK(faces, Known)'
    <2>1. FacesOK(faces, Known')
      BY <1>1, <1>3 DEF FacesOK
    <2> QED BY <1>2, <2>1 DEF FacesOK
  <1>6. MemoryOK(memory)'
    BY <1>1, <1>2
  <1> QED BY <1>4, <1>5, <1>6 DEF Basics

LEMMA RegistrarBasics ==
    ASSUME Basics, RegisterFaces \/ \E f \in Late : Register(f)
    PROVE  Basics'
  <1>1. RegistryOK(mapping) /\ ScalarsOK /\ MutexOK
    BY DEF Basics
  <1>2. UNCHANGED <<thread, memory, freed, loads, pc>>
    BY DEF RegisterFaces, Register, SkipFace, ReplaceFace, BeginAddingFace, AddFace,
           FileRegistered, shared, thread
  <1>3. Registrar \notin Threads /\ "free" \notin Threads /\ Registrar # "free"
    BY ConstantFacts
  <1>4. mapping' = mapping => RegistryOK(mapping)'
    BY <1>1
  <1>j. job \in [file : Files \cup {NoFile}, done : Nat]
    BY <1>1 DEF ScalarsOK
  <1>5. ASSUME NEW f \in Late, Register(f)
        PROVE  Basics'
    <2>1. /\ UNCHANGED <<mapping, changing>> /\ mutex' = Registrar /\ mutex = "free"
          /\ todo' = todo \ {f} /\ job' = [file |-> f, done |-> 0] /\ f \in todo
      BY <1>5 DEF Register
    <2>2. f \in Files /\ todo' # Late
      BY <1>1, <2>1, ConstantFacts DEF ScalarsOK
    <2>3. ScalarsOK'
      BY <1>1, <1>2, <2>1, <2>2 DEF ScalarsOK
    <2>4. MutexOK'
      BY <1>1, <1>2, <1>3, <2>1, <2>2 DEF MutexOK
    <2> QED BY <1>2, <1>4, <2>1, <2>3, <2>4, RegistrarFacts
  <1>6. ASSUME FaceDone
        PROVE  job' \in [file : Files \cup {NoFile}, done : Nat] /\ job'.file = job.file
    BY <1>6, <1>j DEF FaceDone
  <1>7. CASE SkipFace
    <2>1. /\ UNCHANGED <<mapping, mutex, changing, todo>> /\ FaceDone
          /\ mutex = Registrar /\ Skipped(NextName)
      BY <1>7 DEF SkipFace, shared, Registering
    <2>2. ScalarsOK'
      BY <1>1, <1>2, <1>6, <2>1 DEF ScalarsOK
    <2>3. changing # "mapping"
      BY <1>1, <2>1 DEF MutexOK, Skipped
    <2>4. MutexOK'
      BY <1>1, <1>2, <1>6, <2>1, <2>3 DEF MutexOK
    <2> QED BY <1>2, <1>4, <2>1, <2>2, <2>4, RegistrarFacts
  <1>8. CASE ReplaceFace
    <2>1. /\ UNCHANGED <<mutex, changing, todo>> /\ FaceDone
          /\ Registering /\ mutex = Registrar /\ NextName \in DOMAIN mapping
          /\ mapping' = [mapping EXCEPT ![NextName] = NextFace]
      BY <1>8 DEF ReplaceFace, Registering
    <2>2. ScalarsOK'
      BY <1>1, <1>2, <1>6, <2>1 DEF ScalarsOK
    <2>3. changing # "mapping"
      BY <1>1, <2>1 DEF MutexOK
    <2>4. MutexOK'
      BY <1>1, <1>2, <1>6, <2>1, <2>3 DEF MutexOK
    <2>5. /\ DOMAIN mapping' = DOMAIN mapping /\ mapping'[NextName] = NextFace
          /\ \A n \in DOMAIN mapping : n # NextName => mapping'[n] = mapping[n]
      BY <2>1
    <2>6. RegistryOK(mapping)'
      BY <1>1, <2>1, <2>5, NextIsRegistrable DEF RegistryOK
    <2> QED BY <1>2, <2>2, <2>4, <2>5, <2>6, RegistrarFacts
  <1>9. CASE BeginAddingFace
    <2>1. /\ UNCHANGED <<mapping, mutex, todo, job>> /\ changing' = "mapping"
          /\ Registering /\ NextName \in Names /\ NextName \notin DOMAIN mapping
      BY <1>9 DEF BeginAddingFace, registrar, Skipped
    <2>2. ScalarsOK'
      BY <1>1, <1>2, <2>1 DEF ScalarsOK
    <2>3. MutexOK'
      BY <1>1, <1>2, <2>1 DEF MutexOK, Registering, NextName
    <2> QED BY <1>2, <1>4, <2>1, <2>2, <2>3, RegistrarFacts
  <1>10. CASE AddFace
    <2>1. /\ UNCHANGED <<mutex, todo>> /\ FaceDone /\ changing' = "none"
          /\ Registering /\ mutex = Registrar /\ changing = "mapping"
          /\ mapping' = With(mapping, NextName, NextFace)
      BY <1>10 DEF AddFace, Registering
    <2>2. ScalarsOK'
      BY <1>1, <1>2, <1>6, <2>1 DEF ScalarsOK
    <2>3. MutexOK'
      BY <1>1, <1>2, <1>6, <2>1 DEF MutexOK
    <2>4. NextName \in Names
      BY <1>1, <2>1 DEF MutexOK
    <2>5. /\ DOMAIN mapping' = DOMAIN mapping \cup {NextName}
          /\ mapping'[NextName] = NextFace
          /\ \A n \in DOMAIN mapping : n # NextName => mapping'[n] = mapping[n]
      BY <2>1 DEF With
    <2>6. RegistryOK(mapping)'
      BY <1>1, <2>1, <2>4, <2>5, NextIsRegistrable DEF RegistryOK
    <2> QED BY <1>2, <2>2, <2>3, <2>5, <2>6, RegistrarFacts
  <1>11. CASE FileRegistered
    <2>1. /\ UNCHANGED <<mapping, changing, todo>> /\ mutex' = "free" /\ mutex = Registrar
          /\ job' = [file |-> NoFile, done |-> 0] /\ job.done = Len(Disk[job.file])
      BY <1>11 DEF FileRegistered
    <2>2. ScalarsOK'
      BY <1>1, <1>2, <2>1 DEF ScalarsOK
    <2>3. changing # "mapping"
      BY <1>1, <1>j, <2>1 DEF MutexOK
    <2>4. MutexOK'
      BY <1>1, <1>2, <1>3, <2>1, <2>3 DEF MutexOK
    <2> QED BY <1>2, <1>4, <2>1, <2>2, <2>4, RegistrarFacts
  <1> QED BY <1>5, <1>7, <1>8, <1>9, <1>10, <1>11 DEF RegisterFaces

LEMMA BasicsStep ==
    ASSUME Basics, [Next]_vars PROVE Basics'
  <1>1. ASSUME NEW t \in Threads, Create(t) PROVE Basics'
    BY <1>1, LookingStepsBasics, UseBasics, MemoryStepsBasics DEF Create
  <1>2. ASSUME NEW t \in Threads, NEW n \in Names, GetFace(t, n) PROVE Basics'
    BY <1>2, GetFaceBasics
  <1>3. CASE RegisterFaces \/ \E f \in Late : Register(f)
    BY <1>3, RegistrarBasics
  <1>4. CASE UNCHANGED vars
    <2>1. UNCHANGED <<mapping, memory, mutex, changing, freed, loads, todo, job,
                      pc, name, held, opened, faces, missing, calls>>
      BY <1>4 DEF vars, shared, registrar, thread
    <2> QED BY <2>1 DEF Basics, RegistryOK, MemoryOK, FacesOK, ScalarsOK, ThreadsOK,
                        MutexOK, Known, NextName
  <1> QED BY <1>1, <1>2, <1>3, <1>4 DEF Next

\* Everything has its type: for all fonts, threads and maps.
THEOREM FontTypes == Spec => []TypeOK
  <1>1. Spec => []Basics
    BY InitBasics, BasicsStep, PTL DEF Spec
  <1> QED BY <1>1, BasicsTyped, PTL

-----------------------------------------------------------------------------
(* While nobody gives a name to another face, what a thread has read of an *)
(* entry stays true: the file it opened and the data it found are those of *)
(* the name it was asked for.                                              *)

Settled == Stable \/ todo = Late

EntryIn(map, n) == IF n \in DOMAIN MapFonts THEN MapFonts[n] ELSE map[n]

MemoryNamed(map) == \A f \in DOMAIN map : map[f].data = f

FacesNamed(cache, map) ==
    \A t \in Threads : \A n \in DOMAIN cache[t] :
        /\ cache[t][n].index = EntryIn(map, n).index
        /\ cache[t][n].buffer.data = EntryIn(map, n).file
        /\ Sound(EntryIn(map, n))

\* Where a thread stands, which has found the given face and refers to the
\* given data and file.
PathOK(where, face, buffer, file, mem) ==
    /\ where = "use" => buffer.data = face.file
    /\ where \in {"lock", "insert", "make", "erase"} => file = face.file
    /\ where = "insert" => face.file \notin DOMAIN mem
    /\ where \in {"make", "erase"} => face.file \in DOMAIN mem /\ buffer = mem[face.file]
    /\ where = "erase" => ~Sound(face)

PathsOK ==
    \A t \in Threads :
        PathOK(pc[t], EntryIn(mapping, name[t]), held[t], opened[t], memory)

DataOK == MemoryNamed(memory) /\ FacesNamed(faces, mapping) /\ PathsOK

LEMMA EntryIs == \A n : Entry(n) = EntryIn(mapping, n)
  BY DEF Entry, EntryIn

LEMMA EntryStays ==
    ASSUME Basics, [Next]_vars, Settled'
    PROVE  /\ Settled
           /\ todo' = Late => todo = Late /\ mapping' = mapping
           /\ \A n \in Known : EntryIn(mapping', n) = EntryIn(mapping, n)
  <1>1. ScalarsOK /\ MutexOK /\ RegistryOK(mapping)
    BY DEF Basics
  <1>2. todo' = todo \/ \E f \in todo : todo' = todo \ {f}
    BY DEF Next, vars, Create, GetFace, LookUp, LookInMemory, Use, Open, Lock, Insert, Make,
           MakeFails, Erase, RegisterFaces, SkipFace, ReplaceFace, BeginAddingFace, AddFace,
           FileRegistered, Register, registrar
  <1>3. todo' = Late => todo = Late
    BY <1>1, <1>2 DEF ScalarsOK
  <1>4. Settled
    BY <1>3 DEF Settled
  <1>5. mapping' = mapping \/ ReplaceFace \/ AddFace
    BY DEF Next, vars, Create, GetFace, LookUp, LookInMemory, Use, Open, Lock, Insert, Make,
           MakeFails, Erase, RegisterFaces, SkipFace, BeginAddingFace,
           FileRegistered, Register, shared
  <1>m. todo' = Late => mapping' = mapping
    BY <1>1, <1>3, <1>5 DEF ReplaceFace, AddFace, Registering, MutexOK
  <1>6. CASE mapping' = mapping
    BY <1>3, <1>4, <1>6
  <1>7. CASE ReplaceFace
    <2>1. /\ Registering /\ mutex = Registrar /\ NextName \in DOMAIN mapping
          /\ mapping' = [mapping EXCEPT ![NextName] = NextFace]
      BY <1>7 DEF ReplaceFace, Registering
    <2>2. Stable
      BY <1>1, <1>3, <2>1 DEF Settled, MutexOK
    <2>3. /\ <<NextName, NextFace>> \in InRegistry
          /\ <<NextName, mapping[NextName]>> \in InRegistry
      BY <1>1, <2>1, NextIsRegistrable DEF RegistryOK
    <2> DEFINE x == NextName  y == NextFace  z == mapping[NextName]
    <2>4. x = x => y = z
      <3> HIDE DEF x, y, z
      <3>1. <<x, y>>[1] = <<x, z>>[1] => <<x, y>>[2] = <<x, z>>[2]
        BY <2>2, <2>3 DEF Stable, x, y, z
      <3> QED BY <3>1
    <2>5. \A n \in DOMAIN mapping : mapping'[n] = mapping[n]
      BY <2>1, <2>4
    <2> QED BY <1>3, <1>m, <1>4, <2>5 DEF Known, EntryIn
  <1>8. CASE AddFace
    <2>1. mapping' = With(mapping, NextName, NextFace) /\ changing = "mapping"
      BY <1>8 DEF AddFace
    <2>2. NextName \notin DOMAIN mapping
      BY <1>1, <2>1 DEF MutexOK
    <2>3. \A n \in DOMAIN mapping : mapping'[n] = mapping[n]
      BY <2>1, <2>2 DEF With
    <2> QED BY <1>3, <1>m, <1>4, <2>3 DEF Known, EntryIn
  <1> QED BY <1>5, <1>6, <1>7, <1>8

\* Data of the right file serves for the face as the file itself would.
LEMMA UsableIsSound ==
    ASSUME NEW face, NEW buffer, buffer.data = face.file
    PROVE  Usable(buffer, face.index) <=> Sound(face)
  BY DEF Usable, Sound

LEMMA InitData == Init => DataOK
  BY DEF Init, DataOK, MemoryNamed, FacesNamed, PathsOK, PathOK

LEMMA FacesReturnedNamed ==
    ASSUME Basics, FacesNamed(faces, mapping), NEW t \in Threads, NEW n, NEW buffer,
           ReturnFace(t, n, EntryIn(mapping, n).index, buffer),
           buffer.data = EntryIn(mapping, n).file, Sound(EntryIn(mapping, n))
    PROVE  FacesNamed(faces', mapping)
  <1> DEFINE index == EntryIn(mapping, n).index
             value == [index |-> index, buffer |-> buffer]
  <1>1. /\ DOMAIN faces'[t] = DOMAIN faces[t] \cup {n}
        /\ faces'[t][n] = value
        /\ \A m \in DOMAIN faces[t] : m # n => faces'[t][m] = faces[t][m]
        /\ \A u \in Threads : u # t => faces'[u] = faces[u]
    BY ReturnFaceFacts
  <1>2. value.index = index /\ value.buffer = buffer
    OBVIOUS
  <1> HIDE DEF value
  <1>3. SUFFICES ASSUME NEW u \in Threads, NEW m \in DOMAIN faces'[u]
                 PROVE  /\ faces'[u][m].index = EntryIn(mapping, m).index
                        /\ faces'[u][m].buffer.data = EntryIn(mapping, m).file
                        /\ Sound(EntryIn(mapping, m))
    BY DEF FacesNamed
  <1>4. CASE u = t /\ m = n
    BY <1>1, <1>2, <1>4
  <1>5. CASE ~ (u = t /\ m = n)
    <2>1. m \in DOMAIN faces[u] /\ faces'[u][m] = faces[u][m]
      BY <1>1, <1>3, <1>5
    <2> QED BY <2>1 DEF FacesNamed
  <1> QED BY <1>4, <1>5

\* A step of a thread: it is the only one to change its place, and the font
\* data changes in no step of a thread that does not hold the mutex.
LEMMA ThreadAlone ==
    ASSUME Basics, NEW t \in Threads, Create(t) \/ \E n \in Names : GetFace(t, n)
    PROVE  /\ mapping' = mapping /\ todo' = todo
           /\ \A u \in Threads : u # t =>
                /\ pc'[u] = pc[u] /\ name'[u] = name[u]
                /\ held'[u] = held[u] /\ opened'[u] = opened[u]
                /\ missing'[u] = missing[u]
           /\ memory' = memory \/ \A u \in Threads : u # t => pc[u] \notin InMutex
  <1>1. ThreadsOK /\ MutexOK
    BY DEF Basics
  <1>2. mapping' = mapping /\ todo' = todo
    BY DEF Create, GetFace, LookUp, LookInMemory, Use, Open, Lock, Insert, Make,
           MakeFails, Erase, shared, registrar
  <1>3. \A u \in Threads : u # t =>
          /\ pc'[u] = pc[u] /\ name'[u] = name[u]
          /\ held'[u] = held[u] /\ opened'[u] = opened[u]
          /\ missing'[u] = missing[u]
    BY <1>1 DEF Create, GetFace, LookUp, LookInMemory, Use, Open, Lock, Insert, Make,
                MakeFails, Erase, Goto, ReturnFace, ReturnNothing, ThreadsOK
  <1>4. memory' = memory \/ pc[t] \in InMutex
    BY DEF Create, GetFace, LookUp, LookInMemory, Use, Open, Lock, Insert, Make,
           MakeFails, Erase, shared, InMutex
  <1>5. pc[t] \in InMutex => \A u \in Threads : u # t => pc[u] \notin InMutex
    BY <1>1 DEF MutexOK
  <1> QED BY <1>2, <1>3, <1>4, <1>5

\* What is left to show of such a step.
LEMMA DataOfThread ==
    ASSUME Basics, DataOK, NEW t \in Threads, Create(t) \/ \E n \in Names : GetFace(t, n),
           MemoryNamed(memory'), FacesNamed(faces', mapping),
           PathOK(pc'[t], EntryIn(mapping, name'[t]), held'[t], opened'[t], memory')
    PROVE  DataOK'
  <1>1. /\ mapping' = mapping
        /\ \A u \in Threads : u # t =>
             /\ pc'[u] = pc[u] /\ name'[u] = name[u]
             /\ held'[u] = held[u] /\ opened'[u] = opened[u]
        /\ memory' = memory \/ \A u \in Threads : u # t => pc[u] \notin InMutex
    BY ThreadAlone
  <1>2. ASSUME NEW u \in Threads
        PROVE  PathOK(pc'[u], EntryIn(mapping', name'[u]), held'[u], opened'[u], memory')
    <2>1. PathOK(pc[u], EntryIn(mapping, name[u]), held[u], opened[u], memory)
      BY DEF DataOK, PathsOK
    <2>2. CASE u = t
      BY <1>1, <2>2
    <2>3. CASE u # t
      <3>1. PathOK(pc[u], EntryIn(mapping, name[u]), held[u], opened[u], memory')
        BY <1>1, <2>1, <2>3 DEF PathOK, InMutex
      <3> QED BY <1>1, <2>3, <3>1
    <2> QED BY <2>2, <2>3
  <1>3. PathsOK'
    BY <1>2 DEF PathsOK
  <1> QED BY <1>1, <1>3 DEF DataOK

LEMMA GetFaceData ==
    ASSUME Basics, DataOK, NEW t \in Threads, NEW n \in Names, GetFace(t, n)
    PROVE  DataOK'
  <1>1. MemoryNamed(memory) /\ FacesNamed(faces, mapping) /\ ThreadsOK
    BY DEF Basics, DataOK
  <1>2. memory' = memory
    BY DEF GetFace, shared
  <1> DEFINE face == MapFonts[n]
             loaded == /\ n \in DOMAIN MapFonts /\ face.file \in LoadedByMap
                       /\ Usable(MapBuffer(face.file), face.index)
  <1>3. CASE loaded
    <2>1. ReturnFace(t, n, face.index, MapBuffer(face.file)) /\ EntryIn(mapping, n) = face
      BY <1>3 DEF GetFace, EntryIn
    <2> DEFINE buffer == MapBuffer(face.file)
    <2>2. buffer.data = face.file
      BY DEF MapBuffer
    <2>3. Usable(buffer, face.index)
      BY <1>3
    <2> HIDE DEF face, buffer
    <2>4. Sound(face)
      BY <2>2, <2>3, UsableIsSound
    <2>5. ReturnFace(t, n, EntryIn(mapping, n).index, buffer)
      BY <2>1 DEF buffer
    <2>6. FacesNamed(faces', mapping)
      BY <1>1, <2>1, <2>2, <2>4, <2>5, FacesReturnedNamed
    <2>7. pc'[t] = "idle"
      BY <1>1, <2>5, ReturnFaceFacts DEF ThreadsOK
    <2>8. PathOK(pc'[t], EntryIn(mapping, name'[t]), held'[t], opened'[t], memory')
      BY <2>7 DEF PathOK
    <2> QED BY <1>1, <1>2, <2>6, <2>8, DataOfThread
  <1>4. CASE ~loaded
    <2>1. faces' = faces /\ pc'[t] \in {"look up", "open"}
      BY <1>1, <1>4 DEF GetFace, Goto, ThreadsOK
    <2>2. PathOK(pc'[t], EntryIn(mapping, name'[t]), held'[t], opened'[t], memory')
      BY <2>1 DEF PathOK
    <2> QED BY <1>1, <1>2, <2>1, <2>2, DataOfThread
  <1> QED BY <1>3, <1>4

LEMMA CreateData ==
    ASSUME Basics, DataOK, NEW t \in Threads, Create(t)
    PROVE  DataOK'
  <1> DEFINE face == EntryIn(mapping, name[t])
  <1>1. /\ MemoryNamed(memory) /\ FacesNamed(faces, mapping) /\ ThreadsOK
        /\ PathOK(pc[t], face, held[t], opened[t], memory)
    BY DEF Basics, DataOK, PathsOK
  <1>2. Entry(name[t]) = face
    BY EntryIs
  <1> HIDE DEF face
  <1>3. name'[t] = name[t]
    BY DEF Create, LookUp, LookInMemory, Use, Open, Lock, Insert, Make, MakeFails, Erase
  <1> DEFINE Path == PathOK(pc'[t], face, held'[t], opened'[t], memory')
  <1>4. SUFFICES MemoryNamed(memory') /\ FacesNamed(faces', mapping) /\ Path
    BY <1>3, DataOfThread DEF face
  <1>5. CASE LookUp(t)
    <2>1. memory' = memory /\ faces' = faces /\ pc'[t] \in {"look in memory", "idle"}
      BY <1>1, <1>5 DEF LookUp, Goto, ReturnNothing, shared, ThreadsOK
    <2>2. Path
      BY <2>1 DEF PathOK
    <2> QED BY <1>1, <2>1, <2>2
  <1>6. CASE LookInMemory(t)
    <2>1. memory' = memory /\ faces' = faces
      BY <1>6 DEF LookInMemory, shared
    <2>2. \/ pc'[t] = "open"
          \/ pc'[t] = "use" /\ face.file \in DOMAIN memory /\ held'[t] = memory[face.file]
      BY <1>1, <1>2, <1>6 DEF LookInMemory, Goto, ThreadsOK
    <2>3. Path
      BY <1>1, <2>2 DEF PathOK, MemoryNamed
    <2> QED BY <1>1, <2>1, <2>3
  <1>7. CASE Use(t)
    <2>1. memory' = memory /\ held[t].data = face.file
      BY <1>1, <1>7 DEF Use, shared, PathOK
    <2>2. CASE Usable(held[t], face.index)
      <3>1. ReturnFace(t, name[t], face.index, held[t])
        BY <1>2, <1>7, <2>2 DEF Use
      <3>2. Sound(face)
        BY <2>1, <2>2, UsableIsSound
      <3>3. FacesNamed(faces', mapping)
        BY <1>1, <2>1, <3>1, <3>2, FacesReturnedNamed DEF face
      <3>4. pc'[t] = "idle"
        BY <1>1, <3>1, ReturnFaceFacts DEF ThreadsOK
      <3> QED BY <1>1, <2>1, <3>3, <3>4 DEF PathOK
    <2>3. CASE ~Usable(held[t], face.index)
      <3>1. faces' = faces /\ pc'[t] = "open"
        BY <1>1, <1>2, <1>7, <2>3 DEF Use, Goto, ThreadsOK
      <3> QED BY <1>1, <2>1, <3>1 DEF PathOK
    <2> QED BY <2>2, <2>3
  <1>8. CASE Open(t)
    <2>1. memory' = memory /\ faces' = faces
      BY <1>8 DEF Open, ReturnNothing, shared
    <2>2. pc'[t] = "idle" \/ (pc'[t] = "lock" /\ opened'[t] = face.file)
      <3>1. CASE face.file \in Gone
        BY <1>1, <1>2, <1>8, <3>1 DEF Open, ReturnNothing, Goto, ThreadsOK
      <3>2. CASE face.file \notin Gone
        BY <1>1, <1>2, <1>8, <3>2 DEF Open, Goto, ThreadsOK
      <3> QED BY <3>1, <3>2
    <2>3. Path
      BY <2>2 DEF PathOK
    <2> QED BY <1>1, <2>1, <2>3
  <1>9. CASE Lock(t)
    <2>1. memory' = memory /\ faces' = faces /\ opened'[t] = face.file
      BY <1>1, <1>9 DEF Lock, PathOK
    <2>2. \/ pc'[t] = "insert" /\ face.file \notin DOMAIN memory
          \/ /\ pc'[t] = "make" /\ face.file \in DOMAIN memory
             /\ held'[t] = memory[face.file]
      BY <1>1, <1>2, <1>9 DEF Lock, Goto, ThreadsOK
    <2>3. Path
      BY <2>1, <2>2 DEF PathOK
    <2> QED BY <1>1, <2>1, <2>3
  <1>10. CASE Insert(t)
    <2> DEFINE buffer == [data |-> opened[t], no |-> loads]
    <2>1. /\ memory' = With(memory, face.file, buffer) /\ held'[t] = buffer
          /\ faces' = faces /\ pc'[t] = "make" /\ opened'[t] = opened[t]
      BY <1>1, <1>2, <1>10 DEF Insert, Goto, ThreadsOK
    <2>2. buffer.data = face.file /\ opened[t] = face.file
      BY <1>1, <1>10 DEF Insert, PathOK
    <2> HIDE DEF buffer
    <2>3. MemoryNamed(memory')
      BY <1>1, <2>1, <2>2 DEF MemoryNamed, With
    <2>4. face.file \in DOMAIN memory' /\ memory'[face.file] = buffer
      BY <2>1 DEF With
    <2>5. Path
      BY <2>1, <2>2, <2>4 DEF PathOK
    <2> QED BY <1>1, <2>1, <2>3, <2>5
  <1>11. CASE Make(t)
    <2>1. memory' = memory /\ ReturnFace(t, name[t], face.index, held[t])
      BY <1>2, <1>11 DEF Make
    <2>2. held[t].data = face.file /\ Usable(held[t], face.index)
      BY <1>1, <1>2, <1>11 DEF Make, PathOK, MemoryNamed
    <2>3. Sound(face)
      BY <2>2, UsableIsSound
    <2>4. FacesNamed(faces', mapping)
      BY <1>1, <2>1, <2>2, <2>3, FacesReturnedNamed DEF face
    <2>5. pc'[t] = "idle"
      BY <1>1, <2>1, ReturnFaceFacts DEF ThreadsOK
    <2> QED BY <1>1, <2>1, <2>4, <2>5 DEF PathOK
  <1>12. CASE MakeFails(t)
    <2>1. UNCHANGED <<memory, faces, held, opened>> /\ pc[t] = "make" /\ pc'[t] = "erase"
      BY <1>1, <1>12 DEF MakeFails, Goto, ThreadsOK
    <2>2. held[t].data = face.file /\ ~Usable(held[t], face.index)
      BY <1>1, <1>2, <1>12 DEF MakeFails, PathOK, MemoryNamed
    <2>3. ~Sound(face)
      BY <2>2, UsableIsSound
    <2>4. Path
      BY <1>1, <2>1, <2>3 DEF PathOK
    <2> QED BY <1>1, <2>1, <2>4
  <1>13. CASE Erase(t)
    <2>1. memory' = Without(memory, face.file) /\ faces' = faces /\ pc'[t] = "idle"
      BY <1>1, <1>2, <1>13 DEF Erase, ReturnNothing, Goto, ThreadsOK
    <2>2. MemoryNamed(memory')
      BY <1>1, <2>1 DEF MemoryNamed, Without
    <2>3. Path
      BY <2>1 DEF PathOK
    <2> QED BY <1>1, <2>1, <2>2, <2>3
  <1> QED BY <1>5, <1>6, <1>7, <1>8, <1>9, <1>10, <1>11, <1>12, <1>13 DEF Create

LEMMA RegisterKeeps ==
    ASSUME RegisterFaces \/ (\E f \in Late : Register(f)) \/ UNCHANGED vars
    PROVE  UNCHANGED <<memory, freed, pc, name, held, opened, faces, missing>>
  BY DEF RegisterFaces, Register, SkipFace, ReplaceFace, BeginAddingFace, AddFace,
         FileRegistered, vars, shared, thread

LEMMA DataStep ==
    ASSUME Basics, Settled => DataOK, [Next]_vars
    PROVE  Settled' => DataOK'
  <1> SUFFICES ASSUME Settled' PROVE DataOK'
    OBVIOUS
  <1>1. DataOK /\ \A n \in Known : EntryIn(mapping', n) = EntryIn(mapping, n)
    BY EntryStays
  <1>2. ASSUME NEW t \in Threads, Create(t) \/ \E n \in Names : GetFace(t, n)
        PROVE  DataOK'
    BY <1>1, <1>2, CreateData, GetFaceData
  <1>3. CASE RegisterFaces \/ (\E f \in Late : Register(f)) \/ UNCHANGED vars
    <2>1. UNCHANGED <<memory, pc, name, held, opened, faces>>
      BY <1>3, RegisterKeeps
    <2>2. ThreadsOK /\ FacesOK(faces, Known)
      BY DEF Basics
    <2>3. MemoryNamed(memory)'
      BY <1>1, <2>1 DEF DataOK
    <2>4. FacesNamed(faces, mapping')
      BY <1>1, <2>2 DEF DataOK, FacesNamed, FacesOK
    <2>5. ASSUME NEW t \in Threads
          PROVE  PathOK(pc[t], EntryIn(mapping', name[t]), held[t], opened[t], memory)
      <3>1. PathOK(pc[t], EntryIn(mapping, name[t]), held[t], opened[t], memory)
        BY <1>1 DEF DataOK, PathsOK
      <3>2. CASE pc[t] \in {"idle", "look up"}
        BY <3>2 DEF PathOK
      <3>3. CASE pc[t] \notin {"idle", "look up"}
        BY <1>1, <2>2, <3>1, <3>3 DEF ThreadsOK
      <3> QED BY <3>2, <3>3
    <2>6. PathsOK'
      BY <2>1, <2>5 DEF PathsOK
    <2>7. FacesNamed(faces, mapping)'
      BY <2>1, <2>4
    <2> QED BY <2>3, <2>6, <2>7 DEF DataOK
  <1> QED BY <1>2, <1>3 DEF Next

LEMMA NamedAsRegistered == DataOK => FaceAsNamed
  <1> SUFFICES ASSUME DataOK, NEW t \in Threads, NEW n \in DOMAIN faces[t]
               PROVE  /\ faces[t][n].index = Entry(n).index
                      /\ faces[t][n].buffer.data = Entry(n).file
    BY DEF FaceAsNamed
  <1> QED BY EntryIs DEF DataOK, FacesNamed

\* A face is the one its name stands for, made from the data of its file: as
\* long as fonts are registered again as they were.
THEOREM FacesAreTheNamed == Spec => []FaceAsNamed
  <1> DEFINE Inv == Basics /\ (Settled => DataOK)
  <1>1. Init => Inv
    BY InitBasics, InitData
  <1>2. Inv /\ [Next]_vars => Inv'
    <2> SUFFICES ASSUME Inv, [Next]_vars PROVE Inv'
      OBVIOUS
    <2>1. Basics'
      BY BasicsStep
    <2>2. Settled' => DataOK'
      BY DataStep
    <2> QED BY <2>1, <2>2
  <1>3. Inv => FaceAsNamed
    BY NamedAsRegistered DEF Settled, FaceAsNamed
  <1> QED BY <1>1, <1>2, <1>3, PTL DEF Spec

-----------------------------------------------------------------------------
(* What create_face returns nothing for *)

MissedOK(lost, map) ==
    \A t \in Threads : \A n \in lost[t] :
        n \in DOMAIN MapFonts \cup DOMAIN map =>
            EntryIn(map, n).file \in Gone \/ ~Sound(EntryIn(map, n))

\* Nobody registers a font, so that a name looked for and not found is none
\* that the engine has.
LEMMA MissedByThread ==
    ASSUME Basics, DataOK, todo = Late, MissedOK(missing, mapping),
           NEW t \in Threads, Create(t) \/ \E n \in Names : GetFace(t, n)
    PROVE  MissedOK(missing', mapping)
  <1> DEFINE face == EntryIn(mapping, name[t])
             Excused(n) == n \in Known => EntryIn(mapping, n).file \in Gone
                                            \/ ~Sound(EntryIn(mapping, n))
  <1>1. /\ ThreadsOK /\ MutexOK
        /\ PathOK(pc[t], face, held[t], opened[t], memory)
    BY DEF Basics, DataOK, PathsOK
  <1>2. Entry(name[t]) = face
    BY EntryIs
  <1>3. \A u \in Threads : u # t => missing'[u] = missing[u]
    BY ThreadAlone
  <1>4. ASSUME ReturnNothing(t) PROVE missing'[t] = missing[t] \cup {name[t]}
    BY <1>1, <1>4 DEF ReturnNothing, ThreadsOK
  <1>5. CASE LookUp(t) /\ ReturnNothing(t)
    <2>1. changing # "mapping"
      BY <1>1 DEF MutexOK
    <2>2. name[t] \notin Known
      BY <1>1, <1>5, <2>1 DEF LookUp, ReturnNothing, Goto, ThreadsOK, Known
    <2> QED BY <1>3, <1>4, <1>5, <2>2 DEF MissedOK, Known
  <1>6. CASE Open(t) /\ ReturnNothing(t)
    <2>1. face.file \in Gone
      BY <1>1, <1>2, <1>6 DEF Open, ReturnNothing, Goto, ThreadsOK
    <2> QED BY <1>3, <1>4, <1>6, <2>1 DEF MissedOK
  <1>7. CASE Erase(t)
    <2>1. ~Sound(face) /\ ReturnNothing(t)
      BY <1>1, <1>7 DEF Erase, PathOK
    <2> QED BY <1>3, <1>4, <2>1 DEF MissedOK
  <1>8. CASE missing' = missing
    BY <1>8
  <1>9. \/ LookUp(t) /\ ReturnNothing(t)
        \/ Open(t) /\ ReturnNothing(t)
        \/ Erase(t)
        \/ missing' = missing
    BY DEF Create, GetFace, LookUp, LookInMemory, Use, Open, Lock, Insert, Make,
           MakeFails, ReturnFace
  <1> QED BY <1>5, <1>6, <1>7, <1>8, <1>9

\* Until somebody registers a font, every face that can be made is found.
THEOREM WhatIsThereIsFound == Spec => []NothingMissed
  <1> DEFINE Inv == /\ Basics /\ (Settled => DataOK)
                    /\ (todo = Late => MissedOK(missing, mapping))
  <1>1. Init => Inv
    BY InitBasics, InitData DEF Init, MissedOK
  <1>2. Inv /\ [Next]_vars => Inv'
    <2> SUFFICES ASSUME Inv, [Next]_vars PROVE Inv'
      OBVIOUS
    <2>1. Basics' /\ (Settled' => DataOK')
      BY BasicsStep, DataStep
    <2>2. ASSUME todo' = Late PROVE MissedOK(missing', mapping')
      <3>1. Settled' 
        BY <2>2 DEF Settled
      <3>2. Settled /\ todo = Late /\ mapping' = mapping
        BY <2>2, <3>1, EntryStays
      <3>3. ASSUME NEW t \in Threads, Create(t) \/ \E n \in Names : GetFace(t, n)
            PROVE  MissedOK(missing', mapping')
        BY <3>2, <3>3, MissedByThread
      <3>4. CASE RegisterFaces \/ (\E f \in Late : Register(f)) \/ UNCHANGED vars
        BY <3>2, <3>4, RegisterKeeps
      <3> QED BY <3>3, <3>4 DEF Next
    <2>3. (todo = Late => MissedOK(missing, mapping))'
      BY <2>2
    <2> QED BY <2>1, <2>3
  <1>3. Inv => NothingMissed
    BY EntryIs DEF NothingMissed, MissedOK
  <1> QED BY <1>1, <1>2, <1>3, PTL DEF Spec

-----------------------------------------------------------------------------
(* The erasure of font data spares the files whose faces can be made *)

Conditions == Stable /\ LostApart

\* A file one of whose faces cannot be made.
Unsound(f) ==
    \E a \in InRegistry \cup Named(MapFonts) : a[2].file = f /\ ~Sound(a[2])

FreedOK == \A b \in freed : Unsound(b.data)

\* The data is the one of its file in the font data, or the map's own.
InMemory(buffer, mem) ==
    buffer.no # -1 => buffer.data \in DOMAIN mem /\ mem[buffer.data] = buffer

CopiesOK(cache, where, buffers, mem) ==
    \A t \in Threads :
        /\ \A n \in DOMAIN cache[t] : InMemory(cache[t][n].buffer, mem)
        /\ where[t] = "use" => InMemory(buffers[t], mem)

LEMMA EntryRegistered ==
    ASSUME Basics, NEW n \in Known
    PROVE  /\ <<n, EntryIn(mapping, n)>> \in InRegistry \cup Named(MapFonts)
           /\ n \notin DOMAIN MapFonts => <<n, EntryIn(mapping, n)>> \in InRegistry
  <1>1. CASE n \in DOMAIN MapFonts
    BY <1>1 DEF Named, EntryIn
  <1>2. CASE n \notin DOMAIN MapFonts
    BY <1>2 DEF Basics, RegistryOK, Known, EntryIn
  <1> QED BY <1>1, <1>2

LEMMA UnsoundFile ==
    ASSUME Basics, NEW n \in Known, ~Sound(EntryIn(mapping, n))
    PROVE  Unsound(EntryIn(mapping, n).file)
  <1> DEFINE a == <<n, EntryIn(mapping, n)>>
  <1>1. a \in InRegistry \cup Named(MapFonts) /\ a[2] = EntryIn(mapping, n)
    BY EntryRegistered
  <1> QED BY <1>1 DEF Unsound

LEMMA SoundFile ==
    ASSUME Basics, LostApart, NEW n \in Known, Sound(EntryIn(mapping, n))
    PROVE  ~Unsound(EntryIn(mapping, n).file)
  <1> DEFINE a == <<n, EntryIn(mapping, n)>>
  <1>1. a \in InRegistry \cup Named(MapFonts) /\ a[2] = EntryIn(mapping, n)
    BY EntryRegistered
  <1> HIDE DEF a
  <1> SUFFICES ASSUME NEW b \in InRegistry \cup Named(MapFonts),
                      b[2].file = a[2].file, ~Sound(b[2])
               PROVE  FALSE
    BY <1>1 DEF Unsound
  <1> QED BY <1>1 DEF LostApart

\* What a face or a thread refers to is data of a file that is spared.
LEMMA Spared ==
    ASSUME Basics, DataOK, LostApart, NEW t \in Threads
    PROVE  /\ \A n \in DOMAIN faces[t] : ~Unsound(faces[t][n].buffer.data)
           /\ pc[t] = "use" => ~Unsound(held[t].data)
  <1>1. /\ ThreadsOK /\ FacesOK(faces, Known) /\ FacesNamed(faces, mapping)
        /\ PathOK(pc[t], EntryIn(mapping, name[t]), held[t], opened[t], memory)
    BY DEF Basics, DataOK, PathsOK
  <1>2. ASSUME NEW n \in DOMAIN faces[t] PROVE ~Unsound(faces[t][n].buffer.data)
    <2>1. /\ n \in Known /\ Sound(EntryIn(mapping, n))
          /\ faces[t][n].buffer.data = EntryIn(mapping, n).file
      BY <1>1 DEF FacesOK, FacesNamed
    <2> QED BY <2>1, SoundFile
  <1>3. ASSUME pc[t] = "use" PROVE ~Unsound(held[t].data)
    <2> DEFINE n == name[t]
               a == <<n, EntryIn(mapping, n)>>
    <2>1. n \in Known /\ n \notin DOMAIN MapFonts /\ held[t].data = EntryIn(mapping, n).file
      BY <1>1, <1>3 DEF ThreadsOK, PathOK
    <2>2. a \in InRegistry /\ a[2] = EntryIn(mapping, n)
      BY <2>1, EntryRegistered
    <2> HIDE DEF a
    <2>3. Sound(a[2])
      BY <2>2 DEF LostApart
    <2> QED BY <2>1, <2>2, <2>3, SoundFile
  <1> QED BY <1>2, <1>3

LEMMA FreedStep ==
    ASSUME Basics, DataOK, FreedOK, [Next]_vars
    PROVE  FreedOK'
  <1>1. CASE freed' = freed
    BY <1>1 DEF FreedOK
  <1>2. ASSUME NEW t \in Threads, Erase(t) PROVE FreedOK'
    <2> DEFINE face == EntryIn(mapping, name[t])
    <2>1. ThreadsOK /\ MemoryNamed(memory) /\ PathOK(pc[t], face, held[t], opened[t], memory)
      BY DEF Basics, DataOK, PathsOK
    <2>2. held[t].data = face.file /\ ~Sound(face) /\ name[t] \in Known
      BY <1>2, <2>1 DEF Erase, PathOK, MemoryNamed, ThreadsOK
    <2>3. Unsound(held[t].data)
      BY <2>2, UnsoundFile
    <2> QED BY <1>2, <2>3 DEF FreedOK, Erase
  <1>3. freed' = freed \/ \E t \in Threads : Erase(t)
    BY RegisterKeeps DEF Next, Create, GetFace, LookUp, LookInMemory, Use, Open, Lock, Insert,
       Make, MakeFails, shared
  <1> QED BY <1>1, <1>2, <1>3

\* Data of a spared file stays where it is.
LEMMA StaysInMemory ==
    ASSUME Basics, DataOK, [Next]_vars, NEW buffer, ~Unsound(buffer.data),
           InMemory(buffer, memory)
    PROVE  InMemory(buffer, memory')
  <1>1. CASE memory' = memory
    BY <1>1
  <1>2. ASSUME NEW t \in Threads, Insert(t) \/ Erase(t) PROVE InMemory(buffer, memory')
    <2> DEFINE face == EntryIn(mapping, name[t])
    <2>1. ThreadsOK /\ PathOK(pc[t], face, held[t], opened[t], memory) /\ Entry(name[t]) = face
      BY EntryIs DEF Basics, DataOK, PathsOK
    <2>2. name[t] \in Known
      BY <1>2, <2>1 DEF Insert, Erase, ThreadsOK
    <2> HIDE DEF face
    <2>3. CASE Insert(t)
      <3>1. face.file \notin DOMAIN memory
        BY <2>1, <2>3 DEF Insert, PathOK
      <3>2. memory' = With(memory, face.file, [data |-> opened[t], no |-> loads])
        BY <2>1, <2>3 DEF Insert
      <3> QED BY <3>1, <3>2 DEF With, InMemory
    <2>4. CASE Erase(t)
      <3>1. ~Sound(face) /\ memory' = Without(memory, face.file)
        BY <2>1, <2>4 DEF Erase, PathOK
      <3>2. Unsound(face.file)
        BY <2>2, <3>1, UnsoundFile DEF face
      <3> QED BY <3>1, <3>2 DEF Without, InMemory
    <2> QED BY <1>2, <2>3, <2>4
  <1>3. memory' = memory \/ \E t \in Threads : Insert(t) \/ Erase(t)
    BY RegisterKeeps DEF Next, Create, GetFace, LookUp, LookInMemory, Use, Open, Lock,
       Make, MakeFails, shared
  <1> QED BY <1>1, <1>2, <1>3

LEMMA CopiesStep ==
    ASSUME Basics, DataOK, LostApart, [Next]_vars, CopiesOK(faces, pc, held, memory)
    PROVE  CopiesOK(faces', pc', held', memory')
  <1>1. ASSUME NEW u \in Threads
        PROVE  /\ \A n \in DOMAIN faces[u] : InMemory(faces[u][n].buffer, memory')
               /\ pc[u] = "use" => InMemory(held[u], memory')
    <2>1. ASSUME NEW n \in DOMAIN faces[u] PROVE InMemory(faces[u][n].buffer, memory')
      BY <2>1, Spared, StaysInMemory DEF CopiesOK
    <2>2. ASSUME pc[u] = "use" PROVE InMemory(held[u], memory')
      BY <2>2, Spared, StaysInMemory DEF CopiesOK
    <2> QED BY <2>1, <2>2
  <1>2. ASSUME NEW t \in Threads, Create(t) \/ \E n \in Names : GetFace(t, n)
        PROVE  CopiesOK(faces', pc', held', memory')
    <2> DEFINE face == EntryIn(mapping, name[t])
    <2>1. /\ ThreadsOK /\ MemoryNamed(memory) /\ Entry(name[t]) = face
          /\ PathOK(pc[t], face, held[t], opened[t], memory)
      BY EntryIs DEF Basics, DataOK, PathsOK
    <2> HIDE DEF face
    <2>2. \A u \in Threads : u # t => pc'[u] = pc[u] /\ held'[u] = held[u]
      BY <1>2, ThreadAlone
    <2>3. ASSUME NEW n, NEW index, NEW buffer, ReturnFace(t, n, index, buffer),
                 InMemory(buffer, memory')
          PROVE  CopiesOK(faces', pc', held', memory')
      <3> DEFINE value == [index |-> index, buffer |-> buffer]
      <3>1. /\ DOMAIN faces'[t] = DOMAIN faces[t] \cup {n} /\ faces'[t][n] = value
            /\ \A m \in DOMAIN faces[t] : m # n => faces'[t][m] = faces[t][m]
            /\ \A u \in Threads : u # t => faces'[u] = faces[u]
            /\ pc' = [pc EXCEPT ![t] = "idle"]
        BY <2>3, ReturnFaceFacts
      <3>2. pc'[t] = "idle"
        BY <2>1, <3>1 DEF ThreadsOK
      <3>3. value.buffer = buffer
        OBVIOUS
      <3> HIDE DEF value
      <3>4. \A m \in DOMAIN faces'[t] : InMemory(faces'[t][m].buffer, memory')
        BY <1>1, <2>3, <3>1, <3>3
      <3> QED BY <1>1, <2>2, <3>1, <3>2, <3>4 DEF CopiesOK
    <2>4. ASSUME faces' = faces, pc'[t] = "use" => InMemory(held'[t], memory')
          PROVE  CopiesOK(faces', pc', held', memory')
      BY <1>1, <2>2, <2>4 DEF CopiesOK
    <2>5. ASSUME NEW n \in Names, GetFace(t, n)
          PROVE  CopiesOK(faces', pc', held', memory')
      <3>1. CASE ReturnFace(t, n, MapFonts[n].index, MapBuffer(MapFonts[n].file))
        <4>1. InMemory(MapBuffer(MapFonts[n].file), memory')
          BY DEF InMemory, MapBuffer
        <4> QED BY <2>3, <3>1, <4>1
      <3>2. CASE ~ReturnFace(t, n, MapFonts[n].index, MapBuffer(MapFonts[n].file))
        <4>1. faces' = faces /\ (Goto(t, "look up") \/ Goto(t, "open"))
          BY <2>5, <3>2 DEF GetFace
        <4>2. pc'[t] # "use"
          BY <2>1, <4>1 DEF Goto, ThreadsOK
        <4> QED BY <2>4, <4>1, <4>2
      <3> QED BY <3>1, <3>2
    <2>6. CASE LookInMemory(t)
      <3>1. faces' = faces /\ memory' = memory
        BY <2>6 DEF LookInMemory, shared
      <3>2. pc'[t] = "open" \/ (face.file \in DOMAIN memory /\ held'[t] = memory[face.file])
        BY <2>1, <2>6 DEF LookInMemory, Goto, ThreadsOK
      <3>3. pc'[t] = "use" => InMemory(held'[t], memory')
        BY <2>1, <3>1, <3>2 DEF InMemory, MemoryNamed
      <3> QED BY <2>4, <3>1, <3>3
    <2>7. CASE Use(t)
      <3>1. CASE ReturnFace(t, name[t], face.index, held[t])
        BY <1>1, <2>3, <2>7, <3>1 DEF Use
      <3>2. CASE ~ReturnFace(t, name[t], face.index, held[t])
        <4>1. faces' = faces /\ Goto(t, "open")
          BY <2>1, <2>7, <3>2 DEF Use
        <4>2. pc'[t] # "use"
          BY <2>1, <4>1 DEF Goto, ThreadsOK
        <4> QED BY <2>4, <4>1, <4>2
      <3> QED BY <3>1, <3>2
    <2>8. CASE Make(t)
      <3>1. memory' = memory /\ ReturnFace(t, name[t], face.index, held[t])
        BY <2>1, <2>8 DEF Make
      <3>2. InMemory(held[t], memory')
        BY <2>1, <2>8, <3>1 DEF Make, PathOK, InMemory, MemoryNamed
      <3> QED BY <2>3, <3>1, <3>2
    <2>9. CASE LookUp(t) \/ Open(t) \/ Lock(t) \/ Insert(t) \/ MakeFails(t) \/ Erase(t)
      <3>1. faces' = faces
        BY <2>9 DEF LookUp, Open, Lock, Insert, MakeFails, Erase, ReturnNothing
      <3>2. \E where : where # "use" /\ Goto(t, where)
        BY <2>9 DEF LookUp, Open, Lock, Insert, MakeFails, Erase, ReturnNothing
      <3>3. pc'[t] # "use"
        BY <2>1, <3>2 DEF Goto, ThreadsOK
      <3> QED BY <2>4, <3>1, <3>3
    <2> QED BY <1>2, <2>5, <2>6, <2>7, <2>8, <2>9 DEF Create
  <1>3. CASE RegisterFaces \/ (\E f \in Late : Register(f)) \/ UNCHANGED vars
    BY <1>3, RegisterKeeps
  <1> QED BY <1>2, <1>3 DEF Next

\* What the two theorems on font data rest on.
DataInv ==
    /\ Basics /\ (Settled => DataOK)
    /\ Conditions => FreedOK /\ CopiesOK(faces, pc, held, memory)

LEMMA DataInvariant == Spec => []DataInv
  <1>1. Init => DataInv
    BY InitBasics, InitData DEF Init, DataInv, FreedOK, CopiesOK
  <1>2. DataInv /\ [Next]_vars => DataInv'
    <2> SUFFICES ASSUME DataInv, [Next]_vars PROVE DataInv'
      OBVIOUS
    <2>1. Basics' /\ (Settled' => DataOK')
      BY BasicsStep, DataStep DEF DataInv
    <2>2. ASSUME Conditions PROVE FreedOK' /\ CopiesOK(faces', pc', held', memory')
      <3>1. DataOK /\ LostApart
        BY <2>2 DEF DataInv, Conditions, Settled
      <3> QED BY <2>2, <3>1, FreedStep, CopiesStep DEF DataInv
    <2>3. (Conditions => FreedOK /\ CopiesOK(faces, pc, held, memory))'
      BY <2>2 DEF Conditions
    <2> QED BY <2>1, <2>3 DEF DataInv
  <1> QED BY <1>1, <1>2, PTL DEF Spec

\* Where fonts are registered again as they were, and can be made, no face and
\* no thread is left with data that was freed: the erasure only ever concerns
\* the map's own fonts that have lost their face.
THEOREM FacesKeepTheirData == Spec => []DataStaysAlive
  <1>1. DataInv => DataStaysAlive
    <2> SUFFICES ASSUME DataInv, Stable, LostApart, NEW t \in Threads
                 PROVE  /\ \A n \in DOMAIN faces[t] : faces[t][n].buffer \notin freed
                        /\ pc[t] = "use" => held[t] \notin freed
      BY DEF DataStaysAlive
    <2>1. Basics /\ DataOK /\ FreedOK
      BY DEF DataInv, Conditions, Settled
    <2> QED BY <2>1, Spared DEF FreedOK
  <1> QED BY <1>1, DataInvariant, PTL

\* Under the same conditions a file that several threads load at a time is in
\* memory once.
THEOREM OneCopyOfAFile == Spec => []OneCopyPerFile
  <1>1. DataInv => OneCopyPerFile
    <2> SUFFICES ASSUME DataInv, Stable, LostApart, NEW t \in Threads, NEW u \in Threads,
                        NEW n \in DOMAIN faces[t], NEW m \in DOMAIN faces[u],
                        faces[t][n].buffer.data = faces[u][m].buffer.data,
                        faces[t][n].buffer.no # -1, faces[u][m].buffer.no # -1
                 PROVE  faces[t][n].buffer = faces[u][m].buffer
      BY DEF OneCopyPerFile
    <2>1. CopiesOK(faces, pc, held, memory)
      BY DEF DataInv, Conditions
    <2>2. InMemory(faces[t][n].buffer, memory) /\ InMemory(faces[u][m].buffer, memory)
      BY <2>1 DEF CopiesOK
    <2> QED BY <2>2 DEF InMemory
  <1> QED BY <1>1, DataInvariant, PTL

=============================================================================
