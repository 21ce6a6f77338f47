------------------------- MODULE EvmKeyStoreProofs -------------------------
(***************************************************************************)
(* Proofs about the EVM key store, for any number of processes and keys.   *)
(***************************************************************************)
EXTENDS EvmKeyStore, FiniteSetTheorems, TLAPS

\* The copy in the default slot is that of the key cached as the default; a
\* process that is down holds nothing.
Cached(p) ==
  /\ data[p][DefaultSlot] \in {None, default[p]}
  /\ pc[p] = "down" => data[p] = Empty /\ default[p] = None

\* The inductive invariant: that the default is stored rests on what remove
\* compares an address with, the cached default.
Inv ==
  /\ TypeOK
  /\ DefaultKeyIsStored
  /\ \A p \in Processes : Cached(p)

\* The empty key store, which a missing file stands for, is a sound store.
LEMMA EmptyStore == Empty \in Stores /\ Sound(Empty) /\ Empty[DefaultSlot] = None
  BY SlotsAssumption DEF Empty, Stores, Slots, Sound

\* PersistentKeyStore::new reads back the entries that were flushed.
LEMMA LoadedStore ==
  ASSUME NEW d \in Stores
  PROVE  Loaded(d) = d
  BY SlotsAssumption DEF Loaded, Stores, Slots

\* put keeps a store well formed, and its default slot.
LEMMA PutStore ==
  ASSUME NEW d \in Stores, NEW k \in Keys, Sound(d)
  PROVE  /\ PutKey(d, k) \in Stores
         /\ Sound(PutKey(d, k))
         /\ PutKey(d, k)[DefaultSlot] = d[DefaultSlot]
  BY SlotsAssumption DEF PutKey, Stores, Slots, Sound

\* remove keeps a store well formed when the default slot holds a copy of the
\* cached default.
LEMMA RemoveStore ==
  ASSUME NEW d \in Stores, NEW a \in Slots, NEW def \in Slots \cup {None},
         Sound(d), d[DefaultSlot] \in {None, def}
  PROVE  /\ RemoveKey(d, def, a) \in Stores
         /\ Sound(RemoveKey(d, def, a))
         /\ RemoveKey(d, def, a)[DefaultSlot] \in {None, def}
         /\ def = a => RemoveKey(d, def, a)[DefaultSlot] = None
  BY SlotsAssumption DEF RemoveKey, Stores, Slots, Sound

\* set_default of a stored key keeps a store well formed.
LEMMA SetDefaultStore ==
  ASSUME NEW d \in Stores, NEW a \in Keys, d[a] # None
  PROVE  /\ [d EXCEPT ![DefaultSlot] = d[a]] \in Stores
         /\ Sound([d EXCEPT ![DefaultSlot] = d[a]])
         /\ [d EXCEPT ![DefaultSlot] = d[a]][DefaultSlot] = a
  BY SlotsAssumption DEF Stores, Slots, Sound

\* An operation that leaves a well formed store in memory, with its default
\* cached, preserves the invariant.
LEMMA ChangeStep ==
  ASSUME Inv, NEW p \in Processes, NEW d \in Stores, NEW def \in Slots \cup {None},
         Sound(d), d[DefaultSlot] \in {None, def}, Change(p, d, def), orderly' \in BOOLEAN
  PROVE  Inv'
<1>1. TypeOK'
  BY DEF Inv, TypeOK, Change
<1>2. \A q \in Processes : data'[q] = (IF q = p THEN d ELSE data[q])
                        /\ default'[q] = (IF q = p THEN def ELSE default[q])
                        /\ pc'[q] = (IF q = p THEN "truncate" ELSE pc[q])
  BY DEF Inv, TypeOK, Change
<1>3. DefaultKeyIsStored'
  BY <1>2 DEF Inv, DefaultKeyIsStored, Sound, Change
<1>4. \A q \in Processes : Cached(q)'
  BY <1>2 DEF Inv, Cached
<1> QED  BY <1>1, <1>3, <1>4 DEF Inv

\* Opening the file yields the stored keys, with the default in the cache.
LEMMA OpenStep ==
  ASSUME Inv, NEW p \in Processes, Open(p)
  PROVE  Inv'
<1>1. PICK d \in Stores : /\ Sound(d)
                          /\ data' = [data EXCEPT ![p] = d]
                          /\ default' = [default EXCEPT ![p] = d[DefaultSlot]]
  <2>1. CASE file = "absent"
    BY <2>1, EmptyStore DEF Open
  <2>2. CASE file = "whole"
    BY <2>2, LoadedStore DEF Open, Inv, TypeOK, DefaultKeyIsStored
  <2> QED  BY <2>1, <2>2 DEF Open
<1>2. \A q \in Processes : data'[q] = (IF q = p THEN d ELSE data[q])
                        /\ default'[q] = (IF q = p THEN d[DefaultSlot] ELSE default[q])
                        /\ pc'[q] = (IF q = p THEN "up" ELSE pc[q])
  BY <1>1 DEF Inv, TypeOK, Open
<1>3. d[DefaultSlot] \in Slots \cup {None}
  BY SlotsAssumption DEF Stores, Slots
<1>4. TypeOK'
  BY <1>1, <1>3 DEF Inv, TypeOK, Open
<1>5. DefaultKeyIsStored'
  BY <1>1, <1>2 DEF Inv, DefaultKeyIsStored, Sound, Open
<1>6. \A q \in Processes : Cached(q)'
  BY <1>2 DEF Inv, Cached
<1> QED  BY <1>4, <1>5, <1>6 DEF Inv

\* The steps of a flush, and the end of a process, leave well formed stores.
LEMMA FlushStep ==
  ASSUME Inv, NEW p \in Processes,
         Truncate(p) \/ Write(p) \/ FlushFails(p) \/ Exit(p)
  PROVE  Inv'
<1> USE EmptyStore
<1>1. CASE Truncate(p)
  BY <1>1 DEF Inv, TypeOK, DefaultKeyIsStored, Sound, Cached, Truncate
<1>2. CASE Write(p)
  BY <1>2 DEF Inv, TypeOK, DefaultKeyIsStored, Sound, Cached, Write
<1>3. CASE FlushFails(p)
  BY <1>3 DEF Inv, TypeOK, DefaultKeyIsStored, Sound, Cached, FlushFails, CutOff
<1>4. CASE Exit(p)
  <2>1. \A q \in Processes : data'[q] = (IF q = p THEN Empty ELSE data[q])
                          /\ default'[q] = (IF q = p THEN None ELSE default[q])
                          /\ pc'[q] = (IF q = p THEN "down" ELSE pc[q])
    BY <1>4 DEF Inv, TypeOK, Exit, CutOff
  <2>2. TypeOK'
    BY <1>4 DEF Inv, TypeOK, Exit, CutOff
  <2>3. DefaultKeyIsStored'
    BY <1>4, <2>1 DEF Inv, DefaultKeyIsStored, Sound, Exit, CutOff
  <2>4. \A q \in Processes : Cached(q)'
    BY <2>1 DEF Inv, Cached
  <2> QED  BY <2>2, <2>3, <2>4 DEF Inv
<1> QED  BY <1>1, <1>2, <1>3, <1>4

\* Every operation of the key store preserves the invariant, as long as
\* set_default is not called with the address of the default slot.
LEMMA OperationStep ==
  ASSUME Inv, DefaultTargets \subseteq Keys, NEW p \in Processes, Operation(p)
  PROVE  Inv'
<1> DEFINE d == data[p]
           def == default[p]
<1>1. d \in Stores /\ def \in Slots \cup {None} /\ Sound(d) /\ d[DefaultSlot] \in {None, def}
  BY DEF Inv, TypeOK, DefaultKeyIsStored, Cached
<1>a. orderly' \in BOOLEAN
  BY DEF Operation, Put, Remove, SetDefault, GetDefault, Inv, TypeOK
<1>2. ASSUME NEW k \in Keys, Put(p, k)
      PROVE  Inv'
  BY <1>1, <1>a, <1>2, PutStore, ChangeStep DEF Put
<1>3. ASSUME NEW a \in RemoveTargets, Remove(p, a)
      PROVE  Inv'
  <2>1. a \in Slots
    BY SlotsAssumption
  <2>2. RemoveKey(d, def, a)[DefaultSlot] \in {None, IF def = a THEN None ELSE def}
    BY <1>1, <2>1, RemoveStore
  <2>3. RemoveKey(d, def, a) \in Stores /\ Sound(RemoveKey(d, def, a))
    BY <1>1, <2>1, RemoveStore
  <2>4. (IF def = a THEN None ELSE def) \in Slots \cup {None}
    BY <1>1
  <2> QED  BY <1>a, <1>3, <2>2, <2>3, <2>4, ChangeStep DEF Remove
<1>4. ASSUME NEW a \in DefaultTargets, SetDefault(p, a)
      PROVE  Inv'
  <2>1. a \in Keys /\ a \in Slots \cup {None} /\ d[a] # None
    BY <1>4 DEF Slots, SetDefault
  <2> QED  BY <1>1, <1>a, <1>4, <2>1, SetDefaultStore, ChangeStep DEF SetDefault
<1>5. CASE GetDefault(p)
  <2>1. DefaultOf(d, def) \in Slots \cup {None} /\ d[DefaultSlot] \in {None, DefaultOf(d, def)}
    BY <1>1, SlotsAssumption DEF DefaultOf, Stores, Slots
  <2> QED  BY <1>1, <1>a, <1>5, <2>1, ChangeStep DEF GetDefault
<1> QED  BY <1>2, <1>3, <1>4, <1>5 DEF Operation

\* The invariant holds in every reachable state.
THEOREM Invariance ==
  ASSUME DefaultTargets \subseteq Keys
  PROVE  Spec => []Inv
<1>1. Init => Inv
  BY EmptyStore DEF Init, Inv, TypeOK, DefaultKeyIsStored, Cached
<1>2. Inv /\ [Next]_vars => Inv'
  <2> SUFFICES ASSUME Inv, [Next]_vars PROVE Inv'
    OBVIOUS
  <2>1. CASE UNCHANGED vars
    BY <2>1 DEF Inv, TypeOK, DefaultKeyIsStored, Sound, Cached, vars
  <2>2. CASE Next
    BY <2>2, OpenStep, FlushStep, OperationStep DEF Next
  <2> QED  BY <2>1, <2>2
<1> QED  BY <1>1, <1>2, PTL DEF Spec

\* Every variable has its type: in particular each key stays under the address
\* derived from it, in memory and in the file.
THEOREM TypeCorrect ==
  ASSUME DefaultTargets \subseteq Keys
  PROVE  Spec => []TypeOK
<1>1. Inv => TypeOK
  BY DEF Inv
<1> QED  BY <1>1, Invariance, PTL

\* The default that the key file names is a key the file holds, for any number
\* of processes that share the file and may be killed in a flush.
THEOREM DefaultStaysStored ==
  ASSUME DefaultTargets \subseteq Keys
  PROVE  Spec => []DefaultKeyIsStored
<1>1. Inv => DefaultKeyIsStored
  BY DEF Inv
<1> QED  BY <1>1, Invariance, PTL

-----------------------------------------------------------------------------
(* One process at a time, whose flushes complete. *)

\* Between two operations the file holds what the process has in memory.
Agrees(p) ==
  /\ default[p] = data[p][DefaultSlot]
  /\ pc[p] = "up" => file # "torn" /\ disk = data[p]
  /\ pc[p] = "write" => disk = Empty

\* As long as all is in order, one process is up at most, and it agrees with the
\* file; when none is up the file can be read.
Synced ==
  /\ Inv
  /\ orderly =>
       /\ \A p, q \in Running : p = q
       /\ Running = {} => file # "torn"
       /\ \A p \in Running : Agrees(p)

\* No text is shorter than that of an empty store.
LEMMA EmptyIsShortest ==
  ASSUME NEW d \in Stores
  PROVE  ~Longer(Empty, d)
<1>1. Stored(Empty) = {}
  BY DEF Stored, Empty
<1>2. IsFiniteSet(Slots)
  BY SlotsAssumption, FS_AddElement DEF Slots
<1>3. Stored(d) \subseteq Slots
  BY DEF Stored
<1>4. Cardinality(Stored(d)) \in Nat
  BY <1>2, <1>3, FS_Subset, FS_CardinalityType
<1>5. Cardinality(Stored(Empty)) = 0
  BY <1>1, FS_EmptySet
<1>6. Cardinality(Stored(d)) = 0 => Stored(d) = {}
  BY <1>2, <1>3, FS_Subset, FS_EmptySet
<1>7. d[DefaultSlot] # None => DefaultSlot \in Stored(d)
  BY DEF Stored, Slots
<1>8. CASE Cardinality(Stored(d)) = 0
  BY <1>4, <1>5, <1>6, <1>7, <1>8 DEF Longer
<1>9. CASE Cardinality(Stored(d)) # 0
  BY <1>4, <1>5, <1>9 DEF Longer
<1> QED  BY <1>8, <1>9

\* While all is in order, the memory is that of the process that is up.
LEMMA OneIsRunning ==
  ASSUME Synced, orderly, NEW p \in Processes, pc[p] # "down"
  PROVE  Running = {p} /\ Memory = data[p] /\ Agrees(p)
<1>1. Running = {p}
  BY DEF Synced, Running
<1>2. (CHOOSE q \in Running : TRUE) = p
  BY <1>1
<1> QED  BY <1>1, <1>2 DEF Synced, Memory

\* A step after which one process is up, and agrees with the file, keeps the order.
LEMMA OneKeepsRunning ==
  ASSUME Inv', NEW p \in Processes, pc'[p] # "down",
         \A q \in Processes : q # p => pc'[q] = "down", Agrees(p)'
  PROVE  Synced' /\ Memory' = data'[p]
<1>1. Running' = {p}
  BY DEF Running
<1>2. (CHOOSE q \in Running' : TRUE) = p
  BY <1>1
<1> QED  BY <1>1, <1>2 DEF Synced, Memory

\* An operation of the one process that is up changes its memory and nothing else.
LEMMA OneOperates ==
  ASSUME Synced, orderly, Inv', NEW p \in Processes, NEW d, NEW def,
         Change(p, d, def), def = d[DefaultSlot]
  PROVE  Synced' /\ Memory = data[p] /\ Memory' = d
<1>1. Running = {p} /\ Memory = data[p]
  BY OneIsRunning DEF Change
<1>2. data'[p] = d /\ default'[p] = def /\ pc'[p] = "truncate"
  BY DEF Change, Synced, Inv, TypeOK
<1>3. \A q \in Processes : q # p => pc'[q] = "down"
  BY <1>1 DEF Change, Running, Synced, Inv, TypeOK
<1>4. Agrees(p)'
  BY <1>2 DEF Agrees
<1> QED  BY <1>1, <1>2, <1>3, <1>4, OneKeepsRunning

\* What every operation does to the keys and their default is what the abstract
\* map may do.
LEMMA OrderlyOperation ==
  ASSUME Synced, orderly, orderly', Inv', DefaultTargets \subseteq Keys,
         NEW p \in Processes, Operation(p)
  PROVE  Synced' /\ [KeyMap!Next]_<<StoredKeys, Memory[DefaultSlot]>>
<1> DEFINE d == data[p]
<1>1. pc[p] # "down"
  BY DEF Operation, Put, Remove, SetDefault, GetDefault, Change
<1>2. /\ d \in Stores /\ default[p] = d[DefaultSlot]
      /\ DefaultSlot \in Slots /\ DefaultSlot \notin Keys /\ Keys \subseteq Slots
  BY <1>1, OneIsRunning, SlotsAssumption DEF Agrees, Synced, Inv, TypeOK, Slots
<1>3. ASSUME NEW k \in Keys, Put(p, k)
      PROVE  Synced' /\ [KeyMap!Next]_<<StoredKeys, Memory[DefaultSlot]>>
  <2>1. PutKey(d, k)[DefaultSlot] = d[DefaultSlot]
    BY <1>2 DEF PutKey, Stores
  <2>2. Synced' /\ Memory = d /\ Memory' = PutKey(d, k)
    BY <1>2, <1>3, <2>1, OneOperates DEF Put
  <2>3. StoredKeys' = StoredKeys \cup {k}
    BY <1>2, <2>2, SlotsAssumption DEF StoredKeys, PutKey, Stores, Slots
  <2> QED  BY <2>1, <2>2, <2>3 DEF KeyMap!Next, KeyMap!Add
<1>4. ASSUME NEW a \in RemoveTargets, Remove(p, a)
      PROVE  Synced' /\ [KeyMap!Next]_<<StoredKeys, Memory[DefaultSlot]>>
  <2> DEFINE e == RemoveKey(d, default[p], a)
  <2>1. a \in Keys
    BY <1>4 DEF Remove
  <2>2. e[DefaultSlot] = IF default[p] = a THEN None ELSE default[p]
    BY <1>2, <2>1 DEF RemoveKey, Stores
  <2>3. Synced' /\ Memory = d /\ Memory' = e
    BY <1>4, <2>2, OneOperates DEF Remove
  <2>4. StoredKeys' = StoredKeys \ {a}
    BY <1>2, <2>1, <2>3 DEF StoredKeys, RemoveKey, Stores
  <2>5. Memory'[DefaultSlot] = IF Memory[DefaultSlot] = a THEN None ELSE Memory[DefaultSlot]
    BY <1>2, <2>2, <2>3
  <2> QED  BY <2>1, <2>3, <2>4, <2>5 DEF KeyMap!Next, KeyMap!Drop
<1>5. ASSUME NEW a \in DefaultTargets, SetDefault(p, a)
      PROVE  Synced' /\ [KeyMap!Next]_<<StoredKeys, Memory[DefaultSlot]>>
  <2> DEFINE e == [d EXCEPT ![DefaultSlot] = d[a]]
  <2>1. a \in Keys /\ d[a] = a
    BY <1>5, <1>2 DEF SetDefault, Stores
  <2>2. e[DefaultSlot] = a
    BY <1>2, <2>1 DEF Stores
  <2>3. Synced' /\ Memory = d /\ Memory' = e
    BY <1>5, <2>2, OneOperates DEF SetDefault
  <2>4. StoredKeys' = StoredKeys /\ a \in StoredKeys
    BY <1>2, <2>1, <2>3, SlotsAssumption DEF StoredKeys, Stores, Slots
  <2> QED  BY <2>1, <2>2, <2>3, <2>4 DEF KeyMap!Next, KeyMap!Choose
<1>6. CASE GetDefault(p)
  <2>1. DefaultOf(d, default[p]) = d[DefaultSlot]
    BY <1>2 DEF DefaultOf
  <2>2. Synced' /\ Memory = d /\ Memory' = d
    BY <1>6, <2>1, OneOperates DEF GetDefault
  <2> QED  BY <2>2 DEF StoredKeys
<1> QED  BY <1>3, <1>4, <1>5, <1>6 DEF Operation

\* Opening, flushing and the end of a process leave the keys as they are.
LEMMA OrderlyRestart ==
  ASSUME Synced, orderly, orderly', Inv', NEW p \in Processes,
         Open(p) \/ Truncate(p) \/ Write(p) \/ Exit(p)
  PROVE  Synced' /\ UNCHANGED <<StoredKeys, Memory[DefaultSlot]>>
<1> SUFFICES Synced' /\ Memory' = Memory
  BY DEF StoredKeys
<1>1. CASE Open(p)
  <2>1. Running = {} /\ Memory = disk /\ file # "torn"
    BY <1>1 DEF Open, Memory, Synced
  <2>2. \A q \in Processes : q # p => pc'[q] = "down"
    BY <1>1, <2>1 DEF Open, Running, Synced, Inv, TypeOK
  <2>3. data'[p] = disk /\ default'[p] = disk[DefaultSlot] /\ pc'[p] = "up"
    BY <1>1, LoadedStore, EmptyStore DEF Open, Synced, Inv, TypeOK
  <2>4. Agrees(p)'
    BY <1>1, <2>1, <2>3 DEF Open, Agrees
  <2> QED  BY <2>1, <2>2, <2>3, <2>4, OneKeepsRunning
<1>2. CASE Truncate(p) \/ Write(p)
  <2>1. Running = {p} /\ Memory = data[p] /\ Agrees(p)
    BY <1>2, OneIsRunning DEF Truncate, Write
  <2>2. \A q \in Processes : q # p => pc'[q] = "down"
    BY <1>2, <2>1 DEF Truncate, Write, Running, Synced, Inv, TypeOK
  <2>3. data'[p] = data[p] /\ default'[p] = default[p] /\ pc'[p] # "down"
    BY <1>2 DEF Truncate, Write, Synced, Inv, TypeOK
  <2>4. CASE Truncate(p)
    <3>1. Agrees(p)'
      BY <2>1, <2>3, <2>4 DEF Truncate, Agrees, Synced, Inv, TypeOK
    <3> QED  BY <2>1, <2>2, <2>3, <3>1, OneKeepsRunning
  <2>5. CASE Write(p)
    <3>1. ~Longer(disk, data[p])
      BY <2>1, <2>5, EmptyIsShortest DEF Write, Agrees, Synced, Inv, TypeOK
    <3>2. Agrees(p)'
      BY <2>1, <2>3, <2>5, <3>1 DEF Write, Agrees, Synced, Inv, TypeOK
    <3> QED  BY <2>1, <2>2, <2>3, <3>2, OneKeepsRunning
  <2> QED  BY <1>2, <2>4, <2>5
<1>3. CASE Exit(p)
  <2>1. pc[p] = "up" /\ UNCHANGED <<file, disk>>
    BY <1>3 DEF Exit, CutOff
  <2>2. Running = {p} /\ Memory = data[p] /\ disk = data[p] /\ file # "torn"
    BY <2>1, OneIsRunning DEF Agrees
  <2>3. Running' = {}
    BY <1>3, <2>2 DEF Exit, Running, Synced, Inv, TypeOK
  <2> QED  BY <2>1, <2>2, <2>3 DEF Synced, Memory
<1> QED  BY <1>1, <1>2, <1>3

\* As long as all is in order, every step of the processes keeps it so and does
\* what the abstract map may do.
LEMMA OrderlyStep ==
  ASSUME Synced, [Next]_vars, Inv', DefaultTargets \subseteq Keys
  PROVE  /\ Synced'
         /\ [~orderly' \/ KeyMap!Next]_<<StoredKeys, Memory[DefaultSlot]>>
<1> SUFFICES ASSUME orderly'
             PROVE  Synced' /\ [KeyMap!Next]_<<StoredKeys, Memory[DefaultSlot]>>
  BY DEF Synced
<1>1. CASE UNCHANGED vars
  BY <1>1 DEF Synced, Agrees, vars, Memory, StoredKeys, Running
<1>2. CASE Next
  <2>1. PICK p \in Processes : Open(p) \/ Operation(p) \/ Truncate(p) \/ Write(p)
                               \/ FlushFails(p) \/ Exit(p)
    BY <1>2 DEF Next
  <2>2. ~FlushFails(p)
    BY DEF FlushFails, CutOff
  <2>3. orderly
    BY <2>1, <2>2 DEF Open, Operation, Put, Remove, SetDefault, GetDefault, Truncate, Write,
                      Exit, CutOff
  <2> QED  BY <2>1, <2>2, <2>3, OrderlyOperation, OrderlyRestart
<1> QED  BY <1>1, <1>2

\* The order, and the abstract map, in every behaviour.
LEMMA OrderlyInvariance ==
  ASSUME DefaultTargets \subseteq Keys
  PROVE  Spec => []Synced /\ KeyMapWhileOrderly
<1>1. Spec => []Inv
  BY Invariance
<1>2. Init /\ Inv => Synced /\ KeyMap!Init
  <2> SUFFICES ASSUME Init, Inv PROVE Synced /\ KeyMap!Init
    OBVIOUS
  <2>1. Running = {}
    BY DEF Init, Running
  <2>2. Memory = Empty
    BY <2>1 DEF Memory, Init
  <2>3. StoredKeys = {} /\ Memory[DefaultSlot] = None
    BY <2>2, EmptyStore DEF StoredKeys, Empty, Slots
  <2> QED  BY <2>1, <2>3 DEF Synced, Init, KeyMap!Init
<1>3. Synced /\ Inv' /\ [Next]_vars
        => Synced' /\ [~orderly' \/ KeyMap!Next]_<<StoredKeys, Memory[DefaultSlot]>>
  BY OrderlyStep
<1> QED  BY <1>1, <1>2, <1>3, PTL DEF Spec, KeyMapWhileOrderly

\* For any number of processes that open the file one after the other, and as
\* long as no flush is cut off, the key store is a durable map of keys with a
\* default: neither a restart nor get_default, which also rewrites the file,
\* changes it.
THEOREM OrderlyImplementsKeyMap ==
  ASSUME DefaultTargets \subseteq Keys
  PROVE  Spec => KeyMapWhileOrderly
  BY OrderlyInvariance, PTL

\* For any number of processes that open the file one after the other, and as
\* long as no flush is cut off, the default that a process signs with is the one
\* that the file names.
THEOREM DefaultStaysSaved ==
  ASSUME DefaultTargets \subseteq Keys
  PROVE  Spec => []DefaultIsSaved
<1>1. Synced => DefaultIsSaved
  BY DEF Synced, Agrees, Running, DefaultIsSaved
<1> QED  BY <1>1, OrderlyInvariance, PTL
=============================================================================
