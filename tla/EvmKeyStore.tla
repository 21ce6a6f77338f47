---------------------------- MODULE EvmKeyStore ----------------------------
(***************************************************************************)
(* The EVM key store: MemoryKeyStore behind PersistentKeyStore             *)
(* (ipc/identity/src/evm), opened by any number of processes that share    *)
(* one key file (every ipc-cli command opens it, and so does the relayer). *)
(*                                                                         *)
(* A key stands for its private key and for the address derived from it.   *)
(* Besides the addresses there is the slot "default-key" (the zero         *)
(* address) that holds a copy of the default key.                          *)
(*                                                                         *)
(* An operation changes the memory of its process and then flushes: the    *)
(* file is truncated by File::create and written by serde_json, in two     *)
(* steps, without any lock.                                                *)
(***************************************************************************)
EXTENDS Integers, FiniteSets

CONSTANTS
  Processes,
  Keys,            \* private keys, each with its own address
  DefaultSlot,     \* T::default(), persisted as "default-key"
  None,            \* no key under an address, or no default
  RemoveTargets,   \* addresses that remove is called with
  DefaultTargets,  \* addresses that set_default is called with
  FlushMayFail     \* whether a flush may be cut off between its two steps

Slots == Keys \cup {DefaultSlot}

ASSUME SlotsAssumption ==
  /\ DefaultSlot \notin Keys
  /\ None \notin Slots
  /\ IsFiniteSet(Keys)
  /\ RemoveTargets \subseteq Slots
  /\ DefaultTargets \subseteq Slots
  /\ FlushMayFail \in BOOLEAN

VARIABLES
  file,     \* the key file: "absent", "torn" or "whole"
  disk,     \* the entries of the longest text the file holds
  pc,       \* "down", "up", "truncate" or "write", for each process
  data,     \* MemoryKeyStore.data
  default,  \* MemoryKeyStore.default
  orderly   \* history: so far one process at a time, no flush that was cut off,
            \*          and no remove of the default slot instead of a key

vars == <<file, disk, pc, data, default, orderly>>

\* A key is stored under its own address, and its copy in the default slot.
Stores == {d \in [Slots -> Keys \cup {None}] : \A k \in Keys : d[k] \in {k, None}}
Empty  == [a \in Slots |-> None]

Init ==
  /\ file = "absent"
  /\ disk = Empty
  /\ pc = [p \in Processes |-> "down"]
  /\ data = [p \in Processes |-> Empty]
  /\ default = [p \in Processes |-> None]
  /\ orderly = TRUE

-----------------------------------------------------------------------------
(* PersistentKeyStore::new.  On load, the address of an entry is derived   *)
(* from its private key unless the entry is the default slot.              *)

Loaded(d) ==
  [a \in Slots |-> IF a = DefaultSlot THEN d[a]
                   ELSE IF \E s \in Keys : d[s] = a THEN a ELSE None]

Running == {p \in Processes : pc[p] # "down"}

Open(p) ==
  /\ pc[p] = "down"
  /\ \/ /\ file = "absent"
        /\ data' = [data EXCEPT ![p] = Empty]
        /\ default' = [default EXCEPT ![p] = None]
     \/ /\ file = "whole"
        /\ data' = [data EXCEPT ![p] = Loaded(disk)]
        /\ default' = [default EXCEPT ![p] = Loaded(disk)[DefaultSlot]]
  /\ pc' = [pc EXCEPT ![p] = "up"]
  /\ orderly' = (orderly /\ Running = {})
  /\ UNCHANGED <<file, disk>>

-----------------------------------------------------------------------------
(* MemoryKeyStore *)

\* Mutant: the address is not derived from the key.
PutUnderOneAddress(d, k) == [d EXCEPT ![CHOOSE a \in Keys : TRUE] = k]

\* put: a key is stored under the address derived from it.
PutKey(d, k) == [d EXCEPT ![k] = k]

\* Mutant: the copy of the default key is forgotten.
RemoveKeepsCopy(d, def, a) == [d EXCEPT ![a] = None]

\* Mutant: with the default address, only the copy of its key goes.
RemoveOnlyCopy(d, def, a) ==
  IF def = a THEN [d EXCEPT ![DefaultSlot] = None]
  ELSE [d EXCEPT ![a] = None]

\* remove: with the default address goes the copy of its key.
RemoveKey(d, def, a) ==
  IF def = a THEN [d EXCEPT ![a] = None, ![DefaultSlot] = None]
  ELSE [d EXCEPT ![a] = None]

\* get_default: read from the map when it is not cached yet.
DefaultOf(d, def) == IF def = None THEN d[DefaultSlot] ELSE def

Change(p, d, def) ==
  /\ pc[p] = "up"
  /\ pc' = [pc EXCEPT ![p] = "truncate"]
  /\ data' = [data EXCEPT ![p] = d]
  /\ default' = [default EXCEPT ![p] = def]
  /\ UNCHANGED <<file, disk>>

Put(p, k) == Change(p, PutKey(data[p], k), default[p]) /\ UNCHANGED orderly

Remove(p, a) ==
  /\ Change(p, RemoveKey(data[p], default[p], a), IF default[p] = a THEN None ELSE default[p])
  /\ orderly' = (orderly /\ a \in Keys)

\* Mutant: the copy of the key is not made.
SetDefaultUnsaved(p, a) == data[p][a] # None /\ Change(p, data[p], a) /\ UNCHANGED orderly

\* An error, and no flush, when the address has no key.
SetDefault(p, a) ==
  /\ data[p][a] # None
  /\ Change(p, [data[p] EXCEPT ![DefaultSlot] = data[p][a]], a)
  /\ UNCHANGED orderly

GetDefault(p) == Change(p, data[p], DefaultOf(data[p], default[p])) /\ UNCHANGED orderly

-----------------------------------------------------------------------------
(* flush_no_encryption *)

Truncate(p) ==
  /\ pc[p] = "truncate"
  /\ pc' = [pc EXCEPT ![p] = "write"]
  /\ file' = "torn"
  /\ disk' = Empty
  /\ UNCHANGED <<data, default, orderly>>

Stored(d) == {a \in Slots : d[a] # None}

\* The text of d is longer than the text of e: it has more entries, or as many
\* and the entry "default-key", shorter than an address, is only in e.
Longer(d, e) ==
  LET m == Cardinality(Stored(d))
      n == Cardinality(Stored(e))
  IN m > n \/ (m = n /\ d[DefaultSlot] = None /\ e[DefaultSlot] # None)

\* The file is written from its start.  When another process has written it
\* since this one truncated it, the end of a longer text remains behind.
Write(p) ==
  /\ pc[p] = "write"
  /\ pc' = [pc EXCEPT ![p] = "up"]
  /\ \/ /\ Longer(disk, data[p])
        /\ file' = "torn"
        /\ UNCHANGED disk
     \/ /\ ~Longer(disk, data[p])
        /\ file' = "whole"
        /\ disk' = data[p]
  /\ UNCHANGED <<data, default, orderly>>

\* A flush that does not complete has not begun, or has truncated the file, or
\* has spoilt it with a part of its text.
CutOff(p) ==
  /\ FlushMayFail
  /\ orderly' = FALSE
  /\ \/ pc[p] \in {"truncate", "write"} /\ UNCHANGED file
     \/ pc[p] = "write" /\ file' = "torn"

\* File::create or the writer fails: an error is returned, or lost in the drop
\* of the BufWriter, and the memory is ahead of the file.
FlushFails(p) ==
  /\ CutOff(p)
  /\ pc' = [pc EXCEPT ![p] = "up"]
  /\ UNCHANGED <<disk, data, default>>

\* The process ends: between two operations, or in the middle of a flush.
Exit(p) ==
  /\ (pc[p] = "up" /\ UNCHANGED <<file, orderly>>) \/ CutOff(p)
  /\ pc' = [pc EXCEPT ![p] = "down"]
  /\ data' = [data EXCEPT ![p] = Empty]
  /\ default' = [default EXCEPT ![p] = None]
  /\ UNCHANGED disk

Operation(p) ==
  \/ \E k \in Keys : Put(p, k)
  \/ \E a \in RemoveTargets : Remove(p, a)
  \/ \E a \in DefaultTargets : SetDefault(p, a)
  \/ GetDefault(p)

Next ==
  \E p \in Processes :
    Open(p) \/ Operation(p) \/ Truncate(p) \/ Write(p) \/ FlushFails(p) \/ Exit(p)

Spec == Init /\ [][Next]_vars
-----------------------------------------------------------------------------
(* Correctness. *)

\* Every variable has its type, and the file is absent only before the first
\* flush of any process.
TypeOK ==
  /\ file \in {"absent", "torn", "whole"}
  /\ disk \in Stores
  /\ pc \in [Processes -> {"down", "up", "truncate", "write"}]
  /\ data \in [Processes -> Stores]
  /\ default \in [Processes -> Slots \cup {None}]
  /\ orderly \in BOOLEAN
  /\ file = "absent" => disk = Empty

\* The copy in the default slot is the copy of a key that is still stored.
Sound(d) == d[DefaultSlot] # None => d[d[DefaultSlot]] = d[DefaultSlot]

\* Whichever process wrote last, in whatever order the steps of their flushes
\* came and wherever a process was killed, a key file that can be read names
\* as default a key it holds: remove takes the copy in the default slot away
\* with the default key, also in a process that got its default from the file.
DefaultKeyIsStored ==
  /\ Sound(disk)
  /\ \A p \in Processes : Sound(data[p])

\* As long as the processes run one at a time and no flush is cut off, the store
\* keeps what it was told, from process to process: memory.rs behind the file is
\* a map of keys with a default, which no restart changes.
Memory     == IF Running = {} THEN disk ELSE data[CHOOSE p \in Running : TRUE]
StoredKeys == {k \in Keys : Memory[k] # None}
KeyMap == INSTANCE DurableKeyMap WITH keys <- StoredKeys, chosen <- Memory[DefaultSlot]
KeyMapWhileOrderly ==
  KeyMap!Init /\ [][~orderly' \/ KeyMap!Next]_<<StoredKeys, Memory[DefaultSlot]>>

\* As long as the processes run one at a time and no flush is cut off, a process
\* between two operations signs with the default that the file names, which is
\* the one the next process will load: no operation, get_default and a restart
\* included, changes the cached default without the file, or the file without it.
DefaultIsSaved ==
  orderly => \A p \in Processes :
               pc[p] = "up" => file # "torn" /\ default[p] = disk[DefaultSlot]

\* When no key is ever removed, the keys that an idle process has put are in
\* the file, whatever the other processes do.
PutsAreKept ==
  file = "whole" =>
    \A p \in Processes : pc[p] = "up" => \A k \in Keys : data[p][k] = k => disk[k] = k
=============================================================================
