-------------------------- MODULE FvmWalletProofs --------------------------
(***************************************************************************)
(* Proofs about the FVM wallet, for any set of keys, both kinds of key     *)
(* store and any networks.                                                 *)
(***************************************************************************)
EXTENDS FvmWallet, TLAPS

\* The entry of a key, on any network, holds that key.
Keyed(entries) ==
  \A n \in Networks, k \in Keys : entries[WalletName(n, k)] \in {k, None}

Sound(entries) == entries \in Entries /\ Keyed(entries) /\ Listed(entries)

SameKeys(e, f) == \A k \in Keys : HasKey(e, k) <=> HasKey(f, k)

\* The second half of an operation finds the key that the first half has stored,
\* and set_default finds no default in its way.
RestInv ==
  /\ then.op # "return" => HasKey(keyInfo, then.key)
  /\ then.op = "setDefault" => keyInfo[DefaultName] = None

\* A file that cannot be read stands for no entries, and so does one that is
\* being written; until a flush fails an idle process and its file agree.
FileInv ==
  /\ file # "whole" => disk = Empty
  /\ pc = "write" => disk = Empty
  /\ pc = "up" /\ ~faulted => disk = keyInfo

\* The inductive invariant.
Inv ==
  /\ TypeOK
  /\ Sound(keyInfo) /\ Sound(disk)
  /\ RestInv
  /\ FileInv

\* The step of the durable key map, unless a flush has failed.
MapStep == [faulted' \/ KeyMap!Next]_<<StoredKeys, Chosen>>

-----------------------------------------------------------------------------
(* Names and entries. *)

\* The names under which keys, and the default, are stored.
LEMMA NameFacts ==
  /\ DefaultName \in Names
  /\ \A n \in Networks, k \in Keys :
       /\ WalletName(n, k) \in Names /\ BareName(n, k) \in Names
       /\ WalletName(n, k) # DefaultName /\ BareName(n, k) # DefaultName
       /\ \A m \in Networks, j \in Keys :
            /\ WalletName(n, k) # BareName(m, j)
            /\ WalletName(n, k) = WalletName(m, j) => k = j
BY DEF Names, WalletName, BareName, DefaultName

\* An empty store is sound.
LEMMA EmptySound == Sound(Empty) /\ Empty[DefaultName] = None /\ \A k \in Keys : ~HasKey(Empty, k)
BY NameFacts, WalletAssumption DEF Sound, Empty, Entries, Keyed, Listed, HasKey

\* import and the first half of generate_addr
LEMMA KeyAdded ==
  ASSUME NEW e, Sound(e), NEW n \in Networks, NEW k \in Keys
  PROVE  LET f == [e EXCEPT ![WalletName(n, k)] = k] IN
         /\ Sound(f) /\ f[DefaultName] = e[DefaultName]
         /\ \A j \in Keys : HasKey(f, j) <=> HasKey(e, j) \/ j = k
<1> DEFINE f == [e EXCEPT ![WalletName(n, k)] = k]
<1>1. e \in Entries /\ f \in Entries
  BY NameFacts DEF Sound, Entries
<1>2. \A m \in Names : f[m] = IF m = WalletName(n, k) THEN k ELSE e[m]
  BY <1>1 DEF Entries
<1> HIDE DEF f
<1>3. Keyed(f)
  BY <1>2, NameFacts DEF Sound, Keyed
<1>4. f[DefaultName] = e[DefaultName]
  BY <1>2, NameFacts
<1>5. \A j \in Keys : HasKey(f, j) <=> HasKey(e, j) \/ j = k
  BY <1>2, NameFacts DEF HasKey
<1>6. Listed(f)
  BY <1>1, <1>4, <1>5, NameFacts DEF Sound, Listed, Entries
<1> QED
  BY <1>1, <1>3, <1>4, <1>5, <1>6 DEF Sound, f

\* An entry that is not the one of a key of the wallet.
LEMMA OtherEntry ==
  ASSUME NEW e, Sound(e), NEW name \in Names, NEW v \in Keys \cup {None},
         \A n \in Networks, k \in Keys : name # WalletName(n, k),
         name = DefaultName => v = None \/ HasKey(e, v)
  PROVE  LET f == [e EXCEPT ![name] = v] IN
         /\ Sound(f) /\ SameKeys(e, f) /\ f[name] = v
         /\ name # DefaultName => f[DefaultName] = e[DefaultName]
<1> DEFINE f == [e EXCEPT ![name] = v]
<1>1. e \in Entries /\ f \in Entries
  BY DEF Sound, Entries
<1>2. \A m \in Names : f[m] = IF m = name THEN v ELSE e[m]
  BY <1>1 DEF Entries
<1> HIDE DEF f
<1>3. \A n \in Networks, k \in Keys : f[WalletName(n, k)] = e[WalletName(n, k)]
  BY <1>2, NameFacts
<1>4. Keyed(f) /\ SameKeys(e, f)
  BY <1>3 DEF Sound, Keyed, SameKeys, HasKey
<1>5. f[name] = v /\ (name # DefaultName => f[DefaultName] = e[DefaultName])
  BY <1>2, NameFacts
<1>6. Listed(f)
  BY <1>1, <1>4, <1>5, NameFacts DEF Sound, Listed, Entries, SameKeys
<1> QED
  BY <1>1, <1>4, <1>5, <1>6 DEF Sound, f

-----------------------------------------------------------------------------
(* Steps of the key store. *)

\* The initial states satisfy the invariant.
LEMMA InitInv == Init => Inv /\ KeyMap!Init
<1> SUFFICES ASSUME Init PROVE Inv /\ KeyMap!Init
  OBVIOUS
<1>1. Sound(Empty) /\ Empty \in Entries
  BY EmptySound DEF Sound
<1>2. TypeOK
  BY <1>1 DEF Init, TypeOK, Rests
<1>3. RestInv /\ FileInv
  BY DEF Init, RestInv, FileInv, Done
<1>4. StoredKeys = {} /\ Chosen = None
  BY EmptySound DEF Init, StoredKeys, Chosen, Memory, Done
<1> QED
  BY <1>1, <1>2, <1>3, <1>4 DEF Init, Inv, KeyMap!Init

\* An operation that returns at once changes nothing.
LEMMA ReturnStep ==
  ASSUME Inv, pc = "up", Return, UNCHANGED <<kind, file, disk, network, keys, faulted>>
  PROVE  Inv' /\ MapStep
<1>1. pc' = pc /\ then' = then /\ keyInfo' = keyInfo
  BY DEF Inv, TypeOK, Return
<1>2. Inv'
  BY <1>1 DEF Inv, TypeOK, RestInv, FileInv
<1>3. UNCHANGED <<StoredKeys, Chosen>>
  BY <1>1 DEF StoredKeys, Chosen, Memory
<1> QED
  BY <1>2, <1>3 DEF MapStep

\* New entries, with a flush and possibly a second half of the operation to come.
LEMMA StoreStep ==
  ASSUME Inv, pc = "up", NEW e, NEW r \in Rests, Store(e, r), Sound(e),
         UNCHANGED <<kind, file, disk, network, keys, faulted>>,
         \A k \in Keys : HasKey(keyInfo, k) => HasKey(e, k),
         r.op # "return" => HasKey(e, r.key),
         r.op = "setDefault" => e[DefaultName] = None
  PROVE  /\ Inv'
         /\ StoredKeys = {k \in Keys : HasKey(keyInfo, k)} /\ Chosen = keyInfo[DefaultName]
         /\ StoredKeys' = {k \in Keys : HasKey(e, k)}
         /\ Chosen' = IF r.op = "setDefault" THEN r.key ELSE e[DefaultName]
<1>1. keyInfo' = e /\ pc' = "truncate" /\ then' = r
  BY DEF Store
<1>2. TypeOK'
  BY <1>1 DEF Inv, TypeOK, Sound
<1>4. RestInv' /\ FileInv'
  BY <1>1 DEF Inv, RestInv, FileInv
<1>5. Inv'
  BY <1>1, <1>2, <1>4 DEF Inv
<1>6. then.op = "return"
  BY DEF Inv, TypeOK, Done
<1> QED
  BY <1>1, <1>5, <1>6 DEF StoredKeys, Chosen, Memory

-----------------------------------------------------------------------------
(* The operations of the wallet; one lemma for each. *)

\* put of a key under its name, as import and generate_addr call it
LEMMA PutKeyStep ==
  ASSUME Inv, pc = "up", NEW k \in Keys, NEW r \in {Done, [op |-> "generate", key |-> k]},
         Put(WalletName(network, k), k, r), UNCHANGED <<kind, file, disk, network, keys, faulted>>
  PROVE  Inv' /\ MapStep
<1> DEFINE e == [keyInfo EXCEPT ![WalletName(network, k)] = k]
<1>1. network \in Networks /\ Sound(keyInfo)
  BY DEF Inv, TypeOK
<1>2. /\ Sound(e) /\ e[DefaultName] = keyInfo[DefaultName]
      /\ \A j \in Keys : HasKey(e, j) <=> HasKey(keyInfo, j) \/ j = k
  BY <1>1, KeyAdded
<1>3. /\ r \in Rests /\ r.op # "setDefault"
      /\ r.op # "return" => r.key = k
  BY DEF Rests, Done
<1> HIDE DEF e
<1>4. CASE Return
  BY <1>4, ReturnStep
<1>5. CASE Store(e, r)
  <2>1. /\ Inv'
        /\ StoredKeys = {j \in Keys : HasKey(keyInfo, j)} /\ Chosen = keyInfo[DefaultName]
        /\ StoredKeys' = {j \in Keys : HasKey(e, j)} /\ Chosen' = e[DefaultName]
    BY <1>2, <1>3, <1>5, StoreStep
  <2>2. StoredKeys' = StoredKeys \cup {k} /\ Chosen' = Chosen
    BY <1>2, <2>1
  <2> QED
    BY <2>1, <2>2 DEF MapStep, KeyMap!Next, KeyMap!Add
<1> QED
  BY <1>4, <1>5 DEF Put, e

\* Import keeps the invariant.
LEMMA ImportStep ==
  ASSUME Inv, NEW k \in Keys, Import(k)
  PROVE  Inv' /\ MapStep
BY PutKeyStep DEF Import

\* GenerateAddr keeps the invariant.
LEMMA GenerateAddrStep ==
  ASSUME Inv, NEW k \in Keys, GenerateAddr(k)
  PROVE  Inv' /\ MapStep
BY PutKeyStep DEF GenerateAddr

\* The default is written, or cleared for a second half that writes it: either
\* way the key map chooses k.
LEMMA SetDefaultStep ==
  ASSUME Inv, NEW k \in Keys, SetDefault(k)
  PROVE  Inv' /\ MapStep
<1>1. network \in Networks /\ Sound(keyInfo) /\ pc = "up"
  BY DEF Inv, TypeOK, SetDefault
<1>2. keyInfo[WalletName(network, k)] # None => HasKey(keyInfo, k)
  BY <1>1 DEF Sound, Keyed, HasKey
<1>3. UNCHANGED <<kind, file, disk, network, keys, faulted>>
  BY DEF SetDefault
<1>4. ASSUME NEW v \in {None, k}, NEW r \in Rests, HasKey(keyInfo, k),
             Store([keyInfo EXCEPT ![DefaultName] = v], r),
             \/ v = k /\ r.op = "return"
             \/ v = None /\ r.op = "setDefault" /\ r.key = k
      PROVE  Inv' /\ MapStep
  <2> DEFINE e == [keyInfo EXCEPT ![DefaultName] = v]
  <2>1. \A n \in Networks, j \in Keys : DefaultName # WalletName(n, j)
    BY NameFacts
  <2>2. Sound(e) /\ SameKeys(keyInfo, e) /\ e[DefaultName] = v
    BY <1>1, <1>4, <2>1, NameFacts, OtherEntry
  <2> HIDE DEF e
  <2>3. HasKey(e, k)
    BY <1>4, <2>2 DEF SameKeys
  <2>4. Store(e, r)
    BY <1>4 DEF e
  <2>5. /\ Inv'
        /\ StoredKeys = {j \in Keys : HasKey(keyInfo, j)}
        /\ StoredKeys' = {j \in Keys : HasKey(e, j)}
        /\ Chosen' = IF r.op = "setDefault" THEN r.key ELSE e[DefaultName]
    BY <1>1, <1>3, <1>4, <2>2, <2>3, <2>4, StoreStep DEF SameKeys
  <2>6. StoredKeys' = StoredKeys /\ k \in StoredKeys /\ Chosen' = k
    BY <1>4, <2>2, <2>5 DEF SameKeys
  <2> QED
    BY <2>5, <2>6 DEF MapStep, KeyMap!Next, KeyMap!Choose
<1>5. CASE Return
  BY <1>1, <1>3, <1>5, ReturnStep
<1>6. CASE HasKey(keyInfo, k) /\ keyInfo[DefaultName] # None
           /\ Delete(DefaultName, [op |-> "setDefault", key |-> k])
  <2>1. [op |-> "setDefault", key |-> k] \in Rests
    BY DEF Rests
  <2> QED
    BY <1>4, <1>6, <2>1 DEF Delete
<1>7. CASE HasKey(keyInfo, k) /\ keyInfo[DefaultName] = None /\ Put(DefaultName, k, Done)
  <2>1. Done \in Rests /\ Done.op = "return"
    BY DEF Rests, Done
  <2> QED
    BY <1>4, <1>7, <2>1 DEF Put
<1> QED
  BY <1>2, <1>5, <1>6, <1>7 DEF SetDefault

\* remove takes an entry away that is not the one of a key.
LEMMA RemoveStep ==
  ASSUME Inv, NEW k \in Keys, Remove(k)
  PROVE  Inv' /\ MapStep
<1> DEFINE name == BareName(network, k)
           e == [keyInfo EXCEPT ![name] = None]
<1>1. network \in Networks /\ Sound(keyInfo) /\ pc = "up"
  BY DEF Inv, TypeOK, Remove
<1>2. /\ name \in Names /\ name # DefaultName
      /\ \A n \in Networks, j \in Keys : name # WalletName(n, j)
  BY <1>1, NameFacts
<1>3. Sound(e) /\ SameKeys(keyInfo, e) /\ e[DefaultName] = keyInfo[DefaultName]
  BY <1>1, <1>2, OtherEntry
<1>4. Done \in Rests /\ Done.op = "return"
  BY DEF Rests, Done
<1>5. UNCHANGED <<kind, file, disk, network, keys, faulted>> /\ (Return \/ Store(e, Done))
  BY DEF Remove, RemovedName, Delete
<1> HIDE DEF name, e
<1>6. CASE Return
  BY <1>1, <1>5, <1>6, ReturnStep
<1>7. CASE Store(e, Done)
  <2>1. /\ Inv'
        /\ StoredKeys = {j \in Keys : HasKey(keyInfo, j)} /\ Chosen = keyInfo[DefaultName]
        /\ StoredKeys' = {j \in Keys : HasKey(e, j)} /\ Chosen' = e[DefaultName]
    BY <1>1, <1>3, <1>4, <1>5, <1>7, StoreStep DEF SameKeys
  <2>2. UNCHANGED <<StoredKeys, Chosen>>
    BY <1>3, <2>1 DEF SameKeys
  <2> QED
    BY <2>1, <2>2 DEF MapStep
<1> QED
  BY <1>5, <1>6, <1>7

\* FindKey keeps the invariant: it changes the cache only.
LEMMA FindKeyStep ==
  ASSUME Inv, NEW k \in Keys, FindKey(k)
  PROVE  Inv' /\ MapStep
<1>2. TypeOK'
  BY DEF FindKey, Inv, TypeOK
<1>3. Inv'
  BY <1>2 DEF FindKey, Inv, RestInv, FileInv
<1>4. UNCHANGED <<StoredKeys, Chosen>>
  BY DEF FindKey, StoredKeys, Chosen, Memory
<1> QED
  BY <1>3, <1>4 DEF MapStep

-----------------------------------------------------------------------------
(* The file: opening, flushing, failing. *)

\* Open keeps the invariant.
LEMMA OpenStep ==
  ASSUME Inv, Open
  PROVE  Inv' /\ MapStep
<1>1. pc = "down" /\ then.op = "return"
  BY DEF Open, Inv, TypeOK, Done
<1>2. keyInfo' = disk /\ pc' = "up" /\ UNCHANGED <<kind, disk, keys, then, faulted>>
  BY DEF Open, Inv, FileInv
<1>3. file' \in {"absent", "empty", "torn", "whole"} /\ (file' # "whole" => disk' = Empty)
  BY <1>2 DEF Open, Inv, TypeOK, FileInv
<1>4. TypeOK'
  BY <1>2, <1>3 DEF Open, Inv, TypeOK
<1>5. RestInv' /\ FileInv'
  BY <1>1, <1>2, <1>3 DEF RestInv, FileInv
<1>6. Inv'
  BY <1>2, <1>4, <1>5 DEF Inv
<1>7. UNCHANGED <<StoredKeys, Chosen>>
  BY <1>1, <1>2 DEF StoredKeys, Chosen, Memory
<1> QED
  BY <1>6, <1>7 DEF MapStep

\* Truncate keeps the invariant.
LEMMA TruncateStep ==
  ASSUME Inv, Truncate
  PROVE  Inv' /\ MapStep
<1>1. TypeOK'
  BY EmptySound DEF Truncate, Inv, TypeOK, Sound
<1>2. Inv'
  BY <1>1, EmptySound DEF Truncate, Inv, RestInv, FileInv
<1>3. UNCHANGED <<StoredKeys, Chosen>>
  BY DEF Truncate, StoredKeys, Chosen, Memory
<1> QED
  BY <1>2, <1>3 DEF MapStep

\* What an operation does after its flush keeps the entries sound, and the only
\* change it makes to the key map is that generate_addr chooses a first default.
LEMMA ResumeStep ==
  ASSUME Inv, pc = "write", Resume, UNCHANGED <<kind, network>>
  PROVE  /\ Sound(keyInfo') /\ RestInv' /\ keys' \in SUBSET Keys
         /\ \/ pc' = "up" /\ keyInfo' = keyInfo
            \/ pc' = "truncate"
         /\ then' = Done
         /\ UNCHANGED <<StoredKeys, Chosen>> \/ KeyMap!Next
<1>1. /\ Sound(keyInfo) /\ then \in Rests
      /\ StoredKeys = {k \in Keys : HasKey(keyInfo, k)}
      /\ Done.op = "return"
  BY DEF Inv, TypeOK, StoredKeys, Memory, Done
<1>2. then.op # "return" => then.key \in Keys /\ HasKey(keyInfo, then.key)
  BY <1>1 DEF Inv, RestInv, Rests, Done
<1>3. keys' \in SUBSET Keys
  BY <1>2 DEF Inv, TypeOK, Resume
<1>4. CASE Return /\ then.op # "setDefault"
  <2>1. pc' = "up" /\ keyInfo' = keyInfo /\ then' = Done
    BY <1>4 DEF Return
  <2>2. UNCHANGED <<StoredKeys, Chosen>>
    BY <1>1, <1>4, <2>1 DEF StoredKeys, Chosen, Memory
  <2>3. RestInv'
    BY <1>1, <1>3, <2>1 DEF RestInv
  <2> QED
    BY <1>1, <1>3, <2>1, <2>2, <2>3
<1>5. ASSUME then.op \in {"generate", "setDefault"}, keyInfo[DefaultName] = None,
             Put(DefaultName, then.key, Done)
      PROVE  /\ Sound(keyInfo') /\ RestInv'
             /\ pc' = "truncate" /\ then' = Done
             /\ UNCHANGED <<StoredKeys, Chosen>> \/ KeyMap!Next
  <2> DEFINE k == then.key
             e == [keyInfo EXCEPT ![DefaultName] = k]
  <2>1. k \in Keys /\ HasKey(keyInfo, k)
    BY <1>2, <1>5
  <2>2. keyInfo' = e /\ pc' = "truncate" /\ then' = Done
    BY <1>5 DEF Put, Store
  <2>3. \A n \in Networks, j \in Keys : DefaultName # WalletName(n, j)
    BY NameFacts
  <2>4. Sound(e) /\ SameKeys(keyInfo, e) /\ e[DefaultName] = k
    BY <1>1, <2>1, <2>3, NameFacts, OtherEntry
  <2> HIDE DEF e
  <2>5. RestInv'
    BY <1>1, <1>3, <2>2, <2>4 DEF RestInv, SameKeys
  <2>6. StoredKeys' = StoredKeys /\ Chosen' = k
    BY <1>1, <2>2, <2>4 DEF StoredKeys, Chosen, Memory, SameKeys
  <2>7. k \in StoredKeys
    BY <1>1, <2>1
  <2> QED
    BY <2>1, <2>2, <2>4, <2>5, <2>6, <2>7 DEF KeyMap!Next, KeyMap!Choose
<1>6. CASE then.op = "return"
  BY <1>4, <1>6 DEF Resume
<1>7. CASE then.op = "generate"
  BY <1>3, <1>4, <1>5, <1>7 DEF Resume
<1>8. CASE then.op = "setDefault"
  BY <1>3, <1>5, <1>8 DEF Resume, Inv, RestInv
<1> QED
  BY <1>1, <1>6, <1>7, <1>8 DEF Rests, Done

\* Write keeps the invariant.
LEMMA WriteStep ==
  ASSUME Inv, Write
  PROVE  Inv' /\ MapStep
<1>1. /\ Sound(keyInfo') /\ RestInv' /\ keys' \in SUBSET Keys
      /\ \/ pc' = "up" /\ keyInfo' = keyInfo
         \/ pc' = "truncate"
      /\ then' = Done
      /\ UNCHANGED <<StoredKeys, Chosen>> \/ KeyMap!Next
  BY ResumeStep DEF Write
<1>2. TypeOK'
  BY <1>1 DEF Write, Inv, TypeOK, Sound, Rests
<1>3. FileInv'
  BY <1>1 DEF Write, FileInv
<1>4. Inv'
  BY <1>1, <1>2, <1>3 DEF Write, Inv
<1> QED
  BY <1>1, <1>4 DEF MapStep

\* A write that is cut off is a fault, and what is not a whole file holds no key.
LEMMA CutOffFile ==
  ASSUME Inv, CutOff, UNCHANGED disk
  PROVE  /\ faulted' = TRUE
         /\ file' \in {"absent", "empty", "torn", "whole"}
         /\ file' # "whole" => disk' = Empty
BY DEF CutOff, Inv, TypeOK, FileInv

\* FlushFails keeps the invariant.
LEMMA FlushFailsStep ==
  ASSUME Inv, FlushFails
  PROVE  Inv' /\ MapStep
<1>1. /\ faulted' = TRUE /\ file' \in {"absent", "empty", "torn", "whole"}
      /\ file' # "whole" => disk' = Empty
  BY CutOffFile DEF FlushFails
<1>2. pc' = "up" /\ then' = Done /\ keyInfo' = keyInfo
  BY DEF FlushFails, Return
<1>3. TypeOK'
  BY <1>1, <1>2 DEF FlushFails, Inv, TypeOK, Rests
<1>4. RestInv' /\ FileInv'
  BY <1>1, <1>2 DEF FlushFails, Inv, RestInv, FileInv, Done
<1> QED
  BY <1>1, <1>2, <1>3, <1>4 DEF FlushFails, Inv, MapStep

\* WriteLost keeps the invariant.
LEMMA WriteLostStep ==
  ASSUME Inv, WriteLost
  PROVE  Inv' /\ MapStep
<1>1. /\ faulted' = TRUE /\ file' \in {"absent", "empty", "torn", "whole"}
      /\ file' # "whole" => disk' = Empty
  BY CutOffFile DEF WriteLost
<1>2. /\ Sound(keyInfo') /\ RestInv' /\ keys' \in SUBSET Keys
      /\ pc' \in {"up", "truncate"} /\ then' = Done
  BY ResumeStep DEF WriteLost
<1>3. TypeOK' /\ FileInv'
  BY <1>1, <1>2 DEF WriteLost, Inv, TypeOK, Sound, Rests, FileInv
<1> QED
  BY <1>1, <1>2, <1>3 DEF WriteLost, Inv, MapStep

\* Exit keeps the invariant.
LEMMA ExitStep ==
  ASSUME Inv, Exit
  PROVE  Inv' /\ MapStep
<1>1. /\ pc' = "down" /\ keyInfo' = Empty /\ keys' = {} /\ then' = Done
      /\ UNCHANGED <<kind, disk, network>>
  BY DEF Exit
<1>2. /\ file' \in {"absent", "empty", "torn", "whole"}
      /\ file' # "whole" => disk' = Empty
      /\ faulted' \in BOOLEAN
  BY <1>1, CutOffFile DEF Exit, Inv, TypeOK, FileInv
<1>3. TypeOK'
  BY <1>1, <1>2, EmptySound DEF Inv, TypeOK, Rests, Sound
<1>4. RestInv' /\ FileInv'
  BY <1>1, <1>2 DEF RestInv, FileInv, Done
<1>5. Inv'
  BY <1>1, <1>3, <1>4, EmptySound DEF Inv
<1>6. CASE faulted'
  BY <1>5, <1>6 DEF MapStep
<1>7. CASE ~faulted'
  <2>1. pc = "up" /\ ~faulted /\ disk = keyInfo /\ then.op = "return"
    BY <1>7 DEF Exit, CutOff, Inv, TypeOK, FileInv, Done
  <2>2. UNCHANGED <<StoredKeys, Chosen>>
    BY <1>1, <2>1 DEF StoredKeys, Chosen, Memory, Done
  <2> QED
    BY <1>5, <2>2 DEF MapStep
<1> QED
  BY <1>6, <1>7

-----------------------------------------------------------------------------
\* Every step preserves the invariant and is a step of the key map.
LEMMA NextStep ==
  ASSUME Inv, [Next]_vars
  PROVE  Inv' /\ MapStep
<1>1. CASE UNCHANGED vars
  <2>1. UNCHANGED <<kind, file, disk, pc, network, keyInfo, keys, then, faulted>>
    BY <1>1 DEF vars
  <2>2. Inv'
    BY <2>1 DEF Inv, TypeOK, RestInv, FileInv
  <2>3. UNCHANGED <<StoredKeys, Chosen>>
    BY <2>1 DEF StoredKeys, Chosen, Memory
  <2> QED
    BY <2>2, <2>3 DEF MapStep
<1>2. CASE Next
  BY <1>2, OpenStep, ImportStep, GenerateAddrStep, SetDefaultStep, RemoveStep, FindKeyStep,
     TruncateStep, WriteStep, FlushFailsStep, WriteLostStep, ExitStep DEF Next
<1> QED
  BY <1>1, <1>2

\* The invariant is one of the specification.
LEMMA Invariance == Spec => []Inv
<1>1. Inv /\ [Next]_vars => Inv'
  BY NextStep
<1> QED
  BY <1>1, InitInv, PTL DEF Spec

\* Wallet and KeyStore keep their types, and an operation that has returned has
\* nothing left to do.
THEOREM TypeCorrect == Spec => []TypeOK
<1>1. Inv => TypeOK
  BY DEF Inv
<1> QED
  BY <1>1, Invariance, PTL

\* The default key of the wallet is one of its keys, in memory and in the file,
\* wherever generate_addr and set_default were cut off.
THEOREM DefaultStaysListed == Spec => []DefaultIsListed
<1>1. Inv => DefaultIsListed
  BY DEF Inv, Sound, DefaultIsListed
<1> QED
  BY <1>1, Invariance, PTL

\* Until a flush fails, is lost or is cut off, the wallet implements the durable
\* map of keys with a default: restarts, changes of the network and the two
\* flushes of generate_addr and set_default included.
THEOREM WalletImplementsKeyMap == Spec => KeyMapUntilFault
<1>1. Init => KeyMap!Init
  BY InitInv
<1>2. Inv /\ [Next]_vars => MapStep
  BY NextStep
<1> QED
  BY <1>1, <1>2, Invariance, PTL DEF Spec, KeyMapUntilFault, MapStep
=============================================================================
