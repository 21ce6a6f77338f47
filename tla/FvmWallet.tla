----------------------------- MODULE FvmWallet -----------------------------
(***************************************************************************)
(* The FVM wallet (ipc/identity/src/fvm): the cache of keys of Wallet over *)
(* the named entries of KeyStore, which rewrites its file on every put and *)
(* every remove.  generate_addr and set_default change the store twice, so *)
(* they flush twice, and may be cut off in between.                        *)
(*                                                                         *)
(* A key stands for its KeyInfo and for the address derived from it.  The  *)
(* text of an address, and with it the name of an entry, depends on the    *)
(* network the process runs on.                                            *)
(***************************************************************************)
EXTENDS FiniteSets

CONSTANTS
  Keys,
  None,           \* no entry under a name
  Kinds,          \* kinds of key store: "persistent", "encrypted"
  Networks        \* "f" (mainnet), "t" (testnet)

ASSUME WalletAssumption ==
  /\ None \notin Keys
  /\ Kinds \subseteq {"persistent", "encrypted"}
  /\ Networks \subseteq {"f", "t"}

VARIABLES
  kind,       \* KeyStoreConfig
  file,       \* the key file: "absent", "empty", "torn" or "whole"
  disk,       \* the entries of a whole file
  pc,         \* "down", "up", "truncate" or "write"
  network,    \* set_current_network
  keyInfo,    \* KeyStore.key_info
  keys,       \* Wallet.keys
  then,       \* what the operation still does after its flush
  faulted     \* history: a flush has not completed

vars == <<kind, file, disk, pc, network, keyInfo, keys, then, faulted>>

WalletName(n, k) == [prefix |-> "wallet-", net |-> n, key |-> k]
BareName(n, k)   == [prefix |-> "", net |-> n, key |-> k]
DefaultName      == [prefix |-> "default", net |-> "", key |-> None]

Names == [prefix : {"wallet-", ""}, net : Networks, key : Keys] \cup {DefaultName}
Entries == [Names -> Keys \cup {None}]
Empty   == [n \in Names |-> None]

Done == [op |-> "return", key |-> None]
Rests == {Done} \cup [op : {"generate", "setDefault"}, key : Keys]

Init ==
  /\ kind \in Kinds
  /\ file = "absent"
  /\ disk = Empty
  /\ pc = "down"
  /\ network \in Networks
  /\ keyInfo = Empty
  /\ keys = {}
  /\ then = Done
  /\ faulted = FALSE

-----------------------------------------------------------------------------
(* KeyStore::new.  A clear text file that cannot be read counts as empty;  *)
(* an encrypted one is created when it is missing, counts as empty when it *)
(* has no bytes, and cannot be opened when it does not decrypt.            *)

Open ==
  /\ pc = "down"
  /\ kind = "encrypted" => file # "torn"
  /\ pc' = "up"
  /\ network' \in Networks
  /\ keyInfo' = IF file = "whole" THEN disk ELSE Empty
  /\ file' = IF kind = "encrypted" /\ file = "absent" THEN "empty" ELSE file
  /\ UNCHANGED <<kind, disk, keys, then, faulted>>

-----------------------------------------------------------------------------
(* KeyStore::put and KeyStore::remove, up to the flush. *)

Return ==
  /\ pc' = "up"
  /\ then' = Done
  /\ UNCHANGED keyInfo

Store(entries, rest) ==
  /\ keyInfo' = entries
  /\ pc' = "truncate"
  /\ then' = rest

\* Mutant: put does not flush.
PutUnflushed(name, k, rest) ==
  \/ /\ keyInfo[name] # None
     /\ Return
  \/ /\ keyInfo[name] = None
     /\ keyInfo' = [keyInfo EXCEPT ![name] = k]
     /\ pc' = "up" /\ then' = Done

Put(name, k, rest) ==
  \/ /\ keyInfo[name] # None
     /\ Return
  \/ /\ keyInfo[name] = None
     /\ Store([keyInfo EXCEPT ![name] = k], rest)

Delete(name, rest) ==
  \/ /\ keyInfo[name] = None
     /\ Return
  \/ /\ keyInfo[name] # None
     /\ Store([keyInfo EXCEPT ![name] = None], rest)

-----------------------------------------------------------------------------
(* Wallet *)

Import(k) ==
  /\ pc = "up"
  /\ Put(WalletName(network, k), k, Done)
  /\ UNCHANGED <<kind, file, disk, network, keys, faulted>>

\* Mutant: the new key becomes the default before it is stored.
GenerateAddrDefaultFirst(k) ==
  /\ pc = "up"
  /\ \A n \in Names : keyInfo[n] # k /\ disk[n] # k
  /\ IF keyInfo[DefaultName] = None
     THEN Store([keyInfo EXCEPT ![DefaultName] = k], [op |-> "generate", key |-> k])
     ELSE Put(WalletName(network, k), k, Done)
  /\ UNCHANGED <<kind, file, disk, network, keys, faulted>>

\* A key that nobody had before.
GenerateAddr(k) ==
  /\ pc = "up"
  /\ \A n \in Names : keyInfo[n] # k /\ disk[n] # k
  /\ Put(WalletName(network, k), k, [op |-> "generate", key |-> k])
  /\ UNCHANGED <<kind, file, disk, network, keys, faulted>>

SetDefault(k) ==
  /\ pc = "up"
  /\ LET stored == keyInfo[WalletName(network, k)] IN
     \/ /\ stored = None
        /\ Return
     \/ /\ stored # None /\ keyInfo[DefaultName] # None
        /\ Delete(DefaultName, [op |-> "setDefault", key |-> k])
     \/ /\ stored # None /\ keyInfo[DefaultName] = None
        /\ Put(DefaultName, k, Done)
  /\ UNCHANGED <<kind, file, disk, network, keys, faulted>>

\* remove looks the address up without the prefix that import and
\* generate_addr store it under.
RemovedName(k) == BareName(network, k)

Remove(k) ==
  /\ pc = "up"
  /\ Delete(RemovedName(k), Done)
  /\ UNCHANGED <<kind, file, disk, network, keys, faulted>>

\* find_key, called by sign, export and has_key: the entry of the network, or
\* else of testnet, is cached.  Without one, the call is an error.
FindKey(k) ==
  /\ pc = "up"
  /\ k \notin keys
  /\ \E n \in {network, "t"} \cap Networks : keyInfo[WalletName(n, k)] # None
  /\ keys' = keys \cup {k}
  /\ UNCHANGED <<kind, file, disk, pc, network, keyInfo, then, faulted>>

-----------------------------------------------------------------------------
(* KeyStore::flush, and what the operation does after it. *)

Truncate ==
  /\ pc = "truncate"
  /\ pc' = "write"
  /\ file' = "empty"
  /\ disk' = Empty
  /\ UNCHANGED <<kind, network, keyInfo, keys, then, faulted>>

Resume ==
  \/ /\ then.op = "return"
     /\ Return
     /\ UNCHANGED keys
  \/ /\ then.op = "generate"
     /\ keys' = keys \cup {then.key}
     /\ \/ keyInfo[DefaultName] # None /\ Return
        \/ keyInfo[DefaultName] = None /\ Put(DefaultName, then.key, Done)
  \/ /\ then.op = "setDefault"
     /\ Put(DefaultName, then.key, Done)
     /\ UNCHANGED keys

Write ==
  /\ pc = "write"
  /\ file' = "whole"
  /\ disk' = keyInfo
  /\ Resume
  /\ UNCHANGED <<kind, network, faulted>>

\* What a flush that was cut off leaves of the file.
CutOff ==
  /\ file' \in IF pc = "write" THEN {"empty", "torn"} ELSE {file}
  /\ faulted' = TRUE

\* Mutant: after the error of a flush, the operation is not ended.
FlushFailsUnnoticed ==
  /\ pc \in {"truncate", "write"}
  /\ CutOff
  /\ pc' = "up"
  /\ UNCHANGED <<kind, disk, network, keyInfo, keys, then>>

\* The error of File::create, or of a write while serialising, ends the
\* operation; the memory is ahead of the file.
FlushFails ==
  /\ pc \in {"truncate", "write"}
  /\ CutOff
  /\ Return
  /\ UNCHANGED <<kind, disk, network, keys>>

\* The text is written when the BufWriter is dropped, and an error there is
\* lost: the operation goes on as if the file had been written.
WriteLost ==
  /\ pc = "write"
  /\ CutOff
  /\ Resume
  /\ UNCHANGED <<kind, disk, network>>

\* The process ends: between two operations, or in the middle of a flush.
Exit ==
  /\ \/ pc = "up" /\ UNCHANGED <<file, faulted>>
     \/ pc \in {"truncate", "write"} /\ CutOff
  /\ pc' = "down"
  /\ keyInfo' = Empty
  /\ keys' = {}
  /\ then' = Done
  /\ UNCHANGED <<kind, disk, network>>

Next ==
  \/ Open
  \/ \E k \in Keys : Import(k) \/ GenerateAddr(k) \/ SetDefault(k) \/ Remove(k) \/ FindKey(k)
  \/ Truncate \/ Write \/ FlushFails \/ WriteLost \/ Exit

Spec == Init /\ [][Next]_vars
-----------------------------------------------------------------------------
(* Correctness. *)

\* Every variable has its type, and an operation that has returned, with an
\* error or without, has nothing left to do.
TypeOK ==
  /\ kind \in Kinds
  /\ file \in {"absent", "empty", "torn", "whole"}
  /\ disk \in Entries
  /\ pc \in {"down", "up", "truncate", "write"}
  /\ network \in Networks
  /\ keyInfo \in Entries
  /\ keys \in SUBSET Keys
  /\ then \in Rests
  /\ faulted \in BOOLEAN
  /\ pc \in {"down", "up"} => then = Done

HasKey(entries, k) == \E n \in Networks : entries[WalletName(n, k)] = k
Listed(entries) == entries[DefaultName] # None => HasKey(entries, entries[DefaultName])

\* The default key of the wallet is one of its keys, in memory and in the file,
\* wherever generate_addr or set_default was cut off between its two flushes.
DefaultIsListed == Listed(keyInfo) /\ Listed(disk)

\* Until a flush fails, is lost or is cut off, the wallet is a durable map of
\* keys with a default, over restarts and changes of the network; in the two
\* flushes of set_default the default changes from the old to the new one.
Memory == IF pc = "down" THEN disk ELSE keyInfo
StoredKeys == {k \in Keys : HasKey(Memory, k)}
Chosen == IF then.op = "setDefault" THEN then.key ELSE Memory[DefaultName]
KeyMap == INSTANCE DurableKeyMap WITH keys <- StoredKeys, chosen <- Chosen
KeyMapUntilFault ==
  KeyMap!Init /\ [][faulted' \/ KeyMap!Next]_<<StoredKeys, Chosen>>
=============================================================================
