------------------------ MODULE SubnetClientProofs -------------------------
(***************************************************************************)
(* Proofs about the subnet commands, for any number of clients, accounts,  *)
(* transactions and faults.                                                *)
(***************************************************************************)
EXTENDS SubnetClient, FiniteSetTheorems, SequenceTheorems, TLAPS

\* A pre-funding of the command that a client runs, and its other transaction, at
\* a place of a mempool.
PreAt(c, q, i)  == /\ i \in 1..Len(pool[q])
                   /\ pool[q][i].client = c /\ pool[q][i].op = "preFund"
MainAt(c, q, i) == /\ i \in 1..Len(pool[q])
                   /\ pool[q][i].client = c /\ pool[q][i].op # "preFund"

\* Which commands are at which of their steps.
JobInv(c) ==
  /\ step[c] = "idle" => job[c] = NoJob /\ sender[c] = None /\ c \notin late
  /\ step[c] \in {"idle", "initial"} => fate[c] = "none"
  /\ step[c] \in {"idle", "initial", "call"} => receipt[c] = "none"
  /\ answer[c] # "none" => step[c] = "done"
  /\ step[c] = "initial" => job[c].op = "join" /\ job[c].initial \in Amounts
  /\ step[c] = "call" => job[c].op \in Changes
  /\ step[c] \in {"call", "wait"} /\ job[c].op = "join" /\ job[c].initial # None => fate[c] # "none"
  /\ step[c] = "balances" => job[c].op = "genesis"
  /\ step[c] = "epoch" => job[c].op \in {"genesis", "genesisEpoch"}
  /\ step[c] = "genesisValidators" => job[c].op = "genesis"
  /\ step[c] \in {"staking", "active", "waiting"} => job[c].op = "validator"
  /\ job[c].op = "validator" => job[c].about \in Accounts

\* The transactions of a command are those of its account, and the pre-funding
\* of a join is before the join in the queue of the account.
PreInv(c) ==
  \A q \in Queues : \A i \in 1..Len(pool[q]) : PreAt(c, q, i) =>
    /\ step[c] \in {"call", "wait", "done"}
    /\ job[c].op \in {"join", "preFund"} /\ (step[c] = "call" => job[c].op = "join")
    /\ q = <<"parent", Account(c)>>
    /\ Bootstrapped(actor) => actor.genesis.by # c
MainInv(c) ==
  \A q \in Queues : \A i \in 1..Len(pool[q]) : MainAt(c, q, i) =>
    /\ step[c] \in {"wait", "done"} /\ pool[q][i].op = job[c].op
    /\ q = <<Chain(job[c].op), Account(c)>>
    /\ job[c].op = "join" /\ job[c].initial # None => fate[c] # "none"
OrderInv(c) ==
  \A q \in Queues : \A i, j \in 1..Len(pool[q]) : PreAt(c, q, i) /\ MainAt(c, q, j) => i < j
SentInv(c) ==
  fate[c] = "sent" => \E q \in Queues : \E i \in 1..Len(pool[q]) : PreAt(c, q, i)

\* A pre-funding reverts only because somebody else has bootstrapped the subnet.
RevertInv(c) == fate[c] = "reverted" => Bootstrapped(actor) /\ actor.genesis.by # c

\* Nothing is sent without an amount.
AmountInv ==
  \A q \in Queues : \A i \in 1..Len(pool[q]) :
    pool[q][i].op \in {"preFund", "join"} => pool[q][i].amount > 0

\* While a transaction that c waits for is pending there is one only, and it has
\* no receipt.  A join that was not overtaken would still be accepted.
PendingInv(c) ==
  \A q \in Queues : \A i \in 1..Len(pool[q]) : MainAt(c, q, i) =>
    /\ receipt[c] = "none"
    /\ \A j \in 1..Len(pool[q]) : MainAt(c, q, j) => j = i
    /\ step[c] = "wait" /\ job[c].op = "join" =>
         c \in raced \/ (~actor.killed /\ actor.total[Account(c)] = 0)

\* A command whose transaction has been mined: a join has decided its pre-funding
\* and was executed, or overtaken.
Mined(c) == receipt[c] \in {"ok", "reverted"}
MinedInv(c) ==
  /\ answer[c] = "epoch" => Mined(c)
  /\ Mined(c) /\ job[c].op = "join" =>
       /\ job[c].initial # None => fate[c] \notin {"none", "sent"}
       /\ step[c] = "wait" \/ answer[c] = "epoch" => receipt[c] = "ok" \/ c \in raced

\* What get_genesis_info has read.
GenesisInv(c) ==
  job[c].op = "genesis" =>
    /\ c \in late \/ step[c] = "genesisValidators" \/ answer[c] = "info" => Bootstrapped(actor)
    /\ c \in late /\ (step[c] \in {"epoch", "genesisValidators"} \/ answer[c] = "info") =>
         info[c].balances = actor.genesis.balances
    /\ answer[c] = "info" => info[c].validators = actor.genesis.validators

ClientInv(c) ==
  /\ JobInv(c) /\ PreInv(c) /\ MainInv(c) /\ OrderInv(c) /\ SentInv(c) /\ RevertInv(c)
  /\ PendingInv(c) /\ MinedInv(c) /\ GenesisInv(c)

\* The inductive invariant.
Inv ==
  /\ TypeOK
  /\ AmountInv
  /\ \A c \in Clients : ClientInv(c)

-----------------------------------------------------------------------------
(* The subnet actor. *)

\* The fields of the subnet actor's state.
LEMMA ActorFields ==
  ASSUME NEW s \in Actors
  PROVE  /\ s.total \in Ledger /\ s.confirmed \in Ledger /\ s.claimable \in Ledger
         /\ s.balance \in Ledger /\ s.active \in SUBSET Accounts /\ s.killed \in BOOLEAN
         /\ s.genesis \in [fixed : BOOLEAN, by : Clients \cup {None}, validators : Ledger,
                            balances : Ledger]
BY DEF Actors

\* Settling confirms the stakes and keeps the rest.
LEMMA SettledFacts ==
  ASSUME NEW s \in Actors
  PROVE  /\ Settled(s) \in Actors
         /\ Settled(s).total = s.total /\ Settled(s).confirmed = s.total
         /\ Settled(s).genesis = s.genesis /\ Settled(s).killed = s.killed
<1> DEFINE m == [a \in Accounts |-> IF Bootstrapped(s) /\ s.confirmed[a] > s.total[a]
                                    THEN s.claimable[a] + s.confirmed[a] - s.total[a]
                                    ELSE s.claimable[a]]
<1>1. \A a \in Accounts : s.confirmed[a] \in Nat /\ s.total[a] \in Nat /\ s.claimable[a] \in Nat
  BY ActorFields DEF Ledger
<1>2. m \in Ledger
  BY <1>1 DEF Ledger
<1>3. Settled(s) = [s EXCEPT !.confirmed = s.total, !.claimable = m]
  BY DEF Settled
<1> HIDE DEF m
<1> QED
  BY <1>2, <1>3, ActorFields DEF Actors

\* Changing a validator's stake.
LEMMA WithTotalFacts ==
  ASSUME NEW s \in Actors, NEW a \in Accounts, NEW n \in Nat
  PROVE  /\ WithTotal(s, a, n) \in Actors
         /\ WithTotal(s, a, n).total[a] = n
         /\ \A b \in Accounts \ {a} : WithTotal(s, a, n).total[b] = s.total[b]
         /\ WithTotal(s, a, n).genesis = s.genesis /\ WithTotal(s, a, n).killed = s.killed
<1> DEFINE l == [s.total EXCEPT ![a] = n]
           t == [s EXCEPT !.total = l]
<1>1. l \in Ledger /\ l[a] = n /\ \A b \in Accounts \ {a} : l[b] = s.total[b]
  BY ActorFields DEF Ledger
<1>2. WithTotal(s, a, n) = IF Bootstrapped(s) THEN t ELSE Settled(t)
  BY DEF WithTotal
<1> HIDE DEF l
<1>3. t \in Actors /\ t.total = l /\ t.genesis = s.genesis /\ t.killed = s.killed
  BY <1>1, ActorFields DEF Actors
<1> HIDE DEF t
<1> QED
  BY <1>1, <1>2, <1>3, SettledFacts

\* Bootstrapping the subnet.
LEMMA ActivatedFacts ==
  ASSUME NEW s \in Actors, NEW c \in Clients \cup {None}
  PROVE  /\ Activated(s, c) \in Actors
         /\ Activated(s, c).total = s.total /\ Activated(s, c).killed = s.killed
         /\ \/ Activated(s, c).genesis = s.genesis
            \/ ~Bootstrapped(s) /\ Activated(s, c).genesis.by = c
<1> DEFINE g == [fixed |-> TRUE, by |-> c, validators |-> s.total, balances |-> s.balance]
           t == [s EXCEPT !.genesis = g]
<1>1. Activated(s, c) = s \/ (~Bootstrapped(s) /\ Activated(s, c) = t)
  BY DEF Activated
<1>2. g \in [fixed : BOOLEAN, by : Clients \cup {None}, validators : Ledger, balances : Ledger]
      /\ g.by = c
  BY ActorFields
<1> HIDE DEF g
<1>3. t \in Actors /\ t.total = s.total /\ t.genesis = g /\ t.killed = s.killed
  BY <1>2, ActorFields DEF Actors
<1> HIDE DEF t
<1> QED
  BY <1>1, <1>2, <1>3

\* The genesis is fixed once, by the client whose transaction completes it; only
\* kill kills the subnet; only its own join makes an account a validator.
LEMMA ExecutedFacts ==
  ASSUME NEW s \in Actors, NEW a \in Accounts, NEW tx \in Txs, Accepts(s, a, tx)
  PROVE  /\ Executed(s, a, tx) \in Actors
         /\ tx.op # "kill" => Executed(s, a, tx).killed = s.killed
         /\ \/ Executed(s, a, tx).genesis = s.genesis
            \/ ~Bootstrapped(s) /\ tx.op # "preFund" /\ Executed(s, a, tx).genesis.by = tx.client
         /\ \A b \in Accounts : s.total[b] = 0 /\ ~(tx.op = "join" /\ b = a) =>
              Executed(s, a, tx).total[b] = 0
<1> DEFINE e == Executed(s, a, tx)
<1>1. tx.amount \in Nat /\ tx.client \in Clients \cup {None} /\ s.total[a] \in Nat /\ s.balance[a] \in Nat
  BY ActorFields DEF Txs, Ledger
<1>2. CASE tx.op \in {"join", "stake"}
  <2> DEFINE n == s.total[a] + tx.amount
             w == WithTotal(s, a, n)
  <2>1. n \in Nat /\ e = Activated(w, tx.client)
    BY <1>1, <1>2 DEF Executed
  <2>2. tx.op # "join" => s.total[a] # 0
    BY <1>1, <1>2 DEF Accepts
  <2> HIDE DEF n
  <2>3. /\ w \in Actors /\ w.genesis = s.genesis /\ w.killed = s.killed
        /\ \A b \in Accounts \ {a} : w.total[b] = s.total[b]
    BY <2>1, WithTotalFacts
  <2> HIDE DEF w, e
  <2> QED
    BY <1>1, <1>2, <2>1, <2>2, <2>3, ActivatedFacts DEF Bootstrapped, e
<1>3. CASE tx.op \in {"unstake", "leave"}
  <2>1. \E n \in Nat : e = WithTotal(s, a, n) /\ (s.total[a] = 0 => n = 0)
    <3>1. CASE tx.op = "unstake"
      <4>1. e = WithTotal(s, a, s.total[a] - tx.amount) /\ tx.amount < s.total[a]
        BY <3>1 DEF Executed, Accepts
      <4>2. s.total[a] - tx.amount \in Nat /\ s.total[a] # 0
        BY <1>1, <4>1
      <4> QED
        BY <4>1, <4>2
    <3>2. CASE tx.op = "leave"
      BY <3>2 DEF Executed
    <3> QED
      BY <1>3, <3>1, <3>2
  <2> HIDE DEF e
  <2> QED
    BY <1>3, <2>1, WithTotalFacts DEF e
<1>4. CASE tx.op \in {"preFund", "preRelease"}
  <2>1. \E n \in Nat : e = [s EXCEPT !.balance = [s.balance EXCEPT ![a] = n]]
    <3>1. CASE tx.op = "preFund"
      <4>1. e = [s EXCEPT !.balance = [s.balance EXCEPT ![a] = s.balance[a] + tx.amount]]
        BY <3>1 DEF Executed
      <4>2. s.balance[a] + tx.amount \in Nat
        BY <1>1
      <4> QED
        BY <4>1, <4>2
    <3>2. CASE tx.op = "preRelease"
      <4>1. e = [s EXCEPT !.balance = [s.balance EXCEPT ![a] = s.balance[a] - tx.amount]]
        BY <3>2 DEF Executed
      <4>2. s.balance[a] - tx.amount \in Nat
        BY <1>1, <3>2 DEF Accepts
      <4> QED
        BY <4>1, <4>2
    <3> QED
      BY <1>4, <3>1, <3>2
  <2>2. PICK n \in Nat : e = [s EXCEPT !.balance = [s.balance EXCEPT ![a] = n]]
    BY <2>1
  <2>3. [s.balance EXCEPT ![a] = n] \in Ledger
    BY ActorFields DEF Ledger
  <2> HIDE DEF e
  <2>4. e \in Actors /\ e.total = s.total /\ e.genesis = s.genesis /\ e.killed = s.killed
    BY <2>2, <2>3, ActorFields DEF Actors
  <2> QED
    BY <1>4, <2>4 DEF e
<1>5. CASE tx.op = "kill"
  <2>1. e = [s EXCEPT !.killed = TRUE]
    BY <1>5 DEF Executed
  <2>2. e \in Actors /\ e.total = s.total /\ e.genesis = s.genesis
    BY <2>1, ActorFields DEF Actors
  <2> QED
    BY <1>5, <2>2
<1>6. CASE tx.op = "claim"
  <2>1. e = [s EXCEPT !.claimable = [s.claimable EXCEPT ![a] = 0]]
    BY <1>6 DEF Executed
  <2>2. [s.claimable EXCEPT ![a] = 0] \in Ledger
    BY ActorFields DEF Ledger
  <2> HIDE DEF e
  <2>3. e \in Actors /\ e.total = s.total /\ e.genesis = s.genesis /\ e.killed = s.killed
    BY <2>1, <2>2, ActorFields DEF Actors
  <2> QED
    BY <1>6, <2>3 DEF e
<1>7. CASE tx.op \notin {"join", "stake", "unstake", "leave", "preFund", "preRelease", "kill", "claim"}
  <2>1. e = s
    BY <1>7 DEF Executed
  <2> QED
    BY <1>7, <2>1
<1> QED
  BY <1>2, <1>3, <1>4, <1>5, <1>6, <1>7

\* A transaction that reverts.
LEMMA RevertFacts ==
  ASSUME NEW s \in Actors, NEW a \in Accounts, NEW tx \in Txs, ~Accepts(s, a, tx), tx.amount > 0
  PROVE  /\ tx.op = "preFund" => Bootstrapped(s)
         /\ tx.op = "join" => s.killed \/ s.total[a] # 0
<1>1. s.total[a] \in Nat
  BY ActorFields DEF Ledger
<1> QED
  BY <1>1 DEF Accepts

\* The actor takes on a new state s, with other active validators perhaps.
LEMMA BecomesFacts ==
  ASSUME NEW s \in Actors, Becomes(s)
  PROVE  /\ actor' \in Actors /\ actor'.total = s.total
         /\ actor'.genesis = s.genesis /\ actor'.killed = s.killed
<1>1. \A A \in ActiveSets(s.confirmed) : A \in SUBSET Accounts
  BY DEF ActiveSets, Validators
<1>2. actor' = s \/ \E A \in ActiveSets(s.confirmed) : actor' = [s EXCEPT !.active = A]
  BY DEF Becomes
<1>3. ASSUME NEW A \in ActiveSets(s.confirmed), actor' = [s EXCEPT !.active = A]
      PROVE  /\ actor' \in Actors /\ actor'.total = s.total
             /\ actor'.genesis = s.genesis /\ actor'.killed = s.killed
  <2>1. A \in SUBSET Accounts
    BY <1>1
  <2> QED
    BY <1>3, <2>1, ActorFields DEF Actors
<1> QED
  BY <1>2, <1>3

-----------------------------------------------------------------------------
(* What a step of the chain or of another client leaves of the invariant.  *)

SameLocal(c) ==
  /\ step'[c] = step[c] /\ job'[c] = job[c] /\ sender'[c] = sender[c] /\ info'[c] = info[c]
  /\ answer'[c] = answer[c] /\ (c \in late' <=> c \in late)

\* A client that a step leaves alone keeps its part of the invariant.
LEMMA Unaffected ==
  ASSUME Inv, NEW c \in Clients, SameLocal(c), UNCHANGED <<actor, pool>>,
         fate'[c] = fate[c], receipt'[c] = receipt[c], c \in raced' <=> c \in raced
  PROVE  ClientInv(c)'
<1>1. ClientInv(c)
  BY DEF Inv
<1>2. Account(c)' = Account(c) /\ Bootstrapped(actor)' = Bootstrapped(actor)
  BY DEF Account, SameLocal, Bootstrapped
<1>3. JobInv(c)'
  BY <1>1 DEF ClientInv, JobInv, SameLocal
<1>4. PreInv(c)' /\ MainInv(c)' /\ OrderInv(c)' /\ SentInv(c)' /\ RevertInv(c)'
  BY <1>1, <1>2 DEF ClientInv, PreInv, MainInv, OrderInv, SentInv, RevertInv, SameLocal, PreAt, MainAt, Chain
<1>5. MinedInv(c)' /\ PendingInv(c)'
  BY <1>1, <1>2 DEF ClientInv, MinedInv, PendingInv, Mined, SameLocal, MainAt
<1>6. GenesisInv(c)'
  BY <1>1, <1>2 DEF ClientInv, GenesisInv, SameLocal
<1> QED
  BY <1>3, <1>4, <1>5, <1>6 DEF ClientInv

\* The actor moves on while c runs a query.
LEMMA QueryFrame ==
  ASSUME Inv, NEW c \in Clients, SameLocal(c),
         Bootstrapped(actor) => actor'.genesis = actor.genesis
  PROVE  GenesisInv(c)'
BY DEF Inv, ClientInv, GenesisInv, SameLocal, Bootstrapped

\* The mempool changes: what is left of c's transactions has moved up by k.
LEMMA QueueFrame ==
  ASSUME Inv, NEW c \in Clients, SameLocal(c), NEW k \in [Queues -> Nat],
         \A q \in Queues : \A i \in 1..Len(pool'[q]) : pool'[q][i].client = c =>
           i + k[q] \in 1..Len(pool[q]) /\ pool[q][i + k[q]] = pool'[q][i],
         \/ fate'[c] = fate[c]
         \/ fate'[c] # "none" /\ \E q \in Queues : \E i \in 1..Len(pool[q]) : PreAt(c, q, i),
         \/ receipt'[c] = receipt[c]
         \/ \E q \in Queues : \E i \in 1..Len(pool[q]) : MainAt(c, q, i),
         \A q \in Queues : \A i \in 1..Len(pool'[q]) : PreAt(c, q, i)' =>
           (Bootstrapped(actor)' => actor'.genesis.by # c)
  PROVE  JobInv(c)' /\ PreInv(c)' /\ MainInv(c)' /\ OrderInv(c)'
<1>1. JobInv(c) /\ PreInv(c) /\ MainInv(c) /\ OrderInv(c)
  BY DEF Inv, ClientInv
<1>2. Account(c)' = Account(c) /\ step'[c] = step[c] /\ job'[c] = job[c]
  BY DEF Account, SameLocal
<1>3. \A q \in Queues : \A i \in 1..Len(pool'[q]) :
        /\ PreAt(c, q, i)' => i + k[q] \in 1..Len(pool[q]) /\ PreAt(c, q, i + k[q])
        /\ MainAt(c, q, i)' => /\ i + k[q] \in 1..Len(pool[q]) /\ MainAt(c, q, i + k[q])
                               /\ pool[q][i + k[q]].op = pool'[q][i].op
  BY DEF PreAt, MainAt
<1>4. fate[c] # "none" => fate'[c] # "none"
  OBVIOUS
<1>5. step[c] \in {"idle", "initial"} => fate'[c] = fate[c]
  BY <1>1 DEF PreInv
<1>6. step[c] \in {"idle", "initial", "call"} => receipt'[c] = receipt[c]
  BY <1>1 DEF MainInv
<1>7. JobInv(c)'
  BY <1>1, <1>2, <1>4, <1>5, <1>6 DEF JobInv, SameLocal
<1>8. PreInv(c)'
  BY <1>1, <1>2, <1>3 DEF PreInv
<1>9. MainInv(c)'
  BY <1>1, <1>2, <1>3, <1>4 DEF MainInv, Chain
<1>10. OrderInv(c)'
  <2> SUFFICES ASSUME NEW q \in Queues, NEW i \in 1..Len(pool'[q]), NEW j \in 1..Len(pool'[q]),
                      PreAt(c, q, i)', MainAt(c, q, j)'
               PROVE  i < j
    BY DEF OrderInv
  <2>1. i + k[q] < j + k[q]
    BY <1>1, <1>3 DEF OrderInv
  <2>2. i \in Int /\ j \in Int /\ k[q] \in Int
    OBVIOUS
  <2> QED
    BY <2>1, <2>2
<1> QED
  BY <1>7, <1>8, <1>9, <1>10

\* The same, for a transaction that c waits for: as long as it is pending it has
\* no receipt, and what could make it revert is noted.
LEMMA PendingFrame ==
  ASSUME Inv, NEW c \in Clients, SameLocal(c), NEW k \in [Queues -> Nat],
         \A q \in Queues : \A i \in 1..Len(pool'[q]) : pool'[q][i].client = c =>
           i + k[q] \in 1..Len(pool[q]) /\ pool[q][i + k[q]] = pool'[q][i],
         \A q \in Queues : \A i \in 1..Len(pool'[q]) : MainAt(c, q, i)' =>
           /\ receipt'[c] = receipt[c]
           /\ step[c] = "wait" /\ job[c].op = "join" /\ ~actor.killed /\ actor.total[Account(c)] = 0 =>
                c \in raced' \/ (~actor'.killed /\ actor'.total[Account(c)] = 0),
         c \in raced => c \in raced'
  PROVE  PendingInv(c)'
<1>1. PendingInv(c) /\ Account(c)' = Account(c) /\ step'[c] = step[c] /\ job'[c] = job[c]
  BY DEF Inv, ClientInv, SameLocal, Account
<1>2. \A q \in Queues : \A i \in 1..Len(pool'[q]) : MainAt(c, q, i)' =>
        i + k[q] \in 1..Len(pool[q]) /\ MainAt(c, q, i + k[q])
  BY DEF MainAt
<1> SUFFICES ASSUME NEW q \in Queues, NEW i \in 1..Len(pool'[q]), MainAt(c, q, i)'
             PROVE  /\ receipt'[c] = "none"
                    /\ \A j \in 1..Len(pool'[q]) : MainAt(c, q, j)' => j = i
                    /\ step'[c] = "wait" /\ job'[c].op = "join" =>
                         c \in raced' \/ (~actor'.killed /\ actor'.total[Account(c)'] = 0)
  BY DEF PendingInv
<1>3. /\ i + k[q] \in 1..Len(pool[q]) /\ MainAt(c, q, i + k[q])
      /\ receipt[c] = "none"
      /\ step[c] = "wait" /\ job[c].op = "join" =>
           c \in raced \/ (~actor.killed /\ actor.total[Account(c)] = 0)
  BY <1>1, <1>2 DEF PendingInv
<1>4. ASSUME NEW j \in 1..Len(pool'[q]), MainAt(c, q, j)'
      PROVE  j = i
  <2>1. j + k[q] = i + k[q]
    BY <1>1, <1>2, <1>3, <1>4 DEF PendingInv
  <2>2. i \in Int /\ j \in Int /\ k[q] \in Int
    OBVIOUS
  <2> QED
    BY <2>1, <2>2
<1> QED
  BY <1>1, <1>3, <1>4

-----------------------------------------------------------------------------
(* The command line. *)

\* Only client c moves, and the chains do not.
LEMMA OwnStep ==
  ASSUME Inv, TypeOK', NEW c \in Clients, UNCHANGED <<actor, pool>>,
         \A d \in Clients \ {c} : /\ SameLocal(d) /\ fate'[d] = fate[d]
                                  /\ receipt'[d] = receipt[d] /\ (d \in raced' <=> d \in raced),
         ClientInv(c)'
  PROVE  Inv'
<1>1. \A d \in Clients : ClientInv(d)'
  BY Unaffected
<1>2. AmountInv'
  BY DEF Inv, AmountInv
<1> QED
  BY <1>1, <1>2 DEF Inv

\* A command begins: the step that each kind of command begins with.
Begins(c, j, label) ==
  \/ label = "call" /\ j.op \in Changes /\ j.initial = None /\ late' = late
  \/ label = "initial" /\ j.op = "join" /\ j.initial \in Amounts /\ late' = late
  \/ label = "balances" /\ j.op = "genesis"
     /\ late' = IF Bootstrapped(actor) THEN late \cup {c} ELSE late
  \/ label = "staking" /\ j.op = "validator" /\ j.about \in Accounts /\ late' = late
  \/ label = "epoch" /\ j.op = "genesisEpoch" /\ late' = late

\* Start keeps the invariant.
LEMMA StartStep ==
  ASSUME Inv, NEW c \in Clients, NEW j \in Jobs, NEW label, Start(c, j, label), Begins(c, j, label)
  PROVE  Inv'
<1>1. /\ step[c] = "idle" /\ ClientInv(c) /\ TypeOK
  BY DEF Start, Inv
<1>2. /\ sender[c] = None /\ answer[c] = "none" /\ receipt[c] = "none" /\ fate[c] = "none"
  BY <1>1 DEF ClientInv, JobInv
<1>3. /\ UNCHANGED <<actor, node, pool, raced, chosen, sender, receipt, info, answer, fate, faults>>
      /\ job' = [job EXCEPT ![c] = j] /\ step' = [step EXCEPT ![c] = label]
      /\ default' = [default EXCEPT ![c] = chosen]
      /\ started < MaxCommands /\ started' = started + 1
  BY DEF Start, chain
<1>4. /\ late' \subseteq Clients
      /\ \A d \in Clients \ {c} : d \in late' <=> d \in late
      /\ c \in late' => Bootstrapped(actor) \/ label # "balances"
  <2>1. late \subseteq Clients /\ c \notin late
    BY <1>1 DEF TypeOK, ClientInv, JobInv
  <2> QED
    BY <2>1 DEF Begins
<1>5. label \in Reading \cup {"initial", "call"}
  BY DEF Begins, Reading
<1>6. TypeOK'
  <2>1. started' \in 0..MaxCommands
    BY <1>1, <1>3, ClientAssumption DEF TypeOK
  <2>2. \A d \in Clients : sender'[d] # None => job'[d].from = None
    BY <1>1, <1>2, <1>3 DEF TypeOK
  <2> QED
    BY <1>1, <1>3, <1>4, <1>5, <2>1, <2>2 DEF TypeOK
<1>7. step'[c] = label /\ job'[c] = j
  BY <1>1, <1>3 DEF TypeOK
<1>8. \A d \in Clients \ {c} : SameLocal(d)
  BY <1>1, <1>3, <1>4 DEF TypeOK, SameLocal
<1>9. ClientInv(c)'
  <2>1. JobInv(c)'
    BY <1>2, <1>3, <1>7, ClientAssumption DEF JobInv, Begins, Changes
  <2>2. \A q \in Queues : \A i \in 1..Len(pool[q]) : ~PreAt(c, q, i) /\ ~MainAt(c, q, i)
    BY <1>1 DEF ClientInv, PreInv, MainInv
  <2>3. PreInv(c)' /\ MainInv(c)' /\ OrderInv(c)' /\ PendingInv(c)'
    BY <1>3, <2>2 DEF PreInv, MainInv, OrderInv, PendingInv, PreAt, MainAt
  <2>4. SentInv(c)' /\ RevertInv(c)' /\ MinedInv(c)'
    BY <1>2, <1>3 DEF SentInv, RevertInv, MinedInv, Mined
  <2>5. GenesisInv(c)'
    BY <1>2, <1>3, <1>4, <1>7 DEF GenesisInv, Begins, Bootstrapped, Changes
  <2> QED
    BY <2>1, <2>3, <2>4, <2>5 DEF ClientInv
<1> QED
  BY <1>3, <1>4, <1>6, <1>8, <1>9, OwnStep

\* StartCall keeps the invariant.
LEMMA StartCallStep ==
  ASSUME Inv, NEW c \in Clients, NEW op \in Changes, NEW amounts, amounts \subseteq Nat,
         StartCall(c, op, amounts)
  PROVE  Inv'
<1>1. PICK f \in Froms, n \in amounts :
        Start(c, [NoJob EXCEPT !.op = op, !.from = f, !.amount = n], "call") /\ late' = late
  BY DEF StartCall
<1> DEFINE j == [NoJob EXCEPT !.op = op, !.from = f, !.amount = n]
<1>2. j \in Jobs /\ j.op = op /\ j.initial = None
  BY DEF Jobs, NoJob, Froms
<1> HIDE DEF j
<1>3. Begins(c, j, "call")
  BY <1>1, <1>2 DEF Begins
<1> QED
  BY <1>1, <1>2, <1>3, StartStep DEF j

\* Command keeps the invariant.
LEMMA CommandStep ==
  ASSUME Inv, NEW c \in Clients, SubnetCommands(c) \/ CrossMsgCommands(c) \/ StartGenesisInfo(c)
  PROVE  Inv'
<1>1. Amounts \subseteq Nat /\ {0} \subseteq Nat
  BY ClientAssumption
<1>2. CASE \E op \in Changes : StartCall(c, op, Amounts) \/ StartCall(c, op, {0})
  BY <1>1, <1>2, StartCallStep
<1>3. CASE StartJoin(c)
  <2>1. PICK f \in Froms, n \in Amounts, i \in Amounts \cup {None} :
          /\ Start(c, [NoJob EXCEPT !.op = "join", !.from = f, !.amount = n, !.initial = i],
                   IF i = None THEN "call" ELSE "initial")
          /\ late' = late
    BY <1>3 DEF StartJoin
  <2> DEFINE j == [NoJob EXCEPT !.op = "join", !.from = f, !.amount = n, !.initial = i]
             label == IF i = None THEN "call" ELSE "initial"
  <2>2. j \in Jobs /\ j.op = "join" /\ j.initial = i
    BY <1>1 DEF Jobs, NoJob, Froms, Changes
  <2> HIDE DEF j
  <2>3. Begins(c, j, label)
    BY <2>1, <2>2 DEF Begins, Changes
  <2> QED
    BY <2>1, <2>2, <2>3, StartStep DEF j
<1>4. CASE StartGenesisInfo(c)
  <2> DEFINE j == [NoJob EXCEPT !.op = "genesis"]
  <2>1. Start(c, j, "balances") /\ late' = (IF Bootstrapped(actor) THEN late \cup {c} ELSE late)
    BY <1>4 DEF StartGenesisInfo
  <2>2. j \in Jobs /\ j.op = "genesis"
    BY DEF Jobs, NoJob, Froms, Queries
  <2> HIDE DEF j
  <2> QED
    BY <2>1, <2>2, StartStep DEF Begins
<1>5. CASE StartValidatorInfo(c)
  <2>1. PICK a \in Accounts : Start(c, [NoJob EXCEPT !.op = "validator", !.about = a], "staking")
    BY <1>5 DEF StartValidatorInfo
  <2> DEFINE j == [NoJob EXCEPT !.op = "validator", !.about = a]
  <2>2. j \in Jobs /\ j.op = "validator" /\ j.about = a /\ late' = late
    BY <1>5 DEF Jobs, NoJob, Froms, Queries, StartValidatorInfo
  <2> HIDE DEF j
  <2> QED
    BY <2>1, <2>2, StartStep DEF Begins, j
<1>6. CASE StartGenesisEpoch(c)
  <2> DEFINE j == [NoJob EXCEPT !.op = "genesisEpoch"]
  <2>1. Start(c, j, "epoch") /\ late' = late
    BY <1>6 DEF StartGenesisEpoch
  <2>2. j \in Jobs /\ j.op = "genesisEpoch"
    BY DEF Jobs, NoJob, Froms, Queries
  <2> HIDE DEF j
  <2> QED
    BY <2>1, <2>2, StartStep DEF Begins
<1> QED
  BY <1>2, <1>3, <1>4, <1>5, <1>6
     DEF SubnetCommands, CrossMsgCommands, Changes, StartCreate, StartStake, StartUnstake, StartLeave,
         StartKill, StartClaim, StartAddBootstrap, StartSendValue, StartFund, StartPreFund,
         StartRelease, StartPreRelease

\* SetDefault keeps the invariant.
LEMMA SetDefaultStep ==
  ASSUME Inv, NEW a \in Accounts, SetDefault(a)
  PROVE  Inv'
<1>1. /\ UNCHANGED <<actor, node, pool, step, job, default, sender, receipt, info, answer,
                      fate, raced, late, faults>>
      /\ chosen' = a /\ started < MaxCommands /\ started' = started + 1
  BY DEF SetDefault, chain, client, ghost
<1>2. TypeOK'
  <2>1. started' \in 0..MaxCommands
    BY <1>1, ClientAssumption DEF Inv, TypeOK
  <2> QED
    BY <1>1, <2>1 DEF Inv, TypeOK, Froms
<1>3. \A d \in Clients : ClientInv(d)'
  BY <1>1, Unaffected DEF SameLocal
<1>4. AmountInv'
  BY <1>1 DEF Inv, AmountInv
<1> QED
  BY <1>2, <1>3, <1>4 DEF Inv

\* Transactions whose client has gone.
LEMMA OrphanFacts ==
  ASSUME NEW txs \in Seq(Txs), NEW c \in Clients
  PROVE  /\ Orphan(txs, c) \in Seq(Txs) /\ Len(Orphan(txs, c)) = Len(txs)
         /\ \A i \in 1..Len(txs) :
              /\ Orphan(txs, c)[i].client # c
              /\ Orphan(txs, c)[i].op = txs[i].op /\ Orphan(txs, c)[i].amount = txs[i].amount
              /\ txs[i].client # c => Orphan(txs, c)[i] = txs[i]
              /\ Orphan(txs, c)[i].client \in Clients => Orphan(txs, c)[i] = txs[i]
<1>1. Len(txs) \in Nat /\ \A i \in 1..Len(txs) : txs[i] \in Txs
  BY LenProperties, ElementOfSeq
<1>2. ASSUME NEW i \in 1..Len(txs)
      PROVE  /\ Orphan(txs, c)[i] \in Txs
             /\ Orphan(txs, c)[i].client # c
             /\ Orphan(txs, c)[i].op = txs[i].op /\ Orphan(txs, c)[i].amount = txs[i].amount
             /\ txs[i].client # c => Orphan(txs, c)[i] = txs[i]
             /\ Orphan(txs, c)[i].client \in Clients => Orphan(txs, c)[i] = txs[i]
  <2>1. Orphan(txs, c)[i] = IF txs[i].client = c THEN [txs[i] EXCEPT !.client = None] ELSE txs[i]
    BY DEF Orphan
  <2> QED
    BY <1>1, <2>1, ClientAssumption DEF Txs
<1>3. Orphan(txs, c) \in [1..Len(txs) -> Txs]
  BY <1>2 DEF Orphan
<1>4. Orphan(txs, c) \in Seq(Txs)
  BY <1>1, <1>3, SeqDef
<1>5. Len(Orphan(txs, c)) = Len(txs)
  BY <1>1, <1>3, <1>4, LenProperties
<1> QED
  BY <1>2, <1>4, <1>5

\* Exit keeps the invariant.
LEMMA ExitStep ==
  ASSUME Inv, NEW c \in Clients, Exit(c)
  PROVE  Inv'
<1>1. TypeOK /\ (\A d \in Clients : ClientInv(d)) /\ pool \in [Queues -> Seq(Txs)]
  BY DEF Inv, TypeOK
<1>2. /\ UNCHANGED <<actor, node, chosen, started, faults>>
      /\ step' = [step EXCEPT ![c] = "idle"] /\ job' = [job EXCEPT ![c] = NoJob]
      /\ default' = [default EXCEPT ![c] = None] /\ sender' = [sender EXCEPT ![c] = None]
      /\ receipt' = [receipt EXCEPT ![c] = "none"] /\ info' = [info EXCEPT ![c] = NoInfo]
      /\ answer' = [answer EXCEPT ![c] = "none"] /\ fate' = [fate EXCEPT ![c] = "none"]
      /\ raced' = raced \ {c} /\ late' = late \ {c}
  BY DEF Exit
<1>3. /\ pool' \in [Queues -> Seq(Txs)]
      /\ \A q \in Queues :
           /\ Len(pool'[q]) = Len(pool[q])
           /\ \A i \in 1..Len(pool[q]) :
                /\ pool'[q][i].client # c
                /\ pool'[q][i].op = pool[q][i].op /\ pool'[q][i].amount = pool[q][i].amount
                /\ pool[q][i].client # c => pool'[q][i] = pool[q][i]
                /\ pool'[q][i].client \in Clients => pool'[q][i] = pool[q][i]
  <2>1. pool' = [q \in Queues |-> Orphan(pool[q], c)]
    BY DEF Exit
  <2>2. \A q \in Queues : pool'[q] = Orphan(pool[q], c) /\ pool[q] \in Seq(Txs)
    BY <1>1, <2>1
  <2>3. \A q \in Queues : pool'[q] \in Seq(Txs)
    BY <2>2, OrphanFacts
  <2> QED
    BY <2>1, <2>2, <2>3, OrphanFacts
<1>4. TypeOK'
  <2>1. NoJob \in Jobs /\ NoJob.from = None /\ None \in Froms
    BY DEF NoJob, Jobs, Froms
  <2>2. NoInfo \in [balances : Ledger, validators : Ledger, staked : Nat,
                    active : BOOLEAN, waiting : BOOLEAN]
    BY DEF NoInfo, Ledger, Zero
  <2>3. \A d \in Clients : sender'[d] # None => job'[d].from = None
    BY <1>1, <1>2 DEF TypeOK
  <2> QED
    BY <1>1, <1>2, <1>3, <2>1, <2>2, <2>3 DEF TypeOK
<1>5. AmountInv'
  BY <1>2, <1>3 DEF Inv, AmountInv
<1>6. ClientInv(c)'
  <2>1. /\ step'[c] = "idle" /\ job'[c] = NoJob /\ sender'[c] = None /\ receipt'[c] = "none"
        /\ answer'[c] = "none" /\ fate'[c] = "none"
    BY <1>1, <1>2 DEF TypeOK
  <2>2. NoJob.op = "none"
    BY DEF NoJob
  <2>3. \A q \in Queues : \A i \in 1..Len(pool'[q]) : ~PreAt(c, q, i)' /\ ~MainAt(c, q, i)'
    BY <1>3 DEF PreAt, MainAt
  <2>4. JobInv(c)'
    BY <1>2, <2>1, <2>2 DEF JobInv
  <2>5. PreInv(c)' /\ MainInv(c)' /\ OrderInv(c)' /\ PendingInv(c)'
    BY <2>3 DEF PreInv, MainInv, OrderInv, PendingInv
  <2>6. SentInv(c)' /\ RevertInv(c)' /\ MinedInv(c)'
    BY <2>1, <2>2 DEF SentInv, RevertInv, MinedInv, Mined
  <2>7. GenesisInv(c)'
    BY <2>1, <2>2 DEF GenesisInv
  <2> QED
    BY <2>4, <2>5, <2>6, <2>7 DEF ClientInv
<1>7. ASSUME NEW d \in Clients, d # c
      PROVE  ClientInv(d)'
  <2>1. /\ SameLocal(d) /\ fate'[d] = fate[d] /\ receipt'[d] = receipt[d]
        /\ d \in raced' <=> d \in raced
    BY <1>1, <1>2, <1>7 DEF TypeOK, SameLocal
  <2> DEFINE k == [q \in Queues |-> 0]
  <2>2. k \in [Queues -> Nat] /\ \A q \in Queues : k[q] = 0
    OBVIOUS
  <2> HIDE DEF k
  <2>3. \A q \in Queues : \A i \in 1..Len(pool'[q]) : pool'[q][i].client = d =>
          i + k[q] \in 1..Len(pool[q]) /\ pool[q][i + k[q]] = pool'[q][i]
    BY <1>3, <2>2
  <2>4. \A q \in Queues : \A i \in 1..Len(pool[q]) : PreAt(d, q, i)' <=> PreAt(d, q, i)
    BY <1>3, <1>7 DEF PreAt
  <2>5. \A q \in Queues : \A i \in 1..Len(pool'[q]) : PreAt(d, q, i)' =>
          (Bootstrapped(actor)' => actor'.genesis.by # d)
    BY <1>1, <1>2, <1>3, <2>4 DEF ClientInv, PreInv, Bootstrapped
  <2>6. JobInv(d)' /\ PreInv(d)' /\ MainInv(d)' /\ OrderInv(d)'
    BY <2>1, <2>2, <2>3, <2>5, QueueFrame
  <2>7. SentInv(d)'
    BY <1>1, <1>3, <2>1, <2>4 DEF ClientInv, SentInv
  <2>8. RevertInv(d)'
    BY <1>1, <1>2, <2>1 DEF ClientInv, RevertInv, Bootstrapped
  <2>9. MinedInv(d)'
    BY <1>1, <1>2, <2>1 DEF ClientInv, MinedInv, Mined, SameLocal
  <2>10. GenesisInv(d)'
    BY <1>2, <2>1, QueryFrame
  <2>11. PendingInv(d)'
    BY <1>2, <2>1, <2>2, <2>3, PendingFrame
  <2> QED
    BY <2>6, <2>7, <2>8, <2>9, <2>10, <2>11 DEF ClientInv
<1> QED
  BY <1>4, <1>5, <1>6, <1>7 DEF Inv

-----------------------------------------------------------------------------
(* Receipts and queries. *)

\* Receipt keeps the invariant.
LEMMA ReceiptStep ==
  ASSUME Inv, NEW c \in Clients, GetReceipt(c) \/ GiveUp(c)
  PROVE  Inv'
<1>1. TypeOK /\ ClientInv(c) /\ step[c] = "wait"
  BY DEF Inv, GetReceipt, GiveUp
<1>2. /\ UNCHANGED <<actor, node, pool, chosen, job, default, sender, receipt, info, fate, raced,
                      late, started>>
      /\ step' = [step EXCEPT ![c] = "done"] /\ faults' \in 0..MaxFaults
  BY <1>1, ClientAssumption DEF GetReceipt, GiveUp, Ends, chain, ghost, TypeOK
<1>3. PICK r : /\ answer' = [answer EXCEPT ![c] = r]
               /\ r \in {"error", "ok", "epoch", "address"}
               /\ r = "epoch" => receipt[c] \in {"ok", "reverted"}
  <2>1. \A op, x : /\ Result(op, x) \in {"error", "ok", "epoch", "address"}
                   /\ Result(op, x) = "epoch" => x \in {"ok", "reverted"}
    BY DEF Result
  <2>2. CASE GetReceipt(c)
    BY <2>1, <2>2 DEF GetReceipt, Ends
  <2>3. CASE GiveUp(c)
    BY <2>1, <2>3 DEF GiveUp, Ends
  <2> QED
    BY <2>2, <2>3
<1>4. TypeOK'
  BY <1>1, <1>2, <1>3 DEF TypeOK
<1>5. step'[c] = "done" /\ answer'[c] = r /\ \A d \in Clients \ {c} : SameLocal(d)
  BY <1>1, <1>2, <1>3 DEF TypeOK, SameLocal
<1>6. ClientInv(c)'
  <2>1. JobInv(c)'
    BY <1>1, <1>2, <1>5 DEF ClientInv, JobInv
  <2>2. Account(c)' = Account(c)
    BY <1>2 DEF Account
  <2>3. PreInv(c)' /\ MainInv(c)' /\ OrderInv(c)' /\ SentInv(c)' /\ RevertInv(c)'
    BY <1>1, <1>2, <1>5, <2>2
       DEF ClientInv, PreInv, MainInv, OrderInv, SentInv, RevertInv, PreAt, MainAt, Bootstrapped, Chain
  <2>4. MinedInv(c)' /\ PendingInv(c)'
    BY <1>1, <1>2, <1>3, <1>5, <2>2 DEF ClientInv, MinedInv, PendingInv, Mined, MainAt
  <2>5. GenesisInv(c)'
    BY <1>1, <1>2, <1>3, <1>5 DEF ClientInv, GenesisInv, Bootstrapped
  <2> QED
    BY <2>1, <2>3, <2>4, <2>5 DEF ClientInv
<1> QED
  BY <1>2, <1>4, <1>5, <1>6, OwnStep

\* The parts of the invariant that the reads of a query do not touch.
LEMMA ReadFrame ==
  ASSUME Inv, NEW c \in Clients, step[c] \in Reading, step'[c] \in Reading \cup {"done"},
         UNCHANGED <<actor, pool, job, sender, receipt, fate, raced>>,
         answer'[c] # "epoch"
  PROVE  /\ PreInv(c)' /\ MainInv(c)' /\ OrderInv(c)' /\ SentInv(c)' /\ RevertInv(c)'
         /\ MinedInv(c)' /\ PendingInv(c)'
<1>1. ClientInv(c) /\ Account(c)' = Account(c)
  BY DEF Inv, Account
<1>2. \A q \in Queues : \A i \in 1..Len(pool[q]) : ~PreAt(c, q, i) /\ ~MainAt(c, q, i)
  BY <1>1 DEF ClientInv, PreInv, MainInv, JobInv, Reading
<1>3. PreInv(c)' /\ MainInv(c)' /\ OrderInv(c)' /\ PendingInv(c)'
  BY <1>2 DEF PreInv, MainInv, OrderInv, PendingInv, PreAt, MainAt
<1>4. SentInv(c)' /\ RevertInv(c)' /\ MinedInv(c)'
  BY <1>1, <1>2 DEF ClientInv, SentInv, RevertInv, MinedInv, Mined, PreAt, Bootstrapped, Reading
<1> QED
  BY <1>3, <1>4

Infos == [balances : Ledger, validators : Ledger, staked : Nat, active : BOOLEAN, waiting : BOOLEAN]

\* What one read changes.
LEMMA ReadsFacts ==
  ASSUME Inv, NEW c \in Clients, NEW label \in Reading, NEW i \in Infos,
         NEW next \in Reading \cup {"done"}, Reads(c, label, i, next)
  PROVE  /\ TypeOK' /\ step[c] = label /\ step'[c] = next /\ info'[c] = i
         /\ answer[c] = "none" /\ answer'[c] = (IF next = "done" THEN "info" ELSE "none")
         /\ UNCHANGED <<actor, pool, job, sender, receipt, fate, raced, late>>
         /\ \A d \in Clients \ {c} : SameLocal(d)
<1>1. TypeOK /\ step[c] = label /\ ClientInv(c)
  BY DEF Inv, Reads
<1>2. answer[c] = "none"
  BY <1>1 DEF ClientInv, JobInv, Reading
<1>3. /\ UNCHANGED <<actor, node, pool, chosen, job, default, sender, receipt, fate, raced, late,
                      started, faults>>
      /\ info' = [info EXCEPT ![c] = i] /\ step' = [step EXCEPT ![c] = next]
      /\ answer' = [answer EXCEPT ![c] = IF next = "done" THEN "info" ELSE "none"]
  <2>1. answer = [answer EXCEPT ![c] = "none"]
    BY <1>1, <1>2 DEF TypeOK
  <2> QED
    BY <2>1 DEF Reads, Ends, chain, ghost
<1>4. TypeOK'
  BY <1>1, <1>3 DEF TypeOK, Infos
<1>5. /\ step'[c] = next /\ info'[c] = i
      /\ answer'[c] = (IF next = "done" THEN "info" ELSE "none")
  BY <1>1, <1>3 DEF TypeOK
<1>6. \A d \in Clients \ {c} : SameLocal(d)
  BY <1>1, <1>3 DEF TypeOK, SameLocal
<1> QED
  BY <1>1, <1>2, <1>3, <1>4, <1>5, <1>6

\* Reads keeps the invariant.
LEMMA ReadsStep ==
  ASSUME Inv, NEW c \in Clients, NEW label \in Reading, NEW i \in Infos,
         NEW next \in Reading \cup {"done"}, Reads(c, label, i, next),
         JobInv(c)', GenesisInv(c)'
  PROVE  Inv'
<1>1. ClientInv(c)'
  BY ReadsFacts, ReadFrame DEF ClientInv
<1> QED
  BY <1>1, ReadsFacts, OwnStep

\* What each kind of query knows at a step.
LEMMA AtStep ==
  ASSUME Inv, NEW c \in Clients
  PROVE  /\ info[c] \in Infos /\ actor \in Actors /\ JobInv(c) /\ GenesisInv(c)
BY DEF Inv, TypeOK, ClientInv, Infos

\* ReadGenesis keeps the invariant.
LEMMA ReadGenesisStep ==
  ASSUME Inv, NEW c \in Clients,
         ReadGenesisBalances(c) \/ GenesisEpoch(c) \/ ReadGenesisValidators(c)
  PROVE  Inv'
<1>1. /\ info[c] \in Infos /\ actor \in Actors /\ JobInv(c) /\ GenesisInv(c)
  BY AtStep
<1>2. /\ actor.genesis.validators \in Ledger /\ actor.genesis.balances \in Ledger
      /\ actor.balance \in Ledger
  BY <1>1, ActorFields
<1>3. CASE ReadGenesisBalances(c)
  <2> DEFINE bal == IF Bootstrapped(actor) THEN actor.genesis.balances ELSE actor.balance
             i == [info[c] EXCEPT !.balances = bal]
  <2>1. Reads(c, "balances", i, "epoch")
    BY <1>3 DEF ReadGenesisBalances
  <2>2. bal \in Ledger
    BY <1>2
  <2> HIDE DEF bal
  <2>3. i \in Infos /\ i.balances = bal
    BY <1>1, <2>2 DEF Infos
  <2> HIDE DEF i
  <2>4. "balances" \in Reading /\ "epoch" \in Reading \cup {"done"}
    BY DEF Reading
  <2>5. /\ step[c] = "balances" /\ step'[c] = "epoch" /\ info'[c] = i /\ answer'[c] = "none"
        /\ UNCHANGED <<actor, job, sender, receipt, fate, late>>
    BY <2>1, <2>3, <2>4, ReadsFacts
  <2>6. job[c].op = "genesis"
    BY <1>1, <2>5 DEF JobInv
  <2>7. JobInv(c)'
    BY <1>1, <2>5, <2>6 DEF JobInv
  <2>8. GenesisInv(c)'
    BY <1>1, <2>3, <2>5, <2>6 DEF GenesisInv, Bootstrapped, bal
  <2> QED
    BY <2>1, <2>3, <2>4, <2>7, <2>8, ReadsStep
<1>4. CASE GenesisEpoch(c)
  <2>1. Reads(c, "epoch", info[c], AfterEpoch(c)) /\ Bootstrapped(actor)
    BY <1>4 DEF GenesisEpoch, Registered
  <2>2. "epoch" \in Reading /\ AfterEpoch(c) \in Reading \cup {"done"}
    BY DEF Reading, AfterEpoch
  <2>3. /\ step[c] = "epoch" /\ step'[c] = AfterEpoch(c) /\ info'[c] = info[c]
        /\ answer'[c] = (IF AfterEpoch(c) = "done" THEN "info" ELSE "none")
        /\ UNCHANGED <<actor, job, sender, receipt, fate, late>>
    BY <1>1, <2>1, <2>2, ReadsFacts
  <2>4. job[c].op \in {"genesis", "genesisEpoch"}
    BY <1>1, <2>3 DEF JobInv
  <2>5. JobInv(c)'
    BY <1>1, <2>3, <2>4 DEF JobInv, AfterEpoch
  <2>6. GenesisInv(c)'
    BY <1>1, <2>1, <2>3, <2>4 DEF GenesisInv, Bootstrapped, AfterEpoch
  <2> QED
    BY <1>1, <2>1, <2>2, <2>5, <2>6, ReadsStep
<1>5. CASE ReadGenesisValidators(c)
  <2> DEFINE i == [info[c] EXCEPT !.validators = actor.genesis.validators]
  <2>1. Reads(c, "genesisValidators", i, "done")
    BY <1>5 DEF ReadGenesisValidators
  <2>2. i \in Infos /\ i.validators = actor.genesis.validators /\ i.balances = info[c].balances
    BY <1>1, <1>2 DEF Infos
  <2> HIDE DEF i
  <2>3. "genesisValidators" \in Reading /\ "done" \in Reading \cup {"done"}
    BY DEF Reading
  <2>4. /\ step[c] = "genesisValidators" /\ step'[c] = "done" /\ info'[c] = i /\ answer'[c] = "info"
        /\ UNCHANGED <<actor, job, sender, receipt, fate, late>>
    BY <2>1, <2>2, <2>3, ReadsFacts
  <2>5. job[c].op = "genesis"
    BY <1>1, <2>4 DEF JobInv
  <2>6. JobInv(c)'
    BY <1>1, <2>4, <2>5 DEF JobInv
  <2>7. GenesisInv(c)'
    BY <1>1, <2>2, <2>4, <2>5 DEF GenesisInv, Bootstrapped
  <2> QED
    BY <2>1, <2>2, <2>3, <2>6, <2>7, ReadsStep
<1> QED
  BY <1>3, <1>4, <1>5

\* ReadValidator keeps the invariant.
LEMMA ReadValidatorStep ==
  ASSUME Inv, NEW c \in Clients, ReadValidator(c) \/ ReadIsActive(c) \/ ReadIsWaiting(c)
  PROVE  Inv'
<1>1. /\ info[c] \in Infos /\ actor \in Actors /\ JobInv(c) /\ GenesisInv(c)
  BY AtStep
<1> DEFINE a == job[c].about
<1>2. PICK label \in {"staking", "active", "waiting"}, next \in {"active", "waiting", "done"} :
        \E i \in Infos : Reads(c, label, i, next)
  <2>1. CASE ReadValidator(c)
    <3>1. Reads(c, "staking", [info[c] EXCEPT !.staked = actor.confirmed[a]], "active")
      BY <2>1 DEF ReadValidator
    <3>2. a \in Accounts
      BY <1>1, <3>1 DEF JobInv, Reads
    <3>3. actor.confirmed[a] \in Nat
      BY <1>1, <3>2, ActorFields DEF Ledger
    <3>4. [info[c] EXCEPT !.staked = actor.confirmed[a]] \in Infos
      BY <1>1, <3>3 DEF Infos
    <3> QED
      BY <3>1, <3>4
  <2>2. CASE ReadIsActive(c)
    <3> DEFINE b == a \in actor.active
    <3>1. Reads(c, "active", [info[c] EXCEPT !.active = b], "waiting")
      BY <2>2 DEF ReadIsActive
    <3>2. b \in BOOLEAN
      OBVIOUS
    <3> HIDE DEF b
    <3>3. [info[c] EXCEPT !.active = b] \in Infos
      BY <1>1, <3>2 DEF Infos
    <3> QED
      BY <3>1, <3>3
  <2>3. CASE ReadIsWaiting(c)
    <3> DEFINE b == a \in Validators(actor.confirmed) \ actor.active
    <3>1. Reads(c, "waiting", [info[c] EXCEPT !.waiting = b], "done")
      BY <2>3 DEF ReadIsWaiting
    <3>2. b \in BOOLEAN
      OBVIOUS
    <3> HIDE DEF b
    <3>3. [info[c] EXCEPT !.waiting = b] \in Infos
      BY <1>1, <3>2 DEF Infos
    <3> QED
      BY <3>1, <3>3
  <2> QED
    BY <2>1, <2>2, <2>3
<1>3. PICK i \in Infos : Reads(c, label, i, next)
  BY <1>2
<1>4. label \in Reading /\ next \in Reading \cup {"done"}
  BY DEF Reading
<1>5. /\ step[c] = label /\ step'[c] = next /\ answer'[c] = (IF next = "done" THEN "info" ELSE "none")
      /\ UNCHANGED <<actor, job, sender, receipt, fate, late>>
  BY <1>3, <1>4, ReadsFacts
<1>6. job[c].op = "validator"
  BY <1>1, <1>5 DEF JobInv
<1>7. JobInv(c)' /\ GenesisInv(c)'
  BY <1>1, <1>5, <1>6 DEF JobInv, GenesisInv
<1> QED
  BY <1>3, <1>4, <1>7, ReadsStep

\* ReadFails keeps the invariant.
LEMMA ReadFailsStep ==
  ASSUME Inv, NEW c \in Clients, ReadFails(c)
  PROVE  Inv'
<1>1. TypeOK /\ step[c] \in Reading /\ JobInv(c) /\ GenesisInv(c)
  BY DEF Inv, ClientInv, ReadFails
<1>2. /\ UNCHANGED <<actor, node, pool, chosen, job, default, sender, receipt, info, fate, raced,
                      late, started, faults>>
      /\ step' = [step EXCEPT ![c] = "done"] /\ answer' = [answer EXCEPT ![c] = "error"]
  BY DEF ReadFails, Ends, chain, ghost
<1>3. TypeOK'
  BY <1>1, <1>2 DEF TypeOK
<1>4. step'[c] = "done" /\ answer'[c] = "error" /\ \A d \in Clients \ {c} : SameLocal(d)
  BY <1>1, <1>2 DEF TypeOK, SameLocal
<1>5. JobInv(c)' /\ GenesisInv(c)'
  BY <1>1, <1>2, <1>4 DEF JobInv, GenesisInv, Bootstrapped
<1>6. ClientInv(c)'
  BY <1>1, <1>2, <1>4, <1>5, ReadFrame DEF ClientInv
<1> QED
  BY <1>2, <1>3, <1>4, <1>6, OwnStep

-----------------------------------------------------------------------------
(* Transactions. *)

\* tx is now at place n of queue p; what else is in a queue was there before, and
\* in queue p before tx.
Placed(p, tx, n) ==
  /\ n \in 1..Len(pool'[p]) /\ pool'[p][n] = tx
  /\ \A q \in Queues : \A i \in 1..Len(pool'[q]) :
       \/ q = p /\ i = n
       \/ i \in 1..Len(pool[q]) /\ pool[q][i] = pool'[q][i] /\ (q = p => i < n)

HasPre(c)  == \E q \in Queues : \E i \in 1..Len(pool[q]) : PreAt(c, q, i)
HasMain(c) == \E q \in Queues : \E i \in 1..Len(pool[q]) : MainAt(c, q, i)

\* What becomes of the pre-funding of c when transactions leave the mempool.
FateMoves(c) ==
  /\ fate'[c] = fate[c] \/ (fate'[c] = "lost" /\ HasPre(c))
  /\ fate'[c] = "sent" => \A q \in Queues : \A i \in 1..Len(pool[q]) : PreAt(c, q, i) => PreAt(c, q, i)'

\* A transaction without a receipt is not pending.
ReceiptMoves(c) ==
  \/ receipt'[c] = receipt[c]
  \/ /\ receipt'[c] = "gone" /\ HasMain(c)
     /\ \A q \in Queues : \A i \in 1..Len(pool'[q]) : ~MainAt(c, q, i)'

Fates    == [Clients -> {"none", "sent", "done", "reverted", "lost"}]
Receipts == [Clients -> {"none", "ok", "reverted", "gone"}]

\* The transactions of queue p leave it without being mined.
LEMMA WithoutFacts ==
  ASSUME Inv, NEW p \in Queues
  PROVE  /\ FateWithout(pool[p]) \in Fates /\ ReceiptWithout(pool[p]) \in Receipts
         /\ \A d \in Clients :
              /\ \/ FateWithout(pool[p])[d] = fate[d]
                    /\ \A i \in 1..Len(pool[p]) : ~PreAt(d, p, i)
                 \/ FateWithout(pool[p])[d] = "lost" /\ HasPre(d)
              /\ \/ ReceiptWithout(pool[p])[d] = receipt[d]
                 \/ /\ ReceiptWithout(pool[p])[d] = "gone" /\ HasMain(d)
                    /\ \A q \in Queues : q # p => \A i \in 1..Len(pool[q]) : ~MainAt(d, q, i)
<1>1. fate \in Fates /\ receipt \in Receipts /\ pool[p] \in Seq(Txs)
  BY DEF Inv, TypeOK, Fates, Receipts
<1>2. \A i \in 1..Len(pool[p]) : pool[p][i].op \in Changes
  <2>1. \A i \in 1..Len(pool[p]) : pool[p][i] \in Txs
    BY <1>1, ElementOfSeq
  <2> QED
    BY <2>1 DEF Txs
<1>3. \A d \in Clients : d \in Owners(pool[p], {"preFund"}) <=> \E i \in 1..Len(pool[p]) : PreAt(d, p, i)
  BY DEF Owners, PreAt
<1>4. \A d \in Clients : d \in Owners(pool[p], Changes \ {"preFund"}) <=>
                         \E i \in 1..Len(pool[p]) : MainAt(d, p, i)
  BY <1>2 DEF Owners, MainAt
<1>5. \A d \in Clients : /\ FateWithout(pool[p])[d] =
                             (IF d \in Owners(pool[p], {"preFund"}) THEN "lost" ELSE fate[d])
                         /\ ReceiptWithout(pool[p])[d] =
                             (IF d \in Owners(pool[p], Changes \ {"preFund"}) THEN "gone" ELSE receipt[d])
  BY DEF FateWithout, ReceiptWithout
<1>6. FateWithout(pool[p]) \in Fates /\ ReceiptWithout(pool[p]) \in Receipts
  BY <1>1 DEF FateWithout, ReceiptWithout, Fates, Receipts
<1>7. \A d \in Clients : (\E i \in 1..Len(pool[p]) : MainAt(d, p, i)) =>
        \A q \in Queues : q # p => \A i \in 1..Len(pool[q]) : ~MainAt(d, q, i)
  BY DEF Inv, ClientInv, MainInv
<1> QED
  BY <1>3, <1>4, <1>5, <1>6, <1>7 DEF HasPre, HasMain

\* What sending a transaction adds to the account's queue.
LEMMA SendFacts ==
  ASSUME Inv, NEW c \in Clients, NEW op \in Changes, NEW amount \in Nat, Sends(c, op, amount)
  PROVE  /\ CheckSender(c) \in Accounts /\ <<Chain(op), CheckSender(c)>> \in Queues
         /\ op \in {"join", "preFund"} => amount > 0
         /\ op = "preFund" => ~Bootstrapped(actor)
         /\ op = "join" => ~actor.killed /\ actor.total[CheckSender(c)] = 0
         /\ pool' \in [Queues -> Seq(Txs)] /\ fate' \in Fates /\ receipt' \in Receipts
         /\ \E n \in Nat : Placed(<<Chain(op), CheckSender(c)>>, Tx(c, op, amount), n)
         /\ IF op = "preFund" THEN fate'[c] = "sent" ELSE FateMoves(c)
         /\ \A d \in Clients \ {c} : FateMoves(d) /\ ReceiptMoves(d)
         /\ receipt'[c] = receipt[c] \/ HasMain(c)
<1> DEFINE a == CheckSender(c)
           p == <<Chain(op), a>>
           tx == Tx(c, op, amount)
<1>1. a # None /\ Accepts(actor, a, tx)
  BY DEF Sends
<1>2. a \in Accounts
  <2>1. a \in Froms
    BY DEF CheckSender, Account, Inv, TypeOK, Jobs
  <2> QED
    BY <1>1, <2>1 DEF Froms
<1>3. p \in Queues
  BY <1>2 DEF Queues, Chains, Chain
<1>4. tx \in Txs /\ tx.op = op /\ tx.amount = amount /\ tx.client = c
  BY DEF Tx, Txs
<1>5. /\ op \in {"join", "preFund"} => amount > 0
      /\ op = "preFund" => ~Bootstrapped(actor)
      /\ op = "join" => ~actor.killed /\ actor.total[a] = 0
  BY <1>1, <1>4 DEF Accepts
<1>6. pool \in [Queues -> Seq(Txs)] /\ fate \in Fates /\ receipt \in Receipts
  BY DEF Inv, TypeOK, Fates, Receipts
<1>7. \/ /\ pool' = [pool EXCEPT ![p] = Append(pool[p], tx)]
         /\ fate' = [fate EXCEPT ![c] = IF op = "preFund" THEN "sent" ELSE fate[c]]
         /\ UNCHANGED receipt
      \/ /\ pool' = [pool EXCEPT ![p] = <<tx>>]
         /\ fate' = [FateWithout(pool[p]) EXCEPT ![c] = IF op = "preFund" THEN "sent"
                                                        ELSE FateWithout(pool[p])[c]]
         /\ receipt' = ReceiptWithout(pool[p])
  BY DEF Sends
<1> HIDE DEF a, p, tx
<1>8. CASE /\ pool' = [pool EXCEPT ![p] = Append(pool[p], tx)]
           /\ fate' = [fate EXCEPT ![c] = IF op = "preFund" THEN "sent" ELSE fate[c]]
           /\ UNCHANGED receipt
  <2>1. /\ pool'[p] \in Seq(Txs) /\ Len(pool[p]) \in Nat /\ Len(pool'[p]) = Len(pool[p]) + 1
        /\ pool'[p][Len(pool[p]) + 1] = tx
        /\ \A i \in 1..Len(pool[p]) : pool'[p][i] = pool[p][i]
    BY <1>3, <1>4, <1>6, <1>8, AppendProperties, LenProperties
  <2>2. \A q \in Queues : q # p => pool'[q] = pool[q]
    BY <1>6, <1>8
  <2>3. pool' \in [Queues -> Seq(Txs)] /\ fate' \in Fates /\ receipt' \in Receipts
    BY <1>3, <1>6, <1>8, <2>1 DEF Fates
  <2>4. Placed(p, tx, Len(pool[p]) + 1)
    BY <2>1, <2>2 DEF Placed
  <2>5. \A d \in Clients : \A q \in Queues : \A i \in 1..Len(pool[q]) : PreAt(d, q, i) => PreAt(d, q, i)'
    BY <2>1, <2>2 DEF PreAt
  <2>6. /\ fate'[c] = IF op = "preFund" THEN "sent" ELSE fate[c]
        /\ \A d \in Clients \ {c} : fate'[d] = fate[d]
    BY <1>6, <1>8 DEF Fates
  <2>7. \A d \in Clients : ReceiptMoves(d)
    BY <1>8 DEF ReceiptMoves
  <2>8. \E n \in Nat : Placed(p, tx, n)
    <3>1. Len(pool[p]) + 1 \in Nat
      BY <2>1
    <3> QED
      BY <2>4, <3>1
  <2>9. /\ IF op = "preFund" THEN fate'[c] = "sent" ELSE FateMoves(c)
        /\ \A d \in Clients \ {c} : FateMoves(d)
    BY <2>5, <2>6 DEF FateMoves
  <2> QED
    BY <1>2, <1>3, <1>5, <1>8, <2>3, <2>7, <2>8, <2>9 DEF a, p, tx
<1>9. CASE /\ pool' = [pool EXCEPT ![p] = <<tx>>]
           /\ fate' = [FateWithout(pool[p]) EXCEPT ![c] = IF op = "preFund" THEN "sent"
                                                          ELSE FateWithout(pool[p])[c]]
           /\ receipt' = ReceiptWithout(pool[p])
  <2>1. pool'[p] = <<tx>> /\ pool'[p] \in Seq(Txs) /\ Len(pool'[p]) = 1 /\ pool'[p][1] = tx
    BY <1>3, <1>4, <1>6, <1>9
  <2>2. \A q \in Queues : q # p => pool'[q] = pool[q]
    BY <1>6, <1>9
  <2>3. FateWithout(pool[p]) \in Fates /\ ReceiptWithout(pool[p]) \in Receipts
    BY <1>3, WithoutFacts
  <2>4. pool' \in [Queues -> Seq(Txs)] /\ fate' \in Fates /\ receipt' \in Receipts
    BY <1>3, <1>6, <1>9, <2>1, <2>3 DEF Fates
  <2>5. Placed(p, tx, 1)
    <3>1. \A i \in 1..Len(pool'[p]) : i = 1
      BY <2>1
    <3>2. \A q \in Queues : q # p => \A i \in 1..Len(pool'[q]) :
            i \in 1..Len(pool[q]) /\ pool[q][i] = pool'[q][i]
      BY <2>2
    <3>3. 1 \in 1..Len(pool'[p])
      BY <2>1
    <3> QED
      BY <2>1, <3>1, <3>2, <3>3 DEF Placed
  <2>6. /\ fate'[c] = IF op = "preFund" THEN "sent" ELSE FateWithout(pool[p])[c]
        /\ \A d \in Clients \ {c} : fate'[d] = FateWithout(pool[p])[d]
    BY <1>9, <2>3 DEF Fates
  <2>7. \A d \in Clients : \A q \in Queues : q # p =>
          \A i \in 1..Len(pool[q]) : PreAt(d, q, i) => PreAt(d, q, i)'
    BY <2>2 DEF PreAt
  <2>8. \A d \in Clients : fate'[d] = FateWithout(pool[p])[d] => FateMoves(d)
    BY <1>3, <2>7, WithoutFacts DEF FateMoves
  <2>9. /\ \A d \in Clients \ {c} : ReceiptMoves(d)
        /\ receipt'[c] = receipt[c] \/ HasMain(c)
    <3>1. \A d \in Clients \ {c} : \A q \in Queues : q = p =>
            \A i \in 1..Len(pool'[q]) : ~MainAt(d, q, i)'
      <4>1. \A i \in 1..Len(pool'[p]) : i = 1
        BY <2>1
      <4>2. pool'[p][1].client = c
        BY <1>4, <2>1
      <4> QED
        BY <4>1, <4>2 DEF MainAt
    <3>2. \A d \in Clients : \A q \in Queues : q # p =>
            \A i \in 1..Len(pool'[q]) : MainAt(d, q, i)' => i \in 1..Len(pool[q]) /\ MainAt(d, q, i)
      BY <2>2 DEF MainAt
    <3>3. \A d \in Clients : \/ receipt'[d] = receipt[d]
                             \/ /\ receipt'[d] = "gone" /\ HasMain(d)
                                /\ \A q \in Queues : q # p =>
                                     \A i \in 1..Len(pool[q]) : ~MainAt(d, q, i)
      BY <1>3, <1>9, WithoutFacts
    <3>4. ASSUME NEW d \in Clients, d # c
          PROVE  ReceiptMoves(d)
      <4>1. ASSUME \A q \in Queues : q # p => \A i \in 1..Len(pool[q]) : ~MainAt(d, q, i),
                   NEW q \in Queues, NEW i \in 1..Len(pool'[q]), MainAt(d, q, i)'
            PROVE  FALSE
        BY <3>1, <3>2, <3>4, <4>1
      <4> QED
        BY <3>3, <4>1 DEF ReceiptMoves
    <3> QED
      BY <3>3, <3>4
  <2> QED
    BY <1>2, <1>3, <1>5, <2>4, <2>5, <2>6, <2>8, <2>9 DEF a, p, tx
<1> QED
  BY <1>7, <1>8, <1>9

\* check_sender: the account of a command does not change once it is known.
LEMMA RemembersFacts ==
  ASSUME Inv, NEW c \in Clients, Remembers(c) \/ UNCHANGED <<sender, chosen>>, UNCHANGED job
  PROVE  /\ sender' \in [Clients -> Froms] /\ \A d \in Clients \ {c} : sender'[d] = sender[d]
         /\ chosen' \in Froms
         /\ sender'[c] # None => job[c].from = None
         /\ Remembers(c) => Account(c)' = CheckSender(c)
         /\ Account(c) # None => CheckSender(c) = Account(c) /\ Account(c)' = Account(c)
<1>1. /\ sender \in [Clients -> Froms] /\ default[c] \in Froms /\ job[c].from \in Froms
      /\ chosen \in Froms
      /\ sender[c] # None => job[c].from = None
  BY DEF Inv, TypeOK, Jobs
<1>2. CheckSender(c) \in Froms
  BY <1>1 DEF CheckSender, Account
<1>3. CASE Remembers(c)
  <2>1. sender' = [sender EXCEPT ![c] = IF job[c].from # None THEN sender[c] ELSE CheckSender(c)]
    BY <1>3 DEF Remembers
  <2>2. sender'[c] = IF job[c].from # None THEN sender[c] ELSE CheckSender(c)
    BY <1>1, <2>1
  <2>3. chosen' \in Froms
    BY <1>1, <1>3 DEF Remembers, Flushes
  <2> QED
    BY <1>1, <1>2, <2>1, <2>2, <2>3 DEF Account, CheckSender
<1>4. CASE UNCHANGED <<sender, chosen>> /\ ~Remembers(c)
  BY <1>1, <1>4 DEF Account, CheckSender
<1> QED
  BY <1>3, <1>4

\* The step and the answer of c after a call of the manager.
Moves(c, label, r) ==
  /\ step' = [step EXCEPT ![c] = label] /\ answer' = [answer EXCEPT ![c] = r]
  /\ label \in {"call", "wait", "done"} /\ r \in {"none", "error", "ok"}
  /\ label # "done" => r = "none"
  /\ faults' \in 0..MaxFaults

\* A command that is about to send op, and where it goes on.
Calls(c, op, label) ==
  \/ step[c] = "call" /\ job[c].op = op /\ label # "call"
  \/ step[c] = "initial" /\ op = "preFund" /\ label # "wait"

\* A call of one client keeps the types and leaves the other clients alone.
LEMMA CallType ==
  ASSUME Inv, NEW c \in Clients, NEW label, NEW r, Moves(c, label, r), Rest(c),
         Remembers(c) \/ UNCHANGED <<sender, chosen>>,
         pool' \in [Queues -> Seq(Txs)], fate' \in Fates, receipt' \in Receipts
  PROVE  /\ TypeOK' /\ \A d \in Clients \ {c} : SameLocal(d)
         /\ step'[c] = label /\ answer'[c] = r
<1>1. TypeOK
  BY DEF Inv
<1>2. UNCHANGED <<actor, node, job, default, info, raced, late, started>>
  BY DEF Rest
<1>3. /\ chosen' \in Froms /\ sender' \in [Clients -> Froms] /\ \A d \in Clients \ {c} : sender'[d] = sender[d]
      /\ sender'[c] # None => job[c].from = None
  BY <1>2, RemembersFacts
<1>4. \A d \in Clients : sender'[d] # None => job'[d].from = None
  BY <1>1, <1>2, <1>3 DEF TypeOK
<1>5. TypeOK'
  BY <1>1, <1>2, <1>3, <1>4 DEF TypeOK, Moves, Fates, Receipts
<1> QED
  BY <1>1, <1>2, <1>3, <1>5 DEF TypeOK, Moves, SameLocal

\* The invariant of a client other than the one that sends, or whose transactions
\* are dropped.
LEMMA PoolStep ==
  ASSUME Inv, NEW d \in Clients, SameLocal(d), UNCHANGED <<actor, raced>>,
         \A q \in Queues : \A i \in 1..Len(pool'[q]) : pool'[q][i].client = d =>
           i \in 1..Len(pool[q]) /\ pool[q][i] = pool'[q][i],
         FateMoves(d), ReceiptMoves(d)
  PROVE  ClientInv(d)'
<1>1. ClientInv(d)
  BY DEF Inv
<1> DEFINE k == [q \in Queues |-> 0]
<1>2. k \in [Queues -> Nat] /\ \A q \in Queues : k[q] = 0
  OBVIOUS
<1> HIDE DEF k
<1>3. \A q \in Queues : \A i \in 1..Len(pool'[q]) : pool'[q][i].client = d =>
        i + k[q] \in 1..Len(pool[q]) /\ pool[q][i + k[q]] = pool'[q][i]
  BY <1>2
<1>4. \A q \in Queues : \A i \in 1..Len(pool'[q]) : PreAt(d, q, i)' =>
        i \in 1..Len(pool[q]) /\ PreAt(d, q, i)
  BY DEF PreAt
<1>5. \A q \in Queues : \A i \in 1..Len(pool'[q]) : PreAt(d, q, i)' =>
        (Bootstrapped(actor)' => actor'.genesis.by # d)
  BY <1>1, <1>4 DEF ClientInv, PreInv, Bootstrapped
<1>6. fate'[d] = fate[d] \/ (fate'[d] # "none" /\ HasPre(d))
  BY DEF FateMoves
<1>7. JobInv(d)' /\ PreInv(d)' /\ MainInv(d)' /\ OrderInv(d)'
  BY <1>2, <1>3, <1>5, <1>6, QueueFrame DEF ReceiptMoves, HasPre, HasMain
<1>8. SentInv(d)'
  <2> SUFFICES ASSUME fate'[d] = "sent" PROVE \E q \in Queues : \E i \in 1..Len(pool'[q]) : PreAt(d, q, i)'
    BY DEF SentInv
  <2>1. PICK q \in Queues : \E i \in 1..Len(pool[q]) : PreAt(d, q, i)
    BY <1>1 DEF ClientInv, SentInv, FateMoves
  <2>2. PICK i \in 1..Len(pool[q]) : PreAt(d, q, i)
    BY <2>1
  <2>3. PreAt(d, q, i)'
    BY <2>2 DEF FateMoves
  <2>4. i \in 1..Len(pool'[q])
    BY <2>3 DEF PreAt
  <2> QED
    BY <2>3, <2>4
<1>9. RevertInv(d)'
  BY <1>1 DEF ClientInv, RevertInv, FateMoves, Bootstrapped
<1>10. MinedInv(d)'
  <2>1. Mined(d) => receipt'[d] = receipt[d]
    BY <1>1 DEF ClientInv, PendingInv, Mined, ReceiptMoves, HasMain
  <2>2. Mined(d)' => receipt'[d] = receipt[d]
    BY DEF Mined, ReceiptMoves
  <2> QED
    BY <1>1, <2>1, <2>2 DEF ClientInv, MinedInv, Mined, SameLocal, FateMoves
<1>11. GenesisInv(d)'
  BY QueryFrame
<1>12. PendingInv(d)'
  <2>1. \A q \in Queues : \A i \in 1..Len(pool'[q]) : MainAt(d, q, i)' => receipt'[d] = receipt[d]
    BY DEF ReceiptMoves
  <2> QED
    BY <1>2, <1>3, <2>1, PendingFrame
<1> QED
  BY <1>7, <1>8, <1>9, <1>10, <1>11, <1>12 DEF ClientInv

\* What the client that sends knows: it has nothing in the mempools yet, except
\* the pre-funding of its join.
LEMMA BeforeSend ==
  ASSUME Inv, NEW c \in Clients, NEW op, NEW label, Calls(c, op, label)
  PROVE  /\ receipt[c] = "none" /\ answer[c] = "none"
         /\ job[c].op \in Changes
         /\ \A q \in Queues : \A i \in 1..Len(pool[q]) :
              /\ ~MainAt(c, q, i)
              /\ PreAt(c, q, i) => /\ step[c] = "call" /\ op = "join" /\ q = <<"parent", Account(c)>>
                                   /\ Account(c) # None
<1>1. ClientInv(c)
  BY DEF Inv
<1>2. receipt[c] = "none" /\ answer[c] = "none" /\ job[c].op \in Changes
  BY <1>1 DEF ClientInv, JobInv, Calls, Changes
<1>3. \A q \in Queues : \A i \in 1..Len(pool[q]) :
        /\ ~MainAt(c, q, i)
        /\ PreAt(c, q, i) => step[c] = "call" /\ op = "join" /\ q = <<"parent", Account(c)>>
  BY <1>1 DEF ClientInv, PreInv, MainInv, Calls
<1>4. \A q \in Queues : q = <<"parent", Account(c)>> => Account(c) # None
  BY ClientAssumption DEF Queues
<1> QED
  BY <1>2, <1>3, <1>4

\* Refused keeps the invariant.
LEMMA RefusedStep ==
  ASSUME Inv, NEW c \in Clients, NEW op, Calls(c, op, "done"), Refused(c), Rest(c)
  PROVE  Inv'
<1>1. ClientInv(c) /\ TypeOK
  BY DEF Inv
<1>2. /\ UNCHANGED <<actor, pool, fate, receipt, job, raced>>
      /\ Remembers(c) \/ UNCHANGED <<sender, chosen>>
  BY DEF Refused, Rest
<1>3. Moves(c, "done", "error") /\ pool' \in [Queues -> Seq(Txs)] /\ fate' \in Fates /\ receipt' \in Receipts
  BY <1>1 DEF Moves, Refused, Ends, TypeOK, Fates, Receipts
<1>4. /\ TypeOK' /\ \A d \in Clients \ {c} : SameLocal(d)
      /\ step'[c] = "done" /\ answer'[c] = "error"
  BY <1>2, <1>3, CallType
<1>5. Account(c) # None => Account(c)' = Account(c)
  BY <1>2, RemembersFacts
<1>6. ClientInv(c)'
  <2>1. /\ receipt[c] = "none" /\ job[c].op \in Changes
        /\ \A q \in Queues : \A i \in 1..Len(pool[q]) :
             /\ ~MainAt(c, q, i)
             /\ PreAt(c, q, i) => Account(c) # None
    BY BeforeSend
  <2>2. JobInv(c)'
    BY <1>1, <1>2, <1>4 DEF ClientInv, JobInv
  <2>3. PreInv(c)'
    BY <1>1, <1>2, <1>4, <1>5, <2>1 DEF ClientInv, PreInv, PreAt, Bootstrapped
  <2>4. MainInv(c)' /\ OrderInv(c)' /\ PendingInv(c)' /\ SentInv(c)' /\ RevertInv(c)'
    BY <1>1, <1>2, <2>1
       DEF ClientInv, MainInv, OrderInv, PendingInv, SentInv, RevertInv, PreAt, MainAt, Bootstrapped
  <2>5. MinedInv(c)'
    BY <1>2, <1>4, <2>1 DEF MinedInv, Mined
  <2>6. GenesisInv(c)'
    BY <1>2, <2>1 DEF GenesisInv, Changes
  <2> QED
    BY <2>2, <2>3, <2>4, <2>5, <2>6 DEF ClientInv
<1> QED
  BY <1>2, <1>4, <1>6, OwnStep

\* Send keeps the invariant.
LEMMA SendStep ==
  ASSUME Inv, NEW c \in Clients, NEW op \in Changes, NEW amount \in Nat, NEW label, NEW r,
         Calls(c, op, label), Sends(c, op, amount), Moves(c, label, r), Rest(c)
  PROVE  Inv'
<1> DEFINE tx == Tx(c, op, amount)
<1>1. ClientInv(c) /\ TypeOK
  BY DEF Inv
<1>2. UNCHANGED <<actor, job, raced>> /\ Remembers(c)
  BY DEF Rest, Sends
<1>3. PICK p \in Queues : p = <<Chain(op), CheckSender(c)>>
  BY SendFacts
<1>4. /\ CheckSender(c) \in Accounts
      /\ op \in {"join", "preFund"} => amount > 0
      /\ op = "preFund" => ~Bootstrapped(actor)
      /\ op = "join" => ~actor.killed /\ actor.total[CheckSender(c)] = 0
      /\ pool' \in [Queues -> Seq(Txs)] /\ fate' \in Fates /\ receipt' \in Receipts
      /\ \E n \in Nat : Placed(p, tx, n)
      /\ IF op = "preFund" THEN fate'[c] = "sent" ELSE FateMoves(c)
      /\ \A d \in Clients \ {c} : FateMoves(d) /\ ReceiptMoves(d)
      /\ receipt'[c] = receipt[c] \/ HasMain(c)
  BY <1>3, SendFacts
<1>5. PICK n \in Nat : Placed(p, tx, n)
  BY <1>4
<1>6. tx.client = c /\ tx.op = op /\ tx.amount = amount
  BY DEF Tx
<1> HIDE DEF tx
<1>7. /\ TypeOK' /\ \A d \in Clients \ {c} : SameLocal(d)
      /\ step'[c] = label /\ answer'[c] = r
  BY <1>2, <1>4, CallType
<1>8. AmountInv'
  BY <1>4, <1>5, <1>6 DEF Inv, AmountInv, Placed
<1>9. ASSUME NEW d \in Clients, d # c
      PROVE  ClientInv(d)'
  <2>1. \A q \in Queues : \A i \in 1..Len(pool'[q]) : pool'[q][i].client = d =>
          i \in 1..Len(pool[q]) /\ pool[q][i] = pool'[q][i]
    BY <1>5, <1>6, <1>9 DEF Placed
  <2>2. FateMoves(d) /\ ReceiptMoves(d) /\ SameLocal(d)
    BY <1>4, <1>7, <1>9
  <2> QED
    BY <1>2, <2>1, <2>2, PoolStep
<1>10. ClientInv(c)'
  <2>1. /\ receipt[c] = "none" /\ answer[c] = "none" /\ job[c].op \in Changes
        /\ \A q \in Queues : \A i \in 1..Len(pool[q]) :
             /\ ~MainAt(c, q, i)
             /\ PreAt(c, q, i) => /\ step[c] = "call" /\ op = "join" /\ q = <<"parent", Account(c)>>
                                  /\ Account(c) # None
    BY BeforeSend
  <2>2. Account(c)' = CheckSender(c) /\ (Account(c) # None => CheckSender(c) = Account(c))
    BY <1>2, RemembersFacts
  <2>3. receipt'[c] = "none"
    BY <1>4, <2>1 DEF HasMain
  <2>4. fate[c] # "none" => fate'[c] # "none"
    BY <1>4 DEF FateMoves
  <2>5. \A q \in Queues : \A i \in 1..Len(pool'[q]) :
          /\ PreAt(c, q, i)' => \/ q = p /\ i = n /\ op = "preFund"
                                \/ i \in 1..Len(pool[q]) /\ PreAt(c, q, i) /\ (q = p => i < n)
          /\ MainAt(c, q, i)' => q = p /\ i = n /\ op # "preFund" /\ pool'[q][i].op = op
    BY <1>5, <1>6, <2>1 DEF Placed, PreAt, MainAt
  <2>6. JobInv(c)'
    <3>1. CASE step[c] = "call"
      BY <1>1, <1>2, <1>7, <2>1, <2>3, <2>4, <3>1 DEF ClientInv, JobInv, Calls, Moves
    <3>2. CASE step[c] = "initial"
      <4>1. op = "preFund" /\ job[c].op = "join" /\ label \in {"call", "done"}
        BY <1>1, <3>2 DEF ClientInv, JobInv, Calls, Moves
      <4>2. fate'[c] = "sent"
        BY <1>4, <4>1
      <4> QED
        BY <1>1, <1>2, <1>7, <2>3, <3>2, <4>1, <4>2 DEF ClientInv, JobInv, Moves, Changes
    <3> QED
      BY <3>1, <3>2 DEF Calls
  <2>7. PreInv(c)'
    <3> SUFFICES ASSUME NEW q \in Queues, NEW i \in 1..Len(pool'[q]), PreAt(c, q, i)'
                 PROVE  /\ label \in {"call", "wait", "done"}
                        /\ job[c].op \in {"join", "preFund"} /\ (label = "call" => job[c].op = "join")
                        /\ q = <<"parent", Account(c)'>>
                        /\ Bootstrapped(actor) => actor.genesis.by # c
      BY <1>2, <1>7 DEF PreInv, Bootstrapped
    <3>1. CASE q = p /\ op = "preFund"
      <4>1. p = <<"parent", Account(c)'>>
        BY <1>3, <2>2, <3>1 DEF Chain, ParentCalls, FundingCalls
      <4>2. job[c].op \in {"join", "preFund"} /\ (label = "call" => job[c].op = "join")
        BY <1>1, <3>1 DEF ClientInv, JobInv, Calls
      <4> QED
        BY <1>4, <3>1, <4>1, <4>2 DEF Moves
    <3>2. CASE i \in 1..Len(pool[q]) /\ PreAt(c, q, i)
      BY <1>1, <2>1, <2>2, <3>2 DEF ClientInv, PreInv, Calls, Moves
    <3> QED
      BY <2>5, <3>1, <3>2
  <2>8. MainInv(c)'
    <3> SUFFICES ASSUME NEW q \in Queues, NEW i \in 1..Len(pool'[q]), MainAt(c, q, i)'
                 PROVE  /\ label \in {"wait", "done"} /\ pool'[q][i].op = job[c].op
                        /\ q = <<Chain(job[c].op), Account(c)'>>
                        /\ job[c].op = "join" /\ job[c].initial # None => fate'[c] # "none"
      BY <1>2, <1>7 DEF MainInv, Chain
    <3>1. q = p /\ op # "preFund" /\ pool'[q][i].op = op
      BY <2>5
    <3>2. step[c] = "call" /\ job[c].op = op /\ label \in {"wait", "done"}
      BY <3>1 DEF Calls, Moves
    <3> QED
      BY <1>1, <1>3, <2>2, <2>4, <3>1, <3>2 DEF ClientInv, JobInv
  <2>9. OrderInv(c)'
    BY <2>5 DEF OrderInv
  <2>10. SentInv(c)'
    <3>1. CASE op = "preFund"
      <4>1. n \in 1..Len(pool'[p]) /\ PreAt(c, p, n)'
        BY <1>5, <1>6, <3>1 DEF Placed, PreAt
      <4> QED
        BY <1>4, <4>1 DEF SentInv
    <3>2. CASE op # "preFund"
      <4> SUFFICES ASSUME fate'[c] = "sent"
                   PROVE  \E q \in Queues : \E i \in 1..Len(pool'[q]) : PreAt(c, q, i)'
        BY DEF SentInv
      <4>1. FateMoves(c)
        BY <1>4, <3>2
      <4>2. PICK q \in Queues : \E i \in 1..Len(pool[q]) : PreAt(c, q, i)
        BY <1>1, <4>1 DEF ClientInv, SentInv, FateMoves
      <4>3. PICK i \in 1..Len(pool[q]) : PreAt(c, q, i)
        BY <4>2
      <4>4. PreAt(c, q, i)'
        BY <4>1, <4>3 DEF FateMoves
      <4>5. i \in 1..Len(pool'[q])
        BY <4>4 DEF PreAt
      <4> QED
        BY <4>4, <4>5
    <3> QED
      BY <3>1, <3>2
  <2>11. RevertInv(c)'
    BY <1>1, <1>2, <1>4 DEF ClientInv, RevertInv, FateMoves, Bootstrapped
  <2>12. MinedInv(c)'
    BY <1>2, <1>7, <2>3 DEF MinedInv, Mined, Moves
  <2>13. GenesisInv(c)'
    BY <1>2, <2>1 DEF GenesisInv, Changes
  <2>14. PendingInv(c)'
    <3> SUFFICES ASSUME NEW q \in Queues, NEW i \in 1..Len(pool'[q]), MainAt(c, q, i)'
                 PROVE  /\ receipt'[c] = "none"
                        /\ \A j \in 1..Len(pool'[q]) : MainAt(c, q, j)' => j = i
                        /\ job'[c].op = "join" => ~actor'.killed /\ actor'.total[Account(c)'] = 0
      BY DEF PendingInv
    <3>1. q = p /\ i = n /\ op # "preFund"
      BY <2>5
    <3>2. \A j \in 1..Len(pool'[q]) : MainAt(c, q, j)' => j = i
      BY <2>5, <3>1
    <3>3. job[c].op = op
      BY <3>1 DEF Calls
    <3> QED
      BY <1>2, <1>4, <2>2, <2>3, <3>2, <3>3
  <2> QED
    BY <2>6, <2>7, <2>8, <2>9, <2>10, <2>11, <2>12, <2>13, <2>14 DEF ClientInv
<1> QED
  BY <1>7, <1>8, <1>9, <1>10 DEF Inv

\* A lost reply ends the command.
LEMMA LosesReplyFacts ==
  ASSUME Inv, NEW c \in Clients, LosesReply(c)
  PROVE  Moves(c, "done", "error")
BY ClientAssumption DEF Inv, TypeOK, LosesReply, Ends, Moves

\* A command that goes on to its next call.
LEMMA ProceedsFacts ==
  ASSUME Inv, NEW c \in Clients, NEW label \in {"call", "wait"}, Proceeds(c, label), answer[c] = "none"
  PROVE  Moves(c, label, "none")
<1>1. answer = [answer EXCEPT ![c] = "none"]
  BY DEF Inv, TypeOK
<1> QED
  BY <1>1 DEF Inv, TypeOK, Proceeds, Moves

\* Transact keeps the invariant.
LEMMA TransactStep ==
  ASSUME Inv, NEW c \in Clients, NEW op \in Changes, Transact(c, op)
  PROVE  Inv'
<1>1. step[c] = "call" /\ job[c].op = op /\ Rest(c) /\ job[c].amount \in Nat
  BY DEF Transact, Inv, TypeOK, Jobs
<1>2. Calls(c, op, "wait") /\ Calls(c, op, "done")
  BY <1>1 DEF Calls
<1>3. CASE Refused(c)
  BY <1>1, <1>2, <1>3, RefusedStep
<1>4. CASE Sends(c, op, job[c].amount) /\ Proceeds(c, "wait")
  <2>1. answer[c] = "none"
    BY <1>2, BeforeSend
  <2>2. Moves(c, "wait", "none")
    BY <1>4, <2>1, ProceedsFacts
  <2> QED
    BY <1>1, <1>2, <1>4, <2>2, SendStep
<1>5. CASE Sends(c, op, job[c].amount) /\ LosesReply(c)
  BY <1>1, <1>2, <1>5, LosesReplyFacts, SendStep
<1> QED
  BY <1>3, <1>4, <1>5 DEF Transact

\* PreFund keeps the invariant.
LEMMA PreFundStep ==
  ASSUME Inv, NEW c \in Clients, PreFund(c)
  PROVE  Inv'
<1>1. /\ step[c] = "call" /\ job[c].op = "preFund" /\ Rest(c)
      /\ job[c].amount \in Nat /\ "preFund" \in Changes
  BY DEF PreFund, Inv, TypeOK, Jobs, Changes
<1>2. Calls(c, "preFund", "done")
  BY <1>1 DEF Calls
<1>3. CASE Refused(c)
  BY <1>1, <1>2, <1>3, RefusedStep
<1>4. CASE Sends(c, "preFund", job[c].amount) /\ Ends(c, "ok") /\ UNCHANGED faults
  <2>1. Moves(c, "done", "ok")
    BY <1>4 DEF Moves, Ends, Inv, TypeOK
  <2> QED
    BY <1>1, <1>2, <1>4, <2>1, SendStep
<1>5. CASE Sends(c, "preFund", job[c].amount) /\ LosesReply(c)
  BY <1>1, <1>2, <1>5, LosesReplyFacts, SendStep
<1> QED
  BY <1>3, <1>4, <1>5 DEF PreFund

\* PreFundJoin keeps the invariant.
LEMMA PreFundJoinStep ==
  ASSUME Inv, NEW c \in Clients, PreFundJoin(c)
  PROVE  Inv'
<1>1. /\ step[c] = "initial" /\ Rest(c)
      /\ job[c].initial \in Nat /\ "preFund" \in Changes
  BY ClientAssumption DEF PreFundJoin, Inv, ClientInv, JobInv, Changes
<1>2. Calls(c, "preFund", "done") /\ Calls(c, "preFund", "call")
  BY <1>1 DEF Calls
<1>3. CASE Refused(c)
  BY <1>1, <1>2, <1>3, RefusedStep
<1>4. CASE Sends(c, "preFund", job[c].initial) /\ Proceeds(c, "call")
  <2>1. answer[c] = "none"
    BY <1>2, BeforeSend
  <2>2. Moves(c, "call", "none")
    BY <1>4, <2>1, ProceedsFacts
  <2> QED
    BY <1>1, <1>2, <1>4, <2>2, SendStep
<1>5. CASE Sends(c, "preFund", job[c].initial) /\ LosesReply(c)
  BY <1>1, <1>2, <1>5, LosesReplyFacts, SendStep
<1> QED
  BY <1>3, <1>4, <1>5 DEF PreFundJoin

\* Manager keeps the invariant.
LEMMA ManagerStep ==
  ASSUME Inv, NEW c \in Clients, Manager(c)
  PROVE  Inv'
<1>1. CASE \E op \in Changes : Transact(c, op)
  BY <1>1, TransactStep
<1>2. CASE PreFund(c) \/ PreFundJoin(c)
  BY <1>2, PreFundStep, PreFundJoinStep
<1>3. CASE GetReceipt(c) \/ GiveUp(c)
  BY <1>3, ReceiptStep
<1>4. CASE ReadGenesisBalances(c) \/ GenesisEpoch(c) \/ ReadGenesisValidators(c)
  BY <1>4, ReadGenesisStep
<1>5. CASE ReadValidator(c) \/ ReadIsActive(c) \/ ReadIsWaiting(c)
  BY <1>5, ReadValidatorStep
<1>6. CASE ReadFails(c)
  BY <1>6, ReadFailsStep
<1> QED
  BY <1>1, <1>2, <1>3, <1>4, <1>5, <1>6
     DEF Manager, Changes, CreateSubnet, JoinSubnet, PreRelease, Stake, Unstake, LeaveSubnet,
         KillSubnet, ClaimCollateral, ClaimRelayerReward, AddBootstrap, Fund, Release, SendValue

-----------------------------------------------------------------------------
(* The chains. *)

\* Drop keeps the invariant.
LEMMA DropStep ==
  ASSUME Inv, NEW p \in Queues, Drop(p)
  PROVE  Inv'
<1>1. TypeOK /\ pool \in [Queues -> Seq(Txs)]
  BY DEF Inv, TypeOK
<1>2. /\ UNCHANGED <<actor, node, chosen, step, job, default, sender, info, answer, raced, late,
                      started>>
      /\ pool' = [pool EXCEPT ![p] = <<>>]
      /\ fate' = FateWithout(pool[p]) /\ receipt' = ReceiptWithout(pool[p])
      /\ faults' \in 0..MaxFaults
  BY <1>1, ClientAssumption DEF Drop, TypeOK
<1>3. /\ pool' \in [Queues -> Seq(Txs)] /\ pool'[p] = <<>> /\ Len(pool'[p]) = 0
      /\ \A q \in Queues : q # p => pool'[q] = pool[q]
  BY <1>1, <1>2
<1>4. FateWithout(pool[p]) \in Fates /\ ReceiptWithout(pool[p]) \in Receipts
  BY WithoutFacts
<1>5. TypeOK'
  BY <1>1, <1>2, <1>3, <1>4 DEF TypeOK, Fates, Receipts
<1>6. \A q \in Queues : \A i \in 1..Len(pool'[q]) : i \in 1..Len(pool[q]) /\ pool[q][i] = pool'[q][i]
  BY <1>3
<1>7. AmountInv'
  BY <1>2, <1>6 DEF Inv, AmountInv
<1>8. ASSUME NEW d \in Clients
      PROVE  ClientInv(d)'
  <2>1. SameLocal(d)
    BY <1>2 DEF SameLocal
  <2>2. \A q \in Queues : q # p => \A i \in 1..Len(pool[q]) : PreAt(d, q, i) => PreAt(d, q, i)'
    BY <1>3 DEF PreAt
  <2>3. FateMoves(d)
    BY <1>2, <2>2, WithoutFacts DEF FateMoves
  <2>4. ReceiptMoves(d)
    <3>1. \A q \in Queues : \A i \in 1..Len(pool'[q]) : MainAt(d, q, i)' =>
            q # p /\ i \in 1..Len(pool[q]) /\ MainAt(d, q, i)
      BY <1>3 DEF MainAt
    <3> QED
      BY <1>2, <3>1, WithoutFacts DEF ReceiptMoves
  <2> QED
    BY <1>2, <1>6, <2>1, <2>3, <2>4, PoolStep
<1> QED
  BY <1>5, <1>7, <1>8 DEF Inv

\* Confirm keeps the invariant.
LEMMA ConfirmStep ==
  ASSUME Inv, Confirm
  PROVE  Inv'
<1>1. TypeOK /\ actor \in Actors
  BY DEF Inv, TypeOK
<1>2. /\ UNCHANGED <<node, pool, chosen, step, job, default, sender, receipt, info, answer, fate,
                      raced, late, started, faults>>
      /\ Becomes(Settled(actor))
  BY DEF Confirm, client, ghost
<1> DEFINE s == Settled(actor)
<1>3. s \in Actors /\ s.total = actor.total /\ s.genesis = actor.genesis /\ s.killed = actor.killed
  BY <1>1, SettledFacts
<1> HIDE DEF s
<1>4. /\ actor' \in Actors /\ actor'.total = actor.total
      /\ actor'.genesis = actor.genesis /\ actor'.killed = actor.killed
  BY <1>2, <1>3, BecomesFacts DEF s
<1>5. TypeOK'
  BY <1>1, <1>2, <1>4 DEF TypeOK
<1>6. AmountInv'
  BY <1>2 DEF Inv, AmountInv
<1>7. ASSUME NEW d \in Clients
      PROVE  ClientInv(d)'
  <2>1. ClientInv(d) /\ SameLocal(d) /\ Account(d)' = Account(d)
    BY <1>2 DEF Inv, SameLocal, Account
  <2>2. GenesisInv(d)'
    BY <1>4, <2>1, QueryFrame
  <2>3. actor'.genesis = actor.genesis /\ Bootstrapped(actor)' = Bootstrapped(actor)
    BY <1>4 DEF Bootstrapped
  <2>4. JobInv(d)'
    BY <1>2, <2>1 DEF ClientInv, JobInv
  <2>5. PreInv(d)' /\ MainInv(d)' /\ OrderInv(d)' /\ SentInv(d)' /\ RevertInv(d)'
    BY <1>2, <2>1, <2>3
       DEF ClientInv, PreInv, MainInv, OrderInv, SentInv, RevertInv, PreAt, MainAt, Chain
  <2>6. MinedInv(d)' /\ PendingInv(d)'
    BY <1>2, <1>4, <2>1 DEF ClientInv, MinedInv, PendingInv, Mined, MainAt
  <2> QED
    BY <2>2, <2>4, <2>5, <2>6 DEF ClientInv
<1> QED
  BY <1>5, <1>6, <1>7 DEF Inv

\* Mine keeps the invariant.
LEMMA MineStep ==
  ASSUME Inv, NEW p \in Queues, Mine(p)
  PROVE  Inv'
<1> DEFINE tx == Head(pool[p])
           ok == Accepts(actor, p[2], tx)
           s == IF ok THEN Executed(actor, p[2], tx) ELSE actor
<1>1. TypeOK /\ actor \in Actors /\ pool \in [Queues -> Seq(Txs)] /\ fate \in Fates /\ receipt \in Receipts
  BY DEF Inv, TypeOK, Fates, Receipts
<1>2. /\ UNCHANGED <<node, chosen, step, job, default, sender, info, answer, late, started, faults>>
      /\ pool[p] # <<>> /\ pool' = [pool EXCEPT ![p] = Tail(pool[p])]
      /\ Becomes(s)
      /\ fate' = [c \in Clients |-> IF tx.op = "preFund" /\ tx.client = c
                                    THEN IF ok THEN "done" ELSE "reverted" ELSE fate[c]]
      /\ receipt' = [c \in Clients |-> IF tx.op # "preFund" /\ tx.client = c
                                       THEN IF ok THEN "ok" ELSE "reverted" ELSE receipt[c]]
      /\ raced' = IF ok THEN raced \cup Overtaken(p[2], tx) ELSE raced
  BY DEF Mine
<1>3. /\ Len(pool[p]) \in Nat /\ 1 \in 1..Len(pool[p]) /\ tx = pool[p][1] /\ tx \in Txs
      /\ pool'[p] \in Seq(Txs) /\ Len(pool'[p]) = Len(pool[p]) - 1
      /\ \A i \in 1..Len(pool'[p]) : pool'[p][i] = pool[p][i + 1]
  <2>1. pool[p] \in Seq(Txs) /\ pool'[p] = Tail(pool[p])
    BY <1>1, <1>2
  <2>2. Len(pool[p]) \in Nat \ {0}
    BY <1>2, <2>1, EmptySeq
  <2>3. tx = pool[p][1]
    BY <1>2, <2>1
  <2>4. /\ Head(pool[p]) \in Txs /\ Tail(pool[p]) \in Seq(Txs) /\ Len(Tail(pool[p])) = Len(pool[p]) - 1
        /\ \A i \in 1..Len(Tail(pool[p])) : Tail(pool[p])[i] = pool[p][i + 1]
    BY <1>2, <2>1, HeadTailProperties
  <2>5. Len(pool[p]) \in Nat /\ 1 \in 1..Len(pool[p])
    BY <2>2
  <2> QED
    BY <2>1, <2>3, <2>4, <2>5, Zenon
<1>4. p[2] \in Accounts
  BY DEF Queues
<1>5. tx.op \in {"preFund", "join"} => tx.amount > 0
  BY <1>3 DEF Inv, AmountInv
<1>6. /\ s \in Actors
      /\ \/ s.genesis = actor.genesis
         \/ ok /\ ~Bootstrapped(actor) /\ tx.op # "preFund" /\ s.genesis.by = tx.client
      /\ ok => /\ tx.op # "kill" => s.killed = actor.killed
               /\ \A b \in Accounts : actor.total[b] = 0 /\ ~(tx.op = "join" /\ b = p[2]) => s.total[b] = 0
      /\ ~ok => /\ s = actor /\ (tx.op = "preFund" => Bootstrapped(actor))
                /\ tx.op = "join" => actor.killed \/ actor.total[p[2]] # 0
  <2>1. CASE ok
    BY <1>1, <1>3, <1>4, <2>1, ExecutedFacts
  <2>2. CASE ~ok
    <3>1. s = actor
      BY <2>2
    <3>2. (tx.op = "preFund" => Bootstrapped(actor)) /\ (tx.op = "join" => actor.killed \/ actor.total[p[2]] # 0)
      BY <1>1, <1>3, <1>4, <1>5, <2>2, RevertFacts
    <3> HIDE DEF s, tx
    <3> QED
      BY <1>1, <2>2, <3>1, <3>2
  <2> QED
    BY <2>1, <2>2
<1> HIDE DEF s, tx, ok
<1>7. /\ raced \subseteq raced' /\ raced' \subseteq Clients
      /\ \A d \in Clients : ok /\ tx.client # d /\ step[d] = "wait" /\ job[d].op = "join"
           /\ (tx.op = "kill" \/ (tx.op = "join" /\ p[2] = Account(d))) => d \in raced'
  BY <1>1, <1>2 DEF TypeOK, Overtaken
<1>8. /\ actor' \in Actors /\ actor'.total = s.total
      /\ actor'.genesis = s.genesis /\ actor'.killed = s.killed
  BY <1>2, <1>6, BecomesFacts
<1>9. pool' \in [Queues -> Seq(Txs)] /\ \A q \in Queues : q # p => pool'[q] = pool[q]
  BY <1>1, <1>2, <1>3
<1>10. fate' \in Fates /\ receipt' \in Receipts
  BY <1>1, <1>2 DEF Fates, Receipts
<1>11. TypeOK'
  BY <1>1, <1>2, <1>7, <1>8, <1>9, <1>10 DEF TypeOK, Fates, Receipts
<1> DEFINE k == [q \in Queues |-> IF q = p THEN 1 ELSE 0]
<1>12. k \in [Queues -> Nat] /\ k[p] = 1 /\ \A q \in Queues : q # p => k[q] = 0
  OBVIOUS
<1> HIDE DEF k
<1>13. \A q \in Queues : \A i \in 1..Len(pool'[q]) :
         i + k[q] \in 1..Len(pool[q]) /\ pool[q][i + k[q]] = pool'[q][i]
  <2>1. \A i \in 1..Len(pool'[p]) : i + k[p] \in 1..Len(pool[p]) /\ pool[p][i + k[p]] = pool'[p][i]
    BY <1>3, <1>12
  <2>2. ASSUME NEW q \in Queues, q # p
        PROVE  \A i \in 1..Len(pool'[q]) : i + k[q] \in 1..Len(pool[q]) /\ pool[q][i + k[q]] = pool'[q][i]
    <3>1. pool'[q] = pool[q] /\ k[q] = 0
      BY <1>9, <1>12, <2>2
    <3> QED
      BY <3>1
  <2> QED
    BY <2>1, <2>2
<1>14. AmountInv'
  BY <1>13 DEF Inv, AmountInv
<1>15. ASSUME NEW d \in Clients
       PROVE  ClientInv(d)'
  <2>1. ClientInv(d) /\ SameLocal(d) /\ Account(d)' = Account(d)
    BY <1>2 DEF Inv, SameLocal, Account
  <2>2. /\ fate'[d] = (IF tx.op = "preFund" /\ tx.client = d
                       THEN IF ok THEN "done" ELSE "reverted" ELSE fate[d])
        /\ receipt'[d] = (IF tx.op # "preFund" /\ tx.client = d
                          THEN IF ok THEN "ok" ELSE "reverted" ELSE receipt[d])
    BY <1>2
  <2>3. /\ tx.op = "preFund" /\ tx.client = d => PreAt(d, p, 1)
        /\ tx.op # "preFund" /\ tx.client = d => MainAt(d, p, 1)
    BY <1>3 DEF PreAt, MainAt
  <2>4. Bootstrapped(actor) => actor'.genesis = actor.genesis
    BY <1>6, <1>8
  <2>5. \A q \in Queues : \A i \in 1..Len(pool'[q]) : PreAt(d, q, i)' =>
          i + k[q] \in 1..Len(pool[q]) /\ PreAt(d, q, i + k[q])
    BY <1>13 DEF PreAt
  \* The join of d, or another call, is not mined before its pre-funding.
  <2>6. ASSUME MainAt(d, p, 1), NEW q \in Queues, NEW i \in 1..Len(pool[q]), PreAt(d, q, i)
        PROVE  FALSE
    <3>1. /\ job[d].op \in {"join", "preFund"} /\ q = <<"parent", Account(d)>>
          /\ pool[p][1].op = job[d].op /\ p = <<Chain(job[d].op), Account(d)>>
      BY <1>3, <2>1, <2>6 DEF ClientInv, PreInv, MainInv
    <3>2. pool[p][1].op # "preFund"
      BY <2>6 DEF MainAt
    <3>3. q = p
      BY <3>1, <3>2 DEF Chain, ParentCalls, FundingCalls
    <3>4. i < 1
      BY <1>3, <2>1, <2>6, <3>3 DEF ClientInv, OrderInv
    <3> QED
      BY <3>4
  <2>7. \A q \in Queues : \A i \in 1..Len(pool'[q]) : PreAt(d, q, i)' =>
          (Bootstrapped(actor)' => actor'.genesis.by # d)
    <3> SUFFICES ASSUME NEW q \in Queues, NEW i \in 1..Len(pool'[q]), PreAt(d, q, i)',
                        Bootstrapped(actor)', actor'.genesis.by = d
                 PROVE  FALSE
      OBVIOUS
    <3>1. i + k[q] \in 1..Len(pool[q]) /\ PreAt(d, q, i + k[q])
      BY <2>5
    <3>2. CASE s.genesis = actor.genesis
      BY <1>8, <2>1, <3>1, <3>2 DEF ClientInv, PreInv, Bootstrapped
    <3>3. CASE tx.op # "preFund" /\ s.genesis.by = tx.client
      BY <1>8, <2>3, <2>6, <3>1, <3>3
    <3> QED
      BY <1>6, <3>2, <3>3
  <2>8. JobInv(d)' /\ PreInv(d)' /\ MainInv(d)' /\ OrderInv(d)'
    <3>1. fate'[d] = fate[d] \/ (fate'[d] # "none" /\ HasPre(d))
      BY <1>3, <2>2, <2>3 DEF HasPre
    <3>2. receipt'[d] = receipt[d] \/ HasMain(d)
      BY <1>3, <2>2, <2>3 DEF HasMain
    <3> QED
      BY <1>12, <1>13, <2>1, <2>7, <3>1, <3>2, QueueFrame DEF HasPre, HasMain
  <2>9. SentInv(d)'
    <3> SUFFICES ASSUME fate'[d] = "sent"
                 PROVE  \E q \in Queues : \E i \in 1..Len(pool'[q]) : PreAt(d, q, i)'
      BY DEF SentInv
    <3>1. fate[d] = "sent" /\ ~(tx.op = "preFund" /\ tx.client = d)
      BY <2>2
    <3>2. PICK q \in Queues : \E i \in 1..Len(pool[q]) : PreAt(d, q, i)
      BY <2>1, <3>1 DEF ClientInv, SentInv
    <3>3. PICK i \in 1..Len(pool[q]) : PreAt(d, q, i)
      BY <3>2
    <3>4. CASE q = p
      <4>1. i # 1
        BY <1>3, <3>1, <3>3, <3>4 DEF PreAt
      <4>2. i - 1 \in 1..Len(pool'[q]) /\ pool'[q][i - 1] = pool[q][i]
        BY <1>3, <3>4, <4>1
      <4>3. PreAt(d, q, i - 1)'
        BY <3>3, <4>2 DEF PreAt
      <4> QED
        BY <4>2, <4>3
    <3>5. CASE q # p
      <4>1. pool'[q] = pool[q]
        BY <1>9, <3>5
      <4> QED
        BY <3>3, <4>1 DEF PreAt
    <3> QED
      BY <3>4, <3>5
  <2>10. RevertInv(d)'
    <3> SUFFICES ASSUME fate'[d] = "reverted"
                 PROVE  Bootstrapped(actor)' /\ actor'.genesis.by # d
      BY DEF RevertInv
    <3>1. CASE fate[d] = "reverted"
      BY <2>1, <2>4, <3>1 DEF ClientInv, RevertInv, Bootstrapped
    <3>2. CASE fate[d] # "reverted"
      <4>1. tx.op = "preFund" /\ tx.client = d /\ ~ok
        BY <2>2, <3>2
      <4>2. Bootstrapped(actor)
        BY <1>6, <4>1
      <4>3. actor.genesis.by # d
        BY <1>3, <2>1, <2>3, <4>1, <4>2 DEF ClientInv, PreInv
      <4> QED
        BY <2>4, <4>2, <4>3 DEF Bootstrapped
    <3> QED
      BY <3>1, <3>2
  <2>11. MinedInv(d)'
    <3>1. CASE MainAt(d, p, 1)
      <4>1. receipt[d] = "none" /\ answer[d] # "epoch"
        BY <1>3, <2>1, <3>1 DEF ClientInv, PendingInv, MinedInv, Mined
      <4>2. tx.op # "preFund" /\ tx.client = d /\ tx.op = job[d].op
        BY <1>3, <2>1, <3>1 DEF MainAt, ClientInv, MainInv
      <4> SUFFICES ASSUME job[d].op = "join"
                   PROVE  /\ job[d].initial # None => fate'[d] \notin {"none", "sent"}
                          /\ step[d] = "wait" => receipt'[d] = "ok" \/ d \in raced'
        BY <1>2, <4>1 DEF MinedInv
      <4>3. fate'[d] = fate[d] /\ fate[d] # "sent" /\ (job[d].initial # None => fate[d] # "none")
        BY <1>3, <2>1, <2>2, <2>6, <3>1, <4>2 DEF ClientInv, SentInv, MainInv
      <4>4. step[d] = "wait" => d \in raced \/ (~actor.killed /\ actor.total[p[2]] = 0)
        <5>1. p[2] = Account(d)
          BY <1>3, <2>1, <3>1 DEF ClientInv, MainInv
        <5> QED
          BY <1>3, <2>1, <3>1, <5>1 DEF ClientInv, PendingInv
      <4>5. step[d] = "wait" => receipt'[d] = "ok" \/ d \in raced'
        BY <1>6, <1>7, <2>2, <4>2, <4>4
      <4> QED
        BY <4>3, <4>5
    <3>2. CASE ~MainAt(d, p, 1)
      <4>1. receipt'[d] = receipt[d]
        BY <2>2, <2>3, <3>2
      <4>2. fate[d] \notin {"none", "sent"} => fate'[d] \notin {"none", "sent"}
        BY <2>2
      <4> QED
        BY <1>2, <1>7, <2>1, <4>1, <4>2 DEF ClientInv, MinedInv, Mined
    <3> QED
      BY <3>1, <3>2
  <2>12. GenesisInv(d)'
    BY <2>1, <2>4, QueryFrame
  <2>13. PendingInv(d)'
    <3> SUFFICES ASSUME NEW q \in Queues, NEW i \in 1..Len(pool'[q]), MainAt(d, q, i)'
                 PROVE  /\ receipt'[d] = receipt[d]
                        /\ step[d] = "wait" /\ job[d].op = "join" /\ ~actor.killed
                           /\ actor.total[Account(d)] = 0 =>
                             d \in raced' \/ (~actor'.killed /\ actor'.total[Account(d)] = 0)
      BY <1>7, <1>12, <1>13, <2>1, PendingFrame
    <3>1. i + k[q] \in 1..Len(pool[q]) /\ MainAt(d, q, i + k[q])
      BY <1>13 DEF MainAt
    <3>2. ~MainAt(d, p, 1)
      <4> SUFFICES ASSUME MainAt(d, p, 1) PROVE FALSE
        OBVIOUS
      <4>1. q = p
        BY <1>3, <2>1, <3>1 DEF ClientInv, MainInv
      <4>2. i + k[q] = 1
        BY <1>3, <2>1, <3>1, <4>1 DEF ClientInv, PendingInv
      <4> QED
        BY <1>12, <4>1, <4>2
    <3>3. receipt'[d] = receipt[d] /\ (tx.op # "preFund" => tx.client # d)
      BY <2>2, <2>3, <3>2
    <3>4. Account(d) \in Accounts
      BY <2>1, <3>1 DEF ClientInv, MainInv, Queues
    <3>5. tx.op \in {"kill", "join"} => tx.client # d
      BY <3>3
    <3> QED
      BY <1>6, <1>7, <1>8, <3>3, <3>4, <3>5
  <2> QED
    BY <2>8, <2>9, <2>10, <2>11, <2>12, <2>13 DEF ClientInv
<1> QED
  BY <1>11, <1>14, <1>15 DEF Inv

-----------------------------------------------------------------------------
(* The theorems. *)

\* The initial states satisfy the invariant.
LEMMA InitInv == Init => Inv
<1> SUFFICES ASSUME Init PROVE Inv
  OBVIOUS
<1>1. Zero \in Ledger /\ NoJob \in Jobs /\ NoJob.op = "none" /\ NoJob.from = None
  BY DEF Zero, Ledger, NoJob, Jobs, Froms
<1>2. NoInfo \in Infos
  BY <1>1 DEF NoInfo, Infos
<1>3. NoGenesis \in [fixed : BOOLEAN, by : Clients \cup {None}, validators : Ledger, balances : Ledger]
  BY <1>1 DEF NoGenesis
<1>4. actor \in Actors
  BY <1>1, <1>3 DEF Init, Actors
<1>5. \A q \in Queues : pool[q] = <<>> /\ Len(pool[q]) = 0
  BY DEF Init
<1>6. TypeOK
  <2>1. pool \in [Queues -> Seq(Txs)]
    BY DEF Init
  <2> QED
    BY <1>1, <1>2, <1>4, <2>1, ClientAssumption DEF Init, TypeOK, Infos, Froms
<1>7. AmountInv
  BY <1>5 DEF AmountInv
<1>8. ASSUME NEW c \in Clients
      PROVE  ClientInv(c)
  <2>1. /\ step[c] = "idle" /\ job[c] = NoJob /\ sender[c] = None /\ receipt[c] = "none"
        /\ answer[c] = "none" /\ fate[c] = "none" /\ c \notin late
    BY DEF Init
  <2>2. JobInv(c) /\ SentInv(c) /\ RevertInv(c) /\ MinedInv(c)
    BY <1>1, <2>1 DEF JobInv, SentInv, RevertInv, MinedInv, Mined
  <2>3. PreInv(c) /\ MainInv(c) /\ OrderInv(c) /\ PendingInv(c)
    BY <1>5 DEF PreInv, MainInv, OrderInv, PendingInv
  <2>4. GenesisInv(c)
    BY <1>1, <2>1 DEF GenesisInv
  <2> QED
    BY <2>2, <2>3, <2>4 DEF ClientInv
<1> QED
  BY <1>6, <1>7, <1>8 DEF Inv

\* Every step keeps the invariant: one case per action.
LEMMA NextStep ==
  ASSUME Inv, [Next]_vars
  PROVE  Inv'
<1>1. CASE UNCHANGED vars
  <2>1. UNCHANGED <<actor, node, pool, chosen, step, job, default, sender, receipt, info, answer,
                    fate, raced, late, started, faults>>
    BY <1>1 DEF vars, chain, client, ghost
  <2>2. TypeOK' /\ AmountInv'
    BY <2>1 DEF Inv, TypeOK, AmountInv
  <2>3. \A c \in Clients : ClientInv(c)'
    BY <2>1, Unaffected DEF SameLocal
  <2> QED
    BY <2>2, <2>3 DEF Inv
<1>2. ASSUME NEW c \in Clients,
             SubnetCommands(c) \/ CrossMsgCommands(c) \/ StartGenesisInfo(c) \/ Manager(c) \/ Exit(c)
      PROVE  Inv'
  BY <1>2, CommandStep, ManagerStep, ExitStep
<1>3. ASSUME NEW q \in Queues, Mine(q) \/ Drop(q)
      PROVE  Inv'
  BY <1>3, MineStep, DropStep
<1>4. ASSUME NEW a \in Accounts, SetDefault(a)
      PROVE  Inv'
  BY <1>4, SetDefaultStep
<1> QED
  BY <1>1, <1>2, <1>3, <1>4, ConfirmStep DEF Next

\* The invariant is one of the specification.
LEMMA Invariance == Spec => []Inv
<1>1. Init => Inv
  BY InitInv
<1>2. Inv /\ [Next]_vars => Inv'
  BY NextStep
<1> QED
  BY <1>1, <1>2, PTL DEF Spec

\* The types of the clients' and the chains' state, and check_sender keeps the
\* default account only.
THEOREM TypeCorrect == Spec => []TypeOK
<1>1. Inv => TypeOK
  BY DEF Inv
<1> QED
  BY <1>1, Invariance, PTL

\* subnet join with an initial balance: when join_subnet reports its epoch, the
\* transaction of pre_fund, which nobody waited for, has been executed or lost,
\* or has reverted because another client bootstrapped the subnet.
THEOREM InitialBalancesAreDecided == Spec => []InitialBalanceIsDecided
<1>1. ASSUME Inv PROVE InitialBalanceIsDecided
  <2> SUFFICES ASSUME NEW c \in Clients, answer[c] = "epoch", job[c].op = "join", job[c].initial # None
               PROVE  \/ fate[c] \in {"done", "lost"}
                      \/ fate[c] = "reverted" /\ Bootstrapped(actor) /\ actor.genesis.by # c
    BY DEF InitialBalanceIsDecided
  <2>1. fate[c] \notin {"none", "sent"}
    BY <1>1 DEF Inv, ClientInv, MinedInv, Mined
  <2>2. fate[c] \in {"none", "sent", "done", "reverted", "lost"}
    BY <1>1 DEF Inv, TypeOK
  <2> QED
    BY <1>1, <2>1, <2>2 DEF Inv, ClientInv, RevertInv
<1> QED
  BY <1>1, Invariance, PTL

\* join_subnet takes any receipt for success, also of a transaction that
\* reverted; but a join that reports its epoch was executed, unless another
\* command joined from the same account, or killed the subnet, while it waited.
THEOREM ReportedJoinsCount == Spec => []ReportedJoinCounts
<1>1. ASSUME Inv PROVE ReportedJoinCounts
  BY <1>1 DEF ReportedJoinCounts, Inv, ClientInv, MinedInv
<1> QED
  BY <1>1, Invariance, PTL

\* get_genesis_info, three reads while others change the subnet, answers with
\* the genesis of a bootstrapped subnet.
THEOREM GenesisInfosAreOfTheGenesis == Spec => []GenesisInfoIsGenesis
<1>1. ASSUME Inv PROVE GenesisInfoIsGenesis
  <2> SUFFICES ASSUME NEW c \in Clients, answer[c] = "info", job[c].op = "genesis"
               PROVE  /\ Bootstrapped(actor)
                      /\ info[c].validators = actor.genesis.validators
                      /\ c \in late => info[c].balances = actor.genesis.balances
    BY DEF GenesisInfoIsGenesis
  <2>1. GenesisInv(c)
    BY <1>1 DEF Inv, ClientInv
  <2> QED
    BY <2>1 DEF GenesisInv
<1> QED
  BY <1>1, Invariance, PTL
=============================================================================
