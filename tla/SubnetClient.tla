---------------------------- MODULE SubnetClient ----------------------------
(***************************************************************************)
(* The commands that change a subnet or ask about it: ipc-cli subnet and   *)
(* ipc-cli cross-msg, the IpcProvider they call (ipc/provider/src/lib.rs)  *)
(* and the transactions and reads of EthSubnetManager behind it.           *)
(*                                                                         *)
(* Every client is one run of ipc-cli after the other.  Clients share the  *)
(* accounts and the key file; each remote call is a step.  The subnet      *)
(* actor, the gateway and the node with its mempool are not code of this   *)
(* repository: they are modelled by what the calls rely on.                *)
(***************************************************************************)
EXTENDS Integers, Sequences, FiniteSets, FiniteSetsExt

CONSTANTS
  Clients,         \* processes that run one command at a time
  Accounts,        \* addresses with a key in the key file
  None,
  Amounts,         \* amounts of command lines that to_u128 can convert
  MinCollateral,   \* min_validator_stake of the subnet
  MinValidators,   \* min_validators of the subnet
  ActiveLimit,     \* active_validators_limit of the subnet
  MaxCommands,     \* bound: commands started
  MaxQueue,        \* bound: transactions of one account in a mempool
  MaxFaults        \* bound: late receipts and dropped transactions

ASSUME ClientAssumption ==
  /\ None \notin Clients /\ None \notin Accounts
  /\ Clients \cap Accounts = {}
  /\ Accounts # {}
  /\ Amounts \subseteq Nat
  /\ MinCollateral \in Nat /\ MinValidators \in Nat \ {0} /\ ActiveLimit \in Nat
  /\ MaxCommands \in Nat /\ MaxQueue \in Nat \ {0} /\ MaxFaults \in Nat

VARIABLES
  actor,     \* the subnet actor and its entry in the gateway
  node,      \* where the node takes the nonce from: the state or the mempool
  pool,      \* transactions of each account in the mempool of each chain
  chosen,    \* the default account in the key file
  step,      \* the call each client is about to make
  job,       \* the command each client runs
  default,   \* the default account in the key store the client has opened
  sender,    \* IpcProvider.sender
  receipt,   \* of the transaction the client waits for
  info,      \* what a query has read so far
  answer,    \* how the command ended
  fate,      \* history: of the pre-funding transaction of a join
  raced,     \* history: joins that wait while a transaction of another command
             \*          is executed that stands in their way
  late,      \* history: queries of the genesis begun after it was fixed
  started, faults

chain  == <<actor, node, pool>>
client == <<step, job, default, sender, receipt, info, answer>>
ghost  == <<fate, raced, late>>
vars   == <<chain, chosen, client, ghost, started, faults>>

Chains  == {"parent", "child"}
Queues  == Chains \X Accounts
Changes == {"create", "join", "preFund", "preRelease", "stake", "unstake", "leave", "kill",
            "claim", "reward", "addBootstrap", "fund", "release", "sendValue"}
Queries == {"genesis", "validator", "genesisEpoch"}
Ledger  == [Accounts -> Nat]

NoJob  == [op |-> "none", from |-> None, amount |-> 0, initial |-> None, about |-> None]
Txs    == [op : Changes, amount : Nat, client : Clients \cup {None}]

Zero       == [a \in Accounts |-> 0]
NoGenesis  == [fixed |-> FALSE, by |-> None, validators |-> Zero, balances |-> Zero]
NoInfo     == [balances |-> Zero, validators |-> Zero, staked |-> 0,
               active |-> FALSE, waiting |-> FALSE]

-----------------------------------------------------------------------------
(* The subnet actor and its gateway (external). *)

Validators(total) == {a \in Accounts : total[a] > 0}
Bootstrapped(s) == s.genesis.fixed
Registered(s)   == Bootstrapped(s) /\ ~s.killed

\* A call of account a that does not revert.
Accepts(s, a, tx) ==
  CASE tx.op = "join"         -> ~s.killed /\ s.total[a] = 0 /\ tx.amount > 0
    [] tx.op = "preFund"      -> ~Bootstrapped(s) /\ tx.amount > 0
    [] tx.op = "preRelease"   -> ~Bootstrapped(s) /\ tx.amount \in 1..s.balance[a]
    [] tx.op = "stake"        -> ~s.killed /\ s.total[a] > 0 /\ tx.amount > 0
    [] tx.op = "unstake"      -> ~s.killed /\ tx.amount > 0 /\ tx.amount < s.total[a]
    [] tx.op = "leave"        -> ~s.killed /\ s.total[a] > 0
    [] tx.op = "kill"         -> Registered(s) /\ Validators(s.total) = {}
    [] tx.op = "claim"        -> s.claimable[a] > 0
    [] tx.op = "addBootstrap" -> s.total[a] > 0
    [] tx.op = "fund"         -> Registered(s) /\ tx.amount > 0
    [] tx.op = "reward"       -> Bootstrapped(s)
    [] OTHER                  -> TRUE

\* Collateral is confirmed at once until the subnet is bootstrapped, and by a
\* bottom-up checkpoint after that.
Settled(s) ==
  [s EXCEPT !.confirmed = s.total,
            !.claimable = [a \in Accounts |-> IF Bootstrapped(s) /\ s.confirmed[a] > s.total[a]
                                              THEN s.claimable[a] + s.confirmed[a] - s.total[a]
                                              ELSE s.claimable[a]]]

WithTotal(s, a, n) ==
  LET t == [s EXCEPT !.total = [s.total EXCEPT ![a] = n]]
  IN IF Bootstrapped(s) THEN t ELSE Settled(t)

\* The genesis validators and balances are fixed when there is enough of both.
Activated(s, c) ==
  IF ~Bootstrapped(s)
     /\ Cardinality(Validators(s.total)) >= MinValidators
     /\ MapThenSumSet(LAMBDA a : s.total[a], Accounts) >= MinCollateral
  THEN [s EXCEPT !.genesis = [fixed |-> TRUE, by |-> c, validators |-> s.total,
                             balances |-> s.balance]]
  ELSE s

Executed(s, a, tx) ==
  CASE tx.op \in {"join", "stake"} -> Activated(WithTotal(s, a, s.total[a] + tx.amount), tx.client)
    [] tx.op = "unstake"      -> WithTotal(s, a, s.total[a] - tx.amount)
    [] tx.op = "leave"        -> WithTotal(s, a, 0)
    [] tx.op = "preFund"      -> [s EXCEPT !.balance[a] = @ + tx.amount]
    [] tx.op = "preRelease"   -> [s EXCEPT !.balance[a] = @ - tx.amount]
    [] tx.op = "kill"         -> [s EXCEPT !.killed = TRUE]
    [] tx.op = "claim"        -> [s EXCEPT !.claimable[a] = 0]
    [] OTHER                  -> s

\* The validators with most confirmed collateral are active, the others wait.
ActiveSets(confirmed) ==
  {A \in SUBSET Validators(confirmed) :
     /\ Cardinality(A) = IF Cardinality(Validators(confirmed)) < ActiveLimit
                         THEN Cardinality(Validators(confirmed)) ELSE ActiveLimit
     /\ \A a \in A, b \in Validators(confirmed) \ A : confirmed[a] >= confirmed[b]}

Becomes(s) ==
  actor' \in IF s.active \in ActiveSets(s.confirmed) THEN {s}
             ELSE {[s EXCEPT !.active = A] : A \in ActiveSets(s.confirmed)}

-----------------------------------------------------------------------------
(* The command line. *)

Init ==
  /\ actor = [total |-> Zero, confirmed |-> Zero, claimable |-> Zero, balance |-> Zero,
              active |-> {}, genesis |-> NoGenesis, killed |-> FALSE]
  /\ node \in {"state", "mempool"}
  /\ pool = [q \in Queues |-> <<>>]
  /\ chosen = None
  /\ step = [c \in Clients |-> "idle"]
  /\ job = [c \in Clients |-> NoJob]
  /\ default = [c \in Clients |-> None]
  /\ sender = [c \in Clients |-> None]
  /\ receipt = [c \in Clients |-> "none"]
  /\ info = [c \in Clients |-> NoInfo]
  /\ answer = [c \in Clients |-> "none"]
  /\ fate = [c \in Clients |-> "none"]
  /\ raced = {} /\ late = {}
  /\ started = 0 /\ faults = 0

\* get_ipc_provider opens the key store, whose default is then the one of the
\* file at this moment.
Start(c, j, label) ==
  /\ step[c] = "idle"
  /\ started < MaxCommands
  /\ started' = started + 1
  /\ job' = [job EXCEPT ![c] = j]
  /\ step' = [step EXCEPT ![c] = label]
  /\ default' = [default EXCEPT ![c] = chosen]
  /\ UNCHANGED <<chain, chosen, sender, receipt, info, answer, fate, raced, faults>>

Froms == Accounts \cup {None}

\* A command that is one call of the provider.
StartCall(c, op, amounts) ==
  /\ \E f \in Froms, n \in amounts :
       Start(c, [NoJob EXCEPT !.op = op, !.from = f, !.amount = n], "call")
  /\ UNCHANGED late

StartCreate(c)       == StartCall(c, "create", {0})
StartStake(c)        == StartCall(c, "stake", Amounts)
StartUnstake(c)      == StartCall(c, "unstake", Amounts)
StartLeave(c)        == StartCall(c, "leave", {0})
StartKill(c)         == StartCall(c, "kill", {0})
StartClaim(c)        == \E op \in {"claim", "reward"} : StartCall(c, op, {0})
StartAddBootstrap(c) == StartCall(c, "addBootstrap", {0})
StartSendValue(c)    == StartCall(c, "sendValue", Amounts)
StartFund(c)         == StartCall(c, "fund", Amounts)
StartPreFund(c)      == StartCall(c, "preFund", Amounts)
StartRelease(c)      == StartCall(c, "release", Amounts)
StartPreRelease(c)   == StartCall(c, "preRelease", Amounts)

\* subnet join, possibly with an initial balance, which is pre-funded first
StartJoin(c) ==
  /\ \E f \in Froms, n \in Amounts, i \in Amounts \cup {None} :
       Start(c, [NoJob EXCEPT !.op = "join", !.from = f, !.amount = n, !.initial = i],
             IF i = None THEN "call" ELSE "initial")
  /\ UNCHANGED late

StartGenesisInfo(c) ==
  /\ Start(c, [NoJob EXCEPT !.op = "genesis"], "balances")
  /\ late' = IF Bootstrapped(actor) THEN late \cup {c} ELSE late

StartValidatorInfo(c) ==
  /\ \E a \in Accounts : Start(c, [NoJob EXCEPT !.op = "validator", !.about = a], "staking")
  /\ UNCHANGED late

StartGenesisEpoch(c) == Start(c, [NoJob EXCEPT !.op = "genesisEpoch"], "epoch") /\ UNCHANGED late

\* The command returns.
Ends(c, result) ==
  /\ step' = [step EXCEPT ![c] = "done"]
  /\ answer' = [answer EXCEPT ![c] = result]

\* The process exits; nobody waits for its transactions any more.
Orphan(q, c) == [i \in 1..Len(q) |-> IF q[i].client = c THEN [q[i] EXCEPT !.client = None]
                                                      ELSE q[i]]
Exit(c) ==
  /\ step[c] = "done"
  /\ step' = [step EXCEPT ![c] = "idle"]
  /\ job' = [job EXCEPT ![c] = NoJob]
  /\ default' = [default EXCEPT ![c] = None]
  /\ sender' = [sender EXCEPT ![c] = None]
  /\ receipt' = [receipt EXCEPT ![c] = "none"]
  /\ info' = [info EXCEPT ![c] = NoInfo]
  /\ answer' = [answer EXCEPT ![c] = "none"]
  /\ fate' = [fate EXCEPT ![c] = "none"]
  /\ raced' = raced \ {c} /\ late' = late \ {c}
  /\ pool' = [q \in Queues |-> Orphan(pool[q], c)]
  /\ UNCHANGED <<actor, node, chosen, started, faults>>

\* Another process, ipc-cli wallet set-default, writes the key file.
SetDefault(a) ==
  /\ started < MaxCommands
  /\ started' = started + 1
  /\ chosen' = a
  /\ UNCHANGED <<chain, client, ghost, faults>>

-----------------------------------------------------------------------------
(* The provider. *)

\* check_sender: --from, or the sender of an earlier call, or the default
Account(c)     == IF job[c].from # None THEN job[c].from ELSE sender[c]
CheckSender(c) == IF Account(c) # None THEN Account(c) ELSE default[c]

\* Whoever asks the key store for the default, also when there is none, writes
\* the whole of it to the file, over what other processes have written since.
Flushes(c) == chosen' = IF Account(c) = None THEN default[c] ELSE chosen

\* Mutant: the address of --from is kept for later calls as well.
RemembersFrom(c) == sender' = [sender EXCEPT ![c] = CheckSender(c)] /\ Flushes(c)

\* Only the default is kept.
Remembers(c) ==
  /\ sender' = [sender EXCEPT ![c] = IF job[c].from # None THEN @ ELSE CheckSender(c)]
  /\ Flushes(c)

\* What the provider asks of the parent's manager: the subnet actor's calls,
\* first the ones that bring collateral or funds, then the ones that end a
\* membership, and the calls of the parent's gateway and registry.
FundingCalls == {"join", "preFund", "preRelease", "stake", "unstake"}
LeavingCalls == {"leave", "claim", "reward", "kill"}
ParentCalls  == FundingCalls \cup LeavingCalls \cup {"create", "fund", "addBootstrap"}

\* release and send_value are calls in the subnet itself.
Chain(op) == IF op \in ParentCalls THEN "parent" ELSE "child"

-----------------------------------------------------------------------------
(* The manager: one transaction. *)

\* What becomes of the commands whose transactions will never be mined: a
\* pre-funding is lost, and whoever waits for a receipt gets none.
Owners(txs, ops) == {txs[i].client : i \in {j \in 1..Len(txs) : txs[j].op \in ops}}
FateWithout(txs) ==
  [c \in Clients |-> IF c \in Owners(txs, {"preFund"}) THEN "lost" ELSE fate[c]]
ReceiptWithout(txs) ==
  [c \in Clients |-> IF c \in Owners(txs, Changes \ {"preFund"}) THEN "gone" ELSE receipt[c]]

Tx(c, op, amount) == [op |-> op, amount |-> amount, client |-> c]

\* Nothing was sent: the subnet is not configured, the gateway is another one,
\* there is no default account or no key of the sender, the amount does not
\* fit, or one of the calls before the send has failed; check_sender has run, or
\* it has not.
Refused(c) ==
  /\ Ends(c, "error")
  /\ Remembers(c) \/ UNCHANGED <<sender, chosen>>
  /\ UNCHANGED <<pool, fate, receipt, faults>>

\* The connection breaks after the node has taken the transaction.
LosesReply(c) ==
  /\ faults < MaxFaults
  /\ faults' = faults + 1
  /\ Ends(c, "error")

Proceeds(c, label) == step' = [step EXCEPT ![c] = label] /\ UNCHANGED <<answer, faults>>

\* call.send(), once the node's estimate of its gas shows that the call does not
\* revert: a node that takes the nonce from the state replaces the pending
\* transaction, one that counts its mempool queues the new one behind it.
Sends(c, op, amount) ==
  LET a == CheckSender(c)
      q == <<Chain(op), a>>
  IN
  /\ Remembers(c)
  /\ a # None /\ Accepts(actor, a, Tx(c, op, amount))
  /\ \/ /\ pool[q] = <<>> \/ (node = "mempool" /\ Len(pool[q]) < MaxQueue)
        /\ pool' = [pool EXCEPT ![q] = Append(@, Tx(c, op, amount))]
        /\ fate' = [fate EXCEPT ![c] = IF op = "preFund" THEN "sent" ELSE @]
        /\ UNCHANGED receipt
     \/ /\ pool[q] # <<>> /\ node = "state"
        /\ pool' = [pool EXCEPT ![q] = <<Tx(c, op, amount)>>]
        /\ fate' = [FateWithout(pool[q]) EXCEPT ![c] = IF op = "preFund" THEN "sent" ELSE @]
        /\ receipt' = ReceiptWithout(pool[q])

Rest(c) == UNCHANGED <<actor, node, job, default, info, raced, late, started>>

\* A call that sends one transaction and then waits for its receipt.
Transact(c, op) ==
  /\ step[c] = "call" /\ job[c].op = op
  /\ \/ Refused(c)
     \/ Sends(c, op, job[c].amount) /\ (Proceeds(c, "wait") \/ LosesReply(c))
  /\ Rest(c)

CreateSubnet(c)       == Transact(c, "create")
JoinSubnet(c)         == Transact(c, "join")
PreRelease(c)         == Transact(c, "preRelease")
Stake(c)              == Transact(c, "stake")
Unstake(c)            == Transact(c, "unstake")
LeaveSubnet(c)        == Transact(c, "leave")
KillSubnet(c)         == Transact(c, "kill")
ClaimCollateral(c)    == Transact(c, "claim")
ClaimRelayerReward(c) == Transact(c, "reward")
AddBootstrap(c)       == Transact(c, "addBootstrap")
Fund(c)               == Transact(c, "fund")
Release(c)            == Transact(c, "release")
SendValue(c)          == Transact(c, "sendValue")

\* pre_fund does not wait: its command ends with the send,
PreFund(c) ==
  /\ step[c] = "call" /\ job[c].op = "preFund"
  /\ \/ Refused(c)
     \/ /\ Sends(c, "preFund", job[c].amount)
        /\ (Ends(c, "ok") /\ UNCHANGED faults) \/ LosesReply(c)
  /\ Rest(c)

\* Mutant: a join goes on although its pre-funding has failed.
PreFundJoinUnchecked(c) ==
  /\ step[c] = "initial"
  /\ \/ Proceeds(c, "call") /\ Remembers(c) /\ UNCHANGED <<pool, fate, receipt>>
     \/ Sends(c, "preFund", job[c].initial) /\ Proceeds(c, "call")
  /\ Rest(c)

\* and a join with an initial balance goes on to send the join.
PreFundJoin(c) ==
  /\ step[c] = "initial"
  /\ \/ Refused(c)
     \/ Sends(c, "preFund", job[c].initial) /\ (Proceeds(c, "call") \/ LosesReply(c))
  /\ Rest(c)

\* Mutant: no receipt is as good as one.
ResultUnchecked(op, r) ==
  CASE op \in {"join", "fund", "release"} -> "epoch"
    [] op = "create" -> IF r = "ok" THEN "address" ELSE "error"
    [] OTHER         -> "ok"

\* block_number_from_receipt takes any receipt, create_subnet looks for the
\* event of the deployment, and the other calls ignore what they waited for.
Result(op, r) ==
  CASE op \in {"join", "fund", "release"} -> IF r \in {"ok", "reverted"} THEN "epoch" ELSE "error"
    [] op = "create" -> IF r = "ok" THEN "address" ELSE "error"
    [] OTHER         -> "ok"

GetReceipt(c) ==
  /\ step[c] = "wait" /\ receipt[c] # "none"
  /\ Ends(c, Result(job[c].op, receipt[c]))
  /\ UNCHANGED <<chain, chosen, job, default, sender, receipt, info, ghost, started, faults>>

\* The polls end without a receipt, or with an error.
GiveUp(c) ==
  /\ step[c] = "wait"
  /\ faults < MaxFaults
  /\ faults' = faults + 1
  /\ Ends(c, Result(job[c].op, "gone")) \/ Ends(c, "error")
  /\ UNCHANGED <<chain, chosen, job, default, sender, receipt, info, ghost, started>>

-----------------------------------------------------------------------------
(* The manager: queries of one or several reads. *)

Reads(c, label, i, next) ==
  /\ step[c] = label
  /\ info' = [info EXCEPT ![c] = i]
  /\ IF next = "done" THEN Ends(c, "info")
     ELSE step' = [step EXCEPT ![c] = next] /\ UNCHANGED answer
  /\ UNCHANGED <<chain, chosen, job, default, sender, receipt, ghost, started, faults>>

Reading == {"balances", "epoch", "genesisValidators", "staking", "active", "waiting"}

\* A read fails, or is answered by an error.
ReadFails(c) ==
  /\ step[c] \in Reading
  /\ Ends(c, "error")
  /\ UNCHANGED <<chain, chosen, job, default, sender, receipt, info, ghost, started, faults>>

\* get_genesis_info: genesis_balances, then genesis_epoch, which is an error
\* (ReadFails) when the gateway does not know the subnet, then the validators
ReadGenesisBalances(c) ==
  Reads(c, "balances",
        [info[c] EXCEPT !.balances = IF Bootstrapped(actor) THEN actor.genesis.balances
                                     ELSE actor.balance], "epoch")

AfterEpoch(c) == IF job[c].op = "genesisEpoch" THEN "done" ELSE "genesisValidators"

\* Mutant: the subnet need not be registered.
GenesisEpochUnchecked(c) == Reads(c, "epoch", info[c], AfterEpoch(c))

GenesisEpoch(c) == Registered(actor) /\ Reads(c, "epoch", info[c], AfterEpoch(c))

ReadGenesisValidators(c) ==
  Reads(c, "genesisValidators", [info[c] EXCEPT !.validators = actor.genesis.validators], "done")

\* get_validator_info: get_validator, is_active_validator, is_waiting_validator
ReadValidator(c) ==
  Reads(c, "staking", [info[c] EXCEPT !.staked = actor.confirmed[job[c].about]], "active")

ReadIsActive(c) ==
  Reads(c, "active", [info[c] EXCEPT !.active = job[c].about \in actor.active], "waiting")

ReadIsWaiting(c) ==
  Reads(c, "waiting",
        [info[c] EXCEPT !.waiting = job[c].about \in Validators(actor.confirmed) \ actor.active],
        "done")

-----------------------------------------------------------------------------
(* The chains (external). *)

\* The joins that wait and will revert, or would have, for what tx has done.
Overtaken(a, tx) ==
  {c \in Clients \ {tx.client} : /\ step[c] = "wait" /\ job[c].op = "join"
                                 /\ tx.op = "kill" \/ (tx.op = "join" /\ a = Account(c))}

Mine(q) ==
  /\ pool[q] # <<>>
  /\ pool' = [pool EXCEPT ![q] = Tail(@)]
  /\ LET tx == Head(pool[q])
         ok == Accepts(actor, q[2], tx)
     IN
     /\ Becomes(IF ok THEN Executed(actor, q[2], tx) ELSE actor)
     /\ fate' = [c \in Clients |-> IF tx.op = "preFund" /\ tx.client = c
                                  THEN IF ok THEN "done" ELSE "reverted" ELSE fate[c]]
     /\ receipt' = [c \in Clients |-> IF tx.op # "preFund" /\ tx.client = c
                                     THEN IF ok THEN "ok" ELSE "reverted" ELSE receipt[c]]
     /\ raced' = IF ok THEN raced \cup Overtaken(q[2], tx) ELSE raced
  /\ UNCHANGED <<node, chosen, step, job, default, sender, info, answer, late, started, faults>>

\* A dropped transaction takes the ones that are queued behind it along.
Drop(q) ==
  /\ pool[q] # <<>>
  /\ faults < MaxFaults
  /\ faults' = faults + 1
  /\ pool' = [pool EXCEPT ![q] = <<>>]
  /\ fate' = FateWithout(pool[q])
  /\ receipt' = ReceiptWithout(pool[q])
  /\ UNCHANGED <<actor, node, chosen, step, job, default, sender, info, answer, raced, late,
                 started>>

\* A bottom-up checkpoint confirms the changes of collateral.
Confirm ==
  /\ Bootstrapped(actor) /\ actor.confirmed # actor.total
  /\ Becomes(Settled(actor))
  /\ UNCHANGED <<node, pool, chosen, client, ghost, started, faults>>

-----------------------------------------------------------------------------
SubnetCommands(c) ==
  \/ StartCreate(c) \/ StartJoin(c) \/ StartStake(c) \/ StartUnstake(c) \/ StartLeave(c)
  \/ StartKill(c) \/ StartClaim(c) \/ StartAddBootstrap(c) \/ StartSendValue(c)
  \/ StartGenesisEpoch(c) \/ StartValidatorInfo(c)

CrossMsgCommands(c) ==
  StartFund(c) \/ StartPreFund(c) \/ StartRelease(c) \/ StartPreRelease(c)

Manager(c) ==
  \/ CreateSubnet(c) \/ JoinSubnet(c) \/ PreFund(c) \/ PreFundJoin(c) \/ PreRelease(c)
  \/ Stake(c) \/ Unstake(c) \/ LeaveSubnet(c) \/ KillSubnet(c) \/ ClaimCollateral(c)
  \/ ClaimRelayerReward(c) \/ AddBootstrap(c) \/ Fund(c) \/ Release(c) \/ SendValue(c)
  \/ GetReceipt(c) \/ GiveUp(c)
  \/ ReadGenesisBalances(c) \/ GenesisEpoch(c) \/ ReadGenesisValidators(c)
  \/ ReadValidator(c) \/ ReadIsActive(c) \/ ReadIsWaiting(c) \/ ReadFails(c)

Next ==
  \/ \E c \in Clients : \/ SubnetCommands(c) \/ CrossMsgCommands(c) \/ StartGenesisInfo(c)
                        \/ Manager(c) \/ Exit(c)
  \/ \E q \in Queues : Mine(q) \/ Drop(q)
  \/ \E a \in Accounts : SetDefault(a)
  \/ Confirm

Spec == Init /\ [][Next]_vars
-----------------------------------------------------------------------------
(* Correctness. *)

Actors ==
  [total : Ledger, confirmed : Ledger, claimable : Ledger, balance : Ledger,
   active : SUBSET Accounts, killed : BOOLEAN,
   genesis : [fixed : BOOLEAN, by : Clients \cup {None}, validators : Ledger, balances : Ledger]]
Jobs ==
  [op : Changes \cup Queries \cup {"none"}, from : Froms, amount : Nat,
   initial : Amounts \cup {None}, about : Froms]

\* Types; nobody gets back more than they gave; what a client remembers as its
\* sender is the default account and never the --from of one call.
TypeOK ==
  /\ actor \in Actors
  /\ node \in {"state", "mempool"}
  /\ pool \in [Queues -> Seq(Txs)]
  /\ chosen \in Froms
  /\ step \in [Clients -> Reading \cup {"idle", "initial", "call", "wait", "done"}]
  /\ job \in [Clients -> Jobs]
  /\ default \in [Clients -> Froms]
  /\ sender \in [Clients -> Froms]
  /\ receipt \in [Clients -> {"none", "ok", "reverted", "gone"}]
  /\ info \in [Clients -> [balances : Ledger, validators : Ledger, staked : Nat,
                           active : BOOLEAN, waiting : BOOLEAN]]
  /\ answer \in [Clients -> {"none", "error", "ok", "epoch", "address", "info"}]
  /\ fate \in [Clients -> {"none", "sent", "done", "reverted", "lost"}]
  /\ raced \subseteq Clients /\ late \subseteq Clients
  /\ started \in 0..MaxCommands /\ faults \in 0..MaxFaults
  /\ \A c \in Clients : sender[c] # None => job[c].from = None

\* An initial balance is decided before the join is: when a join with an
\* initial balance reports its epoch, the pre-funding transaction, which
\* pre_fund does not wait for, is not pending any more.  It has been executed,
\* unless the node lost it (to a drop, or to a transaction of the same account
\* that replaced it, the join itself included) or somebody else's transaction
\* bootstrapped the subnet in between; the join's own transaction never did.
InitialBalanceIsDecided ==
  \A c \in Clients :
    answer[c] = "epoch" /\ job[c].op = "join" /\ job[c].initial # None =>
      \/ fate[c] \in {"done", "lost"}
      \/ fate[c] = "reverted" /\ Bootstrapped(actor) /\ actor.genesis.by # c

\* block_number_from_receipt takes any receipt for success.  What join_subnet
\* has checked before (the node's estimate of the gas fails if the call would
\* revert) makes this right except for a race: a join that reports its epoch has
\* been executed, unless, while it waited, another command joined from the same
\* account or killed the subnet.
ReportedJoinCounts ==
  \A c \in Clients :
    answer[c] = "epoch" /\ job[c].op = "join" => receipt[c] = "ok" \/ c \in raced

\* get_genesis_info only answers for a bootstrapped subnet, and then with the
\* genesis validators; the balances, which it reads first, are the ones of the
\* genesis if the subnet was bootstrapped before the query began.
GenesisInfoIsGenesis ==
  \A c \in Clients :
    answer[c] = "info" /\ job[c].op = "genesis" =>
      /\ Bootstrapped(actor)
      /\ info[c].validators = actor.genesis.validators
      /\ c \in late => info[c].balances = actor.genesis.balances
=============================================================================
