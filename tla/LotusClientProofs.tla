------------------------- MODULE LotusClientProofs -------------------------
(***************************************************************************)
(* Proofs about the Lotus client, for any callers, senders, calls, fees    *)
(* and bounds: who loses a push, and who shares a receipt, has raced for   *)
(* its nonce, and what is reported as pushed is there.                     *)
(***************************************************************************)
EXTENDS LotusClient, WellFoundedInduction, FiniteSetTheorems, TLAPS

\* The nonce n of sender s is not in use.
Free(s, n) == n >= seq[s] /\ \A x \in pool : ~(x.from = s /\ x.nonce = n)

\* A message with nonce n of sender s is in the mempool or on the chain.
There(s, n) == \E x \in pool \cup mined : x.from = s /\ x.nonce = n

\* Another message has taken the caller's nonce since it was read.
Raced(p) == <<msg[p].from, msg[p].nonce>> \in taken[p]

Reported(p) == answer[p] \in {"cid", "receipt"}

\* The node: nonces on the chain are below the sender's next one and used once,
\* and a sender without an actor has no message.
NodeInv ==
  /\ \A m \in mined : m.nonce < seq[m.from]
  /\ \A m, x \in mined : m.from = x.from /\ m.nonce = x.nonce => m = x
  /\ \A s \in Senders \ known : seq[s] = 0 /\ \A x \in pool : x.from # s

\* A caller: the nonce it has read is free until another message takes it, and
\* what it has signed is what it pushes.
StepInv(p) ==
  /\ step[p] \notin {"idle", "wait"} => answer[p] = "none"
  /\ step[p] = "wait" <=> answer[p] = "cid"
  /\ step[p] # "idle" => msg[p].from \in Senders /\ msg[p].call \in Calls
  /\ step[p] \in {"gas", "sign", "push"} =>
       msg[p].nonce \in Nonces /\ (Raced(p) \/ Free(msg[p].from, msg[p].nonce))
  /\ step[p] = "pushMessage" => msg[p].nonce = None \/ Raced(p)
  /\ step[p] = "push" => signature[p] = msg[p]
  /\ Reported(p) => msg[p] \in Signed /\ There(msg[p].from, msg[p].nonce)

\* RefusedOnlyInARace and ReportedIsPushed, for one caller.
Refusable(p) == answer[p] = "refused" => cause[p] = "unknown" \/ (cause[p] = "nonce" /\ Raced(p))
Kept(p) == answer[p] = "cid" => msg[p] \in pool \cup mined \/ Raced(p)

\* Two callers whose messages were both reported under one nonce have raced.
Shared(p, q) ==
  p # q /\ Reported(p) /\ Reported(q) /\ msg[p].from = msg[q].from /\ msg[p].nonce = msg[q].nonce
  => Raced(p) /\ Raced(q)

\* The inductive invariant.
Inv ==
  /\ TypeOK
  /\ NodeInv
  /\ \A p \in Callers : StepInv(p) /\ Refusable(p) /\ Kept(p)
  /\ \A p, q \in Callers : Shared(p, q)

\* What a step of caller p leaves alone.
Others(p) ==
  \A q \in Callers \ {p} : /\ step'[q] = step[q] /\ msg'[q] = msg[q]
                           /\ signature'[q] = signature[q]
                           /\ answer'[q] = answer[q] /\ cause'[q] = cause[q]

-----------------------------------------------------------------------------
\* A set of naturals that is not empty has a minimum: the smallest of the sets of
\* its elements up to one of them has no other element than that one.
LEMMA MinOfNats ==
  ASSUME NEW T, T \subseteq Nat, T # {}
  PROVE  Min(T) \in T
<1> DEFINE Upto(x) == {y \in T : y =< x}
           F == {Upto(x) : x \in T}
<1>1. \A x \in T : IsFiniteSet(Upto(x)) /\ Upto(x) \in SUBSET Nat
  <2> SUFFICES ASSUME NEW x \in T PROVE IsFiniteSet(Upto(x)) /\ Upto(x) \in SUBSET Nat
    OBVIOUS
  <2>1. x \in Nat /\ Upto(x) \in SUBSET Nat /\ \A s \in Upto(x) : s =< x
    OBVIOUS
  <2> HIDE DEF Upto
  <2> QED
    BY <2>1, FS_BoundedSetOfNaturals
<1>2. F \subseteq FiniteSubsetsOf(Nat) /\ F # {}
  BY <1>1 DEF FiniteSubsetsOf
<1>3. PICK W \in F : \A V \in F : ~(<<V, W>> \in StrictSubsetOrdering(Nat))
  <2> HIDE DEF F
  <2> QED
    BY <1>2, FS_StrictSubsetOrderingWellFounded, WFMin
<1>4. PICK x \in T : W = Upto(x)
  OBVIOUS
<1>5. ASSUME NEW y \in T, y < x PROVE FALSE
  <2>1. x \in Nat /\ y \in Nat /\ \A z \in T : z \in Nat
    OBVIOUS
  <2>2. \A z \in T : z =< y => z =< x
    BY <1>5, <2>1
  <2>3. x =< x /\ ~(x =< y)
    BY <1>5, <2>1
  <2>4. Upto(y) \subseteq Upto(x) /\ x \in Upto(x) /\ x \notin Upto(y)
    BY <2>2, <2>3
  <2>5. Upto(y) \in F /\ Upto(x) \in SUBSET Nat /\ Upto(y) \in SUBSET Nat
    OBVIOUS
  <2> HIDE DEF Upto, F
  <2>6. <<Upto(y), Upto(x)>> \in StrictSubsetOrdering(Nat)
    BY <2>4, <2>5 DEF StrictSubsetOrdering
  <2> QED
    BY <1>3, <1>4, <2>5, <2>6
<1>6. \A y \in T : x =< y
  BY <1>5
<1> QED
  BY <1>6 DEF Min

\* What the node answers to mpool_nonce is a free nonce.
LEMMA NextNonceFree ==
  ASSUME TypeOK, NEW s \in Senders
  PROVE  NextNonce(s) \in Nat /\ Free(s, NextNonce(s))
<1> DEFINE T == {n \in seq[s]..MaxNonce + 1 : \A x \in pool : x.from = s => x.nonce # n}
<1>1. seq[s] \in 0..MaxNonce + 1 /\ MaxNonce \in Nat
  BY LotusAssumption DEF TypeOK
<1>2. T \subseteq Nat
  BY <1>1
<1>3. \A x \in pool : x.nonce \in 0..MaxNonce
  BY DEF TypeOK, Signed, Nonces
<1>4. MaxNonce + 1 \in T
  BY <1>1, <1>3
<1>5. Min(T) \in T
  BY <1>2, <1>4, MinOfNats
<1> QED
  BY <1>1, <1>5 DEF NextNonce, Free

\* A response without a result is never a result (JsonRpcResponse).
LEMMA NoResult == "result" \notin Outcomes(FALSE)
  BY DEF Outcomes, Responses, Outcome

-----------------------------------------------------------------------------
\* A step of one caller that does not change the node.
LEMMA LocalStep ==
  ASSUME Inv, NEW p \in Callers, Others(p), UNCHANGED chain, TypeOK',
         \A q \in Callers \ {p} : taken'[q] = taken[q],
         StepInv(p)', Refusable(p)', Kept(p)',
         Reported(p)' => Reported(p) /\ msg'[p] = msg[p] /\ taken'[p] = taken[p]
  PROVE  Inv'
<1>1. NodeInv'
  BY DEF Inv, NodeInv, chain
<1>2. \A q \in Callers : StepInv(q)' /\ Refusable(q)' /\ Kept(q)'
  <2> SUFFICES ASSUME NEW q \in Callers, q # p PROVE StepInv(q)' /\ Refusable(q)' /\ Kept(q)'
    OBVIOUS
  <2> QED
    BY DEF Inv, Others, StepInv, Refusable, Kept, Raced, Free, There, Reported, chain
<1>3. \A q, r \in Callers : Shared(q, r)'
  BY DEF Inv, Others, Shared, Raced, Reported
<1> QED
  BY <1>1, <1>2, <1>3 DEF Inv

\* A step of caller p in which the node takes its message m.
LEMMA TakeStep ==
  ASSUME Inv, NEW p \in Callers, NEW m \in Signed, Take(p, m), Others(p), TypeOK',
         UNCHANGED <<known, seq, mined>>, m.from \in known,
         StepInv(p)', Refusable(p)',
         \/ ~Reported(p)'
         \/ /\ answer'[p] = "cid" /\ msg'[p] = m
            /\ <<m.from, m.nonce>> \in taken[p] \/ ~There(m.from, m.nonce)
  PROVE  Inv'
<1>1. pool' = (pool \ Rivals(m)) \cup {m} /\ m \in pool'
  BY DEF Take
<1>2. \A x \in pool \ pool' : x.from = m.from /\ x.nonce = m.nonce
  BY <1>1 DEF Rivals
<1>3. \A s, n : There(s, n) => There(s, n)'
  BY <1>1, <1>2 DEF There
<1>4. taken'[p] = taken[p]
  BY DEF Take, Inv, TypeOK
<1>5. \A q \in Callers \ {p} : msg[q].from \in Senders =>
        taken'[q] = taken[q] \cup {<<m.from, m.nonce>>}
  <2> SUFFICES ASSUME NEW q \in Callers, q # p, msg[q].from \in Senders
               PROVE  msg[q] # NoMsg
    BY DEF Take, Inv, TypeOK
  <2> QED
    BY LotusAssumption DEF NoMsg
<1>6. \A q \in Callers \ {p} : taken[q] \subseteq taken'[q]
  BY DEF Take, Inv, TypeOK
<1>7. NodeInv'
  BY <1>1 DEF Inv, NodeInv
<1>8. \A q \in Callers \ {p} : StepInv(q)' /\ Refusable(q)' /\ Kept(q)'
  <2> SUFFICES ASSUME NEW q \in Callers, q # p PROVE StepInv(q)' /\ Refusable(q)' /\ Kept(q)'
    OBVIOUS
  <2>1. Raced(q) => Raced(q)'
    BY <1>6 DEF Raced, Others
  <2>2. StepInv(q) /\ Refusable(q) /\ Kept(q)
    BY DEF Inv
  <2>3. ASSUME msg[q].from \in Senders, Free(msg[q].from, msg[q].nonce)
        PROVE  (Raced(q) \/ Free(msg[q].from, msg[q].nonce))'
    BY <1>1, <1>5, <2>3 DEF Free, Raced, Others
  <2>4. StepInv(q)'
    BY <1>3, <2>1, <2>2, <2>3 DEF StepInv, Others, Reported
  <2>5. Refusable(q)'
    BY <2>1, <2>2 DEF Refusable, Others
  <2>6. Kept(q)'
    <3> SUFFICES ASSUME answer[q] = "cid" PROVE msg[q] \in pool' \cup mined' \/ Raced(q)'
      BY DEF Kept, Others
    <3>1. msg[q].from \in Senders
      BY <2>2 DEF StepInv
    <3>2. CASE Raced(q)
      BY <2>1, <3>2
    <3>3. CASE msg[q] \in pool \cup mined
      BY <1>2, <1>5, <3>1, <3>3 DEF Raced, Others
    <3> QED
      BY <2>2, <3>2, <3>3 DEF Kept
  <2> QED
    BY <2>4, <2>5, <2>6
<1>9. Kept(p)'
  BY <1>1 DEF Kept, Reported
<1>10. \A q \in Callers \ {p} : Shared(p, q)' /\ Shared(q, p)'
  <2> SUFFICES ASSUME NEW q \in Callers, q # p, Reported(p)', Reported(q)',
                      msg'[p].from = msg'[q].from, msg'[p].nonce = msg'[q].nonce
               PROVE  Raced(p)' /\ Raced(q)'
    BY DEF Shared
  <2>1. msg'[p] = m /\ msg'[q] = msg[q] /\ Reported(q)
    BY DEF Others, Reported
  <2>2. msg[q] \in Signed /\ There(m.from, m.nonce)
    BY <2>1 DEF Inv, StepInv
  <2>3. Raced(p)'
    BY <1>4, <2>1, <2>2 DEF Raced
  <2>4. msg[q].from \in Senders
    BY <2>2 DEF Signed
  <2> QED
    BY <1>5, <2>1, <2>3, <2>4 DEF Raced
<1>11. \A q, r \in Callers \ {p} : Shared(q, r)'
  BY <1>6 DEF Inv, Shared, Raced, Reported, Others
<1>12. \A q, r \in Callers : Shared(q, r)'
  BY <1>10, <1>11 DEF Shared
<1> QED
  BY <1>7, <1>8, <1>9, <1>12 DEF Inv

-----------------------------------------------------------------------------
(* Initial states, and the steps of the node; one lemma for each action. *)

\* The initial states satisfy the invariant.
LEMMA InitInv == Init => Inv
<1> SUFFICES ASSUME Init PROVE Inv
  OBVIOUS
<1>1. NoMsg \in Messages
  BY DEF NoMsg, Messages
<1>2. 0 \in 0..MaxNonce + 1 /\ 0 \in 0..MaxPushes /\ 0 \in 0..MaxFaults
  BY LotusAssumption
<1>3. TypeOK
  BY <1>1, <1>2 DEF Init, TypeOK
<1>4. NodeInv
  BY DEF Init, NodeInv
<1>5. \A p \in Callers : StepInv(p) /\ Refusable(p) /\ Kept(p)
  BY DEF Init, StepInv, Refusable, Kept, Reported
<1>6. \A p, q \in Callers : Shared(p, q)
  BY DEF Init, Shared, Reported
<1> QED
  BY <1>3, <1>4, <1>5, <1>6 DEF Inv

\* A step of the node leaves the callers alone: messages stay in the mempool or
\* on the chain, and free nonces stay free.
LEMMA NodeStep ==
  ASSUME Inv, UNCHANGED <<caller, taken>>, TypeOK', NodeInv',
         pool' \cup mined' = pool \cup mined,
         \A s \in Senders, n \in Nonces : Free(s, n) => Free(s, n)'
  PROVE  Inv'
<1>1. \A s, n : There(s, n) <=> There(s, n)'
  BY DEF There
<1>2. \A p \in Callers : StepInv(p)' /\ Refusable(p)' /\ Kept(p)'
  BY <1>1 DEF Inv, StepInv, Refusable, Kept, Raced, Reported, caller
<1>3. \A p, q \in Callers : Shared(p, q)'
  BY DEF Inv, Shared, Raced, Reported, caller
<1> QED
  BY <1>2, <1>3 DEF Inv

\* CreateActor keeps the invariant.
LEMMA CreateActorInv ==
  ASSUME Inv, NEW s \in Senders, CreateActor(s)
  PROVE  Inv'
<1>1. TypeOK'
  BY DEF Inv, TypeOK, CreateActor, caller
<1>2. NodeInv'
  BY DEF Inv, NodeInv, CreateActor
<1> QED
  BY <1>1, <1>2, NodeStep DEF CreateActor, Free

\* Mine keeps the invariant.
LEMMA MineInv ==
  ASSUME Inv, NEW m \in pool, Mine(m)
  PROVE  Inv'
<1>1. m \in Signed /\ m.from \in Senders /\ m.nonce \in 0..MaxNonce /\ MaxNonce \in Nat
  BY LotusAssumption DEF Inv, TypeOK, Signed, Nonces
<1>2. /\ seq \in [Senders -> 0..MaxNonce + 1]
      /\ seq' = [seq EXCEPT ![m.from] = m.nonce + 1] /\ seq[m.from] = m.nonce
      /\ m.nonce + 1 \in 0..MaxNonce + 1
  BY <1>1 DEF Inv, TypeOK, Mine
<1>3. \A s \in Senders : seq'[s] = IF s = m.from THEN m.nonce + 1 ELSE seq[s]
  BY <1>1, <1>2
<1>4. TypeOK'
  BY <1>1, <1>2 DEF Inv, TypeOK, Mine, caller
<1>5. NodeInv'
  <2>1. \A x \in mined : x.from \in Senders /\ x.nonce \in Nat /\ x.nonce < seq[x.from]
    BY DEF Inv, TypeOK, NodeInv, Signed, Nonces
  <2>2. \A x \in mined' : x.nonce < seq'[x.from]
    BY <1>1, <1>2, <1>3, <2>1 DEF Mine
  <2>3. \A x, y \in mined' : x.from = y.from /\ x.nonce = y.nonce => x = y
    BY <1>1, <1>2, <2>1 DEF Mine, Inv, NodeInv
  <2>4. \A s \in Senders \ known' : seq'[s] = 0 /\ \A x \in pool' : x.from # s
    BY <1>3 DEF Mine, Inv, NodeInv
  <2> QED
    BY <2>2, <2>3, <2>4 DEF NodeInv
<1>6. \A s \in Senders, n \in Nonces : Free(s, n) => Free(s, n)'
  BY <1>1, <1>2, <1>3 DEF Free, Mine, Nonces
<1>7. pool' \cup mined' = pool \cup mined
  BY DEF Mine
<1> QED
  BY <1>4, <1>5, <1>6, <1>7, NodeStep DEF Mine

\* Revert keeps the invariant.
LEMMA RevertInv ==
  ASSUME Inv, NEW m \in mined, Revert(m)
  PROVE  Inv'
<1>1. m \in Signed /\ m.from \in Senders /\ m.nonce \in 0..MaxNonce /\ MaxNonce \in Nat
  BY LotusAssumption DEF Inv, TypeOK, Signed, Nonces
<1>2. /\ seq \in [Senders -> 0..MaxNonce + 1]
      /\ seq' = [seq EXCEPT ![m.from] = m.nonce] /\ seq[m.from] = m.nonce + 1
      /\ m.nonce \in 0..MaxNonce + 1
  BY <1>1 DEF Inv, TypeOK, Revert
<1>3. \A s \in Senders : seq'[s] = IF s = m.from THEN m.nonce ELSE seq[s]
  BY <1>1, <1>2
<1>4. faults' \in 0..MaxFaults
  BY LotusAssumption DEF Inv, TypeOK, Revert
<1>5. TypeOK'
  BY <1>1, <1>2, <1>4 DEF Inv, TypeOK, Revert, caller
<1>6. NodeInv'
  <2>1. \A x \in mined : x.from \in Senders /\ x.nonce \in Nat /\ x.nonce < seq[x.from]
    BY DEF Inv, TypeOK, NodeInv, Signed, Nonces
  <2>2. \A x \in mined \ {m} : ~(x.from = m.from /\ x.nonce = m.nonce)
    BY DEF Inv, NodeInv
  <2>3. \A x \in mined' : x.nonce < seq'[x.from]
    BY <1>1, <1>2, <1>3, <2>1, <2>2 DEF Revert
  <2>4. \A x, y \in mined' : x.from = y.from /\ x.nonce = y.nonce => x = y
    BY DEF Revert, Inv, NodeInv
  <2>5. m.from \in known
    BY <1>1, <1>2 DEF Inv, NodeInv
  <2>6. \A s \in Senders \ known' : seq'[s] = 0 /\ \A x \in pool' : x.from # s
    BY <1>3, <2>5 DEF Revert, Inv, NodeInv
  <2> QED
    BY <2>3, <2>4, <2>6 DEF NodeInv
<1>7. \A s \in Senders, n \in Nonces : Free(s, n) => Free(s, n)'
  BY <1>1, <1>2, <1>3 DEF Free, Revert, Nonces
<1>8. pool' \cup mined' = pool \cup mined
  BY DEF Revert
<1> QED
  BY <1>5, <1>6, <1>7, <1>8, NodeStep DEF Revert

-----------------------------------------------------------------------------
(* The steps of a caller; one lemma for each action. *)

\* An operation that returns an error leaves nothing behind.
LEMMA AbandonsCaller ==
  ASSUME Inv, NEW p \in Callers, Abandons(p), UNCHANGED cause
  PROVE  /\ Others(p)
         /\ step' = [step EXCEPT ![p] = "idle"] /\ answer' = [answer EXCEPT ![p] = "error"]
         /\ msg' \in [Callers -> Messages] /\ signature' \in [Callers -> Messages]
         /\ StepInv(p)' /\ Refusable(p)' /\ Kept(p)' /\ ~Reported(p)'
<1>1. NoMsg \in Messages
  BY DEF NoMsg, Messages
<1>2. /\ step' = [step EXCEPT ![p] = "idle"] /\ answer' = [answer EXCEPT ![p] = "error"]
      /\ msg' = [msg EXCEPT ![p] = NoMsg] /\ signature' = [signature EXCEPT ![p] = NoMsg]
  BY DEF Abandons, Ends
<1>3. msg' \in [Callers -> Messages] /\ signature' \in [Callers -> Messages]
  BY <1>1, <1>2 DEF Inv, TypeOK
<1>4. Others(p) /\ step'[p] = "idle" /\ answer'[p] = "error"
  BY <1>2 DEF Others, Inv, TypeOK
<1>5. StepInv(p)' /\ Refusable(p)' /\ Kept(p)' /\ ~Reported(p)'
  BY <1>4 DEF StepInv, Refusable, Kept, Reported
<1> QED
  BY <1>2, <1>3, <1>4, <1>5

\* What a caller's step does not touch keeps its type.
LEMMA CallerType ==
  ASSUME Inv, NEW p \in Callers, UNCHANGED <<known, seq, mined, pushes>>,
         pool' \subseteq Signed, msg' \in [Callers -> Messages], signature' \in [Callers -> Messages],
         NEW st \in {"idle", "nonce", "gas", "sign", "push", "pushMessage", "wait"},
         step' = [step EXCEPT ![p] = st],
         NEW a \in {"none", "error", "refused", "cid", "receipt"},
         answer' = [answer EXCEPT ![p] = a],
         cause' \in [Callers -> {"none", "signature", "unknown", "nonce"}],
         taken' \in [Callers -> SUBSET (Senders \X Nonces)], faults' \in 0..MaxFaults,
         st \in {"push", "wait"} => msg'[p] \in Signed,
         Others(p)
  PROVE  TypeOK'
<1>1. \A q \in Callers : step'[q] \in {"push", "wait"} => msg'[q] \in Signed
  BY DEF Inv, TypeOK, Others
<1>2. step' \in [Callers -> {"idle", "nonce", "gas", "sign", "push", "pushMessage", "wait"}]
  BY DEF Inv, TypeOK
<1>3. answer' \in [Callers -> {"none", "error", "refused", "cid", "receipt"}]
  BY DEF Inv, TypeOK
<1> QED
  BY <1>1, <1>2, <1>3 DEF Inv, TypeOK

\* A request that fails before the node has acted, and nothing else.
LEMMA AbandonsInv ==
  ASSUME Inv, NEW p \in Callers, Abandons(p), UNCHANGED <<chain, cause, pushes>>,
         faults' \in 0..MaxFaults,
         taken' \in [Callers -> SUBSET (Senders \X Nonces)],
         \A q \in Callers \ {p} : taken'[q] = taken[q]
  PROVE  Inv'
<1>1. /\ Others(p)
      /\ step' = [step EXCEPT ![p] = "idle"] /\ answer' = [answer EXCEPT ![p] = "error"]
      /\ msg' \in [Callers -> Messages] /\ signature' \in [Callers -> Messages]
      /\ StepInv(p)' /\ Refusable(p)' /\ Kept(p)' /\ ~Reported(p)'
  BY AbandonsCaller
<1>2. UNCHANGED <<known, seq, pool, mined, pushes>> /\ pool' \subseteq Signed
  BY DEF chain, Inv, TypeOK
<1>3. cause' \in [Callers -> {"none", "signature", "unknown", "nonce"}]
  BY DEF Inv, TypeOK
<1>4. TypeOK'
  BY <1>1, <1>2, <1>3, CallerType
<1> QED
  BY <1>1, <1>4, LocalStep

\* A failed request abandons the call and counts as a fault.
LEMMA FailsFaults ==
  ASSUME Inv, NEW p \in Callers, Fails(p)
  PROVE  Abandons(p) /\ faults' \in 0..MaxFaults
BY LotusAssumption DEF Fails, Inv, TypeOK

\* A caller that starts a command.
LEMMA StartsInv ==
  ASSUME Inv, NEW p \in Callers, NEW first \in {"nonce", "pushMessage"}, Starts(p, first)
  PROVE  Inv'
<1>1. PICK s \in Senders, k \in Calls, n \in {None, 0} :
        /\ msg' = [msg EXCEPT ![p] = [from |-> s, call |-> k, nonce |-> n, gas |-> None]]
        /\ step' = [step EXCEPT ![p] = IF first = "nonce" /\ n # None THEN "gas" ELSE first]
        /\ taken' = [taken EXCEPT ![p] = IF n = None THEN {} ELSE {<<s, n>>}]
  BY DEF Starts
<1> DEFINE m == [from |-> s, call |-> k, nonce |-> n, gas |-> None]
<1>2. 0 \in Nonces /\ 0 # None
  BY LotusAssumption DEF Nonces
<1>3. msg' = [msg EXCEPT ![p] = m] /\ m \in Messages
  BY <1>1, <1>2 DEF Messages
<1>4. /\ msg' \in [Callers -> Messages] /\ msg'[p] = m
      /\ m.from = s /\ m.call = k /\ m.nonce = n
  BY <1>3 DEF Inv, TypeOK
<1>5. signature' \in [Callers -> Messages]
  BY DEF Starts, Inv, TypeOK, NoMsg, Messages
<1>6. /\ answer' \in [Callers -> {"none", "error", "refused", "cid", "receipt"}]
      /\ answer'[p] = "none"
      /\ cause' \in [Callers -> {"none", "signature", "unknown", "nonce"}]
  BY DEF Starts, Inv, TypeOK
<1>7. /\ taken' \in [Callers -> SUBSET (Senders \X Nonces)]
      /\ n # None => taken'[p] = {<<s, n>>}
      /\ \A q \in Callers \ {p} : taken'[q] = taken[q]
  BY <1>1, <1>2 DEF Inv, TypeOK
<1>8. /\ step' \in [Callers -> {"idle", "nonce", "gas", "sign", "push", "pushMessage", "wait"}]
      /\ step'[p] = IF first = "nonce" /\ n # None THEN "gas" ELSE first
  BY <1>1 DEF Inv, TypeOK
<1>9. Others(p)
  BY <1>1 DEF Others, Starts, Inv, TypeOK
<1>10. pushes' \in 0..MaxPushes
  BY LotusAssumption DEF Starts, Inv, TypeOK
<1>11. UNCHANGED <<chain, faults>>
  BY DEF Starts
<1> HIDE DEF m
<1>12. \A q \in Callers : step'[q] \in {"push", "wait"} => msg'[q] \in Signed
  BY <1>8, <1>9 DEF Others, Inv, TypeOK
<1>13. TypeOK'
  BY <1>4, <1>5, <1>6, <1>7, <1>8, <1>10, <1>11, <1>12 DEF Inv, TypeOK, chain
<1>14. n # None => Raced(p)' /\ n \in Nonces
  BY <1>2, <1>4, <1>7 DEF Raced
<1>15. StepInv(p)'
  BY <1>4, <1>6, <1>8, <1>14 DEF StepInv, Reported
<1>16. Refusable(p)' /\ Kept(p)' /\ ~Reported(p)'
  BY <1>6 DEF Refusable, Kept, Reported
<1> QED
  BY <1>7, <1>9, <1>11, <1>13, <1>15, <1>16, LocalStep

\* A nonce that is read is free, and it is a nonce.
LEMMA NonceRead ==
  ASSUME Inv, NEW p \in Callers, step[p] = "nonce", NEW n \in Nonces, Free(msg[p].from, n),
         msg' = [msg EXCEPT ![p].nonce = n], step' = [step EXCEPT ![p] = "gas"],
         taken' = [taken EXCEPT ![p] = {}],
         UNCHANGED <<chain, signature, answer, cause, pushes, faults>>
  PROVE  Inv'
<1>1. msg \in [Callers -> Messages] /\ msg[p] \in Messages
  BY DEF Inv, TypeOK
<1>2. /\ msg' \in [Callers -> Messages]
      /\ msg'[p].from = msg[p].from /\ msg'[p].call = msg[p].call /\ msg'[p].nonce = n
  BY <1>1 DEF Messages
<1>3. Others(p)
  BY DEF Others, Inv, TypeOK
<1>4. answer[p] = "none" /\ answer' = [answer EXCEPT ![p] = "none"]
  BY DEF Inv, StepInv, TypeOK
<1>5. /\ taken' \in [Callers -> SUBSET (Senders \X Nonces)]
      /\ \A q \in Callers \ {p} : taken'[q] = taken[q]
  BY DEF Inv, TypeOK
<1>6. /\ pool' \subseteq Signed /\ signature' \in [Callers -> Messages]
      /\ cause' \in [Callers -> {"none", "signature", "unknown", "nonce"}]
      /\ faults' \in 0..MaxFaults /\ UNCHANGED <<known, seq, mined, pushes>>
  BY DEF Inv, TypeOK, chain
<1>7. TypeOK'
  BY <1>2, <1>3, <1>4, <1>5, <1>6, CallerType
<1>8. step'[p] = "gas" /\ answer'[p] = "none"
  BY <1>4 DEF Inv, TypeOK
<1>9. Free(msg[p].from, n)'
  BY <1>2 DEF Free, chain
<1>10. StepInv(p)'
  BY <1>2, <1>8, <1>9 DEF Inv, StepInv, Reported
<1>11. Refusable(p)' /\ Kept(p)' /\ ~Reported(p)'
  BY <1>8 DEF Refusable, Kept, Reported
<1> QED
  BY <1>3, <1>5, <1>7, <1>10, <1>11, LocalStep

\* MpoolNonce keeps the invariant.
LEMMA MpoolNonceInv ==
  ASSUME Inv, NEW p \in Callers, MpoolNonce(p)
  PROVE  Inv'
<1>1. step[p] = "nonce" /\ msg[p].from \in Senders
  BY DEF MpoolNonce, Inv, StepInv
<1>2. CASE msg[p].from \in known /\ NextNonce(msg[p].from) \in Nonces
           /\ msg' = [msg EXCEPT ![p].nonce = NextNonce(msg[p].from)]
           /\ step' = [step EXCEPT ![p] = "gas"] /\ UNCHANGED <<signature, answer, faults>>
  <2>1. TypeOK
    BY DEF Inv
  <2>2. Free(msg[p].from, NextNonce(msg[p].from))
    BY <1>1, <2>1, NextNonceFree
  <2> QED
    BY <1>1, <1>2, <2>2, NonceRead DEF MpoolNonce
<1>3. CASE msg[p].from \notin known /\ msg' = [msg EXCEPT ![p].nonce = 0]
           /\ step' = [step EXCEPT ![p] = "gas"] /\ UNCHANGED <<signature, answer, faults>>
  <2>1. 0 \in Nonces
    BY LotusAssumption DEF Nonces
  <2>2. Free(msg[p].from, 0)
    BY <1>1, <1>3 DEF Inv, NodeInv, Free
  <2> QED
    BY <1>1, <1>3, <2>1, <2>2, NonceRead DEF MpoolNonce
<1>4. CASE Fails(p)
  <2>1. /\ taken' \in [Callers -> SUBSET (Senders \X Nonces)]
        /\ \A q \in Callers \ {p} : taken'[q] = taken[q]
    BY DEF MpoolNonce, Inv, TypeOK
  <2> QED
    BY <1>4, <2>1, FailsFaults, AbandonsInv DEF MpoolNonce
<1> QED
  BY <1>2, <1>3, <1>4 DEF MpoolNonce

\* EstimateMessageGas keeps the invariant.
LEMMA EstimateMessageGasInv ==
  ASSUME Inv, NEW p \in Callers, EstimateMessageGas(p)
  PROVE  Inv'
<1>1. step[p] = "gas" /\ UNCHANGED <<chain, cause, taken, pushes>>
  BY DEF EstimateMessageGas
<1>2. taken' \in [Callers -> SUBSET (Senders \X Nonces)]
  BY <1>1 DEF Inv, TypeOK
<1>3. ASSUME NEW g \in Gases \cup {None}, msg' = [msg EXCEPT ![p].gas = g],
             step' = [step EXCEPT ![p] = "sign"], UNCHANGED <<signature, answer, faults>>
      PROVE  Inv'
  <2>1. msg \in [Callers -> Messages] /\ msg[p] \in Messages
    BY DEF Inv, TypeOK
  <2>2. /\ msg' \in [Callers -> Messages] /\ msg'[p].from = msg[p].from
        /\ msg'[p].call = msg[p].call /\ msg'[p].nonce = msg[p].nonce
    BY <1>3, <2>1 DEF Messages
  <2>3. Others(p)
    BY <1>1, <1>3 DEF Others, Inv, TypeOK
  <2>4. answer[p] = "none" /\ answer' = [answer EXCEPT ![p] = "none"]
    BY <1>1, <1>3 DEF Inv, StepInv, TypeOK
  <2>5. /\ pool' \subseteq Signed /\ signature' \in [Callers -> Messages]
        /\ cause' \in [Callers -> {"none", "signature", "unknown", "nonce"}]
        /\ faults' \in 0..MaxFaults /\ UNCHANGED <<known, seq, mined, pushes>>
    BY <1>1, <1>3 DEF Inv, TypeOK, chain
  <2>6. TypeOK'
    BY <1>2, <1>3, <2>2, <2>3, <2>4, <2>5, CallerType
  <2>7. step'[p] = "sign" /\ answer'[p] = "none"
    BY <1>3, <2>4 DEF Inv, TypeOK
  <2>8. (Raced(p) \/ Free(msg[p].from, msg[p].nonce)) => (Raced(p) \/ Free(msg[p].from, msg[p].nonce))'
    BY <1>1, <2>2 DEF Raced, Free, chain
  <2>9. StepInv(p)'
    BY <1>1, <2>2, <2>7, <2>8 DEF Inv, StepInv, Reported
  <2>10. Refusable(p)' /\ Kept(p)' /\ ~Reported(p)'
    BY <2>7 DEF Refusable, Kept, Reported
  <2> QED
    BY <1>1, <2>3, <2>6, <2>9, <2>10, LocalStep
<1>4. CASE Fails(p)
  BY <1>1, <1>2, <1>4, FailsFaults, AbandonsInv
<1> QED
  BY <1>3, <1>4 DEF EstimateMessageGas

\* SignMpoolMessage keeps the invariant.
LEMMA SignMpoolMessageInv ==
  ASSUME Inv, NEW p \in Callers, SignMpoolMessage(p)
  PROVE  Inv'
<1>1. step[p] = "sign" /\ UNCHANGED <<chain, cause, taken, pushes, faults>>
  BY DEF SignMpoolMessage
<1>2. taken' \in [Callers -> SUBSET (Senders \X Nonces)] /\ faults' \in 0..MaxFaults
  BY <1>1 DEF Inv, TypeOK
<1>3. CASE Complete(msg[p]) /\ signature' = [signature EXCEPT ![p] = msg[p]]
           /\ step' = [step EXCEPT ![p] = "push"] /\ UNCHANGED <<msg, answer>>
  <2>1. msg[p] \in Messages /\ signature' \in [Callers -> Messages] /\ signature'[p] = msg[p]
    BY <1>3 DEF Inv, TypeOK
  <2>2. msg'[p] \in Signed /\ msg' \in [Callers -> Messages]
    BY <1>1, <1>3, <2>1 DEF Inv, TypeOK, StepInv, Complete, Messages, Signed
  <2>3. Others(p)
    BY <1>1, <1>3 DEF Others, Inv, TypeOK
  <2>4. answer[p] = "none" /\ answer' = [answer EXCEPT ![p] = "none"]
    BY <1>1, <1>3 DEF Inv, StepInv, TypeOK
  <2>5. /\ pool' \subseteq Signed
        /\ cause' \in [Callers -> {"none", "signature", "unknown", "nonce"}]
        /\ UNCHANGED <<known, seq, mined, pushes>>
    BY <1>1 DEF Inv, TypeOK, chain
  <2>6. TypeOK'
    BY <1>2, <1>3, <2>1, <2>2, <2>3, <2>4, <2>5, CallerType
  <2>7. step'[p] = "push" /\ answer'[p] = "none"
    BY <1>3, <2>4 DEF Inv, TypeOK
  <2>8. (Raced(p) \/ Free(msg[p].from, msg[p].nonce)) => (Raced(p) \/ Free(msg[p].from, msg[p].nonce))'
    BY <1>1, <1>3 DEF Raced, Free, chain
  <2>9. StepInv(p)'
    BY <1>1, <1>3, <2>1, <2>7, <2>8 DEF Inv, StepInv, Reported
  <2>10. Refusable(p)' /\ Kept(p)' /\ ~Reported(p)'
    BY <2>7 DEF Refusable, Kept, Reported
  <2> QED
    BY <1>1, <2>3, <2>6, <2>9, <2>10, LocalStep
<1>4. CASE Abandons(p)
  BY <1>1, <1>2, <1>4, AbandonsInv
<1> QED
  BY <1>3, <1>4 DEF SignMpoolMessage, SignedFields

\* The node takes a message, and the caller may or may not get to know.
LEMMA Taken ==
  ASSUME Inv, NEW p \in Callers, step[p] \in {"push", "pushMessage"}, NEW m \in Signed,
         Take(p, m), m.from \in known,
         <<m.from, m.nonce>> \in taken[p] \/ Free(m.from, m.nonce),
         UNCHANGED <<known, seq, mined, cause, pushes>>,
         \/ Ends(p, "cid") /\ msg' = [msg EXCEPT ![p] = m] /\ UNCHANGED faults
         \/ Fails(p)
  PROVE  Inv'
<1>1. /\ pool' \subseteq Signed /\ m \in pool' /\ m \in Messages
      /\ taken' \in [Callers -> SUBSET (Senders \X Nonces)]
      /\ cause' \in [Callers -> {"none", "signature", "unknown", "nonce"}]
  <2>1. <<m.from, m.nonce>> \in Senders \X Nonces /\ m \in Messages
    BY DEF Signed, Messages
  <2>2. pool' \subseteq Signed /\ m \in pool'
    BY DEF Take, Inv, TypeOK
  <2>3. taken' \in [Callers -> SUBSET (Senders \X Nonces)]
    BY <2>1 DEF Take, Inv, TypeOK
  <2> QED
    BY <2>1, <2>2, <2>3 DEF Inv, TypeOK
<1>2. CASE Ends(p, "cid") /\ msg' = [msg EXCEPT ![p] = m] /\ UNCHANGED faults
  <2>1. /\ step' = [step EXCEPT ![p] = "wait"] /\ answer' = [answer EXCEPT ![p] = "cid"]
        /\ signature' = [signature EXCEPT ![p] = NoMsg]
    BY <1>2 DEF Ends
  <2>2. /\ signature' \in [Callers -> Messages] /\ msg' \in [Callers -> Messages]
        /\ msg'[p] = m /\ step'[p] = "wait" /\ answer'[p] = "cid" /\ faults' \in 0..MaxFaults
    BY <1>1, <1>2, <2>1 DEF Inv, TypeOK, NoMsg, Messages
  <2>3. Others(p)
    BY <1>2, <2>1 DEF Others, Inv, TypeOK
  <2>4. TypeOK'
    BY <1>1, <2>1, <2>2, <2>3, CallerType
  <2>5. m.from \in Senders /\ m.call \in Calls /\ There(m.from, m.nonce)'
    BY <1>1 DEF Signed, There
  <2>6. StepInv(p)' /\ Refusable(p)'
    BY <2>2, <2>5 DEF StepInv, Refusable, Reported
  <2>7. Free(m.from, m.nonce) => ~There(m.from, m.nonce)
    <3> SUFFICES ASSUME Free(m.from, m.nonce), NEW x \in mined, x.from = m.from, x.nonce = m.nonce
                 PROVE  FALSE
      BY DEF Free, There
    <3>1. seq[m.from] \in Int /\ m.nonce \in Int
      BY <2>5, LotusAssumption DEF Inv, TypeOK, Signed, Nonces
    <3>2. m.nonce < seq[m.from] /\ m.nonce >= seq[m.from]
      BY DEF Inv, NodeInv, Free
    <3> QED
      BY <3>1, <3>2
  <2> QED
    BY <2>2, <2>3, <2>4, <2>6, <2>7, TakeStep
<1>3. CASE Fails(p)
  <2>1. Abandons(p) /\ faults' \in 0..MaxFaults
    BY <1>3, FailsFaults
  <2>2. /\ Others(p)
        /\ step' = [step EXCEPT ![p] = "idle"] /\ answer' = [answer EXCEPT ![p] = "error"]
        /\ msg' \in [Callers -> Messages] /\ signature' \in [Callers -> Messages]
        /\ StepInv(p)' /\ Refusable(p)' /\ ~Reported(p)'
    BY <2>1, AbandonsCaller
  <2>3. TypeOK'
    BY <1>1, <2>1, <2>2, CallerType
  <2> QED
    BY <2>2, <2>3, TakeStep
<1> QED
  BY <1>2, <1>3

\* MpoolPush keeps the invariant.
LEMMA MpoolPushInv ==
  ASSUME Inv, NEW p \in Callers, MpoolPush(p)
  PROVE  Inv'
<1>1. step[p] = "push" /\ UNCHANGED <<known, seq, mined, pushes>>
  BY DEF MpoolPush
<1>2. /\ msg[p] \in Signed /\ signature[p] = msg[p] /\ msg[p].from \in Senders
      /\ Raced(p) \/ Free(msg[p].from, msg[p].nonce)
  BY <1>1 DEF Inv, TypeOK, StepInv, Signed
<1>3. CASE Refusal(msg[p], signature[p]) = "none" /\ Take(p, msg[p]) /\ UNCHANGED cause
           /\ ((Ends(p, "cid") /\ UNCHANGED <<msg, faults>>) \/ Fails(p))
  <2>1. msg[p].from \in known
    BY <1>3, <1>2 DEF Refusal
  <2>2. UNCHANGED msg => msg' = [msg EXCEPT ![p] = msg[p]]
    BY DEF Inv, TypeOK
  <2> QED
    BY <1>1, <1>2, <1>3, <2>1, <2>2, Taken DEF Raced
<1>4. ASSUME NEW o \in Outcomes(FALSE), Refusal(msg[p], signature[p]) # "none",
             Ends(p, IF o = "result" THEN "cid" ELSE "refused"),
             cause' = [cause EXCEPT ![p] = Refusal(msg[p], signature[p])],
             UNCHANGED <<pool, taken, msg, faults>>
      PROVE  Inv'
  <2>1. /\ step' = [step EXCEPT ![p] = "idle"] /\ answer' = [answer EXCEPT ![p] = "refused"]
        /\ signature' = [signature EXCEPT ![p] = NoMsg]
    BY <1>4, NoResult DEF Ends
  <2>2. \/ Refusal(msg[p], signature[p]) = "unknown"
        \/ Refusal(msg[p], signature[p]) = "nonce" /\ Raced(p)
    <3> SUFFICES ASSUME ~Raced(p), msg[p].from \in known PROVE Refusal(msg[p], signature[p]) = "none"
      BY <1>2, <1>4 DEF Refusal
    <3>1. Free(msg[p].from, msg[p].nonce)
      BY <1>2
    <3>2. seq[msg[p].from] \in Int /\ msg[p].nonce \in Int
      BY <1>2, LotusAssumption DEF Inv, TypeOK, Signed, Nonces
    <3>3. ~(msg[p].nonce < seq[msg[p].from]) /\ Rivals(msg[p]) = {}
      BY <3>1, <3>2 DEF Free, Rivals
    <3> QED
      BY <1>2, <3>3 DEF Refusal
  <2>3. /\ signature' \in [Callers -> Messages] /\ step'[p] = "idle" /\ answer'[p] = "refused"
        /\ msg' \in [Callers -> Messages]
        /\ pool' \subseteq Signed /\ faults' \in 0..MaxFaults
        /\ taken' \in [Callers -> SUBSET (Senders \X Nonces)]
    BY <1>4, <2>1 DEF Inv, TypeOK, NoMsg, Messages
  <2>4. /\ cause' \in [Callers -> {"none", "signature", "unknown", "nonce"}]
        /\ cause'[p] = Refusal(msg[p], signature[p])
    BY <1>4, <2>2 DEF Inv, TypeOK
  <2>5. Others(p)
    BY <1>4, <2>1 DEF Others, Inv, TypeOK
  <2>6. TypeOK'
    BY <1>1, <2>1, <2>3, <2>4, <2>5, CallerType
  <2>7. StepInv(p)' /\ Kept(p)' /\ ~Reported(p)'
    BY <2>3 DEF StepInv, Kept, Reported
  <2>8. Refusable(p)'
    BY <1>4, <2>2, <2>4 DEF Refusable, Raced
  <2> QED
    BY <1>1, <1>4, <2>5, <2>6, <2>7, <2>8, LocalStep DEF chain
<1>5. CASE Fails(p) /\ UNCHANGED <<pool, taken, cause>>
  <2>1. taken' \in [Callers -> SUBSET (Senders \X Nonces)] /\ UNCHANGED chain
    BY <1>1, <1>5 DEF Inv, TypeOK, chain
  <2> QED
    BY <1>1, <1>5, <2>1, FailsFaults, AbandonsInv
<1> QED
  BY <1>3, <1>4, <1>5 DEF MpoolPush

\* MpoolPushMessage keeps the invariant.
LEMMA MpoolPushMessageInv ==
  ASSUME Inv, NEW p \in Callers, MpoolPushMessage(p)
  PROVE  Inv'
<1>1. step[p] = "pushMessage" /\ UNCHANGED <<known, seq, mined, cause, pushes>>
  BY DEF MpoolPushMessage
<1>2. /\ msg[p] \in Messages /\ msg[p].from \in Senders /\ msg[p].call \in Calls
      /\ msg[p].nonce = None \/ Raced(p)
  BY <1>1 DEF Inv, TypeOK, StepInv
<1> DEFINE m(g) == [from |-> msg[p].from, call |-> msg[p].call,
                   nonce |-> FilledNonce(msg[p]), gas |-> g]
<1>3. ASSUME NEW g \in Gases, m(g).from \in known, m(g).nonce \in Nonces, Take(p, m(g)),
             \/ Ends(p, "cid") /\ msg' = [msg EXCEPT ![p] = m(g)] /\ UNCHANGED faults
             \/ Fails(p)
      PROVE  Inv'
  <2>1. /\ m(g).from = msg[p].from /\ m(g).call = msg[p].call
        /\ m(g).nonce = FilledNonce(msg[p]) /\ m(g).gas = g
    OBVIOUS
  <2>2. m(g) \in Signed
    BY <1>2, <1>3, <2>1 DEF Signed
  <2>3. <<m(g).from, m(g).nonce>> \in taken[p] \/ Free(m(g).from, m(g).nonce)
    <3>1. CASE msg[p].nonce = None
      <4>1. Free(msg[p].from, NextNonce(msg[p].from))
        BY <1>2, NextNonceFree DEF Inv
      <4> QED
        BY <2>1, <3>1, <4>1 DEF FilledNonce
    <3>2. CASE msg[p].nonce # None
      BY <1>2, <2>1, <3>2 DEF FilledNonce, Raced
    <3> QED
      BY <3>1, <3>2
  <2> HIDE DEF m
  <2> QED
    BY <1>1, <1>3, <2>2, <2>3, Taken
<1>4. CASE Abandons(p) /\ UNCHANGED <<pool, taken, faults>>
  <2>1. /\ taken' \in [Callers -> SUBSET (Senders \X Nonces)]
        /\ faults' \in 0..MaxFaults /\ UNCHANGED chain
    BY <1>1, <1>4 DEF Inv, TypeOK, chain
  <2> QED
    BY <1>1, <1>4, <2>1, AbandonsInv
<1> QED
  BY <1>3, <1>4 DEF MpoolPushMessage

\* StateWaitMsg keeps the invariant.
LEMMA StateWaitMsgInv ==
  ASSUME Inv, NEW p \in Callers, StateWaitMsg(p)
  PROVE  Inv'
<1>1. step[p] = "wait" /\ UNCHANGED <<chain, cause, taken, pushes, faults>>
  BY DEF StateWaitMsg
<1>2. /\ taken' \in [Callers -> SUBSET (Senders \X Nonces)] /\ faults' \in 0..MaxFaults
      /\ cause' \in [Callers -> {"none", "signature", "unknown", "nonce"}]
      /\ pool' \subseteq Signed /\ UNCHANGED <<known, seq, mined, pushes>>
  BY <1>1 DEF Inv, TypeOK, chain
<1>3. CASE Ends(p, "receipt") /\ UNCHANGED msg
  <2>1. /\ step' = [step EXCEPT ![p] = "idle"] /\ answer' = [answer EXCEPT ![p] = "receipt"]
        /\ signature' = [signature EXCEPT ![p] = NoMsg]
    BY <1>3 DEF Ends
  <2>2. /\ signature' \in [Callers -> Messages] /\ msg' \in [Callers -> Messages]
        /\ step'[p] = "idle" /\ answer'[p] = "receipt"
    BY <1>3, <2>1 DEF Inv, TypeOK, NoMsg, Messages
  <2>3. Others(p)
    BY <1>1, <1>3, <2>1 DEF Others, Inv, TypeOK
  <2>4. TypeOK'
    BY <1>2, <2>1, <2>2, <2>3, CallerType
  <2>5. Reported(p) /\ msg'[p] = msg[p] /\ taken'[p] = taken[p]
    BY <1>1, <1>3 DEF Inv, StepInv, Reported
  <2>6. There(msg[p].from, msg[p].nonce)'
    BY <1>1, <2>5 DEF Inv, StepInv, There, chain
  <2>7. StepInv(p)' /\ Refusable(p)' /\ Kept(p)'
    BY <2>2, <2>5, <2>6 DEF Inv, StepInv, Refusable, Kept, Reported
  <2> QED
    BY <1>1, <2>3, <2>4, <2>5, <2>7, LocalStep
<1>4. CASE Abandons(p)
  BY <1>1, <1>2, <1>4, AbandonsInv
<1> QED
  BY <1>3, <1>4 DEF StateWaitMsg

\* Timeout keeps the invariant.
LEMMA TimeoutInv ==
  ASSUME Inv, NEW p \in Callers, Timeout(p)
  PROVE  Inv'
<1>1. /\ taken' \in [Callers -> SUBSET (Senders \X Nonces)]
      /\ faults' \in 0..MaxFaults
  BY DEF Inv, TypeOK, Timeout
<1> QED
  BY <1>1, AbandonsInv DEF Timeout

-----------------------------------------------------------------------------
\* No step of the callers or of the node, and no stuttering, breaks the invariant.
LEMMA NextInv ==
  ASSUME Inv, [Next]_vars
  PROVE  Inv'
<1>1. CASE UNCHANGED vars
  <2>1. UNCHANGED <<known, seq, pool, mined, step, msg, signature, answer, cause, taken, pushes, faults>>
    BY <1>1 DEF vars, chain, caller
  <2>2. TypeOK' /\ NodeInv'
    BY <2>1 DEF Inv, TypeOK, NodeInv
  <2> QED
    BY <2>1, <2>2, NodeStep DEF caller, Free
<1>2. ASSUME NEW p \in Callers, StartPush(p) \/ StartPushMessage(p) PROVE Inv'
  BY <1>2, StartsInv DEF StartPush, StartPushMessage
<1>3. ASSUME NEW p \in Callers, Call(p) PROVE Inv'
  BY <1>3, MpoolNonceInv, EstimateMessageGasInv, SignMpoolMessageInv, MpoolPushInv,
     MpoolPushMessageInv, StateWaitMsgInv, TimeoutInv DEF Call
<1>4. ASSUME NEW s \in Senders, CreateActor(s) PROVE Inv'
  BY <1>4, CreateActorInv
<1>5. ASSUME NEW m \in pool, Mine(m) PROVE Inv'
  BY <1>5, MineInv
<1>6. ASSUME NEW m \in mined, Revert(m) PROVE Inv'
  BY <1>6, RevertInv
<1> QED
  BY <1>1, <1>2, <1>3, <1>4, <1>5, <1>6 DEF Next

\* The invariant is one of the specification.
LEMMA Invariance == Spec => []Inv
<1>1. Inv /\ [Next]_vars => Inv'
  BY NextInv
<1> QED
  BY InitInv, <1>1, PTL DEF Spec

\* The variables keep their types; a message that is pushed or waited for has its
\* nonce and its gas (LotusJsonRPCClient).
THEOREM TypeCorrect == Spec => []TypeOK
<1>1. Inv => TypeOK
  BY DEF Inv
<1> QED
  BY Invariance, <1>1, PTL

\* A push that the node refuses has lost a race for its nonce, or its sender has no
\* actor: mpool_push between its reading of the nonce and its last request.
THEOREM RefusalIsARace == Spec => []RefusedOnlyInARace
<1>1. Inv => RefusedOnlyInARace
  BY DEF Inv, Refusable, Raced, RefusedOnlyInARace
<1> QED
  BY Invariance, <1>1, PTL

\* Two callers whom state_wait_msg gave the receipt of one execution both raced for
\* its nonce.
THEOREM SharedReceiptIsARace == Spec => []SharedReceiptNeedsARace
<1>1. Inv => SharedReceiptNeedsARace
  BY DEF Inv, Shared, Reported, Raced, SharedReceiptNeedsARace
<1> QED
  BY Invariance, <1>1, PTL

\* While mpool_push's or mpool_push_message's caller waits, the message it was told
\* of is in the mempool or on the chain, or another one has taken its nonce.
THEOREM ReportIsTrue == Spec => []ReportedIsPushed
<1>1. Inv => ReportedIsPushed
  BY DEF Inv, Kept, Raced, ReportedIsPushed
<1> QED
  BY Invariance, <1>1, PTL
=============================================================================
