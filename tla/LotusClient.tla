---------------------------- MODULE LotusClient ----------------------------
(***************************************************************************)
(* The client of a Lotus node: LotusJsonRPCClient (ipc/provider/src/lotus) *)
(* over the JSON-RPC requests of ipc/provider/src/jsonrpc.                 *)
(*                                                                         *)
(* Each caller pushes one message after the other: signed by the local key *)
(* store (mpool_push, four steps) or by the node (mpool_push_message), and *)
(* waits for it (state_wait_msg).  Every request is a step that may fail   *)
(* before or after the node has acted.  The node is not code of this       *)
(* repository and is modelled by what the client relies on.                *)
(***************************************************************************)
EXTENDS Integers, FiniteSets, FiniteSetsExt

CONSTANTS
  Callers,      \* concurrent users of clients of one node
  Senders,      \* addresses with a key in the local key store
  Calls,        \* what messages do: receiver, value, method, parameters
  Gases,        \* fees the node may estimate
  None,
  MaxNonce,     \* bound: nonces in use
  MaxPushes,    \* bound: messages pushed
  MaxFaults     \* bound: failed requests and reorganisations

ASSUME LotusAssumption ==
  /\ Gases \subseteq Nat /\ MaxNonce \in Nat /\ MaxPushes \in Nat /\ MaxFaults \in Nat
  /\ None \notin Callers \cup Senders \cup Calls \cup Nat

VARIABLES
  known,      \* senders that have an actor on the chain
  seq,        \* the next nonce of each sender on the chain
  pool,       \* the mempool
  mined,      \* messages on the chain
  step,       \* the request each caller is about to make
  msg,        \* the message each caller has put together so far
  signature,  \* and what its signature covers
  answer,     \* how the caller's last operation ended
  cause,      \* history: why the node refused the push
  taken,      \* history: nonces others have taken since the caller read one
  pushes, faults

chain  == <<known, seq, pool, mined>>
caller == <<step, msg, signature, answer, cause>>
vars   == <<chain, caller, taken, pushes, faults>>

Nonces == 0..MaxNonce
NoMsg  == [from |-> None, call |-> None, nonce |-> None, gas |-> None]
Signed == [from : Senders, call : Calls, nonce : Nonces, gas : Gases]
Messages == [from : Senders \cup {None}, call : Calls \cup {None},
             nonce : Nonces \cup {None}, gas : Gases \cup {None}]

-----------------------------------------------------------------------------
(* JSON-RPC: what request makes of a response. *)

\* A response body that parses or not, with the id and the version of the
\* request or not, with an error and a result.
Responses ==
  [parses : BOOLEAN, ours : BOOLEAN, error : {None, "unresolved", "other"}, result : BOOLEAN]

\* Mutant: a response without a result is a result.
OutcomeOfNull(r) ==
  IF ~r.parses \/ ~r.ours THEN "other" ELSE IF r.error # None THEN r.error ELSE "result"

\* Errors go before results, and null is no value of the types that are asked for.
Outcome(r) ==
  IF ~r.parses \/ ~r.ours THEN "other"
  ELSE IF r.error # None THEN r.error
  ELSE IF r.result THEN "result" ELSE "other"

\* The outcomes of a request that the node has, or has not, carried out.
Outcomes(done) == {Outcome(r) : r \in {x \in Responses : x.result => done}}

-----------------------------------------------------------------------------
(* The node (external). *)

Rivals(m) == {x \in pool : x.from = m.from /\ x.nonce = m.nonce}

\* Why a signed message is not taken into the mempool.  A message that pays more
\* replaces the one with its nonce.
Refusal(m, sig) ==
  IF sig # m THEN "signature"
  ELSE IF m.from \notin known THEN "unknown"
  ELSE IF m.nonce < seq[m.from] \/ \E x \in Rivals(m) : x.gas >= m.gas THEN "nonce"
  ELSE "none"

Take(p, m) ==
  /\ pool' = (pool \ Rivals(m)) \cup {m}
  /\ taken' = [q \in Callers |-> IF q = p \/ msg[q] = NoMsg THEN taken[q]
                                ELSE taken[q] \cup {<<m.from, m.nonce>>}]

NextNonce(s) == Min({n \in seq[s]..MaxNonce + 1 : \A x \in pool : x.from = s => x.nonce # n})

CreateActor(s) ==
  /\ s \notin known
  /\ known' = known \cup {s}
  /\ UNCHANGED <<seq, pool, mined, caller, taken, pushes, faults>>

Mine(m) ==
  /\ m \in pool /\ m.nonce = seq[m.from]
  /\ pool' = pool \ {m}
  /\ mined' = mined \cup {m}
  /\ seq' = [seq EXCEPT ![m.from] = @ + 1]
  /\ UNCHANGED <<known, caller, taken, pushes, faults>>

\* The last message of a sender goes back to the mempool.
Revert(m) ==
  /\ m \in mined /\ m.nonce = seq[m.from] - 1
  /\ faults < MaxFaults
  /\ faults' = faults + 1
  /\ mined' = mined \ {m}
  /\ pool' = pool \cup {m}
  /\ seq' = [seq EXCEPT ![m.from] = @ - 1]
  /\ UNCHANGED <<known, caller, taken, pushes>>

-----------------------------------------------------------------------------
(* The client. *)

Init ==
  /\ known \in SUBSET Senders
  /\ seq = [s \in Senders |-> 0]
  /\ pool = {} /\ mined = {}
  /\ step = [p \in Callers |-> "idle"]
  /\ msg = [p \in Callers |-> NoMsg]
  /\ signature = [p \in Callers |-> NoMsg]
  /\ answer = [p \in Callers |-> "none"]
  /\ cause = [p \in Callers |-> "none"]
  /\ taken = [p \in Callers |-> {}]
  /\ pushes = 0 /\ faults = 0

\* A caller pushes a message, with a nonce of its own or without one.
Starts(p, first) ==
  /\ step[p] = "idle" /\ pushes < MaxPushes
  /\ pushes' = pushes + 1
  /\ \E s \in Senders, k \in Calls, n \in {None, 0} :
       /\ msg' = [msg EXCEPT ![p] = [from |-> s, call |-> k, nonce |-> n, gas |-> None]]
       /\ step' = [step EXCEPT ![p] = IF first = "nonce" /\ n # None THEN "gas" ELSE first]
       /\ taken' = [taken EXCEPT ![p] = IF n = None THEN {} ELSE {<<s, n>>}]
  /\ signature' = [signature EXCEPT ![p] = NoMsg]
  /\ answer' = [answer EXCEPT ![p] = "none"]
  /\ cause' = [cause EXCEPT ![p] = "none"]
  /\ UNCHANGED <<chain, faults>>

StartPush(p)        == Starts(p, "nonce")
StartPushMessage(p) == Starts(p, "pushMessage")

Ends(p, result) ==
  /\ step' = [step EXCEPT ![p] = IF result = "cid" THEN "wait" ELSE "idle"]
  /\ answer' = [answer EXCEPT ![p] = result]
  /\ signature' = [signature EXCEPT ![p] = NoMsg]

\* The operation returns an error; its message is dropped.
Abandons(p) == Ends(p, "error") /\ msg' = [msg EXCEPT ![p] = NoMsg]

\* A request fails: it times out, or the outcome is an error.
Fails(p) ==
  /\ "other" \in Outcomes(FALSE)
  /\ faults < MaxFaults /\ faults' = faults + 1
  /\ Abandons(p)

\* mpool_nonce: the error that says that the sender has no actor means nonce 0
MpoolNonce(p) ==
  /\ step[p] = "nonce"
  /\ LET s == msg[p].from IN
     \/ /\ s \in known /\ NextNonce(s) \in Nonces /\ "result" \in Outcomes(TRUE)
        /\ msg' = [msg EXCEPT ![p].nonce = NextNonce(s)]
        /\ step' = [step EXCEPT ![p] = "gas"]
        /\ UNCHANGED <<signature, answer, faults>>
     \/ /\ s \notin known /\ "unresolved" \in Outcomes(FALSE)
        /\ msg' = [msg EXCEPT ![p].nonce = 0]
        /\ step' = [step EXCEPT ![p] = "gas"]
        /\ UNCHANGED <<signature, answer, faults>>
     \/ Fails(p)
  /\ taken' = [taken EXCEPT ![p] = {}]
  /\ UNCHANGED <<chain, cause, pushes>>

\* estimate_message_gas overwrites what the message says of gas; a missing
\* estimate is an error of the signature.
EstimateMessageGas(p) ==
  /\ step[p] = "gas"
  /\ \/ /\ \E g \in Gases \cup {None} : msg' = [msg EXCEPT ![p].gas = g]
        /\ step' = [step EXCEPT ![p] = "sign"]
        /\ UNCHANGED <<signature, answer, faults>>
     \/ Fails(p)
  /\ UNCHANGED <<chain, cause, taken, pushes>>

\* Mutant: the signature covers the message without its gas.
SignedFieldsNoGas(m) == [m EXCEPT !.gas = None]

SignedFields(m) == m

\* Mutant: a missing estimate is not noticed.
CompleteAlways(m) == TRUE

Complete(m) == m.nonce # None /\ m.gas # None

\* sign_mpool_message: with no key store, no key of the sender or a field that is
\* missing nothing is signed.  A gas limit, fee cap or premium beyond 64 bits is a
\* panic there, or when the push is encoded: nothing is pushed, and the operation
\* is over as after an error.
SignMpoolMessage(p) ==
  /\ step[p] = "sign"
  /\ \/ /\ Complete(msg[p])
        /\ signature' = [signature EXCEPT ![p] = SignedFields(msg[p])]
        /\ step' = [step EXCEPT ![p] = "push"]
        /\ UNCHANGED <<msg, answer>>
     \/ Abandons(p)
  /\ UNCHANGED <<chain, cause, taken, pushes, faults>>

\* mpool_push's last request; the node may have taken the message when it fails.
MpoolPush(p) ==
  /\ step[p] = "push"
  /\ LET why == Refusal(msg[p], signature[p]) IN
     \/ /\ why = "none"
        /\ Take(p, msg[p])
        /\ (Ends(p, "cid") /\ UNCHANGED <<msg, faults>>) \/ Fails(p)
        /\ UNCHANGED cause
     \/ /\ why # "none"
        /\ \E o \in Outcomes(FALSE) : Ends(p, IF o = "result" THEN "cid" ELSE "refused")
        /\ cause' = [cause EXCEPT ![p] = why]
        /\ UNCHANGED <<pool, taken, msg, faults>>
     \/ Fails(p) /\ UNCHANGED <<pool, taken, cause>>
  /\ UNCHANGED <<known, seq, mined, pushes>>

\* Mutant: a missing nonce is sent as 0.
FilledNonceZero(m) == IF m.nonce # None THEN m.nonce ELSE 0

\* A missing nonce is sent as null, which the node fills in.
FilledNonce(m) == IF m.nonce # None THEN m.nonce ELSE NextNonce(m.from)

\* mpool_push_message: the node fills in the nonce and the gas and signs, or
\* refuses.
MpoolPushMessage(p) ==
  /\ step[p] = "pushMessage"
  /\ \/ \E g \in Gases :
          LET m == [from |-> msg[p].from, call |-> msg[p].call,
                    nonce |-> FilledNonce(msg[p]), gas |-> g]
          IN /\ m.from \in known /\ m.nonce \in Nonces
             /\ Refusal(m, m) = "none"
             /\ Take(p, m)
             /\ \/ /\ Ends(p, "cid")
                   /\ msg' = [msg EXCEPT ![p] = m]
                   /\ UNCHANGED faults
                \/ Fails(p)
     \/ Abandons(p) /\ UNCHANGED <<pool, taken, faults>>
  /\ UNCHANGED <<known, seq, mined, cause, pushes>>

\* The messages whose execution answers a wait for m: replacements are allowed,
\* and a replacement is the same call with another gas.
Answers(m) == {x \in mined : x.from = m.from /\ x.nonce = m.nonce /\ x.call = m.call}

\* state_wait_msg, with confidence 0
StateWaitMsg(p) ==
  /\ step[p] = "wait"
  /\ \/ Answers(msg[p]) # {} /\ Ends(p, "receipt") /\ UNCHANGED msg
     \/ /\ \E x \in mined : x.from = msg[p].from /\ x.nonce = msg[p].nonce /\ x.call # msg[p].call
        /\ Abandons(p)
  /\ UNCHANGED <<chain, cause, taken, pushes, faults>>

\* Mutant: a request waits for its response without a limit.
TimeoutNever(p) == FALSE /\ UNCHANGED vars

\* DEFAULT_REQ_TIMEOUT ends the request that waits for a message.
Timeout(p) ==
  /\ step[p] = "wait"
  /\ Abandons(p)
  /\ UNCHANGED <<chain, cause, taken, pushes, faults>>

-----------------------------------------------------------------------------
Call(p) ==
  \/ MpoolNonce(p) \/ EstimateMessageGas(p) \/ SignMpoolMessage(p) \/ MpoolPush(p)
  \/ MpoolPushMessage(p) \/ StateWaitMsg(p) \/ Timeout(p)

Next ==
  \/ \E p \in Callers : StartPush(p) \/ StartPushMessage(p) \/ Call(p)
  \/ \E s \in Senders : CreateActor(s)
  \/ \E m \in pool : Mine(m)
  \/ \E m \in mined : Revert(m)

Spec == Init /\ [][Next]_vars /\ \A p \in Callers : WF_vars(Call(p))
-----------------------------------------------------------------------------
(* Correctness. *)

\* Types; a nonce or a fee is filled in once it is needed.
TypeOK ==
  /\ known \subseteq Senders
  /\ seq \in [Senders -> 0..MaxNonce + 1]
  /\ pool \subseteq Signed /\ mined \subseteq Signed
  /\ step \in [Callers -> {"idle", "nonce", "gas", "sign", "push", "pushMessage", "wait"}]
  /\ msg \in [Callers -> Messages] /\ signature \in [Callers -> Messages]
  /\ answer \in [Callers -> {"none", "error", "refused", "cid", "receipt"}]
  /\ cause \in [Callers -> {"none", "signature", "unknown", "nonce"}]
  /\ taken \in [Callers -> SUBSET (Senders \X Nonces)]
  /\ pushes \in 0..MaxPushes /\ faults \in 0..MaxFaults
  /\ \A p \in Callers : step[p] \in {"push", "wait"} => msg[p] \in Signed

\* A push that asks the node for its nonce is refused only because another
\* message has taken that nonce since, or the sender has no actor: what is
\* signed is what is pushed, and no error is taken for a nonce.
RefusedOnlyInARace ==
  \A p \in Callers :
    answer[p] = "refused" =>
      \/ cause[p] = "unknown"
      \/ cause[p] = "nonce" /\ <<msg[p].from, msg[p].nonce>> \in taken[p]

\* The wait accepts the receipt of a replacement.  Two callers that were given
\* the receipt of one execution raced for its nonce: each of them had its nonce
\* (read, or given by the caller) before the other's message was taken.
SharedReceiptNeedsARace ==
  \A p, q \in Callers :
    p # q /\ answer[p] = "receipt" /\ answer[q] = "receipt"
    /\ msg[p].from = msg[q].from /\ msg[p].nonce = msg[q].nonce
    => <<msg[p].from, msg[p].nonce>> \in taken[p] \cap taken[q]

\* A message that is reported as pushed is in the mempool or on the chain, or
\* another one has taken its nonce.
ReportedIsPushed ==
  \A p \in Callers : answer[p] = "cid" =>
    \/ msg[p] \in pool \cup mined
    \/ <<msg[p].from, msg[p].nonce>> \in taken[p]

\* Every operation ends, also the wait for a message that never is executed.
EveryCallEnds == \A p \in Callers : step[p] # "idle" ~> step[p] = "idle"
=============================================================================
