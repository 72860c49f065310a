------------------------------- MODULE Executor -------------------------------
(***************************************************************************)
(* The Flashbots executor of one chain (internal/executor/flashbots.go)    *)
(* with its nonce tracker (internal/chain/nonce.go), the relay and the     *)
(* inclusion of bundles.  The engine is the only caller, so one Execute    *)
(* runs at a time; the Executes of a behaviour are numbered.               *)
(*                                                                         *)
(* A bundle is one transaction for one block.  Bundles are private: the    *)
(* node's pending nonce counts the transactions in blocks only.  The       *)
(* wallet sends nothing else on this chain.  An Execute that fails before  *)
(* it has a nonce changes nothing and is left out.                         *)
(***************************************************************************)
EXTENDS Naturals, FiniteSets

CONSTANTS MaxExecutes,  \* bound: Executes that take a nonce
          MaxHeight     \* bound: blocks of the chain

ASSUME ExecutorAssumption == MaxExecutes \in Nat /\ MaxHeight \in Nat

VARIABLES
    init,       \* NonceTracker.init
    nonce,      \* NonceTracker.nonce
    pc,         \* where Execute is
    mine,       \* the bundle it prepares
    executes,   \* the number of the last Execute
    outcome,    \* outcome[i]: what Execute i returned
    relay,      \* bundles the relay holds
    account,    \* the account's nonce on chain
    height,     \* the chain's latest block
    landed      \* the Executes whose bundle is in a block

vars == <<init, nonce, pc, mine, executes, outcome, relay, account, height, landed>>

tracker == <<init, nonce>>
chain   == <<account, height, landed>>

Id     == 1..MaxExecutes
Nonce  == 0..MaxExecutes
Bundle == [id : Id, nonce : Nonce, target : 0..MaxHeight + 1]

Init ==
    /\ init = FALSE
    /\ nonce = 0
    /\ pc = "idle"
    /\ mine = [id |-> 0, nonce |-> 0, target |-> 0]
    /\ executes = 0
    /\ outcome = [i \in Id |-> "none"]
    /\ relay = {}
    /\ account = 0
    /\ height = 0
    /\ landed = {}

-----------------------------------------------------------------------------
(* Execute                                                                 *)

(* Execute prepares a transaction with nonce n; the tracker counts on.     *)
Take(n) ==
    /\ pc = "idle"
    /\ executes < MaxExecutes
    /\ executes' = executes + 1
    /\ init' = TRUE
    /\ nonce' = n + 1
    /\ mine' = [id |-> executes', nonce |-> n, target |-> 0]
    /\ pc' = "prepare"
    /\ UNCHANGED <<outcome, relay, chain>>

(* Mutant: the chain is asked each time.                                   *)
TakeAsked == Take(account)

(* Mutant: the answer of the chain is not stored.                          *)
TakeKept == Take(nonce)

(* Next hands out the tracker's nonce; a tracker that is not initialised   *)
(* asks the chain for the account's.                                       *)
TakeNonce == Take(IF init THEN nonce ELSE account)

(* The gas price, the signature, the block number or the encoding fails.   *)
(* There is no Reset: the nonce is lost.                                   *)
GiveUp ==
    /\ pc = "prepare"
    /\ outcome' = [outcome EXCEPT ![mine.id] = "gaveUp"]
    /\ pc' = "idle"
    /\ UNCHANGED <<tracker, mine, executes, relay, chain>>

(* Mutant: the block after the next is targeted.                           *)
TargetLater ==
    /\ pc = "prepare"
    /\ mine' = [mine EXCEPT !.target = height + 2]
    /\ pc' = "submit"
    /\ UNCHANGED <<tracker, executes, outcome, relay, chain>>

(* BlockNumber: the bundle is for the next block.                          *)
Target ==
    /\ pc = "prepare"
    /\ mine' = [mine EXCEPT !.target = height + 1]
    /\ pc' = "submit"
    /\ UNCHANGED <<tracker, executes, outcome, relay, chain>>

(* The relay answers 200: Execute returns Success.  The body is not read:  *)
(* with a JSON-RPC error in it the relay has not taken the bundle.         *)
Accepted ==
    /\ pc = "submit"
    /\ relay' \in {relay, relay \cup {mine}}
    /\ outcome' = [outcome EXCEPT ![mine.id] = "success"]
    /\ pc' = "idle"
    /\ UNCHANGED <<tracker, mine, executes, chain>>

(* submitBundle returns an error and the tracker is reset.  The relay may  *)
(* have taken the bundle: its answer was lost.                             *)
Refused ==
    /\ pc = "submit"
    /\ relay' \in {relay, relay \cup {mine}}
    /\ init' = FALSE
    /\ outcome' = [outcome EXCEPT ![mine.id] = "refused"]
    /\ pc' = "idle"
    /\ UNCHANGED <<nonce, mine, executes, chain>>

-----------------------------------------------------------------------------
(* The next block includes bundles made for it, in the order of their      *)
(* nonces and without a gap, one for each nonce.  The others have missed   *)
(* their block.                                                            *)
NewBlock ==
    /\ height < MaxHeight
    /\ height' = height + 1
    /\ \E inc \in SUBSET {b \in relay : b.target = height'} :
          /\ {b.nonce : b \in inc} = account..account + Cardinality(inc) - 1
          /\ account' = account + Cardinality(inc)
          /\ landed' = landed \cup {b.id : b \in inc}
    /\ relay' = {b \in relay : b.target > height'}
    /\ UNCHANGED <<tracker, pc, mine, executes, outcome>>

(* The bounds are reached.                                                 *)
Finished == /\ pc = "idle" /\ executes = MaxExecutes /\ height = MaxHeight
            /\ UNCHANGED vars

Next == \/ TakeNonce \/ GiveUp \/ Target \/ Accepted \/ Refused
        \/ NewBlock \/ Finished

Spec == Init /\ [][Next]_vars

-----------------------------------------------------------------------------
(* Every variable has its type, and a bundle is for the next block at most.*)
TypeOK ==
    /\ init \in BOOLEAN
    /\ nonce \in Nonce
    /\ pc \in {"idle", "prepare", "submit"}
    /\ mine \in [id : 0..MaxExecutes, nonce : Nonce, target : 0..MaxHeight + 1]
    /\ executes \in 0..MaxExecutes
    /\ outcome \in [Id -> {"none", "success", "refused", "gaveUp"}]
    /\ relay \subseteq Bundle
    /\ \A b \in relay \cup {mine} : b.target <= height + 1
    /\ account \in Nonce
    /\ height \in 0..MaxHeight
    /\ landed \subseteq Id

RefusedIn(i, j) == \E k \in i..j : k \in Id /\ outcome[k] = "refused"

(* A trade never takes the place of an earlier one that waits at the relay *)
(* (the same nonce or a lower one): only after a submission failed may     *)
(* that happen, because the reset tracker asks a node that does not know   *)
(* the private bundles.                                                    *)
NoReplacement ==
    \A a, b \in relay :
        a.id < b.id => a.nonce < b.nonce \/ RefusedIn(a.id, b.id - 1)

(* The tracker is never further ahead of the account than the Executes     *)
(* since the last reset that are not in a block: it makes no gap of its    *)
(* own, and a reset closes every gap there was.                            *)
Unlanded == {i \in 1..executes : i \notin landed /\ ~RefusedIn(i, executes)}
NoDrift == init => nonce <= account + Cardinality(Unlanded)

(* "Optionally executes on-chain": an Execute that returned Success can be *)
(* in its block, since every lower nonce is used or waits at the relay.    *)
SuccessCanLand ==
    \A b \in relay : outcome[b.id] = "success" =>
        \A n \in account..b.nonce - 1 : \E a \in relay : a.nonce = n
=============================================================================
