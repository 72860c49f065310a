---------------------------- MODULE ExecutorProofs ----------------------------
(***************************************************************************)
(* Theorems about Executor, for any number of trades and blocks: the       *)
(* types; without a failed submission in between, no trade takes the nonce *)
(* of an earlier one that waits at the relay; how far the tracker can be   *)
(* ahead of the account; and when a successful trade can land.             *)
(***************************************************************************)
EXTENDS Executor, FiniteSetTheorems, TLAPS

(* As much of the types as the argument needs.                             *)
Typing ==
    /\ init \in BOOLEAN
    /\ nonce \in Nat
    /\ pc \in {"idle", "prepare", "submit"}
    /\ mine \in [id : Nat, nonce : Nat, target : Nat]
    /\ executes \in Nat
    /\ outcome \in [Id -> {"none", "success", "refused", "gaveUp"}]
    /\ relay \subseteq [id : Id, nonce : Nat, target : Nat]
    /\ IsFiniteSet(relay)
    /\ account \in Nat
    /\ height \in Nat

Busy == pc # "idle"

(* An Execute that runs holds the last number and the last nonce.          *)
Latest ==
    Busy => /\ mine.id = executes
            /\ executes \in Id
            /\ init
            /\ nonce = mine.nonce + 1

(* The bundles at the relay and the outcomes belong to Executes that have  *)
(* returned.                                                               *)
Returned ==
    /\ \A b \in relay : b.id <= executes /\ (Busy => b.id < executes)
    /\ \A k \in Id : k > executes \/ (Busy /\ k = executes) => outcome[k] = "none"

(* A bundle at the relay that no failed submission has followed has a      *)
(* nonce below everything the tracker will hand out.                       *)
Below ==
    \A b \in relay :
        \/ RefusedIn(b.id, executes)
        \/ init /\ b.nonce < nonce /\ (Busy => b.nonce < mine.nonce)

IInv == Typing /\ Latest /\ Returned /\ Below /\ NoReplacement

(* A block adds a natural number of transactions to the account's nonce.   *)
LEMMA BlockCount ==
    ASSUME IsFiniteSet(relay), NEW inc \in SUBSET {b \in relay : b.target = height'}
    PROVE  Cardinality(inc) \in Nat
<1>1. inc \subseteq relay
  OBVIOUS
<1> QED BY <1>1, FS_Subset, FS_CardinalityType

LEMMA InitInv == Init => IInv
<1> SUFFICES ASSUME Init PROVE IInv
  OBVIOUS
<1>1. IsFiniteSet({})
  BY FS_EmptySet
<1> QED BY <1>1, ExecutorAssumption
    DEF Init, IInv, Typing, Latest, Returned, Below, NoReplacement, Busy, Id

LEMMA TakeInv == ASSUME IInv, TakeNonce PROVE IInv'
<1> DEFINE n == IF init THEN nonce ELSE account
<1> USE DEF Busy
<1>1. n \in Nat
  BY DEF IInv, Typing
<1>2. /\ pc = "idle" /\ pc' = "prepare"
      /\ executes < MaxExecutes /\ executes' = executes + 1
      /\ init' = TRUE /\ nonce' = n + 1
      /\ mine' = [id |-> executes', nonce |-> n, target |-> 0]
      /\ UNCHANGED <<outcome, relay, account, height>>
  BY DEF TakeNonce, Take, chain
<1> HIDE DEF n
<1>3. executes \in Nat /\ executes' \in Nat /\ executes' \in Id
  BY <1>2, ExecutorAssumption DEF IInv, Typing, Id
<1>4. Typing'
  BY <1>1, <1>2, <1>3 DEF IInv, Typing, Id
<1>5. Latest'
  BY <1>1, <1>2, <1>3 DEF Latest
<1>6. Returned'
  BY <1>2, <1>3 DEF IInv, Typing, Returned, Id
<1>7. Below'
  <2> SUFFICES ASSUME NEW b \in relay
               PROVE  (\E k \in b.id..executes' : k \in Id /\ outcome'[k] = "refused")
                      \/ (b.nonce < n + 1 /\ b.nonce < n)
    BY <1>2 DEF Below, RefusedIn
  <2>1. b.id \in Nat /\ b.nonce \in Nat
    BY DEF IInv, Typing, Id
  <2>2. CASE RefusedIn(b.id, executes)
    BY <2>1, <2>2, <1>2, <1>3 DEF RefusedIn
  <2>3. CASE init /\ b.nonce < nonce
    BY <2>1, <2>3, <1>1 DEF n
  <2> QED BY <2>2, <2>3 DEF IInv, Below
<1>8. NoReplacement'
  BY <1>2 DEF IInv, NoReplacement, RefusedIn
<1> QED BY <1>4, <1>5, <1>6, <1>7, <1>8 DEF IInv

LEMMA GiveUpInv == ASSUME IInv, GiveUp PROVE IInv'
<1> USE DEF Busy
<1>1. /\ pc = "prepare" /\ pc' = "idle"
      /\ outcome' = [outcome EXCEPT ![mine.id] = "gaveUp"]
      /\ UNCHANGED <<init, nonce, mine, executes, relay, account, height>>
  BY DEF GiveUp, tracker, chain
<1>2. mine.id = executes /\ executes \in Id /\ executes \in Nat /\ outcome[executes] = "none"
  BY <1>1 DEF IInv, Latest, Returned, Typing
<1>3. \A k \in Id : outcome[k] = "refused" => outcome'[k] = "refused"
  BY <1>1, <1>2 DEF IInv, Typing
<1>4. Typing' /\ Latest'
  BY <1>1, <1>2 DEF IInv, Typing, Latest
<1>5. Returned'
  BY <1>1, <1>2 DEF IInv, Typing, Returned, Id
<1>6. Below'
  BY <1>1, <1>3 DEF IInv, Below, RefusedIn
<1>7. NoReplacement'
  BY <1>1, <1>3 DEF IInv, NoReplacement, RefusedIn
<1> QED BY <1>4, <1>5, <1>6, <1>7 DEF IInv

LEMMA TargetInv == ASSUME IInv, Target PROVE IInv'
<1> USE DEF Busy
<1>1. /\ pc = "prepare" /\ pc' = "submit"
      /\ mine' = [mine EXCEPT !.target = height + 1]
      /\ UNCHANGED <<init, nonce, outcome, executes, relay, account, height>>
  BY DEF Target, tracker, chain
<1>2. mine'.id = mine.id /\ mine'.nonce = mine.nonce
  BY <1>1 DEF IInv, Typing
<1>3. Typing'
  BY <1>1 DEF IInv, Typing
<1>4. Latest' /\ Returned'
  BY <1>1, <1>2 DEF IInv, Latest, Returned
<1>5. Below' /\ NoReplacement'
  BY <1>1, <1>2 DEF IInv, Below, NoReplacement, RefusedIn
<1> QED BY <1>3, <1>4, <1>5 DEF IInv

(* The bundle that is submitted joins the relay behind the bundles there.  *)
LEMMA JoinKeepsOrder ==
    ASSUME IInv, pc = "submit", relay' \subseteq relay \cup {mine},
           \A k \in Id : outcome[k] = "refused" => outcome'[k] = "refused"
    PROVE  NoReplacement'
<1> USE DEF Busy
<1>1. /\ mine.id = executes /\ executes \in Id /\ executes \in Nat
      /\ outcome[executes] = "none" /\ mine.nonce \in Nat
  BY DEF IInv, Latest, Returned, Typing
<1> SUFFICES ASSUME NEW a \in relay', NEW b \in relay', a.id < b.id
             PROVE  \/ a.nonce < b.nonce
                    \/ \E k \in a.id..b.id - 1 : k \in Id /\ outcome'[k] = "refused"
  BY DEF NoReplacement, RefusedIn
<1>2. \A c \in relay : c.id \in Nat /\ c.id < executes
  BY DEF IInv, Typing, Returned, Id
<1>3. a \in relay
  BY <1>1, <1>2
<1>4. CASE b \in relay
  BY <1>3, <1>4 DEF IInv, NoReplacement, RefusedIn
<1>5. CASE b = mine /\ RefusedIn(a.id, executes)
  <2>1. PICK k \in a.id..executes : k \in Id /\ outcome[k] = "refused"
    BY <1>5 DEF RefusedIn
  <2>2. k # executes
    BY <2>1, <1>1
  <2>3. k \in a.id..b.id - 1
    BY <2>1, <2>2, <1>1, <1>2, <1>3, <1>5
  <2> QED BY <2>1, <2>3
<1>6. CASE b = mine /\ ~RefusedIn(a.id, executes)
  BY <1>3, <1>6 DEF IInv, Below
<1> QED BY <1>4, <1>5, <1>6

(* The bundle joins the relay behind every bundle that no failure follows, *)
(* if it joins it.                                                         *)
LEMMA AcceptedInv == ASSUME IInv, Accepted PROVE IInv'
<1> USE DEF Busy
<1>1. /\ pc = "submit" /\ pc' = "idle"
      /\ relay' \in {relay, relay \cup {mine}}
      /\ outcome' = [outcome EXCEPT ![mine.id] = "success"]
      /\ UNCHANGED <<init, nonce, mine, executes, account, height>>
  BY DEF Accepted, tracker, chain
<1>2. /\ mine.id = executes /\ executes \in Id /\ executes \in Nat
      /\ outcome[executes] = "none"
      /\ init /\ nonce = mine.nonce + 1 /\ mine.nonce \in Nat
  BY <1>1 DEF IInv, Latest, Returned, Typing
<1>3. \A k \in Id : outcome[k] = "refused" => outcome'[k] = "refused"
  BY <1>1, <1>2 DEF IInv, Typing
<1>4. Typing'
  <2>1. IsFiniteSet(relay')
    BY <1>1, FS_AddElement DEF IInv, Typing
  <2>2. relay' \subseteq [id : Id, nonce : Nat, target : Nat]
    BY <1>1, <1>2 DEF IInv, Typing
  <2> QED BY <2>1, <2>2, <1>1, <1>2 DEF IInv, Typing
<1>5. Latest'
  BY <1>1 DEF Latest
<1>6. Returned'
  BY <1>1, <1>2 DEF IInv, Typing, Returned, Id
<1>7. Below'
  BY <1>1, <1>2, <1>3 DEF IInv, Below, RefusedIn
<1>8. NoReplacement'
  BY <1>1, <1>3, JoinKeepsOrder
<1> QED BY <1>4, <1>5, <1>6, <1>7, <1>8 DEF IInv

(* A failed submission follows every bundle at the relay.                  *)
LEMMA RefusedInv == ASSUME IInv, Refused PROVE IInv'
<1> USE DEF Busy
<1>1. /\ pc = "submit" /\ pc' = "idle"
      /\ relay' \in {relay, relay \cup {mine}}
      /\ init' = FALSE
      /\ outcome' = [outcome EXCEPT ![mine.id] = "refused"]
      /\ UNCHANGED <<nonce, mine, executes, account, height>>
  BY DEF Refused, chain
<1>2. /\ mine.id = executes /\ executes \in Id /\ executes \in Nat
      /\ outcome[executes] = "none" /\ mine.nonce \in Nat
  BY <1>1 DEF IInv, Latest, Returned, Typing
<1>3. /\ \A k \in Id : outcome[k] = "refused" => outcome'[k] = "refused"
      /\ outcome'[executes] = "refused"
  BY <1>1, <1>2 DEF IInv, Typing
<1>4. Typing'
  <2>1. IsFiniteSet(relay')
    BY <1>1, FS_AddElement DEF IInv, Typing
  <2>2. relay' \subseteq [id : Id, nonce : Nat, target : Nat]
    BY <1>1, <1>2 DEF IInv, Typing
  <2> QED BY <2>1, <2>2, <1>1, <1>2 DEF IInv, Typing
<1>5. Latest'
  BY <1>1 DEF Latest
<1>6. Returned'
  BY <1>1, <1>2 DEF IInv, Typing, Returned, Id
<1>7. Below'
  <2> SUFFICES ASSUME NEW b \in relay'
               PROVE  \E k \in b.id..executes : k \in Id /\ outcome'[k] = "refused"
    BY <1>1 DEF Below, RefusedIn
  <2>1. b.id \in Nat /\ b.id <= executes
    BY <1>4, <1>6, <1>1 DEF Typing, Returned, Id
  <2> QED BY <2>1, <1>2, <1>3
<1>8. NoReplacement'
  BY <1>1, <1>3, JoinKeepsOrder
<1> QED BY <1>4, <1>5, <1>6, <1>7, <1>8 DEF IInv

LEMMA NewBlockInv == ASSUME IInv, NewBlock PROVE IInv'
<1> USE DEF Busy
<1>1. /\ height' = height + 1
      /\ \E inc \in SUBSET {b \in relay : b.target = height'} :
             account' = account + Cardinality(inc)
      /\ relay' \subseteq relay
      /\ UNCHANGED <<init, nonce, pc, mine, executes, outcome>>
  BY DEF NewBlock, tracker
<1>2. account' \in Nat
  BY <1>1, BlockCount DEF IInv, Typing
<1>3. IsFiniteSet(relay')
  BY <1>1, FS_Subset DEF IInv, Typing
<1>4. Typing'
  BY <1>1, <1>2, <1>3 DEF IInv, Typing
<1>5. Latest' /\ Returned'
  BY <1>1 DEF IInv, Latest, Returned
<1>6. Below' /\ NoReplacement'
  BY <1>1 DEF IInv, Below, NoReplacement, RefusedIn
<1> QED BY <1>4, <1>5, <1>6 DEF IInv

LEMMA StutterInv == ASSUME IInv, UNCHANGED vars PROVE IInv'
  BY DEF IInv, Typing, Latest, Returned, Below, NoReplacement, RefusedIn, Busy, vars

(* For any number of Executes and blocks: a trade never takes the nonce of *)
(* an earlier trade that waits at the relay, unless a submission failed    *)
(* and reset the tracker in between.                                       *)
THEOREM NoReplacementHolds == Spec => []NoReplacement
<1>1. IInv /\ [Next]_vars => IInv'
  BY TakeInv, GiveUpInv, TargetInv, AcceptedInv, RefusedInv, NewBlockInv, StutterInv
     DEF Next, Finished
<1>2. IInv => NoReplacement
  BY DEF IInv
<1> QED BY InitInv, <1>1, <1>2, PTL DEF Spec

-----------------------------------------------------------------------------
(* The bounds of the types and what the drift of the nonces is made of.    *)

(* A bundle is in a block at most once: what has landed does not wait, and *)
(* no two bundles at the relay are of one Execute.                         *)
Landings ==
    /\ landed \subseteq 1..executes
    /\ account = Cardinality(landed)
    /\ \A b \in relay : b.id \notin landed
    /\ Busy => mine.id \notin landed
    /\ \A a, b \in relay : a.id = b.id => a = b

(* No nonce is above the number of Executes that took one, and no bundle   *)
(* is for a block after the next.                                          *)
Bounds ==
    /\ executes <= MaxExecutes
    /\ nonce <= executes /\ mine.id <= executes /\ mine.nonce <= executes
    /\ \A b \in relay : b.nonce <= executes /\ b.target <= height + 1
    /\ mine.target <= height + 1
    /\ height <= MaxHeight

DriftInv == IInv /\ Landings /\ Bounds /\ NoDrift

(* What has landed and what may still land are apart and among the Executes.*)
LEMMA Sets ==
    ASSUME executes \in Nat, landed \subseteq 1..executes
    PROVE  /\ IsFiniteSet(landed) /\ Cardinality(landed) \in Nat
           /\ Cardinality(landed) <= executes
           /\ IsFiniteSet(Unlanded) /\ Cardinality(Unlanded) \in Nat
<1>1. IsFiniteSet(1..executes) /\ Cardinality(1..executes) = executes
  BY FS_Interval
<1>2. Unlanded \subseteq 1..executes
  BY DEF Unlanded
<1>3. IsFiniteSet(landed) /\ Cardinality(landed) <= executes
  BY <1>1, FS_Subset
<1>4. IsFiniteSet(Unlanded)
  BY <1>1, <1>2, FS_Subset
<1> QED BY <1>3, <1>4, FS_CardinalityType

(* The bundles of a block are as many as their Executes.                   *)
LEMMA OneBundleEach ==
    ASSUME NEW inc, IsFiniteSet(inc), \A a, b \in inc : a.id = b.id => a = b
    PROVE  LET ids == {b.id : b \in inc} IN
           IsFiniteSet(ids) /\ Cardinality(ids) = Cardinality(inc)
<1> DEFINE ids == {b.id : b \in inc}
           f == [b \in inc |-> b.id]
<1>1. f \in Bijection(inc, ids)
  <2>1. f \in [inc -> ids]
    OBVIOUS
  <2>2. \A a, b \in inc : f[a] = f[b] => a = b
    OBVIOUS
  <2>3. \A i \in ids : \E b \in inc : f[b] = i
    OBVIOUS
  <2> HIDE DEF f, ids
  <2> QED BY <2>1, <2>2, <2>3 DEF Bijection, Injection, Surjection, IsInjective
<1>2. ExistsBijection(inc, ids)
  BY <1>1 DEF ExistsBijection
<1> HIDE DEF ids
<1>3. IsFiniteSet(ids) /\ Cardinality(ids) = Cardinality(inc)
  BY <1>2, FS_Bijection
<1> QED BY <1>3 DEF ids

LEMMA InitDrift == Init => DriftInv
<1> SUFFICES ASSUME Init PROVE DriftInv
  OBVIOUS
<1>1. IInv
  BY InitInv
<1>2. Cardinality({}) = 0
  BY FS_EmptySet
<1>3. Landings
  BY <1>2 DEF Init, Landings, Busy
<1>4. Bounds /\ NoDrift
  BY ExecutorAssumption DEF Init, Bounds, NoDrift
<1> QED BY <1>1, <1>3, <1>4 DEF DriftInv

(* The new Execute is one more that may still land.                        *)
LEMMA TakeDrift == ASSUME DriftInv, TakeNonce PROVE DriftInv'
<1> DEFINE n == IF init THEN nonce ELSE account
<1> USE DEF Busy
<1>1. IInv'
  BY TakeInv DEF DriftInv
<1>2. /\ pc = "idle" /\ pc' = "prepare"
      /\ executes < MaxExecutes /\ executes' = executes + 1
      /\ init' = TRUE /\ nonce' = n + 1
      /\ mine' = [id |-> executes', nonce |-> n, target |-> 0]
      /\ UNCHANGED <<outcome, relay, account, height, landed>>
  BY DEF TakeNonce, Take, chain
<1>3. /\ executes \in Nat /\ nonce \in Nat /\ account \in Nat /\ height \in Nat
      /\ landed \subseteq 1..executes /\ account = Cardinality(landed)
      /\ nonce <= executes
  BY DEF DriftInv, IInv, Typing, Landings, Bounds
<1>4. /\ IsFiniteSet(Unlanded) /\ Cardinality(Unlanded) \in Nat
      /\ account <= executes
  BY <1>3, Sets
<1>5. n \in Nat /\ n <= executes
  BY <1>3, <1>4
<1>6. \A b \in relay : b.id \in Nat /\ b.id <= executes /\ b.nonce \in Nat
  BY DEF DriftInv, IInv, Typing, Returned, Id
<1>7. Landings'
  <2>1. landed' \subseteq 1..executes' /\ executes' \notin landed
    BY <1>2, <1>3
  <2> QED BY <2>1, <1>2, <1>6 DEF DriftInv, Landings
<1>8. Bounds'
  <2>1. \A b \in relay : b.nonce <= executes /\ b.target <= height + 1
    BY DEF DriftInv, Bounds
  <2> HIDE DEF n
  <2>2. nonce' <= executes' /\ mine'.id <= executes' /\ mine'.nonce <= executes'
    BY <1>2, <1>3, <1>5
  <2>3. \A b \in relay' : b.nonce <= executes' /\ b.target <= height' + 1
    BY <2>1, <1>2, <1>3, <1>6
  <2> QED BY <2>2, <2>3, <1>2, <1>3, ExecutorAssumption DEF DriftInv, Bounds
<1>9. Unlanded' = Unlanded \cup {executes'}
  <2>1. \A k \in Id : k > executes => outcome[k] # "refused"
    BY <1>2 DEF DriftInv, IInv, Returned
  <2>2. \A i \in Nat : RefusedIn(i, executes)' <=> RefusedIn(i, executes)
    BY <2>1, <1>2, <1>3 DEF RefusedIn, Id
  <2>3. ~RefusedIn(executes', executes) /\ executes' \notin landed
    BY <1>2, <1>3 DEF RefusedIn
  <2>4. 1..executes' = (1..executes) \cup {executes'}
    BY <1>2, <1>3
  <2>5. Unlanded' = {i \in 1..executes' : i \notin landed /\ ~RefusedIn(i, executes)}
    BY <2>2, <1>2, <1>3 DEF Unlanded
  <2> QED BY <2>3, <2>4, <2>5 DEF Unlanded
<1>10. Cardinality(Unlanded') = Cardinality(Unlanded) + 1
  <2>1. executes' \notin Unlanded
    BY <1>2, <1>3 DEF Unlanded
  <2> QED BY <2>1, <1>4, <1>9, FS_AddElement
<1>11. NoDrift'
  <2>1. init => nonce <= account + Cardinality(Unlanded)
    BY DEF DriftInv, NoDrift
  <2>2. nonce' <= account + Cardinality(Unlanded')
    BY <2>1, <1>2, <1>3, <1>4, <1>10
  <2> QED BY <2>2, <1>2 DEF NoDrift
<1> QED BY <1>1, <1>7, <1>8, <1>11 DEF DriftInv

(* What may still land does not change when an Execute returns without a   *)
(* failed submission.                                                      *)
LEMMA SameUnlanded ==
    ASSUME UNCHANGED <<executes, landed>>,
           \A k \in Id : (outcome[k] = "refused") <=> (outcome'[k] = "refused")
    PROVE  Unlanded' = Unlanded
<1>1. \A i : RefusedIn(i, executes)' <=> RefusedIn(i, executes)
  BY DEF RefusedIn
<1> QED BY <1>1 DEF Unlanded

LEMMA GiveUpDrift == ASSUME DriftInv, GiveUp PROVE DriftInv'
<1> USE DEF Busy
<1>1. IInv'
  BY GiveUpInv DEF DriftInv
<1>2. /\ pc = "prepare" /\ pc' = "idle"
      /\ outcome' = [outcome EXCEPT ![mine.id] = "gaveUp"]
      /\ UNCHANGED <<init, nonce, mine, executes, relay, account, height, landed>>
  BY DEF GiveUp, tracker, chain
<1>3. \A k \in Id : (outcome[k] = "refused") <=> (outcome'[k] = "refused")
  BY <1>2 DEF DriftInv, IInv, Typing, Latest, Returned
<1>4. Landings' /\ Bounds'
  BY <1>2 DEF DriftInv, Landings, Bounds
<1>5. NoDrift'
  BY <1>2, <1>3, SameUnlanded DEF DriftInv, NoDrift
<1> QED BY <1>1, <1>4, <1>5 DEF DriftInv

LEMMA TargetDrift == ASSUME DriftInv, Target PROVE DriftInv'
<1> USE DEF Busy
<1>1. IInv'
  BY TargetInv DEF DriftInv
<1>2. /\ pc = "prepare" /\ pc' = "submit"
      /\ mine' = [mine EXCEPT !.target = height + 1]
      /\ UNCHANGED <<init, nonce, outcome, executes, relay, account, height, landed>>
  BY DEF Target, tracker, chain
<1>3. /\ mine'.id = mine.id /\ mine'.nonce = mine.nonce
      /\ mine'.target = height + 1 /\ height \in Nat
  BY <1>2 DEF DriftInv, IInv, Typing
<1>4. Landings'
  BY <1>2, <1>3 DEF DriftInv, Landings
<1>5. Bounds'
  BY <1>2, <1>3 DEF DriftInv, Bounds
<1>6. NoDrift'
  BY <1>2, SameUnlanded DEF DriftInv, NoDrift
<1> QED BY <1>1, <1>4, <1>5, <1>6 DEF DriftInv

(* The bundle that is submitted is the only one of its Execute.            *)
LEMMA JoinDrift ==
    ASSUME DriftInv, IInv', pc = "submit", pc' = "idle",
           relay' \subseteq relay \cup {mine},
           UNCHANGED <<nonce, mine, executes, account, height, landed>>
    PROVE  Landings' /\ Bounds'
<1> USE DEF Busy
<1>1. /\ mine.id = executes /\ mine.id \notin landed /\ mine.id \in Nat
      /\ mine.nonce <= executes /\ mine.target <= height + 1
  BY DEF DriftInv, IInv, Typing, Latest, Landings, Bounds
<1>2. \A b \in relay : b.id # mine.id
  BY <1>1 DEF DriftInv, IInv, Typing, Returned, Id
<1>3. Landings'
  BY <1>1, <1>2 DEF DriftInv, Landings
<1>4. Bounds'
  BY <1>1 DEF DriftInv, Bounds
<1> QED BY <1>3, <1>4

LEMMA AcceptedDrift == ASSUME DriftInv, Accepted PROVE DriftInv'
<1> USE DEF Busy
<1>1. IInv'
  BY AcceptedInv DEF DriftInv
<1>2. /\ pc = "submit" /\ pc' = "idle"
      /\ relay' \in {relay, relay \cup {mine}}
      /\ outcome' = [outcome EXCEPT ![mine.id] = "success"]
      /\ UNCHANGED <<init, nonce, mine, executes, account, height, landed>>
  BY DEF Accepted, tracker, chain
<1>3. \A k \in Id : (outcome[k] = "refused") <=> (outcome'[k] = "refused")
  BY <1>2 DEF DriftInv, IInv, Typing, Latest, Returned
<1>4. Landings' /\ Bounds'
  BY <1>1, <1>2, JoinDrift
<1>5. NoDrift'
  BY <1>2, <1>3, SameUnlanded DEF DriftInv, NoDrift
<1> QED BY <1>1, <1>4, <1>5 DEF DriftInv

(* The reset tracker is not initialised: it will ask for the account's     *)
(* nonce.                                                                  *)
LEMMA RefusedDrift == ASSUME DriftInv, Refused PROVE DriftInv'
<1>1. IInv'
  BY RefusedInv DEF DriftInv
<1>2. /\ pc = "submit" /\ pc' = "idle" /\ init' = FALSE
      /\ relay' \subseteq relay \cup {mine}
      /\ UNCHANGED <<nonce, mine, executes, account, height, landed>>
  BY DEF Refused, chain
<1>3. Landings' /\ Bounds'
  BY <1>1, <1>2, JoinDrift
<1>4. NoDrift'
  BY <1>2 DEF NoDrift
<1> QED BY <1>1, <1>3, <1>4 DEF DriftInv

(* A block moves as many Executes from those that may land to those that   *)
(* have landed as it adds to the account's nonce.                          *)
LEMMA NewBlockDrift == ASSUME DriftInv, NewBlock PROVE DriftInv'
<1> USE DEF Busy
<1>1. IInv'
  BY NewBlockInv DEF DriftInv
<1>2. /\ height < MaxHeight /\ height' = height + 1
      /\ relay' = {b \in relay : b.target > height'}
      /\ UNCHANGED <<init, nonce, pc, mine, executes, outcome>>
  BY DEF NewBlock, tracker
<1>3. PICK inc \in SUBSET {b \in relay : b.target = height'} :
         /\ account' = account + Cardinality(inc)
         /\ landed' = landed \cup {b.id : b \in inc}
  BY DEF NewBlock
<1> DEFINE ids == {b.id : b \in inc}
<1>4. inc \subseteq relay /\ \A b \in inc : b.target = height'
  BY <1>3
<1>5. /\ executes \in Nat /\ account \in Nat /\ nonce \in Nat /\ height \in Nat
      /\ IsFiniteSet(relay)
      /\ landed \subseteq 1..executes /\ account = Cardinality(landed)
  BY DEF DriftInv, IInv, Typing, Landings
<1>6. /\ IsFiniteSet(landed) /\ Cardinality(landed) \in Nat
      /\ IsFiniteSet(Unlanded) /\ Cardinality(Unlanded) \in Nat
  BY <1>5, Sets
<1>7. IsFiniteSet(inc) /\ Cardinality(inc) \in Nat
  BY <1>4, <1>5, FS_Subset, FS_CardinalityType
<1>8. IsFiniteSet(ids) /\ Cardinality(ids) = Cardinality(inc)
  BY <1>4, <1>7, OneBundleEach DEF DriftInv, Landings
<1>9. ids \subseteq 1..executes /\ ids \cap landed = {}
  <2>1. \A b \in inc : b.id \in Nat /\ 1 <= b.id /\ b.id <= executes /\ b.id \notin landed
    BY <1>4 DEF DriftInv, IInv, Typing, Returned, Landings, Id
  <2> QED BY <2>1, <1>5
<1>10. \A b \in relay' : b \in relay /\ b.id \notin ids /\ b.target > height'
  <2>1. \A b \in relay : b.target \in Nat
    BY DEF DriftInv, IInv, Typing
  <2>2. \A a \in inc, b \in relay : a.id = b.id => a = b
    BY <1>4 DEF DriftInv, Landings
  <2>3. \A b \in relay' : b \in relay /\ b.target > height'
    BY <1>2
  <2>4. \A b \in relay' : b \notin inc
    BY <2>1, <2>3, <1>2, <1>4, <1>5
  <2> QED BY <2>2, <2>3, <2>4
<1>11. Busy => mine.id \notin ids
  BY <1>4 DEF DriftInv, IInv, Typing, Returned, Latest, Id
<1> HIDE DEF ids
<1>12. landed' = landed \cup ids
  BY <1>3 DEF ids
<1>13. Cardinality(landed \cup ids) = Cardinality(landed) + Cardinality(ids)
  <2>1. Cardinality(landed \cup ids)
          = Cardinality(landed) + Cardinality(ids) - Cardinality(landed \cap ids)
    BY <1>6, <1>8, FS_Union
  <2>2. landed \cap ids = {}
    BY <1>9
  <2>3. Cardinality(landed \cap ids) = 0
    BY <2>2, FS_EmptySet
  <2> QED BY <2>1, <2>3, <1>6, <1>7, <1>8
<1>14. Landings'
  <2>1. landed' \subseteq 1..executes' /\ account' = Cardinality(landed')
    BY <1>2, <1>3, <1>5, <1>8, <1>9, <1>12, <1>13
  <2>2. \A b \in relay' : b.id \notin landed'
    BY <1>10, <1>12 DEF DriftInv, Landings
  <2>3. (Busy => mine.id \notin landed)'
    BY <1>2, <1>11, <1>12 DEF DriftInv, Landings
  <2>4. \A a, b \in relay' : a.id = b.id => a = b
    BY <1>10 DEF DriftInv, Landings
  <2> QED BY <2>1, <2>2, <2>3, <2>4 DEF Landings
<1>15. Bounds'
  <2>1. \A b \in relay' : b.nonce <= executes /\ b.target <= height + 1 /\ b.target \in Nat
    BY <1>10 DEF DriftInv, IInv, Typing, Bounds
  <2>2. mine.target \in Nat /\ mine.target <= height + 1 /\ height' <= MaxHeight
    BY <1>2, <1>5, ExecutorAssumption DEF DriftInv, IInv, Typing, Bounds
  <2>3. mine'.target <= height' + 1 /\ \A b \in relay' : b.target <= height' + 1
    BY <2>1, <2>2, <1>2, <1>5
  <2> QED BY <2>1, <2>2, <2>3, <1>2 DEF DriftInv, Bounds
<1>16. NoDrift'
  <2>1. Unlanded' = Unlanded \ ids
    <3>1. \A i : RefusedIn(i, executes)' <=> RefusedIn(i, executes)
      BY <1>2 DEF RefusedIn
    <3> QED BY <3>1, <1>2, <1>12 DEF Unlanded
  <2>2. Cardinality(Unlanded \ ids) = Cardinality(Unlanded) - Cardinality(Unlanded \cap ids)
    BY <1>6, FS_Difference
  <2>3. /\ Cardinality(Unlanded \cap ids) \in Nat
        /\ Cardinality(Unlanded \cap ids) <= Cardinality(ids)
    <3>1. IsFiniteSet(Unlanded \cap ids) /\ Cardinality(Unlanded \cap ids) <= Cardinality(ids)
      BY <1>8, FS_Intersection
    <3> QED BY <3>1, FS_CardinalityType
  <2>4. init => nonce <= account + Cardinality(Unlanded)
    BY DEF DriftInv, NoDrift
  <2>5. init => nonce <= account' + Cardinality(Unlanded')
    BY <2>1, <2>2, <2>3, <2>4, <1>3, <1>5, <1>6, <1>7, <1>8
  <2> QED BY <2>5, <1>2 DEF NoDrift
<1> QED BY <1>1, <1>14, <1>15, <1>16 DEF DriftInv

LEMMA DriftInvStep == DriftInv /\ [Next]_vars => DriftInv'
<1>1. ASSUME DriftInv, UNCHANGED vars PROVE DriftInv'
  <2>1. IInv' /\ Unlanded' = Unlanded
    BY <1>1, StutterInv, SameUnlanded DEF DriftInv, vars
  <2> QED BY <2>1, <1>1 DEF DriftInv, Landings, Bounds, NoDrift, Busy, vars
<1> QED BY <1>1, TakeDrift, GiveUpDrift, TargetDrift, AcceptedDrift, RefusedDrift, NewBlockDrift
        DEF Next, Finished

(* For any number of Executes and blocks: between two resets the tracker   *)
(* is never further ahead of the account than the Executes that may still  *)
(* land, so it makes no gap of its own and a reset closes every gap.       *)
THEOREM NoDriftHolds == Spec => []NoDrift
<1>1. DriftInv => NoDrift
  BY DEF DriftInv
<1> QED BY InitDrift, DriftInvStep, <1>1, PTL DEF Spec

(* The types, with their bounds: no nonce, on chain or handed out, passes  *)
(* the number of Executes, and no bundle is for a block after the next.    *)
THEOREM ExecutorTypes == Spec => []TypeOK
<1>1. ASSUME DriftInv PROVE TypeOK
  <2>1. /\ executes \in 0..MaxExecutes /\ height \in 0..MaxHeight
        /\ nonce \in 0..MaxExecutes
        /\ landed \subseteq 1..executes /\ executes \in Nat
    BY <1>1, ExecutorAssumption DEF DriftInv, IInv, Typing, Bounds, Landings
  <2>2. account \in 0..MaxExecutes
    BY <1>1, <2>1, Sets, ExecutorAssumption DEF DriftInv, Landings
  <2>3. \A b \in relay \cup {mine} : b.target <= height + 1
    BY <1>1 DEF DriftInv, Bounds
  <2>4. mine \in [id : 0..MaxExecutes, nonce : Nonce, target : 0..MaxHeight + 1]
    BY <1>1, <2>1, <2>3, ExecutorAssumption DEF DriftInv, IInv, Typing, Bounds, Nonce
  <2>5. relay \subseteq Bundle
    <3>1. \A b \in relay : b.nonce \in Nonce /\ b.target \in 0..MaxHeight + 1
      BY <1>1, <2>1, <2>3, ExecutorAssumption DEF DriftInv, IInv, Typing, Bounds, Nonce
    <3>2. relay \subseteq [id : Id, nonce : Nat, target : Nat]
      BY <1>1 DEF DriftInv, IInv, Typing
    <3> QED BY <3>1, <3>2 DEF Bundle
  <2>6. landed \subseteq Id
    BY <2>1, ExecutorAssumption DEF Id
  <2> QED BY <1>1, <2>1, <2>2, <2>3, <2>4, <2>5, <2>6 DEF TypeOK, DriftInv, IInv, Typing, Nonce
<1> QED BY InitDrift, DriftInvStep, <1>1, PTL DEF Spec
-----------------------------------------------------------------------------
(* When a successful trade can land.                                       *)

(* Nothing has failed: no Execute gave up its nonce, no submission was     *)
(* refused, and no bundle that was reported as a success was kept out of   *)
(* the relay or has missed its block.                                      *)
Smooth ==
    /\ \A i \in Id : outcome[i] \in {"none", "success"}
    /\ \A i \in Id : outcome[i] = "success" => i \in landed \/ \E b \in relay : b.id = i

(* Every nonce below Top is handed out and no longer prepared.             *)
Top == IF Busy THEN mine.nonce ELSE nonce

(* Until something fails the bundles at the relay continue the account's   *)
(* nonces up to the tracker's without a gap.                               *)
Line ==
    /\ \A b \in relay : outcome[b.id] \in {"success", "refused"}
    /\ Smooth => /\ init \/ executes = 0
                 /\ \A n \in account..Top - 1 : \E a \in relay : a.nonce = n

LEMMA TakeLine == ASSUME DriftInv, Line, TakeNonce PROVE Line'
<1>1. /\ pc = "idle" /\ pc' = "prepare" /\ executes' = executes + 1 /\ init' = TRUE
      /\ mine'.nonce = IF init THEN nonce ELSE account
      /\ UNCHANGED <<outcome, relay, account, height, landed>>
  BY DEF TakeNonce, Take, chain
<1>2. Smooth' <=> Smooth
  BY <1>1 DEF Smooth
<1>3. Top' = (IF init THEN nonce ELSE account) /\ Top = nonce
  BY <1>1 DEF Top, Busy
<1>4. account \in Nat
  BY DEF DriftInv, IInv, Typing
<1>5. ASSUME Smooth, NEW n \in account..Top' - 1 PROVE \E a \in relay : a.nonce = n
  <2>1. init
    BY <1>3, <1>4, <1>5
  <2> QED BY <2>1, <1>3, <1>5 DEF Line
<1> QED BY <1>1, <1>2, <1>5 DEF Line

(* A failure ends the smooth run.                                          *)
LEMMA FailureLine ==
    ASSUME DriftInv, Line, Busy, relay' \subseteq relay \cup {mine},
           NEW o \in {"gaveUp", "refused"}, outcome' = [outcome EXCEPT ![mine.id] = o],
           o = "gaveUp" => relay' = relay
    PROVE  Line'
<1>1. /\ mine.id \in Id /\ outcome \in [Id -> {"none", "success", "refused", "gaveUp"}]
      /\ \A b \in relay : b.id \in Id /\ b.id # mine.id
  BY DEF DriftInv, IInv, Typing, Latest, Returned, Id
<1>2. outcome'[mine.id] = o /\ \A k \in Id : k # mine.id => outcome'[k] = outcome[k]
  BY <1>1
<1>3. ~Smooth'
  BY <1>1, <1>2 DEF Smooth
<1>4. \A b \in relay' : outcome'[b.id] \in {"success", "refused"}
  BY <1>1, <1>2 DEF Line
<1> QED BY <1>3, <1>4 DEF Line

LEMMA AcceptedLine == ASSUME DriftInv, Line, Accepted PROVE Line'
<1>1. /\ pc = "submit" /\ pc' = "idle" /\ relay' \in {relay, relay \cup {mine}}
      /\ outcome' = [outcome EXCEPT ![mine.id] = "success"]
      /\ UNCHANGED <<init, nonce, mine, executes, account, height, landed>>
  BY DEF Accepted, tracker, chain
<1>2. /\ mine.id \in Id /\ outcome \in [Id -> {"none", "success", "refused", "gaveUp"}]
      /\ outcome[mine.id] = "none" /\ init
      /\ nonce = mine.nonce + 1 /\ mine.nonce \in Nat /\ account \in Nat
      /\ \A b \in relay : b.id \in Id /\ b.id # mine.id
  BY <1>1 DEF DriftInv, IInv, Typing, Latest, Returned, Busy, Id
<1>3. outcome'[mine.id] = "success" /\ \A k \in Id : k # mine.id => outcome'[k] = outcome[k]
  BY <1>1, <1>2
<1>4. \A b \in relay' : outcome'[b.id] \in {"success", "refused"}
  BY <1>1, <1>2, <1>3 DEF Line
<1>5. Smooth' => Smooth /\ mine \in relay'
  <2>1. ASSUME Smooth' PROVE Smooth
    BY <1>1, <1>2, <1>3, <2>1 DEF Smooth
  <2>2. ASSUME Smooth' PROVE mine \in relay'
    <3>1. mine.id \notin landed'
      BY <1>1 DEF DriftInv, Landings, Busy
    <3>2. \E b \in relay' : b.id = mine.id
      BY <1>2, <1>3, <2>2, <3>1 DEF Smooth
    <3> QED BY <1>1, <1>2, <3>2
  <2> QED BY <2>1, <2>2
<1>6. Top = mine.nonce /\ Top' = mine.nonce + 1
  BY <1>1, <1>2 DEF Top, Busy
<1>7. ASSUME Smooth, mine \in relay', NEW n \in account..Top' - 1
      PROVE  \E a \in relay' : a.nonce = n
  <2>1. n = mine.nonce \/ n \in account..Top - 1
    BY <1>2, <1>6, <1>7
  <2> QED BY <2>1, <1>1, <1>7 DEF Line
<1> QED BY <1>1, <1>2, <1>4, <1>5, <1>7 DEF Line

(* Where no bundle misses its block, a block takes those with the lowest   *)
(* nonces and leaves the others.                                           *)
LEMMA NewBlockLine == ASSUME DriftInv, Line, NewBlock PROVE Line'
<1>1. /\ height' = height + 1 /\ relay' = {b \in relay : b.target > height'}
      /\ UNCHANGED <<init, nonce, pc, mine, executes, outcome>>
  BY DEF NewBlock, tracker
<1>2. PICK inc \in SUBSET {b \in relay : b.target = height'} :
         /\ {b.nonce : b \in inc} = account..account + Cardinality(inc) - 1
         /\ account' = account + Cardinality(inc)
         /\ landed' = landed \cup {b.id : b \in inc}
  BY DEF NewBlock
<1>3. /\ inc \subseteq relay /\ relay' \subseteq relay /\ account \in Nat
      /\ \A b \in relay : b.id \in Id /\ b.id \notin landed
      /\ \A a, b \in relay : a.id = b.id => a = b
  BY <1>1, <1>2 DEF DriftInv, IInv, Typing, Landings
<1>4. Cardinality(inc) \in Nat
  BY <1>2, BlockCount DEF DriftInv, IInv, Typing
<1>5. Top' = Top
  BY <1>1 DEF Top, Busy
<1>6. ASSUME Smooth' PROVE Smooth
  BY <1>1, <1>2, <1>3, <1>6 DEF Smooth
<1>7. ASSUME Smooth', NEW n \in account'..Top - 1 PROVE \E a \in relay' : a.nonce = n
  <2>1. Top \in Int
    BY DEF Top, DriftInv, IInv, Typing
  <2>2. n \in account..Top - 1
    BY <2>1, <1>2, <1>3, <1>4, <1>7
  <2>3. PICK a \in relay : a.nonce = n
    BY <2>2, <1>6, <1>7 DEF Line
  <2>4. a \notin inc
    <3>1. n \notin account..account + Cardinality(inc) - 1
      BY <1>2, <1>3, <1>4, <1>7
    <3> QED BY <3>1, <2>3, <1>2
  <2>5. outcome'[a.id] = "success"
    BY <1>1, <1>3, <1>7 DEF Line, Smooth
  <2>6. a.id \in landed' \/ \E b \in relay' : b.id = a.id
    BY <2>5, <1>3, <1>7 DEF Smooth
  <2>7. a.id \notin landed'
    BY <2>4, <1>2, <1>3
  <2>8. a \in relay'
    BY <2>6, <2>7, <1>3
  <2> QED BY <2>3, <2>8
<1> QED BY <1>1, <1>3, <1>5, <1>6, <1>7 DEF Line

LEMMA LineStep == DriftInv /\ Line /\ [Next]_vars => Line'
<1>1. ASSUME DriftInv, Line, GiveUp PROVE Line'
  BY <1>1, FailureLine DEF GiveUp, Busy
<1>2. ASSUME DriftInv, Line, Refused PROVE Line'
  <2>1. /\ Busy /\ relay' \subseteq relay \cup {mine}
        /\ outcome' = [outcome EXCEPT ![mine.id] = "refused"]
    BY <1>2 DEF Refused, Busy
  <2> QED BY <2>1, <1>2, FailureLine
<1>3. ASSUME DriftInv, Line, Target PROVE Line'
  <2>1. /\ pc = "prepare" /\ pc' = "submit" /\ mine' = [mine EXCEPT !.target = height + 1]
        /\ UNCHANGED <<init, nonce, executes, outcome, relay, account, landed>>
    BY <1>3 DEF Target, tracker, chain
  <2>2. mine'.nonce = mine.nonce
    BY <2>1, <1>3 DEF DriftInv, IInv, Typing
  <2> QED BY <2>1, <2>2, <1>3 DEF Line, Smooth, Top, Busy
<1>4. ASSUME DriftInv, Line, UNCHANGED vars PROVE Line'
  BY <1>4 DEF vars, Line, Smooth, Top, Busy
<1> QED BY <1>1, <1>2, <1>3, <1>4, TakeLine, AcceptedLine, NewBlockLine DEF Next, Finished

(* A success that cannot land needs a failure before it: as long as no     *)
(* Execute has lost its nonce (flashbots.go, between Next and              *)
(* submitBundle), no submission has failed, and the relay has taken each   *)
(* bundle it answered 200 for (flashbots.go:171) and no bundle has missed  *)
(* its block, each successful trade can land.                              *)
THEOREM SmoothSuccessLands == Spec => [](Smooth => SuccessCanLand)
<1>1. Init => Line
  <2> SUFFICES ASSUME Init PROVE Line
    OBVIOUS
  <2>1. account = 0 /\ Top = 0 /\ relay = {} /\ executes = 0
    BY DEF Init, Top, Busy
  <2> QED BY <2>1 DEF Line
<1>2. DriftInv /\ Line => (Smooth => SuccessCanLand)
  <2> SUFFICES ASSUME DriftInv, Line, Smooth, NEW b \in relay, NEW n \in account..b.nonce - 1
               PROVE  \E a \in relay : a.nonce = n
    BY DEF SuccessCanLand
  <2>1. ~RefusedIn(b.id, executes)
    BY DEF RefusedIn, Smooth
  <2>2. b.nonce < Top
    BY <2>1 DEF DriftInv, IInv, Below, Top
  <2>3. b.nonce \in Nat /\ Top \in Nat /\ account \in Nat
    BY DEF DriftInv, IInv, Typing, Top
  <2>4. n \in account..Top - 1
    BY <2>2, <2>3
  <2> QED BY <2>4 DEF Line
<1> QED BY InitDrift, DriftInvStep, LineStep, <1>1, <1>2, PTL DEF Spec
=============================================================================
