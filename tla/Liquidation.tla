------------------------------ MODULE Liquidation ------------------------------
(***************************************************************************)
(* The Aave health monitor and the liquidation strategy that reads it.     *)
(* Update copies the watch list under the read lock, asks the lending pool *)
(* for every account in one multicall, and applies the answer under the    *)
(* write lock; several Updates may be under way, and accounts are added to *)
(* the list meanwhile.  Evaluate takes a copy of the unhealthy accounts    *)
(* and then computes an opportunity for each.                              *)
(*                                                                         *)
(* main starts the strategy without a monitor: Evaluate then returns       *)
(* nothing (liquidation.go:37).  This is the module's behaviour for a      *)
(* caller that has one.                                                    *)
(***************************************************************************)
EXTENDS Amm, Multicall

CONSTANTS Account,     \* addresses, as numbers
          LendingPool, \* its address
          Updater,     \* who calls Update
          Position,    \* what an account may hold: [collateral, debt, hf]
          One,         \* a health factor of 1 (10^18)
          Bonus,       \* LiquidationBonus, in basis points
          GasCost, MinProfit,
          MaxBlock,    \* bound on the blocks
          MaxWatch,    \* and on the watch list, in which an account may be twice
          None

Latest == 0   \* the nil block number: the block the node is at

ASSUME LiquidationAssumption ==
    /\ Account \subseteq Nat /\ LendingPool \in Nat
    /\ Position \subseteq [collateral : Nat, debt : Nat, hf : Nat]
    /\ One \in Nat /\ Bonus \in Nat /\ GasCost \in Nat /\ MinProfit \in Nat
    /\ MaxBlock \in Nat \ {0} /\ MaxWatch \in Nat

VARIABLES
    history,    \* by block: the positions of all accounts
    watchList,  \* the accounts to ask for, in the order they were added
    flight,     \* by updater: the Update under way
    accounts,   \* the records: those of the accounts that have been seen
    seen,       \* history variable: the block each record is of
    unhealthy,  \* what GetLiquidatable has copied, while Evaluate goes on
    opps,       \* what Evaluate returned, until the next begins
    panicked    \* the process has ended

vars == <<history, watchList, flight, accounts, seen, unhealthy, opps, panicked>>

block == Len(history)
Known == DOMAIN accounts

Init ==
    /\ history \in {<<[a \in Account |-> p]>> : p \in Position}
    /\ watchList = << >>
    /\ flight = [u \in Updater |-> None]
    /\ accounts = [a \in {} |-> None] /\ seen = [a \in {} |-> 0]
    /\ unhealthy = None /\ opps = {} /\ panicked = FALSE

(* A transaction or a price changes one account.                           *)
NewBlock ==
    /\ block < MaxBlock
    /\ \E a \in Account : \E p \in Position \ {history[block][a]} :
          history' = Append(history, [history[block] EXCEPT ![a] = p])
    /\ UNCHANGED <<watchList, flight, accounts, seen, unhealthy, opps, panicked>>

AddWatch(a) ==
    /\ Len(watchList) < MaxWatch
    /\ watchList' = Append(watchList, a)
    /\ UNCHANGED <<history, flight, accounts, seen, unhealthy, opps, panicked>>

-----------------------------------------------------------------------------
(* getUserAccountData(address): the selector and the account, 36 bytes.    *)
Calls(addrs) ==
    [i \in DOMAIN addrs |-> [target |-> LendingPool, allow |-> TRUE,
                             bytes |-> 36, words |-> <<addrs[i], 0>>]]

(* The lending pool's answer in a block: six words, or a revert.           *)
Answer(b, reverts, call) ==
    IF call.target # LendingPool THEN [success |-> TRUE, bytes |-> 0, words |-> << >>]
    ELSE IF call.words[1] \in reverts THEN [success |-> FALSE, bytes |-> 0, words |-> << >>]
    ELSE LET p == history[b][call.words[1]]
         IN  [success |-> TRUE, bytes |-> 192,
              words |-> <<p.collateral, p.debt, 0, 0, 0, p.hf>>]

(* The list is copied and the calls are laid out; Update of an empty list  *)
(* returns.  The caller names the block, an older one or none.             *)
UpdateStarts(u) ==
    /\ flight[u] = None /\ watchList # << >>
    /\ IF encodeAggregate3(Calls(watchList)).outcome = "panic"
         THEN panicked' = TRUE /\ UNCHANGED flight
         ELSE /\ \E n \in 1..block \cup {Latest} :
                    flight' = [flight EXCEPT ![u] = [addrs |-> watchList, block |-> n,
                                                     results |-> None]]
              /\ UNCHANGED panicked
    /\ UNCHANGED <<history, watchList, accounts, seen, unhealthy, opps>>

Waiting(u) == flight[u] # None /\ flight[u].results = None

(* The block the answer is of: flight[u].block is set to it.               *)
Answered(u) == IF flight[u].block = Latest THEN block ELSE flight[u].block

CallSucceeds(u) ==
    /\ Waiting(u)
    /\ LET calls == DecodedCalls(encodeAggregate3(Calls(flight[u].addrs)).words)
       IN  \E reverts \in SUBSET ToSet(flight[u].addrs) :
             LET answers == [i \in DOMAIN calls |-> Answer(Answered(u), reverts, calls[i])]
                 r       == decodeAggregate3Results(EncodedResults(answers))
             IN  flight' = [flight EXCEPT ![u] =
                              IF r.outcome = "error" THEN None
                              ELSE [@ EXCEPT !.results = r, !.block = Answered(u)]]
    /\ UNCHANGED <<history, watchList, accounts, seen, unhealthy, opps, panicked>>

(* The call fails, or no contract answers (an empty answer is an error):   *)
(* Update returns.                                                         *)
CallFails(u) ==
    /\ Waiting(u)
    /\ flight' = [flight EXCEPT ![u] = None]
    /\ UNCHANGED <<history, watchList, accounts, seen, unhealthy, opps, panicked>>

(* The results that are usable, by the account asked for.                  *)
Usable(f) == {i \in DOMAIN f.results.results :
                f.results.results[i].success /\ f.results.results[i].bytes >= 192}

(* A later result for the same account replaces an earlier one.            *)
Record(f, a) ==
    LET i == Max({j \in Usable(f) : f.addrs[j] = a})
        w == f.results.results[i].words
    IN  [collateral |-> w[1], debt |-> w[2], hf |-> w[6]]

(* Mutant: the results are given to the accounts of the list as it is now. *)
ApplyToList(u) ==
    /\ flight[u] # None /\ flight[u].results # None
    /\ LET f  == [flight[u] EXCEPT !.addrs = Reverse(watchList)]
           up == {f.addrs[i] : i \in Usable(f)}
       IN  /\ accounts' = [a \in Known \cup up |-> IF a \in up THEN Record(f, a) ELSE accounts[a]]
           /\ seen' = [a \in Known \cup up |-> IF a \in up THEN f.block ELSE seen[a]]
    /\ flight' = [flight EXCEPT ![u] = None]
    /\ UNCHANGED <<history, watchList, unhealthy, opps, panicked>>

(* Under the write lock; accounts whose call failed keep their record.     *)
Apply(u) ==
    /\ flight[u] # None /\ flight[u].results # None
    /\ LET f  == flight[u]
           up == {f.addrs[i] : i \in Usable(f)}
       IN  /\ accounts' = [a \in Known \cup up |-> IF a \in up THEN Record(f, a) ELSE accounts[a]]
           /\ seen' = [a \in Known \cup up |-> IF a \in up THEN f.block ELSE seen[a]]
    /\ flight' = [flight EXCEPT ![u] = None]
    /\ UNCHANGED <<history, watchList, unhealthy, opps, panicked>>

-----------------------------------------------------------------------------
(* The accounts below a health factor of 1, copied under the read lock.    *)
GetLiquidatable ==
    /\ unhealthy = None
    /\ unhealthy' = [a \in {k \in Known : accounts[k].hf < One} |-> accounts[a]]
    /\ opps' = {}
    /\ UNCHANGED <<history, watchList, flight, accounts, seen, panicked>>

(* Half the debt is repaid for a bonus on it.                              *)
Opportunity(a, p) ==
    LET half  == p.debt \div 2
        gross == MulDiv(half, Bonus, BPS)
    IN  [account |-> a, amountIn |-> half, gross |-> gross,
         net |-> NetProfit(gross, GasCost, half)]

Profitable(o) == IsProfitable(o.net, MinProfit)

(* Mutant: the amounts are read from the records after the lock was left.  *)
EvaluateRecords ==
    /\ unhealthy # None
    /\ opps' = {o \in {Opportunity(a, accounts[a]) : a \in DOMAIN unhealthy} : Profitable(o)}
    /\ unhealthy' = None
    /\ UNCHANGED <<history, watchList, flight, accounts, seen, panicked>>

Evaluate ==
    /\ unhealthy # None
    /\ opps' = {o \in {Opportunity(a, unhealthy[a]) : a \in DOMAIN unhealthy} : Profitable(o)}
    /\ unhealthy' = None
    /\ UNCHANGED <<history, watchList, flight, accounts, seen, panicked>>

Update(u) == UpdateStarts(u) \/ CallSucceeds(u) \/ CallFails(u) \/ Apply(u)

Dead == panicked /\ UNCHANGED vars

Next == \/ /\ ~panicked
           /\ \/ NewBlock \/ \E a \in Account : AddWatch(a)
              \/ \E u \in Updater : Update(u)
              \/ GetLiquidatable \/ Evaluate
        \/ Dead

Spec == Init /\ [][Next]_vars

-----------------------------------------------------------------------------
(* Type correctness: no answer of aggregate3 is read beyond its end, there *)
(* is one result per account asked for, only watched accounts have         *)
(* records, and the monitor panics only on a list of more accounts than    *)
(* the encoder can count (multicall.go:80).                                *)
TypeOK ==
    /\ history \in Seq([Account -> Position]) /\ block \in 1..MaxBlock
    /\ watchList \in Seq(Account)
    /\ \A u \in Updater : flight[u] # None =>
          /\ flight[u].addrs \in Seq(Account) /\ Len(flight[u].addrs) <= MaxCalls
          /\ flight[u].block \in 1..block \cup {Latest}
          /\ flight[u].results # None =>
                /\ flight[u].block # Latest /\ flight[u].results.outcome = "ok"
                /\ Len(flight[u].results.results) = Len(flight[u].addrs)
    /\ Known \subseteq ToSet(watchList)
    /\ seen \in [Known -> 1..block]
    /\ panicked \in BOOLEAN /\ (panicked => Len(watchList) > MaxCalls)

(* A record is what its own account held in one block, all three amounts:  *)
(* through the layout of the calldata and of the answer, calls that fail   *)
(* between others, accounts watched twice and Updates that overlap         *)
(* (multicall.go:134, health.go:98).                                       *)
RecordsGenuine == \A a \in Known : accounts[a] = history[seen[a]][a]

(* An opportunity is for an account that was unhealthy in the block its    *)
(* amounts are of, though records change while Evaluate goes through its   *)
(* copy (health.go:124), and its bonus pays more than gas, loan and        *)
(* threshold.                                                              *)
OpportunityOfOneBlock ==
    \A o \in opps : \E b \in 1..block :
        /\ history[b][o.account].hf < One
        /\ o = Opportunity(o.account, history[b][o.account])
        /\ o.gross > MinProfit + GasCost
=============================================================================
