------------------------- MODULE FlashArbExecutor -------------------------
(* One arbitrage inside a flash loan.  The contract calls its lender, the   *)
(* lender calls back, the callback swaps along the route (a V3 pool calls   *)
(* back once more to be paid), repays and checks the profit.  A step is     *)
(* what the contract does between two external calls; a transaction that    *)
(* fails anywhere restores the state it began with.  What a pool asks for   *)
(* in its callback is paid as it is: the contract compares it with nothing. *)
(*                                                                          *)
(* Tokens are positions of the route: 0 is the loan token, hop i sells      *)
(* token i for token i + 1, the last hop buys token 0 again.                *)
EXTENDS Integers

CONSTANTS
    Loans,          \* loan amounts
    LenderFees,     \* fees a lender asks for
    MinProfits,     \* minProfitWei
    MinOuts,        \* route.minOuts, the same for every hop
    Outs,           \* amounts a pool may pay out
    Asks,           \* amounts a pool may ask for in its callback
    Stock,          \* tokens the contract holds at first, of each kind
    BufferUnit,     \* 10^4: the safety buffer is a BufferUnit-th of the loan
    MaxTxs          \* bound: number of transactions

ASSUME ExecutorAssumption ==
    /\ Loans \subseteq Nat \ {0} /\ LenderFees \subseteq Nat
    /\ MinProfits \subseteq Nat /\ MinOuts \subseteq Nat
    /\ Outs \subseteq Nat /\ Asks \subseteq Nat
    /\ Stock \in Nat /\ BufferUnit \in Nat \ {0} /\ MaxTxs \in Nat

VARIABLES
    where,      \* who runs: the program counter across the nested calls
    req,        \* calldata of executeArbitrage, echoed in userData
    ctx,        \* _ctx
    locked,     \* _locked
    bal,        \* the contract's token balances
    local,      \* locals of _executeRoute and _swapHop
    owed,       \* what the lender still expects
    saved,      \* balances when the transaction began
    overdrawn,  \* tokens of which some pool took more than the hop had for it
    txs         \* transactions so far

vars == <<where, req, ctx, locked, bal, local, owed, saved, overdrawn, txs>>
----------------------------------------------------------------------------
Tokens == 0..2
HopNumbers == 0..2

\* What the owner may ask for, past the entry checks of executeArbitrage, and the
\* lender's terms: its fee, and whether a DODO pool answers _FLASH_LOAN_FEE_.
Requests ==
    {r \in [provider : {"BALANCER", "DODO"}, hops : {2, 3}, v3 : [HopNumbers -> BOOLEAN],
            loan : Loans, minProfit : MinProfits, minOut : MinOuts,
            fee : LenderFees, reported : BOOLEAN] :
        /\ r.provider = "BALANCER" => r.reported
        /\ r.hops = 2 => ~ r.v3[2]}

NoRequest ==
    [provider |-> "BALANCER", hops |-> 2, v3 |-> [i \in HopNumbers |-> FALSE],
     loan |-> 0, minProfit |-> 0, minOut |-> 0, fee |-> 0, reported |-> FALSE]

\* delete _ctx
IdleContext == [state |-> "IDLE", hop |-> 0, hopPaid |-> FALSE, initialBalance |-> 0]

NoLocals == [amountIn |-> 0, before |-> 0]

TokenIn(i) == i
TokenOut(i) == IF i + 1 = req.hops THEN 0 ELSE i + 1

AtRest ==
    /\ req' = NoRequest /\ local' = NoLocals /\ owed' = 0 /\ overdrawn' = {}

Init ==
    /\ where = "none"
    /\ req = NoRequest
    /\ ctx = IdleContext
    /\ locked = FALSE
    /\ bal = [k \in Tokens |-> Stock]
    /\ local = NoLocals
    /\ owed = 0
    /\ saved = bal
    /\ overdrawn = {}
    /\ txs = 0
----------------------------------------------------------------------------
\* The owner's call: guard, checks, context; then the lender is called.
ExecuteArbitrage(r) ==
    /\ where = "none" /\ txs < MaxTxs
    /\ ctx.state = "IDLE" /\ ~ locked
    /\ locked' = TRUE
    /\ req' = r
    /\ ctx' = [state |-> "LOAN_ACTIVE", hop |-> 0, hopPaid |-> FALSE,
               initialBalance |-> bal[0]]
    /\ saved' = bal
    /\ txs' = txs + 1
    /\ where' = "lender"
    /\ UNCHANGED <<bal, local, owed, overdrawn>>

\* The lender sends the loan and enters the callback.
Lend ==
    /\ where = "lender"
    /\ bal' = [bal EXCEPT ![0] = @ + req.loan]
    /\ owed' = req.loan + req.fee
    /\ where' = "entered"
    /\ UNCHANGED <<req, ctx, locked, local, saved, overdrawn, txs>>

\* receiveFlashLoan, or _handleDodoCallback: the route begins.
FlashLoanCallback ==
    /\ where = "entered"
    /\ ctx.state = "LOAN_ACTIVE"
    /\ ctx' = [ctx EXCEPT !.state = "SWAP_ACTIVE"]
    /\ local' = [local EXCEPT !.amountIn = req.loan]
    /\ where' = "hop"
    /\ UNCHANGED <<req, locked, bal, owed, saved, overdrawn, txs>>

\* The hop in hand is the one after those already measured.
Hop == ctx.hop

\* A V2 hop: pay the pool, then let it pay; a pool that is paid less than it asks
\* or that would pay nothing reverts.
SwapV2(out) ==
    /\ where = "hop" /\ Hop < req.hops /\ ~ req.v3[Hop]
    /\ local.amountIn <= bal[TokenIn(Hop)] /\ out > 0
    /\ local' = [local EXCEPT !.before = bal[TokenOut(Hop)]]
    /\ bal' = [bal EXCEPT ![TokenIn(Hop)] = @ - local.amountIn, ![TokenOut(Hop)] = @ + out]
    /\ ctx' = [ctx EXCEPT !.hopPaid = FALSE]
    /\ where' = "swapped"
    /\ UNCHANGED <<req, locked, owed, saved, overdrawn, txs>>

\* A V3 hop: the pool pays first, and then calls back if it wants to be paid.
SwapV3(out) ==
    /\ where = "hop" /\ Hop < req.hops /\ req.v3[Hop]
    /\ local' = [local EXCEPT !.before = bal[TokenOut(Hop)]]
    /\ bal' = [bal EXCEPT ![TokenOut(Hop)] = @ + out]
    /\ ctx' = [ctx EXCEPT !.hopPaid = FALSE]
    /\ where' = "swapped"
    /\ UNCHANGED <<req, locked, owed, saved, overdrawn, txs>>

\* What the hop has for its pool: the rest of amountIn, and what the pool just paid.
ForThePool(k) ==
    IF k = TokenOut(Hop) THEN bal[k] - local.before
    ELSE IF req.v3[Hop] THEN local.amountIn ELSE 0

\* _handleUniversalV3Callback: the pool of the hop, of whatever type, names a token
\* of the hop and an amount, and gets it, once.
V3Callback(k, due) ==
    /\ where = "swapped"
    /\ ctx.state = "SWAP_ACTIVE"
    /\ ~ ctx.hopPaid
    /\ k \in {TokenIn(Hop), TokenOut(Hop)} /\ bal[k] >= due
    /\ bal' = [bal EXCEPT ![k] = @ - due]
    /\ ctx' = [ctx EXCEPT !.hopPaid = TRUE]
    /\ overdrawn' = IF due > ForThePool(k) THEN overdrawn \cup {k} ELSE overdrawn
    /\ UNCHANGED <<where, req, locked, local, owed, saved, txs>>

\* Faulty variant: every hop is given the loan amount.
MeasureKeepsAmount ==
    /\ where = "swapped"
    /\ bal[TokenOut(Hop)] - local.before >= req.minOut
    /\ local' = [NoLocals EXCEPT !.amountIn = local.amountIn]
    /\ ctx' = [ctx EXCEPT !.hop = @ + 1]
    /\ where' = "hop"
    /\ UNCHANGED <<req, locked, bal, owed, saved, overdrawn, txs>>

\* What the hop brought is measured and is the next hop's amountIn.
Measure ==
    /\ where = "swapped"
    /\ bal[TokenOut(Hop)] - local.before >= req.minOut
    /\ local' = [NoLocals EXCEPT !.amountIn = bal[TokenOut(Hop)] - local.before]
    /\ ctx' = [ctx EXCEPT !.hop = @ + 1]
    /\ where' = "hop"
    /\ UNCHANGED <<req, locked, bal, owed, saved, overdrawn, txs>>

\* What Balancer says in its callback; what a DODO pool answers, or 0.
ReportedFee == IF req.reported THEN req.fee ELSE 0

Buffer == req.loan \div BufferUnit

\* Faulty variant: a fee that is reported is forgotten.
RepaymentNoFee == req.loan + Buffer

\* The loan and the reported fee; a DODO pool that reports none gets a buffer.
Repayment ==
    IF req.provider = "DODO" /\ ReportedFee = 0
    THEN req.loan + Buffer
    ELSE req.loan + ReportedFee

\* The route is done: the lender is paid back, out of whatever the contract holds.
Repay ==
    /\ where = "hop" /\ Hop = req.hops
    /\ bal[0] >= Repayment
    /\ bal' = [bal EXCEPT ![0] = @ - Repayment]
    /\ owed' = owed - Repayment
    /\ where' = "paid"
    /\ UNCHANGED <<req, ctx, locked, local, saved, overdrawn, txs>>

\* Faulty variants: the profit is not measured against the balance before; the
\* context stays.
FinalizeNoBaseline ==
    /\ where = "paid"
    /\ bal[0] >= req.minProfit
    /\ ctx' = IdleContext
    /\ where' = "repaid"
    /\ UNCHANGED <<req, locked, bal, local, owed, saved, overdrawn, txs>>

FinalizeNoDelete ==
    /\ where = "paid"
    /\ bal[0] - ctx.initialBalance >= req.minProfit
    /\ ctx' = [ctx EXCEPT !.state = "COMPLETE"]
    /\ where' = "repaid"
    /\ UNCHANGED <<req, locked, bal, local, owed, saved, overdrawn, txs>>

\* _checkProfit, and the context is deleted.
Finalize ==
    /\ where = "paid"
    /\ bal[0] - ctx.initialBalance >= req.minProfit
    /\ ctx' = IdleContext
    /\ where' = "repaid"
    /\ UNCHANGED <<req, locked, bal, local, owed, saved, overdrawn, txs>>

\* The lender is satisfied, executeArbitrage returns and releases the guard.
Commit ==
    /\ where = "repaid"
    /\ owed <= 0
    /\ locked' = FALSE
    /\ where' = "none"
    /\ AtRest
    /\ UNCHANGED <<ctx, bal, saved, txs>>

\* Some check fails, or an external call does: as if nothing had been.
Revert ==
    /\ where # "none"
    /\ bal' = saved
    /\ ctx' = IdleContext
    /\ locked' = FALSE
    /\ where' = "none"
    /\ AtRest
    /\ UNCHANGED <<saved, txs>>

\* The owner takes a token out.
WithdrawToken(k) ==
    /\ where = "none" /\ bal[k] > 0
    /\ bal' = [bal EXCEPT ![k] = 0]
    /\ UNCHANGED <<where, req, ctx, locked, local, owed, saved, overdrawn, txs>>

Next ==
    \/ \E r \in Requests : ExecuteArbitrage(r)
    \/ Lend \/ FlashLoanCallback
    \/ \E out \in Outs : SwapV2(out) \/ SwapV3(out)
    \/ \E k \in Tokens, due \in Asks : V3Callback(k, due)
    \/ Measure \/ Repay \/ Finalize
    \/ Commit \/ Revert
    \/ \E k \in Tokens : WithdrawToken(k)

Spec == Init /\ [][Next]_vars
----------------------------------------------------------------------------
TypeOK ==
    /\ where \in {"none", "lender", "entered", "hop", "swapped", "paid", "repaid"}
    /\ req \in Requests \cup {NoRequest}
    /\ ctx \in [state : {"IDLE", "LOAN_ACTIVE", "SWAP_ACTIVE"}, hop : 0..3,
                hopPaid : BOOLEAN, initialBalance : Nat]
    /\ locked \in BOOLEAN
    /\ bal \in [Tokens -> Nat]
    /\ local \in [amountIn : Nat, before : Nat]
    /\ owed \in Int
    /\ saved \in [Tokens -> Nat]
    /\ overdrawn \subseteq Tokens
    /\ txs \in 0..MaxTxs

\* A hop sells what the hop before brought, however often its pool calls back: what
\* the contract held of a token stays, at every call it makes, until a pool asks for
\* more than the hop had for it (FlashArbExecutor.sol:324, 341-358).  Only the
\* repayment may take from the stock, of the loan token, until the profit is checked.
OwnStockUntouched ==
    where # "none" =>
        \A k \in Tokens \ overdrawn : bal[k] >= saved[k] \/ (k = 0 /\ where = "paid")

\* A lender gets no less than it expects, unless it is a DODO pool whose fee exceeds
\* the buffer and is not reported; and never more than the buffer on top
\* (FlashArbExecutor.sol:234, 289-308).
LenderIsSatisfied ==
    where \in {"paid", "repaid"} =>
        /\ owed <= 0 \/ (req.provider = "DODO" /\ ~ req.reported /\ req.fee > Buffer)
        /\ owed >= - Buffer

\* A trade that is not reverted leaves at least minProfitWei more of the loan token
\* than the contract held before the loan, whatever the pools took, and no less of
\* any other token than a pool overdrew (FlashArbExecutor.sol:193, 473-478).
ProfitOrNothing ==
    [][where # "none" /\ where' = "none" =>
        \/ bal' = saved
        \/ /\ bal'[0] >= saved[0] + req.minProfit
           /\ \A k \in Tokens \ overdrawn : bal'[k] >= saved[k]]_vars

============================================================================
