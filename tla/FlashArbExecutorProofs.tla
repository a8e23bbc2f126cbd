---------------------- MODULE FlashArbExecutorProofs ----------------------
(* Proofs about FlashArbExecutor, for any amounts, fees and pool payments:  *)
(* what the phase of a transaction says of the balances is inductive, and   *)
(* the types, the safety of the stock and the profit follow from it.        *)
EXTENDS FlashArbExecutor, TLAPS

\* The token that the amount in hand is of.
InHand == IF Hop = req.hops THEN 0 ELSE Hop

\* Between transactions the contract is idle and unlocked.
RestInv ==
    where = "none" =>
        /\ req = NoRequest /\ ctx = IdleContext /\ local = NoLocals
        /\ locked = FALSE /\ owed = 0 /\ overdrawn = {}

\* During one, the request is the owner's and the balance it began with is kept
\* until the profit is measured.
RequestInv == where # "none" => req \in Requests

ContextInv ==
    where \in {"lender", "entered", "hop", "swapped", "paid"} =>
        ctx.initialBalance = saved[0]

\* Before the route nothing was sold: the loan is all that came in.
LoanInv ==
    /\ where \in {"lender", "entered"} => ctx.hop = 0 /\ ctx.state = "LOAN_ACTIVE"
    /\ where \in {"lender", "entered"} => overdrawn = {}
    /\ where = "lender" => bal = saved
    /\ where = "entered" => bal[0] >= saved[0] + req.loan /\ \A k \in Tokens : bal[k] >= saved[k]

\* The stock that no pool has overdrawn.
Covered == \A k \in Tokens \ overdrawn : bal[k] >= saved[k]

\* Between hops the amount in hand is on top of what the contract held.
HopInv ==
    where = "hop" =>
        /\ ctx.hop <= req.hops
        /\ Covered
        /\ InHand \notin overdrawn => bal[InHand] >= saved[InHand] + local.amountIn

\* Inside a hop the token bought is measured from a balance that covers the
\* stock, and the token sold covers what a V3 pool may still take, once.
SwapInv ==
    where = "swapped" =>
        /\ ctx.hop < req.hops
        /\ Covered
        /\ TokenOut(Hop) \notin overdrawn =>
               local.before >= saved[TokenOut(Hop)] /\ bal[TokenOut(Hop)] >= local.before
        /\ TokenIn(Hop) \notin overdrawn /\ req.v3[Hop] /\ ~ ctx.hopPaid =>
               bal[TokenIn(Hop)] >= saved[TokenIn(Hop)] + local.amountIn

\* The repayment takes of the loan token alone.
PaidInv ==
    where = "paid" => \A k \in Tokens \ overdrawn : k # 0 => bal[k] >= saved[k]

\* After the profit is checked the owner has it.
DoneInv ==
    where = "repaid" =>
        /\ ctx = IdleContext
        /\ bal[0] >= saved[0] + req.minProfit
        /\ Covered

PhaseInv ==
    RestInv /\ RequestInv /\ ContextInv /\ LoanInv /\ HopInv /\ SwapInv /\ PaidInv /\ DoneInv

SafetyInv == TypeOK /\ PhaseInv
-----------------------------------------------------------------------------
\* A request's fields have their types.
LEMMA RequestFields ==
    ASSUME NEW r \in Requests
    PROVE  /\ r.hops \in {2, 3} /\ r.loan \in Nat /\ r.fee \in Nat
           /\ r.minProfit \in Nat /\ r.minOut \in Nat
  BY ExecutorAssumption DEF Requests

\* The tokens of a hop differ, so paying for one never takes from the other.
LEMMA HopTokens ==
    ASSUME TypeOK, RequestInv, where # "none", Hop < req.hops
    PROVE  /\ TokenIn(Hop) \in Tokens /\ TokenOut(Hop) \in Tokens
           /\ TokenIn(Hop) # TokenOut(Hop) /\ TokenIn(Hop) = InHand
           /\ Hop \in Nat /\ req.hops \in {2, 3}
<1>1. req.hops \in {2, 3} /\ ctx.hop \in 0..3
  BY RequestFields DEF TypeOK, RequestInv
<1>2. QED
  BY <1>1 DEF TokenIn, TokenOut, Tokens, InHand, Hop

\* The repayment is an amount.
LEMMA RepaymentIsNat ==
    ASSUME req \in Requests
    PROVE  Repayment \in Nat
<1>1. req.loan \in Nat /\ req.fee \in Nat /\ BufferUnit \in Nat \ {0}
  BY RequestFields, ExecutorAssumption
<1>2. Buffer \in Nat /\ ReportedFee \in Nat
  BY <1>1 DEF Buffer, ReportedFee
<1>3. QED
  BY <1>1, <1>2 DEF Repayment

LEMMA SafetyInitially == Init => SafetyInv
<1> SUFFICES ASSUME Init PROVE SafetyInv
  OBVIOUS
<1>1. TypeOK
  <2>0. locked \in BOOLEAN
    BY Zenon DEF Init
  <2>1. where = "none" /\ owed \in Int
    BY DEF Init
  <2>2. req \in Requests \cup {NoRequest}
    BY DEF Init
  <2>3. ctx \in [state : {"IDLE", "LOAN_ACTIVE", "SWAP_ACTIVE"}, hop : 0..3,
                 hopPaid : BOOLEAN, initialBalance : Nat]
    BY DEF Init, IdleContext
  <2>4. bal \in [Tokens -> Nat] /\ saved \in [Tokens -> Nat]
    BY ExecutorAssumption DEF Init
  <2>5. local \in [amountIn : Nat, before : Nat]
    BY DEF Init, NoLocals
  <2>6. txs \in 0..MaxTxs /\ overdrawn \subseteq Tokens
    BY ExecutorAssumption DEF Init
  <2>7. QED
    BY <2>0, <2>1, <2>2, <2>3, <2>4, <2>5, <2>6 DEF TypeOK
<1>2. PhaseInv
  BY DEF Init, PhaseInv, RestInv, RequestInv, ContextInv, LoanInv, HopInv, SwapInv, PaidInv, DoneInv
<1>3. QED
  BY <1>1, <1>2 DEF SafetyInv
-----------------------------------------------------------------------------
(* The actions, one lemma each. *)

LEMMA ExecuteKeeps ==
    ASSUME SafetyInv, NEW r \in Requests, ExecuteArbitrage(r)
    PROVE  SafetyInv'
<1> USE DEF SafetyInv
<1>1. /\ where' = "lender" /\ req' \in Requests /\ bal' = bal /\ saved' = bal
      /\ ctx' = [state |-> "LOAN_ACTIVE", hop |-> 0, hopPaid |-> FALSE, initialBalance |-> bal[0]]
      /\ local' = local /\ owed' = owed /\ txs' = txs + 1 /\ txs < MaxTxs /\ locked' = TRUE
      /\ overdrawn' = overdrawn /\ where = "none"
  BY DEF ExecuteArbitrage
<1>2. TypeOK'
  <2>1. bal[0] \in Nat /\ txs' \in 0..MaxTxs
    BY <1>1, ExecutorAssumption DEF TypeOK, Tokens
  <2>2. ctx' \in [state : {"IDLE", "LOAN_ACTIVE", "SWAP_ACTIVE"}, hop : 0..3,
                  hopPaid : BOOLEAN, initialBalance : Nat]
    BY <1>1, <2>1
  <2>3. (req \in Requests \cup {NoRequest})'
    BY <1>1 DEF Requests
  <2>4. QED
    BY <1>1, <2>1, <2>2, <2>3 DEF TypeOK
<1>3. PhaseInv'
  <2>1. RestInv' /\ ContextInv' /\ HopInv' /\ SwapInv' /\ PaidInv' /\ DoneInv'
    BY <1>1 DEF RestInv, ContextInv, HopInv, SwapInv, PaidInv, DoneInv
  <2>2. RequestInv'
    BY <1>1 DEF RequestInv, Requests
  <2>3. LoanInv'
    BY <1>1 DEF LoanInv, PhaseInv, RestInv
  <2>4. QED
    BY <2>1, <2>2, <2>3 DEF PhaseInv
<1>4. QED
  BY <1>2, <1>3

LEMMA LendKeeps ==
    ASSUME SafetyInv, Lend
    PROVE  SafetyInv'
<1> USE DEF SafetyInv
<1>1. /\ where = "lender" /\ where' = "entered" /\ bal' = [bal EXCEPT ![0] = @ + req.loan]
      /\ owed' = req.loan + req.fee
      /\ UNCHANGED <<req, ctx, locked, local, saved, overdrawn, txs>>
  BY DEF Lend
<1>2. req \in Requests /\ req.loan \in Nat /\ req.fee \in Nat
  BY <1>1, RequestFields DEF PhaseInv, RequestInv
<1>3. /\ bal = saved /\ bal \in [Tokens -> Nat] /\ 0 \in Tokens /\ ctx.hop = 0
      /\ ctx.state = "LOAN_ACTIVE" /\ overdrawn = {}
  BY <1>1 DEF PhaseInv, LoanInv, TypeOK, Tokens
<1>4. bal' \in [Tokens -> Nat] /\ bal'[0] = bal[0] + req.loan /\ \A k \in Tokens : bal'[k] >= bal[k]
  BY <1>1, <1>2, <1>3 DEF Tokens
<1>5. TypeOK'
  BY <1>1, <1>2, <1>4 DEF TypeOK, Requests
<1>6. PhaseInv'
  <2>1. RestInv' /\ HopInv' /\ SwapInv' /\ PaidInv' /\ DoneInv'
    BY <1>1 DEF RestInv, HopInv, SwapInv, PaidInv, DoneInv
  <2>2. RequestInv' /\ ContextInv'
    BY <1>1, <1>2 DEF RequestInv, ContextInv, PhaseInv, Requests
  <2>3. LoanInv'
    BY <1>1, <1>2, <1>3, <1>4 DEF LoanInv
  <2>4. QED
    BY <2>1, <2>2, <2>3 DEF PhaseInv
<1>7. QED
  BY <1>5, <1>6

LEMMA CallbackKeeps ==
    ASSUME SafetyInv, FlashLoanCallback
    PROVE  SafetyInv'
<1> USE DEF SafetyInv
<1>1. /\ where = "entered" /\ where' = "hop"
      /\ ctx' = [ctx EXCEPT !.state = "SWAP_ACTIVE"]
      /\ local' = [local EXCEPT !.amountIn = req.loan]
      /\ UNCHANGED <<req, locked, bal, owed, saved, overdrawn, txs>>
  BY DEF FlashLoanCallback
<1>2. req \in Requests /\ req.loan \in Nat /\ req.hops \in {2, 3}
  BY <1>1, RequestFields DEF PhaseInv, RequestInv
<1>3. /\ ctx.hop = 0 /\ bal[0] >= saved[0] + req.loan /\ \A k \in Tokens : bal[k] >= saved[k]
      /\ ctx.initialBalance = saved[0] /\ overdrawn = {}
  BY <1>1 DEF PhaseInv, LoanInv, ContextInv
<1>4. /\ ctx' \in [state : {"IDLE", "LOAN_ACTIVE", "SWAP_ACTIVE"}, hop : 0..3,
                   hopPaid : BOOLEAN, initialBalance : Nat]
      /\ ctx'.hop = ctx.hop /\ ctx'.initialBalance = ctx.initialBalance
  BY <1>1 DEF TypeOK
<1>5. local' \in [amountIn : Nat, before : Nat] /\ local'.amountIn = req.loan
  BY <1>1, <1>2 DEF TypeOK
<1>6. TypeOK'
  BY <1>1, <1>4, <1>5 DEF TypeOK, Requests
<1>7. PhaseInv'
  <2>1. RestInv' /\ LoanInv' /\ SwapInv' /\ PaidInv' /\ DoneInv'
    BY <1>1 DEF RestInv, LoanInv, SwapInv, PaidInv, DoneInv
  <2>2. RequestInv' /\ ContextInv'
    BY <1>1, <1>2, <1>3, <1>4 DEF RequestInv, ContextInv, Requests
  <2>3. HopInv'
    BY <1>1, <1>2, <1>3, <1>4, <1>5 DEF HopInv, InHand, Hop, Covered
  <2>4. QED
    BY <2>1, <2>2, <2>3 DEF PhaseInv
<1>8. QED
  BY <1>6, <1>7

\* A hop begins: the pool pays what it likes, a V2 pool after it was paid.
LEMMA SwapKeeps ==
    ASSUME SafetyInv, NEW out \in Outs, SwapV2(out) \/ SwapV3(out)
    PROVE  SafetyInv'
<1> USE DEF SafetyInv
<1> DEFINE paid == IF req.v3[Hop] THEN 0 ELSE local.amountIn
<1>0. where = "hop" /\ Hop < req.hops
  BY DEF SwapV2, SwapV3
<1>2. /\ TokenIn(Hop) \in Tokens /\ TokenOut(Hop) \in Tokens
      /\ TokenIn(Hop) # TokenOut(Hop) /\ TokenIn(Hop) = InHand /\ req \in Requests
  BY <1>0, HopTokens DEF PhaseInv, RequestInv
<1>3. /\ local.amountIn \in Nat /\ bal \in [Tokens -> Nat] /\ saved \in [Tokens -> Nat] /\ out \in Nat
      /\ paid \in Nat
  BY ExecutorAssumption DEF TypeOK
<1>1. /\ where' = "swapped" /\ paid <= bal[TokenIn(Hop)]
      /\ local' = [local EXCEPT !.before = bal[TokenOut(Hop)]]
      /\ ctx' = [ctx EXCEPT !.hopPaid = FALSE]
      /\ UNCHANGED <<req, locked, owed, saved, overdrawn, txs>>
  BY <1>2, <1>3 DEF SwapV2, SwapV3
<1>4. /\ bal' \in [Tokens -> Nat]
      /\ bal'[TokenIn(Hop)] = bal[TokenIn(Hop)] - paid
      /\ bal'[TokenOut(Hop)] = bal[TokenOut(Hop)] + out
      /\ \A k \in Tokens : k \notin {TokenIn(Hop), TokenOut(Hop)} => bal'[k] = bal[k]
  <2>1. CASE SwapV2(out)
    <3>1. /\ paid = local.amountIn /\ local.amountIn <= bal[TokenIn(Hop)]
          /\ bal' = [bal EXCEPT ![TokenIn(Hop)] = @ - local.amountIn, ![TokenOut(Hop)] = @ + out]
      BY <2>1 DEF SwapV2
    <3>2. QED
      BY <3>1, <1>2, <1>3
  <2>2. CASE SwapV3(out)
    <3>1. paid = 0 /\ bal' = [bal EXCEPT ![TokenOut(Hop)] = @ + out]
      BY <2>2 DEF SwapV3
    <3>2. QED
      BY <3>1, <1>2, <1>3
  <2>3. QED
    BY <2>1, <2>2
<1>5. /\ ctx' \in [state : {"IDLE", "LOAN_ACTIVE", "SWAP_ACTIVE"}, hop : 0..3,
                   hopPaid : BOOLEAN, initialBalance : Nat]
      /\ ctx'.hop = ctx.hop /\ ctx'.initialBalance = ctx.initialBalance
  BY <1>1 DEF TypeOK
<1>6. /\ local' \in [amountIn : Nat, before : Nat]
      /\ local'.before = bal[TokenOut(Hop)] /\ local'.amountIn = local.amountIn
  BY <1>1, <1>2, <1>3 DEF TypeOK
<1>7. Hop' = Hop /\ TokenIn(Hop)' = TokenIn(Hop) /\ TokenOut(Hop)' = TokenOut(Hop)
  BY <1>1, <1>5 DEF Hop, TokenIn, TokenOut
<1>8. TypeOK'
  BY <1>1, <1>4, <1>5, <1>6 DEF TypeOK, Requests
<1>9. PhaseInv'
  <2>1. RestInv' /\ LoanInv' /\ HopInv' /\ PaidInv' /\ DoneInv'
    BY <1>1 DEF RestInv, LoanInv, HopInv, PaidInv, DoneInv
  <2>2. RequestInv' /\ ContextInv'
    BY <1>0, <1>1, <1>2, <1>5 DEF RequestInv, ContextInv, PhaseInv, Requests
  <2>3. /\ \A k \in Tokens \ overdrawn : bal[k] >= saved[k]
        /\ TokenIn(Hop) \notin overdrawn =>
               bal[TokenIn(Hop)] >= saved[TokenIn(Hop)] + local.amountIn
    BY <1>0, <1>2 DEF PhaseInv, HopInv, Covered
  <2>4. \A k \in Tokens \ overdrawn : bal'[k] >= saved[k]
    <3> SUFFICES ASSUME NEW k \in Tokens \ overdrawn PROVE bal'[k] >= saved[k]
      OBVIOUS
    <3>1. CASE k = TokenIn(Hop)
      BY <3>1, <1>2, <1>3, <1>4, <2>3
    <3>2. CASE k # TokenIn(Hop)
      BY <3>2, <1>2, <1>3, <1>4, <2>3
    <3>3. QED
      BY <3>1, <3>2
  <2>5. TokenOut(Hop) \notin overdrawn =>
            local'.before >= saved[TokenOut(Hop)] /\ bal'[TokenOut(Hop)] >= local'.before
    BY <1>2, <1>3, <1>4, <1>6, <2>3
  <2>6. TokenIn(Hop) \notin overdrawn /\ req.v3[Hop] =>
            bal'[TokenIn(Hop)] >= saved[TokenIn(Hop)] + local'.amountIn
    BY <1>2, <1>3, <1>4, <1>6, <2>3
  <2>7. SwapInv'
    <3>1. Covered'
      BY <1>1, <2>4 DEF Covered
    <3>2. (ctx.hop < req.hops)'
      BY <1>0, <1>1, <1>5 DEF Hop
    <3>3. QED
      BY <1>1, <1>7, <2>5, <2>6, <3>1, <3>2 DEF SwapInv
  <2>8. QED
    BY <2>1, <2>2, <2>7 DEF PhaseInv
<1>10. QED
  BY <1>8, <1>9

\* A pool that was paid is not paid again; one that takes more than the hop had for
\* it is marked.
LEMMA V3CallbackKeeps ==
    ASSUME SafetyInv, NEW k \in Tokens, NEW due \in Asks, V3Callback(k, due)
    PROVE  SafetyInv'
<1> USE DEF SafetyInv
<1>1. /\ where = "swapped" /\ where' = "swapped" /\ ~ ctx.hopPaid /\ bal[k] >= due
      /\ k \in {TokenIn(Hop), TokenOut(Hop)}
      /\ bal' = [bal EXCEPT ![k] = @ - due]
      /\ ctx' = [ctx EXCEPT !.hopPaid = TRUE]
      /\ overdrawn' = IF due > ForThePool(k) THEN overdrawn \cup {k} ELSE overdrawn
      /\ UNCHANGED <<req, locked, local, owed, saved, txs>>
  BY DEF V3Callback
<1>2. SwapInv /\ Hop < req.hops
  BY <1>1 DEF PhaseInv, SwapInv, Hop
<1>3. /\ TokenIn(Hop) \in Tokens /\ TokenOut(Hop) \in Tokens
      /\ TokenIn(Hop) # TokenOut(Hop) /\ req \in Requests
  BY <1>1, <1>2, HopTokens DEF PhaseInv, RequestInv
<1>4. /\ local.before \in Nat /\ local.amountIn \in Nat /\ due \in Nat
      /\ bal \in [Tokens -> Nat] /\ saved \in [Tokens -> Nat]
  BY ExecutorAssumption DEF TypeOK
<1>5. /\ bal' \in [Tokens -> Nat] /\ bal'[k] = bal[k] - due
      /\ \A j \in Tokens : j # k => bal'[j] = bal[j]
  BY <1>1, <1>3, <1>4
<1>6. /\ ctx' \in [state : {"IDLE", "LOAN_ACTIVE", "SWAP_ACTIVE"}, hop : 0..3,
                   hopPaid : BOOLEAN, initialBalance : Nat]
      /\ ctx'.hop = ctx.hop /\ ctx'.initialBalance = ctx.initialBalance /\ ctx'.hopPaid
  BY <1>1 DEF TypeOK
<1>7. Hop' = Hop /\ TokenIn(Hop)' = TokenIn(Hop) /\ TokenOut(Hop)' = TokenOut(Hop)
  BY <1>1, <1>6 DEF Hop, TokenIn, TokenOut
<1>8. overdrawn' \subseteq Tokens /\ overdrawn \subseteq overdrawn'
  BY <1>1 DEF TypeOK
<1>9. TypeOK'
  BY <1>1, <1>5, <1>6, <1>8 DEF TypeOK, Requests
<1>10. PhaseInv'
  <2>1. RestInv' /\ LoanInv' /\ HopInv' /\ PaidInv' /\ DoneInv'
    BY <1>1 DEF RestInv, LoanInv, HopInv, PaidInv, DoneInv
  <2>2. RequestInv' /\ ContextInv'
    BY <1>1, <1>3, <1>6 DEF RequestInv, ContextInv, PhaseInv, Requests
  <2>3. /\ \A j \in Tokens \ overdrawn : bal[j] >= saved[j]
        /\ TokenOut(Hop) \notin overdrawn =>
               local.before >= saved[TokenOut(Hop)] /\ bal[TokenOut(Hop)] >= local.before
        /\ TokenIn(Hop) \notin overdrawn /\ req.v3[Hop] =>
               bal[TokenIn(Hop)] >= saved[TokenIn(Hop)] + local.amountIn
    BY <1>1, <1>2 DEF SwapInv, Covered
  <2>4. k \notin overdrawn' => due <= ForThePool(k) /\ k \notin overdrawn
    <3>1. CASE k = TokenOut(Hop)
      BY <3>1, <1>1, <1>3, <1>4 DEF ForThePool
    <3>2. CASE k # TokenOut(Hop)
      BY <3>2, <1>1, <1>4 DEF ForThePool
    <3>3. QED
      BY <3>1, <3>2
  <2>5. \A j \in Tokens \ overdrawn' : bal'[j] >= saved[j]
    <3> SUFFICES ASSUME NEW j \in Tokens \ overdrawn' PROVE bal'[j] >= saved[j]
      OBVIOUS
    <3>1. CASE j # k
      BY <3>1, <1>4, <1>5, <1>8, <2>3
    <3>2. CASE j = k /\ k = TokenOut(Hop)
      <4>1. due <= bal[k] - local.before /\ local.before >= saved[k]
        BY <3>2, <2>3, <2>4 DEF ForThePool
      <4>2. QED
        BY <4>1, <3>2, <1>4, <1>5
    <3>3. CASE j = k /\ k = TokenIn(Hop)
      <4>1. /\ due <= (IF req.v3[Hop] THEN local.amountIn ELSE 0)
            /\ k \notin overdrawn
        BY <3>3, <1>3, <2>4 DEF ForThePool
      <4>2. CASE req.v3[Hop]
        BY <4>1, <4>2, <3>3, <1>4, <1>5, <2>3
      <4>3. CASE ~ req.v3[Hop]
        BY <4>1, <4>3, <3>3, <1>4, <1>5, <2>3
      <4>4. QED
        BY <4>2, <4>3
    <3>4. QED
      BY <3>1, <3>2, <3>3, <1>1
  <2>6. TokenOut(Hop) \notin overdrawn' =>
            local.before >= saved[TokenOut(Hop)] /\ bal'[TokenOut(Hop)] >= local.before
    <3> SUFFICES ASSUME TokenOut(Hop) \notin overdrawn'
                 PROVE  local.before >= saved[TokenOut(Hop)] /\ bal'[TokenOut(Hop)] >= local.before
      OBVIOUS
    <3>1. local.before >= saved[TokenOut(Hop)] /\ bal[TokenOut(Hop)] >= local.before
      BY <1>8, <2>3
    <3>2. CASE k = TokenOut(Hop)
      <4>1. due <= bal[k] - local.before
        BY <3>2, <2>4 DEF ForThePool
      <4>2. QED
        BY <4>1, <3>1, <3>2, <1>4, <1>5
    <3>3. CASE k # TokenOut(Hop)
      BY <3>1, <3>3, <1>3, <1>5
    <3>4. QED
      BY <3>2, <3>3
  <2>7. SwapInv'
    <3>1. Covered'
      BY <1>1, <2>5 DEF Covered
    <3>2. (ctx.hop < req.hops)'
      BY <1>1, <1>2, <1>6 DEF Hop
    <3>3. QED
      BY <1>1, <1>6, <1>7, <2>6, <3>1, <3>2 DEF SwapInv
  <2>8. QED
    BY <2>1, <2>2, <2>7 DEF PhaseInv
<1>11. QED
  BY <1>9, <1>10

LEMMA MeasureKeeps ==
    ASSUME SafetyInv, Measure
    PROVE  SafetyInv'
<1> USE DEF SafetyInv
<1>1. /\ where = "swapped" /\ where' = "hop"
      /\ bal[TokenOut(Hop)] - local.before >= req.minOut
      /\ local' = [NoLocals EXCEPT !.amountIn = bal[TokenOut(Hop)] - local.before]
      /\ ctx' = [ctx EXCEPT !.hop = @ + 1]
      /\ UNCHANGED <<req, locked, bal, owed, saved, overdrawn, txs>>
  BY DEF Measure
<1>2. SwapInv /\ Hop < req.hops
  BY <1>1 DEF PhaseInv, SwapInv, Hop
<1>3. /\ TokenOut(Hop) \in Tokens /\ req \in Requests /\ Hop \in Nat /\ req.hops \in {2, 3}
      /\ req.minOut \in Nat
  BY <1>1, <1>2, HopTokens, RequestFields DEF PhaseInv, RequestInv
<1>4. local.before \in Nat /\ bal \in [Tokens -> Nat] /\ saved \in [Tokens -> Nat]
  BY DEF TypeOK
<1>5. /\ Covered
      /\ TokenOut(Hop) \notin overdrawn => local.before >= saved[TokenOut(Hop)]
      /\ bal[TokenOut(Hop)] >= local.before
  BY <1>1, <1>2, <1>3, <1>4 DEF SwapInv
<1>6. /\ ctx' \in [state : {"IDLE", "LOAN_ACTIVE", "SWAP_ACTIVE"}, hop : 0..3,
                   hopPaid : BOOLEAN, initialBalance : Nat]
      /\ ctx'.hop = ctx.hop + 1 /\ ctx'.initialBalance = ctx.initialBalance
  BY <1>1, <1>2, <1>3 DEF TypeOK, Hop
<1>7. /\ local' \in [amountIn : Nat, before : Nat]
      /\ local'.amountIn = bal[TokenOut(Hop)] - local.before
  BY <1>1, <1>3, <1>4, <1>5 DEF NoLocals
<1>8. InHand' = TokenOut(Hop)
  BY <1>1, <1>6 DEF InHand, TokenOut, Hop
<1>9. TypeOK'
  BY <1>1, <1>6, <1>7 DEF TypeOK, Requests
<1>10. PhaseInv'
  <2>1. RestInv' /\ LoanInv' /\ SwapInv' /\ PaidInv' /\ DoneInv'
    BY <1>1 DEF RestInv, LoanInv, SwapInv, PaidInv, DoneInv
  <2>2. RequestInv' /\ ContextInv'
    BY <1>1, <1>3, <1>6 DEF RequestInv, ContextInv, PhaseInv, Requests
  <2>3. TokenOut(Hop) \notin overdrawn =>
            bal[TokenOut(Hop)] >= saved[TokenOut(Hop)] + (bal[TokenOut(Hop)] - local.before)
    BY <1>3, <1>4, <1>5
  <2>4. ctx'.hop <= req.hops
    BY <1>2, <1>3, <1>6 DEF Hop
  <2>5. HopInv'
    BY <1>1, <1>5, <1>7, <1>8, <2>3, <2>4 DEF HopInv, Covered
  <2>6. QED
    BY <2>1, <2>2, <2>5 DEF PhaseInv
<1>11. QED
  BY <1>9, <1>10

\* The repayment comes out of the loan token, whatever the route brought of it.
LEMMA RepayKeeps ==
    ASSUME SafetyInv, Repay
    PROVE  SafetyInv'
<1> USE DEF SafetyInv
<1>1. /\ where = "hop" /\ where' = "paid" /\ bal[0] >= Repayment
      /\ bal' = [bal EXCEPT ![0] = @ - Repayment]
      /\ owed' = owed - Repayment
      /\ UNCHANGED <<req, ctx, locked, local, saved, overdrawn, txs>>
  BY DEF Repay
<1>2. req \in Requests /\ ctx.initialBalance = saved[0] /\ Repayment \in Nat /\ owed \in Int
  BY <1>1, RepaymentIsNat DEF PhaseInv, RequestInv, ContextInv, TypeOK
<1>3. bal \in [Tokens -> Nat] /\ saved \in [Tokens -> Nat] /\ 0 \in Tokens
  BY DEF TypeOK, Tokens
<1>4. /\ bal' \in [Tokens -> Nat] /\ \A k \in Tokens : k # 0 => bal'[k] = bal[k]
  BY <1>1, <1>2, <1>3
<1>5. TypeOK'
  BY <1>1, <1>2, <1>4 DEF TypeOK, Requests
<1>6. PhaseInv'
  <2>1. RestInv' /\ LoanInv' /\ HopInv' /\ SwapInv' /\ DoneInv'
    BY <1>1 DEF RestInv, LoanInv, HopInv, SwapInv, DoneInv
  <2>2. RequestInv' /\ ContextInv'
    BY <1>1, <1>2 DEF RequestInv, ContextInv, Requests
  <2>3. PaidInv'
    BY <1>1, <1>4 DEF PaidInv, PhaseInv, HopInv, Covered
  <2>4. QED
    BY <2>1, <2>2, <2>3 DEF PhaseInv
<1>7. QED
  BY <1>5, <1>6

\* What the profit check lets pass covers the stock of the loan token again.
LEMMA FinalizeKeeps ==
    ASSUME SafetyInv, Finalize
    PROVE  SafetyInv'
<1> USE DEF SafetyInv
<1>1. /\ where = "paid" /\ where' = "repaid"
      /\ bal[0] - ctx.initialBalance >= req.minProfit
      /\ ctx' = IdleContext
      /\ UNCHANGED <<req, locked, bal, local, owed, saved, overdrawn, txs>>
  BY DEF Finalize
<1>2. req \in Requests /\ ctx.initialBalance = saved[0] /\ req.minProfit \in Nat
  BY <1>1, RequestFields DEF PhaseInv, RequestInv, ContextInv
<1>3. bal \in [Tokens -> Nat] /\ saved \in [Tokens -> Nat] /\ 0 \in Tokens
  BY DEF TypeOK, Tokens
<1>4. bal[0] >= saved[0] + req.minProfit /\ bal[0] >= saved[0]
  BY <1>1, <1>2, <1>3
<1>5. \A k \in Tokens \ overdrawn : bal[k] >= saved[k]
  BY <1>1, <1>4 DEF PhaseInv, PaidInv
<1>6. TypeOK'
  <2>1. ctx' \in [state : {"IDLE", "LOAN_ACTIVE", "SWAP_ACTIVE"}, hop : 0..3,
                 hopPaid : BOOLEAN, initialBalance : Nat]
    BY <1>1 DEF IdleContext
  <2>2. QED
    BY <1>1, <2>1 DEF TypeOK, Requests
<1>7. PhaseInv'
  <2>1. RestInv' /\ ContextInv' /\ LoanInv' /\ HopInv' /\ SwapInv' /\ PaidInv'
    BY <1>1 DEF RestInv, ContextInv, LoanInv, HopInv, SwapInv, PaidInv
  <2>2. RequestInv'
    BY <1>1, <1>2 DEF RequestInv, Requests
  <2>3. DoneInv'
    BY <1>1, <1>4, <1>5 DEF DoneInv, Covered
  <2>4. QED
    BY <2>1, <2>2, <2>3 DEF PhaseInv
<1>8. QED
  BY <1>6, <1>7

\* However a transaction ends, the contract is as between transactions.
LEMMA EndKeeps ==
    ASSUME SafetyInv, Commit \/ Revert
    PROVE  SafetyInv'
<1> USE DEF SafetyInv
<1>1. /\ where' = "none" /\ req' = NoRequest /\ local' = NoLocals /\ owed' = 0
      /\ bal' \in {bal, saved} /\ saved' = saved /\ txs' = txs
      /\ overdrawn' = {}
  BY DEF Commit, Revert, AtRest
<1>2. locked' = FALSE
  BY Zenon DEF Commit, Revert
<1>3. ctx' = IdleContext
  BY DEF Commit, Revert, PhaseInv, DoneInv
<1>4. TypeOK'
  <2>1. ctx' \in [state : {"IDLE", "LOAN_ACTIVE", "SWAP_ACTIVE"}, hop : 0..3,
                  hopPaid : BOOLEAN, initialBalance : Nat]
    BY <1>3 DEF IdleContext
  <2>2. local' \in [amountIn : Nat, before : Nat]
    BY <1>1 DEF NoLocals
  <2>3. locked' \in BOOLEAN
    BY <1>2, Zenon
  <2>4. (req \in Requests \cup {NoRequest})'
    BY <1>1 DEF NoRequest
  <2>5. QED
    BY <1>1, <2>1, <2>2, <2>3, <2>4 DEF TypeOK
<1>5. PhaseInv'
  <2>1. /\ RequestInv' /\ ContextInv' /\ LoanInv' /\ HopInv' /\ SwapInv' /\ PaidInv' /\ DoneInv'
    BY <1>1 DEF RequestInv, ContextInv, LoanInv, HopInv, SwapInv, PaidInv, DoneInv
  <2>2. RestInv'
    BY <1>1, <1>2, <1>3, Zenon DEF RestInv, NoRequest, IdleContext, NoLocals
  <2>3. QED
    BY <2>1, <2>2 DEF PhaseInv
<1>6. QED
  BY <1>4, <1>5

LEMMA WithdrawKeeps ==
    ASSUME SafetyInv, NEW k \in Tokens, WithdrawToken(k)
    PROVE  SafetyInv'
<1> USE DEF SafetyInv
<1>1. /\ where = "none" /\ bal' = [bal EXCEPT ![k] = 0]
      /\ UNCHANGED <<where, req, ctx, locked, local, owed, saved, overdrawn, txs>>
  BY DEF WithdrawToken
<1>2. bal' \in [Tokens -> Nat]
  BY <1>1 DEF TypeOK
<1>3. TypeOK'
  BY <1>1, <1>2 DEF TypeOK, Requests, NoRequest
<1>4. PhaseInv'
  <2>1. /\ RequestInv' /\ ContextInv' /\ LoanInv' /\ HopInv' /\ SwapInv' /\ PaidInv' /\ DoneInv'
    BY <1>1 DEF RequestInv, ContextInv, LoanInv, HopInv, SwapInv, PaidInv, DoneInv
  <2>2. RestInv'
    BY <1>1 DEF PhaseInv, RestInv, NoRequest, IdleContext, NoLocals
  <2>3. QED
    BY <2>1, <2>2 DEF PhaseInv
<1>5. QED
  BY <1>3, <1>4

LEMMA SafetyKept == SafetyInv /\ [Next]_vars => SafetyInv'
<1> SUFFICES ASSUME SafetyInv, [Next]_vars PROVE SafetyInv'
  OBVIOUS
<1>1. CASE UNCHANGED vars
  <2>1. TypeOK'
    BY <1>1 DEF SafetyInv, vars, TypeOK, Requests, NoRequest
  <2>2. RestInv' /\ RequestInv' /\ ContextInv' /\ LoanInv'
    BY <1>1 DEF SafetyInv, vars, PhaseInv, RestInv, RequestInv, ContextInv, LoanInv,
                Requests, NoRequest, IdleContext, NoLocals
  <2>3. HopInv' /\ SwapInv' /\ PaidInv' /\ DoneInv'
    BY <1>1 DEF SafetyInv, vars, PhaseInv, HopInv, SwapInv, PaidInv, DoneInv, InHand, Hop, TokenIn, TokenOut,
                Covered, IdleContext
  <2>4. QED
    BY <2>1, <2>2, <2>3 DEF SafetyInv, PhaseInv
<1>2. CASE \E r \in Requests : ExecuteArbitrage(r)
  BY <1>2, ExecuteKeeps
<1>3. CASE Lend \/ FlashLoanCallback
  BY <1>3, LendKeeps, CallbackKeeps
<1>4. CASE \E out \in Outs : SwapV2(out) \/ SwapV3(out)
  BY <1>4, SwapKeeps
<1>5. CASE \E k \in Tokens, due \in Asks : V3Callback(k, due)
  BY <1>5, V3CallbackKeeps
<1>6. CASE Measure \/ Repay \/ Finalize
  BY <1>6, MeasureKeeps, RepayKeeps, FinalizeKeeps
<1>7. CASE Commit \/ Revert
  BY <1>7, EndKeeps
<1>8. CASE \E k \in Tokens : WithdrawToken(k)
  BY <1>8, WithdrawKeeps
<1>9. QED
  BY <1>1, <1>2, <1>3, <1>4, <1>5, <1>6, <1>7, <1>8 DEF Next

LEMMA SafetyAlways == Spec => []SafetyInv
  BY SafetyInitially, SafetyKept, PTL DEF Spec

\* Every variable of the executor keeps its type: no balance and no amount in hand
\* goes below zero (FlashArbExecutor.sol:347-358).
THEOREM ExecutorTyped == Spec => []TypeOK
<1>1. SafetyInv => TypeOK
  BY DEF SafetyInv
<1>2. QED
  BY <1>1, SafetyAlways, PTL

\* What the contract held of a token is never sold while no pool takes more of it
\* than the hop had for it, whatever the pools pay and however often they call back;
\* only the repayment is paid first and checked after (FlashArbExecutor.sol:324-358).
THEOREM StockIsSafe == Spec => []OwnStockUntouched
<1>1. SafetyInv => OwnStockUntouched
  <2> SUFFICES ASSUME SafetyInv, NEW k \in Tokens \ overdrawn, where # "none"
               PROVE  bal[k] >= saved[k] \/ (k = 0 /\ where = "paid")
    BY DEF OwnStockUntouched
  <2>1. bal[k] \in Nat /\ saved[k] \in Nat
    BY DEF SafetyInv, TypeOK
  <2>2. CASE where = "lender"
    BY <2>1, <2>2 DEF SafetyInv, PhaseInv, LoanInv
  <2>3. CASE where = "entered"
    BY <2>3 DEF SafetyInv, PhaseInv, LoanInv
  <2>4. CASE where = "hop"
    BY <2>4 DEF SafetyInv, PhaseInv, HopInv, Covered
  <2>5. CASE where = "swapped"
    BY <2>5 DEF SafetyInv, PhaseInv, SwapInv, Covered
  <2>6. CASE where = "paid"
    BY <2>6 DEF SafetyInv, PhaseInv, PaidInv
  <2>7. CASE where = "repaid"
    BY <2>7 DEF SafetyInv, PhaseInv, DoneInv, Covered
  <2>8. QED
    BY <2>2, <2>3, <2>4, <2>5, <2>6, <2>7 DEF SafetyInv, TypeOK
<1>2. QED
  BY <1>1, SafetyAlways, PTL

\* A transaction that ends without a revert has earned what the owner asked for,
\* whatever the pools took, and sold nothing of the rest that no pool overdrew
\* (FlashArbExecutor.sol:473-478).
THEOREM TradesPay == Spec => ProfitOrNothing
<1>1. SafetyInv /\ [Next]_vars =>
        [where # "none" /\ where' = "none" =>
            \/ bal' = saved
            \/ /\ bal'[0] >= saved[0] + req.minProfit
               /\ \A k \in Tokens \ overdrawn : bal'[k] >= saved[k]]_vars
  <2> SUFFICES ASSUME SafetyInv, Next, where # "none", where' = "none"
               PROVE  \/ bal' = saved
                      \/ /\ bal'[0] >= saved[0] + req.minProfit
                         /\ \A k \in Tokens \ overdrawn : bal'[k] >= saved[k]
    OBVIOUS
  <2>1. Commit \/ Revert
    BY DEF Next, ExecuteArbitrage, Lend, FlashLoanCallback, SwapV2, SwapV3, V3Callback, Measure,
           Repay, Finalize, WithdrawToken
  <2>2. CASE Revert
    BY <2>2 DEF Revert
  <2>3. CASE Commit
    <3>1. bal' = bal /\ where = "repaid"
      BY <2>3 DEF Commit
    <3>2. QED
      BY <3>1 DEF SafetyInv, PhaseInv, DoneInv, Covered
  <2>4. QED
    BY <2>1, <2>2, <2>3
<1>2. QED
  BY <1>1, SafetyAlways, PTL DEF Spec, ProfitOrNothing
=============================================================================
