-------------------------- MODULE AccountClearing --------------------------
(* core-exchange/account-clearing-system: AccountClearingSystem, the ledger  *)
(* of spot accounts with its holds, its journal and the settlement outbox    *)
(* (infrastructure/distributed-consistency: OutboxStore).                    *)
(*                                                                           *)
(* Amounts are integers in the smallest unit.  The code's are doubles, which *)
(* may be off by rounding; the integers stand for them up to that noise,     *)
(* which stays below the code's tolerance for zero.  Where the code compares *)
(* two such amounts without a tolerance and they are equal here, either may  *)
(* be the smaller one there.                                                 *)
(*                                                                           *)
(* A fill's timestamp, which the code requires to be positive, is not        *)
(* modelled: a fill with quantity 0 stands for every fill that is not valid. *)
(* The journal is kept as the sum of the deltas of the entries of each       *)
(* account.  Calls come from one thread: the class has no lock.              *)
EXTENDS Integers, Sequences, FiniteSetsExt, SequencesExt, Maps

CONSTANTS
    Accounts,       \* account ids
    HoldIds,        \* hold ids
    NoHold,         \* the empty hold id
    FillHolds,      \* hold ids that fills name: subset of HoldIds, and NoHold
    TradeIds,       \* trade ids
    Openings,       \* balances accounts are opened with
    Reopened,       \* accounts whose balances the caller may replace later
    Amounts,        \* amounts to freeze, 0 for a request that is not valid
    Prices,         \* prices of fills
    Quantities,     \* quantities of fills, 0 for a fill that is not valid
    MakerFeeBps, TakerFeeBps,
    Inexact         \* assets whose amounts the code's doubles may round

Balance == [availableQuote : Int, frozenQuote : Int, availableBase : Int,
            frozenBase : Int, baseCost : Int, realizedPnl : Int]

Assets == {"quote", "base"}

ASSUME HoldsAssumption == NoHold \notin HoldIds /\ FillHolds \subseteq HoldIds \cup {NoHold}
\* The callers open accounts with nothing frozen.
ASSUME OpeningsAssumption ==
    /\ Openings \subseteq Balance
    /\ \A o \in Openings :
          /\ o.availableQuote >= 0 /\ o.availableBase >= 0 /\ o.baseCost >= 0
          /\ o.frozenQuote = 0 /\ o.frozenBase = 0
ASSUME ReopenedAssumption == Reopened \subseteq Accounts
ASSUME NumbersAssumption ==
    /\ Amounts \subseteq Nat /\ Prices \subseteq Nat \ {0} /\ Quantities \subseteq Nat
    /\ MakerFeeBps \in Nat /\ TakerFeeBps \in Nat
ASSUME InexactAssumption == Inexact \subseteq Assets

Fills == [trade : TradeIds, buyer : Accounts, seller : Accounts, buyerHold : FillHolds,
          sellerHold : FillHolds, price : Prices, qty : Quantities, buyerIsTaker : BOOLEAN]

VARIABLES
    accounts,   \* accounts_
    holds,      \* holds_
    settled,    \* settled_trade_ids_
    journal,    \* journals_: per account, the sum of the deltas of its entries
                \* since it was last opened
    outbox,     \* outbox_: messages with their state
    status,     \* what the last call answered
    opening,    \* (history) the balances each account was opened with
    fees        \* (history) fees collected, which are credited to no account

vars == <<accounts, holds, settled, journal, outbox, status, opening, fees>>

-----------------------------------------------------------------------------
Delta(aq, fq, ab, fb, cost, pnl) ==
    [availableQuote |-> aq, frozenQuote |-> fq, availableBase |-> ab,
     frozenBase |-> fb, baseCost |-> cost, realizedPnl |-> pnl]

Nothing == Delta(0, 0, 0, 0, 0, 0)

Plus(x, d) == Delta(x.availableQuote + d.availableQuote, x.frozenQuote + d.frozenQuote,
                    x.availableBase + d.availableBase, x.frozenBase + d.frozenBase,
                    x.baseCost + d.baseCost, x.realizedPnl + d.realizedPnl)

\* Change the entry of account a by d.
Post(entries, a, d) == [entries EXCEPT ![a] = Plus(@, d)]

Init ==
    /\ accounts = EmptyMap
    /\ holds = EmptyMap
    /\ settled = {}
    /\ journal = EmptyMap
    /\ outbox = << >>
    /\ status = "applied"
    /\ opening = EmptyMap
    /\ fees = 0

-----------------------------------------------------------------------------
(* upsert_account: insert_or_assign, without a look at the holds of an        *)
(* account that exists and without an entry in the journal.                  *)
UpsertAccount(a, balance) ==
    /\ a \in DOMAIN accounts => a \in Reopened
    /\ accounts' = With(accounts, a, balance)
    /\ opening' = With(opening, a, balance)
    /\ journal' = With(journal, a, Nothing)
    /\ status' = "applied"
    /\ UNCHANGED <<holds, settled, outbox, fees>>

-----------------------------------------------------------------------------
(* Comparing amounts.  A rounding says of which comparisons of a call, of    *)
(* amounts of an inexact asset that are equal here, the doubles say that the *)
(* first is the smaller one: of balances, of what holds have left, or both.  *)

Roundings == SUBSET (Inexact \X {"balance", "hold"})

Less(have, need, comparison, rounding) ==
    have < need \/ (have = need /\ comparison \in rounding)

-----------------------------------------------------------------------------
(* freeze_quote and freeze_base                                              *)

FreezeStatus(a, h, asset, amount, rounding) ==
    IF a \notin DOMAIN accounts THEN "account_not_found"
    ELSE IF amount <= 0 THEN "invalid_input"
    ELSE IF h \in DOMAIN holds THEN "hold_already_exists"
    ELSE IF asset = "quote"
            /\ Less(accounts[a].availableQuote, amount, <<"quote", "balance">>, rounding)
      THEN "insufficient_quote_balance"
    ELSE IF asset = "base"
            /\ Less(accounts[a].availableBase, amount, <<"base", "balance">>, rounding)
      THEN "insufficient_base_position"
    ELSE "applied"

FreezeDelta(asset, amount) ==
    IF asset = "quote" THEN Delta(-amount, amount, 0, 0, 0, 0)
                       ELSE Delta(0, 0, -amount, amount, 0, 0)

\* The hold is written over one that exists under its id.
FreezeOverwriting(a, h, asset, amount) ==
    /\ status' \in {FreezeStatus(a, h, asset, amount, rounding) : rounding \in Roundings}
    /\ IF status' \in {"applied", "hold_already_exists"}
         THEN /\ accounts' = Post(accounts, a, FreezeDelta(asset, amount))
              /\ holds' = With(holds, h, [account |-> a, asset |-> asset, amount |-> amount])
              /\ journal' = Post(journal, a, FreezeDelta(asset, amount))
         ELSE UNCHANGED <<accounts, holds, journal>>
    /\ UNCHANGED <<settled, outbox, opening, fees>>

Freeze(a, h, asset, amount) ==
    /\ status' \in {FreezeStatus(a, h, asset, amount, rounding) : rounding \in Roundings}
    /\ IF status' = "applied"
         THEN /\ accounts' = Post(accounts, a, FreezeDelta(asset, amount))
              /\ holds' = With(holds, h, [account |-> a, asset |-> asset, amount |-> amount])
              /\ journal' = Post(journal, a, FreezeDelta(asset, amount))
         ELSE UNCHANGED <<accounts, holds, journal>>
    /\ UNCHANGED <<settled, outbox, opening, fees>>

-----------------------------------------------------------------------------
(* release_hold: whatever the hold still has goes back, without looking at   *)
(* how much the account has frozen.                                          *)

ReleaseDelta(hold) ==
    IF hold.asset = "quote" THEN Delta(hold.amount, -hold.amount, 0, 0, 0, 0)
                            ELSE Delta(0, 0, hold.amount, -hold.amount, 0, 0)

ReleaseHold(h) ==
    /\ status' = IF h \notin DOMAIN holds THEN "hold_not_found"
                 ELSE IF holds[h].account \notin DOMAIN accounts THEN "invariant_violation"
                 ELSE "applied"
    /\ IF status' = "applied"
         THEN /\ accounts' = Post(accounts, holds[h].account, ReleaseDelta(holds[h]))
              /\ journal' = Post(journal, holds[h].account, ReleaseDelta(holds[h]))
              /\ holds' = Without(holds, h)
         ELSE UNCHANGED <<accounts, holds, journal>>
    /\ UNCHANGED <<settled, outbox, opening, fees>>

-----------------------------------------------------------------------------
(* settle_spot_trade                                                         *)

Notional(f) == f.price * f.qty

FeeAmount(notional, bps) == (notional * bps) \div 10000

BuyerFee(f) == FeeAmount(Notional(f), IF f.buyerIsTaker THEN TakerFeeBps ELSE MakerFeeBps)
SellerFee(f) == FeeAmount(Notional(f), IF f.buyerIsTaker THEN MakerFeeBps ELSE TakerFeeBps)

BuyerConsumes(f) == Notional(f) + BuyerFee(f)

\* The seller's average cost of what is sold.  The code computes it in
\* floating point; here it is rounded down to whole units.
CostReleased(f) ==
    LET s == accounts[f.seller]
        position == s.availableBase + s.frozenBase
    IN  IF position > 0 THEN (s.baseCost * f.qty) \div position ELSE 0

\* The hold is only looked up, its remaining amount is not compared.
HoldExists(h, account, asset, amount, rounding) ==
    h = NoHold \/ (h \in DOMAIN holds /\ holds[h].account = account /\ holds[h].asset = asset)

\* validate_hold_coverage for one side; the empty id is not looked up.
HoldCovers(h, account, asset, amount, rounding) ==
    \/ h = NoHold
    \/ /\ h \in DOMAIN holds
       /\ holds[h].account = account
       /\ holds[h].asset = asset
       /\ ~Less(holds[h].amount, amount, <<asset, "hold">>, rounding)

\* validate_balance_coverage, validate_hold_coverage and the checks before them.
SettleStatus(f, rounding) ==
    IF f.trade \in settled THEN "duplicate"
    ELSE IF ~({f.buyer, f.seller} \subseteq DOMAIN accounts) THEN "account_not_found"
    ELSE IF f.qty = 0 THEN "invalid_input"
    ELSE IF Less(accounts[f.buyer].frozenQuote, BuyerConsumes(f), <<"quote", "balance">>, rounding)
      THEN "buyer_frozen_quote_insufficient"
    ELSE IF Less(accounts[f.seller].frozenBase, f.qty, <<"base", "balance">>, rounding)
      THEN "seller_frozen_base_insufficient"
    ELSE IF ~HoldCovers(f.buyerHold, f.buyer, "quote", BuyerConsumes(f), rounding)
      THEN "buyer_hold_insufficient"
    ELSE IF ~HoldCovers(f.sellerHold, f.seller, "base", f.qty, rounding)
      THEN "seller_hold_insufficient"
    ELSE "applied"

\* consume_hold_amount: the hold is erased when it is used up.
Consume(hs, h, amount) ==
    IF h = NoHold THEN hs
    ELSE IF hs[h].amount = amount THEN Without(hs, h)
    ELSE [hs EXCEPT ![h].amount = @ - amount]

\* The buyer's fee is charged in the account but left out of the cost basis.
BuyerDeltaNoFee(f) == Delta(0, -BuyerConsumes(f), f.qty, 0, Notional(f), 0)

\* The seller is credited the notional without the fee taken off.
SellerDeltaGross(f) ==
    Delta(Notional(f), 0, 0, -f.qty, -CostReleased(f), Notional(f) - CostReleased(f))

BuyerDelta(f) == Delta(0, -BuyerConsumes(f), f.qty, 0, BuyerConsumes(f), 0)
SellerDelta(f) ==
    Delta(Notional(f) - SellerFee(f), 0, 0, -f.qty, -CostReleased(f),
          Notional(f) - SellerFee(f) - CostReleased(f))

\* append_settlement_journal, with the seller's entry before fees.
SellerEntryGross(f) ==
    Delta(Notional(f), 0, 0, -f.qty, -CostReleased(f), Notional(f) - SellerFee(f) - CostReleased(f))

\* append_settlement_journal writes one entry for each side.
BuyerEntry(f) ==
    Delta(0, -(Notional(f) + BuyerFee(f)), f.qty, 0, Notional(f) + BuyerFee(f), 0)
SellerEntry(f) ==
    Delta(Notional(f) - SellerFee(f), 0, 0, -f.qty, -CostReleased(f),
          Notional(f) - SellerFee(f) - CostReleased(f))

Message(id) == [id |-> id, state |-> "pending"]

\* The trade id is forgotten.
SettleForgetting(f) ==
    /\ status' \in {SettleStatus(f, rounding) : rounding \in Roundings}
    /\ IF status' = "applied"
         THEN /\ accounts' = Post(Post(accounts, f.buyer, BuyerDelta(f)), f.seller, SellerDelta(f))
              /\ holds' = Consume(Consume(holds, f.buyerHold, BuyerConsumes(f)), f.sellerHold, f.qty)
              /\ journal' = Post(Post(journal, f.buyer, BuyerEntry(f)), f.seller, SellerEntry(f))
              /\ outbox' = Append(outbox, Message(f.trade))
              /\ fees' = fees + BuyerFee(f) + SellerFee(f)
         ELSE UNCHANGED <<accounts, holds, journal, outbox, fees>>
    /\ UNCHANGED <<opening, settled>>

\* All checks come first; then the buyer's and the seller's account, which may
\* be the same, the holds, the journal, the outbox and the trade id.
SettleSpotTrade(f) ==
    /\ status' \in {SettleStatus(f, rounding) : rounding \in Roundings}
    /\ IF status' = "applied"
         THEN /\ accounts' = Post(Post(accounts, f.buyer, BuyerDelta(f)), f.seller, SellerDelta(f))
              /\ holds' = Consume(Consume(holds, f.buyerHold, BuyerConsumes(f)), f.sellerHold, f.qty)
              /\ journal' = Post(Post(journal, f.buyer, BuyerEntry(f)), f.seller, SellerEntry(f))
              /\ outbox' = Append(outbox, Message(f.trade))
              /\ settled' = settled \cup {f.trade}
              /\ fees' = fees + BuyerFee(f) + SellerFee(f)
         ELSE UNCHANGED <<accounts, holds, journal, outbox, settled, fees>>
    /\ UNCHANGED opening

\* A fill that uses up all that is frozen, or all that its hold has left, of an
\* inexact asset: how the code's comparisons come out is a matter of rounding.
UsesUp(asset, a, h, amount) ==
    /\ asset \in Inexact
    /\ \/ (IF asset = "quote" THEN accounts[a].frozenQuote ELSE accounts[a].frozenBase) = amount
       \/ h \in DOMAIN holds /\ holds[h].amount = amount

DecidedByRounding(f) ==
    \/ UsesUp("quote", f.buyer, f.buyerHold, BuyerConsumes(f))
    \/ UsesUp("base", f.seller, f.sellerHold, f.qty)

-----------------------------------------------------------------------------
(* mark_outbox_dispatched: the first message with the id.                    *)

Found(id) == {i \in DOMAIN outbox : outbox[i].id = id}

MarkDispatched(id) ==
    /\ status' = IF Found(id) = {} THEN "outbox_message_not_found" ELSE "applied"
    /\ outbox' = IF Found(id) = {} THEN outbox
                 ELSE [outbox EXCEPT ![Min(Found(id))].state = "dispatched"]
    /\ UNCHANGED <<accounts, holds, settled, journal, opening, fees>>

-----------------------------------------------------------------------------
Next ==
    \/ \E a \in Accounts, o \in Openings : UpsertAccount(a, o)
    \/ \E a \in Accounts, h \in HoldIds, asset \in Assets, n \in Amounts : Freeze(a, h, asset, n)
    \/ \E h \in HoldIds : ReleaseHold(h)
    \/ \E f \in Fills : SettleSpotTrade(f)
    \/ \E t \in TradeIds : MarkDispatched(t)

Spec == Init /\ [][Next]_vars

-----------------------------------------------------------------------------
(* Properties.                                                               *)

\* The values of all variables.
TypeOK ==
    /\ DOMAIN accounts \subseteq Accounts
    /\ DOMAIN journal = DOMAIN accounts /\ DOMAIN opening = DOMAIN accounts
    /\ \A a \in DOMAIN accounts :
          accounts[a] \in Balance /\ journal[a] \in Balance /\ opening[a] \in Openings
    /\ DOMAIN holds \subseteq HoldIds
    /\ \A h \in DOMAIN holds :
          holds[h] \in [account : DOMAIN accounts, asset : Assets, amount : Nat \ {0}]
    /\ settled \subseteq TradeIds
    /\ outbox \in Seq([id : TradeIds, state : {"pending", "dispatched"}])
    /\ fees \in Nat

\* What the live holds of account a reserve of an asset.
Held(a, asset) ==
    SumFunctionOnSet([h \in DOMAIN holds |-> holds[h].amount],
                     {h \in DOMAIN holds : holds[h].account = a /\ holds[h].asset = asset})

\* What an account has frozen is exactly what its live holds still reserve:
\* freezing, partial consumption, release and settlement keep the two books of
\* the reservation in step.
FrozenIsHeld ==
    \A a \in DOMAIN accounts :
        accounts[a].frozenQuote = Held(a, "quote") /\ accounts[a].frozenBase = Held(a, "base")

\* No balance and no cost ever goes below zero, but for rounding noise: the
\* tests of reconcile_account (README: "Basic reconciliation on non-negative
\* balance and cost invariants") hold of every account at all times.
AccountsReconcile ==
    \A a \in DOMAIN accounts :
        /\ accounts[a].availableQuote >= 0 /\ accounts[a].frozenQuote >= 0
        /\ accounts[a].availableBase >= 0 /\ accounts[a].frozenBase >= 0
        /\ accounts[a].baseCost >= 0

\* The journal explains every balance: what an account has now is what it was
\* opened with plus the deltas of its entries (README: "Journal recording for
\* every balance mutation"), though balances and entries are computed apart.
JournalExplainsBalances ==
    \A a \in DOMAIN accounts : accounts[a] = Plus(opening[a], journal[a])

\* Quote, and base at what it cost, less the profit taken.
Equity(x) == x.availableQuote + x.frozenQuote + x.baseCost - x.realizedPnl

\* No money is made or lost: an account's quote plus the cost of its position
\* less its realized profit never changes, whatever it buys, sells, freezes or
\* releases, with fees and with itself as the counterparty.
EquityPreserved ==
    \A a \in DOMAIN accounts : Equity(accounts[a]) = Equity(opening[a])

QuoteOf(x) == x.availableQuote + x.frozenQuote
BaseOf(x) == x.availableBase + x.frozenBase

\* Across all accounts, base only changes hands and quote only leaves as fees.
TotalsPreserved ==
    /\ SumFunction([a \in DOMAIN accounts |-> BaseOf(accounts[a])])
         = SumFunction([a \in DOMAIN opening |-> BaseOf(opening[a])])
    /\ SumFunction([a \in DOMAIN accounts |-> QuoteOf(accounts[a])]) + fees
         = SumFunction([a \in DOMAIN opening |-> QuoteOf(opening[a])])

\* Settlement is idempotent by trade id: each settled trade has exactly one
\* message in the outbox and no other trade has one.
OneMessagePerTrade ==
    /\ {outbox[i].id : i \in DOMAIN outbox} = settled
    /\ \A i, j \in DOMAIN outbox : outbox[i].id = outbox[j].id => i = j

=============================================================================
