----------------------- MODULE AccountClearingProofs -----------------------
(* What holds of the ledger for any accounts, holds, trades, prices and fee  *)
(* rates: its types, the journal, the equity of every account, the           *)
(* idempotence of settlement, frozen funds against holds, and the totals.    *)
EXTENDS AccountClearing, LibraryTheorems, SequenceTheorems, TLAPS

-----------------------------------------------------------------------------
(* Arithmetic on balances.                                                   *)

\* A delta of integers is a Balance record.
LEMMA DeltaType ==
    ASSUME NEW aq \in Int, NEW fq \in Int, NEW ab \in Int, NEW fb \in Int,
           NEW cost \in Int, NEW pnl \in Int
    PROVE  Delta(aq, fq, ab, fb, cost, pnl) \in Balance
  BY DEF Delta, Balance

\* Adding a delta to a balance gives a balance.
LEMMA PlusType ==
    ASSUME NEW x \in Balance, NEW d \in Balance
    PROVE  Plus(x, d) \in Balance
  BY DEF Plus, Delta, Balance

\* The journal of an account just opened adds nothing.
LEMMA NothingIsNeutral ==
    /\ Nothing \in Balance
    /\ \A x \in Balance : Plus(x, Nothing) = x
  BY DEF Nothing, Plus, Delta, Balance

\* Deltas may be added to a balance one by one or summed first.
LEMMA PlusAssociative ==
    ASSUME NEW x \in Balance, NEW y \in Balance, NEW z \in Balance
    PROVE  Plus(Plus(x, y), z) = Plus(x, Plus(y, z))
  BY DEF Plus, Delta, Balance

\* A delta with no equity leaves an account's equity alone.
LEMMA EquityOfSum ==
    ASSUME NEW x \in Balance, NEW d \in Balance
    PROVE  Equity(Plus(x, d)) = Equity(x) + Equity(d) /\ Equity(x) \in Int
  BY DEF Equity, Plus, Delta, Balance

\* Post changes the entry of one account and no other.
LEMMA PostFacts ==
    ASSUME NEW entries, NEW a \in DOMAIN entries, NEW d
    PROVE  /\ DOMAIN Post(entries, a, d) = DOMAIN entries
           /\ \A x \in DOMAIN entries :
                 Post(entries, a, d)[x] = IF x = a THEN Plus(entries[a], d) ELSE entries[x]
  BY DEF Post

-----------------------------------------------------------------------------
(* One posting: the same delta, of no equity, to an account and its journal. *)

\* Accounts, journal and opening balances are typed and agree.
LedgerOK(acc, jou, ope) ==
    /\ DOMAIN jou = DOMAIN acc /\ DOMAIN ope = DOMAIN acc
    /\ \A a \in DOMAIN acc :
          /\ acc[a] \in Balance /\ jou[a] \in Balance /\ ope[a] \in Openings
          /\ acc[a] = Plus(ope[a], jou[a])
          /\ Equity(acc[a]) = Equity(ope[a])

\* Posting the same delta to an account and to its journal (append_journal)
\* keeps them in agreement, and keeps the equity if the delta has none.
LEMMA PostKeepsLedger ==
    ASSUME NEW acc, NEW jou, NEW ope, LedgerOK(acc, jou, ope),
           NEW a \in DOMAIN acc, NEW d \in Balance, Equity(d) = 0
    PROVE  LedgerOK(Post(acc, a, d), Post(jou, a, d), ope)
<1> DEFINE acc2 == Post(acc, a, d)
           jou2 == Post(jou, a, d)
<1>1. /\ DOMAIN acc2 = DOMAIN acc
      /\ \A x \in DOMAIN acc : acc2[x] = IF x = a THEN Plus(acc[a], d) ELSE acc[x]
      BY PostFacts
<1>2. /\ DOMAIN jou2 = DOMAIN acc
      /\ \A x \in DOMAIN acc : jou2[x] = IF x = a THEN Plus(jou[a], d) ELSE jou[x]
      BY PostFacts DEF LedgerOK
<1>3. acc[a] \in Balance /\ jou[a] \in Balance /\ ope[a] \in Balance
      BY OpeningsAssumption DEF LedgerOK
<1>4. Plus(acc[a], d) \in Balance /\ Plus(jou[a], d) \in Balance
      BY <1>3, PlusType
<1>5. Plus(acc[a], d) = Plus(ope[a], Plus(jou[a], d))
      BY <1>3, PlusAssociative DEF LedgerOK
<1>6. Equity(Plus(acc[a], d)) = Equity(ope[a])
  <2>1. Equity(Plus(acc[a], d)) = Equity(acc[a]) + Equity(d) /\ Equity(acc[a]) \in Int
        BY <1>3, EquityOfSum
  <2> QED BY <2>1 DEF LedgerOK
<1> HIDE DEF acc2, jou2
<1>7. LedgerOK(acc2, jou2, ope)
      BY <1>1, <1>2, <1>4, <1>5, <1>6 DEF LedgerOK
<1> QED BY <1>7 DEF acc2, jou2

-----------------------------------------------------------------------------
(* The deltas the operations post.                                           *)

\* What freeze_quote and freeze_base post is typed and has no equity.
LEMMA FreezeDeltas ==
    ASSUME NEW amount \in Int, NEW asset \in Assets
    PROVE  FreezeDelta(asset, amount) \in Balance /\ Equity(FreezeDelta(asset, amount)) = 0
  BY DEF FreezeDelta, Delta, Balance, Equity

\* What release_hold posts is typed and has no equity.
LEMMA ReleaseDeltas ==
    ASSUME NEW hold, hold.amount \in Int
    PROVE  ReleaseDelta(hold) \in Balance /\ Equity(ReleaseDelta(hold)) = 0
  BY DEF ReleaseDelta, Delta, Balance, Equity

\* The amounts of calculate_settlement_amounts are integers, notional and fees
\* not negative.
LEMMA SettlementAmounts ==
    ASSUME NEW f \in Fills, NEW s \in Balance, accounts[f.seller] = s
    PROVE  /\ Notional(f) \in Nat /\ BuyerFee(f) \in Nat /\ SellerFee(f) \in Nat
           /\ CostReleased(f) \in Int /\ f.qty \in Nat
<1>1. f.qty \in Nat /\ f.price \in Nat /\ f.buyerIsTaker \in BOOLEAN
      BY NumbersAssumption DEF Fills
<1>2. Notional(f) \in Nat
      BY <1>1 DEF Notional
<1>3. \A n \in Nat, bps \in Nat : FeeAmount(n, bps) \in Nat
  <2> TAKE n \in Nat, bps \in Nat
  <2>1. n * bps \in Nat
        OBVIOUS
  <2> HIDE DEF Notional
  <2> QED BY <2>1 DEF FeeAmount
<1>4. BuyerFee(f) \in Nat /\ SellerFee(f) \in Nat
      BY <1>2, <1>3, NumbersAssumption DEF BuyerFee, SellerFee
<1>5. CostReleased(f) \in Int
  <2>1. s.baseCost * f.qty \in Int /\ s.availableBase + s.frozenBase \in Int
        BY <1>1 DEF Balance
  <2>2. \A m \in Int, k \in Int : k > 0 => m \div k \in Int
        OBVIOUS
  <2> QED BY <2>1, <2>2 DEF CostReleased
<1> QED BY <1>1, <1>2, <1>4, <1>5

\* The buyer's money turns into the cost of the position; the seller's proceeds
\* are the cost released and the profit.  Both entries say what was posted.
LEMMA SettlementDeltas ==
    ASSUME NEW f \in Fills, NEW s \in Balance, accounts[f.seller] = s
    PROVE  /\ BuyerDelta(f) \in Balance /\ Equity(BuyerDelta(f)) = 0
           /\ SellerDelta(f) \in Balance /\ Equity(SellerDelta(f)) = 0
           /\ BuyerEntry(f) = BuyerDelta(f) /\ SellerEntry(f) = SellerDelta(f)
<1>1. /\ Notional(f) \in Nat /\ BuyerFee(f) \in Nat /\ SellerFee(f) \in Nat
      /\ CostReleased(f) \in Int /\ f.qty \in Nat
      BY SettlementAmounts
<1> QED BY <1>1 DEF BuyerDelta, SellerDelta, BuyerEntry, SellerEntry, BuyerConsumes,
                    Delta, Balance, Equity

-----------------------------------------------------------------------------
(* The holds.                                                                *)

HoldRecords(owners) == [account : owners, asset : Assets, amount : Nat \ {0}]

HoldsOK(hs, owners) ==
    DOMAIN hs \subseteq HoldIds /\ \A h \in DOMAIN hs : hs[h] \in HoldRecords(owners)

\* consume_hold_amount keeps every hold typed and positive.
LEMMA ConsumeKeepsHolds ==
    ASSUME NEW hs, NEW owners, HoldsOK(hs, owners), NEW h, NEW amount \in Nat,
           h # NoHold => h \in DOMAIN hs /\ hs[h].amount >= amount
    PROVE  /\ HoldsOK(Consume(hs, h, amount), owners)
           /\ \A x \in DOMAIN hs : x # h =>
                 /\ x \in DOMAIN Consume(hs, h, amount)
                 /\ Consume(hs, h, amount)[x] = hs[x]
<1>1. CASE h = NoHold
      BY <1>1 DEF Consume
<1>2. CASE h # NoHold /\ hs[h].amount = amount
      BY <1>2 DEF Consume, Without, HoldsOK
<1>3. CASE h # NoHold /\ hs[h].amount # amount
  <2>1. hs[h] \in HoldRecords(owners) /\ hs[h].amount - amount \in Nat \ {0}
        BY <1>3 DEF HoldsOK, HoldRecords
  <2>2. Consume(hs, h, amount) = [hs EXCEPT ![h].amount = @ - amount]
        BY <1>3 DEF Consume
  <2> QED BY <1>3, <2>1, <2>2 DEF HoldsOK, HoldRecords
<1> QED BY <1>1, <1>2, <1>3

\* What freeze_quote and freeze_base have checked when they apply, whichever way
\* rounding decides.
Freezable(a, h, asset, n) ==
    /\ a \in DOMAIN accounts /\ ~(n <= 0) /\ h \notin DOMAIN holds
    /\ ~(asset = "quote" /\ accounts[a].availableQuote < n)
    /\ ~(asset = "base" /\ accounts[a].availableBase < n)

\* A freeze that applies was checked.
LEMMA FreezeChecked ==
    ASSUME NEW a, NEW h, NEW asset, NEW n, Freeze(a, h, asset, n), status' = "applied"
    PROVE  Freezable(a, h, asset, n)
<1>1. PICK rounding \in Roundings : FreezeStatus(a, h, asset, n, rounding) = "applied"
      BY DEF Freeze
<1> QED BY <1>1 DEF FreezeStatus, Less, Freezable

\* Hold h, if one is named, has at least the amount.
HoldHas(h, account, asset, amount) ==
    \/ h = NoHold
    \/ /\ h \in DOMAIN holds
       /\ holds[h].account = account
       /\ holds[h].asset = asset
       /\ ~(holds[h].amount < amount)

\* What settle_spot_trade has checked when it applies f.
Settleable(f) ==
    /\ f.trade \notin settled
    /\ f.buyer \in DOMAIN accounts /\ f.seller \in DOMAIN accounts /\ f.qty # 0
    /\ ~(accounts[f.buyer].frozenQuote < BuyerConsumes(f))
    /\ ~(accounts[f.seller].frozenBase < f.qty)
    /\ HoldHas(f.buyerHold, f.buyer, "quote", BuyerConsumes(f))
    /\ HoldHas(f.sellerHold, f.seller, "base", f.qty)

\* A settlement that applies was checked, whichever way rounding decides.
LEMMA SettleChecked ==
    ASSUME NEW f, SettleSpotTrade(f), status' = "applied"
    PROVE  Settleable(f)
<1>1. PICK rounding \in Roundings : SettleStatus(f, rounding) = "applied"
      BY DEF SettleSpotTrade
<1>2. /\ HoldCovers(f.buyerHold, f.buyer, "quote", BuyerConsumes(f), rounding)
      /\ HoldCovers(f.sellerHold, f.seller, "base", f.qty, rounding)
      BY <1>1 DEF SettleStatus
<1>3. /\ HoldHas(f.buyerHold, f.buyer, "quote", BuyerConsumes(f))
      /\ HoldHas(f.sellerHold, f.seller, "base", f.qty)
      BY <1>2 DEF HoldCovers, HoldHas, Less
<1>4. /\ f.trade \notin settled
      /\ f.buyer \in DOMAIN accounts /\ f.seller \in DOMAIN accounts /\ f.qty # 0
      /\ ~(accounts[f.buyer].frozenQuote < BuyerConsumes(f))
      /\ ~(accounts[f.seller].frozenBase < f.qty)
      BY <1>1 DEF SettleStatus, Less
<1> QED BY <1>3, <1>4 DEF Settleable

\* Both sides of a fill: the two holds are of different assets, so they are
\* different, and consuming the buyer's leaves the seller's as it was checked.
LEMMA SettlementHolds ==
    ASSUME NEW owners, HoldsOK(holds, owners), NEW f \in Fills, BuyerConsumes(f) \in Nat,
           f.qty \in Nat,
           HoldHas(f.buyerHold, f.buyer, "quote", BuyerConsumes(f)),
           HoldHas(f.sellerHold, f.seller, "base", f.qty)
    PROVE  HoldsOK(Consume(Consume(holds, f.buyerHold, BuyerConsumes(f)), f.sellerHold, f.qty),
                   owners)
<1> DEFINE first == Consume(holds, f.buyerHold, BuyerConsumes(f))
<1>1. /\ f.buyerHold # NoHold =>
            /\ f.buyerHold \in DOMAIN holds /\ holds[f.buyerHold].asset = "quote"
            /\ holds[f.buyerHold].amount >= BuyerConsumes(f)
      /\ f.sellerHold # NoHold =>
            /\ f.sellerHold \in DOMAIN holds /\ holds[f.sellerHold].asset = "base"
            /\ holds[f.sellerHold].amount >= f.qty
      BY DEF HoldHas, HoldsOK, HoldRecords
<1>2. /\ HoldsOK(first, owners)
      /\ \A x \in DOMAIN holds : x # f.buyerHold => x \in DOMAIN first /\ first[x] = holds[x]
      BY <1>1, ConsumeKeepsHolds
<1>3. f.sellerHold # NoHold => f.sellerHold # f.buyerHold
      BY <1>1
<1> HIDE DEF first
<1>4. f.sellerHold # NoHold => f.sellerHold \in DOMAIN first /\ first[f.sellerHold].amount >= f.qty
      BY <1>1, <1>2, <1>3
<1>5. HoldsOK(Consume(first, f.sellerHold, f.qty), owners)
      BY <1>2, <1>4, ConsumeKeepsHolds
<1> QED BY <1>5 DEF first

-----------------------------------------------------------------------------
(* The outbox.                                                               *)

Messages == [id : TradeIds, state : {"pending", "dispatched"}]

\* mark_outbox_dispatched changes no message id.
LEMMA DispatchKeepsMessages ==
    ASSUME NEW q \in Seq(Messages), NEW k, NEW q2,
           q2 = [q EXCEPT ![k].state = "dispatched"]
    PROVE  /\ q2 \in Seq(Messages)
           /\ DOMAIN q2 = DOMAIN q
           /\ \A i \in DOMAIN q : q2[i].id = q[i].id
<1>1. CASE k \in DOMAIN q
  <2>1. k \in 1..Len(q) /\ q[k] \in Messages
        BY <1>1
  <2>2. [q[k] EXCEPT !.state = "dispatched"] \in Messages
        BY <2>1 DEF Messages
  <2>3. q2 = [q EXCEPT ![k] = [q[k] EXCEPT !.state = "dispatched"]]
        BY <1>1
  <2>4. q2 \in Seq(Messages)
        BY <2>1, <2>2, <2>3, ExceptSeq
  <2>5. [q[k] EXCEPT !.state = "dispatched"].id = q[k].id
        BY <2>1 DEF Messages
  <2>6. /\ DOMAIN q2 = DOMAIN q
        /\ \A i \in DOMAIN q : q2[i] = IF i = k THEN [q[k] EXCEPT !.state = "dispatched"] ELSE q[i]
        BY <2>3, <1>1
  <2> QED BY <2>4, <2>5, <2>6
<1>2. CASE k \notin DOMAIN q
  <2>1. q2 = [i \in DOMAIN q |-> q[i]]
        BY <1>2
  <2>2. q = [i \in 1..Len(q) |-> q[i]] /\ DOMAIN q = 1..Len(q)
        OBVIOUS
  <2>3. q2 = q
        BY <2>1, <2>2
  <2> QED BY <2>3
<1> QED BY <1>1, <1>2

-----------------------------------------------------------------------------
IInv ==
    /\ DOMAIN accounts \subseteq Accounts
    /\ LedgerOK(accounts, journal, opening)
    /\ HoldsOK(holds, DOMAIN accounts)
    /\ settled \subseteq TradeIds
    /\ outbox \in Seq(Messages)
    /\ fees \in Nat
    /\ OneMessagePerTrade

\* The empty ledger satisfies the invariant.
LEMMA InitIInv == Init => IInv
<1> SUFFICES ASSUME Init PROVE IInv
    OBVIOUS
<1>1. /\ DOMAIN accounts = {} /\ DOMAIN holds = {} /\ DOMAIN journal = {} /\ DOMAIN opening = {}
      /\ settled = {} /\ fees = 0 /\ outbox = << >>
      BY DEF Init, EmptyMap
<1>2. outbox \in Seq(Messages) /\ OneMessagePerTrade
      BY <1>1 DEF OneMessagePerTrade
<1> QED BY <1>1, <1>2 DEF IInv, LedgerOK, HoldsOK

\* upsert_account preserves the invariant.
LEMMA UpsertIInv ==
    ASSUME IInv, NEW a \in Accounts, NEW o \in Openings, UpsertAccount(a, o)
    PROVE  IInv'
<1>1. /\ accounts' = With(accounts, a, o) /\ opening' = With(opening, a, o)
      /\ journal' = With(journal, a, Nothing)
      /\ UNCHANGED <<holds, settled, outbox, fees>>
      BY DEF UpsertAccount
<1>2. o \in Balance /\ Nothing \in Balance /\ Plus(o, Nothing) = o
      BY NothingIsNeutral, OpeningsAssumption
<1>3. LedgerOK(accounts', journal', opening')
      BY <1>1, <1>2 DEF IInv, LedgerOK, With
<1>4. DOMAIN accounts' = DOMAIN accounts \cup {a}
      BY <1>1 DEF With
<1>5. HoldsOK(holds', DOMAIN accounts')
      BY <1>1, <1>4 DEF IInv, HoldsOK, HoldRecords
<1>6. OneMessagePerTrade'
      BY <1>1 DEF IInv, OneMessagePerTrade
<1> QED BY <1>1, <1>3, <1>4, <1>5, <1>6 DEF IInv

\* freeze_quote and freeze_base preserve the invariant.
LEMMA FreezeIInv ==
    ASSUME IInv, NEW a \in Accounts, NEW h \in HoldIds, NEW asset \in Assets,
           NEW n \in Amounts, Freeze(a, h, asset, n)
    PROVE  IInv'
<1>1. UNCHANGED <<settled, outbox, opening, fees>> /\ OneMessagePerTrade'
      BY DEF Freeze, IInv, OneMessagePerTrade
<1>2. CASE status' = "applied"
  <2>1. a \in DOMAIN accounts /\ n \in Nat \ {0} /\ n \in Int
        BY <1>2, NumbersAssumption, FreezeChecked DEF Freezable
  <2>2. /\ accounts' = Post(accounts, a, FreezeDelta(asset, n))
        /\ journal' = Post(journal, a, FreezeDelta(asset, n))
        /\ holds' = With(holds, h, [account |-> a, asset |-> asset, amount |-> n])
        BY <1>2 DEF Freeze
  <2>3. FreezeDelta(asset, n) \in Balance /\ Equity(FreezeDelta(asset, n)) = 0
        BY <2>1, FreezeDeltas
  <2>4. LedgerOK(accounts', journal', opening')
        BY <1>1, <2>1, <2>2, <2>3, PostKeepsLedger DEF IInv
  <2>5. DOMAIN accounts' = DOMAIN accounts
        BY <2>1, <2>2, PostFacts
  <2>6. HoldsOK(holds', DOMAIN accounts')
        BY <2>1, <2>2, <2>5 DEF IInv, HoldsOK, HoldRecords, With
  <2> QED BY <1>1, <2>4, <2>5, <2>6 DEF IInv
<1>3. CASE status' # "applied"
      BY <1>1, <1>3 DEF Freeze, IInv
<1> QED BY <1>2, <1>3

\* release_hold preserves the invariant.
LEMMA ReleaseIInv ==
    ASSUME IInv, NEW h \in HoldIds, ReleaseHold(h)
    PROVE  IInv'
<1>1. UNCHANGED <<settled, outbox, opening, fees>> /\ OneMessagePerTrade'
      BY DEF ReleaseHold, IInv, OneMessagePerTrade
<1>2. CASE h \in DOMAIN holds
  <2>1. holds[h] \in HoldRecords(DOMAIN accounts)
        BY <1>2 DEF IInv, HoldsOK
  <2> DEFINE a == holds[h].account
             d == ReleaseDelta(holds[h])
  <2>2. a \in DOMAIN accounts /\ holds[h].amount \in Int
        BY <2>1 DEF HoldRecords
  <2>3. /\ accounts' = Post(accounts, a, d)
        /\ journal' = Post(journal, a, d)
        /\ holds' = Without(holds, h)
        BY <1>2, <2>2 DEF ReleaseHold
  <2>4. d \in Balance /\ Equity(d) = 0
        BY <2>2, ReleaseDeltas
  <2>5. LedgerOK(accounts', journal', opening')
        BY <1>1, <2>2, <2>3, <2>4, PostKeepsLedger DEF IInv
  <2>6. DOMAIN accounts' = DOMAIN accounts
        BY <2>2, <2>3, PostFacts
  <2>7. HoldsOK(holds', DOMAIN accounts')
        BY <2>3, <2>6 DEF IInv, HoldsOK, Without
  <2> QED BY <1>1, <2>5, <2>6, <2>7 DEF IInv
<1>3. CASE h \notin DOMAIN holds
      BY <1>1, <1>3 DEF ReleaseHold, IInv
<1> QED BY <1>2, <1>3

\* settle_spot_trade preserves the invariant.
LEMMA SettleIInv ==
    ASSUME IInv, NEW f \in Fills, SettleSpotTrade(f)
    PROVE  IInv'
<1>1. UNCHANGED opening
      BY DEF SettleSpotTrade
<1>2. CASE status' = "applied"
  <2>1. /\ f.trade \notin settled
        /\ f.buyer \in DOMAIN accounts /\ f.seller \in DOMAIN accounts
        /\ HoldHas(f.buyerHold, f.buyer, "quote", BuyerConsumes(f))
        /\ HoldHas(f.sellerHold, f.seller, "base", f.qty)
        BY <1>2, SettleChecked DEF Settleable
  <2>2. /\ accounts' = Post(Post(accounts, f.buyer, BuyerDelta(f)), f.seller, SellerDelta(f))
        /\ holds' = Consume(Consume(holds, f.buyerHold, BuyerConsumes(f)), f.sellerHold, f.qty)
        /\ journal' = Post(Post(journal, f.buyer, BuyerEntry(f)), f.seller, SellerEntry(f))
        /\ outbox' = Append(outbox, Message(f.trade))
        /\ settled' = settled \cup {f.trade}
        /\ fees' = fees + BuyerFee(f) + SellerFee(f)
        BY <1>2 DEF SettleSpotTrade
  <2>3. accounts[f.seller] \in Balance /\ f.trade \in TradeIds
        BY <2>1 DEF IInv, LedgerOK, Fills
  <2>4. /\ BuyerDelta(f) \in Balance /\ Equity(BuyerDelta(f)) = 0
        /\ SellerDelta(f) \in Balance /\ Equity(SellerDelta(f)) = 0
        /\ BuyerEntry(f) = BuyerDelta(f) /\ SellerEntry(f) = SellerDelta(f)
        BY <2>3, SettlementDeltas
  <2>5. /\ BuyerFee(f) \in Nat /\ SellerFee(f) \in Nat /\ f.qty \in Nat
        /\ BuyerConsumes(f) \in Nat
        BY <2>3, SettlementAmounts DEF BuyerConsumes
  <2> DEFINE acc == Post(accounts, f.buyer, BuyerDelta(f))
             jou == Post(journal, f.buyer, BuyerDelta(f))
  <2>6. LedgerOK(acc, jou, opening) /\ DOMAIN acc = DOMAIN accounts
        BY <2>1, <2>4, PostKeepsLedger, PostFacts DEF IInv
  <2> HIDE DEF acc, jou
  <2>7. /\ LedgerOK(Post(acc, f.seller, SellerDelta(f)), Post(jou, f.seller, SellerDelta(f)), opening)
        /\ DOMAIN Post(acc, f.seller, SellerDelta(f)) = DOMAIN accounts
        BY <2>1, <2>4, <2>6, PostKeepsLedger, PostFacts
  <2>8. LedgerOK(accounts', journal', opening') /\ DOMAIN accounts' = DOMAIN accounts
        BY <1>1, <2>2, <2>4, <2>7 DEF acc, jou
  <2>9. HoldsOK(holds', DOMAIN accounts')
        BY <2>1, <2>2, <2>5, <2>8, SettlementHolds DEF IInv
  <2>10. Message(f.trade) \in Messages /\ Message(f.trade).id = f.trade
        BY <2>3 DEF Message, Messages
  <2>11. /\ outbox' \in Seq(Messages) /\ Len(outbox') = Len(outbox) + 1
         /\ \A i \in 1..Len(outbox) : outbox'[i] = outbox[i]
         /\ outbox'[Len(outbox) + 1] = Message(f.trade)
        BY <2>2, <2>10, AppendProperties DEF IInv
  <2>12. OneMessagePerTrade'
    <3>1. DOMAIN outbox = 1..Len(outbox) /\ DOMAIN outbox' = 1..Len(outbox) + 1 /\ Len(outbox) \in Nat
          BY <2>11 DEF IInv
    <3>2. {outbox[i].id : i \in DOMAIN outbox} = settled
          BY DEF IInv, OneMessagePerTrade
    <3>3. {outbox'[i].id : i \in DOMAIN outbox'} = settled'
      <4>1. ASSUME NEW i \in DOMAIN outbox' PROVE outbox'[i].id \in settled'
        <5>1. CASE i \in DOMAIN outbox
              BY <2>2, <2>11, <3>1, <3>2, <5>1
        <5>2. CASE i = Len(outbox) + 1
              BY <2>2, <2>10, <2>11, <5>2
        <5> QED BY <3>1, <5>1, <5>2
      <4>2. ASSUME NEW t \in settled' PROVE \E i \in DOMAIN outbox' : t = outbox'[i].id
        <5>1. CASE t = f.trade
              BY <2>10, <2>11, <3>1, <5>1
        <5>2. CASE t \in settled
          <6>1. PICK i \in DOMAIN outbox : outbox[i].id = t
                BY <3>2, <5>2
          <6> QED BY <2>11, <3>1, <6>1
        <5> QED BY <2>2, <5>1, <5>2
      <4> QED BY <4>1, <4>2
    <3>4. ASSUME NEW i \in DOMAIN outbox', NEW j \in DOMAIN outbox', outbox'[i].id = outbox'[j].id
          PROVE  i = j
      <4>1. \A k \in DOMAIN outbox : outbox[k].id # f.trade
            BY <2>1, <3>2
      <4>2. \A k, l \in DOMAIN outbox : outbox[k].id = outbox[l].id => k = l
            BY DEF IInv, OneMessagePerTrade
      <4> QED BY <2>10, <2>11, <3>1, <3>4, <4>1, <4>2
    <3> QED BY <3>3, <3>4 DEF OneMessagePerTrade
  <2>13. settled' \subseteq TradeIds /\ fees' \in Nat
        BY <2>2, <2>3, <2>5 DEF IInv
  <2> QED BY <2>8, <2>9, <2>11, <2>12, <2>13 DEF IInv
<1>3. CASE status' # "applied"
  <2>1. UNCHANGED <<accounts, holds, journal, outbox, settled, fees>>
        BY <1>3 DEF SettleSpotTrade
  <2> QED BY <1>1, <2>1 DEF IInv, OneMessagePerTrade
<1> QED BY <1>2, <1>3

\* mark_outbox_dispatched preserves the invariant.
LEMMA MarkIInv ==
    ASSUME IInv, NEW t \in TradeIds, MarkDispatched(t)
    PROVE  IInv'
<1>1. UNCHANGED <<accounts, holds, settled, journal, opening, fees>>
      BY DEF MarkDispatched
<1>2. \/ outbox' = outbox
      \/ \E k : outbox' = [outbox EXCEPT ![k].state = "dispatched"]
      BY DEF MarkDispatched
<1>3. /\ outbox' \in Seq(Messages)
      /\ DOMAIN outbox' = DOMAIN outbox
      /\ \A i \in DOMAIN outbox : outbox'[i].id = outbox[i].id
      BY <1>2, DispatchKeepsMessages DEF IInv
<1>4. OneMessagePerTrade'
      BY <1>1, <1>3 DEF IInv, OneMessagePerTrade
<1> QED BY <1>1, <1>3, <1>4 DEF IInv

\* Every call preserves the invariant.
LEMMA NextIInv == IInv /\ [Next]_vars => IInv'
<1> SUFFICES ASSUME IInv, [Next]_vars PROVE IInv'
    OBVIOUS
<1>1. CASE UNCHANGED vars
      BY <1>1 DEF vars, IInv, OneMessagePerTrade
<1>2. ASSUME NEW a \in Accounts, NEW o \in Openings, UpsertAccount(a, o) PROVE IInv'
      BY <1>2, UpsertIInv
<1>3. ASSUME NEW a \in Accounts, NEW h \in HoldIds, NEW asset \in Assets, NEW n \in Amounts,
             Freeze(a, h, asset, n)
      PROVE  IInv'
      BY <1>3, FreezeIInv
<1>4. ASSUME NEW h \in HoldIds, ReleaseHold(h) PROVE IInv'
      BY <1>4, ReleaseIInv
<1>5. ASSUME NEW f \in Fills, SettleSpotTrade(f) PROVE IInv'
      BY <1>5, SettleIInv
<1>6. ASSUME NEW t \in TradeIds, MarkDispatched(t) PROVE IInv'
      BY <1>6, MarkIInv
<1> QED BY <1>1, <1>2, <1>3, <1>4, <1>5, <1>6 DEF Next

-----------------------------------------------------------------------------
\* All of the ledger's state keeps its type; in particular every hold that is
\* kept has something in it and belongs to an account that exists.
THEOREM TypeCorrectness == Spec => []TypeOK
<1>1. IInv => TypeOK
      BY DEF IInv, TypeOK, LedgerOK, HoldsOK, HoldRecords, Messages
<1> QED BY <1>1, InitIInv, NextIInv, PTL DEF Spec

\* At any moment the opening balance plus the journal's deltas is the balance,
\* for every account and each of the six figures.
THEOREM JournalComplete == Spec => []JournalExplainsBalances
<1>1. IInv => JournalExplainsBalances
      BY DEF IInv, LedgerOK, JournalExplainsBalances
<1> QED BY <1>1, InitIInv, NextIInv, PTL DEF Spec

\* Settlement makes and loses no money for any account, at any price, quantity
\* and fee rate, even one that trades with itself.
THEOREM EquityInvariant == Spec => []EquityPreserved
<1>1. IInv => EquityPreserved
      BY DEF IInv, LedgerOK, EquityPreserved
<1> QED BY <1>1, InitIInv, NextIInv, PTL DEF Spec

\* A trade id is settled and announced at most once, however often its fill is
\* delivered.
THEOREM SettlementIdempotent == Spec => []OneMessagePerTrade
<1>1. IInv => OneMessagePerTrade
      BY DEF IInv
<1> QED BY <1>1, InitIInv, NextIInv, PTL DEF Spec

-----------------------------------------------------------------------------
(* Frozen balances and holds.                                                *)

\* Held, of any map of holds.
HeldOf(hs, a, asset) ==
    SumFunctionOnSet([h \in DOMAIN hs |-> hs[h].amount],
                     {h \in DOMAIN hs : hs[h].account = a /\ hs[h].asset = asset})

AmountsOK(hs) == IsFiniteSet(DOMAIN hs) /\ \A h \in DOMAIN hs : hs[h].amount \in Nat

\* What the hold h of hs reserves of an account's asset.
Share(hs, h, a, asset) ==
    IF h \in DOMAIN hs /\ hs[h].account = a /\ hs[h].asset = asset THEN hs[h].amount ELSE 0

\* hs and hs2 have the same holds, but for h.
SameBut(hs, hs2, h) ==
    DOMAIN hs \ {h} = DOMAIN hs2 \ {h} /\ \A x \in DOMAIN hs \ {h} : hs2[x] = hs[x]

\* What is reserved is never negative.
LEMMA HeldType ==
    ASSUME NEW hs, AmountsOK(hs), NEW a, NEW asset
    PROVE  HeldOf(hs, a, asset) \in Nat
<1>1. PICK f : f = [h \in DOMAIN hs |-> hs[h].amount]
      OBVIOUS
<1>2. PICK A : A = {h \in DOMAIN hs : hs[h].account = a /\ hs[h].asset = asset}
      OBVIOUS
<1>3. IsFiniteSet(A) /\ \A h \in A : f[h] \in Nat
      BY <1>1, <1>2, FS_Subset DEF AmountsOK
<1>4. SumFunctionOnSet(f, A) \in Nat
      BY <1>3, SumIsNat
<1> QED BY <1>1, <1>2, <1>4 DEF HeldOf

\* A change of one hold changes what is reserved by the change of its share.
LEMMA HeldChanges ==
    ASSUME NEW hs, AmountsOK(hs), NEW hs2, AmountsOK(hs2), NEW h, SameBut(hs, hs2, h),
           NEW a, NEW asset
    PROVE  HeldOf(hs2, a, asset)
             = HeldOf(hs, a, asset) + Share(hs2, h, a, asset) - Share(hs, h, a, asset)
<1>1. PICK f : f = [x \in DOMAIN hs |-> hs[x].amount]
      OBVIOUS
<1>2. PICK g : g = [x \in DOMAIN hs2 |-> hs2[x].amount]
      OBVIOUS
<1>3. PICK A : A = {x \in DOMAIN hs : hs[x].account = a /\ hs[x].asset = asset}
      OBVIOUS
<1>4. PICK B : B = {x \in DOMAIN hs2 : hs2[x].account = a /\ hs2[x].asset = asset}
      OBVIOUS
<1>5. IsFiniteSet(A) /\ IsFiniteSet(B)
      BY <1>3, <1>4, FS_Subset DEF AmountsOK
<1>6. (\A x \in A : f[x] \in Int) /\ (\A x \in B : g[x] \in Int)
      BY <1>1, <1>2, <1>3, <1>4 DEF AmountsOK
<1>7. A \ {h} = B \ {h} /\ \A x \in A \ {h} : g[x] = f[x]
      BY <1>1, <1>2, <1>3, <1>4 DEF SameBut
<1>8. SumFunctionOnSet(g, B) = SumFunctionOnSet(f, A) + (IF h \in B THEN g[h] ELSE 0)
                                                     - (IF h \in A THEN f[h] ELSE 0)
      BY <1>5, <1>6, <1>7, SumChange
<1>9. /\ (IF h \in B THEN g[h] ELSE 0) = Share(hs2, h, a, asset)
      /\ (IF h \in A THEN f[h] ELSE 0) = Share(hs, h, a, asset)
      BY <1>1, <1>2, <1>3, <1>4 DEF Share
<1> QED BY <1>1, <1>2, <1>3, <1>4, <1>8, <1>9 DEF HeldOf

BooksAgree(acc, hs) ==
    \A a \in DOMAIN acc :
        acc[a].frozenQuote = HeldOf(hs, a, "quote") /\ acc[a].frozenBase = HeldOf(hs, a, "base")

\* A posting to account a and a change of hold h that say the same.
SameMove(acc, a, d, hs, hs2, h) ==
    \A x \in DOMAIN acc :
        /\ Share(hs2, h, x, "quote") = Share(hs, h, x, "quote") + (IF x = a THEN d.frozenQuote ELSE 0)
        /\ Share(hs2, h, x, "base") = Share(hs, h, x, "base") + (IF x = a THEN d.frozenBase ELSE 0)

\* Such a pair keeps the books in agreement.
LEMMA MoveKeepsBooks ==
    ASSUME NEW acc, NEW hs, BooksAgree(acc, hs), AmountsOK(hs), NEW hs2, AmountsOK(hs2),
           NEW h, SameBut(hs, hs2, h), NEW a \in DOMAIN acc, NEW d \in Balance,
           \A x \in DOMAIN acc : acc[x] \in Balance, SameMove(acc, a, d, hs, hs2, h)
    PROVE  BooksAgree(Post(acc, a, d), hs2)
<1>1. PICK acc2 : acc2 = Post(acc, a, d)
      OBVIOUS
<1>2. /\ DOMAIN acc2 = DOMAIN acc
      /\ \A x \in DOMAIN acc : acc2[x] = IF x = a THEN Plus(acc[a], d) ELSE acc[x]
      BY <1>1, PostFacts
<1>3. ASSUME NEW x \in DOMAIN acc
      PROVE  acc2[x].frozenQuote = HeldOf(hs2, x, "quote") /\ acc2[x].frozenBase = HeldOf(hs2, x, "base")
  <2>1. /\ acc2[x].frozenQuote = acc[x].frozenQuote + (IF x = a THEN d.frozenQuote ELSE 0)
        /\ acc2[x].frozenBase = acc[x].frozenBase + (IF x = a THEN d.frozenBase ELSE 0)
        BY <1>2, <1>3 DEF Plus, Delta, Balance
  <2>2. /\ HeldOf(hs2, x, "quote") = HeldOf(hs, x, "quote") + Share(hs2, h, x, "quote") - Share(hs, h, x, "quote")
        /\ HeldOf(hs2, x, "base") = HeldOf(hs, x, "base") + Share(hs2, h, x, "base") - Share(hs, h, x, "base")
        BY HeldChanges
  <2>3. /\ acc[x].frozenQuote = HeldOf(hs, x, "quote") /\ acc[x].frozenBase = HeldOf(hs, x, "base")
        /\ Share(hs2, h, x, "quote") = Share(hs, h, x, "quote") + (IF x = a THEN d.frozenQuote ELSE 0)
        /\ Share(hs2, h, x, "base") = Share(hs, h, x, "base") + (IF x = a THEN d.frozenBase ELSE 0)
        BY DEF BooksAgree, SameMove
  <2>4. HeldOf(hs, x, "quote") \in Int /\ HeldOf(hs, x, "base") \in Int
        BY HeldType
  <2>5. Share(hs, h, x, "quote") \in Int /\ Share(hs, h, x, "base") \in Int
        BY DEF Share, AmountsOK
  <2>6. d.frozenQuote \in Int /\ d.frozenBase \in Int
        BY DEF Balance
  <2> QED BY <2>1, <2>2, <2>3, <2>4, <2>5, <2>6
<1> QED BY <1>1, <1>2, <1>3 DEF BooksAgree

\* The frozen part of a delta of one asset.
Frozen(d, asset, n) ==
    /\ d.frozenQuote = IF asset = "quote" THEN n ELSE 0
    /\ d.frozenBase = IF asset = "base" THEN n ELSE 0

\* consume_hold_amount takes the amount from its hold and no other.
LEMMA ConsumeMoves ==
    ASSUME NEW hs, NEW owners, HoldsOK(hs, owners), IsFiniteSet(DOMAIN hs),
           NEW h \in DOMAIN hs, h # NoHold, NEW amount \in Nat, hs[h].amount >= amount,
           NEW acc, NEW d \in Balance, Frozen(d, hs[h].asset, -amount)
    PROVE  /\ IsFiniteSet(DOMAIN Consume(hs, h, amount))
           /\ SameBut(hs, Consume(hs, h, amount), h)
           /\ SameMove(acc, hs[h].account, d, hs, Consume(hs, h, amount), h)
<1>1. PICK r : r = hs[h]
      OBVIOUS
<1>2. PICK hs2 : hs2 = Consume(hs, h, amount)
      OBVIOUS
<1>3. r \in HoldRecords(owners) /\ r.amount \in Nat /\ r.amount >= amount /\ r.asset \in Assets
      BY <1>1 DEF HoldsOK, HoldRecords
<1>4. CASE r.amount = amount
  <2>1. hs2 = Without(hs, h)
        BY <1>1, <1>2, <1>4 DEF Consume
  <2>2. DOMAIN hs2 = DOMAIN hs \ {h} /\ SameBut(hs, hs2, h)
        BY <2>1 DEF Without, SameBut
  <2>3. IsFiniteSet(DOMAIN hs2)
        BY <2>2, FS_Subset
  <2>4. SameMove(acc, r.account, d, hs, hs2, h)
        BY <1>1, <1>3, <1>4, <2>2 DEF SameMove, Share, Frozen, Assets
  <2> QED BY <1>1, <1>2, <2>2, <2>3, <2>4
<1>5. CASE r.amount # amount
  <2>1. hs2 = [hs EXCEPT ![h] = [r EXCEPT !.amount = r.amount - amount]]
        BY <1>1, <1>2, <1>5 DEF Consume
  <2>2. PICK r2 : r2 = [r EXCEPT !.amount = r.amount - amount]
        OBVIOUS
  <2>3. r2.account = r.account /\ r2.asset = r.asset /\ r2.amount = r.amount - amount
        BY <1>3, <2>2 DEF HoldRecords
  <2>4. DOMAIN hs2 = DOMAIN hs /\ hs2[h] = r2 /\ SameBut(hs, hs2, h)
        BY <2>1, <2>2 DEF SameBut
  <2>5. SameMove(acc, r.account, d, hs, hs2, h)
        BY <1>1, <1>3, <2>3, <2>4 DEF SameMove, Share, Frozen, Assets
  <2> QED BY <1>1, <1>2, <2>4, <2>5
<1> QED BY <1>4, <1>5

\* The inductive invariant behind FrozenIsHeld.
HeldInv == IInv /\ IsFiniteSet(DOMAIN holds) /\ BooksAgree(accounts, holds)

\* In the terms of the model.
LEMMA HeldInvMeans == HeldInv => FrozenIsHeld
  BY DEF HeldInv, BooksAgree, HeldOf, FrozenIsHeld, Held

\* The amounts of typed holds.
LEMMA TypedAmounts ==
    ASSUME NEW hs, NEW owners, HoldsOK(hs, owners), IsFiniteSet(DOMAIN hs)
    PROVE  AmountsOK(hs)
  BY DEF HoldsOK, HoldRecords, AmountsOK

\* upsert_account of a new account: no hold can name it yet.
LEMMA UpsertHeld ==
    ASSUME HeldInv, Reopened = {}, NEW a \in Accounts, NEW o \in Openings, UpsertAccount(a, o)
    PROVE  IsFiniteSet(DOMAIN holds') /\ BooksAgree(accounts', holds')
<1>1. a \notin DOMAIN accounts /\ accounts' = With(accounts, a, o) /\ holds' = holds
      BY DEF UpsertAccount
<1>2. /\ DOMAIN accounts' = DOMAIN accounts \cup {a}
      /\ \A x \in DOMAIN accounts' : accounts'[x] = IF x = a THEN o ELSE accounts[x]
      BY <1>1 DEF With
<1>3. \A asset : HeldOf(holds, a, asset) = 0
  <2> TAKE asset
  <2>1. {h \in DOMAIN holds : holds[h].account = a /\ holds[h].asset = asset} = {}
        BY <1>1 DEF HeldInv, IInv, HoldsOK, HoldRecords
  <2>2. PICK f : f = [h \in DOMAIN holds |-> holds[h].amount]
        OBVIOUS
  <2>3. IsFiniteSet({}) /\ \A x \in {} : f[x] \in Int
        BY FS_EmptySet
  <2>4. SumFunctionOnSet(f, {}) = 0
        BY <2>3, SumSplits
  <2> QED BY <2>1, <2>2, <2>4 DEF HeldOf
<1>4. o.frozenQuote = 0 /\ o.frozenBase = 0
      BY OpeningsAssumption
<1>5. ASSUME NEW x \in DOMAIN accounts'
      PROVE  /\ accounts'[x].frozenQuote = HeldOf(holds, x, "quote")
             /\ accounts'[x].frozenBase = HeldOf(holds, x, "base")
      BY <1>2, <1>3, <1>4, <1>5 DEF HeldInv, BooksAgree
<1>6. BooksAgree(accounts', holds')
      BY <1>1, <1>5 DEF BooksAgree
<1> QED BY <1>1, <1>6 DEF HeldInv

\* freeze_quote and freeze_base.
LEMMA FreezeHeld ==
    ASSUME HeldInv, NEW a \in Accounts, NEW h \in HoldIds, NEW asset \in Assets,
           NEW n \in Amounts, Freeze(a, h, asset, n)
    PROVE  IsFiniteSet(DOMAIN holds') /\ BooksAgree(accounts', holds')
<1>1. CASE status' = "applied"
  <2>1. a \in DOMAIN accounts /\ n \in Nat /\ n \in Int /\ h \notin DOMAIN holds
        BY <1>1, NumbersAssumption, FreezeChecked DEF Freezable
  <2>2. PICK r : r = [account |-> a, asset |-> asset, amount |-> n]
        OBVIOUS
  <2>3. PICK d : d = FreezeDelta(asset, n)
        OBVIOUS
  <2>4. PICK hs : hs = holds
        OBVIOUS
  <2>5. PICK hs2 : hs2 = With(hs, h, r)
        OBVIOUS
  <2>6. accounts' = Post(accounts, a, d) /\ holds' = hs2
        BY <1>1, <2>2, <2>3, <2>4, <2>5 DEF Freeze
  <2>7. DOMAIN hs2 = DOMAIN hs \cup {h} /\ hs2[h] = r /\ SameBut(hs, hs2, h)
        BY <2>5 DEF With, SameBut
  <2>8. d \in Balance /\ Frozen(d, asset, n)
        BY <2>1, <2>3 DEF FreezeDelta, Delta, Balance, Frozen, Assets
  <2>9. SameMove(accounts, a, d, hs, hs2, h)
        BY <2>1, <2>2, <2>4, <2>7, <2>8 DEF SameMove, Share, Frozen, Assets
  <2>10. IsFiniteSet(DOMAIN hs2) /\ AmountsOK(hs)
        BY <2>4, <2>7, FS_AddElement, TypedAmounts DEF HeldInv, IInv
  <2>11. AmountsOK(hs2)
        BY <2>1, <2>2, <2>5, <2>7, <2>10 DEF AmountsOK, With
  <2>12. BooksAgree(Post(accounts, a, d), hs2)
        BY <2>1, <2>4, <2>7, <2>8, <2>9, <2>10, <2>11, MoveKeepsBooks
           DEF HeldInv, IInv, LedgerOK
  <2> QED BY <2>6, <2>10, <2>12
<1>2. CASE status' # "applied"
      BY <1>2 DEF Freeze, HeldInv
<1> QED BY <1>1, <1>2

\* release_hold.
LEMMA ReleaseHeld ==
    ASSUME HeldInv, NEW h \in HoldIds, ReleaseHold(h)
    PROVE  IsFiniteSet(DOMAIN holds') /\ BooksAgree(accounts', holds')
<1>1. CASE h \in DOMAIN holds
  <2>1. PICK hs : hs = holds
        OBVIOUS
  <2>2. PICK r : r = hs[h]
        OBVIOUS
  <2>3. PICK d : d = ReleaseDelta(r)
        OBVIOUS
  <2>4. PICK hs2 : hs2 = Without(hs, h)
        OBVIOUS
  <2>5. r \in HoldRecords(DOMAIN accounts)
        BY <1>1, <2>1, <2>2 DEF HeldInv, IInv, HoldsOK
  <2>6. r.account \in DOMAIN accounts /\ r.amount \in Nat /\ r.asset \in Assets
        BY <2>5 DEF HoldRecords
  <2>7. accounts' = Post(accounts, r.account, d) /\ holds' = hs2
        BY <1>1, <2>1, <2>2, <2>3, <2>4, <2>6 DEF ReleaseHold
  <2>8. DOMAIN hs2 = DOMAIN hs \ {h} /\ SameBut(hs, hs2, h)
        BY <2>4 DEF Without, SameBut
  <2>9. d \in Balance /\ Frozen(d, r.asset, -r.amount)
        BY <2>3, <2>6 DEF ReleaseDelta, Delta, Balance, Frozen, Assets
  <2>10. SameMove(accounts, r.account, d, hs, hs2, h)
        BY <1>1, <2>1, <2>2, <2>6, <2>8, <2>9 DEF SameMove, Share, Frozen, Assets
  <2>11. IsFiniteSet(DOMAIN hs) /\ AmountsOK(hs)
        BY <2>1, TypedAmounts DEF HeldInv, IInv
  <2>12. IsFiniteSet(DOMAIN hs2)
        BY <2>8, <2>11, FS_Subset
  <2>13. AmountsOK(hs2)
        BY <2>4, <2>8, <2>11, <2>12 DEF AmountsOK, Without
  <2>14. BooksAgree(Post(accounts, r.account, d), hs2)
        BY <2>1, <2>6, <2>8, <2>9, <2>10, <2>11, <2>13, MoveKeepsBooks
           DEF HeldInv, IInv, LedgerOK
  <2> QED BY <2>7, <2>12, <2>14
<1>2. CASE h \notin DOMAIN holds
      BY <1>2 DEF ReleaseHold, HeldInv
<1> QED BY <1>1, <1>2

\* What settle_spot_trade has checked and what it does, when it applies f.
Applied(f) ==
    /\ f.buyer \in DOMAIN accounts /\ f.seller \in DOMAIN accounts
    /\ f.qty \in Nat \ {0} /\ BuyerConsumes(f) \in Nat
    /\ accounts[f.buyer].frozenQuote >= BuyerConsumes(f) /\ accounts[f.seller].frozenBase >= f.qty
    /\ HoldHas(f.buyerHold, f.buyer, "quote", BuyerConsumes(f))
    /\ HoldHas(f.sellerHold, f.seller, "base", f.qty)
    /\ BuyerDelta(f) \in Balance /\ SellerDelta(f) \in Balance
    /\ accounts' = Post(Post(accounts, f.buyer, BuyerDelta(f)), f.seller, SellerDelta(f))
    /\ holds' = Consume(Consume(holds, f.buyerHold, BuyerConsumes(f)), f.sellerHold, f.qty)
    /\ fees' = fees + BuyerFee(f) + SellerFee(f)

\* settle_spot_trade applies the fill or leaves everything alone.
LEMMA SettleCases ==
    ASSUME IInv, NEW f \in Fills, SettleSpotTrade(f)
    PROVE  Applied(f) \/ UNCHANGED <<accounts, holds, fees>>
<1>1. CASE status' = "applied"
  <2>1. /\ f.buyer \in DOMAIN accounts /\ f.seller \in DOMAIN accounts /\ f.qty # 0
        /\ ~(accounts[f.buyer].frozenQuote < BuyerConsumes(f))
        /\ ~(accounts[f.seller].frozenBase < f.qty)
        /\ HoldHas(f.buyerHold, f.buyer, "quote", BuyerConsumes(f))
        /\ HoldHas(f.sellerHold, f.seller, "base", f.qty)
        BY <1>1, SettleChecked DEF Settleable
  <2>2. accounts[f.seller] \in Balance /\ accounts[f.buyer] \in Balance
        BY <2>1 DEF IInv, LedgerOK
  <2>3. BuyerDelta(f) \in Balance /\ SellerDelta(f) \in Balance
        BY <2>2, SettlementDeltas
  <2>4. /\ BuyerFee(f) \in Nat /\ SellerFee(f) \in Nat /\ f.qty \in Nat
        /\ BuyerConsumes(f) \in Nat
        BY <2>2, SettlementAmounts DEF BuyerConsumes
  <2>5. accounts[f.buyer].frozenQuote >= BuyerConsumes(f) /\ accounts[f.seller].frozenBase >= f.qty
        BY <2>1, <2>2, <2>4 DEF Balance
  <2> QED BY <1>1, <2>1, <2>3, <2>4, <2>5 DEF SettleSpotTrade, Applied
<1>2. CASE status' # "applied"
      BY <1>2 DEF SettleSpotTrade
<1> QED BY <1>1, <1>2

\* One side of a fill: the posting to the account and the use of its hold.
LEMMA SideKeepsBooks ==
    ASSUME NEW acc, NEW hs, NEW owners, BooksAgree(acc, hs), HoldsOK(hs, owners),
           IsFiniteSet(DOMAIN hs), NEW a \in DOMAIN acc, NEW d \in Balance,
           \A x \in DOMAIN acc : acc[x] \in Balance,
           NEW h \in DOMAIN hs, h # NoHold, NEW amount \in Nat, hs[h].amount >= amount,
           hs[h].account = a, Frozen(d, hs[h].asset, -amount)
    PROVE  /\ BooksAgree(Post(acc, a, d), Consume(hs, h, amount))
           /\ HoldsOK(Consume(hs, h, amount), owners)
           /\ IsFiniteSet(DOMAIN Consume(hs, h, amount))
           /\ \A x \in DOMAIN Post(acc, a, d) : Post(acc, a, d)[x] \in Balance
           /\ DOMAIN Post(acc, a, d) = DOMAIN acc
<1>1. PICK hs2 : hs2 = Consume(hs, h, amount)
      OBVIOUS
<1>2. HoldsOK(hs2, owners)
      BY <1>1, ConsumeKeepsHolds
<1>3. IsFiniteSet(DOMAIN hs2) /\ SameBut(hs, hs2, h) /\ SameMove(acc, a, d, hs, hs2, h)
      BY <1>1, ConsumeMoves
<1>4. AmountsOK(hs) /\ AmountsOK(hs2)
      BY <1>2, <1>3, TypedAmounts
<1>5. BooksAgree(Post(acc, a, d), hs2)
      BY <1>3, <1>4, MoveKeepsBooks
<1>6. /\ DOMAIN Post(acc, a, d) = DOMAIN acc
      /\ \A x \in DOMAIN acc : Post(acc, a, d)[x] = IF x = a THEN Plus(acc[a], d) ELSE acc[x]
      BY PostFacts
<1>7. \A x \in DOMAIN acc : Post(acc, a, d)[x] \in Balance
      BY <1>6, PlusType
<1> QED BY <1>1, <1>2, <1>3, <1>5, <1>6, <1>7

\* settle_spot_trade, when every fill names its holds.
LEMMA SettleHeld ==
    ASSUME HeldInv, NoHold \notin FillHolds, NEW f \in Fills, SettleSpotTrade(f)
    PROVE  IsFiniteSet(DOMAIN holds') /\ BooksAgree(accounts', holds')
<1>1. CASE Applied(f)
  <2>1. PICK n : n = BuyerConsumes(f)
        OBVIOUS
  <2>2. PICK hs : hs = holds
        OBVIOUS
  <2>3. PICK mid : mid = Consume(hs, f.buyerHold, n)
        OBVIOUS
  <2>4. PICK b : b = BuyerDelta(f)
        OBVIOUS
  <2>5. PICK s : s = SellerDelta(f)
        OBVIOUS
  <2>6. PICK acc : acc = Post(accounts, f.buyer, b)
        OBVIOUS
  <2>7. PICK owners : owners = DOMAIN accounts
        OBVIOUS
  <2>8. f.buyerHold # NoHold /\ f.sellerHold # NoHold /\ f.qty \in Nat /\ n \in Nat
        BY <1>1, <2>1 DEF Applied, Fills
  <2>9. /\ f.buyerHold \in DOMAIN hs /\ hs[f.buyerHold].account = f.buyer
        /\ hs[f.buyerHold].asset = "quote" /\ hs[f.buyerHold].amount >= n
        /\ f.sellerHold \in DOMAIN hs /\ hs[f.sellerHold].account = f.seller
        /\ hs[f.sellerHold].asset = "base" /\ hs[f.sellerHold].amount >= f.qty
        BY <1>1, <2>1, <2>2, <2>8 DEF Applied, HoldHas, HoldsOK, HoldRecords, IInv, HeldInv
  <2>10. b \in Balance /\ s \in Balance /\ f.buyer \in DOMAIN accounts /\ f.seller \in DOMAIN accounts
        BY <1>1, <2>4, <2>5 DEF Applied
  <2>11. Frozen(b, "quote", -n) /\ Frozen(s, "base", -f.qty)
        BY <2>1, <2>4, <2>5 DEF BuyerDelta, SellerDelta, Delta, Frozen
  <2>12. /\ BooksAgree(accounts, hs) /\ HoldsOK(hs, owners) /\ IsFiniteSet(DOMAIN hs)
         /\ \A x \in DOMAIN accounts : accounts[x] \in Balance
        BY <2>2, <2>7 DEF HeldInv, IInv, LedgerOK
  <2>13. /\ BooksAgree(acc, mid) /\ HoldsOK(mid, owners) /\ IsFiniteSet(DOMAIN mid)
         /\ (\A x \in DOMAIN acc : acc[x] \in Balance) /\ DOMAIN acc = DOMAIN accounts
    <3>1. Frozen(b, hs[f.buyerHold].asset, -n)
          BY <2>9, <2>11
    <3> QED BY <2>3, <2>6, <2>8, <2>9, <2>10, <2>12, <3>1, SideKeepsBooks
  <2>14. f.sellerHold \in DOMAIN mid /\ mid[f.sellerHold] = hs[f.sellerHold]
    <3>1. f.sellerHold # f.buyerHold
          BY <2>9
    <3>2. \A x \in DOMAIN hs : x # f.buyerHold => x \in DOMAIN mid /\ mid[x] = hs[x]
          BY <2>3, <2>8, <2>9, <2>12, ConsumeKeepsHolds
    <3> QED BY <2>9, <3>1, <3>2
  <2>15. /\ BooksAgree(Post(acc, f.seller, s), Consume(mid, f.sellerHold, f.qty))
         /\ IsFiniteSet(DOMAIN Consume(mid, f.sellerHold, f.qty))
    <3>1. /\ Frozen(s, mid[f.sellerHold].asset, -f.qty) /\ mid[f.sellerHold].amount >= f.qty
          /\ mid[f.sellerHold].account = f.seller /\ f.seller \in DOMAIN acc
          BY <2>9, <2>10, <2>11, <2>13, <2>14
    <3> QED BY <2>8, <2>10, <2>13, <2>14, <3>1, SideKeepsBooks
  <2>16. /\ accounts' = Post(acc, f.seller, s)
         /\ holds' = Consume(mid, f.sellerHold, f.qty)
        BY <1>1, <2>1, <2>2, <2>3, <2>4, <2>5, <2>6 DEF Applied
  <2> QED BY <2>15, <2>16
<1>2. CASE UNCHANGED <<accounts, holds, fees>>
      BY <1>2 DEF HeldInv
<1> QED BY <1>1, <1>2, SettleCases DEF HeldInv

\* The empty ledger, and every call.
LEMMA HeldInductive ==
    ASSUME Reopened = {}, NoHold \notin FillHolds
    PROVE  (Init => HeldInv) /\ (HeldInv /\ [Next]_vars => HeldInv')
<1>1. Init => HeldInv
      BY InitIInv, FS_EmptySet DEF Init, EmptyMap, HeldInv, BooksAgree
<1>2. ASSUME HeldInv, [Next]_vars PROVE HeldInv'
  <2>1. IInv'
        BY <1>2, NextIInv DEF HeldInv
  <2>2. SUFFICES IsFiniteSet(DOMAIN holds') /\ BooksAgree(accounts', holds')
        BY <2>1 DEF HeldInv
  <2>3. CASE UNCHANGED <<accounts, holds>>
        BY <1>2, <2>3 DEF HeldInv
  <2>4. ASSUME NEW a \in Accounts, NEW o \in Openings, UpsertAccount(a, o)
        PROVE  IsFiniteSet(DOMAIN holds') /\ BooksAgree(accounts', holds')
        BY <1>2, <2>4, UpsertHeld
  <2>5. ASSUME NEW a \in Accounts, NEW h \in HoldIds, NEW asset \in Assets, NEW n \in Amounts,
               Freeze(a, h, asset, n)
        PROVE  IsFiniteSet(DOMAIN holds') /\ BooksAgree(accounts', holds')
        BY <1>2, <2>5, FreezeHeld
  <2>6. ASSUME NEW h \in HoldIds, ReleaseHold(h)
        PROVE  IsFiniteSet(DOMAIN holds') /\ BooksAgree(accounts', holds')
        BY <1>2, <2>6, ReleaseHeld
  <2>7. ASSUME NEW f \in Fills, SettleSpotTrade(f)
        PROVE  IsFiniteSet(DOMAIN holds') /\ BooksAgree(accounts', holds')
        BY <1>2, <2>7, SettleHeld
  <2>8. ASSUME NEW t \in TradeIds, MarkDispatched(t) PROVE UNCHANGED <<accounts, holds>>
        BY <2>8 DEF MarkDispatched
  <2>9. UNCHANGED vars => UNCHANGED <<accounts, holds>>
        BY DEF vars
  <2> QED BY <1>2, <2>3, <2>4, <2>5, <2>6, <2>7, <2>8, <2>9 DEF Next
<1> QED BY <1>1, <1>2

\* Where accounts are opened once and every fill names the holds it uses, what
\* is frozen is what the live holds reserve, to the unit, after any calls.
THEOREM FrozenFundsAreHeld ==
    ASSUME Reopened = {}, NoHold \notin FillHolds
    PROVE  Spec => []FrozenIsHeld
<1>1. (Init => HeldInv) /\ (HeldInv /\ [Next]_vars => HeldInv')
      BY HeldInductive
<1> QED BY <1>1, HeldInvMeans, PTL DEF Spec

-----------------------------------------------------------------------------
(* Nothing is overdrawn.                                                     *)

\* A quotient is bounded as its dividend is.
LEMMA QuotientBound ==
    ASSUME NEW m \in Nat, NEW k \in Nat \ {0}, NEW c \in Nat, m <= c * k
    PROVE  m \div k \in Nat /\ m \div k <= c
<1>1. PICK q : q = m \div k
      OBVIOUS
<1>2. q \in Nat /\ k * q <= m
      BY <1>1
<1>3. ASSUME q > c PROVE FALSE
  <2>1. q >= c + 1
        BY <1>2, <1>3
  <2>2. k * q >= k * (c + 1)
        BY <1>2, <2>1
  <2>3. k * (c + 1) = c * k + k /\ c * k \in Nat /\ k * q \in Nat
        BY <1>2
  <2> QED BY <1>2, <2>2, <2>3
<1> QED BY <1>1, <1>2, <1>3

\* A fee of at most the whole is at most the notional.
LEMMA FeeBound ==
    ASSUME MakerFeeBps <= 10000, TakerFeeBps <= 10000, NEW f \in Fills, Notional(f) \in Nat
    PROVE  SellerFee(f) <= Notional(f)
<1>1. PICK n \in Nat : n = Notional(f)
      OBVIOUS
<1>2. ASSUME NEW bps \in Nat, bps <= 10000 PROVE FeeAmount(n, bps) <= n
  <2>1. n * bps \in Nat /\ n * bps <= n * 10000
        BY <1>2
  <2> QED BY <2>1, QuotientBound DEF FeeAmount
<1>3. PICK bps \in Nat : bps <= 10000 /\ SellerFee(f) = FeeAmount(n, bps)
      BY <1>1, NumbersAssumption DEF SellerFee
<1> QED BY <1>1, <1>2, <1>3

\* The cost released is at most the cost of the position.
LEMMA CostBound ==
    ASSUME NEW s \in Balance, NEW f, accounts[f.seller] = s, f.qty \in Nat,
           s.availableBase >= 0, s.frozenBase >= f.qty, s.baseCost >= 0
    PROVE  CostReleased(f) \in Nat /\ CostReleased(f) <= s.baseCost
<1>1. PICK c : c = s.baseCost
      OBVIOUS
<1>2. PICK q : q = f.qty
      OBVIOUS
<1>3. PICK p : p = s.availableBase + s.frozenBase
      OBVIOUS
<1>4. c \in Nat /\ q \in Nat /\ p \in Nat /\ q <= p
      BY <1>1, <1>2, <1>3 DEF Balance
<1>5. CostReleased(f) = IF p > 0 THEN (c * q) \div p ELSE 0
      BY <1>1, <1>2, <1>3 DEF CostReleased
<1>6. CASE p = 0
      BY <1>1, <1>4, <1>5, <1>6
<1>7. CASE p > 0
  <2>1. c * q \in Nat /\ c * q <= c * p /\ p \in Nat \ {0}
        BY <1>4, <1>7
  <2>2. (c * q) \div p \in Nat /\ (c * q) \div p <= c
        BY <1>4, <2>1, QuotientBound
  <2> QED BY <1>1, <1>5, <1>7, <2>2
<1> QED BY <1>4, <1>6, <1>7

\* The part of reconcile_account that does not follow from the holds.
Solvent(x) == x.availableQuote >= 0 /\ x.availableBase >= 0 /\ x.baseCost >= 0

SolventInv == HeldInv /\ \A a \in DOMAIN accounts : Solvent(accounts[a])

\* reconcile_account holds in every state that satisfies the invariant.
LEMMA SolventMeans == SolventInv => AccountsReconcile
<1> SUFFICES ASSUME SolventInv, NEW a \in DOMAIN accounts
             PROVE  /\ Solvent(accounts[a])
                    /\ accounts[a].frozenQuote >= 0 /\ accounts[a].frozenBase >= 0
    BY DEF AccountsReconcile, Solvent
<1>1. AmountsOK(holds)
      BY TypedAmounts DEF SolventInv, HeldInv, IInv
<1>2. HeldOf(holds, a, "quote") \in Nat /\ HeldOf(holds, a, "base") \in Nat
      BY <1>1, HeldType
<1> QED BY <1>2 DEF SolventInv, HeldInv, BooksAgree

\* A posting that leaves its own account solvent leaves all of them so.
LEMMA PostSolvent ==
    ASSUME NEW acc, \A x \in DOMAIN acc : Solvent(acc[x]), NEW a \in DOMAIN acc, NEW d,
           Solvent(Plus(acc[a], d))
    PROVE  \A x \in DOMAIN Post(acc, a, d) : Solvent(Post(acc, a, d)[x])
  BY PostFacts

\* Settlement overdraws neither side.
LEMMA SettleSolvent ==
    ASSUME SolventInv, MakerFeeBps <= 10000, TakerFeeBps <= 10000, NEW f \in Fills, Applied(f)
    PROVE  \A a \in DOMAIN accounts' : Solvent(accounts'[a])
<1>1. PICK b : b = BuyerDelta(f)
      OBVIOUS
<1>2. PICK s : s = SellerDelta(f)
      OBVIOUS
<1>3. PICK acc : acc = Post(accounts, f.buyer, b)
      OBVIOUS
<1>4. PICK sold : sold = accounts[f.seller]
      OBVIOUS
<1>5. /\ f.buyer \in DOMAIN accounts /\ f.seller \in DOMAIN accounts
      /\ b \in Balance /\ s \in Balance /\ f.qty \in Nat
      /\ accounts' = Post(acc, f.seller, s)
      /\ sold.frozenBase >= f.qty
      BY <1>1, <1>2, <1>3, <1>4 DEF Applied
<1>6. \A x \in DOMAIN accounts : accounts[x] \in Balance /\ Solvent(accounts[x])
      BY DEF SolventInv, HeldInv, IInv, LedgerOK
<1>7. sold \in Balance /\ Solvent(sold)
      BY <1>4, <1>5, <1>6
<1>8. Notional(f) \in Nat /\ BuyerFee(f) \in Nat /\ SellerFee(f) \in Nat
      BY <1>4, <1>7, SettlementAmounts
<1>9. SellerFee(f) <= Notional(f)
      BY <1>8, FeeBound
<1>10. CostReleased(f) \in Nat /\ CostReleased(f) <= sold.baseCost
      BY <1>4, <1>5, <1>7, CostBound DEF Solvent
<1>11. b.availableQuote = 0 /\ b.availableBase = f.qty /\ b.baseCost \in Nat
      BY <1>1, <1>8 DEF BuyerDelta, BuyerConsumes, Delta
<1>12. s.availableQuote >= 0 /\ s.availableBase = 0 /\ s.baseCost = -CostReleased(f)
      BY <1>2, <1>8, <1>9 DEF SellerDelta, Delta
<1>13. Solvent(Plus(accounts[f.buyer], b))
      BY <1>5, <1>6, <1>11 DEF Solvent, Plus, Delta, Balance
<1>14. \A x \in DOMAIN acc : Solvent(acc[x])
      BY <1>3, <1>5, <1>6, <1>13, PostSolvent
<1>15. /\ DOMAIN acc = DOMAIN accounts
       /\ acc[f.seller] \in Balance /\ acc[f.seller].baseCost >= sold.baseCost
  <2>1. /\ DOMAIN acc = DOMAIN accounts
        /\ acc[f.seller] = IF f.seller = f.buyer THEN Plus(accounts[f.buyer], b) ELSE sold
        BY <1>3, <1>4, <1>5, PostFacts
  <2>2. CASE f.seller = f.buyer
    <3>1. acc[f.seller] = Plus(sold, b)
          BY <1>4, <2>1, <2>2
    <3>2. Plus(sold, b) \in Balance
          BY <1>5, <1>7, PlusType
    <3>3. Plus(sold, b).baseCost >= sold.baseCost
          BY <1>5, <1>7, <1>11 DEF Plus, Delta, Balance
    <3> QED BY <2>1, <3>1, <3>2, <3>3
  <2>3. CASE f.seller # f.buyer
        BY <1>7, <2>1, <2>3 DEF Balance
  <2> QED BY <2>2, <2>3
<1>16. Solvent(acc[f.seller])
      BY <1>5, <1>14, <1>15
<1>17. Solvent(Plus(acc[f.seller], s))
      BY <1>5, <1>7, <1>10, <1>12, <1>15, <1>16 DEF Solvent, Plus, Delta, Balance
<1> QED BY <1>5, <1>14, <1>15, <1>17, PostSolvent

\* The empty ledger, and every call.
LEMMA SolventInductive ==
    ASSUME Reopened = {}, NoHold \notin FillHolds, MakerFeeBps <= 10000, TakerFeeBps <= 10000
    PROVE  (Init => SolventInv) /\ (SolventInv /\ [Next]_vars => SolventInv')
<1>1. Init => SolventInv
  <2>1. Init => HeldInv /\ DOMAIN accounts = {}
        BY HeldInductive DEF Init, EmptyMap
  <2> QED BY <2>1 DEF SolventInv
<1>2. ASSUME SolventInv, [Next]_vars PROVE SolventInv'
  <2>1. HeldInv'
        BY <1>2, HeldInductive DEF SolventInv
  <2>2. \A x \in DOMAIN accounts : accounts[x] \in Balance /\ Solvent(accounts[x])
        BY <1>2 DEF SolventInv, HeldInv, IInv, LedgerOK
  <2>3. SUFFICES \A a \in DOMAIN accounts' : Solvent(accounts'[a])
        BY <2>1 DEF SolventInv
  <2>4. CASE UNCHANGED accounts
        BY <2>2, <2>4
  <2>5. ASSUME NEW a \in Accounts, NEW o \in Openings, UpsertAccount(a, o)
        PROVE  \A x \in DOMAIN accounts' : Solvent(accounts'[x])
    <3>1. Solvent(o)
          BY OpeningsAssumption DEF Solvent
    <3> QED BY <2>2, <2>5, <3>1 DEF UpsertAccount, With
  <2>6. ASSUME NEW a \in Accounts, NEW h \in HoldIds, NEW asset \in Assets, NEW n \in Amounts,
               Freeze(a, h, asset, n)
        PROVE  \A x \in DOMAIN accounts' : Solvent(accounts'[x])
    <3>1. CASE status' = "applied"
      <4>1. PICK d : d = FreezeDelta(asset, n)
            OBVIOUS
      <4>2. a \in DOMAIN accounts /\ accounts' = Post(accounts, a, d) /\ n \in Nat
            BY <2>6, <3>1, <4>1, NumbersAssumption, FreezeChecked DEF Freeze, Freezable
      <4>3. /\ asset = "quote" => accounts[a].availableQuote >= n
            /\ asset = "base" => accounts[a].availableBase >= n
            BY <2>2, <2>6, <3>1, <4>2, FreezeChecked DEF Freezable, Balance
      <4>4. Solvent(Plus(accounts[a], d))
            BY <2>2, <4>1, <4>2, <4>3 DEF Solvent, Plus, Delta, FreezeDelta, Balance, Assets
      <4> QED BY <2>2, <4>2, <4>4, PostSolvent
    <3>2. CASE status' # "applied"
          BY <2>4, <2>6, <3>2 DEF Freeze
    <3> QED BY <3>1, <3>2
  <2>7. ASSUME NEW h \in HoldIds, ReleaseHold(h)
        PROVE  \A x \in DOMAIN accounts' : Solvent(accounts'[x])
    <3>1. CASE UNCHANGED accounts
          BY <2>4, <3>1
    <3>2. CASE ~UNCHANGED accounts
      <4>1. PICK r : r = holds[h]
            OBVIOUS
      <4>2. PICK d : d = ReleaseDelta(r)
            OBVIOUS
      <4>3. /\ h \in DOMAIN holds /\ r.account \in DOMAIN accounts
            /\ accounts' = Post(accounts, r.account, d)
            BY <2>7, <3>2, <4>1, <4>2 DEF ReleaseHold
      <4>4. r.amount \in Nat
            BY <1>2, <4>1, <4>3 DEF SolventInv, HeldInv, IInv, HoldsOK, HoldRecords
      <4>5. Solvent(Plus(accounts[r.account], d))
            BY <2>2, <4>2, <4>3, <4>4 DEF Solvent, Plus, Delta, ReleaseDelta, Balance
      <4> QED BY <2>2, <4>3, <4>5, PostSolvent
    <3> QED BY <3>1, <3>2
  <2>8. ASSUME NEW f \in Fills, SettleSpotTrade(f)
        PROVE  \A x \in DOMAIN accounts' : Solvent(accounts'[x])
    <3>1. Applied(f) \/ UNCHANGED <<accounts, holds, fees>>
          BY <1>2, <2>8, SettleCases DEF SolventInv, HeldInv
    <3> QED BY <1>2, <2>4, <3>1, SettleSolvent
  <2>9. ASSUME NEW t \in TradeIds, MarkDispatched(t) PROVE UNCHANGED accounts
        BY <2>9 DEF MarkDispatched
  <2>10. UNCHANGED vars => UNCHANGED accounts
        BY DEF vars
  <2> QED BY <1>2, <2>4, <2>5, <2>6, <2>7, <2>8, <2>9, <2>10 DEF Next
<1> QED BY <1>1, <1>2

\* Under the same conditions, and with fees of at most the whole notional,
\* reconcile_account answers true for every account after any calls.
THEOREM AccountsAlwaysReconcile ==
    ASSUME Reopened = {}, NoHold \notin FillHolds, MakerFeeBps <= 10000, TakerFeeBps <= 10000
    PROVE  Spec => []AccountsReconcile
<1>1. (Init => SolventInv) /\ (SolventInv /\ [Next]_vars => SolventInv')
      BY SolventInductive
<1> QED BY <1>1, SolventMeans, PTL DEF Spec

-----------------------------------------------------------------------------
(* Totals over all accounts.                                                 *)

Part(x, asset) == IF asset = "base" THEN BaseOf(x) ELSE QuoteOf(x)

TotalOf(acc, asset) ==
    SumFunctionOnSet([a \in DOMAIN acc |-> Part(acc[a], asset)], DOMAIN acc)

BalancesOK(acc) == IsFiniteSet(DOMAIN acc) /\ \A a \in DOMAIN acc : acc[a] \in Balance

\* What a balance has of an asset is an integer, and adds up.
LEMMA PartType ==
    ASSUME NEW x \in Balance, NEW y \in Balance, NEW asset
    PROVE  Part(x, asset) \in Int /\ Part(Plus(x, y), asset) = Part(x, asset) + Part(y, asset)
  BY DEF Part, BaseOf, QuoteOf, Plus, Delta, Balance

\* Totals are integers.
LEMMA TotalType ==
    ASSUME NEW acc, BalancesOK(acc), NEW asset
    PROVE  TotalOf(acc, asset) \in Int
<1>1. PICK f : f = [a \in DOMAIN acc |-> Part(acc[a], asset)]
      OBVIOUS
<1>2. IsFiniteSet(DOMAIN acc) /\ \A a \in DOMAIN acc : f[a] \in Int
      BY <1>1, PartType DEF BalancesOK
<1>3. SumFunctionOnSet(f, DOMAIN acc) \in Int
      BY <1>2, SumSplits
<1> QED BY <1>1, <1>3 DEF TotalOf

\* A change of one account, or a new one, changes the totals by the difference.
LEMMA TotalChanges ==
    ASSUME NEW acc, BalancesOK(acc), NEW acc2, BalancesOK(acc2), NEW a \in DOMAIN acc2,
           DOMAIN acc \ {a} = DOMAIN acc2 \ {a}, \A x \in DOMAIN acc \ {a} : acc2[x] = acc[x],
           NEW asset
    PROVE  TotalOf(acc2, asset) = TotalOf(acc, asset) + Part(acc2[a], asset)
                                     - (IF a \in DOMAIN acc THEN Part(acc[a], asset) ELSE 0)
<1>1. PICK f : f = [x \in DOMAIN acc |-> Part(acc[x], asset)]
      OBVIOUS
<1>2. PICK g : g = [x \in DOMAIN acc2 |-> Part(acc2[x], asset)]
      OBVIOUS
<1>3. PICK A : A = DOMAIN acc
      OBVIOUS
<1>4. PICK B : B = DOMAIN acc2
      OBVIOUS
<1>5. IsFiniteSet(A) /\ IsFiniteSet(B) /\ A \ {a} = B \ {a}
      BY <1>3, <1>4 DEF BalancesOK
<1>6. \A x \in A : f[x] \in Int
      BY <1>1, <1>3, PartType DEF BalancesOK
<1>7. \A x \in B : g[x] \in Int
      BY <1>2, <1>4, PartType DEF BalancesOK
<1>8. \A x \in A \ {a} : g[x] = f[x]
      BY <1>1, <1>2, <1>3, <1>4, <1>5
<1>9. SumFunctionOnSet(g, B) = SumFunctionOnSet(f, A) + (IF a \in B THEN g[a] ELSE 0)
                                                     - (IF a \in A THEN f[a] ELSE 0)
      BY <1>5, <1>6, <1>7, <1>8, SumChange
<1>10. /\ (IF a \in B THEN g[a] ELSE 0) = Part(acc2[a], asset)
       /\ (IF a \in A THEN f[a] ELSE 0) = IF a \in DOMAIN acc THEN Part(acc[a], asset) ELSE 0
      BY <1>1, <1>2, <1>3, <1>4
<1> QED BY <1>1, <1>2, <1>3, <1>4, <1>9, <1>10 DEF TotalOf

\* A posting adds its delta to the totals.
LEMMA PostTotals ==
    ASSUME NEW acc, BalancesOK(acc), NEW a \in DOMAIN acc, NEW d \in Balance
    PROVE  /\ BalancesOK(Post(acc, a, d))
           /\ DOMAIN Post(acc, a, d) = DOMAIN acc
           /\ \A asset : TotalOf(Post(acc, a, d), asset) = TotalOf(acc, asset) + Part(d, asset)
<1>1. PICK acc2 : acc2 = Post(acc, a, d)
      OBVIOUS
<1>2. /\ DOMAIN acc2 = DOMAIN acc
      /\ \A x \in DOMAIN acc : acc2[x] = IF x = a THEN Plus(acc[a], d) ELSE acc[x]
      BY <1>1, PostFacts
<1>3. acc[a] \in Balance /\ Plus(acc[a], d) \in Balance
      BY PlusType DEF BalancesOK
<1>4. BalancesOK(acc2)
      BY <1>2, <1>3 DEF BalancesOK
<1>5. ASSUME NEW asset PROVE TotalOf(acc2, asset) = TotalOf(acc, asset) + Part(d, asset)
  <2>1. TotalOf(acc2, asset) = TotalOf(acc, asset) + Part(acc2[a], asset)
                                     - (IF a \in DOMAIN acc THEN Part(acc[a], asset) ELSE 0)
        BY <1>2, <1>4, TotalChanges
  <2>2. /\ Part(acc[a], asset) \in Int /\ Part(d, asset) \in Int
        /\ Part(acc2[a], asset) = Part(acc[a], asset) + Part(d, asset)
        BY <1>2, <1>3, PartType
  <2>3. TotalOf(acc, asset) \in Int
        BY TotalType
  <2> QED BY <2>1, <2>2, <2>3
<1> QED BY <1>1, <1>2, <1>4, <1>5

\* The inductive invariant behind TotalsPreserved.
TotalsInv ==
    /\ IInv
    /\ BalancesOK(accounts) /\ BalancesOK(opening) /\ DOMAIN opening = DOMAIN accounts
    /\ TotalOf(accounts, "base") = TotalOf(opening, "base")
    /\ TotalOf(accounts, "quote") + fees = TotalOf(opening, "quote")

\* In the terms of the model.
LEMMA TotalsMeans == TotalsInv => TotalsPreserved
<1> SUFFICES ASSUME TotalsInv PROVE TotalsPreserved
    OBVIOUS
<1>1. ASSUME NEW acc
      PROVE  /\ SumFunction([a \in DOMAIN acc |-> BaseOf(acc[a])]) = TotalOf(acc, "base")
             /\ SumFunction([a \in DOMAIN acc |-> QuoteOf(acc[a])]) = TotalOf(acc, "quote")
  <2>1. /\ DOMAIN [a \in DOMAIN acc |-> BaseOf(acc[a])] = DOMAIN acc
        /\ DOMAIN [a \in DOMAIN acc |-> QuoteOf(acc[a])] = DOMAIN acc
        OBVIOUS
  <2>2. /\ [a \in DOMAIN acc |-> BaseOf(acc[a])] = [a \in DOMAIN acc |-> Part(acc[a], "base")]
        /\ [a \in DOMAIN acc |-> QuoteOf(acc[a])] = [a \in DOMAIN acc |-> Part(acc[a], "quote")]
        BY DEF Part
  <2> QED BY <2>1, <2>2 DEF TotalOf, SumFunction
<1> QED BY <1>1 DEF TotalsInv, TotalsPreserved

\* upsert_account of a new account adds the same to both sides.
LEMMA UpsertTotals ==
    ASSUME TotalsInv, Reopened = {}, NEW a \in Accounts, NEW o \in Openings, UpsertAccount(a, o),
           IInv'
    PROVE  TotalsInv'
<1>1. PICK acc : acc = accounts
      OBVIOUS
<1>2. PICK ope : ope = opening
      OBVIOUS
<1>3. PICK acc2 : acc2 = With(acc, a, o)
      OBVIOUS
<1>4. PICK ope2 : ope2 = With(ope, a, o)
      OBVIOUS
<1>5. a \notin DOMAIN acc /\ accounts' = acc2 /\ opening' = ope2 /\ fees' = fees
      BY <1>1, <1>2, <1>3, <1>4 DEF UpsertAccount
<1>6. /\ BalancesOK(acc) /\ BalancesOK(ope) /\ DOMAIN ope = DOMAIN acc
      /\ TotalOf(acc, "base") = TotalOf(ope, "base")
      /\ TotalOf(acc, "quote") + fees = TotalOf(ope, "quote")
      /\ fees \in Nat
      BY <1>1, <1>2 DEF TotalsInv, IInv
<1>7. o \in Balance
      BY OpeningsAssumption
<1>8. ASSUME NEW m, BalancesOK(m), a \notin DOMAIN m, NEW m2, m2 = With(m, a, o)
      PROVE  /\ BalancesOK(m2) /\ DOMAIN m2 = DOMAIN m \cup {a}
             /\ \A asset : TotalOf(m2, asset) = TotalOf(m, asset) + Part(o, asset)
                           /\ TotalOf(m, asset) \in Int /\ Part(o, asset) \in Int
  <2>1. DOMAIN m2 = DOMAIN m \cup {a} /\ \A x \in DOMAIN m2 : m2[x] = IF x = a THEN o ELSE m[x]
        BY <1>8 DEF With
  <2>2. IsFiniteSet(DOMAIN m2)
        BY <1>8, <2>1, FS_AddElement DEF BalancesOK
  <2>3. BalancesOK(m2)
        BY <1>7, <1>8, <2>1, <2>2 DEF BalancesOK
  <2>4. ASSUME NEW asset
        PROVE  /\ TotalOf(m2, asset) = TotalOf(m, asset) + Part(o, asset)
               /\ TotalOf(m, asset) \in Int /\ Part(o, asset) \in Int
    <3>1. TotalOf(m2, asset) = TotalOf(m, asset) + Part(m2[a], asset)
                                 - (IF a \in DOMAIN m THEN Part(m[a], asset) ELSE 0)
      <4>1. /\ a \in DOMAIN m2 /\ DOMAIN m \ {a} = DOMAIN m2 \ {a}
            /\ \A x \in DOMAIN m \ {a} : m2[x] = m[x]
            BY <1>8, <2>1
      <4> QED BY <1>8, <2>3, <4>1, TotalChanges
    <3>2. Part(o, asset) \in Int /\ TotalOf(m, asset) \in Int /\ m2[a] = o
          BY <1>7, <1>8, <2>1, PartType, TotalType
    <3> QED BY <1>8, <3>1, <3>2
  <2> QED BY <2>1, <2>3, <2>4
<1>9. /\ BalancesOK(acc2) /\ DOMAIN acc2 = DOMAIN acc \cup {a}
      /\ \A asset : TotalOf(acc2, asset) = TotalOf(acc, asset) + Part(o, asset)
                    /\ TotalOf(acc, asset) \in Int /\ Part(o, asset) \in Int
      BY <1>3, <1>5, <1>6, <1>8
<1>10. /\ BalancesOK(ope2) /\ DOMAIN ope2 = DOMAIN acc \cup {a}
       /\ \A asset : TotalOf(ope2, asset) = TotalOf(ope, asset) + Part(o, asset)
                     /\ TotalOf(ope, asset) \in Int /\ Part(o, asset) \in Int
      BY <1>4, <1>5, <1>6, <1>8
<1>11. /\ TotalOf(acc2, "base") = TotalOf(ope2, "base")
       /\ TotalOf(acc2, "quote") + fees = TotalOf(ope2, "quote")
      BY <1>6, <1>9, <1>10
<1> QED BY <1>5, <1>9, <1>10, <1>11 DEF TotalsInv

\* freeze and release move an asset within one account.
LEMMA PostingTotals ==
    ASSUME TotalsInv, NEW a \in DOMAIN accounts, NEW d \in Balance,
           Part(d, "base") = 0, Part(d, "quote") = 0,
           accounts' = Post(accounts, a, d), opening' = opening, fees' = fees, IInv'
    PROVE  TotalsInv'
<1>1. PICK acc2 : acc2 = Post(accounts, a, d)
      OBVIOUS
<1>2. /\ BalancesOK(acc2) /\ DOMAIN acc2 = DOMAIN accounts
      /\ \A asset : TotalOf(acc2, asset) = TotalOf(accounts, asset) + Part(d, asset)
      BY <1>1, PostTotals DEF TotalsInv
<1>3. TotalOf(accounts, "base") \in Int /\ TotalOf(accounts, "quote") \in Int
      BY TotalType DEF TotalsInv
<1>4. TotalOf(acc2, "base") = TotalOf(accounts, "base") /\ TotalOf(acc2, "quote") = TotalOf(accounts, "quote")
      BY <1>2, <1>3
<1> QED BY <1>1, <1>2, <1>4 DEF TotalsInv

\* A fill moves base from the seller to the buyer, and quote from the buyer to
\* the seller less the fees.
LEMMA SettleTotals ==
    ASSUME TotalsInv, NEW f \in Fills, Applied(f), opening' = opening, IInv'
    PROVE  TotalsInv'
<1>1. PICK b : b = BuyerDelta(f)
      OBVIOUS
<1>2. PICK s : s = SellerDelta(f)
      OBVIOUS
<1>3. PICK acc : acc = Post(accounts, f.buyer, b)
      OBVIOUS
<1>4. PICK acc2 : acc2 = Post(acc, f.seller, s)
      OBVIOUS
<1>5. /\ f.buyer \in DOMAIN accounts /\ f.seller \in DOMAIN accounts
      /\ b \in Balance /\ s \in Balance /\ accounts' = acc2
      /\ fees' = fees + BuyerFee(f) + SellerFee(f)
      BY <1>1, <1>2, <1>3, <1>4 DEF Applied
<1>6. /\ BalancesOK(acc) /\ DOMAIN acc = DOMAIN accounts
      /\ \A asset : TotalOf(acc, asset) = TotalOf(accounts, asset) + Part(b, asset)
      BY <1>3, <1>5, PostTotals DEF TotalsInv
<1>7. /\ BalancesOK(acc2) /\ DOMAIN acc2 = DOMAIN accounts
      /\ \A asset : TotalOf(acc2, asset) = TotalOf(acc, asset) + Part(s, asset)
      BY <1>4, <1>5, <1>6, PostTotals
<1>8. accounts[f.seller] \in Balance
      BY <1>5 DEF TotalsInv, BalancesOK
<1>9. /\ Notional(f) \in Nat /\ BuyerFee(f) \in Nat /\ SellerFee(f) \in Nat /\ f.qty \in Nat
      BY <1>8, SettlementAmounts
<1>10. Part(b, "base") = f.qty /\ Part(s, "base") = -f.qty
      BY <1>1, <1>2, <1>9 DEF BuyerDelta, SellerDelta, Delta, Part, BaseOf
<1>11. /\ Part(b, "quote") = -(Notional(f) + BuyerFee(f))
       /\ Part(s, "quote") = Notional(f) - SellerFee(f)
      BY <1>1, <1>2, <1>9 DEF BuyerDelta, SellerDelta, BuyerConsumes, Delta, Part, QuoteOf
<1>12. TotalOf(accounts, "base") \in Int /\ TotalOf(accounts, "quote") \in Int /\ fees \in Int
      BY TotalType DEF TotalsInv, IInv
<1>13. TotalOf(acc2, "base") = TotalOf(accounts, "base")
      BY <1>6, <1>7, <1>9, <1>10, <1>12
<1>14. TotalOf(acc2, "quote") + fees' = TotalOf(accounts, "quote") + fees
      BY <1>5, <1>6, <1>7, <1>9, <1>11, <1>12
<1> QED BY <1>5, <1>7, <1>13, <1>14 DEF TotalsInv

\* The empty ledger, and every call.
LEMMA TotalsInductive ==
    ASSUME Reopened = {}
    PROVE  (Init => TotalsInv) /\ (TotalsInv /\ [Next]_vars => TotalsInv')
<1>1. ASSUME Init PROVE TotalsInv
  <2>1. /\ accounts = EmptyMap /\ opening = EmptyMap /\ fees = 0
        /\ DOMAIN accounts = {} /\ IInv
        BY <1>1, InitIInv DEF Init, EmptyMap
  <2>2. BalancesOK(accounts)
        BY <2>1, FS_EmptySet DEF BalancesOK
  <2>3. TotalOf(accounts, "quote") \in Int
        BY <2>2, TotalType
  <2> QED BY <2>1, <2>2, <2>3 DEF TotalsInv
<1>2. ASSUME TotalsInv, [Next]_vars PROVE TotalsInv'
  <2>1. IInv'
        BY <1>2, NextIInv DEF TotalsInv
  <2>2. CASE UNCHANGED <<accounts, opening, fees>>
        BY <1>2, <2>1, <2>2 DEF TotalsInv
  <2>3. ASSUME NEW a \in Accounts, NEW o \in Openings, UpsertAccount(a, o) PROVE TotalsInv'
        BY <1>2, <2>1, <2>3, UpsertTotals
  <2>4. ASSUME NEW a \in Accounts, NEW h \in HoldIds, NEW asset \in Assets, NEW n \in Amounts,
               Freeze(a, h, asset, n)
        PROVE  TotalsInv'
    <3>1. CASE status' = "applied"
      <4>1. PICK d : d = FreezeDelta(asset, n)
            OBVIOUS
      <4>2. /\ a \in DOMAIN accounts /\ accounts' = Post(accounts, a, d) /\ n \in Int
            /\ opening' = opening /\ fees' = fees
            BY <2>4, <3>1, <4>1, NumbersAssumption, FreezeChecked DEF Freeze, Freezable
      <4>3. d \in Balance /\ Part(d, "base") = 0 /\ Part(d, "quote") = 0
            BY <4>1, <4>2 DEF FreezeDelta, Delta, Balance, Part, BaseOf, QuoteOf
      <4> QED BY <1>2, <2>1, <4>2, <4>3, PostingTotals
    <3>2. CASE status' # "applied"
          BY <2>2, <2>4, <3>2 DEF Freeze
    <3> QED BY <3>1, <3>2
  <2>5. ASSUME NEW h \in HoldIds, ReleaseHold(h) PROVE TotalsInv'
    <3>1. opening' = opening /\ fees' = fees
          BY <2>5 DEF ReleaseHold
    <3>2. CASE UNCHANGED accounts
          BY <2>2, <3>1, <3>2
    <3>3. CASE ~UNCHANGED accounts
      <4>1. PICK r : r = holds[h]
            OBVIOUS
      <4>2. PICK d : d = ReleaseDelta(r)
            OBVIOUS
      <4>3. /\ h \in DOMAIN holds /\ r.account \in DOMAIN accounts
            /\ accounts' = Post(accounts, r.account, d)
            BY <2>5, <3>3, <4>1, <4>2 DEF ReleaseHold
      <4>4. r.amount \in Int
            BY <1>2, <4>1, <4>3 DEF TotalsInv, IInv, HoldsOK, HoldRecords
      <4>5. d \in Balance /\ Part(d, "base") = 0 /\ Part(d, "quote") = 0
            BY <4>2, <4>4 DEF ReleaseDelta, Delta, Balance, Part, BaseOf, QuoteOf
      <4> QED BY <1>2, <2>1, <3>1, <4>3, <4>5, PostingTotals
    <3> QED BY <3>2, <3>3
  <2>6. ASSUME NEW f \in Fills, SettleSpotTrade(f) PROVE TotalsInv'
    <3>1. opening' = opening
          BY <2>6 DEF SettleSpotTrade
    <3>2. Applied(f) \/ UNCHANGED <<accounts, holds, fees>>
          BY <1>2, <2>6, SettleCases DEF TotalsInv
    <3> QED BY <1>2, <2>1, <2>2, <3>1, <3>2, SettleTotals
  <2>7. ASSUME NEW t \in TradeIds, MarkDispatched(t) PROVE UNCHANGED <<accounts, opening, fees>>
        BY <2>7 DEF MarkDispatched
  <2>8. UNCHANGED vars => UNCHANGED <<accounts, opening, fees>>
        BY DEF vars
  <2> QED BY <1>2, <2>2, <2>3, <2>4, <2>5, <2>6, <2>7, <2>8 DEF Next
<1> QED BY <1>1, <1>2

\* Where accounts are opened once, all of the accounts together hold the base
\* they were opened with, and the quote less the fees collected, whatever is
\* frozen, released and settled between them.
THEOREM TotalsAreConserved ==
    ASSUME Reopened = {}
    PROVE  Spec => []TotalsPreserved
<1>1. (Init => TotalsInv) /\ (TotalsInv /\ [Next]_vars => TotalsInv')
      BY TotalsInductive
<1> QED BY <1>1, TotalsMeans, PTL DEF Spec

=============================================================================
