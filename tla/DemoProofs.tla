----------------------------- MODULE DemoProofs -----------------------------
(***************************************************************************)
(* Proofs about the two parts of the demo that keep state.                 *)
(*                                                                         *)
(* ShieldedAsset, for any finite set of accounts and any amounts, deltas   *)
(* and bounds: honest clients never overdraw, debits can be traced, and    *)
(* the balances add up.                                                    *)
(*                                                                         *)
(* TransactionIndex, for any transactions, requests and page size: what a  *)
(* pass of the backend was given, it records.                              *)
(***************************************************************************)
EXTENDS ShieldedAsset, TransactionIndex, FiniteSetTheorems, SequenceTheorems,
        WellFoundedInduction, TLAPS

-----------------------------------------------------------------------------
(* The contract.                                                           *)

(* A balance is a number.                                                  *)
LEMMA BalanceType ==
  ASSUME AssetTypeOK, NEW u \in User
  PROVE  Balance(u) \in Int
  BY DEF AssetTypeOK, Balance

(* What the arguments of a call in flight are, by entry point.             *)
LEMMA CallType ==
  ASSUME AssetTypeOK, NEW u \in User, NEW c \in flight[u]
  PROVE  /\ c \in AssetCall
         /\ c.op \in {"shield", "unshield", "transfer"}
         /\ c.op # "transfer" => c.amount \in Int /\ c.delta \in Int
         /\ c.op = "transfer" =>
              /\ c.to \in User
              /\ c.senderDelta \in Int /\ c.receiverDelta \in Int
<1>1. c \in AssetCall
  BY DEF AssetTypeOK
<1>2. CASE c \in [op : {"shield", "unshield"}, amount : Amounts, delta : Deltas]
  BY <1>1, <1>2, BoundsAssumption
<1>3. CASE c \in [op : {"transfer"}, to : User, senderDelta : Deltas,
                  receiverDelta : Deltas, proof : Proof]
  BY <1>1, <1>3, BoundsAssumption
<1> QED BY <1>1, <1>2, <1>3 DEF AssetCall

(* What a step is, as far as balances and tokens go.                       *)
LEMMA AssetSteps ==
  ASSUME [AssetNext]_assetVars
  PROVE  \/ UNCHANGED <<bal, wallet, pool, created, taken>>
         \/ \E u \in User : \E c \in flight[u] :
              Shield(u, c) \/ Unshield(u, c) \/ Transfer(u, c)
  BY DEF AssetNext, assetVars, Fail, Archive, RestoreEntry, Send, Expire

(* Entries, tokens and calls in flight keep their types; tokens are never  *)
(* negative (lib.rs, shield and unshield).                                 *)
LEMMA TypeStep == AssetTypeOK /\ [AssetNext]_assetVars => AssetTypeOK'
<1> SUFFICES ASSUME AssetTypeOK, [AssetNext]_assetVars PROVE AssetTypeOK'
  OBVIOUS
<1> USE BoundsAssumption
<1>1. CASE UNCHANGED assetVars
  BY <1>1 DEF assetVars, AssetTypeOK
<1>2. ASSUME NEW u \in User, Fail(u) \/ Archive(u) \/ RestoreEntry(u)
      PROVE  AssetTypeOK'
  <2>1. CASE Fail(u)
    BY <2>1 DEF Fail, AssetTypeOK
  <2>2. CASE Archive(u)
    BY <2>2 DEF Archive, AssetTypeOK
  <2>3. CASE RestoreEntry(u)
    BY <2>3 DEF RestoreEntry, AssetTypeOK
  <2> QED BY <1>2, <2>1, <2>2, <2>3
<1>3. ASSUME NEW u \in User, NEW c \in AssetCall, Send(u, c) PROVE AssetTypeOK'
  <2>1. flight' \in [User -> SUBSET AssetCall]
    BY <1>3 DEF Send, AssetTypeOK
  <2>2. ASSUME NEW v \in Honest, NEW d \in flight'[v] PROVE Consistent(d)
    BY <1>3, <2>2 DEF Send, AssetTypeOK
  <2> QED BY <1>3, <2>1, <2>2 DEF Send, AssetTypeOK
<1>4. ASSUME NEW u \in User, NEW c \in flight[u],
             Expire(u, c) \/ Shield(u, c) \/ Unshield(u, c) \/ Transfer(u, c)
      PROVE  AssetTypeOK'
  <2> USE CallType, BalanceType
  <2>1. /\ flight' \in [User -> SUBSET AssetCall]
        /\ \A v \in User : flight'[v] \subseteq flight[v]
    BY <1>4 DEF Expire, Shield, Unshield, Transfer, Run, AssetTypeOK
  <2>2. \A v \in Honest : \A d \in flight'[v] : Consistent(d)
    BY <2>1 DEF AssetTypeOK
  <2>3. archived' \subseteq User
    BY <1>4 DEF Expire, Shield, Unshield, Transfer, Run, AssetTypeOK
  <2>4. CASE Expire(u, c)
    BY <2>1, <2>2, <2>3, <2>4 DEF Expire, AssetTypeOK
  <2>5. CASE Shield(u, c)
    BY <2>1, <2>2, <2>3, <2>5 DEF Shield, AssetTypeOK
  <2>6. CASE Unshield(u, c)
    BY <2>1, <2>2, <2>3, <2>6 DEF Unshield, AssetTypeOK
  <2>7. CASE Transfer(u, c)
    <3>1. bal' \in [User -> Int \union {NoEntry}]
      BY <2>7 DEF Transfer, AssetTypeOK
    <3>2. created' \in Int
      BY <2>7 DEF Transfer, Added, AssetTypeOK
    <3>3. taken' \in [User -> Nat]
      BY <2>7 DEF Transfer, TakenBy, AssetTypeOK
    <3> QED BY <2>1, <2>2, <2>3, <2>7, <3>1, <3>2, <3>3 DEF Transfer, AssetTypeOK
  <2> QED BY <1>4, <2>4, <2>5, <2>6, <2>7
<1> QED BY <1>1, <1>2, <1>3, <1>4 DEF AssetNext

(* What a call that runs does to the balance of v: it adds the delta meant *)
(* for v, if v has a part in the call, and nothing otherwise.              *)
LEMMA CallMoves ==
  ASSUME AssetTypeOK, NEW u \in User, NEW c \in flight[u], NEW v \in User,
         Shield(u, c) \/ Unshield(u, c) \/ Transfer(u, c)
  PROVE  /\ flight' = [flight EXCEPT ![u] = {}]
         /\ c.op # "transfer" =>
              Balance(v)' = (IF v = u THEN Balance(u) + c.delta ELSE Balance(v))
         /\ c.op = "transfer" =>
              Balance(v)' = (IF v = c.to THEN Balance(v) + c.receiverDelta
                             ELSE IF v = u THEN Balance(v) + c.senderDelta ELSE Balance(v))
<1> USE BalanceType, CallType, NoEntryAssumption
<1>1. CASE Shield(u, c)
  BY <1>1 DEF Shield, Run, Balance, AssetTypeOK
<1>2. CASE Unshield(u, c)
  BY <1>2 DEF Unshield, Run, Balance, AssetTypeOK
<1>3. CASE Transfer(u, c)
  <2>1. CASE v = c.to
    BY <1>3, <2>1 DEF Transfer, Run, Balance, AssetTypeOK
  <2>2. CASE v # c.to /\ v = u
    BY <1>3, <2>2 DEF Transfer, Run, Balance, AssetTypeOK
  <2>3. CASE v # c.to /\ v # u
    BY <1>3, <2>3 DEF Transfer, Run, Balance, AssetTypeOK
  <2> QED BY <2>1, <2>2, <2>3
<1> QED BY <1>1, <1>2, <1>3

(* What covers an honest account either does not shrink, or shrinks by     *)
(* what one of its calls spends, and then it has no call left.             *)
LEMMA CoverStep ==
  ASSUME AssetTypeOK, [AssetNext]_assetVars, NEW v \in Honest
  PROVE  \/ Balance(v)' + taken'[v] >= Balance(v) + taken[v]
         \/ /\ flight'[v] = {}
            /\ \E c \in flight[v] : Balance(v)' + taken'[v] = Balance(v) + taken[v] - Spends(c)
<1>1. /\ v \in User /\ Balance(v) \in Int /\ taken[v] \in Int
      /\ flight \in [User -> SUBSET AssetCall] /\ taken \in [User -> Nat]
  BY BalanceType, BoundsAssumption DEF AssetTypeOK
<1>2. CASE UNCHANGED <<bal, wallet, pool, created, taken>>
  BY <1>1, <1>2 DEF Balance
<1>3. ASSUME NEW u \in User, NEW c \in flight[u], Shield(u, c) \/ Unshield(u, c)
      PROVE  \/ Balance(v)' + taken'[v] >= Balance(v) + taken[v]
             \/ /\ u = v /\ flight'[v] = {}
                /\ Balance(v)' + taken'[v] = Balance(v) + taken[v] - Spends(c)
  <2>1. c.op # "transfer" /\ taken' = taken
    BY <1>3 DEF Shield, Unshield
  <2>2. /\ Balance(v)' = (IF v = u THEN Balance(u) + c.delta ELSE Balance(v))
        /\ v = u => flight'[v] = {}
    BY <1>1, <1>3, <2>1, CallMoves
  <2>3. CASE v = u
    <3>1. c.amount \in Int /\ c.delta \in Int /\ Consistent(c)
      BY <1>3, <2>1, <2>3, CallType DEF AssetTypeOK
    <3>2. \/ c.delta > 0
          \/ c.delta = -c.amount /\ Spends(c) = c.amount
      BY <2>1, <3>1 DEF Consistent, Spends
    <3> QED BY <1>1, <2>1, <2>2, <2>3, <3>1, <3>2
  <2> QED BY <1>1, <2>1, <2>2, <2>3
<1>4. ASSUME NEW u \in User, NEW c \in flight[u], Transfer(u, c)
      PROVE  \/ Balance(v)' + taken'[v] >= Balance(v) + taken[v]
             \/ /\ u = v /\ flight'[v] = {}
                /\ Balance(v)' + taken'[v] = Balance(v) + taken[v] - Spends(c)
  <2>1. /\ c.op = "transfer" /\ c.to \in User
        /\ c.senderDelta \in Int /\ c.receiverDelta \in Int
        /\ taken' = TakenBy(u, c)
    BY <1>4, CallType DEF Transfer
  <2>2. /\ Balance(v)' = (IF v = c.to THEN Balance(v) + c.receiverDelta
                          ELSE IF v = u THEN Balance(v) + c.senderDelta ELSE Balance(v))
        /\ v = u => flight'[v] = {}
    BY <1>1, <1>4, <2>1, CallMoves
  <2>3. CASE v = c.to /\ v # u
    <3>1. taken'[v] = IF c.receiverDelta < 0 THEN taken[v] - c.receiverDelta ELSE taken[v]
      BY <1>1, <2>1, <2>3 DEF TakenBy
    <3> QED BY <1>1, <2>1, <2>2, <2>3, <3>1
  <2>4. CASE v # c.to \/ v = u
    <3>1. taken'[v] = taken[v]
      BY <1>1, <2>1, <2>4 DEF TakenBy
    <3>2. CASE v = u
      <4>1. c.receiverDelta > 0 /\ c.senderDelta = -c.receiverDelta /\ Spends(c) = c.receiverDelta
        <5>1. Consistent(c)
          BY <3>2 DEF AssetTypeOK
        <5> QED BY <2>1, <5>1 DEF Consistent, Spends
      <4> QED BY <1>1, <2>1, <2>2, <3>1, <3>2, <4>1
    <3>3. CASE v # u
      BY <1>1, <2>2, <2>4, <3>1, <3>3
    <3> QED BY <3>2, <3>3
  <2> QED BY <2>3, <2>4
<1> QED BY <1>2, <1>3, <1>4, AssetSteps

(* Calls in flight after a step were there before, or were built on the    *)
(* balance on the ledger.                                                  *)
LEMMA FlightStep ==
  ASSUME AssetTypeOK, [AssetNext]_assetVars, NEW v \in User,
         NEW c \in flight'[v], c \notin flight[v]
  PROVE  Send(v, c)
<1>1. ASSUME NEW u \in User, NEW d \in AssetCall, Send(u, d) PROVE Send(v, c)
  BY <1>1 DEF Send, AssetTypeOK
<1>2. CASE UNCHANGED flight
  BY <1>2
<1>3. ASSUME NEW u \in User, flight' = [flight EXCEPT ![u] = {}] PROVE FALSE
  BY <1>3 DEF AssetTypeOK
<1>4. ASSUME NEW u \in User, NEW d, flight' = [flight EXCEPT ![u] = @ \ {d}] PROVE FALSE
  BY <1>4 DEF AssetTypeOK
<1> QED
  BY <1>1, <1>2, <1>3, <1>4
     DEF AssetNext, assetVars, Fail, Archive, RestoreEntry, Expire, Shield, Unshield, Transfer, Run

LEMMA CoveredStep == AssetInv /\ [AssetNext]_assetVars => Covered'
<1> SUFFICES ASSUME AssetInv, [AssetNext]_assetVars, NEW v \in Honest
             PROVE  /\ Balance(v)' + taken'[v] >= 0
                    /\ \A c \in flight'[v] : Spends(c) <= Balance(v)' + taken'[v]
  BY DEF Covered
<1>1. AssetTypeOK /\ AssetTypeOK' /\ v \in User
  BY TypeStep, BoundsAssumption DEF AssetInv
<1>2. /\ Balance(v) \in Int /\ Balance(v)' \in Int
      /\ taken[v] \in Nat /\ taken'[v] \in Nat
  BY <1>1 DEF AssetTypeOK, Balance
<1>3. /\ Balance(v) + taken[v] >= 0
      /\ \A c \in flight[v] : Spends(c) <= Balance(v) + taken[v]
  BY DEF AssetInv, Covered
<1>4. ASSUME NEW c, c \in flight[v] \/ c \in flight'[v] PROVE Spends(c) \in Int
  <2>1. c \in AssetCall
    BY <1>1, <1>4 DEF AssetTypeOK
  <2> QED BY <2>1, BoundsAssumption DEF AssetCall, Spends
<1>5. CASE Balance(v)' + taken'[v] >= Balance(v) + taken[v]
  <2>1. ASSUME NEW c \in flight'[v] PROVE Spends(c) <= Balance(v)' + taken'[v]
    <3>1. CASE c \in flight[v]
      BY <1>2, <1>3, <1>4, <1>5, <3>1
    <3>2. CASE c \notin flight[v]
      <4>1. Send(v, c)
        BY <1>1, <3>2, FlightStep
      <4>2. Spends(c) <= Balance(v)
        BY <4>1 DEF Send
      <4> QED BY <1>2, <1>4, <1>5, <2>1, <4>2
    <3> QED BY <3>1, <3>2
  <2> QED BY <1>2, <1>3, <1>5, <2>1
<1>6. ASSUME NEW c \in flight[v], flight'[v] = {},
             Balance(v)' + taken'[v] = Balance(v) + taken[v] - Spends(c)
      PROVE  Balance(v)' + taken'[v] >= 0
  <2>1. Spends(c) \in Int /\ Spends(c) <= Balance(v) + taken[v]
    BY <1>3, <1>4
  <2> QED BY <1>2, <1>6, <2>1
<1> QED BY <1>1, <1>5, <1>6, CoverStep

LEMMA InitAssetInv == AssetInit => AssetInv
  BY BoundsAssumption, NoEntryAssumption DEF AssetInit, AssetInv, AssetTypeOK, Covered, Balance

(* The inductive invariant: types, honest calls in flight are consistent,  *)
(* and every call in flight that spends is covered by the balance of its   *)
(* account and what transfers of others took from it (lib.rs).             *)
THEOREM Invariance == AssetSpec => []AssetInv
<1>1. AssetInv /\ [AssetNext]_assetVars => AssetInv'
  BY TypeStep, CoveredStep DEF AssetInv
<1> QED BY InitAssetInv, <1>1, PTL DEF AssetSpec

(* Clients that build consistent calls on the balance on the ledger never  *)
(* overdraw, although the contract compares nothing; what is missing, a    *)
(* transfer of somebody else took (lib.rs, unshield, transfer_shielded).   *)
THEOREM NoOverdraft == AssetSpec => []Covered
<1>1. AssetInv => Covered
  BY DEF AssetInv
<1> QED BY Invariance, <1>1, PTL

(* A transfer that takes from the account it names is not an honest one.   *)
LEMMA NegativeIsForeign ==
  ASSUME AssetTypeOK, NEW u \in User, NEW c \in flight[u],
         c.op = "transfer", c.receiverDelta < 0
  PROVE  u \notin Honest
<1> SUFFICES ASSUME u \in Honest PROVE FALSE
  OBVIOUS
<1>1. Consistent(c) /\ c.receiverDelta \in Int
  BY CallType DEF AssetTypeOK
<1> QED BY <1>1 DEF Consistent

(* A balance goes down by a call of its own account or by a transfer with  *)
(* a negative delta that no honest client built, and tokens leave an       *)
(* account in its own shield only (lib.rs, transfer_shielded, shield).     *)
THEOREM DebitsTraced == AssetSpec => DebitsAreTraced
<1>1. ASSUME AssetInv, [AssetNext]_assetVars, NEW u \in User PROVE Traced(u)
  <2>1. /\ AssetTypeOK /\ AssetTypeOK' /\ Balance(u) \in Int
        /\ flight \in [User -> SUBSET AssetCall] /\ wallet \in [User -> Nat]
        /\ pool \in Nat
    BY <1>1, TypeStep, BalanceType DEF AssetInv, AssetTypeOK
  <2>2. CASE UNCHANGED <<bal, wallet, pool, created, taken>>
    <3>1. Balance(u)' = Balance(u) /\ wallet'[u] = wallet[u]
      BY <2>2 DEF Balance
    <3>2. ~ (Balance(u) < Balance(u)) /\ ~ (wallet[u] < wallet[u])
      BY <2>1
    <3> QED BY <3>1, <3>2 DEF Traced
  <2>3. ASSUME NEW v \in User, NEW c \in flight[v],
               Shield(v, c) \/ Unshield(v, c) \/ Transfer(v, c)
        PROVE  Traced(u)
    <3>1. /\ flight'[v] = {}
          /\ c.op # "transfer" =>
               Balance(u)' = (IF u = v THEN Balance(v) + c.delta ELSE Balance(u))
          /\ c.op = "transfer" =>
               Balance(u)' = (IF u = c.to THEN Balance(u) + c.receiverDelta
                              ELSE IF u = v THEN Balance(u) + c.senderDelta ELSE Balance(u))
      BY <2>1, <2>3, CallMoves
    <3>2. ASSUME Balance(u)' < Balance(u) PROVE OwnDebit(u) \/ ForeignDebit(u)
      <4>1. CASE u = v
        <5>1. Balance(u)' = Balance(u) +
                (IF c.op # "transfer" THEN c.delta
                 ELSE IF c.to = u THEN c.receiverDelta ELSE c.senderDelta)
          BY <3>1, <4>1
        <5>2. c \in flight[u] /\ flight'[u] = {}
          BY <3>1, <4>1
        <5> QED BY <5>1, <5>2 DEF OwnDebit
      <4>2. CASE u # v
        <5>1. c.op = "transfer" /\ u = c.to
          <6>1. Balance(u)' # Balance(u)
            BY <2>1, <3>2
          <6> QED BY <3>1, <4>2, <6>1
        <5>2. Balance(u)' = Balance(u) + c.receiverDelta /\ c.receiverDelta \in Int
          BY <2>1, <3>1, <5>1, CallType
        <5>3. v \notin Honest
          BY <2>1, <3>2, <5>1, <5>2, NegativeIsForeign
        <5>4. /\ v \in User \ Honest /\ c \in flight[v]
              /\ flight'[v] = {} /\ c.op = "transfer" /\ c.to = u
              /\ Balance(u)' = Balance(u) + c.receiverDelta
          BY <3>1, <5>1, <5>2, <5>3
        <5> QED BY <5>4 DEF ForeignDebit
      <4> QED BY <4>1, <4>2
    <3>3. ASSUME wallet'[u] < wallet[u] PROVE OwnPayment(u)
      <4>1. c.op # "transfer" => c.amount \in Int
        BY <2>1, CallType
      <4>2. ~Transfer(v, c) /\ ~Unshield(v, c)
        <5>1. CASE Transfer(v, c)
          BY <2>1, <3>3, <5>1 DEF Transfer
        <5>2. CASE Unshield(v, c)
          BY <2>1, <3>3, <4>1, <5>2 DEF Unshield
        <5> QED BY <5>1, <5>2
      <4>3. Shield(v, c)
        BY <2>3, <4>2
      <4>4. u = v
        BY <2>1, <3>3, <4>3 DEF Shield
      <4>5. /\ flight'[u] = {} /\ c \in flight[u] /\ c.op = "shield"
            /\ pool' - pool = c.amount /\ wallet[u] - wallet'[u] = c.amount
            /\ Balance(u)' = Balance(u) + c.delta
        BY <2>1, <3>1, <4>1, <4>3, <4>4 DEF Shield
      <4> QED BY <4>5 DEF OwnPayment
    <3> QED BY <3>2, <3>3 DEF Traced
  <2> QED BY <1>1, <2>2, <2>3, AssetSteps
<1>2. AssetInv /\ [AssetNext]_assetVars => [\A u \in User : Traced(u)]_assetVars
  BY <1>1
<1> QED BY Invariance, <1>2, PTL DEF AssetSpec, DebitsAreTraced

-----------------------------------------------------------------------------
(* The sum of the balances.  Total folds over the set of all accounts; the *)
(* fold is a function from sets of accounts to sums that is characterized  *)
(* by taking one account after another out of the set.                     *)

BalanceIn(b, u) == IF b[u] = NoEntry THEN 0 ELSE b[u]

IsSum(b, h) ==
  h = [s \in SUBSET User |->
         IF s = {} THEN 0
         ELSE LET x == CHOOSE x \in s : TRUE IN BalanceIn(b, x) + h[s \ {x}]]

SumOf(b) == CHOOSE h : IsSum(b, h)

LEMMA TotalIsSum == Total = SumOf(bal)[User] /\ Total' = SumOf(bal')[User]
  BY DEF Total, MapThenSumSet, MapThenFoldSet, SumOf, IsSum, BalanceIn, Balance

(* A property of all sets of accounts that fails for one of them fails for *)
(* a smallest one.                                                         *)
LEMMA SmallestSet ==
  ASSUME NEW F \in SUBSET (SUBSET User), F # {}
  PROVE  \E s \in F : \A t \in F : t \subseteq s => t = s
<1>1. F \subseteq FiniteSubsetsOf(User)
  BY UserAssumption, FS_Subset DEF FiniteSubsetsOf
<1>2. PICK s \in F : \A t \in F : ~ (<<t, s>> \in StrictSubsetOrdering(User))
  BY <1>1, FS_StrictSubsetOrderingWellFounded, WFMin
<1>3. ASSUME NEW t \in F, t \subseteq s, t # s PROVE FALSE
  <2>1. <<t, s>> \in StrictSubsetOrdering(User)
    BY <1>3 DEF StrictSubsetOrdering
  <2> QED BY <1>2, <2>1
<1> QED BY <1>2, <1>3

(* A set of natural numbers has a least element.                           *)
LEMMA LeastElement ==
  ASSUME NEW T \in SUBSET Nat, T # {}
  PROVE  \E x \in T : \A y \in T : x <= y
<1>1. PICK x \in T : \A y \in T : ~ (<<y, x>> \in OpToRel(<, Nat))
  BY NatLessThanWellFounded, WFMin
<1>2. ASSUME NEW y \in T PROVE x <= y
  <2>1. ~ (y < x)
    BY <1>1 DEF OpToRel
  <2> QED
    BY <2>1
<1> QED
  BY <1>2

(* There is such a function: one for the sets of up to n accounts extends  *)
(* to one for those of n + 1.                                              *)
LEMMA SumExists ==
  ASSUME NEW b
  PROVE  IsSum(b, SumOf(b))
<1> DEFINE Step(h, s) == IF s = {} THEN 0
                         ELSE LET x == CHOOSE x \in s : TRUE IN BalanceIn(b, x) + h[s \ {x}]
           Upto(n) == {s \in SUBSET User : Cardinality(s) <= n}
           P(n) == \E h : h = [s \in Upto(n) |-> Step(h, s)]
<1>1. ASSUME NEW s \in SUBSET User
      PROVE  /\ Cardinality(s) \in Nat /\ Cardinality(s) <= Cardinality(User)
             /\ Cardinality(s) = 0 => s = {}
  <2>1. IsFiniteSet(s) /\ Cardinality(s) <= Cardinality(User)
    BY UserAssumption, FS_Subset
  <2> QED BY <2>1, FS_CardinalityType, FS_EmptySet
<1>2. ASSUME NEW s \in SUBSET User, NEW x \in s
      PROVE  s \ {x} \in SUBSET User /\ Cardinality(s \ {x}) = Cardinality(s) - 1
  BY UserAssumption, FS_Subset, FS_RemoveElement
<1>3. P(0)
  <2> DEFINE h == [s \in Upto(0) |-> 0]
  <2>1. ASSUME NEW s \in Upto(0) PROVE s = {}
    BY <1>1
  <2>2. h = [s \in Upto(0) |-> Step(h, s)]
    BY <2>1
  <2> QED BY <2>2
<1>4. ASSUME NEW n \in Nat, P(n) PROVE P(n + 1)
  <2>1. PICK h : h = [s \in Upto(n) |-> Step(h, s)]
    BY <1>4
  <2> DEFINE g == [s \in Upto(n + 1) |-> Step(h, s)]
  <2>2. ASSUME NEW s \in Upto(n) PROVE s \in Upto(n + 1) /\ g[s] = h[s]
    <3>1. s \in Upto(n + 1)
      BY <1>1
    <3>2. h[s] = Step(h, s)
      BY <2>1
    <3> QED BY <3>1, <3>2
  <2>3. ASSUME NEW s \in Upto(n + 1) PROVE Step(h, s) = Step(g, s)
    <3>1. CASE s = {}
      BY <3>1
    <3>2. CASE s # {}
      <4> DEFINE x == CHOOSE x \in s : TRUE
      <4>1. x \in s
        BY <3>2
      <4>2. s \ {x} \in SUBSET User /\ Cardinality(s \ {x}) = Cardinality(s) - 1
        BY <1>2, <4>1
      <4>3. s \ {x} \in Upto(n)
        BY <1>1, <4>2
      <4> QED BY <2>2, <4>3
    <3> QED BY <3>1, <3>2
  <2> HIDE DEF Step
  <2>4. g = [s \in Upto(n + 1) |-> Step(g, s)]
    BY <2>3
  <2> QED BY <2>4
<1> HIDE DEF P
<1>5. ASSUME NEW n \in Nat PROVE P(n)
  <2> DEFINE F == {m \in Nat : ~P(m)}
  <2> SUFFICES ASSUME F # {} PROVE FALSE
    OBVIOUS
  <2>1. PICK m \in F : \A k \in F : m <= k
    BY LeastElement
  <2>2. m # 0 /\ m - 1 \in Nat /\ m - 1 \notin F
    BY <1>3, <2>1
  <2>3. P((m - 1) + 1)
    BY <1>4, <2>2
  <2> QED BY <2>1, <2>3
<1> USE DEF P
<1>6. P(Cardinality(User)) /\ Upto(Cardinality(User)) = SUBSET User
  BY <1>1, <1>5, UserAssumption, FS_CardinalityType
<1>8. \E h : IsSum(b, h)
  BY <1>6 DEF IsSum
<1> QED BY <1>8 DEF SumOf

First(s) == CHOOSE x \in s : TRUE

LEMMA SumUnfolds ==
  ASSUME NEW b, NEW s \in SUBSET User, s # {}
  PROVE  /\ First(s) \in s /\ s \ {First(s)} \in SUBSET User
         /\ SumOf(b)[s] = BalanceIn(b, First(s)) + SumOf(b)[s \ {First(s)}]
<1> DEFINE h == SumOf(b)
<1>1. h = [t \in SUBSET User |->
             IF t = {} THEN 0
             ELSE LET y == CHOOSE y \in t : TRUE IN BalanceIn(b, y) + h[t \ {y}]]
  BY SumExists DEF IsSum
<1> HIDE DEF h
<1>2. h[s] = BalanceIn(b, First(s)) + h[s \ {First(s)}]
  BY <1>1 DEF First
<1> QED BY <1>2 DEF h, First

LEMMA SumOfNone == ASSUME NEW b PROVE SumOf(b)[{}] = 0
<1> DEFINE h == SumOf(b)
<1>1. h = [t \in SUBSET User |->
             IF t = {} THEN 0
             ELSE LET y == CHOOSE y \in t : TRUE IN BalanceIn(b, y) + h[t \ {y}]]
  BY SumExists DEF IsSum
<1> HIDE DEF h
<1>2. h[{}] = 0
  BY <1>1
<1> QED BY <1>2 DEF h

(* When the entry of one account changes, the sums over the sets that      *)
(* contain it change by as much, and no other sum does.                    *)
LEMMA SumChanges ==
  ASSUME NEW b, NEW c, NEW u \in User,
         \A v \in User : BalanceIn(b, v) \in Int /\ BalanceIn(c, v) \in Int,
         \A v \in User \ {u} : BalanceIn(c, v) = BalanceIn(b, v),
         NEW s \in SUBSET User
  PROVE  /\ SumOf(b)[s] \in Int
         /\ SumOf(c)[s] = SumOf(b)[s] + (IF u \in s THEN BalanceIn(c, u) - BalanceIn(b, u) ELSE 0)
<1> DEFINE P(t) == /\ SumOf(b)[t] \in Int
                   /\ SumOf(c)[t] = SumOf(b)[t]
                         + (IF u \in t THEN BalanceIn(c, u) - BalanceIn(b, u) ELSE 0)
           F == {t \in SUBSET User : ~P(t)}
<1> SUFFICES ASSUME F # {} PROVE FALSE
  OBVIOUS
<1>1. PICK t \in F : \A r \in F : r \subseteq t => r = t
  <2>1. F \in SUBSET (SUBSET User)
    OBVIOUS
  <2> HIDE DEF F
  <2> QED BY <2>1, SmallestSet
<1>2. t # {}
  <2>1. P({})
    BY SumOfNone
  <2> HIDE DEF P
  <2> QED BY <2>1
<1>3. PICK x \in t : /\ t \ {x} \in SUBSET User
                     /\ SumOf(b)[t] = BalanceIn(b, x) + SumOf(b)[t \ {x}]
                     /\ SumOf(c)[t] = BalanceIn(c, x) + SumOf(c)[t \ {x}]
  BY <1>2, SumUnfolds
<1>4. P(t \ {x})
  <2>1. t \ {x} \notin F
    BY <1>1, <1>3
  <2> HIDE DEF P
  <2> QED BY <1>3, <2>1
<1>5. P(t)
  <2>1. x \in User /\ BalanceIn(b, x) \in Int /\ BalanceIn(c, x) \in Int
    BY <1>1, <1>3
  <2>2. SumOf(b)[t] \in Int
    BY <1>3, <1>4, <2>1
  <2>3. CASE x = u
    <3>1. SumOf(c)[t \ {x}] = SumOf(b)[t \ {x}]
      BY <1>4, <2>3
    <3> QED BY <1>3, <1>4, <2>1, <2>2, <2>3, <3>1
  <2>4. CASE x # u
    <3>1. BalanceIn(c, x) = BalanceIn(b, x) /\ (u \in t <=> u \in t \ {x})
      BY <2>1, <2>4
    <3>2. BalanceIn(c, u) \in Int /\ BalanceIn(b, u) \in Int
      OBVIOUS
    <3> QED BY <1>3, <1>4, <2>1, <2>2, <2>4, <3>1, <3>2
  <2> QED BY <2>3, <2>4
<1> QED BY <1>1, <1>5

(* The total follows the entries of two accounts, or of one.               *)
LEMMA TotalStep ==
  ASSUME AssetTypeOK, NEW u \in User, NEW v \in User, NEW x \in Int, NEW y \in Int,
         bal' = [bal EXCEPT ![u] = x, ![v] = y]
  PROVE  /\ Total \in Int
         /\ Total' = Total - Balance(v) + y + (IF u = v THEN 0 ELSE x - Balance(u))
<1> DEFINE mid == [bal EXCEPT ![u] = x]
<1>1. /\ bal' = [mid EXCEPT ![v] = y]
      /\ \A w \in User : /\ BalanceIn(bal, w) \in Int /\ BalanceIn(mid, w) \in Int
                          /\ BalanceIn(bal', w) \in Int
      /\ \A w \in User \ {u} : BalanceIn(mid, w) = BalanceIn(bal, w)
      /\ \A w \in User \ {v} : BalanceIn(bal', w) = BalanceIn(mid, w)
      /\ BalanceIn(mid, u) = x /\ BalanceIn(bal', v) = y
      /\ BalanceIn(bal, u) = Balance(u) /\ BalanceIn(bal, v) = Balance(v)
  BY NoEntryAssumption DEF AssetTypeOK, BalanceIn, Balance
<1> HIDE DEF mid
<1>2. /\ SumOf(bal)[User] \in Int
      /\ SumOf(mid)[User] = SumOf(bal)[User] + (x - Balance(u))
  BY <1>1, SumChanges
<1>3. /\ SumOf(mid)[User] \in Int
      /\ SumOf(bal')[User] = SumOf(mid)[User] + (y - BalanceIn(mid, v))
  BY <1>1, SumChanges
<1>4. BalanceIn(mid, v) = IF u = v THEN x ELSE Balance(v)
  BY <1>1
<1>5. Balance(u) \in Int /\ Balance(v) \in Int
  BY BalanceType
<1> QED BY <1>2, <1>3, <1>4, <1>5, TotalIsSum

LEMMA InitConserved == AssetInit => Conserved
<1> SUFFICES ASSUME AssetInit PROVE Conserved
  OBVIOUS
<1> DEFINE F == {s \in SUBSET User : SumOf(bal)[s] # 0}
<1>1. ASSUME F # {} PROVE FALSE
  <2>1. PICK s \in F : \A t \in F : t \subseteq s => t = s
    <3> F \subseteq SUBSET User
      OBVIOUS
    <3> HIDE DEF F
    <3> QED BY <1>1, SmallestSet
  <2>2. s # {}
    BY SumOfNone
  <2>3. PICK x \in s : /\ s \ {x} \in SUBSET User
                       /\ SumOf(bal)[s] = BalanceIn(bal, x) + SumOf(bal)[s \ {x}]
    BY <2>2, SumUnfolds
  <2>4. SumOf(bal)[s \ {x}] = 0
    BY <2>1, <2>3
  <2>5. BalanceIn(bal, x) = 0
    BY DEF AssetInit, BalanceIn
  <2> QED BY <2>3, <2>4, <2>5
<1> QED BY <1>1, TotalIsSum DEF Conserved, AssetInit

LEMMA ConservedStep == AssetTypeOK /\ Conserved /\ [AssetNext]_assetVars => Conserved'
<1> SUFFICES ASSUME AssetTypeOK, Conserved, [AssetNext]_assetVars PROVE Conserved'
  OBVIOUS
<1> USE DEF Conserved
<1>1. CASE UNCHANGED <<bal, wallet, pool, created, taken>>
  BY <1>1, TotalIsSum
<1>2. ASSUME NEW u \in User, NEW c \in flight[u], Shield(u, c) \/ Unshield(u, c)
      PROVE  Conserved'
  <2>1. /\ Balance(u) \in Int /\ pool \in Int /\ created \in Int
        /\ c.amount \in Int /\ c.delta \in Int
    BY <1>2, BalanceType, CallType DEF AssetTypeOK, Shield, Unshield
  <2>2. PICK x \in Int : x = Balance(u) + c.delta
    BY <2>1
  <2>3. bal' = [bal EXCEPT ![u] = x, ![u] = x]
    BY <1>2, <2>2 DEF Shield, Unshield, AssetTypeOK
  <2>4. Total \in Int /\ Total' = Total - Balance(u) + x
    <3>1. /\ Total \in Int
          /\ Total' = Total - Balance(u) + x + (IF u = u THEN 0 ELSE x - Balance(u))
      BY <2>3, TotalStep
    <3> QED BY <2>1, <3>1
  <2>5. pool' + created' = pool + created + c.delta
    BY <1>2, <2>1 DEF Shield, Unshield
  <2> QED BY <2>1, <2>2, <2>4, <2>5
<1>3. ASSUME NEW u \in User, NEW c \in flight[u], Transfer(u, c) PROVE Conserved'
  <2>1. /\ Balance(u) \in Int /\ pool \in Int /\ created \in Int
        /\ c.senderDelta \in Int /\ c.receiverDelta \in Int
        /\ c.to \in User /\ Balance(c.to) \in Int
    BY <1>3, BalanceType, CallType DEF AssetTypeOK, Transfer
  <2>2. PICK x \in Int, y \in Int, v \in User :
          x = Balance(u) + c.senderDelta /\ y = Balance(c.to) + c.receiverDelta /\ v = c.to
    BY <2>1
  <2>3. bal' = [bal EXCEPT ![u] = x, ![v] = y]
    BY <1>3, <2>2 DEF Transfer
  <2>4. /\ Total \in Int
        /\ Total' = Total - Balance(v) + y + (IF u = v THEN 0 ELSE x - Balance(u))
    BY <2>3, TotalStep
  <2>5. created' = created + Added(u, c) /\ pool' = pool
    BY <1>3 DEF Transfer
  <2> QED BY <2>1, <2>2, <2>4, <2>5 DEF Added
<1> QED BY <1>1, <1>2, <1>3, AssetSteps

(* The balances add up to the tokens the contract holds plus what calls    *)
(* added on their own account (lib.rs, shield, unshield and                *)
(* transfer_shielded), for any number of accounts and any deltas.          *)
THEOREM Conservation == AssetSpec => []Conserved
<1>1. AssetInv /\ Conserved /\ [AssetNext]_assetVars => Conserved'
  BY ConservedStep DEF AssetInv
<1> QED BY InitConserved, Invariance, <1>1, PTL DEF AssetSpec

-----------------------------------------------------------------------------
(* The index of the backend.                                               *)

(* What an update stores keeps its hash.                                   *)
LEMMA CastHash ==
  ASSUME NEW t \in Tx
  PROVE  /\ Cast(PostUpdate(t)) \in Update /\ Cast(PostUpdate(t)).hash = t
         /\ Cast(SyncUpdate(t)) \in Update /\ Cast(SyncUpdate(t)).hash = t
  BY DEF Cast, PostUpdate, SyncUpdate, Schema, Update

(* findOne returns the position of a document with that hash.              *)
LEMMA FindHits ==
  ASSUME IndexTypeOK, NEW t
  PROVE  Find(t) # 0 => Find(t) \in DOMAIN db /\ db[Find(t)].hash = t
  BY DEF Find, Hashes

LEMMA FindMisses ==
  ASSUME IndexTypeOK, NEW t
  PROVE  Find(t) = 0 => t \notin Hashes
<1>1. ASSUME t \in Hashes PROVE Find(t) # 0
  <2>1. \E k \in DOMAIN db : db[k].hash = t
    BY <1>1 DEF Hashes
  <2>2. Find(t) \in DOMAIN db
    BY <1>1, <2>1 DEF Find
  <2>3. DOMAIN db = 1 .. Len(db)
    BY DEF IndexTypeOK
  <2> QED BY <2>2, <2>3
<1> QED BY <1>1

(* An upsert loses no hash and adds that of its update.                    *)
LEMMA UpsertHashes ==
  ASSUME IndexTypeOK, NEW t \in Tx, NEW update, Cast(update) \in Update, Cast(update).hash = t,
         NEW k, k # 0 => k \in DOMAIN db /\ db[k].hash = t,
         db' = Upsert(k, update)
  PROVE  /\ db' \in Seq(Update)
         /\ Hashes' = Hashes \union {t}
         /\ \A l \in DOMAIN db : l \in DOMAIN db' /\ db'[l].hash = db[l].hash
<1>1. db \in Seq(Update)
  BY DEF IndexTypeOK
<1>2. CASE k = 0
  <2>1. db' = Append(db, Cast(update))
    BY <1>2 DEF Upsert
  <2>2. /\ db' \in Seq(Update)
        /\ DOMAIN db' = DOMAIN db \union {Len(db) + 1}
        /\ \A l \in DOMAIN db : db'[l] = db[l]
        /\ db'[Len(db) + 1] = Cast(update)
    BY <1>1, <2>1
  <2> QED BY <2>2 DEF Hashes
<1>3. CASE k # 0
  <2>1. db' = [db EXCEPT ![k] = Cast(update)]
    BY <1>3 DEF Upsert
  <2>2. db' \in Seq(Update) /\ DOMAIN db' = DOMAIN db
    <3>1. k \in 1 .. Len(db)
      BY <1>1, <1>3
    <3> QED BY <1>1, <2>1, <3>1
  <2>3. \A l \in DOMAIN db : db'[l].hash = db[l].hash
    BY <1>3, <2>1
  <2> QED BY <1>3, <2>2, <2>3 DEF Hashes
<1> QED BY <1>2, <1>3

(* The page Horizon returns is a sequence of transactions.                 *)
LEMMA PageType ==
  ASSUME IndexTypeOK PROVE LatestPage \in Seq(Tx)
<1> DEFINE n == Len(chain)
           m == IF n < PageSize THEN n ELSE PageSize
<1>1. n \in Nat /\ m \in Nat /\ m <= n
  BY IndexAssumption DEF IndexTypeOK
<1>2. ASSUME NEW k \in 1 .. m PROVE chain[n - k + 1] \in Tx
  <2>1. n - k + 1 \in 1 .. n
    BY <1>1, <1>2
  <2>2. chain \in Seq(Tx) /\ n = Len(chain)
    BY DEF IndexTypeOK
  <2> QED BY <2>1, <2>2
<1>3. LatestPage = [k \in 1 .. m |-> chain[n - k + 1]]
  BY DEF LatestPage
<1> HIDE DEF n, m
<1>4. LatestPage \in [1 .. m -> Tx]
  BY <1>2, <1>3
<1>5. LatestPage \in UNION {[1 .. l -> Tx] : l \in Nat}
  BY <1>1, <1>4
<1> QED BY <1>5, SeqDef

(* Dropping the head of a sequence drops at most the head from its range.  *)
LEMMA TailRange ==
  ASSUME NEW S, NEW q \in Seq(S), q # <<>>
  PROVE  /\ Tail(q) \in Seq(S)
         /\ Head(q) \in S
         /\ Range(q) \subseteq {Head(q)} \union Range(Tail(q))
<1>1. /\ Len(q) \in Nat \ {0} /\ Len(Tail(q)) = Len(q) - 1
      /\ Head(q) = q[1]
      /\ \A k \in 1 .. Len(q) - 1 : Tail(q)[k] = q[k + 1]
  OBVIOUS
<1>2. ASSUME NEW k \in DOMAIN q, k # 1 PROVE q[k] \in Range(Tail(q))
  <2>1. k - 1 \in DOMAIN Tail(q) /\ Tail(q)[k - 1] = q[k]
    BY <1>1, <1>2
  <2> QED BY <2>1 DEF Range
<1> QED BY <1>1, <1>2 DEF Range

LEMMA InitIndexInv == IndexInit => IndexInv
  BY DEF IndexInit, IndexInv, IndexTypeOK, CompletePassCovers, PassInv, Hashes, Handler

Steps == {"idle", "match", "write", "find", "ops"}

(* Documents are not lost, and keep their hash.                            *)
KeepsHashes ==
  /\ db' \in Seq(Update)
  /\ Hashes \subseteq Hashes'
  /\ \A l \in DOMAIN db : l \in DOMAIN db' /\ db'[l].hash = db[l].hash

LEMMA SameDb ==
  ASSUME IndexTypeOK, db' = db PROVE KeepsHashes /\ Hashes' = Hashes
  BY DEF IndexTypeOK, KeepsHashes, Hashes

(* A step of handler h keeps the types.                                    *)
LEMMA HandlerStep ==
  ASSUME IndexTypeOK, KeepsHashes, NEW h \in Handler,
         NEW p \in Steps, NEW q \in Seq(Tx), NEW n \in Nat,
         pc' = [pc EXCEPT ![h] = p],
         todo' = [todo EXCEPT ![h] = q],
         hit' = [hit EXCEPT ![h] = n],
         p \in {"match", "write", "ops"} => q # <<>>,
         n # 0 => p = "write" /\ n \in DOMAIN db' /\ db'[n].hash = Head(q),
         chain' = chain,
         reply' \in [Syncer -> {"none", "all", "part"}],
         known' \in [Syncer -> SUBSET Tx],
         page' \in [Syncer -> SUBSET Tx],
         blank' \in [Syncer -> SUBSET Tx]
  PROVE  IndexTypeOK'
<1>1. ASSUME NEW g \in Handler
      PROVE  /\ pc'[g] \in {"match", "write", "ops"} => todo'[g] # <<>>
             /\ hit'[g] # 0 => /\ pc'[g] = "write"
                              /\ hit'[g] \in DOMAIN db'
                              /\ db'[hit'[g]].hash = Head(todo'[g])
  <2>1. CASE g = h
    BY <2>1 DEF IndexTypeOK
  <2>2. CASE g # h
    <3>1. pc'[g] = pc[g] /\ todo'[g] = todo[g] /\ hit'[g] = hit[g]
      BY <2>2 DEF IndexTypeOK
    <3> QED BY <3>1 DEF IndexTypeOK, KeepsHashes
  <2> QED BY <2>1, <2>2
<1>2. /\ pc' \in [Handler -> Steps]
      /\ todo' \in [Handler -> Seq(Tx)]
      /\ hit' \in [Handler -> Nat]
  BY DEF IndexTypeOK, Steps
<1> QED BY <1>1, <1>2 DEF IndexTypeOK, Steps, KeepsHashes

(* What the invariant says of one pass.                                    *)
PassOK(s) ==
  /\ known[s] \subseteq Hashes
  /\ pc[s] \in {"ops", "match", "write"} => Head(todo[s]) \notin known[s]
  /\ pc[s] # "idle" => /\ reply[s] = "none"
                      /\ page[s] \intersect Invoking
                           \subseteq Hashes \union blank[s] \union Range(todo[s])
  /\ reply[s] = "all" => page[s] \intersect Invoking \subseteq Hashes \union blank[s]

LEMMA PassesOK == PassInv /\ CompletePassCovers <=> \A s \in Syncer : PassOK(s)
  BY DEF PassInv, CompletePassCovers, PassOK

(* A pass that does not move is not disturbed.                             *)
LEMMA OtherPass ==
  ASSUME NEW s, PassOK(s), Hashes \subseteq Hashes',
         pc'[s] = pc[s], todo'[s] = todo[s], reply'[s] = reply[s],
         known'[s] = known[s], page'[s] = page[s], blank'[s] = blank[s]
  PROVE  PassOK(s)'
  BY DEF PassOK

LEMMA PostStep ==
  ASSUME IndexInv, NEW p \in Poster,
         (\E t \in Tx : Post(p, t)) \/ PostWrite(p) \/ PostThrows(p)
  PROVE  IndexInv'
<1>1. /\ IndexTypeOK /\ p \in Handler
      /\ \A s \in Syncer : s # p /\ s \in Handler /\ PassOK(s)
  BY PassesOK, IndexAssumption DEF IndexInv, Handler
<1>2. /\ Hashes \subseteq Hashes'
      /\ IndexTypeOK'
  <2>1. ASSUME NEW t \in Tx, Post(p, t) PROVE IndexTypeOK' /\ Hashes \subseteq Hashes'
    <3>1. <<t>> \in Seq(Tx) /\ <<t>> # <<>>
      OBVIOUS
    <3>2. hit[p] = 0 /\ hit' = [hit EXCEPT ![p] = 0]
      BY <1>1, <2>1 DEF Post, IndexTypeOK
    <3>3. KeepsHashes
      BY <1>1, <2>1, SameDb DEF Post
    <3>4. IndexTypeOK'
      BY <1>1, <2>1, <3>1, <3>2, <3>3, HandlerStep
         DEF Post, Goto, history, Steps, IndexTypeOK
    <3> QED BY <3>3, <3>4 DEF KeepsHashes
  <2>2. CASE PostWrite(p)
    <3>1. todo[p] # <<>> /\ Head(todo[p]) \in Tx
      BY <1>1, <2>2, TailRange DEF PostWrite, IndexTypeOK
    <3>2. hit[p] # 0 => hit[p] \in DOMAIN db /\ db[hit[p]].hash = Head(todo[p])
      BY <1>1 DEF IndexTypeOK
    <3>3. KeepsHashes
      BY <1>1, <2>2, <3>1, <3>2, CastHash, UpsertHashes DEF PostWrite, KeepsHashes
    <3>4. /\ pc' = [pc EXCEPT ![p] = "idle"] /\ hit' = [hit EXCEPT ![p] = 0]
          /\ todo' = [todo EXCEPT ![p] = <<>>] /\ <<>> \in Seq(Tx)
          /\ chain' = chain /\ reply' = reply /\ known' = known /\ page' = page /\ blank' = blank
      BY <2>2 DEF PostWrite, Goto, history
    <3>5. IndexTypeOK'
      <4>1. /\ reply' \in [Syncer -> {"none", "all", "part"}]
            /\ known' \in [Syncer -> SUBSET Tx] /\ page' \in [Syncer -> SUBSET Tx]
            /\ blank' \in [Syncer -> SUBSET Tx]
        BY <1>1, <3>4 DEF IndexTypeOK
      <4> QED BY <1>1, <3>3, <3>4, <4>1, HandlerStep DEF Steps
    <3> QED BY <3>3, <3>5 DEF KeepsHashes
  <2>3. CASE PostThrows(p)
    <3>1. KeepsHashes
      BY <1>1, <2>3, SameDb DEF PostThrows
    <3>2. /\ pc' = [pc EXCEPT ![p] = "idle"] /\ hit' = [hit EXCEPT ![p] = 0]
          /\ todo' = [todo EXCEPT ![p] = <<>>] /\ <<>> \in Seq(Tx)
          /\ chain' = chain /\ reply' = reply /\ known' = known /\ page' = page /\ blank' = blank
      BY <2>3 DEF PostThrows, Goto, history
    <3>3. IndexTypeOK'
      <4>1. /\ reply' \in [Syncer -> {"none", "all", "part"}]
            /\ known' \in [Syncer -> SUBSET Tx] /\ page' \in [Syncer -> SUBSET Tx]
            /\ blank' \in [Syncer -> SUBSET Tx]
        BY <1>1, <3>2 DEF IndexTypeOK
      <4> QED BY <1>1, <3>1, <3>2, <4>1, HandlerStep DEF Steps
    <3> QED BY <3>1, <3>3 DEF KeepsHashes
  <2> QED BY <2>1, <2>2, <2>3
<1>3. ASSUME NEW s \in Syncer PROVE PassOK(s)'
  <2>1. /\ pc'[s] = pc[s] /\ todo'[s] = todo[s] /\ reply'[s] = reply[s]
        /\ known'[s] = known[s] /\ page'[s] = page[s] /\ blank'[s] = blank[s]
    BY <1>1 DEF Post, PostWrite, PostThrows, Goto, history, IndexTypeOK
  <2> QED BY <1>1, <1>2, <2>1, OtherPass
<1>4. (PassInv /\ CompletePassCovers)'
  BY <1>3 DEF PassInv, CompletePassCovers, PassOK
<1> QED BY <1>2, <1>4 DEF IndexInv

LEMMA MatchStep ==
  ASSUME IndexInv, NEW h \in Handler, Match(h)
  PROVE  IndexInv'
<1>1. /\ IndexTypeOK /\ todo[h] # <<>> /\ todo[h] \in Seq(Tx)
      /\ \A s \in Syncer : s \in Handler /\ PassOK(s)
  BY PassesOK DEF IndexInv, Match, IndexTypeOK, Handler
<1>2. KeepsHashes /\ Hashes' = Hashes
  BY <1>1, SameDb DEF Match
<1>3. Find(Head(todo[h])) \in Nat
  <2>1. DOMAIN db = 1 .. Len(db)
    BY <1>1 DEF IndexTypeOK
  <2> QED BY <1>1, <2>1, FindHits
<1>4. todo' = [todo EXCEPT ![h] = todo[h]]
  BY <1>1 DEF Match, IndexTypeOK
<1>5. IndexTypeOK'
  BY <1>1, <1>2, <1>3, <1>4, FindHits, HandlerStep
     DEF Match, Goto, history, Steps, IndexTypeOK
<1>6. ASSUME NEW s \in Syncer PROVE PassOK(s)'
  <2>1. CASE s # h
    <3>1. pc'[s] = pc[s]
      BY <1>1, <2>1 DEF Match, Goto, IndexTypeOK
    <3> QED BY <1>1, <1>2, <3>1, OtherPass DEF Match, history
  <2>2. CASE s = h
    <3>1. pc'[s] = "write"
      BY <1>1, <2>2 DEF Match, Goto, IndexTypeOK
    <3> QED BY <1>1, <1>2, <2>2, <3>1 DEF Match, history, PassOK
  <2> QED BY <2>1, <2>2
<1>7. (PassInv /\ CompletePassCovers)'
  BY <1>6 DEF PassInv, CompletePassCovers, PassOK
<1> QED BY <1>5, <1>7 DEF IndexInv

LEMMA SyncStep ==
  ASSUME IndexInv, NEW s \in Syncer,
         \/ SyncFetch(s) \/ SyncFind(s) \/ SyncOps(s) \/ SyncBlankOps(s)
         \/ SyncWrite(s) \/ SyncDone(s) \/ SyncThrows(s)
  PROVE  IndexInv'
<1>1. /\ IndexTypeOK /\ s \in Handler /\ todo[s] \in Seq(Tx)
      /\ \A x \in Syncer : x \in Handler /\ PassOK(x)
      /\ s \in DOMAIN pc /\ s \in DOMAIN todo /\ s \in DOMAIN hit
      /\ s \in DOMAIN reply /\ s \in DOMAIN known /\ s \in DOMAIN page
      /\ s \in DOMAIN blank
  BY PassesOK DEF IndexInv, Handler, IndexTypeOK
<1>2. todo[s] # <<>> => /\ Tail(todo[s]) \in Seq(Tx)
                        /\ Head(todo[s]) \in Tx
                        /\ Range(todo[s]) \subseteq {Head(todo[s])} \union Range(Tail(todo[s]))
  BY <1>1, TailRange
<1>3. /\ hit = [hit EXCEPT ![s] = hit[s]]
      /\ todo = [todo EXCEPT ![s] = todo[s]]
      /\ pc[s] # "write" => hit[s] = 0
      /\ 0 \in Nat /\ <<>> \in Seq(Tx)
  BY <1>1 DEF IndexTypeOK
<1>0. Hashes \subseteq Tx
  <2>1. \A u \in Update : u.hash \in Tx
    BY CastHash DEF Update
  <2>2. \A k \in DOMAIN db : db[k] \in Update
    BY <1>1 DEF IndexTypeOK
  <2> QED BY <2>1, <2>2 DEF Hashes
<1>4. IndexTypeOK' /\ Hashes \subseteq Hashes' /\ PassOK(s)'
  <2>1. CASE SyncFetch(s)
    <3>1. PICK records \in {LatestPage, <<>>} :
            /\ todo' = [todo EXCEPT ![s] = records]
            /\ page' = [page EXCEPT ![s] = Range(records)]
      BY <2>1 DEF SyncFetch
    <3>2. records \in Seq(Tx) /\ Range(records) \subseteq Tx
      <4>1. LatestPage \in Seq(Tx)
        BY <1>1, PageType
      <4>2. records \in Seq(Tx)
        <5>1. CASE records = LatestPage
          BY <4>1, <5>1
        <5>2. CASE records = <<>>
          BY <5>2
        <5> QED BY <3>1, <5>1, <5>2
      <4>3. \A k \in DOMAIN records : records[k] \in Tx
        BY <4>2
      <4> QED BY <4>2, <4>3 DEF Range
    <3>3. KeepsHashes /\ Hashes' = Hashes
      BY <1>1, <2>1, SameDb DEF SyncFetch
    <3>4. IndexTypeOK'
      <4>1. /\ pc' = [pc EXCEPT ![s] = "find"]
            /\ hit' = [hit EXCEPT ![s] = 0] /\ chain' = chain
        BY <1>3, <2>1 DEF SyncFetch, Goto
      <4>2. /\ reply' \in [Syncer -> {"none", "all", "part"}]
            /\ known' \in [Syncer -> SUBSET Tx] /\ page' \in [Syncer -> SUBSET Tx]
            /\ blank' \in [Syncer -> SUBSET Tx]
        BY <1>0, <1>1, <2>1, <3>1, <3>2 DEF SyncFetch, IndexTypeOK
      <4> QED BY <1>1, <3>1, <3>2, <3>3, <4>1, <4>2, HandlerStep DEF Steps
    <3> QED BY <1>1, <2>1, <3>1, <3>3, <3>4 DEF SyncFetch, Goto, PassOK
  <2>2. CASE SyncFind(s) /\ Find(Head(todo[s])) # 0
    <3>1. Head(todo[s]) \in Hashes
      BY <2>2 DEF Find
    <3>2. KeepsHashes /\ Hashes' = Hashes
      BY <1>1, <2>2, SameDb DEF SyncFind
    <3>3. IndexTypeOK'
      <4>1. /\ pc' = [pc EXCEPT ![s] = "find"]
            /\ todo' = [todo EXCEPT ![s] = Tail(todo[s])] /\ Tail(todo[s]) \in Seq(Tx)
            /\ hit' = [hit EXCEPT ![s] = 0]
            /\ chain' = chain /\ reply' = reply /\ known' = [known EXCEPT ![s] = Hashes] /\ page' = page /\ blank' = blank
        BY <1>2, <1>3, <2>2 DEF SyncFind, Goto
      <4>2. /\ reply' \in [Syncer -> {"none", "all", "part"}]
            /\ known' \in [Syncer -> SUBSET Tx] /\ page' \in [Syncer -> SUBSET Tx]
            /\ blank' \in [Syncer -> SUBSET Tx]
        BY <1>0, <1>1, <4>1 DEF IndexTypeOK
      <4> QED BY <1>1, <3>2, <4>1, <4>2, HandlerStep DEF Steps
    <3> QED BY <1>1, <1>2, <2>2, <3>1, <3>2, <3>3 DEF SyncFind, Goto, PassOK
  <2>3. CASE SyncFind(s) /\ Find(Head(todo[s])) = 0
    <3>1. Head(todo[s]) \notin Hashes
      BY <1>1, <2>3, FindMisses
    <3>2. KeepsHashes /\ Hashes' = Hashes
      BY <1>1, <2>3, SameDb DEF SyncFind
    <3>3. IndexTypeOK'
      <4>1. /\ pc' = [pc EXCEPT ![s] = "ops"] /\ todo' = todo
            /\ hit' = [hit EXCEPT ![s] = 0]
            /\ chain' = chain /\ reply' = reply /\ known' = [known EXCEPT ![s] = Hashes] /\ page' = page /\ blank' = blank
        BY <1>3, <2>3 DEF SyncFind, Goto
      <4>2. /\ reply' \in [Syncer -> {"none", "all", "part"}]
            /\ known' \in [Syncer -> SUBSET Tx] /\ page' \in [Syncer -> SUBSET Tx]
            /\ blank' \in [Syncer -> SUBSET Tx]
        BY <1>0, <1>1, <4>1 DEF IndexTypeOK
      <4>3. todo' = [todo EXCEPT ![s] = todo[s]] /\ todo[s] # <<>>
        BY <1>3, <2>3, <4>1 DEF SyncFind
      <4> QED BY <1>1, <3>2, <4>1, <4>2, <4>3, HandlerStep DEF Steps
    <3> QED BY <1>1, <2>3, <3>1, <3>2, <3>3 DEF SyncFind, Goto, PassOK
  <2>4. CASE SyncOps(s)
    <3>1. KeepsHashes /\ Hashes' = Hashes
      BY <1>1, <2>4, SameDb DEF SyncOps
    <3>2. todo[s] # <<>>
      BY <1>1, <2>4 DEF SyncOps, IndexTypeOK
    <3>3. IndexTypeOK'
      <4>1. /\ hit' = [hit EXCEPT ![s] = 0]
            /\ chain' = chain /\ reply' = reply /\ known' = known /\ page' = page /\ blank' = blank
        BY <1>3, <2>4 DEF SyncOps, Goto, history
      <4>2. /\ reply' \in [Syncer -> {"none", "all", "part"}]
            /\ known' \in [Syncer -> SUBSET Tx] /\ page' \in [Syncer -> SUBSET Tx]
            /\ blank' \in [Syncer -> SUBSET Tx]
        BY <1>1, <4>1 DEF IndexTypeOK
      <4>3. CASE Head(todo[s]) \in Invoking
        <5>1. pc' = [pc EXCEPT ![s] = "match"] /\ todo' = [todo EXCEPT ![s] = todo[s]]
          BY <1>3, <2>4, <4>3 DEF SyncOps, Goto
        <5> QED BY <1>1, <3>1, <3>2, <4>1, <4>2, <5>1, HandlerStep DEF Steps
      <4>4. CASE Head(todo[s]) \notin Invoking
        <5>1. pc' = [pc EXCEPT ![s] = "find"] /\ todo' = [todo EXCEPT ![s] = Tail(todo[s])]
          BY <2>4, <4>4 DEF SyncOps, Goto
        <5> QED BY <1>1, <1>2, <3>1, <3>2, <4>1, <4>2, <5>1, HandlerStep DEF Steps
      <4> QED BY <4>3, <4>4
    <3> QED BY <1>1, <1>2, <2>4, <3>1, <3>2, <3>3 DEF SyncOps, Goto, history, PassOK
  <2>8. CASE SyncBlankOps(s)
    <3>1. KeepsHashes /\ Hashes' = Hashes
      BY <1>1, <2>8, SameDb DEF SyncBlankOps
    <3>2. todo[s] # <<>>
      BY <1>1, <2>8 DEF SyncBlankOps, IndexTypeOK
    <3>3. IndexTypeOK'
      <4>1. /\ pc' = [pc EXCEPT ![s] = "find"] /\ todo' = [todo EXCEPT ![s] = Tail(todo[s])]
            /\ hit' = [hit EXCEPT ![s] = 0]
            /\ chain' = chain /\ reply' = reply /\ known' = known /\ page' = page
            /\ blank' = [blank EXCEPT ![s] = @ \union {Head(todo[s])}]
        BY <1>3, <2>8 DEF SyncBlankOps, Goto
      <4>2. /\ reply' \in [Syncer -> {"none", "all", "part"}]
            /\ known' \in [Syncer -> SUBSET Tx] /\ page' \in [Syncer -> SUBSET Tx]
            /\ blank' \in [Syncer -> SUBSET Tx]
        BY <1>1, <1>2, <3>2, <4>1 DEF IndexTypeOK
      <4> QED BY <1>1, <1>2, <3>1, <3>2, <4>1, <4>2, HandlerStep DEF Steps
    <3> QED BY <1>1, <1>2, <2>8, <3>1, <3>2, <3>3 DEF SyncBlankOps, Goto, PassOK
  <2>5. CASE SyncWrite(s)
    <3>1. todo[s] # <<>>
      BY <1>1, <2>5 DEF SyncWrite, IndexTypeOK
    <3>2. hit[s] # 0 => hit[s] \in DOMAIN db /\ db[hit[s]].hash = Head(todo[s])
      BY <1>1 DEF IndexTypeOK
    <3>3. KeepsHashes /\ Hashes' = Hashes \union {Head(todo[s])}
      BY <1>1, <1>2, <2>5, <3>1, <3>2, CastHash, UpsertHashes DEF SyncWrite, KeepsHashes
    <3>4. IndexTypeOK'
      BY <1>1, <1>2, <1>3, <2>5, <3>1, <3>3, HandlerStep
         DEF SyncWrite, Goto, history, Steps, IndexTypeOK
    <3> QED BY <1>1, <1>2, <2>5, <3>1, <3>3, <3>4 DEF SyncWrite, Goto, history, PassOK
  <2>6. CASE SyncDone(s)
    <3>1. KeepsHashes /\ Hashes' = Hashes
      BY <1>1, <2>6, SameDb DEF SyncDone
    <3>2. IndexTypeOK'
      BY <1>1, <1>3, <2>6, <3>1, HandlerStep
         DEF SyncDone, Goto, history, Steps, IndexTypeOK
    <3> QED BY <1>1, <2>6, <3>1, <3>2 DEF SyncDone, Goto, history, PassOK, Range
  <2>7. CASE SyncThrows(s)
    <3>1. KeepsHashes /\ Hashes' = Hashes
      BY <1>1, <2>7, SameDb DEF SyncThrows
    <3>2. IndexTypeOK'
      BY <1>1, <1>3, <2>7, <3>1, HandlerStep
         DEF SyncThrows, Goto, history, Steps, IndexTypeOK
    <3> QED BY <1>1, <2>7, <3>1, <3>2 DEF SyncThrows, Goto, history, PassOK
  <2> QED BY <2>1, <2>2, <2>3, <2>4, <2>5, <2>6, <2>7, <2>8
<1>5. ASSUME NEW x \in Syncer, x # s PROVE PassOK(x)'
  <2>1. /\ pc'[x] = pc[x] /\ todo'[x] = todo[x] /\ reply'[x] = reply[x]
        /\ known'[x] = known[x] /\ page'[x] = page[x] /\ blank'[x] = blank[x]
    BY <1>1, <1>5 DEF SyncFetch, SyncFind, SyncOps, SyncBlankOps, SyncWrite, SyncDone, SyncThrows,
                      Goto, history, IndexTypeOK
  <2> QED BY <1>1, <1>4, <2>1, OtherPass
<1>6. (PassInv /\ CompletePassCovers)'
  BY <1>4, <1>5 DEF PassInv, CompletePassCovers, PassOK
<1> QED BY <1>4, <1>6 DEF IndexInv

LEMMA NextIndexInv == IndexInv /\ [IndexNext]_indexVars => IndexInv'
<1> SUFFICES ASSUME IndexInv, [IndexNext]_indexVars PROVE IndexInv'
  OBVIOUS
<1>1. ASSUME NEW t \in Tx, Confirm(t) PROVE IndexInv'
  BY <1>1 DEF Confirm, IndexInv, IndexTypeOK, CompletePassCovers, PassInv, Hashes, history
<1>2. CASE UNCHANGED indexVars
  BY <1>2 DEF indexVars, history, IndexInv, IndexTypeOK, CompletePassCovers, PassInv, Hashes
<1> QED BY <1>1, <1>2, PostStep, MatchStep, SyncStep DEF IndexNext

(* The inductive invariant: what a pass has not recorded is still to do,   *)
(* and what it is about to record had no document when it looked.          *)
THEOREM IndexInvariance == IndexSpec => []IndexInv
  BY InitIndexInv, NextIndexInv, PTL DEF IndexSpec

(* A sync pass that came to its end has recorded every invocation that     *)
(* Horizon listed for it and whose operations it was given (index.js,      *)
(* syncContractEvents).                                                    *)
THEOREM PassCovers == IndexSpec => []CompletePassCovers
<1>1. IndexInv => CompletePassCovers
  BY DEF IndexInv
<1> QED BY IndexInvariance, <1>1, PTL

(* A sync pass writes to no document that was there when it looked for it  *)
(* (index.js, syncContractEvents: if (exists) continue).                   *)
THEOREM PassKeepsRecords == IndexSpec => EarlierRecordsKept
<1> DEFINE Keeps == \A s \in Syncer : (pc[s] = "write" /\ pc'[s] = "find") =>
                      Head(todo[s]) \notin known[s]
<1>1. IndexInv /\ [IndexNext]_indexVars => [Keeps]_indexVars
  BY DEF IndexInv, PassInv
<1> QED BY IndexInvariance, <1>1, PTL DEF IndexSpec, EarlierRecordsKept
=============================================================================
