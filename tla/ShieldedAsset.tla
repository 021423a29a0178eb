---------------------------- MODULE ShieldedAsset ----------------------------
(***************************************************************************)
(* The shielded asset contract of the demo and the clients that call it.   *)
(*                                                                         *)
(* The contract stores one ElGamal ciphertext per account and only ever    *)
(* adds ciphertexts to ciphertexts; addition is homomorphic, so here a     *)
(* ciphertext is the number it encrypts.  What a call adds is up to its    *)
(* caller: the contract compares the ciphertexts of a call neither with    *)
(* each other nor with the amount of tokens, and the check of the proof    *)
(* that would do so is commented out.  Calls wait in flight, run in any    *)
(* order, may fail or expire.  Calls an account has in flight together     *)
(* carry the same sequence number, so at most one of them runs.            *)
(***************************************************************************)
EXTENDS Integers, FiniteSets, FiniteSetsExt

CONSTANTS
  User,         (* Accounts.                                                 *)
  Honest,       (* Those whose client builds calls as the comments demand.   *)
  Funds,        (* Tokens each account starts with outside the contract.     *)
  Amounts,      (* Amounts of tokens that calls name, from an i128.          *)
  Deltas,       (* What the ciphertexts of calls encrypt.                    *)
  MaxInFlight,  (* Bound: calls that each account has in flight.             *)
  MaxBalance,   (* Bound: balances stay within it, on either side of zero.   *)
  MaxTaken,     (* Bound: what others take from an account.                  *)
  NoEntry       (* No ciphertext is stored.                                  *)

ASSUME BoundsAssumption ==
  /\ Honest \subseteq User
  /\ Funds \in Nat
  /\ Amounts \subseteq Int /\ Deltas \subseteq Int
  /\ MaxInFlight \in [User -> Nat]
  /\ MaxBalance \in Nat /\ MaxTaken \in Nat

ASSUME NoEntryAssumption == NoEntry \notin Int

ASSUME UserAssumption == IsFiniteSet(User)

(* The proof argument.  256 zero bytes and 256 bytes that decode to three  *)
(* points are accepted and then ignored; any other panics.                 *)
Proof == {"accepted", "refused"}

(* sender_delta and receiver_delta, like amount and delta, are arguments   *)
(* of their own.                                                           *)
AssetCall ==
  [op : {"shield", "unshield"}, amount : Amounts, delta : Deltas]
    \union [op : {"transfer"}, to : User, senderDelta : Deltas, receiverDelta : Deltas,
            proof : Proof]

VARIABLES
  bal,       (* Persistent storage of the contract, by account.              *)
  archived,  (* Accounts whose entry has reached the end of its time.        *)
  wallet,    (* Tokens of each account in the native token contract.         *)
  pool,      (* Tokens of the shielded asset contract there.                 *)
  flight,    (* flight[u]: calls of u that were submitted.                   *)
  created,   (* History: what calls added to balances beyond the tokens they *)
             (* brought in.                                                  *)
  taken      (* History: what transfers of others took from each account.    *)

assetVars == <<bal, archived, wallet, pool, flight, created, taken>>

(* get(&user).unwrap_or_else(zero), which is also get_balance.             *)
Balance(u) == IF bal[u] = NoEntry THEN 0 ELSE bal[u]

AssetInit ==
  /\ bal = [u \in User |-> NoEntry]
  /\ archived = {}
  /\ wallet = [u \in User |-> Funds]
  /\ pool = 0
  /\ flight = [u \in User |-> {}]
  /\ created = 0
  /\ taken = [u \in User |-> 0]

-----------------------------------------------------------------------------
(* Clients and the ledger.                                                 *)

(* What the comments on the entry points demand of the ciphertexts of a    *)
(* call ("must encrypt -amount", "a ciphertext encrypting that same        *)
(* amount", no negative amounts).                                          *)
Consistent(c) ==
  \/ c.op = "shield" /\ c.amount > 0 /\ c.delta = c.amount
  \/ c.op = "unshield" /\ c.amount > 0 /\ c.delta = -c.amount
  \/ c.op = "transfer" /\ c.receiverDelta > 0 /\ c.senderDelta = -c.receiverDelta

(* What a consistent call takes from the balance of its account.           *)
Spends(c) ==
  CASE c.op = "shield" -> 0 [] c.op = "unshield" -> c.amount
    [] c.op = "transfer" -> c.receiverDelta

(* A client builds a call.  An honest one holds the key of its account: it *)
(* decrypts what get_balance answers and spends no more than that.         *)
Send(u, c) ==
  /\ Cardinality(flight[u]) < MaxInFlight[u]
  /\ u \in Honest => Consistent(c) /\ Spends(c) <= Balance(u)
  /\ flight' = [flight EXCEPT ![u] = @ \union {c}]
  /\ UNCHANGED <<bal, archived, wallet, pool, created, taken>>

(* The time bound of a call passes.                                        *)
Expire(u, c) ==
  /\ c \in flight[u]
  /\ flight' = [flight EXCEPT ![u] = @ \ {c}]
  /\ UNCHANGED <<bal, archived, wallet, pool, created, taken>>

(* A call of u runs, touching the entries of S, and uses up the sequence   *)
(* number.  The host lets no call touch an archived entry.                 *)
Run(u, c, S) ==
  /\ c \in flight[u]
  /\ S \intersect archived = {}
  /\ flight' = [flight EXCEPT ![u] = {}]
  /\ UNCHANGED archived

WithinBounds ==
  \A u \in User : Balance(u)' \in -MaxBalance .. MaxBalance /\ taken'[u] <= MaxTaken

(* A call fails: a panic of the contract, an error of the token contract,  *)
(* an archived entry or an exhausted budget.  The host rolls it back.      *)
Fail(u) ==
  /\ flight[u] # {}
  /\ flight' = [flight EXCEPT ![u] = {}]
  /\ UNCHANGED <<bal, archived, wallet, pool, created, taken>>

(* The contract never extends the time to live of an entry.                *)
Archive(u) ==
  /\ bal[u] # NoEntry
  /\ archived' = archived \union {u}
  /\ UNCHANGED <<bal, wallet, pool, flight, created, taken>>

RestoreEntry(u) ==
  /\ u \in archived
  /\ archived' = archived \ {u}
  /\ UNCHANGED <<bal, wallet, pool, flight, created, taken>>

-----------------------------------------------------------------------------
(* The entry points.  The token contract refuses a negative amount.        *)

(* shield: the token transfer first, which fails when u is short.          *)
Shield(u, c) ==
  /\ Run(u, c, {u})
  /\ c.op = "shield"
  /\ c.amount >= 0 /\ wallet[u] >= c.amount
  /\ wallet' = [wallet EXCEPT ![u] = @ - c.amount]
  /\ pool' = pool + c.amount
  /\ bal' = [bal EXCEPT ![u] = Balance(u) + c.delta]
  /\ created' = created + c.delta - c.amount
  /\ UNCHANGED taken
  /\ WithinBounds

(* Mutant of Unshield: a failed token transfer does not undo the debit.    *)
UnshieldAnyway(u, c) ==
  /\ Run(u, c, {u})
  /\ c.op = "unshield" /\ c.amount >= 0
  /\ bal' = [bal EXCEPT ![u] = Balance(u) + c.delta]
  /\ IF pool >= c.amount
       THEN /\ pool' = pool - c.amount
            /\ wallet' = [wallet EXCEPT ![u] = @ + c.amount]
       ELSE UNCHANGED <<pool, wallet>>
  /\ created' = created + c.delta + c.amount
  /\ UNCHANGED taken
  /\ WithinBounds

(* unshield: the debit first, then the token transfer, which fails when    *)
(* the contract is short; nothing is compared with the balance.            *)
Unshield(u, c) ==
  /\ Run(u, c, {u})
  /\ c.op = "unshield"
  /\ c.amount >= 0 /\ pool >= c.amount
  /\ bal' = [bal EXCEPT ![u] = Balance(u) + c.delta]
  /\ pool' = pool - c.amount
  /\ wallet' = [wallet EXCEPT ![u] = @ + c.amount]
  /\ created' = created + c.delta + c.amount
  /\ UNCHANGED taken
  /\ WithinBounds

(* What a transfer of u adds to all balances, and takes from each account. *)
Added(u, c) == IF c.to = u THEN c.receiverDelta ELSE c.senderDelta + c.receiverDelta
TakenBy(u, c) ==
  IF c.to # u /\ c.receiverDelta < 0
    THEN [taken EXCEPT ![c.to] = @ - c.receiverDelta] ELSE taken

(* Mutant of Transfer: the deltas go to the wrong accounts.                *)
TransferSwapped(u, c) ==
  /\ c.op = "transfer"
  /\ Run(u, c, {u, c.to})
  /\ c.proof = "accepted"
  /\ bal' = [bal EXCEPT ![u] = Balance(u) + c.receiverDelta,
                        ![c.to] = Balance(c.to) + c.senderDelta]
  /\ created' = created + Added(u, c)
  /\ taken' = TakenBy(u, c)
  /\ UNCHANGED <<wallet, pool>>
  /\ WithinBounds

(* Mutant of Transfer: the sender's entry is written last, from a balance  *)
(* that includes the receiver's.                                           *)
TransferMerged(u, c) ==
  /\ c.op = "transfer"
  /\ Run(u, c, {u, c.to})
  /\ c.proof = "accepted"
  /\ bal' = [bal EXCEPT ![c.to] = Balance(u) + c.senderDelta,
                        ![u] = Balance(c.to) + c.receiverDelta]
  /\ created' = created + Added(u, c)
  /\ taken' = TakenBy(u, c)
  /\ UNCHANGED <<wallet, pool>>
  /\ WithinBounds

(* transfer_shielded: both balances are read before either is written, so  *)
(* of a transfer to oneself only the receiver's delta stays.               *)
Transfer(u, c) ==
  /\ c.op = "transfer"
  /\ Run(u, c, {u, c.to})
  /\ c.proof = "accepted"
  /\ bal' = [bal EXCEPT ![u] = Balance(u) + c.senderDelta,
                        ![c.to] = Balance(c.to) + c.receiverDelta]
  /\ created' = created + Added(u, c)
  /\ taken' = TakenBy(u, c)
  /\ UNCHANGED <<wallet, pool>>
  /\ WithinBounds

AssetNext ==
  \E u \in User :
    \/ Fail(u) \/ Archive(u) \/ RestoreEntry(u)
    \/ \E c \in AssetCall : Send(u, c)
    \/ \E c \in flight[u] :
         Expire(u, c) \/ Shield(u, c) \/ Unshield(u, c) \/ Transfer(u, c)

AssetSpec == AssetInit /\ [][AssetNext]_assetVars

-----------------------------------------------------------------------------
(* Properties.                                                             *)

(* Types; tokens are never negative; calls in flight of honest clients are *)
(* consistent.                                                             *)
AssetTypeOK ==
  /\ bal \in [User -> Int \union {NoEntry}]
  /\ archived \subseteq User
  /\ wallet \in [User -> Nat]
  /\ pool \in Nat
  /\ flight \in [User -> SUBSET AssetCall]
  /\ \A u \in Honest : \A c \in flight[u] : Consistent(c)
  /\ created \in Int
  /\ taken \in [User -> Nat]

(* What all balances together encrypt.                                     *)
Total == MapThenSumSet(Balance, User)

(* The balances add up to the tokens the contract holds plus what calls    *)
(* that returned added on their own account: the deltas and amounts that   *)
(* disagreed, and the sender's delta that a transfer to oneself loses.     *)
(* Whatever runs, fails or expires leaves nothing behind besides (lib.rs,  *)
(* shield, unshield, transfer_shielded).                                   *)
Conserved == Total = pool + created

(* An account whose client spends no more than the balance it reads is     *)
(* overdrawn by nothing but transfers of others that name it with a        *)
(* negative delta: with what those took its balance is not negative and    *)
(* covers every call it has in flight, although the contract compares      *)
(* nothing and the balance was read before the call ran.  Of the calls an  *)
(* account has in flight one runs (lib.rs, transfer_shielded, unshield).   *)
Covered ==
  \A u \in Honest :
    /\ Balance(u) + taken[u] >= 0
    /\ \A c \in flight[u] : Spends(c) <= Balance(u) + taken[u]

(* Types, and honest accounts are covered.                                 *)
AssetInv == AssetTypeOK /\ Covered

(* A call of u itself ran, and added what was meant for u: the delta of    *)
(* the sender, or of the receiver when it sends to itself.                 *)
OwnDebit(u) ==
  /\ flight'[u] = {}
  /\ \E c \in flight[u] :
       Balance(u)' = Balance(u) + (IF c.op # "transfer" THEN c.delta
                                   ELSE IF c.to = u THEN c.receiverDelta ELSE c.senderDelta)

(* A transfer to u ran, by a client that is not honest.                    *)
ForeignDebit(u) ==
  \E v \in User \ Honest : \E c \in flight[v] :
    /\ flight'[v] = {} /\ c.op = "transfer" /\ c.to = u
    /\ Balance(u)' = Balance(u) + c.receiverDelta

(* A shield of u itself ran, and the contract got its tokens.              *)
OwnPayment(u) ==
  /\ flight'[u] = {} /\ pool' - pool = wallet[u] - wallet'[u]
  /\ \E c \in flight[u] : /\ c.op = "shield" /\ c.amount = pool' - pool
                         /\ Balance(u)' = Balance(u) + c.delta

Traced(u) ==
  /\ Balance(u)' < Balance(u) => OwnDebit(u) \/ ForeignDebit(u)
  /\ wallet'[u] < wallet[u] => OwnPayment(u)

(* The balance of an account goes down in a call of its own, by the delta  *)
(* meant for it; or in a transfer to it with a negative delta, which no    *)
(* honest client builds.  Its tokens go down in a shield of its own        *)
(* (lib.rs, require_auth and the two set calls of transfer_shielded).      *)
DebitsAreTraced == [][\A u \in User : Traced(u)]_assetVars

(* The guide to shielded assets: "every transaction obeys the rules of the *)
(* system (balances are non-negative, the sender owns what they are        *)
(* spending, total supply is conserved)".                                  *)
TotalSupplyIsConserved == Total = pool
=============================================================================
