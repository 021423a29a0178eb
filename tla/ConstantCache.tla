---------------------------- MODULE ConstantCache ----------------------------
(***************************************************************************)
(* The constant cache of soroban-zk-std (cache.rs): the parameters of the  *)
(* Poseidon2 permutation and the curve generators, kept in the instance    *)
(* entry of the contract next to whatever else that contract keeps there.  *)
(*                                                                         *)
(* A call reads a few constants, one step each, so that a trap can strike  *)
(* between any two.  It works on its own copy of the instance entry, which *)
(* replaces the one on the ledger when the call returns and is dropped     *)
(* when it traps.  The entry has one time to live for all it holds; when   *)
(* that ends the entry is archived and the contract cannot run.            *)
(***************************************************************************)
EXTENDS Integers, Sequences, FiniteSets

CONSTANTS
  Value,       (* Values of the parameters, points included.                 *)
  Built,       (* Built[c]: the constant c as the code builds it.            *)
  Calls,       (* The constants a call of the contract reads, in order.      *)
  Own,         (* Names under which the contract keeps entries of its own.   *)
  OwnValue,    (* What it keeps there.                                       *)
  Threshold,   (* INSTANCE_LIFETIME_THRESHOLD.                               *)
  Amount,      (* INSTANCE_BUMP_AMOUNT.                                      *)
  MinTtl,      (* Ledgers the host gives a new or restored instance to live. *)
  Absent

(* ConstantKey.                                                            *)
Parameter == {"Poseidon2RoundConstants", "Poseidon2MatDiag", "FrModulus"}
Generator == {"G1Generator", "G2Generator"}
Constant == Parameter \union Generator

(* ZkContract::poseidon2_hash reads the parameters in the order of         *)
(* Poseidon2Sponge::new_cached.                                            *)
Poseidon2Hash == <<"Poseidon2MatDiag", "Poseidon2RoundConstants", "FrModulus">>

(* A generator is stored as bytes, a parameter as it is.                   *)
ToBytes(v) == [bytes |-> v]
Encoded(c) == IF c \in Generator THEN ToBytes(Built[c]) ELSE Built[c]

ASSUME BuiltAssumption == Built \in [Constant -> Value]
ASSUME CallsAssumption == /\ Calls \subseteq Seq(Constant) \ {<<>>}
                          /\ Poseidon2Hash \in Calls
ASSUME TtlAssumption ==
  /\ Threshold \in Nat \ {0}
  /\ Amount \in Nat
  /\ Threshold <= Amount
  /\ MinTtl \in Nat \ {0}
ASSUME AbsentAssumption ==
  Absent \notin Value \union OwnValue \union {ToBytes(v) : v \in Value}

(* Mutant of CacheKey: a constant is stored under its bare name.          *)
KeyByName(c) == <<"Symbol", c>>

(* A contracttype key is encoded with its type, so it differs from every   *)
(* symbol the contract itself uses, one of the same name included.         *)
CacheKey(c) == <<"ConstantKey", c>>
OwnKey(n) == <<"Symbol", n>>

Key == {CacheKey(c) : c \in Constant} \union {OwnKey(n) : n \in Own}
Content == Value \union {ToBytes(v) : v \in Value} \union OwnValue

VARIABLES
  store,   (* The instance entry on the ledger: content and time to live.    *)
  work,    (* The instance entry as the running call sees it.                *)
  call,    (* The constants the running call reads, <<>> when none runs.     *)
  got      (* The values it has read so far.                                 *)

cacheVars == <<store, work, call, got>>

Cached(s, c) == s.val[CacheKey(c)] # Absent

(* Mutant of Bump: only an entry that ran out is extended.                 *)
BumpLate(s) == [s EXCEPT !.ttl = IF @ = 0 THEN Amount ELSE @]

(* extend_ttl of the instance entry.                                       *)
Bump(s) == [s EXCEPT !.ttl = IF @ < Threshold THEN Amount ELSE @]

(* What a read makes of the content x of the entry of c: the generators    *)
(* are decoded, and what does not decode is built again (and not stored).  *)
Decodes(x) == \E v \in Value : x = ToBytes(v)

Decoded(c, x) ==
  CASE c \in Parameter -> x
    [] c \in Generator /\ Decodes(x) -> CHOOSE v \in Value : x = ToBytes(v)
    [] OTHER -> Built[c]

(* The value a read of c returns, and the instance entry after it.         *)
Fetched(s, c) == IF Cached(s, c) THEN Decoded(c, s.val[CacheKey(c)]) ELSE Built[c]

(* Mutant of Filled: the modulus is never stored.                          *)
FilledButModulus(s, c) == IF Cached(s, c) \/ c = "FrModulus" THEN s
                          ELSE [s EXCEPT !.val[CacheKey(c)] = Encoded(c)]

Filled(s, c) == IF Cached(s, c) THEN s
                ELSE [s EXCEPT !.val[CacheKey(c)] = Encoded(c)]

(***************************************************************************)
(* round_constants, mat_diag, fr_modulus, g1_generator, g2_generator: get, *)
(* set what is missing, bump, return.                                      *)
(***************************************************************************)
Read ==
  /\ call # <<>> /\ Len(got) < Len(call)
  /\ LET c == call[Len(got) + 1]
     IN  /\ got' = Append(got, Fetched(work, c))
         /\ work' = Bump(Filled(work, c))
  /\ UNCHANGED <<store, call>>

(* A contract that is archived cannot be called.                           *)
Begin == /\ call = <<>> /\ store.ttl > 0
         /\ call' \in Calls
         /\ work' = store
         /\ got' = <<>>
         /\ UNCHANGED store

Return == /\ call # <<>> /\ Len(got) = Len(call)
          /\ store' = work
          /\ call' = <<>>
          /\ UNCHANGED <<work, got>>

(* The call runs out of budget, at any point.                              *)
Trap == /\ call # <<>>
        /\ call' = <<>> /\ got' = <<>>
        /\ work' = store
        /\ UNCHANGED store

(* The contract writes an entry of its own.                                *)
WriteOwn(n, v) == /\ call = <<>> /\ store.ttl > 0
                  /\ store' = [store EXCEPT !.val[OwnKey(n)] = v]
                  /\ UNCHANGED <<work, call, got>>

CloseLedger == /\ call = <<>> /\ store.ttl > 0
               /\ store' = [store EXCEPT !.ttl = @ - 1]
               /\ UNCHANGED <<work, call, got>>

Restore == /\ call = <<>> /\ store.ttl = 0
           /\ store' = [store EXCEPT !.ttl = MinTtl]
           /\ UNCHANGED <<work, call, got>>

CacheInit == /\ store = [val |-> [k \in Key |-> Absent], ttl |-> MinTtl]
             /\ work = store
             /\ call = <<>> /\ got = <<>>

CacheNext == \/ Begin \/ Read \/ Return \/ Trap
             \/ \E n \in Own, v \in OwnValue : WriteOwn(n, v)
             \/ CloseLedger \/ Restore

CacheSpec == CacheInit /\ [][CacheNext]_cacheVars

-----------------------------------------------------------------------------
Instance == [val : [Key -> Content \union {Absent}], ttl : Nat]

(* Variables have their types.                                             *)
CacheTypeOK == /\ store \in Instance /\ work \in Instance
               /\ call \in Calls \union {<<>>}
               /\ got \in Seq(Value)
               /\ call # <<>> => Len(got) <= Len(call)

(* A constant is in the cache as the code builds it or not at all, on the  *)
(* ledger and in the call that runs; an entry the contract keeps under the *)
(* name of a constant changes nothing of that (cache.rs, Collision safety).*)
CoherentIn(s) == \A c \in Constant : s.val[CacheKey(c)] \in {Absent, Encoded(c)}
Coherent == CoherentIn(store) /\ CoherentIn(work)

(* A sponge over the cache hashes like a sponge over the code: whichever   *)
(* constants were cached before, by which calls, and however often the     *)
(* instance was archived, a read returns what the code builds.             *)
ReadsWhatIsBuilt ==
  call # <<>> => \A i \in 1 .. Len(got) : got[i] = Built[call[i]]

(* The inductive invariant: reads are right because the cache is coherent. *)
CacheInv == CacheTypeOK /\ Coherent /\ ReadsWhatIsBuilt

(* A call that traps caches nothing: the constants on the ledger are those *)
(* of whole calls.                                                         *)
RangeOf(s) == {s[i] : i \in 1 .. Len(s)}
CachedOn(s) == {c \in Constant : Cached(s, c)}
WholeCallsAreCached ==
  \A c \in CachedOn(store) :
    \E k \in Calls : c \in RangeOf(k) /\ RangeOf(k) \subseteq CachedOn(store)

(* A call that returns leaves the contract at least Threshold ledgers to   *)
(* live, a hit no less than a miss: in active use it is never archived.    *)
UseRenews == [][call # <<>> /\ call' = <<>> /\ got' # <<>>
                  => store'.ttl >= Threshold]_cacheVars
=============================================================================
