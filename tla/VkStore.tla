------------------------------ MODULE VkStore ------------------------------
(***************************************************************************)
(* The verification-key store of soroban-zk-std: the entry points of       *)
(* ZkContract (lib.rs) over the chunked layout of vk.rs.                    *)
(*                                                                         *)
(* A client submits a call; the footprint of the call, the set of entries  *)
(* it may touch, is fixed then, from the ledger as it is then.  The ledger *)
(* runs one call at a time, later, against the entries as they are then.   *)
(* While it runs, the call reads and writes `work'; its writes reach       *)
(* `store' only when the entry point returns Ok, and are dropped when it   *)
(* returns Err or traps.  Every iteration of the loops of save_vk, load_vk *)
(* and clear_vk is a step, so that a trap can strike between any two.      *)
(***************************************************************************)
EXTENDS Integers, Sequences, FiniteSets

CONSTANTS
  Client,       (* Accounts that submit transactions.                          *)
  Keys,         (* Verification keys.                                          *)
  Byte,         (* The alphabet of serialized keys.                            *)
  Ser,          (* Ser[k]: what vk_to_bytes returns for k.                     *)
  Junk,         (* Arguments of set_verifying_key that vk_from_bytes refuses.  *)
  Claim,        (* Arguments <<proof_bytes, public_inputs>> of verify_proof.   *)
  Verdict,      (* Verdict[k, x]: what decoding and groth16_verify make of     *)
                (* claim x under key k.                                        *)
  ChunkSize,    (* VK_CHUNK_SIZE.                                              *)
  MaxChunks,    (* No key needs more chunks than this.                         *)
  Threshold,    (* VK_TTL_THRESHOLD.                                           *)
  Amount,       (* VK_TTL_AMOUNT.                                              *)
  MinTtl,       (* Ledgers the host gives a fresh entry to live.               *)
  NoRequest, NoEntry, NoKey

Verdicts == {"true", "false", "InvalidInput", "InvalidFieldElement",
             "DeserializationError"}

Results == Verdicts \union {"none", "ok", "trap", "StorageError"}

ChunkCount(k) == (Len(Ser[k]) + ChunkSize - 1) \div ChunkSize

ASSUME ClientAssumption == Client # {}

ASSUME SerAssumption ==
  /\ Ser \in [Keys -> Seq(Byte)]
  /\ \A k \in Keys : Ser[k] # <<>>
  /\ \A k1, k2 \in Keys : Ser[k1] = Ser[k2] => k1 = k2
  /\ \A k \in Keys : Ser[k] \notin Junk

ASSUME VerdictAssumption == Verdict \in [Keys \X Claim -> Verdicts]

ASSUME SizeAssumption ==
  /\ ChunkSize \in Nat \ {0}
  /\ MaxChunks \in Nat
  /\ \A k \in Keys : ChunkCount(k) <= MaxChunks

ASSUME TtlAssumption ==
  /\ Threshold \in Nat \ {0}
  /\ Amount \in Nat
  /\ MinTtl \in Nat \ {0}
  /\ Threshold <= Amount

ASSUME SentinelAssumption ==
  /\ NoEntry \notin Seq(Byte) \union Claim
                    \union [chunk_count : Nat, total_len : Nat]
  /\ NoKey \notin Keys
  /\ NoRequest \notin [op : {"set"}, bytes : {Ser[k] : k \in Keys} \union Junk]
                        \union [op : {"clear"}]
                        \union [op : {"verify"}, claim : Claim]

(***************************************************************************)
(* Ledger entries.  VkMeta and VkChunk(i) are persistent entries,          *)
(* ProofContext is the temporary entry ProofContextKey::Active.            *)
(***************************************************************************)
VkMeta == <<"VkMeta", 0>>
VkChunk(i) == <<"VkChunk", i>>
ProofContext == <<"Active", 0>>

ChunkIndex == 0 .. (MaxChunks - 1)
Entry == {VkMeta, ProofContext} \union {VkChunk(i) : i \in ChunkIndex}

Meta == [chunk_count : Nat, total_len : Nat]

(* The serialized bytes of a key, those before offset i * VK_CHUNK_SIZE,   *)
(* those of its i-th chunk, and its header.                                *)
SmallerOf(a, b) == IF a < b THEN a ELSE b
Upto(k, i) == SubSeq(Ser[k], 1, SmallerOf(Len(Ser[k]), i * ChunkSize))
ChunkOf(k, i) ==
  SubSeq(Ser[k], i * ChunkSize + 1, SmallerOf(Len(Ser[k]), i * ChunkSize + ChunkSize))
MetaOf(k) == [chunk_count |-> ChunkCount(k), total_len |-> Len(Ser[k])]

(* vk_from_bytes: the key a buffer is the serialization of, if any.        *)
KeyOfBytes(b) == IF \E k \in Keys : Ser[k] = b
                   THEN CHOOSE k \in Keys : Ser[k] = b
                   ELSE NoKey

(* The entry points with their arguments.                                  *)
Argument == {Ser[k] : k \in Keys} \union Junk
Request == [op : {"set"}, bytes : Argument]
             \union [op : {"clear"}]
             \union [op : {"verify"}, claim : Claim]

VARIABLES
  store,      (* The ledger: values and times to live of committed entries.  *)
  work,       (* The entries as the running call sees them.                  *)
  request,    (* request[c]: the call of c that is not answered yet.         *)
  footprint,  (* footprint[c]: the entries that call may touch.              *)
  result,     (* result[c]: what the last call of c returned.                *)
  pc,         (* The step the running call is at, or "idle".                 *)
  who,        (* The client whose call runs.                                 *)
  vk,         (* Local: the key at hand.                                     *)
  count,      (* Local: the chunk_count of the header that was read.         *)
  i,          (* Local: the loop index.                                      *)
  full        (* Local: the buffer load_vk reassembles.                      *)

local == <<vk, count, i, full>>
vars == <<store, work, request, footprint, result, pc, who, local>>

(***************************************************************************)
(* Storage.  An entry with a value and no time left is archived: the host  *)
(* refuses to run a call whose footprint names one.                        *)
(***************************************************************************)
Archived(s, e) == s.val[e] # NoEntry /\ s.ttl[e] = 0

(* Mutant of Put: an entry that is already there keeps its time to live.   *)
PutWithoutExtend(s, e, v) ==
  [val |-> [s.val EXCEPT ![e] = v],
   ttl |-> [s.ttl EXCEPT ![e] = IF s.val[e] = NoEntry THEN Amount ELSE @]]

(* set followed by extend_ttl(Threshold, Amount): the host gives a fresh   *)
(* entry MinTtl ledgers and extends only an entry below the threshold.     *)
Put(s, e, v) ==
  LET before == IF s.val[e] = NoEntry THEN MinTtl ELSE s.ttl[e]
  IN  [val |-> [s.val EXCEPT ![e] = v],
       ttl |-> [s.ttl EXCEPT ![e] = IF before < Threshold THEN Amount ELSE before]]

Drop(s, e) == [val |-> [s.val EXCEPT ![e] = NoEntry],
               ttl |-> [s.ttl EXCEPT ![e] = 0]]

(* set_proof_context and clear_proof_context.                              *)
SetProofContext(s, x) == Put(s, ProofContext, x)
ClearProofContext(s) == Drop(s, ProofContext)

ChunksBelow(n) == {VkChunk(j) : j \in {j \in ChunkIndex : j < n}}

StoredCount(s) ==
  IF s.val[VkMeta] = NoEntry THEN 0 ELSE s.val[VkMeta].chunk_count

(* The entries a call touches when it is simulated against ledger s.       *)
FootprintOf(s, r) ==
  CASE r.op = "set"    -> LET k == KeyOfBytes(r.bytes)
                          IN  IF k = NoKey THEN {}
                              ELSE {VkMeta} \union ChunksBelow(ChunkCount(k))
    [] r.op = "clear"  -> {VkMeta} \union ChunksBelow(StoredCount(s))
    [] r.op = "verify" -> {VkMeta, ProofContext} \union ChunksBelow(StoredCount(s))

(* The value of `who' while no call runs.                                  *)
Nobody == CHOOSE c \in Client : TRUE

EmptyStore == [val |-> [e \in Entry |-> NoEntry], ttl |-> [e \in Entry |-> 0]]

Init ==
  /\ store = EmptyStore
  /\ work = EmptyStore
  /\ request = [c \in Client |-> NoRequest]
  /\ footprint = [c \in Client |-> {}]
  /\ result = [c \in Client |-> "none"]
  /\ pc = "idle"
  /\ who = Nobody
  /\ vk = NoKey
  /\ count = 0
  /\ i = 0
  /\ full = <<>>

-----------------------------------------------------------------------------
(* The ledger around the contract.                                         *)

(* A client simulates a call and submits it with the footprint it got.     *)
Submit(c, r) ==
  /\ pc = "idle"
  /\ request[c] = NoRequest
  /\ request' = [request EXCEPT ![c] = r]
  /\ footprint' = [footprint EXCEPT ![c] = FootprintOf(store, r)]
  /\ result' = [result EXCEPT ![c] = "none"]
  /\ UNCHANGED <<store, work, pc, who, local>>

(* The call of c is answered and its local state is gone.                  *)
Answered(c, answer) ==
  /\ request' = [request EXCEPT ![c] = NoRequest]
  /\ footprint' = [footprint EXCEPT ![c] = {}]
  /\ result' = [result EXCEPT ![c] = answer]
  /\ pc' = "idle"
  /\ vk' = NoKey
  /\ count' = 0
  /\ i' = 0
  /\ full' = <<>>
  /\ who' = Nobody

(* The entry point returns Ok: what it wrote becomes the ledger's.         *)
Commit(s, answer) ==
  /\ Answered(who, answer)
  /\ store' = s
  /\ work' = s

(* The entry point returns Err, or the call traps: nothing was written.    *)
Abort(answer) ==
  /\ Answered(who, answer)
  /\ work' = store
  /\ store' = store

Begin(c) ==
  /\ pc = "idle"
  /\ request[c] # NoRequest
  /\ \A e \in footprint[c] : ~ Archived(store, e)
  /\ pc' = request[c].op
  /\ who' = c
  /\ UNCHANGED <<store, work, request, footprint, result, local>>

(* The host rejects a call whose footprint names an archived entry.        *)
Reject(c) ==
  /\ pc = "idle"
  /\ request[c] # NoRequest
  /\ \E e \in footprint[c] : Archived(store, e)
  /\ Answered(c, "trap")
  /\ UNCHANGED <<store, work>>

Older(s) == [e \in Entry |-> IF s.ttl[e] > 0 THEN s.ttl[e] - 1 ELSE 0]

(* A ledger closes: every entry is one ledger older, and a temporary entry *)
(* at the end of its time is gone.                                         *)
CloseLedger ==
  /\ pc = "idle"
  /\ \E e \in Entry : store.ttl[e] > 0
  /\ store' = [val |-> [store.val EXCEPT ![ProofContext] =
                          IF Older(store)[ProofContext] = 0 THEN NoEntry ELSE @],
               ttl |-> Older(store)]
  /\ work' = store'
  /\ UNCHANGED <<request, footprint, result, pc, who, local>>

(* Anyone may pay to restore an archived entry.                            *)
Restore(e) ==
  /\ pc = "idle"
  /\ Archived(store, e)
  /\ store' = [store EXCEPT !.ttl[e] = MinTtl]
  /\ work' = store'
  /\ UNCHANGED <<request, footprint, result, pc, who, local>>

(* The call exhausts its budget, or a host function traps.                 *)
Trap ==
  /\ pc # "idle"
  /\ Abort("trap")

-----------------------------------------------------------------------------
(* The running call.  Goto leaves to each step the locals it changes.      *)

(* The entries whose number depends on the ledger are the ones a footprint *)
(* can miss; the others are in the footprint of every call that needs them.*)
May(e) == e \in footprint[who]

Goto(step) ==
  /\ pc' = step
  /\ UNCHANGED <<store, request, footprint, result, who>>

(* set_verifying_key, up to the call of save_vk.  Whoever does not sign for *)
(* the admin traps at require_auth, as a call may at any step.  The admin   *)
(* is one the call names itself: it is compared with nothing on the ledger. *)
SetDecode ==
  /\ pc = "set"
  /\ LET k == KeyOfBytes(request[who].bytes) IN
       \/ /\ k = NoKey
          /\ Abort("DeserializationError")
       \/ /\ k # NoKey
          /\ vk' = k
          /\ Goto("save")
          /\ UNCHANGED <<work, count, i, full>>

(* Mutant of SaveChunk: the loop does not advance.                         *)
SaveChunkForever ==
  /\ pc = "save"
  /\ i < ChunkCount(vk)
  /\ work' = Put(work, VkChunk(i), ChunkOf(vk, i))
  /\ Goto("save")
  /\ UNCHANGED <<vk, count, i, full>>

(* save_vk: one iteration of the loop over the chunks.                     *)
SaveChunk ==
  /\ pc = "save"
  /\ i < ChunkCount(vk)
  /\ work' = Put(work, VkChunk(i), ChunkOf(vk, i))
  /\ i' = i + 1
  /\ Goto("save")
  /\ UNCHANGED <<vk, count, full>>

(* Mutant of SaveMeta: the loop leaves the last chunk out.                 *)
SaveMetaEarly ==
  /\ pc = "save"
  /\ i + 1 = ChunkCount(vk)
  /\ Commit(Put(work, VkMeta, MetaOf(vk)), "ok")

(* save_vk: the header, written last; the entry point returns Ok.          *)
SaveMeta ==
  /\ pc = "save"
  /\ i = ChunkCount(vk)
  /\ Commit(Put(work, VkMeta, MetaOf(vk)), "ok")

(* clear_vk: the header tells how many chunks there are to remove.         *)
ClearRead ==
  /\ pc = "clear"
  /\ count' = StoredCount(work)
  /\ Goto("purge")
  /\ UNCHANGED <<work, vk, i, full>>

ClearChunk ==
  /\ pc = "purge"
  /\ i < count
  /\ May(VkChunk(i))
  /\ work' = Drop(work, VkChunk(i))
  /\ i' = i + 1
  /\ Goto("purge")
  /\ UNCHANGED <<vk, count, full>>

ClearMeta ==
  /\ pc = "purge"
  /\ i = count
  /\ Commit(Drop(work, VkMeta), "ok")

(* Mutant of LoadMeta: load_vk reads on as long as there are chunks.       *)
LoadMetaScan ==
  /\ pc = "verify"
  /\ \/ /\ work.val[VkMeta] = NoEntry
        /\ Abort("StorageError")
     \/ /\ work.val[VkMeta] # NoEntry
        /\ count' = Cardinality({j \in ChunkIndex : work.val[VkChunk(j)] # NoEntry})
        /\ Goto("load")
        /\ UNCHANGED <<work, vk, i, full>>

(* load_vk: the header.                                                    *)
LoadMeta ==
  /\ pc = "verify"
  /\ \/ /\ work.val[VkMeta] = NoEntry
        /\ Abort("StorageError")
     \/ /\ work.val[VkMeta] # NoEntry
        /\ count' = work.val[VkMeta].chunk_count
        /\ Goto("load")
        /\ UNCHANGED <<work, vk, i, full>>

(* Mutant of LoadChunk: the chunk goes in front of those read before.      *)
LoadChunkInFront ==
  /\ pc = "load"
  /\ i < count
  /\ May(VkChunk(i))
  /\ full' = work.val[VkChunk(i)] \o full
  /\ i' = i + 1
  /\ Goto("load")
  /\ UNCHANGED <<work, vk, count>>

(* load_vk: one iteration of the loop over the chunks.                     *)
LoadChunk ==
  /\ pc = "load"
  /\ i < count
  /\ May(VkChunk(i))
  /\ \/ /\ work.val[VkChunk(i)] = NoEntry
        /\ Abort("StorageError")
     \/ /\ work.val[VkChunk(i)] # NoEntry
        /\ full' = full \o work.val[VkChunk(i)]
        /\ i' = i + 1
        /\ Goto("load")
        /\ UNCHANGED <<work, vk, count>>

(* load_vk: the length check and vk_from_bytes; then verify_proof raises   *)
(* the proof context.                                                      *)
LoadDecode ==
  /\ pc = "load"
  /\ i = count
  /\ LET k == KeyOfBytes(full) IN
       \/ /\ Len(full) # work.val[VkMeta].total_len \/ k = NoKey
          /\ Abort("DeserializationError")
       \/ /\ Len(full) = work.val[VkMeta].total_len /\ k # NoKey
          /\ vk' = k
          /\ work' = SetProofContext(work, request[who].claim)
          /\ Goto("prove")
          /\ UNCHANGED <<count, i, full>>

(* Mutant of Prove: the proof context is not lowered.                      *)
ProveWithoutClear ==
  /\ pc = "prove"
  /\ LET outcome == Verdict[vk, request[who].claim] IN
       \/ /\ outcome \in {"true", "false"}
          /\ Commit(work, outcome)
       \/ /\ outcome \notin {"true", "false"}
          /\ Abort(outcome)

(* verify_proof: decode the proof, groth16_verify, lower the proof context *)
(* and return the outcome.                                                 *)
Prove ==
  /\ pc = "prove"
  /\ LET outcome == Verdict[vk, request[who].claim] IN
       \/ /\ outcome \in {"true", "false"}
          /\ Commit(ClearProofContext(work), outcome)
       \/ /\ outcome \notin {"true", "false"}
          /\ Abort(outcome)

(* A loop driven by the stored header reaches a chunk that was not there   *)
(* when the call was simulated: the host traps.                            *)
Stray ==
  /\ pc \in {"purge", "load"}
  /\ i < count
  /\ ~ May(VkChunk(i))
  /\ Abort("trap")

Step == \/ SetDecode \/ SaveChunk \/ SaveMeta
        \/ ClearRead \/ ClearChunk \/ ClearMeta
        \/ LoadMeta \/ LoadChunk \/ LoadDecode \/ Prove
        \/ Stray

Next ==
  \/ \E c \in Client : (\E r \in Request : Submit(c, r)) \/ Begin(c) \/ Reject(c)
  \/ CloseLedger
  \/ \E e \in Entry : Restore(e)
  \/ Trap
  \/ Step

Spec == Init /\ [][Next]_vars

(* The host never leaves a running call standing.                          *)
FairSpec == Spec /\ WF_vars(Step)

-----------------------------------------------------------------------------
(* Properties.                                                             *)

StoreOK(s) ==
  /\ s = [val |-> s.val, ttl |-> s.ttl]
  /\ s.val = [e \in Entry |-> s.val[e]]
  /\ s.ttl \in [Entry -> Nat]
  /\ s.val[VkMeta] \in Meta \union {NoEntry}
  /\ s.val[ProofContext] \in Claim \union {NoEntry}
  /\ \A j \in ChunkIndex : s.val[VkChunk(j)] \in Seq(Byte) \union {NoEntry}

(* Entries, requests and locals have the types vk.rs gives them.           *)
TypeOK ==
  /\ StoreOK(store)
  /\ StoreOK(work)
  /\ request \in [Client -> Request \union {NoRequest}]
  /\ footprint \in [Client -> SUBSET Entry]
  /\ result \in [Client -> Results]
  /\ pc \in {"idle", "set", "save", "clear", "purge", "verify", "load", "prove"}
  /\ who \in Client
  /\ vk \in Keys \union {NoKey}
  /\ count \in Nat
  /\ i \in Nat
  /\ full \in Seq(Byte)

(* s holds exactly key k: its header, and under each index below the chunk *)
(* count the bytes of k that belong there.                                 *)
Holds(s, k) ==
  /\ s.val[VkMeta] = MetaOf(k)
  /\ \A j \in 0 .. (ChunkCount(k) - 1) : s.val[VkChunk(j)] = ChunkOf(k, j)

(* Whatever calls ran, trapped or were refused, and whatever keys were     *)
(* stored before, the header on the ledger never describes chunks of two   *)
(* keys, or a chunk that is missing: save_vk and clear_vk take effect as a *)
(* whole (vk.rs, save_vk, clear_vk).                                       *)
StoredKeyIsWhole ==
  store.val[VkMeta] # NoEntry => \E k \in Keys : Holds(store, k)

(* The proof context of one run is never seen by another: the temporary    *)
(* flag is down whenever no proof is being checked, and never on the       *)
(* ledger (lib.rs, verify_proof; vk.rs, clear_proof_context).              *)
ProofContextIsShortLived ==
  /\ store.val[ProofContext] = NoEntry
  /\ work.val[ProofContext] # NoEntry => pc = "prove"

(* What is true of the running call at each of its steps.                  *)
IdleInv == pc = "idle" => vk = NoKey /\ count = 0 /\ i = 0 /\ full = <<>>

(* Outside save_vk, clear_vk and the proof context, a call has not written.*)
ReadOnlyInv == pc \in {"idle", "set", "clear", "verify", "load"} => work = store

StartInv == pc \in {"set", "clear", "verify"} => i = 0 /\ full = <<>>

CallInv ==
  pc # "idle" =>
    /\ request[who] \in Request
    /\ request[who].op = CASE pc \in {"set", "save"} -> "set"
                           [] pc \in {"clear", "purge"} -> "clear"
                           [] pc \in {"verify", "load", "prove"} -> "verify"

SaveInv ==
  pc = "save" =>
    /\ vk \in Keys
    /\ vk = KeyOfBytes(request[who].bytes)
    /\ i <= ChunkCount(vk)
    /\ \A j \in 0 .. (i - 1) : /\ work.val[VkChunk(j)] = ChunkOf(vk, j)
                              /\ work.ttl[VkChunk(j)] >= Threshold

LoadInv ==
  pc = "load" =>
    \E k \in Keys : /\ Holds(store, k)
                   /\ count = ChunkCount(k)
                   /\ i <= count
                   /\ full = Upto(k, i)

(* The key groth16_verify runs with is the one the ledger holds, whatever  *)
(* longer key was stored before it (vk.rs, load_vk).                       *)
ProveInv ==
  pc = "prove" =>
    /\ vk \in Keys
    /\ Holds(store, vk)
    /\ \A e \in Entry \ {ProofContext} :
         work.val[e] = store.val[e] /\ work.ttl[e] = store.ttl[e]

(* The inductive invariant.                                                *)
IInv ==
  /\ TypeOK
  /\ StoredKeyIsWhole
  /\ ProofContextIsShortLived
  /\ IdleInv /\ ReadOnlyInv /\ StartInv /\ CallInv
  /\ SaveInv /\ LoadInv /\ ProveInv

(* A call that stores a key leaves every entry of that key with at least   *)
(* VK_TTL_THRESHOLD ledgers to live, also the entries that a previous key  *)
(* left behind close to the end of their time (vk.rs, save_vk).            *)
SaveRenewsEveryEntry ==
  [][ pc = "save" /\ store' # store =>
        /\ store'.ttl[VkMeta] >= Threshold
        /\ \A j \in 0 .. (StoredCount(store') - 1) :
             store'.ttl[VkChunk(j)] >= Threshold ]_vars

(* Every call that starts comes to an end: the loops of save_vk, load_vk   *)
(* and clear_vk terminate, and none waits for an entry it may not touch.   *)
CallsEnd == pc # "idle" ~> pc = "idle"

-----------------------------------------------------------------------------
(* VkStore implements VkRegister: callers see one register.                *)

(* The key a store holds.                                                  *)
KeyOf(s) == IF s.val[VkMeta] = NoEntry THEN NoKey
            ELSE CHOOSE k \in Keys : Holds(s, k)

Answer(k, r) ==
  CASE r.op = "set"    -> IF KeyOfBytes(r.bytes) = NoKey THEN "DeserializationError"
                                                         ELSE "ok"
    [] r.op = "clear"  -> "ok"
    [] r.op = "verify" -> IF k = NoKey THEN "StorageError" ELSE Verdict[k, r.claim]

Effect(k, r) ==
  CASE r.op = "set"    -> IF KeyOfBytes(r.bytes) = NoKey THEN k ELSE KeyOfBytes(r.bytes)
    [] r.op = "clear"  -> NoKey
    [] r.op = "verify" -> k

Register == INSTANCE VkRegister WITH key <- KeyOf(store)

(* Each call appears to take effect at once, on the whole key, or not at   *)
(* all, and answers what the register held at that moment.                 *)
ImplementsRegister == Register!Spec
=============================================================================
