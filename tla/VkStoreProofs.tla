--------------------------- MODULE VkStoreProofs ---------------------------
(***************************************************************************)
(* For every set of clients, every set of keys, every chunk size and every *)
(* time to live: VkStore keeps its invariant, and implements VkRegister.   *)
(***************************************************************************)
EXTENDS VkStore, SequenceTheorems, TLAPS

(* Facts about the chunked layout of vk.rs that hold of every key and every *)
(* chunk size: the slices save_vk writes are the ones load_vk needs, and    *)
(* determine the key.                                                       *)

(* What KeyOfBytes returns: the only key with that serialization.          *)
LEMMA KeyOfBytesCorrect ==
  /\ \A b : KeyOfBytes(b) \in Keys \union {NoKey}
  /\ \A b : KeyOfBytes(b) # NoKey => KeyOfBytes(b) \in Keys /\ Ser[KeyOfBytes(b)] = b
  /\ \A k \in Keys : KeyOfBytes(Ser[k]) = k
<1>1. ASSUME NEW b, \E k \in Keys : Ser[k] = b
      PROVE  KeyOfBytes(b) \in Keys /\ Ser[KeyOfBytes(b)] = b
  BY <1>1 DEF KeyOfBytes
<1>2. ASSUME NEW b, ~ \E k \in Keys : Ser[k] = b
      PROVE  KeyOfBytes(b) = NoKey
  BY <1>2 DEF KeyOfBytes
<1>3. ASSUME NEW k \in Keys PROVE KeyOfBytes(Ser[k]) = k
  BY <1>1, SerAssumption
<1>4. QED BY <1>1, <1>2, <1>3

(* The chunk count is the quotient by VK_CHUNK_SIZE rounded up.            *)
LEMMA ChunkCountBounds ==
  ASSUME NEW k \in Keys
  PROVE  /\ Len(Ser[k]) \in Nat \ {0}
         /\ ChunkCount(k) \in Nat \ {0}
         /\ ChunkCount(k) <= MaxChunks
         /\ (ChunkCount(k) - 1) * ChunkSize < Len(Ser[k])
         /\ Len(Ser[k]) <= ChunkCount(k) * ChunkSize
<1> DEFINE L == Len(Ser[k])
           q == ChunkCount(k)
<1>1. L \in Nat \ {0}
  BY SerAssumption, EmptySeq
<1>2. ChunkSize \in Nat /\ ChunkSize > 0 /\ MaxChunks \in Nat /\ q <= MaxChunks
  BY SizeAssumption
<1>3. /\ q \in Int
      /\ q * ChunkSize <= L + ChunkSize - 1
      /\ L + ChunkSize - 1 < q * ChunkSize + ChunkSize
  <2> HIDE DEF L
  <2>1. q = (L + ChunkSize - 1) \div ChunkSize
    BY DEF ChunkCount, L
  <2> HIDE DEF q
  <2> QED BY <1>1, <1>2, <2>1, Z3
<1> HIDE DEF L, q
<1>4. (q - 1) * ChunkSize = q * ChunkSize - ChunkSize
  BY <1>2, <1>3, Z3
<1>5. q > 0
  BY <1>1, <1>2, <1>3, Z3
<1>6. QED
  BY <1>1, <1>2, <1>3, <1>4, <1>5 DEF L, q

(* Where the j-th chunk of a key begins and ends.                          *)
LEMMA ChunkBounds ==
  ASSUME NEW k \in Keys, NEW j \in Nat, j < ChunkCount(k)
  PROVE  /\ j * ChunkSize \in Nat
         /\ (j + 1) * ChunkSize = j * ChunkSize + ChunkSize
         /\ j * ChunkSize < Len(Ser[k])
<1> DEFINE q == ChunkCount(k)
<1>1. /\ q \in Nat
      /\ (q - 1) * ChunkSize < Len(Ser[k])
      /\ Len(Ser[k]) \in Nat
      /\ ChunkSize \in Nat /\ ChunkSize > 0
      /\ j <= q - 1
  BY ChunkCountBounds, SizeAssumption
<1> HIDE DEF q
<1>2. j * ChunkSize \in Nat /\ (j + 1) * ChunkSize = j * ChunkSize + ChunkSize
  BY <1>1, Z3
<1>3. j * ChunkSize <= (q - 1) * ChunkSize
  <2>1. (q - 1 - j) * ChunkSize >= 0
    BY <1>1, Z3
  <2>2. (q - 1 - j) * ChunkSize = (q - 1) * ChunkSize - j * ChunkSize
    BY <1>1, Z3
  <2>3. (q - 1) * ChunkSize \in Int /\ j * ChunkSize \in Int
    BY <1>1, Z3
  <2> QED BY <2>1, <2>2, <2>3
<1>4. (q - 1) * ChunkSize \in Int
  BY <1>1, Z3
<1>5. QED
  BY <1>1, <1>2, <1>3, <1>4

(* Every slice of a key is a sequence of bytes.                            *)
LEMMA SliceType ==
  ASSUME NEW k \in Keys, NEW m \in Nat, NEW n \in Nat, n <= Len(Ser[k]), m > 0
  PROVE  SubSeq(Ser[k], m, n) \in Seq(Byte)
<1>1. Ser[k] \in Seq(Byte)
  BY SerAssumption
<1>2. \A x \in m .. n : Ser[k][x] \in Byte
  BY <1>1
<1>3. QED
  BY <1>2, SubSeqProperties

LEMMA ChunkOfType ==
  ASSUME NEW k \in Keys, NEW j \in Nat, j < ChunkCount(k)
  PROVE  ChunkOf(k, j) \in Seq(Byte)
<1> DEFINE o == j * ChunkSize
           e == SmallerOf(Len(Ser[k]), o + ChunkSize)
<1>1. /\ o \in Nat /\ Len(Ser[k]) \in Nat /\ ChunkSize \in Nat
      /\ o < Len(Ser[k])
  BY ChunkBounds, ChunkCountBounds, SizeAssumption
<1> HIDE DEF o
<1>2. e \in Nat /\ e <= Len(Ser[k])
  BY <1>1 DEF SmallerOf
<1> HIDE DEF e
<1>3. SubSeq(Ser[k], o + 1, e) \in Seq(Byte)
  BY <1>1, <1>2, SliceType
<1>4. QED
  BY <1>3 DEF ChunkOf, o, e

(* load_vk's buffer: empty at first, one chunk longer after each           *)
(* iteration, and the whole key after the last.                            *)
LEMMA UptoZero ==
  ASSUME NEW k \in Keys
  PROVE  Upto(k, 0) = <<>>
<1>1. Len(Ser[k]) \in Nat /\ 0 * ChunkSize = 0
  BY ChunkCountBounds, SizeAssumption
<1>2. SmallerOf(Len(Ser[k]), 0 * ChunkSize) = 0
  BY <1>1 DEF SmallerOf
<1>3. SubSeq(Ser[k], 1, 0) = <<>>
  BY SubSeqEmpty
<1>4. QED
  BY <1>2, <1>3 DEF Upto

LEMMA UptoStep ==
  ASSUME NEW k \in Keys, NEW j \in Nat, j < ChunkCount(k)
  PROVE  Upto(k, j) \o ChunkOf(k, j) = Upto(k, j + 1)
<1> DEFINE L == Len(Ser[k])
           o == j * ChunkSize
           e == SmallerOf(L, o + ChunkSize)
<1>1. /\ o \in Nat /\ L \in Nat /\ ChunkSize \in Nat
      /\ o < L /\ (j + 1) * ChunkSize = o + ChunkSize
  BY ChunkBounds, ChunkCountBounds, SizeAssumption
<1>2. Upto(k, j + 1) = SubSeq(Ser[k], 1, e)
  BY <1>1 DEF Upto
<1>3. ChunkOf(k, j) = SubSeq(Ser[k], o + 1, e)
  BY DEF ChunkOf
<1>4. Upto(k, j) = SubSeq(Ser[k], 1, SmallerOf(L, o))
  BY DEF Upto
<1> HIDE DEF o, e
<1>5. SmallerOf(L, o) = o
  BY <1>1 DEF SmallerOf
<1>6. e \in o .. L
  BY <1>1 DEF SmallerOf, e
<1>7. Ser[k] \in Seq(Byte)
  BY SerAssumption
<1>8. /\ 1 \in 1 .. Len(Ser[k]) + 1
      /\ o \in 1 - 1 .. Len(Ser[k])
      /\ e \in o .. Len(Ser[k])
  BY <1>1, <1>6
<1>9. SubSeq(Ser[k], 1, o) \o SubSeq(Ser[k], o + 1, e) = SubSeq(Ser[k], 1, e)
  BY <1>7, <1>8, ConcatAdjacentSubSeq
<1>10. QED
  BY <1>2, <1>3, <1>4, <1>5, <1>9

LEMMA UptoAll ==
  ASSUME NEW k \in Keys
  PROVE  Upto(k, ChunkCount(k)) = Ser[k]
<1>1. /\ Len(Ser[k]) \in Nat /\ Len(Ser[k]) <= ChunkCount(k) * ChunkSize
      /\ ChunkCount(k) \in Nat /\ ChunkSize \in Nat
  BY ChunkCountBounds, SizeAssumption
<1>2. ChunkCount(k) * ChunkSize \in Nat
  BY <1>1, Z3
<1>3. SmallerOf(Len(Ser[k]), ChunkCount(k) * ChunkSize) = Len(Ser[k])
  BY <1>1, <1>2 DEF SmallerOf
<1>4. QED
  BY <1>3, SubSeqFull, SerAssumption DEF Upto

(* Two keys of one length that agree on every chunk are one key.           *)
LEMMA ChunksDetermineKey ==
  ASSUME NEW k1 \in Keys, NEW k2 \in Keys,
         Len(Ser[k1]) = Len(Ser[k2]),
         \A j \in 0 .. (ChunkCount(k1) - 1) : ChunkOf(k1, j) = ChunkOf(k2, j)
  PROVE  k1 = k2
<1> DEFINE L == Len(Ser[k1])
<1>1. /\ L \in Nat /\ ChunkSize \in Nat /\ ChunkSize > 0
      /\ ChunkCount(k1) \in Nat
      /\ L <= ChunkCount(k1) * ChunkSize
  BY ChunkCountBounds, SizeAssumption
<1>2. ASSUME NEW x \in 1 .. L PROVE Ser[k1][x] = Ser[k2][x]
  <2> DEFINE j == (x - 1) \div ChunkSize
             o == j * ChunkSize
             e == SmallerOf(L, o + ChunkSize)
  <2>1. x \in Nat /\ 1 <= x /\ x <= L
    BY <1>1
  <2>2. j \in Int /\ o <= x - 1 /\ x - 1 < o + ChunkSize
    <3>1. x - 1 \in Int
      BY <2>1
    <3> QED BY <1>1, <3>1, Z3
  <2> HIDE DEF j
  <2>3. j >= 0
    <3>1. j < 0 => j * ChunkSize <= 0 - ChunkSize
      BY <1>1, <2>2, Z3
    <3> QED BY <1>1, <2>1, <2>2, <3>1, Z3
  <2>4. j < ChunkCount(k1)
    <3> SUFFICES ASSUME j >= ChunkCount(k1) PROVE FALSE
      BY <1>1, <2>2
    <3>1. (j - ChunkCount(k1)) * ChunkSize >= 0
      BY <1>1, <2>2, Z3
    <3>2. (j - ChunkCount(k1)) * ChunkSize = o - ChunkCount(k1) * ChunkSize
      BY <1>1, <2>2, Z3
    <3>3. o \in Int /\ ChunkCount(k1) * ChunkSize \in Int
      BY <1>1, <2>2, Z3
    <3> QED BY <1>1, <2>1, <2>2, <3>1, <3>2, <3>3
  <2>5. ChunkOf(k1, j) = ChunkOf(k2, j)
    BY <1>1, <2>2, <2>3, <2>4
  <2>6. /\ ChunkOf(k1, j) = SubSeq(Ser[k1], o + 1, e)
        /\ ChunkOf(k2, j) = SubSeq(Ser[k2], o + 1, e)
    BY DEF ChunkOf
  <2>7. o \in Nat
    BY <1>1, <2>2, <2>3, Z3
  <2> HIDE DEF o
  <2>8. e \in Nat /\ e <= L /\ x <= e
    BY <1>1, <2>1, <2>2, <2>7 DEF SmallerOf
  <2> HIDE DEF e
  <2>9. ASSUME NEW k \in {k1, k2}
        PROVE  SubSeq(Ser[k], o + 1, e)[x - o] = Ser[k][x]
    <3>1. Ser[k] \in Seq(Byte) /\ Len(Ser[k]) = L
      BY SerAssumption
    <3>2. \A y \in o + 1 .. e : Ser[k][y] \in Byte
      BY <1>1, <2>7, <2>8, <3>1
    <3>3. o + 1 \in Int /\ e \in Int
      BY <2>7, <2>8
    <3>4. \A y \in 1 .. e - (o + 1) + 1 : SubSeq(Ser[k], o + 1, e)[y] = Ser[k][(o + 1) + y - 1]
      BY <3>2, <3>3, SubSeqProperties
    <3>5. x - o \in 1 .. e - (o + 1) + 1 /\ (o + 1) + (x - o) - 1 = x
      BY <2>1, <2>2, <2>7, <2>8
    <3> QED BY <3>4, <3>5
  <2>10. QED
    BY <2>5, <2>6, <2>9
<1>3. Ser[k1] \in Seq(Byte) /\ Ser[k2] \in Seq(Byte)
  BY SerAssumption
<1>4. Ser[k1] = Ser[k2]
  BY <1>2, <1>3, SeqEqual
<1>5. QED
  BY <1>4, SerAssumption

(* A store holds at most one key, and KeyOf names it.                      *)
LEMMA HoldsUnique ==
  ASSUME NEW s, NEW k1 \in Keys, NEW k2 \in Keys, Holds(s, k1), Holds(s, k2)
  PROVE  k1 = k2
<1>1. MetaOf(k1) = MetaOf(k2)
  BY DEF Holds
<1>2. Len(Ser[k1]) = Len(Ser[k2]) /\ ChunkCount(k1) = ChunkCount(k2)
  BY <1>1 DEF MetaOf
<1>3. \A j \in 0 .. (ChunkCount(k1) - 1) : ChunkOf(k1, j) = ChunkOf(k2, j)
  BY <1>2 DEF Holds
<1>4. QED
  BY <1>2, <1>3, ChunksDetermineKey

LEMMA KeyOfCorrect ==
  ASSUME NEW s, NEW k \in Keys, Holds(s, k)
  PROVE  KeyOf(s) = k /\ s.val[VkMeta] # NoEntry
<1>1. MetaOf(k) \in Meta
  BY ChunkCountBounds DEF MetaOf, Meta
<1>2. s.val[VkMeta] # NoEntry
  BY <1>1, SentinelAssumption DEF Holds, Meta
<1>3. \A x \in Keys : Holds(s, x) => x = k
  BY HoldsUnique
<1>4. QED
  BY <1>2, <1>3 DEF KeyOf

-----------------------------------------------------------------------------
(* The ledger entries are pairwise different.                              *)
LEMMA EntryDistinct ==
  /\ VkMeta \in Entry /\ ProofContext \in Entry
  /\ VkMeta # ProofContext
  /\ \A j : VkChunk(j) # VkMeta /\ VkChunk(j) # ProofContext
  /\ \A j, l : VkChunk(j) = VkChunk(l) => j = l
  /\ \A j : VkChunk(j) \in Entry <=> j \in ChunkIndex
BY DEF Entry, VkMeta, ProofContext, VkChunk

(* The values an entry may hold.                                           *)
ValueOf(e, v) ==
  /\ e = VkMeta => v \in Meta
  /\ e = ProofContext => v \in Claim
  /\ \A j \in ChunkIndex : e = VkChunk(j) => v \in Seq(Byte)

LEMMA PutCorrect ==
  ASSUME NEW s, NEW e \in Entry, NEW v, StoreOK(s), ValueOf(e, v)
  PROVE  /\ StoreOK(Put(s, e, v))
         /\ Put(s, e, v).val[e] = v
         /\ Put(s, e, v).ttl[e] >= Threshold
         /\ \A f \in Entry \ {e} : /\ Put(s, e, v).val[f] = s.val[f]
                                   /\ Put(s, e, v).ttl[f] = s.ttl[f]
<1> DEFINE p == Put(s, e, v)
           before == IF s.val[e] = NoEntry THEN MinTtl ELSE s.ttl[e]
           after == IF before < Threshold THEN Amount ELSE before
<1>1. p = [val |-> [s.val EXCEPT ![e] = v], ttl |-> [s.ttl EXCEPT ![e] = after]]
  BY DEF Put
<1>2. /\ s.val = [f \in Entry |-> s.val[f]]
      /\ s.ttl \in [Entry -> Nat]
      /\ s.val[VkMeta] \in Meta \union {NoEntry}
      /\ s.val[ProofContext] \in Claim \union {NoEntry}
      /\ \A j \in ChunkIndex : s.val[VkChunk(j)] \in Seq(Byte) \union {NoEntry}
  BY DEF StoreOK
<1>3. after \in Nat /\ after >= Threshold
  BY <1>2, TtlAssumption
<1> HIDE DEF after, p
<1>4. p = [val |-> p.val, ttl |-> p.ttl]
  BY <1>1
<1>5. /\ p.val = [f \in Entry |-> p.val[f]]
      /\ p.val[e] = v
      /\ \A f \in Entry \ {e} : p.val[f] = s.val[f]
  BY <1>1, <1>2
<1>6. /\ p.ttl \in [Entry -> Nat]
      /\ p.ttl[e] = after
      /\ \A f \in Entry \ {e} : p.ttl[f] = s.ttl[f]
  BY <1>1, <1>2, <1>3
<1>7. /\ p.val[VkMeta] \in Meta \union {NoEntry}
      /\ p.val[ProofContext] \in Claim \union {NoEntry}
  BY <1>2, <1>5, EntryDistinct DEF ValueOf
<1>8. \A j \in ChunkIndex : p.val[VkChunk(j)] \in Seq(Byte) \union {NoEntry}
  BY <1>2, <1>5, EntryDistinct DEF ValueOf
<1>9. StoreOK(p)
  BY <1>4, <1>5, <1>6, <1>7, <1>8 DEF StoreOK
<1>10. QED
  BY <1>3, <1>5, <1>6, <1>9 DEF p

LEMMA DropCorrect ==
  ASSUME NEW s, NEW e \in Entry, StoreOK(s)
  PROVE  /\ StoreOK(Drop(s, e))
         /\ Drop(s, e).val[e] = NoEntry
         /\ \A f \in Entry \ {e} : /\ Drop(s, e).val[f] = s.val[f]
                                   /\ Drop(s, e).ttl[f] = s.ttl[f]
<1> DEFINE p == Drop(s, e)
<1>1. p = [val |-> [s.val EXCEPT ![e] = NoEntry], ttl |-> [s.ttl EXCEPT ![e] = 0]]
  BY DEF Drop
<1>2. /\ s.val = [f \in Entry |-> s.val[f]]
      /\ s.ttl \in [Entry -> Nat]
      /\ s.val[VkMeta] \in Meta \union {NoEntry}
      /\ s.val[ProofContext] \in Claim \union {NoEntry}
      /\ \A j \in ChunkIndex : s.val[VkChunk(j)] \in Seq(Byte) \union {NoEntry}
  BY DEF StoreOK
<1> HIDE DEF p
<1>3. p = [val |-> p.val, ttl |-> p.ttl]
  BY <1>1
<1>4. /\ p.val = [f \in Entry |-> p.val[f]]
      /\ p.val[e] = NoEntry
      /\ \A f \in Entry \ {e} : p.val[f] = s.val[f]
  BY <1>1, <1>2
<1>5. /\ p.ttl \in [Entry -> Nat]
      /\ \A f \in Entry \ {e} : p.ttl[f] = s.ttl[f]
  BY <1>1, <1>2
<1>6. /\ p.val[VkMeta] \in Meta \union {NoEntry}
      /\ p.val[ProofContext] \in Claim \union {NoEntry}
      /\ \A j \in ChunkIndex : p.val[VkChunk(j)] \in Seq(Byte) \union {NoEntry}
  BY <1>2, <1>4, EntryDistinct
<1>7. StoreOK(p)
  BY <1>3, <1>4, <1>5, <1>6 DEF StoreOK
<1>8. QED
  BY <1>4, <1>5, <1>7 DEF p

(* Which key a store holds is a matter of its persistent values.           *)
LEMMA HoldsTransfer ==
  ASSUME NEW s, NEW t, NEW k \in Keys, Holds(s, k),
         t.val[VkMeta] = s.val[VkMeta],
         \A j \in ChunkIndex : t.val[VkChunk(j)] = s.val[VkChunk(j)]
  PROVE  Holds(t, k)
<1>1. \A j \in 0 .. (ChunkCount(k) - 1) : j \in ChunkIndex
  BY ChunkCountBounds, SizeAssumption DEF ChunkIndex
<1>2. QED
  BY <1>1 DEF Holds

LEMMA EmptyStoreOK ==
  /\ StoreOK(EmptyStore)
  /\ \A e \in Entry : EmptyStore.val[e] = NoEntry
<1>1. EmptyStore = [val |-> [e \in Entry |-> NoEntry], ttl |-> [e \in Entry |-> 0]]
  BY DEF EmptyStore
<1>2. /\ EmptyStore.val = [e \in Entry |-> NoEntry]
      /\ EmptyStore.ttl = [e \in Entry |-> 0]
  BY <1>1
<1>3. QED
  BY <1>1, <1>2, EntryDistinct DEF StoreOK

LEMMA NobodyIsClient == Nobody \in Client
BY ClientAssumption DEF Nobody

LEMMA InitInv == Init => IInv
<1> SUFFICES ASSUME Init PROVE IInv
  OBVIOUS
<1>1. TypeOK
  BY EmptyStoreOK, NobodyIsClient DEF Init, TypeOK, Results
<1>2. StoredKeyIsWhole /\ ProofContextIsShortLived
  BY EmptyStoreOK, EntryDistinct DEF Init, StoredKeyIsWhole, ProofContextIsShortLived
<1>3. IdleInv /\ ReadOnlyInv /\ StartInv /\ CallInv /\ SaveInv /\ LoadInv /\ ProveInv
  BY DEF Init, IdleInv, ReadOnlyInv, StartInv, CallInv, SaveInv, LoadInv, ProveInv
<1>4. QED
  BY <1>1, <1>2, <1>3 DEF IInv

(* An answered call leaves the machine idle; what remains to be shown is   *)
(* that the ledger is in order.                                            *)
LEMMA AnsweredInv ==
  ASSUME IInv, NEW c \in Client, NEW answer \in Results, Answered(c, answer),
         work' = store', StoreOK(store'),
         store'.val[VkMeta] # NoEntry => \E k \in Keys : Holds(store', k),
         store'.val[ProofContext] = NoEntry
  PROVE  IInv'
<1> USE DEF IInv, Answered
<1>1. TypeOK'
  <2>1. request' \in [Client -> Request \union {NoRequest}]
    BY DEF TypeOK
  <2>2. footprint' \in [Client -> SUBSET Entry]
    BY DEF TypeOK
  <2>3. result' \in [Client -> Results]
    BY DEF TypeOK
  <2>4. full' \in Seq(Byte)
    OBVIOUS
  <2>5. QED
    BY <2>1, <2>2, <2>3, <2>4, NobodyIsClient DEF TypeOK
<1>2. StoredKeyIsWhole'
  BY DEF StoredKeyIsWhole, Holds
<1>3. ProofContextIsShortLived'
  BY DEF ProofContextIsShortLived
<1>4. IdleInv' /\ ReadOnlyInv' /\ StartInv' /\ CallInv' /\ SaveInv' /\ LoadInv' /\ ProveInv'
  BY DEF IdleInv, ReadOnlyInv, StartInv, CallInv, SaveInv, LoadInv, ProveInv
<1>5. QED
  BY <1>1, <1>2, <1>3, <1>4

LEMMA AbortInv ==
  ASSUME IInv, NEW answer \in Results, Abort(answer)
  PROVE  IInv'
<1>1. Answered(who, answer) /\ work' = store /\ store' = store /\ who \in Client
  BY DEF Abort, IInv, TypeOK
<1>2. StoreOK(store') /\ store'.val[ProofContext] = NoEntry
  BY <1>1 DEF IInv, TypeOK, ProofContextIsShortLived
<1>3. store'.val[VkMeta] # NoEntry => \E k \in Keys : Holds(store', k)
  BY <1>1 DEF IInv, StoredKeyIsWhole
<1>4. QED
  BY <1>1, <1>2, <1>3, AnsweredInv

(* The ledger around the contract.                                         *)

LEMMA FootprintType ==
  ASSUME IInv, NEW r \in Request
  PROVE  FootprintOf(store, r) \in SUBSET Entry
<1>1. \A n : ChunksBelow(n) \in SUBSET Entry
  BY DEF ChunksBelow, Entry
<1>2. r.op \in {"set", "clear", "verify"}
  BY DEF Request
<1>3. QED
  BY <1>1, <1>2, EntryDistinct DEF FootprintOf

LEMMA SubmitInv ==
  ASSUME IInv, NEW c \in Client, NEW r \in Request, Submit(c, r)
  PROVE  IInv'
<1> USE DEF IInv, Submit, local
<1>1. FootprintOf(store, r) \in SUBSET Entry
  BY FootprintType
<1>2. TypeOK'
  BY <1>1 DEF TypeOK, Results
<1>3. StoredKeyIsWhole' /\ ProofContextIsShortLived'
  BY DEF StoredKeyIsWhole, ProofContextIsShortLived, Holds
<1>4. IdleInv' /\ ReadOnlyInv' /\ StartInv' /\ CallInv' /\ SaveInv' /\ LoadInv' /\ ProveInv'
  BY DEF IdleInv, ReadOnlyInv, StartInv, CallInv, SaveInv, LoadInv, ProveInv
<1>5. QED
  BY <1>2, <1>3, <1>4

LEMMA BeginInv ==
  ASSUME IInv, NEW c \in Client, Begin(c)
  PROVE  IInv'
<1> USE DEF IInv, Begin, local
<1>1. request[c] \in Request /\ request[c].op \in {"set", "clear", "verify"}
  BY DEF TypeOK, Request
<1>2. TypeOK'
  BY <1>1 DEF TypeOK
<1>3. StoredKeyIsWhole'
  BY DEF StoredKeyIsWhole, Holds
<1>4. ProofContextIsShortLived'
  BY DEF ProofContextIsShortLived
<1>5. IdleInv' /\ ReadOnlyInv' /\ StartInv' /\ SaveInv' /\ LoadInv' /\ ProveInv'
  BY <1>1 DEF IdleInv, ReadOnlyInv, StartInv, SaveInv, LoadInv, ProveInv
<1>6. CallInv'
  BY <1>1 DEF CallInv
<1>7. QED
  BY <1>2, <1>3, <1>4, <1>5, <1>6

LEMMA RejectInv ==
  ASSUME IInv, NEW c \in Client, Reject(c)
  PROVE  IInv'
<1>1. Answered(c, "trap") /\ store' = store /\ work' = store
  BY DEF Reject, IInv, ReadOnlyInv
<1>2. StoreOK(store') /\ store'.val[ProofContext] = NoEntry
  BY <1>1 DEF IInv, TypeOK, ProofContextIsShortLived
<1>3. store'.val[VkMeta] # NoEntry => \E k \in Keys : Holds(store', k)
  BY <1>1 DEF IInv, StoredKeyIsWhole
<1>4. QED
  BY <1>1, <1>2, <1>3, AnsweredInv DEF Results

(* A step of the ledger that touches neither values nor calls.             *)
LEMMA AgeingInv ==
  ASSUME IInv, pc = "idle", StoreOK(store'), store'.val = store.val, work' = store',
         UNCHANGED <<request, footprint, result, pc, who, local>>
  PROVE  IInv'
<1> USE DEF IInv, local
<1>1. TypeOK'
  BY DEF TypeOK
<1>2. StoredKeyIsWhole' /\ ProofContextIsShortLived'
  BY DEF StoredKeyIsWhole, ProofContextIsShortLived, Holds
<1>3. IdleInv' /\ ReadOnlyInv' /\ StartInv' /\ CallInv' /\ SaveInv' /\ LoadInv' /\ ProveInv'
  BY DEF IdleInv, ReadOnlyInv, StartInv, CallInv, SaveInv, LoadInv, ProveInv
<1>4. QED
  BY <1>1, <1>2, <1>3

LEMMA CloseLedgerInv ==
  ASSUME IInv, CloseLedger
  PROVE  IInv'
<1>1. /\ StoreOK(store) /\ pc = "idle" /\ store.val[ProofContext] = NoEntry
      /\ work' = store'
      /\ UNCHANGED <<request, footprint, result, pc, who, local>>
  BY DEF IInv, TypeOK, ProofContextIsShortLived, CloseLedger
<1>2. store' = [val |-> [store.val EXCEPT ![ProofContext] =
                          IF Older(store)[ProofContext] = 0 THEN NoEntry ELSE @],
               ttl |-> Older(store)]
  BY DEF CloseLedger
<1>3. store'.val = store.val
  BY <1>1, <1>2 DEF StoreOK
<1>4. store'.ttl \in [Entry -> Nat]
  BY <1>1, <1>2 DEF StoreOK, Older
<1>5. store' = [val |-> store'.val, ttl |-> store'.ttl]
  BY <1>2
<1>6. StoreOK(store')
  BY <1>1, <1>3, <1>4, <1>5 DEF StoreOK
<1>7. QED
  BY <1>1, <1>3, <1>6, AgeingInv

LEMMA RestoreInv ==
  ASSUME IInv, NEW e \in Entry, Restore(e)
  PROVE  IInv'
<1>1. /\ StoreOK(store) /\ pc = "idle" /\ work' = store'
      /\ store' = [store EXCEPT !.ttl[e] = MinTtl]
      /\ UNCHANGED <<request, footprint, result, pc, who, local>>
  BY DEF IInv, TypeOK, Restore
<1>2. /\ store = [val |-> store.val, ttl |-> store.ttl]
      /\ store.ttl \in [Entry -> Nat]
  BY <1>1 DEF StoreOK
<1>3. store' = [val |-> store.val, ttl |-> [store.ttl EXCEPT ![e] = MinTtl]]
  BY <1>1, <1>2
<1>4. /\ store'.val = store.val
      /\ store'.ttl \in [Entry -> Nat]
      /\ store' = [val |-> store'.val, ttl |-> store'.ttl]
  BY <1>2, <1>3, TtlAssumption
<1>5. StoreOK(store')
  BY <1>1, <1>4 DEF StoreOK
<1>6. QED
  BY <1>1, <1>4, <1>5, AgeingInv

(* The running call.                                                       *)

LEMMA SetDecodeInv ==
  ASSUME IInv, SetDecode
  PROVE  IInv'
<1> DEFINE k == KeyOfBytes(request[who].bytes)
<1>1. CASE k = NoKey /\ Abort("DeserializationError")
  BY <1>1, AbortInv DEF Results, Verdicts
<1>2. CASE k # NoKey /\ vk' = k /\ Goto("save") /\ UNCHANGED <<work, count, i, full>>
  <2> USE <1>2 DEF IInv, Goto
  <2>1. k \in Keys /\ pc = "set" /\ i = 0
    BY KeyOfBytesCorrect DEF SetDecode, StartInv
  <2>2. ChunkCount(k) \in Nat
    BY <2>1, ChunkCountBounds
  <2> HIDE DEF k
  <2>3. TypeOK'
    BY <2>1 DEF TypeOK
  <2>4. StoredKeyIsWhole' /\ ProofContextIsShortLived'
    BY <2>1 DEF StoredKeyIsWhole, ProofContextIsShortLived, Holds
  <2>5. IdleInv' /\ ReadOnlyInv' /\ StartInv' /\ CallInv' /\ LoadInv' /\ ProveInv'
    BY <2>1 DEF IdleInv, ReadOnlyInv, StartInv, CallInv, LoadInv, ProveInv
  <2>6. SaveInv'
    BY <2>1, <2>2 DEF SaveInv, k
  <2>7. QED
    BY <2>3, <2>4, <2>5, <2>6
<1>3. QED
  BY <1>1, <1>2 DEF SetDecode

LEMMA SaveChunkInv ==
  ASSUME IInv, SaveChunk
  PROVE  IInv'
<1> USE DEF IInv, SaveChunk, Goto
<1>1. /\ vk \in Keys /\ i \in Nat /\ i < ChunkCount(vk) /\ ChunkCount(vk) \in Nat
      /\ i \in ChunkIndex /\ ChunkOf(vk, i) \in Seq(Byte) /\ pc = "save"
  BY ChunkCountBounds, ChunkOfType, SizeAssumption DEF TypeOK, SaveInv, ChunkIndex
<1>2. VkChunk(i) \in Entry /\ ValueOf(VkChunk(i), ChunkOf(vk, i))
  BY <1>1, EntryDistinct DEF ValueOf
<1>3. /\ StoreOK(work')
      /\ work'.val[VkChunk(i)] = ChunkOf(vk, i)
      /\ work'.ttl[VkChunk(i)] >= Threshold
      /\ \A f \in Entry \ {VkChunk(i)} : /\ work'.val[f] = work.val[f]
                                         /\ work'.ttl[f] = work.ttl[f]
  BY <1>2, PutCorrect DEF TypeOK
<1>4. TypeOK'
  BY <1>1, <1>3 DEF TypeOK
<1>5. StoredKeyIsWhole'
  BY DEF StoredKeyIsWhole, Holds
<1>6. ProofContextIsShortLived'
  BY <1>3, EntryDistinct DEF ProofContextIsShortLived
<1>7. IdleInv' /\ ReadOnlyInv' /\ StartInv' /\ CallInv' /\ LoadInv' /\ ProveInv'
  BY <1>1 DEF IdleInv, ReadOnlyInv, StartInv, CallInv, LoadInv, ProveInv
<1>8. SaveInv'
  <2>1. vk' = vk /\ i' = i + 1 /\ i' <= ChunkCount(vk) /\ vk = KeyOfBytes(request[who].bytes)
    BY <1>1 DEF SaveInv
  <2>2. ASSUME NEW j \in 0 .. (i' - 1)
        PROVE  work'.val[VkChunk(j)] = ChunkOf(vk, j) /\ work'.ttl[VkChunk(j)] >= Threshold
    <3>1. CASE j = i
      BY <1>3, <3>1
    <3>2. CASE j # i
      <4>1. j \in 0 .. (i - 1) /\ j \in ChunkIndex
        BY <1>1, <2>1, <3>2, SizeAssumption DEF ChunkIndex
      <4>2. VkChunk(j) \in Entry \ {VkChunk(i)}
        BY <3>2, <4>1, EntryDistinct
      <4>3. QED
        BY <1>1, <1>3, <4>1, <4>2 DEF SaveInv
    <3>3. QED BY <3>1, <3>2
  <2>3. QED
    BY <1>1, <2>1, <2>2 DEF SaveInv
<1>9. QED
  BY <1>4, <1>5, <1>6, <1>7, <1>8

(* The header goes last: when it is there, so is every chunk.              *)
LEMMA SaveMetaStore ==
  ASSUME IInv, SaveMeta
  PROVE  /\ Answered(who, "ok") /\ work' = store' /\ StoreOK(store')
         /\ vk \in Keys /\ vk = KeyOfBytes(request[who].bytes)
         /\ Holds(store', vk)
         /\ store'.val[ProofContext] = NoEntry
         /\ store'.ttl[VkMeta] >= Threshold
         /\ \A j \in 0 .. (ChunkCount(vk) - 1) : store'.ttl[VkChunk(j)] >= Threshold
<1> USE DEF IInv, SaveMeta, Commit
<1>1. /\ vk \in Keys /\ vk = KeyOfBytes(request[who].bytes)
      /\ \A j \in 0 .. (ChunkCount(vk) - 1) : /\ work.val[VkChunk(j)] = ChunkOf(vk, j)
                                              /\ work.ttl[VkChunk(j)] >= Threshold
  BY DEF SaveInv
<1>2. MetaOf(vk) \in Meta
  BY <1>1, ChunkCountBounds DEF MetaOf, Meta
<1>3. VkMeta \in Entry /\ ValueOf(VkMeta, MetaOf(vk))
  BY <1>2, EntryDistinct DEF ValueOf
<1>4. /\ StoreOK(store')
      /\ store'.val[VkMeta] = MetaOf(vk)
      /\ store'.ttl[VkMeta] >= Threshold
      /\ \A f \in Entry \ {VkMeta} : /\ store'.val[f] = work.val[f]
                                     /\ store'.ttl[f] = work.ttl[f]
  BY <1>3, PutCorrect DEF TypeOK
<1>5. \A j \in 0 .. (ChunkCount(vk) - 1) : VkChunk(j) \in Entry \ {VkMeta}
  BY <1>1, ChunkCountBounds, SizeAssumption, EntryDistinct DEF ChunkIndex
<1>6. Holds(store', vk)
  BY <1>1, <1>4, <1>5 DEF Holds
<1>7. store'.val[ProofContext] = NoEntry
  BY <1>4, EntryDistinct DEF ProofContextIsShortLived
<1>8. QED
  BY <1>1, <1>4, <1>5, <1>6, <1>7

LEMMA SaveMetaInv ==
  ASSUME IInv, SaveMeta
  PROVE  IInv'
<1>1. who \in Client
  BY DEF IInv, TypeOK
<1>2. QED
  BY <1>1, SaveMetaStore, AnsweredInv DEF Results

LEMMA ClearReadInv ==
  ASSUME IInv, ClearRead
  PROVE  IInv'
<1> USE DEF IInv, ClearRead, Goto
<1>1. StoredCount(work) \in Nat
  BY DEF StoredCount, TypeOK, StoreOK, Meta
<1>2. TypeOK'
  BY <1>1 DEF TypeOK
<1>3. StoredKeyIsWhole' /\ ProofContextIsShortLived'
  BY DEF StoredKeyIsWhole, ProofContextIsShortLived, Holds
<1>4. IdleInv' /\ ReadOnlyInv' /\ StartInv' /\ CallInv' /\ SaveInv' /\ LoadInv' /\ ProveInv'
  BY DEF IdleInv, ReadOnlyInv, StartInv, CallInv, SaveInv, LoadInv, ProveInv
<1>5. QED
  BY <1>2, <1>3, <1>4

LEMMA ClearChunkInv ==
  ASSUME IInv, ClearChunk
  PROVE  IInv'
<1> USE DEF IInv, ClearChunk, Goto
<1>1. VkChunk(i) \in Entry
  BY DEF TypeOK, May
<1>2. /\ StoreOK(work')
      /\ \A f \in Entry \ {VkChunk(i)} : work'.val[f] = work.val[f]
  BY <1>1, DropCorrect DEF TypeOK
<1>3. TypeOK'
  BY <1>2 DEF TypeOK
<1>4. StoredKeyIsWhole'
  BY DEF StoredKeyIsWhole, Holds
<1>5. ProofContextIsShortLived'
  BY <1>2, EntryDistinct DEF ProofContextIsShortLived
<1>6. IdleInv' /\ ReadOnlyInv' /\ StartInv' /\ CallInv' /\ SaveInv' /\ LoadInv' /\ ProveInv'
  BY DEF IdleInv, ReadOnlyInv, StartInv, CallInv, SaveInv, LoadInv, ProveInv
<1>7. QED
  BY <1>3, <1>4, <1>5, <1>6

LEMMA ClearMetaStore ==
  ASSUME IInv, ClearMeta
  PROVE  /\ Answered(who, "ok") /\ work' = store' /\ StoreOK(store')
         /\ store'.val[VkMeta] = NoEntry
         /\ store'.val[ProofContext] = NoEntry
<1>1. /\ StoreOK(store')
      /\ store'.val[VkMeta] = NoEntry
      /\ \A f \in Entry \ {VkMeta} : store'.val[f] = work.val[f]
  BY DropCorrect, EntryDistinct DEF IInv, TypeOK, ClearMeta, Commit
<1>2. store'.val[ProofContext] = NoEntry
  BY <1>1, EntryDistinct DEF IInv, ProofContextIsShortLived, ClearMeta
<1>3. QED
  BY <1>1, <1>2 DEF ClearMeta, Commit

LEMMA ClearMetaInv ==
  ASSUME IInv, ClearMeta
  PROVE  IInv'
<1>1. who \in Client
  BY DEF IInv, TypeOK
<1>2. QED
  BY <1>1, ClearMetaStore, AnsweredInv DEF Results

LEMMA LoadMetaInv ==
  ASSUME IInv, LoadMeta
  PROVE  IInv'
<1>1. CASE Abort("StorageError")
  BY <1>1, AbortInv DEF Results
<1>2. CASE /\ work.val[VkMeta] # NoEntry
           /\ count' = work.val[VkMeta].chunk_count
           /\ Goto("load")
           /\ UNCHANGED <<work, vk, i, full>>
  <2> USE <1>2 DEF IInv, Goto
  <2>1. pc = "verify" /\ work = store /\ i = 0 /\ full = <<>>
    BY DEF LoadMeta, ReadOnlyInv, StartInv
  <2>2. PICK k \in Keys : Holds(store, k)
    BY <2>1 DEF StoredKeyIsWhole
  <2>3. count' = ChunkCount(k) /\ ChunkCount(k) \in Nat
    BY <2>1, <2>2, ChunkCountBounds DEF Holds, MetaOf
  <2>4. TypeOK'
    BY <2>3 DEF TypeOK
  <2>5. StoredKeyIsWhole' /\ ProofContextIsShortLived'
    BY <2>1 DEF StoredKeyIsWhole, ProofContextIsShortLived, Holds
  <2>6. IdleInv' /\ ReadOnlyInv' /\ StartInv' /\ CallInv' /\ SaveInv' /\ ProveInv'
    BY <2>1 DEF IdleInv, ReadOnlyInv, StartInv, CallInv, SaveInv, ProveInv
  <2>7. LoadInv'
    BY <2>1, <2>2, <2>3, UptoZero DEF LoadInv, Holds
  <2>8. QED
    BY <2>4, <2>5, <2>6, <2>7
<1>3. QED
  BY <1>1, <1>2 DEF LoadMeta

LEMMA LoadChunkInv ==
  ASSUME IInv, LoadChunk
  PROVE  IInv'
<1>1. CASE Abort("StorageError")
  BY <1>1, AbortInv DEF Results
<1>2. CASE /\ work.val[VkChunk(i)] # NoEntry
           /\ full' = full \o work.val[VkChunk(i)]
           /\ i' = i + 1
           /\ Goto("load")
           /\ UNCHANGED <<work, vk, count>>
  <2> USE <1>2 DEF IInv, Goto
  <2>1. pc = "load" /\ work = store /\ i < count /\ i \in Nat
    BY DEF LoadChunk, ReadOnlyInv, TypeOK
  <2>2. PICK k \in Keys : /\ Holds(store, k) /\ count = ChunkCount(k)
                          /\ full = Upto(k, i)
    BY <2>1 DEF LoadInv
  <2>3. ChunkCount(k) \in Nat
    BY <2>2, ChunkCountBounds
  <2>4. work.val[VkChunk(i)] = ChunkOf(k, i)
    BY <2>1, <2>2, <2>3 DEF Holds
  <2>5. full' = Upto(k, i')
    BY <2>1, <2>2, <2>4, UptoStep
  <2>6. full' \in Seq(Byte)
    BY <2>1, <2>2, <2>4, ChunkOfType DEF TypeOK
  <2>7. TypeOK'
    BY <2>1, <2>6 DEF TypeOK
  <2>8. StoredKeyIsWhole' /\ ProofContextIsShortLived'
    BY <2>1 DEF StoredKeyIsWhole, ProofContextIsShortLived, Holds
  <2>9. IdleInv' /\ ReadOnlyInv' /\ StartInv' /\ CallInv' /\ SaveInv' /\ ProveInv'
    BY <2>1 DEF IdleInv, ReadOnlyInv, StartInv, CallInv, SaveInv, ProveInv
  <2>10. LoadInv'
    <3>1. Holds(store, k)'
      BY <2>2 DEF Holds
    <3>2. count' = ChunkCount(k) /\ i' <= count'
      BY <2>1, <2>2, <2>3
    <3>3. QED
      BY <2>5, <3>1, <3>2 DEF LoadInv
  <2>11. QED
    BY <2>7, <2>8, <2>9, <2>10
<1>3. QED
  BY <1>1, <1>2 DEF LoadChunk

(* The buffer load_vk has put together is the stored key.                  *)
LEMMA LoadedKey ==
  ASSUME IInv, LoadDecode
  PROVE  /\ KeyOfBytes(full) \in Keys
         /\ Holds(store, KeyOfBytes(full))
         /\ Len(full) = work.val[VkMeta].total_len
<1>1. pc = "load" /\ i = count /\ work = store
  BY DEF IInv, ReadOnlyInv, LoadDecode
<1>2. PICK k \in Keys : /\ Holds(store, k) /\ count = ChunkCount(k)
                        /\ full = Upto(k, i)
  BY <1>1 DEF IInv, LoadInv
<1>3. full = Ser[k]
  BY <1>1, <1>2, UptoAll
<1>4. KeyOfBytes(full) = k
  BY <1>3, KeyOfBytesCorrect
<1>5. Len(full) = work.val[VkMeta].total_len
  BY <1>1, <1>2, <1>3 DEF Holds, MetaOf
<1>6. QED
  BY <1>2, <1>4, <1>5

LEMMA ClaimOfVerify ==
  ASSUME IInv, pc \in {"load", "prove"}
  PROVE  request[who].claim \in Claim /\ request[who].op = "verify"
<1>1. request[who] \in Request /\ request[who].op = "verify"
  BY DEF IInv, CallInv
<1>2. QED
  BY <1>1 DEF Request

LEMMA LoadDecodeInv ==
  ASSUME IInv, LoadDecode
  PROVE  IInv'
<1> DEFINE k == KeyOfBytes(full)
<1>1. CASE Abort("DeserializationError")
  BY <1>1, AbortInv DEF Results, Verdicts
<1>2. CASE /\ vk' = k
           /\ work' = Put(work, ProofContext, request[who].claim)
           /\ Goto("prove")
           /\ UNCHANGED <<count, i, full>>
  <2> USE <1>2 DEF IInv, Goto
  <2>1. pc = "load" /\ work = store
    BY DEF LoadDecode, ReadOnlyInv
  <2>2. k \in Keys /\ Holds(store, k)
    BY LoadedKey
  <2> HIDE DEF k
  <2>3. ProofContext \in Entry /\ ValueOf(ProofContext, request[who].claim)
    BY <2>1, ClaimOfVerify, EntryDistinct DEF ValueOf
  <2>4. /\ StoreOK(work')
        /\ \A f \in Entry \ {ProofContext} : /\ work'.val[f] = store.val[f]
                                             /\ work'.ttl[f] = store.ttl[f]
    BY <2>1, <2>3, PutCorrect DEF TypeOK
  <2>5. TypeOK'
    BY <2>2, <2>4 DEF TypeOK
  <2>6. StoredKeyIsWhole' /\ ProofContextIsShortLived'
    BY <2>1 DEF StoredKeyIsWhole, ProofContextIsShortLived, Holds
  <2>7. IdleInv' /\ ReadOnlyInv' /\ StartInv' /\ CallInv' /\ SaveInv' /\ LoadInv'
    BY <2>1 DEF IdleInv, ReadOnlyInv, StartInv, CallInv, SaveInv, LoadInv
  <2>8. ProveInv'
    <3>1. Holds(store, vk)'
      BY <2>2 DEF Holds
    <3>2. QED
      BY <2>2, <2>4, <3>1 DEF ProveInv
  <2>9. QED
    BY <2>5, <2>6, <2>7, <2>8
<1>3. QED
  BY <1>1, <1>2 DEF LoadDecode, SetProofContext

(* Once the proof context is lowered the ledger is what it was.            *)
LEMMA ProveStore ==
  ASSUME IInv, NEW outcome, pc = "prove",
         Commit(Drop(work, ProofContext), outcome)
  PROVE  /\ Answered(who, outcome) /\ work' = store' /\ StoreOK(store')
         /\ \A f \in Entry \ {ProofContext} : store'.val[f] = store.val[f]
         /\ store'.val[ProofContext] = NoEntry
<1>1. /\ StoreOK(store')
      /\ store'.val[ProofContext] = NoEntry
      /\ \A f \in Entry \ {ProofContext} : store'.val[f] = work.val[f]
  BY DropCorrect, EntryDistinct DEF IInv, TypeOK, Commit
<1>2. \A f \in Entry \ {ProofContext} : work.val[f] = store.val[f]
  BY DEF IInv, ProveInv
<1>3. QED
  BY <1>1, <1>2 DEF Commit

LEMMA ProveStepInv ==
  ASSUME IInv, Prove
  PROVE  IInv'
<1> DEFINE outcome == Verdict[vk, request[who].claim]
<1>1. pc = "prove" /\ vk \in Keys /\ Holds(store, vk) /\ who \in Client
  BY DEF Prove, IInv, ProveInv, TypeOK
<1>2. outcome \in Results
  BY <1>1, ClaimOfVerify, VerdictAssumption DEF Results
<1> HIDE DEF outcome
<1>3. CASE Commit(Drop(work, ProofContext), outcome)
  <2>1. /\ Answered(who, outcome) /\ work' = store' /\ StoreOK(store')
        /\ \A f \in Entry \ {ProofContext} : store'.val[f] = store.val[f]
        /\ store'.val[ProofContext] = NoEntry
    BY <1>1, <1>3, ProveStore
  <2>2. Holds(store', vk)
    BY <1>1, <2>1, HoldsTransfer, EntryDistinct
  <2>3. QED
    BY <1>1, <1>2, <2>1, <2>2, AnsweredInv
<1>4. CASE Abort(outcome)
  BY <1>2, <1>4, AbortInv
<1>5. QED
  BY <1>3, <1>4 DEF Prove, ClearProofContext, outcome

LEMMA StepInv == IInv /\ Step => IInv'
BY SetDecodeInv, SaveChunkInv, SaveMetaInv, ClearReadInv, ClearChunkInv,
   ClearMetaInv, LoadMetaInv, LoadChunkInv, LoadDecodeInv, ProveStepInv,
   AbortInv DEF Step, Stray, Results

LEMMA NextInv == IInv /\ [Next]_vars => IInv'
<1> SUFFICES ASSUME IInv, [Next]_vars PROVE IInv'
  OBVIOUS
<1>1. ASSUME NEW c \in Client, NEW r \in Request, Submit(c, r) PROVE IInv'
  BY <1>1, SubmitInv
<1>2. ASSUME NEW c \in Client, Begin(c) PROVE IInv'
  BY <1>2, BeginInv
<1>3. ASSUME NEW c \in Client, Reject(c) PROVE IInv'
  BY <1>3, RejectInv
<1>4. CASE CloseLedger
  BY <1>4, CloseLedgerInv
<1>5. ASSUME NEW e \in Entry, Restore(e) PROVE IInv'
  BY <1>5, RestoreInv
<1>6. CASE Trap
  BY <1>6, AbortInv DEF Trap, Results
<1>7. CASE Step
  BY <1>7, StepInv
<1>8. CASE UNCHANGED vars
  BY <1>8 DEF vars, local, IInv, TypeOK, StoredKeyIsWhole, Holds,
              ProofContextIsShortLived, IdleInv, ReadOnlyInv, StartInv, CallInv,
              SaveInv, LoadInv, ProveInv
<1>9. QED
  BY <1>1, <1>2, <1>3, <1>4, <1>5, <1>6, <1>7, <1>8 DEF Next

-----------------------------------------------------------------------------
(* The results.                                                            *)

(* The inductive invariant holds in every reachable state.                 *)
THEOREM Invariance == Spec => []IInv
BY InitInv, NextInv, PTL DEF Spec

(* Entries, requests and locals always have the types vk.rs gives them.    *)
THEOREM TypeCorrectness == Spec => []TypeOK
BY Invariance, PTL DEF IInv

(* No interleaving of calls, traps and ledger events leaves a torn key:    *)
(* the header of vk.rs always describes exactly the chunks of one key.     *)
THEOREM KeyIsNeverTorn == Spec => []StoredKeyIsWhole
BY Invariance, PTL DEF IInv

(* The flag verify_proof raises is down whenever no proof is being checked.*)
THEOREM ContextIsShortLived == Spec => []ProofContextIsShortLived
BY Invariance, PTL DEF IInv

(* Storing a key renews the time to live of every entry of that key, the   *)
(* ones a previous key left behind included (vk.rs, save_vk).              *)
THEOREM SaveRenews == Spec => SaveRenewsEveryEntry
<1>1. ASSUME IInv, [Next]_vars, pc = "save", store' # store
      PROVE  /\ store'.ttl[VkMeta] >= Threshold
             /\ \A j \in 0 .. (StoredCount(store') - 1) :
                  store'.ttl[VkChunk(j)] >= Threshold
  <2>1. SaveMeta
    BY <1>1 DEF Next, Submit, Begin, Reject, CloseLedger, Restore, Trap, Abort,
                Step, SetDecode, SaveChunk, ClearRead, ClearChunk, ClearMeta,
                LoadMeta, LoadChunk, LoadDecode, Prove, Stray, Goto, vars
  <2>2. /\ vk \in Keys /\ Holds(store', vk)
        /\ store'.ttl[VkMeta] >= Threshold
        /\ \A j \in 0 .. (ChunkCount(vk) - 1) : store'.ttl[VkChunk(j)] >= Threshold
    BY <1>1, <2>1, SaveMetaStore
  <2>3. store'.val[VkMeta] # NoEntry
    BY <2>2, KeyOfCorrect
  <2>4. StoredCount(store') = ChunkCount(vk)
    BY <2>2, <2>3 DEF StoredCount, Holds, MetaOf
  <2>5. QED
    BY <2>2, <2>4
<1>2. QED
  BY <1>1, Invariance, PTL DEF Spec, SaveRenewsEveryEntry

-----------------------------------------------------------------------------
(* Refinement.                                                             *)

(* Ledgers with the same persistent values hold the same key.              *)
LEMMA KeyOfSame ==
  ASSUME IInv, NEW t,
         \A f \in Entry \ {ProofContext} : t.val[f] = store.val[f]
  PROVE  KeyOf(t) = KeyOf(store)
<1>1. /\ t.val[VkMeta] = store.val[VkMeta]
      /\ \A j \in ChunkIndex : t.val[VkChunk(j)] = store.val[VkChunk(j)]
  BY EntryDistinct
<1>2. CASE store.val[VkMeta] = NoEntry
  BY <1>1, <1>2 DEF KeyOf
<1>3. CASE store.val[VkMeta] # NoEntry
  <2>1. PICK k \in Keys : Holds(store, k)
    BY <1>3 DEF IInv, StoredKeyIsWhole
  <2>2. Holds(t, k)
    BY <1>1, <2>1, HoldsTransfer
  <2>3. QED
    BY <2>1, <2>2, KeyOfCorrect
<1>4. QED
  BY <1>2, <1>3

(* An aborted call is a failed call, or one that returned an error.        *)
LEMMA AbortRefines ==
  ASSUME IInv, pc # "idle", NEW answer, Abort(answer),
         \/ answer = "trap"
         \/ /\ answer = Answer(KeyOf(store), request[who])
            /\ Effect(KeyOf(store), request[who]) = KeyOf(store)
  PROVE  Register!Next
<1>1. /\ who \in Client /\ request[who] \in Request
      /\ Answered(who, answer) /\ store' = store
  BY DEF IInv, TypeOK, CallInv, Abort
<1>2. request[who] # NoRequest
  BY <1>1, SentinelAssumption DEF Request, Argument
<1>3. KeyOf(store)' = KeyOf(store)
  BY <1>1 DEF KeyOf, Holds
<1>4. Register!Fail(who) \/ Register!Apply(who)
  BY <1>1, <1>2, <1>3
     DEF Register!Fail, Register!Apply, Register!Respond, Answered
<1>5. QED
  BY <1>1, <1>4 DEF Register!Next

(* A call that returns Ok takes effect.                                    *)
LEMMA CommitRefines ==
  ASSUME IInv, pc # "idle", NEW answer, Answered(who, answer),
         answer = Answer(KeyOf(store), request[who]),
         KeyOf(store') = Effect(KeyOf(store), request[who])
  PROVE  Register!Next
<1>1. who \in Client /\ request[who] \in Request
  BY DEF IInv, TypeOK, CallInv
<1>2. request[who] # NoRequest
  BY <1>1, SentinelAssumption DEF Request, Argument
<1>3. KeyOf(store)' = KeyOf(store')
  BY DEF KeyOf, Holds
<1>4. Register!Apply(who)
  BY <1>2, <1>3 DEF Register!Apply, Register!Respond, Answered
<1>5. QED
  BY <1>1, <1>4 DEF Register!Next

(* A step that leaves ledger, calls and results alone is not visible.      *)
LEMMA SilentStep ==
  ASSUME UNCHANGED <<store, request, result>>
  PROVE  UNCHANGED Register!vars
BY DEF Register!vars, KeyOf, Holds

LEMMA SetDecodeRefines ==
  ASSUME IInv, SetDecode
  PROVE  Register!Next \/ UNCHANGED Register!vars
<1>1. pc # "idle" /\ request[who].op = "set"
  BY DEF SetDecode, IInv, CallInv
<1>2. CASE KeyOfBytes(request[who].bytes) = NoKey /\ Abort("DeserializationError")
  BY <1>1, <1>2, AbortRefines DEF Answer, Effect
<1>3. CASE Goto("save")
  BY <1>3, SilentStep DEF Goto
<1>4. QED
  BY <1>2, <1>3 DEF SetDecode

LEMMA SaveMetaRefines ==
  ASSUME IInv, SaveMeta
  PROVE  Register!Next
<1>1. /\ pc # "idle" /\ request[who].op = "set"
      /\ Answered(who, "ok")
      /\ vk \in Keys /\ vk = KeyOfBytes(request[who].bytes) /\ Holds(store', vk)
  BY SaveMetaStore DEF SaveMeta, IInv, CallInv
<1>2. KeyOf(store') = vk /\ vk # NoKey
  BY <1>1, KeyOfCorrect, SentinelAssumption
<1>3. QED
  BY <1>1, <1>2, CommitRefines DEF Answer, Effect

LEMMA ClearMetaRefines ==
  ASSUME IInv, ClearMeta
  PROVE  Register!Next
<1>1. /\ pc # "idle" /\ request[who].op = "clear"
      /\ Answered(who, "ok") /\ store'.val[VkMeta] = NoEntry
  BY ClearMetaStore DEF ClearMeta, IInv, CallInv
<1>2. KeyOf(store') = NoKey
  BY <1>1 DEF KeyOf
<1>3. QED
  BY <1>1, <1>2, CommitRefines DEF Answer, Effect

LEMMA LoadMetaRefines ==
  ASSUME IInv, LoadMeta
  PROVE  Register!Next \/ UNCHANGED Register!vars
<1>1. pc # "idle" /\ request[who].op = "verify" /\ work = store
  BY DEF LoadMeta, IInv, CallInv, ReadOnlyInv
<1>2. CASE work.val[VkMeta] = NoEntry /\ Abort("StorageError")
  <2>1. KeyOf(store) = NoKey
    BY <1>1, <1>2 DEF KeyOf
  <2>2. QED
    BY <1>1, <1>2, <2>1, AbortRefines DEF Answer, Effect
<1>3. CASE Goto("load")
  BY <1>3, SilentStep DEF Goto
<1>4. QED
  BY <1>2, <1>3 DEF LoadMeta

(* No chunk below the stored count is ever missing.                        *)
LEMMA LoadChunkRefines ==
  ASSUME IInv, LoadChunk
  PROVE  UNCHANGED Register!vars
<1>1. pc = "load" /\ work = store /\ i < count /\ i \in Nat
  BY DEF IInv, LoadChunk, ReadOnlyInv, TypeOK
<1>2. PICK k \in Keys : Holds(store, k) /\ count = ChunkCount(k)
  BY <1>1 DEF IInv, LoadInv
<1>3. work.val[VkChunk(i)] = ChunkOf(k, i)
  BY <1>1, <1>2, ChunkCountBounds DEF Holds
<1>4. work.val[VkChunk(i)] # NoEntry
  BY <1>1, <1>2, <1>3, ChunkOfType, SentinelAssumption
<1>5. QED
  BY <1>4, SilentStep DEF LoadChunk, Goto

(* What load_vk reads always decodes.                                      *)
LEMMA LoadDecodeRefines ==
  ASSUME IInv, LoadDecode
  PROVE  UNCHANGED Register!vars
<1>1. KeyOfBytes(full) # NoKey /\ Len(full) = work.val[VkMeta].total_len
  BY LoadedKey, SentinelAssumption
<1>2. QED
  BY <1>1, SilentStep DEF LoadDecode, Goto

LEMMA ProveRefines ==
  ASSUME IInv, Prove
  PROVE  Register!Next
<1> DEFINE outcome == Verdict[vk, request[who].claim]
<1>1. /\ pc = "prove" /\ vk \in Keys /\ Holds(store, vk)
      /\ request[who].op = "verify"
  BY ClaimOfVerify DEF Prove, IInv, ProveInv
<1>2. KeyOf(store) = vk /\ vk # NoKey
  BY <1>1, KeyOfCorrect, SentinelAssumption
<1>3. /\ outcome = Answer(KeyOf(store), request[who])
      /\ Effect(KeyOf(store), request[who]) = KeyOf(store)
  BY <1>1, <1>2, Zenon DEF Answer, Effect
<1> HIDE DEF outcome
<1>4. CASE Commit(Drop(work, ProofContext), outcome)
  <2>1. /\ Answered(who, outcome)
        /\ \A f \in Entry \ {ProofContext} : store'.val[f] = store.val[f]
    BY <1>1, <1>4, ProveStore
  <2>2. KeyOf(store') = KeyOf(store)
    BY <2>1, KeyOfSame
  <2>3. QED
    BY <1>1, <1>3, <2>1, <2>2, CommitRefines
<1>5. CASE Abort(outcome)
  BY <1>1, <1>3, <1>5, AbortRefines
<1>6. QED
  BY <1>4, <1>5 DEF Prove, ClearProofContext, outcome

LEMMA StepRefines ==
  ASSUME IInv, Step
  PROVE  Register!Next \/ UNCHANGED Register!vars
<1>1. CASE SaveChunk \/ ClearRead \/ ClearChunk
  BY <1>1, SilentStep DEF SaveChunk, ClearRead, ClearChunk, Goto
<1>2. CASE Stray
  <2>1. pc # "idle" /\ Abort("trap")
    BY <1>2 DEF Stray
  <2>2. QED
    BY <2>1, AbortRefines
<1>3. QED
  BY <1>1, <1>2, SetDecodeRefines, SaveMetaRefines, ClearMetaRefines,
     LoadMetaRefines, LoadChunkRefines, LoadDecodeRefines, ProveRefines DEF Step

(* The ledger around the contract is not visible either, but for calls     *)
(* that are submitted and calls that are refused.                          *)
LEMMA LedgerRefines ==
  ASSUME IInv, CloseLedger \/ \E e \in Entry : Restore(e)
  PROVE  UNCHANGED Register!vars
<1>1. UNCHANGED <<request, result>>
  BY DEF CloseLedger, Restore
<1>2. \A f \in Entry \ {ProofContext} : store'.val[f] = store.val[f]
  <2>1. CASE CloseLedger
    <3>1. store'.val = [store.val EXCEPT ![ProofContext] =
                          IF Older(store)[ProofContext] = 0 THEN NoEntry ELSE @]
      BY <2>1 DEF CloseLedger
    <3>2. store.val = [f \in Entry |-> store.val[f]]
      BY DEF IInv, TypeOK, StoreOK
    <3>3. QED
      BY <3>1, <3>2
  <2>2. ASSUME NEW e \in Entry, Restore(e)
        PROVE  \A f \in Entry \ {ProofContext} : store'.val[f] = store.val[f]
    <3>1. store = [val |-> store.val, ttl |-> store.ttl]
      BY DEF IInv, TypeOK, StoreOK
    <3>2. store'.val = store.val
      BY <2>2, <3>1 DEF Restore
    <3>3. QED
      BY <3>2
  <2>3. QED BY <2>1, <2>2
<1>3. KeyOf(store') = KeyOf(store)
  BY <1>2, KeyOfSame
<1>4. KeyOf(store)' = KeyOf(store')
  BY DEF KeyOf, Holds
<1>5. QED
  BY <1>1, <1>3, <1>4 DEF Register!vars

LEMMA NextRefines == IInv /\ [Next]_vars => [Register!Next]_(Register!vars)
<1> SUFFICES ASSUME IInv, [Next]_vars
             PROVE  Register!Next \/ UNCHANGED Register!vars
  OBVIOUS
<1>1. ASSUME NEW c \in Client, NEW r \in Request, Submit(c, r)
      PROVE  Register!Next
  <2>1. KeyOf(store)' = KeyOf(store)
    BY <1>1 DEF Submit, KeyOf, Holds
  <2>2. Register!Submit(c, r)
    BY <1>1, <2>1 DEF Submit, Register!Submit
  <2>3. QED
    BY <2>2 DEF Register!Next
<1>2. ASSUME NEW c \in Client, Begin(c) PROVE UNCHANGED Register!vars
  BY <1>2, SilentStep DEF Begin
<1>3. ASSUME NEW c \in Client, Reject(c) PROVE Register!Next
  <2>1. KeyOf(store)' = KeyOf(store)
    BY <1>3 DEF Reject, KeyOf, Holds
  <2>2. Register!Fail(c)
    BY <1>3, <2>1 DEF Reject, Answered, Register!Fail, Register!Respond
  <2>3. QED
    BY <2>2 DEF Register!Next
<1>4. CASE CloseLedger \/ \E e \in Entry : Restore(e)
  BY <1>4, LedgerRefines
<1>5. CASE Trap
  BY <1>5, AbortRefines DEF Trap
<1>6. CASE Step
  BY <1>6, StepRefines
<1>7. CASE UNCHANGED vars
  BY <1>7, SilentStep DEF vars
<1>8. QED
  BY <1>1, <1>2, <1>3, <1>4, <1>5, <1>6, <1>7 DEF Next

(* VkStore implements VkRegister: for its callers ZkContract is a register *)
(* that holds a whole key or none, read and written in one step.           *)
THEOREM Refinement == Spec => ImplementsRegister
<1>1. Init => Register!Init
  <2> SUFFICES ASSUME Init PROVE Register!Init
    OBVIOUS
  <2>2. KeyOf(store) = NoKey
    BY EmptyStoreOK, EntryDistinct DEF Init, KeyOf
  <2>3. QED
    BY <2>2 DEF Init, Register!Init
<1>2. QED
  BY <1>1, NextRefines, Invariance, PTL DEF Spec, ImplementsRegister, Register!Spec
=============================================================================
