-------------------------- MODULE TransactionIndex --------------------------
(***************************************************************************)
(* The transaction index of the demo: the collection that index.js keeps   *)
(* in MongoDB.  Clients post the transactions they made; a sync pass pulls *)
(* the latest transactions of the contract from Horizon into the same      *)
(* collection.  Requests interleave at every await.                        *)
(*                                                                         *)
(* The collection has no unique index on hash, so findOneAndUpdate with    *)
(* upsert is two steps: look for a document, then update the one found or  *)
(* insert a new one.                                                       *)
(***************************************************************************)
EXTENDS Integers, Sequences, Functions

CONSTANTS
  Tx,         (* Transactions of the contract account.                       *)
  Invoking,   (* Those that invoke the contract.                             *)
  Poster,     (* Requests POST /api/transactions.                            *)
  Syncer,     (* Requests GET /api/sync.                                     *)
  PageSize    (* How many transactions Horizon returns (50 in the code).     *)

ASSUME IndexAssumption ==
  /\ Invoking \subseteq Tx
  /\ Poster \intersect Syncer = {}
  /\ PageSize \in Nat

Handler == Poster \union Syncer

VARIABLES
  chain,   (* The ledger: confirmed transactions, oldest first.              *)
  db,      (* The collection, in natural order.                              *)
  pc,      (* pc[h]: the await handler h is at, or "idle".                   *)
  todo,    (* todo[h]: hashes h still has to work on.                        *)
  hit,     (* hit[h]: position of the document an upsert found, or 0.        *)
  reply,   (* reply[s]: what the last sync pass of s did, once it answered.  *)
  known,   (* History: hashes with a document when the pass of s last looked.*)
  page,    (* History: what Horizon listed for the pass of s.                *)
  blank    (* History: those of them whose operations were an error body.    *)

history == <<known, page, blank>>
indexVars == <<chain, db, pc, todo, hit, reply, history>>

(* The fields of models/Transaction.js; sender, receiver and amount of a   *)
(* document are its details.                                               *)
Schema == {"hash", "details", "status"}

(* Mongoose drops the fields of an update that the schema does not have.   *)
Cast(update) == [f \in Schema \intersect DOMAIN update |-> update[f]]

PostUpdate(t) == [hash |-> t, details |-> "posted", type |-> "transfer",
                  status |-> "Confirmed"]
SyncUpdate(t) == [hash |-> t, details |-> "Contract Interaction",
                  status |-> "Confirmed", label |-> "Contract Call"]

Hashes == {db[k].hash : k \in DOMAIN db}

(* findOne: some document with hash t, or 0.                               *)
Find(t) == IF t \in Hashes THEN CHOOSE k \in DOMAIN db : db[k].hash = t ELSE 0

(* The document at k updated, or a new document.                           *)
Upsert(k, update) ==
  IF k = 0 THEN Append(db, Cast(update)) ELSE [db EXCEPT ![k] = Cast(update)]

IndexInit ==
  /\ chain = <<>>
  /\ db = <<>>
  /\ pc = [h \in Handler |-> "idle"]
  /\ todo = [h \in Handler |-> <<>>]
  /\ hit = [h \in Handler |-> 0]
  /\ reply = [s \in Syncer |-> "none"]
  /\ known = [s \in Syncer |-> {}]
  /\ page = [s \in Syncer |-> {}]
  /\ blank = [s \in Syncer |-> {}]

(* A transaction is confirmed.                                             *)
Confirm(t) ==
  /\ t \notin Range(chain)
  /\ chain' = Append(chain, t)
  /\ UNCHANGED <<db, pc, todo, hit, reply, history>>

Goto(h, step) ==
  /\ pc' = [pc EXCEPT ![h] = step]
  /\ UNCHANGED chain

-----------------------------------------------------------------------------
(* POST /api/transactions.                                                 *)

Post(p, t) ==
  /\ pc[p] = "idle"
  /\ todo' = [todo EXCEPT ![p] = <<t>>]
  /\ Goto(p, "match")
  /\ UNCHANGED <<db, hit, reply, history>>

(* The first half of an upsert.                                            *)
Match(h) ==
  /\ pc[h] = "match"
  /\ hit' = [hit EXCEPT ![h] = Find(Head(todo[h]))]
  /\ Goto(h, "write")
  /\ UNCHANGED <<db, todo, reply, history>>

PostWrite(p) ==
  /\ pc[p] = "write"
  /\ db' = Upsert(hit[p], PostUpdate(Head(todo[p])))
  /\ hit' = [hit EXCEPT ![p] = 0]
  /\ todo' = [todo EXCEPT ![p] = <<>>]
  /\ Goto(p, "idle")
  /\ UNCHANGED <<reply, history>>

(* A database call throws: status 500.                                     *)
PostThrows(p) ==
  /\ pc[p] # "idle"
  /\ hit' = [hit EXCEPT ![p] = 0]
  /\ todo' = [todo EXCEPT ![p] = <<>>]
  /\ Goto(p, "idle")
  /\ UNCHANGED <<db, reply, history>>

-----------------------------------------------------------------------------
(* GET /api/sync: syncContractEvents.                                      *)

(* The latest PageSize transactions, newest first.                         *)
LatestPage ==
  LET n == Len(chain)
  IN  [k \in 1 .. (IF n < PageSize THEN n ELSE PageSize) |-> chain[n - k + 1]]

(* fetch does not reject on an error status, and _embedded?.records || []  *)
(* turns the body of an error into an empty list.                          *)
SyncFetch(s) ==
  /\ pc[s] = "idle"
  /\ \E records \in {LatestPage, <<>>} :
       /\ todo' = [todo EXCEPT ![s] = records]
       /\ page' = [page EXCEPT ![s] = Range(records)]
  /\ reply' = [reply EXCEPT ![s] = "none"]
  /\ known' = [known EXCEPT ![s] = Hashes]
  /\ blank' = [blank EXCEPT ![s] = {}]
  /\ Goto(s, "find")
  /\ UNCHANGED <<db, hit>>

(* Mutant of SyncFind: the pass ends at a transaction it knows.            *)
SyncFindStops(s) ==
  /\ pc[s] = "find"
  /\ todo[s] # <<>>
  /\ IF Find(Head(todo[s])) # 0
       THEN todo' = [todo EXCEPT ![s] = <<>>] /\ Goto(s, "find")
       ELSE todo' = todo /\ Goto(s, "ops")
  /\ known' = [known EXCEPT ![s] = Hashes]
  /\ UNCHANGED <<db, hit, reply, page, blank>>

(* Mutant of SyncFind: the look-up is left out.                            *)
SyncFindSkipped(s) ==
  /\ pc[s] = "find"
  /\ todo[s] # <<>>
  /\ todo' = todo /\ Goto(s, "ops")
  /\ known' = [known EXCEPT ![s] = Hashes]
  /\ UNCHANGED <<db, hit, reply, page, blank>>

(* findOne; a transaction with a document is skipped.                      *)
SyncFind(s) ==
  /\ pc[s] = "find"
  /\ todo[s] # <<>>
  /\ IF Find(Head(todo[s])) # 0
       THEN todo' = [todo EXCEPT ![s] = Tail(@)] /\ Goto(s, "find")
       ELSE todo' = todo /\ Goto(s, "ops")
  /\ known' = [known EXCEPT ![s] = Hashes]
  /\ UNCHANGED <<db, hit, reply, page, blank>>

(* The operations of the transaction arrive: only an invocation is         *)
(* recorded.                                                               *)
SyncOps(s) ==
  /\ pc[s] = "ops"
  /\ IF Head(todo[s]) \in Invoking
       THEN todo' = todo /\ Goto(s, "match")
       ELSE todo' = [todo EXCEPT ![s] = Tail(@)] /\ Goto(s, "find")
  /\ UNCHANGED <<db, hit, reply, history>>

(* An error body arrives in their place: an empty list, and the            *)
(* transaction is passed over without a word.                              *)
SyncBlankOps(s) ==
  /\ pc[s] = "ops"
  /\ todo' = [todo EXCEPT ![s] = Tail(@)]
  /\ blank' = [blank EXCEPT ![s] = @ \union {Head(todo[s])}]
  /\ Goto(s, "find")
  /\ UNCHANGED <<db, hit, reply, known, page>>

SyncWrite(s) ==
  /\ pc[s] = "write"
  /\ db' = Upsert(hit[s], SyncUpdate(Head(todo[s])))
  /\ hit' = [hit EXCEPT ![s] = 0]
  /\ todo' = [todo EXCEPT ![s] = Tail(@)]
  /\ Goto(s, "find")
  /\ UNCHANGED <<reply, history>>

SyncDone(s) ==
  /\ pc[s] = "find"
  /\ todo[s] = <<>>
  /\ reply' = [reply EXCEPT ![s] = "all"]
  /\ Goto(s, "idle")
  /\ UNCHANGED <<db, todo, hit, history>>

(* A fetch or a database call throws: syncContractEvents logs the error    *)
(* and returns 0, and the route answers synced: true as ever.              *)
SyncThrows(s) ==
  /\ pc[s] # "idle"
  /\ reply' = [reply EXCEPT ![s] = "part"]
  /\ todo' = [todo EXCEPT ![s] = <<>>]
  /\ hit' = [hit EXCEPT ![s] = 0]
  /\ Goto(s, "idle")
  /\ UNCHANGED <<db, history>>

IndexNext ==
  \/ \E t \in Tx : Confirm(t)
  \/ \E p \in Poster : (\E t \in Tx : Post(p, t)) \/ PostWrite(p) \/ PostThrows(p)
  \/ \E h \in Handler : Match(h)
  \/ \E s \in Syncer : \/ SyncFetch(s) \/ SyncFind(s) \/ SyncOps(s)
                       \/ SyncBlankOps(s) \/ SyncWrite(s) \/ SyncDone(s) \/ SyncThrows(s)

IndexSpec == IndexInit /\ [][IndexNext]_indexVars

-----------------------------------------------------------------------------
(* Properties.                                                             *)

Update == {Cast(PostUpdate(t)) : t \in Tx} \union {Cast(SyncUpdate(t)) : t \in Tx}

(* A handler that is about to write has found a document of its hash, or   *)
(* none; documents hold the fields of the schema and no others.            *)
IndexTypeOK ==
  /\ chain \in Seq(Tx)
  /\ db \in Seq(Update)
  /\ pc \in [Handler -> {"idle", "match", "write", "find", "ops"}]
  /\ todo \in [Handler -> Seq(Tx)]
  /\ hit \in [Handler -> Nat]
  /\ \A h \in Handler :
       /\ pc[h] \in {"match", "write", "ops"} => todo[h] # <<>>
       /\ hit[h] # 0 => /\ pc[h] = "write"
                        /\ hit[h] \in DOMAIN db
                        /\ db[hit[h]].hash = Head(todo[h])
  /\ reply \in [Syncer -> {"none", "all", "part"}]
  /\ known \in [Syncer -> SUBSET Tx]
  /\ page \in [Syncer -> SUBSET Tx]
  /\ blank \in [Syncer -> SUBSET Tx]

(* A pass that came to its end left no invocation that Horizon listed for  *)
(* it without a document, whatever was posted meanwhile, except those      *)
(* whose operations came as an error body (index.js, syncContractEvents: a *)
(* known transaction is skipped, not the end).                             *)
CompletePassCovers ==
  \A s \in Syncer :
    reply[s] = "all" => page[s] \intersect Invoking \subseteq Hashes \union blank[s]

(* A pass overwrites no document that was there when it looked for it,     *)
(* posted before the pass or in the course of it, so that record keeps the *)
(* details its client gave (index.js, syncContractEvents: if (exists)      *)
(* continue).                                                              *)
EarlierRecordsKept ==
  [][ \A s \in Syncer :
        (pc[s] = "write" /\ pc'[s] = "find") =>
          Head(todo[s]) \notin known[s] ]_indexVars

(* What is true of a pass under way: what it was given and has not         *)
(* recorded is still to do, and what it is about to record was not there   *)
(* when it looked.                                                         *)
PassInv ==
  \A s \in Syncer :
    /\ known[s] \subseteq Hashes
    /\ pc[s] \in {"ops", "match", "write"} => Head(todo[s]) \notin known[s]
    /\ pc[s] # "idle" => /\ reply[s] = "none"
                        /\ page[s] \intersect Invoking
                             \subseteq Hashes \union blank[s] \union Range(todo[s])

(* The inductive invariant.                                                *)
IndexInv == IndexTypeOK /\ CompletePassCovers /\ PassInv

(* "Upsert so duplicate posts from the UI don't create duplicate records". *)
NoDuplicateRecords ==
  \A k, l \in DOMAIN db : db[k].hash = db[l].hash => k = l
=============================================================================
