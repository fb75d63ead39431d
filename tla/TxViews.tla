------------------------------- MODULE TxViews -------------------------------
(* What the RPC methods say of a transaction: z_viewtransaction, which joins  *)
(* a view of the node's chain with the wallet's tables in separate reads, and *)
(* z_listtransactions, which is one query of the tables.  The node's chain    *)
(* moves and the wallet follows it while a call is in progress.               *)
EXTENDS Integers, Sequences, SequencesExt, FiniteSets

CONSTANTS Transactions,  \* their identifiers
          TxData,        \* what is fixed about each: see below
          ExpiringSoon,  \* TX_EXPIRING_SOON_THRESHOLD
          MaxChain,      \* bound on the length of the chain
          MaxRewinds     \* bound on the blocks the node's chain drops

\* TxData[t]: expiry is the expiry height (0: none), coinbase whether it is one, inputs the
\* transactions its transparent inputs spend from, spends its shielded spends, each with its pool
\* and whether its nullifier is of a note in the wallet's tables, outputs the outputs it has.  An
\* output: pool, owner ("account", "other", or "nobody" for a script without an address), the
\* scope of the key that finds it, ovk, the kind of outgoing viewing key that recovers it, and
\* cached, whether the wallet recorded its recipient.

VARIABLES best,     \* the node's best chain: a sequence of blocks
          accepted, \* the transactions the node has accepted
          followed, \* the chain the wallet has followed
          drops,    \* how many blocks the node's chain dropped
          view      \* the call, one of z_viewtransaction

txVars == <<best, accepted, followed, drops, view>>

NoReply == [status |-> "none", confirmations |-> 0, height |-> 0, index |-> {}, outputs |-> {},
            accounts |-> {}]

NoView == [pc |-> "idle", tx |-> "none", chain |-> <<>>, todo |-> {}, funded |-> FALSE,
         keys |-> {}, mined |-> 0, at |-> <<>>, reply |-> NoReply]

TxInit == best = <<>> /\ accepted = {} /\ followed = <<>> /\ drops = 0 /\ view = NoView

-----------------------------------------------------------------------------
(* The node and the wallet's scan.                                           *)

HeightIn(chain, t) == {h \in 1..Len(chain) : t \in chain[h].txs}

MinedIn(chain, t) == HeightIn(chain, t) # {}

\* What consensus lets a block at this height contain.
Mineable(chain, t) ==
  /\ ~MinedIn(chain, t)
  /\ TxData[t].expiry = 0 \/ Len(chain) + 1 <= TxData[t].expiry
  /\ \A p \in TxData[t].inputs : MinedIn(chain, p)

\* A transaction may be accepted only after those it spends from.
Accept(t) ==
  /\ t \notin accepted /\ TxData[t].inputs \subseteq accepted
  /\ accepted' = accepted \cup {t}
  /\ UNCHANGED <<best, followed, drops, view>>

MineBlock ==
  /\ Len(best) < MaxChain
  /\ \E txs \in SUBSET {t \in accepted : Mineable(best, t)} :
       best' = Append(best, [fork |-> drops, txs |-> txs])
  /\ UNCHANGED <<accepted, followed, drops, view>>

DropBlock ==
  /\ best # <<>> /\ drops < MaxRewinds
  /\ best' = Front(best) /\ drops' = drops + 1
  /\ UNCHANGED <<accepted, followed, view>>

\* The wallet scans the next block of the node's chain, or rewinds one it no longer has.
ScanNext ==
  /\ IF IsPrefix(followed, best)
     THEN Len(followed) < Len(best) /\ followed' = Append(followed, best[Len(followed) + 1])
     ELSE followed' = Front(followed)
  /\ UNCHANGED <<best, accepted, drops, view>>

-----------------------------------------------------------------------------
(* z_viewtransaction.                                                        *)

Then(pc) == view' = [view EXCEPT !.pc = pc]
NodeRests == UNCHANGED <<best, accepted, followed, drops>>

\* snapshot().
Snapshot(t) ==
  /\ view.pc = "idle"
  /\ view' = [NoView EXCEPT !.pc = "tx", !.tx = t, !.chain = best, !.todo = TxData[t].inputs]
  /\ NodeRests

\* get_transaction: the wallet made the transaction, or met it while scanning.  Then the viewing
\* keys; the one zcashd used to shield from transparent addresses needs a seed, and is left out
\* when the keystore is locked.
ReadTx ==
  /\ view.pc = "tx"
  /\ \/ \E keys \in {{"wallet"}, {"wallet", "legacy"}} :
          view' = [view EXCEPT !.pc = "inputs", !.keys = keys]
     \/ Then("failed")
  /\ NodeRests

\* One transparent input, looked up in the view: its chain or the mempool.  None is unreachable!(),
\* an error is todo!().
ReadInput(p) ==
  /\ view.pc = "inputs" /\ p \in view.todo
  /\ \/ /\ MinedIn(view.chain, p) \/ p \in accepted
        /\ view' = [view EXCEPT !.todo = @ \ {p},
                                !.funded = @ \/ \E o \in TxData[p].outputs :
                                                  o.pool = "transparent" /\ o.owner = "account"]
     \/ /\ ~MinedIn(view.chain, p) /\ p \notin accepted
        /\ Then("panicked")
  /\ NodeRests

\* Shielded outputs: the recipient cached when the transaction was made, else the external receiver.
HasAddress(o) == o.cached \/ o.scope = "external"

\* output_with_nullifier, of the spends of one pool.
NotesSpent(t, pool) == {x \in TxData[t].spends : x.pool = pool /\ x.ours}

OrchardFamilySpends(t) == NotesSpent(t, "orchard") \cup NotesSpent(t, "ironwood")

\* funded_by_this_wallet.
Funded(t, own) == own \/ NotesSpent(t, "sapling") # {} \/ OrchardFamilySpends(t) # {}

OutputsIn(t, pool) == {o \in TxData[t].outputs : o.pool = pool}

OutputEntry(o, outgoing, address, internal) ==
  [of |-> o, account |-> o.owner = "account", outgoing |-> outgoing, address |-> address,
   internal |-> internal]

\* A transparent output is always reported.
TransparentOutputs(t, funded) ==
  {CASE o.owner = "nobody" -> OutputEntry(o, {}, FALSE, FALSE)
     [] o.owner = "account" -> OutputEntry(o, {FALSE}, TRUE, o.scope = "internal")
     [] OTHER -> OutputEntry(o, IF funded THEN {TRUE} ELSE {}, TRUE, FALSE) :
   o \in OutputsIn(t, "transparent")}

\* A shielded one only if a viewing key decrypts it, an incoming one before an outgoing one.
Decrypts(o, keys) == o.owner = "account" \/ o.ovk \in keys

Decrypted(o) == OutputEntry(o, {o.owner # "account"}, HasAddress(o), ~HasAddress(o))

SaplingOutputs(t, keys) == {Decrypted(o) : o \in {x \in OutputsIn(t, "sapling") : Decrypts(x, keys)}}

OrchardFamilyOutputs(t, pool, keys) ==
  {Decrypted(o) : o \in {x \in OutputsIn(t, pool) : Decrypts(x, keys)}}

Outputs(t, keys, funded) ==
  TransparentOutputs(t, funded) \cup SaplingOutputs(t, keys)
    \cup OrchardFamilyOutputs(t, "orchard", keys) \cup OrchardFamilyOutputs(t, "ironwood", keys)

ReadOutputsEarly ==
  /\ view.pc = "inputs"
  /\ LET funded == Funded(view.tx, view.funded)
     IN view' = [view EXCEPT !.pc = "height", !.funded = funded,
                             !.reply.outputs = Outputs(view.tx, view.keys, funded)]
  /\ NodeRests

\* Once all spends are known, the outputs.
ReadOutputs ==
  /\ view.pc = "inputs" /\ view.todo = {}
  /\ LET funded == Funded(view.tx, view.funded)
     IN view' = [view EXCEPT !.pc = "height", !.funded = funded,
                             !.reply.outputs = Outputs(view.tx, view.keys, funded)]
  /\ NodeRests

\* get_tx_height: the wallet's tables, as they are now ("at" remembers them for the properties).
ReadHeight ==
  /\ view.pc = "height"
  /\ view' = [view EXCEPT !.pc = "block", !.at = followed,
                          !.mined = IF MinedIn(followed, view.tx)
                                    THEN CHOOSE h \in HeightIn(followed, view.tx) : TRUE ELSE 0]
  /\ NodeRests

IsExpiredTx(t, height) ==
  TxData[t].expiry # 0 /\ ~TxData[t].coinbase /\ height > TxData[t].expiry

IsExpiringSoonTx(t, next) == IsExpiredTx(t, next + ExpiringSoon)

TxStatusEager(t, tip) ==
  CASE IsExpiringSoonTx(t, tip + 1) -> "expired"
    [] OTHER -> "waiting"

\* The status of a transaction that is not mined.
TxStatus(t, tip) ==
  CASE IsExpiredTx(t, tip) -> "expired"
    [] ~IsExpiredTx(t, tip) /\ IsExpiringSoonTx(t, tip + 1) -> "expiringsoon"
    [] OTHER -> "waiting"

\* The accounts with a row for the transaction: those it spends from or pays.
AccountEffects(t, funded) ==
  IF funded \/ \E o \in TxData[t].outputs : o.owner = "account" THEN {"account"} ELSE {}

\* Block heights subtract down to zero.
Confirmations(tip, height) == IF tip + 1 > height THEN tip + 1 - height ELSE 0

Replies(status, confirmations, height, index) ==
  view' = [view EXCEPT !.pc = "viewed",
                       !.reply = [@ EXCEPT !.status = status, !.confirmations = confirmations,
                                           !.height = height, !.index = index,
                                           !.accounts = AccountEffects(view.tx, view.funded)]]

FetchInfoMissing ==
  /\ view.pc = "block"
  /\ LET tip == Len(view.chain)
     IN IF view.mined = 0
        THEN Replies(TxStatus(view.tx, tip), -1, 0, {})
        ELSE Replies("mined", Confirmations(tip, view.mined), view.mined,
                      HeightIn(view.chain, view.tx) \cap {view.mined})
  /\ NodeRests

\* WalletTxInfo::fetch.  The block at the wallet's height comes from the view; the view may be
\* too short to have it, and its block may not hold the transaction.
FetchInfo ==
  /\ view.pc = "block"
  /\ LET tip == Len(view.chain)
     IN CASE view.mined = 0 -> Replies(TxStatus(view.tx, tip), -1, 0, {})
          [] view.mined > tip -> Then("failed")
          [] OTHER -> Replies("mined", Confirmations(tip, view.mined), view.mined,
                               HeightIn(view.chain, view.tx) \cap {view.mined})
  /\ NodeRests

-----------------------------------------------------------------------------
(* z_listtransactions.                                                       *)

\* The rows of the wallet: a coinbase transaction is met only when it is followed.
Rows == {t \in Transactions : ~TxData[t].coinbase \/ MinedIn(followed, t)}

ListClosed(start, end) ==
  {t \in Rows : LET mined == HeightIn(followed, t)
                IN /\ \/ start = {}
                      \/ \E h \in mined, s \in start : h >= s
                      \/ mined = {} /\ end = {}
                   /\ end = {} \/ \E h \in mined, e \in end : h <= e}

\* The rows of a query with an inclusive start and an exclusive end, each a set that is empty when
\* the bound is omitted: without an end, those that are not mined too.
ListTransactions(start, end) ==
  {t \in Rows : LET mined == HeightIn(followed, t)
                IN /\ \/ start = {}
                      \/ \E h \in mined, s \in start : h >= s
                      \/ mined = {} /\ end = {}
                   /\ end = {} \/ \E h \in mined, e \in end : h < e}

-----------------------------------------------------------------------------

NodeAndScan == (\E t \in Transactions : Accept(t)) \/ MineBlock \/ DropBlock \/ ScanNext

ViewSteps ==
  \/ \E t \in Transactions : Snapshot(t) \/ ReadInput(t)
  \/ ReadTx \/ ReadOutputs \/ ReadHeight \/ FetchInfo

TxNext == NodeAndScan \/ ViewSteps

-----------------------------------------------------------------------------

\* The height read from the wallet and the view read from the node need not be of one chain.  A
\* reply that says "mined" has a confirmation all the same, and when the wallet had followed no
\* other block than the view's, the block it names holds the transaction (WalletTxInfo::fetch).
MinedOnView ==
  (view.pc = "viewed" /\ view.reply.status = "mined") =>
    /\ view.reply.confirmations >= 1
    /\ IsPrefix(view.at, view.chain) => view.reply.index # {}

\* "expired" is final: a transaction it was said of, by a wallet that had followed the view, is in
\* no block of that chain, however long it grows (is_expired_tx, is_expiring_soon_tx).
ExpiredIsFinal ==
  (view.pc = "viewed" /\ view.reply.status = "expired"
     /\ view.at = view.chain /\ IsPrefix(view.chain, best)) => ~MinedIn(best, view.tx)

\* Whether an output is outgoing is decided once all spends are known: an output to somebody else
\* of a transaction that the wallet paid for, with a note or with a transparent output of its
\* own, is outgoing, and one the wallet received never is (funded_by_this_wallet).
PaidForIsOutgoing ==
  view.pc = "viewed" =>
    \A o \in {x \in view.reply.outputs : x.of.owner # "nobody"} :
      o.outgoing = IF o.of.owner = "account" THEN {FALSE}
                   ELSE IF \/ \E x \in TxData[view.tx].spends : x.ours
                           \/ \E p \in TxData[view.tx].inputs : \E q \in TxData[p].outputs :
                                q.pool = "transparent" /\ q.owner = "account"
                           \/ o.of.pool # "transparent"
                        THEN {TRUE} ELSE {}

\* The history can be read in ranges: two queries that share a bound return every row once.
RangesPartition ==
  \A bound \in 1..(MaxChain + 1) :
    LET below == ListTransactions({}, {bound})
        above == ListTransactions({bound}, {})
    IN below \cap above = {} /\ below \cup above = Rows

\* "The `address` field is guaranteed be absent when this field is set to `true`": an output that
\* is reported as wallet-internal has no address.
InternalHasNoAddress == \A o \in view.reply.outputs : o.internal => ~o.address

\* `unreachable!()`: a transaction that another of the wallet spends from is known to the node.
InputsKnown == view.pc # "panicked"

\* The history says who paid, and loses no row between ranges.
HistoryIsRight == PaidForIsOutgoing /\ RangesPartition

\* The status of z_viewtransaction is one the chain bears out.
StatusIsRight == MinedOnView /\ ExpiredIsFinal
=============================================================================
