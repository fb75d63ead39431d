----------------------------- MODULE ChainReads -----------------------------
(* Reads through a backend's chain view while the node moves on.  Zebra's   *)
(* view pins block reads to the tip it captured, by height below a floor and *)
(* by a memoized walk over parent hashes above it, and looks transactions up *)
(* in the best chain, the side chains and the mempool, one request after the *)
(* other; its mempool stream polls.  Zaino's view is a snapshot of the chain *)
(* index, with the validator behind it for blocks and tree states.  The node *)
(* and the index are external.                                               *)
EXTENDS BlockTree, FiniteSets

CONSTANTS Txs,          \* transactions
          Places,       \* candidates for where they are mined: Txs -> set of blocks
          Activates,    \* height at which each shielded pool's upgrade activates
          MaxHeight,    \* the highest block
          ReorgDepth    \* MAX_REORG_DEPTH, and how deep the node reorganizes

Height(b) == Len(b)

VARIABLES engine,   \* the backend: "zebra" or "zaino"
          place,    \* where each transaction is mined, on which chains
          best,     \* the node's best tip
          sides,    \* the tips of the side chains it still has
          pool,     \* its mempool
          view,     \* the view: the tip captured, and the hashes memoized
          read,     \* the read in progress, and its answer
          stream    \* the mempool stream: what it has seen, failed to fetch, and buffered

readVars == <<engine, place, best, sides, pool, view, read, stream>>
NodeState == <<engine, place, best, sides, pool>>

Mined(t, b) == \E x \in place[t] : IsAnc(x, b)
OnChain(b) == {t \in Txs : Mined(t, b)}
BlockOf(t, b) == CHOOSE x \in place[t] : IsAnc(x, b)
Has(b) == \E tip \in sides \cup {best} : IsAnc(b, tip)

\* kind: "status", "tx", "block" or "tree"; hash and height the answer's, {} and 0 when it has
\* none; trees the final trees read, in the order of TreePools, "real" or "empty".
NoRead == [at |-> "idle", kind |-> "none", tx |-> "none", want |-> 0, hash |-> {}, height |-> 0,
           trees |-> <<>>, answer |-> "none"]
NoStream == [at |-> "off", seen |-> {}, failed |-> {}, pending |-> {}, given |-> {}]

\* A view of tip b (snapshot).  Zaino's holds the side chains too.
ViewOf(b) == [tip |-> b, cache |-> {b}, sides |-> IF engine = "zaino" THEN sides ELSE {}]

ReadsInit ==
  /\ engine \in {"zebra", "zaino"}
  /\ place \in Places
  /\ \E b \in UNION {[1..h -> Branches] : h \in 1..2} : best = b
  /\ sides = {} /\ pool = {}
  /\ view = ViewOf(best) /\ read = NoRead /\ stream = NoStream

-----------------------------------------------------------------------------
\* The node.

\* A longer chain becomes best, at most ReorgDepth blocks of the old one leaving it; their
\* transactions go back to the mempool.
NewBest ==
  /\ \E b \in UNION {[1..h -> Branches] : h \in 1..MaxHeight} :
       /\ Height(b) > Height(best)
       /\ Height(best) - Height(CommonAnc(best, b)) <= ReorgDepth
       /\ best' = b
       /\ sides' = (IF IsAnc(best, b) THEN sides ELSE sides \cup {best})
       /\ pool' = (pool \cup OnChain(best)) \ OnChain(b)
  /\ UNCHANGED <<engine, place, view, read, stream>>

Forget ==
  /\ \E b \in sides : sides' = sides \ {b}
  /\ UNCHANGED <<engine, place, best, pool, view, read, stream>>

Broadcast ==
  /\ \E t \in Txs \ (pool \cup OnChain(best)) : pool' = pool \cup {t}
  /\ UNCHANGED <<engine, place, best, sides, view, read, stream>>

-----------------------------------------------------------------------------
\* A read through the view.

TakeView ==
  /\ read.at = "idle" /\ stream.at = "off"
  /\ view' = ViewOf(best)
  /\ UNCHANGED <<read, stream>> /\ UNCHANGED NodeState

Ask ==
  /\ read.at = "idle"
  /\ LET zaino == engine = "zaino"
     IN \/ \E t \in Txs, k \in {"status", "tx"} :
             read' = [NoRead EXCEPT !.kind = k, !.tx = t,
                                    !.at = IF ~zaino THEN "best" ELSE IF k = "tx" THEN "raw" ELSE "locate"]
        \/ \E h \in 1..MaxHeight, k \in {"block", "tree"} :
             read' = [NoRead EXCEPT !.kind = k, !.want = h, !.at = IF zaino THEN k ELSE "resolve"]
  /\ UNCHANGED <<view, stream>> /\ UNCHANGED NodeState

Answer(a) == read' = [read EXCEPT !.at = "done", !.answer = a]

\* The best chain as it is now: a status needs the height alone, a transaction its block's hash too.
ReadBest ==
  /\ read.at = "best"
  /\ LET h == Height(BlockOf(read.tx, best))
     IN IF ~Mined(read.tx, best) THEN read' = [read EXCEPT !.at = "side"]
        ELSE IF read.kind = "status"
             THEN read' = [read EXCEPT !.at = "done", !.answer = "mined", !.height = h]
             ELSE read' = [read EXCEPT !.at = "resolve", !.want = h, !.height = h]
  /\ UNCHANGED <<view, stream>> /\ UNCHANGED NodeState

\* Then the side chains, then the mempool.
ReadSide ==
  /\ read.at = "side"
  /\ LET found == {x \in place[read.tx] : (\E s \in sides : IsAnc(x, s)) /\ ~IsAnc(x, best)}
     IN \/ found = {} /\ read' = [read EXCEPT !.at = "pool"]
        \/ \E x \in found : read' = [read EXCEPT !.at = "done", !.answer = "side", !.hash = {x}]
  /\ UNCHANGED <<view, stream>> /\ UNCHANGED NodeState

ReadPool ==
  /\ read.at = "pool"
  /\ Answer(IF read.tx \in pool THEN "pool" ELSE "unknown")
  /\ UNCHANGED <<view, stream>> /\ UNCHANGED NodeState

\* A backend error, at any request.
ReadFails ==
  /\ read.at \notin {"idle", "done"}
  /\ Answer("error")
  /\ UNCHANGED <<view, stream>> /\ UNCHANGED NodeState

ShallowFloor == SatSub(Height(view.tip) + 1, ReorgDepth)

\* finalized_floor.
Floor == SatSub(Height(view.tip), ReorgDepth)

\* A resolved hash is what a transaction is reported with; a block or a tree state is fetched by
\* it, and there is none at a height without a hash.
Resolved(bs) ==
  read' = [read EXCEPT !.hash = bs,
                       !.at = IF read.kind \in {"block", "tree"} /\ bs # {} THEN "fetch" ELSE "done",
                       !.answer = IF read.kind \in {"block", "tree"} THEN "none" ELSE "mined"]

Memoized(h) == {b \in view.cache : Height(b) = h}

LowestFrom(h) ==
  CHOOSE b \in view.cache : Height(b) >= h /\ \A c \in view.cache : Height(c) >= h => Height(b) <= Height(c)

\* resolve: nothing above the tip; by height on the best chain of the moment at or below the floor;
\* else from the memo, extended by one parent hash at a time.  A pinned block the node no longer
\* has ends the read.
ResolveAtOrBelowFloor ==
  /\ read.at = "resolve" /\ read.want <= Height(view.tip) /\ read.want <= Floor
  /\ Resolved({Anc(best, read.want)})
  /\ UNCHANGED <<view, stream>> /\ UNCHANGED NodeState

ResolveAboveTip ==
  /\ read.at = "resolve" /\ read.want > Height(view.tip)
  /\ Resolved({})
  /\ UNCHANGED <<view, stream>> /\ UNCHANGED NodeState

ResolveFromMemo ==
  /\ read.at = "resolve" /\ read.want <= Height(view.tip) /\ read.want > Floor
  /\ Memoized(read.want) # {} /\ Resolved(Memoized(read.want))
  /\ UNCHANGED <<view, stream>> /\ UNCHANGED NodeState

WalkDown ==
  /\ read.at = "resolve" /\ read.want <= Height(view.tip) /\ read.want > Floor
  /\ Memoized(read.want) = {}
  /\ LET b == LowestFrom(read.want)
     IN IF Has(b)
        THEN view' = [view EXCEPT !.cache = @ \cup {Anc(b, Height(b) - 1)}] /\ UNCHANGED read
        ELSE Answer("unavailable") /\ UNCHANGED view
  /\ UNCHANGED stream /\ UNCHANGED NodeState

\* get_block, get_block_header: none if the node has dropped it.
FetchBlock ==
  /\ read.at = "fetch" /\ read.kind = "block"
  /\ Answer(IF \A b \in read.hash : Has(b) THEN "block" ELSE "none")
  /\ UNCHANGED <<view, stream>> /\ UNCHANGED NodeState

TreePools == <<"sapling", "orchard", "ironwood">>

\* empty_tree_is_legitimate.
Inactive(p, h) == h < Activates[p]

WithTree(t) ==
  LET last == Len(read.trees) + 1 = Len(TreePools)
  IN read' = [read EXCEPT !.trees = Append(@, t), !.at = IF last THEN "done" ELSE "fetch",
                          !.answer = IF last THEN "tree" ELSE "none"]

FetchTreeTrusting ==
  /\ read.at = "fetch" /\ read.kind = "tree"
  /\ LET p == TreePools[Len(read.trees) + 1]
     IN \/ (\A b \in read.hash : IsAnc(b, best)) /\ WithTree(IF Inactive(p, read.want) THEN "empty" ELSE "real")
        \/ IF read.want <= Floor THEN WithTree("empty") ELSE Answer("unavailable")
  /\ UNCHANGED <<view, stream>> /\ UNCHANGED NodeState

\* tree_state_as_of, one pool: a block's trees are those of the best chain of the moment, which may
\* not be served.  A missing tree is an empty one only where nothing reorganizes, before the pool.
FetchTree ==
  /\ read.at = "fetch" /\ read.kind = "tree"
  /\ LET p == TreePools[Len(read.trees) + 1]
     IN \/ (\A b \in read.hash : IsAnc(b, best)) /\ WithTree(IF Inactive(p, read.want) THEN "empty" ELSE "real")
        \/ IF read.want <= Floor /\ Inactive(p, read.want) THEN WithTree("empty") ELSE Answer("unavailable")
  /\ UNCHANGED <<view, stream>> /\ UNCHANGED NodeState

Done ==
  /\ read.at = "done" /\ read' = NoRead
  /\ UNCHANGED <<view, stream>> /\ UNCHANGED NodeState

-----------------------------------------------------------------------------
\* The same reads through Zaino.

Orphaned(t) == {x \in place[t] : (\E s \in view.sides : IsAnc(x, s)) /\ ~IsAnc(x, view.tip)}

\* get_transaction, first request: the transaction itself.
ReadRaw ==
  /\ read.at = "raw"
  /\ IF Mined(read.tx, view.tip) \/ Orphaned(read.tx) # {} \/ read.tx \in pool
     THEN read' = [read EXCEPT !.at = "locate"] ELSE Answer("unknown")
  /\ UNCHANGED <<view, stream>> /\ UNCHANGED NodeState

\* Second request, and get_transaction_status: the snapshot's best chain, the mempool, its orphans.
\* The header of a mined transaction's block is read for its time.
Located ==
  LET b == BlockOf(read.tx, view.tip)
      status == read.kind = "status"
  IN IF Mined(read.tx, view.tip)
     THEN read' = [read EXCEPT !.at = IF status THEN "done" ELSE "block",
                               !.answer = IF status THEN "mined" ELSE "none",
                               !.want = Height(b), !.height = Height(b),
                               !.hash = IF status THEN {} ELSE {b}]
     ELSE IF read.tx \in pool THEN Answer("pool")
     ELSE IF Orphaned(read.tx) = {} THEN Answer(IF status THEN "unknown" ELSE "pool")
     ELSE \E x \in Orphaned(read.tx) :
            read' = [read EXCEPT !.at = "done", !.answer = "side", !.hash = IF status THEN {} ELSE {x},
                                 !.height = IF status THEN 0 ELSE Height(x)]

ReadLocation ==
  /\ read.at = "locate" /\ Located
  /\ UNCHANGED <<view, stream>> /\ UNCHANGED NodeState

\* get_block_inner: a range of one block of the snapshot.
ReadBlock ==
  /\ read.at = "block"
  /\ LET found == read.want <= Height(view.tip)
         b == Anc(view.tip, read.want)
     IN CASE read.kind = "tx" -> Answer(IF Has(b) THEN "mined" ELSE "unavailable")
          [] read.kind = "block" /\ ~found -> Answer("none")
          [] read.kind = "block" /\ found /\ Has(b) ->
               read' = [read EXCEPT !.at = "done", !.answer = "block", !.hash = {b}]
          [] OTHER -> Answer("unavailable")
  /\ UNCHANGED <<view, stream>> /\ UNCHANGED NodeState

\* tree_state_as_of: the snapshot's hash, then all trees at once; the validator may omit some.
ReadTrees ==
  /\ read.at = "tree"
  /\ \E got \in SUBSET {i \in DOMAIN TreePools : ~Inactive(TreePools[i], read.want)} :
       IF read.want > Height(view.tip) THEN Answer("none")
       ELSE IF \E i \in DOMAIN TreePools : i \notin got /\ ~Inactive(TreePools[i], read.want)
       THEN Answer("unavailable")
       ELSE /\ Has(Anc(view.tip, read.want))
            /\ read' = [read EXCEPT !.at = "done", !.answer = "tree", !.hash = {Anc(view.tip, read.want)},
                                    !.trees = [i \in DOMAIN TreePools |-> IF i \in got THEN "real" ELSE "empty"]]
  /\ UNCHANGED <<view, stream>> /\ UNCHANGED NodeState

-----------------------------------------------------------------------------
\* The mempool stream of Zebra's view.

OpenStream ==
  /\ engine = "zebra" /\ stream.at = "off" /\ best = view.tip
  /\ stream' = [NoStream EXCEPT !.at = "tick"]
  /\ UNCHANGED <<view, read>> /\ UNCHANGED NodeState

TickOnReorg ==
  /\ stream.at = "tick" /\ stream.pending = {}
  /\ \/ IsAnc(view.tip, best) /\ stream' = [stream EXCEPT !.at = "poll"]
     \/ ~IsAnc(view.tip, best) /\ stream' = NoStream
  /\ UNCHANGED <<view, read>> /\ UNCHANGED NodeState

\* Each second: the stream ends if the tip is another or cannot be read.
Tick ==
  /\ stream.at = "tick" /\ stream.pending = {}
  /\ \/ best = view.tip /\ stream' = [stream EXCEPT !.at = "poll"]
     \/ best # view.tip /\ stream' = NoStream
  /\ UNCHANGED <<view, read>> /\ UNCHANGED NodeState

PollRefetching ==
  /\ stream.at = "poll"
  /\ \E bad \in SUBSET pool :
       stream' = [stream EXCEPT !.at = "tick", !.pending = pool \ bad]
  /\ UNCHANGED <<view, read>> /\ UNCHANGED NodeState

\* Every transaction not seen before is marked seen and then fetched; a fetch that fails is not
\* repeated.  A mempool that cannot be read is polled again.
PollMempool ==
  /\ stream.at = "poll"
  /\ \/ \E bad \in SUBSET (pool \ stream.seen) :
          stream' = [stream EXCEPT !.at = "tick", !.seen = @ \cup pool, !.failed = @ \cup bad,
                                   !.pending = (pool \ stream.seen) \ bad]
     \/ stream' = [stream EXCEPT !.at = "tick"]
  /\ UNCHANGED <<view, read>> /\ UNCHANGED NodeState

Yield ==
  /\ stream.at = "tick"
  /\ \E t \in stream.pending :
       stream' = [stream EXCEPT !.pending = @ \ {t}, !.given = @ \cup {t}]
  /\ UNCHANGED <<view, read>> /\ UNCHANGED NodeState

NodeMoves == NewBest \/ Forget \/ Broadcast
ViewReads ==
  \/ TakeView \/ Ask \/ ReadBest \/ ReadSide \/ ReadPool \/ ReadFails \/ ResolveAtOrBelowFloor
  \/ ResolveAboveTip \/ ResolveFromMemo \/ WalkDown \/ FetchBlock \/ FetchTree \/ Done
  \/ ReadRaw \/ ReadLocation \/ ReadBlock \/ ReadTrees
StreamMoves == TakeView \/ OpenStream \/ Tick \/ PollMempool \/ Yield
ReadsNext == NodeMoves \/ ViewReads \/ StreamMoves

\* A consumer that keeps polling the stream, and a timer that ticks.
ReadsFairness == WF_readVars(Tick) /\ WF_readVars(PollMempool) /\ WF_readVars(Yield)

-----------------------------------------------------------------------------

\* Blocks read through one view are of one chain, that of the tip it captured, however often the
\* node reorganizes and whichever order the heights are asked for in: the floor is where no
\* reorganization reaches, and the memo only ever holds ancestors (resolve).
PinnedReads ==
  /\ \A b \in view.cache : IsAnc(b, view.tip)
  /\ read.answer \in {"block", "tree"} => read.hash = {Anc(view.tip, read.want)}

\* "Substituting an empty frontier there silently corrupts the wallet's note commitment tree": a
\* tree state has an empty tree only for a pool that is not active at its height, whichever trees
\* the node fails to serve, or loses to a reorganization between two of them (tree_state_as_of).
TreesAreReal ==
  read.answer = "tree" =>
    \A i \in DOMAIN TreePools : read.trees[i] = "empty" <=> Inactive(TreePools[i], read.want)

\* Zaino answers about a transaction from the snapshot: one it reports as mined is in the block it
\* names, on the view's chain.
MinedInSnapshot ==
  (engine = "zaino" /\ read.kind = "tx" /\ read.answer = "mined") =>
    read.hash \subseteq place[read.tx] /\ \A b \in read.hash : IsAnc(b, view.tip) /\ Height(b) = read.height

\* The stream yields a transaction once (seen).
YieldsOnce == [][\A t \in stream.given : t \notin stream'.pending \/ stream'.at = "off"]_readVars

\* "The stream ends when this view's tip changes."
StreamEnds == (stream.at # "off" /\ best # view.tip) ~> (stream.at = "off")

\* A transaction reported with a block is in that block: "A sequence of reads through one
\* `ChainView` is mutually consistent."
TxInItsBlock ==
  (read.kind = "tx" /\ read.answer = "mined") => read.hash \subseteq place[read.tx]

\* A reader of the chain is not misled by the node moving on: its view stays one chain, and its
\* mempool stream yields each transaction once and ends with the tip it began at.
ReadersHold == [](PinnedReads /\ TreesAreReal /\ MinedInSnapshot) /\ YieldsOnce /\ StreamEnds
=============================================================================
