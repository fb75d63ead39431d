---------------------------- MODULE PirWitnesses ----------------------------
(***************************************************************************)
(* Spending Ironwood notes while the wallet catches up (json_rpc/pir.rs):  *)
(* z_sendfromaccount asks a private-information-retrieval provider which   *)
(* of its notes are unspent beyond the scanned range and for witnesses to  *)
(* them, verifies the witnesses' root against the chain, and stores both;  *)
(* z_getspendablebalance asks the first question only.  Calls run          *)
(* concurrently with each other, with scanning and with reorgs.            *)
(*                                                                         *)
(* The root of the note tree at height h is <<h, epoch>>: a reorg from     *)
(* height k gives the heights from k on a new epoch.  A note n is mined at *)
(* minedAt[n] and spent at spentAt[n] (above MaxHeight: not spent).        *)
(***************************************************************************)
EXTENDS Integers, FiniteSets

CONSTANTS
  Senders,       \* the calls
  Notes,         \* the wallet's Ironwood notes
  Tip,           \* bound: the chain's height
  Activation,    \* of NU6.3: no Ironwood note is mined or spent before
  MaxReorgs      \* bound

ASSUME PirAssumption ==
  Tip \in Nat \ {0} /\ Activation \in 1..Tip /\ MaxReorgs \in Nat

VARIABLES
  minedAt, spentAt,
  epoch,         \* [1..Tip -> 0..MaxReorgs]: of the best chain
  past,          \* every root the best chain has had
  scanned,       \* block_fully_scanned
  status,        \* SyncStatus: "Synced", "CatchingUp" or "Recovering"
  anchor,        \* pir_ironwood_anchor_height and root: NoAnchor or <<h, epoch>>
  witnessed,     \* notes with a stored witness
  node,          \* PIR networking: "starting", "retrying" or "up"
  sender         \* [Senders -> [pc, notes, from, through, root, err]]

pirVars == <<minedAt, spentAt, epoch, past, scanned, status, anchor, witnessed, node, sender>>
ledgerVars == <<minedAt, spentAt, epoch, past, scanned, status>>
store == <<anchor, witnessed>>

NoAnchor == <<0, 0>>
Root(h) == <<h, epoch[h]>>
\* get_pir_ironwood_notes: known by scanning, and not known to be spent.
KnownNotes == {n \in Notes : minedAt[n] <= scanned /\ spentAt[n] > scanned}

Idle == [pc |-> "new", notes |-> {}, from |-> 0, through |-> 0, root |-> NoAnchor, err |-> FALSE]

PirInit ==
  /\ minedAt \in [Notes -> Activation..Tip]
  /\ spentAt \in {f \in [Notes -> 1..(Tip + 1)] : \A n \in Notes : f[n] > minedAt[n]}
  /\ epoch = [h \in 1..Tip |-> 0] /\ past = {<<h, 0>> : h \in 1..Tip}
  /\ scanned \in 0..Tip /\ status = "CatchingUp"
  /\ anchor = NoAnchor /\ witnessed = {} /\ node = "starting"
  /\ sender = [s \in Senders |-> Idle]

Set(s, r) == sender' = [sender EXCEPT ![s] = r]
Move(s, pc) == sender' = [sender EXCEPT ![s].pc = pc]
Leave(s, pc) == Set(s, [Idle EXCEPT !.pc = pc])    \* its locals are gone
At(s, pc) == sender[s].pc = pc
\* prepare_witnesses fails: the send learns it at the gate, a balance request
\* at once.
Fails(s) ==
  IF sender[s].pc \in {"bsession", "bcheck"} THEN Leave(s, "failed")
  ELSE Set(s, [Idle EXCEPT !.pc = "gate", !.err = TRUE])

-----------------------------------------------------------------------------
(* z_sendfromaccount with fund source "ironwood"                           *)

\* should_prepare_pir and the anchor decide whether to prepare witnesses,
\* which fails if no PIR peers are configured.
Request(s) ==
  /\ At(s, "new")
  /\ IF status = "CatchingUp" /\ anchor = NoAnchor THEN Move(s, "prepare") \/ Fails(s)
     ELSE Move(s, "gate")
  /\ UNCHANGED <<ledgerVars, store, node>>

\* prepare_witnesses: clears the stored witnesses and reads the notes with one
\* handle, then lets go of it.
ClearAndRead(s) ==
  /\ At(s, "prepare")
  /\ anchor' = NoAnchor /\ witnessed' = {}
  /\ IF KnownNotes = {} THEN Move(s, "gate")
     ELSE Set(s, [Idle EXCEPT !.pc = "session", !.notes = KnownNotes, !.from = scanned])
  /\ UNCHANGED <<ledgerVars, node>>

\* session waits for the networking task to have a client.
Session(s, from, to) ==
  /\ At(s, from) /\ node = "up"
  /\ Move(s, to)
  /\ UNCHANGED <<ledgerVars, store, node>>

\* check_notes_on whose retention check is one block short.
RetainedFromNext(s, earliest) == earliest <= sender[s].from + 2

\* check_notes_on: the provider keeps the nullifiers of the blocks from
\* earliest on, and must cover everything not scanned.
Retained(s, earliest) ==
  earliest <= IF sender[s].from + 1 > Activation THEN sender[s].from + 1 ELSE Activation

\* The notes whose nullifier the provider has not seen.
NotSeenSpent(s, earliest, latest) ==
  {n \in sender[s].notes : spentAt[n] \notin earliest..latest}

\* check_notes_on; then, for a send, prepare_witnesses_inner returns at once if
\* nothing is unspent and fails if the provider serves no witnesses.
Check(s, from, to) ==
  /\ At(s, from)
  /\ \/ Fails(s)
     \/ \E earliest \in 1..(Tip + 1), latest \in 1..Tip :
          /\ Retained(s, earliest)
          /\ LET unspent == NotSeenSpent(s, earliest, latest) IN
             Set(s, [sender[s] EXCEPT !.pc = IF unspent = {} /\ to = "anchor" THEN "gate" ELSE to,
                                      !.notes = unspent, !.through = latest])
  /\ UNCHANGED <<ledgerVars, store, node>>

\* prepare_witnesses_inner that does not compare the two datasets.
AnchorUnchecked(s, h) == h <= Tip /\ \A n \in sender[s].notes : minedAt[n] <= h

\* The witness dataset's height is covered by the nullifiers checked, is on the
\* chain, and no note is newer.
AnchorUsable(s, h) ==
  /\ h <= sender[s].through /\ h <= Tip
  /\ \A n \in sender[s].notes : minedAt[n] <= h

\* The root at the anchor is read from a chain snapshot.
ReadRoot(s) ==
  /\ At(s, "anchor")
  /\ \/ Fails(s)
     \/ \E h \in 1..Tip : AnchorUsable(s, h) /\ Set(s, [sender[s] EXCEPT !.pc = "fetch", !.root = Root(h)])
  /\ UNCHANGED <<ledgerVars, store, node>>

\* Witnesses taken with the root the provider gives.
FetchTrusting(s) ==
  /\ At(s, "fetch")
  /\ \E root \in past \cup {<<h, MaxReorgs + 1>> : h \in 1..Tip} :
       Set(s, [sender[s] EXCEPT !.pc = "replace", !.root = root])
  /\ UNCHANGED <<ledgerVars, store, node>>

\* get_witnesses: whatever root the provider's witnesses have, they are taken
\* only if it is the chain's.
Fetch(s) ==
  /\ At(s, "fetch")
  /\ \E root \in past \cup {<<h, MaxReorgs + 1>> : h \in 1..Tip} :
       IF root = sender[s].root THEN Move(s, "replace") ELSE Fails(s)
  /\ UNCHANGED <<ledgerVars, store, node>>

\* replace_pir_ironwood_witnesses
Replace(s) ==
  /\ At(s, "replace")
  /\ anchor' = sender[s].root /\ witnessed' = sender[s].notes
  /\ Leave(s, "gate")
  /\ UNCHANGED <<ledgerVars, node>>

\* The status is read anew: a synced wallet needs no anchor, one that catches
\* up must have prepared without error and have an anchor by now.
Gate(s) ==
  /\ At(s, "gate")
  /\ CASE status = "Synced" -> Set(s, [sender[s] EXCEPT !.pc = "propose", !.root = NoAnchor])
       [] status = "CatchingUp" ->
            IF sender[s].err \/ anchor = NoAnchor THEN Leave(s, "failed")
            ELSE Set(s, [sender[s] EXCEPT !.pc = "propose", !.root = anchor])
       [] status = "Recovering" -> Leave(s, "failed")
  /\ UNCHANGED <<ledgerVars, store, node>>

\* The proposal spends notes with a witness, stored or (synced) of its own.
ProposeIronwood(s) ==
  /\ At(s, "propose")
  /\ \/ Leave(s, "failed")
     \/ (sender[s].root # NoAnchor => witnessed # {}) /\ Leave(s, "proposed")
  /\ UNCHANGED <<ledgerVars, store, node>>

-----------------------------------------------------------------------------
(* z_getspendablebalance                                                   *)

\* calculate that clears the stored witnesses as prepare_witnesses does.
CalculateClearing(s) ==
  /\ At(s, "new")
  /\ Set(s, [Idle EXCEPT !.pc = "bsession", !.notes = KnownNotes, !.from = scanned])
  /\ anchor' = NoAnchor /\ witnessed' = {}
  /\ UNCHANGED <<ledgerVars, node>>

Calculate(s) ==
  /\ At(s, "new")
  /\ IF KnownNotes = {} THEN Set(s, [Idle EXCEPT !.pc = "balance"])
     ELSE Set(s, [Idle EXCEPT !.pc = "bsession", !.notes = KnownNotes, !.from = scanned])
  /\ UNCHANGED <<ledgerVars, store, node>>

-----------------------------------------------------------------------------
(* Around the calls                                                        *)

\* Queries without a timeout.
QueryUntimed(s) == At(s, "never") /\ UNCHANGED pirVars

\* SEND_TIMEOUT and z_getspendablebalance's TIMEOUT end the query, the server's
\* the call.  What was cleared stays cleared.
QueryTimeout(s) ==
  /\ sender[s].pc \in {"session", "check", "anchor", "fetch", "replace", "bsession", "bcheck"}
  /\ Fails(s) \/ Leave(s, "failed")
  /\ UNCHANGED <<ledgerVars, store, node>>

\* run: networking is tried until it starts.
Networking ==
  /\ node # "up"
  /\ node' \in IF node = "starting" THEN {"up", "retrying"} ELSE {"starting"}
  /\ UNCHANGED <<ledgerVars, store, sender>>

Scan ==
  /\ scanned < Tip /\ scanned' = scanned + 1
  /\ UNCHANGED <<minedAt, spentAt, epoch, past, status, store, node, sender>>

StatusChange ==
  /\ status' \in {"CatchingUp", "Recovering"} \cup (IF scanned = Tip THEN {"Synced"} ELSE {})
  /\ status' # status
  /\ UNCHANGED <<minedAt, spentAt, epoch, past, scanned, store, node, sender>>

Reorg ==
  /\ \E k \in 1..Tip :
       LET e == 1 + epoch[Tip] IN
       /\ e <= MaxReorgs
       /\ epoch' = [h \in 1..Tip |-> IF h >= k THEN e ELSE epoch[h]]
       /\ past' = past \cup {<<h, e>> : h \in k..Tip}
  /\ UNCHANGED <<minedAt, spentAt, scanned, status, store, node, sender>>

SenderStep(s) ==
  \/ ClearAndRead(s) \/ Session(s, "session", "check") \/ Check(s, "check", "anchor")
  \/ ReadRoot(s) \/ Fetch(s) \/ Replace(s) \/ Gate(s) \/ ProposeIronwood(s)
  \/ Session(s, "bsession", "bcheck") \/ Check(s, "bcheck", "balance")

PirNext ==
  \/ \E s \in Senders : Request(s) \/ Calculate(s) \/ SenderStep(s) \/ QueryTimeout(s)
  \/ Networking \/ Scan \/ StatusChange \/ Reorg

PirSpec == PirInit /\ [][PirNext]_pirVars

PirFairness == \A s \in Senders : WF_pirVars(SenderStep(s)) /\ WF_pirVars(QueryTimeout(s))

-----------------------------------------------------------------------------
\* The stored anchor is a root this wallet's own node had at that height,
\* whatever the provider answered and however calls interleave: witnesses are
\* stored only if their root matches (prepare_witnesses_inner).
AnchorFromOwnChain == anchor # NoAnchor => anchor \in past

\* A stored witness is for a note in the anchor's tree that no block up to the
\* anchor spends, although the wallet has not scanned those blocks.
WitnessedAreUnspent ==
  \A n \in witnessed : minedAt[n] <= anchor[1] /\ spentAt[n] > anchor[1]

\* z_getspendablebalance counts no note that a block up to its
\* pir_checked_through spends: the scanned blocks and the retained nullifiers
\* leave no gap between them.
BalanceIsUnspent ==
  \A s \in Senders : At(s, "balance") => \A n \in sender[s].notes : spentAt[n] > sender[s].through

\* A send that the gate let through with an anchor finds it gone only if
\* another send prepares its own (prepare_witnesses clears before it asks):
\* a lone send, and one beside balance requests, never does.
GateHolds ==
  \A s \in Senders :
    At(s, "propose") /\ sender[s].root # NoAnchor /\ anchor = NoAnchor =>
      \E t \in Senders \ {s} : sender[t].pc \notin {"new", "bsession", "bcheck", "balance"}

\* Every send and every balance request ends, whether or not PIR networking
\* ever starts.
PirCallsEnd ==
  \A s \in Senders : (~At(s, "new")) ~> (sender[s].pc \in {"failed", "proposed", "balance"})

\* While the wallet catches up, balances count only what is unspent and a send
\* keeps the anchor the gate saw.
CatchUpSafe == BalanceIsUnspent /\ GateHolds

\* What the wallet stores of a provider's answers can be spent with: anchors of
\* its own node's chain, and witnesses of unspent notes.
WitnessesUsable == AnchorFromOwnChain /\ WitnessedAreUnspent
=============================================================================
