--------------------------- MODULE SpendingProofs ---------------------------
(***************************************************************************)
(* Theorems about the witnesses a send fetches while the wallet catches    *)
(* up, and about the pipeline that builds, proves, records and broadcasts  *)
(* it.                                                                     *)
(***************************************************************************)
EXTENDS SendPipeline, PirWitnesses, FiniteSetTheorems, TLAPS

(***************************************************************************)
(* The witnesses that a private-information-retrieval provider answers     *)
(* with are usable, for any number of sends, notes and reorgs.  A send     *)
(* knows its notes unspent up to the height it checked and takes its root  *)
(* from the chain, at most that high, so what it stores is unspent at its  *)
(* anchor.                                                                 *)
(***************************************************************************)
\* Where a send or a balance query may be, and what it carries.
CallPcs ==
  {"new", "prepare", "session", "check", "anchor", "fetch", "replace", "gate", "propose", "proposed",
   "failed", "bsession", "bcheck", "balance"}

CallRecords ==
  [pc : CallPcs, notes : SUBSET Notes, from : Nat, through : Nat, root : Nat \X Nat, err : BOOLEAN]

\* The chain and the tables: a note is spent after it is mined, and past has the roots of the best chain.
LedgerRight ==
  /\ minedAt \in [Notes -> Nat] /\ spentAt \in [Notes -> Nat]
  /\ \A n \in Notes : Activation <= minedAt[n] /\ minedAt[n] < spentAt[n]
  /\ scanned \in Nat /\ status \in {"Synced", "CatchingUp", "Recovering"}
  /\ epoch \in [1..Tip -> Nat] /\ \A h \in 1..Tip : Root(h) \in past

\* What a call knows of its notes: unspent in the blocks scanned, then in those the provider
\* covers; and its root is one of the chain, within what was checked and not before any note.
KnowsNotes(c) ==
  /\ c.pc \in {"session", "check", "bsession", "bcheck"} => \A n \in c.notes : spentAt[n] > c.from
  /\ c.pc \in {"anchor", "fetch", "replace", "balance"} => \A n \in c.notes : spentAt[n] > c.through
  /\ c.pc \in {"fetch", "replace"} =>
       c.root \in past /\ c.root[1] <= c.through /\ \A n \in c.notes : minedAt[n] <= c.root[1]

\* The inductive invariant.
PirInv ==
  /\ LedgerRight
  /\ sender \in [Senders -> CallRecords] /\ anchor \in Nat \X Nat /\ witnessed \subseteq Notes
  /\ \A s \in Senders : KnowsNotes(sender[s])
  /\ WitnessesUsable /\ GateHolds

\* A call that is no send, or not yet one.
NoSend(c) == c.pc \in {"new", "bsession", "bcheck", "balance"}

\* What a call's step may leave it at, when it stores nothing.
MayBecome(c, r) ==
  /\ r \in CallRecords /\ KnowsNotes(r)
  /\ NoSend(r) => NoSend(c)
  /\ r.pc = "propose" => r.root = NoAnchor \/ anchor # NoAnchor

\* It holds before the first call.
LEMMA PirStarts == PirInit => PirInv
<1> SUFFICES ASSUME PirInit PROVE PirInv
  OBVIOUS
<1>1. LedgerRight
  BY PirAssumption DEF PirInit, LedgerRight, Root
<1>2. Idle \in CallRecords
  BY DEF Idle, CallRecords, CallPcs, NoAnchor
<1>3. sender \in [Senders -> CallRecords] /\ \A s \in Senders : KnowsNotes(sender[s])
  BY <1>2 DEF PirInit, KnowsNotes, Idle
<1>4. WitnessesUsable /\ GateHolds
  BY DEF PirInit, WitnessesUsable, AnchorFromOwnChain, WitnessedAreUnspent, GateHolds, At, Idle
<1> QED
  BY <1>1, <1>3, <1>4 DEF PirInv, PirInit, NoAnchor

\* A step of one call that changes neither the chain nor the stored witnesses.
LEMMA CallMoves ==
  ASSUME PirInv, NEW s \in Senders, NEW r, MayBecome(sender[s], r),
         sender' = [sender EXCEPT ![s] = r],
         UNCHANGED ledgerVars, UNCHANGED store
  PROVE  PirInv'
<1>1. LedgerRight' /\ WitnessesUsable' /\ anchor' \in Nat \X Nat /\ witnessed' \subseteq Notes
  BY DEF PirInv, LedgerRight, Root, WitnessesUsable, AnchorFromOwnChain, WitnessedAreUnspent, ledgerVars, store
<1>2. sender' \in [Senders -> CallRecords]
  BY DEF PirInv, MayBecome
<1>3. ASSUME NEW t \in Senders PROVE KnowsNotes(sender[t])'
  BY <1>3 DEF PirInv, MayBecome, KnowsNotes, ledgerVars
<1>4. GateHolds'
  BY DEF PirInv, MayBecome, GateHolds, At, NoSend, store
<1> QED
  BY <1>1, <1>2, <1>3, <1>4 DEF PirInv

\* A call that fails keeps nothing.
LEMMA FailingKeeps ==
  ASSUME PirInv, NEW s \in Senders, ~NoSend(sender[s]) \/ sender[s].pc \in {"bsession", "bcheck"},
         Fails(s) \/ Leave(s, "failed"), UNCHANGED ledgerVars, UNCHANGED store
  PROVE  PirInv'
<1>1. MayBecome(sender[s], [Idle EXCEPT !.pc = "gate", !.err = TRUE])
  BY DEF MayBecome, CallRecords, CallPcs, KnowsNotes, NoSend, Idle, NoAnchor
<1>2. MayBecome(sender[s], [Idle EXCEPT !.pc = "failed"])
  BY DEF MayBecome, CallRecords, CallPcs, KnowsNotes, NoSend, Idle, NoAnchor
<1> QED
  BY <1>1, <1>2, CallMoves DEF Fails, Leave, Set
\* A step that only moves a call on, keeping what it knows.
LEMMA MovingOn ==
  ASSUME PirInv, NEW s \in Senders, NEW q \in CallPcs, Move(s, q),
         MayBecome(sender[s], [sender[s] EXCEPT !.pc = q]),
         UNCHANGED ledgerVars, UNCHANGED store
  PROVE  PirInv'
<1>1. sender' = [sender EXCEPT ![s] = [sender[s] EXCEPT !.pc = q]]
  BY DEF Move
<1> QED
  BY <1>1, CallMoves

\* A new send keeps it.
LEMMA RequestKeeps == ASSUME PirInv, NEW s \in Senders, Request(s) PROVE PirInv'
<1> USE DEF Request, At
<1>1. sender[s] \in CallRecords
  BY DEF PirInv
<1>2. CASE Fails(s)
  <2>1. MayBecome(sender[s], [Idle EXCEPT !.pc = "gate", !.err = TRUE])
    BY DEF MayBecome, CallRecords, CallPcs, KnowsNotes, NoSend, Idle, NoAnchor
  <2> QED
    BY <1>2, <2>1, CallMoves DEF Fails, Set
<1>3. ASSUME NEW q \in {"prepare", "gate"}, Move(s, q) PROVE PirInv'
  <2>1. MayBecome(sender[s], [sender[s] EXCEPT !.pc = q])
    BY <1>1 DEF MayBecome, CallRecords, CallPcs, KnowsNotes, NoSend
  <2> QED
    BY <1>3, <2>1, MovingOn DEF CallPcs
<1> QED
  BY <1>2, <1>3

\* A balance query keeps it.
LEMMA CalculateKeeps == ASSUME PirInv, NEW s \in Senders, Calculate(s) PROVE PirInv'
<1> USE DEF Calculate, At
<1>1. KnownNotes \in SUBSET Notes /\ scanned \in Nat /\ \A n \in KnownNotes : spentAt[n] > scanned
  BY DEF KnownNotes, PirInv, LedgerRight
<1>2. MayBecome(sender[s], [Idle EXCEPT !.pc = "balance"])
  BY DEF MayBecome, CallRecords, CallPcs, KnowsNotes, NoSend, Idle, NoAnchor
<1>3. MayBecome(sender[s], [Idle EXCEPT !.pc = "bsession", !.notes = KnownNotes, !.from = scanned])
  BY <1>1 DEF MayBecome, CallRecords, CallPcs, KnowsNotes, NoSend, Idle, NoAnchor
<1> QED
  BY <1>2, <1>3, CallMoves DEF Set

\* Opening the session with the provider keeps it.
LEMMA SessionKeeps ==
  ASSUME PirInv, NEW s \in Senders, Session(s, "session", "check") \/ Session(s, "bsession", "bcheck")
  PROVE  PirInv'
<1> USE DEF Session, At
<1>1. sender[s] \in CallRecords /\ KnowsNotes(sender[s])
  BY DEF PirInv
<1>2. PICK q \in {"check", "bcheck"} : /\ Move(s, q) /\ sender[s].pc = IF q = "check" THEN "session" ELSE "bsession"
  OBVIOUS
<1>3. MayBecome(sender[s], [sender[s] EXCEPT !.pc = q])
  BY <1>1, <1>2 DEF MayBecome, CallRecords, CallPcs, KnowsNotes, NoSend
<1> QED
  BY <1>2, <1>3, MovingOn DEF CallPcs

\* The scanned blocks and the nullifiers that the provider retains leave no gap: a note that was
\* unspent in the first and is not among the second is unspent through the latest of them.
LEMMA NoGapInNullifiers ==
  ASSUME PirInv, NEW s \in Senders, NEW earliest \in 1..(Tip + 1), NEW latest \in 1..Tip,
         Retained(s, earliest), \A n \in sender[s].notes : spentAt[n] > sender[s].from
  PROVE  \A n \in NotSeenSpent(s, earliest, latest) : spentAt[n] > latest
<1> SUFFICES ASSUME NEW n \in NotSeenSpent(s, earliest, latest) PROVE spentAt[n] > latest
  OBVIOUS
<1>1. n \in sender[s].notes /\ spentAt[n] \notin earliest..latest /\ n \in Notes /\ sender[s].from \in Nat
  BY DEF NotSeenSpent, PirInv, CallRecords
<1>2. spentAt[n] \in Nat /\ minedAt[n] \in Nat /\ spentAt[n] > minedAt[n] /\ minedAt[n] >= Activation
  BY <1>1 DEF PirInv, LedgerRight
<1>3. spentAt[n] > sender[s].from
  BY <1>1
<1>4. earliest <= spentAt[n]
  BY <1>1, <1>2, <1>3, PirAssumption DEF Retained
<1> QED
  BY <1>1, <1>2, <1>4, PirAssumption

\* The nullifier check keeps it: what it lets through is unspent as far as it covers.
LEMMA CheckKeeps ==
  ASSUME PirInv, NEW s \in Senders, Check(s, "check", "anchor") \/ Check(s, "bcheck", "balance")
  PROVE  PirInv'
<1>1. sender[s] \in CallRecords /\ KnowsNotes(sender[s]) /\ sender[s].pc \in {"check", "bcheck"}
  BY DEF PirInv, Check, At
<1>2. CASE Fails(s)
  BY <1>1, <1>2, FailingKeeps DEF NoSend, Check
<1>3. ASSUME NEW to \in {"anchor", "balance"}, sender[s].pc = (IF to = "anchor" THEN "check" ELSE "bcheck"),
             NEW earliest \in 1..(Tip + 1), NEW latest \in 1..Tip, Retained(s, earliest),
             NEW q \in {"gate", to}, q = "gate" => to = "anchor",
             Set(s, [sender[s] EXCEPT !.pc = q, !.notes = NotSeenSpent(s, earliest, latest), !.through = latest])
      PROVE PirInv'
  <2>1. \A n \in NotSeenSpent(s, earliest, latest) : spentAt[n] > latest
    BY <1>1, <1>3, NoGapInNullifiers DEF KnowsNotes
  <2>2. NotSeenSpent(s, earliest, latest) \subseteq Notes /\ latest \in Nat
    <3>1. sender[s].notes \subseteq Notes
      BY <1>1 DEF CallRecords
    <3>2. latest \in Nat
      BY PirAssumption
    <3> QED
      BY <3>1, <3>2 DEF NotSeenSpent
  <2>3. MayBecome(sender[s], [sender[s] EXCEPT !.pc = q, !.notes = NotSeenSpent(s, earliest, latest), !.through = latest])
    BY <1>1, <1>3, <2>1, <2>2 DEF MayBecome, CallRecords, CallPcs, KnowsNotes, NoSend
  <2> QED
    BY <1>3, <2>3, CallMoves DEF Set, Check
<1> QED
  BY <1>2, <1>3 DEF Check, At

\* Reading the anchor of the node's own chain keeps it.
LEMMA ReadRootKeeps == ASSUME PirInv, NEW s \in Senders, ReadRoot(s) PROVE PirInv'
<1>1. sender[s] \in CallRecords /\ KnowsNotes(sender[s]) /\ sender[s].pc = "anchor"
  BY DEF PirInv, ReadRoot, At
<1>2. CASE Fails(s)
  BY <1>1, <1>2, FailingKeeps DEF NoSend, ReadRoot
<1>3. ASSUME NEW h \in 1..Tip, AnchorUsable(s, h), Set(s, [sender[s] EXCEPT !.pc = "fetch", !.root = Root(h)])
      PROVE PirInv'
  <2>1. Root(h) \in past /\ Root(h) \in Nat \X Nat /\ Root(h)[1] = h
    <3>1. epoch[h] \in Nat /\ Root(h) \in past
      BY DEF PirInv, LedgerRight
    <3>2. h \in Nat
      BY PirAssumption
    <3> QED
      BY <3>1, <3>2 DEF Root
  <2>2. MayBecome(sender[s], [sender[s] EXCEPT !.pc = "fetch", !.root = Root(h)])
    BY <1>1, <1>3, <2>1 DEF MayBecome, CallRecords, CallPcs, KnowsNotes, NoSend, AnchorUsable
  <2> QED
    BY <1>3, <2>2, CallMoves DEF Set, ReadRoot
<1> QED
  BY <1>2, <1>3 DEF ReadRoot

\* Fetching the witnesses keeps it.
LEMMA FetchKeeps == ASSUME PirInv, NEW s \in Senders, Fetch(s) PROVE PirInv'
<1> USE DEF Fetch, At
<1>1. sender[s] \in CallRecords /\ KnowsNotes(sender[s]) /\ sender[s].pc = "fetch"
  BY DEF PirInv
<1>2. CASE Fails(s)
  BY <1>1, <1>2, FailingKeeps DEF NoSend
<1>3. CASE Move(s, "replace")
  <2>1. MayBecome(sender[s], [sender[s] EXCEPT !.pc = "replace"])
    BY <1>1 DEF MayBecome, CallRecords, CallPcs, KnowsNotes, NoSend
  <2> QED
    BY <1>3, <2>1, MovingOn DEF CallPcs
<1> QED
  BY <1>2, <1>3

\* The gate keeps it: it is passed without an anchor, or while one is stored.
LEMMA GateKeeps == ASSUME PirInv, NEW s \in Senders, Gate(s) PROVE PirInv'
<1> USE DEF Gate, At
<1>1. sender[s] \in CallRecords /\ sender[s].pc = "gate" /\ anchor \in Nat \X Nat
  BY DEF PirInv
<1>2. CASE Leave(s, "failed")
  BY <1>1, <1>2, FailingKeeps DEF NoSend
<1>3. ASSUME NEW root \in Nat \X Nat, root = NoAnchor \/ (root = anchor /\ anchor # NoAnchor),
             Set(s, [sender[s] EXCEPT !.pc = "propose", !.root = root])
      PROVE PirInv'
  <2>1. MayBecome(sender[s], [sender[s] EXCEPT !.pc = "propose", !.root = root])
    BY <1>1, <1>3 DEF MayBecome, CallRecords, CallPcs, KnowsNotes, NoSend
  <2> QED
    BY <1>3, <2>1, CallMoves DEF Set
<1>4. NoAnchor \in Nat \X Nat
  BY DEF NoAnchor
<1>5. Leave(s, "failed") \/ Set(s, [sender[s] EXCEPT !.pc = "propose", !.root = NoAnchor])
       \/ (anchor # NoAnchor /\ Set(s, [sender[s] EXCEPT !.pc = "propose", !.root = anchor]))
  BY DEF PirInv, LedgerRight
<1> QED
  BY <1>1, <1>2, <1>3, <1>4, <1>5

\* The proposal keeps it.
LEMMA ProposeIronwoodKeeps == ASSUME PirInv, NEW s \in Senders, ProposeIronwood(s) PROVE PirInv'
<1> USE DEF ProposeIronwood, At
<1>1. MayBecome(sender[s], [Idle EXCEPT !.pc = "failed"]) /\ MayBecome(sender[s], [Idle EXCEPT !.pc = "proposed"])
  BY DEF MayBecome, CallRecords, CallPcs, KnowsNotes, NoSend, Idle, NoAnchor
<1> QED
  BY <1>1, CallMoves DEF Leave, Set
\* Clearing the stored witnesses: whoever is past the gate with an anchor sees another send at it.
LEMMA ClearKeeps == ASSUME PirInv, NEW s \in Senders, ClearAndRead(s) PROVE PirInv'
<1> USE DEF ClearAndRead, At
<1>1. sender[s] \in CallRecords /\ KnownNotes \in SUBSET Notes /\ scanned \in Nat
      /\ \A n \in KnownNotes : spentAt[n] > scanned
  BY DEF KnownNotes, PirInv, LedgerRight
<1>2. PICK r \in CallRecords : /\ sender' = [sender EXCEPT ![s] = r] /\ r.pc \in {"gate", "session"}
                               /\ KnowsNotes(r)
  <2>1. CASE KnownNotes = {}
    <3>1. [sender[s] EXCEPT !.pc = "gate"] \in CallRecords /\ KnowsNotes([sender[s] EXCEPT !.pc = "gate"])
      BY <1>1 DEF CallRecords, CallPcs, KnowsNotes
    <3>2. [sender[s] EXCEPT !.pc = "gate"].pc = "gate"
      BY <1>1 DEF CallRecords
    <3> QED
      BY <2>1, <3>1, <3>2 DEF Move
  <2>2. CASE KnownNotes # {}
    <3> DEFINE r == [Idle EXCEPT !.pc = "session", !.notes = KnownNotes, !.from = scanned]
    <3>1. r \in CallRecords /\ KnowsNotes(r) /\ r.pc = "session"
      BY <1>1 DEF CallRecords, CallPcs, KnowsNotes, Idle, NoAnchor
    <3> QED
      BY <2>2, <3>1 DEF Set
  <2> QED
    BY <2>1, <2>2
<1>3. LedgerRight' /\ WitnessesUsable' /\ anchor' \in Nat \X Nat /\ witnessed' \subseteq Notes
  BY DEF PirInv, LedgerRight, Root, WitnessesUsable, AnchorFromOwnChain, WitnessedAreUnspent, ledgerVars, NoAnchor
<1>4. sender' \in [Senders -> CallRecords]
  BY <1>2 DEF PirInv
<1>5. ASSUME NEW t \in Senders PROVE KnowsNotes(sender[t])'
  BY <1>2, <1>5 DEF PirInv, KnowsNotes, ledgerVars
<1>6. GateHolds'
  BY <1>2 DEF PirInv, GateHolds
<1> QED
  BY <1>3, <1>4, <1>5, <1>6 DEF PirInv

\* Storing the witnesses of a call whose root was verified.
LEMMA ReplaceKeeps == ASSUME PirInv, NEW s \in Senders, Replace(s) PROVE PirInv'
<1> USE DEF Replace, At
<1>1. sender[s] \in CallRecords /\ KnowsNotes(sender[s]) /\ sender[s].pc = "replace"
  BY DEF PirInv
<1>2. WitnessesUsable' /\ anchor' \in Nat \X Nat /\ witnessed' \subseteq Notes
  <2>1. \A n \in sender[s].notes : n \in Notes /\ minedAt[n] \in Nat /\ spentAt[n] \in Nat
    BY <1>1 DEF PirInv, LedgerRight, CallRecords
  <2>2. sender[s].root \in Nat \X Nat /\ sender[s].root[1] \in Nat /\ sender[s].through \in Nat
    BY <1>1 DEF CallRecords
  <2> QED
    BY <1>1, <2>1, <2>2 DEF KnowsNotes, WitnessesUsable, AnchorFromOwnChain, WitnessedAreUnspent, ledgerVars
<1>3. LedgerRight'
  BY DEF PirInv, LedgerRight, Root, ledgerVars
<1>4. [Idle EXCEPT !.pc = "gate"] \in CallRecords /\ [Idle EXCEPT !.pc = "gate"].pc = "gate"
  BY DEF CallRecords, CallPcs, Idle, NoAnchor
<1>5. sender' \in [Senders -> CallRecords]
  BY <1>4 DEF PirInv, Leave, Set
<1>6. ASSUME NEW t \in Senders PROVE KnowsNotes(sender[t])'
  BY <1>4, <1>6 DEF PirInv, KnowsNotes, ledgerVars, Leave, Set
<1>7. GateHolds'
  BY <1>4 DEF PirInv, GateHolds, Leave, Set
<1> QED
  BY <1>2, <1>3, <1>5, <1>6, <1>7 DEF PirInv

\* A reorg adds roots to those the chain has had; scanning and the status change no call.
LEMMA AroundKeeps == ASSUME PirInv, Networking \/ Scan \/ StatusChange \/ Reorg PROVE PirInv'
<1>1. past \subseteq past' /\ UNCHANGED <<minedAt, spentAt, store, sender>>
  BY DEF Networking, Scan, StatusChange, Reorg, ledgerVars
<1>2. LedgerRight'
  <2>1. CASE Reorg
    <3>1. PICK k \in 1..Tip : /\ epoch' = [h \in 1..Tip |-> IF h >= k THEN 1 + epoch[Tip] ELSE epoch[h]]
                              /\ past' = past \cup {<<h, 1 + epoch[Tip]>> : h \in k..Tip}
      BY <2>1 DEF Reorg
    <3>2. epoch[Tip] \in Nat
      BY PirAssumption DEF PirInv, LedgerRight
    <3>3. epoch' \in [1..Tip -> Nat]
      BY <3>1, <3>2 DEF PirInv, LedgerRight
    <3>4. ASSUME NEW h \in 1..Tip PROVE <<h, epoch'[h]>> \in past'
      <4>1. CASE h >= k
        <5>1. h \in k..Tip
          BY <4>1
        <5> QED
          BY <3>1, <4>1, <5>1
      <4>2. CASE ~(h >= k)
        BY <3>1, <4>2 DEF PirInv, LedgerRight, Root
      <4> QED
        BY <4>1, <4>2
    <3> QED
      BY <1>1, <2>1, <3>3, <3>4 DEF PirInv, LedgerRight, Root, Reorg
  <2>2. CASE Networking \/ Scan \/ StatusChange
    BY <2>2, PirAssumption DEF PirInv, LedgerRight, Root, Networking, Scan, StatusChange, ledgerVars
  <2> QED
    BY <2>1, <2>2
<1>3. WitnessesUsable' /\ GateHolds' /\ anchor' \in Nat \X Nat /\ witnessed' \subseteq Notes
  BY <1>1 DEF PirInv, WitnessesUsable, AnchorFromOwnChain, WitnessedAreUnspent, GateHolds, At, store
<1>4. sender' \in [Senders -> CallRecords] /\ \A s \in Senders : KnowsNotes(sender[s])'
  BY <1>1 DEF PirInv, KnowsNotes
<1> QED
  BY <1>2, <1>3, <1>4 DEF PirInv

\* It is inductive.
LEMMA PirStep == PirInv /\ [PirNext]_pirVars => PirInv'
<1> SUFFICES ASSUME PirInv, [PirNext]_pirVars PROVE PirInv'
  OBVIOUS
<1>1. CASE UNCHANGED pirVars
  BY <1>1 DEF PirInv, LedgerRight, KnowsNotes, Root, WitnessesUsable, AnchorFromOwnChain, WitnessedAreUnspent,
              GateHolds, At, pirVars
<1>2. ASSUME NEW s \in Senders, Request(s) \/ Calculate(s) \/ SenderStep(s) \/ QueryTimeout(s) PROVE PirInv'
  <2>1. CASE SenderStep(s)
    BY <2>1, ClearKeeps, SessionKeeps, CheckKeeps, ReadRootKeeps, FetchKeeps, ReplaceKeeps, GateKeeps,
       ProposeIronwoodKeeps DEF SenderStep
  <2>2. CASE QueryTimeout(s)
    BY <2>2, FailingKeeps DEF QueryTimeout, NoSend
  <2> QED
    BY <1>2, <2>1, <2>2, RequestKeeps, CalculateKeeps
<1> QED
  BY <1>1, <1>2, AroundKeeps DEF PirNext

\* For any number of concurrent sends, any reorgs and whatever the provider answers, what
\* replace_all stores can be spent with: its anchor is of the node's own chain and its
\* notes are unspent through that anchor.
THEOREM WitnessesAreUsable == PirSpec => []WitnessesUsable
<1>1. PirInv => WitnessesUsable
  BY DEF PirInv
<1> QED
  BY <1>1, PirStarts, PirStep, PTL DEF PirSpec

\* While the wallet catches up, balances count only notes unspent as far as the provider
\* covers, and a send that passed the gate finds its anchor gone only while another send
\* prepares its own.
THEOREM CatchingUpIsSafe == PirSpec => []CatchUpSafe
<1>1. PirInv => CatchUpSafe
  BY DEF PirInv, CatchUpSafe, BalanceIsUnspent, KnowsNotes, At
<1> QED
  BY <1>1, PirStarts, PirStep, PTL DEF PirSpec
-----------------------------------------------------------------------------
(***************************************************************************)
(* What is broadcast is on record, for any number of calls, inputs, pool   *)
(* connections and proving slots.                                          *)
(***************************************************************************)
\* The awaits before there is a proposal, and those of a call whose transactions are stored.
Unproposed == {"new", "handle", "propose"}
Recorded == {"built", "opcast", "casthandle", "extracted", "cast"}
Casting == {"cast", "opcast"}
Underway ==
  {"enumerate", "unlock", "seed", "permit", "proving", "signhandle", "signunlock", "signseed",
   "extracthandle", "extractpermit", "extracting", "queued", "building"}

\* What the calls, the pool and the proving slots are made of.
Types ==
  /\ pc \in [Calls -> Unproposed \cup Underway \cup Recorded \cup Ended]
  /\ kind \in [Calls -> Kinds]
  /\ steps \in [Calls -> 0..2]
  /\ task \in [Calls -> Jobs]
  /\ net \subseteq Calls \X (1..2)

\* Where a call stands in its life, and what of it there may be by then.
Stands(c) ==
  /\ pc[c] \in Unproposed => steps[c] = 0
  /\ kind[c] = "prove" => pc[c] \in {"new", "permit", "proving"} \cup Ended
  /\ kind[c] # "prove" /\ pc[c] \in Underway \cup Recorded => steps[c] # 0
  /\ pc[c] \in Recorded => Txs(c) \subseteq stored
  /\ pc[c] \in Casting => c \in verified /\ broadcast /\ <<c, steps[c]>> \notin net

\* A closure outlives its future only if that was dropped.
ClosureIsOwn(c) ==
  /\ task[c] = "build" => pc[c] = "building"
  /\ task[c] = "extract" => pc[c] \in {"extracting", "dropped"}

\* What is on the network of a call.
OnNetwork(c) ==
  /\ c \in verified => Txs(c) \subseteq stored /\ pc[c] \in Casting \cup Ended
  /\ \A i \in 1..2 : <<c, i>> \in net => c \in verified /\ broadcast /\ i <= steps[c]
  /\ <<c, 2>> \in net => <<c, 1>> \in net
  /\ pc[c] = "sent" /\ kind[c] # "prove" =>
       /\ Txs(c) \subseteq stored
       /\ broadcast => Txs(c) \subseteq net

\* The inductive invariant.
SendInv == Types /\ \A c \in Calls : Stands(c) /\ ClosureIsOwn(c) /\ OnNetwork(c)

USE DEF Ended, Queued, Proving, Jobs, Unproposed, Recorded, Casting, Underway

\* Before any call, nothing is under way.
LEMMA SendStarts == SendInit => SendInv
BY DEF SendInit, SendInv, Types, Stands, ClosureIsOwn, OnNetwork, Txs

\* Call c moves on to q, with closure t, without proposing, verifying or sending, and stands right
\* where it goes.
MovesTo(c, q, t) ==
  /\ pc' = [pc EXCEPT ![c] = q] /\ task' = [task EXCEPT ![c] = t]
  /\ UNCHANGED <<broadcast, kind, steps, verified, net>> /\ stored \subseteq stored'
  /\ q \in Unproposed => pc[c] \in Unproposed
  /\ kind[c] = "prove" => q \in {"new", "permit", "proving"} \cup Ended
  /\ kind[c] # "prove" /\ q \in Underway \cup Recorded => pc[c] \in Underway \cup Recorded
  /\ q \in Recorded => pc[c] \in Recorded \/ Txs(c) \subseteq stored'
  /\ q \notin Casting
  /\ q \notin {"failed", "dropped"} => pc[c] \notin Casting \cup Ended
  /\ q = "sent" => kind[c] = "prove"
  /\ t = "build" => q = "building"
  /\ t = "extract" => q \in {"extracting", "dropped"}

\* Such a step keeps the invariant.
LEMMA Moving ==
  ASSUME NEW c \in Calls, NEW q \in Unproposed \cup Underway \cup Recorded \cup Ended,
         NEW t \in Jobs, SendInv, MovesTo(c, q, t)
  PROVE  SendInv'
<1>1. Types'
  BY DEF SendInv, Types, MovesTo
<1>2. \A d \in Calls : Txs(d)' = Txs(d)
  BY DEF Txs, MovesTo
<1>3. ASSUME NEW d \in Calls, d # c PROVE Stands(d)' /\ ClosureIsOwn(d)' /\ OnNetwork(d)'
  <2>1. pc'[d] = pc[d] /\ task'[d] = task[d]
    BY <1>3 DEF SendInv, Types, MovesTo
  <2> QED BY <1>2, <2>1 DEF SendInv, MovesTo, Stands, ClosureIsOwn, OnNetwork
<1>4. pc'[c] = q /\ task'[c] = t
  BY DEF SendInv, Types, MovesTo
<1>5. Stands(c)'
  BY <1>2, <1>4 DEF MovesTo, SendInv, Stands
<1>6. ClosureIsOwn(c)'
  BY <1>4 DEF MovesTo, ClosureIsOwn
<1>7. OnNetwork(c)'
  BY <1>2, <1>4 DEF MovesTo, SendInv, OnNetwork
<1> QED BY <1>1, <1>3, <1>5, <1>6, <1>7 DEF SendInv

\* A call that keeps its closure, or has none, may be seen as giving it the same one.
LEMMA SameTask ==
  ASSUME SendInv, NEW c \in Calls, UNCHANGED task
  PROVE  task[c] \in Jobs /\ task' = [task EXCEPT ![c] = task[c]]
BY DEF SendInv, Types

\* The awaits of a call up to the closure that builds or extracts, and its timeout.
LEMMA AwaitsKeep ==
  ASSUME SendInv, NEW c \in Calls,
         \/ Start(c) \/ GetHandle(c) \/ Enumerate(c) \/ Unlock(c, "unlock", "seed") \/ ReadSeed(c)
         \/ SignHandle(c) \/ Unlock(c, "signunlock", "signseed") \/ Sign(c) \/ ExtractHandle(c)
         \/ CastHandle(c) \/ Timeout(c)
  PROVE  SendInv'
<1> USE DEF Goto, End, proposalVars, ledger
<1>1. task' = [task EXCEPT ![c] = task[c]] /\ task[c] \in Jobs
  <2>1. UNCHANGED task
    BY DEF Start, GetHandle, Enumerate, Unlock, ReadSeed, SignHandle, Sign, ExtractHandle,
           CastHandle, Timeout
  <2> QED BY <2>1, SameTask
<1>2. Stands(c) /\ ClosureIsOwn(c) /\ OnNetwork(c)
  BY DEF SendInv
<1>3. CASE Start(c)
  <2>1. MovesTo(c, "failed", task[c]) \/ MovesTo(c, "handle", task[c]) \/ MovesTo(c, "permit", task[c])
    BY <1>1, <1>2, <1>3 DEF Start, MovesTo, Stands, ClosureIsOwn
  <2> QED BY <2>1, <1>1, Moving
<1>4. CASE GetHandle(c)
  <2>1. MovesTo(c, "propose", task[c])
    BY <1>1, <1>2, <1>4 DEF GetHandle, MovesTo, Stands, ClosureIsOwn
  <2> QED BY <2>1, <1>1, Moving
<1>5. CASE Enumerate(c)
  <2>1. MovesTo(c, "failed", task[c]) \/ MovesTo(c, "unlock", task[c])
    BY <1>1, <1>2, <1>5 DEF Enumerate, MovesTo, Stands, ClosureIsOwn
  <2> QED BY <2>1, <1>1, Moving
<1>6. CASE Unlock(c, "unlock", "seed")
  <2>1. MovesTo(c, "failed", task[c]) \/ MovesTo(c, "seed", task[c])
    BY <1>1, <1>2, <1>6 DEF Unlock, MovesTo, Stands, ClosureIsOwn
  <2> QED BY <2>1, <1>1, Moving
<1>7. CASE ReadSeed(c)
  <2>1. MovesTo(c, "permit", task[c]) \/ MovesTo(c, "queued", task[c]) \/ MovesTo(c, "failed", task[c])
    BY <1>1, <1>2, <1>7 DEF ReadSeed, MovesTo, Stands, ClosureIsOwn
  <2> QED BY <2>1, <1>1, Moving
<1>8. CASE SignHandle(c)
  <2>1. MovesTo(c, "signunlock", task[c])
    BY <1>1, <1>2, <1>8 DEF SignHandle, MovesTo, Stands, ClosureIsOwn
  <2> QED BY <2>1, <1>1, Moving
<1>9. CASE Unlock(c, "signunlock", "signseed")
  <2>1. MovesTo(c, "failed", task[c]) \/ MovesTo(c, "signseed", task[c])
    BY <1>1, <1>2, <1>9 DEF Unlock, MovesTo, Stands, ClosureIsOwn
  <2> QED BY <2>1, <1>1, Moving
<1>10. CASE Sign(c)
  <2>1. MovesTo(c, "extracthandle", task[c]) \/ MovesTo(c, "failed", task[c])
    BY <1>1, <1>2, <1>10 DEF Sign, MovesTo, Stands, ClosureIsOwn
  <2> QED BY <2>1, <1>1, Moving
<1>11. CASE ExtractHandle(c)
  <2>1. MovesTo(c, "extractpermit", task[c])
    BY <1>1, <1>2, <1>11 DEF ExtractHandle, MovesTo, Stands, ClosureIsOwn
  <2> QED BY <2>1, <1>1, Moving
<1>12. CASE CastHandle(c)
  <2>1. MovesTo(c, "extracted", task[c])
    BY <1>1, <1>2, <1>12 DEF CastHandle, MovesTo, Stands, ClosureIsOwn
  <2> QED BY <2>1, <1>1, Moving
<1>13. CASE Timeout(c)
  <2>1. MovesTo(c, "dropped", task[c])
    BY <1>1, <1>2, <1>13 DEF Timeout, MovesTo, Stands, ClosureIsOwn
  <2> QED BY <2>1, <1>1, Moving
<1> QED BY <1>3, <1>4, <1>5, <1>6, <1>7, <1>8, <1>9, <1>10, <1>11, <1>12, <1>13

\* The steps that start a blocking closure, or get its answer.
LEMMA ClosuresKeep ==
  ASSUME SendInv, NEW c \in Calls, Prove(c) \/ Proved(c) \/ Extract(c) \/ Build(c) \/ Store(c)
  PROVE  SendInv'
<1> USE DEF Goto, End, proposalVars, ledger
<1>1. Stands(c) /\ ClosureIsOwn(c) /\ OnNetwork(c)
  BY DEF SendInv
<1>2. pc[c] \in Unproposed \cup Underway \cup Recorded \cup Ended /\ pc = [pc EXCEPT ![c] = pc[c]]
  BY DEF SendInv, Types
<1>3. CASE Prove(c)
  <2>1. MovesTo(c, "proving", "prove")
    BY <1>1, <1>3 DEF Prove, MovesTo, Stands, ClosureIsOwn
  <2> QED BY <2>1, Moving
<1>4. CASE Proved(c)
  <2>1. MovesTo(c, "failed", "none") \/ MovesTo(c, "sent", "none") \/ MovesTo(c, "signhandle", "none")
          \/ (UNCHANGED pc /\ pc[c] # "proving")
    BY <1>1, <1>4 DEF Proved, MovesTo, Stands, ClosureIsOwn
  <2>2. ASSUME UNCHANGED pc PROVE SendInv'
    <3>1. \A d \in Calls : Txs(d)' = Txs(d)
      BY <1>4 DEF Proved, Txs
    <3> QED BY <1>4, <2>2, <3>1 DEF Proved, SendInv, Types, Stands, ClosureIsOwn, OnNetwork
  <2> QED BY <2>1, <2>2, Moving
<1>5. CASE Extract(c)
  <2>1. MovesTo(c, "extracting", "extract")
    BY <1>1, <1>5 DEF Extract, MovesTo, Stands, ClosureIsOwn
  <2> QED BY <2>1, Moving
<1>6. CASE Build(c)
  <2>1. MovesTo(c, "building", "build")
    BY <1>1, <1>6 DEF Build, MovesTo, Stands, ClosureIsOwn
  <2> QED BY <2>1, Moving
<1>7. CASE Store(c)
  <2>1. pc[c] \in {"building", "extracting", "dropped"}
    BY <1>1, <1>7 DEF Store, ClosureIsOwn
  <2>2. MovesTo(c, "failed", "none") \/ MovesTo(c, "dropped", "none") \/ MovesTo(c, "built", "none")
          \/ MovesTo(c, "casthandle", "none")
    BY <1>1, <1>2, <1>7, <2>1 DEF Store, MovesTo, Stands, ClosureIsOwn
  <2> QED BY <2>2, Moving
<1> QED BY <1>3, <1>4, <1>5, <1>6, <1>7

\* A proposal gives a call its transactions, none of which is anywhere yet.
LEMMA ProposeKeeps ==
  ASSUME SendInv, NEW c \in Calls, Propose(c)
  PROVE  SendInv'
<1> USE DEF Goto, End, proposalVars, ledger
<1>1. CASE End(c, "failed") /\ UNCHANGED steps
  <2>1. MovesTo(c, "failed", task[c])
    <3>1. task' = [task EXCEPT ![c] = task[c]]
      BY SameTask DEF Propose
    <3> QED BY <1>1, <3>1 DEF Propose, MovesTo, SendInv, Stands, ClosureIsOwn
  <2> QED BY <2>1, Moving DEF SendInv, Types
<1>2. CASE ~(End(c, "failed") /\ UNCHANGED steps)
  <2>1. PICK n \in 1..2 : steps' = [steps EXCEPT ![c] = n]
    BY <1>2 DEF Propose
  <2>2. PICK q \in {"enumerate", "unlock"} : pc' = [pc EXCEPT ![c] = q]
    BY <1>2 DEF Propose
  <2>3. UNCHANGED <<broadcast, kind, task, stored, verified, net>>
    BY DEF Propose
  <2>4. Types'
    BY <2>1, <2>2, <2>3 DEF SendInv, Types
  <2>5. ASSUME NEW d \in Calls, d # c PROVE Stands(d)' /\ ClosureIsOwn(d)' /\ OnNetwork(d)'
    <3>1. pc'[d] = pc[d] /\ steps'[d] = steps[d]
      BY <2>1, <2>2, <2>5 DEF SendInv, Types
    <3>2. Txs(d)' = Txs(d)
      BY <3>1 DEF Txs
    <3> QED BY <2>3, <3>1, <3>2 DEF SendInv, Stands, ClosureIsOwn, OnNetwork
  <2>6. pc[c] = "propose" /\ pc'[c] = q /\ steps'[c] = n
    BY <2>1, <2>2 DEF SendInv, Types, Propose
  <2>7. c \notin verified /\ kind[c] # "prove" /\ task[c] \notin {"build", "extract"}
    BY <2>6 DEF SendInv, Stands, ClosureIsOwn, OnNetwork
  <2>8. Stands(c)' /\ ClosureIsOwn(c)'
    BY <2>3, <2>6, <2>7 DEF Stands, ClosureIsOwn
  <2>9. OnNetwork(c)'
    BY <2>3, <2>6, <2>7 DEF SendInv, OnNetwork
  <2> QED BY <2>4, <2>5, <2>8, <2>9 DEF SendInv
<1> QED BY <1>1, <1>2

\* Verification marks a call whose transactions are stored.
LEMMA VerifyKeeps ==
  ASSUME SendInv, NEW c \in Calls, Verify(c)
  PROVE  SendInv'
<1> USE DEF Goto, End, proposalVars, ledger
<1>1. UNCHANGED <<broadcast, kind, steps, task, stored, net>> /\ pc[c] \in {"built", "extracted"}
  BY DEF Verify
<1>2. PICK q \in Casting \cup {"failed", "sent"} :
        /\ pc' = [pc EXCEPT ![c] = q]
        /\ verified' = IF q = "failed" THEN verified ELSE verified \cup {c}
        /\ q \in Casting => broadcast
        /\ q = "sent" => ~broadcast
  BY <1>1 DEF Verify
<1>3. Types'
  BY <1>1, <1>2 DEF SendInv, Types
<1>4. \A d \in Calls : Txs(d)' = Txs(d)
  BY <1>1 DEF Txs
<1>5. ASSUME NEW d \in Calls, d # c PROVE Stands(d)' /\ ClosureIsOwn(d)' /\ OnNetwork(d)'
  <2>1. pc'[d] = pc[d] /\ (d \in verified' <=> d \in verified)
    BY <1>2, <1>5 DEF SendInv, Types
  <2> QED BY <1>1, <1>4, <2>1 DEF SendInv, Stands, ClosureIsOwn, OnNetwork
<1>6. pc'[c] = q
  BY <1>2 DEF SendInv, Types
<1>7. Txs(c) \subseteq stored /\ kind[c] # "prove" /\ c \notin verified /\ steps[c] \in 1..2
  <2>1. steps[c] \in 0..2
    BY DEF SendInv, Types
  <2>2. Stands(c) /\ OnNetwork(c)
    BY DEF SendInv
  <2> QED BY <1>1, <2>1, <2>2 DEF Stands, OnNetwork
<1>8. \A i \in 1..2 : <<c, i>> \notin net
  BY <1>7 DEF SendInv, OnNetwork
<1>9. ClosureIsOwn(c)'
  BY <1>1, <1>6 DEF SendInv, ClosureIsOwn
<1>10. Stands(c)'
  BY <1>1, <1>2, <1>4, <1>6, <1>7, <1>8 DEF SendInv, Stands
<1>11. OnNetwork(c)'
  BY <1>1, <1>2, <1>4, <1>6, <1>7, <1>8 DEF OnNetwork
<1> QED BY <1>3, <1>5, <1>9, <1>10, <1>11 DEF SendInv

\* The transaction whose turn it is: the loop counts those the node already has.
Turn(c) == Cardinality(Txs(c) \cap net) + 1

\* It is the first that the node does not have.
LEMMA TurnIsFirst ==
  ASSUME SendInv, NEW c \in Calls, pc[c] \in Casting
  PROVE  /\ Turn(c) \in 1..steps[c] /\ <<c, Turn(c)>> \notin net
         /\ Turn(c) = 2 => <<c, 1>> \in net
         /\ Turn(c) = 1 => <<c, 1>> \notin net
<1>1. steps[c] \in 1..2 /\ <<c, steps[c]>> \notin net
  BY DEF SendInv, Types, Stands
<1>2. CASE <<c, 1>> \notin net
  <2>1. Txs(c) \cap net = {}
    BY <1>1, <1>2 DEF Txs
  <2>2. Turn(c) = 1
    BY <2>1, FS_EmptySet DEF Turn
  <2> QED BY <1>1, <1>2, <2>2
<1>3. CASE <<c, 1>> \in net
  <2>1. steps[c] = 2 /\ <<c, 2>> \notin net
    BY <1>1, <1>3
  <2>2. Txs(c) \cap net = {<<c, 1>>}
    BY <1>3, <2>1 DEF Txs
  <2>3. Cardinality({<<c, 1>>}) = 1
    BY FS_Singleton, Zenon
  <2>4. Turn(c) = 2
    BY <2>2, <2>3 DEF Turn
  <2> QED BY <1>3, <2>1, <2>4
<1> QED BY <1>2, <1>3

\* A broadcast puts the call's next transaction on the network, and ends the call with the last.
LEMMA CastKeeps ==
  ASSUME SendInv, NEW c \in Calls, Cast(c)
  PROVE  SendInv'
<1> USE DEF Goto, End, proposalVars, ledger
<1>1. UNCHANGED <<broadcast, kind, steps, task, stored, verified>> /\ pc[c] \in Casting
  BY DEF Cast
<1>2. \A d \in Calls : Txs(d)' = Txs(d)
  BY <1>1 DEF Txs
<1>3. /\ Turn(c) \in 1..steps[c] /\ <<c, Turn(c)>> \notin net
      /\ Turn(c) = 2 => <<c, 1>> \in net
      /\ Turn(c) = 1 => <<c, 1>> \notin net
  BY <1>1, TurnIsFirst
<1>4. Stands(c) /\ ClosureIsOwn(c) /\ OnNetwork(c)
  BY DEF SendInv
<1>5. steps[c] \in 1..2 /\ c \in verified /\ broadcast /\ Txs(c) \subseteq stored
  <2>1. steps[c] \in 0..2
    BY DEF SendInv, Types
  <2> QED BY <1>1, <1>4, <2>1 DEF Stands
<1>6. PICK q \in Casting \cup {"failed", "sent"} :
        /\ pc' = [pc EXCEPT ![c] = q]
        /\ q \in Casting => net' = net \cup {<<c, Turn(c)>>} /\ Turn(c) # steps[c]
        /\ q = "sent" => net' = net \cup {<<c, Turn(c)>>} /\ Turn(c) = steps[c]
        /\ net' \in {net, net \cup {<<c, Turn(c)>>}}
  <2>1. pc = [pc EXCEPT ![c] = pc[c]]
    BY DEF SendInv, Types
  <2> QED BY <1>1, <2>1 DEF Cast, Turn
<1>7. Types'
  BY <1>1, <1>3, <1>5, <1>6 DEF SendInv, Types
<1>8. ASSUME NEW d \in Calls, d # c PROVE Stands(d)' /\ ClosureIsOwn(d)' /\ OnNetwork(d)'
  <2>1. pc'[d] = pc[d]
    BY <1>6, <1>8 DEF SendInv, Types
  <2>2. \A i : <<d, i>> \in net' <=> <<d, i>> \in net
    BY <1>6, <1>8
  <2>3. Txs(d) \subseteq net => Txs(d) \subseteq net'
    BY <1>6
  <2> QED BY <1>1, <1>2, <2>1, <2>2, <2>3 DEF SendInv, Stands, ClosureIsOwn, OnNetwork
<1>9. pc'[c] = q
  BY <1>6 DEF SendInv, Types
<1>10. ClosureIsOwn(c)'
  BY <1>1, <1>4, <1>9 DEF ClosureIsOwn
<1>11. Stands(c)'
  BY <1>1, <1>2, <1>3, <1>4, <1>5, <1>6, <1>9 DEF Stands
<1>12. OnNetwork(c)'
  <2>1. ASSUME q = "sent" PROVE Txs(c) \subseteq net'
    BY <1>3, <1>5, <1>6, <2>1 DEF Txs
  <2>2. \A i \in 1..2 : <<c, i>> \in net' => i <= steps[c]
    BY <1>3, <1>4, <1>5, <1>6 DEF OnNetwork
  <2>3. <<c, 2>> \in net' => <<c, 1>> \in net'
    BY <1>3, <1>4, <1>5, <1>6 DEF OnNetwork
  <2> QED BY <1>1, <1>2, <1>5, <1>9, <2>1, <2>2, <2>3 DEF OnNetwork
<1> QED BY <1>7, <1>8, <1>10, <1>11, <1>12 DEF SendInv

\* Every step keeps the invariant; expiry and the wallet's lock have no part in it.
LEMMA SendStep == SendInv /\ [SendNext]_sendVars => SendInv'
<1> SUFFICES ASSUME SendInv, [SendNext]_sendVars PROVE SendInv'
  OBVIOUS
<1>1. ASSUME UNCHANGED <<broadcast, kind, pc, steps, task, stored, verified, net>> PROVE SendInv'
  BY <1>1 DEF SendInv, Types, Stands, ClosureIsOwn, OnNetwork, Txs
<1>2. ASSUME NEW c \in Calls, Start(c) \/ CallStep(c) \/ Timeout(c) \/ Expire(c) PROVE SendInv'
  <2>1. CASE Expire(c)
    BY <1>1, <2>1 DEF Expire, proposalVars, ledger
  <2> QED BY <1>2, <2>1, AwaitsKeep, ClosuresKeep, ProposeKeeps, VerifyKeeps, CastKeeps DEF CallStep
<1>3. CASE ToggleLock
  BY <1>1, <1>3 DEF ToggleLock, proposalVars, ledger
<1>4. CASE UNCHANGED sendVars
  BY <1>1, <1>4 DEF sendVars
<1> QED BY <1>2, <1>3, <1>4 DEF SendNext

\* Only a broadcast changes what the node has, and only of its own call.
LEMMA OnlyCastSends ==
  ASSUME SendInv, [SendNext]_sendVars, NEW c \in Calls, pc[c] = "dropped"
  PROVE  net' \cap Txs(c) = net \cap Txs(c)
<1> USE DEF proposalVars, ledger
<1>1. CASE UNCHANGED net
  BY <1>1
<1>2. ASSUME NEW d \in Calls, Cast(d) PROVE net' \cap Txs(c) = net \cap Txs(c)
  <2>1. d # c
    BY <1>2 DEF Cast
  <2>2. PICK i : net' \in {net, net \cup {<<d, i>>}}
    BY <1>2 DEF Cast
  <2>3. \A j : <<d, j>> \notin Txs(c)
    BY <2>1 DEF Txs
  <2> QED BY <2>2, <2>3
<1>3. UNCHANGED net \/ \E d \in Calls : Cast(d)
  BY DEF SendNext, CallStep, Start, GetHandle, Propose, Enumerate, Unlock, ReadSeed, Prove, Proved,
         SignHandle, Sign, ExtractHandle, Extract, Build, Store, CastHandle, Verify, Timeout, Expire,
         ToggleLock, sendVars
<1> QED BY <1>1, <1>2, <1>3

\* What is on the network is on record and verified, a call reported as sent sent all it should,
\* and a call dropped by the timeout broadcasts nothing more: for any number of concurrent calls.
THEOREM SpendsRecorded == SendSpec => SpendsAreRecorded
<1>1. SendInv => OnRecordBeforeBroadcast /\ SentMeansSent
  <2> SUFFICES ASSUME SendInv, NEW c \in Calls
               PROVE  /\ Txs(c) \cap net # {} => Txs(c) \subseteq stored /\ c \in verified
                      /\ <<c, 2>> \in net => <<c, 1>> \in net
                      /\ pc[c] = "sent" /\ kind[c] # "prove" =>
                           Txs(c) \subseteq stored /\ net \cap Txs(c) = IF broadcast THEN Txs(c) ELSE {}
    BY DEF OnRecordBeforeBroadcast, SentMeansSent
  <2>1. OnNetwork(c) /\ steps[c] \in 0..2
    BY DEF SendInv, Types
  <2>2. \A x \in Txs(c) : \E i \in 1..2 : x = <<c, i>>
    BY <2>1 DEF Txs
  <2> QED BY <2>1, <2>2 DEF OnNetwork
<1>2. SendInv /\ [SendNext]_sendVars =>
        [\A c \in Calls : pc[c] = "dropped" => net' \cap Txs(c) = net \cap Txs(c)]_sendVars
  BY OnlyCastSends
<1> QED BY SendStarts, SendStep, <1>1, <1>2, PTL DEF SendSpec, SpendsAreRecorded, DroppedStaysQuiet
=============================================================================
