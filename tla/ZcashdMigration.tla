---------------------------- MODULE ZcashdMigration ----------------------------
(* `migrate-zcashd-wallet`: a zcashd wallet becomes accounts of the wallet   *)
(* database and secrets of the keystore, in separate writes.  The command    *)
(* takes no lock on the data directory, so runs of it may overlap; a run may *)
(* fail at every write and may be killed between any two.                    *)
EXTENDS Integers, FiniteSets, FiniteSetsExt

CONSTANTS Runs,       \* invocations of the command
          Documents,  \* the wallets that may be on disk
          Activation, \* Sapling's activation height
          Network     \* the network of the wallet database

\* A run also stands for the seed minted for it, which is not the wallet's own.
ASSUME MigAssumption == Activation \in Nat /\ \A r \in Runs : r \notin {"none", "wallet", "legacy"}

VARIABLES wallet,   \* the wallet.dat all runs read, as a document
          chain,    \* block -> its main-chain height, for the main chain's blocks
          held,     \* the seeds in the keystore
          keyring,  \* the standalone keys in the keystore
          imports,  \* the imports committed: who, under which seed, with what
          run       \* Runs -> where it is

migVars == <<wallet, chain, held, keyring, imports, run>>

\* A document: seed is "mnemonic", "legacy" or "none"; legacyAccount says whether it has the
\* synthesized legacy account; keys are its standalone transparent keys ("uncompressed" is one
\* that cannot be registered), sprout is an account of an unsupported kind, watch its watch-only public keys,
\* blocks the blocks of its transactions and expiry the expiry heights of those; net is its
\* network, and file how its file reads: "plain", "encrypted" or, only leniently, "flawed".
NotYet == [pc |-> "idle", fp |-> "none", minted |-> FALSE, multi |-> FALSE, partial |-> FALSE,
           scan |-> TRUE, reminded |-> FALSE, kept |-> FALSE, birthday |-> 0, tries |-> 0, exported |-> 0]

Busy == {"dump", "passphrase", "export", "check", "birthday", "seed", "keys", "import", "undo", "watch", "report"}

MigInit ==
  /\ wallet \in Documents
  /\ chain \in UNION {[b -> 1..3] : b \in SUBSET wallet.blocks}
  /\ held = {} /\ keyring = {} /\ imports = {}
  /\ run = [r \in Runs |-> NotYet]

To(r, pc) == run' = [run EXCEPT ![r].pc = pc]
Written == <<held, keyring, imports>>
Input == <<wallet, chain>>

-----------------------------------------------------------------------------

\* The seed accounts derive from: the mnemonic, the one zcashd would derive from a legacy seed,
\* or none.
MnemonicFp == IF wallet.seed \in {"mnemonic", "legacy"} THEN "wallet" ELSE "none"

\* A legacy account without derivation is given a freshly minted mnemonic.
Minted(r) == MnemonicFp = "none" /\ wallet.legacyAccount

\* The beta flag, the chain unless --no-scan, and the database.
StartRun(r) ==
  /\ run[r].pc = "idle"
  /\ \E multi, partial, scan \in BOOLEAN :
       \/ run' = [run EXCEPT ![r] = [NotYet EXCEPT !.pc = "dump", !.multi = multi, !.partial = partial,
                                                   !.scan = scan]]
       \/ To(r, "failed")
  /\ UNCHANGED Input /\ UNCHANGED Written

\* dump_wallet: the file's path, db_dump, and a parse that is strict unless --allow-warnings.
DumpWallet(r) ==
  /\ run[r].pc = "dump"
  /\ \/ To(r, IF wallet.file = "encrypted" THEN "passphrase" ELSE "export")
     \/ To(r, "failed")
  /\ UNCHANGED Input /\ UNCHANGED Written

MaxTries == 3

\* A wrong passphrase is asked for again, MaxTries times in all.
EnterPassphrase(r) ==
  /\ run[r].pc = "passphrase"
  /\ \/ To(r, "export")
     \/ run' = [run EXCEPT ![r].tries = @ + 1,
                           ![r].pc = IF run[r].tries + 1 < MaxTries THEN "passphrase" ELSE "failed"]
  /\ UNCHANGED Input /\ UNCHANGED Written

CheckNetwork == wallet.net = Network

\* The tip of the chain, or the latest expiry height, or Sapling's activation.
ExportHeight(r, tip) ==
  LET known == {e \in wallet.expiry : e > 0}
  IN IF run[r].scan THEN tip ELSE IF known = {} THEN Activation ELSE Max(known)

\* The document: another network, a failing chain or encrypted secrets end the run here.
ExportDocument(r) ==
  /\ run[r].pc = "export"
  /\ \/ /\ CheckNetwork
        /\ run' = [run EXCEPT ![r].pc = "check", ![r].exported = ExportHeight(r, 3), ![r].minted = Minted(r),
                              ![r].fp = IF Minted(r) THEN r ELSE MnemonicFp]
     \/ To(r, "failed")
  /\ UNCHANGED Input /\ UNCHANGED Written

Existing == {i.fp : i \in imports} \ {"none"}

\* A second zcashd wallet needs a flag, and the same wallet is refused.
Allowed(r) == Existing # {} => run[r].multi /\ run[r].fp \notin Existing

CheckImported(r) ==
  /\ run[r].pc = "check"
  /\ To(r, IF Allowed(r) THEN "birthday" ELSE "failed")
  /\ UNCHANGED Input /\ UNCHANGED Written

LatestBlock(tip) == Max({Activation} \cup {chain[b] : b \in DOMAIN chain})

\* The earliest main-chain block of a transaction, or the tip; never before Sapling.
EarliestBlock(tip) ==
  LET known == {chain[b] : b \in DOMAIN chain}
  IN Max({Activation, IF known = {} THEN tip ELSE Min(known)})

\* Without a chain: the earliest expiry less a margin, saturating, never before Sapling.
EstimatedBirthday(margin) ==
  LET known == {e \in wallet.expiry : e > 0}
  IN IF known = {} THEN Activation ELSE Max({Activation, Max({0, Min(known) - margin})})

\* A failing or lagging chain ends the run; an unknown block is ignored.
Birthday(r) ==
  /\ run[r].pc = "birthday"
  /\ \/ run' = [run EXCEPT ![r].pc = "seed",
                           ![r].birthday = IF run[r].scan THEN EarliestBlock(3)
                                                          ELSE EstimatedBirthday(1)]
     \/ run[r].scan /\ To(r, "failed")
  /\ UNCHANGED Input /\ UNCHANGED Written

-----------------------------------------------------------------------------

SeedsToStore(r) == ({run[r].fp} \ {"none"}) \cup (IF wallet.seed = "legacy" THEN {"legacy"} ELSE {})

\* Seeds first, one by one.  A seed is written before its fingerprint is checked.
StoreSeed(r) ==
  /\ run[r].pc = "seed"
  /\ \/ held' = held \cup SeedsToStore(r) /\ To(r, "keys")
     \/ \E some \in SUBSET SeedsToStore(r) : held' = held \cup some /\ To(r, "undo")
  /\ UNCHANGED <<keyring, imports>> /\ UNCHANGED Input

\* Then each standalone key; one that does not decode or match leaves the earlier ones behind.
StoreKeys(r) ==
  /\ run[r].pc = "keys"
  /\ \/ keyring' = keyring \cup wallet.keys /\ To(r, "import")
     \/ \E some \in SUBSET wallet.keys : keyring' = keyring \cup some /\ To(r, "undo")
  /\ UNCHANGED <<held, imports>> /\ UNCHANGED Input

\* What the importer can take: accounts with a seed; compressed keys of an account it took.
TakesAccount(r) == wallet.legacyAccount /\ run[r].fp # "none"
TakenKeys(r) == IF TakesAccount(r) THEN wallet.keys \ {"uncompressed"} ELSE {}

\* One transaction; a seed's account that exists already fails it.
Import(r) ==
  /\ run[r].pc = "import"
  /\ \/ /\ run[r].fp \notin Existing
        /\ imports' = imports \cup {[by |-> r, keys |-> TakenKeys(r), watch |-> FALSE,
                                     fp |-> IF TakesAccount(r) THEN run[r].fp ELSE "none"]}
        /\ To(r, "watch")
     \/ UNCHANGED imports /\ To(r, "undo")
  /\ UNCHANGED <<held, keyring>> /\ UNCHANGED Input

\* seed_is_referenced.
Referenced(r) == \E i \in imports : i.fp = run[r].fp

UndoAlways(r) ==
  /\ run[r].pc = "undo"
  /\ held' = held \ {run[r].fp} /\ To(r, "failed")
  /\ UNCHANGED <<keyring, imports>> /\ UNCHANGED Input

UndoNothing(r) ==
  /\ run[r].pc = "undo"
  /\ To(r, "failed")
  /\ UNCHANGED Input /\ UNCHANGED Written

\* Only a minted seed that no account derives from is removed; a failed removal is only a warning.
Undo(r) ==
  LET removes == run[r].minted /\ ~Referenced(r)
  IN /\ run[r].pc = "undo"
     /\ \/ held' = (IF removes THEN held \ {run[r].fp} ELSE held) /\ To(r, "failed")
        \/ /\ removes /\ UNCHANGED held
           /\ run' = [run EXCEPT ![r].pc = "failed", ![r].kept = TRUE]
     /\ UNCHANGED <<keyring, imports>> /\ UNCHANGED Input

-----------------------------------------------------------------------------

Mine(r) == {i \in imports : i.by = r}

\* After the commit: watch-only keys of the account that was taken.
RegisterWatch(r) ==
  /\ run[r].pc = "watch"
  /\ \/ /\ imports' = {IF i.by = r THEN [i EXCEPT !.watch = wallet.watch /\ i.fp # "none"] ELSE i :
                       i \in imports}
        /\ To(r, "report")
     \/ UNCHANGED imports /\ To(r, "failed")
  /\ UNCHANGED <<held, keyring>> /\ UNCHANGED Input

LeftBehindAccounts(r) == wallet.sprout

\* Accounts and spending keys the importer skipped.
LeftBehind(r) == wallet.sprout \/ \E i \in Mine(r) : wallet.keys # i.keys

NothingImported(r) ==
  /\ wallet.legacyAccount \/ wallet.sprout
  /\ \A i \in Mine(r) : i.fp = "none"

\* check_import_report, then the reminder.
CheckReport(r) ==
  /\ run[r].pc = "report"
  /\ IF NothingImported(r) \/ (LeftBehind(r) /\ ~run[r].partial)
     THEN To(r, "failed")
     ELSE run' = [run EXCEPT ![r].pc = "done", ![r].reminded = TRUE]
  /\ UNCHANGED Input /\ UNCHANGED Written

Kill(r) ==
  /\ run[r].pc \in Busy
  /\ To(r, "killed")
  /\ UNCHANGED Input /\ UNCHANGED Written

MigNext ==
  \E r \in Runs :
    \/ StartRun(r) \/ DumpWallet(r) \/ EnterPassphrase(r) \/ ExportDocument(r) \/ CheckImported(r) \/ Birthday(r) \/ StoreSeed(r) \/ StoreKeys(r) \/ Import(r)
    \/ Undo(r) \/ RegisterWatch(r) \/ CheckReport(r) \/ Kill(r)

MigSpec == MigInit /\ [][MigNext]_migVars

-----------------------------------------------------------------------------

\* No account without its secrets: the seed an imported account derives from, and the standalone
\* keys registered with it, are in the keystore, whatever other run fails and is undone, and
\* wherever a run was killed (secrets before import_wallet, remove_provisional_mnemonic).
ImportedAreHeld ==
  \A i \in imports : (i.fp # "none" => i.fp \in held) /\ i.keys \subseteq keyring

\* Retried migrations do not pile up seeds: once a run is over, a seed minted for it is in the
\* keystore only under an account, unless the run was killed or the removal itself failed.
NoOrphanSeeds ==
  \A r \in Runs :
    (run[r].minted /\ run[r].pc \in {"failed", "done"} /\ ~run[r].kept) =>
      (r \in held <=> Referenced(r))

\* A run that reports success without --allow-partial-import left no account and no spending key
\* of the wallet behind (check_import_report).
SuccessIsComplete ==
  \A r \in Runs :
    (run[r].pc = "done" /\ ~run[r].partial) =>
      /\ ~wallet.sprout
      /\ \E i \in Mine(r) : i.keys = wallet.keys /\ (wallet.legacyAccount => i.fp # "none")

\* A scan from the birthday a run chose meets every main-chain block that holds a transaction of
\* the wallet, Sapling's activation on (the earliest resolved height).
BirthdayCoversHistory ==
  \A r \in Runs : (run[r].pc \in {"seed", "keys", "import", "watch", "report", "done"} /\ run[r].scan) =>
    \A b \in DOMAIN chain : chain[b] >= Activation => run[r].birthday <= chain[b]

\* What is imported is of the database's own network (check_network).
ImportedOnNetwork == imports # {} => CheckNetwork

\* "The backup reminder is printed before propagating any error from these steps": a run that
\* fails after its import committed has printed the reminder.
RemindedBeforeError ==
  \A r \in Runs : (run[r].pc = "failed" /\ Mine(r) # {}) => run[r].reminded

\* Whatever fails or is killed, a migration leaves accounts with their secrets and no stray seeds,
\* and says it succeeded only when nothing is missing.
MigrationSound ==
  ImportedAreHeld /\ ImportedOnNetwork /\ NoOrphanSeeds /\ SuccessIsComplete /\ BirthdayCoversHistory
=============================================================================
