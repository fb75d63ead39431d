------------------------------ MODULE WalletKeys ------------------------------
(* The keys of a wallet: the encryption identity on disk, the keystore's    *)
(* recipients, mnemonics and standalone keys, the accounts of the wallet    *)
(* database, and the viewing keys the sync engine decrypts blocks with.     *)
(* Commands hold the data directory's lock and so run while no node does;   *)
(* the account and import RPCs run concurrently with each other and with    *)
(* scanning, and are dropped at an await when the server's timeout expires. *)
EXTENDS Integers, FiniteSets, FiniteSetsExt, Functions, Sequences

CONSTANTS Seeds,        \* mnemonics, by fingerprint
          MaxIndex,     \* bound: ZIP 32 account indexes
          Imported,     \* standalone Sapling keys
          RpcCalls,     \* the calls in flight at once
          TipHeight,    \* blocks 1..TipHeight exist
          InboxSize,    \* bound: what the decryptor's channel holds
          RequireBackup \* keystore.require_backup

VARIABLES identity,    \* the identity file: 0 when there is none
          recipients,  \* the identity the keystore encrypts to, 0 before initialization
          seeds,       \* Seeds -> [to, confirmed]; to = 0 when not stored
          sealed,      \* Imported -> the identity its spending key is encrypted to, 0 if absent
          accounts,    \* the accounts of the wallet database
          running,     \* a node holds the data directory's lock
          locked,      \* the age identities are not in memory
          loaded,      \* the keys the decryptor's engine holds
          inbox,       \* what is queued for the engine: heights, and 0 for a reload
          unscanned,   \* the heights the scan queue still asks for
          seen,        \* height -> the keys it was last decrypted with
          rpc          \* the calls

dbVars == <<seeds, sealed, accounts, unscanned, seen>>
keyVars == <<identity, recipients, seeds, sealed, accounts, running, locked, loaded, inbox,
             unscanned, seen, rpc>>

Blocks == 1..TipHeight
Derived == Seeds \X (0..MaxIndex)
KeysOf(kind) == IF kind \in {"importkey", "importviewkey"} THEN Imported ELSE Derived
RpcKinds == {"newaccount", "recover", "importkey", "importviewkey"}

ASSUME KeysAssumption ==
  /\ MaxIndex \in Nat /\ TipHeight \in Nat /\ RequireBackup \in BOOLEAN
  /\ \A k \in Imported : k \notin Derived

NoRpc == [pc |-> "idle", kind |-> "newaccount", todo |-> <<>>, birthday |-> 1, isNew |-> TRUE,
          added |-> {}]

Of(k) == {a \in accounts : a.key = k}
Tracked == {a.key : a \in accounts}
Reads(to) == to # 0 /\ to = identity /\ ~locked

KeysInit ==
  /\ identity = 0 /\ recipients = 0
  /\ seeds = [s \in Seeds |-> [to |-> 0, confirmed |-> FALSE]]
  /\ sealed = [k \in Imported |-> 0]
  /\ accounts = {} /\ running = FALSE /\ locked = TRUE
  /\ loaded = {} /\ inbox = <<>>
  /\ unscanned = {} /\ seen = [h \in Blocks |-> {}]
  /\ rpc = [c \in RpcCalls |-> NoRpc]

-----------------------------------------------------------------------------
(* Commands.                                                               *)

WriteIdentityClobbering == identity' = IF identity = 0 THEN 1 ELSE 2

\* The body is staged, synced and renamed; an existing identity is kept.
WriteIdentity == identity = 0 /\ identity' = 1

GenerateIdentity ==
  /\ WriteIdentity
  /\ UNCHANGED <<recipients, running, locked, loaded, inbox, rpc>> /\ UNCHANGED dbVars

\* Emptiness check and inserts are one transaction; recipients are set once.
InitializeRecipients == recipients = 0 /\ recipients' = identity

InitEncryption ==
  /\ ~running /\ identity # 0
  /\ InitializeRecipients
  /\ UNCHANGED <<identity, running, locked, loaded, inbox, rpc>> /\ UNCHANGED dbVars

StoreMnemonicReplacing(s, confirmed) ==
  seeds' = [seeds EXCEPT ![s] = [to |-> recipients, confirmed |-> confirmed]]

\* A stored phrase keeps its ciphertext, and a confirmation is never withdrawn.
StoreMnemonic(s, confirmed) ==
  seeds' = [seeds EXCEPT ![s] = [to |-> IF @.to = 0 THEN recipients ELSE @.to,
                                 confirmed |-> @.confirmed \/ confirmed]]

Stores(s, confirmed) ==
  /\ ~running /\ identity # 0 /\ recipients # 0
  /\ StoreMnemonic(s, confirmed)
  /\ UNCHANGED <<identity, recipients, sealed, accounts, running, locked, loaded, inbox, unscanned,
                 seen, rpc>>

\* A phrase Zallet makes is new, and nobody else has it.
GenerateMnemonic == \E s \in Seeds : seeds[s].to = 0 /\ Stores(s, FALSE)

\* A phrase the operator types.
ImportMnemonic == \E s \in Seeds : Stores(s, TRUE)

\* A zcashd wallet's phrase; its backup flag does not travel with it.
MigrateMnemonic == \E s \in Seeds : Stores(s, FALSE)

Held == {s \in Seeds : seeds[s].to # 0}

\* The seed named, or the only one: for the RPCs, and for the commands.
SelectSeed(named) ==
  {s \in Held : s = named \/ (named \notin Seeds /\ Held = {s})}

ResolveSeed(named) == IF named \in Seeds THEN Held \cap {named} ELSE {s \in Held : Held = {s}}

MarkConfirmed(s) == s \in Held /\ seeds' = [seeds EXCEPT ![s].confirmed = TRUE]

\* The operator reads words of the decrypted phrase back.
ConfirmBackup ==
  \E named \in Seeds \cup {"none"} : \E s \in ResolveSeed(named) :
    /\ ~running /\ ~seeds[s].confirmed
    /\ seeds[s].to = identity
    /\ MarkConfirmed(s)
    /\ UNCHANGED <<identity, recipients, sealed, accounts, running, locked, loaded, inbox,
                   unscanned, seen, rpc>>

-----------------------------------------------------------------------------
(* The node: start, stop, lock, and the scanning of blocks.                *)

\* The engine loads the keys of every account before it takes its first block.
StartNode ==
  /\ ~running /\ identity # 0
  /\ running' = TRUE
  /\ locked' \in BOOLEAN
  /\ loaded' = Tracked /\ inbox' = <<>>
  /\ UNCHANGED <<identity, recipients, rpc>> /\ UNCHANGED dbVars

\* A stop or a crash: what was queued and the calls in flight are gone.
StopNode ==
  /\ running
  /\ running' = FALSE /\ locked' = TRUE
  /\ loaded' = {} /\ inbox' = <<>>
  /\ rpc' = [c \in RpcCalls |-> NoRpc]
  /\ UNCHANGED <<identity, recipients>> /\ UNCHANGED dbVars

SetLock ==
  /\ running /\ locked' = ~locked
  /\ UNCHANGED <<identity, recipients, running, loaded, inbox, rpc>> /\ UNCHANGED dbVars

\* The sync tasks queue a block the scan queue asks for.
QueueBlock ==
  /\ running /\ Len(inbox) < InboxSize
  /\ \E h \in unscanned : h \notin Range(inbox) /\ inbox' = Append(inbox, h)
  /\ UNCHANGED <<identity, recipients, running, locked, loaded, rpc>> /\ UNCHANGED dbVars

\* The engine answers with the keys it used, and the block is put as scanned.
Decrypt ==
  /\ running /\ inbox # <<>>
  /\ inbox' = Tail(inbox)
  /\ IF Head(inbox) = 0
     THEN loaded' = Tracked /\ UNCHANGED <<unscanned, seen>>
     ELSE /\ seen' = [seen EXCEPT ![Head(inbox)] = loaded]
          /\ unscanned' = unscanned \ {Head(inbox)}
          /\ UNCHANGED loaded
  /\ UNCHANGED <<identity, recipients, seeds, sealed, accounts, running, locked, rpc>>

-----------------------------------------------------------------------------
(* The account and import RPCs.                                            *)

Moves(c, pc) == rpc' = [rpc EXCEPT ![c].pc = pc]
Ends(c) == rpc' = [rpc EXCEPT ![c] = NoRpc]
InCall == UNCHANGED <<identity, recipients, running, locked, loaded>>

\* z_getnewaccount may name a seed, z_recoveraccounts takes a list, an import one key.
Argument(kind) ==
  CASE kind = "newaccount" -> {<<named>> : named \in Seeds \cup {"none"}}
    [] kind = "recover" -> Derived \X Derived
    [] OTHER -> {<<k>> : k \in Imported}

\* Parameters are checked, and the account calls need an unlocked wallet.
Call(c) ==
  /\ running /\ rpc[c].pc = "idle"
  /\ \E kind \in RpcKinds : \E todo \in Argument(kind), birthday \in Blocks :
       /\ kind \in {"newaccount", "recover"} => ~locked
       /\ kind = "newaccount" => birthday = TipHeight
       /\ kind = "importkey" => recipients # 0
       /\ rpc' = [rpc EXCEPT ![c] = [pc |-> "gate", kind |-> kind, todo |-> todo,
                                     birthday |-> birthday, isNew |-> TRUE, added |-> {}]]
  /\ InCall /\ UNCHANGED inbox /\ UNCHANGED dbVars

\* ensure_seed_is_backed_up.
BackedUp(s) == RequireBackup => seeds[s].confirmed

Usable(s) == BackedUp(s) /\ Reads(seeds[s].to)

Gated(c, kind) ==
  /\ rpc[c].pc = "gate" /\ rpc[c].kind = kind
  /\ InCall /\ UNCHANGED inbox /\ UNCHANGED dbVars

\* z_getnewaccount: the seed is selected, checked and decrypted, or the call fails.
GateNewAccount(c) ==
  LET usable == {s \in SelectSeed(Head(rpc[c].todo)) : Usable(s)}
  IN /\ Gated(c, "newaccount")
     /\ IF usable = {} THEN Ends(c)
        ELSE \E s \in usable : rpc' = [rpc EXCEPT ![c].pc = "commit", ![c].todo = <<<<s, 0>>>>]

\* z_recoveraccounts: so are all seeds, before the first account is made.
GateRecover(c) ==
  /\ Gated(c, "recover")
  /\ IF \A k \in Range(rpc[c].todo) : Usable(k[1]) THEN Moves(c, "commit") ELSE Ends(c)

\* z_importkey looks for the key's account; z_importviewingkey ends if there is one.
GateKey(c) ==
  /\ Gated(c, "importkey")
  /\ rpc' = [rpc EXCEPT ![c].pc = "commit", ![c].isNew = Of(Head(rpc[c].todo)) = {}]

GateViewingKey(c) ==
  /\ Gated(c, "importviewkey")
  /\ IF Of(Head(rpc[c].todo)) = {} THEN Moves(c, "commit") ELSE Ends(c)

\* A new account makes the scan queue ask again for every block from its birthday.
Adds(k, r) ==
  /\ accounts' = accounts \cup {[key |-> k, spends |-> r.kind # "importviewkey",
                                 birthday |-> r.birthday]}
  /\ unscanned' = unscanned \cup r.birthday..TipHeight

\* create_account takes the seed's next index; the other calls name theirs.
KeyOf(r) ==
  LET k == Head(r.todo)
      used == {i \in 0..MaxIndex : <<k[1], i>> \in Tracked}
  IN IF r.kind = "newaccount" THEN <<k[1], 1 + Max(used \cup {-1})>> ELSE k

CommitSeparately(c) ==
  LET r == rpc[c]
      k == Head(r.todo)
  IN /\ r.pc = "commit" /\ r.kind = "importkey"
     /\ IF Of(k) = {} THEN Adds(k, r) /\ Moves(c, "commit") /\ UNCHANGED sealed
                      ELSE /\ sealed' = [sealed EXCEPT ![k] = recipients]
                           /\ Moves(c, "reload") /\ UNCHANGED <<accounts, unscanned>>
     /\ InCall /\ UNCHANGED <<inbox, seeds, seen>>

\* z_importkey: account and encrypted key are one transaction, which looks again for the account.
CommitKey(c) ==
  LET r == rpc[c]
      k == Head(r.todo)
  IN /\ r.pc = "commit" /\ r.kind = "importkey"
     /\ sealed' = [sealed EXCEPT ![k] = recipients]
     /\ IF r.isNew /\ Of(k) = {} THEN Adds(k, r) ELSE UNCHANGED <<accounts, unscanned>>
     /\ rpc' = [rpc EXCEPT ![c].pc = "reload", ![c].added = {k}]
     /\ InCall /\ UNCHANGED <<inbox, seeds, seen>>

\* An account that exists fails the call where it stands.
Commits(c, kinds, answered) ==
  LET r == rpc[c]
      k == KeyOf(r)
  IN /\ r.pc = "commit" /\ r.kind \in kinds
     /\ k \in KeysOf(r.kind)
     /\ IF Of(k) # {}
        THEN Ends(c) /\ UNCHANGED <<accounts, unscanned>>
        ELSE Adds(k, r) /\ answered
     /\ InCall /\ UNCHANGED <<inbox, seeds, sealed, seen>>

\* The accounts are made one by one; then the keys are reloaded.
CommitAccount(c) ==
  Commits(c, {"newaccount", "recover"},
          rpc' = [rpc EXCEPT ![c].pc = IF Len(rpc[c].todo) = 1 THEN "reload" ELSE "commit",
                             ![c].todo = Tail(@), ![c].added = @ \cup {KeyOf(rpc[c])}])

\* z_importviewingkey answers at once.
CommitViewingKey(c) == Commits(c, {"importviewkey"}, Ends(c))

ReloadIfNew(c) ==
  /\ rpc[c].pc = "reload" /\ Len(inbox) < InboxSize
  /\ inbox' = IF rpc[c].isNew THEN Append(inbox, 0) ELSE inbox
  /\ Moves(c, "done")
  /\ InCall /\ UNCHANGED dbVars

\* The marker is queued behind the blocks the engine already has, and not waited for.
Reload(c) ==
  /\ rpc[c].pc = "reload" /\ Len(inbox) < InboxSize
  /\ inbox' = Append(inbox, 0)
  /\ Moves(c, "done")
  /\ InCall /\ UNCHANGED dbVars

Answer(c) == rpc[c].pc = "done" /\ Ends(c) /\ InCall /\ UNCHANGED inbox /\ UNCHANGED dbVars

\* The server's timeout drops the call at an await; a list of accounts is added without one.
DropCall(c) ==
  /\ rpc[c].pc \in {"gate", "reload"} \/ (rpc[c].pc = "commit" /\ rpc[c].added = {})
  /\ Ends(c) /\ InCall /\ UNCHANGED inbox /\ UNCHANGED dbVars

RpcStep(c) ==
  \/ Call(c) \/ GateNewAccount(c) \/ GateRecover(c) \/ GateKey(c) \/ GateViewingKey(c)
  \/ CommitKey(c) \/ CommitAccount(c) \/ CommitViewingKey(c) \/ Reload(c) \/ Answer(c) \/ DropCall(c)

KeysNext ==
  \/ GenerateIdentity \/ InitEncryption \/ GenerateMnemonic \/ ImportMnemonic \/ MigrateMnemonic
  \/ ConfirmBackup \/ StartNode \/ StopNode \/ SetLock \/ QueueBlock \/ Decrypt
  \/ \E c \in RpcCalls : RpcStep(c)

KeysSpec == KeysInit /\ [][KeysNext]_keyVars

-----------------------------------------------------------------------------
(* Properties.                                                             *)

\* What the keystore encrypted can be decrypted with the identity on disk: generating an identity
\* again, before or after the recipients are set, never replaces the one secrets are encrypted to
\* (write_identity_file, initialize_recipients).
SecretsReadable ==
  /\ recipients # 0 => recipients = identity
  /\ \A s \in Held : seeds[s].to = identity
  /\ \A k \in Imported : sealed[k] # 0 => sealed[k] = identity

\* An imported key's account and its encrypted spending key are in the wallet together, whatever
\* imports race and whenever the node stops: "the wallet can never track an account whose key is
\* missing, nor hold a key for an account it doesn't scan" (z_importkey's transaction).
KeyAndAccountTogether ==
  \A k \in Imported :
    /\ sealed[k] # 0 => k \in Tracked
    /\ \A a \in Of(k) : a.spends => sealed[k] # 0

\* With keystore.require_backup, every account z_getnewaccount or z_recoveraccounts derived has a
\* seed whose backup is confirmed, and stays so when the phrase is stored again (the gate of both
\* calls, and the upsert of encrypt_and_store_mnemonic).
AccountsBackedUp ==
  RequireBackup => \A a \in accounts : a.key \in Derived => seeds[a.key[1]].confirmed

\* A call that has answered, whether it made its account or found it, has its keys in the sync
\* engine as soon as the engine has read the markers queued for it (reload_keys after the commit,
\* also for a key the wallet already tracked).  z_importviewingkey, which does not reload, is out
\* of this.
AnsweredMeansLoaded ==
  \A c \in RpcCalls :
    (rpc[c].pc = "done" /\ 0 \notin Range(inbox)) => rpc[c].added \subseteq loaded

\* What the rescan parameter of z_importkey promises: of the blocks from an account's birthday,
\* each is either still to be scanned or was decrypted with the account's key.
HistoryScanned ==
  \A a \in accounts : \A h \in a.birthday..TipHeight : h \in unscanned \/ a.key \in seen[h]

\* No secret is lost: what is stored can be decrypted, a key is never without its account nor an
\* account without its key, and accounts come after a confirmed backup.
KeysAreSafe == SecretsReadable /\ KeyAndAccountTogether /\ AccountsBackedUp
=============================================================================
