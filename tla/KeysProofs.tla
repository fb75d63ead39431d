----------------------------- MODULE KeysProofs -----------------------------
(***************************************************************************)
(* Theorems about the wallet's secrets and accounts, under concurrent      *)
(* calls and under migrations of a zcashd wallet.                          *)
(***************************************************************************)
EXTENDS WalletKeys, ZcashdMigration, TLAPS

(***************************************************************************)
(* Secrets stay readable, keys and accounts stay together and accounts are *)
(* backed up, for any number of seeds, keys and concurrent calls.          *)
(***************************************************************************)
\* The calls that create an account, and those that import a key.
AccountKinds == {"newaccount", "recover"}
ImportKinds == {"importkey", "importviewkey"}

\* What a call carries.
Records ==
  [pc : {"idle", "gate", "commit", "reload", "done"}, kind : RpcKinds,
   todo : Seq(Derived \cup Imported \cup Seeds \cup {"none"}), birthday : Nat, isNew : BOOLEAN,
   added : SUBSET (Derived \cup Imported)]

\* What the store and the calls are made of.
Types ==
  /\ identity \in Nat /\ recipients \in Nat
  /\ seeds \in [Seeds -> [to : Nat, confirmed : BOOLEAN]]
  /\ sealed \in [Imported -> Nat]
  /\ inbox \in Seq(Nat)
  /\ unscanned \subseteq Nat
  /\ rpc \in [RpcCalls -> Records]

\* What a call that has passed its gate may rely on at its commit.
Permitted(r) ==
  /\ r.todo # <<>>
  /\ r.kind \in ImportKinds => Head(r.todo) \in Imported
  /\ r.kind \in AccountKinds =>
       /\ r.todo \in Seq(Derived)
       /\ RequireBackup => \A i \in 1..Len(r.todo) : seeds[r.todo[i][1]].confirmed
  /\ r.kind = "importkey" /\ ~r.isNew => Head(r.todo) \in Tracked

\* What a call's parameters are before its gate.
Asked(r) ==
  /\ r.todo # <<>>
  /\ r.kind \in ImportKinds => Head(r.todo) \in Imported
  /\ r.kind = "recover" => r.todo \in Seq(Derived)

\* What a call knows of the store, by where it is.
CallOK(c) ==
  /\ ~running => rpc[c].pc = "idle"
  /\ rpc[c].kind = "importkey" => recipients # 0
  /\ rpc[c].pc = "gate" => Asked(rpc[c])
  /\ rpc[c].pc = "commit" => Permitted(rpc[c])
  /\ rpc[c].added \subseteq Tracked
  /\ rpc[c].pc = "done" => 0 \in Range(inbox) \/ rpc[c].added \subseteq loaded

\* The inductive invariant.
KeysInv == Types /\ KeysAreSafe /\ \A c \in RpcCalls : CallOK(c)

USE DEF RpcKinds, AccountKinds, ImportKinds, dbVars, InCall

\* An empty wallet.
LEMMA KeysStart == KeysInit => KeysInv
<1> SUFFICES ASSUME KeysInit PROVE KeysInv
  OBVIOUS
<1>1. Types
  BY KeysAssumption DEF KeysInit, Types, Records, NoRpc
<1>2. KeysAreSafe
  BY DEF KeysInit, KeysAreSafe, SecretsReadable, KeyAndAccountTogether, AccountsBackedUp, Held, Tracked, Of
<1>3. \A c \in RpcCalls : CallOK(c)
  BY DEF KeysInit, CallOK, NoRpc
<1> QED BY <1>1, <1>2, <1>3 DEF KeysInv

\* Backups are not withdrawn, recipients not removed and accounts not deleted.
Grows ==
  /\ recipients # 0 => recipients' # 0
  /\ \A s \in Seeds : seeds[s].confirmed => seeds'[s].confirmed
  /\ Tracked \subseteq Tracked'

\* A call that does not move itself loses nothing it relies on.
LEMMA Undisturbed ==
  ASSUME KeysInv, Grows, NEW c \in RpcCalls, rpc'[c] = rpc[c], running' = running,
         rpc[c].pc = "done" => 0 \in Range(inbox') \/ rpc[c].added \subseteq loaded'
  PROVE  CallOK(c)'
<1>1. CallOK(c) /\ Types
  BY DEF KeysInv
<1>2. ASSUME rpc[c].pc = "commit" PROVE Permitted(rpc[c])'
  <2>1. Permitted(rpc[c])
    BY <1>1, <1>2 DEF CallOK
  <2>2. ASSUME rpc[c].kind \in AccountKinds, RequireBackup, NEW i \in 1..Len(rpc[c].todo)
        PROVE  seeds'[rpc[c].todo[i][1]].confirmed
    <3>1. rpc[c].todo \in Seq(Derived) /\ seeds[rpc[c].todo[i][1]].confirmed
      BY <2>1, <2>2 DEF Permitted
    <3>2. rpc[c].todo[i] \in Derived
      BY <2>2, <3>1
    <3>3. rpc[c].todo[i][1] \in Seeds
      BY <3>2 DEF Derived
    <3> QED BY <3>1, <3>3 DEF Grows
  <2> QED BY <2>1, <2>2 DEF Permitted, Grows
<1>3. rpc[c].pc = "gate" => Asked(rpc[c])'
  BY <1>1 DEF CallOK, Asked
<1> QED BY <1>1, <1>2, <1>3 DEF CallOK, Grows

\* Commands that set up the identity, the recipients and the seeds, and the wallet's lock.
LEMMA CommandsKeep ==
  ASSUME KeysInv,
         \/ GenerateIdentity \/ InitEncryption \/ GenerateMnemonic \/ ImportMnemonic
         \/ MigrateMnemonic \/ ConfirmBackup \/ SetLock
  PROVE  KeysInv'
<1>1. UNCHANGED <<sealed, accounts, running, loaded, inbox, unscanned, rpc>>
  BY DEF GenerateIdentity, InitEncryption, GenerateMnemonic, ImportMnemonic, MigrateMnemonic,
         ConfirmBackup, SetLock, Stores
<1>2. SecretsReadable /\ KeyAndAccountTogether /\ AccountsBackedUp /\ Types
  BY DEF KeysInv, KeysAreSafe
<1> DEFINE Renewed ==
             /\ identity' \in Nat /\ recipients' \in Nat
             /\ seeds' \in [Seeds -> [to : Nat, confirmed : BOOLEAN]]
             /\ \A s \in Seeds : seeds[s].confirmed => seeds'[s].confirmed
             /\ recipients # 0 => recipients' # 0
             /\ SecretsReadable'
<1>3. Renewed
  <2>1. CASE GenerateIdentity
    BY <1>2, <2>1 DEF GenerateIdentity, WriteIdentity, SecretsReadable, Held, Types
  <2>2. CASE InitEncryption
    BY <1>2, <2>2 DEF InitEncryption, InitializeRecipients, SecretsReadable, Held, Types
  <2>3. ASSUME NEW s \in Seeds, NEW b \in BOOLEAN, Stores(s, b) PROVE Renewed
    BY <1>1, <1>2, <2>3 DEF Stores, StoreMnemonic, SecretsReadable, Held, Types
  <2>4. CASE ConfirmBackup
    <3>1. PICK s \in Seeds : seeds' = [seeds EXCEPT ![s].confirmed = TRUE]
      BY <2>4 DEF ConfirmBackup, MarkConfirmed, Held
    <3>2. UNCHANGED <<identity, recipients>>
      BY <2>4 DEF ConfirmBackup
    <3> QED BY <1>1, <1>2, <3>1, <3>2 DEF SecretsReadable, Held, Types
  <2>5. CASE SetLock
    BY <1>1, <1>2, <2>5 DEF SetLock, SecretsReadable, Held, Types
  <2>6. CASE GenerateMnemonic \/ ImportMnemonic \/ MigrateMnemonic
    BY <2>3, <2>6 DEF GenerateMnemonic, ImportMnemonic, MigrateMnemonic
  <2> QED BY <2>1, <2>2, <2>4, <2>5, <2>6
<1>4. Types'
  BY <1>1, <1>2, <1>3 DEF Types
<1>5. Grows
  BY <1>1, <1>3 DEF Grows, Tracked
<1>6. KeyAndAccountTogether'
  BY <1>1, <1>2 DEF KeyAndAccountTogether, Tracked, Of
<1>7. AccountsBackedUp'
  BY <1>1, <1>2, <1>3 DEF AccountsBackedUp, Derived
<1>8. ASSUME NEW c \in RpcCalls PROVE CallOK(c)'
  <2>1. CallOK(c)
    BY DEF KeysInv
  <2> QED BY <1>1, <1>5, <2>1, Undisturbed DEF CallOK
<1> QED BY <1>3, <1>4, <1>6, <1>7, <1>8 DEF KeysInv, KeysAreSafe

\* What it is for a reload to be queued.
LEMMA Marked ==
  ASSUME NEW q \in Seq(Nat)
  PROVE  0 \in Range(q) <=> \E i \in 1..Len(q) : q[i] = 0
<1>1. DOMAIN q = 1..Len(q)
  OBVIOUS
<1> QED BY <1>1 DEF Range

\* The node's start and stop, and the work of its sync tasks.
LEMMA NodeKeeps ==
  ASSUME KeysInv, StartNode \/ StopNode \/ QueueBlock \/ Decrypt
  PROVE  KeysInv'
<1>1. UNCHANGED <<identity, recipients, seeds, sealed, accounts>>
  BY DEF StartNode, StopNode, QueueBlock, Decrypt
<1>2. KeysAreSafe /\ Types
  BY DEF KeysInv
<1>3. KeysAreSafe'
  BY <1>1, <1>2 DEF KeysAreSafe, SecretsReadable, KeyAndAccountTogether, AccountsBackedUp, Held,
                    Tracked, Of
<1>4. Grows
  BY <1>1 DEF Grows, Tracked
<1>5. CASE StartNode
  <2>1. Types'
    BY <1>1, <1>2, <1>5 DEF StartNode, Types
  <2>2. ASSUME NEW c \in RpcCalls PROVE CallOK(c)'
    <3>1. CallOK(c) /\ rpc[c].pc = "idle"
      BY <1>5 DEF KeysInv, CallOK, StartNode
    <3> QED BY <1>1, <1>5, <3>1 DEF CallOK, StartNode, Tracked
  <2> QED BY <1>3, <2>1, <2>2 DEF KeysInv
<1>6. CASE StopNode
  <2>1. rpc' = [c \in RpcCalls |-> NoRpc] /\ inbox' = <<>> /\ UNCHANGED unscanned
    BY <1>6 DEF StopNode
  <2>2. NoRpc \in Records
    BY DEF NoRpc, Records
  <2>3. Types'
    BY <1>1, <1>2, <2>1, <2>2 DEF Types
  <2>4. ASSUME NEW c \in RpcCalls PROVE CallOK(c)'
    BY <2>1 DEF CallOK, NoRpc
  <2> QED BY <1>3, <2>3, <2>4 DEF KeysInv
<1>7. CASE QueueBlock
  <2>1. PICK h \in unscanned : inbox' = Append(inbox, h)
    BY <1>7 DEF QueueBlock
  <2>2. UNCHANGED <<rpc, running, loaded, unscanned>> /\ h \in Nat
    BY <1>2, <1>7, <2>1 DEF QueueBlock, Types
  <2>3. Types'
    BY <1>1, <1>2, <2>1, <2>2 DEF Types
  <2>4. 0 \in Range(inbox) => 0 \in Range(inbox')
    <3>1. inbox \in Seq(Nat) /\ inbox' \in Seq(Nat)
      BY <1>2, <2>3 DEF Types
    <3>2. \A i \in 1..Len(inbox) : i \in 1..Len(inbox') /\ inbox'[i] = inbox[i]
      BY <2>1, <2>2, <3>1
    <3> QED BY <3>1, <3>2, Marked
  <2>5. ASSUME NEW c \in RpcCalls PROVE CallOK(c)'
    <3>1. CallOK(c)
      BY DEF KeysInv
    <3> QED BY <1>4, <2>2, <2>4, <3>1, Undisturbed DEF CallOK
  <2> QED BY <1>3, <2>3, <2>5 DEF KeysInv
<1>8. CASE Decrypt
  <2>1. inbox \in Seq(Nat) /\ inbox # <<>> /\ inbox' = Tail(inbox) /\ UNCHANGED <<rpc, running>>
    BY <1>2, <1>8 DEF Decrypt, Types
  <2>2. unscanned' \subseteq Nat
    BY <1>2, <1>8 DEF Decrypt, Types
  <2>3. Types'
    BY <1>1, <1>2, <2>1, <2>2 DEF Types
  <2>4. CASE Head(inbox) = 0
    <3>1. loaded' = Tracked
      BY <1>8, <2>4 DEF Decrypt
    <3>2. ASSUME NEW c \in RpcCalls PROVE CallOK(c)'
      <4>1. CallOK(c)
        BY DEF KeysInv
      <4> QED BY <1>4, <2>1, <3>1, <4>1, Undisturbed DEF CallOK
    <3> QED BY <1>3, <2>3, <3>2 DEF KeysInv
  <2>5. CASE Head(inbox) # 0
    <3>1. loaded' = loaded
      BY <1>8, <2>5 DEF Decrypt
    <3>2. 0 \in Range(inbox) => 0 \in Range(inbox')
      <4>1. ASSUME NEW i \in 1..Len(inbox), inbox[i] = 0
            PROVE  i - 1 \in 1..Len(inbox') /\ inbox'[i - 1] = 0
        BY <2>1, <2>5, <4>1
      <4>2. inbox' \in Seq(Nat)
        BY <2>3 DEF Types
      <4> QED BY <2>1, <4>1, <4>2, Marked
    <3>3. ASSUME NEW c \in RpcCalls PROVE CallOK(c)'
      <4>1. CallOK(c)
        BY DEF KeysInv
      <4> QED BY <1>4, <2>1, <3>1, <3>2, <4>1, Undisturbed DEF CallOK
    <3> QED BY <1>3, <2>3, <3>3 DEF KeysInv
  <2> QED BY <2>4, <2>5
<1> QED BY <1>5, <1>6, <1>7, <1>8

\* Call c becomes r; it may have queued a reload, and may have written to the database.
OwnStep(c, r) ==
  /\ r \in Records /\ rpc' = [rpc EXCEPT ![c] = r]
  /\ InCall /\ Grows
  /\ inbox' = inbox \/ inbox' = Append(inbox, 0)
  /\ UNCHANGED seeds /\ sealed' \in [Imported -> Nat] /\ unscanned' \subseteq Nat

\* What a call does harms no other call.
LEMMA OthersKeep ==
  ASSUME KeysInv, NEW c \in RpcCalls, NEW r, OwnStep(c, r)
  PROVE  Types' /\ rpc'[c] = r /\ \A d \in RpcCalls \ {c} : CallOK(d)'
<1>1. Types
  BY DEF KeysInv
<1>2. Types'
  <2>1. inbox \in Seq(Nat) /\ Append(inbox, 0) \in Seq(Nat)
    BY <1>1 DEF Types
  <2>2. inbox' \in Seq(Nat)
    BY <2>1 DEF OwnStep
  <2> QED BY <1>1, <2>2 DEF OwnStep, Types
<1>3. 0 \in Range(inbox) => 0 \in Range(inbox')
  <2>1. inbox \in Seq(Nat) /\ inbox' \in Seq(Nat)
    BY <1>1, <1>2 DEF Types
  <2>2. \A i \in 1..Len(inbox) : i \in 1..Len(inbox') /\ inbox'[i] = inbox[i]
    BY <2>1 DEF OwnStep
  <2> QED BY <2>1, <2>2, Marked
<1>4. rpc'[c] = r
  BY <1>1 DEF OwnStep, Types
<1>5. ASSUME NEW d \in RpcCalls \ {c} PROVE CallOK(d)'
  <2>1. rpc'[d] = rpc[d] /\ running' = running /\ Grows /\ loaded' = loaded
    BY <1>1, <1>5 DEF OwnStep, Types
  <2>2. CallOK(d)
    BY DEF KeysInv
  <2> QED BY <1>3, <2>1, <2>2, Undisturbed DEF CallOK
<1> QED BY <1>2, <1>4, <1>5

\* A call that writes nothing to the database.
LEMMA ReadOnly ==
  ASSUME KeysInv, NEW c \in RpcCalls, NEW r \in Records, rpc' = [rpc EXCEPT ![c] = r],
         InCall, inbox' = inbox \/ inbox' = Append(inbox, 0), UNCHANGED dbVars, CallOK(c)'
  PROVE  KeysInv'
<1>1. KeysAreSafe /\ Types
  BY DEF KeysInv
<1>2. KeysAreSafe'
  BY <1>1 DEF KeysAreSafe, SecretsReadable, KeyAndAccountTogether, AccountsBackedUp, Held, Tracked, Of
<1>3. OwnStep(c, r)
  BY <1>1 DEF OwnStep, Grows, Tracked, Types
<1> QED BY <1>2, <1>3, OthersKeep DEF KeysInv

\* A call that ends, whether answered, refused or dropped.
LEMMA Ending ==
  ASSUME KeysInv, NEW c \in RpcCalls, Ends(c), InCall, UNCHANGED inbox, UNCHANGED dbVars
  PROVE  KeysInv'
<1>1. NoRpc \in Records
  BY DEF NoRpc, Records
<1>2. rpc' = [rpc EXCEPT ![c] = NoRpc]
  BY DEF Ends
<1>3. CallOK(c)'
  BY <1>2 DEF CallOK, NoRpc, KeysInv, Types
<1> QED BY <1>1, <1>2, <1>3, ReadOnly

\* The arrival of a call.
LEMMA CallKeeps ==
  ASSUME KeysInv, NEW c \in RpcCalls, Call(c)
  PROVE  KeysInv'
<1>0. PICK k \in RpcKinds : \E todo \in Argument(k), b \in Blocks :
        /\ k = "importkey" => recipients # 0
        /\ rpc' = [rpc EXCEPT ![c] = [pc |-> "gate", kind |-> k, todo |-> todo, birthday |-> b,
                                      isNew |-> TRUE, added |-> {}]]
  BY DEF Call
<1>1. PICK todo \in Argument(k), b \in Blocks :
        /\ k = "importkey" => recipients # 0
        /\ rpc' = [rpc EXCEPT ![c] = [pc |-> "gate", kind |-> k, todo |-> todo, birthday |-> b,
                                      isNew |-> TRUE, added |-> {}]]
  BY <1>0
<1> DEFINE r == [pc |-> "gate", kind |-> k, todo |-> todo, birthday |-> b, isNew |-> TRUE, added |-> {}]
<1>2. /\ todo \in Seq(Derived \cup Imported \cup Seeds \cup {"none"}) /\ todo # <<>>
      /\ k \in ImportKinds => Head(todo) \in Imported
      /\ k = "recover" => todo \in Seq(Derived)
  <2>1. CASE k = "newaccount"
    <3>1. PICK x \in Seeds \cup {"none"} : todo = <<x>>
      BY <2>1 DEF Argument
    <3> QED BY <2>1, <3>1
  <2>2. CASE k = "recover"
    <3>1. PICK x \in Derived, y \in Derived : todo = <<x, y>>
      BY <2>2 DEF Argument
    <3>2. todo \in Seq(Derived) /\ todo # <<>>
      BY <3>1
    <3> QED BY <2>2, <3>1, <3>2
  <2>3. CASE k \in ImportKinds
    <3>1. PICK x \in Imported : todo = <<x>>
      BY <2>3 DEF Argument
    <3> QED BY <2>3, <3>1
  <2> QED BY <2>1, <2>2, <2>3
<1>3. r \in Records
  <2>1. b \in Nat
    BY KeysAssumption DEF Blocks
  <2> QED BY <1>2, <2>1 DEF Records
<1>4. rpc'[c] = r /\ rpc' = [rpc EXCEPT ![c] = r]
  BY <1>1 DEF KeysInv, Types
<1>5. CallOK(c)'
  <2>1. Asked(r)
    BY <1>2 DEF Asked
  <2>2. running /\ UNCHANGED <<running, recipients>>
    BY DEF Call
  <2>3. Asked(rpc[c])'
    BY <1>4, <2>1 DEF Asked
  <2> QED BY <1>1, <1>4, <2>2, <2>3 DEF CallOK
<1>6. InCall /\ UNCHANGED inbox /\ UNCHANGED dbVars
  BY DEF Call
<1> HIDE DEF r
<1> QED BY <1>3, <1>4, <1>5, <1>6, ReadOnly

\* A call that passes its gate with what its commit relies on.
LEMMA Passing ==
  ASSUME KeysInv, NEW c \in RpcCalls, NEW r \in Records, rpc' = [rpc EXCEPT ![c] = r],
         InCall, UNCHANGED inbox, UNCHANGED dbVars, rpc[c].pc = "gate",
         r.pc = "commit", r.kind = rpc[c].kind, r.added = rpc[c].added, Permitted(r)
  PROVE  KeysInv'
<1>1. CallOK(c) /\ rpc'[c] = r
  BY DEF KeysInv, Types
<1>2. Permitted(rpc[c])'
  BY <1>1 DEF Permitted, Tracked
<1>3. CallOK(c)'
  BY <1>1, <1>2 DEF CallOK, Tracked
<1> QED BY <1>3, ReadOnly

\* The four gates.
LEMMA GatesKeep ==
  ASSUME KeysInv, NEW c \in RpcCalls,
         GateNewAccount(c) \/ GateRecover(c) \/ GateKey(c) \/ GateViewingKey(c)
  PROVE  KeysInv'
<1>1. rpc[c].pc = "gate" /\ InCall /\ UNCHANGED inbox /\ UNCHANGED dbVars
  BY DEF GateNewAccount, GateRecover, GateKey, GateViewingKey, Gated
<1>2. Asked(rpc[c]) /\ rpc[c] \in Records /\ Types
  BY <1>1 DEF KeysInv, CallOK, Types
<1>3. CASE Ends(c)
  BY <1>1, <1>3, Ending
<1>4. CASE GateNewAccount(c) /\ ~Ends(c)
  <2>1. PICK s \in Seeds : /\ RequireBackup => seeds[s].confirmed
                           /\ rpc' = [rpc EXCEPT ![c].pc = "commit", ![c].todo = <<<<s, 0>>>>]
    BY <1>4 DEF GateNewAccount, SelectSeed, Held, Usable, BackedUp
  <2> DEFINE r == [rpc[c] EXCEPT !.pc = "commit", !.todo = <<<<s, 0>>>>]
  <2>2. rpc' = [rpc EXCEPT ![c] = r]
    BY <1>2, <2>1 DEF Types
  <2>3. <<s, 0>> \in Derived
    BY KeysAssumption DEF Derived
  <2>4. <<<<s, 0>>>> \in Seq(Derived) /\ <<<<s, 0>>>> # <<>>
    BY <2>3
  <2>5. r \in Records
    <3>1. <<<<s, 0>>>> \in Seq(Derived \cup Imported \cup Seeds \cup {"none"})
      BY <2>3
    <3> QED BY <1>2, <3>1 DEF Records
  <2>6. rpc[c].kind = "newaccount"
    BY <1>4 DEF GateNewAccount, Gated
  <2>7. r.todo = <<<<s, 0>>>> /\ r.pc = "commit" /\ r.kind = rpc[c].kind /\ r.added = rpc[c].added
    BY <1>2 DEF Records
  <2>8. Permitted(r)
    BY <2>1, <2>4, <2>6, <2>7 DEF Permitted
  <2> HIDE DEF r
  <2> QED BY <1>1, <2>2, <2>5, <2>7, <2>8, Passing
<1>5. CASE GateRecover(c) /\ ~Ends(c)
  <2> DEFINE r == [rpc[c] EXCEPT !.pc = "commit"]
  <2>1. rpc' = [rpc EXCEPT ![c] = r] /\ rpc[c].kind = "recover"
    BY <1>2, <1>5 DEF GateRecover, Gated, Moves, Types
  <2>2. \A k \in Range(rpc[c].todo) : RequireBackup => seeds[k[1]].confirmed
    BY <1>5 DEF GateRecover, Usable, BackedUp
  <2>3. rpc[c].todo \in Seq(Derived) /\ rpc[c].todo # <<>>
    BY <1>2, <2>1 DEF Asked
  <2>4. \A i \in 1..Len(rpc[c].todo) : rpc[c].todo[i] \in Range(rpc[c].todo)
    BY <2>3 DEF Range
  <2>5. r \in Records /\ r.todo = rpc[c].todo /\ r.pc = "commit" /\ r.kind = rpc[c].kind
          /\ r.added = rpc[c].added
    BY <1>2 DEF Records
  <2>6. Permitted(r)
    BY <2>1, <2>2, <2>3, <2>4, <2>5 DEF Permitted
  <2> HIDE DEF r
  <2> QED BY <1>1, <2>1, <2>5, <2>6, Passing
<1>6. CASE GateKey(c) /\ ~Ends(c)
  <2> DEFINE r == [rpc[c] EXCEPT !.pc = "commit", !.isNew = Of(Head(rpc[c].todo)) = {}]
  <2>1. rpc' = [rpc EXCEPT ![c] = r] /\ rpc[c].kind = "importkey"
    BY <1>2, <1>6 DEF GateKey, Gated, Types
  <2>2. r \in Records /\ r.todo = rpc[c].todo /\ r.pc = "commit" /\ r.kind = rpc[c].kind
          /\ r.added = rpc[c].added /\ r.isNew = (Of(Head(rpc[c].todo)) = {})
    BY <1>2 DEF Records
  <2>3. ~r.isNew => Head(r.todo) \in Tracked
    BY <2>2 DEF Of, Tracked
  <2>4. Permitted(r)
    BY <1>2, <2>1, <2>2, <2>3 DEF Permitted, Asked
  <2> HIDE DEF r
  <2> QED BY <1>1, <2>1, <2>2, <2>4, Passing
<1>7. CASE GateViewingKey(c) /\ ~Ends(c)
  <2> DEFINE r == [rpc[c] EXCEPT !.pc = "commit"]
  <2>1. rpc' = [rpc EXCEPT ![c] = r] /\ rpc[c].kind = "importviewkey"
    BY <1>2, <1>7 DEF GateViewingKey, Gated, Moves, Types
  <2>2. r \in Records /\ r.todo = rpc[c].todo /\ r.pc = "commit" /\ r.kind = rpc[c].kind
          /\ r.added = rpc[c].added
    BY <1>2 DEF Records
  <2>3. Permitted(r)
    BY <1>2, <2>1, <2>2 DEF Permitted, Asked
  <2> HIDE DEF r
  <2> QED BY <1>1, <2>1, <2>2, <2>3, Passing
<1> QED BY <1>3, <1>4, <1>5, <1>6, <1>7

\* What a commit does to the accounts.
LEMMA Adding ==
  ASSUME KeysInv, NEW k, NEW r \in Records, Adds(k, r)
  PROVE  /\ unscanned' \subseteq Nat
         /\ Tracked' = Tracked \cup {k}
         /\ \A a \in accounts' : a \in accounts \/ (a.key = k /\ a.spends = (r.kind # "importviewkey"))
<1>1. r.birthday \in Nat /\ unscanned \subseteq Nat
  BY DEF KeysInv, Types, Records
<1>2. unscanned' \subseteq Nat
  <2>1. r.birthday..TipHeight \subseteq Nat
    BY <1>1, KeysAssumption
  <2>2. unscanned' = unscanned \cup (r.birthday..TipHeight)
    BY DEF Adds
  <2> QED BY <1>1, <2>1, <2>2
<1>3. Tracked' = Tracked \cup {k}
  <2> DEFINE a == [key |-> k, spends |-> r.kind # "importviewkey", birthday |-> r.birthday]
  <2>1. accounts' = accounts \cup {a} /\ a.key = k
    BY DEF Adds
  <2> HIDE DEF a
  <2> QED BY <2>1 DEF Tracked
<1> QED BY <1>2, <1>3 DEF Adds

\* z_importkey writes the account and its key together.
LEMMA CommitKeyKeeps ==
  ASSUME KeysInv, NEW c \in RpcCalls, CommitKey(c)
  PROVE  KeysInv'
<1> DEFINE k == Head(rpc[c].todo)
           r == [rpc[c] EXCEPT !.pc = "reload", !.added = {k}]
<1>1. Types /\ CallOK(c) /\ rpc[c] \in Records /\ SecretsReadable /\ KeyAndAccountTogether /\ AccountsBackedUp
  BY DEF KeysInv, KeysAreSafe, Types
<1>2. rpc[c].pc = "commit" /\ rpc[c].kind = "importkey"
  BY DEF CommitKey
<1>3. k \in Imported /\ recipients # 0 /\ (~rpc[c].isNew => k \in Tracked)
  BY <1>1, <1>2 DEF CallOK, Permitted
<1>4. rpc' = [rpc EXCEPT ![c] = r]
  BY <1>1 DEF CommitKey, Types
<1>5. r \in Records /\ r.pc = "reload" /\ r.kind = "importkey" /\ r.added = {k}
  BY <1>1, <1>2, <1>3 DEF Records
<1>6. /\ UNCHANGED <<identity, recipients, running, locked, loaded, inbox, seeds>>
      /\ sealed' = [sealed EXCEPT ![k] = recipients]
  BY DEF CommitKey
<1>7. /\ unscanned' \subseteq Nat /\ Tracked' = Tracked \cup {k}
      /\ \A a \in accounts' : a \in accounts \/ a.key = k
  <2>1. CASE Adds(k, rpc[c])
    BY <1>1, <2>1, Adding
  <2>2. CASE ~Adds(k, rpc[c])
    <3>1. UNCHANGED <<accounts, unscanned>> /\ ~(rpc[c].isNew /\ Of(k) = {})
      BY <2>2 DEF CommitKey
    <3>2. k \in Tracked
      BY <1>3, <3>1 DEF Of, Tracked
    <3> QED BY <1>1, <3>1, <3>2 DEF Types, Tracked
  <2> QED BY <2>1, <2>2
<1> HIDE DEF k, r
<1>8. OwnStep(c, r)
  <2>1. sealed' \in [Imported -> Nat]
    BY <1>1, <1>6 DEF Types
  <2>2. Grows
    BY <1>6, <1>7 DEF Grows
  <2> QED BY <1>4, <1>5, <1>6, <1>7, <2>1, <2>2 DEF OwnStep
<1>9. Types' /\ rpc'[c] = r /\ \A d \in RpcCalls \ {c} : CallOK(d)'
  BY <1>8, OthersKeep
<1>10. CallOK(c)'
  <2>1. running
    BY <1>1, <1>2 DEF CallOK
  <2> QED BY <1>3, <1>5, <1>6, <1>7, <1>9, <2>1 DEF CallOK
<1>11. SecretsReadable'
  BY <1>1, <1>3, <1>6 DEF SecretsReadable, Held, Types
<1>12. KeyAndAccountTogether'
  BY <1>1, <1>3, <1>6, <1>7 DEF KeyAndAccountTogether, Of, Types
<1>13. AccountsBackedUp'
  <2>1. k \notin Derived
    BY <1>3, KeysAssumption
  <2> QED BY <1>1, <1>6, <1>7, <2>1 DEF AccountsBackedUp
<1> QED BY <1>9, <1>10, <1>11, <1>12, <1>13 DEF KeysInv, KeysAreSafe

\* What is left of a list of accounts after its first.
LEMMA TailOf ==
  ASSUME NEW q \in Seq(Derived), q # <<>>
  PROVE  /\ Tail(q) \in Seq(Derived)
         /\ Len(q) # 1 => Tail(q) # <<>>
         /\ Len(Tail(q)) = Len(q) - 1
         /\ \A i \in 1..Len(Tail(q)) : i + 1 \in 1..Len(q) /\ Tail(q)[i] = q[i + 1]
<1>1. Tail(q) \in Seq(Derived) /\ Len(Tail(q)) = Len(q) - 1 /\ Len(q) \in Nat
  OBVIOUS
<1>2. \A i \in 1..Len(Tail(q)) : i + 1 \in 1..Len(q) /\ Tail(q)[i] = q[i + 1]
  BY <1>1
<1>3. Len(q) # 1 => Tail(q) # <<>>
  <2>0. Len(<<>>) = 0
    OBVIOUS
  <2>1. Tail(q) = <<>> => Len(Tail(q)) = 0
    BY <2>0, Zenon
  <2>2. Len(Tail(q)) = 0 => Len(q) = 1
    <3>1. \A m, n \in Int : m = n - 1 /\ m = 0 => n = 1
      OBVIOUS
    <3>2. Len(q) \in Int /\ Len(Tail(q)) \in Int
      BY <1>1
    <3> QED BY <1>1, <3>1, <3>2, Zenon
  <2> QED BY <2>1, <2>2, Zenon
<1> QED BY <1>1, <1>2, <1>3

\* z_getnewaccount and z_recoveraccounts derive an account of a seed they found backed up.
LEMMA CommitAccountKeeps ==
  ASSUME KeysInv, NEW c \in RpcCalls, CommitAccount(c)
  PROVE  KeysInv'
<1> DEFINE old == rpc[c]
           k == KeyOf(old)
           r == [old EXCEPT !.pc = IF Len(old.todo) = 1 THEN "reload" ELSE "commit",
                            !.todo = Tail(old.todo), !.added = old.added \cup {k}]
<1>1. Types /\ CallOK(c) /\ old \in Records /\ SecretsReadable /\ KeyAndAccountTogether /\ AccountsBackedUp
  BY DEF KeysInv, KeysAreSafe, Types
<1>2. old.pc = "commit" /\ old.kind \in AccountKinds /\ k \in Derived
  BY DEF CommitAccount, Commits, KeysOf
<1>3. /\ old.todo # <<>> /\ old.todo \in Seq(Derived)
      /\ RequireBackup => \A i \in 1..Len(old.todo) : seeds[old.todo[i][1]].confirmed
  BY <1>1, <1>2 DEF CallOK, Permitted
<1>4. UNCHANGED <<identity, recipients, running, locked, loaded, inbox, seeds, sealed, seen>>
  BY DEF CommitAccount, Commits
<1>5. CASE Of(k) # {}
  BY <1>4, <1>5, Ending DEF CommitAccount, Commits
<1>6. CASE Of(k) = {}
  <2>1. Adds(k, old) /\ rpc' = [rpc EXCEPT ![c] = r]
    BY <1>1, <1>6 DEF CommitAccount, Commits, Types
  <2>2. /\ Tail(old.todo) \in Seq(Derived)
        /\ Len(old.todo) # 1 => Tail(old.todo) # <<>>
        /\ Len(Tail(old.todo)) = Len(old.todo) - 1
        /\ \A i \in 1..Len(Tail(old.todo)) : i + 1 \in 1..Len(old.todo) /\ Tail(old.todo)[i] = old.todo[i + 1]
    BY <1>3, TailOf
  <2>3. /\ r \in Records /\ r.todo = Tail(old.todo) /\ r.added = old.added \cup {k} /\ r.kind = old.kind
        /\ r.pc = IF Len(old.todo) = 1 THEN "reload" ELSE "commit"
    <3>1. Tail(old.todo) \in Seq(Derived \cup Imported \cup Seeds \cup {"none"})
      BY <2>2
    <3> QED BY <1>1, <1>2, <3>1 DEF Records
  <2>4. k[1] = old.todo[1][1] /\ 1 \in 1..Len(old.todo)
    <3>1. Head(old.todo) = old.todo[1] /\ 1 \in 1..Len(old.todo)
      BY <1>3
    <3>2. k[1] = Head(old.todo)[1]
      BY DEF KeyOf
    <3> QED BY <3>1, <3>2
  <2>5. RequireBackup => seeds[k[1]].confirmed
    BY <1>3, <2>4
  <2>6. /\ unscanned' \subseteq Nat /\ Tracked' = Tracked \cup {k}
        /\ \A a \in accounts' : a \in accounts \/ a.key = k
    BY <1>1, <2>1, Adding
  <2> HIDE DEF old, k, r
  <2>7. OwnStep(c, r)
    <3>1. Grows
      BY <1>4, <2>6 DEF Grows
    <3> QED BY <1>1, <1>4, <2>1, <2>3, <2>6, <3>1 DEF OwnStep, Types
  <2>8. Types' /\ rpc'[c] = r /\ \A d \in RpcCalls \ {c} : CallOK(d)'
    BY <2>7, OthersKeep
  <2>9. CallOK(c)'
    <3>1. running /\ old.added \subseteq Tracked
      BY <1>1, <1>2 DEF CallOK, old
    <3>2. ASSUME rpc'[c].pc = "commit" PROVE Permitted(rpc[c])'
      <4>1. /\ rpc'[c].todo = Tail(old.todo) /\ Tail(old.todo) # <<>>
            /\ rpc'[c].kind = old.kind
        BY <2>2, <2>3, <2>8, <3>2
      <4>2. RequireBackup => \A i \in 1..Len(Tail(old.todo)) : seeds'[Tail(old.todo)[i][1]].confirmed
        BY <1>3, <1>4, <2>2
      <4> QED BY <1>2, <2>2, <4>1, <4>2 DEF Permitted
    <3> QED BY <1>2, <1>4, <2>3, <2>6, <2>8, <3>1, <3>2 DEF CallOK
  <2>10. SecretsReadable'
    BY <1>1, <1>4 DEF SecretsReadable, Held
  <2>11. KeyAndAccountTogether'
    <3>1. k \notin Imported
      BY <1>2, KeysAssumption
    <3> QED BY <1>1, <1>4, <2>6, <3>1 DEF KeyAndAccountTogether, Of
  <2>12. AccountsBackedUp'
    BY <1>1, <1>4, <2>5, <2>6 DEF AccountsBackedUp
  <2> QED BY <2>8, <2>9, <2>10, <2>11, <2>12 DEF KeysInv, KeysAreSafe
<1> QED BY <1>5, <1>6

\* z_importviewingkey adds an account that cannot spend.
LEMMA CommitViewingKeyKeeps ==
  ASSUME KeysInv, NEW c \in RpcCalls, CommitViewingKey(c)
  PROVE  KeysInv'
<1> DEFINE k == KeyOf(rpc[c])
<1>1. Types /\ rpc[c] \in Records /\ SecretsReadable /\ KeyAndAccountTogether /\ AccountsBackedUp
  BY DEF KeysInv, KeysAreSafe, Types
<1>2. rpc[c].kind = "importviewkey" /\ k \in Imported
  BY DEF CommitViewingKey, Commits, KeysOf
<1>3. UNCHANGED <<identity, recipients, running, locked, loaded, inbox, seeds, sealed, seen>> /\ Ends(c)
  BY DEF CommitViewingKey, Commits
<1>4. CASE Of(k) # {}
  BY <1>3, <1>4, Ending DEF CommitViewingKey, Commits
<1>5. CASE Of(k) = {}
  <2>1. Adds(k, rpc[c])
    BY <1>5 DEF CommitViewingKey, Commits
  <2>2. /\ unscanned' \subseteq Nat /\ Tracked' = Tracked \cup {k}
        /\ \A a \in accounts' : a \in accounts \/ (a.key = k /\ a.spends = FALSE)
    BY <1>1, <1>2, <2>1, Adding
  <2> HIDE DEF k
  <2>3. OwnStep(c, NoRpc)
    <3>1. NoRpc \in Records
      BY DEF NoRpc, Records
    <3>2. Grows
      BY <1>3, <2>2 DEF Grows
    <3> QED BY <1>1, <1>3, <2>2, <3>1, <3>2 DEF OwnStep, Ends, Types
  <2>4. Types' /\ rpc'[c] = NoRpc /\ \A d \in RpcCalls \ {c} : CallOK(d)'
    BY <2>3, OthersKeep
  <2>5. CallOK(c)'
    BY <2>4 DEF CallOK, NoRpc
  <2>6. SecretsReadable'
    BY <1>1, <1>3 DEF SecretsReadable, Held
  <2>7. KeyAndAccountTogether'
    BY <1>1, <1>3, <2>2 DEF KeyAndAccountTogether, Of
  <2>8. AccountsBackedUp'
    <3>1. k \notin Derived
      BY <1>2, KeysAssumption
    <3> QED BY <1>1, <1>3, <2>2, <3>1 DEF AccountsBackedUp
  <2> QED BY <2>4, <2>5, <2>6, <2>7, <2>8 DEF KeysInv, KeysAreSafe
<1> QED BY <1>4, <1>5

\* A reload queued behind what the engine already has.
LEMMA ReloadKeeps ==
  ASSUME KeysInv, NEW c \in RpcCalls, Reload(c)
  PROVE  KeysInv'
<1> DEFINE r == [rpc[c] EXCEPT !.pc = "done"]
<1>1. Types /\ CallOK(c) /\ rpc[c] \in Records
  BY DEF KeysInv, Types
<1>2. rpc' = [rpc EXCEPT ![c] = r] /\ rpc'[c] = r
  BY <1>1 DEF Reload, Moves, Types
<1>3. r \in Records /\ r.pc = "done" /\ r.kind = rpc[c].kind /\ r.added = rpc[c].added
  BY <1>1 DEF Records
<1>4. InCall /\ inbox' = Append(inbox, 0) /\ UNCHANGED dbVars /\ rpc[c].pc = "reload"
  BY DEF Reload
<1>5. 0 \in Range(inbox')
  <2>1. inbox \in Seq(Nat) /\ inbox' \in Seq(Nat) /\ Len(inbox') = Len(inbox) + 1 /\ inbox'[Len(inbox')] = 0
    BY <1>1, <1>4 DEF Types
  <2>2. Len(inbox') \in 1..Len(inbox')
    BY <2>1
  <2> QED BY <2>1, <2>2, Marked
<1> HIDE DEF r
<1>6. CallOK(c)'
  BY <1>1, <1>2, <1>3, <1>4, <1>5 DEF CallOK, Tracked
<1> QED BY <1>2, <1>3, <1>4, <1>6, ReadOnly

\* Every step keeps the invariant.
LEMMA KeysStep == KeysInv /\ [KeysNext]_keyVars => KeysInv'
<1> SUFFICES ASSUME KeysInv, [KeysNext]_keyVars PROVE KeysInv'
  OBVIOUS
<1>1. ASSUME NEW c \in RpcCalls, RpcStep(c) PROVE KeysInv'
  <2>1. CASE Answer(c) \/ DropCall(c)
    BY <2>1, Ending DEF Answer, DropCall
  <2> QED BY <1>1, <2>1, CallKeeps, GatesKeep, CommitKeyKeeps, CommitAccountKeeps,
             CommitViewingKeyKeeps, ReloadKeeps DEF RpcStep
<1>2. CASE UNCHANGED keyVars
  <2>1. \A c \in RpcCalls : CallOK(c)'
    BY <1>2 DEF KeysInv, CallOK, Asked, Permitted, Tracked, keyVars
  <2>2. Types' /\ KeysAreSafe'
    BY <1>2 DEF KeysInv, Types, KeysAreSafe, SecretsReadable, KeyAndAccountTogether, AccountsBackedUp,
                Held, Of, Tracked, keyVars
  <2> QED BY <2>1, <2>2 DEF KeysInv
<1> QED BY <1>1, <1>2, CommandsKeep, NodeKeeps DEF KeysNext

\* No secret is lost: what the keystore holds can be decrypted with the identity on disk, an
\* imported key and its account are there together, and derived accounts have a confirmed backup,
\* whatever commands, calls, timeouts and restarts interleave.
THEOREM KeysSafe == KeysSpec => []KeysAreSafe
<1>1. KeysInv => KeysAreSafe
  BY DEF KeysInv
<1> QED BY KeysStart, KeysStep, <1>1, PTL DEF KeysSpec

\* When a call that added or found accounts has answered and no reload is queued, the engine has
\* their keys: reload_keys runs after the commit and its marker is never overtaken.
THEOREM AnsweredLoaded == KeysSpec => []AnsweredMeansLoaded
<1>1. KeysInv => AnsweredMeansLoaded
  BY DEF KeysInv, CallOK, AnsweredMeansLoaded
<1> QED BY KeysStart, KeysStep, <1>1, PTL DEF KeysSpec

HIDE DEF RpcKinds, AccountKinds, ImportKinds, dbVars, InCall
-----------------------------------------------------------------------------
(***************************************************************************)
(* Any number of migrations of one zcashd wallet, each failing or killed   *)
(* anywhere.  What is written before the import's transaction is written   *)
(* so that nothing that commits can miss it, and what a run minted is      *)
(* removed only while nothing refers to it.                                *)
(***************************************************************************)
\* Where a run is: before its document, before it wrote anything, writing, and past its commit.
Early == {"idle", "dump", "passphrase", "export"}
Unwritten == {"check", "birthday", "seed"}
Writing == {"keys", "import", "undo"}
Committed == {"watch", "report", "done"}

\* The fields of a run.
RunFields ==
  {"pc", "fp", "minted", "multi", "partial", "scan", "reminded", "kept", "birthday", "tries", "exported"}

\* Run r has committed an import.
HasImported(r) == \E i \in imports : i.by = r

\* The birthday of a run that scans is at or before the wallet's blocks after activation.
Covers(c) == c.scan => \A b \in DOMAIN chain : chain[b] >= Activation => c.birthday <= chain[b]

\* What check_import_report asks of a run without --allow-partial-import.
Complete(r) ==
  /\ ~wallet.sprout
  /\ \E i \in Mine(r) : i.keys = wallet.keys /\ (wallet.legacyAccount => i.fp # "none")

\* What is true of run r, given what it knows, c.
RunRight(r, c) ==
  /\ c.fp \in {"none", "wallet", r}
  /\ c.minted => c.fp = r /\ wallet.legacyAccount
  /\ c.pc \in Early => ~c.minted
  /\ c.pc \in Unwritten \cup Writing \cup Committed => CheckNetwork
  /\ c.pc \in {"seed", "keys", "import"} \cup Committed => Covers(c)
  /\ c.pc \in Early \cup Unwritten => r \notin held
  /\ c.pc \in {"keys", "import"} => c.fp = "none" \/ c.fp \in held
  /\ c.pc = "import" => wallet.keys \subseteq keyring
  /\ c.pc \in Early \cup Unwritten \cup Writing => ~HasImported(r)
  /\ c.pc \in Committed => HasImported(r)
  /\ c.minted /\ c.pc \in {"failed", "done"} /\ ~c.kept => (r \in held <=> HasImported(r))

\* The imports: each a record of its run, under its run's seed or the wallet's or none.
ImportRight(i) ==
  /\ i = [by |-> i.by, keys |-> i.keys, watch |-> i.watch, fp |-> i.fp]
  /\ i.by \in Runs /\ i.fp \in {"none", "wallet", i.by}
  /\ run[i.by].minted => i.fp = i.by
  /\ i.fp # "none" => i.fp \in held
  /\ i.keys \subseteq keyring

\* The inductive invariant.
MigInv ==
  /\ DOMAIN run = Runs /\ run = [r \in Runs |-> run[r]] /\ \A r \in Runs : DOMAIN run[r] = RunFields
  /\ \A r \in Runs : RunRight(r, run[r])
  /\ \A i \in imports : ImportRight(i)
  /\ imports # {} => CheckNetwork
  /\ SuccessIsComplete
  /\ chain \in [DOMAIN chain -> 1..3]

\* It holds before the first run.
LEMMA MigStarts == MigInit => MigInv
<1> SUFFICES ASSUME MigInit PROVE MigInv
  OBVIOUS
<1>1. run = [r \in Runs |-> NotYet] /\ imports = {} /\ held = {}
  BY DEF MigInit
<1>2. DOMAIN NotYet = RunFields
  BY DEF NotYet, RunFields
<1>3. \A r \in Runs : RunRight(r, NotYet)
  BY <1>1, MigAssumption DEF RunRight, NotYet, Early, Unwritten, Writing, Committed, HasImported
<1>4. SuccessIsComplete
  BY <1>1 DEF SuccessIsComplete, NotYet
<1>5. chain \in [DOMAIN chain -> 1..3]
  BY DEF MigInit
<1> QED
  BY <1>1, <1>2, <1>3, <1>4, <1>5 DEF MigInv

\* A step that writes nothing: what is right of the run that takes it is all there is to see to.
LEMMA RunMoves ==
  ASSUME MigInv, NEW r \in Runs, NEW c, run' = [run EXCEPT ![r] = c], DOMAIN c = RunFields, RunRight(r, c),
         c.minted => run[r].minted \/ ~HasImported(r),
         c.pc = "done" /\ ~c.partial => Complete(r),
         UNCHANGED Input, UNCHANGED Written
  PROVE  MigInv'
<1>1. /\ DOMAIN run' = Runs /\ run' = [t \in Runs |-> run'[t]] /\ \A t \in Runs : DOMAIN run'[t] = RunFields
      /\ run'[r] = c /\ \A t \in Runs : t # r => run'[t] = run[t]
  BY DEF MigInv
<1>2. wallet' = wallet /\ chain' = chain /\ held' = held /\ keyring' = keyring /\ imports' = imports
  BY DEF Input, Written
<1>3. ASSUME NEW t \in Runs PROVE RunRight(t, run[t])'
  <2>1. RunRight(t, run'[t])
    BY <1>1 DEF MigInv
  <2> QED
    BY <1>2, <2>1 DEF RunRight, HasImported, Covers, CheckNetwork
<1>4. ASSUME NEW i \in imports PROVE ImportRight(i)'
  BY <1>1, <1>2, <1>4 DEF MigInv, ImportRight, HasImported
<1>5. SuccessIsComplete'
  BY <1>1, <1>2 DEF MigInv, SuccessIsComplete, Complete, Mine
<1> QED
  BY <1>1, <1>2, <1>3, <1>4, <1>5 DEF MigInv, CheckNetwork
\* A run fails before it has written anything, or without a seed of its own.
LEMMA RunFails ==
  ASSUME MigInv, NEW r \in Runs, run[r].pc \in Early \cup Unwritten \cup {"watch", "report"}, To(r, "failed"),
         UNCHANGED Input, UNCHANGED Written
  PROVE  MigInv'
<1> DEFINE c == [run[r] EXCEPT !.pc = "failed"]
<1>1. RunRight(r, run[r]) /\ DOMAIN run[r] = RunFields /\ \A i \in imports : ImportRight(i)
  BY DEF MigInv
<1>2. /\ DOMAIN c = RunFields /\ c.pc = "failed" /\ c.fp = run[r].fp /\ c.minted = run[r].minted
      /\ c.kept = run[r].kept
  BY <1>1 DEF RunFields
<1>3. run' = [run EXCEPT ![r] = c]
  BY DEF To
<1>4. run[r].minted => (r \in held <=> HasImported(r))
  BY <1>1, MigAssumption DEF RunRight, ImportRight, HasImported, Early, Unwritten, Writing, Committed
<1> HIDE DEF c
<1>5. RunRight(r, c)
  BY <1>1, <1>2, <1>4 DEF RunRight, Early, Unwritten, Writing, Committed
<1> QED
  BY <1>2, <1>3, <1>5, RunMoves

\* A new run keeps it.
LEMMA StartKeeps == ASSUME MigInv, NEW r \in Runs, StartRun(r) PROVE MigInv'
<1>1. run[r].pc = "idle" /\ UNCHANGED Input /\ UNCHANGED Written /\ RunRight(r, run[r])
  BY DEF StartRun, MigInv
<1>2. CASE To(r, "failed")
  BY <1>1, <1>2, RunFails DEF Early
<1>3. ASSUME NEW multi, NEW partial, NEW scan,
             run' = [run EXCEPT ![r] = [NotYet EXCEPT !.pc = "dump", !.multi = multi, !.partial = partial, !.scan = scan]]
      PROVE  MigInv'
  <2> DEFINE c == [NotYet EXCEPT !.pc = "dump", !.multi = multi, !.partial = partial, !.scan = scan]
  <2>1. DOMAIN c = RunFields /\ c.pc = "dump" /\ c.fp = "none" /\ c.minted = FALSE
    BY DEF NotYet, RunFields
  <2> HIDE DEF c
  <2>2. RunRight(r, c)
    BY <1>1, <2>1 DEF RunRight, Early, Unwritten, Writing, Committed
  <2> QED
    BY <1>1, <1>3, <2>1, <2>2, RunMoves DEF c
<1> QED
  BY <1>2, <1>3 DEF StartRun

\* A step before the document that only moves the run on.
LEMMA EarlyMove ==
  ASSUME MigInv, NEW r \in Runs, run[r].pc \in Early, NEW q \in Early, NEW n,
         run' = [run EXCEPT ![r] = [run[r] EXCEPT !.pc = q, !.tries = n]],
         UNCHANGED Input, UNCHANGED Written
  PROVE  MigInv'
<1> DEFINE c == [run[r] EXCEPT !.pc = q, !.tries = n]
<1>1. RunRight(r, run[r]) /\ DOMAIN run[r] = RunFields
  BY DEF MigInv
<1>2. DOMAIN c = RunFields /\ c.pc = q /\ c.fp = run[r].fp /\ c.minted = run[r].minted
  BY <1>1 DEF RunFields
<1> HIDE DEF c
<1>3. RunRight(r, c)
  BY <1>1, <1>2 DEF RunRight, Early, Unwritten, Writing, Committed
<1> QED
  BY <1>2, <1>3, RunMoves DEF c, Early

\* Dumping the wallet and asking for its passphrase keep it.
LEMMA OpenKeeps == ASSUME MigInv, NEW r \in Runs, DumpWallet(r) \/ EnterPassphrase(r) PROVE MigInv'
<1>1. run[r].pc \in Early /\ UNCHANGED Input /\ UNCHANGED Written
  BY DEF DumpWallet, EnterPassphrase, Early
<1>2. DOMAIN run[r] = RunFields /\ DOMAIN run = Runs
  BY DEF MigInv
<1>3. CASE To(r, "failed")
  BY <1>1, <1>3, RunFails
<1>4. ASSUME NEW q \in {"passphrase", "export"}, To(r, q) PROVE MigInv'
  <2>1. [run[r] EXCEPT !.pc = q] = [run[r] EXCEPT !.pc = q, !.tries = run[r].tries]
    BY <1>2 DEF RunFields
  <2> QED
    BY <1>1, <1>4, <2>1, EarlyMove DEF To, Early
<1>5. ASSUME NEW n, run' = [run EXCEPT ![r].tries = n, ![r].pc = "passphrase"] PROVE MigInv'
  <2>1. run' = [run EXCEPT ![r] = [run[r] EXCEPT !.pc = "passphrase", !.tries = n]]
    BY <1>2, <1>5 DEF RunFields
  <2> QED
    BY <1>1, <2>1, EarlyMove DEF Early
<1>6. ASSUME NEW n, run' = [run EXCEPT ![r].tries = n, ![r].pc = "failed"] PROVE MigInv'
  <2> DEFINE c == [run[r] EXCEPT !.pc = "failed", !.tries = n]
  <2>1. run' = [run EXCEPT ![r] = c]
    BY <1>2, <1>6 DEF RunFields
  <2>2. RunRight(r, run[r])
    BY DEF MigInv
  <2>3. DOMAIN c = RunFields /\ c.pc = "failed" /\ c.fp = run[r].fp /\ c.minted = run[r].minted
    BY <1>2 DEF RunFields
  <2> HIDE DEF c
  <2>4. RunRight(r, c)
    BY <1>1, <2>2, <2>3 DEF RunRight, Early, Unwritten, Writing, Committed
  <2> QED
    BY <1>1, <2>1, <2>3, <2>4, RunMoves
<1> QED
  BY <1>3, <1>4, <1>5, <1>6 DEF DumpWallet, EnterPassphrase

\* Building the export document keeps it.
LEMMA ExportKeeps == ASSUME MigInv, NEW r \in Runs, ExportDocument(r) PROVE MigInv'
<1>1. run[r].pc = "export" /\ UNCHANGED Input /\ UNCHANGED Written
  BY DEF ExportDocument
<1>2. CASE To(r, "failed")
  BY <1>1, <1>2, RunFails DEF Early
<1>3. CASE /\ CheckNetwork
           /\ run' = [run EXCEPT ![r].pc = "check", ![r].exported = ExportHeight(r, 3), ![r].minted = Minted(r),
                                 ![r].fp = IF Minted(r) THEN r ELSE MnemonicFp]
  <2> DEFINE c == [run[r] EXCEPT !.pc = "check", !.exported = ExportHeight(r, 3), !.minted = Minted(r),
                                 !.fp = IF Minted(r) THEN r ELSE MnemonicFp]
  <2>1. DOMAIN run[r] = RunFields /\ DOMAIN run = Runs /\ RunRight(r, run[r])
    BY DEF MigInv
  <2>2. /\ DOMAIN c = RunFields /\ c.pc = "check" /\ c.minted = Minted(r)
        /\ c.fp = IF Minted(r) THEN r ELSE MnemonicFp
    BY <2>1 DEF RunFields
  <2>3. run' = [run EXCEPT ![r] = c]
    BY <1>3, <2>1
  <2>4. (Minted(r) => wallet.legacyAccount) /\ MnemonicFp \in {"none", "wallet"}
    BY DEF Minted, MnemonicFp
  <2>5. r \notin held /\ ~HasImported(r)
    BY <1>1, <2>1 DEF RunRight, Early
  <2> HIDE DEF c
  <2>6. RunRight(r, c)
    BY <1>3, <2>2, <2>4, <2>5 DEF RunRight, Early, Unwritten, Writing, Committed
  <2> QED
    BY <1>1, <2>2, <2>3, <2>5, <2>6, RunMoves
<1> QED
  BY <1>2, <1>3 DEF ExportDocument

\* Looking for an earlier import keeps it.
LEMMA CheckImportedKeeps == ASSUME MigInv, NEW r \in Runs, CheckImported(r) PROVE MigInv'
<1>1. run[r].pc = "check" /\ UNCHANGED Input /\ UNCHANGED Written /\ (To(r, "birthday") \/ To(r, "failed"))
  BY DEF CheckImported
<1>2. CASE To(r, "failed")
  BY <1>1, <1>2, RunFails DEF Unwritten
<1>3. CASE To(r, "birthday")
  <2> DEFINE c == [run[r] EXCEPT !.pc = "birthday"]
  <2>1. DOMAIN run[r] = RunFields /\ RunRight(r, run[r])
    BY DEF MigInv
  <2>2. DOMAIN c = RunFields /\ c.pc = "birthday" /\ c.minted = run[r].minted /\ c.fp = run[r].fp
    BY <2>1 DEF RunFields
  <2> HIDE DEF c
  <2>3. RunRight(r, c)
    BY <1>1, <2>1, <2>2 DEF RunRight, Early, Unwritten, Writing, Committed
  <2> QED
    BY <1>1, <1>3, <2>2, <2>3, RunMoves DEF c, To
<1> QED
  BY <1>1, <1>2, <1>3

\* The earliest resolved height is before every block of the wallet's that is after Sapling.
LEMMA EarliestCovers ==
  ASSUME MigInv, NEW b \in DOMAIN chain, chain[b] >= Activation
  PROVE  EarliestBlock(3) <= chain[b]
<1> DEFINE known == {chain[x] : x \in DOMAIN chain}
<1>1. known \subseteq 1..3 /\ chain[b] \in known
  BY DEF MigInv
<1>2. \A x \in known : x \in {1, 2, 3}
  BY <1>1
<1> HIDE DEF known
<1>3. \E m \in known : \A y \in known : m <= y
  <2>1. CASE 1 \in known
    BY <1>2, <2>1
  <2>2. CASE 1 \notin known /\ 2 \in known
    BY <1>2, <2>2
  <2>3. CASE 1 \notin known /\ 2 \notin known
    <3>1. \A y \in known : y = 3
      BY <1>2, <2>3
    <3>2. 3 \in known
      BY <1>1, <3>1
    <3>3. \A y \in known : 3 <= y
      BY <3>1
    <3> QED
      BY <3>2, <3>3
  <2> QED
    BY <2>1, <2>2, <2>3
<1>4. Min(known) \in known /\ \A y \in known : Min(known) <= y
  BY <1>3, Zenon DEF Min
<1>5. Min(known) \in Nat /\ Min(known) <= chain[b] /\ chain[b] \in Nat
  <2>1. Min(known) \in {1, 2, 3} /\ chain[b] \in {1, 2, 3} /\ Min(known) <= chain[b]
    BY <1>1, <1>2, <1>4, Zenon
  <2> QED
    BY <2>1
<1>6. \E x \in {Activation, Min(known)} : \A y \in {Activation, Min(known)} : x >= y
  BY <1>5, MigAssumption
<1>7. Max({Activation, Min(known)}) \in {Activation, Min(known)}
  BY <1>6, Zenon DEF Max
<1>8. EarliestBlock(3) = Max({Activation, Min(known)})
  BY <1>1 DEF EarliestBlock, known
<1> QED
  BY <1>5, <1>7, <1>8

\* Choosing the birthday keeps it.
LEMMA BirthdayKeeps == ASSUME MigInv, NEW r \in Runs, Birthday(r) PROVE MigInv'
<1>1. run[r].pc = "birthday" /\ UNCHANGED Input /\ UNCHANGED Written
  BY DEF Birthday
<1>2. CASE To(r, "failed")
  BY <1>1, <1>2, RunFails DEF Unwritten
<1>3. ASSUME NEW n, run[r].scan => n = EarliestBlock(3), run' = [run EXCEPT ![r].pc = "seed", ![r].birthday = n]
      PROVE  MigInv'
  <2> DEFINE c == [run[r] EXCEPT !.pc = "seed", !.birthday = n]
  <2>1. DOMAIN run[r] = RunFields /\ DOMAIN run = Runs /\ RunRight(r, run[r])
    BY DEF MigInv
  <2>2. /\ DOMAIN c = RunFields /\ c.pc = "seed" /\ c.minted = run[r].minted /\ c.fp = run[r].fp
        /\ c.scan = run[r].scan /\ c.birthday = n
    BY <2>1 DEF RunFields
  <2>3. run' = [run EXCEPT ![r] = c]
    BY <1>3, <2>1
  <2> HIDE DEF c
  <2>4. Covers(c)
    BY <1>3, <2>2, EarliestCovers DEF Covers
  <2>5. RunRight(r, c)
    BY <1>1, <2>1, <2>2, <2>4 DEF RunRight, Early, Unwritten, Writing, Committed
  <2> QED
    BY <1>1, <2>2, <2>3, <2>5, RunMoves
<1> QED
  BY <1>2, <1>3 DEF Birthday
\* What every step that writes keeps of the other runs, when it takes no seed but its own run's,
\* and keeps every import's run, seed and keys.
LEMMA OtherRunsKeep ==
  ASSUME MigInv, NEW r \in Runs, NEW c, run' = [run EXCEPT ![r] = c], DOMAIN c = RunFields,
         UNCHANGED Input, keyring \subseteq keyring',
         \A x \in held : x = r \/ x \in held', \A x \in held' : x \in Runs => x = r \/ x \in held,
         \A i \in imports : \E j \in imports' : j.by = i.by /\ j.fp = i.fp /\ j.keys = i.keys,
         \A j \in imports' : j.by = r \/ \E i \in imports : j.by = i.by,
         \A j \in imports' : ImportRight(j)',
         RunRight(r, c)', c.pc = "done" => run[r].pc = "done" /\ c.partial = run[r].partial,
         imports' # {} => CheckNetwork
  PROVE  MigInv'
<1>1. /\ DOMAIN run' = Runs /\ run' = [t \in Runs |-> run'[t]] /\ \A t \in Runs : DOMAIN run'[t] = RunFields
      /\ run'[r] = c /\ \A t \in Runs : t # r => run'[t] = run[t]
  BY DEF MigInv
<1>2. wallet' = wallet /\ chain' = chain
  BY DEF Input
<1>3. \A t \in Runs : t # r => (HasImported(t) <=> HasImported(t)') /\ (t \in held <=> t \in held')
  BY DEF HasImported
<1>4. ASSUME NEW t \in Runs PROVE RunRight(t, run[t])'
  <2>1. CASE t = r
    BY <1>1, <2>1
  <2>2. CASE t # r
    <3>1. RunRight(t, run[t]) /\ run'[t] = run[t] /\ (HasImported(t) <=> HasImported(t)')
          /\ (t \in held <=> t \in held')
      BY <1>1, <1>3, <2>2 DEF MigInv
    <3>2. run[t].fp \in held => run[t].fp \in held'
      <4>1. run[t].fp # r
        BY <2>2, <3>1, MigAssumption DEF RunRight
      <4> QED
        BY <4>1
    <3>3. Covers(run[t]) => Covers(run[t])'
      BY <1>2, <3>1 DEF Covers
    <3>4. CheckNetwork <=> CheckNetwork'
      BY <1>2 DEF CheckNetwork
    <3> HIDE DEF HasImported, CheckNetwork
    <3> QED
      BY <1>2, <3>1, <3>2, <3>3, <3>4 DEF RunRight
  <2> QED
    BY <2>1, <2>2
<1>5. SuccessIsComplete'
  <2> SUFFICES ASSUME NEW t \in Runs, run'[t].pc = "done", ~run'[t].partial
               PROVE  ~wallet.sprout /\ \E j \in imports' : j.by = t /\ j.keys = wallet.keys
                                                         /\ (wallet.legacyAccount => j.fp # "none")
    BY <1>2 DEF SuccessIsComplete, Mine
  <2>1. run[t].pc = "done" /\ ~run[t].partial
    BY <1>1
  <2>2. ~wallet.sprout /\ \E i \in imports : i.by = t /\ i.keys = wallet.keys
                                          /\ (wallet.legacyAccount => i.fp # "none")
    BY <2>1 DEF MigInv, SuccessIsComplete, Mine
  <2> QED
    BY <2>2
<1> QED
  BY <1>1, <1>2, <1>4, <1>5 DEF MigInv, CheckNetwork

\* Storing the seed keeps it.
LEMMA StoreSeedKeeps == ASSUME MigInv, NEW r \in Runs, StoreSeed(r) PROVE MigInv'
<1>1. run[r].pc = "seed" /\ UNCHANGED <<keyring, imports>> /\ UNCHANGED Input
  BY DEF StoreSeed
<1>2. DOMAIN run[r] = RunFields /\ DOMAIN run = Runs /\ RunRight(r, run[r]) /\ \A i \in imports : ImportRight(i)
  BY DEF MigInv
<1>3. PICK some \in SUBSET SeedsToStore(r), q \in {"keys", "undo"} :
        held' = held \cup some /\ To(r, q) /\ (q = "keys" => some = SeedsToStore(r))
  BY DEF StoreSeed
<1>c. PICK c : c = [run[r] EXCEPT !.pc = q]
  OBVIOUS
<1>4. /\ DOMAIN c = RunFields /\ c.pc = q /\ c.minted = run[r].minted /\ c.fp = run[r].fp
      /\ c.scan = run[r].scan /\ c.birthday = run[r].birthday
  BY <1>2, <1>c DEF RunFields
<1>5. run' = [run EXCEPT ![r] = c]
  BY <1>3, <1>c DEF To
<1>6. \A x \in SeedsToStore(r) : x \in {"wallet", "legacy", r}
  BY <1>2 DEF SeedsToStore, RunRight
<1>7. c.fp = "none" \/ c.fp \in SeedsToStore(r)
  BY <1>4 DEF SeedsToStore
<1>8. RunRight(r, c)'
  <2>1. /\ c.fp \in {"none", "wallet", r} /\ (c.minted => c.fp = r /\ wallet.legacyAccount) /\ CheckNetwork
        /\ Covers(c) /\ ~HasImported(r)
    BY <1>1, <1>2, <1>4 DEF RunRight, Unwritten, Covers
  <2>2. CheckNetwork' /\ Covers(c)' /\ ~HasImported(r)' /\ wallet' = wallet
    BY <1>1, <2>1 DEF CheckNetwork, Covers, HasImported, Input
  <2>3. q = "keys" => c.fp = "none" \/ c.fp \in held'
    BY <1>3, <1>7
  <2> QED
    BY <1>4, <2>1, <2>2, <2>3 DEF RunRight, Early, Unwritten, Writing, Committed
<1>9. ASSUME NEW i \in imports PROVE ImportRight(i)'
  <2>1. ImportRight(i) /\ run'[i.by].minted = run[i.by].minted
    BY <1>2, <1>4, <1>5 DEF ImportRight
  <2> QED
    BY <1>1, <1>3, <2>1 DEF ImportRight
<1> QED
  BY <1>1, <1>3, <1>4, <1>5, <1>6, <1>8, <1>9, OtherRunsKeep, MigAssumption DEF MigInv

\* Storing the standalone keys keeps it.
LEMMA StoreKeysKeeps == ASSUME MigInv, NEW r \in Runs, StoreKeys(r) PROVE MigInv'
<1>1. run[r].pc = "keys" /\ UNCHANGED <<held, imports>> /\ UNCHANGED Input
  BY DEF StoreKeys
<1>2. DOMAIN run[r] = RunFields /\ DOMAIN run = Runs /\ RunRight(r, run[r]) /\ \A i \in imports : ImportRight(i)
  BY DEF MigInv
<1>3. PICK some \in SUBSET wallet.keys, q \in {"import", "undo"} :
        keyring' = keyring \cup some /\ To(r, q) /\ (q = "import" => some = wallet.keys)
  BY DEF StoreKeys
<1>c. PICK c : c = [run[r] EXCEPT !.pc = q]
  OBVIOUS
<1>4. /\ DOMAIN c = RunFields /\ c.pc = q /\ c.minted = run[r].minted /\ c.fp = run[r].fp
      /\ c.scan = run[r].scan /\ c.birthday = run[r].birthday
  BY <1>2, <1>c DEF RunFields
<1>5. run' = [run EXCEPT ![r] = c]
  BY <1>3, <1>c DEF To
<1>6. RunRight(r, c)'
  <2>1. /\ c.fp \in {"none", "wallet", r} /\ (c.minted => c.fp = r /\ wallet.legacyAccount) /\ CheckNetwork
        /\ Covers(c) /\ ~HasImported(r) /\ (c.fp = "none" \/ c.fp \in held)
    BY <1>1, <1>2, <1>4 DEF RunRight, Writing, Covers
  <2>2. CheckNetwork' /\ Covers(c)' /\ ~HasImported(r)' /\ wallet' = wallet /\ held' = held
    BY <1>1, <2>1 DEF CheckNetwork, Covers, HasImported, Input
  <2>3. q = "import" => wallet.keys \subseteq keyring'
    BY <1>3
  <2> QED
    BY <1>4, <2>1, <2>2, <2>3 DEF RunRight, Early, Unwritten, Writing, Committed
<1>7. ASSUME NEW i \in imports PROVE ImportRight(i)'
  <2>1. ImportRight(i) /\ run'[i.by].minted = run[i.by].minted
    BY <1>2, <1>4, <1>5 DEF ImportRight
  <2> QED
    BY <1>1, <1>3, <2>1 DEF ImportRight
<1> QED
  BY <1>1, <1>3, <1>4, <1>5, <1>6, <1>7, OtherRunsKeep DEF MigInv

\* The import's transaction keeps it: what it refers to is stored before it.
LEMMA ImportKeeps == ASSUME MigInv, NEW r \in Runs, Import(r) PROVE MigInv'
<1>1. run[r].pc = "import" /\ UNCHANGED <<held, keyring>> /\ UNCHANGED Input
  BY DEF Import
<1>2. DOMAIN run[r] = RunFields /\ DOMAIN run = Runs /\ RunRight(r, run[r]) /\ \A i \in imports : ImportRight(i)
  BY DEF MigInv
<1> DEFINE mine == [by |-> r, keys |-> TakenKeys(r), watch |-> FALSE,
                    fp |-> IF TakesAccount(r) THEN run[r].fp ELSE "none"]
<1>3. PICK q \in {"watch", "undo"}, new \in SUBSET {mine} :
        To(r, q) /\ imports' = imports \cup new /\ (q = "watch" <=> new # {})
  BY DEF Import
<1>4. PICK c : c = [run[r] EXCEPT !.pc = q]
  OBVIOUS
<1>5. /\ DOMAIN c = RunFields /\ c.pc = q /\ c.minted = run[r].minted /\ c.fp = run[r].fp
      /\ c.scan = run[r].scan /\ c.birthday = run[r].birthday
  BY <1>2, <1>4 DEF RunFields
<1>6. run' = [run EXCEPT ![r] = c]
  BY <1>3, <1>4 DEF To
<1>7. /\ c.fp \in {"none", "wallet", r} /\ (c.minted => c.fp = r /\ wallet.legacyAccount) /\ CheckNetwork
      /\ Covers(c) /\ ~HasImported(r) /\ (c.fp = "none" \/ c.fp \in held) /\ wallet.keys \subseteq keyring
  BY <1>1, <1>2, <1>5 DEF RunRight, Writing, Covers
<1>8. RunRight(r, c)'
  <2>1. CheckNetwork' /\ Covers(c)' /\ wallet' = wallet /\ held' = held
    BY <1>1, <1>7 DEF CheckNetwork, Covers, Input
  <2>2. HasImported(r)' <=> q = "watch"
    BY <1>3, <1>7 DEF HasImported
  <2> QED
    BY <1>5, <1>7, <2>1, <2>2 DEF RunRight, Early, Unwritten, Writing, Committed
<1>9. ASSUME NEW i \in imports' PROVE ImportRight(i)'
  <2>1. CASE i \in imports
    <3>1. ImportRight(i) /\ run'[i.by].minted = run[i.by].minted
      BY <1>2, <1>5, <1>6, <2>1 DEF ImportRight
    <3> QED
      BY <1>1, <3>1 DEF ImportRight
  <2>2. CASE i = mine
    <3>1. i.by = r /\ i = [by |-> i.by, keys |-> i.keys, watch |-> i.watch, fp |-> i.fp]
      BY <2>2
    <3>2. i.keys \subseteq keyring'
      BY <1>1, <1>7, <2>2 DEF TakenKeys
    <3>3. i.fp \in {"none", c.fp} /\ (wallet.legacyAccount => i.fp = c.fp)
      BY <1>5, <2>2 DEF TakesAccount
    <3>4. run'[r] = c
      BY <1>2, <1>6
    <3> HIDE DEF mine
    <3> QED
      BY <1>1, <1>7, <3>1, <3>2, <3>3, <3>4 DEF ImportRight
  <2> QED
    BY <1>3, <2>1, <2>2
<1>10. \A j \in imports' : j.by = r \/ \E i \in imports : j.by = i.by
  BY <1>3
<1> QED
  BY <1>1, <1>3, <1>5, <1>6, <1>7, <1>8, <1>9, <1>10, OtherRunsKeep

\* Removing a seed after a failed import keeps it: nothing refers to the seed.
LEMMA UndoKeeps == ASSUME MigInv, NEW r \in Runs, Undo(r) PROVE MigInv'
<1>1. run[r].pc = "undo" /\ UNCHANGED <<keyring, imports>> /\ UNCHANGED Input
  BY DEF Undo
<1>2. DOMAIN run[r] = RunFields /\ DOMAIN run = Runs /\ RunRight(r, run[r]) /\ \A i \in imports : ImportRight(i)
  BY DEF MigInv
<1>3. /\ run[r].fp \in {"none", "wallet", r} /\ (run[r].minted => run[r].fp = r /\ wallet.legacyAccount)
      /\ ~HasImported(r)
  BY <1>1, <1>2 DEF RunRight, Writing
<1>4. run[r].minted => ~Referenced(r)
  BY <1>2, <1>3, MigAssumption DEF Referenced, ImportRight, HasImported
<1>5. PICK c : /\ run' = [run EXCEPT ![r] = c] /\ DOMAIN c = RunFields /\ c.pc = "failed" /\ c.fp = run[r].fp
               /\ c.minted = run[r].minted /\ (c.kept \/ (run[r].minted => r \notin held'))
  <2>1. CASE held' = (IF run[r].minted /\ ~Referenced(r) THEN held \ {run[r].fp} ELSE held) /\ To(r, "failed")
    <3> DEFINE c == [run[r] EXCEPT !.pc = "failed"]
    <3>1. DOMAIN c = RunFields /\ c.pc = "failed" /\ c.fp = run[r].fp /\ c.minted = run[r].minted
      BY <1>2 DEF RunFields
    <3>2. run' = [run EXCEPT ![r] = c]
      BY <2>1 DEF To
    <3>3. run[r].minted => r \notin held'
      BY <1>3, <1>4, <2>1
    <3> HIDE DEF c
    <3> QED
      BY <3>1, <3>2, <3>3
  <2>2. CASE run' = [run EXCEPT ![r].pc = "failed", ![r].kept = TRUE]
    <3> DEFINE c == [run[r] EXCEPT !.pc = "failed", !.kept = TRUE]
    <3>1. DOMAIN c = RunFields /\ c.pc = "failed" /\ c.fp = run[r].fp /\ c.minted = run[r].minted /\ c.kept
      BY <1>2 DEF RunFields
    <3>2. run' = [run EXCEPT ![r] = c]
      BY <1>2, <2>2
    <3> HIDE DEF c
    <3> QED
      BY <3>1, <3>2
  <2> QED
    BY <2>1, <2>2 DEF Undo
<1>6. (\A x \in held : x = r \/ x \in held') /\ held' \subseteq held
      /\ (\A i \in imports : i.fp \in held => i.fp \in held')
  <2>1. held' = held \/ (run[r].minted /\ ~Referenced(r) /\ held' = held \ {run[r].fp})
    BY DEF Undo
  <2> QED
    BY <1>3, <2>1 DEF Referenced
<1>7. RunRight(r, c)'
  <2>1. ~HasImported(r)' /\ wallet' = wallet
    BY <1>1, <1>3 DEF HasImported, Input
  <2> QED
    BY <1>3, <1>5, <2>1 DEF RunRight, Early, Unwritten, Writing, Committed
<1>8. ASSUME NEW i \in imports PROVE ImportRight(i)'
  <2>1. ImportRight(i) /\ run'[i.by].minted = run[i.by].minted
    BY <1>2, <1>5 DEF ImportRight
  <2> QED
    BY <1>1, <1>6, <2>1 DEF ImportRight
<1> QED
  BY <1>1, <1>5, <1>6, <1>7, <1>8, OtherRunsKeep DEF MigInv

\* Registering the watch-only addresses keeps it.
LEMMA RegisterWatchKeeps == ASSUME MigInv, NEW r \in Runs, RegisterWatch(r) PROVE MigInv'
<1>1. run[r].pc = "watch" /\ UNCHANGED <<held, keyring>> /\ UNCHANGED Input
  BY DEF RegisterWatch
<1>2. DOMAIN run[r] = RunFields /\ DOMAIN run = Runs /\ RunRight(r, run[r]) /\ \A i \in imports : ImportRight(i)
  BY DEF MigInv
<1>3. CASE UNCHANGED imports /\ To(r, "failed")
  BY <1>1, <1>3, RunFails DEF Written
<1> DEFINE with(i) == IF i.by = r THEN [i EXCEPT !.watch = wallet.watch /\ i.fp # "none"] ELSE i
<1>4. CASE imports' = {with(i) : i \in imports} /\ To(r, "report")
  <2>1. PICK c : c = [run[r] EXCEPT !.pc = "report"]
    OBVIOUS
  <2>2. /\ DOMAIN c = RunFields /\ c.pc = "report" /\ c.minted = run[r].minted /\ c.fp = run[r].fp
        /\ c.scan = run[r].scan /\ c.birthday = run[r].birthday
    BY <1>2, <2>1 DEF RunFields
  <2>3. run' = [run EXCEPT ![r] = c]
    BY <1>4, <2>1 DEF To
  <2>4. ASSUME NEW i \in imports
        PROVE  /\ with(i).by = i.by /\ with(i).fp = i.fp /\ with(i).keys = i.keys
               /\ with(i) = [by |-> i.by, keys |-> i.keys, watch |-> with(i).watch, fp |-> i.fp]
    <3>1. i = [by |-> i.by, keys |-> i.keys, watch |-> i.watch, fp |-> i.fp]
      BY <1>2 DEF ImportRight
    <3>2. DOMAIN i = {"by", "keys", "watch", "fp"}
      BY <3>1
    <3> QED
      BY <3>1, <3>2
  <2> HIDE DEF with
  <2>5. /\ \A i \in imports : \E j \in imports' : j.by = i.by /\ j.fp = i.fp /\ j.keys = i.keys
        /\ \A j \in imports' : \E i \in imports : j.by = i.by
    BY <1>4, <2>4
  <2>6. RunRight(r, c)'
    <3>1. /\ c.fp \in {"none", "wallet", r} /\ (c.minted => c.fp = r /\ wallet.legacyAccount) /\ CheckNetwork
          /\ Covers(c) /\ HasImported(r)
      BY <1>1, <1>2, <2>2 DEF RunRight, Committed, Covers
    <3>2. CheckNetwork' /\ Covers(c)' /\ HasImported(r)' /\ wallet' = wallet
      BY <1>1, <2>5, <3>1 DEF CheckNetwork, Covers, HasImported, Input
    <3> QED
      BY <2>2, <3>1, <3>2 DEF RunRight, Early, Unwritten, Writing, Committed
  <2>7. ASSUME NEW j \in imports' PROVE ImportRight(j)'
    <3>1. PICK i \in imports : j = with(i)
      BY <1>4
    <3>2. ImportRight(i) /\ run'[i.by].minted = run[i.by].minted
      BY <1>2, <2>2, <2>3 DEF ImportRight
    <3> QED
      BY <1>1, <2>4, <3>1, <3>2 DEF ImportRight
  <2> QED
    BY <1>1, <2>2, <2>3, <2>5, <2>6, <2>7, OtherRunsKeep DEF MigInv
<1> QED
  BY <1>3, <1>4 DEF RegisterWatch

\* Checking the report keeps it: a run ends well only when nothing is missing.
LEMMA CheckReportKeeps == ASSUME MigInv, NEW r \in Runs, CheckReport(r) PROVE MigInv'
<1>1. run[r].pc = "report" /\ UNCHANGED Written /\ UNCHANGED Input
  BY DEF CheckReport
<1>2. DOMAIN run[r] = RunFields /\ DOMAIN run = Runs /\ RunRight(r, run[r]) /\ \A i \in imports : ImportRight(i)
  BY DEF MigInv
<1>3. CASE To(r, "failed")
  BY <1>1, <1>3, RunFails
<1>4. CASE /\ ~(NothingImported(r) \/ (LeftBehind(r) /\ ~run[r].partial))
           /\ run' = [run EXCEPT ![r].pc = "done", ![r].reminded = TRUE]
  <2> DEFINE c == [run[r] EXCEPT !.pc = "done", !.reminded = TRUE]
  <2>1. /\ DOMAIN c = RunFields /\ c.pc = "done" /\ c.minted = run[r].minted /\ c.fp = run[r].fp
        /\ c.scan = run[r].scan /\ c.birthday = run[r].birthday /\ c.partial = run[r].partial
    BY <1>2 DEF RunFields
  <2>2. run' = [run EXCEPT ![r] = c]
    BY <1>2, <1>4
  <2> HIDE DEF c
  <2>3. HasImported(r)
    BY <1>1, <1>2 DEF RunRight, Committed
  <2>4. run[r].minted => r \in held
    BY <1>2, <2>3, MigAssumption DEF ImportRight, HasImported
  <2>5. RunRight(r, c)
    BY <1>1, <1>2, <2>1, <2>3, <2>4 DEF RunRight, Covers, Early, Unwritten, Writing, Committed
  <2>6. ~c.partial => Complete(r)
    BY <1>4, <2>1, <2>3 DEF Complete, NothingImported, LeftBehind, Mine, HasImported
  <2> QED
    BY <1>1, <2>1, <2>2, <2>5, <2>6, RunMoves
<1> QED
  BY <1>3, <1>4 DEF CheckReport

\* A run killed anywhere keeps it.
LEMMA KillKeeps == ASSUME MigInv, NEW r \in Runs, Kill(r) PROVE MigInv'
<1> DEFINE c == [run[r] EXCEPT !.pc = "killed"]
<1>1. DOMAIN run[r] = RunFields /\ RunRight(r, run[r])
  BY DEF MigInv
<1>2. DOMAIN c = RunFields /\ c.pc = "killed" /\ c.minted = run[r].minted /\ c.fp = run[r].fp
  BY <1>1 DEF RunFields
<1>3. run' = [run EXCEPT ![r] = c] /\ UNCHANGED Input /\ UNCHANGED Written
  BY DEF Kill, To
<1> HIDE DEF c
<1>4. RunRight(r, c)
  BY <1>1, <1>2 DEF RunRight, Early, Unwritten, Writing, Committed
<1> QED
  BY <1>2, <1>3, <1>4, RunMoves

\* It is inductive.
LEMMA MigStep == MigInv /\ [MigNext]_migVars => MigInv'
<1> SUFFICES ASSUME MigInv, [MigNext]_migVars PROVE MigInv'
  OBVIOUS
<1>1. CASE UNCHANGED migVars
  BY <1>1 DEF migVars, MigInv, RunRight, ImportRight, SuccessIsComplete, Mine, HasImported, Covers, CheckNetwork
<1> QED
  BY <1>1, StartKeeps, OpenKeeps, ExportKeeps, CheckImportedKeeps, BirthdayKeeps, StoreSeedKeeps, StoreKeysKeeps,
     ImportKeeps, UndoKeeps, RegisterWatchKeeps, CheckReportKeeps, KillKeeps DEF MigNext

\* Whatever fails or is killed, any number of migrations over one wallet leave no
\* account without its secrets and no seed that nothing refers to, import only on the
\* wallet's network with a birthday that covers its history, and report success only
\* when nothing is missing.
THEOREM MigrationIsSound == MigSpec => []MigrationSound
<1>1. ASSUME MigInv PROVE MigrationSound
  <2>1. ImportedAreHeld
    BY <1>1 DEF MigInv, ImportRight, ImportedAreHeld
  <2>2. ImportedOnNetwork /\ SuccessIsComplete
    BY <1>1 DEF MigInv, ImportedOnNetwork
  <2>3. NoOrphanSeeds
    <3> SUFFICES ASSUME NEW r \in Runs, run[r].minted, run[r].pc \in {"failed", "done"}, ~run[r].kept
                 PROVE  r \in held <=> Referenced(r)
      BY DEF NoOrphanSeeds
    <3>1. RunRight(r, run[r]) /\ \A i \in imports : ImportRight(i)
      BY <1>1 DEF MigInv
    <3>2. run[r].fp = r /\ (r \in held <=> HasImported(r))
      BY <3>1 DEF RunRight
    <3>3. HasImported(r) <=> Referenced(r)
      BY <3>1, <3>2, MigAssumption DEF HasImported, Referenced, ImportRight
    <3> QED
      BY <3>2, <3>3
  <2>4. BirthdayCoversHistory
    BY <1>1 DEF MigInv, RunRight, Covers, Committed, BirthdayCoversHistory
  <2> QED
    BY <2>1, <2>2, <2>3, <2>4 DEF MigrationSound
<1> QED
  BY <1>1, MigStarts, MigStep, PTL DEF MigSpec
=============================================================================
