----------------------------- MODULE AccountBook -----------------------------
(***************************************************************************)
(* Accounts and addresses as the RPC calls name and list them:             *)
(* z_getaddressforaccount, whose account may be given by UUID or, as zcashd *)
(* did, by its ZIP 32 index; listaddresses; z_listaccounts.  Each is a      *)
(* sequence of reads of a wallet that other calls, and the migration of a   *)
(* zcashd wallet, add accounts, seeds and addresses to.  Nothing removes    *)
(* one.                                                                     *)
(***************************************************************************)
EXTENDS Naturals, FiniteSets

CONSTANTS
  AccountData,   \* [account -> [seed, index]], seed "none" for an imported key
  AddressData,   \* [address -> [account, type, scope, receivers]]
  Asks,          \* the requests: [kind, by, account or number, receivers]
  LegacySeeds,   \* the non-mnemonic seeds of zcashd wallets
  LegacyAccount  \* ZCASH_LEGACY_ACCOUNT

VARIABLES
  present,      \* accounts in the wallet
  knownSeeds,   \* legacy seeds in the keystore
  confirmed,    \* seeds whose backup is confirmed
  backedUp,     \* history: seeds that were confirmed at some time
  known,        \* addresses in the wallet's table
  ask, step,    \* the request, and how far it is
  sawLegacy,    \* list_legacy_seed_fingerprints, as read
  before,       \* history: the wallet when the request began
  picked,       \* the account the parameter names
  todo, listed, \* accounts still to list, and the entries so far
  handed        \* the address handed out

bookVars == <<present, knownSeeds, confirmed, backedUp, known, ask, step, sawLegacy, before, picked, todo, listed, handed>>
walletVars == <<present, knownSeeds, confirmed, backedUp, known>>
callVars == <<ask, step, sawLegacy, before, picked, todo, listed, handed>>

BookAccounts == DOMAIN AccountData
DerivedAccount(a) == AccountData[a].seed # "none"
SeedsUsed == {AccountData[a].seed : a \in BookAccounts} \ {"none"}
AddressesOf(a) == {x \in known : AddressData[x].account = a}

NoWallet == [accounts |-> {}, addresses |-> {}]

BookInit ==
  /\ present \in SUBSET BookAccounts
  /\ knownSeeds = {s \in LegacySeeds : \E a \in present : AccountData[a].seed = s}
  /\ confirmed \in SUBSET (SeedsUsed \ LegacySeeds) /\ backedUp = confirmed
  /\ known = {x \in DOMAIN AddressData : AddressData[x].account \in present /\ AddressData[x].type # "unified"}
  /\ ask \in Asks /\ step = "new" /\ sawLegacy = {} /\ before = NoWallet
  /\ picked = "none" /\ todo = {} /\ listed = {} /\ handed = "none"

Answered(how) == step' = how

(* The account parameter *)

\* A number is read as a ZIP 32 index, but never as the legacy account's.
BeginRequest ==
  /\ step = "new"
  /\ before' = [accounts |-> present, addresses |-> known]
  /\ \/ ask.kind = "list" /\ todo' = present /\ step' = "listing" /\ UNCHANGED picked
     \/ ask.kind = "address" /\ ask.by = "uuid" /\ picked' = ask.account /\ step' = "gate" /\ UNCHANGED todo
     \/ /\ ask.kind = "address" /\ ask.by = "number"
        /\ Answered(IF ask.number < LegacyAccount THEN "seeds" ELSE "refused")
        /\ UNCHANGED <<todo, picked>>
  /\ UNCHANGED <<ask, sawLegacy, listed, handed>> /\ UNCHANGED walletVars

\* keystore.list_legacy_seed_fingerprints().await.
ReadLegacy ==
  /\ step = "seeds"
  /\ sawLegacy' = knownSeeds /\ step' = "lookup"
  /\ UNCHANGED <<ask, before, picked, todo, listed, handed>> /\ UNCHANGED walletVars

\* The accounts that count: with a derivation, and not from a legacy seed.
IndexedAccounts == {a \in present : DerivedAccount(a) /\ AccountData[a].seed \notin sawLegacy}
DistinctSeeds == {AccountData[a].seed : a \in IndexedAccounts}

LookupAnySeed ==
  /\ step = "lookup"
  /\ LET hits == {a \in IndexedAccounts : AccountData[a].index = ask.number}
     IN  \/ hits # {} /\ picked' \in hits /\ step' = "gate"
         \/ hits = {} /\ Answered("refused") /\ UNCHANGED picked
  /\ UNCHANGED <<ask, sawLegacy, before, todo, listed, handed>> /\ UNCHANGED walletVars

\* The number names an account only while all candidates share one seed.
LookupIndex ==
  /\ step = "lookup"
  /\ LET hits == {a \in IndexedAccounts : AccountData[a].index = ask.number}
     IN  IF Cardinality(DistinctSeeds) = 1 /\ hits # {}
         THEN picked' \in hits /\ step' = "gate"
         ELSE Answered("refused") /\ UNCHANGED picked
  /\ UNCHANGED <<ask, sawLegacy, before, todo, listed, handed>> /\ UNCHANGED walletVars

(* z_getaddressforaccount *)

BackupGateOpen ==
  /\ step = "gate" /\ step' = "derive"
  /\ UNCHANGED <<ask, sawLegacy, before, picked, todo, listed, handed>> /\ UNCHANGED walletVars
\* The account's seed, if it has one, must have a confirmed backup.
BackupGate ==
  /\ step = "gate"
  /\ LET gated == picked \in present /\ DerivedAccount(picked) /\ AccountData[picked].seed \notin confirmed
     IN  Answered(IF gated THEN "refused" ELSE "derive")
  /\ UNCHANGED <<ask, sawLegacy, before, picked, todo, listed, handed>> /\ UNCHANGED walletVars

ShieldedReceivers == {"orchard", "sapling"}
\* No receiver types: all three.  Otherwise exactly those, one of them shielded.
ReceiverTypes == IF ask.receivers = {} THEN ShieldedReceivers \cup {"p2pkh"} ELSE ask.receivers
ReceiversValid ==
  ReceiverTypes \subseteq ShieldedReceivers \cup {"p2pkh"} /\ ReceiverTypes \cap ShieldedReceivers # {}

\* The next address with those receivers, or the one at a given index, known already or not.
NextAvailable ==
  {x \in DOMAIN AddressData : /\ AddressData[x].account = picked /\ AddressData[x].type = "unified"
                              /\ AddressData[x].receivers = ReceiverTypes}

DeriveAddress ==
  /\ step = "derive"
  /\ IF ReceiversValid /\ picked \in present /\ NextAvailable # {}
     THEN \E x \in NextAvailable : handed' = x /\ known' = known \cup {x} /\ step' = "answered"
     ELSE Answered("refused") /\ UNCHANGED <<handed, known>>
  /\ UNCHANGED <<present, knownSeeds, confirmed, backedUp, ask, sawLegacy, before, picked, todo, listed>>

(* listaddresses and z_listaccounts *)

\* Derived accounts under "mnemonic_seed", imported ones under "imported_watchonly".
SourceOf(a) == IF DerivedAccount(a) THEN "mnemonic_seed" ELSE "imported_watchonly"

\* Which list of its source an address is in.  Without a derivation the transparent ones share
\* one list, which has no place for ephemeral addresses.
ListOf(x) ==
  LET d == AddressData[x]
      derived == DerivedAccount(d.account)
      transparent == CASE d.scope \in {"external", "imported"} -> "addresses"
                       [] d.scope = "internal"  -> "changeAddresses"
                       [] d.scope = "ephemeral" -> IF derived THEN "ephemeralAddresses" ELSE "unlisted"
  IN  IF d.type = "transparent" THEN transparent ELSE d.type

\* One entry per address; z_listaccounts leaves out the lists.
EntryOf(x) == [source |-> SourceOf(AddressData[x].account), list |-> ListOf(x), address |-> x]
ListedFor(a) == {EntryOf(x) : x \in {y \in AddressesOf(a) : ListOf(y) # "unlisted"}}

\* One account: its row, then its addresses.
ListAccount ==
  /\ step = "listing"
  /\ IF todo = {} THEN step' = "answered" /\ UNCHANGED <<todo, listed>>
                  ELSE \E a \in todo : todo' = todo \ {a} /\ listed' = listed \cup ListedFor(a) /\ UNCHANGED step
  /\ UNCHANGED <<ask, sawLegacy, before, picked, handed>> /\ UNCHANGED walletVars

(* The rest of the wallet *)

\* z_getnewaccount, z_importkey, or the migration, which stores a legacy seed first.  The UUID is
\* fresh, so it is not the one a running request named.
AddAccount ==
  \E a \in BookAccounts \ (present \cup {picked}) :
    /\ AccountData[a].seed \in LegacySeeds => AccountData[a].seed \in knownSeeds
    /\ present' = present \cup {a}
    /\ known' = known \cup {x \in DOMAIN AddressData : AddressData[x].account = a /\ AddressData[x].type # "unified"}
    /\ UNCHANGED <<knownSeeds, confirmed, backedUp>>
StoreLegacy ==
  \E s \in LegacySeeds \ knownSeeds : knownSeeds' = knownSeeds \cup {s} /\ UNCHANGED <<present, confirmed, backedUp, known>>
\* A backup is confirmed, or the confirmation withdrawn as the phrase is stored anew.
ToggleBackup ==
  \E s \in SeedsUsed \ LegacySeeds :
    /\ confirmed' = IF s \in confirmed THEN confirmed \ {s} ELSE confirmed \cup {s}
    /\ backedUp' = backedUp \cup confirmed'
    /\ UNCHANGED <<present, knownSeeds, known>>

BookMoves == step \notin {"new", "answered", "refused"} /\ (AddAccount \/ StoreLegacy \/ ToggleBackup) /\ UNCHANGED callVars
BookNext == BeginRequest \/ ReadLegacy \/ LookupIndex \/ BackupGate \/ DeriveAddress \/ ListAccount \/ BookMoves

\* An account given by number is never a guess: the account handed an address is at that index,
\* not of a seed the keystore knew to be legacy when it was asked, and of the only other seed
\* that any account had when the request began (parse_account_parameter, across the await
\* between its two reads).
NumberIsUnambiguous ==
  handed # "none" /\ ask.by = "number" =>
    /\ AccountData[picked].index = ask.number /\ AccountData[picked].seed \notin sawLegacy
    /\ \A a \in before.accounts :
         DerivedAccount(a) /\ AccountData[a].seed \notin LegacySeeds => AccountData[a].seed = AccountData[picked].seed

\* No address of an account derived from a seed that was never confirmed to be backed up is
\* handed out, and none without a shielded receiver (the gate of get_address_for_account).
OnlyBackedUpReceive ==
  handed # "none" =>
    /\ AccountData[picked].seed \in backedUp \cup {"none"}
    /\ AddressData[handed].receivers \cap ShieldedReceivers # {}

\* A listing misses no address the wallet had when it began, lists each once, and shows none
\* that the wallet does not have; only ephemeral addresses without a derivation are left out
\* (list_addresses, which reads account by account).
ListingComplete ==
  step = "answered" /\ ask.kind = "list" =>
    /\ {x \in before.addresses : ListOf(x) # "unlisted"} \subseteq {e.address : e \in listed}
    /\ {e.address : e \in listed} \subseteq known
    /\ \A e, f \in listed : e.address = f.address => e = f

AccountBookRight == NumberIsUnambiguous /\ OnlyBackedUpReceive /\ ListingComplete
=============================================================================
