------------------------------- MODULE Holdings -------------------------------
(* What the wallet holds, as its RPC methods report it.  z_listunspent reads    *)
(* the tables account by account and kind by kind while the scan goes on;       *)
(* z_getbalances, z_gettotalbalance and z_getbalanceforaccount each turn one    *)
(* summary of the wallet into an answer.                                        *)
EXTENDS Integers, FiniteSets, FiniteSetsExt

CONSTANTS Holders,    \* the wallet's accounts
          Outs,       \* the outputs the wallet may hold
          OutData,    \* each output's account, kind ("coin" or "note"), coinbase, address
          Moves,      \* the transactions
          MoveData,   \* each transaction's ins and outs, sets of outputs
          MaxScan,    \* bound on the height of the scan
          MaxUndone,  \* bound on the blocks that are rewound
          Confs,      \* the minconf and maxconf a caller may give
          Summaries,  \* the wallet summaries the balance methods may be given
          MoneyCap    \* MAX_MONEY

VARIABLES height,   \* chain_height: the last block scanned, 0 before any
          heightOf, \* Moves -> the height it is mined at, 0 when it is not
          made,     \* the transactions the wallet knows
          undone,   \* how many blocks were rewound
          query,    \* the z_listunspent call
          summary   \* get_wallet_summary for the balance methods: {} or the one

holdVars == <<height, heightOf, made, undone, query, summary>>

NoQuery == [pc |-> "idle", min |-> 1, max |-> {}, addrs |-> {}, target |-> 0, from |-> 0, undone |-> 0,
            todo |-> {}, holder |-> {}, reads |-> {}, notes |-> {}, listed |-> {}]

\* An Option of an element of S.
Optional(S) == {{}} \cup {{x} : x \in S}

HoldInit ==
  /\ height = 0 /\ heightOf = [m \in Moves |-> 0] /\ made = {} /\ undone = 0 /\ query = NoQuery
  /\ summary \in Optional(Summaries)

-----------------------------------------------------------------------------
(* The tables.                                                               *)

InputsMade(m) == MoveData[m].ins \subseteq UNION {MoveData[n].outs : n \in made}

\* A transaction the wallet made or met in the mempool, where there are no coinbase ones.
Learn(m) ==
  /\ m \notin made /\ InputsMade(m)
  /\ \A o \in MoveData[m].outs : ~OutData[o].coinbase
  /\ made' = made \cup {m}
  /\ UNCHANGED <<height, heightOf, undone, query, summary>>

ScanBlock ==
  /\ height < MaxScan
  /\ \E ms \in SUBSET {m \in Moves : heightOf[m] = 0 /\ InputsMade(m)} :
       /\ heightOf' = [m \in Moves |-> IF m \in ms THEN height + 1 ELSE heightOf[m]]
       /\ made' = made \cup ms
  /\ height' = height + 1
  /\ UNCHANGED <<undone, query, summary>>

\* A rewind: transactions of the dropped block are kept, unmined.
DropScanned ==
  /\ height > 0 /\ undone < MaxUndone
  /\ heightOf' = [m \in Moves |-> IF heightOf[m] = height THEN 0 ELSE heightOf[m]]
  /\ height' = height - 1 /\ undone' = undone + 1
  /\ UNCHANGED <<made, query, summary>>

MadeBy(o) == CHOOSE m \in Moves : o \in MoveData[m].outs

\* What the wallet has received and, as far as it knows, not spent.
Unspent(a) ==
  {o \in Outs : /\ OutData[o].account = a /\ MadeBy(o) \in made
                /\ \A m \in made : o \notin MoveData[m].ins}

-----------------------------------------------------------------------------
(* z_listunspent.                                                            *)

TablesRest == UNCHANGED <<height, heightOf, made, undone, summary>>

\* parse_as_of_height: -1 asks about now; what is before the first block is refused.
ParseAsOf(v) == [ok |-> v = -1 \/ v > 0, height |-> IF v > 0 THEN {v} ELSE {}]

\* parse_minconf: zero is refused when the query is about an earlier height.
ParseMinconf(min, asOf) == [ok |-> ~(min = {0} /\ asOf # {}), value |-> IF min = {} THEN 1 ELSE Max(min)]

\* Parameters, and the height the query is about.  Without one there is nothing to list.
ListStart(min, max, v, addrs) ==
  LET asOf == ParseAsOf(v)
      minconf == ParseMinconf(min, asOf.height)
      h == IF asOf.height = {} THEN height ELSE Max(asOf.height)
  IN /\ query.pc = "idle"
     /\ query' = [NoQuery EXCEPT !.pc = CASE ~asOf.ok \/ ~minconf.ok -> "refused"
                                          [] asOf.ok /\ minconf.ok /\ h = 0 -> "done"
                                          [] OTHER -> "next",
                                 !.min = minconf.value, !.max = max, !.addrs = addrs,
                                 !.target = h + 1, !.from = height, !.undone = undone,
                                 !.todo = Holders]
     /\ TablesRest

\* The queries an account's transparent receivers take: each for ordinary and coinbase outputs.
Filters == [coinbase : BOOLEAN, address : {OutData[o].address : o \in {p \in Outs : OutData[p].kind = "coin"}}]

NextAccount(a) ==
  /\ query.pc = "next" /\ a \in query.todo
  /\ query' = [query EXCEPT !.pc = "coins", !.todo = @ \ {a}, !.holder = {a}, !.reads = Filters]
  /\ TablesRest

\* confirmation_count: heights subtract down to zero, and an unmined output has none.
ConfirmationCount(target, mined) ==
  IF mined = 0 \/ mined >= target THEN 0 ELSE target - mined

\* confirmations_in_range: both bounds are inclusive.
ConfirmationsInRange(c) == c >= query.min /\ \A m \in query.max : c <= m

CountedNow(o) == ConfirmationCount(height + 1, heightOf[MadeBy(o)])

\* Confirmations as of the height the query is about.
Counted(o) == ConfirmationCount(query.target, heightOf[MadeBy(o)])

Listed(os) ==
  {[out |-> o, conf |-> Counted(o), generated |-> {}] :
    o \in {p \in os : ConfirmationsInRange(Counted(p))}}

MatchesAny(o, f) == OutData[o].address = f.address

\* The two filters tell coinbase outputs from the others.
Matches(o, f) == OutData[o].address = f.address /\ OutData[o].coinbase = f.coinbase

\* One query for outputs; with it come their heights.  The addresses asked for are not a filter.
ReadCoins(f) ==
  /\ query.pc = "coins" /\ f \in query.reads
  /\ LET found == {o \in UNION {Unspent(a) : a \in query.holder} :
                     OutData[o].kind = "coin" /\ Matches(o, f)}
     IN query' = [query EXCEPT !.reads = @ \ {f},
                               !.listed = @ \cup {[e EXCEPT !.generated = {f.coinbase}] : e \in Listed(found)}]
  /\ TablesRest

\* The notes of all pools, in one query.  A note must be at every address that was asked for.
ReadNotes ==
  /\ query.pc = "coins" /\ query.reads = {}
  /\ query' = [query EXCEPT !.pc = "notes",
                            !.notes = {o \in UNION {Unspent(a) : a \in query.holder} :
                                         /\ OutData[o].kind = "note"
                                         /\ \A addr \in query.addrs : OutData[o].address = addr}]
  /\ TablesRest

\* Each note's height is a query of its own.
ReadNoteHeight(o) ==
  /\ query.pc = "notes" /\ o \in query.notes
  /\ query' = [query EXCEPT !.notes = @ \ {o}, !.listed = @ \cup Listed({o})]
  /\ TablesRest

AccountDone ==
  /\ query.pc = "notes" /\ query.notes = {}
  /\ query' = [query EXCEPT !.pc = IF query.todo = {} THEN "done" ELSE "next"]
  /\ TablesRest

TableSteps == (\E m \in Moves : Learn(m)) \/ ScanBlock \/ DropScanned


ListSteps ==
  \/ \E min, max \in Optional(Confs), asOf \in (-2)..MaxScan,
        addrs \in SUBSET {OutData[o].address : o \in Outs} :
       Cardinality(addrs) <= 1 /\ ListStart(min, max, asOf, addrs)
  \/ \E a \in Holders : NextAccount(a)
  \/ \E f \in Filters : ReadCoins(f)
  \/ \E o \in Outs : ReadNoteHeight(o)
  \/ ReadNotes \/ AccountDone

HoldNext == TableSteps \/ ListSteps

-----------------------------------------------------------------------------
(* The balance methods.  A summary gives each account a balance in each       *)
(* bucket: the three shielded pools, ordinary and coinbase transparent funds. *)

ShieldedFunds == {"sapling", "orchard", "ironwood"}
TransparentFunds == {"regular", "coinbase"}
Buckets == ShieldedFunds \cup TransparentFunds

SumOver(S, f(_)) == MapThenSumSet(f, S)

\* The sum of amounts, or nothing when it exceeds MAX_MONEY.
Checked(amount) == IF amount <= MoneyCap THEN {amount} ELSE {}

Spendable(b) == b.spendable
Pending(b) == b.change + b.pending
Dust(b) == b.dust

\* AccountBalance::uneconomic_value covers every bucket.
UneconomicValue(a) == SumOver(Buckets, LAMBDA k : Dust(a[k]))

BalanceFromDoubled(a) ==
  {[spendable |-> s, pending |-> p,
    dust |-> UneconomicValue(a) + Dust(a["regular"]) + Dust(a["coinbase"])] :
    s \in Checked(SumOver(Buckets, LAMBDA k : Spendable(a[k]))),
    p \in Checked(SumOver(Buckets, LAMBDA k : Pending(a[k])))}

\* balance_from: the shielded pools and both transparent buckets.
BalanceFrom(a) ==
  {[spendable |-> s, pending |-> p, dust |-> UneconomicValue(a)] :
    s \in Checked(SumOver(ShieldedFunds, LAMBDA k : Spendable(a[k]))
                   + Spendable(a["regular"]) + Spendable(a["coinbase"])),
    p \in Checked(SumOver(ShieldedFunds, LAMBDA k : Pending(a[k]))
                   + Pending(a["regular"]) + Pending(a["coinbase"]))}

\* opt_balance_from: a bucket with nothing in it is left out.
OptBalanceFrom(b) ==
  IF Spendable(b) = 0 /\ Pending(b) = 0 /\ Dust(b) = 0 THEN {}
  ELSE {[spendable |-> Spendable(b), pending |-> Pending(b), dust |-> Dust(b)]}

\* account_balance_response.
AccountBalance(a) == [buckets |-> [k \in Buckets |-> OptBalanceFrom(a[k])], total |-> BalanceFrom(a)]

\* z_getbalances: nothing before a first summary, or when an account's total is too large.
GetBalances ==
  {[h \in Holders |-> AccountBalance(s[h])] :
    s \in {x \in summary : \A h \in Holders : BalanceFrom(x[h]) # {}}}

\* A bucket's total spans its spendable and pending funds.
Total(b) == Spendable(b) + Pending(b)

\* The funds of some kinds over all accounts; zero before a first summary.
FundsOf(kinds) ==
  SumOver(summary, LAMBDA s : SumOver(Holders, LAMBDA h : SumOver(kinds, LAMBDA k : Total(s[h][k]))))

\* z_gettotalbalance: the transparent and the private funds of all accounts, and their sum.
TotalBalance ==
  {[transparent |-> t, private |-> FundsOf(ShieldedFunds), total |-> sum] :
    t \in Checked(FundsOf(TransparentFunds)), sum \in Checked(FundsOf(Buckets))}

\* z_getbalanceforaccount: what each pool can spend, pools with nothing left out.
BalanceForAccount(s, h) ==
  [k \in ShieldedFunds \cup {"transparent"} |->
    LET v == IF k = "transparent" THEN SumOver(TransparentFunds, LAMBDA c : Spendable(s[h][c]))
                                  ELSE Spendable(s[h][k])
    IN IF v = 0 THEN {} ELSE {v}]

\* The confirmations policy each method makes of minconf: how many, and whether shielding may use
\* unconfirmed coins.
PolicyOf(minconf) ==
  CASE minconf = {} -> [confirmations |-> 1, zeroConf |-> FALSE]
    [] minconf = {0} -> [confirmations |-> 1, zeroConf |-> TRUE]
    [] OTHER -> [confirmations |-> Max(minconf), zeroConf |-> FALSE]

\* z_getbalanceforaccount's, which reads no minconf as zero.
AccountPolicyOf(minconf) ==
  IF minconf = {} \/ minconf = {0} THEN [confirmations |-> 1, zeroConf |-> TRUE]
  ELSE [confirmations |-> Max(minconf), zeroConf |-> FALSE]

\* The minconf it says it used.
EchoedMinconf(minconf) == IF minconf = {} THEN 1 ELSE Max(minconf)

-----------------------------------------------------------------------------

\* The reads of one z_listunspent are spread over a scan that goes on.  Unless blocks are rewound
\* meanwhile, a listing that asks for a confirmation never holds both an output and an output made
\* by spending it: everything is counted as of the height read first (target_height).
NeverBoth ==
  (query.pc = "done" /\ query.min >= 1 /\ query.undone = undone /\ query.target <= query.from + 1) =>
    \A e, f \in query.listed : e.out \notin MoveData[MadeBy(f.out)].ins

\* "nothing is dropped or duplicated": an output is listed once, and one that the wallet held
\* before the call, has not spent since and that is in range is listed.
EachOnce ==
  /\ \A e, f \in query.listed : e.out = f.out => e = f
  /\ (query.pc = "done" /\ query.undone = undone /\ query.addrs = {}) =>
       \A h \in Holders : \A o \in Unspent(h) :
         (heightOf[MadeBy(o)] \in 1..query.from /\ ConfirmationsInRange(Counted(o))) =>
           \E e \in query.listed : e.out = o

\* A listing is of one wallet: consistent in itself and complete.
ListingConsistent == NeverBoth /\ EachOnce

\* The methods agree: an account's total in z_getbalances is the sum of the buckets listed beside
\* it, every kind of fund counted once; z_gettotalbalance is the sum of those of the accounts; and
\* the pools of z_getbalanceforaccount add up to what is spendable.
TotalsAgree ==
  \A all \in GetBalances :
    /\ \A h \in Holders : \A t \in all[h].total :
         LET Of(f) == SumOver(Buckets, LAMBDA k : SumOver(all[h].buckets[k], LAMBDA b : b[f]))
         IN /\ t.spendable = Of("spendable") /\ t.pending = Of("pending") /\ t.dust = Of("dust")
            /\ \A s \in summary :
                 t.spendable = SumOver(ShieldedFunds \cup {"transparent"},
                                       LAMBDA k : SumOver(BalanceForAccount(s, h)[k], LAMBDA v : v))
    /\ \A w \in TotalBalance :
         /\ w.total = w.transparent + w.private
         /\ w.total = SumOver(Holders, LAMBDA h : SumOver(all[h].total, LAMBDA t : t.spendable + t.pending))

\* The method "echoes the effective `minconf` (defaulting to 1, as in zcashd)": what it answers
\* for no minconf is what it answers for the one it reports.
EchoIsEffective ==
  \A minconf \in Optional(Confs) :
    minconf # {0} => AccountPolicyOf(minconf) = AccountPolicyOf({EchoedMinconf(minconf)})
=============================================================================
