---------------------------- MODULE ConfMigration ----------------------------
(* `migrate-zcash-conf` and `example-config`: a zcash.conf is turned, line by  *)
(* line, into a Zallet config, or an example is made, and written to the       *)
(* wallet's own config file, to a file named with -o, or to standard output.   *)
(* The user edits the files in between, and a run may be interrupted.          *)
EXTENDS Integers, Sequences, SequencesExt, TLC

CONSTANTS ConfLines,  \* the lines a zcash.conf may have: [option, value]
          MaxLines,   \* the longest zcash.conf
          MaxRuns     \* bound on the commands that are run

VARIABLES conf,    \* the zcash.conf
          cmd,     \* the command that runs
          onDisk,  \* the file at each path
          ran      \* how many commands were run

confVars == <<conf, cmd, onDisk, ran>>

Paths == {"live", "named"}
NoCmd == [pc |-> "idle", kind |-> "migrate", allow |-> FALSE, force |-> FALSE, output |-> "live",
          config |-> {}]

ConfInit ==
  /\ \E n \in 0..MaxLines : conf \in [1..n -> ConfLines]
  /\ cmd = NoCmd /\ ran = 0
  /\ onDisk \in [Paths -> {"absent", "edited"}]

-----------------------------------------------------------------------------
(* What is done with each option.  A value is "0", "1", "4" (a number that is  *)
(* large enough), "pair" (two parts with a colon) or "text".                   *)

Numbers == {"0", "1", "4"}
Values == Numbers \cup {"pair", "text"}

\* Action::map_bool, and Action::map with each option's own parser.
Single ==
  [o \in {"spendzeroconfchange", "walletbroadcast", "walletrequirebackup"} |-> {"0", "1"}]
  @@ [o \in {"orchardactionlimit", "rpcservertimeout"} |-> Numbers]
  @@ [o \in {"walletnotify", "exportdir"} |-> Values]
  @@ [o \in {"txexpirydelta"} |-> {"4"}]

\* Action::map_related: options that set the network, when they are on.
Related == [o \in {"regtest", "testnet"} |-> "network"]

\* Action::map_multi.
Multi == [o \in {"rpcauth", "nuparams"} |-> {"pair"}] @@ [o \in {"rpcbind"} |-> {"text"}]

\* Action::warn: never for the value given here, always when there is none.
Warned ==
  [o \in {"disablewallet", "daemon"} |-> {"0"}] @@ [o \in {"flushwallet"} |-> {"1"}]
  @@ [o \in {"migration", "migrationdestaddress", "paytxfee", "rescan", "salvagewallet",
             "zapwallettxes", "preferredtxversion", "rpcport"} |-> {}]

\* Action::ignore, the options only the node used included; some of them.
IgnoredOptions == {"keypool", "wallet", "mintxfee", "genproclimit", "datadir", "rpccookiefile", "addnode",
                   "rpcuser", "txindex"}

-----------------------------------------------------------------------------

Start == [ok |-> TRUE, config |-> {}, observed |-> {}, related |-> {}, warned |-> FALSE]
Fail(s) == [s EXCEPT !.ok = FALSE]

\* A setting is what the config says: the option, or what related options share, and the value.
Set(s, key, value) == [s EXCEPT !.config = {c \in @ : c[1] # key} \cup {<<key, value>>}]

SetBefore(s, o) == o \in s.observed

\* An option set twice, or next to a related one.
Conflicts(s, o) == o \in s.observed \/ (o \in DOMAIN Related /\ Related[o] \in s.related)

\* One line: a conflict, a value that does not parse and an unknown option each end the migration.
Line(s, line) ==
  LET o == line.option
      v == line.value
      seen == [s EXCEPT !.observed = @ \cup {o}]
  IN IF ~s.ok THEN s
     ELSE CASE o \in DOMAIN Single ->
                 IF Conflicts(s, o) \/ v \notin Single[o] THEN Fail(s) ELSE Set(seen, o, v)
            [] o \in DOMAIN Related ->
                 IF Conflicts(s, o) THEN Fail(s)
                 ELSE LET related == [seen EXCEPT !.related = @ \cup {Related[o]}]
                      IN IF v = "1" THEN Set(related, Related[o], o) ELSE related
            [] o \in DOMAIN Multi ->
                 IF v \notin Multi[o] THEN Fail(s) ELSE [s EXCEPT !.config = @ \cup {<<o, v>>}]
            [] o \in DOMAIN Warned -> [s EXCEPT !.warned = @ \/ v \notin Warned[o]]
            [] o \in IgnoredOptions -> s
            [] OTHER -> Fail(s)

Migrated(lines) == FoldLeft(Line, Start, lines)

-----------------------------------------------------------------------------

Finish(pc) == cmd' = [cmd EXCEPT !.pc = pc]

AcceptsWarnings(m, allow) == m.ok

\* Warnings must be allowed by the user.
Accepts(m, allow) == m.ok /\ (m.warned => allow)

\* A command starts: the lines are read, and both commands ask for the flag that says the result
\* is for a beta.
Convert ==
  /\ cmd.pc \in {"idle", "done"} /\ ran < MaxRuns
  /\ ran' = ran + 1
  /\ \E kind \in {"migrate", "example"}, allow, force, beta \in BOOLEAN,
        output \in Paths \cup {"stdout"} :
       LET m == IF kind = "migrate" THEN Migrated(conf) ELSE Start
       IN cmd' = IF Accepts(m, allow) /\ beta
                 THEN [pc |-> "open", kind |-> kind, allow |-> allow, force |-> force,
                       output |-> output, config |-> m.config]
                 ELSE NoCmd
  /\ UNCHANGED <<conf, onDisk>>

OverwriteForced(force, named) == force

\* overwrite_allowed: only a file that was named.
OverwriteAllowed(force, named) == force /\ named

\* The file is created anew, or emptied if that is allowed; without a path the result is printed.
OpenOutput ==
  /\ cmd.pc = "open"
  /\ \/ cmd.output = "stdout" /\ Finish("done") /\ UNCHANGED onDisk
     \/ /\ cmd.output \in Paths
        /\ OverwriteAllowed(cmd.force, cmd.output = "named") \/ onDisk[cmd.output] = "absent"
        /\ onDisk' = [onDisk EXCEPT ![cmd.output] = "empty"]
        /\ Finish("write")
     \/ /\ cmd.output \in Paths /\ Finish("idle") /\ UNCHANGED onDisk
        /\ ~OverwriteAllowed(cmd.force, cmd.output = "named") /\ onDisk[cmd.output] # "absent"
  /\ UNCHANGED <<conf, ran>>

WriteOutput ==
  /\ cmd.pc = "write"
  /\ \/ onDisk' = [onDisk EXCEPT ![cmd.output] = cmd.kind] /\ Finish("done")
     \/ UNCHANGED onDisk /\ Finish("idle")
  /\ UNCHANGED <<conf, ran>>

Edit ==
  /\ cmd.pc \in {"idle", "done"}
  /\ \E p \in Paths : onDisk' = [onDisk EXCEPT ![p] = "edited"]
  /\ cmd' = NoCmd
  /\ UNCHANGED <<conf, ran>>

ConfNext == Convert \/ OpenOutput \/ WriteOutput \/ Edit

-----------------------------------------------------------------------------

\* A zcash.conf means the same however its lines are ordered: either every order is refused, or
\* every order gives the same config and the same call for warnings (observed and related keep a
\* later line from replacing what an earlier one set).
OrderIrrelevant ==
  cmd.pc = "open" =>
    LET of == Migrated(conf)
    IN \A p \in {q \in [DOMAIN conf -> DOMAIN conf] : \A i, j \in DOMAIN conf : i # j => q[i] # q[j]} :
         LET m == Migrated([i \in DOMAIN conf |-> conf[p[i]]])
         IN m.ok = of.ok /\ (m.ok => m.config = of.config /\ m.warned = of.warned)

\* A migration that was not told to allow warnings carries over every setting the wallet has an
\* equivalent for, and meets no option with a value the wallet cannot honour.
NothingLostSilently ==
  (cmd.pc \in {"open", "write", "done"} /\ cmd.kind = "migrate" /\ ~cmd.allow) =>
    \A i \in DOMAIN conf :
      LET o == conf[i].option
      IN \/ \E c \in cmd.config : c \in {<<o, conf[i].value>>, <<"network", o>>}
         \/ o \in DOMAIN Related /\ conf[i].value # "1"
         \/ o \in DOMAIN Warned /\ conf[i].value \in Warned[o]
         \/ o \in IgnoredOptions

\* "the inferred path is the wallet's live configuration, and a stray `--force` must not clobber
\* it": what the user wrote there is never replaced or emptied.
LiveConfigKept == [][onDisk["live"] = "edited" => onDisk'["live"] = "edited"]_confVars

\* The migrated configuration depends on the options and not on their order, drops none of them
\* without saying so, and does not take the place of one in use.
MigrationIsFaithful == []OrderIrrelevant /\ []NothingLostSilently /\ LiveConfigKept
=============================================================================
