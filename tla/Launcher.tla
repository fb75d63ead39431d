------------------------------ MODULE Launcher ------------------------------
(* The `zallet` launcher: it scans the command line for the options that     *)
(* locate the config file, reads the file's `backend` key, and hands the     *)
(* invocation to the backend's binary, which parses the command line again   *)
(* with the real parser, loads the config it finds and has the last word.    *)
(* The scan is best effort and the parser's view is the one that counts.     *)
EXTENDS Sequences, Naturals, FiniteSets

CONSTANTS Tokens,     \* the command-line tokens: [form, opt, text]
          MaxArgs,    \* the longest command line
          Backends,   \* the backend binaries installed
          MaxFiles    \* how many config files there are

\* A token's form: "split" is an option whose value is the next token, "joined" one that carries
\* its value, "cluster" other short options combined with one whose value is the next token, "end"
\* the "--" terminator, "word" anything else.  Its text is the path it is when taken as a value.
Options == {"datadir", "config"}
Default == [datadir |-> "home", config |-> "zallet.toml"]
PathsOf(o) == {t.text : t \in Tokens} \cup {Default[o]}
Locations == [datadir : PathsOf("datadir"), config : PathsOf("config")]

DefaultBackend == "zebra"
Contents == Backends \cup {"other", "malformed", "badname", "nokey"}

VARIABLES args,     \* the command line
          files,    \* the config files there are: location -> contents
          phase,    \* "launch", "dispatched", "running" or "refused"
          direct,   \* whether the backend binary was invoked directly
          binary    \* the backend whose binary runs

launchVars == <<args, files, phase, direct, binary>>

LaunchInit ==
  /\ \E ls \in SUBSET Locations : Cardinality(ls) <= MaxFiles /\ files \in [ls -> Contents]
  /\ \E n \in 0..MaxArgs : args \in [1..n -> Tokens]
  /\ phase = "launch" /\ direct = FALSE /\ binary = DefaultBackend

-----------------------------------------------------------------------------

ScannedWhole(s) == s

\* Nothing after the terminator is scanned.
Scanned(s) ==
  LET ends == {i \in DOMAIN s : s[i].form = "end"}
  IN IF ends = {} THEN s ELSE SubSeq(s, 1, (CHOOSE i \in ends : \A j \in ends : i <= j) - 1)

\* The options found in s, in order, by a scan that takes the forms twoToken to be options with
\* their value in the next token, whatever that is.
Scan(s, twoToken) ==
  LET from[i \in 1..(Len(s) + 2)] ==
        IF i > Len(s) THEN <<>>
        ELSE IF s[i].form \in twoToken /\ i < Len(s)
        THEN <<[opt |-> s[i].opt, val |-> s[i + 1].text]>> \o from[i + 2]
        ELSE (IF s[i].form = "joined" THEN <<[opt |-> s[i].opt, val |-> s[i].text]>> ELSE <<>>)
             \o from[i + 1]
  IN from[1]

\* Where the config is, when the last of each option counts.
Resolve(found) ==
  [o \in Options |->
     LET is == {i \in DOMAIN found : found[i].opt = o}
     IN IF is = {} THEN Default[o] ELSE found[CHOOSE i \in is : \A j \in is : j <= i].val]

\* scan_locator_args and resolve_config_path.  Clusters are not understood.
LauncherFinds == Resolve(Scan(Scanned(args), {"split"}))

\* The backend binary's parser understands them, and refuses an option that is repeated, that has
\* no value, or whose value looks like an option.
BeforeEnd == SubSeq(args, 1, CHOOSE n \in 0..Len(args) :
               /\ \A i \in 1..n : args[i].form # "end"
               /\ n = Len(args) \/ args[n + 1].form = "end")
Parsed == Scan(BeforeEnd, {"split", "cluster"})
BackendFinds == Resolve(Parsed)
Parses ==
  /\ \A o \in Options : Cardinality({i \in DOMAIN Parsed : Parsed[i].opt = o}) <= 1
  /\ \A i \in DOMAIN BeforeEnd : BeforeEnd[i].form \in {"split", "cluster"} =>
       i < Len(BeforeEnd) /\ BeforeEnd[i + 1].form = "word"

\* backend_from_config and select_backend: no file or no key is the default; a file that does not
\* parse or a name that is not well formed ends the launch.
SelectBackend(at) ==
  IF at \notin DOMAIN files \/ files[at] = "nokey" THEN {DefaultBackend}
  ELSE {files[at]} \ {"malformed", "badname"}

\* main: select, locate, dispatch.  A backend that is not installed cannot be run.
Dispatch ==
  /\ phase = "launch"
  /\ LET selected == SelectBackend(LauncherFinds) \cap Backends
     IN IF selected # {}
        THEN phase' = "dispatched" /\ binary' \in selected
        ELSE phase' = "refused" /\ UNCHANGED binary
  /\ UNCHANGED <<args, files, direct>>

InvokeDirectly ==
  /\ phase = "launch"
  /\ phase' = "dispatched" /\ direct' = TRUE /\ binary' \in Backends
  /\ UNCHANGED <<args, files>>

\* load_config and after_config: a missing or malformed file is refused, and so is one that names
\* another backend than the binary provides.
Loads(at) ==
  /\ at \in DOMAIN files
  /\ files[at] \in {"nokey", binary}

Load ==
  /\ phase = "dispatched"
  /\ phase' = IF Parses /\ Loads(BackendFinds) THEN "running" ELSE "refused"
  /\ UNCHANGED <<args, files, direct, binary>>

LaunchNext == Dispatch \/ InvokeDirectly \/ Load

-----------------------------------------------------------------------------

\* "A mismatch [is] reachable only by invoking a backend binary directly": a command line without
\* clusters that the real parser accepts, with a readable config naming an installed backend or
\* none, is never refused when it goes through the launcher.  The launcher's own scan finds the
\* file the backend will load (scan_locator_args against the parser behind load_config).
LaunchedAsConfigured ==
  LET plain == Parses /\ \A i \in DOMAIN args : args[i].form # "cluster"
      good == BackendFinds \in DOMAIN files /\ files[BackendFinds] \in Backends \cup {"nokey"}
  IN (plain /\ good /\ ~direct) => phase # "refused"
=============================================================================
