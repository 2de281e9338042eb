----------------------------- MODULE CatConfig -----------------------------
(***************************************************************************)
(* How the config file becomes a command line (cargo_ini.c) and what       *)
(* becomes of the start of the program when it cannot (catcierge_args.c).  *)
(*                                                                         *)
(* The ini parser calls back for each "key=value" of the file.  The keys   *)
(* are gathered in the order they come first, each with all its values,    *)
(* and written out as a command line for cargo, which is external: here it *)
(* refuses keys that are no options, and no others.  Memory does not run   *)
(* out.  What follows a write outside of an array is not modelled: at the  *)
(* stages "valsOverrun" and "argvOverrun" nothing happens any more.        *)
(***************************************************************************)
EXTENDS Integers, SequencesExt

CONSTANTS
  Flags,     \* the keys of options without a value (CARGO_BOOL)
  Options,   \* the keys of options with values
  Unknown,   \* keys that are no option
  LongKeys,  \* those that do not fit into conf_arg_t.key (MAX_CONFIG_KEY)
  MaxVals,   \* MAX_CONFIG_VAL, the values conf_arg_t.vals has room for
  IntLimit,  \* one more than the greatest int: config_argc is one
  SizeLimit, \* one more than the greatest size_t: args_count is one
  MaxPairs   \* bound: the key=value pairs in the file

ASSUME ConfigAssumption ==
  /\ Flags \cap Options = {} /\ (Flags \cup Options) \cap Unknown = {}
  /\ LongKeys \subseteq Unknown  \* no option has such a name
  /\ IsFiniteSet(Flags)  \* they are added one by one
  /\ MaxVals \in Nat \ {0} /\ MaxPairs \in Nat
  /\ IntLimit \in Nat /\ 2 * MaxPairs < IntLimit
  /\ SizeLimit \in Nat /\ SizeLimit > 2 * IntLimit /\ SizeLimit % (2 * IntLimit) = 0

Keys == Flags \cup Options \cup Unknown

\* The values tell apart what strtol makes of them: "large" is a long that is no
\* int, "huge" is none.
Values == {"", "0", "2", "-1", "text", "large", "huge"}

\* The result of strtol as a size_t.  Text gets an "Error: Not a valid integer"
\* (line 199), but the start goes on with a count of 0.
ToInteger(value) ==
  IF value = "2" THEN 2
  ELSE IF value = "-1" THEN SizeLimit - 1
  ELSE IF value = "large" THEN 2 * IntLimit + 1 ELSE 0

\* A size_t as an int.
AsInt(n) == ((n + IntLimit) % (2 * IntLimit)) - IntLimit

VARIABLES
  configPath,   \* args->config_path: the default one or that of --config
  skipDefault,  \* --no_default_config or CATCIERGE_NO_DEFAULT_CONFIG is given
  configFile,   \* what is found there
  pairs,        \* the part of the file that is read
  configArgs,   \* the hash table config_args, in the order of its iteration
  configArgc,
  configArgv,
  stage,        \* how far catcierge_args_parse has come
  result        \* what it returns

configVars == <<configPath, skipDefault, configFile, pairs, configArgs, configArgc, configArgv, stage, result>>

ConfigInit ==
  /\ configPath \in {"default", "named"}
  /\ skipDefault \in BOOLEAN
  /\ configFile \in {"missing", "unreadable", "file"}
  /\ pairs = <<>>
  /\ configArgs = <<>>
  /\ configArgc = 0
  /\ configArgv = <<>>
  /\ stage = "start"
  /\ result = 0

-----------------------------------------------------------------------------
\* alini_cb.
\* The entry of the key; a key that was cut when it was stored is not found again.
Entry(key) == SelectInSeq(configArgs, LAMBDA e : e.key = key /\ key \notin LongKeys)

\* There is no room for another value of the key.
ValsFull(key) == Entry(key) # 0 /\ Len(configArgs[Entry(key)].vals) >= MaxVals

AliniCb_Mutant(key, value) ==
  configArgs' = Append(configArgs, [key |-> key, vals |-> <<value>>])

AliniCb(key, value) ==
  LET i == Entry(key)
  IN  configArgs' = IF i = 0 THEN Append(configArgs, [key |-> key, vals |-> <<value>>])
                    ELSE [configArgs EXCEPT ![i].vals = Append(@, value)]

\* A flag is given once, with the number of times it is to be repeated.
FlagIsBad_Mutant(entry) == entry.vals[1] \in {"", "huge"}

FlagIsBad(entry) == Len(entry.vals) # 1 \/ entry.vals[1] \in {"", "huge"}

\* it->args_count.
ArgsCount(entry) ==
  IF entry.key \in Flags THEN ToInteger(entry.vals[1]) ELSE 1 + Len(entry.vals)

\* The words of an entry on the command line: options and values.
Words(entry) ==
  LET name == <<"option", entry.key>>
      Value(v) == <<"value", v>>
  IN  IF entry.key \in Flags
      THEN [i \in 1..ToInteger(entry.vals[1]) |-> name]
      ELSE <<name>> \o [i \in DOMAIN entry.vals |-> Value(entry.vals[i])]

\* The words that the second pass writes.
WordsToWrite == FoldSeq(LAMBDA e, n : n + ArgsCount(e), 0, configArgs)

Done(r) ==
  /\ stage' = "done"
  /\ result' = r

-----------------------------------------------------------------------------
\* The default config may be turned off or be missing; a named one that is
\* missing is only warned about.
SkipConfig ==
  /\ stage = "start"
  /\ (configPath = "default" /\ skipDefault) \/ configFile = "missing"
  /\ stage' = "commandLine"
  /\ UNCHANGED <<configPath, skipDefault, configFile, pairs, configArgs, configArgc, configArgv, result>>

OpenConfig ==
  /\ stage = "start"
  /\ ~(configPath = "default" /\ skipDefault) /\ configFile # "missing"
  /\ IF configFile = "unreadable" THEN Done(-1) ELSE stage' = "reading" /\ UNCHANGED result
  /\ UNCHANGED <<configPath, skipDefault, configFile, pairs, configArgs, configArgc, configArgv>>

ReadPair(key, value) ==
  /\ stage = "reading"
  /\ Len(pairs) < MaxPairs
  /\ ~ValsFull(key)
  /\ pairs' = Append(pairs, <<key, value>>)
  /\ AliniCb(key, value)
  /\ UNCHANGED <<configPath, skipDefault, configFile, configArgc, configArgv, stage, result>>

\* vals has no bound check: one value more is written behind it.
OverrunVals(key) ==
  /\ stage = "reading"
  /\ Len(pairs) < MaxPairs
  /\ ValsFull(key)
  /\ stage' = "valsOverrun"
  /\ UNCHANGED <<configPath, skipDefault, configFile, pairs, configArgs, configArgc, configArgv, result>>

\* alini_parser_start fails somewhere in the file.
FailToParse ==
  /\ stage = "reading"
  /\ Done(-1)
  /\ UNCHANGED <<configPath, skipDefault, configFile, pairs, configArgs, configArgc, configArgv>>

\* build_config_commandline.  A negative config_argc is more than calloc has; when the
\* int does not say how many words are to be written, they are written behind the
\* array.
BuildConfigCommandline ==
  /\ stage = "reading"
  /\ IF \E i \in DOMAIN configArgs : configArgs[i].key \in Flags /\ FlagIsBad(configArgs[i])
     THEN Done(-1) /\ UNCHANGED <<configArgc, configArgv>>
     ELSE /\ configArgc' = AsInt(WordsToWrite)
          /\ \/ AsInt(WordsToWrite) < 0 /\ Done(-1) /\ UNCHANGED configArgv
             \/ /\ AsInt(WordsToWrite) >= 0 /\ AsInt(WordsToWrite) # WordsToWrite
                /\ stage' = "argvOverrun"
                /\ UNCHANGED <<configArgv, result>>
             \/ /\ AsInt(WordsToWrite) = WordsToWrite
                /\ configArgv' = FlattenSeq([i \in DOMAIN configArgs |-> Words(configArgs[i])])
                /\ stage' = "built"
                /\ UNCHANGED result
  /\ UNCHANGED <<configPath, skipDefault, configFile, pairs, configArgs>>

ParseConfigCommandline ==
  /\ stage = "built"
  /\ IF \E i \in DOMAIN configArgv : configArgv[i] \in {<<"option", k>> : k \in Unknown}
     THEN Done(-1) ELSE stage' = "commandLine" /\ UNCHANGED result
  /\ UNCHANGED <<configPath, skipDefault, configFile, pairs, configArgs, configArgc, configArgv>>

\* The command line itself comes last, to override the config.
ParseCommandline ==
  /\ stage = "commandLine"
  /\ \E r \in {0, -1} : Done(r)
  /\ UNCHANGED <<configPath, skipDefault, configFile, pairs, configArgs, configArgc, configArgv>>

ConfigNext ==
  \/ SkipConfig \/ OpenConfig
  \/ \E key \in Keys, value \in Values : ReadPair(key, value)
  \/ \E key \in Keys : OverrunVals(key)
  \/ FailToParse
  \/ BuildConfigCommandline \/ ParseConfigCommandline \/ ParseCommandline

-----------------------------------------------------------------------------
(***************************************************************************)
(* Properties.                                                             *)
(***************************************************************************)
ValuesOf(key) ==
  FlattenSeq([i \in DOMAIN pairs |->
                IF pairs[i][1] = key THEN << <<"value", pairs[i][2]>> >> ELSE << >>])

Occurs(word) == Cardinality({i \in DOMAIN configArgv : configArgv[i] = word})

\* The command line says what the file says ("key1 = 123, key1 = 456, key2 = 789
\* becomes --key1 123 456 --key2 789", cargo_ini.c:309): there are as many words as
\* are counted; each key of the file is one option, followed by all its values in
\* their order, wherever they stood; a flag is there as often as its value says; and
\* nothing else is there.  Keys that are too long are excepted: they are not found
\* again and make an option each time.
ConfigIsKept ==
  stage \in {"built", "commandLine"} /\ configArgv # <<>> =>
    /\ Len(configArgv) = configArgc
    /\ \A key \in Keys \ (Flags \cup LongKeys) :
         ValuesOf(key) # <<>> =>
           \E i \in DOMAIN configArgv :
             /\ configArgv[i] = <<"option", key>>
             /\ SubSeq(configArgv, i + 1, i + Len(ValuesOf(key))) = ValuesOf(key)
    /\ \A key \in Flags :
         ValuesOf(key) # <<>> => Occurs(<<"option", key>>) = ToInteger(ValuesOf(key)[1][2])
    /\ (\A i \in DOMAIN pairs : pairs[i][1] \notin LongKeys) =>
         configArgc = Cardinality({i \in DOMAIN pairs : pairs[i][1] \notin Flags})
                      + Cardinality({key \in Keys \ Flags : ValuesOf(key) # <<>>})
                      + FoldSet(LAMBDA key, n : n + Occurs(<<"option", key>>), 0, Flags)

\* A config that cannot be meant does not start the program: a key that is no option,
\* or a flag that is given twice, without a number, with a negative one or with one
\* that is out of range.  Text for a number is let through with an error message.
BadConfigRefused ==
  stage = "done" /\ result = 0 =>
    \A i \in DOMAIN pairs :
      /\ pairs[i][1] \notin Unknown
      /\ pairs[i][1] \in Flags =>
           /\ pairs[i][2] \notin {"", "-1", "large", "huge"}
           /\ \A j \in DOMAIN pairs : pairs[j][1] = pairs[i][1] => j = i

\* Nothing but a flag with a negative or a large number makes build_config_commandline
\* write behind config_argv, and nothing but more values of a key than there is room for
\* makes alini_cb write behind vals.
OverrunsAreExplained ==
  /\ stage = "argvOverrun" =>
       \E i \in DOMAIN pairs : pairs[i][1] \in Flags /\ pairs[i][2] \in {"-1", "large"}
  /\ stage = "valsOverrun" => \E key \in Keys : Len(ValuesOf(key)) >= MaxVals
=============================================================================
