------------------------------- MODULE Config -------------------------------
(***************************************************************************)
(* load_config() (core/config.py): defaults, then wind_mcp.toml, then the  *)
(* environment.  Operators only; Server has the process that reads it.     *)
(*                                                                         *)
(* A name is the list of the words it joins with underscores, so           *)
(* flattening [cache] ttl_snapshot to cache_ttl_snapshot appends lists.    *)
(***************************************************************************)
EXTENDS Integers, Sequences

CONSTANTS Default,   \* WindMCPConfig: its fields and their defaults
          Numeral    \* int() or float() of the texts that have one

ASSUME DefaultAssumption == Default \in [DOMAIN Default -> {Default[n] : n \in DOMAIN Default}]

Number(n) == <<"number", n>>
Text(t)   == <<"text", t>>
IsNumber(v) == v[1] = "number"

\* _load_toml(): the settings of a file, as [section, key, value], in its order;
\* section <<>> for those above the first.  A file that cannot be parsed has none.
FromFile(file) ==
  [i \in DOMAIN file |-> [name |-> file[i].section \o file[i].key, value |-> file[i].value]]

\* _load_env(): true and false are numbers to Python.
Cast(raw) ==
  CASE raw = "true" -> Number(1)
    [] raw = "false" -> Number(0)
    [] raw \in DOMAIN Numeral -> Number(Numeral[raw])
    [] OTHER -> Text(raw)

FromEnv(env) == [i \in DOMAIN env |-> [name |-> env[i].name, value |-> Cast(env[i].raw)]]

\* setattr() for the names that are fields, one setting after the other.
Apply(config, settings) ==
  LET after[i \in 0..Len(settings)] ==
        IF i = 0 THEN config
        ELSE IF settings[i].name \in DOMAIN config
        THEN [after[i - 1] EXCEPT ![settings[i].name] = settings[i].value]
        ELSE after[i - 1]
  IN  after[Len(settings)]

\* Mutant: the file is applied last.
LoadFileLast(file, env) == Apply(Apply(Default, FromEnv(env)), FromFile(file))

LoadConfig(file, env) == Apply(Apply(Default, FromFile(file)), FromEnv(env))

-----------------------------------------------------------------------------
\* "Load priority" (config.py, first lines): what the user set for this name, in the
\* environment, else in the file, else nothing.
LastOf(settings, name, else) ==
  LET given == {i \in DOMAIN settings : settings[i].name = name}
  IN  IF given = {} THEN else
      ELSE settings[CHOOSE i \in given : \A j \in given : j <= i].value

Chosen(file, env, name, else) ==
  LastOf(FromEnv(env), name, LastOf(FromFile(file), name, else))
=============================================================================
