------------------------------ MODULE MCServer ------------------------------
(***************************************************************************)
(* A small instance of Server: one plain query, one profile and one        *)
(* screen; files and environments that set the cache's limits in one       *)
(* layer, in both, to numbers, to texts, under the documented names and    *)
(* under others.                                                           *)
(***************************************************************************)
EXTENDS Server

CONSTANTS q, p, s

MCKeys == {q, p}
MCProfiles == {p}
MCScreens == {s}
MCJobs == {Worker}

MCMaxSizeName == <<"cache", "maxsize">>
MCTtlName == <<"cache", "ttl", "snapshot">>
RetriesName == <<"reconnect", "retries">>
MCDefault == [n \in {MCMaxSizeName, MCTtlName, RetriesName} |->
                CASE n = MCMaxSizeName -> Number(2000)
                  [] n = MCTtlName -> Number(300)
                  [] n = RetriesName -> Number(3)]
MCNumeral == [t \in {"1", "60"} |-> IF t = "1" THEN 1 ELSE 60]

InFile(section, key, value) == [section |-> section, key |-> key, value |-> value]
InEnv(name, raw) == [name |-> name, raw |-> raw]

MaxSizeInFile(n) == InFile(<<"cache">>, <<"maxsize">>, n)
TtlInFile(n) == InFile(<<"cache">>, <<"ttl", "snapshot">>, n)

\* The defaults; numbers, where the environment overrides a text of the file and a
\* name that is no field is dropped; and texts, with which every lookup of a kept key
\* raises, and every store.
MCLayerings ==
  {[file |-> <<>>, env |-> <<>>],
   [file |-> <<MaxSizeInFile(Text("many")), TtlInFile(Number(300))>>,
    env |-> <<InEnv(MCMaxSizeName, "true"), InEnv(MCTtlName, "60"), InEnv(<<"maxsize">>, "60")>>],
   [file |-> <<MaxSizeInFile(Text("many")), InFile(<<>>, MCTtlName, Number(60))>>,
    env |-> <<InEnv(MCTtlName, "an hour")>>]}

\* As in the repository's wind_mcp.toml, with another number.
MCDocumented ==
  {[file |-> <<InFile(<<"session">>, RetriesName, Number(1))>>, env |-> <<>>]}
=============================================================================
