--------------------------- MODULE MCIdentityText ---------------------------
(* A small instance of IdentityText for TLC.                               *)
EXTENDS IdentityText

Spelling == {"a", "b", "d", "1", "2", "true", "false"}

External(names, urls, seconds) ==
    [kind : {"external"}, name : names, url : urls, second : seconds]
Unkeyed(kind, name) == [kind |-> kind, name |-> name, url |-> <<>>, second |-> <<>>]

Postgres ==
    External({<<"a">>, <<"b">>}, {<<>>, <<"database_url">>, <<"a">>}, {<<>>, <<"a">>})
        \cup {Unkeyed("cluster", <<"a">>), Unkeyed("none", <<>>)}
ClickHouse == External({<<"a">>}, {<<>>}, {<<"a">>, <<"b">>}) \cup {Unkeyed("managed", <<>>)}

\* The last one spells the clustering component.
Databases == {<<"d">>, <<"d", "|", "d">>, <<"d", "|", "clickhouse-cluster=", "true">>}

Versions == [v : {FALSE}, text : {<<"1">>, <<"2">>}] \cup [v : {TRUE}, text : {<<"1">>}]

AllSpecs ==
    [version : Versions, postgres : Postgres, clickhouse : ClickHouse,
     clustered : {"true", "false"}, database : Databases]

\* Specs that differ from a common one in at most two parts.
Common ==
    [version |-> [v |-> FALSE, text |-> <<"1">>],
     postgres |-> [kind |-> "external", name |-> <<"a">>, url |-> <<>>, second |-> <<"a">>],
     clickhouse |-> Unkeyed("managed", <<>>), clustered |-> "false", database |-> <<"d">>]

CloseSpecs ==
    {s \in AllSpecs : Cardinality({f \in DOMAIN s : s[f] # Common[f]}) <= 2}
=============================================================================
