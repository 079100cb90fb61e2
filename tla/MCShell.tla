------------------------------ MODULE MCShell -------------------------------
(* Model-checking instance of Shell: SystemTable (modelled column key) and *)
(* ObjectTable (modelled column name), the contents a, big (which does not *)
(* fit the scratch buffer) and unset, and friendly lines that name a, a    *)
(* value with a quote in it, a negative number, and no value at all.       *)
EXTENDS Shell

CONSTANTS big, k0, k1

A == S!Str(<<"a">>)
MCData == {A, S!Str(<<"big">>), UNSET}
MCOversized == {S!Str(<<"big">>)}
MCMasterKeys == {k0, k1}
MCConds == {{A}, {A, UNSET}}

MCTableName == (0 :> "SystemTable") @@ (1 :> "ObjectTable")
MCContentCol == (0 :> "key") @@ (1 :> "name")
MCColumns == (0 :> {"id", "key", "value", "created"}) @@ (1 :> {"obj_id", "name", "type", "data"})

\* Lines as symbol sequences: a word is one symbol.
MCLines == {
  <<"del", " ", "objects", " ", "name", "=", "a">>,
  <<"del", " ", "objects", " ", "name", "=", "a", "'", "b">>,
  <<"del", " ", "objects", " ", "name", "=", "-", "1">>,
  <<"del", " ", "objects", " ", "foo">>,
  <<"rm", " ", "a">>,
  <<"set", " ", "objects", " ", "name", "=", "big", " ", "where", " ", "name", "=", "a">>,
  <<"add", " ", "sys", " ", "key", "=", "a">>,
  <<"create", " ", "file", " ", "a">>,
  <<"find", " ", "objects", " ", "name", "=", "a">>}
=============================================================================
