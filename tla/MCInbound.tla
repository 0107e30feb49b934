----------------------------- MODULE MCInbound -----------------------------
(* Values of the constants of Inbound, for TLC.                               *)
EXTENDS Inbound

Rule(slashes, name) == [slashes |-> slashes, name |-> name]
MCPaths == {Rule(1, <<"orders">>), Rule(1, <<"a b", "c">>), Rule(1, <<"">>), Rule(2, <<"x", "", "y">>),
            Rule(0, <<"orders">>), Rule(0, <<"">>)}
MCSubscriptions ==
  <<[bulk |-> "none", routes |-> MCPaths], [bulk |-> "on", routes |-> MCPaths],
    [bulk |-> "off", routes |-> {None}], [bulk |-> "on", routes |-> {None}]>>
MCAttributes == {None, Rule(1, <<"elsewhere">>)}

MCSegments == Words \cup {".", "..", "a b", "c", "x", "y", "cron", "orders", "42", "type",
                          "elsewhere"}
MCEncoded == [s \in MCSegments |-> IF s = "a b" THEN "a%20b" ELSE s]

MCBindings == {<<"cron">>, <<"a b">>, <<"job", "x">>, <<"", "cron">>}
MCDeclared == {<<"cron">>, <<"a b">>, <<"job", "x">>}

(* Names that some route of the router could mistake.                         *)
MCNames == {<<"x">>, <<"a b">>, <<"job">>, <<"timer">>, <<"method">>,
            <<"x", "y">>, <<"">>}
MCIds == {<<"x">>, <<"a b">>, <<"method">>, <<"x", "y">>, <<"">>}
MCMethods == {<<"x">>, <<"a b">>, <<"x", "timer", "y">>, <<"timer">>, <<"remind">>, <<"timer", "x">>,
              <<"remind", "x">>, <<"timer", "">>, <<"x", "", "y">>, <<"">>}
MCInvoked == {<<"orders">>, <<"orders", "42">>, <<"cron">>, <<"cron", "x">>, <<"healthz">>,
              <<"job">>, <<"job", "x">>, <<"actors">>, <<"actors", "x">>, <<"actors", "x", "y">>,
              <<"configuration">>, <<"configuration", "x">>, <<"dapr", "config">>,
              <<"dapr", "subscribe">>, <<"pubsub", "x">>, <<"pubsub-bulk">>, <<"">>, <<"a b">>,
              <<"x", "..", "y">>, <<"..">>, <<"x", "", "y">>, <<"x", "">>}

MCCommon ==
  {Of("health", None, <<>>), Of("actor-config", None, <<>>)}
    \cup {Of(k, None, <<n>>) : k \in {"job", "configuration"}, n \in MCNames}
    \cup {Of("invoke", v, <<m>>) : v \in {"GET", "POST", "OPTIONS", "DELETE"}, m \in MCInvoked}
    \cup {Of("actor-invoke", None, <<<<"type">>, i, m>>) : i \in MCIds, m \in MCMethods}
    \cup {Of(k, None, <<<<"type">>, i, m>>) :
            k \in {"actor-timer", "actor-reminder"}, i \in MCIds, m \in MCNames}
    \cup {Of("actor-deactivate", None, <<<<"type">>, i>>) : i \in MCIds}
=============================================================================
