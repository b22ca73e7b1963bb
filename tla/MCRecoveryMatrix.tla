-------------------------- MODULE MCRecoveryMatrix --------------------------
(* A small file vocabulary for TLC. *)
EXTENDS RecoveryMatrix

MCStatusClassOf == [s \in {"429", "503"} |-> IF s = "429" THEN "4xx" ELSE "5xx"]

MCDefaultRules ==
  << Row(<<"http", "429">>, [status |-> "429"], "retry"),
     Row(<<"http-class", "4xx">>, [statusClass |-> "4xx"], "terminal"),
     Row(<<"transport-cause", "proxy_timeout">>,
         [class |-> "transport", transportCause |-> "proxy_timeout"], "fallback"),
     Row(<<"transport-class", "connection">>,
         [class |-> "transport", transportClass |-> "connection"], "fallback"),
     Row(<<"credential", "cooldown">>,
         [class |-> "credential", credentialCause |-> "cooldown"], "retry") >>

A == <<"rule", "a">>
Z == <<"rule", "z">>

(* Free rules: within a layer, across layers, over the request, a rule     *)
(* that names a class no cause of it has, a weakened caller stop, and one  *)
(* that restates a built-in row under its canonical name.                  *)
FreeRules ==
  { Row(A, [transportClass |-> "proxy_connect", transportCause |-> "proxy_timeout"], "retry"),
    Row(Z, [transportClass |-> "timeout", transportCause |-> "proxy_timeout"], "terminal"),
    Row(Z, [transportCause |-> "network_timeout"], "retry"),
    Row(A, [class |-> "http", errorType |-> "quota"], "fallback"),
    Row(Z, [errorCode |-> "full"], "terminal"),
    Row(A, [streaming |-> "yes"], "terminal"),
    Row(Z, [status |-> "429", retryIndex |-> "1"], "fallback"),
    Row(A, [status |-> "503", protocolCause |-> "body_timeout"], "retry"),
    Row(Z, [class |-> "caller"], "retry"),
    Row(<<"http", "429">>, [statusClass |-> "5xx"], "terminal") }

Shorthand ==
  { [form |-> "exact", key |-> "503", action |-> "fallback"],
    [form |-> "classes", key |-> "5xx", action |-> "retry"],
    [form |-> "transport", key |-> "proxy_connect", action |-> "retry"],
    [form |-> "transport", key |-> "proxy_timeout", action |-> "terminal"],
    [form |-> "protocol", key |-> "body_timeout", action |-> "fallback"],
    [form |-> "credential", key |-> "cooldown", action |-> "terminal"],
    [form |-> "caller", key |-> "canceled", action |-> "terminal"] }

Nothing == [enabled |-> {}, max |-> {}]

EmptyBlock ==
  [shorthand |-> {}, rules |-> <<>>, default |-> {},
   fallback |-> Nothing, legacy |-> Nothing, stream |-> Nothing]

Switches == {[enabled |-> {b}, max |-> {}] : b \in BOOLEAN}

MCBlocks ==
  {[EmptyBlock EXCEPT !.rules = <<r>>] : r \in FreeRules}
  \cup {[EmptyBlock EXCEPT !.rules = <<r, s>>] : r, s \in FreeRules}
  \cup {[EmptyBlock EXCEPT !.shorthand = {s}, !.default = {s.action}] : s \in Shorthand}
  \cup {[EmptyBlock EXCEPT !.shorthand = {[form |-> "caller", key |-> k, action |-> "terminal"] :
                                            k \in {"canceled", "caller_canceled"}}]}
  \cup {[EmptyBlock EXCEPT !.fallback = f] : f \in Switches \cup {[enabled |-> {}, max |-> {3}]}}
  \cup {[EmptyBlock EXCEPT !.stream = f] : f \in Switches \cup {[enabled |-> {TRUE}, max |-> {2}]}}
  \cup {[EmptyBlock EXCEPT !.legacy = [enabled |-> {b}, max |-> {4}]] : b \in BOOLEAN}

MCErrors ==
  { {"refused"}, {"certificate"}, {}, {"netTimeout"}, {"deadlineExceeded"}, {"exchangeTimeout"},
    {"proxyAuth"}, {"proxyConnect"}, {"proxyConnect", "netTimeout"}, {"canceled"} }

MCAnswers ==
  {[status |-> s, type |-> t, code |-> c] :
     s \in {"429", "503"}, t \in {Unset, "quota"}, c \in {Unset, "full"}}

MCIDOrder ==
  << <<"caller", "caller_canceled">>, <<"credential", "cooldown">>,
     <<"http", "429">>, <<"http", "503">>, <<"http-class", "4xx">>, <<"http-class", "5xx">>,
     <<"protocol", "body_timeout">>, A, <<"transport-cause", "proxy_timeout">>,
     <<"transport-class", "connection">>, <<"transport-class", "proxy_connect">>, Z >>
=============================================================================
