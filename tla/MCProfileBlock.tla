---------------------------- MODULE MCProfileBlock ----------------------------
(* Instance of ProfileBlock for TLC: headers of every format and the lines *)
(* that meet each branch of the parser under one of them.                  *)
EXTENDS ProfileBlock

Header(version, appMeta, metric) ==
    [kind |-> "header", version |-> version, appMeta |-> appMeta, metric |-> metric]
Sample(fields, count) == [kind |-> "sample", fields |-> fields, count |-> count]

MCLines ==
    {Header("v1", FALSE, TRUE), Header("v2", FALSE, FALSE), Header("v2", TRUE, TRUE),
     [kind |-> "blank"], [kind |-> "garbled"],
     Sample(<<"web1", "a", "b">>, 2), Sample(<<"web2", "b", "b">>, 1),
     Sample(<<"old1", "j", "", "b">>, 1), Sample(<<"old2", "a">>, -1),
     Sample(<<"a", "task", "swapper/0", "b">>, 1), Sample(<<"task", "task2", "a">>, 1),
     Sample(<<"short", "b">>, 1), Sample(<<"flink", "b">>, 1), Sample(<<"kube", "b">>, 1),
     Sample(<<"proxy", "b", "">>, 1), Sample(<<"proxy", "", "">>, 1),
     Sample(<<"b">>, 3), Sample(<<"b">>, 0)}

Pod(name) == [kind |-> "k8s", parts |-> <<"app", name, "ns", "uid", "0">>]
MCNameOf ==
    [web1 |-> Pod(<<"web", "5d4f8c", "x2z4k">>), web2 |-> Pod(<<"web", "5d4f8c", "24567">>),
     old1 |-> Pod(<<"decade", "xk9", "x2z4k">>), old2 |-> Pod(<<"decade", "xk9", "24567">>),
     proxy |-> Pod(<<"24567", "kube", "proxy", "x2z4k">>),
     flink |-> Pod(<<"flinkish", "a">>), kube |-> Pod(<<"kube", "proxyx">>),
     short |-> [kind |-> "k8s", parts |-> <<"app", <<"web">>>>],
     task |-> [kind |-> "ecs", parts |-> <<"shop", "7", "cart", "x2z4k">>],
     task2 |-> [kind |-> "ecs", parts |-> <<"shop">>]]
    @@ [other \in {"", "a", "b", "j"} |-> [kind |-> "plain", parts |-> <<>>]]

(* One frame renamed, in a line with or without its container; two frames  *)
(* in a row that become one; and what the first rule made, renamed again.  *)
MCRules ==
    <<(<<"old1", "j", "", "b">> :> <<"old1", "idle", "", "b">>)
          @@ (<<"j", "", "b">> :> <<"idle", "", "b">>),
      (<<"task", "task2", "a">> :> <<"task", "a">>) @@ (<<"task2", "a">> :> <<"a">>),
      (<<"old1", "idle", "", "b">> :> <<"old1", "a", "", "b">>)
          @@ (<<"idle", "", "b">> :> <<"a", "", "b">>)>>
=============================================================================
