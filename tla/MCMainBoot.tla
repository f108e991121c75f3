------------------------------ MODULE MCMainBoot ------------------------------
(* Instances of MainBoot for TLC.                                          *)
EXTENDS MainBoot

MCHome == <<"home">>
MCPaths == {<<>>, <<"a">>, <<"/", "etc", "b">>}
MCAddresses == {<<"1">>, [i \in 1 .. 20 |-> "1"]}

(* <<"a">> names a file in the directory of the start, in /tmp, or none.   *)
MCFileSets == {{<<"home", "a">>}, {<<"tmp", "a">>, <<"etc", "b">>}, {<<"home", "a">>, <<"tmp", "a">>}}

Line(sort, key, text) == [sort |-> sort, key |-> key, text |-> text, joined |-> FALSE]
Pair(key, text)       == Line("pair", key, text)

Digits(n) == [i \in 1 .. n |-> "5"]

MCLines ==
  { Line("blank", "", <<>>),
    Line("bare", "", <<>>),
    Pair("nonsense", <<"1">>),
    Pair("server", <<"'", "1", "'">>),
    Pair("username", <<"'", "\"", "u", "\"", "'">>),
    Pair("username", [i \in 1 .. 36 |-> "u"]),
    Pair("mac", <<"0", "x">> \o Digits(12)),
    Pair("mac", [i \in 1 .. 17 |-> IF i % 3 = 0 THEN ":" ELSE "5"]),
    Pair("AUTH_VERSION", <<"'", "\\", "x", "2", "c", "\\", "x", "0", "0", "'">>),
    Pair("pppoe_flag", <<"6", "a">>),
    Pair("eternal", <<"0">>),
    Pair("bind_ip", <<"'", "'">>),
    Pair("log", <<"/", "l">>),
    [Pair("server", <<"2">>) EXCEPT !.joined = TRUE] }
=============================================================================
