--------------------------- MODULE MCProxyProcess ---------------------------
(***************************************************************************)
(* Small instances of ProxyProcess: files that vary in every key the code  *)
(* branches on.                                                            *)
(***************************************************************************)
EXTENDS ProxyProcess

Maybe(S) == {<<>>} \cup {<<x>> : x \in S}

\* "a", "b" and "a:b" as names and passwords.
a == <<97>>
b == <<98>>
ab == a \o <<Colon>> \o b

User(name, password) == [username |-> name, password |-> password]

UserLists ==
  { <<>>,
    <<User(<<a>>, <<b>>)>>,
    <<User(<<a>>, <<a>>), User(<<a>>, <<b>>), User(<<b>>, <<ab>>)>>,
    <<User(<<ab>>, <<a>>), User(<<a>>, <<ab>>)>>,
    <<User(<<a>>, <<b>>), User(<<>>, <<b>>)>>,
    <<User(<<a>>, <<b>>), User(<<b>>, <<>>)>> }

TextsOfThree == {x \o <<Colon>> \o y : x \in {a, b, ab}, y \in {a, b, ab}} \cup {a, a \o b, <<>>}

ServerFile ==
  [ parses : {TRUE}, bind_address : {<<>>}, listen_port : {<<>>},
    rsa_private_key : {<<>>, <<"bad">>, <<"short">>, <<"good">>}, timeout : Maybe({1, 60}),
    workers : Maybe({0, 3}), auth : Maybe(BOOLEAN), users : Maybe(UserLists) ]

ClientFile ==
  [ parses : {TRUE}, proxy_server_address : Maybe({"proxy"}), proxy_server_port : Maybe({80}),
    bind_address : {<<"127.0.0.1">>}, listen_port : {<<>>}, rsa_public_key : {<<"bad">>, <<"good">>},
    cipher : Maybe({<<"aes", "128", "ctr">>, <<"aes", "128", "ct">>, <<"aes", "128", "cbc">>}),
    timeout : Maybe({1, 60}), workers : Maybe({0, 3}) ]

\* One more that is not JSON.
Unparsable == [(CHOOSE f \in ServerFile : TRUE) EXCEPT !.parses = FALSE]
AnyServerFile == ServerFile \cup {Unparsable}

\* Files with the mandatory keys and nothing refused.
CompleteServerFiles == {f \in ServerFile : f.rsa_private_key = <<"good">> /\ f.auth = <<>>}
CompleteClientFiles == {f \in ClientFile : f.rsa_public_key = <<"good">> /\ f.cipher = <<>>}
=============================================================================
