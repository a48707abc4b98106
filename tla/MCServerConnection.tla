------------------------- MODULE MCServerConnection -------------------------
(***************************************************************************)
(* Small instances of ServerConnectionSystem.  Host "b" has two addresses, *)
(* the second of which it shares with host "a", and the resolver gives     *)
(* them in either order: so a connection kept from "a" is found first,     *)
(* found last, or not found, and a connection attempt has a second try.    *)
(***************************************************************************)
EXTENDS ServerConnectionSystem

MCHosts == {"a", "b"}
MCEndpoints == {"ea", "eb"}
MCResolutions ==
  [h \in MCHosts |-> IF h = "a" THEN {<<"ea">>} ELSE {<<"ea">>, <<"eb", "ea">>}]

\* One host, one address.
OneHost == {"a"}
OneResolution == [h \in OneHost |-> {<<"ea">>}]

\* Requests.
Get == [parses |-> TRUE, method |-> "GET", version |-> "1.1", authorized |-> TRUE,
        scheme |-> "http", host |-> "a", proxy_connection |-> "none",
        connection |-> "none", framing |-> "none", length |-> 0, head |-> 1,
        content |-> <<>>]
Post == [Get EXCEPT !.method = "POST", !.framing = "length", !.length = 2,
                    !.content = <<"body", "body">>]
Connection10(token) == [Get EXCEPT !.version = "1.0", !.connection = token]
Tunnel == [Get EXCEPT !.method = "CONNECT", !.scheme = "other"]
ToB(r) == [r EXCEPT !.host = "b"]

\* Responses.
Sized(n) == [parses |-> TRUE, version |-> "1.1", status |-> 200, connection |-> "none",
             framing |-> "length", length |-> n, head |-> 1,
             content |-> [i \in 1 .. n |-> "body"]]
SizedClose == [Sized(1) EXCEPT !.connection = "close"]
UntilClose == [Sized(2) EXCEPT !.version = "1.0", !.framing = "none", !.length = 0]
Chunked == [Sized(1) EXCEPT !.framing = "chunked", !.length = 0,
                            !.content = <<"body", "last">>]
Malformed == [Chunked EXCEPT !.content = <<"body", "bad">>]

\* Keep-alive traffic to two hosts.
KeepAliveRequests == {Get, ToB(Get), ToB(Post)}
KeepAliveResponses == {Sized(1), SizedClose}

\* Every kind of message: what the checks refuse, each for one reason, and what
\* they let through.
RefusedRequests ==
  {[Get EXCEPT !.parses = FALSE], [Get EXCEPT !.method = "OPTIONS"],
   [Get EXCEPT !.version = "2.0"], [Get EXCEPT !.authorized = FALSE],
   [Tunnel EXCEPT !.authorized = FALSE], [Get EXCEPT !.scheme = "other"],
   [Post EXCEPT !.framing = "bad_length"], [Post EXCEPT !.framing = "other_encoding"],
   [Post EXCEPT !.framing = "none"], [Get EXCEPT !.head = 4]}
AcceptedRequests ==
  {Get, [Get EXCEPT !.head = 3], [Get EXCEPT !.proxy_connection = "close"],
   [Get EXCEPT !.method = "HEAD"], Post, Connection10("none"),
   Connection10("keep-alive"), Tunnel}
AllRequests == RefusedRequests \cup AcceptedRequests

RefusedResponses ==
  {[Sized(1) EXCEPT !.parses = FALSE], [Sized(1) EXCEPT !.version = "2.0"],
   [Sized(1) EXCEPT !.status = 99], [Sized(1) EXCEPT !.connection = "other"],
   [Sized(1) EXCEPT !.framing = "bad_length"], [Sized(1) EXCEPT !.framing = "none"],
   [Sized(1) EXCEPT !.head = 4]}
AcceptedResponses ==
  {Sized(2), [Sized(2) EXCEPT !.head = 2], SizedClose, UntilClose, Chunked,
   [Sized(1) EXCEPT !.status = 304]}
AllResponses == RefusedResponses \cup AcceptedResponses

\* Tunnels, possibly after another request.
TunnelRequests == {Get, Tunnel}
TunnelResponses == {Sized(0)}

\* One of each way a connection can end.
EndingRequests == {Get, Tunnel}
EndingResponses == {Sized(1), UntilClose, Malformed}

\* A chunked upload.
UploadRequests ==
  {Get, [Post EXCEPT !.framing = "chunked", !.content = <<"body", "last">>]}
=============================================================================
