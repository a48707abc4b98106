---------------------------- MODULE Configuration ----------------------------
(***************************************************************************)
(* http_proxy_server_config and http_proxy_client_config: what load_config *)
(* makes of a configuration file, and what the getters make of the map it  *)
(* leaves.                                                                 *)
(*                                                                         *)
(* A file is a record with a field for each key the code asks for; parses  *)
(* says that it can be read and is a JSON object.  A key                   *)
(* whose value is absent, or of another JSON type than the one asked for,  *)
(* is the same to the code: <<>>; any other value is <<value>>.  Keys of   *)
(* RSA are "bad", "short" or "good".  Numbers are those that fit in the    *)
(* types they are cast to.  Every value of config_map carries the type it  *)
(* was stored with, as a boost::any does.                                  *)
(***************************************************************************)
EXTENDS Authentication

Stored(type, value) == [type |-> type, value |-> value]

\* A key of the file: what it is stored as, or the default it has.
Optional(value, type, default) ==
  [refused |-> FALSE, stored |-> IF value = <<>> THEN default ELSE Stored(type, value[1])]

Mandatory(value, type, accepted) ==
  [refused |-> value = <<>> \/ ~accepted,
   stored |-> Stored(type, IF value = <<>> THEN "none" ELSE value[1])]

RsaKey(value) == Mandatory(value, "string", value = <<"good">>)

Clamped(value, low, high) ==
  IF value = <<>> THEN <<>>
  ELSE <<IF value[1] < low THEN low ELSE IF value[1] > high THEN high ELSE value[1]>>

\* Larger than any number of a file: a timeout has no upper limit.
NoLimit == 1000000

Timeout(value) ==
  Optional(Clamped(value, 30, NoLimit), "unsigned int", Stored("unsigned long", 240))

Workers(value, default) ==
  Optional(Clamped(value, 1, 16), "unsigned int", Stored("unsigned long", default))

\* The three parts of a cipher's name, in any case.  The mode is compared with each
\* mode for its own length only, so that the beginning of a mode will do.
SupportedCipher ==
  {"aes"} \X {"128", "192", "256"}
    \X {"c", "cf", "cfb", "cfb8", "cfb1", "cfb12", "cfb128", "o", "of", "ofb", "ofb1", "ofb12",
        "ofb128", "ct", "ctr", "ctr1", "ctr12", "ctr128"}

Cipher(value) ==
  [Optional(value, "string", Stored("string", <<"aes", "256", "ofb">>))
     EXCEPT !.refused = value # <<>> /\ value[1] \notin SupportedCipher]

\* What the two programs ask of their files.
ServerSettings(file) ==
  [ bind_address    |-> Optional(file.bind_address, "string", Stored("string", "0.0.0.0")),
    listen_port     |-> Optional(file.listen_port, "unsigned short", Stored("unsigned short", 8090)),
    rsa_private_key |-> RsaKey(file.rsa_private_key),
    timeout         |-> Timeout(file.timeout),
    workers         |-> Workers(file.workers, 4),
    auth            |-> Optional(file.auth, "bool", Stored("bool", FALSE)) ]

ClientSettings(file) ==
  [ proxy_server_address |-> Mandatory(file.proxy_server_address, "string", TRUE),
    proxy_server_port    |-> Mandatory(file.proxy_server_port, "unsigned short", TRUE),
    bind_address   |-> Optional(file.bind_address, "string", Stored("string", "127.0.0.1")),
    listen_port    |-> Optional(file.listen_port, "unsigned short", Stored("unsigned short", 8089)),
    rsa_public_key |-> RsaKey(file.rsa_public_key),
    cipher         |-> Cipher(file.cipher),
    timeout        |-> Timeout(file.timeout),
    workers        |-> Workers(file.workers, 2) ]

----------------------------------------------------------------------------
(* Loading.  "outcome" is what load_config does: it returns true or false, *)
(* or jsonxx fails an assertion, which ends the process.                   *)

\* Nothing tells apart the refusals of two keys: what was stored is rolled back.
Refused == [outcome |-> "false", map |-> <<>>, users |-> <<>>]

Loaded(settings) ==
  IF \E key \in DOMAIN settings : settings[key].refused THEN Refused
  ELSE [outcome |-> "true", map |-> [key \in DOMAIN settings |-> settings[key].stored],
        users |-> <<>>]

\* An element of "users": its name is asked for twice, its password never.
StoreUser(read, user) ==
  IF read.outcome # "true" THEN read
  ELSE IF user.username = <<>> THEN [read EXCEPT !.outcome = "false"]
  ELSE IF user.password = <<>> THEN [read EXCEPT !.outcome = "aborted"]
  ELSE [read EXCEPT !.users = AddUser(@, user.username[1], user.password[1])]

\* Once "auth" is a Boolean, whichever, "users" must be an array.
UsersOf(file) ==
  IF file.auth = <<>> THEN [outcome |-> "true", users |-> <<>>]
  ELSE IF file.users = <<>> THEN [outcome |-> "false", users |-> <<>>]
  ELSE FoldLeft(StoreUser, [outcome |-> "true", users |-> <<>>], file.users[1])

WithUsers(loaded, read) == [loaded EXCEPT !.outcome = read.outcome, !.users = read.users]

\* Mistaken: the users already added stay.
MapRolledBack(loaded) ==
  IF loaded.outcome = "false" THEN [loaded EXCEPT !.map = <<>>] ELSE loaded

\* auto_rollback: if load_config returns false, nothing it stored remains.
RolledBack(loaded) == IF loaded.outcome = "false" THEN Refused ELSE loaded

LoadServer(file) ==
  LET loaded == Loaded(ServerSettings(file))
  IN  IF ~file.parses \/ loaded = Refused THEN Refused
      ELSE RolledBack(WithUsers(loaded, UsersOf(file)))

LoadClient(file) == IF file.parses THEN Loaded(ClientSettings(file)) ELSE Refused

----------------------------------------------------------------------------
(* The getters. *)

GetterType ==
  [bind_address |-> "string", listen_port |-> "unsigned short", timeout |-> "unsigned int",
   workers |-> "unsigned int", auth |-> "bool", rsa_private_key |-> "string",
   rsa_public_key |-> "string", cipher |-> "string", proxy_server_address |-> "string",
   proxy_server_port |-> "unsigned short"]

\* get_config_value returns: the key is there, and any_cast finds the type it
\* asks for.  Otherwise it throws.
Readable(map, key) == key \in DOMAIN map /\ map[key].type = GetterType[key]
=============================================================================
