------------------------------ MODULE MCServer ------------------------------
(***************************************************************************)
(* Configurations of up to three rooms in any order: prefixes one in the   *)
(* other, an exact path below a prefix, a host of its own, a disabled      *)
(* room, an id with a separator; and some that are wrong in one way each.  *)
(***************************************************************************)
EXTENDS Server

Room(id, path, glob) ==
  [id |-> id, path |-> path, glob |-> glob, host |-> "", enabled |-> TRUE, custom |-> FALSE,
   rate |-> 0, limit |-> 0, minutes |-> 0, method |-> ""]

All == [Room(<<"all">>, <<>>, TRUE) EXCEPT !.custom = TRUE]
Shop == Room(<<"shop">>, <<"s">>, TRUE)
Flash == [Room(<<"flash", "sale">>, <<"s", "f">>, TRUE) EXCEPT !.rate = 1, !.method = "random"]
Cart == Room(<<"cart">>, <<"s">>, FALSE)
Tenant == [Room(<<"tenant">>, <<"s">>, TRUE) EXCEPT !.host = "h", !.limit = 1]
Off == [Room(<<"off">>, <<"s", "f">>, FALSE) EXCEPT !.enabled = FALSE]

Good == {All, Shop, Flash, Cart, Tenant, Off}

Wrong == {[Shop EXCEPT !.rate = -1], [Shop EXCEPT !.limit = -1], [Shop EXCEPT !.minutes = -1],
          [Shop EXCEPT !.method = "lifo"], [Shop EXCEPT !.id = <<>>], [Shop EXCEPT !.glob = FALSE, !.path = <<>>]}

Orders(rooms) == SetToSeqs(rooms)

RoomLists ==
  UNION {Orders(rooms) : rooms \in {s \in SUBSET Good : Cardinality(s) < 3}
                                     \cup {{All, Shop, Flash}, {Shop, Cart, Tenant}, {All, Cart, Off}}}
    \cup {<<All, r>> : r \in Wrong}
    \cup {<<Shop, All, [Cart EXCEPT !.id = <<"shop">>]>>}

WithServer(rooms, len, redis, addr, origin) ==
  [rooms |-> rooms, secretLen |-> len, redisEnabled |-> redis, redisAddr |-> addr, origin |-> origin]

MCConfigs ==
  {WithServer(rooms, 32, FALSE, FALSE, "valid") : rooms \in RoomLists}
    \cup {WithServer(<<All>>, len, TRUE, addr, origin) :
            len \in {31, 32}, addr \in BOOLEAN, origin \in {"valid", "invalid", "none"}}

MCPaths == {<<"x">>, <<"s">>, <<"s", "f">>, <<"s", "x">>}

MCHosts == {"h", "other"}
=============================================================================
