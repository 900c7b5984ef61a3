---------------------------- MODULE Configuration ----------------------------
(***************************************************************************)
(* internal/config/config.go: the defaults of a YAML file and its          *)
(* validation.  What is unset is 0, "" or the empty sequence.  A room id   *)
(* is the sequence of its pieces between the separators of a cookie, a     *)
(* path the sequence of its parts, with a flag for a final /*.             *)
(***************************************************************************)
EXTENDS Integers, Sequences

MinSecretLen == 32

(* The name "lifo" stands for every queueing method there is not. *)
RoomConfig ==
  [id : Seq(STRING), host : STRING, path : Seq(STRING), glob : BOOLEAN, enabled : BOOLEAN,
   rate : Int, limit : Int, minutes : Int, method : {"", "fifo", "random", "lifo"}, custom : BOOLEAN]

Config ==
  [rooms : Seq(RoomConfig), secretLen : Nat, redisEnabled : BOOLEAN, redisAddr : BOOLEAN,
   origin : {"valid", "invalid", "none"}]

OrDefault(value, unset, default) == IF value = unset THEN default ELSE value

WithDefaults(r) ==
  [r EXCEPT !.method = OrDefault(r.method, "", "fifo"),
            !.rate = OrDefault(r.rate, 0, 60),
            !.limit = OrDefault(r.limit, 0, 200),
            !.minutes = OrDefault(r.minutes, 0, 10)]

ApplyDefaults(c) ==
  [c EXCEPT !.rooms = [i \in DOMAIN c.rooms |-> WithDefaults(c.rooms[i])]]

ValidServer(c) ==
  /\ c.secretLen >= MinSecretLen
  /\ c.redisEnabled => c.redisAddr

(* The path "" is the one with no part and no /*. *)
ValidRoom(r) ==
  /\ r.id # <<>>
  /\ r.path # <<>> \/ r.glob
  /\ r.rate > 0 /\ r.limit > 0 /\ r.minutes > 0
  /\ r.method \in {"fifo", "random"}

(* A slip: comparing each id with the one before it. *)
ValidateNeighbours(c) ==
  /\ ValidServer(c)
  /\ \A i \in DOMAIN c.rooms : ValidRoom(c.rooms[i]) /\ (i > 1 => c.rooms[i].id # c.rooms[i - 1].id)

Validate(c) ==
  /\ ValidServer(c)
  /\ \A i \in DOMAIN c.rooms : ValidRoom(c.rooms[i])
  /\ \A i, j \in DOMAIN c.rooms : c.rooms[i].id = c.rooms[j].id => i = j
=============================================================================
