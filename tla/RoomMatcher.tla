----------------------------- MODULE RoomMatcher -----------------------------
(***************************************************************************)
(* Which room a request belongs to: newRoomMatcher and Match of            *)
(* internal/api/middleware.go.  The parts of a path are of one length, so  *)
(* comparing numbers of parts is comparing lengths; a prefix may end in    *)
(* the middle of a path segment.                                           *)
(***************************************************************************)
EXTENDS Integers, Sequences, SequencesExt

NoRoom == <<>>

Scope(r, host) == r.enabled /\ r.host = host

ExactRooms(rooms, path, host) ==
  {i \in DOMAIN rooms : Scope(rooms[i], host) /\ ~rooms[i].glob /\ rooms[i].path = path}

PrefixRooms(rooms, host) ==
  LET kept[i \in 0..Len(rooms)] ==
        IF i = 0 THEN <<>>
        ELSE IF Scope(rooms[i], host) /\ rooms[i].glob THEN Append(kept[i - 1], rooms[i])
        ELSE kept[i - 1]
  IN  kept[Len(rooms)]

Exchange(s, i, j) ==
  IF Len(s[j].path) > Len(s[i].path) THEN [s EXCEPT ![i] = s[j], ![j] = s[i]] ELSE s

(* A slip: only the next one is compared. *)
PassOverNext(s, i) == IF i < Len(s) THEN Exchange(s, i, i + 1) ELSE s

(* The inner loop, and the outer one. *)
Pass(s, i) ==
  LET after[j \in i..Len(s)] == IF j = i THEN s ELSE Exchange(after[j - 1], i, j)
  IN  after[Len(s)]

LongestFirst(prefixes) ==
  LET after[i \in 0..Len(prefixes)] == IF i = 0 THEN prefixes ELSE Pass(after[i - 1], i)
  IN  after[Len(prefixes)]

(* A later room of the same path takes the place of an earlier one. *)
MatchPath(rooms, path, host) ==
  LET exact == ExactRooms(rooms, path, host)
      sorted == LongestFirst(PrefixRooms(rooms, host))
      hits == {i \in DOMAIN sorted : IsPrefix(sorted[i].path, path)}
  IN  IF exact # {} THEN rooms[CHOOSE i \in exact : \A j \in exact : j <= i].id
      ELSE IF hits # {} THEN sorted[CHOOSE i \in hits : \A j \in hits : i <= j].id
      ELSE NoRoom

(* Rooms of the request's host come first; a request without one is asked  *)
(* of the others only.                                                     *)
Match(rooms, path, host) ==
  LET scoped == IF host = "" THEN NoRoom ELSE MatchPath(rooms, path, host)
  IN  IF scoped # NoRoom THEN scoped ELSE MatchPath(rooms, path, "")
=============================================================================
