------------------------------- MODULE Cookie -------------------------------
(***************************************************************************)
(* The cookie codec of internal/cookie/signer.go.  A message is the        *)
(* sequence of its pieces between the separators; the id of a room may     *)
(* hold separators itself and is then several pieces.  The MAC of a        *)
(* message is a value that stands for it and for no other.                 *)
(***************************************************************************)
EXTENDS Integers, Sequences

Payload(id, roomId, status, iat, exp) ==
  [id |-> id, roomId |-> roomId, status |-> status, iat |-> iat, exp |-> exp]

MAC(msg) == [mac |-> msg]

Message(p) == <<[piece |-> p.id]>> \o [i \in DOMAIN p.roomId |-> [piece |-> p.roomId[i]]]
                \o <<[piece |-> p.status], [piece |-> p.iat], [piece |-> p.exp]>>

Sign(p) == Append(Message(p), MAC(Message(p)))

Rejected == [error |-> "invalid"]

Expired == [error |-> "expired"]

(* A slip: a cookie is over at the second of its expiry. *)
VerifyStrictly(token, now) ==
  IF Len(token) # 6 \/ token[6] # MAC(SubSeq(token, 1, 5)) THEN Rejected
  ELSE IF now >= token[5].piece THEN Expired
  ELSE Payload(token[1].piece, <<token[2].piece>>, token[3].piece, token[4].piece, token[5].piece)

Verify(token, now) ==
  IF Len(token) # 6 \/ token[6] # MAC(SubSeq(token, 1, 5)) THEN Rejected
  ELSE IF now > token[5].piece THEN Expired
  ELSE Payload(token[1].piece, <<token[2].piece>>, token[3].piece, token[4].piece, token[5].piece)
=============================================================================
