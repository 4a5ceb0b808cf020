----------------------------- MODULE TenantGate -----------------------------
(***************************************************************************)
(* The room namespace: tenant ids, qualified room ids and the checks every *)
(* handler funnels through.  An id is the sequence of its characters; only *)
(* the separator, the characters a tenant id may have and the others are   *)
(* told apart.                                                             *)
(***************************************************************************)
EXTENDS Naturals, Sequences

CONSTANTS
  Char,             \* characters of ids
  Sep,              \* the tenant separator
  NameChar,         \* letters, digits, hyphen, underscore
  MaxTenantIDLen

ASSUME CharAssumption ==
  Sep \in Char /\ NameChar \subseteq Char /\ MaxTenantIDLen \in Nat

Id == Seq(Char)

-----------------------------------------------------------------------------
(* Seeded fault: a tenant id may hold the separator.                       *)
ValidTenantLax(t) ==
  /\ t # <<>> /\ Len(t) <= MaxTenantIDLen
  /\ \A i \in 1 .. Len(t) : t[i] \in NameChar \cup {Sep}

(* validateTenant.  The separator may be configured to be one of NameChar. *)
ValidTenant(t) ==
  /\ t # <<>> /\ Len(t) <= MaxTenantIDLen
  /\ \A i \in 1 .. Len(t) : t[i] \in NameChar /\ t[i] # Sep

SepAt(r) == {i \in 1 .. Len(r) : r[i] = Sep}

(* strings.Index(r, sep).                                                  *)
FirstSep(r) == CHOOSE i \in SepAt(r) : \A j \in SepAt(r) : i <= j

TenantOf(r) == SubSeq(r, 1, FirstSep(r) - 1)
RestOf(r)   == SubSeq(r, FirstSep(r) + 1, Len(r))

(* SplitRoom returns no error; TenantOf and RestOf are what it returns.    *)
Splits(r) ==
  /\ SepAt(r) # {}
  /\ TenantOf(r) # <<>> /\ RestOf(r) # <<>>
  /\ ValidTenant(TenantOf(r))

(* EnforceRoom returns nil.                                                *)
EnforceRoom(t, r) == ValidTenant(t) /\ Splits(r) /\ TenantOf(r) = t

(* QualifyRoom returns no error, and what it returns.                      *)
Qualifies(t, rest) == ValidTenant(t) /\ rest # <<>> /\ SepAt(rest) = {}
QualifyRoom(t, rest) == t \o <<Sep>> \o rest

HasPrefix(r, p) == Len(p) <= Len(r) /\ SubSeq(r, 1, Len(p)) = p

(* Seeded fault: the prefix is the tenant id without the separator.        *)
FilterRoomsBare(t, ids) ==
  {r \in ids : ValidTenant(t) /\ HasPrefix(r, t) /\ Len(r) > Len(t)}

FilterRooms(t, ids) ==
  {r \in ids : /\ ValidTenant(t)
               /\ HasPrefix(r, t \o <<Sep>>) /\ Len(r) > Len(t) + 1}

-----------------------------------------------------------------------------
(* A VULOS-MEET/1 token: whether ParseAPIToken, the API key, Verify and    *)
(* the TTL clamp accept it, its room and audience claims, and whether it   *)
(* has the RoomRecord grant.                                               *)
TokenType == [good : BOOLEAN, room : Id, aud : Id, record : BOOLEAN]

(* Seeded fault: the audience is not compared with the room's tenant.      *)
ValidateRoomOnly(tok) == tok.good /\ tok.room # <<>> /\ Splits(tok.room)

(* Validate returns no error.  TenantOf(tok.room) is the token's tenant.   *)
Validate(tok) ==
  /\ tok.good
  /\ tok.room # <<>> /\ Splits(tok.room)
  /\ tok.aud # <<>> /\ tok.aud = TenantOf(tok.room)

-----------------------------------------------------------------------------
(* The isolation invariant's own words: "every room ID is                  *)
(* <tenant><sep><rest>".  Room r is t's when it is t, the separator and    *)
(* something more.                                                         *)
Owns(t, r) == \E n \in 1 .. Len(r) : r = t \o <<Sep>> \o SubSeq(r, n, Len(r))
=============================================================================
