------------------------- MODULE TenantAccessProofs -------------------------
(***************************************************************************)
(* Theorems about TenantAccess: the namespace of TenantGate tells tenants  *)
(* apart, whatever their ids, and no interleaving of calls breaks that.    *)
(***************************************************************************)
EXTENDS TenantAccess, SequenceTheorems, FiniteSetTheorems, WellFoundedInduction, TLAPS

-----------------------------------------------------------------------------
(* The room namespace.                                                     *)

(* Room r parses, and into tenant t.                                       *)
Mine(t, r) == Splits(r) /\ TenantOf(r) = t

(* A tenant id, the separator and something more, character by character.  *)
LEMMA Joined ==
  ASSUME NEW t \in Id, NEW rest \in Id
  PROVE  LET r == t \o <<Sep>> \o rest
         IN  /\ r \in Id
             /\ Len(r) = Len(t) + 1 + Len(rest)
             /\ \A i \in 1 .. Len(t) : r[i] = t[i]
             /\ r[Len(t) + 1] = Sep
             /\ \A i \in 1 .. Len(rest) : r[Len(t) + 1 + i] = rest[i]
<1> DEFINE p == t \o <<Sep>>
           r == p \o rest
<1>1. /\ <<Sep>> \in Seq(Char) /\ Len(<<Sep>>) = 1 /\ <<Sep>>[1] = Sep
      /\ t \in Seq(Char) /\ rest \in Seq(Char)
      /\ Len(t) \in Nat /\ Len(rest) \in Nat
  BY CharAssumption, LenProperties DEF Id
<1>2. /\ p \in Seq(Char) /\ Len(p) = Len(t) + 1
      /\ \A i \in 1 .. Len(t) + 1 :
           p[i] = IF i <= Len(t) THEN t[i] ELSE <<Sep>>[i - Len(t)]
  BY <1>1, ConcatProperties
<1>3. /\ r \in Seq(Char) /\ Len(r) = Len(p) + Len(rest)
      /\ \A i \in 1 .. Len(p) + Len(rest) :
           r[i] = IF i <= Len(p) THEN p[i] ELSE rest[i - Len(p)]
  BY <1>1, <1>2, ConcatProperties
<1> HIDE DEF p, r
<1>4. \A i \in 1 .. Len(t) : r[i] = t[i]
  BY <1>1, <1>2, <1>3
<1>5. r[Len(t) + 1] = Sep
  <2>1. p[Len(t) + 1] = <<Sep>>[1]
    BY <1>1, <1>2
  <2> QED
    BY <1>1, <1>2, <1>3, <2>1
<1>6. ASSUME NEW i \in 1 .. Len(rest) PROVE r[Len(t) + 1 + i] = rest[i]
  <2>1. /\ Len(p) + i \in 1 .. Len(p) + Len(rest) /\ ~(Len(p) + i <= Len(p))
        /\ (Len(p) + i) - Len(p) = i
    BY <1>1, <1>2
  <2>2. r[Len(p) + i] = rest[(Len(p) + i) - Len(p)]
    BY <1>3, <2>1
  <2> QED
    BY <1>2, <2>1, <2>2
<1>7. r \in Id /\ Len(r) = Len(t) + 1 + Len(rest)
  BY <1>2, <1>3 DEF Id
<1> QED
  BY <1>4, <1>5, <1>6, <1>7 DEF r, p

(* strings.Index: the separator is there and not before.                   *)
LEMMA FirstSepIs ==
  ASSUME NEW r \in Id, NEW i \in 1 .. Len(r), r[i] = Sep,
         \A j \in 1 .. Len(r) : j < i => r[j] # Sep
  PROVE  FirstSep(r) = i
<1>1. Len(r) \in Nat
  BY LenProperties DEF Id
<1>2. i \in SepAt(r) /\ \A j \in SepAt(r) : i <= j
  BY <1>1 DEF SepAt
<1>3. FirstSep(r) \in SepAt(r) /\ \A j \in SepAt(r) : FirstSep(r) <= j
  BY <1>2 DEF FirstSep
<1>4. FirstSep(r) \in Int /\ FirstSep(r) <= i /\ i <= FirstSep(r)
  BY <1>1, <1>2, <1>3 DEF SepAt
<1> QED
  BY <1>4

(* Numbers have a least one.                                               *)
LEMMA Least ==
  ASSUME NEW S, S \subseteq Nat, S # {}
  PROVE  \E i \in S : \A j \in S : i <= j
<1> DEFINE R == OpToRel(<, Nat)
<1>1. IsWellFoundedOn(R, Nat)
  BY NatLessThanWellFounded
<1>2. PICK i \in S : \A j \in S : ~(<<j, i>> \in R)
  <2> HIDE DEF R
  <2> QED
    BY <1>1, WFMin
<1>3. \A j \in S : ~(j < i)
  BY <1>2 DEF OpToRel
<1>4. \A j \in S : i <= j
  BY <1>3
<1> QED
  BY <1>4

LEMMA FirstSepExists ==
  ASSUME NEW r \in Id, SepAt(r) # {}
  PROVE  /\ FirstSep(r) \in 1 .. Len(r)
         /\ r[FirstSep(r)] = Sep
<1>1. Len(r) \in Nat
  BY LenProperties DEF Id
<1>2. SepAt(r) \subseteq Nat
  BY <1>1 DEF SepAt
<1>3. \E i \in SepAt(r) : \A j \in SepAt(r) : i <= j
  BY <1>2, Least
<1> QED
  BY <1>3 DEF FirstSep, SepAt

(* What parses into t is t, the separator and something more.              *)
LEMMA MineIsOwned ==
  ASSUME NEW r \in Id, NEW t, Mine(t, r)
  PROVE  t \in Id /\ ValidTenant(t) /\ Owns(t, r)
<1> DEFINE i == FirstSep(r)
<1>1. Len(r) \in Nat /\ r \in Seq(Char) /\ i \in 1 .. Len(r) /\ r[i] = Sep
  BY FirstSepExists, LenProperties DEF Id, Mine, Splits
<1>2. t = SubSeq(r, 1, i - 1) /\ ValidTenant(t)
  BY DEF Mine, Splits, TenantOf
<1>3. RestOf(r) = SubSeq(r, i + 1, Len(r)) /\ RestOf(r) # <<>>
  BY DEF Mine, Splits, RestOf
<1> HIDE DEF i
<1>4. i + 1 \in 1 .. Len(r)
  <2>1. CASE i = Len(r)
    BY <1>1, <1>3, <2>1, SubSeqEmpty
  <2> QED
    BY <1>1, <2>1
<1>5. t \in Id
  <2>1. \A j \in 1 .. i - 1 : r[j] \in Char
    BY <1>1, ElementOfSeq
  <2> QED
    BY <1>1, <1>2, <2>1, SubSeqProperties DEF Id
<1>6. r = t \o <<Sep>> \o SubSeq(r, i + 1, Len(r))
  <2>1. SubSeq(r, 1, i) = SubSeq(r, 1, i - 1) \o <<r[i]>>
    BY <1>1, SubSeqRecursiveSecond
  <2>2. SubSeq(r, 1, i) \o SubSeq(r, i + 1, Len(r)) = SubSeq(r, 1, Len(r))
    BY <1>1, ConcatAdjacentSubSeq
  <2>3. SubSeq(r, 1, Len(r)) = r
    BY <1>1, SubSeqFull
  <2> QED
    BY <1>1, <1>2, <2>1, <2>2, <2>3
<1> QED
  BY <1>2, <1>4, <1>5, <1>6 DEF Owns

(* A room that begins with a valid tenant id and the separator, and has    *)
(* something more, parses into that tenant.                                *)
LEMMA PrefixIsMine ==
  ASSUME NEW r \in Id, NEW t \in Id, ValidTenant(t),
         Len(t) + 1 < Len(r), \A j \in 1 .. Len(t) : r[j] = t[j],
         r[Len(t) + 1] = Sep
  PROVE  Mine(t, r)
<1>1. /\ Len(r) \in Nat /\ Len(t) \in Nat /\ r \in Seq(Char) /\ t \in Seq(Char)
      /\ t # <<>>
  BY LenProperties DEF Id, ValidTenant
<1>2. Len(t) + 1 \in 1 .. Len(r)
  BY <1>1
<1>3. \A j \in 1 .. Len(r) : j < Len(t) + 1 => r[j] # Sep
  BY <1>1 DEF ValidTenant
<1>4. FirstSep(r) = Len(t) + 1 /\ SepAt(r) # {}
  BY <1>2, <1>3, FirstSepIs DEF SepAt
<1>5. TenantOf(r) = t
  <2>1. TenantOf(r) = SubSeq(r, 1, Len(t))
    BY <1>1, <1>4 DEF TenantOf
  <2>2. /\ SubSeq(r, 1, Len(t)) \in Seq(Char)
        /\ Len(SubSeq(r, 1, Len(t))) = Len(t)
        /\ \A j \in 1 .. Len(t) : SubSeq(r, 1, Len(t))[j] = r[j]
    <3>1. \A j \in 1 .. Len(t) : r[j] \in Char
      BY <1>1, ElementOfSeq
    <3>2. /\ SubSeq(r, 1, Len(t)) \in Seq(Char)
          /\ Len(SubSeq(r, 1, Len(t))) = IF 1 <= Len(t) THEN Len(t) - 1 + 1 ELSE 0
          /\ \A j \in 1 .. Len(t) - 1 + 1 : SubSeq(r, 1, Len(t))[j] = r[1 + j - 1]
      BY <1>1, <3>1, SubSeqProperties
    <3> QED
      BY <1>1, <3>2
  <2> QED
    BY <1>1, <2>1, <2>2, SeqEqual
<1>6. RestOf(r) # <<>>
  <2>1. RestOf(r) = SubSeq(r, Len(t) + 2, Len(r))
    BY <1>1, <1>4 DEF RestOf
  <2>2. \A j \in Len(t) + 2 .. Len(r) : r[j] \in Char
    BY <1>1, ElementOfSeq
  <2>3. Len(SubSeq(r, Len(t) + 2, Len(r))) =
          IF Len(t) + 2 <= Len(r) THEN Len(r) - (Len(t) + 2) + 1 ELSE 0
    BY <1>1, <2>2, SubSeqProperties
  <2>4. Len(RestOf(r)) > 0
    BY <1>1, <2>1, <2>3
  <2> QED
    BY <2>4, EmptySeq
<1> QED
  BY <1>1, <1>4, <1>5, <1>6 DEF Mine, Splits

LEMMA OwnedIsMine ==
  ASSUME NEW r \in Id, NEW t \in Id, ValidTenant(t), Owns(t, r)
  PROVE  Mine(t, r)
<1>1. PICK n \in 1 .. Len(r) : r = t \o <<Sep>> \o SubSeq(r, n, Len(r))
  BY DEF Owns
<1> DEFINE rest == SubSeq(r, n, Len(r))
<1>2. Len(r) \in Nat /\ r \in Seq(Char) /\ Len(t) \in Nat
  BY LenProperties DEF Id
<1>3. rest \in Id /\ Len(rest) = Len(r) - n + 1
  <2>1. \A j \in n .. Len(r) : r[j] \in Char
    BY <1>2, ElementOfSeq
  <2> QED
    BY <1>2, <2>1, SubSeqProperties DEF Id
<1> HIDE DEF rest
<1>4. r = t \o <<Sep>> \o rest
  BY <1>1 DEF rest
<1>5. /\ Len(r) = Len(t) + 1 + Len(rest)
      /\ \A j \in 1 .. Len(t) : r[j] = t[j]
      /\ r[Len(t) + 1] = Sep
  BY <1>3, <1>4, Joined
<1> QED
  BY <1>2, <1>3, <1>5, PrefixIsMine

(* EnforceRoom, which parses, and FilterRooms, which compares prefixes,    *)
(* agree.                                                                  *)
LEMMA EnforceIs ==
  ASSUME NEW r, NEW t PROVE EnforceRoom(t, r) <=> Mine(t, r)
  BY DEF EnforceRoom, Mine, Splits

LEMMA PrefixIs ==
  ASSUME NEW r \in Id, NEW t \in Id, ValidTenant(t)
  PROVE  HasPrefix(r, t \o <<Sep>>) /\ Len(r) > Len(t) + 1 <=> Mine(t, r)
<1> DEFINE p == t \o <<Sep>>
<1>1. Len(r) \in Nat /\ r \in Seq(Char) /\ t \in Seq(Char) /\ Len(t) \in Nat
      /\ <<Sep>> \in Seq(Char) /\ Len(<<Sep>>) = 1 /\ <<Sep>>[1] = Sep
  BY CharAssumption, LenProperties DEF Id
<1>2. /\ p \in Seq(Char) /\ Len(p) = Len(t) + 1
      /\ \A i \in 1 .. Len(t) + 1 :
           p[i] = IF i <= Len(t) THEN t[i] ELSE <<Sep>>[i - Len(t)]
  BY <1>1, ConcatProperties
<1> HIDE DEF p
<1>3. (\A j \in 1 .. Len(t) : p[j] = t[j]) /\ p[Len(t) + 1] = Sep
  <2>1. p[Len(t) + 1] = <<Sep>>[1]
    BY <1>1, <1>2
  <2> QED
    BY <1>1, <1>2, <2>1
<1>4. ASSUME Len(r) > Len(t) + 1
      PROVE  /\ SubSeq(r, 1, Len(p)) \in Seq(Char)
             /\ Len(SubSeq(r, 1, Len(p))) = Len(p)
             /\ \A j \in 1 .. Len(p) : SubSeq(r, 1, Len(p))[j] = r[j]
  <2>1. \A j \in 1 .. Len(p) : r[j] \in Char
    BY <1>1, <1>2, <1>4, ElementOfSeq
  <2>2. /\ SubSeq(r, 1, Len(p)) \in Seq(Char)
        /\ Len(SubSeq(r, 1, Len(p))) = IF 1 <= Len(p) THEN Len(p) - 1 + 1 ELSE 0
        /\ \A j \in 1 .. Len(p) - 1 + 1 : SubSeq(r, 1, Len(p))[j] = r[1 + j - 1]
    BY <1>1, <1>2, <2>1, SubSeqProperties
  <2> QED
    BY <1>1, <1>2, <2>2
<1>5. ASSUME HasPrefix(r, p), Len(r) > Len(t) + 1 PROVE Mine(t, r)
  <2>1. SubSeq(r, 1, Len(p)) = p
    BY <1>5 DEF HasPrefix
  <2>2. \A j \in 1 .. Len(p) : r[j] = p[j]
    BY <1>4, <1>5, <2>1
  <2>3. (\A j \in 1 .. Len(t) : r[j] = t[j]) /\ r[Len(t) + 1] = Sep
    BY <1>1, <1>2, <1>3, <2>2
  <2> QED
    BY <1>1, <1>5, <2>3, PrefixIsMine
<1>6. ASSUME Mine(t, r) PROVE HasPrefix(r, p) /\ Len(r) > Len(t) + 1
  <2>1. PICK n \in 1 .. Len(r) : r = t \o <<Sep>> \o SubSeq(r, n, Len(r))
    BY <1>6, MineIsOwned DEF Owns
  <2> DEFINE rest == SubSeq(r, n, Len(r))
  <2>2. rest \in Id /\ Len(rest) = Len(r) - n + 1
    <3>1. \A j \in n .. Len(r) : r[j] \in Char
      BY <1>1, ElementOfSeq
    <3> QED
      BY <1>1, <3>1, SubSeqProperties DEF Id
  <2> HIDE DEF rest
  <2>3. r = t \o <<Sep>> \o rest
    BY <2>1 DEF rest
  <2>4. /\ Len(r) = Len(t) + 1 + Len(rest)
        /\ \A j \in 1 .. Len(t) : r[j] = t[j]
        /\ r[Len(t) + 1] = Sep
    BY <2>2, <2>3, Joined
  <2>5. Len(r) > Len(t) + 1
    BY <1>1, <2>2, <2>4
  <2>6. \A j \in 1 .. Len(p) : r[j] = p[j]
    BY <1>1, <1>2, <1>3, <2>4
  <2>7. SubSeq(r, 1, Len(p)) = p
    BY <1>2, <1>4, <2>5, <2>6, SeqEqual
  <2> QED
    BY <1>1, <1>2, <2>5, <2>7 DEF HasPrefix
<1> QED
  BY <1>5, <1>6 DEF p

LEMMA FilterIs ==
  ASSUME NEW ids \in SUBSET Id, NEW r \in ids, NEW t \in Id
  PROVE  r \in FilterRooms(t, ids) <=> Mine(t, r)
<1>1. CASE ValidTenant(t)
  BY <1>1, PrefixIs DEF FilterRooms
<1>2. CASE ~ValidTenant(t)
  BY <1>2 DEF FilterRooms, Mine, Splits
<1> QED
  BY <1>1, <1>2

-----------------------------------------------------------------------------
(* The calls.                                                              *)

(* A call about an egress acts for a tenant that has a name: RoomTenant    *)
(* gives the empty one for a room that does not parse.                     *)
Named(c) ==
  call[c].phase = "lookup" =>
    /\ call[c].as # <<>> /\ call[c].id \in EgressId
    /\ call[c].op \in {"stop", "update"}

(* What a forwarded call acts on parses into its tenant.                   *)
Bound(c) ==
  call[c].phase = "forward" =>
    IF call[c].op \in {"stop", "update"}
    THEN /\ call[c].id \in EgressId /\ egress[call[c].id].state # "none"
         /\ Mine(call[c].as, egress[call[c].id].room)
    ELSE /\ call[c].op # "none" /\ (call[c].op # "list" => call[c].id = NoEgress)
         /\ Mine(call[c].as, call[c].room)

(* Where the outputs of a Start or of an egress go.                        *)
Stored(x) == x.to \subseteq IF x.seam THEN {"gateway", "unknownProto"}
                                     ELSE {"named"} \cup UnreadOutput

Types ==
  /\ rooms \subseteq Id /\ IsFiniteSet(rooms)
  /\ egress \in [EgressId -> EgressInfo]
  /\ call \in [Caller -> Call]

IInv ==
  /\ Types
  /\ \A c \in Caller : Named(c) /\ Bound(c) /\ Stored(call[c])
  /\ \A e \in EgressId : Stored(egress[e])

LEMMA Ids == /\ <<>> \in Id /\ NoEgress \notin EgressId
             /\ \A t \in Tenant : t \in Id
             /\ \A r \in RoomId : r \in Id
             /\ \A tok \in Token : tok.room \in Id /\ tok.aud \in Id
<1>1. <<>> \in Id
  BY EmptySeq DEF Id
<1>2. \A tok \in Token : tok.room \in Id /\ tok.aud \in Id
  BY TokenAssumption DEF TokenType
<1> QED
  BY <1>1, <1>2, TenantAssumption, EgressAssumption

LEMMA IdleIs ==
  /\ Idle \in Call /\ Idle.phase = "idle" /\ Stored(Idle)
  BY Ids DEF Idle, Call, Stored

(* A token that Validate accepts is for a room of its audience.            *)
LEMMA ValidToken ==
  ASSUME NEW tok \in Token, Validate(tok)
  PROVE  /\ Mine(tok.aud, tok.room) /\ TenantOf(tok.room) = tok.aud
         /\ tok.aud # <<>>
  BY DEF Validate, Mine

LEMMA Starts == Init => IInv
<1> SUFFICES ASSUME Init PROVE IInv
  OBVIOUS
<1>1. NotStarted \in EgressInfo /\ Stored(NotStarted)
  BY Ids DEF NotStarted, EgressInfo, Stored
<1>2. Types
  BY <1>1, IdleIs, FS_EmptySet DEF Init, Types
<1>3. \A c \in Caller : call[c] = Idle
  BY DEF Init
<1>4. \A e \in EgressId : egress[e] = NotStarted
  BY DEF Init
<1>5. \A c \in Caller : Named(c) /\ Bound(c) /\ Stored(call[c])
  BY <1>3, IdleIs DEF Named, Bound
<1> QED
  BY <1>1, <1>2, <1>4, <1>5 DEF IInv

(* The room of an egress that was started stays: the answer of a lookup is *)
(* still true when the call reaches LiveKit.                               *)
Settled ==
  \A e \in EgressId : egress[e].state # "none" =>
    egress'[e].state # "none" /\ egress'[e].room = egress[e].room

(* One call changes, and its new value keeps what is asked of a call.      *)
LEMMA CallKeeps ==
  ASSUME IInv, Settled, NEW c \in Caller, NEW k \in Call,
         call' = [call EXCEPT ![c] = k],
         rooms' \subseteq Id, IsFiniteSet(rooms'),
         egress' \in [EgressId -> EgressInfo],
         \A e \in EgressId : Stored(egress'[e]),
         Stored(k),
         k.phase = "lookup" =>
           /\ k.as # <<>> /\ k.id \in EgressId /\ k.op \in {"stop", "update"},
         k.phase = "forward" =>
           IF k.op \in {"stop", "update"}
           THEN /\ k.id \in EgressId /\ egress'[k.id].state # "none"
                /\ Mine(k.as, egress'[k.id].room)
           ELSE /\ k.op # "none" /\ (k.op # "list" => k.id = NoEgress)
                /\ Mine(k.as, k.room)
  PROVE  IInv'
<1>1. /\ call' \in [Caller -> Call] /\ call'[c] = k
      /\ \A d \in Caller : d # c => call'[d] = call[d]
  BY DEF IInv, Types
<1>2. Named(c)' /\ Bound(c)' /\ Stored(call'[c])
  BY <1>1 DEF Named, Bound
<1>3. ASSUME NEW d \in Caller, d # c PROVE Named(d)' /\ Bound(d)' /\ Stored(call'[d])
  <2>1. call'[d] = call[d] /\ Named(d) /\ Bound(d) /\ Stored(call[d])
    BY <1>1, <1>3 DEF IInv
  <2> QED
    BY <2>1 DEF Named, Bound, Settled
<1>4. \A d \in Caller : Named(d)' /\ Bound(d)' /\ Stored(call[d])'
  BY <1>2, <1>3
<1>5. Types'
  BY <1>1 DEF Types
<1>6. \A e \in EgressId : Stored(egress[e])'
  OBVIOUS
<1> QED
  BY <1>4, <1>5, <1>6 DEF IInv

LEMMA Unsettled == ASSUME IInv, UNCHANGED egress PROVE
  Settled /\ egress' \in [EgressId -> EgressInfo] /\ \A e \in EgressId : Stored(egress'[e])
  BY DEF Settled, IInv, Types

LEMMA BeginKeeps ==
  ASSUME IInv, NEW c \in Caller, NEW k \in Call, Begin(c, k), Stored(k),
         k.phase = "lookup" =>
           /\ k.as # <<>> /\ k.id \in EgressId /\ k.op \in {"stop", "update"},
         k.phase = "forward" =>
           /\ k.op \notin {"stop", "update", "none"}
           /\ k.op # "list" => k.id = NoEgress
           /\ Mine(k.as, k.room)
  PROVE  IInv'
<1>1. call' = [call EXCEPT ![c] = k] /\ UNCHANGED <<rooms, egress>>
  BY DEF Begin
<1>2. rooms' \subseteq Id /\ IsFiniteSet(rooms')
  BY <1>1 DEF IInv, Types
<1> QED
  BY <1>1, <1>2, Unsettled, CallKeeps

LEMMA RoomIs ==
  ASSUME NEW op \in {"join", "delete", "start", "list"}, NEW t \in Id, NEW r \in Id,
         NEW k, k = Room(op, t, r)
  PROVE  /\ k \in Call /\ k.phase = "forward" /\ k.op = op /\ k.as = t
         /\ k.room = r /\ k.id = NoEgress /\ Stored(k)
  BY Ids DEF Room, Idle, Call, Stored

LEMMA JoinKeeps ==
  ASSUME IInv, NEW c \in Caller, NEW tok \in Token, Join(c, tok) PROVE IInv'
<1> DEFINE k == Room("join", tok.aud, tok.room)
<1>1. Validate(tok) /\ Begin(c, k)
  BY DEF Join
<1>0. k = Room("join", tok.aud, tok.room)
  OBVIOUS
<1> HIDE DEF k
<1>2. /\ k \in Call /\ k.phase = "forward" /\ k.op = "join" /\ k.as = tok.aud
      /\ k.room = tok.room /\ k.id = NoEgress /\ Stored(k)
  BY <1>0, Ids, RoomIs
<1> QED
  BY <1>1, <1>2, ValidToken, BeginKeeps

LEMMA DeleteRoomKeeps ==
  ASSUME IInv, NEW c \in Caller, NEW t \in Tenant, NEW rest \in RoomId,
         DeleteRoom(c, t, rest)
  PROVE  IInv'
<1> DEFINE r == QualifyRoom(t, rest)
           k == Room("delete", t, r)
<1>1. EnforceRoom(t, r) /\ Begin(c, k)
  BY DEF DeleteRoom
<1>2. r \in Id
  BY Ids, Joined DEF QualifyRoom
<1>3. Mine(t, r)
  BY <1>1, EnforceIs
<1>0. k = Room("delete", t, r)
  OBVIOUS
<1> HIDE DEF r, k
<1>4. /\ k \in Call /\ k.phase = "forward" /\ k.op = "delete" /\ k.as = t
      /\ k.room = r /\ k.id = NoEgress /\ Stored(k)
  BY <1>0, <1>2, Ids, RoomIs
<1> QED
  BY <1>1, <1>3, <1>4, BeginKeeps

(* A seam redirects every output that a Start of its kind can carry.       *)
LEMMA AllRedirected == \A m \in StartMethod : Outputs(m) \subseteq Redirected(m)
  BY DEF StartMethod, Outputs, Redirected, Output

(* Where the outputs of a body go: under a seam to the gateway, or they    *)
(* were not read and the body was protobuf.                                *)
LEMMA DestinationsAre ==
  ASSUME NEW m \in StartMethod \cup {"ListEgress"}, NEW shape, NEW h \in Seam,
         ~SeamRefuses(m, shape, h), NEW outs \in SUBSET Carries(m, shape)
  PROVE  /\ Destinations(m, outs, h) \in SUBSET Destination
         /\ Destinations(m, outs, h) \subseteq
              IF SeamOn(h) THEN {"gateway", "unknownProto"} ELSE {"named"} \cup UnreadOutput
<1>1. Destinations(m, outs, h) \in SUBSET Destination
  <2>1. \A o \in outs : (IF o \in UnreadOutput THEN o
          ELSE IF SeamOn(h) /\ o \in Redirected(m) THEN "gateway" ELSE "named") \in Destination
    BY DEF Destination
  <2> QED
    BY <2>1 DEF Destinations
<1>2. CASE ~SeamOn(h)
  BY <1>1, <1>2 DEF Destinations
<1>3. ASSUME SeamOn(h), NEW o \in outs
      PROVE  IF o \in UnreadOutput THEN o = "unknownProto" ELSE o \in Redirected(m)
  <2>1. CASE m \in StartMethod
    <3>1. shape # "unknownJSON" /\ Outputs(m) \subseteq Redirected(m)
      BY <1>3, <2>1, AllRedirected DEF SeamRefuses
    <3>2. o \in Outputs(m) \cup ({shape} \cap UnreadOutput)
      BY <2>1 DEF Carries
    <3>3. o \in Outputs(m) => o \notin UnreadOutput
      BY DEF Outputs, Output, UnreadOutput
    <3> QED
      BY <3>1, <3>2, <3>3 DEF UnreadOutput
  <2>2. CASE m \notin StartMethod
    BY <2>2 DEF Carries, Outputs, StartMethod
  <2> QED
    BY <2>1, <2>2
<1>4. CASE SeamOn(h)
  BY <1>1, <1>3, <1>4 DEF Destinations
<1> QED
  BY <1>2, <1>4

(* A request about a room that the proxy forwards is about a room of the   *)
(* token's tenant, whatever else its body carries.                         *)
LEMMA ForwardedIs ==
  ASSUME NEW q \in EgressRequest, Forwards(q),
         NEW outs \in SUBSET Carries(q.m, q.shape), NEW id \in BodyIds(q.m)
  PROVE  LET k == ForwardedAs(q, outs, id)
         IN  /\ k \in Call /\ k.phase = "forward" /\ k.op \in {"start", "list"}
             /\ k.op # "list" => k.id = NoEgress
             /\ Mine(k.as, k.room) /\ Stored(k)
<1> DEFINE op == IF q.m = "ListEgress" THEN "list" ELSE "start"
           b  == Room(op, q.tok.aud, q.room)
           to == Destinations(q.m, outs, q.h)
           k  == ForwardedAs(q, outs, id)
<1>1. /\ q.tok \in Token /\ q.room \in Id /\ q.tok.aud \in Id /\ q.tok.room \in Id
      /\ q.h \in Seam
  BY Ids DEF EgressRequest
<1>2. /\ Validate(q.tok) /\ AuthorizeRoom(q.m, q.shape, q.room, q.tok)
      /\ ~SeamRefuses(q.m, q.shape, q.h)
  BY DEF Forwards
<1>3. Mine(q.tok.aud, q.room)
  <2>1. Mine(q.tok.aud, q.tok.room) /\ TenantOf(q.tok.room) = q.tok.aud /\ q.tok.aud # <<>>
    BY <1>1, <1>2, ValidToken
  <2>2. CASE q.m = "ListEgress"
    BY <1>2, <2>1, <2>2 DEF AuthorizeRoom, RoomTenant, Mine
  <2>3. CASE q.m # "ListEgress"
    BY <1>2, <2>1, <2>3 DEF AuthorizeRoom
  <2> QED
    BY <2>2, <2>3
<1>4. /\ b \in Call /\ b.phase = "forward" /\ b.op = op /\ b.as = q.tok.aud
      /\ b.room = q.room
  <2>1. op \in {"start", "list"} /\ b = Room(op, q.tok.aud, q.room)
    OBVIOUS
  <2> HIDE DEF op, b
  <2> QED
    BY <1>1, <2>1, RoomIs
<1>5. k = [b EXCEPT !.id = id, !.seam = q.h.broker /\ q.h.endpoint # "none", !.to = to]
  BY DEF ForwardedAs
<1>6. SeamOn(q.h) \in BOOLEAN /\ (SeamOn(q.h) = (q.h.broker /\ q.h.endpoint # "none"))
  BY <1>1 DEF SeamOn, Seam
<1>7. /\ to \in SUBSET Destination
      /\ to \subseteq IF SeamOn(q.h) THEN {"gateway", "unknownProto"}
                                     ELSE {"named"} \cup UnreadOutput
  <2>1. q.m \in StartMethod \cup {"ListEgress"}
    BY <1>2 DEF AuthorizeRoom
  <2> QED
    BY <1>1, <1>2, <2>1, DestinationsAre
<1>8. id \in EgressId \cup {NoEgress} /\ (op # "list" => id = NoEgress)
  BY DEF BodyIds
<1>9. op \in {"start", "list"}
  OBVIOUS
<1> HIDE DEF b, k, op, to
<1>10. /\ k \in Call /\ k.phase = "forward" /\ k.op = op /\ k.as = q.tok.aud
       /\ k.room = q.room /\ k.id = id /\ k.seam = SeamOn(q.h) /\ k.to = to
  BY <1>4, <1>5, <1>6, <1>7, <1>8 DEF Call
<1>11. Stored(k)
  BY <1>7, <1>10 DEF Stored
<1> QED
  BY <1>3, <1>8, <1>9, <1>10, <1>11 DEF k

LEMMA RoomEgressKeeps == ASSUME IInv, NEW c \in Caller, RoomEgress(c) PROVE IInv'
<1>1. PICK q \in EgressRequest :
        /\ Forwards(q)
        /\ \E outs \in SUBSET Carries(q.m, q.shape), id \in BodyIds(q.m) :
             Begin(c, ForwardedAs(q, outs, id))
  BY DEF RoomEgress, RoomEgressCalls
<1>0. PICK outs \in SUBSET Carries(q.m, q.shape), id \in BodyIds(q.m) :
        Begin(c, ForwardedAs(q, outs, id))
  BY <1>1
<1> DEFINE k == ForwardedAs(q, outs, id)
<1>2. /\ k \in Call /\ k.phase = "forward" /\ k.op \in {"start", "list"}
      /\ k.op # "list" => k.id = NoEgress
      /\ Mine(k.as, k.room) /\ Stored(k)
  BY <1>0, <1>1, ForwardedIs
<1>3. Begin(c, k)
  BY <1>0
<1> HIDE DEF k
<1> QED
  BY <1>2, <1>3, BeginKeeps

LEMMA IdEgressKeeps ==
  ASSUME IInv, NEW c \in Caller, NEW tok \in Token, NEW m \in IdMethod,
         NEW e \in EgressId, IdEgress(c, tok, m, e)
  PROVE  IInv'
<1> DEFINE op == IF m = "StopEgress" THEN "stop" ELSE "update"
           k  == [Idle EXCEPT !.phase = "lookup", !.op = op, !.as = tok.aud, !.id = e]
<1>1. Validate(tok) /\ Begin(c, k)
  BY DEF IdEgress
<1>2. op \in {"stop", "update"}
  OBVIOUS
<1> HIDE DEF op
<1>3. /\ k \in Call /\ k.phase = "lookup" /\ k.as = tok.aud /\ k.id = e /\ k.op = op
      /\ Stored(k)
  BY <1>2, Ids DEF Idle, Call, Stored
<1> HIDE DEF k
<1> QED
  BY <1>1, <1>2, <1>3, ValidToken, BeginKeeps

LEMMA IdlesKeeps ==
  ASSUME IInv, Settled, NEW c \in Caller, call' = [call EXCEPT ![c] = Idle],
         rooms' \subseteq Id, IsFiniteSet(rooms'),
         egress' \in [EgressId -> EgressInfo],
         \A e \in EgressId : Stored(egress'[e])
  PROVE  IInv'
<1>1. Idle \in Call /\ Idle.phase # "lookup" /\ Idle.phase # "forward" /\ Stored(Idle)
  BY IdleIs
<1> HIDE DEF Idle
<1> QED
  BY <1>1, CallKeeps

(* The owner is looked up and the call, if it is the caller's, goes on.    *)
LEMMA ResolvedKeeps == ASSUME IInv, NEW c \in Caller, Resolved(c) PROVE IInv'
<1> DEFINE id == call[c].id
           ok == egress[id].state # "none" /\ AuthorizeId(egress[id].room, call[c].as)
           k  == [call[c] EXCEPT !.phase = "forward"]
<1>1. UNCHANGED <<rooms, egress>> /\ rooms' \subseteq Id /\ IsFiniteSet(rooms')
  BY DEF Resolved, IInv, Types
<1>2. /\ call[c] \in Call /\ call[c].as # <<>> /\ id \in EgressId
      /\ call[c].op \in {"stop", "update"} /\ Stored(call[c])
  BY DEF Resolved, IInv, Types, Named
<1>3. call' = [call EXCEPT ![c] = IF ok THEN k ELSE Idle]
  BY DEF Resolved, IInv, Types
<1>4. CASE ~ok
  BY <1>1, <1>3, <1>4, Unsettled, IdlesKeeps
<1>5. CASE ok
  <2>1. Mine(call[c].as, egress[id].room)
    BY <1>2, <1>5 DEF AuthorizeId, RoomTenant, Mine
  <2>2. /\ k \in Call /\ k.phase = "forward" /\ k.op = call[c].op /\ k.as = call[c].as
        /\ k.id = id /\ k.seam = call[c].seam /\ k.to = call[c].to
    BY <1>2 DEF Call
  <2>3. Stored(k)
    BY <1>2, <2>2 DEF Stored
  <2>4. call' = [call EXCEPT ![c] = k]
    BY <1>3, <1>5
  <2>5. egress'[id].state # "none" /\ egress'[id] = egress[id]
    BY <1>1, <1>5
  <2> HIDE DEF k, id
  <2> QED
    BY <1>1, <1>2, <2>1, <2>2, <2>3, <2>4, <2>5, Unsettled, CallKeeps
<1> QED
  BY <1>4, <1>5

LEMMA ReturnsKeeps ==
  ASSUME IInv, NEW c \in Caller, LookupFails(c) \/ NoEffect(c) PROVE IInv'
<1>1. UNCHANGED <<rooms, egress>> /\ call' = [call EXCEPT ![c] = Idle]
  BY DEF LookupFails, NoEffect
<1>2. rooms' \subseteq Id /\ IsFiniteSet(rooms')
  BY <1>1 DEF IInv, Types
<1> QED
  BY <1>1, <1>2, Unsettled, IdlesKeeps

(* An egress leaves its state only forwards and keeps its room and its     *)
(* outputs when it ends.                                                   *)
LEMMA Ending ==
  ASSUME IInv, NEW e \in EgressId, egress[e].state = "active",
         egress' = [egress EXCEPT ![e].state = "ended"]
  PROVE  /\ Settled /\ egress' \in [EgressId -> EgressInfo]
         /\ \A f \in EgressId : Stored(egress'[f])
<1> DEFINE x == [egress[e] EXCEPT !.state = "ended"]
<1>1. egress \in [EgressId -> EgressInfo]
  BY DEF IInv, Types
<1>2. /\ x \in EgressInfo /\ x.state = "ended" /\ x.room = egress[e].room
      /\ x.seam = egress[e].seam /\ x.to = egress[e].to
  BY <1>1 DEF EgressInfo
<1>3. /\ egress'[e] = x
      /\ \A f \in EgressId : f # e => egress'[f] = egress[f]
  BY <1>1
<1>4. egress' \in [EgressId -> EgressInfo]
  BY <1>1, <1>2
<1> HIDE DEF x
<1>5. Settled
  BY <1>2, <1>3 DEF Settled
<1>6. Stored(x)
  BY <1>2 DEF IInv, Stored
<1> QED
  BY <1>3, <1>4, <1>5, <1>6 DEF IInv

LEMMA HandledKeeps == ASSUME IInv, NEW c \in Caller, Handled(c) PROVE IInv'
<1> DEFINE k == call[c]
<1>1. call' = [call EXCEPT ![c] = Idle] /\ k.phase = "forward"
  BY DEF Handled
<1>2. k \in Call /\ Bound(c) /\ Stored(k) /\ rooms \subseteq Id /\ IsFiniteSet(rooms)
  BY DEF IInv, Types
<1>3. CASE k.op = "join" /\ rooms' = rooms \cup {k.room} /\ UNCHANGED egress
  <2>1. rooms' \subseteq Id /\ IsFiniteSet(rooms')
    BY <1>2, <1>3, FS_AddElement DEF Call
  <2> QED
    BY <1>1, <1>3, <2>1, Unsettled, IdlesKeeps
<1>4. CASE k.op = "delete" /\ rooms' = rooms \ {k.room} /\ UNCHANGED egress
  <2>1. rooms' \subseteq Id /\ IsFiniteSet(rooms')
    BY <1>2, <1>4, FS_RemoveElement
  <2> QED
    BY <1>1, <1>4, <2>1, Unsettled, IdlesKeeps
<1>5. ASSUME k.op = "start", UNCHANGED rooms, NEW e \in EgressId,
             egress[e].state = "none",
             egress' = [egress EXCEPT ![e] =
               [state |-> "active", room |-> k.room, seam |-> k.seam, to |-> k.to]]
      PROVE  IInv'
  <2> DEFINE x == [state |-> "active", room |-> k.room, seam |-> k.seam, to |-> k.to]
  <2>1. x \in EgressInfo
    BY <1>2 DEF Call, EgressInfo
  <2>2. Stored(x)
    BY <1>2 DEF Stored
  <2>3. egress' = [egress EXCEPT ![e] = x]
    BY <1>5
  <2> HIDE DEF x
  <2>4. /\ egress' \in [EgressId -> EgressInfo] /\ egress'[e] = x
        /\ \A f \in EgressId : f # e => egress'[f] = egress[f]
    BY <2>1, <2>3 DEF IInv, Types
  <2>5. Settled
    BY <1>5, <2>4 DEF Settled
  <2>6. \A f \in EgressId : Stored(egress'[f])
    BY <2>2, <2>4 DEF IInv
  <2> QED
    BY <1>1, <1>2, <1>5, <2>4, <2>5, <2>6, IdlesKeeps
<1>6. CASE /\ k.op = "stop" /\ egress[k.id].state = "active"
           /\ egress' = [egress EXCEPT ![k.id].state = "ended"] /\ UNCHANGED rooms
  <2>1. k.id \in EgressId
    BY <1>1, <1>2, <1>6 DEF Bound
  <2> QED
    BY <1>1, <1>2, <1>6, <2>1, Ending, IdlesKeeps
<1> QED
  BY <1>3, <1>4, <1>5, <1>6 DEF Handled

LEMMA LiveKitKeeps == ASSUME IInv, LiveKit PROVE IInv'
<1> SUFFICES ASSUME UNCHANGED call, Settled, rooms' \subseteq Id, IsFiniteSet(rooms'),
                    egress' \in [EgressId -> EgressInfo],
                    \A e \in EgressId : Stored(egress'[e])
             PROVE  IInv'
  <2>1. ASSUME NEW r \in RoomId, OtherRoom(r)
        PROVE  UNCHANGED <<call, egress>> /\ rooms' \subseteq Id /\ IsFiniteSet(rooms')
    BY <2>1, Ids, FS_AddElement DEF OtherRoom, IInv, Types
  <2>2. ASSUME NEW r \in RoomId, RoomEnds(r)
        PROVE  UNCHANGED <<call, egress>> /\ rooms' \subseteq Id /\ IsFiniteSet(rooms')
    BY <2>2, FS_RemoveElement DEF RoomEnds, IInv, Types
  <2>3. ASSUME NEW e \in EgressId, EgressEnds(e)
        PROVE  /\ UNCHANGED <<call, rooms>> /\ Settled
               /\ egress' \in [EgressId -> EgressInfo]
               /\ \A f \in EgressId : Stored(egress'[f])
    BY <2>3, Ending DEF EgressEnds
  <2>4. rooms \subseteq Id /\ IsFiniteSet(rooms)
    BY DEF IInv, Types
  <2> QED
    BY <2>1, <2>2, <2>3, <2>4, Unsettled DEF LiveKit
<1>1. ASSUME NEW d \in Caller PROVE Named(d)' /\ Bound(d)' /\ Stored(call[d])'
  <2>1. Named(d) /\ Bound(d) /\ Stored(call[d])
    BY DEF IInv
  <2> QED
    BY <2>1 DEF Named, Bound, Settled
<1>2. Types'
  BY DEF Types, IInv
<1> QED
  BY <1>1, <1>2 DEF IInv

LEMMA StutterKeeps == ASSUME IInv, UNCHANGED vars PROVE IInv'
<1>1. UNCHANGED <<rooms, egress, call>>
  BY DEF vars
<1>2. \A c \in Caller : Named(c)' /\ Bound(c)' /\ Stored(call[c])'
  BY <1>1 DEF IInv, Named, Bound
<1> QED
  BY <1>1, <1>2 DEF IInv, Types

LEMMA Keeps == ASSUME IInv, [Next]_vars PROVE IInv'
<1>1. CASE UNCHANGED vars
  BY <1>1, StutterKeeps
<1>2. CASE LiveKit
  BY <1>2, LiveKitKeeps
<1>3. ASSUME NEW c \in Caller, NEW tok \in Token, Join(c, tok) PROVE IInv'
  BY <1>3, JoinKeeps
<1>4. ASSUME NEW c \in Caller, NEW t \in Tenant, NEW rest \in RoomId,
             DeleteRoom(c, t, rest)
      PROVE  IInv'
  BY <1>4, DeleteRoomKeeps
<1>5. ASSUME NEW c \in Caller, NEW tok \in Token, NEW m \in IdMethod,
             NEW e \in EgressId, IdEgress(c, tok, m, e)
      PROVE  IInv'
  BY <1>5, IdEgressKeeps
<1>6. ASSUME NEW c \in Caller,
             \/ RoomEgress(c) \/ Resolved(c) \/ LookupFails(c)
             \/ Handled(c) \/ NoEffect(c)
      PROVE  IInv'
  BY <1>6, RoomEgressKeeps, ResolvedKeeps, ReturnsKeeps, HandledKeeps
<1> QED
  BY <1>1, <1>2, <1>3, <1>4, <1>5, <1>6 DEF Next

LEMMA Inductive == Spec => []IInv
<1>1. Init => IInv
  BY Starts
<1>2. IInv /\ [Next]_vars => IInv'
  BY Keeps
<1> QED
  BY <1>1, <1>2, PTL DEF Spec

-----------------------------------------------------------------------------
(* Theorems.                                                               *)

(* Rooms, egresses and calls keep their shape; a call forwarded about an   *)
(* egress names one that was started.                                      *)
THEOREM TypeCorrect == Spec => []TypeOK
<1>1. IInv => TypeOK
  BY DEF IInv, Types, Bound, TypeOK
<1> QED
  BY <1>1, Inductive, PTL

(* For every set of tenant ids, rooms and tokens, well-formed or not, and  *)
(* every interleaving of joins, deletes and egress calls with rooms and    *)
(* egresses that come and go: what a call acts on at LiveKit is a room of  *)
(* the caller's tenant, and of no other.  Nothing is claimed of what a     *)
(* ListEgress reads that names an egress: its id is not checked.           *)
THEOREM TenantsAreIsolated == Spec => []Isolation
<1>1. IInv => Isolation
  <2> SUFFICES ASSUME IInv, NEW c \in Caller, call[c].phase = "forward",
                      ~ListsById(c), NEW r, r = IF call[c].op \in {"stop", "update"}
                                 THEN egress[call[c].id].room ELSE call[c].room
               PROVE  /\ Owns(call[c].as, r)
                      /\ \A t \in Tenant : ValidTenant(t) /\ Owns(t, r) => t = call[c].as
    BY DEF Isolation
  <2>1. call[c] \in Call /\ egress \in [EgressId -> EgressInfo] /\ Bound(c)
    BY DEF IInv, Types
  <2>2. r \in Id /\ Mine(call[c].as, r)
    BY <2>1 DEF Bound, Call, EgressInfo
  <2>3. Owns(call[c].as, r)
    BY <2>2, MineIsOwned
  <2>4. ASSUME NEW t \in Tenant, ValidTenant(t), Owns(t, r) PROVE t = call[c].as
    <3>1. Mine(t, r)
      BY <2>2, <2>4, Ids, OwnedIsMine
    <3> QED
      BY <2>2, <3>1 DEF Mine
  <2> QED
    BY <2>3, <2>4
<1> QED
  BY <1>1, Inductive, PTL

(* FilterRooms, which compares prefixes, lists exactly the rooms that      *)
(* EnforceRoom, which parses, would let the tenant act on; and no room is  *)
(* in the lists of two tenants.                                            *)
THEOREM ListsDoNotOverlap == Spec => []ListsAreDisjoint
<1>1. IInv => ListsAreDisjoint
  <2> SUFFICES ASSUME IInv, NEW r \in rooms, NEW t \in Tenant
               PROVE  /\ r \in FilterRooms(t, rooms) <=> EnforceRoom(t, r)
                      /\ r \in FilterRooms(t, rooms) =>
                           /\ Owns(t, r)
                           /\ \A u \in Tenant : r \in FilterRooms(u, rooms) => u = t
    BY DEF ListsAreDisjoint
  <2>1. rooms \in SUBSET Id /\ r \in Id
    BY DEF IInv, Types
  <2>2. \A u \in Tenant : r \in FilterRooms(u, rooms) <=> Mine(u, r)
    BY <2>1, Ids, FilterIs
  <2>3. Mine(t, r) => Owns(t, r)
    BY <2>1, MineIsOwned
  <2>4. \A u \in Tenant : Mine(t, r) /\ Mine(u, r) => u = t
    BY DEF Mine
  <2> QED
    BY <2>2, <2>3, <2>4, EnforceIs
<1> QED
  BY <1>1, Inductive, PTL

(* An egress started under a proven seam stores every output in a form the *)
(* build knows in the gateway's bucket; one that stays where the body says *)
(* was an unknown field of a protobuf body.                                *)
THEOREM SeamIsHonoured == Spec => []SeamHonoured
<1>1. IInv => SeamHonoured
  BY DEF IInv, SeamHonoured, Stored
<1> QED
  BY <1>1, Inductive, PTL
=============================================================================
