-------------------------- MODULE MCTenantAccess --------------------------
(* TenantAccess with ids for TLC: one tenant id is a prefix of the other,  *)
(* ids with the separator first, last, twice or missing, and a character   *)
(* that no tenant id may have.                                             *)
EXTENDS TenantAccess, TLC

CONSTANTS c1, c2

MCTenant == {<<"a">>, <<"a", "a">>, <<"a", ".">>, <<"a", ":", "a">>}

MCRoomId ==
  {<<"a">>, <<"a", ":", "a">>, <<"a", "a", ":", "a">>, <<"a", ":", "a", ":", "a">>,
   <<"a", ":">>, <<":", "a">>, <<"a", ".", ":", "a">>}

MCToken ==
  [good : {TRUE}, room : MCRoomId, aud : {<<"a">>, <<"a", "a">>}, record : {TRUE}]
    \cup {[good |-> g, room |-> <<"a", ":", "a">>, aud |-> <<"a">>, record |-> ~g] :
            g \in BOOLEAN}

MCSymmetry == Permutations({c1, c2})
=============================================================================
