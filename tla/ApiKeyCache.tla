---------------------------- MODULE ApiKeyCache ----------------------------
(***************************************************************************)
(* Introspection of vk_ API keys: the cache of apikey.cpIntrospector, and  *)
(* lookups at the control plane that are under way at the same time while  *)
(* keys are revoked and re-issued there.                                   *)
(***************************************************************************)
EXTENDS Clock

CONSTANTS
  Lookup,     \* callers of Introspect; each has at most one call under way
  ApiKey,     \* vk_ keys
  NoKey,      \* no call under way
  CacheTTL,   \* cacheTTL
  Timeout     \* of the http.Client

ASSUME KeyAssumption   == NoKey \notin ApiKey
ASSUME CacheAssumption == CacheTTL \in Nat \ {0} /\ Timeout \in Nat

(* What the control plane says of a key: valid for the meet product, valid *)
(* without that product, or invalid.                                       *)
Grade == {"meet", "other", "invalid"}

VARIABLES
  grade,      \* what the control plane holds of each key
  lastMeet,   \* history: when each key was last valid for meet
  cache,      \* cached results, by key
  asked       \* per caller: the lookup under way

keyVars == <<grade, lastMeet, cache, asked>>

NoEntry == [res |-> "none", fetched |-> 0]
Entry   == [res : Grade \cup {"none"}, fetched : Instant]
NoCall  == [key |-> NoKey, at |-> 0, res |-> "none"]
Call    == [key : ApiKey \cup {NoKey}, at : Instant, res : Grade \cup {"none"}]

KeysTypeOK ==
  /\ grade \in [ApiKey -> Grade]
  /\ lastMeet \in [ApiKey -> Instant]
  /\ cache \in [ApiKey -> Entry]
  /\ asked \in [Lookup -> Call]

KeysInit ==
  /\ grade = [k \in ApiKey |-> "meet"]
  /\ lastMeet = [k \in ApiKey |-> 0]
  /\ cache = [k \in ApiKey |-> NoEntry]
  /\ asked = [q \in Lookup |-> NoCall]

-----------------------------------------------------------------------------
(* Seeded fault: the HTTP client has no timeout.                           *)
KeysTickForever ==
  /\ lastMeet' = [k \in ApiKey |-> IF grade[k] = "meet" THEN now + 1
                                                       ELSE lastMeet[k]]
  /\ UNCHANGED <<grade, cache, asked>>

(* Time passes; a lookup that has used up the timeout fails before that.   *)
KeysTick ==
  /\ \A q \in Lookup : asked[q].key # NoKey => now - asked[q].at < Timeout
  /\ lastMeet' = [k \in ApiKey |-> IF grade[k] = "meet" THEN now + 1
                                                       ELSE lastMeet[k]]
  /\ UNCHANGED <<grade, cache, asked>>

(* The control plane revokes a key, re-issues it or changes its products.  *)
Regrade(k, g) ==
  /\ g # grade[k]
  /\ grade' = [grade EXCEPT ![k] = g]
  /\ lastMeet' = [lastMeet EXCEPT ![k] = IF g = "meet" THEN now ELSE @]
  /\ UNCHANGED <<cache, asked>>

(* The control plane handles a lookup.                                     *)
CPAnswers(q) ==
  /\ asked[q].key # NoKey
  /\ asked[q].res = "none"
  /\ asked' = [asked EXCEPT ![q].res = grade[asked[q].key]]
  /\ UNCHANGED <<grade, lastMeet, cache>>

-----------------------------------------------------------------------------
(* Seeded fault: an entry past its time is served while there is one.      *)
CachedForever(k) == cache[k].res

(* fromCache: the remembered result, or "none".                            *)
Cached(k) ==
  IF cache[k].res # "none" /\ now - cache[k].fetched < CacheTTL
    THEN cache[k].res ELSE "none"

(* Introspect misses the cache and posts to the control plane.             *)
Ask(q, k) ==
  /\ asked[q] = NoCall
  /\ Cached(k) = "none"
  /\ asked' = [asked EXCEPT ![q] = [key |-> k, at |-> now, res |-> "none"]]
  /\ UNCHANGED <<grade, lastMeet, cache>>

(* The answer arrives and is remembered, valid or not, with the time of    *)
(* its arrival.                                                            *)
Remember(q) ==
  /\ asked[q].res # "none"
  /\ cache' = [cache EXCEPT ![asked[q].key] =
                 [res |-> asked[q].res, fetched |-> now]]
  /\ asked' = [asked EXCEPT ![q] = NoCall]
  /\ UNCHANGED <<grade, lastMeet>>

(* No answer in time, an answer that is not 200 or does not parse, or the  *)
(* caller hung up.                                                         *)
LookupFails(q) ==
  /\ asked[q].key # NoKey
  /\ asked' = [asked EXCEPT ![q] = NoCall]
  /\ UNCHANGED <<grade, lastMeet, cache>>
=============================================================================
