----------------------------- MODULE FrontDoor -----------------------------
(***************************************************************************)
(* The two listeners of the box with their rate limiters, up to the point  *)
(* where a request is let in.  An admin request passes the admin limiter   *)
(* and then checkAuth, with the static token or a vk_ key.  A /rtc request *)
(* passes the public listener's limiter twice, in the middleware and again *)
(* in the signal gate; the other routes of that listener pass it once, and *)
(* those that manage apps ask for the static token as well.  Requests of   *)
(* one client overlap.                                                     *)
(***************************************************************************)
EXTENDS RateLimiter, ApiKeyCache, FiniteSets

CONSTANTS
  Static,     \* the credential that is MEET_ADMIN_TOKEN
  Wrong       \* any other that is not a vk_ key

ASSUME CredentialAssumption ==
  Static \notin ApiKey /\ Wrong \notin ApiKey /\ Static # Wrong
ASSUME LimiterAssumption == {"admin", "rtc"} \subseteq Limiter

ASSUME RequestAssumption == IsFiniteSet(Lookup)

Request    == Lookup
Credential == ApiKey \cup {Static, Wrong}

VARIABLES
  phase,      \* where a request is
  client,     \* who sent it
  cred,       \* the bearer it carries, if the route asks for one
  guesses,    \* history: per client, the bearers the admin API looked at
  appGuesses, \* history: per client, the ones the apps routes looked at
  joins       \* history: per client, the /rtc requests past the limiters

historyVars == <<guesses, appGuesses, joins>>
doorVars == <<phase, client, cred, historyVars>>
vars == <<now, limiterVars, keyVars, doorVars>>

TypeOK ==
  /\ ClockTypeOK /\ LimiterTypeOK /\ KeysTypeOK
  /\ phase \in [Request -> {"idle", "auth", "lookup", "apps", "served", "gate"}]
  /\ client \in [Request -> Client]
  /\ cred \in [Request -> Credential]
  /\ guesses \in [Client -> Nat]
  /\ appGuesses \in [Client -> Nat]
  /\ joins \in [Client -> Nat]

Init ==
  /\ ClockInit /\ LimiterInit /\ KeysInit
  /\ phase = [q \in Request |-> "idle"]
  /\ client \in [Request -> Client]
  /\ cred = [q \in Request |-> Wrong]
  /\ guesses = [c \in Client |-> 0]
  /\ appGuesses = [c \in Client |-> 0]
  /\ joins = [c \in Client |-> 0]

-----------------------------------------------------------------------------
TimePasses ==
  /\ Tick /\ KeysTick
  /\ UNCHANGED <<limiterVars, doorVars>>

ControlPlane ==
  /\ \/ \E k \in ApiKey, g \in Grade : Regrade(k, g)
     \/ \E q \in Request : CPAnswers(q)
  /\ UNCHANGED <<now, limiterVars, doorVars>>

(* The caller that RateLimiter's doc expects; main() starts none yet.      *)
Evict ==
  /\ \E l \in Limiter : GCOnce(l)
  /\ UNCHANGED <<now, keyVars, doorVars>>

To(q, p) == phase' = [phase EXCEPT ![q] = p]

(* Seeded fault: the bearer is looked at before the limiter.               *)
AdminArrivesUnlimited(q, k) ==
  /\ phase[q] = "idle"
  /\ cred' = [cred EXCEPT ![q] = k]
  /\ To(q, "auth")
  /\ UNCHANGED <<now, limiterVars, keyVars, client, historyVars>>

(* The admin listener: 429, or on to checkAuth.                            *)
AdminArrives(q, k) ==
  /\ phase[q] = "idle"
  /\ \/ /\ Allow("admin", client[q])
        /\ cred' = [cred EXCEPT ![q] = k]
        /\ To(q, "auth")
     \/ Throttle("admin", client[q]) /\ UNCHANGED <<cred, phase>>
  /\ UNCHANGED <<now, keyVars, client, historyVars>>

Guess(q) == guesses' = [guesses EXCEPT ![client[q]] = @ + 1]

(* checkAuth of a key: a decision from the cache, or a lookup.             *)
CheckKey(q) ==
  /\ phase[q] = "auth" /\ cred[q] \in ApiKey
  /\ \/ Ask(q, cred[q]) /\ To(q, "lookup")
     \/ /\ Cached(cred[q]) # "none"
        /\ To(q, IF Cached(cred[q]) = "meet" THEN "served" ELSE "idle")
        /\ UNCHANGED keyVars
  /\ Guess(q)
  /\ UNCHANGED <<now, limiterVars, client, cred, appGuesses, joins>>

(* Seeded fault: a lookup that fails lets the request in.                  *)
KeyReturnsOpen(q) ==
  /\ phase[q] = "lookup"
  /\ \/ /\ Remember(q)
        /\ To(q, IF asked[q].res = "meet" THEN "served" ELSE "idle")
     \/ LookupFails(q) /\ To(q, "served")
  /\ UNCHANGED <<now, limiterVars, client, cred, historyVars>>

(* Introspect returns: let in, 401 or 403, or 503 when it failed.          *)
KeyReturns(q) ==
  /\ phase[q] = "lookup"
  /\ \/ /\ Remember(q)
        /\ To(q, IF asked[q].res = "meet" THEN "served" ELSE "idle")
     \/ LookupFails(q) /\ To(q, "idle")
  /\ UNCHANGED <<now, limiterVars, client, cred, historyVars>>

(* checkAuth of any other bearer.                                          *)
CheckStatic(q) ==
  /\ phase[q] = "auth" /\ cred[q] \notin ApiKey
  /\ To(q, IF cred[q] = Static THEN "served" ELSE "idle")
  /\ Guess(q)
  /\ UNCHANGED <<now, limiterVars, keyVars, client, cred, appGuesses, joins>>

(* The public listener, a management route of the apps handler: 429 from   *)
(* the middleware, or on to the handler.                                   *)
AppsArrives(q, k) ==
  /\ phase[q] = "idle"
  /\ \/ /\ Allow("rtc", client[q])
        /\ cred' = [cred EXCEPT ![q] = k]
        /\ To(q, "apps")
     \/ Throttle("rtc", client[q]) /\ UNCHANGED <<cred, phase>>
  /\ UNCHANGED <<now, keyVars, client, historyVars>>

(* The Admin hook of NewAppsHandler compares the bearer with the token     *)
(* that guards the admin API; it knows no vk_ keys.                        *)
CheckApps(q) ==
  /\ phase[q] = "apps"
  /\ To(q, IF cred[q] = Static THEN "served" ELSE "idle")
  /\ appGuesses' = [appGuesses EXCEPT ![client[q]] = @ + 1]
  /\ UNCHANGED <<now, limiterVars, keyVars, client, cred, guesses, joins>>

(* The handler, or the proxied connection, is done with the request.       *)
Done(q) ==
  /\ phase[q] = "served"
  /\ To(q, "idle")
  /\ UNCHANGED <<now, limiterVars, keyVars, client, cred, historyVars>>

(* Middleware and a route that does not look at the admin token: 429, or   *)
(* on to p.  GET /admin/health is one on the admin listener; on the public *)
(* one /rtc goes on to the signal gate, the other routes to their handlers *)
(* (the runtime routes of apps and MCP have tokens of their own).          *)
Passes(q, l, p) ==
  /\ phase[q] = "idle"
  /\ \/ Allow(l, client[q]) /\ To(q, p)
     \/ Throttle(l, client[q]) /\ UNCHANGED phase
  /\ UNCHANGED <<now, keyVars, client, cred, historyVars>>

(* Seeded fault: the gate does not ask the limiter again.                  *)
JoinUnmetered(q) ==
  /\ phase[q] = "gate"
  /\ To(q, "idle")
  /\ joins' = [joins EXCEPT ![client[q]] = @ + 1]
  /\ UNCHANGED <<now, limiterVars, keyVars, client, cred, guesses, appGuesses>>

(* handleRTC: the limiter again, before the token is looked at.            *)
Join(q) ==
  /\ phase[q] = "gate"
  /\ To(q, "idle")
  /\ \/ Allow("rtc", client[q]) /\ joins' = [joins EXCEPT ![client[q]] = @ + 1]
     \/ Throttle("rtc", client[q]) /\ UNCHANGED joins
  /\ UNCHANGED <<now, keyVars, client, cred, guesses, appGuesses>>

Next ==
  \/ TimePasses \/ ControlPlane \/ Evict
  \/ \E q \in Request :
       \/ \E k \in Credential : AdminArrives(q, k) \/ AppsArrives(q, k)
       \/ CheckKey(q) \/ KeyReturns(q) \/ CheckStatic(q) \/ CheckApps(q) \/ Done(q)
       \/ Passes(q, "admin", "served")
       \/ Passes(q, "rtc", "served") \/ Passes(q, "rtc", "gate") \/ Join(q)

Spec == Init /\ [][Next]_vars

-----------------------------------------------------------------------------
(* SetRateLimiter: applied "before admin-token verification", and main():  *)
(* the public listener "rate-limits ALL routes".  MEET_ADMIN_TOKEN is      *)
(* looked at behind both limiters: the bearers that one client gets looked *)
(* at, whatever their outcome and however its requests overlap, stay       *)
(* within the admin limiter's allowance on the admin API and within the    *)
(* public limiter's on the apps routes.                                    *)
GuessesBounded ==
  \A c \in Client :
    /\ Cost * guesses[c] <= Burst["admin"] + Rate["admin"] * now
    /\ Cost * appGuesses[c] <= Burst["rtc"] + Rate["rtc"] * now

(* main(): "/rtc passes the middleware check THEN the per-gate check, which*)
(* is intentional".  Both take from one bucket, the one that pays for the  *)
(* bearers of the apps routes too: two tokens a join and one a bearer stay *)
(* within the allowance, also when a client's requests overlap.            *)
JoinsPayTwice ==
  \A c \in Client :
    Cost * (2 * joins[c] + appGuesses[c]) <= Burst["rtc"] + Rate["rtc"] * now

(* cacheTTL: "short enough that a revoked key stops working promptly".  A  *)
(* key that lets a request in was valid for meet at the control plane less *)
(* than the cache's time and one lookup's timeout ago, also when lookups   *)
(* overlap, fail or arrive late.                                           *)
RevokedInTime ==
  [][\A q \in Request :
       /\ phase[q] \in {"auth", "lookup", "apps"} /\ phase'[q] = "served"
       /\ cred[q] \in ApiKey
       => now < lastMeet[cred[q]] + CacheTTL + Timeout]_vars
=============================================================================
