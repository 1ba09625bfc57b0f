------------------------------- MODULE Sessions -------------------------------
(***************************************************************************)
(* Refresh-token families of auth.service.ts, session revocation of        *)
(* auth.routes.ts and the deny lists that requireAuth consults.            *)
(*                                                                         *)
(* A request touches the database several times: a refresh reads its       *)
(* token, rotates it in a later transaction that does not look at the      *)
(* token again, and signs the access token after that.  Revocations and    *)
(* other refreshes fall in between.                                        *)
(*                                                                         *)
(* A refresh token and the access token issued with it are one element of  *)
(* Tokens.  Time is in ticks, Second of them to a second: token lifetimes  *)
(* are whole seconds, requests arrive at any tick.                         *)
(***************************************************************************)
EXTENDS Naturals, FiniteSets

CONSTANTS
    Families,           \* refresh-token families; a session is a family
    Tokens,             \* refresh tokens that may be issued
    Clients,            \* requests that can be in progress together
    NoFamily, NoToken,
    Second,             \* ticks in a second
    AccessTTL,          \* JWT_ACCESS_TTL_SECONDS
    MaxTime             \* bound on the clock

ASSUME NamesAreDistinct ==
    NoFamily \notin Families /\ NoToken \notin Tokens
    /\ Families \cap Tokens = {}
ASSUME TimesAreNaturals ==
    Second \in Nat \ {0} /\ AccessTTL \in Nat \ {0} /\ MaxTime \in Nat

VARIABLES
    family,             \* family of each issued refresh token
    state,              \* refresh token: "unused", "live" or "revoked"
    rotations,          \* per refresh token: how often it was rotated
    late,               \* refresh tokens created after their family had ended
    client,             \* per request: step and token
    ended,              \* families revoked by logout, reuse, DELETE, deletion
    denying,            \* revoked sessions and tokens not denied in Redis yet
    denied,             \* per family: when denySid expires, 0 if never written
    access,             \* per token: its access token
    now

refreshVars == <<family, state, rotations, late>>
vars == <<refreshVars, client, ended, denying, denied, access, now>>

Idle == [step |-> "idle", token |-> NoToken]
Unsigned == [expires |-> 0, denied |-> 0, late |-> FALSE]

TypeOK ==
    /\ family \in [Tokens -> Families \cup {NoFamily}]
    /\ state \in [Tokens -> {"unused", "live", "revoked"}]
    /\ rotations \in [Tokens -> Nat]
    /\ late \subseteq Tokens
    /\ client \in [Clients -> [step : {"idle", "rotate", "reuse", "sign"},
                               token : Tokens \cup {NoToken}]]
    /\ ended \subseteq Families
    /\ denying \subseteq Families \cup Tokens
    /\ denied \in [Families -> Nat]
    /\ access \in [Tokens -> [expires : Nat, denied : Nat,
                              late : BOOLEAN]]
    /\ now \in Nat
    /\ \A t \in Tokens :
          /\ state[t] = "unused" <=> family[t] = NoFamily
          /\ access[t].expires > 0 => state[t] # "unused"
    /\ \A c \in Clients :
          client[c].step # "idle" => /\ client[c].token \in Tokens
                                     /\ state[client[c].token] # "unused"

Init ==
    /\ family = [t \in Tokens |-> NoFamily]
    /\ state = [t \in Tokens |-> "unused"]
    /\ rotations = [t \in Tokens |-> 0]
    /\ late = {}
    /\ client = [c \in Clients |-> Idle]
    /\ ended = {} /\ denying = {}
    /\ denied = [f \in Families |-> 0]
    /\ access = [t \in Tokens |-> Unsigned]
    /\ now = 0

Live(f) == {t \in Tokens : family[t] = f /\ state[t] = "live"}

(* Math.floor to whole seconds                                             *)
Floor(ticks) == (ticks \div Second) * Second

-----------------------------------------------------------------------------
(* Issuing                                                                 *)

(* login, invitation acceptance, OAuth and the scope toggle:               *)
(* createRefreshToken for a new family; the access token comes later.      *)
Login(c, f, t) ==
    /\ client[c].step = "idle"
    /\ \A u \in Tokens : family[u] # f
    /\ state[t] = "unused"
    /\ family' = [family EXCEPT ![t] = f]
    /\ state' = [state EXCEPT ![t] = "live"]
    /\ client' = [client EXCEPT ![c] = [step |-> "sign", token |-> t]]
    /\ UNCHANGED <<rotations, late, ended, denying, denied, access, now>>

(* Defect: revokedAt is not checked.                                       *)
ReadTokenUnchecked(c, t) ==
    /\ client[c].step = "idle"
    /\ state[t] # "unused"
    /\ client' = [client EXCEPT ![c] =
                     [step |-> "rotate", token |-> t]]
    /\ UNCHANGED <<refreshVars, ended, denying, denied, access, now>>

(* refresh, up to the checks on the row it read.                           *)
ReadToken(c, t) ==
    /\ client[c].step = "idle"
    /\ state[t] # "unused"
    /\ client' = [client EXCEPT ![c] =
                     [step |-> IF state[t] = "live" THEN "rotate" ELSE "reuse",
                      token |-> t]]
    /\ UNCHANGED <<refreshVars, ended, denying, denied, access, now>>

(* Defect: the old token stays live.                                       *)
RotateKeepingOld(c, new) ==
    LET t == client[c].token IN
    /\ client[c].step = "rotate"
    /\ state[new] = "unused"
    /\ family' = [family EXCEPT ![new] = family[t]]
    /\ state' = [state EXCEPT ![new] = "live"]
    /\ rotations' = [rotations EXCEPT ![t] = @ + 1]
    /\ late' = late \cup {u \in {new} : family[t] \in ended}
    /\ client' = [client EXCEPT ![c].step = "sign", ![c].token = new]
    /\ UNCHANGED <<ended, denying, denied, access, now>>

(* Defect: the successor has no family.                                    *)
RotateOrphaned(c, new) ==
    LET t == client[c].token IN
    /\ client[c].step = "rotate"
    /\ state[new] = "unused"
    /\ state' = [state EXCEPT ![new] = "live", ![t] = "revoked"]
    /\ rotations' = [rotations EXCEPT ![t] = @ + 1]
    /\ client' = [client EXCEPT ![c].step = "sign", ![c].token = new]
    /\ UNCHANGED <<family, late, ended, denying, denied, access, now>>

(* rotateRefreshToken: create the successor and revoke the token that was  *)
(* read, whatever has become of it.                                        *)
Rotate(c, new) ==
    LET t == client[c].token IN
    /\ client[c].step = "rotate"
    /\ state[new] = "unused"
    /\ family' = [family EXCEPT ![new] = family[t]]
    /\ state' = [state EXCEPT ![new] = "live", ![t] = "revoked"]
    /\ rotations' = [rotations EXCEPT ![t] = @ + 1]
    /\ late' = late \cup {u \in {new} : family[t] \in ended}
    /\ client' = [client EXCEPT ![c].step = "sign", ![c].token = new]
    /\ UNCHANGED <<ended, denying, denied, access, now>>

(* signAccess, after one more read of the memberships.                     *)
SignAccess(c) ==
    LET t == client[c].token IN
    /\ client[c].step = "sign"
    /\ access' = [access EXCEPT ![t] =
                     [expires |-> Floor(now) + AccessTTL * Second,
                      denied |-> 0,
                      late |-> denied[family[t]] > 0]]
    /\ client' = [client EXCEPT ![c] = Idle]
    /\ UNCHANGED <<refreshVars, ended, denying, denied, now>>

(* The process dies, or the user is gone.                                  *)
RequestFails(c) ==
    /\ client[c].step # "idle"
    /\ client' = [client EXCEPT ![c] = Idle]
    /\ UNCHANGED <<refreshVars, ended, denying, denied, access, now>>

-----------------------------------------------------------------------------
(* Revoking                                                                *)

(* Defect: update instead of updateMany, one row is revoked.               *)
RevokeOneOf(f) ==
    /\ \E u \in Live(f) : state' = [state EXCEPT ![u] = "revoked"]
    /\ ended' = ended \cup {f}
    /\ UNCHANGED <<family, rotations, late, denied, access, now>>

(* revokeFamily, revokeSession: updateMany where revokedAt is null.        *)
RevokeFamily(f) ==
    /\ state' = [t \in Tokens |->
                    IF t \in Live(f) THEN "revoked" ELSE state[t]]
    /\ ended' = ended \cup {f}
    /\ UNCHANGED <<family, rotations, late, denied, access, now>>

(* A revoked token was presented: the family is revoked.                   *)
DetectReuse(c) ==
    /\ client[c].step = "reuse"
    /\ RevokeFamily(family[client[c].token])
    /\ client' = [client EXCEPT ![c] = Idle]
    /\ UNCHANGED denying

(* logout, with the access cookie of token t or with none (NoToken);       *)
(* deleting the user revokes in the same way, for each family of the user. *)
Logout(f, t) ==
    /\ \E u \in Tokens : family[u] = f
    /\ t # NoToken => access[t].expires > now
    /\ RevokeFamily(f)
    /\ denying' = denying \cup ({t} \ {NoToken})
    /\ UNCHANGED client

(* Defect: one second too few.                                             *)
DenyJtiShort(t) ==
    LET left == Floor(access[t].expires - now) IN
    /\ t \in denying
    /\ denying' = denying \ {t}
    /\ access' = [access EXCEPT ![t].denied =
                     IF access[t].expires <= now THEN @
                     ELSE now + (IF left < 2 * Second THEN Second
                                 ELSE left - Second)]
    /\ UNCHANGED <<refreshVars, client, ended, denied, now>>

(* denyJti: setex with the whole seconds left, at least one.               *)
DenyJti(t) ==
    LET left == Floor(access[t].expires - now) IN
    /\ t \in denying
    /\ denying' = denying \ {t}
    /\ access' = [access EXCEPT ![t].denied =
                     IF access[t].expires <= now THEN @
                     ELSE now + (IF left < Second THEN Second ELSE left)]
    /\ UNCHANGED <<refreshVars, client, ended, denied, now>>

(* DELETE /auth/sessions/:id commits the revocation; with no live row it   *)
(* answers 404 and writes no deny entry.                                   *)
RevokeSession(f) ==
    /\ Live(f) # {}
    /\ RevokeFamily(f)
    /\ denying' = denying \cup {f}
    /\ UNCHANGED client

(* Defect: the entry expires a second early.                               *)
DenySessionShort(f) ==
    /\ f \in denying
    /\ denying' = denying \ {f}
    /\ denied' = [denied EXCEPT ![f] = now + (AccessTTL - 1) * Second]
    /\ UNCHANGED <<refreshVars, client, ended, access, now>>

(* denySession, after the commit.                                          *)
DenySession(f) ==
    /\ f \in denying
    /\ denying' = denying \ {f}
    /\ denied' = [denied EXCEPT ![f] = now + AccessTTL * Second]
    /\ UNCHANGED <<refreshVars, client, ended, access, now>>

(* The process dies, or Redis fails, before the deny entry is written.     *)
DenyFails(x) ==
    /\ x \in denying
    /\ denying' = denying \ {x}
    /\ UNCHANGED <<refreshVars, client, ended, denied, access, now>>

Tick ==
    /\ now < MaxTime
    /\ now' = now + 1
    /\ UNCHANGED <<refreshVars, client, ended, denying, denied, access>>

-----------------------------------------------------------------------------

ClientStep(c) ==
    \/ \E f \in Families, t \in Tokens : Login(c, f, t)
    \/ \E t \in Tokens : ReadToken(c, t) \/ Rotate(c, t)
    \/ SignAccess(c)
    \/ RequestFails(c)
    \/ DetectReuse(c)

Next ==
    \/ \E c \in Clients : ClientStep(c)
    \/ \E f \in Families :
          \/ \E t \in Tokens \cup {NoToken} : Logout(f, t)
          \/ RevokeSession(f)
          \/ DenySession(f)
    \/ \E t \in Tokens : DenyJti(t)
    \/ \E x \in Families \cup Tokens : DenyFails(x)
    \/ Tick

Spec == Init /\ [][Next]_vars

-----------------------------------------------------------------------------
(* Properties                                                              *)

(* requireAuth lets the access token of t through: it is signed, not       *)
(* expired, and neither its jti nor its session is on the deny list.  (The *)
(* lookups fail open when Redis does not answer; the properties are about  *)
(* a Redis that answers.)                                                  *)
Accepted(t) ==
    /\ now < access[t].expires
    /\ access[t].denied <= now
    /\ denied[family[t]] <= now

(* A session forks, with two refresh tokens live at once, only when two    *)
(* refreshes raced on one token: nothing else in issue, rotation, reuse    *)
(* detection and revocation leaves a predecessor usable.                   *)
ForksComeFromRacingRefreshes ==
    \A t, u \in Tokens :
        /\ t # u /\ family[t] = family[u]
        /\ state[t] = "live" /\ state[u] = "live"
        => \E w \in Tokens : family[w] = family[t] /\ rotations[w] > 1

(* Once a family was revoked, its live refresh tokens are those a refresh  *)
(* that had already read a live row created afterwards: the revocation     *)
(* itself misses none, at whatever point of a rotation it lands.           *)
OnlyLateTokensSurviveRevocation == \A f \in ended : Live(f) \subseteq late

(* What guards a session: its family has one live token, and none once it  *)
(* was revoked, but for those that a race lets through.                    *)
OnlyRacesGetPast ==
    ForksComeFromRacingRefreshes /\ OnlyLateTokensSurviveRevocation

(* A family is over when it was revoked, has no live token and no refresh  *)
(* is between reading its row and rotating it.                             *)
Over(f) ==
    /\ f \in ended /\ Live(f) = {}
    /\ \A c \in Clients :
          client[c].step = "rotate" => family[client[c].token] # f

(* A family that is over never comes back, whichever old token is          *)
(* presented.                                                              *)
RevokedFamiliesStayDead == [][\A f \in Families : Over(f) => Over(f)']_vars

(* The deny entry of a session outlives every access token signed before   *)
(* it was written, also those signed between the revocation and the entry: *)
(* an access token of a denied session is accepted only if it was signed   *)
(* after an entry.                                                         *)
DenyCoversEarlierTokens ==
    \A t \in Tokens :
        state[t] # "unused" /\ denied[family[t]] > 0 /\ Accepted(t)
        => access[t].late

(* An access token denied at logout is refused up to less than a second    *)
(* before it expires, wherever in the second the logout comes.             *)
LogoutMissesLessThanASecond ==
    \A t \in Tokens :
        access[t].denied > 0 /\ state[t] # "unused" /\ Accepted(t)
        => access[t].expires - now < Second

(* SECURITY.md says reuse of a revoked token revokes the family: no token  *)
(* is exchanged for two successors.                                        *)
TokensAreExchangedOnce == \A t \in Tokens : rotations[t] <= 1

(* Deny lists refuse what they were written for: a denied family's earlier *)
(* access tokens, a session logged out but for its last second.  Tokens    *)
(* that are in use belong to a family.                                     *)
DenyListsHold ==
    /\ TypeOK
    /\ DenyCoversEarlierTokens
    /\ LogoutMissesLessThanASecond
=============================================================================
