--------------------------- MODULE IdentityProofs ---------------------------
(***************************************************************************)
(* Proofs about the modules of MCIdentity: the tokens that are used once,  *)
(* refresh-token families with their deny lists, and invitations, for any  *)
(* number of tokens, processes, requests and people and any lifetimes.     *)
(***************************************************************************)
EXTENDS Sessions, Invitations, SingleUseTokens, FiniteSetTheorems, TLAPS

(***************************************************************************)
(* Single-use tokens                                                       *)
(***************************************************************************)

Early(j, p) == passed[<<j, p>>] \ {StepUpTtl}

(* A process lets a token it has let through pass again only when it has   *)
(* forgotten it, and it forgets it no sooner than in its last second.      *)
RememberedOrOld(j, p) ==
    /\ j \in consumedJtis[p] => stepUp[j] # NotSigned
    /\ passed[<<j, p>>] # {} => stepUp[j] # NotSigned
    /\ \A a, b \in Early(j, p) : a = b
    /\ Early(j, p) # {} => j \in consumedJtis[p] \/ Age(j) >= StepUpTtl

PassedIsRememberedOrOld ==
    \A j \in StepUpTokens, p \in Pods : RememberedOrOld(j, p)

(* A ticket Redis still holds was signed and has opened no socket.         *)
HeldTicketsAreUnused ==
    \A t \in WsTickets :
        /\ t \in ticketKeys => ticket[t] # NotSigned /\ sockets[t] = 0
        /\ ticket[t] = NotSigned => sockets[t] = 0
        /\ sockets[t] <= 1

TokenIInv ==
    /\ TokenTypeOK
    /\ \A j \in StepUpTokens :
          stepUp[j] # NotSigned => stepUp[j] <= tokenClock
    /\ PassedIsRememberedOrOld
    /\ HeldTicketsAreUnused

(* What pruning keeps was there, what it drops has expired.                *)
LEMMA PruneDropsOnlyExpired ==
  ASSUME NEW R \in SUBSET StepUpTokens
  PROVE  /\ Prune(R) \subseteq R
         /\ \A j \in R \ Prune(R) : ~(stepUp[j] + StepUpTtl > tokenClock)
BY DEF Prune

LEMMA TokenInitIInv == TokenInit => TokenIInv
BY TokenOptions DEF TokenInit, TokenIInv, TokenTypeOK, TokenTimes, Early,
   PassedIsRememberedOrOld, RememberedOrOld, HeldTicketsAreUnused

LEMMA PassStepUpKeepsTokenIInv ==
  ASSUME TokenIInv, NEW j \in StepUpTokens, NEW p \in Pods, PassStepUp(j, p)
  PROVE  TokenIInv'
<1>. USE TokenOptions DEF TokenIInv, TokenTypeOK, TokenTimes
<1>1. UNCHANGED <<tokenClock, stepUp, ticket, ticketKeys, sockets>>
  BY DEF PassStepUp
<1>2. /\ stepUp[j] \in TokenTimes /\ stepUp[j] <= tokenClock
      /\ Age(j) \in 0 .. StepUpTtl /\ j \notin consumedJtis[p]
      /\ stepUp[j] # NotSigned
  BY DEF PassStepUp, Age
<1>. DEFINE R == consumedJtis[p] \cup {j}
<1>3. /\ R \subseteq StepUpTokens
      /\ Prune(R) \subseteq R
      /\ \A k \in R \ Prune(R) : ~(stepUp[k] + StepUpTtl > tokenClock)
  BY PruneDropsOnlyExpired
<1>4. /\ consumedJtis' = [consumedJtis EXCEPT ![p] = Prune(R)]
      /\ passed' = [passed EXCEPT ![<<j, p>>] = @ \cup {Age(j)}]
  BY DEF PassStepUp
<1>. HIDE DEF R
<1>5. TokenTypeOK'
  BY <1>1, <1>2, <1>3, <1>4
<1>6. HeldTicketsAreUnused'
  BY <1>1 DEF HeldTicketsAreUnused
<1>7. ASSUME NEW k \in StepUpTokens, NEW q \in Pods
      PROVE  RememberedOrOld(k, q)'
  <2>0. RememberedOrOld(k, q) /\ RememberedOrOld(j, p) /\ Age(k)' = Age(k)
    BY <1>1 DEF PassedIsRememberedOrOld, Age
  <2>1. CASE q # p
    <3>1. consumedJtis'[q] = consumedJtis[q]
          /\ passed'[<<k, q>>] = passed[<<k, q>>]
      BY <1>4, <2>1
    <3>. QED  BY <3>1, <2>0, <1>1 DEF RememberedOrOld, Early
  <2>2. CASE q = p /\ k # j
    <3>1. consumedJtis'[q] = Prune(R) /\ passed'[<<k, q>>] = passed[<<k, q>>]
      BY <1>4, <2>2
    <3>2. k \in Prune(R) => k \in consumedJtis[q]
      BY <1>3, <2>2 DEF R
    <3>3. ASSUME k \in consumedJtis[q], k \notin Prune(R)
          PROVE  Age(k) >= StepUpTtl
      <4>1. k \in R
        BY <2>2, <3>3 DEF R
      <4>2. stepUp[k] # NotSigned
        BY <2>0, <3>3 DEF RememberedOrOld
      <4>3. stepUp[k] \in Nat
        BY <4>2
      <4>. QED  BY <4>1, <4>3, <3>3, <1>3 DEF Age
    <3>. QED  BY <3>1, <3>2, <3>3, <2>0, <1>1 DEF RememberedOrOld, Early
  <2>3. CASE q = p /\ k = j
    <3>1. /\ consumedJtis'[q] = Prune(R)
          /\ passed'[<<k, q>>] = passed[<<k, q>>] \cup {Age(j)}
      BY <1>4, <2>3
    <3>2. Early(j, p) # {} => Age(j) = StepUpTtl
      <4>1. Early(j, p) # {} => Age(j) >= StepUpTtl
        BY <2>0, <1>2 DEF RememberedOrOld
      <4>. QED  BY <4>1, <1>2
    <3>3. j \notin Prune(R) => Age(j) >= StepUpTtl
      <4>1. j \in R
        BY DEF R
      <4>. QED  BY <4>1, <1>3, <1>2 DEF Age
    <3>4. Early(k, q)' = Early(j, p) \cup ({Age(j)} \ {StepUpTtl})
      BY <3>1, <2>3 DEF Early
    <3>5. \A a, b \in Early(k, q)' : a = b
      BY <3>2, <3>4, <2>0 DEF RememberedOrOld
    <3>6. Early(k, q)' # {} => k \in consumedJtis'[q] \/ Age(k)' >= StepUpTtl
      BY <3>1, <3>3, <2>0, <2>3
    <3>. QED  BY <3>5, <3>6, <2>3, <1>1, <1>2 DEF RememberedOrOld, PassStepUp
  <2>. QED  BY <2>1, <2>2, <2>3
<1>8. PassedIsRememberedOrOld'
  BY <1>7 DEF PassedIsRememberedOrOld
<1>. QED  BY <1>1, <1>5, <1>6, <1>8

LEMMA StepUpUnchanged ==
  ASSUME PassedIsRememberedOrOld,
         UNCHANGED <<tokenClock, stepUp, consumedJtis, passed>>
  PROVE  PassedIsRememberedOrOld'
BY DEF PassedIsRememberedOrOld, RememberedOrOld, Early, Age

LEMMA TokenStepKeepsIInv == TokenIInv /\ [TokenNext]_tokenVars => TokenIInv'
<1>. SUFFICES ASSUME TokenIInv, [TokenNext]_tokenVars PROVE TokenIInv'
  OBVIOUS
<1>. USE TokenOptions DEF TokenIInv, TokenTypeOK, TokenTimes
<1>1. ASSUME NEW j \in StepUpTokens, IssueStepUp(j) PROVE TokenIInv'
  <2>1. /\ stepUp' = [stepUp EXCEPT ![j] = tokenClock]
        /\ UNCHANGED <<tokenClock, consumedJtis, passed, ticket, ticketKeys,
                       sockets>>
        /\ stepUp[j] = NotSigned
    BY <1>1 DEF IssueStepUp
  <2>2. TokenTypeOK'
    BY <2>1
  <2>3. ASSUME NEW k \in StepUpTokens, NEW p \in Pods
        PROVE  RememberedOrOld(k, p)'
    <3>1. RememberedOrOld(k, p)
      BY DEF PassedIsRememberedOrOld
    <3>2. CASE k = j
      <4>1. passed[<<k, p>>] = {} /\ k \notin consumedJtis[p]
        BY <2>1, <3>1, <3>2 DEF RememberedOrOld
      <4>. QED  BY <2>1, <4>1 DEF RememberedOrOld, Early
    <3>3. CASE k # j
      <4>1. stepUp'[k] = stepUp[k]
        BY <2>1, <3>3
      <4>. QED  BY <2>1, <3>1, <4>1 DEF RememberedOrOld, Early, Age
    <3>. QED  BY <3>2, <3>3
  <2>. QED  BY <2>1, <2>2, <2>3
            DEF PassedIsRememberedOrOld, HeldTicketsAreUnused
<1>2. ASSUME NEW j \in StepUpTokens, NEW p \in Pods, PassStepUp(j, p)
      PROVE  TokenIInv'
  BY <1>2, PassStepUpKeepsTokenIInv
<1>3. ASSUME NEW p \in Pods, PodRestarts(p) PROVE TokenIInv'
  <2>1. /\ consumedJtis' = [consumedJtis EXCEPT ![p] = {}]
        /\ passed' = [u \in StepUpTokens \X Pods |->
                         IF u[2] = p THEN {} ELSE passed[u]]
        /\ UNCHANGED <<tokenClock, stepUp, ticket, ticketKeys, sockets>>
    BY <1>3 DEF PodRestarts
  <2>2. TokenTypeOK'
    BY <2>1
  <2>3. ASSUME NEW k \in StepUpTokens, NEW q \in Pods
        PROVE  RememberedOrOld(k, q)'
    <3>1. RememberedOrOld(k, q)
      BY DEF PassedIsRememberedOrOld
    <3>2. passed'[<<k, q>>] = IF q = p THEN {} ELSE passed[<<k, q>>]
      BY <2>1
    <3>. QED  BY <2>1, <3>1, <3>2 DEF RememberedOrOld, Early, Age
  <2>. QED  BY <2>1, <2>2, <2>3
            DEF PassedIsRememberedOrOld, HeldTicketsAreUnused
<1>4. ASSUME NEW t \in WsTickets, IssueTicket(t) PROVE TokenIInv'
  BY <1>4, StepUpUnchanged DEF IssueTicket, HeldTicketsAreUnused
<1>5. ASSUME NEW t \in WsTickets, ConsumeTicket(t) PROVE TokenIInv'
  BY <1>5, StepUpUnchanged DEF ConsumeTicket, HeldTicketsAreUnused
<1>6. ASSUME TokenTick PROVE TokenIInv'
  <2>1. ASSUME NEW k \in StepUpTokens, NEW p \in Pods
        PROVE  RememberedOrOld(k, p)'
    <3>1. RememberedOrOld(k, p) /\ UNCHANGED <<stepUp, consumedJtis, passed>>
      BY <1>6 DEF PassedIsRememberedOrOld, TokenTick
    <3>2. CASE Early(k, p) = {}
      BY <3>1, <3>2 DEF RememberedOrOld, Early
    <3>3. CASE Early(k, p) # {}
      <4>0. stepUp[k] # NotSigned
        BY <3>1, <3>3 DEF RememberedOrOld, Early
      <4>1. stepUp[k] \in Nat
        BY <4>0
      <4>2. Age(k) >= StepUpTtl => Age(k)' >= StepUpTtl
        BY <1>6, <4>1 DEF TokenTick, Age
      <4>. QED  BY <3>1, <4>2 DEF RememberedOrOld, Early
    <3>. QED  BY <3>2, <3>3
  <2>. QED  BY <1>6, <2>1
            DEF TokenTick, PassedIsRememberedOrOld, HeldTicketsAreUnused
<1>7. CASE UNCHANGED tokenVars
  BY <1>7, StepUpUnchanged DEF tokenVars, HeldTicketsAreUnused
<1>. QED  BY <1>1, <1>2, <1>3, <1>4, <1>5, <1>6, <1>7 DEF TokenNext

LEMMA TokenIInvAlways == TokenSpec => []TokenIInv
BY TokenInitIInv, TokenStepKeepsIInv, PTL DEF TokenSpec

LEMMA AtMostOneElement ==
  ASSUME NEW S, \A a, b \in S : a = b
  PROVE  Cardinality(S) <= 1
<1>1. CASE S = {}
  BY <1>1, FS_EmptySet
<1>2. CASE S # {}
  <2>1. PICK a \in S : TRUE
    BY <1>2
  <2>2. S = {a}
    BY <2>1
  <2>. QED  BY <2>2, FS_Singleton
<1>. QED  BY <1>1, <1>2

(* requireMfaStepUp and consumeWsTicket: whatever the number of tokens,    *)
(* processes and restarts, a step-up token passes at a process once before *)
(* its last second, and a ticket opens one socket.                         *)
THEOREM TokensAreAlwaysUsedOnce == TokenSpec => []TokensAreUsedOnce
<1>1. TokenIInv => TokensAreUsedOnce
  <2>. SUFFICES ASSUME TokenIInv PROVE TokensAreUsedOnce
    OBVIOUS
  <2>1. ASSUME NEW u \in StepUpTokens \X Pods
        PROVE  Cardinality(passed[u] \ {StepUpTtl}) <= 1
    <3>1. u = <<u[1], u[2]>> /\ u[1] \in StepUpTokens /\ u[2] \in Pods
      OBVIOUS
    <3>2. \A a, b \in passed[u] \ {StepUpTtl} : a = b
      BY <3>1 DEF TokenIInv, PassedIsRememberedOrOld, RememberedOrOld, Early
    <3>. QED  BY <3>2, AtMostOneElement
  <2>. QED  BY <2>1 DEF TokenIInv, HeldTicketsAreUnused, TokensAreUsedOnce,
              StepUpPassesOnce, TicketsOpenOneSocket
<1>. QED  BY <1>1, TokenIInvAlways, PTL

(***************************************************************************)
(* Refresh-token families                                                  *)
(***************************************************************************)

Touched(f) == \E t \in Tokens : family[t] = f

(* A rotated token is revoked, and as long as no token of a family was     *)
(* rotated twice, one of its tokens has not been rotated at all.           *)
RotationsFormAChain ==
    /\ \A t \in Tokens : rotations[t] > 0 => state[t] = "revoked"
    /\ \A f \in Families :
          (\A w \in Tokens : family[w] = f => rotations[w] <= 1)
          => \A t, u \in Tokens :
                family[t] = f /\ family[u] = f
                /\ rotations[t] = 0 /\ rotations[u] = 0 => t = u

(* Only a family that has tokens ends.                                     *)
EndedFamiliesHaveTokens == \A f \in ended : Touched(f)

SessionIInv ==
    /\ TypeOK
    /\ RotationsFormAChain
    /\ EndedFamiliesHaveTokens
    /\ OnlyLateTokensSurviveRevocation

(* Rounding down to whole seconds loses less than a second.                *)
LEMMA FloorBounds ==
  ASSUME NEW x \in Nat
  PROVE  Floor(x) \in Nat /\ Floor(x) <= x /\ x < Floor(x) + Second
BY TimesAreNaturals, SMTT(30) DEF Floor

LEMMA AccessTtlIsInTicks == AccessTTL * Second \in Nat
BY TimesAreNaturals

LEMMA SessionInitIInv == Init => SessionIInv
BY NamesAreDistinct DEF Init, SessionIInv, TypeOK, RotationsFormAChain,
   EndedFamiliesHaveTokens, OnlyLateTokensSurviveRevocation, Live, Touched,
   Idle, Unsigned

(* Access tokens, deny lists, requests and the clock are not what the      *)
(* families' invariant is about.                                           *)
LEMMA FamiliesUnchanged ==
  ASSUME SessionIInv, UNCHANGED <<refreshVars, ended>>
  PROVE  /\ RotationsFormAChain'
         /\ EndedFamiliesHaveTokens'
         /\ OnlyLateTokensSurviveRevocation'
BY DEF SessionIInv, refreshVars, RotationsFormAChain, Touched, Live,
   EndedFamiliesHaveTokens, OnlyLateTokensSurviveRevocation

LEMMA LoginKeepsIInv ==
  ASSUME SessionIInv, NEW c \in Clients, NEW f \in Families, NEW t \in Tokens,
         Login(c, f, t)
  PROVE  SessionIInv'
<1>. USE NamesAreDistinct DEF SessionIInv
<1>1. /\ family' = [family EXCEPT ![t] = f]
      /\ state' = [state EXCEPT ![t] = "live"]
      /\ client' = [client EXCEPT ![c] = [step |-> "sign", token |-> t]]
      /\ UNCHANGED <<rotations, late, ended, denying, denied, access, now>>
      /\ state[t] = "unused" /\ \A u \in Tokens : family[u] # f
  BY DEF Login
<1>2. TypeOK'
  BY <1>1 DEF TypeOK
<1>3. /\ family'[t] = f /\ state'[t] = "live" /\ rotations'[t] = 0
      /\ \A u \in Tokens \ {t} : /\ family'[u] = family[u] /\ family[u] # f
                                 /\ state'[u] = state[u]
                                 /\ rotations'[u] = rotations[u]
      /\ family[t] = NoFamily
  BY <1>1 DEF TypeOK, RotationsFormAChain
<1>4. RotationsFormAChain'
  <2>1. \A u \in Tokens : rotations'[u] > 0 => state'[u] = "revoked"
    BY <1>3 DEF RotationsFormAChain
  <2>2. ASSUME NEW g \in Families,
               \A w \in Tokens : family'[w] = g => rotations'[w] <= 1,
               NEW v \in Tokens, NEW u \in Tokens,
               family'[v] = g, family'[u] = g,
               rotations'[v] = 0, rotations'[u] = 0
        PROVE  v = u
    <3>1. CASE g = f
      BY <1>3, <2>2, <3>1
    <3>2. CASE g # f
      <4>1. v # t /\ u # t
        BY <1>3, <2>2, <3>2
      <4>2. \A w \in Tokens : family[w] = g => rotations[w] <= 1
        BY <1>3, <2>2
      <4>. QED  BY <1>3, <2>2, <4>1, <4>2 DEF RotationsFormAChain
    <3>. QED  BY <3>1, <3>2
  <2>. QED  BY <2>1, <2>2 DEF RotationsFormAChain
<1>5. EndedFamiliesHaveTokens'
  BY <1>1, <1>3 DEF EndedFamiliesHaveTokens, Touched, TypeOK
<1>6. OnlyLateTokensSurviveRevocation'
  <2>1. f \notin ended
    BY <1>1 DEF EndedFamiliesHaveTokens, Touched
  <2>. QED  BY <1>1, <1>3, <2>1 DEF OnlyLateTokensSurviveRevocation, Live
<1>. QED  BY <1>2, <1>4, <1>5, <1>6

LEMMA RotateKeepsIInv ==
  ASSUME SessionIInv, NEW c \in Clients, NEW new \in Tokens, Rotate(c, new)
  PROVE  SessionIInv'
<1>. DEFINE t == client[c].token
            f == family[t]
<1>. USE NamesAreDistinct DEF SessionIInv
<1>1. /\ client[c].step = "rotate" /\ state[new] = "unused"
      /\ family' = [family EXCEPT ![new] = f]
      /\ state' = [state EXCEPT ![new] = "live", ![t] = "revoked"]
      /\ rotations' = [rotations EXCEPT ![t] = @ + 1]
      /\ late' = late \cup {u \in {new} : f \in ended}
      /\ client' = [client EXCEPT ![c].step = "sign", ![c].token = new]
      /\ UNCHANGED <<ended, denying, denied, access, now>>
  BY DEF Rotate
<1>2. /\ t \in Tokens /\ state[t] # "unused" /\ f \in Families /\ t # new
  BY <1>1 DEF TypeOK
<1>. HIDE DEF t, f
<1>3. /\ family'[new] = f /\ state'[new] = "live"
      /\ rotations'[new] = 0 /\ rotations[new] = 0
      /\ family'[t] = f /\ f = family[t] /\ state'[t] = "revoked"
      /\ rotations[t] \in Nat /\ rotations'[t] = rotations[t] + 1
      /\ family[new] = NoFamily
      /\ \A u \in Tokens \ {new} : family'[u] = family[u]
      /\ \A u \in Tokens \ {new, t} : /\ state'[u] = state[u]
                                      /\ rotations'[u] = rotations[u]
  BY <1>1, <1>2 DEF TypeOK, RotationsFormAChain, f
<1>4. TypeOK'
  <2>1. client' \in [Clients -> [step : {"idle", "rotate", "reuse", "sign"},
                                 token : Tokens \cup {NoToken}]]
    BY <1>1 DEF TypeOK
  <2>2. \A d \in Clients :
           client'[d].step # "idle" => /\ client'[d].token \in Tokens
                                       /\ state'[client'[d].token] # "unused"
    <3>. SUFFICES ASSUME NEW d \in Clients, client'[d].step # "idle"
                  PROVE  /\ client'[d].token \in Tokens
                         /\ state'[client'[d].token] # "unused"
      OBVIOUS
    <3>1. CASE d = c
      BY <1>1, <1>3, <3>1 DEF TypeOK
    <3>2. CASE d # c
      <4>1. client'[d] = client[d]
        BY <1>1, <3>2 DEF TypeOK
      <4>. QED  BY <1>3, <4>1 DEF TypeOK
    <3>. QED  BY <3>1, <3>2
  <2>3. \A u \in Tokens : /\ state'[u] = "unused" <=> family'[u] = NoFamily
                          /\ access'[u].expires > 0 => state'[u] # "unused"
    BY <1>1, <1>2, <1>3 DEF TypeOK
  <2>4. rotations' \in [Tokens -> Nat] /\ family' \in [Tokens -> Families \cup {NoFamily}]
        /\ state' \in [Tokens -> {"unused", "live", "revoked"}]
        /\ late' \subseteq Tokens
    BY <1>1, <1>2 DEF TypeOK
  <2>. QED  BY <1>1, <2>1, <2>2, <2>3, <2>4 DEF TypeOK
<1>5. RotationsFormAChain'
  <2>1. \A u \in Tokens : rotations'[u] > 0 => state'[u] = "revoked"
    BY <1>3 DEF RotationsFormAChain
  <2>2. ASSUME NEW g \in Families,
               \A w \in Tokens : family'[w] = g => rotations'[w] <= 1,
               NEW v \in Tokens, NEW u \in Tokens,
               family'[v] = g, family'[u] = g,
               rotations'[v] = 0, rotations'[u] = 0
        PROVE  v = u
    <3>1. v # t /\ u # t
      BY <1>3, <2>2
    <3>2. \A w \in Tokens : family[w] = g => rotations[w] <= 1
      BY <1>2, <1>3, <2>2
    <3>3. CASE g # f
      BY <1>3, <2>2, <3>1, <3>2, <3>3 DEF RotationsFormAChain
    <3>4. CASE g = f
      <4>1. rotations[t] = 0
        BY <1>2, <1>3, <2>2, <3>4
      <4>2. \A w \in Tokens : family[w] = f /\ rotations[w] = 0 => w = t
        BY <1>2, <1>3, <3>2, <3>4, <4>1 DEF RotationsFormAChain
      <4>. QED  BY <1>3, <2>2, <3>1, <3>4, <4>2
    <3>. QED  BY <3>3, <3>4
  <2>. QED  BY <2>1, <2>2 DEF RotationsFormAChain
<1>6. EndedFamiliesHaveTokens'
  <2>1. \A g \in ended : g # NoFamily
    BY DEF TypeOK
  <2>. QED  BY <1>1, <1>3, <2>1 DEF EndedFamiliesHaveTokens, Touched
<1>7. OnlyLateTokensSurviveRevocation'
  <2>. SUFFICES ASSUME NEW g \in ended, NEW u \in Tokens,
                       family'[u] = g, state'[u] = "live"
                PROVE  u \in late'
    BY <1>1 DEF OnlyLateTokensSurviveRevocation, Live
  <2>1. CASE u = new
    BY <1>1, <1>3, <2>1
  <2>2. CASE u # new
    <3>1. family[u] = g /\ state[u] = "live"
      BY <1>3, <2>2
    <3>2. u \in late
      BY <3>1 DEF OnlyLateTokensSurviveRevocation, Live
    <3>. QED  BY <1>1, <3>2
  <2>. QED  BY <2>1, <2>2
<1>. QED  BY <1>4, <1>5, <1>6, <1>7

LEMMA RevokeFamilyKeepsIInv ==
  ASSUME SessionIInv, NEW f \in Families, Touched(f), RevokeFamily(f)
  PROVE  /\ \A u \in Tokens : state'[u] = "unused" <=> state[u] = "unused"
         /\ state' \in [Tokens -> {"unused", "live", "revoked"}]
         /\ ended' \subseteq Families
         /\ UNCHANGED <<family, rotations, late, denied, access, now>>
         /\ RotationsFormAChain'
         /\ EndedFamiliesHaveTokens'
         /\ OnlyLateTokensSurviveRevocation'
<1>. USE DEF SessionIInv, RevokeFamily
<1>1. \A u \in Tokens : /\ u \in Live(f) => state'[u] = "revoked"
                        /\ u \notin Live(f) => state'[u] = state[u]
  OBVIOUS
<1>2. \A u \in Tokens : u \in Live(f) <=> family[u] = f /\ state[u] = "live"
  BY DEF Live
<1>3. RotationsFormAChain'
  BY <1>1 DEF RotationsFormAChain
<1>4. EndedFamiliesHaveTokens'
  BY DEF EndedFamiliesHaveTokens, Touched
<1>5. OnlyLateTokensSurviveRevocation'
  BY <1>1, <1>2 DEF OnlyLateTokensSurviveRevocation, Live
<1>6. \A u \in Tokens : state'[u] = "unused" <=> state[u] = "unused"
  BY <1>1, <1>2
<1>. QED  BY <1>1, <1>3, <1>4, <1>5, <1>6 DEF TypeOK

LEMMA SessionStepKeepsIInv == SessionIInv /\ [Next]_vars => SessionIInv'
<1>. SUFFICES ASSUME SessionIInv, [Next]_vars PROVE SessionIInv'
  OBVIOUS
<1>. USE NamesAreDistinct, TimesAreNaturals DEF SessionIInv
<1>1. ASSUME NEW c \in Clients, ClientStep(c) PROVE SessionIInv'
  <2>1. ASSUME NEW f \in Families, NEW t \in Tokens, Login(c, f, t)
        PROVE  SessionIInv'
    BY <2>1, LoginKeepsIInv
  <2>2. ASSUME NEW t \in Tokens, ReadToken(c, t) PROVE SessionIInv'
    BY <2>2, FamiliesUnchanged DEF ReadToken, TypeOK, refreshVars
  <2>3. ASSUME NEW t \in Tokens, Rotate(c, t) PROVE SessionIInv'
    BY <2>3, RotateKeepsIInv
  <2>4. ASSUME SignAccess(c) PROVE SessionIInv'
    <3>. DEFINE t == client[c].token
                a == [expires |-> Floor(now) + AccessTTL * Second, denied |-> 0,
                      late |-> denied[family[t]] > 0]
    <3>1. a \in [expires : Nat, denied : Nat, late : BOOLEAN]
      <4>1. Floor(now) \in Nat /\ AccessTTL * Second \in Nat
        BY FloorBounds DEF TypeOK
      <4>. QED  BY <4>1
    <3>2. access' = [access EXCEPT ![t] = a] /\ client' = [client EXCEPT ![c] = Idle]
          /\ UNCHANGED <<refreshVars, ended, denying, denied, now>>
          /\ t \in Tokens /\ state[t] # "unused"
      BY <2>4 DEF SignAccess, TypeOK
    <3>. HIDE DEF a
    <3>. QED  BY <3>1, <3>2, FamiliesUnchanged DEF TypeOK, refreshVars, Idle
  <2>5. ASSUME RequestFails(c) PROVE SessionIInv'
    BY <2>5, FamiliesUnchanged DEF RequestFails, TypeOK, refreshVars, Idle
  <2>6. ASSUME DetectReuse(c) PROVE SessionIInv'
    <3>1. /\ family[client[c].token] \in Families
          /\ Touched(family[client[c].token])
      BY <2>6 DEF DetectReuse, TypeOK, Touched
    <3>2. /\ RevokeFamily(family[client[c].token])
          /\ client' = [client EXCEPT ![c] = Idle] /\ UNCHANGED denying
      BY <2>6 DEF DetectReuse
    <3>. QED  BY <3>1, <3>2, RevokeFamilyKeepsIInv DEF TypeOK, Idle
  <2>. QED  BY <1>1, <2>1, <2>2, <2>3, <2>4, <2>5, <2>6 DEF ClientStep
<1>2. ASSUME NEW f \in Families, NEW t \in Tokens \cup {NoToken}, Logout(f, t)
      PROVE  SessionIInv'
  <2>1. Touched(f) /\ RevokeFamily(f)
        /\ denying' = denying \cup ({t} \ {NoToken}) /\ UNCHANGED client
    BY <1>2 DEF Logout, Touched
  <2>. QED  BY <2>1, RevokeFamilyKeepsIInv DEF TypeOK
<1>3. ASSUME NEW f \in Families, RevokeSession(f) PROVE SessionIInv'
  <2>1. Touched(f) /\ RevokeFamily(f)
        /\ denying' = denying \cup {f} /\ UNCHANGED client
    BY <1>3 DEF RevokeSession, Touched, Live
  <2>. QED  BY <2>1, RevokeFamilyKeepsIInv DEF TypeOK
<1>4. ASSUME NEW f \in Families, DenySession(f) PROVE SessionIInv'
  <2>. DEFINE ttl == AccessTTL * Second
  <2>1. /\ denied' = [denied EXCEPT ![f] = now + ttl]
        /\ denying' = denying \ {f}
        /\ UNCHANGED <<refreshVars, client, ended, access, now>>
    BY <1>4 DEF DenySession
  <2>2. ttl \in Nat
    BY AccessTtlIsInTicks
  <2>. HIDE DEF ttl
  <2>3. denied' \in [Families -> Nat]
    BY <2>1, <2>2 DEF TypeOK
  <2>. QED  BY <2>1, <2>3, FamiliesUnchanged DEF TypeOK, refreshVars
<1>5. ASSUME NEW t \in Tokens, DenyJti(t) PROVE SessionIInv'
  <2>. DEFINE d == IF access[t].expires <= now THEN access[t].denied
                   ELSE now + (IF Floor(access[t].expires - now) < Second
                               THEN Second ELSE Floor(access[t].expires - now))
  <2>1. d \in Nat
    <3>1. access[t].expires > now => Floor(access[t].expires - now) \in Nat
      <4>1. access[t].expires > now => access[t].expires - now \in Nat
        BY DEF TypeOK
      <4>. QED  BY <4>1, FloorBounds
    <3>. QED  BY <3>1 DEF TypeOK
  <2>2. access' = [access EXCEPT ![t].denied = d]
        /\ denying' = denying \ {t}
        /\ UNCHANGED <<refreshVars, client, ended, denied, now>>
    BY <1>5 DEF DenyJti
  <2>. HIDE DEF d
  <2>3. access' \in [Tokens -> [expires : Nat, denied : Nat, late : BOOLEAN]]
        /\ \A u \in Tokens : access'[u].expires = access[u].expires
    BY <2>1, <2>2 DEF TypeOK
  <2>. QED  BY <2>2, <2>3, FamiliesUnchanged DEF TypeOK, refreshVars
<1>6. ASSUME NEW x \in Families \cup Tokens, DenyFails(x) PROVE SessionIInv'
  BY <1>6, FamiliesUnchanged DEF DenyFails, TypeOK, refreshVars
<1>7. ASSUME Tick PROVE SessionIInv'
  BY <1>7, FamiliesUnchanged DEF Tick, TypeOK, refreshVars
<1>8. CASE UNCHANGED vars
  BY <1>8, FamiliesUnchanged DEF vars, TypeOK, refreshVars
<1>. QED  BY <1>1, <1>2, <1>3, <1>4, <1>5, <1>6, <1>7, <1>8 DEF Next

LEMMA SessionIInvAlways == Spec => []SessionIInv
BY SessionInitIInv, SessionStepKeepsIInv, PTL DEF Spec

(* rotateRefreshToken and revokeFamily: two refresh tokens of a session    *)
(* are live only after two refreshes raced on one token, and a revoked     *)
(* session has live tokens only of refreshes that had read theirs before.  *)
THEOREM OnlyRacesEverGetPast == Spec => []OnlyRacesGetPast
<1>1. SessionIInv => OnlyRacesGetPast
  <2>. SUFFICES ASSUME SessionIInv PROVE OnlyRacesGetPast
    OBVIOUS
  <2>1. ASSUME NEW t \in Tokens, NEW u \in Tokens, t # u,
               family[t] = family[u], state[t] = "live", state[u] = "live",
               \A w \in Tokens : family[w] = family[t] => ~(rotations[w] > 1)
        PROVE  FALSE
    <3>1. rotations[t] = 0 /\ rotations[u] = 0 /\ family[t] \in Families
      BY <2>1 DEF SessionIInv, TypeOK, RotationsFormAChain
    <3>2. \A w \in Tokens : family[w] = family[t] => rotations[w] <= 1
      BY <2>1 DEF SessionIInv, TypeOK
    <3>. QED  BY <2>1, <3>1, <3>2 DEF SessionIInv, RotationsFormAChain
  <2>. QED  BY <2>1 DEF SessionIInv, OnlyRacesGetPast,
                        ForksComeFromRacingRefreshes
<1>. QED  BY <1>1, SessionIInvAlways, PTL

(* An access token expires no later than a token signed now; a denied one  *)
(* less than a second after its deny entry; and one of a denied session    *)
(* that was signed before the entry no later than the entry.               *)
ExpiryIsBounded(t) ==
    /\ access[t].expires <= now + AccessTTL * Second
    /\ access[t].denied > 0 => access[t].expires < access[t].denied + Second
    /\ state[t] # "unused" /\ access[t].expires > 0
       /\ denied[family[t]] > 0 /\ ~access[t].late
          => access[t].expires <= denied[family[t]]

DenyIInv == SessionIInv /\ \A t \in Tokens : ExpiryIsBounded(t)

LEMMA DenyInitIInv == Init => DenyIInv
<1>. SUFFICES ASSUME Init PROVE DenyIInv
  OBVIOUS
<1>1. \A t \in Tokens : access[t].expires = 0 /\ access[t].denied = 0 /\ now = 0
  BY DEF Init, Unsigned
<1>2. SessionIInv
  BY SessionInitIInv
<1>. QED  BY <1>1, <1>2, AccessTtlIsInTicks DEF DenyIInv, ExpiryIsBounded

(* A step that leaves deny lists and access tokens alone keeps the bounds. *)
LEMMA ExpiryUnchanged ==
  ASSUME DenyIInv, UNCHANGED <<denied, access>>, now' \in Nat, now <= now',
         NEW t \in Tokens,
         \/ family'[t] = family[t] /\ (state'[t] # "unused" => state[t] # "unused")
         \/ access[t].expires = 0
  PROVE  ExpiryIsBounded(t)'
<1>1. /\ access[t].expires \in Nat /\ now \in Nat
      /\ access[t].denied \in Nat /\ ExpiryIsBounded(t)
  BY DEF DenyIInv, SessionIInv, TypeOK
<1>2. access[t].expires <= now' + AccessTTL * Second
  BY <1>1, AccessTtlIsInTicks DEF ExpiryIsBounded
<1>. QED  BY <1>1, <1>2 DEF ExpiryIsBounded

LEMMA RevokedStaysUsed ==
  ASSUME DenyIInv, NEW f, RevokeFamily(f), NEW t \in Tokens
  PROVE  ExpiryIsBounded(t)'
<1>1. /\ UNCHANGED <<family, denied, access, now>>
      /\ state'[t] # "unused" => state[t] # "unused"
  BY DEF RevokeFamily, Live
<1>. QED  BY <1>1, ExpiryUnchanged DEF DenyIInv, SessionIInv, TypeOK

LEMMA DenyStepKeepsIInv == DenyIInv /\ [Next]_vars => DenyIInv'
<1>. SUFFICES ASSUME DenyIInv, [Next]_vars PROVE DenyIInv'
  OBVIOUS
<1>. USE NamesAreDistinct, TimesAreNaturals DEF DenyIInv
<1>0. SessionIInv'
  BY SessionStepKeepsIInv
<1>. SUFFICES \A t \in Tokens : ExpiryIsBounded(t)'
  BY <1>0
<1>t. TypeOK /\ TypeOK'
  BY <1>0 DEF SessionIInv
<1>1. ASSUME NEW c \in Clients, ClientStep(c), NEW t \in Tokens
      PROVE  ExpiryIsBounded(t)'
  <2>1. ASSUME NEW f \in Families, NEW u \in Tokens, Login(c, f, u)
        PROVE  ExpiryIsBounded(t)'
    <3>1. u = t => access[t].expires = 0
      BY <1>t, <2>1 DEF Login, TypeOK
    <3>2. u # t => family'[t] = family[t] /\ state'[t] = state[t]
      BY <1>t, <2>1 DEF Login, TypeOK
    <3>. QED  BY <1>t, <2>1, <3>1, <3>2, ExpiryUnchanged DEF Login, TypeOK
  <2>2. ASSUME NEW u \in Tokens, ReadToken(c, u) PROVE ExpiryIsBounded(t)'
    BY <1>t, <2>2, ExpiryUnchanged DEF ReadToken, refreshVars, TypeOK
  <2>3. ASSUME NEW u \in Tokens, Rotate(c, u) PROVE ExpiryIsBounded(t)'
    <3>1. u = t => access[t].expires = 0
      BY <1>t, <2>3 DEF Rotate, TypeOK
    <3>2. u # t => /\ family'[t] = family[t]
                   /\ state'[t] # "unused" => state[t] # "unused"
      BY <1>t, <2>3 DEF Rotate, TypeOK
    <3>. QED  BY <1>t, <2>3, <3>1, <3>2, ExpiryUnchanged DEF Rotate, TypeOK
  <2>4. ASSUME SignAccess(c) PROVE ExpiryIsBounded(t)'
    <3>. DEFINE u == client[c].token
    <3>1. /\ u \in Tokens /\ family[u] \in Families
          /\ UNCHANGED <<refreshVars, ended, denying, denied, now>>
          /\ access' = [access EXCEPT ![u] =
                           [expires |-> Floor(now) + AccessTTL * Second,
                            denied |-> 0, late |-> denied[family[u]] > 0]]
      BY <1>t, <2>4 DEF SignAccess, TypeOK
    <3>. HIDE DEF u
    <3>2. CASE t = u
      <4>. DEFINE ttl == AccessTTL * Second
      <4>1. /\ access'[t].expires = Floor(now) + ttl
            /\ access'[t].denied = 0
            /\ access'[t].late = (denied[family[t]] > 0)
            /\ UNCHANGED <<state, family, denied, now>>
        BY <1>t, <3>1, <3>2 DEF TypeOK, refreshVars
      <4>2. Floor(now) \in Nat /\ Floor(now) <= now /\ now \in Nat
        BY <1>t, FloorBounds DEF TypeOK
      <4>3. ttl \in Nat
        BY AccessTtlIsInTicks
      <4>. HIDE DEF ttl
      <4>4. access'[t].expires <= now' + ttl
        BY <4>1, <4>2, <4>3
      <4>5. ~(denied'[family'[t]] > 0 /\ ~access'[t].late)
        BY <4>1
      <4>. QED  BY <4>1, <4>4, <4>5 DEF ExpiryIsBounded, ttl
    <3>3. CASE t # u
      <4>1. access'[t] = access[t]
        BY <1>t, <3>1, <3>3 DEF TypeOK
      <4>. QED  BY <3>1, <4>1 DEF ExpiryIsBounded, refreshVars
    <3>. QED  BY <3>2, <3>3
  <2>5. ASSUME RequestFails(c) PROVE ExpiryIsBounded(t)'
    BY <1>t, <2>5, ExpiryUnchanged DEF RequestFails, refreshVars, TypeOK
  <2>6. ASSUME DetectReuse(c) PROVE ExpiryIsBounded(t)'
    BY <1>t, <2>6, RevokedStaysUsed DEF DetectReuse
  <2>. QED  BY <1>1, <2>1, <2>2, <2>3, <2>4, <2>5, <2>6 DEF ClientStep
<1>2. ASSUME NEW f \in Families, NEW u \in Tokens \cup {NoToken},
             Logout(f, u), NEW t \in Tokens
      PROVE  ExpiryIsBounded(t)'
  BY <1>t, <1>2, RevokedStaysUsed DEF Logout
<1>3. ASSUME NEW f \in Families, RevokeSession(f), NEW t \in Tokens
      PROVE  ExpiryIsBounded(t)'
  BY <1>t, <1>3, RevokedStaysUsed DEF RevokeSession
<1>4. ASSUME NEW f \in Families, DenySession(f), NEW t \in Tokens
      PROVE  ExpiryIsBounded(t)'
  <2>1. /\ denied' = [denied EXCEPT ![f] = now + AccessTTL * Second]
        /\ UNCHANGED <<refreshVars, client, ended, access, now>>
    BY <1>4 DEF DenySession
  <2>2. /\ access[t].expires \in Nat /\ now \in Nat /\ ExpiryIsBounded(t)
        /\ state[t] # "unused" => family[t] \in Families
    BY <1>t DEF TypeOK
  <2>3. state[t] # "unused" =>
           denied'[family[t]] = IF family[t] = f THEN now + AccessTTL * Second
                                                 ELSE denied[family[t]]
    BY <1>t, <2>1, <2>2 DEF TypeOK
  <2>. QED  BY <2>1, <2>2, <2>3, AccessTtlIsInTicks
           DEF ExpiryIsBounded, refreshVars
<1>5. ASSUME NEW u \in Tokens, DenyJti(u), NEW t \in Tokens
      PROVE  ExpiryIsBounded(t)'
  <2>. DEFINE left == access[u].expires - now
              d == IF access[u].expires <= now THEN access[u].denied
                   ELSE now + (IF Floor(left) < Second THEN Second
                                                       ELSE Floor(left))
  <2>1. /\ access' = [access EXCEPT ![u].denied = d]
        /\ UNCHANGED <<refreshVars, client, ended, denied, now>>
    BY <1>5 DEF DenyJti
  <2>2. CASE t # u
    <3>1. access'[t] = access[t]
      BY <1>t, <2>1, <2>2 DEF TypeOK
    <3>. QED  BY <2>1, <3>1 DEF ExpiryIsBounded, refreshVars
  <2>3. CASE t = u
    <3>0. access[u].expires \in Nat /\ access[u].denied \in Nat /\ now \in Nat
      BY <1>t DEF TypeOK
    <3>1. access[u].expires > now =>
             Floor(left) \in Nat /\ left < Floor(left) + Second
      <4>1. access[u].expires > now => left \in Nat
        BY <3>0
      <4>. QED  BY <4>1, FloorBounds
    <3>2. d > 0 => access[u].expires < d + Second
      BY <3>0, <3>1 DEF ExpiryIsBounded
    <3>. HIDE DEF d
    <3>3. /\ access'[t].denied = d /\ access'[t].expires = access[t].expires
          /\ access'[t].late = access[t].late
      BY <1>t, <2>1, <2>3 DEF TypeOK
    <3>. QED  BY <2>1, <2>3, <3>2, <3>3 DEF ExpiryIsBounded, refreshVars
  <2>. QED  BY <2>2, <2>3
<1>6. ASSUME NEW x \in Families \cup Tokens, DenyFails(x), NEW t \in Tokens
      PROVE  ExpiryIsBounded(t)'
  BY <1>t, <1>6, ExpiryUnchanged DEF DenyFails, refreshVars, TypeOK
<1>7. ASSUME Tick, NEW t \in Tokens PROVE ExpiryIsBounded(t)'
  BY <1>t, <1>7, ExpiryUnchanged DEF Tick, refreshVars, TypeOK
<1>8. ASSUME UNCHANGED vars, NEW t \in Tokens PROVE ExpiryIsBounded(t)'
  BY <1>t, <1>8, ExpiryUnchanged DEF vars, refreshVars, TypeOK
<1>. QED  BY <1>1, <1>2, <1>3, <1>4, <1>5, <1>6, <1>7, <1>8 DEF Next

LEMMA DenyIInvAlways == Spec => []DenyIInv
BY DenyInitIInv, DenyStepKeepsIInv, PTL DEF Spec

(* denyJti and denySession, wherever in a second they come and whatever    *)
(* falls between the revocation and the entry: an access token of a denied *)
(* session passes only if it was signed after the entry, one denied at     *)
(* logout only in its last second.                                         *)
THEOREM DenyListsAlwaysHold == Spec => []DenyListsHold
<1>1. DenyIInv => DenyListsHold
  <2>. SUFFICES ASSUME DenyIInv PROVE DenyListsHold
    OBVIOUS
  <2>1. TypeOK
    BY DEF DenyIInv, SessionIInv
  <2>2. ASSUME NEW t \in Tokens, Accepted(t), state[t] # "unused"
        PROVE  /\ denied[family[t]] > 0 => access[t].late
               /\ access[t].denied > 0 => access[t].expires - now < Second
    <3>1. /\ access[t].expires \in Nat /\ access[t].denied \in Nat
          /\ now \in Nat /\ Second \in Nat /\ denied[family[t]] \in Nat
          /\ access[t].late \in BOOLEAN
      BY <2>1, <2>2, TimesAreNaturals DEF TypeOK
    <3>. QED  BY <2>2, <3>1 DEF DenyIInv, ExpiryIsBounded, Accepted
  <2>. QED  BY <2>1, <2>2 DEF DenyListsHold, DenyCoversEarlierTokens,
                             LogoutMissesLessThanASecond
<1>. QED  BY <1>1, DenyIInvAlways, PTL

(* A family that was revoked, has no live token and no refresh under way   *)
(* is never used again: reuse detection, logout and DELETE included.       *)
THEOREM RevokedFamiliesAlwaysStayDead == Spec => RevokedFamiliesStayDead
<1>1. SessionIInv /\ [Next]_vars => [\A f \in Families : Over(f) => Over(f)']_vars
  <2>. SUFFICES ASSUME SessionIInv, [Next]_vars, NEW f \in Families, Over(f)
                PROVE  Over(f)'
    OBVIOUS
  <2>. USE NamesAreDistinct
  <2>0. /\ TypeOK /\ Touched(f) /\ f \in ended
        /\ \A u \in Tokens : family[u] = f => state[u] # "live"
        /\ \A c \in Clients : client[c].step = "rotate" =>
              family[client[c].token] # f /\ state[client[c].token] # "unused"
                  /\ client[c].token \in Tokens
    BY DEF Over, Live, SessionIInv, TypeOK, EndedFamiliesHaveTokens
  <2>. SUFFICES /\ f \in ended'
                /\ \A u \in Tokens : family'[u] = f => state'[u] # "live"
                /\ \A c \in Clients : client'[c].step = "rotate" =>
                      family'[client'[c].token] # f
    BY DEF Over, Live
  <2>1. ASSUME UNCHANGED <<family, client>>, f \in ended',
               \A u \in Tokens : state'[u] = "live" => state[u] = "live"
        PROVE  Over(f)'
    BY <2>0, <2>1 DEF Over, Live
  <2>2. ASSUME NEW c \in Clients, NEW g \in Families, NEW t \in Tokens,
               Login(c, g, t)
        PROVE  Over(f)'
    <3>1. /\ g # f /\ f \in ended' /\ family'[t] = g
          /\ \A u \in Tokens \ {t} : /\ family'[u] = family[u]
                                     /\ state'[u] = state[u]
          /\ client'[c].step = "sign" /\ state[t] = "unused"
          /\ \A d \in Clients \ {c} : client'[d] = client[d]
      BY <2>0, <2>2 DEF Login, Touched, TypeOK
    <3>. QED  BY <2>0, <3>1 DEF Over, Live
  <2>3. ASSUME NEW c \in Clients, NEW t \in Tokens, ReadToken(c, t)
        PROVE  Over(f)'
    <3>1. /\ UNCHANGED <<family, state, ended>>
          /\ client'[c].step = "rotate" => state[t] = "live"
          /\ client'[c].token = t
          /\ \A d \in Clients \ {c} : client'[d] = client[d]
      BY <2>0, <2>3 DEF ReadToken, TypeOK, refreshVars
    <3>. QED  BY <2>0, <3>1 DEF Over, Live
  <2>4. ASSUME NEW c \in Clients, NEW new \in Tokens, Rotate(c, new)
        PROVE  Over(f)'
    <3>1. /\ f \in ended' /\ client[c].step = "rotate"
          /\ family'[new] = family[client[c].token]
          /\ \A u \in Tokens \ {new} : /\ family'[u] = family[u]
                                       /\ state'[u] = "live" => state[u] = "live"
          /\ client'[c].step = "sign" /\ state[new] = "unused"
          /\ \A d \in Clients \ {c} : client'[d] = client[d]
      BY <2>0, <2>4 DEF Rotate, TypeOK
    <3>. QED  BY <2>0, <3>1 DEF Over, Live
  <2>5. ASSUME NEW c \in Clients, client'[c] = Idle,
               \A d \in Clients \ {c} : client'[d] = client[d],
               family' = family, f \in ended',
               \A u \in Tokens : state'[u] = "live" => state[u] = "live"
        PROVE  Over(f)'
    BY <2>0, <2>5 DEF Over, Live, Idle
  <2>6. ASSUME NEW g, RevokeFamily(g)
        PROVE  /\ family' = family /\ f \in ended'
               /\ \A u \in Tokens : state'[u] = "live" => state[u] = "live"
    BY <2>0, <2>6 DEF RevokeFamily
  <2>7. ASSUME NEW c \in Clients, ClientStep(c) PROVE Over(f)'
    <3>1. ASSUME SignAccess(c) PROVE Over(f)'
      BY <2>0, <2>5, <3>1 DEF SignAccess, refreshVars, TypeOK
    <3>2. ASSUME RequestFails(c) PROVE Over(f)'
      BY <2>0, <2>5, <3>2 DEF RequestFails, refreshVars, TypeOK
    <3>3. ASSUME DetectReuse(c) PROVE Over(f)'
      BY <2>0, <2>5, <2>6, <3>3 DEF DetectReuse, TypeOK
    <3>. QED  BY <2>2, <2>3, <2>4, <2>7, <3>1, <3>2, <3>3 DEF ClientStep
  <2>8. CASE \E c \in Clients : ClientStep(c)
    BY <2>7, <2>8 DEF Over, Live
  <2>9. ASSUME NEW g \in Families, NEW t \in Tokens \cup {NoToken},
               Logout(g, t) \/ RevokeSession(g)
        PROVE  Over(f)'
    BY <2>1, <2>6, <2>9 DEF Logout, RevokeSession
  <2>10. CASE \/ \E g \in Families : DenySession(g)
              \/ \E t \in Tokens : DenyJti(t)
              \/ \E x \in Families \cup Tokens : DenyFails(x)
              \/ Tick \/ UNCHANGED vars
    BY <2>0, <2>10 DEF DenySession, DenyJti, DenyFails, Tick, vars, refreshVars
  <2>11. Over(f)' => /\ f \in ended'
                     /\ \A u \in Tokens : family'[u] = f => state'[u] # "live"
                     /\ \A c \in Clients : client'[c].step = "rotate" =>
                           family'[client'[c].token] # f
    BY DEF Over, Live
  <2>. QED  BY <2>8, <2>9, <2>10, <2>11 DEF Next
<1>. QED  BY <1>1, SessionIInvAlways, PTL DEF Spec, RevokedFamiliesStayDead

(***************************************************************************)
(* Invitations                                                             *)
(***************************************************************************)

Accepting(i) == {v \in Invitees : accepting[v].of = i}

(* An invitation that was looked up is a row, with a role.                 *)
LookedUpAreRows ==
    /\ \A i \in Invites : invite[i].row = "row" => invite[i].role # NoRole
    /\ \A v \in Invitees :
          /\ accepting[v].of # NoInvite => invite[accepting[v].of].row = "row"
          /\ accepting[v].begun => accepting[v].of # NoInvite
    /\ \A u \in Revokers :
          revoking[u] # NoInvite => invite[revoking[u]].row = "row"

(* What happened to an invitation happened before it was looked up, when   *)
(* the look-up would have noticed, or was noted.                           *)
ChangesAreNoted ==
    /\ \A v \in Invitees, i \in Invites : accepting[v].of = i =>
          /\ invite[i].accepted => "accepted" \in meanwhile[v]
          /\ invite[i].revoked => "revoked" \in meanwhile[v]
    /\ \A u \in Revokers, i \in Invites : revoking[u] = i =>
          (invite[i].accepted => "accepted" \in meanwhile[u])

(* An invitation was accepted by people who are not accepting it now.      *)
AcceptancesAreCounted ==
    \A i \in Invites :
        /\ ~invite[i].accepted => acceptances[i] = 0
        /\ acceptances[i] + Cardinality(Accepting(i)) <= Cardinality(Invitees)

InviteIInv ==
    /\ InviteTypeOK
    /\ LookedUpAreRows
    /\ ChangesAreNoted
    /\ AcceptancesAreCounted
    /\ account # NoInvitee => membership # NoRole

InviteRow == [row : {"none", "row"}, role : OrgRoles \cup {NoRole},
              accepted : BOOLEAN, revoked : BOOLEAN, expired : BOOLEAN]

LEMMA InviteRowsAreUpdated ==
  ASSUME NEW x \in InviteRow
  PROVE  /\ [x EXCEPT !.accepted = TRUE] \in InviteRow
         /\ [x EXCEPT !.revoked = TRUE] \in InviteRow
         /\ [x EXCEPT !.expired = TRUE] \in InviteRow
BY DEF InviteRow

LEMMA InviteesAreCountable == Cardinality(Invitees) \in Nat
BY InvitationOptions, FS_CardinalityType

LEMMA AcceptingIsFinite ==
  ASSUME NEW i \in Invites
  PROVE  /\ IsFiniteSet(Accepting(i)) /\ Cardinality(Accepting(i)) \in Nat
         /\ Cardinality(Accepting(i)) <= Cardinality(Invitees)
<1>1. Accepting(i) \subseteq Invitees
  BY DEF Accepting
<1>. QED  BY <1>1, InvitationOptions, FS_Subset, FS_CardinalityType

LEMMA InviteInitIInv == InviteInit => InviteIInv
<1>. SUFFICES ASSUME InviteInit PROVE InviteIInv
  OBVIOUS
<1>. USE InvitationOptions DEF InviteInit
<1>1. InviteTypeOK
  <2>1. acceptances \in [Invites -> 0 .. Cardinality(Invitees)]
    BY InviteesAreCountable
  <2>2. invite \in [Invites ->
                      [row : {"none", "row"}, role : OrgRoles \cup {NoRole},
                       accepted : BOOLEAN, revoked : BOOLEAN,
                       expired : BOOLEAN]]
    BY DEF NotIssued
  <2>. QED  BY <2>1, <2>2 DEF InviteTypeOK, NotAccepting
<1>2. LookedUpAreRows /\ ChangesAreNoted
  BY DEF LookedUpAreRows, ChangesAreNoted, NotIssued, NotAccepting
<1>3. AcceptancesAreCounted
  BY AcceptingIsFinite, InviteesAreCountable
     DEF AcceptancesAreCounted, NotIssued
<1>. QED  BY <1>1, <1>2, <1>3 DEF InviteIInv

(* Nobody takes up or gives up an invitation, and none is consumed.        *)
LEMMA CountUnchanged ==
  ASSUME InviteIInv, UNCHANGED acceptances,
         \A i \in Invites : invite'[i].accepted = invite[i].accepted,
         \A v \in Invitees : accepting'[v].of = accepting[v].of
  PROVE  AcceptancesAreCounted'
<1>1. \A i \in Invites : Accepting(i)' = Accepting(i)
  BY DEF Accepting
<1>. QED  BY <1>1 DEF InviteIInv, AcceptancesAreCounted

LEMMA FindUsableKeepsIInv ==
  ASSUME InviteIInv, NEW v \in Invitees, NEW i \in Invites, FindUsable(v, i)
  PROVE  InviteIInv'
<1>. USE InvitationOptions DEF InviteIInv
<1>1. /\ accepting[v] = NotAccepting
      /\ invite[i].row = "row" /\ ~invite[i].accepted /\ ~invite[i].revoked
      /\ accepting' = [accepting EXCEPT ![v].of = i]
      /\ meanwhile' = [meanwhile EXCEPT ![v] = {}]
      /\ UNCHANGED <<invite, issuing, account, membership, revoking,
                     acceptances>>
  BY DEF FindUsable
<1>2. /\ accepting'[v].of = i /\ ~accepting'[v].begun /\ meanwhile'[v] = {}
      /\ \A w \in Invitees \ {v} : /\ accepting'[w] = accepting[w]
                                   /\ meanwhile'[w] = meanwhile[w]
      /\ \A u \in Revokers : meanwhile'[u] = meanwhile[u]
      /\ accepting[v].of = NoInvite /\ i # NoInvite
  BY <1>1 DEF InviteTypeOK, NotAccepting
<1>3. InviteTypeOK'
  BY <1>1 DEF InviteTypeOK
<1>4. LookedUpAreRows'
  BY <1>1, <1>2 DEF LookedUpAreRows
<1>5. ChangesAreNoted'
  BY <1>1, <1>2 DEF ChangesAreNoted
<1>6. AcceptancesAreCounted'
  <2>1. ASSUME NEW j \in Invites, j # i PROVE Accepting(j)' = Accepting(j)
    BY <1>2, <2>1 DEF Accepting
  <2>2. acceptances[i] = 0
    BY <1>1 DEF AcceptancesAreCounted
  <2>3. Cardinality(Accepting(i)') <= Cardinality(Invitees)
        /\ Cardinality(Accepting(i)') \in Nat
    BY FS_Subset, FS_CardinalityType DEF Accepting
  <2>. QED  BY <1>1, <2>1, <2>2, <2>3 DEF AcceptancesAreCounted
<1>. QED  BY <1>1, <1>3, <1>4, <1>5, <1>6

(* Whoever commits or is rolled back leaves his invitation.                *)
LEMMA LeavingIsCounted ==
  ASSUME InviteIInv, NEW v \in Invitees, NEW i \in Invites,
         accepting[v].of = i,
         accepting' = [accepting EXCEPT ![v] = NotAccepting]
  PROVE  /\ Cardinality(Accepting(i)') + 1 = Cardinality(Accepting(i))
         /\ Cardinality(Accepting(i)') \in Nat
         /\ \A j \in Invites \ {i} : Accepting(j)' = Accepting(j)
<1>. USE InvitationOptions
<1>1. /\ accepting'[v].of = NoInvite /\ NoInvite # i
      /\ \A w \in Invitees \ {v} : accepting'[w] = accepting[w]
  BY DEF InviteIInv, InviteTypeOK, NotAccepting
<1>2. Accepting(i)' = Accepting(i) \ {v} /\ v \in Accepting(i)
  BY <1>1 DEF Accepting
<1>3. \A j \in Invites \ {i} : Accepting(j)' = Accepting(j)
  BY <1>1 DEF Accepting
<1>4. IsFiniteSet(Accepting(i)) /\ Cardinality(Accepting(i)) \in Nat
  BY AcceptingIsFinite
<1>5. Cardinality(Accepting(i) \ {v}) = Cardinality(Accepting(i)) - 1
  BY <1>2, <1>4, FS_RemoveElement
<1>6. Cardinality(Accepting(i) \ {v}) \in Nat
  BY <1>4, FS_RemoveElement, FS_CardinalityType
<1>. QED  BY <1>2, <1>3, <1>4, <1>5, <1>6

LEMMA CommitAcceptKeepsIInv ==
  ASSUME InviteIInv, NEW v \in Invitees, CommitAccept(v)
  PROVE  InviteIInv'
<1>. USE InvitationOptions DEF InviteIInv
<1>0. PICK i \in Invites : accepting[v].of = i /\ invite[i].row = "row"
  BY DEF CommitAccept, LookedUpAreRows, InviteTypeOK
<1>1. /\ accepting[v].begun
      /\ account' = IF accepting[v].newUser THEN v ELSE account
      /\ membership' = IF membership = NoRole THEN invite[i].role
                                              ELSE membership
      /\ invite' = [invite EXCEPT ![i].accepted = TRUE]
      /\ acceptances' = [acceptances EXCEPT ![i] = @ + 1]
      /\ Note(i, "accepted")
      /\ accepting' = [accepting EXCEPT ![v] = NotAccepting]
      /\ UNCHANGED <<issuing, revoking>>
  BY <1>0 DEF CommitAccept
<1>2. i \in Invites /\ invite[i].row = "row" /\ invite[i].role \in OrgRoles
  BY <1>0 DEF LookedUpAreRows, InviteTypeOK
<1>3. accepting[v].of = i
  BY <1>0
<1>4. /\ accepting'[v].of = NoInvite /\ ~accepting'[v].begun
      /\ \A w \in Invitees \ {v} : accepting'[w] = accepting[w]
      /\ invite'[i].accepted /\ invite'[i].row = "row"
      /\ invite'[i].revoked = invite[i].revoked
      /\ invite'[i].role = invite[i].role
      /\ \A j \in Invites \ {i} : invite'[j] = invite[j]
      /\ acceptances'[i] = acceptances[i] + 1
      /\ \A j \in Invites \ {i} : acceptances'[j] = acceptances[j]
  BY <1>1, <1>2 DEF InviteTypeOK, NotAccepting
<1>5. \A c \in Invitees \cup Revokers :
         /\ meanwhile[c] \subseteq meanwhile'[c]
         /\ c \in LookedUp(i) => "accepted" \in meanwhile'[c]
  BY <1>1 DEF Note
<1>6. /\ Cardinality(Accepting(i)') + 1 = Cardinality(Accepting(i))
      /\ Cardinality(Accepting(i)') \in Nat
      /\ \A j \in Invites \ {i} : Accepting(j)' = Accepting(j)
  BY <1>1, <1>2, <1>3, LeavingIsCounted
<1>6a. /\ acceptances[i] \in Nat /\ Cardinality(Accepting(i)) \in Nat
       /\ acceptances[i] + Cardinality(Accepting(i)) <= Cardinality(Invitees)
       /\ Cardinality(Invitees) \in Nat
  <2>1. acceptances[i] \in Nat
    BY <1>2, InviteesAreCountable DEF InviteTypeOK
  <2>. QED  BY <1>2, <2>1, AcceptingIsFinite, InviteesAreCountable
           DEF AcceptancesAreCounted
<1>6b. acceptances'[i] + Cardinality(Accepting(i)') <= Cardinality(Invitees)
       /\ acceptances'[i] \in 0 .. Cardinality(Invitees)
  BY <1>4, <1>6, <1>6a
<1>6c. AcceptancesAreCounted'
  <2>1. ASSUME NEW j \in Invites, j # i
        PROVE  /\ ~invite'[j].accepted => acceptances'[j] = 0
               /\ acceptances'[j] + Cardinality(Accepting(j)')
                     <= Cardinality(Invitees)
    BY <1>4, <1>6, <2>1 DEF AcceptancesAreCounted
  <2>. QED  BY <1>4, <1>6b, <2>1 DEF AcceptancesAreCounted
<1>7. InviteTypeOK'
  <2>1. acceptances' \in [Invites -> 0 .. Cardinality(Invitees)]
    BY <1>1, <1>6b DEF InviteTypeOK
  <2>2. accepting' \in [Invitees -> [of : Invites \cup {NoInvite},
                                     newUser : BOOLEAN, begun : BOOLEAN]]
    BY <1>1 DEF InviteTypeOK, NotAccepting
  <2>3. meanwhile' \in [Invitees \cup Revokers ->
                           SUBSET {"accepted", "revoked"}]
    BY <1>1 DEF InviteTypeOK, Note
  <2>4. account' \in Invitees \cup {NoInvitee}
        /\ membership' \in OrgRoles \cup {NoRole}
    BY <1>1, <1>2 DEF InviteTypeOK
  <2>5. invite' \in [Invites -> InviteRow]
    <3>1. invite \in [Invites -> InviteRow]
      BY DEF InviteTypeOK, InviteRow
    <3>2. invite' = [invite EXCEPT ![i] = [invite[i] EXCEPT !.accepted = TRUE]]
      BY <1>1
    <3>. QED  BY <1>2, <3>1, <3>2, InviteRowsAreUpdated
  <2>. QED  BY <1>1, <2>1, <2>2, <2>3, <2>4, <2>5 DEF InviteTypeOK, InviteRow
<1>8. LookedUpAreRows'
  BY <1>1, <1>2, <1>4 DEF LookedUpAreRows
<1>9. ChangesAreNoted'
  <2>1. ASSUME NEW w \in Invitees, NEW j \in Invites, accepting'[w].of = j
        PROVE  /\ invite'[j].accepted => "accepted" \in meanwhile'[w]
               /\ invite'[j].revoked => "revoked" \in meanwhile'[w]
    <3>1. w # v /\ accepting[w].of = j
      BY <1>4, <2>1
    <3>2. j = i => w \in LookedUp(i)
      BY <3>1 DEF LookedUp
    <3>. QED  BY <1>4, <1>5, <3>1, <3>2 DEF ChangesAreNoted
  <2>2. ASSUME NEW u \in Revokers, NEW j \in Invites, revoking[u] = j,
               invite'[j].accepted
        PROVE  "accepted" \in meanwhile'[u]
    <3>1. j = i => u \in LookedUp(i)
      BY <2>2 DEF LookedUp
    <3>. QED  BY <1>4, <1>5, <2>2, <3>1 DEF ChangesAreNoted
  <2>. QED  BY <1>1, <2>1, <2>2 DEF ChangesAreNoted
<1>10. account' # NoInvitee => membership' # NoRole
  BY <1>1, <1>2
<1>. QED  BY <1>6c, <1>7, <1>8, <1>9, <1>10

LEMMA RevokeKeepsIInv ==
  ASSUME InviteIInv, NEW u \in Revokers, Revoke(u)
  PROVE  InviteIInv'
<1>. USE InvitationOptions DEF InviteIInv
<1>0. PICK i \in Invites : revoking[u] = i
  BY DEF Revoke, InviteTypeOK
<1>1. /\ i # NoInvite
      /\ invite' = [invite EXCEPT ![i].revoked = TRUE]
      /\ Note(i, "revoked")
      /\ revoking' = [revoking EXCEPT ![u] = NoInvite]
      /\ UNCHANGED <<issuing, account, membership, accepting, acceptances>>
  BY <1>0 DEF Revoke
<1>2. i \in Invites
  OBVIOUS
<1>3. /\ invite'[i].revoked
      /\ \A j \in Invites : /\ invite'[j].accepted = invite[j].accepted
                            /\ invite'[j].row = invite[j].row
                            /\ invite'[j].role = invite[j].role
                            /\ j # i => invite'[j].revoked = invite[j].revoked
  <2>1. invite' = [invite EXCEPT ![i] = [invite[i] EXCEPT !.revoked = TRUE]]
        /\ invite \in [Invites -> InviteRow]
    BY <1>1 DEF InviteTypeOK, InviteRow
  <2>2. /\ invite'[i] = [invite[i] EXCEPT !.revoked = TRUE]
        /\ \A j \in Invites : j # i => invite'[j] = invite[j]
        /\ invite[i] \in InviteRow
    BY <1>2, <2>1
  <2>. QED  BY <2>2 DEF InviteRow
<1>4. \A c \in Invitees \cup Revokers :
         /\ meanwhile[c] \subseteq meanwhile'[c]
         /\ c \in LookedUp(i) => "revoked" \in meanwhile'[c]
  BY <1>1 DEF Note
<1>5. \A w \in Revokers : w # u => revoking'[w] = revoking[w]
  BY <1>1 DEF InviteTypeOK
<1>5a. revoking'[u] = NoInvite
  BY <1>1 DEF InviteTypeOK
<1>6. InviteTypeOK'
  <2>1. invite' \in [Invites -> InviteRow]
    <3>1. invite \in [Invites -> InviteRow]
      BY DEF InviteTypeOK, InviteRow
    <3>2. invite' = [invite EXCEPT ![i] = [invite[i] EXCEPT !.revoked = TRUE]]
      BY <1>1
    <3>. QED  BY <1>2, <3>1, <3>2, InviteRowsAreUpdated
  <2>2. meanwhile' \in [Invitees \cup Revokers ->
                           SUBSET {"accepted", "revoked"}]
    BY <1>1 DEF InviteTypeOK, Note
  <2>. QED  BY <1>1, <2>1, <2>2 DEF InviteTypeOK, InviteRow
<1>7. LookedUpAreRows'
  <2>1. \A w \in Revokers : revoking[w] \in Invites \cup {NoInvite}
    BY DEF InviteTypeOK
  <2>2. \A v \in Invitees : accepting[v].of \in Invites \cup {NoInvite}
    BY DEF InviteTypeOK
  <2>. QED  BY <1>1, <1>3, <1>5, <1>5a, <2>1, <2>2 DEF LookedUpAreRows
<1>8. ChangesAreNoted'
  <2>1. ASSUME NEW w \in Invitees, NEW j \in Invites, accepting[w].of = j
        PROVE  /\ invite'[j].accepted => "accepted" \in meanwhile'[w]
               /\ invite'[j].revoked => "revoked" \in meanwhile'[w]
    <3>1. j = i => w \in LookedUp(i)
      BY <2>1 DEF LookedUp
    <3>. QED  BY <1>3, <1>4, <2>1, <3>1 DEF ChangesAreNoted
  <2>2. ASSUME NEW w \in Revokers, NEW j \in Invites, revoking'[w] = j,
               invite'[j].accepted
        PROVE  "accepted" \in meanwhile'[w]
    <3>1. revoking[w] = j
      BY <1>5, <1>5a, <2>2
    <3>. QED  BY <1>3, <1>4, <2>2, <3>1 DEF ChangesAreNoted
  <2>. QED  BY <1>1, <2>1, <2>2 DEF ChangesAreNoted
<1>9. AcceptancesAreCounted'
  BY <1>1, <1>3, CountUnchanged
<1>. QED  BY <1>1, <1>6, <1>7, <1>8, <1>9

LEMMA InviteStepKeepsIInv ==
  InviteIInv /\ [InviteNext]_inviteVars => InviteIInv'
<1>. SUFFICES ASSUME InviteIInv, [InviteNext]_inviteVars PROVE InviteIInv'
  OBVIOUS
<1>. USE InvitationOptions DEF InviteIInv
<1>1. CASE FindNoMember
  <2>1. AcceptancesAreCounted'
    BY <1>1, CountUnchanged DEF FindNoMember
  <2>. QED  BY <1>1, <2>1
           DEF FindNoMember, InviteTypeOK, LookedUpAreRows, ChangesAreNoted
<1>2. ASSUME NEW i \in Invites, ExpireInvite(i) PROVE InviteIInv'
  <2>1. \A j \in Invites : /\ invite'[j].accepted = invite[j].accepted
                           /\ invite'[j].row = invite[j].row
                           /\ invite'[j].role = invite[j].role
                           /\ invite'[j].revoked = invite[j].revoked
    BY <1>2 DEF ExpireInvite, InviteTypeOK
  <2>2. AcceptancesAreCounted'
    BY <1>2, <2>1, CountUnchanged DEF ExpireInvite
  <2>3. InviteTypeOK'
    <3>1. invite \in [Invites -> InviteRow]
      BY DEF InviteTypeOK, InviteRow
    <3>2. invite' = [invite EXCEPT ![i] = [invite[i] EXCEPT !.expired = TRUE]]
      BY <1>2 DEF ExpireInvite
    <3>3. invite' \in [Invites -> InviteRow]
      BY <3>1, <3>2, InviteRowsAreUpdated
    <3>. QED  BY <1>2, <3>3 DEF ExpireInvite, InviteTypeOK, InviteRow
  <2>4. LookedUpAreRows' /\ ChangesAreNoted'
    BY <1>2, <2>1 DEF ExpireInvite, InviteTypeOK, LookedUpAreRows,
                      ChangesAreNoted
  <2>. QED  BY <1>2, <2>2, <2>3, <2>4 DEF ExpireInvite
<1>3. ASSUME NEW i \in Invites, NEW role \in OrgRoles, Issue(i, role)
      PROVE  InviteIInv'
  <2>1. /\ invite'[i].row = "row" /\ invite'[i].role = role
        /\ ~invite'[i].accepted /\ ~invite'[i].revoked /\ ~invite[i].accepted
        /\ \A j \in Invites \ {i} : invite'[j] = invite[j]
    BY <1>3 DEF Issue, InviteTypeOK, NotIssued
  <2>2. AcceptancesAreCounted'
    BY <1>3, <2>1, CountUnchanged DEF Issue
  <2>3. InviteTypeOK'
    BY <1>3 DEF Issue, InviteTypeOK, NotIssued
  <2>4. LookedUpAreRows' /\ ChangesAreNoted'
    BY <1>3, <2>1 DEF Issue, InviteTypeOK, LookedUpAreRows, ChangesAreNoted
  <2>. QED  BY <1>3, <2>2, <2>3, <2>4 DEF Issue
<1>4. ASSUME NEW v \in Invitees, NEW i \in Invites, FindUsable(v, i)
      PROVE  InviteIInv'
  BY <1>4, FindUsableKeepsIInv
<1>5. ASSUME NEW v \in Invitees, BeginAccept(v) PROVE InviteIInv'
  <2>1. \A w \in Invitees : /\ accepting'[w].of = accepting[w].of
                            /\ w # v => accepting'[w] = accepting[w]
    BY <1>5 DEF BeginAccept, InviteTypeOK
  <2>2. AcceptancesAreCounted'
    BY <1>5, <2>1, CountUnchanged DEF BeginAccept
  <2>3. InviteTypeOK'
    BY <1>5 DEF BeginAccept, InviteTypeOK
  <2>4. LookedUpAreRows' /\ ChangesAreNoted'
    BY <1>5, <2>1 DEF BeginAccept, LookedUpAreRows, ChangesAreNoted
  <2>. QED  BY <1>5, <2>2, <2>3, <2>4 DEF BeginAccept
<1>6. ASSUME NEW v \in Invitees, CommitAccept(v) PROVE InviteIInv'
  BY <1>6, CommitAcceptKeepsIInv
<1>7. ASSUME NEW v \in Invitees, AcceptLoses(v) PROVE InviteIInv'
  <2>1. /\ accepting' = [accepting EXCEPT ![v] = NotAccepting]
        /\ accepting[v].of \in Invites
        /\ UNCHANGED <<invite, issuing, account, membership, revoking,
                       acceptances, meanwhile>>
    BY <1>7 DEF AcceptLoses, LookedUpAreRows, InviteTypeOK
  <2>2. InviteTypeOK'
    BY <2>1 DEF InviteTypeOK, NotAccepting
  <2>3. /\ accepting'[v].of = NoInvite /\ ~accepting'[v].begun
        /\ \A w \in Invitees \ {v} : accepting'[w] = accepting[w]
    BY <2>1 DEF InviteTypeOK, NotAccepting
  <2>4. LookedUpAreRows' /\ ChangesAreNoted'
    BY <2>1, <2>3 DEF LookedUpAreRows, ChangesAreNoted
  <2>5. AcceptancesAreCounted'
    <3>0. PICK i \in Invites : accepting[v].of = i
      BY <2>1
    <3>1. /\ Cardinality(Accepting(i)') + 1 = Cardinality(Accepting(i))
          /\ Cardinality(Accepting(i)') \in Nat
          /\ \A j \in Invites \ {i} : Accepting(j)' = Accepting(j)
      BY <2>1, <3>0, LeavingIsCounted
    <3>2. acceptances[i] \in Nat /\ Cardinality(Invitees) \in Nat
      BY <2>1, InviteesAreCountable DEF InviteTypeOK
    <3>3. acceptances[i] + Cardinality(Accepting(i)) <= Cardinality(Invitees)
      BY <2>1 DEF AcceptancesAreCounted
    <3>4. Cardinality(Accepting(i)) \in Nat
      BY <2>1, AcceptingIsFinite
    <3>5. acceptances[i] + Cardinality(Accepting(i)') <= Cardinality(Invitees)
      BY <3>1, <3>2, <3>3, <3>4
    <3>. QED  BY <2>1, <3>1, <3>5 DEF AcceptancesAreCounted
  <2>. QED  BY <2>1, <2>2, <2>4, <2>5
<1>8. ASSUME NEW u \in Revokers, NEW i \in Invites, FindUnaccepted(u, i)
      PROVE  InviteIInv'
  <2>1. /\ revoking'[u] = i /\ invite[i].row = "row" /\ ~invite[i].accepted
        /\ \A w \in Revokers \ {u} : /\ revoking'[w] = revoking[w]
                                     /\ meanwhile'[w] = meanwhile[w]
        /\ \A v \in Invitees : meanwhile'[v] = meanwhile[v]
    BY <1>8 DEF FindUnaccepted, InviteTypeOK
  <2>2. AcceptancesAreCounted'
    BY <1>8, CountUnchanged DEF FindUnaccepted
  <2>3. InviteTypeOK'
    BY <1>8 DEF FindUnaccepted, InviteTypeOK
  <2>4. LookedUpAreRows' /\ ChangesAreNoted'
    BY <1>8, <2>1 DEF FindUnaccepted, LookedUpAreRows, ChangesAreNoted
  <2>. QED  BY <1>8, <2>2, <2>3, <2>4 DEF FindUnaccepted
<1>9. ASSUME NEW u \in Revokers, Revoke(u) PROVE InviteIInv'
  BY <1>9, RevokeKeepsIInv
<1>10. CASE UNCHANGED inviteVars
  <2>1. AcceptancesAreCounted'
    BY <1>10, CountUnchanged DEF inviteVars
  <2>. QED  BY <1>10, <2>1
           DEF inviteVars, InviteTypeOK, LookedUpAreRows, ChangesAreNoted
<1>. QED  BY <1>1, <1>2, <1>3, <1>4, <1>5, <1>6, <1>7, <1>8, <1>9, <1>10
         DEF InviteNext

LEMMA InviteIInvAlways == InviteSpec => []InviteIInv
BY InviteInitIInv, InviteStepKeepsIInv, PTL DEF InviteSpec

(* accept and revoke: whatever invitations of an address are issued, found *)
(* usable, accepted and revoked, in whatever order, a commit on one that   *)
(* was already consumed or revoked had looked before that, and the first   *)
(* acceptance decides password and role.                                   *)
THEOREM InvitationsAlwaysCountOnce == InviteSpec => InvitationsCountOnce
<1>1. InviteIInv => InviteTypeOK
  BY DEF InviteIInv
<1>2. ASSUME InviteIInv, [InviteNext]_inviteVars, NEW i \in Invites
      PROVE  /\ acceptances'[i] > acceptances[i] =>
                   \E v \in Invitees :
                       /\ accepting[v].of = i /\ accepting'[v].of # i
                       /\ invite[i].accepted => "accepted" \in meanwhile[v]
                       /\ invite[i].revoked => "revoked" \in meanwhile[v]
             /\ invite[i].accepted /\ ~invite[i].revoked /\ invite'[i].revoked =>
                   \E u \in Revokers : revoking[u] = i /\ revoking'[u] # i
                                       /\ "accepted" \in meanwhile[u]
  <2>. USE InvitationOptions DEF InviteIInv
  <2>0. InviteTypeOK /\ ChangesAreNoted
    BY <1>2
  <2>0a. acceptances[i] \in Nat
    BY <2>0, InviteesAreCountable DEF InviteTypeOK
  <2>1. CASE UNCHANGED <<invite, acceptances>>
    BY <2>0a, <2>1
  <2>2. ASSUME NEW j \in Invites,
               \/ ExpireInvite(j)
               \/ \E role \in OrgRoles : Issue(j, role)
        PROVE  /\ UNCHANGED acceptances
               /\ invite'[i].revoked => invite[i].revoked
    <3>1. ASSUME ExpireInvite(j) PROVE invite'[i].revoked => invite[i].revoked
      BY <2>0, <3>1 DEF ExpireInvite, InviteTypeOK
    <3>2. ASSUME NEW role \in OrgRoles, Issue(j, role)
          PROVE  invite'[i].revoked => invite[i].revoked
      BY <2>0, <3>2 DEF Issue, InviteTypeOK, NotIssued
    <3>. QED  BY <2>2, <3>1, <3>2 DEF ExpireInvite, Issue
  <2>3. ASSUME NEW v \in Invitees, CommitAccept(v)
        PROVE  /\ invite'[i].revoked => invite[i].revoked
               /\ acceptances'[i] > acceptances[i] =>
                     /\ accepting[v].of = i /\ accepting'[v].of # i
                     /\ invite[i].accepted => "accepted" \in meanwhile[v]
                     /\ invite[i].revoked => "revoked" \in meanwhile[v]
    <3>1. acceptances'[i] > acceptances[i] => accepting[v].of = i
      BY <2>0, <2>0a, <2>3 DEF CommitAccept, InviteTypeOK
    <3>2. accepting'[v].of = NoInvite
      BY <2>0, <2>3 DEF CommitAccept, InviteTypeOK, NotAccepting
    <3>3. invite'[i].revoked => invite[i].revoked
      BY <2>0, <2>3 DEF CommitAccept, InviteTypeOK
    <3>. QED  BY <2>0, <3>1, <3>2, <3>3 DEF ChangesAreNoted
  <2>4. ASSUME NEW u \in Revokers, Revoke(u)
        PROVE  /\ UNCHANGED acceptances
               /\ invite[i].accepted /\ ~invite[i].revoked /\ invite'[i].revoked =>
                     /\ revoking[u] = i /\ revoking'[u] # i
                     /\ "accepted" \in meanwhile[u]
    <3>1. ~invite[i].revoked /\ invite'[i].revoked => revoking[u] = i
      BY <2>0, <2>4 DEF Revoke, InviteTypeOK
    <3>2. revoking'[u] = NoInvite /\ UNCHANGED acceptances
      BY <2>0, <2>4 DEF Revoke, InviteTypeOK
    <3>. QED  BY <2>0, <3>1, <3>2 DEF ChangesAreNoted
  <2>5. CASE \/ FindNoMember
             \/ \E j \in Invites :
                   \/ \E v \in Invitees : FindUsable(v, j)
                   \/ \E u \in Revokers : FindUnaccepted(u, j)
             \/ \E v \in Invitees : BeginAccept(v) \/ AcceptLoses(v)
             \/ UNCHANGED inviteVars
    BY <2>1, <2>5 DEF FindNoMember, FindUsable, FindUnaccepted, BeginAccept,
       AcceptLoses, inviteVars
  <2>6. CASE \E j \in Invites : \/ ExpireInvite(j)
                                \/ \E role \in OrgRoles : Issue(j, role)
    BY <2>0a, <2>2, <2>6
  <2>7. CASE \E v \in Invitees : CommitAccept(v)
    BY <2>3, <2>7
  <2>8. CASE \E u \in Revokers : Revoke(u)
    BY <2>0a, <2>4, <2>8
  <2>. QED  BY <1>2, <2>5, <2>6, <2>7, <2>8 DEF InviteNext
<1>3. ASSUME InviteIInv, [InviteNext]_inviteVars
      PROVE  /\ membership # NoRole => membership' = membership
             /\ account # NoInvitee => account' = account
             /\ account # NoInvitee => membership # NoRole
  <2>. USE InvitationOptions DEF InviteIInv
  <2>1. ASSUME NEW v \in Invitees, CommitAccept(v)
        PROVE  /\ membership # NoRole => membership' = membership
               /\ account # NoInvitee => account' = account
    BY <2>1 DEF CommitAccept
  <2>2. CASE \E v \in Invitees : CommitAccept(v)
    BY <1>3, <2>1, <2>2
  <2>3. CASE UNCHANGED <<account, membership>>
    BY <1>3, <2>3
  <2>. QED  BY <1>3, <2>2, <2>3
           DEF InviteNext, FindNoMember, ExpireInvite, Issue, FindUsable,
               FindUnaccepted, BeginAccept, AcceptLoses, Revoke, inviteVars
<1>4. InviteSpec => []InviteTypeOK
  BY <1>1, InviteIInvAlways, PTL
<1>2a. InviteIInv /\ [InviteNext]_inviteVars =>
         [\A i \in Invites :
             /\ acceptances'[i] > acceptances[i] =>
                   \E v \in Invitees :
                       /\ accepting[v].of = i /\ accepting'[v].of # i
                       /\ invite[i].accepted => "accepted" \in meanwhile[v]
                       /\ invite[i].revoked => "revoked" \in meanwhile[v]
             /\ invite[i].accepted /\ ~invite[i].revoked /\ invite'[i].revoked =>
                   \E u \in Revokers : revoking[u] = i /\ revoking'[u] # i
                                       /\ "accepted" \in meanwhile[u]
         ]_inviteVars
  BY <1>2
<1>5. InviteSpec => StaleCommitsOverlap
  BY <1>2a, InviteIInvAlways, PTL DEF InviteSpec, StaleCommitsOverlap
<1>6. InviteSpec => FirstAcceptanceCounts
  BY <1>3, InviteIInvAlways, PTL DEF InviteSpec, FirstAcceptanceCounts
<1>. QED  BY <1>4, <1>5, <1>6 DEF InvitationsCountOnce
=============================================================================
