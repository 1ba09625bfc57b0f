----------------------------- MODULE MCIdentity -----------------------------
(***************************************************************************)
(* What proves who somebody is, for TLC: Sessions, Invitations and         *)
(* SingleUseTokens.  A behaviour is one of the part that its initial state *)
(* names.  Sessions are two parts: many tokens while the clock stands      *)
(* still, and fewer, of which a logout denies some, as it runs.            *)
(***************************************************************************)
EXTENDS Sessions, Invitations, SingleUseTokens, TLC

CONSTANT TokensDenied   \* bound: tokens issued while the clock runs

VARIABLE part

identityVars == <<part, vars, inviteVars, tokenVars>>

(* Names that may be exchanged.  Only one part moves, so that what         *)
(* exchanges two requests may exchange two invitees and two pods as well.  *)
InPlaceOf(S) == CHOOSE f \in [Clients -> S] : {f[c] : c \in Clients} = S

Likewise(p, S) ==
    LET f == InPlaceOf(S)
    IN  [x \in S |-> f[p[CHOOSE c \in Clients : f[c] = x]]]

Interchangeable ==
    {p @@ Likewise(p, Invitees) @@ Likewise(p, Pods) :
        p \in Permutations(Clients)}
    \cup Permutations(Tokens)

IdentityInit ==
    /\ part \in {"families", "denials", "invitations", "single use"}
    /\ Init /\ InviteInit /\ TokenInit

OthersRest ==
    /\ part' = part
    /\ part \notin {"families", "denials"} => UNCHANGED vars
    /\ part # "invitations" => UNCHANGED inviteVars
    /\ part # "single use" => UNCHANGED tokenVars

Issued == {t \in Tokens : state[t] # "unused"}

IdentityNext ==
    /\ OthersRest
    /\ \/ part = "families" /\ Next /\ now' = now
       \/ /\ part = "denials" /\ Next
          /\ Cardinality(Issued') <= TokensDenied
       \/ part = "invitations" /\ InviteNext
       \/ part = "single use" /\ TokenNext

IdentitySpec == IdentityInit /\ [][IdentityNext]_identityVars
=============================================================================
