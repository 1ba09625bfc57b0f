------------------------------ MODULE Invitations ------------------------------
(***************************************************************************)
(* Invitations of one e-mail address into one organization, the user and   *)
(* the membership they lead to.                                            *)
(*                                                                         *)
(* An invitation is looked up before the transaction that consumes it, the *)
(* password is hashed in between.  Transactions run under READ COMMITTED;  *)
(* the address is unique among users.  The sign-in that follows is in      *)
(* Sessions; that an account may be deleted is left out.                   *)
(***************************************************************************)
EXTENDS Naturals, FiniteSets

CONSTANTS
    Invites,            \* rows of user_invitations
    OrgRoles,
    NoRole,
    Invitees,           \* POST /auth/invitations/:token/accept
    Revokers,           \* DELETE /users/invitations/:id
    NoInvite,
    NoInvitee

ASSUME InvitationOptions ==
    /\ NoRole \notin OrgRoles /\ NoInvite \notin Invites
    /\ NoInvitee \notin Invitees /\ Invitees \cap Revokers = {}
    /\ IsFiniteSet(Invitees)

VARIABLES
    invite,             \* per invitation: its row
    issuing,            \* an admin's request that found no membership
    account,            \* the user row: whose password it has
    membership,         \* its role in the organization
    accepting,          \* per invitee: the invitation found usable, and how
                        \* far the transaction is
    revoking,           \* per revoker: the invitation found not accepted
    acceptances,        \* history: per invitation, the transactions that
                        \* consumed it
    meanwhile           \* history: per invitee and revoker, what happened to
                        \* its invitation since it was looked up

inviteVars == <<invite, issuing, account, membership, accepting, revoking,
                acceptances, meanwhile>>

InviteTypeOK ==
    /\ invite \in [Invites ->
                      [row : {"none", "row"}, role : OrgRoles \cup {NoRole},
                       accepted : BOOLEAN, revoked : BOOLEAN,
                       expired : BOOLEAN]]
    /\ issuing \in BOOLEAN
    /\ account \in Invitees \cup {NoInvitee}
    /\ membership \in OrgRoles \cup {NoRole}
    /\ accepting \in [Invitees -> [of : Invites \cup {NoInvite},
                                   newUser : BOOLEAN,
                                   begun : BOOLEAN]]
    /\ revoking \in [Revokers -> Invites \cup {NoInvite}]
    /\ acceptances \in [Invites -> 0 .. Cardinality(Invitees)]
    /\ meanwhile \in [Invitees \cup Revokers -> SUBSET {"accepted", "revoked"}]

NotIssued == [row |-> "none", role |-> NoRole, accepted |-> FALSE,
              revoked |-> FALSE, expired |-> FALSE]
NotAccepting == [of |-> NoInvite, newUser |-> FALSE, begun |-> FALSE]

InviteInit ==
    /\ invite = [i \in Invites |-> NotIssued]
    /\ issuing = FALSE
    /\ account = NoInvitee
    /\ membership = NoRole
    /\ accepting = [v \in Invitees |-> NotAccepting]
    /\ revoking = [u \in Revokers |-> NoInvite]
    /\ acceptances = [i \in Invites |-> 0]
    /\ meanwhile = [c \in Invitees \cup Revokers |-> {}]

(* What a transaction does to an invitation is noted for all who have      *)
(* looked it up and not come to an end.                                    *)
LookedUp(i) == {v \in Invitees : accepting[v].of = i}
               \cup {u \in Revokers : revoking[u] = i}
Note(i, what) ==
    meanwhile' = [c \in Invitees \cup Revokers |->
                     IF c \in LookedUp(i) THEN meanwhile[c] \cup {what}
                     ELSE meanwhile[c]]

-----------------------------------------------------------------------------
(* issue                                                                   *)

FindNoMember ==
    /\ ~issuing /\ membership = NoRole
    /\ issuing' = TRUE
    /\ UNCHANGED <<invite, account, membership, accepting, revoking,
                   acceptances, meanwhile>>

Issue(i, role) ==
    /\ issuing /\ invite[i] = NotIssued
    /\ invite' = [invite EXCEPT ![i] = [NotIssued EXCEPT !.row = "row",
                                                         !.role = role]]
    /\ issuing' = FALSE
    /\ UNCHANGED <<account, membership, accepting, revoking, acceptances,
                   meanwhile>>

ExpireInvite(i) ==
    /\ invite[i].row = "row" /\ ~invite[i].expired
    /\ invite' = [invite EXCEPT ![i].expired = TRUE]
    /\ UNCHANGED <<issuing, account, membership, accepting, revoking,
                   acceptances, meanwhile>>

-----------------------------------------------------------------------------
(* accept                                                                  *)

(* Defect: acceptedAt is not looked at.                                    *)
FindUsableTwice(v, i) ==
    /\ accepting[v] = NotAccepting
    /\ invite[i].row = "row" /\ ~invite[i].revoked /\ ~invite[i].expired
    /\ accepting' = [accepting EXCEPT ![v].of = i]
    /\ meanwhile' = [meanwhile EXCEPT ![v] = {}]
    /\ UNCHANGED <<invite, issuing, account, membership, revoking,
                   acceptances>>

(* findUsable                                                              *)
FindUsable(v, i) ==
    /\ accepting[v] = NotAccepting
    /\ invite[i].row = "row"
    /\ ~invite[i].accepted /\ ~invite[i].revoked /\ ~invite[i].expired
    /\ accepting' = [accepting EXCEPT ![v].of = i]
    /\ meanwhile' = [meanwhile EXCEPT ![v] = {}]
    /\ UNCHANGED <<invite, issuing, account, membership, revoking,
                   acceptances>>

(* The transaction looks for the user.                                     *)
BeginAccept(v) ==
    /\ accepting[v].of # NoInvite /\ ~accepting[v].begun
    /\ accepting' = [accepting EXCEPT ![v].begun = TRUE,
                                      ![v].newUser = (account = NoInvitee)]
    /\ UNCHANGED <<invite, issuing, account, membership, revoking,
                   acceptances, meanwhile>>

(* Defect: the role of the invitation replaces that of the member.         *)
CommitAcceptReplacing(v) ==
    LET i == accepting[v].of IN
    /\ accepting[v].begun
    /\ accepting[v].newUser => account = NoInvitee
    /\ account' = IF accepting[v].newUser THEN v ELSE account
    /\ membership' = invite[i].role
    /\ invite' = [invite EXCEPT ![i].accepted = TRUE]
    /\ acceptances' = [acceptances EXCEPT ![i] = @ + 1]
    /\ Note(i, "accepted")
    /\ accepting' = [accepting EXCEPT ![v] = NotAccepting]
    /\ UNCHANGED <<issuing, revoking>>

(* A user is created, with this password, unless there is one; a           *)
(* membership unless there is one; the invitation is consumed, whatever    *)
(* has become of it.                                                       *)
CommitAccept(v) ==
    LET i == accepting[v].of IN
    /\ accepting[v].begun
    /\ accepting[v].newUser => account = NoInvitee
    /\ account' = IF accepting[v].newUser THEN v ELSE account
    /\ membership' = IF membership = NoRole THEN invite[i].role ELSE membership
    /\ invite' = [invite EXCEPT ![i].accepted = TRUE]
    /\ acceptances' = [acceptances EXCEPT ![i] = @ + 1]
    /\ Note(i, "accepted")
    /\ accepting' = [accepting EXCEPT ![v] = NotAccepting]
    /\ UNCHANGED <<issuing, revoking>>

(* The address is taken by now: the unique violation rolls all of it back. *)
AcceptLoses(v) ==
    /\ accepting[v].begun
    /\ accepting[v].newUser /\ account # NoInvitee
    /\ accepting' = [accepting EXCEPT ![v] = NotAccepting]
    /\ UNCHANGED <<invite, issuing, account, membership, revoking,
                   acceptances, meanwhile>>

-----------------------------------------------------------------------------
(* revoke                                                                  *)

(* Defect: acceptedAt is not looked at.                                    *)
FindAnyInvite(u, i) ==
    /\ revoking[u] = NoInvite
    /\ invite[i].row = "row"
    /\ revoking' = [revoking EXCEPT ![u] = i]
    /\ meanwhile' = [meanwhile EXCEPT ![u] = {}]
    /\ UNCHANGED <<invite, issuing, account, membership, accepting,
                   acceptances>>

FindUnaccepted(u, i) ==
    /\ revoking[u] = NoInvite
    /\ invite[i].row = "row" /\ ~invite[i].accepted
    /\ revoking' = [revoking EXCEPT ![u] = i]
    /\ meanwhile' = [meanwhile EXCEPT ![u] = {}]
    /\ UNCHANGED <<invite, issuing, account, membership, accepting,
                   acceptances>>

Revoke(u) ==
    LET i == revoking[u] IN
    /\ i # NoInvite
    /\ invite' = [invite EXCEPT ![i].revoked = TRUE]
    /\ Note(i, "revoked")
    /\ revoking' = [revoking EXCEPT ![u] = NoInvite]
    /\ UNCHANGED <<issuing, account, membership, accepting, acceptances>>

-----------------------------------------------------------------------------

InviteNext ==
    \/ FindNoMember
    \/ \E i \in Invites :
          \/ ExpireInvite(i)
          \/ \E role \in OrgRoles : Issue(i, role)
          \/ \E v \in Invitees : FindUsable(v, i)
          \/ \E u \in Revokers : FindUnaccepted(u, i)
    \/ \E v \in Invitees : BeginAccept(v) \/ CommitAccept(v) \/ AcceptLoses(v)
    \/ \E u \in Revokers : Revoke(u)

InviteSpec == InviteInit /\ [][InviteNext]_inviteVars

-----------------------------------------------------------------------------
(* Properties                                                              *)

(* An acceptance or a revocation commits on an invitation that is already  *)
(* consumed or revoked only where it had looked before that happened.      *)
StaleCommitsOverlap ==
    [][\A i \in Invites :
          /\ acceptances'[i] > acceptances[i] =>
                \E v \in Invitees :
                    /\ accepting[v].of = i /\ accepting'[v].of # i
                    /\ invite[i].accepted => "accepted" \in meanwhile[v]
                    /\ invite[i].revoked => "revoked" \in meanwhile[v]
          /\ invite[i].accepted /\ ~invite[i].revoked /\ invite'[i].revoked =>
                \E u \in Revokers : revoking[u] = i /\ revoking'[u] # i
                                    /\ "accepted" \in meanwhile[u]
      ]_inviteVars

(* Whatever invitations of the address are accepted, in whatever order:    *)
(* the member keeps the role and the user the password of the first one.   *)
FirstAcceptanceCounts ==
    [][/\ membership # NoRole => membership' = membership
       /\ account # NoInvitee => account' = account
       /\ account # NoInvitee => membership # NoRole]_inviteVars

(* Invitations are single-use in what they do: see the two parts.          *)
InvitationsCountOnce ==
    []InviteTypeOK /\ StaleCommitsOverlap /\ FirstAcceptanceCounts
=============================================================================
