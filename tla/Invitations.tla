---------------------------- MODULE Invitations -----------------------------
(***************************************************************************)
(* Inviting people: an invitation carries an address and the hash of the   *)
(* link last made for it, accepting a link creates the account, and an     *)
(* admin may send a new link or cancel.  Accepting reads the invitation    *)
(* outside the transaction that creates the account.                       *)
(***************************************************************************)
EXTENDS Naturals

CONSTANTS
    Invites,     \* invitations
    Emails,      \* addresses
    Accepts,     \* accept requests served at the same time
    None,
    MaxLinks     \* bound: links made per invitation

ASSUME InvitationsAssumption == None \notin Emails \cup Invites /\ MaxLinks \in Nat \ {0}

Links == 1..MaxLinks

VARIABLES
    invite,      \* invitations: state, address and the number of the current link
    sent,        \* links an e-mail has carried
    users,       \* accounts: address, and the invitation and the link that made them
    accept       \* what each accept request has read

inviteVars == <<invite, sent, users, accept>>

NoInvite == [state |-> "none", email |-> None, link |-> 0]
NoAccept == [invite |-> None, email |-> None, link |-> 0]

InviteTypeOK ==
    /\ invite \in [Invites -> [state : {"none", "pending", "expired", "accepted",
                                        "cancelled"},
                               email : Emails \cup {None}, link : 0..MaxLinks]]
    /\ sent \in SUBSET (Invites \X Links)
    /\ users \in SUBSET [email : Emails, by : Invites, link : Links]
    /\ accept \in [Accepts -> [invite : Invites \cup {None}, email : Emails \cup {None},
                               link : 0..MaxLinks]]
    /\ \A u, v \in users : u.email = v.email => u = v

InviteInit ==
    /\ invite = [i \in Invites |-> NoInvite] /\ sent = {}
    /\ users = {} /\ accept = [p \in Accepts |-> NoAccept]

(* sendInvite comes after the row is written and may fail.                  *)
SendInvite(i, n) == sent' = sent \cup {<<i, n>>} \/ UNCHANGED sent

CreateInvitation(i, e) ==
    /\ invite[i] = NoInvite
    /\ invite' = [invite EXCEPT ![i] = [state |-> "pending", email |-> e, link |-> 1]]
    /\ SendInvite(i, 1)
    /\ UNCHANGED <<users, accept>>

(* RefreshInvitationToken: a new link and a new expiry, unless accepted.    *)
ResendInvitation(i) ==
    /\ invite[i].state \in {"pending", "expired"} /\ invite[i].link < MaxLinks
    /\ invite' = [invite EXCEPT ![i] = [state |-> "pending", email |-> invite[i].email,
                                        link |-> invite[i].link + 1]]
    /\ SendInvite(i, invite[i].link + 1)
    /\ UNCHANGED <<users, accept>>

CancelInvitation(i) ==
    /\ invite[i].state \in {"pending", "expired"}
    /\ invite' = [invite EXCEPT ![i].state = "cancelled"]
    /\ UNCHANGED <<sent, users, accept>>

Expire(i) ==
    /\ invite[i].state = "pending"
    /\ invite' = [invite EXCEPT ![i].state = "expired"]
    /\ UNCHANGED <<sent, users, accept>>

(* acceptInvitation looks the link up ...                                   *)
GetInvitationByTokenHash(p, i, n) ==
    /\ accept[p] = NoAccept /\ <<i, n>> \in sent
    /\ invite[i].state = "pending" /\ invite[i].link = n
    /\ accept' = [accept EXCEPT ![p] = [invite |-> i, email |-> invite[i].email,
                                        link |-> n]]
    /\ UNCHANGED <<invite, sent, users>>

(* ... and then creates the user, whose address is unique, the identity,    *)
(* and marks the invitation by its id, which may match no row by now.       *)
AnyAddress(e) == TRUE

AddressFree(e) == \A u \in users : u.email # e

AcceptInvitation(p) ==
    LET a == accept[p] IN
    /\ a # NoAccept
    /\ IF AddressFree(a.email)
       THEN /\ users' = users \cup {[email |-> a.email, by |-> a.invite,
                                      link |-> a.link]}
            /\ invite' = [invite EXCEPT ![a.invite].state =
                            IF @ = "cancelled" THEN @ ELSE "accepted"]
       ELSE UNCHANGED <<users, invite>>
    /\ accept' = [accept EXCEPT ![p] = NoAccept]
    /\ UNCHANGED sent

(* The transaction fails or the request ends.                               *)
GiveUp(p) ==
    /\ accept[p] # NoAccept /\ accept' = [accept EXCEPT ![p] = NoAccept]
    /\ UNCHANGED <<invite, sent, users>>

InviteNext ==
    \/ \E i \in Invites, e \in Emails : CreateInvitation(i, e)
    \/ \E i \in Invites : ResendInvitation(i) \/ CancelInvitation(i) \/ Expire(i)
    \/ \E p \in Accepts, i \in Invites, n \in Links : GetInvitationByTokenHash(p, i, n)
    \/ \E p \in Accepts : AcceptInvitation(p) \/ GiveUp(p)

InviteSpec == InviteInit /\ [][InviteNext]_inviteVars

(* The account, its identity and the mark on the invitation are one         *)
(* transaction: an accepted invitation has exactly one account made from    *)
(* it, and an invitation that made one is accepted, or was cancelled while  *)
(* the request was being served.  Two links of one invitation, or two       *)
(* requests with one link, never make two.                                  *)
(* The variables keep their types.                                          *)
AcceptedMadeOne ==
    /\ InviteTypeOK
    /\ \A i \in Invites :
        LET from == {u \in users : u.by = i} IN
        /\ \A u, v \in from : u = v
        /\ invite[i].state = "accepted" => from # {}
        /\ from # {} => invite[i].state \in {"accepted", "cancelled"}
=============================================================================
