------------------------------- MODULE Access -------------------------------
(***************************************************************************)
(* Who may call: ClientRepository and CredentialService                    *)
(* (src/control-plane/clients.ts, credentials.ts) and the administrator's  *)
(* routes to them (src/server/admin-routes.ts).  Each operation is one     *)
(* synchronous transaction.  A client never comes back; the name of a      *)
(* credential whose row is gone may stand for a new one.  Deleting a       *)
(* client takes other tables with it, which the module that composes       *)
(* Access does.                                                            *)
(***************************************************************************)
EXTENDS Naturals, FiniteSets

CONSTANTS
  Clients,
  Credentials,
  Nobody,      \* neither a client nor a credential
  MaxActs      \* bound: what administrators do in a behaviour

ASSUME AccessAssumption == MaxActs \in Nat /\ Nobody \notin Clients \cup Credentials

VARIABLES
  clients,      \* status of each: "unborn" and "deleted" ones have no row
  credentials,  \* the row of each, or Unissued
  acts

accessVars == <<clients, credentials, acts>>

Unissued == [client |-> Nobody, revoked |-> FALSE, expired |-> FALSE, from |-> Nobody]

Credential ==
  [client : Clients, revoked : BOOLEAN, expired : BOOLEAN, from : Credentials \cup {Nobody}]
    \cup {Unissued}

HasRow(c) == clients[c] \in {"active", "disabled"}

\* A gateway that has been set up for one client.
AccessInit ==
  \E c \in Clients, r \in Credentials :
    /\ clients = [d \in Clients |-> IF d = c THEN "active" ELSE "unborn"]
    /\ credentials = [s \in Credentials |->
         IF s = r THEN [Unissued EXCEPT !.client = c] ELSE Unissued]
    /\ acts = 0

\* authenticate(): the row is read, and its use recorded, in one step.
Authenticates(r) ==
  /\ credentials[r] # Unissued
  /\ clients[credentials[r].client] = "active"
  /\ ~credentials[r].revoked /\ ~credentials[r].expired

Acts == acts < MaxActs /\ acts' = acts + 1

Issued(c, from) == [Unissued EXCEPT !.client = c, !.from = from]

\* The client alone, or with its first credential in the same transaction.
CreateClient(c) ==
  /\ clients[c] = "unborn" /\ Acts
  /\ clients' = [clients EXCEPT ![c] = "active"]
  /\ \/ UNCHANGED credentials
     \/ \E r \in Credentials :
          /\ credentials[r] = Unissued
          /\ credentials' = [credentials EXCEPT ![r] = Issued(c, Nobody)]

SetStatus(c, status) ==
  /\ HasRow(c) /\ status # clients[c] /\ Acts
  /\ clients' = [clients EXCEPT ![c] = status]
  /\ UNCHANGED credentials

\* The credentials go with their client: ON DELETE CASCADE.
Dismiss(c) ==
  /\ HasRow(c) /\ Acts
  /\ clients' = [clients EXCEPT ![c] = "deleted"]
  /\ credentials' = [r \in Credentials |->
       IF credentials[r].client = c THEN Unissued ELSE credentials[r]]

CreateCredential(c, r) ==
  /\ HasRow(c) /\ credentials[r] = Unissued /\ Acts
  /\ credentials' = [credentials EXCEPT ![r] = Issued(c, Nobody)]
  /\ UNCHANGED clients

Revoke(r) ==
  /\ credentials[r] # Unissued /\ ~credentials[r].revoked /\ Acts
  /\ credentials' = [credentials EXCEPT ![r].revoked = TRUE]
  /\ UNCHANGED clients

\* An expired credential can still be rotated, a revoked one cannot.
Rotate(r, s) ==
  /\ credentials[r] # Unissued /\ credentials[s] = Unissued /\ Acts
  /\ ~credentials[r].revoked
  /\ credentials' = [credentials EXCEPT ![r].revoked = TRUE,
                                        ![s] = Issued(credentials[r].client, r)]
  /\ UNCHANGED clients

\* The clock passes expires_at.
Expire(r) ==
  /\ credentials[r] # Unissued /\ ~credentials[r].expired
  /\ credentials' = [credentials EXCEPT ![r].expired = TRUE]
  /\ Acts
  /\ UNCHANGED clients

Administer ==
  \/ \E c \in Clients, r \in Credentials : CreateCredential(c, r)
  \/ \E c \in Clients : CreateClient(c) \/ \E s \in {"active", "disabled"} : SetStatus(c, s)
  \/ \E r \in Credentials : Revoke(r) \/ Expire(r) \/ \E s \in Credentials : Rotate(r, s)

AccessOK ==
  /\ clients \in [Clients -> {"unborn", "active", "disabled", "deleted"}]
  /\ credentials \in [Credentials -> Credential]
  /\ acts \in 0..MaxActs
=============================================================================
