--------------------------- MODULE RouterOnboarding ---------------------------
(***************************************************************************)
(* The life of a managed (L2TP) router: create_onboarding, claim_onboarding *)
(* and expire_onboarding_downloads of services/onboarding_service.py,      *)
(* update_router and delete_router of services/router_service.py, and the  *)
(* calls they make to the provisioning agent (PeerRegistry).               *)
(*                                                                         *)
(* A step ends where the code waits for the agent, and between a read that *)
(* takes no lock and the commit that follows.  SQLAlchemy writes the       *)
(* columns that differ from what was read, and no others.                  *)
(***************************************************************************)

CONSTANTS
    Routers,         \* router rows, created or not; each has its own peer name
    Addresses,       \* the agent's address range
    Foreign,         \* addresses the operator has taken for other peers
    NoAddress        \* no address

ASSUME AddressAssumption == NoAddress \notin Addresses

VARIABLES
    router,   \* committed Router columns
    edited,   \* has an operator ever typed an address for this router?
    overdue,  \* is onboarding_token_expires_at past?
    onboard,  \* the request that creates the router
    claim,    \* does a claim hold the row lock?
    update,   \* the address an update that has read the row will write
    delete,   \* the request that deletes the router
    peers,    \* the agent: address of each peer
    call      \* the agent: calls

agentVars == <<peers, call>>
requestVars == <<onboard, claim, update, delete>>
vars == <<router, edited, overdue, requestVars, agentVars>>

(* Each router is provisioned, rolled back and revoked at most once.       *)
AgentCalls == Routers \X {"create", "rollback", "delete"}
Agent == INSTANCE PeerRegistry WITH Peers <- Routers, Calls <- AgentCalls
Reply(u) == call[<<u, "create">>]
Back(u) == call[<<u, "rollback">>]

RouterTypes == [status : {"none", "pending", "claimed", "deleted"},
                ip : Addresses \cup {NoAddress}, script : BOOLEAN]
LiveStatuses == {"pending", "claimed"}
Live(u) == router[u].status \in LiveStatuses

(* Only a claim holds a row lock while it waits.                           *)
RowFree(u) == ~claim[u]

Init ==
    /\ router = [u \in Routers |-> [status |-> "none", ip |-> NoAddress,
                                    script |-> FALSE]]
    /\ edited = [u \in Routers |-> FALSE]
    /\ overdue = [u \in Routers |-> FALSE]
    /\ onboard = [u \in Routers |-> "idle"]
    /\ claim = [u \in Routers |-> FALSE]
    /\ update = [u \in Routers |-> NoAddress]
    /\ delete = [u \in Routers |-> "idle"]
    /\ Agent!Init

-----------------------------------------------------------------------------
(* Operators whose comment says "Defect:" are plausible mistakes in the    *)
(* operator that follows them; no action uses them.                        *)

(* create_onboarding inserts the row, and asks the agent for a peer inside *)
(* the same transaction.                                                   *)
BeginOnboarding(u) ==
    /\ onboard[u] = "idle"
    /\ Agent!Send(<<u, "create">>, "create", u)
    /\ onboard' = [onboard EXCEPT ![u] = "waiting"]
    /\ UNCHANGED <<router, edited, overdue, claim, update, delete>>

(* Defect: an answer without an address is taken for success.              *)
AnyAnswer(u) == Reply(u).at = "answered"
Provisioned(u) == Reply(u).at = "answered" /\ Reply(u).got # NoAddress

PeerProvisioned(u) ==
    /\ onboard[u] = "waiting"
    /\ Provisioned(u)
    /\ onboard' = [onboard EXCEPT ![u] = "commit"]
    /\ UNCHANGED <<router, edited, overdue, claim, update, delete, agentVars>>

(* The agent refuses, or does not answer within the socket's timeout: the  *)
(* transaction is rolled back, and no revocation is asked for.             *)
(* Defect: the client waits for an answer however long it takes.           *)
NoTimeout(u) == Reply(u).at = "answered"
MayGiveUp(u) == Reply(u).at = "answered" => Reply(u).got = NoAddress

ProvisioningFails(u) ==
    /\ onboard[u] = "waiting"
    /\ MayGiveUp(u)
    /\ onboard' = [onboard EXCEPT ![u] = "done"]
    /\ UNCHANGED <<router, edited, overdue, claim, update, delete, agentVars>>

CommitOnboarding(u) ==
    /\ onboard[u] = "commit"
    /\ router' = [router EXCEPT ![u] = [status |-> "pending", ip |-> Reply(u).got,
                                        script |-> TRUE]]
    /\ onboard' = [onboard EXCEPT ![u] = "refresh"]
    /\ UNCHANGED <<edited, overdue, claim, update, delete, agentVars>>

(* An address outside the control network, a taken slug or the database    *)
(* fails the transaction; a connection that drops after the commit fails   *)
(* the refresh.  Either way the peer is revoked.                           *)
OnboardingFails(u) ==
    /\ onboard[u] = "commit" \/ onboard[u] = "refresh"
    /\ onboard' = [onboard EXCEPT ![u] = "undo"]
    /\ UNCHANGED <<router, edited, overdue, claim, update, delete, agentVars>>

UndoPeer(u) ==
    /\ onboard[u] = "undo"
    /\ Agent!Send(<<u, "rollback">>, "delete", u)
    /\ onboard' = [onboard EXCEPT ![u] = "done"]
    /\ UNCHANGED <<router, edited, overdue, claim, update, delete>>

(* The response carries the script and the tokens.                         *)
Respond(u) ==
    /\ onboard[u] = "refresh"
    /\ onboard' = [onboard EXCEPT ![u] = "answered"]
    /\ UNCHANGED <<router, edited, overdue, claim, update, delete, agentVars>>

-----------------------------------------------------------------------------
(* claim_onboarding: the router reports its tunnel address.  The row is    *)
(* found by its token, which deletion erases, and selected FOR UPDATE; the *)
(* claim of a claimed router changes nothing.                              *)

ClaimLock(u) ==
    /\ onboard[u] = "answered"
    /\ router[u].status = "pending" /\ ~overdue[u]
    /\ RowFree(u)
    /\ \E tunnel \in Addresses : router[u].ip = tunnel
    /\ claim' = [claim EXCEPT ![u] = TRUE]
    /\ UNCHANGED <<router, edited, overdue, onboard, update, delete, agentVars>>

ClaimCommit(u) ==
    /\ claim[u]
    /\ router' = [router EXCEPT ![u].status = "claimed", ![u].script = FALSE]
    /\ claim' = [claim EXCEPT ![u] = FALSE]
    /\ UNCHANGED <<edited, overdue, onboard, update, delete, agentVars>>

ClaimFails(u) ==
    /\ claim[u]
    /\ claim' = [claim EXCEPT ![u] = FALSE]
    /\ UNCHANGED <<router, edited, overdue, onboard, update, delete, agentVars>>

(* expire_onboarding_downloads: one UPDATE.                                *)
(* Defect: pending routers are left out.                                   *)
ExpirableClaimed(u) == overdue[u] /\ router[u].script /\ router[u].status = "claimed"
Expirable(u) == overdue[u] /\ router[u].script

ExpireDownloads ==
    /\ \E u \in Routers : Expirable(u)
    /\ \A u \in Routers : Expirable(u) => RowFree(u)
    /\ router' = [u \in Routers |->
                    IF Expirable(u) THEN [router[u] EXCEPT !.script = FALSE]
                                    ELSE router[u]]
    /\ UNCHANGED <<edited, overdue, requestVars, agentVars>>

-----------------------------------------------------------------------------
(* update_router, for the column that matters here: the address.  It is    *)
(* written if the request has one that differs from the one read.          *)

UpdateRead(u) ==
    /\ update[u] = NoAddress /\ Live(u)
    /\ \E ip \in Addresses \ {router[u].ip} : update' = [update EXCEPT ![u] = ip]
    /\ UNCHANGED <<router, edited, overdue, onboard, claim, delete, agentVars>>

UpdateCommit(u) ==
    /\ update[u] # NoAddress
    /\ RowFree(u)
    /\ router' = [router EXCEPT ![u].ip = update[u]]
    /\ edited' = [edited EXCEPT ![u] = TRUE]
    /\ update' = [update EXCEPT ![u] = NoAddress]
    /\ UNCHANGED <<overdue, onboard, claim, delete, agentVars>>

(* delete_router: retire the row, then revoke the peer as best it can.     *)
DeleteRead(u) ==
    /\ delete[u] = "idle" /\ Live(u)
    /\ delete' = [delete EXCEPT ![u] = "read"]
    /\ UNCHANGED <<router, edited, overdue, onboard, claim, update, agentVars>>

(* Defect: the claim reads the row without FOR UPDATE.                     *)
NoRowLock(u) == TRUE
MayDelete(u) == RowFree(u)

DeleteCommit(u) ==
    /\ delete[u] = "read"
    /\ MayDelete(u)
    /\ router' = [router EXCEPT ![u].status = "deleted", ![u].script = FALSE]
    /\ delete' = [delete EXCEPT ![u] = "revoke"]
    /\ UNCHANGED <<edited, overdue, onboard, claim, update, agentVars>>

(* Defect: the peer is revoked while the row is still to be retired.       *)
RevokeEarly(u) == delete[u] \in {"read", "revoke"}
MayRevoke(u) == delete[u] = "revoke"

DeleteRevoke(u) ==
    /\ MayRevoke(u)
    /\ Agent!Send(<<u, "delete">>, "delete", u)
    /\ delete' = [delete EXCEPT ![u] = "done"]
    /\ UNCHANGED <<router, edited, overdue, onboard, claim, update>>

-----------------------------------------------------------------------------
(* The agent, the clock, and processes that are killed.  Nothing obliges   *)
(* the agent: a lost call is one it never serves or never answers.  What   *)
(* it answers to a revocation, nobody reads.                               *)

AgentStep ==
    /\ \/ \E c \in AgentCalls : Agent!Effect(c)
       \/ \E u \in Routers : onboard[u] = "waiting" /\ Agent!Answer(<<u, "create">>)
    /\ UNCHANGED <<router, edited, overdue, requestVars>>

ClockPasses(u) ==
    /\ Live(u) /\ ~overdue[u]
    /\ overdue' = [overdue EXCEPT ![u] = TRUE]
    /\ UNCHANGED <<router, edited, requestVars, agentVars>>

CrashOnboarding(u) ==
    /\ onboard[u] \notin {"idle", "answered", "done"}
    /\ onboard' = [onboard EXCEPT ![u] = "done"]
    /\ UNCHANGED <<router, edited, overdue, claim, update, delete, agentVars>>

CrashDelete(u) ==
    /\ delete[u] \in {"read", "revoke"}
    /\ delete' = [delete EXCEPT ![u] = "done"]
    /\ UNCHANGED <<router, edited, overdue, onboard, claim, update, agentVars>>

-----------------------------------------------------------------------------
OnboardStep(u) ==
    \/ PeerProvisioned(u) \/ ProvisioningFails(u) \/ CommitOnboarding(u)
    \/ OnboardingFails(u) \/ UndoPeer(u) \/ Respond(u)

ClaimStep(u) == ClaimCommit(u) \/ ClaimFails(u)

Next ==
    \/ \E u \in Routers :
         \/ BeginOnboarding(u) \/ OnboardStep(u)
         \/ ClaimLock(u) \/ ClaimStep(u)
         \/ UpdateRead(u) \/ UpdateCommit(u)
         \/ DeleteRead(u) \/ DeleteCommit(u) \/ DeleteRevoke(u)
         \/ ClockPasses(u) \/ CrashOnboarding(u) \/ CrashDelete(u)
    \/ ExpireDownloads
    \/ AgentStep

Spec == Init /\ [][Next]_vars

(* Requests that have begun go on (the agent's socket has a timeout, so    *)
(* nothing is asked of the agent), and the jobs loop comes round: its      *)
(* UPDATE waits its turn for the row locks.                                *)
FairSpec ==
    /\ Spec
    /\ \A u \in Routers : WF_vars(OnboardStep(u)) /\ WF_vars(ClaimStep(u))
    /\ SF_vars(ExpireDownloads)

-----------------------------------------------------------------------------
(* The variables keep their types, and a live router has an address: the   *)
(* placeholder of the inserted row is never committed.                     *)
TypeOK ==
    /\ router \in [Routers -> RouterTypes]
    /\ \A u \in Routers : Live(u) => router[u].ip \in Addresses
    /\ edited \in [Routers -> BOOLEAN]
    /\ overdue \in [Routers -> BOOLEAN]
    /\ onboard \in [Routers -> {"idle", "waiting", "commit", "refresh", "undo",
                                "answered", "done"}]
    /\ claim \in [Routers -> BOOLEAN]
    /\ update \in [Routers -> Addresses \cup {NoAddress}]
    /\ delete \in [Routers -> {"idle", "read", "revoke", "done"}]
    /\ peers \in [Routers -> Addresses \cup {NoAddress}]
    /\ call \in [AgentCalls -> [at : Agent!CallStates, op : Agent!Ops,
                                peer : Routers \cup {NoAddress},
                                got : Addresses \cup {NoAddress}]]

(* The concentrator reserves the address of every live router for it, as   *)
(* long as no operator typed another: through failed, late and abandoned   *)
(* agent calls, rollbacks, killed requests and deletions.  The exception   *)
(* is a router whose onboarding failed after its commit: it has asked for  *)
(* the removal of the peer, and told the operator that there is no router. *)
Held(u) == Live(u) /\ ~edited[u] /\ Back(u).at = "unsent"

PeerHeld == \A u \in Routers : Held(u) => peers[u] = router[u].ip

(* So two live routers are never controlled at the same address.           *)
LiveRoutersApart ==
    \A u, v \in Routers :
      Held(u) /\ Held(v) /\ router[u].ip = router[v].ip => u = v

(* A deleted router does not come back, not even by a claim that was under *)
(* way when it was deleted.                                                *)
DeletedStaysDeleted ==
    [][\A u \in Routers : router[u].status = "deleted"
                            => router'[u].status = "deleted"]_vars

(* An onboarding request ends whatever the agent does.                     *)
OnboardingEnds ==
    \A u \in Routers : onboard[u] = "waiting" ~> onboard[u] \in {"answered", "done"}

(* The script, with its secrets, is erased once its window is over.        *)
ScriptsEnd == \A u \in Routers : overdue[u] ~> ~router[u].script

=============================================================================
