------------------------ MODULE RouterOnboardingProofs ------------------------
(***************************************************************************)
(* What holds of RouterOnboarding for any routers and addresses, composed  *)
(* with the promise of the agent (PeerRegistry).                           *)
(***************************************************************************)
EXTENDS RouterOnboarding, TLAPS

Gone(u) == call[<<u, "delete">>]
Calling == [at : Agent!CallStates, op : Agent!Ops, peer : Routers \cup {NoAddress},
            got : Addresses \cup {NoAddress}]

(* What a call of a router is for, once it is sent.                        *)
Meant(u) ==
    /\ Reply(u).at # "unsent" => Reply(u).op = "create" /\ Reply(u).peer = u
    /\ Back(u).at # "unsent" => Back(u).op = "delete" /\ Back(u).peer = u
    /\ Gone(u).at # "unsent" => Gone(u).op = "delete" /\ Gone(u).peer = u

(* How far the requests are, and what they have made of the row.           *)
Phases(u) ==
    /\ onboard[u] = "idle" => Reply(u).at = "unsent"
    /\ onboard[u] \in {"idle", "waiting", "commit"} => router[u].status = "none"
    /\ onboard[u] = "commit" => Provisioned(u)
    /\ claim[u] => router[u].status = "pending"
    /\ delete[u] # "idle" => router[u].status # "none"
    /\ delete[u] = "revoke" => router[u].status = "deleted"
    /\ Gone(u).at # "unsent" => router[u].status = "deleted"
    /\ Back(u).at # "unsent" => onboard[u] = "done"

(* A live router has the address it was provisioned with, and the registry *)
(* holds that address until somebody asks for its removal.                 *)
Holds(u) ==
    /\ Live(u) => Provisioned(u)
    /\ Live(u) /\ ~edited[u] => router[u].ip = Reply(u).got
    /\ /\ Reply(u).at \in {"settled", "answered"} /\ Reply(u).got # NoAddress
       /\ Back(u).at = "unsent" /\ Gone(u).at = "unsent"
       => peers[u] = Reply(u).got

Good(u) == Meant(u) /\ Phases(u) /\ Holds(u)

Apart == \A u, v \in Routers : peers[u] # NoAddress /\ peers[u] = peers[v] => u = v

Inv == TypeOK /\ Apart /\ \A u \in Routers : Good(u)

-----------------------------------------------------------------------------
LEMMA CallNames ==
  ASSUME NEW u \in Routers, NEW k \in {"create", "rollback", "delete"}
  PROVE  /\ <<u, k>> \in AgentCalls
         /\ \A v, j : <<v, j>> = <<u, k>> => v = u /\ j = k
  BY DEF AgentCalls

LEMMA CallsTyped ==
  ASSUME TypeOK
  PROVE  /\ call \in [AgentCalls -> Calling]
         /\ \A c \in AgentCalls : call[c] \in Calling
         /\ \A u \in Routers : /\ Reply(u) \in Calling /\ Back(u) \in Calling /\ Gone(u) \in Calling
                               /\ Reply(u).got \in Addresses \cup {NoAddress}
  BY CallNames DEF TypeOK, Calling, Reply, Back, Gone

LEMMA InvInit == Init => Inv
  <1> SUFFICES ASSUME Init PROVE Inv
    OBVIOUS
  <1>1. \A c \in AgentCalls : call[c] = [at |-> "unsent", op |-> "create", peer |-> NoAddress,
                                          got |-> NoAddress]
    BY DEF Init, Agent!Init, Agent!Unsent
  <1>2. \A u \in Routers : Reply(u).at = "unsent" /\ Back(u).at = "unsent" /\ Gone(u).at = "unsent"
    <2> SUFFICES ASSUME NEW u \in Routers
                 PROVE  Reply(u).at = "unsent" /\ Back(u).at = "unsent" /\ Gone(u).at = "unsent"
      OBVIOUS
    <2>1. <<u, "create">> \in AgentCalls /\ <<u, "rollback">> \in AgentCalls
          /\ <<u, "delete">> \in AgentCalls
      BY CallNames
    <2> QED BY <1>1, <2>1 DEF Reply, Back, Gone
  <1>3. \A u \in Routers : /\ router[u].status = "none" /\ ~claim[u] /\ delete[u] = "idle"
                           /\ onboard[u] = "idle" /\ peers[u] = NoAddress
    BY DEF Init, Agent!Init
  <1>4. Apart
    BY <1>3 DEF Apart
  <1>5. \A u \in Routers : Good(u)
    BY <1>2, <1>3 DEF Good, Meant, Phases, Holds, Live, LiveStatuses
  <1>6. call \in [AgentCalls -> Calling]
    <2>1. [at |-> "unsent", op |-> "create", peer |-> NoAddress, got |-> NoAddress] \in Calling
      BY DEF Calling, Agent!CallStates, Agent!Ops
    <2>2. call = [c \in AgentCalls |-> [at |-> "unsent", op |-> "create", peer |-> NoAddress,
                                        got |-> NoAddress]]
      BY DEF Init, Agent!Init, Agent!Unsent
    <2> QED BY <2>1, <2>2
  <1>7. router \in [Routers -> RouterTypes]
    <2>1. [status |-> "none", ip |-> NoAddress, script |-> FALSE] \in RouterTypes
      BY DEF RouterTypes
    <2> QED BY <2>1 DEF Init
  <1>8. TypeOK
    BY <1>3, <1>6, <1>7 DEF TypeOK, Calling, Init, Agent!Init, Live, LiveStatuses
  <1> QED BY <1>4, <1>5, <1>8 DEF Inv

-----------------------------------------------------------------------------
(* Steps that change the rows and requests of one router, and no peer.     *)
Untouched(u) ==
    /\ router'[u] = router[u] /\ edited'[u] = edited[u] /\ onboard'[u] = onboard[u]
    /\ claim'[u] = claim[u] /\ delete'[u] = delete[u]

LEMMA OthersKept ==
  ASSUME Inv, NEW u \in Routers, Untouched(u), peers'[u] = peers[u],
         \A k \in {"create", "rollback", "delete"} : call'[<<u, k>>] = call[<<u, k>>]
  PROVE  Good(u)'
  <1>1. Reply(u)' = Reply(u) /\ Back(u)' = Back(u) /\ Gone(u)' = Gone(u)
    BY DEF Reply, Back, Gone
  <1>2. Good(u)
    BY DEF Inv
  <1>3. Meant(u)'
    BY <1>1, <1>2 DEF Good, Meant
  <1>4. Phases(u)'
    BY <1>1, <1>2 DEF Good, Phases, Provisioned, Untouched
  <1>5. Holds(u)'
    BY <1>1, <1>2 DEF Good, Holds, Provisioned, Untouched, Live
  <1> QED BY <1>3, <1>4, <1>5 DEF Good

LEMMA LocalStep ==
  ASSUME Inv, NEW w \in Routers, UNCHANGED agentVars,
         \A u \in Routers : u # w => Untouched(u),
         TypeOK', Phases(w)', Live(w)' => Provisioned(w),
         Live(w)' /\ ~edited'[w] => router'[w].ip = Reply(w).got
  PROVE  Inv'
  <1>1. /\ peers' = peers /\ call' = call
        /\ \A u \in Routers : /\ Reply(u)' = Reply(u) /\ Back(u)' = Back(u) /\ Gone(u)' = Gone(u)
                              /\ Provisioned(u)' = Provisioned(u)
    BY DEF agentVars, Reply, Back, Gone, Provisioned
  <1>2. Apart'
    BY <1>1 DEF Inv, Apart
  <1>3. Good(w)
    BY DEF Inv
  <1>4. Meant(w)'
    BY <1>1, <1>3 DEF Good, Meant
  <1>5. Holds(w)'
    BY <1>1, <1>3 DEF Good, Holds
  <1>6. \A u \in Routers : Good(u)'
    BY <1>1, <1>4, <1>5, OthersKept DEF Good
  <1> QED BY <1>2, <1>6 DEF Inv

(* What is known of the router of a step.                                  *)
LEMMA Known ==
  ASSUME Inv, NEW u \in Routers
  PROVE  /\ router[u] \in RouterTypes /\ router \in [Routers -> RouterTypes]
         /\ Live(u) => router[u].ip \in Addresses
         /\ update[u] \in Addresses \cup {NoAddress}
         /\ Phases(u) /\ Holds(u) /\ Meant(u)
  BY DEF Inv, TypeOK, Good

LEMMA OnboardOnly ==
  ASSUME Inv, NEW u \in Routers,
         \/ PeerProvisioned(u) \/ ProvisioningFails(u) \/ OnboardingFails(u)
         \/ Respond(u) \/ CrashOnboarding(u)
  PROVE  Inv'
  <1>1. PICK o \in {"commit", "done", "undo", "answered"} :
           /\ onboard' = [onboard EXCEPT ![u] = o]
           /\ o = "commit" => Provisioned(u) /\ onboard[u] = "waiting"
           /\ onboard[u] # "done"
           /\ UNCHANGED <<router, edited, overdue, claim, update, delete, agentVars>>
    BY DEF PeerProvisioned, ProvisioningFails, OnboardingFails, Respond, CrashOnboarding
  <1>2. TypeOK'
    BY <1>1 DEF Inv, TypeOK, agentVars, Live
  <1>3. /\ onboard'[u] = o /\ \A v \in Routers : v # u => onboard'[v] = onboard[v]
        /\ UNCHANGED <<router, edited, claim, delete, peers, call>>
    BY <1>1 DEF Inv, TypeOK, agentVars
  <1>4. Phases(u)'
    BY <1>1, <1>3, Known DEF Phases, Provisioned, Reply, Back, Gone
  <1>5. (Live(u)' => Provisioned(u)) /\ (Live(u)' /\ ~edited'[u] => router'[u].ip = Reply(u).got)
    BY <1>3, Known DEF Holds, Live
  <1>6. \A v \in Routers : v # u => Untouched(v)
    BY <1>3 DEF Untouched
  <1> QED BY <1>1, <1>2, <1>4, <1>5, <1>6, LocalStep

(* Steps that write the row of a router.                                   *)
LEMMA RowTyped ==
  ASSUME Inv, NEW u \in Routers, NEW r \in RouterTypes, router' = [router EXCEPT ![u] = r],
         r.status \in LiveStatuses => r.ip \in Addresses,
         edited' \in [Routers -> BOOLEAN],
         onboard' = onboard \/ onboard' = [onboard EXCEPT ![u] = "refresh"],
         claim' \in [Routers -> BOOLEAN],
         update' \in [Routers -> Addresses \cup {NoAddress}],
         delete' \in [Routers -> {"idle", "read", "revoke", "done"}],
         UNCHANGED <<overdue, agentVars>>
  PROVE  TypeOK'
  <1>1. /\ router' \in [Routers -> RouterTypes] /\ router'[u] = r
        /\ \A v \in Routers : v # u => router'[v] = router[v]
    BY Known
  <1>2. \A v \in Routers : Live(v)' => router'[v].ip \in Addresses
    BY <1>1, Known DEF Live
  <1> QED BY <1>1, <1>2 DEF Inv, TypeOK, agentVars

LEMMA CommitStep ==
  ASSUME Inv, NEW u \in Routers, CommitOnboarding(u)
  PROVE  Inv'
  <1> DEFINE r == [status |-> "pending", ip |-> Reply(u).got, script |-> TRUE]
  <1>1. Provisioned(u) /\ Reply(u).got \in Addresses /\ router[u].status = "none"
    BY Known, CallsTyped DEF Phases, CommitOnboarding, Provisioned, Inv
  <1>2. r \in RouterTypes /\ r.status = "pending" /\ r.ip = Reply(u).got
    BY <1>1 DEF RouterTypes
  <1>3. /\ router' = [router EXCEPT ![u] = r] /\ onboard' = [onboard EXCEPT ![u] = "refresh"]
        /\ onboard[u] = "commit" /\ UNCHANGED <<edited, overdue, claim, update, delete, agentVars>>
    BY DEF CommitOnboarding
  <1> HIDE DEF r
  <1>4. TypeOK'
    BY <1>1, <1>2, <1>3, RowTyped DEF Inv, TypeOK
  <1>5. /\ router'[u] = r /\ onboard'[u] = "refresh" /\ UNCHANGED <<edited, claim, delete, peers, call>>
        /\ \A v \in Routers : v # u => router'[v] = router[v] /\ onboard'[v] = onboard[v]
    BY <1>3 DEF Inv, TypeOK, agentVars
  <1>6. Phases(u)'
    BY <1>1, <1>2, <1>3, <1>5, Known DEF Phases, Reply, Back, Gone
  <1>7. \A v \in Routers : v # u => Untouched(v)
    BY <1>5 DEF Untouched
  <1>8. (Live(u)' => Provisioned(u)) /\ (Live(u)' /\ ~edited'[u] => router'[u].ip = Reply(u).got)
    BY <1>1, <1>2, <1>5
  <1> QED BY <1>3, <1>4, <1>6, <1>7, <1>8, LocalStep

LEMMA ClaimStepKeeps ==
  ASSUME Inv, NEW u \in Routers, ClaimLock(u) \/ ClaimCommit(u) \/ ClaimFails(u)
  PROVE  Inv'
  <1>1. CASE ClaimLock(u) \/ ClaimFails(u)
    <2>1. PICK b \in BOOLEAN : /\ claim' = [claim EXCEPT ![u] = b]
                               /\ b => router[u].status = "pending"
                               /\ UNCHANGED <<router, edited, overdue, onboard, update, delete, agentVars>>
      BY <1>1 DEF ClaimLock, ClaimFails
    <2>2. TypeOK'
      BY <2>1 DEF Inv, TypeOK, agentVars, Live
    <2>3. /\ claim'[u] = b /\ \A v \in Routers : v # u => claim'[v] = claim[v]
          /\ UNCHANGED <<router, edited, onboard, delete, peers, call>>
      BY <2>1 DEF Inv, TypeOK, agentVars
    <2>4. Phases(u)'
      BY <2>1, <2>3, Known DEF Phases, Provisioned, Reply, Back, Gone
    <2>5. (Live(u)' => Provisioned(u)) /\ (Live(u)' /\ ~edited'[u] => router'[u].ip = Reply(u).got)
      BY <2>3, Known DEF Holds, Live
    <2>6. \A v \in Routers : v # u => Untouched(v)
      BY <2>3 DEF Untouched
    <2> QED BY <2>1, <2>2, <2>4, <2>5, <2>6, LocalStep
  <1>2. CASE ClaimCommit(u)
    <2> DEFINE r == [router[u] EXCEPT !.status = "claimed", !.script = FALSE]
    <2>1. router[u].status = "pending"
      BY <1>2, Known DEF ClaimCommit, Phases
    <2>2. r \in RouterTypes /\ r.status = "claimed" /\ r.ip = router[u].ip
      BY Known DEF RouterTypes
    <2>3. /\ router' = [router EXCEPT ![u] = r] /\ claim' = [claim EXCEPT ![u] = FALSE]
          /\ UNCHANGED <<edited, overdue, onboard, update, delete, agentVars>>
      BY <1>2 DEF ClaimCommit
    <2> HIDE DEF r
    <2>4. Live(u) /\ router[u].ip \in Addresses
      BY <2>1, Known DEF Live, LiveStatuses
    <2>5. TypeOK'
      BY <2>2, <2>3, <2>4, RowTyped DEF Inv, TypeOK
    <2>6. /\ router'[u] = r /\ ~claim'[u] /\ UNCHANGED <<edited, onboard, delete, peers, call>>
          /\ \A v \in Routers : v # u => router'[v] = router[v] /\ claim'[v] = claim[v]
      BY <2>3 DEF Inv, TypeOK, agentVars
    <2>7. Phases(u)'
      BY <2>1, <2>2, <2>6, Known DEF Phases, Provisioned, Reply, Back, Gone
    <2>8. \A v \in Routers : v # u => Untouched(v)
      BY <2>6 DEF Untouched
    <2>9. (Live(u)' => Provisioned(u)) /\ (Live(u)' /\ ~edited'[u] => router'[u].ip = Reply(u).got)
      BY <2>2, <2>4, <2>6, Known DEF Holds
    <2> QED BY <2>3, <2>5, <2>7, <2>8, <2>9, LocalStep
  <1> QED BY <1>1, <1>2

LEMMA UpdateStep ==
  ASSUME Inv, NEW u \in Routers, UpdateRead(u) \/ UpdateCommit(u)
  PROVE  Inv'
  <1>1. CASE UpdateRead(u)
    <2>1. PICK ip \in Addresses : update' = [update EXCEPT ![u] = ip]
      BY <1>1 DEF UpdateRead
    <2>2. UNCHANGED <<router, edited, overdue, onboard, claim, delete, agentVars>>
      BY <1>1 DEF UpdateRead
    <2>3. TypeOK'
      BY <2>1, <2>2 DEF Inv, TypeOK, agentVars, Live
    <2>4. Phases(u)' /\ \A v \in Routers : Untouched(v)
      BY <2>2, Known DEF Phases, Provisioned, Reply, Back, Gone, Untouched, agentVars
    <2>5. (Live(u)' => Provisioned(u)) /\ (Live(u)' /\ ~edited'[u] => router'[u].ip = Reply(u).got)
      BY <2>2, Known DEF Holds, Live
    <2> QED BY <2>2, <2>3, <2>4, <2>5, LocalStep
  <1>2. CASE UpdateCommit(u)
    <2> DEFINE r == [router[u] EXCEPT !.ip = update[u]]
    <2>1. update[u] \in Addresses
      BY <1>2, Known DEF UpdateCommit
    <2>2. router' = [router EXCEPT ![u] = r]
      BY <1>2, Known DEF UpdateCommit
    <2>3. r \in RouterTypes /\ r.status = router[u].status /\ r.ip = update[u]
      BY <2>1, Known DEF RouterTypes
    <2> HIDE DEF r
    <2>4. /\ edited' \in [Routers -> BOOLEAN] /\ update' \in [Routers -> Addresses \cup {NoAddress}]
          /\ edited'[u] /\ \A v \in Routers : v # u => edited'[v] = edited[v]
          /\ UNCHANGED <<overdue, onboard, claim, delete, agentVars>>
      BY <1>2 DEF UpdateCommit, Inv, TypeOK
    <2>5. TypeOK'
      BY <2>1, <2>2, <2>3, <2>4, RowTyped DEF Inv, TypeOK
    <2>6. /\ router'[u] = r /\ UNCHANGED <<onboard, claim, delete, peers, call>>
          /\ \A v \in Routers : v # u => router'[v] = router[v]
      BY <2>2, <2>4, Known DEF agentVars
    <2>7. Phases(u)'
      BY <2>3, <2>6, Known DEF Phases, Provisioned, Reply, Back, Gone
    <2>8. \A v \in Routers : v # u => Untouched(v)
      BY <2>4, <2>6 DEF Untouched
    <2>9. (Live(u)' => Provisioned(u)) /\ (Live(u)' /\ ~edited'[u] => router'[u].ip = Reply(u).got)
      BY <2>3, <2>4, <2>6, Known DEF Holds, Live
    <2> QED BY <2>4, <2>5, <2>7, <2>8, <2>9, LocalStep
  <1> QED BY <1>1, <1>2

LEMMA DeleteStep ==
  ASSUME Inv, NEW u \in Routers, DeleteRead(u) \/ DeleteCommit(u) \/ CrashDelete(u)
  PROVE  Inv'
  <1>1. CASE DeleteRead(u) \/ CrashDelete(u)
    <2>1. PICK d \in {"read", "done"} :
             /\ delete' = [delete EXCEPT ![u] = d]
             /\ router[u].status # "none"
             /\ UNCHANGED <<router, edited, overdue, onboard, claim, update, agentVars>>
      BY <1>1, Known DEF DeleteRead, CrashDelete, Phases, Live, LiveStatuses
    <2>2. /\ delete'[u] = d /\ \A v \in Routers : v # u => delete'[v] = delete[v]
      BY <2>1 DEF Inv, TypeOK
    <2>3. TypeOK'
      BY <2>1 DEF Inv, TypeOK, agentVars, Live
    <2>4. Phases(u)'
      BY <2>1, <2>2, Known DEF Phases, Provisioned, Reply, Back, Gone, agentVars
    <2>5. (Live(u)' => Provisioned(u)) /\ (Live(u)' /\ ~edited'[u] => router'[u].ip = Reply(u).got)
      BY <2>1, Known DEF Holds, Live
    <2>6. \A v \in Routers : v # u => Untouched(v)
      BY <2>1, <2>2 DEF Untouched
    <2> QED BY <2>1, <2>3, <2>4, <2>5, <2>6, LocalStep
  <1>2. CASE DeleteCommit(u)
    <2> DEFINE r == [router[u] EXCEPT !.status = "deleted", !.script = FALSE]
    <2>1. router' = [router EXCEPT ![u] = r]
      BY <1>2, Known DEF DeleteCommit
    <2>2. r \in RouterTypes /\ r.status = "deleted"
      BY Known DEF RouterTypes
    <2> HIDE DEF r
    <2>3. /\ delete' \in [Routers -> {"idle", "read", "revoke", "done"}] /\ delete'[u] = "revoke"
          /\ \A v \in Routers : v # u => delete'[v] = delete[v]
          /\ delete[u] = "read" /\ ~claim[u]
          /\ UNCHANGED <<edited, overdue, onboard, claim, update, agentVars>>
      BY <1>2 DEF DeleteCommit, MayDelete, RowFree, Inv, TypeOK
    <2>4. TypeOK'
      BY <2>1, <2>2, <2>3, RowTyped DEF Inv, TypeOK, LiveStatuses
    <2>5. /\ router'[u] = r /\ UNCHANGED <<edited, onboard, claim, peers, call>>
          /\ \A v \in Routers : v # u => router'[v] = router[v]
      BY <2>1, <2>3, Known DEF agentVars
    <2>6. router[u].status # "none"
      BY <2>3, Known DEF Phases
    <2>7. Phases(u)'
      BY <2>2, <2>3, <2>5, <2>6, Known DEF Phases, Provisioned, Reply, Back, Gone
    <2>8. \A v \in Routers : v # u => Untouched(v)
      BY <2>3, <2>5 DEF Untouched
    <2>9. ~Live(u)'
      BY <2>2, <2>5 DEF Live, LiveStatuses
    <2> QED BY <2>3, <2>4, <2>7, <2>8, <2>9, LocalStep
  <1> QED BY <1>1, <1>2

LEMMA ClockStep ==
  ASSUME Inv, NEW u \in Routers, ClockPasses(u)
  PROVE  Inv'
  <1>1. TypeOK'
    BY DEF ClockPasses, Inv, TypeOK, agentVars, requestVars, Live
  <1>2. \A v \in Routers : Untouched(v)
    BY DEF ClockPasses, requestVars, Untouched
  <1>3. UNCHANGED <<peers, call>>
    BY DEF ClockPasses, agentVars
  <1>4. Apart' /\ \A v \in Routers : Good(v)'
    BY <1>2, <1>3, OthersKept DEF Inv, Apart
  <1> QED BY <1>1, <1>4 DEF Inv

LEMMA ExpireStep ==
  ASSUME Inv, ExpireDownloads
  PROVE  Inv'
  <1>1. \A u \in Routers : /\ router[u] \in RouterTypes
                           /\ [router[u] EXCEPT !.script = FALSE] \in RouterTypes
                           /\ [router[u] EXCEPT !.script = FALSE].status = router[u].status
                           /\ [router[u] EXCEPT !.script = FALSE].ip = router[u].ip
    BY Known DEF RouterTypes
  <1>2. router' = [u \in Routers |-> IF Expirable(u) THEN [router[u] EXCEPT !.script = FALSE]
                                                    ELSE router[u]]
    BY DEF ExpireDownloads
  <1>3. /\ router' \in [Routers -> RouterTypes]
        /\ \A u \in Routers : router'[u].status = router[u].status /\ router'[u].ip = router[u].ip
    BY <1>1, <1>2
  <1>4. UNCHANGED <<edited, overdue, onboard, claim, update, delete, peers, call>>
    BY DEF ExpireDownloads, requestVars, agentVars
  <1>5. TypeOK'
    BY <1>3, <1>4 DEF Inv, TypeOK, Live
  <1>6. Apart'
    BY <1>4 DEF Inv, Apart
  <1>7. ASSUME NEW u \in Routers
        PROVE  Good(u)'
    <2>1. Meant(u)'
      BY <1>4, Known DEF Meant, Reply, Back, Gone
    <2>2. Phases(u)'
      BY <1>3, <1>4, Known DEF Phases, Provisioned, Reply, Back, Gone
    <2>3. Holds(u)'
      BY <1>3, <1>4, Known DEF Holds, Provisioned, Reply, Back, Gone, Live
    <2> QED BY <2>1, <2>2, <2>3 DEF Good
  <1> QED BY <1>5, <1>6, <1>7 DEF Inv

-----------------------------------------------------------------------------
(* Calls: how a sent or served one may change what is known of its router. *)
LEMMA SendTyped ==
  ASSUME Inv, NEW u \in Routers, NEW k \in {"create", "rollback", "delete"},
         NEW op \in {"create", "delete"}, Agent!Send(<<u, k>>, op, u)
  PROVE  /\ call' \in [AgentCalls -> Calling] /\ peers' = peers
         /\ call'[<<u, k>>] = [at |-> "sent", op |-> op, peer |-> u, got |-> NoAddress]
         /\ \A c \in AgentCalls : c # <<u, k>> => call'[c] = call[c]
         /\ call[<<u, k>>].at = "unsent"
  <1>1. <<u, k>> \in AgentCalls
    BY CallNames
  <1>2. [at |-> "sent", op |-> op, peer |-> u, got |-> NoAddress] \in Calling
    BY DEF Calling, Agent!CallStates, Agent!Ops
  <1>3. call \in [AgentCalls -> Calling]
    BY CallsTyped DEF Inv
  <1> QED BY <1>1, <1>2, <1>3 DEF Agent!Send

LEMMA SendStep ==
  ASSUME Inv, NEW u \in Routers, BeginOnboarding(u) \/ UndoPeer(u) \/ DeleteRevoke(u)
  PROVE  Inv'
  <1>1. /\ <<u, "create">> \in AgentCalls /\ <<u, "rollback">> \in AgentCalls
        /\ <<u, "delete">> \in AgentCalls
        /\ <<u, "create">> # <<u, "rollback">> /\ <<u, "create">> # <<u, "delete">>
        /\ <<u, "rollback">> # <<u, "delete">>
    BY CallNames
  <1>2. PICK k \in {"create", "rollback", "delete"} :
           /\ k = "create" => BeginOnboarding(u)
           /\ k = "rollback" => UndoPeer(u)
           /\ k = "delete" => DeleteRevoke(u)
    OBVIOUS
  <1>3. PICK op \in {"create", "delete"} :
           Agent!Send(<<u, k>>, op, u) /\ (op = "create" <=> k = "create")
    BY <1>2 DEF BeginOnboarding, UndoPeer, DeleteRevoke
  <1>4. /\ call' \in [AgentCalls -> Calling] /\ peers' = peers
        /\ call'[<<u, k>>] = [at |-> "sent", op |-> op, peer |-> u, got |-> NoAddress]
        /\ \A c \in AgentCalls : c # <<u, k>> => call'[c] = call[c]
        /\ call[<<u, k>>].at = "unsent"
    BY <1>3, SendTyped
  <1>5. UNCHANGED <<router, edited, overdue, claim, update>>
    BY <1>2 DEF BeginOnboarding, UndoPeer, DeleteRevoke
  <1>6. /\ onboard' \in [Routers -> {"idle", "waiting", "commit", "refresh", "undo",
                                     "answered", "done"}]
        /\ \A v \in Routers : v # u => onboard'[v] = onboard[v]
        /\ onboard'[u] = IF k = "create" THEN "waiting" ELSE IF k = "rollback" THEN "done" ELSE onboard[u]
        /\ k = "create" => onboard[u] = "idle"
        /\ k = "rollback" => onboard[u] = "undo"
    BY <1>2 DEF BeginOnboarding, UndoPeer, DeleteRevoke, Inv, TypeOK
  <1>7. /\ delete' \in [Routers -> {"idle", "read", "revoke", "done"}]
        /\ \A v \in Routers : v # u => delete'[v] = delete[v]
        /\ k # "delete" => delete' = delete
        /\ k = "delete" => delete[u] = "revoke" /\ delete'[u] = "done"
    BY <1>2 DEF BeginOnboarding, UndoPeer, DeleteRevoke, MayRevoke, Inv, TypeOK
  <1>8. TypeOK'
    BY <1>4, <1>5, <1>6, <1>7 DEF Inv, TypeOK, Calling, Live
  <1>9. Apart'
    BY <1>4 DEF Inv, Apart
  <1>10. ASSUME NEW v \in Routers, v # u
         PROVE  Good(v)'
    <2>1. \A j \in {"create", "rollback", "delete"} :
             <<v, j>> \in AgentCalls /\ <<v, j>> # <<u, k>>
      BY <1>10, CallNames
    <2>2. \A j \in {"create", "rollback", "delete"} : call'[<<v, j>>] = call[<<v, j>>]
      BY <1>4, <2>1
    <2>3. Untouched(v) /\ peers'[v] = peers[v]
      BY <1>4, <1>5, <1>6, <1>7, <1>10 DEF Untouched
    <2> QED BY <2>2, <2>3, OthersKept
  <1>11. Good(u)'
    <2>1. CASE k = "create"
      <3>1. /\ Reply(u)'.at = "sent" /\ Reply(u)'.op = "create" /\ Reply(u)'.peer = u
            /\ Back(u)' = Back(u) /\ Gone(u)' = Gone(u)
        BY <1>1, <1>3, <1>4, <2>1 DEF Reply, Back, Gone
      <3>2. onboard[u] = "idle" /\ onboard'[u] = "waiting" /\ delete' = delete /\ router' = router
        BY <1>5, <1>6, <1>7, <2>1
      <3>3. Meant(u)' /\ Phases(u)' /\ Holds(u)'
        BY <1>5, <3>1, <3>2, Known DEF Meant, Phases, Holds, Provisioned, Live, LiveStatuses
      <3> QED BY <3>3 DEF Good
    <2>2. CASE k = "rollback"
      <3>1. /\ Back(u)'.at = "sent" /\ Back(u)'.op = "delete" /\ Back(u)'.peer = u
            /\ Reply(u)' = Reply(u) /\ Gone(u)' = Gone(u)
        BY <1>1, <1>3, <1>4, <2>2 DEF Reply, Back, Gone
      <3>2. onboard[u] = "undo" /\ onboard'[u] = "done" /\ delete' = delete /\ router' = router
        BY <1>5, <1>6, <1>7, <2>2
      <3>3. Meant(u)' /\ Phases(u)' /\ Holds(u)'
        BY <1>4, <1>5, <3>1, <3>2, Known DEF Meant, Phases, Holds, Provisioned, Live
      <3> QED BY <3>3 DEF Good
    <2>3. CASE k = "delete"
      <3>1. /\ Gone(u)'.at = "sent" /\ Gone(u)'.op = "delete" /\ Gone(u)'.peer = u
            /\ Reply(u)' = Reply(u) /\ Back(u)' = Back(u)
        BY <1>1, <1>3, <1>4, <2>3 DEF Reply, Back, Gone
      <3>2. /\ onboard'[u] = onboard[u] /\ delete[u] = "revoke" /\ delete'[u] = "done"
            /\ router' = router
        BY <1>5, <1>6, <1>7, <2>3
      <3>3. router[u].status = "deleted"
        BY <3>2, Known DEF Phases
      <3>4. Meant(u)' /\ Phases(u)' /\ Holds(u)'
        BY <1>4, <1>5, <3>1, <3>2, <3>3, Known DEF Meant, Phases, Holds, Provisioned, Live
      <3> QED BY <3>4 DEF Good
    <2> QED BY <2>1, <2>2, <2>3
  <1> QED BY <1>8, <1>9, <1>10, <1>11 DEF Inv

(* The agent's own steps leave the meaning of every call, and what is      *)
(* answered, as they are.                                                  *)
Serves ==
    /\ UNCHANGED <<router, edited, overdue, onboard, claim, update, delete>>
    /\ call' \in [AgentCalls -> Calling] /\ peers' \in [Routers -> Addresses \cup {NoAddress}]
    /\ \A c \in AgentCalls :
         /\ call'[c].op = call[c].op /\ call'[c].peer = call[c].peer
         /\ call[c].at = "unsent" <=> call'[c].at = "unsent"
         /\ call[c].at = "answered" => call'[c] = call[c]

LEMMA ServeKeeps ==
  ASSUME Inv, Serves, Apart',
         \A u \in Routers :
           /\ Reply(u)'.at \in {"settled", "answered"} /\ Reply(u)'.got # NoAddress
           /\ Back(u).at = "unsent" /\ Gone(u).at = "unsent"
           => peers'[u] = Reply(u)'.got
  PROVE  Inv'
  <1>1. TypeOK'
    BY DEF Inv, TypeOK, Serves, Calling, Live
  <1>2. ASSUME NEW u \in Routers
        PROVE  Good(u)'
    <2>1. /\ <<u, "create">> \in AgentCalls /\ <<u, "rollback">> \in AgentCalls
          /\ <<u, "delete">> \in AgentCalls
      BY CallNames
    <2>2. /\ Reply(u).at = "unsent" <=> Reply(u)'.at = "unsent"
          /\ Back(u).at = "unsent" <=> Back(u)'.at = "unsent"
          /\ Gone(u).at = "unsent" <=> Gone(u)'.at = "unsent"
          /\ Reply(u)'.op = Reply(u).op /\ Reply(u)'.peer = Reply(u).peer
          /\ Back(u)'.op = Back(u).op /\ Back(u)'.peer = Back(u).peer
          /\ Gone(u)'.op = Gone(u).op /\ Gone(u)'.peer = Gone(u).peer
          /\ Reply(u).at = "answered" => Reply(u)' = Reply(u)
      BY <2>1 DEF Serves, Reply, Back, Gone
    <2>3. Meant(u)'
      BY <2>2, Known DEF Meant
    <2>4. Phases(u)'
      BY <2>2, Known DEF Phases, Provisioned, Serves
    <2>5. Holds(u)'
      BY <2>2, Known DEF Holds, Provisioned, Live, Serves
    <2> QED BY <2>3, <2>4, <2>5 DEF Good
  <1> QED BY <1>1, <1>2 DEF Inv

(* The call being served is one of its router's, and means what it says.   *)
LEMMA CallOf ==
  ASSUME Inv, NEW c \in AgentCalls, call[c].at # "unsent"
  PROVE  \E v \in Routers, k \in {"create", "rollback", "delete"} :
           /\ c = <<v, k>> /\ call[c].peer = v
           /\ call[c].op = IF k = "create" THEN "create" ELSE "delete"
  <1>1. PICK v \in Routers, k \in {"create", "rollback", "delete"} : c = <<v, k>>
    BY DEF AgentCalls
  <1>2. /\ call[c].peer = v
        /\ call[c].op = IF k = "create" THEN "create" ELSE "delete"
    <2>1. Meant(v)
      BY Known
    <2>2. CASE k = "create"
      BY <1>1, <2>1, <2>2 DEF Meant, Reply
    <2>3. CASE k = "rollback"
      BY <1>1, <2>1, <2>3 DEF Meant, Back
    <2>4. CASE k = "delete"
      BY <1>1, <2>1, <2>4 DEF Meant, Gone
    <2> QED BY <2>2, <2>3, <2>4
  <1> QED BY <1>1, <1>2

LEMMA SettleTyped ==
  ASSUME Inv, NEW c \in AgentCalls, NEW a \in Addresses \cup {NoAddress}, Agent!Settle(c, a),
         call[c].at = "sent"
  PROVE  /\ call' \in [AgentCalls -> Calling]
         /\ call'[c].at = "settled" /\ call'[c].got = a
         /\ call'[c].op = call[c].op /\ call'[c].peer = call[c].peer
         /\ \A d \in AgentCalls : d # c => call'[d] = call[d]
  <1> DEFINE r == [call[c] EXCEPT !.at = "settled", !.got = a]
  <1>1. call[c] \in Calling /\ call \in [AgentCalls -> Calling]
    BY CallsTyped DEF Inv
  <1>2. /\ r \in Calling /\ r.at = "settled" /\ r.got = a
        /\ r.op = call[c].op /\ r.peer = call[c].peer
    BY <1>1 DEF Calling, Agent!CallStates
  <1>3. call' = [call EXCEPT ![c] = r]
    BY <1>1 DEF Agent!Settle
  <1> HIDE DEF r
  <1> QED BY <1>1, <1>2, <1>3

LEMMA CreateServed ==
  ASSUME Inv, NEW c \in AgentCalls, Agent!Keep(c) \/ Agent!Assign(c) \/ Agent!Exhausted(c),
         UNCHANGED <<router, edited, overdue, requestVars>>
  PROVE  Inv'
  <1>1. PICK v \in Routers : c = <<v, "create">> /\ call[c].peer = v
    BY CallOf DEF Agent!Keep, Agent!Assign, Agent!Exhausted
  <1>2. PICK a \in Addresses \cup {NoAddress} :
          /\ Agent!Settle(c, a) /\ call[c].at = "sent"
          /\ \/ peers' = peers /\ (a = peers[v] \/ a = NoAddress)
             \/ /\ peers' = [peers EXCEPT ![v] = a]
                /\ a # NoAddress /\ peers[v] = NoAddress
                /\ \A u \in Routers : peers[u] # a
    <2>1. CASE Agent!Keep(c)
      BY <1>1, <2>1 DEF Agent!Keep, Inv, TypeOK
    <2>2. CASE Agent!Assign(c)
      <3>1. /\ call[c].at = "sent" /\ peers[v] = NoAddress
            /\ \E b \in Agent!Free : /\ peers' = [peers EXCEPT ![v] = b]
                                     /\ Agent!Settle(c, b)
        BY <1>1, <2>2 DEF Agent!Assign
      <3>2. PICK b \in Agent!Free : peers' = [peers EXCEPT ![v] = b] /\ Agent!Settle(c, b)
        BY <3>1
      <3>3. b \in Addresses /\ b # NoAddress /\ \A u \in Routers : peers[u] # b
        BY AddressAssumption DEF Agent!Free
      <3> QED BY <3>1, <3>2, <3>3
    <2>3. CASE Agent!Exhausted(c)
      BY <1>1, <2>3 DEF Agent!Exhausted
    <2> QED BY <2>1, <2>2, <2>3
  <1>3. /\ peers \in [Routers -> Addresses \cup {NoAddress}]
        /\ peers' \in [Routers -> Addresses \cup {NoAddress}]
        /\ \A u \in Routers : u # v => peers'[u] = peers[u]
        /\ a # NoAddress => peers'[v] = a
        /\ peers[v] # NoAddress => peers'[v] = peers[v]
    BY <1>2 DEF Inv, TypeOK
  <1>4. /\ call' \in [AgentCalls -> Calling]
        /\ call'[c].at = "settled" /\ call'[c].got = a
        /\ call'[c].op = call[c].op /\ call'[c].peer = call[c].peer
        /\ \A d \in AgentCalls : d # c => call'[d] = call[d]
    BY <1>2, SettleTyped
  <1>5. Serves
    BY <1>2, <1>3, <1>4 DEF Serves, requestVars
  <1>6. Apart'
    BY <1>2, <1>3 DEF Inv, Apart
  <1>7. ASSUME NEW u \in Routers, Reply(u)'.at \in {"settled", "answered"},
               Reply(u)'.got # NoAddress, Back(u).at = "unsent", Gone(u).at = "unsent"
        PROVE  peers'[u] = Reply(u)'.got
    <2>1. <<u, "create">> \in AgentCalls /\ (u # v => <<u, "create">> # c)
      BY <1>1, CallNames
    <2>2. CASE u = v
      BY <1>1, <1>3, <1>4, <1>7, <2>2 DEF Reply
    <2>3. CASE u # v
      <3>1. Reply(u)' = Reply(u) /\ peers'[u] = peers[u]
        BY <1>3, <1>4, <2>1, <2>3 DEF Reply
      <3> QED BY <1>7, <3>1, Known DEF Holds
    <2> QED BY <2>2, <2>3
  <1> QED BY <1>5, <1>6, <1>7, ServeKeeps

LEMMA RemoveServed ==
  ASSUME Inv, NEW c \in AgentCalls, Agent!Remove(c),
         UNCHANGED <<router, edited, overdue, requestVars>>
  PROVE  Inv'
  <1>1. PICK v \in Routers, k \in {"rollback", "delete"} : c = <<v, k>> /\ call[c].peer = v
    BY CallOf DEF Agent!Remove
  <1>2. /\ Agent!Settle(c, NoAddress) /\ call[c].at = "sent"
        /\ peers' = [peers EXCEPT ![v] = NoAddress]
    BY <1>1 DEF Agent!Remove
  <1>3. /\ peers' \in [Routers -> Addresses \cup {NoAddress}] /\ peers'[v] = NoAddress
        /\ \A u \in Routers : u # v => peers'[u] = peers[u]
    BY <1>2 DEF Inv, TypeOK
  <1>4. /\ call' \in [AgentCalls -> Calling]
        /\ call'[c].at = "settled"
        /\ call'[c].op = call[c].op /\ call'[c].peer = call[c].peer
        /\ \A d \in AgentCalls : d # c => call'[d] = call[d]
    BY <1>2, SettleTyped
  <1>5. Serves
    BY <1>2, <1>3, <1>4 DEF Serves, requestVars
  <1>6. Apart'
    BY <1>3 DEF Inv, Apart
  <1>7. ASSUME NEW u \in Routers, Reply(u)'.at \in {"settled", "answered"},
               Reply(u)'.got # NoAddress, Back(u).at = "unsent", Gone(u).at = "unsent"
        PROVE  peers'[u] = Reply(u)'.got
    <2>1. <<u, "create">> \in AgentCalls /\ <<u, "create">> # c
      BY <1>1, CallNames
    <2>2. u # v
      BY <1>1, <1>2, <1>7 DEF Back, Gone
    <2>3. Reply(u)' = Reply(u) /\ peers'[u] = peers[u]
      BY <1>3, <1>4, <2>1, <2>2 DEF Reply
    <2> QED BY <1>7, <2>3, Known DEF Holds
  <1> QED BY <1>5, <1>6, <1>7, ServeKeeps

(* The answer changes nothing but the call.                                *)
LEMMA AnswerServed ==
  ASSUME Inv, UNCHANGED <<router, edited, overdue, requestVars>>,
         NEW c \in AgentCalls, Agent!Answer(c)
  PROVE  Inv'
  <1> DEFINE r == [call[c] EXCEPT !.at = "answered"]
  <1>1. call \in [AgentCalls -> Calling] /\ call[c] \in Calling
    BY CallsTyped DEF Inv
  <1>2. call' = [call EXCEPT ![c] = r] /\ call[c].at = "settled" /\ peers' = peers
    BY <1>1 DEF Agent!Answer
  <1>3. /\ r \in Calling /\ r.at = "answered" /\ r.op = call[c].op /\ r.peer = call[c].peer
        /\ r.got = call[c].got
    BY <1>1 DEF Calling, Agent!CallStates
  <1> HIDE DEF r
  <1>4. /\ call' \in [AgentCalls -> Calling]
        /\ \A d \in AgentCalls :
             \/ call'[d] = call[d]
             \/ /\ call[d].at = "settled" /\ call'[d].at = "answered"
                /\ call'[d].op = call[d].op /\ call'[d].peer = call[d].peer
                /\ call'[d].got = call[d].got
    BY <1>1, <1>2, <1>3
  <1>5. Serves
    BY <1>2, <1>4 DEF Serves, requestVars, Inv, TypeOK
  <1>6. Apart'
    BY <1>2 DEF Inv, Apart
  <1>7. ASSUME NEW u \in Routers, Reply(u)'.at \in {"settled", "answered"},
               Reply(u)'.got # NoAddress, Back(u).at = "unsent", Gone(u).at = "unsent"
        PROVE  peers'[u] = Reply(u)'.got
    <2>1. <<u, "create">> \in AgentCalls
      BY CallNames
    <2>2. Reply(u)'.got = Reply(u).got /\ Reply(u).at \in {"settled", "answered"}
      BY <1>4, <1>7, <2>1 DEF Reply
    <2> QED BY <1>2, <1>7, <2>2, Known DEF Holds
  <1> QED BY <1>5, <1>6, <1>7, ServeKeeps

-----------------------------------------------------------------------------
LEMMA InvStep == Inv /\ [Next]_vars => Inv'
  <1> SUFFICES ASSUME Inv, [Next]_vars PROVE Inv'
    OBVIOUS
  <1>1. CASE \E u \in Routers : BeginOnboarding(u) \/ UndoPeer(u) \/ DeleteRevoke(u)
    BY <1>1, SendStep
  <1>2. CASE \E u \in Routers : \/ PeerProvisioned(u) \/ ProvisioningFails(u)
                               \/ OnboardingFails(u) \/ Respond(u) \/ CrashOnboarding(u)
    BY <1>2, OnboardOnly
  <1>3. CASE \E u \in Routers : CommitOnboarding(u)
    BY <1>3, CommitStep
  <1>4. CASE \E u \in Routers : ClaimLock(u) \/ ClaimStep(u)
    BY <1>4, ClaimStepKeeps DEF ClaimStep
  <1>5. CASE \E u \in Routers : UpdateRead(u) \/ UpdateCommit(u)
    BY <1>5, UpdateStep
  <1>6. CASE \E u \in Routers : DeleteRead(u) \/ DeleteCommit(u) \/ CrashDelete(u)
    BY <1>6, DeleteStep
  <1>7. CASE \E u \in Routers : ClockPasses(u)
    BY <1>7, ClockStep
  <1>8. CASE ExpireDownloads
    BY <1>8, ExpireStep
  <1>9. CASE AgentStep
    BY <1>9, CreateServed, RemoveServed, AnswerServed, CallNames DEF AgentStep, Agent!Effect
  <1>10. CASE UNCHANGED vars
    <2>1. UNCHANGED <<router, edited, overdue, onboard, claim, update, delete, peers, call>>
      BY <1>10 DEF vars, requestVars, agentVars
    <2>2. TypeOK' /\ Apart'
      BY <2>1 DEF Inv, TypeOK, Live, Apart
    <2>3. \A u \in Routers : Good(u)'
      BY <2>1, OthersKept DEF Untouched
    <2> QED BY <2>2, <2>3 DEF Inv
  <1> QED BY <1>1, <1>2, <1>3, <1>4, <1>5, <1>6, <1>7, <1>8, <1>9, <1>10 DEF Next, OnboardStep

LEMMA Invariant == Spec => []Inv
  BY InvInit, InvStep, PTL DEF Spec

(* The variables keep their types, and a live router has an address.       *)
THEOREM RouterTypeCorrect == Spec => []TypeOK
  <1>1. Inv => TypeOK
    BY DEF Inv
  <1> QED BY <1>1, Invariant, PTL

LEMMA HeldPeers == Inv => PeerHeld
  <1> SUFFICES ASSUME Inv, NEW u \in Routers, Held(u)
               PROVE  peers[u] = router[u].ip
    BY DEF PeerHeld
  <1>1. router[u].status \notin {"none", "deleted"} /\ Provisioned(u) /\ Back(u).at = "unsent"
    BY Known DEF Held, Live, LiveStatuses, Holds
  <1>2. Gone(u).at = "unsent"
    BY <1>1, Known DEF Phases
  <1> QED BY <1>1, <1>2, Known DEF Held, Holds, Provisioned

(* The concentrator reserves the address of every live router for it,      *)
(* unless its own onboarding failed and asked for the removal.             *)
THEOREM PeerAlwaysHeld == Spec => []PeerHeld
  BY HeldPeers, Invariant, PTL

(* So two such routers are never controlled at the same address.           *)
THEOREM LiveRoutersStayApart == Spec => []LiveRoutersApart
  <1>1. Inv => LiveRoutersApart
    <2> SUFFICES ASSUME Inv, NEW u \in Routers, NEW v \in Routers, Held(u), Held(v),
                        router[u].ip = router[v].ip
                 PROVE  u = v
      BY DEF LiveRoutersApart
    <2>1. peers[u] = router[u].ip /\ peers[v] = router[v].ip
      BY HeldPeers DEF PeerHeld
    <2>2. router[u].ip # NoAddress
      BY Known, AddressAssumption DEF Held
    <2> QED BY <2>1, <2>2 DEF Inv, Apart
  <1> QED BY <1>1, Invariant, PTL

(* A deleted router does not come back, not even by a claim or a creation  *)
(* that was under way.                                                     *)
THEOREM DeletionIsFinal == Spec => DeletedStaysDeleted
  <1>1. ASSUME Inv, [Next]_vars, NEW u \in Routers, router[u].status = "deleted"
        PROVE  router'[u].status = "deleted"
    <2>1. ~claim[u] /\ onboard[u] # "commit"
      BY <1>1, Known DEF Phases
    <2>2. router \in [Routers -> RouterTypes]
      BY <1>1, Known
    <2>3. CASE \E v \in Routers : CommitOnboarding(v) \/ ClaimCommit(v)
      BY <2>1, <2>2, <2>3, <1>1 DEF CommitOnboarding, ClaimCommit
    <2>4. CASE \E v \in Routers : UpdateCommit(v)
      BY <2>2, <2>4, <1>1 DEF UpdateCommit, RouterTypes
    <2>5. CASE \E v \in Routers : DeleteCommit(v)
      BY <2>2, <2>5, <1>1 DEF DeleteCommit, RouterTypes
    <2>6. CASE ExpireDownloads
      BY <2>2, <2>6, <1>1 DEF ExpireDownloads, RouterTypes
    <2>7. CASE UNCHANGED router
      BY <2>7, <1>1
    <2> QED BY <2>3, <2>4, <2>5, <2>6, <2>7, <1>1
            DEF Next, vars, OnboardStep, ClaimStep, BeginOnboarding, PeerProvisioned,
                ProvisioningFails, OnboardingFails, UndoPeer, Respond, ClaimLock, ClaimFails,
                UpdateRead, DeleteRead, DeleteRevoke, ClockPasses, CrashOnboarding, CrashDelete,
                AgentStep
  <1>2. Inv /\ [Next]_vars =>
          [\A u \in Routers : router[u].status = "deleted" => router'[u].status = "deleted"]_vars
    BY <1>1
  <1> QED BY <1>2, Invariant, PTL DEF Spec, DeletedStaysDeleted
=============================================================================
