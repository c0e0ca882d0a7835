----------------------------- MODULE PeerRegistry -----------------------------
(***************************************************************************)
(* What the provisioning agent promises to its callers: a registry of      *)
(* tunnel peers in which each call takes effect at one instant between its *)
(* sending and its answer, or not at all.  An answer may be lost after the *)
(* effect.  vpn_agent/agent.py is shown to implement it in PeerStore;      *)
(* services/vpn_agent_service.py relies on it in RouterOnboarding.         *)
(***************************************************************************)

CONSTANTS
    Peers,      \* peer user names (router-<uuid>)
    Addresses,  \* the tunnel addresses the agent may hand out
    Foreign,    \* addresses on lines of the secrets file it does not manage
    Calls,      \* calls; each is made at most once
    NoAddress   \* no address: no line for that peer, or an answer without one

VARIABLES
    peers,  \* the address of each registered peer
    call    \* what was asked in each call, how far it is, what it got

registryVars == <<peers, call>>

Ops == {"create", "rotate", "delete"}
CallStates == {"unsent", "sent", "settled", "answered", "lost"}
InFlight == {"sent", "settled"}

Unsent == [at |-> "unsent", op |-> "create", peer |-> NoAddress, got |-> NoAddress]

Free == Addresses \ (Foreign \cup {peers[u] : u \in Peers})

Init ==
    /\ peers = [u \in Peers |-> NoAddress]
    /\ call = [c \in Calls |-> Unsent]

Send(c, op, u) ==
    /\ call[c].at = "unsent"
    /\ call' = [call EXCEPT ![c] = [at |-> "sent", op |-> op, peer |-> u,
                                    got |-> NoAddress]]
    /\ UNCHANGED peers

Settle(c, address) ==
    call' = [call EXCEPT ![c].at = "settled", ![c].got = address]

(* A registered peer keeps its address; a new one gets a free address.     *)
Keep(c) ==
    LET u == call[c].peer IN
    /\ call[c].at = "sent" /\ call[c].op # "delete"
    /\ peers[u] # NoAddress
    /\ Settle(c, peers[u])
    /\ UNCHANGED peers

Assign(c) ==
    LET u == call[c].peer IN
    /\ call[c].at = "sent" /\ call[c].op # "delete"
    /\ peers[u] = NoAddress
    /\ \E a \in Free :
         /\ peers' = [peers EXCEPT ![u] = a]
         /\ Settle(c, a)

Exhausted(c) ==
    /\ call[c].at = "sent" /\ call[c].op # "delete"
    /\ peers[call[c].peer] = NoAddress /\ Free = {}
    /\ Settle(c, NoAddress)
    /\ UNCHANGED peers

Remove(c) ==
    /\ call[c].at = "sent" /\ call[c].op = "delete"
    /\ peers' = [peers EXCEPT ![call[c].peer] = NoAddress]
    /\ Settle(c, NoAddress)

Answer(c) ==
    /\ call[c].at = "settled"
    /\ call' = [call EXCEPT ![c].at = "answered"]
    /\ UNCHANGED peers

(* The agent fails some of its calls, or dies with all of them.            *)
Lose(cs) ==
    /\ cs # {} /\ \A c \in cs : call[c].at \in InFlight
    /\ call' = [c \in Calls |->
                  IF c \in cs THEN [call[c] EXCEPT !.at = "lost"] ELSE call[c]]
    /\ UNCHANGED peers

Effect(c) == Keep(c) \/ Assign(c) \/ Exhausted(c) \/ Remove(c)
Serve(c) == Effect(c) \/ Answer(c)

Next ==
    \/ \E c \in Calls, op \in Ops, u \in Peers : Send(c, op, u)
    \/ \E c \in Calls : Serve(c)
    \/ \E cs \in SUBSET Calls : Lose(cs)

Spec == Init /\ [][Next]_registryVars

=============================================================================
