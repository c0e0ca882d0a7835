------------------------------ MODULE PeerStore ------------------------------
(***************************************************************************)
(* vpn_agent/agent.py: the threads of the provisioning agent share one     *)
(* pppd secrets file.  PeerStore.mutate takes an flock, reads the file,    *)
(* decides, replaces the file atomically and releases the lock.  Only the  *)
(* lines of the peers are modelled as state: other lines are carried over, *)
(* and matter for the addresses they use.                                  *)
(***************************************************************************)
EXTENDS Naturals

CONSTANTS
    Peers,      \* managed user names (PEER_PATTERN)
    First,      \* UZANET_IP_RANGE_START
    Last,       \* UZANET_IP_RANGE_END
    Foreign,    \* addresses used by lines of the operator
    Calls,      \* requests on the agent's socket
    NoAddress   \* no line

(* Defect: the search goes one address too far. *)
AddressesBeyond == First..(Last + 1)
Addresses == First..Last

ASSUME RangeAssumption == First \in Nat /\ Last \in Nat /\ First <= Last
ASSUME AbsentAssumption == NoAddress \notin Addresses

VARIABLES
    file,   \* the address on each peer's line of the secrets file
    copy,   \* the lines a thread has read
    call    \* requests: what they ask, how far their thread is, the result

vars == <<file, copy, call>>

Ops == {"create", "rotate", "delete"}
Files == [Peers -> First..Last \cup {NoAddress}]
CallTypes == [at : {"unsent", "sent", "loaded", "settled", "answered", "lost"},
              op : Ops, peer : Peers \cup {NoAddress},
              got : First..Last \cup {NoAddress}]
Working == {"sent", "loaded", "settled"}

Init ==
    /\ file = [u \in Peers |-> NoAddress]
    /\ copy = [c \in Calls |-> file]
    /\ call = [c \in Calls |-> [at |-> "unsent", op |-> "create",
                                peer |-> NoAddress, got |-> NoAddress]]

-----------------------------------------------------------------------------
(* Operators whose comment says "Defect:" are plausible mistakes in the    *)
(* operator that follows them; no action uses them.                        *)

Request(c, op, u) ==
    /\ call[c].at = "unsent"
    /\ call' = [call EXCEPT ![c] = [at |-> "sent", op |-> op, peer |-> u,
                                    got |-> NoAddress]]
    /\ UNCHANGED <<file, copy>>

(* flock: held from the reading of the file to the end of mutate.          *)
(* Defect: the file is read and replaced without it.                       *)
NotLocked == TRUE
LockFree == \A c \in Calls : call[c].at # "loaded"

Load(c) ==
    /\ call[c].at = "sent"
    /\ LockFree
    /\ copy' = [copy EXCEPT ![c] = file]
    /\ call' = [call EXCEPT ![c].at = "loaded"]
    /\ UNCHANGED file

Settle(c, address) ==
    call' = [call EXCEPT ![c].at = "settled", ![c].got = address]

(* _write: a temporary file takes the place of the old one.                *)
Replace(c, address) ==
    file' = [copy[c] EXCEPT ![call[c].peer] = address]

(* The addresses in use are read from every line that has one.             *)
(* Defect: only the lines of managed peers are read.                       *)
ManagedOnly(c) == {copy[c][u] : u \in Peers}
Used(c) == Foreign \cup {copy[c][u] : u \in Peers}

(* The first address of the range that is not in use.                      *)
Allocate(c, a) ==
    /\ a \in Addresses \ Used(c)
    /\ \A b \in Addresses \ Used(c) : a <= b

(* Defect: a known peer is allocated an address afresh.                    *)
NeverKnown(c) == FALSE
Known(c) == copy[c][call[c].peer] # NoAddress

KeepAddress(c) ==
    LET a == copy[c][call[c].peer] IN
    /\ call[c].at = "loaded" /\ call[c].op # "delete"
    /\ Known(c)
    /\ Replace(c, a)
    /\ Settle(c, a)
    /\ UNCHANGED copy

NewAddress(c) ==
    /\ call[c].at = "loaded" /\ call[c].op # "delete"
    /\ ~Known(c)
    /\ \E a \in Addresses :
         /\ Allocate(c, a)
         /\ Replace(c, a)
         /\ Settle(c, a)
    /\ UNCHANGED copy

(* Defect: the search never gives up.                                      *)
NeverExhausted(c) == FALSE
PoolExhausted(c) ==
    /\ call[c].at = "loaded" /\ call[c].op # "delete"
    /\ ~Known(c) /\ Addresses \subseteq Used(c)
    /\ Settle(c, NoAddress)
    /\ UNCHANGED <<file, copy>>

(* A delete that finds no line does not write.                             *)
Delete(c) ==
    /\ call[c].at = "loaded" /\ call[c].op = "delete"
    /\ IF Known(c) THEN Replace(c, NoAddress) ELSE UNCHANGED file
    /\ Settle(c, NoAddress)
    /\ UNCHANGED copy

Reply(c) ==
    /\ call[c].at = "settled"
    /\ call' = [call EXCEPT ![c].at = "answered"]
    /\ UNCHANGED <<file, copy>>

(* Reading the file or writing the backup or the temporary file fails: the *)
(* lock is released and the client is told so.                             *)
Fail(c) ==
    /\ call[c].at \in {"sent", "loaded"}
    /\ call' = [call EXCEPT ![c].at = "lost"]
    /\ UNCHANGED <<file, copy>>

(* The agent dies: so do its threads and their flock.                      *)
Crash ==
    /\ \E c \in Calls : call[c].at \in Working
    /\ call' = [c \in Calls |->
                  IF call[c].at \in Working THEN [call[c] EXCEPT !.at = "lost"]
                                            ELSE call[c]]
    /\ UNCHANGED <<file, copy>>

-----------------------------------------------------------------------------
Mutate(c) ==
    Load(c) \/ KeepAddress(c) \/ NewAddress(c) \/ PoolExhausted(c) \/ Delete(c)

Next ==
    \/ \E c \in Calls, op \in Ops, u \in Peers : Request(c, op, u)
    \/ \E c \in Calls : Mutate(c) \/ Reply(c) \/ Fail(c)
    \/ Crash

Spec == Init /\ [][Next]_vars

(* A thread that is not blocked by the flock goes on.  Weak fairness is    *)
(* enough for a finite burst of requests: the lock is free in the end.     *)
FairSpec == Spec /\ \A c \in Calls : WF_vars(Mutate(c) \/ Reply(c))

-----------------------------------------------------------------------------
(* The variables keep their types: an address on a peer's line or in an    *)
(* answer is one of the configured range.                                  *)
TypeOK ==
    /\ file \in Files
    /\ copy \in [Calls -> Files]
    /\ call \in [Calls -> CallTypes]
    /\ \A c \in Calls : call[c].at # "unsent" => call[c].peer \in Peers

(* No two peers have the same tunnel address, and none has an address of   *)
(* the operator's own lines, whatever requests overlapped and failed.      *)
AddressesUnique ==
    /\ \A u, v \in Peers : file[u] = file[v] /\ file[u] # NoAddress => u = v
    /\ \A u \in Peers : file[u] \notin Foreign \cap Addresses

(* A registered peer keeps its address until it is deleted: repeating a    *)
(* create, as the installer of a retried router does, moves nobody.        *)
AddressStable ==
    [][\A u \in Peers : file[u] # NoAddress => file'[u] \in {file[u], NoAddress}]_vars

(* What a caller sees: the thread's effect is the replacement of the file. *)
Seen(k) == IF k.at = "loaded" THEN [k EXCEPT !.at = "sent"] ELSE k
SeenCall == [c \in Calls |-> Seen(call[c])]
Registry == INSTANCE PeerRegistry WITH peers <- file, call <- SeenCall

(* The threads, the flock and the file behave as the atomic registry.      *)
ImplementsRegistry == Registry!Spec

(* Every request of a burst is answered, or its client is told of the      *)
(* failure: no thread keeps the lock.                                      *)
EveryRequestEnds ==
    \A c \in Calls : call[c].at \in Working ~> call[c].at \in {"answered", "lost"}

=============================================================================
