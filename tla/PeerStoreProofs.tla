--------------------------- MODULE PeerStoreProofs ---------------------------
(***************************************************************************)
(* What holds of PeerStore for any peers, address range and requests, and  *)
(* that it implements PeerRegistry.                                        *)
(***************************************************************************)
EXTENDS PeerStore, TLAPS

LEMMA TypeInit == Init => TypeOK
  <1> SUFFICES ASSUME Init PROVE TypeOK
    OBVIOUS
  <1>1. file \in Files /\ copy \in [Calls -> Files]
    BY DEF Init, Files
  <1>2. call \in [Calls -> CallTypes] /\ \A c \in Calls : call[c].at = "unsent"
    BY DEF Init, CallTypes, Ops
  <1> QED BY <1>1, <1>2 DEF TypeOK

(* A call's record stays well formed when it moves on with a result. *)
LEMMA MovedTyped ==
  ASSUME TypeOK, NEW c \in Calls, call[c].at # "unsent",
         NEW st \in {"loaded", "settled", "answered", "lost"},
         NEW a \in First..Last \cup {NoAddress},
         \/ call' = [call EXCEPT ![c].at = st, ![c].got = a]
         \/ call' = [call EXCEPT ![c].at = st]
  PROVE  /\ call' \in [Calls -> CallTypes]
         /\ \A d \in Calls : call'[d].at # "unsent" => call'[d].peer \in Peers
         /\ \A d \in Calls : d # c => call'[d] = call[d]
         /\ call'[c].at = st /\ call'[c].op = call[c].op /\ call'[c].peer = call[c].peer
  <1>1. call[c] \in CallTypes /\ call[c].peer \in Peers /\ call \in [Calls -> CallTypes]
    BY DEF TypeOK
  <1> DEFINE r1 == [call[c] EXCEPT !.at = st, !.got = a]
             r2 == [call[c] EXCEPT !.at = st]
  <1>2. /\ r1 \in CallTypes /\ r1.at = st /\ r1.peer = call[c].peer /\ r1.op = call[c].op
        /\ r2 \in CallTypes /\ r2.at = st /\ r2.peer = call[c].peer /\ r2.op = call[c].op
    BY <1>1 DEF CallTypes
  <1>3. call' = [call EXCEPT ![c] = r1] \/ call' = [call EXCEPT ![c] = r2]
    BY <1>1
  <1> HIDE DEF r1, r2
  <1> QED BY <1>1, <1>2, <1>3 DEF TypeOK

(* The file is what one thread read, but for the line of its own peer. *)
LEMMA ReplaceTyped ==
  ASSUME TypeOK, NEW c \in Calls, call[c].peer \in Peers,
         NEW a \in First..Last \cup {NoAddress}, Replace(c, a)
  PROVE  file' \in Files
  BY DEF TypeOK, Files, Replace

LEMMA TypeStep ==
  ASSUME TypeOK, [Next]_vars
  PROVE  TypeOK'
  <1>1. CASE \E c \in Calls, op \in Ops, u \in Peers : Request(c, op, u)
    <2>1. PICK c \in Calls, op \in Ops, u \in Peers : Request(c, op, u)
      BY <1>1
    <2> DEFINE r == [at |-> "sent", op |-> op, peer |-> u, got |-> NoAddress]
    <2>2. r \in CallTypes /\ r.peer \in Peers
      BY DEF CallTypes
    <2>3. call' = [call EXCEPT ![c] = r] /\ UNCHANGED <<file, copy>>
      BY <2>1 DEF Request
    <2> HIDE DEF r
    <2> QED BY <2>2, <2>3 DEF TypeOK
  <1>2. CASE \E c \in Calls : Load(c)
    <2>1. PICK c \in Calls : Load(c)
      BY <1>2
    <2>2. NoAddress \in First..Last \cup {NoAddress}
      OBVIOUS
    <2> QED BY <2>1, <2>2, MovedTyped DEF Load, TypeOK
  <1>3. CASE \E c \in Calls : KeepAddress(c) \/ NewAddress(c) \/ PoolExhausted(c) \/ Delete(c)
    <2>1. PICK c \in Calls : KeepAddress(c) \/ NewAddress(c) \/ PoolExhausted(c) \/ Delete(c)
      BY <1>3
    <2>2. call[c].at = "loaded" /\ call[c].peer \in Peers /\ UNCHANGED copy
      BY <2>1 DEF KeepAddress, NewAddress, PoolExhausted, Delete, TypeOK
    <2>3. PICK a \in First..Last \cup {NoAddress} :
            Settle(c, a) /\ (Replace(c, a) \/ UNCHANGED file)
      BY <2>1, <2>2 DEF KeepAddress, NewAddress, PoolExhausted, Delete, TypeOK, Files, Addresses
    <2>4. file' \in Files
      BY <2>2, <2>3, ReplaceTyped DEF TypeOK
    <2> QED BY <2>2, <2>3, <2>4, MovedTyped DEF TypeOK, Settle
  <1>4. CASE \E c \in Calls : Reply(c) \/ Fail(c)
    <2>1. NoAddress \in First..Last \cup {NoAddress}
      OBVIOUS
    <2> QED BY <1>4, <2>1, MovedTyped DEF Reply, Fail, TypeOK
  <1>5. CASE Crash
    <2>1. \A c \in Calls : [call[c] EXCEPT !.at = "lost"] \in CallTypes
      BY DEF TypeOK, CallTypes
    <2>2. \A c \in Calls : call[c] \in CallTypes
      BY DEF TypeOK
    <2>3. call' \in [Calls -> CallTypes]
      BY <1>5, <2>1, <2>2 DEF Crash
    <2>4. \A c \in Calls : call'[c].peer = call[c].peer /\
                           (call'[c].at = call[c].at \/ call[c].at # "unsent")
      BY <1>5, <2>2 DEF Crash, CallTypes, Working
    <2> QED BY <1>5, <2>3, <2>4 DEF Crash, TypeOK
  <1>6. CASE UNCHANGED vars
    BY <1>6 DEF vars, TypeOK
  <1> QED BY <1>1, <1>2, <1>3, <1>4, <1>5, <1>6 DEF Next, Mutate

(* The state of the agent stays well formed. *)
THEOREM StoreTypeCorrect == Spec => []TypeOK
  BY TypeInit, TypeStep, PTL DEF Spec
-----------------------------------------------------------------------------
(* The flock.                                                              *)
(*                                                                         *)
(* One thread at a time is between reading the file and replacing it, so   *)
(* what it has read is still what the file holds.                          *)

LockInv ==
    /\ \A c, d \in Calls : call[c].at = "loaded" /\ call[d].at = "loaded" => c = d
    /\ \A c \in Calls : call[c].at = "loaded" => copy[c] = file

(* Every step, seen from the call that takes it. *)
LEMMA LockStep ==
  ASSUME TypeOK, LockInv, [Next]_vars
  PROVE  LockInv'
  <1> USE DEF LockInv
  <1>0. NoAddress \in First..Last \cup {NoAddress}
    OBVIOUS
  <1>1. CASE \E c \in Calls, op \in Ops, u \in Peers : Request(c, op, u)
    <2>1. PICK c \in Calls, op \in Ops, u \in Peers : Request(c, op, u)
      BY <1>1
    <2>2. /\ \A d \in Calls : d # c => call'[d] = call[d]
          /\ call'[c].at = "sent" /\ UNCHANGED <<file, copy>>
      BY <2>1 DEF Request, TypeOK
    <2> QED BY <2>2
  <1>2. CASE \E c \in Calls : Load(c)
    <2>1. PICK c \in Calls : Load(c)
      BY <1>2
    <2>2. \A d \in Calls : d # c => call'[d] = call[d]
      BY <1>0, <2>1, MovedTyped DEF Load
    <2>3. \A d \in Calls : call[d].at # "loaded"
      BY <2>1 DEF Load, LockFree
    <2>4. copy'[c] = file' /\ file' = file
      BY <2>1 DEF Load, TypeOK
    <2> QED BY <2>2, <2>3, <2>4
  <1>3. CASE \E c \in Calls : KeepAddress(c) \/ NewAddress(c) \/ PoolExhausted(c) \/ Delete(c)
    <2>1. PICK c \in Calls : KeepAddress(c) \/ NewAddress(c) \/ PoolExhausted(c) \/ Delete(c)
      BY <1>3
    <2>2. call[c].at = "loaded" /\ UNCHANGED copy
      BY <2>1 DEF KeepAddress, NewAddress, PoolExhausted, Delete
    <2>3. PICK a \in First..Last \cup {NoAddress} : Settle(c, a)
      BY <2>1, <2>2 DEF KeepAddress, NewAddress, PoolExhausted, Delete, TypeOK, Files, Addresses
    <2>4. call'[c].at = "settled" /\ \A d \in Calls : d # c => call'[d] = call[d]
      BY <2>2, <2>3, MovedTyped DEF Settle
    <2> QED BY <2>2, <2>4
  <1>4. CASE \E c \in Calls : Reply(c) \/ Fail(c)
    <2>1. PICK c \in Calls : Reply(c) \/ Fail(c)
      BY <1>4
    <2>2. /\ call'[c].at # "loaded" /\ \A d \in Calls : d # c => call'[d] = call[d]
          /\ UNCHANGED <<file, copy>>
      BY <1>0, <2>1, MovedTyped DEF Reply, Fail
    <2> QED BY <2>2
  <1>5. CASE Crash
    <2>1. \A c \in Calls : call'[c].at # "loaded"
      BY <1>5 DEF Crash, Working, TypeOK, CallTypes
    <2> QED BY <2>1
  <1>6. CASE UNCHANGED vars
    BY <1>6 DEF vars
  <1> QED BY <1>1, <1>2, <1>3, <1>4, <1>5, <1>6 DEF Next, Mutate

LEMMA LockInvariant == Spec => []LockInv
  <1>1. Init => LockInv
    BY DEF Init, LockInv
  <1> QED BY <1>1, LockStep, StoreTypeCorrect, PTL DEF Spec

(* What a step can do to the file: nothing, or one line of it. *)
LEMMA FileSteps ==
  ASSUME TypeOK, LockInv, [Next]_vars
  PROVE  \/ UNCHANGED file
         \/ \E u \in Peers :
              \/ file' = [file EXCEPT ![u] = NoAddress]
              \/ /\ file[u] = NoAddress
                 /\ \E a \in Addresses :
                      /\ file' = [file EXCEPT ![u] = a]
                      /\ a \notin Foreign /\ \A v \in Peers : file[v] # a
  <1>1. CASE \E c \in Calls : Load(c) \/ PoolExhausted(c) \/ Reply(c) \/ Fail(c)
    BY <1>1 DEF Load, PoolExhausted, Reply, Fail
  <1>2. CASE \E c \in Calls : KeepAddress(c) \/ NewAddress(c) \/ Delete(c)
    <2>1. PICK c \in Calls : KeepAddress(c) \/ NewAddress(c) \/ Delete(c)
      BY <1>2
    <2>2. call[c].peer \in Peers /\ copy[c] = file /\ file \in Files
      BY <2>1 DEF KeepAddress, NewAddress, Delete, LockInv, TypeOK
    <2>3. CASE KeepAddress(c)
      BY <2>2, <2>3 DEF KeepAddress, Replace, Files
    <2>4. CASE NewAddress(c)
      BY <2>2, <2>4 DEF NewAddress, Known, Allocate, Used, Replace
    <2>5. CASE Delete(c)
      BY <2>2, <2>5 DEF Delete, Replace
    <2> QED BY <2>1, <2>3, <2>4, <2>5
  <1>3. CASE (\E c \in Calls, op \in Ops, u \in Peers : Request(c, op, u)) \/ Crash
             \/ UNCHANGED vars
    BY <1>3 DEF Request, Crash, vars
  <1> QED BY <1>1, <1>2, <1>3 DEF Next, Mutate

(* No tunnel address is handed out twice, nor taken from the operator.     *)
THEOREM AddressesStayUnique == Spec => []AddressesUnique
  <1>1. Init => AddressesUnique
    BY AbsentAssumption DEF Init, AddressesUnique
  <1>2. TypeOK /\ LockInv /\ AddressesUnique /\ [Next]_vars => AddressesUnique'
    <2> SUFFICES ASSUME TypeOK, LockInv, AddressesUnique, [Next]_vars
                 PROVE  AddressesUnique'
      OBVIOUS
    <2>1. CASE UNCHANGED file
      BY <2>1 DEF AddressesUnique
    <2>2. CASE \E u \in Peers : file' = [file EXCEPT ![u] = NoAddress]
      BY <2>2, AbsentAssumption DEF AddressesUnique, TypeOK, Files
    <2>3. ASSUME NEW u \in Peers, NEW a \in Addresses, file' = [file EXCEPT ![u] = a],
                 a \notin Foreign, \A v \in Peers : file[v] # a
          PROVE  AddressesUnique'
      BY <2>3 DEF AddressesUnique, TypeOK, Files
    <2> QED BY <2>1, <2>2, <2>3, FileSteps
  <1> QED BY <1>1, <1>2, StoreTypeCorrect, LockInvariant, PTL DEF Spec

(* A registered peer keeps its address until it is deleted.                *)
THEOREM AddressesKept == Spec => AddressStable
  <1>1. ASSUME TypeOK, LockInv, [Next]_vars
        PROVE  \A u \in Peers : file[u] # NoAddress => file'[u] \in {file[u], NoAddress}
    BY <1>1, FileSteps DEF TypeOK, Files
  <1> QED BY <1>1, StoreTypeCorrect, LockInvariant, PTL DEF Spec, AddressStable
-----------------------------------------------------------------------------
(* The registry.                                                           *)

(* What callers see of a call moves only where the thread's step shows.    *)
LEMMA SeenMoves ==
  ASSUME TypeOK, NEW c \in Calls, NEW r \in CallTypes, call' = [call EXCEPT ![c] = r]
  PROVE  /\ r.at # "loaded" => SeenCall' = [SeenCall EXCEPT ![c] = r]
         /\ r = [call[c] EXCEPT !.at = "loaded"] /\ call[c].at = "sent"
              => SeenCall' = SeenCall
  <1>1. call[c] \in CallTypes /\ call \in [Calls -> CallTypes]
    BY DEF TypeOK
  <1>2. \A d \in Calls : call'[d] = IF d = c THEN r ELSE call[d]
    BY <1>1
  <1>3. SeenCall' = [SeenCall EXCEPT ![c] = Seen(r)]
    <2>1. SeenCall' = [d \in Calls |-> Seen(call'[d])]
      BY DEF SeenCall, Seen
    <2>2. \A d \in Calls : Seen(call'[d]) = IF d = c THEN Seen(r) ELSE SeenCall[d]
      BY <1>2 DEF SeenCall
    <2>3. SeenCall = [d \in Calls |-> SeenCall[d]]
      BY DEF SeenCall
    <2> QED BY <2>1, <2>2, <2>3
  <1>4. ASSUME r.at # "loaded" PROVE Seen(r) = r
    BY <1>4 DEF Seen
  <1>5. ASSUME r = [call[c] EXCEPT !.at = "loaded"], call[c].at = "sent"
        PROVE  Seen(r) = SeenCall[c]
    <2>1. [r EXCEPT !.at = "sent"] = call[c] /\ r.at = "loaded"
      BY <1>1, <1>5 DEF CallTypes
    <2> QED BY <1>5, <2>1 DEF Seen, SeenCall
  <1>6. SeenCall = [SeenCall EXCEPT ![c] = SeenCall[c]]
    BY DEF SeenCall
  <1> QED BY <1>3, <1>4, <1>5, <1>6

(* A thread's decision is the registry's, made on what it read.            *)
LEMMA DecisionSteps ==
  ASSUME TypeOK, LockInv, NEW c \in Calls,
         KeepAddress(c) \/ NewAddress(c) \/ PoolExhausted(c) \/ Delete(c)
  PROVE  Registry!Serve(c)
  <1>1. /\ call[c] \in CallTypes /\ call[c].at = "loaded" /\ call[c].peer \in Peers
        /\ copy[c] = file /\ file \in Files
    BY DEF KeepAddress, NewAddress, PoolExhausted, Delete, TypeOK, LockInv
  <1>2. /\ SeenCall[c] = [call[c] EXCEPT !.at = "sent"]
        /\ SeenCall[c].at = "sent" /\ SeenCall[c].op = call[c].op
        /\ SeenCall[c].peer = call[c].peer
    BY <1>1 DEF SeenCall, Seen, CallTypes
  <1>3. ASSUME NEW a \in First..Last \cup {NoAddress}, Settle(c, a)
        PROVE  Registry!Settle(c, a)
    <2> DEFINE r == [call[c] EXCEPT !.at = "settled", !.got = a]
               q == [SeenCall[c] EXCEPT !.at = "settled", !.got = a]
    <2>1. r \in CallTypes /\ r.at = "settled"
      BY <1>1 DEF CallTypes
    <2>2. r = q
      BY <1>1, <1>2 DEF CallTypes
    <2>3. call' = [call EXCEPT ![c] = r]
      BY <1>3 DEF Settle
    <2>4. SeenCall' = [SeenCall EXCEPT ![c] = r]
      <3> HIDE DEF r
      <3> QED BY <2>1, <2>3, SeenMoves
    <2> QED BY <2>2, <2>4 DEF Registry!Settle
  <1>4. CASE KeepAddress(c)
    <2>1. copy[c][call[c].peer] \in First..Last /\ UNCHANGED file
      BY <1>1, <1>4 DEF KeepAddress, Known, Replace, Files
    <2> QED BY <1>1, <1>2, <1>3, <1>4, <2>1
            DEF KeepAddress, Known, Registry!Keep, Registry!Serve, Registry!Effect
  <1>5. CASE NewAddress(c)
    <2>1. PICK a \in Addresses : Allocate(c, a) /\ Replace(c, a) /\ Settle(c, a)
      BY <1>5 DEF NewAddress
    <2>2. a \in Registry!Free /\ file' = [file EXCEPT ![call[c].peer] = a]
      BY <1>1, <2>1 DEF Allocate, Used, Replace, Registry!Free
    <2> QED BY <1>1, <1>2, <1>3, <1>5, <2>1, <2>2
            DEF Addresses, NewAddress, Known, Registry!Assign, Registry!Serve, Registry!Effect
  <1>6. CASE PoolExhausted(c)
    <2>1. Registry!Free = {}
      BY <1>1, <1>6 DEF PoolExhausted, Used, Registry!Free
    <2> QED BY <1>1, <1>2, <1>3, <1>6, <2>1
            DEF PoolExhausted, Known, Registry!Exhausted, Registry!Serve, Registry!Effect
  <1>7. CASE Delete(c)
    <2>1. file' = [file EXCEPT ![call[c].peer] = NoAddress]
      BY <1>1, <1>7 DEF Delete, Known, Replace, Files
    <2> QED BY <1>1, <1>2, <1>3, <1>7, <2>1 DEF Delete, Registry!Remove, Registry!Serve, Registry!Effect
  <1> QED BY <1>4, <1>5, <1>6, <1>7

(* Failed and killed threads lose their calls.                             *)
LEMMA LostSteps ==
  ASSUME TypeOK, (\E c \in Calls : Fail(c)) \/ Crash
  PROVE  \E cs \in SUBSET Calls : Registry!Lose(cs)
  <1>0. \A c \in Calls : call[c] \in CallTypes
    BY DEF TypeOK
  <1>1. \A c \in Calls : /\ SeenCall[c].at \in {"sent", "settled"} <=> call[c].at \in Working
                        /\ [SeenCall[c] EXCEPT !.at = "lost"] = [call[c] EXCEPT !.at = "lost"]
    BY <1>0 DEF SeenCall, Seen, CallTypes, Working
  <1>2. CASE \E c \in Calls : Fail(c)
    <2>1. PICK c \in Calls : Fail(c)
      BY <1>2
    <2> DEFINE r == [call[c] EXCEPT !.at = "lost"]
    <2>2. r \in CallTypes /\ r.at = "lost" /\ call' = [call EXCEPT ![c] = r]
      BY <1>0, <2>1 DEF Fail, CallTypes
    <2>3. SeenCall' = [SeenCall EXCEPT ![c] = r]
      <3> HIDE DEF r
      <3> QED BY <2>2, SeenMoves
    <2>4. SeenCall[c].at \in {"sent", "settled"} /\ UNCHANGED file
      BY <1>1, <2>1 DEF Fail, Working
    <2>5. SeenCall' = [d \in Calls |-> IF d \in {c} THEN [SeenCall[d] EXCEPT !.at = "lost"]
                                                    ELSE SeenCall[d]]
      BY <1>1, <2>3 DEF SeenCall, Seen
    <2>6. Registry!Lose({c})
      BY <2>4, <2>5 DEF Registry!Lose, Registry!InFlight
    <2> QED BY <2>6
  <1>3. CASE Crash
    <2> DEFINE cs == {c \in Calls : call[c].at \in Working}
    <2>1. \A d \in Calls : call'[d] = IF d \in cs THEN [call[d] EXCEPT !.at = "lost"] ELSE call[d]
      BY <1>3 DEF Crash
    <2>2. \A d \in Calls : call'[d].at # "loaded" /\ (d \notin cs => call[d].at # "loaded")
      BY <1>0, <2>1 DEF Working, CallTypes
    <2>3. SeenCall' = [d \in Calls |-> IF d \in cs THEN [SeenCall[d] EXCEPT !.at = "lost"]
                                                   ELSE SeenCall[d]]
      BY <1>1, <2>1, <2>2 DEF SeenCall, Seen
    <2>4. cs # {} /\ (\A c \in cs : SeenCall[c].at \in {"sent", "settled"}) /\ UNCHANGED file
      BY <1>1, <1>3 DEF Crash
    <2>5. Registry!Lose(cs)
      BY <2>3, <2>4 DEF Registry!Lose, Registry!InFlight
    <2> QED BY <2>5
  <1> QED BY <1>2, <1>3

LEMMA RegistryStep ==
  ASSUME TypeOK, LockInv, [Next]_vars
  PROVE  [Registry!Next]_(Registry!registryVars)
  <1>0. \A c \in Calls : call[c] \in CallTypes
    BY DEF TypeOK
  <1>1. CASE \E c \in Calls, op \in Ops, u \in Peers : Request(c, op, u)
    <2>1. PICK c \in Calls, op \in Ops, u \in Peers : Request(c, op, u)
      BY <1>1
    <2> DEFINE r == [at |-> "sent", op |-> op, peer |-> u, got |-> NoAddress]
    <2>2. r \in CallTypes /\ r.at = "sent" /\ call' = [call EXCEPT ![c] = r]
      BY <2>1 DEF Request, CallTypes
    <2>3. SeenCall' = [SeenCall EXCEPT ![c] = r]
      <3> HIDE DEF r
      <3> QED BY <2>2, SeenMoves
    <2>4. Registry!Send(c, op, u)
      BY <2>1, <2>3 DEF Request, Registry!Send, SeenCall, Seen
    <2> QED BY <2>4 DEF Registry!Next, Registry!Ops, Ops
  <1>2. CASE \E c \in Calls : Load(c)
    <2>1. PICK c \in Calls : Load(c)
      BY <1>2
    <2> DEFINE r == [call[c] EXCEPT !.at = "loaded"]
    <2>2. r \in CallTypes /\ call' = [call EXCEPT ![c] = r] /\ call[c].at = "sent"
      BY <1>0, <2>1 DEF Load, CallTypes
    <2>3. SeenCall' = SeenCall /\ UNCHANGED file
      BY <2>1, <2>2, SeenMoves DEF Load
    <2> QED BY <2>3 DEF Registry!registryVars
  <1>3. CASE \E c \in Calls : KeepAddress(c) \/ NewAddress(c) \/ PoolExhausted(c) \/ Delete(c)
    BY <1>3, DecisionSteps DEF Registry!Next
  <1>4. CASE \E c \in Calls : Reply(c)
    <2>1. PICK c \in Calls : Reply(c)
      BY <1>4
    <2> DEFINE r == [call[c] EXCEPT !.at = "answered"]
    <2>2. r \in CallTypes /\ r.at = "answered" /\ call' = [call EXCEPT ![c] = r]
      BY <1>0, <2>1 DEF Reply, CallTypes
    <2>3. SeenCall' = [SeenCall EXCEPT ![c] = r]
      <3> HIDE DEF r
      <3> QED BY <2>2, SeenMoves
    <2>4. SeenCall[c] = call[c]
      BY <2>1 DEF Reply, SeenCall, Seen
    <2>5. Registry!Answer(c)
      BY <2>1, <2>3, <2>4 DEF Reply, Registry!Answer
    <2> QED BY <2>5 DEF Registry!Next, Registry!Serve
  <1>5. CASE (\E c \in Calls : Fail(c)) \/ Crash
    BY <1>5, LostSteps DEF Registry!Next
  <1>6. CASE UNCHANGED vars
    BY <1>6 DEF vars, SeenCall, Registry!registryVars
  <1> QED BY <1>1, <1>2, <1>3, <1>4, <1>5, <1>6 DEF Next, Mutate

(* The agent implements the registry: each request takes effect at once or *)
(* not at all, between its arrival and its answer.                         *)
THEOREM StoreImplementsRegistry == Spec => ImplementsRegistry
  <1>1. Init => Registry!Init
    BY DEF Init, Registry!Init, Registry!Unsent, SeenCall, Seen
  <1> QED BY <1>1, RegistryStep, StoreTypeCorrect, LockInvariant, PTL
          DEF Spec, ImplementsRegistry, Registry!Spec
=============================================================================
