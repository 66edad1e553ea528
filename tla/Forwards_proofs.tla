-------------------------- MODULE Forwards_proofs ---------------------------
(***************************************************************************)
(* Proofs about the forwards of one laptop: an up that ends leaves nothing *)
(* behind (NothingLeftBehind), a live session keeps the forwards it opened *)
(* (ForwardsStay), and a forward that is reused is open (ReuseIsOpen), for *)
(* any ups, services and ports and whatever hazards there are.             *)
(***************************************************************************)
EXTENDS Forwards, SequenceTheorems, WellFoundedInduction, TLAPS

-----------------------------------------------------------------------------
(* Lemmas about sequences *)

Less == {pair \in Nat \X Nat : pair[1] < pair[2]}

LEMMA LessIsWellFounded == IsWellFoundedOn(Less, Nat)
<1>1. Less = OpToRel(<, Nat)
  BY Zenon DEF Less, OpToRel
<1> QED
  BY <1>1, NatLessThanWellFounded, Zenon

LEMMA MinIsThere ==
    ASSUME NEW S \in SUBSET Nat, S # {}
    PROVE  Min(S) \in S
<1>1. PICK x \in S : \A y \in S : ~(<<y, x>> \in Less)
  BY LessIsWellFounded, WFMin, Zenon
<1>2. ASSUME NEW y \in S
      PROVE  x <= y
  <2>1. <<y, x>> \in Nat \X Nat /\ <<y, x>>[1] = y /\ <<y, x>>[2] = x
    OBVIOUS
  <2>2. ~(y < x)
    BY <1>1, <2>1 DEF Less
  <2> QED
    BY <2>2
<1> QED
  BY <1>2 DEF Min

LEMMA Elements ==
    ASSUME NEW R, NEW s \in Seq(R)
    PROVE  /\ DOMAIN s = 1..Len(s) /\ Len(s) \in Nat /\ \A i \in 1..Len(s) : s[i] \in R
           /\ s # <<>> => Head(s) \in R /\ Tail(s) \in Seq(R)
  BY HeadTailProperties, EmptySeq

\* The element at i is gone, and those behind it have moved up.
LEMMA Removed ==
    ASSUME NEW R, NEW s \in Seq(R), NEW i \in 1..Len(s)
    PROVE  /\ RemoveAt(s, i) \in Seq(R) /\ Len(RemoveAt(s, i)) = Len(s) - 1
           /\ \A j \in 1..(Len(s) - 1) : RemoveAt(s, i)[j] = IF j < i THEN s[j] ELSE s[j + 1]
<1> DEFINE front == SubSeq(s, 1, i - 1)
           back == SubSeq(s, i + 1, Len(s))
<1>1. Len(s) \in Nat /\ i \in Nat /\ i >= 1 /\ i <= Len(s)
  BY Elements
<1>2. /\ front \in Seq(R) /\ Len(front) = i - 1
      /\ \A j \in 1..(i - 1) : front[j] = s[j]
  BY <1>1, SubSeqProperties
<1>3. /\ back \in Seq(R) /\ Len(back) = Len(s) - i
      /\ \A j \in 1..(Len(s) - i) : back[j] = s[i + j]
  BY <1>1, SubSeqProperties
<1>4. RemoveAt(s, i) = front \o back
  BY DEF RemoveAt
<1> HIDE DEF front, back
<1>5. /\ front \o back \in Seq(R) /\ Len(front \o back) = Len(s) - 1
      /\ \A j \in 1..(Len(s) - 1) :
             (front \o back)[j] = IF j <= i - 1 THEN front[j] ELSE back[j - (i - 1)]
  <2>1. /\ front \o back \in Seq(R) /\ Len(front \o back) = Len(front) + Len(back)
        /\ \A j \in 1..(Len(front) + Len(back)) :
               (front \o back)[j] = IF j <= Len(front) THEN front[j] ELSE back[j - Len(front)]
    BY <1>2, <1>3, ConcatProperties
  <2>2. Len(front) + Len(back) = Len(s) - 1
    BY <1>1, <1>2, <1>3
  <2> QED
    BY <1>2, <2>1, <2>2
<1>6. ASSUME NEW j \in 1..(Len(s) - 1)
      PROVE  (front \o back)[j] = IF j < i THEN s[j] ELSE s[j + 1]
  <2>1. CASE j < i
    BY <1>1, <1>2, <1>5, <2>1
  <2>2. CASE ~(j < i)
    <3>1. j - (i - 1) \in 1..(Len(s) - i) /\ i + (j - (i - 1)) = j + 1
      BY <1>1, <2>2
    <3> QED
      BY <1>1, <1>3, <1>5, <2>2, <3>1
  <2> QED
    BY <2>1, <2>2
<1> QED
  BY <1>4, <1>5, <1>6

LEMMA Wider == ASSUME NEW R, NEW Q, R \subseteq Q, NEW s \in Seq(R) PROVE s \in Seq(Q)
  OBVIOUS

\* state.json without the session of u's service holds none of that service.
LEMMA WithoutIt ==
    ASSUME recorded \in Seq(Ups), OnePerService, NEW u \in Ups
    PROVE  /\ Without(u) \in Seq(Ups)
           /\ \A i \in DOMAIN Without(u) : Service[Without(u)[i]] # Service[u]
           /\ \A i, j \in DOMAIN Without(u) :
                  Service[Without(u)[i]] = Service[Without(u)[j]] => i = j
<1> DEFINE found == {i \in 1..Len(recorded) : Service[recorded[i]] = Service[u]}
<1>0. DOMAIN recorded = 1..Len(recorded) /\ Len(recorded) \in Nat /\ found \in SUBSET Nat
  BY Elements
<1>1. CASE found = {}
  <2>1. Without(u) = recorded
    BY <1>1 DEF Without, RemoveFirstMatch
  <2> QED
    BY <1>0, <1>1, <2>1 DEF OnePerService
<1>2. CASE found # {}
  <2>1. Without(u) = RemoveAt(recorded, Min(found))
    BY <1>2 DEF Without, RemoveFirstMatch, SelectInSeq
  <2>2. PICK k \in found : Without(u) = RemoveAt(recorded, k)
    <3> HIDE DEF found
    <3> QED
      BY <1>0, <1>2, <2>1, MinIsThere
  <2>3. k \in 1..Len(recorded) /\ Service[recorded[k]] = Service[u]
    BY <2>2
  <2>4. \A i \in 1..Len(recorded) : i # k => Service[recorded[i]] # Service[u]
    BY <1>0, <2>3 DEF OnePerService
  <2> DEFINE rest == RemoveAt(recorded, k)
  <2>5. /\ rest \in Seq(Ups) /\ DOMAIN rest = 1..(Len(recorded) - 1)
        /\ \A j \in 1..(Len(recorded) - 1) : rest[j] = IF j < k THEN recorded[j] ELSE recorded[j + 1]
    BY <2>3, Removed, Elements
  <2> HIDE DEF rest, found
  <2>6. ASSUME NEW j \in DOMAIN rest
        PROVE  \E i \in 1..Len(recorded) :
                   rest[j] = recorded[i] /\ i # k /\ (j < k => i = j) /\ (~(j < k) => i = j + 1)
    <3>1. CASE j < k
      BY <1>0, <2>3, <2>5, <3>1
    <3>2. CASE ~(j < k)
      <4>1. j + 1 \in 1..Len(recorded) /\ j + 1 # k /\ rest[j] = recorded[j + 1]
        BY <1>0, <2>3, <2>5, <3>2
      <4> QED
        BY <3>2, <4>1
    <3> QED
      BY <3>1, <3>2
  <2>7. \A j \in DOMAIN rest : Service[rest[j]] # Service[u]
    BY <2>4, <2>6
  <2>8. ASSUME NEW i \in DOMAIN rest, NEW j \in DOMAIN rest, Service[rest[i]] = Service[rest[j]]
        PROVE  i = j
    <3>1. PICK m \in 1..Len(recorded) :
              rest[i] = recorded[m] /\ m # k /\ (i < k => m = i) /\ (~(i < k) => m = i + 1)
      BY <2>6
    <3>2. PICK n \in 1..Len(recorded) :
              rest[j] = recorded[n] /\ n # k /\ (j < k => n = j) /\ (~(j < k) => n = j + 1)
      BY <2>6
    <3>3. m = n
      BY <1>0, <2>8, <3>1, <3>2 DEF OnePerService
    <3> QED
      BY <1>0, <2>3, <2>5, <3>1, <3>2, <3>3
  <2> QED
    BY <2>2, <2>5, <2>7, <2>8 DEF rest
<1> QED
  BY <1>1, <1>2

LEMMA Upserted ==
    ASSUME recorded \in Seq(Ups), OnePerService, NEW u \in Ups
    PROVE  /\ Upsert(u) \in Seq(Ups)
           /\ \A i, j \in DOMAIN Upsert(u) :
                  Service[Upsert(u)[i]] = Service[Upsert(u)[j]] => i = j
<1>1. Without(u) \in Seq(Ups) /\ Upsert(u) = Append(Without(u), u)
  BY WithoutIt DEF Upsert
<1>2. /\ Upsert(u) \in Seq(Ups) /\ DOMAIN Upsert(u) = DOMAIN Without(u) \cup {Len(Without(u)) + 1}
      /\ \A i \in DOMAIN Without(u) : Upsert(u)[i] = Without(u)[i]
      /\ Upsert(u)[Len(Without(u)) + 1] = u
  BY <1>1, AppendProperties
<1> QED
  BY <1>1, <1>2, WithoutIt

\* Who is said to own a forward has kept a guard of it.
LEMMA OwnerOwns ==
    ASSUME NEW u \in Ups, NEW p \in Ports, view[u] \in Seq(Ups), ForwardOwner(u, p) # Nobody
    PROVE  ForwardOwner(u, p) \in Ups /\ p \in owned[ForwardOwner(u, p)]
<1> DEFINE owners == {i \in 1..Len(view[u]) : p \in owned[view[u][i]] \cap Range(Wants[view[u][i]])}
<1>1. owners # {} /\ ForwardOwner(u, p) = view[u][Min(owners)]
  BY DEF ForwardOwner, SelectInSeq
<1>2. owners \in SUBSET Nat /\ \A i \in 1..Len(view[u]) : view[u][i] \in Ups
  BY Elements
<1>3. Min(owners) \in owners
  <2> HIDE DEF owners
  <2> QED
    BY <1>1, <1>2, MinIsThere
<1>4. PICK i \in owners : i = Min(owners)
  BY <1>3
<1>5. i \in 1..Len(view[u]) /\ p \in owned[view[u][i]]
  <2>1. i \in owners
    OBVIOUS
  <2> QED
    BY <2>1
<1> QED
  BY <1>1, <1>2, <1>4, <1>5

\* What the constants are, and what the ports of an up are.
LEMMA Constants ==
    /\ Nobody \notin Ups \cup Ports /\ Stranger \notin Ups \cup Ports /\ Nobody # Stranger
    /\ LocalPort \in [Ups -> Ports \cup {Nobody}] /\ Pickable \subseteq Ports
    /\ Ports \cap {"control plane", "sshd", "state"} = {}
    /\ \A u \in Ups : /\ Opens(u) \subseteq Ports /\ LocalPort[u] \notin Opens(u)
                      /\ Range(Wants[u]) \subseteq Ports /\ Wants[u] \in Seq(Range(Wants[u]))
<1>1. ASSUME NEW u \in Ups
      PROVE  Range(Wants[u]) \subseteq Ports /\ Wants[u] \in Seq(Range(Wants[u]))
  <2>1. Wants[u] \in Seq(Ports)
    BY ForwardsAssumption
  <2> QED
    BY <2>1, Elements DEF Range
<1> QED
  BY <1>1, RunnerAssumption, ForwardsAssumption DEF Opens

\* What an up may still have to open.
Named(u) == {"control plane", "sshd", "state"} \cup Range(Wants[u])

LEMMA TargetsAreNamed == ASSUME NEW u \in Ups PROVE Targets(u) \in Seq(Named(u))
<1>1. Wants[u] \in Seq(Named(u))
  <2>1. Wants[u] \in Seq(Range(Wants[u])) /\ Range(Wants[u]) \subseteq Named(u)
    BY Constants DEF Named
  <2> QED
    BY <2>1, Wider
<1>2. /\ <<>> \in Seq(Named(u)) /\ <<"control plane", "sshd">> \in Seq(Named(u))
      /\ <<"state">> \in Seq(Named(u))
  BY DEF Named
<1> DEFINE first == IF IsWorker(u) THEN <<>> ELSE <<"control plane", "sshd">>
<1>3. first \in Seq(Named(u))
  BY <1>2
<1>4. Targets(u) = (first \o <<"state">>) \o Wants[u]
  BY DEF Targets
<1> HIDE DEF first
<1>5. first \o <<"state">> \in Seq(Named(u))
  BY <1>2, <1>3, ConcatProperties
<1> QED
  BY <1>1, <1>4, <1>5, ConcatProperties

\* An up that changes what it has to open still opens nothing else.
LEMMA TodoStays ==
    ASSUME IndInv, NEW u \in Ups, NEW rest \in Seq(Named(u)), todo' = [todo EXCEPT ![u] = rest]
    PROVE  /\ todo' \in [Ups -> Seq(Ports \cup {"control plane", "sshd", "state"})]
           /\ \A v \in Ups : todo'[v] \in Seq({"control plane", "sshd", "state"} \cup Range(Wants[v]))
<1>1. rest \in Seq(Ports \cup {"control plane", "sshd", "state"})
  <2>1. Named(u) \subseteq Ports \cup {"control plane", "sshd", "state"}
    BY Constants DEF Named
  <2> QED
    BY <2>1, Wider
<1> QED
  BY <1>1 DEF IndInv, TypeOK, OpensItsOwn, Named

LEMMA RestIsNamed ==
    ASSUME IndInv, NEW u \in Ups
    PROVE  <<>> \in Seq(Named(u)) /\ (todo[u] # <<>> => Tail(todo[u]) \in Seq(Named(u)))
<1>1. todo[u] \in Seq(Named(u))
  BY DEF IndInv, OpensItsOwn, Named
<1> QED
  BY <1>1, Elements, EmptySeq

\* Ups keep their ports if no port is taken from who has it.
LEMMA PortsKept ==
    ASSUME IndInv, UNCHANGED <<pc, owned, doubtful>>,
           \A v \in Ups : \A q \in Opens(v) : holder[q] = v => holder'[q] = v
    PROVE  KeepsItsOwn'
<1> SUFFICES ASSUME NEW v \in Ups \ doubtful, pc[v] # "exited", NEW q \in owned[v]
             PROVE  holder'[q] = v
  BY DEF KeepsItsOwn
<1>1. holder[q] = v /\ q \in Opens(v)
  BY DEF IndInv, KeepsItsOwn, OpensItsOwn
<1> QED
  BY <1>1

-----------------------------------------------------------------------------
(* The initial states and what every action keeps *)

\* The tuples of variables, wherever a step leaves them alone.
USE DEF Goto, runner, processes, locals, links, world, forwards

LEMMA InitEstablishes == Init => IndInv
<1> SUFFICES ASSUME Init PROVE IndInv
  OBVIOUS
<1>1. \A R : <<>> \in Seq(R)
  BY EmptySeq
<1>2. TypeOK
  BY <1>1 DEF Init, RunnerInit, TypeOK, RunnerTypeOK, Stages, ShellStates, WorkStates
<1>3. ServiceFollowsUp /\ OpensItsOwn /\ KeepsItsOwn /\ BorrowsFromOwners /\ OnePerService
  BY <1>1 DEF Init, RunnerInit, ServiceFollowsUp, FollowsUp, OpensItsOwn, KeepsItsOwn, BorrowsFromOwners, OnePerService
<1> QED
  BY <1>2, <1>3 DEF IndInv

LEMMA CheckKeeps == ASSUME IndInv, NEW u \in Ups, Check(u) PROVE IndInv'
<1> USE Constants DEF IndInv, Check
<1>0. /\ todo' \in [Ups -> Seq(Ports \cup {"control plane", "sshd", "state"})]
      /\ \A v \in Ups : todo'[v] \in Seq({"control plane", "sshd", "state"} \cup Range(Wants[v]))
  BY TargetsAreNamed, TodoStays
<1>1. TypeOK'
  BY <1>0 DEF TypeOK, RunnerTypeOK, Stages, ShellStates, WorkStates
<1>2. ServiceFollowsUp'
  BY DEF TypeOK, RunnerTypeOK, ServiceFollowsUp, FollowsUp
<1>3. OpensItsOwn'
  <2>1. \A v \in Ups : pc'[v] = "waiting" =>
            pc[v] = "waiting" /\ waiting'[v] = waiting[v] /\ todo'[v] = todo[v]
    BY DEF TypeOK
  <2> QED
    BY <1>0, <2>1 DEF OpensItsOwn, Opens
<1>4. KeepsItsOwn'
  BY DEF TypeOK, RunnerTypeOK, KeepsItsOwn
<1>5. BorrowsFromOwners'
  BY DEF TypeOK, BorrowsFromOwners
<1>6. OnePerService'
  BY DEF TypeOK, OnePerService
<1> QED
  BY <1>1, <1>2, <1>3, <1>4, <1>5, <1>6

\* An up waits for a port it picked or its service declares.
LEMMA StartAwsKeeps ==
    ASSUME IndInv, NEW u \in Ups, NEW p \in Ports, Opening(u), p \in Opens(u), StartAws(u, p)
    PROVE  IndInv'
<1> USE Constants DEF IndInv, StartAws, Opening
<1>1. TypeOK'
  BY DEF TypeOK, RunnerTypeOK, Stages, ShellStates, WorkStates
<1>2. ServiceFollowsUp'
  BY DEF TypeOK, RunnerTypeOK, ServiceFollowsUp, FollowsUp
<1>3. OpensItsOwn'
  BY DEF TypeOK, OpensItsOwn, Opens
<1>4. KeepsItsOwn'
  BY DEF TypeOK, RunnerTypeOK, KeepsItsOwn
<1>5. BorrowsFromOwners'
  BY DEF TypeOK, BorrowsFromOwners
<1>6. OnePerService'
  BY DEF TypeOK, OnePerService
<1> QED
  BY <1>1, <1>2, <1>3, <1>4, <1>5, <1>6

LEMMA LoadStateKeeps == ASSUME IndInv, NEW u \in Ups, LoadState(u) PROVE IndInv'
<1> USE Constants DEF IndInv, LoadState, Done, Opening
<1>0. /\ todo' \in [Ups -> Seq(Ports \cup {"control plane", "sshd", "state"})]
      /\ \A v \in Ups : todo'[v] \in Seq({"control plane", "sshd", "state"} \cup Range(Wants[v]))
  BY RestIsNamed, TodoStays
<1>1. TypeOK'
  BY <1>0 DEF TypeOK, RunnerTypeOK, Stages, ShellStates, WorkStates
<1>2. ServiceFollowsUp'
  BY DEF TypeOK, RunnerTypeOK, ServiceFollowsUp, FollowsUp
<1>3. OpensItsOwn'
  BY <1>0 DEF TypeOK, OpensItsOwn, Opens
<1>4. KeepsItsOwn'
  BY DEF TypeOK, RunnerTypeOK, KeepsItsOwn
<1>5. BorrowsFromOwners'
  BY DEF TypeOK, BorrowsFromOwners
<1>6. OnePerService'
  BY DEF TypeOK, OnePerService
<1> QED
  BY <1>1, <1>2, <1>3, <1>4, <1>5, <1>6

\* The owner recorded for a port keeps a guard of it.
LEMMA BorrowKeeps == ASSUME IndInv, NEW u \in Ups, NEW p \in Ports, Borrow(u, p) PROVE IndInv'
<1> USE Constants DEF IndInv, Borrow, Done, Opening, Declared
<1>0. /\ todo' \in [Ups -> Seq(Ports \cup {"control plane", "sshd", "state"})]
      /\ \A v \in Ups : todo'[v] \in Seq({"control plane", "sshd", "state"} \cup Range(Wants[v]))
  BY RestIsNamed, TodoStays
<1>1. TypeOK'
  BY <1>0, OwnerOwns DEF TypeOK, RunnerTypeOK, Stages
<1>2. ServiceFollowsUp'
  BY DEF TypeOK, RunnerTypeOK, ServiceFollowsUp, FollowsUp
<1>3. OpensItsOwn'
  BY <1>0 DEF TypeOK, OpensItsOwn, Opens
<1>4. KeepsItsOwn'
  BY DEF TypeOK, RunnerTypeOK, KeepsItsOwn
<1>5. BorrowsFromOwners'
  <2> DEFINE v == ForwardOwner(u, p)
  <2>1. v \in Ups /\ p \in owned[v]
    BY OwnerOwns DEF TypeOK
  <2>2. borrowed' = [borrowed EXCEPT ![u][p] = v] /\ owned' = owned
    OBVIOUS
  <2>3. borrowed \in [Ups -> [Ports -> Ups \cup {Nobody}]] /\ BorrowsFromOwners
    BY DEF TypeOK
  <2> HIDE DEF v, IndInv, Borrow
  <2> QED
    BY <2>1, <2>2, <2>3 DEF BorrowsFromOwners
<1>6. OnePerService'
  BY DEF TypeOK, OnePerService
<1> QED
  BY <1>1, <1>2, <1>3, <1>4, <1>5, <1>6

\* The port is up's own, or the up is doubtful from now on.
LEMMA WaitOkKeeps == ASSUME IndInv, NEW u \in Ups, WaitOk(u) PROVE IndInv'
<1> USE Constants DEF IndInv, WaitOk, Done, PortFree
<1>0. /\ todo' \in [Ups -> Seq(Ports \cup {"control plane", "sshd", "state"})]
      /\ \A v \in Ups : todo'[v] \in Seq({"control plane", "sshd", "state"} \cup Range(Wants[v]))
  <2>1. todo[u] # <<>>
    BY DEF OpensItsOwn
  <2> QED
    BY <2>1, RestIsNamed, TodoStays
<1>1. TypeOK'
  <2>1. waiting[u] \in Ports
    BY DEF OpensItsOwn
  <2>2. /\ pc' \in [Ups -> Stages] /\ waiting' \in [Ups -> Ports \cup {Nobody}]
        /\ owned' \in [Ups -> SUBSET Ports] /\ doubtful' \subseteq Ups
    BY <2>1 DEF TypeOK, Stages
  <2> QED
    BY <1>0, <2>2 DEF TypeOK, RunnerTypeOK
<1>2. ServiceFollowsUp'
  BY DEF TypeOK, RunnerTypeOK, ServiceFollowsUp, FollowsUp
<1>3. OpensItsOwn'
  <2>1. waiting[u] \in Opens(u)
    BY DEF OpensItsOwn
  <2>2. \A v \in Ups : owned'[v] \subseteq Opens(v)
    BY <2>1 DEF TypeOK, OpensItsOwn
  <2>3. \A v \in Ups : pc'[v] = "waiting" => waiting'[v] \in Opens(v) /\ todo'[v] # <<>>
    BY DEF TypeOK, OpensItsOwn
  <2> QED
    BY <1>0, <2>2, <2>3 DEF OpensItsOwn, Opens
<1>4. KeepsItsOwn'
  BY DEF TypeOK, RunnerTypeOK, KeepsItsOwn
<1>5. BorrowsFromOwners'
  <2>1. \A v \in Ups : owned[v] \subseteq owned'[v]
    BY DEF TypeOK
  <2>2. ASSUME NEW v \in Ups, NEW p \in Ports, borrowed[v][p] # Nobody
        PROVE  borrowed[v][p] \in Ups /\ p \in owned[borrowed[v][p]]
    <3>1. borrowed[v] \in [Ports -> Ups \cup {Nobody}]
      BY DEF TypeOK
    <3> QED
      BY <2>2, <3>1 DEF BorrowsFromOwners
  <2> QED
    BY <2>1, <2>2 DEF BorrowsFromOwners
<1>6. OnePerService'
  BY DEF TypeOK, OnePerService
<1> QED
  BY <1>1, <1>2, <1>3, <1>4, <1>5, <1>6

LEMMA FailUpKeeps == ASSUME IndInv, NEW u \in Ups, FailUp(u) PROVE IndInv'
<1> USE Constants DEF IndInv, FailUp, MustFail, Starting, ToDrop, Forget, Opening, Declared
<1>0. /\ todo' \in [Ups -> Seq(Ports \cup {"control plane", "sshd", "state"})]
      /\ \A v \in Ups : todo'[v] \in Seq({"control plane", "sshd", "state"} \cup Range(Wants[v]))
  BY RestIsNamed, TodoStays
<1>1. TypeOK'
  <2>1. pc' \in [Ups -> Stages]
    BY DEF TypeOK, Stages
  <2>2. /\ view' \in [Ups -> Seq(Ups)] /\ waiting' \in [Ups -> Ports \cup {Nobody}]
    <3>1. <<>> \in Seq(Ups)
      BY EmptySeq
    <3> QED
      BY <3>1 DEF TypeOK
  <2> QED
    BY <1>0, <2>1, <2>2 DEF TypeOK, RunnerTypeOK
<1>2. ServiceFollowsUp'
  <2>1. /\ pc[u] \in {"opening", "waiting", "spawned", "connecting"}
        /\ pc' = [pc EXCEPT ![u] = IF shell[u] = "none" THEN "closing" ELSE "dropping"]
        /\ UNCHANGED <<shell, drop, work, killed, aws>>
    OBVIOUS
  <2>2. \A v \in Ups : FollowsUp(v)
    BY DEF ServiceFollowsUp
  <2>3. pc'[u] \in {"closing", "dropping"} /\ (pc'[u] = "closing" <=> shell[u] = "none")
        /\ \A v \in Ups : v # u => pc'[v] = pc[v]
    BY <2>1 DEF TypeOK
  <2> HIDE DEF IndInv, FailUp, MustFail, ToDrop, Forget
  <2>4. FollowsUp(u)'
    BY <2>1, <2>2, <2>3 DEF FollowsUp
  <2>5. ASSUME NEW v \in Ups, v # u
        PROVE  FollowsUp(v)'
    BY <2>1, <2>2, <2>3, <2>5 DEF FollowsUp
  <2> QED
    BY <2>4, <2>5 DEF ServiceFollowsUp
<1>3. OpensItsOwn'
  <2>1. \A v \in Ups : pc'[v] = "waiting" =>
            pc[v] = "waiting" /\ waiting'[v] = waiting[v] /\ todo'[v] = todo[v]
    BY DEF TypeOK
  <2> QED
    BY <1>0, <2>1 DEF OpensItsOwn, Opens
<1>4. KeepsItsOwn'
  BY DEF TypeOK, RunnerTypeOK, KeepsItsOwn
<1>5. BorrowsFromOwners'
  BY DEF TypeOK, BorrowsFromOwners
<1>6. OnePerService'
  BY DEF TypeOK, OnePerService
<1> QED
  BY <1>1, <1>2, <1>3, <1>4, <1>5, <1>6

LEMMA SpawnServiceKeeps == ASSUME IndInv, NEW u \in Ups, SpawnService(u) PROVE IndInv'
<1> USE Constants DEF IndInv, SpawnService, Spawn
<1>1. TypeOK'
  <2>1. view' \in [Ups -> Seq(Ups)]
    <3>1. <<>> \in Seq(Ups)
      BY EmptySeq
    <3> QED
      BY <3>1 DEF TypeOK
  <2> QED
    BY <2>1 DEF TypeOK, RunnerTypeOK, Stages, ShellStates, WorkStates
<1>2. ServiceFollowsUp'
  BY DEF TypeOK, RunnerTypeOK, ServiceFollowsUp, FollowsUp
<1>3. OpensItsOwn'
  BY DEF TypeOK, OpensItsOwn, Opens
<1>4. KeepsItsOwn'
  BY DEF TypeOK, RunnerTypeOK, KeepsItsOwn
<1>5. BorrowsFromOwners'
  BY DEF TypeOK, BorrowsFromOwners
<1>6. OnePerService'
  BY DEF TypeOK, OnePerService
<1> QED
  BY <1>1, <1>2, <1>3, <1>4, <1>5, <1>6

LEMMA ConnectKeeps == ASSUME IndInv, NEW u \in Ups, Connect(u) PROVE IndInv'
<1> USE Constants DEF IndInv, Connect
<1>1. TypeOK'
  BY DEF TypeOK, RunnerTypeOK, Stages, ShellStates, WorkStates
<1>2. ServiceFollowsUp'
  BY DEF TypeOK, RunnerTypeOK, ServiceFollowsUp, FollowsUp
<1>3. OpensItsOwn'
  BY DEF TypeOK, OpensItsOwn, Opens
<1>4. KeepsItsOwn'
  BY DEF TypeOK, RunnerTypeOK, KeepsItsOwn
<1>5. BorrowsFromOwners'
  BY DEF TypeOK, BorrowsFromOwners
<1>6. OnePerService'
  BY DEF TypeOK, OnePerService
<1> QED
  BY <1>1, <1>2, <1>3, <1>4, <1>5, <1>6

\* The one session of the service is replaced.
LEMMA GoLiveKeeps == ASSUME IndInv, NEW u \in Ups, GoLive(u) PROVE IndInv'
<1> USE Constants DEF IndInv, GoLive
<1>1. TypeOK'
  BY Upserted DEF TypeOK, RunnerTypeOK, Stages, ShellStates, WorkStates
<1>2. ServiceFollowsUp'
  BY Upserted DEF TypeOK, RunnerTypeOK, ServiceFollowsUp, FollowsUp
<1>3. OpensItsOwn'
  BY Upserted DEF TypeOK, OpensItsOwn, Opens
<1>4. KeepsItsOwn'
  BY Upserted DEF TypeOK, RunnerTypeOK, KeepsItsOwn
<1>5. BorrowsFromOwners'
  BY Upserted DEF TypeOK, BorrowsFromOwners
<1>6. OnePerService'
  BY Upserted DEF TypeOK, OnePerService
<1> QED
  BY <1>1, <1>2, <1>3, <1>4, <1>5, <1>6

LEMMA NeverHealthyKeeps == ASSUME IndInv, NEW u \in Ups, NeverHealthy(u) PROVE IndInv'
<1> USE Constants DEF IndInv, NeverHealthy, ToDrop
<1>1. TypeOK'
  BY DEF TypeOK, RunnerTypeOK, Stages, ShellStates, WorkStates
<1>2. ServiceFollowsUp'
  BY DEF TypeOK, RunnerTypeOK, ServiceFollowsUp, FollowsUp
<1>3. OpensItsOwn'
  BY DEF TypeOK, OpensItsOwn, Opens
<1>4. KeepsItsOwn'
  BY DEF TypeOK, RunnerTypeOK, KeepsItsOwn
<1>5. BorrowsFromOwners'
  BY DEF TypeOK, BorrowsFromOwners
<1>6. OnePerService'
  BY DEF TypeOK, OnePerService
<1> QED
  BY <1>1, <1>2, <1>3, <1>4, <1>5, <1>6

LEMMA ShutdownKeeps == ASSUME IndInv, NEW u \in Ups, Shutdown(u) PROVE IndInv'
<1> USE Constants DEF IndInv, Shutdown, ToDrop
<1>1. TypeOK'
  BY DEF TypeOK, RunnerTypeOK, Stages, ShellStates, WorkStates
<1>2. ServiceFollowsUp'
  BY DEF TypeOK, RunnerTypeOK, ServiceFollowsUp, FollowsUp
<1>3. OpensItsOwn'
  BY DEF TypeOK, OpensItsOwn, Opens
<1>4. KeepsItsOwn'
  BY DEF TypeOK, RunnerTypeOK, KeepsItsOwn
<1>5. BorrowsFromOwners'
  BY DEF TypeOK, BorrowsFromOwners
<1>6. OnePerService'
  BY DEF TypeOK, OnePerService
<1> QED
  BY <1>1, <1>2, <1>3, <1>4, <1>5, <1>6

LEMMA SignalGroupKeeps ==
    ASSUME IndInv, NEW u \in Ups, pc[u] = "dropping", SignalGroup(u), UNCHANGED forwards
    PROVE  IndInv'
<1> USE Constants DEF IndInv, SignalGroup
<1>1. TypeOK'
  BY DEF TypeOK, RunnerTypeOK, Stages, ShellStates, WorkStates
<1>2. ServiceFollowsUp'
  <2>1. /\ UNCHANGED <<pc, aws, killed>>
        /\ \A v \in Ups : v # u => shell'[v] = shell[v] /\ work'[v] = work[v] /\ drop'[v] = drop[v]
    BY DEF TypeOK, RunnerTypeOK
  <2>2. /\ drop[u] = "no" /\ drop'[u] = "polling" /\ shell[u] # "none"
        /\ shell'[u] = shell[u] \/ (shell[u] = "running" /\ shell'[u] = "stopping")
        /\ work'[u] \in {"none", "stopping"} \/ u \in DeafWork
    <3>1. shell \in [Ups -> ShellStates] /\ work \in [Ups -> WorkStates]
      BY DEF TypeOK, RunnerTypeOK
    <3>2. drop \in [Ups -> {"no", "polling", "done"}]
      BY DEF TypeOK, RunnerTypeOK
    <3> HIDE DEF IndInv
    <3>3. drop[u] = "no" /\ drop'[u] = "polling" /\ shell[u] # "none"
      BY <3>2
    <3>4. shell'[u] = shell[u] \/ (shell[u] = "running" /\ shell'[u] = "stopping")
      BY <3>1
    <3>5. work'[u] \in {"none", "stopping"} \/ u \in DeafWork
      BY <3>1
    <3> QED
      BY <3>3, <3>4, <3>5
  <2>3. \A v \in Ups : FollowsUp(v)
    BY DEF ServiceFollowsUp
  <2> HIDE DEF IndInv, SignalGroup
  <2>4. FollowsUp(u)'
    BY <2>1, <2>2, <2>3 DEF FollowsUp
  <2>5. ASSUME NEW v \in Ups, v # u
        PROVE  FollowsUp(v)'
    BY <2>1, <2>3, <2>5 DEF FollowsUp
  <2> QED
    BY <2>4, <2>5 DEF ServiceFollowsUp
<1>3. OpensItsOwn'
  BY DEF TypeOK, OpensItsOwn, Opens
<1>4. KeepsItsOwn'
  BY DEF TypeOK, RunnerTypeOK, KeepsItsOwn
<1>5. BorrowsFromOwners'
  BY DEF TypeOK, BorrowsFromOwners
<1>6. OnePerService'
  BY DEF TypeOK, OnePerService
<1> QED
  BY <1>1, <1>2, <1>3, <1>4, <1>5, <1>6

LEMMA ReapKeeps ==
    ASSUME IndInv, NEW u \in Ups, pc[u] = "dropping", Reap(u), UNCHANGED forwards
    PROVE  IndInv'
<1> USE Constants DEF IndInv, Reap
<1>1. TypeOK'
  BY DEF TypeOK, RunnerTypeOK, Stages, ShellStates, WorkStates
<1>2. ServiceFollowsUp'
  BY DEF TypeOK, RunnerTypeOK, ServiceFollowsUp, FollowsUp
<1>3. OpensItsOwn'
  BY DEF TypeOK, OpensItsOwn, Opens
<1>4. KeepsItsOwn'
  BY DEF TypeOK, RunnerTypeOK, KeepsItsOwn
<1>5. BorrowsFromOwners'
  BY DEF TypeOK, BorrowsFromOwners
<1>6. OnePerService'
  BY DEF TypeOK, OnePerService
<1> QED
  BY <1>1, <1>2, <1>3, <1>4, <1>5, <1>6

\* A workload that is killed gives back the service's port, which is no forward.
LEMMA KillGroupKeeps ==
    ASSUME IndInv, NEW u \in Ups, pc[u] = "dropping", KillGroup(u), UNCHANGED forwards
    PROVE  IndInv'
<1> USE Constants DEF IndInv, KillGroup, WithoutWork
<1>1. TypeOK'
  BY DEF TypeOK, RunnerTypeOK, Stages, ShellStates, WorkStates
<1>2. ServiceFollowsUp'
  BY DEF TypeOK, RunnerTypeOK, ServiceFollowsUp, FollowsUp
<1>3. OpensItsOwn'
  BY DEF TypeOK, OpensItsOwn, Opens
<1>4. KeepsItsOwn'
  <2>1. \A v \in Ups : \A q \in Opens(v) : holder[q] = v => holder'[q] = v
    <3>1. ASSUME NEW v \in Ups, NEW q \in Opens(v), holder[q] = v
          PROVE  ~(q = LocalPort[u] /\ holder[q] = u) /\ q \in Ports
      BY <3>1
    <3> QED
      BY <3>1
  <2> QED
    BY <2>1, PortsKept
<1>5. BorrowsFromOwners'
  BY DEF TypeOK, BorrowsFromOwners
<1>6. OnePerService'
  BY DEF TypeOK, OnePerService
<1> QED
  BY <1>1, <1>2, <1>3, <1>4, <1>5, <1>6

\* drop returns once the shell is reaped.
LEMMA DroppedKeeps == ASSUME IndInv, NEW u \in Ups, Dropped(u) PROVE IndInv'
<1> USE Constants DEF IndInv, Dropped
<1>1. TypeOK'
  BY DEF TypeOK, RunnerTypeOK, Stages, ShellStates, WorkStates
<1>2. ServiceFollowsUp'
  BY DEF TypeOK, RunnerTypeOK, ServiceFollowsUp, FollowsUp
<1>3. OpensItsOwn'
  BY DEF TypeOK, OpensItsOwn, Opens
<1>4. KeepsItsOwn'
  BY DEF TypeOK, RunnerTypeOK, KeepsItsOwn
<1>5. BorrowsFromOwners'
  BY DEF TypeOK, BorrowsFromOwners
<1>6. OnePerService'
  BY DEF TypeOK, OnePerService
<1> QED
  BY <1>1, <1>2, <1>3, <1>4, <1>5, <1>6

\* An up closes its own forwards and no other's.
LEMMA CloseForwardsKeeps == ASSUME IndInv, NEW u \in Ups, CloseForwards(u) PROVE IndInv'
<1> USE Constants DEF IndInv, CloseForwards, WithoutAws
<1>1. TypeOK'
  BY DEF TypeOK, RunnerTypeOK, Stages, ShellStates, WorkStates
<1>2. ServiceFollowsUp'
  BY DEF TypeOK, RunnerTypeOK, ServiceFollowsUp, FollowsUp
<1>3. OpensItsOwn'
  BY DEF TypeOK, OpensItsOwn, Opens
<1>4. KeepsItsOwn'
  BY DEF TypeOK, RunnerTypeOK, KeepsItsOwn
<1>5. BorrowsFromOwners'
  BY DEF TypeOK, BorrowsFromOwners
<1>6. OnePerService'
  BY DEF TypeOK, OnePerService
<1> QED
  BY <1>1, <1>2, <1>3, <1>4, <1>5, <1>6

\* A port is taken only when nobody has it.
LEMMA AwsListensKeeps ==
    ASSUME IndInv, NEW u \in Ups, NEW p \in Ports, AwsListens(u, p)
    PROVE  IndInv'
<1> USE Constants DEF IndInv, AwsListens, PortFree
<1>1. TypeOK'
  BY DEF TypeOK, RunnerTypeOK, Stages, ShellStates, WorkStates
<1>2. ServiceFollowsUp'
  BY DEF TypeOK, RunnerTypeOK, ServiceFollowsUp, FollowsUp
<1>3. OpensItsOwn'
  BY DEF TypeOK, OpensItsOwn, Opens
<1>4. KeepsItsOwn'
  <2>1. \A q \in Ports : holder[q] \in Ups => holder'[q] = holder[q]
    BY DEF TypeOK, RunnerTypeOK
  <2>2. \A v \in Ups : \A q \in Opens(v) : holder[q] = v => holder'[q] = v
    BY <2>1
  <2> QED
    BY <2>2, PortsKept
<1>5. BorrowsFromOwners'
  BY DEF TypeOK, BorrowsFromOwners
<1>6. OnePerService'
  BY DEF TypeOK, OnePerService
<1> QED
  BY <1>1, <1>2, <1>3, <1>4, <1>5, <1>6

LEMMA AwsCannotListenKeeps ==
    ASSUME IndInv, NEW u \in Ups, NEW p \in Ports, AwsCannotListen(u, p)
    PROVE  IndInv'
<1> USE Constants DEF IndInv, AwsCannotListen
<1>1. TypeOK'
  BY DEF TypeOK, RunnerTypeOK, Stages, ShellStates, WorkStates
<1>2. ServiceFollowsUp'
  BY DEF TypeOK, RunnerTypeOK, ServiceFollowsUp, FollowsUp
<1>3. OpensItsOwn'
  BY DEF TypeOK, OpensItsOwn, Opens
<1>4. KeepsItsOwn'
  BY DEF TypeOK, RunnerTypeOK, KeepsItsOwn
<1>5. BorrowsFromOwners'
  BY DEF TypeOK, BorrowsFromOwners
<1>6. OnePerService'
  BY DEF TypeOK, OnePerService
<1> QED
  BY <1>1, <1>2, <1>3, <1>4, <1>5, <1>6

LEMMA AwsEndsKeeps == ASSUME IndInv, NEW u \in Ups, NEW p \in Ports, AwsEnds(u, p) PROVE IndInv'
<1> USE Constants DEF IndInv, AwsEnds, WithoutAws
<1>1. TypeOK'
  BY DEF TypeOK, RunnerTypeOK, Stages, ShellStates, WorkStates
<1>2. ServiceFollowsUp'
  BY DEF TypeOK, RunnerTypeOK, ServiceFollowsUp, FollowsUp
<1>3. OpensItsOwn'
  BY DEF TypeOK, OpensItsOwn, Opens
<1>4. KeepsItsOwn'
  BY DEF TypeOK, RunnerTypeOK, KeepsItsOwn
<1>5. BorrowsFromOwners'
  BY DEF TypeOK, BorrowsFromOwners
<1>6. OnePerService'
  BY DEF TypeOK, OnePerService
<1> QED
  BY <1>1, <1>2, <1>3, <1>4, <1>5, <1>6

LEMMA WorkStartsKeeps ==
    ASSUME IndInv, NEW u \in Ups, WorkStarts(u), UNCHANGED forwards
    PROVE  IndInv'
<1> USE Constants DEF IndInv, WorkStarts, PortFree
<1>1. TypeOK'
  <2>0. holder \in [Ports -> Ups \cup {Nobody, Stranger}] /\ work \in [Ups -> WorkStates]
    BY DEF TypeOK, RunnerTypeOK
  <2>1. holder' \in [Ports -> Ups \cup {Nobody, Stranger}]
    <3>1. CASE LocalPort[u] = Nobody
      BY <2>0, <3>1
    <3>2. CASE LocalPort[u] # Nobody
      BY <2>0, <3>2
    <3> QED
      BY <3>1, <3>2
  <2>2. work' \in [Ups -> WorkStates]
    <3>1. CASE LocalPort[u] = Nobody
      BY <2>0, <3>1 DEF WorkStates
    <3>2. CASE LocalPort[u] # Nobody
      BY <2>0, <3>2 DEF WorkStates
    <3> QED
      BY <3>1, <3>2
  <2> QED
    BY <2>1, <2>2 DEF TypeOK, RunnerTypeOK
<1>2. ServiceFollowsUp'
  <2>1. UNCHANGED <<pc, aws, shell, drop, killed>>
    OBVIOUS
  <2>2. /\ shell[u] # "none" /\ (drop[u] # "no" => u \in DeafWork)
        /\ \A v \in Ups : v # u => work'[v] = work[v]
    BY DEF TypeOK, RunnerTypeOK, ServiceFollowsUp, FollowsUp
  <2> QED
    BY <2>1, <2>2 DEF ServiceFollowsUp, FollowsUp
<1>3. OpensItsOwn'
  BY DEF TypeOK, OpensItsOwn, Opens
<1>4. KeepsItsOwn'
  <2>1. \A q \in Ports : holder[q] \in Ups => holder'[q] = holder[q]
    <3>1. holder \in [Ports -> Ups \cup {Nobody, Stranger}] /\ Nobody \notin Ups
      BY DEF TypeOK, RunnerTypeOK
    <3> HIDE DEF IndInv
    <3> QED
      BY <3>1
  <2>2. \A v \in Ups : \A q \in Opens(v) : holder[q] = v => holder'[q] = v
    BY <2>1
  <2> QED
    BY <2>2, PortsKept
<1>5. BorrowsFromOwners'
  BY DEF TypeOK, BorrowsFromOwners
<1>6. OnePerService'
  BY DEF TypeOK, OnePerService
<1> QED
  BY <1>1, <1>2, <1>3, <1>4, <1>5, <1>6

LEMMA WorkEndsKeeps == ASSUME IndInv, NEW u \in Ups, WorkEnds(u), UNCHANGED forwards PROVE IndInv'
<1> USE Constants DEF IndInv, WorkEnds, WithoutWork
<1>1. TypeOK'
  BY DEF TypeOK, RunnerTypeOK, Stages, ShellStates, WorkStates
<1>2. ServiceFollowsUp'
  BY DEF TypeOK, RunnerTypeOK, ServiceFollowsUp, FollowsUp
<1>3. OpensItsOwn'
  BY DEF TypeOK, OpensItsOwn, Opens
<1>4. KeepsItsOwn'
  <2>1. \A v \in Ups : \A q \in Opens(v) : holder[q] = v => holder'[q] = v
    <3>1. ASSUME NEW v \in Ups, NEW q \in Opens(v), holder[q] = v
          PROVE  ~(q = LocalPort[u] /\ holder[q] = u) /\ q \in Ports
      BY <3>1
    <3> QED
      BY <3>1
  <2> QED
    BY <2>1, PortsKept
<1>5. BorrowsFromOwners'
  BY DEF TypeOK, BorrowsFromOwners
<1>6. OnePerService'
  BY DEF TypeOK, OnePerService
<1> QED
  BY <1>1, <1>2, <1>3, <1>4, <1>5, <1>6

LEMMA ShellEndsKeeps == ASSUME IndInv, NEW u \in Ups, ShellEnds(u), UNCHANGED forwards PROVE IndInv'
<1> USE Constants DEF IndInv, ShellEnds, ShellExits
<1>1. TypeOK'
  BY DEF TypeOK, RunnerTypeOK, Stages, ShellStates, WorkStates
<1>2. ServiceFollowsUp'
  BY DEF TypeOK, RunnerTypeOK, ServiceFollowsUp, FollowsUp
<1>3. OpensItsOwn'
  BY DEF TypeOK, OpensItsOwn, Opens
<1>4. KeepsItsOwn'
  BY DEF TypeOK, RunnerTypeOK, KeepsItsOwn
<1>5. BorrowsFromOwners'
  BY DEF TypeOK, BorrowsFromOwners
<1>6. OnePerService'
  BY DEF TypeOK, OnePerService
<1> QED
  BY <1>1, <1>2, <1>3, <1>4, <1>5, <1>6

\* Whoever's leftovers are killed has exited or is doubtful.
LEMMA KillLeftoversKeeps == ASSUME IndInv, NEW u \in Ups, KillLeftovers(u) PROVE IndInv'
<1> USE Constants DEF IndInv, KillLeftovers, ShellPidTaken
<1>1. TypeOK'
  BY DEF TypeOK, RunnerTypeOK, Stages, ShellStates, WorkStates
<1>2. ServiceFollowsUp'
  <2>1. /\ pc[u] \in {"exited", "killed"}
        /\ UNCHANGED <<pc, drop, killed>>
        /\ aws' = [aws EXCEPT ![u] = {}] /\ work' = [work EXCEPT ![u] = "none"]
        /\ shell' = [shell EXCEPT ![u] = IF @ = "none" THEN @ ELSE "reaped"]
    OBVIOUS
  <2> HIDE DEF KillLeftovers
  <2> QED
    BY <2>1 DEF TypeOK, RunnerTypeOK, ServiceFollowsUp, FollowsUp
<1>3. OpensItsOwn'
  BY DEF TypeOK, OpensItsOwn, Opens
<1>4. KeepsItsOwn'
  BY DEF TypeOK, RunnerTypeOK, KeepsItsOwn
<1>5. BorrowsFromOwners'
  BY DEF TypeOK, BorrowsFromOwners
<1>6. OnePerService'
  BY DEF TypeOK, OnePerService
<1> QED
  BY <1>1, <1>2, <1>3, <1>4, <1>5, <1>6

\* A killed up drops nothing: what it had open stays open.
LEMMA KillKeeps == ASSUME IndInv, NEW u \in Ups, Kill(u) PROVE IndInv'
<1> USE Constants DEF IndInv, Kill, Up, Forget
<1>0. /\ todo' \in [Ups -> Seq(Ports \cup {"control plane", "sshd", "state"})]
      /\ \A v \in Ups : todo'[v] \in Seq({"control plane", "sshd", "state"} \cup Range(Wants[v]))
  BY RestIsNamed, TodoStays
<1>1. TypeOK'
  <2>1. pc' \in [Ups -> Stages] /\ shell' \in [Ups -> ShellStates] /\ killed' \subseteq Ups
    BY DEF TypeOK, RunnerTypeOK, Stages, ShellStates
  <2>2. /\ view' \in [Ups -> Seq(Ups)] /\ waiting' \in [Ups -> Ports \cup {Nobody}]
    <3>1. <<>> \in Seq(Ups)
      BY EmptySeq
    <3> QED
      BY <3>1 DEF TypeOK
  <2> QED
    BY <1>0, <2>1, <2>2 DEF TypeOK, RunnerTypeOK
<1>2. ServiceFollowsUp'
  BY DEF TypeOK, RunnerTypeOK, ServiceFollowsUp, FollowsUp
<1>3. OpensItsOwn'
  <2>1. \A v \in Ups : pc'[v] = "waiting" =>
            pc[v] = "waiting" /\ waiting'[v] = waiting[v] /\ todo'[v] = todo[v]
    BY DEF TypeOK
  <2> QED
    BY <1>0, <2>1 DEF OpensItsOwn, Opens
<1>4. KeepsItsOwn'
  BY DEF TypeOK, RunnerTypeOK, KeepsItsOwn
<1>5. BorrowsFromOwners'
  BY DEF TypeOK, BorrowsFromOwners
<1>6. OnePerService'
  BY DEF TypeOK, OnePerService
<1> QED
  BY <1>1, <1>2, <1>3, <1>4, <1>5, <1>6

LEMMA PidReusedKeeps == ASSUME IndInv, NEW u \in Ups, PidReused(u) PROVE IndInv'
<1> USE Constants DEF IndInv, PidReused
<1>1. TypeOK'
  BY DEF TypeOK, RunnerTypeOK, Stages, ShellStates, WorkStates
<1>2. ServiceFollowsUp'
  BY DEF TypeOK, RunnerTypeOK, ServiceFollowsUp, FollowsUp
<1>3. OpensItsOwn'
  BY DEF TypeOK, OpensItsOwn, Opens
<1>4. KeepsItsOwn'
  BY DEF TypeOK, RunnerTypeOK, KeepsItsOwn
<1>5. BorrowsFromOwners'
  BY DEF TypeOK, BorrowsFromOwners
<1>6. OnePerService'
  BY DEF TypeOK, OnePerService
<1> QED
  BY <1>1, <1>2, <1>3, <1>4, <1>5, <1>6

LEMMA StrangerTakesKeeps == ASSUME IndInv, NEW p \in Ports, StrangerTakes(p) PROVE IndInv'
<1> USE Constants DEF IndInv, StrangerTakes, PortFree
<1>1. TypeOK'
  BY DEF TypeOK, RunnerTypeOK, Stages, ShellStates, WorkStates
<1>2. ServiceFollowsUp'
  BY DEF TypeOK, RunnerTypeOK, ServiceFollowsUp, FollowsUp
<1>3. OpensItsOwn'
  BY DEF TypeOK, OpensItsOwn, Opens
<1>4. KeepsItsOwn'
  <2>1. \A q \in Ports : holder[q] \in Ups => holder'[q] = holder[q]
    BY DEF TypeOK, RunnerTypeOK
  <2>2. \A v \in Ups : \A q \in Opens(v) : holder[q] = v => holder'[q] = v
    BY <2>1
  <2> QED
    BY <2>2, PortsKept
<1>5. BorrowsFromOwners'
  BY DEF TypeOK, BorrowsFromOwners
<1>6. OnePerService'
  BY DEF TypeOK, OnePerService
<1> QED
  BY <1>1, <1>2, <1>3, <1>4, <1>5, <1>6

LEMMA DownForgetsKeeps == ASSUME IndInv, NEW u \in Ups, DownForgets(u) PROVE IndInv'
<1> USE Constants DEF IndInv, DownForgets
<1>1. TypeOK'
  BY WithoutIt DEF TypeOK, RunnerTypeOK, Stages, ShellStates, WorkStates
<1>2. ServiceFollowsUp'
  BY WithoutIt DEF TypeOK, RunnerTypeOK, ServiceFollowsUp, FollowsUp
<1>3. OpensItsOwn'
  BY WithoutIt DEF TypeOK, OpensItsOwn, Opens
<1>4. KeepsItsOwn'
  BY WithoutIt DEF TypeOK, RunnerTypeOK, KeepsItsOwn
<1>5. BorrowsFromOwners'
  BY WithoutIt DEF TypeOK, BorrowsFromOwners
<1>6. OnePerService'
  BY WithoutIt DEF TypeOK, OnePerService
<1> QED
  BY <1>1, <1>2, <1>3, <1>4, <1>5, <1>6

-----------------------------------------------------------------------------
(* The invariant *)

LEMMA StartsKeep ==
    ASSUME IndInv, NEW u \in Ups, StartPicked(u) \/ \E p \in Ports : StartDeclared(u, p)
    PROVE  IndInv'
<1>1. CASE StartPicked(u)
  <2>1. PICK p \in Pickable : StartAws(u, p)
    BY <1>1 DEF StartPicked
  <2>2. Opening(u) /\ p \in Ports /\ p \in Opens(u)
    BY <1>1, Constants DEF StartPicked, Opens
  <2> QED
    BY <2>1, <2>2, StartAwsKeeps
<1>2. CASE \E p \in Ports : StartDeclared(u, p)
  <2>1. PICK p \in Ports : StartDeclared(u, p)
    BY <1>2
  <2>2. Opening(u) /\ Head(todo[u]) = p /\ StartAws(u, p)
    BY <2>1 DEF StartDeclared, Declared
  <2>3. todo[u] \in Seq(Named(u)) /\ todo[u] # <<>>
    BY <2>2 DEF IndInv, OpensItsOwn, Opening, Named
  <2>4. p \in Named(u)
    BY <2>2, <2>3, Elements
  <2>5. p \in Opens(u)
    BY <2>4, Constants DEF Named, Opens
  <2> QED
    BY <2>2, <2>5, StartAwsKeeps
<1> QED
  BY <1>1, <1>2

LEMMA UpStepKeeps == ASSUME IndInv, NEW u \in Ups, UpStep(u) PROVE IndInv'
<1>1. CASE StartPicked(u) \/ \E p \in Ports : StartDeclared(u, p)
  BY <1>1, StartsKeep
<1>2. CASE \E p \in Ports : Borrow(u, p)
  BY <1>2, BorrowKeeps
<1>3. CASE LoadState(u) \/ WaitOk(u) \/ FailUp(u)
  BY <1>3, LoadStateKeeps, WaitOkKeeps, FailUpKeeps
<1>4. CASE SpawnService(u) \/ Connect(u) \/ GoLive(u) \/ NeverHealthy(u)
  BY <1>4, SpawnServiceKeeps, ConnectKeeps, GoLiveKeeps, NeverHealthyKeeps
<1>5. CASE DropRunner(u)
  BY <1>5, SignalGroupKeeps, ReapKeeps, KillGroupKeeps DEF DropRunner
<1>6. CASE Dropped(u) \/ CloseForwards(u)
  BY <1>6, DroppedKeeps, CloseForwardsKeeps
<1> QED
  BY <1>1, <1>2, <1>3, <1>4, <1>5, <1>6 DEF UpStep

\* Every step of an up, of its processes and of the world keeps the invariant.
LEMMA StepPreserves == IndInv /\ [Next]_vars => IndInv'
<1> SUFFICES ASSUME IndInv, [Next]_vars PROVE IndInv'
  OBVIOUS
<1>1. ASSUME NEW u \in Ups, Check(u) \/ UpStep(u) \/ Shutdown(u)
      PROVE  IndInv'
  BY <1>1, CheckKeeps, UpStepKeeps, ShutdownKeeps
<1>2. ASSUME NEW u \in Ups, ServiceMoves(u)
      PROVE  IndInv'
  BY <1>2, WorkStartsKeeps, WorkEndsKeeps, ShellEndsKeeps DEF ServiceMoves
<1>3. ASSUME NEW u \in Ups, Kill(u) \/ KillLeftovers(u) \/ PidReused(u) \/ DownForgets(u)
      PROVE  IndInv'
  BY <1>3, KillKeeps, KillLeftoversKeeps, PidReusedKeeps, DownForgetsKeeps
<1>4. ASSUME NEW u \in Ups, NEW p \in Ports, AwsListens(u, p) \/ AwsCannotListen(u, p) \/ AwsEnds(u, p)
      PROVE  IndInv'
  BY <1>4, AwsListensKeeps, AwsCannotListenKeeps, AwsEndsKeeps
<1>5. ASSUME NEW p \in Ports, StrangerTakes(p)
      PROVE  IndInv'
  BY <1>5, StrangerTakesKeeps
<1>6. CASE UNCHANGED vars
  <2>1. /\ UNCHANGED <<holder, shell, work, drop, killed>>
        /\ UNCHANGED <<pc, todo, waiting, view, aws, owned, borrowed, recorded, reused, doubtful>>
    BY <1>6 DEF vars
  <2>2. TypeOK'
    BY <2>1 DEF IndInv, TypeOK, RunnerTypeOK
  <2>3. ServiceFollowsUp' /\ OpensItsOwn'
    BY <2>1 DEF IndInv, ServiceFollowsUp, FollowsUp, OpensItsOwn, Opens
  <2>4. KeepsItsOwn' /\ BorrowsFromOwners' /\ OnePerService'
    BY <2>1 DEF IndInv, KeepsItsOwn, BorrowsFromOwners, OnePerService
  <2> QED
    BY <2>2, <2>3, <2>4 DEF IndInv
<1> QED
  BY <1>1, <1>2, <1>3, <1>4, <1>5, <1>6 DEF Next, Finished

\* The invariant holds throughout: how the service follows its up, whose the
\* ports are that ups wait for, keep and borrow, and one session per service.
THEOREM Invariance == Spec => []IndInv
<1> QED
  BY InitEstablishes, StepPreserves, PTL DEF Spec

\* Every variable keeps its type.
THEOREM TypeCorrect == Spec => []TypeOK
<1>1. IndInv => TypeOK
  BY DEF IndInv
<1> QED
  BY <1>1, Invariance, PTL

\* State::upsert keeps one session for each service, so "the owner" of a
\* forward is not a matter of order within a service (state.rs:63-68).
THEOREM SessionsAreDistinct == Spec => []OnePerService
<1>1. IndInv => OnePerService
  BY DEF IndInv
<1> QED
  BY <1>1, Invariance, PTL

\* An up that ends without being killed has ended its aws processes, and of its
\* service at most a workload is left that ignores SIGTERM or is about to end.
THEOREM EndedUpsLeaveNothing == Spec => []NothingLeftBehind
<1>1. IndInv => NothingLeftBehind
  BY DEF IndInv, TypeOK, RunnerTypeOK, ServiceFollowsUp, FollowsUp, NothingLeftBehind
<1> QED
  BY <1>1, Invariance, PTL

\* A live up keeps the forwards it opened, and those it borrowed until their
\* owner goes, whatever the other ups do.
THEOREM LiveUpsKeepTheirForwards == Spec => []ForwardsStay
<1>1. ASSUME IndInv, NEW u \in Ups \ doubtful, NEW p \in Ports, pc[u] = "live"
      PROVE  /\ p \in owned[u] => holder[p] = u
             /\ \A v \in Ups \ doubtful : borrowed[u][p] = v => holder[p] = v \/ pc[v] = "exited"
  <2>1. p \in owned[u] => holder[p] = u
    BY <1>1 DEF IndInv, KeepsItsOwn
  <2>2. ASSUME NEW v \in Ups \ doubtful, borrowed[u][p] = v, pc[v] # "exited"
        PROVE  holder[p] = v
    <3>1. borrowed[u][p] # Nobody
      BY <2>2, Constants
    <3>2. p \in owned[v]
      BY <1>1, <2>2, <3>1 DEF IndInv, BorrowsFromOwners
    <3> QED
      BY <1>1, <2>2, <3>2 DEF IndInv, KeepsItsOwn
  <2> QED
    BY <2>1, <2>2
<1>2. IndInv => ForwardsStay
  <2> SUFFICES ASSUME IndInv, NEW u \in Ups \ doubtful, NEW p \in Ports, pc[u] = "live"
               PROVE  /\ p \in owned[u] => holder[p] = u
                      /\ borrowed[u][p] \notin {Nobody} \cup doubtful \cup reused =>
                             holder[p] = borrowed[u][p] \/ pc[borrowed[u][p]] = "exited"
    BY DEF ForwardsStay
  <2>1. borrowed[u] \in [Ports -> Ups \cup {Nobody}]
    BY DEF IndInv, TypeOK
  <2> QED
    BY <1>1, <2>1
<1> QED
  BY <1>2, Invariance, PTL

\* A pid that is alive vouches for the forward: whoever's forward an up reuses
\* has it open at that moment, unless it lost it or its pid is another's.
THEOREM ReusedForwardsAreOpen == Spec => ReuseIsOpen
<1> DEFINE Step ==
        \A u \in Ups, p \in Ports :
            borrowed'[u][p] # borrowed[u][p] /\ borrowed'[u][p] \notin doubtful \cup reused
                => holder[p] = borrowed'[u][p]
<1>1. ASSUME IndInv, NEW u \in Ups, NEW p \in Ports, Borrow(u, p)
      PROVE  Step
  <2> DEFINE v == ForwardOwner(u, p)
  <2>1. v \in Ups /\ p \in owned[v]
    BY <1>1, OwnerOwns DEF IndInv, TypeOK, Borrow
  <2>2. borrowed' = [borrowed EXCEPT ![u][p] = v] /\ (ShellPidTaken(v) \/ v \in reused)
    BY <1>1 DEF Borrow, PidAlive
  <2>3. v \notin reused => pc[v] # "exited"
    BY <1>1, <2>1, <2>2 DEF IndInv, ServiceFollowsUp, FollowsUp, ShellPidTaken
  <2>4. v \notin doubtful \cup reused => holder[p] = v
    BY <1>1, <2>1, <2>3 DEF IndInv, KeepsItsOwn
  <2> HIDE DEF v
  <2> QED
    BY <1>1, <2>2, <2>4 DEF IndInv, TypeOK
<1>2. ASSUME [Next]_vars
      PROVE  borrowed' = borrowed \/ \E u \in Ups, p \in Ports : Borrow(u, p)
  <2>1. ASSUME NEW u \in Ups, UpStep(u)
        PROVE  borrowed' = borrowed \/ \E p \in Ports : Borrow(u, p)
    BY <2>1 DEF UpStep, StartPicked, StartAws, LoadState, WaitOk, FailUp, StartDeclared, SpawnService,
        Connect, GoLive, NeverHealthy, DropRunner, Dropped, CloseForwards
  <2>2. ASSUME NEW u \in Ups, \/ Check(u) \/ Shutdown(u) \/ ServiceMoves(u) \/ Kill(u)
                              \/ KillLeftovers(u) \/ PidReused(u) \/ DownForgets(u)
        PROVE  borrowed' = borrowed
    BY <2>2 DEF Check, Shutdown, ServiceMoves, Kill, KillLeftovers, PidReused, DownForgets
  <2>3. ASSUME NEW u \in Ups, NEW p \in Ports, AwsListens(u, p) \/ AwsCannotListen(u, p) \/ AwsEnds(u, p)
        PROVE  borrowed' = borrowed
    BY <2>3 DEF AwsListens, AwsCannotListen, AwsEnds
  <2>4. CASE (\E p \in Ports : StrangerTakes(p)) \/ Finished \/ UNCHANGED vars
    BY <2>4 DEF StrangerTakes, Finished, vars
  <2> QED
    BY <1>2, <2>1, <2>2, <2>3, <2>4 DEF Next
<1>3. borrowed' = borrowed => Step
  OBVIOUS
<1>4. IndInv /\ [Next]_vars => Step
  BY <1>1, <1>2, <1>3
<1> QED
  BY <1>4, Invariance, PTL DEF Spec, ReuseIsOpen
=============================================================================
