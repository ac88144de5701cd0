------------------------- MODULE DesensitizeProofs --------------------------
(***************************************************************************)
(* Proofs about the modified KLEE: the pool of children of its main, for   *)
(* every number of seeds, size of a batch and limit, and the replay of a   *)
(* seed, for every program and seed.                                       *)
(***************************************************************************)
EXTENDS SeedReplay, KleeRunner, Induction, FiniteSetTheorems, TLAPS

\* Zenon proves the steps that name no other prover.
USE Zenon

-----------------------------------------------------------------------------
(* The pool of children.                                                   *)

\* The children that were not waited for are finitely many.
LEMMA UnreapedFinite == IsFiniteSet(Unreaped) /\ Cardinality(Unreaped) \in Nat
<1>1. IsFiniteSet(Positions)
  BY SMT, RunnerAssumption, FS_Interval DEF Positions
<1>2. Unreaped \subseteq Positions
  BY DEF Unreaped, Running, Zombies, Own
<1> QED BY SMTT(60), <1>1, <1>2, FS_Subset, FS_CardinalityType

\* A batch that has no child yet has none to wait for.
LEMMA NoneUnreaped ==
    ASSUME \A j \in Positions : j >= begin => child[j] = "none"
    PROVE  Cardinality(Unreaped) = 0
<1>1. Unreaped = {}
  BY RunnerAssumption DEF Unreaped, Running, Zombies, Own, Positions
<1> QED BY <1>1, FS_EmptySet

\* Waiting for a child takes it off the children that main still has to wait for.
LEMMA ReapOne ==
    ASSUME RInv, NEW j \in Zombies, UNCHANGED begin,
           child' = [child EXCEPT ![j] = "reaped"]
    PROVE  /\ Cardinality(Unreaped)' = Cardinality(Unreaped) - 1
           /\ child' \in [Positions -> {"none", "started", "written", "zombie", "reaped"}]
           /\ \A k \in Positions : child[k] = "none" => child'[k] = "none"
<1>1. j \in Unreaped /\ j \in Positions /\ child[j] = "zombie"
  BY DEF Unreaped, Zombies, Own
<1>2. (Unreaped)' = Unreaped \ {j}
  BY <1>1 DEF RInv, Unreaped, Running, Zombies, Own
<1>3. Cardinality(Unreaped \ {j}) = Cardinality(Unreaped) - 1
  BY ZenonT(60), <1>1, UnreapedFinite, FS_RemoveElement
<1>4. Cardinality(Unreaped)' = Cardinality(Unreaped) - 1
  BY <1>2, <1>3
<1> QED BY <1>1, <1>4 DEF RInv

\* A blocking wait of a group leader that has children takes one of them off.
LEMMA WaitOneReaps ==
    ASSUME RInv, WaitOne, UNCHANGED begin, leads, Cardinality(Unreaped) > 0
    PROVE  /\ Cardinality(Unreaped)' = Cardinality(Unreaped) - 1
           /\ current_parallel' = current_parallel - 1
<1>1. Unreaped # {}
  BY FS_EmptySet, SMT
<1>2. PICK j \in Zombies : child' = [child EXCEPT ![j] = "reaped"]
  BY <1>1 DEF WaitOne, Group
<1> QED BY ZenonT(60), <1>2, ReapOne DEF WaitOne

\* Whoever leads the group, a wait leaves the types and the positions without a child.
LEMMA WaitOneKeeps ==
    ASSUME RInv, WaitOne, UNCHANGED begin
    PROVE  /\ child' \in [Positions -> {"none", "started", "written", "zombie", "reaped"}]
           /\ current_parallel' \in Int
           /\ \A k \in Positions : child[k] = "none" => child'[k] = "none"
<1>1. current_parallel' \in Int
  BY SMT DEF WaitOne, RInv
<1>2. CASE child' = child
  BY SMTT(60), <1>1, <1>2 DEF RInv
<1>3. CASE \E j \in Zombies : child' = [child EXCEPT ![j] = "reaped"]
  BY ZenonT(60), <1>1, <1>3, ReapOne
<1> QED BY <1>2, <1>3 DEF WaitOne, Group

\* RInv holds when the script starts.
LEMMA RunnerInit == RInit => RInv
<1> SUFFICES ASSUME RInit PROVE RInv
  OBVIOUS
<1>1. \A j \in Positions : child[j] = "none"
  BY DEF RInit
<1>2. Cardinality(Unreaped) = 0
  BY <1>1, NoneUnreaped
<1> QED BY SMT, <1>1, <1>2, RunnerAssumption DEF RInit, RInv, ParallelBounded

\* Every step of the script, of main and of a child preserves RInv.
LEMMA RunnerStepKeeps == RInv /\ [RNext]_rvars => RInv'
<1> SUFFICES ASSUME RInv, [RNext]_rvars PROVE RInv'
  OBVIOUS
<1> USE RunnerAssumption
<1>u. Cardinality(Unreaped) \in Nat
  BY UnreapedFinite
<1>s. ASSUME UNCHANGED <<begin, child>>
      PROVE  Cardinality(Unreaped)' = Cardinality(Unreaped)
  BY <1>s DEF Unreaped, Running, Zombies, Own
<1>1. CASE StartKlee
  <2>1. Cardinality(Unreaped) = 0
    BY SMTT(60), <1>1, NoneUnreaped DEF StartKlee, RInv
  <2> QED BY SMTT(60), <1>1, <1>s, <2>1 DEF StartKlee, RInv, ParallelBounded
<1>2. CASE Collect
  BY ZenonT(60), <1>2, <1>s DEF Collect, RInv, ParallelBounded
<1>3. CASE NextSeed
  BY SMTT(60), <1>3, <1>s, <1>u DEF NextSeed, RInv, ParallelBounded
<1>4. CASE Throttle
  <2>1. CASE current_parallel > max_parallel
    <3>1. WaitOne /\ UNCHANGED begin
      BY SMTT(60), <1>4, <2>1 DEF Throttle
    <3>2. leads => Cardinality(Unreaped) > 0
      BY SMTT(60), <1>4, <2>1, <1>u DEF Throttle, RInv
    <3> QED BY SMTT(60), <1>4, <2>1, <1>u, <3>1, <3>2, WaitOneReaps, WaitOneKeeps
            DEF Throttle, RInv, ParallelBounded
  <2>2. CASE ~(current_parallel > max_parallel)
    BY SMTT(60), <1>4, <2>2, <1>s, <1>u DEF Throttle, RInv, ParallelBounded
  <2> QED BY SMTT(60), <2>1, <2>2
<1>5. CASE Poll
  <2>1. CASE Group(Zombies) # {}
    <3>1. PICK j \in Zombies : child' = [child EXCEPT ![j] = "reaped"]
      BY SMTT(60), <1>5, <2>1 DEF Poll, Group
    <3>2. UNCHANGED begin
      BY <1>5 DEF Poll
    <3>3. /\ Cardinality(Unreaped)' = Cardinality(Unreaped) - 1
          /\ child' \in [Positions -> {"none", "started", "written", "zombie", "reaped"}]
          /\ \A k \in Positions : child[k] = "none" => child'[k] = "none"
      BY ZenonT(60), <3>1, <3>2, ReapOne
    <3> QED BY SMTT(60), <1>5, <2>1, <1>u, <3>3 DEF Poll, RInv, ParallelBounded
  <2>2. CASE Group(Zombies) = {}
    BY <1>5, <2>2, <1>s, <1>u DEF Poll, RInv, ParallelBounded
  <2> QED BY SMTT(60), <2>1, <2>2
<1>6. CASE Fork
  <2>1. CASE child' = [child EXCEPT ![i] = "started"] /\ i' = i + 1 /\ at' = "loop"
             /\ UNCHANGED begin
    <3>1. i \in Own /\ i \in Positions /\ i \notin Unreaped
      BY SMTT(60), <1>6 DEF Fork, RInv, Own, Positions, Unreaped, Running, Zombies
    <3>2. (Unreaped)' = Unreaped \cup {i}
      BY SMTT(60), <2>1, <3>1 DEF RInv, Unreaped, Running, Zombies, Own
    <3>3. Cardinality(Unreaped)' = Cardinality(Unreaped) + 1
      BY SMTT(60), <3>1, <3>2, UnreapedFinite, FS_AddElement
    <3> QED BY SMT, <1>6, <2>1, <1>u, <3>1, <3>3 DEF Fork, RInv, ParallelBounded
  <2>2. CASE Exit /\ UNCHANGED <<child, i>>
    <3>1. \A j \in Positions : j >= begin' => child'[j] = "none"
      BY SMT, <1>6, <2>2 DEF Fork, Exit, RInv, Positions
    <3>2. Cardinality(Unreaped)' = 0
      <4>1. (Unreaped)' = {}
        BY <3>1 DEF Unreaped, Running, Zombies, Own, Positions
      <4> QED BY SMTT(60), <4>1, FS_EmptySet
    <3> QED BY SMT, <1>6, <2>2, <3>1, <3>2 DEF Fork, Exit, RInv, ParallelBounded
  <2> QED BY <1>6, <2>1, <2>2 DEF Fork
<1>7. CASE Drain
  <2>1. CASE current_parallel > 0
    <3>1. WaitOne /\ UNCHANGED begin
      BY SMTT(60), <1>7, <2>1 DEF Drain
    <3>2. leads => Cardinality(Unreaped) > 0
      BY SMTT(60), <1>7, <2>1 DEF Drain, RInv
    <3> QED BY SMTT(60), <1>7, <2>1, <1>u, <3>1, <3>2, WaitOneReaps, WaitOneKeeps
            DEF Drain, RInv, ParallelBounded
  <2>2. CASE ~(current_parallel > 0)
    <3>0. Exit /\ UNCHANGED <<child, current_parallel, i, leads>>
      BY SMTT(60), <1>7, <2>2 DEF Drain
    <3>1. \A j \in Positions : j >= begin' => child'[j] = "none"
      BY SMTT(60), <1>7, <3>0 DEF Drain, Exit, RInv, Positions
    <3>2. Cardinality(Unreaped)' = 0
      <4>1. (Unreaped)' = {}
        BY <3>1 DEF Unreaped, Running, Zombies, Own, Positions
      <4> QED BY SMTT(60), <4>1, FS_EmptySet
    <3> QED BY SMTT(60), <3>0, <3>1, <3>2 DEF Exit, RInv, ParallelBounded
  <2> QED BY SMTT(60), <2>1, <2>2
<1>8. ASSUME NEW j \in Positions, WriteTest(j) PROVE RInv'
  <2>1. (Unreaped)' = Unreaped
    BY <1>8 DEF WriteTest, RInv, Unreaped, Running, Zombies, Own
  <2> QED BY SMTT(60), <1>8, <2>1 DEF WriteTest, RInv, ParallelBounded
<1>9. ASSUME NEW j \in Positions, ChildExit(j) PROVE RInv'
  <2>1. (Unreaped)' = Unreaped
    BY SMTT(60), <1>9 DEF ChildExit, RInv, Unreaped, Running, Zombies, Own
  <2> QED BY SMTT(60), <1>9, <2>1 DEF ChildExit, RInv, ParallelBounded
<1>10. CASE UNCHANGED rvars
  BY SMTT(60), <1>10, <1>s DEF rvars, RInv, ParallelBounded
<1> QED BY <1>1, <1>2, <1>3, <1>4, <1>5, <1>6, <1>7, <1>8, <1>9, <1>10
        DEF RNext, RunnerStep

\* A KLEE that leads its process group never has more than max_parallel children
\* that it has not waited for, whatever the children do and forks fail (main,
\* current_parallel).
THEOREM ParallelismBounded == RSpec => []ParallelBounded
<1>1. RInv => ParallelBounded
  BY DEF RInv
<1> QED BY <1>1, RunnerInit, RunnerStepKeeps, PTL DEF RSpec

\* The tests of all positions are as many as the seeds.
LEMMA TestsCount == IsFiniteSet(Tests) /\ Cardinality(Tests) = NUM
<1> DEFINE t == [j \in Positions |-> [id |-> j + 1, seed |-> order[j]]]
<1>1. t \in Bijection(Positions, Tests)
  <2>1. t \in [Positions -> Tests]
    BY DEF Tests
  <2>2. \A a, b \in Positions : t[a] = t[b] => a = b
    BY SMT DEF Positions
  <2>3. \A x \in Tests : \E a \in Positions : t[a] = x
    BY DEF Tests
  <2> HIDE DEF t
  <2> QED BY <2>1, <2>2, <2>3 DEF Bijection, Injection, Surjection, IsInjective
<1>2. IsFiniteSet(Positions) /\ Cardinality(Positions) = NUM
  BY RunnerAssumption, FS_Interval, SMT DEF Positions
<1> HIDE DEF t
<1> QED BY <1>1, <1>2, FS_Bijection DEF ExistsBijection

\* A sequence of numbers that rises from step to step and stays in an interval as
\* long as it is the identity.
LEMMA RisingIsIdentity ==
    ASSUME NEW N \in Nat, NEW p \in [1..N -> 1..N],
           \A a, b \in 1..N : a < b => p[a] < p[b]
    PROVE  \A a \in 1..N : p[a] = a
<1> DEFINE S == {n \in Nat : n + 1 \in 1..N => p[n + 1] >= n + 1}
           T == {n \in Nat : N - n \in 1..N => p[N - n] <= N - n}
<1>1. 0 \in S
  BY SMT
<1>2. \A n \in Nat : n \in S => n + 1 \in S
  <2> SUFFICES ASSUME NEW n \in Nat, n \in S, n + 1 + 1 \in 1..N
               PROVE  p[n + 1 + 1] >= n + 1 + 1
    BY SMT
  <2>1. n + 1 \in 1..N /\ p[n + 1] < p[n + 1 + 1]
    BY SMT
  <2>2. p[n + 1] \in Int /\ p[n + 1 + 1] \in Int
    BY SMT, <2>1
  <2> QED BY SMT, <2>1, <2>2
<1>3. 0 \in T
  BY SMT
<1>4. \A n \in Nat : n \in T => n + 1 \in T
  <2> SUFFICES ASSUME NEW n \in Nat, n \in T, N - (n + 1) \in 1..N
               PROVE  p[N - (n + 1)] <= N - (n + 1)
    BY SMT
  <2>1. N - n \in 1..N /\ N - (n + 1) < N - n
    BY SMT
  <2>2. p[N - (n + 1)] < p[N - n] /\ p[N - n] <= N - n
    BY <2>1
  <2>3. p[N - n] \in Int /\ p[N - (n + 1)] \in Int
    BY SMT, <2>1
  <2> QED BY SMT, <2>2, <2>3
<1>5. Nat \subseteq S /\ Nat \subseteq T
  <2> HIDE DEF S, T
  <2> QED BY <1>1, <1>2, <1>3, <1>4, NaturalInduction
<1> SUFFICES ASSUME NEW a \in 1..N PROVE p[a] = a
  OBVIOUS
<1>6. a - 1 \in S /\ N - a \in T
  <2>1. a - 1 \in Nat /\ N - a \in Nat
    BY SMT
  <2> QED BY <1>5, <2>1
<1>7. a - 1 + 1 = a /\ N - (N - a) = a /\ p[a] \in Int
  BY SMT
<1> QED BY SMT, <1>6, <1>7

\* Solved puts the tests of all positions in the order of the positions.
LEMMA AllSolved == Solved(Tests) = [k \in 1..NUM |-> order[k - 1]]
<1> DEFINE Rises(q) == \A a, b \in 1..NUM : a < b => q[a].id < q[b].id
           sorted == CHOOSE q \in [1..NUM -> Tests] : Rises(q)
           byPlace == [k \in 1..NUM |-> [id |-> k, seed |-> order[k - 1]]]
<1>0. NUM \in Nat
  BY RunnerAssumption
<1>1. byPlace \in [1..NUM -> Tests] /\ Rises(byPlace)
  <2>1. ASSUME NEW k \in 1..NUM PROVE [id |-> k, seed |-> order[k - 1]] \in Tests
    <3>1. k - 1 \in Positions /\ k = (k - 1) + 1
      BY SMT, <1>0 DEF Positions
    <3> QED BY <3>1 DEF Tests
  <2> QED BY <1>0, <2>1
<1>2. sorted \in [1..NUM -> Tests] /\ Rises(sorted)
  <2> HIDE DEF byPlace
  <2> QED BY <1>1
<1> HIDE DEF sorted, byPlace
<1> DEFINE p == [k \in 1..NUM |-> sorted[k].id]
<1>3. p \in [1..NUM -> 1..NUM]
  BY SMTT(60), <1>0, <1>2 DEF Tests, Positions
<1>4. \A k \in 1..NUM : sorted[k].id = k
  <2>1. \A a, b \in 1..NUM : a < b => p[a] < p[b]
    BY <1>2
  <2>2. \A a \in 1..NUM : p[a] = sorted[a].id
    OBVIOUS
  <2> HIDE DEF p
  <2>3. \A a \in 1..NUM : p[a] = a
    BY <1>0, <1>3, <2>1, RisingIsIdentity
  <2> QED BY <2>2, <2>3
<1>5. \A k \in 1..NUM : sorted[k].seed = order[k - 1]
  <2> SUFFICES ASSUME NEW k \in 1..NUM PROVE sorted[k].seed = order[k - 1]
    OBVIOUS
  <2>1. PICK j \in Positions : sorted[k] = [id |-> j + 1, seed |-> order[j]]
    BY <1>2 DEF Tests
  <2>2. j = k - 1
    BY SMT, <1>0, <1>4, <2>1 DEF Positions
  <2> QED BY SMT, <2>1, <2>2
<1>6. Solved(Tests) = [k \in 1..NUM |-> sorted[k].seed]
  BY SMT, TestsCount DEF Solved, sorted
<1> QED BY <1>5, <1>6

\* A directory whose name has no digit is sorted as the records are.
LEMMA OrderIsIdentity ==
    ASSUME ~PathHasDigits, order \in getKTestFilesInDir
    PROVE  \A j \in Positions : order[j] = j
<1> DEFINE p == [k \in 1..NUM |-> order[k - 1] + 1]
<1>0. NUM \in Nat
  BY RunnerAssumption
<1>1. order \in [Positions -> Positions]
  BY DEF getKTestFilesInDir
<1>2. \A a, b \in Positions : a < b => order[a] < order[b]
  <2> SUFFICES ASSUME NEW a \in Positions, NEW b \in Positions, a < b
               PROVE  order[a] < order[b]
    OBVIOUS
  <2>1. order[a] <= order[b] /\ a # b
    BY SMT, <1>0 DEF getKTestFilesInDir, SortKey, Positions
  <2>2. order[a] # order[b]
    BY <2>1 DEF getKTestFilesInDir
  <2>3. order[a] \in Int /\ order[b] \in Int
    BY SMT, <1>1 DEF Positions
  <2> QED BY SMT, <2>1, <2>2, <2>3
<1>3. p \in [1..NUM -> 1..NUM]
  <2> SUFFICES ASSUME NEW k \in 1..NUM PROVE order[k - 1] + 1 \in 1..NUM
    OBVIOUS
  <2>1. k - 1 \in Positions
    BY SMT, <1>0 DEF Positions
  <2>2. order[k - 1] \in Positions
    BY <1>1, <2>1
  <2> QED BY SMT, <1>0, <2>2 DEF Positions
<1>4. \A a, b \in 1..NUM : a < b => p[a] < p[b]
  <2> SUFFICES ASSUME NEW a \in 1..NUM, NEW b \in 1..NUM, a < b
               PROVE  order[a - 1] + 1 < order[b - 1] + 1
    OBVIOUS
  <2>1. a - 1 \in Positions /\ b - 1 \in Positions /\ a - 1 < b - 1
    BY SMT, <1>0 DEF Positions
  <2>2. order[a - 1] < order[b - 1] /\ order[a - 1] \in Int /\ order[b - 1] \in Int
    BY SMT, <1>1, <1>2, <2>1 DEF Positions
  <2> QED BY SMT, <2>2
<1>5. \A k \in 1..NUM : p[k] = order[k - 1] + 1
  OBVIOUS
<1>6. \A k \in 1..NUM : order[k - 1] + 1 = k
  <2> HIDE DEF p
  <2> QED BY <1>0, <1>3, <1>4, <1>5, RisingIsIdentity
<1> SUFFICES ASSUME NEW j \in Positions PROVE order[j] = j
  OBVIOUS
<1>7. PICK k \in 1..NUM : j = k - 1
  BY SMT, <1>0 DEF Positions
<1>8. order[j] + 1 = k /\ order[j] \in Int
  BY SMT, <1>1, <1>6, <1>7 DEF Positions
<1> QED BY SMT, <1>7, <1>8

\* A wait leaves what the tests are known by.
LEMMA WaitOneChild ==
    ASSUME RInv, WaitOne
    PROVE  \A j \in Positions :
              \/ child'[j] = child[j]
              \/ j \in Own /\ child[j] = "zombie" /\ child'[j] = "reaped"
BY DEF WaitOne, Group, Zombies, Own, RInv

\* Only the children write tests, each its own and before it ends.
LEMMA WrittenKept ==
    ASSUME RInv, WrittenInv, [RNext]_rvars
    PROVE  WrittenInv'
<1>1. ASSUME UNCHANGED <<order, files, died>>,
             \A j \in Positions : child'[j] = child[j] \/ child'[j] = "started"
                                  \/ (child[j] = "zombie" /\ child'[j] = "reaped")
      PROVE  WrittenInv'
  BY <1>1 DEF WrittenInv, Tests
<1>2. CASE StartKlee
  BY <1>1, <1>2 DEF StartKlee
<1>3. CASE Collect
  BY <1>1, <1>3 DEF Collect
<1>4. CASE NextSeed
  BY <1>1, <1>4 DEF NextSeed
<1>5. CASE Throttle
  BY <1>1, <1>5, WaitOneChild DEF Throttle
<1>6. CASE Poll
  BY <1>1, <1>6 DEF Poll, Group, Zombies, Own, RInv
<1>7. CASE Fork
  BY <1>1, <1>7 DEF Fork, RInv
<1>8. CASE Drain
  BY <1>1, <1>8, WaitOneChild DEF Drain
<1>9. ASSUME NEW j \in Positions, WriteTest(j) PROVE WrittenInv'
  <2>1. Tests' = Tests /\ [id |-> j + 1, seed |-> order[j]] \in Tests
    BY <1>9 DEF WriteTest, Tests
  <2>2. \A k \in Positions : k # j => child'[k] = child[k]
    BY <1>9 DEF WriteTest, RInv
  <2> QED BY <1>9, <2>1, <2>2 DEF WriteTest, WrittenInv
<1>10. ASSUME NEW j \in Positions, ChildExit(j) PROVE WrittenInv'
  <2>1. Tests' = Tests
    BY <1>10 DEF ChildExit, Tests
  <2>2. \A k \in Positions : k # j => child'[k] = child[k]
    BY <1>10 DEF ChildExit, RInv
  <2> QED BY <1>10, <2>1, <2>2 DEF ChildExit, WrittenInv
<1>11. CASE UNCHANGED rvars
  BY <1>1, <1>11 DEF rvars
<1> QED BY <1>2, <1>3, <1>4, <1>5, <1>6, <1>7, <1>8, <1>9, <1>10, <1>11 DEF RNext, RunnerStep

\* Main leaves a batch when it has waited for every child, unless a fork fails.
LEMMA BatchKept ==
    ASSUME RInv, BatchInv, [RNext]_rvars
    PROVE  BatchInv'
<1> USE RunnerAssumption
<1>0. Cardinality(Unreaped) \in Nat
  BY UnreapedFinite
<1>1. ASSUME UNCHANGED <<begin, i, leads, forkFailed>>,
             at' \in {"script", "collected"} \/ at \notin {"script", "collected"},
             at' = "drain" => i >= NUM \/ i >= begin + STEP,
             \A j \in Positions :
                \/ child'[j] = child[j]
                \/ child[j] \notin {"none", "reaped"} /\ child'[j] # "none"
      PROVE  BatchInv'
  BY <1>1 DEF BatchInv
<1>2. CASE StartKlee
  BY SMT, <1>2 DEF StartKlee, BatchInv, RInv, Positions
<1>3. CASE Collect
  BY <1>1, <1>3 DEF Collect
<1>4. CASE NextSeed
  BY SMT, <1>1, <1>4 DEF NextSeed, RInv
<1>5. CASE Throttle
  BY <1>1, <1>5, WaitOneChild DEF Throttle
<1>6. CASE Poll
  BY <1>1, <1>6 DEF Poll, Group, Zombies, Own, RInv
<1>7. CASE Fork
  <2>1. CASE child' = [child EXCEPT ![i] = "started"] /\ i' = i + 1 /\ at' = "loop"
             /\ UNCHANGED <<begin, forkFailed>>
    BY SMT, <1>7, <2>1 DEF Fork, RInv, BatchInv, Positions
  <2>2. CASE forkFailed' = TRUE /\ Exit /\ UNCHANGED <<child, i>>
    BY <1>7, <2>2 DEF Fork, Exit, BatchInv
  <2> QED BY <1>7, <2>1, <2>2 DEF Fork
<1>8. CASE Drain
  <2>1. CASE current_parallel > 0
    <3>1. WaitOne /\ UNCHANGED <<at, begin, i, leads, forkFailed>> /\ at = "drain"
      BY <1>8, <2>1 DEF Drain
    <3> QED BY <1>1, <3>1, WaitOneChild DEF BatchInv
  <2>2. CASE ~(current_parallel > 0)
    <3>1. Exit /\ UNCHANGED <<child, i, leads, forkFailed>> /\ at = "drain"
      BY <1>8, <2>2 DEF Drain
    <3>2. leads => Unreaped = {}
      <4>1. leads => Cardinality(Unreaped) = 0
        BY SMT, <1>0, <2>2, <3>1 DEF RInv
      <4> QED BY <4>1, UnreapedFinite, FS_EmptySet
    <3>3. ASSUME leads, ~forkFailed, NEW j \in Positions, j < begin + STEP
          PROVE  child[j] = "reaped"
      <4>1. CASE j < begin
        BY <3>3, <4>1 DEF BatchInv
      <4>2. CASE ~(j < begin)
        <5>1. j \in Own /\ j < i
          BY SMT, <3>1, <3>3, <4>2 DEF BatchInv, RInv, Own, Positions
        <5>2. child[j] # "none"
          BY SMT, <3>1, <4>2, <5>1 DEF BatchInv, RInv, Positions
        <5> QED BY <3>2, <3>3, <5>1, <5>2 DEF Unreaped, Running, Zombies, RInv
      <4> QED BY <4>1, <4>2
    <3> QED BY <3>1, <3>3 DEF Exit, BatchInv
  <2> QED BY <2>1, <2>2
<1>9. ASSUME NEW j \in Positions, WriteTest(j) \/ ChildExit(j) PROVE BatchInv'
  <2>1. /\ UNCHANGED <<begin, i, leads, forkFailed, at>>
        /\ \A k \in Positions :
                \/ child'[k] = child[k]
                \/ child[k] \notin {"none", "reaped"} /\ child'[k] # "none"
    BY <1>9 DEF WriteTest, ChildExit, RInv
  <2> QED BY <2>1 DEF BatchInv
<1>10. CASE UNCHANGED rvars
  BY <1>10 DEF rvars, BatchInv
<1> QED BY <1>2, <1>3, <1>4, <1>5, <1>6, <1>7, <1>8, <1>9, <1>10 DEF RNext, RunnerStep
\* Collecting the tests keeps the lines in the order of the positions.
LEMMA LinesKept ==
    ASSUME LinesInv, [RNext]_rvars
    PROVE  LinesInv'
<1> USE RunnerAssumption
<1>1. RInv' /\ WrittenInv' /\ BatchInv'
  BY RunnerStepKeeps, WrittenKept, BatchKept DEF LinesInv
<1>2. CASE Collect
  <2>1. UNCHANGED <<order, died, leads, forkFailed>> /\ lines' = Solved(files)
    BY <1>2 DEF Collect
  <2>2. ASSUME Len(lines') = NUM \/ (leads /\ died = {} /\ ~forkFailed)
        PROVE  files = Tests
    <3>1. files \in SUBSET Tests
      BY DEF LinesInv, WrittenInv
    <3>2. CASE Len(lines') = NUM
      <4>1. IsFiniteSet(files) /\ Cardinality(files) \in Nat
        BY <3>1, TestsCount, FS_Subset, FS_CardinalityType
      <4>2. Len(Solved(files)) = Cardinality(files)
        BY SMT, <4>1 DEF Solved
      <4>3. Cardinality(files) = NUM
        BY <2>1, <3>2, <4>2
      <4> QED BY <3>1, <4>3, TestsCount, FS_Subset
    <3>3. CASE leads /\ died = {} /\ ~forkFailed
      <4>1. \A j \in Positions : child[j] = "reaped"
        BY SMT, <1>2, <3>3 DEF Collect, LinesInv, BatchInv, RInv, Positions
      <4>2. \A j \in Positions : [id |-> j + 1, seed |-> order[j]] \in files
        BY <3>3, <4>1 DEF LinesInv, WrittenInv
      <4> QED BY <3>1, <4>2 DEF Tests
    <3> QED BY <2>2, <3>2, <3>3
  <2>3. files = Tests => lines' = [k \in 1..NUM |-> order[k - 1]]
    BY <2>1, AllSolved
  <2> QED BY <1>1, <2>1, <2>2, <2>3 DEF LinesInv
<1>3. CASE ~Collect
  <2>1. /\ UNCHANGED <<lines, order, leads>>
        /\ at' = "collected" => at = "collected"
        /\ died' = {} => died = {}
        /\ ~forkFailed' => ~forkFailed
    BY <1>3, SMTT(60) DEF RNext, RunnerStep, StartKlee, NextSeed, Throttle, Poll, Fork, Drain, Exit,
                WriteTest, ChildExit, rvars
  <2> QED BY <1>1, <2>1 DEF LinesInv
<1> QED BY <1>2, <1>3

\* The invariant holds when the script starts.
LEMMA LinesStart == RInit => LinesInv
<1> SUFFICES ASSUME RInit PROVE LinesInv
  OBVIOUS
<1>1. RInv
  BY RunnerInit
<1>2. WrittenInv
  BY DEF RInit, WrittenInv
<1>3. BatchInv
  BY SMT DEF RInit, BatchInv, Positions
<1> QED BY <1>1, <1>2, <1>3 DEF LinesInv, RInit

\* The k-th line is the solution for the k-th record, for any number of seeds and
\* size of a batch, whatever children die and forks fail, when the directory of the
\* seeds has no digit in its name (main, gen_constraint.sh, run_z3.py).
THEOREM LinesInOrder == ~PathHasDigits /\ RSpec => []LinesMatch
<1> SUFFICES ASSUME ~PathHasDigits PROVE RSpec => []LinesMatch
  OBVIOUS
<1>1. LinesInv => LinesMatch
  <2> SUFFICES ASSUME LinesInv, at = "collected",
                      Len(lines) = NUM \/ (leads /\ died = {} /\ ~forkFailed)
               PROVE  lines = [k \in 1..NUM |-> k - 1]
    BY DEF LinesMatch
  <2>1. lines = [k \in 1..NUM |-> order[k - 1]]
    BY DEF LinesInv
  <2>2. \A k \in 1..NUM : order[k - 1] = k - 1
    <3>1. \A k \in 1..NUM : k - 1 \in Positions
      BY SMT, RunnerAssumption DEF Positions
    <3> QED BY <3>1, OrderIsIdentity DEF LinesInv, WrittenInv
  <2> QED BY <2>1, <2>2
<1>2. LinesInv /\ [RNext]_rvars => LinesInv'
  BY LinesKept
<1> QED BY <1>1, <1>2, LinesStart, PTL DEF RSpec

-----------------------------------------------------------------------------
(* The reference machine.                                                  *)

MachineStart ==
    [pc |-> 1, t |-> 0, mem |-> [a \in Values |-> a], objs |-> {Global}, end |-> "no"]

IsRun(c, x, n, f) ==
    f = [k \in 0..n |-> IF k = 0 THEN MachineStart ELSE ConcreteStep(c, x, f[k-1])]

\* The machine has a run of every length.
LEMMA RunExists ==
    ASSUME NEW c, NEW x, NEW n \in Nat
    PROVE  \E f : IsRun(c, x, n, f)
<1> DEFINE S == {m \in Nat : \E f : IsRun(c, x, m, f)}
<1>1. 0 \in S
  <2>1. IsRun(c, x, 0, [k \in 0..0 |-> MachineStart])
    BY SMT DEF IsRun
  <2> QED BY <2>1
<1>2. ASSUME NEW m \in Nat, m \in S
      PROVE  m + 1 \in S
  <2>1. PICK f : IsRun(c, x, m, f)
    BY <1>2
  <2> DEFINE g == [k \in 0..m + 1 |-> IF k = m + 1 THEN ConcreteStep(c, x, f[m]) ELSE f[k]]
  <2>2. IsRun(c, x, m + 1, g)
    BY <2>1, SMT DEF IsRun
  <2> QED BY SMT, <2>2
<1> HIDE DEF S
<1>3. Nat \subseteq S
  BY <1>1, <1>2, NaturalInduction
<1> QED BY <1>3 DEF S

\* A longer run begins with every shorter one.
LEMMA RunsAgree ==
    ASSUME NEW c, NEW x, NEW n \in Nat, NEW f, NEW g,
           IsRun(c, x, n, f), IsRun(c, x, n + 1, g)
    PROVE  f[n] = g[n]
<1> DEFINE S == {k \in Nat : k <= n => f[k] = g[k]}
<1>1. 0 \in S
  BY SMT DEF IsRun
<1>2. ASSUME NEW k \in Nat, k \in S
      PROVE  k + 1 \in S
  <2> SUFFICES ASSUME k + 1 <= n
               PROVE  f[k + 1] = g[k + 1]
    BY SMT
  <2>1. /\ f[k + 1] = ConcreteStep(c, x, f[(k + 1) - 1])
        /\ g[k + 1] = ConcreteStep(c, x, g[(k + 1) - 1])
    BY SMT DEF IsRun
  <2>2. (k + 1) - 1 = k /\ f[k] = g[k]
    BY <1>2, SMT
  <2> QED BY <2>1, <2>2
<1> HIDE DEF S
<1>3. Nat \subseteq S
  BY <1>1, <1>2, NaturalInduction
<1> QED BY SMT, <1>3 DEF S

LEMMA ConcreteRun ==
    ASSUME NEW c, NEW x, NEW n \in Nat
    PROVE  \E f : IsRun(c, x, n, f) /\ Concrete(c, x, n) = f[n]
<1>1. PICK f : IsRun(c, x, n, f)
  BY RunExists
<1> QED BY <1>1 DEF Concrete, IsRun, MachineStart

LEMMA ConcreteStarts ==
    ASSUME NEW c, NEW x
    PROVE  Concrete(c, x, 0) = MachineStart
<1>1. PICK f : IsRun(c, x, 0, f) /\ Concrete(c, x, 0) = f[0]
  BY ConcreteRun
<1> QED BY <1>1, SMT DEF IsRun

\* The machine after one more instruction.
LEMMA ConcreteSteps ==
    ASSUME NEW c, NEW x, NEW n \in Nat
    PROVE  Concrete(c, x, n + 1) = ConcreteStep(c, x, Concrete(c, x, n))
<1>1. PICK f : IsRun(c, x, n, f) /\ Concrete(c, x, n) = f[n]
  BY ConcreteRun
<1>2. PICK g : IsRun(c, x, n + 1, g) /\ Concrete(c, x, n + 1) = g[n + 1]
  BY SMT, ConcreteRun
<1>3. f[n] = g[n]
  BY SMT, <1>1, <1>2, RunsAgree
<1>4. g[n + 1] = ConcreteStep(c, x, g[(n + 1) - 1]) /\ (n + 1) - 1 = n
  BY <1>2, SMT DEF IsRun
<1> QED BY <1>1, <1>2, <1>3, <1>4

\* What the building blocks of a step make of a machine state.
Machine(p, v, m, o, e) == [pc |-> p, t |-> v, mem |-> m, objs |-> o, end |-> e]

LEMMA MachineGoto ==
    ASSUME NEW p, NEW v, NEW m, NEW o, NEW e, NEW k
    PROVE  Goto(Machine(p, v, m, o, e), k) = Machine(p + 1 + k, v, m, o, e)
BY SMT DEF Machine, Goto

LEMMA MachineSetT ==
    ASSUME NEW p, NEW v, NEW m, NEW o, NEW e, NEW w
    PROVE  SetT(Machine(p, v, m, o, e), w) = Machine(p + 1 + 0, w, m, o, e)
<1>1. SetT(Machine(p, v, m, o, e), w) = [Machine(p + 1 + 0, v, m, o, e) EXCEPT !.t = w]
  BY SMT, MachineGoto DEF SetT
<1> QED BY <1>1 DEF Machine

LEMMA MachineHalt ==
    ASSUME NEW p, NEW v, NEW m, NEW o, NEW e, NEW k
    PROVE  Halt(Machine(p, v, m, o, e), k) = Machine(p, v, m, o, k)
BY SMT DEF Machine, Halt

LEMMA EvaluatedMachine ==
    ASSUME NEW x
    PROVE  Evaluated(x) = Machine(pc, locals["t"][x], [a \in Values |-> memory[a][x]], objects,
                                  IF running THEN "no" ELSE tests[1].kind)
BY DEF Evaluated, Machine

-----------------------------------------------------------------------------
(* Steps of the executor.                                                  *)

Operating == running /\ I.op \notin {"symbolic", "ret", "unreachable"}

\* An instruction that operates finds all objects symbolic, a seed that satisfies the
\* constraints, and an operand whose value for an input is the machine's.
LEMMA Operand ==
    ASSUME ReplayInv, Operating
    PROVE  /\ bound = Names
           /\ seed \in constraints /\ seed \in Inputs
           /\ pc + 2 <= Len(code)
           /\ E \in [Inputs -> Values]
           /\ \A x \in Inputs : E[x] = IF I.src = "t" THEN locals["t"][x] ELSE x[I.src]
           /\ \A x \in Inputs : locals["right"][x] = x["right"]
<1>1. /\ Wrapper(code) /\ pc \in 1..Len(code) /\ DOMAIN ktest = Names
      /\ constraints \subseteq Inputs
      /\ locals \in [Names \cup {"t"} -> [Inputs -> Values]]
      /\ "right" \in Names /\ "t" \notin Names
  BY ReplayAssumption DEF ReplayInv, ReplayTypeOK
<1>2. /\ I.src \in Names \cup {"t"} /\ pc + 2 <= Len(code)
      /\ \A n \in Names : MadeSymbolic(code, n, pc)
  BY <1>1 DEF Wrapper, Operating, I
<1>3. bound = Names
  <2> SUFFICES ASSUME bound # Names
               PROVE  FALSE
    OBVIOUS
  <2>1. \A n \in Names : n \in bound
    BY ZenonT(60), <1>2 DEF ReplayInv, ObjectsBound, OnlySymbolic, MadeSymbolic
  <2> QED BY <2>1 DEF ReplayInv, ReplayTypeOK
<1>4. seed \in constraints /\ seed \in Inputs
  BY <1>1, <1>3 DEF ReplayInv, SeedSatisfies
<1>5. E \in [Inputs -> Values]
  BY <1>1, <1>2 DEF E
<1>6. \A n \in Names : locals[n] = [x \in Inputs |-> x[n]]
  BY <1>3 DEF ReplayInv, ObjectsBound
<1>7. \A x \in Inputs : E[x] = IF I.src = "t" THEN locals["t"][x] ELSE x[I.src]
  <2> SUFFICES ASSUME NEW x \in Inputs
               PROVE  E[x] = IF I.src = "t" THEN locals["t"][x] ELSE x[I.src]
    OBVIOUS
  <2>1. CASE I.src = "t"
    BY <2>1 DEF E
  <2>2. CASE I.src \in Names /\ I.src # "t"
    <3>1. E = [y \in Inputs |-> y[I.src]]
      BY <2>2, <1>6 DEF E
    <3> QED BY <2>2, <3>1
  <2> QED BY <1>2, <2>1, <2>2
<1>8. \A x \in Inputs : locals["right"][x] = x["right"]
  BY ZenonT(60), <1>1, <1>6
<1> QED BY <1>2, <1>3, <1>4, <1>5, <1>7, <1>8

\* What the instruction of the executor does to the machine.
LEMMA MachineSteps ==
    ASSUME ReplayInv, Operating, NEW x \in Inputs
    PROVE  LET s == Evaluated(x)
               step == ConcreteStep(code, x, s)
           IN  /\ I.op = "arith" => step = SetT(s, Added(E[x], x["right"]))
               /\ I.op = "float" => step = SetT(s, FloatResult(E[x]))
               /\ I.op = "external" => step = SetT(s, ExternalResult(E[x]))
               /\ I.op = "get" => step = SetT(s, E[x])
               /\ I.op = "br" => step = Goto(s, BrTarget(E[x]))
               /\ I.op = "switch" => step = Goto(s, SwitchTarget(E[x]))
               /\ I.op = "indirectbr" => step = Goto(s, LabelTarget(E[x]))
               /\ I.op = "call" => step = IF E[x] \in LegalFunctions
                                          THEN Goto(s, CallTarget(E[x])) ELSE Halt(s, "exec")
               /\ I.op = "alloc" => step = ConcreteAlloc(s, E[x])
               /\ I.op = "free" => step = ConcreteFree(s, E[x])
               /\ I.op = "load" => step = ConcreteAccess(s, E[x], FALSE, x["right"])
               /\ I.op = "store" => step = ConcreteAccess(s, E[x], TRUE, x["right"])
<1> DEFINE s == Evaluated(x)
           v == IF code[s.pc].src = "t" THEN s.t ELSE x[code[s.pc].src]
<1>1. s.pc = pc /\ s.t = locals["t"][x]
  BY DEF Evaluated
<1>2. code[s.pc].op = I.op /\ v = E[x]
  BY <1>1, Operand DEF I
<1> HIDE DEF s
<1>3. /\ I.op = "arith" => ConcreteStep(code, x, s) = SetT(s, Added(v, x["right"]))
      /\ I.op = "float" => ConcreteStep(code, x, s) = SetT(s, FloatResult(v))
      /\ I.op = "external" => ConcreteStep(code, x, s) = SetT(s, ExternalResult(v))
      /\ I.op = "get" => ConcreteStep(code, x, s) = SetT(s, v)
  <2>1. I.op = "arith" => ConcreteStep(code, x, s) = SetT(s, Added(v, x["right"]))
    BY <1>2, SMTT(60) DEF ConcreteStep
  <2>2. I.op = "float" => ConcreteStep(code, x, s) = SetT(s, FloatResult(v))
    BY <1>2, SMTT(60) DEF ConcreteStep
  <2>3. I.op = "external" => ConcreteStep(code, x, s) = SetT(s, ExternalResult(v))
    BY <1>2, SMTT(60) DEF ConcreteStep
  <2>4. I.op = "get" => ConcreteStep(code, x, s) = SetT(s, v)
    BY <1>2, SMTT(60) DEF ConcreteStep
  <2> QED BY <2>1, <2>2, <2>3, <2>4
<1>4. /\ I.op = "br" => ConcreteStep(code, x, s) = Goto(s, BrTarget(v))
      /\ I.op = "switch" => ConcreteStep(code, x, s) = Goto(s, SwitchTarget(v))
      /\ I.op = "indirectbr" => ConcreteStep(code, x, s) = Goto(s, LabelTarget(v))
      /\ I.op = "call" => ConcreteStep(code, x, s) = IF v \in LegalFunctions
                          THEN Goto(s, CallTarget(v)) ELSE Halt(s, "exec")
  <2>1. I.op = "br" => ConcreteStep(code, x, s) = Goto(s, BrTarget(v))
    BY <1>2, SMTT(60) DEF ConcreteStep
  <2>2. I.op = "switch" => ConcreteStep(code, x, s) = Goto(s, SwitchTarget(v))
    BY <1>2, SMTT(60) DEF ConcreteStep
  <2>3. I.op = "indirectbr" => ConcreteStep(code, x, s) = Goto(s, LabelTarget(v))
    BY <1>2, SMTT(60) DEF ConcreteStep
  <2>4. I.op = "call" => ConcreteStep(code, x, s) = IF v \in LegalFunctions
                         THEN Goto(s, CallTarget(v)) ELSE Halt(s, "exec")
    BY <1>2, SMTT(60) DEF ConcreteStep
  <2> QED BY <2>1, <2>2, <2>3, <2>4
<1>5. /\ I.op = "alloc" => ConcreteStep(code, x, s) = ConcreteAlloc(s, v)
      /\ I.op = "free" => ConcreteStep(code, x, s) = ConcreteFree(s, v)
  BY <1>2, SMTT(60) DEF ConcreteStep
<1>6. /\ I.op = "load" => ConcreteStep(code, x, s) = ConcreteAccess(s, v, FALSE, x["right"])
      /\ I.op = "store" => ConcreteStep(code, x, s) = ConcreteAccess(s, v, TRUE, x["right"])
  <2>1. I.op \in {"load", "store"} =>
            ConcreteStep(code, x, s) = ConcreteAccess(s, v, I.op = "store", x["right"])
    BY <1>2, SMTT(60) DEF ConcreteStep
  <2>2. I.op = "load" => (I.op = "store") = FALSE
    OBVIOUS
  <2>3. I.op = "store" => (I.op = "store") = TRUE
    OBVIOUS
  <2> QED BY <2>1, <2>2, <2>3, Zenon
<1> HIDE DEF v
<1> QED BY ZenonT(60), <1>2, <1>3, <1>4, <1>5, <1>6 DEF s

\* The machine's arithmetic stays in its values.
LEMMA ValuesClosed ==
    ASSUME NEW v \in Values, NEW w \in Values
    PROVE  /\ Added(v, w) \in Values /\ FloatResult(v) \in Values /\ ExternalResult(v) \in Values
           /\ AllocSize(v) \in {1, 2}
           /\ BrTarget(v) \in {0, 1} /\ SwitchTarget(v) \in {0, 1} /\ LabelTarget(v) \in {0, 1}
           /\ v \in LegalFunctions => CallTarget(v) \in {0, 1}
BY SMT DEF Values, Added, FloatResult, ExternalResult, AllocSize, BrTarget, SwitchTarget,
           LabelTarget, CallTarget, LegalFunctions

\* Going on with another instruction.
LEMMA Continued ==
    ASSUME ReplayInv, Operating, NEW to \in {pc + 1, pc + 2}, NEW e \in [Inputs -> Values],
           Continue(to, e)
    PROVE  /\ UNCHANGED <<code, ktest, bound, tests, running>>
           /\ steps' = steps + 1 /\ running' = TRUE /\ tests' = <<>>
           /\ pc' \in 1..Len(code)
           /\ locals' \in [Names \cup {"t"} -> [Inputs -> Values]]
           /\ \A n \in Names : locals'[n] = locals[n]
           /\ \A x \in Inputs : (Evaluated(x))' =
                 Machine(to, e[x], [a \in Values |-> memory'[a][x]], objects', "no")
<1>1. /\ UNCHANGED <<code, ktest, bound, tests, running>>
      /\ steps' = steps + 1 /\ running' = TRUE /\ tests' = <<>>
  BY DEF Continue, Operating, ReplayInv, ReplayTypeOK
<1>2. pc' \in 1..Len(code) /\ pc' = to
  <2>1. pc \in 1..Len(code) /\ pc + 2 <= Len(code) /\ Len(code) \in Nat
    BY Operand, ReplayAssumption DEF ReplayInv, ReplayTypeOK, Wrapper
  <2> QED BY <2>1, SMT DEF Continue
<1>3. "t" \notin Names /\ locals \in [Names \cup {"t"} -> [Inputs -> Values]]
  BY ReplayAssumption DEF ReplayInv, ReplayTypeOK
<1>4. /\ locals' \in [Names \cup {"t"} -> [Inputs -> Values]]
      /\ \A n \in Names : locals'[n] = locals[n]
      /\ locals'["t"] = e
  BY <1>3 DEF Continue
<1>5. \A x \in Inputs : (Evaluated(x))' =
                 Machine(to, e[x], [a \in Values |-> memory'[a][x]], objects', "no")
  BY <1>1, <1>2, <1>4 DEF Evaluated, Machine
<1> QED BY <1>1, <1>2, <1>4, <1>5

\* The end of the state.
LEMMA Terminated ==
    ASSUME ReplayInv, running, NEW kind, terminateStateOnError(kind)
    PROVE  /\ UNCHANGED <<code, ktest, state, bound>>
           /\ steps' = steps + 1 /\ running' = FALSE /\ Len(tests') = 1 /\ tests'[1].kind = kind
           /\ \A x \in Inputs : (Evaluated(x))' =
                 Machine(pc, locals["t"][x], [a \in Values |-> memory[a][x]], objects, kind)
<1>1. /\ UNCHANGED <<code, ktest, pc, locals, memory, objects, bound>>
      /\ steps' = steps + 1 /\ running' = FALSE
      /\ tests' = Append(tests, [kind |-> kind, smt2 |-> constraints'])
  BY DEF terminateStateOnError, terminateState, processTestCase, getConstraintLog, updateStates,
         state
<1>2. tests = <<>>
  BY DEF ReplayInv, ReplayTypeOK
<1>3. Len(tests') = 1 /\ tests'[1].kind = kind
  BY SMT, <1>1, <1>2
<1>4. \A x \in Inputs : (Evaluated(x))' =
                 Machine(pc, locals["t"][x], [a \in Values |-> memory[a][x]], objects, kind)
  BY <1>1, <1>3 DEF Evaluated, Machine
<1> QED BY <1>1, <1>3, <1>4 DEF state

\* What an instruction leaves of the constraints and the seed.
Narrowed ==
    /\ constraints' \subseteq constraints /\ fixed' \subseteq fixed
    /\ seed' \in constraints' /\ patched' \in BOOLEAN
    /\ ~patched' => ~patched /\ seed' = seed /\ seed \in fixed'

\* The seed satisfies the constraints, and is the record unless it was patched.
LEMMA SeedThere ==
    ASSUME ReplayInv, Operating
    PROVE  /\ seed \in constraints /\ seed \in Inputs
           /\ patched \in BOOLEAN /\ (~patched => seed = ktest /\ seed \in fixed)
<1>1. DOMAIN ktest = Names /\ bound = Names /\ patched \in BOOLEAN
  BY Operand, ReplayAssumption DEF ReplayInv, ReplayTypeOK
<1> QED BY <1>1, Operand DEF ReplayInv, SeedSatisfies

LEMMA Constrained ==
    ASSUME ReplayInv, Operating, NEW C, addConstraint(C), UNCHANGED fixed
    PROVE  constraints' = constraints \cap C /\ Narrowed
BY SeedThere DEF addConstraint, patchSeed, Narrowed

\* A value that is used without a constraint.
LEMMA FixedTo ==
    ASSUME ReplayInv, Operating, Unconstrained, NEW vs, Fix(E, vs), E[seed] \in vs
    PROVE  Narrowed /\ \A x \in constraints' \cap fixed' : E[x] \in vs
BY SeedThere DEF Unconstrained, Fix, Where, Narrowed

LEMMA NotConstrained ==
    ASSUME ReplayInv, Operating, Unconstrained, UNCHANGED fixed
    PROVE  Narrowed
BY SeedThere DEF Unconstrained, Narrowed

-----------------------------------------------------------------------------
(* One lemma for every instruction.                                        *)

\* The step keeps the types, narrows the inputs, and for those that are left does what
\* the machine does.
Followed ==
    /\ UNCHANGED <<code, ktest, bound>> /\ steps' = steps + 1
    /\ pc' \in 1..Len(code)
    /\ locals' \in [Names \cup {"t"} -> [Inputs -> Values]]
    /\ \A n \in Names : locals'[n] = locals[n]
    /\ memory' \in [Values -> [Inputs -> Values]]
    /\ Global \in objects' /\ objects' \subseteq {Global, 1..1, 1..2}
    /\ running' \in BOOLEAN /\ IF running' THEN tests' = <<>> ELSE Len(tests') = 1
    /\ Narrowed
    /\ ~Aborted' => \A x \in constraints' \cap fixed' :
                        (Evaluated(x))' = ConcreteStep(code, x, Evaluated(x))

LEMMA FollowedInv ==
    ASSUME ReplayInv, Operating, Followed
    PROVE  ReplayInv'
<1>1. /\ bound = Names /\ DOMAIN ktest = Names /\ constraints \subseteq Inputs
      /\ Inputs \subseteq [Names -> Values]
  BY Operand, ReplayAssumption DEF ReplayInv, ReplayTypeOK
<1>2. ReplayTypeOK'
  <2>1. constraints' \subseteq Inputs /\ fixed' \subseteq Inputs /\ DOMAIN seed' = Names
    BY <1>1 DEF ReplayInv, ReplayTypeOK, Followed, Narrowed
  <2>2. steps' \in Nat
    BY SMT DEF ReplayInv, ReplayTypeOK, Followed
  <2> QED BY <2>1, <2>2 DEF ReplayInv, ReplayTypeOK, Followed, Narrowed
<1>3. ObjectsBound'
  BY <1>1 DEF ReplayInv, ObjectsBound, Followed
<1>4. SeedSatisfies'
  BY <1>1, SeedThere DEF SeedSatisfies, Followed, Narrowed
<1>5. SolutionsFollow'
  <2> SUFFICES ASSUME ~Aborted', NEW x \in constraints' \cap fixed'
               PROVE  (Evaluated(x))' = Concrete(code', x, steps')
    BY DEF SolutionsFollow
  <2>1. x \in constraints \cap fixed /\ code' = code /\ steps' = steps + 1 /\ steps \in Nat
    BY DEF Followed, Narrowed, ReplayInv, ReplayTypeOK
  <2>2. ~Aborted
    BY DEF Operating, Aborted
  <2>3. Evaluated(x) = Concrete(code, x, steps)
    BY <2>1, <2>2 DEF ReplayInv, SolutionsFollow
  <2>4. (Evaluated(x))' = ConcreteStep(code, x, Evaluated(x))
    BY DEF Followed
  <2> QED BY <2>1, <2>3, <2>4, ConcreteSteps
<1> QED BY <1>2, <1>3, <1>4, <1>5 DEF ReplayInv

\* An instruction that goes on, with the machine's next instruction and result.
LEMMA ContinuedFollows ==
    ASSUME ReplayInv, Operating, NEW to \in {pc + 1, pc + 2}, NEW e \in [Inputs -> Values],
           Continue(to, e), UNCHANGED <<memory, objects>>, Narrowed,
           \A x \in constraints' \cap fixed' : ConcreteStep(code, x, Evaluated(x)) =
              Machine(to, e[x], [a \in Values |-> memory[a][x]], objects, "no")
    PROVE  Followed
<1>1. constraints' \cap fixed' \subseteq Inputs
  BY DEF Narrowed, ReplayInv, ReplayTypeOK
<1>2. ASSUME NEW x \in constraints' \cap fixed'
      PROVE  (Evaluated(x))' = ConcreteStep(code, x, Evaluated(x))
  <2>1. (Evaluated(x))' =
            Machine(to, e[x], [a \in Values |-> memory'[a][x]], objects', "no")
    BY <1>1, Continued
  <2>2. memory' = memory /\ objects' = objects
    OBVIOUS
  <2> QED BY <2>1, <2>2
<1>3. memory' \in [Values -> [Inputs -> Values]] /\ Global \in objects'
      /\ objects' \subseteq {Global, 1..1, 1..2}
  BY DEF ReplayInv, ReplayTypeOK
<1> QED BY <1>2, <1>3, Continued DEF Followed

\* An instruction that ends the state the way the machine ends.
LEMMA TerminatedFollows ==
    ASSUME ReplayInv, Operating, NEW kind, terminateStateOnError(kind), Narrowed,
           kind # "external" =>
             \A x \in constraints' \cap fixed' : ConcreteStep(code, x, Evaluated(x)) =
                Halt(Evaluated(x), kind)
    PROVE  Followed
<1>1. constraints' \cap fixed' \subseteq Inputs
  BY DEF Narrowed, ReplayInv, ReplayTypeOK
<1>2. ASSUME kind # "external", NEW x \in constraints' \cap fixed'
      PROVE  (Evaluated(x))' = ConcreteStep(code, x, Evaluated(x))
  <2>1. Halt(Evaluated(x), kind) =
          Machine(pc, locals["t"][x], [a \in Values |-> memory[a][x]], objects, kind)
    BY SMT, EvaluatedMachine, MachineHalt
  <2>2. x \in Inputs /\ running
    BY <1>1 DEF Operating
  <2> QED BY <1>2, <2>1, <2>2, Terminated
<1>3. running
  BY DEF Operating
<1>4. kind = "external" => Aborted'
  BY <1>3, Terminated DEF Aborted
<1>5. UNCHANGED <<code, ktest, pc, locals, memory, objects, bound>>
      /\ steps' = steps + 1 /\ running' = FALSE /\ Len(tests') = 1
  BY <1>3, Terminated DEF state
<1>6. /\ pc' \in 1..Len(code) /\ locals' \in [Names \cup {"t"} -> [Inputs -> Values]]
      /\ \A n \in Names : locals'[n] = locals[n]
      /\ memory' \in [Values -> [Inputs -> Values]] /\ Global \in objects'
      /\ objects' \subseteq {Global, 1..1, 1..2}
  BY <1>5 DEF ReplayInv, ReplayTypeOK
<1>7. running' \in BOOLEAN /\ IF running' THEN tests' = <<>> ELSE Len(tests') = 1
  BY <1>5
<1> QED BY <1>2, <1>4, <1>5, <1>6, <1>7 DEF Followed

LEMMA EvaluatedParts ==
    ASSUME ReplayInv, running, NEW x, NEW w, NEW k
    PROVE  /\ SetT(Evaluated(x), w) =
                Machine(pc + 1, w, [a \in Values |-> memory[a][x]], objects, "no")
           /\ Goto(Evaluated(x), k) =
                Machine(pc + 1 + k, locals["t"][x], [a \in Values |-> memory[a][x]], objects, "no")
           /\ Evaluated(x).objs = objects /\ Evaluated(x).mem = [a \in Values |-> memory[a][x]]
<1>1. pc + 1 + 0 = pc + 1
  BY SMT DEF ReplayInv, ReplayTypeOK
<1>2. Evaluated(x) = Machine(pc, locals["t"][x], [a \in Values |-> memory[a][x]], objects, "no")
  BY EvaluatedMachine
<1> DEFINE v == locals["t"][x]
           m == [a \in Values |-> memory[a][x]]
<1> HIDE DEF v, m
<1>3. /\ SetT(Machine(pc, v, m, objects, "no"), w) = Machine(pc + 1 + 0, w, m, objects, "no")
      /\ Goto(Machine(pc, v, m, objects, "no"), k) = Machine(pc + 1 + k, v, m, objects, "no")
      /\ Machine(pc, v, m, objects, "no").objs = objects
      /\ Machine(pc, v, m, objects, "no").mem = m
  BY SMT, MachineGoto, MachineSetT DEF Machine
<1> QED BY <1>1, <1>2, <1>3, Zenon DEF v, m

LEMMA ArithmeticInv ==
    ASSUME ReplayInv, Arithmetic
    PROVE  ReplayInv'
<1> DEFINE e == [x \in Inputs |-> Added(E[x], locals["right"][x])]
<1>1. Operating /\ I.op = "arith" /\ running
  BY DEF Arithmetic, Executing, Operating
<1>2. \A x \in Inputs : E[x] \in Values /\ locals["right"][x] \in Values
  BY <1>1, Operand, ReplayAssumption
<1>3. e \in [Inputs -> Values]
  BY <1>2, ValuesClosed
<1>4. Narrowed /\ constraints' \subseteq Inputs
  BY <1>1, NotConstrained DEF Arithmetic, Narrowed, ReplayInv, ReplayTypeOK
<1>5. ASSUME NEW x \in constraints' \cap fixed'
      PROVE  ConcreteStep(code, x, Evaluated(x)) =
               Machine(pc + 1, e[x], [a \in Values |-> memory[a][x]], objects, "no")
  <2>1. x \in Inputs
    BY <1>4
  <2>2. ConcreteStep(code, x, Evaluated(x)) = SetT(Evaluated(x), e[x])
    BY <1>1, <2>1, MachineSteps, Operand
  <2> QED BY <1>1, <2>2, EvaluatedParts
<1> HIDE DEF e
<1>6. Followed
  BY <1>1, <1>3, <1>4, <1>5, ContinuedFollows DEF Arithmetic, Next1, e
<1> QED BY <1>1, <1>6, FollowedInv

LEMMA FloatingPointInv ==
    ASSUME ReplayInv, FloatingPoint
    PROVE  ReplayInv'
<1>1. Operating /\ I.op = "float" /\ running
  BY DEF FloatingPoint, Executing, Operating
<1>2. PICK v \in Values : toConstant(E, v) /\ Continue(Next1, Const(FloatResult(v)))
  BY DEF FloatingPoint
<1> DEFINE e == Const(FloatResult(v))
<1>3. e \in [Inputs -> Values] /\ \A x \in Inputs : e[x] = FloatResult(v)
  BY ValuesClosed DEF Const
<1>4. Narrowed /\ \A x \in constraints' : x \in Inputs /\ E[x] = v
  <2>1. constraints' = constraints \cap Where(E, {v}) /\ Narrowed
    BY <1>1, <1>2, Constrained DEF FloatingPoint, toConstant
  <2> QED BY <2>1 DEF Where
<1>5. ASSUME NEW x \in constraints' \cap fixed'
      PROVE  ConcreteStep(code, x, Evaluated(x)) =
               Machine(pc + 1, e[x], [a \in Values |-> memory[a][x]], objects, "no")
  <2>1. x \in Inputs /\ E[x] = v
    BY <1>4
  <2>2. ConcreteStep(code, x, Evaluated(x)) = SetT(Evaluated(x), e[x])
    BY <1>1, <1>3, <2>1, MachineSteps
  <2> QED BY <1>1, <2>2, EvaluatedParts
<1> HIDE DEF e
<1>6. Followed
  BY <1>1, <1>2, <1>3, <1>4, <1>5, ContinuedFollows DEF FloatingPoint, Next1, e
<1> QED BY <1>1, <1>6, FollowedInv

LEMMA ExecuteGetValueInv ==
    ASSUME ReplayInv, executeGetValue
    PROVE  ReplayInv'
<1>1. Operating /\ I.op = "get" /\ running
  BY DEF executeGetValue, Executing, Operating
<1> DEFINE e == Const(E[seed])
<1>2. E[seed] \in Values
  BY <1>1, Operand
<1>3. e \in [Inputs -> Values] /\ \A x \in Inputs : e[x] = E[seed]
  BY <1>2 DEF Const
<1>4. Narrowed /\ \A x \in constraints' : x \in Inputs /\ E[x] = E[seed]
  <2>1. constraints' = constraints \cap Where(E, {E[seed]}) /\ Narrowed
    BY <1>1, Constrained DEF executeGetValue, branch
  <2> QED BY <2>1 DEF Where
<1>5. ASSUME NEW x \in constraints' \cap fixed'
      PROVE  ConcreteStep(code, x, Evaluated(x)) =
               Machine(pc + 1, e[x], [a \in Values |-> memory[a][x]], objects, "no")
  <2>1. x \in Inputs /\ E[x] = E[seed]
    BY <1>4
  <2>2. ConcreteStep(code, x, Evaluated(x)) = SetT(Evaluated(x), e[x])
    BY <1>1, <1>3, <2>1, MachineSteps
  <2> QED BY <1>1, <2>2, EvaluatedParts
<1> HIDE DEF e
<1>6. Followed
  BY <1>1, <1>3, <1>4, <1>5, ContinuedFollows DEF executeGetValue, Next1, e
<1> QED BY <1>1, <1>6, FollowedInv

\* A jump whose target, for every input that is left, is the seed's.
LEMMA JumpFollows ==
    ASSUME ReplayInv, Operating, NEW k \in {0, 1}, Continue(Next1 + k, locals["t"]),
           UNCHANGED <<memory, objects>>, Narrowed,
           \A x \in constraints' \cap fixed' :
              ConcreteStep(code, x, Evaluated(x)) = Goto(Evaluated(x), k)
    PROVE  ReplayInv'
<1>1. /\ Next1 + k \in {pc + 1, pc + 2} /\ locals["t"] \in [Inputs -> Values]
      /\ running /\ Next1 + k = pc + 1 + k
  BY SMT DEF Next1, ReplayInv, ReplayTypeOK, Operating
<1>2. \A x \in constraints' \cap fixed' : ConcreteStep(code, x, Evaluated(x)) =
           Machine(Next1 + k, locals["t"][x], [a \in Values |-> memory[a][x]], objects, "no")
  BY SMT, <1>1, EvaluatedParts
<1>3. Followed
  BY <1>1, <1>2, ContinuedFollows
<1> QED BY <1>3, FollowedInv

LEMMA BrInv ==
    ASSUME ReplayInv, Br
    PROVE  ReplayInv'
<1> DEFINE C == Where(E, {v \in Values : BrTarget(v) = 0})
           k == BrTarget(E[seed])
<1>1. Operating /\ I.op = "br"
  BY DEF Br, Executing, Operating
<1>2. \A x \in Inputs : E[x] \in Values /\ BrTarget(E[x]) \in {0, 1}
  BY <1>1, Operand, ValuesClosed
<1>3. constraints' = constraints \cap (IF seed \in C THEN C ELSE Inputs \ C) /\ Narrowed
  BY <1>1, Constrained DEF Br, fork
<1>4. \A x \in constraints' : x \in Inputs /\ BrTarget(E[x]) = k
  BY <1>1, <1>2, <1>3, Operand DEF Where, ReplayInv, ReplayTypeOK
<1>5. \A x \in constraints' \cap fixed' :
              ConcreteStep(code, x, Evaluated(x)) = Goto(Evaluated(x), k)
  BY <1>1, <1>4, MachineSteps
<1>6. k \in {0, 1}
  BY <1>1, <1>2, Operand
<1> HIDE DEF k
<1> QED BY <1>1, <1>3, <1>5, <1>6, JumpFollows DEF Br, k

\* A jump to where the seed's value leads, without a constraint.
LEMMA GotoUniqueInv ==
    ASSUME ReplayInv, Operating, NEW k \in {0, 1}, GotoUnique(k),
           \A x \in Inputs : E[x] = E[seed] =>
              ConcreteStep(code, x, Evaluated(x)) = Goto(Evaluated(x), k)
    PROVE  ReplayInv'
<1>1. Narrowed /\ \A x \in constraints' \cap fixed' : E[x] = E[seed]
  BY SMT, FixedTo DEF GotoUnique, toUnique
<1>2. \A x \in constraints' \cap fixed' : x \in Inputs
  BY <1>1 DEF Narrowed, ReplayInv, ReplayTypeOK
<1> QED BY <1>1, <1>2, JumpFollows DEF GotoUnique

LEMMA SwitchInv ==
    ASSUME ReplayInv, Switch
    PROVE  ReplayInv'
<1>1. Operating /\ I.op = "switch"
  BY DEF Switch, Executing, Operating
<1>2. SwitchTarget(E[seed]) \in {0, 1}
  BY <1>1, Operand, ValuesClosed
<1>3. \A x \in Inputs : E[x] = E[seed] =>
          ConcreteStep(code, x, Evaluated(x)) = Goto(Evaluated(x), SwitchTarget(E[seed]))
  BY <1>1, MachineSteps
<1> QED BY <1>1, <1>2, <1>3, GotoUniqueInv DEF Switch, toUnique

LEMMA IndirectBrInv ==
    ASSUME ReplayInv, IndirectBr
    PROVE  ReplayInv'
<1>1. Operating /\ I.op = "indirectbr"
  BY DEF IndirectBr, Executing, Operating
<1>2. LabelTarget(E[seed]) \in {0, 1}
  BY <1>1, Operand, ValuesClosed
<1>3. \A x \in Inputs : E[x] = E[seed] =>
          ConcreteStep(code, x, Evaluated(x)) = Goto(Evaluated(x), LabelTarget(E[seed]))
  BY <1>1, MachineSteps
<1> QED BY <1>1, <1>2, <1>3, GotoUniqueInv DEF IndirectBr, toUnique

\* A constraint that is added before the instruction is done.
LEMMA RoundInv ==
    ASSUME ReplayInv, Operating, Narrowed,
           UNCHANGED <<code, ktest, state, bound, tests, running, steps>>
    PROVE  ReplayInv'
<1>1. UNCHANGED <<code, ktest, pc, locals, memory, objects, bound, tests, running, steps>>
  BY DEF state
<1>2. /\ bound = Names /\ DOMAIN ktest = Names /\ constraints \subseteq Inputs
      /\ Inputs \subseteq [Names -> Values]
  BY Operand, ReplayAssumption DEF ReplayInv, ReplayTypeOK
<1>3. constraints' \subseteq Inputs /\ fixed' \subseteq Inputs /\ DOMAIN seed' = Names
  BY <1>2 DEF ReplayInv, ReplayTypeOK, Narrowed
<1>4. ReplayTypeOK'
  BY SMT, <1>1, <1>3 DEF ReplayInv, ReplayTypeOK, Narrowed
<1>5. ObjectsBound'
  BY <1>1, <1>2 DEF ReplayInv, ObjectsBound
<1>6. SeedSatisfies'
  BY <1>1, <1>2, SeedThere DEF SeedSatisfies, Narrowed
<1>7. SolutionsFollow'
  BY SMT, <1>1 DEF ReplayInv, SolutionsFollow, Narrowed, Evaluated, Aborted
<1> QED BY <1>4, <1>5, <1>6, <1>7 DEF ReplayInv

LEMMA CallInv ==
    ASSUME ReplayInv, Call
    PROVE  ReplayInv'
<1>1. Operating /\ I.op = "call" /\ running
  BY DEF Call, Executing, Operating
<1>2. PICK v \in {E[x] : x \in constraints} :
         /\ fork(Where(E, {v}))
         /\ IF seed \notin Where(E, {v})
            THEN UNCHANGED <<code, ktest, state, bound, tests, running, steps, fixed>>
            ELSE IF v \in LegalFunctions
            THEN Continue(Next1 + CallTarget(v), locals["t"]) /\ UNCHANGED <<memory, objects, fixed>>
            ELSE terminateStateOnError("exec") /\ UNCHANGED fixed
  BY DEF Call
<1>3. v \in Values
  BY SMT, <1>1, Operand DEF ReplayInv, ReplayTypeOK
<1>4. UNCHANGED fixed
  BY <1>2
<1>5. Narrowed /\ (seed \in Where(E, {v}) => \A x \in constraints' : x \in Inputs /\ E[x] = v)
  BY SMT, <1>1, <1>2, <1>4, Constrained DEF fork, Where
<1>6. CASE seed \notin Where(E, {v})
  BY <1>1, <1>2, <1>5, <1>6, RoundInv
<1>7. CASE seed \in Where(E, {v}) /\ v \in LegalFunctions
  <2>1. CallTarget(v) \in {0, 1}
    BY <1>3, <1>7, ValuesClosed
  <2>2. \A x \in constraints' \cap fixed' :
              ConcreteStep(code, x, Evaluated(x)) = Goto(Evaluated(x), CallTarget(v))
    BY <1>1, <1>5, <1>7, MachineSteps
  <2> QED BY <1>1, <1>2, <1>5, <1>7, <2>1, <2>2, JumpFollows
<1>8. CASE seed \in Where(E, {v}) /\ v \notin LegalFunctions
  <2>1. \A x \in constraints' \cap fixed' :
              ConcreteStep(code, x, Evaluated(x)) = Halt(Evaluated(x), "exec")
    BY <1>1, <1>5, <1>8, MachineSteps
  <2>2. Followed
    BY <1>1, <1>2, <1>5, <1>8, <2>1, TerminatedFollows
  <2> QED BY <1>1, <2>2, FollowedInv
<1> QED BY <1>6, <1>7, <1>8

LEMMA CallExternalInv ==
    ASSUME ReplayInv, callExternalFunction
    PROVE  ReplayInv'
<1>1. Operating /\ I.op = "external" /\ running
  BY DEF callExternalFunction, Executing, Operating
<1>2. E[seed] \in Values
  BY <1>1, Operand
<1> DEFINE e == Const(ExternalResult(E[seed]))
<1>3. e \in [Inputs -> Values] /\ \A x \in Inputs : e[x] = ExternalResult(E[seed])
  BY <1>2, ValuesClosed DEF Const
<1>4. /\ Narrowed /\ constraints' \subseteq Inputs
      /\ \A x \in constraints' \cap fixed' : E[x] = E[seed]
  BY SMT, <1>1, FixedTo DEF callExternalFunction, toUnique, Narrowed, ReplayInv, ReplayTypeOK
<1>5. ASSUME NEW x \in constraints' \cap fixed'
      PROVE  ConcreteStep(code, x, Evaluated(x)) =
               Machine(pc + 1, e[x], [a \in Values |-> memory[a][x]], objects, "no")
  <2>1. x \in Inputs /\ E[x] = E[seed]
    BY <1>4
  <2>2. ConcreteStep(code, x, Evaluated(x)) = SetT(Evaluated(x), e[x])
    BY <1>1, <1>3, <2>1, MachineSteps
  <2> QED BY <1>1, <2>2, EvaluatedParts
<1> HIDE DEF e
<1>6. CASE Continue(Next1, e) /\ UNCHANGED <<memory, objects>>
  <2>1. Followed
    BY <1>1, <1>3, <1>4, <1>5, <1>6, ContinuedFollows DEF Next1
  <2> QED BY <1>1, <2>1, FollowedInv
<1>7. CASE terminateStateOnError("external")
  <2>1. Followed
    BY <1>1, <1>4, <1>7, TerminatedFollows
  <2> QED BY <1>1, <2>1, FollowedInv
<1> QED BY <1>6, <1>7 DEF callExternalFunction, toUnique, e

\* An instruction that goes on and writes to memory.
LEMMA WrittenFollows ==
    ASSUME ReplayInv, Operating, NEW e \in [Inputs -> Values],
           Continue(Next1, e), Narrowed,
           memory' \in [Values -> [Inputs -> Values]],
           Global \in objects', objects' \subseteq {Global, 1..1, 1..2},
           \A x \in constraints' \cap fixed' : ConcreteStep(code, x, Evaluated(x)) =
              Machine(pc + 1, e[x], [a \in Values |-> memory'[a][x]], objects', "no")
    PROVE  ReplayInv'
<1>1. constraints' \cap fixed' \subseteq Inputs
  BY DEF Narrowed, ReplayInv, ReplayTypeOK
<1>2. \A x \in constraints' \cap fixed' :
                        (Evaluated(x))' = ConcreteStep(code, x, Evaluated(x))
  BY <1>1, Continued DEF Next1
<1>3. Followed
  BY <1>2, Continued DEF Followed, Next1
<1> QED BY <1>3, FollowedInv

LEMMA MachineAlloc ==
    ASSUME NEW p, NEW v, NEW m, NEW o, NEW e, NEW w, o \subseteq {Global}
    PROVE  ConcreteAlloc(Machine(p, v, m, o, e), w) =
             Machine(p + 1 + 0, 1, [a \in Values |-> IF a \in 1..AllocSize(w) THEN 0 ELSE m[a]],
                     o \cup {1..AllocSize(w)}, e)
<1> DEFINE s == Machine(p, v, m, o, e)
           s1 == Machine(p + 1 + 0, 1, m, o, e)
           os == o \cup {1..AllocSize(w)}
           mm == [a \in Values |-> IF a \in 1..AllocSize(w) THEN 0 ELSE m[a]]
<1>1. s.objs = o /\ s.mem = m /\ SetT(s, 1) = s1
  BY SMT, MachineSetT DEF Machine
<1> HIDE DEF os, mm
<1>2. [s1 EXCEPT !.objs = os, !.mem = mm] = Machine(p + 1 + 0, 1, mm, os, e)
  <2>1. [s1 EXCEPT !.objs = os] = Machine(p + 1 + 0, 1, m, os, e)
    BY SMT DEF Machine
  <2>2. [Machine(p + 1 + 0, 1, m, os, e) EXCEPT !.mem = mm] = Machine(p + 1 + 0, 1, mm, os, e)
    BY SMT DEF Machine
  <2>3. [s1 EXCEPT !.objs = os, !.mem = mm] = [[s1 EXCEPT !.objs = os] EXCEPT !.mem = mm]
    OBVIOUS
  <2> QED BY <2>1, <2>2, <2>3
<1>3. ConcreteAlloc(s, w) = [s1 EXCEPT !.objs = os, !.mem = mm]
  BY <1>1 DEF ConcreteAlloc, os, mm
<1> QED BY <1>2, <1>3 DEF os, mm

LEMMA MachineAllocFull ==
    ASSUME NEW p, NEW v, NEW m, NEW o, NEW e, NEW w, ~(o \subseteq {Global})
    PROVE  ConcreteAlloc(Machine(p, v, m, o, e), w) = Machine(p + 1 + 0, 0, m, o, e)
<1>1. Machine(p, v, m, o, e).objs = o
  BY DEF Machine
<1>2. ConcreteAlloc(Machine(p, v, m, o, e), w) = SetT(Machine(p, v, m, o, e), 0)
  BY <1>1 DEF ConcreteAlloc
<1> QED BY SMT, <1>2, MachineSetT

LEMMA ExecuteAllocInv ==
    ASSUME ReplayInv, executeAlloc
    PROVE  ReplayInv'
<1>1. Operating /\ I.op = "alloc" /\ running
  BY DEF executeAlloc, Executing, Operating
<1> DEFINE n == AllocSize(E[seed])
           free == objects \subseteq {Global}
           e == Const(IF free THEN 1 ELSE 0)
<1>2. n \in {1, 2}
  BY <1>1, Operand, ValuesClosed
<1>3. 1..n \in {1..1, 1..2} /\ Base(1..n) = 1
  BY <1>2, SMT DEF Base, Global
<1>4. /\ Continue(Next1, e)
      /\ objects' = IF free THEN objects \cup {1..n} ELSE objects
      /\ memory' = IF free THEN [a \in Values |-> IF a \in 1..n THEN Const(0) ELSE memory[a]]
                   ELSE memory
  BY <1>3 DEF executeAlloc, toUnique
<1>5. e \in [Inputs -> Values] /\ \A x \in Inputs : e[x] = IF free THEN 1 ELSE 0
  BY SMT DEF Const, Values
<1>6. /\ Narrowed /\ constraints' \subseteq Inputs
      /\ \A x \in constraints' \cap fixed' : AllocSize(E[x]) = n
  <2>1. E[seed] \in {v \in Values : AllocSize(v) = n}
    BY <1>1, Operand
  <2>2. Fix(E, {v \in Values : AllocSize(v) = n}) /\ Unconstrained
    BY DEF executeAlloc, toUnique
  <2> QED BY SMT, <1>1, <2>1, <2>2, FixedTo DEF Narrowed, ReplayInv, ReplayTypeOK
<1>7. Const(0) \in [Inputs -> Values] /\ \A x \in Inputs : Const(0)[x] = 0
  BY SMT DEF Const, Values
<1>8. /\ memory' \in [Values -> [Inputs -> Values]]
      /\ Global \in objects' /\ objects' \subseteq {Global, 1..1, 1..2}
  BY <1>3, <1>4, <1>7 DEF ReplayInv, ReplayTypeOK
<1>9. ASSUME NEW x \in constraints' \cap fixed'
      PROVE  ConcreteStep(code, x, Evaluated(x)) =
               Machine(pc + 1, e[x], [a \in Values |-> memory'[a][x]], objects', "no")
  <2> DEFINE m == [a \in Values |-> memory[a][x]]
             v == locals["t"][x]
  <2>1. x \in Inputs /\ AllocSize(E[x]) = n
    BY <1>6
  <2>2. ConcreteStep(code, x, Evaluated(x)) = ConcreteAlloc(Machine(pc, v, m, objects, "no"), E[x])
    BY <1>1, <2>1, MachineSteps, EvaluatedMachine
  <2>3. pc + 1 + 0 = pc + 1
    BY SMTT(60) DEF ReplayInv, ReplayTypeOK
  <2>4. CASE free
    <3>1. [a \in Values |-> IF a \in 1..n THEN 0 ELSE m[a]] = [a \in Values |-> memory'[a][x]]
      BY <1>4, <1>7, <2>1, <2>4
    <3> QED BY SMT, <1>4, <1>5, <2>1, <2>2, <2>3, <2>4, <3>1, MachineAlloc
  <2>5. CASE ~free
    <3>1. memory' = memory /\ objects' = objects
      BY <1>4, <2>5
    <3>2. [a \in Values |-> memory'[a][x]] = m
      BY <3>1
    <3> HIDE DEF m, v
    <3>3. ConcreteAlloc(Machine(pc, v, m, objects, "no"), E[x]) =
            Machine(pc + 1 + 0, 0, m, objects, "no")
      BY SMT, <2>5, MachineAllocFull
    <3> QED BY <1>5, <2>1, <2>2, <2>3, <2>5, <3>1, <3>2, <3>3
  <2> QED BY <2>4, <2>5
<1> HIDE DEF e
<1> QED BY <1>1, <1>4, <1>5, <1>6, <1>8, <1>9, WrittenFollows

LEMMA ExecuteFreeInv ==
    ASSUME ReplayInv, executeFree
    PROVE  ReplayInv'
<1>1. Operating /\ I.op = "free" /\ running
  BY DEF executeFree, Executing, Operating
<1> DEFINE q == E[seed]
           found == \E o \in objects : Base(o) = q
<1>2. q \in Values /\ seed \in Inputs
  BY <1>1, Operand
<1>3. /\ Global \in objects /\ Base(Global) = 3
      /\ \A o \in objects : o # Global => Base(o) = 1
  BY SMT DEF Base, Global, ReplayInv, ReplayTypeOK
<1>4. UNCHANGED fixed
  BY DEF executeFree
<1>5. CASE q = 0
  <2>1. seed \in Where(E, {0})
    BY <1>2, <1>5 DEF Where
  <2>2. Narrowed /\ constraints' = constraints \cap Where(E, {0})
    BY <1>1, <1>4, <1>5, <2>1, Constrained DEF executeFree, fork
  <2>3. \A x \in constraints' \cap fixed' :
              ConcreteStep(code, x, Evaluated(x)) = Goto(Evaluated(x), 0)
    <3>1. \A x \in constraints' : x \in Inputs /\ E[x] = 0
      BY <2>2 DEF Where
    <3>2. \A s : ConcreteFree(s, 0) = Goto(s, 0)
      BY SMT, <1>3 DEF ConcreteFree
    <3> QED BY <1>1, <3>1, <3>2, MachineSteps
  <2>4. Next1 + 0 = Next1
    BY SMT DEF Next1, ReplayInv, ReplayTypeOK
  <2> QED BY <1>1, <1>5, <2>2, <2>3, <2>4, JumpFollows DEF executeFree
<1>6. CASE q # 0 /\ found
  <2>1. Narrowed /\ \A x \in constraints' : x \in Inputs /\ E[x] = q
    BY SMT, <1>1, <1>4, <1>6, Constrained DEF executeFree, Where
  <2>2. CASE q = 3
    <3>1. ~ \E o \in objects \ {Global} : Base(o) = q
      BY SMT, <1>3, <2>2
    <3>2. terminateStateOnError("free")
      BY <1>3, <1>6, <2>2, <3>1 DEF executeFree
    <3>3. \A x \in constraints' \cap fixed' :
              ConcreteStep(code, x, Evaluated(x)) = Halt(Evaluated(x), "free")
      BY SMT, <1>1, <1>3, <2>1, <2>2, MachineSteps DEF ConcreteFree
    <3>4. Followed
      BY <1>1, <2>1, <3>2, <3>3, TerminatedFollows
    <3> QED BY <1>1, <3>4, FollowedInv
  <2>3. CASE q # 3
    <3>1. q = 1 /\ \E o \in objects \ {Global} : Base(o) = q
      BY <1>3, <1>6, <2>3
    <3>2. /\ Continue(Next1, locals["t"])
          /\ objects' = {o \in objects : Base(o) # q} /\ memory' = memory
      BY <1>6, <3>1 DEF executeFree
    <3>3. objects' = {Global}
      BY SMT, <1>3, <3>1, <3>2
    <3>4. /\ memory' \in [Values -> [Inputs -> Values]]
          /\ Global \in objects' /\ objects' \subseteq {Global, 1..1, 1..2}
          /\ locals["t"] \in [Inputs -> Values]
      BY <3>2, <3>3 DEF ReplayInv, ReplayTypeOK
    <3>5. ASSUME NEW x \in constraints' \cap fixed'
          PROVE  ConcreteStep(code, x, Evaluated(x)) =
                   Machine(pc + 1, locals["t"][x], [a \in Values |-> memory'[a][x]], objects', "no")
      <4>1. ConcreteStep(code, x, Evaluated(x)) = [Goto(Evaluated(x), 0) EXCEPT !.objs = {Global}]
        <5>1. \E o \in Evaluated(x).objs : Base(o) = E[x]
          BY <1>1, <1>6, <2>1, EvaluatedParts
        <5>2. E[x] # 0 /\ E[x] # Base(Global) /\ x \in Inputs
          BY <1>3, <1>6, <2>1, <2>3
        <5> QED BY <1>1, <5>1, <5>2, MachineSteps DEF ConcreteFree
      <4>2. pc + 1 + 0 = pc + 1
        BY SMT DEF ReplayInv, ReplayTypeOK
      <4>3. Goto(Evaluated(x), 0) =
              Machine(pc + 1, locals["t"][x], [a \in Values |-> memory[a][x]], objects, "no")
        BY SMT, <1>1, <4>2, EvaluatedParts
      <4> DEFINE v == locals["t"][x]
                 m == [a \in Values |-> memory[a][x]]
      <4> HIDE DEF v, m
      <4>4. [Machine(pc + 1, v, m, objects, "no") EXCEPT !.objs = {Global}] =
               Machine(pc + 1, v, m, {Global}, "no")
        BY SMT DEF Machine
      <4> QED BY <3>2, <3>3, <4>1, <4>3, <4>4 DEF v, m
    <3> QED BY <1>1, <2>1, <3>2, <3>4, <3>5, WrittenFollows
  <2> QED BY <2>2, <2>3
<1>7. CASE q # 0 /\ ~found
  <2>1. Narrowed /\ constraints' = constraints \cap
                      (Inputs \ Where(E, {0} \cup {Base(o) : o \in objects}))
    BY <1>1, <1>4, <1>7, Constrained DEF executeFree
  <2>2. \A x \in constraints' : x \in Inputs /\ E[x] # 0 /\ \A o \in objects : Base(o) # E[x]
    BY <2>1 DEF Where
  <2>3. terminateStateOnError("ptr")
    BY <1>3, <1>7 DEF executeFree
  <2>4. ASSUME NEW x \in constraints' \cap fixed'
        PROVE  ConcreteStep(code, x, Evaluated(x)) = Halt(Evaluated(x), "ptr")
    <3>1. ~ \E o \in Evaluated(x).objs : Base(o) = E[x]
      BY <1>1, <2>2, EvaluatedParts
    <3>2. E[x] # 0 /\ E[x] # Base(Global) /\ x \in Inputs
      BY <1>3, <2>2
    <3> QED BY <1>1, <3>1, <3>2, MachineSteps DEF ConcreteFree
  <2>5. Followed
    BY <1>1, <2>1, <2>3, <2>4, TerminatedFollows
  <2> QED BY <1>1, <2>5, FollowedInv
<1> QED BY <1>5, <1>6, <1>7

\* The bounds of the objects.
LEMMA ObjectBounds ==
    ASSUME ReplayInv
    PROVE  \A o \in objects : o \subseteq Values /\ (3 \in o <=> o = Global)
<1>1. \A o \in {Global, 1..1, 1..2} : o \subseteq Values /\ (3 \in o <=> o = Global)
  BY SMT DEF Global, Values
<1> QED BY <1>1 DEF ReplayInv, ReplayTypeOK

\* An access in the bounds o, in which the address is for all inputs that are left.
LEMMA ReadFollows ==
    ASSUME ReplayInv, Operating, I.op = "load", NEW o \in SUBSET (UNION objects), Access(o, FALSE),
           Narrowed, \A x \in constraints' \cap fixed' : E[x] \in o
    PROVE  ReplayInv'
<1> DEFINE e == [x \in Inputs |-> IF E[x] \in o THEN memory[E[x]][x] ELSE 0]
<1>1. Continue(Next1, e) /\ UNCHANGED <<memory, objects>>
  BY DEF Access
<1>2. e \in [Inputs -> Values]
  <2>1. 0 \in Values
    BY SMT DEF Values
  <2>2. memory \in [Values -> [Inputs -> Values]] /\ E \in [Inputs -> Values]
    BY Operand DEF ReplayInv, ReplayTypeOK
  <2>3. \A x \in Inputs : memory[E[x]][x] \in Values
    BY <2>2
  <2> QED BY <2>1, <2>3
<1>3. constraints' \cap fixed' \subseteq Inputs /\ running
  BY DEF Narrowed, ReplayInv, ReplayTypeOK, Operating
<1>4. ASSUME NEW x \in constraints' \cap fixed'
      PROVE  ConcreteStep(code, x, Evaluated(x)) =
               Machine(pc + 1, e[x], [a \in Values |-> memory[a][x]], objects, "no")
  <2>1. x \in Inputs /\ E[x] \in UNION objects /\ E[x] \in Values /\ e[x] = memory[E[x]][x]
    BY <1>3, Operand
  <2>2. ConcreteStep(code, x, Evaluated(x)) = ConcreteAccess(Evaluated(x), E[x], FALSE, x["right"])
    BY <2>1, MachineSteps
  <2>3. Evaluated(x).objs = objects /\ Evaluated(x).mem[E[x]] = e[x]
    <3>1. Evaluated(x).objs = objects /\ Evaluated(x).mem = [a \in Values |-> memory[a][x]]
      BY <1>3, EvaluatedParts
    <3> QED BY <2>1, <3>1
  <2>4. ConcreteStep(code, x, Evaluated(x)) = SetT(Evaluated(x), e[x])
    BY <2>1, <2>2, <2>3 DEF ConcreteAccess
  <2> QED BY <1>3, <2>4, EvaluatedParts
<1> HIDE DEF e
<1>5. Followed
  BY <1>1, <1>2, <1>4, ContinuedFollows DEF Next1
<1> QED BY <1>5, FollowedInv

LEMMA WriteFollows ==
    ASSUME ReplayInv, Operating, I.op = "store", NEW o \in SUBSET (UNION objects), Access(o, TRUE),
           Narrowed, \A x \in constraints' \cap fixed' : E[x] \in o, 3 \notin o
    PROVE  ReplayInv'
<1>1. /\ Continue(Next1, locals["t"]) /\ UNCHANGED objects
      /\ memory' = [a \in Values |->
                       IF a \in o
                       THEN [x \in Inputs |-> IF E[x] = a THEN locals["right"][x] ELSE memory[a][x]]
                       ELSE memory[a]]
  BY DEF Access
<1>2. constraints' \cap fixed' \subseteq Inputs /\ running
  BY DEF Narrowed, ReplayInv, ReplayTypeOK, Operating
<1>3. /\ memory \in [Values -> [Inputs -> Values]] /\ locals["right"] \in [Inputs -> Values]
      /\ locals["t"] \in [Inputs -> Values]
  BY ReplayAssumption DEF ReplayInv, ReplayTypeOK
<1>4. memory' \in [Values -> [Inputs -> Values]]
  BY <1>1, <1>3
<1>5. ASSUME NEW x \in constraints' \cap fixed'
      PROVE  ConcreteStep(code, x, Evaluated(x)) =
               Machine(pc + 1, locals["t"][x], [a \in Values |-> memory'[a][x]], objects, "no")
  <2> DEFINE v == locals["t"][x]
             m == [a \in Values |-> memory[a][x]]
             w == x["right"]
  <2>1. /\ x \in Inputs /\ E[x] \in UNION objects /\ E[x] \in Values /\ E[x] \notin Global
        /\ locals["right"][x] = w
    BY <1>2, Operand DEF Global
  <2>2. m \in [Values -> Values]
    BY ZenonT(60), <1>3, <2>1
  <2>3. [a \in Values |-> memory'[a][x]] = [m EXCEPT ![E[x]] = w]
    BY <1>1, <2>1
  <2>4. ConcreteStep(code, x, Evaluated(x)) = ConcreteAccess(Evaluated(x), E[x], TRUE, w)
    BY <2>1, MachineSteps
  <2>5. ConcreteStep(code, x, Evaluated(x)) = [Goto(Evaluated(x), 0) EXCEPT !.mem[E[x]] = w]
    BY <1>2, <2>1, <2>4, EvaluatedParts DEF ConcreteAccess
  <2>6. Goto(Evaluated(x), 0) = Machine(pc + 1, v, m, objects, "no")
    <3>1. pc + 1 + 0 = pc + 1
      BY SMT DEF ReplayInv, ReplayTypeOK
    <3> QED BY SMT, <1>2, <3>1, EvaluatedParts
  <2> HIDE DEF v, m, w
  <2>7. ConcreteStep(code, x, Evaluated(x)) =
          Machine(pc + 1, v, [m EXCEPT ![E[x]] = w], objects, "no")
    <3>1. [Machine(pc + 1, v, m, objects, "no") EXCEPT !.mem[E[x]] = w] =
            Machine(pc + 1, v, [m EXCEPT ![E[x]] = w], objects, "no")
      <4> DEFINE mm == [m EXCEPT ![E[x]] = w]
      <4>1. Machine(pc + 1, v, m, objects, "no").mem = m
        BY DEF Machine
      <4>2. [Machine(pc + 1, v, m, objects, "no") EXCEPT !.mem[E[x]] = w] =
              [Machine(pc + 1, v, m, objects, "no") EXCEPT !.mem = mm]
        BY <4>1
      <4> HIDE DEF mm
      <4>3. [Machine(pc + 1, v, m, objects, "no") EXCEPT !.mem = mm] =
              Machine(pc + 1, v, mm, objects, "no")
        BY SMT DEF Machine
      <4> QED BY <4>2, <4>3 DEF mm
    <3> QED BY <2>5, <2>6, <3>1, Zenon
  <2> QED BY <2>3, <2>7 DEF v
<1>6. Global \in objects' /\ objects' \subseteq {Global, 1..1, 1..2} /\ objects' = objects
  BY <1>1 DEF ReplayInv, ReplayTypeOK
<1> QED BY <1>1, <1>3, <1>4, <1>5, <1>6, WrittenFollows

\* An access that the machine refuses.
LEMMA RefusedFollows ==
    ASSUME ReplayInv, Operating, NEW isWrite \in BOOLEAN, NEW kind, Narrowed,
           terminateStateOnError(kind),
           I.op = IF isWrite THEN "store" ELSE "load",
           \/ kind = "ptr" /\ \A x \in constraints' \cap fixed' : E[x] \notin UNION objects
           \/ /\ kind = "readonly" /\ isWrite
              /\ \A x \in constraints' \cap fixed' : E[x] \in Global
    PROVE  ReplayInv'
<1>1. constraints' \cap fixed' \subseteq Inputs /\ running /\ Global \in objects
  BY DEF Narrowed, ReplayInv, ReplayTypeOK, Operating
<1>2. ASSUME NEW x \in constraints' \cap fixed'
      PROVE  ConcreteStep(code, x, Evaluated(x)) = Halt(Evaluated(x), kind)
  <2>1. x \in Inputs /\ Evaluated(x).objs = objects
    BY <1>1, EvaluatedParts
  <2>2. CASE isWrite
    <3>1. ConcreteStep(code, x, Evaluated(x)) = ConcreteAccess(Evaluated(x), E[x], TRUE, x["right"])
      BY <2>1, <2>2, MachineSteps
    <3> QED BY <1>1, <2>1, <3>1 DEF ConcreteAccess
  <2>3. CASE ~isWrite
    <3>1. ConcreteStep(code, x, Evaluated(x)) = ConcreteAccess(Evaluated(x), E[x], FALSE, x["right"])
      BY <2>1, <2>3, MachineSteps
    <3> QED BY <2>1, <2>3, <3>1 DEF ConcreteAccess
  <2> QED BY <2>2, <2>3
<1>3. Followed
  BY <1>2, TerminatedFollows
<1> QED BY <1>3, FollowedInv

LEMMA MemoryOperationInv ==
    ASSUME ReplayInv, NEW isWrite \in BOOLEAN, executeMemoryOperation(isWrite)
    PROVE  ReplayInv'
<1> DEFINE possible == {o \in objects : \E x \in constraints : E[x] \in o}
           hit == {o \in objects : E[seed] \in o}
           readOnly == isWrite /\ Global \in hit
<1>1. I.op = (IF isWrite THEN "store" ELSE "load") /\ running
  BY DEF executeMemoryOperation, Executing
<1>2. Operating
  BY <1>1 DEF Operating
<1>3. \A o \in hit : o \in objects /\ E[seed] \in o /\ (3 \in o <=> o = Global)
  BY ObjectBounds
<1>4. readOnly => \A o \in hit : o = Global
  <2> SUFFICES ASSUME readOnly, NEW o \in hit
               PROVE  o = Global
    OBVIOUS
  <2>1. E[seed] = 3
    BY DEF Global
  <2> QED BY <1>3, <2>1
<1>5. isWrite /\ ~readOnly => \A o \in hit : 3 \notin o
  BY <1>3
<1>6. ASSUME NEW o \in possible \cap hit, Unconstrained, Fix(E, o),
             IF readOnly THEN terminateStateOnError("readonly") ELSE Access(o, isWrite)
      PROVE  ReplayInv'
  <2>1. Narrowed /\ \A x \in constraints' \cap fixed' : E[x] \in o
    BY <1>2, <1>3, <1>6, FixedTo
  <2>2. CASE readOnly
    BY <1>1, <1>2, <1>4, <1>6, <2>1, <2>2, RefusedFollows
  <2>3. CASE ~readOnly /\ isWrite
    <3>1. I.op = "store" /\ Access(o, TRUE) /\ 3 \notin o /\ o \in SUBSET (UNION objects)
      BY <1>1, <1>5, <1>6, <2>3
    <3> QED BY <1>2, <2>1, <3>1, WriteFollows
  <2>4. CASE ~isWrite
    <3>1. I.op = "load" /\ Access(o, FALSE) /\ o \in SUBSET (UNION objects)
      BY <1>1, <1>6, <2>4
    <3> QED BY <1>2, <2>1, <3>1, ReadFollows
  <2> QED BY <2>2, <2>3, <2>4
<1>7. ASSUME addConstraint(IF hit = {} THEN Inputs \ Where(E, UNION objects)
                           ELSE Where(E, UNION hit)),
             IF hit = {} THEN terminateStateOnError("ptr")
             ELSE IF readOnly THEN terminateStateOnError("readonly")
             ELSE Access(UNION hit, isWrite),
             UNCHANGED fixed
      PROVE  ReplayInv'
  <2>1. Narrowed /\ constraints' = constraints \cap
                     (IF hit = {} THEN Inputs \ Where(E, UNION objects) ELSE Where(E, UNION hit))
    BY <1>2, <1>7, Constrained
  <2>2. CASE hit = {}
    <3>1. \A x \in constraints' \cap fixed' : E[x] \notin UNION objects
      BY <2>1, <2>2 DEF Where
    <3> QED BY <1>1, <1>2, <1>7, <2>1, <2>2, <3>1, RefusedFollows
  <2>3. CASE hit # {}
    <3>1. \A x \in constraints' \cap fixed' : E[x] \in UNION hit
      BY <2>1, <2>3 DEF Where
    <3>2. UNION hit \in SUBSET (UNION objects)
      OBVIOUS
    <3>3. CASE readOnly
      <4>1. \A x \in constraints' \cap fixed' : E[x] \in Global
        BY SMT, <1>4, <3>1, <3>3
      <4> QED BY <1>1, <1>2, <1>7, <2>1, <2>3, <3>3, <4>1, RefusedFollows
    <3>4. CASE ~readOnly /\ isWrite
      <4>1. I.op = "store" /\ Access(UNION hit, TRUE) /\ 3 \notin UNION hit
        BY <1>1, <1>5, <1>7, <2>3, <3>4
      <4> HIDE DEF hit
      <4> QED BY <1>2, <2>1, <3>1, <3>2, <4>1, WriteFollows
    <3>5. CASE ~isWrite
      <4>1. I.op = "load" /\ Access(UNION hit, FALSE)
        BY <1>1, <1>7, <2>3, <3>5
      <4> HIDE DEF hit
      <4> QED BY <1>2, <2>1, <3>1, <3>2, <4>1, ReadFollows
    <3> QED BY <3>3, <3>4, <3>5
  <2> QED BY <2>2, <2>3
<1> QED BY <1>6, <1>7 DEF executeMemoryOperation

\* An end that adds no constraint, before or after all objects are symbolic.
LEMMA EndedInv ==
    ASSUME ReplayInv, running, NEW kind, terminateStateOnError(kind), Unconstrained,
           UNCHANGED fixed,
           kind # "user" => \A x \in Inputs :
              ConcreteStep(code, x, Evaluated(x)) = Halt(Evaluated(x), kind)
    PROVE  ReplayInv'
<1>1. /\ UNCHANGED <<code, ktest, pc, locals, memory, objects, bound, constraints, seed, patched, fixed>>
      /\ steps' = steps + 1 /\ running' = FALSE /\ Len(tests') = 1 /\ tests'[1].kind = kind
  BY Terminated DEF state, Unconstrained
<1>2. ReplayTypeOK'
  <2>1. /\ code' \in Codes /\ ktest' \in KTests /\ pc' \in 1..Len(code') /\ steps' \in Nat
        /\ locals' \in [Names \cup {"t"} -> [Inputs -> Values]]
        /\ memory' \in [Values -> [Inputs -> Values]]
        /\ Global \in objects' /\ objects' \subseteq {Global, 1..1, 1..2}
        /\ constraints' \subseteq Inputs /\ fixed' \subseteq Inputs
        /\ bound' \subseteq Names /\ DOMAIN seed' = Names /\ patched' \in BOOLEAN
    BY SMT, <1>1 DEF ReplayInv, ReplayTypeOK
  <2>2. running' \in BOOLEAN /\ IF running' THEN tests' = <<>> ELSE Len(tests') = 1
    BY <1>1
  <2> QED BY <2>1, <2>2 DEF ReplayTypeOK
<1>3. ObjectsBound' /\ SeedSatisfies'
  BY <1>1 DEF ReplayInv, ObjectsBound, OnlySymbolic, SeedSatisfies
<1>4. SolutionsFollow'
  <2> SUFFICES ASSUME ~Aborted', NEW x \in constraints' \cap fixed'
               PROVE  (Evaluated(x))' = Concrete(code', x, steps')
    BY DEF SolutionsFollow
  <2>1. kind # "user" /\ x \in constraints \cap fixed /\ x \in Inputs /\ steps \in Nat
    BY <1>1 DEF Aborted, ReplayInv, ReplayTypeOK
  <2>2. Evaluated(x) = Concrete(code, x, steps)
    BY <2>1 DEF ReplayInv, SolutionsFollow, Aborted
  <2>3. (Evaluated(x))' = Halt(Evaluated(x), kind)
    <3>1. (Evaluated(x))' =
            Machine(pc, locals["t"][x], [a \in Values |-> memory[a][x]], objects, kind)
      BY <2>1, Terminated
    <3>2. Evaluated(x) =
            Machine(pc, locals["t"][x], [a \in Values |-> memory[a][x]], objects, "no")
      BY EvaluatedMachine
    <3> QED BY SMT, <3>1, <3>2, MachineHalt
  <2> QED BY <1>1, <2>1, <2>2, <2>3, ConcreteSteps
<1> QED BY <1>2, <1>3, <1>4 DEF ReplayInv

\* What the machine does at the instructions that do not operate.
LEMMA MachineOthers ==
    ASSUME ReplayInv, NEW x
    PROVE  /\ I.op = "symbolic" => ConcreteStep(code, x, Evaluated(x)) = Goto(Evaluated(x), 0)
           /\ I.op = "ret" => ConcreteStep(code, x, Evaluated(x)) = Halt(Evaluated(x), "exit")
           /\ I.op = "unreachable" =>
                ConcreteStep(code, x, Evaluated(x)) = Halt(Evaluated(x), "exec")
<1>1. code[Evaluated(x).pc].op = I.op
  BY DEF Evaluated, I
<1>2. I.op = "symbolic" => ConcreteStep(code, x, Evaluated(x)) = Goto(Evaluated(x), 0)
  BY <1>1, SMTT(60) DEF ConcreteStep
<1>3. I.op = "ret" => ConcreteStep(code, x, Evaluated(x)) = Halt(Evaluated(x), "exit")
  BY <1>1, SMTT(60) DEF ConcreteStep
<1>4. I.op = "unreachable" => ConcreteStep(code, x, Evaluated(x)) = Halt(Evaluated(x), "exec")
  BY <1>1, SMTT(60) DEF ConcreteStep
<1> QED BY <1>2, <1>3, <1>4

LEMMA RetInv ==
    ASSUME ReplayInv, Ret
    PROVE  ReplayInv'
<1>1. running /\ I.op = "ret" /\ Unconstrained /\ UNCHANGED fixed
  BY DEF Ret, Executing
<1>2. terminateStateOnError("exit")
  BY DEF Ret, terminateStateOnExit, terminateStateOnError
<1> QED BY <1>1, <1>2, EndedInv, MachineOthers

LEMMA UnreachableInv ==
    ASSUME ReplayInv, Unreachable
    PROVE  ReplayInv'
<1>1. /\ running /\ I.op = "unreachable" /\ Unconstrained /\ UNCHANGED fixed
      /\ terminateStateOnError("exec")
  BY DEF Unreachable, Executing
<1> QED BY <1>1, EndedInv, MachineOthers

\* An object that the seed has a value for becomes symbolic.
LEMMA BoundInv ==
    ASSUME ReplayInv, running, I.op = "symbolic", NEW n \in Names, I.src = n, n \notin bound,
           ktest[n] \notin {Missing, WrongSize},
           seed' = [seed EXCEPT ![n] = ktest[n]],
           locals' = [locals EXCEPT ![n] = [x \in Inputs |-> x[n]]],
           bound' = bound \cup {n}, pc' = Next1, steps' = steps + 1,
           UNCHANGED <<code, ktest, memory, objects, constraints, tests, running, fixed, patched>>
    PROVE  ReplayInv'
<1>1. /\ OnlySymbolic /\ Wrapper(code) /\ pc \in 1..Len(code) /\ DOMAIN ktest = Names
      /\ DOMAIN seed = Names /\ "t" \notin Names /\ Inputs \subseteq [Names -> Values]
      /\ locals \in [Names \cup {"t"} -> [Inputs -> Values]]
  BY ZenonT(60), ReplayAssumption DEF ReplayInv, ReplayTypeOK, ObjectsBound
<1>2. pc' \in 1..Len(code) /\ pc' = pc + 1 /\ steps' \in Nat
  BY <1>1, SMT DEF Wrapper, I, Next1, ReplayInv, ReplayTypeOK
<1>3. /\ locals' \in [Names \cup {"t"} -> [Inputs -> Values]] /\ locals'["t"] = locals["t"]
      /\ \A m \in bound' : locals'[m] = [x \in Inputs |-> x[m]] /\ ktest[m] \notin {Missing, WrongSize}
  <2>1. [x \in Inputs |-> x[n]] \in [Inputs -> Values]
    BY <1>1
  <2>2. locals' \in [Names \cup {"t"} -> [Inputs -> Values]] /\ locals'["t"] = locals["t"]
    BY <1>1, <2>1
  <2>3. ASSUME NEW m \in bound'
        PROVE  locals'[m] = [x \in Inputs |-> x[m]] /\ ktest[m] \notin {Missing, WrongSize}
    BY <1>1 DEF ReplayInv, ReplayTypeOK, ObjectsBound
  <2> QED BY <2>2, <2>3
<1>4. /\ DOMAIN seed' = Names /\ bound' \subseteq Names
      /\ \A m \in bound' : seed'[m] = ktest[m]
  BY <1>1 DEF OnlySymbolic, ReplayInv, ReplayTypeOK
<1>5. ReplayTypeOK'
  BY <1>2, <1>3, <1>4 DEF ReplayInv, ReplayTypeOK
<1>6. OnlySymbolic'
  <2>1. \A j \in 1..pc' - 1 : code[j].op = "symbolic" /\ code[j].src \in bound'
    BY SMT, <1>1, <1>2 DEF OnlySymbolic, I
  <2> QED BY <1>1, <1>4, <2>1 DEF OnlySymbolic
<1>7. ObjectsBound'
  BY <1>3, <1>6 DEF ObjectsBound
<1>8. SeedSatisfies'
  <2> SUFFICES ASSUME bound' = Names
               PROVE  seed' = ktest /\ ktest \in Inputs
    BY <1>1, <1>6 DEF SeedSatisfies, OnlySymbolic
  <2>1. ktest \in Inputs
    BY <1>3, ReplayAssumption DEF ReplayInv, ReplayTypeOK
  <2>2. seed' = [m \in Names |-> ktest[m]]
    BY <1>1, <1>4
  <2> QED BY ZenonT(60), <1>1, <2>1, <2>2
<1>9. SolutionsFollow'
  <2> SUFFICES ASSUME NEW x \in constraints' \cap fixed'
               PROVE  (Evaluated(x))' = Concrete(code', x, steps')
    BY DEF SolutionsFollow
  <2>1. /\ x \in constraints \cap fixed /\ steps \in Nat /\ pc + 1 + 0 = pc + 1
    BY SMT, <1>1 DEF ReplayInv, ReplayTypeOK
  <2>2. Evaluated(x) = Concrete(code, x, steps)
    BY ZenonT(60), <2>1 DEF ReplayInv, SolutionsFollow, Aborted
  <2>3. ConcreteStep(code, x, Evaluated(x)) =
          Machine(pc + 1, locals["t"][x], [a \in Values |-> memory[a][x]], objects, "no")
    BY SMT, <2>1, MachineOthers, EvaluatedParts
  <2>4. (Evaluated(x))' =
          Machine(pc + 1, locals["t"][x], [a \in Values |-> memory[a][x]], objects, "no")
    BY <1>2, <1>3 DEF Evaluated, Machine
  <2> QED BY <2>1, <2>2, <2>3, <2>4, ConcreteSteps
<1> QED BY <1>5, <1>7, <1>8, <1>9 DEF ReplayInv

LEMMA MakeSymbolicInv ==
    ASSUME ReplayInv, executeMakeSymbolic
    PROVE  ReplayInv'
<1> DEFINE n == I.src
           obj == IF n \in bound THEN Missing ELSE ktest[n]
<1>1. running /\ I.op = "symbolic" /\ n \in Names
  BY ReplayAssumption
     DEF executeMakeSymbolic, Executing, Wrapper, I, ReplayInv, ReplayTypeOK
<1>2. CASE obj \in {Missing, WrongSize}
  BY <1>1, <1>2, EndedInv DEF executeMakeSymbolic
<1>3. CASE obj \notin {Missing, WrongSize}
  BY <1>1, <1>3, BoundInv DEF executeMakeSymbolic
<1> QED BY <1>2, <1>3

-----------------------------------------------------------------------------
LEMMA ReplayStarts == Init => ReplayInv
<1> SUFFICES ASSUME Init
             PROVE  ReplayInv
  OBVIOUS
<1>1. /\ Wrapper(code) /\ DOMAIN ktest = Names /\ "right" \in Names
      /\ Inputs \subseteq [Names -> Values]
  BY ReplayAssumption DEF Init
<1>2. \A v \in Values : Const(v) \in [Inputs -> Values]
  BY DEF Const
<1>3. ReplayTypeOK
  <2>1. 0 \in Values /\ Len(code) \in Nat \ {0}
    BY SMT, <1>1 DEF Values, Wrapper
  <2>2. pc \in 1..Len(code) /\ steps \in Nat
    BY <2>1, SMT DEF Init
  <2>3. /\ locals \in [Names \cup {"t"} -> [Inputs -> Values]]
        /\ memory \in [Values -> [Inputs -> Values]]
    BY <1>1, <1>2, <2>1 DEF Init
  <2> QED BY <1>1, <2>2, <2>3 DEF ReplayTypeOK, Init
<1>4. ObjectsBound /\ SeedSatisfies
  BY SMT, <1>1 DEF ObjectsBound, OnlySymbolic, SeedSatisfies, Init
<1>5. ASSUME NEW x \in Inputs
      PROVE  Evaluated(x) = Concrete(code, x, steps)
  <2>1. Evaluated(x) = MachineStart
    <3>1. locals["t"][x] = 0 /\ [a \in Values |-> memory[a][x]] = [a \in Values |-> a]
      BY DEF Init, Const
    <3> QED BY <3>1 DEF Evaluated, MachineStart, Init
  <2> QED BY <2>1, ConcreteStarts DEF Init
<1>6. SolutionsFollow
  BY <1>5 DEF SolutionsFollow, Init
<1> QED BY <1>3, <1>4, <1>6 DEF ReplayInv

LEMMA ReplaySteps == ReplayInv /\ [Next]_vars => ReplayInv'
<1> SUFFICES ASSUME ReplayInv, [Next]_vars
             PROVE  ReplayInv'
  OBVIOUS
<1>1. CASE UNCHANGED vars
  BY ZenonT(60), <1>1 DEF vars, state, history, ReplayInv, ReplayTypeOK, ObjectsBound, OnlySymbolic,
              SeedSatisfies, SolutionsFollow, Evaluated, Aborted
<1>2. CASE Next
  BY <1>2, MakeSymbolicInv, ArithmeticInv, FloatingPointInv, BrInv, SwitchInv, IndirectBrInv,
     CallInv, CallExternalInv, ExecuteGetValueInv, ExecuteAllocInv, ExecuteFreeInv,
     MemoryOperationInv, RetInv, UnreachableInv DEF Next, executeInstruction
<1> QED BY <1>1, <1>2

\* The inductive invariant of the replay of a seed.
THEOREM ReplayInvariant == Spec => []ReplayInv
BY ReplayStarts, ReplaySteps, PTL DEF Spec

\* The control flow is reproduced: in every program, for every seed, an input that satisfies
\* the constraints that were collected, and agrees with the seed where a value was used
\* without one, takes the executor's path and computes what its expressions say.
THEOREM SolutionsTakeThePath == Spec => []SolutionsFollow
BY ReplayInvariant, PTL DEF ReplayInv

\* The seed satisfies the constraints of its own path, whatever was patched, and is the
\* record as long as nothing was.
THEOREM SeedIsASolution == Spec => []SeedSatisfies
BY ReplayInvariant, PTL DEF ReplayInv
=============================================================================
