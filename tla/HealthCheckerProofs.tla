-------------------------- MODULE HealthCheckerProofs --------------------------
(***************************************************************************)
(* Proofs about HealthChecker, for any number of machines and goroutines:  *)
(* type correctness, that HealthCheck covers what it found, and that what  *)
(* a loop that has ended or a call that waits has started comes to an end. *)
(***************************************************************************)
EXTENDS HealthChecker, TLAPS

\* The branch of a machine that is present is something a goroutine does.
LEMMA BranchTodo ==
    ASSUME TypeOK, NEW m \in Present
    PROVE  Branch[machine[m]] \in Todo
BY DEF TypeOK, Present, Branch, States, Todo

\* The kind of goroutine a kind becomes.
LEMMA KindMoves ==
    ASSUME NEW k \in Kinds, NEW todo \in Todo
    PROVE  LET j == [k EXCEPT !.todo = todo]
           IN  j \in Kinds /\ j.by = k.by /\ j.machine = k.machine /\ j.todo = todo
BY DEF Kinds

\* A new goroutine of the loop or of a call only adds to the counts.
LEMMA SpawnAdds ==
    ASSUME TypeOK, NEW by \in {"loop", "caller"}, NEW found \in SUBSET Present,
           Spawn(by, found)
    PROVE  /\ checks' \in [Kinds -> Nat]
           /\ \A k \in Kinds : checks'[k] >= checks[k]
           /\ \A k \in Kinds : k.by # by => checks'[k] = checks[k]
           /\ \A m \in found : \E k \in Kinds :
                 k.by = by /\ k.machine = m /\ checks'[k] > 0
<1>1. checks' \in [Kinds -> Nat] /\ \A k \in Kinds : checks'[k] >= checks[k]
  BY DEF Spawn, TypeOK
<1>2. \A k \in Kinds : k.by # by => checks'[k] = checks[k]
  BY DEF Spawn
<1>3. ASSUME NEW m \in found
      PROVE  \E k \in Kinds : k.by = by /\ k.machine = m /\ checks'[k] > 0
  <2> DEFINE k == [machine |-> m, by |-> by, todo |-> Branch[machine[m]]]
  <2>1. k \in Kinds /\ k.by = by /\ k.machine = m /\ k.todo = Branch[machine[m]]
    BY BranchTodo DEF Kinds, Present
  <2>2. checks'[k] = checks[k] + 1 /\ checks[k] \in Nat
    BY <2>1 DEF Spawn, TypeOK
  <2> QED
    BY <2>1, <2>2
<1> QED
  BY <1>1, <1>2, <1>3

\* A goroutine that goes on keeps its machine and its starter, so every
\* machine that had one of a starter still has.
LEMMA ProceedKeeps ==
    ASSUME TypeOK, NEW k \in Kinds, NEW todo \in Todo, k.todo # todo,
           checks[k] > 0, Proceed(k, todo)
    PROVE  /\ checks' \in [Kinds -> Nat]
           /\ k.by = "loop" => \A i \in Kinds : i.by = "caller" => checks'[i] = checks[i]
           /\ \A i \in Kinds : checks[i] > 0 => \E j \in Kinds :
                 j.by = i.by /\ j.machine = i.machine /\ checks'[j] > 0
<1> DEFINE j == [k EXCEPT !.todo = todo]
<1>1. j \in Kinds /\ j.by = k.by /\ j.machine = k.machine /\ j.todo = todo /\ j # k
  BY KindMoves
<1>2. checks' = [checks EXCEPT ![k] = @ - 1, ![j] = @ + 1]
  BY DEF Proceed
<1>3. checks[k] \in Nat /\ checks[j] \in Nat
  BY <1>1 DEF TypeOK
<1>4. /\ checks'[k] = checks[k] - 1 /\ checks'[j] = checks[j] + 1
      /\ \A i \in Kinds : i # k /\ i # j => checks'[i] = checks[i]
  BY <1>1, <1>2 DEF TypeOK
<1>5. checks' \in [Kinds -> Nat]
  BY <1>1, <1>2, <1>3 DEF TypeOK
<1> HIDE DEF j
<1>6. ASSUME NEW i \in Kinds, checks[i] > 0
      PROVE  \E l \in Kinds : l.by = i.by /\ l.machine = i.machine /\ checks'[l] > 0
  <2>1. CASE i = k
    BY <1>1, <1>3, <1>4, <2>1
  <2>2. CASE i # k
    BY <1>1, <1>3, <1>4, <1>6, <2>2
  <2> QED
    BY <2>1, <2>2
<1>7. k.by = "loop" => \A i \in Kinds : i.by = "caller" => checks'[i] = checks[i]
  BY <1>1, <1>4
<1> QED
  BY <1>5, <1>6, <1>7

\* The initial states satisfy the invariant.
LEMMA HealthInit == Init => HealthIInv
BY DEF Init, HealthIInv, TypeOK, CallerChecks, HealthCheckCovers, Waited

\* A goroutine goes on; what it does to its machine does not matter.
LEMMA GoingOnKeeps ==
    ASSUME HealthIInv, NEW k \in Kinds, NEW todo \in Todo, k.todo # todo,
           checks[k] > 0, Proceed(k, todo), machine' \in [Machines -> States]
    PROVE  HealthIInv'
<1> USE DEF HealthIInv
<1>1. UNCHANGED <<loop, quit, caller, listed, statuses>>
  BY DEF Proceed
<1>2. /\ checks' \in [Kinds -> Nat]
      /\ k.by = "loop" => \A i \in Kinds : i.by = "caller" => checks'[i] = checks[i]
      /\ \A i \in Kinds : checks[i] > 0 => \E j \in Kinds :
            j.by = i.by /\ j.machine = i.machine /\ checks'[j] > 0
  BY ProceedKeeps
<1>3. TypeOK'
  BY <1>1, <1>2 DEF TypeOK
<1>4. k.by = "caller" => caller = "wait"
  BY DEF CallerChecks, Waited
<1>5. k.by \in {"loop", "caller"}
  BY DEF Kinds
<1>6. (caller # "wait" => Waited)'
  BY <1>1, <1>2, <1>4, <1>5 DEF CallerChecks, Waited
<1>7. (caller = "wait" => \A m \in listed :
          \/ statuses[m] # "none"
          \/ \E i \in Kinds : i.by = "caller" /\ i.machine = m /\ checks[i] > 0)'
  BY <1>1, <1>2 DEF CallerChecks
<1>8. HealthCheckCovers'
  BY <1>1 DEF HealthCheckCovers
<1> QED
  BY <1>3, <1>6, <1>7, <1>8 DEF CallerChecks

\* A goroutine stores its result and ends: its machine has a status now.
LEMMA StoreKeeps ==
    ASSUME HealthIInv, NEW k \in Kinds, StoreStatus(k)
    PROVE  HealthIInv'
<1> USE DEF HealthIInv, StoreStatus
<1>1. k.machine \in Machines
  BY DEF Kinds
<1>2. /\ checks[k] \in Nat /\ checks' \in [Kinds -> Nat]
      /\ \A i \in Kinds : i # k => checks'[i] = checks[i]
  BY DEF TypeOK
<1>3. /\ statuses'[k.machine] # "none"
      /\ \A m \in Machines : statuses[m] # "none" => statuses'[m] # "none"
  BY <1>1 DEF TypeOK
<1>4. TypeOK'
  BY <1>1, <1>2 DEF TypeOK
<1>5. (caller # "wait" => Waited)'
  BY <1>2 DEF CallerChecks, Waited
<1>6. (caller = "wait" => \A m \in listed :
          \/ statuses[m] # "none"
          \/ \E i \in Kinds : i.by = "caller" /\ i.machine = m /\ checks[i] > 0)'
  BY <1>2, <1>3 DEF CallerChecks, TypeOK
<1>7. HealthCheckCovers'
  BY <1>3 DEF HealthCheckCovers, TypeOK
<1> QED
  BY <1>4, <1>5, <1>6, <1>7 DEF CallerChecks

\* Every step of a goroutine, with calls that succeed or fail.
LEMMA CheckKeeps ==
    ASSUME HealthIInv, NEW k \in Kinds, checkDomain(k) \/ CheckFails(k)
    PROVE  HealthIInv'
<1> USE DEF At
<1>1. machine \in [Machines -> States] /\ k.machine \in Machines
  BY DEF HealthIInv, TypeOK, Kinds
<1>2. {"healthy", "unhealthy", "poll"} \subseteq Todo
  BY DEF Todo
<1>3. CASE recoverDomain(k)
  <2>1. machine' \in [Machines -> States]
    BY <1>1, <1>3 DEF recoverDomain, StartDomain, States
  <2> QED
    BY <1>2, <1>3, <2>1, GoingOnKeeps DEF recoverDomain
<1>4. CASE LookForAddress(k)
  BY <1>1, <1>2, <1>4, GoingOnKeeps DEF LookForAddress
<1>5. CASE LookAgain(k) \/ Deadline(k)
  BY <1>1, <1>2, <1>5, GoingOnKeeps DEF LookAgain, Deadline
<1>6. CASE StoreStatus(k)
  BY <1>6, StoreKeeps
<1>7. CASE CheckFails(k)
  BY <1>1, <1>2, <1>7, GoingOnKeeps DEF CheckFails
<1> QED
  BY <1>3, <1>4, <1>5, <1>6, <1>7 DEF checkDomain, WaitForDomainIP

\* A round of the loop adds only goroutines of the loop.
LEMMA RoundKeeps ==
    ASSUME HealthIInv, NEW found \in SUBSET Present, Round(found)
    PROVE  HealthIInv'
<1> USE DEF HealthIInv, Round
<1>1. /\ checks' \in [Kinds -> Nat]
      /\ \A k \in Kinds : k.by # "loop" => checks'[k] = checks[k]
  BY SpawnAdds
<1>2. TypeOK' /\ HealthCheckCovers'
  BY <1>1 DEF TypeOK, HealthCheckCovers
<1>3. CallerChecks'
  BY <1>1 DEF CallerChecks, Waited
<1> QED
  BY <1>2, <1>3

\* A call of HealthCheck starts one goroutine for each machine it found.
LEMMA CallKeeps == ASSUME HealthIInv, HealthCheck PROVE HealthIInv'
<1> USE DEF HealthIInv, HealthCheck
<1>1. CASE caller' = "error" /\ UNCHANGED <<listed, checks>>
  BY <1>1 DEF TypeOK, CallerChecks, Waited, HealthCheckCovers
<1>2. ASSUME NEW found \in SUBSET Present, caller' = "wait", listed' = found,
             Spawn("caller", found)
      PROVE  HealthIInv'
  <2>1. /\ checks' \in [Kinds -> Nat]
        /\ \A m \in found : \E k \in Kinds :
              k.by = "caller" /\ k.machine = m /\ checks'[k] > 0
    BY <1>2, SpawnAdds
  <2>2. TypeOK'
    BY <1>2, <2>1 DEF TypeOK, Present
  <2>3. CallerChecks' /\ HealthCheckCovers'
    BY <1>2, <2>1 DEF CallerChecks, HealthCheckCovers
  <2> QED
    BY <2>2, <2>3
<1> QED
  BY <1>1, <1>2

\* Every step preserves the invariant.
LEMMA HealthNext == HealthIInv /\ [Next]_vars => HealthIInv'
<1> SUFFICES ASSUME HealthIInv, [Next]_vars PROVE HealthIInv'
  OBVIOUS
<1> USE DEF HealthIInv
<1>1. CASE checkAll \/ ListingMisses
  BY <1>1, RoundKeeps DEF checkAll, ListingMisses
<1>2. CASE Stop \/ LoopEnds
  BY <1>2 DEF Stop, LoopEnds, TypeOK, CallerChecks, Waited, HealthCheckCovers
<1>3. CASE HealthCheck
  BY <1>3, CallKeeps
<1>4. CASE HealthCheckReturns
  <2>1. \A m \in listed : statuses[m] # "none"
    BY <1>4 DEF HealthCheckReturns, CallerChecks, Waited, TypeOK
  <2> QED
    BY <1>4, <2>1 DEF HealthCheckReturns, TypeOK, CallerChecks, Waited,
       HealthCheckCovers
<1>5. ASSUME NEW k \in Kinds, checkDomain(k) \/ CheckFails(k) PROVE HealthIInv'
  BY <1>5, CheckKeeps
<1>6. ASSUME NEW m \in Machines, MachineChanges(m) PROVE HealthIInv'
  <2>1. \A s \in Change[machine[m]] : s \in States
    BY DEF TypeOK, States, Change
  <2> QED
    BY <1>6, <2>1 DEF MachineChanges, TypeOK, CallerChecks, Waited, HealthCheckCovers
<1>7. CASE UNCHANGED vars
  BY <1>7 DEF vars, TypeOK, CallerChecks, Waited, HealthCheckCovers
<1> QED
  BY <1>1, <1>2, <1>3, <1>4, <1>5, <1>6, <1>7 DEF Next, CallsFail

\* HealthIInv is an invariant: a machine that a running HealthCheck found and
\* that has no status has a goroutine of that call (checker.go:155-163).
THEOREM HealthInductive == Spec => []HealthIInv
<1> QED
  BY HealthInit, HealthNext, PTL DEF Spec

\* Every variable of the checker keeps its shape, for any number of machines
\* and overlapping rounds.
THEOREM HealthTypeOK == Spec => []TypeOK
<1>1. HealthIInv => TypeOK
  BY DEF HealthIInv
<1> QED
  BY <1>1, HealthInductive, PTL

\* HealthCheck returns a status for every machine it found, for any number of
\* machines and with any number of rounds of the loop in between
\* (checker.go:149-166).
THEOREM CallerSeesAll == Spec => []HealthCheckCovers
<1>1. HealthIInv => HealthCheckCovers
  BY DEF HealthIInv
<1> QED
  BY <1>1, HealthInductive, PTL

(***************************************************************************)
(* Why the goroutines come to rest: what the fairness of StoppedGoesQuiet  *)
(* and HealthCheckEnds is applied to.                                      *)
(***************************************************************************)
\* The goroutines for one machine at one thing, and the steps they have left.
Count(by, m, todo) == checks[[machine |-> m, by |-> by, todo |-> todo]]
StepsLeft(by, m) ==
    3 * Count(by, m, "address") + 2 * Count(by, m, "poll") + 2 * Count(by, m, "recover")
      + Count(by, m, "healthy") + Count(by, m, "unhealthy")

\* The goroutines for a machine stay what they are, or have less to do.
WindsDown(by, m) ==
    \/ \A todo \in Todo : Count(by, m, todo)' = Count(by, m, todo)
    \/ StepsLeft(by, m) \in Nat /\ StepsLeft(by, m)' < StepsLeft(by, m)

\* The values of counts are numbers, and every kind is one of them.
LEMMA CountIsNat ==
    ASSUME TypeOK, NEW by \in {"loop", "caller"}, NEW m \in Machines
    PROVE  /\ \A todo \in Todo : /\ [machine |-> m, by |-> by, todo |-> todo] \in Kinds
                                 /\ Count(by, m, todo) \in Nat
           /\ StepsLeft(by, m) \in Nat
<1>1. \A todo \in Todo : /\ [machine |-> m, by |-> by, todo |-> todo] \in Kinds
                         /\ Count(by, m, todo) \in Nat
  BY DEF TypeOK, Kinds, Count
<1>2. StepsLeft(by, m) \in Nat
  BY <1>1 DEF StepsLeft, Todo
<1> QED
  BY <1>1, <1>2

LEMMA KindIsRecord ==
    ASSUME NEW k \in Kinds, NEW todo
    PROVE  /\ k = [machine |-> k.machine, by |-> k.by, todo |-> k.todo]
           /\ [k EXCEPT !.todo = todo] = [machine |-> k.machine, by |-> k.by, todo |-> todo]
           /\ k.machine \in Machines /\ k.by \in {"loop", "caller"} /\ k.todo \in Todo
<1>1. PICK m \in Machines, by \in {"loop", "caller"}, t \in Todo :
        k = [machine |-> m, by |-> by, todo |-> t]
  BY Zenon DEF Kinds
<1>2. k.machine = m /\ k.by = by /\ k.todo = t
  BY <1>1
<1>3. [k EXCEPT !.todo = todo] = [machine |-> m, by |-> by, todo |-> todo]
  BY <1>1
<1> QED
  BY <1>1, <1>2, <1>3

\* A goroutine that goes on is counted where it goes, and no other count changes.
LEMMA ProceedCounts ==
    ASSUME TypeOK, NEW k \in Kinds, NEW todo \in Todo, k.todo # todo, Proceed(k, todo),
           NEW by \in {"loop", "caller"}, NEW m \in Machines
    PROVE  /\ k.machine = m /\ k.by = by =>
                 /\ Count(by, m, k.todo)' = Count(by, m, k.todo) - 1
                 /\ Count(by, m, todo)' = Count(by, m, todo) + 1
                 /\ \A t \in Todo : t # k.todo /\ t # todo =>
                       Count(by, m, t)' = Count(by, m, t)
           /\ ~(k.machine = m /\ k.by = by) =>
                 \A t \in Todo : Count(by, m, t)' = Count(by, m, t)
<1> DEFINE j == [machine |-> k.machine, by |-> k.by, todo |-> todo]
           i(t) == [machine |-> m, by |-> by, todo |-> t]
<1>1. [k EXCEPT !.todo = todo] = j
  BY KindIsRecord
<1>2. /\ j \in Kinds /\ j # k
      /\ checks' = [checks EXCEPT ![k] = @ - 1, ![j] = @ + 1]
  <2>1. j \in Kinds /\ j.todo = todo /\ k.todo # todo
    BY <1>1, KindMoves
  <2>2. checks' = [checks EXCEPT ![k] = @ - 1, ![j] = @ + 1]
    BY <1>1 DEF Proceed
  <2> QED
    BY <2>1, <2>2
<1>3. /\ checks'[k] = checks[k] - 1 /\ checks'[j] = checks[j] + 1
      /\ \A l \in Kinds : l # k /\ l # j => checks'[l] = checks[l]
  BY <1>2 DEF TypeOK
<1>4. CASE k.machine = m /\ k.by = by
  <2>1. /\ Count(by, m, k.todo)' = Count(by, m, k.todo) - 1
        /\ Count(by, m, todo)' = Count(by, m, todo) + 1
    BY <1>3, <1>4, KindIsRecord DEF Count
  <2>2. ASSUME NEW t \in Todo, t # k.todo, t # todo
        PROVE  Count(by, m, t)' = Count(by, m, t)
    <3>1. i(t) \in Kinds /\ i(t).todo = t /\ j.todo = todo
      BY CountIsNat
    <3>2. i(t) # k /\ i(t) # j
      BY <2>2, <3>1
    <3> QED
      BY <1>3, <3>1, <3>2 DEF Count
  <2> QED
    BY <1>4, <2>1, <2>2
<1>5. CASE ~(k.machine = m /\ k.by = by)
  <2>1. ASSUME NEW t \in Todo PROVE Count(by, m, t)' = Count(by, m, t)
    <3>1. /\ i(t) \in Kinds /\ i(t).machine = m /\ i(t).by = by
          /\ j.machine = k.machine /\ j.by = k.by
      BY CountIsNat
    <3>2. i(t) # k /\ i(t) # j
      BY <1>5, <3>1
    <3> QED
      BY <1>3, <3>1, <3>2 DEF Count
  <2> QED
    BY <1>5, <2>1
<1> QED
  BY <1>4, <1>5

\* A goroutine that stores its result is no longer counted.
LEMMA StoreCounts ==
    ASSUME TypeOK, NEW k \in Kinds, StoreStatus(k),
           NEW by \in {"loop", "caller"}, NEW m \in Machines
    PROVE  /\ k.todo \in {"healthy", "unhealthy"}
           /\ k.machine = m /\ k.by = by =>
                 /\ Count(by, m, k.todo)' = Count(by, m, k.todo) - 1
                 /\ \A t \in Todo : t # k.todo => Count(by, m, t)' = Count(by, m, t)
           /\ ~(k.machine = m /\ k.by = by) =>
                 \A t \in Todo : Count(by, m, t)' = Count(by, m, t)
<1> DEFINE i(t) == [machine |-> m, by |-> by, todo |-> t]
<1>1. /\ checks'[k] = checks[k] - 1 /\ k.todo \in {"healthy", "unhealthy"}
      /\ \A l \in Kinds : l # k => checks'[l] = checks[l]
  BY DEF StoreStatus, TypeOK
<1>2. CASE k.machine = m /\ k.by = by
  <2>1. Count(by, m, k.todo)' = Count(by, m, k.todo) - 1
    BY <1>1, <1>2, KindIsRecord DEF Count
  <2>2. ASSUME NEW t \in Todo, t # k.todo PROVE Count(by, m, t)' = Count(by, m, t)
    <3>1. i(t) \in Kinds /\ i(t) # k
      BY <2>2, CountIsNat
    <3> QED
      BY <1>1, <3>1 DEF Count
  <2> QED
    BY <1>1, <1>2, <2>1, <2>2
<1>3. CASE ~(k.machine = m /\ k.by = by)
  <2>1. ASSUME NEW t \in Todo PROVE Count(by, m, t)' = Count(by, m, t)
    <3>1. i(t) \in Kinds /\ i(t) # k
      BY <1>3, CountIsNat
    <3> QED
      BY <1>1, <3>1 DEF Count
  <2> QED
    BY <1>1, <1>3, <2>1
<1> QED
  BY <1>2, <1>3

\* A goroutine that goes on goes on to something shorter.
LEMMA GoingOnWindsDown ==
    ASSUME TypeOK, NEW k \in Kinds, NEW todo \in Todo, Proceed(k, todo),
           \/ k.todo = "recover" /\ todo \in {"unhealthy", "healthy"}
           \/ k.todo = "address" /\ todo \in {"poll", "unhealthy", "healthy"}
           \/ k.todo = "poll" /\ todo \in {"unhealthy", "healthy"},
           NEW by \in {"loop", "caller"}, NEW m \in Machines
    PROVE  WindsDown(by, m)
<1>1. /\ \A t \in Todo : Count(by, m, t) \in Nat
      /\ StepsLeft(by, m) \in Nat
  BY CountIsNat
<1>2. CASE k.machine = m /\ k.by = by
  <2>1. /\ Count(by, m, k.todo)' = Count(by, m, k.todo) - 1
        /\ Count(by, m, todo)' = Count(by, m, todo) + 1
        /\ \A t \in Todo : t # k.todo /\ t # todo => Count(by, m, t)' = Count(by, m, t)
    BY <1>2, ProceedCounts
  <2>2. StepsLeft(by, m)' < StepsLeft(by, m)
    BY <1>1, <2>1 DEF StepsLeft, Todo
  <2> QED
    BY <1>1, <2>2 DEF WindsDown
<1>3. CASE ~(k.machine = m /\ k.by = by)
  BY <1>3, ProceedCounts DEF WindsDown
<1> QED
  BY <1>2, <1>3

\* A goroutine that stores its result ends.
LEMMA StoringWindsDown ==
    ASSUME TypeOK, NEW k \in Kinds, StoreStatus(k),
           NEW by \in {"loop", "caller"}, NEW m \in Machines
    PROVE  WindsDown(by, m)
<1>1. /\ \A t \in Todo : Count(by, m, t) \in Nat
      /\ StepsLeft(by, m) \in Nat
  BY CountIsNat
<1>2. CASE k.machine = m /\ k.by = by
  <2>1. StepsLeft(by, m)' < StepsLeft(by, m)
    BY <1>1, <1>2, StoreCounts DEF StepsLeft, Todo
  <2> QED
    BY <1>1, <2>1 DEF WindsDown
<1>3. CASE ~(k.machine = m /\ k.by = by)
  BY <1>3, StoreCounts DEF WindsDown
<1> QED
  BY <1>2, <1>3

LEMMA CheckWindsDown ==
    ASSUME TypeOK, NEW k \in Kinds, checkDomain(k) \/ CheckFails(k),
           NEW by \in {"loop", "caller"}, NEW m \in Machines
    PROVE  WindsDown(by, m)
<1> USE DEF At
<1>1. {"healthy", "unhealthy", "poll"} \subseteq Todo
  BY DEF Todo
<1>2. CASE StoreStatus(k)
  BY <1>2, StoringWindsDown
<1>3. CASE recoverDomain(k)
  BY <1>1, <1>3, GoingOnWindsDown DEF recoverDomain
<1>4. CASE WaitForDomainIP(k)
  BY <1>1, <1>4, GoingOnWindsDown DEF WaitForDomainIP, LookForAddress, LookAgain, Deadline
<1>5. CASE CheckFails(k)
  BY <1>1, <1>5, GoingOnWindsDown DEF CheckFails
<1> QED
  BY <1>2, <1>3, <1>4, <1>5 DEF checkDomain

\* A step that starts no goroutine of a kind winds that kind down.
LEMMA StepWindsDown ==
    ASSUME TypeOK, [Next]_vars, NEW m \in Machines
    PROVE  /\ loop = "ended" => WindsDown("loop", m)
           /\ caller = "wait" => WindsDown("caller", m)
<1>1. ASSUME NEW by \in {"loop", "caller"},
             \A k \in Kinds : k.by = by => checks'[k] = checks[k]
      PROVE  WindsDown(by, m)
  BY <1>1, CountIsNat DEF WindsDown, Count
<1>2. CASE checkAll \/ ListingMisses
  <2>1. loop = "select" /\ \A k \in Kinds : k.by = "caller" => checks'[k] = checks[k]
    BY <1>2, SpawnAdds DEF checkAll, ListingMisses, Round
  <2> QED
    BY <1>1, <2>1
<1>3. CASE HealthCheck
  <2>1. caller # "wait" /\ \A k \in Kinds : k.by = "loop" => checks'[k] = checks[k]
    BY <1>3, SpawnAdds DEF HealthCheck
  <2> QED
    BY <1>1, <2>1
<1>4. CASE UNCHANGED checks
  BY <1>1, <1>4
<1>5. ASSUME NEW k \in Kinds, checkDomain(k) \/ CheckFails(k)
      PROVE  WindsDown("loop", m) /\ WindsDown("caller", m)
  BY <1>5, CheckWindsDown
<1> QED
  BY <1>2, <1>3, <1>4, <1>5
  DEF Next, CallsFail, Stop, LoopEnds, HealthCheckReturns, MachineChanges, vars

\* After the loop has ended (checker.go, checkLoop) none of its goroutines is
\* started again, and whatever one of them does is a step of the few it has
\* left: they come to rest when they run.  So do those of a call of HealthCheck
\* while it waits for them.
THEOREM GoroutinesWindDown ==
    Spec => [][\A m \in Machines :
                  /\ loop = "ended" => WindsDown("loop", m)
                  /\ caller = "wait" => WindsDown("caller", m)]_vars
<1>1. TypeOK /\ [Next]_vars =>
        [\A m \in Machines : /\ loop = "ended" => WindsDown("loop", m)
                             /\ caller = "wait" => WindsDown("caller", m)]_vars
  BY StepWindsDown
<1> QED
  BY <1>1, HealthTypeOK, PTL DEF Spec

\* The loop is told to end once, and an ended loop stays ended (Stop and the
\* cancellation of the context).
THEOREM EndIsFinal ==
    Spec => [][/\ quit # "no" => quit' = quit
               /\ loop = "ended" => loop' = "ended"]_vars
<1>1. [Next]_vars => [/\ quit # "no" => quit' = quit
                      /\ loop = "ended" => loop' = "ended"]_vars
  BY DEF Next, checkAll, Round, Stop, LoopEnds, HealthCheck, HealthCheckReturns, checkDomain,
     recoverDomain, WaitForDomainIP, LookForAddress, LookAgain, Deadline, StoreStatus,
     Proceed, MachineChanges, CallsFail, ListingMisses, CheckFails, vars
<1> QED
  BY <1>1, PTL DEF Spec

(***************************************************************************)
(* Why statuses converge and machines are restarted: what the fairness of  *)
(* the rounds is applied to in Converges and Recovered.                    *)
(***************************************************************************)
\* A round or a call adds one goroutine for each machine of its listing.
LEMMA SpawnCounts ==
    ASSUME TypeOK, NEW b \in {"loop", "caller"}, NEW found \in SUBSET Present,
           Spawn(b, found),
           NEW by \in {"loop", "caller"}, NEW m \in Machines, NEW todo \in Todo
    PROVE  Count(by, m, todo)' =
               IF by = b /\ m \in found /\ todo = Branch[machine[m]]
               THEN Count(by, m, todo) + 1 ELSE Count(by, m, todo)
<1> DEFINE k == [machine |-> m, by |-> by, todo |-> todo]
<1>1. k \in Kinds /\ k.machine = m /\ k.by = by /\ k.todo = todo
  BY CountIsNat
<1> QED
  BY <1>1 DEF Spawn, Count

\* Goroutines that may yet call a machine unhealthy that is up.
Doubts(by, m) ==
    Count(by, m, "recover") + Count(by, m, "poll") + Count(by, m, "unhealthy")

\* A status turns to healthy, or costs one of the doubts, which get no more.
Settles(m) ==
    /\ \A by \in {"loop", "caller"} : Doubts(by, m) \in Nat /\ Doubts(by, m)' <= Doubts(by, m)
    /\ \/ statuses'[m] \in {statuses[m], "healthy"}
       \/ \E by \in {"loop", "caller"} : Doubts(by, m)' < Doubts(by, m)

LEMMA UpSettles ==
    ASSUME TypeOK, [Next]_vars, ~CallsFail, NEW m \in Machines,
           machine[m] = "up", machine'[m] = "up"
    PROVE  Settles(m)
<1> USE DEF At
<1>1. /\ {"recover", "address", "poll", "healthy", "unhealthy"} \subseteq Todo
      /\ \A by \in {"loop", "caller"} : Doubts(by, m) \in Nat
      /\ \A by \in {"loop", "caller"}, t \in Todo : Count(by, m, t) \in Nat
  <2>1. {"recover", "address", "poll", "healthy", "unhealthy"} \subseteq Todo
    BY DEF Todo
  <2>2. ASSUME NEW by \in {"loop", "caller"}
        PROVE  \A t \in Todo : Count(by, m, t) \in Nat
    BY CountIsNat
  <2> QED
    BY <2>1, <2>2 DEF Doubts
<1>2. ASSUME statuses'[m] = statuses[m],
             \A by \in {"loop", "caller"} : Doubts(by, m)' <= Doubts(by, m)
      PROVE  Settles(m)
  BY <1>1, <1>2 DEF Settles
<1>3. CASE UNCHANGED <<checks, statuses>>
  BY <1>1, <1>2, <1>3 DEF Doubts, Count
<1>4. ASSUME NEW b \in {"loop", "caller"}, NEW found \in SUBSET Present, Spawn(b, found),
             UNCHANGED statuses
      PROVE  Settles(m)
  <2>1. Branch[machine[m]] = "address"
    BY DEF Branch
  <2>2. ASSUME NEW by \in {"loop", "caller"} PROVE Doubts(by, m)' = Doubts(by, m)
    BY <1>1, <1>4, <2>1, SpawnCounts DEF Doubts
  <2> QED
    BY <1>1, <1>2, <1>4, <2>2
<1>5. ASSUME NEW k \in Kinds, NEW todo \in Todo, Proceed(k, todo), k.todo # todo,
             k.machine = m =>
                 todo = "healthy" \/ (todo = "unhealthy" /\ k.todo \in {"recover", "poll"})
      PROVE  Settles(m)
  <2>1. ASSUME NEW by \in {"loop", "caller"} PROVE Doubts(by, m)' <= Doubts(by, m)
    <3>1. CASE k.machine = m /\ k.by = by
      <4>1. /\ Count(by, m, k.todo)' = Count(by, m, k.todo) - 1
            /\ Count(by, m, todo)' = Count(by, m, todo) + 1
            /\ \A t \in Todo : t # k.todo /\ t # todo =>
                  Count(by, m, t)' = Count(by, m, t)
        BY <1>5, <3>1, ProceedCounts
      <4>2. k.todo \in Todo
        BY KindIsRecord
      <4> QED
        BY <1>1, <1>5, <3>1, <4>1, <4>2 DEF Doubts, Todo
    <3>2. CASE ~(k.machine = m /\ k.by = by)
      BY <1>1, <1>5, <3>2, ProceedCounts DEF Doubts
    <3> QED
      BY <3>1, <3>2
  <2>2. statuses'[m] = statuses[m]
    BY <1>5 DEF Proceed
  <2> QED
    BY <1>2, <2>1, <2>2
<1>6. ASSUME NEW k \in Kinds, StoreStatus(k) PROVE Settles(m)
  <2>1. statuses'[m] = IF k.machine = m THEN k.todo ELSE statuses[m]
    BY <1>6 DEF StoreStatus, TypeOK
  <2>2. ASSUME NEW by \in {"loop", "caller"}
        PROVE  /\ Doubts(by, m)' <= Doubts(by, m)
               /\ k.machine = m /\ k.by = by /\ k.todo = "unhealthy" =>
                     Doubts(by, m)' < Doubts(by, m)
    BY <1>1, <1>6, StoreCounts DEF Doubts
  <2>3. k.by \in {"loop", "caller"} /\ k.todo \in {"healthy", "unhealthy"}
    BY <1>6, KindIsRecord DEF StoreStatus
  <2> QED
    BY <1>1, <2>1, <2>2, <2>3 DEF Settles
<1>7. ASSUME NEW k \in Kinds, checkDomain(k) PROVE Settles(m)
  <2>1. CASE recoverDomain(k)
    BY <1>1, <1>5, <2>1 DEF recoverDomain
  <2>2. CASE LookForAddress(k)
    BY <1>1, <1>5, <2>2 DEF LookForAddress
  <2>3. CASE LookAgain(k) \/ Deadline(k)
    BY <1>1, <1>5, <2>3 DEF LookAgain, Deadline
  <2> QED
    BY <1>6, <1>7, <2>1, <2>2, <2>3 DEF checkDomain, WaitForDomainIP
<1>8. CASE checkAll
  <2>1. Present \in SUBSET Present
    OBVIOUS
  <2> QED
    BY <1>4, <1>8, <2>1 DEF checkAll, Round
<1>9. CASE HealthCheck
  BY <1>3, <1>4, <1>9 DEF HealthCheck
<1> QED
  BY <1>3, <1>7, <1>8, <1>9
  DEF Next, Stop, LoopEnds, HealthCheckReturns, MachineChanges, vars

\* While a machine stays up and no call fails, every result that calls it
\* unhealthy uses up one of finitely many goroutines that were on their way to
\* one, and no round adds another (checkDomain decides by the listing): older
\* checks overwrite the newer status only that often.
THEOREM DoubtsRunOut ==
    Spec => [][\A m \in Machines :
                  ~CallsFail /\ machine[m] = "up" /\ machine'[m] = "up" => Settles(m)]_vars
<1>1. TypeOK /\ [Next]_vars =>
        [\A m \in Machines :
            ~CallsFail /\ machine[m] = "up" /\ machine'[m] = "up" => Settles(m)]_vars
  BY UpSettles
<1> QED
  BY <1>1, HealthTypeOK, PTL DEF Spec

\* A recovery of a machine that is off is there until it has started it.
LEMMA RecoveryStays ==
    ASSUME TypeOK, [Next]_vars, ~CallsFail, NEW m \in Machines,
           machine[m] = "shutoff", machine'[m] = "shutoff",
           NEW by \in {"loop", "caller"}
    PROVE  Count(by, m, "recover")' >= Count(by, m, "recover")
<1> USE DEF At
<1>1. /\ {"recover", "address", "poll", "healthy", "unhealthy"} \subseteq Todo
      /\ \A t \in Todo : Count(by, m, t) \in Nat
  BY CountIsNat DEF Todo
<1>2. CASE UNCHANGED checks
  BY <1>1, <1>2 DEF Count
<1>3. ASSUME NEW b \in {"loop", "caller"}, NEW found \in SUBSET Present, Spawn(b, found)
      PROVE  Count(by, m, "recover")' >= Count(by, m, "recover")
  BY <1>1, <1>3, SpawnCounts
<1>4. ASSUME NEW k \in Kinds, NEW todo \in Todo, Proceed(k, todo), k.todo # todo,
             k.machine = m => k.todo # "recover"
      PROVE  Count(by, m, "recover")' >= Count(by, m, "recover")
  BY <1>1, <1>4, ProceedCounts
<1>5. ASSUME NEW k \in Kinds, recoverDomain(k)
      PROVE  k.machine # m
  <2> SUFFICES ASSUME k.machine = m PROVE FALSE
    OBVIOUS
  <2> QED
    BY <1>5 DEF recoverDomain, StartDomain, TypeOK
<1>6. ASSUME NEW k \in Kinds, checkDomain(k)
      PROVE  Count(by, m, "recover")' >= Count(by, m, "recover")
  <2>1. CASE recoverDomain(k)
    BY <1>1, <1>4, <1>5, <2>1 DEF recoverDomain
  <2>2. CASE WaitForDomainIP(k)
    BY <1>1, <1>4, <2>2 DEF WaitForDomainIP, LookForAddress, LookAgain, Deadline
  <2>3. CASE StoreStatus(k)
    BY <1>1, <2>3, StoreCounts
  <2> QED
    BY <1>6, <2>1, <2>2, <2>3 DEF checkDomain
<1>7. CASE checkAll
  <2>1. Present \in SUBSET Present
    OBVIOUS
  <2> QED
    BY <1>3, <1>7, <2>1 DEF checkAll, Round
<1>8. CASE HealthCheck
  BY <1>2, <1>3, <1>8 DEF HealthCheck
<1> QED
  BY <1>2, <1>6, <1>7, <1>8
  DEF Next, Stop, LoopEnds, HealthCheckReturns, MachineChanges, vars

\* Every round that lists a machine as off starts a recovery of it, and as long
\* as no call fails none of them ends before the machine was started, by it
\* or by somebody else (checkDomain, recoverDomain).
THEOREM RecoveryIsKept ==
    Spec => [][\A m \in Machines : machine[m] = "shutoff" =>
                  /\ checkAll => Count("loop", m, "recover")' = Count("loop", m, "recover") + 1
                  /\ ~CallsFail /\ machine'[m] = "shutoff" =>
                        \A by \in {"loop", "caller"} :
                            Count(by, m, "recover")' >= Count(by, m, "recover")]_vars
<1>1. ASSUME TypeOK, NEW m \in Machines, machine[m] = "shutoff", checkAll
      PROVE  Count("loop", m, "recover")' = Count("loop", m, "recover") + 1
  <2>1. m \in Present /\ Present \in SUBSET Present /\ "recover" = Branch[machine[m]]
    BY <1>1 DEF Present, Branch
  <2>2. Spawn("loop", Present) /\ "recover" \in Todo
    BY <1>1 DEF checkAll, Round, Todo
  <2> QED
    BY <1>1, <2>1, <2>2, SpawnCounts
<1>2. TypeOK /\ [Next]_vars =>
        [\A m \in Machines : machine[m] = "shutoff" =>
            /\ checkAll => Count("loop", m, "recover")' = Count("loop", m, "recover") + 1
            /\ ~CallsFail /\ machine'[m] = "shutoff" =>
                  \A by \in {"loop", "caller"} :
                      Count(by, m, "recover")' >= Count(by, m, "recover")]_vars
  BY <1>1, RecoveryStays
<1> QED
  BY <1>2, HealthTypeOK, PTL DEF Spec
================================================================================
